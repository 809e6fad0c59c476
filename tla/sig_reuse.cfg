SPECIFICATION Spec
CONSTANTS
  a = a
  b = b
  d = d
  k1 = k1
  k2 = k2
  k3 = k3
  r1 = r1
  r2 = r2
  Conns = {a, b, d}
  Codes = {k1}
  NoCode = NoCode
  NoConn = NoConn
  Reactors = {r1, r2}
  ReactorOf <- OnTwoReactors
  Asked = {k1, NoCode}
SYMMETRY TwoReactorSymmetry
VIEW View
INVARIANTS TypeOK RegisteredAreOpen 
PROPERTY ImplementsDirectory
CHECK_DEADLOCK FALSE
