SPECIFICATION OrderlySpec
CONSTANTS
  a = a
  b = b
  d = d
  k1 = k1
  k2 = k2
  k3 = k3
  r1 = r1
  r2 = r2
  Conns = {a, b, d}
  Codes = {k1, k2, k3}
  NoCode = NoCode
  NoConn = NoConn
  Reactors = {r1}
  ReactorOf <- OnOneReactor
  Asked <- Everything
SYMMETRY OneReactorSymmetry
VIEW View
INVARIANT BusyHavePartners
PROPERTIES ClosedIsFinal LeaveReachesAll
CHECK_DEADLOCK FALSE
