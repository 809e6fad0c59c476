SPECIFICATION Spec
CONSTANTS
  a = a
  b = b
  r1 = r1
  r2 = r2
  main = main
  Conns = {a, b}
  Threads = {r1, main}
  Free = Free
  ReactorOf <- OnOneReactor
  SendsTo <- MainSendsToB
  Capacity = 2
INVARIANTS TypeOK WaitsUpward PrivateLeftIsAwaited
CHECK_DEADLOCK FALSE
