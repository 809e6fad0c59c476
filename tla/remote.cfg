SPECIFICATION RemoteSpec
CONSTANTS
  a = a
  b = b
  d = d
  e = e
  k = k
  fixed = fixed
  r1 = r1
  Conns = {a, b, d, e}
  Codes = {k, fixed}
  NoCode = NoCode
  NoConn = NoConn
  Reactors = {r1}
  ReactorOf <- OnOneReactor
  Asked = {k, fixed}
  Controlled = {d, e}
  CodeOf <- Wanted
  JoinId = fixed
INVARIANT RolesAgree
PROPERTIES WatcherIsTold StopsWhenAlone
CHECK_DEADLOCK FALSE
