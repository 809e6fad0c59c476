SPECIFICATION OrderlySpec
CONSTANTS
  c1 = c1
  c2 = c2
  c3 = c3
  r0 = r0
  r1 = r1
  MainOf = r0
  None = None
  Conns = {c1, c2}
  Paths = {p, q}
  Sessions = {s1, s2}
  Reactors = {r0}
  ReactorOf <- OnMain
PROPERTIES EmptySessionsGo ClosedAreDestroyed
