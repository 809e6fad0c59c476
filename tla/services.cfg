SPECIFICATION Spec
CONSTANTS
  p1 = p1
  p2 = p2
  p3 = p3
  s1 = s1
  s2 = s2
  Uses <- MCUses
  Clients = {p1}
  Admins = {p2, p3}
  Servers = {s1, s2}
  Codes = {k1, k2}
  OwnCode = k1
  Garbled = k2
  Balancer = bal
  None = None
  Skews <- MCSkews
  FreeMems = {20}
  MaxClicks = 2
  MaxAsks = 1
INVARIANT TypeOK
PROPERTIES ImplementsRegistry AskedIsAnswered
CHECK_DEADLOCK FALSE
