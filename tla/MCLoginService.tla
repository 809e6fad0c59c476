--------------------------- MODULE MCLoginService ---------------------------
EXTENDS LoginService

CONSTANTS p1, p2, p3, s1, s2

\* The admins are at different servers.
MCUses == [a \in Admins |-> IF a = p2 THEN s1 ELSE s2]

\* Clocks at the limit, and a second ahead.
MCSkews == {-60, 1}
=============================================================================
