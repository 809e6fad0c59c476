------------------------- MODULE MCRemoteControl -------------------------
(* Two controllers, and a client that is controlled and its restart. *)
EXTENDS RemoteControl, TLC

CONSTANTS a, b, d, e, k, fixed, r1

OnOneReactor == [c \in Conns |-> r1]

Wanted == [c \in Conns |-> k]
=============================================================================
