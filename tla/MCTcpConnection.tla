-------------------------- MODULE MCTcpConnection --------------------------
(* Small instances of TcpConnection. *)
EXTENDS TcpConnection, TLC

CONSTANTS a, b, r1, r2, main

\* Both connections on one reactor; the main thread stops the server.  The close callbacks that
\* the main thread runs send to b only, so that a is private to its reactor.
OnOneReactor == [c \in Conns |-> r1]
MainSendsToB == [t \in Threads |-> IF t = main THEN {b} ELSE Conns]

\* A reactor for each, and every handler sends to both.
Spread == (a :> r1) @@ (b :> r2)
SendsToAll == [t \in Threads |-> Conns]
=============================================================================
