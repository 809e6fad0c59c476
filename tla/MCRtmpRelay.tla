---------------------------- MODULE MCRtmpRelay ----------------------------
(* Small instances of RtmpRelay. *)
EXTENDS RtmpRelay, TLC

CONSTANTS c1, c2, c3, r0, r1

\* All connections on the main reactor.
OnMain == [x \in Conns |-> r0]

\* On one reactor the connections are interchangeable.
Alike == Permutations(Conns)

\* CEventLoop deals connections out from reactor 1 on.
RoundRobin == (c1 :> r1) @@ (c2 :> r0)
=============================================================================
