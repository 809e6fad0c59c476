---------------------------- MODULE MCTcpServer ----------------------------
(* A small instance of TcpServer: fewer descriptors than connections. *)
EXTENDS TcpServer, TLC

CONSTANTS c1, c2, c3, c4, c5

Alike == Permutations(Conns)
=============================================================================
