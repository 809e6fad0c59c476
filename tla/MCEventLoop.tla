---------------------------- MODULE MCEventLoop ----------------------------
(* A small instance of EventLoop. *)
EXTENDS EventLoop, TLC

CONSTANT c1
=============================================================================
