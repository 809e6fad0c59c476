----------------------------- MODULE Directory -----------------------------
(***************************************************************************)
(* What the signalling server's connection manager promises to clients     *)
(* that may do anything, without handlers, vectors or shared_ptrs.  A      *)
(* client asks for a code that is free, and joins in a later step: it is   *)
(* then found under the code, unless another has joined in between.  An    *)
(* entry goes only when somebody who carries that code leaves, which need  *)
(* not be the one it leads to: so a code passes from one client to another *)
(* only by being free in between, and nobody takes an entry away who does  *)
(* not carry its code or is not leaving.                                   *)
(***************************************************************************)
CONSTANTS Conns, Codes, NoCode, NoConn

VARIABLES
  owner,     \* the client found under each code
  standing,  \* out; asking: has found its code free; carrying: has joined with it;
             \* leaving: gives it up, perhaps more than once; gone
  held       \* the code that a client asks for or carries

Init ==
  /\ owner = [k \in Codes |-> NoConn]
  /\ standing = [c \in Conns |-> "out"]
  /\ held = [c \in Conns |-> NoCode]

Ask(c, k) ==
  /\ standing[c] = "out"
  /\ owner[k] = NoConn
  /\ standing' = [standing EXCEPT ![c] = "asking"]
  /\ held' = [held EXCEPT ![c] = k]
  /\ UNCHANGED owner

Join(c) ==
  /\ standing[c] = "asking"
  /\ standing' = [standing EXCEPT ![c] = "carrying"]
  /\ owner' = [owner EXCEPT ![held[c]] = IF @ = NoConn THEN c ELSE @]
  /\ UNCHANGED held

\* The clients B begin to leave; the entries under the codes of the clients S go.
Leave(B, S) ==
  /\ \A c \in B : standing[c] = "carrying"
  /\ \A c \in S : standing[c] = "leaving"
  /\ owner' = [k \in Codes |-> IF \E c \in S : held[c] = k THEN NoConn ELSE owner[k]]
  /\ \A c \in Conns :
       standing'[c] \in IF c \in B THEN {"leaving"}
                        ELSE IF c \in S THEN {"leaving", "carrying", "gone"}
                        ELSE {standing[c]}
  /\ UNCHANGED held

Next ==
  \/ \E c \in Conns, k \in Codes : Ask(c, k)
  \/ \E c \in Conns : Join(c)
  \/ \E B, S \in SUBSET Conns : Leave(B, S)

Spec == Init /\ [][Next]_<<owner, standing, held>>
=============================================================================
