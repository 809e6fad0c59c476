------------------------------ MODULE Registry ------------------------------
(***************************************************************************)
(* What the login servers promise together: one set of accounts, and       *)
(* requests that overlap.  A request is decided by one look at the         *)
(* accounts and carried out later, when they may have changed.             *)
(***************************************************************************)
CONSTANTS Peers, Codes, None

VARIABLES accounts, decided, answer

Answer(op, code, result) == answer' = [op |-> op, code |-> code, result |-> result]

Init == accounts = {} /\ decided = [p \in Peers |-> None] /\ answer = [op |-> "none"]

Refuse(code) ==
  /\ \/ code \in accounts /\ Answer("Register", code, "ALREADY_REGISTERED")
     \/ code \in accounts /\ Answer("Login", code, "ALREADY_LOGIN")
     \/ code \notin accounts /\ Answer("Login", code, "SERVER_ERROR")
  /\ UNCHANGED <<accounts, decided>>

Grant(p, code) ==
  /\ decided[p] = None
  /\ \E op \in {"Register", "Login"} :
       /\ op = "Login" <=> code \in accounts
       /\ decided' = [decided EXCEPT ![p] = [op |-> op, code |-> code]]
  /\ UNCHANGED <<accounts, answer>>

\* A registration makes its code an account; a login may do so with any code.
CarryOut(p) ==
  /\ decided[p] # None
  /\ \E k \in Codes :
       /\ decided[p].op = "Register" => k = decided[p].code
       /\ accounts' = accounts \cup {k}
  /\ Answer(decided[p].op, decided[p].code, "S_OK")
  /\ decided' = [decided EXCEPT ![p] = None]

Destory(code) == accounts' = accounts \ {code} /\ UNCHANGED <<decided, answer>>

Next ==
  \/ \E code \in Codes : Refuse(code) \/ Destory(code)
  \/ \E p \in Peers : CarryOut(p) \/ \E code \in Codes : Grant(p, code)

Spec == Init /\ [][Next]_<<accounts, decided, answer>>
=============================================================================
