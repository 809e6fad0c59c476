---------------------------- MODULE MCSignaling ----------------------------
(* Small instances of Signaling. *)
EXTENDS Signaling, TLC

CONSTANTS a, b, d, k1, k2, k3, r1, r2

AllConns == {a, b, d}
AllCodes == {k1, k2, k3}

\* One reactor serves every connection.
OnOneReactor == [c \in AllConns |-> r1]

\* One connection on the first reactor, the others on the second.
OnTwoReactors == [c \in AllConns |-> IF c = a THEN r1 ELSE r2]

Everything == AllCodes \cup {NoCode}

\* Connections of one reactor are interchangeable, and so are codes.
OneReactorSymmetry == Permutations(AllConns) \cup Permutations(AllCodes)

\* Those of the second reactor are.
TwoReactorSymmetry == Permutations({b, d})

\* The messages of the last step are left out of a state's identity: only action properties
\* read them, on every step TLC generates.
View == <<life, role, code, addr, target, objs, registry, frame>>
=============================================================================
