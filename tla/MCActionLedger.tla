--------------------------- MODULE MCActionLedger ---------------------------
(* Instances of ActionLedger for TLC. *)
EXTENDS ActionLedger, TLC

CONSTANTS x1, x2, r1, c1, c2, c3, i1, i2

\* Three requests for one transaction, the third of them with other actions.
TriplicateTxn == [c \in Calls |-> x1]
TriplicateInput == [c \in Calls |-> IF c = c3 THEN i2 ELSE i1]

\* Two requests for a transaction each.
TwoTxn == [c \in Calls |-> IF c = c1 THEN x1 ELSE x2]
TwoInput == [c \in Calls |-> i1]

OneRun == [x \in Txns |-> r1]

Twins == Permutations({c1, c2})
=============================================================================
