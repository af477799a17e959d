------------------------------ MODULE RunLedger ------------------------------
(***************************************************************************)
(* What the records of one agent run promise to whoever reads them: the run *)
(* is worked on, waits for an approval, or is over. It waits only while an  *)
(* approval is open, goes on only by the decision of an open approval, is   *)
(* never worked on again once it is over, and leaves no approval open.      *)
(* Crashes do not show.                                                     *)
(***************************************************************************)
CONSTANT Requests   \* the approvals the run may ask for

VARIABLES phase, asked, open

vars == <<phase, asked, open>>

Init == phase = "absent" /\ asked = {} /\ open = {}

Start ==
  /\ phase = "absent" /\ phase' = "active"
  /\ UNCHANGED <<asked, open>>

\* An approval is asked for once.
Ask(q) ==
  /\ phase = "active" /\ q \notin asked
  /\ asked' = asked \union {q} /\ open' = open \union {q}
  /\ UNCHANGED phase

Pause ==
  /\ phase = "active" /\ open # {}
  /\ phase' = "paused"
  /\ UNCHANGED <<asked, open>>

Resume(q) ==
  /\ phase = "paused" /\ q \in open
  /\ phase' = "active" /\ open' = open \ {q}
  /\ UNCHANGED asked

\* A run that waits is ended only by a decision.
End ==
  /\ phase = "active" \/ (phase = "paused" /\ open # {})
  /\ phase' = "over" /\ open' = {}
  /\ UNCHANGED asked

Next == Start \/ Pause \/ End \/ \E q \in Requests : Ask(q) \/ Resume(q)

Spec == Init /\ [][Next]_vars
=============================================================================
