------------------------- MODULE ActionTransaction -------------------------
(***************************************************************************)
(* What a computer-use transaction promises whoever asks for it: it is      *)
(* recorded before it acts, it acts on the desktop at most once, and its    *)
(* result, once recorded, is final and tells whether it may have acted.     *)
(*                                                                         *)
(* Nothing here knows of processes, restarts or memory: ActionLedger, with  *)
(* all of these, implements it.                                            *)
(***************************************************************************)
EXTENDS Naturals

VARIABLES
  phase,    \* "none", "queued", "dispatched" or "settled"
  result,   \* its result, once it is settled
  acted     \* how often it has touched the desktop

tvars == <<phase, result, acted>>

\* What may be said of a transaction that was never dispatched, and of one
\* that was; only "unknown" leaves open whether it has acted.
Undispatched == {"cancelled", "refused", "unavailable"}
Harmless(r) == r \in {"cancelled", "refused", "unavailable", "didnt"}
Results == {"cancelled", "refused", "unavailable", "didnt", "worked", "unknown"}

Init == phase = "none" /\ result = "none" /\ acted = 0

Reserve ==
  /\ phase = "none" /\ phase' = "queued"
  /\ UNCHANGED <<result, acted>>

Dispatch ==
  /\ phase = "queued" /\ phase' = "dispatched"
  /\ UNCHANGED <<result, acted>>

MayAct == phase = "dispatched" \/ (phase = "settled" /\ result = "unknown")

\* The desktop is acted on, also while the record is already given up as
\* "unknown"; an action that is proven to have done nothing is taken back.
Act ==
  /\ MayAct /\ acted = 0 /\ acted' = 1
  /\ UNCHANGED <<phase, result>>

ProvenIdle ==
  /\ MayAct /\ acted = 1 /\ acted' = 0
  /\ UNCHANGED <<phase, result>>

Settle(r) ==
  /\ \/ phase = "queued" /\ r \in Undispatched
     \/ phase = "dispatched" /\ r # "cancelled"
  /\ Harmless(r) => acted = 0
  /\ r = "worked" => acted = 1
  /\ phase' = "settled" /\ result' = r
  /\ UNCHANGED acted

Next == Reserve \/ Dispatch \/ Act \/ ProvenIdle \/ \E r \in Results : Settle(r)

Spec == Init /\ [][Next]_tvars
=============================================================================
