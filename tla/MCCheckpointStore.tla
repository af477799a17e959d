------------------------- MODULE MCCheckpointStore -------------------------
(***************************************************************************)
(* Checkpoints of two messages for TLC: what happens in each situation, so *)
(* that one run joins a few that matter instead of exploring every bound   *)
(* at once.                                                                *)
(***************************************************************************)
EXTENDS CheckpointStore, TLC

CONSTANTS m1, m2, c1, c2, c3, op1, same, other

TwoMessages == {(m1 :> "old" @@ m2 :> "gone"), (m1 :> "old" @@ m2 :> "old"),
                (m1 :> "gone" @@ m2 :> "old")}
ThreeCalls == {c1, c2, c3}
OneOp == [c \in ThreeCalls |-> op1]
Identities == (c1 :> same) @@ (c2 :> same) @@ (c3 :> other)

Start == [reserved |-> TRUE, late |-> FALSE, calls |-> {}, ids |-> 3,
          chain |-> 2, runs |-> 2, writes |-> 0, stops |-> 0, faults |-> 0,
          forks |-> 0, crashes |-> 0]

\* Two runs, a compaction, and a clone with runs of its own.
Cloning == [Start EXCEPT !.calls = {c1}, !.forks = 1, !.crashes = 1]
\* A run is stopped or refused, and its puts arrive beside those of the next.
Late == [Start EXCEPT !.late = TRUE, !.ids = 4, !.stops = 1, !.faults = 1,
         !.forks = 1]
\* A compaction is asked for twice beside a run, with a lost commit and a crash.
Twice == [Start EXCEPT !.reserved = FALSE, !.calls = {c1, c2}, !.chain = 1,
                !.runs = 1, !.writes = 1, !.faults = 1, !.crashes = 1]
\* The same operation id comes with another input.
Mistaken == [Twice EXCEPT !.calls = {c2, c3}, !.writes = 0, !.faults = 0]

Situations == {Cloning, Late, Twice, Mistaken}
OnlyCloning == {Cloning}
OnlyLate == {Late}
OnlyCompacting == {Twice}
OnlyMistaken == {Mistaken}
OnlyForking == {[Start EXCEPT !.forks = 1]}
=============================================================================
