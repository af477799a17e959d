---------------------------- MODULE MCFollowUps ----------------------------
(* Instances of FollowUps for TLC.                                           *)
EXTENDS FollowUps, TLC

CONSTANTS m1, m2, c1, w1, w2

\* A call and a message while two operations follow each other.
Steering == [over |-> 0, settled |-> {m2}, away |-> {w1, w2}]
\* Two windows that empty the queue of two messages.
Draining == [over |-> 0, settled |-> {}, away |-> {c1}]
\* A call that steers the message a window is about to send.
Meeting == [over |-> 1, settled |-> {m2}, away |-> {w2}]

Situations == {Steering, Draining, Meeting}
AllAtOnce == {[over |-> 0, settled |-> {}, away |-> {}]}

Exchangeable == Permutations(Msgs) \cup Permutations(Callers) \cup Permutations(Windows)
=============================================================================
