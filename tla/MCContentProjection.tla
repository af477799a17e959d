------------------------ MODULE MCContentProjection ------------------------
(***************************************************************************)
(* The projection of assistant content for TLC: what happens in each       *)
(* situation, so that one run joins a few that matter instead of           *)
(* exploring every bound at once.                                          *)
(***************************************************************************)
EXTENDS ContentProjection

Budget == [commits |-> <<2, 0>>, invalid |-> {}, faults |-> 0, bugs |-> 0,
           reads |-> 0, stops |-> 0]

\* One run is committed again while it is projected; one transaction is
\* refused, and the application stops once.
Stopping == [Budget EXCEPT !.faults = 1, !.stops = 1]
\* Two runs, and a start after the application has stopped.
Pair == [Budget EXCEPT !.commits = <<1, 1>>, !.stops = 1]
\* The first content blocks its job, and the projector fails on another.
Blocking == [Budget EXCEPT !.invalid = {1}, !.bugs = 1, !.reads = 1]
\* Four transactions are refused for one commit, the fourth of which may leave its job stranded.
Refusing == [Budget EXCEPT !.commits = <<1, 0>>, !.faults = 4]
\* One refused transaction and two failures that are not retried, and a start after
\* a stop.
GivingUp == [Budget EXCEPT !.commits = <<1, 0>>, !.faults = 1, !.bugs = 2, !.stops = 1]
\* One refused transaction, and nothing else.
Once == [Budget EXCEPT !.faults = 1]
\* Two runs fail once each.
Deferred == [Budget EXCEPT !.commits = <<1, 1>>, !.faults = 2]

Situations == {Stopping, Pair, Blocking, Refusing, GivingUp}
OnlyOnce == {Once}
OnlyDeferred == {Deferred}
OnlyRefusing == {Refusing}
=============================================================================
