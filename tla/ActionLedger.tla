---------------------------- MODULE ActionLedger ----------------------------
(***************************************************************************)
(* A computer-use transaction from its request to its recorded result:      *)
(* execute and recover of the coordinator (coordinator.ts), the ledger of   *)
(* attempts it keeps in memory (action-ledger.ts), and the rows behind it   *)
(* (computer-use-action-ledger.ts), over duplicates of a request,           *)
(* cancellations, failures of the database, and restarts.                   *)
(*                                                                         *)
(* A call is one request to execute a transaction. What a call does between *)
(* two awaits is one step. A request to the database is served at some      *)
(* moment between being asked and being answered, and requests of different *)
(* calls are served and answered in any order. A row's revision follows     *)
(* from its phase and its dispatch time, so comparing the phase is          *)
(* comparing both. The turn in the scheduler, observations and sessions     *)
(* are in ResourceScheduler; here a call waits for its turn and gets it, or *)
(* an error instead.                                                        *)
(***************************************************************************)
EXTENDS Naturals, FiniteSets

CONSTANTS
  Txns, Runs, Calls, Inputs,
  TxnOf, InputOf,        \* what a call asks for: its transaction, and what to do
  RunOf,                 \* the run a transaction belongs to
  None

ASSUME LedgerAssumption ==
  /\ TxnOf \in [Calls -> Txns]
  /\ InputOf \in [Calls -> Inputs]
  /\ RunOf \in [Txns -> Runs]
  /\ None \notin Calls /\ None \notin Inputs

VARIABLES
  row,         \* transaction -> its row in the database
  local,       \* transaction -> the attempt the ledger remembers of it
  source,      \* transaction -> where that attempt comes from, "local" or "durable"
  reserving,   \* transaction -> the call whose reservation is under way
  released,    \* runs that are over, with attempts that are not
  authorised,  \* runs with a session and its base observations
  call,        \* call -> where it is
  aborted,     \* call -> whether its signals, of the tool and the session, have fired
  acted        \* transaction -> how often the desktop may have been changed for it

memory == <<local, source, reserving, released, authorised>>
vars == <<row, memory, call, aborted, acted>>

Results == {"cancelled", "refused", "unavailable", "didnt", "worked", "unknown"}
Undispatched == {"cancelled", "refused", "unavailable"}

NoAttempt == [phase |-> "none", input |-> None, result |-> "none"]
Queued(i) == [phase |-> "queued", input |-> i, result |-> "none"]
Attempts == {NoAttempt}
  \union [phase : {"queued", "dispatched"}, input : Inputs, result : {"none"}]
  \union [phase : {"settled"}, input : Inputs, result : Results]

NoReply == [status |-> "none", attempt |-> NoAttempt]

\* A call at a place where nothing is remembered but whose claim it works for.
At(place, own) ==
  [pc |-> place, own |-> own, fit |-> FALSE, seen |-> NoAttempt, aim |-> "none",
   guarded |-> FALSE, rethrow |-> FALSE, reply |-> NoReply]
Over == {"idle", "answered", "threw", "lost"}
Asking == {"reading", "reserving", "dispatching", "settling"}

Init ==
  /\ row = [x \in Txns |-> NoAttempt]
  /\ local = [x \in Txns |-> NoAttempt]
  /\ source = [x \in Txns |-> "local"]
  /\ reserving = [x \in Txns |-> None]
  /\ released = {}
  /\ authorised = Runs
  /\ call = [c \in Calls |-> At("idle", FALSE)]
  /\ aborted = [c \in Calls |-> FALSE]
  /\ acted = [x \in Txns |-> 0]

Known(x) == local[x].phase # "none"
Returns(c, r) == [At("answered", call[c].own) EXCEPT !.aim = r]
Throws(c) == At("threw", call[c].own)

-----------------------------------------------------------------------------
(* The ledger's operations, as what a call does next                        *)

\* settle(): what is settled stays so; a result that the remembered phase
\* rules out throws before anything is asked of the database. now is what the
\* ledger remembers; guarded says whether the try of execute is around it.
Settling(c, now, r, guarded, rethrow) ==
  CASE now.phase = "none" -> IF guarded THEN At("surveying", call[c].own) ELSE Throws(c)
    [] now.phase = "settled" -> Returns(c, now.result)
    [] now.phase \in {"queued", "dispatched"} ->
         [At("settling", call[c].own) EXCEPT !.seen = now, !.aim = r,
                                            !.guarded = guarded, !.rethrow = rethrow]

\* cancel()
Cancelling(c, now, guarded) ==
  Settling(c, now, IF now.phase = "queued" THEN "cancelled" ELSE "unknown", guarded, FALSE)

\* The catch of execute: an attempt that is still queued is settled as not
\* sent; any other outcome is unknown, after a look at the desktop.
Caught(c, now) ==
  IF now.phase # "queued" THEN At("surveying", call[c].own)
  ELSE IF aborted[c] THEN Cancelling(c, now, FALSE)
  ELSE Settling(c, now, "unavailable", FALSE, TRUE)

\* recover(): somebody else's attempt answers for itself if it is settled, is
\* left alone if this process works on it, and is given up otherwise.
Recovered(c, seen, from, now, guarded) ==
  IF seen.input # InputOf[c] THEN Returns(c, "refused")
  ELSE IF seen.phase = "settled" THEN Returns(c, seen.result)
  ELSE IF from = "local" THEN Returns(c, IF seen.phase = "queued" THEN "refused" ELSE "unknown")
  ELSE Cancelling(c, now, guarded)

Remember(x, a, from) ==
  /\ local' = [local EXCEPT ![x] = a]
  /\ source' = [source EXCEPT ![x] = IF a.phase = "none" THEN "local" ELSE from]

\* finishReleasedRunIfIdle(): a released run is forgotten with its last attempt.
Finished(loc, res) ==
  {r \in released : \E x \in Txns : RunOf[x] = r /\ (\/ loc[x].phase \in {"queued", "dispatched"}
                                                     \/ res[x] # None)}

-----------------------------------------------------------------------------
(* find and begin                                                           *)

\* execute() up to its first await. Whether the call is fit, that is has its
\* base observation, a session and actions that the base offers, is read here;
\* find looks into the memory first, joins a reservation that is under way, and
\* asks the database last.
Execute(c) ==
  LET x == TxnOf[c] IN
  /\ call[c].pc = "idle"
  /\ \E fit \in {FALSE, RunOf[x] \in authorised} :
       call' = [call EXCEPT ![c] =
         IF Known(x) THEN Recovered(c, local[x], source[x], local[x], FALSE)
         ELSE IF reserving[x] # None THEN At("joining", FALSE)
         ELSE [At("reading", FALSE) EXCEPT !.fit = fit]]
  /\ UNCHANGED <<row, memory, aborted, acted>>

\* The database serves what a call has asked for, or fails.
Serves(c) ==
  LET x == TxnOf[c]
      Reply(s, a) == call' = [call EXCEPT ![c].reply = [status |-> s, attempt |-> a]]
      Compare(next) ==
        IF row[x] = call[c].seen
        THEN row' = [row EXCEPT ![x] = next] /\ Reply("applied", next)
        ELSE UNCHANGED row /\ Reply("conflict", row[x])
  IN /\ call[c].pc \in Asking /\ call[c].reply = NoReply
     /\ \/ /\ call[c].pc = "reading"
           /\ Reply("row", row[x]) /\ UNCHANGED row
        \/ /\ call[c].pc = "reserving"
           /\ IF row[x] = NoAttempt
              THEN row' = [row EXCEPT ![x] = Queued(InputOf[c])] /\ Reply("applied", row'[x])
              ELSE UNCHANGED row /\ Reply("conflict", row[x])
        \/ /\ call[c].pc = "dispatching"
           /\ Compare([call[c].seen EXCEPT !.phase = "dispatched"])
        \/ /\ call[c].pc = "settling"
           /\ Compare([call[c].seen EXCEPT !.phase = "settled", !.result = call[c].aim])
        \/ Reply("error", NoAttempt) /\ UNCHANGED row
     /\ UNCHANGED <<memory, aborted, acted>>

Answered(c, place, statuses) ==
  call[c].pc = place /\ call[c].reply.status \in statuses

\* find() is answered: a row is remembered as durable and recovered. Without
\* one, begin() reserves, unless another call has done so meanwhile.
FindAnswered(c) ==
  LET x == TxnOf[c]
      found == call[c].reply.attempt IN
  /\ \/ /\ Answered(c, "reading", {"row"}) /\ found # NoAttempt
        /\ Remember(x, found, "durable")
        /\ call' = [call EXCEPT ![c] = Recovered(c, found, "durable", found, FALSE)]
        /\ UNCHANGED reserving
     \/ /\ Answered(c, "reading", {"row"}) /\ found = NoAttempt
        /\ call[c].fit
        /\ call' = [call EXCEPT ![c] =
             IF Known(x) THEN Recovered(c, local[x], source[x], local[x], FALSE)
             ELSE IF reserving[x] # None THEN At("joining", FALSE)
             ELSE At("reserving", FALSE)]
        /\ reserving' = [reserving EXCEPT ![x] =
             IF ~Known(x) /\ @ = None THEN c ELSE @]
        /\ UNCHANGED <<local, source>>
     \/ /\ \/ Answered(c, "reading", {"row"}) /\ found = NoAttempt /\ ~call[c].fit
           \/ Answered(c, "reading", {"error"})
        /\ call' = [call EXCEPT ![c] = Throws(c)]
        /\ UNCHANGED <<local, source, reserving>>
  /\ UNCHANGED <<row, released, authorised, aborted, acted>>

\* Mutant: a reservation that fails leaves those that have joined it waiting.
Joined_Forgotten(next, x, a, from) ==
  [d \in Calls |->
     IF call[d].pc = "joining" /\ TxnOf[d] = x /\ a # NoAttempt
     THEN Recovered(d, a, from, a, FALSE) ELSE next[d]]

\* Calls that have joined a reservation go on in the step that ends it.
Joined(next, x, a, from) ==
  [d \in Calls |->
     IF call[d].pc = "joining" /\ TxnOf[d] = x
     THEN IF a = NoAttempt THEN Throws(d) ELSE Recovered(d, a, from, a, FALSE)
     ELSE next[d]]

\* begin() is answered. The call that has reserved the row owns the attempt:
\* it stops if it is aborted by now or if the backend cannot do the actions,
\* and waits for its turn otherwise.
ReserveAnswered(c) ==
  LET x == TxnOf[c]
      a == call[c].reply.attempt
      idle == [reserving EXCEPT ![x] = None]
      Kept(from) ==   \* pruneReleasedSettledAttempt
        IF RunOf[x] \in released /\ a.phase = "settled"
        THEN Remember(x, NoAttempt, from) ELSE Remember(x, a, from)
      Owns(next) == call' = Joined([call EXCEPT ![c] = [next EXCEPT !.own = TRUE]], x, a, "local")
  IN /\ \/ /\ Answered(c, "reserving", {"applied"})
           /\ Kept("local")
           /\ \/ aborted[c] /\ Owns(Cancelling(c, a, FALSE))
              \/ ~aborted[c] /\ \E r \in {"refused", "unavailable"} : Owns(Settling(c, a, r, FALSE, FALSE))
              \/ ~aborted[c] /\ Owns(At("waiting", TRUE))
        \/ /\ Answered(c, "reserving", {"conflict"})
           /\ Kept("durable")
           /\ call' = Joined([call EXCEPT ![c] = Recovered(c, a, "durable", a, FALSE)], x, a, "durable")
        \/ /\ Answered(c, "reserving", {"error"})
           /\ call' = Joined([call EXCEPT ![c] = Throws(c)], x, NoAttempt, "local")
           /\ UNCHANGED <<local, source>>
     /\ reserving' = idle
     /\ released' = Finished(local', idle)
     /\ UNCHANGED <<row, authorised, aborted, acted>>

-----------------------------------------------------------------------------
(* The owner's turn                                                         *)

\* Mutant: the action is sent before its dispatch is recorded.
TakeTurn_Sends(c) ==
  LET x == TxnOf[c] IN
  /\ call[c].pc = "waiting" /\ ~aborted[c]
  /\ call' = [call EXCEPT ![c] = [At("dispatching", TRUE) EXCEPT !.seen = local[x]]]
  /\ acted' = [acted EXCEPT ![x] = @ + 1]
  /\ UNCHANGED <<row, memory, aborted>>

\* The scheduler gives the call its turn: if it may still act, the dispatch is
\* recorded first. Aborted calls, stale bases, a backend in quarantine and a
\* session that is gone end here, as does an attempt that is not queued.
TakeTurn(c) ==
  LET x == TxnOf[c] IN
  /\ call[c].pc = "waiting"
  /\ \/ /\ ~aborted[c] /\ local[x].phase = "queued"
        /\ call' = [call EXCEPT ![c] = [At("dispatching", TRUE) EXCEPT !.seen = local[x]]]
     \/ call' = [call EXCEPT ![c] = Caught(c, local[x])]
  /\ UNCHANGED <<row, memory, aborted, acted>>

\* transition() of the ledger: what the database says replaces what is
\* remembered; a settled attempt of a released run is forgotten.
Transitioned(x, a, from) ==
  /\ IF a.phase = "settled" /\ RunOf[x] \in released
     THEN Remember(x, NoAttempt, from) ELSE Remember(x, a, from)
  /\ released' = IF a.phase = "settled" THEN Finished(local', reserving) ELSE released

\* The dispatch is recorded: the action is sent, unless the call was aborted
\* meanwhile. If the row has moved on, its state is recovered instead.
DispatchAnswered(c) ==
  LET x == TxnOf[c]
      a == call[c].reply.attempt IN
  /\ \/ /\ Answered(c, "dispatching", {"applied"})
        /\ Transitioned(x, a, "local")
        /\ IF aborted[c]
           THEN /\ call' = [call EXCEPT ![c] = Caught(c, a)]
                /\ UNCHANGED acted
           ELSE /\ call' = [call EXCEPT ![c] = At("acting", TRUE)]
                /\ acted' = [acted EXCEPT ![x] = @ + 1]
     \/ /\ Answered(c, "dispatching", {"conflict"})
        /\ Transitioned(x, a, "durable")
        /\ call' = [call EXCEPT ![c] = Recovered(c, a, "durable", local'[x], TRUE)]
        /\ UNCHANGED acted
     \/ /\ Answered(c, "dispatching", {"error"})
        /\ call' = [call EXCEPT ![c] = Caught(c, local[x])]
        /\ UNCHANGED <<acted, local, source, released>>
  /\ UNCHANGED <<row, reserving, authorised, aborted>>

\* A settlement inside the try of execute; one that the remembered phase rules
\* out is thrown into the catch.
SettlingInTry(c, r) ==
  IF local[TxnOf[c]].phase = "queued" THEN Caught(c, local[TxnOf[c]])
  ELSE Settling(c, local[TxnOf[c]], r, TRUE, FALSE)

\* Mutant: an unknown outcome in the background is tried again in the foreground.
Acts_Replayed(c) ==
  LET x == TxnOf[c] IN
  /\ call[c].pc \in {"acting", "retrying"}
  /\ \/ call[c].pc = "acting" /\ call' = [call EXCEPT ![c] = At("retrying", TRUE)]
        /\ acted' = [acted EXCEPT ![x] = @ + 1]
     \/ call' = [call EXCEPT ![c] = [At("observing", TRUE) EXCEPT !.aim = "unknown"]]
        /\ UNCHANGED acted
  /\ UNCHANGED <<row, memory, aborted>>

\* The backend answers. Only a proven "didnt" of the background is repeated, in
\* the foreground, and only by a call that may still act.
Acts(c) ==
  LET x == TxnOf[c]
      idle == [acted EXCEPT ![x] = @ - 1] IN
  /\ call[c].pc \in {"acting", "retrying"}
  /\ \/ \E r \in {"worked", "unknown"} :
          /\ call' = [call EXCEPT ![c] = [At("observing", TRUE) EXCEPT !.aim = r]]
          /\ UNCHANGED acted
     \/ \E r \in {"didnt", "refused", "unavailable"} :
          /\ call' = [call EXCEPT ![c] = [At("observing", TRUE) EXCEPT !.aim = r]]
          /\ acted' = idle
     \/ /\ call[c].pc = "acting" /\ ~aborted[c]
        /\ call' = [call EXCEPT ![c] = At("retrying", TRUE)]
        /\ UNCHANGED acted
     \/ \* it may not be repeated: aborted, or not authorised any more
        /\ call[c].pc = "acting"
        /\ call' = [call EXCEPT ![c] = Caught(c, local[x])]
        /\ acted' = idle
     \/ \* it throws: nobody knows
        call' = [call EXCEPT ![c] = Caught(c, local[x])] /\ UNCHANGED acted
  /\ UNCHANGED <<row, memory, aborted>>

\* The successor is observed: the backend's result is settled with it, or
\* "unknown" if the window has changed; without an observation nothing is known.
SuccessorObserved(c) ==
  /\ call[c].pc = "observing"
  /\ \/ \E r \in {call[c].aim, "unknown"} :
          call' = [call EXCEPT ![c] = SettlingInTry(c, r)]
     \/ call' = [call EXCEPT ![c] = Caught(c, local[TxnOf[c]])]
  /\ UNCHANGED <<row, memory, aborted, acted>>

\* observeAfterUnknown() is over, with or without an observation.
Surveyed(c) ==
  /\ call[c].pc = "surveying"
  /\ call' = [call EXCEPT ![c] =
       IF local[TxnOf[c]].phase = "queued" THEN Throws(c)
       ELSE Settling(c, local[TxnOf[c]], "unknown", FALSE, FALSE)]
  /\ UNCHANGED <<row, memory, aborted, acted>>

\* Mutant: a settlement that came second answers with the result it wanted.
SettleAnswered_Own(c) ==
  LET x == TxnOf[c]
      a == call[c].reply.attempt IN
  /\ Answered(c, "settling", {"applied", "conflict"})
  /\ Transitioned(x, a, "durable")
  /\ call' = [call EXCEPT ![c] = Returns(c, call[c].aim)]
  /\ UNCHANGED <<row, reserving, authorised, aborted, acted>>

\* settle() is answered. Whoever comes second gets the recorded result; one who
\* wanted to cancel what has been dispatched meanwhile settles it as unknown.
SettleAnswered(c) ==
  LET x == TxnOf[c]
      a == call[c].reply.attempt
      Failed == IF call[c].guarded THEN Caught(c, local'[x]) ELSE Throws(c) IN
  /\ \/ /\ Answered(c, "settling", {"applied"})
        /\ Transitioned(x, a, "local")
        /\ call' = [call EXCEPT ![c] = IF call[c].rethrow THEN Throws(c) ELSE Returns(c, a.result)]
     \/ /\ Answered(c, "settling", {"conflict"})
        /\ Transitioned(x, a, "durable")
        /\ call' = [call EXCEPT ![c] =
             IF a.phase = "settled"
             THEN IF call[c].rethrow THEN Throws(c) ELSE Returns(c, a.result)
             ELSE IF call[c].seen.phase = "queued" /\ a.phase = "dispatched"
             THEN Settling(c, a, "unknown", call[c].guarded, call[c].rethrow)
             ELSE Failed]
     \/ /\ Answered(c, "settling", {"error"})
        /\ UNCHANGED <<local, source, released>>
        /\ call' = [call EXCEPT ![c] = Failed]
  /\ UNCHANGED <<row, reserving, authorised, aborted, acted>>

-----------------------------------------------------------------------------
(* Around the calls                                                         *)

Busy(c) == call[c].pc \notin Over

\* The tool call is aborted, or its session is closed or in quarantine.
Abort(c) ==
  /\ Busy(c) /\ ~aborted[c]
  /\ aborted' = [aborted EXCEPT ![c] = TRUE]
  /\ UNCHANGED <<row, memory, call, acted>>

\* closeRun(): the sessions of the run are closed, which aborts its calls, ...
CloseRun(r) ==
  /\ r \in authorised
  /\ authorised' = authorised \ {r}
  /\ aborted' = [c \in Calls |-> aborted[c] \/ (RunOf[TxnOf[c]] = r /\ Busy(c))]
  /\ UNCHANGED <<row, local, source, reserving, released, call, acted>>

\* ... and then releaseRun() forgets what is settled, and the rest as it settles.
ReleaseRun(r) ==
  LET gone(x) == RunOf[x] = r /\ local[x].phase = "settled" IN
  /\ r \notin authorised
  /\ local' = [x \in Txns |-> IF gone(x) THEN NoAttempt ELSE local[x]]
  /\ source' = [x \in Txns |-> IF gone(x) THEN "local" ELSE source[x]]
  /\ released' = {q \in released \union {r} :
       \E x \in Txns : RunOf[x] = q /\ (\/ local'[x].phase \in {"queued", "dispatched"}
                                       \/ reserving[x] # None)}
  /\ UNCHANGED <<row, reserving, authorised, call, aborted, acted>>

\* settleInterruptedComputerUseAttemptInTransaction
Recovery(a) == IF a.phase = "dispatched" THEN "unknown" ELSE "cancelled"

\* The process dies, and start-up settles the attempts of the runs that the
\* database has as running (lifecycle.ts), before anything else happens.
Restart(running) ==
  /\ row' = [x \in Txns |->
       IF RunOf[x] \in running /\ row[x].phase \in {"queued", "dispatched"}
       THEN [row[x] EXCEPT !.phase = "settled", !.result = Recovery(row[x])]
       ELSE row[x]]
  /\ local' = [x \in Txns |-> NoAttempt]
  /\ source' = [x \in Txns |-> "local"]
  /\ reserving' = [x \in Txns |-> None]
  /\ released' = {} /\ authorised' = {}
  /\ call' = [c \in Calls |-> IF Busy(c) THEN At("lost", FALSE) ELSE call[c]]
  /\ aborted' = [c \in Calls |-> FALSE]
  /\ UNCHANGED acted

Step(c) ==
  \/ Serves(c) \/ FindAnswered(c) \/ ReserveAnswered(c) \/ TakeTurn(c) \/ DispatchAnswered(c)
  \/ Acts(c) \/ SuccessorObserved(c) \/ Surveyed(c) \/ SettleAnswered(c)

Next ==
  \/ \E c \in Calls : Execute(c) \/ Step(c) \/ Abort(c)
  \/ \E r \in Runs : CloseRun(r) \/ ReleaseRun(r)
  \/ \E running \in SUBSET Runs : Restart(running)

\* Requests to the database are answered, turns come, the backend and the
\* observations end one way or the other; nobody has to abort or to restart.
Fairness == \A c \in Calls : WF_vars(Step(c))

Spec == Init /\ [][Next]_vars
FairSpec == Spec /\ Fairness

-----------------------------------------------------------------------------
(* Properties                                                               *)

Places == Over \union Asking \union
  {"joining", "waiting", "acting", "retrying", "observing", "surveying"}

TypeOK ==
  /\ row \in [Txns -> Attempts] /\ local \in [Txns -> Attempts]
  /\ source \in [Txns -> {"local", "durable"}]
  /\ reserving \in [Txns -> Calls \union {None}]
  /\ released \subseteq Runs /\ authorised \subseteq Runs
  /\ call \in [Calls -> [pc : Places, own : BOOLEAN, fit : BOOLEAN, seen : Attempts,
                         aim : Results \union {"none"}, guarded : BOOLEAN, rethrow : BOOLEAN,
                         reply : [status : {"none", "row", "applied", "conflict", "error"},
                                  attempt : Attempts]]]
  /\ aborted \in [Calls -> BOOLEAN]
  /\ acted \in [Txns -> Nat]

\* A transaction changes the desktop at most once, whatever is repeated: its
\* request, its delivery in the foreground, or the whole process.
ActsAtMostOnce == \A x \in Txns : acted[x] <= 1

\* The recorded result tells what has happened: "worked" has acted; cancelled,
\* refused, unavailable and "didnt" have not, and nobody is about to.
RecordIsTruthful ==
  \A x \in Txns : row[x].phase = "settled" =>
    /\ row[x].result = "worked" => acted[x] = 1
    /\ row[x].result \notin {"worked", "unknown"} =>
         /\ acted[x] = 0
         /\ \A c \in Calls : TxnOf[c] = x => call[c].pc \notin {"acting", "retrying"}

\* Whoever is given a result is given the recorded one. Only a duplicate may
\* be turned away with "refused" or "unknown" instead.
AnswersAreRecorded ==
  \A c \in Calls : call[c].pc = "answered" =>
    \/ /\ row[TxnOf[c]].phase = "settled"
       /\ row[TxnOf[c]].result = call[c].aim
       /\ row[TxnOf[c]].input = InputOf[c]
    \/ ~call[c].own /\ call[c].aim \in {"refused", "unknown"}

\* At most one call acts for a transaction, and while it may still act no
\* release of its run takes the attempt from under it.
OwnerKeepsAttempt ==
  \A c \in Calls : call[c].pc \in {"waiting", "dispatching", "acting", "retrying", "observing"} =>
    /\ Known(TxnOf[c]) \/ row[TxnOf[c]].phase = "settled"
    /\ \A d \in Calls \ {c} : TxnOf[d] = TxnOf[c] => ~call[d].own

\* The desktop is changed at most once, by the one call the attempt is kept for, and
\* the record tells whether it was.
ActedAsRecorded == TypeOK /\ ActsAtMostOnce /\ RecordIsTruthful /\ OwnerKeepsAttempt

\* A duplicate in the same process does not cancel an attempt that is queued
\* and waits for its turn (computer-use-core.test.ts:1917).
InFlightNotCancelled ==
  \A c \in Calls : call[c].pc = "waiting" /\ ~aborted[c] =>
    ~(row[TxnOf[c]].phase = "settled" /\ row[TxnOf[c]].result = "cancelled")

Transaction(x) == INSTANCE ActionTransaction WITH
  phase <- row[x].phase, result <- row[x].result, acted <- acted[x]

\* The row of each transaction and the desktop implement a transaction that is recorded
\* before it acts, acts at most once, and has one final result. A restart settles several
\* at once, so a step is one of each transaction, or does not show in it.
ImplementsTransaction ==
  /\ \A x \in Txns : Transaction(x)!Init
  /\ [][\A x \in Txns : Transaction(x)!Next \/ UNCHANGED Transaction(x)!tvars]_vars

\* Every call comes back, unless its process dies.
CallsReturn == \A c \in Calls : Busy(c) ~> ~Busy(c)
=============================================================================
