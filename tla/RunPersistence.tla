--------------------------- MODULE RunPersistence ---------------------------
(***************************************************************************)
(* What the main process writes about agent runs and their approvals        *)
(* (agent/persistence.ts, db/hitl.ts, checkpointer/runtime-checkpointer.ts), *)
(* and what start-up makes of it after a crash (db/lifecycle.ts).           *)
(*                                                                         *)
(* runs, events, requests, checkpoint and threads are SQLite tables; each   *)
(* database transaction is one step. The other variables are memory of the  *)
(* process. At most one driver (an invocation or a resume that holds the    *)
(* thread's lease, see ThreadGate) works on a thread, but a checkpoint      *)
(* write of a run that was stopped may still arrive.                        *)
(***************************************************************************)
EXTENDS Sequences, Naturals, FiniteSets

CONSTANTS
  Threads,
  Runs,       \* run ids, each used by one invocation
  Requests,   \* approval requests, named by run and tool call
  ThreadOf,   \* the thread of a run
  RunOf,      \* the run of a request
  None        \* no run, no request

ASSUME PersistenceAssumption ==
  /\ ThreadOf \in [Runs -> Threads]
  /\ RunOf \in [Requests -> Runs]
  /\ None \notin Runs \union Requests

VARIABLES
  runs,       \* status of the Run row
  events,     \* run -> its run.started, run.resumed and run.finished events
  requests,   \* status of the HitlRequest row
  checkpoint, \* run -> the interrupt in its latest checkpoint
  threads,    \* status of the Thread row
  driver,     \* thread -> the run whose invocation or resume holds the lease
  deciding,   \* thread -> the request whose decision the resume is about to commit
  streamed,   \* runs whose graph may still write checkpoints
  recovery,   \* threads of the gate's recoveryRequired
  app         \* "up", "down", or "refused": start-up recovery threw

tables == <<runs, events, requests, checkpoint, threads>>
memory == <<driver, deciding, streamed, recovery, app>>
vars == <<tables, memory>>

Statuses == {"absent", "running", "interrupted", "success", "cancelled", "error"}
\* A run.finished event that is not "paused" carries a durable terminal outcome.
Terminals == {"success", "cancelled", "aborted", "error"}
EventKinds == {"started", "resumed", "paused"} \union Terminals
Decisions == {"approved", "corrected", "user_declined"}
RequestStatuses == {"absent", "pending", "cancelled"} \union Decisions

IsDurableTerminal(r) == \E i \in DOMAIN events[r] : events[r][i] \in Terminals
Pending(r) == {q \in Requests : RunOf[q] = r /\ requests[q] = "pending"}

Init ==
  /\ runs = [r \in Runs |-> "absent"]
  /\ events = [r \in Runs |-> <<>>]
  /\ requests = [q \in Requests |-> "absent"]
  /\ checkpoint = [r \in Runs |-> None]
  /\ threads = [t \in Threads |-> "idle"]
  /\ driver = [t \in Threads |-> None]
  /\ deciding = [t \in Threads |-> None]
  /\ streamed = {}
  /\ recovery = {}
  /\ app = "up"

Record(r, kind) == events' = [events EXCEPT ![r] = Append(@, kind)]
CancelPending(r) ==
  requests' = [q \in Requests |-> IF q \in Pending(r) THEN "cancelled" ELSE requests[q]]
Drives(r) == driver[ThreadOf[r]] = r /\ deciding[ThreadOf[r]] = None
Release(t) ==
  /\ driver' = [driver EXCEPT ![t] = None]
  /\ deciding' = [deciding EXCEPT ![t] = None]

Free(t) == app = "up" /\ driver[t] = None /\ t \notin recovery

-----------------------------------------------------------------------------
(* The life of a run.                                                      *)

\* beginAgentRun: the run, its first event and the busy thread in one transaction.
BeginRun(r) ==
  LET t == ThreadOf[r] IN
  /\ Free(t) /\ runs[r] = "absent"
  /\ runs' = [runs EXCEPT ![r] = "running"]
  /\ Record(r, "started")
  /\ threads' = [threads EXCEPT ![t] = "busy"]
  /\ driver' = [driver EXCEPT ![t] = r]
  /\ streamed' = streamed \union {r}
  /\ UNCHANGED <<requests, checkpoint, deciding, recovery, app>>

\* Mutant: an upsert does not look at the run.
Rejected_Never(q) == FALSE

\* upsertHitlRequest refuses a pending request for a run that is over.
Rejected(q) ==
  LET r == RunOf[q] IN
  runs[r] \in {"cancelled", "error", "success"} \/ IsDurableTerminal(r)

\* Mutant: a replayed request is opened again.
Upserted_Reopens(q) == [requests EXCEPT ![q] = "pending"]

\* A request that was decided is left alone, whatever is replayed.
Upserted(q) ==
  IF requests[q] = "absent" THEN [requests EXCEPT ![q] = "pending"] ELSE requests

\* The graph goes on only when its interrupt has been decided.
Interrupts(r) ==
  {q \in Requests : RunOf[q] = r /\
     (checkpoint[r] = q \/ (requests[q] = "absent" /\ Pending(r) = {}))}

\* A checkpoint and the request of its interrupt are written together or not at all.
PutInterrupt(r, q) ==
  /\ app = "up" /\ r \in streamed /\ q \in Interrupts(r)
  /\ requests[q] \in {"absent", "pending"} => ~Rejected(q)
  /\ requests' = Upserted(q)
  /\ checkpoint' = [checkpoint EXCEPT ![r] = q]
  /\ UNCHANGED <<runs, events, threads, memory>>

PutProgress(r) ==
  /\ app = "up" /\ r \in streamed /\ Pending(r) = {}
  /\ checkpoint' = [checkpoint EXCEPT ![r] = None]
  /\ UNCHANGED <<runs, events, requests, threads, memory>>

\* Only a pause leaves the run's approvals open.
Finished(r, kind) == IF kind = "paused" THEN UNCHANGED requests ELSE CancelPending(r)

\* commitRunLifecycleTerminal, and the lease is given back.
CommitTerminal(r, kind) ==
  LET t == ThreadOf[r]
      status == IF kind \in {"paused", "aborted"} THEN "interrupted" ELSE kind IN
  /\ Drives(r)
  /\ ~IsDurableTerminal(r) /\ runs[r] = "running"
  /\ runs' = [runs EXCEPT ![r] = status]
  /\ Finished(r, kind)
  /\ Record(r, kind)
  /\ threads' = [threads EXCEPT ![t] = IF status = "interrupted" THEN status ELSE "idle"]
  /\ Release(t)
  /\ UNCHANGED <<checkpoint, recovery, app>>

\* The stream has ended: in an interrupt, which the graph put and nobody has decided,
\* or with its work done, whatever it asked for and did not wait for.
Pause(r) ==
  /\ Pending(r) # {} /\ checkpoint[r] \in Pending(r)
  /\ CommitTerminal(r, "paused") /\ streamed' = streamed \ {r}
Complete(r) ==
  /\ CommitTerminal(r, "success") /\ streamed' = streamed \ {r}

\* The stream has been stopped and may have a write under way.
Stop(r) == \E kind \in {"aborted", "cancelled"} : CommitTerminal(r, kind) /\ UNCHANGED streamed

\* Mutant: a failure ends the run though an approval is pending.
FailureStatus_Error(awaited) == "error"

FailureStatus(awaited) == IF awaited = {} THEN "error" ELSE "interrupted"

FailureEvent(status) == IF status = "error" THEN "error" ELSE "paused"

CanCommitFailure(r) ==
  /\ runs[r] = "running" \/ (runs[r] = "interrupted" /\ Pending(r) # {})
  /\ events[r][Len(events[r])] \in {"started", "resumed"}

\* markRunFailed: an error keeps a pending approval, and the run with it ...
Fail(r) ==
  LET t == ThreadOf[r] status == FailureStatus(Pending(r)) IN
  /\ Drives(r) /\ CanCommitFailure(r)
  /\ runs' = [runs EXCEPT ![r] = status]
  /\ Record(r, FailureEvent(status))
  /\ threads' = [threads EXCEPT ![t] = status]
  /\ Release(t)
  /\ UNCHANGED <<requests, checkpoint, streamed, recovery, app>>

\* ... unless what the run left behind cannot be read when it is to be completed.
FailTerminally(r) ==
  LET t == ThreadOf[r] IN
  /\ Drives(r) /\ CanCommitFailure(r)
  /\ runs' = [runs EXCEPT ![r] = "error"]
  /\ CancelPending(r)
  /\ Record(r, "error")
  /\ threads' = [threads EXCEPT ![t] = "error"]
  /\ Release(t)
  /\ streamed' = streamed \ {r}
  /\ UNCHANGED <<checkpoint, recovery, app>>

\* Mutant: the thread is not marked.
Unsaved_Forgotten(t) == UNCHANGED recovery

Unsaved(t) == recovery' = recovery \union {t}

\* No transaction went through: the thread is closed until the next start.
GiveUp(r) ==
  /\ Drives(r)
  /\ Unsaved(ThreadOf[r]) /\ Release(ThreadOf[r])
  /\ UNCHANGED <<tables, streamed, app>>

-----------------------------------------------------------------------------
(* Decisions.                                                              *)

\* A resume takes the lease and finds its request pending.
ClaimResume(q) ==
  LET t == ThreadOf[RunOf[q]] IN
  /\ Free(t) /\ requests[q] = "pending"
  /\ driver' = [driver EXCEPT ![t] = RunOf[q]]
  /\ deciding' = [deciding EXCEPT ![t] = q]
  /\ UNCHANGED <<tables, streamed, recovery, app>>

\* commitAgentResumeDecision checks it all again in its transaction.
Resumable(q) ==
  LET r == RunOf[q] IN
  /\ deciding[ThreadOf[r]] = q
  /\ requests[q] = "pending"
  /\ ~IsDurableTerminal(r) /\ runs[r] \in {"running", "interrupted"}

Decide(q, decision) == requests' = [requests EXCEPT ![q] = decision]

\* Mutant: the run is resumed and the request left for later.
Granted_Later(q) == UNCHANGED requests

Granted(q) == \E decision \in {"approved", "corrected"} : Decide(q, decision)

CommitResume(q) ==
  LET r == RunOf[q] t == ThreadOf[r] IN
  /\ Resumable(q)
  /\ Granted(q)
  /\ runs' = [runs EXCEPT ![r] = "running"]
  /\ Record(r, "resumed")
  /\ threads' = [threads EXCEPT ![t] = "busy"]
  /\ deciding' = [deciding EXCEPT ![t] = None]
  /\ streamed' = streamed \union {r}
  /\ UNCHANGED <<checkpoint, driver, recovery, app>>

\* A declined request ends its run without any model call.
CommitDecline(q) ==
  LET r == RunOf[q] t == ThreadOf[r] IN
  /\ Resumable(q)
  /\ Decide(q, "user_declined")
  /\ runs' = [runs EXCEPT ![r] = "cancelled"]
  /\ Record(r, "cancelled")
  /\ threads' = [threads EXCEPT ![t] = "idle"]
  /\ Release(t)
  /\ UNCHANGED <<checkpoint, streamed, recovery, app>>

\* Cancelled or failed before its transaction: nothing was written.
AbandonResume(q) ==
  LET t == ThreadOf[RunOf[q]] IN
  /\ deciding[t] = q
  /\ Release(t)
  /\ UNCHANGED <<tables, streamed, recovery, app>>

-----------------------------------------------------------------------------
(* Crashes and recovery.                                                   *)

Crash ==
  /\ app = "up" /\ app' = "down"
  /\ driver' = [t \in Threads |-> None] /\ deciding' = [t \in Threads |-> None]
  /\ streamed' = {} /\ recovery' = {}
  /\ UNCHANGED tables

Running == {r \in Runs : runs[r] = "running"}

\* The requests of interrupts that are in a running run's latest checkpoint.
Reconciled == {q \in Requests : RunOf[q] \in Running /\ checkpoint[RunOf[q]] = q}
RecoveryThrows ==
  \E q \in Reconciled : requests[q] \in {"absent", "pending"} /\ Rejected(q)

\* What becomes of a running run: reconciled requests count as pending.
Left(r) ==
  FailureStatus(Pending(r) \union
                  {q \in Reconciled : RunOf[q] = r /\ requests[q] = "absent"})

\* recoverIncompleteAgentRuns, in one transaction before anything else may start.
Restart ==
  /\ app = "down"
  /\ IF RecoveryThrows
       THEN app' = "refused" /\ UNCHANGED tables
       ELSE /\ app' = "up"
            /\ requests' = [q \in Requests |->
                 IF q \in Reconciled /\ requests[q] = "absent" THEN "pending" ELSE requests[q]]
            /\ runs' = [r \in Runs |-> IF r \in Running THEN Left(r) ELSE runs[r]]
            /\ events' = [r \in Runs |->
                 IF r \in Running THEN Append(events[r], FailureEvent(Left(r))) ELSE events[r]]
            /\ threads' = [t \in Threads |->
                 IF \E r \in Running : ThreadOf[r] = t
                   THEN Left(CHOOSE r \in Running : ThreadOf[r] = t)
                   ELSE IF threads[t] = "busy" THEN "interrupted" ELSE threads[t]]
            /\ UNCHANGED checkpoint
  /\ UNCHANGED <<driver, deciding, streamed, recovery>>

-----------------------------------------------------------------------------
Next ==
  \/ \E r \in Runs :
       \/ BeginRun(r) \/ PutProgress(r) \/ \E q \in Requests : PutInterrupt(r, q)
       \/ Pause(r) \/ Complete(r) \/ Stop(r) \/ Fail(r) \/ FailTerminally(r) \/ GiveUp(r)
  \/ \E q \in Requests :
       ClaimResume(q) \/ CommitResume(q) \/ CommitDecline(q) \/ AbandonResume(q)
  \/ Crash \/ Restart

Spec == Init /\ [][Next]_vars
-----------------------------------------------------------------------------
(* Properties.                                                             *)

\* Every variable keeps its type.
TypeOK ==
  /\ runs \in [Runs -> Statuses]
  /\ events \in [Runs -> Seq(EventKinds)]
  /\ requests \in [Requests -> RequestStatuses]
  /\ checkpoint \in [Runs -> Requests \union {None}]
  /\ threads \in [Threads -> {"idle", "busy", "interrupted", "error"}]
  /\ driver \in [Threads -> Runs \union {None}]
  /\ deciding \in [Threads -> Requests \union {None}]
  /\ streamed \in SUBSET Runs
  /\ recovery \in SUBSET Threads
  /\ app \in {"up", "down", "refused"}

\* A run waits exactly as long as it can be resumed: a pause always has an approval that
\* can be decided, before and after a crash, and no approval is open for a run that is over,
\* although a stopped run's last checkpoint may be written after its end.
ApprovalIffResumable ==
  \A r \in Runs :
    /\ runs[r] = "interrupted" /\ ~IsDurableTerminal(r) => Pending(r) # {}
    /\ Pending(r) # {} => runs[r] \in {"running", "interrupted"} /\ ~IsDurableTerminal(r)

\* The events of a run tell its story: it starts, pauses and resumes in turn, ends at most
\* once and last, from a pause only because an approval was declined, and it is recorded as
\* running exactly while the last of them is a beginning.
LifecycleFollows(before, kind) ==
  \/ kind \in {"paused"} \union Terminals /\ before \in {"started", "resumed"}
  \/ kind \in {"resumed", "cancelled"} /\ before = "paused"

LifecycleAlternates ==
  \A r \in Runs :
    LET story == events[r] IN
    /\ \A i \in DOMAIN story :
         IF i = 1 THEN story[i] = "started" ELSE LifecycleFollows(story[i - 1], story[i])
    /\ runs[r] = "running" <=>
         story # <<>> /\ story[Len(story)] \in {"started", "resumed"}

\* A run that is recorded as running is being driven, or nobody may use its thread before
\* the next start takes care of it; and the next start never refuses to.
RunningIsOwned ==
  /\ app # "refused"
  /\ app = "up" =>
       \A r \in Runs : runs[r] = "running" => Drives(r) \/ ThreadOf[r] \in recovery

\* A thread is busy exactly while one of its runs is running, and only one is.
ThreadFollowsRun ==
  /\ \A t \in Threads :
       threads[t] = "busy" <=> \E r \in Runs : ThreadOf[r] = t /\ runs[r] = "running"
  /\ \A r, s \in Running : ThreadOf[r] = ThreadOf[s] => r = s

\* Every time a run went on it was because one of its approvals had been granted, and every
\* grant made it go on: a decision is never used twice and never lost.
ResumedByDecision ==
  \A r \in Runs :
    Cardinality({i \in DOMAIN events[r] : events[r][i] = "resumed"}) =
      Cardinality({q \in Requests : RunOf[q] = r /\ requests[q] \in {"approved", "corrected"}})

\* The tables tell one story: runs, events, thread status and decisions agree.
RecordsAgree == TypeOK /\ LifecycleAlternates /\ ThreadFollowsRun /\ ResumedByDecision

\* Once a run has a durable outcome its records never change: no late failure, abort,
\* checkpoint, decision or recovery touches them.
OutcomeIsFinal ==
  [][\A r \in Runs : IsDurableTerminal(r) =>
       /\ runs'[r] = runs[r] /\ events'[r] = events[r]
       /\ \A q \in Requests : RunOf[q] = r => requests'[q] = requests[q]]_vars

\* docs/runtime-invariants.md, Recovery Semantics: "a checkpoint sync failure should not
\* erase the fact that a run failed or was interrupted". A run that has stopped for an
\* approval is not turned into a failed one while the approval is open.
SyncFailureKeepsInterruption ==
  [][\A r \in Runs :
       Pending(r) # {} /\ runs'[r] = "error" => runs[r] = "error"]_vars

\* Each run keeps the promise of the ledger, through crashes and restarts.
Phase(r) ==
  CASE runs[r] = "absent" -> "absent"
    [] runs[r] = "running" -> "active"
    [] runs[r] = "interrupted" /\ ~IsDurableTerminal(r) -> "paused"
    [] OTHER -> "over"
Asked(r) == {q \in Requests : RunOf[q] = r /\ requests[q] # "absent"}
Ledger(r) == INSTANCE RunLedger WITH
  phase <- Phase(r), asked <- Asked(r), open <- Pending(r),
  Requests <- {q \in Requests : RunOf[q] = r}
ImplementsLedger ==
  /\ \A r \in Runs : Ledger(r)!Init
  /\ [][\A r \in Runs : Ledger(r)!Next \/ UNCHANGED Ledger(r)!vars]_vars
=============================================================================
