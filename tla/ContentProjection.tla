------------------------- MODULE ContentProjection -------------------------
(***************************************************************************)
(* The projection of assistant content: for every run that has ended, its  *)
(* messages are split into parts that are stored beside them.  The work is *)
(* kept in durable jobs (assistant-content-projection-jobs.ts), one per    *)
(* run, with a generation that grows when a run is marked dirty while its  *)
(* job runs.  The projector (content-cards/projection-queue.ts) drives the *)
(* jobs through a projection queue, retries what the database refused, and *)
(* at start-up recovers what a crash left.                                 *)
(*                                                                         *)
(* A run has one assistant message, whose content is the number of its     *)
(* commit.  Runs are numbered in the order of their ids.  Transactions are *)
(* answered in the order they are made, so that one and what follows its   *)
(* answer, up to the next await, are a step.                               *)
(***************************************************************************)
EXTENDS Integers, FiniteSets, FiniteSetsExt

CONSTANTS
    LastRun,      \* runs are 1..LastRun
    MaxConcurrency,
    MaxAttempts,  \* ASSISTANT_CONTENT_PROJECTION_MAX_ATTEMPTS
    Budgets       \* the bounds to start from: the commits of each run, steps
                  \* refused by a database that is unavailable (faults) and
                  \* those that fail in another way (bugs), reads of a message
                  \* by the renderer, crashes and shutdowns (stops); and the
                  \* contents that cannot be read as canonical content (invalid)

ASSUME ContentAssumption ==
    /\ LastRun \in Nat \ {0}
    /\ MaxAttempts \in Nat \ {0}
    /\ Budgets \subseteq [commits : [1..LastRun -> Nat], invalid : SUBSET Nat,
                           faults : Nat, bugs : Nat, reads : Nat, stops : Nat]

VARIABLES
    content,   \* the content of each run's message, 0 before the run has ended
    job,       \* the durable jobs
    parts,     \* the content each run's stored parts are made of
    exec,      \* the jobs' executions by the queue
    task,      \* persistenceTasks of each run: of a commit, a read, a timer
    retry,     \* persistenceRetryTimers
    durable,   \* durableRetryTimer: what it was set for
    wake,      \* durableRetryWakePending
    recovery,  \* recoveryTask: its step, and the cursor of the dispatch
    again,     \* recoveryTimer
    life,      \* the process
    left,      \* the budget, and what is left of it
    marked,    \* history: the content each run was last marked dirty with
    failures,  \* history: the attempts of each job that failed
    \* The projection queue:
    dirty, scheduled, batch, busy, timer, drain, flushRequested, flusher, owed

Runs == 1..LastRun
Invalid == left.invalid

queueVars == <<dirty, scheduled, batch, busy, timer, drain, flushRequested,
               flusher, owed>>
table == <<job, parts, marked, failures>>
memory == <<exec, task, retry, durable, wake, recovery, again, life>>
vars == <<content, job, parts, exec, task, retry, durable, wake, recovery,
          again, life, left, marked, failures, queueVars>>

Queue == INSTANCE ProjectionQueue
         WITH Keys <- Runs, Flushers <- {"recovery", "shutdown"}

Statuses == {"none", "pending", "running", "completed", "failed", "exhausted",
             "parked", "blocked"}
\* What a persistence task asks for, or the failure it has to write.
Asked == {"dirty", "ensure", "stale", "invalid", "repaired"}
Requests == Asked \cup {"none", "retryable", "terminal"}
Claims == [req : Requests, gen : Nat, att : Nat]
NoClaim == [req |-> "none", gen |-> 0, att |-> 0]
Tasks == {"commit", "read", "timer"}

NoJob == [status |-> "none", gen |-> 0, att |-> 0, due |-> FALSE, rev |-> 0]
NotExecuting == [at |-> "idle", claim |-> NoClaim, rev |-> 0]

TypeOK ==
    /\ content \in [Runs -> Nat] /\ parts \in [Runs -> Nat]
    /\ job \in [Runs -> [status : Statuses, gen : Nat, att : Nat,
                         due : BOOLEAN, rev : Nat]]
    /\ exec \in [Runs -> [at : {"idle", "claiming", "projecting", "completing",
                                "blocking", "failing"},
                          claim : Claims, rev : Nat]]
    /\ task \in [Runs -> [Tasks -> Claims]]
    /\ retry \in [Runs -> Claims]
    /\ durable \subseteq [run : Runs, att : Nat] /\ Cardinality(durable) <= 1
    /\ wake \in BOOLEAN /\ again \in BOOLEAN
    /\ recovery \in [at : {"off", "sweeping", "inserting", "unblocking",
                           "dispatching", "flushing", "deferring"},
                     cursor : {0} \cup Runs]
    /\ life \in {"up", "closing", "flushing", "closed", "crashed"}
    /\ left \in [commits : [Runs -> Nat], invalid : SUBSET Nat,
                faults : Nat, bugs : Nat, reads : Nat, stops : Nat]
    /\ marked \in [Runs -> Nat] /\ failures \in [Runs -> Nat]
    /\ Queue!QueueTypeOK

Init ==
    /\ content = [r \in Runs |-> 0] /\ parts = content /\ marked = content
    /\ failures = content
    /\ job = [r \in Runs |-> NoJob]
    /\ exec = [r \in Runs |-> NotExecuting]
    /\ task = [r \in Runs |-> [t \in Tasks |-> NoClaim]]
    /\ retry = [r \in Runs |-> NoClaim]
    /\ durable = {} /\ wake = FALSE /\ again = FALSE
    /\ recovery = [at |-> "off", cursor |-> 0]
    /\ life = "closed"
    /\ left \in Budgets
    /\ Queue!QueueInit

-----------------------------------------------------------------------------
\* The transactions on the jobs.

\* A failed job whose time has come counts as one to be done.
Waiting(j) == j.status = "pending" \/ (j.status = "failed" /\ j.due)

\* Faulty variant: a job that runs already is left to its execution.
MadeOnce(j) == [j EXCEPT !.status = IF j.status = "running" THEN "running" ELSE "pending",
                         !.due = FALSE,
                         !.gen = IF j.status = "none" THEN 1 ELSE j.gen]

Made(j) == [j EXCEPT !.status = "pending", !.due = FALSE,
                     !.gen = IF j.status \in {"none", "running"} THEN j.gen + 1
                             ELSE j.gen]

\* markAssistantContentProjectionDirty
MarkedDirty(r) ==
    IF job[r].status \in {"failed", "exhausted", "parked", "blocked"}
    THEN job[r] ELSE Made(job[r])

\* The content differs from the one that blocked the job.
Unblocks(r) == job[r].status = "blocked" /\ content[r] # job[r].rev

\* ensureAssistantContentProjectionPending and, for a "repaired" message,
\* resumeAssistantContentProjectionForRepairedMessage.
Ensured(r, req) ==
    IF \/ req # "repaired" /\ job[r].status \in {"none", "completed", "running"}
       \/ req # "ensure" /\ Unblocks(r)
    THEN Made(job[r]) ELSE job[r]

Granted(r, req) == IF req = "dirty" THEN MarkedDirty(r) ELSE Ensured(r, req)

\* Whether the request wakes the queue.
Wakes(r, req) ==
    /\ content[r] # 0
    /\ \/ Waiting(Granted(r, req)) /\ req # "repaired"
       \/ Granted(r, req) # job[r]

Holds(r, claim) == job[r].status = "running" /\ job[r].gen = claim.gen

\* failAssistantContentProjection
Failed(r, claim) ==
    [job[r] EXCEPT !.status = IF claim.req = "terminal" THEN "parked"
                              ELSE IF claim.att >= MaxAttempts THEN "exhausted"
                              ELSE "failed",
                   !.due = FALSE]

\* The start of recoverAssistantContentProjectionJobs, for a job that runs.
Interrupted(j) ==
    [j EXCEPT !.gen = j.gen + 1,
              !.status = IF j.att >= MaxAttempts THEN "exhausted" ELSE "failed",
              !.due = (j.att < MaxAttempts)]

-----------------------------------------------------------------------------
Alive == life \in {"up", "closing", "flushing"}
ShuttingDown == life # "up"
Spend(b) == left[b] > 0 /\ left' = [left EXCEPT ![b] = @ - 1]

SetRetry(r, claim) ==
    retry' = IF ShuttingDown \/ retry[r] # NoClaim THEN retry
             ELSE [retry EXCEPT ![r] = claim]

ClearRetry(r) == retry' = [retry EXCEPT ![r] = NoClaim]

\* classifyAssistantContentProjectionFailure: an error of the database is retryable;
\* after any other the request is given up, its job as it is.
Refused(r, claim) ==
    \/ Spend("faults") /\ SetRetry(r, claim)
    \/ Spend("bugs") /\ UNCHANGED retry

\* The earlier of two deadlines stays; which one it is, is left open.
ScheduleDurableRetry(r) ==
    \/ (ShuttingDown \/ durable # {}) /\ durable' = durable
    \/ ~ShuttingDown /\ durable' = {[run |-> r, att |-> job[r].att]}

\* A run ends, or its messages change after it has; the controller schedules
\* the projection.
Commit(r) ==
    /\ life = "up"
    /\ content[r] < left.commits[r]
    /\ task[r]["commit"] = NoClaim
    /\ content' = [content EXCEPT ![r] = @ + 1]
    /\ task' = [task EXCEPT ![r]["commit"] =
                  [NoClaim EXCEPT !.req = "dirty"]]
    /\ UNCHANGED <<table, exec, retry, durable, wake, recovery, again, life,
                   left, queueVars>>

\* What getAssistantParts asks for, having inspected the message and its job.
Wanted(r) ==
    LET status == job[r].status
        valid == content[r] \notin Invalid
    IN  IF valid /\ parts[r] = content[r]
        THEN IF status = "blocked" THEN "repaired" ELSE "none"
        ELSE IF status \in {"failed", "exhausted", "parked"} THEN "none"
        ELSE IF status = "blocked"
        THEN IF valid THEN "repaired" ELSE IF Unblocks(r) THEN "invalid" ELSE "none"
        ELSE IF valid THEN "stale" ELSE "invalid"

Read(r) ==
    /\ life = "up"
    /\ content[r] # 0 /\ Wanted(r) # "none"
    /\ task[r]["read"] = NoClaim
    /\ Spend("reads")
    /\ task' = [task EXCEPT ![r]["read"] =
                  [NoClaim EXCEPT !.req = Wanted(r)]]
    /\ UNCHANGED <<content, table, exec, retry, durable, wake, recovery, again,
                   life, queueVars>>

RetryFires(r) ==
    /\ life = "up"
    /\ retry[r] # NoClaim
    /\ task[r]["timer"] = NoClaim
    /\ task' = [task EXCEPT ![r]["timer"] = retry[r]]
    /\ ClearRetry(r)
    /\ UNCHANGED <<content, table, exec, durable, wake, recovery, again, life,
                   left, queueVars>>

-----------------------------------------------------------------------------
\* persistAndWake: the transaction, and what follows its answer.
Ask(r, t) ==
    LET req == task[r][t].req IN
    /\ Alive
    /\ req \in Asked
    /\ job' = IF content[r] = 0 THEN job ELSE [job EXCEPT ![r] = Granted(r, req)]
    /\ marked' = IF req = "dirty" \/ job'[r] # job[r]
                 THEN [marked EXCEPT ![r] = content[r]] ELSE marked
    /\ IF Wakes(r, req) THEN ClearRetry(r) /\ Queue!Enqueue(r)
       ELSE UNCHANGED <<retry, queueVars>>
    /\ task' = [task EXCEPT ![r][t] = NoClaim]
    /\ UNCHANGED <<content, parts, failures, exec, durable, wake, recovery,
                   again, life, left>>

AskRefused(r, t) ==
    /\ Alive
    /\ task[r][t].req \in Asked
    /\ Refused(r, task[r][t])
    /\ task' = [task EXCEPT ![r][t] = NoClaim]
    /\ UNCHANGED <<content, table, exec, durable, wake, recovery, again, life,
                   queueVars>>

-----------------------------------------------------------------------------
\* One execution of a job by the queue.
Begin(r) ==
    /\ Alive
    /\ Queue!JobStarts(r)
    /\ exec' = [exec EXCEPT ![r] = [NotExecuting EXCEPT !.at = "claiming"]]
    /\ UNCHANGED <<content, table, task, retry, durable, wake, recovery, again,
                   life, left>>

Leave(r, K) ==
    /\ exec' = [exec EXCEPT ![r] = NotExecuting]
    /\ Queue!EndsAsking(r, K)

Claim(r) ==
    /\ Alive
    /\ exec[r].at = "claiming"
    /\ Waiting(job[r]) /\ content[r] # 0
    /\ job' = [job EXCEPT ![r].status = "running", ![r].due = FALSE, ![r].att = @ + 1]
    /\ exec' = [exec EXCEPT ![r].at = "projecting",
                            ![r].claim.gen = job[r].gen, ![r].claim.att = job'[r].att]
    /\ UNCHANGED <<content, parts, marked, failures, task, retry, durable, wake,
                   recovery, again, life, left, queueVars>>

NothingToClaim(r) ==
    /\ Alive
    /\ exec[r].at = "claiming"
    /\ ~Waiting(job[r])
    /\ Leave(r, {})
    /\ UNCHANGED <<content, table, task, retry, durable, wake, recovery, again,
                   life, left>>

ClaimRefused(r) ==
    /\ Alive
    /\ exec[r].at = "claiming"
    /\ Refused(r, [NoClaim EXCEPT !.req = "ensure"])
    /\ Leave(r, {})
    /\ UNCHANGED <<content, table, task, durable, wake, recovery, again, life>>

\* finalizeAssistantContentPartsForRun, in one transaction.
Project(r) ==
    /\ Alive
    /\ exec[r].at = "projecting"
    /\ IF content[r] \in Invalid
       THEN /\ exec' = [exec EXCEPT ![r].at = "blocking", ![r].rev = content[r]]
            /\ UNCHANGED parts
       ELSE /\ exec' = [exec EXCEPT ![r].at = "completing"]
            /\ parts' = [parts EXCEPT ![r] = content[r]]
    /\ UNCHANGED <<content, job, marked, failures, task, retry, durable, wake,
                   recovery, again, life, left, queueVars>>

\* A step of the execution fails, in a way that can be retried or not.
StepFails(r) ==
    /\ Alive
    /\ exec[r].at \in {"projecting", "completing", "blocking"}
    /\ \/ Spend("faults") /\ exec' = [exec EXCEPT ![r].at = "failing",
                                                  ![r].claim.req = "retryable"]
       \/ Spend("bugs") /\ exec' = [exec EXCEPT ![r].at = "failing",
                                                ![r].claim.req = "terminal"]
    /\ UNCHANGED <<content, table, task, retry, durable, wake, recovery, again,
                   life, queueVars>>

\* completeAssistantContentProjection, blockAssistantContentProjection; the run
\* needs no retry any more.
Settle(r) ==
    /\ Alive
    /\ exec[r].at \in {"completing", "blocking"}
    /\ Holds(r, exec[r].claim)
    /\ job' = [job EXCEPT ![r].status = IF exec[r].at = "completing" THEN "completed"
                                        ELSE "blocked",
                          ![r].rev = exec[r].rev]
    /\ ClearRetry(r)
    /\ Leave(r, {})
    /\ UNCHANGED <<content, parts, marked, failures, task, durable, wake, recovery,
                   again, life, left>>

\* Another generation has begun: the job is enqueued anew.
Superseded(r) ==
    /\ Alive
    /\ exec[r].at \in {"completing", "blocking", "failing"}
    /\ ~Holds(r, exec[r].claim)
    /\ Leave(r, {r})
    /\ UNCHANGED <<content, table, task, retry, durable, wake, recovery, again,
                   life, left>>

\* A failure is written; a job that failed gets a deadline.
WriteFailure(r, claim) ==
    /\ Holds(r, claim)
    /\ job' = [job EXCEPT ![r] = Failed(r, claim)]
    /\ failures' = [failures EXCEPT ![r] = @ + 1]
    /\ ClearRetry(r)
    /\ IF job'[r].status = "failed" THEN ScheduleDurableRetry(r) ELSE UNCHANGED durable

\* persistProjectionFailure, within the execution.
Fail(r) ==
    /\ Alive
    /\ exec[r].at = "failing"
    /\ WriteFailure(r, exec[r].claim)
    /\ Leave(r, {})
    /\ UNCHANGED <<content, parts, marked, task, wake, recovery, again, life, left>>

FailRefused(r) ==
    /\ Alive
    /\ exec[r].at = "failing"
    /\ Refused(r, exec[r].claim)
    /\ Leave(r, {})
    /\ UNCHANGED <<content, table, task, durable, wake, recovery, again, life>>

\* persistProjectionFailure, by the timer.
LateFail(r) ==
    LET claim == task[r]["timer"] IN
    /\ Alive
    /\ claim.req \in {"retryable", "terminal"}
    /\ \/ WriteFailure(r, claim) /\ UNCHANGED queueVars
       \/ ~Holds(r, claim) /\ Queue!Enqueue(r) /\ UNCHANGED <<job, failures, retry, durable>>
    /\ task' = [task EXCEPT ![r]["timer"] = NoClaim]
    /\ UNCHANGED <<content, parts, marked, exec, wake, recovery, again, life, left>>

LateFailRefused(r) ==
    /\ Alive
    /\ task[r]["timer"].req \in {"retryable", "terminal"}
    /\ Refused(r, task[r]["timer"])
    /\ task' = [task EXCEPT ![r]["timer"] = NoClaim]
    /\ UNCHANGED <<content, table, exec, durable, wake, recovery, again, life,
                   queueVars>>

-----------------------------------------------------------------------------
\* runRecovery.
At(step) == Alive /\ recovery.at = step
Go(step) == recovery' = [recovery EXCEPT !.at = step]
Recovering == [at |-> "sweeping", cursor |-> 0]
NotRecovering == [at |-> "off", cursor |-> 0]

\* A deadline that passed meanwhile starts another recovery, unless the timer
\* of a failed one will.
RecoveryOver(failed) ==
    /\ again' = (again \/ (failed /\ ~ShuttingDown))
    /\ recovery' = IF wake /\ ~again' /\ ~ShuttingDown THEN Recovering ELSE NotRecovering
    /\ wake' = FALSE

\* Nothing of the process ran these jobs, so far as the table knows.  The statement
\* is issued as the recovery begins: an abort comes too late for it.
Sweep ==
    /\ At("sweeping")
    /\ job' = [r \in Runs |-> IF job[r].status = "running" THEN Interrupted(job[r])
                              ELSE job[r]]
    /\ Go("inserting")
    /\ UNCHANGED <<content, parts, marked, failures, exec, task, retry, durable,
                   wake, again, life, left, queueVars>>

InsertMissing ==
    /\ At("inserting") /\ ~ShuttingDown
    /\ LET missing == {r \in Runs : job[r].status = "none" /\ content[r] # 0} IN
       /\ job' = [r \in Runs |-> IF r \in missing THEN Made(job[r]) ELSE job[r]]
       /\ marked' = [r \in Runs |-> IF r \in missing THEN content[r] ELSE marked[r]]
    /\ Go("unblocking")
    /\ UNCHANGED <<content, parts, failures, exec, task, retry, durable, wake,
                   again, life, left, queueVars>>

RecoverChangedBlocked ==
    /\ At("unblocking") /\ ~ShuttingDown
    /\ job' = [r \in Runs |-> IF Unblocks(r) THEN Made(job[r]) ELSE job[r]]
    /\ marked' = [r \in Runs |-> IF Unblocks(r) THEN content[r] ELSE marked[r]]
    /\ Go("dispatching")
    /\ UNCHANGED <<content, parts, failures, exec, task, retry, durable, wake,
                   again, life, left, queueVars>>

\* Faulty variant: the cursor passes jobs of the batch that were not enqueued.
DispatchFirst ==
    LET jobs == {r \in Runs : r > recovery.cursor /\ Waiting(job[r])} IN
    /\ At("dispatching") /\ ~ShuttingDown
    /\ IF jobs = {}
       THEN Go("deferring") /\ UNCHANGED queueVars
       ELSE /\ recovery' = [at |-> "flushing", cursor |-> Max(jobs)]
            /\ Queue!FlushAfter({Min(jobs)}, "recovery")
    /\ UNCHANGED <<content, table, exec, task, retry, durable, wake, again, life, left>>

\* The jobs beyond the cursor go to the queue, which is flushed.
Dispatch ==
    LET jobs == {r \in Runs : r > recovery.cursor /\ Waiting(job[r])} IN
    /\ At("dispatching") /\ ~ShuttingDown
    /\ IF jobs = {}
       THEN Go("deferring") /\ UNCHANGED queueVars
       ELSE /\ recovery' = [at |-> "flushing", cursor |-> Max(jobs)]
            /\ Queue!FlushAfter(jobs, "recovery")
    /\ UNCHANGED <<content, table, exec, task, retry, durable, wake, again, life, left>>

Flushed ==
    /\ Alive
    /\ Queue!FlushReturns("recovery")
    /\ Go("dispatching")
    /\ UNCHANGED <<content, table, exec, task, retry, durable, wake, again, life, left>>

\* The earliest deadline yet to come.
Defer ==
    LET later == {r \in Runs : job[r].status = "failed" /\ ~job[r].due} IN
    /\ At("deferring")
    /\ IF later = {} THEN UNCHANGED durable
       ELSE \E r \in later : ScheduleDurableRetry(r)
    /\ RecoveryOver(FALSE)
    /\ UNCHANGED <<content, table, exec, task, retry, life, left, queueVars>>

RecoveryAborted ==
    /\ Alive /\ ShuttingDown
    /\ recovery.at \in {"inserting", "unblocking", "dispatching"}
    /\ RecoveryOver(FALSE)
    /\ UNCHANGED <<content, table, exec, task, retry, durable, life, left, queueVars>>

RecoveryFails ==
    /\ Alive
    /\ recovery.at \notin {"off", "flushing"}
    /\ Spend("faults")
    /\ RecoveryOver(TRUE)
    /\ UNCHANGED <<content, table, exec, task, retry, durable, life, queueVars>>

RecoverAgain ==
    /\ life = "up" /\ again
    /\ again' = FALSE
    /\ recovery' = IF recovery.at = "off" THEN Recovering ELSE recovery
    /\ UNCHANGED <<content, table, exec, task, retry, durable, wake, life, left,
                   queueVars>>

\* The clock reaches the deadline of a failed job.
TimePasses(r) ==
    /\ job[r].status = "failed" /\ ~job[r].due
    /\ job' = [job EXCEPT ![r].due = TRUE]
    /\ UNCHANGED <<content, parts, marked, failures, memory, left, queueVars>>

DurableRetryFires ==
    /\ life = "up"
    /\ \E d \in durable : ~(/\ job[d.run].status = "failed" /\ ~job[d.run].due
                            /\ job[d.run].att = d.att)
    /\ durable' = {}
    /\ IF recovery.at = "off" THEN recovery' = Recovering /\ UNCHANGED wake
       ELSE wake' = TRUE /\ UNCHANGED recovery
    /\ UNCHANGED <<content, table, exec, task, retry, again, life, left, queueVars>>

-----------------------------------------------------------------------------
\* startAssistantContentProjectionLifecycle, in a new process after a crash.
Start ==
    /\ life \in {"closed", "crashed"}
    /\ life' = "up"
    /\ recovery' = Recovering
    /\ UNCHANGED <<content, table, exec, task, retry, durable, wake, again, left,
                   queueVars>>

\* flushAssistantContentProjection, in three steps.
Close ==
    /\ life = "up"
    /\ Spend("stops")
    /\ life' = "closing"
    /\ again' = FALSE /\ durable' = {} /\ wake' = FALSE
    /\ retry' = [r \in Runs |-> NoClaim]
    /\ UNCHANGED <<content, table, exec, task, recovery, queueVars>>

CloseFlushes ==
    /\ life = "closing"
    /\ recovery.at = "off"
    /\ \A r \in Runs, t \in Tasks : task[r][t] = NoClaim
    /\ life' = "flushing"
    /\ Queue!FlushCalled("shutdown")
    /\ UNCHANGED <<content, table, exec, task, retry, durable, wake, recovery,
                   again, left>>

Closed ==
    /\ life = "flushing"
    /\ Queue!FlushReturns("shutdown")
    /\ life' = "closed"
    /\ UNCHANGED <<content, table, exec, task, retry, durable, wake, recovery,
                   again, left>>

Crash ==
    /\ Alive
    /\ Spend("stops")
    /\ life' = "crashed"
    /\ exec' = [r \in Runs |-> NotExecuting]
    /\ task' = [r \in Runs |-> [t \in Tasks |-> NoClaim]]
    /\ retry' = [r \in Runs |-> NoClaim]
    /\ durable' = {} /\ wake' = FALSE /\ again' = FALSE
    /\ recovery' = NotRecovering
    /\ dirty' = {} /\ scheduled' = {} /\ batch' = {} /\ busy' = {}
    /\ timer' = FALSE /\ drain' = "none" /\ flushRequested' = FALSE
    /\ flusher' = [f \in DOMAIN flusher |-> "idle"]
    /\ owed' = [f \in DOMAIN owed |-> {}]
    /\ UNCHANGED <<content, table>>

QueueMoves ==
    /\ Alive
    /\ \/ Queue!TimerFires \/ Queue!DrainBegins \/ Queue!DrainEnds
       \/ \E f \in {"recovery", "shutdown"} : Queue!FlushDrains(f)
    /\ UNCHANGED <<content, table, memory, left>>

Persisting(r) ==
    \/ RetryFires(r) \/ LateFail(r)
    \/ \E t \in Tasks : Ask(r, t)
Executing(r) ==
    \/ Begin(r) \/ Claim(r) \/ NothingToClaim(r) \/ Project(r) \/ Settle(r)
    \/ Superseded(r) \/ Fail(r)
RecoveryStep ==
    \/ Sweep \/ InsertMissing \/ RecoverChangedBlocked \/ Dispatch \/ Flushed
    \/ Defer \/ RecoveryAborted \/ RecoverAgain \/ DurableRetryFires
Faulting ==
    \/ RecoveryFails
    \/ \E r \in Runs :
         \/ ClaimRefused(r) \/ StepFails(r) \/ FailRefused(r) \/ LateFailRefused(r)
         \/ \E t \in Tasks : AskRefused(r, t)

Next ==
    \/ \E r \in Runs : \/ Commit(r) \/ Read(r) \/ TimePasses(r)
                       \/ Persisting(r) \/ Executing(r)
    \/ QueueMoves \/ RecoveryStep \/ Faulting
    \/ Start \/ Close \/ CloseFlushes \/ Closed \/ Crash

Spec == Init /\ [][Next]_vars

\* The process goes on with what it has to do, the clock runs; nothing has to
\* be committed or read, and nothing has to fail or stop.
FairSpec ==
    /\ Spec
    /\ WF_vars(QueueMoves) /\ WF_vars(RecoveryStep) /\ WF_vars(Start)
    /\ WF_vars(CloseFlushes) /\ WF_vars(Closed)
    /\ \A r \in Runs :
         /\ WF_vars(TimePasses(r)) /\ WF_vars(Executing(r))
         /\ WF_vars(Persisting(r))

-----------------------------------------------------------------------------
\* A job that says it is completed was projected with the content it was last
\* marked dirty with, or a later one: an execution that began before the mark
\* does not complete it (generation, in completeAssistantContentProjection).
CompletedIsCurrent ==
    \A r \in Runs : job[r].status = "completed" => parts[r] >= marked[r]

\* A request comes to the job when it is retried: but one to resume a blocked job
\* does nothing to a job that is not blocked, and a failure of another generation
\* is not that of the job that runs.
Comes(r, claim) ==
    \/ claim.req \in Asked \ {"repaired"}
    \/ /\ claim.req \in {"retryable", "terminal"}
       /\ job[r].status = "running" => job[r].gen = claim.gen

\* Something that runs will come to the job of a run: a request, an execution; a
\* recovery, which takes up what runs when it sweeps, and what waits when it
\* dispatches; for what waits, the queue.
Driven(r) ==
    \/ \E claim \in {retry[r]} \cup {task[r][t] : t \in Tasks} : Comes(r, claim)
    \/ exec[r].at \notin {"idle", "claiming"}
    \/ recovery.at = "sweeping" \/ wake \/ (again /\ recovery.at = "off")
    \/ /\ job[r].status # "running"
       /\ \/ r \in Queue!Outstanding
          \/ recovery.at \in {"inserting", "unblocking"}
          \/ recovery.at \in {"flushing", "dispatching"} /\ r > recovery.cursor

\* A job is to be done, or is said to be running, and nothing will come to it.
Stranded(r) ==
    life = "up" /\ job[r].status \in {"pending", "running"} /\ ~Driven(r)

\* A step ends a request of the run, the claim of its job or the writing of a failure.
EndsRequest(r) ==
    \/ task'[r] # task[r]
    \/ exec[r].at \in {"claiming", "failing"} /\ exec'[r] # exec[r]

\* There are two ways to strand a job, whichever timers a step sets, clears or finds:
\* a request of its run is refused and finds the retry timer of the run taken by
\* another one (schedulePersistenceRetry, scheduleFailurePersistenceRetry), or fails
\* in a way that is not retried (persistAndWake, persistProjectionFailure, and run,
\* where it claims).  Nothing that happens to another run strands it.
WorkIsDriven ==
    [][\A r \in Runs : Stranded(r)' /\ ~Stranded(r) =>
         /\ EndsRequest(r)
         /\ \/ left'.faults < left.faults /\ retry[r] # NoClaim
            \/ left'.bugs < left.bugs /\ retry' = retry]_vars

\* What ran when the application shut down has ended before the database is
\* closed, and no timer is left to touch it (flushAssistantContentProjection).
ClosedIsQuiet ==
    life = "closed" =>
        /\ Queue!Outstanding = {} /\ ~timer /\ recovery.at = "off"
        /\ durable = {} /\ ~again
        /\ \A r \in Runs : retry[r] = NoClaim /\ \A t \in Tasks : task[r][t] = NoClaim

\* The projector is in order: its variables have their types, what is completed is
\* current, and a shutdown leaves nothing behind.
ProjectorSound == TypeOK /\ CompletedIsCurrent /\ ClosedIsQuiet

\* A refused write is tried again, whatever else its run waits for
\* (schedulePersistenceRetry, scheduleFailurePersistenceRetry).
NothingStranded == \A r \in Runs : ~Stranded(r)

\* A deadline that some job waits for is ahead of it: a failed job has a timer,
\* or a recovery that will come to it (scheduleDurableRetry, onDeferred).
RetryIsAhead ==
    life = "up" => \A r \in Runs :
        job[r].status = "failed" => Driven(r) \/ durable # {} \/ recovery.at # "off"

\* A mark the database refused is tried again (schedulePersistenceRetry).
MarksAreKept ==
    life = "up" => \A r \in Runs :
        marked[r] < content[r] =>
            \/ job[r].status # "completed"
            \/ retry[r] # NoClaim \/ \E t \in Tasks : task[r][t] # NoClaim

\* The attempts a job may make are spent by its failures.
ExhaustedByFailures ==
    \A r \in Runs : job[r].status = "exhausted" => failures[r] >= MaxAttempts

\* A job that is to be done is done or given up, unless the process stops or the
\* job is stranded; a stranded one too, once another recovery has begun.
WorkIsSettled ==
    \A r \in Runs : job[r].status \in {"pending", "running"}
                     ~> job[r].status \notin {"pending", "running"} \/ Stranded(r)

\* A shutdown ends (flushAssistantContentProjection, which the quit awaits).
ShutdownEnds == life = "closing" ~> life \in {"closed", "crashed"}

\* What was asked for comes to an end, projections and shutdowns alike.
WorkEnds == WorkIsSettled /\ ShutdownEnds
=============================================================================
