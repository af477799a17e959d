-------------------------- MODULE ProjectionQueue --------------------------
(***************************************************************************)
(* The in-memory queue behind the projections (projection-queue.ts): jobs  *)
(* are known by their key, requests for one key coalesce, a debounce timer *)
(* leads to one drain at a time, and a flush goes on until nothing is left.*)
(* A key that is only marked dirty waits for a flush; an enqueued one is   *)
(* both dirty and scheduled.  Every queue of the program is keyed by what  *)
(* its jobs are about (a run, a thread), so a job is its key.              *)
(***************************************************************************)
EXTENDS Integers, FiniteSets

CONSTANTS
    Keys,           \* what jobs are about
    Flushers,       \* callers of flush, one call each at a time
    MaxConcurrency  \* jobs a drain runs at the same time

ASSUME QueueAssumption == MaxConcurrency \in Nat \ {0}

VARIABLES
    dirty,          \* dirtyJobs
    scheduled,      \* scheduledJobs
    batch,          \* the jobs a drain took and has not begun
    busy,           \* the jobs that run
    timer,          \* the debounce timer is set
    drain,          \* drainQueued: none, or a drain that waits or runs
    flushRequested, \* the next drain takes the dirty jobs too
    flusher,        \* each flush: not called, at its check, awaiting state.queue
    owed            \* what was outstanding when each flush was called, and still is

queueVars == <<dirty, scheduled, batch, busy, timer, drain, flushRequested,
               flusher, owed>>

\* What was asked for and has not been done.
Outstanding == dirty \cup scheduled \cup batch \cup busy

QueueTypeOK ==
    /\ dirty \subseteq Keys /\ scheduled \subseteq Keys
    /\ batch \subseteq Keys /\ busy \subseteq Keys
    /\ timer \in BOOLEAN /\ flushRequested \in BOOLEAN
    /\ drain \in {"none", "queued", "running"}
    /\ flusher \in [Flushers -> {"idle", "looking", "awaiting"}]
    /\ owed \in [Flushers -> SUBSET Keys]

QueueInit ==
    /\ dirty = {} /\ scheduled = {} /\ batch = {} /\ busy = {}
    /\ timer = FALSE /\ drain = "none" /\ flushRequested = FALSE
    /\ flusher = [f \in Flushers |-> "idle"]
    /\ owed = [f \in Flushers |-> {}]

-----------------------------------------------------------------------------
\* A key that is not outstanding any more is owed to no flush.
Settle == owed' = [f \in Flushers |-> owed[f] \cap Outstanding']

\* scheduleDrain, for the jobs K enqueued in one step.
Schedule(K) ==
    /\ dirty' = dirty \cup K
    /\ scheduled' = scheduled \cup K
    /\ timer' = (timer \/ (K # {} /\ drain = "none"))

Enqueue(k) ==
    /\ Schedule({k})
    /\ UNCHANGED <<batch, busy, drain, flushRequested, flusher, owed>>

MarkDirty(k) ==
    /\ dirty' = dirty \cup {k}
    /\ UNCHANGED <<scheduled, batch, busy, timer, drain, flushRequested,
                   flusher, owed>>

\* The timer queues a drain, unless one is queued.
TimerFires ==
    /\ timer
    /\ timer' = FALSE
    /\ drain' = IF drain = "none" THEN "queued" ELSE drain
    /\ UNCHANGED <<dirty, scheduled, batch, busy, flushRequested, flusher, owed>>

\* Faulty variants, used by the mutation runs only: the drain leaves the request
\* to flush; it forgets, in a flush, the scheduled jobs.
DrainBeginsForTheFlush ==
    /\ drain = "queued"
    /\ drain' = "running"
    /\ batch' = IF flushRequested THEN dirty ELSE scheduled
    /\ dirty' = dirty \ batch'
    /\ scheduled' = scheduled \ batch'
    /\ UNCHANGED <<busy, timer, flushRequested, flusher, owed>>
DrainBeginsWithoutScheduled ==
    /\ drain = "queued"
    /\ drain' = "running"
    /\ batch' = IF flushRequested THEN dirty \ scheduled ELSE scheduled
    /\ dirty' = dirty \ batch'
    /\ scheduled' = {}
    /\ flushRequested' = FALSE
    /\ UNCHANGED <<busy, timer, flusher, owed>>

\* drainPending takes the jobs, out of both maps.
DrainBegins ==
    /\ drain = "queued"
    /\ drain' = "running"
    /\ batch' = IF flushRequested THEN dirty ELSE scheduled
    /\ dirty' = dirty \ batch'
    /\ scheduled' = scheduled \ batch'
    /\ flushRequested' = FALSE
    /\ UNCHANGED <<busy, timer, flusher, owed>>

JobStarts(k) ==
    /\ k \in batch
    /\ Cardinality(busy) < MaxConcurrency
    /\ batch' = batch \ {k}
    /\ busy' = busy \cup {k}
    /\ UNCHANGED <<dirty, scheduled, timer, drain, flushRequested, flusher, owed>>

\* A job ends, having enqueued the jobs K.  Also when it failed: runJob reports
\* the error and goes on.
EndsAsking(k, K) ==
    /\ k \in busy
    /\ busy' = busy \ {k}
    /\ Schedule(K)
    /\ UNCHANGED <<batch, drain, flushRequested, flusher>>
    /\ Settle

JobEnds(k) == EndsAsking(k, {})

\* Everything that awaits state.queue looks again.
DrainEnds ==
    /\ drain = "running" /\ batch = {} /\ busy = {}
    /\ drain' = "none"
    /\ timer' = (timer \/ scheduled # {})
    /\ flusher' = [f \in Flushers |->
                     IF flusher[f] = "awaiting" THEN "looking" ELSE flusher[f]]
    /\ UNCHANGED <<dirty, scheduled, batch, busy, flushRequested, owed>>

\* A flush is called by one that has just enqueued the jobs K.
FlushAfter(K, f) ==
    /\ flusher[f] = "idle"
    /\ flusher' = [flusher EXCEPT ![f] = "looking"]
    /\ Schedule(K)
    /\ UNCHANGED <<batch, busy, drain, flushRequested>>
    /\ owed' = [owed EXCEPT ![f] = Outstanding']

FlushCalled(f) == FlushAfter({}, f)

NothingToFlush == ~timer /\ drain = "none" /\ dirty \cup scheduled = {}

FlushReturns(f) ==
    /\ flusher[f] = "looking"
    /\ NothingToFlush
    /\ flusher' = [flusher EXCEPT ![f] = "idle"]
    /\ UNCHANGED <<dirty, scheduled, batch, busy, timer, drain, flushRequested, owed>>

\* Faulty variant: a flush stops the timer and queues nothing for it.
FlushStopsTheTimer(f) ==
    /\ flusher[f] = "looking"
    /\ ~NothingToFlush
    /\ flusher' = [flusher EXCEPT ![f] = "awaiting"]
    /\ timer' = FALSE
    /\ flushRequested' = (flushRequested \/ timer \/ drain = "none")
    /\ UNCHANGED <<dirty, scheduled, batch, busy, drain, owed>>

\* A flush replaces the timer by a drain at once, or joins the drain there is.
FlushDrains(f) ==
    /\ flusher[f] = "looking"
    /\ ~NothingToFlush
    /\ flusher' = [flusher EXCEPT ![f] = "awaiting"]
    /\ timer' = FALSE
    /\ flushRequested' = (flushRequested \/ timer \/ drain = "none")
    /\ drain' = IF drain = "none" THEN "queued" ELSE drain
    /\ UNCHANGED <<dirty, scheduled, batch, busy, owed>>

Work == \/ TimerFires \/ DrainBegins \/ DrainEnds
        \/ \E k \in Keys : JobStarts(k) \/ JobEnds(k)
Request == \E k \in Keys : Enqueue(k) \/ MarkDirty(k)

QueueNext ==
    \/ Work \/ Request
    \/ \E f \in Flushers : FlushCalled(f) \/ FlushReturns(f) \/ FlushDrains(f)

QueueSpec == QueueInit /\ [][QueueNext]_queueVars

\* Timers fire, promises go on and jobs end; nobody has to ask.
QueueFairSpec ==
    /\ QueueSpec
    /\ WF_queueVars(TimerFires) /\ WF_queueVars(DrainBegins) /\ WF_queueVars(DrainEnds)
    /\ \A k \in Keys : WF_queueVars(JobStarts(k)) /\ WF_queueVars(JobEnds(k))
    /\ \A f \in Flushers : WF_queueVars(FlushReturns(f)) /\ WF_queueVars(FlushDrains(f))

-----------------------------------------------------------------------------
\* A job that is scheduled has something that leads to it: the timer, or the
\* drain after which the timer is set (scheduleDrain, queueDrain).
NothingForgotten == scheduled # {} => timer \/ drain # "none"

\* A request to flush is always before a drain that will take it: a drain that
\* has already taken its jobs does not swallow it.
FlushIsAhead == flushRequested => drain = "queued"

\* One drain at a time and no timer beside it, whoever enqueues and flushes
\* meanwhile; a job that runs is not taken a second time.
OneDrain ==
    /\ ~(timer /\ drain # "none")
    /\ batch \cup busy # {} => drain = "running"
    /\ batch \cap busy = {}

\* One drain at a time, ahead of everything that waits for it.
QueueSound == QueueTypeOK /\ NothingForgotten /\ FlushIsAhead /\ OneDrain

\* A flush returns only when what was outstanding at its call has been done,
\* what was only marked dirty and what was already running included.
FlushLeavesNothing ==
    [][\A f \in Flushers : FlushReturns(f) => owed[f] = {}]_queueVars

\* An enqueued job runs.
EnqueuedRuns == \A k \in Keys : k \in scheduled ~> k \in busy

\* A flush returns, unless there is always something new.
FlushEnds ==
    \/ []<><<Request>>_queueVars
    \/ \A f \in Flushers : flusher[f] # "idle" ~> flusher[f] = "idle"

\* What is enqueued is done, and a flush returns once what it was called for is.
AskedIsDone == FlushLeavesNothing /\ EnqueuedRuns /\ FlushEnds
=============================================================================
