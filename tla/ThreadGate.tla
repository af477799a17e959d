----------------------------- MODULE ThreadGate -----------------------------
(***************************************************************************)
(* ThreadLifecycleGate of the main process (agent/thread-lifecycle-gate.ts):*)
(* agent runs, idle mutations (threads:setModel) and deletions of a thread  *)
(* pass one at a time through the thread's queue of transitions; a run      *)
(* leaves the queue with a lease and completes it later. Deletion and       *)
(* shutdown abort the leases they find and wait for their completion.       *)
(*                                                                         *)
(* Everything runs on one event loop: a step is the code between two        *)
(* awaits. What a lease, a mutation or a deletion does meanwhile is         *)
(* external and takes any time.                                             *)
(***************************************************************************)
EXTENDS Sequences, FiniteSets

CONSTANTS
  Threads,     \* thread ids
  Requests,    \* claimRun / withIdleMutation / withDeletion calls
  ThreadOf,    \* the thread a request is about
  KindOf,      \* "run", "mutation" or "deletion"
  None         \* no run, no deletion

ASSUME GateAssumption ==
  /\ ThreadOf \in [Requests -> Threads]
  /\ KindOf \in [Requests -> {"run", "mutation", "deletion"}]
  /\ None \notin Requests

VARIABLES
  transitions, \* thread -> the requests chained on it, the first one being served
  runs,        \* thread -> the request that holds its lease
  deletions,   \* thread -> its deletion in progress
  recovery,    \* threads that require recovery
  stage,       \* where a request stands
  aborted,     \* the AbortController of a lease has fired
  awaits,      \* the request another one waits for
  closing,     \* how far shutdown() has come
  drain        \* the requests shutdown() waits for

gateVars == <<transitions, runs, deletions, recovery, stage, aborted, awaits, closing, drain>>

Stages == {"idle", "queued", "leased", "operating", "stopping", "joined", "ending",
           "done", "refused"}

Requested(r, kind) == stage[r] = "idle" /\ KindOf[r] = kind
\* The request's turn in its thread's chain has come.
Served(r, kind) ==
  /\ stage[r] = "queued" /\ KindOf[r] = kind
  /\ transitions[ThreadOf[r]] # <<>> /\ Head(transitions[ThreadOf[r]]) = r
ShuttingDown == closing # "open"

GateInit ==
  /\ transitions = [t \in Threads |-> <<>>]
  /\ runs = [t \in Threads |-> None]
  /\ deletions = [t \in Threads |-> None]
  /\ recovery = {}
  /\ stage = [r \in Requests |-> "idle"]
  /\ aborted = [r \in Requests |-> FALSE]
  /\ awaits = [r \in Requests |-> None]
  /\ closing = "open"
  /\ drain = {}

At(r, where) == stage' = [stage EXCEPT ![r] = where]

\* runTransition chains the request behind the thread's previous transition ...
Chain(r) ==
  transitions' = [transitions EXCEPT ![ThreadOf[r]] = Append(@, r)]

\* ... and lets the next one go, whether the operation returned or threw.
Release(r) ==
  transitions' = [transitions EXCEPT ![ThreadOf[r]] = Tail(@)]

\* Mutant: nobody is told.
Abort_Nobody(stopped) == UNCHANGED aborted

Abort(stopped) == aborted' = [r \in Requests |-> aborted[r] \/ r \in stopped]

-----------------------------------------------------------------------------
(* Runs.                                                                   *)

\* Mutant: recovery is not looked at.
Closed_Recovering(t) == ShuttingDown \/ deletions[t] # None

Closed(t) == ShuttingDown \/ deletions[t] # None \/ t \in recovery

Idle(t) == ~Closed(t) /\ runs[t] = None

\* claimRun refuses at once, or waits for its turn.
ClaimRun(r) ==
  /\ Requested(r, "run")
  /\ IF Closed(ThreadOf[r])
       THEN At(r, "refused") /\ UNCHANGED transitions
       ELSE At(r, "queued") /\ Chain(r)
  /\ UNCHANGED <<runs, deletions, recovery, aborted, awaits, closing, drain>>

\* In its turn it checks everything again, and takes the lease if no run has it.
AdmitRun(r) ==
  /\ Served(r, "run")
  /\ IF Idle(ThreadOf[r])
       THEN At(r, "leased") /\ runs' = [runs EXCEPT ![ThreadOf[r]] = r]
       ELSE At(r, "refused") /\ UNCHANGED runs
  /\ Release(r)
  /\ UNCHANGED <<deletions, recovery, aborted, awaits, closing, drain>>

\* lease.complete(): the run is over and whoever waits for its completion goes on.
CompleteRun(r) ==
  /\ stage[r] = "leased"
  /\ At(r, "done")
  /\ runs' = IF runs[ThreadOf[r]] = r THEN [runs EXCEPT ![ThreadOf[r]] = None] ELSE runs
  /\ UNCHANGED <<transitions, deletions, recovery, aborted, awaits, closing, drain>>

\* A run, or a steering message that outlived it, could not persist its state.
RequireRecovery(t) ==
  /\ \E r \in Requests : ThreadOf[r] = t /\ KindOf[r] = "run" /\ stage[r] \in {"leased", "done"}
  /\ recovery' = recovery \union {t}
  /\ UNCHANGED <<transitions, runs, deletions, stage, aborted, awaits, closing, drain>>

-----------------------------------------------------------------------------
(* Idle mutations.                                                         *)

RequestMutation(r) ==
  /\ Requested(r, "mutation")
  /\ At(r, "queued") /\ Chain(r)
  /\ UNCHANGED <<runs, deletions, recovery, aborted, awaits, closing, drain>>

\* The operation starts, inside the transition, only on an idle thread.
BeginMutation(r) ==
  /\ Served(r, "mutation")
  /\ IF Idle(ThreadOf[r])
       THEN At(r, "operating") /\ UNCHANGED transitions
       ELSE At(r, "refused") /\ Release(r)
  /\ UNCHANGED <<runs, deletions, recovery, aborted, awaits, closing, drain>>

EndMutation(r) ==
  /\ stage[r] = "operating" /\ KindOf[r] = "mutation"
  /\ At(r, "done") /\ Release(r)
  /\ UNCHANGED <<runs, deletions, recovery, aborted, awaits, closing, drain>>

-----------------------------------------------------------------------------
(* Deletions.                                                              *)

\* The first deletion chains itself; a second one waits for the first.
RequestDeletion(r) ==
  /\ Requested(r, "deletion")
  /\ IF ShuttingDown
       THEN At(r, "refused") /\ UNCHANGED <<transitions, deletions, awaits>>
       ELSE IF deletions[ThreadOf[r]] # None
         THEN /\ At(r, "joined")
              /\ awaits' = [awaits EXCEPT ![r] = deletions[ThreadOf[r]]]
              /\ UNCHANGED <<transitions, deletions>>
         ELSE /\ At(r, "queued") /\ Chain(r)
              /\ deletions' = [deletions EXCEPT ![ThreadOf[r]] = r]
              /\ UNCHANGED awaits
  /\ UNCHANGED <<runs, recovery, aborted, closing, drain>>

\* stopActiveRun aborts the thread's run and awaits its completion.
BeginDeletion(r) ==
  /\ Served(r, "deletion")
  /\ LET active == runs[ThreadOf[r]] IN
       IF active = None
         THEN At(r, "operating") /\ UNCHANGED <<aborted, awaits>>
         ELSE /\ At(r, "stopping")
              /\ Abort({active})
              /\ awaits' = [awaits EXCEPT ![r] = active]
  /\ UNCHANGED <<transitions, runs, deletions, recovery, closing, drain>>

RunStopped(r) ==
  /\ stage[r] = "stopping" /\ stage[awaits[r]] = "done"
  /\ At(r, "operating")
  /\ UNCHANGED <<transitions, runs, deletions, recovery, aborted, awaits, closing, drain>>

\* The thread's data is gone, or deleting it failed; the chain goes on ...
EndDeletion(r) ==
  /\ stage[r] = "operating" /\ KindOf[r] = "deletion"
  /\ At(r, "ending") /\ Release(r)
  /\ UNCHANGED <<runs, deletions, recovery, aborted, awaits, closing, drain>>

Forget(r) ==
  deletions' = IF deletions[ThreadOf[r]] = r
                 THEN [deletions EXCEPT ![ThreadOf[r]] = None] ELSE deletions

\* ... and the finally of withDeletion, a few microtasks later, forgets the deletion.
ForgetDeletion(r) ==
  /\ stage[r] = "ending"
  /\ At(r, "done") /\ Forget(r)
  /\ UNCHANGED <<transitions, runs, recovery, aborted, awaits, closing, drain>>

JoinedReturns(r) ==
  /\ stage[r] = "joined" /\ stage[awaits[r]] \in {"ending", "done"}
  /\ At(r, "done")
  /\ UNCHANGED <<transitions, runs, deletions, recovery, aborted, awaits, closing, drain>>

-----------------------------------------------------------------------------
(* Shutdown, memoised by shutdownPromise.                                  *)

\* Mutant: the chains are not waited for.
Chained_None == {}

Chained == {r \in Requests : stage[r] \in {"queued", "stopping", "operating"}}
Leases == {r \in Requests : stage[r] = "leased"}

Running == {runs[t] : t \in {t \in Threads : runs[t] # None}}

\* Admission closes and every chain that exists at that moment is waited for.
Shutdown ==
  /\ closing = "open"
  /\ closing' = "draining"
  /\ drain' = Chained
  /\ UNCHANGED <<transitions, runs, deletions, recovery, stage, aborted, awaits>>

\* The chains are drained: the runs that are left are aborted and waited for.
StopAllRuns ==
  /\ closing = "draining" /\ drain \intersect Chained = {}
  /\ closing' = "stopping"
  /\ drain' = Running /\ Abort(Running)
  /\ UNCHANGED <<transitions, runs, deletions, recovery, stage, awaits>>

ShutdownReturns ==
  /\ closing = "stopping" /\ drain \intersect Leases = {}
  /\ closing' = "closed"
  /\ UNCHANGED <<transitions, runs, deletions, recovery, stage, aborted, awaits, drain>>

-----------------------------------------------------------------------------
\* What the gate itself does once a request's turn, or its wait, is over.
Advance(r) ==
  \/ AdmitRun(r) \/ BeginMutation(r)
  \/ BeginDeletion(r) \/ RunStopped(r) \/ ForgetDeletion(r) \/ JoinedReturns(r)

OperationEnds(r) == EndMutation(r) \/ EndDeletion(r)

GateNext ==
  \/ \E r \in Requests :
       \/ ClaimRun(r) \/ RequestMutation(r) \/ RequestDeletion(r)
       \/ Advance(r) \/ OperationEnds(r) \/ CompleteRun(r)
  \/ \E t \in Threads : RequireRecovery(t)
  \/ Shutdown \/ StopAllRuns \/ ShutdownReturns

GateSpec == GateInit /\ [][GateNext]_gateVars

\* Promises settle and the operations end; a run need end only when it is aborted.
Fairness ==
  /\ \A r \in Requests :
       /\ WF_gateVars(Advance(r))
       /\ WF_gateVars(OperationEnds(r))
       /\ WF_gateVars(aborted[r] /\ CompleteRun(r))
  /\ WF_gateVars(StopAllRuns) /\ WF_gateVars(ShutdownReturns)

GateLiveSpec == GateSpec /\ Fairness
-----------------------------------------------------------------------------
(* Properties.                                                             *)

\* Every variable keeps its type.
GateTypeOK ==
  /\ transitions \in [Threads -> Seq(Requests)]
  /\ runs \in [Threads -> Requests \union {None}]
  /\ deletions \in [Threads -> Requests \union {None}]
  /\ recovery \in SUBSET Threads
  /\ stage \in [Requests -> Stages]
  /\ aborted \in [Requests -> BOOLEAN]
  /\ awaits \in [Requests -> Requests \union {None}]
  /\ closing \in {"open", "draining", "stopping", "closed"}
  /\ drain \in SUBSET Requests

\* A run, a mutation and a deletion of one thread exclude each other: nothing is deleted
\* under a run, no model is changed under a run and no two runs share a thread, although
\* each of them takes its decision before or between awaits.
ThreadExclusion ==
  \A r, s \in Requests :
    /\ ThreadOf[r] = ThreadOf[s]
    /\ stage[r] \in {"leased", "operating"} /\ stage[s] \in {"leased", "operating"}
    => r = s

\* When shutdown() has returned nothing is under way and nothing will ever start:
\* requests that were already chained have ended, later ones are refused.
ClosedIsQuiescent ==
  closing = "closed" =>
    \A r \in Requests : stage[r] \notin {"leased", "operating", "stopping"}

\* One at a time, and nothing after the end.
OneAtATime == GateTypeOK /\ ThreadExclusion /\ ClosedIsQuiescent

\* A thread that requires recovery admits no run and no mutation any more, not even one
\* that had passed the first check and was waiting for its turn.
RecoveryAdmitsNothing ==
  [][\A r \in Requests :
       ThreadOf[r] \in recovery /\ KindOf[r] # "deletion" =>
         (stage'[r] \in {"leased", "operating"} => stage'[r] = stage[r])]_gateVars

\* Every request is answered, whatever the runs before it do: only a deletion waits for a
\* run, and it has aborted it.
RequestsAnswered ==
  \A r \in Requests :
    stage[r] \in {"queued", "stopping", "joined"} ~>
      stage[r] \in {"leased", "operating", "ending", "done", "refused"}

\* A deletion that has come to its end does not bar the thread's admission for ever.
DeletionForgotten ==
  \A t \in Threads : deletions[t] # None ~> deletions[t] = None

\* shutdown() returns.
ShutdownCompletes == closing = "draining" ~> closing = "closed"

\* Nobody waits for ever on the gate: requests are answered, deletions forgotten, and
\* shutdown returns, although only the abort of a deletion or a shutdown ends a run.
NobodyWaitsForEver == RequestsAnswered /\ DeletionForgotten /\ ShutdownCompletes
=============================================================================
