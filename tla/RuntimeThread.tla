--------------------------- MODULE RuntimeThread ---------------------------
(***************************************************************************)
(* Operations of the agent harness on its threads: the registry that admits *)
(* one operation per thread, the run handle (execute, abort, fail) and the  *)
(* terminal referee that decides, persists and settles a run's outcome.     *)
(* packages/langchain-agent-harness/src/runtime-thread-*.ts                 *)
(*                                                                         *)
(* Everything runs on one event loop, so a step of this module is the code  *)
(* between two awaits; the host's ports (begin, complete, fail, abort,      *)
(* cancel, settle), the model stream and the stream observer are awaited    *)
(* and answer at any later time, with a result or with an error.            *)
(***************************************************************************)
EXTENDS Naturals

CONSTANTS
  Threads,     \* thread ids
  Ops,         \* operations requested over the life of the process
  Callers,     \* concurrent abort() / fail() calls a handle may receive
  ThreadOf,    \* the thread an operation is requested on
  RunOf,       \* its run id: a resume carries the id of an earlier run
  KindOf,      \* "invoke", "resume" or "compact"
  NoOp,        \* the owner of a free registry entry
  Nobody       \* the author of a terminal outcome not yet decided

ASSUME ConstantsAssumption ==
  /\ ThreadOf \in [Ops -> Threads]
  /\ KindOf \in [Ops -> {"invoke", "resume", "compact"}]
  /\ NoOp \notin Ops
  /\ Nobody \notin Callers \union {"execution", "signal"}
  /\ Callers \intersect {"execution", "signal"} = {}

VARIABLES
  active,      \* the registry: thread -> its current run
  phase,       \* admission and release of an operation
  terminal,    \* a resume whose decision already ended the run
  exec,        \* where execute() stands
  outcome,     \* what the work function returned or threw
  forwarded,   \* the external AbortSignal handed to execute() has fired
  signalled,   \* the execution context's own AbortController
  disposed,    \* the execution context is disposed
  winner,      \* the referee's winning intent
  author,      \* whose submission the winner is (its token)
  commit,      \* the memoised commit promise
  intent,      \* the winner captured when the commit began
  durable,     \* the terminal facts the host's ports have persisted
  result,      \* what the commit promise settles to
  call         \* the abort()/fail() calls in flight

registryVars == <<active, phase, terminal>>
execVars     == <<exec, outcome, forwarded, signalled, disposed>>
refereeVars  == <<winner, author, commit, intent, durable, result>>
vars == <<registryVars, execVars, refereeVars, call>>

Phases     == {"idle", "starting", "compensating", "unadmitted", "live",
               "released", "rejected"}
ExecStages == {"no", "opening", "streaming", "delivering", "drained",
               "decided", "committing", "over"}
Outcomes   == {"none", "completed", "interrupted", "cancelled", "failed"}
Intents    == {"none", "aborted", "cancelled", "failed", "completed", "interrupted"}
Facts      == {"aborted", "cancelled", "failed", "completed", "interrupted"}
CommitStages == {"no", "persisting", "compensating", "settling", "closing", "done"}
Results    == {"none", "error"} \union Facts
CallStages == {"no", "waiting", "committing", "returned"}
NoCall     == [stage |-> "no", kind |-> "none", barrier |-> FALSE, answer |-> "none"]
Calls      == [stage: CallStages, kind: {"none", "abort", "fail"},
               barrier: BOOLEAN, answer: {"none", "owned", "lost", "error"}]
FreeEntry  == [status |-> "free", owner |-> NoOp]
Entries    == [status: {"free", "starting", "admitted", "executing"},
               owner: Ops \union {NoOp}]

Entry(o)    == active[ThreadOf[o]]
IsRun(o)    == KindOf[o] # "compact"
\* startInvoke / startResume has returned the handle to the host.
HasHandle(o) == phase[o] \in {"live", "released"} /\ IsRun(o)
\* The run's stream is open: the model works and chunks reach the observer.
Streaming(o) == exec[o] \in {"opening", "streaming", "delivering"}

Init ==
  /\ active = [t \in Threads |-> FreeEntry]
  /\ phase = [o \in Ops |-> "idle"]
  /\ terminal = [o \in Ops |-> FALSE]
  /\ exec = [o \in Ops |-> "no"]
  /\ outcome = [o \in Ops |-> "none"]
  /\ forwarded = [o \in Ops |-> FALSE]
  /\ signalled = [o \in Ops |-> FALSE]
  /\ disposed = [o \in Ops |-> FALSE]
  /\ winner = [o \in Ops |-> "none"]
  /\ author = [o \in Ops |-> Nobody]
  /\ commit = [o \in Ops |-> "no"]
  /\ intent = [o \in Ops |-> "none"]
  /\ durable = [o \in Ops |-> {}]
  /\ result = [o \in Ops |-> "none"]
  /\ call = [o \in Ops |-> [c \in Callers |-> NoCall]]

-----------------------------------------------------------------------------
(* Admission: reserve, ask the host to begin the run, admit or release.     *)

\* reserveRun throws RuntimeThreadBusyError while any operation holds the thread.
Reserve(o) ==
  /\ phase[o] = "idle"
  /\ IF Entry(o).status = "free"
       THEN /\ active' = [active EXCEPT ![ThreadOf[o]] = [status |-> "starting", owner |-> o]]
            /\ phase' = [phase EXCEPT ![o] = "starting"]
       ELSE /\ phase' = [phase EXCEPT ![o] = "rejected"]
            /\ UNCHANGED active
  /\ UNCHANGED <<terminal, execVars, refereeVars, call>>

\* releaseRunReservation deletes the entry only while it is this very reservation.
ReleaseReservation(o) ==
  active' = IF Entry(o) = [status |-> "starting", owner |-> o]
              THEN [active EXCEPT ![ThreadOf[o]] = FreeEntry]
              ELSE active

\* The host began the run. A resume may have been ended by the user's decision: the
\* decision's transaction has then persisted the cancellation.
Begun(o) ==
  /\ phase[o] = "starting" /\ IsRun(o)
  /\ \E ended \in (IF KindOf[o] = "resume" THEN BOOLEAN ELSE {FALSE}) :
       /\ terminal' = [terminal EXCEPT ![o] = ended]
       /\ durable' = [durable EXCEPT ![o] = IF ended THEN {"cancelled"} ELSE {}]

\* The run has begun and its execution factory is bound: the handle exists.
Admit(o) ==
  /\ Begun(o)
  /\ Entry(o) = [status |-> "starting", owner |-> o]
  /\ active' = [active EXCEPT ![ThreadOf[o]] = [status |-> "admitted", owner |-> o]]
  /\ phase' = [phase EXCEPT ![o] = "live"]
  /\ UNCHANGED <<execVars, winner, author, commit, intent, result, call>>

\* The host refused to begin the run: nothing to compensate.
BeginFails(o) ==
  /\ phase[o] = "starting" /\ IsRun(o)
  /\ phase' = [phase EXCEPT ![o] = "rejected"]
  /\ ReleaseReservation(o)
  /\ UNCHANGED <<terminal, execVars, refereeVars, call>>

\* The run began but could not be bound: failStartedRunAdmission marks it failed ...
AdmissionFails(o) ==
  /\ Begun(o)
  /\ phase' = [phase EXCEPT ![o] = "compensating"]
  /\ UNCHANGED <<active, execVars, winner, author, commit, intent, result, call>>

\* The port may throw, and always does for a run that has already ended.
FailStartedRun(o) ==
  /\ phase[o] = "compensating"
  /\ \E persisted \in BOOLEAN :
       durable' = IF persisted /\ durable[o] = {}
                    THEN [durable EXCEPT ![o] = {"failed"}] ELSE durable
  /\ phase' = [phase EXCEPT ![o] = "unadmitted"]
  /\ UNCHANGED <<active, terminal, execVars, winner, author, commit, intent, result, call>>

\* ... settles the host's resources, whatever comes of that, and gives the thread back.
ReleaseUnadmitted(o) ==
  /\ phase[o] = "unadmitted"
  /\ phase' = [phase EXCEPT ![o] = "rejected"]
  /\ ReleaseReservation(o)
  /\ UNCHANGED <<terminal, execVars, refereeVars, call>>

\* compact() holds the thread for the whole compaction and releases it in a finally.
CompactReturns(o) ==
  /\ phase[o] = "starting" /\ ~IsRun(o)
  /\ phase' = [phase EXCEPT ![o] = "released"]
  /\ ReleaseReservation(o)
  /\ UNCHANGED <<terminal, execVars, refereeVars, call>>

-----------------------------------------------------------------------------
(* The referee.                                                            *)

\* The first intent wins; a decided cancellation replaces an abort not yet committing.
Accepts(o, status) ==
  \/ winner[o] = "none"
  \/ status = "cancelled" /\ winner[o] = "aborted" /\ commit[o] = "no"

\* The winner once this submission has been judged.
Judged(o, status) == IF Accepts(o, status) THEN status ELSE winner[o]

Submit(o, status, who) ==
  /\ winner' = [winner EXCEPT ![o] = Judged(o, status)]
  /\ author' = [author EXCEPT ![o] = IF Accepts(o, status) THEN who ELSE @]

\* commit() is memoised: the first call captures the winner and starts persisting it.
BeginCommit(o, won) ==
  /\ commit' = [commit EXCEPT ![o] = IF @ = "no" THEN "persisting" ELSE @]
  /\ intent' = [intent EXCEPT ![o] = IF commit[o] = "no" THEN won ELSE @]

-----------------------------------------------------------------------------
(* execute(): once per handle; synchronous up to the first stream await.    *)

\* activateRun: the registry entry must still be this run's, and not executing.
Activates(o) ==
  /\ Entry(o).status = "admitted"
  /\ RunOf[Entry(o).owner] = RunOf[o]

StartWork(o) ==
  IF Activates(o)
    THEN /\ active' = [active EXCEPT ![ThreadOf[o]] = [status |-> "executing", owner |-> o]]
         /\ exec' = [exec EXCEPT ![o] = "opening"]
         /\ UNCHANGED outcome
    ELSE /\ exec' = [exec EXCEPT ![o] = "decided"]
         /\ outcome' = [outcome EXCEPT ![o] = "failed"]
         /\ UNCHANGED active

Decide(o, what) ==
  /\ exec' = [exec EXCEPT ![o] = "decided"]
  /\ outcome' = [outcome EXCEPT ![o] = what]

\* The context was disposed before execute() was called: it throws.
ExecuteDisposed(o) ==
  /\ HasHandle(o) /\ exec[o] = "no" /\ disposed[o]
  /\ exec' = [exec EXCEPT ![o] = "over"]
  /\ UNCHANGED <<registryVars, outcome, forwarded, signalled, disposed, refereeVars, call>>

\* A resume whose decision ended the run performs no work and reports it cancelled.
ExecuteTerminal(o) ==
  /\ HasHandle(o) /\ exec[o] = "no" /\ ~disposed[o] /\ terminal[o]
  /\ Decide(o, "cancelled")
  /\ UNCHANGED <<registryVars, forwarded, signalled, disposed, refereeVars, call>>

\* The caller's AbortSignal had fired already: forwarding submits the abort at once.
ExecuteForwarded(o) ==
  /\ HasHandle(o) /\ exec[o] = "no" /\ ~disposed[o] /\ ~terminal[o] /\ forwarded[o]
  /\ Submit(o, "aborted", "signal")
  /\ signalled' = [signalled EXCEPT ![o] = TRUE]
  /\ Decide(o, "failed")
  /\ UNCHANGED <<registryVars, forwarded, disposed, commit, intent, durable, result, call>>

\* abort() or fail() came first: the signal is up, and the work throws before any stream.
ExecuteSignalled(o) ==
  /\ HasHandle(o) /\ exec[o] = "no" /\ ~disposed[o] /\ ~terminal[o] /\ ~forwarded[o]
  /\ signalled[o]
  /\ Decide(o, "failed")
  /\ UNCHANGED <<registryVars, forwarded, signalled, disposed, refereeVars, call>>

ExecuteWork(o) ==
  /\ HasHandle(o) /\ exec[o] = "no" /\ ~disposed[o] /\ ~terminal[o] /\ ~forwarded[o]
  /\ ~signalled[o]
  /\ StartWork(o)
  /\ UNCHANGED <<phase, terminal, forwarded, signalled, disposed, refereeVars, call>>

\* The execution is built and the stream is open.
StreamOpens(o) ==
  /\ exec[o] = "opening"
  /\ exec' = [exec EXCEPT ![o] = "streaming"]
  /\ UNCHANGED <<registryVars, outcome, forwarded, signalled, disposed, refereeVars, call>>

\* A chunk arrives while the signal is down: it goes to the observer, which is awaited.
\* Once an interrupt has been seen later chunks are consumed without being delivered.
ChunkArrives(o) ==
  /\ exec[o] = "streaming" /\ ~signalled[o] /\ outcome[o] # "interrupted"
  /\ exec' = [exec EXCEPT ![o] = "delivering"]
  /\ UNCHANGED <<registryVars, outcome, forwarded, signalled, disposed, refereeVars, call>>

\* The observer is done; the chunk may have carried a pending approval.
ChunkDelivered(o) ==
  /\ exec[o] = "delivering"
  /\ exec' = [exec EXCEPT ![o] = "streaming"]
  /\ \E approval \in BOOLEAN :
       outcome' = IF approval THEN [outcome EXCEPT ![o] = "interrupted"] ELSE outcome
  /\ UNCHANGED <<registryVars, forwarded, signalled, disposed, refereeVars, call>>

\* The stream ends, or the loop breaks on a chunk that finds the signal up.
StreamEnds(o) ==
  /\ exec[o] = "streaming"
  /\ exec' = [exec EXCEPT ![o] = "drained"]
  /\ UNCHANGED <<registryVars, outcome, forwarded, signalled, disposed, refereeVars, call>>

\* Opening the stream, the stream itself, or the observer throws.
WorkThrows(o) ==
  /\ Streaming(o)
  /\ Decide(o, "failed")
  /\ UNCHANGED <<registryVars, forwarded, signalled, disposed, refereeVars, call>>

\* After the drain the signal is checked once more, then forwarding is removed.
WorkReturns(o) ==
  /\ exec[o] = "drained"
  /\ Decide(o, IF signalled[o] THEN "failed"
               ELSE IF outcome[o] = "interrupted" THEN "interrupted" ELSE "completed")
  /\ UNCHANGED <<registryVars, forwarded, signalled, disposed, refereeVars, call>>

\* The execution submits what the work decided and commits whatever won.
ExecutionCommits(o) ==
  /\ exec[o] = "decided"
  /\ exec' = [exec EXCEPT ![o] = "committing"]
  /\ Submit(o, outcome[o], "execution")
  /\ BeginCommit(o, Judged(o, outcome[o]))
  /\ UNCHANGED <<registryVars, outcome, forwarded, signalled, disposed, durable, result, call>>

\* Mutant: the barrier is released only when the commit succeeded.
ExecutionReturns_OnSuccess(o) ==
  /\ exec[o] = "committing" /\ commit[o] = "done" /\ result[o] # "error"
  /\ exec' = [exec EXCEPT ![o] = "over"]
  /\ UNCHANGED <<registryVars, outcome, forwarded, signalled, disposed, refereeVars, call>>

\* The commit settled; the finally releases the barrier abort() and fail() wait on.
ExecutionReturns(o) ==
  /\ exec[o] = "committing" /\ commit[o] = "done"
  /\ exec' = [exec EXCEPT ![o] = "over"]
  /\ UNCHANGED <<registryVars, outcome, forwarded, signalled, disposed, refereeVars, call>>

\* The caller's AbortSignal fires: forwarded while the work function runs.
SignalFires(o) ==
  /\ HasHandle(o) /\ ~forwarded[o]
  /\ forwarded' = [forwarded EXCEPT ![o] = TRUE]
  /\ IF Streaming(o) \/ exec[o] = "drained"
       THEN /\ Submit(o, "aborted", "signal")
            /\ signalled' = [signalled EXCEPT ![o] = TRUE]
       ELSE UNCHANGED <<winner, author, signalled>>
  /\ UNCHANGED <<registryVars, exec, outcome, disposed, commit, intent, durable, result, call>>

-----------------------------------------------------------------------------
(* abort() and fail(): submit unless decided, wait for the execution, commit. *)

\* A call in flight reaches a later stage.
CallAt(o, c, stage, answer) ==
  [stage |-> stage, kind |-> call[o][c].kind, barrier |-> call[o][c].barrier, answer |-> answer]

StatusOf(kind) == IF kind = "abort" THEN "aborted" ELSE "failed"

CallControl(o, c) ==
  /\ HasHandle(o) /\ call[o][c].stage = "no"
  /\ \E kind \in {"abort", "fail"} :
       /\ call' = [call EXCEPT ![o][c] =
                     [stage |-> "waiting", kind |-> kind,
                      barrier |-> exec[o] # "no", answer |-> "none"]]
       /\ IF winner[o] = "none"
            THEN /\ Submit(o, StatusOf(kind), c)
                 /\ signalled' = [signalled EXCEPT ![o] = TRUE]
            ELSE UNCHANGED <<winner, author, signalled>>
  /\ UNCHANGED <<registryVars, exec, outcome, forwarded, disposed,
                 commit, intent, durable, result>>

\* Mutant: the call does not wait for the execution.
CallCommits_NoBarrier(o, c) ==
  /\ call[o][c].stage = "waiting"
  /\ call' = [call EXCEPT ![o][c] = CallAt(o, c, "committing", "none")]
  /\ BeginCommit(o, winner[o])
  /\ UNCHANGED <<registryVars, execVars, winner, author, durable, result>>

\* executionSettled was read when the call was made: null if execute() had not begun.
CallCommits(o, c) ==
  /\ call[o][c].stage = "waiting"
  /\ call[o][c].barrier => exec[o] = "over"
  /\ call' = [call EXCEPT ![o][c] = CallAt(o, c, "committing", "none")]
  /\ BeginCommit(o, winner[o])
  /\ UNCHANGED <<registryVars, execVars, winner, author, durable, result>>

\* Mutant: the call does not await the commit.
CallReturns_Early(o, c) ==
  /\ call[o][c].stage = "committing"
  /\ call' = [call EXCEPT ![o][c] = CallAt(o, c, "returned", "lost")]
  /\ UNCHANGED <<registryVars, execVars, refereeVars>>

\* Mutant: the answer compares statuses only, not the token of the submission.
Answer_ByStatus(o, c) ==
  IF result[o] = "error" THEN "error"
  ELSE IF result[o] = StatusOf(call[o][c].kind) THEN "owned" ELSE "lost"

\* abort() is true, and fail() returns the failure, only to the submission that won.
Answer(o, c) ==
  IF result[o] = "error" THEN "error"
  ELSE IF author[o] = c /\ result[o] = StatusOf(call[o][c].kind) THEN "owned" ELSE "lost"

CallReturns(o, c) ==
  /\ call[o][c].stage = "committing" /\ commit[o] = "done"
  /\ call' = [call EXCEPT ![o][c] = CallAt(o, c, "returned", Answer(o, c))]
  /\ UNCHANGED <<registryVars, execVars, refereeVars>>

-----------------------------------------------------------------------------
(* commitRuntimeThreadTerminal: persist the intent, settle, close.          *)

\* The host refuses to end a run twice; cancelAfterDecision writes nothing new, since
\* the decision's transaction has ended the run.
HostAccepts(o) == durable[o] = {} \/ intent[o] = "cancelled"

\* The port for the captured intent persisted its fact.
Persist(o) ==
  /\ commit[o] = "persisting" /\ HostAccepts(o)
  /\ durable' = [durable EXCEPT ![o] = @ \union {intent[o]}]
  /\ result' = [result EXCEPT ![o] = intent[o]]
  /\ commit' = [commit EXCEPT ![o] = "settling"]
  /\ UNCHANGED <<registryVars, execVars, winner, author, intent, call>>

\* The port threw and nothing was written. A completion falls back to failRun.
PersistFails(o) ==
  /\ commit[o] = "persisting"
  /\ IF intent[o] \in {"completed", "interrupted"}
       THEN /\ commit' = [commit EXCEPT ![o] = "compensating"]
            /\ UNCHANGED result
       ELSE /\ commit' = [commit EXCEPT ![o] = "settling"]
            /\ result' = [result EXCEPT ![o] = "error"]
  /\ UNCHANGED <<registryVars, execVars, winner, author, intent, durable, call>>

\* completeRun rejected the completion and has itself persisted the run as failed.
PersistDowngrades(o) ==
  /\ commit[o] = "persisting" /\ intent[o] \in {"completed", "interrupted"}
  /\ durable' = [durable EXCEPT ![o] = @ \union {"failed"}]
  /\ result' = [result EXCEPT ![o] = "failed"]
  /\ commit' = [commit EXCEPT ![o] = "settling"]
  /\ UNCHANGED <<registryVars, execVars, winner, author, intent, call>>

FailCompletion(o) ==
  /\ commit[o] = "compensating"
  /\ \E persisted \in BOOLEAN :
       /\ durable' = IF persisted THEN [durable EXCEPT ![o] = @ \union {"failed"}] ELSE durable
       /\ result' = [result EXCEPT ![o] = IF persisted THEN "failed" ELSE "error"]
  /\ commit' = [commit EXCEPT ![o] = "settling"]
  /\ UNCHANGED <<registryVars, execVars, winner, author, intent, call>>

\* settleRun of the context registry: only an entry of this run id, disposing its context.
SettlesEntry(o) ==
  /\ Entry(o).status \in {"admitted", "executing"}
  /\ RunOf[Entry(o).owner] = RunOf[o]

\* Mutant: when the host's settleRun throws, the registry is not told.
Settle_NoFinally(o) ==
  /\ commit[o] = "settling"
  /\ commit' = [commit EXCEPT ![o] = "closing"]
  /\ \/ /\ phase' = [phase EXCEPT ![o] = "released"]
        /\ active' = [active EXCEPT ![ThreadOf[o]] = FreeEntry]
        /\ UNCHANGED result
     \/ /\ result' = [result EXCEPT ![o] = "error"]
        /\ UNCHANGED <<phase, active>>
  /\ UNCHANGED <<terminal, execVars, winner, author, intent, durable, call>>

\* The host's settleRun returned or threw; in both cases the registry lets go of the run.
Settle(o) ==
  /\ commit[o] = "settling"
  /\ commit' = [commit EXCEPT ![o] = "closing"]
  /\ phase' = [phase EXCEPT ![o] = "released"]
  /\ \E settled \in BOOLEAN :
       result' = IF settled THEN result ELSE [result EXCEPT ![o] = "error"]
  /\ IF SettlesEntry(o)
       THEN /\ active' = [active EXCEPT ![ThreadOf[o]] = FreeEntry]
            /\ IF Entry(o).status = "executing"
                 THEN /\ disposed' = [disposed EXCEPT ![Entry(o).owner] = TRUE]
                      /\ signalled' = [signalled EXCEPT ![Entry(o).owner] = TRUE]
                 ELSE UNCHANGED <<disposed, signalled>>
       ELSE UNCHANGED <<active, disposed, signalled>>
  /\ UNCHANGED <<terminal, exec, outcome, forwarded, winner, author, intent, durable, call>>

\* The execution context disposes itself and the commit promise settles.
CloseCommit(o) ==
  /\ commit[o] = "closing"
  /\ commit' = [commit EXCEPT ![o] = "done"]
  /\ disposed' = [disposed EXCEPT ![o] = TRUE]
  /\ signalled' = [signalled EXCEPT ![o] = TRUE]
  /\ UNCHANGED <<registryVars, exec, outcome, forwarded, winner, author, intent,
                 durable, result, call>>

-----------------------------------------------------------------------------
Execute(o) ==
  ExecuteDisposed(o) \/ ExecuteTerminal(o) \/ ExecuteForwarded(o)
    \/ ExecuteSignalled(o) \/ ExecuteWork(o)

HostActs(o) == Execute(o) \/ \E c \in Callers : CallControl(o, c)

AdmissionAnswers(o) ==
  Admit(o) \/ BeginFails(o) \/ AdmissionFails(o) \/ FailStartedRun(o)
    \/ ReleaseUnadmitted(o) \/ CompactReturns(o)

WorkAdvances(o) ==
  StreamOpens(o) \/ ChunkDelivered(o) \/ WorkThrows(o) \/ WorkReturns(o)
    \/ ExecutionCommits(o) \/ ExecutionReturns(o)

CommitAdvances(o) ==
  Persist(o) \/ PersistFails(o) \/ PersistDowngrades(o) \/ FailCompletion(o)
    \/ Settle(o) \/ CloseCommit(o)

Next ==
  \E o \in Ops :
    \/ Reserve(o)
    \/ AdmissionAnswers(o)
    \/ Execute(o)
    \/ WorkAdvances(o)
    \/ ChunkArrives(o)
    \/ StreamEnds(o)
    \/ SignalFires(o)
    \/ CommitAdvances(o)
    \/ \E c \in Callers : CallControl(o, c) \/ CallCommits(o, c) \/ CallReturns(o, c)

Spec == Init /\ [][Next]_vars

\* Ports answer, the observer returns and a stream ends; the host executes or
\* terminates every handle it is given. Nothing obliges anyone to abort.
Fairness ==
  \A o \in Ops :
    /\ WF_vars(AdmissionAnswers(o))
    /\ WF_vars(HostActs(o))
    /\ WF_vars(WorkAdvances(o))
    /\ SF_vars(StreamEnds(o))
    /\ WF_vars(CommitAdvances(o))
    /\ \A c \in Callers : WF_vars(CallCommits(o, c) \/ CallReturns(o, c))

LiveSpec == Spec /\ Fairness
-----------------------------------------------------------------------------
(* Properties.                                                             *)

RegistryType ==
  /\ active \in [Threads -> Entries]
  /\ phase \in [Ops -> Phases]
  /\ terminal \in [Ops -> BOOLEAN]

ExecType ==
  /\ exec \in [Ops -> ExecStages]
  /\ outcome \in [Ops -> Outcomes]
  /\ forwarded \in [Ops -> BOOLEAN]
  /\ signalled \in [Ops -> BOOLEAN]
  /\ disposed \in [Ops -> BOOLEAN]

RefereeType ==
  /\ winner \in [Ops -> Intents]
  /\ author \in [Ops -> Callers \union {"execution", "signal", Nobody}]
  /\ commit \in [Ops -> CommitStages]
  /\ intent \in [Ops -> Intents]
  /\ durable \in [Ops -> SUBSET Intents]
  /\ result \in [Ops -> Results]

CallType == call \in [Ops -> [Callers -> Calls]]

\* Every variable keeps its type.
TypeOK == RegistryType /\ ExecType /\ RefereeType /\ CallType

HoldingPhases == {"starting", "compensating", "unadmitted", "live"}
Holds(o) == phase[o] \in HoldingPhases

\* The registry and the operations agree: an operation owns its thread's entry from its
\* reservation until its release, so no settlement, compensation or late release ever
\* frees, or leaves behind, another operation's entry (settleRun matches by run id only,
\* and a resume reuses the id of the run before it).
RegistryOwnership ==
  /\ \A o \in Ops : Holds(o) => Entry(o).owner = o
  /\ \A t \in Threads : active[t].owner # NoOp =>
       /\ ThreadOf[active[t].owner] = t
       /\ Holds(active[t].owner)

\* One active stream per thread (docs/runtime-invariants.md, Run Lifecycle Truth): no two
\* operations of a thread stream at once, and a streaming operation still owns the thread.
OneStreamPerThread ==
  \A o, p \in Ops :
    Streaming(o) => /\ Entry(o).status = "executing"
                    /\ Streaming(p) /\ ThreadOf[p] = ThreadOf[o] => p = o

\* Once a terminal outcome is being persisted the run does no more work: whoever commits,
\* abort(), fail() or the execution, has waited for the stream and the observer to stop.
NoWorkWhileEnding ==
  \A o \in Ops : commit[o] # "no" => ~Streaming(o) /\ exec[o] # "drained"

\* One owner: at every moment the registry, the operations' phases and the streams name
\* the same holder of a thread, and a run whose outcome is being persisted works no more.
OneOwner == TypeOK /\ RegistryOwnership /\ OneStreamPerThread /\ NoWorkWhileEnding

\* When abort() or fail() has returned, the run is quiescent: nothing streams, nothing is
\* undecided, the thread has been given back and the context can start nothing more.
ReturnMeansQuiescent ==
  \A o \in Ops : \A c \in Callers :
    call[o][c].stage = "returned" =>
      /\ ~Streaming(o) /\ exec[o] # "drained"
      /\ phase[o] = "released" /\ Entry(o).owner # o
      /\ disposed[o]

\* abort() "returns true only when abort owns the run's terminal outcome", and fail() its
\* failure likewise (runtime-thread.ts): the owner is unique and the host has persisted
\* exactly the fact the owner was told.
OwnedAnswerIsDurable ==
  \A o \in Ops : \A c, d \in Callers :
    call[o][c].answer = "owned" =>
      /\ durable[o] = {StatusOf(call[o][c].kind)}
      /\ call[o][d].answer = "owned" => d = c

\* A commit that reports success reports the one fact the host has persisted, and that
\* fact is the referee's winner: only a completion may come out as a failure, and no
\* accepted abort, failure or cancellation ever comes out as a completed run.
OutcomeAgreement ==
  \A o \in Ops :
    commit[o] = "done" /\ result[o] # "error" =>
      /\ durable[o] = {result[o]}
      /\ \/ result[o] = winner[o]
         \/ result[o] = "failed" /\ winner[o] \in {"completed", "interrupted"}

\* What a call or a commit answers is what the host has persisted, for good.
AnswersStand == OwnedAnswerIsDurable /\ OutcomeAgreement

\* abort() and fail() always return: the barrier they wait for is always released.
CallsReturn ==
  \A o \in Ops : \A c \in Callers :
    (call[o][c].stage = "waiting") ~> (call[o][c].stage = "returned")

\* What the module promises its host: a thread lease held by one operation at a time, under
\* which at most one terminal fact is recorded.
Lease == INSTANCE ThreadLease WITH
  holder <- [t \in Threads |-> active[t].owner],
  standing <- [o \in Ops |-> IF phase[o] = "idle" THEN "waiting"
                            ELSE IF Holds(o) THEN "holding" ELSE "gone"],
  recorded <- durable
ImplementsLease == Lease!Spec
ImplementsLiveLease == Lease!LiveSpec
=============================================================================
