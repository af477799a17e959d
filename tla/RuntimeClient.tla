--------------------------- MODULE RuntimeClient ---------------------------
(***************************************************************************)
(* One thread as a window follows it: the stream of numbered runtime       *)
(* events the main process keeps (agent-thread-runner.ts), and the client  *)
(* that applies it in the window (agent-client/runtime-manager.ts,         *)
(* cursor.ts, snapshot-policy.ts).  An event is known by its revision, a   *)
(* position of log; what the properties tell apart of the state a client   *)
(* builds is its revision, the number of messages it shows and whether a   *)
(* run is active.  The answer to a snapshot request and the batches of     *)
(* events reach the window in any order; batches keep theirs.              *)
(***************************************************************************)
EXTENDS Integers, SequencesExt, FiniteSetsExt

CONSTANTS
    MaxRevision,   \* bound: length of the stream
    MaxTroubles,   \* bound: loads asked for by the views, requests that fail,
                   \* times the thread is closed or another window takes it over
    MaxChannel     \* bound: batches on their way when a replay is served

ASSUME ClientAssumption ==
    MaxRevision \in Nat /\ MaxTroubles \in Nat /\ MaxChannel \in Nat

VARIABLES
    log,        \* main: the kinds of the events committed so far
    base,       \* main: replayEvents holds the revisions above base
    attached,   \* main: the window is subscribed (eventSubscriptions)
    shadowed,   \* main: the main window shows the thread, the launcher is muted
    channel,    \* batches on their way to the window
    life,       \* window: number of times the thread was opened
    open,       \* window: initializedThreads has the thread
    ready,      \* window: what became of the connection of each life
    view,       \* window: the thread state of the store
    pending,    \* window: pendingRuntimeBatches, as a set: a batch twice or
                \* in another place makes no difference to what is applied
    resyncing,  \* window: runtimeResync
    tasks,      \* window: the asynchronous calls that are not over
    troubles,   \* what MaxTroubles bounds
    lost        \* history: the window was too late to be told everything

server == <<log, base, shadowed>>
client == <<attached, life, open, ready, view, pending, resyncing, tasks>>
clientVars == <<log, base, attached, shadowed, channel, life, open, ready, view,
          pending, resyncing, tasks, troubles, lost>>

-----------------------------------------------------------------------------
(* What the events say *)

Kinds == {"message", "start", "wait", "resume", "end"}

\* The number of messages after the first r events.
MessagesAt(r) == Cardinality({i \in 1..r : log[i] = "message"})

\* The activity of the thread after a range of events, given the one before.
PhaseAfter(phase, from, to) ==
    LET control == {i \in from..to : log[i] # "message"}
    IN  IF control = {} THEN phase
        ELSE CASE log[Max(control)] \in {"start", "resume"} -> "running"
               [] log[Max(control)] = "wait" -> "waiting"
               [] OTHER -> "idle"

PhaseAt(r) == PhaseAfter("idle", 1, r)

Revision == Len(log)
EmptyView == [revision |-> 0, messages |-> 0, phase |-> "idle"]
ShowsRunning == view.phase = "running"

Lives == 1..(MaxTroubles + 1)
Trouble == troubles < MaxTroubles /\ troubles' = troubles + 1

-----------------------------------------------------------------------------
(* Main process: the events of a thread and those kept for a replay *)

\* commitRuntimeEvent for each kind, then notify: one batch for the window.
\* The bound leaves a revision for the time after the shadow.
Commit(kinds) ==
    /\ Revision + Len(kinds) + (IF shadowed THEN 1 ELSE 0) <= MaxRevision
    /\ log' = log \o kinds
    /\ channel' = IF attached /\ ~shadowed
                  THEN Append(channel, [from |-> Revision + 1,
                                        to |-> Revision + Len(kinds)])
                  ELSE channel
    /\ UNCHANGED <<shadowed, troubles, client>>

PrepareInvoke ==
    /\ PhaseAt(Revision) = "idle"
    /\ base' = Revision
    /\ Commit(<<"message", "start">>)
    /\ UNCHANGED lost

HandleMessage ==
    /\ PhaseAt(Revision) = "running"
    /\ UNCHANGED <<base, lost>>
    /\ Commit(<<"message">>)

\* A run that stops while the window is behind takes with it what the window
\* has missed.
Stops == lost' = (lost \/ ~open \/ shadowed \/ view.revision # Revision)

HandleApproval ==
    /\ PhaseAt(Revision) = "running"
    /\ UNCHANGED base
    /\ Commit(<<"wait">>)
    /\ Stops

\* The payload that ends an interrupted run commits nothing and empties the
\* events kept for a replay.
HandleInterrupted ==
    /\ PhaseAt(Revision) = "waiting" /\ base # Revision
    /\ base' = Revision
    /\ Stops
    /\ UNCHANGED <<log, shadowed, troubles, channel, client>>

PrepareResume ==
    /\ PhaseAt(Revision) = "waiting" /\ base = Revision
    /\ base' = Revision
    /\ Commit(<<"resume">>)
    /\ UNCHANGED lost

HandleTerminal ==
    /\ PhaseAt(Revision) = "running"
    /\ base' = Revision
    /\ Commit(<<"end">>)
    /\ Stops

\* shouldSendThreadEvents: a launcher is muted while the main window shows
\* the same thread.
Shadow ==
    /\ ~shadowed /\ Revision < MaxRevision /\ Trouble
    /\ shadowed' = TRUE
    /\ lost' = (lost \/ PhaseAt(Revision) # "running")
    /\ UNCHANGED <<log, base, channel, client>>

Unshadow ==
    /\ shadowed /\ shadowed' = FALSE
    /\ UNCHANGED <<log, base, channel, troubles, lost, client>>

\* connectThreadEvents and replayThreadEvents: the listener is set, then the
\* kept events the window has not seen are sent in one batch, if there are any.
Replay(fromRevision) ==
    LET first == Max({base, fromRevision}) + 1
    IN  IF first > Revision \/ shadowed THEN channel
        ELSE Append(channel, [from |-> first, to |-> Revision])

-----------------------------------------------------------------------------
(* Window: choosing what to apply *)

\* Mutant: events after a gap are dropped like those already applied.
Selection_Drops(revision, batch) ==
    IF batch.to > revision /\ batch.from <= revision + 1 THEN "events" ELSE "none"

\* selectRuntimeEventsAfterRevision.  A batch holds the events from..to and
\* to is its latest revision.
Selection(revision, batch) ==
    CASE batch.to <= revision -> "none"
      [] batch.to > revision /\ batch.from > revision + 1 -> "gap"
      [] OTHER -> "events"

\* The store after the events up to revision r.
Applied(r) ==
    [revision |-> r,
     messages |-> IF r = view.revision THEN view.messages
                  ELSE Max({view.messages, MessagesAt(r)}),
     phase    |-> PhaseAfter(view.phase, view.revision + 1, r)]

\* Mutant: only a window without events is protected.
WouldRollback_Fresh(current, snapshot) ==
    current.revision = 0 /\ snapshot.messages < current.messages

\* resolveJingleSnapshotApplicationPolicy.
WouldRollback(current, snapshot) ==
    current.revision > 0 /\ snapshot.messages < current.messages

\* Mutant: the snapshot of a running thread is applied like any other.
CanApplySnapshot_Live(current, snapshot) ==
    current.phase = "idle" /\ ~WouldRollback(current, snapshot)

CanApplySnapshot(current, snapshot) ==
    /\ current.phase = "idle"
    /\ ~WouldRollback(current, snapshot)
    /\ snapshot.phase # "running"

\* applyRuntimeSnapshotToThreadState: the revision is never the snapshot's.
WithSnapshot(current, snapshot) ==
    IF CanApplySnapshot(current, snapshot)
    THEN [current EXCEPT !.messages = snapshot.messages,
                         !.phase = snapshot.phase]
    ELSE current

-----------------------------------------------------------------------------
(* Window: asynchronous calls.  A task is a load, alone or as a part of a   *)
(* resync; at is what it waits for:                                         *)
(*   "ready"   the connection, before it asks for a snapshot                *)
(*   "reading" the main process, to read the snapshot                       *)
(*   "read"    the answer to that                                           *)
(*   "replay"  the connection, before it asks for a replay                  *)
(*   "asking"  the main process, to connect again and replay                *)
(*   "done"    its last continuation                                        *)

Task(kind, at) ==
    [kind |-> kind, at |-> at, life |-> life, streamed |-> FALSE,
     snapshot |-> [messages |-> 0, phase |-> "idle"], from |-> 0]

\* resyncThreadRuntime: replay in a run, load otherwise.
ResyncTask(phase) ==
    Task("resync", IF phase = "running" THEN "replay" ELSE "ready")

\* startPostRunRefresh: one load for each run that ended or stopped for an
\* approval among the events applied.
Refreshes(r) ==
    LET ends == {i \in (view.revision + 1)..r :
                    /\ log[i] \in {"end", "wait"}
                    /\ PhaseAfter(view.phase, view.revision + 1, i - 1) = "running"}
    IN  [n \in 1..Cardinality(ends) |-> Task("load", "ready")]

\* ensureThreadRuntime
OpensAs(n) ==
    /\ open' = TRUE /\ life' = n
    /\ ready' = [ready EXCEPT ![n] = "connecting"]
    /\ lost' = (lost \/ Revision # 0)

Ensure ==
    /\ ~open
    /\ OpensAs(life + 1)
    /\ view' = EmptyView
    /\ UNCHANGED <<server, attached, channel, pending, resyncing, tasks, troubles>>

\* The main process handles the connection of the present life; one that a
\* later connection or a disconnection overtook is discarded there.
Connect ==
    /\ open /\ ready[life] = "connecting"
    /\ attached' = TRUE /\ channel' = Replay(0)
    /\ ready' = [ready EXCEPT ![life] = "connected"]
    /\ UNCHANGED <<server, life, open, view, pending, resyncing, tasks,
                   troubles, lost>>

ConnectFails ==
    /\ open /\ ready[life] = "connecting" /\ Trouble
    /\ lost' = TRUE
    /\ ready' = [ready EXCEPT ![life] = "failed"]
    /\ UNCHANGED <<server, attached, channel, life, open, view, pending,
                   resyncing, tasks>>

\* cleanupThread: cleanupThreadRuntime, then deleteThreadState.
Cleanup ==
    /\ open /\ Trouble
    /\ open' = FALSE /\ attached' = FALSE
    /\ view' = EmptyView /\ pending' = {} /\ resyncing' = FALSE
    /\ UNCHANGED <<server, channel, life, ready, tasks, lost>>

StartResync(phase) ==
    /\ resyncing' = TRUE
    /\ tasks' = Append(tasks, ResyncTask(phase))

\* applyRuntimeBatch.  Without a listener the batch is lost.
ReceiveBatch ==
    /\ channel # <<>>
    /\ channel' = Tail(channel)
    /\ LET batch == Head(channel)
           selected == Selection(view.revision, batch)
       IN  \/ /\ ~open \/ (~resyncing /\ selected = "none")
              /\ UNCHANGED <<view, pending, resyncing, tasks>>
           \/ /\ open /\ resyncing
              /\ pending' = pending \cup {batch}
              /\ UNCHANGED <<view, resyncing, tasks>>
           \/ /\ open /\ ~resyncing /\ selected = "events"
              /\ view' = Applied(batch.to)
              /\ tasks' = tasks \o Refreshes(batch.to)
              /\ UNCHANGED <<pending, resyncing>>
           \/ /\ open /\ ~resyncing /\ selected = "gap"
              /\ StartResync(view.phase)
              /\ UNCHANGED <<view, pending>>
    /\ UNCHANGED <<server, attached, life, open, ready, troubles, lost>>

\* A view calls loadThreadData: the launcher is shown, a command was
\* projected, the thread is activated.
Load ==
    /\ open /\ Trouble
    /\ tasks' = Append(tasks, Task("load", "ready"))
    /\ UNCHANGED <<server, attached, channel, life, open, ready, view, pending,
                   resyncing, lost>>

At(i, at) == i \in DOMAIN tasks /\ tasks[i].at = at
Moves(i, at) == tasks' = [tasks EXCEPT ![i].at = at]

\* The connection the task waits for is there, or its life is over: the
\* snapshot is requested, or the replay from the revision reached by now.
\* A thread that was closed has no state to look at, and fails the task.
TaskReady(i) ==
    /\ At(i, "ready") \/ At(i, "replay")
    /\ ready[tasks[i].life] # "connecting" \/ tasks[i].life # life \/ ~open
    /\ IF open /\ ready[tasks[i].life] # "failed"
       THEN tasks' = [tasks EXCEPT
                ![i].at = IF @ = "ready" THEN "reading" ELSE "asking",
                ![i].streamed = ShowsRunning,
                ![i].from = view.revision,
                ![i].life = life]
       ELSE Moves(i, "done")
    /\ UNCHANGED <<server, attached, channel, life, open, ready, view, pending,
                   resyncing, troubles, lost>>

\* getAgentThreadData: persisted rows and, when they differ, the live state.
ReadSnapshot(i) ==
    /\ At(i, "reading")
    /\ tasks' = [tasks EXCEPT
           ![i].at = "read",
           ![i].snapshot = [messages |-> MessagesAt(Revision),
                            phase |-> PhaseAt(Revision)]]
    /\ UNCHANGED <<server, attached, channel, life, open, ready, view, pending,
                   resyncing, troubles, lost>>

\* loadThreadData goes on with the answer.  If the thread was closed
\* meanwhile, a load begun in a run does not notice: it applies the snapshot
\* and opens the thread again; any other fails on the missing state.
TakeSnapshot(i) ==
    LET task == tasks[i]
        replays == task.streamed \/ ShowsRunning \/ task.snapshot.phase = "running"
    IN  /\ At(i, "read")
        /\ \/ /\ ~open /\ ~task.streamed
              /\ Moves(i, "done")
              /\ UNCHANGED <<open, life, ready, view, lost>>
           \/ /\ open
              /\ view' = WithSnapshot(view, task.snapshot)
              /\ tasks' = [tasks EXCEPT ![i].at = IF replays THEN "replay" ELSE "done",
                                        ![i].life = life]
              /\ UNCHANGED <<open, life, ready, lost>>
           \/ /\ ~open /\ task.streamed
              /\ OpensAs(life + 1)
              /\ view' = WithSnapshot(EmptyView, task.snapshot)
              /\ tasks' = [tasks EXCEPT ![i].at = "replay", ![i].life = life + 1]
        /\ UNCHANGED <<server, attached, channel, pending, resyncing, troubles>>

\* The main process connects the window again and replays.  The request of a
\* life that is over does nothing there.
ServeReplay(i) ==
    /\ At(i, "asking") /\ Len(channel) < MaxChannel
    /\ Moves(i, "done")
    /\ IF open /\ tasks[i].life = life
       THEN attached' = TRUE /\ channel' = Replay(tasks[i].from)
       ELSE UNCHANGED <<attached, channel>>
    /\ UNCHANGED <<server, life, open, ready, view, pending, resyncing,
                   troubles, lost>>

RequestFails(i) ==
    /\ At(i, "reading") \/ At(i, "asking")
    /\ Trouble
    /\ lost' = TRUE
    /\ Moves(i, "done")
    /\ UNCHANGED <<server, attached, channel, life, open, ready, view, pending,
                   resyncing>>

\* The furthest revision the batches lead to without a gap, whatever the
\* order they are taken in.
Reach(batches) ==
    Max({r \in view.revision..Revision :
            \A s \in (view.revision + 1)..r :
                \E b \in batches : s \in b.from..b.to})

\* drainPendingRuntimeBatches: apply what waited and, if some of it is still
\* out of reach, keep that and start over.
Drain(rest) ==
    LET reached == Reach(pending)
        gaps == {b \in pending : Selection(reached, b) = "gap"}
        after == rest \o Refreshes(reached)
    IN  /\ view' = Applied(reached)
        /\ pending' = gaps
        /\ resyncing' = (gaps # {})
        /\ tasks' = IF gaps = {} THEN after
                    ELSE Append(after, ResyncTask(Applied(reached).phase))

\* The last continuation; a resync clears the marker of the thread whoever
\* set it, and drains.
TaskEnds(i) ==
    /\ At(i, "done")
    /\ \/ /\ tasks[i].kind = "load"
          /\ tasks' = RemoveAt(tasks, i)
          /\ UNCHANGED <<view, pending, resyncing>>
       \/ /\ tasks[i].kind = "resync"
          /\ Drain(RemoveAt(tasks, i))
    /\ UNCHANGED <<server, attached, channel, life, open, ready, troubles, lost>>

-----------------------------------------------------------------------------

ClientInit ==
    /\ log = <<>> /\ base = 0 /\ attached = FALSE /\ shadowed = FALSE
    /\ channel = <<>> /\ life = 0 /\ open = FALSE
    /\ ready = [n \in Lives |-> "none"]
    /\ view = EmptyView /\ pending = {} /\ resyncing = FALSE /\ tasks = <<>>
    /\ troubles = 0 /\ lost = FALSE

Runs ==
    \/ PrepareInvoke \/ HandleMessage \/ HandleApproval \/ HandleInterrupted
    \/ PrepareResume \/ HandleTerminal

TaskSteps(i) ==
    TaskReady(i) \/ ReadSnapshot(i) \/ TakeSnapshot(i) \/ ServeReplay(i) \/ TaskEnds(i)

ClientNext ==
    \/ Runs \/ Shadow \/ Unshadow
    \/ Ensure \/ Connect \/ ConnectFails \/ Cleanup \/ ReceiveBatch \/ Load
    \/ \E i \in DOMAIN tasks : TaskSteps(i) \/ RequestFails(i)

ClientSpec == ClientInit /\ [][ClientNext]_clientVars

\* What is sent is received, what is asked is answered, runs go on to their
\* end, and the main window gives the thread up.
FairSpec ==
    /\ ClientSpec
    /\ WF_clientVars(Connect) /\ WF_clientVars(ReceiveBatch) /\ WF_clientVars(Unshadow)
    /\ WF_clientVars(HandleMessage) /\ WF_clientVars(HandleTerminal) /\ WF_clientVars(HandleInterrupted)
    /\ WF_clientVars(\E i \in DOMAIN tasks : TaskSteps(i))

-----------------------------------------------------------------------------
(* Properties *)

\* Every reachable state is well typed.
ClientTypeOK ==
    /\ log \in Seq(Kinds) /\ Revision <= MaxRevision /\ base \in 0..Revision
    /\ {attached, shadowed, open, resyncing, lost} \subseteq BOOLEAN
    /\ life \in {0} \cup Lives
    /\ ready \in [Lives -> {"none", "connecting", "connected", "failed"}]
    /\ view \in [revision : 0..Revision, messages : 0..MessagesAt(Revision),
                 phase : {"idle", "running", "waiting"}]
    /\ \A b \in Range(channel) \cup pending : b.from <= b.to /\ b.to <= Revision
    /\ troubles \in 0..MaxTroubles

\* However loads, replays and live batches interleave, and whatever snapshot
\* was read before events that were applied since, the window never shows less
\* than what its revision stands for: every message up to it, and the run or
\* the approval that is open there (snapshot-policy.ts).
NotBehindItsRevision ==
    open => /\ view.messages >= MessagesAt(view.revision)
            /\ PhaseAt(view.revision) # "idle" =>
                   view.phase = PhaseAt(view.revision)

\* A window that shows a running thread does so because of the events, never
\* of a snapshot: nothing else would ever stop it.
RunningByEvents ==
    open /\ ShowsRunning => PhaseAt(view.revision) = "running"

\* Batches wait only for a resync that is going on: there is always a task of
\* this life that will drain them (drainPendingRuntimeBatches).
WaitingBatchesHaveAResync ==
    pending # {} => \E i \in DOMAIN tasks : tasks[i].kind = "resync"

\* The window shows what its revision says, and is about to hear of what waits.
InStep == ClientTypeOK /\ NotBehindItsRevision /\ WaitingBatchesHaveAResync

\* The gap of a thread is closed by a single resync: a second one starts only
\* after the first ended (startRuntimeResync).
OneResync ==
    Cardinality({i \in DOMAIN tasks : tasks[i].kind = "resync"
                                      /\ tasks[i].life = life}) <= 1

\* A resync ends, and with it the wait of the batches that came meanwhile.
ResyncEnds == resyncing ~> ~resyncing

\* A window that misses events in the middle of a run catches up with the
\* stream before the run is over: the next batch tells it that there is a gap,
\* the resync ends, and the replay has brought what was missing
\* (selectRuntimeEventsAfterRevision, replayThreadRuntimeEvents).  Lost is a
\* window that opened the thread after its first event, whose requests fail, or
\* whose run stops before it was told of it.
CatchesUp ==
    \/ <>lost
    \/ []<>(open => view.revision = Revision) /\ ResyncEnds
=============================================================================
