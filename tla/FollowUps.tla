----------------------------- MODULE FollowUps -----------------------------
(***************************************************************************)
(* The messages a user adds to one thread while a run goes on: the queue   *)
(* of follow-ups (agent-thread-runner.ts), which a window empties when the *)
(* thread is idle (use-agent.ts), and steering, which hands a message to   *)
(* the run itself (controller.ts, service.ts, run-steering.ts).  Every     *)
(* operation of the agent, an invocation or the resumption after an        *)
(* approval, has a buffer of its own; its graph empties it at the model    *)
(* calls and closes it as it commits to its exit.  A call of a window is a *)
(* job that moves on by the segments between two awaits.                   *)
(***************************************************************************)
EXTENDS Integers, SequencesExt, FiniteSetsExt

CONSTANTS
    Msgs,        \* the messages, by request id; the text of one may go on as
                 \* another when it is queued anew
    Callers,     \* calls of the views: steer, send, edit, delete
    Windows,     \* windows that empty the queue, one drain each at a time
    Nobody,      \* a prompt, or the absence of a message or a job
    MaxRuns,     \* bound: operations of the agent on the thread
    MaxRounds,   \* bound: rounds of tool calls of an operation
    Starts       \* the situations to begin with: the operations that are over, the
                 \* messages that are settled, and the callers and windows that
                 \* are away

ASSUME ConstantsAssumption ==
    /\ MaxRuns \in Nat \ {0} /\ MaxRounds \in Nat
    /\ Callers \cap Windows = {} /\ Nobody \notin Msgs \cup Callers \cup Windows
    /\ Starts \subseteq [over : 0..MaxRuns, settled : SUBSET Msgs,
                         away : SUBSET (Callers \cup Windows)]

VARIABLES
    queue,      \* followUpQueue.items
    fate,       \* what became of each message, as its user knows it
    run,        \* activeRuns: the operation on the thread
    over,       \* how each operation ended
    buffer,     \* the steering buffer of each operation
    recoveryRequired, \* the gate requires recovery of the thread
    job,        \* the calls of the views and the drains
    saved,      \* the messages with an event "user message created"
    told,       \* the operations each message reached: as their prompt,
                \* or in a model call
    mark,       \* the steering status the messages page shows
    projections \* runtimeProjectionQueues: the tasks of the thread

vars == <<queue, fate, run, over, buffer, recoveryRequired, job, saved, told, mark,
          projections>>

Actors == Callers \cup Windows
Runs == 1..MaxRuns
NoRun == 0

\* A settled message is in its user's hands again, deleted, or queued as another.
Fates == {"fresh", "given", "settled"}
Phases == {"none", "setup", "ready", "calling", "answered", "tools", "leaving",
           "committed", "stopped", "closing"}
Ends == {"unstarted", "going", "completed", "suspended", "failed", "cancelled"}
CallStages == {"idle", "reading", "saving", "accepted", "projecting", "removing",
           "taking", "holding", "starting", "restoring"}

\* An entry of a buffer: the message, and the run it was meant for, which the
\* window named or the service saw.
Entries == [msg : Msgs, meant : Runs]
Tellings == [meant : Runs, run : Runs, how : {"prompt", "steer"}]

Operations == [id : 0..MaxRuns, at : Phases, tools : BOOLEAN, rounds : 0..MaxRounds,
               aborted : BOOLEAN, end : Ends, by : Actors \cup {Nobody}]
Jobs == [kind : {"none", "steer", "send", "drain", "away"}, at : CallStages,
         msg : Msgs \cup {Nobody}, run : 0..MaxRuns, expects : 0..MaxRuns]
Tasks == [to : {"pending", "applied"}, msgs : SUBSET Msgs, by : Actors \cup {Nobody}]

TypeOK ==
    /\ queue \in Seq(Msgs)
    /\ fate \in [Msgs -> Fates]
    /\ run \in Operations
    /\ over \in [Runs -> Ends]
    /\ buffer \in [Runs -> [accepting : BOOLEAN, pending : Seq(Entries)]]
    /\ recoveryRequired \in BOOLEAN
    /\ job \in [Actors -> Jobs]
    /\ \A a \in Actors : job[a].at = "saving" => job[a].run \in Runs
    /\ saved \subseteq Msgs
    /\ told \in [Msgs -> SUBSET Tellings]
    /\ mark \in [Msgs -> {"none", "pending", "applied"}]
    /\ projections \in Seq(Tasks)

NoCall == [kind |-> "none", at |-> "idle", msg |-> Nobody, run |-> NoRun,
         expects |-> NoRun]
Stopped(id) == [id |-> id, at |-> "none", tools |-> FALSE, rounds |-> 0,
                aborted |-> FALSE, end |-> "unstarted", by |-> Nobody]

Opening(start) ==
    /\ fate = [m \in Msgs |-> IF m \in start.settled THEN "settled" ELSE "fresh"]
    /\ run = Stopped(start.over)
    /\ over = [r \in Runs |-> IF r <= start.over THEN "completed" ELSE "unstarted"]
    /\ buffer = [r \in Runs |-> [accepting |-> r > start.over, pending |-> <<>>]]
    /\ job = [a \in Actors |-> IF a \in start.away THEN [NoCall EXCEPT !.kind = "away"]
                               ELSE NoCall]

Init ==
    /\ \E start \in Starts : Opening(start)
    /\ queue = <<>> /\ recoveryRequired = FALSE
    /\ saved = {} /\ told = [m \in Msgs |-> {}]
    /\ mark = [m \in Msgs |-> "none"] /\ projections = <<>>

-----------------------------------------------------------------------------
(* The operation and its graph *)

Suspended == run.at = "none" /\ run.id \in Runs /\ over[run.id] = "suspended"

\* The gate lets an operation in; a window offers no prompt while an approval
\* is awaited.
MayStart == run.at = "none" /\ ~recoveryRequired /\ run.id < MaxRuns

Started(by) == [Stopped(run.id + 1) EXCEPT !.at = "setup", !.end = "going", !.by = by]

\* A prompt from elsewhere starts an operation.
Prompt ==
    /\ MayStart /\ ~Suspended
    /\ run' = Started(Nobody)
    /\ over' = [over EXCEPT ![run.id + 1] = "going"]
    /\ UNCHANGED <<queue, fate, buffer, recoveryRequired, job, saved, told, mark, projections>>

\* The approval is decided: another operation takes up the tool calls, with a
\* buffer of its own.
Resume ==
    /\ MayStart /\ Suspended
    /\ run' = [Started(Nobody) EXCEPT !.tools = TRUE]
    /\ over' = [over EXCEPT ![run.id + 1] = "going"]
    /\ UNCHANGED <<queue, fate, buffer, recoveryRequired, job, saved, told, mark, projections>>

\* The operation is admitted: it has a handle, and its command was accepted.  One
\* that was aborted during its setup is accepted as well, and then only ends.
Admit ==
    /\ run.at = "setup"
    /\ run' = [run EXCEPT !.at = IF run.tools THEN "tools" ELSE "ready", !.by = Nobody]
    /\ IF run.by = Nobody
       THEN UNCHANGED <<told, job>>
       ELSE /\ told' = [told EXCEPT ![job[run.by].msg] =
                            @ \cup {[meant |-> run.id, run |-> run.id, how |-> "prompt"]}]
            /\ job' = [job EXCEPT ![run.by] = NoCall]
    /\ UNCHANGED <<queue, fate, over, buffer, recoveryRequired, saved, mark, projections>>

\* The setup fails, or is aborted: the command is refused, the window gives
\* the message back to the queue or to its user, and an approval stays awaited.
Refuse ==
    /\ run.at = "setup"
    /\ run' = [run EXCEPT !.at = "closing", !.by = Nobody,
                          !.end = IF run.tools THEN "suspended" ELSE "failed"]
    /\ buffer' = [buffer EXCEPT ![run.id].accepting = FALSE]
    /\ IF run.by = Nobody THEN UNCHANGED <<fate, job>>
       ELSE IF job[run.by].kind = "drain"
       THEN /\ job' = [job EXCEPT ![run.by].at = "restoring"]
            /\ UNCHANGED fate
       ELSE /\ fate' = [fate EXCEPT ![job[run.by].msg] = "settled"]
            /\ job' = [job EXCEPT ![run.by] = NoCall]
    /\ UNCHANGED <<queue, over, recoveryRequired, saved, told, mark, projections>>

\* wrapModelCall: the model is called with what the buffer held.
CallModel ==
    LET drained == Range(buffer[run.id].pending)
        heard == {e.msg : e \in drained} IN
    /\ run.at = "ready" /\ ~run.aborted
    /\ run' = [run EXCEPT !.at = "calling"]
    /\ buffer' = [buffer EXCEPT ![run.id].pending = <<>>]
    /\ told' = [m \in Msgs |-> told[m] \cup
                   {[meant |-> e.meant, run |-> run.id, how |-> "steer"] :
                       e \in {e \in drained : e.msg = m}}]
    /\ projections' = IF heard = {} THEN projections
                      ELSE Append(projections,
                                  [to |-> "applied", msgs |-> heard, by |-> Nobody])
    /\ UNCHANGED <<queue, fate, over, recoveryRequired, job, saved, mark>>

\* The model answers, with tool calls or finally.
Answer ==
    /\ run.at = "calling" /\ ~run.aborted
    /\ \E tools \in BOOLEAN :
        /\ tools => run.rounds < MaxRounds
        /\ run' = [run EXCEPT !.at = "answered", !.tools = tools,
                              !.rounds = IF tools THEN @ + 1 ELSE @]
    /\ UNCHANGED <<queue, fate, over, buffer, recoveryRequired, job, saved, told, mark, projections>>

\* With a bug: a steer that waits does not bring a final answer back to the model.
NeverContinues == FALSE

ContinuesForSteers == buffer[run.id].pending # <<>> /\ ~run.tools

\* afterModel: back to the model when a steer waits.
AfterModel ==
    /\ run.at = "answered" /\ ~run.aborted
    /\ run' = [run EXCEPT !.at = IF ContinuesForSteers THEN "ready"
                                 ELSE IF run.tools THEN "tools" ELSE "leaving"]
    /\ UNCHANGED <<queue, fate, over, buffer, recoveryRequired, job, saved, told, mark, projections>>

\* The tools answer, or one asks for an approval, which suspends the operation.
ToolsEnd ==
    /\ run.at = "tools" /\ ~run.aborted
    /\ \/ run' = [run EXCEPT !.at = "ready", !.tools = FALSE]
       \/ run' = [run EXCEPT !.at = "stopped", !.end = "suspended"]
    /\ UNCHANGED <<queue, fate, over, buffer, recoveryRequired, job, saved, told, mark, projections>>

\* afterAgent: the graph commits to its exit in the step that finds no steer.
AfterAgent ==
    /\ run.at = "leaving" /\ ~run.aborted
    /\ IF ContinuesForSteers
       THEN run' = [run EXCEPT !.at = "ready"] /\ UNCHANGED buffer
       ELSE /\ run' = [run EXCEPT !.at = "committed"]
            /\ buffer' = [buffer EXCEPT ![run.id].accepting = FALSE]
    /\ UNCHANGED <<queue, fate, over, recoveryRequired, job, saved, told, mark, projections>>

\* The model, a tool or the graph fails; an abort stops whatever goes on.
GraphStops ==
    /\ run.at \in {"ready", "calling", "answered", "tools", "leaving"}
    /\ run' = [run EXCEPT !.at = "stopped",
                          !.end = IF run.aborted THEN "cancelled" ELSE "failed"]
    /\ UNCHANGED <<queue, fate, over, buffer, recoveryRequired, job, saved, told, mark, projections>>

\* execute returns or throws, and the service closes the buffer.
Return ==
    /\ run.at \in {"committed", "stopped"}
    /\ \E end \in IF run.at = "stopped" THEN {run.end}
                  ELSE {"completed"} \cup IF run.aborted THEN {"cancelled"} ELSE {} :
        run' = [run EXCEPT !.at = "closing", !.end = end]
    /\ buffer' = [buffer EXCEPT ![run.id].accepting = FALSE]
    /\ UNCHANGED <<queue, fate, over, recoveryRequired, job, saved, told, mark, projections>>

\* The operation leaves activeRuns and its lease is completed.
Leave ==
    /\ run.at = "closing"
    /\ run' = Stopped(run.id)
    /\ over' = [over EXCEPT ![run.id] = run.end]
    /\ UNCHANGED <<queue, fate, buffer, recoveryRequired, job, saved, told, mark, projections>>

\* The user cancels.
Cancel ==
    /\ run.at \notin {"none", "closing"} /\ ~run.aborted
    /\ run' = [run EXCEPT !.aborted = TRUE]
    /\ UNCHANGED <<queue, fate, over, buffer, recoveryRequired, job, saved, told, mark, projections>>

-----------------------------------------------------------------------------
(* Steering *)

\* The checks of steerActiveRun, up to its first await.
Steerable(expects) ==
    /\ run.at \notin {"none", "setup"} /\ ~run.aborted
    /\ expects \in {NoRun, run.id}

\* What the service goes on with after the message is saved: the run it saw.
Saving(kind, m) ==
    [kind |-> kind, at |-> "saving", msg |-> m, run |-> run.id, expects |-> NoRun]

\* A queued message is to steer: the window names the run it shows, if any,
\* which may be over.
Steer(a, m, expects) ==
    /\ job[a] = NoCall /\ ~recoveryRequired
    /\ fate[m] # "fresh" /\ expects <= run.id
    /\ job' = [job EXCEPT ![a] = [NoCall EXCEPT !.kind = "steer", !.at = "reading",
                                              !.msg = m, !.expects = expects]]
    /\ UNCHANGED <<queue, fate, run, over, buffer, recoveryRequired, saved, told, mark, projections>>

\* The state of the thread is read; a message that left the queue, or a run
\* that cannot be steered, refuses the call, and the queue keeps the message.
SteerReads(a) ==
    /\ job[a].at = "reading"
    /\ job' = [job EXCEPT ![a] =
                  IF job[a].msg \in Range(queue) /\ Steerable(job[a].expects)
                  THEN Saving("steer", job[a].msg) ELSE NoCall]
    /\ UNCHANGED <<queue, fate, run, over, buffer, recoveryRequired, saved, told, mark, projections>>

\* A new message is sent with the intent to steer; without a run to steer it
\* starts one, and a run other than the one it was meant for refuses it.
Send(a, m, expects) ==
    LET sent == [NoCall EXCEPT !.kind = "send", !.msg = m] IN
    /\ job[a] = NoCall /\ fate[m] = "fresh" /\ expects <= run.id
    /\ \/ /\ Steerable(expects)
          /\ job' = [job EXCEPT ![a] = Saving("send", m)]
          /\ fate' = [fate EXCEPT ![m] = "given"]
          /\ UNCHANGED <<run, over>>
       \/ /\ ~Steerable(NoRun) /\ MayStart /\ ~Suspended
          /\ run' = Started(a)
          /\ over' = [over EXCEPT ![run.id + 1] = "going"]
          /\ job' = [job EXCEPT ![a] = [sent EXCEPT !.at = "starting"]]
          /\ fate' = [fate EXCEPT ![m] = "given"]
       \/ /\ ~Steerable(expects) /\ ~(MayStart /\ ~Suspended)
          /\ fate' = [fate EXCEPT ![m] = "settled"]
          /\ UNCHANGED <<run, over, job>>
    /\ UNCHANGED <<queue, buffer, recoveryRequired, saved, told, mark, projections>>

\* With a bug: a closed buffer is taken for a refusal like the others.
AbortOnly(a) ==
    /\ job' = [job EXCEPT ![a] = NoCall]
    /\ UNCHANGED <<run, recoveryRequired>>

\* The run a job saw is aborted, and the thread is closed until a restart.
AbortSeenRun(a) ==
    /\ run' = IF run.id = job[a].run /\ run.at # "none"
              THEN [run EXCEPT !.aborted = TRUE] ELSE run
    /\ recoveryRequired' = TRUE
    /\ job' = [job EXCEPT ![a] = NoCall]

\* The message is saved: the buffer of the run that was seen takes it, or is
\* closed by now.
Saved(a) ==
    LET r == job[a].run IN
    /\ job[a].at = "saving"
    /\ saved' = saved \cup {job[a].msg}
    /\ IF buffer[r].accepting
       THEN /\ buffer' = [buffer EXCEPT ![r].pending =
                             Append(@, [msg |-> job[a].msg, meant |-> r])]
            /\ job' = [job EXCEPT ![a] = [@ EXCEPT !.at = "accepted", !.run = NoRun]]
            /\ UNCHANGED <<run, recoveryRequired>>
       ELSE AbortSeenRun(a) /\ UNCHANGED buffer
    /\ UNCHANGED <<queue, fate, over, told, mark, projections>>

\* The message could not be saved.  A message that was sent goes back to its
\* user; a queued one never left the queue.
SaveFails(a) ==
    /\ job[a].at = "saving"
    /\ AbortSeenRun(a)
    /\ fate' = IF job[a].kind = "send" THEN [fate EXCEPT ![job[a].msg] = "settled"]
               ELSE fate
    /\ UNCHANGED <<queue, over, buffer, saved, told, mark, projections>>

\* The controller learns that the run took it, and has it shown as pending; a
\* call for a queued message waits for that.
Accepted(a) ==
    LET waits == job[a].kind = "steer" IN
    /\ job[a].at = "accepted"
    /\ projections' = Append(projections,
            [to |-> "pending", msgs |-> {job[a].msg}, by |-> IF waits THEN a ELSE Nobody])
    /\ job' = [job EXCEPT ![a] = IF waits THEN [@ EXCEPT !.at = "projecting"] ELSE NoCall]
    /\ UNCHANGED <<queue, fate, run, over, buffer, recoveryRequired, saved, told, mark>>

\* prepareSteeringMessage, markSteeringApplied: the status a task leaves.
MarkAfter(task) ==
    [m \in Msgs |-> IF m \notin task.msgs THEN mark[m]
                    ELSE IF mark[m] = "applied" THEN "applied" ELSE task.to]

\* The first task of the queue runs; the call that waits for it goes on.
Project ==
    /\ projections # <<>>
    /\ LET task == Head(projections) IN
        /\ mark' = MarkAfter(task)
        /\ job' = IF task.by = Nobody THEN job
                  ELSE [job EXCEPT ![task.by].at = "removing"]
    /\ projections' = Tail(projections)
    /\ UNCHANGED <<queue, fate, run, over, buffer, recoveryRequired, saved, told>>

\* The items of the other requests; no two items are of the same one.
Place(m) == CHOOSE i \in DOMAIN queue : queue[i] = m
Without(m) == IF m \in Range(queue) THEN RemoveAt(queue, Place(m)) ELSE queue

\* The message that steered leaves the queue.
SteerEnds(a) ==
    /\ job[a].at = "removing"
    /\ queue' = Without(job[a].msg)
    /\ job' = [job EXCEPT ![a] = NoCall]
    /\ UNCHANGED <<fate, run, over, buffer, recoveryRequired, saved, told, mark, projections>>

-----------------------------------------------------------------------------
(* The queue *)

Enqueue(m) ==
    /\ fate[m] = "fresh" /\ ~recoveryRequired
    /\ queue' = Append(queue, m)
    /\ fate' = [fate EXCEPT ![m] = "given"]
    /\ UNCHANGED <<run, over, buffer, recoveryRequired, job, saved, told, mark, projections>>

\* takeFollowUp for the composer: the user has the text back.
Edit(m) ==
    /\ m \in Range(queue) /\ ~recoveryRequired
    /\ queue' = Without(m)
    /\ fate' = [fate EXCEPT ![m] = "settled"]
    /\ UNCHANGED <<run, over, buffer, recoveryRequired, job, saved, told, mark, projections>>

Delete(m) ==
    /\ m \in Range(queue)
    /\ queue' = Without(m)
    /\ fate' = [fate EXCEPT ![m] = "settled"]
    /\ UNCHANGED <<run, over, buffer, recoveryRequired, job, saved, told, mark, projections>>

\* A window finds the thread idle and a message next, and asks for it.
DrainStarts(w) ==
    /\ job[w] = NoCall
    /\ run.at = "none" /\ ~Suspended /\ ~recoveryRequired /\ queue # <<>>
    /\ job' = [job EXCEPT ![w] = [NoCall EXCEPT !.kind = "drain", !.at = "taking",
                                              !.msg = Head(queue)]]
    /\ UNCHANGED <<queue, fate, run, over, buffer, recoveryRequired, saved, told, mark, projections>>

\* With a bug: the item is found first and removed later.
TakeWhatWasSeen(w) ==
    /\ job[w].at = "taking"
    /\ IF recoveryRequired THEN job' = [job EXCEPT ![w] = NoCall] /\ UNCHANGED queue
       ELSE /\ job' = [job EXCEPT ![w].at = "holding"]
            /\ queue' = Without(job[w].msg)
    /\ UNCHANGED <<fate, run, over, buffer, recoveryRequired, saved, told, mark, projections>>

\* takeFollowUp: found and removed in one step; somebody else may have it.
TakeFollowUp(w) ==
    /\ job[w].at = "taking"
    /\ IF recoveryRequired \/ job[w].msg \notin Range(queue)
       THEN job' = [job EXCEPT ![w] = NoCall] /\ UNCHANGED queue
       ELSE /\ job' = [job EXCEPT ![w].at = "holding"]
            /\ queue' = Without(job[w].msg)
    /\ UNCHANGED <<fate, run, over, buffer, recoveryRequired, saved, told, mark, projections>>

\* The message is the prompt of a new operation.
DrainInvokes(w) ==
    /\ job[w].at = "holding" /\ MayStart /\ ~Suspended
    /\ run' = Started(w)
    /\ over' = [over EXCEPT ![run.id + 1] = "going"]
    /\ job' = [job EXCEPT ![w].at = "starting"]
    /\ UNCHANGED <<queue, fate, buffer, recoveryRequired, saved, told, mark, projections>>

\* The window will not invoke, or the gate refuses: the message goes back.
DrainGivesUp(w) ==
    /\ job[w].at = "holding"
    /\ job' = [job EXCEPT ![w].at = "restoring"]
    /\ UNCHANGED <<queue, fate, run, over, buffer, recoveryRequired, saved, told, mark, projections>>

\* The window finds an operation running by now: the text is queued anew.
DrainRequeues(w, n) ==
    /\ job[w].at = "holding" /\ run.at # "none" /\ ~recoveryRequired /\ fate[n] = "fresh"
    /\ queue' = Append(queue, n)
    /\ fate' = [fate EXCEPT ![n] = "given", ![job[w].msg] = "settled"]
    /\ job' = [job EXCEPT ![w] = NoCall]
    /\ UNCHANGED <<run, over, buffer, recoveryRequired, saved, told, mark, projections>>

\* restoreFollowUp: to the front, unless the thread requires recoveryRequired.
Restore(w) ==
    /\ job[w].at = "restoring"
    /\ queue' = IF recoveryRequired \/ job[w].msg \in Range(queue) THEN queue
                ELSE <<job[w].msg>> \o queue
    /\ job' = [job EXCEPT ![w] = NoCall]
    /\ UNCHANGED <<fate, run, over, buffer, recoveryRequired, saved, told, mark, projections>>

-----------------------------------------------------------------------------
JobSteps(a) ==
    SteerReads(a) \/ Saved(a) \/ SaveFails(a) \/ Accepted(a) \/ SteerEnds(a)
DrainSteps(w) ==
    \/ TakeFollowUp(w) \/ DrainInvokes(w) \/ DrainGivesUp(w) \/ Restore(w)
    \/ \E n \in Msgs : DrainRequeues(w, n)
Calls(a) ==
    \E m \in Msgs, expects \in 0..MaxRuns : Steer(a, m, expects) \/ Send(a, m, expects)
Graph ==
    \/ Admit \/ Refuse \/ CallModel \/ Answer \/ AfterModel \/ ToolsEnd
    \/ AfterAgent \/ GraphStops \/ Return \/ Leave

Next ==
    \/ Prompt \/ Resume \/ Cancel \/ Graph \/ Project
    \/ \E a \in Callers : Calls(a) \/ JobSteps(a)
    \/ \E w \in Windows : DrainStarts(w) \/ DrainSteps(w)
    \/ \E m \in Msgs : Enqueue(m) \/ Edit(m) \/ Delete(m)

Spec == Init /\ [][Next]_vars

\* The graph, the projections and the awaits of a call go on by themselves;
\* nobody has to prompt, decide, cancel or type.  A window goes on with the
\* drain it has begun.
FairSpec ==
    /\ Spec /\ WF_vars(Graph) /\ WF_vars(Project)
    /\ \A a \in Callers : WF_vars(JobSteps(a))
    /\ \A w \in Windows : WF_vars(DrainSteps(w))

-----------------------------------------------------------------------------
(* What holds *)

EverSteered(m) == \E t \in told[m] : t.how = "steer"
PendingIn(r) == {e.msg : e \in Range(buffer[r].pending)}

\* A message is heard only by the run it was meant for, however long saving it
\* took (AgentService.steerActiveRun).
HeardByTheRunItWasMeantFor ==
    \A m \in Msgs : \A t \in told[m] : t.meant = t.run

\* An operation completes with nothing accepted left unheard: the graph finds
\* the buffer empty and closes it in one step (afterAgent of run-steering.ts).
CompletedHeardAll ==
    \A r \in Runs : over[r] = "completed" => buffer[r].pending = <<>>

\* A follow-up that was saved as a message of the user was taken by an
\* operation; otherwise the thread is closed until a restart.
SavedIsTaken ==
    \A m \in saved :
        recoveryRequired \/ EverSteered(m) \/ \E r \in Runs : m \in PendingIn(r)

\* Once all is projected, the page shows as applied what was heard, and as
\* pending or not at all what was not: the task that shows a message may come
\* after the one that reports it (prepareSteeringMessage).
ShownAsHeard ==
    projections = <<>> /\ (\A a \in Actors : job[a].at # "accepted") =>
        \A m \in Msgs : mark[m] = "applied" <=> EverSteered(m)

\* What a user gave is in the queue, in the hands of a call, saved or sent, or
\* the thread is closed until a restart.
NothingVanishes ==
    \A m \in Msgs : fate[m] = "given" =>
        \/ m \in Range(queue) \/ m \in saved \/ told[m] # {} \/ recoveryRequired
        \/ \E a \in Actors : job[a].msg = m
                            /\ job[a].at \in {"saving", "holding", "starting", "restoring"}

\* A message is the prompt of one operation at most: windows that empty the queue at
\* the same time do not both send it, nor does one that was refused and gave it back.
PromptedOnce ==
    \A m \in Msgs : Cardinality({t \in told[m] : t.how = "prompt"}) <= 1

\* A message that is steered and saved is heard, by no run but the one it was meant for,
\* and shown as heard; or it lies in the buffer of the run that accepted it, which an
\* operation that stops for an approval, fails or is cancelled takes with it; or the
\* thread is closed until a restart.  An operation that completes has heard all of its own.
SteersAreTaken ==
    TypeOK /\ HeardByTheRunItWasMeantFor /\ CompletedHeardAll /\ SavedIsTaken /\ ShownAsHeard

\* A message that is queued is sent once or stays where its user can see it.
QueuedIsKept == NothingVanishes /\ PromptedOnce

\* What an operation accepted before it stopped for an approval is heard by the
\* operation that completes the work.
SurvivesTheApproval ==
    \A q, r \in Runs :
        /\ q < r /\ over[r] = "completed"
        /\ \A k \in q..(r - 1) : over[k] = "suspended"
        => \A m \in PendingIn(q) : told[m] # {}

\* An accepted message is heard, or its operation stops short of completion.
AcceptedIsHeard ==
    \A r \in Runs, m \in Msgs :
        m \in PendingIn(r) ~> m \notin PendingIn(r)
                              \/ over[r] \in {"suspended", "failed", "cancelled"}

\* A call that steers returns, also when the run ends under it.
SteeringReturns ==
    \A a \in Callers : job[a].kind \in {"steer", "send"} ~> job[a] = NoCall

\* A user who steers is answered, and so is the message.
SteersEnd == AcceptedIsHeard /\ SteeringReturns
=============================================================================
