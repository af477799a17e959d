-------------------------- MODULE CheckpointStore --------------------------
(***************************************************************************)
(* The checkpoints of a thread and the messages they share.  A checkpoint  *)
(* (prisma-saver.ts) does not hold its messages: it names a version of the *)
(* message state, and the version names a place in a log of changes        *)
(* (message-state.ts), up to which the messages are replayed.  Runs put    *)
(* checkpoints one after the other, also after they were stopped; a        *)
(* compaction (compaction-controller.ts) puts one in place of the history  *)
(* it has summarised; a thread is cloned, whole or up to a checkpoint      *)
(* (threads.ts).                                                           *)
(*                                                                         *)
(* Ids are numbers in the order in which they were made, as the time-      *)
(* ordered ids of the code are.  A version has the id of the checkpoint    *)
(* that brought it in.  The changes one transaction makes are one entry    *)
(* of the log.  A transaction of the saver is a step: its write queue      *)
(* makes them one at a time, and the graph library hands over the          *)
(* checkpoints of a run in order.                                          *)
(***************************************************************************)
EXTENDS Integers, Sequences, FiniteSets, FiniteSetsExt

CONSTANTS
    LastId,      \* bound: checkpoints are 1..LastId
    Messages, Items, Gone,
    Lists,       \* the states of the messages: what each message is, or Gone
    Calls,       \* calls of compact()
    OpOf, IdentityOf,   \* a call's operation id, and the rest of its input
    NoOp, NoReceipt,
    Starts       \* the situations to start from: whether the runtime thread
                 \* keeps runs and compactions apart (reserved), whether a run
                 \* that is over can leave puts behind (late), the calls that
                 \* are made; and bounds on the ids, the checkpoints of a run
                 \* not yet put (chain), runs, pending writes, runs stopped,
                 \* refused transactions (faults), forks and crashes

Checkpoints == 1..LastId
Threads == {"source", "copy"}
Ops == {OpOf[c] : c \in Calls}

ASSUME StoreAssumption ==
    /\ LastId \in Nat \ {0}
    /\ Gone \notin Items
    /\ Lists \subseteq [Messages -> Items \cup {Gone}]
    /\ NoOp \notin Ops
    /\ NoReceipt \notin [id : Checkpoints, from : 0..LastId,
                         identity : {IdentityOf[c] : c \in Calls}]

Bounds == [reserved : BOOLEAN, late : BOOLEAN, calls : SUBSET Calls, ids : Nat,
           chain : Nat, runs : Nat, writes : Nat, stops : Nat, faults : Nat,
           forks : Nat, crashes : Nat]

ASSUME StartsAssumption == Starts \subseteq Bounds

VARIABLES
    rows,      \* checkpoints
    writes,    \* the checkpoints that have pending writes
    log,       \* messageEvent
    versions,  \* messageStateVersion: how far in the log, 0 for no such version
    messages,  \* message: the thread's messages as they are shown and searched
    ledger,    \* runtime_compaction_commits of the source thread
    writer,    \* the run of each thread, and what is left of a stopped one
    call, fork,
    clock,     \* the last id made
    made,      \* the messages each checkpoint was made with
    left       \* the situation, and what is left of its bounds

store == <<rows, writes, log, versions, messages>>
vars == <<store, ledger, writer, call, fork, clock, made, left>>

NoRow == [version |-> 0, parent |-> 0, op |-> NoOp]
NoMessages == [m \in Messages |-> Gone]
NoWriter == [on |-> FALSE, last |-> 0, version |-> 0, held |-> NoMessages, chain |-> <<>>]
NoCall == [at |-> "idle", from |-> 0, held |-> NoMessages, answer |-> NoReceipt]

Init ==
    /\ rows = [t \in Threads |-> [k \in Checkpoints |-> NoRow]]
    /\ writes = [t \in Threads |-> {}]
    /\ log = [t \in Threads |-> <<>>]
    /\ versions = [t \in Threads |-> [v \in Checkpoints |-> 0]]
    /\ messages = [t \in Threads |-> NoMessages]
    /\ ledger = [op \in Ops |-> NoReceipt]
    /\ writer = [t \in Threads |-> [w \in {"run", "late"} |-> NoWriter]]
    /\ call = [c \in Calls |-> NoCall]
    /\ fork = [at |-> "off", upTo |-> 0]
    /\ clock = 0
    /\ made = [k \in Checkpoints |-> NoMessages]
    /\ left \in Starts

Room == clock < LastId /\ clock < left.ids
Spend(b) == left[b] > 0 /\ left' = [left EXCEPT ![b] = @ - 1]

-----------------------------------------------------------------------------
\* Reading the tables.
Stored(t) == {k \in Checkpoints : rows[t][k] # NoRow}
Latest(t) == IF Stored(t) = {} THEN 0 ELSE Max(Stored(t))

\* loadMessageStateItemsThroughSeq: what the last change of each message says.
ChangesOf(l, n, m) == {k \in DOMAIN l : k <= n /\ m \in l[k].changed}
ItemsThrough(l, n) ==
    [m \in Messages |-> IF ChangesOf(l, n, m) = {} THEN Gone
                        ELSE l[Max(ChangesOf(l, n, m))].to[m]]

\* loadLatestMessageState
LatestThrough(t) == Max({versions[t][v] : v \in Checkpoints})

\* The messages of a stored checkpoint.
Read(t, k) == ItemsThrough(log[t], versions[t][rows[t][k].version])

\* What differs from the last state of the messages is logged.
Changed(t, list) == {m \in Messages : list[m] # ItemsThrough(log[t], LatestThrough(t))[m]}
Record(t, list) ==
    IF Changed(t, list) = {} THEN UNCHANGED log
    ELSE log' = [log EXCEPT ![t] = Append(@, [changed |-> Changed(t, list), to |-> list])]

\* The place in the log that says what the messages are now.
Place(t, list) == IF Changed(t, list) = {} THEN LatestThrough(t) ELSE Len(log[t]) + 1

\* deleteProjectedMessage, upsertProjectedMessage
Show(t, list) ==
    messages' = [messages EXCEPT ![t] =
                    [m \in Messages |-> IF m \in Changed(t, list) THEN list[m] ELSE @[m]]]

\* Faulty variant: a version that is there stays where it was.
PersistOnce(t, v, list) ==
    /\ Record(t, list) /\ Show(t, list)
    /\ versions' = IF versions[t][v] # 0 THEN versions
                   ELSE [versions EXCEPT ![t][v] = Place(t, list)]

\* persistMessageStateVersion
Persist(t, v, list) ==
    /\ Record(t, list) /\ Show(t, list)
    /\ versions' = [versions EXCEPT ![t][v] = Place(t, list)]

-----------------------------------------------------------------------------
\* Runs.
Active(c) == call[c].at \notin {"idle", "answered", "failed"}
Exists(t) == t = "source" \/ fork.at = "done"

\* A run starts from the latest checkpoint.
Begin(t) ==
    /\ Exists(t) /\ ~writer[t]["run"].on
    /\ left.reserved /\ t = "source" => \A c \in Calls : ~Active(c)
    /\ Spend("runs")
    /\ LET k == Latest(t) IN
       writer' = [writer EXCEPT ![t]["run"] =
           IF k = 0 THEN [NoWriter EXCEPT !.on = TRUE]
           ELSE [NoWriter EXCEPT !.on = TRUE, !.last = k, !.version = rows[t][k].version,
                                 !.held = Read(t, k)]]
    /\ UNCHANGED <<store, ledger, call, fork, clock, made>>

\* It makes a checkpoint, with a version of its own unless no step has touched
\* the messages since the one before.
Step(t, list) ==
    LET w == writer[t]["run"]
    IN  /\ w.on /\ Len(w.chain) < left.chain
        /\ Room
        /\ clock' = clock + 1
        /\ made' = [made EXCEPT ![clock'] = list]
        /\ \E v \in {clock'} \cup (IF list = w.held THEN {w.version} \ {0} ELSE {}) :
             writer' = [writer EXCEPT ![t]["run"] =
                 [on |-> TRUE, last |-> clock', version |-> v, held |-> list,
                  chain |-> Append(w.chain, [id |-> clock', parent |-> w.last,
                                             version |-> v])]]
        /\ UNCHANGED <<store, ledger, call, fork, left>>

\* put, for the run or for one that was stopped.
Put(t, w) ==
    /\ writer[t][w].chain # <<>>
    /\ LET job == Head(writer[t][w].chain) IN
       /\ Persist(t, job.version, made[job.id])
       /\ rows' = [rows EXCEPT ![t][job.id] =
                      [version |-> job.version, parent |-> job.parent, op |-> NoOp]]
    /\ writer' = [writer EXCEPT ![t][w].chain = Tail(@)]
    /\ UNCHANGED <<writes, ledger, call, fork, clock, made, left>>

\* putWrites: a task of the last checkpoint has done something.
PutWrites(t, w) ==
    /\ writer[t][w].last # 0
    /\ writer[t][w].last \notin writes[t]
    /\ Spend("writes")
    /\ writes' = [writes EXCEPT ![t] = @ \cup {writer[t][w].last}]
    /\ UNCHANGED <<rows, log, versions, messages, ledger, writer, call, fork, clock,
                   made>>

\* The run is over when its checkpoints are put.
Finish(t) ==
    /\ writer[t]["run"].on /\ writer[t]["run"].chain = <<>>
    /\ writer' = [writer EXCEPT ![t]["run"] = NoWriter]
    /\ UNCHANGED <<store, ledger, call, fork, clock, made, left>>

\* The run is over, and the graph library goes on with what it has in hand.
Leave(t, chain) ==
    /\ writer[t]["run"].on /\ writer[t]["late"] = NoWriter
    /\ writer' = [writer EXCEPT ![t]["run"] = NoWriter,
                                ![t]["late"] = [writer[t]["run"] EXCEPT !.on = FALSE,
                                                                        !.chain = chain]]
    /\ UNCHANGED <<store, ledger, call, fork, clock, made>>

Stop(t) == left.late /\ Spend("stops") /\ Leave(t, writer[t]["run"].chain)

\* A put is refused: the run fails.
PutRefused(t) ==
    /\ left.late /\ writer[t]["run"].chain # <<>>
    /\ Spend("faults")
    /\ Leave(t, Tail(writer[t]["run"].chain))

LateEnds(t) ==
    /\ writer[t]["late"] # NoWriter /\ writer[t]["late"].chain = <<>>
    /\ writer' = [writer EXCEPT ![t]["late"] = NoWriter]
    /\ UNCHANGED <<store, ledger, call, fork, clock, made, left>>

-----------------------------------------------------------------------------
\* compact(), on the source thread.
Move(c, at) == call' = [call EXCEPT ![c].at = at]

Compact(c) ==
    /\ call[c].at = "idle"
    /\ c \in left.calls
    /\ left.reserved => ~writer["source"]["run"].on /\ \A d \in Calls : ~Active(d)
    /\ Move(c, "reading")
    /\ UNCHANGED <<store, ledger, writer, fork, clock, made, left>>

\* readMatchingCompactResult
AnsweredBy(c) ==
    call' = IF ledger[OpOf[c]].identity = IdentityOf[c]
            THEN [call EXCEPT ![c].at = "committed", ![c].answer = ledger[OpOf[c]]]
            ELSE [call EXCEPT ![c].at = "failed"]

ReadCommitted(c) ==
    /\ call[c].at = "reading"
    /\ IF ledger[OpOf[c]] # NoReceipt THEN AnsweredBy(c) ELSE Move(c, "preparing")
    /\ UNCHANGED <<store, ledger, writer, fork, clock, made, left>>

\* prepare: the latest checkpoint, then its pending writes and its messages.
PrepareRow(c) ==
    /\ call[c].at = "preparing"
    /\ IF Latest("source") = 0 THEN Move(c, "failed")
       ELSE call' = [call EXCEPT ![c].at = "checking", ![c].from = Latest("source")]
    /\ UNCHANGED <<store, ledger, writer, fork, clock, made, left>>

PrepareWrites(c) ==
    /\ call[c].at = "checking"
    /\ IF call[c].from \in writes["source"] THEN Move(c, "failed")
       ELSE call' = [call EXCEPT ![c].at = "summarising",
                                 ![c].held = Read("source", call[c].from)]
    /\ UNCHANGED <<store, ledger, writer, fork, clock, made, left>>

\* The transaction of compactCheckpoint, when nothing stands in its way.
Replace(c, summary) ==
    /\ Room
    /\ clock' = clock + 1
    /\ made' = [made EXCEPT ![clock'] = summary]
    /\ Persist("source", clock', summary)
    /\ rows' = [rows EXCEPT !["source"][clock'] =
                   [version |-> clock', parent |-> call[c].from, op |-> OpOf[c]]]
    /\ ledger' = [ledger EXCEPT ![OpOf[c]] =
                     [id |-> clock', from |-> call[c].from, identity |-> IdentityOf[c]]]
    /\ call' = [call EXCEPT ![c].at = "committed", ![c].answer = ledger'[OpOf[c]]]
    /\ UNCHANGED writes

\* Faulty variant: the ledger was read before, which is not seen again.
CommitUnread(c) ==
    /\ call[c].at = "summarising"
    /\ IF Latest("source") # call[c].from \/ call[c].from \in writes["source"]
       THEN Move(c, "failed") /\ UNCHANGED <<store, ledger, clock, made>>
       ELSE \E summary \in Lists : Replace(c, summary)
    /\ UNCHANGED <<writer, fork, left>>

\* Faulty variant: the pending writes were looked at before.
CommitUnchecked(c) ==
    /\ call[c].at = "summarising"
    /\ IF ledger[OpOf[c]] # NoReceipt
       THEN AnsweredBy(c) /\ UNCHANGED <<store, ledger, clock, made>>
       ELSE IF Latest("source") # call[c].from
       THEN Move(c, "failed") /\ UNCHANGED <<store, ledger, clock, made>>
       ELSE \E summary \in Lists : Replace(c, summary)
    /\ UNCHANGED <<writer, fork, left>>

\* compactCheckpoint: already committed, overtaken, unstable, or done.
Commit(c) ==
    /\ call[c].at = "summarising"
    /\ IF ledger[OpOf[c]] # NoReceipt
       THEN AnsweredBy(c) /\ UNCHANGED <<store, ledger, clock, made>>
       ELSE IF Latest("source") # call[c].from \/ call[c].from \in writes["source"]
       THEN Move(c, "failed") /\ UNCHANGED <<store, ledger, clock, made>>
       ELSE \E summary \in Lists : Replace(c, summary)
    /\ UNCHANGED <<writer, fork, left>>

CommitRefused(c) ==
    /\ call[c].at = "summarising"
    /\ Spend("faults")
    /\ Move(c, "failed")
    /\ UNCHANGED <<store, ledger, writer, fork, clock, made>>

Answer(c) ==
    /\ call[c].at = "committed"
    /\ Move(c, "answered")
    /\ UNCHANGED <<store, ledger, writer, fork, clock, made, left>>

-----------------------------------------------------------------------------
\* Clones.  A checkpoint and those it was made from:
Ancestry ==
    LET of[k \in 0..LastId] == IF k = 0 THEN {} ELSE {k} \cup of[rows["source"][k].parent]
    IN  of

\* Back from the latest checkpoint, for as long as the parent has the message.
Until(m) ==
    LET back[k \in Checkpoints] ==
            LET parent == rows["source"][k].parent IN
            IF parent \in Stored("source") /\ Read("source", parent)[m] # Gone
            THEN back[parent] ELSE k
    IN  back[Latest("source")]

\* A thread that is not running can be cloned, whole (0) or until a message.
ForkBegins ==
    /\ fork.at = "off"
    /\ ~writer["source"]["run"].on
    /\ Latest("source") # 0
    /\ Spend("forks")
    /\ \/ fork' = [at |-> "checked", upTo |-> 0]
       \/ \E m \in Messages :
            /\ Read("source", Latest("source"))[m] # Gone
            /\ fork' = [at |-> "checked", upTo |-> Until(m)]
    /\ UNCHANGED <<store, ledger, writer, call, clock, made>>

\* cloneThread: the tables are copied.
CloneThread ==
    /\ fork.at = "checked" /\ fork.upTo = 0
    /\ rows' = [rows EXCEPT !["copy"] = rows["source"]]
    /\ writes' = [writes EXCEPT !["copy"] = writes["source"]]
    /\ log' = [log EXCEPT !["copy"] = log["source"]]
    /\ versions' = [versions EXCEPT !["copy"] = versions["source"]]
    /\ messages' = [messages EXCEPT !["copy"] = messages["source"]]
    /\ fork' = [fork EXCEPT !.at = "done"]
    /\ UNCHANGED <<ledger, writer, call, clock, made, left>>

\* How far in the log the messages of the chosen checkpoint are.
Through == versions["source"][rows["source"][fork.upTo].version]

\* The checkpoint and its ancestors, the versions they name, and the first n
\* changes are copied.
CopyChain(n) ==
    LET chain == Ancestry[fork.upTo]
        named == {rows["source"][k].version : k \in chain}
    IN  /\ fork.at = "checked" /\ fork.upTo # 0
        /\ chain \subseteq Stored("source")
        /\ rows' = [rows EXCEPT !["copy"] =
               [k \in Checkpoints |-> IF k \in chain THEN rows["source"][k] ELSE NoRow]]
        /\ writes' = [writes EXCEPT !["copy"] = writes["source"] \cap chain]
        /\ log' = [log EXCEPT !["copy"] = SubSeq(log["source"], 1, n)]
        /\ versions' = [versions EXCEPT !["copy"] =
               [v \in Checkpoints |-> IF v \in named THEN versions["source"][v] ELSE 0]]
        /\ messages' = [messages EXCEPT !["copy"] = ItemsThrough(log["source"], Through)]
        /\ fork' = [fork EXCEPT !.at = "done"]
        /\ UNCHANGED <<ledger, writer, call, clock, made, left>>

\* Faulty variant: the last change is left out.
CloneWithoutLastChange == CopyChain(Through - 1)

\* cloneThreadUntilCheckpoint: the changes up to what the checkpoint names.
CloneUntilCheckpoint == CopyChain(Through)

\* A checkpoint whose parent was refused cannot be cloned.
CloneThrows ==
    /\ fork.at = "checked" /\ fork.upTo # 0
    /\ ~(Ancestry[fork.upTo] \subseteq Stored("source"))
    /\ fork' = [fork EXCEPT !.at = "off"]
    /\ UNCHANGED <<store, ledger, writer, call, clock, made, left>>

-----------------------------------------------------------------------------
\* The process ends; the tables stay.
Crash ==
    /\ Spend("crashes")
    /\ writer' = [t \in Threads |-> [w \in {"run", "late"} |-> NoWriter]]
    /\ call' = [c \in Calls |-> IF Active(c) THEN [call[c] EXCEPT !.at = "failed"]
                                ELSE call[c]]
    /\ fork' = IF fork.at = "checked" THEN [fork EXCEPT !.at = "off"] ELSE fork
    /\ UNCHANGED <<store, ledger, clock, made>>

Running(t) ==
    \/ Begin(t) \/ Finish(t) \/ Stop(t) \/ PutRefused(t) \/ LateEnds(t)
    \/ \E list \in Lists : Step(t, list)
    \/ \E w \in {"run", "late"} : Put(t, w) \/ PutWrites(t, w)
Compacting(c) ==
    \/ Compact(c) \/ ReadCommitted(c) \/ PrepareRow(c) \/ PrepareWrites(c)
    \/ Commit(c) \/ CommitRefused(c) \/ Answer(c)
Forking == ForkBegins \/ CloneThread \/ CloneUntilCheckpoint \/ CloneThrows

Next ==
    \/ \E t \in Threads : Running(t)
    \/ \E c \in Calls : Compacting(c)
    \/ Forking \/ Crash

Spec == Init /\ [][Next]_vars

-----------------------------------------------------------------------------
TypeOK ==
    /\ rows \in [Threads -> [Checkpoints -> [version : 0..LastId, parent : 0..LastId,
                                             op : Ops \cup {NoOp}]]]
    /\ versions \in [Threads -> [Checkpoints -> Nat]]
    /\ messages \in [Threads -> [Messages -> Items \cup {Gone}]]
    /\ \A t \in Threads : writes[t] \subseteq Checkpoints
    /\ clock \in 0..LastId
    /\ fork \in [at : {"off", "checked", "done"}, upTo : 0..LastId]
    /\ \A c \in Calls : call[c].at \in {"idle", "reading", "preparing", "checking",
                                        "summarising", "committed", "answered", "failed"}

\* A stored checkpoint is read with the messages it was put with, whatever was
\* put after it, shares its version or was compacted (loadMessagesForStateVersion).
ReadsWhatWasPut ==
    \A k \in Stored("source") : Read("source", k) = made[k]

\* So is a checkpoint of a clone, the copied ones and those put there since
\* (cloneThread, cloneThreadUntilCheckpoint), when runs and compactions were kept
\* apart and no puts were left behind.
CopyReadsWhatWasPut ==
    left.reserved /\ ~left.late => \A k \in Stored("copy") : Read("copy", k) = made[k]

\* The messages that are shown and searched are those of the log's end
\* (upsertProjectedMessage, deleteProjectedMessage).
ShownIsLogged ==
    \A t \in Threads : messages[t] = ItemsThrough(log[t], Len(log[t]))

\* When nothing is under way, the messages of a thread, as they are shown, are
\* those the next run starts from: those of the latest checkpoint; the thread
\* keeps runs and compactions apart, and no puts were left behind.
ShownIsLatest ==
    left.reserved /\ ~left.late => \A t \in Threads :
        (Latest(t) # 0 /\ \A w \in {"run", "late"} : writer[t][w].chain = <<>>)
            => ItemsThrough(log[t], LatestThrough(t)) = Read(t, Latest(t))

\* What is stored is of its types, and what is read, copied and shown is what
\* was put.
StoreSound == TypeOK /\ CopyReadsWhatWasPut /\ ShownIsLogged /\ ShownIsLatest

\* An operation compacts the thread once, however often it is asked for, and its
\* receipt says how (runtime_compaction_commits).
OneCompaction ==
    \A op \in Ops :
        LET done == {k \in Stored("source") : rows["source"][k].op = op} IN
        IF ledger[op] = NoReceipt THEN done = {}
        ELSE /\ done = {ledger[op].id}
             /\ rows["source"][ledger[op].id].parent = ledger[op].from

\* Calls of one operation that are answered asked for the same and are answered
\* alike, before and after a crash (readMatchingCompactResult).
AnswersAgree ==
    \A c, d \in Calls :
        (OpOf[c] = OpOf[d] /\ call[c].at = "answered" /\ call[d].at = "answered")
            => IdentityOf[c] = IdentityOf[d] /\ call[c].answer = call[d].answer

\* However often it is asked for, a compaction is made once and answered alike.
CompactsOnce == OneCompaction /\ AnswersAgree

\* What a compaction replaces is the latest checkpoint, which nobody has written
\* to, and what it has summarised are that checkpoint's messages.
NothingOvertaken ==
    [][\A k \in Stored("source")' \ Stored("source") :
         rows'["source"][k].op # NoOp =>
             LET from == rows'["source"][k].parent IN
             /\ from = Latest("source") /\ from \notin writes["source"]
             /\ \E c \in Calls : call[c].from = from /\ call[c].held = made[from]]_vars

\* A thread is not cloned while it is running (assertThreadCanFork).
ForkedWhileIdle ==
    [][(fork.at = "checked" /\ fork'.at = "done") => ~writer["source"]["run"].on]_vars
=============================================================================
