------------------------ MODULE CheckpointerManager ------------------------
(***************************************************************************)
(* The registry of checkpoint savers (checkpointer-manager.ts in the        *)
(* harness package): one saver per thread, created when first asked for,    *)
(* closed with its thread or, at shutdown, with all the others.             *)
(*                                                                         *)
(* get, close and closeAll are asynchronous functions of one process: what  *)
(* happens between two awaits is one step. A call is an element of Getters, *)
(* Closers or AllClosers; an entry of the registry has the name of the get  *)
(* that made it. How a saver is created, closed and flushed is outside.     *)
(***************************************************************************)
EXTENDS Naturals, FiniteSets

CONSTANTS
  Threads,
  Getters, Closers, AllClosers,   \* calls of get, close and closeAll
  ThreadOf,                       \* the thread a get or a close is for
  None

Calls == Getters \union Closers \union AllClosers

ASSUME ManagerAssumption ==
  /\ ThreadOf \in [Getters \union Closers -> Threads]
  /\ Getters \intersect (Closers \union AllClosers) = {}
  /\ Closers \intersect AllClosers = {}
  /\ None \notin Getters

VARIABLES
  entries,    \* thread -> its entry
  creation,   \* entry -> its creation: "none", "pending", "ready" or "failed"
  saver,      \* entry -> what became of the saver: "none", "open", "closed" or "stuck"
  closeOp,    \* entry -> closeOperation: "null", "creating", "closing" or "done"
  failures,   \* entry -> how many of its close operations have failed
  closeAllOp, \* closeAllOperation: "null", "closing" or "flushing"
  targets,    \* the close operations closeAll waits for
  alls,       \* the outcomes of the closeAll operations so far, in order
  pc,         \* where a call waits
  waitsFor    \* the close operation or the closeAll operation a call waits for

registry == <<entries, creation, saver, closeOp, failures>>
shutdown == <<closeAllOp, targets, alls>>
vars == <<registry, shutdown, pc, waitsFor>>

\* The n-th close operation of an entry, or the n-th closeAll operation (of no entry).
Op(e, n) == [entry |-> e, number |-> n]
Ops == [entry : Getters \union {None}, number : Nat]
NoOp == Op(None, 0)

Registered(e) == entries[ThreadOf[e]] = e
CurrentOp(e) == Op(e, failures[e] + 1)

Resolved(op) ==
  IF op.entry = None THEN op.number \in DOMAIN alls /\ alls[op.number]
  ELSE closeOp[op.entry] = "done" /\ op.number = failures[op.entry] + 1
Rejected(op) ==
  IF op.entry = None THEN op.number \in DOMAIN alls /\ ~alls[op.number]
  ELSE op.number <= failures[op.entry]

Init ==
  /\ entries = [t \in Threads |-> None]
  /\ creation = [e \in Getters |-> "none"]
  /\ saver = [e \in Getters |-> "none"]
  /\ closeOp = [e \in Getters |-> "null"]
  /\ failures = [e \in Getters |-> 0]
  /\ closeAllOp = "null" /\ targets = {} /\ alls = <<>>
  /\ pc = [c \in Calls |-> "idle"]
  /\ waitsFor = [c \in Calls |-> NoOp]

Wait(c, place, op) ==
  pc' = [pc EXCEPT ![c] = place] /\ waitsFor' = [waitsFor EXCEPT ![c] = op]
Answer(c, outcome) == Wait(c, outcome, NoOp)
AllOp == Op(None, Cardinality(DOMAIN alls) + 1)
Remove(e) == entries' = [entries EXCEPT ![ThreadOf[e]] = None]

-----------------------------------------------------------------------------
(* get                                                                     *)

MustWait(t) == entries[t] # None /\ closeOp[entries[t]] # "null"

\* The head of the loop, up to the next await.
Seek(g) ==
  LET t == ThreadOf[g] IN
  IF closeAllOp # "null"
    THEN Wait(g, "all", AllOp) /\ UNCHANGED registry
    ELSE IF MustWait(t)
      THEN Wait(g, "closed", CurrentOp(entries[t])) /\ UNCHANGED registry
      ELSE LET e == IF entries[t] = None THEN g ELSE entries[t] IN
           /\ Wait(g, "creation", Op(e, 0))
           /\ entries' = [entries EXCEPT ![t] = e]
           /\ creation' = IF e = g THEN [creation EXCEPT ![g] = "pending"] ELSE creation
           /\ UNCHANGED <<saver, closeOp, failures>>

Get(g) == pc[g] = "idle" /\ Seek(g) /\ UNCHANGED shutdown

SeekAgain(g) ==
  /\ pc[g] \in {"all", "closed"} /\ Resolved(waitsFor[g])
  /\ Seek(g)
  /\ UNCHANGED shutdown

\* Mutant: a get that fails drops whatever entry its thread has by then.
Dropped_Always(e) == Remove(e)

\* A get that fails drops the entry it worked with, unless it is being closed.
Dropped(e) ==
  IF Registered(e) /\ closeOp[e] = "null" THEN Remove(e) ELSE UNCHANGED entries

GetFails(g) ==
  /\ \/ pc[g] \in {"all", "closed"} /\ Rejected(waitsFor[g]) /\ UNCHANGED entries
     \/ pc[g] = "creation" /\ creation[waitsFor[g].entry] = "failed" /\ Dropped(waitsFor[g].entry)
     \/ /\ pc[g] = "raced" /\ (Resolved(waitsFor[g]) \/ Rejected(waitsFor[g]))
        /\ Dropped(waitsFor[g].entry)
  /\ Answer(g, "rejected")
  /\ UNCHANGED <<creation, saver, closeOp, failures, shutdown>>

\* Mutant: a get hands out a saver whatever happened while it was created.
Raced_Never(e) == FALSE

Raced(e) == closeOp[e] # "null"

GetCreated(g) ==
  LET e == waitsFor[g].entry IN
  /\ pc[g] = "creation" /\ creation[e] = "ready"
  /\ IF Raced(e)
       THEN Wait(g, "raced", CurrentOp(e))
       ELSE Answer(g, "returned")
  /\ UNCHANGED <<registry, shutdown>>

-----------------------------------------------------------------------------
(* close and closeAll                                                      *)

\* Joins the operation under way or starts one for each entry.
CloseEntries(es) ==
  closeOp' = [e \in Getters |->
                IF e \in es /\ closeOp[e] = "null" THEN "creating" ELSE closeOp[e]]

Close(c) ==
  LET e == entries[ThreadOf[c]] IN
  /\ pc[c] = "idle"
  /\ IF closeAllOp # "null"
       THEN Wait(c, "all", AllOp) /\ UNCHANGED registry
       ELSE IF e = None
         THEN Answer(c, "returned") /\ UNCHANGED registry
         ELSE /\ CloseEntries({e}) /\ Wait(c, "closed", CurrentOp(e))
              /\ UNCHANGED <<entries, creation, saver, failures>>
  /\ UNCHANGED shutdown

Targets == {e \in Getters : Registered(e)}

CloseAll(a) ==
  /\ pc[a] = "idle"
  /\ IF closeAllOp # "null" THEN UNCHANGED <<registry, shutdown>>
       ELSE /\ closeAllOp' = "closing" /\ UNCHANGED alls
            /\ CloseEntries(Targets) /\ targets' = {CurrentOp(e) : e \in Targets}
            /\ UNCHANGED <<entries, creation, saver, failures>>
  /\ Wait(a, "all", AllOp)

CloseReturns(c) ==
  /\ c \notin Getters /\ pc[c] \in {"all", "closed"}
  /\ \/ Resolved(waitsFor[c]) /\ Answer(c, "returned")
     \/ Rejected(waitsFor[c]) /\ Answer(c, "rejected")
  /\ UNCHANGED <<registry, shutdown>>

AllSettled == \A op \in targets : Resolved(op) \/ Rejected(op)

\* The flushes run only when every saver was closed.
AllClosed ==
  /\ closeAllOp = "closing" /\ AllSettled
  /\ \A op \in targets : ~Rejected(op)
  /\ closeAllOp' = "flushing"
  /\ UNCHANGED <<registry, targets, alls, pc, waitsFor>>

AllOver(ok) ==
  /\ closeAllOp' = "null" /\ targets' = {}
  /\ alls' = [n \in DOMAIN alls \union {AllOp.number} |-> IF n \in DOMAIN alls THEN alls[n] ELSE ok]

AllFails ==
  /\ closeAllOp = "closing" /\ AllSettled
  /\ \E op \in targets : Rejected(op)
  /\ AllOver(FALSE)
  /\ UNCHANGED <<registry, pc, waitsFor>>

Flushed ==
  /\ closeAllOp = "flushing"
  /\ \E ok \in BOOLEAN : AllOver(ok)
  /\ UNCHANGED <<registry, pc, waitsFor>>

-----------------------------------------------------------------------------
(* What goes on inside an entry.                                           *)

Created(e) ==
  /\ creation[e] = "pending"
  /\ \/ /\ creation' = [creation EXCEPT ![e] = "ready"]
        /\ saver' = [saver EXCEPT ![e] = "open"]
     \/ /\ creation' = [creation EXCEPT ![e] = "failed"]
        /\ UNCHANGED saver
  /\ UNCHANGED <<entries, closeOp, failures, shutdown, pc, waitsFor>>

\* The end of a close operation that leaves nothing to be closed.
Closed(e) ==
  /\ closeOp' = [closeOp EXCEPT ![e] = "done"]
  /\ IF Registered(e) THEN Remove(e) ELSE UNCHANGED entries
  /\ UNCHANGED failures

CloserCreated(e) ==
  /\ closeOp[e] = "creating" /\ creation[e] \in {"ready", "failed"}
  /\ IF creation[e] = "failed"
       THEN Closed(e)
       ELSE closeOp' = [closeOp EXCEPT ![e] = "closing"] /\ UNCHANGED <<entries, failures>>
  /\ UNCHANGED <<creation, saver, shutdown, pc, waitsFor>>

SaverClosed(e) ==
  /\ closeOp[e] = "closing"
  /\ saver' = [saver EXCEPT ![e] = "closed"] /\ Closed(e)
  /\ UNCHANGED <<creation, shutdown, pc, waitsFor>>

\* Mutant: the failed operation stays in its field.
AfterFailure_Kept(e) == "done"

AfterFailure(e) == IF Registered(e) THEN "null" ELSE "done"

\* The entry stays, for another close; a saver whose close has failed once is stuck.
SaverStuck(e) ==
  /\ closeOp[e] = "closing"
  /\ saver' = [saver EXCEPT ![e] = "stuck"]
  /\ failures' = [failures EXCEPT ![e] = @ + 1]
  /\ closeOp' = [closeOp EXCEPT ![e] = AfterFailure(e)]
  /\ UNCHANGED <<entries, creation, shutdown, pc, waitsFor>>

-----------------------------------------------------------------------------
EntryStep(e) == Created(e) \/ CloserCreated(e) \/ SaverClosed(e) \/ SaverStuck(e)
GetStep(g) == SeekAgain(g) \/ GetFails(g) \/ GetCreated(g)
AllStep == AllClosed \/ AllFails \/ Flushed

Next ==
  \/ \E g \in Getters : Get(g) \/ GetStep(g) \/ EntryStep(g)
  \/ \E c \in Closers : Close(c)
  \/ \E a \in AllClosers : CloseAll(a)
  \/ \E c \in Calls : CloseReturns(c)
  \/ AllStep

Spec == Init /\ [][Next]_vars

\* Promises settle: creating, closing and flushing end one way or the other, and whoever
\* awaits a settled promise goes on.
FairSpec ==
  /\ Spec
  /\ \A g \in Getters : WF_vars(GetStep(g)) /\ WF_vars(EntryStep(g))
  /\ \A c \in Calls : WF_vars(CloseReturns(c))
  /\ WF_vars(AllStep)

-----------------------------------------------------------------------------
(* Properties.                                                             *)

\* Every variable keeps its type.
TypeOK ==
  /\ entries \in [Threads -> Getters \union {None}]
  /\ creation \in [Getters -> {"none", "pending", "ready", "failed"}]
  /\ saver \in [Getters -> {"none", "open", "closed", "stuck"}]
  /\ closeOp \in [Getters -> {"null", "creating", "closing", "done"}]
  /\ failures \in [Getters -> Nat]
  /\ closeAllOp \in {"null", "closing", "flushing"}
  /\ targets \subseteq Ops
  /\ DOMAIN alls \subseteq Nat /\ \A n \in DOMAIN alls : alls[n] \in BOOLEAN
  /\ pc \in [Calls -> {"idle", "all", "closed", "creation", "raced", "returned", "rejected"}]
  /\ waitsFor \in [Calls -> Ops]

\* A saver that is being created or is open is the one its thread's entry names: no two
\* savers, each with a write queue of its own, ever serve one thread, and none is forgotten
\* before it was closed, however get, close and closeAll overlap.
SaverIsOwned ==
  \A e \in Getters : creation[e] = "pending" \/ saver[e] = "open" => Registered(e)

\* While the projections are flushed at shutdown no saver is there to feed them.
QuietWhileFlushing ==
  closeAllOp = "flushing" =>
    \A e \in Getters : creation[e] # "pending" /\ saver[e] # "open"

\* One saver serves a thread at a time, and none is there when the projections are flushed.
OneSaver == TypeOK /\ SaverIsOwned /\ QuietWhileFlushing

\* A get hands out a saver only while it is the thread's, and nobody has begun to close it.
HandedOutOpen ==
  [][\A g \in Getters : pc[g] # "returned" /\ pc'[g] = "returned" =>
       LET e == waitsFor[g].entry IN
       saver[e] = "stuck" \/ (saver[e] = "open" /\ closeOp[e] = "null" /\ Registered(e))]_vars

\* Every call is answered, also when creations and closes fail and when shutdown intervenes.
CallsAnswered ==
  \A c \in Calls : pc[c] # "idle" ~> pc[c] \in {"returned", "rejected"}

\* A thread is not stuck with a saver that could not be created.
FailedCreationsForgotten ==
  \A e \in Getters :
    creation[e] = "failed" /\ Registered(e) ~> ~Registered(e)

\* Nothing hangs on a failure: every call is answered, and the thread can try again.
FailuresPass == CallsAnswered /\ FailedCreationsForgotten
=============================================================================
