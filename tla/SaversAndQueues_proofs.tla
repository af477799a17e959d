----------------------- MODULE SaversAndQueues_proofs -----------------------
(***************************************************************************)
(* Proofs about the two things the end of the program waits for: the        *)
(* registry of checkpoint savers (CheckpointerManager), for any threads and *)
(* calls, and the projection queue (ProjectionQueue), for any keys,         *)
(* flushes and limit of concurrency.                                        *)
(*                                                                         *)
(* SaverIsOwned is inductive once it is known what a get that waits may     *)
(* still drop: an entry whose creation failed, or one whose close operation *)
(* is over. QuietWhileFlushing adds that closeAll waits for an operation of *)
(* every entry that is left in the registry.                                *)
(***************************************************************************)
EXTENDS CheckpointerManager, ProjectionQueue, FiniteSetTheorems, TLAPS

-----------------------------------------------------------------------------
(* The registry of checkpoint savers *)

\* What creation, saver and closeOp say of an entry agree.
Entry(e) ==
  /\ creation[e] \in {"none", "pending", "failed"} => saver[e] = "none"
  /\ creation[e] = "ready" => saver[e] # "none"
  /\ Registered(e) => creation[e] # "none"
  /\ closeOp[e] = "closing" => creation[e] = "ready"
  /\ closeOp[e] = "done" => creation[e] = "failed" \/ saver[e] \in {"closed", "stuck"}
  /\ saver[e] = "closed" => closeOp[e] = "done"
  /\ failures[e] > 0 => saver[e] \in {"closed", "stuck"}

\* A get makes its entry once, and waits for an entry of its thread.
Waiting(g) ==
  /\ pc[g] \in {"idle", "all", "closed"} => creation[g] = "none"
  /\ pc[g] \in {"creation", "raced"} => waitsFor[g].entry \in Getters
  /\ pc[g] = "raced" => waitsFor[g].number > 0

EntriesInv == \A e \in Getters : Entry(e) /\ Waiting(e)

\* closeAll waits for every entry there still is.
ShutdownInv ==
  /\ closeAllOp = "closing" =>
       \A e \in Getters : Registered(e) =>
         \E op \in targets : op.entry = e /\ op.number <= failures[e] + 1
  /\ QuietWhileFlushing

IInv ==
  /\ TypeOK
  /\ IsFiniteSet(DOMAIN alls)
  /\ EntriesInv
  /\ SaverIsOwned
  /\ ShutdownInv

-----------------------------------------------------------------------------
\* The number of the next closeAll operation.
LEMMA AllOpType ==
  ASSUME IInv
  PROVE  AllOp \in Ops /\ AllOp.number \in Nat /\ IsFiniteSet(DOMAIN alls \union {AllOp.number})
  <1>1. Cardinality(DOMAIN alls) \in Nat
    BY FS_CardinalityType DEF IInv
  <1>2. AllOp.number \in Nat /\ AllOp \in Ops
    BY <1>1 DEF AllOp, Op, Ops
  <1>3. QED
    BY <1>2, FS_AddElement DEF IInv

\* The close operation of an entry that a call may join.
LEMMA CurrentOpType ==
  ASSUME TypeOK, NEW e \in Getters
  PROVE  /\ CurrentOp(e) \in Ops
         /\ CurrentOp(e).entry = e /\ CurrentOp(e).number = failures[e] + 1
         /\ failures[e] \in Nat
  BY DEF TypeOK, CurrentOp, Op, Ops

LEMMA WaitTypes ==
  ASSUME TypeOK, NEW c \in Calls, NEW op \in Ops,
         NEW place \in {"idle", "all", "closed", "creation", "raced", "returned", "rejected"},
         Wait(c, place, op)
  PROVE  /\ pc' \in [Calls -> {"idle", "all", "closed", "creation", "raced", "returned", "rejected"}]
         /\ waitsFor' \in [Calls -> Ops]
         /\ pc'[c] = place /\ waitsFor'[c] = op
         /\ \A d \in Calls : d # c => pc'[d] = pc[d] /\ waitsFor'[d] = waitsFor[d]
  BY DEF TypeOK, Wait

\* A saver can only be dropped from the registry when it is not there to be served.
LEMMA DropKeeps ==
  ASSUME ManagerAssumption, IInv, NEW e \in Getters, Remove(e), Registered(e),
         creation[e] # "pending", saver[e] # "open",
         UNCHANGED <<creation, saver>>
  PROVE  /\ SaverIsOwned'
         /\ entries' \in [Threads -> Getters \union {None}]
         /\ \A f \in Getters : Registered(f)' => Registered(f)
  <1>1. ThreadOf[e] \in Threads /\ \A f \in Getters : ThreadOf[f] \in Threads /\ f # None
    BY DEF ManagerAssumption
  <1>2. entries \in [Threads -> Getters \union {None}]
    BY DEF IInv, TypeOK
  <1>3. entries' = [entries EXCEPT ![ThreadOf[e]] = None]
    BY DEF Remove
  <1>4. \A f \in Getters : Registered(f)' <=> Registered(f) /\ ThreadOf[f] # ThreadOf[e]
    BY <1>1, <1>2, <1>3 DEF Registered
  <1>5. \A f \in Getters : Registered(f) /\ ThreadOf[f] = ThreadOf[e] => f = e
    BY DEF Registered
  <1>6. QED
    BY <1>2, <1>3, <1>4, <1>5 DEF IInv, SaverIsOwned

-----------------------------------------------------------------------------
(* The invariant is inductive, one lemma for each part of Next.            *)

\* The first half of get: waiting changes no entry, making an entry takes a free thread.
LEMMA SeekKeeps ==
  ASSUME ManagerAssumption, IInv, NEW g \in Getters, pc[g] \in {"idle", "all", "closed"},
         Seek(g), UNCHANGED shutdown
  PROVE  IInv'
  <1> DEFINE t == ThreadOf[g]
  <1>0. /\ t \in Threads /\ g \in Calls /\ g # None
        /\ \A f \in Getters : ThreadOf[f] \in Threads /\ f # None
    BY DEF ManagerAssumption, Calls
  <1>1. /\ entries \in [Threads -> Getters \union {None}]
        /\ creation \in [Getters -> {"none", "pending", "ready", "failed"}]
        /\ creation[g] = "none" /\ saver[g] = "none"
        /\ UNCHANGED <<saver, closeOp, failures, closeAllOp, targets, alls>>
    BY DEF IInv, TypeOK, EntriesInv, Entry, Waiting, Seek, registry, shutdown
  <1>2. ASSUME NEW op \in Ops, NEW place \in {"all", "closed"}, Wait(g, place, op),
               UNCHANGED registry
        PROVE  IInv'
    <2>1. /\ pc' \in [Calls -> {"idle", "all", "closed", "creation", "raced", "returned", "rejected"}]
          /\ waitsFor' \in [Calls -> Ops] /\ pc'[g] = place
          /\ \A d \in Calls : d # g => pc'[d] = pc[d] /\ waitsFor'[d] = waitsFor[d]
      BY <1>0, <1>2, WaitTypes DEF IInv
    <2>2. TypeOK'
      BY <1>1, <1>2, <2>1 DEF IInv, TypeOK, registry
    <2>3. EntriesInv'
      BY <1>0, <1>1, <1>2, <2>1 DEF IInv, EntriesInv, Entry, Waiting, Registered, registry, Calls
    <2>4. SaverIsOwned' /\ ShutdownInv' /\ IsFiniteSet(DOMAIN alls')
      BY <1>1, <1>2 DEF IInv, SaverIsOwned, ShutdownInv, QuietWhileFlushing, Registered, registry
    <2>5. QED
      BY <2>2, <2>3, <2>4 DEF IInv
  <1>3. CASE closeAllOp # "null"
    BY <1>2, <1>3, AllOpType DEF Seek
  <1>4. CASE closeAllOp = "null" /\ MustWait(t)
    <2>1. entries[t] \in Getters
      BY <1>0, <1>1, <1>4 DEF MustWait
    <2>2. CurrentOp(entries[t]) \in Ops
      BY <2>1, CurrentOpType DEF IInv
    <2>3. QED
      BY <1>2, <1>4, <2>2 DEF Seek
  <1>5. CASE closeAllOp = "null" /\ ~MustWait(t)
    <2> DEFINE e == IF entries[t] = None THEN g ELSE entries[t]
    <2>1. /\ e \in Getters /\ Op(e, 0) \in Ops /\ Op(e, 0).entry = e
      BY <1>0, <1>1 DEF Op, Ops
    <2>2. /\ Wait(g, "creation", Op(e, 0))
          /\ entries' = [entries EXCEPT ![t] = e]
          /\ creation' = IF e = g THEN [creation EXCEPT ![g] = "pending"] ELSE creation
      BY <1>5 DEF Seek
    <2>3. /\ pc' \in [Calls -> {"idle", "all", "closed", "creation", "raced", "returned", "rejected"}]
          /\ waitsFor' \in [Calls -> Ops] /\ pc'[g] = "creation" /\ waitsFor'[g] = Op(e, 0)
          /\ \A d \in Calls : d # g => pc'[d] = pc[d] /\ waitsFor'[d] = waitsFor[d]
      BY <1>0, <2>1, <2>2, WaitTypes DEF IInv
    <2>4. TypeOK'
      BY <1>0, <1>1, <2>1, <2>2, <2>3 DEF IInv, TypeOK
    <2>5. ~Registered(g)
      BY <1>1 DEF IInv, EntriesInv, Entry
    <2>6. e = g => entries[t] = None
      BY <1>0, <2>5 DEF Registered
    <2>7. \A f \in Getters :
            /\ f # g => creation'[f] = creation[f] /\ (Registered(f)' <=> Registered(f))
            /\ creation'[g] = (IF e = g THEN "pending" ELSE "none")
            /\ Registered(g)' <=> e = g
      BY <1>0, <1>1, <2>1, <2>2, <2>5, <2>6 DEF Registered
    <2>8. EntriesInv'
      <3>1. ASSUME NEW f \in Getters, f # g PROVE Entry(f)' /\ Waiting(f)'
        BY <1>0, <1>1, <2>3, <2>7, <3>1 DEF IInv, EntriesInv, Entry, Waiting, Calls
      <3>2. Entry(g)' /\ Waiting(g)'
        BY <1>0, <1>1, <2>1, <2>3, <2>7 DEF IInv, EntriesInv, Entry, Waiting, Calls
      <3>3. QED
        BY <3>1, <3>2 DEF EntriesInv
    <2>9. SaverIsOwned' /\ ShutdownInv' /\ IsFiniteSet(DOMAIN alls')
      BY <1>1, <1>5, <2>7 DEF IInv, SaverIsOwned, ShutdownInv, QuietWhileFlushing
    <2>10. QED
      BY <2>4, <2>8, <2>9 DEF IInv
  <1>6. QED
    BY <1>3, <1>4, <1>5

\* A step that only lets a call go on, or answers it.
LEMMA CallKeeps ==
  ASSUME ManagerAssumption, IInv, NEW c \in Calls, NEW op \in Ops,
         NEW place \in {"all", "closed", "raced", "returned", "rejected"},
         Wait(c, place, op), UNCHANGED <<registry, shutdown>>,
         c \in Getters => /\ place \in {"raced", "returned", "rejected"}
                          /\ place = "raced" => op.entry \in Getters /\ op.number > 0
  PROVE  IInv'
  <1>1. /\ pc' \in [Calls -> {"idle", "all", "closed", "creation", "raced", "returned", "rejected"}]
        /\ waitsFor' \in [Calls -> Ops] /\ pc'[c] = place /\ waitsFor'[c] = op
        /\ \A d \in Calls : d # c => pc'[d] = pc[d] /\ waitsFor'[d] = waitsFor[d]
    BY WaitTypes DEF IInv
  <1>2. UNCHANGED <<entries, creation, saver, closeOp, failures, closeAllOp, targets, alls>>
    BY DEF registry, shutdown
  <1>3. TypeOK'
    BY <1>1, <1>2 DEF IInv, TypeOK
  <1>4. EntriesInv'
    <2>1. ASSUME NEW e \in Getters PROVE Waiting(e)'
      BY <1>1, <1>2 DEF IInv, EntriesInv, Waiting, Calls
    <2>2. ASSUME NEW e \in Getters PROVE Entry(e)'
      BY <1>2 DEF IInv, EntriesInv, Entry, Registered
    <2>3. QED
      BY <2>1, <2>2 DEF EntriesInv
  <1>5. SaverIsOwned' /\ ShutdownInv' /\ IsFiniteSet(DOMAIN alls')
    BY <1>2 DEF IInv, SaverIsOwned, ShutdownInv, QuietWhileFlushing, Registered
  <1>6. QED
    BY <1>3, <1>4, <1>5 DEF IInv

\* A get that fails may drop its entry, which has then nothing to be served.
LEMMA GetFailsKeeps ==
  ASSUME ManagerAssumption, IInv, NEW g \in Getters, GetFails(g)
  PROVE  IInv'
  <1>0. /\ g \in Calls /\ NoOp \in Ops
        /\ UNCHANGED <<creation, saver, closeOp, failures, closeAllOp, targets, alls>>
        /\ Wait(g, "rejected", NoOp)
    BY DEF GetFails, Calls, NoOp, Op, Ops, shutdown, Answer
  <1>1. CASE UNCHANGED entries
    BY <1>0, <1>1, CallKeeps DEF registry, shutdown
  <1>2. ASSUME NEW e \in Getters, Registered(e), Remove(e), creation[e] # "pending",
               saver[e] # "open"
        PROVE  IInv'
    <2>1. /\ SaverIsOwned'
          /\ entries' \in [Threads -> Getters \union {None}]
          /\ \A f \in Getters : Registered(f)' => Registered(f)
      BY <1>0, <1>2, DropKeeps
    <2>2. /\ pc' \in [Calls -> {"idle", "all", "closed", "creation", "raced", "returned", "rejected"}]
          /\ waitsFor' \in [Calls -> Ops] /\ pc'[g] = "rejected"
          /\ \A d \in Calls : d # g => pc'[d] = pc[d] /\ waitsFor'[d] = waitsFor[d]
      BY <1>0, WaitTypes DEF IInv
    <2>3. TypeOK'
      BY <1>0, <2>1, <2>2 DEF IInv, TypeOK
    <2>4. EntriesInv'
      BY <1>0, <2>1, <2>2 DEF IInv, EntriesInv, Entry, Waiting, Calls
    <2>5. ShutdownInv' /\ IsFiniteSet(DOMAIN alls')
      BY <1>0, <2>1 DEF IInv, ShutdownInv, QuietWhileFlushing
    <2>6. QED
      BY <2>1, <2>3, <2>4, <2>5 DEF IInv
  <1>3. ASSUME pc[g] \in {"creation", "raced"}, Dropped(waitsFor[g].entry), entries' # entries
        PROVE  /\ waitsFor[g].entry \in Getters /\ Registered(waitsFor[g].entry)
               /\ Remove(waitsFor[g].entry) /\ closeOp[waitsFor[g].entry] = "null"
    BY <1>3 DEF IInv, EntriesInv, Waiting, Dropped
  <1>4. CASE pc[g] = "creation" /\ creation[waitsFor[g].entry] = "failed"
             /\ Dropped(waitsFor[g].entry) /\ entries' # entries
    <2>1. saver[waitsFor[g].entry] = "none"
      BY <1>3, <1>4 DEF IInv, EntriesInv, Entry
    <2>2. QED
      BY <1>2, <1>3, <1>4, <2>1
  <1>5. CASE pc[g] = "raced" /\ (Resolved(waitsFor[g]) \/ Rejected(waitsFor[g]))
             /\ Dropped(waitsFor[g].entry) /\ entries' # entries
    <2> DEFINE e == waitsFor[g].entry
    <2>1. /\ e \in Getters /\ e # None /\ closeOp[e] = "null" /\ waitsFor[g].number > 0
          /\ waitsFor[g].number \in Nat /\ failures[e] \in Nat
      BY <1>0, <1>3, <1>5 DEF IInv, EntriesInv, Waiting, ManagerAssumption, TypeOK, Ops
    <2>2. Rejected(waitsFor[g])
      BY <1>5, <2>1 DEF Resolved
    <2>3. failures[e] > 0
      BY <2>1, <2>2 DEF Rejected
    <2>4. saver[e] \in {"closed", "stuck"} /\ creation[e] # "pending"
      BY <2>1, <2>3 DEF IInv, EntriesInv, Entry
    <2>5. QED
      BY <1>2, <1>3, <1>5, <2>4
  <1>6. QED
    BY <1>1, <1>4, <1>5 DEF GetFails

\* Beginning to close entries changes nothing of them but the field.
LEMMA CloseEntriesKeeps ==
  ASSUME ManagerAssumption, IInv, NEW es, CloseEntries(es),
         UNCHANGED <<entries, creation, saver, failures>>
  PROVE  /\ closeOp' \in [Getters -> {"null", "creating", "closing", "done"}]
         /\ \A e \in Getters : closeOp'[e] = closeOp[e] \/ (closeOp[e] = "null" /\ closeOp'[e] = "creating")
         /\ \A e \in Getters : Entry(e)'
         /\ SaverIsOwned'
         /\ QuietWhileFlushing \/ closeAllOp' # "flushing"
  <1>1. closeOp \in [Getters -> {"null", "creating", "closing", "done"}]
    BY DEF IInv, TypeOK
  <1>2. /\ closeOp' \in [Getters -> {"null", "creating", "closing", "done"}]
        /\ \A e \in Getters : closeOp'[e] = closeOp[e] \/ (closeOp[e] = "null" /\ closeOp'[e] = "creating")
    BY <1>1 DEF CloseEntries
  <1>3. \A e \in Getters : Entry(e)'
    BY <1>2 DEF IInv, EntriesInv, Entry, Registered
  <1>4. SaverIsOwned' /\ QuietWhileFlushing
    BY DEF IInv, SaverIsOwned, ShutdownInv, Registered
  <1>5. QED
    BY <1>2, <1>3, <1>4

LEMMA CloseKeeps ==
  ASSUME ManagerAssumption, IInv, NEW c \in Closers, Close(c)
  PROVE  IInv'
  <1> DEFINE e == entries[ThreadOf[c]]
  <1>0. /\ c \in Calls /\ c \notin Getters /\ ThreadOf[c] \in Threads /\ NoOp \in Ops
        /\ e \in Getters \union {None} /\ UNCHANGED <<closeAllOp, targets, alls>>
    BY DEF Calls, ManagerAssumption, NoOp, Op, Ops, IInv, TypeOK, Close, shutdown
  <1>1. CASE closeAllOp # "null"
    BY <1>0, <1>1, AllOpType, CallKeeps DEF Close
  <1>2. CASE closeAllOp = "null" /\ e = None
    BY <1>0, <1>2, CallKeeps DEF Close, Answer
  <1>3. CASE closeAllOp = "null" /\ e # None
    <2>1. /\ e \in Getters /\ CurrentOp(e) \in Ops
          /\ CloseEntries({e}) /\ Wait(c, "closed", CurrentOp(e))
          /\ UNCHANGED <<entries, creation, saver, failures>>
      BY <1>0, <1>3, CurrentOpType DEF Close, IInv
    <2>2. /\ closeOp' \in [Getters -> {"null", "creating", "closing", "done"}]
          /\ \A f \in Getters : Entry(f)'
          /\ SaverIsOwned'
      BY <2>1, CloseEntriesKeeps
    <2>3. /\ pc' \in [Calls -> {"idle", "all", "closed", "creation", "raced", "returned", "rejected"}]
          /\ waitsFor' \in [Calls -> Ops]
          /\ \A d \in Calls : d # c => pc'[d] = pc[d] /\ waitsFor'[d] = waitsFor[d]
      BY <1>0, <2>1, WaitTypes DEF IInv
    <2>4. TypeOK'
      BY <1>0, <2>1, <2>2, <2>3 DEF IInv, TypeOK
    <2>5. EntriesInv'
      <3>1. ASSUME NEW g \in Getters PROVE Waiting(g)'
        BY <1>0, <2>1, <2>3 DEF IInv, EntriesInv, Waiting, Calls
      <3>2. QED
        BY <2>2, <3>1 DEF EntriesInv
    <2>6. ShutdownInv' /\ IsFiniteSet(DOMAIN alls')
      BY <1>0, <1>3 DEF IInv, ShutdownInv, QuietWhileFlushing
    <2>7. QED
      BY <2>2, <2>4, <2>5, <2>6 DEF IInv
  <1>4. QED
    BY <1>1, <1>2, <1>3

LEMMA CloseAllKeeps ==
  ASSUME ManagerAssumption, IInv, NEW a \in AllClosers, CloseAll(a)
  PROVE  IInv'
  <1>0. a \in Calls /\ a \notin Getters /\ AllOp \in Ops /\ Wait(a, "all", AllOp)
    BY AllOpType DEF Calls, ManagerAssumption, CloseAll
  <1>1. CASE closeAllOp # "null"
    BY <1>0, <1>1, CallKeeps DEF CloseAll
  <1>2. CASE closeAllOp = "null"
    <2>1. /\ closeAllOp' = "closing" /\ UNCHANGED alls
          /\ CloseEntries(Targets) /\ targets' = {CurrentOp(e) : e \in Targets}
          /\ UNCHANGED <<entries, creation, saver, failures>>
      BY <1>2 DEF CloseAll
    <2>2. /\ closeOp' \in [Getters -> {"null", "creating", "closing", "done"}]
          /\ \A f \in Getters : Entry(f)'
          /\ SaverIsOwned'
      BY <2>1, CloseEntriesKeeps
    <2>3. /\ pc' \in [Calls -> {"idle", "all", "closed", "creation", "raced", "returned", "rejected"}]
          /\ waitsFor' \in [Calls -> Ops]
          /\ \A d \in Calls : d # a => pc'[d] = pc[d] /\ waitsFor'[d] = waitsFor[d]
      BY <1>0, WaitTypes DEF IInv
    <2>4. targets' \subseteq Ops
      BY <2>1, CurrentOpType DEF IInv, Targets
    <2>5. TypeOK'
      BY <2>1, <2>2, <2>3, <2>4 DEF IInv, TypeOK
    <2>6. EntriesInv'
      <3>1. ASSUME NEW g \in Getters PROVE Waiting(g)'
        BY <1>0, <2>1, <2>3 DEF IInv, EntriesInv, Waiting, Calls
      <3>2. QED
        BY <2>2, <3>1 DEF EntriesInv
    <2>7. ASSUME NEW e \in Getters, Registered(e)'
          PROVE  \E op \in targets' : op.entry = e /\ op.number <= failures'[e] + 1
      <3>1. Registered(e) /\ e \in Targets
        BY <2>1, <2>7 DEF Registered, Targets
      <3>2. CurrentOp(e) \in targets'
        BY <2>1, <3>1
      <3>3. CurrentOp(e).entry = e /\ CurrentOp(e).number <= failures'[e] + 1
        BY <2>1, CurrentOpType DEF IInv
      <3>4. QED
        BY <3>2, <3>3
    <2>8. ShutdownInv' /\ IsFiniteSet(DOMAIN alls')
      BY <2>1, <2>7 DEF IInv, ShutdownInv, QuietWhileFlushing
    <2>9. QED
      BY <2>2, <2>5, <2>6, <2>8 DEF IInv
  <1>3. QED
    BY <1>1, <1>2

\* What goes on inside an entry, whether it is registered or not.
LEMMA EntryKeeps ==
  ASSUME ManagerAssumption, IInv, NEW e \in Getters, EntryStep(e)
  PROVE  IInv'
  <1>0. /\ creation \in [Getters -> {"none", "pending", "ready", "failed"}]
        /\ saver \in [Getters -> {"none", "open", "closed", "stuck"}]
        /\ closeOp \in [Getters -> {"null", "creating", "closing", "done"}]
        /\ failures \in [Getters -> Nat]
        /\ \A f \in Getters : Entry(f) /\ Waiting(f)
        /\ Getters \subseteq Calls
    BY DEF IInv, TypeOK, EntriesInv, Calls
  <1>1. CASE Created(e)
    <2>1. /\ UNCHANGED <<entries, closeOp, failures, closeAllOp, targets, alls, pc, waitsFor>>
          /\ creation' \in [Getters -> {"none", "pending", "ready", "failed"}]
          /\ saver' \in [Getters -> {"none", "open", "closed", "stuck"}]
          /\ \A f \in Getters : f # e => creation'[f] = creation[f] /\ saver'[f] = saver[f]
          /\ creation[e] = "pending" /\ saver[e] = "none"
          /\ \/ creation'[e] = "ready" /\ saver'[e] = "open"
             \/ creation'[e] = "failed" /\ saver'[e] = "none"
      BY <1>0, <1>1 DEF Created, shutdown, Entry
    <2>2. TypeOK'
      BY <2>1 DEF IInv, TypeOK
    <2>3. EntriesInv'
      BY <1>0, <2>1 DEF EntriesInv, Entry, Waiting, Registered
    <2>4. SaverIsOwned'
      BY <2>1 DEF IInv, SaverIsOwned, Registered
    <2>5. ShutdownInv' /\ IsFiniteSet(DOMAIN alls')
      BY <2>1 DEF IInv, ShutdownInv, QuietWhileFlushing, Registered
    <2>6. QED
      BY <2>2, <2>3, <2>4, <2>5 DEF IInv
  <1>2. ASSUME UNCHANGED <<creation, failures, closeAllOp, targets, alls, pc, waitsFor>>,
               \A f \in Getters : f # e => saver'[f] = saver[f],
               saver' \in [Getters -> {"none", "open", "closed", "stuck"}],
               \/ creation[e] = "failed" /\ UNCHANGED saver
               \/ creation[e] = "ready" /\ saver'[e] = "closed",
               Closed(e)
        PROVE  IInv'
    <2>1. /\ closeOp' \in [Getters -> {"null", "creating", "closing", "done"}]
          /\ closeOp'[e] = "done" /\ \A f \in Getters : f # e => closeOp'[f] = closeOp[f]
      BY <1>0, <1>2 DEF Closed
    <2>2. /\ entries' \in [Threads -> Getters \union {None}]
          /\ \A f \in Getters : Registered(f)' => Registered(f)
          /\ \A f \in Getters : Registered(f) /\ ~Registered(f)' => f = e
      <3>1. CASE Registered(e)
        <4>1. ThreadOf[e] \in Threads /\ \A f \in Getters : ThreadOf[f] \in Threads /\ f # None
          BY DEF ManagerAssumption
        <4>2. /\ entries \in [Threads -> Getters \union {None}]
              /\ entries' = [entries EXCEPT ![ThreadOf[e]] = None]
          BY <1>2, <3>1 DEF Closed, Remove, IInv, TypeOK
        <4>3. QED
          BY <3>1, <4>1, <4>2 DEF Registered
      <3>2. CASE ~Registered(e)
        BY <1>2, <3>2 DEF Closed, Registered, IInv, TypeOK
      <3>3. QED
        BY <3>1, <3>2
    <2>3. TypeOK'
      BY <1>2, <2>1, <2>2 DEF IInv, TypeOK
    <2>4. EntriesInv'
      BY <1>0, <1>2, <2>1, <2>2 DEF EntriesInv, Entry, Waiting
    <2>5. SaverIsOwned'
      BY <1>0, <1>2, <2>2 DEF IInv, SaverIsOwned, Entry
    <2>6. ShutdownInv' /\ IsFiniteSet(DOMAIN alls')
      BY <1>2, <2>2 DEF IInv, ShutdownInv, QuietWhileFlushing
    <2>7. QED
      BY <2>3, <2>4, <2>5, <2>6 DEF IInv
  <1>3. CASE CloserCreated(e)
    <2>1. CASE creation[e] = "failed"
      <3>1. /\ UNCHANGED <<creation, saver, failures, closeAllOp, targets, alls, pc, waitsFor>>
            /\ Closed(e)
        BY <1>3, <2>1 DEF CloserCreated, shutdown, Closed
      <3>2. QED
        BY <1>0, <1>2, <2>1, <3>1
    <2>2. CASE creation[e] # "failed"
      <3>1. /\ UNCHANGED <<entries, creation, saver, failures, closeAllOp, targets, alls, pc, waitsFor>>
            /\ closeOp' \in [Getters -> {"null", "creating", "closing", "done"}]
            /\ creation[e] = "ready" /\ closeOp[e] = "creating" /\ closeOp'[e] = "closing"
            /\ \A f \in Getters : f # e => closeOp'[f] = closeOp[f]
        BY <1>0, <1>3, <2>2 DEF CloserCreated, shutdown
      <3>2. TypeOK'
        BY <3>1 DEF IInv, TypeOK
      <3>3. EntriesInv'
        BY <1>0, <3>1 DEF EntriesInv, Entry, Waiting, Registered
      <3>4. SaverIsOwned' /\ ShutdownInv' /\ IsFiniteSet(DOMAIN alls')
        BY <3>1 DEF IInv, SaverIsOwned, ShutdownInv, QuietWhileFlushing, Registered
      <3>5. QED
        BY <3>2, <3>3, <3>4 DEF IInv
    <2>3. QED
      BY <2>1, <2>2
  <1>4. CASE SaverClosed(e)
    <2>1. creation[e] = "ready"
      BY <1>0, <1>4 DEF SaverClosed, Entry
    <2>2. /\ UNCHANGED <<creation, failures, closeAllOp, targets, alls, pc, waitsFor>>
          /\ saver' = [saver EXCEPT ![e] = "closed"] /\ Closed(e)
      BY <1>4 DEF SaverClosed, shutdown, Closed
    <2>3. /\ saver' \in [Getters -> {"none", "open", "closed", "stuck"}] /\ saver'[e] = "closed"
          /\ \A f \in Getters : f # e => saver'[f] = saver[f]
      BY <1>0, <2>2
    <2>4. QED
      BY <1>2, <2>1, <2>2, <2>3
  <1>5. CASE SaverStuck(e)
    <2>1. /\ UNCHANGED <<entries, creation, closeAllOp, targets, alls, pc, waitsFor>>
          /\ saver' \in [Getters -> {"none", "open", "closed", "stuck"}] /\ saver'[e] = "stuck"
          /\ closeOp' \in [Getters -> {"null", "creating", "closing", "done"}]
          /\ closeOp'[e] \in {"null", "done"}
          /\ failures' \in [Getters -> Nat] /\ failures'[e] = failures[e] + 1
          /\ creation[e] = "ready"
          /\ \A f \in Getters : f # e => /\ saver'[f] = saver[f] /\ closeOp'[f] = closeOp[f]
                                         /\ failures'[f] = failures[f]
      BY <1>0, <1>5 DEF SaverStuck, shutdown, AfterFailure, Entry
    <2>2. TypeOK'
      BY <2>1 DEF IInv, TypeOK
    <2>3. EntriesInv'
      <3>1. Entry(e)' /\ Waiting(e)'
        BY <1>0, <2>1 DEF Entry, Waiting, Registered
      <3>2. ASSUME NEW f \in Getters, f # e PROVE Entry(f)' /\ Waiting(f)'
        BY <1>0, <2>1, <3>2 DEF Entry, Waiting, Registered
      <3>3. QED
        BY <3>1, <3>2 DEF EntriesInv
    <2>4. SaverIsOwned' /\ QuietWhileFlushing' /\ IsFiniteSet(DOMAIN alls')
      BY <2>1 DEF IInv, SaverIsOwned, ShutdownInv, QuietWhileFlushing, Registered
    <2>5. ASSUME closeAllOp' = "closing", NEW f \in Getters, Registered(f)'
          PROVE  \E op \in targets' : op.entry = f /\ op.number <= failures'[f] + 1
      <3>1. PICK op \in targets : op.entry = f /\ op.number <= failures[f] + 1
        BY <2>1, <2>5 DEF IInv, ShutdownInv, Registered
      <3>2. op.number \in Nat /\ failures[f] \in Nat
        BY <1>0, <3>1 DEF IInv, TypeOK, Ops
      <3>3. op.number <= failures'[f] + 1
        BY <2>1, <3>1, <3>2
      <3>4. QED
        BY <2>1, <3>1, <3>3
    <2>6. QED
      BY <2>2, <2>3, <2>4, <2>5 DEF IInv, ShutdownInv
  <1>6. QED
    BY <1>1, <1>3, <1>4, <1>5 DEF EntryStep

\* The end of closeAll: no entry it waited for is left unless a close has failed.
LEMMA AllKeeps ==
  ASSUME ManagerAssumption, IInv, AllStep
  PROVE  IInv'
  <1>0. UNCHANGED <<entries, creation, saver, closeOp, failures, pc, waitsFor>>
    BY DEF AllStep, AllClosed, AllFails, Flushed, registry
  <1>1. EntriesInv' /\ SaverIsOwned'
    BY <1>0 DEF IInv, EntriesInv, Entry, Waiting, SaverIsOwned, Registered
  <1>2. CASE AllClosed
    <2>1. closeAllOp' = "flushing" /\ UNCHANGED <<targets, alls>>
      BY <1>2 DEF AllClosed
    <2>2. ASSUME NEW e \in Getters PROVE creation[e] # "pending" /\ saver[e] # "open"
      <3>1. CASE Registered(e)
        <4>1. PICK op \in targets : op.entry = e /\ op.number <= failures[e] + 1
          BY <1>2, <3>1 DEF AllClosed, IInv, ShutdownInv
        <4>2. Resolved(op) /\ e # None
          BY <1>2, <4>1 DEF AllClosed, AllSettled, ManagerAssumption
        <4>3. closeOp[e] = "done"
          BY <4>1, <4>2 DEF Resolved
        <4>4. QED
          BY <4>3 DEF IInv, EntriesInv, Entry
      <3>2. CASE ~Registered(e)
        BY <3>2 DEF IInv, SaverIsOwned
      <3>3. QED
        BY <3>1, <3>2
    <2>3. ShutdownInv'
      BY <1>0, <2>1, <2>2 DEF ShutdownInv, QuietWhileFlushing
    <2>4. TypeOK' /\ IsFiniteSet(DOMAIN alls')
      BY <1>0, <2>1 DEF IInv, TypeOK
    <2>5. QED
      BY <1>1, <2>3, <2>4 DEF IInv
  <1>3. ASSUME NEW ok \in BOOLEAN, AllOver(ok) PROVE IInv'
    <2>1. /\ closeAllOp' = "null" /\ targets' = {}
          /\ DOMAIN alls' = DOMAIN alls \union {AllOp.number}
          /\ \A n \in DOMAIN alls' : alls'[n] = IF n \in DOMAIN alls THEN alls[n] ELSE ok
      BY <1>3 DEF AllOver
    <2>2. AllOp.number \in Nat /\ IsFiniteSet(DOMAIN alls')
      BY <2>1, AllOpType
    <2>3. TypeOK'
      BY <1>0, <2>1, <2>2 DEF IInv, TypeOK
    <2>4. ShutdownInv'
      BY <2>1 DEF ShutdownInv, QuietWhileFlushing
    <2>5. QED
      BY <1>1, <2>2, <2>3, <2>4 DEF IInv
  <1>4. QED
    BY <1>2, <1>3 DEF AllStep, AllFails, Flushed

-----------------------------------------------------------------------------
\* The invariant of the registry holds in every state that can be reached.
THEOREM Inductive == Spec => []IInv
  <1>1. ASSUME Init PROVE IInv
    <2>1. TypeOK
      BY <1>1 DEF Init, TypeOK, NoOp, Op, Ops
    <2>2. IsFiniteSet(DOMAIN alls)
      BY <1>1, FS_EmptySet DEF Init
    <2>3. EntriesInv /\ SaverIsOwned
      BY <1>1, ManagerAssumption DEF Init, EntriesInv, Entry, Waiting, SaverIsOwned, Registered, ManagerAssumption,
          Calls
    <2>4. ShutdownInv
      BY <1>1 DEF Init, ShutdownInv, QuietWhileFlushing
    <2>5. QED
      BY <2>1, <2>2, <2>3, <2>4 DEF IInv
  <1>2. ASSUME IInv, [Next]_vars PROVE IInv'
    <2>1. CASE UNCHANGED vars
      <3>1. UNCHANGED <<entries, creation, saver, closeOp, failures, closeAllOp, targets, alls,
                        pc, waitsFor>>
        BY <2>1 DEF vars, registry, shutdown
      <3>2. QED
        BY <1>2, <3>1 DEF IInv, TypeOK, EntriesInv, Entry, Waiting, SaverIsOwned, ShutdownInv,
            QuietWhileFlushing, Registered
    <2>2. ASSUME NEW g \in Getters, Get(g) PROVE IInv'
      BY <1>2, <2>2, ManagerAssumption, SeekKeeps DEF Get
    <2>3. ASSUME NEW g \in Getters, SeekAgain(g) PROVE IInv'
      BY <1>2, <2>3, ManagerAssumption, SeekKeeps DEF SeekAgain
    <2>4. ASSUME NEW g \in Getters, GetFails(g) PROVE IInv'
      BY <1>2, <2>4, ManagerAssumption, GetFailsKeeps
    <2>5. ASSUME NEW g \in Getters, GetCreated(g) PROVE IInv'
      <3> DEFINE e == waitsFor[g].entry
      <3>1. /\ g \in Calls /\ NoOp \in Ops /\ e \in Getters
            /\ UNCHANGED <<registry, shutdown>>
        BY <1>2, <2>5 DEF GetCreated, Calls, NoOp, Op, Ops, IInv, EntriesInv, Waiting
      <3>2. CASE Raced(e)
        <4>1. /\ CurrentOp(e) \in Ops /\ CurrentOp(e).entry \in Getters
              /\ CurrentOp(e).number > 0
          BY <1>2, <3>1, CurrentOpType DEF IInv
        <4>2. Wait(g, "raced", CurrentOp(e))
          BY <2>5, <3>2 DEF GetCreated
        <4>3. QED
          BY <1>2, <3>1, <4>1, <4>2, ManagerAssumption, CallKeeps
      <3>3. CASE ~Raced(e)
        BY <1>2, <2>5, <3>1, <3>3, ManagerAssumption, CallKeeps DEF GetCreated, Answer
      <3>4. QED
        BY <3>2, <3>3
    <2>6. ASSUME NEW c \in Calls, CloseReturns(c) PROVE IInv'
      <3>1. NoOp \in Ops /\ c \notin Getters /\ UNCHANGED <<registry, shutdown>>
        BY <2>6 DEF CloseReturns, NoOp, Op, Ops
      <3>2. Wait(c, "returned", NoOp) \/ Wait(c, "rejected", NoOp)
        BY <2>6 DEF CloseReturns, Answer
      <3>3. QED
        BY <1>2, <3>1, <3>2, ManagerAssumption, CallKeeps
    <2>7. QED
      BY <1>2, <2>1, <2>2, <2>3, <2>4, <2>5, <2>6, ManagerAssumption,
         EntryKeeps, CloseKeeps, CloseAllKeeps, AllKeeps
      DEF Next, GetStep
  <1>3. QED
    BY <1>1, <1>2, PTL DEF Spec

\* No two savers serve one thread, and none is forgotten before it was closed.
THEOREM OneSaverPerThread == Spec => []SaverIsOwned
  BY Inductive, PTL DEF IInv

\* The projections are flushed when no saver is left to feed them.
THEOREM FlushedWhenQuiet == Spec => []QuietWhileFlushing
  BY Inductive, PTL DEF IInv, ShutdownInv

\* One saver serves a thread at a time (get, close), and none is left when closeAll flushes.
THEOREM SaverIsAlone == Spec => []OneSaver
  BY Inductive, OneSaverPerThread, FlushedWhenQuiet, PTL DEF IInv, OneSaver

\* What a get hands out is its thread's saver, and no close of it has begun.
THEOREM HandedOutIsOpen == Spec => HandedOutOpen
  <1>1. ASSUME IInv, [Next]_vars, NEW g \in Getters,
               pc[g] # "returned", pc'[g] = "returned"
        PROVE  LET e == waitsFor[g].entry IN
               saver[e] = "stuck" \/ (saver[e] = "open" /\ closeOp[e] = "null" /\ Registered(e))
    <2> DEFINE e == waitsFor[g].entry
    <2>1. pc \in [Calls -> {"idle", "all", "closed", "creation", "raced", "returned", "rejected"}]
          /\ g \in Calls /\ g \notin Closers /\ g \notin AllClosers
      BY <1>1, ManagerAssumption DEF IInv, TypeOK, Calls, ManagerAssumption
    <2>2. GetCreated(g) /\ ~Raced(e)
      BY <1>1, <2>1 DEF Next, GetStep, Get, SeekAgain, Seek, GetFails, GetCreated, EntryStep,
          Created, CloserCreated, SaverClosed, SaverStuck, Close, CloseAll, CloseReturns,
          AllStep, AllClosed, AllFails, Flushed, Answer, Wait, vars
    <2>3. e \in Getters /\ creation[e] = "ready" /\ closeOp[e] = "null"
      BY <1>1, <2>2 DEF GetCreated, Raced, IInv, EntriesInv, Waiting
    <2>4. saver[e] \in {"open", "stuck"}
      BY <1>1, <2>3 DEF IInv, EntriesInv, Entry, TypeOK
    <2>5. QED
      BY <1>1, <2>3, <2>4 DEF IInv, SaverIsOwned
  <1>2. IInv /\ [Next]_vars =>
          [\A g \in Getters : pc[g] # "returned" /\ pc'[g] = "returned" =>
             LET e == waitsFor[g].entry IN
             saver[e] = "stuck" \/ (saver[e] = "open" /\ closeOp[e] = "null" /\ Registered(e))]_vars
    BY <1>1
  <1>3. QED
    BY <1>2, Inductive, PTL DEF Spec, HandedOutOpen

-----------------------------------------------------------------------------
(* The projection queue *)

\* Nothing that is owed to a flush is forgotten: it is in one of the sets.
OwedIsOutstanding == \A f \in Flushers : owed[f] \subseteq Outstanding

QueueInv ==
    /\ QueueTypeOK
    /\ NothingForgotten
    /\ FlushIsAhead
    /\ OneDrain
    /\ OwedIsOutstanding

LEMMA QueueInitially == QueueInit => QueueInv
BY DEF QueueInit, QueueInv, QueueTypeOK, NothingForgotten, FlushIsAhead, OneDrain,
       OwedIsOutstanding

\* What a step of the queue does not let go of stays owed.
LEMMA OwedStays ==
    ASSUME QueueTypeOK, OwedIsOutstanding, UNCHANGED owed,
           Outstanding \subseteq Outstanding'
    PROVE  OwedIsOutstanding'
BY DEF OwedIsOutstanding

LEMMA TypeStep ==
    ASSUME QueueTypeOK, [QueueNext]_queueVars
    PROVE  QueueTypeOK'
<1> USE DEF QueueTypeOK
<1>1. ASSUME NEW k \in Keys, Enqueue(k) \/ MarkDirty(k) PROVE QueueTypeOK'
  BY <1>1 DEF Enqueue, MarkDirty, Schedule
<1>2. ASSUME NEW k \in Keys, JobStarts(k) PROVE QueueTypeOK'
  BY <1>2 DEF JobStarts
<1>3. ASSUME NEW k \in Keys, JobEnds(k) PROVE QueueTypeOK'
  BY <1>3 DEF JobEnds, EndsAsking, Schedule, Settle
<1>4. CASE TimerFires
  BY <1>4 DEF TimerFires
<1>5. CASE DrainBegins
  BY <1>5 DEF DrainBegins
<1>6. CASE DrainEnds
  BY <1>6 DEF DrainEnds
<1>7. ASSUME NEW f \in Flushers, FlushCalled(f) PROVE QueueTypeOK'
  <2>1. /\ flusher' = [flusher EXCEPT ![f] = "looking"]
        /\ owed' = [owed EXCEPT ![f] = Outstanding']
        /\ dirty' = dirty /\ scheduled' = scheduled /\ timer' = timer
        /\ UNCHANGED <<batch, busy, drain, flushRequested>>
    BY <1>7 DEF FlushCalled, FlushAfter, Schedule
  <2>2. Outstanding' \subseteq Keys
    BY <2>1 DEF Outstanding
  <2> QED
    BY <2>1, <2>2
<1>8. ASSUME NEW f \in Flushers, FlushReturns(f) \/ FlushDrains(f) PROVE QueueTypeOK'
  BY <1>8 DEF FlushReturns, FlushDrains
<1>9. CASE UNCHANGED queueVars
  BY <1>9 DEF queueVars
<1> QED
  BY <1>1, <1>2, <1>3, <1>4, <1>5, <1>6, <1>7, <1>8, <1>9 DEF QueueNext, Work, Request

\* The timer and the drain: none is lost, and they are never there together.
LEMMA DrainStep ==
    ASSUME QueueInv, [QueueNext]_queueVars
    PROVE  (NothingForgotten /\ FlushIsAhead /\ OneDrain)'
<1> USE DEF QueueInv, QueueTypeOK, NothingForgotten, FlushIsAhead, OneDrain
<1> DEFINE Goal == (NothingForgotten /\ FlushIsAhead /\ OneDrain)'
<1>1. ASSUME NEW k \in Keys, Enqueue(k) PROVE Goal
  <2>1. /\ UNCHANGED <<batch, busy, drain, flushRequested>>
        /\ timer' = (timer \/ ({k} # {} /\ drain = "none"))
    BY <1>1 DEF Enqueue, Schedule
  <2>2. timer' <=> (timer \/ drain = "none")
    BY <2>1
  <2> QED
    BY <2>1, <2>2
<1>11. ASSUME NEW k \in Keys, MarkDirty(k) PROVE Goal
  BY <1>11 DEF MarkDirty
<1>2. ASSUME NEW k \in Keys, JobStarts(k) PROVE Goal
  BY <1>2 DEF JobStarts
<1>3. ASSUME NEW k \in Keys, JobEnds(k) PROVE Goal
  BY <1>3 DEF JobEnds, EndsAsking, Schedule
<1>4. CASE TimerFires
  BY <1>4 DEF TimerFires
<1>5. CASE DrainBegins
  BY <1>5 DEF DrainBegins
<1>6. CASE DrainEnds
  BY <1>6 DEF DrainEnds
<1>7. ASSUME NEW f \in Flushers, FlushCalled(f) PROVE Goal
  BY <1>7 DEF FlushCalled, FlushAfter, Schedule
<1>8. ASSUME NEW f \in Flushers, FlushReturns(f) PROVE Goal
  BY <1>8 DEF FlushReturns
<1>9. ASSUME NEW f \in Flushers, FlushDrains(f) PROVE Goal
  BY <1>9 DEF FlushDrains, NothingToFlush
<1>10. CASE UNCHANGED queueVars
  BY <1>10 DEF queueVars
<1> QED
  BY <1>1, <1>2, <1>3, <1>4, <1>5, <1>6, <1>7, <1>8, <1>9, <1>10, <1>11
     DEF QueueNext, Work, Request

LEMMA OwedStep ==
    ASSUME QueueInv, [QueueNext]_queueVars
    PROVE  OwedIsOutstanding'
<1> USE DEF QueueInv
<1>1. ASSUME NEW k \in Keys, Enqueue(k) \/ MarkDirty(k) PROVE OwedIsOutstanding'
  BY <1>1, OwedStays DEF Enqueue, MarkDirty, Schedule, Outstanding
<1>2. ASSUME NEW k \in Keys, JobStarts(k) PROVE OwedIsOutstanding'
  BY <1>2, OwedStays DEF JobStarts, Outstanding
<1>3. ASSUME NEW k \in Keys, JobEnds(k) PROVE OwedIsOutstanding'
  <2>1. owed' = [f \in Flushers |-> owed[f] \cap Outstanding']
    BY <1>3 DEF JobEnds, EndsAsking, Settle
  <2> QED
    BY <2>1 DEF OwedIsOutstanding
<1>4. CASE TimerFires
  BY <1>4, OwedStays DEF TimerFires, Outstanding
<1>5. CASE DrainBegins
  \* A drain that is queued has nothing before it: the batch is empty.
  <2>1. batch = {} /\ busy = {}
    BY <1>5 DEF DrainBegins, OneDrain
  <2>2. Outstanding \subseteq Outstanding'
    BY <1>5, <2>1 DEF DrainBegins, Outstanding
  <2> QED
    BY <1>5, <2>2, OwedStays DEF DrainBegins
<1>6. CASE DrainEnds
  BY <1>6, OwedStays DEF DrainEnds, Outstanding
<1>7. ASSUME NEW f \in Flushers, FlushCalled(f) PROVE OwedIsOutstanding'
  <2>1. /\ owed' = [owed EXCEPT ![f] = Outstanding']
        /\ dirty' = dirty /\ scheduled' = scheduled
        /\ UNCHANGED <<batch, busy>>
    BY <1>7 DEF FlushCalled, FlushAfter, Schedule
  <2>2. Outstanding' = Outstanding
    BY <2>1 DEF Outstanding
  <2> QED
    BY <2>1, <2>2 DEF OwedIsOutstanding, QueueTypeOK
<1>8. ASSUME NEW f \in Flushers, FlushReturns(f) \/ FlushDrains(f)
      PROVE OwedIsOutstanding'
  BY <1>8, OwedStays DEF FlushReturns, FlushDrains, Outstanding
<1>9. CASE UNCHANGED queueVars
  BY <1>9, OwedStays DEF queueVars, Outstanding
<1> QED
  BY <1>1, <1>2, <1>3, <1>4, <1>5, <1>6, <1>7, <1>8, <1>9 DEF QueueNext, Work, Request

\* The invariant of the queue: among it, that a job that is scheduled has a
\* timer or a drain ahead of it, and that a flush is ahead of its drain.
THEOREM QueueInvariant == QueueSpec => []QueueInv
<1>1. ASSUME QueueInv, [QueueNext]_queueVars PROVE QueueInv'
  BY <1>1, TypeStep, DrainStep, OwedStep DEF QueueInv
<1> QED
  BY QueueInitially, <1>1, PTL DEF QueueSpec

\* Type correctness (projection-queue.ts, ProjectionQueueState).
THEOREM QueueTypeCorrect == QueueSpec => []QueueTypeOK
BY QueueInvariant, PTL DEF QueueInv

\* scheduleDrain and queueDrain forget nothing that is scheduled.
THEOREM NothingIsForgotten == QueueSpec => []NothingForgotten
BY QueueInvariant, PTL DEF QueueInv

\* One drain at a time, and no timer beside it.
THEOREM OneDrainAtATime == QueueSpec => []OneDrain
BY QueueInvariant, PTL DEF QueueInv

\* drainPending never swallows a request to flush.
THEOREM FlushStaysAhead == QueueSpec => []FlushIsAhead
BY QueueInvariant, PTL DEF QueueInv

\* The queue is sound: one drain at a time, ahead of all that waits (projection-queue.ts).
THEOREM QueueIsSound == QueueSpec => []QueueSound
BY QueueTypeCorrect, NothingIsForgotten, OneDrainAtATime, FlushStaysAhead, PTL
   DEF QueueSound

\* flush returns only when all that was outstanding at its call has been done.
THEOREM FlushIsComplete == QueueSpec => FlushLeavesNothing
<1>1. ASSUME QueueInv, NEW f \in Flushers, FlushReturns(f) PROVE owed[f] = {}
  <2>1. dirty = {} /\ scheduled = {} /\ drain = "none"
    BY <1>1 DEF FlushReturns, NothingToFlush
  <2>2. batch = {} /\ busy = {}
    BY <1>1, <2>1 DEF QueueInv, OneDrain
  <2> QED
    BY <1>1, <2>1, <2>2 DEF QueueInv, OwedIsOutstanding, Outstanding
<1>2. QueueInv => [\A f \in Flushers : FlushReturns(f) => owed[f] = {}]_queueVars
  BY <1>1
<1> QED
  BY QueueInvariant, <1>2, PTL DEF FlushLeavesNothing
=============================================================================
