----------------------- MODULE RunPersistence_proofs -----------------------
(***************************************************************************)
(* Proofs about RunPersistence, for any threads, runs and requests.         *)
(***************************************************************************)
EXTENDS RunPersistence, FiniteSetTheorems, TLAPS

-----------------------------------------------------------------------------
(* The inductive invariant.                                                *)

\* Only a run that was begun writes checkpoints, and only a begun run has events.
BegunFirst ==
  /\ \A r \in streamed : runs[r] # "absent"
  /\ \A r \in Runs : runs[r] = "absent" => events[r] = <<>>

\* The interrupt of a checkpoint is one of its run, and was asked for.
CheckpointAsked ==
  \A r \in Runs : checkpoint[r] # None =>
    RunOf[checkpoint[r]] = r /\ requests[checkpoint[r]] # "absent"

OnePending ==
  \A q1, q2 \in Requests :
    RunOf[q1] = RunOf[q2] /\ requests[q1] = "pending" /\ requests[q2] = "pending" => q1 = q2

RunningIsOpen == \A r \in Runs : runs[r] = "running" => ~IsDurableTerminal(r)

\* A resume decides about the run whose lease it holds, on a thread that is open.
DecidingHasLease ==
  \A t \in Threads : deciding[t] # None =>
    /\ driver[t] = RunOf[deciding[t]] /\ ThreadOf[RunOf[deciding[t]]] = t
    /\ t \notin recovery /\ app = "up"

\* A thread that is driven is driven for one of its own runs.
DrivesOwnRun == \A t \in Threads : driver[t] # None => ThreadOf[driver[t]] = t

\* ApprovalIffResumable, request by request.
PendingIsOpen ==
  \A q \in Requests : requests[q] = "pending" =>
    /\ runs[RunOf[q]] \in {"running", "interrupted"}
    /\ ~IsDurableTerminal(RunOf[q])
InterruptedIsAsked ==
  \A r \in Runs : runs[r] = "interrupted" /\ ~IsDurableTerminal(r) =>
    \E q \in Requests : RunOf[q] = r /\ requests[q] = "pending"

Records == BegunFirst /\ CheckpointAsked /\ OnePending /\ RunningIsOpen
             /\ PendingIsOpen /\ InterruptedIsAsked
Leases == DecidingHasLease /\ DrivesOwnRun /\ RunningIsOwned
IInv == TypeOK /\ Records /\ Leases

-----------------------------------------------------------------------------
(* What the helpers of the actions do.                                     *)

USE DEF Statuses, RequestStatuses, Decisions

LEMMA Appended ==
  ASSUME NEW story \in Seq(EventKinds), NEW kind \in EventKinds
  PROVE  /\ Append(story, kind) \in Seq(EventKinds)
         /\ Append(story, kind) # <<>>
         /\ (\E i \in DOMAIN Append(story, kind) : Append(story, kind)[i] \in Terminals)
              <=> (\E i \in DOMAIN story : story[i] \in Terminals) \/ kind \in Terminals
  <1> DEFINE longer == Append(story, kind)
  <1>1. /\ longer \in Seq(EventKinds) /\ Len(story) \in Nat /\ Len(longer) = Len(story) + 1
        /\ DOMAIN longer = 1..Len(longer) /\ DOMAIN story = 1..Len(story)
    OBVIOUS
  <1>2. longer[Len(story) + 1] = kind /\ \A i \in 1..Len(story) : longer[i] = story[i]
    OBVIOUS
  <1>3. DOMAIN longer = DOMAIN story \union {Len(story) + 1}
    BY <1>1
  <1>4. longer # <<>>
    BY <1>1
  <1> HIDE DEF longer
  <1>5. (\E i \in DOMAIN longer : longer[i] \in Terminals)
          <=> (\E i \in DOMAIN story : story[i] \in Terminals) \/ kind \in Terminals
    BY <1>1, <1>2, <1>3
  <1>6. QED
    BY <1>1, <1>4, <1>5 DEF longer

\* An event is added to one run, which has an outcome from then on if it is one.
LEMMA Recorded ==
  ASSUME events \in [Runs -> Seq(EventKinds)], NEW r \in Runs, NEW kind \in EventKinds,
         Record(r, kind)
  PROVE  /\ events' \in [Runs -> Seq(EventKinds)]
         /\ events'[r] # <<>>
         /\ \A s \in Runs : s # r => events'[s] = events[s]
         /\ \A s \in Runs :
              IsDurableTerminal(s)' <=> IsDurableTerminal(s) \/ (s = r /\ kind \in Terminals)
  <1>1. events' = [events EXCEPT ![r] = Append(events[r], kind)]
    BY DEF Record
  <1>2. events[r] \in Seq(EventKinds)
    OBVIOUS
  <1>3. events'[r] = Append(events[r], kind) /\ \A s \in Runs : s # r => events'[s] = events[s]
    BY <1>1
  <1>4. events' \in [Runs -> Seq(EventKinds)]
    BY <1>1, <1>2, Appended
  <1>5. IsDurableTerminal(r)' <=> IsDurableTerminal(r) \/ kind \in Terminals
    BY <1>2, <1>3, Appended DEF IsDurableTerminal
  <1>6. \A s \in Runs : s # r => (IsDurableTerminal(s)' <=> IsDurableTerminal(s))
    BY <1>3 DEF IsDurableTerminal
  <1>7. QED
    BY <1>2, <1>3, <1>4, <1>5, <1>6, Appended

LEMMA PendingOf ==
  ASSUME NEW r
  PROVE  /\ \A q : q \in Pending(r) <=> q \in Requests /\ RunOf[q] = r /\ requests[q] = "pending"
         /\ Pending(r) = {} <=> \A q \in Requests : RunOf[q] = r => requests[q] # "pending"
  BY DEF Pending

\* Cancelling leaves no approval of the run open and touches nothing else.
LEMMA Cancelled ==
  ASSUME requests \in [Requests -> RequestStatuses], NEW r, CancelPending(r)
  PROVE  /\ requests' \in [Requests -> RequestStatuses]
         /\ \A q \in Requests :
              requests'[q] = IF RunOf[q] = r /\ requests[q] = "pending" THEN "cancelled"
                                                                      ELSE requests[q]
  BY PendingOf DEF CancelPending

\* The property of the runs, and the two halves of it that are inductive.
LEMMA ApprovalParts ==
  ASSUME PersistenceAssumption
  PROVE  PendingIsOpen /\ InterruptedIsAsked <=> ApprovalIffResumable
  <1>1. PendingIsOpen /\ InterruptedIsAsked => ApprovalIffResumable
    BY PendingOf DEF PendingIsOpen, InterruptedIsAsked, ApprovalIffResumable
  <1>2. ApprovalIffResumable => PendingIsOpen /\ InterruptedIsAsked
    BY PendingOf DEF PendingIsOpen, InterruptedIsAsked, ApprovalIffResumable, PersistenceAssumption
  <1>3. QED
    BY <1>1, <1>2

-----------------------------------------------------------------------------
(* The shapes of a step.                                                   *)

\* A step that moves one run: it gets a status and an event, and may close some of its
\* approvals.
Moves(r, status, kind) ==
  /\ runs' = [runs EXCEPT ![r] = status] /\ Record(r, kind)
  /\ UNCHANGED checkpoint /\ streamed' \subseteq streamed \union {r}
  /\ requests' \in [Requests -> RequestStatuses]
  /\ \A q \in Requests :
       \/ requests'[q] = requests[q]
       \/ /\ RunOf[q] = r /\ requests[q] = "pending"
          /\ requests'[q] \notin {"pending", "absent"}
  /\ status = "running" => kind \notin Terminals /\ ~IsDurableTerminal(r)
  /\ \A q \in Requests : RunOf[q] = r /\ requests'[q] = "pending" =>
       status \in {"running", "interrupted"} /\ kind \notin Terminals
  /\ status = "interrupted" /\ kind \notin Terminals =>
       \E q \in Requests : RunOf[q] = r /\ requests'[q] = "pending"

LEMMA RunMoves ==
  ASSUME PersistenceAssumption, TypeOK, Records,
         NEW r \in Runs, NEW status \in Statuses \ {"absent"}, NEW kind \in EventKinds,
         Moves(r, status, kind)
  PROVE  Records' /\ runs' \in [Runs -> Statuses] /\ events' \in [Runs -> Seq(EventKinds)]
  <1> USE DEF Moves
  <1>1. /\ runs \in [Runs -> Statuses] /\ events \in [Runs -> Seq(EventKinds)]
        /\ requests \in [Requests -> RequestStatuses]
        /\ checkpoint \in [Runs -> Requests \union {None}] /\ streamed \subseteq Runs
        /\ RunOf \in [Requests -> Runs]
    BY DEF TypeOK, PersistenceAssumption
  <1>2. /\ events' \in [Runs -> Seq(EventKinds)] /\ events'[r] # <<>>
        /\ \A s \in Runs : s # r => events'[s] = events[s]
        /\ \A s \in Runs :
             IsDurableTerminal(s)' <=> IsDurableTerminal(s) \/ (s = r /\ kind \in Terminals)
    BY <1>1, Recorded
  <1>3. \A s \in Runs : runs'[s] = IF s = r THEN status ELSE runs[s]
    BY <1>1
  <1>4. BegunFirst'
    BY <1>1, <1>2, <1>3 DEF Records, BegunFirst
  <1>5. CheckpointAsked'
    BY <1>1 DEF Records, CheckpointAsked
  <1>6. OnePending'
    BY <1>1 DEF Records, OnePending
  <1>7. RunningIsOpen'
    BY <1>2, <1>3 DEF Records, RunningIsOpen
  <1>8. PendingIsOpen'
    <2>1. \A q \in Requests : requests'[q] = "pending" => requests[q] = "pending"
      OBVIOUS
    <2>2. QED
      BY <1>1, <1>2, <1>3, <2>1 DEF Records, PendingIsOpen
  <1>9. InterruptedIsAsked'
    <2>1. \A q \in Requests : RunOf[q] # r => requests'[q] = requests[q]
      OBVIOUS
    <2>2. QED
      BY <1>1, <1>2, <1>3, <2>1 DEF Records, InterruptedIsAsked
  <1>10. QED
    BY <1>1, <1>2, <1>4, <1>5, <1>6, <1>7, <1>8, <1>9 DEF Records

\* A step that leaves runs, events and approvals as they are.
LEMMA RecordsKept ==
  ASSUME TypeOK, Records, UNCHANGED <<runs, events, requests>>, streamed' \subseteq streamed,
         \A r \in Runs : checkpoint'[r] \in {checkpoint[r], None}
  PROVE  Records'
  <1>1. \A r \in Runs : IsDurableTerminal(r)' <=> IsDurableTerminal(r)
    BY DEF IsDurableTerminal
  <1>2. BegunFirst' /\ CheckpointAsked' /\ OnePending'
    BY DEF Records, BegunFirst, CheckpointAsked, OnePending
  <1>3. RunningIsOpen' /\ PendingIsOpen' /\ InterruptedIsAsked'
    <2>1. RunningIsOpen'
      BY <1>1 DEF Records, RunningIsOpen
    <2>2. PendingIsOpen'
      BY <1>1 DEF Records, PendingIsOpen, IsDurableTerminal
    <2>3. InterruptedIsAsked'
      BY <1>1 DEF Records, InterruptedIsAsked
    <2>4. QED
      BY <2>1, <2>2, <2>3
  <1>4. QED
    BY <1>2, <1>3 DEF Records

\* A step that gives a run's lease back: the run is no longer running, or its thread is closed.
LEMMA LeaseReturned ==
  ASSUME PersistenceAssumption, TypeOK, Leases, NEW r \in Runs,
         driver[ThreadOf[r]] = r, Release(ThreadOf[r]), UNCHANGED app,
         recovery' \in {recovery, recovery \union {ThreadOf[r]}}, \A s \in Runs : s # r => runs'[s] = runs[s],
         app = "up" /\ runs'[r] = "running" => ThreadOf[r] \in recovery'
  PROVE  /\ Leases'
         /\ driver' \in [Threads -> Runs \union {None}]
         /\ deciding' \in [Threads -> Requests \union {None}]
  <1> DEFINE t == ThreadOf[r]
  <1>1. /\ driver \in [Threads -> Runs \union {None}]
        /\ deciding \in [Threads -> Requests \union {None}]
        /\ t \in Threads /\ None \notin Runs \union Requests
        /\ ThreadOf \in [Runs -> Threads]
    BY DEF TypeOK, PersistenceAssumption
  <1>2. /\ driver' = [driver EXCEPT ![t] = None]
        /\ deciding' = [deciding EXCEPT ![t] = None]
    BY DEF Release
  <1>3. DecidingHasLease' /\ DrivesOwnRun'
    BY <1>1, <1>2 DEF Leases, DecidingHasLease, DrivesOwnRun
  <1>4. ASSUME app = "up", NEW s \in Runs, runs'[s] = "running"
        PROVE  Drives(s)' \/ ThreadOf[s] \in recovery'
    <2>1. CASE s = r
      BY <1>4, <2>1
    <2>2. CASE s # r
      <3>1. Drives(s) \/ ThreadOf[s] \in recovery
        BY <1>4, <2>2 DEF Leases, RunningIsOwned
      <3>2. Drives(s) => ThreadOf[s] # t
        BY <2>2 DEF Drives
      <3>3. QED
        BY <1>1, <1>2, <3>1, <3>2 DEF Drives
    <2>3. QED
      BY <2>1, <2>2
  <1>5. QED
    BY <1>1, <1>2, <1>3, <1>4 DEF Leases, RunningIsOwned

-----------------------------------------------------------------------------
(* Every action keeps the invariant.                                       *)

\* What TypeOK and the assumption say, for use in the steps below.
Typed ==
  /\ runs \in [Runs -> Statuses] /\ events \in [Runs -> Seq(EventKinds)]
  /\ requests \in [Requests -> RequestStatuses]
  /\ threads \in [Threads -> {"idle", "busy", "interrupted", "error"}]
  /\ driver \in [Threads -> Runs \union {None}]
  /\ deciding \in [Threads -> Requests \union {None}]
  /\ streamed \subseteq Runs /\ recovery \subseteq Threads
  /\ ThreadOf \in [Runs -> Threads] /\ RunOf \in [Requests -> Runs]
  /\ None \notin Runs \union Requests

LEMMA TypedFacts == PersistenceAssumption /\ TypeOK => Typed
  BY DEF TypeOK, Typed, PersistenceAssumption

LEMMA BeginRunKeeps ==
  ASSUME PersistenceAssumption, IInv, NEW r \in Runs, BeginRun(r)
  PROVE  IInv'
  <1>1. Typed /\ TypeOK /\ Records /\ Leases
    BY TypedFacts DEF IInv
  <1>2. /\ runs[r] = "absent" /\ runs' = [runs EXCEPT ![r] = "running"]
        /\ Record(r, "started") /\ UNCHANGED <<requests, checkpoint, recovery, deciding, app>>
        /\ driver' = [driver EXCEPT ![ThreadOf[r]] = r] /\ streamed' = streamed \union {r}
        /\ threads' = [threads EXCEPT ![ThreadOf[r]] = "busy"]
        /\ app = "up" /\ driver[ThreadOf[r]] = None /\ ThreadOf[r] \notin recovery
    BY DEF BeginRun, Free
  <1>3. /\ ~IsDurableTerminal(r)
        /\ \A q \in Requests : RunOf[q] = r => requests[q] # "pending"
    BY <1>1, <1>2 DEF Typed, Records, BegunFirst, PendingIsOpen, IsDurableTerminal
  <1>4. /\ Records' /\ runs' \in [Runs -> Statuses] /\ events' \in [Runs -> Seq(EventKinds)]
    <2>1. "started" \in EventKinds /\ "started" \notin Terminals
      BY DEF EventKinds, Terminals
    <2>2. requests' \in [Requests -> RequestStatuses] /\ UNCHANGED checkpoint
      BY <1>1, <1>2 DEF Typed
    <2>3. \A q \in Requests : requests'[q] = requests[q]
      BY <1>2
    <2>4. \A q \in Requests : RunOf[q] = r => requests'[q] # "pending"
      BY <1>2, <1>3
    <2>5. "running" \in Statuses \ {"absent"} /\ "running" # "interrupted"
      OBVIOUS
    <2>6. Moves(r, "running", "started")
      BY <1>1, <1>2, <1>3, <2>1, <2>2, <2>3, <2>4, <2>5 DEF Moves
    <2>7. QED
      BY <1>1, <1>2, <1>3, <2>1, <2>5, <2>6, RunMoves
  <1>5. TypeOK'
    BY <1>1, <1>2, <1>4 DEF TypeOK, Typed
  <1>6. deciding[ThreadOf[r]] = None
    BY <1>1, <1>2 DEF Typed, Leases, DecidingHasLease
  <1>7. DecidingHasLease' /\ DrivesOwnRun'
    BY <1>1, <1>2, <1>6 DEF Typed, Leases, DecidingHasLease, DrivesOwnRun
  <1>8. RunningIsOwned'
    <2>1. ASSUME NEW s \in Runs, runs'[s] = "running"
          PROVE  Drives(s)' \/ ThreadOf[s] \in recovery'
      <3>1. CASE s = r
        BY <1>1, <1>2, <1>6, <3>1 DEF Typed, Drives
      <3>2. CASE s # r
        <4>1. Drives(s) \/ ThreadOf[s] \in recovery
          BY <1>1, <1>2, <2>1, <3>2 DEF Typed, Leases, RunningIsOwned
        <4>2. Drives(s) => ThreadOf[s] # ThreadOf[r]
          BY <1>1, <1>2 DEF Typed, Drives
        <4>3. QED
          BY <1>1, <1>2, <4>1, <4>2 DEF Typed, Drives
      <3>3. QED
        BY <3>1, <3>2
    <2>2. QED
      BY <1>1, <1>2, <2>1 DEF Leases, RunningIsOwned
  <1>9. QED
    BY <1>4, <1>5, <1>7, <1>8 DEF IInv, Leases

\* A checkpoint write changes at most one request, and only to pending.
LEMMA PutInterruptKeeps ==
  ASSUME PersistenceAssumption, IInv, NEW r \in Runs, NEW q \in Requests, PutInterrupt(r, q)
  PROVE  IInv'
  <1>1. Typed /\ TypeOK /\ Records /\ Leases
    BY TypedFacts DEF IInv
  <1>2. /\ r \in streamed /\ RunOf[q] = r
        /\ checkpoint[r] = q \/ (requests[q] = "absent" /\ Pending(r) = {})
        /\ requests[q] = "absent" => ~Rejected(q)
        /\ requests' = IF requests[q] = "absent" THEN [requests EXCEPT ![q] = "pending"]
                                                 ELSE requests
        /\ checkpoint' = [checkpoint EXCEPT ![r] = q]
        /\ UNCHANGED <<runs, events, threads, driver, deciding, streamed, recovery, app>>
    BY DEF PutInterrupt, Interrupts, Upserted, memory
  <1>3. \A s \in Runs : IsDurableTerminal(s)' <=> IsDurableTerminal(s)
    BY <1>2 DEF IsDurableTerminal
  <1>4. requests[q] = "absent" =>
          /\ \A p \in Requests : RunOf[p] = r => requests[p] # "pending"
          /\ ~IsDurableTerminal(r) /\ runs[r] \in {"running", "interrupted"}
    <2>1. runs[r] # "absent"
      BY <1>1, <1>2 DEF Records, BegunFirst
    <2>2. requests[q] = "absent" => Pending(r) = {}
      BY <1>1, <1>2 DEF Typed, Records, CheckpointAsked
    <2>3. QED
      BY <1>1, <1>2, <2>1, <2>2, PendingOf DEF Rejected, Typed
  <1>5. TypeOK'
    BY <1>1, <1>2 DEF TypeOK, Typed
  <1>6. BegunFirst' /\ CheckpointAsked' /\ OnePending' /\ RunningIsOpen'
    <2>1. BegunFirst' /\ RunningIsOpen'
      BY <1>1, <1>2, <1>3 DEF Records, BegunFirst, RunningIsOpen
    <2>2. CheckpointAsked'
      BY <1>1, <1>2 DEF Typed, Records, CheckpointAsked, TypeOK
    <2>3. OnePending'
      BY <1>1, <1>2, <1>4 DEF Typed, Records, OnePending
    <2>4. QED
      BY <2>1, <2>2, <2>3
  <1>7. PendingIsOpen'
    <2>1. \A p \in Requests : requests'[p] = "pending" => p = q \/ requests[p] = "pending"
      BY <1>1, <1>2 DEF Typed
    <2>2. \A p \in Requests : requests'[p] = "pending" =>
            runs[RunOf[p]] \in {"running", "interrupted"} /\ ~IsDurableTerminal(RunOf[p])
      BY <1>1, <1>2, <1>4, <2>1 DEF Typed, Records, PendingIsOpen
    <2>3. QED
      BY <1>1, <1>2, <1>3, <2>2 DEF Typed, PendingIsOpen
  <1>8. InterruptedIsAsked'
    <2>1. \A p \in Requests : requests[p] = "pending" => requests'[p] = "pending"
      BY <1>1, <1>2 DEF Typed
    <2>2. QED
      BY <1>1, <1>2, <1>3, <2>1 DEF Records, InterruptedIsAsked
  <1>9. Leases'
    BY <1>1, <1>2 DEF Leases, DecidingHasLease, DrivesOwnRun, RunningIsOwned, Drives
  <1>10. QED
    BY <1>5, <1>6, <1>7, <1>8, <1>9 DEF IInv, Records

LEMMA PutProgressKeeps ==
  ASSUME PersistenceAssumption, IInv, NEW r \in Runs, PutProgress(r)
  PROVE  IInv'
  <1>1. Typed /\ TypeOK /\ Records /\ Leases
    BY TypedFacts DEF IInv
  <1>2. /\ checkpoint' = [checkpoint EXCEPT ![r] = None]
        /\ UNCHANGED <<runs, events, requests, threads, driver, deciding, streamed, recovery, app>>
    BY DEF PutProgress, memory
  <1>3. TypeOK' /\ \A s \in Runs : checkpoint'[s] \in {checkpoint[s], None}
    BY <1>1, <1>2 DEF TypeOK
  <1>4. Records'
    BY <1>1, <1>2, <1>3, RecordsKept
  <1>5. Leases'
    BY <1>1, <1>2 DEF Leases, DecidingHasLease, DrivesOwnRun, RunningIsOwned, Drives
  <1>6. QED
    BY <1>3, <1>4, <1>5 DEF IInv

\* The outcome of a run commits its status, its event and the end of its lease together.
LEMMA CommitTerminalKeeps ==
  ASSUME PersistenceAssumption, IInv, NEW r \in Runs, NEW kind \in {"paused"} \union Terminals,
         CommitTerminal(r, kind), kind = "paused" => Pending(r) # {}, streamed' \subseteq streamed
  PROVE  IInv'
  <1> DEFINE status == IF kind \in {"paused", "aborted"} THEN "interrupted" ELSE kind
  <1>1. Typed /\ TypeOK /\ Records /\ Leases
    BY TypedFacts DEF IInv
  <1>2. /\ driver[ThreadOf[r]] = r /\ ~IsDurableTerminal(r) /\ runs[r] = "running"
        /\ runs' = [runs EXCEPT ![r] = status] /\ Finished(r, kind) /\ Record(r, kind)
        /\ threads' = [threads EXCEPT ![ThreadOf[r]] =
                         IF status = "interrupted" THEN status ELSE "idle"]
        /\ Release(ThreadOf[r]) /\ UNCHANGED <<checkpoint, recovery, app>>
    BY DEF CommitTerminal, Drives
  <1>3. kind \in EventKinds /\ status \in Statuses \ {"absent", "running"}
    BY DEF EventKinds, Terminals
  <1>4. /\ requests' \in [Requests -> RequestStatuses]
        /\ \A q \in Requests :
             \/ requests'[q] = requests[q]
             \/ /\ RunOf[q] = r /\ requests[q] = "pending"
                /\ requests'[q] \notin {"pending", "absent"}
        /\ kind # "paused" => \A q \in Requests : RunOf[q] = r => requests'[q] # "pending"
        /\ kind = "paused" => UNCHANGED requests
    <2>1. CASE kind = "paused"
      BY <1>1, <1>2, <2>1 DEF Finished, Typed
    <2>2. CASE kind # "paused"
      <3>1. CancelPending(r)
        BY <1>2, <2>2 DEF Finished
      <3>2. /\ requests' \in [Requests -> RequestStatuses]
            /\ \A q \in Requests :
                 requests'[q] = IF RunOf[q] = r /\ requests[q] = "pending" THEN "cancelled"
                                                                         ELSE requests[q]
        BY <1>1, <3>1, Cancelled DEF Typed
      <3>3. QED
        BY <2>2, <3>2
    <2>3. QED
      BY <2>1, <2>2
  <1>5. Records' /\ runs' \in [Runs -> Statuses] /\ events' \in [Runs -> Seq(EventKinds)]
    <2>1. \A q \in Requests : RunOf[q] = r /\ requests'[q] = "pending" =>
            status \in {"running", "interrupted"} /\ kind \notin Terminals
      BY <1>4 DEF Terminals
    <2>2. status = "interrupted" /\ kind \notin Terminals =>
            \E q \in Requests : RunOf[q] = r /\ requests'[q] = "pending"
      BY <1>3, <1>4, PendingOf DEF Terminals
    <2>3. status # "running" /\ status \in Statuses \ {"absent"} /\ UNCHANGED checkpoint
            /\ streamed' \subseteq streamed \union {r} /\ runs' = [runs EXCEPT ![r] = status]
      BY <1>2, <1>3
    <2> HIDE DEF status
    <2>4. Moves(r, status, kind)
      BY <1>1, <1>2, <1>3, <1>4, <2>1, <2>2, <2>3 DEF Moves
    <2>5. QED
      BY <1>1, <1>2, <1>3, <2>3, <2>4, RunMoves
  <1>6. runs'[r] # "running" /\ \A s \in Runs : s # r => runs'[s] = runs[s]
    BY <1>1, <1>2, <1>3 DEF Typed
  <1>7. /\ Leases' /\ driver' \in [Threads -> Runs \union {None}]
        /\ deciding' \in [Threads -> Requests \union {None}]
    BY <1>1, <1>2, <1>6, LeaseReturned
  <1>8. TypeOK'
    BY <1>1, <1>2, <1>4, <1>5, <1>7 DEF TypeOK, Typed
  <1>9. QED
    BY <1>5, <1>7, <1>8 DEF IInv

LEMMA FailKeeps ==
  ASSUME PersistenceAssumption, IInv, NEW r \in Runs, Fail(r)
  PROVE  IInv'
  <1> DEFINE status == FailureStatus(Pending(r))
             kind == FailureEvent(status)
  <1>1. Typed /\ TypeOK /\ Records /\ Leases
    BY TypedFacts DEF IInv
  <1>2. /\ driver[ThreadOf[r]] = r
        /\ runs' = [runs EXCEPT ![r] = status] /\ Record(r, kind)
        /\ threads' = [threads EXCEPT ![ThreadOf[r]] = status]
        /\ Release(ThreadOf[r]) /\ UNCHANGED <<requests, checkpoint, streamed, recovery, app>>
    BY DEF Fail, Drives
  <1>3. /\ \/ status = "error" /\ kind = "error" /\ Pending(r) = {}
           \/ status = "interrupted" /\ kind = "paused" /\ Pending(r) # {}
        /\ kind \in EventKinds
    BY DEF FailureStatus, FailureEvent, EventKinds, Terminals
  <1>4. requests' \in [Requests -> RequestStatuses]
    BY <1>1, <1>2 DEF Typed
  <1> HIDE DEF status, kind
  <1>5. Records' /\ runs' \in [Runs -> Statuses] /\ events' \in [Runs -> Seq(EventKinds)]
    <2>1. "paused" \notin Terminals
      BY DEF Terminals
    <2>2. \A q \in Requests : requests'[q] = requests[q]
      BY <1>2
    <2>3. \A q \in Requests : RunOf[q] = r /\ requests'[q] = "pending" =>
            status \in {"running", "interrupted"} /\ kind \notin Terminals
      BY <1>3, <2>1, <2>2, PendingOf
    <2>4. status = "interrupted" /\ kind \notin Terminals =>
            \E q \in Requests : RunOf[q] = r /\ requests'[q] = "pending"
      BY <1>3, <2>2, PendingOf
    <2>5. status # "running" /\ status \in Statuses \ {"absent"} /\ UNCHANGED checkpoint
            /\ streamed' \subseteq streamed \union {r}
      BY <1>2, <1>3
    <2>6. Moves(r, status, kind)
      BY <1>1, <1>2, <1>3, <1>4, <2>2, <2>3, <2>4, <2>5 DEF Moves
    <2>7. QED
      BY <1>1, <1>2, <1>3, <2>5, <2>6, RunMoves
  <1>6. runs'[r] # "running" /\ \A s \in Runs : s # r => runs'[s] = runs[s]
    BY <1>1, <1>2, <1>3 DEF Typed
  <1>7. /\ Leases' /\ driver' \in [Threads -> Runs \union {None}]
        /\ deciding' \in [Threads -> Requests \union {None}]
    BY <1>1, <1>2, <1>6, LeaseReturned
  <1>8. TypeOK'
    BY <1>1, <1>2, <1>3, <1>4, <1>5, <1>7 DEF TypeOK, Typed
  <1>9. QED
    BY <1>5, <1>7, <1>8 DEF IInv

LEMMA FailTerminallyKeeps ==
  ASSUME PersistenceAssumption, IInv, NEW r \in Runs, FailTerminally(r)
  PROVE  IInv'
  <1>1. Typed /\ TypeOK /\ Records /\ Leases
    BY TypedFacts DEF IInv
  <1>2. /\ driver[ThreadOf[r]] = r /\ CancelPending(r)
        /\ runs' = [runs EXCEPT ![r] = "error"] /\ Record(r, "error")
        /\ threads' = [threads EXCEPT ![ThreadOf[r]] = "error"] /\ streamed' = streamed \ {r}
        /\ Release(ThreadOf[r]) /\ UNCHANGED <<checkpoint, recovery, app>>
    BY DEF FailTerminally, Drives
  <1>3. "error" \in EventKinds /\ "error" \in Statuses \ {"absent", "running", "interrupted"}
    BY DEF EventKinds, Terminals
  <1>4. /\ requests' \in [Requests -> RequestStatuses]
        /\ \A q \in Requests :
             requests'[q] = IF RunOf[q] = r /\ requests[q] = "pending" THEN "cancelled"
                                                                     ELSE requests[q]
    BY <1>1, <1>2, Cancelled DEF Typed
  <1>5. Records' /\ runs' \in [Runs -> Statuses] /\ events' \in [Runs -> Seq(EventKinds)]
    <2>1. \A q \in Requests :
             \/ requests'[q] = requests[q]
             \/ /\ RunOf[q] = r /\ requests[q] = "pending"
                /\ requests'[q] \notin {"pending", "absent"}
      BY <1>4
    <2>2. \A q \in Requests : RunOf[q] = r => requests'[q] # "pending"
      BY <1>4
    <2>3. UNCHANGED checkpoint /\ streamed' \subseteq streamed \union {r}
      BY <1>2
    <2>4. Moves(r, "error", "error")
      BY <1>1, <1>2, <1>3, <1>4, <2>1, <2>2, <2>3 DEF Moves
    <2>5. QED
      BY <1>1, <1>2, <1>3, <2>3, <2>4, RunMoves
  <1>6. runs'[r] # "running" /\ \A s \in Runs : s # r => runs'[s] = runs[s]
    BY <1>1, <1>2, <1>3 DEF Typed
  <1>7. /\ Leases' /\ driver' \in [Threads -> Runs \union {None}]
        /\ deciding' \in [Threads -> Requests \union {None}]
    BY <1>1, <1>2, <1>6, LeaseReturned
  <1>8. TypeOK'
    BY <1>1, <1>2, <1>3, <1>4, <1>5, <1>7 DEF TypeOK, Typed
  <1>9. QED
    BY <1>5, <1>7, <1>8 DEF IInv

LEMMA GiveUpKeeps ==
  ASSUME PersistenceAssumption, IInv, NEW r \in Runs, GiveUp(r)
  PROVE  IInv'
  <1>1. Typed /\ TypeOK /\ Records /\ Leases
    BY TypedFacts DEF IInv
  <1>2. /\ driver[ThreadOf[r]] = r /\ recovery' = recovery \union {ThreadOf[r]}
        /\ Release(ThreadOf[r]) /\ ThreadOf[r] \in Threads
        /\ UNCHANGED <<runs, events, requests, checkpoint, threads, streamed, app>>
    BY <1>1 DEF GiveUp, Drives, Unsaved, tables, Typed
  <1>3. Records'
    BY <1>1, <1>2, RecordsKept DEF Typed
  <1>4. /\ Leases' /\ driver' \in [Threads -> Runs \union {None}]
        /\ deciding' \in [Threads -> Requests \union {None}]
    BY <1>1, <1>2, LeaseReturned
  <1>5. TypeOK'
    BY <1>1, <1>2, <1>4 DEF TypeOK, Typed
  <1>6. QED
    BY <1>3, <1>4, <1>5 DEF IInv

LEMMA ClaimResumeKeeps ==
  ASSUME PersistenceAssumption, IInv, NEW q \in Requests, ClaimResume(q)
  PROVE  IInv'
  <1> DEFINE t == ThreadOf[RunOf[q]]
  <1>1. Typed /\ TypeOK /\ Records /\ Leases
    BY TypedFacts DEF IInv
  <1>2. /\ app = "up" /\ driver[t] = None /\ t \notin recovery /\ t \in Threads
        /\ driver' = [driver EXCEPT ![t] = RunOf[q]] /\ deciding' = [deciding EXCEPT ![t] = q]
        /\ UNCHANGED <<runs, events, requests, checkpoint, threads, streamed, recovery, app>>
    BY <1>1 DEF ClaimResume, Free, tables, Typed
  <1>3. Records' /\ TypeOK'
    BY <1>1, <1>2, RecordsKept DEF Typed, TypeOK
  <1>4. DecidingHasLease' /\ DrivesOwnRun'
    BY <1>1, <1>2 DEF Typed, Leases, DecidingHasLease, DrivesOwnRun
  <1>5. RunningIsOwned'
    <2>1. ASSUME NEW s \in Runs, runs[s] = "running"
          PROVE  Drives(s)' \/ ThreadOf[s] \in recovery'
      <3>1. Drives(s) \/ ThreadOf[s] \in recovery
        BY <1>2, <2>1 DEF Leases, RunningIsOwned, IInv
      <3>2. Drives(s) => ThreadOf[s] # t
        BY <1>1, <1>2 DEF Typed, Drives
      <3>3. QED
        BY <1>1, <1>2, <3>1, <3>2 DEF Typed, Drives
    <2>2. QED
      BY <1>2, <2>1 DEF RunningIsOwned
  <1>6. QED
    BY <1>3, <1>4, <1>5 DEF IInv, Leases

\* A granted approval: the run goes on and no other approval of it is open.
LEMMA CommitResumeKeeps ==
  ASSUME PersistenceAssumption, IInv, NEW q \in Requests, CommitResume(q)
  PROVE  IInv'
  <1> DEFINE r == RunOf[q]
             t == ThreadOf[r]
  <1>1. Typed /\ TypeOK /\ Records /\ Leases
    BY TypedFacts DEF IInv
  <1>2. /\ deciding[t] = q /\ requests[q] = "pending" /\ ~IsDurableTerminal(r)
        /\ \E decision \in {"approved", "corrected"} :
             requests' = [requests EXCEPT ![q] = decision]
        /\ runs' = [runs EXCEPT ![r] = "running"] /\ Record(r, "resumed")
        /\ threads' = [threads EXCEPT ![t] = "busy"]
        /\ deciding' = [deciding EXCEPT ![t] = None] /\ streamed' = streamed \union {r}
        /\ UNCHANGED <<checkpoint, driver, recovery, app>>
    BY DEF CommitResume, Resumable, Granted, Decide
  <1>3. /\ r \in Runs /\ t \in Threads /\ driver[t] = r
        /\ "resumed" \in EventKinds /\ "resumed" \notin Terminals
    BY <1>1, <1>2 DEF Typed, Leases, DecidingHasLease, EventKinds, Terminals
  <1>4. /\ requests' \in [Requests -> RequestStatuses]
        /\ \A p \in Requests :
             \/ requests'[p] = requests[p]
             \/ /\ RunOf[p] = r /\ requests[p] = "pending"
                /\ requests'[p] \notin {"pending", "absent"}
    <2>1. PICK decision \in {"approved", "corrected"} :
            requests' = [requests EXCEPT ![q] = decision]
      BY <1>2
    <2>2. QED
      BY <1>1, <1>2, <2>1 DEF Typed
  <1>5. Records' /\ runs' \in [Runs -> Statuses] /\ events' \in [Runs -> Seq(EventKinds)]
    <2>1. "running" \in Statuses \ {"absent"} /\ UNCHANGED checkpoint
            /\ streamed' \subseteq streamed \union {r}
            /\ runs' = [runs EXCEPT ![r] = "running"] /\ Record(r, "resumed")
            /\ ~IsDurableTerminal(r) /\ "running" # "interrupted"
      BY <1>2
    <2>2. \A p \in Requests : RunOf[p] = r /\ requests'[p] = "pending" =>
            "running" \in {"running", "interrupted"} /\ "resumed" \notin Terminals
      BY <1>3
    <2>3. "resumed" \in EventKinds /\ "resumed" \notin Terminals /\ r \in Runs
      BY <1>3
    <2>4. /\ "running" = "running" => "resumed" \notin Terminals /\ ~IsDurableTerminal(r)
          /\ "running" = "interrupted" /\ "resumed" \notin Terminals =>
               \E p \in Requests : RunOf[p] = r /\ requests'[p] = "pending"
      BY <1>2, <1>3
    <2> HIDE DEF r, t
    <2>5. Moves(r, "running", "resumed")
      BY <1>1, <1>4, <2>1, <2>2, <2>3, <2>4 DEF Moves
    <2>6. QED
      BY <1>1, <1>2, <1>3, <2>4, <2>5, RunMoves
  <1>6. TypeOK'
    BY <1>1, <1>2, <1>3, <1>4, <1>5 DEF TypeOK, Typed
  <1>7. DecidingHasLease' /\ DrivesOwnRun'
    BY <1>1, <1>2 DEF Typed, Leases, DecidingHasLease, DrivesOwnRun
  <1>8. RunningIsOwned'
    <2>1. ASSUME app = "up", NEW s \in Runs, runs'[s] = "running"
          PROVE  Drives(s)' \/ ThreadOf[s] \in recovery'
      <3>1. CASE s = r
        BY <1>1, <1>2, <1>3, <3>1 DEF Typed, Drives
      <3>2. CASE s # r
        <4>1. Drives(s) \/ ThreadOf[s] \in recovery
          BY <1>1, <1>2, <1>3, <2>1, <3>2 DEF Typed, Leases, RunningIsOwned
        <4>2. QED
          BY <1>1, <1>2, <4>1 DEF Typed, Drives
      <3>3. QED
        BY <3>1, <3>2
    <2>2. QED
      BY <1>1, <1>2, <2>1 DEF Leases, RunningIsOwned
  <1>9. QED
    BY <1>5, <1>6, <1>7, <1>8 DEF IInv, Leases

LEMMA CommitDeclineKeeps ==
  ASSUME PersistenceAssumption, IInv, NEW q \in Requests, CommitDecline(q)
  PROVE  IInv'
  <1> DEFINE r == RunOf[q]
  <1>1. Typed /\ TypeOK /\ Records /\ Leases
    BY TypedFacts DEF IInv
  <1>2. /\ deciding[ThreadOf[r]] = q /\ requests[q] = "pending"
        /\ requests' = [requests EXCEPT ![q] = "user_declined"]
        /\ runs' = [runs EXCEPT ![r] = "cancelled"] /\ Record(r, "cancelled")
        /\ threads' = [threads EXCEPT ![ThreadOf[r]] = "idle"]
        /\ Release(ThreadOf[r]) /\ UNCHANGED <<checkpoint, streamed, recovery, app>>
    BY DEF CommitDecline, Resumable, Decide
  <1>3. /\ r \in Runs /\ driver[ThreadOf[r]] = r /\ "cancelled" \in EventKinds
        /\ "cancelled" \in Statuses \ {"absent", "running", "interrupted"}
    BY <1>1, <1>2 DEF Typed, Leases, DecidingHasLease, EventKinds, Terminals
  <1>4. /\ requests' \in [Requests -> RequestStatuses]
        /\ \A p \in Requests :
             \/ requests'[p] = requests[p]
             \/ /\ RunOf[p] = r /\ requests[p] = "pending"
                /\ requests'[p] \notin {"pending", "absent"}
    BY <1>1, <1>2 DEF Typed
  <1>5. Records' /\ runs' \in [Runs -> Statuses] /\ events' \in [Runs -> Seq(EventKinds)]
    <2>1. \A p \in Requests : RunOf[p] = r => requests'[p] # "pending"
      BY <1>1, <1>2 DEF Typed, Records, OnePending
    <2>2. UNCHANGED checkpoint /\ streamed' \subseteq streamed \union {r}
      BY <1>2
    <2> HIDE DEF r
    <2>3. Moves(r, "cancelled", "cancelled")
      BY <1>1, <1>2, <1>3, <1>4, <2>1, <2>2 DEF Moves
    <2>4. QED
      BY <1>1, <1>2, <1>3, <2>2, <2>3, RunMoves
  <1>6. runs'[r] # "running" /\ \A s \in Runs : s # r => runs'[s] = runs[s]
    BY <1>1, <1>2, <1>3 DEF Typed
  <1>7. /\ Leases' /\ driver' \in [Threads -> Runs \union {None}]
        /\ deciding' \in [Threads -> Requests \union {None}]
    <2>1. /\ Release(ThreadOf[r]) /\ UNCHANGED app /\ UNCHANGED recovery
          /\ driver[ThreadOf[r]] = r /\ r \in Runs
      BY <1>2, <1>3
    <2> HIDE DEF r
    <2>2. QED
      BY <1>1, <1>6, <2>1, LeaseReturned
  <1>8. TypeOK'
    BY <1>1, <1>2, <1>3, <1>4, <1>5, <1>7 DEF TypeOK, Typed
  <1>9. QED
    BY <1>5, <1>7, <1>8 DEF IInv

LEMMA AbandonResumeKeeps ==
  ASSUME PersistenceAssumption, IInv, NEW q \in Requests, AbandonResume(q)
  PROVE  IInv'
  <1> DEFINE r == RunOf[q]
  <1>1. Typed /\ TypeOK /\ Records /\ Leases
    BY TypedFacts DEF IInv
  <1>2. /\ deciding[ThreadOf[r]] = q /\ Release(ThreadOf[r])
        /\ UNCHANGED <<runs, events, requests, checkpoint, threads, streamed, recovery, app>>
    BY DEF AbandonResume, tables
  <1>3. /\ r \in Runs /\ driver[ThreadOf[r]] = r
        /\ app = "up" /\ runs[r] = "running" => ThreadOf[r] \in recovery
    BY <1>1, <1>2 DEF Typed, Leases, DecidingHasLease, RunningIsOwned, Drives
  <1>4. Records'
    BY <1>1, <1>2, RecordsKept DEF Typed
  <1>5. /\ Leases' /\ driver' \in [Threads -> Runs \union {None}]
        /\ deciding' \in [Threads -> Requests \union {None}]
    <2> HIDE DEF r
    <2>1. QED
      BY <1>1, <1>2, <1>3, LeaseReturned
  <1>6. TypeOK'
    BY <1>1, <1>2, <1>5 DEF TypeOK, Typed
  <1>7. QED
    BY <1>4, <1>5, <1>6 DEF IInv

LEMMA CrashKeeps ==
  ASSUME PersistenceAssumption, IInv, Crash
  PROVE  IInv'
  <1>1. Typed /\ TypeOK /\ Records /\ Leases
    BY TypedFacts DEF IInv
  <1>2. /\ app' = "down" /\ driver' = [t \in Threads |-> None]
        /\ deciding' = [t \in Threads |-> None] /\ streamed' = {} /\ recovery' = {}
        /\ UNCHANGED <<runs, events, requests, checkpoint, threads>>
    BY DEF Crash, tables
  <1>3. Records' /\ TypeOK'
    BY <1>1, <1>2, RecordsKept DEF Typed, TypeOK
  <1>4. Leases'
    BY <1>2 DEF Leases, DecidingHasLease, DrivesOwnRun, RunningIsOwned
  <1>5. QED
    BY <1>3, <1>4 DEF IInv

\* Recovery finds every interrupt of a running run asked for already, so it never throws
\* and opens no request; it ends every running run, as interrupted if an approval is open.
LEMMA RestartEffect ==
  ASSUME PersistenceAssumption, IInv, Restart
  PROVE  /\ app' = "up"
         /\ UNCHANGED <<requests, checkpoint, driver, deciding, streamed, recovery>>
         /\ \A r \in Runs :
              /\ runs[r] = "running" =>
                   /\ runs'[r] = Left(r)
                   /\ events'[r] = Append(events[r], FailureEvent(Left(r)))
              /\ runs[r] # "running" => runs'[r] = runs[r] /\ events'[r] = events[r]
              /\ \/ Left(r) = "error" /\ FailureEvent(Left(r)) = "error" /\ Pending(r) = {}
                 \/ Left(r) = "interrupted" /\ FailureEvent(Left(r)) = "paused" /\ Pending(r) # {}
         /\ runs' \in [Runs -> Statuses] /\ events' \in [Runs -> Seq(EventKinds)]
         /\ threads' \in [Threads -> {"idle", "busy", "interrupted", "error"}]
  <1>1. Typed /\ TypeOK /\ Records /\ Leases
    BY TypedFacts DEF IInv
  <1>2. \A q \in Reconciled : requests[q] # "absent" /\ (requests[q] = "pending" => ~Rejected(q))
    BY <1>1 DEF Reconciled, Running, Rejected, Records, CheckpointAsked, PendingIsOpen, Typed
  <1>3. ~RecoveryThrows
    BY <1>2 DEF RecoveryThrows
  <1>4. \A r \in Runs : Left(r) = FailureStatus(Pending(r))
    BY <1>2 DEF Left
  <1>5. /\ app' = "up" /\ UNCHANGED <<checkpoint, driver, deciding, streamed, recovery>>
        /\ requests' = [q \in Requests |->
             IF q \in Reconciled /\ requests[q] = "absent" THEN "pending" ELSE requests[q]]
        /\ runs' = [r \in Runs |-> IF r \in Running THEN Left(r) ELSE runs[r]]
        /\ events' = [r \in Runs |->
             IF r \in Running THEN Append(events[r], FailureEvent(Left(r))) ELSE events[r]]
        /\ threads' = [t \in Threads |->
             IF \E r \in Running : ThreadOf[r] = t
               THEN Left(CHOOSE r \in Running : ThreadOf[r] = t)
               ELSE IF threads[t] = "busy" THEN "interrupted" ELSE threads[t]]
    BY <1>3 DEF Restart
  <1>6. requests' = requests
    BY <1>1, <1>2, <1>5 DEF Typed
  <1>7. \A r \in Runs :
          /\ \/ Left(r) = "error" /\ FailureEvent(Left(r)) = "error" /\ Pending(r) = {}
             \/ Left(r) = "interrupted" /\ FailureEvent(Left(r)) = "paused" /\ Pending(r) # {}
          /\ FailureEvent(Left(r)) \in EventKinds
    BY <1>4 DEF FailureStatus, FailureEvent, EventKinds, Terminals
  <1>8. \A r \in Runs :
          /\ runs[r] = "running" =>
               runs'[r] = Left(r) /\ events'[r] = Append(events[r], FailureEvent(Left(r)))
          /\ runs[r] # "running" => runs'[r] = runs[r] /\ events'[r] = events[r]
    BY <1>1, <1>5 DEF Running
  <1>9. runs' \in [Runs -> Statuses]
    BY <1>1, <1>5, <1>7, <1>8 DEF Typed
  <1>10. events' \in [Runs -> Seq(EventKinds)]
    <2>1. \A r \in Runs : events[r] \in Seq(EventKinds)
      BY <1>1 DEF Typed
    <2>2. QED
      BY <1>5, <1>7, <2>1, Appended
  <1>11. threads' \in [Threads -> {"idle", "busy", "interrupted", "error"}]
    <2>1. \A t \in Threads : (\E r \in Running : ThreadOf[r] = t) =>
            (CHOOSE r \in Running : ThreadOf[r] = t) \in Runs
      BY DEF Running
    <2>2. \A r \in Runs : Left(r) \in {"error", "interrupted"}
      BY <1>7
    <2>3. \A t \in Threads : threads'[t] \in {"idle", "busy", "interrupted", "error"}
      BY <1>1, <1>5, <2>1, <2>2 DEF Typed
    <2>4. QED
      BY <1>5, <2>3
  <1>12. QED
    BY <1>5, <1>6, <1>7, <1>8, <1>9, <1>10, <1>11

\* Only the runs that were running move, and none is running afterwards.
LEMMA RestartKeeps ==
  ASSUME PersistenceAssumption, IInv, Restart
  PROVE  IInv'
  <1>1. Typed /\ TypeOK /\ Records /\ Leases
    BY TypedFacts DEF IInv
  <1>2. /\ app' = "up"
        /\ UNCHANGED <<requests, checkpoint, driver, deciding, streamed, recovery>>
        /\ \A r \in Runs :
             /\ runs[r] = "running" =>
                  /\ runs'[r] = Left(r)
                  /\ events'[r] = Append(events[r], FailureEvent(Left(r)))
             /\ runs[r] # "running" => runs'[r] = runs[r] /\ events'[r] = events[r]
             /\ \/ Left(r) = "error" /\ FailureEvent(Left(r)) = "error" /\ Pending(r) = {}
                \/ Left(r) = "interrupted" /\ FailureEvent(Left(r)) = "paused" /\ Pending(r) # {}
        /\ runs' \in [Runs -> Statuses] /\ events' \in [Runs -> Seq(EventKinds)]
        /\ threads' \in [Threads -> {"idle", "busy", "interrupted", "error"}]
    BY RestartEffect
  <1>3. "paused" \in EventKinds \ Terminals /\ "error" \in EventKinds \intersect Terminals
    BY DEF EventKinds, Terminals
  <1>4. \A r \in Runs : runs'[r] # "running"
    BY <1>2
  <1>5. ASSUME NEW r \in Runs, runs[r] = "running"
        PROVE  /\ events'[r] # <<>>
               /\ IsDurableTerminal(r)' <=>
                    IsDurableTerminal(r) \/ FailureEvent(Left(r)) \in Terminals
    <2>1. events'[r] = Append(events[r], FailureEvent(Left(r)))
      BY <1>2, <1>5
    <2>2. events[r] \in Seq(EventKinds)
      BY <1>1 DEF Typed
    <2>3. FailureEvent(Left(r)) \in {"error", "paused"}
      BY <1>2
    <2>4. QED
      BY <1>3, <2>1, <2>2, <2>3, Appended DEF IsDurableTerminal
  <1>6. \A r \in Runs : runs[r] # "running" => (IsDurableTerminal(r)' <=> IsDurableTerminal(r))
    BY <1>2 DEF IsDurableTerminal
  <1>7. BegunFirst'
    BY <1>1, <1>2, <1>4, <1>5 DEF Typed, Records, BegunFirst
  <1>8. CheckpointAsked' /\ OnePending' /\ RunningIsOpen'
    BY <1>1, <1>2, <1>4 DEF Records, CheckpointAsked, OnePending, RunningIsOpen
  <1>9. PendingIsOpen'
    <2>1. ASSUME NEW q \in Requests, requests[q] = "pending"
          PROVE  runs'[RunOf[q]] = "interrupted" /\ ~IsDurableTerminal(RunOf[q])'
      <3>1. /\ RunOf[q] \in Runs /\ Pending(RunOf[q]) # {}
            /\ runs[RunOf[q]] \in {"running", "interrupted"} /\ ~IsDurableTerminal(RunOf[q])
        BY <1>1, <2>1, PendingOf DEF Typed, Records, PendingIsOpen
      <3>2. CASE runs[RunOf[q]] = "running"
        BY <1>2, <1>3, <1>5, <3>1, <3>2
      <3>3. CASE runs[RunOf[q]] # "running"
        BY <1>2, <1>6, <3>1, <3>3
      <3>4. QED
        BY <3>2, <3>3
    <2>2. QED
      BY <1>2, <2>1 DEF PendingIsOpen
  <1>10. InterruptedIsAsked'
    <2>1. ASSUME NEW r \in Runs, runs'[r] = "interrupted", ~IsDurableTerminal(r)'
          PROVE  \E q \in Requests : RunOf[q] = r /\ requests[q] = "pending"
      <3>1. CASE runs[r] = "running"
        <4>1. Pending(r) # {}
          BY <1>2, <2>1, <3>1
        <4>2. QED
          BY <4>1, PendingOf
      <3>2. CASE runs[r] # "running"
        BY <1>1, <1>2, <1>6, <2>1, <3>2 DEF Records, InterruptedIsAsked
      <3>3. QED
        BY <3>1, <3>2
    <2>2. QED
      BY <1>2, <2>1 DEF InterruptedIsAsked
  <1>11. Leases'
    BY <1>1, <1>2, <1>4 DEF Leases, DecidingHasLease, DrivesOwnRun, RunningIsOwned
  <1>12. TypeOK'
    BY <1>1, <1>2 DEF TypeOK, Typed
  <1>13. QED
    BY <1>7, <1>8, <1>9, <1>10, <1>11, <1>12 DEF IInv, Records

-----------------------------------------------------------------------------
(* The theorems.                                                           *)

LEMMA InitHolds == PersistenceAssumption /\ Init => IInv
  <1> SUFFICES ASSUME PersistenceAssumption, Init PROVE IInv
    OBVIOUS
  <1>1. TypeOK
    BY DEF Init, TypeOK, PersistenceAssumption
  <1>2. Records
    BY DEF Init, Records, BegunFirst, CheckpointAsked, OnePending, RunningIsOpen,
           PendingIsOpen, InterruptedIsAsked
  <1>3. Leases
    BY DEF Init, Leases, DecidingHasLease, DrivesOwnRun, RunningIsOwned
  <1>4. QED
    BY <1>1, <1>2, <1>3 DEF IInv

LEMMA StepKeeps == PersistenceAssumption /\ IInv /\ [Next]_vars => IInv'
  <1> SUFFICES ASSUME PersistenceAssumption, IInv, [Next]_vars PROVE IInv'
    OBVIOUS
  <1>1. CASE UNCHANGED vars
    BY <1>1 DEF vars, tables, memory, IInv, TypeOK, Records, Leases, BegunFirst,
         CheckpointAsked, OnePending, RunningIsOpen, PendingIsOpen, InterruptedIsAsked,
         DecidingHasLease, DrivesOwnRun, RunningIsOwned, Drives, IsDurableTerminal
  <1>2. ASSUME NEW r \in Runs, BeginRun(r) PROVE IInv'
    BY <1>2, BeginRunKeeps
  <1>3. ASSUME NEW r \in Runs, PutProgress(r) PROVE IInv'
    BY <1>3, PutProgressKeeps
  <1>4. ASSUME NEW r \in Runs, NEW q \in Requests, PutInterrupt(r, q) PROVE IInv'
    BY <1>4, PutInterruptKeeps
  <1>5. ASSUME NEW r \in Runs, Pause(r) PROVE IInv'
    <2>1. CommitTerminal(r, "paused") /\ Pending(r) # {} /\ streamed' \subseteq streamed
      BY <1>5 DEF Pause
    <2>2. QED
      BY <2>1, CommitTerminalKeeps
  <1>6. ASSUME NEW r \in Runs, Complete(r) PROVE IInv'
    <2>1. CommitTerminal(r, "success") /\ streamed' \subseteq streamed /\ "success" \in Terminals
      BY <1>6 DEF Complete, Terminals
    <2>2. QED
      BY <2>1, CommitTerminalKeeps
  <1>7. ASSUME NEW r \in Runs, Stop(r) PROVE IInv'
    <2>1. PICK kind \in {"aborted", "cancelled"} : CommitTerminal(r, kind) /\ UNCHANGED streamed
      BY <1>7 DEF Stop
    <2>2. kind \in Terminals /\ kind # "paused" /\ streamed' \subseteq streamed
      BY <2>1 DEF Terminals
    <2>3. QED
      BY <2>1, <2>2, CommitTerminalKeeps
  <1>8. ASSUME NEW r \in Runs, Fail(r) PROVE IInv'
    BY <1>8, FailKeeps
  <1>9. ASSUME NEW r \in Runs, FailTerminally(r) PROVE IInv'
    BY <1>9, FailTerminallyKeeps
  <1>10. ASSUME NEW r \in Runs, GiveUp(r) PROVE IInv'
    BY <1>10, GiveUpKeeps
  <1>11. ASSUME NEW q \in Requests, ClaimResume(q) PROVE IInv'
    BY <1>11, ClaimResumeKeeps
  <1>12. ASSUME NEW q \in Requests, CommitResume(q) PROVE IInv'
    BY <1>12, CommitResumeKeeps
  <1>13. ASSUME NEW q \in Requests, CommitDecline(q) PROVE IInv'
    BY <1>13, CommitDeclineKeeps
  <1>14. ASSUME NEW q \in Requests, AbandonResume(q) PROVE IInv'
    BY <1>14, AbandonResumeKeeps
  <1>15. CASE Crash
    BY <1>15, CrashKeeps
  <1>16. CASE Restart
    BY <1>16, RestartKeeps
  <1>17. QED
    BY <1>1, <1>2, <1>3, <1>4, <1>5, <1>6, <1>7, <1>8, <1>9, <1>10, <1>11, <1>12, <1>13,
       <1>14, <1>15, <1>16 DEF Next

\* The records and the leases are consistent in every reachable state, whatever crashes.
THEOREM Inductive == Spec => []IInv
  <1>1. Init => IInv
    BY PersistenceAssumption, InitHolds
  <1>2. IInv /\ [Next]_vars => IInv'
    BY PersistenceAssumption, StepKeeps
  <1>3. QED
    BY <1>1, <1>2, PTL DEF Spec

\* A paused run has an approval that can be decided; a run that is over has none.
THEOREM ApprovalsAreResumable == Spec => []ApprovalIffResumable
  <1>1. IInv => ApprovalIffResumable
    BY PersistenceAssumption, ApprovalParts DEF IInv, Records
  <1>2. QED
    BY <1>1, Inductive, PTL

\* A running run is driven or its thread is closed, and start-up recovery never throws.
THEOREM RunningIsAlwaysOwned == Spec => []RunningIsOwned
  <1>1. IInv => RunningIsOwned
    BY DEF IInv, Leases
  <1>2. QED
    BY <1>1, Inductive, PTL

-----------------------------------------------------------------------------
(* Outcomes are final, and every run keeps its ledger.                     *)

\* The records of a run are what they were ...
Untouched(r) ==
  /\ runs'[r] = runs[r] /\ events'[r] = events[r]
  /\ \A q \in Requests : RunOf[q] = r => requests'[q] = requests[q]

\* ... or the run had no outcome yet, and its records move as the ledger allows.
Moved(r) == ~IsDurableTerminal(r) /\ (Ledger(r)!Next \/ UNCHANGED Ledger(r)!vars)

LEMMA PhaseIs ==
  ASSUME NEW r
  PROVE  /\ runs[r] = "absent" => Phase(r) = "absent"
         /\ runs[r] = "running" => Phase(r) = "active"
         /\ runs[r] = "interrupted" /\ ~IsDurableTerminal(r) => Phase(r) = "paused"
         /\ runs[r] \in {"success", "cancelled", "error"} => Phase(r) = "over"
         /\ runs[r] = "interrupted" /\ IsDurableTerminal(r) => Phase(r) = "over"
  <1> DEFINE over == IsDurableTerminal(r)
  <1>1. Phase(r) = CASE runs[r] = "absent" -> "absent"
                      [] runs[r] = "running" -> "active"
                      [] runs[r] = "interrupted" /\ ~over -> "paused"
                      [] OTHER -> "over"
    BY DEF Phase
  <1>2. over \in BOOLEAN
    BY DEF IsDurableTerminal
  <1> HIDE DEF over
  <1>3. /\ runs[r] = "absent" => Phase(r) = "absent"
        /\ runs[r] = "running" => Phase(r) = "active"
        /\ runs[r] = "interrupted" /\ ~over => Phase(r) = "paused"
        /\ runs[r] \in {"success", "cancelled", "error"} => Phase(r) = "over"
        /\ runs[r] = "interrupted" /\ over => Phase(r) = "over"
    BY <1>1, <1>2
  <1>4. QED
    BY <1>3 DEF over

LEMMA NextPhaseIs ==
  ASSUME NEW r
  PROVE  /\ runs'[r] = "absent" => Phase(r)' = "absent"
         /\ runs'[r] = "running" => Phase(r)' = "active"
         /\ runs'[r] = "interrupted" /\ ~IsDurableTerminal(r)' => Phase(r)' = "paused"
         /\ runs'[r] \in {"success", "cancelled", "error"} => Phase(r)' = "over"
         /\ runs'[r] = "interrupted" /\ IsDurableTerminal(r)' => Phase(r)' = "over"
  <1> DEFINE over == IsDurableTerminal(r)'
  <1>1. Phase(r)' = CASE runs'[r] = "absent" -> "absent"
                      [] runs'[r] = "running" -> "active"
                      [] runs'[r] = "interrupted" /\ ~over -> "paused"
                      [] OTHER -> "over"
    BY DEF Phase
  <1>2. over \in BOOLEAN
    BY DEF IsDurableTerminal
  <1> HIDE DEF over
  <1>3. /\ runs'[r] = "absent" => Phase(r)' = "absent"
        /\ runs'[r] = "running" => Phase(r)' = "active"
        /\ runs'[r] = "interrupted" /\ ~over => Phase(r)' = "paused"
        /\ runs'[r] \in {"success", "cancelled", "error"} => Phase(r)' = "over"
        /\ runs'[r] = "interrupted" /\ over => Phase(r)' = "over"
    BY <1>1, <1>2
  <1>4. QED
    BY <1>3 DEF over

LEMMA UntouchedStutters ==
  ASSUME NEW r \in Runs, Untouched(r)
  PROVE  UNCHANGED Ledger(r)!vars
  <1>1. IsDurableTerminal(r)' <=> IsDurableTerminal(r)
    BY DEF Untouched, IsDurableTerminal
  <1>2. Phase(r)' = Phase(r)
    BY <1>1 DEF Untouched, Phase
  <1>3. Asked(r)' = Asked(r) /\ Pending(r)' = Pending(r)
    BY DEF Untouched, Asked, Pending
  <1>4. QED
    BY <1>2, <1>3 DEF Ledger!vars

\* What the ledger sees of the approvals.
LEMMA RequestsKept ==
  ASSUME NEW r, \A q \in Requests : RunOf[q] = r => requests'[q] = requests[q]
  PROVE  Asked(r)' = Asked(r) /\ Pending(r)' = Pending(r)
  BY DEF Asked, Pending

LEMMA RequestsClosed ==
  ASSUME NEW r,
         \A q \in Requests : RunOf[q] = r =>
           requests'[q] # "pending" /\ (requests'[q] = "absent" <=> requests[q] = "absent")
  PROVE  Asked(r)' = Asked(r) /\ Pending(r)' = {}
  BY DEF Asked, Pending

\* The steps of the ledger.
LEMMA LedgerStart ==
  ASSUME NEW r, ~IsDurableTerminal(r), runs[r] = "absent", runs'[r] = "running",
         \A q \in Requests : RunOf[q] = r => requests'[q] = requests[q]
  PROVE  Moved(r)
  BY PhaseIs, NextPhaseIs, RequestsKept DEF Moved, Ledger!Next, Ledger!Start

LEMMA LedgerPause ==
  ASSUME NEW r, ~IsDurableTerminal(r), runs[r] = "running", runs'[r] = "interrupted",
         ~IsDurableTerminal(r)', Pending(r) # {},
         \A q \in Requests : RunOf[q] = r => requests'[q] = requests[q]
  PROVE  Moved(r)
  BY PhaseIs, NextPhaseIs, RequestsKept DEF Moved, Ledger!Next, Ledger!Pause

LEMMA LedgerEnd ==
  ASSUME NEW r, ~IsDurableTerminal(r),
         runs[r] = "running" \/ (runs[r] = "interrupted" /\ Pending(r) # {}),
         \/ runs'[r] \in {"success", "cancelled", "error"}
         \/ runs'[r] = "interrupted" /\ IsDurableTerminal(r)',
         \A q \in Requests : RunOf[q] = r =>
           requests'[q] # "pending" /\ (requests'[q] = "absent" <=> requests[q] = "absent")
  PROVE  Moved(r)
  BY PhaseIs, NextPhaseIs, RequestsClosed DEF Moved, Ledger!Next, Ledger!End

LEMMA LedgerStays ==
  ASSUME NEW r, ~IsDurableTerminal(r), runs[r] = "interrupted", runs'[r] = "interrupted",
         ~IsDurableTerminal(r)',
         \A q \in Requests : RunOf[q] = r => requests'[q] = requests[q]
  PROVE  Moved(r)
  BY PhaseIs, NextPhaseIs, RequestsKept DEF Moved, Ledger!vars

-----------------------------------------------------------------------------
(* Every action leaves a run untouched or moves it as the ledger allows.    *)

LEMMA BeginRunMoves ==
  ASSUME PersistenceAssumption, IInv, NEW r \in Runs, BeginRun(r)
  PROVE  \A s \in Runs : Untouched(s) \/ Moved(s)
  <1>1. Typed /\ TypeOK /\ Records /\ Leases
    BY TypedFacts DEF IInv
  <1>2. /\ runs[r] = "absent" /\ runs' = [runs EXCEPT ![r] = "running"]
        /\ Record(r, "started") /\ UNCHANGED requests /\ "started" \in EventKinds
    BY DEF BeginRun, EventKinds
  <1>3. \A s \in Runs : s # r => Untouched(s)
    BY <1>1, <1>2, Recorded DEF Typed, Untouched
  <1>4. ~IsDurableTerminal(r)
    BY <1>1, <1>2 DEF Records, BegunFirst, IsDurableTerminal
  <1>5. Moved(r)
    BY <1>1, <1>2, <1>4, LedgerStart DEF Typed
  <1>6. QED
    BY <1>3, <1>5

LEMMA PutInterruptMoves ==
  ASSUME PersistenceAssumption, IInv, NEW r \in Runs, NEW q \in Requests, PutInterrupt(r, q)
  PROVE  \A s \in Runs : Untouched(s) \/ Moved(s)
  <1>1. Typed /\ TypeOK /\ Records /\ Leases
    BY TypedFacts DEF IInv
  <1>2. /\ r \in streamed /\ RunOf[q] = r /\ UNCHANGED <<runs, events>>
        /\ checkpoint[r] = q \/ (requests[q] = "absent" /\ Pending(r) = {})
        /\ requests[q] = "absent" => ~Rejected(q)
        /\ requests' = IF requests[q] = "absent" THEN [requests EXCEPT ![q] = "pending"]
                                                 ELSE requests
    BY DEF PutInterrupt, Interrupts, Upserted, memory
  <1>3. CASE requests[q] # "absent"
    BY <1>2, <1>3 DEF Untouched
  <1>4. CASE requests[q] = "absent"
    <2>1. \A s \in Runs : s # r => Untouched(s)
      BY <1>1, <1>2, <1>4 DEF Typed, Untouched
    <2>2. Pending(r) = {}
      BY <1>1, <1>2, <1>4 DEF Typed, Records, CheckpointAsked
    <2>3. runs[r] = "running" /\ ~IsDurableTerminal(r)
      <3>1. runs[r] # "absent"
        BY <1>1, <1>2 DEF Records, BegunFirst
      <3>2. ~IsDurableTerminal(r) /\ runs[r] \in {"running", "interrupted"}
        BY <1>1, <1>2, <1>4, <3>1 DEF Rejected, Typed
      <3>3. runs[r] # "interrupted"
        BY <1>1, <2>2, <3>2, PendingOf DEF Records, InterruptedIsAsked
      <3>4. QED
        BY <3>2, <3>3
    <2>4. Phase(r) = "active" /\ Phase(r)' = "active"
      BY <1>2, <2>3, PhaseIs, NextPhaseIs
    <2>5. \A p \in Requests : requests'[p] = IF p = q THEN "pending" ELSE requests[p]
      BY <1>1, <1>2, <1>4 DEF Typed
    <2>6. Asked(r)' = Asked(r) \union {q} /\ q \notin Asked(r)
      BY <1>2, <1>4, <2>5 DEF Asked
    <2>7. Pending(r)' = Pending(r) \union {q}
      BY <1>2, <1>4, <2>5 DEF Pending
    <2>8. Moved(r)
      BY <1>2, <2>3, <2>4, <2>6, <2>7 DEF Moved, Ledger!Next, Ledger!Ask
    <2>9. QED
      BY <2>1, <2>8
  <1>5. QED
    BY <1>3, <1>4

LEMMA CommitTerminalMoves ==
  ASSUME PersistenceAssumption, IInv, NEW r \in Runs, NEW kind \in {"paused"} \union Terminals, CommitTerminal(r, kind), kind = "paused" => Pending(r) # {}
  PROVE  \A s \in Runs : Untouched(s) \/ Moved(s)
  <1>1. Typed /\ TypeOK /\ Records /\ Leases
    BY TypedFacts DEF IInv
  <1> DEFINE status == IF kind \in {"paused", "aborted"} THEN "interrupted" ELSE kind
  <1>2. /\ ~IsDurableTerminal(r) /\ runs[r] = "running" /\ kind \in EventKinds
        /\ runs' = [runs EXCEPT ![r] = status] /\ Finished(r, kind) /\ Record(r, kind)
    BY DEF CommitTerminal, EventKinds
  <1>3. IsDurableTerminal(r)' <=> kind \in Terminals
    BY <1>1, <1>2, Recorded DEF Typed
  <1>4. runs'[r] = status /\ \A s \in Runs : s # r => runs'[s] = runs[s] /\ events'[s] = events[s]
    BY <1>1, <1>2, Recorded DEF Typed
  <1>5. CASE kind = "paused"
    <2>1. UNCHANGED requests
      BY <1>2, <1>5 DEF Finished
    <2>2. \A s \in Runs : s # r => Untouched(s)
      BY <1>4, <2>1 DEF Untouched
    <2>3. ~IsDurableTerminal(r)' /\ runs'[r] = "interrupted"
      BY <1>3, <1>4, <1>5 DEF Terminals
    <2>4. Moved(r)
      BY <1>2, <1>5, <2>1, <2>3, LedgerPause
    <2>5. QED
      BY <2>2, <2>4
  <1>6. CASE kind # "paused"
    <2>1. CancelPending(r)
      BY <1>2, <1>6 DEF Finished
    <2>2. \A q \in Requests :
            requests'[q] = IF RunOf[q] = r /\ requests[q] = "pending" THEN "cancelled"
                                                                    ELSE requests[q]
      BY <1>1, <2>1, Cancelled DEF Typed
    <2>3. \A s \in Runs : s # r => Untouched(s)
      BY <1>4, <2>2 DEF Untouched
    <2>4. \/ runs'[r] \in {"success", "cancelled", "error"}
          \/ runs'[r] = "interrupted" /\ IsDurableTerminal(r)'
      BY <1>3, <1>4, <1>6 DEF Terminals
    <2>5. Moved(r)
      BY <1>2, <2>2, <2>4, LedgerEnd
    <2>6. QED
      BY <2>3, <2>5
  <1>7. QED
    BY <1>5, <1>6

LEMMA FailMoves ==
  ASSUME PersistenceAssumption, IInv, NEW r \in Runs, Fail(r)
  PROVE  \A s \in Runs : Untouched(s) \/ Moved(s)
  <1>1. Typed /\ TypeOK /\ Records /\ Leases
    BY TypedFacts DEF IInv
  <1> DEFINE status == FailureStatus(Pending(r))
             kind == FailureEvent(status)
  <1>2. /\ runs' = [runs EXCEPT ![r] = status] /\ Record(r, kind) /\ UNCHANGED requests
        /\ Drives(r) /\ CanCommitFailure(r)
    BY DEF Fail
  <1>3. /\ \/ status = "error" /\ kind = "error" /\ Pending(r) = {}
           \/ status = "interrupted" /\ kind = "paused" /\ Pending(r) # {}
        /\ kind \in EventKinds /\ "paused" \notin Terminals
    BY DEF FailureStatus, FailureEvent, EventKinds, Terminals
  <1>4. /\ runs[r] = "running" \/ (runs[r] = "interrupted" /\ Pending(r) # {})
        /\ ~IsDurableTerminal(r)
    <2>1. runs[r] = "running" \/ (runs[r] = "interrupted" /\ Pending(r) # {})
      BY <1>2 DEF CanCommitFailure
    <2>2. QED
      BY <1>1, <2>1, PendingOf DEF Records, RunningIsOpen, PendingIsOpen
  <1> HIDE DEF status, kind
  <1>5. \A s \in Runs : s # r => Untouched(s)
    BY <1>1, <1>2, <1>3, Recorded DEF Typed, Untouched
  <1>6. runs'[r] = status /\ (IsDurableTerminal(r)' <=> kind \in Terminals)
    BY <1>1, <1>2, <1>3, <1>4, Recorded DEF Typed
  <1>7. CASE Pending(r) # {}
    <2>1. runs'[r] = "interrupted" /\ ~IsDurableTerminal(r)'
      BY <1>3, <1>6, <1>7
    <2>2. Moved(r)
      BY <1>2, <1>4, <1>7, <2>1, LedgerPause, LedgerStays
    <2>3. QED
      BY <1>5, <2>2
  <1>8. CASE Pending(r) = {}
    <2>1. runs'[r] = "error" /\ runs[r] = "running"
      BY <1>3, <1>4, <1>6, <1>8
    <2>2. \A q \in Requests : RunOf[q] = r => requests'[q] # "pending"
      BY <1>2, <1>8, PendingOf
    <2>3. Moved(r)
      BY <1>2, <1>4, <2>1, <2>2, LedgerEnd
    <2>4. QED
      BY <1>5, <2>3
  <1>9. QED
    BY <1>5, <1>7, <1>8

LEMMA FailTerminallyMoves ==
  ASSUME PersistenceAssumption, IInv, NEW r \in Runs, FailTerminally(r)
  PROVE  \A s \in Runs : Untouched(s) \/ Moved(s)
  <1>1. Typed /\ TypeOK /\ Records /\ Leases
    BY TypedFacts DEF IInv
  <1>2. /\ runs' = [runs EXCEPT ![r] = "error"] /\ Record(r, "error") /\ CancelPending(r)
        /\ CanCommitFailure(r) /\ "error" \in EventKinds
    BY DEF FailTerminally, EventKinds, Terminals
  <1>3. \A q \in Requests :
          requests'[q] = IF RunOf[q] = r /\ requests[q] = "pending" THEN "cancelled"
                                                                  ELSE requests[q]
    BY <1>1, <1>2, Cancelled DEF Typed
  <1>4. /\ runs[r] = "running" \/ (runs[r] = "interrupted" /\ Pending(r) # {})
        /\ ~IsDurableTerminal(r)
    <2>1. runs[r] = "running" \/ (runs[r] = "interrupted" /\ Pending(r) # {})
      BY <1>2 DEF CanCommitFailure
    <2>2. QED
      BY <1>1, <2>1, PendingOf DEF Records, RunningIsOpen, PendingIsOpen
  <1>5. \A s \in Runs : s # r => Untouched(s)
    BY <1>1, <1>2, <1>3, Recorded DEF Typed, Untouched
  <1>6. runs'[r] = "error"
    BY <1>1, <1>2 DEF Typed
  <1>7. Moved(r)
    BY <1>3, <1>4, <1>6, LedgerEnd
  <1>8. QED
    BY <1>5, <1>7

LEMMA CommitResumeMoves ==
  ASSUME PersistenceAssumption, IInv, NEW q \in Requests, CommitResume(q)
  PROVE  \A s \in Runs : Untouched(s) \/ Moved(s)
  <1>1. Typed /\ TypeOK /\ Records /\ Leases
    BY TypedFacts DEF IInv
  <1> DEFINE r == RunOf[q]
             t == ThreadOf[r]
  <1>2. /\ deciding[t] = q /\ requests[q] = "pending" /\ ~IsDurableTerminal(r)
        /\ runs[r] \in {"running", "interrupted"}
        /\ runs' = [runs EXCEPT ![r] = "running"] /\ Record(r, "resumed")
    BY DEF CommitResume, Resumable
  <1>3. PICK decision \in {"approved", "corrected"} : requests' = [requests EXCEPT ![q] = decision]
    BY DEF CommitResume, Granted, Decide
  <1>4. r \in Runs /\ t \in Threads /\ "resumed" \in EventKinds
    BY <1>1 DEF Typed, EventKinds
  <1>5. \A p \in Requests : requests'[p] = IF p = q THEN decision ELSE requests[p]
    BY <1>1, <1>3 DEF Typed
  <1>6. runs'[r] = "running" /\ \A s \in Runs : s # r => runs'[s] = runs[s] /\ events'[s] = events[s]
    BY <1>1, <1>2, <1>4, Recorded DEF Typed
  <1>7. \A s \in Runs : s # r => Untouched(s)
    BY <1>5, <1>6 DEF Untouched
  <1>8. runs[r] = "interrupted"
    <2>1. deciding[t] # None
      BY <1>1, <1>2 DEF Typed
    <2>2. t \notin recovery /\ app = "up" /\ ~Drives(r)
      BY <1>1, <1>4, <2>1 DEF Leases, DecidingHasLease, Drives
    <2>3. QED
      BY <1>1, <1>2, <1>4, <2>2 DEF Leases, RunningIsOwned
  <1>9. Phase(r) = "paused" /\ Phase(r)' = "active"
    BY <1>2, <1>6, <1>8, PhaseIs, NextPhaseIs
  <1>10. q \in Pending(r) /\ Pending(r)' = Pending(r) \ {q}
    BY <1>2, <1>5 DEF Pending
  <1>11. Asked(r)' = Asked(r)
    BY <1>2, <1>5 DEF Asked
  <1>12. Moved(r)
    BY <1>2, <1>9, <1>10, <1>11 DEF Moved, Ledger!Next, Ledger!Resume
  <1>13. QED
    BY <1>7, <1>12

LEMMA CommitDeclineMoves ==
  ASSUME PersistenceAssumption, IInv, NEW q \in Requests, CommitDecline(q)
  PROVE  \A s \in Runs : Untouched(s) \/ Moved(s)
  <1>1. Typed /\ TypeOK /\ Records /\ Leases
    BY TypedFacts DEF IInv
  <1> DEFINE r == RunOf[q]
  <1>2. /\ requests[q] = "pending" /\ ~IsDurableTerminal(r)
        /\ runs[r] \in {"running", "interrupted"}
        /\ requests' = [requests EXCEPT ![q] = "user_declined"]
        /\ runs' = [runs EXCEPT ![r] = "cancelled"] /\ Record(r, "cancelled")
    BY DEF CommitDecline, Resumable, Decide
  <1>3. r \in Runs /\ "cancelled" \in EventKinds
    BY <1>1 DEF Typed, EventKinds, Terminals
  <1>4. \A p \in Requests : requests'[p] = IF p = q THEN "user_declined" ELSE requests[p]
    BY <1>1, <1>2 DEF Typed
  <1>5. runs'[r] = "cancelled" /\ \A s \in Runs : s # r => runs'[s] = runs[s] /\ events'[s] = events[s]
    BY <1>1, <1>2, <1>3, Recorded DEF Typed
  <1>6. \A s \in Runs : s # r => Untouched(s)
    BY <1>4, <1>5 DEF Untouched
  <1>7. \A p \in Requests : RunOf[p] = r =>
          requests'[p] # "pending" /\ (requests'[p] = "absent" <=> requests[p] = "absent")
    BY <1>1, <1>2, <1>4 DEF Records, OnePending
  <1>8. Pending(r) # {}
    BY <1>2, PendingOf
  <1>9. Moved(r)
    BY <1>2, <1>5, <1>7, <1>8, LedgerEnd
  <1>10. QED
    BY <1>6, <1>9

LEMMA RestartMoves ==
  ASSUME PersistenceAssumption, IInv, Restart
  PROVE  \A s \in Runs : Untouched(s) \/ Moved(s)
  <1>1. Typed /\ TypeOK /\ Records /\ Leases
    BY TypedFacts DEF IInv
  <1>2. UNCHANGED requests
    BY RestartEffect
  <1>3. SUFFICES ASSUME NEW s \in Runs PROVE Untouched(s) \/ Moved(s)
    OBVIOUS
  <1>4. /\ runs[s] = "running" =>
             runs'[s] = Left(s) /\ events'[s] = Append(events[s], FailureEvent(Left(s)))
        /\ runs[s] # "running" => runs'[s] = runs[s] /\ events'[s] = events[s]
        /\ \/ Left(s) = "error" /\ FailureEvent(Left(s)) = "error" /\ Pending(s) = {}
           \/ Left(s) = "interrupted" /\ FailureEvent(Left(s)) = "paused" /\ Pending(s) # {}
    BY RestartEffect
  <1>5. CASE runs[s] # "running"
    BY <1>2, <1>4, <1>5 DEF Untouched
  <1>6. CASE runs[s] = "running"
    <2>1. ~IsDurableTerminal(s) /\ events[s] \in Seq(EventKinds)
      BY <1>1, <1>6 DEF Records, RunningIsOpen, Typed
    <2>2. CASE Pending(s) # {}
      <3>1. runs'[s] = "interrupted" /\ events'[s] = Append(events[s], "paused")
        BY <1>4, <1>6, <2>2
      <3>2. "paused" \in EventKinds \ Terminals
        BY DEF EventKinds, Terminals
      <3>3. ~IsDurableTerminal(s)'
        BY <2>1, <3>1, <3>2, Appended DEF IsDurableTerminal
      <3>4. QED
        BY <1>2, <1>6, <2>1, <2>2, <3>1, <3>3, LedgerPause
    <2>3. CASE Pending(s) = {}
      <3>1. runs'[s] = "error"
        BY <1>4, <1>6, <2>3
      <3>2. \A q \in Requests : RunOf[q] = s => requests'[q] # "pending"
        BY <1>2, <2>3, PendingOf
      <3>3. QED
        BY <1>2, <1>6, <2>1, <3>1, <3>2, LedgerEnd
    <2>4. QED
      BY <2>2, <2>3
  <1>7. QED
    BY <1>5, <1>6

LEMMA StepMoves ==
  ASSUME PersistenceAssumption, IInv, [Next]_vars
  PROVE  \A s \in Runs : Untouched(s) \/ Moved(s)
  <1> DEFINE goal == \A s \in Runs : Untouched(s) \/ Moved(s)
  <1>1. UNCHANGED <<runs, events, requests>> => goal
    BY DEF Untouched
  <1> HIDE DEF goal
  <1>2. ASSUME UNCHANGED vars \/ Crash PROVE goal
    BY <1>1, <1>2 DEF vars, tables, Crash
  <1>3. ASSUME NEW r \in Runs, PutProgress(r) \/ GiveUp(r) PROVE goal
    BY <1>1, <1>3 DEF PutProgress, GiveUp, tables
  <1>4. ASSUME NEW q \in Requests, ClaimResume(q) \/ AbandonResume(q) PROVE goal
    BY <1>1, <1>4 DEF ClaimResume, AbandonResume, tables
  <1>5. ASSUME NEW r \in Runs, BeginRun(r) PROVE goal
    BY <1>5, BeginRunMoves DEF goal
  <1>6. ASSUME NEW r \in Runs, NEW q \in Requests, PutInterrupt(r, q) PROVE goal
    BY <1>6, PutInterruptMoves DEF goal
  <1>7. ASSUME NEW r \in Runs, Pause(r) PROVE goal
    <2>1. CommitTerminal(r, "paused") /\ Pending(r) # {}
      BY <1>7 DEF Pause
    <2>2. QED
      BY <2>1, CommitTerminalMoves DEF goal
  <1>8. ASSUME NEW r \in Runs, Complete(r) \/ Stop(r) PROVE goal
    <2>1. PICK kind \in {"success", "aborted", "cancelled"} : CommitTerminal(r, kind)
      BY <1>8 DEF Complete, Stop
    <2>2. kind \in Terminals /\ kind # "paused"
      BY <2>1 DEF Terminals
    <2>3. QED
      BY <2>1, <2>2, CommitTerminalMoves DEF goal
  <1>9. ASSUME NEW r \in Runs, Fail(r) \/ FailTerminally(r) PROVE goal
    BY <1>9, FailMoves, FailTerminallyMoves DEF goal
  <1>10. ASSUME NEW q \in Requests, CommitResume(q) \/ CommitDecline(q) PROVE goal
    BY <1>10, CommitResumeMoves, CommitDeclineMoves DEF goal
  <1>11. ASSUME Restart PROVE goal
    BY <1>11, RestartMoves DEF goal
  <1>12. goal
    BY <1>2, <1>3, <1>4, <1>5, <1>6, <1>7, <1>8, <1>9, <1>10, <1>11 DEF Next
  <1>13. QED
    BY <1>12 DEF goal

\* Whatever happens later, the records of a run that has its outcome stay as they are.
THEOREM OutcomesAreFinal == Spec => OutcomeIsFinal
  <1>1. IInv /\ [Next]_vars =>
          [\A r \in Runs : IsDurableTerminal(r) =>
             /\ runs'[r] = runs[r] /\ events'[r] = events[r]
             /\ \A q \in Requests : RunOf[q] = r => requests'[q] = requests[q]]_vars
    BY PersistenceAssumption, StepMoves DEF Untouched, Moved
  <1>2. QED
    BY <1>1, Inductive, PTL DEF Spec, OutcomeIsFinal

\* Each run implements the ledger: every step is a step of the ledger or does not show in it.
THEOREM LedgerIsKept == Spec => ImplementsLedger
  <1>1. Init => \A r \in Runs : Ledger(r)!Init
    <2> SUFFICES ASSUME Init, NEW r \in Runs PROVE Ledger(r)!Init
      OBVIOUS
    <2>1. Phase(r) = "absent"
      BY PhaseIs DEF Init
    <2>2. Asked(r) = {} /\ Pending(r) = {}
      BY DEF Init, Asked, Pending
    <2>3. QED
      BY <2>1, <2>2 DEF Ledger!Init
  <1>2. IInv /\ [Next]_vars =>
          [\A r \in Runs : Ledger(r)!Next \/ UNCHANGED Ledger(r)!vars]_vars
    BY PersistenceAssumption, StepMoves, UntouchedStutters DEF Moved
  <1>3. QED
    BY <1>1, <1>2, Inductive, PTL DEF Spec, ImplementsLedger

-----------------------------------------------------------------------------
(* The tables tell one story.                                              *)

Last(story) == story[Len(story)]

\* LifecycleAlternates, of one run; every run that was begun has an event.
Story(r) ==
  /\ events[r] = <<>> <=> runs[r] = "absent"
  /\ \A i \in DOMAIN events[r] :
       IF i = 1 THEN events[r][i] = "started"
                ELSE LifecycleFollows(events[r][i - 1], events[r][i])
  /\ runs[r] = "running" <=> events[r] # <<>> /\ Last(events[r]) \in {"started", "resumed"}

\* ResumedByDecision, of one run, both sides of which are finite.
Resumptions(r) == {i \in DOMAIN events[r] : events[r][i] = "resumed"}
Grants(r) == {q \in Requests : RunOf[q] = r /\ requests[q] \in {"approved", "corrected"}}
Counted(r) ==
  /\ IsFiniteSet(Resumptions(r)) /\ IsFiniteSet(Grants(r))
  /\ Cardinality(Resumptions(r)) = Cardinality(Grants(r))

\* A thread that is driven is open.
DrivenIsOpen == \A t \in Threads : driver[t] # None => t \notin recovery /\ app = "up"

StoryInv ==
  /\ \A r \in Runs : Story(r) /\ Counted(r)
  /\ ThreadFollowsRun /\ DrivenIsOpen

\* A step adds nothing to the story of a run, or what may follow: a resumption with a
\* decision that had not been granted.
Tells(r, kind) ==
  /\ events'[r] = Append(events[r], kind)
  /\ runs'[r] # "absent" /\ (runs'[r] = "running" <=> kind \in {"started", "resumed"})
  /\ events[r] = <<>> => kind = "started"
  /\ events[r] # <<>> => LifecycleFollows(Last(events[r]), kind)
  /\ kind # "resumed" => Grants(r)' = Grants(r)
  /\ kind = "resumed" => \E q : q \notin Grants(r) /\ Grants(r)' = Grants(r) \union {q}
Silent(r) == runs'[r] = runs[r] /\ events'[r] = events[r] /\ Grants(r)' = Grants(r)
GoesOn(r) == Silent(r) \/ \E kind \in EventKinds : Tells(r, kind)

LEMMA SilenceKeeps ==
  ASSUME NEW r \in Runs, Story(r), Counted(r), Silent(r)
  PROVE  Story(r)' /\ Counted(r)'
  <1>1. Story(r)'
    BY DEF Silent, Story
  <1>2. Resumptions(r)' = Resumptions(r)
    BY DEF Silent, Resumptions
  <1>3. QED
    BY <1>1, <1>2 DEF Silent, Counted

LEMMA TellingKeeps ==
  ASSUME NEW r \in Runs, events[r] \in Seq(EventKinds), Story(r), Counted(r),
         NEW kind \in EventKinds, Tells(r, kind)
  PROVE  Story(r)' /\ Counted(r)'
  <1> DEFINE n == Len(events[r])
  <1>1. /\ n \in Nat /\ DOMAIN events[r] = 1..n /\ DOMAIN events'[r] = 1..(n + 1)
        /\ Len(events'[r]) = n + 1 /\ events'[r] # <<>>
        /\ events'[r][n + 1] = kind /\ \A i \in 1..n : events'[r][i] = events[r][i]
        /\ events[r] = <<>> <=> n = 0
    BY DEF Tells
  <1>2. ASSUME NEW i \in 1..(n + 1)
        PROVE  IF i = 1 THEN events'[r][i] = "started"
                        ELSE LifecycleFollows(events'[r][i - 1], events'[r][i])
    <2>1. CASE i \in 1..n
      <3>1. i # 1 => i - 1 \in 1..n
        BY <1>1, <2>1
      <3>2. QED
        BY <1>1, <2>1, <3>1 DEF Story
    <2>2. CASE i = n + 1 /\ n = 0
      BY <1>1, <2>2 DEF Tells
    <2>3. CASE i = n + 1 /\ n # 0
      <3>1. i # 1 /\ i - 1 = n /\ n \in 1..n
        BY <1>1, <2>3
      <3>2. LifecycleFollows(events[r][n], kind)
        BY <1>1, <2>3 DEF Tells, Last
      <3>3. events'[r][i] = kind /\ events'[r][i - 1] = events[r][n]
        BY <1>1, <2>3, <3>1
      <3>4. QED
        BY <3>1, <3>2, <3>3
    <2>4. QED
      BY <1>1, <2>1, <2>2, <2>3
  <1>3. Last(events'[r]) = kind
    BY <1>1 DEF Last
  <1>4. Story(r)'
    BY <1>1, <1>2, <1>3 DEF Story, Tells
  <1>5. Resumptions(r)' = IF kind = "resumed" THEN Resumptions(r) \union {n + 1}
                                            ELSE Resumptions(r)
    BY <1>1 DEF Resumptions
  <1>6. n + 1 \notin Resumptions(r)
    BY <1>1 DEF Resumptions
  <1>7. CASE kind # "resumed"
    BY <1>4, <1>5, <1>7 DEF Tells, Counted
  <1>8. CASE kind = "resumed"
    <2>1. PICK q : q \notin Grants(r) /\ Grants(r)' = Grants(r) \union {q}
      BY <1>8 DEF Tells
    <2>2. /\ IsFiniteSet(Resumptions(r)')
          /\ Cardinality(Resumptions(r)') = Cardinality(Resumptions(r)) + 1
      BY <1>5, <1>6, <1>8, FS_AddElement DEF Counted
    <2>3. IsFiniteSet(Grants(r)') /\ Cardinality(Grants(r)') = Cardinality(Grants(r)) + 1
      BY <2>1, FS_AddElement DEF Counted
    <2>4. QED
      BY <1>4, <2>2, <2>3 DEF Counted
  <1>9. QED
    BY <1>7, <1>8

LEMMA StoriesGoOn ==
  ASSUME TypeOK, StoryInv, \A r \in Runs : GoesOn(r)
  PROVE  \A r \in Runs : Story(r)' /\ Counted(r)'
  <1> SUFFICES ASSUME NEW r \in Runs PROVE Story(r)' /\ Counted(r)'
    OBVIOUS
  <1>1. events[r] \in Seq(EventKinds) /\ Story(r) /\ Counted(r)
    BY DEF TypeOK, StoryInv
  <1>2. CASE Silent(r)
    BY <1>1, <1>2, SilenceKeeps
  <1>3. CASE \E kind \in EventKinds : Tells(r, kind)
    BY <1>1, <1>3, TellingKeeps
  <1>4. QED
    BY <1>2, <1>3 DEF GoesOn

\* Nobody is running on a thread that is free, or whose next decision is being taken.
LEMMA NobodyRuns ==
  ASSUME PersistenceAssumption, IInv, StoryInv, NEW t \in Threads,
         Free(t) \/ deciding[t] # None
  PROVE  \A s \in Runs : ThreadOf[s] = t => runs[s] # "running"
  <1>1. Typed /\ Leases
    BY TypedFacts DEF IInv
  <1>2. app = "up" /\ t \notin recovery
    BY <1>1 DEF Leases, DecidingHasLease, Free
  <1>3. \A s \in Runs : ThreadOf[s] = t => ~Drives(s)
    BY <1>1 DEF Free, Drives, Typed
  <1>4. QED
    BY <1>1, <1>2, <1>3 DEF Leases, RunningIsOwned

\* A thread follows the one run of it that moves, when no other is running.
LEMMA ThreadMoves ==
  ASSUME PersistenceAssumption, TypeOK, ThreadFollowsRun, NEW r \in Runs, NEW status, NEW st,
         runs' = [runs EXCEPT ![r] = status],
         threads' = [threads EXCEPT ![ThreadOf[r]] = st],
         st = "busy" <=> status = "running",
         \A s \in Runs \ {r} : ThreadOf[s] = ThreadOf[r] => runs[s] # "running"
  PROVE  ThreadFollowsRun'
  <1>1. /\ \A s \in Runs : runs'[s] = IF s = r THEN status ELSE runs[s]
        /\ \A t \in Threads : threads'[t] = IF t = ThreadOf[r] THEN st ELSE threads[t]
        /\ ThreadOf \in [Runs -> Threads]
    BY DEF TypeOK, PersistenceAssumption
  <1>2. ASSUME NEW t \in Threads
        PROVE  threads'[t] = "busy" <=> \E s \in Runs : ThreadOf[s] = t /\ runs'[s] = "running"
    <2>1. CASE t = ThreadOf[r]
      BY <1>1, <2>1
    <2>2. CASE t # ThreadOf[r]
      BY <1>1, <2>2 DEF ThreadFollowsRun
    <2>3. QED
      BY <2>1, <2>2
  <1>3. ASSUME NEW a \in Runs, NEW b \in Runs, runs'[a] = "running", runs'[b] = "running",
               ThreadOf[a] = ThreadOf[b]
        PROVE  a = b
    BY <1>1, <1>3 DEF ThreadFollowsRun, Running
  <1>4. QED
    BY <1>2, <1>3 DEF ThreadFollowsRun, Running

\* A step that is about one run is silent about the others.
LEMMA OneTells ==
  ASSUME Typed, NEW r \in Runs, NEW status, NEW kind, runs' = [runs EXCEPT ![r] = status],
         Record(r, kind), \A q \in Requests : RunOf[q] # r => requests'[q] = requests[q]
  PROVE  /\ events'[r] = Append(events[r], kind) /\ runs'[r] = status
         /\ \A s \in Runs \ {r} : Silent(s)
  <1>1. /\ events'[r] = Append(events[r], kind) /\ runs'[r] = status
        /\ \A s \in Runs \ {r} : events'[s] = events[s] /\ runs'[s] = runs[s]
    BY DEF Typed, Record
  <1>2. \A s \in Runs \ {r} : Grants(s)' = Grants(s)
    BY DEF Grants
  <1>3. QED
    BY <1>1, <1>2 DEF Silent

LEMMA GrantsStay ==
  ASSUME NEW r,
         \A q \in Requests : RunOf[q] = r =>
           (requests'[q] \in {"approved", "corrected"}
              <=> requests[q] \in {"approved", "corrected"})
  PROVE  Grants(r)' = Grants(r)
  BY DEF Grants

\* What is not about runs, events, grants and thread status.
LEMMA NothingTold ==
  ASSUME TypeOK, StoryInv, UNCHANGED <<runs, events, threads>>,
         \A q \in Requests :
           requests'[q] \in {"approved", "corrected"}
             <=> requests[q] \in {"approved", "corrected"}
  PROVE  /\ \A r \in Runs : Story(r)' /\ Counted(r)'
         /\ ThreadFollowsRun'
  <1>1. \A r \in Runs : Silent(r)
    BY GrantsStay DEF Silent
  <1>2. ThreadFollowsRun'
    BY DEF StoryInv, ThreadFollowsRun, Running
  <1>3. QED
    BY <1>1, <1>2, StoriesGoOn DEF GoesOn

\* A run that was running ends or pauses, and its lease is given back.
LEMMA EndingTold ==
  ASSUME PersistenceAssumption, IInv, StoryInv, NEW r \in Runs,
         NEW status \in {"success", "cancelled", "error", "interrupted"},
         NEW kind \in {"paused"} \union Terminals, NEW st, st # "busy",
         runs[r] = "running", runs' = [runs EXCEPT ![r] = status], Record(r, kind),
         \A q \in Requests :
           \/ requests'[q] = requests[q]
           \/ RunOf[q] = r /\ requests[q] = "pending" /\ requests'[q] = "cancelled",
         threads' = [threads EXCEPT ![ThreadOf[r]] = st],
         Release(ThreadOf[r]), UNCHANGED <<recovery, app>>
  PROVE  StoryInv'
  <1>1. Typed /\ TypeOK
    BY TypedFacts DEF IInv
  <1>2. kind \in EventKinds /\ kind \notin {"started", "resumed"} /\ status # "running"
    BY DEF EventKinds, Terminals
  <1>3. /\ events'[r] = Append(events[r], kind) /\ runs'[r] = status
        /\ \A s \in Runs \ {r} : Silent(s)
    <2>1. \A q \in Requests : RunOf[q] # r => requests'[q] = requests[q]
      OBVIOUS
    <2>2. QED
      BY <1>1, <2>1, OneTells
  <1>4. Grants(r)' = Grants(r)
    <2>1. \A q \in Requests : requests'[q] \in {"approved", "corrected"}
                                <=> requests[q] \in {"approved", "corrected"}
      OBVIOUS
    <2>2. QED
      BY <2>1, GrantsStay
  <1>5. events[r] # <<>> /\ Last(events[r]) \in {"started", "resumed"}
    BY DEF StoryInv, Story
  <1>6. Tells(r, kind)
    BY <1>2, <1>3, <1>4, <1>5 DEF Tells, LifecycleFollows
  <1>7. \A s \in Runs : Story(s)' /\ Counted(s)'
    BY <1>1, <1>2, <1>3, <1>6, StoriesGoOn DEF GoesOn
  <1>8. ThreadFollowsRun'
    <2>1. \A s \in Runs \ {r} : ThreadOf[s] = ThreadOf[r] => runs[s] # "running"
      BY DEF StoryInv, ThreadFollowsRun, Running
    <2>2. QED
      BY <1>1, <1>2, <2>1, ThreadMoves DEF StoryInv
  <1>9. DrivenIsOpen'
    BY <1>1 DEF StoryInv, DrivenIsOpen, Release, Typed
  <1>10. QED
    BY <1>7, <1>8, <1>9 DEF StoryInv

-----------------------------------------------------------------------------
(* Every action tells what may follow.                                     *)

LEMMA BeginRunTold ==
  ASSUME PersistenceAssumption, IInv, StoryInv, NEW r \in Runs, BeginRun(r)
  PROVE  StoryInv'
  <1>1. Typed /\ TypeOK /\ Records
    BY TypedFacts DEF IInv
  <1>2. /\ Free(ThreadOf[r]) /\ runs[r] = "absent" /\ runs' = [runs EXCEPT ![r] = "running"]
        /\ Record(r, "started") /\ threads' = [threads EXCEPT ![ThreadOf[r]] = "busy"]
        /\ driver' = [driver EXCEPT ![ThreadOf[r]] = r] /\ UNCHANGED <<requests, recovery, app>>
    BY DEF BeginRun
  <1>3. /\ events'[r] = Append(events[r], "started") /\ runs'[r] = "running"
        /\ \A s \in Runs \ {r} : Silent(s)
    BY <1>1, <1>2, OneTells
  <1>4. events[r] = <<>> /\ Grants(r)' = Grants(r)
    BY <1>1, <1>2 DEF Records, BegunFirst, Grants
  <1>5. "started" \in EventKinds /\ Tells(r, "started")
    BY <1>3, <1>4 DEF Tells, EventKinds
  <1>6. \A s \in Runs : Story(s)' /\ Counted(s)'
    BY <1>1, <1>3, <1>5, StoriesGoOn DEF GoesOn
  <1>7. ThreadFollowsRun'
    <2>1. \A s \in Runs : ThreadOf[s] = ThreadOf[r] => runs[s] # "running"
      BY <1>1, <1>2, NobodyRuns DEF Typed
    <2>2. QED
      BY <1>1, <1>2, <2>1, ThreadMoves DEF StoryInv
  <1>8. DrivenIsOpen'
    BY <1>1, <1>2 DEF StoryInv, DrivenIsOpen, Free, Typed
  <1>9. QED
    BY <1>6, <1>7, <1>8 DEF StoryInv

LEMMA CommitTerminalTold ==
  ASSUME PersistenceAssumption, IInv, StoryInv, NEW r \in Runs,
         NEW kind \in {"paused"} \union Terminals, CommitTerminal(r, kind)
  PROVE  StoryInv'
  <1> DEFINE status == IF kind \in {"paused", "aborted"} THEN "interrupted" ELSE kind
             st == IF status = "interrupted" THEN status ELSE "idle"
  <1>1. Typed
    BY TypedFacts DEF IInv
  <1>2. /\ runs[r] = "running" /\ runs' = [runs EXCEPT ![r] = status] /\ Finished(r, kind)
        /\ Record(r, kind) /\ threads' = [threads EXCEPT ![ThreadOf[r]] = st]
        /\ Release(ThreadOf[r]) /\ UNCHANGED <<recovery, app>>
    BY DEF CommitTerminal
  <1>3. status \in {"success", "cancelled", "error", "interrupted"} /\ st # "busy"
    BY DEF Terminals
  <1>4. \A q \in Requests :
           \/ requests'[q] = requests[q]
           \/ RunOf[q] = r /\ requests[q] = "pending" /\ requests'[q] = "cancelled"
    <2>1. CASE kind = "paused"
      BY <1>2, <2>1 DEF Finished
    <2>2. CASE kind # "paused"
      BY <1>1, <1>2, <2>2, Cancelled DEF Finished, Typed
    <2>3. QED
      BY <2>1, <2>2
  <1> HIDE DEF status, st
  <1>5. QED
    BY <1>2, <1>3, <1>4, EndingTold

\* A failure is committed for a run that is running: its last event is a beginning.
LEMMA FailTold ==
  ASSUME PersistenceAssumption, IInv, StoryInv, NEW r \in Runs, Fail(r) \/ FailTerminally(r)
  PROVE  StoryInv'
  <1>1. Typed /\ Records
    BY TypedFacts DEF IInv
  <1>2. runs[r] = "running" /\ Release(ThreadOf[r]) /\ UNCHANGED <<recovery, app>>
    <2>1. CanCommitFailure(r) /\ Release(ThreadOf[r]) /\ UNCHANGED <<recovery, app>>
      BY DEF Fail, FailTerminally
    <2>2. Last(events[r]) \in {"started", "resumed"} /\ runs[r] # "absent"
      BY <2>1 DEF CanCommitFailure, Last
    <2>3. QED
      BY <2>1, <2>2 DEF StoryInv, Story
  <1>3. CASE Fail(r)
    <2>1. PICK status \in {"error", "interrupted"}, kind \in {"error", "paused"} :
            /\ runs' = [runs EXCEPT ![r] = status] /\ Record(r, kind)
            /\ threads' = [threads EXCEPT ![ThreadOf[r]] = status]
            /\ UNCHANGED requests
      BY <1>3 DEF Fail, FailureStatus, FailureEvent
    <2>2. /\ status \in {"success", "cancelled", "error", "interrupted"} /\ status # "busy"
          /\ kind \in {"paused"} \union Terminals
          /\ \A q \in Requests : requests'[q] = requests[q]
      BY <2>1 DEF Terminals
    <2>3. QED
      BY <1>2, <2>1, <2>2, EndingTold
  <1>4. CASE FailTerminally(r)
    <2>1. /\ CancelPending(r) /\ runs' = [runs EXCEPT ![r] = "error"] /\ Record(r, "error")
          /\ threads' = [threads EXCEPT ![ThreadOf[r]] = "error"]
      BY <1>4 DEF FailTerminally
    <2>2. \A q \in Requests :
             \/ requests'[q] = requests[q]
             \/ RunOf[q] = r /\ requests[q] = "pending" /\ requests'[q] = "cancelled"
      BY <1>1, <2>1, Cancelled DEF Typed
    <2>3. "error" \in {"success", "cancelled", "error", "interrupted"} /\ "error" # "busy"
          /\ "error" \in {"paused"} \union Terminals
      BY DEF Terminals
    <2>4. QED
      BY <1>2, <2>1, <2>2, <2>3, EndingTold
  <1>5. QED
    BY <1>3, <1>4

\* The run a decision is taken for waits at a pause.
LEMMA DecidedIsPaused ==
  ASSUME PersistenceAssumption, IInv, StoryInv, NEW q \in Requests, Resumable(q)
  PROVE  /\ RunOf[q] \in Runs /\ events[RunOf[q]] # <<>>
         /\ Last(events[RunOf[q]]) = "paused"
         /\ \A s \in Runs : ThreadOf[s] = ThreadOf[RunOf[q]] => runs[s] # "running"
         /\ driver[ThreadOf[RunOf[q]]] = RunOf[q]
  <1> DEFINE r == RunOf[q]
             t == ThreadOf[r]
  <1>1. Typed /\ Records /\ Leases
    BY TypedFacts DEF IInv
  <1>2. /\ deciding[t] = q /\ ~IsDurableTerminal(r) /\ runs[r] \in {"running", "interrupted"}
        /\ r \in Runs /\ t \in Threads /\ q # None
    BY <1>1 DEF Resumable, Typed
  <1>3. \A s \in Runs : ThreadOf[s] = t => runs[s] # "running"
    BY <1>2, NobodyRuns
  <1>4. runs[r] # "running" /\ events[r] # <<>>
    BY <1>2, <1>3 DEF StoryInv, Story
  <1>5. Last(events[r]) \notin {"started", "resumed"}
    BY <1>2, <1>4 DEF StoryInv, Story
  <1>6. Last(events[r]) \in EventKinds /\ Last(events[r]) \notin Terminals
    <2>1. events[r] \in Seq(EventKinds) /\ Len(events[r]) \in DOMAIN events[r]
      BY <1>1, <1>2, <1>4 DEF Typed
    <2>2. QED
      BY <1>2, <2>1 DEF IsDurableTerminal, Last
  <1>7. Last(events[r]) = "paused"
    BY <1>5, <1>6 DEF EventKinds
  <1>8. driver[t] = r
    BY <1>1, <1>2 DEF Leases, DecidingHasLease
  <1>9. QED
    BY <1>2, <1>3, <1>4, <1>7, <1>8

LEMMA CommitResumeTold ==
  ASSUME PersistenceAssumption, IInv, StoryInv, NEW q \in Requests, CommitResume(q)
  PROVE  StoryInv'
  <1> DEFINE r == RunOf[q]
  <1>1. Typed /\ TypeOK
    BY TypedFacts DEF IInv
  <1>2. /\ r \in Runs /\ events[r] # <<>> /\ Last(events[r]) = "paused"
        /\ \A s \in Runs : ThreadOf[s] = ThreadOf[r] => runs[s] # "running"
    BY DecidedIsPaused DEF CommitResume
  <1>3. /\ requests[q] = "pending" /\ runs' = [runs EXCEPT ![r] = "running"]
        /\ Record(r, "resumed") /\ threads' = [threads EXCEPT ![ThreadOf[r]] = "busy"]
        /\ UNCHANGED <<driver, recovery, app>>
        /\ \E decision \in {"approved", "corrected"} :
             requests' = [requests EXCEPT ![q] = decision]
    BY DEF CommitResume, Resumable, Granted, Decide
  <1>4. /\ requests'[q] \in {"approved", "corrected"}
        /\ \A p \in Requests \ {q} : requests'[p] = requests[p]
    BY <1>1, <1>3 DEF Typed
  <1>5. /\ events'[r] = Append(events[r], "resumed") /\ runs'[r] = "running"
        /\ \A s \in Runs \ {r} : Silent(s)
    <2>1. \A p \in Requests : RunOf[p] # r => requests'[p] = requests[p]
      BY <1>4
    <2> HIDE DEF r
    <2>2. QED
      BY <1>1, <1>2, <1>3, <2>1, OneTells
  <1>6. q \notin Grants(r) /\ Grants(r)' = Grants(r) \union {q}
    BY <1>3, <1>4 DEF Grants
  <1>7. "resumed" \in EventKinds /\ LifecycleFollows("paused", "resumed")
    BY DEF EventKinds, LifecycleFollows
  <1> HIDE DEF r
  <1>8. Tells(r, "resumed")
    BY <1>2, <1>5, <1>6, <1>7 DEF Tells
  <1>9. \A s \in Runs : Story(s)' /\ Counted(s)'
    BY <1>1, <1>5, <1>7, <1>8, StoriesGoOn DEF GoesOn
  <1>10. ThreadFollowsRun'
    BY <1>1, <1>2, <1>3, ThreadMoves DEF StoryInv
  <1>11. QED
    BY <1>3, <1>9, <1>10 DEF StoryInv, DrivenIsOpen

LEMMA CommitDeclineTold ==
  ASSUME PersistenceAssumption, IInv, StoryInv, NEW q \in Requests, CommitDecline(q)
  PROVE  StoryInv'
  <1> DEFINE r == RunOf[q]
  <1>1. Typed /\ TypeOK
    BY TypedFacts DEF IInv
  <1>2. /\ r \in Runs /\ events[r] # <<>> /\ Last(events[r]) = "paused"
        /\ \A s \in Runs : ThreadOf[s] = ThreadOf[r] => runs[s] # "running"
    BY DecidedIsPaused DEF CommitDecline
  <1>3. /\ requests[q] = "pending" /\ requests' = [requests EXCEPT ![q] = "user_declined"]
        /\ runs' = [runs EXCEPT ![r] = "cancelled"] /\ Record(r, "cancelled")
        /\ threads' = [threads EXCEPT ![ThreadOf[r]] = "idle"]
        /\ Release(ThreadOf[r]) /\ UNCHANGED <<recovery, app>>
    BY DEF CommitDecline, Resumable, Decide
  <1>4. /\ requests'[q] = "user_declined"
        /\ \A p \in Requests \ {q} : requests'[p] = requests[p]
    BY <1>1, <1>3 DEF Typed
  <1>5. Grants(r)' = Grants(r)
    BY <1>3, <1>4 DEF Grants
  <1>6. /\ events'[r] = Append(events[r], "cancelled") /\ runs'[r] = "cancelled"
        /\ \A s \in Runs \ {r} : Silent(s)
    <2>1. \A p \in Requests : RunOf[p] # r => requests'[p] = requests[p]
      BY <1>4
    <2> HIDE DEF r
    <2>2. QED
      BY <1>1, <1>2, <1>3, <2>1, OneTells
  <1> HIDE DEF r
  <1>7. "cancelled" \in EventKinds /\ LifecycleFollows("paused", "cancelled")
    BY DEF EventKinds, Terminals, LifecycleFollows
  <1>8. Tells(r, "cancelled")
    BY <1>2, <1>5, <1>6, <1>7 DEF Tells
  <1>9. \A s \in Runs : Story(s)' /\ Counted(s)'
    BY <1>1, <1>6, <1>7, <1>8, StoriesGoOn DEF GoesOn
  <1>10. ThreadFollowsRun'
    BY <1>1, <1>2, <1>3, ThreadMoves DEF StoryInv
  <1>11. DrivenIsOpen'
    BY <1>1, <1>3 DEF StoryInv, DrivenIsOpen, Release, Typed
  <1>12. QED
    BY <1>9, <1>10, <1>11 DEF StoryInv

\* Recovery ends or pauses every running run, and leaves no thread busy.
LEMMA RestartTold ==
  ASSUME PersistenceAssumption, IInv, StoryInv, Restart
  PROVE  StoryInv'
  <1>1. Typed /\ TypeOK
    BY TypedFacts DEF IInv
  <1>2. /\ app = "down" /\ app' = "up" /\ UNCHANGED <<requests, driver, recovery>>
        /\ \A r \in Runs :
             /\ runs[r] = "running" =>
                  /\ runs'[r] = Left(r)
                  /\ events'[r] = Append(events[r], FailureEvent(Left(r)))
             /\ runs[r] # "running" => runs'[r] = runs[r] /\ events'[r] = events[r]
             /\ \/ Left(r) = "error" /\ FailureEvent(Left(r)) = "error"
                \/ Left(r) = "interrupted" /\ FailureEvent(Left(r)) = "paused"
    BY RestartEffect DEF Restart
  <1>3. \A r \in Runs : Grants(r)' = Grants(r)
    BY <1>2 DEF Grants
  <1>4. ASSUME NEW r \in Runs PROVE GoesOn(r)
    <2>1. CASE runs[r] # "running"
      BY <1>2, <1>3, <2>1 DEF GoesOn, Silent
    <2>2. CASE runs[r] = "running"
      <3> DEFINE kind == FailureEvent(Left(r))
      <3>1. kind \in {"error", "paused"} /\ runs'[r] \in {"error", "interrupted"}
            /\ events'[r] = Append(events[r], kind)
        BY <1>2, <2>2
      <3>2. events[r] # <<>> /\ Last(events[r]) \in {"started", "resumed"}
        BY <2>2 DEF StoryInv, Story
      <3>3. kind \in EventKinds /\ LifecycleFollows(Last(events[r]), kind)
        BY <3>1, <3>2 DEF EventKinds, Terminals, LifecycleFollows
      <3> HIDE DEF kind
      <3>4. Tells(r, kind)
        BY <1>3, <3>1, <3>2, <3>3 DEF Tells
      <3>5. QED
        BY <3>3, <3>4 DEF GoesOn
    <2>3. QED
      BY <2>1, <2>2
  <1>5. \A r \in Runs : Story(r)' /\ Counted(r)'
    BY <1>1, <1>4, StoriesGoOn
  <1>6. \A r \in Runs : runs'[r] # "running"
    BY <1>2
  <1>7. \A t \in Threads : threads'[t] # "busy"
    <2>1. threads' = [t \in Threads |->
             IF \E r \in Running : ThreadOf[r] = t
               THEN Left(CHOOSE r \in Running : ThreadOf[r] = t)
               ELSE IF threads[t] = "busy" THEN "interrupted" ELSE threads[t]]
      BY <1>2 DEF Restart
    <2>2. \A t \in Threads : (\E r \in Running : ThreadOf[r] = t) =>
            (CHOOSE r \in Running : ThreadOf[r] = t) \in Runs
      BY DEF Running
    <2>3. \A r \in Runs : Left(r) \in {"error", "interrupted"}
      BY <1>2
    <2>4. QED
      BY <2>1, <2>2, <2>3
  <1>8. ThreadFollowsRun' /\ DrivenIsOpen'
    BY <1>2, <1>6, <1>7 DEF ThreadFollowsRun, Running, StoryInv, DrivenIsOpen
  <1>9. QED
    BY <1>5, <1>8 DEF StoryInv

\* The steps that write no event: checkpoints, leases and the crash.
LEMMA QuietTold ==
  ASSUME PersistenceAssumption, IInv, StoryInv,
         \/ \E r \in Runs : PutProgress(r) \/ GiveUp(r) \/ \E q \in Requests : PutInterrupt(r, q)
         \/ \E q \in Requests : ClaimResume(q) \/ AbandonResume(q)
         \/ Crash \/ UNCHANGED vars
  PROVE  StoryInv'
  <1>1. Typed /\ TypeOK
    BY TypedFacts DEF IInv
  <1>2. UNCHANGED <<runs, events, threads>>
    BY DEF PutProgress, GiveUp, PutInterrupt, ClaimResume, AbandonResume, Crash, vars, tables
  <1>3. \A q \in Requests : requests'[q] \in {"approved", "corrected"}
                              <=> requests[q] \in {"approved", "corrected"}
    <2>1. CASE \E r \in Runs, q \in Requests : PutInterrupt(r, q)
      BY <1>1, <2>1 DEF PutInterrupt, Upserted, Typed
    <2>2. CASE UNCHANGED requests
      BY <2>2
    <2>3. QED
      BY <2>1, <2>2 DEF PutProgress, GiveUp, ClaimResume, AbandonResume, Crash, vars, tables
  <1>4. DrivenIsOpen'
    <2>1. CASE \E r \in Runs : GiveUp(r)
      BY <1>1, <2>1 DEF GiveUp, Drives, Release, Unsaved, StoryInv, DrivenIsOpen, Typed
    <2>2. CASE \E q \in Requests : ClaimResume(q)
      BY <1>1, <2>2 DEF ClaimResume, Free, StoryInv, DrivenIsOpen, Typed
    <2>3. CASE \E q \in Requests : AbandonResume(q)
      BY <1>1, <2>3 DEF AbandonResume, Release, StoryInv, DrivenIsOpen, Typed
    <2>4. CASE Crash
      BY <2>4 DEF Crash, DrivenIsOpen
    <2>5. QED
      BY <2>1, <2>2, <2>3, <2>4 DEF PutProgress, PutInterrupt, vars, memory, StoryInv,
                                    DrivenIsOpen
  <1>5. QED
    BY <1>1, <1>2, <1>3, <1>4, NothingTold DEF StoryInv

LEMMA StoryInductive ==
  ASSUME PersistenceAssumption, IInv, StoryInv, [Next]_vars
  PROVE  StoryInv'
  <1>1. ASSUME NEW r \in Runs, Pause(r) \/ Complete(r) \/ Stop(r) PROVE StoryInv'
    <2>1. PICK kind \in {"paused", "success", "aborted", "cancelled"} : CommitTerminal(r, kind)
      BY <1>1 DEF Pause, Complete, Stop
    <2>2. kind \in {"paused"} \union Terminals
      BY DEF Terminals
    <2>3. QED
      BY <2>1, <2>2, CommitTerminalTold
  <1>2. QED
    BY <1>1, BeginRunTold, FailTold, CommitResumeTold, CommitDeclineTold, RestartTold,
       QuietTold DEF Next

LEMMA StoryInitially == PersistenceAssumption /\ Init => StoryInv
  <1> SUFFICES ASSUME PersistenceAssumption, Init PROVE StoryInv
    OBVIOUS
  <1>1. ASSUME NEW r \in Runs PROVE Story(r) /\ Counted(r)
    <2>1. events[r] = <<>> /\ runs[r] = "absent" /\ DOMAIN events[r] = {}
      BY DEF Init
    <2>2. Resumptions(r) = {} /\ Grants(r) = {}
      BY <2>1 DEF Resumptions, Grants, Init
    <2>3. QED
      BY <2>1, <2>2, FS_EmptySet DEF Story, Counted
  <1>2. ThreadFollowsRun /\ DrivenIsOpen
    BY DEF Init, ThreadFollowsRun, Running, DrivenIsOpen
  <1>3. QED
    BY <1>1, <1>2 DEF StoryInv

\* The stories, the counts of grants and the threads agree in every reachable state.
THEOREM StoriesInductive == Spec => []StoryInv
  <1>1. Init => StoryInv
    BY PersistenceAssumption, StoryInitially
  <1>2. IInv /\ StoryInv /\ [Next]_vars => StoryInv'
    BY PersistenceAssumption, StoryInductive
  <1>3. QED
    BY <1>1, <1>2, Inductive, PTL DEF Spec

\* The tables tell one story: the events of a run alternate and agree with its status, a
\* thread is busy exactly while its one running run is, and a run went on as often as its
\* approvals were granted.
THEOREM RecordsAlwaysAgree == Spec => []RecordsAgree
  <1>1. IInv /\ StoryInv => RecordsAgree
    <2> SUFFICES ASSUME IInv, StoryInv PROVE RecordsAgree
      OBVIOUS
    <2>1. TypeOK /\ ThreadFollowsRun
      BY DEF IInv, StoryInv
    <2>2. LifecycleAlternates
      BY DEF StoryInv, Story, LifecycleAlternates, Last
    <2>3. ResumedByDecision
      BY DEF StoryInv, Counted, Resumptions, Grants, ResumedByDecision
    <2>4. QED
      BY <2>1, <2>2, <2>3 DEF RecordsAgree
  <1>2. QED
    BY <1>1, Inductive, StoriesInductive, PTL
=============================================================================
