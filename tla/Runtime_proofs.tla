--------------------------- MODULE Runtime_proofs ---------------------------
(***************************************************************************)
(* Proofs about the two ends of a run: the runtime thread that owns it in   *)
(* the main process (RuntimeThread), for any threads, operations and        *)
(* callers, and the window that follows it (RuntimeClient), for any bounds. *)
(*                                                                         *)
(* RegistryOwnership is not inductive: a settlement is harmless only        *)
(* because its operation is still live, a commit may begin only because the *)
(* handle is live, and whoever begins it has waited for the stream, which   *)
(* rests on the abort signal being up before any call that found no         *)
(* execution to wait for. IInv gathers those facts. What is answered rests  *)
(* on AnswerInv besides, and the refinement of ThreadLease on both.         *)
(*                                                                         *)
(* What a window shows is no less than its revision stands for because      *)
(* events of a range, applied to what an earlier revision stands for, say   *)
(* what the whole log does: the last of them that is about the run decides, *)
(* and if there is none nothing has changed. A snapshot is applied only     *)
(* when it takes nothing back.                                              *)
(***************************************************************************)
EXTENDS RuntimeThread, RuntimeClient, FiniteSetTheorems, WellFoundedInduction, TLAPS

-----------------------------------------------------------------------------
(* The runtime thread *)

Finishing == {"closing", "done"}

\* An operation that holds its thread has the entry its phase says.
HolderInv ==
  \A o \in Ops :
    /\ phase[o] \in {"starting", "compensating", "unadmitted"} =>
         Entry(o).owner = o /\ Entry(o).status = "starting"
    /\ phase[o] = "live" =>
         /\ IsRun(o) /\ Entry(o).owner = o
         /\ Entry(o).status \in {"admitted", "executing"}

\* A registry entry is free, or belongs to an operation of its thread that holds it.
EntryInv ==
  \A t \in Threads :
    /\ active[t].owner = NoOp <=> active[t].status = "free"
    /\ active[t].owner # NoOp => ThreadOf[active[t].owner] = t /\ Holds(active[t].owner)

\* Something has been asked of the handle.
Used(o) ==
  \/ exec[o] # "no" \/ commit[o] # "no"
  \/ \E c \in Callers : call[o][c].stage # "no"

\* A handle is used only after its admission, and is live until its commit has settled.
HandleInv ==
  \A o \in Ops :
    /\ Used(o) => HasHandle(o)
    /\ HasHandle(o) => (phase[o] = "live" <=> commit[o] \notin Finishing)

Working(o) == exec[o] \in {"opening", "streaming", "delivering", "drained"}

\* The work runs in the executing entry and is over before a commit begins.
WorkInv ==
  \A o \in Ops : Working(o) => commit[o] = "no" /\ Entry(o).status = "executing"

\* A decision made before execute() raised the signal, so the work never starts; a call
\* that found no execution to wait for was made before execute().
SignalInv ==
  \A o \in Ops :
    /\ exec[o] = "no" /\ (winner[o] # "none" \/ commit[o] # "no") => signalled[o]
    /\ \A c \in Callers :
         /\ call[o][c].stage # "no" => winner[o] # "none"
         /\ call[o][c].stage = "waiting" /\ ~call[o][c].barrier => ~Working(o)

\* A commit that is done has disposed the context; a call returns after the commit.
DoneInv ==
  \A o \in Ops :
    /\ commit[o] = "done" => disposed[o]
    /\ \A c \in Callers : call[o][c].stage = "returned" => commit[o] = "done"

IInv ==
  /\ TypeOK
  /\ HolderInv
  /\ EntryInv
  /\ HandleInv
  /\ WorkInv
  /\ SignalInv
  /\ DoneInv

-----------------------------------------------------------------------------
(* Type correctness.                                                       *)

\* The entries the registry may come to hold for an operation.
LEMMA EntryTypes ==
  ASSUME ConstantsAssumption, NEW o \in Ops
  PROVE  /\ ThreadOf[o] \in Threads
         /\ FreeEntry \in Entries
         /\ [status |-> "starting", owner |-> o] \in Entries
         /\ [status |-> "admitted", owner |-> o] \in Entries
         /\ [status |-> "executing", owner |-> o] \in Entries
  BY DEF ConstantsAssumption, FreeEntry, Entries

\* Every step keeps the types, group by group.
LEMMA TypeNext ==
  ASSUME ConstantsAssumption, TypeOK, [Next]_vars
  PROVE  TypeOK'
  <1>0. RegistryType /\ ExecType /\ RefereeType /\ CallType
    BY DEF TypeOK
  <1>1. ASSUME NEW o \in Ops, Reserve(o) PROVE TypeOK'
    <2>1. RegistryType'
      BY <1>0, <1>1, EntryTypes DEF RegistryType, Reserve, Phases
    <2>2. ExecType'
      BY <1>0, <1>1 DEF ExecType, Reserve, registryVars, execVars, refereeVars
    <2>3. RefereeType'
      BY <1>0, <1>1 DEF RefereeType, Reserve, registryVars, execVars, refereeVars
    <2>4. CallType'
      BY <1>0, <1>1 DEF CallType, Reserve, registryVars, execVars, refereeVars
    <2>5. QED
      BY <2>1, <2>2, <2>3, <2>4 DEF TypeOK
  <1>2. ASSUME NEW o \in Ops, Admit(o) PROVE TypeOK'
    <2>1. RegistryType'
      BY <1>0, <1>2, EntryTypes DEF RegistryType, Admit, Begun, Phases
    <2>2. ExecType'
      BY <1>0, <1>2 DEF ExecType, Admit, registryVars, execVars, refereeVars
    <2>3. RefereeType'
      BY <1>0, <1>2 DEF RefereeType, Admit, Begun, Intents
    <2>4. CallType'
      BY <1>0, <1>2 DEF CallType, Admit, registryVars, execVars, refereeVars
    <2>5. QED
      BY <2>1, <2>2, <2>3, <2>4 DEF TypeOK
  <1>3. ASSUME NEW o \in Ops, BeginFails(o) PROVE TypeOK'
    <2>1. RegistryType'
      BY <1>0, <1>3, EntryTypes DEF RegistryType, BeginFails, ReleaseReservation, Phases
    <2>2. ExecType'
      BY <1>0, <1>3 DEF ExecType, BeginFails, registryVars, execVars, refereeVars
    <2>3. RefereeType'
      BY <1>0, <1>3 DEF RefereeType, BeginFails, registryVars, execVars, refereeVars
    <2>4. CallType'
      BY <1>0, <1>3 DEF CallType, BeginFails, registryVars, execVars, refereeVars
    <2>5. QED
      BY <2>1, <2>2, <2>3, <2>4 DEF TypeOK
  <1>4. ASSUME NEW o \in Ops, AdmissionFails(o) PROVE TypeOK'
    <2>1. RegistryType'
      BY <1>0, <1>4, EntryTypes DEF RegistryType, AdmissionFails, Begun, Phases
    <2>2. ExecType'
      BY <1>0, <1>4 DEF ExecType, AdmissionFails, registryVars, execVars, refereeVars
    <2>3. RefereeType'
      BY <1>0, <1>4 DEF RefereeType, AdmissionFails, Begun, Intents
    <2>4. CallType'
      BY <1>0, <1>4 DEF CallType, AdmissionFails, registryVars, execVars, refereeVars
    <2>5. QED
      BY <2>1, <2>2, <2>3, <2>4 DEF TypeOK
  <1>5. ASSUME NEW o \in Ops, FailStartedRun(o) PROVE TypeOK'
    <2>1. RegistryType'
      BY <1>0, <1>5, EntryTypes DEF RegistryType, FailStartedRun, Phases
    <2>2. ExecType'
      BY <1>0, <1>5 DEF ExecType, FailStartedRun, registryVars, execVars, refereeVars
    <2>3. RefereeType'
      BY <1>0, <1>5 DEF RefereeType, FailStartedRun, Intents
    <2>4. CallType'
      BY <1>0, <1>5 DEF CallType, FailStartedRun, registryVars, execVars, refereeVars
    <2>5. QED
      BY <2>1, <2>2, <2>3, <2>4 DEF TypeOK
  <1>6. ASSUME NEW o \in Ops, ReleaseUnadmitted(o) PROVE TypeOK'
    <2>1. RegistryType'
      BY <1>0, <1>6, EntryTypes DEF RegistryType, ReleaseUnadmitted, ReleaseReservation, Phases
    <2>2. ExecType'
      BY <1>0, <1>6 DEF ExecType, ReleaseUnadmitted, registryVars, execVars, refereeVars
    <2>3. RefereeType'
      BY <1>0, <1>6 DEF RefereeType, ReleaseUnadmitted, registryVars, execVars, refereeVars
    <2>4. CallType'
      BY <1>0, <1>6 DEF CallType, ReleaseUnadmitted, registryVars, execVars, refereeVars
    <2>5. QED
      BY <2>1, <2>2, <2>3, <2>4 DEF TypeOK
  <1>7. ASSUME NEW o \in Ops, CompactReturns(o) PROVE TypeOK'
    <2>1. RegistryType'
      BY <1>0, <1>7, EntryTypes DEF RegistryType, CompactReturns, ReleaseReservation, Phases
    <2>2. ExecType'
      BY <1>0, <1>7 DEF ExecType, CompactReturns, registryVars, execVars, refereeVars
    <2>3. RefereeType'
      BY <1>0, <1>7 DEF RefereeType, CompactReturns, registryVars, execVars, refereeVars
    <2>4. CallType'
      BY <1>0, <1>7 DEF CallType, CompactReturns, registryVars, execVars, refereeVars
    <2>5. QED
      BY <2>1, <2>2, <2>3, <2>4 DEF TypeOK
  <1>8. ASSUME NEW o \in Ops, ExecuteDisposed(o) PROVE TypeOK'
    <2>1. RegistryType'
      BY <1>0, <1>8 DEF RegistryType, ExecuteDisposed, registryVars, execVars, refereeVars
    <2>2. ExecType'
      BY <1>0, <1>8 DEF ExecType, ExecuteDisposed, ExecStages
    <2>3. RefereeType'
      BY <1>0, <1>8 DEF RefereeType, ExecuteDisposed, registryVars, execVars, refereeVars
    <2>4. CallType'
      BY <1>0, <1>8 DEF CallType, ExecuteDisposed, registryVars, execVars, refereeVars
    <2>5. QED
      BY <2>1, <2>2, <2>3, <2>4 DEF TypeOK
  <1>9. ASSUME NEW o \in Ops, ExecuteTerminal(o) PROVE TypeOK'
    <2>1. RegistryType'
      BY <1>0, <1>9 DEF RegistryType, ExecuteTerminal, registryVars, execVars, refereeVars
    <2>2. ExecType'
      BY <1>0, <1>9 DEF ExecType, ExecuteTerminal, Decide, ExecStages, Outcomes
    <2>3. RefereeType'
      BY <1>0, <1>9 DEF RefereeType, ExecuteTerminal, registryVars, execVars, refereeVars
    <2>4. CallType'
      BY <1>0, <1>9 DEF CallType, ExecuteTerminal, registryVars, execVars, refereeVars
    <2>5. QED
      BY <2>1, <2>2, <2>3, <2>4 DEF TypeOK
  <1>10. ASSUME NEW o \in Ops, ExecuteForwarded(o) PROVE TypeOK'
    <2>1. RegistryType'
      BY <1>0, <1>10 DEF RegistryType, ExecuteForwarded, registryVars, execVars, refereeVars
    <2>2. ExecType'
      BY <1>0, <1>10 DEF ExecType, ExecuteForwarded, Decide, ExecStages, Outcomes
    <2>3. RefereeType'
      BY <1>0, <1>10 DEF RefereeType, ExecuteForwarded, Submit, Judged, Intents
    <2>4. CallType'
      BY <1>0, <1>10 DEF CallType, ExecuteForwarded, registryVars, execVars, refereeVars
    <2>5. QED
      BY <2>1, <2>2, <2>3, <2>4 DEF TypeOK
  <1>11. ASSUME NEW o \in Ops, ExecuteSignalled(o) PROVE TypeOK'
    <2>1. RegistryType'
      BY <1>0, <1>11 DEF RegistryType, ExecuteSignalled, registryVars, execVars, refereeVars
    <2>2. ExecType'
      BY <1>0, <1>11 DEF ExecType, ExecuteSignalled, Decide, ExecStages, Outcomes
    <2>3. RefereeType'
      BY <1>0, <1>11 DEF RefereeType, ExecuteSignalled, registryVars, execVars, refereeVars
    <2>4. CallType'
      BY <1>0, <1>11 DEF CallType, ExecuteSignalled, registryVars, execVars, refereeVars
    <2>5. QED
      BY <2>1, <2>2, <2>3, <2>4 DEF TypeOK
  <1>12. ASSUME NEW o \in Ops, ExecuteWork(o) PROVE TypeOK'
    <2>1. RegistryType'
      BY <1>0, <1>12, EntryTypes DEF RegistryType, ExecuteWork, StartWork
    <2>2. ExecType'
      BY <1>0, <1>12 DEF ExecType, ExecuteWork, StartWork, ExecStages, Outcomes
    <2>3. RefereeType'
      BY <1>0, <1>12 DEF RefereeType, ExecuteWork, registryVars, execVars, refereeVars
    <2>4. CallType'
      BY <1>0, <1>12 DEF CallType, ExecuteWork, registryVars, execVars, refereeVars
    <2>5. QED
      BY <2>1, <2>2, <2>3, <2>4 DEF TypeOK
  <1>13. ASSUME NEW o \in Ops, StreamOpens(o) PROVE TypeOK'
    <2>1. RegistryType'
      BY <1>0, <1>13 DEF RegistryType, StreamOpens, registryVars, execVars, refereeVars
    <2>2. ExecType'
      BY <1>0, <1>13 DEF ExecType, StreamOpens, ExecStages
    <2>3. RefereeType'
      BY <1>0, <1>13 DEF RefereeType, StreamOpens, registryVars, execVars, refereeVars
    <2>4. CallType'
      BY <1>0, <1>13 DEF CallType, StreamOpens, registryVars, execVars, refereeVars
    <2>5. QED
      BY <2>1, <2>2, <2>3, <2>4 DEF TypeOK
  <1>14. ASSUME NEW o \in Ops, ChunkDelivered(o) PROVE TypeOK'
    <2>1. RegistryType'
      BY <1>0, <1>14 DEF RegistryType, ChunkDelivered, registryVars, execVars, refereeVars
    <2>2. ExecType'
      BY <1>0, <1>14 DEF ExecType, ChunkDelivered, ExecStages, Outcomes
    <2>3. RefereeType'
      BY <1>0, <1>14 DEF RefereeType, ChunkDelivered, registryVars, execVars, refereeVars
    <2>4. CallType'
      BY <1>0, <1>14 DEF CallType, ChunkDelivered, registryVars, execVars, refereeVars
    <2>5. QED
      BY <2>1, <2>2, <2>3, <2>4 DEF TypeOK
  <1>15. ASSUME NEW o \in Ops, WorkThrows(o) PROVE TypeOK'
    <2>1. RegistryType'
      BY <1>0, <1>15 DEF RegistryType, WorkThrows, registryVars, execVars, refereeVars
    <2>2. ExecType'
      BY <1>0, <1>15 DEF ExecType, WorkThrows, Decide, ExecStages, Outcomes
    <2>3. RefereeType'
      BY <1>0, <1>15 DEF RefereeType, WorkThrows, registryVars, execVars, refereeVars
    <2>4. CallType'
      BY <1>0, <1>15 DEF CallType, WorkThrows, registryVars, execVars, refereeVars
    <2>5. QED
      BY <2>1, <2>2, <2>3, <2>4 DEF TypeOK
  <1>16. ASSUME NEW o \in Ops, WorkReturns(o) PROVE TypeOK'
    <2>1. RegistryType'
      BY <1>0, <1>16 DEF RegistryType, WorkReturns, registryVars, execVars, refereeVars
    <2>2. ExecType'
      BY <1>0, <1>16 DEF ExecType, WorkReturns, Decide, ExecStages, Outcomes
    <2>3. RefereeType'
      BY <1>0, <1>16 DEF RefereeType, WorkReturns, registryVars, execVars, refereeVars
    <2>4. CallType'
      BY <1>0, <1>16 DEF CallType, WorkReturns, registryVars, execVars, refereeVars
    <2>5. QED
      BY <2>1, <2>2, <2>3, <2>4 DEF TypeOK
  <1>17. ASSUME NEW o \in Ops, ExecutionCommits(o) PROVE TypeOK'
    <2>1. RegistryType'
      BY <1>0, <1>17 DEF RegistryType, ExecutionCommits, registryVars, execVars, refereeVars
    <2>2. ExecType'
      BY <1>0, <1>17 DEF ExecType, ExecutionCommits, ExecStages
    <2>3. RefereeType'
      BY <1>0, <1>17 DEF RefereeType, ExecutionCommits, Submit, Judged, BeginCommit,
                          Intents, Outcomes, CommitStages, ExecType
    <2>4. CallType'
      BY <1>0, <1>17 DEF CallType, ExecutionCommits, registryVars, execVars, refereeVars
    <2>5. QED
      BY <2>1, <2>2, <2>3, <2>4 DEF TypeOK
  <1>18. ASSUME NEW o \in Ops, ExecutionReturns(o) PROVE TypeOK'
    <2>1. RegistryType'
      BY <1>0, <1>18 DEF RegistryType, ExecutionReturns, registryVars, execVars, refereeVars
    <2>2. ExecType'
      BY <1>0, <1>18 DEF ExecType, ExecutionReturns, ExecStages
    <2>3. RefereeType'
      BY <1>0, <1>18 DEF RefereeType, ExecutionReturns, registryVars, execVars, refereeVars
    <2>4. CallType'
      BY <1>0, <1>18 DEF CallType, ExecutionReturns, registryVars, execVars, refereeVars
    <2>5. QED
      BY <2>1, <2>2, <2>3, <2>4 DEF TypeOK
  <1>19. ASSUME NEW o \in Ops, ChunkArrives(o) PROVE TypeOK'
    <2>1. RegistryType'
      BY <1>0, <1>19 DEF RegistryType, ChunkArrives, registryVars, execVars, refereeVars
    <2>2. ExecType'
      BY <1>0, <1>19 DEF ExecType, ChunkArrives, ExecStages
    <2>3. RefereeType'
      BY <1>0, <1>19 DEF RefereeType, ChunkArrives, registryVars, execVars, refereeVars
    <2>4. CallType'
      BY <1>0, <1>19 DEF CallType, ChunkArrives, registryVars, execVars, refereeVars
    <2>5. QED
      BY <2>1, <2>2, <2>3, <2>4 DEF TypeOK
  <1>20. ASSUME NEW o \in Ops, StreamEnds(o) PROVE TypeOK'
    <2>1. RegistryType'
      BY <1>0, <1>20 DEF RegistryType, StreamEnds, registryVars, execVars, refereeVars
    <2>2. ExecType'
      BY <1>0, <1>20 DEF ExecType, StreamEnds, ExecStages
    <2>3. RefereeType'
      BY <1>0, <1>20 DEF RefereeType, StreamEnds, registryVars, execVars, refereeVars
    <2>4. CallType'
      BY <1>0, <1>20 DEF CallType, StreamEnds, registryVars, execVars, refereeVars
    <2>5. QED
      BY <2>1, <2>2, <2>3, <2>4 DEF TypeOK
  <1>21. ASSUME NEW o \in Ops, SignalFires(o) PROVE TypeOK'
    <2>1. RegistryType'
      BY <1>0, <1>21 DEF RegistryType, SignalFires, registryVars, execVars, refereeVars
    <2>2. ExecType'
      BY <1>0, <1>21 DEF ExecType, SignalFires
    <2>3. RefereeType'
      BY <1>0, <1>21 DEF RefereeType, SignalFires, Submit, Judged, Intents
    <2>4. CallType'
      BY <1>0, <1>21 DEF CallType, SignalFires, registryVars, execVars, refereeVars
    <2>5. QED
      BY <2>1, <2>2, <2>3, <2>4 DEF TypeOK
  <1>22. ASSUME NEW o \in Ops, Persist(o) PROVE TypeOK'
    <2>1. RegistryType'
      BY <1>0, <1>22 DEF RegistryType, Persist, registryVars, execVars, refereeVars
    <2>2. ExecType'
      BY <1>0, <1>22 DEF ExecType, Persist, registryVars, execVars, refereeVars
    <2>3. RefereeType'
      BY <1>0, <1>22 DEF RefereeType, Persist, Intents, Results, Facts, CommitStages
    <2>4. CallType'
      BY <1>0, <1>22 DEF CallType, Persist, registryVars, execVars, refereeVars
    <2>5. QED
      BY <2>1, <2>2, <2>3, <2>4 DEF TypeOK
  <1>23. ASSUME NEW o \in Ops, PersistFails(o) PROVE TypeOK'
    <2>1. RegistryType'
      BY <1>0, <1>23 DEF RegistryType, PersistFails, registryVars, execVars, refereeVars
    <2>2. ExecType'
      BY <1>0, <1>23 DEF ExecType, PersistFails, registryVars, execVars, refereeVars
    <2>3. RefereeType'
      BY <1>0, <1>23 DEF RefereeType, PersistFails, Results, CommitStages
    <2>4. CallType'
      BY <1>0, <1>23 DEF CallType, PersistFails, registryVars, execVars, refereeVars
    <2>5. QED
      BY <2>1, <2>2, <2>3, <2>4 DEF TypeOK
  <1>24. ASSUME NEW o \in Ops, PersistDowngrades(o) PROVE TypeOK'
    <2>1. RegistryType'
      BY <1>0, <1>24 DEF RegistryType, PersistDowngrades, registryVars, execVars, refereeVars
    <2>2. ExecType'
      BY <1>0, <1>24 DEF ExecType, PersistDowngrades, registryVars, execVars, refereeVars
    <2>3. RefereeType'
      BY <1>0, <1>24 DEF RefereeType, PersistDowngrades, Intents, Results, Facts, CommitStages
    <2>4. CallType'
      BY <1>0, <1>24 DEF CallType, PersistDowngrades, registryVars, execVars, refereeVars
    <2>5. QED
      BY <2>1, <2>2, <2>3, <2>4 DEF TypeOK
  <1>25. ASSUME NEW o \in Ops, FailCompletion(o) PROVE TypeOK'
    <2>1. RegistryType'
      BY <1>0, <1>25 DEF RegistryType, FailCompletion, registryVars, execVars, refereeVars
    <2>2. ExecType'
      BY <1>0, <1>25 DEF ExecType, FailCompletion, registryVars, execVars, refereeVars
    <2>3. RefereeType'
      BY <1>0, <1>25 DEF RefereeType, FailCompletion, Intents, Results, Facts, CommitStages
    <2>4. CallType'
      BY <1>0, <1>25 DEF CallType, FailCompletion, registryVars, execVars, refereeVars
    <2>5. QED
      BY <2>1, <2>2, <2>3, <2>4 DEF TypeOK
  <1>26. ASSUME NEW o \in Ops, Settle(o) PROVE TypeOK'
    <2>1. RegistryType'
      BY <1>0, <1>26, EntryTypes DEF RegistryType, Settle, Phases
    <2>2. ExecType'
      BY <1>0, <1>26 DEF ExecType, Settle
    <2>3. RefereeType'
      BY <1>0, <1>26 DEF RefereeType, Settle, Results, CommitStages
    <2>4. CallType'
      BY <1>0, <1>26 DEF CallType, Settle, registryVars, execVars, refereeVars
    <2>5. QED
      BY <2>1, <2>2, <2>3, <2>4 DEF TypeOK
  <1>27. ASSUME NEW o \in Ops, CloseCommit(o) PROVE TypeOK'
    <2>1. RegistryType'
      BY <1>0, <1>27 DEF RegistryType, CloseCommit, registryVars, execVars, refereeVars
    <2>2. ExecType'
      BY <1>0, <1>27 DEF ExecType, CloseCommit
    <2>3. RefereeType'
      BY <1>0, <1>27 DEF RefereeType, CloseCommit, CommitStages
    <2>4. CallType'
      BY <1>0, <1>27 DEF CallType, CloseCommit, registryVars, execVars, refereeVars
    <2>5. QED
      BY <2>1, <2>2, <2>3, <2>4 DEF TypeOK
  <1>28. ASSUME NEW o \in Ops, NEW c \in Callers, CallControl(o, c) PROVE TypeOK'
    <2>1. RegistryType'
      BY <1>0, <1>28 DEF RegistryType, CallControl, registryVars, execVars, refereeVars
    <2>2. ExecType'
      BY <1>0, <1>28 DEF ExecType, CallControl
    <2>3. RefereeType'
      BY <1>0, <1>28 DEF RefereeType, CallControl, Submit, Judged, StatusOf, Intents
    <2>4. CallType'
      BY <1>0, <1>28 DEF CallType, CallControl, Calls, CallStages
    <2>5. QED
      BY <2>1, <2>2, <2>3, <2>4 DEF TypeOK
  <1>29. ASSUME NEW o \in Ops, NEW c \in Callers, CallCommits(o, c) PROVE TypeOK'
    <2>1. RegistryType'
      BY <1>0, <1>29 DEF RegistryType, CallCommits, registryVars, execVars, refereeVars
    <2>2. ExecType'
      BY <1>0, <1>29 DEF ExecType, CallCommits, registryVars, execVars, refereeVars
    <2>3. RefereeType'
      BY <1>0, <1>29 DEF RefereeType, CallCommits, BeginCommit, CommitStages
    <2>4. CallType'
      BY <1>0, <1>29 DEF CallType, CallCommits, CallAt, Calls, CallStages
    <2>5. QED
      BY <2>1, <2>2, <2>3, <2>4 DEF TypeOK
  <1>30. ASSUME NEW o \in Ops, NEW c \in Callers, CallReturns(o, c) PROVE TypeOK'
    <2>1. RegistryType'
      BY <1>0, <1>30 DEF RegistryType, CallReturns, registryVars, execVars, refereeVars
    <2>2. ExecType'
      BY <1>0, <1>30 DEF ExecType, CallReturns, registryVars, execVars, refereeVars
    <2>3. RefereeType'
      BY <1>0, <1>30 DEF RefereeType, CallReturns, registryVars, execVars, refereeVars
    <2>4. CallType'
      BY <1>0, <1>30 DEF CallType, CallReturns, CallAt, Answer, Calls, CallStages
    <2>5. QED
      BY <2>1, <2>2, <2>3, <2>4 DEF TypeOK
  <1>31. CASE UNCHANGED vars
    BY <1>0, <1>31 DEF TypeOK, RegistryType, ExecType, RefereeType, CallType, vars,
                     registryVars, execVars, refereeVars
  <1>32. QED
    BY <1>1, <1>2, <1>3, <1>4, <1>5, <1>6, <1>7, <1>8, <1>9, <1>10, <1>11,
       <1>12, <1>13, <1>14, <1>15, <1>16, <1>17, <1>18, <1>19, <1>20, <1>21, <1>22, <1>23,
       <1>24, <1>25, <1>26, <1>27, <1>28, <1>29, <1>30, <1>31
    DEF Next, Execute, AdmissionAnswers, WorkAdvances, CommitAdvances

-----------------------------------------------------------------------------
(* The registry.                                                           *)

\* The steps that touch the registry or an operation's phase.
LEMMA RegistrySteps ==
  ASSUME [Next]_vars
  PROVE  \/ UNCHANGED <<active, phase>>
         \/ \E o \in Ops :
              \/ Reserve(o) \/ Admit(o) \/ BeginFails(o) \/ AdmissionFails(o)
              \/ FailStartedRun(o) \/ ReleaseUnadmitted(o) \/ CompactReturns(o)
              \/ ExecuteWork(o) \/ Settle(o)
  BY DEF Next, Execute, AdmissionAnswers, WorkAdvances, CommitAdvances, vars, registryVars,
         execVars, refereeVars, ExecuteDisposed, ExecuteTerminal, ExecuteForwarded,
         ExecuteSignalled, StreamOpens, ChunkDelivered, WorkThrows, WorkReturns,
         ExecutionCommits, ExecutionReturns, ChunkArrives, StreamEnds, SignalFires, Persist,
         PersistFails, PersistDowngrades, FailCompletion, CloseCommit, CallControl,
         CallCommits, CallReturns

\* An operation that settles is still live, so the entry it releases is its own.
LEMMA SettlesOwn ==
  ASSUME HolderInv, HandleInv, NEW o \in Ops, Settle(o)
  PROVE  /\ phase[o] = "live" /\ IsRun(o)
         /\ Entry(o).owner = o /\ SettlesEntry(o)
  <1>1. commit[o] = "settling"
    BY DEF Settle
  <1>2. phase[o] = "live"
    BY <1>1 DEF HandleInv, Used, Finishing
  <1>3. QED
    BY <1>2 DEF HolderInv, SettlesEntry

\* What a step does to the entry of the one thread it is about.
LEMMA RegistryNext ==
  ASSUME ConstantsAssumption, TypeOK, HolderInv, EntryInv, HandleInv, SignalInv, [Next]_vars
  PROVE  HolderInv' /\ EntryInv'
  <1>0. /\ active \in [Threads -> Entries] /\ phase \in [Ops -> Phases]
        /\ ThreadOf \in [Ops -> Threads] /\ NoOp \notin Ops
    BY DEF TypeOK, RegistryType, ConstantsAssumption
  <1>1. CASE UNCHANGED <<active, phase>>
    BY <1>1 DEF HolderInv, EntryInv, Holds, Entry, IsRun
  <1>2. ASSUME NEW o \in Ops, Reserve(o) PROVE HolderInv' /\ EntryInv'
    <2>1. CASE Entry(o).status = "free"
      <3>1. /\ active' = [active EXCEPT ![ThreadOf[o]] = [status |-> "starting", owner |-> o]]
            /\ phase' = [phase EXCEPT ![o] = "starting"]
        BY <1>2, <2>1 DEF Reserve
      <3>2. active[ThreadOf[o]].owner = NoOp
        BY <1>0, <2>1 DEF EntryInv, Entry
      <3>3. HolderInv'
        BY <1>0, <3>1, <3>2 DEF HolderInv, Entry, IsRun
      <3>4. EntryInv'
        BY <1>0, <3>1, <3>2 DEF EntryInv, Holds, HoldingPhases
      <3>5. QED BY <3>3, <3>4
    <2>2. CASE Entry(o).status # "free"
      <3>1. UNCHANGED active /\ phase' = [phase EXCEPT ![o] = "rejected"] /\ phase[o] = "idle"
        BY <1>2, <2>2 DEF Reserve
      <3>2. QED
        BY <1>0, <3>1 DEF HolderInv, EntryInv, Holds, HoldingPhases, Entry, IsRun
    <2>3. QED BY <2>1, <2>2
  <1>3. ASSUME NEW o \in Ops, Admit(o) PROVE HolderInv' /\ EntryInv'
    <2>1. /\ active' = [active EXCEPT ![ThreadOf[o]] = [status |-> "admitted", owner |-> o]]
          /\ phase' = [phase EXCEPT ![o] = "live"]
          /\ active[ThreadOf[o]] = [status |-> "starting", owner |-> o]
          /\ IsRun(o)
      BY <1>3 DEF Admit, Begun, Entry
    <2>2. HolderInv'
      BY <1>0, <2>1 DEF HolderInv, Entry, IsRun
    <2>3. EntryInv'
      BY <1>0, <2>1 DEF EntryInv, Holds, HoldingPhases
    <2>4. QED BY <2>2, <2>3
  <1>4. ASSUME NEW o \in Ops,
               BeginFails(o) \/ ReleaseUnadmitted(o) \/ CompactReturns(o)
        PROVE  HolderInv' /\ EntryInv'
    <2>1. /\ phase[o] \in {"starting", "unadmitted"}
          /\ \E last \in {"rejected", "released"} : phase' = [phase EXCEPT ![o] = last]
          /\ ReleaseReservation(o)
      BY <1>4 DEF BeginFails, ReleaseUnadmitted, CompactReturns
    <2>2. Entry(o) = [status |-> "starting", owner |-> o]
      BY <1>0, <2>1 DEF HolderInv, Entry, Entries
    <2>3. active' = [active EXCEPT ![ThreadOf[o]] = FreeEntry]
      BY <2>1, <2>2 DEF ReleaseReservation
    <2>4. active[ThreadOf[o]].owner = o
      BY <2>2 DEF Entry
    <2>5. HolderInv'
      BY <1>0, <2>1, <2>3, <2>4 DEF HolderInv, Entry, IsRun, FreeEntry
    <2>6. EntryInv'
      BY <1>0, <2>1, <2>3, <2>4 DEF EntryInv, Holds, HoldingPhases, FreeEntry
    <2>7. QED BY <2>5, <2>6
  <1>5. ASSUME NEW o \in Ops, AdmissionFails(o) \/ FailStartedRun(o)
        PROVE  HolderInv' /\ EntryInv'
    <2>1. /\ phase[o] \in {"starting", "compensating"} /\ UNCHANGED active
          /\ \E next \in {"compensating", "unadmitted"} : phase' = [phase EXCEPT ![o] = next]
      BY <1>5 DEF AdmissionFails, Begun, FailStartedRun
    <2>2. QED
      BY <1>0, <2>1 DEF HolderInv, EntryInv, Holds, HoldingPhases, Entry, IsRun
  <1>6. ASSUME NEW o \in Ops, ExecuteWork(o) PROVE HolderInv' /\ EntryInv'
    <2>1. CASE ~Activates(o)
      BY <1>6, <2>1 DEF ExecuteWork, StartWork, HolderInv, EntryInv, Holds, Entry, IsRun
    <2>2. CASE Activates(o)
      <3>1. /\ active' = [active EXCEPT ![ThreadOf[o]] = [status |-> "executing", owner |-> o]]
            /\ UNCHANGED phase
            /\ HasHandle(o) /\ active[ThreadOf[o]].status = "admitted"
            /\ exec[o] = "no" /\ ~signalled[o]
        BY <1>6, <2>2 DEF ExecuteWork, StartWork, Activates, Entry
      <3>2. commit[o] = "no"
        BY <3>1 DEF SignalInv
      <3>3. phase[o] = "live" /\ IsRun(o)
        BY <3>1, <3>2 DEF HandleInv, HasHandle, Finishing
      <3>4. active[ThreadOf[o]].owner = o
        BY <3>3 DEF HolderInv, Entry
      <3>5. HolderInv'
        BY <1>0, <3>1, <3>3, <3>4 DEF HolderInv, Entry, IsRun
      <3>6. EntryInv'
        BY <1>0, <3>1, <3>3, <3>4 DEF EntryInv, Holds, HoldingPhases
      <3>7. QED BY <3>5, <3>6
    <2>3. QED BY <2>1, <2>2
  <1>7. ASSUME NEW o \in Ops, Settle(o) PROVE HolderInv' /\ EntryInv'
    <2>1. /\ active' = [active EXCEPT ![ThreadOf[o]] = FreeEntry]
          /\ phase' = [phase EXCEPT ![o] = "released"]
      BY <1>7, SettlesOwn DEF Settle
    <2>2. active[ThreadOf[o]].owner = o /\ phase[o] = "live"
      BY <1>7, SettlesOwn DEF Entry
    <2>3. HolderInv'
      BY <1>0, <2>1, <2>2 DEF HolderInv, Entry, IsRun, FreeEntry
    <2>4. EntryInv'
      BY <1>0, <2>1, <2>2 DEF EntryInv, Holds, HoldingPhases, FreeEntry
    <2>5. QED BY <2>3, <2>4
  <1>8. QED
    BY <1>1, <1>2, <1>3, <1>4, <1>5, <1>6, <1>7, RegistrySteps

\* Uses of a handle come after its admission, and its release with its settlement.
LEMMA HandleNext ==
  ASSUME ConstantsAssumption, TypeOK, HandleInv, [Next]_vars
  PROVE  HandleInv'
  <1>0. /\ phase \in [Ops -> Phases]
        /\ exec \in [Ops -> ExecStages]
        /\ commit \in [Ops -> CommitStages]
        /\ call \in [Ops -> [Callers -> Calls]]
    BY DEF TypeOK, CallType, ExecType, RefereeType, RegistryType
  <1>1. CASE UNCHANGED <<phase, exec, commit, call>>
    BY <1>1 DEF HandleInv, Used, HasHandle, IsRun, Finishing
  <1>2. ASSUME NEW o \in Ops,
               SignalFires(o)
        PROVE  UNCHANGED <<phase, exec, commit, call>>
    BY <1>2 DEF registryVars, execVars, refereeVars, SignalFires
  <1>3. ASSUME NEW o \in Ops, Reserve(o) PROVE HandleInv'
    BY <1>0, <1>3 DEF HandleInv, Used, HasHandle, IsRun, Finishing, Reserve,
        registryVars, execVars, refereeVars
  <1>4. ASSUME NEW o \in Ops, Admit(o) PROVE HandleInv'
    BY <1>0, <1>4 DEF HandleInv, Used, HasHandle, IsRun, Finishing, Admit, Begun,
        registryVars, execVars, refereeVars
  <1>5. ASSUME NEW o \in Ops, BeginFails(o) PROVE HandleInv'
    BY <1>0, <1>5 DEF HandleInv, Used, HasHandle, IsRun, Finishing, BeginFails,
        ReleaseReservation, registryVars, execVars, refereeVars
  <1>6. ASSUME NEW o \in Ops, AdmissionFails(o) PROVE HandleInv'
    BY <1>0, <1>6 DEF HandleInv, Used, HasHandle, IsRun, Finishing, AdmissionFails,
        Begun, registryVars, execVars, refereeVars
  <1>7. ASSUME NEW o \in Ops, FailStartedRun(o) PROVE HandleInv'
    BY <1>0, <1>7 DEF HandleInv, Used, HasHandle, IsRun, Finishing, FailStartedRun,
        registryVars, execVars, refereeVars
  <1>8. ASSUME NEW o \in Ops, ReleaseUnadmitted(o) PROVE HandleInv'
    BY <1>0, <1>8 DEF HandleInv, Used, HasHandle, IsRun, Finishing, ReleaseUnadmitted,
        ReleaseReservation, registryVars, execVars, refereeVars
  <1>9. ASSUME NEW o \in Ops, CompactReturns(o) PROVE HandleInv'
    BY <1>0, <1>9 DEF HandleInv, Used, HasHandle, IsRun, Finishing, CompactReturns,
        ReleaseReservation, registryVars, execVars, refereeVars
  <1>10. ASSUME NEW o \in Ops, ExecuteDisposed(o) PROVE HandleInv'
    BY <1>0, <1>10 DEF HandleInv, Used, HasHandle, IsRun, Finishing, ExecuteDisposed,
        registryVars, execVars, refereeVars
  <1>11. ASSUME NEW o \in Ops, ExecuteTerminal(o) PROVE HandleInv'
    BY <1>0, <1>11 DEF HandleInv, Used, HasHandle, IsRun, Finishing, ExecuteTerminal,
        Decide, registryVars, execVars, refereeVars
  <1>12. ASSUME NEW o \in Ops, ExecuteForwarded(o) PROVE HandleInv'
    BY <1>0, <1>12 DEF HandleInv, Used, HasHandle, IsRun, Finishing, ExecuteForwarded,
        Decide, Submit, Judged, Accepts, registryVars, execVars, refereeVars
  <1>13. ASSUME NEW o \in Ops, ExecuteSignalled(o) PROVE HandleInv'
    BY <1>0, <1>13 DEF HandleInv, Used, HasHandle, IsRun, Finishing, ExecuteSignalled,
        Decide, registryVars, execVars, refereeVars
  <1>14. ASSUME NEW o \in Ops, ExecuteWork(o) PROVE HandleInv'
    BY <1>0, <1>14 DEF HandleInv, Used, HasHandle, IsRun, Finishing, ExecuteWork,
        StartWork, registryVars, execVars, refereeVars
  <1>15. ASSUME NEW o \in Ops, StreamOpens(o) PROVE HandleInv'
    BY <1>0, <1>15 DEF HandleInv, Used, HasHandle, IsRun, Finishing, StreamOpens,
        registryVars, execVars, refereeVars
  <1>16. ASSUME NEW o \in Ops, ChunkDelivered(o) PROVE HandleInv'
    BY <1>0, <1>16 DEF HandleInv, Used, HasHandle, IsRun, Finishing, ChunkDelivered,
        registryVars, execVars, refereeVars
  <1>17. ASSUME NEW o \in Ops, WorkThrows(o) PROVE HandleInv'
    BY <1>0, <1>17 DEF HandleInv, Used, HasHandle, IsRun, Finishing, WorkThrows, Decide,
        Streaming, registryVars, execVars, refereeVars
  <1>18. ASSUME NEW o \in Ops, WorkReturns(o) PROVE HandleInv'
    BY <1>0, <1>18 DEF HandleInv, Used, HasHandle, IsRun, Finishing, WorkReturns,
        Decide, registryVars, execVars, refereeVars
  <1>19. ASSUME NEW o \in Ops, ExecutionCommits(o) PROVE HandleInv'
    BY <1>0, <1>19 DEF HandleInv, Used, HasHandle, IsRun, Finishing, ExecutionCommits,
        BeginCommit, Submit, Judged, Accepts, registryVars, execVars, refereeVars
  <1>20. ASSUME NEW o \in Ops, ExecutionReturns(o) PROVE HandleInv'
    BY <1>0, <1>20 DEF HandleInv, Used, HasHandle, IsRun, Finishing, ExecutionReturns,
        registryVars, execVars, refereeVars
  <1>21. ASSUME NEW o \in Ops, ChunkArrives(o) PROVE HandleInv'
    BY <1>0, <1>21 DEF HandleInv, Used, HasHandle, IsRun, Finishing, ChunkArrives,
        registryVars, execVars, refereeVars
  <1>22. ASSUME NEW o \in Ops, StreamEnds(o) PROVE HandleInv'
    BY <1>0, <1>22 DEF HandleInv, Used, HasHandle, IsRun, Finishing, StreamEnds,
        registryVars, execVars, refereeVars
  <1>23. ASSUME NEW o \in Ops, Persist(o) PROVE HandleInv'
    BY <1>0, <1>23 DEF HandleInv, Used, HasHandle, IsRun, Finishing, Persist,
        registryVars, execVars, refereeVars
  <1>24. ASSUME NEW o \in Ops, PersistFails(o) PROVE HandleInv'
    BY <1>0, <1>24 DEF HandleInv, Used, HasHandle, IsRun, Finishing, PersistFails,
        registryVars, execVars, refereeVars
  <1>25. ASSUME NEW o \in Ops, PersistDowngrades(o) PROVE HandleInv'
    BY <1>0, <1>25 DEF HandleInv, Used, HasHandle, IsRun, Finishing, PersistDowngrades,
        registryVars, execVars, refereeVars
  <1>26. ASSUME NEW o \in Ops, FailCompletion(o) PROVE HandleInv'
    BY <1>0, <1>26 DEF HandleInv, Used, HasHandle, IsRun, Finishing, FailCompletion,
        registryVars, execVars, refereeVars
  <1>27. ASSUME NEW o \in Ops, Settle(o) PROVE HandleInv'
    BY <1>0, <1>27 DEF HandleInv, Used, HasHandle, IsRun, Finishing, Settle,
        registryVars, execVars, refereeVars
  <1>28. ASSUME NEW o \in Ops, CloseCommit(o) PROVE HandleInv'
    BY <1>0, <1>28 DEF HandleInv, Used, HasHandle, IsRun, Finishing, CloseCommit,
        registryVars, execVars, refereeVars
  <1>29. ASSUME NEW o \in Ops, NEW c \in Callers, CallControl(o, c) PROVE HandleInv'
    BY <1>0, <1>29 DEF HandleInv, Used, HasHandle, IsRun, Finishing, CallControl,
        Submit, Judged, Accepts, StatusOf, registryVars, execVars, refereeVars
  <1>30. ASSUME NEW o \in Ops, NEW c \in Callers, CallCommits(o, c) PROVE HandleInv'
    BY <1>0, <1>30 DEF HandleInv, Used, HasHandle, IsRun, Finishing, CallCommits,
        CallAt, BeginCommit, registryVars, execVars, refereeVars
  <1>31. ASSUME NEW o \in Ops, NEW c \in Callers, CallReturns(o, c) PROVE HandleInv'
    BY <1>0, <1>31 DEF HandleInv, Used, HasHandle, IsRun, Finishing, CallReturns,
        CallAt, registryVars, execVars, refereeVars
  <1>32. QED
    BY <1>1, <1>2, <1>3, <1>4, <1>5, <1>6, <1>7, <1>8, <1>9, <1>10, <1>11, <1>12, <1>13,
        <1>14, <1>15, <1>16, <1>17, <1>18, <1>19, <1>20, <1>21, <1>22, <1>23, <1>24,
        <1>25, <1>26, <1>27, <1>28, <1>29, <1>30, <1>31
    DEF Next, Execute, AdmissionAnswers, WorkAdvances, CommitAdvances, vars,
        registryVars, execVars, refereeVars

\* The work owns an executing entry until it stops, and stops before any commit.
LEMMA WorkNext ==
  ASSUME ConstantsAssumption, TypeOK, HolderInv, EntryInv, HandleInv, SignalInv, WorkInv, [Next]_vars
  PROVE  WorkInv'
  <1>0. /\ active \in [Threads -> Entries]
        /\ exec \in [Ops -> ExecStages]
        /\ commit \in [Ops -> CommitStages]
        /\ call \in [Ops -> [Callers -> Calls]]
    BY DEF TypeOK, CallType, ExecType, RefereeType, RegistryType
  <1>1. CASE UNCHANGED <<active, exec, commit, call>>
    BY <1>1 DEF WorkInv, Working, Entry
  <1>2. ASSUME NEW o \in Ops,
               AdmissionFails(o) \/ FailStartedRun(o) \/ SignalFires(o)
        PROVE  UNCHANGED <<active, exec, commit, call>>
    BY <1>2 DEF registryVars, execVars, refereeVars, AdmissionFails, Begun,
        FailStartedRun, SignalFires
  <1>3. ASSUME NEW o \in Ops, Reserve(o) PROVE WorkInv'
    BY <1>0, <1>3 DEF WorkInv, Working, Entry, Reserve, registryVars, execVars,
        refereeVars
  <1>4. ASSUME NEW o \in Ops, Admit(o) PROVE WorkInv'
    BY <1>0, <1>4 DEF WorkInv, Working, Entry, Admit, Begun, registryVars, execVars,
        refereeVars
  <1>5. ASSUME NEW o \in Ops, BeginFails(o) PROVE WorkInv'
    BY <1>0, <1>5 DEF WorkInv, Working, Entry, BeginFails, ReleaseReservation,
        registryVars, execVars, refereeVars
  <1>6. ASSUME NEW o \in Ops, ReleaseUnadmitted(o) PROVE WorkInv'
    BY <1>0, <1>6 DEF WorkInv, Working, Entry, ReleaseUnadmitted, ReleaseReservation,
        registryVars, execVars, refereeVars
  <1>7. ASSUME NEW o \in Ops, CompactReturns(o) PROVE WorkInv'
    BY <1>0, <1>7 DEF WorkInv, Working, Entry, CompactReturns, ReleaseReservation,
        registryVars, execVars, refereeVars
  <1>8. ASSUME NEW o \in Ops, ExecuteDisposed(o) PROVE WorkInv'
    BY <1>0, <1>8 DEF WorkInv, Working, Entry, ExecuteDisposed, registryVars, execVars,
        refereeVars
  <1>9. ASSUME NEW o \in Ops, ExecuteTerminal(o) PROVE WorkInv'
    BY <1>0, <1>9 DEF WorkInv, Working, Entry, ExecuteTerminal, Decide, registryVars,
        execVars, refereeVars
  <1>10. ASSUME NEW o \in Ops, ExecuteForwarded(o) PROVE WorkInv'
    BY <1>0, <1>10 DEF WorkInv, Working, Entry, ExecuteForwarded, Decide, Submit,
        Judged, Accepts, registryVars, execVars, refereeVars
  <1>11. ASSUME NEW o \in Ops, ExecuteSignalled(o) PROVE WorkInv'
    BY <1>0, <1>11 DEF WorkInv, Working, Entry, ExecuteSignalled, Decide, registryVars,
        execVars, refereeVars
  <1>12. ASSUME NEW o \in Ops, ExecuteWork(o) PROVE WorkInv'
    <2>1. CASE ~Activates(o)
      BY <1>0, <1>12, <2>1 DEF WorkInv, Working, Entry, ExecuteWork, StartWork,
        refereeVars
    <2>2. CASE Activates(o)
      <3>1. /\ active' = [active EXCEPT ![ThreadOf[o]] = [status |-> "executing", owner |-> o]]
            /\ exec' = [exec EXCEPT ![o] = "opening"]
            /\ UNCHANGED commit
            /\ exec[o] = "no" /\ ~signalled[o]
        BY <1>12, <2>2 DEF ExecuteWork, StartWork, refereeVars
      <3>2. commit[o] = "no"
        BY <3>1 DEF SignalInv
      <3>3. ThreadOf \in [Ops -> Threads]
        BY DEF ConstantsAssumption
      <3>4. QED
        BY <1>0, <3>1, <3>2, <3>3 DEF WorkInv, Working, Entry
    <2>3. QED BY <2>1, <2>2
  <1>13. ASSUME NEW o \in Ops, StreamOpens(o) PROVE WorkInv'
    BY <1>0, <1>13 DEF WorkInv, Working, Entry, StreamOpens, registryVars, execVars,
        refereeVars
  <1>14. ASSUME NEW o \in Ops, ChunkDelivered(o) PROVE WorkInv'
    BY <1>0, <1>14 DEF WorkInv, Working, Entry, ChunkDelivered, registryVars, execVars,
        refereeVars
  <1>15. ASSUME NEW o \in Ops, WorkThrows(o) PROVE WorkInv'
    BY <1>0, <1>15 DEF WorkInv, Working, Entry, WorkThrows, Decide, Streaming,
        registryVars, execVars, refereeVars
  <1>16. ASSUME NEW o \in Ops, WorkReturns(o) PROVE WorkInv'
    BY <1>0, <1>16 DEF WorkInv, Working, Entry, WorkReturns, Decide, registryVars,
        execVars, refereeVars
  <1>17. ASSUME NEW o \in Ops, ExecutionCommits(o) PROVE WorkInv'
    BY <1>0, <1>17 DEF WorkInv, Working, Entry, ExecutionCommits, BeginCommit, Submit,
        Judged, Accepts, registryVars, execVars, refereeVars
  <1>18. ASSUME NEW o \in Ops, ExecutionReturns(o) PROVE WorkInv'
    BY <1>0, <1>18 DEF WorkInv, Working, Entry, ExecutionReturns, registryVars,
        execVars, refereeVars
  <1>19. ASSUME NEW o \in Ops, ChunkArrives(o) PROVE WorkInv'
    BY <1>0, <1>19 DEF WorkInv, Working, Entry, ChunkArrives, registryVars, execVars,
        refereeVars
  <1>20. ASSUME NEW o \in Ops, StreamEnds(o) PROVE WorkInv'
    BY <1>0, <1>20 DEF WorkInv, Working, Entry, StreamEnds, registryVars, execVars,
        refereeVars
  <1>21. ASSUME NEW o \in Ops, Persist(o) PROVE WorkInv'
    BY <1>0, <1>21 DEF WorkInv, Working, Entry, Persist, registryVars, execVars,
        refereeVars
  <1>22. ASSUME NEW o \in Ops, PersistFails(o) PROVE WorkInv'
    BY <1>0, <1>22 DEF WorkInv, Working, Entry, PersistFails, registryVars, execVars,
        refereeVars
  <1>23. ASSUME NEW o \in Ops, PersistDowngrades(o) PROVE WorkInv'
    BY <1>0, <1>23 DEF WorkInv, Working, Entry, PersistDowngrades, registryVars,
        execVars, refereeVars
  <1>24. ASSUME NEW o \in Ops, FailCompletion(o) PROVE WorkInv'
    BY <1>0, <1>24 DEF WorkInv, Working, Entry, FailCompletion, registryVars, execVars,
        refereeVars
  <1>25. ASSUME NEW o \in Ops, Settle(o) PROVE WorkInv'
    <2>1. /\ active' = [active EXCEPT ![ThreadOf[o]] = FreeEntry]
          /\ commit' = [commit EXCEPT ![o] = "closing"]
          /\ UNCHANGED exec
          /\ commit[o] = "settling" /\ Entry(o).owner = o
      BY <1>25, SettlesOwn DEF Settle
    <2>2. ASSUME NEW q \in Ops, Working(q)
          PROVE  commit[q] = "no" /\ Entry(q).status = "executing" /\ Entry(q).owner = q
      <3>1. commit[q] = "no" /\ Entry(q).status = "executing" /\ HasHandle(q)
        BY <2>2 DEF WorkInv, HandleInv, Used, Working
      <3>2. phase[q] = "live"
        BY <3>1 DEF HandleInv, Finishing
      <3>3. QED BY <3>1, <3>2 DEF HolderInv
    <2>3. ASSUME NEW q \in Ops, Working(q)
          PROVE  q # o /\ ThreadOf[q] # ThreadOf[o]
      BY <2>1, <2>2, <2>3 DEF Entry
    <2>4. ThreadOf \in [Ops -> Threads]
      BY DEF ConstantsAssumption
    <2>5. QED
      BY <1>0, <2>1, <2>2, <2>3, <2>4 DEF WorkInv, Working, Entry
  <1>26. ASSUME NEW o \in Ops, CloseCommit(o) PROVE WorkInv'
    BY <1>0, <1>26 DEF WorkInv, Working, Entry, CloseCommit, registryVars, execVars,
        refereeVars
  <1>27. ASSUME NEW o \in Ops, NEW c \in Callers, CallControl(o, c) PROVE WorkInv'
    BY <1>0, <1>27 DEF WorkInv, Working, Entry, CallControl, Submit, Judged, Accepts,
        StatusOf, registryVars, execVars, refereeVars
  <1>28. ASSUME NEW o \in Ops, NEW c \in Callers, CallCommits(o, c) PROVE WorkInv'
    <2>1. ~Working(o)
      BY <1>28 DEF CallCommits, SignalInv, Working
    <2>2. QED
      BY <1>0, <1>28, <2>1 DEF WorkInv, Working, Entry, CallCommits, BeginCommit,
        registryVars, execVars, refereeVars
  <1>29. ASSUME NEW o \in Ops, NEW c \in Callers, CallReturns(o, c) PROVE WorkInv'
    BY <1>0, <1>29 DEF WorkInv, Working, Entry, CallReturns, CallAt, registryVars,
        execVars, refereeVars
  <1>30. QED
    BY <1>1, <1>2, <1>3, <1>4, <1>5, <1>6, <1>7, <1>8, <1>9, <1>10, <1>11, <1>12, <1>13,
        <1>14, <1>15, <1>16, <1>17, <1>18, <1>19, <1>20, <1>21, <1>22, <1>23, <1>24,
        <1>25, <1>26, <1>27, <1>28, <1>29
    DEF Next, Execute, AdmissionAnswers, WorkAdvances, CommitAdvances, vars,
        registryVars, execVars, refereeVars

\* A handle that has decided before execute() cannot start the work any more.
LEMMA SignalNext ==
  ASSUME ConstantsAssumption, TypeOK, WorkInv, SignalInv, [Next]_vars
  PROVE  SignalInv'
  <1>0. /\ exec \in [Ops -> ExecStages]
        /\ signalled \in [Ops -> BOOLEAN]
        /\ winner \in [Ops -> Intents]
        /\ commit \in [Ops -> CommitStages]
        /\ call \in [Ops -> [Callers -> Calls]]
    BY DEF TypeOK, CallType, ExecType, RefereeType
  <1>1. CASE UNCHANGED <<exec, signalled, winner, commit, call>>
    BY <1>1 DEF SignalInv, Working
  <1>2. ASSUME NEW o \in Ops,
               Reserve(o) \/ Admit(o) \/ BeginFails(o) \/ AdmissionFails(o)
               \/ FailStartedRun(o) \/ ReleaseUnadmitted(o) \/ CompactReturns(o)
        PROVE  UNCHANGED <<exec, signalled, winner, commit, call>>
    BY <1>2 DEF registryVars, execVars, refereeVars, Reserve, Admit, Begun, BeginFails,
        AdmissionFails, FailStartedRun, ReleaseUnadmitted, CompactReturns
  <1>3. ASSUME NEW o \in Ops, ExecuteDisposed(o) PROVE SignalInv'
    BY <1>0, <1>3 DEF SignalInv, Working, ExecuteDisposed, registryVars, execVars,
        refereeVars
  <1>4. ASSUME NEW o \in Ops, ExecuteTerminal(o) PROVE SignalInv'
    BY <1>0, <1>4 DEF SignalInv, Working, ExecuteTerminal, Decide, registryVars,
        execVars, refereeVars
  <1>5. ASSUME NEW o \in Ops, ExecuteForwarded(o) PROVE SignalInv'
    BY <1>0, <1>5 DEF SignalInv, Working, ExecuteForwarded, Decide, Submit, Judged,
        Accepts, registryVars, execVars, refereeVars
  <1>6. ASSUME NEW o \in Ops, ExecuteSignalled(o) PROVE SignalInv'
    BY <1>0, <1>6 DEF SignalInv, Working, ExecuteSignalled, Decide, registryVars,
        execVars, refereeVars
  <1>7. ASSUME NEW o \in Ops, ExecuteWork(o) PROVE SignalInv'
    BY <1>0, <1>7 DEF SignalInv, Working, ExecuteWork, StartWork, registryVars,
        execVars, refereeVars
  <1>8. ASSUME NEW o \in Ops, StreamOpens(o) PROVE SignalInv'
    BY <1>0, <1>8 DEF SignalInv, Working, StreamOpens, registryVars, execVars,
        refereeVars
  <1>9. ASSUME NEW o \in Ops, ChunkDelivered(o) PROVE SignalInv'
    BY <1>0, <1>9 DEF SignalInv, Working, ChunkDelivered, registryVars, execVars,
        refereeVars
  <1>10. ASSUME NEW o \in Ops, WorkThrows(o) PROVE SignalInv'
    BY <1>0, <1>10 DEF SignalInv, Working, WorkThrows, Decide, Streaming, registryVars,
        execVars, refereeVars
  <1>11. ASSUME NEW o \in Ops, WorkReturns(o) PROVE SignalInv'
    BY <1>0, <1>11 DEF SignalInv, Working, WorkReturns, Decide, registryVars, execVars,
        refereeVars
  <1>12. ASSUME NEW o \in Ops, ExecutionCommits(o) PROVE SignalInv'
    BY <1>0, <1>12 DEF SignalInv, Working, ExecutionCommits, BeginCommit, Submit,
        Judged, Accepts, registryVars, execVars, refereeVars
  <1>13. ASSUME NEW o \in Ops, ExecutionReturns(o) PROVE SignalInv'
    BY <1>0, <1>13 DEF SignalInv, Working, ExecutionReturns, registryVars, execVars,
        refereeVars
  <1>14. ASSUME NEW o \in Ops, ChunkArrives(o) PROVE SignalInv'
    BY <1>0, <1>14 DEF SignalInv, Working, ChunkArrives, registryVars, execVars,
        refereeVars
  <1>15. ASSUME NEW o \in Ops, StreamEnds(o) PROVE SignalInv'
    BY <1>0, <1>15 DEF SignalInv, Working, StreamEnds, registryVars, execVars,
        refereeVars
  <1>16. ASSUME NEW o \in Ops, SignalFires(o) PROVE SignalInv'
    BY <1>0, <1>16 DEF SignalInv, Working, SignalFires, Submit, Judged, Accepts,
        registryVars, execVars, refereeVars
  <1>17. ASSUME NEW o \in Ops, Persist(o) PROVE SignalInv'
    BY <1>0, <1>17 DEF SignalInv, Working, Persist, registryVars, execVars, refereeVars
  <1>18. ASSUME NEW o \in Ops, PersistFails(o) PROVE SignalInv'
    BY <1>0, <1>18 DEF SignalInv, Working, PersistFails, registryVars, execVars,
        refereeVars
  <1>19. ASSUME NEW o \in Ops, PersistDowngrades(o) PROVE SignalInv'
    BY <1>0, <1>19 DEF SignalInv, Working, PersistDowngrades, registryVars, execVars,
        refereeVars
  <1>20. ASSUME NEW o \in Ops, FailCompletion(o) PROVE SignalInv'
    BY <1>0, <1>20 DEF SignalInv, Working, FailCompletion, registryVars, execVars,
        refereeVars
  <1>21. ASSUME NEW o \in Ops, Settle(o) PROVE SignalInv'
    BY <1>0, <1>21 DEF SignalInv, Working, Settle, registryVars, execVars, refereeVars
  <1>22. ASSUME NEW o \in Ops, CloseCommit(o) PROVE SignalInv'
    BY <1>0, <1>22 DEF SignalInv, Working, CloseCommit, registryVars, execVars,
        refereeVars
  <1>23. ASSUME NEW o \in Ops, NEW c \in Callers, CallControl(o, c) PROVE SignalInv'
    <2>1. PICK kind \in {"abort", "fail"} :
            /\ call' = [call EXCEPT ![o][c] = [stage |-> "waiting", kind |-> kind,
                                            barrier |-> exec[o] # "no", answer |-> "none"]]
            /\ IF winner[o] = "none"
                 THEN Submit(o, StatusOf(kind), c) /\ signalled' = [signalled EXCEPT ![o] = TRUE]
                 ELSE UNCHANGED <<winner, signalled>>
      BY <1>23 DEF CallControl
    <2>2. UNCHANGED <<exec, commit>>
      BY <1>23 DEF CallControl
    <2>3. /\ winner'[o] # "none"
          /\ \A q \in Ops : q # o => winner'[q] = winner[q]
          /\ \A q \in Ops : signalled[q] \/ (q = o /\ winner[o] = "none") => signalled'[q]
      BY <1>0, <2>1 DEF Submit, Judged, Accepts, StatusOf
    <2>4. ASSUME NEW q \in Ops, exec[q] = "no", winner'[q] # "none" \/ commit[q] # "no"
          PROVE  signalled'[q]
      BY <2>3, <2>4 DEF SignalInv
    <2>5. ASSUME NEW q \in Ops, NEW d \in Callers
          PROVE  /\ call'[q][d].stage # "no" => winner'[q] # "none"
                 /\ call'[q][d].stage = "waiting" /\ ~call'[q][d].barrier => ~Working(q)
      <3>1. CASE q = o /\ d = c
        BY <1>0, <2>1, <2>3, <3>1 DEF Working
      <3>2. CASE ~(q = o /\ d = c)
        <4>1. call'[q][d] = call[q][d]
          BY <1>0, <2>1, <3>2
        <4>2. QED
          BY <2>3, <4>1 DEF SignalInv
      <3>3. QED BY <3>1, <3>2
    <2>6. QED
      BY <2>2, <2>4, <2>5 DEF SignalInv, Working
  <1>24. ASSUME NEW o \in Ops, NEW c \in Callers, CallCommits(o, c) PROVE SignalInv'
    BY <1>0, <1>24 DEF SignalInv, Working, CallCommits, CallAt, BeginCommit,
        registryVars, execVars, refereeVars
  <1>25. ASSUME NEW o \in Ops, NEW c \in Callers, CallReturns(o, c) PROVE SignalInv'
    BY <1>0, <1>25 DEF SignalInv, Working, CallReturns, CallAt, registryVars, execVars,
        refereeVars
  <1>26. QED
    BY <1>1, <1>2, <1>3, <1>4, <1>5, <1>6, <1>7, <1>8, <1>9, <1>10, <1>11, <1>12, <1>13,
        <1>14, <1>15, <1>16, <1>17, <1>18, <1>19, <1>20, <1>21, <1>22, <1>23, <1>24,
        <1>25
    DEF Next, Execute, AdmissionAnswers, WorkAdvances, CommitAdvances, vars,
        registryVars, execVars, refereeVars

\* A commit that is done stays done, with its context disposed.
LEMMA DoneNext ==
  ASSUME ConstantsAssumption, TypeOK, DoneInv, [Next]_vars
  PROVE  DoneInv'
  <1>0. /\ disposed \in [Ops -> BOOLEAN]
        /\ commit \in [Ops -> CommitStages]
        /\ call \in [Ops -> [Callers -> Calls]]
    BY DEF TypeOK, CallType, ExecType, RefereeType
  <1>1. CASE UNCHANGED <<disposed, commit, call>>
    BY <1>1 DEF DoneInv
  <1>2. ASSUME NEW o \in Ops,
               Reserve(o) \/ Admit(o) \/ BeginFails(o) \/ AdmissionFails(o)
               \/ FailStartedRun(o) \/ ReleaseUnadmitted(o) \/ CompactReturns(o)
               \/ ExecuteDisposed(o) \/ ExecuteTerminal(o) \/ ExecuteForwarded(o)
               \/ ExecuteSignalled(o) \/ ExecuteWork(o) \/ StreamOpens(o)
               \/ ChunkDelivered(o) \/ WorkThrows(o) \/ WorkReturns(o)
               \/ ExecutionReturns(o) \/ ChunkArrives(o) \/ StreamEnds(o)
               \/ SignalFires(o)
        PROVE  UNCHANGED <<disposed, commit, call>>
    BY <1>2 DEF registryVars, execVars, refereeVars, Reserve, Admit, Begun, BeginFails,
        AdmissionFails, FailStartedRun, ReleaseUnadmitted, CompactReturns,
        ExecuteDisposed, ExecuteTerminal, ExecuteForwarded, ExecuteSignalled,
        ExecuteWork, StreamOpens, ChunkDelivered, WorkThrows, WorkReturns,
        ExecutionReturns, ChunkArrives, StreamEnds, SignalFires
  <1>3. ASSUME NEW o \in Ops, ExecutionCommits(o) PROVE DoneInv'
    BY <1>0, <1>3 DEF DoneInv, ExecutionCommits, BeginCommit, Submit, Judged, Accepts,
        registryVars, execVars, refereeVars
  <1>4. ASSUME NEW o \in Ops, Persist(o) PROVE DoneInv'
    BY <1>0, <1>4 DEF DoneInv, Persist, registryVars, execVars, refereeVars
  <1>5. ASSUME NEW o \in Ops, PersistFails(o) PROVE DoneInv'
    BY <1>0, <1>5 DEF DoneInv, PersistFails, registryVars, execVars, refereeVars
  <1>6. ASSUME NEW o \in Ops, PersistDowngrades(o) PROVE DoneInv'
    BY <1>0, <1>6 DEF DoneInv, PersistDowngrades, registryVars, execVars, refereeVars
  <1>7. ASSUME NEW o \in Ops, FailCompletion(o) PROVE DoneInv'
    BY <1>0, <1>7 DEF DoneInv, FailCompletion, registryVars, execVars, refereeVars
  <1>8. ASSUME NEW o \in Ops, Settle(o) PROVE DoneInv'
    BY <1>0, <1>8 DEF DoneInv, Settle, registryVars, execVars, refereeVars
  <1>9. ASSUME NEW o \in Ops, CloseCommit(o) PROVE DoneInv'
    BY <1>0, <1>9 DEF DoneInv, CloseCommit, registryVars, execVars, refereeVars
  <1>10. ASSUME NEW o \in Ops, NEW c \in Callers, CallControl(o, c) PROVE DoneInv'
    BY <1>0, <1>10 DEF DoneInv, CallControl, Submit, Judged, Accepts, StatusOf,
        registryVars, execVars, refereeVars
  <1>11. ASSUME NEW o \in Ops, NEW c \in Callers, CallCommits(o, c) PROVE DoneInv'
    BY <1>0, <1>11 DEF DoneInv, CallCommits, CallAt, BeginCommit, registryVars,
        execVars, refereeVars
  <1>12. ASSUME NEW o \in Ops, NEW c \in Callers, CallReturns(o, c) PROVE DoneInv'
    BY <1>0, <1>12 DEF DoneInv, CallReturns, CallAt, registryVars, execVars, refereeVars
  <1>13. QED
    BY <1>1, <1>2, <1>3, <1>4, <1>5, <1>6, <1>7, <1>8, <1>9, <1>10, <1>11, <1>12
    DEF Next, Execute, AdmissionAnswers, WorkAdvances, CommitAdvances, vars,
        registryVars, execVars, refereeVars

-----------------------------------------------------------------------------
(* The invariant, and what follows from it.                                *)

\* The initial states satisfy it.
LEMMA InitIInv ==
  ASSUME ConstantsAssumption, Init
  PROVE  IInv
  <1>1. TypeOK
    BY DEF ConstantsAssumption, Init, TypeOK, RegistryType, ExecType, RefereeType, CallType,
        Entries, FreeEntry, Phases, ExecStages, Outcomes, Intents, CommitStages, Results,
        Calls, CallStages, NoCall
  <1>2. HolderInv /\ EntryInv
    BY DEF Init, HolderInv, EntryInv, FreeEntry
  <1>3. HandleInv
    BY DEF Init, HandleInv, Used, HasHandle, NoCall
  <1>4. WorkInv /\ SignalInv /\ DoneInv
    BY DEF Init, WorkInv, Working, SignalInv, DoneInv, NoCall
  <1>5. QED
    BY <1>1, <1>2, <1>3, <1>4 DEF IInv

\* Every step preserves it.
LEMMA IInvNext ==
  ASSUME ConstantsAssumption, IInv, [Next]_vars
  PROVE  IInv'
  BY TypeNext, RegistryNext, HandleNext, WorkNext, SignalNext, DoneNext DEF IInv

\* Every variable keeps its type, whatever the threads, operations and callers.
THEOREM TypeCorrect == Spec => []TypeOK
  <1>1. Init => TypeOK
    BY ConstantsAssumption, InitIInv DEF IInv
  <1>2. TypeOK /\ [Next]_vars => TypeOK'
    BY ConstantsAssumption, TypeNext
  <1>3. QED
    BY <1>1, <1>2, PTL DEF Spec

\* The inductive invariant holds in every reachable state.
THEOREM Inductive == Spec => []IInv
  <1>1. Init => IInv
    BY ConstantsAssumption, InitIInv
  <1>2. IInv /\ [Next]_vars => IInv'
    BY ConstantsAssumption, IInvNext
  <1>3. QED
    BY <1>1, <1>2, PTL DEF Spec

\* The registry and the operations agree: no release, compensation or settlement
\* (releaseRunReservation, settleRun) ever frees another operation's thread.
THEOREM OwnershipHolds == Spec => []RegistryOwnership
  <1>1. IInv => RegistryOwnership
    BY DEF IInv, HolderInv, EntryInv, RegistryOwnership, Holds, HoldingPhases
  <1>2. QED
    BY <1>1, Inductive, PTL

\* An operation whose stream is open owns the executing entry of its thread.
LEMMA StreamOwns ==
  ASSUME IInv, NEW o \in Ops, Streaming(o)
  PROVE  Entry(o).status = "executing" /\ Entry(o).owner = o
  <1>1. Working(o)
    BY DEF Streaming, Working
  <1>2. commit[o] = "no" /\ Entry(o).status = "executing" /\ HasHandle(o)
    BY <1>1 DEF IInv, WorkInv, HandleInv, Used, Working
  <1>3. phase[o] = "live"
    BY <1>2 DEF IInv, HandleInv, Finishing
  <1>4. QED
    BY <1>2, <1>3 DEF IInv, HolderInv

\* One active stream per thread: at most one operation of a thread streams at a time.
THEOREM OneStream == Spec => []OneStreamPerThread
  <1>1. IInv => OneStreamPerThread
    BY StreamOwns DEF OneStreamPerThread, Entry
  <1>2. QED
    BY <1>1, Inductive, PTL

\* No work after a terminal outcome has begun to be persisted.
THEOREM WorkBeforeEnd == Spec => []NoWorkWhileEnding
  <1>1. IInv => NoWorkWhileEnding
    BY DEF IInv, WorkInv, Working, Streaming, NoWorkWhileEnding
  <1>2. QED
    BY <1>1, Inductive, PTL

\* abort() and fail() return only once the run is quiescent.
THEOREM ReturnIsQuiescent == Spec => []ReturnMeansQuiescent
  <1>1. ASSUME IInv, NEW o \in Ops, NEW c \in Callers, call[o][c].stage = "returned"
        PROVE  /\ ~Streaming(o) /\ exec[o] # "drained"
               /\ phase[o] = "released" /\ Entry(o).owner # o
               /\ disposed[o]
    <2>1. commit[o] = "done" /\ disposed[o]
      BY <1>1 DEF IInv, DoneInv
    <2>2. phase[o] = "released"
      BY <1>1, <2>1 DEF IInv, HandleInv, Used, HasHandle, Finishing
    <2>3. Entry(o).owner # o
      <3>1. ~Holds(o) /\ ThreadOf[o] \in Threads /\ o # NoOp
        BY <2>2, ConstantsAssumption DEF Holds, HoldingPhases, ConstantsAssumption
      <3>2. QED
        BY <1>1, <3>1 DEF IInv, EntryInv, Entry
    <2>4. ~Streaming(o) /\ exec[o] # "drained"
      BY <1>1, <2>1 DEF IInv, WorkInv, Working, Streaming
    <2>5. QED
      BY <2>1, <2>2, <2>3, <2>4
  <1>2. IInv => ReturnMeansQuiescent
    BY <1>1 DEF ReturnMeansQuiescent
  <1>3. QED
    BY <1>2, Inductive, PTL

\* One owner: the registry, the phases and the streams name the same holder of a thread,
\* and a run whose outcome is being persisted (commit in runtime-thread-terminal.ts) works
\* no more.
THEOREM OwnerHolds == Spec => []OneOwner
  BY TypeCorrect, OwnershipHolds, OneStream, WorkBeforeEnd, PTL DEF OneOwner
-----------------------------------------------------------------------------
(* What a commit and a call answer.                                        *)

Fulfilled == {"completed", "interrupted"}
Ended(o) == commit[o] \in {"settling", "closing", "done"}

\* Nothing is decided without a handle; an execution that ends has an outcome; a resume
\* that the decision has ended never works, so nobody calls it completed.
OutcomeInv ==
  \A o \in Ops :
    /\ ~HasHandle(o) => outcome[o] = "none" /\ winner[o] = "none"
    /\ exec[o] \in {"decided", "committing"} => outcome[o] # "none"
    /\ terminal[o] => ~Working(o) /\ outcome[o] \notin Fulfilled /\ winner[o] \notin Fulfilled

\* The winner stands from the moment a commit begins, and is what the commit persists.
CommitInv ==
  \A o \in Ops :
    /\ commit[o] # "no" => winner[o] # "none" /\ intent[o] = winner[o]
    /\ commit[o] = "compensating" => intent[o] \in Fulfilled

\* Before a commit has persisted anything there is at most the decision's cancellation;
\* what it reports afterwards is the one fact there is.
RecordInv ==
  \A o \in Ops :
    /\ phase[o] \in {"idle", "starting"} => durable[o] = {}
    /\ HasHandle(o) /\ ~Ended(o) => durable[o] = IF terminal[o] THEN {"cancelled"} ELSE {}
    /\ Ended(o) /\ result[o] # "error" =>
         /\ durable[o] = {result[o]}
         /\ result[o] = winner[o] \/ (result[o] = "failed" /\ winner[o] \in Fulfilled)

\* The winner a call has submitted is of its kind; a call that is told it owns the outcome
\* has returned, is the winner's author, and the outcome is of its kind.
AuthorInv ==
  \A o \in Ops : \A c \in Callers :
    /\ author[o] = c => call[o][c].stage # "no" /\ winner[o] = StatusOf(call[o][c].kind)
    /\ call[o][c].answer = "owned" =>
         /\ call[o][c].stage = "returned" /\ author[o] = c
         /\ result[o] = StatusOf(call[o][c].kind)

AnswerInv == OutcomeInv /\ CommitInv /\ RecordInv /\ AuthorInv

\* An operation without a handle has decided nothing; one that ended by the decision never works.
LEMMA OutcomeNext ==
  ASSUME ConstantsAssumption, IInv, OutcomeInv, [Next]_vars
  PROVE  OutcomeInv'
  <1>0. /\ phase \in [Ops -> Phases]
        /\ terminal \in [Ops -> BOOLEAN]
        /\ exec \in [Ops -> ExecStages]
        /\ outcome \in [Ops -> Outcomes]
        /\ winner \in [Ops -> Intents]
        /\ commit \in [Ops -> CommitStages]
        /\ call \in [Ops -> [Callers -> Calls]]
    BY DEF IInv, TypeOK, CallType, ExecType, RefereeType, RegistryType
  <1>u. \A o \in Ops : ~HasHandle(o) => exec[o] = "no" /\ commit[o] = "no"
    BY DEF IInv, HandleInv, Used
  <1>1. CASE UNCHANGED <<phase, terminal, exec, outcome, winner, commit, call>>
    BY <1>1 DEF OutcomeInv, HasHandle, IsRun, Working, Fulfilled
  <1>2. ASSUME NEW o \in Ops, Reserve(o) PROVE OutcomeInv'
    BY <1>0, <1>u, <1>2 DEF OutcomeInv, HasHandle, IsRun, Working, Fulfilled, Reserve,
        registryVars, execVars, refereeVars
  <1>3. ASSUME NEW o \in Ops, Admit(o) PROVE OutcomeInv'
    BY <1>0, <1>u, <1>3 DEF OutcomeInv, HasHandle, IsRun, Working, Fulfilled, Admit,
        Begun, registryVars, execVars, refereeVars
  <1>4. ASSUME NEW o \in Ops, BeginFails(o) PROVE OutcomeInv'
    BY <1>0, <1>u, <1>4 DEF OutcomeInv, HasHandle, IsRun, Working, Fulfilled,
        BeginFails, ReleaseReservation, registryVars, execVars, refereeVars
  <1>5. ASSUME NEW o \in Ops, AdmissionFails(o) PROVE OutcomeInv'
    BY <1>0, <1>u, <1>5 DEF OutcomeInv, HasHandle, IsRun, Working, Fulfilled,
        AdmissionFails, Begun, registryVars, execVars, refereeVars
  <1>6. ASSUME NEW o \in Ops, FailStartedRun(o) PROVE OutcomeInv'
    BY <1>0, <1>u, <1>6 DEF OutcomeInv, HasHandle, IsRun, Working, Fulfilled,
        FailStartedRun, registryVars, execVars, refereeVars
  <1>7. ASSUME NEW o \in Ops, ReleaseUnadmitted(o) PROVE OutcomeInv'
    BY <1>0, <1>u, <1>7 DEF OutcomeInv, HasHandle, IsRun, Working, Fulfilled,
        ReleaseUnadmitted, ReleaseReservation, registryVars, execVars, refereeVars
  <1>8. ASSUME NEW o \in Ops, CompactReturns(o) PROVE OutcomeInv'
    BY <1>0, <1>u, <1>8 DEF OutcomeInv, HasHandle, IsRun, Working, Fulfilled,
        CompactReturns, ReleaseReservation, registryVars, execVars, refereeVars
  <1>9. ASSUME NEW o \in Ops, ExecuteDisposed(o) PROVE OutcomeInv'
    BY <1>0, <1>u, <1>9 DEF OutcomeInv, HasHandle, IsRun, Working, Fulfilled,
        ExecuteDisposed, registryVars, execVars, refereeVars
  <1>10. ASSUME NEW o \in Ops, ExecuteTerminal(o) PROVE OutcomeInv'
    BY <1>0, <1>u, <1>10 DEF OutcomeInv, HasHandle, IsRun, Working, Fulfilled,
        ExecuteTerminal, Decide, registryVars, execVars, refereeVars
  <1>11. ASSUME NEW o \in Ops, ExecuteForwarded(o) PROVE OutcomeInv'
    BY <1>0, <1>u, <1>11 DEF OutcomeInv, HasHandle, IsRun, Working, Fulfilled,
        ExecuteForwarded, Decide, Submit, Judged, Accepts, registryVars, execVars,
        refereeVars
  <1>12. ASSUME NEW o \in Ops, ExecuteSignalled(o) PROVE OutcomeInv'
    BY <1>0, <1>u, <1>12 DEF OutcomeInv, HasHandle, IsRun, Working, Fulfilled,
        ExecuteSignalled, Decide, registryVars, execVars, refereeVars
  <1>13. ASSUME NEW o \in Ops, ExecuteWork(o) PROVE OutcomeInv'
    BY <1>0, <1>u, <1>13 DEF OutcomeInv, HasHandle, IsRun, Working, Fulfilled,
        ExecuteWork, StartWork, registryVars, execVars, refereeVars
  <1>14. ASSUME NEW o \in Ops, StreamOpens(o) PROVE OutcomeInv'
    BY <1>0, <1>u, <1>14 DEF OutcomeInv, HasHandle, IsRun, Working, Fulfilled,
        StreamOpens, registryVars, execVars, refereeVars
  <1>15. ASSUME NEW o \in Ops, ChunkDelivered(o) PROVE OutcomeInv'
    BY <1>0, <1>u, <1>15 DEF OutcomeInv, HasHandle, IsRun, Working, Fulfilled,
        ChunkDelivered, registryVars, execVars, refereeVars
  <1>16. ASSUME NEW o \in Ops, WorkThrows(o) PROVE OutcomeInv'
    BY <1>0, <1>u, <1>16 DEF OutcomeInv, HasHandle, IsRun, Working, Fulfilled,
        WorkThrows, Decide, Streaming, registryVars, execVars, refereeVars
  <1>17. ASSUME NEW o \in Ops, WorkReturns(o) PROVE OutcomeInv'
    <2>1. exec[o] = "drained" /\ ~terminal[o] /\ HasHandle(o)
      BY <1>u, <1>17 DEF WorkReturns, OutcomeInv, Working
    <2>2. /\ exec' = [exec EXCEPT ![o] = "decided"]
          /\ \E what \in {"failed", "interrupted", "completed"} :
               outcome' = [outcome EXCEPT ![o] = what]
          /\ UNCHANGED <<phase, terminal, winner>>
      BY <1>17 DEF WorkReturns, Decide, registryVars, refereeVars
    <2>3. QED
      BY <1>0, <2>1, <2>2 DEF OutcomeInv, HasHandle, IsRun, Working, Fulfilled
  <1>18. ASSUME NEW o \in Ops, ExecutionCommits(o) PROVE OutcomeInv'
    BY <1>0, <1>u, <1>18 DEF OutcomeInv, HasHandle, IsRun, Working, Fulfilled,
        ExecutionCommits, BeginCommit, Submit, Judged, Accepts, registryVars, execVars,
        refereeVars
  <1>19. ASSUME NEW o \in Ops, ExecutionReturns(o) PROVE OutcomeInv'
    BY <1>0, <1>u, <1>19 DEF OutcomeInv, HasHandle, IsRun, Working, Fulfilled,
        ExecutionReturns, registryVars, execVars, refereeVars
  <1>20. ASSUME NEW o \in Ops, ChunkArrives(o) PROVE OutcomeInv'
    BY <1>0, <1>u, <1>20 DEF OutcomeInv, HasHandle, IsRun, Working, Fulfilled,
        ChunkArrives, registryVars, execVars, refereeVars
  <1>21. ASSUME NEW o \in Ops, StreamEnds(o) PROVE OutcomeInv'
    BY <1>0, <1>u, <1>21 DEF OutcomeInv, HasHandle, IsRun, Working, Fulfilled,
        StreamEnds, registryVars, execVars, refereeVars
  <1>22. ASSUME NEW o \in Ops, SignalFires(o) PROVE OutcomeInv'
    BY <1>0, <1>u, <1>22 DEF OutcomeInv, HasHandle, IsRun, Working, Fulfilled,
        SignalFires, Submit, Judged, Accepts, registryVars, execVars, refereeVars
  <1>23. ASSUME NEW o \in Ops, Persist(o) PROVE OutcomeInv'
    BY <1>0, <1>u, <1>23 DEF OutcomeInv, HasHandle, IsRun, Working, Fulfilled, Persist,
        registryVars, execVars, refereeVars
  <1>24. ASSUME NEW o \in Ops, PersistFails(o) PROVE OutcomeInv'
    BY <1>0, <1>u, <1>24 DEF OutcomeInv, HasHandle, IsRun, Working, Fulfilled,
        PersistFails, registryVars, execVars, refereeVars
  <1>25. ASSUME NEW o \in Ops, PersistDowngrades(o) PROVE OutcomeInv'
    BY <1>0, <1>u, <1>25 DEF OutcomeInv, HasHandle, IsRun, Working, Fulfilled,
        PersistDowngrades, registryVars, execVars, refereeVars
  <1>26. ASSUME NEW o \in Ops, FailCompletion(o) PROVE OutcomeInv'
    BY <1>0, <1>u, <1>26 DEF OutcomeInv, HasHandle, IsRun, Working, Fulfilled,
        FailCompletion, registryVars, execVars, refereeVars
  <1>27. ASSUME NEW o \in Ops, Settle(o) PROVE OutcomeInv'
    BY <1>0, <1>u, <1>27 DEF OutcomeInv, HasHandle, IsRun, Working, Fulfilled, Settle,
        registryVars, execVars, refereeVars
  <1>28. ASSUME NEW o \in Ops, CloseCommit(o) PROVE OutcomeInv'
    BY <1>0, <1>u, <1>28 DEF OutcomeInv, HasHandle, IsRun, Working, Fulfilled,
        CloseCommit, registryVars, execVars, refereeVars
  <1>29. ASSUME NEW o \in Ops, NEW c \in Callers, CallControl(o, c) PROVE OutcomeInv'
    BY <1>0, <1>u, <1>29 DEF OutcomeInv, HasHandle, IsRun, Working, Fulfilled,
        CallControl, Submit, Judged, Accepts, StatusOf, registryVars, execVars,
        refereeVars
  <1>30. ASSUME NEW o \in Ops, NEW c \in Callers, CallCommits(o, c) PROVE OutcomeInv'
    BY <1>0, <1>u, <1>30 DEF OutcomeInv, HasHandle, IsRun, Working, Fulfilled,
        CallCommits, CallAt, BeginCommit, registryVars, execVars, refereeVars
  <1>31. ASSUME NEW o \in Ops, NEW c \in Callers, CallReturns(o, c) PROVE OutcomeInv'
    BY <1>0, <1>u, <1>31 DEF OutcomeInv, HasHandle, IsRun, Working, Fulfilled,
        CallReturns, CallAt, registryVars, execVars, refereeVars
  <1>32. QED
    BY <1>1, <1>2, <1>3, <1>4, <1>5, <1>6, <1>7, <1>8, <1>9, <1>10, <1>11, <1>12, <1>13,
        <1>14, <1>15, <1>16, <1>17, <1>18, <1>19, <1>20, <1>21, <1>22, <1>23, <1>24,
        <1>25, <1>26, <1>27, <1>28, <1>29, <1>30, <1>31
    DEF Next, Execute, AdmissionAnswers, WorkAdvances, CommitAdvances, vars,
        registryVars, execVars, refereeVars

\* A commit persists the winner, which stands from then on.
LEMMA CommitNext ==
  ASSUME ConstantsAssumption, IInv, OutcomeInv, CommitInv, [Next]_vars
  PROVE  CommitInv'
  <1>0. /\ winner \in [Ops -> Intents]
        /\ commit \in [Ops -> CommitStages]
        /\ intent \in [Ops -> Intents]
    BY DEF IInv, TypeOK, RefereeType
  <1>w. \A o \in Ops : \A c \in Callers : call[o][c].stage # "no" => winner[o] # "none"
    BY DEF IInv, SignalInv
  <1>t. exec \in [Ops -> ExecStages] /\ outcome \in [Ops -> Outcomes]
    BY DEF IInv, TypeOK, ExecType
  <1>e. \A o \in Ops : exec[o] = "decided" => outcome[o] # "none"
    BY DEF OutcomeInv
  <1>1. CASE UNCHANGED <<winner, commit, intent>>
    BY <1>1 DEF CommitInv, Fulfilled
  <1>2. ASSUME NEW o \in Ops,
               Reserve(o) \/ Admit(o) \/ BeginFails(o) \/ AdmissionFails(o)
               \/ FailStartedRun(o) \/ ReleaseUnadmitted(o) \/ CompactReturns(o)
               \/ ExecuteDisposed(o) \/ ExecuteTerminal(o) \/ ExecuteSignalled(o)
               \/ ExecuteWork(o) \/ StreamOpens(o) \/ ChunkDelivered(o)
               \/ WorkThrows(o) \/ WorkReturns(o) \/ ExecutionReturns(o)
               \/ ChunkArrives(o) \/ StreamEnds(o)
               \/ \E c \in Callers : CallReturns(o, c)
        PROVE  UNCHANGED <<winner, commit, intent>>
    BY <1>2 DEF registryVars, execVars, refereeVars, Reserve, Admit, Begun, BeginFails,
        AdmissionFails, FailStartedRun, ReleaseUnadmitted, CompactReturns,
        ExecuteDisposed, ExecuteTerminal, ExecuteSignalled, ExecuteWork, StreamOpens,
        ChunkDelivered, WorkThrows, WorkReturns, ExecutionReturns, ChunkArrives,
        StreamEnds, CallReturns
  <1>3. ASSUME NEW o \in Ops, ExecuteForwarded(o) PROVE CommitInv'
    BY <1>0, <1>w, <1>t, <1>e, <1>3 DEF CommitInv, Fulfilled, ExecuteForwarded, Decide,
        Submit, Judged, Accepts, registryVars, execVars, refereeVars
  <1>4. ASSUME NEW o \in Ops, ExecutionCommits(o) PROVE CommitInv'
    BY <1>0, <1>w, <1>t, <1>e, <1>4 DEF CommitInv, Fulfilled, ExecutionCommits,
        BeginCommit, Submit, Judged, Accepts, registryVars, execVars, refereeVars
  <1>5. ASSUME NEW o \in Ops, SignalFires(o) PROVE CommitInv'
    BY <1>0, <1>w, <1>t, <1>e, <1>5 DEF CommitInv, Fulfilled, SignalFires, Submit,
        Judged, Accepts, registryVars, execVars, refereeVars
  <1>6. ASSUME NEW o \in Ops, Persist(o) PROVE CommitInv'
    BY <1>0, <1>w, <1>t, <1>e, <1>6 DEF CommitInv, Fulfilled, Persist, registryVars,
        execVars, refereeVars
  <1>7. ASSUME NEW o \in Ops, PersistFails(o) PROVE CommitInv'
    BY <1>0, <1>w, <1>t, <1>e, <1>7 DEF CommitInv, Fulfilled, PersistFails,
        registryVars, execVars, refereeVars
  <1>8. ASSUME NEW o \in Ops, PersistDowngrades(o) PROVE CommitInv'
    BY <1>0, <1>w, <1>t, <1>e, <1>8 DEF CommitInv, Fulfilled, PersistDowngrades,
        registryVars, execVars, refereeVars
  <1>9. ASSUME NEW o \in Ops, FailCompletion(o) PROVE CommitInv'
    BY <1>0, <1>w, <1>t, <1>e, <1>9 DEF CommitInv, Fulfilled, FailCompletion,
        registryVars, execVars, refereeVars
  <1>10. ASSUME NEW o \in Ops, Settle(o) PROVE CommitInv'
    BY <1>0, <1>w, <1>t, <1>e, <1>10 DEF CommitInv, Fulfilled, Settle, registryVars,
        execVars, refereeVars
  <1>11. ASSUME NEW o \in Ops, CloseCommit(o) PROVE CommitInv'
    BY <1>0, <1>w, <1>t, <1>e, <1>11 DEF CommitInv, Fulfilled, CloseCommit,
        registryVars, execVars, refereeVars
  <1>12. ASSUME NEW o \in Ops, NEW c \in Callers, CallControl(o, c) PROVE CommitInv'
    BY <1>0, <1>w, <1>t, <1>e, <1>12 DEF CommitInv, Fulfilled, CallControl, Submit,
        Judged, Accepts, StatusOf, registryVars, execVars, refereeVars
  <1>13. ASSUME NEW o \in Ops, NEW c \in Callers, CallCommits(o, c) PROVE CommitInv'
    BY <1>0, <1>w, <1>t, <1>e, <1>13 DEF CommitInv, Fulfilled, CallCommits, CallAt,
        BeginCommit, registryVars, execVars, refereeVars
  <1>14. QED
    BY <1>1, <1>2, <1>3, <1>4, <1>5, <1>6, <1>7, <1>8, <1>9, <1>10, <1>11, <1>12, <1>13
    DEF Next, Execute, AdmissionAnswers, WorkAdvances, CommitAdvances, vars,
        registryVars, execVars, refereeVars

\* What the host has persisted is what the commit reports.
LEMMA RecordNext ==
  ASSUME ConstantsAssumption, IInv, OutcomeInv, CommitInv, RecordInv, [Next]_vars
  PROVE  RecordInv'
  <1>0. /\ phase \in [Ops -> Phases]
        /\ terminal \in [Ops -> BOOLEAN]
        /\ durable \in [Ops -> SUBSET Intents]
        /\ commit \in [Ops -> CommitStages]
        /\ result \in [Ops -> Results]
        /\ winner \in [Ops -> Intents]
        /\ intent \in [Ops -> Intents]
    BY DEF IInv, TypeOK, RefereeType, RegistryType
  <1>u. \A o \in Ops : ~HasHandle(o) => exec[o] = "no" /\ commit[o] = "no"
    BY DEF IInv, HandleInv, Used
  <1>s. \A o \in Ops : commit[o] # "no" => winner[o] # "none"
    BY DEF CommitInv
  <1>1. CASE UNCHANGED <<phase, terminal, durable, commit, result, winner, intent>>
    BY <1>1 DEF RecordInv, HasHandle, IsRun, Ended, Fulfilled
  <1>2. ASSUME NEW o \in Ops,
               ExecuteDisposed(o) \/ ExecuteTerminal(o) \/ ExecuteSignalled(o)
               \/ ExecuteWork(o) \/ StreamOpens(o) \/ ChunkDelivered(o)
               \/ WorkThrows(o) \/ WorkReturns(o) \/ ExecutionReturns(o)
               \/ ChunkArrives(o) \/ StreamEnds(o)
               \/ \E c \in Callers : CallReturns(o, c)
        PROVE  UNCHANGED <<phase, terminal, durable, commit, result, winner, intent>>
    BY <1>2 DEF registryVars, execVars, refereeVars, ExecuteDisposed, ExecuteTerminal,
        ExecuteSignalled, ExecuteWork, StreamOpens, ChunkDelivered, WorkThrows,
        WorkReturns, ExecutionReturns, ChunkArrives, StreamEnds, CallReturns
  <1>3. ASSUME NEW o \in Ops, Reserve(o) PROVE RecordInv'
    BY <1>0, <1>u, <1>s, <1>3 DEF RecordInv, HasHandle, IsRun, Ended, Fulfilled,
        Reserve, registryVars, execVars, refereeVars
  <1>4. ASSUME NEW o \in Ops, Admit(o) PROVE RecordInv'
    <2>1. PICK ended \in BOOLEAN :
            /\ terminal' = [terminal EXCEPT ![o] = ended]
            /\ durable' = [durable EXCEPT ![o] = IF ended THEN {"cancelled"} ELSE {}]
      BY <1>4 DEF Admit, Begun
    <2>2. /\ phase[o] = "starting" /\ UNCHANGED <<commit, result, winner>>
          /\ phase' = [phase EXCEPT ![o] = "live"]
      BY <1>4 DEF Admit, Begun
    <2>3. commit[o] = "no"
      BY <1>u, <2>2 DEF HasHandle
    <2>4. QED
      BY <1>0, <2>1, <2>2, <2>3 DEF RecordInv, HasHandle, IsRun, Ended
  <1>5. ASSUME NEW o \in Ops, BeginFails(o) PROVE RecordInv'
    BY <1>0, <1>u, <1>s, <1>5 DEF RecordInv, HasHandle, IsRun, Ended, Fulfilled,
        BeginFails, ReleaseReservation, registryVars, execVars, refereeVars
  <1>6. ASSUME NEW o \in Ops, AdmissionFails(o) PROVE RecordInv'
    <2>1. PICK ended \in BOOLEAN :
            /\ terminal' = [terminal EXCEPT ![o] = ended]
            /\ durable' = [durable EXCEPT ![o] = IF ended THEN {"cancelled"} ELSE {}]
      BY <1>6 DEF AdmissionFails, Begun
    <2>2. /\ phase[o] = "starting" /\ UNCHANGED <<commit, result, winner>>
          /\ phase' = [phase EXCEPT ![o] = "compensating"]
      BY <1>6 DEF AdmissionFails, Begun
    <2>3. commit[o] = "no"
      BY <1>u, <2>2 DEF HasHandle
    <2>4. QED
      BY <1>0, <2>1, <2>2, <2>3 DEF RecordInv, HasHandle, IsRun, Ended
  <1>7. ASSUME NEW o \in Ops, FailStartedRun(o) PROVE RecordInv'
    BY <1>0, <1>u, <1>s, <1>7 DEF RecordInv, HasHandle, IsRun, Ended, Fulfilled,
        FailStartedRun, registryVars, execVars, refereeVars
  <1>8. ASSUME NEW o \in Ops, ReleaseUnadmitted(o) PROVE RecordInv'
    BY <1>0, <1>u, <1>s, <1>8 DEF RecordInv, HasHandle, IsRun, Ended, Fulfilled,
        ReleaseUnadmitted, ReleaseReservation, registryVars, execVars, refereeVars
  <1>9. ASSUME NEW o \in Ops, CompactReturns(o) PROVE RecordInv'
    BY <1>0, <1>u, <1>s, <1>9 DEF RecordInv, HasHandle, IsRun, Ended, Fulfilled,
        CompactReturns, ReleaseReservation, registryVars, execVars, refereeVars
  <1>10. ASSUME NEW o \in Ops, ExecuteForwarded(o) PROVE RecordInv'
    BY <1>0, <1>u, <1>s, <1>10 DEF RecordInv, HasHandle, IsRun, Ended, Fulfilled,
        ExecuteForwarded, Decide, Submit, Judged, Accepts, registryVars, execVars,
        refereeVars
  <1>11. ASSUME NEW o \in Ops, ExecutionCommits(o) PROVE RecordInv'
    <2>1. UNCHANGED <<phase, terminal, durable, result>>
      BY <1>11 DEF ExecutionCommits, registryVars
    <2>2. /\ \A q \in Ops : Ended(q)' = Ended(q)
          /\ \A q \in Ops : Ended(q) => winner'[q] = winner[q]
      BY <1>0, <1>s, <1>11 DEF ExecutionCommits, Submit, Judged, Accepts, BeginCommit, Ended
    <2>3. QED
      BY <2>1, <2>2 DEF RecordInv, HasHandle, IsRun
  <1>12. ASSUME NEW o \in Ops, SignalFires(o) PROVE RecordInv'
    BY <1>0, <1>u, <1>s, <1>12 DEF RecordInv, HasHandle, IsRun, Ended, Fulfilled,
        SignalFires, Submit, Judged, Accepts, registryVars, execVars, refereeVars
  <1>13. ASSUME NEW o \in Ops, Persist(o) PROVE RecordInv'
    <2>1. /\ HasHandle(o) /\ ~Ended(o) /\ intent[o] = winner[o] /\ winner[o] # "none"
      BY <1>u, <1>13 DEF Persist, Ended, CommitInv
    <2>2. durable' = [durable EXCEPT ![o] = {intent[o]}]
      BY <1>0, <1>13, <2>1 DEF Persist, HostAccepts, RecordInv
    <2>3. QED
      BY <1>0, <1>13, <2>1, <2>2 DEF RecordInv, HasHandle, IsRun, Ended, Persist, registryVars
  <1>14. ASSUME NEW o \in Ops, PersistFails(o) PROVE RecordInv'
    BY <1>0, <1>u, <1>s, <1>14 DEF RecordInv, HasHandle, IsRun, Ended, Fulfilled,
        PersistFails, registryVars, execVars, refereeVars
  <1>15. ASSUME NEW o \in Ops, PersistDowngrades(o) PROVE RecordInv'
    <2>1. HasHandle(o) /\ ~Ended(o) /\ winner[o] \in Fulfilled
      BY <1>u, <1>15 DEF PersistDowngrades, Ended, CommitInv, Fulfilled
    <2>2. durable[o] = {}
      BY <2>1 DEF OutcomeInv, RecordInv
    <2>3. QED
      BY <1>0, <1>15, <2>1, <2>2 DEF RecordInv, HasHandle, IsRun, Ended, PersistDowngrades, registryVars
  <1>16. ASSUME NEW o \in Ops, FailCompletion(o) PROVE RecordInv'
    <2>1. /\ HasHandle(o) /\ ~Ended(o) /\ winner[o] \in Fulfilled
      BY <1>u, <1>16 DEF FailCompletion, Ended, CommitInv, Fulfilled
    <2>2. durable[o] = {}
      BY <2>1 DEF OutcomeInv, RecordInv
    <2>3. /\ commit' = [commit EXCEPT ![o] = "settling"]
          /\ UNCHANGED <<phase, terminal, winner>>
      BY <1>16 DEF FailCompletion, registryVars
    <2>4. \/ /\ durable' = [durable EXCEPT ![o] = {"failed"}]
             /\ result' = [result EXCEPT ![o] = "failed"]
          \/ /\ UNCHANGED durable
             /\ result' = [result EXCEPT ![o] = "error"]
      BY <1>0, <1>16, <2>2 DEF FailCompletion
    <2>5. ASSUME NEW q \in Ops, q # o
          PROVE  UNCHANGED <<durable[q], result[q], commit[q]>>
      BY <1>0, <2>3, <2>4, <2>5
    <2>6. /\ commit'[o] = "settling"
          /\ \/ durable'[o] = {"failed"} /\ result'[o] = "failed"
             \/ result'[o] = "error"
      BY <1>0, <2>3, <2>4
    <2>7. phase[o] \notin {"idle", "starting"}
      BY <2>1 DEF HasHandle
    <2>8. QED
      BY <2>1, <2>3, <2>5, <2>6, <2>7 DEF RecordInv, HasHandle, IsRun, Ended, Fulfilled
  <1>17. ASSUME NEW o \in Ops, Settle(o) PROVE RecordInv'
    BY <1>0, <1>u, <1>s, <1>17 DEF RecordInv, HasHandle, IsRun, Ended, Fulfilled,
        Settle, registryVars, execVars, refereeVars
  <1>18. ASSUME NEW o \in Ops, CloseCommit(o) PROVE RecordInv'
    BY <1>0, <1>u, <1>s, <1>18 DEF RecordInv, HasHandle, IsRun, Ended, Fulfilled,
        CloseCommit, registryVars, execVars, refereeVars
  <1>19. ASSUME NEW o \in Ops, NEW c \in Callers, CallControl(o, c) PROVE RecordInv'
    BY <1>0, <1>u, <1>s, <1>19 DEF RecordInv, HasHandle, IsRun, Ended, Fulfilled,
        CallControl, Submit, Judged, Accepts, StatusOf, registryVars, execVars,
        refereeVars
  <1>20. ASSUME NEW o \in Ops, NEW c \in Callers, CallCommits(o, c) PROVE RecordInv'
    BY <1>0, <1>u, <1>s, <1>20 DEF RecordInv, HasHandle, IsRun, Ended, Fulfilled,
        CallCommits, CallAt, BeginCommit, registryVars, execVars, refereeVars
  <1>21. QED
    BY <1>1, <1>2, <1>3, <1>4, <1>5, <1>6, <1>7, <1>8, <1>9, <1>10, <1>11, <1>12, <1>13,
        <1>14, <1>15, <1>16, <1>17, <1>18, <1>19, <1>20
    DEF Next, Execute, AdmissionAnswers, WorkAdvances, CommitAdvances, vars,
        registryVars, execVars, refereeVars

\* The author of the winner is the call that submitted it, and only it is told so.
LEMMA AuthorNext ==
  ASSUME ConstantsAssumption, IInv, CommitInv, AuthorInv, [Next]_vars
  PROVE  AuthorInv'
  <1>0. /\ author \in [Ops -> Callers \union {"execution", "signal", Nobody}]
        /\ winner \in [Ops -> Intents]
        /\ call \in [Ops -> [Callers -> Calls]]
        /\ result \in [Ops -> Results]
        /\ commit \in [Ops -> CommitStages]
    BY DEF IInv, TypeOK, CallType, RefereeType
  <1>s. \A o \in Ops : commit[o] # "no" => winner[o] # "none"
    BY DEF CommitInv
  <1>d. \A o \in Ops : \A c \in Callers : call[o][c].stage = "returned" => commit[o] = "done"
    BY DEF IInv, DoneInv
  <1>c. \A c \in Callers : c \notin {"execution", "signal", Nobody}
    BY DEF ConstantsAssumption
  <1>1. CASE UNCHANGED <<author, winner, call, result, commit>>
    BY <1>1 DEF AuthorInv, StatusOf
  <1>2. ASSUME NEW o \in Ops,
               Reserve(o) \/ Admit(o) \/ BeginFails(o) \/ AdmissionFails(o)
               \/ FailStartedRun(o) \/ ReleaseUnadmitted(o) \/ CompactReturns(o)
               \/ ExecuteDisposed(o) \/ ExecuteTerminal(o) \/ ExecuteSignalled(o)
               \/ ExecuteWork(o) \/ StreamOpens(o) \/ ChunkDelivered(o)
               \/ WorkThrows(o) \/ WorkReturns(o) \/ ExecutionReturns(o)
               \/ ChunkArrives(o) \/ StreamEnds(o)
        PROVE  UNCHANGED <<author, winner, call, result, commit>>
    BY <1>2 DEF registryVars, execVars, refereeVars, Reserve, Admit, Begun, BeginFails,
        AdmissionFails, FailStartedRun, ReleaseUnadmitted, CompactReturns,
        ExecuteDisposed, ExecuteTerminal, ExecuteSignalled, ExecuteWork, StreamOpens,
        ChunkDelivered, WorkThrows, WorkReturns, ExecutionReturns, ChunkArrives,
        StreamEnds
  <1>3. ASSUME NEW o \in Ops, ExecuteForwarded(o) PROVE AuthorInv'
    BY <1>0, <1>s, <1>d, <1>c, <1>3 DEF AuthorInv, StatusOf, ExecuteForwarded, Decide,
        Submit, Judged, Accepts, registryVars, execVars, refereeVars
  <1>4. ASSUME NEW o \in Ops, ExecutionCommits(o) PROVE AuthorInv'
    BY <1>0, <1>s, <1>d, <1>c, <1>4 DEF AuthorInv, StatusOf, ExecutionCommits,
        BeginCommit, Submit, Judged, Accepts, registryVars, execVars, refereeVars
  <1>5. ASSUME NEW o \in Ops, SignalFires(o) PROVE AuthorInv'
    BY <1>0, <1>s, <1>d, <1>c, <1>5 DEF AuthorInv, StatusOf, SignalFires, Submit,
        Judged, Accepts, registryVars, execVars, refereeVars
  <1>6. ASSUME NEW o \in Ops, Persist(o) PROVE AuthorInv'
    BY <1>0, <1>s, <1>d, <1>c, <1>6 DEF AuthorInv, StatusOf, Persist, registryVars,
        execVars, refereeVars
  <1>7. ASSUME NEW o \in Ops, PersistFails(o) PROVE AuthorInv'
    BY <1>0, <1>s, <1>d, <1>c, <1>7 DEF AuthorInv, StatusOf, PersistFails, registryVars,
        execVars, refereeVars
  <1>8. ASSUME NEW o \in Ops, PersistDowngrades(o) PROVE AuthorInv'
    BY <1>0, <1>s, <1>d, <1>c, <1>8 DEF AuthorInv, StatusOf, PersistDowngrades,
        registryVars, execVars, refereeVars
  <1>9. ASSUME NEW o \in Ops, FailCompletion(o) PROVE AuthorInv'
    BY <1>0, <1>s, <1>d, <1>c, <1>9 DEF AuthorInv, StatusOf, FailCompletion,
        registryVars, execVars, refereeVars
  <1>10. ASSUME NEW o \in Ops, Settle(o) PROVE AuthorInv'
    BY <1>0, <1>s, <1>d, <1>c, <1>10 DEF AuthorInv, StatusOf, Settle, registryVars,
        execVars, refereeVars
  <1>11. ASSUME NEW o \in Ops, CloseCommit(o) PROVE AuthorInv'
    BY <1>0, <1>s, <1>d, <1>c, <1>11 DEF AuthorInv, StatusOf, CloseCommit, registryVars,
        execVars, refereeVars
  <1>12. ASSUME NEW o \in Ops, NEW c \in Callers, CallControl(o, c) PROVE AuthorInv'
    BY <1>0, <1>s, <1>d, <1>c, <1>12 DEF AuthorInv, StatusOf, CallControl, Submit,
        Judged, Accepts, StatusOf, registryVars, execVars, refereeVars
  <1>13. ASSUME NEW o \in Ops, NEW c \in Callers, CallCommits(o, c) PROVE AuthorInv'
    BY <1>0, <1>s, <1>d, <1>c, <1>13 DEF AuthorInv, StatusOf, CallCommits, CallAt,
        BeginCommit, registryVars, execVars, refereeVars
  <1>14. ASSUME NEW o \in Ops, NEW c \in Callers, CallReturns(o, c) PROVE AuthorInv'
    <2>1. commit[o] = "done" /\ UNCHANGED <<author, winner, result, commit>>
      BY <1>14 DEF CallReturns, refereeVars
    <2>2. call' = [call EXCEPT ![o][c] = CallAt(o, c, "returned", Answer(o, c))]
      BY <1>14 DEF CallReturns
    <2>3. ASSUME NEW q \in Ops, NEW d \in Callers, <<q, d>> # <<o, c>>
          PROVE  call'[q][d] = call[q][d]
      BY <1>0, <2>2, <2>3
    <2>4. call'[o][c] = CallAt(o, c, "returned", Answer(o, c))
      BY <1>0, <2>2
    <2>5. QED
      BY <2>1, <2>3, <2>4 DEF AuthorInv, StatusOf, CallAt, Answer
  <1>15. QED
    BY <1>1, <1>2, <1>3, <1>4, <1>5, <1>6, <1>7, <1>8, <1>9, <1>10, <1>11, <1>12, <1>13,
        <1>14
    DEF Next, Execute, AdmissionAnswers, WorkAdvances, CommitAdvances, vars,
        registryVars, execVars, refereeVars

\* The initial states satisfy the four.
LEMMA InitAnswers ==
  ASSUME ConstantsAssumption, Init
  PROVE  AnswerInv
  <1>1. OutcomeInv /\ CommitInv
    BY DEF Init, OutcomeInv, CommitInv, Working, Fulfilled
  <1>2. RecordInv /\ AuthorInv
    BY DEF Init, RecordInv, AuthorInv, Ended, HasHandle, NoCall, ConstantsAssumption
  <1>3. QED
    BY <1>1, <1>2 DEF AnswerInv

\* The invariant about answers holds in every reachable state.
THEOREM AnswersInductive == Spec => []AnswerInv
  <1>1. Init => AnswerInv
    BY ConstantsAssumption, InitAnswers
  <1>2. IInv /\ AnswerInv /\ [Next]_vars => AnswerInv'
    BY ConstantsAssumption, OutcomeNext, CommitNext, RecordNext, AuthorNext DEF AnswerInv
  <1>3. QED
    BY <1>1, <1>2, Inductive, PTL DEF Spec

\* What the commit of runtime-thread-terminal.ts reports, and what abort() and fail() are
\* told, is the one fact the host has persisted, and only one caller is told it owns it.
THEOREM AnswersAreKept == Spec => []AnswersStand
  <1>1. ASSUME IInv, AnswerInv, NEW o \in Ops, NEW c \in Callers, NEW d \in Callers,
               call[o][c].answer = "owned"
        PROVE  /\ durable[o] = {StatusOf(call[o][c].kind)}
               /\ call[o][d].answer = "owned" => d = c
    <2>1. /\ call[o][c].stage = "returned" /\ author[o] = c
          /\ result[o] = StatusOf(call[o][c].kind)
      BY <1>1 DEF AnswerInv, AuthorInv
    <2>2. commit[o] = "done" /\ result[o] # "error"
      BY <1>1, <2>1 DEF IInv, DoneInv, StatusOf
    <2>3. QED
      BY <1>1, <2>1, <2>2 DEF AnswerInv, AuthorInv, RecordInv, Ended
  <1>2. IInv /\ AnswerInv => OwnedAnswerIsDurable
    BY <1>1 DEF OwnedAnswerIsDurable
  <1>3. IInv /\ AnswerInv => OutcomeAgreement
    BY DEF AnswerInv, RecordInv, Ended, Fulfilled, OutcomeAgreement
  <1>4. QED
    BY <1>2, <1>3, Inductive, AnswersInductive, PTL DEF AnswersStand

-----------------------------------------------------------------------------
(* The lease that the host is promised.                                    *)

holders == [t \in Threads |-> active[t].owner]
standings == [o \in Ops |-> IF phase[o] = "idle" THEN "waiting"
                            ELSE IF Holds(o) THEN "holding" ELSE "gone"]

\* A step that changes neither who holds what nor what is recorded does not show.
LEMMA LeaseStutters ==
  ASSUME holders' = holders, standings' = standings, durable' = durable
  PROVE  UNCHANGED Lease!leaseVars
  BY DEF Lease!leaseVars, holders, standings

\* An operation that gives its thread back makes the lease's release.
LEMMA LeaseReleases ==
  ASSUME ConstantsAssumption, IInv, NEW o \in Ops, Holds(o), Entry(o).owner = o,
         active' = [active EXCEPT ![ThreadOf[o]] = FreeEntry],
         NEW last \in {"rejected", "released"}, phase' = [phase EXCEPT ![o] = last],
         UNCHANGED durable
  PROVE  Lease!Next
  <1>0. /\ active \in [Threads -> Entries] /\ phase \in [Ops -> Phases]
        /\ ThreadOf \in [Ops -> Threads]
    BY DEF IInv, TypeOK, RegistryType, ConstantsAssumption
  <1>1. standings[o] = "holding" /\ holders[ThreadOf[o]] = o
    BY <1>0 DEF standings, holders, Holds, HoldingPhases, Entry
  <1>2. holders' = [holders EXCEPT ![ThreadOf[o]] = NoOp]
    BY <1>0 DEF holders, FreeEntry
  <1>3. standings' = [standings EXCEPT ![o] = "gone"]
    BY <1>0 DEF standings, Holds, HoldingPhases
  <1>4. Lease!Release(o)
    BY <1>1, <1>2, <1>3 DEF Lease!Release, holders, standings
  <1>5. QED
    BY <1>4 DEF Lease!Next

\* An operation that holds its thread and persists its first fact makes the lease's record.
LEMMA LeaseRecords ==
  ASSUME ConstantsAssumption, IInv, NEW o \in Ops, Holds(o), durable[o] = {},
         NEW f \in Facts, durable' = [durable EXCEPT ![o] = {f}],
         holders' = holders, standings' = standings
  PROVE  Lease!Next
  <1>0. phase \in [Ops -> Phases]
    BY DEF IInv, TypeOK, RegistryType
  <1>1. standings[o] = "holding"
    BY <1>0 DEF standings, Holds, HoldingPhases
  <1>2. Lease!Record(o)
    BY <1>1 DEF Lease!Record, Lease!Facts, Facts, holders, standings
  <1>3. QED
    BY <1>2 DEF Lease!Next

\* The steps that show in the lease.
LEMMA LeaseVisible ==
  ASSUME [Next]_vars
  PROVE  \/ UNCHANGED <<active, phase, durable>>
         \/ \E o \in Ops :
              \/ Reserve(o) \/ Admit(o) \/ BeginFails(o) \/ AdmissionFails(o)
              \/ FailStartedRun(o) \/ ReleaseUnadmitted(o) \/ CompactReturns(o)
              \/ ExecuteWork(o) \/ Persist(o) \/ PersistDowngrades(o)
              \/ FailCompletion(o) \/ Settle(o)
  BY DEF Next, Execute, AdmissionAnswers, WorkAdvances, CommitAdvances, vars, registryVars,
         execVars, refereeVars, ExecuteDisposed, ExecuteTerminal, ExecuteForwarded,
         ExecuteSignalled, StreamOpens, ChunkDelivered, WorkThrows, WorkReturns,
         ExecutionCommits, ExecutionReturns, ChunkArrives, StreamEnds, SignalFires,
         PersistFails, CloseCommit, CallControl, CallCommits, CallReturns

\* The port that ends a run is called by a handle that holds its thread.
LEMMA CommitHolds ==
  ASSUME IInv, NEW o \in Ops, commit[o] \in {"persisting", "compensating", "settling"}
  PROVE  /\ phase[o] = "live" /\ Holds(o) /\ HasHandle(o)
         /\ Entry(o).owner = o
  <1>1. HasHandle(o) /\ phase[o] = "live"
    BY DEF IInv, HandleInv, Used, Finishing
  <1>2. QED
    BY <1>1 DEF IInv, HolderInv, Holds, HoldingPhases

\* Every step is a step of the lease or does not show in it.
LEMMA LeaseNext ==
  ASSUME ConstantsAssumption, IInv, OutcomeInv, CommitInv, RecordInv, [Next]_vars
  PROVE  [Lease!Next]_(Lease!leaseVars)
  <1>0. /\ active \in [Threads -> Entries] /\ phase \in [Ops -> Phases]
        /\ ThreadOf \in [Ops -> Threads] /\ NoOp \notin Ops
        /\ durable \in [Ops -> SUBSET Intents] /\ intent \in [Ops -> Intents]
    BY DEF IInv, TypeOK, RegistryType, RefereeType, ConstantsAssumption
  <1>1. CASE UNCHANGED <<active, phase, durable>>
    BY <1>1, LeaseStutters DEF holders, standings, Holds
  <1>2. ASSUME NEW o \in Ops, Reserve(o) PROVE Lease!Next
    <2>1. standings[o] = "waiting" /\ phase[o] = "idle" /\ UNCHANGED durable
      BY <1>2 DEF Reserve, standings, refereeVars
    <2>2. CASE Entry(o).status = "free"
      <3>1. /\ active' = [active EXCEPT ![ThreadOf[o]] = [status |-> "starting", owner |-> o]]
            /\ phase' = [phase EXCEPT ![o] = "starting"]
        BY <1>2, <2>2 DEF Reserve
      <3>2. holders[ThreadOf[o]] = NoOp
        BY <1>0, <2>2 DEF IInv, EntryInv, Entry, holders
      <3>3. holders' = [holders EXCEPT ![ThreadOf[o]] = o]
        BY <1>0, <3>1 DEF holders
      <3>4. standings' = [standings EXCEPT ![o] = "holding"]
        BY <1>0, <3>1 DEF standings, Holds, HoldingPhases
      <3>5. Lease!Acquire(o)
        BY <2>1, <3>2, <3>3, <3>4 DEF Lease!Acquire, holders, standings
      <3>6. QED BY <3>5 DEF Lease!Next
    <2>3. CASE Entry(o).status # "free"
      <3>1. UNCHANGED active /\ phase' = [phase EXCEPT ![o] = "rejected"]
        BY <1>2, <2>3 DEF Reserve
      <3>2. holders[ThreadOf[o]] # NoOp /\ UNCHANGED holders
        BY <1>0, <2>3, <3>1 DEF IInv, EntryInv, Entry, holders
      <3>3. standings' = [standings EXCEPT ![o] = "gone"]
        BY <1>0, <3>1 DEF standings, Holds, HoldingPhases
      <3>4. Lease!Refuse(o)
        BY <2>1, <3>2, <3>3 DEF Lease!Refuse, holders, standings
      <3>5. QED BY <3>4 DEF Lease!Next
    <2>4. QED BY <2>2, <2>3
  <1>3. ASSUME NEW o \in Ops, Admit(o) \/ AdmissionFails(o)
        PROVE  [Lease!Next]_(Lease!leaseVars)
    <2>1. /\ phase[o] = "starting" /\ durable[o] = {}
          /\ \E next \in {"live", "compensating"} : phase' = [phase EXCEPT ![o] = next]
          /\ \/ UNCHANGED active
             \/ /\ Entry(o) = [status |-> "starting", owner |-> o]
                /\ active' = [active EXCEPT ![ThreadOf[o]] =
                                [status |-> "admitted", owner |-> o]]
      BY <1>3 DEF Admit, AdmissionFails, Begun, RecordInv
    <2>2. Holds(o) /\ holders' = holders
      BY <1>0, <2>1 DEF Holds, HoldingPhases, holders, Entry
    <2>3. standings' = standings
      BY <1>0, <2>1 DEF standings, Holds, HoldingPhases
    <2>4. \/ durable' = [durable EXCEPT ![o] = {"cancelled"}]
          \/ durable' = durable
      <3>1. Begun(o)
        BY <1>3 DEF Admit, AdmissionFails
      <3>2. PICK ended \in BOOLEAN :
              durable' = [durable EXCEPT ![o] = IF ended THEN {"cancelled"} ELSE {}]
        BY <3>1 DEF Begun
      <3>3. QED
        BY <1>0, <2>1, <3>2
    <2>5. QED
      BY <2>1, <2>2, <2>3, <2>4, LeaseRecords, LeaseStutters DEF Facts
  <1>4. ASSUME NEW o \in Ops, BeginFails(o) \/ ReleaseUnadmitted(o) \/ CompactReturns(o)
        PROVE  Lease!Next
    <2>1. /\ phase[o] \in {"starting", "unadmitted"} /\ UNCHANGED durable
          /\ \E last \in {"rejected", "released"} : phase' = [phase EXCEPT ![o] = last]
          /\ ReleaseReservation(o)
      BY <1>4 DEF BeginFails, ReleaseUnadmitted, CompactReturns, refereeVars
    <2>2. Entry(o) = [status |-> "starting", owner |-> o] /\ Holds(o)
      BY <1>0, <2>1 DEF IInv, HolderInv, Entry, Entries, Holds, HoldingPhases
    <2>3. active' = [active EXCEPT ![ThreadOf[o]] = FreeEntry]
      BY <2>1, <2>2 DEF ReleaseReservation
    <2>4. PICK last \in {"rejected", "released"} : phase' = [phase EXCEPT ![o] = last]
      BY <2>1
    <2>5. Entry(o).owner = o
      BY <2>2
    <2>6. QED
      BY <2>1, <2>2, <2>3, <2>4, <2>5, LeaseReleases
  <1>5. ASSUME NEW o \in Ops, FailStartedRun(o) PROVE [Lease!Next]_(Lease!leaseVars)
    <2>1. Holds(o) /\ holders' = holders
      BY <1>5 DEF FailStartedRun, Holds, HoldingPhases, holders
    <2>2. standings' = standings
      BY <1>0, <1>5 DEF FailStartedRun, standings, Holds, HoldingPhases
    <2>3. \/ durable[o] = {} /\ durable' = [durable EXCEPT ![o] = {"failed"}]
          \/ durable' = durable
      BY <1>5 DEF FailStartedRun
    <2>4. QED
      BY <2>1, <2>2, <2>3, LeaseRecords, LeaseStutters DEF Facts
  <1>6. ASSUME NEW o \in Ops, ExecuteWork(o) PROVE UNCHANGED Lease!leaseVars
    <2>1. HasHandle(o) /\ exec[o] = "no" /\ ~signalled[o] /\ UNCHANGED <<phase, durable>>
      BY <1>6 DEF ExecuteWork, refereeVars
    <2>2. phase[o] = "live"
      BY <2>1 DEF IInv, SignalInv, HandleInv, Finishing
    <2>3. Entry(o).owner = o
      BY <2>2 DEF IInv, HolderInv
    <2>4. holders' = holders
      BY <1>0, <1>6, <2>3 DEF ExecuteWork, StartWork, holders, Entry
    <2>5. QED
      BY <2>1, <2>4, LeaseStutters DEF standings, Holds
  <1>7. ASSUME NEW o \in Ops, Persist(o) \/ PersistDowngrades(o) \/ FailCompletion(o)
        PROVE  [Lease!Next]_(Lease!leaseVars)
    <2>1. HasHandle(o) /\ ~Ended(o) /\ Holds(o) /\ UNCHANGED <<active, phase>>
      BY <1>7, CommitHolds
      DEF Persist, PersistDowngrades, FailCompletion, Ended, registryVars
    <2>2. holders' = holders /\ standings' = standings
      BY <2>1 DEF holders, standings, Holds
    <2>3. commit[o] # "no" /\ intent[o] = winner[o] /\ intent[o] \in Facts
      BY <1>0, <1>7 DEF Persist, PersistDowngrades, FailCompletion, CommitInv, Intents, Facts
    <2>4. durable[o] = IF terminal[o] THEN {"cancelled"} ELSE {}
      BY <2>1 DEF RecordInv
    <2>5. ASSUME durable[o] = {} PROVE [Lease!Next]_(Lease!leaseVars)
      <3>1. \/ \E f \in Facts : durable' = [durable EXCEPT ![o] = {f}]
            \/ durable' = durable
        BY <1>0, <1>7, <2>3, <2>5 DEF Persist, PersistDowngrades, FailCompletion, Facts
      <3>2. QED
        BY <2>1, <2>2, <2>5, <3>1, LeaseRecords, LeaseStutters
    <2>6. ASSUME durable[o] # {} PROVE UNCHANGED Lease!leaseVars
      <3>1. durable[o] = {"cancelled"} /\ winner[o] \notin Fulfilled
        BY <2>4, <2>6 DEF OutcomeInv
      <3>2. Persist(o) /\ intent[o] = "cancelled"
        BY <1>7, <2>3, <2>6, <3>1
        DEF Persist, PersistDowngrades, FailCompletion, HostAccepts, CommitInv, Fulfilled
      <3>3. durable' = durable
        BY <1>0, <3>1, <3>2 DEF Persist
      <3>4. QED
        BY <2>2, <3>3, LeaseStutters
    <2>7. QED BY <2>5, <2>6
  <1>8. ASSUME NEW o \in Ops, Settle(o) PROVE Lease!Next
    <2>1. commit[o] = "settling"
      BY <1>8 DEF Settle
    <2>2. /\ active' = [active EXCEPT ![ThreadOf[o]] = FreeEntry]
          /\ phase' = [phase EXCEPT ![o] = "released"] /\ UNCHANGED durable
      BY <1>8, SettlesOwn DEF Settle, IInv
    <2>3. Holds(o) /\ Entry(o).owner = o
      BY <2>1, CommitHolds
    <2>4. QED
      BY <2>2, <2>3, LeaseReleases
  <1>9. QED
    BY <1>1, <1>2, <1>3, <1>4, <1>5, <1>6, <1>7, <1>8, LeaseVisible

\* The harness keeps the lease of a thread that it promises its host: operations hold a
\* thread one at a time, are refused only while it is held, and record at most one terminal
\* fact, while they hold it.
THEOREM LeaseIsKept == Spec => ImplementsLease
  <1>1. Init => Lease!Init
    BY DEF Init, Lease!Init, FreeEntry
  <1>2. IInv /\ AnswerInv /\ [Next]_vars => [Lease!Next]_(Lease!leaseVars)
    BY ConstantsAssumption, LeaseNext DEF AnswerInv
  <1>3. QED
    BY <1>1, <1>2, Inductive, AnswersInductive, PTL DEF Spec, ImplementsLease, Lease!Spec

-----------------------------------------------------------------------------
(* Greatest elements, for the window that follows the thread *)

LEMMA MinExists ==
  ASSUME NEW T \in SUBSET Nat, T # {}
  PROVE  \E x \in T : \A y \in T : x <= y
<1> DEFINE R == {ss \in Nat \X Nat : ss[1] < ss[2]}
<1>1. IsWellFoundedOn(R, Nat)
  BY NatLessThanWellFounded DEF OpToRel
<1> HIDE DEF R
<1>2. \E x \in T : \A y \in T : ~ (<<y, x>> \in R)
  BY <1>1, WFMin
<1>3. \A x, y \in Nat : <<y, x>> \notin R => x <= y
  BY DEF R
<1>4. QED
  BY <1>2, <1>3

\* A set of naturals with an upper bound has a greatest element, which Max finds.
LEMMA MaxIs ==
  ASSUME NEW n \in Nat, NEW T \in SUBSET (0..n), T # {}
  PROVE  Max(T) \in T /\ \A x \in T : x <= Max(T)
<1> DEFINE D == {n - x : x \in T}
<1>1. D \in SUBSET Nat
  BY SMT
<1>2. D # {}
  OBVIOUS
<1>3. PICK d \in D : \A y \in D : d <= y
  BY <1>1, <1>2, MinExists
<1>4. PICK t \in T : d = n - t
  BY <1>3
<1>5. ASSUME NEW x \in T
      PROVE  t >= x
  <2>1. n - x \in D
    OBVIOUS
  <2>2. d <= n - x
    BY <1>3, <2>1
  <2>3. QED
    BY <1>4, <2>2
<1>6. QED
  BY <1>5 DEF Max

LEMMA MaxOfTwo ==
  ASSUME NEW a \in Nat, NEW b \in Nat
  PROVE  Max({a, b}) = IF a >= b THEN a ELSE b
<1>1. {a, b} \in SUBSET (0..(a + b)) /\ {a, b} # {}
  OBVIOUS
<1>2. Max({a, b}) \in {a, b} /\ \A x \in {a, b} : x <= Max({a, b})
  BY <1>1, MaxIs
<1>3. QED
  BY <1>2

-----------------------------------------------------------------------------
(* What a range of events says *)

\* What events make of a thread, those of a range that are messages or about the run, and
\* what the last of the latter says.
Said == {"idle", "running", "waiting"}
Messages(l, r) == {i \in 1..r : l[i] = "message"}
Control(l, from, to) == {i \in from..to : l[i] # "message"}
Verdict(kind) ==
  CASE kind \in {"start", "resume"} -> "running" [] kind = "wait" -> "waiting" [] OTHER -> "idle"
\* MessagesAt and PhaseAfter of any log.
Count(l, r) == Cardinality(Messages(l, r))
Phase(l, p, from, to) ==
  IF Control(l, from, to) = {} THEN p ELSE Verdict(l[Max(Control(l, from, to))])

LEMMA SaidOfLog ==
  /\ \A r : MessagesAt(r) = Count(log, r)
  /\ \A p, v, r : PhaseAfter(p, v, r) = Phase(log, p, v, r)
  /\ \A r : PhaseAt(r) = Phase(log, "idle", 1, r)
BY DEF MessagesAt, Count, Messages, PhaseAfter, Phase, PhaseAt, Control, Verdict

LEMMA CountIs ==
  ASSUME NEW l, NEW r \in Nat
  PROVE  /\ Count(l, r) \in Nat
         /\ \A q \in 0..r : Count(l, q) \in Nat /\ Count(l, q) <= Count(l, r)
         /\ Count(l, 0) = 0
<1>1. \A q \in 0..r : Count(l, q) \in Nat /\ Count(l, q) <= Count(l, r)
  <2>1. SUFFICES ASSUME NEW q \in 0..r
                 PROVE  Count(l, q) \in Nat /\ Count(l, q) <= Count(l, r)
    OBVIOUS
  <2>2. IsFiniteSet(1..r)
    BY FS_Interval
  <2>3. Messages(l, r) \in SUBSET (1..r) /\ Messages(l, q) \in SUBSET Messages(l, r)
    BY DEF Messages
  <2>4. IsFiniteSet(Messages(l, r))
    BY <2>2, <2>3, FS_Subset
  <2>5. IsFiniteSet(Messages(l, q)) /\ Cardinality(Messages(l, q)) <= Cardinality(Messages(l, r))
    BY <2>3, <2>4, FS_Subset
  <2>6. QED
    BY <2>5, FS_CardinalityType DEF Count
<1>2. Messages(l, 0) = {}
  BY DEF Messages
<1>3. Count(l, 0) = 0
  BY <1>2, FS_EmptySet DEF Count
<1>4. QED
  BY <1>1, <1>3

LEMMA PhaseType ==
  ASSUME NEW l, NEW p \in Said, NEW v, NEW r
  PROVE  Phase(l, p, v, r) \in Said
BY DEF Phase, Verdict, Said

\* Events that follow a revision say the same, whatever was known at that revision,
\* as soon as one of them is about the run.
LEMMA PhaseGoesOn ==
  ASSUME NEW l, NEW p, NEW r \in Nat, NEW v \in 0..r
  PROVE  /\ Control(l, v + 1, r) = {} =>
              /\ Phase(l, p, v + 1, r) = p
              /\ Phase(l, "idle", 1, r) = Phase(l, "idle", 1, v)
         /\ Control(l, v + 1, r) # {} =>
              Phase(l, p, v + 1, r) = Phase(l, "idle", 1, r)
<1>1. CASE Control(l, v + 1, r) = {}
  <2>1. Control(l, 1, r) = Control(l, 1, v)
    <3>1. \A i \in 1..r : i \in 1..v \/ i \in (v + 1)..r
      OBVIOUS
    <3>2. \A i \in 1..v : i \in 1..r
      OBVIOUS
    <3>3. QED
      BY <1>1, <3>1, <3>2 DEF Control
  <2>2. QED
    BY <1>1, <2>1 DEF Phase
<1>2. CASE Control(l, v + 1, r) # {}
  <2> DEFINE late == Control(l, v + 1, r)
             all == Control(l, 1, r)
  <2>1. late \in SUBSET (0..r) /\ all \in SUBSET (0..r) /\ late \subseteq all
    BY DEF Control
  <2>2. /\ Max(late) \in late /\ \A x \in late : x <= Max(late)
        /\ Max(all) \in all /\ \A x \in all : x <= Max(all)
    BY <1>2, <2>1, MaxIs
  <2>3. Max(late) \in (v + 1)..r /\ Max(all) \in 1..r /\ l[Max(all)] # "message"
    BY <2>2 DEF Control
  <2>4. Max(late) <= Max(all)
    BY <2>1, <2>2
  <2>5. Max(all) \in late
    BY <2>3, <2>4 DEF Control
  <2>6. Max(all) <= Max(late)
    BY <2>2, <2>5
  <2>7. Max(all) = Max(late)
    BY <2>3, <2>4, <2>6
  <2>8. QED
    BY <1>2, <2>1, <2>7 DEF Phase
<1>3. QED
  BY <1>1, <1>2

\* More events say nothing else of the revisions before them.
LEMMA LogGrows ==
  ASSUME NEW l \in Seq(Kinds), NEW k \in Seq(Kinds), NEW r \in 0..Len(l)
  PROVE  /\ Count(l \o k, r) = Count(l, r)
         /\ Phase(l \o k, "idle", 1, r) = Phase(l, "idle", 1, r)
<1>1. \A i \in 1..r : (l \o k)[i] = l[i]
  OBVIOUS
<1>2. Messages(l \o k, r) = Messages(l, r) /\ Control(l \o k, 1, r) = Control(l, 1, r)
  BY <1>1 DEF Messages, Control
<1>3. Control(l, 1, r) # {} => Max(Control(l, 1, r)) \in 1..r
  <2>1. Control(l, 1, r) \in SUBSET (0..r) /\ \A i \in Control(l, 1, r) : i \in 1..r
    BY DEF Control
  <2>2. r \in Nat
    OBVIOUS
  <2>3. QED
    BY <2>1, <2>2, MaxIs
<1>4. QED
  BY <1>1, <1>2, <1>3 DEF Count, Phase
-----------------------------------------------------------------------------
(* The invariant *)

Batches == [from : Nat, to : Nat]
\* What a call of the window carries from one await to the next.
TaskRecs ==
  [kind : {"load", "resync"}, at : {"ready", "reading", "read", "replay", "asking", "done"},
   life : {0} \cup Lives, streamed : BOOLEAN, snapshot : [messages : Nat, phase : Said],
   from : Nat]
\* One of the calls is a resync.
Resyncs(q) == \E i \in DOMAIN q : q[i].kind = "resync"

\* What the main process has, and the switches of both sides.
SidesInv ==
  /\ log \in Seq(Kinds) /\ Len(log) <= MaxRevision /\ base \in 0..Len(log)
  /\ {attached, shadowed, open, resyncing, lost} \subseteq BOOLEAN
  /\ ready \in [Lives -> {"none", "connecting", "connected", "failed"}]
  /\ troubles \in 0..MaxTroubles

\* A thread is opened once more often than it was closed, at most.
LifeInv ==
  /\ life \in {0} \cup Lives
  /\ open => life \in Lives
  /\ life <= IF open THEN troubles + 1 ELSE troubles

\* Batches hold events there are.
BatchOK(b, n) == b \in Batches /\ b.from <= b.to /\ b.to <= n
BatchInv ==
  /\ channel \in Seq(Batches)
  /\ \A i \in DOMAIN channel : BatchOK(channel[i], Len(log))
  /\ \A b \in pending : BatchOK(b, Len(log))

\* No snapshot has more messages than were committed.
TasksOK(q, n) == q \in Seq(TaskRecs) /\ \A i \in DOMAIN q : q[i].snapshot.messages <= n

\* A view shows no less than its revision stands for, and a run only if the events do.
ViewOK(l, v) ==
  /\ v \in [revision : 0..Len(l), messages : 0..Count(l, Len(l)), phase : Said]
  /\ v.messages >= Count(l, v.revision)
  /\ Phase(l, "idle", 1, v.revision) # "idle" => v.phase = Phase(l, "idle", 1, v.revision)
  /\ v.phase = "running" => Phase(l, "idle", 1, v.revision) = "running"

\* Batches are put aside only during a resync, which has a task that ends it.
WaitInv ==
  /\ pending # {} => resyncing
  /\ resyncing => Resyncs(tasks)

\* With these the properties of RuntimeClient are inductive.
ClientInv ==
  /\ SidesInv /\ LifeInv /\ BatchInv
  /\ TasksOK(tasks, Count(log, Len(log))) /\ ViewOK(log, view) /\ WaitInv

-----------------------------------------------------------------------------
(* What a view becomes *)

LEMMA EmptyIs ==
  ASSUME NEW l \in Seq(Kinds)
  PROVE  ViewOK(l, EmptyView)
<1>1. Len(l) \in Nat
  OBVIOUS
<1>2. Count(l, 0) = 0 /\ Count(l, Len(l)) \in Nat
  BY <1>1, CountIs
<1>3. Phase(l, "idle", 1, 0) = "idle"
  BY DEF Phase, Control
<1>4. QED
  BY <1>1, <1>2, <1>3 DEF ViewOK, EmptyView, Said

LEMMA AppliedIs ==
  ASSUME log \in Seq(Kinds), ViewOK(log, view), NEW r \in view.revision..Len(log)
  PROVE  ViewOK(log, Applied(r)) /\ Applied(r).revision = r
<1>1. Len(log) \in Nat /\ view.revision \in 0..r /\ r \in Nat
  BY DEF ViewOK
<1>2. /\ Count(log, r) \in Nat /\ Count(log, Len(log)) \in Nat
      /\ Count(log, r) <= Count(log, Len(log)) /\ view.messages \in Nat
      /\ view.messages <= Count(log, Len(log))
  BY <1>1, CountIs DEF ViewOK
<1> DEFINE a == Applied(r)
           p == Phase(log, view.phase, view.revision + 1, r)
<1>3. a = [revision |-> r,
           messages |-> IF r = view.revision THEN view.messages
                        ELSE Max({view.messages, Count(log, r)}),
           phase |-> p]
  BY SaidOfLog DEF Applied
<1>4. /\ a.messages \in 0..Count(log, Len(log))
      /\ a.messages >= Count(log, r)
  <2>1. CASE r = view.revision
    BY <1>2, <1>3, <2>1 DEF ViewOK
  <2>2. CASE r # view.revision
    BY <1>2, <1>3, <2>2, MaxOfTwo
  <2>3. QED
    BY <2>1, <2>2
<1>5. p \in Said
  BY PhaseType DEF ViewOK
<1>6. /\ Phase(log, "idle", 1, r) # "idle" => p = Phase(log, "idle", 1, r)
      /\ p = "running" => Phase(log, "idle", 1, r) = "running"
  <2>1. CASE Control(log, view.revision + 1, r) = {}
    <3>1. p = view.phase
      BY <2>1 DEF Phase
    <3>2. Phase(log, "idle", 1, r) = Phase(log, "idle", 1, view.revision)
      BY <1>1, <2>1, PhaseGoesOn
    <3>3. QED
      BY <3>1, <3>2 DEF ViewOK
  <2>2. CASE Control(log, view.revision + 1, r) # {}
    BY <1>1, <2>2, PhaseGoesOn
  <2>3. QED
    BY <2>1, <2>2
<1> HIDE DEF a, p
<1>7. /\ a \in [revision : 0..Len(log), messages : 0..Count(log, Len(log)), phase : Said]
      /\ a.revision = r /\ a.phase = p
  <2>1. a.phase = p /\ a.revision = r
    BY <1>3
  <2>2. r \in 0..Len(log)
    BY <1>1
  <2>3. QED
    BY <1>3, <1>4, <1>5, <2>1, <2>2
<1>8. ViewOK(log, a)
  BY <1>4, <1>6, <1>7 DEF ViewOK
<1>9. QED
  BY <1>7, <1>8 DEF a

LEMMA SnapshotIs ==
  ASSUME log \in Seq(Kinds), NEW v, ViewOK(log, v),
         NEW s \in [messages : Nat, phase : Said], s.messages <= Count(log, Len(log))
  PROVE  ViewOK(log, WithSnapshot(v, s))
<1>1. CASE ~CanApplySnapshot(v, s)
  BY <1>1 DEF WithSnapshot
<1>2. CASE CanApplySnapshot(v, s)
  <2> DEFINE w == WithSnapshot(v, s)
  <2>1. w = [v EXCEPT !.messages = s.messages, !.phase = s.phase]
    BY <1>2 DEF WithSnapshot
  <2>2. /\ v.phase = "idle" /\ s.phase # "running"
        /\ v.revision > 0 => s.messages >= v.messages
    BY <1>2 DEF CanApplySnapshot, WouldRollback, ViewOK
  <2>3. Phase(log, "idle", 1, v.revision) = "idle"
    BY <2>2 DEF ViewOK
  <2>4. s.messages >= Count(log, v.revision)
    <3>1. CASE v.revision > 0
      <4>1. Len(log) \in Nat /\ v.revision \in 0..Len(log)
        BY DEF ViewOK
      <4>2. Count(log, v.revision) \in Nat
        BY <4>1, CountIs
      <4>3. QED
        BY <2>2, <3>1, <4>2 DEF ViewOK
    <3>2. CASE v.revision = 0
      BY <3>2, CountIs
    <3>3. QED
      BY <3>1, <3>2 DEF ViewOK
  <2>5. /\ w \in [revision : 0..Len(log), messages : 0..Count(log, Len(log)), phase : Said]
        /\ w.revision = v.revision /\ w.messages = s.messages /\ w.phase = s.phase
    <3>1. Count(log, Len(log)) \in Nat
      BY CountIs
    <3>2. s.messages \in 0..Count(log, Len(log))
      BY <3>1
    <3>3. QED
      BY <2>1, <3>2 DEF ViewOK
  <2> HIDE DEF w
  <2>6. ViewOK(log, w)
    BY <2>2, <2>3, <2>4, <2>5 DEF ViewOK
  <2>7. QED
    BY <2>6 DEF w
<1>3. QED
  BY <1>1, <1>2

\* Nothing changes for a view when events are committed.
LEMMA ViewStays ==
  ASSUME NEW l \in Seq(Kinds), NEW k \in Seq(Kinds), NEW v, ViewOK(l, v)
  PROVE  /\ ViewOK(l \o k, v)
         /\ Count(l, Len(l)) \in Nat /\ Count(l, Len(l)) <= Count(l \o k, Len(l \o k))
<1>1. /\ Len(l) \in Nat /\ Len(l \o k) \in Nat /\ Len(l) \in 0..Len(l \o k)
      /\ v.revision \in 0..Len(l)
  BY DEF ViewOK
<1>2. /\ Count(l \o k, v.revision) = Count(l, v.revision)
      /\ Phase(l \o k, "idle", 1, v.revision) = Phase(l, "idle", 1, v.revision)
      /\ Count(l \o k, Len(l)) = Count(l, Len(l))
  BY <1>1, LogGrows
<1>3. /\ Count(l \o k, Len(l)) <= Count(l \o k, Len(l \o k))
      /\ Count(l \o k, Len(l \o k)) \in Nat /\ Count(l \o k, Len(l)) \in Nat
  BY <1>1, CountIs
<1>4. v \in [revision : 0..Len(l \o k), messages : 0..Count(l \o k, Len(l \o k)), phase : Said]
  <2>1. \A i \in 0..Len(l) : i \in 0..Len(l \o k)
    BY <1>1
  <2>2. \A i \in 0..Count(l, Len(l)) : i \in 0..Count(l \o k, Len(l \o k))
    BY <1>2, <1>3
  <2>3. QED
    BY <2>1, <2>2 DEF ViewOK
<1>5. QED
  BY <1>2, <1>3, <1>4 DEF ViewOK
-----------------------------------------------------------------------------
(* The tasks of the window *)

LEMMA NewTask ==
  ASSUME life \in {0} \cup Lives, NEW k \in {"load", "resync"}, NEW a \in {"ready", "replay"}
  PROVE  Task(k, a) \in TaskRecs /\ Task(k, a).snapshot.messages = 0 /\ Task(k, a).kind = k
BY DEF Task, TaskRecs, Said

LEMMA TaskMoves ==
  ASSUME NEW n \in Nat, NEW q, TasksOK(q, n), NEW i \in DOMAIN q,
         NEW t \in TaskRecs, t.snapshot.messages <= n, t.kind = q[i].kind
  PROVE  /\ TasksOK([q EXCEPT ![i] = t], n)
         /\ Resyncs(q) => Resyncs([q EXCEPT ![i] = t])
<1> DEFINE p == [q EXCEPT ![i] = t]
<1>1. q \in Seq(TaskRecs) /\ i \in 1..Len(q)
  BY DEF TasksOK
<1>2. p \in Seq(TaskRecs) /\ DOMAIN p = DOMAIN q
  BY <1>1
<1>3. \A j \in DOMAIN q : p[j] = IF j = i THEN t ELSE q[j]
  BY <1>1
<1> HIDE DEF p
<1>4. TasksOK(p, n)
  BY <1>2, <1>3 DEF TasksOK
<1>5. Resyncs(q) => Resyncs(p)
  <2>1. SUFFICES ASSUME Resyncs(q)
                 PROVE  Resyncs(p)
    OBVIOUS
  <2>2. PICK j \in DOMAIN q : q[j].kind = "resync"
    BY <2>1 DEF Resyncs
  <2>3. p[j].kind = "resync"
    BY <1>3, <2>2
  <2>4. QED
    BY <1>2, <2>3 DEF Resyncs
<1>6. QED
  BY <1>4, <1>5 DEF p

LEMMA TasksJoin ==
  ASSUME NEW n \in Nat, NEW q, TasksOK(q, n), NEW p, TasksOK(p, n)
  PROVE  TasksOK(q \o p, n) /\ (Resyncs(q) \/ Resyncs(p) => Resyncs(q \o p))
<1> DEFINE s == q \o p
<1>1. q \in Seq(TaskRecs) /\ p \in Seq(TaskRecs) /\ s \in Seq(TaskRecs)
  BY DEF TasksOK
<1>2. /\ DOMAIN s = 1..(Len(q) + Len(p)) /\ DOMAIN q = 1..Len(q) /\ DOMAIN p = 1..Len(p)
      /\ Len(q) \in Nat /\ Len(p) \in Nat
  BY <1>1
<1>3. /\ \A i \in DOMAIN q : s[i] = q[i]
      /\ \A i \in DOMAIN p : s[Len(q) + i] = p[i]
  BY <1>1, <1>2
<1>4. TasksOK(s, n)
  <2>1. SUFFICES ASSUME NEW i \in DOMAIN s
                 PROVE  s[i].snapshot.messages <= n
    BY <1>1 DEF TasksOK
  <2>2. CASE i \in DOMAIN q
    BY <1>3, <2>2 DEF TasksOK
  <2>3. CASE i \notin DOMAIN q
    <3>1. i - Len(q) \in DOMAIN p /\ Len(q) + (i - Len(q)) = i
      BY <1>2, <2>3
    <3>2. s[i] = p[i - Len(q)]
      BY <1>1, <1>2, <3>1
    <3>3. QED
      BY <3>1, <3>2 DEF TasksOK
  <2>4. QED
    BY <2>2, <2>3
<1> HIDE DEF s
<1>5. Resyncs(q) => Resyncs(s)
  BY <1>2, <1>3 DEF Resyncs
<1>6. Resyncs(p) => Resyncs(s)
  <2>1. SUFFICES ASSUME Resyncs(p)
                 PROVE  Resyncs(s)
    OBVIOUS
  <2>2. PICK i \in DOMAIN p : p[i].kind = "resync"
    BY <2>1 DEF Resyncs
  <2>3. Len(q) + i \in DOMAIN s
    BY <1>2, <2>2
  <2>4. s[Len(q) + i].kind = "resync"
    BY <1>3, <2>2
  <2>5. QED
    BY <2>3, <2>4 DEF Resyncs
<1>7. QED
  BY <1>4, <1>5, <1>6 DEF s

LEMMA TaskJoins ==
  ASSUME NEW n \in Nat, NEW q, TasksOK(q, n), NEW t \in TaskRecs, t.snapshot.messages <= n
  PROVE  /\ TasksOK(Append(q, t), n)
         /\ Resyncs(q) \/ t.kind = "resync" => Resyncs(Append(q, t))
<1> DEFINE s == Append(q, t)
<1>1. q \in Seq(TaskRecs) /\ s \in Seq(TaskRecs)
  BY DEF TasksOK
<1>2. /\ DOMAIN s = 1..(Len(q) + 1) /\ DOMAIN q = 1..Len(q) /\ Len(q) \in Nat
      /\ s[Len(q) + 1] = t /\ \A i \in 1..Len(q) : s[i] = q[i]
  BY <1>1
<1> HIDE DEF s
<1>3. TasksOK(s, n)
  BY <1>1, <1>2 DEF TasksOK
<1>4. Resyncs(q) \/ t.kind = "resync" => Resyncs(s)
  BY <1>2 DEF Resyncs
<1>5. QED
  BY <1>3, <1>4 DEF s

LEMMA TaskGoes ==
  ASSUME NEW n \in Nat, NEW q, TasksOK(q, n), NEW i \in DOMAIN q
  PROVE  /\ TasksOK(RemoveAt(q, i), n)
         /\ Resyncs(q) /\ q[i].kind # "resync" => Resyncs(RemoveAt(q, i))
<1> DEFINE before == SubSeq(q, 1, i - 1)
           after == SubSeq(q, i + 1, Len(q))
<1>1. q \in Seq(TaskRecs) /\ i \in 1..Len(q)
  BY DEF TasksOK
<1>2. /\ before \in Seq(TaskRecs) /\ Len(before) = i - 1
      /\ \A j \in 1..(i - 1) : before[j] = q[j]
  BY <1>1
<1>3. /\ after \in Seq(TaskRecs) /\ Len(after) = Len(q) - i
      /\ \A j \in 1..(Len(q) - i) : after[j] = q[i + j]
  BY <1>1
<1> HIDE DEF before, after
<1>4. TasksOK(before, n) /\ TasksOK(after, n)
  <2>1. DOMAIN before = 1..(i - 1) /\ DOMAIN after = 1..(Len(q) - i)
    BY <1>2, <1>3
  <2>2. /\ \A j \in 1..(i - 1) : j \in DOMAIN q
        /\ \A j \in 1..(Len(q) - i) : i + j \in DOMAIN q
    BY <1>1
  <2>3. QED
    BY <1>2, <1>3, <2>1, <2>2 DEF TasksOK
<1>5. RemoveAt(q, i) = before \o after
  BY DEF RemoveAt, before, after
<1>6. Resyncs(q) /\ q[i].kind # "resync" => Resyncs(before) \/ Resyncs(after)
  <2>1. SUFFICES ASSUME Resyncs(q), q[i].kind # "resync"
                 PROVE  Resyncs(before) \/ Resyncs(after)
    OBVIOUS
  <2>2. PICK j \in DOMAIN q : q[j].kind = "resync"
    BY <2>1 DEF Resyncs
  <2>3. j \in 1..Len(q) /\ j # i
    BY <1>1, <2>1, <2>2
  <2>4. CASE j < i
    <3>1. j \in 1..(i - 1)
      BY <1>1, <2>3, <2>4
    <3>2. j \in DOMAIN before /\ before[j] = q[j]
      BY <1>2, <3>1
    <3>3. QED
      BY <2>2, <3>2 DEF Resyncs
  <2>5. CASE j > i
    <3>1. j - i \in 1..(Len(q) - i) /\ i + (j - i) = j
      BY <1>1, <2>3, <2>5
    <3>2. j - i \in DOMAIN after /\ after[j - i] = q[j]
      BY <1>3, <3>1
    <3>3. QED
      BY <2>2, <3>2 DEF Resyncs
  <2>6. QED
    BY <1>1, <2>3, <2>4, <2>5
<1>7. QED
  BY <1>4, <1>5, <1>6, TasksJoin

LEMMA RefreshesAre ==
  ASSUME life \in {0} \cup Lives, view.revision \in Nat, NEW r \in Nat, NEW n \in Nat
  PROVE  TasksOK(Refreshes(r), n)
<1> DEFINE ends == {i \in (view.revision + 1)..r :
                      /\ log[i] \in {"end", "wait"}
                      /\ PhaseAfter(view.phase, view.revision + 1, i - 1) = "running"}
           t == Task("load", "ready")
<1>1. IsFiniteSet((view.revision + 1)..r)
  BY FS_Interval
<1>2. ends \in SUBSET ((view.revision + 1)..r)
  OBVIOUS
<1> HIDE DEF ends
<1>3. Cardinality(ends) \in Nat
  BY <1>1, <1>2, FS_Subset, FS_CardinalityType
<1>4. t \in TaskRecs /\ t.snapshot.messages = 0
  BY NewTask
<1> HIDE DEF t
<1>5. Refreshes(r) = [m \in 1..Cardinality(ends) |-> t]
  BY DEF Refreshes, ends, t
<1>6. Refreshes(r) \in Seq(TaskRecs) /\ \A i \in DOMAIN Refreshes(r) : Refreshes(r)[i] = t
  BY <1>3, <1>4, <1>5
<1>7. QED
  BY <1>4, <1>6 DEF TasksOK
-----------------------------------------------------------------------------
(* The main process *)

\* One of the events, or two, that a step of a run commits.
LEMMA RunCommits ==
  ASSUME PrepareInvoke \/ HandleMessage \/ HandleApproval \/ PrepareResume \/ HandleTerminal,
         SidesInv
  PROVE  /\ \E k \in Seq(Kinds) : Len(k) > 0 /\ Commit(k)
         /\ base' \in {base, Revision} /\ lost' \in BOOLEAN
<1>1. lost \in BOOLEAN
  BY DEF SidesInv
<1>2. base' \in {base, Revision} /\ lost' \in BOOLEAN
  BY <1>1 DEF PrepareInvoke, HandleMessage, HandleApproval, PrepareResume, HandleTerminal, Stops
<1>3. /\ <<"message", "start">> \in Seq(Kinds) /\ Len(<<"message", "start">>) = 2
      /\ \A x \in Kinds : <<x>> \in Seq(Kinds) /\ Len(<<x>>) = 1
  BY DEF Kinds
<1>4. \E k \in Seq(Kinds) : Len(k) > 0 /\ Commit(k)
  <2>1. CASE Commit(<<"message", "start">>)
    <3> DEFINE two == <<"message", "start">>
    <3>1. two \in Seq(Kinds) /\ Len(two) > 0 /\ Commit(two)
      BY <1>3, <2>1
    <3> HIDE DEF two
    <3>2. QED
      BY <3>1
  <2>2. CASE \E x \in Kinds : Commit(<<x>>)
    <3>1. PICK x \in Kinds : Commit(<<x>>)
      BY <2>2
    <3>2. <<x>> \in Seq(Kinds) /\ Len(<<x>>) > 0
      BY <1>3
    <3>3. WITNESS <<x>> \in Seq(Kinds)
    <3>4. QED
      BY <3>1, <3>2
  <2>3. QED
    BY <2>1, <2>2
       DEF PrepareInvoke, HandleMessage, HandleApproval, PrepareResume, HandleTerminal, Kinds
<1>5. QED
  BY <1>2, <1>4

LEMMA BatchesGrow ==
  ASSUME NEW n \in Nat, NEW q \in Seq(Batches), \A i \in DOMAIN q : BatchOK(q[i], n),
         NEW b, BatchOK(b, n)
  PROVE  Append(q, b) \in Seq(Batches) /\ \A i \in DOMAIN Append(q, b) : BatchOK(Append(q, b)[i], n)
<1>1. b \in Batches
  BY DEF BatchOK
<1>2. Append(q, b) \in Seq(Batches) /\ DOMAIN Append(q, b) = 1..(Len(q) + 1)
  BY <1>1
<1>3. \A i \in 1..Len(q) : Append(q, b)[i] = q[i]
  BY <1>1
<1>4. Append(q, b)[Len(q) + 1] = b /\ DOMAIN q = 1..Len(q)
  BY <1>1
<1>5. QED
  BY <1>2, <1>3, <1>4

LEMMA InvOfCommit ==
  ASSUME ClientAssumption, ClientInv, NEW k \in Seq(Kinds), Len(k) > 0, Commit(k),
         base' \in {base, Revision}, lost' \in BOOLEAN
  PROVE  ClientInv'
<1>1. /\ log' = log \o k /\ log \in Seq(Kinds) /\ log' \in Seq(Kinds)
      /\ Len(log) \in Nat /\ Len(k) \in Nat /\ Len(log') = Len(log) + Len(k)
      /\ UNCHANGED <<shadowed, troubles, attached, life, open, ready, view, pending, resyncing, tasks>>
  BY DEF Commit, ClientInv, SidesInv, client
<1>2. SidesInv'
  <2>1. Len(log') <= MaxRevision
    <3>1. (IF shadowed THEN 1 ELSE 0) \in {0, 1}
      OBVIOUS
    <3>2. Len(log) + Len(k) + (IF shadowed THEN 1 ELSE 0) <= MaxRevision
      BY DEF Commit, Revision
    <3>3. QED
      BY <1>1, <3>1, <3>2, ClientAssumption DEF ClientAssumption
  <2>2. base' \in 0..Len(log')
    BY <1>1 DEF ClientInv, SidesInv, Revision
  <2>3. QED
    BY <1>1, <2>1, <2>2 DEF ClientInv, SidesInv
<1>3. LifeInv' /\ WaitInv'
  BY <1>1 DEF ClientInv, LifeInv, WaitInv
<1>4. BatchInv'
  <2>1. \A b : BatchOK(b, Len(log)) => BatchOK(b, Len(log'))
    BY <1>1 DEF BatchOK, Batches
  <2> DEFINE b == [from |-> Len(log) + 1, to |-> Len(log) + Len(k)]
  <2>2. BatchOK(b, Len(log'))
    BY <1>1 DEF BatchOK, Batches
  <2>3. channel' = Append(channel, b) \/ channel' = channel
    BY DEF Commit, Revision
  <2> HIDE DEF b
  <2>4. channel \in Seq(Batches) /\ \A i \in DOMAIN channel : BatchOK(channel[i], Len(log'))
    BY <2>1 DEF ClientInv, BatchInv
  <2>5. channel' \in Seq(Batches) /\ \A i \in DOMAIN channel' : BatchOK(channel'[i], Len(log'))
    <3>1. Len(log') \in Nat
      BY <1>1
    <3>2. CASE channel' = channel
      BY <2>4, <3>2
    <3>3. CASE channel' = Append(channel, b)
      BY <2>2, <2>4, <3>1, <3>3, BatchesGrow
    <3>4. QED
      BY <2>3, <3>2, <3>3
  <2>6. QED
    BY <1>1, <2>1, <2>5 DEF ClientInv, BatchInv
<1>5. ViewOK(log', view') /\ TasksOK(tasks', Count(log', Len(log')))
  <2>1. /\ ViewOK(log', view) /\ Count(log, Len(log)) \in Nat /\ Count(log', Len(log')) \in Nat
        /\ Count(log, Len(log)) <= Count(log', Len(log'))
    BY <1>1, ViewStays, CountIs DEF ClientInv
  <2>2. \A i \in DOMAIN tasks : tasks[i].snapshot.messages \in Nat
    <3>1. tasks \in Seq(TaskRecs)
      BY DEF ClientInv, TasksOK
    <3>2. \A i \in DOMAIN tasks : tasks[i] \in TaskRecs
      BY <3>1
    <3>3. QED
      BY <3>2 DEF TaskRecs
  <2>3. TasksOK(tasks, Count(log', Len(log')))
    BY <2>1, <2>2 DEF ClientInv, TasksOK
  <2>4. QED
    BY <1>1, <2>1, <2>3
<1>6. QED
  BY <1>2, <1>3, <1>4, <1>5 DEF ClientInv

\* The batch of a replay holds events there are.
LEMMA ReplayIs ==
  ASSUME ClientInv, NEW f \in Nat
  PROVE  /\ Replay(f) \in Seq(Batches)
         /\ \A i \in DOMAIN Replay(f) : BatchOK(Replay(f)[i], Len(log))
<1> DEFINE first == Max({base, f}) + 1
           b == [from |-> first, to |-> Revision]
<1>1. base \in Nat /\ Len(log) \in Nat
  BY DEF ClientInv, SidesInv
<1>2. first \in Nat
  BY <1>1, MaxOfTwo
<1>3. /\ channel \in Seq(Batches) /\ \A i \in DOMAIN channel : BatchOK(channel[i], Len(log))
  BY DEF ClientInv, BatchInv
<1>4. Replay(f) = IF first > Revision \/ shadowed THEN channel ELSE Append(channel, b)
  BY DEF Replay
<1> HIDE DEF first
<1>5. first <= Revision => BatchOK(b, Len(log))
  BY <1>1, <1>2 DEF BatchOK, Batches, Revision
<1> HIDE DEF b
<1>6. QED
  <2>1. CASE first > Revision \/ shadowed
    BY <1>3, <1>4, <2>1
  <2>2. CASE ~(first > Revision \/ shadowed)
    <3>1. first <= Revision
      BY <1>1, <1>2, <2>2 DEF Revision
    <3>2. QED
      BY <1>1, <1>3, <1>4, <1>5, <2>2, <3>1, BatchesGrow
  <2>3. QED
    BY <2>1, <2>2

LEMMA InvOfMain ==
  ASSUME ClientAssumption, ClientInv,
         HandleInterrupted \/ Shadow \/ Unshadow \/ Connect \/ ConnectFails
  PROVE  ClientInv'
<1>1. UNCHANGED <<log, life, open, view, pending, resyncing, tasks>>
  BY DEF HandleInterrupted, Shadow, Unshadow, Connect, ConnectFails, client, server
<1>2. /\ troubles' \in 0..MaxTroubles /\ troubles <= troubles'
      /\ troubles \in Nat /\ troubles' \in Nat
  BY ClientAssumption
     DEF HandleInterrupted, Shadow, Unshadow, Connect, ConnectFails, Trouble, ClientInv, SidesInv,
         ClientAssumption
<1>3. SidesInv'
  <2>1. base' \in 0..Len(log)
    BY DEF HandleInterrupted, Shadow, Unshadow, Connect, ConnectFails, server, ClientInv, SidesInv,
           Revision
  <2>2. {attached', shadowed', lost'} \subseteq BOOLEAN
    BY DEF HandleInterrupted, Shadow, Unshadow, Connect, ConnectFails, server, client, ClientInv,
           SidesInv, Stops
  <2>3. ready' \in [Lives -> {"none", "connecting", "connected", "failed"}]
    BY DEF HandleInterrupted, Shadow, Unshadow, Connect, ConnectFails, client, ClientInv, SidesInv
  <2>4. QED
    BY <1>1, <1>2, <2>1, <2>2, <2>3 DEF ClientInv, SidesInv
<1>4. LifeInv'
  <2>1. life \in Nat
    BY ClientAssumption DEF ClientInv, LifeInv, Lives, ClientAssumption
  <2>2. life <= IF open THEN troubles + 1 ELSE troubles
    BY DEF ClientInv, LifeInv
  <2>3. CASE open
    <3>1. life <= troubles + 1
      BY <2>3 DEF ClientInv, LifeInv
    <3>2. \A a, b, c \in Nat : a <= b + 1 /\ b <= c => a <= c + 1
      OBVIOUS
    <3>3. life <= troubles' + 1
      BY <1>2, <2>1, <3>1, <3>2
    <3>4. life \in Lives
      BY <2>3 DEF ClientInv, LifeInv
    <3>5. QED
      BY <1>1, <2>3, <3>3, <3>4 DEF LifeInv
  <2>4. CASE ~open
    BY <1>1, <1>2, <2>1, <2>2, <2>4 DEF ClientInv, LifeInv
  <2>5. QED
    BY <2>3, <2>4
<1>5. BatchInv'
  <2>1. channel' = channel \/ channel' = Replay(0)
    BY DEF HandleInterrupted, Shadow, Unshadow, Connect, ConnectFails
  <2>2. channel' \in Seq(Batches) /\ \A i \in DOMAIN channel' : BatchOK(channel'[i], Len(log))
    BY <2>1, ReplayIs DEF ClientInv, BatchInv
  <2>3. QED
    BY <1>1, <2>2 DEF ClientInv, BatchInv
<1>6. QED
  BY <1>1, <1>3, <1>4, <1>5 DEF ClientInv, WaitInv
-----------------------------------------------------------------------------
(* The window *)

\* What the lemmas about the window's steps need of the constants and of what is there.
LEMMA SidesAre ==
  ASSUME ClientAssumption, ClientInv
  PROVE  /\ troubles \in Nat /\ life \in Nat /\ life \in {0} \cup Lives
         /\ Len(log) \in Nat /\ log \in Seq(Kinds) /\ Count(log, Len(log)) \in Nat
         /\ Lives = 1..(MaxTroubles + 1) /\ MaxTroubles \in Nat
         /\ open => life <= troubles + 1
         /\ ~open => life <= troubles /\ life + 1 \in Lives
         /\ Trouble => troubles' \in 0..MaxTroubles /\ troubles' = troubles + 1
<1>1. /\ troubles \in Nat /\ troubles <= MaxTroubles /\ MaxTroubles \in Nat /\ log \in Seq(Kinds)
      /\ Lives = 1..(MaxTroubles + 1)
  BY ClientAssumption DEF ClientInv, SidesInv, ClientAssumption, Lives
<1>2. life \in Nat /\ life \in {0} \cup Lives
  BY <1>1 DEF ClientInv, LifeInv
<1>3. Len(log) \in Nat
  BY <1>1
<1>4. Count(log, Len(log)) \in Nat
  BY <1>3, CountIs
<1>5. open => life <= troubles + 1
  BY DEF ClientInv, LifeInv
<1>6. ~open => life <= troubles
  BY DEF ClientInv, LifeInv
<1>7. ~open => life + 1 \in Lives
  BY <1>1, <1>2, <1>6
<1>8. Trouble => troubles' \in 0..MaxTroubles /\ troubles' = troubles + 1
  BY <1>1 DEF Trouble
<1>9. QED
  BY <1>1, <1>2, <1>3, <1>4, <1>5, <1>6, <1>7, <1>8

\* A step that leaves the main process, the lives and the batches alone is about the view
\* and the tasks.
LEMMA QuietStep ==
  ASSUME ClientAssumption, ClientInv,
         UNCHANGED <<log, base, shadowed, attached, life, open, ready, channel>>,
         resyncing' \in BOOLEAN, lost' \in BOOLEAN, pending' \subseteq pending \cup Range(channel),
         UNCHANGED troubles \/ Trouble
  PROVE  SidesInv' /\ LifeInv' /\ BatchInv'
<1>1. /\ troubles' \in 0..MaxTroubles /\ troubles' \in Nat
      /\ troubles' = troubles \/ troubles' = troubles + 1
  BY SidesAre DEF ClientInv, SidesInv
<1>2. SidesInv'
  BY <1>1 DEF ClientInv, SidesInv
<1>3. LifeInv'
  <2>1. open => life <= troubles' + 1
    <3>1. \A a, b, c \in Nat : a <= b + 1 /\ (c = b \/ c = b + 1) => a <= c + 1
      OBVIOUS
    <3>2. QED
      BY <1>1, <3>1, SidesAre
  <2>2. ~open => life <= troubles'
    <3>1. \A a, b, c \in Nat : a <= b /\ (c = b \/ c = b + 1) => a <= c
      OBVIOUS
    <3>2. QED
      BY <1>1, <3>1, SidesAre
  <2>3. life <= IF open THEN troubles' + 1 ELSE troubles'
    BY <2>1, <2>2
  <2>4. QED
    BY <2>3 DEF ClientInv, LifeInv
<1>4. BatchInv'
  <2>1. \A b \in Range(channel) : BatchOK(b, Len(log))
    BY DEF ClientInv, BatchInv, Range
  <2>2. QED
    BY <2>1 DEF ClientInv, BatchInv
<1>5. QED
  BY <1>2, <1>3, <1>4

\* A thread is opened once more.
LEMMA OpensStep ==
  ASSUME ClientAssumption, ClientInv, ~open, OpensAs(life + 1),
         UNCHANGED <<log, base, shadowed, attached, channel, pending, resyncing, troubles>>
  PROVE  SidesInv' /\ LifeInv' /\ BatchInv'
<1>1. /\ life' = life + 1 /\ life + 1 \in Lives /\ life + 1 <= troubles + 1 /\ open' = TRUE
      /\ lost' \in BOOLEAN /\ ready' = [ready EXCEPT ![life + 1] = "connecting"]
  BY SidesAre DEF OpensAs
<1>2. ready' \in [Lives -> {"none", "connecting", "connected", "failed"}]
  BY <1>1 DEF ClientInv, SidesInv
<1>3. SidesInv'
  BY <1>1, <1>2 DEF ClientInv, SidesInv
<1>4. LifeInv'
  BY <1>1 DEF LifeInv
<1>5. BatchInv'
  BY DEF ClientInv, BatchInv
<1>6. QED
  BY <1>3, <1>4, <1>5

LEMMA InvOfEnsure ==
  ASSUME ClientAssumption, ClientInv, Ensure
  PROVE  ClientInv'
<1>1. SidesInv' /\ LifeInv' /\ BatchInv'
  BY OpensStep DEF Ensure, server
<1>2. ViewOK(log', view')
  BY SidesAre, EmptyIs DEF Ensure, server
<1>3. TasksOK(tasks, Count(log, Len(log)))' /\ WaitInv'
  BY DEF Ensure, server, ClientInv, WaitInv
<1>4. QED
  BY <1>1, <1>2, <1>3 DEF ClientInv

LEMMA InvOfCleanup ==
  ASSUME ClientAssumption, ClientInv, Cleanup
  PROVE  ClientInv'
<1>1. /\ UNCHANGED <<log, base, shadowed, channel, life, ready, tasks, lost>>
      /\ open /\ open' = FALSE /\ attached' = FALSE /\ resyncing' = FALSE
      /\ view' = EmptyView /\ pending' = {}
      /\ troubles' \in 0..MaxTroubles /\ troubles' = troubles + 1
  BY SidesAre DEF Cleanup, server
<1>2. SidesInv'
  BY <1>1 DEF ClientInv, SidesInv
<1>3. LifeInv'
  BY <1>1, SidesAre DEF LifeInv
<1>4. BatchInv' /\ WaitInv'
  BY <1>1 DEF ClientInv, BatchInv, WaitInv
<1>5. ViewOK(log', view')
  BY <1>1, SidesAre, EmptyIs
<1>6. QED
  BY <1>1, <1>2, <1>3, <1>4, <1>5 DEF ClientInv

LEMMA InvOfLoad ==
  ASSUME ClientAssumption, ClientInv, Load
  PROVE  ClientInv'
<1>1. /\ UNCHANGED <<log, base, shadowed, attached, channel, life, open, ready, view, pending,
                     resyncing, lost>>
      /\ Trouble /\ tasks' = Append(tasks, Task("load", "ready"))
  BY DEF Load, server
<1>2. resyncing \in BOOLEAN /\ lost \in BOOLEAN
  BY DEF ClientInv, SidesInv
<1>3. SidesInv' /\ LifeInv' /\ BatchInv'
  BY <1>1, <1>2, QuietStep
<1>4. /\ TasksOK(tasks', Count(log, Len(log)))
      /\ Resyncs(tasks) => Resyncs(tasks')
  <2>1. /\ Task("load", "ready") \in TaskRecs
        /\ Task("load", "ready").snapshot.messages <= Count(log, Len(log))
    BY SidesAre, NewTask
  <2>2. QED
    BY <1>1, <2>1, SidesAre, TaskJoins DEF ClientInv
<1>5. QED
  BY <1>1, <1>3, <1>4 DEF ClientInv, WaitInv

LEMMA InvOfReceive ==
  ASSUME ClientAssumption, ClientInv, ReceiveBatch
  PROVE  ClientInv'
<1> DEFINE batch == Head(channel)
           selected == Selection(view.revision, batch)
           n == Count(log, Len(log))
<1>1. /\ UNCHANGED <<log, base, shadowed, attached, life, open, ready, troubles, lost>>
      /\ channel # <<>> /\ channel' = Tail(channel)
  BY DEF ReceiveBatch, server
<1>2. \/ UNCHANGED <<view, pending, resyncing, tasks>>
      \/ /\ resyncing /\ pending' = pending \cup {batch}
         /\ UNCHANGED <<view, resyncing, tasks>>
      \/ /\ ~resyncing /\ selected = "events"
         /\ view' = Applied(batch.to) /\ tasks' = tasks \o Refreshes(batch.to)
         /\ UNCHANGED <<pending, resyncing>>
      \/ /\ StartResync(view.phase) /\ UNCHANGED <<view, pending>>
  BY DEF ReceiveBatch
<1>3. BatchOK(batch, Len(log))
  BY <1>1 DEF ClientInv, BatchInv
<1>4. BatchInv'
  <2>1. channel \in Seq(Batches) /\ \A i \in DOMAIN channel : BatchOK(channel[i], Len(log))
    BY DEF ClientInv, BatchInv
  <2>2. Tail(channel) \in Seq(Batches) /\ DOMAIN Tail(channel) = 1..(Len(channel) - 1)
    BY <1>1, <2>1
  <2>3. \A i \in DOMAIN Tail(channel) : i + 1 \in DOMAIN channel /\ Tail(channel)[i] = channel[i + 1]
    BY <1>1, <2>1
  <2>4. \A i \in DOMAIN Tail(channel) : BatchOK(Tail(channel)[i], Len(log))
    BY <2>1, <2>3
  <2>5. \A b \in pending' : BatchOK(b, Len(log))
    BY <1>2, <1>3 DEF ClientInv, BatchInv, StartResync
  <2>6. QED
    BY <1>1, <2>2, <2>4, <2>5 DEF BatchInv
<1> HIDE DEF batch, n
<1>5. SidesInv' /\ LifeInv'
  BY <1>1, <1>2 DEF ClientInv, SidesInv, LifeInv, StartResync
<1>6. n \in Nat /\ TasksOK(tasks, n) /\ life \in {0} \cup Lives /\ log \in Seq(Kinds)
      /\ Len(log) \in Nat
  BY SidesAre DEF ClientInv, n
<1>7. CASE UNCHANGED <<view, tasks>>
  BY <1>1, <1>2, <1>4, <1>5, <1>7 DEF ClientInv, WaitInv, StartResync
<1>8. CASE selected = "events" /\ view' = Applied(batch.to) /\ tasks' = tasks \o Refreshes(batch.to)
           /\ UNCHANGED <<pending, resyncing>>
  <2>1. batch.to \in view.revision..Len(log) /\ batch.to \in Nat /\ view.revision \in Nat
    BY <1>3, <1>6, <1>8 DEF Selection, BatchOK, Batches, ClientInv, ViewOK
  <2>2. ViewOK(log, view')
    BY <1>6, <1>8, <2>1, AppliedIs DEF ClientInv
  <2>3. TasksOK(Refreshes(batch.to), n)
    BY <1>6, <2>1, RefreshesAre
  <2>4. TasksOK(tasks', n) /\ (Resyncs(tasks) => Resyncs(tasks'))
    BY <1>6, <1>8, <2>3, TasksJoin
  <2>5. QED
    BY <1>1, <1>4, <1>5, <1>8, <2>2, <2>4 DEF ClientInv, WaitInv, n
<1>9. CASE StartResync(view.phase) /\ UNCHANGED <<view, pending>>
  <2> DEFINE t == ResyncTask(view.phase)
  <2>1. t \in TaskRecs /\ t.snapshot.messages <= n /\ t.kind = "resync"
    BY <1>6, NewTask DEF ResyncTask
  <2>2. tasks' = Append(tasks, t) /\ resyncing'
    BY <1>9 DEF StartResync
  <2> HIDE DEF t
  <2>3. TasksOK(tasks', n) /\ Resyncs(tasks')
    BY <1>6, <2>1, <2>2, TaskJoins
  <2>4. QED
    BY <1>1, <1>4, <1>5, <1>9, <2>2, <2>3 DEF ClientInv, WaitInv, n
<1>10. QED
  BY <1>2, <1>7, <1>8, <1>9
-----------------------------------------------------------------------------
(* The window's calls *)

\* A task that moves on keeps its kind.
LEMMA MovesOn ==
  ASSUME ClientAssumption, ClientInv, NEW i \in DOMAIN tasks
  PROVE  /\ tasks \in Seq(TaskRecs) /\ tasks[i] \in TaskRecs
         /\ \A t \in TaskRecs :
              /\ t.snapshot.messages <= Count(log, Len(log)) /\ t.kind = tasks[i].kind
              /\ tasks' = [tasks EXCEPT ![i] = t]
              => TasksOK(tasks', Count(log, Len(log))) /\ (Resyncs(tasks) => Resyncs(tasks'))
<1>1. tasks \in Seq(TaskRecs) /\ TasksOK(tasks, Count(log, Len(log)))
  BY DEF ClientInv, TasksOK
<1>2. tasks[i] \in TaskRecs
  BY <1>1
<1>3. QED
  BY <1>1, <1>2, SidesAre, TaskMoves

LEMMA InvOfReady ==
  ASSUME ClientAssumption, ClientInv, NEW i \in DOMAIN tasks, TaskReady(i)
  PROVE  ClientInv'
<1> DEFINE n == Count(log, Len(log))
           t == tasks[i]
           u == [t EXCEPT !.at = IF @ = "ready" THEN "reading" ELSE "asking",
                          !.streamed = ShowsRunning, !.from = view.revision, !.life = life]
           d == [t EXCEPT !.at = "done"]
<1>1. /\ UNCHANGED <<log, base, shadowed, attached, channel, life, open, ready, view, pending,
                     resyncing, troubles, lost>>
      /\ tasks' = [tasks EXCEPT ![i] = u] \/ tasks' = [tasks EXCEPT ![i] = d]
  <2>1. tasks \in Seq(TaskRecs)
    BY MovesOn
  <2>2. QED
    BY <2>1 DEF TaskReady, Moves, server
<1>2. t \in TaskRecs /\ t.snapshot.messages <= n
  BY MovesOn DEF ClientInv, TasksOK
<1>3. view.revision \in Nat /\ ShowsRunning \in BOOLEAN /\ life \in {0} \cup Lives
  BY SidesAre DEF ClientInv, ViewOK, ShowsRunning
<1> HIDE DEF t
<1>4. /\ u \in TaskRecs /\ u.snapshot = t.snapshot /\ u.kind = t.kind
      /\ d \in TaskRecs /\ d.snapshot = t.snapshot /\ d.kind = t.kind
  BY <1>2, <1>3 DEF TaskRecs
<1> HIDE DEF u, d
<1>5. TasksOK(tasks', n) /\ (Resyncs(tasks) => Resyncs(tasks'))
  BY <1>1, <1>2, <1>4, MovesOn DEF t
<1>6. QED
  BY <1>1, <1>5 DEF ClientInv, SidesInv, LifeInv, BatchInv, WaitInv

LEMMA InvOfRead ==
  ASSUME ClientAssumption, ClientInv, NEW i \in DOMAIN tasks, ReadSnapshot(i)
  PROVE  ClientInv'
<1> DEFINE n == Count(log, Len(log))
           t == tasks[i]
           s == [messages |-> n, phase |-> Phase(log, "idle", 1, Len(log))]
           u == [t EXCEPT !.at = "read", !.snapshot = s]
<1>1. /\ UNCHANGED <<log, base, shadowed, attached, channel, life, open, ready, view, pending,
                     resyncing, troubles, lost>>
      /\ tasks' = [tasks EXCEPT ![i] = u]
  <2>1. tasks \in Seq(TaskRecs)
    BY MovesOn
  <2>2. /\ MessagesAt(Revision) = Count(log, Len(log))
        /\ PhaseAt(Revision) = Phase(log, "idle", 1, Len(log))
    BY SaidOfLog DEF Revision
  <2>3. QED
    BY <2>1, <2>2 DEF ReadSnapshot, server
<1>2. t \in TaskRecs
  BY MovesOn
<1>3. s \in [messages : Nat, phase : Said] /\ s.messages = n /\ n \in Nat
  BY SidesAre, PhaseType DEF Said
<1> HIDE DEF t, s, n
<1>4. u \in TaskRecs /\ u.snapshot = s /\ u.kind = t.kind
  BY <1>2, <1>3 DEF TaskRecs
<1>5. u.snapshot.messages <= n
  BY <1>3, <1>4
<1> HIDE DEF u
<1>6. TasksOK(tasks', n) /\ (Resyncs(tasks) => Resyncs(tasks'))
  BY <1>1, <1>4, <1>5, MovesOn DEF t, n
<1>7. QED
  BY <1>1, <1>6 DEF ClientInv, SidesInv, LifeInv, BatchInv, WaitInv, n

LEMMA InvOfServe ==
  ASSUME ClientAssumption, ClientInv, NEW i \in DOMAIN tasks, ServeReplay(i) \/ RequestFails(i)
  PROVE  ClientInv'
<1> DEFINE n == Count(log, Len(log))
           t == tasks[i]
           d == [t EXCEPT !.at = "done"]
<1>1. /\ UNCHANGED <<log, base, shadowed, life, open, ready, view, pending, resyncing>>
      /\ tasks' = [tasks EXCEPT ![i] = d]
      /\ attached' = TRUE \/ attached' = attached
      /\ channel' = Replay(t.from) \/ channel' = channel
      /\ lost' = TRUE \/ lost' = lost
      /\ UNCHANGED troubles \/ Trouble
  BY MovesOn DEF ServeReplay, RequestFails, Moves, server
<1>2. t \in TaskRecs /\ t.snapshot.messages <= n
  BY MovesOn DEF ClientInv, TasksOK
<1> HIDE DEF t
<1>3. d \in TaskRecs /\ d.snapshot = t.snapshot /\ d.kind = t.kind
  BY <1>2 DEF TaskRecs
<1> HIDE DEF d
<1>4. TasksOK(tasks', n) /\ (Resyncs(tasks) => Resyncs(tasks'))
  BY <1>1, <1>2, <1>3, MovesOn DEF t
<1>5. t.from \in Nat
  BY <1>2 DEF TaskRecs
<1>6. /\ troubles' \in 0..MaxTroubles /\ troubles' \in Nat
      /\ troubles' = troubles \/ troubles' = troubles + 1
  BY <1>1, SidesAre DEF ClientInv, SidesInv
<1>7. SidesInv'
  BY <1>1, <1>6 DEF ClientInv, SidesInv
<1>8. LifeInv'
  <2>1. open => life <= troubles' + 1
    <3>1. \A a, b, c \in Nat : a <= b + 1 /\ (c = b \/ c = b + 1) => a <= c + 1
      OBVIOUS
    <3>2. QED
      BY <1>6, <3>1, SidesAre
  <2>2. ~open => life <= troubles'
    <3>1. \A a, b, c \in Nat : a <= b /\ (c = b \/ c = b + 1) => a <= c
      OBVIOUS
    <3>2. QED
      BY <1>6, <3>1, SidesAre
  <2>3. life <= IF open THEN troubles' + 1 ELSE troubles'
    BY <2>1, <2>2
  <2>4. QED
    BY <1>1, <2>3 DEF ClientInv, LifeInv
<1>9. BatchInv'
  BY <1>1, <1>5, ReplayIs DEF ClientInv, BatchInv
<1>10. QED
  BY <1>1, <1>4, <1>7, <1>8, <1>9 DEF ClientInv, WaitInv

LEMMA InvOfSnapshot ==
  ASSUME ClientAssumption, ClientInv, NEW i \in DOMAIN tasks, TakeSnapshot(i)
  PROVE  ClientInv'
<1> DEFINE n == Count(log, Len(log))
           t == tasks[i]
           replays == t.streamed \/ ShowsRunning \/ t.snapshot.phase = "running"
           d == [t EXCEPT !.at = "done"]
           u == [t EXCEPT !.at = IF replays THEN "replay" ELSE "done", !.life = life]
           w == [t EXCEPT !.at = "replay", !.life = life + 1]
<1>1. /\ UNCHANGED <<log, base, shadowed, attached, channel, pending, resyncing, troubles>>
      /\ \/ tasks' = [tasks EXCEPT ![i] = d] /\ UNCHANGED <<open, life, ready, view, lost>>
         \/ /\ tasks' = [tasks EXCEPT ![i] = u] /\ view' = WithSnapshot(view, t.snapshot)
            /\ UNCHANGED <<open, life, ready, lost>>
         \/ /\ ~open /\ OpensAs(life + 1) /\ view' = WithSnapshot(EmptyView, t.snapshot)
            /\ tasks' = [tasks EXCEPT ![i] = w]
  <2>1. tasks \in Seq(TaskRecs)
    BY MovesOn
  <2>2. QED
    BY <2>1 DEF TakeSnapshot, Moves, server
<1>2. /\ t \in TaskRecs /\ t.snapshot.messages <= n
      /\ t.snapshot \in [messages : Nat, phase : Said]
  <2>1. t \in TaskRecs /\ t.snapshot.messages <= n
    BY MovesOn DEF ClientInv, TasksOK
  <2>2. QED
    BY <2>1 DEF TaskRecs
<1>3. /\ life \in {0} \cup Lives /\ (~open => life + 1 \in {0} \cup Lives)
      /\ log \in Seq(Kinds)
  BY SidesAre
<1> HIDE DEF t, replays
<1>4. /\ d \in TaskRecs /\ d.snapshot = t.snapshot /\ d.kind = t.kind
      /\ u \in TaskRecs /\ u.snapshot = t.snapshot /\ u.kind = t.kind
      /\ ~open => w \in TaskRecs /\ w.snapshot = t.snapshot /\ w.kind = t.kind
  BY <1>2, <1>3 DEF TaskRecs
<1> HIDE DEF d, u, w
<1>5. TasksOK(tasks', n) /\ (Resyncs(tasks) => Resyncs(tasks'))
  BY <1>1, <1>2, <1>4, MovesOn DEF t
<1>6. ViewOK(log, view')
  <2>1. ViewOK(log, view) /\ ViewOK(log, EmptyView)
    BY <1>3, EmptyIs DEF ClientInv
  <2>2. QED
    BY <1>1, <1>2, <1>3, <2>1, SnapshotIs
<1>7. SidesInv' /\ LifeInv' /\ BatchInv'
  <2>1. CASE UNCHANGED <<open, life, ready, lost>>
    BY <1>1, <2>1 DEF ClientInv, SidesInv, LifeInv, BatchInv
  <2>2. CASE ~open /\ OpensAs(life + 1)
    BY <1>1, <2>2, OpensStep
  <2>3. QED
    BY <1>1, <2>1, <2>2
<1>8. QED
  BY <1>1, <1>5, <1>6, <1>7 DEF ClientInv, WaitInv

\* What the batches that wait lead to is a revision there is.
LEMMA ReachIs ==
  ASSUME ClientAssumption, ClientInv, NEW p
  PROVE  Reach(p) \in view.revision..Len(log)
<1> DEFINE R == {r \in view.revision..Revision :
                   \A s \in (view.revision + 1)..r : \E b \in p : s \in b.from..b.to}
<1>1. view.revision \in 0..Len(log) /\ Len(log) \in Nat /\ Revision = Len(log)
  BY SidesAre DEF ClientInv, ViewOK, Revision
<1>2. R \in SUBSET (0..Len(log))
  BY <1>1
<1>3. view.revision \in R
  BY <1>1
<1>4. Reach(p) = Max(R)
  BY DEF Reach
<1>5. R \subseteq view.revision..Len(log)
  BY <1>1
<1> HIDE DEF R
<1>6. Max(R) \in R
  BY <1>1, <1>2, <1>3, MaxIs
<1>7. QED
  BY <1>4, <1>5, <1>6

LEMMA InvOfEnd ==
  ASSUME ClientAssumption, ClientInv, NEW i \in DOMAIN tasks, TaskEnds(i)
  PROVE  ClientInv'
<1> DEFINE n == Count(log, Len(log))
           rest == RemoveAt(tasks, i)
           reached == Reach(pending)
           gaps == {b \in pending : Selection(reached, b) = "gap"}
           after == rest \o Refreshes(reached)
           t == ResyncTask(Applied(reached).phase)
<1>1. /\ UNCHANGED <<log, base, shadowed, attached, channel, life, open, ready, troubles, lost>>
      /\ \/ /\ tasks[i].kind = "load" /\ tasks' = rest
            /\ UNCHANGED <<view, pending, resyncing>>
         \/ /\ view' = Applied(reached) /\ pending' = gaps /\ resyncing' = (gaps # {})
            /\ tasks' = IF gaps = {} THEN after ELSE Append(after, t)
  BY DEF TaskEnds, Drain, server
<1>2. gaps \subseteq pending
  OBVIOUS
<1>3. SidesInv' /\ LifeInv' /\ BatchInv'
  <2>1. resyncing' \in BOOLEAN /\ lost' \in BOOLEAN
    BY <1>1 DEF ClientInv, SidesInv
  <2>2. QED
    BY <1>1, <1>2, <2>1, QuietStep
<1>4. /\ n \in Nat /\ life \in {0} \cup Lives /\ log \in Seq(Kinds) /\ TasksOK(tasks, n)
      /\ reached \in view.revision..Len(log) /\ view.revision \in Nat /\ Len(log) \in Nat
      /\ ViewOK(log, view)
  BY SidesAre, ReachIs DEF ClientInv, ViewOK
<1> HIDE DEF n, reached, gaps
<1>5. TasksOK(rest, n) /\ (Resyncs(tasks) /\ tasks[i].kind # "resync" => Resyncs(rest))
  BY <1>4, TaskGoes
<1> HIDE DEF rest
<1>6. CASE tasks[i].kind = "load" /\ tasks' = rest /\ UNCHANGED <<view, pending, resyncing>>
  BY <1>1, <1>3, <1>4, <1>5, <1>6 DEF ClientInv, WaitInv, n
<1>7. CASE /\ view' = Applied(reached) /\ pending' = gaps /\ resyncing' = (gaps # {})
           /\ tasks' = IF gaps = {} THEN after ELSE Append(after, t)
  <2>1. ViewOK(log, view')
    BY <1>4, <1>7, AppliedIs
  <2>2. reached \in Nat
    BY <1>4
  <2>3. TasksOK(Refreshes(reached), n)
    BY <1>4, <2>2, RefreshesAre
  <2>4. TasksOK(after, n)
    BY <1>4, <1>5, <2>3, TasksJoin
  <2>5. t \in TaskRecs /\ t.snapshot.messages <= n /\ t.kind = "resync"
    BY <1>4, NewTask DEF ResyncTask
  <2> HIDE DEF after, t
  <2>6. TasksOK(Append(after, t), n) /\ Resyncs(Append(after, t))
    BY <1>4, <2>4, <2>5, TaskJoins
  <2>7. TasksOK(tasks', n) /\ (resyncing' => Resyncs(tasks')) /\ (pending' # {} => resyncing')
    BY <1>7, <2>4, <2>6
  <2>8. QED
    BY <1>1, <1>3, <2>1, <2>7 DEF ClientInv, WaitInv, n
<1>8. QED
  BY <1>1, <1>6, <1>7

-----------------------------------------------------------------------------
(* The theorems *)

LEMMA ClientBegins ==
  ASSUME ClientAssumption, ClientInit
  PROVE  ClientInv
<1>1. log = <<>> /\ log \in Seq(Kinds) /\ Len(log) = 0 /\ view = EmptyView
  BY DEF ClientInit
<1>2. SidesInv
  <2>1. 0 \in 0..MaxTroubles /\ 0 <= MaxRevision
    BY DEF ClientAssumption
  <2>2. base = 0 /\ base \in 0..Len(log) /\ Len(log) <= MaxRevision
    BY <1>1, <2>1 DEF ClientInit
  <2>3. troubles \in 0..MaxTroubles
    BY <2>1 DEF ClientInit
  <2>4. /\ {attached, shadowed, open, resyncing, lost} \subseteq BOOLEAN
        /\ ready \in [Lives -> {"none", "connecting", "connected", "failed"}]
    BY DEF ClientInit
  <2>5. QED
    BY <1>1, <2>2, <2>3, <2>4 DEF SidesInv
<1>3. LifeInv /\ WaitInv
  BY DEF ClientInit, LifeInv, WaitInv
<1>4. BatchInv
  BY DEF ClientInit, BatchInv
<1>5. ViewOK(log, view)
  BY <1>1, EmptyIs
<1>6. TasksOK(tasks, Count(log, Len(log)))
  BY DEF ClientInit, TasksOK
<1>7. QED
  BY <1>2, <1>3, <1>4, <1>5, <1>6 DEF ClientInv

\* Whatever is committed, lost, asked for and answered, in whatever order, a view stands
\* for its revision, batches hold events there are, snapshots are no newer than the log,
\* and those that are put aside have a resync to come.
THEOREM ClientInductive == ClientSpec => []ClientInv
<1>1. ClientInit => ClientInv
  BY ClientAssumption, ClientBegins
<1>2. ClientInv /\ [ClientNext]_clientVars => ClientInv'
  <2>1. SUFFICES ASSUME ClientInv, [ClientNext]_clientVars
                 PROVE  ClientInv'
    OBVIOUS
  <2>2. CASE PrepareInvoke \/ HandleMessage \/ HandleApproval \/ PrepareResume \/ HandleTerminal
    <3>1. SidesInv
      BY <2>1 DEF ClientInv
    <3>2. PICK k \in Seq(Kinds) : Len(k) > 0 /\ Commit(k)
      BY <2>2, <3>1, RunCommits
    <3>3. base' \in {base, Revision} /\ lost' \in BOOLEAN
      BY <2>2, <3>1, RunCommits
    <3>4. QED
      BY <2>1, <3>2, <3>3, ClientAssumption, InvOfCommit
  <2>3. CASE HandleInterrupted \/ Shadow \/ Unshadow \/ Connect \/ ConnectFails
    BY <2>1, <2>3, ClientAssumption, InvOfMain
  <2>4. CASE Ensure \/ Cleanup \/ Load \/ ReceiveBatch
    BY <2>1, <2>4, ClientAssumption, InvOfEnsure, InvOfCleanup, InvOfLoad, InvOfReceive
  <2>5. ASSUME NEW i \in DOMAIN tasks, TaskSteps(i) \/ RequestFails(i)
        PROVE  ClientInv'
    BY <2>1, <2>5, ClientAssumption, InvOfReady, InvOfRead, InvOfServe, InvOfSnapshot, InvOfEnd
       DEF TaskSteps
  <2>6. CASE UNCHANGED clientVars
    BY <2>1, <2>6
       DEF clientVars, ClientInv, SidesInv, LifeInv, BatchInv, WaitInv
  <2>7. QED
    BY <2>1, <2>2, <2>3, <2>4, <2>5, <2>6 DEF ClientNext, Runs
<1>3. QED
  BY <1>1, <1>2, PTL DEF ClientSpec

\* The view a window shows is never behind what its revision stands for, and whatever was
\* put aside will be drained.
THEOREM ViewsAreInStep == ClientSpec => []InStep
<1>1. ClientInv => InStep
  <2>1. SUFFICES ASSUME ClientInv
                 PROVE  InStep
    OBVIOUS
  <2>2. /\ MessagesAt(Revision) = Count(log, Len(log))
        /\ MessagesAt(view.revision) = Count(log, view.revision)
        /\ PhaseAt(view.revision) = Phase(log, "idle", 1, view.revision)
    BY SaidOfLog DEF Revision
  <2>3. ClientTypeOK
    <3>1. \A b \in Range(channel) \cup pending : BatchOK(b, Len(log))
      BY <2>1 DEF ClientInv, BatchInv, Range
    <3>2. QED
      BY <2>1, <2>2, <3>1
         DEF ClientTypeOK, ClientInv, SidesInv, LifeInv, BatchOK, ViewOK, Said, Revision
  <2>4. NotBehindItsRevision
    BY <2>1, <2>2 DEF NotBehindItsRevision, ClientInv, ViewOK
  <2>5. WaitingBatchesHaveAResync
    BY <2>1 DEF WaitingBatchesHaveAResync, ClientInv, WaitInv, Resyncs
  <2>6. QED
    BY <2>3, <2>4, <2>5 DEF InStep
<1>2. QED
  BY <1>1, ClientInductive, PTL

\* A window that shows a running thread was told so by the events it applied.
THEOREM RunsAreSeenByEvents == ClientSpec => []RunningByEvents
<1>1. ClientInv => RunningByEvents
  BY SaidOfLog DEF RunningByEvents, ShowsRunning, ClientInv, ViewOK
<1>2. QED
  BY <1>1, ClientInductive, PTL
=============================================================================
