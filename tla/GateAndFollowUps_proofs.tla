------------------------ MODULE GateAndFollowUps_proofs ------------------------
(***************************************************************************)
(* Proofs about what a thread lets in and what its users add meanwhile: the *)
(* gate of runs, mutations and deletions (ThreadGate), for any threads and  *)
(* requests, and the messages that are queued for a thread or steered into  *)
(* its run (FollowUps), for any messages, callers, windows and bounds.      *)
(*                                                                         *)
(* ThreadExclusion rests on two facts: a lease is exactly an entry of runs, *)
(* and whoever works on a thread without a lease is first in its chain and  *)
(* has found no run there, or waits for the one it found. ClosedIsQuiescent *)
(* adds what shutdown() has still to wait for.                              *)
(*                                                                         *)
(* SteersAreTaken follows a message through the steps between its save and  *)
(* the page: an entry of a buffer was saved and is meant for that buffer's  *)
(* operation, an operation that completes has closed an empty buffer, and   *)
(* what was heard is shown or has a task that will show it. QueuedIsKept    *)
(* adds that a message is in one place at most.                             *)
(***************************************************************************)
EXTENDS ThreadGate, FollowUps, FiniteSetTheorems, TLAPS

-----------------------------------------------------------------------------
(* The gate *)

\* A request holds a lease exactly when it is its thread's run.
LeaseInv ==
  /\ \A r \in Requests : stage[r] = "leased" => runs[ThreadOf[r]] = r
  /\ \A t \in Threads : runs[t] # None => ThreadOf[runs[t]] = t /\ stage[runs[t]] = "leased"

\* A mutation or deletion at work is first in its thread's chain, and no run is left there
\* but the one the deletion is stopping.
TurnInv ==
  \A r \in Requests : stage[r] \in {"operating", "stopping"} =>
    /\ transitions[ThreadOf[r]] # <<>> /\ Head(transitions[ThreadOf[r]]) = r
    /\ stage[r] = "stopping" => KindOf[r] = "deletion"
    /\ \/ runs[ThreadOf[r]] = None
       \/ stage[r] = "stopping" /\ runs[ThreadOf[r]] = awaits[r]

\* What may still work on a thread once admission is closed.
Pending(r) ==
  \/ stage[r] \in {"operating", "stopping"}
  \/ stage[r] = "queued" /\ KindOf[r] = "deletion"

\* Shutdown first waits for all of that, then for every lease.
DrainInv ==
  \A r \in Requests :
    /\ closing = "draining" /\ Pending(r) => r \in drain
    /\ closing \in {"stopping", "closed"} => ~Pending(r)
    /\ closing = "stopping" /\ stage[r] = "leased" => r \in drain
    /\ closing = "closed" => stage[r] # "leased"

GateInv == GateTypeOK /\ LeaseInv /\ TurnInv /\ DrainInv

-----------------------------------------------------------------------------
\* Chaining a request behind others leaves the first of them first.
LEMMA ChainKeepsTurn ==
  ASSUME NEW S, NEW q \in Seq(S), NEW x \in S, q # <<>>
  PROVE  Append(q, x) # <<>> /\ Head(Append(q, x)) = Head(q)
  OBVIOUS

\* A chain of requests stays one, and keeps its first request, when another is chained.
LEMMA ChainTypes ==
  ASSUME GateAssumption, GateTypeOK, NEW r \in Requests, Chain(r)
  PROVE  /\ transitions' \in [Threads -> Seq(Requests)]
         /\ \A t \in Threads :
              transitions[t] # <<>> =>
                transitions'[t] # <<>> /\ Head(transitions'[t]) = Head(transitions[t])
  <1>0. transitions \in [Threads -> Seq(Requests)] /\ ThreadOf[r] \in Threads
    BY DEF GateTypeOK, GateAssumption
  <1>1. \A t \in Threads :
          transitions'[t] = IF t = ThreadOf[r] THEN Append(transitions[t], r) ELSE transitions[t]
    BY <1>0 DEF Chain
  <1>2. transitions' \in [Threads -> Seq(Requests)]
    BY <1>0 DEF Chain
  <1>3. ASSUME NEW t \in Threads, transitions[t] # <<>>
        PROVE  transitions'[t] # <<>> /\ Head(transitions'[t]) = Head(transitions[t])
    <2>1. transitions[t] \in Seq(Requests)
      BY <1>0
    <2>2. CASE t = ThreadOf[r]
      <3>1. transitions'[t] = Append(transitions[t], r)
        BY <1>1, <2>2
      <3>2. QED
        BY <1>3, <2>1, <3>1, ChainKeepsTurn
    <2>3. CASE t # ThreadOf[r]
      BY <1>1, <1>3, <2>3
    <2>4. QED
      BY <2>2, <2>3
  <1>4. QED
    BY <1>2, <1>3

\* It stays one when its first request is released.
LEMMA ReleaseTypes ==
  ASSUME GateAssumption, GateTypeOK, NEW r \in Requests, Release(r),
         transitions[ThreadOf[r]] # <<>>
  PROVE  transitions' \in [Threads -> Seq(Requests)]
  <1>0. transitions \in [Threads -> Seq(Requests)] /\ ThreadOf[r] \in Threads
    BY DEF GateTypeOK, GateAssumption
  <1>1. Tail(transitions[ThreadOf[r]]) \in Seq(Requests)
    BY <1>0
  <1>2. QED
    BY <1>0, <1>1 DEF Release

\* Every step keeps the types.
LEMMA GateTypeNext ==
  ASSUME GateAssumption, GateTypeOK, TurnInv, [GateNext]_gateVars
  PROVE  GateTypeOK'
  <1>1. CASE UNCHANGED gateVars
    BY <1>1 DEF GateTypeOK, gateVars
  <1>2. ASSUME NEW r \in Requests, ClaimRun(r) PROVE GateTypeOK'
    <2>1. transitions' \in [Threads -> Seq(Requests)]
      BY <1>2, ChainTypes DEF GateTypeOK, ClaimRun
    <2>2. QED
      BY <1>2, <2>1 DEF GateTypeOK, GateAssumption, Stages, ClaimRun, Closed, ShuttingDown,
          Requested, At
  <1>3. ASSUME NEW r \in Requests, RequestMutation(r) PROVE GateTypeOK'
    <2>1. transitions' \in [Threads -> Seq(Requests)]
      BY <1>3, ChainTypes DEF GateTypeOK, RequestMutation
    <2>2. QED
      BY <1>3, <2>1 DEF GateTypeOK, GateAssumption, Stages, RequestMutation, Requested, At
  <1>4. ASSUME NEW r \in Requests, RequestDeletion(r) PROVE GateTypeOK'
    <2>1. transitions' \in [Threads -> Seq(Requests)]
      BY <1>4, ChainTypes DEF GateTypeOK, RequestDeletion
    <2>2. ThreadOf[r] \in Threads /\ stage \in [Requests -> Stages]
          /\ deletions \in [Threads -> Requests \union {None}]
          /\ awaits \in [Requests -> Requests \union {None}]
      BY DEF GateTypeOK, GateAssumption
    <2>3. stage' \in [Requests -> Stages]
      BY <1>4, <2>2 DEF Stages, RequestDeletion, Requested, At, ShuttingDown
    <2>4. deletions' \in [Threads -> Requests \union {None}]
      BY <1>4, <2>2 DEF Stages, RequestDeletion, Requested, At, ShuttingDown
    <2>5. awaits' \in [Requests -> Requests \union {None}]
      BY <1>4, <2>2 DEF Stages, RequestDeletion, Requested, At, ShuttingDown
    <2>6. QED
      BY <1>4, <2>1, <2>3, <2>4, <2>5 DEF GateTypeOK, RequestDeletion
  <1>5. ASSUME NEW r \in Requests, AdmitRun(r) PROVE GateTypeOK'
    <2>1. transitions' \in [Threads -> Seq(Requests)]
      BY <1>5, ReleaseTypes DEF GateTypeOK, AdmitRun, Served
    <2>2. ThreadOf[r] \in Threads /\ stage \in [Requests -> Stages]
          /\ runs \in [Threads -> Requests \union {None}]
      BY DEF GateTypeOK, GateAssumption
    <2>3. stage' \in [Requests -> Stages]
      BY <1>5, <2>2 DEF Stages, AdmitRun, Served, Idle, Closed, ShuttingDown, At
    <2>4. runs' \in [Threads -> Requests \union {None}]
      BY <1>5, <2>2 DEF Stages, AdmitRun, Served, Idle, Closed, ShuttingDown, At
    <2>5. QED
      BY <1>5, <2>1, <2>3, <2>4 DEF GateTypeOK, AdmitRun
  <1>6. ASSUME NEW r \in Requests, BeginMutation(r) PROVE GateTypeOK'
    <2>1. transitions' \in [Threads -> Seq(Requests)]
      BY <1>6, ReleaseTypes DEF GateTypeOK, BeginMutation, Served
    <2>2. QED
      BY <1>6, <2>1 DEF GateTypeOK, GateAssumption, Stages, BeginMutation, Served, Idle,
          Closed, ShuttingDown, At
  <1>7. ASSUME NEW r \in Requests, BeginDeletion(r) PROVE GateTypeOK'
    <2>0. /\ aborted \in [Requests -> BOOLEAN] /\ stage \in [Requests -> Stages]
          /\ awaits \in [Requests -> Requests \union {None}]
          /\ runs[ThreadOf[r]] \in Requests \union {None}
      BY DEF GateTypeOK, GateAssumption
    <2>1. aborted' \in [Requests -> BOOLEAN]
      <3>1. CASE UNCHANGED aborted
        BY <2>0, <3>1
      <3>2. CASE Abort({runs[ThreadOf[r]]})
        BY <2>0, <3>2 DEF Abort
      <3>3. QED
        BY <1>7, <3>1, <3>2 DEF BeginDeletion
    <2>2. stage' \in [Requests -> Stages]
      BY <1>7, <2>0 DEF BeginDeletion, At, Stages
    <2>3. awaits' \in [Requests -> Requests \union {None}]
      BY <1>7, <2>0 DEF BeginDeletion
    <2>4. QED
      BY <1>7, <2>1, <2>2, <2>3 DEF GateTypeOK, BeginDeletion
  <1>8. ASSUME NEW r \in Requests, RunStopped(r) PROVE GateTypeOK'
    BY <1>8 DEF GateTypeOK, GateAssumption, Stages, RunStopped, At
  <1>9. ASSUME NEW r \in Requests, ForgetDeletion(r) PROVE GateTypeOK'
    BY <1>9 DEF GateTypeOK, GateAssumption, Stages, ForgetDeletion, At, Forget
  <1>10. ASSUME NEW r \in Requests, JoinedReturns(r) PROVE GateTypeOK'
    BY <1>10 DEF GateTypeOK, GateAssumption, Stages, JoinedReturns, At
  <1>11. ASSUME NEW r \in Requests, EndMutation(r) PROVE GateTypeOK'
    <2>1. transitions' \in [Threads -> Seq(Requests)]
      BY <1>11, ReleaseTypes DEF GateTypeOK, EndMutation, TurnInv
    <2>2. QED
      BY <1>11, <2>1 DEF GateTypeOK, GateAssumption, Stages, EndMutation, At
  <1>12. ASSUME NEW r \in Requests, EndDeletion(r) PROVE GateTypeOK'
    <2>1. transitions' \in [Threads -> Seq(Requests)]
      BY <1>12, ReleaseTypes DEF GateTypeOK, EndDeletion, TurnInv
    <2>2. QED
      BY <1>12, <2>1 DEF GateTypeOK, GateAssumption, Stages, EndDeletion, At
  <1>13. ASSUME NEW r \in Requests, CompleteRun(r) PROVE GateTypeOK'
    BY <1>13 DEF GateTypeOK, GateAssumption, Stages, CompleteRun, At
  <1>14. ASSUME NEW t \in Threads, RequireRecovery(t) PROVE GateTypeOK'
    BY <1>14 DEF GateTypeOK, GateAssumption, Stages, RequireRecovery
  <1>15. ASSUME Shutdown PROVE GateTypeOK'
    BY <1>15 DEF GateTypeOK, GateAssumption, Stages, Shutdown, Chained
  <1>16. ASSUME StopAllRuns PROVE GateTypeOK'
    BY <1>16 DEF GateTypeOK, GateAssumption, Stages, StopAllRuns, Running, Abort, Chained
  <1>17. ASSUME ShutdownReturns PROVE GateTypeOK'
    BY <1>17 DEF GateTypeOK, GateAssumption, Stages, ShutdownReturns, Leases
  <1>18. QED
    BY <1>1, <1>2, <1>3, <1>4, <1>5, <1>6, <1>7, <1>8, <1>9, <1>10, <1>11, <1>12, <1>13,
        <1>14, <1>15, <1>16, <1>17
    DEF GateNext, Advance, OperationEnds

\* A lease is taken in the registry of runs and given back there.
LEMMA LeaseNext ==
  ASSUME GateAssumption, GateTypeOK, LeaseInv, [GateNext]_gateVars
  PROVE  LeaseInv'
  <1>0. /\ runs \in [Threads -> Requests \union {None}]
        /\ stage \in [Requests -> Stages]
        /\ ThreadOf \in [Requests -> Threads]
        /\ None \notin Requests
    BY DEF GateTypeOK, GateAssumption
  <1>1. CASE UNCHANGED <<runs, stage>>
    BY <1>1 DEF LeaseInv
  <1>2. ASSUME NEW r \in Requests, ClaimRun(r) PROVE LeaseInv'
    BY <1>0, <1>2 DEF LeaseInv, ClaimRun, Closed, ShuttingDown, Requested, At, Chain
  <1>3. ASSUME NEW r \in Requests, RequestMutation(r) PROVE LeaseInv'
    BY <1>0, <1>3 DEF LeaseInv, RequestMutation, Requested, At, Chain
  <1>4. ASSUME NEW r \in Requests, RequestDeletion(r) PROVE LeaseInv'
    BY <1>0, <1>4 DEF LeaseInv, RequestDeletion, Requested, At, Chain, ShuttingDown
  <1>5. ASSUME NEW r \in Requests, AdmitRun(r) PROVE LeaseInv'
    BY <1>0, <1>5 DEF LeaseInv, AdmitRun, Served, Idle, Closed, ShuttingDown, At,
        Release
  <1>6. ASSUME NEW r \in Requests, BeginMutation(r) PROVE LeaseInv'
    BY <1>0, <1>6 DEF LeaseInv, BeginMutation, Served, Idle, Closed, ShuttingDown, At,
        Release
  <1>7. ASSUME NEW r \in Requests, BeginDeletion(r) PROVE LeaseInv'
    BY <1>0, <1>7 DEF LeaseInv, BeginDeletion, Served, At, Abort
  <1>8. ASSUME NEW r \in Requests, RunStopped(r) PROVE LeaseInv'
    BY <1>0, <1>8 DEF LeaseInv, RunStopped, At
  <1>9. ASSUME NEW r \in Requests, ForgetDeletion(r) PROVE LeaseInv'
    BY <1>0, <1>9 DEF LeaseInv, ForgetDeletion, At, Forget
  <1>10. ASSUME NEW r \in Requests, JoinedReturns(r) PROVE LeaseInv'
    BY <1>0, <1>10 DEF LeaseInv, JoinedReturns, At
  <1>11. ASSUME NEW r \in Requests, EndMutation(r) PROVE LeaseInv'
    BY <1>0, <1>11 DEF LeaseInv, EndMutation, At, Release
  <1>12. ASSUME NEW r \in Requests, EndDeletion(r) PROVE LeaseInv'
    BY <1>0, <1>12 DEF LeaseInv, EndDeletion, At, Release
  <1>13. ASSUME NEW r \in Requests, CompleteRun(r) PROVE LeaseInv'
    BY <1>0, <1>13 DEF LeaseInv, CompleteRun, At
  <1>14. ASSUME NEW t \in Threads, RequireRecovery(t)
        PROVE  UNCHANGED <<runs, stage>>
    BY <1>14 DEF RequireRecovery
  <1>15. ASSUME Shutdown \/ StopAllRuns \/ ShutdownReturns
        PROVE  UNCHANGED <<runs, stage>>
    BY <1>15 DEF Shutdown, StopAllRuns, ShutdownReturns
  <1>16. QED
    BY <1>1, <1>2, <1>3, <1>4, <1>5, <1>6, <1>7, <1>8, <1>9, <1>10, <1>11, <1>12, <1>13,
        <1>14, <1>15
    DEF GateNext, Advance, OperationEnds, gateVars

\* Whatever works on a thread outside a lease is first in the thread's chain.
LEMMA TurnNext ==
  ASSUME GateAssumption, GateTypeOK, LeaseInv, TurnInv, [GateNext]_gateVars
  PROVE  TurnInv'
  <1>0. /\ transitions \in [Threads -> Seq(Requests)]
        /\ runs \in [Threads -> Requests \union {None}]
        /\ stage \in [Requests -> Stages]
        /\ awaits \in [Requests -> Requests \union {None}]
        /\ ThreadOf \in [Requests -> Threads]
        /\ None \notin Requests
    BY DEF GateTypeOK, GateAssumption
  <1>1. CASE UNCHANGED <<transitions, runs, stage, awaits>>
    BY <1>1 DEF TurnInv
  <1>2. ASSUME NEW r \in Requests, ClaimRun(r) PROVE TurnInv'
    <2>1. \A t \in Threads :
            transitions[t] # <<>> =>
              transitions'[t] # <<>> /\ Head(transitions'[t]) = Head(transitions[t])
      BY <1>2, ChainTypes DEF ClaimRun
    <2>2. QED
      BY <1>0, <1>2, <2>1 DEF TurnInv, ClaimRun, Closed, ShuttingDown, Requested, At
  <1>3. ASSUME NEW r \in Requests, RequestMutation(r) PROVE TurnInv'
    <2>1. \A t \in Threads :
            transitions[t] # <<>> =>
              transitions'[t] # <<>> /\ Head(transitions'[t]) = Head(transitions[t])
      BY <1>3, ChainTypes DEF RequestMutation
    <2>2. QED
      BY <1>0, <1>3, <2>1 DEF TurnInv, RequestMutation, Requested, At
  <1>4. ASSUME NEW r \in Requests, RequestDeletion(r) PROVE TurnInv'
    <2>1. \A t \in Threads :
            transitions[t] # <<>> =>
              transitions'[t] # <<>> /\ Head(transitions'[t]) = Head(transitions[t])
      BY <1>4, ChainTypes DEF RequestDeletion
    <2>2. QED
      BY <1>0, <1>4, <2>1 DEF TurnInv, RequestDeletion, Requested, At, ShuttingDown
  <1>5. ASSUME NEW r \in Requests, AdmitRun(r) PROVE TurnInv'
    <2>1. \A s \in Requests \ {r} :
            stage[s] \in {"operating", "stopping"} => ThreadOf[s] # ThreadOf[r]
      BY <1>5 DEF TurnInv, AdmitRun, Served, Idle, Closed, ShuttingDown, At, Release
    <2>2. QED
      BY <1>0, <1>5, <2>1 DEF TurnInv, AdmitRun, Served, Idle, Closed, ShuttingDown, At, Release
  <1>6. ASSUME NEW r \in Requests, BeginMutation(r) PROVE TurnInv'
    <2>1. \A s \in Requests \ {r} :
            stage[s] \in {"operating", "stopping"} => ThreadOf[s] # ThreadOf[r]
      BY <1>6 DEF TurnInv, BeginMutation, Served, Idle, Closed, ShuttingDown, At, Release
    <2>2. QED
      BY <1>0, <1>6, <2>1 DEF TurnInv, BeginMutation, Served, Idle, Closed, ShuttingDown, At, Release
  <1>7. ASSUME NEW r \in Requests, BeginDeletion(r) PROVE TurnInv'
    BY <1>0, <1>7 DEF TurnInv, BeginDeletion, Served, At, Abort
  <1>8. ASSUME NEW r \in Requests, RunStopped(r) PROVE TurnInv'
    BY <1>0, <1>8 DEF TurnInv, RunStopped, At, LeaseInv
  <1>9. ASSUME NEW r \in Requests, ForgetDeletion(r) PROVE TurnInv'
    BY <1>0, <1>9 DEF TurnInv, ForgetDeletion, At, Forget
  <1>10. ASSUME NEW r \in Requests, JoinedReturns(r) PROVE TurnInv'
    BY <1>0, <1>10 DEF TurnInv, JoinedReturns, At
  <1>11. ASSUME NEW r \in Requests, EndMutation(r) PROVE TurnInv'
    <2>1. \A s \in Requests \ {r} :
            stage[s] \in {"operating", "stopping"} => ThreadOf[s] # ThreadOf[r]
      BY <1>11 DEF TurnInv, EndMutation, At, Release
    <2>2. QED
      BY <1>0, <1>11, <2>1 DEF TurnInv, EndMutation, At, Release
  <1>12. ASSUME NEW r \in Requests, EndDeletion(r) PROVE TurnInv'
    <2>1. \A s \in Requests \ {r} :
            stage[s] \in {"operating", "stopping"} => ThreadOf[s] # ThreadOf[r]
      BY <1>12 DEF TurnInv, EndDeletion, At, Release
    <2>2. QED
      BY <1>0, <1>12, <2>1 DEF TurnInv, EndDeletion, At, Release
  <1>13. ASSUME NEW r \in Requests, CompleteRun(r) PROVE TurnInv'
    BY <1>0, <1>13 DEF TurnInv, CompleteRun, At, LeaseInv
  <1>14. ASSUME NEW t \in Threads, RequireRecovery(t)
        PROVE  UNCHANGED <<transitions, runs, stage, awaits>>
    BY <1>14 DEF RequireRecovery
  <1>15. ASSUME Shutdown \/ StopAllRuns \/ ShutdownReturns
        PROVE  UNCHANGED <<transitions, runs, stage, awaits>>
    BY <1>15 DEF Shutdown, StopAllRuns, ShutdownReturns
  <1>16. QED
    BY <1>1, <1>2, <1>3, <1>4, <1>5, <1>6, <1>7, <1>8, <1>9, <1>10, <1>11, <1>12, <1>13,
        <1>14, <1>15
    DEF GateNext, Advance, OperationEnds, gateVars

\* Shutdown lets the chains and then the leases run out, and nothing follows them.
LEMMA DrainNext ==
  ASSUME GateAssumption, GateTypeOK, LeaseInv, TurnInv, DrainInv, [GateNext]_gateVars
  PROVE  DrainInv'
  <1>0. /\ runs \in [Threads -> Requests \union {None}]
        /\ stage \in [Requests -> Stages]
        /\ closing \in {"open", "draining", "stopping", "closed"}
        /\ drain \in SUBSET Requests
        /\ ThreadOf \in [Requests -> Threads]
        /\ None \notin Requests
    BY DEF GateTypeOK, GateAssumption
  <1>1. CASE UNCHANGED <<runs, stage, closing, drain>>
    BY <1>1 DEF DrainInv, Pending
  <1>2. ASSUME NEW r \in Requests, ClaimRun(r) PROVE DrainInv'
    BY <1>0, <1>2 DEF DrainInv, Pending, ClaimRun, Closed, ShuttingDown, Requested, At, Chain
  <1>3. ASSUME NEW r \in Requests, RequestMutation(r) PROVE DrainInv'
    BY <1>0, <1>3 DEF DrainInv, Pending, RequestMutation, Requested, At, Chain
  <1>4. ASSUME NEW r \in Requests, RequestDeletion(r) PROVE DrainInv'
    BY <1>0, <1>4 DEF DrainInv, Pending, RequestDeletion, Requested, At, Chain, ShuttingDown
  <1>5. ASSUME NEW r \in Requests, AdmitRun(r) PROVE DrainInv'
    BY <1>0, <1>5 DEF DrainInv, Pending, AdmitRun, Served, Idle, Closed, ShuttingDown, At,
        Release
  <1>6. ASSUME NEW r \in Requests, BeginMutation(r) PROVE DrainInv'
    BY <1>0, <1>6 DEF DrainInv, Pending, BeginMutation, Served, Idle, Closed, ShuttingDown, At,
        Release
  <1>7. ASSUME NEW r \in Requests, BeginDeletion(r) PROVE DrainInv'
    BY <1>0, <1>7 DEF DrainInv, Pending, BeginDeletion, Served, At, Abort
  <1>8. ASSUME NEW r \in Requests, RunStopped(r) PROVE DrainInv'
    BY <1>0, <1>8 DEF DrainInv, Pending, RunStopped, At
  <1>9. ASSUME NEW r \in Requests, ForgetDeletion(r) PROVE DrainInv'
    BY <1>0, <1>9 DEF DrainInv, Pending, ForgetDeletion, At, Forget
  <1>10. ASSUME NEW r \in Requests, JoinedReturns(r) PROVE DrainInv'
    BY <1>0, <1>10 DEF DrainInv, Pending, JoinedReturns, At
  <1>11. ASSUME NEW r \in Requests, EndMutation(r) PROVE DrainInv'
    BY <1>0, <1>11 DEF DrainInv, Pending, EndMutation, At, Release
  <1>12. ASSUME NEW r \in Requests, EndDeletion(r) PROVE DrainInv'
    BY <1>0, <1>12 DEF DrainInv, Pending, EndDeletion, At, Release
  <1>13. ASSUME NEW r \in Requests, CompleteRun(r) PROVE DrainInv'
    BY <1>0, <1>13 DEF DrainInv, Pending, CompleteRun, At
  <1>14. ASSUME Shutdown PROVE DrainInv'
    BY <1>0, <1>14 DEF DrainInv, Pending, Shutdown, Chained
  <1>15. ASSUME StopAllRuns PROVE DrainInv'
    BY <1>0, <1>15 DEF DrainInv, Pending, StopAllRuns, Running, Abort, Chained, LeaseInv
  <1>16. ASSUME ShutdownReturns PROVE DrainInv'
    BY <1>0, <1>16 DEF DrainInv, Pending, ShutdownReturns, Leases
  <1>17. ASSUME NEW t \in Threads, RequireRecovery(t)
        PROVE  UNCHANGED <<runs, stage, closing, drain>>
    BY <1>17 DEF RequireRecovery
  <1>18. QED
    BY <1>1, <1>2, <1>3, <1>4, <1>5, <1>6, <1>7, <1>8, <1>9, <1>10, <1>11, <1>12, <1>13,
        <1>14, <1>15, <1>16, <1>17
    DEF GateNext, Advance, OperationEnds, gateVars

-----------------------------------------------------------------------------
\* The initial states satisfy the invariant.
LEMMA InitGateInv ==
  ASSUME GateAssumption, GateInit
  PROVE  GateInv
  <1>1. GateTypeOK
    BY DEF GateInit, GateTypeOK, Stages, GateAssumption
  <1>2. LeaseInv /\ TurnInv /\ DrainInv
    BY DEF GateInit, LeaseInv, TurnInv, DrainInv, Pending
  <1>3. QED
    BY <1>1, <1>2 DEF GateInv

\* Every variable keeps its type, and the three facts about chains, leases and shutdown
\* hold in every reachable state.
THEOREM GateInductive == GateSpec => []GateInv
  <1>1. GateInit => GateInv
    BY GateAssumption, InitGateInv
  <1>2. GateInv /\ [GateNext]_gateVars => GateInv'
    BY GateAssumption, GateTypeNext, LeaseNext, TurnNext, DrainNext DEF GateInv
  <1>3. QED
    BY <1>1, <1>2, PTL DEF GateSpec

\* A run, an idle mutation and a deletion of a thread exclude each other.
THEOREM Exclusion == GateSpec => []ThreadExclusion
  <1>1. ASSUME GateInv, NEW r \in Requests, NEW s \in Requests, ThreadOf[r] = ThreadOf[s],
               stage[r] \in {"leased", "operating"}, stage[s] \in {"leased", "operating"}
        PROVE  r = s
    <2>1. ThreadOf[r] \in Threads /\ r # None /\ s # None
      BY GateAssumption DEF GateAssumption
    <2>2. CASE stage[r] = "leased" /\ stage[s] = "leased"
      BY <1>1, <2>2 DEF GateInv, LeaseInv
    <2>3. CASE stage[r] = "operating" /\ stage[s] = "operating"
      BY <1>1, <2>3 DEF GateInv, TurnInv
    <2>4. CASE stage[r] # stage[s]
      BY <1>1, <2>1, <2>4 DEF GateInv, LeaseInv, TurnInv
    <2>5. QED
      BY <1>1, <2>2, <2>3, <2>4
  <1>2. GateInv => ThreadExclusion
    BY <1>1 DEF ThreadExclusion
  <1>3. QED
    BY <1>2, GateInductive, PTL

\* Nothing is under way once shutdown() has returned.
THEOREM QuiescentAtExit == GateSpec => []ClosedIsQuiescent
  <1>1. GateInv => ClosedIsQuiescent
    BY DEF GateInv, DrainInv, Pending, ClosedIsQuiescent
  <1>2. QED
    BY <1>1, GateInductive, PTL

\* A run, an idle mutation and a deletion of a thread (claimRun, withIdleMutation,
\* withDeletion) exclude each other, and nothing is under way once shutdown has returned.
THEOREM AtMostOne == GateSpec => []OneAtATime
  <1>1. GateInv => GateTypeOK
    BY DEF GateInv
  <1>2. GateSpec => []GateTypeOK
    BY <1>1, GateInductive, PTL
  <1>3. QED
    BY <1>2, Exclusion, QuiescentAtExit, PTL DEF OneAtATime

\* A thread that requires recovery admits no further run and no further mutation.
THEOREM RecoveryIsFinal == GateSpec => RecoveryAdmitsNothing
  <1>1. ASSUME GateInv, [GateNext]_gateVars, NEW q \in Requests, ThreadOf[q] \in recovery,
               KindOf[q] # "deletion", stage'[q] \in {"leased", "operating"}
        PROVE  stage'[q] = stage[q]
    <2>0. stage \in [Requests -> Stages]
      BY <1>1 DEF GateInv, GateTypeOK
    <2>1. CASE UNCHANGED stage
      BY <2>1
    <2>2. ASSUME NEW r \in Requests,
                 ClaimRun(r) \/ RequestMutation(r) \/ RequestDeletion(r) \/ EndMutation(r)
                   \/ EndDeletion(r) \/ CompleteRun(r) \/ ForgetDeletion(r) \/ JoinedReturns(r)
          PROVE  stage'[q] = stage[q]
      BY <1>1, <2>0, <2>2 DEF ClaimRun, RequestMutation, RequestDeletion, EndMutation,
          EndDeletion, CompleteRun, ForgetDeletion, JoinedReturns, At
    <2>3. ASSUME NEW r \in Requests, AdmitRun(r) \/ BeginMutation(r)
          PROVE  stage'[q] = stage[q]
      BY <1>1, <2>0, <2>3 DEF AdmitRun, BeginMutation, At, Idle, Closed
    <2>4. ASSUME NEW r \in Requests, BeginDeletion(r) \/ RunStopped(r)
          PROVE  stage'[q] = stage[q]
      <3>1. KindOf[r] = "deletion"
        BY <1>1, <2>4 DEF BeginDeletion, RunStopped, Served, GateInv, TurnInv
      <3>2. QED
        BY <1>1, <2>0, <2>4, <3>1 DEF BeginDeletion, RunStopped, At
    <2>5. QED
      BY <1>1, <2>1, <2>2, <2>3, <2>4 DEF GateNext, Advance, OperationEnds, RequireRecovery,
          Shutdown, StopAllRuns, ShutdownReturns, gateVars
  <1>2. GateInv /\ [GateNext]_gateVars =>
          [\A r \in Requests :
             ThreadOf[r] \in recovery /\ KindOf[r] # "deletion" =>
               (stage'[r] \in {"leased", "operating"} => stage'[r] = stage[r])]_gateVars
    BY <1>1
  <1>3. QED
    BY <1>2, GateInductive, PTL DEF GateSpec, RecoveryAdmitsNothing

-----------------------------------------------------------------------------
(* What waits for a thread and what is steered into its run *)

\* Nothing is accepted by an operation any more, and nothing waits in it.
Emptied(r) == ~buffer[r].accepting /\ buffer[r].pending = <<>>

\* What an operation's end says of its buffer: who returns with success has closed it
\* empty.
RunInv ==
  /\ run.at # "none" => run.id \in Runs
  /\ run.at = "leaving" => ~run.tools
  /\ run.at = "stopped" => run.end # "completed"
  /\ run.at = "committed" \/ (run.at = "closing" /\ run.end = "completed") => Emptied(run.id)
  /\ \A r \in Runs : over[r] = "completed" => Emptied(r)

\* A buffer holds what was meant for its own operation; what is heard was meant for
\* the hearer, and what is saved is taken or the thread requires recovery.
BufferInv ==
  /\ \A r \in Runs : \A e \in Range(buffer[r].pending) : e.meant = r
  /\ HeardByTheRunItWasMeantFor
  /\ SavedIsTaken

\* Somebody waits for the operation that starts with their message.
JobInv ==
  /\ run.by # Nobody => run.at = "setup" /\ job[run.by].at = "starting"
  /\ \A a \in Actors :
      /\ job[a].at # "idle" => job[a].msg \in Msgs
      /\ job[a].at \in {"accepted", "projecting", "removing"} => job[a].msg \in saved

\* A task somebody waits for is the only one they wait for.
ProjectionInv ==
  /\ \A i \in DOMAIN projections :
       projections[i].by # Nobody => job[projections[i].by].at = "projecting"
  /\ \A i, j \in DOMAIN projections :
       projections[i].by = projections[j].by => i = j \/ projections[i].by = Nobody

\* What is shown as applied, or will be, was heard, and what was heard is shown so or
\* has a task that will.
MarkInv ==
  /\ \A i \in DOMAIN projections : projections[i].to = "applied" =>
       \A m \in projections[i].msgs : EverSteered(m)
  /\ \A m \in Msgs : mark[m] = "applied" => EverSteered(m)
  /\ \A m \in Msgs : EverSteered(m) =>
       \/ mark[m] = "applied"
       \/ \E i \in DOMAIN projections : projections[i].to = "applied" /\ m \in projections[i].msgs

\* No message twice.
NoTwins(q) == \A i, j \in DOMAIN q : q[i] = q[j] => i = j

\* A message is the prompt of an operation, or in the hands of somebody who makes it one.
Prompted(m) == \E t \in told[m] : t.how = "prompt"
Holds(a, m) == job[a].msg = m /\ job[a].at \in {"holding", "starting", "restoring"}

\* A message is in one place at most: the queue, somebody's hands, or with the operation
\* it prompts.
PlaceInv ==
  /\ NoTwins(queue)
  /\ \A m \in Msgs : fate[m] = "fresh" =>
       m \notin Range(queue) /\ ~Prompted(m) /\ \A a \in Actors : job[a].msg # m
  /\ \A m \in Range(queue) : ~Prompted(m) /\ \A a \in Actors : ~Holds(a, m)
  /\ \A m \in Msgs, a \in Actors : Holds(a, m) =>
       ~Prompted(m) /\ \A b \in Actors : Holds(b, m) => a = b
  /\ \A m \in Msgs : \A t, u \in told[m] : t.how = "prompt" /\ u.how = "prompt" => t = u

\* With these the properties of FollowUps are inductive.
MessagesInv ==
  /\ TypeOK /\ RunInv /\ BufferInv /\ JobInv
  /\ ProjectionInv /\ MarkInv /\ PlaceInv /\ NothingVanishes

-----------------------------------------------------------------------------
(* The queue *)

LEMMA WithoutOne ==
  ASSUME queue \in Seq(Msgs), NEW m
  PROVE  Without(m) \in Seq(Msgs)
<1>1. CASE m \in Range(queue)
  <2>1. Place(m) \in 1..Len(queue)
    BY <1>1 DEF Place, Range
  <2>2. SubSeq(queue, 1, Place(m) - 1) \in Seq(Msgs)
    BY <2>1
  <2>3. SubSeq(queue, Place(m) + 1, Len(queue)) \in Seq(Msgs)
    BY <2>1
  <2>4. QED
    BY <1>1, <2>2, <2>3 DEF Without, RemoveAt
<1>2. CASE m \notin Range(queue)
  BY <1>2 DEF Without
<1>3. QED
  BY <1>1, <1>2

\* Who is left when one is taken out.
LEMMA WithoutKeeps ==
  ASSUME queue \in Seq(Msgs), NoTwins(queue), NEW m
  PROVE  /\ NoTwins(Without(m))
         /\ Range(Without(m)) = Range(queue) \ {m}
<1>1. CASE m \in Range(queue)
  <2> DEFINE p == Place(m)
             w == SubSeq(queue, 1, p - 1) \o SubSeq(queue, p + 1, Len(queue))
  <2>1. p \in 1..Len(queue) /\ queue[p] = m
    BY <1>1 DEF Place, Range
  <2> HIDE DEF p
  <2>2. /\ Len(w) = Len(queue) - 1
        /\ \A i \in 1..Len(w) : w[i] = IF i < p THEN queue[i] ELSE queue[i + 1]
    <3> DEFINE before == SubSeq(queue, 1, p - 1)
               after == SubSeq(queue, p + 1, Len(queue))
    <3>1. /\ before \in Seq(Msgs) /\ Len(before) = p - 1
          /\ \A i \in 1..Len(before) : before[i] = queue[i]
      BY <2>1
    <3>2. /\ after \in Seq(Msgs) /\ Len(after) = Len(queue) - p
          /\ \A i \in 1..Len(after) : after[i] = queue[i + p]
      BY <2>1
    <3> HIDE DEF before, after
    <3>3. Len(before \o after) = Len(queue) - 1
      <4>1. before \in Seq(Msgs) /\ after \in Seq(Msgs)
        BY <3>1, <3>2
      <4>2. Len(before \o after) = Len(before) + Len(after)
        BY <4>1
      <4>3. QED
        BY <2>1, <3>1, <3>2, <4>2
    <3>4. ASSUME NEW i \in 1..Len(before \o after)
          PROVE  (before \o after)[i] = IF i < p THEN queue[i] ELSE queue[i + 1]
      <4>1. CASE i < p
        BY <2>1, <3>1, <3>2, <3>3, <4>1
      <4>2. CASE i >= p
        <5>1. (before \o after)[i] = after[i - (p - 1)]
          BY <2>1, <3>1, <3>2, <3>3, <4>2
        <5>2. i - (p - 1) \in 1..Len(after)
          BY <2>1, <3>2, <3>3, <4>2
        <5>3. QED
          BY <2>1, <3>2, <4>2, <5>1, <5>2
      <4>3. QED
        BY <2>1, <3>3, <4>1, <4>2
    <3>5. QED
      BY <3>3, <3>4 DEF before, after
  <2>3. Without(m) = w
    BY <1>1 DEF Without, RemoveAt, p
  <2>4. w \in Seq(Msgs)
    BY <2>3, WithoutOne
  <2> HIDE DEF w
  <2>5. NoTwins(w)
    <3>1. DOMAIN w = 1..Len(w) /\ DOMAIN queue = 1..Len(queue)
      BY <2>4
    <3>2. SUFFICES ASSUME NEW i \in 1..Len(w), NEW j \in 1..Len(w), w[i] = w[j]
                   PROVE  i = j
      BY <3>1 DEF NoTwins
    <3>3. \A k, l \in 1..Len(queue) : queue[k] = queue[l] => k = l
      BY <3>1 DEF NoTwins
    <3>4. QED
      BY <2>1, <2>2, <2>4, <3>2, <3>3
  <2>6. Range(w) \subseteq Range(queue) \ {m}
    BY <2>1, <2>2, <2>4 DEF NoTwins, Range
  <2>7. Range(queue) \ {m} \subseteq Range(w)
    <3>1. SUFFICES ASSUME NEW i \in 1..Len(queue), queue[i] # m
                   PROVE  queue[i] \in Range(w)
      BY DEF Range
    <3>2. CASE i < p
      BY <2>1, <2>2, <2>4, <3>2 DEF Range
    <3>3. CASE i > p
      <4>1. i - 1 \in 1..Len(w) /\ w[i - 1] = queue[i]
        BY <2>1, <2>2, <3>3
      <4>2. QED
        BY <4>1, <2>4 DEF Range
    <3>4. QED
      BY <2>1, <3>1, <3>2, <3>3
  <2>8. QED
    BY <2>3, <2>5, <2>6, <2>7
<1>2. CASE m \notin Range(queue)
  BY <1>2 DEF Without
<1>3. QED
  BY <1>1, <1>2

-----------------------------------------------------------------------------
(* Types *)

Buffers == [accepting : BOOLEAN, pending : Seq(Entries)]
Bys == Actors \cup {Nobody}

JobsOK(jobs) ==
  /\ jobs \in [Actors -> Jobs]
  /\ \A a \in Actors : jobs[a].at = "saving" => jobs[a].run \in Runs

LEMMA Names ==
  /\ {"none", "setup", "ready", "calling", "answered", "tools", "leaving", "committed",
      "stopped", "closing"} \subseteq Phases
  /\ {"unstarted", "going", "completed", "suspended", "failed", "cancelled"} \subseteq Ends
  /\ {"idle", "reading", "saving", "accepted", "projecting", "removing", "taking",
      "holding", "starting", "restoring"} \subseteq CallStages
BY DEF Phases, Ends, CallStages

LEMMA StoppedIs ==
  ASSUME NEW i \in 0..MaxRuns
  PROVE  Stopped(i) \in Operations
BY ConstantsAssumption DEF Stopped, Operations, Phases, Ends

LEMMA StartedIs ==
  ASSUME TypeOK, MayStart, NEW y \in Bys
  PROVE  /\ Started(y) \in Operations
         /\ run.id + 1 \in Runs
         /\ [over EXCEPT ![run.id + 1] = "going"] \in [Runs -> Ends]
<1>1. run.id \in 0..MaxRuns
  BY DEF TypeOK, Operations
<1>2. run.id + 1 \in Runs
  BY <1>1, ConstantsAssumption DEF MayStart, Runs
<1>3. Started(y) \in Operations
  <2>1. Stopped(run.id + 1) \in Operations
    BY <1>2, StoppedIs DEF Runs
  <2>2. "setup" \in Phases /\ "going" \in Ends
    BY Names
  <2>3. QED
    BY <2>1, <2>2 DEF Started, Operations, Bys
<1>4. QED
  BY <1>2, <1>3 DEF TypeOK, Ends

\* A call goes on to its next await, or is over.
LEMMA AtMoves ==
  ASSUME TypeOK, NEW a \in Actors, NEW s \in CallStages \ {"saving"},
         job' = [job EXCEPT ![a].at = s]
  PROVE  JobsOK(job')
<1>1. [job[a] EXCEPT !.at = s] \in Jobs
  BY DEF TypeOK, Jobs
<1>2. job' \in [Actors -> Jobs]
  BY <1>1 DEF TypeOK
<1>3. ASSUME NEW b \in Actors, job'[b].at = "saving"
      PROVE  job'[b].run \in Runs
  <2>1. CASE b = a
    BY <1>3, <2>1 DEF TypeOK, Jobs
  <2>2. CASE b # a
    BY <1>3, <2>2 DEF TypeOK
  <2>3. QED
    BY <2>1, <2>2
<1>4. QED
  BY <1>2, <1>3 DEF JobsOK

LEMMA JobMoves ==
  ASSUME TypeOK, NEW a \in Actors, NEW j \in Jobs, j.at = "saving" => j.run \in Runs,
         job' = [job EXCEPT ![a] = j]
  PROVE  JobsOK(job')
BY DEF TypeOK, JobsOK

LEMMA IdleIs == NoCall \in Jobs /\ NoCall.at = "idle"
BY ConstantsAssumption DEF NoCall, Jobs, CallStages, NoRun

LEMMA JobEnds ==
  ASSUME TypeOK, NEW a \in Actors, job' = [job EXCEPT ![a] = NoCall]
  PROVE  JobsOK(job')
BY JobMoves, IdleIs

LEMMA BuffersMove ==
  ASSUME TypeOK, NEW r \in Runs
  PROVE  /\ [buffer EXCEPT ![r].accepting = FALSE] \in [Runs -> Buffers]
         /\ [buffer EXCEPT ![r].pending = <<>>] \in [Runs -> Buffers]
         /\ \A e \in Entries :
              [buffer EXCEPT ![r].pending = Append(@, e)] \in [Runs -> Buffers]
<1>1. /\ [buffer[r] EXCEPT !.accepting = FALSE] \in Buffers
      /\ [buffer[r] EXCEPT !.pending = <<>>] \in Buffers
      /\ \A e \in Entries : [buffer[r] EXCEPT !.pending = Append(@, e)] \in Buffers
  <2>1. buffer[r] \in Buffers
    BY DEF TypeOK, Buffers
  <2>2. <<>> \in Seq(Entries)
    OBVIOUS
  <2>3. \A e \in Entries : Append(buffer[r].pending, e) \in Seq(Entries)
    BY <2>1 DEF Buffers
  <2>4. \A q \in Seq(Entries) : [buffer[r] EXCEPT !.pending = q] \in Buffers
    BY <2>1 DEF Buffers
  <2>5. [buffer[r] EXCEPT !.accepting = FALSE] \in Buffers
    BY <2>1 DEF Buffers
  <2>6. QED
    BY <2>2, <2>3, <2>4, <2>5
<1>2. buffer \in [Runs -> Buffers]
  BY DEF TypeOK, Buffers
<1> HIDE DEF Buffers
<1>3. QED
  BY <1>1, <1>2

-----------------------------------------------------------------------------
\* The kinds of steps.
LEMMA Steps ==
  ASSUME [Next]_vars
  PROVE  \/ Graph \/ Prompt \/ Resume \/ Cancel \/ Project
         \/ \E a \in Callers, m \in Msgs, x \in 0..MaxRuns : Steer(a, m, x) \/ Send(a, m, x)
         \/ \E a \in Callers : JobSteps(a)
         \/ \E w \in Windows : DrainStarts(w) \/ DrainSteps(w)
         \/ \E m \in Msgs : Enqueue(m) \/ Edit(m) \/ Delete(m)
         \/ UNCHANGED vars
BY DEF Next, Calls

LEMMA TypeOfGraph ==
  ASSUME TypeOK, RunInv, JobInv, Graph \/ Prompt \/ Resume \/ Cancel
  PROVE  TypeOK'
<1> USE DEF Bys
<1>1. /\ run \in Operations /\ run.by \in Bys
      /\ run.at # "none" => run.id \in Runs
  BY DEF TypeOK, RunInv, Operations
<1>2. ASSUME NEW y \in Bys, MayStart, run' = Started(y) \/ run' = [Started(y) EXCEPT !.tools = TRUE],
             over' = [over EXCEPT ![run.id + 1] = "going"]
      PROVE  run' \in Operations /\ over' \in [Runs -> Ends]
  <2>1. Started(y) \in Operations /\ over' \in [Runs -> Ends]
    BY <1>2, StartedIs
  <2>2. QED
    BY <1>2, <2>1 DEF Operations
<1>3. CASE Prompt
  <2>1. run' \in Operations /\ over' \in [Runs -> Ends]
    BY <1>2, <1>3 DEF Prompt
  <2>2. QED
    BY <1>3, <2>1 DEF TypeOK, Prompt
<1>4. CASE Resume
  <2>1. run' \in Operations /\ over' \in [Runs -> Ends]
    BY <1>2, <1>4 DEF Resume
  <2>2. QED
    BY <1>4, <2>1 DEF TypeOK, Resume
<1>5. CASE Cancel
  <2>1. run' \in Operations
    BY <1>1, <1>5 DEF Operations, Cancel
  <2>2. QED
    BY <1>5, <2>1 DEF TypeOK, Cancel
<1>6. CASE Admit
  <2>1. run.id \in Runs
    BY <1>1, <1>6 DEF Admit
  <2>2. run' \in Operations
    <3>1. run' = [run EXCEPT !.at = "tools", !.by = Nobody]
          \/ run' = [run EXCEPT !.at = "ready", !.by = Nobody]
      BY <1>6 DEF Admit
    <3>2. QED
      BY <1>1, <3>1, Names DEF Operations
  <2>3. CASE run.by = Nobody
    BY <1>6, <2>2, <2>3 DEF TypeOK, Admit
  <2>4. CASE run.by # Nobody
    <3>1. run.by \in Actors /\ job[run.by].msg \in Msgs
      BY <1>1, <2>4 DEF JobInv
    <3>2. JobsOK(job')
      BY <1>6, <2>4, <3>1, JobEnds DEF Admit
    <3>3. [meant |-> run.id, run |-> run.id, how |-> "prompt"] \in Tellings
      BY <2>1 DEF Tellings
    <3>4. told' \in [Msgs -> SUBSET Tellings]
      <4>1. told \in [Msgs -> SUBSET Tellings]
        BY DEF TypeOK
      <4>2. told[job[run.by].msg]
              \cup {[meant |-> run.id, run |-> run.id, how |-> "prompt"]} \in SUBSET Tellings
        BY <3>1, <3>3, <4>1
      <4>3. told' = [told EXCEPT ![job[run.by].msg] =
                      @ \cup {[meant |-> run.id, run |-> run.id, how |-> "prompt"]}]
        BY <1>6, <2>4 DEF Admit
      <4>4. QED
        BY <3>1, <4>1, <4>2, <4>3
    <3>5. QED
      BY <1>6, <2>2, <3>2, <3>4 DEF TypeOK, JobsOK, Admit
  <2>5. QED
    BY <2>3, <2>4
<1>7. CASE Refuse
  <2>1. run.id \in Runs
    BY <1>1, <1>7 DEF Refuse
  <2>2. run' \in Operations
    <3>1. run' = [run EXCEPT !.at = "closing", !.by = Nobody, !.end = "suspended"]
          \/ run' = [run EXCEPT !.at = "closing", !.by = Nobody, !.end = "failed"]
      BY <1>7 DEF Refuse
    <3>2. QED
      BY <1>1, <3>1, Names DEF Operations
  <2>3. buffer' \in [Runs -> Buffers]
    BY <1>7, <2>1, BuffersMove DEF Refuse
  <2>4. JobsOK(job') /\ fate' \in [Msgs -> Fates]
    <3>1. CASE run.by = Nobody
      BY <1>7, <3>1 DEF TypeOK, JobsOK, Refuse
    <3>2. CASE run.by # Nobody /\ job[run.by].kind = "drain"
      <4>1. job' = [job EXCEPT ![run.by].at = "restoring"] /\ fate' = fate
        BY <1>7, <3>2 DEF Refuse
      <4>2. "restoring" \in CallStages \ {"saving"}
        BY Names
      <4>3. QED
        BY <1>1, <3>2, <4>1, <4>2, AtMoves DEF TypeOK
    <3>3. CASE run.by # Nobody /\ job[run.by].kind # "drain"
      <4>1. job' = [job EXCEPT ![run.by] = NoCall]
        BY <1>7, <3>3 DEF Refuse
      <4>2. fate' = [fate EXCEPT ![job[run.by].msg] = "settled"]
        BY <1>7, <3>3 DEF Refuse
      <4>3. QED
        BY <1>1, <3>3, <4>1, <4>2, JobEnds DEF TypeOK, Fates
    <3>4. QED
      BY <3>1, <3>2, <3>3
  <2>5. QED
    BY <1>7, <2>2, <2>3, <2>4 DEF TypeOK, Buffers, JobsOK, Refuse
<1>8. CASE CallModel
  <2> DEFINE drained == Range(buffer[run.id].pending)
             heard == {e.msg : e \in drained}
  <2>1. run.id \in Runs
    BY <1>1, <1>8 DEF CallModel
  <2>2. run' \in Operations
    BY <1>1, <1>8, Names DEF Operations, CallModel
  <2>3. buffer' \in [Runs -> Buffers]
    BY <1>8, <2>1, BuffersMove DEF CallModel
  <2>4. drained \subseteq Entries
    <3>1. buffer[run.id].pending \in Seq(Entries)
      BY <2>1 DEF TypeOK
    <3>2. QED
      BY <3>1 DEF Range
  <2> HIDE DEF drained
  <2>5. told' \in [Msgs -> SUBSET Tellings]
    <3>1. \A e \in drained : [meant |-> e.meant, run |-> run.id, how |-> "steer"] \in Tellings
      BY <2>1, <2>4 DEF Entries, Tellings
    <3>2. told' = [n \in Msgs |-> told[n] \cup
                     {[meant |-> e.meant, run |-> run.id, how |-> "steer"] :
                        e \in {e \in drained : e.msg = n}}]
      BY <1>8 DEF CallModel, drained
    <3>3. QED
      BY <3>1, <3>2 DEF TypeOK
  <2>6. projections' \in Seq(Tasks)
    <3>1. heard \subseteq Msgs
      BY <2>4 DEF Entries
    <3> HIDE DEF heard
    <3>2. [to |-> "applied", msgs |-> heard, by |-> Nobody] \in Tasks
      BY <3>1 DEF Tasks
    <3>3. PICK task \in Tasks :
            projections' = projections \/ projections' = Append(projections, task)
      BY <1>8, <3>2 DEF CallModel, heard, drained
    <3>4. projections \in Seq(Tasks)
      BY DEF TypeOK
    <3>5. QED
      BY <3>3, <3>4
  <2>7. QED
    BY <1>8, <2>2, <2>3, <2>5, <2>6 DEF TypeOK, Buffers, CallModel
<1>9. CASE Answer
  <2>1. PICK tools \in BOOLEAN :
          /\ tools => run.rounds < MaxRounds
          /\ run' = [run EXCEPT !.at = "answered", !.tools = tools,
                                !.rounds = IF tools THEN @ + 1 ELSE @]
    BY <1>9 DEF Answer
  <2>2. (IF tools THEN run.rounds + 1 ELSE run.rounds) \in 0..MaxRounds
    BY <1>1, <2>1, ConstantsAssumption DEF Operations
  <2>3. run' \in Operations
    BY <1>1, <2>1, <2>2, Names DEF Operations
  <2>4. QED
    BY <1>9, <2>3 DEF TypeOK, Answer
<1>10. CASE AfterModel
  <2>1. run' \in Operations
    BY <1>1, <1>10, Names DEF Operations, AfterModel
  <2>2. QED
    BY <1>10, <2>1 DEF TypeOK, AfterModel
<1>11. CASE ToolsEnd
  <2>1. run' \in Operations
    BY <1>1, <1>11, Names DEF Operations, ToolsEnd
  <2>2. QED
    BY <1>11, <2>1 DEF TypeOK, ToolsEnd
<1>12. CASE AfterAgent
  <2>1. run' \in Operations
    BY <1>1, <1>12, Names DEF Operations, AfterAgent
  <2>2. buffer' \in [Runs -> Buffers]
    <3>1. run.id \in Runs
      BY <1>1, <1>12 DEF AfterAgent
    <3>2. buffer' = buffer \/ buffer' = [buffer EXCEPT ![run.id].accepting = FALSE]
      BY <1>12 DEF AfterAgent
    <3>3. buffer \in [Runs -> Buffers]
      BY DEF TypeOK, Buffers
    <3>4. QED
      BY <3>1, <3>2, <3>3, BuffersMove
  <2>3. QED
    BY <1>12, <2>1, <2>2 DEF TypeOK, Buffers, AfterAgent
<1>13. CASE GraphStops
  <2>1. run' \in Operations
    BY <1>1, <1>13, Names DEF Operations, GraphStops
  <2>2. QED
    BY <1>13, <2>1 DEF TypeOK, GraphStops
<1>14. CASE Return
  <2>1. run' \in Operations
    <3>1. PICK end \in Ends : run' = [run EXCEPT !.at = "closing", !.end = end]
      BY <1>1, <1>14, Names DEF Operations, Return
    <3>2. QED
      BY <1>1, <3>1, Names DEF Operations
  <2>2. buffer' \in [Runs -> Buffers]
    BY <1>1, <1>14, BuffersMove DEF Return
  <2>3. QED
    BY <1>14, <2>1, <2>2 DEF TypeOK, Buffers, Return
<1>15. CASE Leave
  <2>1. run' \in Operations
    BY <1>1, <1>15, StoppedIs DEF Operations, Leave
  <2>2. over' \in [Runs -> Ends]
    BY <1>1, <1>15 DEF TypeOK, Operations, Leave
  <2>3. QED
    BY <1>15, <2>1, <2>2 DEF TypeOK, Leave
<1>16. QED
  BY <1>3, <1>4, <1>5, <1>6, <1>7, <1>8, <1>9, <1>10, <1>11, <1>12, <1>13, <1>14, <1>15
     DEF Graph

LEMMA SavingIs ==
  ASSUME run.id \in Runs, NEW kind \in {"steer", "send"}, NEW n \in Msgs
  PROVE  Saving(kind, n) \in Jobs /\ Saving(kind, n).run \in Runs
<1>1. NoRun \in 0..MaxRuns /\ run.id \in 0..MaxRuns /\ "saving" \in CallStages
  BY Names, ConstantsAssumption DEF NoRun, Runs
<1>2. QED
  BY <1>1 DEF Saving, Jobs

LEMMA TypeOfCalls ==
  ASSUME TypeOK, RunInv, JobInv, NEW a \in Actors, NEW m, NEW x,
         \/ m \in Msgs /\ x \in 0..MaxRuns /\ (Steer(a, m, x) \/ Send(a, m, x))
         \/ JobSteps(a)
  PROVE  TypeOK'
<1>1. /\ run \in Operations /\ run.id \in 0..MaxRuns
      /\ run.at # "none" => run.id \in Runs
      /\ job[a] \in Jobs
      /\ job[a].at # "idle" => job[a].msg \in Msgs
      /\ job[a].at = "saving" => job[a].run \in Runs
  BY DEF TypeOK, RunInv, JobInv, Operations
<1>2. ASSUME NEW kind \in {"steer", "send"}, run.at # "none", m \in Msgs
      PROVE  Saving(kind, m) \in Jobs /\ Saving(kind, m).run \in Runs
  BY <1>1, <1>2, SavingIs
<1>3. ASSUME AbortSeenRun(a)
      PROVE  run' \in Operations /\ recoveryRequired' \in BOOLEAN /\ JobsOK(job')
  <2>1. run' \in Operations
    BY <1>1, <1>3 DEF AbortSeenRun, Operations
  <2>2. QED
    BY <1>3, <2>1, JobEnds DEF AbortSeenRun
<1>4. CASE m \in Msgs /\ x \in 0..MaxRuns /\ Steer(a, m, x)
  <2>1. [NoCall EXCEPT !.kind = "steer", !.at = "reading", !.msg = m, !.expects = x] \in Jobs
    BY <1>4, IdleIs, Names DEF Jobs
  <2>2. JobsOK(job')
    <3>1. [NoCall EXCEPT !.kind = "steer", !.at = "reading", !.msg = m, !.expects = x].at # "saving"
      BY IdleIs DEF Jobs
    <3>2. QED
      BY <1>4, <2>1, <3>1, JobMoves DEF Steer
  <2>3. QED
    BY <1>4, <2>2 DEF TypeOK, JobsOK, Steer
<1>5. CASE SteerReads(a)
  <2>1. JobsOK(job')
    <3>1. CASE job[a].msg \in Range(queue) /\ Steerable(job[a].expects)
      <4>1. run.at # "none" /\ job[a].msg \in Msgs
        BY <1>1, <1>5, <3>1 DEF Steerable, SteerReads
      <4>2. Saving("steer", job[a].msg) \in Jobs /\ Saving("steer", job[a].msg).run \in Runs
        BY <1>1, <4>1, SavingIs
      <4>3. job' = [job EXCEPT ![a] = Saving("steer", job[a].msg)]
        BY <1>5, <3>1 DEF SteerReads
      <4>4. QED
        BY <4>2, <4>3, JobMoves
    <3>2. CASE ~(job[a].msg \in Range(queue) /\ Steerable(job[a].expects))
      BY <1>5, <3>2, JobEnds DEF SteerReads
    <3>3. QED
      BY <3>1, <3>2
  <2>2. QED
    BY <1>5, <2>1 DEF TypeOK, JobsOK, SteerReads
<1>6. CASE m \in Msgs /\ x \in 0..MaxRuns /\ Send(a, m, x)
  <2>1. fate' \in [Msgs -> Fates]
    BY <1>6 DEF Send, TypeOK, Fates
  <2>2. JobsOK(job') /\ run' \in Operations /\ over' \in [Runs -> Ends]
    <3>1. CASE /\ Steerable(x)
               /\ job' = [job EXCEPT ![a] = Saving("send", m)]
               /\ UNCHANGED <<run, over>>
      <4>1. run.at # "none"
        BY <3>1 DEF Steerable
      <4>2. QED
        BY <1>1, <1>2, <1>6, <3>1, <4>1, JobMoves DEF TypeOK
    <3>2. CASE /\ MayStart /\ run' = Started(a)
               /\ over' = [over EXCEPT ![run.id + 1] = "going"]
               /\ job' = [job EXCEPT ![a] = [[NoCall EXCEPT !.kind = "send", !.msg = m]
                                             EXCEPT !.at = "starting"]]
      <4>1. run' \in Operations /\ over' \in [Runs -> Ends]
        BY <3>2, StartedIs DEF Bys
      <4>2. /\ [[NoCall EXCEPT !.kind = "send", !.msg = m] EXCEPT !.at = "starting"] \in Jobs
            /\ [[NoCall EXCEPT !.kind = "send", !.msg = m] EXCEPT !.at = "starting"].at # "saving"
        BY <1>6, IdleIs, Names DEF Jobs
      <4>3. QED
        BY <3>2, <4>1, <4>2, JobMoves
    <3>3. CASE UNCHANGED <<run, over, job>>
      BY <1>1, <3>3 DEF TypeOK, JobsOK
    <3>4. QED
      BY <1>6, <3>1, <3>2, <3>3 DEF Send
  <2>3. QED
    BY <1>6, <2>1, <2>2 DEF TypeOK, JobsOK, Send
<1>7. CASE Saved(a)
  <2>1. saved' \subseteq Msgs
    BY <1>1, <1>7 DEF TypeOK, Saved
  <2>2. CASE buffer[job[a].run].accepting
    <3>1. buffer' \in [Runs -> Buffers]
      <4>1. [msg |-> job[a].msg, meant |-> job[a].run] \in Entries
        BY <1>1, <1>7 DEF Entries, Saved
      <4>2. buffer' = [buffer EXCEPT ![job[a].run].pending =
                         Append(@, [msg |-> job[a].msg, meant |-> job[a].run])]
        BY <1>7, <2>2 DEF Saved
      <4>3. QED
        BY <1>1, <1>7, <4>1, <4>2, BuffersMove DEF Saved
    <3>2. JobsOK(job')
      <4>1. [job[a] EXCEPT !.at = "accepted", !.run = NoRun] \in Jobs
        <5>1. NoRun \in 0..MaxRuns /\ "accepted" \in CallStages
          BY Names, ConstantsAssumption DEF NoRun
        <5>2. QED
          BY <1>1, <5>1 DEF Jobs
      <4>2. [job[a] EXCEPT !.at = "accepted", !.run = NoRun].at # "saving"
        BY <1>1 DEF Jobs
      <4>3. QED
        BY <1>7, <2>2, <4>1, <4>2, JobMoves DEF Saved
    <3>3. QED
      BY <1>7, <2>1, <2>2, <3>1, <3>2 DEF TypeOK, JobsOK, Buffers, Saved
  <2>3. CASE ~buffer[job[a].run].accepting
    BY <1>3, <1>7, <2>1, <2>3 DEF TypeOK, JobsOK, Saved
  <2>4. QED
    BY <2>2, <2>3
<1>8. CASE SaveFails(a)
  <2>1. fate' \in [Msgs -> Fates]
    BY <1>8 DEF SaveFails, TypeOK, Fates
  <2>2. QED
    BY <1>3, <1>8, <2>1 DEF TypeOK, JobsOK, SaveFails
<1>9. CASE Accepted(a)
  <2>1. JobsOK(job')
    <3>1. job' = [job EXCEPT ![a].at = "projecting"] \/ job' = [job EXCEPT ![a] = NoCall]
      BY <1>9 DEF Accepted
    <3>2. "projecting" \in CallStages \ {"saving"}
      BY Names
    <3>3. QED
      BY <3>1, <3>2, AtMoves, JobEnds
  <2>2. PICK task \in Tasks : projections' = Append(projections, task)
    <3>1. ASSUME NEW y \in Bys
          PROVE  [to |-> "pending", msgs |-> {job[a].msg}, by |-> y] \in Tasks
      BY <1>1, <1>9 DEF Accepted, Tasks, Bys
    <3>2. QED
      BY <1>9, <3>1 DEF Accepted, Bys
  <2>3. projections \in Seq(Tasks)
    BY DEF TypeOK
  <2>4. projections' \in Seq(Tasks)
    BY <2>2, <2>3
  <2>5. QED
    BY <1>9, <2>1, <2>4 DEF TypeOK, JobsOK, Accepted
<1>10. CASE SteerEnds(a)
  <2>1. queue' \in Seq(Msgs) /\ JobsOK(job')
    BY <1>10, JobEnds, WithoutOne DEF TypeOK, SteerEnds
  <2>2. QED
    BY <1>10, <2>1 DEF TypeOK, JobsOK, SteerEnds
<1>11. QED
  BY <1>4, <1>5, <1>6, <1>7, <1>8, <1>9, <1>10 DEF JobSteps

LEMMA TypeOfProject ==
  ASSUME TypeOK, Project
  PROVE  TypeOK'
<1> DEFINE task == Head(projections)
<1>1. task \in Tasks
  BY DEF TypeOK, Project
<1> HIDE DEF task
<1>2. mark' \in [Msgs -> {"none", "pending", "applied"}]
  <2>1. task.to \in {"pending", "applied"}
    BY <1>1 DEF Tasks
  <2>2. QED
    BY <2>1 DEF TypeOK, Project, MarkAfter, task
<1>3. JobsOK(job')
  <2>1. CASE task.by = Nobody
    BY <2>1 DEF TypeOK, JobsOK, Project, task
  <2>2. CASE task.by # Nobody
  <3>1. task.by \in Actors /\ "removing" \in CallStages \ {"saving"}
      BY <1>1, <2>2, Names DEF Tasks
  <3>2. job' = [job EXCEPT ![task.by].at = "removing"]
      BY <2>2 DEF Project, task
  <3>3. QED
      BY <3>1, <3>2, AtMoves
  <2>3. QED
    BY <2>1, <2>2
<1>4. projections' \in Seq(Tasks)
  BY DEF TypeOK, Project
<1>5. QED
  BY <1>2, <1>3, <1>4 DEF TypeOK, JobsOK, Project

LEMMA TypeOfQueue ==
  ASSUME TypeOK, RunInv, JobInv, NEW w \in Actors, DrainStarts(w) \/ DrainSteps(w)
  PROVE  TypeOK'
<1>1. /\ queue \in Seq(Msgs)
      /\ job[w] \in Jobs
      /\ job[w].at # "idle" => job[w].msg \in Msgs
      /\ fate \in [Msgs -> Fates]
      /\ \A s \in CallStages \ {"saving"} : job' = [job EXCEPT ![w].at = s] => JobsOK(job')
      /\ job' = [job EXCEPT ![w] = NoCall] => JobsOK(job')
  BY AtMoves, JobEnds DEF TypeOK, JobInv
<1>2. CASE DrainStarts(w)
  <2>1. Head(queue) \in Msgs
    BY <1>1, <1>2 DEF DrainStarts
  <2>2. /\ [NoCall EXCEPT !.kind = "drain", !.at = "taking", !.msg = Head(queue)] \in Jobs
        /\ [NoCall EXCEPT !.kind = "drain", !.at = "taking", !.msg = Head(queue)].at # "saving"
    BY <2>1, IdleIs, Names DEF Jobs
  <2>3. JobsOK(job')
    BY <1>2, <2>2, JobMoves DEF DrainStarts
  <2>4. QED
    BY <1>2, <2>3 DEF TypeOK, JobsOK, DrainStarts
<1>3. CASE TakeFollowUp(w)
  <2>1. queue' \in Seq(Msgs)
    BY <1>1, <1>3, WithoutOne DEF TakeFollowUp
  <2>2. JobsOK(job')
    BY <1>1, <1>3, Names DEF TakeFollowUp
  <2>3. QED
    BY <1>3, <2>1, <2>2 DEF TypeOK, JobsOK, TakeFollowUp
<1>4. CASE DrainInvokes(w)
  <2>1. run' \in Operations /\ over' \in [Runs -> Ends]
    BY <1>4, StartedIs DEF DrainInvokes, Bys
  <2>2. JobsOK(job')
    <3>1. "starting" \in CallStages \ {"saving"}
      BY Names
    <3>2. job' = [job EXCEPT ![w].at = "starting"]
      BY <1>4 DEF DrainInvokes
    <3>3. QED
      BY <3>1, <3>2, AtMoves
  <2>3. QED
    BY <1>4, <2>1, <2>2 DEF TypeOK, JobsOK, DrainInvokes
<1>5. CASE DrainGivesUp(w)
  <2>1. JobsOK(job')
    <3>1. "restoring" \in CallStages \ {"saving"}
      BY Names
    <3>2. job' = [job EXCEPT ![w].at = "restoring"]
      BY <1>5 DEF DrainGivesUp
    <3>3. QED
      BY <3>1, <3>2, AtMoves
  <2>2. QED
    BY <1>5, <2>1 DEF TypeOK, JobsOK, DrainGivesUp
<1>6. CASE Restore(w)
  <2>1. queue' \in Seq(Msgs)
    BY <1>1, <1>6 DEF Restore
  <2>2. JobsOK(job')
    BY <1>1, <1>6 DEF Restore
  <2>3. QED
    BY <1>6, <2>1, <2>2 DEF TypeOK, JobsOK, Restore
<1>7. ASSUME NEW n \in Msgs, DrainRequeues(w, n)
      PROVE  TypeOK'
  <2>1. queue' \in Seq(Msgs)
    BY <1>1, <1>7 DEF DrainRequeues
  <2>2. JobsOK(job')
    BY <1>1, <1>7 DEF DrainRequeues
  <2>3. fate' \in [Msgs -> Fates]
    BY <1>1, <1>7 DEF DrainRequeues, Fates
  <2>4. QED
    BY <1>7, <2>1, <2>2, <2>3 DEF TypeOK, JobsOK, DrainRequeues
<1>8. QED
  BY <1>2, <1>3, <1>4, <1>5, <1>6, <1>7 DEF DrainSteps

LEMMA TypeOfUsers ==
  ASSUME TypeOK, NEW m \in Msgs, Enqueue(m) \/ Edit(m) \/ Delete(m)
  PROVE  TypeOK'
<1>1. queue' \in Seq(Msgs)
  <2>1. queue \in Seq(Msgs)
    BY DEF TypeOK
  <2>2. queue' = Append(queue, m) \/ queue' = Without(m)
    BY DEF Enqueue, Edit, Delete
  <2>3. QED
    BY <2>1, <2>2, WithoutOne
<1>2. fate' \in [Msgs -> Fates]
  BY DEF TypeOK, Fates, Enqueue, Edit, Delete
<1>3. QED
  BY <1>1, <1>2 DEF TypeOK, Enqueue, Edit, Delete

LEMMA TypeStep ==
  ASSUME TypeOK, RunInv, JobInv, [Next]_vars
  PROVE  TypeOK'
<1>1. CASE UNCHANGED vars
  BY <1>1 DEF TypeOK, vars
<1>2. QED
  BY <1>1, Steps, TypeOfGraph, TypeOfCalls, TypeOfProject, TypeOfQueue, TypeOfUsers DEF Actors

-----------------------------------------------------------------------------
(* Where the operation stands, and what its buffer holds then *)

LEMMA RunInvStep ==
  ASSUME TypeOK, RunInv, [Next]_vars
  PROVE  RunInv'
<1>1. /\ run \in [id : 0..MaxRuns, at : Phases, tools : BOOLEAN, rounds : 0..MaxRounds,
                  aborted : BOOLEAN, end : Ends, by : Actors \cup {Nobody}]
      /\ buffer \in [Runs -> [accepting : BOOLEAN, pending : Seq(Entries)]]
      /\ over \in [Runs -> Ends]
  BY DEF TypeOK, Operations
<1>2. /\ run.at # "none" => run.id \in Runs
      /\ run.at = "leaving" => ~run.tools
      /\ run.at = "stopped" => run.end # "completed"
      /\ run.at = "committed" \/ (run.at = "closing" /\ run.end = "completed") =>
           Emptied(run.id)
      /\ \A r \in Runs : over[r] = "completed" => buffer[r].pending = <<>> /\ ~buffer[r].accepting
  BY DEF RunInv, Emptied
<1>3. CASE UNCHANGED <<run, over, buffer>>
  BY <1>3 DEF RunInv, Emptied
<1>4. ASSUME NEW y, run' = Started(y) \/ run' = [Started(y) EXCEPT !.tools = TRUE], MayStart,
             over' = [over EXCEPT ![run.id + 1] = "going"], UNCHANGED buffer
      PROVE  RunInv'
  <2>1. run.id + 1 \in Runs
    BY <1>1, <1>4, ConstantsAssumption DEF MayStart, Runs
  <2>2. run'.id = run.id + 1 /\ run'.at = "setup"
    BY <1>4 DEF Started, Stopped
  <2>3. \A r \in Runs : over'[r] = "completed" => over[r] = "completed"
    BY <1>1, <1>4
  <2>4. QED
    BY <1>2, <1>4, <2>1, <2>2, <2>3 DEF RunInv, Emptied
\* The graph of an operation that goes on leaves its exit to come.
<1>5. ASSUME run'.at \in {"ready", "calling", "answered", "tools", "stopped", "leaving"},
             run'.id = run.id, run.at # "none", UNCHANGED over,
             run'.at = "leaving" => ~run'.tools,
             run'.at = "stopped" => run'.end # "completed",
             \A r \in Runs : Emptied(r) => Emptied(r)'
      PROVE  RunInv'
  BY <1>2, <1>5 DEF RunInv, Emptied
<1>6. CASE Prompt \/ Resume
  BY <1>4, <1>6 DEF Prompt, Resume
<1>7. CASE Cancel
  BY <1>1, <1>2, <1>7 DEF Cancel, RunInv, Emptied
<1>8. CASE Admit
  <2>1. run'.at \in {"tools", "ready"} /\ run'.id = run.id /\ run.at # "none" /\ UNCHANGED <<over, buffer>>
    BY <1>1, <1>8 DEF Admit
  <2>2. QED
    BY <1>5, <2>1 DEF Emptied
<1>9. CASE Refuse
  <2>1. /\ run'.at = "closing" /\ run'.id = run.id /\ run.at # "none"
        /\ run'.end # "completed" /\ UNCHANGED over
    BY <1>1, <1>9 DEF Refuse
  <2>2. \A r \in Runs : Emptied(r) => Emptied(r)'
    BY <1>1, <1>9 DEF Refuse, Emptied
  <2>3. QED
    BY <1>2, <2>1, <2>2 DEF RunInv, Emptied
<1>10. CASE CallModel
  <2>1. run'.at = "calling" /\ run'.id = run.id /\ run.at # "none" /\ UNCHANGED over
    BY <1>1, <1>10 DEF CallModel
  <2>2. \A r \in Runs : Emptied(r) => Emptied(r)'
    BY <1>1, <1>10 DEF CallModel, Emptied
  <2>3. QED
    BY <1>5, <2>1, <2>2
<1>11. CASE Answer
  <2>1. run'.at = "answered" /\ run'.id = run.id /\ run.at # "none" /\ UNCHANGED <<over, buffer>>
    BY <1>1, <1>11 DEF Answer
  <2>2. QED
    BY <1>5, <2>1 DEF Emptied
<1>12. CASE AfterModel
  <2>1. /\ run'.at \in {"ready", "tools", "leaving"} /\ run'.id = run.id /\ run.at # "none"
        /\ UNCHANGED <<over, buffer>>
        /\ run'.at = "leaving" => ~run'.tools
    BY <1>1, <1>12 DEF AfterModel
  <2>2. QED
    BY <1>5, <2>1 DEF Emptied
<1>13. CASE ToolsEnd
  <2>1. /\ run'.at \in {"ready", "stopped"} /\ run'.id = run.id /\ run.at # "none"
        /\ UNCHANGED <<over, buffer>>
        /\ run'.at = "stopped" => run'.end # "completed"
    BY <1>1, <1>13 DEF ToolsEnd
  <2>2. QED
    BY <1>5, <2>1 DEF Emptied
<1>14. CASE AfterAgent
  <2>1. CASE ContinuesForSteers
    <3>1. run'.at = "ready" /\ run'.id = run.id /\ run.at # "none" /\ UNCHANGED <<over, buffer>>
      BY <1>1, <1>14, <2>1 DEF AfterAgent
    <3>2. QED
      BY <1>5, <3>1 DEF Emptied
  <2>2. CASE ~ContinuesForSteers
    <3>1. run'.at = "committed" /\ run'.id = run.id /\ run.id \in Runs /\ UNCHANGED over
      BY <1>1, <1>2, <1>14, <2>2 DEF AfterAgent
    <3>2. buffer[run.id].pending = <<>>
      BY <1>2, <1>14, <2>2 DEF AfterAgent, ContinuesForSteers
    <3>3. buffer' = [buffer EXCEPT ![run.id].accepting = FALSE]
      BY <1>14, <2>2 DEF AfterAgent
    <3>4. Emptied(run.id)' /\ \A r \in Runs : Emptied(r) => Emptied(r)'
      BY <1>1, <3>1, <3>2, <3>3 DEF Emptied
    <3>5. QED
      BY <1>2, <3>1, <3>4 DEF RunInv, Emptied
  <2>3. QED
    BY <2>1, <2>2
<1>15. CASE GraphStops
  <2>1. /\ run'.at = "stopped" /\ run'.id = run.id /\ run.at # "none"
        /\ UNCHANGED <<over, buffer>> /\ run'.end # "completed"
    BY <1>1, <1>15 DEF GraphStops
  <2>2. QED
    BY <1>5, <2>1 DEF Emptied
<1>16. CASE Return
  <2>1. /\ run'.at = "closing" /\ run'.id = run.id /\ run.id \in Runs /\ UNCHANGED over
        /\ run.at = "stopped" => run'.end # "completed"
        /\ run.at = "stopped" \/ run.at = "committed"
    BY <1>1, <1>2, <1>16 DEF Return
  <2>2. \A r \in Runs : Emptied(r) => Emptied(r)'
    BY <1>1, <1>16 DEF Return, Emptied
  <2>3. QED
    BY <1>2, <2>1, <2>2 DEF RunInv, Emptied
<1>17. CASE Leave
  <2>1. run'.at = "none" /\ UNCHANGED buffer
    BY <1>17 DEF Leave, Stopped
  <2>2. \A r \in Runs : over'[r] = "completed" => Emptied(r)
    BY <1>1, <1>2, <1>17 DEF Leave, Emptied
  <2>3. QED
    BY <2>1, <2>2 DEF RunInv, Emptied
\* A call takes nothing away from an operation.
<1>18. ASSUME UNCHANGED over, \A r \in Runs : Emptied(r) => Emptied(r)',
              run' = run \/ run' = [run EXCEPT !.aborted = TRUE]
       PROVE  RunInv'
  <2>1. run'.at = run.at /\ run'.id = run.id /\ run'.tools = run.tools /\ run'.end = run.end
    BY <1>1, <1>18
  <2>2. QED
    BY <1>2, <1>18, <2>1 DEF RunInv, Emptied
<1>19. ASSUME NEW a \in Callers, NEW m \in Msgs, NEW x \in 0..MaxRuns,
              Steer(a, m, x) \/ Send(a, m, x)
       PROVE  RunInv'
  BY <1>3, <1>4, <1>19 DEF Steer, Send
<1>20. ASSUME NEW a \in Callers, JobSteps(a)
       PROVE  RunInv'
  <2>1. CASE SteerReads(a) \/ Accepted(a) \/ SteerEnds(a)
    BY <1>3, <2>1 DEF SteerReads, Accepted, SteerEnds
  <2>3. CASE Saved(a)
    <3>1. /\ UNCHANGED over
          /\ run' = run \/ run' = [run EXCEPT !.aborted = TRUE]
      BY <2>3 DEF Saved, AbortSeenRun
    <3>2. \A r \in Runs : Emptied(r) => Emptied(r)'
      BY <1>1, <2>3 DEF Saved, Emptied
    <3>3. QED
      BY <1>18, <3>1, <3>2
  <2>4. CASE SaveFails(a)
    BY <1>18, <2>4 DEF SaveFails, AbortSeenRun, Emptied
  <2>5. QED
    BY <1>20, <2>1, <2>3, <2>4 DEF JobSteps
<1>21. ASSUME NEW w \in Windows, DrainStarts(w) \/ DrainSteps(w)
       PROVE  RunInv'
  <2>1. CASE DrainInvokes(w)
    BY <1>4, <2>1 DEF DrainInvokes
  <2>2. CASE ~DrainInvokes(w)
    BY <1>3, <1>21, <2>2
       DEF DrainStarts, DrainSteps, TakeFollowUp, DrainGivesUp, Restore, DrainRequeues
  <2>3. QED
    BY <2>1, <2>2
<1>22. ASSUME NEW m \in Msgs, Enqueue(m) \/ Edit(m) \/ Delete(m)
       PROVE  RunInv'
  BY <1>3, <1>22 DEF Enqueue, Edit, Delete
<1>23. CASE Project \/ UNCHANGED vars
  BY <1>3, <1>23 DEF Project, vars
<1>24. CASE Graph
  BY <1>8, <1>9, <1>10, <1>11, <1>12, <1>13, <1>14, <1>15, <1>16, <1>17, <1>24 DEF Graph
<1>25. QED
  BY <1>6, <1>7, <1>19, <1>21, <1>22, <1>23, <1>24, <1>20, Steps

-----------------------------------------------------------------------------
(* The calls, and the tasks and operations they wait for *)

LEMMA TasksAre ==
  ASSUME TypeOK
  PROVE  \A i \in DOMAIN projections :
           projections[i] \in Tasks /\ projections[i].by \in Actors \cup {Nobody}
<1>1. \A i \in DOMAIN projections : projections[i] \in Tasks
  BY DEF TypeOK
<1>2. QED
  BY <1>1 DEF Tasks

\* A call moves that waits neither for a task nor for an operation.
LEMMA CallMoves ==
  ASSUME TypeOK, JobInv, ProjectionInv,
         NEW a \in Actors, job[a].at \notin {"projecting", "starting"},
         NEW j, job' = [job EXCEPT ![a] = j],
         j.at # "idle" => j.msg \in Msgs,
         j.at \in {"accepted", "projecting", "removing"} => j.msg \in saved',
         saved \subseteq saved',
         \/ run'.by = run.by /\ run'.at = run.at
         \/ run'.by = a /\ run'.at = "setup" /\ j.at = "starting"
         \/ run'.by = Nobody,
         UNCHANGED projections
  PROVE  JobInv' /\ ProjectionInv'
<1>1. /\ job \in [Actors -> Jobs]
      /\ run.by \in Actors \cup {Nobody}
      /\ \A i \in DOMAIN projections : projections[i].by \in Actors \cup {Nobody}
  BY TasksAre DEF TypeOK, Operations
<1>2. job'[a] = j /\ \A b \in Actors \ {a} : job'[b] = job[b]
  BY <1>1
<1>3. JobInv'
  <2>1. run'.by # Nobody => run'.at = "setup" /\ job'[run'.by].at = "starting"
    BY <1>1, <1>2 DEF JobInv
  <2>2. QED
    BY <1>2, <2>1 DEF JobInv
<1>4. ProjectionInv'
  <2>1. \A i \in DOMAIN projections : projections[i].by # a
    BY ConstantsAssumption DEF ProjectionInv, Actors
  <2>2. QED
    BY <1>1, <1>2, <2>1 DEF ProjectionInv
<1>5. QED
  BY <1>3, <1>4

LEMMA JobStep ==
  ASSUME TypeOK, RunInv, JobInv, ProjectionInv, [Next]_vars
  PROVE  JobInv' /\ ProjectionInv'
<1>1. /\ job \in [Actors -> Jobs]
      /\ run \in Operations /\ run.by \in Actors \cup {Nobody}
      /\ projections \in Seq(Tasks)
      /\ queue \in Seq(Msgs)
      /\ run.by # Nobody => run.at = "setup" /\ job[run.by].at = "starting"
      /\ \A a \in Actors : job[a].at # "idle" => job[a].msg \in Msgs
  BY DEF TypeOK, Operations, JobInv
<1>2. ASSUME UNCHANGED <<job, projections>>, saved' = saved,
             run'.by = Nobody \/ (run'.by = run.by /\ run'.at = run.at)
      PROVE  JobInv' /\ ProjectionInv'
  BY <1>2 DEF JobInv, ProjectionInv
<1>3. ASSUME NEW p, run.at # "setup", run' = [run EXCEPT !.at = p]
      PROVE  run'.by = Nobody
  BY <1>1, <1>3 DEF Operations
<1>4. \A y : Started(y).by = y /\ Started(y).at = "setup"
  BY DEF Started, Stopped
<1>5. CASE Prompt \/ Resume
  <2>1. run'.by = Nobody
    BY <1>4, <1>5 DEF Prompt, Resume, Started, Stopped
  <2>2. QED
    BY <1>2, <1>5, <2>1 DEF Prompt, Resume
<1>6. CASE Cancel
  <2>1. run'.by = run.by /\ run'.at = run.at
    BY <1>1, <1>6 DEF Operations, Cancel
  <2>2. QED
    BY <1>2, <1>6, <2>1 DEF Cancel
<1>7. CASE Admit \/ Refuse
  <2>1. run'.by = Nobody /\ UNCHANGED <<saved, projections>>
    BY <1>1, <1>7 DEF Operations, Admit, Refuse
  <2>2. CASE run.by = Nobody
    <3>1. UNCHANGED job
      BY <1>7, <2>2 DEF Admit, Refuse
    <3>2. QED
      BY <1>2, <2>1, <3>1
  <2>3. CASE run.by # Nobody
    <3>1. run.by \in Actors /\ job[run.by].at = "starting" /\ job[run.by].msg \in Msgs
      BY <1>1, <2>3
    <3>2. PICK j : /\ job' = [job EXCEPT ![run.by] = j]
                   /\ j.at \in {"idle", "restoring"} /\ (j.at = "restoring" => j.msg \in Msgs)
      <4>1. CASE job' = [job EXCEPT ![run.by] = NoCall]
        BY <4>1, IdleIs
      <4>2. CASE job' = [job EXCEPT ![run.by].at = "restoring"]
        <5>1. job[run.by] \in Jobs
          BY <1>1, <3>1
        <5>2. /\ [job[run.by] EXCEPT !.at = "restoring"].at = "restoring"
              /\ [job[run.by] EXCEPT !.at = "restoring"].msg \in Msgs
          BY <3>1, <5>1 DEF Jobs
        <5>3. QED
          BY <4>2, <5>2
      <4>3. QED
        BY <1>7, <2>3, <4>1, <4>2 DEF Admit, Refuse
    <3>3. job'[run.by] = j /\ \A b \in Actors \ {run.by} : job'[b] = job[b]
      BY <1>1, <3>1, <3>2
    <3>4. JobInv'
      BY <2>1, <3>2, <3>3 DEF JobInv
    <3>5. \A i \in DOMAIN projections : projections[i].by # run.by
      BY <2>3, <3>1 DEF ProjectionInv
    <3>6. \A i \in DOMAIN projections : projections[i].by \in Actors \cup {Nobody}
      BY TasksAre
    <3>7. ProjectionInv'
      BY <2>1, <3>3, <3>5, <3>6 DEF ProjectionInv
    <3>8. QED
      BY <3>4, <3>7
  <2>4. QED
    BY <2>2, <2>3
<1>8. CASE CallModel
  <2>1. run'.by = Nobody
    BY <1>3, <1>8 DEF CallModel
  <2>2. UNCHANGED <<job, saved>>
    BY <1>8 DEF CallModel
  <2>3. JobInv'
    BY <2>1, <2>2 DEF JobInv
  <2>4. PICK task : task.by = Nobody /\ projections' \in {projections, Append(projections, task)}
    <3>1. ASSUME NEW msgs
          PROVE  [to |-> "applied", msgs |-> msgs, by |-> Nobody].by = Nobody
      OBVIOUS
    <3>2. PICK msgs : projections' \in
            {projections, Append(projections, [to |-> "applied", msgs |-> msgs, by |-> Nobody])}
      BY <1>8 DEF CallModel
    <3>3. QED
      BY <3>1, <3>2
  <2>5. CASE projections' = projections
    BY <2>2, <2>3, <2>5 DEF ProjectionInv
  <2>6. CASE projections' = Append(projections, task)
    <3>1. /\ DOMAIN projections' = 1..(Len(projections) + 1) /\ DOMAIN projections = 1..Len(projections)
          /\ projections'[Len(projections) + 1] = task
          /\ \A i \in 1..Len(projections) : projections'[i] = projections[i]
      BY <1>1, <2>6
    <3>2. ProjectionInv'
      BY <2>2, <2>4, <3>1 DEF ProjectionInv
    <3>3. QED
      BY <2>3, <3>2
  <2>7. QED
    BY <2>4, <2>5, <2>6
<1>9. CASE Answer \/ AfterModel \/ ToolsEnd \/ AfterAgent \/ GraphStops \/ Return \/ Leave
  <2>1. run'.by = Nobody
    <3>1. run.by = Nobody
      BY <1>1, <1>9 DEF Answer, AfterModel, ToolsEnd, AfterAgent, GraphStops, Return, Leave
    <3>2. CASE Leave
      BY <3>2 DEF Leave, Stopped
    <3>3. CASE ~Leave
      BY <1>1, <1>9, <3>1, <3>3
         DEF Operations, Answer, AfterModel, ToolsEnd, AfterAgent, GraphStops, Return
    <3>4. QED
      BY <3>2, <3>3
  <2>2. UNCHANGED <<job, saved, projections>>
    BY <1>9 DEF Answer, AfterModel, ToolsEnd, AfterAgent, GraphStops, Return, Leave
  <2>3. QED
    BY <1>2, <2>1, <2>2
<1>10. CASE Project
  <2> DEFINE task == Head(projections)
  <2>1. /\ projections # <<>> /\ projections' = Tail(projections)
        /\ task = projections[1] /\ 1 \in DOMAIN projections
        /\ task \in Tasks
        /\ DOMAIN projections = 1..Len(projections)
        /\ DOMAIN projections' = 1..(Len(projections) - 1)
        /\ \A i \in 1..(Len(projections) - 1) : projections'[i] = projections[i + 1]
    BY <1>1, <1>10 DEF Project
  <2>2. /\ UNCHANGED <<run, saved>>
        /\ job' = IF task.by = Nobody THEN job ELSE [job EXCEPT ![task.by].at = "removing"]
    BY <1>10 DEF Project
  <2> HIDE DEF task
  <2>3. CASE task.by = Nobody
    <3>1. UNCHANGED job
      BY <2>2, <2>3
    <3>2. JobInv'
      BY <2>2, <3>1 DEF JobInv
    <3>3. ProjectionInv'
      BY <2>1, <3>1 DEF ProjectionInv
    <3>4. QED
      BY <3>2, <3>3
  <2>4. CASE task.by # Nobody
    <3>1. task.by \in Actors /\ job[task.by].at = "projecting"
      BY <2>1, <2>4 DEF ProjectionInv, Tasks
    <3>2. job[task.by].msg \in Msgs /\ job[task.by].msg \in saved
      BY <3>1 DEF JobInv
    <3>3. /\ \A b \in Actors \ {task.by} : job'[b] = job[b]
          /\ job'[task.by] = [job[task.by] EXCEPT !.at = "removing"]
      BY <1>1, <2>2, <2>4, <3>1
    <3>4. job'[task.by].at = "removing" /\ job'[task.by].msg = job[task.by].msg
      BY <1>1, <3>1, <3>3 DEF Jobs
    <3>5. JobInv'
      BY <2>2, <3>1, <3>2, <3>3, <3>4 DEF JobInv
    <3>6. \A i \in 2..Len(projections) :
            projections[i].by # task.by /\ projections[i].by \in Actors \cup {Nobody}
      BY <2>1, <2>4, TasksAre DEF ProjectionInv
    <3>7. ProjectionInv'
      <4>1. ASSUME NEW i \in DOMAIN projections', projections'[i].by # Nobody
            PROVE  job'[projections'[i].by].at = "projecting"
        BY <2>1, <3>3, <3>6, <4>1 DEF ProjectionInv
      <4>2. ASSUME NEW i \in DOMAIN projections', NEW k \in DOMAIN projections',
                   projections'[i].by = projections'[k].by
            PROVE  i = k \/ projections'[i].by = Nobody
        <5>1. i + 1 \in DOMAIN projections /\ k + 1 \in DOMAIN projections
          BY <2>1
        <5>2. i + 1 = k + 1 \/ projections[i + 1].by = Nobody
          BY <2>1, <4>2, <5>1 DEF ProjectionInv
        <5>3. QED
          BY <2>1, <5>2
      <4>3. QED
        BY <4>1, <4>2 DEF ProjectionInv
    <3>8. QED
      BY <3>5, <3>7
  <2>5. QED
    BY <2>3, <2>4
<1>11. ASSUME NEW a \in Actors, NEW m \in Msgs, NEW x \in 0..MaxRuns,
              Steer(a, m, x) \/ Send(a, m, x)
       PROVE  JobInv' /\ ProjectionInv'
  <2>1. CASE UNCHANGED job /\ Send(a, m, x)
    <3>1. UNCHANGED <<run, saved, projections>>
      <4>1. ASSUME NEW j, job' = [job EXCEPT ![a] = j]
            PROVE  j = NoCall
        BY <1>1, <2>1, <4>1 DEF Send
      <4>2. /\ \A k : Saving("send", k) # NoCall
            /\ [[NoCall EXCEPT !.kind = "send", !.msg = m] EXCEPT !.at = "starting"] # NoCall
        BY DEF Saving, NoCall
      <4>3. QED
        BY <2>1, <4>1, <4>2 DEF Send
    <3>2. QED
      BY <1>2, <2>1, <3>1
  <2>2. CASE ~(UNCHANGED job /\ Send(a, m, x))
    <3>1. job[a].at = "idle"
      BY <1>11 DEF Steer, Send, NoCall
    <3>2. UNCHANGED <<saved, projections>>
      BY <1>11 DEF Steer, Send
    <3>3. PICK j : /\ job' = [job EXCEPT ![a] = j] /\ j.msg = m
                   /\ j.at \in {"reading", "saving", "starting"}
                   /\ \/ run' = run
                      \/ run'.by = a /\ run'.at = "setup" /\ j.at = "starting"
      <4>1. CASE Steer(a, m, x)
        <5> DEFINE j == [NoCall EXCEPT !.kind = "steer", !.at = "reading", !.msg = m, !.expects = x]
        <5>1. j.msg = m /\ j.at = "reading"
          BY DEF NoCall
        <5>2. job' = [job EXCEPT ![a] = j] /\ run' = run
          BY <4>1 DEF Steer
        <5>3. QED
          BY <5>1, <5>2
      <4>2. CASE Send(a, m, x)
        <5> DEFINE j == [[NoCall EXCEPT !.kind = "send", !.msg = m] EXCEPT !.at = "starting"]
        <5>1. /\ j.msg = m /\ j.at = "starting"
              /\ Saving("send", m).msg = m /\ Saving("send", m).at = "saving"
          BY DEF NoCall, Saving
        <5>2. \/ job' = [job EXCEPT ![a] = Saving("send", m)] /\ run' = run
              \/ job' = [job EXCEPT ![a] = j] /\ run' = Started(a)
          BY <2>2, <4>2 DEF Send
        <5>3. QED
          BY <1>4, <5>1, <5>2
      <4>3. QED
        BY <1>11, <4>1, <4>2
    <3>4. QED
      BY <3>1, <3>2, <3>3, CallMoves
  <2>3. QED
    BY <2>1, <2>2
<1>12. ASSUME NEW a \in Actors, JobSteps(a)
       PROVE  JobInv' /\ ProjectionInv'
  <2>1. CASE Accepted(a)
    <3>1. /\ UNCHANGED <<run, saved>> /\ job[a].msg \in saved /\ job[a].msg \in Msgs
          /\ job[a].at = "accepted" /\ job[a] \in Jobs
      BY <1>1, <2>1 DEF Accepted, JobInv
    <3> DEFINE waits == job[a].kind = "steer"
               j == IF waits THEN [job[a] EXCEPT !.at = "projecting"] ELSE NoCall
               task == [to |-> "pending", msgs |-> {job[a].msg}, by |-> IF waits THEN a ELSE Nobody]
    <3>2. /\ projections' = Append(projections, task) /\ job' = [job EXCEPT ![a] = j]
          /\ \/ task.by = Nobody /\ j.at = "idle"
             \/ task.by = a /\ j.at = "projecting" /\ j.msg = job[a].msg
      <4>1. projections' = Append(projections, task) /\ job' = [job EXCEPT ![a] = j]
        BY <2>1 DEF Accepted
      <4>2. CASE waits
        BY <3>1, <4>1, <4>2 DEF Jobs
      <4>3. CASE ~waits
        BY <4>1, <4>3, IdleIs
      <4>4. QED
        BY <4>2, <4>3
    <3> HIDE DEF task, j
    <3>3. /\ DOMAIN projections' = 1..(Len(projections) + 1) /\ DOMAIN projections = 1..Len(projections)
          /\ projections'[Len(projections) + 1] = task
          /\ \A i \in 1..Len(projections) : projections'[i] = projections[i]
      BY <1>1, <3>2
    <3>4. job'[a] = j /\ \A b \in Actors \ {a} : job'[b] = job[b]
      BY <1>1, <3>2
    <3>5. a # Nobody
      BY ConstantsAssumption DEF Actors
    <3>6. \A i \in DOMAIN projections :
            projections[i].by # a /\ projections[i].by \in Actors \cup {Nobody}
      BY <3>1, <3>5, TasksAre DEF ProjectionInv
    <3>7. JobInv'
      <4>1. run.by # a
        BY <1>1, <3>1, <3>5
      <4>2. QED
        BY <1>1, <3>1, <3>2, <3>4, <4>1 DEF JobInv
    <3>8. ProjectionInv'
      <4>1. ASSUME NEW i \in DOMAIN projections', projections'[i].by # Nobody
            PROVE  job'[projections'[i].by].at = "projecting"
        BY <3>2, <3>3, <3>4, <3>6, <4>1 DEF ProjectionInv
      <4>2. ASSUME NEW i \in DOMAIN projections', NEW k \in DOMAIN projections',
                   projections'[i].by = projections'[k].by
            PROVE  i = k \/ projections'[i].by = Nobody
        BY <3>2, <3>3, <3>6, <4>2 DEF ProjectionInv
      <4>3. QED
        BY <4>1, <4>2 DEF ProjectionInv
    <3>9. QED
      BY <3>7, <3>8
  <2>2. CASE SteerReads(a) \/ Saved(a) \/ SaveFails(a) \/ SteerEnds(a)
    <3>1. /\ job[a].at \in {"reading", "saving", "removing"} /\ job[a] \in Jobs
          /\ job[a].msg \in Msgs /\ saved \subseteq saved' /\ UNCHANGED projections
      BY <1>1, <2>2 DEF SteerReads, Saved, SaveFails, SteerEnds
    <3>2. run'.by = run.by /\ run'.at = run.at
      BY <1>1, <2>2 DEF SteerReads, Saved, SaveFails, SteerEnds, AbortSeenRun, Operations
    <3>3. PICK j : /\ job' = [job EXCEPT ![a] = j]
                   /\ \/ j.at = "idle"
                      \/ j.at = "saving" /\ j.msg = job[a].msg
                      \/ j.at = "accepted" /\ j.msg = job[a].msg /\ job[a].msg \in saved'
      <4>1. CASE job' = [job EXCEPT ![a] = NoCall]
        BY <4>1, IdleIs
      <4>2. CASE job' = [job EXCEPT ![a] = Saving("steer", job[a].msg)]
        <5>1. /\ Saving("steer", job[a].msg).at = "saving"
              /\ Saving("steer", job[a].msg).msg = job[a].msg
          BY DEF Saving
        <5>2. QED
          BY <4>2, <5>1
      <4>3. CASE Saved(a) /\ job' # [job EXCEPT ![a] = NoCall]
        <5>1. /\ [job[a] EXCEPT !.at = "accepted", !.run = NoRun].at = "accepted"
              /\ [job[a] EXCEPT !.at = "accepted", !.run = NoRun].msg = job[a].msg
          BY <3>1 DEF Jobs
        <5>2. /\ job' = [job EXCEPT ![a] = [job[a] EXCEPT !.at = "accepted", !.run = NoRun]]
              /\ job[a].msg \in saved'
          BY <4>3 DEF Saved, AbortSeenRun
        <5>3. QED
          BY <5>1, <5>2
      <4>4. QED
        BY <2>2, <4>1, <4>2, <4>3 DEF SteerReads, Saved, SaveFails, SteerEnds, AbortSeenRun
    <3>4. QED
      BY <3>1, <3>2, <3>3, CallMoves
  <2>3. QED
    BY <1>12, <2>1, <2>2 DEF JobSteps
<1>13. ASSUME NEW w \in Actors, DrainStarts(w) \/ DrainSteps(w)
       PROVE  JobInv' /\ ProjectionInv'
  <2>1. /\ job[w].at \in {"idle", "taking", "holding", "restoring"} /\ job[w] \in Jobs
        /\ job[w].at # "idle" => job[w].msg \in Msgs
        /\ UNCHANGED <<saved, projections>>
    BY <1>1, <1>13 DEF DrainStarts, DrainSteps, TakeFollowUp, DrainInvokes, DrainGivesUp, Restore,
         DrainRequeues, NoCall
  <2>2. PICK j : /\ job' = [job EXCEPT ![w] = j]
                 /\ \/ j.at = "idle"
                    \/ j.at \in {"taking", "holding", "starting", "restoring"} /\ j.msg \in Msgs
                 /\ \/ run' = run
                    \/ run'.by = w /\ run'.at = "setup" /\ j.at = "starting"
    <3>1. CASE job' = [job EXCEPT ![w] = NoCall] /\ run' = run
      BY <3>1, IdleIs
    <3>2. CASE DrainStarts(w)
      <4>1. Head(queue) \in Msgs
        BY <1>1, <3>2 DEF DrainStarts
      <4>2. QED
        BY <3>2, <4>1 DEF DrainStarts, NoCall
    <3>3. ASSUME NEW s \in {"holding", "starting", "restoring"},
                 job' = [job EXCEPT ![w].at = s], job[w].at # "idle"
          PROVE  \E j : /\ job' = [job EXCEPT ![w] = j] /\ j.at = s /\ j.msg \in Msgs
      <4>1. /\ [job[w] EXCEPT !.at = s].at = s
            /\ [job[w] EXCEPT !.at = s].msg \in Msgs
        BY <2>1, <3>3 DEF Jobs
      <4>2. job' = [job EXCEPT ![w] = [job[w] EXCEPT !.at = s]]
        BY <3>3
      <4>3. QED
        BY <4>1, <4>2
    <3>4. CASE TakeFollowUp(w) \/ DrainGivesUp(w)
      BY <3>1, <3>3, <3>4 DEF TakeFollowUp, DrainGivesUp
    <3>5. CASE DrainInvokes(w)
      BY <1>4, <3>3, <3>5 DEF DrainInvokes
    <3>6. QED
      BY <1>13, <3>1, <3>2, <3>4, <3>5 DEF DrainSteps, Restore, DrainRequeues
  <2>3. QED
    BY <2>1, <2>2, CallMoves
<1>14. CASE UNCHANGED <<job, run, saved, projections>>
  BY <1>2, <1>14
<1>15. CASE Graph
  BY <1>7, <1>8, <1>9, <1>15 DEF Graph
<1>16. ASSUME NEW m \in Msgs, Enqueue(m) \/ Edit(m) \/ Delete(m)
       PROVE  JobInv' /\ ProjectionInv'
  BY <1>14, <1>16 DEF Enqueue, Edit, Delete
<1>17. QED
  BY <1>5, <1>6, <1>10, <1>11, <1>12, <1>13, <1>14, <1>15, <1>16, Steps DEF Actors, vars

-----------------------------------------------------------------------------
(* What operations accept, what their models hear, and what is shown of it *)

\* Most steps tell nobody anything, and take nothing from a buffer.
LEMMA NothingHeard ==
  ASSUME TypeOK, BufferInv, MarkInv, UNCHANGED <<told, saved, mark, projections>>,
         recoveryRequired => recoveryRequired',
         \A r \in Runs : buffer'[r].pending = buffer[r].pending
  PROVE  BufferInv' /\ MarkInv'
<1>1. BufferInv'
  BY DEF BufferInv, HeardByTheRunItWasMeantFor, SavedIsTaken, EverSteered, PendingIn
<1>2. MarkInv'
  BY DEF MarkInv, EverSteered
<1>3. QED
  BY <1>1, <1>2

LEMMA HeardOfAdmit ==
  ASSUME TypeOK, RunInv, JobInv, BufferInv, MarkInv, Admit
  PROVE  BufferInv' /\ MarkInv'
<1>1. UNCHANGED <<buffer, recoveryRequired, saved, mark, projections>> /\ run.id \in Runs
  BY DEF Admit, RunInv
<1>2. CASE run.by = Nobody
  <2>1. UNCHANGED told
    BY <1>2 DEF Admit
  <2>2. QED
    BY <1>1, <2>1, NothingHeard
<1>3. CASE run.by # Nobody
  <2> DEFINE prompt == [meant |-> run.id, run |-> run.id, how |-> "prompt"]
             n == job[run.by].msg
  <2>1. n \in Msgs
    BY <1>3 DEF TypeOK, Operations, JobInv
  <2>2. told' = [told EXCEPT ![n] = @ \cup {prompt}]
    BY <1>3 DEF Admit
  <2>3. prompt.meant = prompt.run /\ prompt.how # "steer"
    OBVIOUS
  <2> HIDE DEF prompt, n
  <2>4. \A m \in Msgs : told'[m] = told[m] \/ told'[m] = told[m] \cup {prompt}
    BY <2>1, <2>2 DEF TypeOK
  <2>5. \A m \in Msgs : EverSteered(m)' <=> EverSteered(m)
    BY <2>3, <2>4 DEF EverSteered
  <2>6. HeardByTheRunItWasMeantFor'
    BY <2>3, <2>4 DEF BufferInv, HeardByTheRunItWasMeantFor
  <2>7. BufferInv'
    BY <1>1, <2>5, <2>6 DEF BufferInv, SavedIsTaken, PendingIn, TypeOK
  <2>8. MarkInv'
    <3>1. \A i \in DOMAIN projections : projections[i].msgs \subseteq Msgs
      BY TasksAre DEF Tasks
    <3>2. QED
      BY <1>1, <2>5, <3>1 DEF MarkInv
  <2>9. QED
    BY <2>7, <2>8
<1>4. QED
  BY <1>2, <1>3

LEMMA HeardOfCallModel ==
  ASSUME TypeOK, RunInv, BufferInv, MarkInv, CallModel
  PROVE  BufferInv' /\ MarkInv'
<1> DEFINE r == run.id
           drained == Range(buffer[r].pending)
           heard == {e.msg : e \in drained}
           Steered(e) == [meant |-> e.meant, run |-> r, how |-> "steer"]
<1>1. r \in Runs /\ UNCHANGED <<recoveryRequired, saved, mark>>
  BY DEF CallModel, RunInv
<1>2. /\ buffer' = [buffer EXCEPT ![r].pending = <<>>]
      /\ told' = [m \in Msgs |-> told[m] \cup {Steered(e) : e \in {e \in drained : e.msg = m}}]
      /\ projections' = IF heard = {} THEN projections
                        ELSE Append(projections, [to |-> "applied", msgs |-> heard, by |-> Nobody])
  BY DEF CallModel
<1>3. buffer[r].pending \in Seq(Entries) /\ drained \subseteq Entries
  <2>1. buffer[r].pending \in Seq(Entries)
    BY <1>1 DEF TypeOK
  <2>2. QED
    BY <2>1 DEF Range
<1>4. \A e \in drained : e.meant = r
  BY <1>1 DEF BufferInv
<1>5. heard \subseteq Msgs
  BY <1>3 DEF Entries
<1>6. \A e : Steered(e).meant = e.meant /\ Steered(e).run = r /\ Steered(e).how = "steer"
  OBVIOUS
<1> HIDE DEF Steered
<1>7. \A m \in Msgs : EverSteered(m)' <=> EverSteered(m) \/ m \in heard
  <2>1. SUFFICES ASSUME NEW m \in Msgs
                 PROVE  EverSteered(m)' <=> EverSteered(m) \/ m \in heard
    OBVIOUS
  <2>2. told'[m] = told[m] \cup {Steered(e) : e \in {e \in drained : e.msg = m}}
    BY <1>2
  <2>3. QED
    BY <1>6, <2>2 DEF EverSteered
<1>8. HeardByTheRunItWasMeantFor'
  <2>1. SUFFICES ASSUME NEW m \in Msgs, NEW t \in told'[m]
                 PROVE  t.meant = t.run
    BY DEF HeardByTheRunItWasMeantFor
  <2>2. CASE t \in told[m]
    BY <2>2 DEF BufferInv, HeardByTheRunItWasMeantFor
  <2>3. CASE t \notin told[m]
    <3>1. PICK e \in drained : t = Steered(e)
      BY <1>2, <2>1, <2>3
    <3>2. QED
      BY <1>4, <1>6, <3>1
  <2>4. QED
    BY <2>2, <2>3
<1> HIDE DEF drained, heard
<1>9. /\ buffer'[r].pending = <<>>
      /\ \A q \in Runs \ {r} : buffer'[q] = buffer[q]
  <2>1. buffer'[r] = [buffer[r] EXCEPT !.pending = <<>>]
    BY <1>1, <1>2 DEF TypeOK
  <2>2. buffer[r] \in [accepting : BOOLEAN, pending : Seq(Entries)]
    BY <1>1 DEF TypeOK
  <2>3. buffer'[r].pending = <<>>
    BY <2>1, <2>2
  <2>4. QED
    BY <1>1, <1>2, <2>3 DEF TypeOK
<1>10. BufferInv'
  <2>1. \A q \in Runs : \A e \in Range(buffer'[q].pending) : e.meant = q
    <3>1. Range(<<>>) = {}
      BY DEF Range
    <3>2. QED
      BY <1>9, <3>1 DEF BufferInv
  <2>2. SavedIsTaken'
    <3>1. SUFFICES ASSUME NEW m \in saved, ~recoveryRequired, ~EverSteered(m)'
                   PROVE  \E q \in Runs : m \in PendingIn(q)'
      BY <1>1 DEF SavedIsTaken
    <3>2. m \in Msgs
      BY DEF TypeOK
    <3>3. PICK q \in Runs : m \in PendingIn(q)
      BY <1>7, <3>1, <3>2 DEF BufferInv, SavedIsTaken
    <3>4. q # r
      <4>1. SUFFICES ASSUME q = r
                     PROVE  m \in heard
        BY <1>7, <3>1, <3>2
      <4>2. QED
        BY <3>3, <4>1 DEF PendingIn, heard, drained
    <3>5. QED
      BY <1>9, <3>3, <3>4 DEF PendingIn
  <2>3. QED
    BY <1>8, <2>1, <2>2 DEF BufferInv
<1>11. MarkInv'
  <2>1. \A i \in DOMAIN projections : projections[i].msgs \subseteq Msgs
    BY TasksAre DEF Tasks
  <2>2. CASE heard = {}
    BY <1>1, <1>2, <1>7, <2>1, <2>2 DEF MarkInv
  <2>3. CASE heard # {}
    <3> DEFINE task == [to |-> "applied", msgs |-> heard, by |-> Nobody]
    <3>1. projections' = Append(projections, task)
      BY <1>2, <2>3
    <3>2. task.to = "applied" /\ task.msgs = heard
      OBVIOUS
    <3> HIDE DEF task
    <3>3. /\ DOMAIN projections' = 1..(Len(projections) + 1) /\ DOMAIN projections = 1..Len(projections)
          /\ projections'[Len(projections) + 1] = task
          /\ Len(projections) + 1 \in DOMAIN projections'
          /\ \A i \in 1..Len(projections) : projections'[i] = projections[i] /\ i \in DOMAIN projections'
      BY <3>1 DEF TypeOK
    <3>4. ASSUME NEW i \in DOMAIN projections', projections'[i].to = "applied",
                 NEW m \in projections'[i].msgs
          PROVE  EverSteered(m)'
      <4>1. CASE i \in DOMAIN projections
        BY <1>7, <2>1, <3>3, <3>4, <4>1 DEF MarkInv
      <4>2. CASE i \notin DOMAIN projections
        BY <1>5, <1>7, <3>2, <3>3, <3>4, <4>2
      <4>3. QED
        BY <4>1, <4>2
    <3>5. \A m \in Msgs : mark'[m] = "applied" => EverSteered(m)'
      BY <1>1, <1>7 DEF MarkInv
    <3>6. ASSUME NEW m \in Msgs, EverSteered(m)'
          PROVE  \/ mark'[m] = "applied"
                 \/ \E i \in DOMAIN projections' :
                      projections'[i].to = "applied" /\ m \in projections'[i].msgs
      <4>1. CASE m \in heard
        BY <3>2, <3>3, <4>1
      <4>2. CASE m \notin heard
        <5>1. EverSteered(m)
          BY <1>7, <3>6, <4>2
        <5>2. QED
          BY <1>1, <3>3, <5>1 DEF MarkInv
      <4>3. QED
        BY <4>1, <4>2
    <3>7. QED
      BY <3>4, <3>5, <3>6 DEF MarkInv
  <2>4. QED
    BY <2>2, <2>3
<1>12. QED
  BY <1>10, <1>11

\* A message that is saved waits in the buffer of the run it was meant for, or
\* the thread is closed.
LEMMA HeardOfSaved ==
  ASSUME TypeOK, BufferInv, MarkInv, NEW a \in Actors, Saved(a)
  PROVE  BufferInv' /\ MarkInv'
<1>0. PICK r \in Runs, n \in {job[a].msg} : r = job[a].run
  BY DEF Saved, TypeOK
<1> DEFINE entry == [msg |-> n, meant |-> r]
<1>1. /\ r \in Runs /\ UNCHANGED <<told, mark, projections>>
      /\ saved' = saved \cup {n}
  BY <1>0 DEF Saved
<1>2. MarkInv'
  BY <1>1 DEF MarkInv, EverSteered
<1>3. CASE buffer[r].accepting
  <2>1. /\ buffer' = [buffer EXCEPT ![r].pending = Append(@, entry)]
        /\ UNCHANGED recoveryRequired
    BY <1>0, <1>3 DEF Saved
  <2>2. entry.msg = n /\ entry.meant = r
    OBVIOUS
  <2> HIDE DEF entry
  <2>3. /\ buffer'[r].pending = Append(buffer[r].pending, entry)
        /\ \A q \in Runs \ {r} : buffer'[q] = buffer[q]
        /\ buffer[r].pending \in Seq(Entries)
    <3>1. buffer'[r] = [buffer[r] EXCEPT !.pending = Append(@, entry)]
      BY <1>1, <2>1 DEF TypeOK
    <3>2. buffer[r] \in [accepting : BOOLEAN, pending : Seq(Entries)]
      BY <1>1 DEF TypeOK
    <3>3. QED
      BY <1>1, <2>1, <3>1, <3>2 DEF TypeOK
  <2>4. Range(buffer'[r].pending) = Range(buffer[r].pending) \cup {entry}
    <3> DEFINE s == buffer[r].pending
    <3>1. s \in Seq(Entries)
      BY <2>3
    <3> HIDE DEF s
    <3>2. Range(Append(s, entry)) = Range(s) \cup {entry}
      <4>1. /\ DOMAIN Append(s, entry) = 1..(Len(s) + 1) /\ DOMAIN s = 1..Len(s)
            /\ Append(s, entry)[Len(s) + 1] = entry /\ Len(s) \in Nat
            /\ \A i \in 1..Len(s) : Append(s, entry)[i] = s[i]
        BY <3>1
      <4>2. QED
        BY <4>1 DEF Range
    <3>3. QED
      BY <2>3, <3>2 DEF s
  <2>5. \A q \in Runs : \A e \in Range(buffer'[q].pending) : e.meant = q
    BY <2>2, <2>3, <2>4 DEF BufferInv
  <2>6. SavedIsTaken'
    <3>1. \A q \in Runs : PendingIn(q) \subseteq PendingIn(q)'
      BY <2>3, <2>4 DEF PendingIn
    <3>2. n \in PendingIn(r)'
      BY <2>2, <2>4 DEF PendingIn
    <3>3. \A m \in saved : recoveryRequired \/ EverSteered(m)' \/ \E q \in Runs : m \in PendingIn(q)'
      BY <1>1, <3>1 DEF BufferInv, SavedIsTaken, EverSteered
    <3>4. QED
      BY <1>1, <2>1, <3>2, <3>3 DEF SavedIsTaken
  <2>7. QED
    BY <1>1, <1>2, <2>5, <2>6 DEF BufferInv, HeardByTheRunItWasMeantFor
<1>4. CASE ~buffer[r].accepting
  <2>1. recoveryRequired' /\ UNCHANGED buffer
    BY <1>0, <1>4 DEF Saved, AbortSeenRun
  <2>2. QED
    BY <1>1, <1>2, <2>1 DEF BufferInv, HeardByTheRunItWasMeantFor, SavedIsTaken
<1>5. QED
  BY <1>3, <1>4

\* A task for a message that is not heard yet shows it as pending only.
LEMMA HeardOfAccepted ==
  ASSUME TypeOK, JobInv, BufferInv, MarkInv, NEW a \in Actors, Accepted(a)
  PROVE  BufferInv' /\ MarkInv'
<1>1. UNCHANGED <<told, mark, buffer, recoveryRequired, saved>>
  BY DEF Accepted
<1>2. BufferInv'
  BY <1>1 DEF BufferInv, HeardByTheRunItWasMeantFor, SavedIsTaken, EverSteered, PendingIn
<1>3. PICK task : projections' = Append(projections, task) /\ task.to = "pending"
  BY DEF Accepted
<1>4. /\ DOMAIN projections' = 1..(Len(projections) + 1) /\ DOMAIN projections = 1..Len(projections)
      /\ projections'[Len(projections) + 1] = task
      /\ \A i \in 1..Len(projections) : projections'[i] = projections[i] /\ i \in DOMAIN projections'
  BY <1>3 DEF TypeOK
<1>5. MarkInv'
  <2>1. \A m : EverSteered(m)' <=> EverSteered(m)
    BY <1>1 DEF EverSteered
  <2>2. ASSUME NEW i \in DOMAIN projections', projections'[i].to = "applied"
        PROVE  i \in DOMAIN projections
    BY <1>3, <1>4, <2>2
  <2>3. QED
    BY <1>1, <1>4, <2>1, <2>2 DEF MarkInv
<1>6. QED
  BY <1>2, <1>5

LEMMA HeardOfProject ==
  ASSUME TypeOK, BufferInv, MarkInv, Project
  PROVE  BufferInv' /\ MarkInv'
<1> DEFINE task == Head(projections)
<1>1. UNCHANGED <<told, buffer, recoveryRequired, saved>> /\ mark' = MarkAfter(task)
  BY DEF Project
<1>2. BufferInv'
  BY <1>1 DEF BufferInv, HeardByTheRunItWasMeantFor, SavedIsTaken, EverSteered, PendingIn
<1>3. /\ task = projections[1] /\ 1 \in DOMAIN projections
      /\ DOMAIN projections = 1..Len(projections) /\ Len(projections) \in Nat
      /\ DOMAIN projections' = 1..(Len(projections) - 1)
      /\ \A i \in 1..(Len(projections) - 1) : projections'[i] = projections[i + 1]
  BY DEF Project, TypeOK
<1> HIDE DEF task
<1>4. \A m \in Msgs : mark'[m] = IF m \notin task.msgs THEN mark[m]
                                ELSE IF mark[m] = "applied" THEN "applied" ELSE task.to
  BY <1>1 DEF MarkAfter
<1>5. \A m : EverSteered(m)' <=> EverSteered(m)
  BY <1>1 DEF EverSteered
<1>6. \A i \in DOMAIN projections' : i + 1 \in DOMAIN projections /\ projections'[i] = projections[i + 1]
  BY <1>3
<1>7. \A m \in Msgs : mark'[m] = "applied" => EverSteered(m)
  BY <1>3, <1>4 DEF MarkInv
<1>8. ASSUME NEW m \in Msgs, EverSteered(m), mark'[m] # "applied"
      PROVE  \E i \in DOMAIN projections' :
               projections'[i].to = "applied" /\ m \in projections'[i].msgs
  <2>1. PICK i \in DOMAIN projections : projections[i].to = "applied" /\ m \in projections[i].msgs
    BY <1>4, <1>8 DEF MarkInv
  <2>2. i # 1
    BY <1>3, <1>4, <1>8, <2>1
  <2>3. i - 1 \in DOMAIN projections' /\ projections'[i - 1] = projections[i]
    BY <1>3, <2>1, <2>2
  <2>4. QED
    BY <2>1, <2>3
<1>9. MarkInv'
  BY <1>5, <1>6, <1>7, <1>8 DEF MarkInv
<1>10. QED
  BY <1>2, <1>9

LEMMA HeardStep ==
  ASSUME TypeOK, RunInv, JobInv, BufferInv, MarkInv, [Next]_vars
  PROVE  BufferInv' /\ MarkInv'
<1>1. CASE UNCHANGED <<told, saved, mark, projections, buffer>> /\ (recoveryRequired => recoveryRequired')
  BY <1>1, NothingHeard
<1>2. CASE Refuse \/ Return \/ AfterAgent
  <2>1. \A r \in Runs : buffer'[r].pending = buffer[r].pending
    <3>1. buffer \in [Runs -> [accepting : BOOLEAN, pending : Seq(Entries)]]
      BY DEF TypeOK
    <3>2. buffer' = buffer \/ buffer' = [buffer EXCEPT ![run.id].accepting = FALSE]
      BY <1>2 DEF Refuse, Return, AfterAgent
    <3>3. QED
      BY <3>1, <3>2
  <2>2. QED
    <3>1. UNCHANGED <<told, saved, mark, projections, recoveryRequired>>
      BY <1>2 DEF Refuse, Return, AfterAgent
    <3>2. QED
      BY <2>1, <3>1, NothingHeard
<1>3. CASE Graph \/ Prompt \/ Resume \/ Cancel
  <2>1. CASE Prompt \/ Resume \/ Cancel
    BY <1>1, <2>1 DEF Prompt, Resume, Cancel
  <2>2. CASE Answer \/ AfterModel \/ ToolsEnd \/ GraphStops \/ Leave
    BY <1>1, <2>2 DEF Answer, AfterModel, ToolsEnd, GraphStops, Leave
  <2>3. QED
    BY <1>2, <1>3, <2>1, <2>2, HeardOfAdmit, HeardOfCallModel DEF Graph
<1>4. ASSUME NEW a \in Callers, NEW m \in Msgs, NEW x \in 0..MaxRuns,
             Steer(a, m, x) \/ Send(a, m, x)
      PROVE  BufferInv' /\ MarkInv'
  BY <1>1, <1>4 DEF Steer, Send
<1>5. ASSUME NEW a \in Callers, JobSteps(a)
      PROVE  BufferInv' /\ MarkInv'
  <2>1. CASE SteerReads(a) \/ SaveFails(a) \/ SteerEnds(a)
    BY <1>1, <2>1 DEF SteerReads, SaveFails, SteerEnds, AbortSeenRun
  <2>2. QED
    BY <1>5, <2>1, HeardOfSaved, HeardOfAccepted DEF JobSteps, Actors
<1>6. ASSUME NEW w \in Windows, DrainStarts(w) \/ DrainSteps(w)
      PROVE  BufferInv' /\ MarkInv'
  BY <1>1, <1>6 DEF DrainStarts, DrainSteps, TakeFollowUp, DrainInvokes, DrainGivesUp,
                    Restore, DrainRequeues
<1>7. ASSUME NEW m \in Msgs, Enqueue(m) \/ Edit(m) \/ Delete(m)
      PROVE  BufferInv' /\ MarkInv'
  BY <1>1, <1>7 DEF Enqueue, Edit, Delete
<1>8. CASE UNCHANGED vars
  BY <1>1, <1>8 DEF vars
<1>9. QED
  BY <1>3, <1>4, <1>5, <1>6, <1>7, <1>8, Steps, HeardOfProject

-----------------------------------------------------------------------------
(* Where a message is *)

LEMMA JobAfter ==
  ASSUME TypeOK, NEW a \in Actors, NEW j, job' = [job EXCEPT ![a] = j]
  PROVE  job'[a] = j /\ \A b \in Actors \ {a} : job'[b] = job[b]
BY DEF TypeOK

LEMMA JobAtAfter ==
  ASSUME TypeOK, NEW a \in Actors, NEW s, job' = [job EXCEPT ![a].at = s]
  PROVE  /\ job'[a].at = s /\ job'[a].msg = job[a].msg
         /\ \A b \in Actors \ {a} : job'[b] = job[b]
<1>1. job[a] \in Jobs /\ job'[a] = [job[a] EXCEPT !.at = s]
  BY DEF TypeOK
<1>2. QED
  BY <1>1 DEF Jobs, TypeOK

\* Most steps put no message anywhere, and prompt nobody.
LEMMA NothingPlaced ==
  ASSUME TypeOK, PlaceInv,
         NoTwins(queue'), Range(queue') \subseteq Range(queue),
         \A m \in Msgs : \A t \in told'[m] : t.how = "prompt" => t \in told[m],
         \A m \in Msgs : fate'[m] = "fresh" => fate[m] = "fresh",
         \A a \in Actors : job'[a].at \in {"holding", "starting", "restoring"} =>
           job[a].at \in {"holding", "starting", "restoring"} /\ job'[a].msg = job[a].msg,
         \A a \in Actors, m \in Msgs :
           job'[a].msg = m /\ fate'[m] = "fresh" => job[a].msg = m
  PROVE  PlaceInv'
<1>1. queue \in Seq(Msgs) /\ Range(queue) \subseteq Msgs
  BY DEF TypeOK, Range
<1>2. \A m \in Msgs : Prompted(m)' => Prompted(m)
  BY DEF Prompted
<1>3. \A a \in Actors, m \in Msgs : Holds(a, m)' => Holds(a, m)
  BY DEF Holds
<1>4. QED
  BY <1>1, <1>2, <1>3 DEF PlaceInv

LEMMA PlaceOfGraph ==
  ASSUME TypeOK, RunInv, JobInv, PlaceInv, Graph \/ Prompt \/ Resume \/ Cancel
  PROVE  PlaceInv'
<1>1. UNCHANGED queue /\ NoTwins(queue)
  BY DEF Prompt, Resume, Cancel, Graph, Admit, Refuse, CallModel, Answer, AfterModel, ToolsEnd,
         AfterAgent, GraphStops, Return, Leave, PlaceInv
<1>2. CASE UNCHANGED <<fate, job, told>>
  BY <1>1, <1>2, NothingPlaced
<1>3. CASE CallModel
  <2>1. UNCHANGED <<fate, job>>
    BY <1>3 DEF CallModel
  <2>2. \A m \in Msgs : \A t \in told'[m] : t \in told[m] \/ t.how = "steer"
    BY <1>3 DEF CallModel
  <2>3. QED
    BY <1>1, <2>1, <2>2, NothingPlaced
<1>4. CASE Refuse /\ run.by # Nobody
  <2>1. /\ run.by \in Actors /\ job[run.by].at = "starting" /\ job[run.by].msg \in Msgs
        /\ fate \in [Msgs -> Fates]
    BY <1>4 DEF TypeOK, Operations, JobInv
  <2>2. UNCHANGED told /\ \A m \in Msgs : fate'[m] = "fresh" => fate[m] = "fresh"
    BY <1>4, <2>1 DEF Refuse
  <2>3. /\ \A b \in Actors \ {run.by} : job'[b] = job[b]
        /\ \/ job'[run.by].at = "restoring" /\ job'[run.by].msg = job[run.by].msg
           \/ job'[run.by].at = "idle" /\ job'[run.by].msg = Nobody
    <3>1. CASE job[run.by].kind = "drain"
      <4>1. job' = [job EXCEPT ![run.by].at = "restoring"]
        BY <1>4, <3>1 DEF Refuse
      <4>2. QED
        BY <2>1, <4>1, JobAtAfter
    <3>2. CASE job[run.by].kind # "drain"
      <4>1. job' = [job EXCEPT ![run.by] = NoCall]
        BY <1>4, <3>2 DEF Refuse
      <4>2. job'[run.by] = NoCall /\ \A b \in Actors \ {run.by} : job'[b] = job[b]
        BY <2>1, <4>1, JobAfter
      <4>3. QED
        BY <4>2 DEF NoCall
    <3>3. QED
      BY <3>1, <3>2
  <2>4. Nobody \notin Msgs
    BY ConstantsAssumption
  <2>5. QED
    BY <1>1, <2>1, <2>2, <2>3, <2>4, NothingPlaced
<1>5. CASE Admit /\ run.by # Nobody
  <2> DEFINE prompt == [meant |-> run.id, run |-> run.id, how |-> "prompt"]
  <2>0. PICK y \in Actors, n \in Msgs : y = run.by /\ n = job[run.by].msg
    BY <1>5 DEF TypeOK, Operations, JobInv
  <2>1. Holds(y, n) /\ queue \in Seq(Msgs) /\ Range(queue) \subseteq Msgs
    BY <1>5, <2>0 DEF JobInv, Holds, TypeOK, Range
  <2>2. told' = [told EXCEPT ![n] = @ \cup {prompt}] /\ UNCHANGED fate
    BY <1>5, <2>0 DEF Admit
  <2>3. prompt.how = "prompt"
    OBVIOUS
  <2> HIDE DEF prompt
  <2>4. /\ told'[n] = told[n] \cup {prompt}
        /\ \A m \in Msgs \ {n} : told'[m] = told[m]
    BY <2>2 DEF TypeOK
  <2>5. job'[y] = NoCall /\ \A b \in Actors \ {y} : job'[b] = job[b]
    <3>1. job' = [job EXCEPT ![y] = NoCall]
      BY <1>5, <2>0 DEF Admit
    <3>2. QED
      BY <3>1, JobAfter
  <2>6. NoCall.msg = Nobody /\ NoCall.at = "idle" /\ Nobody \notin Msgs
    BY ConstantsAssumption DEF NoCall
  <2>7. /\ fate[n] # "fresh" /\ n \notin Range(queue) /\ ~Prompted(n)
        /\ \A b \in Actors : Holds(b, n) => b = y
    BY <2>1 DEF PlaceInv, Holds
  <2>8. \A b \in Actors, m \in Msgs : Holds(b, m)' => Holds(b, m) /\ m # n
    BY <2>5, <2>6, <2>7 DEF Holds
  <2>9. /\ \A m \in Msgs \ {n} : Prompted(m)' => Prompted(m)
        /\ \A t \in told'[n] : t.how = "prompt" => t = prompt
    BY <2>4, <2>7 DEF Prompted
  <2>10. QED
    <3>1. \A m \in Msgs : fate'[m] = "fresh" =>
            m \notin Range(queue') /\ ~Prompted(m)' /\ \A b \in Actors : job'[b].msg # m
      BY <1>1, <2>2, <2>5, <2>6, <2>7, <2>9 DEF PlaceInv
    <3>2. \A m \in Range(queue') : ~Prompted(m)' /\ \A b \in Actors : ~Holds(b, m)'
      BY <1>1, <2>1, <2>7, <2>8, <2>9 DEF PlaceInv
    <3>3. \A m \in Msgs, b \in Actors : Holds(b, m)' =>
            ~Prompted(m)' /\ \A c \in Actors : Holds(c, m)' => b = c
      BY <2>8, <2>9 DEF PlaceInv
    <3>4. \A m \in Msgs : \A t, u \in told'[m] : t.how = "prompt" /\ u.how = "prompt" => t = u
      BY <2>4, <2>9 DEF PlaceInv
    <3>5. QED
      BY <1>1, <3>1, <3>2, <3>3, <3>4 DEF PlaceInv, NoTwins
<1>6. CASE (Admit \/ Refuse) /\ run.by = Nobody
  BY <1>2, <1>6 DEF Admit, Refuse
<1>7. CASE Prompt \/ Resume \/ Cancel \/ Answer \/ AfterModel \/ ToolsEnd \/ AfterAgent
             \/ GraphStops \/ Return \/ Leave
  BY <1>2, <1>7 DEF Prompt, Resume, Cancel, Answer, AfterModel, ToolsEnd, AfterAgent, GraphStops,
                    Return, Leave
<1>8. QED
  BY <1>3, <1>4, <1>5, <1>6, <1>7 DEF Graph

\* A message nobody has yet comes into the hands of a call, or into the queue.
LEMMA PlaceOfSend ==
  ASSUME TypeOK, PlaceInv, NEW a \in Actors, NEW m \in Msgs, NEW x \in 0..MaxRuns,
         Steer(a, m, x) \/ Send(a, m, x)
  PROVE  PlaceInv'
<1>1. UNCHANGED <<queue, told>> /\ NoTwins(queue) /\ Range(queue) \subseteq Msgs
  BY DEF Steer, Send, PlaceInv, TypeOK, Range
<1>2. CASE Steer(a, m, x)
  <2> DEFINE j == [NoCall EXCEPT !.kind = "steer", !.at = "reading", !.msg = m, !.expects = x]
  <2>1. j.msg = m /\ j.at = "reading"
    BY DEF NoCall
  <2>2. job' = [job EXCEPT ![a] = j] /\ UNCHANGED fate /\ fate[m] # "fresh"
    BY <1>2 DEF Steer
  <2> HIDE DEF j
  <2>3. job'[a] = j /\ \A b \in Actors \ {a} : job'[b] = job[b]
    BY <2>2, JobAfter
  <2>4. QED
    BY <1>1, <2>1, <2>2, <2>3, NothingPlaced
<1>3. CASE Send(a, m, x)
  <2> DEFINE j == [[NoCall EXCEPT !.kind = "send", !.msg = m] EXCEPT !.at = "starting"]
  <2>1. /\ j.msg = m /\ j.at = "starting"
        /\ Saving("send", m).msg = m /\ Saving("send", m).at = "saving"
    BY DEF NoCall, Saving
  <2>2. /\ fate[m] = "fresh" /\ \A n \in Msgs : fate'[n] = "fresh" => fate[n] = "fresh" /\ n # m
        /\ job' \in {job, [job EXCEPT ![a] = Saving("send", m)], [job EXCEPT ![a] = j]}
    BY <1>3 DEF Send, TypeOK
  <2> HIDE DEF j
  <2>3. CASE job' = job
    BY <1>1, <2>2, <2>3, NothingPlaced
  <2>4. CASE job' = [job EXCEPT ![a] = Saving("send", m)]
    <3>1. job'[a] = Saving("send", m) /\ \A b \in Actors \ {a} : job'[b] = job[b]
      BY <2>4, JobAfter
    <3>2. QED
      BY <1>1, <2>1, <2>2, <3>1, NothingPlaced
  <2>5. CASE job' = [job EXCEPT ![a] = j]
    <3>1. job'[a] = j /\ \A b \in Actors \ {a} : job'[b] = job[b]
      BY <2>5, JobAfter
    <3>2. /\ m \notin Range(queue) /\ ~Prompted(m) /\ \A b \in Actors : job[b].msg # m
      BY <2>2 DEF PlaceInv
    <3>3. \A b \in Actors, n \in Msgs :
            Holds(b, n)' => (b = a /\ n = m) \/ (Holds(b, n) /\ n # m)
      BY <2>1, <3>1, <3>2 DEF Holds
    <3>4. \A n \in Msgs : Prompted(n)' <=> Prompted(n)
      BY <1>1 DEF Prompted
    <3>5. \A n \in Msgs : fate'[n] = "fresh" =>
            n \notin Range(queue') /\ ~Prompted(n)' /\ \A b \in Actors : job'[b].msg # n
      BY <1>1, <2>1, <2>2, <3>1, <3>4 DEF PlaceInv
    <3>6. \A n \in Range(queue') : ~Prompted(n)' /\ \A b \in Actors : ~Holds(b, n)'
      BY <1>1, <3>2, <3>3, <3>4 DEF PlaceInv
    <3>7. \A n \in Msgs, b \in Actors : Holds(b, n)' =>
            ~Prompted(n)' /\ \A c \in Actors : Holds(c, n)' => b = c
      BY <3>2, <3>3, <3>4 DEF PlaceInv
    <3>8. QED
      BY <1>1, <3>5, <3>6, <3>7 DEF PlaceInv, NoTwins
  <2>6. QED
    BY <2>2, <2>3, <2>4, <2>5
<1>4. QED
  BY <1>2, <1>3

LEMMA PlaceOfCalls ==
  ASSUME TypeOK, JobInv, PlaceInv, NEW a \in Actors, JobSteps(a)
  PROVE  PlaceInv'
<1>1. /\ queue \in Seq(Msgs) /\ NoTwins(queue) /\ Range(queue) \subseteq Msgs
      /\ UNCHANGED told
      /\ job[a].at \in {"reading", "saving", "accepted", "removing"} /\ job[a].msg \in Msgs
  BY DEF JobSteps, SteerReads, Saved, SaveFails, Accepted, SteerEnds, PlaceInv, NoTwins, TypeOK,
         Range, JobInv
<1>2. NoTwins(queue') /\ Range(queue') \subseteq Range(queue)
  <2>1. queue' = queue \/ queue' = Without(job[a].msg)
    BY DEF JobSteps, SteerReads, Saved, SaveFails, Accepted, SteerEnds
  <2>2. QED
    BY <1>1, <2>1, WithoutKeeps
<1>3. \A m \in Msgs : fate'[m] = "fresh" => fate[m] = "fresh"
  <2>1. fate' = fate \/ fate' = [fate EXCEPT ![job[a].msg] = "settled"]
    BY DEF JobSteps, SteerReads, Saved, SaveFails, Accepted, SteerEnds
  <2>2. QED
    BY <1>1, <2>1 DEF TypeOK
<1>4. /\ \A b \in Actors \ {a} : job'[b] = job[b]
      /\ job'[a].at \in {"idle", "saving", "accepted", "projecting"}
      /\ job'[a].msg \in {job[a].msg, Nobody}
  <2>1. CASE job' = [job EXCEPT ![a] = NoCall]
    <3>1. NoCall.at = "idle" /\ NoCall.msg = Nobody
      BY DEF NoCall
    <3>2. QED
      BY <2>1, <3>1, JobAfter
  <2>2. CASE job' = [job EXCEPT ![a] = Saving("steer", job[a].msg)]
    <3>1. /\ Saving("steer", job[a].msg).at = "saving"
          /\ Saving("steer", job[a].msg).msg = job[a].msg
      BY DEF Saving
    <3>2. QED
      BY <2>2, <3>1, JobAfter
  <2>3. CASE job' = [job EXCEPT ![a] = [@ EXCEPT !.at = "accepted", !.run = NoRun]]
    <3>1. job'[a] = [job[a] EXCEPT !.at = "accepted", !.run = NoRun] /\ job[a] \in Jobs
      BY <2>3 DEF TypeOK
    <3>2. job'[a].at = "accepted" /\ job'[a].msg = job[a].msg
      BY <3>1 DEF Jobs
    <3>3. QED
      BY <2>3, <3>2 DEF TypeOK
  <2>4. CASE job' = [job EXCEPT ![a].at = "projecting"]
    BY <2>4, JobAtAfter
  <2>5. QED
    BY <2>1, <2>2, <2>3, <2>4
       DEF JobSteps, SteerReads, Saved, SaveFails, Accepted, SteerEnds, AbortSeenRun
<1>5. Nobody \notin Msgs
  BY ConstantsAssumption
<1>6. QED
  BY <1>1, <1>2, <1>3, <1>4, <1>5, NothingPlaced

LEMMA PlaceOfProject ==
  ASSUME TypeOK, ProjectionInv, PlaceInv, Project
  PROVE  PlaceInv'
<1> DEFINE task == Head(projections)
<1>1. /\ UNCHANGED <<queue, told, fate>> /\ NoTwins(queue)
      /\ job' = job \/ (task.by # Nobody /\ job' = [job EXCEPT ![task.by].at = "removing"])
  BY DEF Project, PlaceInv, NoTwins
<1>2. task.by # Nobody => task.by \in Actors
  <2>1. task = projections[1] /\ 1 \in DOMAIN projections
    BY DEF TypeOK, Project
  <2>2. QED
    BY <2>1, TasksAre
<1> HIDE DEF task
<1>3. CASE job' = job
  BY <1>1, <1>3, NothingPlaced
<1>4. CASE task.by # Nobody /\ job' = [job EXCEPT ![task.by].at = "removing"]
  <2>1. /\ job'[task.by].at = "removing" /\ job'[task.by].msg = job[task.by].msg
        /\ \A b \in Actors \ {task.by} : job'[b] = job[b]
    BY <1>2, <1>4, JobAtAfter
  <2>2. QED
    BY <1>1, <1>2, <1>4, <2>1, NothingPlaced
<1>5. QED
  BY <1>1, <1>3, <1>4

\* A message in nobody's hands and never a prompt comes into the queue.
LEMMA PlaceInQueue ==
  ASSUME TypeOK, PlaceInv, NEW m \in Msgs, m \notin Range(queue), ~Prompted(m),
         NoTwins(queue'), Range(queue') = Range(queue) \cup {m}, UNCHANGED told,
         \A n \in Msgs : fate'[n] = "fresh" => fate[n] = "fresh" /\ n # m,
         \A a \in Actors : job'[a] = job[a] \/ job'[a] = NoCall,
         \A a \in Actors : Holds(a, m) => job'[a] = NoCall
  PROVE  PlaceInv'
<1>1. Range(queue) \subseteq Msgs /\ Nobody \notin Msgs
  BY ConstantsAssumption DEF TypeOK, Range
<1>2. NoCall.msg = Nobody /\ NoCall.at = "idle"
  BY DEF NoCall
<1>3. \A n \in Msgs : Prompted(n)' <=> Prompted(n)
  BY DEF Prompted
<1>4. \A a \in Actors, n \in Msgs : Holds(a, n)' => Holds(a, n) /\ n # m
  BY <1>2 DEF Holds
<1>5. \A n \in Msgs : fate'[n] = "fresh" =>
        n \notin Range(queue') /\ ~Prompted(n)' /\ \A b \in Actors : job'[b].msg # n
  BY <1>1, <1>2, <1>3 DEF PlaceInv
<1>6. \A n \in Range(queue') : ~Prompted(n)' /\ \A b \in Actors : ~Holds(b, n)'
  BY <1>1, <1>3, <1>4 DEF PlaceInv
<1>7. \A n \in Msgs, b \in Actors : Holds(b, n)' =>
        ~Prompted(n)' /\ \A c \in Actors : Holds(c, n)' => b = c
  BY <1>3, <1>4 DEF PlaceInv
<1>8. QED
  BY <1>5, <1>6, <1>7 DEF PlaceInv, NoTwins

LEMMA OneMore ==
  ASSUME queue \in Seq(Msgs), NoTwins(queue), NEW m \in Msgs, m \notin Range(queue)
  PROVE  /\ NoTwins(Append(queue, m)) /\ Range(Append(queue, m)) = Range(queue) \cup {m}
         /\ NoTwins(<<m>> \o queue) /\ Range(<<m>> \o queue) = Range(queue) \cup {m}
<1> DEFINE s == Append(queue, m)
           t == <<m>> \o queue
<1>1. /\ DOMAIN s = 1..(Len(queue) + 1) /\ DOMAIN queue = 1..Len(queue) /\ Len(queue) \in Nat
      /\ s[Len(queue) + 1] = m
      /\ \A i \in 1..Len(queue) : s[i] = queue[i]
  OBVIOUS
<1>2. /\ DOMAIN t = 1..(Len(queue) + 1)
      /\ t[1] = m
      /\ \A i \in 2..(Len(queue) + 1) : t[i] = queue[i - 1]
      /\ \A i \in 1..Len(queue) : t[i + 1] = queue[i]
  OBVIOUS
<1> HIDE DEF s, t
<1>3. \A i \in 1..Len(queue) : queue[i] # m
  BY <1>1 DEF Range
<1>4. NoTwins(s) /\ Range(s) = Range(queue) \cup {m}
  BY <1>1, <1>3 DEF NoTwins, Range
<1>5. NoTwins(t)
  <2>1. SUFFICES ASSUME NEW i \in DOMAIN t, NEW k \in DOMAIN t, t[i] = t[k]
                 PROVE  i = k
    BY DEF NoTwins
  <2>2. CASE i = 1 \/ k = 1
    BY <1>1, <1>2, <1>3, <2>1, <2>2
  <2>3. CASE i # 1 /\ k # 1
    <3>1. i - 1 \in DOMAIN queue /\ k - 1 \in DOMAIN queue /\ queue[i - 1] = queue[k - 1]
      BY <1>1, <1>2, <2>1, <2>3
    <3>2. i - 1 = k - 1
      BY <3>1 DEF NoTwins
    <3>3. QED
      BY <1>1, <1>2, <3>2
  <2>4. QED
    BY <2>2, <2>3
<1>6. Range(t) = Range(queue) \cup {m}
  <2>1. ASSUME NEW i \in DOMAIN t
        PROVE  t[i] \in Range(queue) \cup {m}
    <3>1. CASE i = 1
      BY <1>2, <3>1
    <3>2. CASE i # 1
      <4>1. t[i] = queue[i - 1] /\ i - 1 \in DOMAIN queue
        BY <1>1, <1>2, <3>2
      <4>2. QED
        BY <4>1 DEF Range
    <3>3. QED
      BY <3>1, <3>2
  <2>2. ASSUME NEW i \in DOMAIN queue
        PROVE  queue[i] \in Range(t)
    <3>1. t[i + 1] = queue[i] /\ i + 1 \in DOMAIN t
      BY <1>1, <1>2
    <3>2. QED
      BY <3>1 DEF Range
  <2>3. m \in Range(t)
    <3>1. t[1] = m /\ 1 \in DOMAIN t
      BY <1>1, <1>2
    <3>2. QED
      BY <3>1 DEF Range
  <2>4. QED
    BY <2>1, <2>2, <2>3 DEF Range
<1>7. QED
  BY <1>4, <1>5, <1>6 DEF s, t

LEMMA PlaceOfUsers ==
  ASSUME TypeOK, PlaceInv, NEW m \in Msgs, Enqueue(m) \/ Edit(m) \/ Delete(m)
  PROVE  PlaceInv'
<1>1. /\ queue \in Seq(Msgs) /\ NoTwins(queue) /\ fate \in [Msgs -> Fates]
      /\ UNCHANGED <<told, job>>
  BY DEF TypeOK, PlaceInv, NoTwins, Enqueue, Edit, Delete
<1>2. CASE Edit(m) \/ Delete(m)
  <2>1. NoTwins(queue') /\ Range(queue') \subseteq Range(queue)
    BY <1>1, <1>2, WithoutKeeps DEF Edit, Delete
  <2>2. \A n \in Msgs : fate'[n] = "fresh" => fate[n] = "fresh"
    BY <1>1, <1>2 DEF Edit, Delete
  <2>3. QED
    BY <1>1, <2>1, <2>2, NothingPlaced
<1>3. CASE Enqueue(m)
  <2>1. /\ m \notin Range(queue) /\ ~Prompted(m) /\ \A a \in Actors : job[a].msg # m
    BY <1>3 DEF Enqueue, PlaceInv
  <2>2. NoTwins(queue') /\ Range(queue') = Range(queue) \cup {m}
    BY <1>1, <1>3, <2>1, OneMore DEF Enqueue
  <2>3. \A n \in Msgs : fate'[n] = "fresh" => fate[n] = "fresh" /\ n # m
    BY <1>1, <1>3 DEF Enqueue
  <2>4. \A a \in Actors : ~Holds(a, m)
    BY <2>1 DEF Holds
  <2>5. QED
    BY <1>1, <2>1, <2>2, <2>3, <2>4, PlaceInQueue
<1>4. QED
  BY <1>2, <1>3

LEMMA PlaceOfDrain ==
  ASSUME TypeOK, JobInv, PlaceInv, NEW w \in Actors, DrainStarts(w) \/ DrainSteps(w)
  PROVE  PlaceInv'
<1>1. /\ queue \in Seq(Msgs) /\ NoTwins(queue) /\ fate \in [Msgs -> Fates]
      /\ Range(queue) \subseteq Msgs /\ Nobody \notin Msgs
      /\ UNCHANGED told
  BY ConstantsAssumption
     DEF TypeOK, PlaceInv, NoTwins, Range, DrainStarts, DrainSteps, TakeFollowUp, DrainInvokes,
         DrainGivesUp, Restore, DrainRequeues
<1>2. /\ job[w].at # "idle" => job[w].msg \in Msgs /\ fate[job[w].msg] # "fresh"
      /\ NoCall.msg = Nobody /\ NoCall.at = "idle"
      /\ job' = [job EXCEPT ![w] = NoCall] =>
           job'[w] = NoCall /\ \A b \in Actors \ {w} : job'[b] = job[b]
  BY JobAfter DEF JobInv, PlaceInv, NoCall
<1>3. CASE DrainStarts(w)
  <2> DEFINE j == [NoCall EXCEPT !.kind = "drain", !.at = "taking", !.msg = Head(queue)]
  <2>1. /\ job' = [job EXCEPT ![w] = j] /\ UNCHANGED <<fate, queue>>
        /\ Head(queue) \in Range(queue)
    BY <1>1, <1>3 DEF DrainStarts, Range
  <2>2. j.at = "taking" /\ j.msg = Head(queue)
    BY DEF NoCall
  <2> HIDE DEF j
  <2>3. job'[w] = j /\ \A b \in Actors \ {w} : job'[b] = job[b]
    BY <2>1, JobAfter
  <2>4. fate[Head(queue)] # "fresh"
    BY <1>1, <2>1 DEF PlaceInv
  <2>5. QED
    BY <1>1, <2>1, <2>2, <2>3, <2>4, NothingPlaced
<1>4. CASE TakeFollowUp(w)
  <2>1. CASE recoveryRequired \/ job[w].msg \notin Range(queue)
    <3>1. job' = [job EXCEPT ![w] = NoCall] /\ UNCHANGED <<queue, fate>>
      BY <1>4, <2>1 DEF TakeFollowUp
    <3>2. QED
      BY <1>1, <1>2, <3>1, NothingPlaced
  <2>2. CASE ~(recoveryRequired \/ job[w].msg \notin Range(queue))
    <3>1. PICK m \in Msgs : m = job[w].msg
      BY <1>2, <1>4 DEF TakeFollowUp
    <3>2. /\ job' = [job EXCEPT ![w].at = "holding"] /\ queue' = Without(m)
          /\ m \in Range(queue) /\ UNCHANGED fate
      BY <1>4, <2>2, <3>1 DEF TakeFollowUp
    <3>3. /\ job'[w].at = "holding" /\ job'[w].msg = m
          /\ \A b \in Actors \ {w} : job'[b] = job[b]
      BY <3>1, <3>2, JobAtAfter
    <3>4. NoTwins(queue') /\ Range(queue') = Range(queue) \ {m}
      BY <1>1, <3>2, WithoutKeeps
    <3>5. ~Prompted(m) /\ \A b \in Actors : ~Holds(b, m)
      BY <3>2 DEF PlaceInv
    <3>6. \A b \in Actors, n \in Msgs :
            Holds(b, n)' => (b = w /\ n = m) \/ (Holds(b, n) /\ n # m)
      BY <3>3, <3>5 DEF Holds
    <3>7. \A n \in Msgs : Prompted(n)' <=> Prompted(n)
      BY <1>1 DEF Prompted
    <3>8. \A n \in Msgs : fate'[n] = "fresh" =>
            n \notin Range(queue') /\ ~Prompted(n)' /\ \A b \in Actors : job'[b].msg # n
      BY <3>1, <3>2, <3>3, <3>4, <3>7 DEF PlaceInv
    <3>9. \A n \in Range(queue') : ~Prompted(n)' /\ \A b \in Actors : ~Holds(b, n)'
      BY <1>1, <3>4, <3>6, <3>7 DEF PlaceInv
    <3>10. \A n \in Msgs, b \in Actors : Holds(b, n)' =>
             ~Prompted(n)' /\ \A c \in Actors : Holds(c, n)' => b = c
      BY <3>5, <3>6, <3>7 DEF PlaceInv
    <3>11. QED
      BY <1>1, <3>4, <3>8, <3>9, <3>10 DEF PlaceInv, NoTwins
  <2>3. QED
    BY <2>1, <2>2
<1>5. CASE DrainInvokes(w) \/ DrainGivesUp(w)
  <2>1. PICK s \in {"starting", "restoring"} : job' = [job EXCEPT ![w].at = s]
    BY <1>5 DEF DrainInvokes, DrainGivesUp
  <2>2. UNCHANGED <<queue, fate>> /\ job[w].at = "holding"
    BY <1>5 DEF DrainInvokes, DrainGivesUp
  <2>3. /\ job'[w].at = s /\ job'[w].msg = job[w].msg
        /\ \A b \in Actors \ {w} : job'[b] = job[b]
    BY <2>1, JobAtAfter
  <2>4. QED
    BY <1>1, <2>1, <2>2, <2>3, NothingPlaced
<1>6. CASE Restore(w)
  <2>1. job' = [job EXCEPT ![w] = NoCall] /\ UNCHANGED fate
    BY <1>6 DEF Restore
  <2>2. CASE queue' = queue
    BY <1>1, <1>2, <2>1, <2>2, NothingPlaced
  <2>3. CASE queue' # queue
    <3>1. PICK m \in Msgs : m = job[w].msg
      BY <1>2, <1>6 DEF Restore
    <3>2. queue' = <<m>> \o queue /\ m \notin Range(queue) /\ Holds(w, m)
      BY <1>6, <2>3, <3>1 DEF Restore, Holds
    <3>3. NoTwins(queue') /\ Range(queue') = Range(queue) \cup {m}
      BY <1>1, <3>2, OneMore
    <3>4. ~Prompted(m) /\ \A b \in Actors : Holds(b, m) => b = w
      BY <3>2 DEF PlaceInv
    <3>5. fate[m] # "fresh"
      BY <1>2, <1>6, <3>1 DEF Restore
    <3>6. QED
      BY <1>1, <1>2, <2>1, <3>2, <3>3, <3>4, <3>5, PlaceInQueue
  <2>4. QED
    BY <2>2, <2>3
<1>7. ASSUME NEW n \in Msgs, DrainRequeues(w, n)
      PROVE  PlaceInv'
  <2>1. /\ job' = [job EXCEPT ![w] = NoCall] /\ queue' = Append(queue, n) /\ fate[n] = "fresh"
        /\ fate' = [fate EXCEPT ![n] = "given", ![job[w].msg] = "settled"]
    BY <1>7 DEF DrainRequeues
  <2>2. /\ n \notin Range(queue) /\ ~Prompted(n) /\ \A a \in Actors : job[a].msg # n
    BY <2>1 DEF PlaceInv
  <2>3. NoTwins(queue') /\ Range(queue') = Range(queue) \cup {n}
    BY <1>1, <2>1, <2>2, OneMore
  <2>4. \A m \in Msgs : fate'[m] = "fresh" => fate[m] = "fresh" /\ m # n
    BY <1>1, <2>1
  <2>5. \A a \in Actors : ~Holds(a, n)
    BY <2>2 DEF Holds
  <2>6. QED
    BY <1>1, <1>2, <2>1, <2>2, <2>3, <2>4, <2>5, PlaceInQueue
<1>8. QED
  BY <1>3, <1>4, <1>5, <1>6, <1>7 DEF DrainSteps

LEMMA PlaceStep ==
  ASSUME TypeOK, RunInv, JobInv, ProjectionInv, PlaceInv, [Next]_vars
  PROVE  PlaceInv'
<1>1. CASE UNCHANGED vars
  BY <1>1 DEF vars, PlaceInv, Prompted, Holds
<1>2. QED
  BY <1>1, Steps, PlaceOfGraph, PlaceOfSend, PlaceOfCalls, PlaceOfProject, PlaceOfDrain,
     PlaceOfUsers DEF Actors

-----------------------------------------------------------------------------
(* What a user gave is somewhere *)

InHand(a, m) ==
  job[a].msg = m /\ job[a].at \in {"saving", "holding", "starting", "restoring"}

Kept(m) ==
  \/ m \in Range(queue) \/ m \in saved \/ told[m] # {} \/ recoveryRequired
  \/ \E a \in Actors : InHand(a, m)

\* Nothing that was told, saved or closed is undone.
LEMMA NothingUndone ==
  ASSUME TypeOK, RunInv, JobInv, [Next]_vars
  PROVE  /\ \A m \in Msgs : told[m] \subseteq told'[m]
         /\ saved \subseteq saved' /\ (recoveryRequired => recoveryRequired')
<1>1. CASE UNCHANGED <<told, saved, recoveryRequired>>
  BY <1>1
<1>2. CASE Graph \/ Prompt \/ Resume \/ Cancel
  <2>1. CASE Admit
    <3>1. UNCHANGED <<saved, recoveryRequired>>
      BY <2>1 DEF Admit
    <3>2. PICK n, prompt : told' = told \/ told' = [told EXCEPT ![n] = @ \cup {prompt}]
      BY <2>1 DEF Admit
    <3>3. QED
      BY <3>1, <3>2 DEF TypeOK
  <2>2. CASE CallModel
    BY <2>2 DEF CallModel
  <2>3. QED
    BY <1>1, <1>2, <2>1, <2>2 DEF Graph, Prompt, Resume, Cancel, Refuse, Answer, AfterModel,
         ToolsEnd, AfterAgent, GraphStops, Return, Leave
<1>3. ASSUME NEW a \in Callers, NEW m \in Msgs, NEW x \in 0..MaxRuns,
             Steer(a, m, x) \/ Send(a, m, x)
      PROVE  UNCHANGED <<told, saved, recoveryRequired>>
  BY <1>3 DEF Steer, Send
<1>4. ASSUME NEW a \in Callers, JobSteps(a)
      PROVE  UNCHANGED told /\ saved \subseteq saved' /\ (recoveryRequired => recoveryRequired')
  BY <1>4 DEF JobSteps, SteerReads, Saved, SaveFails, Accepted, SteerEnds, AbortSeenRun
<1>5. ASSUME NEW w \in Windows, DrainStarts(w) \/ DrainSteps(w)
      PROVE  UNCHANGED <<told, saved, recoveryRequired>>
  BY <1>5 DEF DrainStarts, DrainSteps, TakeFollowUp, DrainInvokes, DrainGivesUp, Restore,
              DrainRequeues
<1>6. ASSUME NEW m \in Msgs, Enqueue(m) \/ Edit(m) \/ Delete(m)
      PROVE  UNCHANGED <<told, saved, recoveryRequired>>
  BY <1>6 DEF Enqueue, Edit, Delete
<1>7. CASE Project \/ UNCHANGED vars
  BY <1>1, <1>7 DEF Project, vars
<1>8. QED
  BY <1>1, <1>2, <1>3, <1>4, <1>5, <1>6, <1>7, Steps

LEMMA KeptStep ==
  ASSUME TypeOK, RunInv, JobInv, ProjectionInv, PlaceInv, NothingVanishes, [Next]_vars
  PROVE  NothingVanishes'
<1>1. \A m \in Msgs : fate[m] = "given" => Kept(m)
  BY DEF NothingVanishes, Kept, InHand
<1>2. SUFFICES ASSUME NEW m \in Msgs, fate'[m] = "given"
               PROVE  Kept(m)'
  BY DEF NothingVanishes, Kept, InHand
<1>3. /\ \A n \in Msgs : told[n] \subseteq told'[n]
      /\ saved \subseteq saved' /\ (recoveryRequired => recoveryRequired')
      /\ queue \in Seq(Msgs) /\ NoTwins(queue) /\ fate \in [Msgs -> Fates]
      /\ Nobody \notin Msgs
  BY NothingUndone, ConstantsAssumption DEF TypeOK, PlaceInv
\* It stays where it was.
<1>4. ASSUME fate[m] = "given", m \in Range(queue) => m \in Range(queue') \/ m \in saved,
             \A a \in Actors : InHand(a, m) => Kept(m)'
      PROVE  Kept(m)'
  BY <1>1, <1>3, <1>4 DEF Kept
<1>5. CASE UNCHANGED <<queue, fate, job>>
  BY <1>2, <1>4, <1>5 DEF Kept, InHand
<1>6. CASE (Admit \/ Refuse) /\ run.by # Nobody
  <2>1. /\ run.by \in Actors /\ job[run.by].at = "starting" /\ job[run.by].msg \in Msgs
        /\ UNCHANGED queue
    BY <1>6 DEF TypeOK, Operations, JobInv, Admit, Refuse
  <2>2. fate[m] = "given"
    BY <1>2, <1>3, <1>6, <2>1 DEF Admit, Refuse
  <2>3. ASSUME NEW a \in Actors, InHand(a, m)
        PROVE  Kept(m)'
    <3>1. CASE Admit
      <4>1. CASE a = run.by
        <5>1. told'[m] # {}
          <6>1. PICK prompt : told' = [told EXCEPT ![m] = @ \cup {prompt}]
            BY <1>6, <2>3, <3>1, <4>1 DEF Admit, InHand
          <6>2. told'[m] = told[m] \cup {prompt}
            BY <6>1 DEF TypeOK
          <6>3. QED
            BY <6>2
        <5>2. QED
          BY <5>1 DEF Kept
      <4>2. CASE a # run.by
        <5>1. job' = [job EXCEPT ![run.by] = NoCall]
          BY <1>6, <3>1 DEF Admit
        <5>2. job'[a] = job[a]
          BY <2>1, <4>2, <5>1, JobAfter
        <5>3. QED
          BY <2>3, <5>2 DEF Kept, InHand
      <4>3. QED
        BY <4>1, <4>2
    <3>2. CASE Refuse /\ job[run.by].kind = "drain"
      <4>1. job' = [job EXCEPT ![run.by].at = "restoring"]
        BY <1>6, <3>2 DEF Refuse
      <4>2. /\ job'[run.by].at = "restoring" /\ job'[run.by].msg = job[run.by].msg
            /\ \A b \in Actors \ {run.by} : job'[b] = job[b]
        BY <2>1, <4>1, JobAtAfter
      <4>3. InHand(a, m)'
        BY <2>3, <4>2 DEF InHand
      <4>4. QED
        BY <4>3 DEF Kept
    <3>3. CASE Refuse /\ job[run.by].kind # "drain"
      <4>1. /\ job' = [job EXCEPT ![run.by] = NoCall]
            /\ fate' = [fate EXCEPT ![job[run.by].msg] = "settled"]
        BY <1>6, <3>3 DEF Refuse
      <4>2. a # run.by
        BY <1>2, <1>3, <2>1, <2>3, <4>1 DEF InHand
      <4>3. job'[a] = job[a]
        BY <2>1, <4>1, <4>2, JobAfter
      <4>4. QED
        BY <2>3, <4>3 DEF Kept, InHand
    <3>4. QED
      BY <1>6, <3>1, <3>2, <3>3
  <2>4. QED
    BY <1>4, <2>1, <2>2, <2>3
<1>7. CASE Graph \/ Prompt \/ Resume \/ Cancel
  BY <1>5, <1>6, <1>7 DEF Graph, Prompt, Resume, Cancel, Admit, Refuse, CallModel, Answer,
       AfterModel, ToolsEnd, AfterAgent, GraphStops, Return, Leave
\* A call moves that had nothing in its hands.
<1>8. ASSUME NEW a \in Actors, job[a].at \notin {"saving", "holding", "starting", "restoring"},
             \A b \in Actors \ {a} : job'[b] = job[b],
             m \in Range(queue) => m \in Range(queue') \/ m \in saved,
             fate[m] = "given"
      PROVE  Kept(m)'
  BY <1>4, <1>8 DEF Kept, InHand
<1>9. CASE Project
  <2> DEFINE task == Head(projections)
  <2>1. UNCHANGED <<queue, fate>>
    BY <1>9 DEF Project
  <2>2. CASE job' = job
    BY <1>5, <2>1, <2>2
  <2>3. CASE job' # job
    <3>1. task = projections[1] /\ 1 \in DOMAIN projections
      BY <1>9 DEF Project, TypeOK
    <3>2. task.by # Nobody /\ job' = [job EXCEPT ![task.by].at = "removing"]
      BY <1>9, <2>3 DEF Project
    <3>3. task.by \in Actors /\ job[task.by].at = "projecting"
      BY <3>1, <3>2, TasksAre DEF ProjectionInv
    <3> HIDE DEF task
    <3>4. \A b \in Actors \ {task.by} : job'[b] = job[b]
      BY <3>2, <3>3, JobAtAfter
    <3>5. QED
      BY <1>2, <1>8, <2>1, <3>3, <3>4
  <2>4. QED
    BY <2>2, <2>3
<1>10. ASSUME NEW a \in Callers, NEW n \in Msgs, NEW x \in 0..MaxRuns,
              Steer(a, n, x) \/ Send(a, n, x)
       PROVE  Kept(m)'
  <2>2. job[a].at = "idle" /\ UNCHANGED queue /\ a \in Actors
    BY <1>10, IdleIs DEF Steer, Send, Actors
  <2>3. \A b \in Actors \ {a} : job'[b] = job[b]
    <3>1. PICK j : job' = [job EXCEPT ![a] = j]
      <4>1. CASE job' = job
        <5>1. job' = [job EXCEPT ![a] = job[a]]
          BY <4>1 DEF TypeOK
        <5>2. QED
          BY <5>1
      <4>2. QED
        BY <1>10, <4>1 DEF Steer, Send
    <3>2. QED
      BY <2>2, <3>1, JobAfter
  <2>4. CASE fate[m] = "given"
    BY <1>8, <2>2, <2>3, <2>4
  <2>5. CASE fate[m] # "given"
    <3> DEFINE sent == [NoCall EXCEPT !.kind = "send", !.msg = n]
               j == [sent EXCEPT !.at = "starting"]
    <3>1. /\ m = n
          /\ job' = [job EXCEPT ![a] = Saving("send", m)] \/ job' = [job EXCEPT ![a] = j]
      BY <1>2, <1>3, <1>10, <2>5 DEF Steer, Send
    <3>2. /\ Saving("send", m).msg = m /\ Saving("send", m).at = "saving"
          /\ j.msg = n /\ j.at = "starting"
      BY DEF Saving, NoCall
    <3> HIDE DEF j
    <3>3. job'[a].msg = m /\ job'[a].at \in {"saving", "starting"}
      BY <2>2, <3>1, <3>2, JobAfter
    <3>4. QED
      BY <2>2, <3>3 DEF Kept, InHand
  <2>6. QED
    BY <2>4, <2>5
<1>11. ASSUME NEW a \in Callers, JobSteps(a)
       PROVE  Kept(m)'
  <2>1. a \in Actors
    BY DEF Actors
  <2>2. CASE SteerReads(a)
    <3>1. /\ UNCHANGED <<queue, fate>> /\ job[a].at = "reading"
          /\ \A b \in Actors \ {a} : job'[b] = job[b]
      <4>1. PICK j : job' = [job EXCEPT ![a] = j]
        BY <2>2 DEF SteerReads
      <4>2. QED
        BY <2>1, <2>2, <4>1, JobAfter DEF SteerReads
    <3>2. QED
      BY <1>2, <1>8, <2>1, <3>1
  <2>3. CASE Saved(a)
    <3>1. /\ UNCHANGED <<queue, fate>> /\ job[a].msg \in saved'
          /\ \A b \in Actors \ {a} : job'[b] = job[b]
      <4>1. PICK j : job' = [job EXCEPT ![a] = j]
        BY <2>3 DEF Saved, AbortSeenRun
      <4>2. QED
        BY <2>1, <2>3, <4>1, JobAfter DEF Saved
    <3>2. \A b \in Actors : InHand(b, m) => Kept(m)'
      BY <3>1 DEF InHand, Kept
    <3>3. QED
      BY <1>2, <1>4, <3>1, <3>2
  <2>4. CASE SaveFails(a)
    BY <2>4 DEF SaveFails, AbortSeenRun, Kept
  <2>5. CASE Accepted(a)
    <3>1. /\ UNCHANGED <<queue, fate>> /\ job[a].at = "accepted"
          /\ \A b \in Actors \ {a} : job'[b] = job[b]
      <4>1. (\E j : job' = [job EXCEPT ![a] = j]) \/ job' = [job EXCEPT ![a].at = "projecting"]
        BY <2>5 DEF Accepted
      <4>2. QED
        BY <2>1, <2>5, <4>1, JobAfter, JobAtAfter DEF Accepted
    <3>2. QED
      BY <1>2, <1>8, <2>1, <3>1
  <2>6. CASE SteerEnds(a)
    <3>1. /\ UNCHANGED fate /\ job[a].at = "removing" /\ job[a].msg \in saved
          /\ \A b \in Actors \ {a} : job'[b] = job[b]
      BY <2>1, <2>6, JobAfter DEF SteerEnds, JobInv
    <3>2. Range(queue') = Range(queue) \ {job[a].msg}
      BY <1>3, <2>6, WithoutKeeps DEF SteerEnds
    <3>3. QED
      BY <1>2, <1>8, <2>1, <3>1, <3>2
  <2>7. QED
    BY <1>11, <2>2, <2>3, <2>4, <2>5, <2>6 DEF JobSteps
<1>12. ASSUME NEW w \in Windows, DrainStarts(w) \/ DrainSteps(w)
       PROVE  Kept(m)'
  <2>1. w \in Actors /\ (job[w].at # "idle" => job[w].msg \in Msgs)
    BY DEF Actors, JobInv
  <2>2. job' = [job EXCEPT ![w] = NoCall] => \A b \in Actors \ {w} : job'[b] = job[b]
    BY <2>1, JobAfter
  <2>3. CASE DrainStarts(w)
    <3>1. /\ UNCHANGED <<queue, fate>> /\ job[w].at = "idle"
          /\ \A b \in Actors \ {w} : job'[b] = job[b]
      <4>1. PICK j : job' = [job EXCEPT ![w] = j]
        BY <2>3 DEF DrainStarts
      <4>2. QED
        BY <2>1, <2>3, <4>1, JobAfter, IdleIs DEF DrainStarts
    <3>2. QED
      BY <1>2, <1>8, <2>1, <3>1
  <2>4. CASE TakeFollowUp(w)
    <3>1. CASE recoveryRequired \/ job[w].msg \notin Range(queue)
      BY <1>2, <1>8, <2>1, <2>2, <2>4, <3>1 DEF TakeFollowUp
    <3>2. CASE ~(recoveryRequired \/ job[w].msg \notin Range(queue))
      <4>1. /\ job' = [job EXCEPT ![w].at = "holding"] /\ queue' = Without(job[w].msg)
            /\ UNCHANGED fate /\ job[w].at = "taking"
        BY <2>4, <3>2 DEF TakeFollowUp
      <4>2. /\ job'[w].at = "holding" /\ job'[w].msg = job[w].msg
            /\ \A b \in Actors \ {w} : job'[b] = job[b]
        BY <2>1, <4>1, JobAtAfter
      <4>3. CASE job[w].msg = m
        BY <2>1, <4>2, <4>3 DEF Kept, InHand
      <4>4. CASE job[w].msg # m
        <5>1. Range(queue') = Range(queue) \ {job[w].msg}
          BY <1>3, <4>1, WithoutKeeps
        <5>2. QED
          BY <1>2, <1>8, <2>1, <4>1, <4>2, <4>4, <5>1
      <4>5. QED
        BY <4>3, <4>4
    <3>3. QED
      BY <3>1, <3>2
  <2>5. CASE DrainInvokes(w) \/ DrainGivesUp(w)
    <3>1. PICK s \in {"starting", "restoring"} : job' = [job EXCEPT ![w].at = s]
      BY <2>5 DEF DrainInvokes, DrainGivesUp
    <3>2. UNCHANGED <<queue, fate>>
      BY <2>5 DEF DrainInvokes, DrainGivesUp
    <3>3. /\ job'[w].at = s /\ job'[w].msg = job[w].msg
          /\ \A b \in Actors \ {w} : job'[b] = job[b]
      BY <2>1, <3>1, JobAtAfter
    <3>4. \A b \in Actors : InHand(b, m) => InHand(b, m)'
      BY <3>3 DEF InHand
    <3>5. QED
      BY <1>2, <1>4, <3>2, <3>4 DEF Kept
  <2>6. CASE Restore(w)
    <3>1. job' = [job EXCEPT ![w] = NoCall] /\ UNCHANGED <<fate, recoveryRequired>>
      BY <2>6 DEF Restore
    <3>2. recoveryRequired \/ job[w].msg \in Range(queue')
      <4>1. CASE recoveryRequired \/ job[w].msg \in Range(queue)
        BY <2>6, <4>1 DEF Restore
      <4>2. CASE ~(recoveryRequired \/ job[w].msg \in Range(queue))
        BY <1>3, <2>1, <2>6, <4>2, OneMore DEF Restore
      <4>3. QED
        BY <4>1, <4>2
    <3>3. Range(queue) \subseteq Range(queue')
      <4>1. CASE queue' = queue
        BY <4>1
      <4>2. CASE queue' # queue
        BY <1>3, <2>1, <2>6, <4>2, OneMore DEF Restore
      <4>3. QED
        BY <4>1, <4>2
    <3>4. ASSUME NEW b \in Actors, InHand(b, m)
          PROVE  Kept(m)'
      <4>1. CASE b = w
        BY <3>1, <3>2, <3>4, <4>1 DEF InHand, Kept
      <4>2. CASE b # w
        BY <2>2, <3>1, <3>4, <4>2 DEF InHand, Kept
      <4>3. QED
        BY <4>1, <4>2
    <3>5. QED
      BY <1>2, <1>4, <3>1, <3>3, <3>4
  <2>7. ASSUME NEW n \in Msgs, DrainRequeues(w, n)
        PROVE  Kept(m)'
    <3>1. /\ job' = [job EXCEPT ![w] = NoCall] /\ queue' = Append(queue, n) /\ fate[n] = "fresh"
          /\ fate' = [fate EXCEPT ![n] = "given", ![job[w].msg] = "settled"]
          /\ job[w].at = "holding"
      BY <2>7 DEF DrainRequeues
    <3>2. n \notin Range(queue)
      BY <3>1 DEF PlaceInv
    <3>3. Range(queue') = Range(queue) \cup {n}
      BY <1>3, <3>1, <3>2, OneMore
    <3>4. CASE m = n
      BY <3>3, <3>4 DEF Kept
    <3>5. CASE m # n
      <4>1. fate[m] = "given" /\ m # job[w].msg
        BY <1>2, <1>3, <2>1, <3>1, <3>5
      <4>2. ASSUME NEW b \in Actors, InHand(b, m)
            PROVE  Kept(m)'
        BY <2>2, <3>1, <4>1, <4>2 DEF InHand, Kept
      <4>3. QED
        BY <1>4, <3>3, <4>1, <4>2
    <3>6. QED
      BY <3>4, <3>5
  <2>8. QED
    BY <1>12, <2>3, <2>4, <2>5, <2>6, <2>7 DEF DrainSteps
<1>13. ASSUME NEW n \in Msgs, Enqueue(n) \/ Edit(n) \/ Delete(n)
       PROVE  Kept(m)'
  <2>1. UNCHANGED job
    BY <1>13 DEF Enqueue, Edit, Delete
  <2>2. CASE Enqueue(n)
    <3>1. n \notin Range(queue)
      BY <2>2 DEF Enqueue, PlaceInv
    <3>2. Range(queue') = Range(queue) \cup {n}
      BY <1>3, <2>2, <3>1, OneMore DEF Enqueue
    <3>3. m = n \/ fate[m] = "given"
      BY <1>2, <1>3, <2>2 DEF Enqueue
    <3>4. QED
      BY <1>4, <2>1, <3>2, <3>3 DEF Kept, InHand
  <2>3. CASE Edit(n) \/ Delete(n)
    <3>1. queue' = Without(n) /\ fate' = [fate EXCEPT ![n] = "settled"]
      BY <2>3 DEF Edit, Delete
    <3>2. Range(queue') = Range(queue) \ {n}
      BY <1>3, <3>1, WithoutKeeps
    <3>3. m # n /\ fate[m] = "given"
      BY <1>2, <1>3, <3>1
    <3>4. QED
      BY <1>4, <2>1, <3>2, <3>3 DEF Kept, InHand
  <2>4. QED
    BY <1>13, <2>2, <2>3
<1>14. CASE UNCHANGED vars
  BY <1>5, <1>14 DEF vars
<1>15. QED
  BY <1>7, <1>9, <1>10, <1>11, <1>12, <1>13, <1>14, Steps

-----------------------------------------------------------------------------
(* The theorems *)

LEMMA Beginning ==
  ASSUME Init
  PROVE  MessagesInv
<1>1. PICK start \in Starts : Opening(start)
  BY DEF Init
<1>2. /\ start.over \in 0..MaxRuns /\ MaxRuns \in Nat \ {0} /\ MaxRounds \in Nat
  BY <1>1, ConstantsAssumption
<1>3. /\ queue = <<>> /\ recoveryRequired = FALSE /\ saved = {} /\ told = [m \in Msgs |-> {}]
      /\ mark = [m \in Msgs |-> "none"] /\ projections = <<>>
  BY DEF Init
<1>4. /\ run = Stopped(start.over) /\ run \in Operations /\ run.at = "none" /\ run.by = Nobody
      /\ run.end = "unstarted"
  BY <1>1, <1>2, StoppedIs DEF Opening, Stopped
<1>5. /\ buffer = [r \in Runs |-> [accepting |-> r > start.over, pending |-> <<>>]]
      /\ over = [r \in Runs |-> IF r <= start.over THEN "completed" ELSE "unstarted"]
      /\ fate = [m \in Msgs |-> IF m \in start.settled THEN "settled" ELSE "fresh"]
  BY <1>1 DEF Opening
<1>6. /\ job \in [Actors -> Jobs]
      /\ \A a \in Actors : job[a].at = "idle" /\ job[a].msg = Nobody
  <2>1. job = [a \in Actors |-> IF a \in start.away THEN [NoCall EXCEPT !.kind = "away"] ELSE NoCall]
    BY <1>1 DEF Opening
  <2>2. /\ NoCall \in Jobs /\ [NoCall EXCEPT !.kind = "away"] \in Jobs
        /\ NoCall.at = "idle" /\ NoCall.msg = Nobody
        /\ [NoCall EXCEPT !.kind = "away"].at = "idle" /\ [NoCall EXCEPT !.kind = "away"].msg = Nobody
    <3>1. NoCall \in Jobs
      BY IdleIs
    <3>2. QED
      BY <3>1 DEF Jobs, NoCall
  <2>3. QED
    BY <2>1, <2>2
<1>7. \A r \in Runs :
        /\ buffer[r].pending = <<>> /\ (buffer[r].accepting => r > start.over)
        /\ over[r] = "completed" => r <= start.over
  BY <1>5
<1>8. Range(<<>>) = {} /\ DOMAIN <<>> = {}
  BY DEF Range
<1>9. TypeOK
  <2>1. buffer \in [Runs -> Buffers]
    <3>1. \A r \in Runs : [accepting |-> r > start.over, pending |-> <<>>] \in Buffers
      BY DEF Buffers
    <3>2. QED
      BY <1>5, <3>1
  <2>2. over \in [Runs -> Ends] /\ fate \in [Msgs -> Fates]
    BY <1>5 DEF Ends, Fates
  <2>3. queue \in Seq(Msgs) /\ projections \in Seq(Tasks)
    BY <1>3
  <2>4. QED
    BY <1>3, <1>4, <1>6, <2>1, <2>2, <2>3 DEF TypeOK, Buffers
<1>10. RunInv
  <2>1. \A r \in Runs : over[r] = "completed" => ~buffer[r].accepting
    BY <1>2, <1>7 DEF Runs
  <2>2. QED
    BY <1>4, <1>7, <2>1 DEF RunInv, Emptied
<1>11. BufferInv
  BY <1>3, <1>7, <1>8 DEF BufferInv, HeardByTheRunItWasMeantFor, SavedIsTaken
<1>12. JobInv
  BY <1>4, <1>6 DEF JobInv
<1>13. ProjectionInv
  BY <1>3, <1>8 DEF ProjectionInv
<1>14. MarkInv
  BY <1>3, <1>8 DEF MarkInv, EverSteered
<1>15. PlaceInv
  <2>1. \A a \in Actors, m \in Msgs : ~Holds(a, m) /\ job[a].msg # m
    BY <1>6, ConstantsAssumption DEF Holds
  <2>2. \A m \in Msgs : told[m] = {} /\ ~Prompted(m)
    BY <1>3 DEF Prompted
  <2>3. QED
    BY <1>3, <1>8, <2>1, <2>2 DEF PlaceInv, NoTwins
<1>16. NothingVanishes
  BY <1>5 DEF NothingVanishes
<1>17. QED
  BY <1>9, <1>10, <1>11, <1>12, <1>13, <1>14, <1>15, <1>16 DEF MessagesInv

\* Every step keeps the inductive invariant, which begins with every start.
\* Whatever is steered, sent, queued, drained and given back, in whatever order, the
\* invariant of the messages, the buffers and the page is kept.
THEOREM MessagesInductive == Spec => []MessagesInv
<1>1. Init => MessagesInv
  BY Beginning
<1>2. MessagesInv /\ [Next]_vars => MessagesInv'
  <2>1. SUFFICES ASSUME MessagesInv, [Next]_vars
                 PROVE  MessagesInv'
    OBVIOUS
  <2>2. QED
    BY <2>1, TypeStep, RunInvStep, JobStep, HeardStep, PlaceStep, KeptStep DEF MessagesInv
<1>3. QED
  BY <1>1, <1>2, PTL DEF Spec

\* A message that is steered and saved is heard, by no run but the one it was meant for,
\* and shown as heard; or it lies in the buffer of the run that accepted it, which an
\* operation that stops for an approval, fails or is cancelled takes with it; or the
\* thread is closed until a restart.  An operation that completes has heard all of its own
\* (run-steering.ts, agent/service.ts).
THEOREM SteersAreNotLost == Spec => []SteersAreTaken
<1>1. MessagesInv => SteersAreTaken
  <2>1. SUFFICES ASSUME MessagesInv
                 PROVE  SteersAreTaken
    OBVIOUS
  <2>2. CompletedHeardAll
    BY <2>1 DEF MessagesInv, RunInv, Emptied, CompletedHeardAll
  <2>3. ShownAsHeard
    <3>1. SUFFICES ASSUME projections = <<>>, NEW m \in Msgs
                   PROVE  mark[m] = "applied" <=> EverSteered(m)
      BY DEF ShownAsHeard
    <3>2. DOMAIN projections = {}
      BY <3>1
    <3>3. QED
      BY <2>1, <3>2 DEF MessagesInv, MarkInv
  <2>4. QED
    BY <2>1, <2>2, <2>3 DEF SteersAreTaken, MessagesInv, BufferInv
<1>2. QED
  BY <1>1, MessagesInductive, PTL

\* A message that is queued stays where its user can see it, and is the prompt of one
\* operation at most.
THEOREM QueuedAreNotLost == Spec => []QueuedIsKept
<1>1. MessagesInv => QueuedIsKept
  <2>1. SUFFICES ASSUME MessagesInv
                 PROVE  QueuedIsKept
    OBVIOUS
  <2>2. ASSUME NEW m \in Msgs
        PROVE  Cardinality({t \in told[m] : t.how = "prompt"}) <= 1
    <3> DEFINE prompts == {t \in told[m] : t.how = "prompt"}
    <3>1. \A t, u \in prompts : t = u
      BY <2>1 DEF MessagesInv, PlaceInv
    <3> HIDE DEF prompts
    <3>2. CASE prompts = {}
      BY <3>2, FS_EmptySet DEF prompts
    <3>3. CASE prompts # {}
      <4>1. PICK t : prompts = {t}
        BY <3>1, <3>3
      <4>2. Cardinality({t}) = 1
        BY FS_Singleton
      <4>3. QED
        BY <4>1, <4>2 DEF prompts
    <3>4. QED
      BY <3>2, <3>3
  <2>3. QED
    BY <2>1, <2>2 DEF QueuedIsKept, PromptedOnce, MessagesInv
<1>2. QED
  BY <1>1, MessagesInductive, PTL
=============================================================================
