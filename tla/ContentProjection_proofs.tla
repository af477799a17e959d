---------------------- MODULE ContentProjection_proofs ----------------------
(***************************************************************************)
(* A completed projection is current, for any number of runs, commits,     *)
(* refused transactions, reads, crashes and shutdowns.                     *)
(***************************************************************************)
EXTENDS ContentProjection, FiniteSetTheorems, WellFoundedInduction, TLAPS

Jobs == [status : Statuses, gen : Nat, att : Nat, due : BOOLEAN, rev : Nat]
Places == {"idle", "claiming", "projecting", "completing", "blocking", "failing"}
Executions == [at : Places, claim : Claims, rev : Nat]

DataOK ==
    /\ content \in [Runs -> Nat] /\ parts \in [Runs -> Nat] /\ marked \in [Runs -> Nat]
    /\ job \in [Runs -> Jobs]
    /\ exec \in [Runs -> Executions]

\* Neither the marks nor the parts are ahead of the messages.
Behind == \A r \in Runs : marked[r] <= content[r] /\ parts[r] <= content[r]

\* Between the projection and the settlement of an execution, a mark takes the
\* job out of "running", and only the execution itself could claim it again.
UnmarkedWhileCompleting ==
    \A r \in Runs : exec[r].at = "completing" /\ job[r].status = "running"
                    => parts[r] >= marked[r]

ProjectionInv ==
    DataOK /\ Behind /\ UnmarkedWhileCompleting /\ CompletedIsCurrent

LEMMA ProjectionInitially == Init => ProjectionInv
BY DEF Init, ProjectionInv, DataOK, Behind, UnmarkedWhileCompleting,
       CompletedIsCurrent, Jobs, NoJob, Statuses, Executions, Places, NotExecuting,
       NoClaim, Claims, Requests, Asked

\* The steps that touch neither messages, jobs, parts nor executions.
LEMMA Unaffected ==
    ASSUME ProjectionInv, UNCHANGED <<content, table, exec>>
    PROVE  ProjectionInv'
BY DEF ProjectionInv, DataOK, Behind, UnmarkedWhileCompleting, CompletedIsCurrent, table

\* An execution that goes to a place where it completes nothing.
LEMMA ExecutionMoves ==
    ASSUME ProjectionInv, UNCHANGED <<content, table>>,
           exec' \in [Runs -> Executions],
           \A r \in Runs : exec'[r].at = "completing" => exec[r].at = "completing"
    PROVE  ProjectionInv'
BY DEF ProjectionInv, DataOK, Behind, UnmarkedWhileCompleting, CompletedIsCurrent, table

\* A change of jobs that completes none and starts none.
LEMMA JobsChange ==
    ASSUME ProjectionInv, UNCHANGED <<content, parts, marked, exec>>,
           job' \in [Runs -> Jobs],
           \A r \in Runs : job'[r].status \in {"running", "completed"}
                           => job'[r].status = job[r].status
    PROVE  ProjectionInv'
<1>1. DataOK' /\ Behind'
  BY DEF ProjectionInv, DataOK, Behind
<1>2. ASSUME NEW r \in Runs, exec[r].at = "completing", job'[r].status = "running"
      PROVE  parts[r] >= marked[r]
  BY <1>2 DEF ProjectionInv, UnmarkedWhileCompleting
<1>3. ASSUME NEW r \in Runs, job'[r].status = "completed"
      PROVE  parts[r] >= marked[r]
  BY <1>3 DEF ProjectionInv, CompletedIsCurrent
<1> QED
  BY <1>1, <1>2, <1>3 DEF ProjectionInv, UnmarkedWhileCompleting, CompletedIsCurrent

LEMMA MadeIsPending ==
    ASSUME NEW j \in Jobs
    PROVE  Made(j) \in Jobs /\ Made(j).status = "pending"
<1> DEFINE gen == IF j.status \in {"none", "running"} THEN j.gen + 1 ELSE j.gen
<1>1. gen \in Nat
  BY DEF Jobs
<1>2. Made(j) = [j EXCEPT !.status = "pending", !.due = FALSE, !.gen = gen]
  BY DEF Made
<1> HIDE DEF gen
<1> QED
  BY <1>1, <1>2 DEF Jobs, Statuses

\* What a request does to a job: nothing, or it is to be done.
LEMMA GrantedJob ==
    ASSUME DataOK, NEW r \in Runs, NEW req
    PROVE  /\ Granted(r, req) \in Jobs
           /\ Granted(r, req) = job[r] \/ Granted(r, req).status = "pending"
           /\ req = "dirty" => Granted(r, req).status \notin {"running", "completed"}
<1>1. job[r] \in Jobs
  BY DEF DataOK
<1>2. Made(job[r]) \in Jobs /\ Made(job[r]).status = "pending"
  BY <1>1, MadeIsPending
<1>3. CASE req = "dirty"
  BY <1>1, <1>2, <1>3 DEF Granted, MarkedDirty
<1>4. CASE req # "dirty"
  BY <1>1, <1>2, <1>4 DEF Granted, Ensured
<1> QED
  BY <1>3, <1>4

LEMMA CommitStep ==
    ASSUME ProjectionInv, NEW r \in Runs, Commit(r)
    PROVE  ProjectionInv'
BY DEF Commit, table, ProjectionInv, DataOK, Behind, UnmarkedWhileCompleting,
       CompletedIsCurrent

LEMMA AskStep ==
    ASSUME ProjectionInv, NEW r \in Runs, NEW t \in Tasks, Ask(r, t)
    PROVE  ProjectionInv'
<1> DEFINE req == task[r][t].req
           new == IF content[r] = 0 THEN job[r] ELSE Granted(r, req)
<1>1. /\ job' = [job EXCEPT ![r] = new]
      /\ marked' = IF req = "dirty" \/ job'[r] # job[r]
                   THEN [marked EXCEPT ![r] = content[r]] ELSE marked
      /\ UNCHANGED <<content, parts, exec>>
  BY DEF Ask, ProjectionInv, DataOK
<1>2. /\ new \in Jobs
      /\ new = job[r] \/ new.status = "pending"
      /\ req = "dirty" => content[r] = 0 \/ new.status \notin {"running", "completed"}
  BY GrantedJob DEF ProjectionInv, DataOK
<1> HIDE DEF new, req
<1>3. job'[r] = new /\ \A q \in Runs \ {r} : job'[q] = job[q] /\ marked'[q] = marked[q]
  BY <1>1 DEF ProjectionInv, DataOK
<1>4. DataOK' /\ Behind'
  BY <1>1, <1>2 DEF ProjectionInv, DataOK, Behind
\* The mark that moves is one of a job that is now to be done, or there is
\* nothing yet to be marked.
<1>5. \/ marked'[r] = marked[r] /\ new = job[r]
      \/ new.status \notin {"running", "completed"}
      \/ marked'[r] = 0
  <2>1. CASE req = "dirty"
    BY <2>1, <1>1, <1>2 DEF ProjectionInv, DataOK
  <2>2. CASE req # "dirty" /\ new # job[r]
    BY <2>2, <1>2
  <2>3. CASE req # "dirty" /\ new = job[r]
    BY <2>3, <1>1, <1>3
  <2> QED
    BY <2>1, <2>2, <2>3
<1>6. UnmarkedWhileCompleting' /\ CompletedIsCurrent'
  BY <1>1, <1>3, <1>5 DEF ProjectionInv, DataOK, UnmarkedWhileCompleting, CompletedIsCurrent
<1> QED
  BY <1>4, <1>6 DEF ProjectionInv

LEMMA ClaimStep ==
    ASSUME ProjectionInv, NEW r \in Runs, Claim(r)
    PROVE  ProjectionInv'
<1>1. job' = [job EXCEPT ![r].status = "running", ![r].due = FALSE, ![r].att = @ + 1]
      /\ exec' = [exec EXCEPT ![r].at = "projecting",
                              ![r].claim.gen = job[r].gen, ![r].claim.att = job'[r].att]
      /\ UNCHANGED <<content, parts, marked>>
  BY DEF Claim
<1>2. job' \in [Runs -> Jobs]
  BY <1>1 DEF ProjectionInv, DataOK, Jobs, Statuses
<1>3. exec' \in [Runs -> Executions]
  <2>1. job[r].gen \in Nat /\ job'[r].att \in Nat /\ exec[r] \in Executions
    BY <1>2 DEF ProjectionInv, DataOK, Jobs
  <2> QED
    BY <1>1, <2>1 DEF ProjectionInv, DataOK, Executions, Places, Claims
<1>4. /\ exec'[r].at = "projecting" /\ job'[r].status = "running"
      /\ \A q \in Runs \ {r} : exec'[q] = exec[q] /\ job'[q] = job[q]
  BY <1>1 DEF ProjectionInv, DataOK, Executions, Jobs
<1> QED
  BY <1>1, <1>2, <1>3, <1>4
     DEF ProjectionInv, DataOK, Behind, UnmarkedWhileCompleting, CompletedIsCurrent

LEMMA ProjectStep ==
    ASSUME ProjectionInv, NEW r \in Runs, Project(r)
    PROVE  ProjectionInv'
<1>1. UNCHANGED <<content, job, marked>>
  BY DEF Project
<1>2. CASE content[r] \in Invalid
  <2>1. exec' = [exec EXCEPT ![r].at = "blocking", ![r].rev = content[r]]
        /\ parts' = parts
    BY <1>2 DEF Project
  <2> QED
    BY <1>1, <2>1 DEF ProjectionInv, DataOK, Behind, UnmarkedWhileCompleting,
       CompletedIsCurrent, Executions, Places
<1>3. CASE content[r] \notin Invalid
  <2>1. exec' = [exec EXCEPT ![r].at = "completing"]
        /\ parts' = [parts EXCEPT ![r] = content[r]]
    BY <1>3 DEF Project
  <2> QED
    BY <1>1, <2>1 DEF ProjectionInv, DataOK, Behind, UnmarkedWhileCompleting,
       CompletedIsCurrent, Executions, Places
<1> QED
  BY <1>2, <1>3

LEMMA SettleStep ==
    ASSUME ProjectionInv, NEW r \in Runs, Settle(r)
    PROVE  ProjectionInv'
<1>1. /\ job' = [job EXCEPT ![r].status = IF exec[r].at = "completing" THEN "completed"
                                          ELSE "blocked",
                            ![r].rev = exec[r].rev]
      /\ exec' = [exec EXCEPT ![r] = NotExecuting]
      /\ job[r].status = "running"
      /\ UNCHANGED <<content, parts, marked>>
  BY DEF Settle, Leave, Holds
<1>2. DataOK'
  <2>1. NotExecuting \in Executions /\ exec[r].rev \in Nat
    BY DEF ProjectionInv, DataOK, NotExecuting, Executions, Places, NoClaim, Claims,
           Requests, Asked
  <2>2. exec' \in [Runs -> Executions]
    BY <1>1, <2>1 DEF ProjectionInv, DataOK
  <2> DEFINE status == IF exec[r].at = "completing" THEN "completed" ELSE "blocked"
  <2>3. status \in Statuses
    BY DEF Statuses
  <2>4. job' = [job EXCEPT ![r].status = status, ![r].rev = exec[r].rev]
    BY <1>1
  <2> HIDE DEF status
  <2>5. job' \in [Runs -> Jobs]
    BY <2>1, <2>3, <2>4 DEF ProjectionInv, DataOK, Jobs
  <2> QED
    BY <1>1, <2>2, <2>5 DEF ProjectionInv, DataOK
<1>3. /\ exec'[r].at = "idle"
      /\ job'[r].status = "completed" => exec[r].at = "completing"
      /\ \A q \in Runs \ {r} : exec'[q] = exec[q] /\ job'[q] = job[q]
  BY <1>1 DEF ProjectionInv, DataOK, Jobs, NotExecuting
<1> QED
  BY <1>1, <1>2, <1>3
     DEF ProjectionInv, Behind, UnmarkedWhileCompleting, CompletedIsCurrent

LEMMA FailedJob ==
    ASSUME DataOK, NEW r \in Runs, NEW claim
    PROVE  Failed(r, claim) \in Jobs
           /\ Failed(r, claim).status \in {"parked", "exhausted", "failed"}
BY DEF Failed, DataOK, Jobs, Statuses

LEMMA FailStep ==
    ASSUME ProjectionInv, NEW r \in Runs, NEW claim, WriteFailure(r, claim),
           UNCHANGED <<content, parts, marked>>,
           exec' = exec \/ exec' = [exec EXCEPT ![r] = NotExecuting]
    PROVE  ProjectionInv'
<1>1. job' = [job EXCEPT ![r] = Failed(r, claim)]
  BY DEF WriteFailure
<1>2. job' \in [Runs -> Jobs]
  BY <1>1, FailedJob DEF ProjectionInv, DataOK
<1>3. exec' \in [Runs -> Executions]
  BY DEF ProjectionInv, DataOK, NotExecuting, Executions, Places, NoClaim, Claims,
         Requests, Asked
<1>4. /\ job'[r].status \notin {"running", "completed"}
      /\ \A q \in Runs \ {r} : exec'[q] = exec[q] /\ job'[q] = job[q]
  BY <1>1, FailedJob DEF ProjectionInv, DataOK
<1> QED
  BY <1>2, <1>3, <1>4
     DEF ProjectionInv, DataOK, Behind, UnmarkedWhileCompleting, CompletedIsCurrent

\* What the start-up makes of a job that runs.
LEMMA InterruptedJob ==
    ASSUME NEW j \in Jobs
    PROVE  Interrupted(j) \in Jobs /\ Interrupted(j).status \in {"exhausted", "failed"}
<1> DEFINE status == IF j.att >= MaxAttempts THEN "exhausted" ELSE "failed"
           due == j.att < MaxAttempts
<1>1. status \in {"exhausted", "failed"} /\ due \in BOOLEAN /\ j.gen + 1 \in Nat
  BY DEF Jobs
<1>2. Interrupted(j) = [j EXCEPT !.gen = j.gen + 1, !.status = status, !.due = due]
  BY DEF Interrupted
<1> HIDE DEF status, due
<1> QED
  BY <1>1, <1>2 DEF Jobs, Statuses

\* The start-up work on the table, and the clock.
LEMMA SweepStep == ASSUME ProjectionInv, Sweep PROVE ProjectionInv'
<1>1. job' = [r \in Runs |-> IF job[r].status = "running" THEN Interrupted(job[r])
                             ELSE job[r]]
      /\ UNCHANGED <<content, parts, marked, exec>>
  BY DEF Sweep
<1>2. \A r \in Runs : Interrupted(job[r]) \in Jobs
                      /\ Interrupted(job[r]).status \in {"exhausted", "failed"}
  BY InterruptedJob DEF ProjectionInv, DataOK
<1>3. job' \in [Runs -> Jobs]
  BY <1>1, <1>2 DEF ProjectionInv, DataOK
<1>4. \A r \in Runs : job'[r].status \in {"running", "completed"}
                      => job'[r].status = job[r].status
  BY <1>1, <1>2
<1> QED
  BY <1>1, <1>3, <1>4, JobsChange

LEMMA RecoveryStepOnJobs ==
    ASSUME ProjectionInv, NEW S \in SUBSET Runs,
           job' = [r \in Runs |-> IF r \in S THEN Made(job[r]) ELSE job[r]],
           marked' = [r \in Runs |-> IF r \in S THEN content[r] ELSE marked[r]],
           UNCHANGED <<content, parts, exec>>
    PROVE  ProjectionInv'
<1>1. \A r \in Runs : Made(job[r]) \in Jobs /\ Made(job[r]).status = "pending"
  BY MadeIsPending DEF ProjectionInv, DataOK
<1>2. DataOK' /\ Behind'
  BY <1>1 DEF ProjectionInv, DataOK, Behind
<1> QED
  BY <1>1, <1>2 DEF ProjectionInv, UnmarkedWhileCompleting, CompletedIsCurrent

LEMMA InsertStep == ASSUME ProjectionInv, InsertMissing PROVE ProjectionInv'
<1> DEFINE S == {r \in Runs : job[r].status = "none" /\ content[r] # 0}
<1>1. /\ job' = [r \in Runs |-> IF r \in S THEN Made(job[r]) ELSE job[r]]
      /\ marked' = [r \in Runs |-> IF r \in S THEN content[r] ELSE marked[r]]
      /\ UNCHANGED <<content, parts, exec>>
  BY DEF InsertMissing
<1> HIDE DEF S
<1>2. S \in SUBSET Runs
  BY DEF S
<1> QED
  BY <1>1, <1>2, RecoveryStepOnJobs

LEMMA UnblockStep == ASSUME ProjectionInv, RecoverChangedBlocked PROVE ProjectionInv'
<1> DEFINE S == {r \in Runs : Unblocks(r)}
<1>1. /\ job' = [r \in Runs |-> IF r \in S THEN Made(job[r]) ELSE job[r]]
      /\ marked' = [r \in Runs |-> IF r \in S THEN content[r] ELSE marked[r]]
      /\ UNCHANGED <<content, parts, exec>>
  BY DEF RecoverChangedBlocked
<1> HIDE DEF S
<1>2. S \in SUBSET Runs
  BY DEF S
<1> QED
  BY <1>1, <1>2, RecoveryStepOnJobs

LEMMA ClockStep ==
    ASSUME ProjectionInv, NEW r \in Runs, TimePasses(r)
    PROVE  ProjectionInv'
<1>1. /\ job' = [job EXCEPT ![r].due = TRUE]
      /\ UNCHANGED <<content, parts, marked, exec>>
  BY DEF TimePasses, memory
<1>2. job' \in [Runs -> Jobs]
      /\ \A q \in Runs : job'[q].status = job[q].status
  BY <1>1 DEF ProjectionInv, DataOK, Jobs
<1> QED
  BY <1>1, <1>2, JobsChange

\* The steps of an execution that complete nothing.
LEMMA MoveStep ==
    ASSUME ProjectionInv, NEW r \in Runs,
           \/ Begin(r) \/ NothingToClaim(r) \/ ClaimRefused(r) \/ StepFails(r)
           \/ Superseded(r) \/ FailRefused(r)
    PROVE  ProjectionInv'
<1>1. /\ UNCHANGED <<content, table>>
      /\ \/ exec' = [exec EXCEPT ![r] = [NotExecuting EXCEPT !.at = "claiming"]]
         \/ exec' = [exec EXCEPT ![r] = NotExecuting]
         \/ exec' = [exec EXCEPT ![r].at = "failing", ![r].claim.req = "retryable"]
         \/ exec' = [exec EXCEPT ![r].at = "failing", ![r].claim.req = "terminal"]
  BY DEF Begin, NothingToClaim, ClaimRefused, StepFails, Superseded, FailRefused, Leave
<1>2. /\ exec \in [Runs -> Executions]
      /\ NotExecuting \in Executions
      /\ [NotExecuting EXCEPT !.at = "claiming"] \in Executions
  BY DEF ProjectionInv, DataOK, NotExecuting, Executions, Places, NoClaim, Claims,
         Requests, Asked
<1>3. exec' \in [Runs -> Executions]
  BY <1>1, <1>2 DEF Executions, Places, Claims, Requests, Asked
<1>4. \A q \in Runs : exec'[q].at = "completing" => exec[q].at = "completing"
  BY <1>1, <1>2 DEF NotExecuting, Executions
<1> QED
  BY <1>1, <1>3, <1>4, ExecutionMoves

LEMMA CrashStep == ASSUME ProjectionInv, Crash PROVE ProjectionInv'
<1>1. exec' = [r \in Runs |-> NotExecuting] /\ UNCHANGED <<content, table>>
  BY DEF Crash
<1>2. NotExecuting \in Executions /\ NotExecuting.at = "idle"
  BY DEF NotExecuting, Executions, Places, NoClaim, Claims, Requests, Asked
<1> QED
  BY <1>1, <1>2, ExecutionMoves

LEMMA ProjectionStep ==
    ASSUME ProjectionInv, [Next]_vars
    PROVE  ProjectionInv'
<1>1. ASSUME NEW r \in Runs, Commit(r) \/ Read(r) \/ TimePasses(r)
      PROVE ProjectionInv'
  BY <1>1, CommitStep, ClockStep, Unaffected DEF Read
<1>2. ASSUME NEW r \in Runs, Persisting(r) PROVE ProjectionInv'
  <2>1. CASE RetryFires(r)
    BY <2>1, Unaffected DEF RetryFires
  <2>2. CASE LateFail(r)
    <3> DEFINE claim == task[r]["timer"]
    <3>1. CASE WriteFailure(r, claim)
      <4>1. UNCHANGED <<content, parts, marked>> /\ exec' = exec
        BY <2>2 DEF LateFail
      <4> QED
        BY <3>1, <4>1, FailStep
    <3>2. CASE UNCHANGED <<job, failures>>
      BY <2>2, <3>2, Unaffected DEF LateFail, table
    <3> QED
      BY <2>2, <3>1, <3>2 DEF LateFail
  <2>3. ASSUME NEW t \in Tasks, Ask(r, t) PROVE ProjectionInv'
    BY <2>3, AskStep
  <2> QED
    BY <1>2, <2>1, <2>2, <2>3 DEF Persisting
<1>3. ASSUME NEW r \in Runs, Executing(r) PROVE ProjectionInv'
  <2>1. CASE Fail(r)
    <3>1. /\ WriteFailure(r, exec[r].claim)
          /\ UNCHANGED <<content, parts, marked>>
          /\ exec' = [exec EXCEPT ![r] = NotExecuting]
      BY <2>1 DEF Fail, Leave
    <3> QED
      BY <3>1, FailStep
  <2> QED
    BY <1>3, <2>1, MoveStep, ClaimStep, ProjectStep, SettleStep DEF Executing
<1>4. CASE QueueMoves
  BY <1>4, Unaffected DEF QueueMoves, memory
<1>5. CASE RecoveryStep
  <2>1. CASE Dispatch \/ Flushed \/ Defer
    BY <2>1, Unaffected DEF Dispatch, Flushed, Defer
  <2>2. CASE RecoveryAborted \/ RecoverAgain \/ DurableRetryFires
    BY <2>2, Unaffected DEF RecoveryAborted, RecoverAgain, DurableRetryFires
  <2> QED
    BY <1>5, <2>1, <2>2, SweepStep, InsertStep, UnblockStep DEF RecoveryStep
<1>6. CASE Faulting
  <2>1. CASE RecoveryFails
    BY <2>1, Unaffected DEF RecoveryFails
  <2>2. ASSUME NEW r \in Runs, LateFailRefused(r) PROVE ProjectionInv'
    BY <2>2, Unaffected DEF LateFailRefused
  <2>3. ASSUME NEW r \in Runs, NEW t \in Tasks, AskRefused(r, t) PROVE ProjectionInv'
    BY <2>3, Unaffected DEF AskRefused
  <2> QED
    BY <1>6, <2>1, <2>2, <2>3, MoveStep DEF Faulting
<1>7. CASE Start \/ Close \/ CloseFlushes \/ Closed
  BY <1>7, Unaffected DEF Start, Close, CloseFlushes, Closed
<1>8. CASE UNCHANGED vars
  BY <1>8, Unaffected DEF vars, table
<1> QED
  BY <1>1, <1>2, <1>3, <1>4, <1>5, <1>6, <1>7, <1>8, CrashStep DEF Next

\* A job that says it is completed was projected with the content it was last
\* marked dirty with, or a later one (completeAssistantContentProjection).
THEOREM CompletedStaysCurrent == Spec => []CompletedIsCurrent
<1>1. ProjectionInv => CompletedIsCurrent
  BY DEF ProjectionInv
<1> QED
  BY ProjectionInitially, ProjectionStep, <1>1, PTL DEF Spec

-----------------------------------------------------------------------------
\* The projector's memory, beside the messages, the jobs and the executions.
Bounds == [commits : [Runs -> Nat], invalid : SUBSET Nat,
           faults : Nat, bugs : Nat, reads : Nat, stops : Nat]
RecoverySteps == {"off", "sweeping", "inserting", "unblocking", "dispatching",
                  "flushing", "deferring"}
Lives == {"up", "closing", "flushing", "closed", "crashed"}

MemoryOK ==
    /\ task \in [Runs -> [Tasks -> Claims]] /\ retry \in [Runs -> Claims]
    /\ durable = {} \/ \E d \in [run : Runs, att : Nat] : durable = {d}
    /\ wake \in BOOLEAN /\ again \in BOOLEAN
    /\ recovery \in [at : RecoverySteps, cursor : {0} \cup Runs]
    /\ life \in Lives
    /\ left \in Bounds
    /\ failures \in [Runs -> Nat]

\* A finite set of numbers has a greatest one.
LEMMA MaxIsIn ==
    ASSUME NEW n \in Nat, NEW S \in SUBSET (1..n), S # {}
    PROVE  Max(S) \in S /\ \A x \in S : x <= Max(S)
<1> DEFINE R == OpToRel(<, Nat)
           T == {b \in Nat : \A x \in S : x <= b}
<1>1. IsWellFoundedOn(R, Nat)
  BY NatLessThanWellFounded
<1>2. \A x, y \in Nat : y < x => <<y, x>> \in R
  BY DEF OpToRel
<1>3. T \subseteq Nat /\ n \in T
  OBVIOUS
<1> HIDE DEF R
<1>4. PICK b \in T : \A y \in T : ~(<<y, b>> \in R)
  <2> HIDE DEF T
  <2> QED
    BY <1>1, <1>3, WFMin
<1>5. b \in S
  <2> SUFFICES ASSUME b \notin S PROVE FALSE
    OBVIOUS
  <2>1. b \in Nat /\ \A x \in S : x \in Nat /\ x < b
    OBVIOUS
  <2>2. PICK x : x \in S
    OBVIOUS
  <2>3. b - 1 \in Nat /\ \A y \in S : y <= b - 1
    BY <2>1, <2>2
  <2>4. b - 1 \in T
    BY <2>3
  <2>5. <<b - 1, b>> \in R
    BY <1>2, <2>1, <2>3
  <2> HIDE DEF T
  <2> QED
    BY <1>4, <2>4, <2>5
<1>6. \E x \in S : \A y \in S : x >= y
  BY <1>5
<1> QED
  BY <1>6 DEF Max

LEMMA ClaimTypes ==
    ASSUME DataOK
    PROVE  /\ NoClaim \in Claims
           /\ \A r \in Runs : exec[r].claim \in Claims
           /\ \A req \in Requests : [NoClaim EXCEPT !.req = req] \in Claims
BY DEF DataOK, Executions, NoClaim, Claims, Requests

LEMMA WantedType == \A r \in Runs : Wanted(r) \in Requests
BY DEF Wanted, Requests, Asked

LEMMA Spending ==
    ASSUME left \in Bounds, NEW b \in {"faults", "bugs", "reads", "stops"}, Spend(b)
    PROVE  left' \in Bounds /\ left'.commits = left.commits
BY DEF Bounds, Spend

\* Where a task of a run is replaced, and a retry is set or cleared.
LEMMA TasksStay ==
    ASSUME MemoryOK, NEW r \in Runs, NEW t \in Tasks, NEW claim \in Claims,
           task' = [task EXCEPT ![r][t] = claim]
    PROVE  task' \in [Runs -> [Tasks -> Claims]]
BY DEF MemoryOK

LEMMA RetriesStay ==
    ASSUME DataOK, MemoryOK, NEW r \in Runs,
           \/ retry' = retry \/ ClearRetry(r)
           \/ \E claim \in Claims : SetRetry(r, claim)
    PROVE  retry' \in [Runs -> Claims]
BY ClaimTypes DEF MemoryOK, ClearRetry, SetRetry

LEMMA RefusalStays ==
    ASSUME DataOK, MemoryOK, NEW r \in Runs, NEW claim \in Claims, Refused(r, claim)
    PROVE  /\ retry' \in [Runs -> Claims]
           /\ left' \in Bounds /\ left'.commits = left.commits
<1>1. left \in Bounds
  BY DEF MemoryOK
<1>2. retry' = retry \/ SetRetry(r, claim)
  BY DEF Refused
<1> QED
  BY <1>1, <1>2, RetriesStay, Spending DEF Refused

LEMMA DurableStays ==
    ASSUME DataOK, MemoryOK, NEW r \in Runs, durable' = durable \/ ScheduleDurableRetry(r)
    PROVE  durable' = {} \/ \E d \in [run : Runs, att : Nat] : durable' = {d}
<1>1. [run |-> r, att |-> job[r].att] \in [run : Runs, att : Nat]
  BY DEF DataOK, Jobs
<1> QED
  BY <1>1 DEF MemoryOK, ScheduleDurableRetry

LEMMA RecoveryStays ==
    ASSUME MemoryOK, NEW failed \in BOOLEAN, RecoveryOver(failed)
    PROVE  /\ wake' \in BOOLEAN /\ again' \in BOOLEAN
           /\ recovery' \in [at : RecoverySteps, cursor : {0} \cup Runs]
BY DEF MemoryOK, RecoveryOver, Recovering, NotRecovering, RecoverySteps

LEMMA Going ==
    ASSUME MemoryOK, NEW step \in RecoverySteps, Go(step)
    PROVE  recovery' \in [at : RecoverySteps, cursor : {0} \cup Runs]
BY DEF MemoryOK, Go

LEMMA MemoryInitially == Init => MemoryOK
<1> SUFFICES ASSUME Init PROVE MemoryOK
  OBVIOUS
<1>1. left \in Bounds
  BY ContentAssumption DEF Init, Bounds, Runs
<1>2. NoClaim \in Claims
  BY DEF NoClaim, Claims, Requests
<1> QED
  BY <1>1, <1>2 DEF Init, MemoryOK, RecoverySteps, Lives

\* The steps of the requests and the timers.
LEMMA MemoryOfRequests ==
    ASSUME DataOK, MemoryOK, NEW r \in Runs,
           \/ Commit(r) \/ Read(r) \/ RetryFires(r)
           \/ \E t \in Tasks : Ask(r, t) \/ AskRefused(r, t)
    PROVE  MemoryOK'
<1> USE ClaimTypes
<1>1. CASE Commit(r)
  <2>1. [NoClaim EXCEPT !.req = "dirty"] \in Claims
    BY DEF Requests, Asked
  <2> QED
    BY <1>1, <2>1, TasksStay DEF Commit, MemoryOK, Tasks, table
<1>2. CASE Read(r)
  <2>1. [NoClaim EXCEPT !.req = Wanted(r)] \in Claims
    BY WantedType
  <2> QED
    BY <1>2, <2>1, TasksStay, Spending DEF Read, MemoryOK, Tasks, table
<1>3. CASE RetryFires(r)
  <2>1. retry[r] \in Claims
    BY DEF MemoryOK
  <2> QED
    BY <1>3, <2>1, TasksStay, RetriesStay DEF RetryFires, MemoryOK, Tasks, table
<1>4. ASSUME NEW t \in Tasks, Ask(r, t) PROVE MemoryOK'
  <2>1. retry' = retry \/ ClearRetry(r)
    BY <1>4 DEF Ask
  <2> QED
    BY <1>4, <2>1, TasksStay, RetriesStay DEF Ask, MemoryOK
<1>5. ASSUME NEW t \in Tasks, AskRefused(r, t) PROVE MemoryOK'
  <2>1. task[r][t] \in Claims
    BY DEF MemoryOK
  <2> QED
    BY <1>5, <2>1, TasksStay, RefusalStays DEF AskRefused, MemoryOK, table
<1> QED
  BY <1>1, <1>2, <1>3, <1>4, <1>5

\* The steps of the executions.
LEMMA MemoryOfExecutions ==
    ASSUME DataOK, MemoryOK, NEW r \in Runs,
           \/ Executing(r) \/ ClaimRefused(r) \/ StepFails(r) \/ FailRefused(r)
           \/ LateFail(r) \/ LateFailRefused(r)
    PROVE  MemoryOK'
<1> USE ClaimTypes
<1>1. CASE Begin(r) \/ Claim(r) \/ NothingToClaim(r) \/ Project(r) \/ Superseded(r)
  BY <1>1 DEF Begin, Claim, NothingToClaim, Project, Superseded, MemoryOK, table
<1>2. CASE Settle(r)
  BY <1>2, RetriesStay DEF Settle, MemoryOK
<1>3. CASE StepFails(r)
  BY <1>3, Spending DEF StepFails, MemoryOK, table
<1>4. CASE ClaimRefused(r)
  <2>1. [NoClaim EXCEPT !.req = "ensure"] \in Claims
    BY DEF Requests, Asked
  <2> QED
    BY <1>4, <2>1, RefusalStays DEF ClaimRefused, MemoryOK, table
<1>5. CASE FailRefused(r)
  <2>1. exec[r].claim \in Claims
    BY DEF DataOK, Executions
  <2> QED
    BY <1>5, <2>1, RefusalStays DEF FailRefused, MemoryOK, table
<1>6. ASSUME NEW claim, WriteFailure(r, claim)
      PROVE  /\ retry' \in [Runs -> Claims] /\ failures' \in [Runs -> Nat]
             /\ durable' = {} \/ \E d \in [run : Runs, att : Nat] : durable' = {d}
  <2>1. durable' = durable \/ ScheduleDurableRetry(r)
    BY <1>6 DEF WriteFailure
  <2>2. failures' \in [Runs -> Nat]
    BY <1>6 DEF WriteFailure, MemoryOK
  <2>3. ClearRetry(r)
    BY <1>6 DEF WriteFailure
  <2> QED
    BY <2>1, <2>2, <2>3, RetriesStay, DurableStays
<1>7. CASE Fail(r)
  BY <1>6, <1>7 DEF Fail, MemoryOK
<1>8. CASE LateFail(r)
  <2>1. task' \in [Runs -> [Tasks -> Claims]]
    BY <1>8, TasksStay DEF LateFail, Tasks
  <2>2. CASE WriteFailure(r, task[r]["timer"])
    BY <1>6, <1>8, <2>1, <2>2 DEF LateFail, MemoryOK
  <2>3. CASE UNCHANGED <<job, failures, retry, durable>>
    BY <1>8, <2>1, <2>3 DEF LateFail, MemoryOK
  <2> QED
    BY <1>8, <2>2, <2>3 DEF LateFail
<1>9. CASE LateFailRefused(r)
  <2>1. task[r]["timer"] \in Claims
    BY DEF MemoryOK, Tasks
  <2> QED
    BY <1>9, <2>1, TasksStay, RefusalStays DEF LateFailRefused, MemoryOK, Tasks, table
<1> QED
  BY <1>1, <1>2, <1>3, <1>4, <1>5, <1>7, <1>8, <1>9 DEF Executing

\* The steps of the recovery.
LEMMA MemoryOfRecovery ==
    ASSUME DataOK, MemoryOK, RecoveryStep \/ RecoveryFails
    PROVE  MemoryOK'
<1>1. CASE Sweep \/ InsertMissing \/ RecoverChangedBlocked
  <2>1. recovery' \in [at : RecoverySteps, cursor : {0} \cup Runs]
    BY <1>1, Going DEF Sweep, InsertMissing, RecoverChangedBlocked, RecoverySteps
  <2> QED
    BY <1>1, <2>1 DEF Sweep, InsertMissing, RecoverChangedBlocked, MemoryOK
<1>2. CASE Dispatch
  <2> DEFINE jobs == {r \in Runs : r > recovery.cursor /\ Waiting(job[r])}
  <2>1. jobs # {} => Max(jobs) \in Runs
    BY MaxIsIn, ContentAssumption DEF Runs
  <2>2. \/ Go("deferring")
        \/ jobs # {} /\ recovery' = [at |-> "flushing", cursor |-> Max(jobs)]
    BY <1>2 DEF Dispatch
  <2> HIDE DEF jobs
  <2>3. recovery' \in [at : RecoverySteps, cursor : {0} \cup Runs]
    BY <2>1, <2>2, Going DEF RecoverySteps
  <2> QED
    BY <1>2, <2>3 DEF Dispatch, MemoryOK, table
<1>3. CASE Flushed
  BY <1>3, Going DEF Flushed, MemoryOK, RecoverySteps, table
<1>4. CASE Defer
  <2>1. durable' = durable \/ \E r \in Runs : ScheduleDurableRetry(r)
    BY <1>4 DEF Defer
  <2>2. durable' = {} \/ \E d \in [run : Runs, att : Nat] : durable' = {d}
    BY <2>1, DurableStays DEF MemoryOK
  <2> QED
    BY <1>4, <2>2, RecoveryStays DEF Defer, MemoryOK, table
<1>5. CASE RecoveryAborted
  BY <1>5, RecoveryStays DEF RecoveryAborted, MemoryOK, table
<1>6. CASE RecoveryFails
  BY <1>6, RecoveryStays, Spending DEF RecoveryFails, MemoryOK, table
<1>7. CASE RecoverAgain
  BY <1>7 DEF RecoverAgain, MemoryOK, Recovering, RecoverySteps, table
<1>8. CASE DurableRetryFires
  <2>1. /\ durable' = {}
        /\ \/ recovery' = Recovering /\ wake' = wake
           \/ wake' = TRUE /\ recovery' = recovery
        /\ UNCHANGED <<task, retry, again, life, left, failures>>
    BY <1>8 DEF DurableRetryFires, table
  <2>2. recovery' \in [at : RecoverySteps, cursor : {0} \cup Runs]
    BY <2>1 DEF MemoryOK, Recovering, RecoverySteps
  <2>3. wake' \in BOOLEAN
    BY <2>1 DEF MemoryOK
  <2> QED
    BY <2>1, <2>2, <2>3 DEF MemoryOK
<1> QED
  BY <1>1, <1>2, <1>3, <1>4, <1>5, <1>6, <1>7, <1>8 DEF RecoveryStep

\* The steps of the process and of the queue, and the clock.
LEMMA MemoryOfProcess ==
    ASSUME DataOK, MemoryOK,
           \/ QueueMoves \/ Start \/ Close \/ CloseFlushes \/ Closed \/ Crash
           \/ UNCHANGED vars \/ \E r \in Runs : TimePasses(r)
    PROVE  MemoryOK'
<1> USE ClaimTypes
<1>1. CASE QueueMoves \/ CloseFlushes \/ Closed \/ UNCHANGED vars
  BY <1>1 DEF QueueMoves, CloseFlushes, Closed, vars, memory, table, MemoryOK, Lives
<1>2. CASE Start
  BY <1>2 DEF Start, MemoryOK, Lives, Recovering, RecoverySteps, table
<1>3. CASE Close
  BY <1>3, Spending DEF Close, MemoryOK, Lives, table
<1>4. CASE Crash
  BY <1>4, Spending DEF Crash, MemoryOK, Lives, NotRecovering, RecoverySteps, table
<1>5. ASSUME NEW r \in Runs, TimePasses(r) PROVE MemoryOK'
  BY <1>5 DEF TimePasses, memory, MemoryOK
<1> QED
  BY <1>1, <1>2, <1>3, <1>4, <1>5

LEMMA MemoryStep ==
    ASSUME DataOK, MemoryOK, [Next]_vars
    PROVE  MemoryOK'
BY MemoryOfRequests, MemoryOfExecutions, MemoryOfRecovery, MemoryOfProcess
   DEF Next, Persisting, Faulting

-----------------------------------------------------------------------------
\* The queue of the projections, and the executions it runs.
QueueOK ==
    /\ Queue!QueueTypeOK /\ Queue!OneDrain
    /\ \A r \in Runs : exec[r].at # "idle" <=> r \in busy

LEMMA QueueInitially == Init => QueueOK
<1> SUFFICES ASSUME Init PROVE QueueOK
  OBVIOUS
<1>1. Queue!QueueInit /\ \A r \in Runs : exec[r].at = "idle"
  BY DEF Init, NotExecuting
<1>2. Queue!QueueTypeOK /\ Queue!OneDrain /\ busy = {}
  BY <1>1 DEF Queue!QueueInit, Queue!QueueTypeOK, Queue!OneDrain
<1> QED
  BY <1>1, <1>2 DEF QueueOK

LEMMA EnqueueStep ==
    ASSUME QueueOK, NEW r \in Runs, Queue!Enqueue(r), exec' = exec
    PROVE  QueueOK'
BY DEF QueueOK, Queue!QueueTypeOK, Queue!OneDrain, Queue!Enqueue, Queue!Schedule

LEMMA LeaveStep ==
    ASSUME DataOK, QueueOK, NEW r \in Runs, NEW K \in SUBSET Runs, Leave(r, K)
    PROVE  QueueOK'
<1>1. /\ exec' = [exec EXCEPT ![r] = NotExecuting]
      /\ dirty' = dirty \cup K /\ scheduled' = scheduled \cup K
      /\ timer' = (timer \/ (K # {} /\ drain = "none"))
      /\ r \in busy /\ busy' = busy \ {r}
      /\ UNCHANGED <<batch, drain, flushRequested, flusher>>
      /\ owed' = [f \in {"recovery", "shutdown"} |-> owed[f] \cap Queue!Outstanding']
  BY DEF Leave, Queue!EndsAsking, Queue!Schedule, Queue!Settle
<1>2. Queue!QueueTypeOK'
  BY <1>1 DEF QueueOK, Queue!QueueTypeOK
<1>3. Queue!OneDrain'
  BY <1>1 DEF QueueOK, Queue!QueueTypeOK, Queue!OneDrain
<1>4. \A q \in Runs : exec'[q].at # "idle" <=> q \in busy'
  BY <1>1 DEF QueueOK, DataOK, NotExecuting
<1> QED
  BY <1>2, <1>3, <1>4 DEF QueueOK

LEMMA FlushStep ==
    ASSUME QueueOK, NEW f \in {"recovery", "shutdown"}, NEW K \in SUBSET Runs,
           Queue!FlushAfter(K, f), exec' = exec
    PROVE  QueueOK'
<1>1. /\ dirty' = dirty \cup K /\ scheduled' = scheduled \cup K
      /\ timer' = (timer \/ (K # {} /\ drain = "none"))
      /\ flusher' = [flusher EXCEPT ![f] = "looking"]
      /\ owed' = [owed EXCEPT ![f] = Queue!Outstanding']
      /\ UNCHANGED <<batch, busy, drain, flushRequested>>
  BY DEF Queue!FlushAfter, Queue!Schedule
<1>2. Queue!Outstanding' \subseteq Runs
  BY <1>1 DEF QueueOK, Queue!QueueTypeOK, Queue!Outstanding
<1>3. Queue!QueueTypeOK'
  BY <1>1, <1>2 DEF QueueOK, Queue!QueueTypeOK
<1>4. Queue!OneDrain'
  BY <1>1 DEF QueueOK, Queue!QueueTypeOK, Queue!OneDrain
<1> QED
  BY <1>1, <1>3, <1>4 DEF QueueOK

LEMMA DrainsStep ==
    ASSUME QueueOK, exec' = exec,
           \/ Queue!TimerFires \/ Queue!DrainBegins \/ Queue!DrainEnds
           \/ \E f \in {"recovery", "shutdown"} : Queue!FlushDrains(f) \/ Queue!FlushReturns(f)
    PROVE  QueueOK'
<1> USE DEF QueueOK, Queue!QueueTypeOK, Queue!OneDrain
<1>1. CASE Queue!TimerFires
  BY <1>1 DEF Queue!TimerFires
<1>2. CASE Queue!DrainBegins
  BY <1>2 DEF Queue!DrainBegins
<1>3. CASE Queue!DrainEnds
  BY <1>3 DEF Queue!DrainEnds
<1>4. ASSUME NEW f \in {"recovery", "shutdown"}, Queue!FlushDrains(f) PROVE QueueOK'
  BY <1>4 DEF Queue!FlushDrains
<1>5. ASSUME NEW f \in {"recovery", "shutdown"}, Queue!FlushReturns(f) PROVE QueueOK'
  BY <1>5 DEF Queue!FlushReturns
<1> QED
  BY <1>1, <1>2, <1>3, <1>4, <1>5

LEMMA QueueUnaffected ==
    ASSUME DataOK, QueueOK, UNCHANGED queueVars,
           \A r \in Runs : exec'[r].at # "idle" <=> exec[r].at # "idle"
    PROVE  QueueOK'
BY DEF queueVars, QueueOK, Queue!QueueTypeOK, Queue!OneDrain

LEMMA QueueOfExecutions ==
    ASSUME DataOK, QueueOK, NEW r \in Runs,
           \/ Executing(r) \/ ClaimRefused(r) \/ StepFails(r) \/ FailRefused(r)
    PROVE  QueueOK'
<1>1. CASE Begin(r)
  <2>1. /\ exec' = [exec EXCEPT ![r] = [NotExecuting EXCEPT !.at = "claiming"]]
        /\ r \in batch /\ batch' = batch \ {r} /\ busy' = busy \cup {r}
        /\ UNCHANGED <<dirty, scheduled, timer, drain, flushRequested, flusher, owed>>
    BY <1>1 DEF Begin, Queue!JobStarts
  <2>2. Queue!QueueTypeOK' /\ Queue!OneDrain'
    BY <2>1 DEF QueueOK, Queue!QueueTypeOK, Queue!OneDrain
  <2>3. \A q \in Runs : exec'[q].at # "idle" <=> q \in busy'
    BY <2>1 DEF QueueOK, DataOK, NotExecuting
  <2> QED
    BY <2>2, <2>3 DEF QueueOK
<1>2. CASE NothingToClaim(r) \/ ClaimRefused(r) \/ Settle(r) \/ Fail(r) \/ FailRefused(r)
  BY <1>2, LeaveStep DEF NothingToClaim, ClaimRefused, Settle, Fail, FailRefused
<1>3. CASE Superseded(r)
  BY <1>3, LeaveStep DEF Superseded
<1>4. CASE Claim(r)
  BY <1>4, QueueUnaffected DEF Claim, DataOK, Executions
<1>5. CASE Project(r)
  BY <1>5, QueueUnaffected DEF Project, DataOK, Executions
<1>6. CASE StepFails(r)
  BY <1>6, QueueUnaffected DEF StepFails, DataOK, Executions
<1> QED
  BY <1>1, <1>2, <1>3, <1>4, <1>5, <1>6 DEF Executing

LEMMA QueueStep ==
    ASSUME DataOK, QueueOK, [Next]_vars
    PROVE  QueueOK'
<1>1. ASSUME NEW r \in Runs, Commit(r) \/ Read(r) \/ TimePasses(r) PROVE QueueOK'
  BY <1>1, QueueUnaffected DEF Commit, Read, TimePasses, memory
<1>2. ASSUME NEW r \in Runs, Persisting(r) PROVE QueueOK'
  <2>1. CASE RetryFires(r)
    BY <2>1, QueueUnaffected DEF RetryFires
  <2>2. CASE LateFail(r)
    BY <2>2, QueueUnaffected, EnqueueStep DEF LateFail
  <2>3. ASSUME NEW t \in Tasks, Ask(r, t) PROVE QueueOK'
    BY <2>3, QueueUnaffected, EnqueueStep DEF Ask
  <2> QED
    BY <1>2, <2>1, <2>2, <2>3 DEF Persisting
<1>3. CASE QueueMoves
  BY <1>3, DrainsStep DEF QueueMoves, memory
<1>4. CASE RecoveryStep
  <2>1. CASE Dispatch
    <3> DEFINE jobs == {r \in Runs : r > recovery.cursor /\ Waiting(job[r])}
    <3>1. jobs \in SUBSET Runs /\ exec' = exec
          /\ (UNCHANGED queueVars \/ Queue!FlushAfter(jobs, "recovery"))
      BY <2>1 DEF Dispatch
    <3> HIDE DEF jobs
    <3> QED
      BY <3>1, QueueUnaffected, FlushStep
  <2>2. CASE Flushed
    BY <2>2, DrainsStep DEF Flushed
  <2>3. CASE Sweep \/ InsertMissing \/ RecoverChangedBlocked \/ Defer
    BY <2>3, QueueUnaffected DEF Sweep, InsertMissing, RecoverChangedBlocked, Defer
  <2>4. CASE RecoveryAborted \/ RecoverAgain \/ DurableRetryFires
    BY <2>4, QueueUnaffected DEF RecoveryAborted, RecoverAgain, DurableRetryFires
  <2> QED
    BY <1>4, <2>1, <2>2, <2>3, <2>4 DEF RecoveryStep
<1>5. CASE Faulting
  <2>1. CASE RecoveryFails
    BY <2>1, QueueUnaffected DEF RecoveryFails
  <2>2. ASSUME NEW r \in Runs, LateFailRefused(r) \/ \E t \in Tasks : AskRefused(r, t)
        PROVE  QueueOK'
    BY <2>2, QueueUnaffected DEF LateFailRefused, AskRefused
  <2> QED
    BY <1>5, <2>1, <2>2, QueueOfExecutions DEF Faulting
<1>6. CASE Start \/ Close \/ UNCHANGED vars
  BY <1>6, QueueUnaffected DEF Start, Close, vars
<1>7. CASE CloseFlushes
  BY <1>7, FlushStep DEF CloseFlushes, Queue!FlushCalled
<1>8. CASE Closed
  BY <1>8, DrainsStep DEF Closed
<1>9. CASE Crash
  <2>1. /\ exec' = [r \in Runs |-> NotExecuting]
        /\ dirty' = {} /\ scheduled' = {} /\ batch' = {} /\ busy' = {}
        /\ timer' = FALSE /\ drain' = "none" /\ flushRequested' = FALSE
        /\ flusher' = [f \in DOMAIN flusher |-> "idle"]
        /\ owed' = [f \in DOMAIN owed |-> {}]
    BY <1>9 DEF Crash
  <2> QED
    BY <2>1 DEF QueueOK, Queue!QueueTypeOK, Queue!OneDrain, NotExecuting
<1> QED
  BY <1>1, <1>2, <1>3, <1>4, <1>5, <1>6, <1>7, <1>8, <1>9, QueueOfExecutions DEF Next

-----------------------------------------------------------------------------
\* An execution that has claimed its job holds it for as long as it runs; one that
\* fails has a failure to write; and there are jobs only for runs that have ended.
Claimed == {"projecting", "completing", "blocking", "failing"}
JobsHeld ==
    /\ \A r \in Runs : exec[r].at \in Claimed /\ job[r].status = "running"
                       => job[r].gen = exec[r].claim.gen
    /\ \A r \in Runs : exec[r].at = "failing"
                       => exec[r].claim.req \in {"retryable", "terminal"}
    /\ \A r \in Runs : job[r].status # "none" => content[r] # 0

LEMMA HeldInitially == Init => JobsHeld
BY DEF Init, JobsHeld, Claimed, NotExecuting, NoJob

LEMMA HeldUnaffected ==
    ASSUME JobsHeld, UNCHANGED <<content, job, exec>>
    PROVE  JobsHeld'
BY DEF JobsHeld

\* A step of the table that starts no job, and makes none of a run still going on.
LEMMA HeldByChange ==
    ASSUME JobsHeld, UNCHANGED <<content, exec>>,
           \A r \in Runs :
             \/ job'[r] = job[r]
             \/ job'[r].status # "running" /\ (job[r].status # "none" \/ content[r] # 0)
    PROVE  JobsHeld'
BY DEF JobsHeld

\* An execution ends, and its job is not started.
LEMMA HeldByLeaving ==
    ASSUME DataOK, JobsHeld, NEW r \in Runs, UNCHANGED content,
           exec' = [exec EXCEPT ![r] = NotExecuting],
           \A q \in Runs \ {r} : job'[q] = job[q],
           job'[r] = job[r] \/ job[r].status = "running"
    PROVE  JobsHeld'
<1>1. exec'[r].at = "idle" /\ \A q \in Runs \ {r} : exec'[q] = exec[q]
  BY DEF DataOK, NotExecuting
<1> QED
  BY <1>1 DEF JobsHeld, Claimed

LEMMA HeldOfRequests ==
    ASSUME DataOK, JobsHeld, NEW r \in Runs,
           Commit(r) \/ Read(r) \/ TimePasses(r) \/ Persisting(r)
    PROVE  JobsHeld'
<1>1. CASE Commit(r)
  BY <1>1 DEF Commit, table, JobsHeld, DataOK
<1>2. CASE Read(r) \/ RetryFires(r)
  BY <1>2, HeldUnaffected DEF Read, RetryFires, table
<1>3. CASE TimePasses(r)
  <2>1. job' = [job EXCEPT ![r].due = TRUE] /\ job[r].status = "failed"
        /\ UNCHANGED <<content, exec>>
    BY <1>3 DEF TimePasses, memory
  <2>2. job'[r].status = "failed" /\ \A q \in Runs \ {r} : job'[q] = job[q]
    BY <2>1 DEF DataOK, Jobs
  <2> QED
    BY <2>1, <2>2, HeldByChange
<1>4. ASSUME NEW t \in Tasks, Ask(r, t) PROVE JobsHeld'
  <2> DEFINE req == task[r][t].req
  <2>1. /\ job' = IF content[r] = 0 THEN job ELSE [job EXCEPT ![r] = Granted(r, req)]
        /\ UNCHANGED <<content, exec>>
    BY <1>4 DEF Ask
  <2>2. Granted(r, req) = job[r] \/ Granted(r, req).status = "pending"
    BY GrantedJob
  <2> HIDE DEF req
  <2>3. \A q \in Runs : \/ job'[q] = job[q]
                        \/ content[r] # 0 /\ q = r /\ job'[q].status = "pending"
    <3>1. CASE content[r] = 0
      BY <2>1, <3>1
    <3>2. CASE content[r] # 0
      <4>1. job' = [job EXCEPT ![r] = Granted(r, req)] /\ job \in [Runs -> Jobs]
        BY <2>1, <3>2 DEF DataOK
      <4> QED
        BY <2>2, <3>2, <4>1
    <3> QED
      BY <3>1, <3>2
  <2> QED
    BY <2>1, <2>3, HeldByChange
<1>5. CASE LateFail(r)
  <2> DEFINE claim == task[r]["timer"]
  <2>1. UNCHANGED <<content, exec>> /\ (WriteFailure(r, claim) \/ job' = job)
    BY <1>5 DEF LateFail
  <2>2. CASE WriteFailure(r, claim)
    <3>1. job' = [job EXCEPT ![r] = Failed(r, claim)] /\ job[r].status = "running"
      BY <2>2 DEF WriteFailure, Holds
    <3> QED
      BY <2>1, <3>1, FailedJob, HeldByChange DEF DataOK
  <2> QED
    BY <2>1, <2>2, HeldUnaffected
<1> QED
  BY <1>1, <1>2, <1>3, <1>4, <1>5 DEF Persisting

LEMMA HeldOfExecutions ==
    ASSUME DataOK, JobsHeld, NEW r \in Runs,
           \/ Executing(r) \/ ClaimRefused(r) \/ StepFails(r) \/ FailRefused(r)
    PROVE  JobsHeld'
<1>1. CASE Begin(r)
  <2>1. exec'[r].at = "claiming" /\ \A q \in Runs \ {r} : exec'[q] = exec[q]
    BY <1>1 DEF Begin, DataOK, NotExecuting
  <2> QED
    BY <1>1, <2>1 DEF Begin, table, JobsHeld, Claimed
<1>2. CASE NothingToClaim(r) \/ ClaimRefused(r) \/ Superseded(r) \/ FailRefused(r)
  BY <1>2, HeldByLeaving
     DEF NothingToClaim, ClaimRefused, Superseded, FailRefused, Leave, table
<1>3. CASE Claim(r)
  <2>1. /\ job' = [job EXCEPT ![r].status = "running", ![r].due = FALSE, ![r].att = @ + 1]
        /\ exec' = [exec EXCEPT ![r].at = "projecting",
                                ![r].claim.gen = job[r].gen, ![r].claim.att = job'[r].att]
        /\ content' = content /\ content[r] # 0
    BY <1>3 DEF Claim
  <2>2. exec'[r].at = "projecting" /\ exec'[r].claim.gen = job[r].gen
        /\ \A q \in Runs \ {r} : exec'[q] = exec[q]
    BY <2>1 DEF DataOK, Executions, Claims
  <2>3. job'[r].gen = job[r].gen /\ \A q \in Runs \ {r} : job'[q] = job[q]
    BY <2>1 DEF DataOK, Jobs
  <2> QED
    BY <2>1, <2>2, <2>3 DEF JobsHeld
<1>4. CASE Project(r)
  <2>1. UNCHANGED <<content, job>>
        /\ \/ exec' = [exec EXCEPT ![r].at = "blocking", ![r].rev = content[r]]
           \/ exec' = [exec EXCEPT ![r].at = "completing"]
    BY <1>4 DEF Project
  <2>2. exec'[r].at \in {"blocking", "completing"} /\ exec'[r].claim = exec[r].claim
        /\ \A q \in Runs \ {r} : exec'[q] = exec[q]
    BY <2>1 DEF DataOK, Executions
  <2> QED
    BY <1>4, <2>1, <2>2 DEF Project, JobsHeld, Claimed
<1>5. CASE StepFails(r)
  <2>1. UNCHANGED <<content, job>> /\ exec[r].at \in Claimed
        /\ \/ exec' = [exec EXCEPT ![r].at = "failing", ![r].claim.req = "retryable"]
           \/ exec' = [exec EXCEPT ![r].at = "failing", ![r].claim.req = "terminal"]
    BY <1>5 DEF StepFails, table, Claimed
  <2>2. /\ exec'[r].at = "failing" /\ exec'[r].claim.gen = exec[r].claim.gen
        /\ exec'[r].claim.req \in {"retryable", "terminal"}
        /\ \A q \in Runs \ {r} : exec'[q] = exec[q]
    BY <2>1 DEF DataOK, Executions, Claims
  <2> QED
    BY <2>1, <2>2 DEF JobsHeld, Claimed
<1>6. CASE Settle(r)
  <2>1. /\ exec' = [exec EXCEPT ![r] = NotExecuting] /\ content' = content
        /\ job[r].status = "running" /\ \A q \in Runs \ {r} : job'[q] = job[q]
    BY <1>6 DEF Settle, Leave, Holds, DataOK
  <2> QED
    BY <2>1, HeldByLeaving
<1>7. CASE Fail(r)
  <2>1. /\ exec' = [exec EXCEPT ![r] = NotExecuting] /\ content' = content
        /\ job[r].status = "running" /\ \A q \in Runs \ {r} : job'[q] = job[q]
    BY <1>7 DEF Fail, WriteFailure, Leave, Holds, DataOK
  <2> QED
    BY <2>1, HeldByLeaving
<1> QED
  BY <1>1, <1>2, <1>3, <1>4, <1>5, <1>6, <1>7 DEF Executing

LEMMA HeldOfRecovery ==
    ASSUME DataOK, JobsHeld, Sweep \/ InsertMissing \/ RecoverChangedBlocked
    PROVE  JobsHeld'
<1>1. \A r \in Runs : job[r] \in Jobs
  BY DEF DataOK
<1>2. \A r \in Runs : /\ Made(job[r]).status = "pending"
                      /\ Interrupted(job[r]).status \in {"exhausted", "failed"}
  BY <1>1, MadeIsPending, InterruptedJob
<1>3. CASE Sweep
  BY <1>2, <1>3, HeldByChange DEF Sweep
<1>4. CASE InsertMissing
  BY <1>2, <1>4, HeldByChange DEF InsertMissing
<1>5. CASE RecoverChangedBlocked
  BY <1>2, <1>5, HeldByChange DEF RecoverChangedBlocked, Unblocks
<1> QED
  BY <1>3, <1>4, <1>5

LEMMA HeldStep ==
    ASSUME DataOK, JobsHeld, [Next]_vars
    PROVE  JobsHeld'
<1>1. CASE QueueMoves
  BY <1>1, HeldUnaffected DEF QueueMoves, memory, table
<1>2. CASE RecoveryStep
  <2>1. CASE Dispatch \/ Flushed \/ Defer
    BY <2>1, HeldUnaffected DEF Dispatch, Flushed, Defer, table
  <2>2. CASE RecoveryAborted \/ RecoverAgain \/ DurableRetryFires
    BY <2>2, HeldUnaffected DEF RecoveryAborted, RecoverAgain, DurableRetryFires, table
  <2> QED
    BY <1>2, <2>1, <2>2, HeldOfRecovery DEF RecoveryStep
<1>3. CASE Faulting
  <2>1. CASE RecoveryFails
    BY <2>1, HeldUnaffected DEF RecoveryFails, table
  <2>2. ASSUME NEW r \in Runs, LateFailRefused(r) \/ \E t \in Tasks : AskRefused(r, t)
        PROVE  JobsHeld'
    BY <2>2, HeldUnaffected DEF LateFailRefused, AskRefused, table
  <2> QED
    BY <1>3, <2>1, <2>2, HeldOfExecutions DEF Faulting
<1>4. CASE Start \/ Close \/ CloseFlushes \/ Closed
  BY <1>4, HeldUnaffected DEF Start, Close, CloseFlushes, Closed, table
<1>5. CASE Crash
  <2>1. /\ exec' = [r \in Runs |-> NotExecuting] /\ UNCHANGED <<content, job>>
        /\ NotExecuting.at = "idle"
    BY <1>5 DEF Crash, table, NotExecuting
  <2> QED
    BY <2>1 DEF JobsHeld, Claimed
<1>6. CASE UNCHANGED vars
  BY <1>6, HeldUnaffected DEF vars, table
<1> QED
  BY <1>1, <1>2, <1>3, <1>4, <1>5, <1>6, HeldOfRequests, HeldOfExecutions DEF Next

-----------------------------------------------------------------------------
\* A shutdown stops the timers first, then waits for the recovery and the requests,
\* and then for the queue.
Quieting ==
    /\ life \in {"closing", "flushing", "closed"} =>
         durable = {} /\ ~again /\ \A r \in Runs : retry[r] = NoClaim
    /\ life \in {"flushing", "closed", "crashed"} => recovery.at = "off"
    /\ life \in {"flushing", "closed"} =>
         \A r \in Runs, t \in Tasks : task[r][t] = NoClaim
    /\ life = "closed" => Queue!Outstanding = {} /\ ~timer

\* The process changes by its start, the steps of its shutdown and a crash; one that
\* does not run only starts.
LEMMA LifeGoes ==
    ASSUME Next, life' # life
    PROVE  Start \/ Close \/ CloseFlushes \/ Closed \/ Crash
<1>1. ASSUME NEW r \in Runs PROVE ~Commit(r) /\ ~Read(r) /\ ~TimePasses(r)
  BY DEF Commit, Read, TimePasses, memory
<1>2. ASSUME NEW r \in Runs PROVE ~Persisting(r) /\ ~Executing(r)
  BY DEF Persisting, RetryFires, LateFail, Ask, Executing, Begin, Claim, NothingToClaim,
         Project, Settle, Superseded, Fail
<1>3. ~QueueMoves /\ ~RecoveryStep
  BY DEF QueueMoves, memory, RecoveryStep, Sweep, InsertMissing, RecoverChangedBlocked,
         Dispatch, Flushed, Defer, RecoveryAborted, RecoverAgain, DurableRetryFires
<1>4. ~Faulting
  BY DEF Faulting, RecoveryFails, ClaimRefused, StepFails, FailRefused, LateFailRefused,
         AskRefused
<1> QED
  BY <1>1, <1>2, <1>3, <1>4 DEF Next

LEMMA NotAlive ==
    ASSUME life \in {"closed", "crashed"}, Next
    PROVE  Start \/ \E r \in Runs : TimePasses(r)
<1> USE DEF Alive
<1>1. ASSUME NEW r \in Runs PROVE ~Commit(r) /\ ~Read(r)
  BY DEF Commit, Read
<1>2. ASSUME NEW r \in Runs PROVE ~Persisting(r) /\ ~Executing(r)
  BY DEF Persisting, RetryFires, LateFail, Ask, Executing, Begin, Claim, NothingToClaim,
         Project, Settle, Superseded, Fail
<1>3. ~QueueMoves /\ ~RecoveryStep
  BY DEF QueueMoves, RecoveryStep, Sweep, InsertMissing, RecoverChangedBlocked, At,
         Dispatch, Flushed, Defer, RecoveryAborted, RecoverAgain, DurableRetryFires
<1>4. ~Faulting
  BY DEF Faulting, RecoveryFails, ClaimRefused, StepFails, FailRefused, LateFailRefused,
         AskRefused
<1>5. ~Close /\ ~CloseFlushes /\ ~Closed /\ ~Crash
  BY DEF Close, CloseFlushes, Closed, Crash
<1> QED
  BY <1>1, <1>2, <1>3, <1>4, <1>5 DEF Next

\* A recovery flushes the queue where it says so, and until it dispatches has passed
\* no job.
RecoveryOK ==
    /\ flusher["recovery"] # "idle" <=> recovery.at = "flushing"
    /\ recovery.at \in {"sweeping", "inserting", "unblocking"} => recovery.cursor = 0

LEMMA RecoveryInitially == Init => RecoveryOK
BY DEF Init, RecoveryOK, Queue!QueueInit

LEMMA RecoveryUnaffected ==
    ASSUME RecoveryOK, UNCHANGED <<flusher, recovery>>
    PROVE  RecoveryOK'
BY DEF RecoveryOK

LEMMA RecoveryGoes ==
    ASSUME MemoryOK, RecoveryOK, UNCHANGED flusher, NEW step \in RecoverySteps \ {"flushing"},
           Go(step), recovery.at # "flushing",
           step \in {"inserting", "unblocking"} => recovery.at \in {"sweeping", "inserting"},
           step # "sweeping"
    PROVE  RecoveryOK'
<1>1. recovery'.at = step /\ recovery'.cursor = recovery.cursor
  BY DEF Go, MemoryOK
<1> QED
  BY <1>1 DEF RecoveryOK

LEMMA RecoveryEnds ==
    ASSUME RecoveryOK, UNCHANGED flusher, recovery.at # "flushing",
           recovery' \in {Recovering, NotRecovering}
    PROVE  RecoveryOK'
BY DEF RecoveryOK, Recovering, NotRecovering

LEMMA RecoveryOKStep ==
    ASSUME MemoryOK, QueueOK, Quieting, RecoveryOK, [Next]_vars
    PROVE  RecoveryOK'
<1>1. ASSUME NEW r \in Runs, Commit(r) \/ Read(r) \/ TimePasses(r) \/ Persisting(r)
      PROVE  RecoveryOK'
  <2>1. UNCHANGED <<flusher, recovery>>
    BY <1>1 DEF Commit, Read, TimePasses, memory, Persisting, RetryFires, LateFail, Ask,
                queueVars, Queue!Enqueue
  <2> QED
    BY <2>1, RecoveryUnaffected
<1>2. ASSUME NEW r \in Runs, Executing(r) PROVE RecoveryOK'
  <2>1. UNCHANGED <<flusher, recovery>>
    BY <1>2 DEF Executing, Begin, Claim, NothingToClaim, Project, Settle, Superseded,
                Fail, Leave, queueVars, Queue!JobStarts, Queue!EndsAsking
  <2> QED
    BY <2>1, RecoveryUnaffected
<1>3. CASE QueueMoves
  <2>1. recovery' = recovery
    BY <1>3 DEF QueueMoves, memory
  <2>2. flusher'["recovery"] = "idle" <=> flusher["recovery"] = "idle"
    <3> USE DEF QueueOK, Queue!QueueTypeOK
    <3>1. CASE Queue!TimerFires \/ Queue!DrainBegins
      BY <3>1 DEF Queue!TimerFires, Queue!DrainBegins
    <3>2. CASE Queue!DrainEnds
      BY <3>2 DEF Queue!DrainEnds
    <3>3. ASSUME NEW f \in {"recovery", "shutdown"}, Queue!FlushDrains(f)
          PROVE  flusher'["recovery"] = "idle" <=> flusher["recovery"] = "idle"
      BY <3>3 DEF Queue!FlushDrains
    <3> QED
      BY <1>3, <3>1, <3>2, <3>3 DEF QueueMoves
  <2> QED
    BY <2>1, <2>2 DEF RecoveryOK
<1>4. CASE RecoveryStep
  <2>1. CASE Sweep \/ InsertMissing \/ RecoverChangedBlocked
    <3>1. UNCHANGED flusher
      BY <2>1 DEF Sweep, InsertMissing, RecoverChangedBlocked, queueVars
    <3>2. recovery'.at \in {"inserting", "unblocking", "dispatching"}
          /\ recovery'.cursor = recovery.cursor
          /\ recovery.at \in {"sweeping", "inserting", "unblocking"}
      BY <2>1 DEF Sweep, InsertMissing, RecoverChangedBlocked, At, Go, MemoryOK
    <3> QED
      BY <3>1, <3>2 DEF RecoveryOK
  <2>2. CASE Dispatch
    <3>1. recovery.at = "dispatching"
      BY <2>2 DEF Dispatch, At
    <3>2. \/ Go("deferring") /\ UNCHANGED flusher
          \/ /\ recovery'.at = "flushing"
             /\ flusher["recovery"] = "idle"
             /\ flusher' = [flusher EXCEPT !["recovery"] = "looking"]
      BY <2>2 DEF Dispatch, queueVars, Queue!FlushAfter
    <3> QED
      BY <3>1, <3>2 DEF RecoveryOK, Go, MemoryOK, QueueOK, Queue!QueueTypeOK
  <2>3. CASE Flushed
    <3>1. flusher' = [flusher EXCEPT !["recovery"] = "idle"] /\ Go("dispatching")
      BY <2>3 DEF Flushed, Queue!FlushReturns
    <3> QED
      BY <3>1 DEF RecoveryOK, Go, MemoryOK, QueueOK, Queue!QueueTypeOK
  <2>4. CASE Defer \/ RecoveryAborted
    BY <2>4, RecoveryEnds DEF Defer, RecoveryAborted, At, RecoveryOver, queueVars
  <2>5. CASE RecoverAgain \/ DurableRetryFires
    <3>1. CASE RecoverAgain
      BY <3>1, RecoveryEnds, RecoveryUnaffected DEF RecoverAgain, queueVars
    <3>2. CASE DurableRetryFires
      BY <3>2, RecoveryEnds, RecoveryUnaffected DEF DurableRetryFires, queueVars
    <3> QED
      BY <2>5, <3>1, <3>2
  <2> QED
    BY <1>4, <2>1, <2>2, <2>3, <2>4, <2>5 DEF RecoveryStep
<1>5. CASE Faulting
  <2>1. CASE RecoveryFails
    BY <2>1, RecoveryEnds DEF RecoveryFails, RecoveryOver, queueVars
  <2>2. CASE ~RecoveryFails
    <3>1. UNCHANGED <<flusher, recovery>>
      BY <1>5, <2>2 DEF Faulting, ClaimRefused, StepFails, FailRefused, LateFailRefused,
                        AskRefused, Leave, queueVars, Queue!EndsAsking
    <3> QED
      BY <3>1, RecoveryUnaffected
  <2> QED
    BY <2>1, <2>2
<1>6. CASE Start
  <2>1. recovery.at = "off" /\ recovery' = Recovering /\ UNCHANGED flusher
    BY <1>6 DEF Start, queueVars, Quieting
  <2> QED
    BY <2>1, RecoveryEnds
<1>9. CASE Crash
  <2>1. recovery' = NotRecovering /\ flusher' = [f \in DOMAIN flusher |-> "idle"]
    BY <1>9 DEF Crash
  <2> QED
    BY <2>1 DEF RecoveryOK, NotRecovering, QueueOK, Queue!QueueTypeOK
<1>7. CASE Close \/ UNCHANGED vars
  BY <1>7, RecoveryUnaffected DEF Close, queueVars, vars
<1>8. CASE CloseFlushes \/ Closed
  <2>1. recovery' = recovery
        /\ \/ flusher' = [flusher EXCEPT !["shutdown"] = "looking"]
           \/ flusher' = [flusher EXCEPT !["shutdown"] = "idle"]
    BY <1>8 DEF CloseFlushes, Closed, Queue!FlushCalled, Queue!FlushAfter, Queue!FlushReturns
  <2> QED
    BY <2>1 DEF RecoveryOK, QueueOK, Queue!QueueTypeOK
<1> QED
  BY <1>1, <1>2, <1>3, <1>4, <1>5, <1>6, <1>7, <1>8, <1>9 DEF Next

LEMMA QuietInitially == Init => Quieting
BY DEF Init, Quieting, Queue!QueueInit, Queue!Outstanding

\* What a step may do while the application shuts down.
LEMMA QuietStays ==
    ASSUME DataOK, MemoryOK, Quieting, life \in {"closing", "flushing"}, life' = life,
           durable' = durable \/ \E r \in Runs : ScheduleDurableRetry(r),
           again' = again \/ \E failed \in BOOLEAN : RecoveryOver(failed),
           retry' = retry \/ \E r \in Runs : ClearRetry(r) \/ \E claim : SetRetry(r, claim),
           life = "flushing" => UNCHANGED <<task, recovery>>
    PROVE  Quieting'
<1>1. durable' = {}
  BY DEF Quieting, ScheduleDurableRetry, ShuttingDown
<1>2. ~again'
  BY DEF Quieting, RecoveryOver, ShuttingDown
<1>3. \A r \in Runs : retry'[r] = NoClaim
  BY DEF Quieting, MemoryOK, ClearRetry, SetRetry, ShuttingDown
<1> QED
  BY <1>1, <1>2, <1>3 DEF Quieting

LEMMA QuietOfRequests ==
    ASSUME DataOK, MemoryOK, Quieting, life \in {"closing", "flushing"}, NEW r \in Runs,
           Persisting(r) \/ LateFailRefused(r) \/ \E t \in Tasks : AskRefused(r, t)
    PROVE  Quieting'
<1>1. life = "flushing" => \A t \in Tasks : task[r][t].req = "none"
  BY DEF Quieting, NoClaim
<1>2. ASSUME NEW t \in Tasks, Ask(r, t) PROVE Quieting'
  <2>1. life = "closing"
    BY <1>1, <1>2 DEF Ask, Asked
  <2> QED
    BY <1>2, <2>1, QuietStays DEF Ask
<1>3. ASSUME NEW t \in Tasks, AskRefused(r, t) PROVE Quieting'
  <2>1. life = "closing"
    BY <1>1, <1>3 DEF AskRefused, Asked
  <2> QED
    BY <1>3, <2>1, QuietStays DEF AskRefused, Refused
<1>4. CASE LateFail(r)
  <2>1. life = "closing"
    BY <1>1, <1>4 DEF LateFail, Tasks
  <2>2. /\ life' = life /\ again' = again
        /\ durable' = durable \/ ScheduleDurableRetry(r)
        /\ retry' = retry \/ ClearRetry(r)
    BY <1>4 DEF LateFail, WriteFailure
  <2> QED
    BY <2>1, <2>2, QuietStays
<1>5. CASE LateFailRefused(r)
  <2>1. life = "closing"
    BY <1>1, <1>5 DEF LateFailRefused, Tasks
  <2> QED
    BY <1>5, <2>1, QuietStays DEF LateFailRefused, Refused
<1>6. ~RetryFires(r)
  BY DEF RetryFires
<1> QED
  BY <1>2, <1>3, <1>4, <1>5, <1>6 DEF Persisting

LEMMA QuietOfExecutions ==
    ASSUME DataOK, MemoryOK, Quieting, life \in {"closing", "flushing"}, NEW r \in Runs,
           Executing(r) \/ ClaimRefused(r) \/ StepFails(r) \/ FailRefused(r)
    PROVE  Quieting'
<1>1. CASE Begin(r) \/ Claim(r) \/ NothingToClaim(r) \/ Project(r) \/ Superseded(r)
  BY <1>1, QuietStays DEF Begin, Claim, NothingToClaim, Project, Superseded
<1>2. CASE StepFails(r) \/ ClaimRefused(r) \/ FailRefused(r) \/ Settle(r)
  BY <1>2, QuietStays DEF StepFails, ClaimRefused, FailRefused, Refused, Settle
<1>3. CASE Fail(r)
  <2>1. durable' = durable \/ ScheduleDurableRetry(r)
    BY <1>3 DEF Fail, WriteFailure
  <2> QED
    BY <1>3, <2>1, QuietStays DEF Fail, WriteFailure
<1> QED
  BY <1>1, <1>2, <1>3 DEF Executing

LEMMA QuietOfRecovery ==
    ASSUME DataOK, MemoryOK, RecoveryOK, Quieting,
           life \in {"closing", "flushing"}, RecoveryStep \/ RecoveryFails
    PROVE  Quieting'
<1>1. ~InsertMissing /\ ~RecoverChangedBlocked /\ ~Dispatch
      /\ ~RecoverAgain /\ ~DurableRetryFires
  BY DEF InsertMissing, RecoverChangedBlocked, Dispatch, RecoverAgain,
         DurableRetryFires, ShuttingDown
<1>7. CASE Sweep
  <2>1. life = "closing"
    BY <1>7 DEF Sweep, At, Quieting
  <2> QED
    BY <1>7, <2>1, QuietStays DEF Sweep
<1>2. CASE Defer
  <2>1. life = "closing"
    BY <1>2 DEF Defer, At, Quieting
  <2>2. /\ life' = life /\ RecoveryOver(FALSE) /\ retry' = retry
        /\ durable' = durable \/ \E r \in Runs : ScheduleDurableRetry(r)
    BY <1>2 DEF Defer
  <2> QED
    BY <2>1, <2>2, QuietStays
<1>3. CASE RecoveryAborted
  <2>1. life = "closing"
    BY <1>3 DEF RecoveryAborted, Quieting
  <2> QED
    BY <1>3, <2>1, QuietStays DEF RecoveryAborted
<1>4. CASE RecoveryFails
  <2>1. life = "closing"
    BY <1>4 DEF RecoveryFails, Quieting
  <2> QED
    BY <1>4, <2>1, QuietStays DEF RecoveryFails
<1>5. CASE Flushed /\ life = "closing"
  BY <1>5, QuietStays DEF Flushed
<1>6. CASE Flushed /\ life = "flushing"
  BY <1>6 DEF Flushed, Queue!FlushReturns, RecoveryOK, Quieting
<1> QED
  BY <1>1, <1>2, <1>3, <1>4, <1>5, <1>6, <1>7 DEF RecoveryStep

LEMMA QuietStep ==
    ASSUME DataOK, MemoryOK, QueueOK, RecoveryOK, Quieting, [Next]_vars
    PROVE  Quieting'
<1>1. CASE life' = "up"
  BY <1>1 DEF Quieting
<1>2. CASE UNCHANGED vars
  BY <1>2 DEF vars, queueVars, Quieting, Queue!Outstanding
<1> SUFFICES ASSUME Next, life' # "up" PROVE Quieting'
  BY <1>1, <1>2
<1>3. CASE Close
  BY <1>3 DEF Close, Quieting
<1>4. CASE CloseFlushes
  BY <1>4 DEF CloseFlushes, Quieting
<1>5. CASE Closed
  <2>1. life = "flushing" /\ Queue!FlushReturns("shutdown")
        /\ UNCHANGED <<task, retry, durable, recovery, again>>
    BY <1>5 DEF Closed
  <2>2. Queue!Outstanding' = {} /\ ~timer'
    BY <2>1 DEF QueueOK, Queue!OneDrain, Queue!FlushReturns, Queue!NothingToFlush,
                Queue!Outstanding
  <2> QED
    BY <1>5, <2>1, <2>2 DEF Closed, Quieting
<1>6. ASSUME NEW r \in Runs, Commit(r) \/ Read(r) PROVE FALSE
  BY <1>6 DEF Commit, Read
<1>7. ASSUME NEW r \in Runs, TimePasses(r) PROVE Quieting'
  BY <1>7 DEF TimePasses, memory, queueVars, Quieting, Queue!Outstanding
<1>8. ~Start
  BY DEF Start
<1>13. CASE Crash
  BY <1>13 DEF Crash, NotRecovering, Quieting
<1>9. CASE QueueMoves
  BY <1>9, QuietStays DEF QueueMoves, Alive, memory
<1>10. CASE life \in {"closing", "flushing"}
  BY <1>3, <1>4, <1>5, <1>6, <1>7, <1>8, <1>9, <1>10, <1>13, QuietOfRequests,
     QuietOfExecutions, QuietOfRecovery DEF Next, Faulting
<1>11. CASE life = "up"
  BY <1>3, <1>8, <1>11, <1>13, LifeGoes DEF CloseFlushes, Closed
<1>12. CASE life \in {"closed", "crashed"}
  BY <1>7, <1>8, <1>12, NotAlive
<1> QED
  BY <1>10, <1>11, <1>12 DEF MemoryOK, Lives

-----------------------------------------------------------------------------
\* The inductive invariant of the projector.
ProjectorInv ==
    ProjectionInv /\ MemoryOK /\ QueueOK /\ RecoveryOK /\ JobsHeld /\ Quieting

LEMMA ProjectorInitially == Init => ProjectorInv
BY ProjectionInitially, MemoryInitially, QueueInitially, RecoveryInitially,
   HeldInitially, QuietInitially DEF ProjectorInv

LEMMA ProjectorStep ==
    ASSUME ProjectorInv, [Next]_vars
    PROVE  ProjectorInv'
BY ProjectionStep, MemoryStep, QueueStep, RecoveryOKStep, HeldStep, QuietStep
   DEF ProjectorInv, ProjectionInv

THEOREM ProjectorInductive == Spec => []ProjectorInv
BY ProjectorInitially, ProjectorStep, PTL DEF Spec

\* The projector is in order (projection-queue.ts of the content cards): its variables
\* have their types, what is completed is current, and a shutdown leaves nothing
\* running, timed or waiting.
THEOREM ProjectorIsSound == Spec => []ProjectorSound
<1>1. ProjectorInv => TypeOK
  <2> SUFFICES ASSUME ProjectorInv PROVE TypeOK
    OBVIOUS
  <2>1. durable \subseteq [run : Runs, att : Nat] /\ Cardinality(durable) <= 1
    <3>1. CASE durable = {}
      BY <3>1, FS_EmptySet
    <3>2. CASE \E d \in [run : Runs, att : Nat] : durable = {d}
      BY <3>2, FS_Singleton
    <3> QED
      BY <3>1, <3>2 DEF ProjectorInv, MemoryOK
  <2> QED
    BY <2>1 DEF ProjectorInv, ProjectionInv, DataOK, MemoryOK, QueueOK, TypeOK, Jobs,
                Executions, Places, RecoverySteps, Lives, Bounds
<1>2. ProjectorInv => ClosedIsQuiet
  BY DEF ProjectorInv, Quieting, ClosedIsQuiet
<1> QED
  BY <1>1, <1>2, ProjectorInductive, CompletedStaysCurrent, PTL DEF ProjectorSound

-----------------------------------------------------------------------------
\* A request that comes back by no timer: its own is taken, or it is given up.
Dropped(r) ==
    \/ left'.faults < left.faults /\ retry[r] # NoClaim
    \/ left'.bugs < left.bugs /\ retry' = retry

\* What a step leaves of the drive of a job.
Kept(r) == Stranded(r)' /\ ~Stranded(r) => EndsRequest(r) /\ Dropped(r)

RequestsOf(r) == {retry[r]} \cup {task[r][t] : t \in Tasks}
Recovers == recovery.at = "sweeping" \/ wake \/ (again /\ recovery.at = "off")
Ahead(r) ==
    \/ r \in Queue!Outstanding
    \/ recovery.at \in {"inserting", "unblocking"}
    \/ recovery.at \in {"flushing", "dispatching"} /\ r > recovery.cursor

LEMMA DrivenBy ==
    ASSUME NEW r \in Runs
    PROVE  Driven(r) <=> \/ \E claim \in RequestsOf(r) : Comes(r, claim)
                         \/ exec[r].at \notin {"idle", "claiming"}
                         \/ Recovers
                         \/ job[r].status # "running" /\ Ahead(r)
BY DEF Driven, RequestsOf, Recovers, Ahead

\* A step that leaves a job as it is, and takes from it only what does not come to it
\* or is followed by something that does.
LEMMA DriveStays ==
    ASSUME NEW r \in Runs, life' = "up" => life = "up", job'[r] = job[r],
           \A claim \in RequestsOf(r) : claim \in RequestsOf(r)' \/ ~Comes(r, claim),
           exec[r].at \notin {"idle", "claiming"} => exec'[r].at \notin {"idle", "claiming"},
           Recovers => Recovers',
           job[r].status = "pending" /\ Ahead(r) => Ahead(r)'
    PROVE  Kept(r)
<1> SUFFICES ASSUME Stranded(r)', ~Stranded(r) PROVE FALSE
  BY DEF Kept
<1>1. life = "up" /\ job[r].status \in {"pending", "running"} /\ Driven(r) /\ ~Driven(r)'
  BY DEF Stranded
<1>2. \A claim : Comes(r, claim) => Comes(r, claim)'
  BY DEF Comes
<1>3. Driven(r)' <=> \/ \E claim \in RequestsOf(r)' : Comes(r, claim)'
                     \/ exec'[r].at \notin {"idle", "claiming"}
                     \/ Recovers'
                     \/ job'[r].status # "running" /\ Ahead(r)'
  BY DEF Driven, RequestsOf, Recovers, Ahead
<1> QED
  BY <1>1, <1>2, <1>3, DrivenBy

\* The common case: nothing that is asked or held for the job changes.
LEMMA DriveUnaffected ==
    ASSUME NEW r \in Runs, life' = "up" => life = "up", job'[r] = job[r],
           retry'[r] = retry[r], task'[r] = task[r],
           exec[r].at \notin {"idle", "claiming"} => exec'[r].at \notin {"idle", "claiming"},
           UNCHANGED <<recovery, wake, again>>,
           job[r].status = "pending" /\ r \in Queue!Outstanding => r \in Queue!Outstanding'
    PROVE  Kept(r)
<1>1. RequestsOf(r)' = RequestsOf(r)
  BY DEF RequestsOf
<1>2. Recovers => Recovers'
  BY DEF Recovers
<1>3. job[r].status = "pending" /\ Ahead(r) => Ahead(r)'
  BY DEF Ahead
<1> QED
  BY <1>1, <1>2, <1>3, DriveStays

\* A job that is given up or done, or that something is made to come to.
LEMMA NotToBeDone ==
    ASSUME NEW r \in Runs, job'[r].status \notin {"pending", "running"} \/ life' # "up"
    PROVE  Kept(r)
BY DEF Kept, Stranded

LEMMA DrivenAnew ==
    ASSUME NEW r \in Runs, Driven(r)'
    PROVE  Kept(r)
BY DEF Kept, Stranded

\* A request goes from one place to another, or is one that does not come to the job.
LEMMA NoClaimComes == \A r : ~Comes(r, NoClaim)
BY DEF Comes, NoClaim, Asked

LEMMA DriveOfNewRequests ==
    ASSUME ProjectorInv, NEW r \in Runs, NEW q \in Runs,
           Commit(q) \/ Read(q) \/ RetryFires(q)
    PROVE  Kept(r)
<1>1. task \in [Runs -> [Tasks -> Claims]] /\ retry \in [Runs -> Claims]
      /\ Tasks = {"commit", "read", "timer"}
  BY DEF ProjectorInv, MemoryOK, Tasks
<1>2. UNCHANGED <<job, exec, recovery, wake, again, life, queueVars>>
  BY DEF Commit, Read, RetryFires, table
<1>3. \A claim \in RequestsOf(r) : claim \in RequestsOf(r)' \/ ~Comes(r, claim)
  <2>1. CASE Commit(q) \/ Read(q)
    <3>1. PICK t, c : /\ t \in Tasks /\ task[q][t] = NoClaim
                       /\ task' = [task EXCEPT ![q][t] = c] /\ retry' = retry
      BY <2>1, <1>1 DEF Commit, Read
    <3>2. \A u \in Tasks : task'[r][u] = task[r][u] \/ task[r][u] = NoClaim
      BY <3>1, <1>1
    <3> QED
      BY <3>1, <3>2, NoClaimComes DEF RequestsOf
  <2>2. CASE RetryFires(q)
    <3>1. /\ task' = [task EXCEPT ![q]["timer"] = retry[q]] /\ task[q]["timer"] = NoClaim
          /\ retry' = [retry EXCEPT ![q] = NoClaim]
      BY <2>2 DEF RetryFires, ClearRetry
    <3>2. \A u \in Tasks : task'[r][u] = task[r][u] \/ task[r][u] = NoClaim
      BY <3>1, <1>1
    <3>3. retry'[r] = retry[r] \/ task'[r]["timer"] = retry[r]
      BY <3>1, <1>1
    <3> QED
      BY <3>2, <3>3, <1>1, NoClaimComes DEF RequestsOf
  <2> QED
    BY <2>1, <2>2
<1> QED
  BY <1>2, <1>3, DriveStays DEF Recovers, Ahead, queueVars, Queue!Outstanding

\* Where a request of another run is answered.
LEMMA DriveOfOthers ==
    ASSUME ProjectorInv, NEW r \in Runs, NEW q \in Runs, r # q,
           \/ \E t \in Tasks : Ask(q, t) \/ AskRefused(q, t)
           \/ LateFail(q) \/ LateFailRefused(q)
    PROVE  Kept(r)
<1>1. task \in [Runs -> [Tasks -> Claims]] /\ retry \in [Runs -> Claims]
      /\ job \in [Runs -> Jobs]
  BY DEF ProjectorInv, ProjectionInv, DataOK, MemoryOK
<1>2. UNCHANGED <<exec, recovery, wake, again, life>>
  BY DEF Ask, AskRefused, LateFail, LateFailRefused
<1>3. task'[r] = task[r]
  BY <1>1 DEF Ask, AskRefused, LateFail, LateFailRefused
<1>4. retry'[r] = retry[r]
  BY <1>1 DEF Ask, AskRefused, LateFail, LateFailRefused, Refused, ClearRetry, SetRetry,
              WriteFailure
<1>5. job'[r] = job[r]
  BY <1>1 DEF Ask, AskRefused, LateFail, LateFailRefused, WriteFailure, table
<1>6. Queue!Outstanding \subseteq Queue!Outstanding'
  BY DEF Ask, AskRefused, LateFail, LateFailRefused, queueVars, Queue!Enqueue,
         Queue!Schedule, Queue!Outstanding
<1> QED
  BY <1>2, <1>3, <1>4, <1>5, <1>6, DriveUnaffected

\* persistAndWake makes the job one to be done, and enqueues it; or it is one already,
\* and is enqueued; or it is not to be done.
LEMMA DriveOfAsk ==
    ASSUME ProjectorInv, NEW r \in Runs, NEW t \in Tasks, Ask(r, t)
    PROVE  Kept(r)
<1> DEFINE req == task[r][t].req
<1>1. /\ req \in Asked
      /\ job' = IF content[r] = 0 THEN job ELSE [job EXCEPT ![r] = Granted(r, req)]
      /\ IF Wakes(r, req) THEN ClearRetry(r) /\ Queue!Enqueue(r)
         ELSE UNCHANGED <<retry, queueVars>>
      /\ task' = [task EXCEPT ![r][t] = NoClaim]
      /\ UNCHANGED <<content, exec, recovery, wake, again, life>>
  BY DEF Ask
<1>2. task \in [Runs -> [Tasks -> Claims]] /\ job \in [Runs -> Jobs]
      /\ (job[r].status # "none" => content[r] # 0)
  BY DEF ProjectorInv, ProjectionInv, DataOK, MemoryOK, JobsHeld
<1>3. Made(job[r]).status = "pending"
  BY <1>2, MadeIsPending
<1>4. CASE content[r] = 0
  BY <1>1, <1>2, <1>4, NotToBeDone
<1>5. CASE Wakes(r, req)
  <2>1. job'[r] = Granted(r, req) /\ r \in Queue!Outstanding'
    BY <1>1, <1>2, <1>5 DEF Wakes, Queue!Enqueue, Queue!Schedule, Queue!Outstanding
  <2>2. Granted(r, req).status # "running"
    <3>1. CASE req = "repaired"
      BY <1>3, <1>5, <3>1 DEF Wakes, Granted, Ensured
    <3>2. CASE req # "repaired"
      BY <1>3, <3>2 DEF Granted, MarkedDirty, Ensured
    <3> QED
      BY <3>1, <3>2
  <2> QED
    BY <2>1, <2>2, DrivenAnew DEF Driven
<1>6. CASE content[r] # 0 /\ ~Wakes(r, req) /\ req # "repaired"
  <2>1. job'[r] = Granted(r, req) /\ ~Waiting(Granted(r, req))
    BY <1>1, <1>2, <1>6 DEF Wakes
  <2>2. Granted(r, req).status # "running"
    BY <1>3, <1>6 DEF Granted, MarkedDirty, Ensured
  <2> QED
    BY <2>1, <2>2, NotToBeDone DEF Waiting
<1>7. CASE content[r] # 0 /\ ~Wakes(r, req) /\ req = "repaired"
  <2>1. job'[r] = job[r] /\ UNCHANGED <<retry, queueVars>>
    BY <1>1, <1>2, <1>7 DEF Wakes
  <2>2. ~Comes(r, task[r][t])
    BY <1>7 DEF Comes
  <2>3. \A u \in Tasks : task'[r][u] = task[r][u] \/ ~Comes(r, task[r][u])
    BY <1>1, <1>2, <2>2
  <2>4. \A claim \in RequestsOf(r) : claim \in RequestsOf(r)' \/ ~Comes(r, claim)
    BY <2>1, <2>3 DEF RequestsOf
  <2> QED
    BY <1>1, <2>1, <2>4, DriveStays DEF Recovers, Ahead, queueVars, Queue!Outstanding
<1> QED
  BY <1>4, <1>5, <1>6, <1>7

\* A refused request comes back by the timer of its run, unless that is taken or the
\* request is given up.
LEMMA DriveOfRefused ==
    ASSUME ProjectorInv, NEW r \in Runs, NEW claim, Refused(r, claim), life' = life
    PROVE  \/ life' # "up" \/ Dropped(r)
           \/ retry[r] = NoClaim /\ retry'[r] = claim
<1>1. left \in Bounds /\ retry \in [Runs -> Claims]
  BY DEF ProjectorInv, MemoryOK
<1>2. CASE Spend("faults") /\ SetRetry(r, claim)
  <2>1. left'.faults < left.faults
    BY <1>1, <1>2 DEF Spend, Bounds
  <2> QED
    BY <1>1, <1>2, <2>1 DEF SetRetry, ShuttingDown, Dropped
<1>3. CASE Spend("bugs") /\ UNCHANGED retry
  BY <1>1, <1>3 DEF Spend, Bounds, Dropped
<1> QED
  BY <1>2, <1>3 DEF Refused

LEMMA DriveOfAskRefused ==
    ASSUME ProjectorInv, NEW r \in Runs, NEW t \in Tasks,
           AskRefused(r, t) \/ (t = "timer" /\ LateFailRefused(r))
    PROVE  Kept(r)
<1>1. /\ Refused(r, task[r][t]) /\ task[r][t].req # "none"
      /\ task' = [task EXCEPT ![r][t] = NoClaim]
      /\ UNCHANGED <<job, exec, recovery, wake, again, life, queueVars>>
  BY DEF AskRefused, LateFailRefused, Asked, table
<1>2. \/ life' # "up" \/ Dropped(r)
      \/ retry[r] = NoClaim /\ retry'[r] = task[r][t]
  BY <1>1, DriveOfRefused
<1>3. task \in [Runs -> [Tasks -> Claims]]
  BY DEF ProjectorInv, MemoryOK
<1>4. CASE life' # "up"
  BY <1>4, NotToBeDone
<1>5. CASE Dropped(r)
  <2>1. task'[r][t] = NoClaim /\ task[r][t] # NoClaim
    BY <1>1, <1>3 DEF NoClaim
  <2> QED
    BY <1>5, <2>1 DEF Kept, EndsRequest
<1>6. CASE life' = "up" /\ retry[r] = NoClaim /\ retry'[r] = task[r][t]
  <2>1. \A u \in Tasks : task'[r][u] = task[r][u] \/ u = t
    BY <1>1, <1>3
  <2>2. \A claim \in RequestsOf(r) : claim \in RequestsOf(r)' \/ ~Comes(r, claim)
    BY <1>6, <2>1, NoClaimComes DEF RequestsOf
  <2> QED
    BY <1>1, <2>2, DriveStays DEF Recovers, Ahead, queueVars, Queue!Outstanding
<1> QED
  BY <1>2, <1>4, <1>5, <1>6

\* persistProjectionFailure by the timer ends the job, or finds another generation
\* and enqueues it.
LEMMA DriveOfLateFail ==
    ASSUME ProjectorInv, NEW r \in Runs, LateFail(r)
    PROVE  Kept(r)
<1> DEFINE claim == task[r]["timer"]
<1>1. /\ claim.req \in {"retryable", "terminal"}
      /\ task' = [task EXCEPT ![r]["timer"] = NoClaim]
      /\ UNCHANGED <<exec, recovery, wake, again, life>>
      /\ \/ WriteFailure(r, claim)
         \/ ~Holds(r, claim) /\ Queue!Enqueue(r) /\ UNCHANGED <<job, retry>>
  BY DEF LateFail
<1>2. task \in [Runs -> [Tasks -> Claims]] /\ job \in [Runs -> Jobs] /\ "timer" \in Tasks
      /\ DataOK
  BY DEF ProjectorInv, ProjectionInv, DataOK, MemoryOK, Tasks
<1>3. CASE WriteFailure(r, claim)
  BY <1>2, <1>3, FailedJob, NotToBeDone DEF WriteFailure
<1>4. CASE ~Holds(r, claim) /\ Queue!Enqueue(r) /\ UNCHANGED <<job, retry>>
  <2>1. r \in Queue!Outstanding'
    BY <1>4 DEF Queue!Enqueue, Queue!Schedule, Queue!Outstanding
  <2>2. CASE job[r].status # "running"
    BY <1>4, <2>1, <2>2, DrivenAnew DEF Driven
  <2>3. CASE job[r].status = "running"
    <3>1. ~Comes(r, claim)
      BY <1>1, <1>4, <2>3 DEF Comes, Holds, Asked
    <3>2. \A u \in Tasks : task'[r][u] = task[r][u] \/ ~Comes(r, task[r][u])
      BY <1>1, <1>2, <3>1
    <3>3. \A c \in RequestsOf(r) : c \in RequestsOf(r)' \/ ~Comes(r, c)
      BY <1>4, <3>2 DEF RequestsOf
    <3> QED
      BY <1>1, <1>4, <2>3, <3>3, DriveStays DEF Recovers
  <2> QED
    BY <2>2, <2>3
<1> QED
  BY <1>1, <1>3, <1>4

\* The executions of another run.
LEMMA DriveOfOtherExecutions ==
    ASSUME ProjectorInv, NEW r \in Runs, NEW q \in Runs, r # q,
           Executing(q) \/ ClaimRefused(q) \/ StepFails(q) \/ FailRefused(q)
    PROVE  Kept(r)
<1>1. /\ job \in [Runs -> Jobs] /\ exec \in [Runs -> Executions]
      /\ retry \in [Runs -> Claims]
  BY DEF ProjectorInv, ProjectionInv, DataOK, MemoryOK
<1>2. UNCHANGED <<task, recovery, wake, again, life>>
  BY DEF Executing, Begin, Claim, NothingToClaim, Project, Settle, Superseded, Fail,
         ClaimRefused, StepFails, FailRefused
<1>3. job'[r] = job[r]
  BY <1>1 DEF Executing, Begin, Claim, NothingToClaim, Project, Settle, Superseded, Fail,
              ClaimRefused, StepFails, FailRefused, WriteFailure, table
<1>4. exec'[r] = exec[r]
  BY <1>1 DEF Executing, Begin, Claim, NothingToClaim, Project, Settle, Superseded, Fail,
              ClaimRefused, StepFails, FailRefused, Leave
<1>5. retry'[r] = retry[r]
  BY <1>1 DEF Executing, Begin, Claim, NothingToClaim, Project, Settle, Superseded, Fail,
              ClaimRefused, StepFails, FailRefused, Refused, WriteFailure, SetRetry,
              ClearRetry
<1>6. r \in Queue!Outstanding => r \in Queue!Outstanding'
  <2>1. \/ UNCHANGED queueVars \/ Queue!JobStarts(q)
        \/ Queue!EndsAsking(q, {}) \/ Queue!EndsAsking(q, {q})
    BY DEF Executing, Begin, Claim, NothingToClaim, Project, Settle, Superseded, Fail,
           ClaimRefused, StepFails, FailRefused, Leave
  <2> QED
    BY <2>1 DEF queueVars, Queue!JobStarts, Queue!EndsAsking, Queue!Schedule,
                Queue!Outstanding
<1> QED
  BY <1>2, <1>3, <1>4, <1>5, <1>6, DriveUnaffected

\* The execution of a run leaves its job settled, enqueued anew or with a retry.
LEMMA DriveOfExecutions ==
    ASSUME ProjectorInv, NEW r \in Runs,
           Executing(r) \/ ClaimRefused(r) \/ StepFails(r) \/ FailRefused(r)
    PROVE  Kept(r)
<1>1. /\ DataOK /\ job \in [Runs -> Jobs] /\ exec \in [Runs -> Executions]
      /\ retry \in [Runs -> Claims] /\ left \in Bounds /\ JobsHeld
  BY DEF ProjectorInv, ProjectionInv, DataOK, MemoryOK
<1>2. CASE Begin(r)
  <2>1. /\ r \in batch /\ batch' = batch \ {r} /\ busy' = busy \cup {r}
        /\ UNCHANGED <<dirty, scheduled>>
    BY <1>2 DEF Begin, Queue!JobStarts
  <2>2. exec[r].at = "idle"
    BY <2>1 DEF ProjectorInv, QueueOK, Queue!OneDrain
  <2>3. Queue!Outstanding' = Queue!Outstanding
    BY <2>1 DEF Queue!Outstanding
  <2> QED
    BY <1>2, <2>2, <2>3, DriveUnaffected DEF Begin, table
<1>3. CASE Claim(r)
  <2>1. exec'[r].at = "projecting"
    BY <1>1, <1>3 DEF Claim, Executions
  <2> QED
    BY <2>1, DrivenAnew DEF Driven
<1>4. CASE NothingToClaim(r)
  <2>1. job[r].status # "pending" /\ exec[r].at = "claiming"
    BY <1>4 DEF NothingToClaim, Waiting
  <2> QED
    BY <1>4, <2>1, DriveUnaffected DEF NothingToClaim, table
<1>5. CASE Project(r) \/ StepFails(r)
  <2>1. exec'[r].at \in {"blocking", "completing", "failing"}
    BY <1>1, <1>5 DEF Project, StepFails, Executions
  <2> QED
    BY <2>1, DrivenAnew DEF Driven
<1>6. CASE Settle(r)
  <2>1. job'[r].status \in {"completed", "blocked"}
    BY <1>1, <1>6 DEF Settle, Jobs
  <2> QED
    BY <2>1, NotToBeDone
<1>7. CASE Superseded(r)
  <2>1. exec[r].at \in Claimed /\ ~Holds(r, exec[r].claim) /\ UNCHANGED job
    BY <1>7 DEF Superseded, Claimed, table
  <2>2. job[r].status # "running"
    BY <1>1, <2>1 DEF JobsHeld, Holds
  <2>3. r \in Queue!Outstanding'
    BY <1>7 DEF Superseded, Leave, Queue!EndsAsking, Queue!Schedule, Queue!Outstanding
  <2> QED
    BY <2>1, <2>2, <2>3, DrivenAnew DEF Driven
<1>8. CASE Fail(r)
  BY <1>1, <1>8, FailedJob, NotToBeDone DEF Fail, WriteFailure
<1>9. ASSUME NEW claim, Refused(r, claim), life' = life, Comes(r, claim)',
             exec[r].at \in {"claiming", "failing"}, exec' = [exec EXCEPT ![r] = NotExecuting]
      PROVE  Kept(r)
  <2>1. life' # "up" \/ Dropped(r) \/ retry'[r] = claim
    BY <1>9, DriveOfRefused
  <2>2. exec'[r] # exec[r]
    BY <1>1, <1>9 DEF NotExecuting
  <2>3. EndsRequest(r)
    BY <1>9, <2>2 DEF EndsRequest
  <2>4. CASE retry'[r] = claim
    BY <1>9, <2>4, DrivenAnew DEF Driven
  <2> QED
    BY <2>1, <2>3, <2>4, NotToBeDone DEF Kept
<1>10. CASE ClaimRefused(r)
  <2> DEFINE claim == [NoClaim EXCEPT !.req = "ensure"]
  <2>1. /\ Refused(r, claim) /\ life' = life /\ exec[r].at = "claiming"
        /\ exec' = [exec EXCEPT ![r] = NotExecuting]
    BY <1>10 DEF ClaimRefused, Leave
  <2>2. Comes(r, claim)'
    BY DEF Comes, NoClaim, Asked
  <2> QED
    BY <1>9, <2>1, <2>2
<1>11. CASE FailRefused(r)
  <2>1. PICK claim : claim = exec[r].claim
    OBVIOUS
  <2>2. /\ Refused(r, claim) /\ life' = life /\ job' = job /\ exec[r].at = "failing"
        /\ exec' = [exec EXCEPT ![r] = NotExecuting]
    BY <1>11, <2>1 DEF FailRefused, Leave, table
  <2>3. Comes(r, claim)'
    BY <1>1, <2>1, <2>2 DEF JobsHeld, Claimed, Comes
  <2> QED
    BY <1>9, <2>2, <2>3
<1> QED
  BY <1>2, <1>3, <1>4, <1>5, <1>6, <1>7, <1>8, <1>10, <1>11 DEF Executing

\* A recovery takes up what runs, makes what is missing, and enqueues what waits.
LEMMA DriveOfRecoveryTable ==
    ASSUME ProjectorInv, NEW r \in Runs, Sweep \/ InsertMissing \/ RecoverChangedBlocked
    PROVE  Kept(r)
<1>1. job \in [Runs -> Jobs] /\ recovery \in [at : RecoverySteps, cursor : {0} \cup Runs]
  BY DEF ProjectorInv, ProjectionInv, DataOK, MemoryOK
<1>2. /\ Made(job[r]).status = "pending"
      /\ Interrupted(job[r]).status \in {"exhausted", "failed"}
  BY <1>1, MadeIsPending, InterruptedJob
<1>3. UNCHANGED <<retry, task, exec, wake, again, life, queueVars>>
  BY DEF Sweep, InsertMissing, RecoverChangedBlocked
<1>4. /\ recovery.at \in {"sweeping", "inserting", "unblocking"}
      /\ recovery'.at \in {"inserting", "unblocking", "dispatching"}
      /\ recovery'.cursor = 0
  BY <1>1 DEF Sweep, InsertMissing, RecoverChangedBlocked, At, Go, ProjectorInv, RecoveryOK
<1>5. CASE job'[r].status # "running"
  BY <1>4, <1>5, DrivenAnew DEF Driven, Runs
<1>6. CASE job'[r].status = "running"
  <2>1. ~Sweep /\ job'[r] = job[r]
    BY <1>2, <1>6 DEF Sweep, InsertMissing, RecoverChangedBlocked
  <2>2. recovery.at # "sweeping"
    BY <2>1 DEF InsertMissing, RecoverChangedBlocked, At
  <2>3. Recovers => Recovers'
    BY <1>3, <1>4, <2>2 DEF Recovers
  <2> QED
    BY <1>3, <1>6, <2>1, <2>3, DriveStays DEF RequestsOf
<1> QED
  BY <1>5, <1>6

LEMMA DriveOfDispatch ==
    ASSUME ProjectorInv, NEW r \in Runs, Dispatch \/ Flushed
    PROVE  Kept(r)
<1>1. UNCHANGED <<job, retry, task, exec, wake, again, life>>
  BY DEF Dispatch, Flushed, table
<1>2. RequestsOf(r)' = RequestsOf(r)
  BY <1>1 DEF RequestsOf
<1>3. recovery \in [at : RecoverySteps, cursor : {0} \cup Runs]
  BY DEF ProjectorInv, MemoryOK
<1>4. CASE Dispatch
  <2> DEFINE jobs == {q \in Runs : q > recovery.cursor /\ Waiting(job[q])}
  <2>1. /\ recovery.at = "dispatching"
        /\ \/ jobs = {} /\ Go("deferring") /\ UNCHANGED queueVars
           \/ recovery'.at = "flushing" /\ Queue!FlushAfter(jobs, "recovery")
    BY <1>4 DEF Dispatch, At
  <2>2. r \in Queue!Outstanding => r \in Queue!Outstanding'
    BY <2>1 DEF queueVars, Queue!FlushAfter, Queue!Schedule, Queue!Outstanding
  <2>3. job[r].status = "pending" /\ r > recovery.cursor => r \in Queue!Outstanding'
    BY <2>1 DEF Waiting, Queue!FlushAfter, Queue!Schedule, Queue!Outstanding
  <2>4. job[r].status = "pending" /\ Ahead(r) => Ahead(r)'
    BY <2>1, <2>2, <2>3 DEF Ahead
  <2>5. Recovers => Recovers'
    BY <1>1, <2>1 DEF Recovers
  <2> QED
    BY <1>1, <1>2, <2>4, <2>5, DriveStays
<1>5. CASE Flushed
  <2>1. flusher["recovery"] = "looking" /\ UNCHANGED <<dirty, scheduled, batch, busy>>
    BY <1>5 DEF Flushed, Queue!FlushReturns
  <2>2. /\ recovery.at = "flushing" /\ recovery'.at = "dispatching"
        /\ recovery'.cursor = recovery.cursor
    BY <1>3, <1>5, <2>1 DEF ProjectorInv, RecoveryOK, Flushed, Go
  <2>3. Ahead(r) => Ahead(r)'
    BY <2>1, <2>2 DEF Ahead, Queue!Outstanding
  <2>4. Recovers => Recovers'
    BY <1>1, <2>2 DEF Recovers
  <2> QED
    BY <1>1, <1>2, <2>3, <2>4, DriveStays
<1> QED
  BY <1>4, <1>5

\* A recovery that ends leaves another one behind for what it was told meanwhile,
\* and for what it did not do.
LEMMA DriveOfRecoveryEnd ==
    ASSUME ProjectorInv, NEW r \in Runs,
           Defer \/ RecoveryAborted \/ RecoveryFails \/ RecoverAgain \/ DurableRetryFires
    PROVE  Kept(r)
<1>1. UNCHANGED <<job, retry, task, exec, life, queueVars>>
  BY DEF Defer, RecoveryAborted, RecoveryFails, RecoverAgain, DurableRetryFires, table
<1>2. RequestsOf(r)' = RequestsOf(r)
  BY <1>1 DEF RequestsOf
<1>3. CASE life # "up"
  BY <1>1, <1>3, NotToBeDone
<1>4. ASSUME Recovers' PROVE Kept(r)
  BY <1>4, DrivenAnew DEF Driven, Recovers
<1>5. ASSUME NEW failed \in BOOLEAN, RecoveryOver(failed), life = "up", wake \/ again \/ failed
      PROVE  Recovers'
  BY <1>5 DEF RecoveryOver, Recovering, NotRecovering, ShuttingDown, Recovers
<1>6. CASE Defer /\ life = "up"
  <2>1. recovery.at = "deferring" /\ RecoveryOver(FALSE)
    BY <1>6 DEF Defer, At
  <2>2. Recovers => Recovers'
    BY <1>5, <1>6, <2>1 DEF Recovers
  <2>3. Ahead(r) => Ahead(r)'
    BY <1>1, <2>1 DEF Ahead, queueVars, Queue!Outstanding
  <2> QED
    BY <1>1, <1>2, <2>2, <2>3, DriveStays
<1>7. CASE RecoveryFails /\ life = "up"
  BY <1>4, <1>5, <1>7 DEF RecoveryFails
<1>8. CASE RecoverAgain
  <2>1. CASE recovery.at = "off"
    BY <1>4, <1>8, <2>1 DEF RecoverAgain, Recovering, Recovers
  <2>2. CASE recovery.at # "off"
    <3>1. UNCHANGED <<recovery, wake>>
      BY <1>8, <2>2 DEF RecoverAgain
    <3>2. (Recovers => Recovers') /\ (Ahead(r) => Ahead(r)')
      BY <1>1, <2>2, <3>1 DEF Recovers, Ahead, queueVars, Queue!Outstanding
    <3> QED
      BY <1>1, <1>2, <3>2, DriveStays
  <2> QED
    BY <2>1, <2>2
<1>9. CASE DurableRetryFires
  <2>1. recovery' = Recovering \/ wake' = TRUE
    BY <1>9 DEF DurableRetryFires
  <2> QED
    BY <1>4, <2>1 DEF Recovering, Recovers
<1>10. ~RecoveryAborted \/ life # "up"
  BY DEF RecoveryAborted, ShuttingDown
<1> QED
  BY <1>3, <1>6, <1>7, <1>8, <1>9, <1>10

LEMMA DriveOfProcess ==
    ASSUME ProjectorInv, NEW r \in Runs,
           \/ QueueMoves \/ Start \/ Close \/ CloseFlushes \/ Closed \/ Crash
           \/ \E q \in Runs : TimePasses(q)
    PROVE  Kept(r)
<1>1. CASE QueueMoves
  <2>1. Queue!Outstanding \subseteq Queue!Outstanding'
    <3>1. CASE Queue!DrainBegins
      <4>1. batch = {}
        BY <3>1 DEF Queue!DrainBegins, ProjectorInv, QueueOK, Queue!OneDrain
      <4> QED
        BY <3>1, <4>1 DEF Queue!DrainBegins, Queue!Outstanding
    <3>2. CASE ~Queue!DrainBegins
      BY <1>1, <3>2 DEF QueueMoves, Queue!TimerFires, Queue!DrainEnds, Queue!FlushDrains,
                        Queue!Outstanding
    <3> QED
      BY <3>1, <3>2
  <2> QED
    BY <1>1, <2>1, DriveUnaffected DEF QueueMoves, memory, table
<1>2. CASE Start
  BY <1>2, DrivenAnew DEF Start, Recovering, Driven
<1>3. CASE Close \/ CloseFlushes \/ Closed \/ Crash
  BY <1>3, NotToBeDone DEF Close, CloseFlushes, Closed, Crash
<1>4. ASSUME NEW q \in Runs, TimePasses(q) PROVE Kept(r)
  <2>1. job \in [Runs -> Jobs]
    BY DEF ProjectorInv, ProjectionInv, DataOK
  <2>2. CASE r = q
    <3>1. job'[r].status = "failed"
      BY <1>4, <2>1, <2>2 DEF TimePasses, Jobs
    <3> QED
      BY <3>1, NotToBeDone
  <2>3. CASE r # q
    <3>1. job'[r] = job[r]
      BY <1>4, <2>1, <2>3 DEF TimePasses
    <3>2. UNCHANGED <<retry, task, exec, recovery, wake, again, life, queueVars>>
      BY <1>4 DEF TimePasses, memory
    <3> QED
      BY <3>1, <3>2, DriveUnaffected DEF queueVars, Queue!Outstanding
  <2> QED
    BY <2>2, <2>3
<1> QED
  BY <1>1, <1>2, <1>3, <1>4

LEMMA DriveStep ==
    ASSUME ProjectorInv, Next, NEW r \in Runs
    PROVE  Kept(r)
<1>1. ASSUME NEW q \in Runs, Persisting(q) PROVE Kept(r)
  BY <1>1, DriveOfNewRequests, DriveOfOthers, DriveOfAsk, DriveOfLateFail DEF Persisting
<1>2. ASSUME NEW q \in Runs, Executing(q) PROVE Kept(r)
  BY <1>2, DriveOfExecutions, DriveOfOtherExecutions
<1>3. CASE RecoveryStep
  BY <1>3, DriveOfRecoveryTable, DriveOfDispatch, DriveOfRecoveryEnd DEF RecoveryStep
<1>4. CASE Faulting
  <2>1. ASSUME NEW q \in Runs, LateFailRefused(q) \/ \E t \in Tasks : AskRefused(q, t)
        PROVE  Kept(r)
    <3>1. "timer" \in Tasks
      BY DEF Tasks
    <3> QED
      BY <2>1, <3>1, DriveOfOthers, DriveOfAskRefused
  <2> QED
    BY <1>4, <2>1, DriveOfRecoveryEnd, DriveOfExecutions, DriveOfOtherExecutions
       DEF Faulting
<1> QED
  BY <1>1, <1>2, <1>3, <1>4, DriveOfNewRequests, DriveOfProcess DEF Next

\* No step leaves a job that is to be done, or said to be running, with nothing that
\* comes to it, but one that ends a request of its run, the claim of the job or the
\* writing of its failure: either the database is unavailable and the retry timer of the
\* run is taken by another request (schedulePersistenceRetry,
\* scheduleFailurePersistenceRetry), or the step fails in a way that is not retried, and
\* leaves the timers as they are (persistAndWake, persistProjectionFailure, run).
THEOREM WorkStaysDriven == Spec => WorkIsDriven
<1>1. ProjectorInv /\ [Next]_vars =>
        [\A r \in Runs : Stranded(r)' /\ ~Stranded(r) =>
           /\ EndsRequest(r)
           /\ \/ left'.faults < left.faults /\ retry[r] # NoClaim
              \/ left'.bugs < left.bugs /\ retry' = retry]_vars
  BY DriveStep DEF Kept, Dropped
<1> QED
  BY <1>1, ProjectorInductive, PTL DEF WorkIsDriven, Spec
=============================================================================
