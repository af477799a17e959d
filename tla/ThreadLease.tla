---------------------------- MODULE ThreadLease ----------------------------
(***************************************************************************)
(* What the agent harness promises the host about a thread: operations hold *)
(* it one at a time, each at most once; an operation is refused only while  *)
(* another one holds the thread; and an operation records at most one       *)
(* terminal fact, which it does while it holds the thread.                  *)
(***************************************************************************)
CONSTANTS Threads, Ops, ThreadOf, NoOp

Facts == {"aborted", "cancelled", "failed", "completed", "interrupted"}

VARIABLES
  holder,     \* thread -> the operation that holds it, or NoOp
  standing,   \* operation -> "waiting", "holding" or "gone"
  recorded    \* operation -> the terminal facts recorded for it

leaseVars == <<holder, standing, recorded>>

Init ==
  /\ holder = [t \in Threads |-> NoOp]
  /\ standing = [o \in Ops |-> "waiting"]
  /\ recorded = [o \in Ops |-> {}]

Acquire(o) ==
  /\ standing[o] = "waiting" /\ holder[ThreadOf[o]] = NoOp
  /\ holder' = [holder EXCEPT ![ThreadOf[o]] = o]
  /\ standing' = [standing EXCEPT ![o] = "holding"]
  /\ UNCHANGED recorded

Refuse(o) ==
  /\ standing[o] = "waiting" /\ holder[ThreadOf[o]] # NoOp
  /\ standing' = [standing EXCEPT ![o] = "gone"]
  /\ UNCHANGED <<holder, recorded>>

Record(o) ==
  /\ standing[o] = "holding" /\ recorded[o] = {}
  /\ \E f \in Facts : recorded' = [recorded EXCEPT ![o] = {f}]
  /\ UNCHANGED <<holder, standing>>

Release(o) ==
  /\ standing[o] = "holding" /\ holder[ThreadOf[o]] = o
  /\ holder' = [holder EXCEPT ![ThreadOf[o]] = NoOp]
  /\ standing' = [standing EXCEPT ![o] = "gone"]
  /\ UNCHANGED recorded

Next == \E o \in Ops : Acquire(o) \/ Refuse(o) \/ Record(o) \/ Release(o)

Spec == Init /\ [][Next]_leaseVars

\* A thread that is held is eventually given back.
LiveSpec == Spec /\ \A o \in Ops : WF_leaseVars(Release(o))
=============================================================================
