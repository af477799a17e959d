----------------------- MODULE CheckpointStore_proofs -----------------------
(***************************************************************************)
(* A checkpoint is read with the messages it was put with, a compaction    *)
(* overtakes nothing and is made once, and what is copied and shown is     *)
(* what was put, for any messages, runs, stops, refused transactions,      *)
(* compactions, clones and crashes.  StoreInv is what holds of the source  *)
(* thread whatever happens; TablesInv what holds of the tables of both     *)
(* threads; OrderInv what holds of them while runs and compactions are     *)
(* kept apart.                                                             *)
(***************************************************************************)
EXTENDS CheckpointStore, WellFoundedInduction, TLAPS

MessageLists == [Messages -> Items \cup {Gone}]
Rows == [version : 0..LastId, parent : 0..LastId, op : Ops \cup {NoOp}]
Entries == [changed : SUBSET Messages, to : MessageLists]
Jobs == [id : Checkpoints, parent : 0..LastId, version : Checkpoints]
Writers == [on : BOOLEAN, last : 0..LastId, version : 0..LastId, held : MessageLists,
            chain : Seq(Jobs)]
Receipts == {NoReceipt} \cup
            [id : Checkpoints, from : 0..LastId, identity : {IdentityOf[c] : c \in Calls}]
Places == {"idle", "reading", "preparing", "checking", "summarising", "committed",
           "answered", "failed"}
CallStates == [at : Places, from : 0..LastId, held : MessageLists, answer : Receipts]

\* What is known of the tables of both threads: that they are two.
Shape ==
    /\ rows = [t \in Threads |-> rows[t]]
    /\ log = [t \in Threads |-> log[t]]
    /\ versions = [t \in Threads |-> versions[t]]
    /\ writer = [t \in Threads |-> writer[t]]

DataOK ==
    /\ Shape
    /\ rows["source"] \in [Checkpoints -> Rows]
    /\ log["source"] \in Seq(Entries)
    /\ versions["source"] \in [Checkpoints -> Nat]
    /\ writer["source"] \in [{"run", "late"} -> Writers]
    /\ ledger \in [Ops -> Receipts]
    /\ call \in [Calls -> CallStates]
    /\ clock \in 0..LastId
    /\ made \in [Checkpoints -> MessageLists]

\* Where something has changed, there is a last change.
Topped(l) ==
    \A n \in 0..Len(l), m \in Messages :
        ChangesOf(l, n, m) # {}
            => \E k \in ChangesOf(l, n, m) : \A j \in ChangesOf(l, n, m) : k >= j

\* Some version names the end of the log, and none a place behind it.
EndIsNamed(t) ==
    /\ Topped(log[t])
    /\ \A v \in Checkpoints : versions[t][v] <= Len(log[t])
    /\ \E v \in Checkpoints : versions[t][v] = Len(log[t])

\* A checkpoint reads what it was made with, which is what the checkpoint that
\* brought its version in was made with.
Kept(t) ==
    \A k \in Stored(t) :
        /\ k <= clock
        /\ rows[t][k].version \in 1..clock
        /\ made[k] = made[rows[t][k].version]
        /\ Read(t, k) = made[k]

\* So is what a run has in hand, and what it has handed over.
InHand(w, last, what) ==
    /\ w.last <= last
    /\ w.version <= last
    /\ w.version # 0 => what[w.version] = w.held
    /\ \A i \in DOMAIN w.chain :
         /\ w.chain[i].id <= last
         /\ w.chain[i].version <= last
         /\ what[w.chain[i].id] = what[w.chain[i].version]

WritersAgree == \A w \in {"run", "late"} : InHand(writer["source"][w], clock, made)

\* A call that summarises holds the messages of a stored checkpoint.
CallsAgree ==
    \A c \in Calls :
        /\ call[c].at \in {"checking", "summarising"} => call[c].from \in Stored("source")
        /\ call[c].at = "summarising" => call[c].held = made[call[c].from]

StoreInv ==
    DataOK /\ EndIsNamed("source") /\ Kept("source") /\ WritersAgree /\ CallsAgree

-----------------------------------------------------------------------------
\* The largest of some numbers, when there is one.
LEMMA MaxIs ==
    ASSUME NEW S \in SUBSET Int, NEW x \in S, \A y \in S : x >= y
    PROVE  Max(S) = x
<1>1. Max(S) \in S /\ \A y \in S : Max(S) >= y
  BY DEF Max
<1>2. Max(S) \in Int /\ x \in Int /\ Max(S) >= x /\ x >= Max(S)
  BY <1>1
<1>3. QED
  BY <1>2

\* A set of numbers has a least one.
LEMMA LeastOf ==
    ASSUME NEW T \in SUBSET Nat, T # {}
    PROVE  \E b \in T : \A y \in T : b <= y
<1> DEFINE R == OpToRel(<, Nat)
<1>1. IsWellFoundedOn(R, Nat)
  BY NatLessThanWellFounded
<1>2. \A x, y \in Nat : y < x => <<y, x>> \in R
  BY DEF OpToRel
<1> HIDE DEF R
<1>3. PICK b \in T : \A y \in T : ~(<<y, b>> \in R)
  BY <1>1, WFMin
<1>4. ASSUME NEW y \in T, ~(b <= y)
      PROVE  FALSE
  <2>1. y \in Nat /\ b \in Nat /\ y < b
    BY <1>4
  <2>2. QED
    BY <1>2, <1>3, <2>1
<1>5. QED
  BY <1>4

\* Of finitely many places one is the farthest.
LEMMA FarthestOf ==
    ASSUME NEW f \in [Checkpoints -> Nat]
    PROVE  \E v \in Checkpoints : \A u \in Checkpoints : f[u] <= f[v]
<1> DEFINE Has(n) == \E v \in 1..n : \A u \in 1..n : f[u] <= f[v]
           T == {n \in 1..LastId : ~Has(n)}
<1>1. LastId \in Nat /\ LastId \in 1..LastId /\ Checkpoints = 1..LastId
  BY StoreAssumption DEF Checkpoints
<1>2. Has(1)
  BY <1>1
<1>3. ASSUME NEW n \in 1..LastId, n # 1, Has(n - 1)
      PROVE  Has(n)
  <2>1. PICK v \in 1..(n - 1) : \A u \in 1..(n - 1) : f[u] <= f[v]
    BY <1>3
  <2>2. f[v] \in Nat /\ f[n] \in Nat /\ v \in 1..n /\ n \in 1..n
    BY <1>1
  <2>3. \A u \in 1..n : u = n \/ u \in 1..(n - 1)
    OBVIOUS
  <2>4. CASE f[n] <= f[v]
    BY <2>1, <2>2, <2>3, <2>4
  <2>5. CASE f[v] <= f[n]
    <3>1. \A u \in 1..n : f[u] <= f[n]
      BY <1>1, <2>1, <2>2, <2>3, <2>5
    <3>2. QED
      BY <2>2, <3>1
  <2>6. QED
    BY <2>2, <2>4, <2>5
<1> HIDE DEF Has
<1>4. T = {}
  <2> SUFFICES ASSUME T # {} PROVE FALSE
    OBVIOUS
  <2>1. PICK b \in T : \A y \in T : b <= y
    <3>1. T \in SUBSET Nat
      OBVIOUS
    <3> HIDE DEF T
    <3>2. QED
      BY <3>1, LeastOf
  <2>2. b \in 1..LastId /\ b # 1 /\ ~Has(b)
    BY <1>2, <2>1
  <2>3. b - 1 \in 1..LastId /\ ~(b <= b - 1)
    BY <2>2, <1>1
  <2>4. Has(b - 1)
    BY <2>1, <2>3
  <2>5. QED
    BY <1>3, <2>2, <2>4
<1>5. Has(LastId)
  BY <1>1, <1>4
<1>6. QED
  BY <1>1, <1>5 DEF Has

\* Of some checkpoints one is the last.
LEMMA LastOf ==
    ASSUME NEW S \in SUBSET Checkpoints, S # {}
    PROVE  Max(S) \in S /\ \A j \in S : Max(S) >= j
<1> DEFINE f == [k \in Checkpoints |-> IF k \in S THEN k ELSE 0]
<1>1. \A k \in Checkpoints : k \in Nat /\ k # 0
  BY DEF Checkpoints
<1>2. f \in [Checkpoints -> Nat]
  BY <1>1
<1>3. \A k \in Checkpoints : f[k] = IF k \in S THEN k ELSE 0
  OBVIOUS
<1> HIDE DEF f
<1>4. PICK v \in Checkpoints : \A u \in Checkpoints : f[u] <= f[v]
  BY <1>2, FarthestOf
<1>5. PICK k \in S : TRUE
  OBVIOUS
<1>6. f[v] # 0
  BY <1>1, <1>2, <1>3, <1>4, <1>5
<1>7. v \in S /\ \A j \in S : v >= j
  BY <1>3, <1>4, <1>6
<1>8. QED
  BY <1>7 DEF Max

\* A change at the end of the log: what was read through an earlier place is read
\* as before, and what is read through the new one is the change over the last state.
LEMMA Appending ==
    ASSUME NEW l \in Seq(Entries), Topped(l), NEW e \in Entries
    PROVE  /\ Append(l, e) \in Seq(Entries) /\ Len(Append(l, e)) = Len(l) + 1
           /\ Topped(Append(l, e))
           /\ \A n \in 0..Len(l) : ItemsThrough(Append(l, e), n) = ItemsThrough(l, n)
           /\ \A m \in Messages :
                ItemsThrough(Append(l, e), Len(l) + 1)[m] =
                    IF m \in e.changed THEN e.to[m] ELSE ItemsThrough(l, Len(l))[m]
<1> DEFINE a == Append(l, e)
<1>1. a \in Seq(Entries) /\ Len(a) = Len(l) + 1 /\ a[Len(l) + 1] = e
      /\ \A k \in 1..Len(l) : a[k] = l[k]
  OBVIOUS
<1>2. DOMAIN a = 1..(Len(l) + 1) /\ DOMAIN l = 1..Len(l) /\ Len(l) \in Nat
  BY <1>1
<1>3. ASSUME NEW n \in 0..Len(l), NEW m \in Messages
      PROVE  ChangesOf(a, n, m) = ChangesOf(l, n, m)
  BY <1>1, <1>2 DEF ChangesOf
<1>4. ASSUME NEW m \in Messages, m \notin e.changed
      PROVE  ChangesOf(a, Len(l) + 1, m) = ChangesOf(l, Len(l), m)
  BY <1>1, <1>2, <1>4 DEF ChangesOf
<1>5. ASSUME NEW m \in Messages, m \in e.changed
      PROVE  /\ Len(l) + 1 \in ChangesOf(a, Len(l) + 1, m)
             /\ \A j \in ChangesOf(a, Len(l) + 1, m) : Len(l) + 1 >= j
  BY <1>1, <1>2, <1>5 DEF ChangesOf
<1>6. ASSUME NEW n \in 0..Len(l), NEW m \in Messages, ChangesOf(l, n, m) # {}
      PROVE  a[Max(ChangesOf(l, n, m))] = l[Max(ChangesOf(l, n, m))]
  <2>1. PICK k \in ChangesOf(l, n, m) : \A j \in ChangesOf(l, n, m) : k >= j
    BY <1>6 DEF Topped
  <2>2. ChangesOf(l, n, m) \in SUBSET Int /\ k \in 1..Len(l)
    BY <1>2, <2>1 DEF ChangesOf
  <2>3. Max(ChangesOf(l, n, m)) = k
    BY <2>1, <2>2, MaxIs
  <2>4. QED
    BY <1>1, <2>2, <2>3
<1>7. Topped(a)
  <2> SUFFICES ASSUME NEW n \in 0..Len(a), NEW m \in Messages, ChangesOf(a, n, m) # {}
               PROVE  \E k \in ChangesOf(a, n, m) : \A j \in ChangesOf(a, n, m) : k >= j
    BY DEF Topped
  <2>1. CASE n \in 0..Len(l)
    BY <2>1, <1>3 DEF Topped
  <2>2. CASE n = Len(l) + 1 /\ m \in e.changed
    BY <2>2, <1>5
  <2>3. CASE n = Len(l) + 1 /\ m \notin e.changed
    BY <2>3, <1>2, <1>4 DEF Topped
  <2>4. QED
    BY <1>1, <1>2, <2>1, <2>2, <2>3
<1>8. ASSUME NEW n \in 0..Len(l)
      PROVE  ItemsThrough(a, n) = ItemsThrough(l, n)
  BY <1>3, <1>6 DEF ItemsThrough
<1>9. ASSUME NEW m \in Messages
      PROVE  ItemsThrough(a, Len(l) + 1)[m] =
                 IF m \in e.changed THEN e.to[m] ELSE ItemsThrough(l, Len(l))[m]
  <2>1. CASE m \in e.changed
    <3>1. ChangesOf(a, Len(l) + 1, m) \in SUBSET Int
      BY <1>2 DEF ChangesOf
    <3>2. Max(ChangesOf(a, Len(l) + 1, m)) = Len(l) + 1
      BY <2>1, <3>1, <1>5, MaxIs
    <3>3. ChangesOf(a, Len(l) + 1, m) # {}
      BY <2>1, <1>5
    <3>4. ItemsThrough(a, Len(l) + 1)[m] = a[Max(ChangesOf(a, Len(l) + 1, m))].to[m]
      BY <3>3 DEF ItemsThrough
    <3>5. QED
      BY <2>1, <3>2, <3>4, <1>1
  <2>2. CASE m \notin e.changed
    <3> DEFINE before == ChangesOf(l, Len(l), m)
    <3>1. ItemsThrough(a, Len(l) + 1)[m] = IF before = {} THEN Gone ELSE a[Max(before)].to[m]
      BY <2>2, <1>4 DEF ItemsThrough
    <3>2. ItemsThrough(l, Len(l))[m] = IF before = {} THEN Gone ELSE l[Max(before)].to[m]
      BY DEF ItemsThrough
    <3>3. Len(l) \in 0..Len(l)
      BY <1>2
    <3>4. before # {} => a[Max(before)] = l[Max(before)]
      BY <3>3, <1>6 DEF before
    <3> HIDE DEF before
    <3>5. QED
      BY <2>2, <3>1, <3>2, <3>4
  <2>3. QED
    BY <2>1, <2>2
<1>10. QED
  BY <1>1, <1>7, <1>8, <1>9

\* Behind its end a log says what its end says.
LEMMA BehindTheEnd ==
    ASSUME NEW l \in Seq(Entries), NEW n \in Nat, n >= Len(l)
    PROVE  ItemsThrough(l, n) = ItemsThrough(l, Len(l))
<1>1. \A m \in Messages : ChangesOf(l, n, m) = ChangesOf(l, Len(l), m)
  BY DEF ChangesOf
<1>2. QED
  BY <1>1 DEF ItemsThrough

LEMMA ItemsTyped ==
    ASSUME NEW l \in Seq(Entries), Topped(l), NEW n \in Nat
    PROVE  ItemsThrough(l, n) \in MessageLists
<1>1. ASSUME NEW i \in 0..Len(l), NEW m \in Messages
      PROVE  ItemsThrough(l, i)[m] \in Items \cup {Gone}
  <2>1. CASE ChangesOf(l, i, m) = {}
    BY <2>1 DEF ItemsThrough
  <2>2. CASE ChangesOf(l, i, m) # {}
    <3>1. PICK k \in ChangesOf(l, i, m) : \A j \in ChangesOf(l, i, m) : k >= j
      BY <2>2 DEF Topped
    <3>2. ChangesOf(l, i, m) \in SUBSET Int /\ k \in 1..Len(l)
      BY <3>1 DEF ChangesOf
    <3>3. Max(ChangesOf(l, i, m)) = k
      BY <3>1, <3>2, MaxIs
    <3>4. l[k] \in Entries
      BY <3>2
    <3>5. QED
      BY <2>2, <3>3, <3>4 DEF ItemsThrough, MessageLists, Entries
  <2>3. QED
    BY <2>1, <2>2
<1>2. \A i \in 0..Len(l) : ItemsThrough(l, i) \in MessageLists
  BY <1>1 DEF ItemsThrough, MessageLists
<1>3. n \in 0..Len(l) \/ n >= Len(l)
  OBVIOUS
<1>4. QED
  BY <1>2, <1>3, BehindTheEnd

-----------------------------------------------------------------------------
\* Some version names the end of the log, or a place behind it.
Reached(t) ==
    /\ Topped(log[t])
    /\ \E v \in Checkpoints : versions[t][v] >= Len(log[t])

\* The last place a version names says what the messages are now.
LEMMA LatestReaches ==
    ASSUME NEW t, log[t] \in Seq(Entries), versions[t] \in [Checkpoints -> Nat], Reached(t)
    PROVE  /\ LatestThrough(t) \in Nat /\ LatestThrough(t) >= Len(log[t])
           /\ EndIsNamed(t) => LatestThrough(t) = Len(log[t])
<1> DEFINE places == {versions[t][v] : v \in Checkpoints}
<1>1. PICK last \in Checkpoints : \A u \in Checkpoints : versions[t][u] <= versions[t][last]
  BY FarthestOf
<1>2. places \in SUBSET Int /\ versions[t][last] \in places
      /\ \A y \in places : versions[t][last] >= y
  BY <1>1
<1>3. LatestThrough(t) = versions[t][last]
  <2> HIDE DEF places
  <2>1. Max(places) = versions[t][last]
    BY <1>2, MaxIs
  <2>2. QED
    BY <2>1 DEF LatestThrough, places
<1>4. Len(log[t]) \in Nat
  OBVIOUS
<1>5. QED
  BY <1>1, <1>3, <1>4 DEF Reached, EndIsNamed

\* The latest checkpoint is a stored one, unless there is none.
LEMMA LatestIsStored ==
    ASSUME NEW t, Latest(t) # 0
    PROVE  /\ Latest(t) \in Stored(t)
           /\ \A j \in Stored(t) : Latest(t) >= j
<1>1. Stored(t) # {} /\ Stored(t) \in SUBSET Checkpoints
  BY DEF Latest, Stored
<1>2. QED
  BY <1>1, LastOf DEF Latest

\* A version that is brought in or moved reads what it is brought in with, and the
\* others as before; what is shown follows the log (persistMessageStateVersion).
LEMMA Persisting ==
    ASSUME NEW t \in Threads, Shape, log[t] \in Seq(Entries),
           versions[t] \in [Checkpoints -> Nat], Reached(t),
           NEW v \in Checkpoints, NEW list \in MessageLists, Persist(t, v, list)
    PROVE  /\ log' = [u \in Threads |-> log'[u]]
           /\ versions' = [u \in Threads |-> versions'[u]]
           /\ \A u \in Threads : u # t => log'[u] = log[u] /\ versions'[u] = versions[u]
           /\ log'[t] \in Seq(Entries)
           /\ versions'[t] \in [Checkpoints -> Nat]
           /\ Reached(t)'
           /\ ItemsThrough(log'[t], versions'[t][v]) = list
           /\ ItemsThrough(log'[t], Len(log'[t])) = list
           /\ \A u \in Checkpoints : u # v => versions'[t][u] = versions[t][u]
           /\ \A n \in 0..Len(log[t]) : ItemsThrough(log'[t], n) = ItemsThrough(log[t], n)
           /\ EndIsNamed(t) => EndIsNamed(t)' /\ versions'[t][v] = Len(log'[t])
           /\ Changed(t, list) = {m \in Messages :
                                    list[m] # ItemsThrough(log[t], Len(log[t]))[m]}
<1> DEFINE l == log[t]
           e == [changed |-> Changed(t, list), to |-> list]
<1>1. l \in Seq(Entries) /\ Topped(l) /\ Len(l) \in Nat
  BY DEF Reached
<1>2. /\ LatestThrough(t) \in Nat /\ LatestThrough(t) >= Len(l)
      /\ EndIsNamed(t) => LatestThrough(t) = Len(l)
      /\ ItemsThrough(l, LatestThrough(t)) = ItemsThrough(l, Len(l))
  BY <1>1, LatestReaches, BehindTheEnd
<1>3. Changed(t, list) = {m \in Messages : list[m] # ItemsThrough(l, Len(l))[m]}
  BY <1>2 DEF Changed
<1>4. e \in Entries
  BY <1>3 DEF Entries
<1>5. versions' = [versions EXCEPT ![t] = [@ EXCEPT ![v] = Place(t, list)]]
  BY DEF Persist
<1>6. /\ versions' = [u \in Threads |-> versions'[u]]
      /\ \A u \in Threads : u # t => versions'[u] = versions[u]
      /\ versions'[t] = [versions[t] EXCEPT ![v] = Place(t, list)]
  BY <1>5 DEF Shape
<1>7. CASE Changed(t, list) = {}
  <2>1. log' = log /\ Place(t, list) = LatestThrough(t)
    BY <1>7 DEF Persist, Record, Place
  <2>2. versions'[t] \in [Checkpoints -> Nat] /\ versions'[t][v] = LatestThrough(t)
        /\ \A u \in Checkpoints : u # v => versions'[t][u] = versions[t][u]
    BY <2>1, <1>2, <1>6
  <2>3. Reached(t)'
    BY <2>1, <2>2, <1>1, <1>2 DEF Reached
  <2>4. EndIsNamed(t) => EndIsNamed(t)' /\ versions'[t][v] = Len(log'[t])
    BY <2>1, <2>2, <1>1, <1>2 DEF EndIsNamed
  <2>5. ItemsThrough(l, Len(l)) = list
    <3>1. ItemsThrough(l, Len(l)) \in MessageLists
      BY <1>1, ItemsTyped
    <3>2. \A m \in Messages : ItemsThrough(l, Len(l))[m] = list[m]
      BY <1>3, <1>7
    <3>3. QED
      BY <3>1, <3>2 DEF MessageLists
  <2>6. ItemsThrough(log'[t], versions'[t][v]) = list
        /\ ItemsThrough(log'[t], Len(log'[t])) = list
    BY <2>1, <2>2, <2>5, <1>2
  <2>7. log' = [u \in Threads |-> log'[u]]
        /\ (\A u \in Threads : u # t => log'[u] = log[u]) /\ log'[t] \in Seq(Entries)
        /\ \A n \in 0..Len(l) : ItemsThrough(log'[t], n) = ItemsThrough(l, n)
    BY <2>1, <1>1 DEF Shape
  <2>8. QED
    BY <2>2, <2>3, <2>4, <2>6, <2>7, <1>3, <1>6
<1>8. CASE Changed(t, list) # {}
  <2> DEFINE a == Append(l, e)
  <2>1. log' = [log EXCEPT ![t] = a] /\ Place(t, list) = Len(l) + 1
    BY <1>8 DEF Persist, Record, Place
  <2>2. log' = [u \in Threads |-> log'[u]] /\ log'[t] = a
        /\ \A u \in Threads : u # t => log'[u] = log[u]
    BY <2>1 DEF Shape
  <2>3. /\ a \in Seq(Entries) /\ Len(a) = Len(l) + 1 /\ Topped(a)
        /\ \A n \in 0..Len(l) : ItemsThrough(a, n) = ItemsThrough(l, n)
        /\ \A m \in Messages :
             ItemsThrough(a, Len(l) + 1)[m] =
                 IF m \in e.changed THEN e.to[m] ELSE ItemsThrough(l, Len(l))[m]
    BY <1>1, <1>4, Appending
  <2>4. versions'[t] \in [Checkpoints -> Nat] /\ versions'[t][v] = Len(l) + 1
        /\ \A u \in Checkpoints : u # v => versions'[t][u] = versions[t][u]
    BY <2>1, <1>1, <1>6
  <2> HIDE DEF a
  <2>5. Reached(t)'
    BY <2>2, <2>3, <2>4, <1>1 DEF Reached
  <2>6. EndIsNamed(t) => EndIsNamed(t)'
    <3>1. EndIsNamed(t) => \A u \in Checkpoints : versions'[t][u] <= Len(l) + 1
      BY <2>4, <1>1 DEF EndIsNamed
    <3>2. QED
      BY <2>2, <2>3, <2>4, <3>1 DEF EndIsNamed
  <2>7. ItemsThrough(a, Len(l) + 1) = list
    <3>1. ItemsThrough(a, Len(l) + 1) \in MessageLists
      BY <1>1, <2>3, ItemsTyped
    <3>2. \A m \in Messages : ItemsThrough(a, Len(l) + 1)[m] = list[m]
      BY <1>3, <2>3
    <3>3. QED
      BY <3>1, <3>2 DEF MessageLists
  <2>8. QED
    BY <2>2, <2>3, <2>4, <2>5, <2>6, <2>7, <1>3, <1>6
<1>9. QED
  BY <1>7, <1>8

-----------------------------------------------------------------------------
\* A run that has handed over nothing.
LEMMA EmptyHanded ==
    ASSUME NEW last \in 0..LastId, NEW version \in 0..LastId, NEW held \in MessageLists,
           NEW on \in BOOLEAN, NEW c \in 0..LastId, NEW what, last <= c, version <= c,
           version # 0 => what[version] = held
    PROVE  LET w == [on |-> on, last |-> last, version |-> version, held |-> held,
                     chain |-> <<>>]
           IN  w \in Writers /\ InHand(w, c, what)
<1>1. <<>> \in Seq(Jobs) /\ DOMAIN <<>> = {}
  OBVIOUS
<1>2. QED
  BY <1>1 DEF Writers, InHand

\* What a run has in hand is not touched by the checkpoints made after it.
LEMMA InHandStays ==
    ASSUME NEW c \in 0..LastId, NEW d \in 0..LastId, d >= c,
           NEW f, NEW g, \A k \in 1..c : g[k] = f[k],
           NEW w \in Writers, InHand(w, c, f)
    PROVE  InHand(w, d, g)
<1>1. /\ w.last \in 0..LastId /\ w.version \in 0..LastId
      /\ \A i \in DOMAIN w.chain : w.chain[i] \in Jobs
  BY DEF Writers
<1>2. w.last <= d /\ w.version <= d /\ (w.version # 0 => g[w.version] = w.held)
  BY <1>1, StoreAssumption DEF InHand
<1>3. ASSUME NEW i \in DOMAIN w.chain
      PROVE  /\ w.chain[i].id <= d /\ w.chain[i].version <= d
             /\ g[w.chain[i].id] = g[w.chain[i].version]
  <2>1. w.chain[i].id \in 1..c /\ w.chain[i].version \in 1..c
        /\ f[w.chain[i].id] = f[w.chain[i].version]
    BY <1>1 DEF InHand, Jobs, Checkpoints
  <2>2. QED
    BY <2>1
<1>4. QED
  BY <1>2, <1>3 DEF InHand

LEMMA NoMessagesTyped == NoMessages \in MessageLists
BY DEF NoMessages, MessageLists

LEMMA StoreInitially == Init => StoreInv
<1> SUFFICES ASSUME Init PROVE StoreInv
  OBVIOUS
<1>1. NoMessages \in MessageLists
  BY DEF NoMessages, MessageLists
<1>2. 0 \in 0..LastId /\ 1 \in Checkpoints /\ LastId \in Nat
  BY StoreAssumption DEF Checkpoints
<1>3. NoWriter \in Writers
  <2>1. <<>> \in Seq(Jobs)
    OBVIOUS
  <2>2. QED
    BY <1>1, <1>2, <2>1 DEF NoWriter, Writers
<1>4. NoCall \in CallStates
  <2>1. NoReceipt \in Receipts
    BY DEF Receipts
  <2>2. QED
    BY <1>1, <1>2, <2>1 DEF NoCall, CallStates, Places
<1>5. DataOK
  <2>1. Shape
    BY DEF Init, Shape
  <2>2. rows["source"] \in [Checkpoints -> Rows] /\ ledger \in [Ops -> Receipts]
    BY <1>2 DEF Init, Rows, NoRow, Receipts, Threads
  <2>3. versions["source"] \in [Checkpoints -> Nat] /\ log["source"] \in Seq(Entries)
    BY DEF Init, Threads
  <2>4. writer["source"] \in [{"run", "late"} -> Writers] /\ call \in [Calls -> CallStates]
    BY <1>3, <1>4 DEF Init, Threads
  <2>5. clock \in 0..LastId /\ made \in [Checkpoints -> MessageLists]
    BY <1>1, <1>2 DEF Init
  <2>6. QED
    BY <2>1, <2>2, <2>3, <2>4, <2>5 DEF DataOK
<1>6. EndIsNamed("source")
  <2>1. log["source"] = <<>> /\ \A v \in Checkpoints : versions["source"][v] = 0
    BY DEF Init, Threads
  <2>2. Len(<<>>) = 0
    OBVIOUS
  <2>3. Topped(<<>>)
    BY DEF Topped, ChangesOf
  <2>4. QED
    BY <1>2, <2>1, <2>2, <2>3 DEF EndIsNamed
<1>7. Stored("source") = {}
  BY DEF Init, Stored, Threads
<1>8. WritersAgree
  <2>1. \A w \in {"run", "late"} : writer["source"][w] = NoWriter
    BY DEF Init, Threads
  <2>2. clock = 0 /\ DOMAIN <<>> = {}
    BY DEF Init
  <2>3. QED
    BY <2>1, <2>2 DEF WritersAgree, InHand, NoWriter
<1>9. CallsAgree
  BY DEF Init, CallsAgree, NoCall
<1>10. QED
  BY <1>5, <1>6, <1>7, <1>8, <1>9 DEF StoreInv, Kept

\* The steps that leave the tables of the source thread alone; they may make a
\* checkpoint.
LEMMA TablesKept ==
    ASSUME StoreInv, Shape', UNCHANGED <<ledger, call>>,
           rows'["source"] = rows["source"], log'["source"] = log["source"],
           versions'["source"] = versions["source"],
           writer'["source"] \in [{"run", "late"} -> Writers], WritersAgree',
           clock' \in 0..LastId, clock' >= clock, made' \in [Checkpoints -> MessageLists],
           \A k \in 1..clock : made'[k] = made[k]
    PROVE  StoreInv'
<1>1. DataOK' /\ EndIsNamed("source")'
  BY DEF StoreInv, DataOK, EndIsNamed
<1>2. Stored("source")' = Stored("source")
  BY DEF Stored
<1>4. \A k \in Stored("source") :
        /\ k <= clock' /\ rows'["source"][k].version \in 1..clock'
        /\ made'[k] = made'[rows["source"][k].version] /\ made'[k] = made[k]
  <2> SUFFICES ASSUME NEW k \in Stored("source")
               PROVE  /\ k <= clock' /\ rows'["source"][k].version \in 1..clock'
                      /\ made'[k] = made'[rows["source"][k].version] /\ made'[k] = made[k]
    OBVIOUS
  <2>1. k \in 1..clock /\ rows["source"][k].version \in 1..clock
        /\ made[k] = made[rows["source"][k].version]
    <3>1. k \in 1..LastId
      BY DEF Stored, Checkpoints
    <3>2. k <= clock /\ rows["source"][k].version \in 1..clock
          /\ made[k] = made[rows["source"][k].version]
      BY DEF StoreInv, Kept
    <3>3. clock \in 0..LastId
      BY DEF StoreInv, DataOK
    <3>4. QED
      BY <3>1, <3>2, <3>3, StoreAssumption
  <2>2. clock \in Nat /\ clock' \in Nat
    BY StoreAssumption DEF StoreInv, DataOK
  <2>3. QED
    BY <2>1, <2>2
<1>5. Kept("source")'
  BY <1>2, <1>4 DEF StoreInv, Kept, Read
<1>6. CallsAgree'
  <2>1. \A c \in Calls : call[c].from \in Stored("source") => made'[call[c].from] = made[call[c].from]
    BY <1>4
  <2>2. QED
    BY <1>2, <2>1 DEF StoreInv, CallsAgree
<1>7. QED
  BY <1>1, <1>5, <1>6 DEF StoreInv

LEMMA HandsStay ==
    ASSUME StoreInv, clock' \in 0..LastId, clock' >= clock,
           \A k \in 1..clock : made'[k] = made[k], NEW w \in {"run", "late"}
    PROVE  InHand(writer["source"][w], clock', made')
<1> DEFINE x == writer["source"][w]
<1>1. x \in Writers /\ InHand(x, clock, made) /\ clock \in 0..LastId
  BY DEF StoreInv, DataOK, WritersAgree
<1> HIDE DEF x
<1>2. InHand(x, clock', made')
  BY <1>1, InHandStays
<1>3. QED
  BY <1>2 DEF x

\* Those that leave its runs alone as well.
LEMMA SourceKept ==
    ASSUME StoreInv, Shape', UNCHANGED <<ledger, call>>,
           rows'["source"] = rows["source"], log'["source"] = log["source"],
           versions'["source"] = versions["source"], writer'["source"] = writer["source"],
           clock' \in 0..LastId, clock' >= clock, made' \in [Checkpoints -> MessageLists],
           \A k \in 1..clock : made'[k] = made[k]
    PROVE  StoreInv'
<1>1. writer'["source"] \in [{"run", "late"} -> Writers]
  BY DEF StoreInv, DataOK
<1>2. ASSUME NEW w \in {"run", "late"}
      PROVE  InHand(writer'["source"][w], clock', made')
  BY <1>1, HandsStay
<1>3. WritersAgree'
  BY <1>2 DEF WritersAgree
<1>4. QED
  BY <1>1, <1>3, TablesKept

\* A step of the source thread's runs that puts nothing and makes nothing.
LEMMA WriterMoves ==
    ASSUME StoreInv, UNCHANGED <<rows, log, versions, ledger, call, clock, made>>,
           writer' = [t \in Threads |-> writer'[t]],
           writer'["source"] \in [{"run", "late"} -> Writers], WritersAgree'
    PROVE  StoreInv'
<1>1. DataOK' /\ EndIsNamed("source")'
  BY DEF StoreInv, DataOK, Shape, EndIsNamed
<1>2. Kept("source")' /\ CallsAgree'
  BY DEF StoreInv, Kept, CallsAgree, Stored, Read
<1>3. QED
  BY <1>1, <1>2 DEF StoreInv

\* A step of a call that commits nothing.
LEMMA CallMoves ==
    ASSUME StoreInv, UNCHANGED <<rows, log, versions, ledger, writer, clock, made>>,
           NEW c \in Calls, NEW s \in CallStates, call' = [call EXCEPT ![c] = s],
           s.at \in {"checking", "summarising"} => s.from \in Stored("source"),
           s.at = "summarising" => s.held = made[s.from]
    PROVE  StoreInv'
<1>1. DataOK' /\ EndIsNamed("source")' /\ WritersAgree'
  BY DEF StoreInv, DataOK, Shape, EndIsNamed, WritersAgree, InHand
<1>2. Stored("source")' = Stored("source")
  BY DEF Stored
<1>3. Kept("source")'
  BY <1>2 DEF StoreInv, Kept, Read
<1>4. CallsAgree'
  BY <1>2 DEF StoreInv, DataOK, CallsAgree
<1>5. QED
  BY <1>1, <1>3, <1>4 DEF StoreInv

-----------------------------------------------------------------------------
\* The runs.
LEMMA ReadTyped ==
    ASSUME StoreInv, NEW k \in Stored("source")
    PROVE  Read("source", k) \in MessageLists
BY DEF StoreInv, Kept, DataOK, Stored

LEMMA BeginKeeps ==
    ASSUME StoreInv, NEW t \in Threads, Begin(t)
    PROVE  StoreInv'
<1> DEFINE k == Latest(t)
           w == IF k = 0 THEN [NoWriter EXCEPT !.on = TRUE]
                ELSE [NoWriter EXCEPT !.on = TRUE, !.last = k, !.version = rows[t][k].version,
                                      !.held = Read(t, k)]
<1>1. writer' = [writer EXCEPT ![t] = [@ EXCEPT !["run"] = w]]
      /\ UNCHANGED <<rows, log, versions, ledger, call, clock, made>>
  BY DEF Begin, store
<1>2. writer' = [u \in Threads |-> writer'[u]]
  BY <1>1 DEF StoreInv, DataOK, Shape
<1>3. CASE t = "copy"
  <2>1. writer'["source"] = writer["source"]
    BY <1>1, <1>3 DEF StoreInv, DataOK, Shape, Threads
  <2>2. Shape'
    BY <1>1, <1>2 DEF StoreInv, DataOK, Shape
  <2>3. QED
    BY <1>1, <2>1, <2>2, SourceKept DEF StoreInv, DataOK
<1>4. CASE t = "source"
  <2>1. writer'["source"] = [writer["source"] EXCEPT !["run"] = w]
    BY <1>1, <1>4 DEF StoreInv, DataOK, Shape
  <2>2. w \in Writers /\ InHand(w, clock, made)
    <3>1. 0 \in 0..LastId /\ clock \in 0..LastId
      BY StoreAssumption DEF StoreInv, DataOK
    <3>2. CASE k = 0
      <4>1. w = [on |-> TRUE, last |-> 0, version |-> 0, held |-> NoMessages, chain |-> <<>>]
        BY <3>2 DEF NoWriter
      <4> HIDE DEF w
      <4>2. 0 <= clock
        BY <3>1
      <4>3. QED
        BY <3>1, <4>1, <4>2, NoMessagesTyped, EmptyHanded
    <3>3. CASE k # 0
      <4>1. w = [on |-> TRUE, last |-> k, version |-> rows[t][k].version,
                 held |-> Read(t, k), chain |-> <<>>]
        BY <3>3 DEF NoWriter
      <4>2. k \in Stored("source")
        BY <1>4, <3>3, LatestIsStored DEF StoreInv
      <4>3. Read(t, k) \in MessageLists
        BY <1>4, <4>2, ReadTyped
      <4>4. k \in 0..LastId /\ k <= clock /\ rows[t][k].version \in 1..clock
            /\ made[rows[t][k].version] = Read(t, k)
        BY <1>4, <4>2 DEF StoreInv, Kept, Stored, Checkpoints
      <4> HIDE DEF w, k
      <4>5. rows[t][k].version \in 0..LastId /\ rows[t][k].version <= clock
        BY <3>1, <4>4, StoreAssumption
      <4>6. QED
        BY <3>1, <4>1, <4>3, <4>4, <4>5, EmptyHanded
    <3>4. QED
      BY <3>2, <3>3
  <2> HIDE DEF w
  <2>3. writer'["source"] \in [{"run", "late"} -> Writers]
    BY <2>1, <2>2 DEF StoreInv, DataOK
  <2>4. WritersAgree'
    <3>1. writer["source"] \in [{"run", "late"} -> Writers] /\ WritersAgree
          /\ clock' = clock /\ made' = made
      BY <1>1 DEF StoreInv, DataOK
    <3>2. writer'["source"]["run"] = w /\ writer'["source"]["late"] = writer["source"]["late"]
      BY <2>1, <3>1
    <3>3. QED
      BY <2>2, <3>1, <3>2 DEF WritersAgree
  <2>5. QED
    BY <1>1, <1>2, <2>3, <2>4, WriterMoves
<1>5. QED
  BY <1>3, <1>4 DEF Threads

LEMMA StepKeeps ==
    ASSUME StoreInv, NEW t \in Threads, NEW list \in Lists, Step(t, list)
    PROVE  StoreInv'
<1>1. /\ clock' = clock + 1 /\ clock \in 0..LastId /\ clock' \in 1..LastId
      /\ clock' \in 0..LastId /\ clock' >= clock
      /\ made' = [made EXCEPT ![clock'] = list]
      /\ UNCHANGED <<rows, log, versions, ledger, call>>
  BY StoreAssumption DEF Step, Room, StoreInv, DataOK, store
<1>2. list \in MessageLists
  BY StoreAssumption DEF MessageLists
<1>3. made' \in [Checkpoints -> MessageLists] /\ made'[clock'] = list
      /\ \A k \in 1..clock : made'[k] = made[k]
  BY <1>1, <1>2 DEF StoreInv, DataOK, Checkpoints
<1> DEFINE w == writer[t]["run"]
           new(v) == [on |-> TRUE, last |-> clock', version |-> v, held |-> list,
                      chain |-> Append(w.chain, [id |-> clock', parent |-> w.last,
                                                 version |-> v])]
<1>4. PICK v \in {clock'} \cup (IF list = w.held THEN {w.version} \ {0} ELSE {}) :
        writer' = [writer EXCEPT ![t] = [@ EXCEPT !["run"] = new(v)]]
  BY DEF Step
<1>5. Shape'
  BY <1>1, <1>4 DEF StoreInv, DataOK, Shape
<1>6. CASE t = "copy"
  <2>1. writer'["source"] = writer["source"]
    BY <1>4, <1>6 DEF StoreInv, DataOK, Shape, Threads
  <2>2. QED
    BY <1>1, <1>3, <1>5, <2>1, SourceKept DEF StoreInv, DataOK
<1>7. CASE t = "source"
  <2>1. writer'["source"] = [writer["source"] EXCEPT !["run"] = new(v)]
    BY <1>4, <1>7 DEF StoreInv, DataOK, Shape
  <2>2. w \in Writers /\ InHand(w, clock, made)
    BY <1>7 DEF StoreInv, DataOK, WritersAgree
  <2>3. InHand(w, clock', made')
    BY <1>1, <1>3, <2>2, InHandStays
  <2>14. InHand(writer["source"]["late"], clock', made')
    BY <1>1, <1>3, HandsStay
  <2>4. v \in 1..LastId /\ v <= clock' /\ made'[v] = list
    <3>1. CASE v = clock'
      BY <3>1, <1>1, <1>3
    <3>2. CASE v = w.version /\ v # 0 /\ list = w.held
      <4>1. v \in 0..LastId
        BY <3>2, <2>2 DEF Writers
      <4>2. v <= clock' /\ made'[v] = list
        BY <3>2, <2>3 DEF InHand
      <4>3. QED
        BY <3>2, <4>1, <4>2, StoreAssumption
    <3>3. QED
      BY <1>4, <3>1, <3>2
  <2> DEFINE job == [id |-> clock', parent |-> w.last, version |-> v]
             x == new(v)
  <2>5. job \in Jobs
    BY <1>1, <2>2, <2>4 DEF Jobs, Writers, Checkpoints
  <2>6. w.chain \in Seq(Jobs)
    BY <2>2 DEF Writers
  <2>8. Append(w.chain, job) \in Seq(Jobs)
        /\ DOMAIN Append(w.chain, job) = 1..(Len(w.chain) + 1)
        /\ \A i \in 1..(Len(w.chain) + 1) :
             Append(w.chain, job)[i] = IF i \in DOMAIN w.chain THEN w.chain[i] ELSE job
    BY <2>5, <2>6
  <2>7. /\ x \in Writers /\ x.last = clock' /\ x.version = v
        /\ x.held = list /\ x.chain = Append(w.chain, job)
    <3>1. v \in 0..LastId
      BY <2>4
    <3> HIDE DEF job
    <3>2. x = [on |-> TRUE, last |-> clock', version |-> v, held |-> list,
               chain |-> Append(w.chain, job)]
      BY DEF job
    <3> HIDE DEF x
    <3>3. QED
      BY <1>1, <1>2, <2>8, <3>1, <3>2 DEF Writers
  <2>9. job.id = clock' /\ job.version = v
    OBVIOUS
  <2> HIDE DEF job, x
  <2>11. InHand(x, clock', made')
    <3>1. ASSUME NEW i \in DOMAIN x.chain
          PROVE  /\ x.chain[i].id <= clock' /\ x.chain[i].version <= clock'
                 /\ made'[x.chain[i].id] = made'[x.chain[i].version]
      <4>1. CASE i \in DOMAIN w.chain
        BY <4>1, <2>3, <2>7, <2>8 DEF InHand
      <4>2. CASE i \notin DOMAIN w.chain
        <5>1. x.chain[i] = job
          BY <4>2, <2>7, <2>8
        <5>2. QED
          BY <5>1, <2>4, <2>9, <1>1, <1>3
      <4>3. QED
        BY <4>1, <4>2
    <3>2. QED
      BY <3>1, <2>4, <2>7, <1>1 DEF InHand
  <2>12. writer'["source"] = [writer["source"] EXCEPT !["run"] = x]
    BY <2>1 DEF x
  <2>13. writer'["source"] \in [{"run", "late"} -> Writers]
    BY <2>7, <2>12 DEF StoreInv, DataOK
  <2>15. WritersAgree'
    BY <2>11, <2>12, <2>14 DEF StoreInv, DataOK, WritersAgree
  <2>16. QED
    BY <1>1, <1>3, <1>5, <2>13, <2>15, TablesKept
<1>8. QED
  BY <1>6, <1>7 DEF Threads

\* The tables of a thread whose log ends with a version, and what they hold.
Tabled(t) ==
    /\ rows[t] \in [Checkpoints -> Rows] /\ log[t] \in Seq(Entries)
    /\ versions[t] \in [Checkpoints -> Nat]
    /\ EndIsNamed(t) /\ Kept(t)

\* A checkpoint is stored with its version (put, compactCheckpoint).
Stores(t, k, row, list) ==
    /\ Persist(t, row.version, list)
    /\ rows' = [rows EXCEPT ![t] = [@ EXCEPT ![k] = row]]
    /\ k <= clock' /\ row.version <= clock'
    /\ made'[k] = list /\ made'[row.version] = list

LEMMA Storing ==
    ASSUME NEW t \in Threads, Shape, Tabled(t), clock \in 0..LastId,
           NEW k \in Checkpoints, NEW row \in Rows, NEW list \in MessageLists,
           row.version \in Checkpoints, Stores(t, k, row, list),
           clock' \in 0..LastId, clock' >= clock,
           \A j \in 1..clock : made'[j] = made[j]
    PROVE  /\ rows' = [u \in Threads |-> rows'[u]] /\ log' = [u \in Threads |-> log'[u]]
           /\ versions' = [u \in Threads |-> versions'[u]]
           /\ Tabled(t)'
           /\ Stored(t)' = Stored(t) \cup {k}
<1> DEFINE v == row.version
<1>0. /\ Persist(t, v, list) /\ rows' = [rows EXCEPT ![t] = [@ EXCEPT ![k] = row]]
      /\ k <= clock' /\ v <= clock' /\ made'[k] = list /\ made'[v] = list
      /\ v \in Checkpoints /\ row.version = v
  BY DEF Stores
<1> HIDE DEF v
<1>10. /\ rows[t] \in [Checkpoints -> Rows] /\ log[t] \in Seq(Entries)
       /\ versions[t] \in [Checkpoints -> Nat] /\ EndIsNamed(t) /\ Kept(t)
  BY DEF Tabled
<1>1. Reached(t)
  BY <1>10 DEF EndIsNamed, Reached
<1>2. /\ log' = [u \in Threads |-> log'[u]] /\ versions' = [u \in Threads |-> versions'[u]]
      /\ log'[t] \in Seq(Entries) /\ versions'[t] \in [Checkpoints -> Nat]
      /\ EndIsNamed(t)'
      /\ ItemsThrough(log'[t], versions'[t][v]) = list
      /\ \A u \in Checkpoints : u # v => versions'[t][u] = versions[t][u]
      /\ \A n \in 0..Len(log[t]) : ItemsThrough(log'[t], n) = ItemsThrough(log[t], n)
  <2>1. /\ Persist(t, v, list) /\ v \in Checkpoints /\ Reached(t) /\ EndIsNamed(t)
        /\ log[t] \in Seq(Entries) /\ versions[t] \in [Checkpoints -> Nat]
    BY <1>0, <1>1, <1>10
  <2>2. QED
    BY <2>1, Persisting
<1>3. \A u \in Checkpoints :
        u # v => ItemsThrough(log'[t], versions'[t][u])
                   = ItemsThrough(log[t], versions[t][u])
  <2>1. \A u \in Checkpoints : versions[t][u] \in 0..Len(log[t])
    BY <1>10 DEF EndIsNamed
  <2>2. QED
    BY <1>2, <2>1
<1>4. /\ rows' = [u \in Threads |-> rows'[u]]
      /\ rows'[t] = [rows[t] EXCEPT ![k] = row]
  BY <1>0 DEF Shape
<1>5. /\ rows'[t] \in [Checkpoints -> Rows] /\ rows'[t][k] = row
      /\ \A j \in Checkpoints : j # k => rows'[t][j] = rows[t][j]
  BY <1>4, <1>10
<1>6. row # NoRow
  BY <1>0 DEF NoRow, Checkpoints
<1>7. Stored(t)' = Stored(t) \cup {k}
  BY <1>5, <1>6, <1>10 DEF Stored
<1>8. Kept(t)'
  <2> SUFFICES ASSUME NEW j \in Stored(t)'
               PROVE  /\ j <= clock' /\ rows'[t][j].version \in 1..clock'
                      /\ made'[j] = made'[rows'[t][j].version]
                      /\ Read(t, j)' = made'[j]
    BY DEF Kept
  <2> DEFINE u == rows'[t][j].version
  <2>1. Read(t, j)' = ItemsThrough(log'[t], versions'[t][u])
    BY DEF Read
  <2>2. CASE j = k
    BY <2>1, <2>2, <1>0, <1>2, <1>5 DEF Checkpoints
  <2>3. CASE j # k
    <3>1. j \in Stored(t) /\ rows'[t][j] = rows[t][j] /\ j \in 1..LastId
      BY <2>3, <1>5, <1>7 DEF Stored, Checkpoints
    <3>2. /\ j <= clock /\ u \in 1..clock /\ made[j] = made[u]
          /\ ItemsThrough(log[t], versions[t][u]) = made[j]
      BY <3>1, <1>10 DEF Kept, Read
    <3>3. made'[j] = made[j] /\ made'[u] = made[u] /\ u \in Checkpoints
          /\ j <= clock' /\ u \in 1..clock'
      <4> HIDE DEF u
      <4>1. /\ j \in 1..clock /\ clock \in Nat /\ clock' \in Nat /\ LastId \in Nat
            /\ clock <= LastId /\ clock <= clock'
        BY <3>1, <3>2, StoreAssumption
      <4>2. QED
        BY <3>2, <4>1 DEF Checkpoints
    <3> HIDE DEF u
    <3>4. CASE u = v
      BY <3>2, <3>3, <3>4, <2>1, <1>0, <1>2 DEF u
    <3>5. CASE u # v
      BY <3>2, <3>3, <3>5, <2>1, <1>3 DEF u
    <3>6. QED
      BY <3>4, <3>5
  <2>4. QED
    BY <2>2, <2>3
<1>9. QED
  BY <1>2, <1>4, <1>5, <1>7, <1>8 DEF Tabled

LEMMA SourceStored ==
    ASSUME StoreInv
    PROVE  "source" \in Threads /\ Shape /\ Tabled("source") /\ clock \in 0..LastId
BY DEF StoreInv, DataOK, Tabled, Threads

\* The rest of what a run has handed over.
LEMMA HandsEmpty ==
    ASSUME NEW w \in Writers, NEW c, NEW what, InHand(w, c, what), w.chain # <<>>
    PROVE  /\ [w EXCEPT !.chain = Tail(@)] \in Writers
           /\ InHand([w EXCEPT !.chain = Tail(@)], c, what)
           /\ Head(w.chain) \in Jobs /\ Head(w.chain).id <= c /\ Head(w.chain).version <= c
           /\ what[Head(w.chain).id] = what[Head(w.chain).version]
<1>1. w.chain \in Seq(Jobs) /\ w.chain # <<>>
  BY DEF Writers
<1>2. /\ Tail(w.chain) \in Seq(Jobs) /\ Head(w.chain) \in Jobs
      /\ 1 \in DOMAIN w.chain /\ Head(w.chain) = w.chain[1]
      /\ \A i \in DOMAIN Tail(w.chain) :
           i + 1 \in DOMAIN w.chain /\ Tail(w.chain)[i] = w.chain[i + 1]
  BY <1>1
<1> DEFINE x == [w EXCEPT !.chain = Tail(@)]
<1>3. x \in Writers /\ x.chain = Tail(w.chain) /\ x.last = w.last
      /\ x.version = w.version /\ x.held = w.held
  BY <1>2 DEF Writers
<1>4. InHand(x, c, what)
  <2> HIDE DEF x
  <2>1. QED
    BY <1>2, <1>3 DEF InHand
<1>5. QED
  BY <1>2, <1>3, <1>4 DEF InHand

LEMMA PutKeeps ==
    ASSUME StoreInv, NEW t \in Threads, NEW w \in {"run", "late"}, Put(t, w)
    PROVE  StoreInv'
<1> DEFINE x == writer[t][w]
           job == Head(x.chain)
           row == [version |-> job.version, parent |-> job.parent, op |-> NoOp]
           y == [x EXCEPT !.chain = Tail(@)]
<1>1. /\ x.chain # <<>>
      /\ Persist(t, job.version, made[job.id])
      /\ rows' = [rows EXCEPT ![t][job.id] = row]
      /\ writer' = [writer EXCEPT ![t][w].chain = Tail(@)]
      /\ UNCHANGED <<ledger, call, clock, made>>
  BY DEF Put
<1>2. writer' = [u \in Threads |-> writer'[u]]
  BY <1>1 DEF StoreInv, DataOK, Shape
<1>3. /\ UNCHANGED <<ledger, call, clock, made>>
      /\ clock \in 0..LastId /\ clock' \in 0..LastId /\ clock' >= clock
      /\ made' \in [Checkpoints -> MessageLists]
  <2>1. UNCHANGED <<ledger, call, clock, made>>
    BY <1>1
  <2>2. clock \in 0..LastId /\ made \in [Checkpoints -> MessageLists]
    BY DEF StoreInv, DataOK
  <2>3. QED
    BY <2>1, <2>2
<1>4. CASE t = "copy"
  <2>1. writer'["source"] = writer["source"] /\ rows'["source"] = rows["source"]
        /\ rows' = [u \in Threads |-> rows'[u]]
    BY <1>1, <1>4 DEF StoreInv, DataOK, Shape, Threads
  <2>2. log'["source"] = log["source"] /\ log' = [u \in Threads |-> log'[u]]
    BY <1>1, <1>4 DEF Persist, Record, StoreInv, DataOK, Shape, Threads
  <2>3. versions'["source"] = versions["source"]
        /\ versions' = [u \in Threads |-> versions'[u]]
    BY <1>1, <1>4 DEF Persist, StoreInv, DataOK, Shape, Threads
  <2>4. Shape'
    BY <1>2, <2>1, <2>2, <2>3 DEF Shape
  <2>5. QED
    BY <1>3, <2>1, <2>2, <2>3, <2>4, SourceKept
<1>5. CASE t = "source"
  <2>1. x \in Writers /\ InHand(x, clock, made)
    BY <1>5 DEF StoreInv, DataOK, WritersAgree
  <2>2. /\ y \in Writers /\ InHand(y, clock, made)
        /\ job \in Jobs /\ job.id <= clock /\ job.version <= clock
        /\ made[job.id] = made[job.version]
    <3> HIDE DEF x
    <3>1. QED
      BY <1>1, <2>1, HandsEmpty
  <2>3. writer'["source"] = [writer["source"] EXCEPT ![w] = y]
    BY <1>1, <1>5 DEF StoreInv, DataOK, Shape
  <2> HIDE DEF y, job
  <2>4. writer'["source"] \in [{"run", "late"} -> Writers] /\ WritersAgree'
    <3>1. writer["source"] \in [{"run", "late"} -> Writers] /\ WritersAgree
      BY DEF StoreInv, DataOK
    <3>2. writer'["source"] \in [{"run", "late"} -> Writers]
      BY <2>2, <2>3, <3>1
    <3>3. \A u \in {"run", "late"} : InHand(writer'["source"][u], clock, made)
      BY <2>2, <2>3, <3>1 DEF WritersAgree
    <3>4. QED
      BY <1>3, <3>2, <3>3 DEF WritersAgree
  <2>5. /\ job.id \in Checkpoints /\ job.version \in Checkpoints
        /\ row \in Rows /\ row.version = job.version /\ made[job.id] \in MessageLists
    BY <2>2, StoreAssumption DEF Jobs, Rows, StoreInv, DataOK, Checkpoints
  <2> HIDE DEF row
  <2>6. /\ rows' = [u \in Threads |-> rows'[u]] /\ log' = [u \in Threads |-> log'[u]]
        /\ versions' = [u \in Threads |-> versions'[u]]
        /\ rows'["source"] \in [Checkpoints -> Rows] /\ log'["source"] \in Seq(Entries)
        /\ versions'["source"] \in [Checkpoints -> Nat]
        /\ EndIsNamed("source")' /\ Kept("source")'
        /\ Stored("source")' = Stored("source") \cup {job.id}
    <3>1. Stores("source", job.id, row, made[job.id])
      BY <1>1, <1>3, <1>5, <2>2, <2>5 DEF Stores
    <3>2. \A j \in 1..clock : made'[j] = made[j]
      BY <1>3
    <3>3. QED
      BY <3>1, <3>2, <1>3, <2>5, SourceStored, Storing DEF Tabled
  <2>7. DataOK'
    BY <1>1, <1>2, <2>4, <2>6 DEF StoreInv, DataOK, Shape
  <2>8. CallsAgree'
    BY <1>1, <2>6 DEF StoreInv, CallsAgree
  <2>9. QED
    BY <2>4, <2>6, <2>7, <2>8 DEF StoreInv
<1>6. QED
  BY <1>4, <1>5 DEF Threads

\* The steps of a run that puts nothing and makes nothing, on either thread.
LEMMA RunMoves ==
    ASSUME StoreInv, UNCHANGED <<rows, log, versions, ledger, call, clock, made>>,
           NEW t \in Threads, NEW x, writer' = [writer EXCEPT ![t] = x],
           t = "source" => /\ x \in [{"run", "late"} -> Writers]
                           /\ \A w \in {"run", "late"} : InHand(x[w], clock, made)
    PROVE  StoreInv'
<1>1. writer' = [u \in Threads |-> writer'[u]]
  BY DEF StoreInv, DataOK, Shape
<1>2. CASE t = "copy"
  <2>1. writer'["source"] = writer["source"] /\ Shape'
    BY <1>1, <1>2 DEF StoreInv, DataOK, Shape, Threads
  <2>2. clock' \in 0..LastId /\ clock' >= clock /\ made' \in [Checkpoints -> MessageLists]
    BY DEF StoreInv, DataOK
  <2>3. QED
    BY <2>1, <2>2, SourceKept
<1>3. CASE t = "source"
  <2>1. writer'["source"] = x
    BY <1>3 DEF StoreInv, DataOK, Shape
  <2>2. WritersAgree'
    BY <1>3, <2>1 DEF WritersAgree
  <2>3. QED
    BY <1>1, <1>3, <2>1, <2>2, WriterMoves
<1>4. QED
  BY <1>2, <1>3 DEF Threads

LEMMA NoWriterAgrees ==
    ASSUME StoreInv
    PROVE  NoWriter \in Writers /\ InHand(NoWriter, clock, made)
<1>1. 0 \in 0..LastId /\ clock \in 0..LastId /\ 0 <= clock
  BY StoreAssumption DEF StoreInv, DataOK
<1>2. QED
  BY <1>1, NoMessagesTyped, EmptyHanded DEF NoWriter

LEMMA EndsKeep ==
    ASSUME StoreInv, NEW t \in Threads, Finish(t) \/ LateEnds(t)
    PROVE  StoreInv'
<1>1. UNCHANGED <<rows, log, versions, ledger, call, clock, made>>
  BY DEF Finish, LateEnds, store
<1>2. PICK w \in {"run", "late"} : writer' = [writer EXCEPT ![t] = [@ EXCEPT ![w] = NoWriter]]
  BY DEF Finish, LateEnds
<1> DEFINE x == [writer[t] EXCEPT ![w] = NoWriter]
<1>3. ASSUME t = "source"
      PROVE  /\ x \in [{"run", "late"} -> Writers]
             /\ \A u \in {"run", "late"} : InHand(x[u], clock, made)
  BY <1>3, NoWriterAgrees DEF StoreInv, DataOK, WritersAgree
<1> HIDE DEF x
<1>4. writer' = [writer EXCEPT ![t] = x]
  BY <1>2 DEF x
<1>5. QED
  BY <1>1, <1>3, <1>4, RunMoves

\* What a run that is left has in hand.
LEMMA LeftInHand ==
    ASSUME NEW w \in Writers, NEW c, NEW what, InHand(w, c, what),
           NEW chain \in {w.chain, Tail(w.chain)}, chain = w.chain \/ w.chain # <<>>
    PROVE  /\ [w EXCEPT !.on = FALSE, !.chain = chain] \in Writers
           /\ InHand([w EXCEPT !.on = FALSE, !.chain = chain], c, what)
<1> DEFINE v == [w EXCEPT !.chain = chain]
           x == [w EXCEPT !.on = FALSE, !.chain = chain]
<1>1. v \in Writers /\ InHand(v, c, what)
  <2>1. CASE chain = w.chain
    <3>1. v = w
      BY <2>1 DEF Writers
    <3>2. QED
      BY <3>1
  <2>2. CASE w.chain # <<>> /\ chain = Tail(w.chain)
    BY <2>2, HandsEmpty
  <2>3. QED
    BY <2>1, <2>2
<1>2. v.chain = chain /\ v.chain \in Seq(Jobs)
  BY <1>1 DEF Writers
<1>3. x \in Writers /\ x.last = v.last /\ x.version = v.version /\ x.held = v.held
      /\ x.chain = v.chain
  BY <1>2 DEF Writers
<1> HIDE DEF x, v
<1>4. InHand(x, c, what)
  BY <1>1, <1>3 DEF InHand
<1>5. QED
  BY <1>3, <1>4 DEF x

LEMMA LeavesKeep ==
    ASSUME StoreInv, NEW t \in Threads, Stop(t) \/ PutRefused(t)
    PROVE  StoreInv'
<1> DEFINE r == writer[t]["run"]
<1>1. PICK chain \in {r.chain, Tail(r.chain)} :
        (chain = r.chain \/ r.chain # <<>>) /\ Leave(t, chain)
  BY DEF Stop, PutRefused
<1> DEFINE y == [r EXCEPT !.on = FALSE, !.chain = chain]
           x == [writer[t] EXCEPT !["run"] = NoWriter, !["late"] = y]
<1>2. UNCHANGED <<rows, log, versions, ledger, call, clock, made>>
  BY <1>1 DEF Leave, store
<1>3. writer' = [writer EXCEPT ![t]["run"] = NoWriter, ![t]["late"] = y]
  BY <1>1 DEF Leave
<1>4. ASSUME t = "source"
      PROVE  /\ x \in [{"run", "late"} -> Writers]
             /\ \A u \in {"run", "late"} : InHand(x[u], clock, made)
  <2>1. r \in Writers /\ InHand(r, clock, made)
    BY <1>4 DEF StoreInv, DataOK, WritersAgree
  <2>2. y \in Writers /\ InHand(y, clock, made)
    <3> HIDE DEF r
    <3>1. QED
      BY <1>1, <2>1, LeftInHand
  <2> HIDE DEF y
  <2>3. writer[t] \in [{"run", "late"} -> Writers]
    BY <1>4 DEF StoreInv, DataOK
  <2>4. QED
    BY <2>2, <2>3, NoWriterAgrees
<1> HIDE DEF y
<1>5. writer' = [writer EXCEPT ![t] = x]
  BY <1>3 DEF StoreInv, DataOK, Shape
<1> HIDE DEF x
<1>6. QED
  BY <1>2, <1>4, <1>5, RunMoves

-----------------------------------------------------------------------------
\* The compactions.
LEMMA MoveKeeps ==
    ASSUME StoreInv, UNCHANGED <<rows, log, versions, ledger, writer, clock, made>>,
           NEW c \in Calls, NEW at \in Places \ {"checking", "summarising"}, Move(c, at)
    PROVE  StoreInv'
<1>1. call[c] \in CallStates
  BY DEF StoreInv, DataOK
<1> DEFINE s == [call[c] EXCEPT !.at = at]
<1>2. s \in CallStates /\ s.at = at
  BY <1>1 DEF CallStates
<1>3. call' = [call EXCEPT ![c] = s]
  BY DEF Move
<1> HIDE DEF s
<1>4. QED
  BY <1>2, <1>3, CallMoves

LEMMA AnsweredByKeeps ==
    ASSUME StoreInv, UNCHANGED <<rows, log, versions, ledger, writer, clock, made>>,
           NEW c \in Calls, AnsweredBy(c)
    PROVE  StoreInv'
<1>1. CASE Move(c, "failed")
  BY <1>1, MoveKeeps DEF Places
<1>2. CASE call' = [call EXCEPT ![c].at = "committed", ![c].answer = ledger[OpOf[c]]]
  <2>1. call[c] \in CallStates /\ ledger[OpOf[c]] \in Receipts
    BY DEF StoreInv, DataOK, Ops
  <2> DEFINE s == [call[c] EXCEPT !.at = "committed", !.answer = ledger[OpOf[c]]]
  <2>2. s \in CallStates /\ s.at = "committed"
    BY <2>1 DEF CallStates, Places
  <2>3. call' = [call EXCEPT ![c] = s]
    BY <1>2 DEF StoreInv, DataOK
  <2> HIDE DEF s
  <2>4. QED
    BY <2>2, <2>3, CallMoves
<1>3. QED
  BY <1>1, <1>2 DEF AnsweredBy, Move

LEMMA PreparingKeeps ==
    ASSUME StoreInv, NEW c \in Calls, PrepareRow(c) \/ PrepareWrites(c)
    PROVE  StoreInv'
<1>1. UNCHANGED <<rows, log, versions, ledger, writer, clock, made>>
  BY DEF PrepareRow, PrepareWrites, store
<1>2. call[c] \in CallStates
  BY DEF StoreInv, DataOK
<1>3. CASE Move(c, "failed")
  BY <1>1, <1>3, MoveKeeps DEF Places
<1>4. CASE /\ Latest("source") # 0
           /\ call' = [call EXCEPT ![c].at = "checking", ![c].from = Latest("source")]
  <2> DEFINE s == [call[c] EXCEPT !.at = "checking", !.from = Latest("source")]
  <2>1. Latest("source") \in Stored("source") /\ Latest("source") \in 0..LastId
    BY <1>4, LatestIsStored DEF StoreInv, Stored, Checkpoints
  <2>2. s \in CallStates /\ s.at = "checking" /\ s.from = Latest("source")
    BY <1>2, <2>1 DEF CallStates, Places
  <2>3. call' = [call EXCEPT ![c] = s]
    BY <1>4 DEF StoreInv, DataOK
  <2> HIDE DEF s
  <2>4. QED
    BY <1>1, <2>1, <2>2, <2>3, CallMoves
<1>5. CASE /\ call[c].at = "checking"
           /\ call' = [call EXCEPT ![c].at = "summarising",
                                   ![c].held = Read("source", call[c].from)]
  <2> DEFINE list == Read("source", call[c].from)
             s == [call[c] EXCEPT !.at = "summarising", !.held = list]
  <2>1. call[c].from \in Stored("source")
    BY <1>5 DEF StoreInv, CallsAgree
  <2>2. list = made[call[c].from] /\ list \in MessageLists
    BY <2>1, ReadTyped DEF StoreInv, Kept
  <2>3. call' = [call EXCEPT ![c] = s]
    BY <1>5 DEF StoreInv, DataOK
  <2> HIDE DEF list
  <2>4. s \in CallStates /\ s.at = "summarising" /\ s.from = call[c].from /\ s.held = list
    BY <1>2, <2>2 DEF CallStates, Places
  <2> HIDE DEF s
  <2>5. QED
    BY <1>1, <2>1, <2>2, <2>3, <2>4, CallMoves
<1>6. QED
  BY <1>3, <1>4, <1>5 DEF PrepareRow, PrepareWrites, Move

\* The summary takes the place of the history.
LEMMA ReplaceKeeps ==
    ASSUME StoreInv, NEW c \in Calls, NEW summary \in Lists, Replace(c, summary),
           UNCHANGED writer
    PROVE  StoreInv'
<1> DEFINE k == clock'
           row == [version |-> k, parent |-> call[c].from, op |-> OpOf[c]]
           receipt == [id |-> k, from |-> call[c].from, identity |-> IdentityOf[c]]
           s == [call[c] EXCEPT !.at = "committed", !.answer = receipt]
<1>1. /\ clock' = clock + 1 /\ clock \in 0..LastId /\ clock' \in 0..LastId
      /\ clock' \in Checkpoints /\ clock' >= clock
      /\ made' = [made EXCEPT ![clock'] = summary]
  BY StoreAssumption DEF Replace, Room, StoreInv, DataOK, Checkpoints
<1>2. summary \in MessageLists
  BY StoreAssumption DEF MessageLists
<1>3. made' \in [Checkpoints -> MessageLists] /\ made'[clock'] = summary
      /\ \A j \in 1..clock : made'[j] = made[j]
  BY <1>1, <1>2 DEF StoreInv, DataOK, Checkpoints
<1>4. call[c] \in CallStates
  BY DEF StoreInv, DataOK
<1>5. OpOf[c] \in Ops /\ call[c].from \in 0..LastId
  BY <1>4 DEF Ops, CallStates
<1>6. row \in Rows /\ row.version = clock' /\ receipt \in Receipts
  BY <1>1, <1>5 DEF Rows, Receipts
<1>7. /\ Persist("source", clock', summary)
      /\ rows' = [rows EXCEPT !["source"] = [@ EXCEPT ![clock'] = row]]
      /\ ledger' = [ledger EXCEPT ![OpOf[c]] = receipt]
      /\ call' = [call EXCEPT ![c].at = "committed", ![c].answer = ledger'[OpOf[c]]]
  BY DEF Replace
<1>8. s \in CallStates /\ s.at = "committed" /\ ledger' \in [Ops -> Receipts]
      /\ call' = [call EXCEPT ![c] = s] /\ call' \in [Calls -> CallStates]
  <2> HIDE DEF receipt
  <2>1. ledger' \in [Ops -> Receipts] /\ ledger'[OpOf[c]] = receipt
    BY <1>5, <1>6, <1>7 DEF StoreInv, DataOK
  <2>2. s \in CallStates /\ s.at = "committed"
    BY <1>4, <1>6 DEF CallStates, Places
  <2>3. call' = [call EXCEPT ![c] = s]
    BY <1>7, <2>1 DEF StoreInv, DataOK
  <2>4. QED
    BY <2>1, <2>2, <2>3 DEF StoreInv, DataOK
<1> HIDE DEF row, receipt, s
<1>9. /\ rows' = [t \in Threads |-> rows'[t]] /\ log' = [t \in Threads |-> log'[t]]
      /\ versions' = [t \in Threads |-> versions'[t]]
      /\ rows'["source"] \in [Checkpoints -> Rows] /\ log'["source"] \in Seq(Entries)
      /\ versions'["source"] \in [Checkpoints -> Nat]
      /\ EndIsNamed("source")' /\ Kept("source")'
      /\ Stored("source")' = Stored("source") \cup {clock'}
  <2>1. /\ k \in Checkpoints /\ k <= clock' /\ made'[k] = summary /\ row.version = k
        /\ Persist("source", k, summary)
        /\ rows' = [rows EXCEPT !["source"] = [@ EXCEPT ![k] = row]]
    BY <1>1, <1>3, <1>6, <1>7
  <2>2. Stored("source")' = Stored("source") \cup {k}
        /\ rows' = [t \in Threads |-> rows'[t]] /\ log' = [t \in Threads |-> log'[t]]
        /\ versions' = [t \in Threads |-> versions'[t]]
        /\ rows'["source"] \in [Checkpoints -> Rows] /\ log'["source"] \in Seq(Entries)
        /\ versions'["source"] \in [Checkpoints -> Nat]
        /\ EndIsNamed("source")' /\ Kept("source")'
    <3> HIDE DEF k
    <3>1. Stores("source", k, row, summary)
      BY <2>1, <1>1, <1>3 DEF Stores
    <3>2. QED
      BY <3>1, <1>1, <1>2, <1>3, <1>6, <2>1, SourceStored, Storing DEF Tabled
  <2>3. QED
    BY <2>2
<1>10. DataOK'
  BY <1>1, <1>3, <1>8, <1>9 DEF StoreInv, DataOK, Shape
<1>11. WritersAgree'
  BY <1>1, <1>3, HandsStay DEF WritersAgree
<1>12. CallsAgree'
  <2> SUFFICES ASSUME NEW d \in Calls
               PROVE  /\ call'[d].at \in {"checking", "summarising"}
                            => call'[d].from \in Stored("source")'
                      /\ call'[d].at = "summarising" => call'[d].held = made'[call'[d].from]
    BY DEF CallsAgree
  <2>1. CASE d = c
    BY <2>1, <1>8 DEF StoreInv, DataOK
  <2>2. CASE d # c
    <3>1. call'[d] = call[d]
      BY <2>2, <1>8 DEF StoreInv, DataOK
    <3>2. ASSUME call[d].from \in Stored("source")
          PROVE  made'[call[d].from] = made[call[d].from]
      <4>1. call[d].from \in 1..clock
        BY <3>2, <1>1, StoreAssumption DEF StoreInv, Kept, Stored, Checkpoints
      <4>2. QED
        BY <4>1, <1>3
    <3>3. QED
      BY <3>1, <3>2, <1>9 DEF StoreInv, CallsAgree
  <2>3. QED
    BY <2>1, <2>2
<1>13. QED
  BY <1>9, <1>10, <1>11, <1>12 DEF StoreInv

LEMMA CommitKeeps ==
    ASSUME StoreInv, NEW c \in Calls, Commit(c)
    PROVE  StoreInv'
<1>1. UNCHANGED writer
  BY DEF Commit
<1>2. CASE AnsweredBy(c) /\ UNCHANGED <<store, ledger, clock, made>>
  BY <1>1, <1>2, AnsweredByKeeps DEF store
<1>3. CASE Move(c, "failed") /\ UNCHANGED <<store, ledger, clock, made>>
  BY <1>1, <1>3, MoveKeeps DEF store, Places
<1>4. CASE \E summary \in Lists : Replace(c, summary)
  BY <1>1, <1>4, ReplaceKeeps
<1>5. QED
  BY <1>2, <1>3, <1>4 DEF Commit

LEMMA CompactingKeeps ==
    ASSUME StoreInv, NEW c \in Calls, Compacting(c)
    PROVE  StoreInv'
<1>1. CASE Compact(c) \/ CommitRefused(c) \/ Answer(c)
  BY <1>1, MoveKeeps DEF Compact, CommitRefused, Answer, store, Places
<1>2. CASE ReadCommitted(c)
  <2>1. UNCHANGED <<rows, log, versions, ledger, writer, clock, made>>
    BY <1>2 DEF ReadCommitted, store
  <2>2. AnsweredBy(c) \/ Move(c, "preparing")
    BY <1>2 DEF ReadCommitted
  <2>3. QED
    BY <2>1, <2>2, AnsweredByKeeps, MoveKeeps DEF Places
<1>3. QED
  BY <1>1, <1>2, PreparingKeeps, CommitKeeps DEF Compacting

-----------------------------------------------------------------------------
\* Clones copy what is there, and pending writes are no one's messages.
LEMMA ClonesKeep ==
    ASSUME StoreInv, Forking \/ \E t \in Threads, w \in {"run", "late"} : PutWrites(t, w)
    PROVE  StoreInv'
<1>1. clock' \in 0..LastId /\ clock' >= clock /\ made' \in [Checkpoints -> MessageLists]
      /\ UNCHANGED <<ledger, call, writer, clock, made>>
  BY DEF Forking, ForkBegins, CloneThread, CloneUntilCheckpoint, CopyChain, CloneThrows,
         PutWrites, store, StoreInv, DataOK
<1>2. CASE UNCHANGED <<rows, log, versions>>
  BY <1>1, <1>2, SourceKept DEF StoreInv, DataOK, Shape
<1>3. ASSUME NEW r, NEW l, NEW v, rows' = [rows EXCEPT !["copy"] = r],
             log' = [log EXCEPT !["copy"] = l], versions' = [versions EXCEPT !["copy"] = v]
      PROVE  StoreInv'
  <2>1. Shape' /\ rows'["source"] = rows["source"] /\ log'["source"] = log["source"]
        /\ versions'["source"] = versions["source"]
    BY <1>1, <1>3 DEF StoreInv, DataOK, Shape, Threads
  <2>2. QED
    BY <1>1, <2>1, SourceKept
<1>4. CASE CloneThread
  BY <1>3, <1>4 DEF CloneThread
<1>5. CASE CloneUntilCheckpoint
  <2>1. \E r, l, v : /\ rows' = [rows EXCEPT !["copy"] = r]
                    /\ log' = [log EXCEPT !["copy"] = l]
                    /\ versions' = [versions EXCEPT !["copy"] = v]
    BY <1>5 DEF CloneUntilCheckpoint, CopyChain
  <2>2. QED
    BY <1>3, <2>1
<1>6. QED
  BY <1>2, <1>4, <1>5 DEF Forking, ForkBegins, CloneThrows, PutWrites, store

LEMMA CrashKeeps ==
    ASSUME StoreInv, Crash
    PROVE  StoreInv'
<1>1. UNCHANGED <<rows, log, versions, ledger, clock, made>>
  BY DEF Crash, store
<1>2. NoWriter \in Writers /\ InHand(NoWriter, clock, made)
  BY NoWriterAgrees
<1>3. writer' = [t \in Threads |-> writer'[t]]
      /\ writer'["source"] \in [{"run", "late"} -> Writers] /\ WritersAgree'
  BY <1>1, <1>2 DEF Crash, Threads, WritersAgree
<1>4. ASSUME NEW c \in Calls
      PROVE  call'[c] \in CallStates /\ call'[c].at \in {"idle", "answered", "failed"}
  <2>1. call[c] \in CallStates
    BY DEF StoreInv, DataOK
  <2>2. CASE Active(c)
    <3>1. call'[c] = [call[c] EXCEPT !.at = "failed"]
      BY <2>2 DEF Crash
    <3>2. QED
      BY <2>1, <3>1 DEF CallStates, Places
  <2>3. CASE ~Active(c)
    BY <2>1, <2>3 DEF Crash, Active
  <2>4. QED
    BY <2>2, <2>3
<1>5. call' \in [Calls -> CallStates] /\ CallsAgree'
  BY <1>4 DEF Crash, CallsAgree
<1>6. DataOK'
  BY <1>1, <1>3, <1>5 DEF StoreInv, DataOK, Shape
<1>7. EndIsNamed("source")' /\ Kept("source")'
  BY <1>1 DEF StoreInv, EndIsNamed, Kept, Stored, Read
<1>8. QED
  BY <1>3, <1>5, <1>6, <1>7 DEF StoreInv

LEMMA StoreInductive ==
    ASSUME StoreInv, [Next]_vars
    PROVE  StoreInv'
<1>1. CASE UNCHANGED vars
  <2>1. UNCHANGED <<rows, log, versions, ledger, call, clock, made, writer>>
    BY <1>1 DEF vars, store
  <2>2. clock' \in 0..LastId /\ clock' >= clock /\ made' \in [Checkpoints -> MessageLists]
        /\ Shape'
    BY <2>1 DEF StoreInv, DataOK, Shape
  <2>3. QED
    BY <2>1, <2>2, SourceKept
<1>2. CASE \E t \in Threads : Running(t)
  <2>1. PICK t \in Threads : Running(t)
    BY <1>2
  <2>2. CASE \E w \in {"run", "late"} : PutWrites(t, w)
    BY <2>2, ClonesKeep
  <2>3. QED
    BY <2>1, <2>2, BeginKeeps, EndsKeep, LeavesKeep, StepKeeps, PutKeeps DEF Running
<1>3. CASE \E c \in Calls : Compacting(c)
  BY <1>3, CompactingKeeps
<1>4. CASE Forking \/ Crash
  BY <1>4, ClonesKeep, CrashKeeps
<1>5. QED
  BY <1>1, <1>2, <1>3, <1>4 DEF Next

LEMMA StoreInvariant == Spec => []StoreInv
<1>1. Init => StoreInv
  BY StoreInitially
<1>2. StoreInv /\ [Next]_vars => StoreInv'
  BY StoreInductive
<1>3. QED
  BY <1>1, <1>2, PTL DEF Spec

-----------------------------------------------------------------------------
\* A checkpoint is read with the messages it was put with, whatever was put after it,
\* shares its version or was compacted (loadMessagesForStateVersion).
THEOREM CheckpointsRead == Spec => []ReadsWhatWasPut
<1>1. StoreInv => ReadsWhatWasPut
  BY DEF StoreInv, Kept, ReadsWhatWasPut
<1>2. QED
  BY <1>1, StoreInvariant, PTL

\* A compaction replaces the latest checkpoint, which nobody has written to, by a
\* summary of that checkpoint's messages (compactCheckpoint).
THEOREM CompactionOvertakesNothing == Spec => NothingOvertaken
<1> DEFINE From(k) == rows'["source"][k].parent
           Rightly(k) == /\ From(k) = Latest("source") /\ From(k) \notin writes["source"]
                         /\ \E c \in Calls :
                              call[c].from = From(k) /\ call[c].held = made[From(k)]
           A == \A k \in Stored("source")' \ Stored("source") :
                  rows'["source"][k].op # NoOp => Rightly(k)
<1>1. StoreInv /\ [Next]_vars => [A]_vars
  <2> SUFFICES ASSUME StoreInv, Next,
                      NEW k \in Stored("source")' \ Stored("source"),
                      rows'["source"][k].op # NoOp
               PROVE  Rightly(k)
    OBVIOUS
  <2>1. rows'["source"] # rows["source"] /\ k \in Checkpoints
        /\ rows'["source"][k] # rows["source"][k]
    BY DEF Stored
  <2>2. CASE \E t \in Threads, w \in {"run", "late"} : Put(t, w)
    <3>1. PICK t \in Threads, w \in {"run", "late"} : Put(t, w)
      BY <2>2
    <3> DEFINE job == Head(writer[t][w].chain)
               row == [version |-> job.version, parent |-> job.parent, op |-> NoOp]
    <3>2. rows' = [rows EXCEPT ![t][job.id] = row]
      BY <3>1 DEF Put
    <3>3. row.op = NoOp
      OBVIOUS
    <3> HIDE DEF row, job
    <3>4. t = "source"
      BY <2>1, <3>2 DEF StoreInv, DataOK, Shape, Threads
    <3>5. rows'["source"] = [rows["source"] EXCEPT ![job.id] = row]
      BY <3>2, <3>4 DEF StoreInv, DataOK, Shape
    <3>6. rows'["source"][k] = row
      BY <2>1, <3>5 DEF StoreInv, DataOK
    <3>7. QED
      BY <3>3, <3>6
  <2>3. CASE \E c \in Calls : Commit(c)
    <3>1. PICK c \in Calls : Commit(c)
      BY <2>3
    <3>2. PICK summary \in Lists : Replace(c, summary)
      BY <2>1, <3>1 DEF Commit, store
    <3>3. /\ call[c].at = "summarising"
          /\ Latest("source") = call[c].from /\ call[c].from \notin writes["source"]
      BY <2>1, <3>1 DEF Commit, store
    <3> DEFINE row == [version |-> clock', parent |-> call[c].from, op |-> OpOf[c]]
    <3>4. rows'["source"] = [rows["source"] EXCEPT ![clock'] = row]
      BY <3>2 DEF Replace, StoreInv, DataOK, Shape, Threads
    <3>5. rows'["source"][k] = row
      BY <2>1, <3>4 DEF StoreInv, DataOK
    <3>6. From(k) = call[c].from
      BY <3>5
    <3>7. call[c].held = made[call[c].from]
      BY <3>3 DEF StoreInv, CallsAgree
    <3>8. QED
      BY <3>3, <3>6, <3>7
  <2>4. CASE Forking
    BY <2>1, <2>4 DEF Forking, ForkBegins, CloneThread, CloneUntilCheckpoint, CopyChain,
                      CloneThrows, store, StoreInv, DataOK, Shape, Threads
  <2>5. CASE Crash
    BY <2>1, <2>5 DEF Crash, store
  <2>6. CASE \E t \in Threads : Running(t)
    <3>1. ASSUME ~ \E t \in Threads, w \in {"run", "late"} : Put(t, w)
          PROVE  UNCHANGED rows
      BY <2>6, <3>1 DEF Running, Begin, Finish, Stop, PutRefused, Leave, LateEnds, Step,
                        PutWrites, store
    <3>2. QED
      BY <2>1, <2>2, <3>1
  <2>7. CASE \E c \in Calls : Compacting(c)
    <3>1. ASSUME ~ \E c \in Calls : Commit(c)
          PROVE  UNCHANGED rows
      BY <2>7, <3>1 DEF Compacting, Compact, ReadCommitted, PrepareRow, PrepareWrites,
                        CommitRefused, Answer, store
    <3>2. QED
      BY <2>1, <2>3, <3>1
  <2>8. QED
    BY <2>4, <2>5, <2>6, <2>7 DEF Next
<1>2. QED
  BY <1>1, StoreInvariant, PTL DEF Spec, NothingOvertaken

-----------------------------------------------------------------------------
\* A checkpoint that has been handed over and not been put.
Handed(k) ==
    \E w \in {"run", "late"} : \E i \in DOMAIN writer["source"][w].chain :
        writer["source"][w].chain[i].id = k

\* The checkpoint of a receipt is there and nobody will put it again; it is the only
\* one of its operation.
Receipted(op) ==
    /\ rows["source"][ledger[op].id].op = op
    /\ rows["source"][ledger[op].id].parent = ledger[op].from
    /\ ~Handed(ledger[op].id)
    /\ \A k \in Checkpoints : rows["source"][k].op = op => k = ledger[op].id

Unreceipted(op) == \A k \in Checkpoints : rows["source"][k].op # op

\* A call that has its answer has the receipt of its operation.
Receives(c) ==
    call[c].at \in {"committed", "answered"} =>
        /\ ledger[OpOf[c]] # NoReceipt
        /\ ledger[OpOf[c]].identity = IdentityOf[c]
        /\ call[c].answer = ledger[OpOf[c]]

CompactInv ==
    /\ \A op \in Ops : IF ledger[op] = NoReceipt THEN Unreceipted(op) ELSE Receipted(op)
    /\ \A c \in Calls : Receives(c)

LEMMA ReceiptIs ==
    ASSUME StoreInv, CompactInv, NEW op \in Ops, ledger[op] # NoReceipt
    PROVE  /\ ledger[op].id \in Stored("source") /\ ledger[op].id \in 1..clock
           /\ Receipted(op)
<1>1. Receipted(op)
  BY DEF CompactInv
<1>2. ledger[op].id \in Checkpoints
  BY DEF StoreInv, DataOK, Receipts
<1>3. op # NoOp
  BY StoreAssumption
<1>4. ledger[op].id \in Stored("source")
  BY <1>1, <1>2, <1>3 DEF Receipted, Stored, NoRow
<1>5. ledger[op].id <= clock /\ clock \in 0..LastId
  BY <1>4 DEF StoreInv, Kept, DataOK
<1>6. QED
  BY <1>1, <1>2, <1>4, <1>5, StoreAssumption DEF Checkpoints

\* What is handed over was handed over before, or is a checkpoint made since.
HandsOverNew == \A k \in 1..clock : Handed(k)' => Handed(k)

\* One of the two that put checkpoints changes, and has fewer to put, or one more.
LEMMA OneHand ==
    ASSUME StoreInv, NEW t \in Threads, NEW w \in {"run", "late"}, NEW x,
           writer' = [writer EXCEPT ![t] = [@ EXCEPT ![w] = x]],
           t = "source" =>
               \A i \in DOMAIN x.chain :
                 \/ \E j \in DOMAIN writer["source"][w].chain :
                      x.chain[i].id = writer["source"][w].chain[j].id
                 \/ x.chain[i].id = clock + 1
    PROVE  HandsOverNew
<1>1. CASE t = "source"
  <2>1. writer'["source"] = [writer["source"] EXCEPT ![w] = x]
    BY <1>1 DEF StoreInv, DataOK, Shape
  <2>2. writer'["source"][w] = x
        /\ \A v \in {"run", "late"} : v # w => writer'["source"][v] = writer["source"][v]
    BY <2>1 DEF StoreInv, DataOK
  <2>3. clock \in Nat
    BY StoreAssumption DEF StoreInv, DataOK
  <2> SUFFICES ASSUME NEW k \in 1..clock, Handed(k)'
               PROVE  Handed(k)
    BY DEF HandsOverNew
  <2>4. PICK v \in {"run", "late"} : \E i \in DOMAIN writer'["source"][v].chain :
                                       writer'["source"][v].chain[i].id = k
    BY DEF Handed
  <2>5. PICK i \in DOMAIN writer'["source"][v].chain : writer'["source"][v].chain[i].id = k
    BY <2>4
  <2>6. CASE v # w
    BY <2>2, <2>5, <2>6 DEF Handed
  <2>7. CASE v = w
    <3>1. i \in DOMAIN x.chain /\ x.chain[i].id = k
      BY <2>2, <2>5, <2>7
    <3>2. k # clock + 1
      BY <2>3
    <3>3. PICK j \in DOMAIN writer["source"][w].chain :
            x.chain[i].id = writer["source"][w].chain[j].id
      BY <1>1, <3>1, <3>2
    <3>4. QED
      BY <3>1, <3>3 DEF Handed
  <2>8. QED
    BY <2>6, <2>7
<1>2. CASE t = "copy"
  BY <1>2 DEF HandsOverNew, Handed, StoreInv, DataOK, Shape, Threads
<1>3. QED
  BY <1>1, <1>2 DEF Threads

LEMMA SameHands ==
    ASSUME UNCHANGED writer
    PROVE  HandsOverNew
BY DEF HandsOverNew, Handed

LEMMA TailIsFewer ==
    ASSUME NEW w \in Writers, w.chain # <<>>
    PROVE  /\ Tail(w.chain) \in Seq(Jobs) /\ Head(w.chain) \in Jobs
           /\ 1 \in DOMAIN w.chain /\ Head(w.chain) = w.chain[1]
           /\ \A i \in DOMAIN Tail(w.chain) :
                i + 1 \in DOMAIN w.chain /\ Tail(w.chain)[i] = w.chain[i + 1]
<1>1. w.chain \in Seq(Jobs) /\ w.chain # <<>>
  BY DEF Writers
<1>2. QED
  BY <1>1

LEMMA RunningHandsOverNew ==
    ASSUME StoreInv, NEW t \in Threads, Running(t)
    PROVE  HandsOverNew
<1>1. NoWriter.chain = <<>> /\ DOMAIN <<>> = {}
  BY DEF NoWriter
<1>2. t = "source" => writer[t]["run"] \in Writers /\ writer[t]["late"] \in Writers
  BY DEF StoreInv, DataOK
<1>3. CASE Begin(t)
  <2> DEFINE k == Latest(t)
             x == IF k = 0 THEN [NoWriter EXCEPT !.on = TRUE]
                  ELSE [NoWriter EXCEPT !.on = TRUE, !.last = k,
                                        !.version = rows[t][k].version, !.held = Read(t, k)]
  <2>1. writer' = [writer EXCEPT ![t] = [@ EXCEPT !["run"] = x]]
    BY <1>3 DEF Begin
  <2>2. x.chain = <<>>
    BY DEF NoWriter
  <2> HIDE DEF x
  <2>3. QED
    BY <1>1, <2>1, <2>2, OneHand
<1>4. CASE Finish(t) \/ LateEnds(t)
  <2>1. PICK w \in {"run", "late"} :
          writer' = [writer EXCEPT ![t] = [@ EXCEPT ![w] = NoWriter]]
    BY <1>4 DEF Finish, LateEnds
  <2>2. QED
    BY <1>1, <2>1, OneHand
<1>5. CASE Stop(t) \/ PutRefused(t)
  <2> DEFINE r == writer[t]["run"]
  <2>1. PICK chain \in {r.chain, Tail(r.chain)} :
          (chain = r.chain \/ r.chain # <<>>) /\ Leave(t, chain)
    BY <1>5 DEF Stop, PutRefused
  <2> DEFINE y == [r EXCEPT !.on = FALSE, !.chain = chain]
  <2>2. writer' = [writer EXCEPT ![t] = [@ EXCEPT !["run"] = NoWriter, !["late"] = y]]
    BY <2>1 DEF Leave
  <2>3. CASE t = "copy"
    BY <2>2, <2>3 DEF HandsOverNew, Handed, StoreInv, DataOK, Shape, Threads
  <2>4. CASE t = "source"
    <3>1. r \in Writers
      BY <2>4, <1>2
    <3>2. y.chain = chain
      BY <3>1 DEF Writers
    <3>3. \A i \in DOMAIN chain : \E j \in DOMAIN r.chain : chain[i].id = r.chain[j].id
      <4> HIDE DEF r
      <4>1. QED
        BY <2>1, <3>1, TailIsFewer
    <3> HIDE DEF y
    <3>4. writer'["source"]["run"] = NoWriter /\ writer'["source"]["late"] = y
      BY <2>2, <2>4 DEF StoreInv, DataOK, Shape
    <3>5. QED
      BY <1>1, <2>4, <3>2, <3>3, <3>4 DEF HandsOverNew, Handed
  <2>5. QED
    BY <2>3, <2>4 DEF Threads
<1>6. ASSUME NEW list \in Lists, Step(t, list)
      PROVE  HandsOverNew
  <2> DEFINE w == writer[t]["run"]
             new(v) == [on |-> TRUE, last |-> clock', version |-> v, held |-> list,
                        chain |-> Append(w.chain, [id |-> clock', parent |-> w.last,
                                                   version |-> v])]
  <2>1. PICK v : writer' = [writer EXCEPT ![t] = [@ EXCEPT !["run"] = new(v)]]
    BY <1>6 DEF Step
  <2>2. clock' = clock + 1
    BY <1>6 DEF Step
  <2>3. CASE t = "copy"
    BY <2>1, <2>3 DEF HandsOverNew, Handed, StoreInv, DataOK, Shape, Threads
  <2>4. CASE t = "source"
    <3> DEFINE job == [id |-> clock', parent |-> w.last, version |-> v]
               x == new(v)
    <3>1. job.id = clock + 1 /\ x.chain = Append(w.chain, job)
      BY <2>2
    <3>2. w.chain \in Seq(Jobs)
      BY <2>4, <1>2 DEF Writers
    <3>3. writer' = [writer EXCEPT ![t] = [@ EXCEPT !["run"] = x]]
      BY <2>1
    <3> HIDE DEF job, x
    <3>4. \A i \in DOMAIN x.chain :
            \/ i \in DOMAIN w.chain /\ x.chain[i] = w.chain[i]
            \/ x.chain[i] = job
      BY <3>1, <3>2
    <3>5. \A i \in DOMAIN x.chain :
            \/ \E j \in DOMAIN w.chain : x.chain[i].id = w.chain[j].id
            \/ x.chain[i].id = clock + 1
      BY <3>1, <3>4
    <3>6. "source" \in Threads /\ "run" \in {"run", "late"}
          /\ writer' = [writer EXCEPT !["source"] = [@ EXCEPT !["run"] = x]]
      BY <2>4, <3>3 DEF Threads
    <3>7. \A i \in DOMAIN x.chain :
            \/ \E j \in DOMAIN writer["source"]["run"].chain :
                 x.chain[i].id = writer["source"]["run"].chain[j].id
            \/ x.chain[i].id = clock + 1
      BY <2>4, <3>5
    <3> HIDE DEF w, new
    <3>8. QED
      BY <3>6, <3>7, OneHand
  <2>5. QED
    BY <2>3, <2>4 DEF Threads
<1>7. ASSUME NEW w \in {"run", "late"}, Put(t, w)
      PROVE  HandsOverNew
  <2> DEFINE r == writer[t][w]
             x == [r EXCEPT !.chain = Tail(@)]
  <2>1. writer' = [writer EXCEPT ![t] = [@ EXCEPT ![w] = x]] /\ r.chain # <<>>
    BY <1>7 DEF Put
  <2>2. t = "source" => /\ x.chain = Tail(r.chain)
                        /\ \A i \in DOMAIN Tail(r.chain) : \E j \in DOMAIN r.chain :
                             Tail(r.chain)[i].id = r.chain[j].id
    <3> SUFFICES ASSUME t = "source"
                 PROVE  /\ x.chain = Tail(r.chain)
                        /\ \A i \in DOMAIN Tail(r.chain) : \E j \in DOMAIN r.chain :
                             Tail(r.chain)[i].id = r.chain[j].id
      OBVIOUS
    <3>1. r \in Writers
      BY <1>2
    <3>2. x.chain = Tail(r.chain)
      BY <3>1 DEF Writers
    <3> HIDE DEF r, x
    <3>3. QED
      BY <2>1, <3>1, <3>2, TailIsFewer
  <2>3. t = "source" => \A i \in DOMAIN x.chain : \E j \in DOMAIN writer["source"][w].chain :
                          x.chain[i].id = writer["source"][w].chain[j].id
    BY <2>2
  <2> HIDE DEF x
  <2>4. QED
    BY <2>1, <2>3, OneHand
<1>8. ASSUME NEW w \in {"run", "late"}, PutWrites(t, w)
      PROVE  HandsOverNew
  BY <1>8, SameHands DEF PutWrites
<1>9. QED
  BY <1>3, <1>4, <1>5, <1>6, <1>7, <1>8 DEF Running

-----------------------------------------------------------------------------
\* A step that stores no summary and tells no call an answer.
LEMMA ReceiptsStay ==
    ASSUME StoreInv, CompactInv, ledger' = ledger, HandsOverNew,
           \A k \in Checkpoints :
               \/ rows'["source"][k] = rows["source"][k]
               \/ rows'["source"][k].op = NoOp /\ Handed(k),
           \A c \in Calls : Receives(c)'
    PROVE  CompactInv'
<1> SUFFICES ASSUME NEW op \in Ops
             PROVE  IF ledger[op] = NoReceipt THEN Unreceipted(op)' ELSE Receipted(op)'
  BY DEF CompactInv
<1>1. op # NoOp
  BY StoreAssumption
<1>2. ASSUME NEW k \in Checkpoints, rows'["source"][k].op = op
      PROVE  rows["source"][k].op = op
  BY <1>1, <1>2
<1>3. CASE ledger[op] = NoReceipt
  BY <1>2, <1>3 DEF CompactInv, Unreceipted
<1>4. CASE ledger[op] # NoReceipt
  <2>1. Receipted(op) /\ ledger[op].id \in 1..clock /\ ledger[op].id \in Checkpoints
    BY <1>4, ReceiptIs DEF Stored
  <2>2. rows'["source"][ledger[op].id] = rows["source"][ledger[op].id]
    BY <2>1 DEF Receipted
  <2>3. ~Handed(ledger[op].id)'
    BY <2>1 DEF Receipted, HandsOverNew
  <2>4. QED
    BY <1>2, <1>4, <2>1, <2>2, <2>3 DEF Receipted
<1>5. QED
  BY <1>3, <1>4

LEMMA RunningReceipts ==
    ASSUME StoreInv, CompactInv, NEW t \in Threads, Running(t)
    PROVE  CompactInv'
<1>1. UNCHANGED <<ledger, call>>
  BY DEF Running, Begin, Finish, Stop, PutRefused, Leave, LateEnds, Step, Put, PutWrites
<1>2. HandsOverNew
  BY RunningHandsOverNew
<1>3. \A c \in Calls : Receives(c)'
  BY <1>1 DEF CompactInv, Receives
<1>4. CASE UNCHANGED rows
  BY <1>1, <1>2, <1>3, <1>4, ReceiptsStay
<1>5. ASSUME NEW w \in {"run", "late"}, Put(t, w)
      PROVE  CompactInv'
  <2> DEFINE r == writer[t][w]
             job == Head(r.chain)
             row == [version |-> job.version, parent |-> job.parent, op |-> NoOp]
  <2>1. rows' = [rows EXCEPT ![t] = [@ EXCEPT ![job.id] = row]] /\ r.chain # <<>>
        /\ row.op = NoOp
    BY <1>5 DEF Put
  <2>2. CASE t = "copy"
    <3>1. rows'["source"] = rows["source"]
      BY <2>1, <2>2 DEF StoreInv, DataOK, Shape, Threads
    <3>2. QED
      BY <1>1, <1>2, <1>3, <3>1, ReceiptsStay
  <2>3. CASE t = "source"
    <3>1. r \in Writers
      BY <2>3 DEF StoreInv, DataOK
    <3>2. 1 \in DOMAIN r.chain /\ job = r.chain[1]
      <4> HIDE DEF r
      <4>1. QED
        BY <2>1, <3>1, TailIsFewer
    <3>3. Handed(job.id)
      BY <2>3, <3>2 DEF Handed
    <3> HIDE DEF row, job
    <3>4. rows'["source"] = [rows["source"] EXCEPT ![job.id] = row]
      BY <2>1, <2>3 DEF StoreInv, DataOK, Shape
    <3>5. \A k \in Checkpoints :
            \/ rows'["source"][k] = rows["source"][k]
            \/ rows'["source"][k].op = NoOp /\ Handed(k)
      BY <2>1, <3>3, <3>4 DEF StoreInv, DataOK
    <3>6. QED
      BY <1>1, <1>2, <1>3, <3>5, ReceiptsStay
  <2>4. QED
    BY <2>2, <2>3 DEF Threads
<1>6. QED
  BY <1>4, <1>5 DEF Running, Begin, Finish, Stop, PutRefused, Leave, LateEnds, Step,
                    PutWrites, store

\* The steps of the calls and of the process that leave the tables and the hands alone.
LEMMA TablesAlone ==
    ASSUME StoreInv, CompactInv, UNCHANGED <<rows, ledger, writer>>,
           \A c \in Calls : Receives(c)'
    PROVE  CompactInv'
BY SameHands, ReceiptsStay

LEMMA MoveReceives ==
    ASSUME StoreInv, CompactInv, ledger' = ledger, NEW c \in Calls, NEW s,
           call' = [call EXCEPT ![c] = s],
           s.at \in {"committed", "answered"} =>
               /\ ledger[OpOf[c]] # NoReceipt
               /\ ledger[OpOf[c]].identity = IdentityOf[c]
               /\ s.answer = ledger[OpOf[c]]
    PROVE  \A d \in Calls : Receives(d)'
BY DEF CompactInv, Receives, StoreInv, DataOK

\* A call is told what the receipt says, when it asked for the same.
LEMMA AnsweredReceives ==
    ASSUME StoreInv, CompactInv, ledger' = ledger, NEW c \in Calls, AnsweredBy(c),
           ledger[OpOf[c]] # NoReceipt
    PROVE  \A d \in Calls : Receives(d)'
<1>1. call[c] \in CallStates
  BY DEF StoreInv, DataOK
<1>2. CASE ledger[OpOf[c]].identity = IdentityOf[c]
  <2> DEFINE s == [call[c] EXCEPT !.at = "committed", !.answer = ledger[OpOf[c]]]
  <2>1. call' = [call EXCEPT ![c] = s]
    BY <1>2 DEF AnsweredBy, StoreInv, DataOK
  <2>2. s.answer = ledger[OpOf[c]]
    BY <1>1 DEF CallStates
  <2> HIDE DEF s
  <2>3. QED
    BY <1>2, <2>1, <2>2, MoveReceives
<1>3. CASE ledger[OpOf[c]].identity # IdentityOf[c]
  <2> DEFINE s == [call[c] EXCEPT !.at = "failed"]
  <2>1. call' = [call EXCEPT ![c] = s]
    BY <1>3 DEF AnsweredBy
  <2>2. s.at = "failed"
    BY <1>1 DEF CallStates
  <2> HIDE DEF s
  <2>3. QED
    BY <2>1, <2>2, MoveReceives
<1>4. QED
  BY <1>2, <1>3

LEMMA MovedReceives ==
    ASSUME StoreInv, CompactInv, ledger' = ledger, NEW c \in Calls,
           NEW at \in Places \ {"committed", "answered"}, Move(c, at)
    PROVE  \A d \in Calls : Receives(d)'
<1> DEFINE s == [call[c] EXCEPT !.at = at]
<1>1. call' = [call EXCEPT ![c] = s]
  BY DEF Move
<1>2. s.at = at
  BY DEF StoreInv, DataOK, CallStates
<1> HIDE DEF s
<1>3. QED
  BY <1>1, <1>2, MoveReceives

\* The summary has an id nobody has, and its receipt is the first of its operation.
LEMMA ReplaceReceipts ==
    ASSUME StoreInv, CompactInv, NEW c \in Calls, ledger[OpOf[c]] = NoReceipt,
           NEW summary \in Lists, Replace(c, summary), UNCHANGED writer
    PROVE  CompactInv'
<1> DEFINE k == clock + 1
           mine == OpOf[c]
           row == [version |-> k, parent |-> call[c].from, op |-> mine]
           receipt == [id |-> k, from |-> call[c].from, identity |-> IdentityOf[c]]
<1>1. clock \in 0..LastId /\ clock \in Nat /\ k \in Checkpoints /\ clock' = k
  BY StoreAssumption DEF Replace, Room, StoreInv, DataOK, Checkpoints
<1>2. mine \in Ops /\ call[c] \in CallStates
  BY DEF Ops, StoreInv, DataOK
<1>3. rows' = [rows EXCEPT !["source"] = [@ EXCEPT ![k] = row]]
      /\ ledger' = [ledger EXCEPT ![mine] = receipt]
      /\ call' = [call EXCEPT ![c].at = "committed", ![c].answer = ledger'[mine]]
  BY <1>1 DEF Replace
<1>4. receipt.id = k /\ receipt.from = row.parent /\ receipt.identity = IdentityOf[c]
      /\ row.op = mine
  OBVIOUS
<1>5. receipt # NoReceipt
  <2>1. receipt \in [id : Checkpoints, from : 0..LastId,
                     identity : {IdentityOf[d] : d \in Calls}]
    BY <1>1, <1>2 DEF CallStates
  <2>2. QED
    BY <2>1, StoreAssumption
<1> HIDE DEF row, receipt, k
<1>6. /\ rows'["source"][k] = row
      /\ \A j \in Checkpoints : j # k => rows'["source"][j] = rows["source"][j]
  BY <1>1, <1>3 DEF StoreInv, DataOK, Shape, Threads
<1>7. ledger'[mine] = receipt /\ \A op \in Ops : op # mine => ledger'[op] = ledger[op]
  BY <1>2, <1>3 DEF StoreInv, DataOK
<1>8. \A j \in Checkpoints : rows["source"][j].op # mine
  BY <1>2 DEF CompactInv, Unreceipted
<1>9. ASSUME NEW j \in Checkpoints, j = k
      PROVE  ~Handed(j)'
  <2> SUFFICES ASSUME NEW w \in {"run", "late"},
                      NEW i \in DOMAIN writer["source"][w].chain
               PROVE  writer["source"][w].chain[i].id # j
    BY DEF Handed
  <2>1. writer["source"][w].chain[i].id <= clock
        /\ writer["source"][w].chain[i] \in Jobs
    BY DEF StoreInv, DataOK, WritersAgree, InHand, Writers
  <2>2. writer["source"][w].chain[i].id \in Nat
    BY <2>1 DEF Jobs, Checkpoints
  <2>3. QED
    BY <1>1, <1>9, <2>1, <2>2 DEF k
<1>10. Receipted(mine)'
  <2>1. ledger'[mine].id = k /\ ledger'[mine].from = row.parent
    BY <1>4, <1>7
  <2>2. ~Handed(ledger[mine].id)'
    BY <1>1, <1>9, <2>1 DEF Handed
  <2>3. \A j \in Checkpoints : rows'["source"][j].op = mine => j = k
    BY <1>6, <1>8
  <2>4. QED
    BY <1>4, <1>6, <2>1, <2>2, <2>3 DEF Receipted
<1>11. ASSUME NEW op \in Ops, op # mine, ledger[op] = NoReceipt
       PROVE  Unreceipted(op)'
  BY <1>4, <1>6, <1>11 DEF CompactInv, Unreceipted
<1>12. ASSUME NEW op \in Ops, op # mine, ledger[op] # NoReceipt
       PROVE  Receipted(op)'
  <2>1. Receipted(op) /\ ledger[op].id \in 1..clock /\ ledger[op].id \in Checkpoints
    BY <1>12, ReceiptIs DEF Stored
  <2>2. ledger'[op] = ledger[op] /\ ledger[op].id # k
    BY <1>1, <1>7, <1>12, <2>1 DEF k
  <2>3. Handed(ledger[op].id)' => Handed(ledger[op].id)
    BY <2>2 DEF Handed
  <2>4. QED
    BY <1>4, <1>6, <1>12, <2>1, <2>2, <2>3 DEF Receipted
<1>13. ASSUME NEW d \in Calls
       PROVE  Receives(d)'
  <2>1. CASE d = c
    <3>1. call'[c].answer = receipt
      BY <1>2, <1>3, <1>7 DEF StoreInv, DataOK, CallStates
    <3>2. QED
      BY <1>4, <1>5, <1>7, <2>1, <3>1 DEF Receives
  <2>2. CASE d # c /\ OpOf[d] = mine
    BY <1>3, <2>2 DEF CompactInv, Receives, StoreInv, DataOK
  <2>3. CASE d # c /\ OpOf[d] # mine
    <3>1. call'[d] = call[d] /\ ledger'[OpOf[d]] = ledger[OpOf[d]]
      BY <1>3, <1>7, <2>3 DEF StoreInv, DataOK, Ops
    <3>2. QED
      BY <3>1 DEF CompactInv, Receives
  <2>4. QED
    BY <2>1, <2>2, <2>3
<1>14. QED
  BY <1>5, <1>7, <1>10, <1>11, <1>12, <1>13 DEF CompactInv

LEMMA CompactingReceipts ==
    ASSUME StoreInv, CompactInv, NEW c \in Calls, Compacting(c)
    PROVE  CompactInv'
<1>1. call[c] \in CallStates
  BY DEF StoreInv, DataOK
<1>2. CASE Compact(c) \/ CommitRefused(c)
  BY <1>2, MovedReceives, TablesAlone DEF Compact, CommitRefused, store, Places
<1>3. CASE ReadCommitted(c)
  BY <1>3, MovedReceives, AnsweredReceives, TablesAlone DEF ReadCommitted, store, Places
<1>4. CASE PrepareRow(c) \/ PrepareWrites(c)
  <2>1. UNCHANGED <<rows, ledger, writer>>
    BY <1>4 DEF PrepareRow, PrepareWrites, store
  <2>2. PICK s : call' = [call EXCEPT ![c] = s] /\ s.at \in {"failed", "checking", "summarising"}
    <3>1. CASE Move(c, "failed")
      <4> DEFINE s == [call[c] EXCEPT !.at = "failed"]
      <4>1. call' = [call EXCEPT ![c] = s] /\ s.at = "failed"
        BY <1>1, <3>1 DEF Move, CallStates
      <4>2. QED
        BY <4>1
    <3>2. CASE call' = [call EXCEPT ![c].at = "checking", ![c].from = Latest("source")]
      <4> DEFINE s == [call[c] EXCEPT !.at = "checking", !.from = Latest("source")]
      <4>1. call' = [call EXCEPT ![c] = s] /\ s.at = "checking"
        BY <1>1, <3>2 DEF CallStates, StoreInv, DataOK
      <4>2. QED
        BY <4>1
    <3>3. CASE call' = [call EXCEPT ![c].at = "summarising",
                                    ![c].held = Read("source", call[c].from)]
      <4> DEFINE s == [call[c] EXCEPT !.at = "summarising",
                                      !.held = Read("source", call[c].from)]
      <4>1. call' = [call EXCEPT ![c] = s] /\ s.at = "summarising"
        BY <1>1, <3>3 DEF CallStates, StoreInv, DataOK
      <4>2. QED
        BY <4>1
    <3>4. QED
      BY <1>4, <3>1, <3>2, <3>3 DEF PrepareRow, PrepareWrites
  <2>3. \A d \in Calls : Receives(d)'
    BY <2>1, <2>2, MoveReceives
  <2>4. QED
    BY <2>1, <2>3, TablesAlone
<1>5. CASE Commit(c)
  <2>1. UNCHANGED writer
    BY <1>5 DEF Commit
  <2>2. CASE ledger[OpOf[c]] # NoReceipt
    BY <1>5, <2>1, <2>2, AnsweredReceives, TablesAlone DEF Commit, store
  <2>3. CASE ledger[OpOf[c]] = NoReceipt
    <3>1. CASE Move(c, "failed") /\ UNCHANGED <<store, ledger, clock, made>>
      BY <2>1, <3>1, MovedReceives, TablesAlone DEF store, Places
    <3>2. CASE \E summary \in Lists : Replace(c, summary)
      BY <2>1, <2>3, <3>2, ReplaceReceipts
    <3>3. QED
      BY <1>5, <2>3, <3>1, <3>2 DEF Commit
  <2>4. QED
    BY <2>2, <2>3
<1>6. CASE Answer(c)
  <2> DEFINE s == [call[c] EXCEPT !.at = "answered"]
  <2>1. call' = [call EXCEPT ![c] = s] /\ call[c].at = "committed"
        /\ UNCHANGED <<rows, ledger, writer>>
    BY <1>6 DEF Answer, Move, store
  <2>2. s.answer = call[c].answer
    BY <1>1 DEF CallStates
  <2>3. /\ ledger[OpOf[c]] # NoReceipt
        /\ ledger[OpOf[c]].identity = IdentityOf[c]
        /\ call[c].answer = ledger[OpOf[c]]
    BY <2>1 DEF CompactInv, Receives
  <2> HIDE DEF s
  <2>4. \A d \in Calls : Receives(d)'
    BY <2>1, <2>2, <2>3, MoveReceives
  <2>5. QED
    BY <2>1, <2>4, TablesAlone
<1>7. QED
  BY <1>2, <1>3, <1>4, <1>5, <1>6 DEF Compacting

LEMMA ForkingReceipts ==
    ASSUME StoreInv, CompactInv, Forking
    PROVE  CompactInv'
<1>1. UNCHANGED <<ledger, call, writer>>
  BY DEF Forking, ForkBegins, CloneThread, CloneUntilCheckpoint, CopyChain, CloneThrows
<1>2. rows'["source"] = rows["source"]
  BY DEF Forking, ForkBegins, CloneThread, CloneUntilCheckpoint, CopyChain, CloneThrows,
         store, StoreInv, DataOK, Shape, Threads
<1>3. \A c \in Calls : Receives(c)'
  BY <1>1 DEF CompactInv, Receives
<1>4. QED
  BY <1>1, <1>2, <1>3, SameHands, ReceiptsStay

LEMMA CrashReceipts ==
    ASSUME StoreInv, CompactInv, Crash
    PROVE  CompactInv'
<1>1. UNCHANGED <<rows, ledger>>
  BY DEF Crash, store
<1>2. HandsOverNew
  BY DEF Crash, HandsOverNew, Handed, NoWriter, Threads
<1>3. ASSUME NEW c \in Calls
      PROVE  Receives(c)'
  <2>1. CASE Active(c)
    <3>1. call'[c].at = "failed"
      BY <2>1 DEF Crash, StoreInv, DataOK, CallStates
    <3>2. QED
      BY <3>1 DEF Receives
  <2>2. CASE ~Active(c)
    BY <1>1, <2>2 DEF Crash, CompactInv, Receives
  <2>3. QED
    BY <2>1, <2>2
<1>4. QED
  BY <1>1, <1>2, <1>3, ReceiptsStay

\* However often it is asked for, a compaction is made once and answered alike, before
\* and after a crash (compactCheckpoint, readMatchingCompactResult).
THEOREM CompactionIsOnce == Spec => []CompactsOnce
<1>1. Init => CompactInv
  <2> SUFFICES ASSUME Init PROVE CompactInv
    OBVIOUS
  <2>1. ASSUME NEW op \in Ops
        PROVE  ledger[op] = NoReceipt /\ Unreceipted(op)
    <3>1. \A k \in Checkpoints : rows["source"][k].op = NoOp
      BY DEF Init, NoRow, Threads
    <3>2. op # NoOp
      BY StoreAssumption
    <3>3. QED
      BY <3>1, <3>2 DEF Init, Unreceipted
  <2>2. ASSUME NEW c \in Calls
        PROVE  Receives(c)
    BY DEF Init, Receives, NoCall
  <2>3. QED
    BY <2>1, <2>2 DEF CompactInv
<1>2. StoreInv /\ CompactInv /\ [Next]_vars => CompactInv'
  <2> SUFFICES ASSUME StoreInv, CompactInv, [Next]_vars
               PROVE  CompactInv'
    OBVIOUS
  <2>1. CASE UNCHANGED vars
    BY <2>1, TablesAlone DEF vars, store, CompactInv, Receives
  <2>2. QED
    BY <2>1, RunningReceipts, CompactingReceipts, ForkingReceipts, CrashReceipts DEF Next
<1>3. StoreInv /\ CompactInv => CompactsOnce
  <2> SUFFICES ASSUME StoreInv, CompactInv
               PROVE  CompactsOnce
    OBVIOUS
  <2>1. ASSUME NEW op \in Ops
        PROVE  LET done == {k \in Stored("source") : rows["source"][k].op = op} IN
               IF ledger[op] = NoReceipt THEN done = {}
               ELSE /\ done = {ledger[op].id}
                    /\ rows["source"][ledger[op].id].parent = ledger[op].from
    <3>1. CASE ledger[op] = NoReceipt
      BY <3>1 DEF CompactInv, Unreceipted, Stored
    <3>2. CASE ledger[op] # NoReceipt
      BY <3>2, ReceiptIs DEF Receipted, Stored
    <3>3. QED
      BY <3>1, <3>2
  <2>2. AnswersAgree
    BY DEF AnswersAgree, CompactInv, Receives
  <2>3. QED
    BY <2>1, <2>2 DEF CompactsOnce, OneCompaction
<1>4. QED
  BY <1>1, <1>2, <1>3, StoreInvariant, PTL DEF Spec

-----------------------------------------------------------------------------
\* What is reached from a checkpoint along g, where 0 is the end: it defines the
\* functions that follow the parents.
ClosedUnder(g, S) == \A x \in S : g[x] # 0 => g[x] \in S
Reach(g, k) == {j \in Checkpoints : \A S \in SUBSET Checkpoints :
                                      k \in S /\ ClosedUnder(g, S) => j \in S}

LEMMA Reaching ==
    ASSUME NEW g \in [Checkpoints -> 0..LastId], NEW k \in Checkpoints
    PROVE  /\ k \in Reach(g, k)
           /\ g[k] = 0 => Reach(g, k) = {k}
           /\ g[k] # 0 => Reach(g, k) = {k} \cup Reach(g, g[k])
<1>1. k \in Reach(g, k)
  BY DEF Reach
<1>2. \A x \in Checkpoints : g[x] # 0 => g[x] \in Checkpoints
  BY DEF Checkpoints
<1>3. CASE g[k] = 0
  <2>1. ClosedUnder(g, {k})
    BY <1>3 DEF ClosedUnder
  <2>2. \A j \in Reach(g, k) : j = k
    BY <2>1 DEF Reach
  <2>3. QED
    BY <1>1, <1>3, <2>2
<1>4. CASE g[k] # 0
  <2> DEFINE p == g[k]
             R == Reach(g, p)
  <2>1. p \in R /\ R \subseteq Checkpoints
    BY <1>2, <1>4 DEF Reach
  <2>2. ClosedUnder(g, R)
    BY <1>2 DEF Reach, ClosedUnder
  <2>3. ClosedUnder(g, {k} \cup R)
    BY <2>1, <2>2 DEF ClosedUnder
  <2>4. ASSUME NEW j \in Reach(g, k)
        PROVE  j \in {k} \cup R
    <3>1. {k} \cup R \in SUBSET Checkpoints /\ k \in {k} \cup R
      BY <2>1
    <3> HIDE DEF R
    <3>2. QED
      BY <2>3, <3>1 DEF Reach
  <2>5. ASSUME NEW j \in R
        PROVE  j \in Reach(g, k)
    <3> SUFFICES ASSUME NEW S \in SUBSET Checkpoints, k \in S, ClosedUnder(g, S)
                 PROVE  j \in S
      BY <2>1 DEF Reach
    <3>1. p \in S
      BY <1>4 DEF ClosedUnder
    <3>2. QED
      BY <3>1 DEF Reach
  <2>6. QED
    BY <1>1, <1>4, <2>4, <2>5
<1>5. QED
  BY <1>1, <1>3, <1>4

\* A parent was made before its child.
ParentsBefore ==
    \A k \in Checkpoints : rows["source"][k].parent \in 0..(k - 1)

\* No counterexample among the checkpoints is the first one.
LEMMA FirstOf ==
    ASSUME NEW T \in SUBSET Nat, \A k \in T : \E j \in T : j < k
    PROVE  T = {}
<1> SUFFICES ASSUME T # {} PROVE FALSE
  OBVIOUS
<1>1. PICK b \in T : \A y \in T : b <= y
  BY LeastOf
<1>2. PICK j \in T : j < b
  OBVIOUS
<1>3. QED
  BY <1>1, <1>2

\* What a checkpoint was made from, itself included, was made before it (the ancestry
\* that cloneThreadUntilCheckpoint follows).
LEMMA AncestryIs ==
    ASSUME ParentsBefore, NEW n \in Checkpoints
    PROVE  n \in Ancestry[n] /\ Ancestry[n] \subseteq 1..n
<1> DEFINE parent(k) == rows["source"][k].parent
           F(f) == [k \in 0..LastId |-> IF k = 0 THEN {} ELSE {k} \cup f[parent(k)]]
           g == [k \in Checkpoints |-> parent(k)]
           h == [k \in 0..LastId |-> IF k = 0 THEN {} ELSE Reach(g, k)]
<1>1. LastId \in Nat /\ \A k \in 0..LastId : k # 0 => k \in Checkpoints /\ parent(k) \in 0..(k - 1)
  BY StoreAssumption DEF ParentsBefore, Checkpoints
<1>2. g \in [Checkpoints -> 0..LastId] /\ \A k \in Checkpoints : g[k] = parent(k)
  BY <1>1 DEF Checkpoints
<1>3. Ancestry = CHOOSE f : f = F(f)
  BY DEF Ancestry
<1>4. h = F(h)
  <2> SUFFICES ASSUME NEW k \in 0..LastId, k # 0
               PROVE  Reach(g, k) = {k} \cup h[parent(k)]
    OBVIOUS
  <2>1. k \in Checkpoints /\ parent(k) \in 0..LastId /\ g[k] = parent(k)
    BY <1>1, <1>2
  <2>2. h[parent(k)] = IF parent(k) = 0 THEN {} ELSE Reach(g, parent(k))
    BY <2>1
  <2> HIDE DEF g, h, parent
  <2>3. QED
    BY <1>2, <2>1, <2>2, Reaching
<1> HIDE DEF F, h
<1>5. Ancestry = F(Ancestry)
  BY <1>3, <1>4
<1>6. \A k \in 0..LastId : Ancestry[k] = IF k = 0 THEN {} ELSE {k} \cup Ancestry[parent(k)]
  BY <1>5 DEF F
<1> DEFINE T == {k \in 0..LastId : ~(Ancestry[k] \subseteq 1..k)}
<1> HIDE DEF parent
<1>7. ASSUME NEW k \in T
      PROVE  \E j \in T : j < k
  <2>1. k \in 0..LastId /\ k # 0 /\ Ancestry[k] = {k} \cup Ancestry[parent(k)]
    BY <1>6
  <2>2. parent(k) \in 0..LastId /\ parent(k) < k
    BY <1>1, <2>1
  <2>3. ~(Ancestry[parent(k)] \subseteq 1..parent(k))
    <3>1. CASE Ancestry[parent(k)] \subseteq 1..parent(k)
      <4>1. Ancestry[k] \subseteq 1..k
        BY <2>1, <2>2, <3>1
      <4>2. QED
        BY <4>1
    <3>2. QED
      BY <3>1
  <2>4. QED
    BY <2>2, <2>3
<1>8. T = {}
  <2>1. T \in SUBSET Nat
    OBVIOUS
  <2> HIDE DEF T
  <2>2. QED
    BY <1>7, <2>1, FirstOf
<1>9. n \in 0..LastId /\ n # 0
  BY DEF Checkpoints
<1>10. QED
  BY <1>6, <1>8, <1>9

\* The checkpoint a thread is cloned until is a checkpoint (resolving the message to
\* the checkpoint that brought it in).
LEMMA UntilIs ==
    ASSUME ParentsBefore, NEW m \in Messages, Latest("source") \in Checkpoints
    PROVE  Until(m) \in Checkpoints
<1> DEFINE parent(k) == rows["source"][k].parent
           goes(k) == parent(k) \in Stored("source") /\ Read("source", parent(k))[m] # Gone
           F(f) == [k \in Checkpoints |-> IF goes(k) THEN f[parent(k)] ELSE k]
           g == [k \in Checkpoints |-> IF goes(k) THEN parent(k) ELSE 0]
           Ends(k) == {x \in Reach(g, k) : g[x] = 0}
           h == [k \in Checkpoints |-> CHOOSE x : x \in Ends(k)]
<1>1. LastId \in Nat /\ 0 \in 0..LastId /\ 0 \notin Checkpoints /\ Checkpoints \subseteq 0..LastId
  BY StoreAssumption DEF Checkpoints
<1>2. \A k \in Checkpoints : goes(k) => parent(k) \in Checkpoints /\ parent(k) < k
  BY DEF ParentsBefore, Checkpoints, Stored
<1>3. Until(m) = (CHOOSE f : f = F(f))[Latest("source")]
  BY DEF Until
<1> HIDE DEF goes, parent
<1>4. g \in [Checkpoints -> 0..LastId]
      /\ \A k \in Checkpoints : g[k] = IF goes(k) THEN parent(k) ELSE 0
  BY <1>1, <1>2
<1>5. ASSUME NEW k \in Checkpoints
      PROVE  h[k] = IF goes(k) THEN h[parent(k)] ELSE k
  <2>1. h[k] = CHOOSE x : x \in Ends(k)
    OBVIOUS
  <2>2. CASE goes(k)
    <3>1. g[k] = parent(k) /\ g[k] # 0 /\ parent(k) \in Checkpoints
      BY <1>1, <1>2, <1>4, <2>2
    <3>2. Ends(k) = Ends(parent(k))
      <4> HIDE DEF g
      <4>1. Reach(g, k) = {k} \cup Reach(g, g[k])
        BY <1>4, <3>1, Reaching
      <4>2. QED
        BY <3>1, <4>1
    <3>3. h[parent(k)] = CHOOSE x : x \in Ends(parent(k))
      BY <3>1
    <3> HIDE DEF h, Ends
    <3>4. QED
      BY <2>1, <2>2, <3>2, <3>3
  <2>3. CASE ~goes(k)
    <3>1. g[k] = 0
      BY <1>4, <2>3
    <3>2. Ends(k) = {k}
      <4> HIDE DEF g
      <4>1. Reach(g, k) = {k}
        BY <1>4, <3>1, Reaching
      <4>2. QED
        BY <3>1, <4>1
    <3> HIDE DEF h, Ends
    <3>3. QED
      BY <2>1, <2>3, <3>2
  <2>4. QED
    BY <2>2, <2>3
<1>12. h = F(h)
  <2>1. h = [k \in Checkpoints |-> h[k]]
    OBVIOUS
  <2> HIDE DEF h
  <2>2. QED
    BY <1>5, <2>1
<1> DEFINE back == CHOOSE f : f = F(f)
<1> HIDE DEF F, h
<1>6. back = F(back)
  BY <1>12
<1> HIDE DEF back
<1>7. \A k \in Checkpoints : back[k] = IF goes(k) THEN back[parent(k)] ELSE k
  BY <1>6 DEF F
<1> DEFINE T == {k \in Checkpoints : back[k] \notin Checkpoints}
<1>8. ASSUME NEW k \in T
      PROVE  \E j \in T : j < k
  BY <1>2, <1>7
<1>9. T = {}
  <2>1. T \in SUBSET Nat
    BY DEF Checkpoints
  <2> HIDE DEF T
  <2>2. QED
    BY <1>8, <2>1, FirstOf
<1>10. Until(m) = back[Latest("source")]
  BY <1>3 DEF back
<1>11. QED
  BY <1>9, <1>10

\* The first entries of a log say what the log said then (cloneThreadUntilCheckpoint).
LEMMA Cutting ==
    ASSUME NEW l \in Seq(Entries), Topped(l), NEW n \in 0..Len(l)
    PROVE  LET s == SubSeq(l, 1, n)
           IN  /\ s \in Seq(Entries) /\ Len(s) = n /\ Topped(s)
               /\ \A i \in 0..n : ItemsThrough(s, i) = ItemsThrough(l, i)
<1> DEFINE s == SubSeq(l, 1, n)
<1>1. s \in Seq(Entries) /\ Len(s) = n /\ DOMAIN s = 1..n /\ \A k \in 1..n : s[k] = l[k]
  OBVIOUS
<1>2. DOMAIN l = 1..Len(l) /\ Len(l) \in Nat /\ n \in Nat /\ n <= Len(l)
  OBVIOUS
<1> HIDE DEF s
<1>3. ASSUME NEW i \in 0..n, NEW m \in Messages
      PROVE  ChangesOf(s, i, m) = ChangesOf(l, i, m) /\ ChangesOf(s, i, m) \subseteq 1..n
  BY <1>1, <1>2 DEF ChangesOf
<1>4. Topped(s)
  BY <1>1, <1>2, <1>3 DEF Topped
<1>5. ASSUME NEW i \in 0..n, NEW m \in Messages, ChangesOf(l, i, m) # {}
      PROVE  s[Max(ChangesOf(l, i, m))] = l[Max(ChangesOf(l, i, m))]
  <2>1. PICK k \in ChangesOf(l, i, m) : \A j \in ChangesOf(l, i, m) : k >= j
    BY <1>2, <1>5 DEF Topped
  <2>2. ChangesOf(l, i, m) \in SUBSET Int /\ k \in 1..n
    BY <1>3, <2>1
  <2>3. Max(ChangesOf(l, i, m)) = k
    BY <2>1, <2>2, MaxIs
  <2>4. QED
    BY <1>1, <2>2, <2>3
<1>6. \A i \in 0..n : ItemsThrough(s, i) = ItemsThrough(l, i)
  BY <1>3, <1>5 DEF ItemsThrough
<1>7. QED
  BY <1>1, <1>4, <1>6 DEF s

\* What is known of the tables of a thread, whatever happens to its runs: some version
\* names the end of the log, a parent is older than its child, and what is shown is
\* what the log says.
TableOK(t) ==
    /\ rows[t] \in [Checkpoints -> Rows] /\ log[t] \in Seq(Entries)
    /\ versions[t] \in [Checkpoints -> Nat]
    /\ Reached(t)
    /\ \A k \in Checkpoints : rows[t][k].parent \in 0..(k - 1)
    /\ \A k \in Stored(t) : rows[t][k].version \in Checkpoints /\ k <= clock
    /\ messages[t] = ItemsThrough(log[t], Len(log[t]))

\* So is what a run is about to put.
HandOK(w, last) ==
    /\ w \in Writers /\ w.last <= last
    /\ \A i \in DOMAIN w.chain :
         w.chain[i].id <= last /\ w.chain[i].parent \in 0..(w.chain[i].id - 1)

Forks == [at : {"off", "checked", "done"}, upTo : 0..LastId]

\* Nobody writes to a clone before it is there.
SidesOK ==
    /\ left \in Bounds
    /\ writes \in [Threads -> SUBSET Checkpoints]
    /\ messages = [t \in Threads |-> messages[t]]
    /\ fork \in Forks
    /\ fork.at # "done" => writer["copy"] = [w \in {"run", "late"} |-> NoWriter]

TablesInv ==
    /\ SidesOK
    /\ \A t \in Threads : /\ TableOK(t)
                          /\ writer[t] \in [{"run", "late"} -> Writers]
                          /\ \A w \in {"run", "late"} : HandOK(writer[t][w], clock)

-----------------------------------------------------------------------------
LEMMA Spending ==
    ASSUME left \in Bounds,
           NEW b \in {"runs", "writes", "stops", "faults", "forks", "crashes"}, Spend(b)
    PROVE  left' \in Bounds /\ left'.reserved = left.reserved /\ left'.late = left.late
<1>1. left[b] \in Nat /\ left[b] - 1 \in Nat
  BY DEF Spend, Bounds
<1>2. left' = [left EXCEPT ![b] = left[b] - 1]
  BY DEF Spend
<1> QED
  BY <1>1, <1>2 DEF Bounds

LEMMA HandStays ==
    ASSUME NEW w, NEW c \in 0..LastId, NEW d \in 0..LastId, d >= c, HandOK(w, c)
    PROVE  HandOK(w, d)
<1>1. w \in Writers
  BY DEF HandOK
<1>2. w.last \in 0..LastId /\ \A i \in DOMAIN w.chain : w.chain[i] \in Jobs
  BY <1>1 DEF Writers
<1>3. QED
  BY <1>2, StoreAssumption DEF HandOK, Jobs, Checkpoints

LEMMA TableStays ==
    ASSUME NEW t \in Threads, TableOK(t), clock \in 0..LastId, clock' \in 0..LastId,
           clock' >= clock, rows'[t] = rows[t], log'[t] = log[t],
           versions'[t] = versions[t], messages'[t] = messages[t]
    PROVE  TableOK(t)'
<1>1. Stored(t)' = Stored(t)
  BY DEF Stored
<1>2. \A k \in Stored(t) : k <= clock'
  BY StoreAssumption DEF TableOK, Stored, Checkpoints
<1>3. QED
  BY <1>1, <1>2 DEF TableOK, Reached

\* A checkpoint is entered into the tables of a thread.
Enters(t, k, row, list) ==
    /\ Persist(t, row.version, list)
    /\ rows' = [rows EXCEPT ![t] = [@ EXCEPT ![k] = row]]
    /\ row.version \in Checkpoints /\ row.parent \in 0..(k - 1) /\ k <= clock'

LEMMA Entering ==
    ASSUME NEW t \in Threads, Shape, messages = [u \in Threads |-> messages[u]],
           TableOK(t), clock \in 0..LastId, clock' \in 0..LastId, clock' >= clock,
           NEW k \in Checkpoints, NEW row \in Rows, NEW list \in MessageLists,
           Enters(t, k, row, list)
    PROVE  /\ TableOK(t)'
           /\ messages' = [u \in Threads |-> messages'[u]]
           /\ \A u \in Threads : u # t =>
                /\ rows'[u] = rows[u] /\ log'[u] = log[u]
                /\ versions'[u] = versions[u] /\ messages'[u] = messages[u]
<1> DEFINE v == row.version
<1>1. /\ Persist(t, v, list) /\ rows' = [rows EXCEPT ![t] = [@ EXCEPT ![k] = row]]
      /\ v \in Checkpoints /\ row.version = v /\ row.parent \in 0..(k - 1) /\ k <= clock'
  BY DEF Enters
<1> HIDE DEF v
<1>2. /\ rows[t] \in [Checkpoints -> Rows] /\ log[t] \in Seq(Entries)
      /\ versions[t] \in [Checkpoints -> Nat] /\ Reached(t)
      /\ \A j \in Checkpoints : rows[t][j].parent \in 0..(j - 1)
      /\ \A j \in Stored(t) : rows[t][j].version \in Checkpoints /\ j <= clock
      /\ messages[t] = ItemsThrough(log[t], Len(log[t]))
  BY DEF TableOK
<1>3. /\ \A u \in Threads : u # t => log'[u] = log[u] /\ versions'[u] = versions[u]
      /\ log'[t] \in Seq(Entries) /\ versions'[t] \in [Checkpoints -> Nat]
      /\ Reached(t)' /\ ItemsThrough(log'[t], Len(log'[t])) = list
      /\ Changed(t, list) = {m \in Messages : list[m] # messages[t][m]}
  BY <1>1, <1>2, Persisting
<1>4. /\ rows'[t] = [rows[t] EXCEPT ![k] = row]
      /\ \A u \in Threads : u # t => rows'[u] = rows[u]
  BY <1>1 DEF Shape
<1>5. /\ rows'[t] \in [Checkpoints -> Rows] /\ rows'[t][k] = row
      /\ \A j \in Checkpoints : j # k => rows'[t][j] = rows[t][j]
  BY <1>2, <1>4
<1>6. \A j \in Checkpoints : rows'[t][j].parent \in 0..(j - 1)
  BY <1>1, <1>2, <1>5
<1>7. \A j \in Stored(t)' : rows'[t][j].version \in Checkpoints /\ j <= clock'
  <2> SUFFICES ASSUME NEW j \in Stored(t)', j # k
               PROVE  rows'[t][j].version \in Checkpoints /\ j <= clock'
    BY <1>1, <1>5
  <2>1. j \in Checkpoints /\ j \in Nat /\ j \in Stored(t) /\ rows'[t][j] = rows[t][j]
    BY <1>5 DEF Stored, Checkpoints
  <2>2. QED
    BY <1>2, <2>1, StoreAssumption
<1>8. /\ messages' = [u \in Threads |-> messages'[u]]
      /\ \A u \in Threads : u # t => messages'[u] = messages[u]
      /\ messages'[t] = list
  <2>1. messages' = [messages EXCEPT ![t] =
                       [m \in Messages |-> IF m \in Changed(t, list) THEN list[m] ELSE @[m]]]
    BY <1>1 DEF Persist, Show
  <2>2. messages'[t] = [m \in Messages |-> IF m \in Changed(t, list) THEN list[m]
                                           ELSE messages[t][m]]
    BY <2>1
  <2>3. messages'[t] = [m \in Messages |-> list[m]]
    BY <1>3, <2>2
  <2>4. messages'[t] = list
    BY <2>3 DEF MessageLists
  <2>5. QED
    BY <2>1, <2>4
<1>9. QED
  BY <1>3, <1>4, <1>5, <1>6, <1>7, <1>8 DEF TableOK

Idle == [w \in {"run", "late"} |-> NoWriter]

\* A step of a run that stores nothing.
LEMMA RunGoes ==
    ASSUME StoreInv, TablesInv, UNCHANGED <<rows, log, versions, messages, fork>>,
           left' \in Bounds, writes' \in [Threads -> SUBSET Checkpoints],
           clock' \in 0..LastId, clock' >= clock,
           NEW t \in Threads, NEW x \in [{"run", "late"} -> Writers],
           writer' = [writer EXCEPT ![t] = x],
           \A w \in {"run", "late"} : HandOK(x[w], clock'),
           t = "copy" => fork.at = "done"
    PROVE  TablesInv'
<1>1. clock \in 0..LastId /\ writer = [u \in Threads |-> writer[u]]
  BY DEF StoreInv, DataOK, Shape
<1>2. \A u \in Threads : TableOK(u)'
  BY <1>1, TableStays DEF TablesInv
<1>3. \A u \in Threads : writer'[u] = IF u = t THEN x ELSE writer[u]
  BY <1>1
<1>4. \A u \in Threads : /\ writer'[u] \in [{"run", "late"} -> Writers]
                         /\ \A w \in {"run", "late"} : HandOK(writer'[u][w], clock')
  BY <1>1, <1>3, HandStays DEF TablesInv
<1>5. SidesOK'
  BY <1>3 DEF TablesInv, SidesOK, Threads
<1>6. QED
  BY <1>2, <1>4, <1>5 DEF TablesInv

\* A hand that is open, or holds something, is that of a thread that is there.
LEMMA HandOfThere ==
    ASSUME TablesInv, NEW t \in Threads, NEW w \in {"run", "late"},
           writer[t][w] # NoWriter
    PROVE  t = "copy" => fork.at = "done"
BY DEF TablesInv, SidesOK

LEMMA EmptyHand ==
    ASSUME NEW last \in 0..LastId, NEW version \in 0..LastId, NEW held \in MessageLists,
           NEW on \in BOOLEAN, NEW c \in 0..LastId, last <= c
    PROVE  HandOK([on |-> on, last |-> last, version |-> version, held |-> held,
                   chain |-> <<>>], c)
<1>1. <<>> \in Seq(Jobs) /\ DOMAIN <<>> = {}
  OBVIOUS
<1>2. QED
  BY <1>1 DEF Writers, HandOK

LEMMA NoHand ==
    ASSUME NEW c \in 0..LastId
    PROVE  HandOK(NoWriter, c) /\ NoWriter \in Writers
<1>1. 0 \in 0..LastId /\ 0 <= c
  BY StoreAssumption
<1>2. HandOK(NoWriter, c)
  BY <1>1, NoMessagesTyped, EmptyHand DEF NoWriter
<1>3. QED
  BY <1>2 DEF HandOK

LEMMA BeginGoes ==
    ASSUME StoreInv, TablesInv, NEW t \in Threads, Begin(t)
    PROVE  TablesInv'
<1> DEFINE k == Latest(t)
           w == IF k = 0 THEN [NoWriter EXCEPT !.on = TRUE]
                ELSE [NoWriter EXCEPT !.on = TRUE, !.last = k, !.version = rows[t][k].version,
                                      !.held = Read(t, k)]
           x == [writer[t] EXCEPT !["run"] = w]
<1>1. /\ writer' = [writer EXCEPT ![t]["run"] = w]
      /\ UNCHANGED <<rows, writes, log, versions, messages, fork, clock>>
      /\ Spend("runs") /\ Exists(t)
  BY DEF Begin, store
<1>2. clock \in 0..LastId /\ 0 \in 0..LastId /\ clock' \in 0..LastId /\ clock' >= clock
  BY <1>1, StoreAssumption DEF StoreInv, DataOK
<1>3. HandOK(w, clock)
  <2>1. CASE k = 0
    <3>1. w = [on |-> TRUE, last |-> 0, version |-> 0, held |-> NoMessages, chain |-> <<>>]
      BY <2>1 DEF NoWriter
    <3> HIDE DEF w
    <3>2. 0 <= clock
      BY <1>2
    <3>3. QED
      BY <1>2, <3>1, <3>2, NoMessagesTyped, EmptyHand
  <2>2. CASE k # 0
    <3>1. w = [on |-> TRUE, last |-> k, version |-> rows[t][k].version,
               held |-> Read(t, k), chain |-> <<>>]
      BY <2>2 DEF NoWriter
    <3>2. k \in Stored(t)
      BY <2>2, LatestIsStored
    <3>3. k \in Checkpoints /\ k <= clock /\ rows[t][k].version \in Checkpoints
          /\ log[t] \in Seq(Entries) /\ Topped(log[t])
          /\ versions[t] \in [Checkpoints -> Nat]
      BY <3>2 DEF TablesInv, TableOK, Reached, Stored
    <3>4. Read(t, k) \in MessageLists
      BY <3>3, ItemsTyped DEF Read
    <3> HIDE DEF w, k
    <3>5. k \in 0..LastId /\ rows[t][k].version \in 0..LastId
      BY <3>3 DEF Checkpoints
    <3>6. QED
      BY <1>2, <3>1, <3>3, <3>4, <3>5, EmptyHand
  <2>3. QED
    BY <2>1, <2>2
<1> HIDE DEF w
<1>4. x \in [{"run", "late"} -> Writers] /\ \A u \in {"run", "late"} : HandOK(x[u], clock')
  BY <1>1, <1>3 DEF TablesInv, HandOK
<1> HIDE DEF x
<1>5. writer' = [writer EXCEPT ![t] = x]
  BY <1>1 DEF x
<1>6. left' \in Bounds
  BY <1>1, Spending DEF TablesInv, SidesOK
<1>7. writes' \in [Threads -> SUBSET Checkpoints] /\ (t = "copy" => fork.at = "done")
  BY <1>1 DEF TablesInv, SidesOK, Exists
<1>8. QED
  BY <1>1, <1>2, <1>4, <1>5, <1>6, <1>7, RunGoes

LEMMA StepGoes ==
    ASSUME StoreInv, TablesInv, NEW t \in Threads, NEW list \in Lists, Step(t, list)
    PROVE  TablesInv'
<1> DEFINE w == writer[t]["run"]
<1>1. /\ clock' = clock + 1 /\ clock \in 0..LastId /\ clock' \in 1..LastId
      /\ clock' \in 0..LastId /\ clock' >= clock
      /\ UNCHANGED <<rows, writes, log, versions, messages, fork, left>>
      /\ w.on
  BY StoreAssumption DEF Step, Room, StoreInv, DataOK, store
<1>2. list \in MessageLists
  BY StoreAssumption DEF MessageLists
<1>3. w \in Writers /\ HandOK(w, clock)
  BY DEF TablesInv
<1>4. PICK v \in 1..LastId :
        writer' = [writer EXCEPT ![t]["run"] =
                     [on |-> TRUE, last |-> clock', version |-> v, held |-> list,
                      chain |-> Append(w.chain, [id |-> clock', parent |-> w.last,
                                                 version |-> v])]]
  <2>1. PICK v \in {clock'} \cup (IF list = w.held THEN {w.version} \ {0} ELSE {}) :
          writer' = [writer EXCEPT ![t]["run"] =
                       [on |-> TRUE, last |-> clock', version |-> v, held |-> list,
                        chain |-> Append(w.chain, [id |-> clock', parent |-> w.last,
                                                   version |-> v])]]
    BY DEF Step
  <2>2. v \in 1..LastId
    BY <1>1, <1>3, <2>1, StoreAssumption DEF Writers
  <2>3. QED
    BY <2>1, <2>2
<1> DEFINE job == [id |-> clock', parent |-> w.last, version |-> v]
           y == [on |-> TRUE, last |-> clock', version |-> v, held |-> list,
                 chain |-> Append(w.chain, job)]
           x == [writer[t] EXCEPT !["run"] = y]
<1>5. job \in Jobs /\ job.id = clock' /\ job.parent \in 0..(job.id - 1)
  <2>1. w.last \in 0..LastId /\ w.last <= clock
    BY <1>3 DEF Writers, HandOK
  <2>2. QED
    BY <1>1, <2>1, StoreAssumption DEF Jobs, Checkpoints
<1>6. w.chain \in Seq(Jobs)
  BY <1>3 DEF Writers
<1> HIDE DEF job
<1>7. Append(w.chain, job) \in Seq(Jobs)
      /\ DOMAIN Append(w.chain, job) = 1..(Len(w.chain) + 1)
      /\ \A i \in 1..(Len(w.chain) + 1) :
           Append(w.chain, job)[i] = IF i \in DOMAIN w.chain THEN w.chain[i] ELSE job
  BY <1>5, <1>6
<1>8. y \in Writers /\ y.last = clock' /\ y.chain = Append(w.chain, job)
  <2>1. v \in 0..LastId
    BY <1>4
  <2>2. y = [on |-> TRUE, last |-> clock', version |-> v, held |-> list,
             chain |-> Append(w.chain, job)]
    OBVIOUS
  <2> HIDE DEF y
  <2>3. QED
    BY <1>1, <1>2, <1>7, <2>1, <2>2 DEF Writers
<1> HIDE DEF y
<1>9. HandOK(y, clock')
  <2>1. HandOK(w, clock')
    BY <1>1, <1>3, HandStays
  <2>2. \A i \in DOMAIN y.chain :
          y.chain[i].id <= clock' /\ y.chain[i].parent \in 0..(y.chain[i].id - 1)
    <3> SUFFICES ASSUME NEW i \in DOMAIN y.chain
                 PROVE  /\ y.chain[i].id <= clock'
                        /\ y.chain[i].parent \in 0..(y.chain[i].id - 1)
      OBVIOUS
    <3>1. CASE i \in DOMAIN w.chain
      BY <2>1, <3>1, <1>7, <1>8 DEF HandOK
    <3>2. CASE i \notin DOMAIN w.chain
      <4>1. y.chain[i] = job
        BY <3>2, <1>7, <1>8
      <4>2. QED
        BY <4>1, <1>1, <1>5
    <3>3. QED
      BY <3>1, <3>2
  <2>3. QED
    BY <2>2, <1>1, <1>8 DEF HandOK
<1>10. x \in [{"run", "late"} -> Writers]
       /\ \A u \in {"run", "late"} : HandOK(x[u], clock')
  <2>1. writer[t] \in [{"run", "late"} -> Writers] /\ HandOK(writer[t]["late"], clock')
    BY <1>1, HandStays DEF TablesInv
  <2>2. QED
    BY <2>1, <1>8, <1>9
<1> HIDE DEF x
<1>11. writer' = [writer EXCEPT ![t] = x]
  BY <1>4 DEF x, y, job
<1>12. left' \in Bounds /\ writes' \in [Threads -> SUBSET Checkpoints]
  BY <1>1 DEF TablesInv, SidesOK
<1>13. t = "copy" => fork.at = "done"
  BY <1>1, HandOfThere DEF NoWriter
<1>14. QED
  BY <1>1, <1>10, <1>11, <1>12, <1>13, RunGoes

LEMMA PutWritesGoes ==
    ASSUME StoreInv, TablesInv, NEW t \in Threads, NEW w \in {"run", "late"},
           PutWrites(t, w)
    PROVE  TablesInv'
<1>1. /\ UNCHANGED <<rows, log, versions, messages, writer, fork, clock>>
      /\ Spend("writes")
      /\ writes' = [writes EXCEPT ![t] = @ \cup {writer[t][w].last}]
      /\ writer[t][w].last # 0
  BY DEF PutWrites
<1>2. writer[t][w].last \in Checkpoints
  BY <1>1 DEF TablesInv, Writers, Checkpoints
<1>3. left' \in Bounds /\ writes' \in [Threads -> SUBSET Checkpoints]
  BY <1>1, <1>2, Spending DEF TablesInv, SidesOK
<1>4. QED
  BY <1>1, <1>3 DEF TablesInv, SidesOK, TableOK, Reached, Stored

LEMMA EndsGo ==
    ASSUME StoreInv, TablesInv, NEW t \in Threads, Finish(t) \/ LateEnds(t)
    PROVE  TablesInv'
<1>1. UNCHANGED <<rows, writes, log, versions, messages, fork, clock, left>>
  BY DEF Finish, LateEnds, store
<1>2. PICK w \in {"run", "late"} :
        /\ writer' = [writer EXCEPT ![t] = [@ EXCEPT ![w] = NoWriter]]
        /\ writer[t][w] # NoWriter
  BY DEF Finish, LateEnds, NoWriter
<1> DEFINE x == [writer[t] EXCEPT ![w] = NoWriter]
<1>3. clock \in 0..LastId /\ clock' \in 0..LastId /\ clock' >= clock
  BY <1>1 DEF StoreInv, DataOK
<1>4. x \in [{"run", "late"} -> Writers]
      /\ \A u \in {"run", "late"} : HandOK(x[u], clock')
  BY <1>1, <1>3, NoHand DEF TablesInv
<1> HIDE DEF x
<1>5. writer' = [writer EXCEPT ![t] = x] /\ (t = "copy" => fork.at = "done")
  BY <1>2, HandOfThere DEF x
<1>6. left' \in Bounds /\ writes' \in [Threads -> SUBSET Checkpoints]
  BY <1>1 DEF TablesInv, SidesOK
<1>7. QED
  BY <1>1, <1>3, <1>4, <1>5, <1>6, RunGoes

\* The rest of what is in a hand.
LEMMA HandRests ==
    ASSUME NEW w, NEW c, HandOK(w, c), NEW v \in Writers, v.last = w.last,
           v.chain = w.chain \/ (w.chain # <<>> /\ v.chain = Tail(w.chain))
    PROVE  HandOK(v, c)
<1>1. w.chain \in Seq(Jobs)
  BY DEF HandOK, Writers
<1>2. CASE v.chain = w.chain
  BY <1>2 DEF HandOK
<1>3. CASE w.chain # <<>> /\ v.chain = Tail(w.chain)
  <2>1. \A i \in DOMAIN v.chain : i + 1 \in DOMAIN w.chain /\ v.chain[i] = w.chain[i + 1]
    BY <1>1, <1>3
  <2>2. QED
    BY <2>1 DEF HandOK
<1>4. QED
  BY <1>2, <1>3

LEMMA LeavesGo ==
    ASSUME StoreInv, TablesInv, NEW t \in Threads, Stop(t) \/ PutRefused(t)
    PROVE  TablesInv'
<1> DEFINE r == writer[t]["run"]
<1>1. PICK chain \in {r.chain, Tail(r.chain)} :
        (chain = r.chain \/ r.chain # <<>>) /\ Leave(t, chain)
  BY DEF Stop, PutRefused
<1> DEFINE y == [r EXCEPT !.on = FALSE, !.chain = chain]
           x == [writer[t] EXCEPT !["run"] = NoWriter, !["late"] = y]
<1>2. UNCHANGED <<rows, writes, log, versions, messages, fork, clock>> /\ r.on
      /\ writer' = [writer EXCEPT ![t]["run"] = NoWriter, ![t]["late"] = y]
  BY <1>1 DEF Leave, store
<1>3. clock \in 0..LastId /\ clock' \in 0..LastId /\ clock' >= clock
  BY <1>2 DEF StoreInv, DataOK
<1>4. r \in Writers /\ HandOK(r, clock)
  BY DEF TablesInv
<1>5. y \in Writers /\ y.last = r.last /\ y.chain = chain
  <2>1. r.chain \in Seq(Jobs) /\ (r.chain # <<>> => Tail(r.chain) \in Seq(Jobs))
    <3>1. r.chain \in Seq(Jobs)
      BY <1>4 DEF Writers
    <3> HIDE DEF r
    <3>2. QED
      BY <3>1
  <2>2. chain \in Seq(Jobs)
    BY <1>1, <2>1
  <2> HIDE DEF r
  <2>3. QED
    BY <1>4, <2>2 DEF Writers
<1> HIDE DEF y
<1>6. HandOK(y, clock)
  <2> HIDE DEF r
  <2>1. QED
    BY <1>1, <1>4, <1>5, HandRests
<1>7. x \in [{"run", "late"} -> Writers]
      /\ \A u \in {"run", "late"} : HandOK(x[u], clock')
  <2>1. writer[t] \in [{"run", "late"} -> Writers]
    BY DEF TablesInv
  <2>2. QED
    BY <2>1, <1>2, <1>3, <1>5, <1>6, NoHand
<1>8. writer' = [writer EXCEPT ![t] = x]
  BY <1>2 DEF StoreInv, DataOK, Shape
<1> HIDE DEF x
<1>9. left' \in Bounds /\ writes' \in [Threads -> SUBSET Checkpoints]
  <2>1. Spend("stops") \/ Spend("faults")
    BY DEF Stop, PutRefused
  <2>2. QED
    BY <1>2, <2>1, Spending DEF TablesInv, SidesOK
<1>10. t = "copy" => fork.at = "done"
  BY <1>2, HandOfThere DEF NoWriter
<1>11. QED
  BY <1>2, <1>3, <1>7, <1>8, <1>9, <1>10, RunGoes

LEMMA PutGoes ==
    ASSUME StoreInv, TablesInv, NEW t \in Threads, NEW w \in {"run", "late"}, Put(t, w)
    PROVE  TablesInv'
<1> DEFINE r == writer[t][w]
           job == Head(r.chain)
           row == [version |-> job.version, parent |-> job.parent, op |-> NoOp]
           y == [r EXCEPT !.chain = Tail(@)]
<1>1. /\ r.chain # <<>>
      /\ Persist(t, job.version, made[job.id])
      /\ rows' = [rows EXCEPT ![t] = [@ EXCEPT ![job.id] = row]]
      /\ writer' = [writer EXCEPT ![t] = [@ EXCEPT ![w] = y]]
      /\ UNCHANGED <<writes, fork, clock, left>>
  BY DEF Put
<1>2. clock \in 0..LastId /\ clock' \in 0..LastId /\ clock' >= clock
  <2>1. clock' = clock
    BY <1>1
  <2>2. clock \in 0..LastId
    BY DEF StoreInv, DataOK
  <2>3. QED
    BY <2>1, <2>2
<1>3. r \in Writers /\ HandOK(r, clock)
  BY DEF TablesInv
<1>4. /\ y \in Writers /\ y.last = r.last /\ y.chain = Tail(r.chain)
      /\ job \in Jobs /\ job.id <= clock /\ job.parent \in 0..(job.id - 1)
  <2> HIDE DEF r
  <2>1. r.chain \in Seq(Jobs)
    BY <1>3 DEF Writers
  <2>2. Tail(r.chain) \in Seq(Jobs) /\ 1 \in DOMAIN r.chain /\ job = r.chain[1]
    BY <1>1, <2>1
  <2>3. y \in Writers /\ y.last = r.last /\ y.chain = Tail(r.chain)
    BY <1>3, <2>2 DEF Writers
  <2> HIDE DEF job, y
  <2>4. job \in Jobs /\ job.id <= clock /\ job.parent \in 0..(job.id - 1)
    BY <1>3, <2>1, <2>2 DEF HandOK
  <2>5. QED
    BY <2>3, <2>4
<1>5. HandOK(y, clock')
  <2> HIDE DEF r, y
  <2>1. HandOK(y, clock)
    BY <1>1, <1>3, <1>4, HandRests
  <2>2. QED
    BY <1>1, <2>1
<1> HIDE DEF y, job
<1>6. job.id \in Checkpoints /\ made[job.id] \in MessageLists
      /\ row \in Rows /\ row.version = job.version /\ row.parent = job.parent
      /\ job.version \in Checkpoints
  BY <1>4, StoreAssumption DEF Jobs, Rows, StoreInv, DataOK, Checkpoints
<1> HIDE DEF row
<1>7. Enters(t, job.id, row, made[job.id])
  BY <1>1, <1>4, <1>6 DEF Enters
<1>8. /\ TableOK(t)'
      /\ messages' = [u \in Threads |-> messages'[u]]
      /\ \A u \in Threads : u # t =>
           /\ rows'[u] = rows[u] /\ log'[u] = log[u]
           /\ versions'[u] = versions[u] /\ messages'[u] = messages[u]
  <2>1. Shape /\ messages = [u \in Threads |-> messages[u]] /\ TableOK(t)
    BY DEF StoreInv, DataOK, TablesInv, SidesOK
  <2>2. QED
    BY <2>1, <1>2, <1>6, <1>7, Entering
<1>9. \A u \in Threads : TableOK(u)'
  <2>1. \A u \in Threads : TableOK(u)
    BY DEF TablesInv
  <2>2. QED
    BY <2>1, <1>2, <1>8, TableStays
<1>10. \A u \in Threads : /\ writer'[u] \in [{"run", "late"} -> Writers]
                          /\ \A i \in {"run", "late"} : HandOK(writer'[u][i], clock')
  <2>1. \A u \in Threads : writer'[u] = IF u = t THEN [writer[t] EXCEPT ![w] = y]
                                         ELSE writer[u]
    BY <1>1 DEF StoreInv, DataOK, Shape
  <2>2. \A u \in Threads : /\ writer[u] \in [{"run", "late"} -> Writers]
                           /\ \A i \in {"run", "late"} : HandOK(writer[u][i], clock')
    BY <1>1 DEF TablesInv
  <2>3. QED
    BY <2>1, <2>2, <1>4, <1>5
<1>11. SidesOK'
  <2>1. t = "copy" => fork.at = "done"
    BY <1>1, HandOfThere DEF NoWriter
  <2>2. fork.at # "done" => writer'["copy"] = writer["copy"]
    BY <2>1, <1>1 DEF Threads, StoreInv, DataOK, Shape
  <2>3. QED
    BY <2>2, <1>1, <1>8 DEF TablesInv, SidesOK
<1>12. QED
  BY <1>9, <1>10, <1>11 DEF TablesInv

LEMMA RunningGoes ==
    ASSUME StoreInv, TablesInv, NEW t \in Threads, Running(t)
    PROVE  TablesInv'
BY BeginGoes, StepGoes, PutWritesGoes, EndsGo, LeavesGo, PutGoes DEF Running

\* The steps of a call, of a fork and of the process that leave the tables alone.
LEMMA TablesGo ==
    ASSUME StoreInv, TablesInv, UNCHANGED <<rows, writes, log, versions, messages, clock>>,
           left' \in Bounds, fork' \in Forks,
           UNCHANGED writer \/ writer' = [t \in Threads |-> Idle],
           fork'.at # "done" => fork.at # "done"
    PROVE  TablesInv'
<1>1. clock \in 0..LastId
  BY DEF StoreInv, DataOK
<1>2. \A t \in Threads : TableOK(t)'
  BY DEF TablesInv, TableOK, Reached, Stored
<1>3. \A t \in Threads : /\ writer'[t] \in [{"run", "late"} -> Writers]
                         /\ \A w \in {"run", "late"} : HandOK(writer'[t][w], clock')
  BY <1>1, NoHand DEF TablesInv, Idle
<1>4. SidesOK'
  BY DEF TablesInv, SidesOK, Idle, Threads
<1>5. QED
  BY <1>2, <1>3, <1>4 DEF TablesInv

LEMMA ReplaceGoes ==
    ASSUME StoreInv, TablesInv, NEW c \in Calls, NEW summary \in Lists, Replace(c, summary),
           call[c].at = "summarising", UNCHANGED <<writer, fork, left>>
    PROVE  TablesInv'
<1> DEFINE k == clock'
           row == [version |-> k, parent |-> call[c].from, op |-> OpOf[c]]
<1>1. /\ clock' = clock + 1 /\ clock \in 0..LastId /\ clock' \in 0..LastId
      /\ clock' \in Checkpoints /\ clock' >= clock
      /\ Persist("source", k, summary)
      /\ rows' = [rows EXCEPT !["source"] = [@ EXCEPT ![k] = row]]
      /\ UNCHANGED writes
  BY StoreAssumption DEF Replace, Room, StoreInv, DataOK, Checkpoints
<1>2. call[c].from \in 0..(k - 1)
  <2>1. call[c].from \in Stored("source")
    BY DEF StoreInv, CallsAgree
  <2>2. call[c].from \in 1..LastId /\ call[c].from <= clock
    BY <2>1 DEF StoreInv, Kept, Stored, Checkpoints
  <2>3. QED
    BY <2>2, <1>1, StoreAssumption
<1>3. row \in Rows /\ row.version = k /\ row.parent = call[c].from
      /\ summary \in MessageLists
  BY <1>1, <1>2, StoreAssumption DEF Rows, MessageLists, Ops
<1> HIDE DEF row
<1>4. Enters("source", k, row, summary)
  BY <1>1, <1>2, <1>3 DEF Enters
<1>5. /\ TableOK("source")'
      /\ messages' = [u \in Threads |-> messages'[u]]
      /\ \A u \in Threads : u # "source" =>
           /\ rows'[u] = rows[u] /\ log'[u] = log[u]
           /\ versions'[u] = versions[u] /\ messages'[u] = messages[u]
  <2>1. /\ Shape /\ messages = [u \in Threads |-> messages[u]]
        /\ TableOK("source") /\ "source" \in Threads
    BY DEF StoreInv, DataOK, TablesInv, SidesOK, Threads
  <2>2. QED
    BY <2>1, <1>1, <1>3, <1>4, Entering
<1>6. \A u \in Threads : TableOK(u)'
  <2>1. \A u \in Threads : TableOK(u)
    BY DEF TablesInv
  <2>2. QED
    BY <2>1, <1>1, <1>5, TableStays
<1>7. \A u \in Threads : /\ writer'[u] \in [{"run", "late"} -> Writers]
                         /\ \A i \in {"run", "late"} : HandOK(writer'[u][i], clock')
  BY <1>1, HandStays DEF TablesInv
<1>8. SidesOK'
  BY <1>1, <1>5 DEF TablesInv, SidesOK
<1>9. QED
  BY <1>6, <1>7, <1>8 DEF TablesInv

LEMMA CompactingGoes ==
    ASSUME StoreInv, TablesInv, NEW c \in Calls, Compacting(c)
    PROVE  TablesInv'
<1>1. UNCHANGED <<writer, fork>> /\ left' \in Bounds /\ fork' \in Forks
  BY Spending DEF Compacting, Compact, ReadCommitted, PrepareRow, PrepareWrites, Commit,
                  CommitRefused, Answer, TablesInv, SidesOK
<1>2. CASE UNCHANGED <<rows, writes, log, versions, messages, clock>>
  BY <1>1, <1>2, TablesGo
<1>3. ASSUME NEW summary \in Lists, Replace(c, summary), Commit(c)
      PROVE  TablesInv'
  BY <1>3, ReplaceGoes DEF Commit
<1>4. QED
  BY <1>2, <1>3 DEF Compacting, Compact, ReadCommitted, PrepareRow, PrepareWrites, Commit,
                    CommitRefused, Answer, store

LEMMA ForkBeginsGoes ==
    ASSUME StoreInv, TablesInv, ForkBegins
    PROVE  TablesInv'
<1>1. UNCHANGED <<rows, writes, log, versions, messages, clock, writer>> /\ fork.at = "off"
      /\ Spend("forks") /\ Latest("source") # 0
  BY DEF ForkBegins, store
<1>2. left' \in Bounds
  BY <1>1, Spending DEF TablesInv, SidesOK
<1>3. Latest("source") \in Checkpoints
  BY <1>1, LatestIsStored DEF Stored
<1>4. ParentsBefore
  BY DEF TablesInv, TableOK, ParentsBefore, Threads
<1>5. fork' \in Forks
  <2>1. CASE fork' = [at |-> "checked", upTo |-> 0]
    BY <2>1, StoreAssumption DEF Forks
  <2>2. ASSUME NEW m \in Messages, fork' = [at |-> "checked", upTo |-> Until(m)]
        PROVE  fork' \in Forks
    <3>1. Until(m) \in 0..LastId
      BY <1>3, <1>4, UntilIs DEF Checkpoints
    <3>2. QED
      BY <2>2, <3>1 DEF Forks
  <2>3. QED
    BY <2>1, <2>2 DEF ForkBegins
<1>6. QED
  BY <1>1, <1>2, <1>5, TablesGo

\* The clone is there, with the tables it was given.
LEMMA CloneGoes ==
    ASSUME StoreInv, TablesInv, fork.at = "checked", fork' = [fork EXCEPT !.at = "done"],
           UNCHANGED <<writer, clock, left>>, TableOK("copy")',
           rows'["source"] = rows["source"], log'["source"] = log["source"],
           versions'["source"] = versions["source"],
           messages'["source"] = messages["source"],
           messages' = [t \in Threads |-> messages'[t]],
           writes' \in [Threads -> SUBSET Checkpoints]
    PROVE  TablesInv'
<1>1. clock \in 0..LastId /\ clock' \in 0..LastId /\ clock' >= clock
  BY DEF StoreInv, DataOK
<1>2. TableOK("source")'
  BY <1>1, TableStays DEF TablesInv, Threads
<1>3. SidesOK'
  BY DEF TablesInv, SidesOK, Forks
<1>4. QED
  BY <1>2, <1>3 DEF TablesInv, Threads

LEMMA CloneThreadGoes ==
    ASSUME StoreInv, TablesInv, CloneThread
    PROVE  TablesInv'
<1>1. /\ rows' = [rows EXCEPT !["copy"] = rows["source"]]
      /\ writes' = [writes EXCEPT !["copy"] = writes["source"]]
      /\ log' = [log EXCEPT !["copy"] = log["source"]]
      /\ versions' = [versions EXCEPT !["copy"] = versions["source"]]
      /\ messages' = [messages EXCEPT !["copy"] = messages["source"]]
      /\ fork.at = "checked" /\ fork' = [fork EXCEPT !.at = "done"]
      /\ UNCHANGED <<writer, clock, left>>
  BY DEF CloneThread
<1>2. /\ rows'["copy"] = rows["source"] /\ rows'["source"] = rows["source"]
      /\ log'["copy"] = log["source"] /\ log'["source"] = log["source"]
      /\ versions'["copy"] = versions["source"] /\ versions'["source"] = versions["source"]
      /\ messages'["copy"] = messages["source"] /\ messages'["source"] = messages["source"]
      /\ messages' = [t \in Threads |-> messages'[t]]
      /\ writes' \in [Threads -> SUBSET Checkpoints]
  BY <1>1 DEF StoreInv, DataOK, Shape, TablesInv, SidesOK, Threads
<1>3. TableOK("source")
  BY DEF TablesInv, Threads
<1>4. TableOK("copy")'
  BY <1>1, <1>2, <1>3 DEF TableOK, Reached, Stored
<1>5. QED
  BY <1>1, <1>2, <1>4, CloneGoes

\* A clone until a checkpoint is given what its ancestry names, and the log up to it.
LEMMA ChainCopied ==
    ASSUME StoreInv, TablesInv, CloneUntilCheckpoint
    PROVE  LET chain == Ancestry[fork.upTo]
               named == {rows["source"][k].version : k \in chain}
           IN  /\ fork.upTo \in chain /\ chain \subseteq Stored("source")
               /\ \A k \in chain : k <= fork.upTo
               /\ Through \in 0..Len(log["source"])
               /\ rows'["copy"] = [k \in Checkpoints |->
                                     IF k \in chain THEN rows["source"][k] ELSE NoRow]
               /\ rows'["source"] = rows["source"]
               /\ log'["copy"] = SubSeq(log["source"], 1, Through)
               /\ log'["source"] = log["source"]
               /\ versions'["copy"] = [v \in Checkpoints |->
                                         IF v \in named THEN versions["source"][v] ELSE 0]
               /\ versions'["source"] = versions["source"]
               /\ messages'["copy"] = ItemsThrough(log["source"], Through)
               /\ messages'["source"] = messages["source"]
               /\ messages' = [t \in Threads |-> messages'[t]]
               /\ writes' \in [Threads -> SUBSET Checkpoints]
               /\ Stored("copy")' = chain
<1> DEFINE chain == Ancestry[fork.upTo]
           named == {rows["source"][k].version : k \in chain}
<1>1. fork.upTo \in Checkpoints
  BY StoreAssumption DEF CloneUntilCheckpoint, CopyChain, TablesInv, SidesOK, Forks, Checkpoints
<1>2. ParentsBefore
  BY DEF TablesInv, TableOK, ParentsBefore, Threads
<1>3. fork.upTo \in chain /\ chain \subseteq 1..fork.upTo
  BY <1>1, <1>2, AncestryIs
<1>4. chain \subseteq Stored("source")
  BY DEF CloneUntilCheckpoint, CopyChain
<1>5. Through \in 0..Len(log["source"])
  <2>1. rows["source"][fork.upTo].version \in Checkpoints
    BY <1>3, <1>4 DEF TablesInv, TableOK, Threads
  <2>2. QED
    BY <2>1 DEF Through, StoreInv, DataOK, EndIsNamed
<1> HIDE DEF chain
<1>6. /\ rows' = [rows EXCEPT !["copy"] =
                    [k \in Checkpoints |-> IF k \in chain THEN rows["source"][k] ELSE NoRow]]
      /\ writes' = [writes EXCEPT !["copy"] = writes["source"] \cap chain]
      /\ log' = [log EXCEPT !["copy"] = SubSeq(log["source"], 1, Through)]
      /\ versions' = [versions EXCEPT !["copy"] =
                    [v \in Checkpoints |-> IF v \in named THEN versions["source"][v] ELSE 0]]
      /\ messages' = [messages EXCEPT !["copy"] = ItemsThrough(log["source"], Through)]
  BY DEF CloneUntilCheckpoint, CopyChain, chain
<1> HIDE DEF named
<1>7. /\ rows'["copy"] = [k \in Checkpoints |->
                            IF k \in chain THEN rows["source"][k] ELSE NoRow]
      /\ rows'["source"] = rows["source"]
      /\ log'["copy"] = SubSeq(log["source"], 1, Through)
      /\ log'["source"] = log["source"]
      /\ versions'["copy"] = [v \in Checkpoints |->
                                IF v \in named THEN versions["source"][v] ELSE 0]
      /\ versions'["source"] = versions["source"]
  BY <1>6 DEF StoreInv, DataOK, Shape, Threads
<1>8. /\ messages'["copy"] = ItemsThrough(log["source"], Through)
      /\ messages'["source"] = messages["source"]
      /\ messages' = [t \in Threads |-> messages'[t]]
      /\ writes' \in [Threads -> SUBSET Checkpoints]
  BY <1>6 DEF TablesInv, SidesOK, Threads
<1>9. Stored("copy")' = chain
  BY <1>4, <1>7 DEF Stored
<1>10. \A k \in chain : k <= fork.upTo
  BY <1>3
<1>11. QED
  BY <1>3, <1>4, <1>5, <1>7, <1>8, <1>9, <1>10 DEF chain, named

LEMMA CloneUntilGoes ==
    ASSUME StoreInv, TablesInv, CloneUntilCheckpoint
    PROVE  TablesInv'
<1> DEFINE chain == Ancestry[fork.upTo]
           named == {rows["source"][k].version : k \in chain}
           l == log["source"]
<1>1. /\ fork.upTo \in chain /\ chain \subseteq Stored("source")
      /\ Through \in 0..Len(log["source"])
      /\ rows'["copy"] = [k \in Checkpoints |->
                            IF k \in chain THEN rows["source"][k] ELSE NoRow]
      /\ rows'["source"] = rows["source"]
      /\ log'["copy"] = SubSeq(l, 1, Through) /\ log'["source"] = l
      /\ versions'["copy"] = [v \in Checkpoints |->
                                IF v \in named THEN versions["source"][v] ELSE 0]
      /\ versions'["source"] = versions["source"]
      /\ messages'["copy"] = ItemsThrough(l, Through)
      /\ messages'["source"] = messages["source"]
      /\ messages' = [t \in Threads |-> messages'[t]]
      /\ writes' \in [Threads -> SUBSET Checkpoints]
      /\ Stored("copy")' = chain
  BY ChainCopied
<1> HIDE DEF chain
<1>2. /\ fork.at = "checked" /\ fork' = [fork EXCEPT !.at = "done"]
      /\ UNCHANGED <<writer, clock, left>>
  BY DEF CloneUntilCheckpoint, CopyChain
<1>3. TableOK("source") /\ l \in Seq(Entries) /\ Topped(l)
      /\ rows["source"] \in [Checkpoints -> Rows]
      /\ versions["source"] \in [Checkpoints -> Nat]
  BY DEF TablesInv, Threads, TableOK, Reached
<1>4. /\ log'["copy"] \in Seq(Entries) /\ Len(log'["copy"]) = Through
      /\ Topped(log'["copy"])
      /\ ItemsThrough(log'["copy"], Through) = ItemsThrough(l, Through)
  <2>1. Through \in 0..Through
    BY <1>1
  <2>2. QED
    BY <2>1, <1>1, <1>3, Cutting
<1>5. \A k \in chain : rows["source"][k].version \in Checkpoints /\ k \in Checkpoints
                       /\ k <= clock
  BY <1>1, <1>3 DEF TableOK, Stored
<1>6. \E v \in Checkpoints : versions'["copy"][v] >= Len(log'["copy"])
  <2>1. rows["source"][fork.upTo].version \in Checkpoints
        /\ rows["source"][fork.upTo].version \in named
    BY <1>1, <1>5
  <2>2. versions'["copy"][rows["source"][fork.upTo].version] = Through
    BY <1>1, <2>1 DEF Through
  <2>3. Through \in Nat
    BY <1>1
  <2>4. QED
    BY <2>1, <2>2, <2>3, <1>4
<1>7. Reached("copy")'
  BY <1>4, <1>6 DEF Reached
<1>8. versions'["copy"] \in [Checkpoints -> Nat]
  BY <1>1, <1>3
<1>9. /\ rows'["copy"] \in [Checkpoints -> Rows]
      /\ \A k \in Checkpoints : rows'["copy"][k].parent \in 0..(k - 1)
  <2>1. NoRow \in Rows /\ \A k \in Checkpoints : NoRow.parent \in 0..(k - 1)
    BY StoreAssumption DEF NoRow, Rows, Checkpoints
  <2>2. \A k \in Checkpoints : rows["source"][k].parent \in 0..(k - 1)
    BY <1>3 DEF TableOK
  <2>3. QED
    BY <1>1, <1>3, <2>1, <2>2
<1>10. \A k \in Stored("copy")' : rows'["copy"][k].version \in Checkpoints /\ k <= clock'
  BY <1>1, <1>2, <1>5
<1>11. messages'["copy"] = ItemsThrough(log'["copy"], Len(log'["copy"]))
  BY <1>1, <1>4
<1>12. TableOK("copy")'
  BY <1>4, <1>7, <1>8, <1>9, <1>10, <1>11 DEF TableOK
<1>13. QED
  BY <1>1, <1>2, <1>12, CloneGoes

LEMMA ForkingGoes ==
    ASSUME StoreInv, TablesInv, Forking
    PROVE  TablesInv'
<1>1. CASE CloneThrows
  <2>1. fork' \in Forks /\ left' \in Bounds /\ fork.at = "checked"
    BY <1>1 DEF CloneThrows, TablesInv, SidesOK, Forks
  <2>2. QED
    BY <1>1, <2>1, TablesGo DEF CloneThrows, store
<1>2. QED
  BY <1>1, ForkBeginsGoes, CloneThreadGoes, CloneUntilGoes DEF Forking

LEMMA CrashGoes ==
    ASSUME StoreInv, TablesInv, Crash
    PROVE  TablesInv'
<1>1. UNCHANGED <<rows, writes, log, versions, messages, clock>> /\ Spend("crashes")
      /\ writer' = [t \in Threads |-> Idle]
      /\ fork' = IF fork.at = "checked" THEN [fork EXCEPT !.at = "off"] ELSE fork
  BY DEF Crash, store, Idle
<1>2. left' \in Bounds /\ fork' \in Forks /\ (fork'.at # "done" => fork.at # "done")
  BY <1>1, Spending DEF TablesInv, SidesOK, Forks
<1>3. QED
  BY <1>1, <1>2, TablesGo

LEMMA TablesInitially == Init => TablesInv
<1> SUFFICES ASSUME Init PROVE TablesInv
  OBVIOUS
<1>1. 0 \in 0..LastId /\ 1 \in Checkpoints /\ clock = 0
  BY StoreAssumption DEF Checkpoints, Init
<1>2. SidesOK
  BY <1>1, StartsAssumption DEF Init, SidesOK, Forks, Threads
<1>3. ASSUME NEW t \in Threads
      PROVE  TableOK(t)
  <2>1. /\ rows[t] = [k \in Checkpoints |-> NoRow] /\ log[t] = <<>>
        /\ versions[t] = [v \in Checkpoints |-> 0] /\ messages[t] = NoMessages
    BY DEF Init
  <2>2. <<>> \in Seq(Entries) /\ Len(<<>>) = 0 /\ DOMAIN <<>> = {}
    OBVIOUS
  <2>3. Reached(t)
    BY <2>1, <2>2, <1>1 DEF Reached, Topped, ChangesOf
  <2>4. messages[t] = ItemsThrough(log[t], Len(log[t]))
    BY <2>1, <2>2 DEF ItemsThrough, ChangesOf, NoMessages
  <2>5. /\ rows[t] \in [Checkpoints -> Rows]
        /\ \A k \in Checkpoints : rows[t][k].parent \in 0..(k - 1)
    BY <2>1, <1>1 DEF NoRow, Rows, Checkpoints
  <2>6. Stored(t) = {}
    BY <2>1 DEF Stored
  <2>7. QED
    BY <2>1, <2>2, <2>3, <2>4, <2>5, <2>6 DEF TableOK
<1>4. \A t \in Threads : /\ writer[t] \in [{"run", "late"} -> Writers]
                         /\ \A w \in {"run", "late"} : HandOK(writer[t][w], clock)
  BY <1>1, NoHand DEF Init
<1>5. QED
  BY <1>2, <1>3, <1>4 DEF TablesInv

LEMMA TablesStep ==
    ASSUME StoreInv, TablesInv, [Next]_vars
    PROVE  TablesInv'
<1>1. CASE UNCHANGED vars
  BY <1>1, TablesGo DEF vars, store, TablesInv, SidesOK
<1>2. QED
  BY <1>1, RunningGoes, CompactingGoes, ForkingGoes, CrashGoes DEF Next

THEOREM TablesInductive == Spec => []TablesInv
<1>1. StoreInv /\ TablesInv /\ [Next]_vars => TablesInv'
  BY TablesStep
<1>2. QED
  BY <1>1, TablesInitially, StoreInvariant, PTL DEF Spec

-----------------------------------------------------------------------------
\* While the runtime thread keeps runs and compactions apart, and no run leaves puts
\* behind, checkpoints are stored in the order in which they were made.
Calm == left.reserved /\ ~left.late

PlaceOf(t, k) == versions[t][rows[t][k].version]

\* What is made later names no earlier place of the log, and the last names its end.
Ordered(t) ==
    /\ \A j, k \in Stored(t) : j <= k => /\ rows[t][j].version <= rows[t][k].version
                                         /\ PlaceOf(t, j) <= PlaceOf(t, k)
    /\ \A k \in Stored(t) :
         (\A j \in Stored(t) : j <= k) => PlaceOf(t, k) = Len(log[t])

\* So it is with what a run is about to put.
Follows(t, w) ==
    /\ \A i \in DOMAIN w.chain, k \in Stored(t) :
         k < w.chain[i].id /\ rows[t][k].version <= w.chain[i].version
    /\ \A i, j \in DOMAIN w.chain :
         i < j => w.chain[i].id < w.chain[j].id /\ w.chain[i].version <= w.chain[j].version
    /\ w.on => /\ \A k \in Stored(t) : rows[t][k].version <= w.version
               /\ \A i \in DOMAIN w.chain : w.chain[i].version <= w.version

RunInOrder(t, w) ==
    InHand(w, clock, made) /\ Follows(t, w) /\ (~w.on => w.chain = <<>>)

InOrder(t) ==
    /\ Tabled(t) /\ Ordered(t)
    /\ RunInOrder(t, writer[t]["run"]) /\ writer[t]["late"] = NoWriter

OrderInv ==
    Calm => /\ (\E c \in Calls : Active(c)) => ~writer["source"]["run"].on
            /\ \A t \in Threads : InOrder(t)

-----------------------------------------------------------------------------
LEMMA CalmStays ==
    ASSUME TablesInv, [Next]_vars, Calm'
    PROVE  Calm
<1>1. left' = left
      \/ \E b \in {"runs", "writes", "stops", "faults", "forks", "crashes"} : Spend(b)
  BY DEF Next, vars, Running, Begin, Step, Put, PutWrites, Finish, Stop, PutRefused, Leave,
         LateEnds, Compacting, Compact, ReadCommitted, PrepareRow, PrepareWrites, Commit,
         CommitRefused, Answer, Forking, ForkBegins, CloneThread, CloneUntilCheckpoint,
         CopyChain, CloneThrows, Crash
<1>2. QED
  BY <1>1, Spending DEF TablesInv, SidesOK, Calm

LEMMA TabledStays ==
    ASSUME NEW t \in Threads, Tabled(t), Ordered(t),
           clock \in 0..LastId, clock' \in 0..LastId, clock' >= clock,
           \A k \in 1..clock : made'[k] = made[k],
           rows'[t] = rows[t], log'[t] = log[t], versions'[t] = versions[t]
    PROVE  Tabled(t)' /\ Ordered(t)'
<1>1. Stored(t)' = Stored(t) /\ Stored(t) \subseteq 1..LastId
  BY DEF Stored, Checkpoints
<1>2. Ordered(t)'
  BY <1>1 DEF Ordered, PlaceOf
<1>3. ASSUME NEW k \in Stored(t)
      PROVE  /\ k <= clock' /\ rows[t][k].version \in 1..clock'
             /\ made'[k] = made'[rows[t][k].version] /\ Read(t, k)' = made'[k]
  <2>1. /\ k <= clock /\ rows[t][k].version \in 1..clock
        /\ made[k] = made[rows[t][k].version] /\ Read(t, k) = made[k]
    BY DEF Tabled, Kept
  <2>2. Read(t, k)' = Read(t, k)
    BY DEF Read
  <2>3. k \in 1..clock /\ clock \in Nat /\ clock' \in Nat
    BY <1>1, <2>1, StoreAssumption
  <2>4. made'[k] = made[k] /\ made'[rows[t][k].version] = made[rows[t][k].version]
    BY <2>1, <2>3
  <2>5. QED
    BY <2>1, <2>2, <2>3, <2>4
<1>4. Kept(t)'
  BY <1>1, <1>3 DEF Kept
<1>5. QED
  BY <1>2, <1>4 DEF Tabled, EndIsNamed

\* A thread is in order as before when a step leaves it alone.
LEMMA OrderStays ==
    ASSUME StoreInv, TablesInv, NEW t \in Threads, InOrder(t),
           clock' \in 0..LastId, clock' >= clock,
           \A k \in 1..clock : made'[k] = made[k],
           rows'[t] = rows[t], log'[t] = log[t], versions'[t] = versions[t],
           writer'[t] = writer[t]
    PROVE  InOrder(t)'
<1>1. clock \in 0..LastId /\ writer[t]["run"] \in Writers
  BY DEF StoreInv, DataOK, TablesInv
<1>2. Tabled(t)' /\ Ordered(t)'
  BY <1>1, TabledStays DEF InOrder
<1>3. RunInOrder(t, writer[t]["run"])'
  <2> DEFINE w == writer[t]["run"]
  <2>1. w \in Writers /\ RunInOrder(t, w) /\ writer'[t]["run"] = w
    BY <1>1 DEF InOrder
  <2>2. InHand(w, clock', made') /\ (~w.on => w.chain = <<>>) /\ Follows(t, w)
    BY <2>1, <1>1, InHandStays DEF RunInOrder
  <2> HIDE DEF w
  <2>3. QED
    BY <2>1, <2>2 DEF RunInOrder, Follows, Stored
<1>4. QED
  BY <1>2, <1>3 DEF InOrder

\* A step that changes the runs of a thread and nothing else of it.
LEMMA RunChanges ==
    ASSUME StoreInv, TablesInv, NEW t \in Threads, \A u \in Threads : InOrder(u),
           UNCHANGED <<rows, log, versions>>,
           clock' \in 0..LastId, clock' >= clock,
           \A k \in 1..clock : made'[k] = made[k],
           NEW x, writer' = [writer EXCEPT ![t] = [@ EXCEPT !["run"] = x]],
           InHand(x, clock', made'), Follows(t, x), ~x.on => x.chain = <<>>
    PROVE  \A u \in Threads : InOrder(u)'
<1>1. clock \in 0..LastId
  BY DEF StoreInv, DataOK
<1>2. /\ writer'[t]["run"] = x /\ writer'[t]["late"] = writer[t]["late"]
      /\ \A u \in Threads : u # t => writer'[u] = writer[u]
  BY DEF StoreInv, DataOK, Shape, TablesInv
<1>3. Tabled(t)' /\ Ordered(t)'
  BY <1>1, TabledStays DEF InOrder
<1>4. Follows(t, x)'
  BY DEF Follows, Stored
<1>5. InOrder(t)'
  BY <1>2, <1>3, <1>4 DEF InOrder, RunInOrder, Follows
<1>6. QED
  BY <1>2, <1>5, OrderStays

\* No run is going on where a call compacts, and all threads are in order.
Apart == (\E c \in Calls : Active(c)) => ~writer["source"]["run"].on
AllInOrder == Apart /\ \A t \in Threads : InOrder(t)

\* A checkpoint later than those of the thread is stored in order.
LEMMA StoringInOrder ==
    ASSUME NEW t \in Threads, Shape, Tabled(t), Ordered(t), clock \in 0..LastId,
           NEW k \in Checkpoints, NEW row \in Rows, NEW list \in MessageLists,
           row.version \in Checkpoints, Stores(t, k, row, list),
           clock' \in 0..LastId, clock' >= clock,
           \A j \in 1..clock : made'[j] = made[j],
           \A j \in Stored(t) : j < k /\ rows[t][j].version <= row.version
    PROVE  /\ Tabled(t)' /\ Ordered(t)' /\ Stored(t)' = Stored(t) \cup {k}
           /\ rows'[t][k] = row
           /\ \A j \in Stored(t) : rows'[t][j] = rows[t][j]
           /\ \A u \in Threads : u # t =>
                rows'[u] = rows[u] /\ log'[u] = log[u] /\ versions'[u] = versions[u]
<1> DEFINE v == row.version
<1>1. Tabled(t)' /\ Stored(t)' = Stored(t) \cup {k}
  BY Storing
<1>2. /\ Persist(t, v, list) /\ rows' = [rows EXCEPT ![t] = [@ EXCEPT ![k] = row]]
      /\ v \in Checkpoints
  BY DEF Stores
<1> HIDE DEF v
<1>3. /\ rows[t] \in [Checkpoints -> Rows] /\ log[t] \in Seq(Entries)
      /\ versions[t] \in [Checkpoints -> Nat] /\ EndIsNamed(t) /\ Reached(t) /\ Kept(t)
  BY DEF Tabled, EndIsNamed, Reached
<1>4. /\ \A u \in Threads : u # t => log'[u] = log[u] /\ versions'[u] = versions[u]
      /\ versions'[t][v] = Len(log'[t])
      /\ \A u \in Checkpoints : u # v => versions'[t][u] = versions[t][u]
  BY <1>2, <1>3, Persisting
<1>5. /\ rows'[t] = [rows[t] EXCEPT ![k] = row]
      /\ \A u \in Threads : u # t => rows'[u] = rows[u]
  BY <1>2 DEF Shape
<1>6. rows'[t][k] = row /\ \A j \in Stored(t) : rows'[t][j] = rows[t][j]
  <2>1. \A j \in Stored(t) : j \in Checkpoints /\ j # k
    BY DEF Stored, Checkpoints
  <2>2. QED
    BY <1>3, <1>5, <2>1
<1>7. /\ k \in Nat /\ v \in Nat /\ Len(log'[t]) \in Nat
      /\ \A u \in Checkpoints : versions'[t][u] \in Nat /\ versions'[t][u] <= Len(log'[t])
  <2>1. /\ log'[t] \in Seq(Entries) /\ versions'[t] \in [Checkpoints -> Nat]
        /\ \A u \in Checkpoints : versions'[t][u] <= Len(log'[t])
    BY <1>1 DEF Tabled, EndIsNamed
  <2>2. k \in Nat /\ v \in Nat
    BY <1>2 DEF Checkpoints
  <2>3. Len(log'[t]) \in Nat
    BY <2>1
  <2> DEFINE f == versions'[t]
             n == Len(log'[t])
  <2>4. f \in [Checkpoints -> Nat] /\ \A u \in Checkpoints : f[u] <= n
    BY <2>1
  <2> HIDE DEF f, n
  <2>5. \A u \in Checkpoints : f[u] \in Nat /\ f[u] <= n
    BY <2>4
  <2>6. QED
    BY <2>2, <2>3, <2>5 DEF f, n
<1>8. ASSUME NEW j \in Stored(t)
      PROVE  /\ j \in Nat /\ j < k /\ rows[t][j].version \in Checkpoints
             /\ rows[t][j].version \in Nat /\ rows[t][j].version <= v
             /\ rows'[t][j] = rows[t][j]
             /\ PlaceOf(t, j)' <= Len(log'[t])
             /\ rows[t][j].version = v => PlaceOf(t, j)' = Len(log'[t])
             /\ rows[t][j].version # v => PlaceOf(t, j)' = PlaceOf(t, j)
  <2>1. rows[t][j].version \in 1..clock
    BY <1>3 DEF Kept
  <2>2. j \in Nat /\ rows[t][j].version \in Checkpoints /\ rows[t][j].version \in Nat
    BY <2>1, StoreAssumption DEF Stored, Checkpoints
  <2>3. QED
    BY <1>4, <1>6, <1>7, <2>2 DEF PlaceOf, v
<1>9. PlaceOf(t, k)' = Len(log'[t])
  BY <1>4, <1>6 DEF PlaceOf, v
<1>10. ASSUME NEW i \in Stored(t)', NEW j \in Stored(t)', i <= j
       PROVE  /\ rows'[t][i].version <= rows'[t][j].version
              /\ PlaceOf(t, i)' <= PlaceOf(t, j)'
  <2>1. CASE j = k
    BY <1>1, <1>6, <1>7, <1>8, <1>9, <2>1 DEF v
  <2>2. CASE j # k
    <3>1. i \in Stored(t) /\ j \in Stored(t)
      BY <1>1, <1>7, <1>8, <1>10, <2>2
    <3>2. /\ rows[t][i].version <= rows[t][j].version
          /\ PlaceOf(t, i) <= PlaceOf(t, j)
      BY <1>10, <3>1 DEF Ordered
    <3>3. rows'[t][i].version <= rows'[t][j].version
      BY <1>8, <3>1, <3>2
    <3>4. PlaceOf(t, i)' <= PlaceOf(t, j)'
      <4>1. CASE rows[t][j].version = v
        BY <1>8, <3>1, <4>1
      <4>2. CASE rows[t][j].version # v
        <5>1. rows[t][i].version # v
          BY <1>7, <1>8, <3>1, <3>2, <4>2
        <5>2. QED
          BY <1>8, <3>1, <3>2, <4>2, <5>1
      <4>3. QED
        BY <4>1, <4>2
    <3>5. QED
      BY <3>3, <3>4
  <2>3. QED
    BY <2>1, <2>2
<1>11. ASSUME NEW i \in Stored(t)', \A j \in Stored(t)' : j <= i
       PROVE  PlaceOf(t, i)' = Len(log'[t])
  BY <1>1, <1>7, <1>8, <1>9, <1>11
<1>12. Ordered(t)'
  BY <1>10, <1>11 DEF Ordered
<1>13. QED
  BY <1>1, <1>4, <1>5, <1>6, <1>12

LEMMA OthersStay ==
    ASSUME StoreInv, TablesInv, \A u \in Threads : InOrder(u),
           clock' \in 0..LastId, clock' >= clock,
           \A k \in 1..clock : made'[k] = made[k],
           NEW t \in Threads, InOrder(t)',
           \A u \in Threads : u # t =>
              /\ rows'[u] = rows[u] /\ log'[u] = log[u]
              /\ versions'[u] = versions[u] /\ writer'[u] = writer[u]
    PROVE  \A u \in Threads : InOrder(u)'
BY OrderStays

-----------------------------------------------------------------------------
LEMMA BeginInOrder ==
    ASSUME StoreInv, TablesInv, Calm, AllInOrder, NEW t \in Threads, Begin(t)
    PROVE  AllInOrder'
<1> DEFINE k == Latest(t)
           w == IF k = 0 THEN [NoWriter EXCEPT !.on = TRUE]
                ELSE [NoWriter EXCEPT !.on = TRUE, !.last = k, !.version = rows[t][k].version,
                                      !.held = Read(t, k)]
<1>1. /\ writer' = [writer EXCEPT ![t] = [@ EXCEPT !["run"] = w]]
      /\ UNCHANGED <<rows, log, versions, call, clock, made>>
      /\ t = "source" => \A c \in Calls : ~Active(c)
  BY DEF Begin, store, Calm
<1>2. /\ clock \in 0..LastId /\ 0 \in 0..LastId /\ 0 <= clock
      /\ clock' \in 0..LastId /\ clock' >= clock
      /\ \A i \in 1..clock : made'[i] = made[i]
  BY <1>1, StoreAssumption DEF StoreInv, DataOK
<1>3. Tabled(t) /\ Ordered(t)
  BY DEF AllInOrder, InOrder
<1>4. InHand(w, clock, made) /\ Follows(t, w) /\ w.on
  <2>1. CASE k = 0
    <3>1. w = [on |-> TRUE, last |-> 0, version |-> 0, held |-> NoMessages, chain |-> <<>>]
      BY <2>1 DEF NoWriter
    <3>2. Stored(t) = {}
      <4>1. Stored(t) # {} => k \in Stored(t)
        <5>1. Stored(t) \in SUBSET Checkpoints
          BY DEF Stored
        <5>2. QED
          BY <5>1, LastOf DEF Latest
      <4>2. QED
        BY <2>1, <4>1 DEF Stored, Checkpoints
    <3> HIDE DEF w
    <3>3. InHand(w, clock, made)
      BY <1>2, <3>1, NoMessagesTyped, EmptyHanded
    <3>4. DOMAIN w.chain = {} /\ w.on
      BY <3>1
    <3>5. QED
      BY <3>2, <3>3, <3>4 DEF Follows
  <2>2. CASE k # 0
    <3>1. w = [on |-> TRUE, last |-> k, version |-> rows[t][k].version,
               held |-> Read(t, k), chain |-> <<>>]
      BY <2>2 DEF NoWriter
    <3>2. k \in Stored(t) /\ \A j \in Stored(t) : j <= k
      <4>1. k \in Stored(t) /\ \A j \in Stored(t) : k >= j
        BY <2>2, LatestIsStored
      <4>2. Stored(t) \subseteq Nat
        BY DEF Stored, Checkpoints
      <4> HIDE DEF k
      <4>3. QED
        BY <4>1, <4>2
    <3>3. /\ k \in Checkpoints /\ k <= clock /\ rows[t][k].version \in 1..clock
          /\ made[rows[t][k].version] = Read(t, k)
          /\ log[t] \in Seq(Entries) /\ Topped(log[t])
          /\ versions[t] \in [Checkpoints -> Nat]
      BY <1>3, <3>2 DEF Tabled, Kept, EndIsNamed, Stored
    <3>4. k \in 0..LastId /\ rows[t][k].version \in 0..LastId
          /\ rows[t][k].version <= clock /\ rows[t][k].version \in Checkpoints
      BY <1>2, <3>3, StoreAssumption DEF Checkpoints
    <3>5. Read(t, k) \in MessageLists
      BY <3>3, <3>4, ItemsTyped DEF Read
    <3> HIDE DEF w, k
    <3>6. InHand(w, clock, made)
      BY <1>2, <3>1, <3>3, <3>4, <3>5, EmptyHanded
    <3>7. DOMAIN w.chain = {} /\ w.on /\ w.version = rows[t][k].version
      BY <3>1
    <3>8. \A j \in Stored(t) : rows[t][j].version <= w.version
      BY <1>3, <3>2, <3>7 DEF Ordered
    <3>9. QED
      BY <3>6, <3>7, <3>8 DEF Follows
  <2>3. QED
    BY <2>1, <2>2
<1> HIDE DEF w
<1>5. \A u \in Threads : InOrder(u)'
  BY <1>1, <1>2, <1>4, RunChanges DEF AllInOrder
<1>6. Apart'
  <2>1. t # "source" => writer'["source"] = writer["source"]
    BY <1>1 DEF StoreInv, DataOK, Shape, Threads
  <2>2. QED
    BY <1>1, <2>1 DEF AllInOrder, Apart, Active
<1>7. QED
  BY <1>5, <1>6 DEF AllInOrder

\* A checkpoint is made and handed over behind the others.
LEMMA HandsOver ==
    ASSUME NEW w \in Writers, NEW c \in Checkpoints, NEW what, InHand(w, c, what),
           NEW v \in Checkpoints, v <= c, NEW list \in MessageLists,
           what[c] = list, what[v] = list, NEW x,
           x = [on |-> TRUE, last |-> c, version |-> v, held |-> list,
                chain |-> Append(w.chain, [id |-> c, parent |-> w.last, version |-> v])]
    PROVE  /\ x \in Writers /\ InHand(x, c, what) /\ x.on /\ x.version = v
           /\ \A i \in DOMAIN x.chain :
                \/ i \in DOMAIN w.chain /\ x.chain[i] = w.chain[i]
                \/ /\ x.chain[i].id = c /\ x.chain[i].version = v
                   /\ \A j \in DOMAIN x.chain : ~(i < j)
                   /\ i \notin DOMAIN w.chain
<1> DEFINE job == [id |-> c, parent |-> w.last, version |-> v]
<1>1. w.chain \in Seq(Jobs) /\ w.last \in 0..LastId
  BY DEF Writers
<1>2. job \in Jobs /\ job.id = c /\ job.version = v
  BY <1>1 DEF Jobs
<1>3. x.chain = Append(w.chain, job)
  OBVIOUS
<1> HIDE DEF job
<1>4. /\ x.chain \in Seq(Jobs) /\ DOMAIN x.chain = 1..(Len(w.chain) + 1)
      /\ DOMAIN w.chain = 1..Len(w.chain) /\ Len(w.chain) \in Nat
      /\ \A i \in DOMAIN x.chain :
           x.chain[i] = IF i \in DOMAIN w.chain THEN w.chain[i] ELSE job
  BY <1>1, <1>2, <1>3
<1>5. /\ x.on /\ x.version = v /\ x.last = c /\ x.held = list
      /\ c \in Nat /\ v \in Nat /\ c \in 0..LastId /\ v \in 0..LastId
  BY DEF Checkpoints
<1>6. x \in Writers
  <2>1. x = [on |-> TRUE, last |-> c, version |-> v, held |-> list, chain |-> x.chain]
    BY <1>3, <1>5
  <2>2. QED
    BY <1>4, <1>5, <2>1 DEF Writers
<1>7. \A i \in DOMAIN x.chain :
        \/ i \in DOMAIN w.chain /\ x.chain[i] = w.chain[i]
        \/ /\ x.chain[i] = job /\ i \notin DOMAIN w.chain
           /\ \A j \in DOMAIN x.chain : ~(i < j)
  BY <1>4
<1>8. InHand(x, c, what)
  <2>1. \A i \in DOMAIN x.chain :
          /\ x.chain[i].id <= c /\ x.chain[i].version <= c
          /\ what[x.chain[i].id] = what[x.chain[i].version]
    BY <1>2, <1>5, <1>7 DEF InHand
  <2>2. QED
    BY <1>5, <2>1 DEF InHand
<1>9. QED
  BY <1>2, <1>5, <1>6, <1>7, <1>8

LEMMA StepInOrder ==
    ASSUME StoreInv, TablesInv, Calm, AllInOrder, NEW t \in Threads, NEW list \in Lists,
           Step(t, list)
    PROVE  AllInOrder'
<1> DEFINE w == writer[t]["run"]
<1>1. /\ clock' = clock + 1 /\ clock \in 0..LastId /\ clock' \in Checkpoints
      /\ clock' \in 0..LastId /\ clock' >= clock /\ clock \in Nat
      /\ UNCHANGED <<rows, log, versions, call>> /\ w.on
      /\ made' = [made EXCEPT ![clock'] = list]
  BY StoreAssumption DEF Step, Room, StoreInv, DataOK, store, Checkpoints
<1>2. list \in MessageLists /\ made'[clock'] = list
      /\ \A k \in 1..clock : made'[k] = made[k]
  BY <1>1, StoreAssumption DEF MessageLists, StoreInv, DataOK, Checkpoints
<1>3. w \in Writers /\ InHand(w, clock, made) /\ Follows(t, w)
      /\ Tabled(t)
  BY DEF TablesInv, AllInOrder, InOrder, RunInOrder
<1>4. PICK v \in {clock'} \cup (IF list = w.held THEN {w.version} \ {0} ELSE {}) :
        writer' = [writer EXCEPT ![t] = [@ EXCEPT !["run"] =
                     [on |-> TRUE, last |-> clock', version |-> v, held |-> list,
                      chain |-> Append(w.chain, [id |-> clock', parent |-> w.last,
                                                 version |-> v])]]]
  BY DEF Step
<1> DEFINE x == [on |-> TRUE, last |-> clock', version |-> v, held |-> list,
                 chain |-> Append(w.chain, [id |-> clock', parent |-> w.last,
                                            version |-> v])]
<1>5. InHand(w, clock', made')
  <2> HIDE DEF w
  <2>1. QED
    BY <1>1, <1>2, <1>3, InHandStays
<1>6. v \in Checkpoints /\ v <= clock' /\ made'[v] = list
      /\ (v = clock' \/ v = w.version)
  <2>1. CASE v = clock'
    BY <1>1, <1>2, <2>1
  <2>2. CASE v = w.version /\ v # 0 /\ list = w.held
    BY <1>3, <1>5, <2>2 DEF Writers, InHand, Checkpoints
  <2>3. QED
    BY <1>4, <2>1, <2>2
<1>7. /\ x \in Writers /\ InHand(x, clock', made') /\ x.on /\ x.version = v
      /\ \A i \in DOMAIN x.chain :
           \/ i \in DOMAIN w.chain /\ x.chain[i] = w.chain[i]
           \/ /\ x.chain[i].id = clock' /\ x.chain[i].version = v
              /\ \A j \in DOMAIN x.chain : ~(i < j)
              /\ i \notin DOMAIN w.chain
  <2> HIDE DEF w
  <2>1. x = [on |-> TRUE, last |-> clock', version |-> v, held |-> list,
             chain |-> Append(w.chain, [id |-> clock', parent |-> w.last,
                                        version |-> v])]
    OBVIOUS
  <2> HIDE DEF x
  <2>2. /\ w \in Writers /\ clock' \in Checkpoints /\ InHand(w, clock', made')
        /\ v \in Checkpoints /\ v <= clock' /\ list \in MessageLists
        /\ made'[clock'] = list /\ made'[v] = list
    BY <1>1, <1>2, <1>3, <1>5, <1>6
  <2>3. QED
    BY <2>1, <2>2, HandsOver
<1>8. ASSUME NEW k \in Stored(t)
      PROVE  /\ k \in Nat /\ k < clock' /\ rows[t][k].version \in Nat
             /\ rows[t][k].version <= v
  <2>1. k \in Nat /\ k <= clock /\ rows[t][k].version \in 1..clock
    BY <1>3 DEF Tabled, Kept, Stored, Checkpoints
  <2>2. rows[t][k].version <= w.version
    BY <1>1, <1>3 DEF Follows
  <2>3. QED
    BY <1>1, <1>6, <2>1, <2>2
<1>9. ASSUME NEW i \in DOMAIN w.chain
      PROVE  /\ w.chain[i].id \in Nat /\ w.chain[i].id < clock'
             /\ w.chain[i].version \in Nat /\ w.chain[i].version <= v
  <2>1. w.chain[i] \in Jobs
    BY <1>3 DEF Writers
  <2>2. /\ w.chain[i].id \in Nat /\ w.chain[i].version \in Nat
        /\ w.chain[i].id <= clock /\ w.chain[i].version <= clock
    BY <1>3, <2>1 DEF Jobs, Checkpoints, InHand
  <2>3. w.chain[i].version <= w.version
    BY <1>1, <1>3 DEF Follows
  <2>4. QED
    BY <1>1, <1>6, <2>2, <2>3
<1>10. Follows(t, x)
  <2> HIDE DEF w, x
  <2>1. v \in Nat
    BY <1>6 DEF Checkpoints
  <2>2. ASSUME NEW i \in DOMAIN x.chain
        PROVE  x.chain[i].version <= v
    BY <1>7, <1>9, <2>1
  <2>3. ASSUME NEW i \in DOMAIN x.chain, NEW k \in Stored(t)
        PROVE  k < x.chain[i].id /\ rows[t][k].version <= x.chain[i].version
    <3>1. CASE i \in DOMAIN w.chain /\ x.chain[i] = w.chain[i]
      BY <1>3, <3>1 DEF Follows
    <3>2. CASE x.chain[i].id = clock' /\ x.chain[i].version = v
      BY <1>8, <3>2
    <3>3. QED
      BY <1>7, <3>1, <3>2
  <2>4. ASSUME NEW i \in DOMAIN x.chain, NEW j \in DOMAIN x.chain, i < j
        PROVE  x.chain[i].id < x.chain[j].id /\ x.chain[i].version <= x.chain[j].version
    <3>1. i \in DOMAIN w.chain /\ x.chain[i] = w.chain[i]
      BY <1>7, <2>4
    <3>2. CASE j \in DOMAIN w.chain /\ x.chain[j] = w.chain[j]
      BY <1>3, <2>4, <3>1, <3>2 DEF Follows
    <3>3. CASE x.chain[j].id = clock' /\ x.chain[j].version = v
      BY <1>9, <3>1, <3>3
    <3>4. QED
      BY <1>7, <3>2, <3>3
  <2>5. QED
    BY <1>7, <1>8, <2>2, <2>3, <2>4 DEF Follows
<1>11. \A u \in Threads : InOrder(u)'
  <2>1. writer' = [writer EXCEPT ![t] = [@ EXCEPT !["run"] = x]]
    BY <1>4
  <2> HIDE DEF x
  <2>2. QED
    BY <1>1, <1>2, <1>7, <1>10, <2>1, RunChanges DEF AllInOrder
<1>12. Apart'
  <2>1. writer'["source"]["run"].on => writer["source"]["run"].on
    BY <1>1, <1>4 DEF StoreInv, DataOK, Shape, Threads
  <2>2. QED
    BY <1>1, <2>1 DEF AllInOrder, Apart, Active
<1>13. QED
  BY <1>11, <1>12 DEF AllInOrder

\* A run puts the first of the checkpoints it has handed over.
LEMMA PutInOrder ==
    ASSUME StoreInv, TablesInv, Calm, AllInOrder, NEW t \in Threads,
           NEW w \in {"run", "late"}, Put(t, w)
    PROVE  AllInOrder'
<1> DEFINE r == writer[t]["run"]
           job == Head(r.chain)
           row == [version |-> job.version, parent |-> job.parent, op |-> NoOp]
           y == [r EXCEPT !.chain = Tail(@)]
<1>1. w = "run"
  <2> SUFFICES ASSUME w = "late" PROVE FALSE
    OBVIOUS
  <2>1. writer[t]["late"] = NoWriter
    BY DEF AllInOrder, InOrder
  <2>2. writer[t]["late"].chain = <<>>
    BY <2>1 DEF NoWriter
  <2>3. writer[t][w].chain # <<>>
    BY DEF Put
  <2>4. QED
    BY <2>2, <2>3
<1>2. /\ r.chain # <<>>
      /\ Persist(t, job.version, made[job.id])
      /\ rows' = [rows EXCEPT ![t] = [@ EXCEPT ![job.id] = row]]
      /\ writer' = [writer EXCEPT ![t] = [@ EXCEPT !["run"] = y]]
      /\ UNCHANGED <<call, clock, made>>
  BY <1>1 DEF Put
<1>3. /\ clock \in 0..LastId /\ clock' \in 0..LastId /\ clock' >= clock
      /\ \A k \in 1..clock : made'[k] = made[k]
  <2>1. clock' = clock /\ made' = made
    BY <1>2
  <2>2. clock \in 0..LastId
    BY DEF StoreInv, DataOK
  <2>3. QED
    BY <2>1, <2>2, StoreAssumption
<1>4. r \in Writers /\ InHand(r, clock, made) /\ Follows(t, r) /\ r.on
  BY <1>2 DEF TablesInv, AllInOrder, InOrder, RunInOrder
<1>5. /\ y \in Writers /\ InHand(y, clock, made)
      /\ job \in Jobs /\ job.id <= clock /\ job.version <= clock
      /\ made[job.id] = made[job.version]
  <2> HIDE DEF r
  <2>1. QED
    BY <1>2, <1>4, HandsEmpty
<1>6. /\ 1 \in DOMAIN r.chain /\ job = r.chain[1]
      /\ y.on = r.on /\ y.version = r.version
      /\ \A i \in DOMAIN y.chain :
           i \in Nat /\ i + 1 \in DOMAIN r.chain /\ 1 < i + 1 /\ y.chain[i] = r.chain[i + 1]
  <2> HIDE DEF r
  <2>1. r.chain \in Seq(Jobs)
    BY <1>4 DEF Writers
  <2>2. y.on = r.on /\ y.version = r.version /\ y.chain = Tail(r.chain)
    BY <1>4 DEF Writers
  <2> HIDE DEF y
  <2>3. QED
    BY <1>2, <2>1, <2>2
<1> HIDE DEF y, job
<1>7. /\ job.id \in Checkpoints /\ job.version \in Checkpoints
      /\ row \in Rows /\ row.version = job.version /\ made[job.id] \in MessageLists
  BY <1>5, StoreAssumption DEF Jobs, Rows, StoreInv, DataOK, Checkpoints
<1>8. \A k \in Stored(t) : k < job.id /\ rows[t][k].version <= job.version
  BY <1>4, <1>6 DEF Follows
<1> HIDE DEF row
<1>9. /\ Tabled(t)' /\ Ordered(t)' /\ Stored(t)' = Stored(t) \cup {job.id}
      /\ rows'[t][job.id] = row
      /\ \A j \in Stored(t) : rows'[t][j] = rows[t][j]
      /\ \A u \in Threads : u # t =>
           rows'[u] = rows[u] /\ log'[u] = log[u] /\ versions'[u] = versions[u]
  <2>1. Stores(t, job.id, row, made[job.id])
    BY <1>2, <1>5, <1>7 DEF Stores
  <2>2. Shape /\ Tabled(t) /\ Ordered(t)
    BY DEF StoreInv, DataOK, AllInOrder, InOrder
  <2>3. QED
    BY <1>3, <1>7, <1>8, <2>1, <2>2, StoringInOrder
<1>16. PICK z : z = y
  OBVIOUS
<1>10. Follows(t, z)'
  <2>1. \A i \in DOMAIN z.chain, k \in Stored(t)' :
          k < z.chain[i].id /\ rows'[t][k].version <= z.chain[i].version
    <3> SUFFICES ASSUME NEW i \in DOMAIN z.chain, NEW k \in Stored(t)'
                 PROVE  k < z.chain[i].id /\ rows'[t][k].version <= z.chain[i].version
      OBVIOUS
    <3>1. CASE k = job.id
      BY <1>4, <1>6, <1>7, <1>9, <1>16, <3>1 DEF Follows
    <3>2. CASE k \in Stored(t)
      BY <1>4, <1>6, <1>9, <1>16, <3>2 DEF Follows
    <3>3. QED
      BY <1>9, <3>1, <3>2
  <2>2. \A i, j \in DOMAIN z.chain : i < j =>
          z.chain[i].id < z.chain[j].id /\ z.chain[i].version <= z.chain[j].version
    <3> SUFFICES ASSUME NEW i \in DOMAIN z.chain, NEW j \in DOMAIN z.chain, i < j
                 PROVE  /\ z.chain[i].id < z.chain[j].id
                        /\ z.chain[i].version <= z.chain[j].version
      OBVIOUS
    <3>1. i + 1 < j + 1
      BY <1>6, <1>16
    <3>2. QED
      BY <1>4, <1>6, <1>16, <3>1 DEF Follows
  <2>3. \A k \in Stored(t)' : rows'[t][k].version <= z.version
    BY <1>4, <1>6, <1>7, <1>9, <1>16 DEF Follows
  <2>4. \A i \in DOMAIN z.chain : z.chain[i].version <= z.version
    BY <1>4, <1>6, <1>16 DEF Follows
  <2>5. QED
    BY <2>1, <2>2, <2>3, <2>4 DEF Follows
<1>11. /\ writer'[t]["run"] = z /\ writer'[t]["late"] = writer[t]["late"]
       /\ \A u \in Threads : u # t => writer'[u] = writer[u]
  BY <1>2, <1>16 DEF StoreInv, DataOK, Shape, TablesInv
<1>12. InOrder(t)'
  <2>1. InHand(z, clock', made') /\ (~z.on => z.chain = <<>>)
    BY <1>2, <1>4, <1>5, <1>6, <1>16
  <2>2. writer[t]["late"] = NoWriter
    BY DEF AllInOrder, InOrder
  <2>3. RunInOrder(t, writer[t]["run"])'
    BY <1>10, <1>11, <2>1 DEF RunInOrder, Follows
  <2>4. QED
    BY <1>9, <1>11, <2>2, <2>3 DEF InOrder
<1>13. \A u \in Threads : InOrder(u)'
  BY <1>3, <1>9, <1>11, <1>12, OthersStay DEF AllInOrder
<1>14. Apart'
  <2>1. writer'["source"]["run"].on = writer["source"]["run"].on
    BY <1>6, <1>11, <1>16 DEF Threads
  <2>2. QED
    BY <1>2, <2>1 DEF AllInOrder, Apart, Active
<1>15. QED
  BY <1>13, <1>14 DEF AllInOrder

\* The steps that leave the tables and the runs alone.
LEMMA RunsRest ==
    ASSUME StoreInv, TablesInv, AllInOrder, UNCHANGED <<rows, log, versions, clock, made>>,
           UNCHANGED writer, Apart'
    PROVE  AllInOrder'
<1>1. clock' \in 0..LastId /\ clock' >= clock
  BY DEF StoreInv, DataOK
<1>2. \A u \in Threads : InOrder(u)'
  BY <1>1, OrderStays DEF AllInOrder
<1>3. QED
  BY <1>2 DEF AllInOrder

\* A run that is over has nothing in hand.
LEMMA NoneInOrder ==
    ASSUME NEW t, NEW c \in 0..LastId, NEW what
    PROVE  InHand(NoWriter, c, what) /\ Follows(t, NoWriter)
<1>1. 0 \in 0..LastId /\ 0 <= c /\ DOMAIN <<>> = {}
  BY StoreAssumption
<1>2. NoWriter = [on |-> FALSE, last |-> 0, version |-> 0, held |-> NoMessages, chain |-> <<>>]
  BY DEF NoWriter
<1>3. QED
  BY <1>1, <1>2 DEF InHand, Follows

LEMMA FinishInOrder ==
    ASSUME StoreInv, TablesInv, AllInOrder, NEW t \in Threads, Finish(t)
    PROVE  AllInOrder'
<1>1. /\ writer' = [writer EXCEPT ![t] = [@ EXCEPT !["run"] = NoWriter]]
      /\ UNCHANGED <<rows, log, versions, call, clock, made>>
  BY DEF Finish, store
<1>2. /\ clock' \in 0..LastId /\ clock' >= clock
      /\ \A k \in 1..clock : made'[k] = made[k]
  BY <1>1 DEF StoreInv, DataOK
<1>3. /\ InHand(NoWriter, clock', made') /\ Follows(t, NoWriter)
      /\ NoWriter.chain = <<>> /\ NoWriter.on = FALSE
  BY <1>2, NoneInOrder DEF NoWriter
<1>4. PICK x : x = NoWriter
  OBVIOUS
<1>5. \A u \in Threads : InOrder(u)'
  BY <1>1, <1>2, <1>3, <1>4, RunChanges DEF AllInOrder
<1>6. Apart'
  <2>1. writer'["source"]["run"].on => writer["source"]["run"].on
    BY <1>1, <1>3 DEF StoreInv, DataOK, Shape, Threads
  <2>2. QED
    BY <1>1, <2>1 DEF AllInOrder, Apart, Active
<1>7. QED
  BY <1>5, <1>6 DEF AllInOrder

LEMMA RunningInOrder ==
    ASSUME StoreInv, TablesInv, Calm, AllInOrder, NEW t \in Threads, Running(t)
    PROVE  AllInOrder'
<1>1. ~Stop(t) /\ ~PutRefused(t)
  BY DEF Stop, PutRefused, Calm
<1>2. ~LateEnds(t)
  BY DEF LateEnds, AllInOrder, InOrder
<1>3. ASSUME NEW w \in {"run", "late"}, PutWrites(t, w)
      PROVE  AllInOrder'
  BY <1>3, RunsRest DEF PutWrites, Active, Apart, AllInOrder
<1>4. QED
  BY <1>1, <1>2, <1>3, BeginInOrder, StepInOrder, PutInOrder, FinishInOrder DEF Running

-----------------------------------------------------------------------------
\* A compaction is stored behind what the thread holds: nothing runs there.
LEMMA ReplaceInOrder ==
    ASSUME StoreInv, TablesInv, Calm, AllInOrder, NEW c \in Calls, NEW summary \in Lists,
           Replace(c, summary), call[c].at = "summarising", UNCHANGED writer
    PROVE  AllInOrder'
<1> DEFINE k == clock'
           row == [version |-> k, parent |-> call[c].from, op |-> OpOf[c]]
           r == writer["source"]["run"]
<1>1. /\ clock' = clock + 1 /\ clock \in 0..LastId /\ clock' \in 0..LastId
      /\ clock' \in Checkpoints /\ clock' >= clock /\ clock \in Nat
      /\ Persist("source", k, summary)
      /\ rows' = [rows EXCEPT !["source"] = [@ EXCEPT ![k] = row]]
      /\ made' = [made EXCEPT ![k] = summary]
  BY StoreAssumption DEF Replace, Room, StoreInv, DataOK, Checkpoints
<1>2. summary \in MessageLists /\ made'[k] = summary
      /\ \A j \in 1..clock : made'[j] = made[j]
  BY <1>1, StoreAssumption DEF MessageLists, StoreInv, DataOK, Checkpoints
<1>3. row \in Rows /\ row.version = k
  BY <1>1 DEF Rows, Ops, StoreInv, DataOK, CallStates
<1>4. /\ Shape /\ Tabled("source") /\ Ordered("source") /\ "source" \in Threads
      /\ r \in Writers /\ InHand(r, clock, made)
      /\ writer["source"]["late"] = NoWriter
  BY DEF StoreInv, DataOK, AllInOrder, InOrder, RunInOrder, Threads, TablesInv
<1>5. ~r.on /\ r.chain = <<>>
  <2>1. Active(c)
    BY DEF Active
  <2>2. QED
    BY <2>1 DEF AllInOrder, Apart, InOrder, RunInOrder, Threads
<1>6. \A j \in Stored("source") : j < k /\ rows["source"][j].version <= k
  <2> SUFFICES ASSUME NEW j \in Stored("source")
               PROVE  j < k /\ rows["source"][j].version <= k
    OBVIOUS
  <2>1. j \in Nat /\ j <= clock /\ rows["source"][j].version \in 1..clock
    BY <1>4 DEF Tabled, Kept, Stored, Checkpoints
  <2>2. QED
    BY <1>1, <2>1
<1> HIDE DEF row
<1>7. /\ Tabled("source")' /\ Ordered("source")'
      /\ \A u \in Threads : u # "source" =>
           rows'[u] = rows[u] /\ log'[u] = log[u] /\ versions'[u] = versions[u]
  <2>1. k \in Checkpoints /\ k <= clock' /\ row.version \in Checkpoints
    BY <1>1, <1>3
  <2>2. Stores("source", k, row, summary)
    BY <1>1, <1>2, <1>3, <2>1 DEF Stores
  <2> HIDE DEF k
  <2>3. \A j \in Stored("source") : j < k /\ rows["source"][j].version <= row.version
    BY <1>3, <1>6
  <2>4. QED
    BY <1>1, <1>2, <1>3, <1>4, <2>1, <2>2, <2>3, StoringInOrder
<1>8. InOrder("source")'
  <2>1. PICK z : z = r
    OBVIOUS
  <2>2. InHand(z, clock', made')
    <3> HIDE DEF r
    <3>1. z \in Writers /\ InHand(z, clock, made)
      BY <1>4, <2>1
    <3>2. QED
      BY <1>1, <1>2, <3>1, InHandStays
  <2>3. RunInOrder("source", writer["source"]["run"])'
    BY <1>5, <2>1, <2>2 DEF RunInOrder, Follows
  <2>4. QED
    BY <1>4, <1>7, <2>3 DEF InOrder
<1>9. \A u \in Threads : InOrder(u)'
  <2>1. \A u \in Threads : writer'[u] = writer[u]
    OBVIOUS
  <2>2. QED
    BY <1>1, <1>2, <1>4, <1>7, <1>8, <2>1, OthersStay DEF AllInOrder
<1>10. Apart'
  BY <1>5 DEF Apart
<1>11. QED
  BY <1>9, <1>10 DEF AllInOrder

LEMMA CompactingInOrder ==
    ASSUME StoreInv, TablesInv, Calm, AllInOrder, NEW c \in Calls, Compacting(c)
    PROVE  AllInOrder'
<1>1. UNCHANGED writer
  BY DEF Compacting, Compact, ReadCommitted, PrepareRow, PrepareWrites, Commit,
         CommitRefused, Answer
<1>2. CASE Compact(c)
  <2>1. ~writer["source"]["run"].on
    BY <1>2 DEF Compact, Calm
  <2>2. Apart'
    BY <1>1, <2>1 DEF Apart
  <2>3. QED
    BY <1>1, <1>2, <2>2, RunsRest DEF Compact, store
<1>3. ASSUME ~Compact(c), UNCHANGED <<rows, log, versions, clock, made>>
      PROVE  AllInOrder'
  <2>1. Active(c)
    BY <1>3 DEF Active, Compacting, ReadCommitted, PrepareRow, PrepareWrites, Commit,
                CommitRefused, Answer
  <2>2. Apart'
    BY <1>1, <2>1 DEF AllInOrder, Apart
  <2>3. QED
    BY <1>1, <1>3, <2>2, RunsRest
<1>4. ASSUME NEW summary \in Lists, Replace(c, summary), Commit(c)
      PROVE  AllInOrder'
  BY <1>1, <1>4, ReplaceInOrder DEF Commit
<1>5. QED
  BY <1>2, <1>3, <1>4 DEF Compacting, Compact, ReadCommitted, PrepareRow, PrepareWrites,
                          Commit, CommitRefused, Answer, store

-----------------------------------------------------------------------------
\* A thread where nothing runs.
LEMMA IdleInOrder ==
    ASSUME NEW t \in Threads, Tabled(t)', Ordered(t)', writer'[t] = Idle,
           clock' \in 0..LastId
    PROVE  InOrder(t)'
<1>1. 0 \in 0..LastId /\ 0 <= clock' /\ DOMAIN <<>> = {}
  BY StoreAssumption
<1>2. NoWriter = [on |-> FALSE, last |-> 0, version |-> 0, held |-> NoMessages, chain |-> <<>>]
  BY DEF NoWriter
<1>3. writer'[t]["run"] = NoWriter /\ writer'[t]["late"] = NoWriter
  BY DEF Idle
<1>4. InHand(NoWriter, clock', made')
  BY <1>1, <1>2 DEF InHand
<1>5. RunInOrder(t, writer[t]["run"])'
  BY <1>1, <1>2, <1>3, <1>4 DEF RunInOrder, Follows
<1>6. QED
  BY <1>3, <1>5 DEF InOrder

LEMMA ForkInOrder ==
    ASSUME StoreInv, TablesInv, AllInOrder, fork.at = "checked",
           UNCHANGED <<writer, call, clock, made>>,
           rows'["source"] = rows["source"], log'["source"] = log["source"],
           versions'["source"] = versions["source"], Tabled("copy")', Ordered("copy")'
    PROVE  AllInOrder'
<1>1. clock' \in 0..LastId /\ clock' >= clock
  BY DEF StoreInv, DataOK
<1>2. writer'["copy"] = Idle
  BY DEF TablesInv, SidesOK, Idle
<1>3. InOrder("copy")'
  BY <1>1, <1>2, IdleInOrder DEF Threads
<1>4. InOrder("source")'
  BY <1>1, OrderStays DEF AllInOrder, Threads
<1>5. QED
  BY <1>3, <1>4 DEF AllInOrder, Apart, Active, Threads

LEMMA CloneThreadInOrder ==
    ASSUME StoreInv, TablesInv, AllInOrder, CloneThread
    PROVE  AllInOrder'
<1>1. /\ rows'["copy"] = rows["source"] /\ rows'["source"] = rows["source"]
      /\ log'["copy"] = log["source"] /\ log'["source"] = log["source"]
      /\ versions'["copy"] = versions["source"] /\ versions'["source"] = versions["source"]
  BY DEF CloneThread, StoreInv, DataOK, Shape, Threads
<1>2. UNCHANGED <<writer, call, clock, made>> /\ fork.at = "checked"
  BY DEF CloneThread
<1>3. Tabled("source") /\ Ordered("source")
  BY DEF AllInOrder, InOrder, Threads
<1>4. Stored("copy")' = Stored("source")
  BY <1>1 DEF Stored
<1>5. \A k : Read("copy", k)' = Read("source", k) /\ PlaceOf("copy", k)' = PlaceOf("source", k)
  BY <1>1 DEF Read, PlaceOf
<1>6. Tabled("copy")'
  BY <1>1, <1>2, <1>3, <1>4, <1>5 DEF Tabled, EndIsNamed, Kept
<1>7. Ordered("copy")'
  BY <1>1, <1>3, <1>4, <1>5 DEF Ordered
<1>8. QED
  BY <1>1, <1>2, <1>6, <1>7, ForkInOrder

\* The ancestors of a checkpoint name no later place of the log than it does, so a
\* clone that ends there reads them all (cloneThreadUntilCheckpoint).
LEMMA CloneUntilInOrder ==
    ASSUME StoreInv, TablesInv, AllInOrder, CloneUntilCheckpoint
    PROVE  AllInOrder'
<1> DEFINE chain == Ancestry[fork.upTo]
           named == {rows["source"][k].version : k \in chain}
           l == log["source"]
           top == fork.upTo
           n == Through
<1>1. /\ top \in chain /\ chain \subseteq Stored("source")
      /\ \A k \in chain : k <= top
      /\ n \in 0..Len(l)
      /\ rows'["copy"] = [k \in Checkpoints |->
                            IF k \in chain THEN rows["source"][k] ELSE NoRow]
      /\ rows'["source"] = rows["source"]
      /\ log'["copy"] = SubSeq(l, 1, n) /\ log'["source"] = l
      /\ versions'["copy"] = [v \in Checkpoints |->
                                IF v \in named THEN versions["source"][v] ELSE 0]
      /\ versions'["source"] = versions["source"]
      /\ Stored("copy")' = chain
  BY ChainCopied
<1>2. n = PlaceOf("source", top)
  BY DEF Through, PlaceOf
<1> HIDE DEF chain, top
<1>3. UNCHANGED <<writer, call, clock, made>> /\ fork.at = "checked"
  BY DEF CloneUntilCheckpoint, CopyChain
<1>4. /\ Tabled("source") /\ Ordered("source") /\ Kept("source")
      /\ l \in Seq(Entries) /\ Topped(l) /\ versions["source"] \in [Checkpoints -> Nat]
  BY DEF AllInOrder, InOrder, Threads, Tabled, EndIsNamed
<1> HIDE DEF n
<1>5. /\ log'["copy"] \in Seq(Entries) /\ Len(log'["copy"]) = n
      /\ Topped(log'["copy"])
      /\ \A i \in 0..n : ItemsThrough(log'["copy"], i) = ItemsThrough(l, i)
  BY <1>1, <1>4, Cutting
<1>6. ASSUME NEW k \in chain
      PROVE  /\ k \in Nat /\ k \in Stored("source") /\ k <= clock
             /\ rows'["copy"][k] = rows["source"][k]
             /\ rows["source"][k].version \in Checkpoints
             /\ rows["source"][k].version \in 1..clock
             /\ made[k] = made[rows["source"][k].version] /\ Read("source", k) = made[k]
             /\ PlaceOf("source", k) \in 0..n /\ PlaceOf("source", k) <= n
  <2>1. /\ k \in Stored("source") /\ k \in Checkpoints /\ k \in Nat
        /\ rows'["copy"][k] = rows["source"][k]
    BY <1>1 DEF Stored, Checkpoints
  <2>2. /\ k <= clock /\ rows["source"][k].version \in 1..clock
        /\ made[k] = made[rows["source"][k].version] /\ Read("source", k) = made[k]
    BY <1>4, <2>1 DEF Kept
  <2>3. rows["source"][k].version \in Checkpoints
    BY <2>2, StoreAssumption DEF Checkpoints, StoreInv, DataOK
  <2>4. PlaceOf("source", k) \in Nat
    BY <1>4, <2>3 DEF PlaceOf
  <2>5. PlaceOf("source", k) <= n
    BY <1>1, <1>2, <1>4, <2>1 DEF Ordered
  <2>6. n \in Nat
    BY <1>1
  <2>7. QED
    BY <2>1, <2>2, <2>3, <2>4, <2>5, <2>6
<1>7. ASSUME NEW k \in chain
      PROVE  /\ PlaceOf("copy", k)' = PlaceOf("source", k)
             /\ Read("copy", k)' = made[k]
  <2> DEFINE v == rows["source"][k].version
  <2>1. v \in Checkpoints /\ v \in named /\ rows'["copy"][k].version = v
    BY <1>6
  <2>2. versions'["copy"][v] = versions["source"][v]
    BY <1>1, <2>1
  <2>3. PlaceOf("copy", k)' = PlaceOf("source", k)
    BY <2>1, <2>2 DEF PlaceOf
  <2>4. Read("copy", k)' = ItemsThrough(log'["copy"], PlaceOf("source", k))
    BY <2>1, <2>2 DEF Read, PlaceOf
  <2>5. ItemsThrough(l, PlaceOf("source", k)) = made[k]
    BY <1>6 DEF Read, PlaceOf
  <2>6. QED
    BY <1>5, <1>6, <2>3, <2>4, <2>5
<1>8. Kept("copy")'
  BY <1>1, <1>3, <1>6, <1>7 DEF Kept
<1>9. EndIsNamed("copy")'
  <2>1. ASSUME NEW v \in Checkpoints
        PROVE  versions'["copy"][v] <= n
    <3>1. CASE v \in named
      <4>1. PICK k \in chain : v = rows["source"][k].version
        BY <3>1
      <4>2. PlaceOf("source", k) <= n
        BY <1>6
      <4>3. QED
        BY <1>1, <3>1, <4>1, <4>2 DEF PlaceOf
    <3>2. CASE v \notin named
      BY <1>1, <3>2
    <3>3. QED
      BY <3>1, <3>2
  <2>2. PICK k \in chain : k = top
    BY <1>1
  <2>3. /\ rows["source"][k].version \in Checkpoints
        /\ rows'["copy"][k] = rows["source"][k]
        /\ PlaceOf("copy", k)' = n
    BY <1>2, <1>6, <1>7, <2>2
  <2>4. versions'["copy"][rows["source"][k].version] = n
    BY <2>3 DEF PlaceOf
  <2>5. QED
    BY <1>5, <2>1, <2>3, <2>4 DEF EndIsNamed
<1>10. Tabled("copy")'
  <2>1. TablesInv'
    BY CloneUntilGoes
  <2>2. /\ rows'["copy"] \in [Checkpoints -> Rows] /\ log'["copy"] \in Seq(Entries)
        /\ versions'["copy"] \in [Checkpoints -> Nat]
    BY <2>1 DEF TablesInv, TableOK, Threads
  <2>3. QED
    BY <1>8, <1>9, <2>2 DEF Tabled
<1>11. Ordered("copy")'
  <2>1. ASSUME NEW i \in chain, NEW j \in chain, i <= j
        PROVE  /\ rows'["copy"][i].version <= rows'["copy"][j].version
               /\ PlaceOf("copy", i)' <= PlaceOf("copy", j)'
    BY <1>4, <1>6, <1>7, <2>1 DEF Ordered
  <2>2. ASSUME NEW i \in chain, \A j \in chain : j <= i
        PROVE  PlaceOf("copy", i)' = n
    <3>1. i = top
      <4>1. top \in chain /\ i <= top /\ top <= i
        BY <1>1, <2>2
      <4>2. top \in Nat /\ i \in Nat
        BY <1>6, <4>1
      <4>3. QED
        BY <4>1, <4>2
    <3>2. PlaceOf("source", i) = n
      BY <1>2, <3>1
    <3>3. QED
      BY <1>7, <3>2
  <2>3. QED
    <3>1. Stored("copy")' = chain /\ Len(log'["copy"]) = n
      BY <1>1, <1>5
    <3>2. QED
      BY <2>1, <2>2, <3>1 DEF Ordered
<1>12. QED
  BY <1>1, <1>3, <1>10, <1>11, ForkInOrder

LEMMA ForkingInOrder ==
    ASSUME StoreInv, TablesInv, AllInOrder, Forking
    PROVE  AllInOrder'
<1>1. CASE ForkBegins \/ CloneThrows
  <2>1. UNCHANGED <<rows, log, versions, clock, made, writer, call>>
    BY <1>1 DEF ForkBegins, CloneThrows, store
  <2>2. Apart'
    BY <2>1 DEF AllInOrder, Apart, Active
  <2>3. QED
    BY <2>1, <2>2, RunsRest
<1>2. QED
  BY <1>1, CloneThreadInOrder, CloneUntilInOrder DEF Forking

LEMMA CrashInOrder ==
    ASSUME StoreInv, TablesInv, AllInOrder, Crash
    PROVE  AllInOrder'
<1>1. /\ UNCHANGED <<rows, log, versions, clock, made>>
      /\ writer' = [t \in Threads |-> Idle]
  BY DEF Crash, store, Idle
<1>2. clock \in 0..LastId /\ clock' \in 0..LastId /\ clock' >= clock
  BY <1>1 DEF StoreInv, DataOK
<1>3. ASSUME NEW t \in Threads
      PROVE  InOrder(t)'
  <2>1. Tabled(t)' /\ Ordered(t)'
    BY <1>1, <1>2, TabledStays DEF AllInOrder, InOrder
  <2>2. QED
    BY <1>1, <1>2, <2>1, IdleInOrder
<1>4. ~writer'["source"]["run"].on
  BY <1>1 DEF Idle, NoWriter, Threads
<1>5. QED
  BY <1>3, <1>4 DEF AllInOrder, Apart

LEMMA OrderInitially == Init => OrderInv
<1> SUFFICES ASSUME Init PROVE AllInOrder
  BY DEF OrderInv, AllInOrder, Apart
<1>1. StoreInv /\ TablesInv
  BY StoreInitially, TablesInitially
<1>2. \A t \in Threads : Stored(t) = {} /\ writer[t]["run"] = NoWriter
                          /\ writer[t]["late"] = NoWriter
  BY DEF Init, Stored
<1>3. ASSUME NEW t \in Threads
      PROVE  Tabled(t) /\ Ordered(t)
  <2>1. /\ rows[t] \in [Checkpoints -> Rows] /\ log[t] \in Seq(Entries)
        /\ versions[t] \in [Checkpoints -> Nat]
    BY <1>1 DEF TablesInv, TableOK
  <2>2. log[t] = <<>> /\ \A v \in Checkpoints : versions[t][v] = 0
    BY DEF Init
  <2>3. Len(<<>>) = 0 /\ 1 \in Checkpoints
    BY StoreAssumption DEF Checkpoints
  <2>4. Topped(<<>>)
    BY DEF Topped, ChangesOf
  <2>5. QED
    BY <1>2, <2>1, <2>2, <2>3, <2>4 DEF Tabled, Ordered, EndIsNamed, Kept
<1>4. ASSUME NEW t \in Threads
      PROVE  InOrder(t)
  <2>1. InHand(NoWriter, clock, made) /\ Follows(t, NoWriter)
    BY <1>1, NoneInOrder DEF StoreInv, DataOK
  <2>2. QED
    <3>1. NoWriter.chain = <<>>
      BY DEF NoWriter
    <3>2. QED
      BY <1>2, <1>3, <2>1, <3>1 DEF InOrder, RunInOrder
<1>5. Apart
  BY <1>2 DEF Apart, NoWriter, Threads
<1>6. QED
  BY <1>4, <1>5 DEF AllInOrder

\* In calm, everything is stored and copied in order.
THEOREM OrderInductive == Spec => []OrderInv
<1>1. StoreInv /\ TablesInv /\ OrderInv /\ [Next]_vars => OrderInv'
  <2> SUFFICES ASSUME StoreInv, TablesInv, OrderInv, [Next]_vars, Calm'
               PROVE  AllInOrder'
    BY DEF OrderInv, AllInOrder, Apart
  <2>1. Calm
    BY CalmStays
  <2>2. AllInOrder
    BY <2>1 DEF OrderInv, AllInOrder, Apart
  <2>3. CASE UNCHANGED vars
    <3>1. Apart'
      BY <2>2, <2>3 DEF vars, AllInOrder, Apart, Active
    <3>2. QED
      BY <2>2, <2>3, <3>1, RunsRest DEF vars, store
  <2>4. QED
    BY <2>1, <2>2, <2>3, RunningInOrder, CompactingInOrder, ForkingInOrder, CrashInOrder
       DEF Next
<1>2. QED
  BY <1>1, OrderInitially, StoreInvariant, TablesInductive, PTL DEF Spec

LEMMA StoreTyped ==
    ASSUME StoreInv, TablesInv
    PROVE  TypeOK
<1>1. /\ rows = [t \in Threads |-> rows[t]] /\ versions = [t \in Threads |-> versions[t]]
      /\ messages = [t \in Threads |-> messages[t]]
      /\ fork \in Forks /\ writes \in [Threads -> SUBSET Checkpoints]
  BY DEF StoreInv, DataOK, Shape, TablesInv, SidesOK
<1>2. ASSUME NEW t \in Threads
      PROVE  /\ rows[t] \in [Checkpoints -> Rows] /\ versions[t] \in [Checkpoints -> Nat]
             /\ messages[t] \in MessageLists
  <2>1. TableOK(t)
    BY DEF TablesInv
  <2>2. ItemsThrough(log[t], Len(log[t])) \in MessageLists
    BY <2>1, ItemsTyped DEF TableOK, Reached
  <2>3. QED
    BY <2>1, <2>2 DEF TableOK
<1>3. rows \in [Threads -> [Checkpoints -> Rows]]
  BY <1>1, <1>2
<1>4. versions \in [Threads -> [Checkpoints -> Nat]]
  BY <1>1, <1>2
<1>5. messages \in [Threads -> MessageLists]
  BY <1>1, <1>2
<1>6. clock \in 0..LastId /\ \A c \in Calls : call[c].at \in Places
  BY DEF StoreInv, DataOK, CallStates
<1>7. QED
  BY <1>1, <1>3, <1>4, <1>5, <1>6 DEF TypeOK, Rows, MessageLists, Forks, Places

\* In calm the latest checkpoint names the end of the log.
LEMMA LatestIsShown ==
    ASSUME StoreInv, TablesInv, NEW t \in Threads, InOrder(t), Latest(t) # 0
    PROVE  ItemsThrough(log[t], LatestThrough(t)) = Read(t, Latest(t))
<1> DEFINE k == Latest(t)
<1>1. k \in Stored(t) /\ \A j \in Stored(t) : k >= j
  BY LatestIsStored
<1>2. Stored(t) \subseteq Nat
  BY DEF Stored, Checkpoints
<1>3. PlaceOf(t, k) = Len(log[t])
  <2> HIDE DEF k
  <2>1. \A j \in Stored(t) : j <= k
    BY <1>1, <1>2
  <2>2. QED
    BY <1>1, <2>1 DEF InOrder, Ordered
<1>4. LatestThrough(t) = Len(log[t])
  <2>1. /\ log[t] \in Seq(Entries) /\ versions[t] \in [Checkpoints -> Nat]
        /\ Reached(t) /\ EndIsNamed(t)
    BY DEF TablesInv, TableOK, InOrder, Tabled
  <2>2. QED
    BY <2>1, LatestReaches
<1>5. QED
  BY <1>3, <1>4 DEF Read, PlaceOf

\* What is stored is of its types, and what is read, copied and shown is what was put,
\* for any runs, compactions, clones and crashes (prisma-saver.ts, message-state.ts,
\* compaction-controller.ts, threads.ts).
THEOREM StoreIsSound == Spec => []StoreSound
<1>1. StoreInv /\ TablesInv /\ OrderInv => StoreSound
  <2> SUFFICES ASSUME StoreInv, TablesInv, OrderInv PROVE StoreSound
    OBVIOUS
  <2>1. TypeOK
    BY StoreTyped
  <2>2. ShownIsLogged
    BY DEF ShownIsLogged, TablesInv, TableOK
  <2>3. CopyReadsWhatWasPut
    BY DEF CopyReadsWhatWasPut, OrderInv, Calm, InOrder, Tabled, Kept, Threads
  <2>4. ShownIsLatest
    BY LatestIsShown DEF ShownIsLatest, OrderInv, Calm
  <2>5. QED
    BY <2>1, <2>2, <2>3, <2>4 DEF StoreSound
<1>2. QED
  BY <1>1, StoreInvariant, TablesInductive, OrderInductive, PTL
=============================================================================
