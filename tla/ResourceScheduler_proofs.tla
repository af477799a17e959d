---------------------- MODULE ResourceScheduler_proofs ----------------------
(***************************************************************************)
(* Proofs about ResourceScheduler, for any calls, runs, windows, sessions  *)
(* and situations to begin with.                                           *)
(*                                                                         *)
(* NoTwoHands is not inductive: it has to be known that a call that acts   *)
(* is first in the lane of the hands (PlaceOK), and that a process that    *)
(* was left behind is in quarantine (HandsOK), so that nobody gets to work *)
(* beside it.  That an action meets what its caller has seen rests on the  *)
(* epoch of a resource: a look that is as young as the epoch shows what    *)
(* there is, and no process is at work on it (LooksOK).                    *)
(*                                                                         *)
(* Most steps only bring calls to their end, or one call forward: RestStep *)
(* and GoStep say once what those keep.                                    *)
(***************************************************************************)
EXTENDS ResourceScheduler, FiniteSetTheorems, TLAPS

\* Where a call holds its resource, and where the hands too.
Holding == {"waiting", "recording", "acting", "watching", "reading", "surveying"}
Handling == {"recording", "acting", "watching"}

\* Where it goes by what it has seen of its resource.
Looking == {"asked", "waiting", "recording", "reading", "surveying", "watching"}

In(s, c) == \E i \in DOMAIN s : s[i] = c

CallRecords(R) ==
    [at : Places, op : {"none", "observe", "execute"}, res : R \cup {"none"},
     epoch : Nat, seen : Nat, session : Calls \cup {NoSession}, sends : 0..2,
     hand : {"none", "sent", "landed"}]
PlaceRecords(R) ==
    [call : [Calls -> CallRecords(R)], lane : [R -> Seq(Calls)], hands : Seq(Calls)]

\* A call that goes on is where its turn is.
PlaceOK(R, w, c) ==
    /\ w.call[c].at \notin {"idle", "returned"} => w.call[c].res \in R
    /\ w.call[c].at \in Holding => FirstIn(w.lane[w.call[c].res], c)
    /\ w.call[c].at \in {"queued", "surveyQueued"} => In(w.lane[w.call[c].res], c)
    /\ w.call[c].at \in Handling => FirstIn(w.hands, c)

PlacesOK(R, w) == w \in PlaceRecords(R) /\ \A c \in Calls : PlaceOK(R, w, c)

\* A process that may change the desktop is that of the call with the hands, or
\* was left behind by one that failed.
HandsOK ==
    /\ \A c \in Calls :
         call[c].hand # "none" => \/ call[c].at = "acting"
                                  \/ call[c].at = "returned" /\ <<"helper", c>> \in quarantines
    /\ \A c, d \in Calls :
         call[c].hand # "none" /\ (call[d].at \in Handling \/ call[d].hand # "none") => c = d

\* A look at a resource is no younger than its epoch; in its epoch it shows what
\* there is, and nothing is under way that may change it.
Sent(r) == \E c \in Calls : call[c].hand = "sent" /\ call[c].res = r
Current(x) ==
    /\ x.epoch <= epoch[x.res]
    /\ x.epoch = epoch[x.res] => x.seen = desk[x.res] /\ ~Sent(x.res)

LooksOK ==
    /\ \A o \in states : Current(o)
    /\ \A c \in Calls :
         /\ call[c].at \in Looking
              => Current(call[c])
         /\ call[c].at = "queued" /\ call[c].op = "execute" => Current(call[c])
         /\ call[c].at \in Holding => call[c].epoch = epoch[call[c].res]
         /\ call[c].at = "identifying" => call[c].op = "observe"

SessionsOK ==
    /\ \A s \in active \cup aborted : call[s].at = "returned"
    /\ \A c \in Calls :
         call[c].at = "recording" /\ call[c].session \notin aborted
           => IsEnabled /\ call[c].session \in granted /\ service = "open"
    /\ enabled => desired
    /\ service # "open" => ~desired
    /\ disabling # {} => ~enabled /\ active \subseteq disabling

IInv == TypeOK /\ PlacesOK(Resources, Now) /\ HandsOK /\ LooksOK /\ SessionsOK /\ ClosedIsQuiet

-----------------------------------------------------------------------------
(* Lanes *)

LEMMA FirstOfAppend ==
    ASSUME NEW s \in Seq(Calls), NEW c \in Calls, NEW d
    PROVE  /\ Append(s, c) \in Seq(Calls) /\ In(Append(s, c), c)
           /\ In(s, d) => In(Append(s, c), d)
           /\ FirstIn(s, d) => FirstIn(Append(s, c), d)
           /\ FirstIn(s, d) => In(s, d)
<1>1. /\ Append(s, c) \in Seq(Calls) /\ Len(s) \in Nat /\ DOMAIN s = 1..Len(s)
      /\ DOMAIN Append(s, c) = 1..(Len(s) + 1) /\ Append(s, c)[Len(s) + 1] = c
      /\ \A i \in 1..Len(s) : Append(s, c)[i] = s[i]
  OBVIOUS
<1>2. In(Append(s, c), c) /\ (In(s, d) => In(Append(s, c), d))
  BY <1>1 DEF In
<1>3. s # <<>> => Len(s) >= 1 /\ Head(s) = s[1]
  OBVIOUS
<1>4. FirstIn(s, d) => In(s, d)
  BY <1>1, <1>3 DEF FirstIn, In
<1>5. Append(s, c) # <<>> /\ Head(Append(s, c)) = Append(s, c)[1]
  OBVIOUS
<1>6. FirstIn(s, d) => FirstIn(Append(s, c), d)
  BY <1>1, <1>3, <1>5 DEF FirstIn
<1>7. QED
  BY <1>1, <1>2, <1>4, <1>6

LEMMA InTail ==
    ASSUME NEW s \in Seq(Calls), s # <<>>, NEW d, In(s, d), ~FirstIn(s, d)
    PROVE  In(Tail(s), d)
<1>1. /\ Len(s) \in Nat /\ Len(s) >= 1 /\ DOMAIN s = 1..Len(s) /\ Head(s) = s[1]
      /\ DOMAIN Tail(s) = 1..(Len(s) - 1)
      /\ \A i \in 1..(Len(s) - 1) : Tail(s)[i] = s[i + 1]
  OBVIOUS
<1>2. PICK i \in 1..Len(s) : s[i] = d
  BY <1>1 DEF In
<1>3. i # 1
  BY <1>1, <1>2 DEF FirstIn
<1>4. i - 1 \in 1..(Len(s) - 1) /\ Tail(s)[i - 1] = d
  BY <1>1, <1>2, <1>3
<1>5. QED
  BY <1>1, <1>4 DEF In

\* A call whose work is over leaves the others where they are.
LEMMA LeavePlaces ==
    ASSUME NEW w, PlacesOK(Resources, w), NEW c \in Calls
    PROVE  LET x == Leave(w, c, "returned") IN
           /\ PlacesOK(Resources, x)
           /\ x.call = [w.call EXCEPT ![c].at = "returned"]
<1> DEFINE x == Leave(w, c, "returned")
<1>1. /\ w.call \in [Calls -> CallRecords(Resources)]
      /\ w.lane \in [Resources -> Seq(Calls)] /\ w.hands \in Seq(Calls)
      /\ \A d \in Calls : PlaceOK(Resources, w, d)
  BY DEF PlacesOK, PlaceRecords
<1>2. /\ x.call = [w.call EXCEPT ![c].at = "returned"]
      /\ x.lane = [r \in Resources |-> IF FirstIn(w.lane[r], c) THEN Tail(w.lane[r])
                                                                ELSE w.lane[r]]
      /\ x.hands = IF FirstIn(w.hands, c) THEN Tail(w.hands) ELSE w.hands
      /\ x = [call |-> x.call, lane |-> x.lane, hands |-> x.hands]
  BY DEF Leave
<1> HIDE DEF x
<1>3. \A s \in Seq(Calls) : s # <<>> => Tail(s) \in Seq(Calls)
  OBVIOUS
<1>4. x.call \in [Calls -> CallRecords(Resources)]
  <2>1. \A y \in CallRecords(Resources) : [y EXCEPT !.at = "returned"] \in CallRecords(Resources)
    BY DEF CallRecords, Places
  <2>2. QED
    BY <1>1, <1>2, <2>1
<1>5. x.lane \in [Resources -> Seq(Calls)] /\ x.hands \in Seq(Calls)
  BY <1>1, <1>2, <1>3 DEF FirstIn
<1>6. ASSUME NEW d \in Calls PROVE PlaceOK(Resources, x, d)
  <2>1. CASE d = c
    <3>1. x.call[d].at = "returned"
      BY <1>1, <1>2, <2>1 DEF CallRecords
    <3>2. QED
      BY <3>1 DEF PlaceOK, Holding, Handling
  <2>2. CASE d # c
    <3>1. x.call[d] = w.call[d]
      BY <1>1, <1>2, <2>2
    <3>2. ASSUME NEW s \in Seq(Calls) PROVE FirstIn(s, d) => ~FirstIn(s, c)
      BY <2>2 DEF FirstIn
    <3>3. ASSUME NEW r \in Resources
          PROVE  /\ FirstIn(w.lane[r], d) => FirstIn(x.lane[r], d)
                 /\ In(w.lane[r], d) => In(x.lane[r], d)
      <4>1. w.lane[r] \in Seq(Calls)
        BY <1>1
      <4>2. CASE FirstIn(w.lane[r], c)
        <5>1. x.lane[r] = Tail(w.lane[r]) /\ w.lane[r] # <<>> /\ ~FirstIn(w.lane[r], d)
          BY <1>2, <2>2, <4>2 DEF FirstIn
        <5>2. QED
          BY <4>1, <5>1, InTail
      <4>3. CASE ~FirstIn(w.lane[r], c)
        BY <1>2, <4>3
      <4>4. QED
        BY <4>2, <4>3
    <3>4. FirstIn(w.hands, d) => FirstIn(x.hands, d)
      BY <1>1, <1>2, <3>2
    <3>5. PlaceOK(Resources, w, d)
      BY <1>1
    <3>6. QED
      BY <3>1, <3>3, <3>4, <3>5 DEF PlaceOK, Holding, Handling
  <2>3. QED
    BY <2>1, <2>2
<1>7. x \in PlaceRecords(Resources)
  BY <1>2, <1>4, <1>5 DEF PlaceRecords
<1>8. QED
  BY <1>2, <1>6, <1>7 DEF PlacesOK, x

\* Those whose signal is aborted before their turn leave the others where they are.
LEMMA RejectPlaces ==
    ASSUME NEW w, PlacesOK(Resources, w), NEW S
    PROVE  LET x == Reject(w, S) IN
           /\ PlacesOK(Resources, x)
           /\ \A d \in Calls :
                \/ x.call[d] = w.call[d] /\ ~(d \in S /\ w.call[d].at \in {"queued", "waiting"})
                \/ /\ x.call[d] = [w.call[d] EXCEPT !.at = "returned"]
                   /\ w.call[d].at \in {"queued", "waiting"}
<1> DEFINE x == Reject(w, S)
           hit == {c \in S : w.call[c].at \in {"queued", "waiting"}}
<1>1. /\ w.call \in [Calls -> CallRecords(Resources)]
      /\ w.lane \in [Resources -> Seq(Calls)] /\ w.hands \in Seq(Calls)
      /\ \A d \in Calls : PlaceOK(Resources, w, d)
  BY DEF PlacesOK, PlaceRecords
<1>2. /\ x.call = [c \in Calls |-> IF c \in hit THEN [w.call[c] EXCEPT !.at = "returned"]
                                   ELSE w.call[c]]
      /\ x.lane = [r \in Resources |-> IF \E c \in hit : FirstIn(w.lane[r], c)
                                       THEN Tail(w.lane[r]) ELSE w.lane[r]]
      /\ x.hands = w.hands
      /\ x = [call |-> x.call, lane |-> x.lane, hands |-> x.hands]
  BY DEF Reject
<1> HIDE DEF x
<1>3. \A s \in Seq(Calls) : s # <<>> => Tail(s) \in Seq(Calls)
  OBVIOUS
<1>4. x.call \in [Calls -> CallRecords(Resources)]
  <2>1. \A y \in CallRecords(Resources) : [y EXCEPT !.at = "returned"] \in CallRecords(Resources)
    BY DEF CallRecords, Places
  <2>2. QED
    BY <1>1, <1>2, <2>1
<1>5. x.lane \in [Resources -> Seq(Calls)] /\ x.hands \in Seq(Calls)
  BY <1>1, <1>2, <1>3 DEF FirstIn
<1>6. ASSUME NEW d \in Calls PROVE PlaceOK(Resources, x, d)
  <2>1. CASE d \in hit
    <3>1. x.call[d].at = "returned"
      BY <1>1, <1>2, <2>1 DEF CallRecords
    <3>2. QED
      BY <3>1 DEF PlaceOK, Holding, Handling
  <2>2. CASE d \notin hit
    <3>1. x.call[d] = w.call[d]
      BY <1>2, <2>2
    <3>2. ASSUME NEW r \in Resources
          PROVE  /\ FirstIn(w.lane[r], d) => FirstIn(x.lane[r], d)
                 /\ In(w.lane[r], d) => In(x.lane[r], d)
      <4>1. w.lane[r] \in Seq(Calls)
        BY <1>1
      <4>2. ASSUME NEW c \in hit, FirstIn(w.lane[r], c)
            PROVE  /\ FirstIn(w.lane[r], d) => FirstIn(x.lane[r], d)
                   /\ In(w.lane[r], d) => In(x.lane[r], d)
        <5>1. x.lane[r] = Tail(w.lane[r]) /\ w.lane[r] # <<>> /\ ~FirstIn(w.lane[r], d)
          BY <1>2, <2>2, <4>2 DEF FirstIn
        <5>2. QED
          BY <4>1, <5>1, InTail
      <4>3. CASE ~\E c \in hit : FirstIn(w.lane[r], c)
        BY <1>2, <4>3
      <4>4. QED
        BY <4>2, <4>3
    <3>3. PlaceOK(Resources, w, d)
      BY <1>1
    <3>4. QED
      BY <1>2, <3>1, <3>2, <3>3 DEF PlaceOK, Holding, Handling
  <2>3. QED
    BY <2>1, <2>2
<1>7. x \in PlaceRecords(Resources)
  BY <1>2, <1>4, <1>5 DEF PlaceRecords
<1>8. \A d \in Calls :
        \/ x.call[d] = w.call[d] /\ ~(d \in S /\ w.call[d].at \in {"queued", "waiting"})
        \/ /\ x.call[d] = [w.call[d] EXCEPT !.at = "returned"]
           /\ w.call[d].at \in {"queued", "waiting"}
  BY <1>2
<1>9. QED
  BY <1>6, <1>7, <1>8 DEF PlacesOK, x

\* A call that takes a place takes the last one.
LEMMA QueuePlaces ==
    ASSUME NEW w, PlacesOK(Resources, w), NEW c \in Calls, w.call[c].res \in Resources,
           NEW at \in {"queued", "surveyQueued"}
    PROVE  LET x == Queue(w, c, at) IN
           /\ PlacesOK(Resources, x)
           /\ x.call = [w.call EXCEPT ![c].at = at]
<1> DEFINE x == Queue(w, c, at)
           r0 == w.call[c].res
<1>1. /\ w.call \in [Calls -> CallRecords(Resources)]
      /\ w.lane \in [Resources -> Seq(Calls)] /\ w.hands \in Seq(Calls)
      /\ \A d \in Calls : PlaceOK(Resources, w, d)
      /\ w \in PlaceRecords(Resources)
  BY DEF PlacesOK, PlaceRecords
<1>2. /\ x.call = [w.call EXCEPT ![c].at = at]
      /\ x.lane = [w.lane EXCEPT ![r0] = Append(@, c)]
      /\ x.hands = w.hands
      /\ x = [call |-> x.call, lane |-> x.lane, hands |-> x.hands]
  BY DEF Queue
<1> HIDE DEF x
<1>4. x.call \in [Calls -> CallRecords(Resources)]
  <2>1. \A y \in CallRecords(Resources) : [y EXCEPT !.at = at] \in CallRecords(Resources)
    BY DEF CallRecords, Places
  <2>2. QED
    BY <1>1, <1>2, <2>1
<1>5. x.lane \in [Resources -> Seq(Calls)] /\ x.hands \in Seq(Calls)
  BY <1>1, <1>2, FirstOfAppend
<1>6. ASSUME NEW d \in Calls PROVE PlaceOK(Resources, x, d)
  <2>3. ASSUME NEW r \in Resources
        PROVE  /\ FirstIn(w.lane[r], d) => FirstIn(x.lane[r], d)
               /\ In(w.lane[r], d) => In(x.lane[r], d)
    <3>1. w.lane[r] \in Seq(Calls)
      BY <1>1
    <3>2. x.lane[r] = IF r = r0 THEN Append(w.lane[r], c) ELSE w.lane[r]
      BY <1>1, <1>2
    <3>3. QED
      BY <3>1, <3>2, FirstOfAppend
  <2>1. CASE d = c
    <3>1. x.call[d].at = at /\ x.call[d].res = r0
      BY <1>1, <1>2, <2>1 DEF CallRecords
    <3>2. w.lane[r0] \in Seq(Calls) /\ x.lane[r0] = Append(w.lane[r0], c)
      BY <1>1, <1>2
    <3>3. In(x.lane[r0], c)
      BY <3>2, FirstOfAppend
    <3>4. QED
      BY <2>1, <3>1, <3>3 DEF PlaceOK, Holding, Handling
  <2>2. CASE d # c
    <3>1. x.call[d] = w.call[d]
      BY <1>1, <1>2, <2>2
    <3>2. PlaceOK(Resources, w, d)
      BY <1>1
    <3>3. QED
      BY <1>2, <2>3, <3>1, <3>2 DEF PlaceOK, Holding, Handling
  <2>4. QED
    BY <2>1, <2>2
<1>7. x \in PlaceRecords(Resources)
  BY <1>2, <1>4, <1>5 DEF PlaceRecords
<1>8. QED
  BY <1>2, <1>6, <1>7 DEF PlacesOK, x

-----------------------------------------------------------------------------
(* Steps in which calls only come to their end *)

\* Against Now, some calls have returned; one that leaves a process behind is
\* in quarantine.
Tidy(w, Q) ==
    /\ PlacesOK(Resources, w)
    /\ \A d \in Calls :
         \/ w.call[d] = call[d]
         \/ /\ w.call[d] = [call[d] EXCEPT !.at = "returned"]
            /\ call[d].hand = "none" \/ <<"helper", d>> \in Q

Ends ==
    \A d \in Calls :
      \/ call'[d] = call[d]
      \/ /\ call'[d] = [call[d] EXCEPT !.at = "returned"]
         /\ call[d].hand = "none" \/ <<"helper", d>> \in quarantines'

LEMMA NowTidy ==
    ASSUME PlacesOK(Resources, Now), NEW Q
    PROVE  Tidy(Now, Q)
BY DEF Tidy, Now

LEMMA LeaveTidy ==
    ASSUME PlacesOK(Resources, Now), NEW Q, NEW c \in Calls,
           call[c].hand = "none" \/ <<"helper", c>> \in Q
    PROVE  Tidy(Leave(Now, c, "returned"), Q)
<1> DEFINE x == Leave(Now, c, "returned")
<1>1. PlacesOK(Resources, x) /\ x.call = [call EXCEPT ![c].at = "returned"]
  BY LeavePlaces DEF Now
<1>2. call \in [Calls -> CallRecords(Resources)]
  BY DEF PlacesOK, PlaceRecords, Now
<1> HIDE DEF x
<1>3. \A d \in Calls : x.call[d] = IF d = c THEN [call[c] EXCEPT !.at = "returned"] ELSE call[d]
  BY <1>1, <1>2
<1>4. Tidy(x, Q)
  BY <1>1, <1>3 DEF Tidy
<1>5. QED
  BY <1>4 DEF x

LEMMA RejectTidy ==
    ASSUME PlacesOK(Resources, Now), HandsOK, NEW Q, NEW w, Tidy(w, Q), NEW S
    PROVE  Tidy(Reject(w, S), Q)
<1> DEFINE x == Reject(w, S)
<1>1. /\ PlacesOK(Resources, x)
      /\ \A d \in Calls :
           \/ x.call[d] = w.call[d]
           \/ /\ x.call[d] = [w.call[d] EXCEPT !.at = "returned"]
              /\ w.call[d].at \in {"queued", "waiting"}
  BY RejectPlaces DEF Tidy
<1>2. call \in [Calls -> CallRecords(Resources)]
  BY DEF PlacesOK, PlaceRecords, Now
<1> HIDE DEF x
<1>3. ASSUME NEW d \in Calls
      PROVE  \/ x.call[d] = call[d]
             \/ /\ x.call[d] = [call[d] EXCEPT !.at = "returned"]
                /\ call[d].hand = "none" \/ <<"helper", d>> \in Q
  <2>1. call[d] \in CallRecords(Resources)
    BY <1>2
  <2>2. CASE w.call[d] = call[d]
    <3>1. call[d].at \in {"queued", "waiting"} => call[d].hand = "none"
      BY DEF HandsOK
    <3>2. QED
      BY <1>1, <2>2, <3>1
  <2>3. CASE /\ w.call[d] = [call[d] EXCEPT !.at = "returned"]
             /\ call[d].hand = "none" \/ <<"helper", d>> \in Q
    <3>1. w.call[d].at = "returned"
      BY <2>1, <2>3 DEF CallRecords
    <3>2. x.call[d] = w.call[d]
      BY <1>1, <3>1
    <3>3. QED
      BY <2>3, <3>2
  <2>4. QED
    BY <2>2, <2>3 DEF Tidy
<1>4. Tidy(x, Q)
  BY <1>1, <1>3 DEF Tidy
<1>5. QED
  BY <1>4 DEF x

\* What becomes of the calls is what the step made of them.
LEMMA Became ==
    ASSUME NEW w, PlacesOK(Resources, w), Become(w), epoch' \in [Resources -> Nat]
    PROVE  Resources' = Resources /\ PlacesOK(Resources, Now)'
<1>1. Resources' = Resources
  BY DEF Resources
<1>2. w \in PlaceRecords(Resources) /\ \A c \in Calls : PlaceOK(Resources, w, c)
  BY DEF PlacesOK
<1>3. call' = w.call /\ lane' = w.lane /\ hands' = w.hands
  BY DEF Become
<1>4. Now' = [call |-> call', lane |-> lane', hands |-> hands']
  BY DEF Now
<1>5. Now' = w
  BY <1>2, <1>3, <1>4 DEF PlaceRecords
<1>6. PlacesOK(Resources', Now')
  BY <1>1, <1>5
<1>7. QED
  BY <1>1, <1>6 DEF PlacesOK, PlaceOK, PlaceRecords, CallRecords

LEMMA BecameTidy ==
    ASSUME NEW w, Tidy(w, quarantines'), Become(w), epoch' \in [Resources -> Nat]
    PROVE  Resources' = Resources /\ PlacesOK(Resources, Now)' /\ Ends
BY Became DEF Tidy, Ends, Become

LEMMA HandsRest ==
    ASSUME PlacesOK(Resources, Now), HandsOK, Ends, quarantines \subseteq quarantines'
    PROVE  HandsOK'
<1>1. call \in [Calls -> CallRecords(Resources)]
  BY DEF PlacesOK, PlaceRecords, Now
<1>2. ASSUME NEW d \in Calls
      PROVE  /\ call'[d].hand = call[d].hand
             /\ \/ call'[d].at = call[d].at
                \/ /\ call'[d].at = "returned"
                   /\ call[d].hand = "none" \/ <<"helper", d>> \in quarantines'
  <2>1. call[d] \in CallRecords(Resources)
    BY <1>1
  <2>2. QED
    BY <2>1 DEF Ends, CallRecords
<1>3. ASSUME NEW c \in Calls, call'[c].hand # "none"
      PROVE  \/ call'[c].at = "acting"
             \/ call'[c].at = "returned" /\ <<"helper", c>> \in quarantines'
  BY <1>2, <1>3 DEF HandsOK
<1>4. ASSUME NEW c \in Calls, NEW d \in Calls, call'[c].hand # "none",
             call'[d].at \in Handling \/ call'[d].hand # "none"
      PROVE  c = d
  BY <1>2, <1>4 DEF HandsOK, Handling
<1>5. QED
  BY <1>3, <1>4 DEF HandsOK

\* What is up to date stays so while no process gets to work.
LEMMA CurrentKept ==
    ASSUME UNCHANGED <<epoch, desk>>, NEW x, Current(x),
           \A d \in Calls : call'[d].hand = "sent" =>
              call[d].hand = "sent" /\ call'[d].res = call[d].res
    PROVE  /\ x.epoch <= epoch'[x.res]
           /\ x.epoch = epoch'[x.res] => x.seen = desk'[x.res] /\ ~Sent(x.res)'
BY DEF Current, Sent

LEMMA LooksRest ==
    ASSUME PlacesOK(Resources, Now), LooksOK, Ends, UNCHANGED <<epoch, desk>>,
           \A o \in states' : o \in states \/ Current(o)
    PROVE  LooksOK'
<1>1. call \in [Calls -> CallRecords(Resources)]
  BY DEF PlacesOK, PlaceRecords, Now
<1>2. ASSUME NEW d \in Calls
      PROVE  /\ call'[d].hand = call[d].hand /\ call'[d].res = call[d].res
             /\ call'[d] = call[d] \/ call'[d].at = "returned"
  <2>1. call[d] \in CallRecords(Resources)
    BY <1>1
  <2>2. QED
    BY <2>1 DEF Ends, CallRecords
<1>3. ASSUME NEW x, Current(x)
      PROVE  /\ x.epoch <= epoch'[x.res]
             /\ x.epoch = epoch'[x.res] => x.seen = desk'[x.res] /\ ~Sent(x.res)'
  BY <1>2, <1>3, CurrentKept
<1>4. ASSUME NEW o \in states' PROVE Current(o)'
  <2>1. Current(o)
    BY <1>4 DEF LooksOK, Looking
  <2>2. QED
    BY <1>3, <2>1 DEF Current
<1>5. ASSUME NEW c \in Calls, call'[c].at # "returned", Current(call[c])
      PROVE  Current(call[c])'
  <2>1. call'[c] = call[c]
    BY <1>2, <1>5
  <2>2. QED
    BY <1>3, <1>5, <2>1 DEF Current
<1>6. ASSUME NEW c \in Calls, call'[c].at # "returned" PROVE call'[c] = call[c]
  BY <1>2, <1>6
<1>7. ASSUME NEW c \in Calls
      PROVE  /\ call'[c].at \in Looking
                  => Current(call[c])'
             /\ call'[c].at = "queued" /\ call'[c].op = "execute" => Current(call[c])'
             /\ call'[c].at \in Holding => call'[c].epoch = epoch'[call'[c].res]
             /\ call'[c].at = "identifying" => call'[c].op = "observe"
  BY <1>5, <1>6 DEF LooksOK, Looking, Holding
<1>8. QED
  BY <1>4, <1>7 DEF LooksOK, Looking

-----------------------------------------------------------------------------
(* Sessions *)

\* The types of what is not a call or a place.
Values ==
    /\ epoch \in [Resources -> Nat] /\ desk \in [Resources -> Nat]
    /\ states \subseteq [res : Resources, epoch : Nat, seen : Nat]
    /\ stopped \subseteq Calls
    /\ quarantines \subseteq {"helper", "dispose"} \X Calls
    /\ active \subseteq Calls /\ granted \subseteq active \ aborted
    /\ aborted \subseteq Calls /\ closing \subseteq aborted
    /\ disabling \subseteq closing
    /\ enabled \in BOOLEAN /\ desired \in BOOLEAN /\ generation \in Nat
    /\ toggle \in [Toggles -> [at : {"idle", "waiting", "returned"}, on : BOOLEAN,
                               generation : Nat]]
    /\ service \in {"open", "closing", "draining", "closed"} /\ closes \in BOOLEAN

LEMMA TypeParts == TypeOK <=> Values /\ Now \in PlaceRecords(Resources)
BY DEF TypeOK, Values, Now, PlaceRecords, CallRecords

\* A call that has no place and no helper at work.
Quiet(c) == call[c].at \in {"idle", "identifying", "asked", "returned"}

\* What a step may do to the sessions and the switch.
SessionStep ==
    /\ aborted \subseteq aborted'
    /\ \A s \in active' \cup aborted' : s \in active \cup aborted \/ call'[s].at = "returned"
    /\ \A s \in granted \ aborted' :
         IsEnabled /\ service = "open" => s \in granted' /\ IsEnabled' /\ service' = "open"
    /\ enabled' => desired'
    /\ service' # "open" => ~desired'
    /\ disabling' # {} => ~enabled' /\ active' \subseteq disabling'

LEMMA SessionsRest ==
    ASSUME PlacesOK(Resources, Now), Values, SessionsOK, Ends, SessionStep
    PROVE  SessionsOK'
<1>1. call \in [Calls -> CallRecords(Resources)]
  BY DEF PlacesOK, PlaceRecords, Now
<1>2. ASSUME NEW d \in Calls
      PROVE  /\ call'[d] = call[d] \/ call'[d].at = "returned"
             /\ call[d].at = "returned" => call'[d].at = "returned"
  <2>1. call[d] \in CallRecords(Resources)
    BY <1>1
  <2>2. QED
    BY <2>1 DEF Ends, CallRecords
<1>3. \A s \in active' \cup aborted' : call'[s].at = "returned"
  BY <1>2 DEF SessionStep, SessionsOK, Values
<1>4. ASSUME NEW c \in Calls, call'[c].at = "recording", call'[c].session \notin aborted'
      PROVE  IsEnabled' /\ call'[c].session \in granted' /\ service' = "open"
  <2>1. call'[c] = call[c]
    BY <1>2, <1>4
  <2>2. call[c].session \notin aborted
    BY <1>4, <2>1 DEF SessionStep
  <2>3. IsEnabled /\ call[c].session \in granted /\ service = "open"
    BY <1>4, <2>1, <2>2 DEF SessionsOK
  <2>4. QED
    BY <1>4, <2>1, <2>3 DEF SessionStep
<1>5. QED
  BY <1>3, <1>4 DEF SessionsOK, SessionStep

\* A step in which calls only come to their end.
LEMMA RestStep ==
    ASSUME IInv, NEW w, Tidy(w, quarantines'), Become(w), Values',
           UNCHANGED <<epoch, desk>>, quarantines \subseteq quarantines',
           \A o \in states' : o \in states \/ Current(o),
           SessionStep,
           service' = "closed" => service = "closed" \/ \A c \in Calls : Quiet(c)
    PROVE  IInv'
<1>1. PlacesOK(Resources, Now) /\ HandsOK /\ LooksOK /\ SessionsOK /\ ClosedIsQuiet
  BY DEF IInv
<1>2. Values
  BY TypeParts DEF IInv
<1>3. Resources' = Resources /\ PlacesOK(Resources, Now)' /\ Ends
  BY <1>2, BecameTidy DEF Values
<1>4. TypeOK'
  BY <1>3, TypeParts DEF TypeOK, PlacesOK, PlaceRecords, CallRecords, Now, Values
<1>5. HandsOK' /\ LooksOK' /\ SessionsOK'
  BY <1>1, <1>2, <1>3, HandsRest, LooksRest, SessionsRest
<1>6. ClosedIsQuiet'
  <2>1. call \in [Calls -> CallRecords(Resources)]
    BY <1>1 DEF PlacesOK, PlaceRecords, Now
  <2>2. ASSUME NEW d \in Calls PROVE call'[d].at \in {call[d].at, "returned"}
    <3>1. call[d] \in CallRecords(Resources)
      BY <2>1
    <3>2. QED
      BY <1>3, <3>1 DEF Ends, CallRecords
  <2>3. QED
    BY <1>1, <2>2 DEF ClosedIsQuiet, Quiet
<1>7. QED
  BY <1>3, <1>4, <1>5, <1>6 DEF IInv

-----------------------------------------------------------------------------
(* Steps in which one call goes on *)

\* Up to date, if it is not looked at what the call itself does.
CurrentBut(c, x) ==
    /\ x.epoch <= epoch[x.res]
    /\ x.epoch = epoch[x.res] =>
         /\ x.seen = desk[x.res]
         /\ \A d \in Calls \ {c} : ~(call[d].hand = "sent" /\ call[d].res = x.res)

\* Where a call may go without acting, and what it must have seen for it.
MayGo(c, y) ==
    /\ y.hand = "none"
    /\ y.at \in Handling => \A d \in Calls \ {c} : call[d].hand = "none"
    /\ y.at \in Looking
         => CurrentBut(c, y)
    /\ y.at = "queued" /\ y.op = "execute" => CurrentBut(c, y)
    /\ y.at \in Holding => y.epoch = epoch[y.res]
    /\ y.at = "identifying" => y.op = "observe"
    /\ y.at = "recording" /\ y.session \notin aborted
         => IsEnabled /\ y.session \in granted /\ service = "open"
    /\ service = "closed" => y.at \in {"idle", "identifying", "asked", "returned"}

LEMMA GoStep ==
    ASSUME IInv, NEW c \in Calls, call[c].at # "returned", NEW y,
           call' = [call EXCEPT ![c] = y], MayGo(c, y), PlacesOK(Resources, Now)',
           UNCHANGED <<epoch, desk, states, stopped, quarantines, active, granted, aborted,
                       closing, disabling, switch, ending>>
    PROVE  IInv'
<1>1. /\ PlacesOK(Resources, Now) /\ HandsOK /\ LooksOK /\ SessionsOK /\ ClosedIsQuiet
      /\ Values
  BY TypeParts DEF IInv
<1>2. call \in [Calls -> CallRecords(Resources)]
  BY <1>1 DEF PlacesOK, PlaceRecords, Now
<1>3. call'[c] = y /\ \A d \in Calls \ {c} : call'[d] = call[d]
  BY <1>2
<1>4. Resources' = Resources
  BY DEF Resources
<1>5. TypeOK'
  <2>1. Values'
    BY <1>1, <1>4 DEF Values, switch, ending
  <2>2. QED
    BY <2>1, <1>4, TypeParts DEF TypeOK, PlacesOK, PlaceRecords, CallRecords, Now, Values
<1>6. HandsOK'
  <2>1. ASSUME NEW e \in Calls, call'[e].hand # "none"
        PROVE  /\ e # c /\ call[e].hand # "none"
               /\ \/ call'[e].at = "acting"
                  \/ call'[e].at = "returned" /\ <<"helper", e>> \in quarantines'
    BY <1>1, <1>3, <2>1 DEF MayGo, Looking, HandsOK
  <2>2. ASSUME NEW e \in Calls, NEW d \in Calls, call'[e].hand # "none",
               call'[d].at \in Handling \/ call'[d].hand # "none"
        PROVE  e = d
    <3>1. e # c /\ call[e].hand # "none"
      BY <2>1, <2>2
    <3>2. d # c
      BY <1>3, <2>2, <3>1 DEF MayGo, Looking
    <3>3. QED
      BY <1>1, <1>3, <2>2, <3>1, <3>2 DEF HandsOK
  <2>3. QED
    BY <2>1, <2>2 DEF HandsOK
<1>7. LooksOK'
  <2>1. ASSUME NEW x, CurrentBut(c, x) PROVE Current(x)'
    <3>1. \A d \in Calls : call'[d].hand = "sent" => d # c /\ call[d].hand = "sent"
                                                     /\ call'[d].res = call[d].res
      BY <1>3 DEF MayGo, Looking
    <3>2. UNCHANGED <<epoch, desk>>
      OBVIOUS
    <3>3. x.epoch <= epoch'[x.res]
      BY <2>1, <3>2 DEF CurrentBut
    <3>4. x.epoch = epoch'[x.res] => x.seen = desk'[x.res] /\ ~Sent(x.res)'
      BY <2>1, <3>1, <3>2 DEF CurrentBut, Sent
    <3>5. QED
      BY <3>3, <3>4 DEF Current
  <2>2. ASSUME NEW x, Current(x) PROVE CurrentBut(c, x)
    BY <2>2 DEF Current, CurrentBut, Sent
  <2>3. ASSUME NEW o \in states' PROVE Current(o)'
    BY <1>1, <2>1, <2>2, <2>3 DEF LooksOK, Looking
  <2>4. ASSUME NEW d \in Calls
        PROVE  /\ call'[d].at \in Looking
                    => CurrentBut(c, call'[d])
               /\ call'[d].at = "queued" /\ call'[d].op = "execute" => CurrentBut(c, call'[d])
               /\ call'[d].at \in Holding => call'[d].epoch = epoch'[call'[d].res]
               /\ call'[d].at = "identifying" => call'[d].op = "observe"
    <3>1. CASE d = c
      BY <1>3, <3>1 DEF MayGo, Looking
    <3>2. CASE d # c
      BY <1>1, <1>3, <2>2, <3>2 DEF LooksOK, Looking
    <3>3. QED
      BY <3>1, <3>2
  <2>5. ASSUME NEW d \in Calls
        PROVE  /\ call'[d].at \in Looking
                    => Current(call[d])'
               /\ call'[d].at = "queued" /\ call'[d].op = "execute" => Current(call[d])'
    <3>1. CurrentBut(c, call'[d]) => Current(call[d])'
      <4>1. ASSUME NEW x, x = call'[d], CurrentBut(c, x) PROVE Current(call[d])'
        BY <2>1, <4>1 DEF Current
      <4>2. QED
        BY <4>1
    <3>2. QED
      BY <2>4, <3>1
  <2>6. QED
    BY <2>3, <2>4, <2>5 DEF LooksOK, Looking
<1>8. SessionsOK'
  <2>1. \A s \in active' \cup aborted' : call'[s].at = "returned"
    BY <1>1, <1>3 DEF SessionsOK, Values
  <2>2. ASSUME NEW d \in Calls, call'[d].at = "recording", call'[d].session \notin aborted'
        PROVE  IsEnabled' /\ call'[d].session \in granted' /\ service' = "open"
    <3>1. IsEnabled' = IsEnabled /\ service' = service
      BY DEF IsEnabled, Available, switch, ending
    <3>2. QED
      BY <1>1, <1>3, <2>2, <3>1 DEF SessionsOK, MayGo, Looking
  <2>3. QED
    BY <1>1, <2>1, <2>2 DEF SessionsOK, switch, ending
<1>9. ClosedIsQuiet'
  BY <1>1, <1>3 DEF ClosedIsQuiet, MayGo, Looking, ending
<1>10. QED
  BY <1>4, <1>5, <1>6, <1>7, <1>8, <1>9 DEF IInv

\* A call that goes on without a change of its places.
LEMMA StayPlaces ==
    ASSUME PlacesOK(Resources, Now), NEW c \in Calls, NEW y \in CallRecords(Resources),
           call' = [call EXCEPT ![c] = y], UNCHANGED <<lane, hands>>, DOMAIN epoch' = DOMAIN epoch,
           y.at \notin {"idle", "returned"} => y.res \in Resources,
           y.at \in Holding => FirstIn(lane[y.res], c),
           y.at \in {"queued", "surveyQueued"} => In(lane[y.res], c),
           y.at \in Handling => FirstIn(hands, c)
    PROVE  PlacesOK(Resources, Now)'
<1>1. /\ call \in [Calls -> CallRecords(Resources)] /\ lane \in [Resources -> Seq(Calls)]
      /\ hands \in Seq(Calls) /\ \A d \in Calls : PlaceOK(Resources, Now, d)
  BY DEF PlacesOK, PlaceRecords, Now
<1>2. Resources' = Resources
  BY DEF Resources
<1>3. call'[c] = y /\ \A d \in Calls \ {c} : call'[d] = call[d]
  BY <1>1
<1>4. call' \in [Calls -> CallRecords(Resources)]
  BY <1>1
<1>5. ASSUME NEW d \in Calls PROVE PlaceOK(Resources, Now, d)'
  <2>1. CASE d = c
    BY <1>2, <1>3, <2>1 DEF PlaceOK, Now
  <2>2. CASE d # c
    <3>1. PlaceOK(Resources, Now, d)
      BY <1>1
    <3>2. QED
      BY <1>2, <1>3, <2>2, <3>1 DEF PlaceOK, Now
  <2>3. QED
    BY <2>1, <2>2
<1>6. Now' = [call |-> call', lane |-> lane', hands |-> hands']
  BY DEF Now
<1>7. Now' \in PlaceRecords(Resources)
  BY <1>1, <1>4, <1>6 DEF PlaceRecords
<1>8. QED
  BY <1>2, <1>5, <1>7 DEF PlacesOK, PlaceRecords, CallRecords

-----------------------------------------------------------------------------
(* The end of a call *)

LEMMA Parts ==
    ASSUME IInv
    PROVE  /\ PlacesOK(Resources, Now) /\ HandsOK /\ LooksOK /\ SessionsOK
           /\ ClosedIsQuiet /\ Values
           /\ call \in [Calls -> CallRecords(Resources)]
           /\ lane \in [Resources -> Seq(Calls)] /\ hands \in Seq(Calls)
           /\ \A c \in Calls : call[c].at \notin {"acting", "returned"} => call[c].hand = "none"
           /\ \A c \in Calls : call[c].at \notin {"idle", "returned"} => call[c].res \in Resources
           /\ \A c \in Calls : call[c].at \in Holding => FirstIn(lane[call[c].res], c)
           /\ \A c \in Calls : call[c].at \in Handling => FirstIn(hands, c)
<1>1. PlacesOK(Resources, Now) /\ HandsOK /\ LooksOK /\ SessionsOK /\ ClosedIsQuiet /\ Values
  BY TypeParts DEF IInv
<1>2. /\ call \in [Calls -> CallRecords(Resources)]
      /\ lane \in [Resources -> Seq(Calls)] /\ hands \in Seq(Calls)
      /\ \A c \in Calls : PlaceOK(Resources, Now, c)
  BY <1>1 DEF PlacesOK, PlaceRecords, Now
<1>3. \A c \in Calls : call[c].at \notin {"acting", "returned"} => call[c].hand = "none"
  BY <1>1 DEF HandsOK
<1>4. \A c \in Calls : /\ call[c].at \notin {"idle", "returned"} => call[c].res \in Resources
                       /\ call[c].at \in Holding => FirstIn(lane[call[c].res], c)
                       /\ call[c].at \in Handling => FirstIn(hands, c)
  BY <1>2 DEF PlaceOK, Now
<1>5. QED
  BY <1>1, <1>2, <1>3, <1>4

LEMMA StillStep ==
    ASSUME IInv, UNCHANGED <<quarantines, active, granted, aborted, closing, disabling,
                             switch, ending>>
    PROVE  SessionStep
<1>1. SessionsOK
  BY DEF IInv
<1>2. IsEnabled' = IsEnabled
  BY DEF IsEnabled, Available, switch
<1>3. QED
  BY <1>1, <1>2 DEF SessionStep, SessionsOK, switch, ending

\* A call of which no process is left is over, having published what is up to date.
LEMMA EndStep ==
    ASSUME IInv, NEW c \in Calls, call[c].hand = "none",
           Become(Leave(Now, c, "returned")),
           UNCHANGED <<epoch, desk, stopped, quarantines, active, granted, aborted, closing,
                       disabling, switch, ending>>,
           states' \subseteq [res : Resources, epoch : Nat, seen : Nat],
           \A o \in states' : o \in states \/ Current(o)
    PROVE  IInv'
<1>1. Values /\ PlacesOK(Resources, Now)
  BY Parts
<1>2. Resources' = Resources
  BY DEF Resources
<1>3. Values'
  BY <1>1, <1>2 DEF Values, switch, ending
<1>4. Tidy(Leave(Now, c, "returned"), quarantines')
  BY <1>1, LeaveTidy
<1>5. QED
  BY <1>3, <1>4, StillStep, RestStep DEF ending

\* What has been seen while the resource was held is up to date.
LEMMA Published ==
    ASSUME IInv, NEW c \in Calls, call[c].at \in {"reading", "surveying", "watching"},
           Publish(c, call[c].epoch)
    PROVE  /\ states' \subseteq [res : Resources, epoch : Nat, seen : Nat]
           /\ \A o \in states' : o \in states \/ Current(o)
<1>1. /\ call[c] \in CallRecords(Resources) /\ call[c].res \in Resources /\ Values
      /\ Current(call[c]) /\ call[c].epoch = epoch[call[c].res]
  BY Parts DEF LooksOK, Looking, Holding
<1>2. PICK seen \in {call[c].seen, desk[call[c].res]} :
         states' = states \cup {[res |-> call[c].res, epoch |-> call[c].epoch, seen |-> seen]}
  BY DEF Publish
<1> DEFINE o == [res |-> call[c].res, epoch |-> call[c].epoch, seen |-> seen]
<1>3. seen = desk[call[c].res] /\ seen \in Nat /\ call[c].epoch \in Nat
  BY <1>1, <1>2 DEF Current, CallRecords, Values
<1>4. o \in [res : Resources, epoch : Nat, seen : Nat]
  BY <1>1, <1>3
<1>5. Current(o)
  BY <1>1, <1>3 DEF Current
<1>6. states \subseteq [res : Resources, epoch : Nat, seen : Nat]
  BY <1>1 DEF Values
<1>7. QED
  BY <1>2, <1>4, <1>5, <1>6

\* The back end is quarantined: every session is aborted and forgotten.
LEMMA QuarantineStep ==
    ASSUME IInv, NEW w, NEW failure \in {"helper", "dispose"} \X Calls,
           Tidy(w, quarantines \cup {failure}), Quarantine(w, failure),
           UNCHANGED <<epoch, desk, states, stopped, enabled, desired, generation, closes>>,
           closing' \subseteq closing, disabling' \subseteq closing',
           disabling' # {} => disabling # {},
           toggle' \in [Toggles -> [at : {"idle", "waiting", "returned"}, on : BOOLEAN,
                                    generation : Nat]],
           service' \in {"open", "closing", "draining", "closed"},
           service' = "closed" => service = "closed",
           service' # "open" => service # "open"
    PROVE  IInv'
<1>1. Values /\ PlacesOK(Resources, Now) /\ HandsOK /\ SessionsOK
  BY Parts
<1>2. /\ quarantines' = quarantines \cup {failure} /\ aborted' = aborted \cup active
      /\ active' = {} /\ granted' = {}
      /\ Become(Reject(w, UnderSession(active)))
  BY DEF Quarantine
<1>3. Resources' = Resources
  BY DEF Resources
<1>4. Tidy(Reject(w, UnderSession(active)), quarantines')
  BY <1>1, <1>2, RejectTidy
<1>5. Values'
  BY <1>1, <1>2, <1>3 DEF Values
<1>6. SessionStep
  BY <1>1, <1>2 DEF SessionStep, SessionsOK, Values
<1>7. QED
  BY <1>2, <1>4, <1>5, <1>6, RestStep

\* A helper fails, safely or not.
LEMMA FailedStep ==
    ASSUME IInv, NEW c \in Calls, NEW unsafe \in BOOLEAN, unsafe \/ call[c].hand = "none",
           Failed(Leave(Now, c, "returned"), c, unsafe),
           UNCHANGED <<epoch, desk, states, stopped, switch, ending>>
    PROVE  IInv'
<1>1. Values /\ PlacesOK(Resources, Now) /\ SessionsOK
  BY Parts
<1>2. CASE unsafe
  <2> DEFINE failure == <<"helper", c>>
  <2>1. Quarantine(Leave(Now, c, "returned"), failure) /\ UNCHANGED <<closing, disabling>>
    BY <1>2 DEF Failed
  <2>2. failure \in {"helper", "dispose"} \X Calls
    OBVIOUS
  <2>3. Tidy(Leave(Now, c, "returned"), quarantines \cup {failure})
    BY <1>1, LeaveTidy
  <2> HIDE DEF failure
  <2>4. /\ UNCHANGED <<enabled, desired, generation, closes>>
        /\ closing' \subseteq closing /\ disabling' \subseteq closing'
        /\ disabling' # {} => disabling # {}
        /\ toggle' \in [Toggles -> [at : {"idle", "waiting", "returned"}, on : BOOLEAN,
                                    generation : Nat]]
        /\ service' \in {"open", "closing", "draining", "closed"}
        /\ service' = service
    BY <1>1, <2>1 DEF Values, switch, ending
  <2>5. QED
    BY <2>1, <2>2, <2>3, <2>4, QuarantineStep
<1>3. CASE ~unsafe
  <2>1. /\ Become(Leave(Now, c, "returned"))
        /\ UNCHANGED <<quarantines, active, granted, aborted, closing, disabling>>
    BY <1>3 DEF Failed, sessions
  <2>2. states' \subseteq [res : Resources, epoch : Nat, seen : Nat]
    BY <1>1 DEF Values
  <2>3. QED
    BY <1>3, <2>1, <2>2, EndStep
<1>4. QED
  BY <1>2, <1>3

LEMMA ReadEndsKeeps ==
    ASSUME IInv, NEW c \in Calls, ReadEnds(c)
    PROVE  IInv'
<1>1. Values /\ PlacesOK(Resources, Now) /\ SessionsOK /\ call[c] \in CallRecords(Resources)
  BY Parts
<1>2. /\ call[c].at \in {"reading", "surveying"} /\ Publish(c, call[c].epoch)
      /\ Become(Leave(Now, c, "returned"))
      /\ \/ /\ IsEnabled /\ active' = active \cup {c} /\ granted' = granted \cup {c}
         \/ active' = active /\ granted' = granted
      /\ UNCHANGED <<epoch, desk, stopped, quarantines, aborted, closing, disabling, enabled,
                     desired, generation, toggle, service, closes>>
  BY DEF ReadEnds, switch, ending
<1>3. c \notin aborted /\ call[c].hand = "none"
  BY <1>1, <1>2, Parts DEF SessionsOK
<1>4. Resources' = Resources
  BY <1>2 DEF Resources
<1>5. /\ states' \subseteq [res : Resources, epoch : Nat, seen : Nat]
      /\ \A o \in states' : o \in states \/ Current(o)
  BY <1>2, Published
<1>6. Tidy(Leave(Now, c, "returned"), quarantines')
  BY <1>1, <1>3, LeaveTidy
<1>7. call'[c].at = "returned"
  <2>1. call' = [call EXCEPT ![c].at = "returned"]
    BY <1>2 DEF Become, Leave, Now
  <2>2. QED
    BY <2>1, Parts DEF CallRecords
<1>8. Values'
  BY <1>1, <1>2, <1>3, <1>4, <1>5 DEF Values
<1>9. SessionStep
  BY <1>1, <1>2, <1>7 DEF SessionStep, SessionsOK, IsEnabled, Available
<1>10. QED
  BY <1>2, <1>5, <1>6, <1>8, <1>9, RestStep

-----------------------------------------------------------------------------
(* The next place of a call *)

LEMMA QueueStep ==
    ASSUME IInv, NEW c \in Calls, call[c].at \notin {"idle", "acting", "returned"},
           NEW at \in {"queued", "surveyQueued"}, Become(Queue(Now, c, at)),
           at = "queued" /\ call[c].op = "execute" => Current(call[c]),
           service # "closed",
           UNCHANGED <<epoch, desk, states, stopped, quarantines, active, granted, aborted,
                       closing, disabling, switch, ending>>
    PROVE  IInv'
<1> DEFINE y == [call[c] EXCEPT !.at = at]
<1>1. /\ PlacesOK(Resources, Now) /\ Values /\ call[c] \in CallRecords(Resources)
      /\ call[c].res \in Resources /\ call[c].hand = "none"
  BY Parts
<1>2. /\ PlacesOK(Resources, Queue(Now, c, at))
      /\ Queue(Now, c, at).call = [call EXCEPT ![c].at = at]
  <2>1. Now.call = call
    BY DEF Now
  <2>2. Now.call[c].res \in Resources
    BY <1>1, <2>1
  <2>3. /\ PlacesOK(Resources, Queue(Now, c, at))
        /\ Queue(Now, c, at).call = [Now.call EXCEPT ![c].at = at]
    <3>1. PlacesOK(Resources, Now)
      BY <1>1
    <3>2. CASE at = "queued"
      BY <2>2, <3>1, <3>2, QueuePlaces
    <3>3. CASE at = "surveyQueued"
      BY <2>2, <3>1, <3>3, QueuePlaces
    <3>4. QED
      BY <3>2, <3>3
  <2>4. QED
    BY <2>1, <2>3
<1>3. PlacesOK(Resources, Now)'
  BY <1>1, <1>2, Became DEF Values
<1>4. call' = [call EXCEPT ![c] = y]
  BY <1>2 DEF Become
<1>5. /\ y.at = at /\ y.hand = "none" /\ y.op = call[c].op /\ y.res = call[c].res
      /\ y.epoch = call[c].epoch /\ y.seen = call[c].seen
  BY <1>1 DEF CallRecords
<1> HIDE DEF y
<1>6. Current(call[c]) => CurrentBut(c, y)
  BY <1>5 DEF Current, CurrentBut, Sent
<1>7. MayGo(c, y)
  BY <1>5, <1>6 DEF MayGo, Looking, Holding, Handling
<1>8. QED
  BY <1>3, <1>4, <1>7, GoStep

LEMMA SurveyStep ==
    ASSUME IInv, NEW c \in Calls, call[c].at \in Handling, Become(Survey(Now, c)),
           UNCHANGED <<epoch, desk, states, stopped, quarantines, active, granted, aborted,
                       closing, disabling, switch, ending>>
    PROVE  IInv'
<1> DEFINE x == [call[c] EXCEPT !.hand = "none"]
           n == [Now EXCEPT !.call[c].hand = "none"]
           left == Leave(n, c, "returned")
<1>1. /\ PlacesOK(Resources, Now) /\ Values /\ call \in [Calls -> CallRecords(Resources)]
      /\ lane \in [Resources -> Seq(Calls)] /\ hands \in Seq(Calls)
      /\ call[c].res \in Resources /\ call[c].at # "returned"
  BY Parts DEF Handling
<1>2. /\ n = [call |-> n.call, lane |-> lane, hands |-> hands]
      /\ n.lane = lane /\ n.hands = hands
      /\ n.call = [call EXCEPT ![c] = x]
  BY DEF Now
<1>3. /\ x \in CallRecords(Resources) /\ x.at = call[c].at /\ x.res = call[c].res
      /\ x.hand = "none"
  <2>1. call[c] \in CallRecords(Resources)
    BY <1>1
  <2>2. QED
    BY <2>1 DEF CallRecords
<1> HIDE DEF x, n
<1>4. PlacesOK(Resources, n)
  <2>1. n \in PlaceRecords(Resources)
    BY <1>1, <1>2, <1>3 DEF PlaceRecords
  <2>2. ASSUME NEW d \in Calls PROVE PlaceOK(Resources, n, d)
    <3>1. n.call[d] = IF d = c THEN x ELSE call[d]
      BY <1>1, <1>2
    <3>2. PlaceOK(Resources, Now, d)
      BY <1>1 DEF PlacesOK
    <3>3. QED
      BY <1>2, <1>3, <3>1, <3>2 DEF PlaceOK, Now
  <2>3. QED
    BY <2>1, <2>2 DEF PlacesOK
<1>5. PlacesOK(Resources, left) /\ left.call = [n.call EXCEPT ![c].at = "returned"]
  BY <1>4, LeavePlaces
<1> HIDE DEF left
<1> DEFINE y == [x EXCEPT !.at = "returned"]
           z == [x EXCEPT !.at = "surveyQueued"]
<1>6. /\ y.at = "returned" /\ y.hand = "none" /\ y.res = call[c].res
      /\ z.at = "surveyQueued" /\ z.hand = "none" /\ [y EXCEPT !.at = "surveyQueued"] = z
  BY <1>3 DEF CallRecords
<1>7. left.call = [call EXCEPT ![c] = y]
  BY <1>1, <1>2, <1>3, <1>5
<1>8. Become(IF Admits THEN Queue(left, c, "surveyQueued") ELSE left)
  BY DEF Survey, left, n
<1> HIDE DEF y, z
<1>9. CASE Admits
  <2>1. left.call[c] = y
    BY <1>1, <1>7
  <2>2. /\ PlacesOK(Resources, Queue(left, c, "surveyQueued"))
        /\ Queue(left, c, "surveyQueued").call = [left.call EXCEPT ![c].at = "surveyQueued"]
    BY <1>1, <1>5, <1>6, <2>1, QueuePlaces
  <2>3. [left.call EXCEPT ![c].at = "surveyQueued"] = [call EXCEPT ![c] = z]
    BY <1>1, <1>6, <1>7
  <2>4. call' = [call EXCEPT ![c] = z]
    BY <1>8, <1>9, <2>2, <2>3 DEF Become
  <2>5. PlacesOK(Resources, Now)'
    BY <1>1, <1>8, <1>9, <2>2, Became DEF Values
  <2>6. MayGo(c, z)
    BY <1>6, <1>9 DEF MayGo, Looking, Holding, Handling, Admits
  <2>7. QED
    BY <1>1, <2>4, <2>5, <2>6, GoStep
<1>10. CASE ~Admits
  <2>1. call' = [call EXCEPT ![c] = y]
    BY <1>7, <1>8, <1>10 DEF Become
  <2>2. PlacesOK(Resources, Now)'
    BY <1>1, <1>5, <1>8, <1>10, Became DEF Values
  <2>3. MayGo(c, y)
    BY <1>6 DEF MayGo, Looking, Holding, Handling
  <2>4. QED
    BY <1>1, <2>1, <2>2, <2>3, GoStep
<1>11. QED
  BY <1>9, <1>10

-----------------------------------------------------------------------------
(* Observing *)

LEMMA IdentifyKeeps ==
    ASSUME IInv, NEW c \in Calls, NEW r \in Resources, Identify(c, r)
    PROVE  IInv'
<1> DEFINE y == [call[c] EXCEPT !.at = "identifying", !.op = "observe", !.res = r]
<1>1. PlacesOK(Resources, Now) /\ call[c] \in CallRecords(Resources) /\ call[c].hand = "none"
  BY Parts DEF Identify
<1>2. /\ call[c].at = "idle" /\ call' = [call EXCEPT ![c] = y]
      /\ UNCHANGED <<lane, hands, epoch, desk, states, stopped, quarantines, active, granted,
                     aborted, closing, disabling, switch, ending>>
  BY DEF Identify, sessions
<1>3. /\ y \in CallRecords(Resources) /\ y.at = "identifying" /\ y.hand = "none"
      /\ y.res = r /\ y.op = "observe"
  BY <1>1 DEF CallRecords, Places
<1> HIDE DEF y
<1>4. PlacesOK(Resources, Now)'
  BY <1>1, <1>2, <1>3, StayPlaces DEF Holding, Handling
<1>5. MayGo(c, y)
  BY <1>3 DEF MayGo, Looking, Holding, Handling
<1>6. QED
  BY <1>2, <1>4, <1>5, GoStep

LEMMA IdentifiedKeeps ==
    ASSUME IInv, NEW c \in Calls, Identified(c)
    PROVE  IInv'
<1>1. /\ call[c].at = "identifying" /\ call[c].hand = "none" /\ call[c].op = "observe"
      /\ Values
  BY Parts DEF Identified, LooksOK, Looking
<1>2. UNCHANGED <<epoch, desk, states, stopped, quarantines, active, granted, aborted,
                  closing, disabling, switch, ending>>
  BY DEF Identified, sessions
<1>3. CASE c \in stopped \/ ~Admits
  <2>1. Become(Leave(Now, c, "returned"))
    BY <1>3 DEF Identified
  <2>2. QED
    BY <1>1, <1>2, <2>1, EndStep DEF Values
<1>4. CASE ~(c \in stopped \/ ~Admits)
  <2>1. Become(Queue(Now, c, "queued")) /\ service # "closed"
    BY <1>4 DEF Identified, Admits
  <2>2. QED
    BY <1>1, <1>2, <2>1, QueueStep
<1>5. QED
  BY <1>3, <1>4

LEMMA FailsKeep ==
    ASSUME IInv, NEW c \in Calls, NEW unsafe \in BOOLEAN,
           IdentifyFails(c, unsafe) \/ ReadFails(c, unsafe)
    PROVE  IInv'
<1>1. /\ call[c].at \notin {"acting", "returned"}
      /\ Failed(Leave(Now, c, "returned"), c, unsafe)
      /\ UNCHANGED <<epoch, desk, states, stopped, switch, ending>>
  BY DEF IdentifyFails, ReadFails
<1>2. QED
  BY <1>1, Parts, FailedStep

\* No process is at work on a resource that is held by a call that does not act.
LEMMA NoneAtWork ==
    ASSUME IInv, NEW c \in Calls, call[c].at # "acting", Available,
           NEW r \in Resources, FirstIn(lane[r], c)
    PROVE  \A d \in Calls : ~(call[d].hand = "sent" /\ call[d].res = r)
<1> SUFFICES ASSUME NEW d \in Calls, call[d].hand = "sent", call[d].res = r
             PROVE  FALSE
  OBVIOUS
<1>1. call[d].at = "acting"
  BY DEF IInv, HandsOK, Available
<1>2. FirstIn(lane[r], d)
  BY <1>1, Parts DEF Holding
<1>3. QED
  BY <1>1, <1>2 DEF FirstIn

LEMMA StartReadKeeps ==
    ASSUME IInv, NEW c \in Calls, StartRead(c)
    PROVE  IInv'
<1>1. /\ call[c].at \in {"queued", "surveyQueued"} /\ call[c].hand = "none"
      /\ call[c].res \in Resources /\ Values /\ call[c] \in CallRecords(Resources)
      /\ PlacesOK(Resources, Now) /\ ClosedIsQuiet
  BY Parts DEF StartRead
<1>2. UNCHANGED <<epoch, desk, states, stopped, quarantines, active, granted, aborted,
                  closing, disabling, switch, ending>>
  BY DEF StartRead, sessions
<1>3. CASE Available
  <2> DEFINE at == IF call[c].at = "queued" THEN "reading" ELSE "surveying"
             y == [call[c] EXCEPT !.at = at, !.epoch = epoch[call[c].res],
                                  !.seen = desk[call[c].res]]
  <2>1. call' = [call EXCEPT ![c] = y] /\ UNCHANGED <<lane, hands>>
    BY <1>3 DEF StartRead
  <2>2. /\ y \in CallRecords(Resources) /\ y.at = at /\ y.hand = "none"
        /\ y.res = call[c].res /\ y.epoch = epoch[y.res] /\ y.seen = desk[y.res]
    BY <1>1 DEF CallRecords, Places, Values
  <2>3. at \in {"reading", "surveying"} /\ FirstIn(lane[call[c].res], c)
    BY DEF StartRead
  <2> HIDE DEF y, at
  <2>4. PlacesOK(Resources, Now)'
    BY <1>1, <1>2, <2>1, <2>2, <2>3, StayPlaces DEF Handling
  <2>5. CurrentBut(c, y)
    <3>1. \A d \in Calls : ~(call[d].hand = "sent" /\ call[d].res = y.res)
      BY <1>1, <1>3, <2>2, <2>3, NoneAtWork
    <3>2. epoch[y.res] \in Nat
      BY <1>1, <2>2 DEF Values
    <3>3. QED
      BY <2>2, <3>1, <3>2 DEF CurrentBut
  <2>6. service # "closed"
    BY <1>1 DEF ClosedIsQuiet
  <2>7. MayGo(c, y)
    BY <2>2, <2>3, <2>5, <2>6 DEF MayGo, Looking, Handling
  <2>8. QED
    BY <1>1, <1>2, <2>1, <2>4, <2>7, GoStep
<1>4. CASE ~Available
  <2>1. Become(Leave(Now, c, "returned"))
    BY <1>4 DEF StartRead
  <2>2. QED
    BY <1>1, <1>2, <2>1, EndStep DEF Values
<1>5. QED
  BY <1>3, <1>4

-----------------------------------------------------------------------------
(* Acting *)

LEMMA ExecuteKeeps ==
    ASSUME IInv, NEW c \in Calls, NEW o \in states, NEW s \in Calls, Execute(c, o, s)
    PROVE  IInv'
<1> DEFINE y == [call[c] EXCEPT !.at = "asked", !.op = "execute", !.res = o.res,
                                !.epoch = o.epoch, !.seen = o.seen, !.session = s]
<1>1. /\ PlacesOK(Resources, Now) /\ call[c] \in CallRecords(Resources) /\ call[c].hand = "none"
      /\ Values /\ Current(o)
  BY Parts DEF Execute, LooksOK, Looking
<1>2. /\ call[c].at = "idle" /\ call' = [call EXCEPT ![c] = y]
      /\ UNCHANGED <<lane, hands, epoch, desk, states, stopped, quarantines, active, granted,
                     aborted, closing, disabling, switch, ending>>
  BY DEF Execute, sessions
<1>3. o \in [res : Resources, epoch : Nat, seen : Nat]
  BY <1>1 DEF Values
<1>4. /\ y \in CallRecords(Resources) /\ y.at = "asked" /\ y.hand = "none"
      /\ y.res = o.res /\ y.epoch = o.epoch /\ y.seen = o.seen /\ o.res \in Resources
  BY <1>1, <1>3 DEF CallRecords, Places
<1> HIDE DEF y
<1>5. PlacesOK(Resources, Now)'
  BY <1>1, <1>2, <1>4, StayPlaces DEF Holding, Handling
<1>6. CurrentBut(c, y)
  BY <1>1, <1>4 DEF Current, CurrentBut, Sent
<1>7. MayGo(c, y)
  BY <1>4, <1>6 DEF MayGo, Looking, Holding, Handling
<1>8. QED
  BY <1>2, <1>5, <1>7, GoStep

LEMMA WriteKeeps ==
    ASSUME IInv, NEW c \in Calls, Write(c)
    PROVE  IInv'
<1>1. /\ call[c].at = "asked" /\ call[c].hand = "none" /\ Current(call[c]) /\ Values
  BY Parts DEF Write, LooksOK, Looking
<1>2. UNCHANGED <<epoch, desk, states, stopped, quarantines, active, granted, aborted,
                  closing, disabling, switch, ending>>
  BY DEF Write, sessions
<1>3. CASE SignalAborted(c) \/ ~Admits
  <2>1. Become(Leave(Now, c, "returned"))
    BY <1>3 DEF Write
  <2>2. QED
    BY <1>1, <1>2, <2>1, EndStep DEF Values
<1>4. CASE ~(SignalAborted(c) \/ ~Admits)
  <2>1. Become(Queue(Now, c, "queued")) /\ service # "closed"
    BY <1>4 DEF Write, Admits
  <2>2. QED
    BY <1>1, <1>2, <2>1, QueueStep
<1>5. QED
  BY <1>3, <1>4

LEMMA StartWriteKeeps ==
    ASSUME IInv, NEW c \in Calls, StartWrite(c)
    PROVE  IInv'
<1>1. /\ call[c].at = "queued" /\ call[c].op = "execute" /\ call[c].hand = "none"
      /\ call[c].res \in Resources /\ Values /\ call[c] \in CallRecords(Resources)
      /\ PlacesOK(Resources, Now) /\ ClosedIsQuiet /\ Current(call[c])
      /\ call \in [Calls -> CallRecords(Resources)]
      /\ lane \in [Resources -> Seq(Calls)] /\ hands \in Seq(Calls)
  BY Parts DEF StartWrite, LooksOK, Looking
<1>2. UNCHANGED <<epoch, desk, states, stopped, quarantines, active, granted, aborted,
                  closing, disabling, switch, ending>>
  BY DEF StartWrite, sessions
<1>3. CASE Available /\ epoch[call[c].res] = call[c].epoch
  <2> DEFINE y == [call[c] EXCEPT !.at = "waiting"]
             w == [call |-> [call EXCEPT ![c] = y], lane |-> lane, hands |-> Append(hands, c)]
  <2>1. Become(w)
    BY <1>3 DEF StartWrite, WantHands, Become
  <2>2. /\ w.call = [call EXCEPT ![c] = y] /\ w.lane = lane /\ w.hands = Append(hands, c)
        /\ w = [call |-> w.call, lane |-> w.lane, hands |-> w.hands]
    OBVIOUS
  <2>3. /\ y \in CallRecords(Resources) /\ y.at = "waiting" /\ y.hand = "none"
        /\ y.res = call[c].res /\ y.epoch = call[c].epoch /\ y.seen = call[c].seen
    BY <1>1 DEF CallRecords, Places
  <2>4. FirstIn(lane[call[c].res], c)
    BY DEF StartWrite
  <2> HIDE DEF y, w
  <2>5. PlacesOK(Resources, w)
    <3>1. w \in PlaceRecords(Resources)
      <4>1. w.call \in [Calls -> CallRecords(Resources)]
        BY <1>1, <2>2, <2>3
      <4>2. w.hands \in Seq(Calls)
        BY <1>1, <2>2, FirstOfAppend
      <4>3. QED
        BY <1>1, <2>2, <4>1, <4>2 DEF PlaceRecords
    <3>2. ASSUME NEW d \in Calls PROVE PlaceOK(Resources, w, d)
      <4>1. w.call[d] = IF d = c THEN y ELSE call[d]
        BY <1>1, <2>2
      <4>2. PlaceOK(Resources, Now, d)
        BY <1>1 DEF PlacesOK
      <4>3. FirstIn(hands, d) => FirstIn(w.hands, d)
        BY <1>1, <2>2, FirstOfAppend
      <4>4. QED
        BY <1>1, <2>2, <2>3, <2>4, <4>1, <4>2, <4>3 DEF PlaceOK, Now, Handling
    <3>3. QED
      BY <3>1, <3>2 DEF PlacesOK
  <2>6. PlacesOK(Resources, Now)'
    BY <1>1, <1>2, <2>1, <2>5, Became DEF Values
  <2>7. CurrentBut(c, y)
    BY <1>1, <2>3 DEF Current, CurrentBut, Sent
  <2>8. service # "closed"
    BY <1>1 DEF ClosedIsQuiet
  <2>9. MayGo(c, y)
    BY <1>3, <2>3, <2>7, <2>8 DEF MayGo, Looking, Handling
  <2>10. QED
    BY <1>1, <1>2, <2>1, <2>2, <2>6, <2>9, GoStep DEF Become
<1>4. CASE ~(Available /\ epoch[call[c].res] = call[c].epoch)
  <2>1. Become(Leave(Now, c, "returned"))
    BY <1>4 DEF StartWrite
  <2>2. QED
    BY <1>1, <1>2, <2>1, EndStep DEF Values
<1>5. QED
  BY <1>3, <1>4

LEMMA StartDispatchKeeps ==
    ASSUME IInv, NEW c \in Calls, StartDispatch(c)
    PROVE  IInv'
<1>1. /\ call[c].at = "waiting" /\ FirstIn(hands, c) /\ call[c].hand = "none"
      /\ call[c].res \in Resources /\ Values /\ call[c] \in CallRecords(Resources)
      /\ PlacesOK(Resources, Now) /\ ClosedIsQuiet /\ Current(call[c])
      /\ call[c].epoch = epoch[call[c].res] /\ FirstIn(lane[call[c].res], c)
      /\ SessionsOK /\ HandsOK
      /\ call \in [Calls -> CallRecords(Resources)]
      /\ lane \in [Resources -> Seq(Calls)] /\ hands \in Seq(Calls)
  BY Parts DEF StartDispatch, LooksOK, Looking, Holding
<1>2. UNCHANGED <<epoch, desk, states, stopped, quarantines, active, granted, aborted,
                  closing, disabling, switch, ending>>
  BY DEF StartDispatch, sessions
<1>3. CASE Authorized(c) /\ ~SignalAborted(c)
  <2> DEFINE y == [call[c] EXCEPT !.at = "recording"]
  <2>1. Become([Now EXCEPT !.call[c].at = "recording"])
    BY <1>3 DEF StartDispatch
  <2>2. call' = [call EXCEPT ![c] = y] /\ lane' = lane /\ hands' = hands
    BY <2>1 DEF Become, Now
  <2>3. /\ y \in CallRecords(Resources) /\ y.at = "recording" /\ y.hand = "none"
        /\ y.res = call[c].res /\ y.epoch = call[c].epoch /\ y.seen = call[c].seen
        /\ y.session = call[c].session
    BY <1>1 DEF CallRecords, Places
  <2> HIDE DEF y
  <2>4. PlacesOK(Resources, Now)'
    BY <1>1, <1>2, <2>2, <2>3, StayPlaces
  <2>5. CurrentBut(c, y)
    BY <1>1, <2>3 DEF Current, CurrentBut, Sent
  <2>6. IsEnabled /\ Available /\ y.session \in granted
    BY <1>3, <2>3 DEF Authorized, IsEnabled
  <2>7. service = "open"
    BY <1>1, <2>6 DEF SessionsOK, IsEnabled
  <2>8. ASSUME NEW d \in Calls \ {c} PROVE call[d].hand = "none"
    <3>1. call[d].at # "acting"
      BY <1>1, Parts DEF Handling, FirstIn
    <3>2. QED
      BY <1>1, <2>6, <3>1 DEF HandsOK, Available
  <2>9. MayGo(c, y)
    BY <1>1, <2>3, <2>5, <2>6, <2>7, <2>8 DEF MayGo, Looking
  <2>10. QED
    BY <1>1, <1>2, <2>2, <2>4, <2>9, GoStep
<1>4. CASE ~(Authorized(c) /\ ~SignalAborted(c))
  <2>1. Become(Leave(Now, c, "returned"))
    BY <1>4 DEF StartDispatch
  <2>2. QED
    BY <1>1, <1>2, <2>1, EndStep DEF Values
<1>5. QED
  BY <1>3, <1>4

LEMMA NotRecordedKeeps ==
    ASSUME IInv, NEW c \in Calls, NotRecorded(c)
    PROVE  IInv'
<1>1. /\ call[c].at = "recording" /\ call[c].hand = "none" /\ Values
      /\ Become(Leave(Now, c, "returned"))
      /\ UNCHANGED <<epoch, desk, states, stopped, quarantines, active, granted, aborted,
                  closing, disabling, switch, ending>>
  BY Parts DEF NotRecorded, sessions
<1>2. QED
  BY <1>1, EndStep DEF Values

LEMMA ActEndsKeeps ==
    ASSUME IInv, NEW c \in Calls, ActEnds(c)
    PROVE  IInv'
<1> DEFINE y == [call[c] EXCEPT !.at = "watching", !.hand = "none",
                                !.seen = desk[call[c].res]]
<1>1. /\ call[c].at = "acting" /\ FirstIn(hands, c)
      /\ call[c].res \in Resources /\ Values /\ call[c] \in CallRecords(Resources)
      /\ PlacesOK(Resources, Now) /\ ClosedIsQuiet /\ HandsOK
      /\ call[c].epoch = epoch[call[c].res] /\ FirstIn(lane[call[c].res], c)
  BY Parts DEF ActEnds, LooksOK, Looking, Holding, Handling
<1>2. /\ call' = [call EXCEPT ![c] = y]
      /\ UNCHANGED <<lane, hands, epoch, desk, states, stopped, quarantines, active, granted,
                     aborted, closing, disabling, switch, ending>>
  BY DEF ActEnds, sessions
<1>3. /\ y \in CallRecords(Resources) /\ y.at = "watching" /\ y.hand = "none"
      /\ y.res = call[c].res /\ y.epoch = call[c].epoch /\ y.seen = desk[y.res]
  BY <1>1 DEF CallRecords, Places, Values
<1> HIDE DEF y
<1>4. PlacesOK(Resources, Now)'
  BY <1>1, <1>2, <1>3, StayPlaces
<1>5. \A d \in Calls \ {c} : call[d].hand = "none"
  BY <1>1 DEF HandsOK, Handling
<1>6. epoch[y.res] \in Nat
  BY <1>1, <1>3 DEF Values
<1>7. CurrentBut(c, y)
  BY <1>1, <1>3, <1>5, <1>6 DEF CurrentBut
<1>8. MayGo(c, y)
  BY <1>1, <1>3, <1>5, <1>7 DEF MayGo, Looking, ClosedIsQuiet
<1>9. QED
  BY <1>1, <1>2, <1>4, <1>8, GoStep

LEMMA WatchEndsKeeps ==
    ASSUME IInv, NEW c \in Calls, WatchEnds(c)
    PROVE  IInv'
<1>1. /\ call[c].at = "watching" /\ call[c].hand = "none" /\ Values
      /\ Publish(c, call[c].epoch) \/ UNCHANGED states
      /\ Become(Leave(Now, c, "returned"))
      /\ UNCHANGED <<epoch, desk, stopped, quarantines, active, granted, aborted,
                  closing, disabling, switch, ending>>
  BY Parts DEF WatchEnds, sessions
<1>2. /\ states' \subseteq [res : Resources, epoch : Nat, seen : Nat]
      /\ \A o \in states' : o \in states \/ Current(o)
  BY <1>1, Published DEF Values
<1>3. QED
  BY <1>1, <1>2, EndStep

LEMMA ActFailsKeeps ==
    ASSUME IInv, NEW c \in Calls, NEW unsafe \in BOOLEAN, ActFails(c, unsafe)
    PROVE  IInv'
<1>1. /\ call[c].at \in Handling
      /\ UNCHANGED <<epoch, desk, states, stopped, switch, ending>>
  BY DEF ActFails, Handling
<1>2. CASE unsafe
  <2>1. Failed(Leave(Now, c, "returned"), c, unsafe)
    BY <1>2 DEF ActFails
  <2>2. QED
    BY <1>1, <1>2, <2>1, FailedStep
<1>3. CASE ~unsafe
  <2>1. Failed(Survey(Now, c), c, unsafe)
    BY <1>3 DEF ActFails
  <2>2. /\ Become(Survey(Now, c))
        /\ UNCHANGED <<quarantines, active, granted, aborted, closing, disabling>>
    BY <1>3, <2>1 DEF Failed, sessions
  <2>3. QED
    BY <1>1, <2>2, SurveyStep
<1>4. QED
  BY <1>2, <1>3

-----------------------------------------------------------------------------
(* Helpers at work *)

\* The sessions are as they were for calls that do not come to the ledger.
LEMMA SessionsStay ==
    ASSUME IInv, quarantines' \subseteq quarantines,
           UNCHANGED <<active, granted, aborted, disabling, switch, ending>>,
           \A d \in Calls : /\ call[d].at = "returned" => call'[d].at = "returned"
                            /\ call'[d].at = "recording" =>
                                 call[d].at = "recording" /\ call'[d].session = call[d].session
    PROVE  SessionsOK'
<1>1. SessionsOK /\ Values
  BY Parts
<1>2. \A s \in active' \cup aborted' : call'[s].at = "returned"
  BY <1>1 DEF SessionsOK, Values
<1>3. IsEnabled => IsEnabled'
  BY DEF IsEnabled, Available, switch
<1>4. \A d \in Calls : call'[d].at = "recording" /\ call'[d].session \notin aborted'
           => IsEnabled' /\ call'[d].session \in granted' /\ service' = "open"
  BY <1>1, <1>3 DEF SessionsOK, ending
<1>5. QED
  BY <1>1, <1>2, <1>4 DEF SessionsOK, switch, ending

LEMMA DispatchKeeps ==
    ASSUME IInv, NEW c \in Calls, Dispatch(c)
    PROVE  IInv'
<1>1. /\ call[c].at = "recording" /\ call[c].hand = "none"
      /\ call[c].res \in Resources /\ Values /\ call[c] \in CallRecords(Resources)
      /\ PlacesOK(Resources, Now) /\ ClosedIsQuiet /\ HandsOK /\ LooksOK /\ FirstIn(hands, c)
      /\ call[c].epoch = epoch[call[c].res] /\ FirstIn(lane[call[c].res], c)
      /\ call \in [Calls -> CallRecords(Resources)]
  BY Parts DEF Dispatch, LooksOK, Looking, Holding, Handling
<1>2. UNCHANGED <<desk, states, stopped, quarantines, active, granted, aborted,
                  closing, disabling, switch, ending>>
  BY DEF Dispatch, sessions
<1>3. CASE SignalAborted(c)
  <2>1. Become(Survey(Now, c)) /\ UNCHANGED epoch
    BY <1>3 DEF Dispatch
  <2>2. QED
    BY <1>1, <1>2, <2>1, SurveyStep DEF Handling
<1>4. CASE ~SignalAborted(c)
  <2> DEFINE r == call[c].res
             y == [call[c] EXCEPT !.at = "acting", !.epoch = @ + 1, !.sends = 1, !.hand = "sent"]
  <2>1. /\ call' = [call EXCEPT ![c] = y] /\ epoch' = [epoch EXCEPT ![r] = @ + 1]
        /\ UNCHANGED <<lane, hands>>
    BY <1>4 DEF Dispatch
  <2>2. /\ y \in CallRecords(Resources) /\ y.at = "acting" /\ y.hand = "sent"
        /\ y.res = r /\ y.epoch = call[c].epoch + 1
    <3>1. call[c].epoch \in Nat /\ call[c].epoch + 1 \in Nat
      BY <1>1 DEF CallRecords
    <3>2. \A z \in CallRecords(Resources), n \in Nat, k \in 0..2 :
            [z EXCEPT !.at = "acting", !.epoch = n, !.sends = k, !.hand = "sent"]
              \in CallRecords(Resources)
      BY DEF CallRecords, Places
    <3>3. y = [call[c] EXCEPT !.at = "acting", !.epoch = call[c].epoch + 1, !.sends = 1,
                              !.hand = "sent"]
      BY <1>1 DEF CallRecords
    <3> HIDE DEF y
    <3>4. y \in CallRecords(Resources)
      <4>1. ASSUME NEW n \in Nat, NEW k \in 0..2, n = call[c].epoch + 1, k = 1
            PROVE  y \in CallRecords(Resources)
        <5>1. y = [call[c] EXCEPT !.at = "acting", !.epoch = n, !.sends = k, !.hand = "sent"]
          BY <3>3, <4>1
        <5>2. QED
          BY <1>1, <3>2, <5>1
      <4>2. QED
        BY <3>1, <4>1
    <3>5. /\ y.at = "acting" /\ y.hand = "sent" /\ y.res = r
          /\ y.epoch = call[c].epoch + 1
      BY <1>1, <3>3 DEF CallRecords
    <3>6. QED
      BY <3>4, <3>5
  <2> HIDE DEF y
  <2>3. epoch' \in [Resources -> Nat] /\ Resources' = Resources
    BY <1>1, <2>1 DEF Values, Resources
  <2>4. PlacesOK(Resources, Now)'
    BY <1>1, <2>1, <2>2, <2>3, StayPlaces DEF Resources
  <2>5. call'[c] = y /\ \A d \in Calls \ {c} : call'[d] = call[d]
    BY <1>1, <2>1
  <2>6. TypeOK'
    <3>1. Values'
      BY <1>1, <1>2, <2>3 DEF Values, switch, ending
    <3>2. QED
      BY <2>3, <2>4, <3>1, TypeParts DEF TypeOK, PlacesOK, PlaceRecords, CallRecords, Now, Values
  <2>7. \A d \in Calls : call[d].hand = "none"
    BY <1>1 DEF HandsOK, Handling
  <2>8. HandsOK'
    <3>1. \A d \in Calls : d # c /\ call[d].at \in Handling => FALSE
      BY <1>1, Parts DEF FirstIn
    <3>2. QED
      BY <2>2, <2>5, <2>7, <3>1 DEF HandsOK
  <2>9. LooksOK'
    <3>1. ASSUME NEW x, Current(x), x.res \in Resources, x.epoch \in Nat
          PROVE  Current(x)'
      <4>1. epoch[x.res] \in Nat /\ epoch[r] \in Nat
        BY <1>1, <3>1 DEF Values
      <4>2. CASE x.res = r
        <5>1. epoch'[x.res] = epoch[x.res] + 1
          BY <1>1, <2>1, <4>2 DEF Values
        <5>2. QED
          BY <3>1, <4>1, <5>1 DEF Current
      <4>3. CASE x.res # r
        <5>1. epoch'[x.res] = epoch[x.res] /\ desk' = desk
          BY <1>1, <1>2, <2>1, <3>1, <4>3 DEF Values
        <5>2. ~Sent(x.res)'
          BY <2>2, <2>5, <2>7, <4>3 DEF Sent
        <5>3. QED
          BY <3>1, <5>1, <5>2 DEF Current
      <4>4. QED
        BY <4>2, <4>3
    <3>2. ASSUME NEW o \in states' PROVE Current(o)'
      <4>1. o \in states /\ o \in [res : Resources, epoch : Nat, seen : Nat]
        BY <1>1, <1>2 DEF Values
      <4>2. Current(o)
        BY <1>1, <4>1 DEF LooksOK, Looking
      <4>3. QED
        BY <3>1, <4>1, <4>2
    <3>3. ASSUME NEW d \in Calls, d # c, call[d].at \notin {"idle", "returned"}, Current(call[d])
          PROVE  Current(call[d])'
      <4>1. call[d].res \in Resources /\ call[d] \in CallRecords(Resources) /\ call'[d] = call[d]
        BY <2>5, <3>3, Parts
      <4>2. call[d].epoch \in Nat
        BY <4>1 DEF CallRecords
      <4>3. ASSUME NEW x, x = call[d], Current(x)' PROVE Current(call[d])'
        BY <4>1, <4>3 DEF Current
      <4>4. QED
        BY <3>1, <3>3, <4>1, <4>2, <4>3
    <3>4. ASSUME NEW d \in Calls, d # c, call[d].at \in Holding
          PROVE  epoch'[call[d].res] = epoch[call[d].res]
      <4>1. call[d].res \in Resources /\ FirstIn(lane[call[d].res], d)
        BY <3>4, Parts DEF Holding
      <4>2. call[d].res # r
        BY <1>1, <3>4, <4>1 DEF FirstIn
      <4>3. QED
        BY <1>1, <2>1, <4>1, <4>2 DEF Values
    <3>5. y.epoch = epoch'[y.res]
      BY <1>1, <2>1, <2>2 DEF Values
    <3>6. ASSUME NEW d \in Calls
          PROVE  /\ call'[d].at \in Looking
                      => Current(call[d])'
                 /\ call'[d].at = "queued" /\ call'[d].op = "execute" => Current(call[d])'
                 /\ call'[d].at \in Holding => call'[d].epoch = epoch'[call'[d].res]
                 /\ call'[d].at = "identifying" => call'[d].op = "observe"
      <4>1. CASE d = c
        BY <2>2, <2>5, <3>5, <4>1 DEF Looking
      <4>2. CASE d # c
        BY <1>1, <2>5, <3>3, <3>4, <4>2 DEF LooksOK, Looking
      <4>3. QED
        BY <4>1, <4>2
    <3>7. QED
      BY <3>2, <3>6 DEF LooksOK, Looking
  <2>10. SessionsOK'
    BY <1>1, <1>2, <2>2, <2>5, SessionsStay
  <2>11. ClosedIsQuiet'
    BY <1>1, <1>2 DEF ClosedIsQuiet, ending
  <2>12. QED
    BY <2>3, <2>4, <2>6, <2>8, <2>9, <2>10, <2>11 DEF IInv
<1>5. QED
  BY <1>3, <1>4

\* A call changes in nothing but its helper and how often it was sent.
LEMMA HelperStep ==
    ASSUME IInv, NEW c \in Calls, NEW y \in CallRecords(Resources),
           call' = [call EXCEPT ![c] = y], y.at = call[c].at, y.op = call[c].op,
           y.res = call[c].res, y.epoch = call[c].epoch, y.seen = call[c].seen,
           y.session = call[c].session,
           y.hand # "none" => call[c].hand # "none",
           y.hand = "sent" => call[c].hand = "sent",
           quarantines' \subseteq quarantines,
           call[c].hand = "sent" \/ desk' = desk,
           desk' \in [Resources -> Nat],
           \A r \in Resources : r # call[c].res => desk'[r] = desk[r],
           \A d \in Calls : call'[d].hand # "none" /\ <<"helper", d>> \in quarantines
                              => <<"helper", d>> \in quarantines',
           UNCHANGED <<lane, hands, epoch, states, stopped, active, granted, aborted,
                       closing, disabling, switch, ending>>
    PROVE  IInv'
<1>1. /\ Values /\ PlacesOK(Resources, Now) /\ ClosedIsQuiet /\ HandsOK /\ LooksOK
      /\ call \in [Calls -> CallRecords(Resources)]
  BY Parts
<1>2. Resources' = Resources
  BY DEF Resources
<1>3. call'[c] = y /\ \A d \in Calls \ {c} : call'[d] = call[d]
  BY <1>1
<1>4. ASSUME NEW d \in Calls
      PROVE  /\ call'[d].at = call[d].at /\ call'[d].op = call[d].op
             /\ call'[d].res = call[d].res /\ call'[d].epoch = call[d].epoch
             /\ call'[d].seen = call[d].seen /\ call'[d].session = call[d].session
             /\ call'[d].hand # "none" => call[d].hand # "none"
             /\ call'[d].hand = "sent" => call[d].hand = "sent"
  BY <1>3
<1>5. PlacesOK(Resources, Now)'
  <2>1. PlaceOK(Resources, Now, c)
    BY <1>1 DEF PlacesOK
  <2>2. QED
    BY <1>1, <2>1, StayPlaces DEF PlaceOK, Now
<1>6. TypeOK'
  <2>1. Values'
    <3>1. quarantines' \subseteq {"helper", "dispose"} \X Calls
      BY <1>1 DEF Values
    <3>2. QED
      BY <1>1, <1>2, <3>1 DEF Values, switch, ending
  <2>2. QED
    BY <1>2, <1>5, <2>1, TypeParts DEF TypeOK, PlacesOK, PlaceRecords, CallRecords, Now, Values
<1>7. HandsOK'
  <2>1. ASSUME NEW d \in Calls, call'[d].hand # "none"
        PROVE  \/ call'[d].at = "acting"
               \/ call'[d].at = "returned" /\ <<"helper", d>> \in quarantines'
    BY <1>1, <1>4, <2>1 DEF HandsOK
  <2>2. ASSUME NEW e \in Calls, NEW d \in Calls, call'[e].hand # "none",
               call'[d].at \in Handling \/ call'[d].hand # "none"
        PROVE  e = d
    BY <1>1, <1>4, <2>2 DEF HandsOK
  <2>3. QED
    BY <2>1, <2>2 DEF HandsOK
<1>8. LooksOK'
  <2>1. ASSUME NEW x, Current(x), x.res \in Resources
        PROVE  /\ x.epoch <= epoch'[x.res]
               /\ x.epoch = epoch'[x.res] => x.seen = desk'[x.res] /\ ~Sent(x.res)'
    <3>1. Sent(x.res)' => Sent(x.res)
      BY <1>4 DEF Sent
    <3>2. x.epoch = epoch[x.res] => desk'[x.res] = desk[x.res]
      BY <2>1 DEF Current, Sent
    <3>3. QED
      BY <2>1, <3>1, <3>2 DEF Current
  <2>2. ASSUME NEW o \in states' PROVE Current(o)'
    <3>1. o \in [res : Resources, epoch : Nat, seen : Nat] /\ Current(o)
      BY <1>1 DEF Values, LooksOK, Looking
    <3>2. QED
      BY <2>1, <3>1 DEF Current
  <2>3. ASSUME NEW d \in Calls, call[d].at \notin {"idle", "returned"}, Current(call[d])
        PROVE  Current(call[d])'
    <3>1. call[d].res \in Resources
      BY <2>3, Parts
    <3>2. /\ call[d].epoch <= epoch'[call[d].res]
          /\ call[d].epoch = epoch'[call[d].res] =>
               call[d].seen = desk'[call[d].res] /\ ~Sent(call[d].res)'
      <4>1. ASSUME NEW x, x = call[d]
            PROVE  /\ x.epoch <= epoch'[x.res]
                   /\ x.epoch = epoch'[x.res] => x.seen = desk'[x.res] /\ ~Sent(x.res)'
        BY <2>1, <2>3, <3>1, <4>1
      <4>2. QED
        BY <4>1 DEF Sent
    <3>3. Sent(call[d].res)' <=>
            \E e \in Calls : call'[e].hand = "sent" /\ call'[e].res = call'[d].res
      BY DEF Sent
    <3>4. QED
      BY <1>4, <3>2, <3>3 DEF Current, Sent
  <2>4. ASSUME NEW d \in Calls
        PROVE  /\ call'[d].at \in Looking
                    => Current(call[d])'
               /\ call'[d].at = "queued" /\ call'[d].op = "execute" => Current(call[d])'
               /\ call'[d].at \in Holding => call'[d].epoch = epoch'[call'[d].res]
               /\ call'[d].at = "identifying" => call'[d].op = "observe"
    BY <1>1, <1>4, <2>3 DEF LooksOK, Looking
  <2>5. QED
    BY <2>2, <2>4 DEF LooksOK, Looking
<1>9. SessionsOK'
  BY <1>4, SessionsStay
<1>10. ClosedIsQuiet'
  BY <1>1, <1>4 DEF ClosedIsQuiet, ending
<1>11. QED
  BY <1>2, <1>5, <1>6, <1>7, <1>8, <1>9, <1>10 DEF IInv

LEMMA RetryKeeps ==
    ASSUME IInv, NEW c \in Calls, Retry(c)
    PROVE  IInv'
<1>1. /\ call[c].at = "acting" /\ call[c].hand = "sent" /\ Values
      /\ call[c] \in CallRecords(Resources)
      /\ UNCHANGED <<epoch, desk, states, stopped, quarantines, active, granted, aborted,
                  closing, disabling, switch, ending>>
  BY Parts DEF Retry, sessions
<1>2. CASE ~SignalAborted(c) /\ Authorized(c)
  <2> DEFINE y == [call[c] EXCEPT !.sends = 2]
  <2>1. Become([Now EXCEPT !.call[c].sends = 2])
    BY <1>2 DEF Retry
  <2>2. call' = [call EXCEPT ![c] = y] /\ lane' = lane /\ hands' = hands
    BY <2>1 DEF Become, Now
  <2>3. /\ y \in CallRecords(Resources) /\ y.at = call[c].at /\ y.op = call[c].op
        /\ y.res = call[c].res /\ y.epoch = call[c].epoch /\ y.seen = call[c].seen
        /\ y.session = call[c].session /\ y.hand = "sent"
    BY <1>1 DEF CallRecords, Places
  <2> HIDE DEF y
  <2>4. desk' \in [Resources -> Nat]
    BY <1>1 DEF Values
  <2>5. QED
    BY <1>1, <2>2, <2>3, <2>4, HelperStep
<1>3. CASE ~(~SignalAborted(c) /\ Authorized(c))
  <2>1. Become(Survey(Now, c))
    BY <1>3 DEF Retry
  <2>2. QED
    BY <1>1, <2>1, SurveyStep DEF Handling
<1>4. QED
  BY <1>2, <1>3

LEMMA LandsKeeps ==
    ASSUME IInv, NEW c \in Calls, Lands(c)
    PROVE  IInv'
<1> DEFINE y == [call[c] EXCEPT !.hand = "landed"]
<1>1. /\ call[c].hand = "sent" /\ Values /\ call[c] \in CallRecords(Resources)
      /\ call' = [call EXCEPT ![c] = y]
      /\ desk' = [desk EXCEPT ![call[c].res] = @ + 1]
      /\ UNCHANGED <<lane, hands, epoch, states, stopped, quarantines, active, granted, aborted,
                  closing, disabling, switch, ending>>
  BY Parts DEF Lands, sessions
<1>2. /\ y \in CallRecords(Resources) /\ y.at = call[c].at /\ y.op = call[c].op
      /\ y.res = call[c].res /\ y.epoch = call[c].epoch /\ y.seen = call[c].seen
      /\ y.session = call[c].session /\ y.hand = "landed"
  BY <1>1 DEF CallRecords, Places
<1> HIDE DEF y
<1>3. desk' \in [Resources -> Nat] /\ \A r \in Resources : r # call[c].res => desk'[r] = desk[r]
  <2>1. desk \in [Resources -> Nat]
    BY <1>1 DEF Values
  <2>2. CASE call[c].res \in Resources
    <3>1. desk[call[c].res] + 1 \in Nat
      BY <2>1, <2>2
    <3>2. QED
      BY <1>1, <2>1, <2>2, <3>1
  <2>3. CASE call[c].res \notin Resources
    BY <1>1, <2>1, <2>3
  <2>4. QED
    BY <2>2, <2>3
<1>4. QED
  BY <1>1, <1>2, <1>3, HelperStep

LEMMA ConfirmKeeps ==
    ASSUME IInv, NEW failure \in quarantines, Confirm(failure)
    PROVE  IInv'
<1>1. /\ Values /\ call \in [Calls -> CallRecords(Resources)]
      /\ quarantines' = quarantines \ {failure}
      /\ UNCHANGED <<lane, hands, epoch, desk, states, stopped, active, granted, aborted,
                  closing, disabling, switch, ending>>
  BY Parts DEF Confirm, sessions
<1>2. PICK c \in Calls : failure = <<"helper", c>> \/ failure = <<"dispose", c>>
  BY <1>1 DEF Values
<1> DEFINE y == [call[c] EXCEPT !.hand = IF failure = <<"helper", c>> THEN "none" ELSE @]
<1>3. call' = [call EXCEPT ![c] = y]
  <2>1. failure[1] = "helper" <=> failure = <<"helper", c>>
    BY <1>2
  <2>2. CASE failure = <<"helper", c>>
    BY <2>2 DEF Confirm
  <2>3. CASE failure # <<"helper", c>>
    <3>1. call' = call
      BY <2>1, <2>3 DEF Confirm
    <3>2. y = call[c]
      BY <1>1, <2>3 DEF CallRecords
    <3>3. QED
      BY <1>1, <3>1, <3>2
  <2>4. QED
    BY <2>2, <2>3
<1>4. /\ y \in CallRecords(Resources) /\ y.at = call[c].at /\ y.op = call[c].op
      /\ y.res = call[c].res /\ y.epoch = call[c].epoch /\ y.seen = call[c].seen
      /\ y.session = call[c].session
      /\ y.hand = IF failure = <<"helper", c>> THEN "none" ELSE call[c].hand
  <2>1. call[c] \in CallRecords(Resources)
    BY <1>1
  <2>2. QED
    BY <2>1 DEF CallRecords
<1> HIDE DEF y
<1>5. desk' \in [Resources -> Nat]
  BY <1>1 DEF Values
<1>6. ASSUME NEW d \in Calls, call'[d].hand # "none", <<"helper", d>> \in quarantines
      PROVE  <<"helper", d>> \in quarantines'
  <2>1. <<"helper", d>> # failure
    BY <1>1, <1>2, <1>3, <1>4, <1>6
  <2>2. QED
    BY <1>1, <1>6, <2>1
<1>7. QED
  BY <1>1, <1>3, <1>4, <1>5, <1>6, HelperStep

-----------------------------------------------------------------------------
(* Turns, signals and sessions *)

\* The turn of one that has returned is nobody else's.
LEMMA PassTidy ==
    ASSUME PlacesOK(Resources, Now), NEW Q,
           NEW l \in [Resources -> Seq(Calls)], NEW h \in Seq(Calls),
           \A r \in Resources : \/ l[r] = lane[r]
                                \/ /\ lane[r] # <<>> /\ call[Head(lane[r])].at = "returned"
                                   /\ l[r] = Tail(lane[r]),
           h = hands \/ /\ hands # <<>> /\ call[Head(hands)].at = "returned"
                        /\ h = Tail(hands)
    PROVE  Tidy([call |-> call, lane |-> l, hands |-> h], Q)
<1> DEFINE w == [call |-> call, lane |-> l, hands |-> h]
<1>1. /\ call \in [Calls -> CallRecords(Resources)] /\ lane \in [Resources -> Seq(Calls)]
      /\ hands \in Seq(Calls) /\ \A d \in Calls : PlaceOK(Resources, Now, d)
  BY DEF PlacesOK, PlaceRecords, Now
<1>2. ASSUME NEW d \in Calls PROVE PlaceOK(Resources, w, d)
  <2>1. CASE call[d].at = "returned"
    BY <2>1 DEF PlaceOK, Holding, Handling
  <2>2. CASE call[d].at # "returned"
    <3>1. ASSUME NEW r \in Resources
          PROVE  /\ FirstIn(lane[r], d) => FirstIn(l[r], d)
                 /\ In(lane[r], d) => In(l[r], d)
      <4>1. CASE l[r] = lane[r]
        BY <4>1
      <4>2. CASE /\ lane[r] # <<>> /\ call[Head(lane[r])].at = "returned"
                 /\ l[r] = Tail(lane[r])
        <5>1. ~FirstIn(lane[r], d) /\ lane[r] \in Seq(Calls)
          BY <1>1, <2>2, <4>2 DEF FirstIn
        <5>2. QED
          BY <4>2, <5>1, InTail
      <4>3. QED
        BY <4>1, <4>2
    <3>2. FirstIn(hands, d) => FirstIn(h, d)
      BY <2>2 DEF FirstIn
    <3>3. PlaceOK(Resources, Now, d)
      BY <1>1
    <3>4. QED
      BY <3>1, <3>2, <3>3 DEF PlaceOK, Now, Holding, Handling
  <2>3. QED
    BY <2>1, <2>2
<1>3. w \in PlaceRecords(Resources)
  BY <1>1 DEF PlaceRecords
<1>4. PlacesOK(Resources, w)
  BY <1>2, <1>3 DEF PlacesOK
<1>5. QED
  BY <1>4 DEF Tidy

LEMMA PassKeeps ==
    ASSUME IInv, Pass
    PROVE  IInv'
<1>1. /\ Values /\ PlacesOK(Resources, Now) /\ call \in [Calls -> CallRecords(Resources)]
      /\ lane \in [Resources -> Seq(Calls)] /\ hands \in Seq(Calls)
  BY Parts
<1>2. /\ UNCHANGED <<call, epoch, desk, states, stopped, quarantines, active, granted, aborted,
                     closing, disabling, switch, ending>>
      /\ \/ /\ hands' = hands
            /\ \E r \in Resources : /\ lane[r] # <<>> /\ call[Head(lane[r])].at = "returned"
                                    /\ lane' = [lane EXCEPT ![r] = Tail(@)]
         \/ /\ lane' = lane /\ hands # <<>> /\ call[Head(hands)].at = "returned"
            /\ hands' = Tail(hands)
  BY DEF Pass, sessions
<1>3. \A s \in Seq(Calls) : s # <<>> => Tail(s) \in Seq(Calls)
  OBVIOUS
<1>4. /\ lane' \in [Resources -> Seq(Calls)] /\ hands' \in Seq(Calls)
      /\ \A r \in Resources : \/ lane'[r] = lane[r]
                              \/ /\ lane[r] # <<>> /\ call[Head(lane[r])].at = "returned"
                                 /\ lane'[r] = Tail(lane[r])
      /\ hands' = hands \/ /\ hands # <<>> /\ call[Head(hands)].at = "returned"
                           /\ hands' = Tail(hands)
  <2>1. CASE /\ hands' = hands
             /\ \E r \in Resources : /\ lane[r] # <<>> /\ call[Head(lane[r])].at = "returned"
                                     /\ lane' = [lane EXCEPT ![r] = Tail(@)]
    <3>1. PICK r \in Resources : /\ lane[r] # <<>> /\ call[Head(lane[r])].at = "returned"
                                 /\ lane' = [lane EXCEPT ![r] = Tail(@)]
      BY <2>1
    <3>2. Tail(lane[r]) \in Seq(Calls)
      BY <1>1, <1>3, <3>1
    <3>3. QED
      BY <1>1, <2>1, <3>1, <3>2
  <2>2. CASE /\ lane' = lane /\ hands # <<>> /\ call[Head(hands)].at = "returned"
             /\ hands' = Tail(hands)
    BY <1>1, <1>3, <2>2
  <2>3. QED
    BY <1>2, <2>1, <2>2
<1> DEFINE w == [call |-> call, lane |-> lane', hands |-> hands']
<1>5. Tidy(w, quarantines')
  BY <1>1, <1>4, PassTidy
<1>6. Become(w)
  BY <1>2 DEF Become
<1>7. Values'
  BY <1>1, <1>2 DEF Values, switch, ending, Resources
<1>8. SessionStep
  BY <1>2, StillStep
<1> HIDE DEF w
<1>9. QED
  BY <1>2, <1>5, <1>6, <1>7, <1>8, RestStep DEF ending

LEMMA AbortKeeps ==
    ASSUME IInv, NEW c \in Calls, Abort(c)
    PROVE  IInv'
<1>1. Values /\ PlacesOK(Resources, Now) /\ HandsOK
  BY Parts
<1>2. /\ stopped' = stopped \cup {c} /\ Become(Reject(Now, {c}))
      /\ UNCHANGED <<epoch, desk, states, quarantines, active, granted, aborted, closing,
                     disabling, switch, ending>>
  BY DEF Abort, sessions
<1>3. Tidy(Reject(Now, {c}), quarantines')
  BY <1>1, NowTidy, RejectTidy
<1>4. Values'
  BY <1>1, <1>2 DEF Values, switch, ending, Resources
<1>5. SessionStep
  BY <1>2, StillStep
<1>6. QED
  BY <1>2, <1>3, <1>4, <1>5, RestStep DEF ending

\* Those that wait under a session are rejected when it is closed.
LEMMA UnderTidy ==
    ASSUME IInv, NEW S, NEW Q
    PROVE  Tidy(Reject(Now, UnderSession(S)), Q)
<1>1. PlacesOK(Resources, Now) /\ HandsOK
  BY Parts
<1>2. QED
  BY <1>1, NowTidy, RejectTidy

LEMMA CloseRunKeeps ==
    ASSUME IInv, NEW run, CloseRun(run)
    PROVE  IInv'
<1> DEFINE mine == {s \in active : RunOf[s] = run}
<1>1. Values /\ SessionsOK
  BY Parts
<1>2. /\ Become(Reject(Now, UnderSession(mine)))
      /\ aborted' = aborted \cup mine /\ closing' = closing \cup mine
      /\ granted' = {s \in granted : RunOf[s] # run}
      /\ UNCHANGED <<active, disabling, epoch, desk, states, stopped, quarantines, enabled,
                     desired, generation, toggle, service, closes>>
  BY DEF CloseRun, CloseSessions, switch, ending
<1>3. Tidy(Reject(Now, UnderSession(mine)), quarantines')
  BY UnderTidy
<1>4. Values'
  BY <1>1, <1>2 DEF Values, Resources
<1>5. IsEnabled' = IsEnabled
  BY <1>2 DEF IsEnabled, Available
<1>6. SessionStep
  BY <1>1, <1>2, <1>5 DEF SessionStep, SessionsOK, Values
<1> HIDE DEF mine
<1>7. QED
  BY <1>2, <1>3, <1>4, <1>6, RestStep

\* The calls of setEnabled that wait have their answer.
LEMMA SettledTypes ==
    ASSUME Values, NEW well \in BOOLEAN, Settled(well)
    PROVE  /\ toggle' \in [Toggles -> [at : {"idle", "waiting", "returned"}, on : BOOLEAN,
                                       generation : Nat]]
           /\ enabled' \in BOOLEAN
           /\ enabled => enabled'
           /\ enabled' => enabled \/ desired
           /\ ~well => enabled' = enabled
           /\ service' \in {"open", "closing", "draining", "closed"}
           /\ service' = "closed" => service = "closed"
           /\ service' = "open" <=> service = "open"
           /\ disabling' = {} /\ closes' = closes
<1> DEFINE T == [at : {"idle", "waiting", "returned"}, on : BOOLEAN, generation : Nat]
<1>1. toggle \in [Toggles -> T] /\ enabled \in BOOLEAN
      /\ service \in {"open", "closing", "draining", "closed"}
  BY DEF Values
<1>2. \A x \in T : [x EXCEPT !.at = "returned"] \in T
  OBVIOUS
<1>3. toggle' \in [Toggles -> T]
  <2>1. toggle' = [t \in Toggles |-> IF toggle[t].at = "waiting"
                                     THEN [toggle[t] EXCEPT !.at = "returned"]
                                     ELSE toggle[t]]
    BY DEF Settled
  <2> HIDE DEF T
  <2>2. QED
    BY <1>1, <1>2, <2>1
<1>4. /\ disabling' = {} /\ closes' = closes
      /\ service' = IF service = "closing" THEN "draining" ELSE service
  BY DEF Settled
<1>5. enabled' \in BOOLEAN /\ (enabled => enabled') /\ (enabled' => enabled \/ desired)
  BY DEF Settled
<1>6. ~well => enabled' = enabled
  BY <1>1 DEF Settled
<1>7. QED
  BY <1>1, <1>3, <1>4, <1>5, <1>6

LEMMA DisposedKeeps ==
    ASSUME IInv, NEW s, Disposed(s)
    PROVE  IInv'
<1>1. Values /\ SessionsOK /\ PlacesOK(Resources, Now)
  BY Parts
<1>2. /\ s \in closing /\ closing' = closing \ {s} /\ active' = active \ {s}
      /\ UNCHANGED <<call, lane, hands, epoch, desk, states, stopped, quarantines, granted,
                     aborted, desired, generation>>
      /\ \/ disabling = {s} /\ Settled(TRUE)
         \/ /\ disabling # {s} /\ disabling' = disabling \ {s}
            /\ UNCHANGED <<toggle, enabled, service, closes>>
  BY DEF Disposed, lanes, ending
<1>3. /\ toggle' \in [Toggles -> [at : {"idle", "waiting", "returned"}, on : BOOLEAN,
                                  generation : Nat]]
      /\ enabled' \in BOOLEAN /\ (enabled => enabled') /\ (enabled' => enabled \/ desired)
      /\ service' \in {"open", "closing", "draining", "closed"}
      /\ service' = "closed" => service = "closed"
      /\ service' = "open" <=> service = "open"
      /\ disabling' = disabling \ {s} /\ closes' = closes
      /\ disabling # {s} => enabled' = enabled
  <2>1. CASE disabling = {s} /\ Settled(TRUE)
    <3>1. disabling \ {s} = {}
      BY <2>1
    <3>2. /\ toggle' \in [Toggles -> [at : {"idle", "waiting", "returned"}, on : BOOLEAN,
                                       generation : Nat]]
          /\ enabled' \in BOOLEAN /\ (enabled => enabled') /\ (enabled' => enabled \/ desired)
          /\ service' \in {"open", "closing", "draining", "closed"}
          /\ service' = "closed" => service = "closed"
          /\ service' = "open" <=> service = "open"
          /\ disabling' = {} /\ closes' = closes
      <4>1. PICK well \in BOOLEAN : Settled(well)
        BY <2>1, Zenon
      <4>2. QED
        BY <1>1, <4>1, SettledTypes
    <3>3. QED
      BY <2>1, <3>1, <3>2
  <2>2. CASE disabling # {s} /\ disabling' = disabling \ {s}
             /\ UNCHANGED <<toggle, enabled, service, closes>>
    BY <1>1, <2>2 DEF Values
  <2>3. QED
    BY <1>2, <2>1, <2>2
<1>4. Become(Now) /\ Tidy(Now, quarantines')
  BY <1>1, <1>2, NowTidy DEF Become, Now
<1>5. Values'
  BY <1>1, <1>2, <1>3 DEF Values, Resources
<1>6. IsEnabled => IsEnabled'
  BY <1>2, <1>3 DEF IsEnabled, Available
<1>7. SessionStep
  BY <1>1, <1>2, <1>3, <1>6 DEF SessionStep, SessionsOK
<1>8. QED
  BY <1>2, <1>3, <1>4, <1>5, <1>7, RestStep

LEMMA DisposeFailsKeeps ==
    ASSUME IInv, NEW s, NEW unsafe \in BOOLEAN, DisposeFails(s, unsafe)
    PROVE  IInv'
<1>1. Values /\ SessionsOK /\ PlacesOK(Resources, Now) /\ s \in closing /\ s \in Calls
  BY Parts DEF DisposeFails, Values
<1>2. /\ closing' = closing \ {s}
      /\ UNCHANGED <<epoch, desk, states, stopped, desired, generation>>
  BY DEF DisposeFails
<1>3. /\ toggle' \in [Toggles -> [at : {"idle", "waiting", "returned"}, on : BOOLEAN,
                                  generation : Nat]]
      /\ enabled' = enabled
      /\ service' \in {"open", "closing", "draining", "closed"}
      /\ service' = "closed" => service = "closed"
      /\ service' = "open" <=> service = "open"
      /\ disabling' = (IF s \in disabling THEN {} ELSE disabling) /\ closes' = closes
  <2>1. CASE s \in disabling
    <3>1. PICK well \in BOOLEAN : ~well /\ Settled(well)
      <4>1. Settled(FALSE)
        BY <2>1 DEF DisposeFails
      <4>2. QED
        BY <4>1, Zenon
    <3>2. QED
      BY <1>1, <2>1, <3>1, SettledTypes
  <2>2. CASE s \notin disabling
    BY <1>1, <2>2 DEF DisposeFails, ending, Values
  <2>3. QED
    BY <2>1, <2>2
<1>4. disabling' \subseteq closing' /\ (disabling' # {} => disabling # {})
  BY <1>1, <1>2, <1>3 DEF Values
<1>5. CASE unsafe
  <2> DEFINE failure == <<"dispose", s>>
  <2>1. Quarantine(Now, failure) /\ failure \in {"helper", "dispose"} \X Calls
    BY <1>1, <1>5 DEF DisposeFails
  <2> HIDE DEF failure
  <2>2. Tidy(Now, quarantines \cup {failure})
    BY <1>1, NowTidy
  <2>3. QED
    BY <1>2, <1>3, <1>4, <2>1, <2>2, QuarantineStep
<1>6. CASE ~unsafe
  <2>1. UNCHANGED <<call, lane, hands, quarantines, active, granted, aborted>>
    BY <1>6 DEF DisposeFails, lanes
  <2>2. Become(Now) /\ Tidy(Now, quarantines')
    BY <1>1, <2>1, NowTidy DEF Become, Now
  <2>3. Values'
    BY <1>1, <1>2, <1>3, <1>4, <2>1 DEF Values, Resources
  <2>4. IsEnabled => IsEnabled'
    BY <1>3, <2>1 DEF IsEnabled, Available
  <2>5. SessionStep
    BY <1>1, <1>2, <1>3, <2>1, <2>4 DEF SessionStep, SessionsOK
  <2>6. QED
    BY <1>2, <1>3, <2>1, <2>2, <2>3, <2>5, RestStep
<1>7. QED
  BY <1>5, <1>6

\* The switch is turned, and sessions are closed for it or not.
LEMMA SwitchStep ==
    ASSUME IInv,
           \/ StartDisabling /\ ~enabled'
           \/ /\ UNCHANGED <<lanes, sessions, quarantines>>
              /\ disabling # {} => ~enabled'
              /\ IsEnabled => enabled' /\ service' = service,
           UNCHANGED <<epoch, desk, states, stopped, closes>>,
           enabled' \in BOOLEAN, desired' \in BOOLEAN, generation' \in Nat,
           toggle' \in [Toggles -> [at : {"idle", "waiting", "returned"}, on : BOOLEAN,
                                    generation : Nat]],
           service' \in {"open", "closing", "draining"},
           enabled' => desired', service' # "open" => ~desired'
    PROVE  IInv'
<1>1. Values /\ SessionsOK /\ PlacesOK(Resources, Now)
  BY Parts
<1>2. CASE StartDisabling /\ ~enabled'
  <2>1. /\ Become(Reject(Now, UnderSession(active)))
        /\ aborted' = aborted \cup active /\ closing' = closing \cup active
        /\ granted' = {} /\ disabling' = active /\ UNCHANGED <<active, quarantines>>
    BY <1>2 DEF StartDisabling, CloseSessions
  <2>2. Tidy(Reject(Now, UnderSession(active)), quarantines')
    BY UnderTidy
  <2>3. Values'
    BY <1>1, <2>1 DEF Values, Resources
  <2>4. SessionStep
    BY <1>1, <1>2, <2>1 DEF SessionStep, SessionsOK, Values
  <2>5. QED
    BY <2>1, <2>2, <2>3, <2>4, RestStep
<1>3. CASE /\ UNCHANGED <<lanes, sessions, quarantines>>
           /\ disabling # {} => ~enabled'
           /\ IsEnabled => enabled' /\ service' = service
  <2>1. UNCHANGED <<call, lane, hands, active, granted, aborted, closing, disabling, quarantines>>
    BY <1>3 DEF lanes, sessions
  <2>2. Become(Now) /\ Tidy(Now, quarantines')
    BY <1>1, <2>1, NowTidy DEF Become, Now
  <2>3. Values'
    BY <1>1, <2>1 DEF Values, Resources
  <2>4. IsEnabled => IsEnabled' /\ service' = service
    BY <1>3, <2>1 DEF IsEnabled, Available
  <2>5. SessionStep
    BY <1>1, <1>3, <2>1, <2>4 DEF SessionStep, SessionsOK
  <2>6. QED
    BY <2>1, <2>2, <2>3, <2>5, RestStep
<1>4. QED
  BY <1>2, <1>3

LEMMA CalledTypes ==
    ASSUME Values, NEW t \in Toggles, NEW on \in BOOLEAN, NEW at \in {"waiting", "returned"},
           Called(t, on, at)
    PROVE  /\ generation' \in Nat /\ desired' = on
           /\ toggle' \in [Toggles -> [at : {"idle", "waiting", "returned"}, on : BOOLEAN,
                                       generation : Nat]]
<1>1. generation \in Nat /\ generation + 1 \in Nat
  BY DEF Values
<1>2. [at |-> at, on |-> on, generation |-> generation + 1]
        \in [at : {"idle", "waiting", "returned"}, on : BOOLEAN, generation : Nat]
  BY <1>1
<1>3. QED
  BY <1>1, <1>2 DEF Called, Values

LEMMA DisableKeeps ==
    ASSUME IInv, NEW t \in Toggles, Disable(t)
    PROVE  IInv'
<1>1. Values
  BY Parts
<1> DEFINE at == IF disabling \cup active = {} THEN "returned" ELSE "waiting"
<1>2. /\ service = "open" /\ Called(t, FALSE, at) /\ enabled' = FALSE
      /\ disabling = {} => StartDisabling
      /\ disabling # {} => UNCHANGED <<lanes, sessions, quarantines>>
      /\ UNCHANGED <<epoch, desk, states, stopped, service, closes>>
  BY DEF Disable, ending
<1>3. at \in {"waiting", "returned"}
  OBVIOUS
<1> HIDE DEF at
<1>4. /\ generation' \in Nat /\ desired' = FALSE
      /\ toggle' \in [Toggles -> [at : {"idle", "waiting", "returned"}, on : BOOLEAN,
                                  generation : Nat]]
  BY <1>1, <1>2, <1>3, CalledTypes
<1>5. \/ StartDisabling /\ ~enabled'
      \/ /\ UNCHANGED <<lanes, sessions, quarantines>>
         /\ disabling # {} => ~enabled'
         /\ IsEnabled => enabled' /\ service' = service
  BY <1>2 DEF IsEnabled
<1>6. QED
  BY <1>2, <1>4, <1>5, SwitchStep

LEMMA EnableKeeps ==
    ASSUME IInv, NEW t \in Toggles, Enable(t)
    PROVE  IInv'
<1>1. Values /\ SessionsOK
  BY Parts
<1> DEFINE clean == disabling = {} /\ (enabled \/ active = {})
           at == IF clean THEN "returned" ELSE "waiting"
<1>2. /\ service = "open" /\ Called(t, TRUE, at) /\ enabled' = (enabled \/ clean)
      /\ ~clean /\ disabling = {} => StartDisabling
      /\ clean \/ disabling # {} => UNCHANGED <<lanes, sessions, quarantines>>
      /\ UNCHANGED <<epoch, desk, states, stopped, service, closes>>
  BY DEF Enable, ending
<1>3. at \in {"waiting", "returned"}
  OBVIOUS
<1>4. ~clean /\ disabling = {} => ~enabled'
  BY <1>2
<1>5. disabling # {} => ~enabled'
  BY <1>1, <1>2 DEF SessionsOK
<1>6. IsEnabled => clean /\ enabled'
  BY <1>2 DEF IsEnabled
<1>7. enabled' \in BOOLEAN
  BY <1>2
<1> HIDE DEF clean, at
<1>8. /\ generation' \in Nat /\ desired' = TRUE
      /\ toggle' \in [Toggles -> [at : {"idle", "waiting", "returned"}, on : BOOLEAN,
                                  generation : Nat]]
  BY <1>1, <1>2, <1>3, CalledTypes
<1>9. \/ StartDisabling /\ ~enabled'
      \/ /\ UNCHANGED <<lanes, sessions, quarantines>>
         /\ disabling # {} => ~enabled'
         /\ IsEnabled => enabled' /\ service' = service
  BY <1>2, <1>4, <1>5, <1>6
<1>10. QED
  BY <1>2, <1>7, <1>8, <1>9, SwitchStep

LEMMA CloseKeeps ==
    ASSUME IInv, Close
    PROVE  IInv'
<1>1. Values
  BY Parts
<1>2. /\ service' \in {"closing", "draining"} /\ generation' = generation + 1
      /\ desired' = FALSE /\ enabled' = FALSE
      /\ disabling = {} => StartDisabling
      /\ disabling # {} => UNCHANGED <<lanes, sessions, quarantines>>
      /\ UNCHANGED <<epoch, desk, states, stopped, toggle, closes>>
  BY DEF Close
<1>3. generation' \in Nat
  BY <1>1, <1>2 DEF Values
<1>4. toggle' \in [Toggles -> [at : {"idle", "waiting", "returned"}, on : BOOLEAN,
                               generation : Nat]]
  BY <1>1, <1>2 DEF Values
<1>5. \/ StartDisabling /\ ~enabled'
      \/ /\ UNCHANGED <<lanes, sessions, quarantines>>
         /\ disabling # {} => ~enabled'
         /\ IsEnabled => enabled' /\ service' = service
  BY <1>2 DEF IsEnabled
<1>6. QED
  BY <1>2, <1>3, <1>4, <1>5, SwitchStep

\* The lanes are waited for, so nobody is left who has a place in one.
LEMMA ClosedKeeps ==
    ASSUME IInv, Closed
    PROVE  IInv'
<1>1. /\ Values /\ SessionsOK /\ PlacesOK(Resources, Now)
      /\ call \in [Calls -> CallRecords(Resources)]
  BY Parts
<1>2. /\ service = "draining" /\ service' = "closed"
      /\ \A r \in Resources : lane[r] = <<>>
      /\ UNCHANGED <<call, lane, hands, epoch, desk, states, stopped, quarantines, active, granted,
                     aborted, closing, disabling, enabled, desired, generation, toggle, closes>>
  BY DEF Closed, lanes, sessions, switch
<1>3. ASSUME NEW c \in Calls PROVE Quiet(c)
  <2>1. PlaceOK(Resources, Now, c) /\ call[c].at \in Places
    BY <1>1 DEF PlacesOK, CallRecords
  <2>2. ASSUME NEW r \in Resources PROVE ~FirstIn(lane[r], c) /\ ~In(lane[r], c)
    BY <1>2 DEF FirstIn, In
  <2>3. QED
    BY <2>1, <2>2 DEF PlaceOK, Now, Quiet, Places, Holding
<1>4. Become(Now) /\ Tidy(Now, quarantines')
  BY <1>1, <1>2, NowTidy DEF Become, Now
<1>5. Values'
  BY <1>1, <1>2 DEF Values, Resources
<1>6. SessionStep
  BY <1>1, <1>2 DEF SessionStep, SessionsOK
<1>7. QED
  BY <1>2, <1>3, <1>4, <1>5, <1>6, RestStep

-----------------------------------------------------------------------------
(* The invariant *)

LEMMA InitIInv == Init => IInv
<1> SUFFICES ASSUME Init PROVE IInv
  OBVIOUS
<1>1. PICK start \in Starts :
        /\ Opening(start.observed, start.over)
        /\ lane = [r \in start.windows |-> <<>>] /\ epoch = [r \in start.windows |-> 0]
        /\ desk = [r \in start.windows |-> 0] /\ closes = start.closes
  BY DEF Init
<1> DEFINE seen == DOMAIN start.observed
<1>2. /\ hands = <<>> /\ stopped = {} /\ quarantines = {} /\ aborted = {} /\ closing = {}
      /\ disabling = {} /\ enabled = TRUE /\ desired = TRUE /\ generation = 1
      /\ service = "open"
  BY DEF Init
<1>3. /\ seen \subseteq Calls /\ \A c \in seen : start.observed[c] \in Resources
      /\ closes \in BOOLEAN /\ Resources = start.windows
  BY <1>1, ConstantsAssumption DEF Resources
<1>4. /\ \A c \in Calls : call[c] = IF c \in seen
                                    THEN [NewCall EXCEPT !.at = "returned", !.op = "observe",
                                                         !.res = start.observed[c]]
                                    ELSE IF c \in start.over
                                         THEN [NewCall EXCEPT !.at = "returned"]
                                         ELSE NewCall
      /\ call = [c \in Calls |-> call[c]]
      /\ states = {[res |-> start.observed[c], epoch |-> 0, seen |-> 0] : c \in seen}
      /\ active = seen /\ granted = seen
      /\ toggle = [t \in Toggles |-> IF t \in start.over
                                     THEN [at |-> "returned", on |-> TRUE, generation |-> 1]
                                     ELSE [at |-> "idle", on |-> FALSE, generation |-> 0]]
  BY <1>1 DEF Opening
<1> HIDE DEF seen
<1>5. NewCall = [at |-> "idle", op |-> "none", res |-> "none", epoch |-> 0, seen |-> 0,
                 session |-> NoSession, sends |-> 0, hand |-> "none"]
  BY DEF NewCall
<1>6. NewCall \in CallRecords(Resources)
  BY <1>5 DEF CallRecords, Places
<1>7. ASSUME NEW c \in Calls
      PROVE  /\ call[c] \in CallRecords(Resources) /\ call[c].hand = "none"
             /\ call[c].at \in {"idle", "returned"}
             /\ c \in seen => call[c].at = "returned"
  <2>1. CASE c \in seen
    <3>1. start.observed[c] \in Resources
      BY <1>3, <2>1
    <3>3. NewCall.hand = "none"
      BY <1>5
    <3>4. call[c] = [NewCall EXCEPT !.at = "returned", !.op = "observe",
                                    !.res = start.observed[c]]
      BY <1>4, <2>1
    <3>5. ASSUME NEW r \in Resources,
                 call[c] = [NewCall EXCEPT !.at = "returned", !.op = "observe", !.res = r]
          PROVE  call[c] \in CallRecords(Resources) /\ call[c].at = "returned"
                 /\ call[c].hand = "none"
      <4>1. PICK y \in CallRecords(Resources) : y = NewCall
        BY <1>6
      <4>2. call[c] = [y EXCEPT !.at = "returned", !.op = "observe", !.res = r] /\ y.hand = "none"
        BY <3>3, <3>5, <4>1
      <4>3. QED
        BY <4>2 DEF CallRecords, Places
    <3>6. QED
      BY <3>1, <3>4, <3>5
  <2>2. CASE c \notin seen
    <3>1. \A y \in CallRecords(Resources) :
            /\ [y EXCEPT !.at = "returned"] \in CallRecords(Resources)
            /\ [y EXCEPT !.at = "returned"].at = "returned"
            /\ [y EXCEPT !.at = "returned"].hand = y.hand
      BY DEF CallRecords, Places
    <3>2. NewCall.hand = "none" /\ NewCall.at = "idle"
      BY <1>5
    <3>3. QED
      BY <1>4, <1>6, <2>2, <3>1, <3>2
  <2>3. QED
    BY <2>1, <2>2
<1>8. call \in [Calls -> CallRecords(Resources)]
  BY <1>4, <1>7
<1>9. lane \in [Resources -> Seq(Calls)] /\ hands \in Seq(Calls)
  BY <1>1, <1>2, <1>3
<1>10. PlacesOK(Resources, Now)
  <2>1. Now \in PlaceRecords(Resources)
    BY <1>8, <1>9 DEF Now, PlaceRecords
  <2>2. \A c \in Calls : PlaceOK(Resources, Now, c)
    BY <1>7 DEF PlaceOK, Now, Holding, Handling
  <2>3. QED
    BY <2>1, <2>2 DEF PlacesOK
<1>11. Values
  <2>1. /\ epoch \in [Resources -> Nat] /\ desk \in [Resources -> Nat]
        /\ \A r \in Resources : epoch[r] = 0 /\ desk[r] = 0
    BY <1>1, <1>3
  <2>2. states \subseteq [res : Resources, epoch : Nat, seen : Nat]
    <3>1. ASSUME NEW c \in seen
          PROVE  [res |-> start.observed[c], epoch |-> 0, seen |-> 0]
                   \in [res : Resources, epoch : Nat, seen : Nat]
      BY <1>3
    <3>2. QED
      BY <1>4, <3>1
  <2>3. toggle \in [Toggles -> [at : {"idle", "waiting", "returned"}, on : BOOLEAN,
                                generation : Nat]]
    BY <1>4
  <2>4. QED
    BY <1>2, <1>3, <1>4, <2>1, <2>2, <2>3 DEF Values
<1>12. TypeOK
  BY <1>10, <1>11, TypeParts DEF PlacesOK
<1>13. HandsOK
  BY <1>7 DEF HandsOK
<1>14. LooksOK
  <2>1. ASSUME NEW o \in states PROVE Current(o)
    <3>1. PICK c \in seen : o = [res |-> start.observed[c], epoch |-> 0, seen |-> 0]
      BY <1>4
    <3>2. o.res \in Resources /\ o.epoch = 0 /\ o.seen = 0
      BY <1>3, <3>1
    <3>3. epoch[o.res] = 0 /\ desk[o.res] = 0
      BY <1>1, <1>3, <3>2
    <3>4. ~Sent(o.res)
      BY <1>7 DEF Sent
    <3>5. QED
      BY <3>2, <3>3, <3>4 DEF Current
  <2>2. QED
    BY <1>7, <2>1 DEF LooksOK, Looking, Holding
<1>15. SessionsOK
  BY <1>2, <1>3, <1>4, <1>7 DEF SessionsOK
<1>16. ClosedIsQuiet
  BY <1>2 DEF ClosedIsQuiet
<1>17. QED
  BY <1>10, <1>12, <1>13, <1>14, <1>15, <1>16 DEF IInv

LEMMA NextIInv == IInv /\ [Next]_vars => IInv'
<1> SUFFICES ASSUME IInv, [Next]_vars PROVE IInv'
  OBVIOUS
<1>1. CASE UNCHANGED vars
  <2>1. UNCHANGED <<call, lane, hands, epoch, desk, states, stopped, quarantines, active,
                    granted, aborted, closing, enabled, desired, disabling, generation,
                    toggle, service, closes>>
    BY <1>1 DEF vars
  <2>2. PlacesOK(Resources, Now) /\ Values /\ SessionStep
    BY <2>1, Parts, StillStep DEF switch, ending
  <2>3. Become(Now) /\ Tidy(Now, quarantines')
    BY <2>1, <2>2, NowTidy DEF Become, Now
  <2>4. Values'
    BY <2>1, <2>2 DEF Values, Resources
  <2>5. QED
    BY <2>1, <2>2, <2>3, <2>4, RestStep
<1>2. ASSUME NEW c \in Calls, NEW r \in Resources, Identify(c, r) PROVE IInv'
  BY <1>2, IdentifyKeeps
<1>3. ASSUME NEW c \in Calls, Identified(c) PROVE IInv'
  BY <1>3, IdentifiedKeeps
<1>4. ASSUME NEW c \in Calls, StartRead(c) PROVE IInv'
  BY <1>4, StartReadKeeps
<1>5. ASSUME NEW c \in Calls, ReadEnds(c) PROVE IInv'
  BY <1>5, ReadEndsKeeps
<1>6. ASSUME NEW c \in Calls, NEW o \in states, NEW s \in Calls, Execute(c, o, s) PROVE IInv'
  BY <1>6, ExecuteKeeps
<1>7. ASSUME NEW c \in Calls, Write(c) PROVE IInv'
  BY <1>7, WriteKeeps
<1>8. ASSUME NEW c \in Calls, StartWrite(c) PROVE IInv'
  BY <1>8, StartWriteKeeps
<1>9. ASSUME NEW c \in Calls, StartDispatch(c) PROVE IInv'
  BY <1>9, StartDispatchKeeps
<1>10. ASSUME NEW c \in Calls, NotRecorded(c) PROVE IInv'
  BY <1>10, NotRecordedKeeps
<1>11. ASSUME NEW c \in Calls, Dispatch(c) PROVE IInv'
  BY <1>11, DispatchKeeps
<1>12. ASSUME NEW c \in Calls, Lands(c) PROVE IInv'
  BY <1>12, LandsKeeps
<1>13. ASSUME NEW c \in Calls, Retry(c) PROVE IInv'
  BY <1>13, RetryKeeps
<1>14. ASSUME NEW c \in Calls, ActEnds(c) PROVE IInv'
  BY <1>14, ActEndsKeeps
<1>15. ASSUME NEW c \in Calls, WatchEnds(c) PROVE IInv'
  BY <1>15, WatchEndsKeeps
<1>16. ASSUME NEW c \in Calls, NEW unsafe \in BOOLEAN,
              IdentifyFails(c, unsafe) \/ ReadFails(c, unsafe)
       PROVE  IInv'
  BY <1>16, FailsKeep
<1>17. ASSUME NEW c \in Calls, NEW unsafe \in BOOLEAN, ActFails(c, unsafe) PROVE IInv'
  BY <1>17, ActFailsKeeps
<1>18. ASSUME NEW c \in Calls, Abort(c) PROVE IInv'
  BY <1>18, AbortKeeps
<1>19. CASE Pass
  BY <1>19, PassKeeps
<1>20. ASSUME NEW failure \in quarantines, Confirm(failure) PROVE IInv'
  BY <1>20, ConfirmKeeps
<1>21. ASSUME NEW run, CloseRun(run) PROVE IInv'
  BY <1>21, CloseRunKeeps
<1>22. ASSUME NEW s \in Calls, Disposed(s) PROVE IInv'
  BY <1>22, DisposedKeeps
<1>23. ASSUME NEW s \in Calls, NEW unsafe \in BOOLEAN, DisposeFails(s, unsafe) PROVE IInv'
  BY <1>23, DisposeFailsKeeps
<1>24. ASSUME NEW t \in Toggles, Disable(t) PROVE IInv'
  BY <1>24, DisableKeeps
<1>25. ASSUME NEW t \in Toggles, Enable(t) PROVE IInv'
  BY <1>25, EnableKeeps
<1>26. CASE Close
  BY <1>26, CloseKeeps
<1>27. CASE Closed
  BY <1>27, ClosedKeeps
<1>28. QED
  BY <1>1, <1>2, <1>3, <1>4, <1>5, <1>6, <1>7, <1>8, <1>9, <1>10, <1>11, <1>12, <1>13,
     <1>14, <1>15, <1>16, <1>17, <1>18, <1>19, <1>20, <1>21, <1>22, <1>23, <1>24, <1>25,
     <1>26, <1>27 DEF Next

THEOREM SchedulerInductive == Spec => []IInv
<1>1. Init => IInv
  BY InitIInv
<1>2. IInv /\ [Next]_vars => IInv'
  BY NextIInv
<1>3. QED
  BY <1>1, <1>2, PTL DEF Spec

-----------------------------------------------------------------------------
(* What the scheduler promises *)

\* One pair of hands: there is never more than one process that may still change
\* the desktop, and none is at work when the service is closed.
THEOREM HandsAreOnePair == Spec => []OnePairOfHands
<1>1. IInv => OnePairOfHands
  <2> SUFFICES ASSUME IInv PROVE NoTwoHands
    BY DEF IInv, OnePairOfHands
  <2> DEFINE H == {c \in Calls : call[c].hand # "none"}
  <2>1. \A c, d \in H : c = d
    BY DEF IInv, HandsOK
  <2>2. H = {} \/ \E c \in H : H = {c}
    BY <2>1
  <2> HIDE DEF H
  <2>3. CASE H = {}
    BY <2>3, FS_EmptySet DEF H, NoTwoHands
  <2>4. ASSUME NEW c \in H, H = {c} PROVE NoTwoHands
    <3>1. Cardinality(H) = 1
      BY <2>4, FS_Singleton
    <3>2. QED
      BY <3>1 DEF H, NoTwoHands
  <2>5. QED
    BY <2>2, <2>3, <2>4
<1>2. QED
  BY <1>1, SchedulerInductive, PTL

\* An action is sent to a resource that is as its caller has seen it: the epoch
\* that is compared when its turn comes stands for the state of the resource.
THEOREM ActionsMeetWhatWasSeen == Spec => ActsOnWhatWasSeen
<1> DEFINE A == \A c \in Calls : call[c].at = "recording" /\ call'[c].at = "acting"
                                   => desk[call[c].res] = call[c].seen
<1>1. IInv /\ [Next]_vars => [A]_vars
  <2> SUFFICES ASSUME IInv, NEW c \in Calls, call[c].at = "recording"
               PROVE  desk[call[c].res] = call[c].seen
    OBVIOUS
  <2>1. Current(call[c]) /\ call[c].epoch = epoch[call[c].res]
    BY DEF IInv, LooksOK, Looking, Holding
  <2>2. QED
    BY <2>1 DEF Current
<1>2. QED
  BY <1>1, SchedulerInductive, PTL DEF Spec, ActsOnWhatWasSeen

\* Moving a call changes nothing of how often its action was sent.
LEMMA MovesSendNothing ==
    ASSUME NEW w, PlacesOK(Resources, w), NEW c \in Calls, NEW S, NEW d \in Calls
    PROVE  /\ Leave(w, c, "returned").call[d].sends = w.call[d].sends
           /\ Queue(w, c, "queued").call[d].sends = w.call[d].sends
           /\ Reject(w, S).call[d].sends = w.call[d].sends
<1>1. w.call \in [Calls -> CallRecords(Resources)]
  BY DEF PlacesOK, PlaceRecords
<1>2. \A at : [w.call EXCEPT ![c].at = at][d].sends = w.call[d].sends
  <2>1. CASE d = c
    BY <1>1, <2>1 DEF CallRecords
  <2>2. CASE d # c
    BY <1>1, <2>2
  <2>3. QED
    BY <2>1, <2>2
<1>3. [w.call[d] EXCEPT !.at = "returned"].sends = w.call[d].sends
  BY <1>1 DEF CallRecords
<1>4. Reject(w, S).call[d].sends = w.call[d].sends
  <2>1. Reject(w, S).call[d] \in {w.call[d], [w.call[d] EXCEPT !.at = "returned"]}
    BY DEF Reject
  <2>2. QED
    BY <1>3, <2>1
<1>5. QED
  BY <1>2, <1>4 DEF Leave, Queue

\* The outcome of nothing is unknown that was not sent before.
LEMMA SurveySendsNothing ==
    ASSUME IInv, NEW c \in Calls, NEW d \in Calls
    PROVE  Survey(Now, c).call[d].sends = call[d].sends
<1>1. call \in [Calls -> CallRecords(Resources)]
  BY Parts
<1> DEFINE w == [Now EXCEPT !.call[c].hand = "none"]
           f == [call EXCEPT ![c].hand = "none"]
<1>2. w.call = f
  BY DEF Now
<1> HIDE DEF w
<1>3. f \in [Calls -> CallRecords(Resources)] /\ f[d].sends = call[d].sends
  <2>1. \A y \in CallRecords(Resources) : /\ [y EXCEPT !.hand = "none"] \in CallRecords(Resources)
                                          /\ [y EXCEPT !.hand = "none"].sends = y.sends
    BY DEF CallRecords
  <2>2. QED
    BY <1>1, <2>1
<1> HIDE DEF f
<1> DEFINE left == Leave(w, c, "returned")
<1>4. left.call = [f EXCEPT ![c].at = "returned"]
  BY <1>2 DEF Leave
<1>5. left.call \in [Calls -> CallRecords(Resources)] /\ left.call[d].sends = f[d].sends
  <2>1. \A y \in CallRecords(Resources) : /\ [y EXCEPT !.at = "returned"] \in CallRecords(Resources)
                                          /\ [y EXCEPT !.at = "returned"].sends = y.sends
    BY DEF CallRecords, Places
  <2>2. left.call \in [Calls -> CallRecords(Resources)]
    <3>1. \A y \in CallRecords(Resources) : [y EXCEPT !.at = "returned"] \in CallRecords(Resources)
      BY <2>1
    <3>2. [f[c] EXCEPT !.at = "returned"] \in CallRecords(Resources)
      BY <1>3, <3>1
    <3>3. QED
      BY <1>3, <1>4, <3>2
  <2>3. left.call[d].sends = f[d].sends
    <3>1. CASE d = c
      BY <1>3, <1>4, <2>1, <3>1
    <3>2. CASE d # c
      BY <1>3, <1>4, <3>2
    <3>3. QED
      BY <3>1, <3>2
  <2>4. QED
    BY <2>2, <2>3
<1>6. Survey(Now, c) = IF Admits THEN Queue(left, c, "surveyQueued") ELSE left
  BY DEF Survey, w
<1> HIDE DEF left
<1>7. Queue(left, c, "surveyQueued").call = [left.call EXCEPT ![c].at = "surveyQueued"]
  BY DEF Queue
<1>8. [left.call EXCEPT ![c].at = "surveyQueued"][d].sends = left.call[d].sends
  <2>1. CASE d = c
    BY <1>5, <2>1 DEF CallRecords
  <2>2. CASE d # c
    BY <1>5, <2>2
  <2>3. QED
    BY <2>1, <2>2
<1>9. QED
  BY <1>3, <1>5, <1>6, <1>7, <1>8

\* A helper that fails sends nothing.
LEMMA FailuresSendNothing ==
    ASSUME IInv, NEW c \in Calls, NEW unsafe \in BOOLEAN, NEW d \in Calls,
           NEW w, w = Leave(Now, c, "returned") \/ (~unsafe /\ w = Survey(Now, c)),
           Failed(w, c, unsafe)
    PROVE  call'[d].sends = call[d].sends
<1>1. PlacesOK(Resources, Now) /\ Now.call = call
  BY Parts DEF Now
<1>2. w.call[d].sends = call[d].sends
  BY <1>1, MovesSendNothing, SurveySendsNothing
<1>3. CASE unsafe
  <2>1. PlacesOK(Resources, w)
    BY <1>1, <1>3, LeavePlaces
  <2>2. call' = Reject(w, UnderSession(active)).call
    BY <1>3 DEF Failed, Quarantine, Become
  <2>3. QED
    BY <1>2, <2>1, <2>2, MovesSendNothing
<1>4. CASE ~unsafe
  BY <1>2, <1>4 DEF Failed, Become
<1>5. QED
  BY <1>3, <1>4

\* Only the dispatch of a call and its repetition send.
LEMMA OnlyActionsSend ==
    ASSUME IInv, [Next]_vars, NEW d \in Calls, ~Dispatch(d), ~Retry(d)
    PROVE  call'[d].sends = call[d].sends
<1>1. /\ call \in [Calls -> CallRecords(Resources)] /\ PlacesOK(Resources, Now)
      /\ Now.call = call
  BY Parts DEF Now
<1>2. ASSUME NEW c \in Calls
      PROVE  /\ \A at : call' = [call EXCEPT ![c].at = at] => call'[d].sends = call[d].sends
             /\ Become(Leave(Now, c, "returned")) => call'[d].sends = call[d].sends
             /\ Become(Queue(Now, c, "queued")) => call'[d].sends = call[d].sends
  <2>1. ASSUME NEW at, call' = [call EXCEPT ![c].at = at] PROVE call'[d].sends = call[d].sends
    <3>1. CASE d = c
      BY <1>1, <2>1, <3>1 DEF CallRecords
    <3>2. CASE d # c
      BY <1>1, <2>1, <3>2
    <3>3. QED
      BY <3>1, <3>2
  <2>2. /\ Leave(Now, c, "returned").call[d].sends = call[d].sends
        /\ Queue(Now, c, "queued").call[d].sends = call[d].sends
    BY <1>1, MovesSendNothing
  <2>3. QED
    BY <2>1, <2>2 DEF Become
<1>3. ASSUME NEW S, Become(Reject(Now, S)) PROVE call'[d].sends = call[d].sends
  BY <1>1, <1>3, MovesSendNothing DEF Become
<1>4. ASSUME NEW c \in Calls, NEW y, call' = [call EXCEPT ![c] = y], y.sends = call[c].sends
      PROVE  call'[d].sends = call[d].sends
  BY <1>1, <1>4
<1>5. ASSUME NEW c \in Calls, NEW r \in Resources, Identify(c, r)
      PROVE  call'[d].sends = call[d].sends
  <2> DEFINE y == [call[c] EXCEPT !.at = "identifying", !.op = "observe", !.res = r]
  <2>1. call' = [call EXCEPT ![c] = y]
    BY <1>5 DEF Identify
  <2>2. y.sends = call[c].sends
    BY <1>1 DEF CallRecords
  <2>3. QED
    BY <1>4, <2>1, <2>2
<1>6. ASSUME NEW c \in Calls,
             Identified(c) \/ Write(c) \/ ReadEnds(c) \/ NotRecorded(c) \/ WatchEnds(c)
      PROVE  call'[d].sends = call[d].sends
  BY <1>2, <1>6 DEF Identified, Write, ReadEnds, NotRecorded, WatchEnds
<1>7. ASSUME NEW c \in Calls, StartRead(c) PROVE call'[d].sends = call[d].sends
  <2>1. CASE Available
    <3> DEFINE y == [call[c] EXCEPT !.at = IF @ = "queued" THEN "reading" ELSE "surveying",
                                    !.epoch = epoch[call[c].res], !.seen = desk[call[c].res]]
    <3>1. call' = [call EXCEPT ![c] = y]
      BY <1>7, <2>1 DEF StartRead
    <3>2. y.sends = call[c].sends
      BY <1>1 DEF CallRecords
    <3>3. QED
      BY <1>4, <3>1, <3>2
  <2>2. CASE ~Available
    BY <1>2, <1>7, <2>2 DEF StartRead
  <2>3. QED
    BY <2>1, <2>2
<1>8. ASSUME NEW c \in Calls, NEW o, NEW s, Execute(c, o, s)
      PROVE  call'[d].sends = call[d].sends
  <2> DEFINE y == [call[c] EXCEPT !.at = "asked", !.op = "execute", !.res = o.res,
                                  !.epoch = o.epoch, !.seen = o.seen, !.session = s]
  <2>1. call' = [call EXCEPT ![c] = y]
    BY <1>8 DEF Execute
  <2>2. y.sends = call[c].sends
    BY <1>1 DEF CallRecords
  <2>3. QED
    BY <1>4, <2>1, <2>2
<1>9. ASSUME NEW c \in Calls, StartWrite(c) PROVE call'[d].sends = call[d].sends
  BY <1>2, <1>9 DEF StartWrite, WantHands
<1>10. ASSUME NEW c \in Calls, StartDispatch(c) PROVE call'[d].sends = call[d].sends
  <2>1. \/ call' = [call EXCEPT ![c].at = "recording"]
        \/ Become(Leave(Now, c, "returned"))
    BY <1>10 DEF StartDispatch, Become, Now
  <2>2. QED
    BY <1>2, <2>1
<1>11. ASSUME NEW c \in Calls, Dispatch(c) PROVE call'[d].sends = call[d].sends
  <2>1. CASE SignalAborted(c)
    BY <1>11, <2>1, SurveySendsNothing DEF Dispatch, Become
  <2>2. CASE ~SignalAborted(c)
    BY <1>1, <1>11, <2>2 DEF Dispatch
  <2>3. QED
    BY <2>1, <2>2
<1>12. ASSUME NEW c \in Calls, Retry(c) PROVE call'[d].sends = call[d].sends
  <2>1. CASE ~SignalAborted(c) /\ Authorized(c)
    <3>1. call' = [call EXCEPT ![c].sends = 2]
      BY <1>12, <2>1 DEF Retry, Become, Now
    <3>2. QED
      BY <1>1, <1>12, <3>1
  <2>2. CASE ~(~SignalAborted(c) /\ Authorized(c))
    BY <1>12, <2>2, SurveySendsNothing DEF Retry, Become
  <2>3. QED
    BY <2>1, <2>2
<1>13. ASSUME NEW c \in Calls, Lands(c) \/ ActEnds(c) PROVE call'[d].sends = call[d].sends
  <2>1. CASE Lands(c)
    <3> DEFINE y == [call[c] EXCEPT !.hand = "landed"]
    <3>1. call' = [call EXCEPT ![c] = y]
      BY <2>1 DEF Lands
    <3>2. y.sends = call[c].sends
      BY <1>1 DEF CallRecords
    <3>3. QED
      BY <1>4, <3>1, <3>2
  <2>2. CASE ActEnds(c)
    <3> DEFINE y == [call[c] EXCEPT !.at = "watching", !.hand = "none",
                                    !.seen = desk[call[c].res]]
    <3>1. call' = [call EXCEPT ![c] = y]
      BY <2>2 DEF ActEnds
    <3>2. y.sends = call[c].sends
      BY <1>1 DEF CallRecords
    <3>3. QED
      BY <1>4, <3>1, <3>2
  <2>3. QED
    BY <1>13, <2>1, <2>2
<1>14. ASSUME NEW c \in Calls, NEW unsafe \in BOOLEAN,
              IdentifyFails(c, unsafe) \/ ReadFails(c, unsafe) \/ ActFails(c, unsafe)
       PROVE  call'[d].sends = call[d].sends
  <2>1. PICK w : /\ w = Leave(Now, c, "returned") \/ (~unsafe /\ w = Survey(Now, c))
                 /\ Failed(w, c, unsafe)
    BY <1>14 DEF IdentifyFails, ReadFails, ActFails
  <2>2. QED
    BY <2>1, FailuresSendNothing
<1>15. ASSUME NEW failure \in quarantines, Confirm(failure)
       PROVE  call'[d].sends = call[d].sends
  <2>1. call' = call \/ call' = [call EXCEPT ![failure[2]].hand = "none"]
    BY <1>15 DEF Confirm
  <2>2. [call[d] EXCEPT !.hand = "none"].sends = call[d].sends
    BY <1>1 DEF CallRecords
  <2>3. QED
    BY <1>1, <2>1, <2>2
<1>16. ASSUME NEW s, NEW unsafe \in BOOLEAN, DisposeFails(s, unsafe)
       PROVE  call'[d].sends = call[d].sends
  BY <1>3, <1>16 DEF DisposeFails, Quarantine, lanes
<1>17. ASSUME \/ \E c \in Calls : Abort(c)
              \/ Pass
              \/ \E run : CloseRun(run)
              \/ \E s : Disposed(s)
              \/ \E t \in Toggles : Disable(t) \/ Enable(t)
              \/ Close \/ Closed
              \/ UNCHANGED vars
       PROVE  call'[d].sends = call[d].sends
  <2>1. call' = call \/ \E S : Become(Reject(Now, S))
    BY <1>17 DEF Abort, Pass, CloseRun, CloseSessions, Disposed, Disable, Enable, Close, Closed,
                 StartDisabling, lanes, vars
  <2>2. QED
    BY <1>3, <2>1
<1>18. QED
  BY <1>5, <1>6, <1>7, <1>8, <1>9, <1>10, <1>11, <1>12, <1>13, <1>14, <1>15, <1>16, <1>17
     DEF Next

\* Nothing is sent for a call once its caller, its session, the switch, the back
\* end or the service stands against it.
THEOREM NothingIsSentAfterTheStop == Spec => NothingSentAfterTheStop
<1> DEFINE A == \A c \in Calls : call'[c].sends > call[c].sends
                                   => /\ ~SignalAborted(c) /\ enabled /\ Available
                                      /\ service = "open"
<1>1. IInv /\ [Next]_vars => [A]_vars
  <2> SUFFICES ASSUME IInv, [Next]_vars, NEW c \in Calls, call'[c].sends > call[c].sends
               PROVE  ~SignalAborted(c) /\ enabled /\ Available /\ service = "open"
    OBVIOUS
  <2>1. call[c].sends \in Int /\ SessionsOK
    BY Parts DEF CallRecords
  <2>2. ~(call'[c].sends = call[c].sends)
    BY <2>1
  <2>3. CASE Dispatch(c)
    <3>1. ~SignalAborted(c)
      BY <2>2, <2>3, SurveySendsNothing DEF Dispatch, Become
    <3>2. IsEnabled /\ service = "open"
      BY <2>1, <2>3, <3>1 DEF Dispatch, SignalAborted, SessionsOK
    <3>3. QED
      BY <3>1, <3>2 DEF IsEnabled
  <2>4. CASE Retry(c)
    <3>1. ~SignalAborted(c) /\ Authorized(c)
      BY <2>2, <2>4, SurveySendsNothing DEF Retry, Become
    <3>2. QED
      BY <2>1, <3>1 DEF Authorized, IsEnabled, SessionsOK
  <2>5. QED
    BY <2>2, <2>3, <2>4, OnlyActionsSend
<1>2. QED
  BY <1>1, SchedulerInductive, PTL DEF Spec, NothingSentAfterTheStop

\* Computer use is on only as the last call has asked for, and is switched on again
\* only when no session from before is left.
THEOREM SwitchIsAsLastAsked == Spec => SwitchedAsLastAsked
<1> DEFINE A == ~enabled /\ enabled' => active' = {}
<1>1. IInv => (enabled => desired)
  BY DEF IInv, SessionsOK
<1>2. IInv /\ [Next]_vars => [A]_vars
  <2> SUFFICES ASSUME IInv, [Next]_vars, ~enabled, enabled' PROVE active' = {}
    OBVIOUS
  <2>1. SessionsOK /\ Values
    BY Parts
  <2>2. ASSUME NEW s \in Calls, Disposed(s) PROVE active' = {}
    <3>1. disabling = {s} /\ active' = active \ {s}
      BY <2>2 DEF Disposed
    <3>2. QED
      BY <2>1, <3>1 DEF SessionsOK
  <2>3. ASSUME NEW s \in Calls, NEW unsafe \in BOOLEAN, DisposeFails(s, unsafe) PROVE FALSE
    BY <2>3 DEF DisposeFails, Settled
  <2>4. ASSUME NEW t \in Toggles, Enable(t) PROVE active' = {}
    BY <2>4 DEF Enable, sessions
  <2>5. ASSUME NEW t \in Toggles, Disable(t) PROVE FALSE
    BY <2>5 DEF Disable
  <2>6. CASE Close
    BY <2>6 DEF Close
  <2>7. ASSUME NEW c \in Calls,
               \/ \E r \in Resources : Identify(c, r)
               \/ Identified(c) \/ StartRead(c) \/ ReadEnds(c)
               \/ \E o \in states, s \in Calls : Execute(c, o, s)
               \/ Write(c) \/ StartWrite(c) \/ StartDispatch(c) \/ NotRecorded(c)
               \/ Dispatch(c) \/ Lands(c) \/ Retry(c) \/ ActEnds(c) \/ WatchEnds(c)
               \/ \E unsafe \in BOOLEAN :
                    IdentifyFails(c, unsafe) \/ ReadFails(c, unsafe) \/ ActFails(c, unsafe)
               \/ Abort(c)
        PROVE  FALSE
    BY <2>7 DEF Identify, Identified, StartRead, ReadEnds, Execute, Write, StartWrite,
                StartDispatch, NotRecorded, Dispatch, Lands, Retry, ActEnds, WatchEnds,
                IdentifyFails, ReadFails, ActFails, Abort, switch
  <2>8. ASSUME \/ Pass
               \/ \E failure \in quarantines : Confirm(failure)
               \/ \E run : CloseRun(run)
               \/ Closed
               \/ UNCHANGED vars
        PROVE  FALSE
    BY <2>8 DEF Pass, Confirm, CloseRun, Closed, switch, vars
  <2>9. QED
    BY <2>2, <2>3, <2>4, <2>5, <2>6, <2>7, <2>8 DEF Next
<1>3. QED
  BY <1>1, <1>2, SchedulerInductive, PTL DEF Spec, SwitchedAsLastAsked
=============================================================================
