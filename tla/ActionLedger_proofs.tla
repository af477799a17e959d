------------------------ MODULE ActionLedger_proofs ------------------------
(***************************************************************************)
(* Proofs about ActionLedger, for any transactions, runs and calls.         *)
(*                                                                         *)
(* A transaction is acted on at most once because only the call that has    *)
(* reserved its row claims it, and that call dispatches once.  The record   *)
(* is truthful because whoever settles a row names the version of it that   *)
(* it has seen, and only the claimant knows, and says, more than "unknown"  *)
(* of what has been dispatched.  LInv says so call by call: CallOK relates  *)
(* what a call holds to the row, the memory and the desktop of its          *)
(* transaction, and Sole that claims exclude each other.                    *)
(***************************************************************************)
EXTENDS ActionLedger, TLAPS

Harmless == {"cancelled", "refused", "unavailable", "didnt"}
Working == {"acting", "retrying"}
Keeping == {"waiting", "dispatching", "acting", "retrying", "observing"}
Unclaimed == {"idle", "reading", "joining", "reserving"}
Replies == [status : {"none", "row", "applied", "conflict", "error"}, attempt : Attempts]
Records == [pc : Places, own : BOOLEAN, fit : BOOLEAN, seen : Attempts,
            aim : Results \union {"none"}, guarded : BOOLEAN, rethrow : BOOLEAN,
            reply : Replies]

\* What follows is about a call c that holds k, while the row of its transaction is r,
\* the ledger remembers m, and the desktop has been acted on n times.
Got(k, place, status) == k.pc = place /\ k.reply.status = status
Claim(k) == k.own \/ Got(k, "reserving", "applied")

\* An attempt that was read at some time: the row has it still, or has moved on.
Past(a, r) ==
  a # NoAttempt =>
    /\ r # NoAttempt /\ a.input = r.input
    /\ a.phase = "settled" => r = a
    /\ a.phase = "dispatched" => r.phase # "queued"

\* A transaction that may have acted by now.
Open(r) == r.phase = "dispatched" \/ (r.phase = "settled" /\ r.result = "unknown")

\* Who claims the attempt, and what may be asked of the database by whom.
PlaceOK(c, k) ==
  /\ k.pc \in Keeping \union {"surveying"} => k.own
  /\ k.pc \in Unclaimed => ~k.own
  /\ k.pc = "dispatching" => k.seen.phase = "queued"
  /\ k.pc = "observing" => k.aim \in Results \ {"cancelled"}
  /\ k.pc = "settling" =>
       /\ k.seen.phase \in {"queued", "dispatched"} /\ k.seen.input = InputOf[c]
       /\ k.guarded => k.own
       /\ k.seen.phase = "queued" => k.aim \in Undispatched
       /\ k.seen.phase = "dispatched" =>
            k.aim \in Results \ {"cancelled"} /\ (k.aim # "unknown" => k.own)

\* What the database may have answered.
ReplyOK(c, k) ==
  /\ Got(k, "reserving", "applied") => k.reply.attempt = Queued(InputOf[c])
  /\ Got(k, "dispatching", "applied") => k.reply.attempt.phase = "dispatched"
  /\ Got(k, "settling", "applied") => k.reply.attempt.phase = "settled"
  /\ k.reply.status = "conflict" => k.reply.attempt # NoAttempt

\* What a call has seen is the row or an earlier version of it; a claimed row is there.
RowOK(c, k, r) ==
  /\ Past(k.seen, r) /\ Past(k.reply.attempt, r)
  /\ Claim(k) => r # NoAttempt /\ r.input = InputOf[c]

\* What a claimant knows of the desktop.
DeskOK(k, r, n) ==
  /\ Claim(k) /\ k.pc \in {"reserving", "waiting", "dispatching"} => n = 0
  /\ k.pc \in Working => n = 1
  /\ k.pc \in Working \union {"observing"} \/ Got(k, "dispatching", "applied") => Open(r)
  /\ k.pc \in {"observing", "settling"} =>
       /\ k.aim = "worked" => n = 1
       /\ k.aim \in Harmless /\ (k.pc = "settling" => k.seen.phase = "dispatched") => n = 0

\* The attempt is kept for its claimant, and who is answered is given the recorded result.
KeptOK(k, r, m) == k.pc \in Keeping => m # NoAttempt \/ r.phase = "settled"
ToldOK(c, k, r) ==
  k.pc = "answered" =>
    \/ r.phase = "settled" /\ r.result = k.aim /\ r.input = InputOf[c]
    \/ ~k.own /\ k.aim \in {"refused", "unknown"}

CallOK(c, k, r, m, n) ==
  /\ k \in Records
  /\ PlaceOK(c, k) /\ ReplyOK(c, k) /\ RowOK(c, k, r)
  /\ DeskOK(k, r, n) /\ KeptOK(k, r, m) /\ ToldOK(c, k, r)

\* A row, what is remembered of it, and the desktop.
TxnOK(r, m, n) ==
  /\ r \in Attempts /\ m \in Attempts /\ n \in {0, 1}
  /\ Past(m, r)
  /\ r.phase \in {"none", "queued"} => n = 0
  /\ r.phase = "settled" /\ r.result = "worked" => n = 1
  /\ r.phase = "settled" /\ r.result \in Harmless => n = 0

\* Claims on a transaction exclude each other.
Sole == \A c, d \in Calls : Claim(call[c]) /\ Claim(call[d]) /\ TxnOf[c] = TxnOf[d] => c = d

FunctionsOK ==
  /\ row \in [Txns -> Attempts] /\ local \in [Txns -> Attempts]
  /\ acted \in [Txns -> {0, 1}] /\ call \in [Calls -> Records]
MemoryOK ==
  /\ source \in [Txns -> {"local", "durable"}]
  /\ reserving \in [Txns -> Calls \union {None}]
  /\ released \subseteq Runs /\ authorised \subseteq Runs
  /\ aborted \in [Calls -> BOOLEAN]

LInv ==
  /\ FunctionsOK
  /\ \A x \in Txns : TxnOK(row[x], local[x], acted[x])
  /\ \A c \in Calls : CallOK(c, call[c], row[TxnOf[c]], local[TxnOf[c]], acted[TxnOf[c]])
  /\ Sole

-----------------------------------------------------------------------------
(* Attempts.                                                               *)

\* The shapes of an attempt.
LEMMA Shapes ==
  ASSUME NEW a \in Attempts
  PROVE  /\ a.phase \in {"none", "queued", "dispatched", "settled"}
         /\ a.phase = "none" <=> a = NoAttempt
         /\ a.phase # "none" => a.input \in Inputs
         /\ a.phase = "settled" => a.result \in Results
         /\ a.phase # "settled" => a.result = "none"
  BY DEF Attempts, NoAttempt, Results

\* The attempts a row moves through.
LEMMA Moves ==
  ASSUME NEW a \in Attempts, a # NoAttempt, NEW r \in Results
  PROVE  /\ \A i \in Inputs : Queued(i) \in Attempts
         /\ a.phase = "queued" => [a EXCEPT !.phase = "dispatched"] \in Attempts
         /\ a.phase # "settled" =>
              [a EXCEPT !.phase = "settled", !.result = r] \in Attempts
  BY DEF Attempts, NoAttempt, Queued

LEMMA QueuedType ==
  ASSUME NEW i \in Inputs
  PROVE  Queued(i) \in Attempts /\ NoAttempt \in Attempts
  BY DEF Attempts, Queued

\* A version of a version of the row is a version of the row.
LEMMA PastTransitive ==
  ASSUME NEW a \in Attempts, NEW b \in Attempts, NEW d \in Attempts, Past(a, b), Past(b, d)
  PROVE  Past(a, d)
  BY Shapes DEF Past

-----------------------------------------------------------------------------
(* What a call does next.                                                  *)

\* A place where nothing is remembered.
LEMMA AtType ==
  ASSUME NEW place \in Places, NEW own \in BOOLEAN
  PROVE  /\ At(place, own) \in Records
         /\ At(place, own).pc = place /\ At(place, own).own = own
         /\ At(place, own).seen = NoAttempt /\ At(place, own).aim = "none"
         /\ At(place, own).reply = NoReply
         /\ At(place, own).guarded = FALSE
  BY DEF At, Records, Replies, NoReply, Attempts

\* Nothing is wrong with a call at a place where nothing is asked, acted on or answered.
LEMMA AtOK ==
  ASSUME NEW c \in Calls, NEW place \in Places, NEW own \in BOOLEAN, NEW r, NEW m, NEW n,
         place \notin {"dispatching", "observing", "settling", "answered", "acting", "retrying"},
         place \in Unclaimed => ~own,
         place \in {"waiting", "surveying"} => own,
         place = "waiting" => n = 0 /\ m # NoAttempt,
         own => r # NoAttempt /\ r.input = InputOf[c]
  PROVE  CallOK(c, At(place, own), r, m, n)
  <1>. DEFINE k == At(place, own)
  <1>1. /\ k \in Records /\ k.pc = place /\ k.own = own /\ k.seen = NoAttempt
        /\ k.reply = NoReply
    BY AtType
  <1>. HIDE DEF k
  <1>2. NoReply.status = "none" /\ NoReply.attempt = NoAttempt
    BY DEF NoReply
  <1>3. PlaceOK(c, k) /\ ReplyOK(c, k) /\ RowOK(c, k, r)
    BY <1>1, <1>2 DEF PlaceOK, ReplyOK, RowOK, Got, Claim, Past, Keeping
  <1>4. DeskOK(k, r, n) /\ KeptOK(k, r, m) /\ ToldOK(c, k, r)
    BY <1>1, <1>2 DEF DeskOK, KeptOK, ToldOK, Got, Claim, Keeping, Working, Unclaimed
  <1>5. QED
    BY <1>1, <1>3, <1>4 DEF CallOK, k

\* A call that is answered with a recorded result, or as a duplicate.
LEMMA ReturnsOK ==
  ASSUME NEW c \in Calls, call[c] \in Records, NEW a \in Results, NEW r, NEW m, NEW n,
         call[c].own => r # NoAttempt /\ r.input = InputOf[c],
         \/ r.phase = "settled" /\ r.result = a /\ r.input = InputOf[c]
         \/ ~call[c].own /\ a \in {"refused", "unknown"}
  PROVE  CallOK(c, Returns(c, a), r, m, n)
  <1>. DEFINE k == Returns(c, a)
  <1>1. /\ k \in Records /\ k.pc = "answered" /\ k.own = call[c].own /\ k.seen = NoAttempt
        /\ k.reply = NoReply /\ k.aim = a
    BY DEF Returns, At, Records, Replies, NoReply, Attempts, Places, Over
  <1>. HIDE DEF k
  <1>2. NoReply.status = "none" /\ NoReply.attempt = NoAttempt
    BY DEF NoReply
  <1>3. PlaceOK(c, k) /\ ReplyOK(c, k) /\ RowOK(c, k, r)
    BY <1>1, <1>2 DEF PlaceOK, ReplyOK, RowOK, Got, Claim, Past, Keeping, Unclaimed
  <1>4. DeskOK(k, r, n) /\ KeptOK(k, r, m) /\ ToldOK(c, k, r)
    BY <1>1, <1>2 DEF DeskOK, KeptOK, ToldOK, Got, Claim, Keeping, Working
  <1>5. QED
    BY <1>1, <1>3, <1>4 DEF CallOK, k

\* A call that settles what it sees says no more than it knows.
LEMMA SettlingOK ==
  ASSUME NEW c \in Calls, call[c] \in Records, NEW now \in Attempts, NEW a \in Results,
         NEW guarded \in BOOLEAN, NEW rethrow \in BOOLEAN, NEW r \in Attempts, NEW m, NEW n,
         Past(now, r),
         now # NoAttempt => now.input = InputOf[c],
         call[c].own => r # NoAttempt /\ r.input = InputOf[c],
         guarded => call[c].own,
         now.phase = "queued" => a \in Undispatched,
         now.phase = "dispatched" =>
           /\ a # "cancelled" /\ (a # "unknown" => call[c].own)
           /\ (a = "worked" => n = 1) /\ (a \in Harmless => n = 0)
  PROVE  CallOK(c, Settling(c, now, a, guarded, rethrow), r, m, n)
  <1>0. /\ now.phase \in {"none", "queued", "dispatched", "settled"}
        /\ now.phase = "none" <=> now = NoAttempt
        /\ now.phase = "settled" => now.result \in Results /\ r = now
    BY Shapes DEF Past
  <1>1. CASE now.phase = "none"
    <2>1. Settling(c, now, a, guarded, rethrow)
            = IF guarded THEN At("surveying", call[c].own) ELSE At("threw", call[c].own)
      BY <1>1 DEF Settling, Throws
    <2>2. call[c].own \in BOOLEAN
      BY DEF Records
    <2>3. QED
      BY <2>1, <2>2, AtOK DEF Places, Over, Unclaimed
  <1>2. CASE now.phase = "settled"
    <2>1. Settling(c, now, a, guarded, rethrow) = Returns(c, now.result)
      BY <1>2 DEF Settling
    <2>2. r.phase = "settled" /\ r.result = now.result /\ r.input = InputOf[c]
      BY <1>0, <1>2
    <2>3. QED
      BY <1>0, <1>2, <2>1, <2>2, ReturnsOK
  <1>3. CASE now.phase \in {"queued", "dispatched"}
    <2>. DEFINE k == Settling(c, now, a, guarded, rethrow)
    <2>1. k = [At("settling", call[c].own) EXCEPT !.seen = now, !.aim = a,
                                           !.guarded = guarded, !.rethrow = rethrow]
      BY <1>3 DEF Settling
    <2>2. /\ k \in Records /\ k.pc = "settling" /\ k.own = call[c].own /\ k.seen = now
          /\ k.reply = NoReply /\ k.aim = a /\ k.guarded = guarded
      <3>. DEFINE e == At("settling", call[c].own)
      <3>1. /\ e \in Records /\ e.pc = "settling" /\ e.own = call[c].own
            /\ e.reply = NoReply
        <4>1. call[c].own \in BOOLEAN
          BY DEF Records
        <4>2. QED
          BY <4>1, AtType DEF Places, Asking
      <3>. HIDE DEF e
      <3>2. k = [e EXCEPT !.seen = now, !.aim = a, !.guarded = guarded, !.rethrow = rethrow]
        BY <2>1 DEF e
      <3>. HIDE DEF k
      <3>3. QED
        BY <3>1, <3>2 DEF Records
    <2>. HIDE DEF k
    <2>3. NoReply.status = "none" /\ NoReply.attempt = NoAttempt
      BY DEF NoReply
    <2>4. PlaceOK(c, k)
      BY <1>0, <1>3, <2>2 DEF PlaceOK, Keeping, Unclaimed
    <2>5. ReplyOK(c, k) /\ RowOK(c, k, r)
      BY <2>2, <2>3 DEF ReplyOK, RowOK, Got, Claim, Past
    <2>6. DeskOK(k, r, n)
      BY <1>3, <2>2, <2>3 DEF DeskOK, Got, Claim, Working, Undispatched
    <2>7. KeptOK(k, r, m) /\ ToldOK(c, k, r)
      BY <2>2 DEF KeptOK, ToldOK, Keeping
    <2>8. QED
      BY <2>2, <2>4, <2>5, <2>6, <2>7 DEF CallOK, k
  <1>4. QED
    BY <1>0, <1>1, <1>2, <1>3

\* Cancelling says "cancelled" only of what was not dispatched.
LEMMA CancellingOK ==
  ASSUME NEW c \in Calls, call[c] \in Records, NEW now \in Attempts,
         NEW guarded \in BOOLEAN, NEW r \in Attempts, NEW m, NEW n,
         Past(now, r),
         now # NoAttempt => now.input = InputOf[c],
         call[c].own => r # NoAttempt /\ r.input = InputOf[c],
         guarded => call[c].own
  PROVE  CallOK(c, Cancelling(c, now, guarded), r, m, n)
  <1>1. "cancelled" \in Results /\ "unknown" \in Results /\ "cancelled" \in Undispatched
        /\ "unknown" \notin Harmless
    BY DEF Results, Undispatched, Harmless
  <1>2. QED
    BY <1>1, SettlingOK DEF Cancelling

\* The catch of execute, of a claimant.
LEMMA CaughtOK ==
  ASSUME NEW c \in Calls, call[c] \in Records, NEW now \in Attempts,
         NEW r \in Attempts, NEW m, NEW n,
         call[c].own, r # NoAttempt, r.input = InputOf[c], Past(now, r)
  PROVE  CallOK(c, Caught(c, now), r, m, n)
  <1>1. "unavailable" \in Results /\ "unavailable" \in Undispatched
    BY DEF Results, Undispatched
  <1>2. now # NoAttempt => now.input = InputOf[c]
    BY DEF Past
  <1>3. CASE now.phase # "queued"
    BY <1>3, AtOK DEF Caught, Places, Unclaimed
  <1>4. CASE now.phase = "queued" /\ aborted[c]
    BY <1>2, <1>4, CancellingOK DEF Caught
  <1>5. CASE now.phase = "queued" /\ ~aborted[c]
    BY <1>1, <1>2, <1>5, SettlingOK DEF Caught
  <1>6. QED
    BY <1>3, <1>4, <1>5

\* recover(): what was found answers, is left alone, or is given up.
LEMMA RecoveredOK ==
  ASSUME NEW c \in Calls, call[c] \in Records, NEW seen \in Attempts, seen # NoAttempt,
         NEW from, NEW now \in {seen, NoAttempt}, NEW guarded \in BOOLEAN,
         NEW r \in Attempts, NEW m, NEW n,
         Past(seen, r),
         call[c].own => r.input = InputOf[c] /\ from = "durable",
         guarded => call[c].own
  PROVE  CallOK(c, Recovered(c, seen, from, now, guarded), r, m, n)
  <1>0. r # NoAttempt /\ r.input = seen.input /\ (seen.phase = "settled" => r = seen)
    BY DEF Past
  <1>1. /\ "refused" \in Results /\ "unknown" \in Results
        /\ seen.phase = "settled" => seen.result \in Results
    BY Shapes DEF Results
  <1>2. CASE seen.input # InputOf[c]
    BY <1>0, <1>1, <1>2, ReturnsOK DEF Recovered
  <1>3. CASE seen.input = InputOf[c] /\ seen.phase = "settled"
    BY <1>0, <1>1, <1>3, ReturnsOK DEF Recovered
  <1>4. CASE seen.input = InputOf[c] /\ seen.phase # "settled" /\ from = "local"
    BY <1>0, <1>1, <1>4, ReturnsOK DEF Recovered
  <1>5. CASE seen.input = InputOf[c] /\ seen.phase # "settled" /\ from # "local"
    <2>1. Recovered(c, seen, from, now, guarded) = Cancelling(c, now, guarded)
      BY <1>5 DEF Recovered
    <2>2. now \in Attempts /\ Past(now, r) /\ (now # NoAttempt => now.input = InputOf[c])
      BY <1>5 DEF Past, Attempts
    <2>3. QED
      BY <1>0, <2>1, <2>2, CancellingOK
  <1>6. QED
    BY <1>2, <1>3, <1>4, <1>5

\* A call that goes on claims no more than it did.
Humble(c, k) == k.own = call[c].own /\ k.pc # "reserving"

LEMMA HumbleClaims ==
  ASSUME NEW c, NEW k, Humble(c, k), Claim(k)
  PROVE  call[c].own /\ Claim(call[c])
  BY DEF Humble, Claim, Got

LEMMA HumblePlaces ==
  ASSUME NEW c
  PROVE  /\ \A place, own : own = call[c].own /\ place # "reserving" => Humble(c, At(place, own))
         /\ Humble(c, Throws(c)) /\ \A a : Humble(c, Returns(c, a))
  BY DEF Humble, At, Throws, Returns

LEMMA HumbleSettling ==
  ASSUME NEW c, NEW now \in Attempts, NEW a, NEW guarded, NEW rethrow
  PROVE  Humble(c, Settling(c, now, a, guarded, rethrow))
  <1>1. now.phase \in {"none", "queued", "dispatched", "settled"}
    BY Shapes
  <1>2. CASE now.phase = "none"
    BY <1>2, HumblePlaces DEF Settling
  <1>3. CASE now.phase = "settled"
    BY <1>3, HumblePlaces DEF Settling
  <1>4. CASE now.phase \in {"queued", "dispatched"}
    BY <1>4 DEF Settling, Humble, At
  <1>5. QED
    BY <1>1, <1>2, <1>3, <1>4

LEMMA HumbleSteps ==
  ASSUME NEW c, NEW now \in Attempts, NEW guarded
  PROVE  /\ Humble(c, Cancelling(c, now, guarded))
         /\ Humble(c, Caught(c, now))
         /\ \A seen, from : Humble(c, Recovered(c, seen, from, now, guarded))
  <1>1. \A g : Humble(c, Cancelling(c, now, g))
    BY HumbleSettling DEF Cancelling
  <1>2. Humble(c, Caught(c, now))
    BY <1>1, HumbleSettling, HumblePlaces DEF Caught
  <1>3. \A seen, from : Humble(c, Recovered(c, seen, from, now, guarded))
    BY <1>1, HumblePlaces DEF Recovered
  <1>4. QED
    BY <1>1, <1>2, <1>3

-----------------------------------------------------------------------------
(* What a step may change.                                                 *)

\* What the invariant says of one call.
LEMMA CallFacts ==
  ASSUME LedgerAssumption, LInv, NEW c \in Calls
  PROVE  /\ TxnOf[c] \in Txns /\ InputOf[c] \in Inputs
         /\ call[c] \in Records /\ call[c].own \in BOOLEAN
         /\ row[TxnOf[c]] \in Attempts /\ local[TxnOf[c]] \in Attempts
         /\ acted[TxnOf[c]] \in {0, 1}
         /\ Past(local[TxnOf[c]], row[TxnOf[c]])
         /\ CallOK(c, call[c], row[TxnOf[c]], local[TxnOf[c]], acted[TxnOf[c]])
         /\ call[c].own => row[TxnOf[c]] # NoAttempt /\ row[TxnOf[c]].input = InputOf[c]
  <1>1. /\ TxnOf[c] \in Txns /\ InputOf[c] \in Inputs
        /\ row[TxnOf[c]] \in Attempts /\ local[TxnOf[c]] \in Attempts
        /\ acted[TxnOf[c]] \in {0, 1} /\ call[c] \in Records
    BY DEF LedgerAssumption, LInv, FunctionsOK
  <1>2. /\ TxnOK(row[TxnOf[c]], local[TxnOf[c]], acted[TxnOf[c]])
        /\ CallOK(c, call[c], row[TxnOf[c]], local[TxnOf[c]], acted[TxnOf[c]])
    BY <1>1 DEF LInv
  <1>3. call[c].own \in BOOLEAN
    BY <1>1 DEF Records
  <1>4. QED
    BY <1>1, <1>2, <1>3 DEF TxnOK, CallOK, RowOK, Claim

\* What is remembered is a version of the row, and is forgotten only once that is settled.
Remembers ==
  /\ local' \in [Txns -> Attempts]
  /\ \A x \in Txns :
       /\ Past(local'[x], row[x])
       /\ local'[x] = NoAttempt => local[x] = NoAttempt \/ row[x].phase = "settled"

\* Calls move on, and the row and the desktop stay as they are.
LEMMA CallsMove ==
  ASSUME LedgerAssumption, LInv, UNCHANGED <<row, acted>>, Remembers,
         call' \in [Calls -> Records],
         \A d \in Calls :
           /\ CallOK(d, call'[d], row[TxnOf[d]], local'[TxnOf[d]], acted[TxnOf[d]])
           /\ Claim(call'[d]) => Claim(call[d])
  PROVE  LInv'
  <1>1. FunctionsOK'
    BY DEF LInv, FunctionsOK, Remembers
  <1>2. \A x \in Txns : TxnOK(row[x], local[x], acted[x])'
    BY <1>1 DEF LInv, FunctionsOK, TxnOK, Remembers
  <1>3. \A d \in Calls :
          CallOK(d, call'[d], row'[TxnOf[d]], local'[TxnOf[d]], acted'[TxnOf[d]])
    OBVIOUS
  <1>4. Sole'
    BY DEF LInv, Sole
  <1>5. QED
    BY <1>1, <1>2, <1>3, <1>4 DEF LInv

\* Forgetting what is settled takes nothing from a call.
LEMMA KeptStays ==
  ASSUME LedgerAssumption, LInv, Remembers, NEW d \in Calls
  PROVE  CallOK(d, call[d], row[TxnOf[d]], local'[TxnOf[d]], acted[TxnOf[d]])
  <1>1. CallOK(d, call[d], row[TxnOf[d]], local[TxnOf[d]], acted[TxnOf[d]])
        /\ TxnOf[d] \in Txns
    BY CallFacts
  <1>2. QED
    BY <1>1 DEF CallOK, KeptOK, Remembers

\* One call moves on.
LEMMA CallMoves ==
  ASSUME LedgerAssumption, LInv, UNCHANGED <<row, acted>>, Remembers,
         NEW c \in Calls, NEW k, call' = [call EXCEPT ![c] = k],
         CallOK(c, k, row[TxnOf[c]], local'[TxnOf[c]], acted[TxnOf[c]]),
         Claim(k) => Claim(call[c])
  PROVE  LInv'
  <1>1. call \in [Calls -> Records] /\ k \in Records
    BY DEF LInv, FunctionsOK, CallOK
  <1>2. call' \in [Calls -> Records] /\ call'[c] = k
        /\ \A d \in Calls : d # c => call'[d] = call[d]
    BY <1>1
  <1>3. QED
    BY <1>2, KeptStays, CallsMove

\* The claimant acts, or finds out that it has not.
LEMMA DeskMoves ==
  ASSUME LedgerAssumption, LInv, UNCHANGED row, Remembers,
         NEW c \in Calls, NEW k, call' = [call EXCEPT ![c] = k], call[c].own,
         NEW n \in {0, 1}, acted' = [acted EXCEPT ![TxnOf[c]] = n],
         Open(row[TxnOf[c]]),
         CallOK(c, k, row[TxnOf[c]], local'[TxnOf[c]], n)
  PROVE  LInv'
  <1>. DEFINE x == TxnOf[c]
  <1>0. /\ x \in Txns /\ call \in [Calls -> Records] /\ k \in Records
        /\ acted \in [Txns -> {0, 1}] /\ row \in [Txns -> Attempts]
    BY CallFacts DEF LInv, FunctionsOK, CallOK
  <1>1. /\ call' \in [Calls -> Records] /\ call'[c] = k
        /\ \A d \in Calls : d # c => call'[d] = call[d]
        /\ acted' \in [Txns -> {0, 1}] /\ acted'[x] = n
        /\ \A y \in Txns : y # x => acted'[y] = acted[y]
    BY <1>0
  <1>2. FunctionsOK'
    BY <1>0, <1>1 DEF FunctionsOK, Remembers
  <1>3. ASSUME NEW y \in Txns PROVE TxnOK(row'[y], local'[y], acted'[y])
    <2>1. TxnOK(row[y], local[y], acted[y])
      BY DEF LInv
    <2>2. Past(local'[y], row[y]) /\ local'[y] \in Attempts
      BY DEF Remembers
    <2>3. CASE y = x
      BY <1>1, <2>1, <2>2, <2>3 DEF TxnOK, Open, Harmless
    <2>4. CASE y # x
      BY <1>1, <2>1, <2>2, <2>4 DEF TxnOK
    <2>5. QED BY <2>3, <2>4
  <1>4. ASSUME NEW d \in Calls
        PROVE  CallOK(d, call'[d], row'[TxnOf[d]], local'[TxnOf[d]], acted'[TxnOf[d]])
    <2>1. CallOK(d, call[d], row[TxnOf[d]], local'[TxnOf[d]], acted[TxnOf[d]])
          /\ TxnOf[d] \in Txns
      BY KeptStays, CallFacts
    <2>2. CASE d = c
      BY <1>1, <2>2
    <2>3. CASE d # c /\ TxnOf[d] # x
      BY <1>1, <2>1, <2>3
    <2>4. CASE d # c /\ TxnOf[d] = x
      <3>1. ~Claim(call[d])
        BY <2>4 DEF LInv, Sole, Claim
      <3>2. DeskOK(call[d], row[x], n)
        BY <2>1, <2>4, <3>1
        DEF CallOK, PlaceOK, DeskOK, Claim, Keeping, Working, Harmless, Undispatched
      <3>3. QED
        BY <1>1, <2>1, <2>4, <3>2 DEF CallOK
    <2>5. QED BY <2>2, <2>3, <2>4
  <1>5. Sole'
    BY <1>1 DEF LInv, Sole, Claim
  <1>6. QED
    BY <1>2, <1>3, <1>4, <1>5 DEF LInv

\* The database answers a call and changes its row.
LEMMA RowMoves ==
  ASSUME LedgerAssumption, LInv, UNCHANGED <<local, acted>>,
         NEW c \in Calls, NEW k, call' = [call EXCEPT ![c] = k],
         NEW b \in Attempts, row' = [row EXCEPT ![TxnOf[c]] = b],
         Past(row[TxnOf[c]], b), row[TxnOf[c]].phase # "settled",
         row[TxnOf[c]].phase = "dispatched" /\ ~Open(b) => Claim(call[c]),
         Claim(k) => Claim(call[c]) \/ row[TxnOf[c]] = NoAttempt,
         TxnOK(b, local[TxnOf[c]], acted[TxnOf[c]]),
         CallOK(c, k, b, local[TxnOf[c]], acted[TxnOf[c]])
  PROVE  LInv'
  <1>. DEFINE x == TxnOf[c]
  <1>0. /\ x \in Txns /\ call \in [Calls -> Records] /\ k \in Records
        /\ row \in [Txns -> Attempts]
    BY CallFacts DEF LInv, FunctionsOK, CallOK
  <1>1. /\ call' \in [Calls -> Records] /\ call'[c] = k
        /\ \A d \in Calls : d # c => call'[d] = call[d]
        /\ row' \in [Txns -> Attempts] /\ row'[x] = b
        /\ \A y \in Txns : y # x => row'[y] = row[y]
    BY <1>0
  <1>2. FunctionsOK'
    BY <1>1 DEF LInv, FunctionsOK
  <1>3. \A y \in Txns : TxnOK(row'[y], local'[y], acted'[y])
    BY <1>1 DEF LInv
  <1>4. ASSUME NEW d \in Calls
        PROVE  CallOK(d, call'[d], row'[TxnOf[d]], local'[TxnOf[d]], acted'[TxnOf[d]])
    <2>1. CallOK(d, call[d], row[TxnOf[d]], local[TxnOf[d]], acted[TxnOf[d]])
          /\ TxnOf[d] \in Txns
      BY CallFacts
    <2>2. CASE d = c
      BY <1>1, <2>2
    <2>3. CASE d # c /\ TxnOf[d] # x
      BY <1>1, <2>1, <2>3
    <2>4. CASE d # c /\ TxnOf[d] = x
      <3>. DEFINE j == call[d]
      <3>1. j \in Records /\ j.seen \in Attempts /\ j.reply.attempt \in Attempts
        BY <1>0 DEF Records, Replies
      <3>2. Past(j.seen, row[x]) /\ Past(j.reply.attempt, row[x])
        BY <2>1, <2>4 DEF CallOK, RowOK
      <3>3. Past(j.seen, b) /\ Past(j.reply.attempt, b)
        BY <1>0, <3>1, <3>2, PastTransitive
      <3>4. RowOK(d, j, b)
        BY <2>1, <2>4, <3>3 DEF CallOK, RowOK, Past
      <3>5. Claim(j) => ~Claim(call[c])
        BY <2>4 DEF LInv, Sole
      <3>6. Open(row[x]) /\ Claim(j) => Open(b)
        BY <3>5 DEF Open
      <3>7. DeskOK(j, b, acted[x])
        BY <2>1, <2>4, <3>6 DEF CallOK, DeskOK, PlaceOK, Claim, Got, Keeping, Working
      <3>8. KeptOK(j, b, local[x]) /\ ToldOK(d, j, b)
        BY <2>1, <2>4 DEF CallOK, KeptOK, ToldOK
      <3>9. QED
        BY <1>1, <2>1, <2>4, <3>4, <3>7, <3>8 DEF CallOK
    <2>5. QED BY <2>2, <2>3, <2>4
  <1>5. Sole'
    <2>1. \A d \in Calls : TxnOf[d] = x /\ Claim(call[d]) => row[x] # NoAttempt
      BY CallFacts DEF CallOK, RowOK
    <2>2. QED
      BY <1>1, <2>1 DEF LInv, Sole
  <1>6. QED
    BY <1>2, <1>3, <1>4, <1>5 DEF LInv

\* An answer of the database, given in time.
LEMMA RepliedOK ==
  ASSUME NEW c \in Calls, NEW j \in Records, j.pc \in Asking, NEW s \in Replies,
         NEW r \in Attempts, NEW b \in Attempts, NEW m, NEW n,
         CallOK(c, j, r, m, n), j.reply = NoReply, Past(r, b), Past(s.attempt, b),
         LET k == [j EXCEPT !.reply = s] IN
           /\ ReplyOK(c, k)
           /\ Got(k, "reserving", "applied") => b # NoAttempt /\ b.input = InputOf[c] /\ n = 0
           /\ Got(k, "dispatching", "applied") => Open(b)
  PROVE  CallOK(c, [j EXCEPT !.reply = s], b, m, n)
  <1>. DEFINE k == [j EXCEPT !.reply = s]
  <1>1. /\ k \in Records /\ k.pc = j.pc /\ k.own = j.own /\ k.seen = j.seen
        /\ k.aim = j.aim /\ k.guarded = j.guarded /\ k.reply = s /\ j.seen \in Attempts
    BY DEF Records
  <1>2. ReplyOK(c, k) /\ (Got(k, "dispatching", "applied") => Open(b))
        /\ (Got(k, "reserving", "applied") =>
              b # NoAttempt /\ b.input = InputOf[c] /\ n = 0)
    OBVIOUS
  <1>. HIDE DEF k
  <1>3. PlaceOK(c, k)
    BY <1>1 DEF CallOK, PlaceOK
  <1>4. Past(j.seen, b)
    BY <1>1, PastTransitive DEF CallOK, RowOK
  <1>5. RowOK(c, k, b)
    BY <1>1, <1>2, <1>4 DEF CallOK, RowOK, Claim, Past
  <1>6. DeskOK(k, b, n)
    BY <1>1, <1>2 DEF CallOK, DeskOK, Claim, Asking, Working, Got
  <1>7. KeptOK(k, b, m) /\ ToldOK(c, k, b)
    BY <1>1 DEF CallOK, KeptOK, ToldOK, Asking, Past, NoAttempt, Keeping
  <1>8. QED
    BY <1>1, <1>2, <1>3, <1>5, <1>6, <1>7 DEF CallOK, k

-----------------------------------------------------------------------------
(* The steps.                                                              *)

\* What execute() finds in the memory, or joins, or asks for.
LEMMA ExecuteNext ==
  ASSUME LedgerAssumption, LInv, NEW c \in Calls, Execute(c)
  PROVE  LInv'
  <1>. DEFINE x == TxnOf[c]
  <1>1. call[c].pc = "idle" /\ UNCHANGED <<row, local, acted>>
    BY DEF Execute, memory
  <1>2. /\ x \in Txns /\ call[c] \in Records /\ ~call[c].own
        /\ row[x] \in Attempts /\ local[x] \in Attempts /\ Past(local[x], row[x])
    BY <1>1, CallFacts DEF CallOK, PlaceOK, Unclaimed
  <1>3. Remembers
    BY <1>1 DEF Remembers, LInv, FunctionsOK, TxnOK
  <1>4. PICK fit \in {FALSE, RunOf[x] \in authorised} :
          call' = [call EXCEPT ![c] =
            IF Known(x) THEN Recovered(c, local[x], source[x], local[x], FALSE)
            ELSE IF reserving[x] # None THEN At("joining", FALSE)
            ELSE [At("reading", FALSE) EXCEPT !.fit = fit]]
    BY DEF Execute
  <1>5. CASE Known(x)
    <2>. DEFINE k == Recovered(c, local[x], source[x], local[x], FALSE)
    <2>1. local[x] # NoAttempt
      BY <1>5 DEF Known, NoAttempt
    <2>2. CallOK(c, k, row[x], local'[x], acted[x])
      BY <1>2, <2>1, RecoveredOK
    <2>3. ~Claim(k)
      BY <1>2, HumbleSteps, HumbleClaims
    <2>4. QED
      BY <1>1, <1>3, <1>4, <1>5, <2>2, <2>3, CallMoves
  <1>6. CASE ~Known(x) /\ reserving[x] # None
    <2>1. CallOK(c, At("joining", FALSE), row[x], local'[x], acted[x])
      BY AtOK DEF Places, Unclaimed
    <2>2. ~Claim(At("joining", FALSE))
      BY DEF Claim, Got, At
    <2>3. QED
      BY <1>1, <1>3, <1>4, <1>6, <2>1, <2>2, CallMoves
  <1>7. CASE ~Known(x) /\ reserving[x] = None
    <2>. DEFINE k == [At("reading", FALSE) EXCEPT !.fit = fit]
    <2>1. CallOK(c, k, row[x], local'[x], acted[x])
      <3>0. fit \in BOOLEAN
        <4>1. CASE RunOf[x] \in authorised
          <5>1. (RunOf[x] \in authorised) = TRUE
            BY <4>1
          <5>2. QED
            BY <1>4, <5>1
        <4>2. CASE RunOf[x] \notin authorised
          <5>1. (RunOf[x] \in authorised) = FALSE
            BY <4>2
          <5>2. QED
            BY <1>4, <5>1
        <4>3. QED
          BY <4>1, <4>2
      <3>1. /\ k \in Records /\ k.pc = "reading" /\ k.own = FALSE /\ k.seen = NoAttempt
            /\ k.reply.status = "none" /\ k.reply.attempt = NoAttempt
        BY <3>0 DEF At, NoReply, Records, Replies, Attempts, Places, Asking
      <3>. HIDE DEF k
      <3>2. QED
        BY <3>1 DEF CallOK, PlaceOK, ReplyOK, RowOK, DeskOK, KeptOK, ToldOK, Got, Claim,
                    Past, Keeping, Working
    <2>2. ~Claim(k)
      BY DEF Claim, Got, At
    <2>3. QED
      BY <1>1, <1>3, <1>4, <1>7, <2>1, <2>2, CallMoves
  <1>8. QED
    BY <1>5, <1>6, <1>7

\* A row changes only for whoever has seen it as it is.
LEMMA ServesNext ==
  ASSUME LedgerAssumption, LInv, NEW c \in Calls, Serves(c)
  PROVE  LInv'
  <1>. DEFINE x == TxnOf[c]
              With(s, a) == [call[c] EXCEPT !.reply = [status |-> s, attempt |-> a]]
              Reply(s, a) == call' = [call EXCEPT ![c] = With(s, a)]
              r == row[x]
  <1>0. /\ x \in Txns /\ InputOf[c] \in Inputs /\ call[c] \in Records
        /\ r \in Attempts /\ acted[x] \in {0, 1}
        /\ CallOK(c, call[c], r, local[x], acted[x]) /\ TxnOK(r, local[x], acted[x])
        /\ call[c].pc \in Asking /\ call[c].reply = NoReply
        /\ UNCHANGED <<local, acted>> /\ row \in [Txns -> Attempts]
    BY CallFacts DEF Serves, LInv, memory, FunctionsOK
  <1>1. Remembers
    BY <1>0 DEF Remembers, LInv, FunctionsOK, TxnOK
  <1>2. /\ \A s, a : With(s, a).pc = call[c].pc /\ With(s, a).own = call[c].own
        /\ \A s, a : With(s, a).reply = [status |-> s, attempt |-> a]
    BY <1>0 DEF Records
  <1>3. Past(r, r) /\ Past(NoAttempt, r) /\ NoAttempt \in Attempts
    BY <1>0 DEF Past, Attempts, NoAttempt
  <1>4. ASSUME NEW s \in {"none", "row", "applied", "conflict", "error"},
               NEW a \in {r, NoAttempt}, s # "applied",
               s = "conflict" => a # NoAttempt,
               Reply(s, a), UNCHANGED row
        PROVE  LInv'
    <2>1. [status |-> s, attempt |-> a] \in Replies
      BY <1>0, <1>3 DEF Replies
    <2>2. ReplyOK(c, With(s, a))
      BY <1>2, <1>4 DEF ReplyOK, Got
    <2>3. CallOK(c, With(s, a), r, local[x], acted[x])
      BY <1>0, <1>2, <1>3, <1>4, <2>1, <2>2, RepliedOK DEF Got
    <2>4. Claim(With(s, a)) => Claim(call[c])
      BY <1>2, <1>4 DEF Claim, Got
    <2>5. QED
      BY <1>0, <1>1, <1>4, <2>3, <2>4, CallMoves
  <1>5. CASE call[c].pc = "reading" /\ Reply("row", r) /\ UNCHANGED row
    BY <1>4, <1>5
  <1>6. CASE Reply("error", NoAttempt) /\ UNCHANGED row
    BY <1>4, <1>6
  <1>7. CASE /\ call[c].pc = "reserving" /\ r = NoAttempt
             /\ row' = [row EXCEPT ![x] = Queued(InputOf[c])] /\ Reply("applied", row'[x])
    <2>. DEFINE b == Queued(InputOf[c])
    <2>1. row'[x] = b /\ b \in Attempts /\ b.phase = "queued" /\ b.input = InputOf[c]
      BY <1>0, <1>7, QueuedType DEF Queued
    <2>2. acted[x] = 0 /\ TxnOK(b, local[x], acted[x])
      BY <1>0, <1>7, <2>1 DEF TxnOK, Past, NoAttempt, Harmless
    <2>3. Past(b, b) /\ Past(r, b) /\ [status |-> "applied", attempt |-> b] \in Replies
          /\ b # NoAttempt
      BY <1>7, <2>1 DEF Past, Replies, NoAttempt
    <2>4. ReplyOK(c, With("applied", b))
      BY <1>2, <1>7 DEF ReplyOK, Got
    <2>. HIDE DEF b
    <2>5. CallOK(c, With("applied", b), b, local[x], acted[x])
      <3>. DEFINE s == [status |-> "applied", attempt |-> b]
      <3>1. [call[c] EXCEPT !.reply = s].pc = call[c].pc /\ s.attempt = b
        BY <1>2
      <3>2. QED
        BY <1>0, <1>7, <2>1, <2>2, <2>3, <2>4, <3>1, RepliedOK DEF Got
    <2>6. r.phase = "none"
      BY <1>7 DEF NoAttempt
    <2>7. QED
      BY <1>0, <1>7, <2>1, <2>2, <2>3, <2>5, <2>6, RowMoves
  <1>8. CASE /\ call[c].pc = "reserving" /\ r # NoAttempt
             /\ UNCHANGED row /\ Reply("conflict", r)
    BY <1>4, <1>8
  <1>9. ASSUME NEW b \in Attempts, call[c].pc \in {"dispatching", "settling"},
               b.input = r.input, b # NoAttempt, r # NoAttempt, r.phase # "settled",
               b.phase \in {"dispatched", "settled"},
               call[c].pc = "dispatching" => b.phase = "dispatched",
               call[c].pc = "settling" => b.phase = "settled",
               r.phase = "dispatched" /\ ~Open(b) => Claim(call[c]),
               TxnOK(b, local[x], acted[x]),
               row' = [row EXCEPT ![x] = b], Reply("applied", b)
        PROVE  LInv'
    <2>1. Past(r, b) /\ Past(b, b) /\ [status |-> "applied", attempt |-> b] \in Replies
      BY <1>9 DEF Past, Replies
    <2>2. ReplyOK(c, With("applied", b))
      BY <1>2, <1>9 DEF ReplyOK, Got
    <2>3. CallOK(c, With("applied", b), b, local[x], acted[x])
      <3>. DEFINE s == [status |-> "applied", attempt |-> b]
      <3>1. /\ [call[c] EXCEPT !.reply = s].pc = call[c].pc
            /\ s.attempt = b
        BY <1>2
      <3>2. CASE call[c].pc = "dispatching"
        BY <1>0, <1>9, <2>1, <2>2, <3>1, <3>2, RepliedOK DEF Got, Open
      <3>3. CASE call[c].pc = "settling"
        BY <1>0, <1>9, <2>1, <2>2, <3>1, <3>3, RepliedOK DEF Got
      <3>4. QED BY <1>9, <3>2, <3>3
    <2>4. Claim(With("applied", b)) => Claim(call[c])
      BY <1>2, <1>9 DEF Claim, Got
    <2>5. QED
      BY <1>0, <1>9, <2>1, <2>3, <2>4, RowMoves
  <1>10. CASE /\ call[c].pc = "dispatching" /\ r = call[c].seen
              /\ row' = [row EXCEPT ![x] = [call[c].seen EXCEPT !.phase = "dispatched"]]
              /\ Reply("applied", [call[c].seen EXCEPT !.phase = "dispatched"])
    <2>. DEFINE b == [r EXCEPT !.phase = "dispatched"]
    <2>1. r.phase = "queued" /\ r # NoAttempt
      BY <1>0, <1>10 DEF CallOK, PlaceOK, NoAttempt
    <2>2. b \in Attempts /\ b.phase = "dispatched" /\ b.input = r.input
      BY <1>0, <2>1, Moves DEF Attempts, Results, NoAttempt
    <2>3. b # NoAttempt /\ TxnOK(b, local[x], acted[x])
      BY <1>0, <2>1, <2>2 DEF TxnOK, Past, NoAttempt
    <2>. HIDE DEF b
    <2>4. row' = [row EXCEPT ![x] = b] /\ Reply("applied", b)
      BY <1>10 DEF b
    <2>5. QED
      BY <1>9, <1>10, <2>1, <2>2, <2>3, <2>4
  <1>11. CASE /\ call[c].pc = "settling" /\ r = call[c].seen
              /\ row' = [row EXCEPT ![x] = [call[c].seen EXCEPT !.phase = "settled",
                                                               !.result = call[c].aim]]
              /\ Reply("applied", [call[c].seen EXCEPT !.phase = "settled",
                                                     !.result = call[c].aim])
    <2>. DEFINE a == call[c].aim
                b == [r EXCEPT !.phase = "settled", !.result = a]
    <2>1. r.phase \in {"queued", "dispatched"} /\ r # NoAttempt /\ a \in Results
      BY <1>0, <1>11 DEF CallOK, PlaceOK, NoAttempt, Undispatched, Results
    <2>2. b \in Attempts /\ b.phase = "settled" /\ b.result = a /\ b.input = r.input
      BY <1>0, <2>1, Moves DEF Attempts, NoAttempt
    <2>3. r.phase = "dispatched" /\ a # "unknown" => call[c].own
      BY <1>0, <1>11 DEF CallOK, PlaceOK
    <2>4. /\ a = "worked" => acted[x] = 1
          /\ a \in Harmless => acted[x] = 0
      BY <1>0, <1>11, <2>1 DEF CallOK, DeskOK, TxnOK
    <2>5. b # NoAttempt /\ TxnOK(b, local[x], acted[x])
      BY <1>0, <2>1, <2>2, <2>4 DEF TxnOK, Past, NoAttempt
    <2>. HIDE DEF a, b
    <2>6. row' = [row EXCEPT ![x] = b] /\ Reply("applied", b)
      BY <1>11 DEF a, b
    <2>7. QED
      BY <1>9, <1>11, <2>1, <2>2, <2>3, <2>5, <2>6 DEF Open, Claim
  <1>12. CASE /\ call[c].pc \in {"dispatching", "settling"} /\ r # call[c].seen
              /\ UNCHANGED row /\ Reply("conflict", r)
    <2>1. r # NoAttempt
      BY <1>0, <1>12 DEF CallOK, PlaceOK, RowOK, Claim, Past, Keeping, NoAttempt
    <2>2. QED
      BY <1>4, <1>12, <2>1
  <1>13. QED
    BY <1>5, <1>6, <1>7, <1>8, <1>10, <1>11, <1>12 DEF Serves

\* What the ledger then remembers.
LEMMA RememberFits ==
  ASSUME LedgerAssumption, LInv, NEW x \in Txns, NEW a \in Attempts, NEW from,
         Past(a, row[x]), a = NoAttempt => local[x] = NoAttempt \/ row[x].phase = "settled",
         Remember(x, a, from)
  PROVE  Remembers /\ local'[x] = a
  <1>1. local \in [Txns -> Attempts] /\ \A y \in Txns : Past(local[y], row[y])
    BY DEF LInv, FunctionsOK, TxnOK
  <1>2. local' = [local EXCEPT ![x] = a]
    BY DEF Remember
  <1>3. QED
    BY <1>1, <1>2 DEF Remembers

\* A memory that stays as it is.
LEMMA RemembersStays ==
  ASSUME LInv, UNCHANGED local
  PROVE  Remembers
  BY DEF Remembers, LInv, FunctionsOK, TxnOK

\* An answer of the database is remembered, or is settled and forgotten.
LEMMA TransitionedFits ==
  ASSUME LedgerAssumption, LInv, NEW x \in Txns, NEW a \in Attempts, NEW from,
         a # NoAttempt, Past(a, row[x]), Transitioned(x, a, from)
  PROVE  /\ Remembers /\ local'[x] \in {a, NoAttempt}
         /\ a.phase # "settled" => local'[x] = a
  <1>1. Past(NoAttempt, row[x]) /\ NoAttempt \in Attempts
    BY DEF Past, Attempts
  <1>2. a.phase = "settled" => row[x].phase = "settled"
    BY DEF Past
  <1>3. CASE a.phase = "settled" /\ RunOf[x] \in released
    BY <1>1, <1>2, <1>3, RememberFits DEF Transitioned
  <1>4. CASE ~(a.phase = "settled" /\ RunOf[x] \in released)
    BY <1>4, RememberFits DEF Transitioned
  <1>5. QED
    BY <1>3, <1>4

\* find(): what is found is recovered, what is not is reserved.
LEMMA FindAnsweredNext ==
  ASSUME LedgerAssumption, LInv, NEW c \in Calls, FindAnswered(c)
  PROVE  LInv'
  <1>. DEFINE x == TxnOf[c]
              found == call[c].reply.attempt
  <1>1. call[c].pc = "reading" /\ UNCHANGED <<row, acted>>
    BY DEF FindAnswered, Answered
  <1>2. /\ x \in Txns /\ call[c] \in Records /\ call[c].own = FALSE
        /\ row[x] \in Attempts /\ local[x] \in Attempts /\ Past(local[x], row[x])
        /\ found \in Attempts /\ Past(found, row[x])
    BY <1>1, CallFacts DEF CallOK, PlaceOK, RowOK, Unclaimed, Records, Replies
  <1>3. CASE found # NoAttempt /\ Remember(x, found, "durable")
             /\ call' = [call EXCEPT ![c] = Recovered(c, found, "durable", found, FALSE)]
    <2>. DEFINE k == Recovered(c, found, "durable", found, FALSE)
    <2>1. Remembers
      BY <1>2, <1>3, RememberFits
    <2>2. CallOK(c, k, row[x], local'[x], acted[x])
      BY <1>2, <1>3, RecoveredOK
    <2>3. ~Claim(k)
      BY <1>2, HumbleSteps, HumbleClaims
    <2>4. QED
      BY <1>1, <1>3, <2>1, <2>2, <2>3, CallMoves
  <1>4. CASE UNCHANGED local /\ call' = [call EXCEPT ![c] =
               IF Known(x) THEN Recovered(c, local[x], source[x], local[x], FALSE)
               ELSE IF reserving[x] # None THEN At("joining", FALSE)
               ELSE At("reserving", FALSE)]
    <2>0. Remembers
      BY <1>4, RemembersStays
    <2>1. CASE Known(x)
      <3>. DEFINE k == Recovered(c, local[x], source[x], local[x], FALSE)
      <3>1. local[x] # NoAttempt
        BY <2>1 DEF Known, NoAttempt
      <3>2. CallOK(c, k, row[x], local'[x], acted[x])
        BY <1>2, <3>1, RecoveredOK
      <3>3. ~Claim(k)
        BY <1>2, HumbleSteps, HumbleClaims
      <3>4. QED
        BY <1>1, <1>4, <2>0, <2>1, <3>2, <3>3, CallMoves
    <2>2. ASSUME NEW place \in {"joining", "reserving"},
                 call' = [call EXCEPT ![c] = At(place, FALSE)]
          PROVE  LInv'
      <3>1. CallOK(c, At(place, FALSE), row[x], local'[x], acted[x])
        BY AtOK DEF Places, Asking, Unclaimed
      <3>2. ~Claim(At(place, FALSE))
        BY DEF Claim, Got, At, NoReply
      <3>3. QED
        BY <1>1, <2>0, <2>2, <3>1, <3>2, CallMoves
    <2>3. QED
      BY <1>4, <2>1, <2>2
  <1>5. CASE UNCHANGED local /\ call' = [call EXCEPT ![c] = Throws(c)]
    <2>1. CallOK(c, Throws(c), row[x], local'[x], acted[x])
      BY <1>2, AtOK DEF Throws, Places, Over, Unclaimed
    <2>2. ~Claim(Throws(c))
      BY <1>2, HumblePlaces, HumbleClaims
    <2>3. QED
      BY <1>1, <1>5, <2>1, <2>2, RemembersStays, CallMoves
  <1>6. QED
    BY <1>3, <1>4, <1>5 DEF FindAnswered

\* A reservation ends for the call that made it and for those that have joined it.
LEMMA JoinedMoves ==
  ASSUME LedgerAssumption, LInv, UNCHANGED <<row, acted>>, Remembers,
         NEW c \in Calls, NEW k, NEW a \in Attempts, NEW from, call[c].pc # "joining",
         call' = Joined([call EXCEPT ![c] = k], TxnOf[c], a, from),
         Past(a, row[TxnOf[c]]),
         CallOK(c, k, row[TxnOf[c]], local'[TxnOf[c]], acted[TxnOf[c]]),
         Claim(k) => Claim(call[c])
  PROVE  LInv'
  <1>. DEFINE x == TxnOf[c]
              now(d) == IF call[d].pc = "joining" /\ TxnOf[d] = x
                        THEN IF a = NoAttempt THEN Throws(d)
                             ELSE Recovered(d, a, from, a, FALSE)
                        ELSE IF d = c THEN k ELSE call[d]
  <1>1. call' = [d \in Calls |-> now(d)]
    BY DEF Joined, LInv, FunctionsOK
  <1>2. ASSUME NEW d \in Calls
        PROVE  /\ CallOK(d, now(d), row[TxnOf[d]], local'[TxnOf[d]], acted[TxnOf[d]])
               /\ Claim(now(d)) => Claim(call[d])
    <2>1. CASE call[d].pc = "joining" /\ TxnOf[d] = x
      <3>1. /\ call[d].own = FALSE /\ call[d] \in Records
            /\ row[x] \in Attempts /\ x \in Txns
        BY <2>1, CallFacts DEF CallOK, PlaceOK, Unclaimed, Records
      <3>2. CASE a = NoAttempt
        <4>1. CallOK(d, Throws(d), row[x], local'[x], acted[x])
          BY <3>1, AtOK DEF Throws, Places, Over, Unclaimed
        <4>2. ~Claim(Throws(d))
          BY <3>1, HumblePlaces, HumbleClaims
        <4>3. QED
          BY <2>1, <3>2, <4>1, <4>2
      <3>3. CASE a # NoAttempt
        <4>1. CallOK(d, Recovered(d, a, from, a, FALSE), row[x], local'[x], acted[x])
          BY <3>1, <3>3, RecoveredOK
        <4>2. ~Claim(Recovered(d, a, from, a, FALSE))
          BY <3>1, HumbleSteps, HumbleClaims
        <4>3. QED
          BY <2>1, <3>3, <4>1, <4>2
      <3>4. QED
        BY <3>2, <3>3
    <2>2. CASE ~(call[d].pc = "joining" /\ TxnOf[d] = x) /\ d = c
      BY <2>2
    <2>3. CASE ~(call[d].pc = "joining" /\ TxnOf[d] = x) /\ d # c
      BY <2>3, KeptStays
    <2>4. QED
      BY <2>1, <2>2, <2>3
  <1>3. \A d \in Calls : now(d) \in Records
    BY <1>2 DEF CallOK
  <1>. HIDE DEF now
  <1>4. call' \in [Calls -> Records] /\ \A d \in Calls : call'[d] = now(d)
    BY <1>1, <1>3
  <1>5. QED
    BY <1>2, <1>4, CallsMove

\* The call that settles what it has just reserved claims it.
LEMMA OwnedOK ==
  ASSUME NEW c \in Calls, NEW now \in Attempts, NEW a \in Undispatched,
         call[c] \in Records, call[c].own = FALSE, now.phase = "queued",
         NEW r \in Attempts, NEW m, NEW n, Past(now, r), now.input = InputOf[c]
  PROVE  CallOK(c, [Settling(c, now, a, FALSE, FALSE) EXCEPT !.own = TRUE], r, m, n)
  <1>. DEFINE j == Settling(c, now, a, FALSE, FALSE)
              k == [j EXCEPT !.own = TRUE]
  <1>1. CallOK(c, j, r, m, n)
    BY SettlingOK DEF Undispatched, Results
  <1>2. /\ j.pc = "settling" /\ j.reply = NoReply /\ j \in Records
    BY <1>1 DEF Settling, At, CallOK
  <1>. HIDE DEF j
  <1>3. /\ k \in Records /\ k.pc = "settling" /\ k.own = TRUE /\ k.seen = j.seen
        /\ k.aim = j.aim /\ k.guarded = j.guarded /\ k.reply = NoReply
    BY <1>2 DEF Records
  <1>. HIDE DEF k
  <1>4. NoReply.status = "none" /\ r # NoAttempt /\ r.input = InputOf[c]
    BY DEF NoReply, Past, NoAttempt
  <1>5. PlaceOK(c, k)
    BY <1>1, <1>2, <1>3 DEF CallOK, PlaceOK, Unclaimed
  <1>6. ReplyOK(c, k) /\ RowOK(c, k, r)
    BY <1>1, <1>2, <1>3, <1>4 DEF CallOK, ReplyOK, RowOK, Got
  <1>7. DeskOK(k, r, n) /\ KeptOK(k, r, m) /\ ToldOK(c, k, r)
    BY <1>1, <1>2, <1>3, <1>4 DEF CallOK, DeskOK, KeptOK, ToldOK, Got, Keeping, Working
  <1>8. QED
    BY <1>3, <1>5, <1>6, <1>7 DEF CallOK, j, k

\* begin(): whoever has reserved the row claims the attempt; the others recover it.
LEMMA ReserveAnsweredNext ==
  ASSUME LedgerAssumption, LInv, NEW c \in Calls, ReserveAnswered(c)
  PROVE  LInv'
  <1>. DEFINE x == TxnOf[c]
              a == call[c].reply.attempt
  <1>1. call[c].pc = "reserving" /\ UNCHANGED <<row, acted>>
    BY DEF ReserveAnswered, Answered
  <1>2. /\ x \in Txns /\ call[c] \in Records /\ call[c].own = FALSE /\ InputOf[c] \in Inputs
        /\ row[x] \in Attempts /\ a \in Attempts /\ Past(a, row[x])
        /\ CallOK(c, call[c], row[x], local[x], acted[x])
    BY <1>1, CallFacts DEF CallOK, PlaceOK, RowOK, Unclaimed, Records, Replies
  <1>3. CASE call[c].reply.status = "applied"
    <2>1. a = Queued(InputOf[c]) /\ acted[x] = 0 /\ Claim(call[c])
          /\ row[x] # NoAttempt /\ row[x].input = InputOf[c]
      BY <1>1, <1>2, <1>3 DEF CallOK, ReplyOK, RowOK, DeskOK, Got, Claim
    <2>2. a.phase = "queued" /\ a.input = InputOf[c] /\ a # NoAttempt
      BY <2>1 DEF Queued, NoAttempt
    <2>3. Remember(x, a, "local")
      BY <1>1, <1>3, <2>2 DEF ReserveAnswered, Answered
    <2>4. Remembers /\ local'[x] = a
      BY <1>2, <2>2, <2>3, RememberFits
    <2>5. ASSUME NEW k, call' = Joined([call EXCEPT ![c] = k], x, a, "local"),
                 CallOK(c, k, row[x], local'[x], acted[x])
          PROVE  LInv'
      BY <1>1, <1>2, <2>1, <2>4, <2>5, JoinedMoves
    <2>6. ASSUME NEW r \in Undispatched,
                 call' = Joined([call EXCEPT ![c] =
                   [Settling(c, a, r, FALSE, FALSE) EXCEPT !.own = TRUE]], x, a, "local")
          PROVE  LInv'
      BY <1>2, <2>2, <2>5, <2>6, OwnedOK
    <2>7. CASE call' = Joined([call EXCEPT ![c] = [At("waiting", TRUE) EXCEPT !.own = TRUE]],
                              x, a, "local")
      <3>1. [At("waiting", TRUE) EXCEPT !.own = TRUE] = At("waiting", TRUE)
        <4>. DEFINE k == At("waiting", TRUE)
        <4>1. k \in Records /\ k.own = TRUE
          BY AtType DEF Places
        <4>. HIDE DEF k
        <4>2. [k EXCEPT !.own = TRUE] = k
          BY <4>1 DEF Records
        <4>3. QED
          BY <4>2 DEF k
      <3>2. CallOK(c, At("waiting", TRUE), row[x], local'[x], acted[x])
        BY <2>1, <2>2, <2>4, AtOK DEF Places, Unclaimed
      <3>3. QED
        BY <2>5, <2>7, <3>1, <3>2
    <2>8. Cancelling(c, a, FALSE) = Settling(c, a, "cancelled", FALSE, FALSE)
      BY <2>2 DEF Cancelling
    <2>9. {"cancelled", "refused", "unavailable"} \subseteq Undispatched
      BY DEF Undispatched
    <2>10. QED
      BY <1>1, <1>3, <2>6, <2>7, <2>8, <2>9 DEF ReserveAnswered, Answered
  <1>4. CASE call[c].reply.status = "conflict"
    <2>. DEFINE k == Recovered(c, a, "durable", a, FALSE)
    <2>1. a # NoAttempt
      BY <1>2, <1>4 DEF CallOK, ReplyOK
    <2>2. call' = Joined([call EXCEPT ![c] = k], x, a, "durable")
      BY <1>1, <1>4 DEF ReserveAnswered, Answered
    <2>3. Remembers
      <3>1. Past(NoAttempt, row[x]) /\ NoAttempt \in Attempts
            /\ (a.phase = "settled" => row[x].phase = "settled")
        BY <1>2, <2>1 DEF Past, Attempts
      <3>2. \/ Remember(x, a, "durable")
            \/ a.phase = "settled" /\ Remember(x, NoAttempt, "durable")
        BY <1>1, <1>4 DEF ReserveAnswered, Answered
      <3>3. QED
        BY <1>2, <2>1, <3>1, <3>2, RememberFits
    <2>4. CallOK(c, k, row[x], local'[x], acted[x])
      BY <1>2, <2>1, RecoveredOK
    <2>5. ~Claim(k)
      BY <1>2, HumbleSteps, HumbleClaims
    <2>6. QED
      BY <1>1, <1>2, <2>2, <2>3, <2>4, <2>5, JoinedMoves
  <1>5. CASE call[c].reply.status = "error"
    <2>1. UNCHANGED local /\ call' = Joined([call EXCEPT ![c] = Throws(c)], x, NoAttempt, "local")
      BY <1>1, <1>5 DEF ReserveAnswered, Answered
    <2>2. CallOK(c, Throws(c), row[x], local'[x], acted[x])
      BY <1>2, AtOK DEF Throws, Places, Over, Unclaimed
    <2>3. ~Claim(Throws(c))
      BY <1>2, HumblePlaces, HumbleClaims
    <2>4. Past(NoAttempt, row[x]) /\ NoAttempt \in Attempts
      BY DEF Past, Attempts
    <2>5. QED
      BY <1>1, <2>1, <2>2, <2>3, <2>4, RemembersStays, JoinedMoves
  <1>6. QED
    BY <1>1, <1>3, <1>4, <1>5 DEF ReserveAnswered, Answered

\* The claimant acts, or may act again in the foreground.
LEMMA WorkingOK ==
  ASSUME NEW c \in Calls, NEW place \in Working, NEW r \in Attempts, NEW m,
         Open(r), r.input = InputOf[c], m # NoAttempt \/ r.phase = "settled"
  PROVE  CallOK(c, At(place, TRUE), r, m, 1)
  <1>. DEFINE k == At(place, TRUE)
  <1>1. /\ k \in Records /\ k.pc = place /\ k.own = TRUE /\ k.seen = NoAttempt
        /\ k.reply = NoReply
    BY AtType DEF Working, Places
  <1>. HIDE DEF k
  <1>2. NoReply.status = "none" /\ NoReply.attempt = NoAttempt /\ r # NoAttempt
    BY DEF NoReply, Open, NoAttempt
  <1>3. PlaceOK(c, k) /\ ReplyOK(c, k) /\ RowOK(c, k, r)
    BY <1>1, <1>2 DEF PlaceOK, ReplyOK, RowOK, Got, Claim, Past, Keeping, Working, Unclaimed
  <1>4. DeskOK(k, r, 1) /\ KeptOK(k, r, m) /\ ToldOK(c, k, r)
    BY <1>1, <1>2 DEF DeskOK, KeptOK, ToldOK, Got, Claim, Keeping, Working
  <1>5. QED
    BY <1>1, <1>3, <1>4 DEF CallOK, k

\* The claimant has the backend's result.
LEMMA ObservingOK ==
  ASSUME NEW c \in Calls, NEW a \in Results, a # "cancelled", NEW r \in Attempts, NEW m, NEW n,
         Open(r), r.input = InputOf[c], m # NoAttempt \/ r.phase = "settled",
         a = "worked" => n = 1, a \in Harmless => n = 0
  PROVE  CallOK(c, [At("observing", TRUE) EXCEPT !.aim = a], r, m, n)
  <1>. DEFINE j == At("observing", TRUE)
              k == [j EXCEPT !.aim = a]
  <1>1. /\ j \in Records /\ j.pc = "observing" /\ j.own = TRUE /\ j.seen = NoAttempt
        /\ j.reply = NoReply
    BY AtType DEF Places
  <1>. HIDE DEF j
  <1>2. /\ k \in Records /\ k.pc = "observing" /\ k.own = TRUE /\ k.seen = NoAttempt
        /\ k.reply = NoReply /\ k.aim = a
    BY <1>1 DEF Records
  <1>. HIDE DEF k
  <1>3. NoReply.status = "none" /\ NoReply.attempt = NoAttempt /\ r # NoAttempt
    BY DEF NoReply, Open, NoAttempt
  <1>4. PlaceOK(c, k) /\ ReplyOK(c, k) /\ RowOK(c, k, r)
    BY <1>2, <1>3 DEF PlaceOK, ReplyOK, RowOK, Got, Claim, Past, Keeping, Unclaimed
  <1>5. DeskOK(k, r, n) /\ KeptOK(k, r, m) /\ ToldOK(c, k, r)
    BY <1>2, <1>3 DEF DeskOK, KeptOK, ToldOK, Got, Claim, Keeping, Working
  <1>6. QED
    BY <1>2, <1>4, <1>5 DEF CallOK, j, k

\* Whoever waits has not acted: its dispatch is asked for, or it gives up.
LEMMA TakeTurnNext ==
  ASSUME LedgerAssumption, LInv, NEW c \in Calls, TakeTurn(c)
  PROVE  LInv'
  <1>. DEFINE x == TxnOf[c]
  <1>1. call[c].pc = "waiting" /\ UNCHANGED <<row, local, acted>>
    BY DEF TakeTurn, memory
  <1>2. /\ x \in Txns /\ call[c] \in Records /\ call[c].own = TRUE
        /\ row[x] \in Attempts /\ local[x] \in Attempts /\ Past(local[x], row[x])
        /\ row[x] # NoAttempt /\ row[x].input = InputOf[c]
        /\ acted[x] = 0
    BY <1>1, CallFacts DEF CallOK, PlaceOK, DeskOK, Claim, Keeping
  <1>3. CASE /\ local[x].phase = "queued"
             /\ call' = [call EXCEPT ![c] = [At("dispatching", TRUE) EXCEPT !.seen = local[x]]]
    <2>. DEFINE j == At("dispatching", TRUE)
                k == [j EXCEPT !.seen = local[x]]
    <2>1. /\ j \in Records /\ j.pc = "dispatching" /\ j.own = TRUE /\ j.reply = NoReply
      BY AtType DEF Places, Asking
    <2>. HIDE DEF j
    <2>2. /\ k \in Records /\ k.pc = "dispatching" /\ k.own = TRUE /\ k.seen = local[x]
          /\ k.reply = NoReply
      BY <1>2, <2>1 DEF Records
    <2>. HIDE DEF k
    <2>3. NoReply.status = "none" /\ NoReply.attempt = NoAttempt /\ local[x] # NoAttempt
      BY <1>3 DEF NoReply, NoAttempt
    <2>4. PlaceOK(c, k) /\ ReplyOK(c, k) /\ RowOK(c, k, row[x])
      BY <1>2, <1>3, <2>2, <2>3 DEF PlaceOK, ReplyOK, RowOK, Got, Claim, Past, Keeping, Unclaimed
    <2>5. DeskOK(k, row[x], acted[x]) /\ KeptOK(k, row[x], local[x]) /\ ToldOK(c, k, row[x])
      BY <1>2, <2>2, <2>3 DEF DeskOK, KeptOK, ToldOK, Got, Claim, Keeping, Working
    <2>6. CallOK(c, k, row[x], local'[x], acted[x])
      BY <1>1, <2>2, <2>4, <2>5 DEF CallOK
    <2>7. Claim(call[c]) /\ call' = [call EXCEPT ![c] = k]
      BY <1>2, <1>3 DEF Claim, j, k
    <2>8. QED
      BY <1>1, <2>6, <2>7, RemembersStays, CallMoves
  <1>4. CASE call' = [call EXCEPT ![c] = Caught(c, local[x])]
    <2>1. CallOK(c, Caught(c, local[x]), row[x], local'[x], acted[x])
      BY <1>2, CaughtOK
    <2>2. QED
      BY <1>1, <1>4, <2>1, RemembersStays, HumbleSteps, HumbleClaims, CallMoves, <1>2 DEF Claim
  <1>5. QED
    BY <1>3, <1>4 DEF TakeTurn

\* The dispatch is recorded before the claimant acts.
LEMMA DispatchAnsweredNext ==
  ASSUME LedgerAssumption, LInv, NEW c \in Calls, DispatchAnswered(c)
  PROVE  LInv'
  <1>. DEFINE x == TxnOf[c]
              a == call[c].reply.attempt
  <1>1. call[c].pc = "dispatching" /\ UNCHANGED row
    BY DEF DispatchAnswered, Answered
  <1>2. /\ x \in Txns /\ call[c] \in Records /\ call[c].own = TRUE /\ Claim(call[c])
        /\ row[x] \in Attempts /\ local[x] \in Attempts /\ Past(local[x], row[x])
        /\ row[x] # NoAttempt /\ row[x].input = InputOf[c]
        /\ acted[x] = 0 /\ a \in Attempts /\ Past(a, row[x])
        /\ CallOK(c, call[c], row[x], local[x], acted[x])
    BY <1>1, CallFacts DEF CallOK, PlaceOK, RowOK, DeskOK, Claim, Keeping, Records, Replies
  <1>3. CASE call[c].reply.status = "applied"
    <2>1. a.phase = "dispatched" /\ a # NoAttempt /\ Open(row[x])
      BY <1>1, <1>2, <1>3 DEF CallOK, ReplyOK, DeskOK, Got, NoAttempt
    <2>2. Remembers /\ local'[x] = a
      BY <1>1, <1>2, <1>3, <2>1, TransitionedFits DEF DispatchAnswered, Answered
    <2>3. CASE aborted[c]
      <3>1. call' = [call EXCEPT ![c] = Caught(c, a)] /\ UNCHANGED acted
        BY <1>1, <1>3, <2>3 DEF DispatchAnswered, Answered
      <3>2. CallOK(c, Caught(c, a), row[x], local'[x], acted[x])
        BY <1>2, CaughtOK
      <3>3. QED
        BY <1>1, <1>2, <2>2, <3>1, <3>2, CallMoves
    <2>4. CASE ~aborted[c]
      <3>1. /\ call' = [call EXCEPT ![c] = At("acting", TRUE)]
            /\ acted' = [acted EXCEPT ![x] = @ + 1]
        BY <1>1, <1>3, <2>4 DEF DispatchAnswered, Answered
      <3>2. acted' = [acted EXCEPT ![x] = 1]
        BY <1>2, <3>1
      <3>3. CallOK(c, At("acting", TRUE), row[x], local'[x], 1)
        BY <1>2, <2>1, <2>2, WorkingOK DEF Working
      <3>4. QED
        BY <1>1, <1>2, <2>1, <2>2, <3>1, <3>2, <3>3, DeskMoves
    <2>5. QED
      BY <2>3, <2>4
  <1>4. CASE call[c].reply.status = "conflict"
    <2>1. a # NoAttempt
      BY <1>2, <1>4 DEF CallOK, ReplyOK
    <2>2. /\ Transitioned(x, a, "durable") /\ UNCHANGED acted
          /\ call' = [call EXCEPT ![c] = Recovered(c, a, "durable", local'[x], TRUE)]
      BY <1>1, <1>4 DEF DispatchAnswered, Answered
    <2>3. Remembers /\ local'[x] \in {a, NoAttempt}
      BY <1>2, <2>1, <2>2, TransitionedFits
    <2>4. CallOK(c, Recovered(c, a, "durable", local'[x], TRUE), row[x], local'[x], acted[x])
      BY <1>2, <2>1, <2>3, RecoveredOK
    <2>5. QED
      BY <1>1, <1>2, <2>2, <2>3, <2>4, CallMoves
  <1>5. CASE call[c].reply.status = "error"
    <2>1. call' = [call EXCEPT ![c] = Caught(c, local[x])] /\ UNCHANGED <<acted, local>>
      BY <1>1, <1>5 DEF DispatchAnswered, Answered
    <2>2. CallOK(c, Caught(c, local[x]), row[x], local'[x], acted[x])
      BY <1>2, CaughtOK
    <2>3. QED
      BY <1>1, <1>2, <2>1, <2>2, RemembersStays, CallMoves
  <1>6. QED
    BY <1>3, <1>4, <1>5 DEF DispatchAnswered, Answered

\* The backend answers, and only a proven nothing is repeated or taken back.
LEMMA ActsNext ==
  ASSUME LedgerAssumption, LInv, NEW c \in Calls, Acts(c)
  PROVE  LInv'
  <1>. DEFINE x == TxnOf[c]
              Seen(a) == [At("observing", TRUE) EXCEPT !.aim = a]
  <1>1. call[c].pc \in Working /\ UNCHANGED <<row, local>>
    BY DEF Acts, memory, Working
  <1>2. /\ x \in Txns /\ call[c] \in Records /\ call[c].own = TRUE /\ Claim(call[c])
        /\ row[x] \in Attempts /\ local[x] \in Attempts /\ Past(local[x], row[x])
        /\ row[x] # NoAttempt /\ row[x].input = InputOf[c] /\ acted[x] = 1 /\ Open(row[x])
        /\ local[x] # NoAttempt \/ row[x].phase = "settled"
    BY <1>1, CallFacts DEF CallOK, PlaceOK, DeskOK, KeptOK, Claim, Keeping, Working
  <1>3. Remembers
    BY <1>1, RemembersStays
  <1>4. ASSUME NEW k, call' = [call EXCEPT ![c] = k], UNCHANGED acted,
               CallOK(c, k, row[x], local[x], 1)
        PROVE  LInv'
    BY <1>1, <1>2, <1>3, <1>4, CallMoves
  <1>5. ASSUME NEW k, call' = [call EXCEPT ![c] = k], acted' = [acted EXCEPT ![x] = @ - 1],
               CallOK(c, k, row[x], local[x], 0)
        PROVE  LInv'
    <2>1. acted' = [acted EXCEPT ![x] = 0]
      BY <1>2, <1>5
    <2>2. QED
      BY <1>1, <1>2, <1>3, <1>5, <2>1, DeskMoves
  <1>6. ASSUME NEW a \in {"worked", "unknown"}, call' = [call EXCEPT ![c] = Seen(a)],
               UNCHANGED acted
        PROVE  LInv'
    <2>1. CallOK(c, Seen(a), row[x], local[x], 1)
      BY <1>2, ObservingOK DEF Results, Harmless
    <2>2. QED
      BY <1>4, <1>6, <2>1
  <1>7. ASSUME NEW a \in {"didnt", "refused", "unavailable"},
               call' = [call EXCEPT ![c] = Seen(a)], acted' = [acted EXCEPT ![x] = @ - 1]
        PROVE  LInv'
    <2>1. CallOK(c, Seen(a), row[x], local[x], 0)
      BY <1>2, ObservingOK DEF Results, Harmless
    <2>2. QED
      BY <1>5, <1>7, <2>1
  <1>8. CASE call' = [call EXCEPT ![c] = At("retrying", TRUE)] /\ UNCHANGED acted
    <2>1. CallOK(c, At("retrying", TRUE), row[x], local[x], 1)
      BY <1>2, WorkingOK DEF Working
    <2>2. QED
      BY <1>4, <1>8, <2>1
  <1>9. CASE call' = [call EXCEPT ![c] = Caught(c, local[x])]
             /\ acted' = [acted EXCEPT ![x] = @ - 1]
    BY <1>2, <1>5, <1>9, CaughtOK
  <1>10. CASE call' = [call EXCEPT ![c] = Caught(c, local[x])] /\ UNCHANGED acted
    BY <1>2, <1>4, <1>10, CaughtOK
  <1>11. QED
    BY <1>6, <1>7, <1>8, <1>9, <1>10 DEF Acts

\* What was observed is settled.
LEMMA SuccessorObservedNext ==
  ASSUME LedgerAssumption, LInv, NEW c \in Calls, SuccessorObserved(c)
  PROVE  LInv'
  <1>. DEFINE x == TxnOf[c]
  <1>1. call[c].pc = "observing" /\ UNCHANGED <<row, local, acted>>
    BY DEF SuccessorObserved, memory
  <1>2. /\ x \in Txns /\ call[c] \in Records /\ call[c].own = TRUE /\ Claim(call[c])
        /\ row[x] \in Attempts /\ local[x] \in Attempts /\ Past(local[x], row[x])
        /\ row[x] # NoAttempt /\ row[x].input = InputOf[c]
        /\ call[c].aim \in Results \ {"cancelled"}
        /\ call[c].aim = "worked" => acted[x] = 1
        /\ call[c].aim \in Harmless => acted[x] = 0
    BY <1>1, CallFacts DEF CallOK, PlaceOK, DeskOK, Claim, Keeping
  <1>3. ASSUME NEW k, call' = [call EXCEPT ![c] = k], CallOK(c, k, row[x], local[x], acted[x])
        PROVE  LInv'
    BY <1>1, <1>2, <1>3, RemembersStays, CallMoves
  <1>4. CallOK(c, Caught(c, local[x]), row[x], local[x], acted[x])
    BY <1>2, CaughtOK
  <1>5. ASSUME NEW a \in {call[c].aim, "unknown"}
        PROVE  CallOK(c, SettlingInTry(c, a), row[x], local[x], acted[x])
    <2>1. CASE local[x].phase = "queued"
      BY <1>4, <2>1 DEF SettlingInTry
    <2>2. CASE local[x].phase # "queued"
      <3>1. a \in Results /\ a # "cancelled" /\ (a = "worked" => acted[x] = 1)
            /\ (a \in Harmless => acted[x] = 0)
        BY <1>2 DEF Results, Harmless
      <3>2. local[x] # NoAttempt => local[x].input = InputOf[c]
        BY <1>2 DEF Past
      <3>3. CallOK(c, Settling(c, local[x], a, TRUE, FALSE), row[x], local[x], acted[x])
        BY <1>2, <2>2, <3>1, <3>2, SettlingOK
      <3>4. QED
        BY <2>2, <3>3 DEF SettlingInTry
    <2>3. QED
      BY <2>1, <2>2
  <1>6. QED
    BY <1>3, <1>4, <1>5 DEF SuccessorObserved

\* After a look at the desktop the outcome is unknown.
LEMMA SurveyedNext ==
  ASSUME LedgerAssumption, LInv, NEW c \in Calls, Surveyed(c)
  PROVE  LInv'
  <1>. DEFINE x == TxnOf[c]
              k == IF local[x].phase = "queued" THEN Throws(c)
                   ELSE Settling(c, local[x], "unknown", FALSE, FALSE)
  <1>1. /\ call[c].pc = "surveying" /\ UNCHANGED <<row, local, acted>>
        /\ call' = [call EXCEPT ![c] = k]
    BY DEF Surveyed, memory
  <1>2. /\ x \in Txns /\ call[c] \in Records /\ call[c].own = TRUE /\ Claim(call[c])
        /\ row[x] \in Attempts /\ local[x] \in Attempts /\ Past(local[x], row[x])
        /\ row[x] # NoAttempt /\ row[x].input = InputOf[c]
    BY <1>1, CallFacts DEF CallOK, PlaceOK, Claim
  <1>3. CallOK(c, k, row[x], local[x], acted[x])
    <2>1. CASE local[x].phase = "queued"
      BY <1>2, <2>1, AtOK DEF Throws, Places, Over, Unclaimed
    <2>2. CASE local[x].phase # "queued"
      BY <1>2, <2>2, SettlingOK DEF Past, Results, Harmless
    <2>3. QED
      BY <2>1, <2>2
  <1>. HIDE DEF k
  <1>4. QED
    BY <1>1, <1>2, <1>3, RemembersStays, CallMoves

\* A settlement that came second answers with what is recorded.
LEMMA SettleAnsweredNext ==
  ASSUME LedgerAssumption, LInv, NEW c \in Calls, SettleAnswered(c)
  PROVE  LInv'
  <1>. DEFINE x == TxnOf[c]
              a == call[c].reply.attempt
              seen == call[c].seen
              Failed == IF call[c].guarded THEN Caught(c, local'[x]) ELSE Throws(c)
              Told == IF call[c].rethrow THEN Throws(c) ELSE Returns(c, a.result)
  <1>1. call[c].pc = "settling" /\ UNCHANGED <<row, acted>>
    BY DEF SettleAnswered, Answered
  <1>2. /\ x \in Txns /\ call[c] \in Records /\ call[c].own \in BOOLEAN
        /\ row[x] \in Attempts /\ local[x] \in Attempts /\ Past(local[x], row[x])
        /\ a \in Attempts /\ Past(a, row[x])
        /\ call[c].guarded \in BOOLEAN /\ call[c].rethrow \in BOOLEAN
        /\ call[c].guarded => call[c].own
        /\ CallOK(c, call[c], row[x], local[x], acted[x])
    BY <1>1, CallFacts DEF CallOK, PlaceOK, RowOK, Records, Replies
  <1>3. row[x] # NoAttempt /\ row[x].input = InputOf[c]
    BY <1>1, <1>2 DEF CallOK, PlaceOK, RowOK, Past, NoAttempt
  <1>4. ASSUME Remembers PROVE CallOK(c, Failed, row[x], local'[x], acted[x])
                               /\ Humble(c, Failed)
    <2>1. local'[x] \in Attempts /\ Past(local'[x], row[x])
      BY <1>2, <1>4 DEF Remembers
    <2>2. CallOK(c, Throws(c), row[x], local'[x], acted[x])
      BY <1>2, <1>3, AtOK DEF Throws, Places, Over, Unclaimed
    <2>3. CASE call[c].guarded
      BY <1>2, <1>3, <2>1, <2>3, CaughtOK, HumbleSteps
    <2>4. CASE ~call[c].guarded
      BY <2>2, <2>4, HumblePlaces
    <2>5. QED
      BY <2>3, <2>4
  <1>5. ASSUME a.phase = "settled"
        PROVE  CallOK(c, Told, row[x], local'[x], acted[x]) /\ Humble(c, Told)
    <2>1. row[x] = a /\ a.result \in Results
      BY <1>2, <1>5, Shapes DEF Past, NoAttempt
    <2>2. CallOK(c, Throws(c), row[x], local'[x], acted[x])
      BY <1>2, <1>3, AtOK DEF Throws, Places, Over, Unclaimed
    <2>3. CallOK(c, Returns(c, a.result), row[x], local'[x], acted[x])
      BY <1>2, <1>3, <1>5, <2>1, ReturnsOK
    <2>4. QED
      BY <2>2, <2>3, HumblePlaces
  <1>6. ASSUME NEW k, call' = [call EXCEPT ![c] = k], Remembers, Humble(c, k),
               CallOK(c, k, row[x], local'[x], acted[x])
        PROVE  LInv'
    BY <1>1, <1>6, HumbleClaims, CallMoves
  <1>7. CASE call[c].reply.status = "applied"
    <2>1. a.phase = "settled" /\ a # NoAttempt
      BY <1>1, <1>2, <1>7 DEF CallOK, ReplyOK, Got, NoAttempt
    <2>2. Transitioned(x, a, "local") /\ call' = [call EXCEPT ![c] = Told]
      BY <1>1, <1>7 DEF SettleAnswered, Answered
    <2>3. Remembers
      BY <1>2, <2>1, <2>2, TransitionedFits
    <2>. HIDE DEF Told
    <2>4. QED
      BY <1>5, <1>6, <2>1, <2>2, <2>3
  <1>8. CASE call[c].reply.status = "conflict"
    <2>. DEFINE Again == Settling(c, a, "unknown", call[c].guarded, call[c].rethrow)
    <2>1. a # NoAttempt
      BY <1>2, <1>8 DEF CallOK, ReplyOK
    <2>2. /\ Transitioned(x, a, "durable")
          /\ call' = [call EXCEPT ![c] =
               IF a.phase = "settled" THEN Told
               ELSE IF seen.phase = "queued" /\ a.phase = "dispatched" THEN Again
               ELSE Failed]
      BY <1>1, <1>8 DEF SettleAnswered, Answered
    <2>3. Remembers
      BY <1>2, <2>1, <2>2, TransitionedFits
    <2>4. a.phase = "dispatched" =>
            CallOK(c, Again, row[x], local'[x], acted[x]) /\ Humble(c, Again)
      <3>1. a.input = InputOf[c]
        BY <1>3, <2>1, <1>2 DEF Past
      <3>2. "unknown" \in Results /\ "unknown" \notin Harmless
        BY DEF Results, Harmless
      <3>3. QED
        BY <1>2, <1>3, <3>1, <3>2, SettlingOK, HumbleSettling
    <2>. HIDE DEF Told, Failed, Again
    <2>5. QED
      BY <1>4, <1>5, <1>6, <2>2, <2>3, <2>4
  <1>9. CASE call[c].reply.status = "error"
    <2>1. UNCHANGED local /\ call' = [call EXCEPT ![c] = Failed]
      BY <1>1, <1>9 DEF SettleAnswered, Answered
    <2>2. Remembers
      BY <2>1, RemembersStays
    <2>. HIDE DEF Failed
    <2>3. QED
      BY <1>4, <1>6, <2>1, <2>2
  <1>10. QED
    BY <1>7, <1>8, <1>9 DEF SettleAnswered, Answered

\* A released run is forgotten as far as it is settled.
LEMMA ReleaseRunNext ==
  ASSUME LedgerAssumption, LInv, NEW r \in Runs, ReleaseRun(r)
  PROVE  LInv'
  <1>1. UNCHANGED <<row, call, acted>>
    BY DEF ReleaseRun
  <1>2. local \in [Txns -> Attempts] /\ \A y \in Txns : Past(local[y], row[y])
    BY DEF LInv, FunctionsOK, TxnOK
  <1>3. NoAttempt \in Attempts /\ \A b : Past(NoAttempt, b)
    BY DEF Attempts, Past
  <1>4. \A y \in Txns :
          \/ local'[y] = local[y]
          \/ local'[y] = NoAttempt /\ local[y].phase = "settled"
    BY DEF ReleaseRun
  <1>5. \A y \in Txns : local[y].phase = "settled" => row[y].phase = "settled"
    BY <1>2 DEF Past, NoAttempt
  <1>6. DOMAIN local' = Txns /\ local' = [y \in Txns |-> local'[y]]
    BY DEF ReleaseRun
  <1>7. local' \in [Txns -> Attempts]
    BY <1>2, <1>3, <1>4, <1>6
  <1>8. Remembers
    BY <1>2, <1>3, <1>4, <1>5, <1>7 DEF Remembers
  <1>9. call' \in [Calls -> Records]
    BY <1>1 DEF LInv, FunctionsOK
  <1>10. QED
    BY <1>1, <1>8, <1>9, KeptStays, CallsMove

\* A restart settles what it finds, and takes every call that was under way.
LEMMA RestartNext ==
  ASSUME LedgerAssumption, LInv, NEW running \in SUBSET Runs, Restart(running)
  PROVE  LInv'
  <1>. DEFINE Ends(y) == RunOf[y] \in running /\ row[y].phase \in {"queued", "dispatched"}
              b(y) == IF Ends(y)
                      THEN [row[y] EXCEPT !.phase = "settled", !.result = Recovery(row[y])]
                      ELSE row[y]
              k(d) == IF Busy(d) THEN At("lost", FALSE) ELSE call[d]
  <1>1. /\ row' = [y \in Txns |-> b(y)] /\ local' = [y \in Txns |-> NoAttempt]
        /\ call' = [d \in Calls |-> k(d)] /\ UNCHANGED acted
    BY DEF Restart
  <1>2. ASSUME NEW y \in Txns
        PROVE  /\ b(y) \in Attempts /\ Past(row[y], b(y))
               /\ TxnOK(b(y), NoAttempt, acted[y])
               /\ row[y].phase = "settled" => b(y) = row[y]
    <2>1. TxnOK(row[y], local[y], acted[y]) /\ row[y] \in Attempts /\ NoAttempt \in Attempts
      BY DEF LInv, TxnOK, Attempts
    <2>2. CASE Ends(y)
      <3>1. Recovery(row[y]) \in {"unknown", "cancelled"}
            /\ (Recovery(row[y]) = "cancelled" => row[y].phase = "queued")
        BY <2>2 DEF Recovery
      <3>2. row[y] # NoAttempt /\ Recovery(row[y]) \in Results
        BY <2>2, <3>1 DEF NoAttempt, Results
      <3>3. b(y) \in Attempts
        BY <2>1, <2>2, <3>2, Moves
      <3>4. b(y).phase = "settled" /\ b(y).result = Recovery(row[y]) /\ b(y).input = row[y].input
        BY <2>1, <2>2, <3>2 DEF Attempts, NoAttempt
      <3>. HIDE DEF b
      <3>5. b(y) # NoAttempt
        BY <3>4 DEF NoAttempt
      <3>6. QED
        BY <2>1, <2>2, <3>1, <3>3, <3>4, <3>5 DEF TxnOK, Past, Harmless
    <2>3. CASE ~Ends(y)
      BY <2>1, <2>3 DEF TxnOK, Past
    <2>4. QED
      BY <2>2, <2>3
  <1>3. ASSUME NEW d \in Calls
        PROVE  /\ CallOK(d, k(d), b(TxnOf[d]), NoAttempt, acted[TxnOf[d]])
               /\ Claim(k(d)) => Claim(call[d])
    <2>. DEFINE y == TxnOf[d]
    <2>1. /\ y \in Txns /\ call[d] \in Records
          /\ row[y] \in Attempts
          /\ CallOK(d, call[d], row[y], local[y], acted[y])
      BY CallFacts
    <2>2. CASE Busy(d)
      <3>1. CallOK(d, At("lost", FALSE), b(y), NoAttempt, acted[y])
        BY AtOK DEF Places, Over, Unclaimed
      <3>2. ~Claim(At("lost", FALSE))
        BY DEF Claim, Got, At
      <3>3. QED
        BY <2>2, <3>1, <3>2
    <2>3. CASE ~Busy(d)
      <3>. DEFINE j == call[d]
      <3>1. j.pc \in Over /\ j.seen \in Attempts /\ j.reply.attempt \in Attempts
        BY <2>1, <2>3 DEF Busy, Records, Replies
      <3>2. b(y) \in Attempts /\ Past(row[y], b(y))
            /\ (row[y].phase = "settled" => b(y) = row[y])
        BY <1>2, <2>1
      <3>. HIDE DEF b
      <3>3. Past(j.seen, b(y)) /\ Past(j.reply.attempt, b(y))
        BY <2>1, <3>1, <3>2, PastTransitive DEF CallOK, RowOK
      <3>4. RowOK(d, j, b(y))
        BY <2>1, <3>2, <3>3 DEF CallOK, RowOK, Past
      <3>5. DeskOK(j, b(y), acted[y]) /\ KeptOK(j, b(y), NoAttempt)
        BY <3>1 DEF DeskOK, KeptOK, Over, Working, Keeping, Got
      <3>6. ToldOK(d, j, b(y))
        BY <2>1, <3>2 DEF CallOK, ToldOK
      <3>7. QED
        BY <2>1, <2>3, <3>4, <3>5, <3>6 DEF CallOK
    <2>4. QED
      BY <2>2, <2>3
  <1>4. ASSUME NEW d \in Calls PROVE k(d) \in Records /\ TxnOf[d] \in Txns
    BY <1>3, CallFacts DEF CallOK
  <1>5. NoAttempt \in Attempts
    BY DEF Attempts
  <1>. HIDE DEF b, k
  <1>6. /\ \A y \in Txns : row'[y] = b(y) /\ local'[y] = NoAttempt
        /\ \A d \in Calls : call'[d] = k(d)
    BY <1>1
  <1>7. FunctionsOK'
    BY <1>1, <1>2, <1>4, <1>5 DEF LInv, FunctionsOK
  <1>8. \A y \in Txns : TxnOK(row'[y], local'[y], acted'[y])
    BY <1>1, <1>2, <1>6
  <1>9. \A d \in Calls :
          CallOK(d, call'[d], row'[TxnOf[d]], local'[TxnOf[d]], acted'[TxnOf[d]])
    BY <1>1, <1>3, <1>4, <1>6
  <1>10. Sole'
    BY <1>3, <1>6 DEF LInv, Sole
  <1>11. QED
    BY <1>7, <1>8, <1>9, <1>10 DEF LInv

\* Nothing else touches the rows, what is remembered, the calls or the desktop.
LEMMA LInvStays ==
  ASSUME LInv, UNCHANGED <<row, local, call, acted>>
  PROVE  LInv'
  BY DEF LInv, FunctionsOK, Sole

\* Before anything has happened.
LEMMA LInvInit ==
  ASSUME LedgerAssumption, Init
  PROVE  LInv
  <1>1. /\ row = [x \in Txns |-> NoAttempt] /\ local = [x \in Txns |-> NoAttempt]
        /\ acted = [x \in Txns |-> 0] /\ call = [c \in Calls |-> At("idle", FALSE)]
    BY DEF Init
  <1>2. NoAttempt \in Attempts /\ NoAttempt.phase = "none" /\ At("idle", FALSE) \in Records
    BY AtType DEF Attempts, NoAttempt, Places, Over
  <1>3. FunctionsOK
    BY <1>1, <1>2 DEF FunctionsOK
  <1>4. TxnOK(NoAttempt, NoAttempt, 0)
    BY <1>2 DEF TxnOK, Past
  <1>5. \A c \in Calls : CallOK(c, At("idle", FALSE), NoAttempt, NoAttempt, 0)
    BY AtOK DEF Places, Over, Unclaimed
  <1>6. ~Claim(At("idle", FALSE))
    BY DEF Claim, Got, At
  <1>7. QED
    BY <1>1, <1>3, <1>4, <1>5, <1>6 DEF LInv, Sole, LedgerAssumption

\* The invariant is inductive.
LEMMA LInvNext ==
  ASSUME LedgerAssumption, LInv, [Next]_vars
  PROVE  LInv'
  <1>1. ASSUME NEW c \in Calls, Execute(c) \/ Step(c) \/ Abort(c)
        PROVE  LInv'
    <2>1. CASE Abort(c)
      BY <2>1, LInvStays DEF Abort, memory
    <2>2. QED
      BY <1>1, <2>1, ExecuteNext, ServesNext, FindAnsweredNext, ReserveAnsweredNext,
         TakeTurnNext, DispatchAnsweredNext, ActsNext, SuccessorObservedNext, SurveyedNext,
         SettleAnsweredNext DEF Step
  <1>2. ASSUME NEW r \in Runs, CloseRun(r) \/ ReleaseRun(r)
        PROVE  LInv'
    <2>1. CASE CloseRun(r)
      BY <2>1, LInvStays DEF CloseRun
    <2>2. QED
      BY <1>2, <2>1, ReleaseRunNext
  <1>3. CASE UNCHANGED vars
    BY <1>3, LInvStays DEF vars, memory
  <1>4. QED
    BY <1>1, <1>2, <1>3, RestartNext DEF Next

\* The scheduler's part of the memory has its type.
LEMMA MemoryInit ==
  ASSUME LedgerAssumption, Init
  PROVE  MemoryOK
  BY DEF LedgerAssumption, Init, MemoryOK

LEMMA RememberSource ==
  ASSUME NEW x, NEW a, NEW from \in {"local", "durable"}, Remember(x, a, from),
         source \in [Txns -> {"local", "durable"}]
  PROVE  source' \in [Txns -> {"local", "durable"}]
  BY DEF Remember

LEMMA MemoryNext ==
  ASSUME LedgerAssumption, MemoryOK, [Next]_vars
  PROVE  MemoryOK'
  <1>1. ASSUME NEW c \in Calls, \/ Execute(c) \/ Serves(c) \/ TakeTurn(c) \/ Acts(c)
                                \/ SuccessorObserved(c) \/ Surveyed(c)
        PROVE  MemoryOK'
    <2>1. UNCHANGED <<memory, aborted>>
      BY <1>1 DEF Execute, Serves, TakeTurn, Acts, SuccessorObserved, Surveyed
    <2>2. QED
      BY <2>1 DEF MemoryOK, memory
  <1>2. ASSUME NEW c \in Calls, FindAnswered(c)
        PROVE  MemoryOK'
    <2>1. source' \in [Txns -> {"local", "durable"}]
      BY <1>2, RememberSource DEF FindAnswered, MemoryOK
    <2>2. reserving' \in [Txns -> Calls \union {None}]
      BY <1>2 DEF FindAnswered, MemoryOK
    <2>3. QED
      BY <1>2, <2>1, <2>2 DEF FindAnswered, MemoryOK
  <1>3. ASSUME NEW c \in Calls, ReserveAnswered(c)
        PROVE  MemoryOK'
    <2>1. source' \in [Txns -> {"local", "durable"}]
      BY <1>3, RememberSource DEF ReserveAnswered, MemoryOK
    <2>2. reserving' \in [Txns -> Calls \union {None}]
      BY <1>3 DEF ReserveAnswered, MemoryOK
    <2>3. QED
      BY <1>3, <2>1, <2>2 DEF ReserveAnswered, MemoryOK, Finished
  <1>4. ASSUME NEW c \in Calls, DispatchAnswered(c) \/ SettleAnswered(c)
        PROVE  MemoryOK'
    <2>1. ASSUME NEW x, NEW a, NEW from \in {"local", "durable"}, Transitioned(x, a, from)
          PROVE  source' \in [Txns -> {"local", "durable"}] /\ released' \subseteq Runs
      BY <2>1, RememberSource DEF Transitioned, MemoryOK, Finished
    <2>2. source' \in [Txns -> {"local", "durable"}] /\ released' \subseteq Runs
      BY <1>4, <2>1 DEF DispatchAnswered, SettleAnswered, MemoryOK
    <2>3. QED
      BY <1>4, <2>2 DEF DispatchAnswered, SettleAnswered, MemoryOK
  <1>5. ASSUME NEW c \in Calls, Abort(c)
        PROVE  MemoryOK'
    BY <1>5 DEF Abort, memory, MemoryOK
  <1>6. ASSUME NEW r \in Runs, CloseRun(r)
        PROVE  MemoryOK'
    BY <1>6 DEF CloseRun, MemoryOK
  <1>7. ASSUME NEW r \in Runs, ReleaseRun(r)
        PROVE  MemoryOK'
    BY <1>7 DEF ReleaseRun, MemoryOK
  <1>8. ASSUME NEW running \in SUBSET Runs, Restart(running)
        PROVE  MemoryOK'
    BY <1>8 DEF Restart, MemoryOK
  <1>9. CASE UNCHANGED vars
    BY <1>9 DEF vars, memory, MemoryOK
  <1>10. QED
    BY <1>1, <1>2, <1>3, <1>4, <1>5, <1>6, <1>7, <1>8, <1>9 DEF Next, Step

-----------------------------------------------------------------------------
(* What holds always.                                                      *)

\* What a call holds agrees with the row, the memory and the desktop of its transaction,
\* and claims exclude each other, through every interleaving, failure and restart.
THEOREM ClaimsInductive == Spec => [](LInv /\ MemoryOK)
  <1>1. Init => LInv /\ MemoryOK
    BY LedgerAssumption, LInvInit, MemoryInit
  <1>2. LInv /\ MemoryOK /\ [Next]_vars => (LInv /\ MemoryOK)'
    BY LedgerAssumption, LInvNext, MemoryNext
  <1>3. QED
    BY <1>1, <1>2, PTL DEF Spec

\* The desktop is changed at most once for a transaction, by the one call the attempt is
\* kept for, and the record, once settled, tells whether it was.
THEOREM ActionsAreRecorded == Spec => []ActedAsRecorded
  <1>1. ASSUME LInv, MemoryOK PROVE ActedAsRecorded
    <2>1. TypeOK
      <3>1. acted \in [Txns -> Nat]
        BY <1>1 DEF LInv, FunctionsOK
      <3>2. QED
        BY <1>1, <3>1 DEF LInv, FunctionsOK, MemoryOK, TypeOK, Records, Replies
    <2>2. ActsAtMostOnce
      BY <1>1 DEF LInv, FunctionsOK, ActsAtMostOnce
    <2>3. RecordIsTruthful
      <3>1. ASSUME NEW x \in Txns, row[x].phase = "settled"
            PROVE  /\ row[x].result = "worked" => acted[x] = 1
                   /\ row[x].result \in Harmless => acted[x] = 0
                   /\ row[x].result \notin {"worked", "unknown"} => row[x].result \in Harmless
        <4>1. TxnOK(row[x], local[x], acted[x])
          BY <1>1 DEF LInv
        <4>2. row[x].result \in Results
          BY <3>1, <4>1, Shapes DEF TxnOK
        <4>3. QED
          BY <3>1, <4>1, <4>2 DEF TxnOK, Harmless, Results
      <3>2. ASSUME NEW c \in Calls, call[c].pc \in Working
            PROVE  acted[TxnOf[c]] = 1
        BY <1>1, <3>2, LedgerAssumption, CallFacts DEF CallOK, DeskOK
      <3>3. QED
        BY <3>1, <3>2 DEF RecordIsTruthful, Working
    <2>4. OwnerKeepsAttempt
      <3>1. ASSUME NEW c \in Calls, call[c].pc \in Keeping
            PROVE  /\ Known(TxnOf[c]) \/ row[TxnOf[c]].phase = "settled"
                   /\ \A d \in Calls \ {c} : TxnOf[d] = TxnOf[c] => ~call[d].own
        <4>1. /\ CallOK(c, call[c], row[TxnOf[c]], local[TxnOf[c]], acted[TxnOf[c]])
              /\ local[TxnOf[c]] \in Attempts
          BY <1>1, LedgerAssumption, CallFacts
        <4>2. local[TxnOf[c]] # NoAttempt => Known(TxnOf[c])
          BY <4>1, Shapes DEF Known
        <4>3. call[c].own
          BY <3>1, <4>1 DEF CallOK, PlaceOK
        <4>4. QED
          BY <1>1, <3>1, <4>1, <4>2, <4>3 DEF CallOK, KeptOK, LInv, Sole, Claim
      <3>2. QED
        BY <3>1 DEF OwnerKeepsAttempt, Keeping
    <2>5. QED
      BY <2>1, <2>2, <2>3, <2>4 DEF ActedAsRecorded
  <1>2. QED
    BY <1>1, ClaimsInductive, PTL

\* Whoever is given a result is given the recorded one, unless it is a duplicate that is
\* turned away.
THEOREM ResultsAreRecorded == Spec => []AnswersAreRecorded
  <1>1. ASSUME LInv PROVE AnswersAreRecorded
    BY <1>1, LedgerAssumption, CallFacts DEF CallOK, ToldOK, AnswersAreRecorded
  <1>2. QED
    BY <1>1, ClaimsInductive, PTL

-----------------------------------------------------------------------------
(* The rows and the desktop implement a transaction.                       *)

Follows(x) == Transaction(x)!Next \/ UNCHANGED Transaction(x)!tvars

LEMMA Stutters ==
  ASSUME NEW x, row'[x] = row[x], acted'[x] = acted[x]
  PROVE  Follows(x)
  BY DEF Follows, Transaction!tvars

LEMMA StaysAll ==
  ASSUME UNCHANGED <<row, acted>>
  PROVE  \A x \in Txns : Follows(x)
  BY Stutters

\* The database is asked to reserve, to dispatch or to settle.
LEMMA ServesFollows ==
  ASSUME LedgerAssumption, LInv, NEW c \in Calls, Serves(c), NEW x \in Txns
  PROVE  Follows(x)
  <1>. DEFINE b == row'[x]
  <1>1. /\ TxnOK(row[x], local[x], acted[x]) /\ row \in [Txns -> Attempts]
        /\ CallOK(c, call[c], row[TxnOf[c]], local[TxnOf[c]], acted[TxnOf[c]])
        /\ UNCHANGED acted /\ row[x] \in Attempts
    BY CallFacts DEF LInv, FunctionsOK, Serves
  <1>2. CASE x # TxnOf[c] \/ UNCHANGED row
    <2>1. row'[x] = row[x]
      BY <1>1, <1>2 DEF Serves
    <2>2. QED
      BY <1>1, <2>1, Stutters
  <1>3. CASE /\ x = TxnOf[c] /\ row[x] = NoAttempt
             /\ row' = [row EXCEPT ![x] = Queued(InputOf[c])]
    <2>1. /\ b.phase = "queued" /\ b.result = "none"
          /\ row[x].phase = "none" /\ row[x].result = "none"
      BY <1>1, <1>3 DEF Queued, NoAttempt
    <2>2. QED
      BY <1>1, <2>1 DEF Follows, Transaction!Next, Transaction!Reserve
  <1>4. CASE /\ x = TxnOf[c] /\ call[c].pc = "dispatching" /\ row[x] = call[c].seen
             /\ row' = [row EXCEPT ![x] = [call[c].seen EXCEPT !.phase = "dispatched"]]
    <2>1. row[x].phase = "queued"
      BY <1>1, <1>4 DEF CallOK, PlaceOK
    <2>2. b.phase = "dispatched" /\ b.result = row[x].result
      BY <1>1, <1>4, <2>1 DEF Attempts, NoAttempt
    <2>3. QED
      BY <1>1, <2>1, <2>2 DEF Follows, Transaction!Next, Transaction!Dispatch
  <1>5. CASE /\ x = TxnOf[c] /\ call[c].pc = "settling" /\ row[x] = call[c].seen
             /\ row' = [row EXCEPT ![x] = [call[c].seen EXCEPT !.phase = "settled",
                                                              !.result = call[c].aim]]
    <2>. DEFINE a == call[c].aim
    <2>1. /\ row[x].phase \in {"queued", "dispatched"}
          /\ row[x].phase = "queued" => a \in Undispatched
          /\ row[x].phase = "dispatched" => a \in Results \ {"cancelled"}
      BY <1>1, <1>5 DEF CallOK, PlaceOK
    <2>2. a \in Results /\ (a \in Harmless => acted[x] = 0) /\ (a = "worked" => acted[x] = 1)
      BY <1>1, <1>5, <2>1 DEF CallOK, DeskOK, TxnOK, Undispatched, Results
    <2>3. b.phase = "settled" /\ b.result = a
      BY <1>1, <1>5, <2>1 DEF Attempts, NoAttempt
    <2>4. Transaction(x)!Settle(a)
      BY <1>1, <2>1, <2>2, <2>3
      DEF Transaction!Settle, Transaction!Undispatched, Transaction!Harmless, Undispatched,
          Harmless
    <2>5. QED
      BY <2>2, <2>4 DEF Follows, Transaction!Next, Transaction!Results, Results
  <1>6. QED
    BY <1>1, <1>2, <1>3, <1>4, <1>5 DEF Serves

\* The desktop is acted on, or found untouched, while the row is open.
LEMMA DeskFollows ==
  ASSUME LedgerAssumption, LInv, NEW c \in Calls, DispatchAnswered(c) \/ Acts(c), NEW x \in Txns
  PROVE  Follows(x)
  <1>1. /\ CallOK(c, call[c], row[TxnOf[c]], local[TxnOf[c]], acted[TxnOf[c]])
        /\ acted \in [Txns -> {0, 1}] /\ UNCHANGED row
    BY CallFacts DEF LInv, FunctionsOK, DispatchAnswered, Acts
  <1>2. CASE acted'[x] = acted[x]
    BY <1>1, <1>2, Stutters
  <1>3. CASE acted'[x] # acted[x]
    <2>1. /\ x = TxnOf[c]
          /\ \/ Got(call[c], "dispatching", "applied") /\ acted'[x] = acted[x] + 1
             \/ call[c].pc \in Working /\ acted'[x] = acted[x] - 1
      BY <1>1, <1>3 DEF DispatchAnswered, Acts, Answered, Got, Working
    <2>2. Open(row[x])
      BY <1>1, <2>1 DEF CallOK, DeskOK
    <2>3. \/ acted[x] = 0 /\ acted'[x] = 1
          \/ acted[x] = 1 /\ acted'[x] = 0
      BY <1>1, <2>1 DEF CallOK, PlaceOK, DeskOK, Claim, Got, Keeping, Working
    <2>4. QED
      BY <1>1, <2>2, <2>3
      DEF Follows, Open, Transaction!Next, Transaction!Act, Transaction!ProvenIdle,
          Transaction!MayAct
  <1>4. QED
    BY <1>2, <1>3

\* A restart settles a transaction as what its record allows.
LEMMA RestartFollows ==
  ASSUME LedgerAssumption, LInv, NEW running \in SUBSET Runs, Restart(running), NEW x \in Txns
  PROVE  Follows(x)
  <1>1. TxnOK(row[x], local[x], acted[x]) /\ row[x] \in Attempts /\ UNCHANGED acted
    BY DEF LInv, FunctionsOK, Restart
  <1>2. row'[x] = IF RunOf[x] \in running /\ row[x].phase \in {"queued", "dispatched"}
                  THEN [row[x] EXCEPT !.phase = "settled", !.result = Recovery(row[x])]
                  ELSE row[x]
    BY DEF Restart
  <1>3. CASE ~(RunOf[x] \in running /\ row[x].phase \in {"queued", "dispatched"})
    BY <1>1, <1>2, <1>3, Stutters
  <1>4. CASE RunOf[x] \in running /\ row[x].phase \in {"queued", "dispatched"}
    <2>. DEFINE a == Recovery(row[x])
    <2>1. row'[x].phase = "settled" /\ row'[x].result = a
      BY <1>1, <1>2, <1>4 DEF Attempts, NoAttempt
    <2>2. \/ row[x].phase = "queued" /\ a = "cancelled" /\ acted[x] = 0
          \/ row[x].phase = "dispatched" /\ a = "unknown"
      BY <1>1, <1>4 DEF Recovery, TxnOK
    <2>3. Transaction(x)!Settle(a) /\ a \in Results
      BY <1>1, <2>1, <2>2
      DEF Transaction!Settle, Transaction!Undispatched, Transaction!Harmless, Results
    <2>4. QED
      BY <2>3 DEF Follows, Transaction!Next, Transaction!Results, Results
  <1>5. QED
    BY <1>3, <1>4

\* Each row with its desktop implements a transaction that is recorded before it acts, acts
\* at most once, and has one final result.
THEOREM TransactionsAreKept == Spec => ImplementsTransaction
  <1>1. Init => \A x \in Txns : Transaction(x)!Init
    BY DEF Init, NoAttempt, Transaction!Init
  <1>2. LInv /\ [Next]_vars =>
          [\A x \in Txns : Transaction(x)!Next \/ UNCHANGED Transaction(x)!tvars]_vars
    <2> SUFFICES ASSUME LInv, Next PROVE \A x \in Txns : Follows(x)
      BY DEF Follows
    <2>1. ASSUME NEW c \in Calls, Execute(c) \/ Step(c) \/ Abort(c)
          PROVE  \A x \in Txns : Follows(x)
      <3>1. CASE Serves(c) \/ DispatchAnswered(c) \/ Acts(c)
        BY <3>1, LedgerAssumption, ServesFollows, DeskFollows
      <3>2. CASE \/ Execute(c) \/ FindAnswered(c) \/ ReserveAnswered(c) \/ TakeTurn(c)
                 \/ SuccessorObserved(c) \/ Surveyed(c) \/ SettleAnswered(c) \/ Abort(c)
        <4>1. UNCHANGED <<row, acted>>
          BY <3>2 DEF Execute, FindAnswered, ReserveAnswered, TakeTurn, SuccessorObserved,
                      Surveyed, SettleAnswered, Abort
        <4>2. QED
          BY <4>1, StaysAll
      <3>3. QED
        BY <2>1, <3>1, <3>2 DEF Step
    <2>2. ASSUME NEW r \in Runs, CloseRun(r) \/ ReleaseRun(r)
          PROVE  \A x \in Txns : Follows(x)
      BY <2>2, StaysAll DEF CloseRun, ReleaseRun
    <2>3. QED
      BY <2>1, <2>2, LedgerAssumption, RestartFollows DEF Next
  <1>3. QED
    BY <1>1, <1>2, ClaimsInductive, PTL DEF Spec, ImplementsTransaction
=============================================================================
