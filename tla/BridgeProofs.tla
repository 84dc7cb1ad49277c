---------------------------- MODULE BridgeProofs ----------------------------
(***************************************************************************)
(* Proofs about the LoRa Bridge: its LoRaWAN session with the              *)
(* deduplication of downlinks, and the configuration of its callbacks, for *)
(* any settings, bridges, addresses and faults, and numbers of requests,   *)
(* downlinks and callbacks on their way.                                   *)
(***************************************************************************)
EXTENDS BridgeLink, SequenceTheorems, TLAPS
-----------------------------------------------------------------------------
(***************************************************************************)
(* The session.  The counter a callback is compared with depends on those  *)
(* before it: the invariant says of every place in the outbox below which  *)
(* number that counter will be.                                            *)
(***************************************************************************)
\* In box, which the app handles with last as its last counter, a callback at place n is
\* compared with a counter below bound.
Resets(box, k) == ResetsDedup(box[k].code)
Behind(last, box, n, bound) ==
  /\ last < bound \/ \E k \in 1 .. n - 1 : Resets(box, k)
  /\ \A j \in 1 .. n - 1 :
       box[j].fcnt < bound \/ \E k \in j + 1 .. n - 1 : Resets(box, k)

\* The next downlink of a session that was told of is compared with less than its counter.
SessionTold(last, box, told, next) == told => Behind(last, box, Len(box) + 1, next)

\* So is every downlink of such a session that is on its way.
DownlinksTold(last, box) ==
  \A n \in 1 .. Len(box) :
    box[n].fcnt # NoCounter /\ box[n].announced /\ box[n].first =>
      Behind(last, box, n, box[n].fcnt)

\* A second copy follows the first.
Copies(box) ==
  \A n \in 1 .. Len(box) :
    /\ box[n].fcnt # NoCounter => ~Resets(box, n)
    /\ ~box[n].first =>
         /\ box[n].fcnt # NoCounter
         /\ n > 1 => /\ box[n - 1].first /\ box[n - 1].fcnt = box[n].fcnt
                     /\ box[n - 1].announced = box[n].announced

\* What a second copy finds when its turn has come.
SecondCopy(last, box, done, reset) ==
  Len(box) > 0 /\ ~box[1].first =>
    /\ box[1].announced /\ ~done => last # box[1].fcnt
    /\ done /\ ~reset => last = box[1].fcnt

Outbox(last, box, done, reset) ==
  DownlinksTold(last, box) /\ Copies(box) /\ SecondCopy(last, box, done, reset)

Next_fcnt == IF net = "joined" THEN fcnt ELSE 0
Deduplicated ==
  /\ SessionTold(last_dispatched_fcntDown, outbox, announced, Next_fcnt)
  /\ Outbox(last_dispatched_fcntDown, outbox, dispatched, cleared)

IInv == TypeOK /\ Deduplicated /\ MissedOnlyUnannounced /\ DispatchedOnce

-----------------------------------------------------------------------------
(***************************************************************************)
(* What a callback is compared with, as callbacks come and go.             *)
(***************************************************************************)
LEMMA CallbackTyped ==
  ASSUME NEW box \in Seq(Callback), NEW n \in 1 .. Len(box)
  PROVE  /\ box[n].fcnt \in Int /\ (box[n].fcnt = NoCounter \/ box[n].fcnt \in Counter)
         /\ box[n].first \in BOOLEAN /\ box[n].announced \in BOOLEAN
         /\ Len(box) \in Nat
<1>1. box[n] \in Callback /\ Len(box) \in Nat
  BY ElementOfSeq, LenProperties
<1> QED BY <1>1 DEF Callback, Counter, NoCounter

\* It depends on the callbacks before it.
LEMMA BehindSame ==
  ASSUME NEW last, NEW box, NEW other, NEW n \in Int, NEW bound,
         \A k \in 1 .. n - 1 : other[k] = box[k],
         Behind(last, box, n, bound)
  PROVE  Behind(last, other, n, bound)
BY DEF Behind, Resets

\* With one more before it, it is compared with less than a bound that is above that one's.
LEMMA BehindMore ==
  ASSUME NEW last \in Int, NEW box, NEW n \in Nat \ {0}, NEW low \in Int, NEW bound \in Int,
         \A j \in 1 .. n - 1 : box[j].fcnt \in Int,
         low <= bound, box[n].fcnt < bound, Behind(last, box, n, low)
  PROVE  Behind(last, box, n + 1, bound)
<1>1. (n + 1) - 1 = n /\ \A k \in 1 .. n - 1 : k \in 1 .. n
  OBVIOUS
<1>2. last < bound \/ \E k \in 1 .. n : Resets(box, k)
  BY <1>1 DEF Behind
<1>3. ASSUME NEW j \in 1 .. n
      PROVE  box[j].fcnt < bound \/ \E k \in j + 1 .. n : Resets(box, k)
  <2>1. CASE j = n
    BY <2>1
  <2>2. CASE j # n
    <3>1. j \in 1 .. n - 1 /\ \A k \in j + 1 .. n - 1 : k \in j + 1 .. n
      BY <2>2
    <3>2. box[j].fcnt < low \/ \E k \in j + 1 .. n - 1 : Resets(box, k)
      BY <3>1 DEF Behind
    <3> QED BY <3>1, <3>2
  <2> QED BY <2>1, <2>2
<1> QED BY <1>1, <1>2, <1>3 DEF Behind

\* With a reset before it, it is compared with nothing.
LEMMA BehindReset ==
  ASSUME NEW last, NEW box, NEW n \in Nat \ {0}, NEW bound,
         Resets(box, n), box[n].fcnt < bound
  PROVE  Behind(last, box, n + 1, bound)
<1>1. (n + 1) - 1 = n /\ n \in 1 .. n
  OBVIOUS
<1>2. \A j \in 1 .. n : j = n \/ n \in j + 1 .. n
  OBVIOUS
<1> QED BY <1>1, <1>2 DEF Behind

LEMMA BehindCleared ==
  ASSUME NEW last, NEW box, NEW n \in Int, NEW bound \in Nat, Behind(last, box, n, bound)
  PROVE  Behind(NoCounter, box, n, bound)
BY DEF Behind, NoCounter

\* The first callback has left the outbox.
LEMMA BehindRest ==
  ASSUME NEW last, NEW box, NEW rest, NEW now, NEW n \in Nat \ {0}, NEW bound,
         \A k \in 1 .. n - 1 : rest[k].fcnt = box[k + 1].fcnt /\ rest[k].code = box[k + 1].code,
         Behind(last, box, n + 1, bound),
         \/ now < bound
         \/ now = last /\ ~Resets(box, 1)
         \/ \E k \in 2 .. n : Resets(box, k)
  PROVE  Behind(now, rest, n, bound)
<1>1. \A k \in 1 .. n - 1 : Resets(rest, k) <=> Resets(box, k + 1)
  BY DEF Resets
<1>2. (n + 1) - 1 = n
  OBVIOUS
<1>3. \A i \in 1 .. n : \A k \in i + 1 .. n : k - 1 \in i .. n - 1 /\ (k - 1) + 1 = k
  OBVIOUS
<1>4. now < bound \/ \E k \in 1 .. n - 1 : Resets(rest, k)
  <2>1. CASE now < bound
    BY <2>1
  <2>2. CASE \E k \in 2 .. n : Resets(box, k)
    <3>1. PICK k \in 2 .. n : Resets(box, k)
      BY <2>2
    <3>2. k - 1 \in 1 .. n - 1 /\ (k - 1) + 1 = k
      OBVIOUS
    <3> QED BY <1>1, <3>1, <3>2
  <2>3. CASE now = last /\ ~Resets(box, 1)
    <3>1. last < bound \/ \E k \in 1 .. n : Resets(box, k)
      BY <1>2 DEF Behind
    <3>2. \A k \in 1 .. n : k = 1 \/ k \in 2 .. n
      OBVIOUS
    <3> QED BY <2>1, <2>2, <2>3, <3>1, <3>2
  <2> QED BY <2>1, <2>2, <2>3
<1>5. ASSUME NEW j \in 1 .. n - 1
      PROVE  rest[j].fcnt < bound \/ \E k \in j + 1 .. n - 1 : Resets(rest, k)
  <2>1. j + 1 \in 1 .. n
    OBVIOUS
  <2>2. box[j + 1].fcnt < bound \/ \E k \in (j + 1) + 1 .. n : Resets(box, k)
    BY <1>2, <2>1 DEF Behind
  <2>3. CASE \E k \in (j + 1) + 1 .. n : Resets(box, k)
    <3>1. PICK k \in (j + 1) + 1 .. n : Resets(box, k)
      BY <2>3
    <3>2. k - 1 \in j + 1 .. n - 1 /\ (k - 1) + 1 = k /\ k - 1 \in 1 .. n - 1
      OBVIOUS
    <3> QED BY <1>1, <3>1, <3>2
  <2> QED BY <2>2, <2>3
<1> QED BY <1>4, <1>5 DEF Behind

-----------------------------------------------------------------------------
(***************************************************************************)
(* The outbox.                                                             *)
(***************************************************************************)

\* A callback that joins the queue changes nothing for those before it.
LEMMA OutboxMore ==
  ASSUME NEW last \in Int, NEW box \in Seq(Callback), NEW m \in Callback,
         NEW done, NEW reset, Outbox(last, box, done, reset),
         m.fcnt # NoCounter => ~ResetsDedup(m.code),
         m.first \/ /\ Len(box) > 0 /\ box[Len(box)].first /\ m.fcnt # NoCounter
                    /\ box[Len(box)].fcnt = m.fcnt /\ box[Len(box)].announced = m.announced,
         m.fcnt # NoCounter /\ m.announced /\ m.first =>
           Behind(last, box, Len(box) + 1, m.fcnt)
  PROVE  Outbox(last, Append(box, m), done, reset)
<1> DEFINE more == Append(box, m)
<1>1. /\ Len(box) \in Nat /\ more \in Seq(Callback) /\ Len(more) = Len(box) + 1
      /\ \A k \in 1 .. Len(box) : more[k] = box[k]
      /\ more[Len(box) + 1] = m
  BY AppendProperties, LenProperties
<1> HIDE DEF more
<1>2. \A n \in 1 .. Len(more) : n \in 1 .. Len(box) \/ n = Len(box) + 1
  BY <1>1
<1>3. DownlinksTold(last, more)
  <2>1. SUFFICES ASSUME NEW n \in 1 .. Len(more),
                        more[n].fcnt # NoCounter, more[n].announced, more[n].first
                 PROVE  Behind(last, more, n, more[n].fcnt)
    BY DEF DownlinksTold
  <2>2. \A k \in 1 .. n - 1 : more[k] = box[k]
    BY <1>1
  <2>3. Behind(last, box, n, more[n].fcnt)
    <3>1. CASE n \in 1 .. Len(box)
      BY <1>1, <2>1, <3>1 DEF Outbox, DownlinksTold
    <3>2. CASE n = Len(box) + 1
      BY <1>1, <2>1, <3>2
    <3> QED BY <1>2, <3>1, <3>2
  <2> QED BY <2>2, <2>3, BehindSame
<1>4. Copies(more)
  <2>1. SUFFICES ASSUME NEW n \in 1 .. Len(more)
                 PROVE  /\ more[n].fcnt # NoCounter => ~Resets(more, n)
                        /\ ~more[n].first =>
                             /\ more[n].fcnt # NoCounter
                             /\ n > 1 => /\ more[n - 1].first
                                         /\ more[n - 1].fcnt = more[n].fcnt
                                         /\ more[n - 1].announced = more[n].announced
    BY DEF Copies
  <2>2. CASE n \in 1 .. Len(box)
    <3>1. more[n] = box[n] /\ (n > 1 => more[n - 1] = box[n - 1])
      BY <1>1, <2>2
    <3> QED BY <2>2, <3>1 DEF Outbox, Copies, Resets
  <2>3. CASE n = Len(box) + 1
    <3>1. more[n] = m /\ (n > 1 => more[n - 1] = box[Len(box)])
      BY <1>1, <2>3
    <3> QED BY <3>1 DEF Resets
  <2> QED BY <1>2, <2>2, <2>3
<1>5. SecondCopy(last, more, done, reset)
  <2>1. CASE Len(box) > 0
    <3>1. more[1] = box[1]
      BY <1>1, <2>1
    <3> QED BY <2>1, <3>1 DEF Outbox, SecondCopy
  <2>2. CASE Len(box) = 0
    <3>1. more[1] = m /\ m.first
      BY <1>1, <2>2
    <3> QED BY <3>1 DEF SecondCopy
  <2> QED BY <1>1, <2>1, <2>2
<1> QED BY <1>3, <1>4, <1>5 DEF Outbox, more

\* What is at the end of the queue is compared with what the new callback leaves.
LEMMA EndMore ==
  ASSUME NEW last \in Int, NEW box \in Seq(Callback), NEW m \in Callback,
         NEW low \in Int, NEW bound \in Int, m.fcnt < bound,
         ResetsDedup(m.code) \/ (low <= bound /\ Behind(last, box, Len(box) + 1, low))
  PROVE  Behind(last, Append(box, m), Len(Append(box, m)) + 1, bound)
<1> DEFINE more == Append(box, m)
           n == Len(box) + 1
<1>1. /\ Len(box) \in Nat /\ more \in Seq(Callback) /\ Len(more) = n
      /\ \A k \in 1 .. Len(box) : more[k] = box[k]
      /\ more[n] = m /\ n \in Nat \ {0} /\ n - 1 = Len(box)
  BY AppendProperties, LenProperties
<1> HIDE DEF more, n
<1>2. CASE ResetsDedup(m.code)
  <2>1. Resets(more, n)
    BY <1>1, <1>2 DEF Resets
  <2> QED BY <1>1, <2>1, BehindReset DEF more
<1>3. CASE low <= bound /\ Behind(last, box, Len(box) + 1, low)
  <2>1. \A j \in 1 .. n - 1 : more[j].fcnt \in Int
    BY <1>1, CallbackTyped
  <2>2. Behind(last, box, n, low)
    BY <1>3 DEF n
  <2>3. Behind(last, more, n, low)
    BY <1>1, <2>2, BehindSame
  <2>4. Behind(last, more, n + 1, bound)
    BY <1>1, <1>3, <2>1, <2>3, BehindMore
  <2> QED BY <1>1, <2>4 DEF more
<1> QED BY <1>2, <1>3

\* The first callback leaves the queue, handled or lost: what is behind it and counts as
\* told stays told.
LEMMA OutboxRest ==
  ASSUME NEW last \in Int, NEW now \in Int, NEW box \in Seq(Callback), NEW rest \in Seq(Callback),
         NEW done, NEW reset, Outbox(last, box, done, reset),
         Len(box) > 0, Len(rest) = Len(box) - 1,
         \A k \in 1 .. Len(rest) :
           /\ rest[k].fcnt = box[k + 1].fcnt /\ rest[k].code = box[k + 1].code
           /\ rest[k].first = box[k + 1].first,
         \/ /\ \A k \in 1 .. Len(rest) : rest[k].announced = box[k + 1].announced
            /\ \/ now = last /\ ~Resets(box, 1)
               \/ now = box[1].fcnt
         \/ \A k \in 1 .. Len(rest) : ~rest[k].announced
  PROVE  DownlinksTold(now, rest) /\ Copies(rest)
<1>1. Len(box) \in Nat /\ Len(rest) \in Nat /\ \A k \in 1 .. Len(rest) : k + 1 \in 1 .. Len(box)
  BY LenProperties
<1>2. DownlinksTold(now, rest)
  <2>1. SUFFICES ASSUME NEW n \in 1 .. Len(rest),
                        rest[n].fcnt # NoCounter, rest[n].announced, rest[n].first
                 PROVE  Behind(now, rest, n, rest[n].fcnt)
    BY DEF DownlinksTold
  <2>2. /\ n + 1 \in 1 .. Len(box) /\ rest[n].fcnt = box[n + 1].fcnt
        /\ box[n + 1].announced /\ box[n + 1].first
    BY <1>1, <2>1
  <2>3. Behind(last, box, n + 1, rest[n].fcnt)
    BY <2>1, <2>2 DEF Outbox, DownlinksTold
  <2>4. \/ now < rest[n].fcnt
        \/ now = last /\ ~Resets(box, 1)
        \/ \E k \in 2 .. n : Resets(box, k)
    <3>1. CASE now = box[1].fcnt
      <4>1. (n + 1) - 1 = n /\ 1 \in 1 .. n
        OBVIOUS
      <4>2. box[1].fcnt < rest[n].fcnt \/ \E k \in 1 + 1 .. n : Resets(box, k)
        BY <2>3, <4>1 DEF Behind
      <4> QED BY <3>1, <4>2
    <3> QED BY <2>1, <3>1
  <2>5. \A k \in 1 .. n - 1 : rest[k].fcnt = box[k + 1].fcnt /\ rest[k].code = box[k + 1].code
    BY <1>1
  <2>6. n \in Nat \ {0}
    BY <1>1
  <2>7. PICK bound : bound = rest[n].fcnt
    OBVIOUS
  <2>8. Behind(last, box, n + 1, bound)
    BY <2>3, <2>7
  <2>9. now < bound \/ (now = last /\ ~Resets(box, 1)) \/ \E k \in 2 .. n : Resets(box, k)
    BY <2>4, <2>7
  <2>10. Behind(now, rest, n, bound)
    BY <2>5, <2>6, <2>8, <2>9, BehindRest
  <2> QED BY <2>7, <2>10
<1>3. Copies(rest)
  <2>1. SUFFICES ASSUME NEW n \in 1 .. Len(rest)
                 PROVE  /\ rest[n].fcnt # NoCounter => ~Resets(rest, n)
                        /\ ~rest[n].first =>
                             /\ rest[n].fcnt # NoCounter
                             /\ n > 1 => /\ rest[n - 1].first
                                         /\ rest[n - 1].fcnt = rest[n].fcnt
                                         /\ rest[n - 1].announced = rest[n].announced
    BY DEF Copies
  <2>2. n + 1 \in 1 .. Len(box) /\ n + 1 > 1 /\ (n + 1) - 1 = n
    BY <1>1
  <2>3. /\ box[n + 1].fcnt # NoCounter => ~Resets(box, n + 1)
        /\ ~box[n + 1].first =>
             /\ box[n + 1].fcnt # NoCounter
             /\ box[n].first /\ box[n].fcnt = box[n + 1].fcnt
             /\ box[n].announced = box[n + 1].announced
    BY <2>2 DEF Outbox, Copies
  <2>4. n > 1 => n - 1 \in 1 .. Len(rest) /\ (n - 1) + 1 = n
    BY <1>1
  <2>5. \A k \in 1 .. Len(rest) : rest[k].announced \in BOOLEAN
    BY CallbackTyped
  <2>6. n > 1 /\ ~rest[n].first => rest[n - 1].announced = rest[n].announced
    <3>1. CASE \A k \in 1 .. Len(rest) : rest[k].announced = box[k + 1].announced
      BY <2>3, <2>4, <3>1
    <3>2. CASE \A k \in 1 .. Len(rest) : ~rest[k].announced
      BY <2>4, <2>5, <3>2
    <3> QED BY <3>1, <3>2
  <2> QED BY <2>3, <2>4, <2>6 DEF Resets
<1> QED BY <1>2, <1>3

-----------------------------------------------------------------------------
(***************************************************************************)
(* What an action leaves of the invariant.                                 *)
(***************************************************************************)
Nets == {"idle", "joining", "joined"}
ThreadsTyped == /\ pc \in [Thread -> UNION {Points(t) : t \in Thread}]
                /\ \A t \in Thread : pc[t] \in Points(t)

LEMMA GoesTyped ==
  ASSUME ThreadsTyped, NEW t \in Thread, NEW point \in Points(t), Goto(t, point)
  PROVE  ThreadsTyped'
<1>1. PICK All : All = UNION {Points(u) : u \in Thread}
  OBVIOUS
<1>2. point \in All
  BY <1>1
<1>3. pc \in [Thread -> All] /\ \A u \in Thread : pc[u] \in Points(u)
  BY <1>1 DEF ThreadsTyped
<1>4. pc' = [pc EXCEPT ![t] = point]
  BY DEF Goto
<1>5. pc' \in [Thread -> All] /\ \A u \in Thread : pc'[u] = IF u = t THEN point ELSE pc[u]
  BY <1>2, <1>3, <1>4
<1>6. \A u \in Thread : pc'[u] \in Points(u)
  BY <1>3, <1>5
<1> QED BY <1>1, <1>5, <1>6 DEF ThreadsTyped

\* The types of the rest.
RestTyped ==
  /\ joined \in BOOLEAN /\ statusCode \in Code \cup {None}
  /\ last_dispatched_fcntDown \in Counter \cup {NoCounter}
  /\ answer \in BOOLEAN /\ status \in [joined : BOOLEAN, statusCode : Code \cup {None}]
  /\ net \in Nets /\ fcnt \in 0 .. MaxDownlinks
  /\ outbox \in Seq(Callback) /\ Len(outbox) <= MaxOutbox
  /\ requests \in 0 .. MaxRequests /\ faults \in 0 .. MaxFaults
  /\ dispatched \in BOOLEAN /\ cleared \in BOOLEAN
  /\ missed \subseteq BOOLEAN /\ repeated \subseteq BOOLEAN
  /\ announced \in BOOLEAN

LEMMA TypesAre == TypeOK <=> ThreadsTyped /\ RestTyped
BY DEF TypeOK, ThreadsTyped, RestTyped, Nets

LEMMA Bounds ==
  /\ MaxFaults \in Nat /\ MaxRequests \in Nat /\ MaxDownlinks \in Nat /\ MaxOutbox \in Nat
  /\ Counter \subseteq Nat /\ NoCounter \in Int /\ NoCounter \notin Counter /\ NoCounter < 0
BY ConstantsAssumption DEF Counter, NoCounter

LEMMA Numbers ==
  ASSUME RestTyped
  PROVE  /\ last_dispatched_fcntDown \in Int /\ fcnt \in Nat /\ Len(outbox) \in Nat
         /\ Next_fcnt \in Nat
BY Bounds, LenProperties DEF RestTyped, Next_fcnt

\* A status callback joins the outbox: if it resets the deduplication, a session begins that
\* is told of.
LEMMA StatusQueued ==
  ASSUME RestTyped, Deduplicated, NEW code \in Code,
         outbox' = Append(outbox, StatusCallback(code)), Len(outbox) < MaxOutbox,
         UNCHANGED <<last_dispatched_fcntDown, dispatched, cleared>>, Next_fcnt' \in Nat,
         announced' => ResetsDedup(code) \/ (announced /\ Next_fcnt' = Next_fcnt)
  PROVE  Deduplicated' /\ outbox' \in Seq(Callback) /\ Len(outbox') <= MaxOutbox
<1> DEFINE m == StatusCallback(code)
<1>1. m \in Callback /\ m.fcnt = NoCounter /\ m.first /\ m.code = code
  BY DEF StatusCallback, Callback
<1>2. /\ last_dispatched_fcntDown \in Int /\ Len(outbox) \in Nat /\ Next_fcnt \in Nat
      /\ outbox \in Seq(Callback) /\ NoCounter < 0
  BY Numbers, Bounds DEF RestTyped
<1>3. outbox' = Append(outbox, m)
  OBVIOUS
<1> HIDE DEF m
<1>4. Outbox(last_dispatched_fcntDown, outbox', dispatched, cleared)
  BY <1>1, <1>2, <1>3, OutboxMore DEF Deduplicated
<1>5. ASSUME announced'
      PROVE  Behind(last_dispatched_fcntDown, outbox', Len(outbox') + 1, Next_fcnt')
  <2>1. m.fcnt < Next_fcnt'
    BY <1>1, <1>2, Bounds
  <2>2. \/ ResetsDedup(m.code)
        \/ Next_fcnt <= Next_fcnt' /\
           Behind(last_dispatched_fcntDown, outbox, Len(outbox) + 1, Next_fcnt)
    BY <1>1, <1>2, <1>5 DEF Deduplicated, SessionTold
  <2> QED BY <1>1, <1>2, <1>3, <2>1, <2>2, EndMore
<1>6. outbox' \in Seq(Callback) /\ Len(outbox') = Len(outbox) + 1
  BY <1>1, <1>2, <1>3, AppendProperties
<1> QED BY <1>2, <1>4, <1>5, <1>6, Bounds DEF Deduplicated, SessionTold

\* The deduplication is cleared.
LEMMA DedupCleared ==
  ASSUME RestTyped, Deduplicated, last_dispatched_fcntDown' = NoCounter, cleared',
         UNCHANGED <<outbox, dispatched, announced, net, fcnt>>
  PROVE  Deduplicated'
<1>1. /\ Len(outbox) \in Nat /\ outbox \in Seq(Callback) /\ NoCounter < 0 /\ Next_fcnt \in Nat
      /\ Next_fcnt' = Next_fcnt
  BY Numbers, Bounds DEF RestTyped, Next_fcnt
<1>2. SessionTold(NoCounter, outbox, announced, Next_fcnt)
  BY <1>1, BehindCleared DEF Deduplicated, SessionTold
<1>3. DownlinksTold(NoCounter, outbox)
  <2>1. SUFFICES ASSUME NEW n \in 1 .. Len(outbox), outbox[n].fcnt # NoCounter,
                        outbox[n].announced, outbox[n].first
                 PROVE  Behind(NoCounter, outbox, n, outbox[n].fcnt)
    BY DEF DownlinksTold
  <2>2. outbox[n].fcnt \in Nat
    BY <1>1, <2>1, CallbackTyped, Bounds
  <2>3. Behind(last_dispatched_fcntDown, outbox, n, outbox[n].fcnt)
    BY <2>1 DEF Deduplicated, Outbox, DownlinksTold
  <2> QED BY <2>2, <2>3, BehindCleared
<1>4. SecondCopy(NoCounter, outbox, dispatched, TRUE)
  <2>1. Len(outbox) > 0 => 1 \in 1 .. Len(outbox)
    BY <1>1
  <2> QED BY <2>1 DEF Deduplicated, Outbox, Copies, SecondCopy
<1>5. Copies(outbox)
  BY DEF Deduplicated, Outbox
<1> QED BY <1>1, <1>2, <1>3, <1>4, <1>5 DEF Deduplicated, Outbox, SecondCopy

\* Nothing changes for the callbacks.
LEMMA SessionStays ==
  ASSUME Deduplicated, UNCHANGED <<last_dispatched_fcntDown, outbox, dispatched, cleared>>,
         announced' => announced /\ Next_fcnt' = Next_fcnt
  PROVE  Deduplicated'
BY DEF Deduplicated, SessionTold

LEMMA AnsweredIs ==
  ASSUME TypeOK, NEW t \in Thread, NEW point \in Points(t), NEW otherwise \in Points(t),
         Answered(t, point, otherwise)
  PROVE  ThreadsTyped' /\ faults' \in 0 .. MaxFaults
<1>1. ThreadsTyped /\ RestTyped
  BY TypesAre
<1>2. Goto(t, point) \/ Goto(t, otherwise)
  BY DEF Answered
<1>3. faults' \in 0 .. MaxFaults
  BY <1>1, Bounds DEF Answered, HasFault, RestTyped
<1> QED BY <1>1, <1>2, <1>3, GoesTyped

\* A bridge told to join leaves its session, and no callback tells of that.
LEMMA JoinIs ==
  ASSUME TypeOK, NEW t \in Thread, "joined" \in Points(t), NEW otherwise \in Points(t),
         Join(t, otherwise)
  PROVE  /\ ThreadsTyped' /\ faults' \in 0 .. MaxFaults /\ net' \in Nets
         /\ announced' \in BOOLEAN /\ UNCHANGED <<fcnt, outbox>>
         /\ announced' => announced /\ Next_fcnt' = Next_fcnt
<1>1. ThreadsTyped /\ RestTyped
  BY TypesAre
<1>2. CASE /\ net # "joining" /\ net' = "joining"
           /\ announced' = (announced /\ net # "joined")
           /\ Answered(t, "joined", otherwise)
           /\ UNCHANGED <<fcnt, outbox>>
  <2>1. ThreadsTyped' /\ faults' \in 0 .. MaxFaults
    BY <1>2, AnsweredIs
  <2>2. announced' \in BOOLEAN /\ (announced' => announced /\ net # "joined")
    BY <1>1, <1>2 DEF RestTyped
  <2>3. announced' => Next_fcnt' = Next_fcnt
    BY <1>2, <2>2 DEF Next_fcnt
  <2> QED BY <1>2, <2>1, <2>2, <2>3 DEF Nets
<1>3. CASE net = "joining" /\ Goto(t, otherwise) /\ UNCHANGED <<bridge, faults>>
  BY <1>1, <1>3, GoesTyped DEF bridge, RestTyped, Next_fcnt
<1> QED BY <1>2, <1>3 DEF Join

\* The bridge starts again, and says so.
LEMMA StartsIs ==
  ASSUME TypeOK, Deduplicated, Starts, Len(outbox) < MaxOutbox,
         UNCHANGED <<last_dispatched_fcntDown, dispatched, cleared>>
  PROVE  /\ Deduplicated' /\ outbox' \in Seq(Callback) /\ Len(outbox') <= MaxOutbox
         /\ net' \in Nets /\ fcnt' = fcnt /\ announced' \in BOOLEAN
<1>1. RestTyped
  BY TypesAre
<1>2. PICK code \in Code :
        outbox' = Append(outbox, StatusCallback(code)) /\ (announced' => code = "RESTARTED")
  BY DEF Starts, Code
<1>3. /\ net' \in Nets /\ net' # "joined" /\ fcnt' = fcnt
      /\ announced' = ~autojoin_enable
  BY DEF Starts, Nets
<1>4. announced' \in BOOLEAN
  BY <1>3
<1>5. Next_fcnt' \in Nat
  BY <1>3 DEF Next_fcnt
<1>6. Deduplicated' /\ outbox' \in Seq(Callback) /\ Len(outbox') <= MaxOutbox
  BY <1>1, <1>2, <1>5, StatusQueued DEF ResetsDedup
<1> QED BY <1>3, <1>4, <1>6

-----------------------------------------------------------------------------
(***************************************************************************)
(* The actions.                                                            *)
(***************************************************************************)
LEMMA PointsOf ==
  /\ Health \in Thread /\ "FCGI" \in Operator /\ Operator \subseteq Thread
  /\ \A t \in Thread : "joined" \in Points(t) /\ Rest(t) \in Points(t)
  /\ \A t \in Operator : Points(t) = {"idle", "joined", "restarted"}
  /\ Points(Health) = {"sleeping", "informed", "stored", "requesting", "deciding", "joined"}
BY DEF Health, Operator, Thread, Points, Rest

LEMMA JoinRequested == IInv /\ HTTP_Endpoint_join => IInv'
<1> SUFFICES ASSUME IInv, HTTP_Endpoint_join PROVE IInv'
  OBVIOUS
<1>1. TypeOK /\ RestTyped /\ Deduplicated /\ MissedOnlyUnannounced /\ DispatchedOnce
  BY TypesAre DEF IInv
<1>2. /\ ThreadsTyped' /\ faults' \in 0 .. MaxFaults /\ net' \in Nets
      /\ announced' \in BOOLEAN /\ UNCHANGED <<fcnt, outbox>>
      /\ announced' => announced /\ Next_fcnt' = Next_fcnt
  BY <1>1, PointsOf, JoinIs DEF HTTP_Endpoint_join
<1>3. /\ UNCHANGED <<settings, g_status, last_dispatched_fcntDown, locals, history>>
      /\ requests' \in 0 .. MaxRequests
  BY <1>1, Bounds DEF HTTP_Endpoint_join, RestTyped
<1>4. RestTyped'
  BY <1>1, <1>2, <1>3 DEF RestTyped, g_status, locals, history
<1>5. Deduplicated'
  BY <1>1, <1>2, <1>3, SessionStays DEF history
<1>6. MissedOnlyUnannounced' /\ DispatchedOnce'
  BY <1>1, <1>3 DEF MissedOnlyUnannounced, DispatchedOnce, history
<1> QED BY <1>2, <1>4, <1>5, <1>6, TypesAre, PTL DEF IInv

LEMMA Restarts == ASSUME NEW t \in Operator PROVE IInv /\ B100_Restart(t) => IInv'
<1> SUFFICES ASSUME IInv, B100_Restart(t) PROVE IInv'
  OBVIOUS
<1>1. TypeOK /\ RestTyped /\ Deduplicated /\ MissedOnlyUnannounced /\ DispatchedOnce
  BY TypesAre DEF IInv
<1>2. /\ UNCHANGED <<settings, g_status, last_dispatched_fcntDown, locals, history>>
      /\ requests' \in 0 .. MaxRequests /\ Starts /\ Answered(t, "restarted", "idle")
      /\ Len(outbox) < MaxOutbox
  BY <1>1, Bounds DEF B100_Restart, RestTyped
<1>3. ThreadsTyped' /\ faults' \in 0 .. MaxFaults
  BY <1>1, <1>2, PointsOf, AnsweredIs
<1>4. /\ Deduplicated' /\ outbox' \in Seq(Callback) /\ Len(outbox') <= MaxOutbox
      /\ net' \in Nets /\ fcnt' = fcnt /\ announced' \in BOOLEAN
  BY <1>1, <1>2, StartsIs DEF history
<1>5. RestTyped'
  BY <1>1, <1>2, <1>3, <1>4 DEF RestTyped, g_status, locals, history
<1>6. MissedOnlyUnannounced' /\ DispatchedOnce'
  BY <1>1, <1>2 DEF MissedOnlyUnannounced, DispatchedOnce, history
<1> QED BY <1>3, <1>4, <1>5, <1>6, TypesAre, PTL DEF IInv

\* The answer is noted: the deduplication is cleared.
LEMMA Accepted ==
  ASSUME NEW t \in Thread
  PROVE  IInv /\ (B100_Join_Accepted(t) \/ B100_Restart_Accepted(t)) => IInv'
<1> SUFFICES ASSUME IInv, B100_Join_Accepted(t) \/ B100_Restart_Accepted(t) PROVE IInv'
  OBVIOUS
<1>1. /\ TypeOK /\ ThreadsTyped /\ RestTyped
      /\ Deduplicated /\ MissedOnlyUnannounced /\ DispatchedOnce
  BY TypesAre DEF IInv
<1>2. /\ last_dispatched_fcntDown' = NoCounter /\ cleared' = TRUE
      /\ UNCHANGED <<dispatched, missed, repeated>> /\ Goto(t, Rest(t))
      /\ UNCHANGED <<settings, locals, bridge, bounds>>
      /\ UNCHANGED g_status \/ (joined' = FALSE /\ statusCode' = "RESTARTED")
  BY DEF B100_Join_Accepted, B100_Restart_Accepted, Reset_Downlink_Dedup
<1>3. ThreadsTyped'
  BY <1>1, <1>2, PointsOf, GoesTyped
<1>4. RestTyped'
  BY <1>1, <1>2 DEF RestTyped, g_status, locals, bridge, bounds, Code
<1>5. Deduplicated'
  BY <1>1, <1>2, DedupCleared DEF bridge
<1>6. MissedOnlyUnannounced' /\ DispatchedOnce'
  BY <1>1, <1>2 DEF MissedOnlyUnannounced, DispatchedOnce
<1> QED BY <1>3, <1>4, <1>5, <1>6, TypesAre, PTL DEF IInv

\* A health cycle: only its request for the status and its join reach the bridge.
LEMMA HealthRuns == IInv /\ Health_Monitor_Thread => IInv'
<1> SUFFICES ASSUME IInv, Health_Monitor_Thread PROVE IInv'
  OBVIOUS
<1>1. /\ TypeOK /\ ThreadsTyped /\ RestTyped
      /\ Deduplicated /\ MissedOnlyUnannounced /\ DispatchedOnce
  BY TypesAre DEF IInv
<1>2. CASE Health_Info
  <2>1. /\ answer' \in BOOLEAN /\ Answered(Health, "informed", "stored")
        /\ UNCHANGED <<settings, g_status, last_dispatched_fcntDown, status, bridge, requests,
                       history>>
    BY <1>2 DEF Health_Info
  <2>2. ThreadsTyped' /\ faults' \in 0 .. MaxFaults
    BY <1>1, <2>1, PointsOf, AnsweredIs
  <2>3. RestTyped'
    BY <1>1, <2>1, <2>2 DEF RestTyped, g_status, bridge, history
  <2>4. Deduplicated'
    BY <1>1, <2>1, SessionStays DEF bridge, history, Next_fcnt
  <2>5. MissedOnlyUnannounced' /\ DispatchedOnce'
    BY <1>1, <2>1 DEF MissedOnlyUnannounced, DispatchedOnce, history
  <2> QED BY <2>2, <2>3, <2>4, <2>5, TypesAre, PTL DEF IInv
<1>3. CASE B100_Fetch_Device_Info \/ B100_Get_Status
  <2>1. /\ Goto(Health, "stored") \/ Goto(Health, "requesting")
        /\ joined' \in BOOLEAN /\ answer' \in BOOLEAN /\ UNCHANGED statusCode
        /\ status' \in [joined : BOOLEAN, statusCode : Code \cup {None}]
        /\ UNCHANGED <<settings, last_dispatched_fcntDown, bridge, bounds, history>>
    <3>1. CASE B100_Fetch_Device_Info
      BY <1>1, <3>1 DEF B100_Fetch_Device_Info, RestTyped, DevAddr, locals
    <3>2. CASE B100_Get_Status
      BY <1>1, <3>2 DEF B100_Get_Status, RestTyped, g_status
    <3> QED BY <1>3, <3>1, <3>2
  <2>2. ThreadsTyped'
    BY <1>1, <2>1, PointsOf, GoesTyped
  <2>3. RestTyped'
    BY <1>1, <2>1 DEF RestTyped, bridge, bounds, history
  <2>4. Deduplicated'
    BY <1>1, <2>1, SessionStays DEF bridge, history, Next_fcnt
  <2>5. MissedOnlyUnannounced' /\ DispatchedOnce'
    BY <1>1, <2>1 DEF MissedOnlyUnannounced, DispatchedOnce, history
  <2> QED BY <2>2, <2>3, <2>4, <2>5, TypesAre, PTL DEF IInv
<1>4. CASE B100_Request_Status
  <2>1. /\ Goto(Health, "deciding") /\ Len(outbox) < MaxOutbox
        /\ announced' = (announced \/ net # "joined")
        /\ UNCHANGED <<settings, g_status, last_dispatched_fcntDown, locals, net, fcnt,
                       bounds, history>>
    BY <1>4 DEF B100_Request_Status
  <2>2. PICK code \in IF net = "joined" THEN {"JOINED"} ELSE {"RESTARTED", "NOT_JOINED"} :
          outbox' = Append(outbox, StatusCallback(code))
    BY <1>4 DEF B100_Request_Status
  <2>3. code \in Code /\ (net # "joined" => ResetsDedup(code))
    BY <2>2 DEF Code, ResetsDedup
  <2>4. Next_fcnt' = Next_fcnt /\ Next_fcnt' \in Nat /\ announced' \in BOOLEAN
    BY <1>1, <2>1, Numbers DEF Next_fcnt, RestTyped
  <2>5. announced' => ResetsDedup(code) \/ (announced /\ Next_fcnt' = Next_fcnt)
    BY <2>1, <2>3, <2>4
  <2>6. Deduplicated' /\ outbox' \in Seq(Callback) /\ Len(outbox') <= MaxOutbox
    BY <1>1, <2>1, <2>2, <2>3, <2>4, <2>5, StatusQueued DEF history
  <2>7. ThreadsTyped'
    BY <1>1, <2>1, PointsOf, GoesTyped
  <2>8. RestTyped'
    BY <1>1, <2>1, <2>4, <2>6 DEF RestTyped, g_status, locals, bounds, history
  <2>9. MissedOnlyUnannounced' /\ DispatchedOnce'
    BY <1>1, <2>1 DEF MissedOnlyUnannounced, DispatchedOnce, history
  <2> QED BY <2>6, <2>7, <2>8, <2>9, TypesAre, PTL DEF IInv
<1>5. CASE Health_Decide
  <2>1. /\ UNCHANGED <<settings, g_status, last_dispatched_fcntDown, answer, requests, history>>
        /\ status' \in [joined : BOOLEAN, statusCode : Code \cup {None}]
        /\ \/ Join(Health, "sleeping")
           \/ Goto(Health, "sleeping") /\ UNCHANGED <<bridge, faults>>
    BY <1>5 DEF Health_Decide
  <2>2. /\ ThreadsTyped' /\ faults' \in 0 .. MaxFaults /\ net' \in Nets
        /\ announced' \in BOOLEAN /\ UNCHANGED <<fcnt, outbox>>
        /\ announced' => announced /\ Next_fcnt' = Next_fcnt
    <3>1. CASE Join(Health, "sleeping")
      BY <1>1, <3>1, PointsOf, JoinIs
    <3>2. CASE Goto(Health, "sleeping") /\ UNCHANGED <<bridge, faults>>
      <4>1. ThreadsTyped'
        BY <1>1, <3>2, PointsOf, GoesTyped
      <4> QED BY <1>1, <3>2, <4>1 DEF bridge, RestTyped, Next_fcnt
    <3> QED BY <2>1, <3>1, <3>2
  <2>3. RestTyped'
    BY <1>1, <2>1, <2>2 DEF RestTyped, g_status, history
  <2>4. Deduplicated'
    BY <1>1, <2>1, <2>2, SessionStays DEF history
  <2>5. MissedOnlyUnannounced' /\ DispatchedOnce'
    BY <1>1, <2>1 DEF MissedOnlyUnannounced, DispatchedOnce, history
  <2> QED BY <2>2, <2>3, <2>4, <2>5, TypesAre, PTL DEF IInv
<1> QED BY <1>2, <1>3, <1>4, <1>5, PointsOf, Accepted DEF Health_Monitor_Thread

\* A session begins; its first counter is 0.
LEMMA Joins == IInv /\ NetJoins => IInv'
<1> SUFFICES ASSUME IInv, NetJoins PROVE IInv'
  OBVIOUS
<1>1. /\ TypeOK /\ ThreadsTyped /\ RestTyped
      /\ Deduplicated /\ MissedOnlyUnannounced /\ DispatchedOnce
  BY TypesAre DEF IInv
<1>2. /\ net = "joining" /\ Len(outbox) < MaxOutbox /\ net' = "joined" /\ fcnt' = 0
      /\ outbox' = Append(outbox, StatusCallback("JOINED"))
      /\ UNCHANGED <<settings, g_status, last_dispatched_fcntDown, pc, locals, announced,
                     bounds, history>>
  BY DEF NetJoins
<1>3. "JOINED" \in Code /\ Next_fcnt = 0 /\ Next_fcnt' = 0
  BY <1>2 DEF Code, Next_fcnt
<1>4. Deduplicated' /\ outbox' \in Seq(Callback) /\ Len(outbox') <= MaxOutbox
  BY <1>1, <1>2, <1>3, StatusQueued DEF history
<1>5. ThreadsTyped'
  BY <1>1, <1>2 DEF ThreadsTyped
<1>6. RestTyped'
  BY <1>1, <1>2, <1>4, Bounds DEF RestTyped, Nets, g_status, locals, bounds, history
<1>7. MissedOnlyUnannounced' /\ DispatchedOnce'
  BY <1>1, <1>2 DEF MissedOnlyUnannounced, DispatchedOnce, history
<1> QED BY <1>4, <1>5, <1>6, <1>7, TypesAre, PTL DEF IInv

LEMMA Faults == IInv /\ NetFaults => IInv'
<1> SUFFICES ASSUME IInv, NetFaults PROVE IInv'
  OBVIOUS
<1>1. /\ TypeOK /\ ThreadsTyped /\ RestTyped
      /\ Deduplicated /\ MissedOnlyUnannounced /\ DispatchedOnce
  BY TypesAre DEF IInv
<1>2. /\ UNCHANGED <<settings, g_status, last_dispatched_fcntDown, pc, locals, requests,
                     history>>
      /\ faults' \in 0 .. MaxFaults /\ Len(outbox) < MaxOutbox
  BY <1>1, Bounds DEF NetFaults, Suffers, HasFault, RestTyped
<1>3. /\ Deduplicated' /\ outbox' \in Seq(Callback) /\ Len(outbox') <= MaxOutbox
      /\ net' \in Nets /\ fcnt' = fcnt /\ announced' \in BOOLEAN
  <2>1. CASE Starts
    BY <1>1, <1>2, <2>1, StartsIs DEF history
  <2>2. CASE ~Starts
    <3>1. /\ net' \in {"joining", "idle"} /\ announced' = TRUE /\ UNCHANGED fcnt
          /\ outbox' = Append(outbox, StatusCallback("NOT_JOINED"))
      BY <2>2 DEF NetFaults
    <3>2. "NOT_JOINED" \in Code /\ ResetsDedup("NOT_JOINED") /\ Next_fcnt' \in Nat
      BY <3>1 DEF Code, ResetsDedup, Next_fcnt
    <3>3. Deduplicated' /\ outbox' \in Seq(Callback) /\ Len(outbox') <= MaxOutbox
      BY <1>1, <1>2, <3>1, <3>2, StatusQueued DEF history
    <3> QED BY <3>1, <3>3 DEF Nets
  <2> QED BY <2>1, <2>2
<1>4. ThreadsTyped'
  BY <1>1, <1>2 DEF ThreadsTyped
<1>5. RestTyped'
  BY <1>1, <1>2, <1>3 DEF RestTyped, g_status, locals, history
<1>6. MissedOnlyUnannounced' /\ DispatchedOnce'
  BY <1>1, <1>2 DEF MissedOnlyUnannounced, DispatchedOnce, history
<1> QED BY <1>3, <1>4, <1>5, <1>6, TypesAre, PTL DEF IInv

\* A downlink in a callback, and the outbox with its callbacks.
Copy(code, first) == [code |-> code, fcnt |-> fcnt, first |-> first, announced |-> announced]
Carrying(codes) == outbox \o [i \in 1 .. Len(codes) |->
                                [code |-> codes[i], fcnt |-> fcnt, first |-> i = 1,
                                 announced |-> announced]]

LEMMA CarryingIs ==
  ASSUME RestTyped, fcnt \in Counter
  PROVE  /\ \A code \in {None, "JOINED"}, first \in BOOLEAN : Copy(code, first) \in Callback
         /\ \A code \in {None, "JOINED"} :
              Carrying(<<code>>) = Append(outbox, Copy(code, TRUE))
         /\ Carrying(<<"JOINED", None>>) =
              Append(Append(outbox, Copy("JOINED", TRUE)), Copy(None, FALSE))
<1>1. \A code \in {None, "JOINED"}, first \in BOOLEAN : Copy(code, first) \in Callback
  BY DEF Copy, Callback, Code, RestTyped
<1>2. outbox \in Seq(Callback)
  BY DEF RestTyped
<1>3. ASSUME NEW code \in {None, "JOINED"}
      PROVE  Carrying(<<code>>) = Append(outbox, Copy(code, TRUE))
  <2> DEFINE one == Copy(code, TRUE)
             codes == <<code>>
             both == [i \in 1 .. Len(codes) |->
               [code |-> codes[i], fcnt |-> fcnt, first |-> i = 1, announced |-> announced]]
  <2>1. one \in Callback
    BY <1>1
  <2>2. \A i \in 1 .. Len(codes) : both[i] = Copy(codes[i], i = 1)
    BY Zenon DEF Copy
  <2>3. codes[1] = code /\ Len(codes) = 1 /\ 1 .. 1 = {1}
    OBVIOUS
  <2>4. Carrying(codes) = outbox \o both
    BY Zenon DEF Carrying
  <2>5. DOMAIN both = 1 .. 1 /\ both = [i \in 1 .. 1 |-> both[i]]
    BY <2>3
  <2>6. both[1] = one
    <3>1. (1 = 1) = TRUE /\ 1 \in 1 .. Len(codes)
      BY <2>3
    <3> HIDE DEF both, codes
    <3>2. both[1] = Copy(codes[1], 1 = 1)
      BY <2>2, <3>1, Zenon
    <3>3. both[1] = Copy(codes[1], TRUE)
      BY <3>1, <3>2, Zenon
    <3> QED BY <2>3, <3>3
  <2> HIDE DEF one, codes, both
  <2>7. both = <<one>>
    BY <2>5, <2>6
  <2>8. outbox \o <<one>> = Append(outbox, one)
    BY <1>2, <2>1, AppendIsConcat
  <2>9. Carrying(codes) = Append(outbox, one)
    BY <2>4, <2>7, <2>8
  <2> QED BY <2>9 DEF one, codes
<1>4. Carrying(<<"JOINED", None>>) =
        Append(Append(outbox, Copy("JOINED", TRUE)), Copy(None, FALSE))
  <2> DEFINE one == Copy("JOINED", TRUE)
             two == Copy(None, FALSE)
             codes == <<"JOINED", None>>
             both == [i \in 1 .. Len(codes) |->
               [code |-> codes[i], fcnt |-> fcnt, first |-> i = 1, announced |-> announced]]
  <2>1. one \in Callback /\ two \in Callback
    BY <1>1
  <2>2. \A i \in 1 .. Len(codes) : both[i] = Copy(codes[i], i = 1)
    BY Zenon DEF Copy
  <2>3. codes[1] = "JOINED" /\ codes[2] = None /\ Len(codes) = 2 /\ 1 .. 2 = {1, 2}
    OBVIOUS
  <2>4. Carrying(codes) = outbox \o both
    BY Zenon DEF Carrying
  <2>5. DOMAIN both = 1 .. 2 /\ both = [i \in 1 .. 2 |-> both[i]]
    BY <2>3
  <2>6. both[1] = one /\ both[2] = two
    <3>1. /\ (1 = 1) = TRUE /\ (2 = 1) = FALSE
          /\ 1 \in 1 .. Len(codes) /\ 2 \in 1 .. Len(codes)
      BY <2>3
    <3> HIDE DEF both, codes
    <3>2. both[1] = Copy(codes[1], 1 = 1) /\ both[2] = Copy(codes[2], 2 = 1)
      BY <2>2, <3>1, Zenon
    <3>3. both[1] = Copy(codes[1], TRUE) /\ both[2] = Copy(codes[2], FALSE)
      BY <3>1, <3>2, Zenon
    <3> QED BY <2>3, <3>3
  <2> HIDE DEF one, two, codes, both
  <2>7. both = <<one, two>>
    BY <2>3, <2>5, <2>6
  <2>8. both = <<one>> \o <<two>> /\ <<one>> \in Seq(Callback) /\ <<two>> \in Seq(Callback)
    <3>1. /\ <<one>> \in Seq(Callback) /\ <<two>> \in Seq(Callback) /\ both \in Seq(Callback)
          /\ Len(<<one>>) = 1 /\ <<one>>[1] = one /\ Len(<<two>>) = 1 /\ <<two>>[1] = two
          /\ Len(both) = 2 /\ both[1] = one /\ both[2] = two
      BY <2>1, <2>7
    <3>2. PICK s \in Seq(Callback), t \in Seq(Callback) : s = <<one>> /\ t = <<two>>
      BY <3>1
    <3>3. /\ s \o t \in Seq(Callback) /\ Len(s \o t) = Len(s) + Len(t)
          /\ \A i \in 1 .. Len(s) + Len(t) :
               (s \o t)[i] = IF i <= Len(s) THEN s[i] ELSE t[i - Len(s)]
      BY ConcatProperties, Zenon
    <3>4. /\ s \o t \in Seq(Callback) /\ Len(s \o t) = 2
          /\ \A i \in 1 .. 2 : (s \o t)[i] = IF i = 1 THEN one ELSE two
      BY <3>1, <3>2, <3>3
    <3>5. \A i \in 1 .. Len(both) : both[i] = (s \o t)[i]
      BY <3>1, <3>4
    <3>6. both = s \o t
      BY <3>1, <3>4, <3>5, SeqEqual
    <3> QED BY <3>1, <3>2, <3>6
  <2>9. outbox \o both = (outbox \o <<one>>) \o <<two>>
    BY <1>2, <2>8, ConcatAssociative
  <2>10. Append(outbox, one) = outbox \o <<one>> /\ Append(outbox, one) \in Seq(Callback)
    BY <1>2, <2>1, AppendIsConcat, AppendProperties
  <2>11. Append(Append(outbox, one), two) = (outbox \o <<one>>) \o <<two>>
    BY <2>1, <2>10, AppendIsConcat
  <2>12. Carrying(codes) = Append(Append(outbox, one), two)
    BY <2>4, <2>9, <2>11
  <2> QED BY <2>12 DEF one, two, codes
<1> QED BY <1>1, <1>3, <1>4

\* The copies of a downlink join the outbox: the counter they carry is the session's next.
LEMMA Sends == IInv /\ Downlink => IInv'
<1> SUFFICES ASSUME IInv, Downlink PROVE IInv'
  OBVIOUS
<1>1. /\ TypeOK /\ ThreadsTyped /\ RestTyped
      /\ Deduplicated /\ MissedOnlyUnannounced /\ DispatchedOnce
  BY TypesAre DEF IInv
<1>2. /\ net = "joined" /\ fcnt \in Counter /\ fcnt' = fcnt + 1
      /\ UNCHANGED <<settings, g_status, last_dispatched_fcntDown, pc, locals, net,
                     announced, bounds, history>>
  BY DEF Downlink
<1>3. PICK codes \in {<<None>>, <<"JOINED">>, <<"JOINED", None>>} :
        Len(outbox) + Len(codes) <= MaxOutbox /\ outbox' = Carrying(codes)
  BY Zenon DEF Downlink, Carrying
<1>4. /\ last_dispatched_fcntDown \in Int /\ outbox \in Seq(Callback) /\ Len(outbox) \in Nat
      /\ fcnt \in Int /\ fcnt + 1 \in Nat /\ fcnt # NoCounter /\ fcnt' \in 0 .. MaxDownlinks
  BY <1>1, <1>2, Numbers, Bounds DEF RestTyped, Counter
<1>5. /\ ~ResetsDedup(None) /\ ~ResetsDedup("JOINED")
      /\ \A code, first : /\ Copy(code, first).fcnt = fcnt /\ Copy(code, first).code = code
                          /\ Copy(code, first).first = first
                          /\ Copy(code, first).announced = announced
  BY DEF ResetsDedup, None, Copy
<1>6. announced => Behind(last_dispatched_fcntDown, outbox, Len(outbox) + 1, fcnt)
  BY <1>1, <1>2 DEF Deduplicated, SessionTold, Next_fcnt
<1>7. Next_fcnt' = fcnt + 1
  BY <1>2 DEF Next_fcnt
<1>8. ASSUME NEW code \in {None, "JOINED"}, NEW more, more = Append(outbox, Copy(code, TRUE))
      PROVE  /\ more \in Seq(Callback) /\ Len(more) = Len(outbox) + 1
             /\ more[Len(more)] = Copy(code, TRUE)
             /\ Outbox(last_dispatched_fcntDown, more, dispatched, cleared)
             /\ announced => Behind(last_dispatched_fcntDown, more, Len(more) + 1, fcnt + 1)
  <2> DEFINE m == Copy(code, TRUE)
  <2>1. /\ m \in Callback /\ m.fcnt = fcnt /\ m.first /\ m.announced = announced
        /\ ~ResetsDedup(m.code) /\ more = Append(outbox, m)
    BY <1>1, <1>2, <1>5, <1>8, CarryingIs
  <2> HIDE DEF m
  <2>2. more \in Seq(Callback) /\ Len(more) = Len(outbox) + 1 /\ more[Len(more)] = m
    BY <1>4, <2>1, AppendProperties
  <2>3. Outbox(last_dispatched_fcntDown, more, dispatched, cleared)
    BY <1>1, <1>4, <1>6, <2>1, OutboxMore DEF Deduplicated
  <2>4. announced => Behind(last_dispatched_fcntDown, more, Len(more) + 1, fcnt + 1)
    BY <1>4, <1>6, <2>1, EndMore
  <2> QED BY <2>2, <2>3, <2>4 DEF m
<1>9. /\ outbox' \in Seq(Callback) /\ Len(outbox') <= MaxOutbox
      /\ Outbox(last_dispatched_fcntDown, outbox', dispatched, cleared)
      /\ announced =>
           Behind(last_dispatched_fcntDown, outbox', Len(outbox') + 1, fcnt + 1)
  <2>1. CASE codes \in {<<None>>, <<"JOINED">>}
    <3>1. PICK code \in {None, "JOINED"} : codes = <<code>>
      BY <2>1
    <3>2. outbox' = Append(outbox, Copy(code, TRUE)) /\ Len(codes) = 1
      BY <1>1, <1>2, <1>3, <3>1, CarryingIs
    <3> QED BY <1>3, <1>8, <3>2
  <2>2. CASE codes = <<"JOINED", None>>
    <3>1. PICK more : more = Append(outbox, Copy("JOINED", TRUE))
      OBVIOUS
    <3>2. /\ more \in Seq(Callback) /\ Len(more) = Len(outbox) + 1
          /\ more[Len(more)] = Copy("JOINED", TRUE)
          /\ Outbox(last_dispatched_fcntDown, more, dispatched, cleared)
          /\ announced => Behind(last_dispatched_fcntDown, more, Len(more) + 1, fcnt + 1)
      BY <1>8, <3>1
    <3> DEFINE m == Copy(None, FALSE)
    <3>3. /\ m \in Callback /\ m.fcnt = fcnt /\ ~m.first /\ m.announced = announced
          /\ ~ResetsDedup(m.code)
      BY <1>1, <1>2, <1>5, CarryingIs
    <3> HIDE DEF m
    <3>4. outbox' = Append(more, m) /\ Len(codes) = 2
      <4>1. Carrying(<<"JOINED", None>>) = Append(more, m)
        BY <1>1, <1>2, <3>1, CarryingIs, Zenon DEF m
      <4>2. Len(codes) = 2
        BY <2>2
      <4>3. outbox' = Carrying(codes) /\ codes = <<"JOINED", None>>
        BY <1>3, <2>2, Zenon
      <4> QED BY <4>1, <4>2, <4>3
    <3>5. /\ Len(more) > 0 /\ more[Len(more)].first /\ more[Len(more)].fcnt = m.fcnt
          /\ more[Len(more)].announced = m.announced
      <4>1. Len(more) > 0
        BY <1>4, <3>2
      <4>2. PICK c : c = Copy("JOINED", TRUE)
        OBVIOUS
      <4>3. c.fcnt = fcnt /\ c.first = TRUE /\ c.announced = announced
        BY <1>5, <4>2, Zenon
      <4>4. more[Len(more)] = c
        BY <3>2, <4>2
      <4> QED BY <3>3, <4>1, <4>3, <4>4
    <3>6. Outbox(last_dispatched_fcntDown, outbox', dispatched, cleared)
      BY <1>4, <3>2, <3>3, <3>4, <3>5, OutboxMore
    <3>7. announced =>
            Behind(last_dispatched_fcntDown, outbox', Len(outbox') + 1, fcnt + 1)
      BY <1>4, <3>2, <3>3, <3>4, EndMore
    <3>8. outbox' \in Seq(Callback) /\ Len(outbox') = Len(more) + 1
      BY <3>2, <3>3, <3>4, AppendProperties
    <3> QED BY <1>3, <1>4, <3>2, <3>4, <3>6, <3>7, <3>8
  <2> QED BY <2>1, <2>2
<1>10. Deduplicated'
  BY <1>2, <1>7, <1>9 DEF Deduplicated, SessionTold, history
<1>11. ThreadsTyped'
  BY <1>1, <1>2 DEF ThreadsTyped
<1>12. RestTyped'
  BY <1>1, <1>2, <1>4, <1>9 DEF RestTyped, g_status, locals, bounds, history
<1>13. MissedOnlyUnannounced' /\ DispatchedOnce'
  BY <1>1, <1>2 DEF MissedOnlyUnannounced, DispatchedOnce, history
<1> QED BY <1>10, <1>11, <1>12, <1>13, TypesAre, PTL DEF IInv

\* The first callback of the outbox, and what is left.
LEMMA RestIs ==
  ASSUME RestTyped, Deduplicated, outbox # <<>>, NEW rest \in Seq(Callback),
         Len(rest) = Len(outbox) - 1,
         \A k \in 1 .. Len(rest) : /\ rest[k].fcnt = outbox[k + 1].fcnt
                                   /\ rest[k].code = outbox[k + 1].code
                                   /\ rest[k].first = outbox[k + 1].first
  PROVE  /\ Len(outbox) \in Nat /\ Len(outbox) > 0 /\ Head(outbox) = outbox[1]
         /\ Len(rest) \in Nat /\ Len(rest) <= MaxOutbox
         /\ outbox[1] \in Callback /\ outbox[1].fcnt \in Counter \cup {NoCounter}
         /\ outbox[1].code \in Code \cup {None} /\ outbox[1].announced \in BOOLEAN
         /\ outbox[1].fcnt # NoCounter => ~Resets(outbox, 1)
         /\ ~outbox[1].first => outbox[1].fcnt # NoCounter
         /\ Len(rest) > 0 /\ ~rest[1].first =>
              /\ outbox[1].first /\ outbox[1].fcnt = rest[1].fcnt /\ rest[1].fcnt # NoCounter
              /\ outbox[1].announced = outbox[2].announced
<1>1. outbox \in Seq(Callback) /\ Len(outbox) \in Nat /\ Len(outbox) <= MaxOutbox
  BY LenProperties DEF RestTyped
<1>2. Len(outbox) > 0 /\ Head(outbox) = outbox[1]
  BY <1>1
<1>3. outbox[1] \in Callback
  BY <1>1, <1>2, ElementOfSeq
<1>4. /\ outbox[1].fcnt # NoCounter => ~Resets(outbox, 1)
      /\ ~outbox[1].first => outbox[1].fcnt # NoCounter
  BY <1>1, <1>2 DEF Deduplicated, Outbox, Copies
<1>5. ASSUME Len(rest) > 0, ~rest[1].first
      PROVE  /\ outbox[1].first /\ outbox[1].fcnt = rest[1].fcnt /\ rest[1].fcnt # NoCounter
             /\ outbox[1].announced = outbox[2].announced
  <2>1. 2 \in 1 .. Len(outbox) /\ 1 \in 1 .. Len(rest) /\ 2 > 1 /\ 2 - 1 = 1 /\ 1 + 1 = 2
    BY <1>1, <1>5
  <2>2. rest[1].fcnt = outbox[2].fcnt /\ ~outbox[2].first
    BY <1>5, <2>1
  <2> QED BY <2>1, <2>2 DEF Deduplicated, Outbox, Copies
<1> QED BY <1>1, <1>2, <1>3, <1>4, <1>5, Bounds DEF Callback

\* A callback is lost: of the sessions that it alone told of, nothing is told any more.
LEMMA Loses == IInv /\ LosesCallback => IInv'
<1> SUFFICES ASSUME IInv, LosesCallback PROVE IInv'
  OBVIOUS
<1>1. /\ TypeOK /\ ThreadsTyped /\ RestTyped
      /\ Deduplicated /\ MissedOnlyUnannounced /\ DispatchedOnce
  BY TypesAre DEF IInv
<1> DEFINE message == Head(outbox)
           told == ~ResetsDedup(message.code)
           new == message.fcnt # NoCounter /\ message.first
           rest == [i \in 1 .. Len(outbox) - 1 |->
                      [outbox[i + 1] EXCEPT !.announced = @ /\ told]]
<1>2. /\ outbox # <<>> /\ outbox' = rest
      /\ announced' = (announced /\ told)
      /\ dispatched' = (dispatched /\ ~new) /\ cleared' = (cleared /\ ~new)
      /\ UNCHANGED <<settings, g_status, last_dispatched_fcntDown, pc, locals, net, fcnt,
                     requests, missed, repeated>>
  BY DEF LosesCallback
<1>3. faults' \in 0 .. MaxFaults
  BY <1>1, Bounds DEF LosesCallback, Suffers, HasFault, RestTyped
<1>4. /\ outbox \in Seq(Callback) /\ Len(outbox) \in Nat /\ Len(outbox) > 0
      /\ last_dispatched_fcntDown \in Int /\ Next_fcnt' = Next_fcnt /\ Next_fcnt \in Nat
  BY <1>1, <1>2, Numbers DEF RestTyped, Next_fcnt
<1>5. ASSUME NEW k \in 1 .. Len(outbox) - 1
      PROVE  /\ rest[k] \in Callback /\ rest[k].fcnt = outbox[k + 1].fcnt
             /\ rest[k].code = outbox[k + 1].code /\ rest[k].first = outbox[k + 1].first
             /\ rest[k].announced = (outbox[k + 1].announced /\ told)
  <2>1. k + 1 \in 1 .. Len(outbox)
    BY <1>4
  <2>2. outbox[k + 1] \in Callback
    BY <1>4, <2>1, ElementOfSeq
  <2>3. rest[k] = [outbox[k + 1] EXCEPT !.announced = outbox[k + 1].announced /\ told]
    BY Zenon
  <2>4. (outbox[k + 1].announced /\ told) \in BOOLEAN
    OBVIOUS
  <2> HIDE DEF rest, told
  <2> QED BY <2>2, <2>3, <2>4 DEF Callback
<1>6. rest \in Seq(Callback) /\ Len(rest) = Len(outbox) - 1
  BY <1>4, <1>5
<1>7. Resets(outbox, 1) <=> ~told
  BY <1>4 DEF Resets
<1>8. new <=> outbox[1].fcnt # NoCounter /\ outbox[1].first
  BY <1>4
<1> HIDE DEF rest, told, new, message
<1>9. /\ Head(outbox) = outbox[1] /\ Len(rest) \in Nat /\ Len(rest) <= MaxOutbox
      /\ outbox[1].fcnt # NoCounter => ~Resets(outbox, 1)
      /\ ~outbox[1].first => outbox[1].fcnt # NoCounter
      /\ Len(rest) > 0 /\ ~rest[1].first =>
           /\ outbox[1].first /\ outbox[1].fcnt = rest[1].fcnt /\ rest[1].fcnt # NoCounter
           /\ outbox[1].announced = outbox[2].announced
  BY <1>1, <1>2, <1>5, <1>6, RestIs
<1>10. \/ /\ \A k \in 1 .. Len(rest) : rest[k].announced = outbox[k + 1].announced
          /\ ~Resets(outbox, 1)
       \/ \A k \in 1 .. Len(rest) : ~rest[k].announced
  <2>1. CASE told
    <3>1. \A k \in 1 .. Len(rest) : outbox[k + 1].announced \in BOOLEAN
      BY <1>4, <1>6, CallbackTyped
    <3> QED BY <1>5, <1>6, <1>7, <2>1, <3>1
  <2>2. CASE ~told
    BY <1>5, <1>6, <2>2
  <2> QED BY <2>1, <2>2
<1>11. DownlinksTold(last_dispatched_fcntDown, rest) /\ Copies(rest)
  <2>1. PICK last \in Int : last = last_dispatched_fcntDown
    BY <1>4
  <2>2. Outbox(last, outbox, dispatched, cleared)
    BY <1>1, <2>1 DEF Deduplicated
  <2>3. \A k \in 1 .. Len(rest) : /\ rest[k].fcnt = outbox[k + 1].fcnt
                                  /\ rest[k].code = outbox[k + 1].code
                                  /\ rest[k].first = outbox[k + 1].first
    BY <1>5, <1>6
  <2> QED BY <1>4, <1>6, <1>10, <2>1, <2>2, <2>3, OutboxRest
<1>12. SecondCopy(last_dispatched_fcntDown, rest, dispatched', cleared')
  <2>1. SUFFICES ASSUME Len(rest) > 0, ~rest[1].first
                 PROVE  /\ rest[1].announced /\ ~dispatched' =>
                             last_dispatched_fcntDown # rest[1].fcnt
                        /\ dispatched' /\ ~cleared' => last_dispatched_fcntDown = rest[1].fcnt
    BY DEF SecondCopy
  <2>2. new /\ ~dispatched'
    BY <1>2, <1>8, <1>9, <2>1
  <2>3. ASSUME rest[1].announced
        PROVE  last_dispatched_fcntDown < rest[1].fcnt
    <3>1. 1 \in 1 .. Len(outbox) - 1 /\ 1 + 1 = 2 /\ 1 \in 1 .. Len(outbox)
      BY <1>4, <1>6, <2>1
    <3>2. outbox[1].announced
      BY <1>5, <1>9, <2>1, <2>3, <3>1
    <3>3. Behind(last_dispatched_fcntDown, outbox, 1, outbox[1].fcnt)
      BY <1>1, <1>9, <2>1, <3>1, <3>2 DEF Deduplicated, Outbox, DownlinksTold
    <3>4. 1 .. 1 - 1 = {}
      OBVIOUS
    <3> QED BY <1>9, <2>1, <3>3, <3>4 DEF Behind
  <2>4. rest[1].fcnt \in Int
    BY <1>6, <2>1, CallbackTyped
  <2> QED BY <1>4, <2>2, <2>3, <2>4
<1>13. SessionTold(last_dispatched_fcntDown, rest, announced', Next_fcnt')
  <2>1. SUFFICES ASSUME announced'
                 PROVE  Behind(last_dispatched_fcntDown, rest, Len(rest) + 1, Next_fcnt)
    BY <1>4 DEF SessionTold
  <2>2. announced /\ ~Resets(outbox, 1)
    BY <1>2, <1>7, <2>1
  <2>3. PICK n \in Nat \ {0} : n = Len(rest) + 1
    BY <1>9
  <2>4. n = Len(outbox) /\ n - 1 = Len(rest)
    BY <1>4, <1>6, <2>3
  <2>5. Behind(last_dispatched_fcntDown, outbox, n + 1, Next_fcnt)
    BY <1>1, <2>2, <2>4 DEF Deduplicated, SessionTold
  <2>6. \A k \in 1 .. n - 1 : rest[k].fcnt = outbox[k + 1].fcnt /\ rest[k].code = outbox[k + 1].code
    BY <1>5, <1>6, <2>4
  <2>7. Behind(last_dispatched_fcntDown, rest, n, Next_fcnt)
    BY <2>2, <2>5, <2>6, BehindRest
  <2> QED BY <2>3, <2>7
<1>14. Deduplicated'
  BY <1>2, <1>11, <1>12, <1>13 DEF Deduplicated, Outbox
<1>15. ThreadsTyped'
  BY <1>1, <1>2 DEF ThreadsTyped
<1>16. announced' \in BOOLEAN /\ dispatched' \in BOOLEAN /\ cleared' \in BOOLEAN
  BY <1>2, Zenon
<1>17. RestTyped'
  BY <1>1, <1>2, <1>3, <1>6, <1>9, <1>16 DEF RestTyped, g_status, locals
<1>18. MissedOnlyUnannounced' /\ DispatchedOnce'
  BY <1>1, <1>2 DEF MissedOnlyUnannounced, DispatchedOnce
<1> QED BY <1>14, <1>15, <1>17, <1>18, TypesAre, PTL DEF IInv

\* A callback is handled.  Its downlink is taken for one already handled only if no callback
\* told of the end of the session before, and a second copy of it is handled again only if the
\* deduplication was cleared after the first.
LEMMA Processes == IInv /\ B100_Process_Callback => IInv'
<1> SUFFICES ASSUME IInv, B100_Process_Callback PROVE IInv'
  OBVIOUS
<1>1. /\ TypeOK /\ ThreadsTyped /\ RestTyped
      /\ Deduplicated /\ MissedOnlyUnannounced /\ DispatchedOnce
  BY TypesAre DEF IInv
<1> DEFINE m == outbox[1]
           last == last_dispatched_fcntDown
           now == last_dispatched_fcntDown'
           rest == Tail(outbox)
<1>2. /\ outbox # <<>> /\ outbox' = rest
      /\ joined' = JoinedAfter(Head(outbox).code)
      /\ statusCode' = IF Head(outbox).code = None THEN statusCode ELSE Head(outbox).code
      /\ Dispatch(Head(outbox))
      /\ UNCHANGED <<settings, pc, locals, net, fcnt, announced, bounds>>
  BY DEF B100_Process_Callback
<1>3. /\ rest \in Seq(Callback) /\ Len(rest) = Len(outbox) - 1
      /\ \A k \in 1 .. Len(rest) : rest[k] = outbox[k + 1]
  BY <1>1, <1>2, HeadTailProperties DEF RestTyped
<1>4. /\ Len(outbox) \in Nat /\ Len(outbox) > 0 /\ Head(outbox) = m
      /\ Len(rest) \in Nat /\ Len(rest) <= MaxOutbox
      /\ m \in Callback /\ m.fcnt \in Counter \cup {NoCounter}
      /\ m.code \in Code \cup {None} /\ m.announced \in BOOLEAN
      /\ m.fcnt # NoCounter => ~Resets(outbox, 1)
      /\ ~m.first => m.fcnt # NoCounter
      /\ Len(rest) > 0 /\ ~rest[1].first =>
           /\ m.first /\ m.fcnt = rest[1].fcnt /\ rest[1].fcnt # NoCounter
           /\ m.announced = outbox[2].announced
  BY <1>1, <1>2, <1>3, RestIs
<1>5. Dispatch(m)
  BY <1>2, <1>4
<1>6. /\ outbox \in Seq(Callback) /\ last \in Int /\ Next_fcnt' = Next_fcnt /\ Next_fcnt \in Nat
  BY <1>1, <1>2, Numbers DEF RestTyped, Next_fcnt
<1> HIDE DEF m, last, now, rest
<1>7. /\ m.fcnt # NoCounter => now = m.fcnt
      /\ m.fcnt = NoCounter /\ Resets(outbox, 1) => now = NoCounter /\ now = m.fcnt
      /\ m.fcnt = NoCounter /\ ~Resets(outbox, 1) => now = last
  BY <1>5 DEF Dispatch, Remembered, Compared, Resets, m, last, now
<1>8. m.fcnt # NoCounter => Compared(m.code) = last
  BY <1>4 DEF Compared, Resets, m, last
<1>9. now \in Counter \cup {NoCounter} /\ now \in Int
  <2>1. last \in Counter \cup {NoCounter}
    BY <1>1 DEF RestTyped, last
  <2>2. now = m.fcnt \/ now = last
    BY <1>7
  <2>3. m.fcnt \in Counter \cup {NoCounter}
    BY <1>4
  <2>4. now \in Counter \cup {NoCounter}
    BY <2>1, <2>2, <2>3, Zenon
  <2>5. Counter \cup {NoCounter} \subseteq Int
    BY Bounds
  <2> QED BY <2>4, <2>5
<1>10. DownlinksTold(now, rest) /\ Copies(rest)
  <2>1. Outbox(last, outbox, dispatched, cleared)
    BY <1>1 DEF Deduplicated, last
  <2>2. \A k \in 1 .. Len(rest) : /\ rest[k].fcnt = outbox[k + 1].fcnt
                                  /\ rest[k].code = outbox[k + 1].code
                                  /\ rest[k].first = outbox[k + 1].first
                                  /\ rest[k].announced = outbox[k + 1].announced
    BY <1>3
  <2>3. (now = last /\ ~Resets(outbox, 1)) \/ now = outbox[1].fcnt
    BY <1>7 DEF m
  <2> QED BY <1>3, <1>4, <1>6, <1>9, <2>1, <2>2, <2>3, OutboxRest
<1>11. SessionTold(now, rest, announced', Next_fcnt')
  <2>1. SUFFICES ASSUME announced
                 PROVE  Behind(now, rest, Len(rest) + 1, Next_fcnt)
    BY <1>2, <1>6 DEF SessionTold
  <2>2. PICK n \in Nat \ {0} : n = Len(rest) + 1
    BY <1>4
  <2>3. n = Len(outbox) /\ n - 1 = Len(rest) /\ (n + 1) - 1 = n /\ 1 \in 1 .. n
    BY <1>3, <1>4, <2>2
  <2>4. Behind(last, outbox, n + 1, Next_fcnt)
    BY <1>1, <2>1, <2>3 DEF Deduplicated, SessionTold, last
  <2>5. \A k \in 1 .. n - 1 : rest[k].fcnt = outbox[k + 1].fcnt /\ rest[k].code = outbox[k + 1].code
    BY <1>3, <2>3
  <2>6. \/ now < Next_fcnt
        \/ now = last /\ ~Resets(outbox, 1)
        \/ \E k \in 2 .. n : Resets(outbox, k)
    <3>1. m.fcnt < Next_fcnt \/ \E k \in 1 + 1 .. n : Resets(outbox, k)
      BY <2>3, <2>4 DEF Behind, m
    <3> QED BY <1>7, <3>1
  <2>7. Behind(now, rest, n, Next_fcnt)
    BY <2>4, <2>5, <2>6, BehindRest
  <2> QED BY <2>2, <2>7
<1>12. CASE m.fcnt = NoCounter
  <2>1. UNCHANGED history
    BY <1>5, <1>12 DEF Dispatch
  <2>2. SecondCopy(now, rest, dispatched', cleared')
    BY <1>4, <1>12 DEF SecondCopy
  <2>3. Deduplicated'
    BY <1>2, <1>10, <1>11, <2>2 DEF Deduplicated, Outbox, now
  <2>4. RestTyped'
    <3>1. joined' \in BOOLEAN
      BY <1>1, <1>2 DEF RestTyped, JoinedAfter
    <3>2. statusCode' \in Code \cup {None}
      BY <1>1, <1>2, <1>4 DEF RestTyped
    <3> QED BY <1>1, <1>2, <1>3, <1>4, <1>9, <2>1, <3>1, <3>2
            DEF RestTyped, locals, bounds, history, now
  <2>5. ThreadsTyped'
    BY <1>1, <1>2 DEF ThreadsTyped
  <2>6. MissedOnlyUnannounced' /\ DispatchedOnce'
    BY <1>1, <2>1 DEF MissedOnlyUnannounced, DispatchedOnce, history
  <2> QED BY <2>3, <2>4, <2>5, <2>6, TypesAre, PTL DEF IInv
<1>13. CASE m.fcnt # NoCounter
  <2> DEFINE before == ~m.first /\ dispatched
             again == ~m.first /\ cleared
             done == m.fcnt = last
  <2>1. /\ dispatched' = (before \/ ~done)
        /\ missed' = IF ~before /\ done THEN missed \cup {m.announced} ELSE missed
        /\ repeated' = IF before /\ ~done THEN repeated \cup {again} ELSE repeated
        /\ cleared' = again
    <3>1. Already_Done(m) = done
      BY <1>8, <1>13 DEF Already_Done
    <3>2. /\ dispatched' = (before \/ ~Already_Done(m))
          /\ missed' = IF ~before /\ Already_Done(m) THEN missed \cup {m.announced} ELSE missed
          /\ repeated' = IF before /\ ~Already_Done(m) THEN repeated \cup {again} ELSE repeated
          /\ cleared' = again
      BY <1>5, <1>13, Zenon DEF Dispatch
    <3> QED BY <3>1, <3>2, Zenon
  <2>2. m.first /\ m.announced => ~done
    <3>1. SUFFICES ASSUME m.first, m.announced PROVE last < m.fcnt
      BY <1>4, <1>6, Bounds
    <3>2. 1 \in 1 .. Len(outbox) /\ 1 .. 1 - 1 = {}
      BY <1>4
    <3>3. Behind(last, outbox, 1, m.fcnt)
      BY <1>1, <1>13, <3>1, <3>2 DEF Deduplicated, Outbox, DownlinksTold, m, last
    <3> QED BY <3>2, <3>3 DEF Behind
  <2>3. ~m.first => /\ m.announced /\ ~dispatched => ~done
                    /\ dispatched /\ ~cleared => done
    BY <1>1, <1>4 DEF Deduplicated, Outbox, SecondCopy, m, last
  <2>4. MissedOnlyUnannounced'
    <3>1. CASE ~before /\ done
      <4>1. ~m.announced
        BY <2>2, <2>3, <3>1
      <4>2. m.announced = FALSE
        BY <1>4, <4>1
      <4> QED BY <1>1, <2>1, <3>1, <4>2 DEF MissedOnlyUnannounced
    <3>2. CASE ~(~before /\ done)
      BY <1>1, <2>1, <3>2 DEF MissedOnlyUnannounced
    <3> QED BY <3>1, <3>2
  <2>5. DispatchedOnce'
    <3>1. CASE before /\ ~done
      <4>1. again
        BY <2>3, <3>1
      <4>2. again = TRUE
        BY <4>1
      <4> HIDE DEF again
      <4> QED BY <1>1, <2>1, <3>1, <4>2 DEF DispatchedOnce
    <3>2. CASE ~(before /\ ~done)
      BY <1>1, <2>1, <3>2 DEF DispatchedOnce
    <3> QED BY <3>1, <3>2
  <2>6. SecondCopy(now, rest, dispatched', cleared')
    <3>1. SUFFICES ASSUME Len(rest) > 0, ~rest[1].first
                   PROVE  /\ rest[1].announced /\ ~dispatched' => now # rest[1].fcnt
                          /\ dispatched' /\ ~cleared' => now = rest[1].fcnt
      BY DEF SecondCopy
    <3>2. m.first /\ now = rest[1].fcnt
      BY <1>4, <1>7, <1>13, <3>1
    <3>3. rest[1].announced => m.announced
      BY <1>3, <1>4, <3>1
    <3>4. rest[1].announced => dispatched'
      BY <2>1, <2>2, <3>2, <3>3
    <3> QED BY <3>2, <3>4
  <2>7. Deduplicated'
    BY <1>2, <1>10, <1>11, <2>6 DEF Deduplicated, Outbox, now
  <2>8. RestTyped'
    <3>1. joined' \in BOOLEAN
      BY <1>1, <1>2 DEF RestTyped, JoinedAfter
    <3>2. statusCode' \in Code \cup {None}
      BY <1>1, <1>2, <1>4 DEF RestTyped
    <3>3. dispatched' \in BOOLEAN /\ cleared' \in BOOLEAN /\ again \in BOOLEAN
      BY <2>1, Zenon
    <3>4. missed' \subseteq BOOLEAN /\ repeated' \subseteq BOOLEAN
      <4> HIDE DEF before, again, done
      <4> QED BY <1>1, <1>4, <2>1, <3>3 DEF RestTyped
    <3> QED BY <1>1, <1>2, <1>3, <1>4, <1>9, <3>1, <3>2, <3>3, <3>4
            DEF RestTyped, locals, bounds, now
  <2>9. ThreadsTyped'
    BY <1>1, <1>2 DEF ThreadsTyped
  <2> QED BY <2>4, <2>5, <2>7, <2>8, <2>9, TypesAre, PTL DEF IInv
<1> QED BY <1>12, <1>13

-----------------------------------------------------------------------------
LEMMA Starting == Init => IInv
<1> SUFFICES ASSUME Init PROVE IInv
  OBVIOUS
<1>1. /\ last_dispatched_fcntDown = NoCounter /\ outbox = <<>> /\ fcnt = 0
      /\ missed = {} /\ repeated = {} /\ dispatched = TRUE /\ cleared = FALSE
  BY DEF Init
<1>2. ThreadsTyped
  <2>1. \A t \in Thread : (IF t = Health THEN "sleeping" ELSE "idle") \in Points(t)
    BY DEF Points
  <2>2. pc = [t \in Thread |-> IF t = Health THEN "sleeping" ELSE "idle"]
    BY DEF Init
  <2>3. \A t \in Thread : pc[t] \in Points(t)
    BY <2>1, <2>2
  <2>4. pc \in [Thread -> UNION {Points(t) : t \in Thread}]
    BY <2>1, <2>2
  <2> QED BY <2>3, <2>4 DEF ThreadsTyped
<1>3. RestTyped
  <2>1. outbox \in Seq(Callback) /\ Len(outbox) = 0
    BY <1>1
  <2>2. /\ joined = FALSE /\ statusCode = None /\ answer = FALSE
        /\ status = [joined |-> FALSE, statusCode |-> None] /\ announced = TRUE
        /\ net \in Nets /\ requests = 0 /\ faults = 0
    BY DEF Init, Nets
  <2>3. /\ 0 \in 0 .. MaxDownlinks /\ 0 \in 0 .. MaxRequests /\ 0 \in 0 .. MaxFaults
        /\ 0 <= MaxOutbox
    BY Bounds
  <2> QED BY <1>1, <2>1, <2>2, <2>3 DEF RestTyped
<1>4. Deduplicated
  <2>1. Len(outbox) = 0 /\ Next_fcnt = 0 /\ NoCounter < 0
    BY <1>1, Bounds DEF Next_fcnt
  <2> QED BY <1>1, <2>1 DEF Deduplicated, SessionTold, Outbox, DownlinksTold, Copies, SecondCopy,
                            Behind
<1> QED BY <1>1, <1>2, <1>3, <1>4, TypesAre DEF IInv, MissedOnlyUnannounced, DispatchedOnce

LEMMA Stutters == IInv /\ UNCHANGED vars => IInv'
<1> SUFFICES ASSUME IInv, UNCHANGED vars PROVE IInv'
  OBVIOUS
<1>1. /\ TypeOK /\ ThreadsTyped /\ RestTyped
      /\ Deduplicated /\ MissedOnlyUnannounced /\ DispatchedOnce
  BY TypesAre DEF IInv
<1>2. /\ UNCHANGED <<joined, statusCode, last_dispatched_fcntDown, pc, answer, status>>
      /\ UNCHANGED <<net, fcnt, outbox, announced, requests, faults>>
      /\ UNCHANGED <<dispatched, cleared, missed, repeated>>
  BY DEF vars, g_status, locals, bridge, bounds, history
<1>3. ThreadsTyped' /\ RestTyped'
  BY <1>1, <1>2 DEF ThreadsTyped, RestTyped
<1>4. Deduplicated'
  BY <1>1, <1>2, SessionStays DEF Next_fcnt
<1>5. MissedOnlyUnannounced' /\ DispatchedOnce'
  BY <1>1, <1>2 DEF MissedOnlyUnannounced, DispatchedOnce
<1> QED BY <1>3, <1>4, <1>5, TypesAre, PTL DEF IInv

LEMMA IInvKept == Spec => []IInv
<1>1. IInv /\ [Next]_vars => IInv'
  <2> SUFFICES ASSUME IInv, [Next]_vars PROVE IInv'
    OBVIOUS
  <2>1. CASE B100_Process_Callback
    BY <2>1, Processes
  <2>2. CASE Requests
    BY <2>2, JoinRequested, Restarts, Accepted, PointsOf DEF Requests
  <2>3. CASE Health_Monitor_Thread
    BY <2>3, HealthRuns
  <2>4. CASE NetJoins \/ NetFaults
    BY <2>4, Joins, Faults
  <2>5. CASE LosesCallback
    BY <2>5, Loses
  <2>6. CASE Downlink
    BY <2>6, Sends
  <2>7. CASE UNCHANGED vars
    BY <2>7, Stutters
  <2> QED BY <2>1, <2>2, <2>3, <2>4, <2>5, <2>6, <2>7 DEF Next
<1> QED BY Starting, <1>1, PTL DEF Spec

\* B100_Dispatch_Downlink_From_JSON drops as a duplicate only the downlink of a session whose
\* predecessor ended without a callback of the bridge that says so: with any number of joins,
\* restarts, faults and lost callbacks, a downlink that a callback announced is handled.
THEOREM NoneMissedIfTold == Spec => []MissedOnlyUnannounced
<1>1. IInv => MissedOnlyUnannounced
  BY DEF IInv
<1> QED BY <1>1, IInvKept, PTL

\* A downlink that two callbacks carry reaches the app's handler once, unless a join or restart
\* of this camera clears the deduplication between the two (B100.c:772); and every variable
\* keeps its type.
THEOREM HandledOnce == Spec => []DownlinkOnce
<1>1. IInv => DownlinkOnce
  BY DEF IInv, DownlinkOnce
<1> QED BY <1>1, IInvKept, PTL

-----------------------------------------------------------------------------
(***************************************************************************)
(* The callbacks.  While no settings are half stored and none raced with a *)
(* request that was under way, both threads configure what the settings    *)
(* ask for, and whichever of them finishes last sets the flag for what the *)
(* bridge took.                                                            *)
(***************************************************************************)
Changing == {"address", "clear", "connection"}
Busy == {"setting", "answered"} \cup Changing
Asked == H!Configured(b100_ip)
Settled == at[H!FCGI] \notin Changing /\ ~raced

\* What a thread is configuring is what the settings ask for.
AsAsked ==
  Settled => \A t \in H!Thread : H!Configuring(t) =>
    /\ params[t] = H!CallbackAddress
    /\ at[t] = "answered" /\ result[t] => Asked

CallsInv == H!TypeOK /\ AsAsked /\ H!FlagHonest

flags == <<b100_ip, callback_ip, g_callbacks_configured, params, result, raced>>

-----------------------------------------------------------------------------
\* There is always an address to be called back at.
LEMMA AddressTyped ==
  ASSUME H!ConstantsAssumption, b100_ip \in Bridge, callback_ip \in Address \cup {NoAddress}
  PROVE  H!CallbackAddress \in Address
BY DEF H!ConstantsAssumption, H!CallbackAddress

\* A bridge stays configured while the settings stay and it takes nothing else, and when it
\* is reset.
LEMMA AskedStays ==
  ASSUME b100_ip \in Bridge, UNCHANGED <<b100_ip, callback_ip>>,
         \/ /\ bridges'[b100_ip].target = bridges[b100_ip].target
            /\ bridges'[b100_ip].calls = bridges[b100_ip].calls
            /\ bridges'[b100_ip].cut = bridges[b100_ip].cut
         \/ bridges'[b100_ip].target = NoAddress
  PROVE  Asked => Asked'
<1>1. H!CallbackAddress' = H!CallbackAddress
  BY DEF H!CallbackAddress
<1> QED BY <1>1 DEF Asked, H!Configured

\* The health thread and the thread of the pages are two.
LEMMA Threads == H!Health # H!FCGI /\ H!Health \in H!Thread /\ H!FCGI \in H!Thread
BY DEF H!Health, H!FCGI, H!Thread

\* A step that begins and ends no configuration and no change of the settings, and leaves
\* alone what they are about.
LEMMA Aside ==
  ASSUME AsAsked, H!FlagHonest, UNCHANGED flags, Asked => Asked',
         \A t \in H!Thread : at'[t] = at[t] \/ (at[t] \notin Busy /\ at'[t] \notin Busy)
  PROVE  AsAsked' /\ H!FlagHonest'
<1>1. H!CallbackAddress' = H!CallbackAddress
  BY DEF flags, H!CallbackAddress
<1>2. \A t \in H!Thread : H!Configuring(t)' <=> H!Configuring(t)
  BY DEF H!Configuring, Busy
<1>3. at'[H!FCGI] \in Changing <=> at[H!FCGI] \in Changing
  BY Threads DEF Busy
<1>4. ASSUME NEW t \in H!Thread, at'[t] = "answered"
      PROVE  at[t] = "answered"
  BY <1>4 DEF Busy
<1>5. AsAsked'
  BY <1>1, <1>2, <1>3, <1>4 DEF AsAsked, Settled, flags
<1>6. H!FlagHonest'
  BY <1>2, <1>3 DEF H!FlagHonest, Changing, flags, Asked
<1> QED BY <1>5, <1>6

-----------------------------------------------------------------------------
\* The steps of a configuration, and those of new settings.
LEMMA Configures ==
  ASSUME CallsInv, NEW t \in H!Thread, H!Configure_B100_Callbacks(t)
  PROVE  AsAsked' /\ H!FlagHonest'
<1> USE DEF CallsInv
<1>1. CASE H!B100_Configure_Callbacks(t)
  <2>1. /\ at[t] = "building" /\ at' = [at EXCEPT ![t] = "setting"]
        /\ params' = [params EXCEPT ![t] = H!CallbackAddress]
        /\ raced' = (raced /\ \E u \in H!Thread \ {t} : H!Configuring(u))
        /\ UNCHANGED <<b100_ip, callback_ip, g_callbacks_configured, result, bridges>>
    BY <1>1 DEF H!B100_Configure_Callbacks, H!Goto, H!settings
  <2>2. H!CallbackAddress' = H!CallbackAddress /\ (Asked' <=> Asked)
    BY <2>1 DEF H!CallbackAddress, Asked, H!Configured
  <2>3. at'[t] = "setting" /\ params'[t] = H!CallbackAddress /\ H!Configuring(t)'
    BY <2>1 DEF H!TypeOK, H!Configuring
  <2>4. \A u \in H!Thread \ {t} : at'[u] = at[u] /\ params'[u] = params[u]
                                  /\ (H!Configuring(u)' <=> H!Configuring(u))
    BY <2>1 DEF H!TypeOK, H!Configuring
  <2>5. at'[H!FCGI] \in Changing <=> at[H!FCGI] \in Changing
    BY <2>1, <2>3, <2>4, Threads DEF Changing
  <2>6. ASSUME Settled', NEW u \in H!Thread, H!Configuring(u)'
        PROVE  /\ params'[u] = H!CallbackAddress
               /\ at'[u] = "answered" /\ result'[u] => Asked'
    <3>1. CASE u = t
      BY <2>3, <3>1
    <3>2. CASE u # t
      <4>1. H!Configuring(u) /\ Settled
        BY <2>1, <2>4, <2>5, <2>6, <3>2 DEF Settled
      <4> QED BY <2>1, <2>2, <2>4, <3>2, <4>1 DEF AsAsked
    <3> QED BY <3>1, <3>2
  <2>7. AsAsked'
    BY <2>2, <2>6 DEF AsAsked
  <2>8. H!FlagHonest'
    BY <2>3 DEF H!FlagHonest
  <2> QED BY <2>7, <2>8
<1>2. ASSUME NEW answered \in BOOLEAN, H!B100_Set_Params(t, answered)
      PROVE  AsAsked' /\ H!FlagHonest'
  <2>1. /\ at[t] = "setting" /\ at' = [at EXCEPT ![t] = "answered"]
        /\ result' = [result EXCEPT ![t] = H!Takes(t) /\ answered]
        /\ UNCHANGED <<b100_ip, callback_ip, g_callbacks_configured, params, raced>>
    BY <1>2 DEF H!B100_Set_Params, H!Goto, H!settings
  <2>2. H!CallbackAddress' = H!CallbackAddress /\ b100_ip \in Bridge
    BY <2>1 DEF H!CallbackAddress, H!TypeOK
  <2>3. at'[t] = "answered" /\ H!Configuring(t) /\ H!Configuring(t)'
        /\ (result'[t] => H!Takes(t))
    BY <2>1 DEF H!TypeOK, H!Configuring
  <2>4. \A u \in H!Thread \ {t} : at'[u] = at[u] /\ result'[u] = result[u]
                                  /\ (H!Configuring(u)' <=> H!Configuring(u))
    BY <2>1 DEF H!TypeOK, H!Configuring
  <2>5. Settled' <=> Settled
    BY <2>1, <2>3, <2>4, Threads DEF Settled, Changing
  <2>6. ASSUME Settled, H!Takes(t)
        PROVE  Asked'
    <3>1. params[t] = H!CallbackAddress
      BY <2>3, <2>6 DEF AsAsked
    <3>2. PICK calls \in H!Calls_Sent(t) :
            bridges' = [bridges EXCEPT ![b100_ip].api = TRUE, ![b100_ip].target = params[t],
                                       ![b100_ip].calls = calls,
                                       ![b100_ip].cut = (attempt[t] = "lan")]
      BY <1>2, <2>6 DEF H!B100_Set_Params
    <3>3. /\ bridges'[b100_ip].target = params[t] /\ bridges'[b100_ip].calls = calls
          /\ bridges'[b100_ip].cut = (attempt[t] = "lan")
      BY <2>2, <3>2 DEF H!TypeOK, H!BridgeState
    <3>4. attempt[t] = "lan" \/ calls = H!Callback
      BY <3>2 DEF H!Calls_Sent, H!TypeOK
    <3> QED BY <2>1, <2>2, <3>1, <3>3, <3>4 DEF Asked, H!Configured
  <2>7. ASSUME Settled, Asked
        PROVE  Asked'
    <3>1. CASE H!Takes(t)
      BY <2>6, <2>7, <3>1
    <3>2. CASE ~H!Takes(t)
      BY <1>2, <2>1, <2>2, <2>7, <3>2, AskedStays DEF H!B100_Set_Params
    <3> QED BY <3>1, <3>2
  <2>8. ASSUME Settled', NEW u \in H!Thread, H!Configuring(u)'
        PROVE  /\ params'[u] = H!CallbackAddress
               /\ at'[u] = "answered" /\ result'[u] => Asked'
    <3>1. CASE u = t
      BY <2>1, <2>3, <2>5, <2>6, <2>8, <3>1 DEF AsAsked
    <3>2. CASE u # t
      BY <2>1, <2>4, <2>5, <2>7, <2>8, <3>2 DEF AsAsked
    <3> QED BY <3>1, <3>2
  <2>9. AsAsked'
    BY <2>2, <2>8 DEF AsAsked
  <2>10. H!FlagHonest'
    BY <2>3 DEF H!FlagHonest
  <2> QED BY <2>9, <2>10
<1>3. CASE H!Configure_Fallback(t)
  <2>1. /\ at[t] = "answered" /\ at' = [at EXCEPT ![t] = "setting"]
        /\ UNCHANGED <<b100_ip, callback_ip, g_callbacks_configured, result, raced, bridges>>
    BY <1>3 DEF H!Configure_Fallback, H!Goto, H!settings
  <2>2. H!CallbackAddress' = H!CallbackAddress /\ (Asked' <=> Asked)
    BY <2>1 DEF H!CallbackAddress, Asked, H!Configured
  <2>3. PICK address \in {params[t], H!CallbackAddress} :
          params' = [params EXCEPT ![t] = address]
    BY <1>3 DEF H!Configure_Fallback
  <2>4. at'[t] = "setting" /\ H!Configuring(t) /\ H!Configuring(t)' /\ params'[t] = address
    BY <2>1, <2>3 DEF H!TypeOK, H!Configuring
  <2>5. \A u \in H!Thread \ {t} : at'[u] = at[u] /\ params'[u] = params[u]
                                  /\ (H!Configuring(u)' <=> H!Configuring(u))
    BY <2>1, <2>3 DEF H!TypeOK, H!Configuring
  <2>6. Settled' <=> Settled
    BY <2>1, <2>4, <2>5, Threads DEF Settled, Changing
  <2>7. ASSUME Settled', NEW u \in H!Thread, H!Configuring(u)'
        PROVE  /\ params'[u] = H!CallbackAddress
               /\ at'[u] = "answered" /\ result'[u] => Asked'
    <3>1. CASE u = t
      BY <2>3, <2>4, <2>6, <2>7, <3>1 DEF AsAsked
    <3>2. CASE u # t
      BY <2>1, <2>2, <2>5, <2>6, <2>7, <3>2 DEF AsAsked
    <3> QED BY <3>1, <3>2
  <2>8. AsAsked'
    BY <2>2, <2>7 DEF AsAsked
  <2>9. H!FlagHonest'
    BY <2>4 DEF H!FlagHonest
  <2> QED BY <2>8, <2>9
<1>4. CASE H!Configure_Answered(t)
  <2> DEFINE point == IF t = H!Health \/ H!Result(t) THEN "requesting" ELSE "idle"
  <2>1. /\ at[t] = "answered" /\ at' = [at EXCEPT ![t] = point]
        /\ g_callbacks_configured' = result[t]
        /\ params' = [params EXCEPT ![t] = NoAddress]
        /\ result' = [result EXCEPT ![t] = FALSE]
        /\ UNCHANGED <<b100_ip, callback_ip, bridges, raced>>
    BY <1>4 DEF H!Configure_Answered, H!Goto, H!settings, H!Result
  <2>2. H!CallbackAddress' = H!CallbackAddress /\ (Asked' <=> Asked)
    BY <2>1 DEF H!CallbackAddress, Asked, H!Configured
  <2>3. point \in {"requesting", "idle"}
    OBVIOUS
  <2> HIDE DEF point
  <2>4. at'[t] = point /\ H!Configuring(t) /\ ~H!Configuring(t)'
    BY <2>1, <2>3 DEF H!TypeOK, H!Configuring
  <2>5. \A u \in H!Thread \ {t} : at'[u] = at[u] /\ params'[u] = params[u]
          /\ result'[u] = result[u] /\ (H!Configuring(u)' <=> H!Configuring(u))
    BY <2>1 DEF H!TypeOK, H!Configuring
  <2>6. Settled' <=> Settled
    BY <2>1, <2>3, <2>4, <2>5, Threads DEF Settled, Changing
  <2>7. AsAsked'
    BY <2>1, <2>2, <2>4, <2>5, <2>6 DEF AsAsked
  <2>8. Settled /\ result[t] => Asked
    BY <2>1, <2>4 DEF AsAsked
  <2>9. H!FlagHonest'
    BY <2>1, <2>2, <2>6, <2>8, Zenon DEF H!FlagHonest, Settled, Changing, Asked
  <2> QED BY <2>7, <2>9
<1> QED BY <1>1, <1>2, <1>3, <1>4 DEF H!Configure_B100_Callbacks

\* The steps of a POST of settings, of any app.
NewSettings ==
  \/ H!Settings_IP \/ H!Settings_Address \/ H!Settings_Clear
  \/ H!Load_Bridge_Settings \/ H!Settings_Connection

LEMMA Settles ==
  ASSUME CallsInv, NewSettings
  PROVE  AsAsked' /\ H!FlagHonest'
<1>1. CASE H!Settings_IP \/ H!Settings_Address \/ H!Load_Bridge_Settings
  <2>1. at'[H!FCGI] \in Changing
    BY <1>1, Threads DEF H!Settings_IP, H!Settings_Address, H!Load_Bridge_Settings, H!Goto,
                            Changing, CallsInv, H!TypeOK
  <2> QED BY <2>1 DEF AsAsked, H!FlagHonest, Settled, Changing
<1>2. CASE H!Settings_Clear \/ H!Settings_Connection
  <2>1. /\ at' = [at EXCEPT ![H!FCGI] = "idle"]
        /\ ~raced' => ~g_callbacks_configured' /\ ~H!Configuring(H!Health)
    <3>1. CASE H!Settings_Clear
      BY <3>1, Zenon DEF H!Settings_Clear, H!Goto, H!Cleared
    <3>2. CASE H!Settings_Connection
      <4>1. /\ raced' = (g_callbacks_configured \/ H!Configuring(H!Health))
            /\ g_callbacks_configured' = g_callbacks_configured
            /\ at' = [at EXCEPT ![H!FCGI] = "idle"]
        BY <3>2, Zenon DEF H!Settings_Connection, H!Goto
      <4> QED BY <4>1, Zenon
    <3> QED BY <1>2, <3>1, <3>2
  <2>2. ~H!Configuring(H!FCGI)' /\ (H!Configuring(H!Health)' <=> H!Configuring(H!Health))
    BY <2>1, Threads DEF H!Configuring, CallsInv, H!TypeOK
  <2>3. \A t \in H!Thread : t = H!Health \/ t = H!FCGI
    BY DEF H!Thread
  <2>4. AsAsked'
    BY <2>1, <2>2, <2>3 DEF AsAsked, Settled
  <2>5. H!FlagHonest'
    BY <2>1 DEF H!FlagHonest
  <2> QED BY <2>4, <2>5
<1> QED BY <1>1, <1>2 DEF NewSettings

\* All other actions.
Others ==
  \/ H!Main_Test \/ H!Health_Fetch \/ H!Health_Unreachable \/ H!Health_Decide \/ H!Health_Request
  \/ H!FCGI_Request \/ H!HTTP_Endpoint_b100_request_status
  \/ H!HTTP_Endpoint_test \/ H!HTTP_Endpoint_b100_info
  \/ \E b \in Bridge : H!B100_Process_Status_Callback(b) \/ H!BridgeChanges(b)
  \/ H!BecomeStale

LEMMA NextSplit ==
  [H!Next]_(H!vars) => \/ Others \/ UNCHANGED H!vars
                 \/ \E t \in H!Thread : H!Configure_B100_Callbacks(t)
                 \/ NewSettings
BY Threads DEF H!Next, Others, NewSettings, H!Health_Monitor_Thread, H!FCGI_Thread

LEMMA AskedPasses ==
  ASSUME CallsInv, Others \/ UNCHANGED H!vars
  PROVE  Asked => Asked'
<1>1. b100_ip \in Bridge /\ bridges \in [Bridge -> H!BridgeState]
  BY DEF CallsInv, H!TypeOK
<1>2. UNCHANGED <<b100_ip, callback_ip>>
  BY DEF Others, H!Main_Test, H!Health_Fetch, H!Health_Unreachable, H!Health_Decide,
         H!Health_Request, H!FCGI_Request, H!HTTP_Endpoint_b100_request_status,
         H!HTTP_Endpoint_test, H!HTTP_Endpoint_b100_info, H!B100_Process_Status_Callback,
         H!BridgeChanges, H!BecomeStale, H!settings, H!vars
<1>3. CASE UNCHANGED bridges
  BY <1>1, <1>2, <1>3, AskedStays
<1>4. CASE H!B100_Request_Status
  BY <1>1, <1>2, <1>4, AskedStays DEF H!B100_Request_Status, H!BridgeState
<1>5. ASSUME NEW b \in Bridge, H!B100_Process_Status_Callback(b)
      PROVE  Asked => Asked'
  BY <1>1, <1>2, <1>5, AskedStays DEF H!B100_Process_Status_Callback, H!BridgeState
<1>6. ASSUME NEW b \in Bridge, H!BridgeChanges(b)
      PROVE  Asked => Asked'
  BY <1>1, <1>2, <1>6, AskedStays DEF H!BridgeChanges, H!BridgeState
<1>7. CASE H!Health_Request \/ H!FCGI_Request
  BY <1>3, <1>4, <1>7 DEF H!Health_Request, H!FCGI_Request
<1>8. CASE \/ H!Main_Test \/ H!Health_Fetch \/ H!Health_Unreachable \/ H!Health_Decide
           \/ H!HTTP_Endpoint_b100_request_status \/ H!HTTP_Endpoint_test
           \/ H!HTTP_Endpoint_b100_info \/ H!BecomeStale \/ UNCHANGED H!vars
  BY <1>3, <1>8
     DEF H!Main_Test, H!Health_Fetch, H!Health_Unreachable, H!Health_Decide,
         H!HTTP_Endpoint_b100_request_status, H!HTTP_Endpoint_test,
         H!HTTP_Endpoint_b100_info, H!BecomeStale, H!vars
<1> QED BY <1>5, <1>6, <1>7, <1>8 DEF Others

LEMMA Passes ==
  ASSUME CallsInv, Others \/ UNCHANGED H!vars
  PROVE  AsAsked' /\ H!FlagHonest'
<1>1. ASSUME NEW t \in H!Thread, NEW point, at[t] \notin Busy, point \notin Busy,
             H!Goto(t, point)
      PROVE  \A u \in H!Thread : at'[u] = at[u] \/ (at[u] \notin Busy /\ at'[u] \notin Busy)
  BY <1>1 DEF H!Goto, CallsInv, H!TypeOK
<1> USE Threads, AskedPasses DEF H!settings, H!call, flags
<1>2. CASE H!Main_Test
  <2>1. at[H!Health] \notin Busy
    BY <1>2 DEF H!Main_Test, Busy, Changing
  <2>2. "building" \notin Busy /\ "sleeping" \notin Busy
    BY DEF Busy, Changing
  <2> QED BY <1>1, <1>2, <2>1, <2>2, Aside DEF H!Main_Test, CallsInv
<1>3. CASE H!Health_Fetch \/ H!Health_Unreachable \/ H!Health_Decide \/ H!Health_Request
  <2>1. at[H!Health] \notin Busy
    BY <1>3
       DEF H!Health_Fetch, H!Health_Unreachable, H!Health_Decide, H!Health_Request, Busy, Changing
  <2>2. \E point \in {"deciding", "sleeping", "building", "requesting"} : H!Goto(H!Health, point)
    BY <1>3 DEF H!Health_Fetch, H!Health_Unreachable, H!Health_Decide, H!Health_Request
  <2>3. \A point \in {"deciding", "sleeping", "building", "requesting"} : point \notin Busy
    BY DEF Busy, Changing
  <2>4. UNCHANGED flags
    BY <1>3 DEF H!Health_Fetch, H!Health_Unreachable, H!Health_Decide, H!Health_Request
  <2> QED BY <1>1, <2>1, <2>2, <2>3, <2>4, Aside DEF CallsInv
<1>4. CASE H!FCGI_Request \/ H!HTTP_Endpoint_b100_request_status
  <2>1. at[H!FCGI] \notin Busy
    BY <1>4 DEF H!FCGI_Request, H!HTTP_Endpoint_b100_request_status, Busy, Changing
  <2>2. \E point \in {"idle", "building"} : H!Goto(H!FCGI, point)
    BY <1>4 DEF H!FCGI_Request, H!HTTP_Endpoint_b100_request_status
  <2>3. \A point \in {"idle", "building"} : point \notin Busy
    BY DEF Busy, Changing
  <2>4. UNCHANGED flags
    BY <1>4 DEF H!FCGI_Request, H!HTTP_Endpoint_b100_request_status
  <2> QED BY <1>1, <2>1, <2>2, <2>3, <2>4, Aside DEF CallsInv
<1>5. CASE UNCHANGED <<at, flags>>
  BY <1>5, Aside DEF CallsInv
<1>6. CASE H!HTTP_Endpoint_test \/ H!HTTP_Endpoint_b100_info \/ H!BecomeStale \/ UNCHANGED H!vars
  BY <1>5, <1>6 DEF H!HTTP_Endpoint_test, H!HTTP_Endpoint_b100_info, H!BecomeStale, H!vars
<1>7. ASSUME NEW b \in Bridge, H!B100_Process_Status_Callback(b) \/ H!BridgeChanges(b)
      PROVE  AsAsked' /\ H!FlagHonest'
  BY <1>5, <1>7 DEF H!B100_Process_Status_Callback, H!BridgeChanges
<1> QED BY <1>2, <1>3, <1>4, <1>6, <1>7 DEF Others

-----------------------------------------------------------------------------
CallPoints == {"idle", "address", "clear", "connection", "testing", "sleeping", "deciding",
               "building", "setting", "answered", "requesting"}

\* The types, part by part.
SettingsTyped ==
  /\ b100_ip \in Bridge /\ callback_ip \in Address \cup {NoAddress}
  /\ posts \in 0 .. MaxPosts
FlagsTyped ==
  /\ connected \in BOOLEAN /\ httpApiEnabled \in BOOLEAN
  /\ callback_failed \in BOOLEAN /\ callback_stale \in BOOLEAN
BridgesTyped == bridges \in [Bridge -> H!BridgeState] /\ outages \in 0 .. MaxOutages
CallsTyped ==
  /\ params \in [H!Thread -> Address \cup {NoAddress}]
  /\ \A t \in H!Thread : H!Configuring(t) => params[t] \in Address
  /\ attempt \in [H!Thread -> {"set", "lan"}] /\ result \in [H!Thread -> BOOLEAN]
HistoryTyped ==
  g_callbacks_configured \in BOOLEAN /\ raced \in BOOLEAN
Typed ==
  /\ SettingsTyped /\ FlagsTyped /\ snapshot \in H!StatusType /\ at \in [H!Thread -> CallPoints]
  /\ CallsTyped /\ BridgesTyped /\ HistoryTyped

LEMMA TypesSplit == H!TypeOK <=> Typed
BY DEF H!TypeOK, Typed, SettingsTyped, FlagsTyped, CallsTyped, BridgesTyped, HistoryTyped,
       CallPoints, H!Status, H!StatusType

\* A thread that goes to a point of its code is at one.
LEMMA GotoTyped ==
  ASSUME at \in [H!Thread -> CallPoints], NEW t \in H!Thread, NEW point \in CallPoints,
         H!Goto(t, point)
  PROVE  at' \in [H!Thread -> CallPoints]
BY DEF H!Goto

\* What a bridge keeps of a callback configuration.
LEMMA BridgeTyped ==
  ASSUME bridges \in [Bridge -> H!BridgeState], NEW b \in Bridge,
         NEW up \in BOOLEAN, NEW api \in BOOLEAN, NEW target \in Address \cup {NoAddress},
         NEW calls \in SUBSET H!Callback, NEW cut \in BOOLEAN, NEW owes \in BOOLEAN
  PROVE  /\ [bridges EXCEPT ![b].owes = owes] \in [Bridge -> H!BridgeState]
         /\ [bridges EXCEPT ![b].up = up] \in [Bridge -> H!BridgeState]
         /\ [bridges EXCEPT ![b].up = up, ![b].owes = owes] \in [Bridge -> H!BridgeState]
         /\ [bridges EXCEPT ![b].api = api, ![b].target = target, ![b].calls = calls,
                            ![b].cut = cut] \in [Bridge -> H!BridgeState]
<1> DEFINE Bridges == [Bridge -> H!BridgeState]
<1>1. ASSUME NEW f \in Bridges
      PROVE  /\ [f EXCEPT ![b].up = up] \in Bridges /\ [f EXCEPT ![b].owes = owes] \in Bridges
             /\ [f EXCEPT ![b].api = api] \in Bridges
  BY DEF H!BridgeState
<1>2. ASSUME NEW f \in Bridges
      PROVE  /\ [f EXCEPT ![b].target = target] \in Bridges
             /\ [f EXCEPT ![b].calls = calls] \in Bridges
             /\ [f EXCEPT ![b].cut = cut] \in Bridges
  BY DEF H!BridgeState
<1> DEFINE f1 == [bridges EXCEPT ![b].api = api]
           f2 == [f1 EXCEPT ![b].target = target]
           f3 == [f2 EXCEPT ![b].calls = calls]
<1>3. f3 \in Bridges
  <2>1. f1 \in Bridges
    BY <1>1
  <2> HIDE DEF f1
  <2>2. f2 \in Bridges
    BY <1>2, <2>1
  <2> HIDE DEF f2
  <2> QED BY <1>2, <2>2
<1>4. [f3 EXCEPT ![b].cut = cut] \in Bridges
  <2> HIDE DEF f3
  <2> QED BY <1>2, <1>3
<1>5. [bridges EXCEPT ![b].up = up, ![b].owes = owes] \in Bridges
  <2> DEFINE g == [bridges EXCEPT ![b].up = up]
  <2>1. g \in Bridges
    BY <1>1
  <2>2. [g EXCEPT ![b].owes = owes] \in Bridges
    <3> HIDE DEF g
    <3> QED BY <1>1, <2>1
  <2> QED BY <2>2
<1> HIDE DEF Bridges
<1> QED BY <1>1, <1>4, <1>5 DEF Bridges

LEMMA CurrentTyped ==
  ASSUME SettingsTyped, BridgesTyped
  PROVE  H!Current.up \in BOOLEAN /\ H!Current.api \in BOOLEAN
         /\ H!Current.takesSet \in BOOLEAN /\ H!Current.calls \in SUBSET H!Callback
         /\ H!CallbackFails(b100_ip) \in BOOLEAN
BY DEF SettingsTyped, BridgesTyped, H!Current, H!BridgeState, H!CallbackFails, H!Heard

LEMMA FetchTyped ==
  ASSUME SettingsTyped, BridgesTyped, FlagsTyped,
         H!B100_Fetch_Device_Info \/ H!B100_Test_Connection
  PROVE  FlagsTyped'
BY CurrentTyped DEF H!B100_Fetch_Device_Info, H!B100_Test_Connection, FlagsTyped, H!g_status

LEMMA RequestTyped ==
  ASSUME SettingsTyped, BridgesTyped, FlagsTyped, H!B100_Request_Status
  PROVE  FlagsTyped' /\ bridges' \in [Bridge -> H!BridgeState]
<1>1. FlagsTyped'
  BY CurrentTyped DEF H!B100_Request_Status, FlagsTyped
<1>2. [bridges EXCEPT ![b100_ip].owes = TRUE] \in [Bridge -> H!BridgeState]
  BY DEF SettingsTyped, BridgesTyped, H!BridgeState
<1> QED BY <1>1, <1>2 DEF H!B100_Request_Status, BridgesTyped

\* A thread that configures nothing leaves the types of the calls.
LEMMA CallsSame ==
  ASSUME CallsTyped, at \in [H!Thread -> CallPoints], NEW t \in H!Thread,
         NEW point \in CallPoints \ {"setting", "answered"}, H!Goto(t, point), UNCHANGED H!call
  PROVE  CallsTyped'
<1>1. \A u \in H!Thread : H!Configuring(u)' => H!Configuring(u)
  BY DEF H!Goto, H!Configuring
<1> QED BY <1>1 DEF CallsTyped, H!call

LEMMA CallsStill ==
  ASSUME CallsTyped, UNCHANGED <<at, H!call>>
  PROVE  CallsTyped'
BY DEF CallsTyped, H!Configuring, H!call

-----------------------------------------------------------------------------
\* The steps of a configuration keep the types.
LEMMA ConfiguresTyped ==
  ASSUME H!ConstantsAssumption, Typed, NEW t \in H!Thread, H!Configure_B100_Callbacks(t)
  PROVE  Typed'
<1> USE DEF Typed
<1>1. CASE H!B100_Configure_Callbacks(t)
  <2>1. /\ at' = [at EXCEPT ![t] = "setting"]
        /\ params' = [params EXCEPT ![t] = H!CallbackAddress]
        /\ raced' = (raced /\ \E u \in H!Thread \ {t} : H!Configuring(u))
        /\ UNCHANGED <<H!settings, g_callbacks_configured, H!g_status, snapshot, attempt, result,
                       bridges, posts, outages>>
    BY <1>1 DEF H!B100_Configure_Callbacks, H!Goto
  <2>2. H!CallbackAddress \in Address
    BY AddressTyped DEF SettingsTyped
  <2>3. at' \in [H!Thread -> CallPoints]
    BY <2>1 DEF CallPoints
  <2>4. CallsTyped'
    BY <2>1, <2>2 DEF CallsTyped, H!Configuring
  <2>5. HistoryTyped'
    BY <2>1 DEF HistoryTyped
  <2> QED BY <2>1, <2>3, <2>4, <2>5
          DEF SettingsTyped, FlagsTyped, BridgesTyped, H!settings, H!g_status
<1>2. ASSUME NEW answered \in BOOLEAN, H!B100_Set_Params(t, answered)
      PROVE  Typed'
  <2>1. /\ at[t] = "setting" /\ at' = [at EXCEPT ![t] = "answered"]
        /\ result' = [result EXCEPT ![t] = H!Takes(t) /\ answered]
        /\ UNCHANGED <<H!settings, g_callbacks_configured, H!g_status, snapshot, params, attempt,
                       posts, outages, raced>>
    BY <1>2 DEF H!B100_Set_Params, H!Goto
  <2>2. params[t] \in Address /\ b100_ip \in Bridge
    BY <2>1 DEF CallsTyped, H!Configuring, SettingsTyped
  <2>3. bridges' \in [Bridge -> H!BridgeState]
    <3>1. CASE ~H!Takes(t)
      BY <1>2, <3>1 DEF H!B100_Set_Params, BridgesTyped
    <3>2. CASE H!Takes(t)
      <4>1. PICK calls \in H!Calls_Sent(t) :
              bridges' = [bridges EXCEPT ![b100_ip].api = TRUE, ![b100_ip].target = params[t],
                                         ![b100_ip].calls = calls,
                                         ![b100_ip].cut = (attempt[t] = "lan")]
        BY <1>2, <3>2 DEF H!B100_Set_Params
      <4>2. calls \in SUBSET H!Callback /\ (attempt[t] = "lan") \in BOOLEAN
        BY CurrentTyped DEF H!Calls_Sent, H!Callback
      <4> QED BY <2>2, <4>1, <4>2, BridgeTyped DEF BridgesTyped
    <3> QED BY <3>1, <3>2
  <2>4. (H!Takes(t) /\ answered) \in BOOLEAN
    BY CurrentTyped DEF H!Takes
  <2>5. at' \in [H!Thread -> CallPoints]
    BY <2>1 DEF CallPoints
  <2>6. CallsTyped'
    BY <2>1, <2>2, <2>4 DEF CallsTyped, H!Configuring
  <2> QED BY <2>1, <2>3, <2>5, <2>6
          DEF SettingsTyped, FlagsTyped, BridgesTyped, HistoryTyped, H!settings, H!g_status
<1>3. CASE H!Configure_Fallback(t)
  <2>1. /\ at[t] = "answered" /\ at' = [at EXCEPT ![t] = "setting"]
        /\ attempt' = [attempt EXCEPT ![t] = "lan"]
        /\ UNCHANGED <<H!settings, g_callbacks_configured, H!g_status, snapshot, result,
                       bridges, posts, outages, raced>>
    BY <1>3 DEF H!Configure_Fallback, H!Goto
  <2>2. CallsTyped'
    <3>1. PICK address \in {params[t], H!CallbackAddress} :
            params' = [params EXCEPT ![t] = address]
      BY <1>3 DEF H!Configure_Fallback
    <3>2. address \in Address
      BY <2>1, <3>1, AddressTyped DEF CallsTyped, H!Configuring, SettingsTyped
    <3> QED BY <2>1, <3>1, <3>2 DEF CallsTyped, H!Configuring
  <2>3. at' \in [H!Thread -> CallPoints]
    BY <2>1 DEF CallPoints
  <2> QED BY <2>1, <2>2, <2>3
          DEF SettingsTyped, FlagsTyped, BridgesTyped, HistoryTyped, H!settings, H!g_status
<1>4. CASE H!Configure_Answered(t)
  <2> DEFINE point == IF t = H!Health \/ H!Result(t) THEN "requesting" ELSE "idle"
  <2>1. /\ at' = [at EXCEPT ![t] = point]
        /\ g_callbacks_configured' = result[t]
        /\ params' = [params EXCEPT ![t] = NoAddress]
        /\ attempt' = [attempt EXCEPT ![t] = "set"]
        /\ result' = [result EXCEPT ![t] = FALSE]
        /\ UNCHANGED <<H!settings, H!g_status, snapshot, bridges, posts, outages, raced>>
    BY <1>4 DEF H!Configure_Answered, H!Goto, H!Result
  <2>2. point \in {"requesting", "idle"}
    OBVIOUS
  <2> HIDE DEF point
  <2>3. CallsTyped'
    BY <2>1, <2>2 DEF CallsTyped, H!Configuring
  <2>4. at' \in [H!Thread -> CallPoints]
    BY <2>1, <2>2 DEF CallPoints
  <2>5. g_callbacks_configured' \in BOOLEAN
    BY <2>1 DEF CallsTyped
  <2> QED BY <2>1, <2>3, <2>4, <2>5
          DEF SettingsTyped, FlagsTyped, BridgesTyped, HistoryTyped, H!settings, H!g_status
<1> QED BY <1>1, <1>2, <1>3, <1>4 DEF H!Configure_B100_Callbacks

\* New settings keep the types.
LEMMA SettlesTyped ==
  ASSUME H!ConstantsAssumption, Typed, NewSettings
  PROVE  Typed'
<1> USE Threads
    DEF Typed, SettingsTyped, FlagsTyped, BridgesTyped, H!settings, H!g_status, CallPoints
<1>1. CASE H!Settings_IP
  <2>1. H!Goto(H!FCGI, "address") /\ UNCHANGED H!call /\ UNCHANGED HistoryTyped
    BY <1>1 DEF H!Settings_IP, HistoryTyped
  <2>2. CallsTyped' /\ at' \in [H!Thread -> CallPoints]
    BY <2>1, CallsSame, GotoTyped
  <2>3. posts' \in 0 .. MaxPosts
    BY <1>1 DEF H!Settings_IP, H!ConstantsAssumption
  <2> QED BY <1>1, <2>1, <2>2, <2>3 DEF H!Settings_IP
<1>2. CASE H!Settings_Address
  <2>1. H!Goto(H!FCGI, "clear") /\ UNCHANGED H!call /\ UNCHANGED HistoryTyped
    BY <1>2 DEF H!Settings_Address, HistoryTyped
  <2>2. CallsTyped' /\ at' \in [H!Thread -> CallPoints]
    BY <2>1, CallsSame, GotoTyped
  <2> QED BY <1>2, <2>1, <2>2 DEF H!Settings_Address
<1>3. CASE H!Settings_Clear
  <2>1. H!Goto(H!FCGI, "idle") /\ UNCHANGED H!call
    BY <1>3 DEF H!Settings_Clear
  <2>2. CallsTyped' /\ at' \in [H!Thread -> CallPoints]
    BY <2>1, CallsSame, GotoTyped
  <2>3. HistoryTyped'
    <3>1. g_callbacks_configured' \in BOOLEAN
      BY <1>3 DEF H!Settings_Clear, H!Cleared
    <3>2. raced' \in BOOLEAN
      BY <1>3 DEF H!Settings_Clear, H!Configuring
    <3> QED BY <3>1, <3>2 DEF HistoryTyped
  <2> QED BY <1>3, <2>2, <2>3 DEF H!Settings_Clear
<1>4. CASE H!Load_Bridge_Settings
  <2>1. H!Goto(H!FCGI, "connection") /\ UNCHANGED H!call
    BY <1>4 DEF H!Load_Bridge_Settings
  <2>2. CallsTyped' /\ at' \in [H!Thread -> CallPoints]
    BY <2>1, CallsSame, GotoTyped
  <2>3. posts' \in 0 .. MaxPosts
    BY <1>4 DEF H!Load_Bridge_Settings, H!ConstantsAssumption
  <2>4. HistoryTyped'
    BY <1>4 DEF H!Load_Bridge_Settings, H!Cleared, HistoryTyped
  <2> QED BY <1>4, <2>2, <2>3, <2>4 DEF H!Load_Bridge_Settings
<1>5. CASE H!Settings_Connection
  <2>1. H!Goto(H!FCGI, "idle") /\ UNCHANGED H!call
    BY <1>5 DEF H!Settings_Connection
  <2>2. CallsTyped' /\ at' \in [H!Thread -> CallPoints]
    BY <2>1, CallsSame, GotoTyped
  <2>3. HistoryTyped'
    BY <1>5 DEF H!Settings_Connection, HistoryTyped, H!Configuring
  <2> QED BY <1>5, <2>2, <2>3 DEF H!Settings_Connection
<1> QED BY <1>1, <1>2, <1>3, <1>4, <1>5 DEF NewSettings

\* So do all other actions.
LEMMA PassesTyped ==
  ASSUME H!ConstantsAssumption, Typed, Others \/ UNCHANGED H!vars
  PROVE  Typed'
<1> USE Threads DEF Typed
<1>1. ASSUME UNCHANGED <<H!settings, posts, H!call, g_callbacks_configured, raced>>,
             FlagsTyped', BridgesTyped', snapshot' \in H!StatusType,
             \/ UNCHANGED at
             \/ \E t \in H!Thread, point \in CallPoints \ {"setting", "answered"} : H!Goto(t,
               point)
      PROVE  Typed'
  <2>1. SettingsTyped' /\ HistoryTyped'
    BY <1>1 DEF SettingsTyped, HistoryTyped, H!settings
  <2>2. CallsTyped' /\ at' \in [H!Thread -> CallPoints]
    BY <1>1, CallsSame, CallsStill, GotoTyped
  <2> QED BY <1>1, <2>1, <2>2
<1>2. \A point \in {"sleeping", "building", "deciding", "requesting", "idle"} :
        point \in CallPoints \ {"setting", "answered"}
  BY DEF CallPoints
<1>3. H!NoStatus \in H!StatusType
  BY DEF H!NoStatus, H!StatusType
<1>4. CASE H!Main_Test
  BY <1>1, <1>2, <1>4, FetchTyped DEF H!Main_Test, BridgesTyped
<1>5. CASE H!Health_Fetch
  <2>1. FlagsTyped'
    BY <1>5, FetchTyped DEF H!Health_Fetch
  <2>2. snapshot' \in H!StatusType
    BY <1>5, <2>1 DEF H!Health_Fetch, FlagsTyped, H!Status, H!StatusType
  <2> QED BY <1>1, <1>2, <1>5, <2>1, <2>2 DEF H!Health_Fetch, BridgesTyped
<1>6. CASE H!Health_Unreachable \/ H!Health_Decide
  BY <1>1, <1>2, <1>3, <1>6
     DEF H!Health_Unreachable, H!Health_Decide, FlagsTyped, BridgesTyped, H!g_status
<1>7. CASE H!Health_Request
  <2>1. FlagsTyped' /\ bridges' \in [Bridge -> H!BridgeState]
    BY <1>7, RequestTyped DEF H!Health_Request, FlagsTyped, BridgesTyped, H!g_status
  <2> QED BY <1>1, <1>2, <1>7, <2>1 DEF H!Health_Request, BridgesTyped
<1>8. CASE H!FCGI_Request
  <2>1. FlagsTyped' /\ bridges' \in [Bridge -> H!BridgeState]
    BY <1>8, RequestTyped DEF H!FCGI_Request
  <2> QED BY <1>1, <1>2, <1>8, <2>1 DEF H!FCGI_Request, BridgesTyped
<1>9. CASE H!HTTP_Endpoint_b100_request_status
  <2>1. /\ H!Goto(H!FCGI, "building") /\ posts' \in 0 .. MaxPosts
        /\ UNCHANGED <<b100_ip, callback_ip, H!call, g_callbacks_configured, raced,
                       H!g_status, snapshot, bridges, outages>>
    BY <1>9 DEF H!HTTP_Endpoint_b100_request_status, SettingsTyped, H!settings,
                H!ConstantsAssumption
  <2>2. CallsTyped' /\ at' \in [H!Thread -> CallPoints]
    BY <1>2, <2>1, CallsSame, GotoTyped
  <2> QED BY <2>1, <2>2
          DEF SettingsTyped, FlagsTyped, BridgesTyped, HistoryTyped, H!g_status
<1>10. CASE H!HTTP_Endpoint_test \/ H!HTTP_Endpoint_b100_info
  BY <1>1, <1>10, FetchTyped DEF H!HTTP_Endpoint_test, H!HTTP_Endpoint_b100_info, BridgesTyped
<1>11. ASSUME NEW b \in Bridge, H!B100_Process_Status_Callback(b)
       PROVE  Typed'
  <2>1. bridges' \in [Bridge -> H!BridgeState]
    BY <1>11, BridgeTyped DEF H!B100_Process_Status_Callback, BridgesTyped
  <2>2. FlagsTyped'
    BY <1>11 DEF H!B100_Process_Status_Callback, FlagsTyped
  <2> QED BY <1>1, <1>11, <2>1, <2>2 DEF H!B100_Process_Status_Callback, BridgesTyped
<1>12. ASSUME NEW b \in Bridge, H!BridgeChanges(b)
       PROVE  Typed'
  <2>1. bridges' \in [Bridge -> H!BridgeState]
    <3>1. /\ [bridges EXCEPT ![b].up = FALSE, ![b].owes = FALSE] \in [Bridge -> H!BridgeState]
          /\ [bridges EXCEPT ![b].up = TRUE] \in [Bridge -> H!BridgeState]
      BY BridgeTyped DEF BridgesTyped
    <3>2. [bridges EXCEPT ![b].api = FALSE, ![b].target = NoAddress, ![b].calls = {},
                         ![b].cut = FALSE] \in [Bridge -> H!BridgeState]
      BY BridgeTyped DEF BridgesTyped
    <3> QED BY <1>12, <3>1, <3>2 DEF H!BridgeChanges
  <2>2. outages' \in 0 .. MaxOutages
    BY <1>12 DEF H!BridgeChanges, BridgesTyped, H!ConstantsAssumption
  <2>3. BridgesTyped'
    BY <2>1, <2>2 DEF BridgesTyped
  <2>4. /\ UNCHANGED <<H!settings, posts, H!call, g_callbacks_configured, raced>>
        /\ UNCHANGED <<connected, httpApiEnabled, callback_failed, callback_stale, snapshot, at>>
    BY <1>12 DEF H!BridgeChanges, H!g_status
  <2>5. FlagsTyped'
    BY <2>4 DEF FlagsTyped
  <2> QED BY <1>1, <2>3, <2>4, <2>5
<1>13. CASE H!BecomeStale
  BY <1>1, <1>13 DEF H!BecomeStale, BridgesTyped, FlagsTyped
<1>14. CASE UNCHANGED H!vars
  BY <1>1, <1>14 DEF H!vars, BridgesTyped, FlagsTyped, H!g_status
<1> QED BY <1>4, <1>5, <1>6, <1>7, <1>8, <1>9, <1>10, <1>11, <1>12, <1>13, <1>14 DEF Others

-----------------------------------------------------------------------------
\* No action breaks the invariant.
LEMMA CallsInductive ==
  ASSUME H!ConstantsAssumption, CallsInv, [H!Next]_(H!vars)
  PROVE  CallsInv'
<1>1. Typed
  BY TypesSplit DEF CallsInv
<1>2. Typed'
  BY <1>1, NextSplit, ConfiguresTyped, SettlesTyped, PassesTyped
<1>3. AsAsked' /\ H!FlagHonest'
  BY NextSplit, Configures, Settles, Passes
<1>4. H!TypeOK' <=> Typed'
  BY DEF H!TypeOK, Typed, SettingsTyped, FlagsTyped, CallsTyped, BridgesTyped, HistoryTyped,
         CallPoints, H!Status, H!StatusType
<1> QED BY <1>2, <1>3, <1>4 DEF CallsInv

\* main() starts with no callbacks configured and nothing under way.
LEMMA CallsInitial ==
  ASSUME H!ConstantsAssumption, H!Init
  PROVE  CallsInv
<1>1. /\ g_callbacks_configured = FALSE /\ \A t \in H!Thread : ~H!Configuring(t)
      /\ at \in [H!Thread -> CallPoints]
  BY DEF H!Init, H!Configuring, CallPoints
<1>2. AsAsked /\ H!FlagHonest
  BY <1>1 DEF AsAsked, H!FlagHonest
<1>3. SettingsTyped /\ BridgesTyped
  BY DEF H!ConstantsAssumption, H!Init, H!Found, SettingsTyped, BridgesTyped
<1>4. FlagsTyped
  BY DEF H!Init, FlagsTyped
<1>5. snapshot \in H!StatusType
  BY DEF H!Init, H!NoStatus, H!StatusType
<1>6. CallsTyped
  BY <1>1 DEF H!Init, CallsTyped
<1>7. raced \in BOOLEAN
  BY DEF H!Init
<1>8. g_callbacks_configured \in BOOLEAN
  BY <1>1
<1> QED BY <1>1, <1>2, <1>3, <1>4, <1>5, <1>6, <1>7, <1>8, TypesSplit
        DEF CallsInv, Typed, HistoryTyped

\* g_callbacks_configured says what it seems to (FlagHonest) however the two threads'
\* configurations, settings, outages and resets of bridges interleave, except where a
\* POST raced with a request, and the state keeps its types.
THEOREM FlagKept ==
  ASSUME H!ConstantsAssumption
  PROVE  H!Spec => []ConfiguredHonest
<1>1. H!Init => CallsInv
  BY CallsInitial
<1>2. CallsInv /\ [H!Next]_(H!vars) => CallsInv'
  BY CallsInductive
<1>3. CallsInv => ConfiguredHonest
  BY DEF CallsInv, ConfiguredHonest, H!ConfiguredHonest
<1> QED BY <1>1, <1>2, <1>3, PTL DEF H!Spec
=============================================================================
