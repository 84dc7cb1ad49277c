--------------------------- MODULE OtaQueueProofs ---------------------------
(***************************************************************************)
(* Proofs about the OTA response queue and the queue of deferred bridge    *)
(* configurations, for any capacity and number of downlinks: nothing       *)
(* overtakes in either, and neither grows beyond its bound, whatever is    *)
(* refused, retried or queued while the bridge is asked.                   *)
(***************************************************************************)
EXTENDS OtaQueue, SequenceTheorems, FiniteSetTheorems, TLAPS

\* Where the publish thread holds a response, and where it has not been accepted.
Holding == {"send", "restart", "retry"}

\* A response that is put back finds room for one.
Bounded ==
  /\ Len(responses) <= OTA_RESPONSE_QUEUE_MAX + 1
  /\ pc \in Holding => Len(responses) <= OTA_RESPONSE_QUEUE_MAX

\* What is applied came before what is being applied, and that before what waits.
Increasing(ids) == \A i, j \in DOMAIN ids : i < j => ids[i] < ids[j]
ConfigsOrdered ==
  /\ Increasing(configs)
  /\ \A i \in DOMAIN configs : configs[i] <= Len(requests)
  /\ setting # <<>> =>
       /\ setting[1] <= Len(requests)
       /\ \A i \in DOMAIN configs : setting[1] < configs[i]
  /\ \A i \in DOMAIN applied :
       /\ applied[i].id <= Len(requests)
       /\ \A j \in DOMAIN configs : applied[i].id < configs[j]
       /\ pc = "set_params" => applied[i].id < setting[1]
  /\ AppliedInOrder

IInv == TypeOK /\ Bounded /\ AcceptedInOrder /\ ConfigsOrdered

-----------------------------------------------------------------------------
\* The ids of a sequence of responses.
LEMMA IdsSeq ==
  ASSUME NEW s \in Seq(Response)
  PROVE  Ids(s) \in Seq(Id) /\ Len(Ids(s)) = Len(s) /\ \A i \in 1 .. Len(s) : Ids(s)[i] = s[i].id
<1>1. DOMAIN s = 1 .. Len(s) /\ Len(s) \in Nat /\ \A i \in 1 .. Len(s) : s[i] \in Response
  BY LenProperties, ElementOfSeq
<1>2. Ids(s) = [i \in 1 .. Len(s) |-> s[i].id]
  BY <1>1 DEF Ids
<1>3. Ids(s) \in [1 .. Len(s) -> Id]
  BY <1>1, <1>2 DEF Response
<1>4. Ids(s) \in Seq(Id)
  BY <1>1, <1>3, SeqDef
<1>5. Len(Ids(s)) = Len(s)
  BY <1>1, <1>2, <1>4, LenProperties
<1> QED BY <1>2, <1>4, <1>5

LEMMA IdsAppend ==
  ASSUME NEW s \in Seq(Response), NEW r \in Response
  PROVE  Ids(Append(s, r)) = Append(Ids(s), r.id)
<1>1. Append(s, r) \in Seq(Response) /\ Len(Append(s, r)) = Len(s) + 1
      /\ \A i \in 1 .. Len(s) : Append(s, r)[i] = s[i]
      /\ Append(s, r)[Len(s) + 1] = r
  BY AppendProperties
<1>2. Ids(s) \in Seq(Id) /\ r.id \in Id /\ Len(Ids(s)) = Len(s)
      /\ \A i \in 1 .. Len(s) : Ids(s)[i] = s[i].id
  BY IdsSeq DEF Response
<1>3. Append(Ids(s), r.id) \in Seq(Id) /\ Len(Append(Ids(s), r.id)) = Len(s) + 1
      /\ \A i \in 1 .. Len(s) : Append(Ids(s), r.id)[i] = Ids(s)[i]
      /\ Append(Ids(s), r.id)[Len(s) + 1] = r.id
  BY <1>2, AppendProperties
<1>4. Ids(Append(s, r)) \in Seq(Id) /\ Len(Ids(Append(s, r))) = Len(s) + 1
      /\ \A i \in 1 .. Len(s) + 1 : Ids(Append(s, r))[i] = Append(s, r)[i].id
  BY <1>1, IdsSeq
<1>5. \A i \in 1 .. Len(s) + 1 : Ids(Append(s, r))[i] = Append(Ids(s), r.id)[i]
  <2>1. TAKE i \in 1 .. Len(s) + 1
  <2>2. Len(s) \in Nat
    BY LenProperties
  <2>3. CASE i \in 1 .. Len(s)
    BY <1>1, <1>2, <1>3, <1>4, <2>3
  <2>4. CASE i = Len(s) + 1
    BY <1>1, <1>3, <1>4, <2>4
  <2>5. i \in 1 .. Len(s) \/ i = Len(s) + 1
    BY <2>2
  <2> QED BY <2>3, <2>4, <2>5
<1> QED BY <1>3, <1>4, <1>5, SeqEqual

\* The oldest of them first.
LEMMA IdsSplit ==
  ASSUME NEW s \in Seq(Response), s # <<>>
  PROVE  /\ Head(s) \in Response /\ Tail(s) \in Seq(Response)
         /\ Ids(s) = <<Head(s).id>> \o Ids(Tail(s))
<1>1. Head(s) \in Response /\ Tail(s) \in Seq(Response) /\ Len(Tail(s)) = Len(s) - 1
      /\ \A i \in 1 .. Len(Tail(s)) : Tail(s)[i] = s[i + 1]
  BY HeadTailProperties
<1>2. Len(s) \in Nat \ {0} /\ Head(s) = s[1]
  BY EmptySeq
<1>3. Ids(s) \in Seq(Id) /\ Len(Ids(s)) = Len(s) /\ \A i \in 1 .. Len(s) : Ids(s)[i] = s[i].id
  BY IdsSeq
<1>4. Ids(Tail(s)) \in Seq(Id) /\ Len(Ids(Tail(s))) = Len(s) - 1
      /\ \A i \in 1 .. Len(s) - 1 : Ids(Tail(s))[i] = s[i + 1].id
  BY <1>1, IdsSeq
<1>5. <<Head(s).id>> \in Seq(Id) /\ Len(<<Head(s).id>>) = 1 /\ <<Head(s).id>>[1] = s[1].id
  BY <1>1, <1>2 DEF Response
<1> DEFINE t == <<Head(s).id>> \o Ids(Tail(s))
<1>6. t \in Seq(Id) /\ Len(t) = Len(s)
      /\ \A i \in 1 .. Len(s) : t[i] = IF i <= 1 THEN <<Head(s).id>>[i] ELSE Ids(Tail(s))[i - 1]
  <2>1. t \in Seq(Id) /\ Len(t) = Len(<<Head(s).id>>) + Len(Ids(Tail(s)))
        /\ \A i \in 1 .. Len(<<Head(s).id>>) + Len(Ids(Tail(s))) :
             t[i] = IF i <= Len(<<Head(s).id>>) THEN <<Head(s).id>>[i]
                    ELSE Ids(Tail(s))[i - Len(<<Head(s).id>>)]
    BY <1>4, <1>5, ConcatProperties
  <2> QED BY <1>2, <1>4, <1>5, <2>1
<1> HIDE DEF t
<1>7. \A i \in 1 .. Len(s) : Ids(s)[i] = t[i]
  <2>1. TAKE i \in 1 .. Len(s)
  <2>2. CASE i = 1
    BY <1>3, <1>5, <1>6, <2>2
  <2>3. CASE i # 1
    <3>1. i - 1 \in 1 .. Len(s) - 1 /\ i - 1 + 1 = i
      BY <1>2, <2>3
    <3> QED BY <1>3, <1>4, <1>6, <2>3, <3>1
  <2> QED BY <2>2, <2>3
<1>8. Ids(s) = t
  BY <1>3, <1>6, <1>7, SeqEqual
<1> QED BY <1>1, <1>8 DEF t

\* One put in front of them.
LEMMA IdsFront ==
  ASSUME NEW s \in Seq(Response), NEW r \in Response
  PROVE  /\ <<r>> \o s \in Seq(Response) /\ Len(<<r>> \o s) = Len(s) + 1
         /\ Ids(<<r>> \o s) = <<r.id>> \o Ids(s)
<1> DEFINE t == <<r>> \o s
<1>1. <<r>> \in Seq(Response) /\ Len(<<r>>) = 1 /\ <<r>>[1] = r /\ Len(s) \in Nat
  BY LenProperties
<1>2. t \in Seq(Response) /\ Len(t) = Len(<<r>>) + Len(s)
      /\ \A i \in 1 .. Len(<<r>>) + Len(s) :
           t[i] = IF i <= Len(<<r>>) THEN <<r>>[i] ELSE s[i - Len(<<r>>)]
  BY <1>1, ConcatProperties
<1>3. Len(t) = Len(s) + 1 /\ t[1] = r /\ \A i \in 1 .. Len(s) : t[i + 1] = s[i]
  <2>1. Len(t) = Len(s) + 1
    BY <1>1, <1>2
  <2>2. t[1] = r
    BY <1>1, <1>2
  <2>3. ASSUME NEW i \in 1 .. Len(s)
        PROVE  t[i + 1] = s[i]
    <3>1. i + 1 \in 1 .. Len(<<r>>) + Len(s) /\ ~(i + 1 <= Len(<<r>>)) /\ i + 1 - Len(<<r>>) = i
      BY <1>1
    <3> QED BY <1>2, <3>1
  <2> QED BY <2>1, <2>2, <2>3
<1> HIDE DEF t
<1>4. t # <<>>
  BY <1>1, <1>3, EmptySeq
<1>5. Head(t) = r
  BY <1>3, <1>4
<1>6. Tail(t) \in Seq(Response) /\ Len(Tail(t)) = Len(s)
      /\ \A i \in 1 .. Len(s) : Tail(t)[i] = s[i]
  BY <1>1, <1>2, <1>3, <1>4, HeadTailProperties
<1>7. Tail(t) = s
  BY <1>6, SeqEqual
<1>8. Ids(t) = <<r.id>> \o Ids(s)
  BY <1>2, <1>4, <1>5, <1>7, IdsSplit
<1> QED BY <1>2, <1>3, <1>8 DEF t

\* The oldest may be tried again.
LEMMA IdsDue ==
  ASSUME NEW s \in Seq(Response), s # <<>>
  PROVE  LET t == [s EXCEPT ![1].waiting = FALSE]
         IN  t \in Seq(Response) /\ Len(t) = Len(s) /\ Ids(t) = Ids(s)
<1> DEFINE e == [s[1] EXCEPT !.waiting = FALSE]
           t == [s EXCEPT ![1] = e]
<1>1. Len(s) \in Nat \ {0} /\ 1 \in 1 .. Len(s) /\ s[1] \in Response
  BY EmptySeq, ElementOfSeq
<1>2. e \in Response /\ e.id = s[1].id
  BY <1>1 DEF Response
<1>3. t = [s EXCEPT ![1].waiting = FALSE]
  BY <1>1
<1> HIDE DEF e
<1>4. t \in Seq(Response) /\ Len(t) = Len(s)
      /\ \A j \in 1 .. Len(s) : t[j] = IF j = 1 THEN e ELSE s[j]
  BY <1>1, <1>2, ExceptSeq
<1> HIDE DEF t
<1>5. Ids(s) \in Seq(Id) /\ Len(Ids(s)) = Len(s) /\ \A i \in 1 .. Len(s) : Ids(s)[i] = s[i].id
  BY IdsSeq
<1>6. Ids(t) \in Seq(Id) /\ Len(Ids(t)) = Len(t) /\ \A i \in 1 .. Len(t) : Ids(t)[i] = t[i].id
  BY <1>4, IdsSeq
<1>7. Ids(t) = Ids(s)
  BY <1>2, <1>4, <1>5, <1>6, SeqEqual
<1> QED BY <1>3, <1>4, <1>7

-----------------------------------------------------------------------------
\* The responses not accepted yet, as a function of where they are.
Waiting(p, held, s) == (IF p \in {"send", "retry"} THEN Ids(held) ELSE <<>>) \o Ids(s)
Held == {<<>>} \cup {<<r>> : r \in Response}

LEMMA WaitingIs ==
  ASSUME NEW p, NEW held \in Held, NEW s \in Seq(Response), p \in {"send", "retry"} => held # <<>>
  PROVE  /\ p \notin {"send", "retry"} => Waiting(p, held, s) = Ids(s)
         /\ p \in {"send", "retry"} =>
              /\ held[1].id \in Id /\ <<held[1].id>> \in Seq(Id)
              /\ Waiting(p, held, s) = <<held[1].id>> \o Ids(s)
         /\ Waiting(p, held, s) \in Seq(Id)
         /\ Len(Waiting(p, held, s)) = Len(s) + IF p \in {"send", "retry"} THEN 1 ELSE 0
<1>1. Ids(s) \in Seq(Id) /\ Len(Ids(s)) = Len(s) /\ Len(s) \in Nat
  BY IdsSeq, LenProperties
<1>2. CASE p \notin {"send", "retry"}
  <2>1. Waiting(p, held, s) = Ids(s)
    BY <1>1, <1>2, ConcatEmptySeq DEF Waiting
  <2> QED BY <1>1, <1>2, <2>1
<1>3. CASE p \in {"send", "retry"}
  <2>1. PICK r \in Response : held = <<r>>
    BY <1>3 DEF Held
  <2>2. held \in Seq(Response) /\ Len(held) = 1 /\ held[1] = r
    BY <2>1
  <2>3. Ids(held) \in Seq(Id) /\ Len(Ids(held)) = 1 /\ Ids(held)[1] = r.id
    BY <2>2, IdsSeq
  <2>4. r.id \in Id /\ <<r.id>> \in Seq(Id) /\ Len(<<r.id>>) = 1 /\ <<r.id>>[1] = r.id
    BY DEF Response
  <2>5. Ids(held) = <<r.id>>
    BY <2>3, <2>4, SeqEqual
  <2>6. Waiting(p, held, s) = <<r.id>> \o Ids(s)
    BY <1>3, <2>5 DEF Waiting
  <2>7. <<r.id>> \o Ids(s) \in Seq(Id) /\ Len(<<r.id>> \o Ids(s)) = 1 + Len(s)
    BY <1>1, <2>4, ConcatProperties
  <2> QED BY <1>1, <1>3, <2>2, <2>4, <2>6, <2>7
<1> QED BY <1>2, <1>3

-----------------------------------------------------------------------------
(***************************************************************************)
(* The responses.                                                          *)
(***************************************************************************)
Unaccepted == {"send", "retry"}

\* The part of the invariant that is about responses.
ResponsesTyped ==
  /\ responses \in Seq(Response) /\ popped \in Held
  /\ popped # <<>> <=> pc \in Holding
  /\ queued \in Seq(Id) /\ accepted \in Seq(Id) /\ restarted \in Seq(Id)
  /\ dropped \subseteq Id
ResponsesSound == ResponsesTyped /\ Bounded /\ queued = accepted \o Waiting(pc, popped, responses)

LEMMA Associative == \A s, t, u \in Seq(Id) : (s \o t) \o u = s \o (t \o u)
BY ConcatAssociative

\* One more waits at the end.
LEMMA WaitingMore ==
  ASSUME NEW a \in Seq(Id), NEW p, NEW held \in Held, NEW s \in Seq(Response),
         NEW r \in Response
  PROVE  Append(a \o Waiting(p, held, s), r.id) = a \o Waiting(p, held, Append(s, r))
<1> DEFINE h == IF p \in {"send", "retry"} THEN Ids(held) ELSE <<>>
<1>1. h \in Seq(Id) /\ Ids(s) \in Seq(Id) /\ r.id \in Id /\ <<r.id>> \in Seq(Id)
  <2>1. <<>> \in Seq(Response) /\ \A q \in Response : <<q>> \in Seq(Response)
    BY EmptySeq
  <2>2. held \in Seq(Response)
    BY <2>1 DEF Held
  <2>3. r.id \in Id
    BY DEF Response
  <2> QED BY <2>2, <2>3, IdsSeq, EmptySeq
<1>2. Waiting(p, held, s) = h \o Ids(s) /\ Waiting(p, held, Append(s, r)) = h \o Ids(Append(s, r))
  BY DEF Waiting
<1> HIDE DEF h
<1>3. h \o Ids(s) \in Seq(Id) /\ a \o (h \o Ids(s)) \in Seq(Id)
  BY <1>1, ConcatProperties
<1>4. Append(a \o (h \o Ids(s)), r.id) = (a \o (h \o Ids(s))) \o <<r.id>>
  BY <1>1, <1>3, AppendIsConcat
<1>5. (a \o (h \o Ids(s))) \o <<r.id>> = a \o ((h \o Ids(s)) \o <<r.id>>)
  BY <1>1, <1>3, Associative, Zenon
<1>6. (h \o Ids(s)) \o <<r.id>> = h \o (Ids(s) \o <<r.id>>)
  BY <1>1, Associative, Zenon
<1>7. Ids(Append(s, r)) = Ids(s) \o <<r.id>>
  BY <1>1, IdsAppend, AppendIsConcat
<1> QED BY <1>2, <1>4, <1>5, <1>6, <1>7, Zenon

LEMMA Capacity ==
  ASSUME ConstantsAssumption
  PROVE  OTA_RESPONSE_QUEUE_MAX \in Nat \ {0} /\ MaxRequests \in Nat
BY DEF ConstantsAssumption

\* A response that is queued goes to the end, if there is room.
LEMMA QueueSound ==
  ASSUME ConstantsAssumption, ResponsesSound, NEW r \in Response, Queue_OTA_Frame(r),
         UNCHANGED <<popped, accepted, restarted>>,
         pc' = pc \/ (pc \notin Holding /\ pc' \notin Holding)
  PROVE  ResponsesSound'
<1> USE DEF ResponsesSound, ResponsesTyped
<1>1. CASE Full(responses)
  <2>1. UNCHANGED <<responses, queued>> /\ dropped' \subseteq Id
    BY <1>1 DEF Queue_OTA_Frame, Response
  <2>2. Waiting(pc', popped', responses') = Waiting(pc, popped, responses)
    BY <2>1 DEF Waiting, Holding
  <2> QED BY <2>1, <2>2 DEF Bounded
<1>2. CASE ~Full(responses)
  <2>1. responses' = Append(responses, r) /\ queued' = Append(queued, r.id) /\ UNCHANGED dropped
    BY <1>2 DEF Queue_OTA_Frame
  <2>2. responses' \in Seq(Response) /\ Len(responses') = Len(responses) + 1
    BY <2>1, AppendProperties
  <2>3. Len(responses) \in Nat /\ Len(responses) < OTA_RESPONSE_QUEUE_MAX
    BY <1>2, Capacity, LenProperties DEF Full
  <2>4. Bounded'
    BY <2>2, <2>3, Capacity DEF Bounded
  <2>5. r.id \in Id /\ queued' \in Seq(Id)
    BY <2>1, AppendProperties DEF Response
  <2>6. Waiting(pc', popped', responses') = Waiting(pc, popped, responses')
    BY DEF Waiting, Holding
  <2>7. queued' = accepted \o Waiting(pc, popped, responses')
    <3>1. accepted \in Seq(Id) /\ popped \in Held /\ responses \in Seq(Response)
      OBVIOUS
    <3>2. queued' = Append(accepted \o Waiting(pc, popped, responses), r.id)
      BY <2>1, Zenon
    <3> HIDE DEF ResponsesSound, ResponsesTyped
    <3>3. Append(accepted \o Waiting(pc, popped, responses), r.id) =
            accepted \o Waiting(pc, popped, Append(responses, r))
      BY <3>1, WaitingMore, Zenon
    <3> QED BY <2>1, <3>2, <3>3, Zenon
  <2> QED BY <2>1, <2>2, <2>4, <2>5, <2>6, <2>7 DEF Holding
<1> QED BY <1>1, <1>2

\* What is about to be done elsewhere leaves the responses where they are.
LEMMA ResponsesStay ==
  ASSUME ResponsesSound, UNCHANGED <<responses, popped, queued, accepted, restarted, dropped>>,
         pc' = pc \/ (pc \notin Holding /\ pc' \notin Holding)
  PROVE  ResponsesSound'
<1>1. Waiting(pc', popped', responses') = Waiting(pc, popped, responses)
  BY DEF Waiting, Holding
<1> QED BY <1>1 DEF ResponsesSound, ResponsesTyped, Bounded, Holding

\* The drain of the responses keeps their order, whether one is accepted or not.
LEMMA DrainSound ==
  ASSUME ConstantsAssumption, ResponsesSound,
         \/ Response_Pop \/ \E success \in BOOLEAN : B100_Send_Bytes(success)
         \/ B100_Restart \/ Response_Put_Back \/ RetryTimeReached
  PROVE  ResponsesSound'
<1> USE DEF ResponsesSound, ResponsesTyped
<1>0. Len(responses) \in Nat
  BY LenProperties
<1>1. CASE Response_Pop /\ ~HeadIsDue
  BY <1>1, ResponsesStay DEF Response_Pop, history, Holding
<1>2. CASE Response_Pop /\ HeadIsDue
  <2>1. /\ pc = "responses" /\ pc' = "send" /\ responses # <<>>
        /\ popped' = <<Head(responses)>> /\ responses' = Tail(responses)
        /\ UNCHANGED <<queued, accepted, restarted, dropped>>
    BY <1>2 DEF Response_Pop, HeadIsDue, history
  <2>2. /\ Head(responses) \in Response /\ responses' \in Seq(Response)
        /\ Ids(responses) = <<Head(responses).id>> \o Ids(responses')
        /\ Len(responses') = Len(responses) - 1
    BY <2>1, IdsSplit, HeadTailProperties
  <2>3. popped' \in Held /\ popped' # <<>> /\ popped'[1] = Head(responses)
    BY <2>1, <2>2 DEF Held
  <2>4. Waiting(pc, popped, responses) = Ids(responses)
    BY <2>1, WaitingIs
  <2>5. Waiting(pc', popped', responses') = Ids(responses)
    BY <2>1, <2>2, <2>3, WaitingIs
  <2>6. Bounded'
    BY <1>0, <2>1, <2>2, Capacity DEF Bounded
  <2> QED BY <2>1, <2>2, <2>3, <2>4, <2>5, <2>6 DEF Holding
<1>3. ASSUME NEW success \in BOOLEAN, B100_Send_Bytes(success)
      PROVE  ResponsesSound'
  <2>1. /\ pc = "send" /\ popped # <<>>
        /\ UNCHANGED <<responses, queued, restarted, dropped>>
    BY <1>3 DEF B100_Send_Bytes, queues, Holding
  <2>2. /\ popped[1].id \in Id /\ <<popped[1].id>> \in Seq(Id) /\ Ids(responses) \in Seq(Id)
        /\ Waiting(pc, popped, responses) = <<popped[1].id>> \o Ids(responses)
    BY <2>1, WaitingIs, IdsSeq
  <2>3. CASE success
    <3>1. /\ accepted' = Append(accepted, popped[1].id)
          /\ \/ pc' = "restart" /\ UNCHANGED popped
             \/ pc' = "configs" /\ popped' = <<>>
      BY <1>3, <2>3 DEF B100_Send_Bytes, AfterSend
    <3>2. accepted' = accepted \o <<popped[1].id>> /\ accepted' \in Seq(Id)
      BY <2>2, <3>1, AppendIsConcat, AppendProperties
    <3>3. queued = accepted' \o Ids(responses)
      <4>1. (accepted \o <<popped[1].id>>) \o Ids(responses) =
              accepted \o (<<popped[1].id>> \o Ids(responses))
        BY <2>2, Associative, Zenon
      <4>2. queued = accepted \o (<<popped[1].id>> \o Ids(responses))
        BY <2>2
      <4> QED BY <3>2, <4>1, <4>2, Zenon
    <3>4. popped' \in Held
      BY <3>1 DEF Held
    <3>5. Waiting(pc', popped', responses') = Ids(responses)
      BY <2>1, <3>1, <3>4, WaitingIs
    <3> QED BY <2>1, <3>1, <3>2, <3>3, <3>4, <3>5 DEF Bounded, Holding
  <2>4. CASE ~success
    <3>1. pc' = "retry" /\ UNCHANGED <<popped, accepted>>
      BY <1>3, <2>4 DEF B100_Send_Bytes, AfterSend
    <3>2. Waiting(pc', popped', responses') = Waiting(pc, popped, responses)
      BY <2>1, <3>1 DEF Waiting
    <3> QED BY <2>1, <3>1, <3>2 DEF Bounded, Holding
  <2> QED BY <2>3, <2>4
<1>4. CASE B100_Restart
  <2>1. /\ pc = "restart" /\ pc' = "configs" /\ popped' = <<>>
        /\ restarted' = Append(restarted, popped[1].id)
        /\ UNCHANGED <<responses, queued, accepted, dropped>>
    BY <1>4 DEF B100_Restart, queues
  <2>2. popped[1].id \in Id
    BY <2>1 DEF Held, Holding, Response
  <2>3. popped' \in Held /\ restarted' \in Seq(Id)
    BY <2>1, <2>2, AppendProperties DEF Held
  <2>4. Waiting(pc', popped', responses') = Waiting(pc, popped, responses)
    BY <2>1 DEF Waiting
  <2> QED BY <2>1, <2>3, <2>4 DEF Bounded, Holding
<1>5. CASE Response_Put_Back
  <2> DEFINE q == [popped[1] EXCEPT !.waiting = TRUE]
  <2>1. /\ pc = "retry" /\ pc' = "configs" /\ popped # <<>> /\ popped' = <<>>
        /\ responses' = <<q>> \o responses
        /\ UNCHANGED <<queued, accepted, restarted, dropped>>
    BY <1>5 DEF Response_Put_Back, PutBack, history, Holding
  <2>2. q \in Response /\ q.id = popped[1].id
    <3>1. popped[1] \in Response
      BY <2>1 DEF Held
    <3> QED BY <3>1 DEF Response
  <2> HIDE DEF q
  <2>3. /\ responses' \in Seq(Response) /\ Len(responses') = Len(responses) + 1
        /\ Ids(responses') = <<popped[1].id>> \o Ids(responses)
    BY <2>1, <2>2, IdsFront
  <2>4. popped' \in Held
    BY <2>1 DEF Held
  <2>5. Waiting(pc, popped, responses) = <<popped[1].id>> \o Ids(responses)
    BY <2>1, WaitingIs
  <2>6. Waiting(pc', popped', responses') = Ids(responses')
    BY <2>1, <2>3, <2>4, WaitingIs
  <2>7. Bounded'
    BY <1>0, <2>1, <2>3, Capacity DEF Bounded, Holding
  <2> QED BY <2>1, <2>3, <2>4, <2>5, <2>6, <2>7 DEF Holding
<1>6. CASE RetryTimeReached
  <2>1. /\ responses # <<>> /\ responses' = [responses EXCEPT ![1].waiting = FALSE]
        /\ UNCHANGED <<pc, popped, queued, accepted, restarted, dropped>>
    BY <1>6 DEF RetryTimeReached, thread, history
  <2>2. responses' \in Seq(Response) /\ Len(responses') = Len(responses)
        /\ Ids(responses') = Ids(responses)
    BY <2>1, IdsDue
  <2>3. Waiting(pc', popped', responses') = Waiting(pc, popped, responses)
    BY <2>1, <2>2 DEF Waiting
  <2> QED BY <2>1, <2>2, <2>3 DEF Bounded
<1> QED BY <1>1, <1>2, <1>3, <1>4, <1>5, <1>6

-----------------------------------------------------------------------------
(***************************************************************************)
(* The deferred configurations.                                            *)
(***************************************************************************)
Points == {"configs", "set_params", "ack", "responses", "send", "restart", "retry"}
Applied == [id : Id, ok : BOOLEAN]

ConfigsTyped ==
  /\ configs \in Seq(Id) /\ Len(configs) <= OTA_RESPONSE_QUEUE_MAX
  /\ setting \in {<<>>} \cup {<<i>> : i \in Id}
  /\ setting # <<>> <=> pc \in {"set_params", "ack"}
  /\ pc \in Points /\ status \in BOOLEAN
  /\ requests \in Seq(Kind) /\ Len(requests) <= MaxRequests
  /\ applied \in Seq(Applied)
ConfigsSound == ConfigsTyped /\ ConfigsOrdered

LEMMA Indices ==
  ASSUME ConfigsTyped
  PROVE  /\ Len(requests) \in Nat /\ Len(configs) \in Nat /\ Len(applied) \in Nat
         /\ DOMAIN configs = 1 .. Len(configs) /\ DOMAIN applied = 1 .. Len(applied)
         /\ \A i \in DOMAIN configs : configs[i] \in Int
         /\ \A i \in DOMAIN applied : applied[i].id \in Int
<1>1. Id \subseteq Int
  BY DEF Id
<1>2. \A i \in 1 .. Len(applied) : applied[i] \in Applied
  BY ElementOfSeq DEF ConfigsTyped
<1>3. /\ Len(requests) \in Nat /\ Len(configs) \in Nat /\ Len(applied) \in Nat
      /\ DOMAIN configs = 1 .. Len(configs) /\ DOMAIN applied = 1 .. Len(applied)
  BY LenProperties DEF ConfigsTyped
<1>4. \A i \in 1 .. Len(configs) : configs[i] \in Int
  BY <1>1, ElementOfSeq DEF ConfigsTyped
<1>5. \A i \in 1 .. Len(applied) : applied[i].id \in Int
  BY <1>1, <1>2 DEF Applied
<1> QED BY <1>3, <1>4, <1>5

\* One more request, and nothing else for the configurations.
LEMMA RequestSound ==
  ASSUME ConstantsAssumption, ConfigsSound, NEW kind \in Kind, Handle(kind), UNCHANGED configs
  PROVE  ConfigsSound'
<1>1. /\ requests' = Append(requests, kind) /\ Len(requests) < MaxRequests
      /\ UNCHANGED <<pc, setting, status, applied, configs>>
  BY DEF Handle, thread
<1>2. requests' \in Seq(Kind) /\ Len(requests') = Len(requests) + 1
  BY <1>1, AppendProperties DEF ConfigsSound, ConfigsTyped
<1>3. Len(requests) \in Nat
  BY Indices DEF ConfigsSound
<1>4. Len(requests') <= MaxRequests
  BY <1>1, <1>2, <1>3, Capacity
<1>5. ConfigsOrdered'
  <2>1. \A n \in Int : n <= Len(requests) => n <= Len(requests')
    BY <1>2, <1>3
  <2>2. setting # <<>> => setting[1] \in Int
    BY DEF ConfigsSound, ConfigsTyped, Id
  <2> QED BY <1>1, <2>1, <2>2, Indices DEF ConfigsSound, ConfigsOrdered, AppliedInOrder, Increasing
<1> QED BY <1>1, <1>2, <1>4, <1>5 DEF ConfigsSound, ConfigsTyped

\* A configuration that is queued is the newest.
LEMMA ConfigQueued ==
  ASSUME ConstantsAssumption, ConfigsSound, Handle("bridge_set"), ~Full(configs),
         configs' = WithConfig(Len(requests'))
  PROVE  ConfigsSound'
<1> DEFINE n == Len(requests) + 1
<1>1. /\ requests' = Append(requests, "bridge_set") /\ Len(requests) < MaxRequests
      /\ UNCHANGED <<pc, setting, status, applied>>
  BY DEF Handle, thread
<1>2. requests' \in Seq(Kind) /\ Len(requests') = n
  BY <1>1, AppendProperties DEF ConfigsSound, ConfigsTyped, Kind
<1>3. Len(requests) \in Nat /\ n \in Id /\ n <= MaxRequests
  <2>1. Len(requests) \in Nat
    BY Indices DEF ConfigsSound
  <2> QED BY <1>1, <2>1, Capacity DEF Id
<1>4. configs' = Append(configs, n)
  BY <1>2 DEF WithConfig
<1>5. /\ configs' \in Seq(Id) /\ Len(configs') = Len(configs) + 1
      /\ \A i \in 1 .. Len(configs) : configs'[i] = configs[i]
      /\ configs'[Len(configs) + 1] = n
  BY <1>3, <1>4, AppendProperties DEF ConfigsSound, ConfigsTyped
<1>6. Len(configs) \in Nat /\ DOMAIN configs = 1 .. Len(configs)
      /\ DOMAIN configs' = 1 .. Len(configs) + 1
  BY <1>5, Indices, LenProperties DEF ConfigsSound
<1>7. Len(configs') <= OTA_RESPONSE_QUEUE_MAX
  BY <1>5, <1>6, Capacity DEF Full
<1>8. ConfigsTyped'
  BY <1>1, <1>2, <1>3, <1>5, <1>7 DEF ConfigsSound, ConfigsTyped
<1> HIDE DEF n
<1>9. ASSUME NEW i \in DOMAIN configs'
      PROVE  \/ i \in DOMAIN configs /\ configs'[i] = configs[i]
             \/ i = Len(configs) + 1 /\ configs'[i] = n
  BY <1>5, <1>6
<1>10. \A m \in Int : m <= Len(requests) => m < n /\ m <= n
  BY <1>3 DEF n
<1>11. \A i \in DOMAIN configs : configs[i] \in Int /\ configs[i] <= Len(requests)
  BY Indices DEF ConfigsSound, ConfigsOrdered
<1>12. Increasing(configs')
  <2>1. SUFFICES ASSUME NEW i \in DOMAIN configs', NEW j \in DOMAIN configs', i < j
                 PROVE  configs'[i] < configs'[j]
    BY DEF Increasing
  <2>2. i \in DOMAIN configs /\ configs'[i] = configs[i]
    BY <1>6, <1>5, <2>1
  <2> QED BY <1>9, <1>10, <1>11, <2>1, <2>2 DEF ConfigsSound, ConfigsOrdered, Increasing
<1>13. \A i \in DOMAIN configs' : configs'[i] <= n
  BY <1>3, <1>9, <1>10, <1>11 DEF Id
<1>14. ASSUME setting # <<>>
       PROVE  setting[1] <= n /\ \A i \in DOMAIN configs' : setting[1] < configs'[i]
  <2>1. setting[1] \in Int /\ setting[1] <= Len(requests)
    BY <1>14 DEF ConfigsSound, ConfigsTyped, ConfigsOrdered, Id
  <2> QED BY <1>9, <1>10, <1>14, <2>1 DEF ConfigsSound, ConfigsOrdered
<1>15. ASSUME NEW i \in DOMAIN applied
       PROVE  applied[i].id <= n /\ \A j \in DOMAIN configs' : applied[i].id < configs'[j]
  <2>1. applied[i].id \in Int /\ applied[i].id <= Len(requests)
    BY Indices DEF ConfigsSound, ConfigsOrdered
  <2> QED BY <1>9, <1>10, <2>1 DEF ConfigsSound, ConfigsOrdered
<1>16. ConfigsOrdered'
  BY <1>1, <1>2, <1>12, <1>13, <1>14, <1>15 DEF ConfigsSound, ConfigsOrdered, AppliedInOrder, n
<1> QED BY <1>8, <1>16 DEF ConfigsSound

\* The oldest is popped to be applied: after what was applied, before what waits.
LEMMA ConfigPopped ==
  ASSUME ConstantsAssumption, ConfigsSound, Config_Pop, configs # <<>>
  PROVE  ConfigsSound'
<1>1. /\ pc = "configs" /\ pc' = "set_params" /\ setting' = <<Head(configs)>>
      /\ configs' = Tail(configs) /\ UNCHANGED <<status, requests, applied>>
  BY DEF Config_Pop, RestOfConfigs, history
<1>2. /\ Head(configs) \in Id /\ configs' \in Seq(Id) /\ Len(configs') = Len(configs) - 1
      /\ \A i \in 1 .. Len(configs') : configs'[i] = configs[i + 1]
  BY <1>1, HeadTailProperties DEF ConfigsSound, ConfigsTyped
<1>3. Len(configs) \in Nat /\ DOMAIN configs = 1 .. Len(configs)
      /\ DOMAIN configs' = 1 .. Len(configs) - 1 /\ Len(configs) # 0
  BY <1>2, Indices, LenProperties, EmptySeq DEF ConfigsSound, ConfigsTyped
<1>4. Head(configs) = configs[1] /\ 1 \in DOMAIN configs
  BY <1>3
<1>5. Len(configs') <= OTA_RESPONSE_QUEUE_MAX
  BY <1>2, <1>3, Capacity DEF ConfigsSound, ConfigsTyped
<1>6. setting' # <<>> /\ setting'[1] = configs[1]
  BY <1>1, <1>4
<1>7. ConfigsTyped'
  BY <1>1, <1>2, <1>5, <1>6 DEF ConfigsSound, ConfigsTyped, Points
<1>8. \A i \in DOMAIN configs' : i + 1 \in DOMAIN configs /\ 1 < i + 1 /\ configs'[i] = configs[i + 1]
  BY <1>2, <1>3
<1>9. Increasing(configs')
  <2>1. SUFFICES ASSUME NEW i \in DOMAIN configs', NEW j \in DOMAIN configs', i < j
                 PROVE  configs'[i] < configs'[j]
    BY DEF Increasing
  <2>2. i + 1 < j + 1
    BY <1>3, <2>1
  <2> QED BY <1>8, <2>2 DEF ConfigsSound, ConfigsOrdered, Increasing
<1>10. \A i \in DOMAIN configs' : configs'[i] <= Len(requests) /\ configs[1] < configs'[i]
  BY <1>4, <1>8 DEF ConfigsSound, ConfigsOrdered, Increasing
<1>11. configs[1] <= Len(requests)
  BY <1>4 DEF ConfigsSound, ConfigsOrdered
<1>12. ASSUME NEW i \in DOMAIN applied
       PROVE  /\ applied[i].id <= Len(requests) /\ applied[i].id < configs[1]
              /\ \A j \in DOMAIN configs' : applied[i].id < configs'[j]
  BY <1>4, <1>8 DEF ConfigsSound, ConfigsOrdered
<1>13. ConfigsOrdered'
  BY <1>1, <1>6, <1>9, <1>10, <1>11, <1>12 DEF ConfigsSound, ConfigsOrdered, AppliedInOrder
<1> QED BY <1>7, <1>13 DEF ConfigsSound

\* It is applied after all that were.
LEMMA ConfigApplied ==
  ASSUME ConfigsSound, NEW ok \in BOOLEAN, B100_Set_Params(ok)
  PROVE  ConfigsSound'
<1> DEFINE e == [id |-> setting[1], ok |-> ok]
<1>1. /\ pc = "set_params" /\ pc' = "ack" /\ status' = ok /\ applied' = Append(applied, e)
      /\ UNCHANGED <<configs, setting, requests>>
  BY DEF B100_Set_Params, queues
<1>2. setting # <<>> /\ setting[1] \in Id /\ setting[1] \in Int
  BY <1>1 DEF ConfigsSound, ConfigsTyped, Id
<1>3. e \in Applied /\ e.id = setting[1]
  BY <1>2 DEF Applied
<1> HIDE DEF e
<1>4. /\ applied' \in Seq(Applied) /\ Len(applied') = Len(applied) + 1
      /\ \A i \in 1 .. Len(applied) : applied'[i] = applied[i]
      /\ applied'[Len(applied) + 1] = e
  BY <1>1, <1>3, AppendProperties DEF ConfigsSound, ConfigsTyped
<1>5. /\ Len(applied) \in Nat /\ DOMAIN applied = 1 .. Len(applied)
      /\ DOMAIN applied' = 1 .. Len(applied) + 1
  BY <1>4, Indices, LenProperties DEF ConfigsSound
<1>6. ConfigsTyped'
  BY <1>1, <1>4 DEF ConfigsSound, ConfigsTyped, Points
<1>7. ASSUME NEW i \in DOMAIN applied'
      PROVE  \/ i \in DOMAIN applied /\ applied'[i] = applied[i]
             \/ i = Len(applied) + 1 /\ applied'[i] = e
  BY <1>4, <1>5
<1>8. ASSUME NEW i \in DOMAIN applied'
      PROVE  /\ applied'[i].id <= Len(requests)
             /\ \A j \in DOMAIN configs : applied'[i].id < configs[j]
  BY <1>2, <1>3, <1>7 DEF ConfigsSound, ConfigsOrdered
<1>9. AppliedInOrder'
  <2>1. SUFFICES ASSUME NEW i \in DOMAIN applied', NEW j \in DOMAIN applied', i < j
                 PROVE  applied'[i].id < applied'[j].id
    BY DEF AppliedInOrder
  <2>2. i \in DOMAIN applied /\ applied'[i] = applied[i]
    BY <1>4, <1>5, <2>1
  <2>3. CASE j \in DOMAIN applied
    <3>1. applied'[j] = applied[j]
      BY <1>4, <1>5, <2>3
    <3> QED BY <2>1, <2>2, <2>3, <3>1 DEF ConfigsSound, ConfigsOrdered, AppliedInOrder
  <2>4. CASE j \notin DOMAIN applied
    <3>1. applied'[j].id = setting[1]
      BY <1>3, <1>7, <2>4
    <3> QED BY <1>1, <2>2, <3>1 DEF ConfigsSound, ConfigsOrdered
  <2> QED BY <2>3, <2>4
<1>10. ConfigsOrdered'
  BY <1>1, <1>8, <1>9 DEF ConfigsSound, ConfigsOrdered
<1> QED BY <1>6, <1>10 DEF ConfigsSound

\* What the thread does elsewhere leaves the configurations where they are.
LEMMA ConfigsStay ==
  ASSUME ConfigsSound, UNCHANGED <<configs, requests, applied, status>>,
         \/ UNCHANGED <<pc, setting>>
         \/ /\ pc' \in Points \ {"set_params", "ack"}
            /\ setting' = <<>>
  PROVE  ConfigsSound'
<1>1. CASE UNCHANGED <<pc, setting>>
  BY <1>1 DEF ConfigsSound, ConfigsTyped, ConfigsOrdered, Increasing, AppliedInOrder
<1>2. CASE pc' \in Points \ {"set_params", "ack"} /\ setting' = <<>>
  <2>1. ConfigsTyped'
    BY <1>2 DEF ConfigsSound, ConfigsTyped
  <2>2. ConfigsOrdered'
    BY <1>2 DEF ConfigsSound, ConfigsOrdered, Increasing, AppliedInOrder
  <2> QED BY <2>1, <2>2 DEF ConfigsSound
<1> QED BY <1>1, <1>2

-----------------------------------------------------------------------------
(***************************************************************************)
(* Both queues.                                                            *)
(***************************************************************************)
LEMMA Parts == IInv <=> ResponsesSound /\ ConfigsSound
<1>1. TypeOK <=> ResponsesTyped /\ ConfigsTyped
  BY DEF TypeOK, ResponsesTyped, ConfigsTyped, Held, Holding, Points, Applied
<1>2. Outstanding = Waiting(pc, popped, responses)
  BY DEF Outstanding, Waiting
<1> QED BY <1>1, <1>2 DEF IInv, ResponsesSound, ConfigsSound, AcceptedInOrder

LEMMA PartsThen == IInv' <=> ResponsesSound' /\ ConfigsSound'
BY Parts, PTL

LEMMA Initial ==
  ASSUME ConstantsAssumption, Init
  PROVE  IInv
<1> USE DEF Init
<1>1. ResponsesTyped
  BY EmptySeq DEF ResponsesTyped, Held, Holding
<1>2. Waiting(pc, popped, responses) = <<>>
  <2>1. Len(responses) = 0 /\ pc \notin {"send", "retry"}
    BY EmptySeq
  <2>2. popped \in Held /\ responses \in Seq(Response)
    BY EmptySeq DEF Held
  <2> HIDE DEF Init
  <2>3. /\ Waiting(pc, popped, responses) = Ids(responses)
        /\ Waiting(pc, popped, responses) \in Seq(Id)
    BY <2>1, <2>2, WaitingIs
  <2>4. Len(Ids(responses)) = 0
    BY <2>1, <2>2, IdsSeq
  <2> QED BY <2>3, <2>4, EmptySeq
<1>3. queued = accepted \o Waiting(pc, popped, responses)
  BY <1>2, EmptySeq, ConcatEmptySeq
<1>4. Bounded
  BY Capacity, EmptySeq DEF Bounded
<1>5. ConfigsTyped
  BY Capacity, EmptySeq DEF ConfigsTyped, Points
<1>6. ConfigsOrdered
  <2>1. DOMAIN configs = {} /\ DOMAIN applied = {}
    BY EmptySeq
  <2> QED BY <2>1 DEF ConfigsOrdered, Increasing, AppliedInOrder
<1> QED BY <1>1, <1>3, <1>4, <1>5, <1>6, Parts DEF ResponsesSound, ConfigsSound

\* A new response names the request just handled, or one handled before.
LEMMA NewResponseTyped ==
  ASSUME NEW id \in Id, NEW ok \in BOOLEAN, NEW restart \in BOOLEAN
  PROVE  NewResponse(id, ok, restart) \in Response
BY DEF NewResponse, Response

LEMMA HandleIs ==
  ASSUME ConstantsAssumption, ConfigsTyped, NEW kind \in Kind, Handle(kind)
  PROVE  Len(requests') \in Id /\ UNCHANGED <<pc, popped, setting, status, accepted, applied, restarted>>
<1>1. requests' = Append(requests, kind) /\ Len(requests) < MaxRequests
  BY DEF Handle
<1>2. Len(requests') = Len(requests) + 1 /\ Len(requests) \in Nat
  BY <1>1, AppendProperties, LenProperties DEF ConfigsTyped
<1>3. Len(requests') \in Id
  BY <1>1, <1>2, Capacity DEF Id
<1> QED BY <1>3 DEF Handle, thread

LEMMA Inductive ==
  ASSUME ConstantsAssumption, IInv, [Next]_vars
  PROVE  IInv'
<1>0. ResponsesSound /\ ConfigsSound /\ ResponsesTyped /\ ConfigsTyped
  BY Parts DEF ResponsesSound, ConfigsSound
<1>1. CASE Handle_OTA_Reply
  <2>1. Handle("reply") /\ "reply" \in Kind /\ UNCHANGED configs
        /\ Queue_OTA_Frame(NewResponse(Len(requests'), TRUE, FALSE))
    BY <1>1 DEF Handle_OTA_Reply, Kind
  <2>2. ConfigsSound'
    BY <1>0, <2>1, RequestSound
  <2>3. ResponsesSound'
    BY <1>0, <2>1, HandleIs, NewResponseTyped, QueueSound
  <2> QED BY <2>2, <2>3, PartsThen
<1>2. CASE Handle_Action_OTA_Restart
  <2>1. Handle("restart") /\ "restart" \in Kind /\ UNCHANGED configs
        /\ Queue_OTA_Frame(NewResponse(Len(requests'), TRUE, TRUE))
    BY <1>2 DEF Handle_Action_OTA_Restart, Kind
  <2>2. ConfigsSound'
    BY <1>0, <2>1, RequestSound
  <2>3. ResponsesSound'
    BY <1>0, <2>1, HandleIs, NewResponseTyped, QueueSound
  <2> QED BY <2>2, <2>3, PartsThen
<1>3. CASE Handle_Bridge_Config_OTA_Set
  <2>1. Handle("bridge_set") /\ "bridge_set" \in Kind
    BY <1>3 DEF Handle_Bridge_Config_OTA_Set, Kind
  <2>2. CASE /\ ~Full(configs) /\ configs' = WithConfig(Len(requests'))
             /\ UNCHANGED <<responses, queued, dropped>>
    <3>1. ConfigsSound'
      BY <1>0, <2>1, <2>2, ConfigQueued
    <3>2. ResponsesSound'
      BY <1>0, <2>1, <2>2, HandleIs, ResponsesStay
    <3> QED BY <3>1, <3>2, PartsThen
  <2>3. CASE Queue_OTA_Frame(NewResponse(Len(requests'), FALSE, FALSE)) /\ UNCHANGED configs
    <3>1. ConfigsSound'
      BY <1>0, <2>1, <2>3, RequestSound
    <3>2. ResponsesSound'
      BY <1>0, <2>1, <2>3, HandleIs, NewResponseTyped, QueueSound
    <3> QED BY <3>1, <3>2, PartsThen
  <2> QED BY <1>3, <2>2, <2>3 DEF Handle_Bridge_Config_OTA_Set
<1>4. CASE Config_Pop
  <2>1. ResponsesSound'
    BY <1>0, <1>4, ResponsesStay DEF Config_Pop, history, Holding
  <2>2. CASE configs # <<>>
    BY <1>0, <1>4, <2>1, <2>2, ConfigPopped, PartsThen
  <2>3. CASE configs = <<>>
    <3>1. pc = "configs" /\ pc' = "responses" /\ UNCHANGED <<configs, setting, status, requests, applied>>
      BY <1>4, <2>3 DEF Config_Pop, history
    <3>2. setting' = <<>>
      BY <1>0, <3>1 DEF ConfigsTyped
    <3> QED BY <1>0, <2>1, <3>1, <3>2, ConfigsStay, PartsThen DEF Points
  <2> QED BY <2>2, <2>3
<1>5. ASSUME NEW ok \in BOOLEAN, B100_Set_Params(ok)
      PROVE  IInv'
  <2>1. ResponsesSound'
    BY <1>0, <1>5, ResponsesStay DEF B100_Set_Params, queues, Holding
  <2> QED BY <1>0, <1>5, <2>1, ConfigApplied, PartsThen
<1>6. CASE Config_Ack
  <2>1. /\ pc = "ack" /\ pc' = "responses" /\ setting' = <<>>
        /\ Queue_OTA_Frame(NewResponse(setting[1], status, FALSE))
        /\ UNCHANGED <<configs, popped, status, requests, accepted, applied, restarted>>
    BY <1>6 DEF Config_Ack, AckStatus
  <2>2. setting[1] \in Id /\ status \in BOOLEAN
    BY <1>0, <2>1 DEF ConfigsTyped
  <2>3. ResponsesSound'
    BY <1>0, <2>1, <2>2, NewResponseTyped, QueueSound DEF Holding
  <2>4. ConfigsSound'
    BY <1>0, <2>1, ConfigsStay DEF Points
  <2> QED BY <2>3, <2>4, PartsThen
<1>7. CASE \/ Response_Pop \/ \E success \in BOOLEAN : B100_Send_Bytes(success)
           \/ B100_Restart \/ Response_Put_Back \/ RetryTimeReached
  <2>1. ResponsesSound'
    BY <1>0, <1>7, DrainSound
  <2>2. UNCHANGED <<configs, setting, status, requests, applied>>
    BY <1>7 DEF Response_Pop, B100_Send_Bytes, B100_Restart, Response_Put_Back,
                RetryTimeReached, queues, thread, history
  <2>3. \/ pc' = pc
        \/ /\ pc \in {"responses", "send", "restart", "retry"}
           /\ pc' \in {"configs", "send", "restart", "retry"}
    BY <1>7 DEF Response_Pop, B100_Send_Bytes, B100_Restart, Response_Put_Back,
                RetryTimeReached, thread, AfterSend
  <2>4. pc' = pc \/ (pc' \in Points \ {"set_params", "ack"} /\ setting' = <<>>)
    BY <1>0, <2>2, <2>3 DEF ConfigsTyped, Points
  <2>5. ConfigsSound'
    BY <1>0, <2>2, <2>4, ConfigsStay
  <2> QED BY <2>1, <2>5, PartsThen
<1>8. CASE UNCHANGED vars
  <2>1. UNCHANGED <<responses, configs, pc, popped, setting, status, requests, queued,
                    accepted, dropped, applied, restarted>>
    BY <1>8 DEF vars, queues, thread, history
  <2> QED BY <1>0, <2>1, ResponsesStay, ConfigsStay, PartsThen
<1> QED BY <1>1, <1>2, <1>3, <1>4, <1>5, <1>6, <1>7, <1>8 DEF Next, Drain

\* Both queues keep their types, their bounds and their order: whatever is queued,
\* refused, retried or answered, responses are accepted in the order they were queued
\* and configurations applied in the order they arrived (main.c:640-766).
THEOREM QueuesKept ==
  ASSUME ConstantsAssumption
  PROVE  Spec => [](TypeOK /\ QueuesInOrder)
<1>1. Init => IInv
  BY Initial
<1>2. IInv /\ [Next]_vars => IInv'
  BY Inductive
<1>3. IInv => TypeOK /\ QueuesInOrder
  <2>1. SUFFICES ASSUME IInv
                 PROVE  TypeOK /\ QueuesInOrder
    OBVIOUS
  <2>2. ResponsesSound
    BY <2>1, Parts
  <2>3. Outstanding = Waiting(pc, popped, responses)
    BY DEF Outstanding, Waiting
  <2>4. Len(responses) \in Nat
    BY <2>2, LenProperties DEF ResponsesSound, ResponsesTyped
  <2>5. /\ Len(Waiting(pc, popped, responses)) =
             Len(responses) + IF pc \in {"send", "retry"} THEN 1 ELSE 0
    BY <2>2, WaitingIs DEF ResponsesSound, ResponsesTyped, Holding
  <2>6. QueueBounded
    BY <2>2, <2>3, <2>4, <2>5, Capacity DEF ResponsesSound, Bounded, QueueBounded, Holding
  <2> QED BY <2>1, <2>6 DEF IInv, ConfigsOrdered, QueuesInOrder
<1> QED BY <1>1, <1>2, <1>3, PTL DEF Spec

-----------------------------------------------------------------------------
(***************************************************************************)
(* Sequences as sets: what is in them, and whether it is there once.       *)
(***************************************************************************)
LEMMA SetOfNone == ToSet(<<>>) = {} /\ IsInjective(<<>>)
BY DEF ToSet, IsInjective

LEMMA SetOfOne == \A x : ToSet(<<x>>) = {x} /\ <<x>>[1] = x /\ <<x>> # <<>>
BY DEF ToSet

LEMMA SetOfMore ==
  ASSUME NEW S, NEW s \in Seq(S), NEW x \in S
  PROVE  /\ ToSet(Append(s, x)) = ToSet(s) \cup {x}
         /\ IsInjective(s) /\ x \notin ToSet(s) => IsInjective(Append(s, x))
<1> DEFINE t == Append(s, x)
<1>1. /\ Len(s) \in Nat /\ DOMAIN s = 1 .. Len(s) /\ DOMAIN t = 1 .. Len(s) + 1
      /\ \A i \in 1 .. Len(s) : t[i] = s[i]
      /\ t[Len(s) + 1] = x
  BY AppendProperties, LenProperties
<1> HIDE DEF t
<1>2. \A i \in DOMAIN t : i \in DOMAIN s \/ i = Len(s) + 1
  BY <1>1
<1>3. DOMAIN s \subseteq DOMAIN t /\ Len(s) + 1 \in DOMAIN t
  BY <1>1
<1>4. ToSet(t) = ToSet(s) \cup {x}
  BY <1>1, <1>2, <1>3 DEF ToSet
<1>5. ASSUME IsInjective(s), x \notin ToSet(s)
      PROVE  IsInjective(t)
  <2>1. SUFFICES ASSUME NEW i \in DOMAIN t, NEW j \in DOMAIN t, t[i] = t[j]
                 PROVE  i = j
    BY DEF IsInjective
  <2>2. \A k \in DOMAIN s : s[k] # x
    BY <1>5 DEF ToSet
  <2> QED BY <1>1, <1>2, <1>5, <2>1, <2>2 DEF IsInjective
<1> QED BY <1>4, <1>5 DEF t

LEMMA SetOfRest ==
  ASSUME NEW S, NEW s \in Seq(S), s # <<>>
  PROVE  /\ Head(s) \in S /\ Tail(s) \in Seq(S)
         /\ ToSet(s) = {Head(s)} \cup ToSet(Tail(s))
         /\ IsInjective(s) => IsInjective(Tail(s)) /\ Head(s) \notin ToSet(Tail(s))
<1> DEFINE t == Tail(s)
<1>1. /\ Head(s) \in S /\ t \in Seq(S) /\ Len(t) = Len(s) - 1
      /\ \A i \in 1 .. Len(t) : t[i] = s[i + 1]
      /\ Head(s) = s[1]
  BY HeadTailProperties
<1>2. Len(s) \in Nat /\ Len(s) # 0 /\ DOMAIN s = 1 .. Len(s) /\ DOMAIN t = 1 .. Len(s) - 1
  BY <1>1, EmptySeq, LenProperties
<1> HIDE DEF t
<1>3. /\ \A i \in DOMAIN t : i + 1 \in DOMAIN s /\ i + 1 # 1 /\ t[i] = s[i + 1]
      /\ \A i \in DOMAIN s : i = 1 \/ (i - 1 \in DOMAIN t /\ s[i] = t[i - 1])
      /\ 1 \in DOMAIN s
  BY <1>1, <1>2
<1>4. ToSet(s) = {Head(s)} \cup ToSet(t)
  <2>1. ASSUME NEW i \in DOMAIN s
        PROVE  s[i] \in {Head(s)} \cup ToSet(t)
    BY <1>1, <1>3 DEF ToSet
  <2>2. ASSUME NEW i \in DOMAIN t
        PROVE  t[i] \in ToSet(s)
    BY <1>3 DEF ToSet
  <2>3. Head(s) \in ToSet(s)
    BY <1>1, <1>3 DEF ToSet
  <2> QED BY <2>1, <2>2, <2>3 DEF ToSet
<1>5. ASSUME IsInjective(s)
      PROVE  IsInjective(t) /\ Head(s) \notin ToSet(t)
  <2>1. \A i, j \in DOMAIN t : t[i] = t[j] => i + 1 = j + 1
    BY <1>3, <1>5 DEF IsInjective
  <2>2. \A i, j \in DOMAIN t : i + 1 = j + 1 => i = j
    BY <1>2
  <2>3. \A i \in DOMAIN t : t[i] # s[1]
    BY <1>3, <1>5 DEF IsInjective
  <2> QED BY <1>1, <2>1, <2>2, <2>3 DEF IsInjective, ToSet
<1> QED BY <1>1, <1>4, <1>5 DEF t

LEMMA SetOfBoth ==
  ASSUME NEW S, NEW s \in Seq(S), NEW t \in Seq(S)
  PROVE  /\ ToSet(s \o t) = ToSet(s) \cup ToSet(t)
         /\ IsInjective(s \o t) => ToSet(s) \cap ToSet(t) = {}
<1> DEFINE u == s \o t
<1>1. /\ Len(u) = Len(s) + Len(t) /\ u \in Seq(S)
      /\ \A i \in 1 .. Len(s) : u[i] = s[i]
      /\ \A i \in Len(s) + 1 .. Len(s) + Len(t) : u[i] = t[i - Len(s)]
  BY ConcatProperties
<1>2. /\ Len(s) \in Nat /\ DOMAIN s = 1 .. Len(s)
      /\ Len(t) \in Nat /\ DOMAIN t = 1 .. Len(t)
      /\ DOMAIN u = 1 .. Len(s) + Len(t)
  BY <1>1, LenProperties
<1> HIDE DEF u
<1>3. \A i \in DOMAIN s : i \in DOMAIN u /\ u[i] = s[i]
  BY <1>1, <1>2
<1>4. \A i \in DOMAIN t : Len(s) + i \in DOMAIN u \ DOMAIN s /\ u[Len(s) + i] = t[i]
  <2>1. TAKE i \in DOMAIN t
  <2>2. Len(s) + i \in Len(s) + 1 .. Len(s) + Len(t) /\ (Len(s) + i) - Len(s) = i
    BY <1>2
  <2> QED BY <1>1, <1>2, <2>2
<1>5. \A i \in DOMAIN u : i \in DOMAIN s \/ (i - Len(s) \in DOMAIN t /\ u[i] = t[i - Len(s)])
  BY <1>1, <1>2
<1>6. ToSet(u) = ToSet(s) \cup ToSet(t)
  BY <1>3, <1>4, <1>5 DEF ToSet
<1>7. ASSUME IsInjective(u)
      PROVE  ToSet(s) \cap ToSet(t) = {}
  BY <1>3, <1>4, <1>7 DEF IsInjective, ToSet
<1> QED BY <1>6, <1>7 DEF u

\* What is there once is found at one place, what is not there at none.
LEMMA Found ==
  ASSUME NEW s, IsInjective(s), NEW x
  PROVE  Cardinality({i \in DOMAIN s : s[i] = x}) = IF x \in ToSet(s) THEN 1 ELSE 0
<1> DEFINE at == {i \in DOMAIN s : s[i] = x}
<1>1. CASE x \in ToSet(s)
  <2>1. PICK k \in DOMAIN s : s[k] = x
    BY <1>1 DEF ToSet
  <2>2. at = {k}
    BY <2>1 DEF IsInjective
  <2> QED BY <1>1, <2>2, FS_Singleton
<1>2. CASE x \notin ToSet(s)
  <2>1. at = {}
    BY <1>2 DEF ToSet
  <2> QED BY <1>2, <2>1, FS_EmptySet
<1> QED BY <1>1, <1>2

LEMMA Contained ==
  ASSUME NEW S, NEW s \in Seq(S), NEW x
  PROVE  Contains(s, x) <=> x \in ToSet(s)
BY LenProperties DEF Contains, ToSet

-----------------------------------------------------------------------------
(***************************************************************************)
(* Every downlink is accounted for: it has ended, queued to be answered or *)
(* dropped, or it is deferred, waiting to be applied or being applied.     *)
(***************************************************************************)
Ended == ToSet(queued) \cup dropped
Deferred == ToSet(configs) \cup ToSet(setting)

Accounted ==
  /\ IsInjective(queued) /\ IsInjective(configs)
  /\ ToSet(queued) \cap dropped = {}
  /\ ToSet(configs) \cap ToSet(setting) = {}
  /\ Ended \cap Deferred = {}
  /\ DOMAIN requests = Ended \cup Deferred

LEMMA SettingIs ==
  ASSUME ConfigsTyped
  PROVE  /\ setting = <<>> => ToSet(setting) = {}
         /\ setting # <<>> => setting[1] \in Id /\ ToSet(setting) = {setting[1]}
BY SetOfNone, SetOfOne DEF ConfigsTyped

\* A downlink handled has the next number.
LEMMA NextRequest ==
  ASSUME ConstantsAssumption, ConfigsTyped, NEW kind \in Kind, Handle(kind)
  PROVE  /\ Len(requests') \in Id /\ Len(requests') \notin DOMAIN requests
         /\ DOMAIN requests' = DOMAIN requests \cup {Len(requests')}
         /\ requests'[Len(requests')] = kind
         /\ \A id \in DOMAIN requests : requests'[id] = requests[id]
         /\ Len(requests) \in Nat /\ Len(requests') = Len(requests) + 1
<1>1. requests' = Append(requests, kind) /\ requests \in Seq(Kind)
  BY DEF Handle, ConfigsTyped
<1>2. /\ Len(requests') = Len(requests) + 1 /\ DOMAIN requests' = 1 .. Len(requests) + 1
      /\ requests'[Len(requests) + 1] = kind
      /\ \A i \in 1 .. Len(requests) : requests'[i] = requests[i]
  BY <1>1, AppendProperties, LenProperties
<1>3. Len(requests) \in Nat /\ DOMAIN requests = 1 .. Len(requests)
  BY <1>1, LenProperties
<1> QED BY <1>2, <1>3, HandleIs

\* A response ends what it answers, whether the queue has room or not.
LEMMA FrameEnds ==
  ASSUME ResponsesTyped, Accounted, NEW r \in Response, Queue_OTA_Frame(r), r.id \notin Ended
  PROVE  /\ IsInjective(queued') /\ ToSet(queued') \cap dropped' = {}
         /\ Ended' = Ended \cup {r.id}
<1>1. r.id \in Id /\ queued \in Seq(Id)
  BY DEF Response, ResponsesTyped
<1>2. CASE queued' = Append(queued, r.id) /\ UNCHANGED dropped
  <2>1. ToSet(queued') = ToSet(queued) \cup {r.id} /\ IsInjective(queued')
    BY <1>1, <1>2, SetOfMore DEF Accounted, Ended
  <2> QED BY <1>2, <2>1 DEF Ended, Accounted
<1>3. CASE dropped' = dropped \cup {r.id} /\ UNCHANGED queued
  BY <1>3 DEF Ended, Accounted
<1> QED BY <1>2, <1>3 DEF Queue_OTA_Frame

\* A downlink that is answered at once.
LEMMA AnsweredAtOnce ==
  ASSUME ConstantsAssumption, IInv, Accounted, NEW kind \in Kind, Handle(kind),
         NEW ok \in BOOLEAN, NEW restart \in BOOLEAN,
         Queue_OTA_Frame(NewResponse(Len(requests'), ok, restart)), UNCHANGED configs
  PROVE  Accounted'
<1> DEFINE n == Len(requests')
           r == NewResponse(n, ok, restart)
<1>0. ResponsesTyped /\ ConfigsTyped
  BY Parts DEF ResponsesSound, ConfigsSound
<1>1. n \in Id /\ n \notin DOMAIN requests /\ DOMAIN requests' = DOMAIN requests \cup {n}
  BY <1>0, NextRequest
<1>2. r \in Response /\ r.id = n
  BY <1>1, NewResponseTyped DEF NewResponse
<1>3. n \notin Ended /\ n \notin Deferred
  BY <1>1 DEF Accounted
<1>4. UNCHANGED <<configs, setting>>
  BY DEF Handle, thread
<1> HIDE DEF n
<1>5. Queue_OTA_Frame(r)
  BY DEF n
<1> HIDE DEF r
<1>6. /\ IsInjective(queued') /\ ToSet(queued') \cap dropped' = {}
      /\ Ended' = Ended \cup {n}
  BY <1>0, <1>2, <1>3, <1>5, FrameEnds
<1>7. Deferred' = Deferred
  BY <1>4 DEF Deferred
<1> QED BY <1>1, <1>3, <1>4, <1>6, <1>7 DEF Accounted

\* One that is deferred.
LEMMA DeferredFirst ==
  ASSUME ConstantsAssumption, IInv, Accounted, Handle("bridge_set"),
         configs' = WithConfig(Len(requests')), UNCHANGED <<queued, dropped>>
  PROVE  Accounted'
<1> DEFINE n == Len(requests')
<1>0. ConfigsTyped
  BY Parts DEF ConfigsSound
<1>1. n \in Id /\ n \notin DOMAIN requests /\ DOMAIN requests' = DOMAIN requests \cup {n}
  BY <1>0, NextRequest DEF Kind
<1>2. UNCHANGED setting /\ configs' = Append(configs, n) /\ configs \in Seq(Id)
  BY <1>0 DEF Handle, thread, WithConfig, ConfigsTyped
<1> HIDE DEF n
<1>3. n \notin Ended /\ n \notin Deferred /\ Ended' = Ended
  BY <1>1 DEF Accounted, Ended
<1>4. ToSet(configs') = ToSet(configs) \cup {n} /\ IsInjective(configs')
  BY <1>1, <1>2, <1>3, SetOfMore DEF Accounted, Deferred
<1>5. Deferred' = Deferred \cup {n}
  BY <1>2, <1>4 DEF Deferred
<1> QED BY <1>1, <1>2, <1>3, <1>4, <1>5 DEF Accounted, Deferred

\* The configuration that is popped is still deferred.
LEMMA PoppedIsDeferred ==
  ASSUME IInv, Accounted, Config_Pop
  PROVE  Accounted'
<1>0. ConfigsTyped
  BY Parts DEF ConfigsSound
<1>1. pc = "configs" /\ UNCHANGED <<queued, dropped, requests>> /\ ToSet(setting) = {}
  BY <1>0, SettingIs DEF Config_Pop, history, ConfigsTyped
<1>2. Ended' = Ended
  BY <1>1 DEF Ended
<1>3. CASE configs # <<>>
  <2>1. setting' = <<Head(configs)>> /\ configs' = Tail(configs) /\ configs \in Seq(Id)
    BY <1>0, <1>3 DEF Config_Pop, RestOfConfigs, ConfigsTyped
  <2>2. /\ ToSet(configs) = {Head(configs)} \cup ToSet(configs')
        /\ IsInjective(configs') /\ Head(configs) \notin ToSet(configs')
    BY <1>3, <2>1, SetOfRest DEF Accounted
  <2>3. ToSet(setting') = {Head(configs)}
    BY <2>1, SetOfOne
  <2>4. Deferred' = Deferred
    BY <1>1, <2>2, <2>3 DEF Deferred
  <2> QED BY <1>1, <1>2, <2>2, <2>3, <2>4 DEF Accounted
<1>4. CASE configs = <<>>
  BY <1>1, <1>2, <1>4 DEF Config_Pop, Accounted, Deferred
<1> QED BY <1>3, <1>4

\* Its acknowledgement ends it.
LEMMA AckEnds ==
  ASSUME IInv, Accounted, Config_Ack
  PROVE  Accounted'
<1> DEFINE r == NewResponse(setting[1], status, FALSE)
<1>0. ResponsesTyped /\ ConfigsTyped
  BY Parts DEF ResponsesSound, ConfigsSound
<1>1. pc = "ack" /\ UNCHANGED <<configs, requests>> /\ setting' = <<>> /\ Queue_OTA_Frame(r)
  BY DEF Config_Ack, AckStatus
<1>2. setting[1] \in Id /\ ToSet(setting) = {setting[1]} /\ status \in BOOLEAN
  BY <1>0, <1>1, SettingIs DEF ConfigsTyped
<1>3. r \in Response /\ r.id = setting[1]
  BY <1>2, NewResponseTyped DEF NewResponse
<1>4. r.id \notin Ended
  BY <1>2, <1>3 DEF Accounted, Deferred
<1> HIDE DEF r
<1>5. /\ IsInjective(queued') /\ ToSet(queued') \cap dropped' = {}
      /\ Ended' = Ended \cup {setting[1]}
  BY <1>0, <1>1, <1>3, <1>4, FrameEnds
<1>6. ToSet(setting') = {} /\ Deferred' = ToSet(configs)
  BY <1>1, SetOfNone DEF Deferred
<1> QED BY <1>1, <1>2, <1>5, <1>6 DEF Accounted, Deferred

LEMMA AccountKept ==
  ASSUME ConstantsAssumption, IInv, Accounted, [Next]_vars
  PROVE  Accounted'
<1>1. CASE Handle_OTA_Reply
  BY <1>1, AnsweredAtOnce DEF Handle_OTA_Reply, Kind
<1>2. CASE Handle_Action_OTA_Restart
  BY <1>2, AnsweredAtOnce DEF Handle_Action_OTA_Restart, Kind
<1>3. CASE Handle_Bridge_Config_OTA_Set
  <2>1. CASE configs' = WithConfig(Len(requests')) /\ UNCHANGED <<queued, dropped>>
    BY <1>3, <2>1, DeferredFirst DEF Handle_Bridge_Config_OTA_Set
  <2>2. CASE Queue_OTA_Frame(NewResponse(Len(requests'), FALSE, FALSE)) /\ UNCHANGED configs
    BY <1>3, <2>2, AnsweredAtOnce DEF Handle_Bridge_Config_OTA_Set, Kind
  <2> QED BY <1>3, <2>1, <2>2 DEF Handle_Bridge_Config_OTA_Set
<1>4. CASE Config_Pop
  BY <1>4, PoppedIsDeferred
<1>5. CASE Config_Ack
  BY <1>5, AckEnds
<1>6. CASE UNCHANGED <<queued, dropped, configs, setting, requests>>
  BY <1>6 DEF Accounted, Ended, Deferred
<1>7. ASSUME \/ \E ok \in BOOLEAN : B100_Set_Params(ok)
             \/ Response_Pop \/ \E success \in BOOLEAN : B100_Send_Bytes(success)
             \/ B100_Restart \/ Response_Put_Back \/ RetryTimeReached \/ UNCHANGED vars
      PROVE  UNCHANGED <<queued, dropped, configs, setting, requests>>
  BY <1>7 DEF B100_Set_Params, Response_Pop, B100_Send_Bytes, B100_Restart, Response_Put_Back,
              RetryTimeReached, vars, queues, thread, history
<1> QED BY <1>1, <1>2, <1>3, <1>4, <1>5, <1>6, <1>7 DEF Next, Drain

LEMMA AccountStarts == ASSUME Init PROVE Accounted
BY SetOfNone DEF Init, Accounted, Ended, Deferred

\* Every downlink handled is in exactly one place, whatever the queues' capacity and
\* however the handler's downlinks fall between the drain's steps (main.c:720-752).
THEOREM RequestsKept ==
  ASSUME ConstantsAssumption
  PROVE  Spec => []NoRequestForgotten
<1>1. Init => IInv /\ Accounted
  BY Initial, AccountStarts
<1>2. IInv /\ Accounted /\ [Next]_vars => (IInv /\ Accounted)'
  BY Inductive, AccountKept
<1>3. IInv /\ Accounted => NoRequestForgotten
  <2>1. SUFFICES ASSUME IInv, Accounted, NEW id \in DOMAIN requests
                 PROVE  Cardinality({i \in DOMAIN queued : queued[i] = id})
                          + Cardinality({i \in DOMAIN configs : configs[i] = id})
                          + Cardinality({i \in DOMAIN setting : setting[i] = id})
                          + (IF id \in dropped THEN 1 ELSE 0) = 1
    BY DEF NoRequestForgotten
  <2>2. IsInjective(setting)
    <3>1. setting = <<>> \/ \E i \in Id : setting = <<i>>
      BY <2>1, Parts DEF ConfigsSound, ConfigsTyped
    <3> QED BY <3>1 DEF IsInjective
  <2>3. /\ Cardinality({i \in DOMAIN queued : queued[i] = id}) =
             IF id \in ToSet(queued) THEN 1 ELSE 0
        /\ Cardinality({i \in DOMAIN configs : configs[i] = id}) =
             IF id \in ToSet(configs) THEN 1 ELSE 0
        /\ Cardinality({i \in DOMAIN setting : setting[i] = id}) =
             IF id \in ToSet(setting) THEN 1 ELSE 0
    BY <2>1, <2>2, Found DEF Accounted
  <2> QED BY <2>1, <2>3 DEF Accounted, Ended, Deferred
<1> QED BY <1>1, <1>2, <1>3, PTL DEF Spec

-----------------------------------------------------------------------------
(***************************************************************************)
(* What the responses say is so: the ones that restart the bridge answer a *)
(* request to restart it, and the result of a configuration is the one the *)
(* bridge gave.                                                            *)
(***************************************************************************)
Carried == ToSet(responses) \cup ToSet(popped)
Took(id) == [id |-> id, ok |-> TRUE] \in ToSet(applied)
Right(r) ==
  /\ r.restart => requests[r.id] = "restart"
  /\ requests[r.id] = "bridge_set" => (r.ok <=> Took(r.id))

Truthful ==
  /\ \A r \in Carried : Right(r)
  /\ \A id \in Deferred : requests[id] = "bridge_set"
  /\ pc = "ack" => (status <=> Took(setting[1]))

\* Where the bridge is about to be restarted, it has accepted the acknowledgement and
\* has not been restarted for it.
Restarted ==
  /\ IsInjective(restarted)
  /\ \A id \in ToSet(restarted) : requests[id] = "restart" /\ id \in ToSet(accepted)
  /\ pc = "restart" => /\ popped[1].restart
                       /\ popped[1].id \in ToSet(accepted) \ ToSet(restarted)

Answers == IInv /\ Accounted /\ Truthful /\ Restarted

LEMMA PoppedIs ==
  ASSUME ResponsesTyped
  PROVE  /\ popped = <<>> => ToSet(popped) = {}
         /\ popped # <<>> => popped[1] \in Response /\ ToSet(popped) = {popped[1]}
BY SetOfNone, SetOfOne DEF ResponsesTyped, Held

\* The responses carried are queued ones, and the one being sent is not yet accepted.
LEMMA CarriedQueued ==
  ASSUME IInv, Accounted, Restarted
  PROVE  /\ ToSet(accepted) \subseteq ToSet(queued)
         /\ \A r \in Carried : r \in Response /\ r.id \in ToSet(queued)
         /\ pc \in {"send", "retry"} => popped[1].id \notin ToSet(accepted)
<1> DEFINE w == Waiting(pc, popped, responses)
<1>0. ResponsesSound /\ ResponsesTyped
  BY Parts DEF ResponsesSound
<1>1. w \in Seq(Id) /\ accepted \in Seq(Id) /\ queued = accepted \o w
  BY <1>0, WaitingIs DEF ResponsesSound, ResponsesTyped, Holding
<1>2. Ids(responses) \in Seq(Id)
  BY <1>0, IdsSeq DEF ResponsesTyped
<1>3. /\ pc \in {"send", "retry"} => /\ w = <<popped[1].id>> \o Ids(responses)
                                     /\ <<popped[1].id>> \in Seq(Id)
      /\ pc \notin {"send", "retry"} => w = Ids(responses)
  BY <1>0, WaitingIs DEF ResponsesTyped, Holding
<1> HIDE DEF w
<1>4. ToSet(queued) = ToSet(accepted) \cup ToSet(w) /\ ToSet(accepted) \cap ToSet(w) = {}
  BY <1>1, SetOfBoth DEF Accounted
<1>5. /\ ToSet(Ids(responses)) \subseteq ToSet(w)
      /\ pc \in {"send", "retry"} => popped[1].id \in ToSet(w)
  <2>1. CASE pc \in {"send", "retry"}
    <3>1. ToSet(w) = ToSet(<<popped[1].id>>) \cup ToSet(Ids(responses))
      BY <1>2, <1>3, <2>1, SetOfBoth
    <3> QED BY <3>1, SetOfOne
  <2>2. CASE pc \notin {"send", "retry"}
    BY <1>3, <2>2
  <2> QED BY <2>1, <2>2
<1>7. \A r \in ToSet(responses) : r \in Response /\ r.id \in ToSet(Ids(responses))
  <2>1. responses \in Seq(Response) /\ DOMAIN responses = 1 .. Len(responses)
    BY <1>0, LenProperties DEF ResponsesTyped
  <2>2. /\ \A i \in 1 .. Len(responses) : responses[i] \in Response
        /\ \A i \in 1 .. Len(responses) : Ids(responses)[i] = responses[i].id
        /\ DOMAIN Ids(responses) = 1 .. Len(responses)
    BY <2>1, ElementOfSeq, IdsSeq, LenProperties
  <2> QED BY <2>1, <2>2 DEF ToSet
<1>8. ASSUME NEW r \in ToSet(popped)
      PROVE  r \in Response /\ r.id \in ToSet(queued)
  <2>1. popped # <<>> /\ r = popped[1] /\ r \in Response
    BY <1>0, <1>8, PoppedIs
  <2>2. pc \in {"send", "retry"} \/ pc = "restart"
    BY <1>0, <2>1 DEF ResponsesTyped, Holding
  <2> QED BY <1>4, <1>5, <2>1, <2>2 DEF Restarted
<1> QED BY <1>4, <1>5, <1>7, <1>8 DEF Carried

\* What is right stays right while its request and the bridge's result stand.
LEMMA RightStays ==
  ASSUME NEW r, Right(r), requests'[r.id] = requests[r.id], Took(r.id)' <=> Took(r.id)
  PROVE  Right(r)'
BY DEF Right

\* A response that is queued is carried, and nothing else is.
LEMMA FrameCarries ==
  ASSUME ResponsesTyped, NEW r \in Response, Queue_OTA_Frame(r), UNCHANGED popped
  PROVE  Carried' \subseteq Carried \cup {r}
<1>1. CASE responses' = Append(responses, r)
  <2>1. ToSet(responses') = ToSet(responses) \cup {r}
    BY <1>1, SetOfMore DEF ResponsesTyped
  <2> QED BY <2>1 DEF Carried
<1>2. CASE UNCHANGED responses
  BY <1>2 DEF Carried
<1> QED BY <1>1, <1>2 DEF Queue_OTA_Frame

\* No result is known of a downlink that is not handled yet, or being applied.
LEMMA NotTaken ==
  ASSUME IInv
  PROVE  /\ ~Took(Len(requests) + 1)
         /\ pc = "set_params" => ~Took(setting[1])
<1>0. ConfigsSound /\ ConfigsTyped
  BY Parts DEF ConfigsSound
<1>1. \A i \in DOMAIN applied : applied[i].id \in Int /\ applied[i].id <= Len(requests)
  BY <1>0, Indices DEF ConfigsSound, ConfigsOrdered
<1>2. Len(requests) \in Nat
  BY <1>0, Indices
<1>3. ~Took(Len(requests) + 1)
  BY <1>1, <1>2 DEF Took, ToSet
<1>4. ASSUME pc = "set_params"
      PROVE  ~Took(setting[1])
  <2>1. \A i \in DOMAIN applied : applied[i].id < setting[1]
    BY <1>0, <1>4 DEF ConfigsSound, ConfigsOrdered
  <2>2. setting[1] \in Int
    BY <1>0, <1>4 DEF ConfigsTyped, Id
  <2> QED BY <1>1, <2>1, <2>2 DEF Took, ToSet
<1> QED BY <1>3, <1>4

\* A downlink that is answered at once says what is so.
LEMMA AnsweredRight ==
  ASSUME ConstantsAssumption, Answers, NEW kind \in Kind, Handle(kind),
         NEW ok \in BOOLEAN, NEW restart \in BOOLEAN,
         restart => kind = "restart", kind = "bridge_set" => ~ok,
         Queue_OTA_Frame(NewResponse(Len(requests'), ok, restart)), UNCHANGED configs
  PROVE  Truthful'
<1>0. IInv /\ Accounted /\ Restarted /\ ResponsesTyped /\ ConfigsTyped
  BY Parts DEF Answers, ResponsesSound, ConfigsSound
<1>n. PICK n \in Id : n = Len(requests')
  BY <1>0, NextRequest
<1>r. PICK r \in Response : r = NewResponse(n, ok, restart)
  BY NewResponseTyped
<1>1. /\ requests'[n] = kind /\ n = Len(requests) + 1
      /\ \A id \in DOMAIN requests : requests'[id] = requests[id]
  BY <1>0, <1>n, NextRequest
<1>2. r.id = n /\ (r.ok <=> ok) /\ (r.restart <=> restart)
  BY <1>r DEF NewResponse
<1>3. UNCHANGED <<setting, popped, pc, status, applied, configs>>
  BY DEF Handle, thread
<1>4. \A id : Took(id)' <=> Took(id)
  BY <1>3 DEF Took
<1>5. Queue_OTA_Frame(r)
  BY <1>n, <1>r
<1>6. ~Took(n)
  BY <1>0, <1>1, NotTaken
<1>7. Right(r)'
  BY <1>1, <1>2, <1>4, <1>6 DEF Right
<1>8. ASSUME NEW q \in Carried
      PROVE  Right(q)'
  <2>1. q.id \in DOMAIN requests
    BY <1>0, CarriedQueued DEF Accounted, Ended
  <2> QED BY <1>1, <1>4, <2>1, RightStays DEF Answers, Truthful
<1>9. \A q \in Carried' : Right(q)'
  BY <1>0, <1>3, <1>5, <1>7, <1>8, FrameCarries
<1>10. \A id \in Deferred' : requests'[id] = "bridge_set"
  BY <1>0, <1>1, <1>3 DEF Answers, Truthful, Deferred, Accounted
<1> QED BY <1>3, <1>4, <1>9, <1>10 DEF Answers, Truthful

LEMMA DeferredRight ==
  ASSUME ConstantsAssumption, Answers, Handle("bridge_set"),
         configs' = WithConfig(Len(requests')), UNCHANGED responses
  PROVE  Truthful'
<1> DEFINE n == Len(requests')
<1>0. IInv /\ Accounted /\ Restarted /\ ConfigsTyped
  BY Parts DEF Answers, ConfigsSound
<1>1. /\ n \in Id /\ requests'[n] = "bridge_set"
      /\ \A id \in DOMAIN requests : requests'[id] = requests[id]
  BY <1>0, NextRequest DEF Kind
<1>2. /\ UNCHANGED <<setting, popped, pc, status, applied>>
      /\ configs' = Append(configs, n) /\ configs \in Seq(Id)
  BY <1>0 DEF Handle, thread, WithConfig, ConfigsTyped
<1> HIDE DEF n
<1>3. Deferred' = Deferred \cup {n} /\ UNCHANGED Carried
  BY <1>1, <1>2, SetOfMore DEF Deferred, Carried
<1>4. \A id : Took(id)' <=> Took(id)
  BY <1>2 DEF Took
<1>5. ASSUME NEW q \in Carried
      PROVE  Right(q)'
  <2>1. q.id \in DOMAIN requests
    BY <1>0, CarriedQueued DEF Accounted, Ended
  <2> QED BY <1>1, <1>4, <2>1, RightStays DEF Answers, Truthful
<1>6. \A id \in Deferred' : requests'[id] = "bridge_set"
  BY <1>0, <1>1, <1>3 DEF Answers, Truthful, Accounted
<1> QED BY <1>2, <1>3, <1>4, <1>5, <1>6 DEF Answers, Truthful

\* The bridge's result is that of the configuration being applied, of no other.
LEMMA AppliedRight ==
  ASSUME Answers, NEW ok \in BOOLEAN, B100_Set_Params(ok)
  PROVE  Truthful'
<1>0. IInv /\ Accounted /\ Restarted /\ Truthful /\ ConfigsTyped
  BY Parts DEF Answers, ConfigsSound
<1>1. /\ pc = "set_params" /\ status' = ok
      /\ applied' = Append(applied, [id |-> setting[1], ok |-> ok])
      /\ UNCHANGED <<responses, configs, popped, setting, requests>>
  BY DEF B100_Set_Params, queues
<1>2. setting[1] \in Id /\ setting[1] \in Deferred
  BY <1>0, <1>1, SettingIs DEF ConfigsTyped, Deferred
<1>3. ToSet(applied') = ToSet(applied) \cup {[id |-> setting[1], ok |-> ok]}
  <2>1. [id |-> setting[1], ok |-> ok] \in Applied /\ applied \in Seq(Applied)
    BY <1>0, <1>2 DEF ConfigsTyped, Applied
  <2> QED BY <1>1, <2>1, SetOfMore
<1>4. \A id : id # setting[1] => (Took(id)' <=> Took(id))
  BY <1>3 DEF Took
<1>5. Took(setting[1])' <=> ok
  <2>1. ~Took(setting[1]) /\ setting' = setting
    BY <1>0, <1>1, NotTaken
  <2> QED BY <1>3, <2>1 DEF Took
<1>6. Carried' = Carried /\ Deferred' = Deferred
  BY <1>1 DEF Carried, Deferred
<1>7. ASSUME NEW q \in Carried
      PROVE  Right(q)'
  <2>1. q.id \in Ended
    BY <1>0, CarriedQueued DEF Ended
  <2>2. q.id # setting[1]
    BY <1>0, <1>2, <2>1 DEF Accounted
  <2> QED BY <1>0, <1>1, <1>4, <2>2, RightStays DEF Truthful
<1>8. (status <=> Took(setting[1]))'
  BY <1>1, <1>5
<1> QED BY <1>0, <1>1, <1>6, <1>7, <1>8 DEF Truthful

\* "The SET acknowledgement reports the final bridge API result."
LEMMA AckRight ==
  ASSUME Answers, Config_Ack
  PROVE  Truthful'
<1>0. IInv /\ Accounted /\ Restarted /\ Truthful /\ ConfigsTyped /\ ResponsesTyped
  BY Parts DEF Answers, ConfigsSound, ResponsesSound
<1>1. /\ pc = "ack" /\ pc' = "responses" /\ setting' = <<>>
      /\ Queue_OTA_Frame(NewResponse(setting[1], status, FALSE))
      /\ UNCHANGED <<configs, popped, requests, applied>>
  BY DEF Config_Ack, AckStatus
<1>2. setting[1] \in Id /\ setting[1] \in Deferred /\ status \in BOOLEAN
  BY <1>0, <1>1, SettingIs DEF ConfigsTyped, Deferred
<1>3. PICK r \in Response : r = NewResponse(setting[1], status, FALSE)
  BY <1>2, NewResponseTyped
<1>4. Right(r)
  BY <1>0, <1>1, <1>3 DEF NewResponse, Right, Truthful
<1>5. Carried' \subseteq Carried \cup {r}
  BY <1>0, <1>1, <1>3, FrameCarries
<1>6. \A id : Took(id)' <=> Took(id)
  BY <1>1 DEF Took
<1>7. \A q \in Carried' : Right(q)'
  BY <1>0, <1>1, <1>4, <1>5, <1>6, RightStays DEF Truthful
<1>8. \A id \in Deferred' : requests'[id] = "bridge_set"
  BY <1>0, <1>1, SetOfNone DEF Truthful, Deferred
<1> QED BY <1>1, <1>7, <1>8 DEF Truthful

\* The drain of the responses carries none that it did not, but for when it is due.
LEMMA DrainCarries ==
  ASSUME ResponsesTyped,
         \/ Response_Pop \/ \E success \in BOOLEAN : B100_Send_Bytes(success)
         \/ B100_Restart \/ Response_Put_Back \/ RetryTimeReached
  PROVE  \A r \in Carried' : \E q \in Carried : r = q \/ \E w \in BOOLEAN : r = [q EXCEPT !.waiting = w]
<1>1. CASE Carried' \subseteq Carried
  BY <1>1
<1>2. CASE Response_Pop
  <2>1. CASE HeadIsDue
    <3>1. responses # <<>> /\ popped' = <<Head(responses)>> /\ responses' = Tail(responses)
      BY <1>2, <2>1 DEF Response_Pop, HeadIsDue
    <3>2. ToSet(responses) = {Head(responses)} \cup ToSet(responses')
      BY <3>1, SetOfRest DEF ResponsesTyped
    <3>3. ToSet(popped') = {Head(responses)}
      BY <3>1, SetOfOne
    <3> QED BY <1>1, <3>2, <3>3 DEF Carried
  <2>2. CASE ~HeadIsDue
    BY <1>1, <1>2, <2>2 DEF Response_Pop, Carried
  <2> QED BY <2>1, <2>2
<1>3. ASSUME NEW success \in BOOLEAN, B100_Send_Bytes(success)
      PROVE  Carried' \subseteq Carried
  <2>1. UNCHANGED responses /\ (popped' = <<>> \/ UNCHANGED popped)
    BY <1>3 DEF B100_Send_Bytes, queues
  <2> QED BY <2>1, SetOfNone DEF Carried
<1>4. CASE B100_Restart
  BY <1>1, <1>4, SetOfNone DEF B100_Restart, queues, Carried
<1>5. CASE Response_Put_Back
  <2>1. /\ popped # <<>> /\ popped' = <<>>
        /\ responses' = <<[popped[1] EXCEPT !.waiting = TRUE]>> \o responses
    BY <1>5 DEF Response_Put_Back, PutBack, ResponsesTyped, Holding
  <2>2. popped[1] \in Response /\ popped[1] \in Carried
    BY <2>1, PoppedIs DEF Carried
  <2>3. PICK r \in Response : r = [popped[1] EXCEPT !.waiting = TRUE]
    BY <2>2 DEF Response
  <2>4. <<r>> \in Seq(Response) /\ responses \in Seq(Response)
    BY DEF ResponsesTyped
  <2>5. ToSet(<<r>> \o responses) = {r} \cup ToSet(responses)
    <3>1. ToSet(<<r>> \o responses) = ToSet(<<r>>) \cup ToSet(responses)
      BY <2>4, SetOfBoth
    <3> QED BY <3>1, SetOfOne
  <2>6. Carried' \subseteq Carried \cup {r}
    BY <2>1, <2>3, <2>5, SetOfNone DEF Carried
  <2> QED BY <2>2, <2>3, <2>6
<1>6. CASE RetryTimeReached
  <2>1. /\ responses # <<>> /\ responses' = [responses EXCEPT ![1].waiting = FALSE]
        /\ UNCHANGED popped
    BY <1>6 DEF RetryTimeReached, thread
  <2>2. Len(responses) \in Nat /\ DOMAIN responses = 1 .. Len(responses) /\ 1 \in DOMAIN responses
    BY <2>1, EmptySeq, LenProperties DEF ResponsesTyped
  <2>3. /\ DOMAIN responses' = DOMAIN responses
        /\ responses'[1] = [responses[1] EXCEPT !.waiting = FALSE]
        /\ \A i \in DOMAIN responses : i # 1 => responses'[i] = responses[i]
    BY <2>1, <2>2
  <2>4. \A i \in DOMAIN responses : responses[i] \in Carried
    BY DEF Carried, ToSet
  <2>5. ASSUME NEW r \in ToSet(responses')
        PROVE  \E q \in Carried : r = q \/ \E w \in BOOLEAN : r = [q EXCEPT !.waiting = w]
    <3>1. PICK i \in DOMAIN responses : r = responses'[i]
      BY <2>3 DEF ToSet
    <3>2. CASE i = 1
      BY <2>3, <2>4, <3>1, <3>2
    <3>3. CASE i # 1
      BY <2>3, <2>4, <3>1, <3>3
    <3> QED BY <3>2, <3>3
  <2>6. ToSet(popped') \subseteq Carried
    BY <2>1 DEF Carried
  <2> QED BY <2>5, <2>6 DEF Carried
<1> QED BY <1>1, <1>2, <1>3, <1>4, <1>5, <1>6

LEMMA DrainRight ==
  ASSUME Answers,
         \/ Response_Pop \/ \E success \in BOOLEAN : B100_Send_Bytes(success)
         \/ B100_Restart \/ Response_Put_Back \/ RetryTimeReached
  PROVE  Truthful'
<1>0. IInv /\ Accounted /\ Restarted /\ Truthful /\ ConfigsTyped /\ ResponsesTyped
  BY Parts DEF Answers, ConfigsSound, ResponsesSound
<1>1. UNCHANGED <<configs, setting, status, requests, applied>> /\ (pc' = "ack" => pc = "ack")
  BY DEF Response_Pop, B100_Send_Bytes, B100_Restart, Response_Put_Back,
              RetryTimeReached, AfterSend, queues, thread, history
<1>2. \A id : Took(id)' <=> Took(id)
  BY <1>1 DEF Took
<1>3. ASSUME NEW r \in Carried'
      PROVE  Right(r)'
  <2>1. PICK q \in Carried : r = q \/ \E w \in BOOLEAN : r = [q EXCEPT !.waiting = w]
    BY <1>0, DrainCarries
  <2>2. q \in Response /\ Right(q)
    BY <1>0, CarriedQueued DEF Truthful
  <2>3. r.id = q.id /\ r.ok = q.ok /\ r.restart = q.restart
    BY <2>1, <2>2 DEF Response
  <2>4. Right(r)
    BY <2>2, <2>3 DEF Right
  <2> QED BY <1>1, <1>2, <2>4, RightStays
<1>4. \A id \in Deferred' : requests'[id] = "bridge_set"
  BY <1>0, <1>1 DEF Truthful, Deferred
<1>5. (pc = "ack" => (status <=> Took(setting[1])))'
  BY <1>0, <1>1 DEF Truthful, Took
<1> QED BY <1>3, <1>4, <1>5 DEF Truthful

LEMMA TruthKept ==
  ASSUME ConstantsAssumption, Answers, [Next]_vars
  PROVE  Truthful'
<1>1. CASE Handle_OTA_Reply
  BY <1>1, AnsweredRight DEF Handle_OTA_Reply, Kind
<1>2. CASE Handle_Action_OTA_Restart
  BY <1>2, AnsweredRight DEF Handle_Action_OTA_Restart, Kind
<1>3. CASE Handle_Bridge_Config_OTA_Set
  <2>1. CASE configs' = WithConfig(Len(requests')) /\ UNCHANGED responses
    BY <1>3, <2>1, DeferredRight DEF Handle_Bridge_Config_OTA_Set
  <2>2. CASE Queue_OTA_Frame(NewResponse(Len(requests'), FALSE, FALSE)) /\ UNCHANGED configs
    BY <1>3, <2>2, AnsweredRight DEF Handle_Bridge_Config_OTA_Set, Kind
  <2> QED BY <1>3, <2>1, <2>2 DEF Handle_Bridge_Config_OTA_Set
<1>4. CASE Config_Pop
  <2>1. UNCHANGED <<responses, popped, requests, applied>> /\ pc' # "ack"
    BY <1>4 DEF Config_Pop, history
  <2>2. Deferred' \subseteq Deferred
    <3>1. Accounted' /\ Accounted /\ UNCHANGED <<requests, Ended>>
      BY <1>4, PoppedIsDeferred DEF Answers, Config_Pop, history, Ended
    <3> QED BY <3>1 DEF Accounted
  <2>3. \A q \in Carried' : Right(q)'
    BY <2>1 DEF Answers, Truthful, Carried, Right, Took
  <2> QED BY <2>1, <2>2, <2>3 DEF Answers, Truthful
<1>5. ASSUME NEW ok \in BOOLEAN, B100_Set_Params(ok)
      PROVE  Truthful'
  BY <1>5, AppliedRight
<1>6. CASE Config_Ack
  BY <1>6, AckRight
<1>7. CASE \/ Response_Pop \/ \E success \in BOOLEAN : B100_Send_Bytes(success)
           \/ B100_Restart \/ Response_Put_Back \/ RetryTimeReached
  BY <1>7, DrainRight
<1>8. CASE UNCHANGED vars
  BY <1>8 DEF vars, queues, thread, history, Answers, Truthful, Carried, Deferred, Right, Took
<1> QED BY <1>1, <1>2, <1>3, <1>4, <1>5, <1>6, <1>7, <1>8 DEF Next, Drain

\* The bridge is restarted once, after its acknowledgement was accepted.
LEMMA RestartsKept ==
  ASSUME ConstantsAssumption, Answers, [Next]_vars
  PROVE  Restarted'
<1>0. /\ IInv /\ Accounted /\ Restarted /\ Truthful /\ ConfigsTyped /\ ResponsesTyped
      /\ accepted \in Seq(Id) /\ restarted \in Seq(Id)
  BY Parts DEF Answers, ConfigsSound, ResponsesSound, ResponsesTyped
<1>1. \A id \in ToSet(restarted) : id \in DOMAIN requests
  BY <1>0, CarriedQueued DEF Restarted, Accounted, Ended
<1>2. ASSUME UNCHANGED <<popped, accepted, restarted>>, pc' = "restart" => pc = "restart",
             \A id \in DOMAIN requests : requests'[id] = requests[id]
      PROVE  Restarted'
  BY <1>0, <1>1, <1>2 DEF Restarted
<1>3. ASSUME NEW kind \in Kind, Handle(kind)
      PROVE  Restarted'
  <2>1. \A id \in DOMAIN requests : requests'[id] = requests[id]
    BY <1>0, <1>3, NextRequest
  <2> QED BY <1>2, <1>3, <2>1 DEF Handle, thread
<1>4. CASE Handle_OTA_Reply \/ Handle_Action_OTA_Restart \/ Handle_Bridge_Config_OTA_Set
  BY <1>3, <1>4 DEF Handle_OTA_Reply, Handle_Action_OTA_Restart, Handle_Bridge_Config_OTA_Set, Kind
<1>5. CASE Config_Pop \/ (\E ok \in BOOLEAN : B100_Set_Params(ok)) \/ Config_Ack \/ RetryTimeReached
           \/ UNCHANGED vars
  BY <1>2, <1>5 DEF Config_Pop, B100_Set_Params, Config_Ack, RetryTimeReached, vars, queues,
                    thread, history
<1>6. CASE Response_Pop \/ Response_Put_Back
  <2>1. UNCHANGED <<requests, accepted, restarted>> /\ pc' # "restart"
    BY <1>6 DEF Response_Pop, Response_Put_Back, history
  <2> QED BY <1>0, <2>1 DEF Restarted
<1>7. ASSUME NEW success \in BOOLEAN, B100_Send_Bytes(success)
      PROVE  Restarted'
  <2>1. /\ pc = "send" /\ UNCHANGED <<requests, restarted>> /\ popped # <<>>
        /\ popped[1] \in Response /\ popped[1].id \in Id
    BY <1>0, <1>7, PoppedIs DEF B100_Send_Bytes, ResponsesTyped, Holding, Response
  <2>2. popped[1].id \notin ToSet(accepted)
    BY <1>0, <2>1, CarriedQueued
  <2>3. CASE success
    <3>1. /\ accepted' = Append(accepted, popped[1].id)
          /\ pc' = "restart" => popped[1].restart /\ UNCHANGED popped
      BY <1>7, <2>3 DEF B100_Send_Bytes, AfterSend
    <3>2. ToSet(accepted') = ToSet(accepted) \cup {popped[1].id}
      BY <1>0, <2>1, <3>1, SetOfMore
    <3> QED BY <1>0, <2>1, <2>2, <3>1, <3>2 DEF Restarted
  <2>4. CASE ~success
    BY <1>0, <1>7, <2>1, <2>4 DEF B100_Send_Bytes, AfterSend, Restarted
  <2> QED BY <2>3, <2>4
<1>8. CASE B100_Restart
  <2>1. /\ pc = "restart" /\ pc' = "configs" /\ restarted' = Append(restarted, popped[1].id)
        /\ UNCHANGED <<requests, accepted>>
    BY <1>8 DEF B100_Restart
  <2>2. /\ popped[1].restart /\ popped[1].id \in ToSet(accepted) \ ToSet(restarted)
        /\ popped[1] \in Carried /\ popped[1].id \in Id
    BY <1>0, <2>1, PoppedIs DEF Restarted, ResponsesTyped, Holding, Carried, Response
  <2>3. requests[popped[1].id] = "restart"
    BY <1>0, <2>2 DEF Truthful, Right
  <2>4. ToSet(restarted') = ToSet(restarted) \cup {popped[1].id} /\ IsInjective(restarted')
    BY <1>0, <2>1, <2>2, SetOfMore DEF Restarted
  <2> QED BY <1>0, <2>1, <2>2, <2>3, <2>4 DEF Restarted
<1> QED BY <1>4, <1>5, <1>6, <1>7, <1>8 DEF Next, Drain

LEMMA AnswersStart == ASSUME Init PROVE Truthful /\ Restarted
BY SetOfNone DEF Init, Truthful, Restarted, Carried, Deferred

\* The bridge is restarted only for a request for it, after its acknowledgement was
\* accepted and once; and a SET is acknowledged with the result the bridge gave for it,
\* however often either response was refused (main.c:685-693, 736-752).
THEOREM AnswersTrue ==
  ASSUME ConstantsAssumption
  PROVE  Spec => []AckHonest
<1>1. Init => Answers
  BY Initial, AccountStarts, AnswersStart DEF Answers
<1>2. Answers /\ [Next]_vars => Answers'
  BY Inductive, AccountKept, TruthKept, RestartsKept DEF Answers
<1>3. Answers => AckHonest
  <2>1. SUFFICES ASSUME Answers
                 PROVE  AckHonest
    OBVIOUS
  <2>2. /\ IInv /\ Accounted /\ Restarted /\ Truthful /\ ConfigsTyped /\ ResponsesTyped
        /\ accepted \in Seq(Id) /\ applied \in Seq(Applied)
    BY <2>1, Parts DEF Answers, ConfigsSound, ResponsesSound, ResponsesTyped, ConfigsTyped
  <2>3. RestartAfterAck
    <3>1. \A i \in DOMAIN restarted : restarted[i] \in ToSet(restarted)
      BY DEF ToSet
    <3>2. \A id : Contains(accepted, id) <=> id \in ToSet(accepted)
      BY <2>2, Contained
    <3> QED BY <2>2, <3>1, <3>2 DEF RestartAfterAck, Restarted
  <2>4. AckReportsResult
    <3>1. SUFFICES ASSUME NEW i \in DOMAIN responses, requests[responses[i].id] = "bridge_set"
                   PROVE  responses[i].ok = Contains(applied, [id |-> responses[i].id, ok |-> TRUE])
      BY DEF AckReportsResult
    <3>2. responses[i] \in Carried
      BY DEF Carried, ToSet
    <3>3. responses[i] \in Response /\ Right(responses[i])
      BY <2>2, <3>2, CarriedQueued DEF Truthful
    <3>4. responses[i].ok \in BOOLEAN
      BY <3>3 DEF Response
    <3>5. responses[i].ok <=> Took(responses[i].id)
      BY <3>1, <3>3 DEF Right
    <3>6. Contains(applied, [id |-> responses[i].id, ok |-> TRUE]) <=> Took(responses[i].id)
      BY <2>2, Contained DEF Took
    <3>7. Contains(applied, [id |-> responses[i].id, ok |-> TRUE]) \in BOOLEAN
      BY DEF Contains
    <3> QED BY <3>4, <3>5, <3>6, <3>7
  <2> QED BY <2>2, <2>3, <2>4 DEF AckHonest, IInv
<1> QED BY <1>1, <1>2, <1>3, PTL DEF Spec
=============================================================================
