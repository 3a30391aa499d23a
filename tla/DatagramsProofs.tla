--------------------------- MODULE DatagramsProofs ---------------------------
(***************************************************************************)
(* Proofs about Datagrams for every set of payloads and every bound: the   *)
(* queue with its moving offset implements ReceivedDatagrams.              *)
(***************************************************************************)
EXTENDS Datagrams, TLAPS

\* An occupied slot holds the datagram that was handed out with the id the
\* slot stands for now.
SlotsAgree ==
    \A i \in 1 .. Len(datagrams) :
        datagrams[i] # None => datagrams[i] = handed[offset + i - 1]

WithinBound == NextId + Len(inbox) <= MaxDatagrams

IInv == TypeOK /\ SlotsAgree /\ WithinBound /\ FrontIsUnread /\ NoneIsMissing

-----------------------------------------------------------------------------
(* The slot of an id. *)

LEMMA Shifted ==
    ASSUME NEW new \in Nat, NEW newLen \in Nat, NEW old \in Nat, NEW oldLen \in Nat,
           new + newLen = old + oldLen, new >= old, NEW i \in 1 .. newLen
    PROVE  i + (new - old) \in 1 .. oldLen
  OBVIOUS

LEMMA SlotOfId ==
    ASSUME TypeOK, NEW id \in offset .. NextId - 1
    PROVE  Slot(id) \in 1 .. Len(datagrams) /\ offset + Slot(id) - 1 = id
  BY DEF TypeOK, Slot, NextId

\* Dropping the empty slots at the front moves the others by as much as the
\* offset grows, so that every id keeps its slot's contents.
LEMMA FreeShifts ==
    ASSUME TypeOK, NEW queue \in Seq(Datagram \cup {None}), Free(queue),
           Len(queue) = Len(datagrams)
    PROVE  /\ datagrams' \in Seq(Datagram \cup {None})
           /\ offset' \in Nat /\ offset' >= offset
           /\ offset' + Len(datagrams') = NextId
           /\ \A i \in 1 .. Len(datagrams') : datagrams'[i] = queue[i + (offset' - offset)]
           /\ \A i \in 1 .. offset' - offset : queue[i] = None
           /\ FrontIsUnread'
<1>1. PICK k \in 0 .. Len(queue) :
         /\ LeadingEmpty(queue, k)
         /\ datagrams' = SubSeq(queue, k + 1, Len(queue))
         /\ offset' = offset + k
  BY DEF Free
<1>2. /\ datagrams' \in Seq(Datagram \cup {None})
      /\ Len(datagrams') = Len(queue) - k
      /\ \A i \in 1 .. Len(datagrams') : datagrams'[i] = queue[i + k]
  BY <1>1
<1>3. offset' \in Nat /\ offset' >= offset /\ offset' - offset = k
  BY <1>1 DEF TypeOK
<1>4. offset' + Len(datagrams') = NextId
  <2>1. Len(datagrams) \in Nat /\ k \in Nat /\ offset \in Nat
    BY DEF TypeOK
  <2>2. Len(datagrams') = Len(datagrams) - k
    BY <1>2
  <2>3. offset' = offset + k
    BY <1>1
  <2> QED BY <2>1, <2>2, <2>3 DEF NextId
<1>5. FrontIsUnread'
  <2>1. SUFFICES ASSUME datagrams' # <<>> PROVE datagrams'[1] # None
    BY <1>2 DEF FrontIsUnread
  <2>2. Len(datagrams') > 0
    BY <1>2, <2>1
  <2> QED BY <1>1, <1>2, <2>2 DEF LeadingEmpty
<1> QED BY <1>1, <1>2, <1>3, <1>4, <1>5 DEF LeadingEmpty

-----------------------------------------------------------------------------
(* The invariant. *)

LEMMA InitIInv == Init => IInv
  BY BoundAssumption, OutcomeAssumption
  DEF Init, IInv, TypeOK, SlotsAgree, WithinBound, FrontIsUnread, NoneIsMissing,
      NoRead, NextId

\* What a read returns when the stream was handed out before.
LEMMA OutcomeIs ==
    ASSUME IInv, NEW id \in DOMAIN handed
    PROVE  /\ id \in 0 .. NextId - 1
           /\ Outcome(id) = IF id \in Unread THEN handed[id] ELSE Closed
<1>1. id \in 0 .. NextId - 1
  BY DEF IInv, TypeOK
<1>2. ASSUME id < offset PROVE Outcome(id) = Closed /\ id \notin Unread
  BY <1>1, <1>2 DEF IInv, TypeOK, Outcome, Unread
<1>3. ASSUME id >= offset
      PROVE  Outcome(id) = IF id \in Unread THEN handed[id] ELSE Closed
  <2>1. id \in offset .. NextId - 1 /\ ~ (id < offset) /\ ~ (id >= offset + Len(datagrams))
    BY <1>1, <1>3 DEF IInv, TypeOK, NextId
  <2>2. Slot(id) \in 1 .. Len(datagrams) /\ offset + Slot(id) - 1 = id
    BY <2>1, SlotOfId DEF IInv
  <2>3. id \in Unread <=> datagrams[Slot(id)] # None
    BY <1>3, <2>2 DEF Unread, IInv, TypeOK
  <2>4. datagrams[Slot(id)] # None => datagrams[Slot(id)] = handed[id]
    BY <2>2 DEF IInv, SlotsAgree
  <2> QED BY <2>1, <2>3, <2>4 DEF Outcome
<1> QED BY <1>1, <1>2, <1>3 DEF IInv, TypeOK

LEMMA AcceptKeepsIInv == IInv /\ AcceptDatagram => IInv'
<1> SUFFICES ASSUME IInv, AcceptDatagram PROVE IInv'
  OBVIOUS
<1>1. Head(inbox) \in Datagram /\ inbox' \in Seq(Datagram) /\ Len(inbox') = Len(inbox) - 1
  BY DEF IInv, TypeOK, AcceptDatagram
<1>2. /\ datagrams' \in Seq(Datagram \cup {None})
      /\ Len(datagrams') = Len(datagrams) + 1
      /\ \A i \in 1 .. Len(datagrams) : datagrams'[i] = datagrams[i]
      /\ datagrams'[Len(datagrams) + 1] = Head(inbox)
  BY <1>1 DEF IInv, TypeOK, AcceptDatagram
<1>3. NextId \in Nat /\ NextId' = NextId + 1 /\ offset' = offset
  BY <1>2 DEF IInv, TypeOK, AcceptDatagram, NextId
<1>4. /\ handed' \in [0 .. NextId' - 1 -> Datagram]
      /\ handed'[NextId] = Head(inbox)
      /\ \A i \in 0 .. NextId - 1 : handed'[i] = handed[i]
  BY <1>1, <1>3 DEF IInv, TypeOK, AcceptDatagram
<1>5. TypeOK'
  BY <1>1, <1>2, <1>3, <1>4 DEF IInv, TypeOK, AcceptDatagram
<1>6. SlotsAgree'
  <2>1. ASSUME NEW i \in 1 .. Len(datagrams) + 1, datagrams'[i] # None
        PROVE  datagrams'[i] = handed'[offset + i - 1]
    <3>1. Len(datagrams) \in Nat /\ offset \in Nat
      BY DEF IInv, TypeOK
    <3>2. CASE i = Len(datagrams) + 1
      <4>1. offset + i - 1 = NextId
        BY <3>1, <3>2 DEF NextId
      <4> QED BY <1>2, <1>4, <3>2, <4>1
    <3>3. CASE i \in 1 .. Len(datagrams)
      <4>1. datagrams[i] # None /\ datagrams[i] = handed[offset + i - 1]
        BY <1>2, <2>1, <3>3 DEF IInv, SlotsAgree
      <4>2. offset + i - 1 \in 0 .. NextId - 1
        BY <3>1, <3>3 DEF NextId
      <4> QED BY <1>2, <1>4, <3>3, <4>1, <4>2
    <3> QED BY <3>1, <3>2, <3>3
  <2> QED BY <1>2, <1>3, <2>1 DEF SlotsAgree
<1>7. WithinBound'
  BY <1>1, <1>3 DEF IInv, WithinBound, TypeOK
<1>8. FrontIsUnread'
  <2>1. CASE datagrams = <<>>
    BY <1>1, <1>2, <2>1, PayloadAssumption DEF FrontIsUnread
  <2>2. CASE datagrams # <<>>
    BY <1>2, <2>2 DEF IInv, TypeOK, FrontIsUnread
  <2> QED BY <2>1, <2>2
<1> QED BY <1>5, <1>6, <1>7, <1>8 DEF IInv, NoneIsMissing, AcceptDatagram

LEMMA ReadKeepsIInv ==
    ASSUME IInv, NEW id \in DOMAIN handed, Read(id)
    PROVE  IInv'
<1>1. id \in 0 .. NextId - 1
  BY OutcomeIs
<1>2. result' \in [id : Nat, value : Datagram \cup {Closed, Missing}] /\ NoneIsMissing'
  <2>1. Outcome(id) \in Datagram \cup {Closed}
    BY OutcomeIs DEF IInv, TypeOK
  <2>2. result' = [id |-> id, value |-> Outcome(id)]
    BY DEF Read
  <2> QED BY <1>1, <2>1, <2>2, PayloadAssumption, OutcomeAssumption DEF NoneIsMissing
<1>3. CASE id < offset
  <2>1. UNCHANGED <<datagrams, offset, streams, inbox, handed>>
    BY <1>1, <1>3 DEF Read, IInv, TypeOK
  <2> QED
    BY <1>2, <2>1
    DEF IInv, TypeOK, SlotsAgree, WithinBound, FrontIsUnread, NextId
<1>4. CASE id >= offset
  <2> DEFINE queue == [datagrams EXCEPT ![Slot(id)] = None]
  <2>1. id \in offset .. NextId - 1
    BY <1>1, <1>4 DEF IInv, TypeOK
  <2>2. Free(queue) /\ UNCHANGED <<streams, inbox, handed>>
    BY <2>1 DEF Read
  <2>3. queue \in Seq(Datagram \cup {None}) /\ Len(queue) = Len(datagrams)
    BY <2>1, SlotOfId DEF IInv, TypeOK
  <2>kept. \A j \in 1 .. Len(datagrams) : queue[j] = datagrams[j] \/ queue[j] = None
    BY DEF IInv, TypeOK
  <2> HIDE DEF queue
  <2>4. /\ datagrams' \in Seq(Datagram \cup {None})
        /\ offset' \in Nat /\ offset' >= offset
        /\ offset' + Len(datagrams') = NextId
        /\ \A i \in 1 .. Len(datagrams') : datagrams'[i] = queue[i + (offset' - offset)]
        /\ FrontIsUnread'
    BY <2>2, <2>3, FreeShifts DEF IInv
  <2>5. NextId' = NextId
    BY <2>4 DEF NextId
  <2>6. TypeOK'
    BY <1>2, <2>2, <2>4, <2>5 DEF IInv, TypeOK
  <2>7. SlotsAgree'
    <3>1. ASSUME NEW i \in 1 .. Len(datagrams'), datagrams'[i] # None
          PROVE  datagrams'[i] = handed[offset' + i - 1]
      <4> DEFINE j == i + (offset' - offset)
      <4>1. j \in 1 .. Len(datagrams)
        <5>1. Len(datagrams) \in Nat /\ Len(datagrams') \in Nat /\ offset \in Nat
          BY <2>4 DEF IInv, TypeOK
        <5>2. offset' + Len(datagrams') = offset + Len(datagrams)
          BY <2>4 DEF NextId
        <5>3. offset' \in Nat /\ offset' >= offset
          BY <2>4
        <5> QED BY <5>1, <5>2, <5>3, Shifted
      <4>2. datagrams'[i] = queue[j]
        BY <2>4
      <4>3. queue[j] = datagrams[j] \/ queue[j] = None
        BY <2>kept, <4>1
      <4>4. datagrams[j] # None
        BY <3>1, <4>2, <4>3
      <4>5. datagrams[j] = handed[offset + j - 1]
        BY <4>1, <4>4 DEF IInv, SlotsAgree
      <4>6. offset + j - 1 = offset' + i - 1
        <5>1. offset \in Nat /\ Len(datagrams') \in Nat
          BY <2>4 DEF IInv, TypeOK
        <5>2. i \in Nat
          BY <5>1
        <5>3. offset' \in Nat
          BY <2>4
        <5> QED BY <5>1, <5>2, <5>3
      <4> QED BY <3>1, <4>2, <4>3, <4>5, <4>6
    <3> QED BY <2>2, <3>1 DEF SlotsAgree
  <2>8. WithinBound'
    BY <2>2, <2>5 DEF IInv, WithinBound
  <2> QED BY <1>2, <2>4, <2>6, <2>7, <2>8 DEF IInv
<1> QED BY <1>1, <1>3, <1>4 DEF IInv, TypeOK

LEMMA StepKeepsIInv == IInv /\ [Next]_vars => IInv'
<1> SUFFICES ASSUME IInv, [Next]_vars PROVE IInv'
  OBVIOUS
<1>1. CASE ArriveStream
  BY <1>1, BoundAssumption
  DEF ArriveStream, IInv, TypeOK, SlotsAgree, WithinBound, FrontIsUnread,
      NoneIsMissing, NextId
<1>2. ASSUME NEW d \in Datagram, ArriveDatagram(d) PROVE IInv'
  <2>1. inbox' \in Seq(Datagram) /\ Len(inbox') <= Len(inbox) + 1
    BY <1>2, BoundAssumption DEF ArriveDatagram, IInv, TypeOK
  <2>2. NextId \in Nat /\ NextId' = NextId
    BY <1>2 DEF ArriveDatagram, IInv, TypeOK, NextId
  <2>3. WithinBound'
    BY <1>2, <2>1, <2>2, BoundAssumption DEF ArriveDatagram, WithinBound, IInv, TypeOK
  <2> QED
    BY <1>2, <2>1, <2>2, <2>3
    DEF ArriveDatagram, IInv, TypeOK, SlotsAgree, FrontIsUnread, NoneIsMissing
<1>3. CASE AcceptStream
  BY <1>3, BoundAssumption
  DEF AcceptStream, IInv, TypeOK, SlotsAgree, WithinBound, FrontIsUnread,
      NoneIsMissing, NextId
<1>4. CASE AcceptDatagram
  BY <1>4, AcceptKeepsIInv
<1>5. ASSUME NEW id \in DOMAIN handed, Read(id) PROVE IInv'
  BY <1>5, ReadKeepsIInv
<1>6. CASE UNCHANGED vars
  BY <1>6
  DEF vars, IInv, TypeOK, SlotsAgree, WithinBound, FrontIsUnread, NoneIsMissing, NextId
<1> QED BY <1>1, <1>2, <1>3, <1>4, <1>5, <1>6 DEF Next

LEMMA Inductive == Spec => []IInv
  BY InitIInv, StepKeepsIInv, PTL DEF Spec

\* Slots, the offset and the ids handed out keep their types: an id never lies
\* before the slots that read has taken away.
THEOREM TypeCorrect == Spec => []TypeOK
<1>1. IInv => TypeOK
  BY DEF IInv
<1> QED BY <1>1, Inductive, PTL

\* A stream that was handed out is always within reach of its queue.
THEOREM NeverMissing == Spec => []NoneIsMissing
<1>1. IInv => NoneIsMissing
  BY DEF IInv
<1> QED BY <1>1, Inductive, PTL

\* Slots are freed as far as they can be: an empty one is never in front.
THEOREM FrontStaysUnread == Spec => []FrontIsUnread
<1>1. IInv => FrontIsUnread
  BY DEF IInv
<1> QED BY <1>1, Inductive, PTL

-----------------------------------------------------------------------------
(* The refinement. *)

LEMMA InitRefines == Init => Ids!Init
  BY DEF Init, Ids!Init, Unread

\* Accepting a datagram hands out a fresh id.
LEMMA AcceptRefines ==
    ASSUME IInv, AcceptDatagram
    PROVE  \E id \in 0 .. MaxDatagrams - 1, d \in Datagram : Ids!HandOut(id, d)
<1> DEFINE d == Head(inbox)
<1>1. d \in Datagram /\ Len(inbox) \in Nat /\ Len(inbox) >= 1
  BY DEF IInv, TypeOK, AcceptDatagram
<1>2. NextId \in 0 .. MaxDatagrams - 1
  BY <1>1, BoundAssumption DEF IInv, TypeOK, WithinBound, NextId
<1>3. DOMAIN handed = 0 .. NextId - 1 /\ NextId \notin DOMAIN handed
  BY <1>2 DEF IInv, TypeOK
<1>4. handed' = [i \in DOMAIN handed \cup {NextId} |-> IF i = NextId THEN d ELSE handed[i]]
  BY DEF AcceptDatagram
<1>5. UNCHANGED <<offset, result>> /\ datagrams' = Append(datagrams, d)
  BY DEF AcceptDatagram
<1>6. ASSUME NEW id \in 0 .. NextId
      PROVE  id \in Unread' <=> id \in Unread \/ id = NextId
  <2>1. offset \in Nat /\ Len(datagrams) \in Nat /\ datagrams \in Seq(Datagram \cup {None})
    BY DEF IInv, TypeOK
  <2>2. id \in DOMAIN handed' /\ (id \in DOMAIN handed <=> id # NextId)
    BY <1>2, <1>3, <1>4
  <2>3. Slot(id)' = Slot(id)
    BY <1>5 DEF Slot
  <2>4. CASE id < offset
    BY <1>5, <2>1, <2>4 DEF Unread, NextId
  <2>5. CASE id >= offset /\ id # NextId
    <3>1. Slot(id) \in 1 .. Len(datagrams)
      BY <2>1, <2>5 DEF Slot, NextId
    <3>2. datagrams'[Slot(id)] = datagrams[Slot(id)] /\ Slot(id) \in DOMAIN datagrams'
      BY <1>1, <1>5, <2>1, <3>1
    <3> QED BY <1>5, <2>1, <2>2, <2>3, <2>5, <3>1, <3>2 DEF Unread
  <2>6. CASE id = NextId
    <3>1. Slot(id) = Len(datagrams) + 1
      BY <2>1, <2>6 DEF Slot, NextId
    <3>2. datagrams'[Slot(id)] = d /\ Slot(id) \in DOMAIN datagrams'
      BY <1>1, <1>5, <2>1, <3>1
    <3>3. d # None
      BY <1>1, PayloadAssumption
    <3>4. id >= offset
      BY <2>1, <2>6 DEF NextId
    <3> QED BY <1>5, <2>2, <2>3, <2>6, <3>2, <3>3, <3>4 DEF Unread
  <2> QED BY <2>1, <2>4, <2>5, <2>6
<1>7. Unread \subseteq 0 .. NextId /\ Unread' \subseteq 0 .. NextId
  BY <1>2, <1>3, <1>4 DEF Unread
<1>8. Unread' = Unread \cup {NextId}
  <2>1. NextId \in 0 .. NextId
    BY <1>2, BoundAssumption
  <2>2. \A id \in 0 .. NextId : id \in Unread' <=> id \in Unread \cup {NextId}
    BY <1>6
  <2> QED BY <1>7, <2>1, <2>2, Zenon
<1>9. Ids!HandOut(NextId, d)
  BY <1>3, <1>4, <1>5, <1>8 DEF Ids!HandOut
<1> QED BY <1>1, <1>2, <1>9

\* A read takes its id out of the unread ones, and no other: dropping slots
\* never touches one that is occupied.
LEMMA ReadRefines ==
    ASSUME IInv, NEW id \in DOMAIN handed, Read(id)
    PROVE  Ids!Read(id)
<1>1. result' = [id |-> id,
                 value |-> IF id \in Unread THEN handed[id] ELSE Closed]
  BY OutcomeIs DEF Read
<1>2. UNCHANGED handed
  BY DEF Read
<1>3. id \in 0 .. NextId - 1 /\ DOMAIN handed = 0 .. NextId - 1
  BY OutcomeIs DEF IInv, TypeOK
<1>4. Unread' = Unread \ {id}
  <2>1. CASE id < offset
    <3>1. UNCHANGED <<datagrams, offset, handed>>
      BY <1>3, <2>1 DEF Read, IInv, TypeOK
    <3>2. Unread' = Unread
      BY <3>1 DEF Unread, Slot
    <3>3. id \notin Unread
      BY <1>3, <2>1 DEF Unread, IInv, TypeOK
    <3> QED BY <3>2, <3>3
  <2>2. CASE id >= offset
    <3> DEFINE queue == [datagrams EXCEPT ![Slot(id)] = None]
    <3>1. id \in offset .. NextId - 1
      BY <1>3, <2>2 DEF IInv, TypeOK
    <3>2. Free(queue)
      BY <3>1 DEF Read
    <3>3. queue \in Seq(Datagram \cup {None}) /\ Len(queue) = Len(datagrams)
      BY <3>1, SlotOfId DEF IInv, TypeOK
    <3>4. ASSUME NEW j \in 1 .. Len(datagrams)
          PROVE  queue[j] = IF j = Slot(id) THEN None ELSE datagrams[j]
      BY <3>1, SlotOfId DEF IInv, TypeOK
    <3> HIDE DEF queue
    <3>5. /\ datagrams' \in Seq(Datagram \cup {None})
          /\ offset' \in Nat /\ offset' >= offset
          /\ offset' + Len(datagrams') = NextId
          /\ \A i \in 1 .. Len(datagrams') : datagrams'[i] = queue[i + (offset' - offset)]
          /\ \A i \in 1 .. offset' - offset : queue[i] = None
      BY <3>2, <3>3, FreeShifts DEF IInv
    <3>6. offset \in Nat /\ Len(datagrams) \in Nat /\ Len(datagrams') \in Nat
      BY <3>5 DEF IInv, TypeOK
    <3>domains. DOMAIN datagrams = 1 .. Len(datagrams) /\ DOMAIN datagrams' = 1 .. Len(datagrams')
      BY <3>5 DEF IInv, TypeOK
    <3>sum. offset' + Len(datagrams') = offset + Len(datagrams)
          /\ NextId = offset + Len(datagrams)
      BY <3>5 DEF NextId
    <3>7. ASSUME NEW n \in 0 .. NextId - 1
          PROVE  n \in Unread' <=> n \in Unread /\ n # id
      <4> DEFINE s  == n - offset + 1
                 s1 == n - offset' + 1
      <4>1. Slot(n) = s /\ Slot(n)' = s1 /\ (s = Slot(id) <=> n = id)
        BY <3>1, <3>5, <3>6 DEF Slot
      <4>positions. ASSUME n >= offset
            PROVE  /\ s \in 1 .. Len(datagrams)
                   /\ n < offset' => s \in 1 .. offset' - offset
                   /\ n >= offset' => /\ s1 \in 1 .. Len(datagrams')
                                      /\ s1 + (offset' - offset) = s
        <5>1. n \in 0 .. offset + Len(datagrams) - 1
          BY <3>6, <3>sum
        <5>2. offset' \in Nat /\ offset' >= offset
          BY <3>5
        <5>3. offset' + Len(datagrams') = offset + Len(datagrams)
          BY <3>sum
        <5> HIDE DEF s, s1
        <5>4. /\ n - offset + 1 \in 1 .. Len(datagrams)
              /\ n < offset' => n - offset + 1 \in 1 .. offset' - offset
              /\ n >= offset' => /\ n - offset' + 1 \in 1 .. Len(datagrams')
                                 /\ (n - offset' + 1) + (offset' - offset) = n - offset + 1
          <6> DEFINE a == offset'
                     b == Len(datagrams')
                     u == offset
                     v == Len(datagrams)
          <6>1. /\ a \in Nat /\ b \in Nat /\ u \in Nat /\ v \in Nat
                /\ a + b = u + v /\ a >= u /\ n \in 0 .. u + v - 1 /\ n >= u
            BY <3>6, <4>positions, <5>1, <5>2, <5>3
          <6> HIDE DEF a, b, u, v
          <6>2. /\ n - u + 1 \in 1 .. v
                /\ n < a => n - u + 1 \in 1 .. a - u
                /\ n >= a => n - a + 1 \in 1 .. b /\ (n - a + 1) + (a - u) = n - u + 1
            BY <6>1
          <6> QED BY <6>2 DEF a, b, u, v
        <5> QED BY <5>4 DEF s, s1
      <4>2. CASE n < offset
        <5>1. n \notin Unread /\ n \notin Unread'
          BY <3>5, <3>6, <4>2 DEF Unread
        <5> QED BY <5>1
      <4>3. CASE n >= offset /\ n < offset'
        <5>1. s \in 1 .. offset' - offset /\ s \in 1 .. Len(datagrams)
          BY <4>3, <4>positions
        <5>2. queue[s] = None
          BY <3>5, <5>1
        <5>3. n = id \/ datagrams[s] = None
          BY <3>4, <4>1, <5>1, <5>2
        <5>4. n \notin Unread'
          BY <3>5, <3>6, <4>3 DEF Unread
        <5>5. n \notin Unread \/ n = id
          BY <4>1, <5>3 DEF Unread
        <5> QED BY <4>3, <5>4, <5>5
      <4>4. CASE n >= offset'
        <5>1. n >= offset /\ s \in 1 .. Len(datagrams) /\ s1 \in 1 .. Len(datagrams')
              /\ s1 + (offset' - offset) = s
          <6>1. n >= offset
            BY <3>5, <3>6, <4>4
          <6> QED BY <4>4, <4>positions, <6>1
        <5>2. datagrams'[s1] = queue[s]
          <6>1. datagrams'[s1] = queue[s1 + (offset' - offset)]
            BY <3>5, <5>1
          <6> QED BY <5>1, <6>1
        <5>3. datagrams'[s1] = IF n = id THEN None ELSE datagrams[s]
          BY <3>4, <4>1, <5>1, <5>2
        <5>4. n \in Unread' <=> datagrams'[s1] # None
          <6>1. n \in DOMAIN handed'
            BY <1>2, <1>3
          <6> QED BY <3>domains, <4>1, <4>4, <5>1, <6>1 DEF Unread
        <5>5. n \in Unread <=> datagrams[s] # None
          <6>1. n \in DOMAIN handed
            BY <1>3
          <6> QED BY <3>domains, <4>1, <5>1, <6>1 DEF Unread
        <5> QED BY <5>3, <5>4, <5>5
      <4> QED BY <3>5, <3>6, <4>2, <4>3, <4>4
    <3>8. Unread \subseteq 0 .. NextId - 1 /\ Unread' \subseteq 0 .. NextId - 1
      BY <1>2, <1>3 DEF Unread
    <3> QED BY <3>7, <3>8, Zenon
  <2> QED BY <1>3, <2>1, <2>2 DEF IInv, TypeOK
<1> QED BY <1>1, <1>2, <1>4 DEF Ids!Read

LEMMA StepRefines == IInv /\ [Next]_vars => [Ids!Next]_(Ids!vars)
<1> SUFFICES ASSUME IInv, [Next]_vars PROVE Ids!Next \/ UNCHANGED Ids!vars
  BY DEF Ids!vars
<1>1. CASE ArriveStream
  BY <1>1 DEF ArriveStream, Ids!vars, Unread, Slot
<1>2. ASSUME NEW d \in Datagram, ArriveDatagram(d) PROVE UNCHANGED Ids!vars
  BY <1>2 DEF ArriveDatagram, Ids!vars, Unread, Slot
<1>3. CASE AcceptStream
  BY <1>3 DEF AcceptStream, Ids!vars, Unread, Slot
<1>4. CASE AcceptDatagram
  BY <1>4, AcceptRefines DEF Ids!Next
<1>5. ASSUME NEW id \in DOMAIN handed, Read(id) PROVE Ids!Next
  BY <1>5, ReadRefines DEF Ids!Next
<1>6. CASE UNCHANGED vars
  BY <1>6 DEF vars, Ids!vars, Unread, Slot
<1> QED BY <1>1, <1>2, <1>3, <1>4, <1>5, <1>6 DEF Next

\* The queue of datagrams with its moving offset implements the promise of
\* ReceivedDatagrams: ids are fresh, and each returns its own datagram, once.
THEOREM Refinement == Spec => ReadsOwn
  BY InitRefines, StepRefines, Inductive, PTL DEF Spec, ReadsOwn, Ids!Spec

=============================================================================
