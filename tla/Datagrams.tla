------------------------------ MODULE Datagrams ------------------------------
(***************************************************************************)
(* The receiving side of a QUIC connection as accept_stream and read offer *)
(* it (crates/nevy_transport, protocols/quic/connection.rs).  quinn hands  *)
(* out streams and datagrams; a datagram is kept in a queue of the         *)
(* connection, and the id of the stream it becomes is its position there,  *)
(* counted from the first datagram ever.  Reading takes it out of its      *)
(* slot, and slots that are empty at the front are dropped, so that the    *)
(* position of an id moves while the id stays.                             *)
(*                                                                         *)
(* An operator marked "Faulty" is a plausible bug in the operator after it *)
(* and is used nowhere: substituted for it, it breaks the named property.  *)
(***************************************************************************)
EXTENDS Naturals, Sequences

CONSTANTS
    Datagram,       \* payloads
    None,           \* an empty slot
    Closed,         \* StreamReadError::Closed
    Missing,        \* the error of an id "higher than should exist"
    MaxDatagrams,   \* bound: datagrams handed out
    MaxStreams,     \* bound: streams that wait in quinn
    MaxInbox        \* the capacity of quinn's buffer of datagrams

ASSUME PayloadAssumption == {None, Closed, Missing} \cap Datagram = {}
ASSUME OutcomeAssumption == Closed # Missing
ASSUME BoundAssumption ==
    MaxDatagrams \in Nat /\ MaxStreams \in Nat /\ MaxInbox \in Nat \ {0}

VARIABLES
    streams,    \* how many streams quinn has ready
    inbox,      \* the datagrams quinn has received
    datagrams,  \* the queue: payloads and None
    offset,     \* datagrams_queue_offset
    result,     \* the last read of a datagram: its id and what it returned
    handed      \* history: id -> the datagram handed out with it

vars == <<streams, inbox, datagrams, offset, result, handed>>

NoRead == [id |-> 0, value |-> Closed]

Init ==
    /\ streams = 0
    /\ inbox = <<>>
    /\ datagrams = <<>>
    /\ offset = 0
    /\ result = NoRead
    /\ handed = [id \in {} |-> Closed]

\* Faulty (ReadsOwn): the position in the queue, not counted from the start.
NextPosition == Len(datagrams)

\* The id of the stream that the next datagram becomes.
NextId == offset + Len(datagrams)

-----------------------------------------------------------------------------
(* quinn receives.  A full buffer loses its oldest datagram. *)

ArriveStream ==
    /\ streams < MaxStreams
    /\ streams' = streams + 1
    /\ UNCHANGED <<inbox, datagrams, offset, result, handed>>

ArriveDatagram(d) ==
    /\ NextId + Len(inbox) < MaxDatagrams
    /\ inbox' = Append(IF Len(inbox) = MaxInbox THEN Tail(inbox) ELSE inbox, d)
    /\ UNCHANGED <<streams, datagrams, offset, result, handed>>

-----------------------------------------------------------------------------
(* accept_stream: streams first, of either direction, then a datagram. *)

AcceptStream ==
    /\ streams > 0
    /\ streams' = streams - 1
    /\ UNCHANGED <<inbox, datagrams, offset, result, handed>>

\* The history records each datagram under the id that its stream was given.
AcceptDatagram ==
    /\ streams = 0
    /\ inbox # <<>>
    /\ inbox' = Tail(inbox)
    /\ datagrams' = Append(datagrams, Head(inbox))
    /\ handed' = [i \in DOMAIN handed \cup {NextId} |->
                     IF i = NextId THEN Head(inbox) ELSE handed[i]]
    /\ UNCHANGED <<streams, offset, result>>

-----------------------------------------------------------------------------
(* read, of a stream that is a received datagram. *)

\* The queue after the empty slots at its front are dropped: k of them.
LeadingEmpty(queue, k) ==
    /\ \A i \in 1 .. k : queue[i] = None
    /\ k < Len(queue) => queue[k + 1] # None

\* Faulty (FrontIsUnread): one empty slot at most is dropped.
FreeOne(queue) ==
    LET k == IF Head(queue) = None THEN 1 ELSE 0 IN
    /\ datagrams' = SubSeq(queue, k + 1, Len(queue))
    /\ offset' = offset + k

\* Faulty (NoneIsMissing): every empty slot is dropped, and only those in front
\* are counted.
FreeEmpty(queue) ==
    LET full == SelectSeq(queue, LAMBDA d : d # None) IN
    /\ datagrams' = full
    /\ \E k \in 0 .. Len(queue) : LeadingEmpty(queue, k) /\ offset' = offset + k

Free(queue) ==
    \E k \in 0 .. Len(queue) :
        /\ LeadingEmpty(queue, k)
        /\ datagrams' = SubSeq(queue, k + 1, Len(queue))
        /\ offset' = offset + k

\* The slot that the datagram with this id is in, 1 being the front.
Slot(id) == id - offset + 1

Outcome(id) ==
    CASE id < offset -> Closed
      [] id >= offset + Len(datagrams) -> Missing
      [] OTHER -> IF datagrams[Slot(id)] = None THEN Closed ELSE datagrams[Slot(id)]

\* The application reads a stream that it was handed, perhaps again.
Read(id) ==
    /\ result' = [id |-> id, value |-> Outcome(id)]
    /\ IF id \in offset .. NextId - 1
       THEN Free([datagrams EXCEPT ![Slot(id)] = None])
       ELSE UNCHANGED <<datagrams, offset>>
    /\ UNCHANGED <<streams, inbox, handed>>

Next ==
    \/ ArriveStream
    \/ \E d \in Datagram : ArriveDatagram(d)
    \/ AcceptStream
    \/ AcceptDatagram
    \/ \E id \in DOMAIN handed : Read(id)

Spec == Init /\ [][Next]_vars

-----------------------------------------------------------------------------
(* Properties. *)

\* Every variable keeps to its range, through all of the operations.
TypeOK ==
    /\ streams \in 0 .. MaxStreams
    /\ inbox \in Seq(Datagram)
    /\ datagrams \in Seq(Datagram \cup {None})
    /\ offset \in Nat
    /\ result \in [id : Nat, value : Datagram \cup {Closed, Missing}]
    /\ handed \in [0 .. NextId - 1 -> Datagram]

\* The datagrams that are still in the queue.
Unread ==
    {id \in DOMAIN handed :
        id >= offset /\ Slot(id) \in DOMAIN datagrams /\ datagrams[Slot(id)] # None}

\* Each id is fresh and returns its own datagram, once: the queue, its moving
\* offset and the dropping of empty slots carry out what ReceivedDatagrams says.
Ids == INSTANCE ReceivedDatagrams WITH
    unread <- Unread, Id <- 0 .. MaxDatagrams - 1, NoRead <- NoRead
ReadsOwn == Ids!Spec

\* A stream that accept_stream handed out never has an id that its queue has
\* not reached: read's error for "a higher index than should exist" is dead.
NoneIsMissing == result.value # Missing

\* What has been read is freed, up to the first datagram that has not been: the
\* front of the queue is never an empty slot.
FrontIsUnread == datagrams # <<>> => Head(datagrams) # None

=============================================================================
