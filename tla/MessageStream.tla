---------------------------- MODULE MessageStream ----------------------------
(***************************************************************************)
(* Messages on one stream of a connection: MessageStreamState (writer.rs)  *)
(* at the sending end, and the reader of the stream in MessageStreamReaders *)
(* (reader.rs) at the other, with a reliable, ordered stream of bytes of   *)
(* quinn between them.  The transport accepts no more bytes than its window *)
(* holds and gives the reader chunks of any size.                          *)
(*                                                                         *)
(* A message is its id and the bytes that postcard made of it, which are   *)
(* not looked into.                                                        *)
(*                                                                         *)
(* An operator marked "Faulty" is a plausible bug in the operator after it *)
(* and is used nowhere: substituted for it, it breaks the named property.  *)
(***************************************************************************)
EXTENDS VarInt, SequencesExt, Selections

CONSTANTS
    Message,        \* [id, payload] records that may be sent
    Window,         \* how many unread bytes the stream holds
    MaxMessages     \* bound: messages that are queued

ASSUME MessageAssumption ==
    /\ Message \subseteq [id : Nat, payload : Seq(Byte)]
    /\ \A m \in Message : FromU64(m.id) /\ FromU64(Len(m.payload))
ASSUME WindowAssumption == Window \in Nat \ {0}

VARIABLES
    buffer,     \* MessageStreamState::buffer: encoded messages, or their rest
    closed,     \* the sender has finished the stream
    wire,       \* the bytes of the stream that have not been read
    reader,     \* the MessageStreamReaderState, or "gone"
    chunk,      \* what read_streams has of a chunk that is not consumed
    received,   \* MessageStreamReaders::buffers: id -> payloads
    queued,     \* history: the messages pushed to buffer, in order
    written     \* history: the last write: was it to queue, what it returned

sender == <<buffer, closed, queued, written>>
receiver == <<reader, chunk, received>>
vars == <<sender, wire, receiver>>

MessageIds == {m.id : m \in Message}

ReceivingId == [state |-> "Id", decoder |-> VarIntDecoder]

Init ==
    /\ buffer = <<>>
    /\ closed = FALSE
    /\ wire = <<>>
    /\ reader = ReceivingId
    /\ chunk = <<>>
    /\ received = [id \in MessageIds |-> <<>>]
    /\ queued = <<>>
    /\ written = [queue |-> FALSE, returned |-> "true"]

-----------------------------------------------------------------------------
(* The sender. *)

Encoded(m) == Encode(m.id) \o Encode(Len(m.payload)) \o m.payload

\* One turn of the loop of MessageStreamState::flush, when the stream takes
\* `credit` more bytes, `buffer` is left and `wire` has been written.  A write to
\* a full stream is an error; a partial one ends the flush.
Turn(flush) ==
    LET front == Head(flush.buffer)
    IN  IF flush.buffer = <<>> \/ flush.returned # "true"
        THEN flush
        ELSE IF flush.credit = 0
        THEN [flush EXCEPT !.returned = "error"]
        ELSE IF flush.credit < Len(front)
        THEN [wire |-> flush.wire \o SubSeq(front, 1, flush.credit),
              buffer |-> <<SubSeq(front, flush.credit + 1, Len(front))>> \o Tail(flush.buffer),
              credit |-> 0, returned |-> "false"]
        ELSE [flush EXCEPT !.wire = @ \o front, !.buffer = Tail(@), !.credit = @ - Len(front)]

\* flush of `messages`: what is written, what is left, and what is returned.
Flush(messages, credit) ==
    LET after[n \in 0 .. Len(messages)] ==
            IF n = 0
            THEN [wire |-> <<>>, buffer |-> messages, credit |-> credit, returned |-> "true"]
            ELSE Turn(after[n - 1])
    IN  after[Len(messages)]

\* The bytes the stream takes when `unread` are on it.
Credit(unread) == Window - Len(unread)

FlushBuffer ==
    /\ ~ closed
    /\ LET flushed == Flush(buffer, Credit(wire)) IN
          /\ wire' = wire \o flushed.wire
          /\ buffer' = flushed.buffer
    /\ UNCHANGED <<closed, queued, written, receiver>>

\* The message does not enter the queue: the first flush failed, or it did not
\* empty the queue and the message is not to be queued.
Turned(first, queue) == first.returned = "error" \/ (first.returned = "false" /\ ~ queue)

\* Faulty (InOrder): a message that finds the queue busy goes in front of it.
QueueMessage(messages, bytes) == <<bytes>> \o messages

PushMessage(messages, bytes) == Append(messages, bytes)

\* MessageStreamState::write: flush, queue the message, flush again.  The
\* second flush may fail when the message is already queued.
WriteMessage(m, queue) ==
    /\ ~ closed
    /\ Len(queued) < MaxMessages
    /\ LET first  == Flush(buffer, Credit(wire))
           second == Flush(PushMessage(first.buffer, Encoded(m)), Credit(wire \o first.wire))
       IN  IF Turned(first, queue)
           THEN /\ wire' = wire \o first.wire
                /\ buffer' = first.buffer
                /\ written' = [queue |-> queue, returned |-> first.returned]
                /\ UNCHANGED queued
           ELSE /\ wire' = wire \o first.wire \o second.wire
                /\ buffer' = second.buffer
                /\ queued' = Append(queued, m)
                /\ written' = [queue |-> queue,
                               returned |-> IF second.returned = "error"
                                            THEN "error" ELSE "true"]
    /\ UNCHANGED <<closed, receiver>>

\* Faulty (NoneLostAtClose): a stream is closed with messages in its queue.
CloseQueued ==
    /\ ~ closed
    /\ closed' = TRUE
    /\ UNCHANGED <<buffer, queued, written, wire, receiver>>

\* MessageSender::close_unused_streams closes a stream whose queue is empty.
CloseUnused ==
    /\ ~ closed
    /\ buffer = <<>>
    /\ closed' = TRUE
    /\ UNCHANGED <<buffer, queued, written, wire, receiver>>

-----------------------------------------------------------------------------
(* The reader: one turn of read_streams at a time. *)

Gone == [state |-> "gone"]

\* connection.read(): some of the bytes, or that the stream is closed, which
\* removes the reader.
ReadChunk(n) ==
    /\ reader # Gone
    /\ chunk = <<>>
    /\ chunk' = SubSeq(wire, 1, n)
    /\ wire' = SubSeq(wire, n + 1, Len(wire))
    /\ UNCHANGED <<sender, reader, received>>

ReadClosed ==
    /\ reader # Gone
    /\ chunk = <<>> /\ wire = <<>> /\ closed
    /\ reader' = Gone
    /\ UNCHANGED <<sender, wire, chunk, received>>

\* Faulty (Delivered): what a step leaves of the chunk is dropped.
RestDropped(taken) == <<>>

\* What a step leaves of the chunk.
Rest(taken) == SubSeq(chunk, taken + 1, Len(chunk))

ReceiveId ==
    /\ chunk # <<>>
    /\ reader.state = "Id"
    /\ LET result == PushBytes(reader.decoder, chunk) IN
          /\ chunk' = Rest(result.taken)
          /\ reader' = IF result.done
                       THEN [state |-> "Length", id |-> result.value, decoder |-> VarIntDecoder]
                       ELSE [reader EXCEPT !.decoder = result.decoder]
    /\ UNCHANGED <<sender, wire, received>>

ReceiveLength ==
    /\ chunk # <<>>
    /\ reader.state = "Length"
    /\ LET result == PushBytes(reader.decoder, chunk) IN
          /\ chunk' = Rest(result.taken)
          /\ reader' = IF result.done
                       THEN [state |-> "Message", id |-> reader.id,
                             length |-> result.value, buffer |-> <<>>]
                       ELSE [reader EXCEPT !.decoder = result.decoder]
    /\ UNCHANGED <<sender, wire, received>>

\* Faulty (TypeOK): the rest of the chunk is taken for the message.
TakenAll == Len(chunk)

\* How much of the chunk belongs to the message.
Taken ==
    LET remaining == reader.length - Len(reader.buffer)
    IN  IF remaining < Len(chunk) THEN remaining ELSE Len(chunk)

ReceiveMessage ==
    /\ chunk # <<>>
    /\ reader.state = "Message"
    /\ LET bytes == reader.buffer \o SubSeq(chunk, 1, Taken) IN
          /\ chunk' = Rest(Taken)
          /\ IF Len(bytes) = reader.length
             THEN /\ reader' = ReceivingId
                  /\ received' = [received EXCEPT ![reader.id] = Append(@, bytes)]
             ELSE /\ reader' = [reader EXCEPT !.buffer = bytes]
                  /\ UNCHANGED received
    /\ UNCHANGED <<sender, wire>>

-----------------------------------------------------------------------------

Read ==
    \/ \E n \in 1 .. Len(wire) : ReadChunk(n)
    \/ ReadClosed
    \/ ReceiveId
    \/ ReceiveLength
    \/ ReceiveMessage

Next ==
    \/ \E m \in Message, queue \in BOOLEAN : WriteMessage(m, queue)
    \/ FlushBuffer
    \/ CloseUnused
    \/ Read

Spec == Init /\ [][Next]_vars

\* Both ends run in a schedule that comes round again: the application flushes
\* a sender that it uses, and read_streams visits every reader.
Fairness == WF_vars(FlushBuffer) /\ WF_vars(Read)

LiveSpec == Spec /\ Fairness

-----------------------------------------------------------------------------
(* Properties. *)

PayloadsIn(id, messages) ==
    LET own == Only(messages, {m \in Message : m.id = id})
    IN  [n \in DOMAIN own |-> own[n].payload]

PayloadsOf(id) == PayloadsIn(id, queued)

Delivers(id) == received[id] = PayloadsOf(id)

\* The types of the variables.  The code relies on one that Rust's do not say:
\* the buffer of a message never outgrows its length, which is subtracted from.
TypeOK ==
    /\ buffer \in Seq(Seq(Byte) \ {<<>>})
    /\ closed \in BOOLEAN
    /\ wire \in Seq(Byte) /\ Len(wire) <= Window
    /\ chunk \in Seq(Byte) /\ Len(chunk) <= Window
    /\ \/ reader = Gone
       \/ reader.state = "Id" /\ reader.decoder.received <= Limit
       \/ /\ reader.state = "Length" /\ reader.decoder.received <= Limit
          /\ reader.id \in MessageIds
       \/ /\ reader.state = "Message" /\ reader.id \in MessageIds
          /\ Len(reader.buffer) <= reader.length
    /\ received \in [MessageIds -> Seq(Seq(Byte))]
    /\ queued \in Seq(Message)
    /\ written \in [queue : BOOLEAN, returned : {"true", "false", "error"}]

\* The stream is a channel of messages: what is pending is what was queued and
\* has not been received, and it ends when the reader is removed.
Channel == INSTANCE MessageChannel WITH
    Id        <- MessageIds,
    pending   <- [id \in MessageIds |->
                    SubSeq(PayloadsOf(id), Len(received[id]) + 1, Len(PayloadsOf(id)))],
    delivered <- received,
    state     <- IF reader = Gone THEN "ended" ELSE IF closed THEN "closed" ELSE "open"

IsChannel == Channel!Spec

\* The messages of an id are those queued with it, whole and in the order of
\* write, whatever was partial in a flush, a chunk, or an error of write.
InOrder == \A id \in MessageIds : IsPrefix(received[id], PayloadsOf(id))

\* close_unused_streams loses no message: when the reader finds the stream
\* closed and is removed, what was queued on it has been delivered.
NoneLostAtClose == reader = Gone => \A id \in MessageIds : Delivers(id)

\* A message that write has queued is delivered, if the sender is flushed and
\* the streams are read, whether or not write reported an error.
Delivered == \A n \in 1 .. MaxMessages :
    Len(queued) >= n ~>
        /\ Len(queued) >= n
        /\ LET id == queued[n].id
           IN  Len(received[id]) >= Len(PayloadsIn(id, SubSeq(queued, 1, n)))

\* "if we received the whole message update the state and push the message to
\* its sorted buffer" (reader.rs:112): a reader that waits for more bytes
\* holds no whole message.  A message of length zero breaks it: it is pushed
\* only when bytes of the next one arrive.
WholeMessageIsPushed ==
    chunk = <<>> /\ reader.state = "Message" => Len(reader.buffer) < reader.length

\* "If `queue` is true the message will be queued to send even if the stream
\* is congested." (writer.rs:197): write of a message to queue is no error.
\* A full stream is: the first flush's error leaves the message unqueued, the
\* second flush's is returned though the message is queued.
QueuedWhenAsked == written.queue => written.returned = "true"

=============================================================================
