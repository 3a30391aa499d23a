# A TLA+ model of nevy

nevy is a networking layer for the bevy game engine. It offers type erased
transports to the systems of an application (`crates/nevy_transport`, with QUIC
over `quinn_proto` as the one implementation) and typed messages on top of them
(`crates/nevy_messages`). This directory models the part of it that keeps state:
the lifecycle of QUIC connections, received datagrams, variable length integers,
messages on a stream, the senders that keep a stream for each connection, and the
protocols by which messages reach the receivers of their types. TLC checks the models on small instances and TLAPS
proves the safety properties and the refinements for all of them.

## The system

Everything runs on one thread at a time, in bevy's schedule. What makes the code
hard is that the steps of one connection are spread over observers, which run at
once inside of an insertion or a removal, a system that runs once per tick, the
commands which that system queues for later, and `quinn_proto`, which has a state
of its own and hands out handles that it uses again.

| Component | State | Operations | Hard part |
|---|---|---|---|
| QUIC endpoint (`protocols/quic/endpoint.rs`) | `connection_handles` (entity to handle), `connections` (handle to connection and its entity), `send_buffer`; quinn's slab; the components `ConnectionOf`, `ConnectionStatus`, `IncomingQuicConnection`, `QuicConnectionClosedReason` | observers `create_connections`, `remove_connections`, `refuse_connections`; system `update_endpoints` (`receive_datagrams`, `update_connections`); `get_connection`, `close` | handles that are used again, deferred commands, a close racing quinn's events, drained events, failing handshakes |
| Received datagrams (`protocols/quic/connection.rs`) | `datagrams`, `datagrams_queue_offset` | `accept_stream`, `read` | an id is a position in a queue that is freed from the front |
| Streams of a connection (`connection.rs`) | none of its own: quinn's streams | `new_stream`, `write`, `read`, `close_send_stream`, `close_recv_stream` | a write to a full stream is an error, a short write is not |
| Integers (`varint.rs`) | `VarIntDecoder` | `encode`, `push_byte`, `push_bytes` | chunk boundaries, the shift limit |
| Writer (`writer.rs`) | `MessageStreamState::buffer`; one per connection in `MessageSenderState` | `flush`, `write`, `close_unused_streams`, `close_all_streams` | partial writes, errors in the middle, several connections in one loop |
| Reader (`reader.rs`) | `MessageStreamReaders`: reader states and `buffers` | `accept_streams`, `read_streams` | chunks of any size, streams that close |
| Protocol (`protocol.rs`) | `Protocol::messages`, `lookup` | `init_protocol`, `add_protocol_message`, `include_protocol`, two observers | ids are positions, both ends must agree |
| Deserialization (`deserialize.rs`) | `ReceivedMessages` | `deserialize_messages` | order, undecodable messages |
| Plugins, examples | none | wiring of systems and sets | order of the sets |

What must be right, component by component:

- endpoint: the tables of the endpoint, quinn's slab and the `ConnectionOf`
  components agree at all times; no handle is leaked or given back twice; an
  incoming connection is answered; the status of an entity tells the state of its
  connection and reports a loss once and for all; a close ends;
- datagrams: an id reads the datagram it was handed out for, once;
- integers: decoding is the inverse of encoding on a stream, and takes exactly
  the bytes of the integer;
- messages: whole, in order, none lost when the stream is closed, all delivered
  in the end;
- senders: an error on one connection loses nothing of another one, and delays it
  only while it lasts; a stream is neither forgotten open nor kept closed;
- protocol: the same calls give the same ids, and ids never change;
- deserialization: a type's receiver gets the messages of the type, once and in
  order, whatever happens to other connections.

## Modules

| Module | Contents |
|---|---|
| `QuicEndpoint` | the endpoint, the world's components, quinn's slab |
| `MCQuicEndpoint` | symmetry of entities and handles |
| `QuicEndpointProofs` | inductive invariants of `QuicEndpoint` and its theorems: of the tables, and of what is reported to the world |
| `ReceivedDatagrams` | what a stream that is a received datagram promises (abstract) |
| `Datagrams` | the queue that keeps the promise; `Ids` is the refinement mapping |
| `MCDatagrams` | symmetry of payloads |
| `DatagramsProofs` | inductive invariant of `Datagrams`, and the refinement |
| `VarInt` | encoding and decoding as operators; used by the modules of streams below |
| `VarIntProofs` | the decoder inverts the encoder, from any cut on; code words laid on a stream |
| `VarIntChannel`, `MCVarIntChannel` | integers through a byte stream cut into chunks |
| `VarIntChannelProofs` | inductive invariant of `VarIntChannel` and its theorems |
| `MessageChannel` | what a message stream promises to its two ends (abstract) |
| `MessageStream`, `MCMessageStream` | writer and reader of one message stream; `Channel` is the refinement mapping |
| `MessageStreamProofs` | inductive invariant of `MessageStream`, its theorems, and the refinement |
| `MessageSender` | a sender's map of streams, and the loops over it, for several connections |
| `MessageSenderProofs` | inductive invariant of `MessageSender` and its theorems |
| `Protocol` | ids of messages while two applications are built; extended by `Messages` |
| `Selections` | the elements of a sequence that belong to a set, as a recursive function |
| `SelectionsProofs` | what it yields, on concatenations above all; induction over sequences |
| `Messages`, `MCMessages` | a server's observers and receiving systems; programs of the applications |
| `MessagesProofs` | inductive invariants of `Protocol` and of `Messages`, and the theorems of both |

Operators marked "Faulty" in the modules are plausible bugs in the operator that
follows. Nothing uses them; substituting one for its original breaks the property
that its comment names, which shows that the property watches that code.

### QuicEndpoint

State: `connectionHandles` and `connections` are the fields of
`QuicEndpoint`; `life`, `connectionOf`, `status`, `incoming` and `closedReason`
the entities and their components; `slab` is quinn's. Of a
`quinn_proto::Connection` four states are kept, and the events that it has queued
and the endpoint has not polled. `phase`, `todo` and `commands` say where in the
tick the system is. `inserts` bounds how often `ConnectionOf` is inserted, and
`verdict` remembers what became of a peer's attempt.

An insertion or removal by the application is one action with the observers that
it triggers: `AcceptConnection`, `AcceptFails`, `OpenConnection`, `OpenFails`,
`OpenUnconfigured`, `RemoveConnectionOf`, `RefuseConnection`, `Despawn`. Inserting
`ConnectionOf` over an old one first runs `remove_connections` (`Dropped`). `Close`
raises the flag. The update is `BeginUpdate`, any number of packets
(`HandleIncomingConnection`, `HandleConnectionEvent`; a packet that quinn answers by
itself, or refuses because there is no `server_config`, changes nothing here),
`FinishReceive`, one `UpdateConnection` for each entry in any order (it is a hash
map), `FinishUpdate`; then the commands are applied one at a time, with actions of
the application in between, as its observers may act there. The components that an
observer's own commands insert (`Failed`) or remove are part of the observer's
action, because they are applied before the application runs again.

quinn is modelled from how the code uses it: `accept` and `connect` return a free
slot of the slab; a drained event, or the application of one by
`remove_connections`, frees the slot; a local close leads to no event but the drain
after the close timer; the peer's close, a reset and the idle timer lead to
`ConnectionLost`.

### ReceivedDatagrams and Datagrams

`ReceivedDatagrams` says: `accept_stream` hands out a datagram under an id never
used before; the first `read` of the id returns it, later ones that it is closed.
`Datagrams` has quinn's buffers, the queue and its offset. `Unread` maps the queue
to the abstract state, and `ReadsOwn` is the refinement.

### VarInt and VarIntChannel

`GroupBits` and `Limit` are 7 in the code. Shifts and masks are written as quotients,
products and remainders with `Power`, the powers of two (a function, since the prover
knows no `^`); or-ing a shifted group adds it, since they share no bit. The loop of
`encode` is given by its turns: before the one that pushes byte `n` the loop has
`Left(value, n - 1)`, and it ends after `Size(value)` of them.
`encode` does not stop at the decoder's limit: an integer of 2^56 or more is
written in nine bytes of which the decoder takes eight. No message id or length of
the library can be that large, so the runs take the integers below
`Power[GroupBits * (Limit + 1)]`.

### MessageStream

`buffer` is the writer's queue, `wire` the bytes between the ends, `chunk` the
bytes that one `connection.read` returned and the loop of `read_streams` has not
used, `reader` the `MessageStreamReaderState`, `received` the `buffers`. `Flush`
is the loop of `flush`, a `Turn` for each buffer, on the bytes that fit in the window: nothing fits is quinn's
error, which `?` passes on; something fits is `Ok(false)`. `WriteMessage` is the
whole of `write`, with both flushes and all four ways out. Each match arm of the
reader is an action. Payload bytes are not looked into. `queued` and `written` are
history.

`MessageChannel` says the same without bytes: for each id a queue of messages, a
close, and an end that comes when all queues are empty. `Channel` maps what was
queued and is not received to the pending messages, and `IsChannel` is the
refinement; a message counts as sent when `write` queues it, whatever it returns.

### MessageSender

`streams` is the map of `MessageSenderState`, `order` the order in which it yields
its entries, any permutation, drawn again when an entry is added. `link` says what
the sender finds when it looks at an entity: no `ConnectionOf` ("none"), a connection
("open"), one that has ended ("closed"), or "absent": `ConnectionOf` is there and
`get_connection` finds nothing. Drained or not, a connection that has ended keeps its
entry in `connections`, and `get_connection` goes on to return it; a flush of an empty
queue and the closing of a stream succeed on it. The entry is missing if `connect` or
`accept` failed, or if quinn gave the handle to another entity, whose entry took its place
and has been removed (`Displace`). While that other entity has its connection,
`get_connection` returns this one: `GetConnectionIsOwn` shows it for the endpoint, and
`MessageSender` leaves it out, so that a connection which is returned is the entity's own.
`QuinnStream` is a send stream, with the history of who opened it and what was queued
for it.

`Flush`, `CloseUnusedStreams`, `CloseAllStreams` and `Write` are whole calls. `Reached`
is what the `?` in a loop leaves to be worked on: the entries up to the first that
fails. What comes after the loop (`Removed`) happens if none does. A message is two
units, so that the transport can take half of it. Between calls the connections end,
are displaced, removed and replaced, peers read, and others open streams.

`failed` is history. A `close_all_streams` that returned an error has forgotten
streams that are open, one `close_unused_streams` has kept streams that are closed:
`ForgottenIsClosed` and `KeptIsOpen` hold until then, and say that nothing else does
either of it: they do not speak of what those errors leave (writer.rs:264, writer.rs:280).

### Protocol and Messages

A program is the sequence of calls of `ProtocolBuilder` that an application makes;
client and server run theirs independently. `InitProtocol`, `AddProtocolMessage` and
`IncludeProtocol` make the next call, or panic. `MCMessages` has three pairs of
programs: two that make the same calls on each protocol in different order, a client
whose protocol is larger than the server's, and a server that panics.

`Messages` goes on when both run. `InsertConnectionOf` and `InsertConnectionProtocol`
are insertions with the observers that they trigger, down to the `ReceivedMessages`
of each type (`Assign`), which may be several protocols in an order that is bevy's.
`ReadStreams` is `accept_streams` and `read_streams` with messages as units, as
`MessageStream` delivers them; `DeserializeMessages` is `deserialize_messages` of one
type. Both loops end at the first entity that fails (`Reached`). postcard may decode
the bytes of one type as another (`lucky`).

What the server keeps of connections outlives them, in two ways. `handles` is
`connection_handles`, which nothing is ever removed from; `connections` and `open` are the
entities whose own connection has an entry in the endpoint's map, and those of them
whose connection has not ended. `NewConnection` gives out a handle as quinn's slab does: a
new one, or one whose connection has ended (`End`), the entry of which is overwritten.
`Found` is `get_connection`: it goes by the handle, and so may yield another entity's
connection. And `MessageStreamReaders` stays on the entity with what it has of a
message. `arrived` is what a client has written and the server not read to the end, and
the last message of it may have come in part (`cut`, `Arrive`). A reader that has read such
a part is "inside". If the connection goes then, the reader takes the bytes of the next
connection's stream, which has the same id, for the rest of the message; and if the
handle of an entity leads to the streams of another, its reader takes what the other's
should have. From then on the readers concerned are "astray", and what they make of bytes
is any of what is possible in `Garbled`: nothing, a message with an id and bytes that
nobody sent, or the messages as they are, by luck. A reader that was between two messages
goes on in step. Of the senders, `Messages` has only that the client writes whole
messages in order.

A system or an observer that returns an error is taken to be logged and run again.
bevy's default handler panics instead, which ends the application; the models are
about one that goes on.

## What the runs show

Passing:

| Run | Instance | Shows |
|---|---|---|
| `endpoint_safety` | 2 entities, 2 handles, 2 insertions each, failing accepts | `SlabAgreement`, `OwnerReachesConnection`, `IncomingIsKept`, `StatusReflectsState`, `LossIsFinal`, `TypeOK` |
| `endpoint_live` | 2 entities, 1 handle, 1 insertion each, accepts succeed | `CloseReleasesHandle`, `ConnectingResolves` |
| `datagram_ids` | 5 datagrams of 2 payloads, buffer of 2, 1 stream | `ReadsOwn` (refinement), `NoneIsMissing`, `FrontIsUnread`, `TypeOK` |
| `varint_channel` | groups of 2 bits, 3 bytes, all 64 integers, 2 sent | `RoundTrip`, `Synchronous` |
| `message_delivery` | 3 messages, ids and lengths of 1 and 2 bytes, window 4 | `IsChannel` (refinement), `InOrder`, `NoneLostAtClose`, `Delivered`, `TypeOK` |
| `sender_loops` | 2 entities, 3 connections, 2 messages, 1 stream at a time, window of half a message | `Conserved`, `ForgottenIsClosed`, `KeptIsOpen`, `QueuedIsSent`, `TypeOK` |
| `messages_delivery` | 3 pairs of programs, 2 types, 2 protocols, 2 entities, 2 handles, 2 messages, 2 insertions | `LookupIsInverse`, `IdsAreStable`, `SameCallsSameIds`, `Accounted`, `TypedInOrder`, `ReceiversHaveIds`, `Received`, `TypeOK` |

Violated, each a place where the code does not do what its text says:

| Run | Property | What happens |
|---|---|---|
| `endpoint_get_connection` | `GetConnectionIsOwn` | a connection drains, quinn reuses its handle for another entity, and `get_connection` of the first entity returns the second one's connection |
| `endpoint_close_reported` | `CloseIsReported` | `close()` and the end of the handshake meet in one update: `Closed`, then `Established` is inserted, and no later event corrects it |
| `message_empty` | `WholeMessageIsPushed` | a message of length zero waits for bytes of a next one |
| `message_queue` | `QueuedWhenAsked` | a full stream makes `write` fail with `queue` set; the message is queued in one case and not in the other |
| `sender_own_stream` | `OnlyOnOwnStream` | an entity gets another connection before the next flush: the sender goes on with the stream id of the old one, which on the new one is a stream that somebody else opened |

What was met while modelling and is no run, since the text alone shows it:

- a local close inserts `ConnectionStatus::Closed` without the
  `QuicConnectionClosedReason` that endpoint.rs:36 announces (endpoint.rs:479);
- `refuse_connections` does not clear `send_buffer` (endpoint.rs:255), to which quinn
  appends: a second refusal is sent behind the bytes of the first;
- `ConnectionProtocol` inserted on an endpoint is not put on the connections that the
  endpoint has already, though protocol.rs:25 says all connections; the observer runs
  when a connection comes (protocol.rs:170);
- `ConnectionProtocol` inserted on an entity before its `ConnectionOf` has no effect,
  then or later (protocol.rs:200);
- `LocalMessageSenderUnrel` is reliable and unordered, `LocalMessageSenderUnord`
  unreliable and ordered: writer.rs:127 and 128 swap the parameters.

Bounds and why they are enough. Two entities and two handles let a handle move from
one entity to another while the first still refers to it, which is the case all the
tables are about; a second insertion covers replacement and reuse of an entity. The
liveness run has one handle so that the entities must wait for each other's
connection to end, which needs the stale reference as well; connections on
different handles share nothing that liveness depends on. The slab has no more
slots than `Handle`; with no free slot nothing is opened. Five datagrams let the
queue be freed by several slots at a time, be emptied and be used again. Two
integers are enough for one to end inside of a chunk that the next begins in; three
bytes give a first, a middle and a last one. A window of 4 bytes is shorter than an
encoded message, so that flushes and chunks divide ids, lengths and payloads.
In `sender_loops` three connections for two entities let the entry of one entity be missing
while the other has a second connection, a limit of one stream makes a sender find no stream to
open, and a window of half a message makes each message be sent in parts; the
violation has two streams, one of them another's. In `messages_delivery` two
insertions, those on the endpoint included, let one entity have two protocols, or a second
connection that its reader enters inside of a message or not, or let a second entity get the
handle of the first; two messages let one be read before the connection is replaced and
one after, or one go to the reader of another entity. Without the condition on readers in
`TypedInOrder` and `Accounted` this instance violates both. Deadlock is not checked in `datagram_ids`, `varint_channel` and the runs of
`MessageStream`, whose senders stop at their bound, nor in `messages_delivery`, where a
panic ends a program.

Symmetry is used in the runs that check no liveness; entities, handles and payloads
are only compared for equality.

### Fairness

`QuicEndpoint`: weak fairness of `Update`, since bevy runs the schedule again and
again and `update_endpoints` ends when the socket is dry; nothing forces a packet
to arrive or the application to act. Strong fairness of `TimerExpires(h)` for a
connection in its handshake or closed: `poll_timeout` is asked in each update, and
those timers do not get extended by a peer that is silent. An open connection may
live for ever.

`MessageStream`: weak fairness of `FlushBuffer` (shared senders are flushed once
per tick by `flush_shared_message_sender`; for a local sender its documentation asks
the application for it) and of `Read` (`read_streams` visits all readers each tick).
Writing and closing are not fair.

`MessageSender`: weak fairness of `Flush` (once per tick) and of `PeerReads`.
`QueuedIsSent` needs in addition that no entry stays stuck (`Stuck`): one for which
`get_connection` finds nothing, or one that has data queued for a stream that takes none,
since its connection has ended or the stream on it is finished. Such an entry makes every
flush fail, and the entries behind it in the map starve; the application has to remove
`ConnectionOf`, which lets the next flush that gets there drop the entry. An entry
without queued data is no obstacle, whatever became of its connection. A peer that does not read makes flushes fail as well, but
since all peers read in the end, the property holds whoever else is congested.

`Messages`: weak fairness of `ReadStreams` and of `DeserializeMessages` of each type,
since their schedule comes round again. `Received` holds if no entity goes on to make
the loops fail. A connection that has ended does not: it is found, and what has come on it is
read, which `Received` asks for. An entity does (`Failing`) for which `get_connection`
finds nothing, since its connection never came to be or the entry that its handle leads to
has been removed, and one that has a receiver of a type without an id (`ReceiversHaveIds`
says that only a second protocol leads to that).

`ConnectingResolves` is checked with `AcceptMayFail` FALSE. When `accept()` fails
(endpoint.rs:115) the entity keeps `ConnectionOf` and stays `Connecting` for ever,
and there is no connection behind it, although the repository's README says
(line 56) that a `Connection` state can be retrieved whenever a `ConnectionOf`
exists. A failing `connect()` leaves `ConnectionOf` too, with the status `Failed`.

## What is proved

The proofs hold for any sets of entities, handles and datagrams, any window and limit
on streams, and any bounds, from the named assumptions of the modules, and for those about
integers and message streams from the hypotheses named there.

`QuicEndpointProofs`: `TypeCorrect`, `SlabAgrees`, `OwnerReaches`. The invariant
`IInv` adds two facts to the properties. `VacantIsClean`: a handle without an entry
has no flags. `DrainIsPending`: a drained event that quinn has not been told of
exists only during an update, for an entry that the update will still visit. The
second is why the test of `is_drained()` in `remove_connections` is right: an
observer never sees a drained connection whose slot is still taken. Without it
`SlabAgreement` is not inductive, since an observer could give back a slot that the
pending event gives back again. The lemmas `DroppedIsOwned` and `DropKeepsTables`
treat `remove_connections` once for all actions that run it, and the proof of the
step has a case for each action.

In the same module, `IncomingKept`, `StatusReflects` and the action property
`LossFinal`. All three are about commands that reach a world which changed after they were
queued, and hold by `RInv`, which is `IInv` and `Reports`. For an entity `e`, `Waits(e)`
says that a peer's attempt is in the queue, with `e` only reserved, or in a component of
`e`, and never in both or twice in the queue. `EndsWithLoss(e)` says that after the loss
of the only connection of `e` nothing queued, and nothing that quinn has yet to return,
would insert `Established`; `LossIsFinal` follows for each step. `IsReported(e)` says where
the news of a state is: with quinn, in the queue, or in the components. Between updates
the first two are empty (`QueueFollowsPhase`, `EventsArePending`), which leaves
`StatusReflectsState`. `Untouched(e)` is there for the first `ConnectionOf` of an entity,
which must not find a command or a status of an earlier one.

`VarIntProofs`: `PushBytesDecodes`. A value is the sum of the groups that were taken from
it and what is left (`Places`), so that the decoder after `n` bytes of its encoding holds
the value without what is left (`Partial(v, n)`, `GrownIs`), and the byte after which
nothing is left is the one that ends it (`PushBytesIs`). `Lies` says where code words lie
that were put on a stream one after another and partly taken from it again; `LiesMore` and
`LiesLess` are the two ends of the stream.

`VarIntChannelProofs`: `Decodes` (`RoundTrip`) and `TakesAll` (`Synchronous`). The invariant
adds `InStep`: with `k` integers received, the bytes that are left are those of the others,
the first of which may have been pushed in part, and the decoder has exactly that part.
Both theorems have a hypothesis, that the integers sent are below
`Power[GroupBits * (Limit + 1)]` (`Fits`): `from_u64` accepts one bit more, for which they
are false, as said above.

`MessageStreamProofs`: `TypeCorrect`, `InOrderAlways` (`InOrder`), `NoneLost`
(`NoneLostAtClose`), `OnlyLastIsLost` and `Refinement` (`IsChannel`). None of the
properties is inductive: they speak of messages, the steps move bytes. The invariant
`StreamInv` says that for some `k` the reader has received the first `k` messages of
those queued (`Received`), and that `Unread`, the bytes in the chunk, on the wire and in
the writer's buffers joined in this order, are what the encodings of the queued messages
have from a place in message `k + 1` on, a place which the reader's state tells
(`ReaderAt`: so many bytes of the id, of the length or of the payload, with the decoder
holding the part it was pushed). A flush does not change `Unread`, however it ends
(`FlushDivides`, `FlushMoves`), nor does taking a chunk; a write appends one encoding; each
arm of the reader moves the place by what it consumes, from the lemmas on the decoder in
`VarIntProofs`. A reader that is gone has found the stream closed and read to the end,
where all that can be lacking is a last message without a payload (`Complete`). In the
refinement what is pending is the payloads behind the first `k`: a write that queues
appends to them (`PendingWrite`), a message that is received was their first
(`PendingReceive`), and all other steps stutter.

All these theorems have the hypothesis that ids and lengths are of those the decoder takes
(`Fits`, as above). `NoneLost` and `Refinement` have a second one, that no payload is empty:
a unit struct has no bytes in postcard, `WholeMessageIsPushed` is violated for it, and if
it is the last of the stream it is lost. `OnlyLastIsLost` says, without that
hypothesis, that nothing else is.

`DatagramsProofs`: `TypeCorrect`, `NeverMissing`, `FrontStaysUnread` and `Refinement`. The invariant
says that the non-empty slots hold what was handed out under their ids, and that the
ids handed out are those below `offset + Len(datagrams)`. The refinement shows each
action to be a step of `ReceivedDatagrams` or a stutter: `FreeShifts` says how freeing
moves positions while ids stay.

`MessageSenderProofs`: `TypeCorrect`, `NothingLostOrDuplicated` (`Conserved`),
`OpenStreamsAreWritten` (`KeptIsOpen`) and `NoStreamForgotten` (`ForgottenIsClosed`).
The invariant adds `EntriesAreKnown`: an entry is of a connection that its entity has
or had, and one of the present connection names a stream that the sender opened.
Without it the id of an entry might name no stream at all, and nothing could be said
of what a flush sends on it. The argument goes through what a loop may do to the
streams of an entity (`Kin`: send and close, never open, never change owner), which
`LoopKeeps` and `ClosingKeeps` turn into the part of the invariant that `flush`,
`close_unused_streams` and `close_all_streams` share, however early they return. The
rest of those two closing loops is that one which nothing ends works on every entry
(`AllReached`). `FlushedDivides` and `WriteDivides` say that a flush, and the two
flushes of a write, divide the queue.

`MessagesProofs`, first part: `LookupInverse`, `IdsStable` and `SameIds`, for all programs. `LookupIsInverse` is
inductive with the types alone, but a step of `include_protocol` appends a sequence that
the code computes: the proof rests on what `Only` yields (`OnlyElements`, and that it
repeats nothing that its argument does not). `SameIds` (`SameCallsSameIds`) compares two
executions. `Yields(m, calls, own)` says that the calls on a protocol lead to the messages
`own` when the included protocols have those of `m`, and `LedInv` that each protocol of an
application has what the calls made on it so far lead to. A call on one protocol leaves that
true of another (`CallYields`) because nobody calls on a protocol that was included before:
without `CompleteWhenIncluded` the property is false. At the end the calls on a protocol are
the same on both sides, and so are the messages of what they include, by induction on where
in the client's program the last call on a protocol is (`CallsDecide`).

`MessagesProofs`, second part: `TypeCorrect`, `HaveIds`, `InOrder` and `AllAccounted`. The invariant
`MessagesInv` adds to the types `Nothing` (before both applications run nothing has been
sent), `Given` (an entity has receivers of the types of the protocols it was given, and
no others) and `Ways`. Where the ends agree on `Used` and an entity was given no other
protocol, `Ways` has for each type of it the sequence of what the receiver got, what the
buffer of the id holds and what is unread: the numbers of its messages increase, and if
the protocol was given once it is what was written. It has them as long as the reader of the
entity is not "astray", over any number of connections; `Streamed` says that a reader inside
of a message has it before it, so that a connection which goes with nothing unread leaves
the reader in step. `WhatIsRead` is what `read_streams` does, with handles that lead to other
entities: an entity whose reader is in step afterwards took what had come to its end on its
own stream, or nothing, and nobody else took anything there. `TypedInOrder` is about the first part of the sequence
and not inductive without the others, through which a message passes before. `read_streams`
sorts by id and `deserialize_messages` takes by type: that ids and types determine each other
(`UsedIds`, from `LookupIsInverse`) makes the two selections the same. The lemmas
`WayWrite`, `WayRead` (which takes the first part of what is unread), `WayDecode`, `WayEnds`
and `WayForgets` are about the sequences alone, one for each thing that a step can do to
them: the last is a protocol that is given again, which replaces
the receivers and leaves the buffers.

`SelectionsProofs` has the lemmas on `Only` that these proofs cite: it distributes over
concatenation (`OnlyOfConcat`), depends on the elements that occur only (`OnlyAgree`),
and keeps any relation that holds between earlier and later elements (`OnlyPairwise`). They are
by induction on the length, in the form of a set of natural numbers without a least
element (`Least`, `SequenceInduction`), since the library's induction theorems take an
operator as a parameter, which none of the provers instantiates.

`SelectionsProofs` also shows that what belongs to a prefix is a prefix (`PrefixOfConcat`).

Only model-checked: all liveness properties
(`CloseReleasesHandle`, `ConnectingResolves`, `Delivered`, `QueuedIsSent`, `Received`), since
fairness is out of the prover's reach.

## Not modelled

- Streams that a receiver stops, bidirectional streams, and sending datagrams: passed
  on to quinn, no state here depends on them. A message sender whose requirements are
  unreliable and unordered writes datagrams, which are not modelled.
- A sender whose `get_connection` returns another entity's connection (endpoint.rs:544):
  `MessageSender` has the entity's own, or none. `Messages` has the crossing for readers.
- What exactly a reader makes of bytes when it has lost step: `Messages` allows any of a few
  outcomes, and what `TypedInOrder` and `Accounted` say ends there.
- Several endpoints, and endpoints that are despawned: the entries die with them.
- Cryptography, packet contents, sockets: quinn and the operating system.
  `receive_datagrams` is taken to end; a socket error that persists would make it
  loop (endpoint.rs:362).
- `stream_events`, which is written and never read.
- Plugins: static. Examples: users of the interface.

## Plan

Done: all modules of the table above, with their runs, and proofs of every safety
property, action property and refinement that a passing run checks.

Next, in this order:

1. Reused handles in `MessageSender`, as `Messages` has them for readers.
2. Message senders over datagrams (unreliable and unordered).
