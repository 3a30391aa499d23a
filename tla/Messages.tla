------------------------------- MODULE Messages -------------------------------
(***************************************************************************)
(* Typed messages from a client to the connection entities of a server     *)
(* (protocol.rs, reader.rs, deserialize.rs), once both are built.  The     *)
(* observers of the server give an entity its protocol and the components  *)
(* that receive; its systems read the streams, sort the messages by id and *)
(* give each type its own.                                                 *)
(*                                                                         *)
(* A message is what MessageStream delivers whole and in order.  Here it   *)
(* has an id, a type that the client knows and the server does not see,    *)
(* and a number.  Each connection has one stream, which stays open.        *)
(*                                                                         *)
(* Entities outlive connections.  What the endpoint and the entity keep    *)
(* when a connection ends, or is replaced, decides what is read next: the  *)
(* handle by which get_connection goes, which may be another entity's by   *)
(* now, and a reader that may be in the middle of a message.               *)
(*                                                                         *)
(* An operator marked "Faulty" is a plausible bug in the operator after it *)
(* and is used nowhere: substituted for it, it breaks the named property.  *)
(***************************************************************************)
EXTENDS Protocol

CONSTANTS
    Entity,         \* the connection entities of the server's endpoint
    Used,           \* the protocol of the client's connections
    Handle,         \* the handles of quinn's slab
    None,
    MaxMessages,    \* bound: messages that are written
    MaxInserts      \* bound: insertions of components

ASSUME HandleAssumption == Handle \subseteq Nat
ASSUME UsedAssumption == Used \in Proto
ASSUME NoneAssumption == None \notin Proto \cup Type \cup Handle

VARIABLES
    connectionOf,       \* the entities with a ConnectionOf
    handles,            \* entity -> QuicEndpoint::connection_handles, or None
    connections,        \* entities whose own connection is in the endpoint's map
    open,               \* those whose connection has not ended
    endpointProtocol,   \* the ConnectionProtocol<P> components of the endpoint
    protocolEntity,     \* entity -> its ConnectionProtocolEntity, or None
    received,           \* entity -> type -> ReceivedMessages, for those it has
    buffers,            \* entity -> id -> MessageStreamReaders::buffers
    reader,             \* entity -> where its MessageStreamReaderState is
    arrived,            \* entity -> messages on its stream that are not read to the end
    cut,                \* entity -> the last of them has only come in part
    taken,              \* history: entity -> type -> messages drained from received
    written,            \* history: entity -> messages written, if they are not lost
    assigned,           \* history: entity -> the protocols it was given, in order
    count,              \* history: number of messages written
    inserts             \* history: number of insertions

components == <<connectionOf, endpointProtocol, protocolEntity, assigned, inserts>>
table == <<handles, connections, open>>
streams == <<reader, arrived, cut, written, count>>
vars == <<building, components, table, streams, received, buffers, taken>>

Id == 0 .. Cardinality(Type)

\* What was made of bytes out of step has no type.
Message == [id : Id, type : Type \cup {None}, number : Nat]

\* "inside": the reader has the beginning of a message that is still arrived.
\* "astray": it has lost step, with the end of a connection while it was inside,
\* or since the streams of one entity were read by the reader of another.
ReaderStates == {"boundary", "inside", "astray"}

Init ==
    /\ ProtocolInit
    /\ connectionOf = {}
    /\ handles = [c \in Entity |-> None]
    /\ connections = {}
    /\ open = {}
    /\ endpointProtocol = {}
    /\ protocolEntity = [c \in Entity |-> None]
    /\ received = [c \in Entity |-> <<>>]
    /\ buffers = [c \in Entity |-> [id \in Id |-> <<>>]]
    /\ reader = [c \in Entity |-> "boundary"]
    /\ arrived = [c \in Entity |-> <<>>]
    /\ cut = [c \in Entity |-> FALSE]
    /\ taken = [c \in Entity |-> [t \in Type |-> <<>>]]
    /\ written = [c \in Entity |-> <<>>]
    /\ assigned = [c \in Entity |-> <<>>]
    /\ count = 0
    /\ inserts = 0

Running == \A s \in Side : state[s] = "running"

Ids == lookup["server"]

-----------------------------------------------------------------------------
(* The world, and the observers that a change to it runs. *)

\* Faulty (ReceiversHaveIds): every type gets a receiver.
TypesBuilt(p) == built["server"]

\* insert_received_messages: the types that an entity with protocol p receives.
TypesOf(p) == built["server"] \cap DOMAIN Ids[p]

\* insert_receive_protocol_entity for each protocol of ps, in an order that is
\* bevy's: the last one is kept.  A ReceivedMessages is inserted afresh even if
\* there is one already.
Assign(c, ps) ==
    \/ /\ ps = {}
       /\ UNCHANGED <<protocolEntity, received, assigned>>
    \/ \E order \in {o \in [1 .. Cardinality(ps) -> ps] : IsInjective(o)} :
       LET types == UNION {TypesOf(p) : p \in ps} IN
          /\ ps # {}
          /\ protocolEntity' = [protocolEntity EXCEPT ![c] = order[Len(order)]]
          /\ assigned' = [assigned EXCEPT ![c] = @ \o order]
          /\ received' = [received EXCEPT ![c] =
                [t \in types \cup DOMAIN received[c] |->
                    IF t \in types THEN <<>> ELSE received[c][t]]]

Inserts ==
    /\ Running
    /\ inserts < MaxInserts
    /\ inserts' = inserts + 1

\* What the streams of the entities cs still have is lost with their connections.
\* MessageStreamReaders stays, with what it has of a message.
StreamsEnd(cs) ==
    /\ arrived' = [c \in Entity |-> IF c \in cs THEN <<>> ELSE arrived[c]]
    /\ cut' = [c \in Entity |-> c \notin cs /\ cut[c]]
    /\ reader' = [c \in Entity |->
                    IF c \in cs /\ reader[c] = "inside" THEN "astray" ELSE reader[c]]
    /\ written' = [c \in Entity |->
                    IF c \in cs THEN Only(written[c], Message \ ToSet(arrived[c])) ELSE written[c]]
    /\ UNCHANGED count

\* create_connections, where connect or accept fails: connection_handles keeps
\* what it has of c.
NoConnection(c) ==
    /\ connections' = connections \ {c}
    /\ open' = open \ {c}
    /\ StreamsEnd({c})
    /\ UNCHANGED handles

Known == {h \in Handle : \E d \in Entity : handles[d] = h}

\* create_connections with the handle h, one that was given before or the lowest
\* other, but that of no connection which is not drained: the entry of one that
\* is, of whatever entity, is overwritten.
NewConnection(c, h) ==
    LET replaced == {c} \cup {d \in connections : handles[d] = h} IN
        /\ h \in Known \/ \A g \in Handle \ Known : h <= g
        /\ open \cap replaced \subseteq {c}
        /\ handles' = [handles EXCEPT ![c] = h]
        /\ connections' = (connections \ replaced) \cup {c}
        /\ open' = open \cup {c}
        /\ StreamsEnd(replaced)

\* ConnectionOf, with ConnectionProtocol components in the same bundle: `own`.
\* remove_connections has dropped the connection of an earlier one by then.
\* insert_receive_protocol adds the protocols of the endpoint.
InsertConnectionOf(c, own) ==
    /\ Inserts
    /\ connectionOf' = connectionOf \cup {c}
    /\ NoConnection(c) \/ \E h \in Handle : NewConnection(c, h)
    /\ Assign(c, own \cup endpointProtocol)
    /\ UNCHANGED <<building, endpointProtocol, buffers, taken>>

\* On an entity that is no connection yet this has no effect.
InsertConnectionProtocol(c, p) ==
    /\ Inserts
    /\ c \in connectionOf
    /\ Assign(c, {p})
    /\ UNCHANGED <<building, connectionOf, endpointProtocol, table, streams, buffers, taken>>

\* The endpoint is no connection, so that no observer goes on.
InsertEndpointProtocol(p) ==
    /\ Inserts
    /\ endpointProtocol' = endpointProtocol \cup {p}
    /\ UNCHANGED <<building, connectionOf, protocolEntity, assigned, table, streams,
                   received, buffers, taken>>

\* remove_connections, for the ConnectionOf that the application removes.
RemoveConnectionOf(c) ==
    /\ c \in connectionOf
    /\ connectionOf' = connectionOf \ {c}
    /\ NoConnection(c)
    /\ UNCHANGED <<building, endpointProtocol, protocolEntity, assigned, inserts,
                   received, buffers, taken>>

\* The connection of c ends, and quinn may give its handle to another as soon as
\* it is drained.  Its entry stays, and what has come on it is read.
End(c) ==
    /\ c \in open
    /\ open' = open \ {c}
    /\ UNCHANGED <<building, components, handles, connections, streams, received, buffers, taken>>

\* The client writes a message that its protocol has an id for, and its first
\* bytes come.
Write(c, t) ==
    /\ Running
    /\ count < MaxMessages
    /\ c \in open
    /\ t \in DOMAIN lookup["client"][Used]
    /\ LET m == [id |-> lookup["client"][Used][t], type |-> t, number |-> count + 1] IN
          /\ arrived' = [arrived EXCEPT ![c] = Append(@, m)]
          /\ written' = [written EXCEPT ![c] = Append(@, m)]
    /\ \E part \in BOOLEAN : cut' = [cut EXCEPT ![c] = part]
    /\ count' = count + 1
    /\ UNCHANGED <<building, components, table, reader, received, buffers, taken>>

\* The rest of a message comes.
Arrive(c) ==
    /\ c \in open /\ cut[c]
    /\ cut' = [cut EXCEPT ![c] = FALSE]
    /\ UNCHANGED <<building, components, table, reader, arrived, written, count,
                   received, buffers, taken>>

-----------------------------------------------------------------------------
(* The systems of the server. *)

\* Faulty (Received): a loop works on one entity, always the same.
ReachedOne(entities, failing) ==
    {IF entities \ failing = {} THEN {} ELSE {CHOOSE c \in entities \ failing : TRUE}}

\* What a loop over `entities` works on when those of `failing` end it, in an
\* order that is bevy's.
Reached(entities, failing) ==
    IF failing = {} THEN {entities} ELSE SUBSET (entities \ failing)

\* A MessageStreamReaders comes with the first ReceivedMessages.
Readers == {c \in connectionOf : DOMAIN received[c] # {}}

\* The entity whose own connection get_connection(c) returns, by the handle that
\* c has or had, if there is one.
Found(c) == {d \in connections : handles[d] = handles[c]}

OfId(id, seq) == Only(seq, {m \in Message : m.id = id})

\* Faulty (TypedInOrder): the messages are pushed to the front.
PushedFront(buffer, seq) == seq \o buffer

Pushed(buffer, seq) == buffer \o seq

\* The messages on the stream of c that have come to their end, and the others.
Complete(c) == SubSeq(arrived[c], 1, Len(arrived[c]) - (IF cut[c] THEN 1 ELSE 0))
Partial(c) == IF cut[c] THEN <<Last(arrived[c])>> ELSE <<>>

\* Of those that find the same connection, the first has taken all there is to
\* read when the others look.
Takers(cs) ==
    {ts \in SUBSET cs : \A c \in cs : \E t \in ts : {e \in ts : Found(e) = Found(c)} = {t}}

InStep(c) == Found(c) = {c} /\ reader[c] # "astray"

\* What a reader out of step makes of messages, counted when they have come to
\* their end: none, one of its own, or their bytes may happen to fit again.
Noise == [id : Id, type : {None}, number : {0}]
Garbled(seq) ==
    IF seq = <<>> THEN {seq}
    ELSE {<<>>, seq} \cup {<<m>> : m \in Noise}

\* One of the values of f at each of cs.
OneOfEach(cs, f) == {g \in [cs -> UNION {f[c] : c \in cs}] : \A c \in cs : g[c] \in f[c]}

\* accept_streams and read_streams: the messages are sorted by their ids.  A
\* reader of an earlier connection goes on, under the stream id of the new one,
\* and reads before the one that is accepted.
ReadStreams ==
    \E reached \in Reached(Readers, {c \in Readers : Found(c) = {}}) :
    \E takers \in Takers(reached) :
        LET source == [c \in takers |-> CHOOSE d \in Found(c) : TRUE]
            strays == {c \in takers : ~ InStep(c) /\ arrived[source[c]] # <<>>}
            steady == {c \in takers : InStep(c)}
        IN  /\ \E garbled \in OneOfEach(strays, [c \in strays |-> Garbled(Complete(source[c]))]) :
                 LET pushed == [c \in Entity |->
                        IF c \in strays THEN garbled[c]
                        ELSE IF c \in steady THEN Complete(c) ELSE <<>>]
                 IN  buffers' = [c \in Entity |-> [id \in Id |->
                        Pushed(buffers[c][id], OfId(id, pushed[c]))]]
            /\ reader' = [c \in Entity |->
                    IF c \in strays \cup {source[e] : e \in strays} THEN "astray"
                    ELSE IF c \notin steady THEN reader[c]
                    ELSE IF cut[c] THEN "inside" ELSE "boundary"]
            /\ arrived' = [c \in Entity |->
                    IF c \in {source[e] : e \in takers} THEN Partial(c) ELSE arrived[c]]
            /\ UNCHANGED <<building, components, table, cut, written, count, received, taken>>

Receivers(t) == {c \in Entity : t \in DOMAIN received[c]}

\* The error of deserialize_messages.
WithoutId(t) == {c \in Receivers(t) : t \notin DOMAIN Ids[protocolEntity[c]]}

\* Faulty (Accounted): only the first message of the buffer is decoded.
DecodedFirst(t, seq, lucky) == IF seq = <<>> THEN seq ELSE <<Head(seq)>>

\* postcard decodes a message as type t if it is one, and another one if its
\* bytes happen to fit; those that it does not decode are left out.
Decoded(t, seq, lucky) == Only(seq, {m \in Message : m.type = t \/ lucky})

\* deserialize_messages::<t>.
DeserializeMessages(t) ==
    /\ t \in built["server"]
    /\ \E reached \in Reached(Receivers(t), WithoutId(t)), lucky \in BOOLEAN :
          /\ received' = [c \in Entity |->
                IF c \in reached
                THEN [received[c] EXCEPT ![t] =
                        @ \o Decoded(t, buffers[c][Ids[protocolEntity[c]][t]], lucky)]
                ELSE received[c]]
          /\ buffers' = [c \in Entity |->
                IF c \in reached
                THEN [buffers[c] EXCEPT ![Ids[protocolEntity[c]][t]] = <<>>]
                ELSE buffers[c]]
    /\ UNCHANGED <<building, components, table, streams, taken>>

\* ReceivedMessages::drain.
DrainReceived(c, t) ==
    /\ t \in DOMAIN received[c]
    /\ received[c][t] # <<>>
    /\ taken' = [taken EXCEPT ![c][t] = @ \o received[c][t]]
    /\ received' = [received EXCEPT ![c][t] = <<>>]
    /\ UNCHANGED <<building, components, table, streams, buffers>>

-----------------------------------------------------------------------------

World == \E c \in Entity :
    \/ \E own \in {{}} \cup {{p} : p \in initialized["server"]} : InsertConnectionOf(c, own)
    \/ \E p \in initialized["server"] : InsertConnectionProtocol(c, p)
    \/ RemoveConnectionOf(c) \/ End(c) \/ Arrive(c)
    \/ \E t \in Type : Write(c, t) \/ DrainReceived(c, t)

Systems == Running /\ (ReadStreams \/ \E t \in Type : DeserializeMessages(t))

Next ==
    \/ \E s \in Side : Build(s) /\ UNCHANGED <<components, table, streams, received, buffers, taken>>
    \/ World
    \/ \E p \in initialized["server"] : InsertEndpointProtocol(p)
    \/ Systems

Spec == Init /\ [][Next]_vars

\* The systems run in a schedule that comes round again.
Fairness ==
    /\ WF_vars(Running /\ ReadStreams)
    /\ \A t \in Type : WF_vars(Running /\ DeserializeMessages(t))

LiveSpec == Spec /\ Fairness

-----------------------------------------------------------------------------
(* Properties. *)

\* The types of the variables.
TypeOK ==
    /\ ProtocolTypeOK
    /\ connectionOf \subseteq Entity
    /\ open \subseteq connections /\ connections \subseteq connectionOf
    /\ handles \in [Entity -> Handle \cup {None}]
    /\ \A c \in connections : handles[c] # None
    /\ endpointProtocol \subseteq initialized["server"]
    /\ protocolEntity \in [Entity -> initialized["server"] \cup {None}]
    /\ \A c \in Entity :
          /\ DOMAIN received[c] \subseteq Type
          /\ \A t \in DOMAIN received[c] : received[c][t] \in Seq(Message)
          /\ \A t \in Type : taken[c][t] \in Seq(Message)
          /\ \A id \in Id : buffers[c][id] \in Seq(Message)
          /\ cut[c] \/ reader[c] = "inside" => arrived[c] # <<>>
    /\ reader \in [Entity -> ReaderStates]
    /\ cut \in [Entity -> BOOLEAN]
    /\ arrived \in [Entity -> Seq(Message)]
    /\ written \in [Entity -> Seq(Message)]

Agree == messages["client"][Used] = messages["server"][Used]

OfType(t, seq) == Only(seq, {m \in Message : m.type = t})

Got(c, t) == taken[c][t] \o (IF t \in DOMAIN received[c] THEN received[c][t] ELSE <<>>)

\* Where both ends agree on the protocol and an entity is given it once, each
\* message that its connection did not take with it is in one place of its way,
\* and the application gets those of a type in the order of their writes:
\* sorting by id and decoding type by type loses, doubles and swaps nothing.
\* That goes on over connections which end and are replaced, with the readers
\* of the old ones reading the new ones, unless one of them was left inside of a
\* message or a reused handle led to the streams of another entity.
Accounted ==
    Agree =>
        \A c \in Entity, t \in DOMAIN Ids[Used] :
            assigned[c] = <<Used>> /\ reader[c] # "astray" =>
                Got(c, t) \o buffers[c][Ids[Used][t]] \o OfType(t, arrived[c])
                    = OfType(t, written[c])

\* Under the same two conditions on its reader, an entity never gets a message
\* as one of another type, or one before an earlier one, though its protocol is
\* given to it again and again.
TypedInOrder ==
    Agree =>
        \A c \in Entity, t \in Type :
            ToSet(assigned[c]) \subseteq {Used} /\ reader[c] # "astray" =>
                \A i \in DOMAIN Got(c, t) :
                    /\ Got(c, t)[i].type = t
                    /\ \A j \in 1 .. i - 1 : Got(c, t)[j].number < Got(c, t)[i].number

\* "Protocol should have a message id for this type" (deserialize.rs:84), on
\* each entity that was given one protocol only.
ReceiversHaveIds ==
    \A t \in Type : \A c \in WithoutId(t) : Cardinality(ToSet(assigned[c])) > 1

\* For an entity with the client's protocol, something of one of the types has
\* come to its end and was not read, or was read and not decoded.
Waiting ==
    Agree /\ \E c \in Readers, t \in DOMAIN Ids[Used] :
        /\ protocolEntity[c] = Used
        /\ \/ buffers[c][Ids[Used][t]] # <<>>
           \/ Found(c) = {c} /\ OfType(t, Complete(c)) # <<>>

\* Some entity makes a loop of the systems fail: it has a reader, and
\* get_connection finds nothing, since none came to be for it or the entry that
\* its handle leads to has been removed; or it receives a type without an id.
Failing ==
    \/ \E c \in Readers : Found(c) = {}
    \/ \E t \in Type : WithoutId(t) # {}

\* What has come for an entity is read and decoded, whether its connection is
\* open or has ended, unless some entity goes on to make the loops fail: it ends
\* them for those behind it.
Received == []<> ~ Failing => (Waiting ~> ~ Waiting)

=============================================================================
