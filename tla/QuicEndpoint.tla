---------------------------- MODULE QuicEndpoint ----------------------------
(***************************************************************************)
(* One `QuicEndpoint` of crates/nevy_transport (protocols/quic/endpoint.rs) *)
(* and the connection entities that the application keeps on it.           *)
(*                                                                         *)
(* Three parties share the state.                                          *)
(*   - The application spawns and despawns entities, inserts and removes   *)
(*     `ConnectionOf`, and asks a connection to close.  Each insertion or  *)
(*     removal runs the observers create_connections, remove_connections   *)
(*     and refuse_connections at once.                                     *)
(*   - The system update_endpoints first drains the socket, then visits    *)
(*     every entry of `connections`.  It never touches the world: it       *)
(*     queues commands, which are applied after it, one by one, with       *)
(*     observers of the application running in between.                    *)
(*   - quinn_proto owns a slab of connection handles.  It is not part of   *)
(*     the repository: it frees the handle of a connection that is drained *)
(*     and gives it to a later one.                                        *)
(*                                                                         *)
(* Streams and datagrams do not change any of this state and belong to     *)
(* other modules.                                                          *)
(*                                                                         *)
(* An operator marked "Faulty" is a plausible bug in the operator after it *)
(* and is used nowhere: substituted for it, it breaks the named property.  *)
(***************************************************************************)
EXTENDS Naturals, Sequences

CONSTANTS
    Entity,         \* the entity ids the world can hand out
    Handle,         \* the slots of quinn's slab
    None,
    MaxInserts,     \* bound: ConnectionOf insertions per entity
    AcceptMayFail   \* whether quinn may reject a handshake it is told to accept

ASSUME NoneAssumption == None \notin Entity \cup Handle
ASSUME MaxInsertsAssumption == MaxInserts \in Nat \ {0}
ASSUME AcceptMayFailAssumption == AcceptMayFail \in BOOLEAN

VARIABLES
    \* The world.
    life,           \* entity -> has it been spawned, is it despawned
    connectionOf,   \* the entities with a ConnectionOf component
    status,         \* entity -> its ConnectionStatus component, or None
    closedReason,   \* the entities with a QuicConnectionClosedReason
    incoming,       \* the entities whose IncomingQuicConnection holds Some
    \* The fields of QuicEndpoint.
    server,             \* is there a server_config
    connectionHandles,  \* entity -> handle or None
    connections,        \* handle -> QuicConnectionState or NoConnection
    \* quinn_proto::Endpoint.
    slab,           \* handle -> the entity its slot was allocated for, or None
    \* The running of update_endpoints.
    phase,          \* "app", "receive", "update" or "apply"
    todo,           \* the entries update_connections has yet to visit
    commands,       \* the commands queued by the update
    \* History.
    inserts,        \* entity -> how often ConnectionOf was inserted
    verdict         \* entity -> what became of the peer's attempt to connect

world == <<life, connectionOf, status, closedReason, incoming>>
endpoint == <<connectionHandles, connections, slab>>
update == <<phase, todo, commands>>
vars == <<world, endpoint, update, inserts, verdict, server>>

-----------------------------------------------------------------------------
(* Values. *)

Status == {"Connecting", "Established", "Closed", "Failed"}
CloseFlagState == {"None", "Sent", "Received"}

\* The part of quinn_proto::Connection that the endpoint can observe.  A
\* connection is Closed from the close of either side until its close timer
\* fires; `connected` and `lost` are events poll() has yet to return and
\* `drained` an event poll_endpoint_events() has yet to return.
ConnectionStates == {"Handshake", "Open", "Closed", "Drained"}

QuicConnectionState ==
    [entity : Entity \cup {None}, close : CloseFlagState,
     state : ConnectionStates,
     connected : BOOLEAN, lost : BOOLEAN, drained : BOOLEAN]

Connection(e) ==
    [entity |-> e, close |-> "None", state |-> "Handshake",
     connected |-> FALSE, lost |-> FALSE, drained |-> FALSE]

NoConnection ==
    [entity |-> None, close |-> "None", state |-> "Drained",
     connected |-> FALSE, lost |-> FALSE, drained |-> FALSE]

Command == [kind : {"Incoming", "Closed", "Established", "Lost"}, entity : Entity]

Queue(kind, e) == <<[kind |-> kind, entity |-> e]>>
When(condition, cmds) == IF condition THEN cmds ELSE <<>>

-----------------------------------------------------------------------------

Init ==
    /\ life = [e \in Entity |-> "unspawned"]
    /\ connectionOf = {}
    /\ status = [e \in Entity |-> None]
    /\ closedReason = {}
    /\ incoming = {}
    /\ server \in BOOLEAN
    /\ connectionHandles = [e \in Entity |-> None]
    /\ connections = [h \in Handle |-> NoConnection]
    /\ slab = [h \in Handle |-> None]
    /\ phase = "app"
    /\ todo = {}
    /\ commands = <<>>
    /\ inserts = [e \in Entity |-> 0]
    /\ verdict = [e \in Entity |-> "none"]

-----------------------------------------------------------------------------
(* The application.  Its systems run before and after update_endpoints, and *)
(* its observers run while the queued commands are applied.                 *)

AppMayAct == phase \in {"app", "apply"}

Present == {h \in Handle : connections[h].entity # None}
Owned(e) == {h \in Handle : connections[h].entity = e}

\* Faulty (OwnerReachesConnection): a replaced ConnectionOf keeps its connection.
DroppedNothing(e) == {{}}

\* What remove_connections may pick: the first entry that it finds for e.
Dropped(e) ==
    IF e \in connectionOf /\ Owned(e) # {} THEN {{h} : h \in Owned(e)} ELSE {{}}

ConnectionsWithout(drop) ==
    [h \in Handle |-> IF h \in drop THEN NoConnection ELSE connections[h]]

\* Faulty (SlabAgreement): the entry is removed but quinn is not told.
SlabUntold(drop) == slab

\* The handle goes back to quinn unless the connection has already drained.
SlabWithout(drop) ==
    [h \in Handle |->
        IF h \in drop /\ connections[h].state # "Drained" THEN None ELSE slab[h]]

\* The components of e after ConnectionOf is inserted: the relationship, and
\* the ConnectionStatus it requires, which is added only where it is missing.
InsertConnectionOf(e) ==
    /\ AppMayAct
    /\ inserts[e] < MaxInserts
    /\ inserts' = [inserts EXCEPT ![e] = @ + 1]
    /\ connectionOf' = connectionOf \cup {e}

StatusWithRequired(e) ==
    IF status[e] = None THEN [status EXCEPT ![e] = "Connecting"] ELSE status

\* quinn gives e a free slot, and the endpoint keeps the connection under it.
StoreConnection(e, drop) ==
    \E h \in Handle :
        /\ SlabWithout(drop)[h] = None
        /\ slab' = [SlabWithout(drop) EXCEPT ![h] = e]
        /\ connections' = [ConnectionsWithout(drop) EXCEPT ![h] = Connection(e)]
        /\ connectionHandles' = [connectionHandles EXCEPT ![e] = h]

DropConnection(drop) ==
    /\ slab' = SlabWithout(drop)
    /\ connections' = ConnectionsWithout(drop)
    /\ UNCHANGED connectionHandles

\* Accept an incoming connection: the entity carries an
\* IncomingQuicConnection when ConnectionOf is inserted.
AcceptConnection(e) ==
    /\ e \in incoming
    /\ InsertConnectionOf(e)
    /\ status' = StatusWithRequired(e)
    /\ incoming' = incoming \ {e}
    /\ verdict' = [verdict EXCEPT ![e] = "accepted"]
    /\ \E drop \in Dropped(e) : StoreConnection(e, drop)
    /\ UNCHANGED <<life, closedReason, server, update>>

\* quinn finds the peer's first packet bad: accept() returns an error.
AcceptFails(e) ==
    /\ AcceptMayFail
    /\ e \in incoming
    /\ InsertConnectionOf(e)
    /\ status' = StatusWithRequired(e)
    /\ incoming' = incoming \ {e}
    /\ verdict' = [verdict EXCEPT ![e] = "failed"]
    /\ \E drop \in Dropped(e) : DropConnection(drop)
    /\ UNCHANGED <<life, closedReason, server, update>>

\* Insert ConnectionOf, perhaps anew, on an entity without an incoming
\* connection.  A ConnectionOf that is replaced first runs remove_connections.
InsertToOpen(e) ==
    /\ life[e] \in {"unspawned", "alive"}
    /\ e \notin incoming
    /\ life' = [life EXCEPT ![e] = "alive"]
    /\ UNCHANGED <<closedReason, incoming, server, update, verdict>>

OpenConnection(e) ==
    /\ InsertToOpen(e)
    /\ InsertConnectionOf(e)
    /\ status' = StatusWithRequired(e)
    /\ \E drop \in Dropped(e) : StoreConnection(e, drop)

\* connect() returns an error: the connection is marked Failed.
OpenFails(e) ==
    /\ InsertToOpen(e)
    /\ InsertConnectionOf(e)
    /\ status' = [status EXCEPT ![e] = "Failed"]
    /\ \E drop \in Dropped(e) : DropConnection(drop)

\* There is no QuicConnectionConfig: ConnectionOf is removed again.
OpenUnconfigured(e) ==
    /\ AppMayAct
    /\ InsertToOpen(e)
    /\ inserts[e] < MaxInserts
    /\ inserts' = [inserts EXCEPT ![e] = @ + 1]
    /\ connectionOf' = connectionOf \ {e}
    /\ status' = StatusWithRequired(e)
    /\ \E drop \in Dropped(e) : DropConnection(drop)

\* Remove ConnectionOf: remove_connections drops the connection without a word
\* to the peer.  connection_handles keeps its entry.
RemoveConnectionOf(e) ==
    /\ AppMayAct
    /\ e \in connectionOf
    /\ connectionOf' = connectionOf \ {e}
    /\ \E drop \in Dropped(e) : DropConnection(drop)
    /\ UNCHANGED <<life, status, closedReason, incoming, server, update,
                   inserts, verdict>>

\* Faulty (IncomingIsKept): the component goes, and the peer gets no answer.
Forget(E) ==
    /\ incoming' = incoming \ E
    /\ UNCHANGED verdict

\* Take the incoming connections of the entities in E out of their components
\* and refuse them.
Refuse(E) ==
    /\ incoming' = incoming \ E
    /\ verdict' = [e \in Entity |->
                      IF e \in E \cap incoming THEN "refused" ELSE verdict[e]]

\* Remove IncomingQuicConnection from an entity that stays.
RefuseConnection(e) ==
    /\ AppMayAct
    /\ e \in incoming
    /\ Refuse({e})
    /\ UNCHANGED <<life, connectionOf, status, closedReason, server,
                   connectionHandles, connections, slab, update, inserts>>

\* Despawning an entity removes all of its components.
Despawn(e) ==
    /\ AppMayAct
    /\ life[e] = "alive"
    /\ life' = [life EXCEPT ![e] = "despawned"]
    /\ connectionOf' = connectionOf \ {e}
    /\ status' = [status EXCEPT ![e] = None]
    /\ closedReason' = closedReason \ {e}
    /\ \E drop \in Dropped(e) : DropConnection(drop)
    /\ Refuse({e})
    /\ UNCHANGED <<server, update, inserts>>

\* Endpoint::get_connection: the handle that the application's operations on e
\* reach, or None when there is no connection.
GetConnection(e) ==
    IF connectionHandles[e] # None /\ connectionHandles[e] \in Present
    THEN connectionHandles[e]
    ELSE None

\* Connection::close() only raises a flag for the next update.
Close(e) ==
    /\ AppMayAct
    /\ GetConnection(e) # None
    /\ connections[GetConnection(e)].close = "None"
    /\ connections' = [connections EXCEPT ![GetConnection(e)].close = "Sent"]
    /\ UNCHANGED <<world, server, connectionHandles, slab, update, inserts, verdict>>

App(e) ==
    \/ AcceptConnection(e) \/ AcceptFails(e)
    \/ OpenConnection(e) \/ OpenFails(e) \/ OpenUnconfigured(e)
    \/ RemoveConnectionOf(e) \/ RefuseConnection(e) \/ Despawn(e)
    \/ Close(e)

-----------------------------------------------------------------------------
(* update_endpoints, first half: receive_datagrams. *)

BeginUpdate ==
    /\ phase = "app"
    /\ phase' = "receive"
    /\ UNCHANGED <<world, server, endpoint, todo, commands, inserts, verdict>>

\* A first packet from a new peer: an entity is reserved and a command queued
\* that spawns it.  Without a server_config the packet is refused, as are those
\* that quinn answers by itself: nothing changes.
HandleIncomingConnection ==
    /\ phase = "receive"
    /\ server
    /\ \E e \in Entity :
          /\ life[e] = "unspawned"
          /\ life' = [life EXCEPT ![e] = "reserved"]
          /\ verdict' = [verdict EXCEPT ![e] = "pending"]
          /\ commands' = commands \o Queue("Incoming", e)
    /\ UNCHANGED <<connectionOf, status, closedReason, incoming, server,
                   connectionHandles, connections, slab, phase, todo, inserts>>

\* What quinn makes of a packet for one of its connections: the last packet of
\* the handshake, the peer's close, or a stateless reset.
HandshakeDone(c) == [c EXCEPT !.state = "Open", !.connected = TRUE]
ClosedByPeer(c) == [c EXCEPT !.state = "Closed", !.lost = TRUE]
Reset(c) == [c EXCEPT !.state = "Drained", !.lost = TRUE, !.drained = TRUE]

AfterPacket(c) ==
    CASE c.state = "Handshake" -> {HandshakeDone(c), ClosedByPeer(c), Reset(c)}
      [] c.state = "Open"      -> {ClosedByPeer(c), Reset(c)}
      [] c.state = "Closed"    -> {Reset(c)}
      [] c.state = "Drained"   -> {c}

\* quinn routes the packet by its own slab; the endpoint looks the handle up in
\* `connections`, and an event for a handle it does not know is lost.
HandleConnectionEvent(h) ==
    /\ phase = "receive"
    /\ slab[h] # None
    /\ \E c \in IF h \in Present THEN AfterPacket(connections[h]) ELSE {connections[h]} :
          connections' = [connections EXCEPT ![h] = c]
    /\ UNCHANGED <<world, server, connectionHandles, slab, update,
                   inserts, verdict>>

\* The socket is dry.
FinishReceive ==
    /\ phase = "receive"
    /\ phase' = "update"
    /\ todo' = Present
    /\ UNCHANGED <<world, server, connectionHandles, connections, slab, commands,
                   inserts, verdict>>

-----------------------------------------------------------------------------
(* update_endpoints, second half: update_connections. *)

\* Faulty (TypeOK): the connection's state is written into the flag.
TakeCloseFlagAsState(c) ==
    IF c.close # "Sent" THEN c ELSE [c EXCEPT !.close = "Closed", !.state = "Closed"]

\* The close flag is consumed and quinn told to close.  That leaves the events
\* quinn has queued in place and adds none.
TakeCloseFlag(c) ==
    IF c.close # "Sent" THEN c
    ELSE [c EXCEPT !.close = "Received",
                   !.state = IF @ \in {"Handshake", "Open"} THEN "Closed" ELSE @]

\* Faulty (StatusReflectsState): only a completed connection reports its loss.
ExpireUnreported(c) == [c EXCEPT !.state = "Drained", !.drained = TRUE,
                                 !.lost = @ \/ c.state = "Open"]

\* Faulty (CloseReleasesHandle): quinn's endpoint never hears of the drain.
ExpireUndrained(c) == [c EXCEPT !.state = "Drained", !.lost = @ \/ c.state # "Closed"]

\* A timer of the connection has expired: the close timer ends it quietly, the
\* idle timer kills it with an error.  Either way it is drained.
Expire(c) == [c EXCEPT !.state = "Drained", !.drained = TRUE,
                       !.lost = @ \/ c.state # "Closed"]

\* poll_endpoint_events() and poll(), until each has nothing left.
PollAll(c) == [c EXCEPT !.drained = FALSE, !.connected = FALSE, !.lost = FALSE]

\* Faulty (LossIsFinal): the loss is queued ahead of the connection.
EventsReordered(c) ==
    When(c.lost, Queue("Lost", c.entity))
    \o When(c.connected, Queue("Established", c.entity))

Events(c) ==
    When(c.connected, Queue("Established", c.entity))
    \o When(c.lost, Queue("Lost", c.entity))

UpdateConnection(h, expires) ==
    LET polled == TakeCloseFlag(connections[h])
        timed  == IF expires THEN Expire(polled) ELSE polled
    IN  /\ phase = "update"
        /\ h \in todo
        /\ expires => polled.state # "Drained"
        /\ todo' = todo \ {h}
        /\ connections' = [connections EXCEPT ![h] = PollAll(timed)]
        /\ slab' = IF timed.drained THEN [slab EXCEPT ![h] = None] ELSE slab
        /\ commands' = commands
              \o When(connections[h].close = "Sent", Queue("Closed", connections[h].entity))
              \o Events(timed)
        /\ UNCHANGED <<world, server, connectionHandles, phase, inserts, verdict>>

FinishUpdate ==
    /\ phase = "update"
    /\ todo = {}
    /\ phase' = "apply"
    /\ UNCHANGED <<world, server, endpoint, todo, commands, inserts, verdict>>

-----------------------------------------------------------------------------
(* The world applies the queued commands. *)

Apply(cmd) ==
    LET e == cmd.entity IN
    CASE cmd.kind = "Incoming" ->
            /\ life' = [life EXCEPT ![e] = "alive"]
            /\ incoming' = incoming \cup {e}
            /\ UNCHANGED <<status, closedReason>>
      [] cmd.kind = "Closed" ->
            /\ status' = [status EXCEPT ![e] = "Closed"]
            /\ UNCHANGED <<life, incoming, closedReason>>
      [] cmd.kind = "Established" ->
            /\ status' = [status EXCEPT ![e] = "Established"]
            /\ UNCHANGED <<life, incoming, closedReason>>
      [] cmd.kind = "Lost" ->
            /\ status' = [status EXCEPT ![e] = "Closed"]
            /\ closedReason' = closedReason \cup {e}
            /\ UNCHANGED <<life, incoming>>

\* An insertion into an entity that an observer has despawned meanwhile is an
\* error that goes to the application's error handler; the world is unchanged.
ApplyCommand ==
    /\ phase = "apply"
    /\ commands # <<>>
    /\ commands' = Tail(commands)
    /\ IF life[Head(commands).entity] = "despawned"
       THEN UNCHANGED <<life, status, closedReason, incoming>>
       ELSE Apply(Head(commands))
    /\ UNCHANGED <<connectionOf, server, endpoint, phase, todo, inserts, verdict>>

FinishApply ==
    /\ phase = "apply"
    /\ commands = <<>>
    /\ phase' = "app"
    /\ UNCHANGED <<world, server, endpoint, todo, commands, inserts, verdict>>

-----------------------------------------------------------------------------

Receive ==
    \/ HandleIncomingConnection
    \/ \E h \in Handle : HandleConnectionEvent(h)

Update ==
    \/ BeginUpdate
    \/ FinishReceive
    \/ \E h \in Handle, expires \in BOOLEAN : UpdateConnection(h, expires)
    \/ FinishUpdate
    \/ ApplyCommand
    \/ FinishApply

Next ==
    \/ \E e \in Entity : App(e)
    \/ Receive
    \/ Update

Spec == Init /\ [][Next]_vars

\* The schedule runs the update again and again, the socket runs dry within
\* one update, and the timers of a connection that is closing or stuck in its
\* handshake expire one day.  The application and the network promise nothing.
TimerExpires(h) ==
    /\ connections[h].state \in {"Handshake", "Closed"} \/ connections[h].close = "Sent"
    /\ UpdateConnection(h, TRUE)

Fairness ==
    /\ WF_vars(Update)
    /\ \A h \in Handle : SF_vars(TimerExpires(h))

LiveSpec == Spec /\ Fairness

-----------------------------------------------------------------------------
(* Properties. *)

\* Every variable keeps to its range, through all of the handlers.
TypeOK ==
    /\ life \in [Entity -> {"unspawned", "reserved", "alive", "despawned"}]
    /\ connectionOf \subseteq Entity
    /\ status \in [Entity -> Status \cup {None}]
    /\ closedReason \subseteq Entity
    /\ incoming \subseteq Entity
    /\ server \in BOOLEAN
    /\ connectionHandles \in [Entity -> Handle \cup {None}]
    /\ connections \in [Handle -> QuicConnectionState]
    /\ slab \in [Handle -> Entity \cup {None}]
    /\ phase \in {"app", "receive", "update", "apply"}
    /\ todo \subseteq Handle
    /\ commands \in Seq(Command)
    /\ inserts \in [Entity -> 0 .. MaxInserts]
    /\ verdict \in [Entity -> {"none", "pending", "accepted", "refused", "failed"}]

\* The endpoint and quinn agree on which handles are in use: a slot of quinn's
\* slab is taken exactly while the endpoint has an entry under that handle that
\* has not been drained, and both belong to the same entity.  So a packet that
\* quinn routes always finds its connection (handle_datagram_event's error
\* branch is dead), and no handle is given back twice or never.
SlabAgreement ==
    \A h \in Handle :
        IF h \in Present /\ (connections[h].state # "Drained" \/ connections[h].drained)
        THEN slab[h] = connections[h].entity
        ELSE slab[h] = None

\* An entry of `connections` belongs to an entity with ConnectionOf, and that
\* entity's get_connection reaches this very entry.  Hence an entity has one
\* entry at most, and remove_connections leaves nothing behind.
OwnerReachesConnection ==
    \A h \in Present :
        /\ connections[h].entity \in connectionOf
        /\ GetConnection(connections[h].entity) = h

Queued(kind, e) ==
    \E i \in DOMAIN commands : commands[i].kind = kind /\ commands[i].entity = e

\* A peer's attempt to connect is neither forgotten nor answered twice: until
\* it is accepted, refused or failed it waits in the component of its entity,
\* or in the queued command that will spawn that entity.
IncomingIsKept ==
    \A e \in Entity :
        verdict[e] = "pending" <=> e \in incoming \/ Queued("Incoming", e)

\* Between updates the ConnectionStatus of an entity tells the state of its
\* connection, as long as ConnectionOf was inserted once and the application
\* has not closed the connection itself: a connection that is lost, by
\* whatever path, is reported with its reason.
StatusReflectsState ==
    phase = "app" =>
        \A h \in Present :
            LET c == connections[h] IN
            inserts[c.entity] = 1 /\ c.close # "Received" =>
                CASE c.state = "Handshake" -> status[c.entity] = "Connecting"
                  [] c.state = "Open"      -> status[c.entity] = "Established"
                  [] OTHER -> status[c.entity] = "Closed" /\ c.entity \in closedReason

\* Once the loss of a connection is reported, with its reason, no later command
\* moves the status away from Closed: the events of one update reach the world
\* in the order in which quinn produced them.
LossIsFinal ==
    [][\A e \in closedReason :
          inserts'[e] = 1 => status'[e] = "Closed" \/ life'[e] = "despawned"]_vars

\* A connection that the application has asked to close gives its handle back
\* to quinn: the close flag is consumed, the close timer runs and the drained
\* event is passed on.
CloseReleasesHandle ==
    \A h \in Handle :
        connections[h].close = "Sent" ~> slab[h] = None \/ connections[h].close = "None"

\* An entity whose status is Connecting does not stay so for ever, unless it
\* loses its ConnectionOf.
ConnectingResolves ==
    \A e \in Entity :
        status[e] = "Connecting" ~> status[e] # "Connecting" \/ e \notin connectionOf

-----------------------------------------------------------------------------
(* What the repository says and the code does not do. *)

\* Transport::get_connection "gets the Connection of an Entity" that is related
\* to the endpoint by a ConnectionOf: the connection of that entity.
GetConnectionIsOwn ==
    \A e \in connectionOf :
        GetConnection(e) # None => connections[GetConnection(e)].entity = e

\* ConnectionStatus can be used to check whether a connection is closed: after
\* the update that closed it, it says so.
CloseIsReported ==
    phase = "app" =>
        \A h \in Present :
            LET c == connections[h] IN
            inserts[c.entity] = 1 /\ c.close = "Received" => status[c.entity] = "Closed"

=============================================================================
