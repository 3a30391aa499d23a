------------------------ MODULE QuicEndpointProofs ------------------------
(***************************************************************************)
(* Proofs about QuicEndpoint for every set of entities and handles.        *)
(*                                                                         *)
(* First type correctness, and that the endpoint's two tables, quinn's     *)
(* slab and the ConnectionOf components never disagree.                    *)
(*                                                                         *)
(* Then what is reported to the world: that the attempt of a peer to       *)
(* connect is kept until it is answered, that ConnectionStatus follows the *)
(* state of the connection, and that a reported loss is final.  The        *)
(* commands queued by an update are the difficulty.  They are applied long *)
(* after the events that caused them, to entities that the application may *)
(* have changed or despawned meanwhile.                                    *)
(***************************************************************************)
EXTENDS QuicEndpoint, SequenceTheorems, TLAPS

\* A handle without an entry has nothing flagged or queued.
VacantIsClean ==
    \A h \in Handle : connections[h].entity = None => connections[h] = NoConnection

\* A drained event that quinn has yet to hear of exists only inside an update,
\* for an entry that update_connections will still visit.  So no observer ever
\* sees a drained connection whose slot is not free, which is why the
\* is_drained() test of remove_connections is enough.
DrainIsPending ==
    \A h \in Handle : connections[h].drained =>
        /\ connections[h].state = "Drained"
        /\ phase = "receive" \/ (phase = "update" /\ h \in todo)

Tables == VacantIsClean /\ DrainIsPending /\ SlabAgreement /\ OwnerReachesConnection

IInv == TypeOK /\ Tables

-----------------------------------------------------------------------------
(* The steps that the observers share. *)

\* remove_connections removes every entry of the entity, because there is one
\* at most: what its search picks does not matter.
LEMMA DroppedIsOwned ==
    ASSUME IInv, NEW e \in Entity, NEW drop \in Dropped(e)
    PROVE  drop = Owned(e)
  BY NoneAssumption
  DEF IInv, Tables, OwnerReachesConnection, GetConnection, Dropped, Owned, Present

\* Dropping the connection of e, whether ConnectionOf stays on e or not, keeps
\* the tables in agreement.
LEMMA DropKeepsTables ==
    ASSUME IInv, NEW e \in Entity, NEW drop \in Dropped(e), AppMayAct,
           DropConnection(drop), UNCHANGED <<phase, todo>>,
           connectionOf' \cup {e} = connectionOf \cup {e}
    PROVE  Tables'
<1> DEFINE c == connections
<1>1. drop = Owned(e)
  BY DroppedIsOwned
<1>2. \A h \in Handle : /\ c'[h] = IF h \in drop THEN NoConnection ELSE c[h]
                        /\ slab'[h] = IF h \in drop /\ c[h].state # "Drained"
                                      THEN None ELSE slab[h]
  BY DEF DropConnection, ConnectionsWithout, SlabWithout
<1>3. \A h \in Handle : ~ c[h].drained
  BY DEF IInv, Tables, DrainIsPending, AppMayAct
<1>4. VacantIsClean'
  <2>1. ASSUME NEW h \in Handle, c'[h].entity = None PROVE c'[h] = NoConnection
    BY <1>2, <2>1 DEF IInv, Tables, VacantIsClean
  <2> QED BY <2>1 DEF VacantIsClean
<1>5. DrainIsPending'
  BY <1>2, <1>3 DEF DrainIsPending, NoConnection
<1>6. SlabAgreement'
  BY <1>1, <1>2, <1>3, NoneAssumption
  DEF IInv, Tables, SlabAgreement, NoConnection, Present, Owned
<1>7. OwnerReachesConnection'
  <2>1. ASSUME NEW h \in Handle, c'[h].entity # None
        PROVE  /\ c'[h] = c[h] /\ c[h].entity \in Entity \ {e}
               /\ c[h].entity \in connectionOf /\ connectionHandles[c[h].entity] = h
    BY <1>1, <1>2, <2>1, NoneAssumption
    DEF IInv, TypeOK, QuicConnectionState, Tables, OwnerReachesConnection,
        GetConnection, NoConnection, Present, Owned
  <2>2. connectionHandles' = connectionHandles
    BY DEF DropConnection
  <2> QED
    BY <2>1, <2>2, NoneAssumption
    DEF OwnerReachesConnection, GetConnection, Present
<1> QED BY <1>4, <1>5, <1>6, <1>7 DEF Tables

\* Storing a new connection for e after its old one was dropped keeps them too.
LEMMA StoreKeepsTables ==
    ASSUME IInv, NEW e \in Entity, NEW drop \in Dropped(e), AppMayAct,
           StoreConnection(e, drop), UNCHANGED <<phase, todo>>,
           connectionOf' = connectionOf \cup {e}
    PROVE  Tables'
<1> DEFINE c == connections
<1>1. drop = Owned(e)
  BY DroppedIsOwned
<1>2. PICK n \in Handle :
         /\ SlabWithout(drop)[n] = None
         /\ slab' = [SlabWithout(drop) EXCEPT ![n] = e]
         /\ c' = [ConnectionsWithout(drop) EXCEPT ![n] = Connection(e)]
         /\ connectionHandles' = [connectionHandles EXCEPT ![e] = n]
  BY DEF StoreConnection
<1>3. \A h \in Handle : ~ c[h].drained
  BY DEF IInv, Tables, DrainIsPending, AppMayAct
<1>4. \A h \in Handle \ {n} :
         /\ c'[h] = IF h \in drop THEN NoConnection ELSE c[h]
         /\ slab'[h] = IF h \in drop /\ c[h].state # "Drained" THEN None ELSE slab[h]
  BY <1>2 DEF ConnectionsWithout, SlabWithout
<1>5. c'[n] = Connection(e) /\ slab'[n] = e
  BY <1>2 DEF ConnectionsWithout, SlabWithout
<1>6. VacantIsClean'
  <2>1. Connection(e).entity # None
    BY NoneAssumption DEF Connection
  <2>2. ASSUME NEW h \in Handle, c'[h].entity = None PROVE c'[h] = NoConnection
    BY <1>4, <1>5, <2>1, <2>2 DEF IInv, Tables, VacantIsClean
  <2> QED BY <2>2 DEF VacantIsClean
<1>7. DrainIsPending'
  BY <1>3, <1>4, <1>5 DEF DrainIsPending, NoConnection, Connection
<1>8. SlabAgreement'
  BY <1>1, <1>3, <1>4, <1>5, NoneAssumption
  DEF IInv, Tables, SlabAgreement, NoConnection, Connection, Present, Owned
<1>9. OwnerReachesConnection'
  <2>1. connectionHandles'[e] = n
    BY <1>2 DEF IInv, TypeOK
  <2>2. \A f \in Entity \ {e} : connectionHandles'[f] = connectionHandles[f]
    BY <1>2 DEF IInv, TypeOK
  <2>3. ASSUME NEW h \in Handle, h # n, c'[h].entity # None
        PROVE  /\ c'[h] = c[h] /\ c[h].entity \in Entity \ {e}
               /\ c[h].entity \in connectionOf /\ connectionHandles[c[h].entity] = h
    BY <1>1, <1>4, <2>3, NoneAssumption
    DEF IInv, TypeOK, QuicConnectionState, Tables, OwnerReachesConnection,
        GetConnection, NoConnection, Present, Owned
  <2> QED
    BY <1>5, <2>1, <2>2, <2>3, NoneAssumption
    DEF OwnerReachesConnection, GetConnection, Connection, Present
<1> QED BY <1>6, <1>7, <1>8, <1>9 DEF Tables

-----------------------------------------------------------------------------
(* Type correctness. *)

LEMMA NewConnectionTypes ==
    /\ NoConnection \in QuicConnectionState
    /\ \A e \in Entity : Connection(e) \in QuicConnectionState
  BY DEF Connection, NoConnection, QuicConnectionState, ConnectionStates, CloseFlagState

LEMMA TypeInit == Init => TypeOK
<1>1. ASSUME Init
      PROVE  connections \in [Handle -> QuicConnectionState]
  BY <1>1, NewConnectionTypes DEF Init
<1>2. ASSUME Init
      PROVE  commands \in Seq(Command) /\ inserts \in [Entity -> 0 .. MaxInserts]
  BY <1>2, MaxInsertsAssumption DEF Init
<1> QED BY <1>1, <1>2 DEF Init, TypeOK

\* What a packet, a timer or the poll of a connection leaves is a connection.
LEMMA ConnectionTypes ==
    ASSUME NEW c \in QuicConnectionState
    PROVE  /\ [c EXCEPT !.close = "Sent"] \in QuicConnectionState
           /\ HandshakeDone(c) \in QuicConnectionState
           /\ ClosedByPeer(c) \in QuicConnectionState
           /\ Reset(c) \in QuicConnectionState
           /\ TakeCloseFlag(c) \in QuicConnectionState
           /\ Expire(c) \in QuicConnectionState
           /\ PollAll(c) \in QuicConnectionState
<1> USE DEF QuicConnectionState, CloseFlagState, ConnectionStates
<1>1. [c EXCEPT !.close = "Sent"] \in QuicConnectionState
  OBVIOUS
<1>2. HandshakeDone(c) \in QuicConnectionState
  BY DEF HandshakeDone
<1>3. ClosedByPeer(c) \in QuicConnectionState
  BY DEF ClosedByPeer
<1>4. Reset(c) \in QuicConnectionState
  BY DEF Reset
<1>5. TakeCloseFlag(c) \in QuicConnectionState
  BY DEF TakeCloseFlag
<1>6. Expire(c) \in QuicConnectionState
  BY DEF Expire
<1>7. PollAll(c) \in QuicConnectionState
  BY DEF PollAll
<1> QED BY <1>1, <1>2, <1>3, <1>4, <1>5, <1>6, <1>7

\* The connection table keeps its type when observers store and drop.
LEMMA StoreTypes ==
    ASSUME TypeOK, NEW e \in Entity, NEW drop, StoreConnection(e, drop)
    PROVE  /\ connections' \in [Handle -> QuicConnectionState]
           /\ slab' \in [Handle -> Entity \cup {None}]
           /\ connectionHandles' \in [Entity -> Handle \cup {None}]
<1>1. /\ ConnectionsWithout(drop) \in [Handle -> QuicConnectionState]
      /\ SlabWithout(drop) \in [Handle -> Entity \cup {None}]
  BY NewConnectionTypes DEF TypeOK, ConnectionsWithout, SlabWithout
<1> QED BY <1>1, NewConnectionTypes DEF TypeOK, StoreConnection

LEMMA DropTypes ==
    ASSUME TypeOK, NEW drop, DropConnection(drop)
    PROVE  /\ connections' \in [Handle -> QuicConnectionState]
           /\ slab' \in [Handle -> Entity \cup {None}]
           /\ connectionHandles' \in [Entity -> Handle \cup {None}]
  BY NewConnectionTypes
  DEF TypeOK, DropConnection, ConnectionsWithout, SlabWithout

LEMMA AppTypes ==
    ASSUME TypeOK, NEW e \in Entity, App(e)
    PROVE  TypeOK'
<1> USE DEF Status
<1>1. CASE AcceptConnection(e)
  BY <1>1, StoreTypes, MaxInsertsAssumption
  DEF TypeOK, AcceptConnection, InsertConnectionOf, StatusWithRequired, update
<1>2. CASE AcceptFails(e)
  BY <1>2, DropTypes, MaxInsertsAssumption
  DEF TypeOK, AcceptFails, InsertConnectionOf, StatusWithRequired, update
<1>3. CASE OpenConnection(e)
  BY <1>3, StoreTypes, MaxInsertsAssumption
  DEF TypeOK, OpenConnection, InsertToOpen, InsertConnectionOf, StatusWithRequired, update
<1>4. CASE OpenFails(e)
  BY <1>4, DropTypes, MaxInsertsAssumption
  DEF TypeOK, OpenFails, InsertToOpen, InsertConnectionOf, update
<1>5. CASE OpenUnconfigured(e)
  BY <1>5, DropTypes, MaxInsertsAssumption
  DEF TypeOK, OpenUnconfigured, InsertToOpen, StatusWithRequired, update
<1>6. CASE RemoveConnectionOf(e)
  BY <1>6, DropTypes DEF TypeOK, RemoveConnectionOf, update
<1>7. CASE RefuseConnection(e)
  BY <1>7 DEF TypeOK, RefuseConnection, Refuse, update
<1>8. CASE Despawn(e)
  BY <1>8, DropTypes DEF TypeOK, Despawn, Refuse, update
<1>9. CASE Close(e)
  <2>1. GetConnection(e) \in Handle
    BY <1>9 DEF TypeOK, Close, GetConnection, Present
  <2>2. connections' \in [Handle -> QuicConnectionState]
    <3>1. [connections[GetConnection(e)] EXCEPT !.close = "Sent"] \in QuicConnectionState
      BY <2>1, ConnectionTypes DEF TypeOK
    <3> QED BY <1>9, <2>1, <3>1 DEF TypeOK, Close
  <2> QED BY <1>9, <2>2 DEF TypeOK, Close, world, update
<1> QED BY <1>1, <1>2, <1>3, <1>4, <1>5, <1>6, <1>7, <1>8, <1>9 DEF App

LEMMA QueueTypes ==
    ASSUME NEW kind \in {"Incoming", "Closed", "Established", "Lost"},
           NEW e \in Entity
    PROVE  Queue(kind, e) \in Seq(Command)
  BY DEF Queue, Command

LEMMA ReceiveTypes ==
    ASSUME TypeOK, Receive
    PROVE  TypeOK'
<1>1. CASE HandleIncomingConnection
  <2>1. PICK e \in Entity :
           /\ life' = [life EXCEPT ![e] = "reserved"]
           /\ verdict' = [verdict EXCEPT ![e] = "pending"]
           /\ commands' = commands \o Queue("Incoming", e)
    BY <1>1 DEF HandleIncomingConnection
  <2>2. commands' \in Seq(Command)
    BY <2>1, QueueTypes DEF TypeOK
  <2> QED BY <1>1, <2>1, <2>2 DEF HandleIncomingConnection, TypeOK
<1>2. ASSUME NEW h \in Handle, HandleConnectionEvent(h)
      PROVE  TypeOK'
  <2>1. PICK c \in IF h \in Present THEN AfterPacket(connections[h])
                                    ELSE {connections[h]} :
           connections' = [connections EXCEPT ![h] = c]
    BY <1>2 DEF HandleConnectionEvent
  <2>2. connections[h] \in QuicConnectionState
    BY DEF TypeOK
  <2>3. AfterPacket(connections[h]) \subseteq QuicConnectionState
    <3>1. connections[h].state \in ConnectionStates
      BY <2>2 DEF QuicConnectionState
    <3> QED BY <2>2, <3>1, ConnectionTypes DEF AfterPacket, ConnectionStates
  <2>4. c \in QuicConnectionState
    BY <2>1, <2>2, <2>3
  <2> QED BY <1>2, <2>1, <2>4 DEF HandleConnectionEvent, TypeOK, world, update
<1> QED BY <1>1, <1>2 DEF Receive

\* Every event that the visit of an entry queues is about an entity: an entry
\* that is vacant has none.
LEMMA UpdateConnectionTypes ==
    ASSUME IInv, NEW h \in Handle, NEW expires \in BOOLEAN,
           UpdateConnection(h, expires)
    PROVE  TypeOK'
<1> DEFINE c      == connections[h]
           polled == TakeCloseFlag(c)
           timed  == IF expires THEN Expire(polled) ELSE polled
<1>1. /\ c \in QuicConnectionState /\ polled \in QuicConnectionState
      /\ timed \in QuicConnectionState /\ PollAll(timed) \in QuicConnectionState
  BY ConnectionTypes DEF IInv, TypeOK
<1>2. timed.entity = c.entity
  BY <1>1 DEF TakeCloseFlag, Expire, QuicConnectionState
<1>3. CASE c.entity = None
  <2>1. c = NoConnection
    BY <1>3 DEF IInv, Tables, VacantIsClean
  <2>2. polled = NoConnection /\ ~ expires
    BY <2>1 DEF NoConnection, TakeCloseFlag, UpdateConnection
  <2>3. commands' = commands \o <<>> \o (<<>> \o <<>>)
    <3>1. timed = NoConnection
      BY <2>2
    <3>2. c.close # "Sent" /\ ~ timed.connected /\ ~ timed.lost
      BY <2>1, <3>1 DEF NoConnection
    <3> QED BY <3>2 DEF UpdateConnection, Events, When
  <2>4. commands' = commands
    BY <2>3 DEF IInv, TypeOK
  <2>5. connections' = [connections EXCEPT ![h] = PollAll(timed)]
        /\ slab' \in {slab, [slab EXCEPT ![h] = None]}
    BY DEF UpdateConnection
  <2> QED BY <1>1, <2>4, <2>5 DEF UpdateConnection, IInv, TypeOK, world
<1>4. CASE c.entity # None
  <2>1. c.entity \in Entity
    BY <1>1, <1>4 DEF QuicConnectionState
  <2>2. /\ When(c.close = "Sent", Queue("Closed", c.entity)) \in Seq(Command)
        /\ When(timed.connected, Queue("Established", c.entity)) \in Seq(Command)
        /\ When(timed.lost, Queue("Lost", c.entity)) \in Seq(Command)
    BY <2>1, QueueTypes DEF When
  <2>3. commands' \in Seq(Command)
    BY <1>2, <2>2 DEF UpdateConnection, Events, IInv, TypeOK
  <2>4. connections' = [connections EXCEPT ![h] = PollAll(timed)]
        /\ slab' \in {slab, [slab EXCEPT ![h] = None]}
    BY DEF UpdateConnection
  <2> QED BY <1>1, <2>3, <2>4 DEF UpdateConnection, IInv, TypeOK, world
<1> QED BY <1>3, <1>4

LEMMA UpdateTypes ==
    ASSUME IInv, Update
    PROVE  TypeOK'
<1>1. CASE BeginUpdate
  BY <1>1 DEF BeginUpdate, IInv, TypeOK, world, endpoint
<1>2. CASE FinishReceive
  BY <1>2 DEF FinishReceive, IInv, TypeOK, world, Present
<1>3. CASE \E h \in Handle, expires \in BOOLEAN : UpdateConnection(h, expires)
  BY <1>3, UpdateConnectionTypes
<1>4. CASE FinishUpdate
  BY <1>4 DEF FinishUpdate, IInv, TypeOK, world, endpoint
<1>5. CASE ApplyCommand
  <2>1. Head(commands) \in Command /\ Tail(commands) \in Seq(Command)
    BY <1>5 DEF ApplyCommand, IInv, TypeOK
  <2>2. Head(commands).entity \in Entity
    BY <2>1 DEF Command
  <2>3. /\ life' \in [Entity -> {"unspawned", "reserved", "alive", "despawned"}]
        /\ status' \in [Entity -> Status \cup {None}]
        /\ closedReason' \subseteq Entity
        /\ incoming' \subseteq Entity
    BY <1>5, <2>1, <2>2 DEF ApplyCommand, Apply, Command, IInv, TypeOK, Status
  <2> QED BY <1>5, <2>1, <2>3 DEF ApplyCommand, IInv, TypeOK, endpoint
<1>6. CASE FinishApply
  BY <1>6 DEF FinishApply, IInv, TypeOK, world, endpoint
<1> QED BY <1>1, <1>2, <1>3, <1>4, <1>5, <1>6 DEF Update

-----------------------------------------------------------------------------
(* The tables keep in agreement. *)

\* A step that changes nothing of a table's concern, or only one entry of
\* `connections`, in a way that neither changes its owner nor drains it.
LEMMA StillTables ==
    ASSUME IInv, UNCHANGED <<connections, slab, connectionHandles, connectionOf>>,
           \/ UNCHANGED <<phase, todo>>
           \/ phase' = "receive"
           \/ phase = "receive" /\ phase' = "update" /\ todo' = Present
           \/ phase # "receive" /\ (phase = "update" => todo = {})
    PROVE  Tables'
<1>1. VacantIsClean' /\ SlabAgreement' /\ OwnerReachesConnection'
  BY DEF IInv, Tables, VacantIsClean, SlabAgreement, OwnerReachesConnection,
         GetConnection, Present
<1>2. DrainIsPending'
  BY DEF IInv, Tables, VacantIsClean, DrainIsPending, NoConnection, Present
<1> QED BY <1>1, <1>2 DEF Tables

LEMMA EntryKeepsTables ==
    ASSUME IInv, NEW h \in Handle, NEW c,
           connections' = [connections EXCEPT ![h] = c],
           connections[h].entity # None,
           c.entity = connections[h].entity,
           \/ c.state # "Drained" /\ connections[h].state # "Drained" /\ ~ c.drained
           \/ c.state = connections[h].state /\ c.drained = connections[h].drained
           \/ phase = "receive" /\ c.state = "Drained" /\ c.drained
                /\ connections[h].state # "Drained",
           UNCHANGED <<slab, connectionHandles, connectionOf, phase, todo>>
    PROVE  Tables'
<1>1. connections'[h] = c /\ \A g \in Handle \ {h} : connections'[g] = connections[g]
  BY DEF IInv, TypeOK
<1>2. VacantIsClean'
  BY <1>1 DEF IInv, Tables, VacantIsClean
<1>3. DrainIsPending'
  BY <1>1 DEF IInv, Tables, DrainIsPending
<1>4. SlabAgreement'
  BY <1>1 DEF IInv, Tables, SlabAgreement, Present
<1>5. OwnerReachesConnection'
  BY <1>1 DEF IInv, TypeOK, Tables, OwnerReachesConnection, GetConnection, Present
<1> QED BY <1>2, <1>3, <1>4, <1>5 DEF Tables

LEMMA AppTables ==
    ASSUME IInv, NEW e \in Entity, App(e)
    PROVE  Tables'
<1>1. CASE AcceptConnection(e)
  BY <1>1, StoreKeepsTables DEF AcceptConnection, InsertConnectionOf, update
<1>2. CASE AcceptFails(e)
  BY <1>2, DropKeepsTables DEF AcceptFails, InsertConnectionOf, update
<1>3. CASE OpenConnection(e)
  BY <1>3, StoreKeepsTables DEF OpenConnection, InsertToOpen, InsertConnectionOf, update
<1>4. CASE OpenFails(e)
  BY <1>4, DropKeepsTables DEF OpenFails, InsertToOpen, InsertConnectionOf, update
<1>5. CASE OpenUnconfigured(e)
  BY <1>5, DropKeepsTables DEF OpenUnconfigured, InsertToOpen, update
<1>6. CASE RemoveConnectionOf(e)
  BY <1>6, DropKeepsTables DEF RemoveConnectionOf, update
<1>7. CASE RefuseConnection(e)
  BY <1>7, StillTables DEF RefuseConnection, update
<1>8. CASE Despawn(e)
  BY <1>8, DropKeepsTables DEF Despawn, update
<1>9. CASE Close(e)
  <2> DEFINE h == GetConnection(e)
             c == [connections[h] EXCEPT !.close = "Sent"]
  <2>1. h \in Handle /\ connections[h].entity # None
    BY <1>9 DEF IInv, TypeOK, Close, GetConnection, Present
  <2>2. connections' = [connections EXCEPT ![h] = c]
    BY <1>9 DEF Close
  <2>3. /\ c.entity = connections[h].entity /\ c.state = connections[h].state
        /\ c.drained = connections[h].drained
    BY <2>1 DEF IInv, TypeOK, QuicConnectionState
  <2> QED
    BY <1>9, <2>1, <2>2, <2>3, EntryKeepsTables DEF Close, world, update
<1> QED BY <1>1, <1>2, <1>3, <1>4, <1>5, <1>6, <1>7, <1>8, <1>9 DEF App

LEMMA ReceiveTables ==
    ASSUME IInv, Receive
    PROVE  Tables'
<1>1. CASE HandleIncomingConnection
  BY <1>1, StillTables DEF HandleIncomingConnection
<1>2. ASSUME NEW h \in Handle, HandleConnectionEvent(h)
      PROVE  Tables'
  <2>1. h \in Present
    BY <1>2 DEF HandleConnectionEvent, IInv, Tables, SlabAgreement
  <2>2. PICK c \in AfterPacket(connections[h]) :
           connections' = [connections EXCEPT ![h] = c]
    BY <1>2, <2>1 DEF HandleConnectionEvent
  <2>3. connections[h] \in QuicConnectionState
    BY DEF IInv, TypeOK
  <2>4. connections[h].state \in ConnectionStates
    BY <2>3 DEF QuicConnectionState
  <2>5. \/ /\ connections[h].state # "Drained"
           /\ \/ c = HandshakeDone(connections[h])
              \/ c = ClosedByPeer(connections[h])
              \/ c = Reset(connections[h])
        \/ c = connections[h]
    BY <2>2, <2>4 DEF AfterPacket, ConnectionStates
  <2>6. c.entity = connections[h].entity
    BY <2>3, <2>5 DEF HandshakeDone, ClosedByPeer, Reset, QuicConnectionState
  <2>7. connections[h].state # "Drained" => ~ connections[h].drained
    BY DEF IInv, Tables, DrainIsPending
  <2>8. \/ c.state # "Drained" /\ connections[h].state # "Drained" /\ ~ c.drained
        \/ c.state = connections[h].state /\ c.drained = connections[h].drained
        \/ c.state = "Drained" /\ c.drained /\ connections[h].state # "Drained"
    BY <2>3, <2>5, <2>7 DEF HandshakeDone, ClosedByPeer, Reset, QuicConnectionState
  <2> QED
    BY <1>2, <2>1, <2>2, <2>6, <2>8, EntryKeepsTables
    DEF HandleConnectionEvent, Present, world, update
<1> QED BY <1>1, <1>2 DEF Receive

\* The visit of an entry: when the connection has drained the slot is freed in
\* the same step in which the pending event disappears.
LEMMA UpdateConnectionTables ==
    ASSUME IInv, NEW h \in Handle, NEW expires \in BOOLEAN,
           UpdateConnection(h, expires)
    PROVE  Tables'
<1> DEFINE c      == connections[h]
           polled == TakeCloseFlag(c)
           timed  == IF expires THEN Expire(polled) ELSE polled
           after  == PollAll(timed)
<1>1. c \in QuicConnectionState /\ polled \in QuicConnectionState /\ timed \in QuicConnectionState
  BY ConnectionTypes DEF IInv, TypeOK
<1>2. polled.entity = c.entity /\ polled.drained = c.drained
      /\ (polled.state = "Drained" <=> c.state = "Drained")
  BY <1>1 DEF TakeCloseFlag, QuicConnectionState
<1>3. timed.entity = c.entity
  BY <1>1, <1>2 DEF Expire, QuicConnectionState
<1>4. timed.drained => timed.state = "Drained"
  BY <1>1, <1>2 DEF Expire, QuicConnectionState, IInv, Tables, DrainIsPending
<1>5. ~ timed.drained => timed.drained = c.drained /\ (timed.state = "Drained" <=> c.state = "Drained")
  BY <1>1, <1>2 DEF Expire, QuicConnectionState
<1>6. after.entity = c.entity /\ after.state = timed.state /\ ~ after.drained
  BY <1>1, <1>3 DEF PollAll, QuicConnectionState
<1>7. /\ connections'[h] = after
      /\ slab'[h] = IF timed.drained THEN None ELSE slab[h]
      /\ \A g \in Handle \ {h} : connections'[g] = connections[g] /\ slab'[g] = slab[g]
  BY DEF UpdateConnection, IInv, TypeOK
<1>8. VacantIsClean'
  <2>1. ASSUME c.entity = None PROVE after = NoConnection
    <3>1. c = NoConnection
      BY <2>1 DEF IInv, Tables, VacantIsClean
    <3>2. timed = NoConnection
      BY <3>1 DEF NoConnection, TakeCloseFlag, UpdateConnection
    <3>3. PollAll(NoConnection) = NoConnection
      BY NewConnectionTypes DEF NoConnection, PollAll, QuicConnectionState
    <3> QED BY <3>2, <3>3
  <2> QED BY <1>6, <1>7, <2>1 DEF IInv, Tables, VacantIsClean
<1>9. DrainIsPending'
  BY <1>6, <1>7 DEF UpdateConnection, IInv, Tables, DrainIsPending
<1>10. SlabAgreement'
  BY <1>4, <1>5, <1>6, <1>7 DEF IInv, Tables, SlabAgreement, Present
<1>11. OwnerReachesConnection'
  <2>1. connectionHandles' = connectionHandles /\ connectionOf' = connectionOf
    BY DEF UpdateConnection, world
  <2>2. \A g \in Handle : connections'[g].entity = connections[g].entity
    BY <1>6, <1>7
  <2>3. Present' = Present
    BY <2>2 DEF Present
  <2>4. ASSUME NEW g \in Present'
        PROVE  /\ connections'[g].entity \in connectionOf
               /\ connectionHandles[connections'[g].entity] = g
    BY <2>2, <2>3, NoneAssumption
    DEF IInv, Tables, OwnerReachesConnection, GetConnection, Present
  <2>5. Present' \subseteq Handle
    BY DEF Present
  <2> QED
    BY <2>1, <2>4, <2>5, NoneAssumption DEF OwnerReachesConnection, GetConnection
<1> QED BY <1>8, <1>9, <1>10, <1>11 DEF Tables

LEMMA UpdateTables ==
    ASSUME IInv, Update
    PROVE  Tables'
<1>1. CASE BeginUpdate
  BY <1>1, StillTables DEF BeginUpdate, world, endpoint
<1>2. CASE FinishReceive
  BY <1>2, StillTables DEF FinishReceive, world
<1>3. CASE \E h \in Handle, expires \in BOOLEAN : UpdateConnection(h, expires)
  BY <1>3, UpdateConnectionTables
<1>4. CASE FinishUpdate
  BY <1>4, StillTables DEF FinishUpdate, world, endpoint
<1>5. CASE ApplyCommand
  BY <1>5, StillTables DEF ApplyCommand, endpoint
<1>6. CASE FinishApply
  BY <1>6, StillTables DEF FinishApply, world, endpoint
<1> QED BY <1>1, <1>2, <1>3, <1>4, <1>5, <1>6 DEF Update

-----------------------------------------------------------------------------
(* The theorems. *)

LEMMA TablesInit == Init => Tables
  BY NoneAssumption
  DEF Init, Tables, VacantIsClean, DrainIsPending, SlabAgreement,
      OwnerReachesConnection, NoConnection, Present

LEMMA StepKeepsIInv == IInv /\ [Next]_vars => IInv'
<1> SUFFICES ASSUME IInv, [Next]_vars PROVE IInv'
  OBVIOUS
<1>1. ASSUME NEW e \in Entity, App(e) PROVE IInv'
  BY <1>1, AppTypes, AppTables DEF IInv
<1>2. CASE Receive
  BY <1>2, ReceiveTypes, ReceiveTables DEF IInv
<1>3. CASE Update
  BY <1>3, UpdateTypes, UpdateTables DEF IInv
<1>4. CASE UNCHANGED vars
  <2>1. TypeOK'
    BY <1>4 DEF vars, world, endpoint, update, IInv, TypeOK
  <2>2. Tables'
    BY <1>4, StillTables DEF vars, world, endpoint, update
  <2> QED BY <2>1, <2>2 DEF IInv
<1> QED BY <1>1, <1>2, <1>3, <1>4 DEF Next

LEMMA Inductive == Spec => []IInv
<1>1. Init => IInv
  BY TypeInit, TablesInit DEF IInv
<1> QED BY <1>1, StepKeepsIInv, PTL DEF Spec

\* Every handler of the endpoint keeps every variable to its range.
THEOREM TypeCorrect == Spec => []TypeOK
<1>1. IInv => TypeOK
  BY DEF IInv
<1> QED BY <1>1, Inductive, PTL

\* The endpoint's connections and quinn's slab agree on which handles are in
\* use and by whom, whatever the application, the peers and the timers do:
\* update_connections and remove_connections free each handle exactly once.
THEOREM SlabAgrees == Spec => []SlabAgreement
<1>1. IInv => SlabAgreement
  BY DEF IInv, Tables
<1> QED BY <1>1, Inductive, PTL

\* The owner of an entry has a ConnectionOf and reaches that entry with
\* get_connection, so that no entity ever has two connections.
THEOREM OwnerReaches == Spec => []OwnerReachesConnection
<1>1. IInv => OwnerReachesConnection
  BY DEF IInv, Tables
<1> QED BY <1>1, Inductive, PTL

-----------------------------------------------------------------------------
(* What is reported to the world. *)

\* Between updates nothing is queued, and what the socket queues is Incoming.
QueueFollowsPhase ==
    /\ phase = "app" => commands = <<>>
    /\ phase = "receive" => \A i \in DOMAIN commands : commands[i].kind = "Incoming"

Closing == {"Closed", "Drained"}

\* An event that quinn has yet to return is taken in the same update, and a
\* connection whose loss is such an event has left its working states.
EventsArePending ==
    \A h \in Handle :
        /\ connections[h].connected \/ connections[h].lost =>
              phase = "receive" \/ (phase = "update" /\ h \in todo)
        /\ connections[h].lost => connections[h].state \in Closing

OneArrival(e) ==
    \A i, j \in DOMAIN commands :
        commands[i] = [kind |-> "Incoming", entity |-> e] /\ commands[j] = commands[i]
            => i = j

\* An attempt waits either in the queue, its entity only reserved, or in a
\* component of that entity, and never in both or twice in the queue.
Waits(e) ==
    /\ e \in incoming => life[e] = "alive"
    /\ Queued("Incoming", e) => life[e] = "reserved"
    /\ verdict[e] = "pending" <=> e \in incoming \/ Queued("Incoming", e)
    /\ OneArrival(e)

\* An entity that never had a ConnectionOf is untouched by the endpoint.
Untouched(e) ==
    inserts[e] = 0 =>
        /\ status[e] = None
        /\ e \notin closedReason
        /\ Owned(e) = {}
        /\ \A kind \in {"Closed", "Established", "Lost"} : ~ Queued(kind, e)

LossIsLast(e) ==
    \A i, j \in DOMAIN commands :
        /\ commands[i] = [kind |-> "Lost", entity |-> e]
        /\ commands[j] = [kind |-> "Established", entity |-> e]
        => j < i

\* The loss of e's only connection ends it: nothing that is queued, and nothing
\* that quinn has yet to return, sets another status than Closed after it.
EndsWithLoss(e) ==
    inserts[e] = 1 =>
        /\ e \in closedReason => status[e] = "Closed" /\ ~ Queued("Established", e)
        /\ LossIsLast(e)
        /\ e \in closedReason \/ Queued("Lost", e) =>
              \A h \in Owned(e) : connections[h].state \in Closing /\ ~ connections[h].connected

\* Where the news of the state of e's only connection is: with quinn, in the
\* queue or in the components of e.
Reported(e, c) ==
    /\ c.state \in {"Handshake", "Open"} => ~ Queued("Closed", e) /\ ~ Queued("Lost", e)
    /\ c.state = "Handshake" =>
          status[e] = "Connecting" /\ ~ Queued("Established", e) /\ ~ c.connected
    /\ c.state = "Open" =>
          c.connected \/ Queued("Established", e) \/ status[e] = "Established"
    /\ c.state \in Closing => c.lost \/ Queued("Lost", e) \/ e \in closedReason

IsReported(e) ==
    inserts[e] = 1 =>
        \A h \in Owned(e) :
            connections[h].close # "Received" => Reported(e, connections[h])

Settled(e) == Waits(e) /\ Untouched(e) /\ EndsWithLoss(e) /\ IsReported(e)

Reports ==
    /\ QueueFollowsPhase /\ EventsArePending
    /\ \A e \in connectionOf : life[e] = "alive"
    /\ \A e \in Entity : Settled(e)

RInv == IInv /\ Reports

-----------------------------------------------------------------------------
(* The queue. *)

Kind == {"Incoming", "Closed", "Established", "Lost"}

\* t is s and, if b, one more command.
Appends(s, b, cmd, t) ==
    /\ t \in Seq(Command)
    /\ \A i \in DOMAIN s : i \in DOMAIN t /\ t[i] = s[i] /\ i < Len(s) + 1
    /\ \A i \in DOMAIN t \ DOMAIN s : b /\ i = Len(s) + 1 /\ t[i] = cmd
    /\ b => Len(s) + 1 \in DOMAIN t \ DOMAIN s /\ t[Len(s) + 1] = cmd

LEMMA QueueAppends ==
    ASSUME NEW s \in Seq(Command), NEW b \in BOOLEAN, NEW kind \in Kind, NEW e \in Entity
    PROVE  Appends(s, b, [kind |-> kind, entity |-> e], s \o When(b, Queue(kind, e)))
<1> DEFINE cmd == [kind |-> kind, entity |-> e]
           t == s \o When(b, Queue(kind, e))
<1>1. cmd \in Command
  BY DEF Command, Kind
<1>2. CASE b
  <2>1. t = s \o <<cmd>>
    BY <1>2 DEF When, Queue
  <2> HIDE DEF cmd, t
  <2>2. t \in Seq(Command) /\ Len(t) = Len(s) + 1 /\ t[Len(s) + 1] = cmd
    BY <1>1, <2>1
  <2>3. \A i \in 1 .. Len(s) : t[i] = s[i]
    BY <1>1, <2>1
  <2>4. DOMAIN s = 1 .. Len(s) /\ DOMAIN t = 1 .. Len(s) + 1 /\ Len(s) \in Nat
    BY <2>2
  <2>5. Appends(s, b, cmd, t)
    BY <1>2, <2>2, <2>3, <2>4 DEF Appends
  <2> QED BY <2>5 DEF cmd, t
<1>3. CASE ~ b
  <2>1. t = s
    BY <1>3 DEF When
  <2>2. DOMAIN s = 1 .. Len(s) /\ Len(s) \in Nat
    OBVIOUS
  <2> HIDE DEF cmd, t
  <2>3. Appends(s, b, cmd, t)
    BY <1>3, <2>1, <2>2 DEF Appends
  <2> QED BY <2>3 DEF cmd, t
<1> QED BY <1>2, <1>3

LEMMA CommandsAssociate ==
    \A r, s, t \in Seq(Command) : r \o (s \o t) = (r \o s) \o t
  BY ConcatAssociative

LEMMA QueueShrinks ==
    ASSUME commands \in Seq(Command), commands # <<>>, commands' = Tail(commands)
    PROVE  /\ 1 \in DOMAIN commands /\ commands[1] = Head(commands)
           /\ Head(commands) \in Command
           /\ \A i \in DOMAIN commands' :
                 /\ i \in Nat \ {0} /\ i + 1 \in DOMAIN commands
                 /\ commands'[i] = commands[i + 1]
           /\ \A i \in DOMAIN commands :
                 \/ i = 1
                 \/ i \in Nat /\ i - 1 \in DOMAIN commands' /\ commands'[i - 1] = commands[i]
  OBVIOUS

\* The connection as the visit of update_connections polls it.
Timed(c, expires) ==
    IF expires THEN Expire(TakeCloseFlag(c)) ELSE TakeCloseFlag(c)

\* What a visit adds to the queue: only news of the visited connection's owner,
\* each kind for its own reason, and the loss after everything else.
LEMMA VisitQueues ==
    ASSUME IInv, NEW h \in Handle, NEW expires \in BOOLEAN, NEW c, NEW timed,
           UpdateConnection(h, expires), c = connections[h],
           timed = Timed(c, expires), c.entity # None
    PROVE  /\ commands' \in Seq(Command)
           /\ \A i \in DOMAIN commands : i \in DOMAIN commands' /\ commands'[i] = commands[i]
           /\ \A i \in DOMAIN commands' \ DOMAIN commands :
                 /\ commands'[i].entity = c.entity
                 /\ \/ commands'[i].kind = "Closed" /\ c.close = "Sent"
                    \/ commands'[i].kind = "Established" /\ timed.connected
                    \/ commands'[i].kind = "Lost" /\ timed.lost
                 /\ \A j \in DOMAIN commands : j < i
                 /\ \A j \in DOMAIN commands' \ DOMAIN commands :
                       commands'[i].kind = "Lost" /\ commands'[j].kind = "Established" => j < i
           /\ timed.connected => Queued("Established", c.entity)'
           /\ timed.lost => Queued("Lost", c.entity)'
<1>1. c \in QuicConnectionState /\ timed \in QuicConnectionState
  BY ConnectionTypes DEF IInv, TypeOK, Timed
<1>2. c.entity \in Entity /\ timed.entity = c.entity
      /\ timed.connected \in BOOLEAN /\ timed.lost \in BOOLEAN
  BY <1>1 DEF Timed, TakeCloseFlag, Expire, QuicConnectionState
<1> DEFINE s == commands \o When(c.close = "Sent", Queue("Closed", c.entity))
           t == s \o When(timed.connected, Queue("Established", c.entity))
           u == t \o When(timed.lost, Queue("Lost", c.entity))
<1>3. commands \in Seq(Command)
  BY DEF IInv, TypeOK
<1>4. Appends(commands, c.close = "Sent", [kind |-> "Closed", entity |-> c.entity], s)
  <2>1. (c.close = "Sent") \in BOOLEAN /\ "Closed" \in Kind
    BY DEF Kind
  <2> QED BY <1>2, <1>3, <2>1, QueueAppends, Zenon
<1>5. Appends(s, timed.connected, [kind |-> "Established", entity |-> c.entity], t)
  <2>1. s \in Seq(Command) /\ "Established" \in Kind
    BY <1>4 DEF Appends, Kind
  <2> HIDE DEF s
  <2> QED BY <1>2, <2>1, QueueAppends, Zenon
<1>6. Appends(t, timed.lost, [kind |-> "Lost", entity |-> c.entity], u)
  <2>1. t \in Seq(Command) /\ "Lost" \in Kind
    BY <1>5 DEF Appends, Kind
  <2> HIDE DEF t
  <2> QED BY <1>2, <2>1, QueueAppends, Zenon
<1>7. commands' = u
  <2> DEFINE established == When(timed.connected, Queue("Established", c.entity))
             lost == When(timed.lost, Queue("Lost", c.entity))
  <2>1. commands' = s \o Events(timed)
    BY DEF UpdateConnection, Timed
  <2>2. Events(timed) = established \o lost
    BY <1>2 DEF Events
  <2>3. established \in Seq(Command) /\ lost \in Seq(Command)
    BY <1>2, QueueTypes DEF When
  <2>4. s \in Seq(Command)
    BY <1>4 DEF Appends
  <2>5. commands' = s \o (established \o lost) /\ u = (s \o established) \o lost
    BY <2>1, <2>2
  <2> HIDE DEF s, established, lost
  <2>6. s \o (established \o lost) = (s \o established) \o lost
    BY <2>3, <2>4, CommandsAssociate, Zenon
  <2> HIDE DEF t, u
  <2> QED BY <2>5, <2>6, Zenon
<1> QED
  <2> HIDE DEF s, t, u
  <2>1. commands' \in Seq(Command)
    BY <1>6, <1>7 DEF Appends
  <2>2. \A i \in DOMAIN commands : i \in DOMAIN commands' /\ commands'[i] = commands[i]
    BY <1>4, <1>5, <1>6, <1>7 DEF Appends
  <2>3. ASSUME NEW i \in DOMAIN commands' \ DOMAIN commands
        PROVE  /\ commands'[i].entity = c.entity
               /\ \/ commands'[i].kind = "Closed" /\ c.close = "Sent"
                  \/ commands'[i].kind = "Established" /\ timed.connected
                  \/ commands'[i].kind = "Lost" /\ timed.lost
               /\ \A j \in DOMAIN commands : j < i
               /\ \A j \in DOMAIN commands' \ DOMAIN commands :
                     commands'[i].kind = "Lost" /\ commands'[j].kind = "Established" => j < i
    <3>1. CASE i \in DOMAIN s
      BY <1>4, <1>5, <1>6, <1>7, <3>1 DEF Appends
    <3>2. CASE i \in DOMAIN t \ DOMAIN s
      BY <1>4, <1>5, <1>6, <1>7, <3>2 DEF Appends
    <3>3. CASE i \notin DOMAIN t
      BY <1>4, <1>5, <1>6, <1>7, <3>3 DEF Appends
    <3> QED BY <3>1, <3>2, <3>3
  <2>4. timed.connected => Queued("Established", c.entity)'
    BY <1>5, <1>6, <1>7 DEF Appends, Queued
  <2>5. timed.lost => Queued("Lost", c.entity)'
    BY <1>6, <1>7 DEF Appends, Queued
  <2> QED BY <2>1, <2>2, <2>3, <2>4, <2>5

\* A step that adds to the queue, or takes away, commands about another entity.
QueueKeeps(f) ==
    /\ \A kind \in Kind : Queued(kind, f)' <=> Queued(kind, f)
    /\ OneArrival(f) => OneArrival(f)'
    /\ LossIsLast(f) => LossIsLast(f)'

LEMMA StillQueue ==
    ASSUME UNCHANGED commands
    PROVE  \A f \in Entity : QueueKeeps(f)
  BY DEF QueueKeeps, Queued, OneArrival, LossIsLast

LEMMA OthersQueueGrows ==
    ASSUME NEW e \in Entity, NEW f \in Entity, f # e,
           \A i \in DOMAIN commands : i \in DOMAIN commands' /\ commands'[i] = commands[i],
           \A i \in DOMAIN commands' \ DOMAIN commands : commands'[i].entity = e
    PROVE  QueueKeeps(f)
<1>1. \A i \in DOMAIN commands' : commands'[i].entity = f =>
         i \in DOMAIN commands /\ commands'[i] = commands[i]
  OBVIOUS
<1>2. \A kind \in Kind : Queued(kind, f)' <=> Queued(kind, f)
  BY <1>1 DEF Queued
<1>3. OneArrival(f) => OneArrival(f)'
  BY <1>1 DEF OneArrival
<1>4. LossIsLast(f) => LossIsLast(f)'
  BY <1>1 DEF LossIsLast
<1> QED BY <1>2, <1>3, <1>4 DEF QueueKeeps

LEMMA OthersQueueShrinks ==
    ASSUME commands \in Seq(Command), commands # <<>>, commands' = Tail(commands),
           NEW f \in Entity, f # Head(commands).entity
    PROVE  QueueKeeps(f)
<1>1. /\ \A i \in DOMAIN commands' :
            /\ i \in Nat \ {0} /\ i + 1 \in DOMAIN commands
            /\ commands'[i] = commands[i + 1]
      /\ \A i \in DOMAIN commands : commands[i].entity = f =>
            i \in Nat /\ i - 1 \in DOMAIN commands' /\ commands'[i - 1] = commands[i]
  BY QueueShrinks
<1>2. \A kind \in Kind : Queued(kind, f)' <=> Queued(kind, f)
  BY <1>1 DEF Queued
<1>3. OneArrival(f) => OneArrival(f)'
  BY <1>1 DEF OneArrival
<1>4. LossIsLast(f) => LossIsLast(f)'
  BY <1>1 DEF LossIsLast
<1> QED BY <1>2, <1>3, <1>4 DEF QueueKeeps

-----------------------------------------------------------------------------
(* The entities that a step is not about. *)

\* The connection has no other news than before.
SameNews(c, d) ==
    /\ d.entity = c.entity /\ d.state = c.state
    /\ d.connected = c.connected /\ d.lost = c.lost
    /\ c.close = "Received" => d.close = "Received"

Unmoved(f) ==
    /\ life'[f] = life[f] /\ status'[f] = status[f]
    /\ inserts'[f] = inserts[f] /\ verdict'[f] = verdict[f]
    /\ f \in incoming' <=> f \in incoming
    /\ f \in closedReason' <=> f \in closedReason
    /\ \A h \in Handle : connections'[h].entity = f => SameNews(connections[h], connections'[h])

LEMMA UnmovedStaysSettled ==
    ASSUME NEW f \in Entity, Settled(f), QueueKeeps(f), Unmoved(f)
    PROVE  Settled(f)'
<1>1. \A h \in Owned(f)' : h \in Owned(f) /\ SameNews(connections[h], connections'[h])
  BY DEF Owned, Unmoved, SameNews
<1>2. \A kind \in Kind : Queued(kind, f)' <=> Queued(kind, f)
  BY DEF QueueKeeps
<1>3. Waits(f)'
  BY <1>2 DEF Settled, Waits, Unmoved, QueueKeeps, Kind
<1>4. Untouched(f)'
  BY <1>1, <1>2 DEF Settled, Untouched, Unmoved, Kind
<1>5. EndsWithLoss(f)'
  BY <1>1, <1>2 DEF Settled, EndsWithLoss, Unmoved, QueueKeeps, Kind, SameNews
<1>6. IsReported(f)'
  BY <1>1, <1>2 DEF Settled, IsReported, Reported, Unmoved, Kind, SameNews
<1> QED BY <1>3, <1>4, <1>5, <1>6 DEF Settled

-----------------------------------------------------------------------------
(* The application. *)

\* What an insertion and a removal of ConnectionOf leave in the table.
LEMMA StoreView ==
    ASSUME IInv, NEW e \in Entity, NEW drop \in Dropped(e), StoreConnection(e, drop),
           NEW h \in Handle
    PROVE  \/ connections'[h] = Connection(e)
           \/ /\ connections'[h].entity # e
              /\ connections'[h] \in {connections[h], NoConnection}
<1>1. drop = Owned(e)
  BY DroppedIsOwned
<1>2. PICK n \in Handle :
         connections' = [ConnectionsWithout(drop) EXCEPT ![n] = Connection(e)]
  BY DEF StoreConnection
<1>3. connections'[h] = IF h = n THEN Connection(e)
                        ELSE IF h \in drop THEN NoConnection ELSE connections[h]
  BY <1>2 DEF ConnectionsWithout
<1> QED BY <1>1, <1>3, NoneAssumption DEF NoConnection, Owned

LEMMA DropView ==
    ASSUME IInv, NEW e \in Entity, NEW drop \in Dropped(e), DropConnection(drop),
           NEW h \in Handle
    PROVE  /\ connections'[h].entity # e
           /\ connections'[h] \in {connections[h], NoConnection}
<1>1. drop = Owned(e)
  BY DroppedIsOwned
<1>2. connections'[h] = IF h \in drop THEN NoConnection ELSE connections[h]
  BY DEF DropConnection, ConnectionsWithout
<1> QED BY <1>1, <1>2, NoneAssumption DEF NoConnection, Owned

\* While the application acts no connection has an event in store.
LEMMA AppEvents ==
    ASSUME RInv, AppMayAct, NEW e \in Entity, UNCHANGED <<phase, todo, commands>>,
           \A h \in Handle :
               connections'[h] \in {connections[h], NoConnection, Connection(e)}
    PROVE  QueueFollowsPhase' /\ EventsArePending'
<1>1. QueueFollowsPhase'
  BY DEF RInv, Reports, QueueFollowsPhase
<1>2. EventsArePending'
  BY DEF RInv, Reports, EventsArePending, AppMayAct, NoConnection, Connection
<1> QED BY <1>1, <1>2

\* The other entities see nothing of what the application does to e.
LEMMA OthersUnmoved ==
    ASSUME RInv, NEW e \in Entity, NEW f \in Entity, f # e, UNCHANGED commands,
           life'[f] = life[f], status'[f] = status[f],
           inserts'[f] = inserts[f], verdict'[f] = verdict[f],
           f \in incoming' <=> f \in incoming,
           f \in closedReason' <=> f \in closedReason,
           \A h \in Handle :
               connections'[h] \in {connections[h], NoConnection, Connection(e)}
    PROVE  Settled(f)'
<1>1. Unmoved(f)
  BY NoneAssumption DEF Unmoved, SameNews, NoConnection, Connection
<1>2. Settled(f) /\ QueueKeeps(f)
  BY StillQueue DEF RInv, Reports
<1> QED BY <1>1, <1>2, UnmovedStaysSettled

\* After the first insertion the entity is as quinn's new connection is; after
\* a later one there is nothing to say.
LEMMA InsertSettles ==
    ASSUME RInv, NEW e \in Entity, UNCHANGED commands,
           inserts'[e] = inserts[e] + 1,
           e \in closedReason' <=> e \in closedReason,
           \A h \in Handle : connections'[h].entity = e =>
               connections'[h] = Connection(e)
               /\ (status[e] = None => status'[e] = "Connecting"),
           Waits(e)'
    PROVE  Settled(e)'
<1>1. inserts[e] \in Nat
  BY MaxInsertsAssumption DEF RInv, IInv, TypeOK
<1>2. Untouched(e)'
  BY <1>1 DEF Untouched
<1>3. CASE inserts[e] # 0
  BY <1>1, <1>2, <1>3 DEF Settled, EndsWithLoss, IsReported
<1>4. CASE inserts[e] = 0
  <2>1. /\ status[e] = None /\ e \notin closedReason
        /\ ~ Queued("Closed", e) /\ ~ Queued("Established", e) /\ ~ Queued("Lost", e)
    BY <1>4 DEF RInv, Reports, Settled, Untouched
  <2>2. /\ e \notin closedReason'
        /\ ~ Queued("Closed", e)' /\ ~ Queued("Established", e)' /\ ~ Queued("Lost", e)'
    BY <2>1 DEF Queued
  <2>3. LossIsLast(e)'
    BY <2>2 DEF LossIsLast, Queued
  <2>4. EndsWithLoss(e)'
    BY <2>2, <2>3 DEF EndsWithLoss
  <2>5. IsReported(e)'
    BY <2>1, <2>2 DEF IsReported, Reported, Owned, Connection, Closing
  <2> QED BY <1>2, <2>4, <2>5 DEF Settled
<1> QED BY <1>3, <1>4

\* An entity that loses its connection has nothing more to report.
LEMMA RemovalSettles ==
    ASSUME RInv, NEW e \in Entity, UNCHANGED commands,
           inserts'[e] = inserts[e],
           \/ /\ status'[e] = status[e]
              /\ e \in closedReason' <=> e \in closedReason
           \/ status'[e] = None /\ e \notin closedReason',
           \A h \in Handle : connections'[h].entity # e,
           Waits(e)'
    PROVE  Settled(e)'
<1>1. Settled(e) /\ QueueKeeps(e)
  BY StillQueue DEF RInv, Reports
<1>2. Owned(e)' = {}
  BY DEF Owned
<1>3. \A kind \in Kind : Queued(kind, e)' <=> Queued(kind, e)
  BY <1>1 DEF QueueKeeps
<1>4. Untouched(e)'
  BY <1>1, <1>2, <1>3 DEF Settled, Untouched, Kind
<1>5. EndsWithLoss(e)'
  BY <1>1, <1>2, <1>3 DEF Settled, EndsWithLoss, QueueKeeps, Kind
<1>6. IsReported(e)'
  BY <1>2 DEF IsReported
<1> QED BY <1>4, <1>5, <1>6 DEF Settled

\* Inserting ConnectionOf, in each of the handlers that do.
LEMMA InsertKeepsReports ==
    ASSUME RInv, NEW e \in Entity, AppMayAct, UNCHANGED <<update, closedReason>>,
           connectionOf' \subseteq connectionOf \cup {e}, life' = [life EXCEPT ![e] = "alive"],
           inserts' = [inserts EXCEPT ![e] = @ + 1],
           \A f \in Entity \ {e} :
               /\ status'[f] = status[f] /\ verdict'[f] = verdict[f]
               /\ f \in incoming' <=> f \in incoming,
           \A h \in Handle :
               \/ /\ connections'[h] = Connection(e)
                  /\ status[e] = None => status'[e] = "Connecting"
               \/ /\ connections'[h].entity # e
                  /\ connections'[h] \in {connections[h], NoConnection},
           Waits(e)'
    PROVE  Reports'
<1>1. UNCHANGED <<phase, todo, commands>>
  BY DEF update
<1>2. \A h \in Handle : connections'[h] \in {connections[h], NoConnection, Connection(e)}
  OBVIOUS
<1>3. QueueFollowsPhase' /\ EventsArePending'
  BY <1>1, <1>2, AppEvents
<1>4. /\ inserts'[e] = inserts[e] + 1 /\ life'[e] = "alive"
      /\ \A f \in Entity \ {e} : inserts'[f] = inserts[f] /\ life'[f] = life[f]
  BY DEF RInv, IInv, TypeOK
<1>5. \A f \in connectionOf' : life'[f] = "alive"
  BY <1>4 DEF RInv, Reports, IInv, TypeOK
<1>6. \A f \in Entity \ {e} : Settled(f)'
  BY <1>1, <1>2, <1>4, OthersUnmoved
<1>7. \A h \in Handle : connections'[h].entity = e =>
         connections'[h] = Connection(e) /\ (status[e] = None => status'[e] = "Connecting")
  OBVIOUS
<1>8. Settled(e)'
  BY <1>1, <1>4, <1>7, InsertSettles
<1> QED BY <1>3, <1>5, <1>6, <1>8 DEF Reports

\* An entity with an incoming connection is alive, one whose attempt is still
\* queued is only reserved.
LEMMA ArrivalOfAlive ==
    ASSUME RInv, NEW e \in Entity
    PROVE  /\ e \in incoming => life[e] = "alive"
           /\ life[e] # "reserved" => ~ Queued("Incoming", e)
           /\ OneArrival(e)
           /\ verdict[e] = "pending" <=> e \in incoming \/ Queued("Incoming", e)
  BY DEF RInv, Reports, Settled, Waits

LEMMA AcceptKeepsReports ==
    ASSUME RInv, NEW e \in Entity, AcceptConnection(e) \/ AcceptFails(e)
    PROVE  Reports'
<1>1. /\ AppMayAct /\ e \in incoming /\ UNCHANGED <<update, life, closedReason>>
      /\ connectionOf' = connectionOf \cup {e}
      /\ inserts' = [inserts EXCEPT ![e] = @ + 1]
      /\ status' = StatusWithRequired(e) /\ incoming' = incoming \ {e}
      /\ verdict' \in {[verdict EXCEPT ![e] = "accepted"], [verdict EXCEPT ![e] = "failed"]}
  BY DEF AcceptConnection, AcceptFails, InsertConnectionOf
<1>2. life[e] = "alive" /\ ~ Queued("Incoming", e) /\ OneArrival(e)
  BY <1>1, ArrivalOfAlive
<1>3. life' = [life EXCEPT ![e] = "alive"]
  BY <1>1, <1>2 DEF RInv, IInv, TypeOK
<1>4. Waits(e)'
  <2>1. ~ Queued("Incoming", e)' /\ OneArrival(e)'
    BY <1>1, <1>2 DEF update, Queued, OneArrival
  <2>2. verdict'[e] # "pending" /\ e \notin incoming'
    BY <1>1 DEF RInv, IInv, TypeOK
  <2> QED BY <2>1, <2>2 DEF Waits
<1>5. \A f \in Entity \ {e} :
         /\ status'[f] = status[f] /\ verdict'[f] = verdict[f]
         /\ f \in incoming' <=> f \in incoming
  BY <1>1 DEF StatusWithRequired, RInv, IInv, TypeOK
<1>6. status[e] = None => status'[e] = "Connecting"
  BY <1>1 DEF StatusWithRequired, RInv, IInv, TypeOK
<1>7. \A h \in Handle :
         \/ connections'[h] = Connection(e)
         \/ /\ connections'[h].entity # e
            /\ connections'[h] \in {connections[h], NoConnection}
  BY StoreView, DropView DEF RInv, AcceptConnection, AcceptFails
<1> QED BY <1>1, <1>3, <1>4, <1>5, <1>6, <1>7, InsertKeepsReports

LEMMA OpenKeepsReports ==
    ASSUME RInv, NEW e \in Entity,
           OpenConnection(e) \/ OpenFails(e) \/ OpenUnconfigured(e)
    PROVE  Reports'
<1>1. /\ AppMayAct /\ e \notin incoming
      /\ UNCHANGED <<update, closedReason, incoming, verdict>>
      /\ life[e] \in {"unspawned", "alive"}
      /\ life' = [life EXCEPT ![e] = "alive"]
      /\ connectionOf' \subseteq connectionOf \cup {e}
      /\ inserts' = [inserts EXCEPT ![e] = @ + 1]
      /\ status' \in {StatusWithRequired(e), [status EXCEPT ![e] = "Failed"]}
  BY DEF OpenConnection, OpenFails, OpenUnconfigured, InsertToOpen, InsertConnectionOf
<1>2. ~ Queued("Incoming", e) /\ OneArrival(e) /\ verdict[e] # "pending"
  BY <1>1, ArrivalOfAlive
<1>3. Waits(e)'
  <2>1. ~ Queued("Incoming", e)' /\ OneArrival(e)'
    BY <1>1, <1>2 DEF update, Queued, OneArrival
  <2> QED BY <1>1, <1>2, <2>1 DEF Waits
<1>4. \A f \in Entity \ {e} :
         /\ status'[f] = status[f] /\ verdict'[f] = verdict[f]
         /\ f \in incoming' <=> f \in incoming
  BY <1>1 DEF StatusWithRequired, RInv, IInv, TypeOK
<1>5. CASE OpenConnection(e)
  <2>1. status[e] = None => status'[e] = "Connecting"
    BY <1>5 DEF OpenConnection, StatusWithRequired, RInv, IInv, TypeOK
  <2>2. \A h \in Handle :
           \/ connections'[h] = Connection(e)
           \/ /\ connections'[h].entity # e
              /\ connections'[h] \in {connections[h], NoConnection}
    BY <1>5, StoreView DEF RInv, OpenConnection
  <2> QED BY <1>1, <1>3, <1>4, <2>1, <2>2, InsertKeepsReports
<1>6. CASE OpenFails(e) \/ OpenUnconfigured(e)
  <2>1. \A h \in Handle :
           /\ connections'[h].entity # e
           /\ connections'[h] \in {connections[h], NoConnection}
    BY <1>6, DropView DEF RInv, OpenFails, OpenUnconfigured
  <2> QED BY <1>1, <1>3, <1>4, <2>1, InsertKeepsReports
<1> QED BY <1>5, <1>6

LEMMA RemoveKeepsReports ==
    ASSUME RInv, NEW e \in Entity,
           RemoveConnectionOf(e) \/ RefuseConnection(e) \/ Despawn(e)
    PROVE  Reports'
<1>1. /\ AppMayAct /\ UNCHANGED <<update, inserts>>
      /\ connectionOf' \subseteq connectionOf
      /\ connectionOf' = connectionOf \/ connectionOf' = connectionOf \ {e}
      /\ \A f \in Entity \ {e} :
            /\ life'[f] = life[f] /\ status'[f] = status[f] /\ verdict'[f] = verdict[f]
            /\ f \in incoming' <=> f \in incoming
            /\ f \in closedReason' <=> f \in closedReason
  BY DEF RInv, IInv, TypeOK, RemoveConnectionOf, RefuseConnection, Despawn, Refuse
<1>2. UNCHANGED <<phase, todo, commands>>
  BY <1>1 DEF update
<1>3. \A h \in Handle : connections'[h] \in {connections[h], NoConnection}
  BY DropView DEF RInv, RemoveConnectionOf, RefuseConnection, Despawn
<1>4. QueueFollowsPhase' /\ EventsArePending'
  BY <1>1, <1>2, <1>3, AppEvents
<1>5. \A f \in Entity \ {e} : Settled(f)'
  BY <1>1, <1>2, <1>3, OthersUnmoved
<1>6. /\ e \in incoming => life[e] = "alive"
      /\ life[e] # "reserved" => ~ Queued("Incoming", e)
      /\ OneArrival(e)
      /\ verdict[e] = "pending" <=> e \in incoming \/ Queued("Incoming", e)
  BY ArrivalOfAlive
<1>7. OneArrival(e)' /\ (Queued("Incoming", e)' <=> Queued("Incoming", e))
  BY <1>2, <1>6 DEF Queued, OneArrival
<1>8. Settled(e) /\ (e \in connectionOf => life[e] = "alive")
  BY DEF RInv, Reports
<1>9. CASE RemoveConnectionOf(e)
  <2>1. UNCHANGED <<life, status, closedReason, incoming, inserts, verdict>>
    BY <1>9 DEF RemoveConnectionOf
  <2>2. Waits(e)'
    BY <1>7, <1>8, <2>1 DEF Settled, Waits
  <2>3. \A h \in Handle : connections'[h].entity # e
    BY <1>9, DropView DEF RInv, RemoveConnectionOf
  <2>4. Settled(e)'
    BY <1>2, <2>1, <2>2, <2>3, RemovalSettles
  <2>5. \A f \in connectionOf' : life'[f] = "alive"
    BY <1>1, <2>1 DEF RInv, Reports
  <2> QED BY <1>4, <1>5, <2>4, <2>5 DEF Reports
<1>10. CASE RefuseConnection(e)
  <2>1. /\ UNCHANGED <<life, status, closedReason, connections, inserts, connectionOf>>
        /\ e \in incoming /\ incoming' = incoming \ {e} /\ verdict'[e] = "refused"
    BY <1>10 DEF RefuseConnection, Refuse
  <2>2. Waits(e)'
    BY <1>6, <1>7, <2>1 DEF Waits
  <2>3. Untouched(e)' /\ EndsWithLoss(e)' /\ IsReported(e)'
    BY <1>2, <1>8, <2>1
    DEF Settled, Untouched, EndsWithLoss, IsReported, Reported, LossIsLast, Owned, Queued
  <2>4. \A f \in connectionOf' : life'[f] = "alive"
    BY <2>1 DEF RInv, Reports
  <2> QED BY <1>4, <1>5, <2>2, <2>3, <2>4 DEF Reports, Settled
<1>11. CASE Despawn(e)
  <2>1. /\ life[e] = "alive" /\ life'[e] = "despawned" /\ inserts' = inserts
        /\ status'[e] = None /\ e \notin closedReason' /\ e \notin connectionOf'
        /\ e \notin incoming'
        /\ verdict'[e] = IF e \in incoming THEN "refused" ELSE verdict[e]
    BY <1>11 DEF Despawn, Refuse, RInv, IInv, TypeOK
  <2>2. Waits(e)'
    BY <1>6, <1>7, <2>1 DEF Waits
  <2>3. \A h \in Handle : connections'[h].entity # e
    BY <1>11, DropView DEF RInv, Despawn
  <2>4. Settled(e)'
    BY <1>2, <2>1, <2>2, <2>3, RemovalSettles
  <2>5. \A f \in connectionOf' : life'[f] = "alive"
    BY <1>1, <2>1 DEF RInv, Reports, IInv, TypeOK
  <2> QED BY <1>4, <1>5, <2>4, <2>5 DEF Reports
<1> QED BY <1>9, <1>10, <1>11

\* close() moves the flag of some connection, which is no news of it yet.
LEMMA CloseKeepsReports ==
    ASSUME RInv, NEW e \in Entity, Close(e)
    PROVE  Reports'
<1>1. UNCHANGED <<life, connectionOf, status, closedReason, incoming,
                  phase, todo, commands, inserts, verdict>>
  BY DEF Close, world, update
<1>2. \A h \in Handle : SameNews(connections[h], connections'[h])
  <2>1. /\ connections' = [connections EXCEPT ![GetConnection(e)].close = "Sent"]
        /\ connections[GetConnection(e)].close = "None"
    BY DEF Close
  <2>2. connections \in [Handle -> QuicConnectionState]
    BY DEF RInv, IInv, TypeOK
  <2>3. ASSUME NEW h \in Handle PROVE SameNews(connections[h], connections'[h])
    <3>1. connections[h] \in QuicConnectionState
      BY <2>2
    <3>2. CASE h = GetConnection(e)
      BY <2>1, <2>2, <3>1, <3>2 DEF SameNews, QuicConnectionState
    <3>3. CASE h # GetConnection(e)
      BY <2>1, <2>2, <3>3 DEF SameNews
    <3> QED BY <3>2, <3>3
  <2> QED BY <2>3
<1>3. QueueFollowsPhase' /\ EventsArePending'
  BY <1>1, <1>2 DEF RInv, Reports, QueueFollowsPhase, EventsArePending, SameNews
<1>4. \A f \in Entity : Settled(f)'
  BY <1>1, <1>2, StillQueue, UnmovedStaysSettled DEF Unmoved, RInv, Reports
<1> QED BY <1>1, <1>3, <1>4 DEF RInv, Reports

LEMMA AppReports ==
    ASSUME RInv, NEW e \in Entity, App(e)
    PROVE  Reports'
  BY AcceptKeepsReports, OpenKeepsReports, RemoveKeepsReports, CloseKeepsReports DEF App

-----------------------------------------------------------------------------
(* The socket. *)

LEMMA IncomingKeepsReports ==
    ASSUME RInv, HandleIncomingConnection
    PROVE  Reports'
<1>1. PICK e \in Entity :
         /\ life[e] = "unspawned"
         /\ life' = [life EXCEPT ![e] = "reserved"]
         /\ verdict' = [verdict EXCEPT ![e] = "pending"]
         /\ commands' = commands \o Queue("Incoming", e)
  BY DEF HandleIncomingConnection
<1>2. /\ UNCHANGED <<connectionOf, status, closedReason, incoming, connections,
                     phase, todo, inserts>>
      /\ phase = "receive"
  BY DEF HandleIncomingConnection
<1>3. Appends(commands, TRUE, [kind |-> "Incoming", entity |-> e], commands')
  <2>1. "Incoming" \in Kind /\ commands \in Seq(Command) /\ TRUE \in BOOLEAN
    BY DEF Kind, RInv, IInv, TypeOK
  <2>2. When(TRUE, Queue("Incoming", e)) = Queue("Incoming", e)
    BY DEF When
  <2>3. Appends(commands, TRUE, [kind |-> "Incoming", entity |-> e],
                commands \o When(TRUE, Queue("Incoming", e)))
    BY <2>1, QueueAppends, Zenon
  <2> QED BY <1>1, <2>2, <2>3, Zenon
<1>4. /\ \A i \in DOMAIN commands : i \in DOMAIN commands' /\ commands'[i] = commands[i]
      /\ \A i \in DOMAIN commands' \ DOMAIN commands :
            i = Len(commands) + 1 /\ commands'[i] = [kind |-> "Incoming", entity |-> e]
      /\ Len(commands) + 1 \in DOMAIN commands'
      /\ commands'[Len(commands) + 1] = [kind |-> "Incoming", entity |-> e]
  BY <1>3 DEF Appends
<1>5. QueueFollowsPhase' /\ EventsArePending'
  BY <1>2, <1>4 DEF RInv, Reports, QueueFollowsPhase, EventsArePending
<1>6. \A f \in connectionOf' : life'[f] = "alive"
  BY <1>1, <1>2 DEF RInv, Reports, IInv, TypeOK
<1>7. ASSUME NEW f \in Entity \ {e} PROVE Settled(f)'
  <2>1. Unmoved(f)
    BY <1>1, <1>2 DEF Unmoved, SameNews, RInv, IInv, TypeOK
  <2>2. QueueKeeps(f)
    BY <1>4, OthersQueueGrows
  <2> QED BY <2>1, <2>2, UnmovedStaysSettled DEF RInv, Reports
<1>8. Settled(e)'
  <2>1. Settled(e) /\ e \notin incoming /\ ~ Queued("Incoming", e)
    BY <1>1, ArrivalOfAlive DEF RInv, Reports
  <2>2. \A kind \in {"Closed", "Established", "Lost"} : Queued(kind, e)' <=> Queued(kind, e)
    BY <1>4 DEF Queued
  <2>3. Waits(e)'
    <3>1. Queued("Incoming", e)'
      BY <1>4 DEF Queued
    <3>2. OneArrival(e)'
      BY <1>4, <2>1 DEF OneArrival, Queued
    <3>3. life'[e] = "reserved" /\ verdict'[e] = "pending" /\ e \notin incoming'
      BY <1>1, <1>2, <2>1 DEF RInv, IInv, TypeOK
    <3> QED BY <3>1, <3>2, <3>3 DEF Waits
  <2>4. Untouched(e)'
    BY <1>2, <2>1, <2>2 DEF Settled, Untouched, Owned
  <2>5. LossIsLast(e) => LossIsLast(e)'
    BY <1>4 DEF LossIsLast
  <2>6. EndsWithLoss(e)'
    BY <1>2, <2>1, <2>2, <2>5 DEF Settled, EndsWithLoss, Owned
  <2>7. IsReported(e)'
    BY <1>2, <2>1, <2>2 DEF Settled, IsReported, Reported, Owned
  <2> QED BY <2>3, <2>4, <2>6, <2>7 DEF Settled
<1> QED BY <1>5, <1>6, <1>7, <1>8 DEF Reports

\* A packet moves a connection on, and leaves the news of it with quinn.
LEMMA PacketKeepsReports ==
    ASSUME RInv, NEW h \in Handle, HandleConnectionEvent(h)
    PROVE  Reports'
<1> DEFINE c == connections[h]
<1>1. h \in Present /\ c.entity # None
  BY DEF HandleConnectionEvent, RInv, IInv, Tables, SlabAgreement, Present
<1>2. PICK d \in AfterPacket(c) : connections' = [connections EXCEPT ![h] = d]
  BY <1>1 DEF HandleConnectionEvent
<1>3. /\ phase = "receive"
      /\ UNCHANGED <<life, connectionOf, status, closedReason, incoming,
                     phase, todo, commands, inserts, verdict>>
  BY DEF HandleConnectionEvent, world, update
<1>4. c \in QuicConnectionState
  BY DEF RInv, IInv, TypeOK
<1>5. \/ d = c
      \/ c.state = "Handshake" /\ d = HandshakeDone(c)
      \/ c.state \in {"Handshake", "Open"} /\ d = ClosedByPeer(c)
      \/ c.state # "Drained" /\ d = Reset(c)
  <2>1. c.state \in ConnectionStates
    BY <1>4 DEF QuicConnectionState
  <2> QED BY <1>2, <2>1 DEF AfterPacket, ConnectionStates
<1>6. \/ d = c
      \/ /\ d.entity = c.entity /\ d.close = c.close
         /\ \/ /\ c.state = "Handshake" /\ d.state = "Open"
               /\ d.connected /\ d.lost = c.lost
            \/ /\ c.state # "Drained" /\ d.state \in Closing
               /\ d.connected = c.connected /\ d.lost
  BY <1>4, <1>5 DEF HandshakeDone, ClosedByPeer, Reset, QuicConnectionState, Closing
<1>7. connections'[h] = d /\ \A g \in Handle \ {h} : connections'[g] = connections[g]
  BY <1>2 DEF RInv, IInv, TypeOK
<1>8. QueueFollowsPhase'
  BY <1>3 DEF RInv, Reports, QueueFollowsPhase
<1>9. EventsArePending'
  <2>1. c.lost => c.state \in Closing
    BY DEF RInv, Reports, EventsArePending
  <2>2. d.lost => d.state \in Closing
    BY <1>6, <2>1 DEF Closing
  <2> QED BY <1>3, <1>7, <2>2 DEF RInv, Reports, EventsArePending
<1>10. \A f \in connectionOf' : life'[f] = "alive"
  BY <1>3 DEF RInv, Reports
<1>11. ASSUME NEW f \in Entity, f # c.entity \/ d = c PROVE Settled(f)'
  <2>1. Unmoved(f)
    BY <1>3, <1>6, <1>7, <1>11 DEF Unmoved, SameNews
  <2> QED BY <1>3, <2>1, StillQueue, UnmovedStaysSettled DEF RInv, Reports
<1>12. ASSUME NEW e \in Entity, e = c.entity, d # c PROVE Settled(e)'
  <2>1. Settled(e)
    BY DEF RInv, Reports
  <2>2. \A kind \in {"Closed", "Established", "Lost"} : ~ Queued(kind, e)
    BY <1>3 DEF RInv, Reports, QueueFollowsPhase, Queued
  <2>3. \A kind \in Kind : Queued(kind, e)' <=> Queued(kind, e)
    BY <1>3 DEF Queued
  <2>4. Waits(e)'
    BY <1>3, <2>1, <2>3 DEF Settled, Waits, OneArrival, Kind
  <2>5. h \in Owned(e)
    BY <1>12 DEF Owned
  <2>6. \A g \in Owned(e)' : g = h \/ (g \in Owned(e) /\ connections'[g] = connections[g])
    BY <1>7 DEF Owned
  <2>7. Untouched(e)'
    BY <1>3, <2>1, <2>5 DEF Settled, Untouched
  <2>8. EndsWithLoss(e)'
    <3>1. LossIsLast(e) => LossIsLast(e)'
      BY <1>3 DEF LossIsLast
    <3>2. inserts[e] = 1 /\ e \in closedReason => d.state \in Closing /\ ~ d.connected
      BY <1>6, <1>12, <2>1, <2>5 DEF Settled, EndsWithLoss, Closing
    <3> QED BY <1>3, <1>7, <2>1, <2>2, <2>3, <2>6, <3>1, <3>2 DEF Settled, EndsWithLoss, Kind
  <2>9. IsReported(e)'
    <3>1. inserts[e] = 1 /\ c.close # "Received" => Reported(e, c)
      BY <2>1, <2>5 DEF Settled, IsReported
    <3>2. inserts[e] = 1 /\ d.close # "Received" => Reported(e, d)
      BY <1>6, <1>12, <2>2, <3>1 DEF Reported, Closing
    <3>3. inserts'[e] = 1 /\ d.close # "Received" => Reported(e, connections[h])'
      BY <1>3, <1>7, <2>3, <3>2 DEF Reported, Kind
    <3> QED BY <1>3, <1>7, <2>1, <2>3, <2>6, <3>3 DEF Settled, IsReported, Reported, Kind
  <2> QED BY <2>4, <2>7, <2>8, <2>9 DEF Settled
<1> QED BY <1>8, <1>9, <1>10, <1>11, <1>12 DEF Reports

-----------------------------------------------------------------------------
(* The visits of update_connections. *)

\* A step that changes neither the world, the connections nor the queue.
LEMMA StillReports ==
    ASSUME RInv,
           UNCHANGED <<life, connectionOf, status, closedReason, incoming,
                       connections, commands, inserts, verdict>>,
           \/ UNCHANGED <<phase, todo>>
           \/ phase = "app" /\ phase' = "receive"
           \/ phase = "receive" /\ phase' = "update" /\ todo' = Present
           \/ phase = "update" /\ phase' = "apply" /\ todo = {}
           \/ phase = "apply" /\ phase' = "app" /\ commands = <<>>
    PROVE  Reports'
<1>1. QueueFollowsPhase'
  BY DEF RInv, Reports, QueueFollowsPhase
<1>2. \A h \in Handle : connections[h].connected \/ connections[h].lost => h \in Present
  BY DEF RInv, IInv, Tables, VacantIsClean, NoConnection, Present
<1>3. EventsArePending'
  BY <1>2 DEF RInv, Reports, EventsArePending
<1>4. \A f \in Entity : Settled(f)'
  BY StillQueue, UnmovedStaysSettled DEF Unmoved, SameNews, RInv, Reports
<1> QED BY <1>1, <1>3, <1>4 DEF RInv, Reports

LEMMA VacantVisit ==
    ASSUME RInv, NEW h \in Handle, NEW expires \in BOOLEAN,
           UpdateConnection(h, expires), connections[h].entity = None
    PROVE  UNCHANGED <<connections, commands>>
<1>1. connections[h] = NoConnection
  BY DEF RInv, IInv, Tables, VacantIsClean
<1>2. Timed(NoConnection, expires) = NoConnection
  BY <1>1 DEF NoConnection, Timed, TakeCloseFlag, UpdateConnection
<1>3. PollAll(NoConnection) = NoConnection
  BY NewConnectionTypes DEF NoConnection, PollAll, QuicConnectionState
<1>4. connections' = [connections EXCEPT ![h] = NoConnection]
  BY <1>1, <1>2, <1>3 DEF UpdateConnection, Timed
<1>5. connections' = connections
  BY <1>1, <1>4 DEF RInv, IInv, TypeOK
<1>6. commands' = commands \o <<>> \o (<<>> \o <<>>)
  <2>1. ~ NoConnection.connected /\ ~ NoConnection.lost /\ NoConnection.close # "Sent"
    BY DEF NoConnection
  <2>2. Events(NoConnection) = <<>> \o <<>>
    BY <2>1 DEF Events, When
  <2>3. commands' = commands \o When(NoConnection.close = "Sent", Queue("Closed", None))
                    \o Events(NoConnection)
    BY <1>1, <1>2 DEF UpdateConnection, Timed, NoConnection
  <2> QED BY <2>1, <2>2, <2>3 DEF When
<1>7. commands' = commands
  BY <1>6 DEF RInv, IInv, TypeOK
<1> QED BY <1>5, <1>7

LEMMA VisitKeepsReports ==
    ASSUME RInv, NEW h \in Handle, NEW expires \in BOOLEAN,
           NEW c, c = connections[h], NEW e \in Entity, e = c.entity,
           NEW timed, timed = Timed(c, expires),
           UpdateConnection(h, expires)
    PROVE  Reports'
<1> DEFINE after == PollAll(timed)
<1>1. c \in QuicConnectionState /\ timed \in QuicConnectionState
      /\ TakeCloseFlag(c) \in QuicConnectionState
  BY ConnectionTypes DEF RInv, IInv, TypeOK, Timed
<1>2. c.entity # None
  BY NoneAssumption
<1>3. /\ phase = "update" /\ todo' = todo \ {h}
      /\ UNCHANGED <<life, connectionOf, status, closedReason, incoming,
                     phase, inserts, verdict>>
  BY DEF UpdateConnection, world
<1>4. /\ connections'[h] = after
      /\ \A g \in Handle \ {h} : connections'[g] = connections[g]
  BY DEF UpdateConnection, Timed, RInv, IInv, TypeOK
<1>5. /\ timed.connected = c.connected
      /\ c.lost => timed.lost
      /\ c.state \in Closing => timed.state \in Closing
  BY <1>1 DEF Timed, TakeCloseFlag, Expire, QuicConnectionState, Closing
<1>6. timed.close # "Received" =>
         /\ c.close # "Received" /\ c.close # "Sent"
         /\ \/ timed.state = c.state /\ timed.lost = c.lost
            \/ timed.state = "Drained" /\ (timed.lost \/ c.state \in Closing)
  BY <1>1 DEF Timed, TakeCloseFlag, Expire, QuicConnectionState, Closing
<1>7. /\ after.entity = e /\ after.state = timed.state /\ after.close = timed.close
      /\ ~ after.connected /\ ~ after.lost
  BY <1>1 DEF PollAll, Timed, TakeCloseFlag, Expire, QuicConnectionState
<1>8. c.lost => c.state \in Closing
  BY DEF RInv, Reports, EventsArePending
<1>9. timed.lost => timed.state \in Closing
  BY <1>1, <1>8 DEF Timed, TakeCloseFlag, Expire, QuicConnectionState, Closing
<1> HIDE DEF after
<1>10. /\ \A i \in DOMAIN commands : i \in DOMAIN commands' /\ commands'[i] = commands[i]
       /\ \A i \in DOMAIN commands' \ DOMAIN commands :
             /\ commands'[i].entity = e
             /\ \/ commands'[i].kind = "Closed" /\ c.close = "Sent"
                \/ commands'[i].kind = "Established" /\ timed.connected
                \/ commands'[i].kind = "Lost" /\ timed.lost
             /\ \A j \in DOMAIN commands : j < i
             /\ \A j \in DOMAIN commands' \ DOMAIN commands :
                   commands'[i].kind = "Lost" /\ commands'[j].kind = "Established" => j < i
       /\ timed.connected => Queued("Established", e)'
       /\ timed.lost => Queued("Lost", e)'
  <2>1. IInv
    BY DEF RInv
  <2> QED BY <2>1, <1>2, VisitQueues
<1>11. QueueFollowsPhase'
  BY <1>3 DEF QueueFollowsPhase
<1>12. EventsArePending'
  BY <1>3, <1>4, <1>7 DEF RInv, Reports, EventsArePending
<1>13. \A f \in connectionOf' : life'[f] = "alive"
  BY <1>3 DEF RInv, Reports
<1>14. ASSUME NEW f \in Entity \ {e} PROVE Settled(f)'
  <2>1. Unmoved(f)
    BY <1>3, <1>4, <1>7 DEF Unmoved, SameNews
  <2>2. QueueKeeps(f)
    BY <1>2, <1>10, OthersQueueGrows
  <2> QED BY <2>1, <2>2, UnmovedStaysSettled DEF RInv, Reports
<1>15. Settled(e)'
  <2>1. Settled(e)
    BY <1>2 DEF RInv, Reports
  <2>2. Owned(e) = {h} /\ Owned(e)' = {h}
    <3>1. \A g \in Owned(e) : g = h
      BY <1>2 DEF Owned, GetConnection, Present, RInv, IInv, Tables, OwnerReachesConnection
    <3> QED BY <1>4, <1>7, <3>1 DEF Owned
  <2>3. \A kind \in Kind : Queued(kind, e) => Queued(kind, e)'
    BY <1>10 DEF Queued
  <2>4. /\ Queued("Incoming", e)' => Queued("Incoming", e)
        /\ Queued("Closed", e)' => Queued("Closed", e) \/ c.close = "Sent"
        /\ Queued("Established", e)' => Queued("Established", e) \/ timed.connected
        /\ Queued("Lost", e)' => Queued("Lost", e) \/ timed.lost
    BY <1>10 DEF Queued
  <2>5. OneArrival(e) => OneArrival(e)'
    BY <1>10 DEF OneArrival
  <2>6. Waits(e)'
    BY <1>3, <2>1, <2>3, <2>4, <2>5 DEF Settled, Waits, Kind
  <2>7. Untouched(e)'
    BY <1>3, <2>1, <2>2 DEF Settled, Untouched
  <2>8. ASSUME inserts[e] = 1, e \in closedReason \/ Queued("Lost", e)
        PROVE  c.state \in Closing /\ ~ c.connected
    BY <2>1, <2>2, <2>8 DEF Settled, EndsWithLoss
  <2>9. EndsWithLoss(e)'
    <3> SUFFICES ASSUME inserts[e] = 1
                 PROVE  /\ e \in closedReason' => status'[e] = "Closed" /\ ~ Queued("Established", e)'
                        /\ LossIsLast(e)'
                        /\ e \in closedReason' \/ Queued("Lost", e)' =>
                              after.state \in Closing /\ ~ after.connected
      BY <1>3, <1>4, <2>2 DEF EndsWithLoss
    <3>1. e \in closedReason' => status'[e] = "Closed" /\ ~ Queued("Established", e)'
      BY <1>3, <1>5, <2>1, <2>4, <2>8 DEF Settled, EndsWithLoss
    <3>2. LossIsLast(e)'
      <4> SUFFICES ASSUME NEW i \in DOMAIN commands', NEW j \in DOMAIN commands',
                          commands'[i] = [kind |-> "Lost", entity |-> e],
                          commands'[j] = [kind |-> "Established", entity |-> e]
                   PROVE  j < i
        BY DEF LossIsLast
      <4>1. commands'[i].kind = "Lost" /\ commands'[j].kind = "Established"
        OBVIOUS
      <4>2. CASE i \in DOMAIN commands /\ j \in DOMAIN commands
        <5>1. LossIsLast(e)
          BY <2>1 DEF Settled, EndsWithLoss
        <5>2. commands[i] = commands'[i] /\ commands[j] = commands'[j]
          BY <1>10, <4>2
        <5> QED BY <4>2, <5>1, <5>2 DEF LossIsLast
      <4>3. CASE i \in DOMAIN commands /\ j \notin DOMAIN commands
        <5>1. timed.connected
          BY <1>10, <4>1, <4>3
        <5>2. Queued("Lost", e)
          BY <1>10, <4>3 DEF Queued
        <5> QED BY <1>5, <2>8, <5>1, <5>2
      <4>4. CASE i \notin DOMAIN commands
        BY <1>10, <4>1, <4>4
      <4> QED BY <4>2, <4>3, <4>4
    <3>3. e \in closedReason' \/ Queued("Lost", e)' => after.state \in Closing /\ ~ after.connected
      BY <1>3, <1>5, <1>7, <1>9, <2>4, <2>8
    <3> QED BY <3>1, <3>2, <3>3
  <2>10. IsReported(e)'
    <3> SUFFICES ASSUME inserts[e] = 1, timed.close # "Received"
                 PROVE  Reported(e, connections[h])'
      BY <1>3, <1>4, <1>7, <2>2 DEF IsReported
    <3>1. Reported(e, c)
      BY <1>6, <2>1, <2>2 DEF Settled, IsReported
    <3>2. timed.state \in {"Handshake", "Open"} =>
             timed.state = c.state /\ ~ Queued("Closed", e)' /\ ~ Queued("Lost", e)'
      BY <1>6, <1>9, <2>4, <3>1 DEF Reported, Closing
    <3>3. timed.state = "Handshake" => status'[e] = "Connecting" /\ ~ Queued("Established", e)'
      BY <1>3, <1>5, <2>4, <3>1, <3>2 DEF Reported
    <3>4. timed.state = "Open" => Queued("Established", e)' \/ status'[e] = "Established"
      BY <1>3, <1>5, <1>10, <2>3, <3>1, <3>2 DEF Reported, Kind
    <3>5. timed.state \in Closing => Queued("Lost", e)' \/ e \in closedReason'
      BY <1>3, <1>5, <1>6, <1>10, <2>3, <3>1 DEF Reported, Kind
    <3> QED BY <1>4, <1>7, <3>2, <3>3, <3>4, <3>5 DEF Reported
  <2> QED BY <2>6, <2>7, <2>9, <2>10 DEF Settled
<1> QED BY <1>11, <1>12, <1>13, <1>14, <1>15 DEF Reports

-----------------------------------------------------------------------------
(* The world applies a command. *)

LEMMA ApplyKeepsReports ==
    ASSUME RInv, ApplyCommand,
           NEW cmd, cmd = Head(commands), NEW e \in Entity, e = cmd.entity
    PROVE  Reports'
<1>1. /\ phase = "apply" /\ commands \in Seq(Command) /\ commands # <<>>
      /\ commands' = Tail(commands)
      /\ UNCHANGED <<connectionOf, connections, phase, todo, inserts, verdict>>
  BY DEF ApplyCommand, endpoint, RInv, IInv, TypeOK
<1>2. /\ 1 \in DOMAIN commands /\ commands[1] = cmd /\ cmd \in Command
      /\ \A i \in DOMAIN commands' :
            /\ i \in Nat \ {0} /\ i + 1 \in DOMAIN commands
            /\ commands'[i] = commands[i + 1]
      /\ \A i \in DOMAIN commands :
            \/ i = 1
            \/ i \in Nat /\ i - 1 \in DOMAIN commands' /\ commands'[i - 1] = commands[i]
  BY <1>1, QueueShrinks
<1>3. cmd.kind \in Kind /\ Queued(cmd.kind, e) /\ cmd = [kind |-> cmd.kind, entity |-> e]
  BY <1>2 DEF Command, Kind, Queued
<1>4. \A kind \in Kind :
         /\ Queued(kind, e)' => Queued(kind, e)
         /\ Queued(kind, e) /\ kind # cmd.kind => Queued(kind, e)'
  BY <1>2 DEF Queued
<1>5. /\ OneArrival(e) => OneArrival(e)'
      /\ LossIsLast(e) => LossIsLast(e)'
  <2>1. OneArrival(e) => OneArrival(e)'
    BY <1>2 DEF OneArrival
  <2>2. LossIsLast(e) => LossIsLast(e)'
    BY <1>2 DEF LossIsLast
  <2> QED BY <2>1, <2>2
<1>6. IF life[e] = "despawned"
      THEN UNCHANGED <<life, status, closedReason, incoming>>
      ELSE Apply(cmd)
  BY DEF ApplyCommand
<1>7. ASSUME NEW f \in Entity \ {e} PROVE Settled(f)'
  <2>1. Unmoved(f)
    BY <1>1, <1>3, <1>6 DEF Unmoved, SameNews, Apply, Kind, RInv, IInv, TypeOK
  <2>2. QueueKeeps(f)
    BY <1>1, OthersQueueShrinks
  <2> QED BY <2>1, <2>2, UnmovedStaysSettled DEF RInv, Reports
<1>8. QueueFollowsPhase' /\ EventsArePending'
  BY <1>1 DEF RInv, Reports, QueueFollowsPhase, EventsArePending
<1>9. Settled(e)
  BY DEF RInv, Reports
<1>10. \A h \in Owned(e) : life[e] = "alive"
  BY NoneAssumption
  DEF RInv, Reports, IInv, Tables, OwnerReachesConnection, Owned, Present
<1>11. CASE cmd.kind = "Incoming"
  <2>1. /\ life[e] = "reserved" /\ verdict[e] = "pending"
        /\ ~ Queued("Incoming", e)'
    <3>1. life[e] = "reserved" /\ verdict[e] = "pending" /\ OneArrival(e)
      BY <1>3, <1>9, <1>11 DEF Settled, Waits
    <3>2. \A i \in DOMAIN commands :
             commands[i].kind = "Incoming" /\ commands[i].entity = e => i = 1
      <4>1. ASSUME NEW i \in DOMAIN commands, commands[i].kind = "Incoming",
                   commands[i].entity = e
            PROVE  i = 1
        <5>1. commands[i] \in Command
          BY <1>1
        <5>2. commands[i] = commands[1] /\ commands[1] = [kind |-> "Incoming", entity |-> e]
          BY <1>2, <1>3, <1>11, <4>1, <5>1 DEF Command
        <5> QED BY <1>2, <3>1, <5>2 DEF OneArrival
      <4> QED BY <4>1
    <3>3. ~ Queued("Incoming", e)'
      BY <1>2, <3>2 DEF Queued
    <3> QED BY <3>1, <3>3
  <2>2. /\ life' = [life EXCEPT ![e] = "alive"] /\ incoming' = incoming \cup {e}
        /\ UNCHANGED <<status, closedReason>>
    BY <1>6, <1>11, <2>1 DEF Apply
  <2>3. \A kind \in {"Closed", "Established", "Lost"} : Queued(kind, e)' <=> Queued(kind, e)
    BY <1>4, <1>11 DEF Kind
  <2>4. Waits(e)'
    BY <1>1, <1>5, <1>9, <2>1, <2>2 DEF Settled, Waits, RInv, IInv, TypeOK
  <2>5. Untouched(e)' /\ EndsWithLoss(e)' /\ IsReported(e)'
    BY <1>1, <1>5, <1>9, <2>2, <2>3
    DEF Settled, Untouched, EndsWithLoss, IsReported, Reported, Owned
  <2>6. \A f \in connectionOf' : life'[f] = "alive"
    BY <1>1, <2>2 DEF RInv, Reports, IInv, TypeOK
  <2> QED BY <1>7, <1>8, <2>4, <2>5, <2>6 DEF Reports, Settled
<1>12. CASE cmd.kind # "Incoming"
  <2>1. cmd.kind \in {"Closed", "Established", "Lost"} /\ inserts[e] # 0
    BY <1>3, <1>9, <1>12 DEF Kind, Settled, Untouched
  <2>2. /\ UNCHANGED <<life, incoming>>
        /\ \/ /\ life[e] = "despawned"
              /\ status'[e] = status[e] /\ (e \in closedReason' <=> e \in closedReason)
           \/ /\ life[e] # "despawned" /\ cmd.kind = "Closed"
              /\ status'[e] = "Closed" /\ (e \in closedReason' <=> e \in closedReason)
           \/ /\ life[e] # "despawned" /\ cmd.kind = "Established"
              /\ status'[e] = "Established" /\ (e \in closedReason' <=> e \in closedReason)
           \/ /\ life[e] # "despawned" /\ cmd.kind = "Lost"
              /\ status'[e] = "Closed" /\ e \in closedReason'
    BY <1>6, <2>1 DEF Apply, RInv, IInv, TypeOK
  <2>3. Waits(e)'
    BY <1>1, <1>4, <1>5, <1>9, <2>1, <2>2 DEF Settled, Waits, Kind
  <2>4. Untouched(e)'
    BY <1>1, <2>1 DEF Untouched
  <2>5. EndsWithLoss(e)'
    <3> SUFFICES ASSUME inserts[e] = 1 PROVE EndsWithLoss(e)'
      BY <1>1 DEF EndsWithLoss
    <3>1. /\ e \in closedReason => status[e] = "Closed" /\ ~ Queued("Established", e)
          /\ LossIsLast(e)
          /\ e \in closedReason \/ Queued("Lost", e) =>
                \A h \in Owned(e) : connections[h].state \in Closing /\ ~ connections[h].connected
      BY <1>9 DEF Settled, EndsWithLoss
    <3>2. cmd.kind = "Lost" => ~ Queued("Established", e)'
      <4> SUFFICES ASSUME cmd.kind = "Lost", NEW i \in DOMAIN commands',
                          commands'[i].kind = "Established", commands'[i].entity = e
                   PROVE  FALSE
        BY DEF Queued
      <4>1. /\ i \in Nat \ {0} /\ i + 1 \in DOMAIN commands
            /\ commands[i + 1].kind = "Established" /\ commands[i + 1].entity = e
        BY <1>2
      <4>2. commands[i + 1] \in Command
        BY <1>1, <4>1
      <4>3. commands[i + 1] = [kind |-> "Established", entity |-> e]
        BY <4>1, <4>2 DEF Command
      <4>4. commands[1] = [kind |-> "Lost", entity |-> e]
        BY <1>2, <1>3
      <4>5. i + 1 < 1
        BY <1>2, <3>1, <4>1, <4>3, <4>4 DEF LossIsLast
      <4> QED BY <4>1, <4>5
    <3>3. e \in closedReason' => status'[e] = "Closed" /\ ~ Queued("Established", e)'
      BY <1>3, <1>4, <2>2, <3>1, <3>2 DEF Kind
    <3>4. e \in closedReason' \/ Queued("Lost", e)' => e \in closedReason \/ Queued("Lost", e)
      BY <1>3, <1>4, <2>2 DEF Kind
    <3>5. Owned(e)' = Owned(e)
      BY <1>1 DEF Owned
    <3> QED BY <1>1, <1>5, <3>1, <3>3, <3>4, <3>5 DEF EndsWithLoss
  <2>6. IsReported(e)'
    <3> SUFFICES ASSUME inserts[e] = 1, NEW h \in Owned(e), connections[h].close # "Received"
                 PROVE  Reported(e, connections[h])'
      BY <1>1 DEF IsReported, Owned
    <3>1. Reported(e, connections[h]) /\ life[e] # "despawned"
      BY <1>9, <1>10 DEF Settled, IsReported
    <3>2. \A kind \in {"Closed", "Established", "Lost"} : Queued(kind, e)' => Queued(kind, e)
      BY <1>4 DEF Kind
    <3>3. Queued("Lost", e) => Queued("Lost", e)' \/ e \in closedReason'
      BY <1>4, <2>2, <3>1 DEF Kind
    <3>4. Queued("Established", e) => Queued("Established", e)' \/ status'[e] = "Established"
      BY <1>4, <2>2, <3>1 DEF Kind
    <3>5. e \in closedReason => e \in closedReason'
      BY <2>2
    <3>6. connections[h].state \in {"Handshake", "Open"} => cmd.kind = "Established"
      BY <1>3, <2>1, <3>1 DEF Reported
    <3>7. connections[h].state = "Handshake" => cmd.kind # "Established"
      BY <1>3, <3>1 DEF Reported
    <3>8. connections[h].state = "Open" => status'[e] = "Established"
      BY <2>2, <3>1, <3>6
    <3> QED BY <1>1, <3>1, <3>2, <3>3, <3>5, <3>6, <3>7, <3>8 DEF Reported
  <2>7. \A f \in connectionOf' : life'[f] = "alive"
    BY <1>1, <2>2 DEF RInv, Reports
  <2> QED BY <1>7, <1>8, <2>3, <2>4, <2>5, <2>6, <2>7 DEF Reports, Settled
<1> QED BY <1>11, <1>12

-----------------------------------------------------------------------------
(* The theorems. *)

LEMMA ReportsInit == Init => Reports
<1> SUFFICES ASSUME Init PROVE Reports
  OBVIOUS
<1>1. QueueFollowsPhase /\ EventsArePending
  BY DEF Init, QueueFollowsPhase, EventsArePending, NoConnection
<1>2. \A kind, e : ~ Queued(kind, e)
  <2>1. DOMAIN commands = {}
    BY DEF Init
  <2> QED BY <2>1 DEF Queued
<1>3. \A e \in Entity : OneArrival(e)
  BY DEF Init, OneArrival
<1>4. ASSUME NEW e \in Entity PROVE Settled(e)
  <2>1. /\ verdict[e] # "pending" /\ inserts[e] = 0 /\ status[e] = None
        /\ e \notin incoming /\ e \notin closedReason
    BY DEF Init
  <2>2. Owned(e) = {}
    BY NoneAssumption DEF Init, Owned, NoConnection
  <2> QED
    BY <1>2, <1>3, <2>1, <2>2
    DEF Settled, Waits, Untouched, EndsWithLoss, IsReported
<1> QED BY <1>1, <1>4 DEF Init, Reports

LEMMA UpdateReports ==
    ASSUME RInv, Update
    PROVE  Reports'
<1>1. CASE BeginUpdate
  BY <1>1, StillReports DEF BeginUpdate, world, endpoint
<1>2. CASE FinishReceive
  BY <1>2, StillReports DEF FinishReceive, world
<1>3. ASSUME NEW h \in Handle, NEW expires \in BOOLEAN, UpdateConnection(h, expires)
      PROVE  Reports'
  <2>1. CASE connections[h].entity = None
    <3>1. UNCHANGED <<connections, commands>>
      BY <1>3, <2>1, VacantVisit
    <3>2. /\ phase = "update" /\ todo' = todo \ {h}
          /\ UNCHANGED <<life, connectionOf, status, closedReason, incoming, phase,
                         inserts, verdict>>
      BY <1>3 DEF UpdateConnection, world
    <3>3. ~ connections[h].connected /\ ~ connections[h].lost
      BY <2>1 DEF RInv, IInv, Tables, VacantIsClean, NoConnection
    <3>4. QueueFollowsPhase' /\ EventsArePending'
      BY <3>1, <3>2, <3>3 DEF RInv, Reports, QueueFollowsPhase, EventsArePending
    <3>5. \A f \in Entity : Settled(f)'
      BY <3>1, <3>2, StillQueue, UnmovedStaysSettled DEF Unmoved, SameNews, RInv, Reports
    <3> QED BY <3>2, <3>4, <3>5 DEF RInv, Reports
  <2>2. CASE connections[h].entity # None
    <3>1. connections[h].entity \in Entity
      BY <2>2 DEF RInv, IInv, TypeOK, QuicConnectionState
    <3> QED BY <1>3, <3>1, VisitKeepsReports
  <2> QED BY <2>1, <2>2
<1>4. CASE FinishUpdate
  BY <1>4, StillReports DEF FinishUpdate, world, endpoint
<1>5. CASE ApplyCommand
  <2>1. Head(commands) \in Command
    BY <1>5 DEF ApplyCommand, RInv, IInv, TypeOK
  <2>2. Head(commands).entity \in Entity
    BY <2>1 DEF Command
  <2> QED BY <1>5, <2>2, ApplyKeepsReports
<1>6. CASE FinishApply
  BY <1>6, StillReports DEF FinishApply, world, endpoint
<1> QED BY <1>1, <1>2, <1>3, <1>4, <1>5, <1>6 DEF Update

LEMMA StepKeepsRInv == RInv /\ [Next]_vars => RInv'
<1> SUFFICES ASSUME RInv, [Next]_vars PROVE Reports'
  BY StepKeepsIInv DEF RInv
<1>1. ASSUME NEW e \in Entity, App(e) PROVE Reports'
  BY <1>1, AppReports
<1>2. CASE Receive
  BY <1>2, IncomingKeepsReports, PacketKeepsReports DEF Receive
<1>3. CASE Update
  BY <1>3, UpdateReports
<1>4. CASE UNCHANGED vars
  BY <1>4, StillReports DEF vars, world, endpoint, update
<1> QED BY <1>1, <1>2, <1>3, <1>4 DEF Next

LEMMA ReportsInductive == Spec => []RInv
<1>1. Init => RInv
  BY ReportsInit, TypeInit, TablesInit DEF RInv, IInv
<1> QED BY <1>1, StepKeepsRInv, PTL DEF Spec

\* A peer's attempt to connect waits for its answer in exactly one place, from
\* the packet that handle_incoming_connection takes to the observer that accepts
\* or refuses it, whatever is despawned or inserted in between.
THEOREM IncomingKept == Spec => []IncomingIsKept
<1>1. RInv => IncomingIsKept
  BY DEF RInv, Reports, Settled, Waits, IncomingIsKept
<1> QED BY <1>1, ReportsInductive, PTL

\* Between updates the ConnectionStatus that update_connections has reported is
\* the state of the connection, and a connection that ended other than by the
\* application's close has its reason beside it.
THEOREM StatusReflects == Spec => []StatusReflectsState
<1>1. ASSUME RInv, phase = "app", NEW h \in Present,
             inserts[connections[h].entity] = 1, connections[h].close # "Received"
      PROVE  LET c == connections[h] IN
             CASE c.state = "Handshake" -> status[c.entity] = "Connecting"
               [] c.state = "Open"      -> status[c.entity] = "Established"
               [] OTHER -> status[c.entity] = "Closed" /\ c.entity \in closedReason
  <2> DEFINE c == connections[h]
  <2>1. h \in Handle /\ c \in QuicConnectionState /\ c.entity \in Entity
    BY <1>1 DEF RInv, IInv, TypeOK, Present, QuicConnectionState
  <2>2. h \in Owned(c.entity) /\ c.state \in ConnectionStates
    BY <2>1 DEF Owned, QuicConnectionState
  <2>3. ~ c.connected /\ ~ c.lost
    BY <1>1, <2>1 DEF RInv, Reports, EventsArePending
  <2>4. \A kind : ~ Queued(kind, c.entity)
    BY <1>1 DEF RInv, Reports, QueueFollowsPhase, Queued
  <2>5. Reported(c.entity, c) /\ EndsWithLoss(c.entity)
    BY <1>1, <2>1, <2>2 DEF RInv, Reports, Settled, IsReported
  <2> QED BY <1>1, <2>2, <2>3, <2>4, <2>5
          DEF Reported, EndsWithLoss, ConnectionStates, Closing
<1>2. RInv => StatusReflectsState
  BY <1>1 DEF StatusReflectsState
<1> QED BY <1>2, ReportsInductive, PTL

\* Only the despawning of its entity takes a reason away.
LEMMA ReasonStays ==
    ASSUME RInv, [Next]_vars, NEW e \in closedReason, e \notin closedReason'
    PROVE  life'[e] = "despawned"
<1>1. ASSUME NEW f \in Entity, App(f) PROVE life'[e] = "despawned"
  BY <1>1
  DEF App, AcceptConnection, AcceptFails, OpenConnection, OpenFails, OpenUnconfigured,
      InsertToOpen, RemoveConnectionOf, RefuseConnection, Despawn, Close, world,
      RInv, IInv, TypeOK
<1>2. ~ Receive
  BY DEF Receive, HandleIncomingConnection, HandleConnectionEvent, world
<1>3. ~ Update
  <2>1. ~ ApplyCommand
    <3>1. ASSUME ApplyCommand PROVE FALSE
      <4>1. Head(commands) \in Command
        BY <3>1 DEF ApplyCommand, RInv, IInv, TypeOK
      <4> QED BY <3>1, <4>1 DEF ApplyCommand, Apply, Command
    <3> QED BY <3>1
  <2> QED BY <2>1
      DEF Update, BeginUpdate, FinishReceive, UpdateConnection, FinishUpdate,
          FinishApply, world
<1> QED BY <1>1, <1>2, <1>3 DEF Next, vars, world

\* Once the loss of an entity's only connection is reported with its reason, no
\* command that was queued before or after it moves the status from Closed.
THEOREM LossFinal == Spec => LossIsFinal
<1>1. ASSUME RInv, RInv', [Next]_vars, NEW e \in closedReason, inserts'[e] = 1
      PROVE  status'[e] = "Closed" \/ life'[e] = "despawned"
  <2>1. e \in Entity
    BY <1>1 DEF RInv, IInv, TypeOK
  <2>2. CASE e \in closedReason'
    <3>1. EndsWithLoss(e)'
      BY <1>1, <2>1 DEF RInv, Reports, Settled
    <3> QED BY <1>1, <2>2, <3>1 DEF EndsWithLoss
  <2>3. CASE e \notin closedReason'
    BY <1>1, <2>3, ReasonStays
  <2> QED BY <2>2, <2>3
<1>2. RInv /\ RInv' /\ [Next]_vars =>
         [\A e \in closedReason :
             inserts'[e] = 1 => status'[e] = "Closed" \/ life'[e] = "despawned"]_vars
  BY <1>1
<1> QED BY <1>2, ReportsInductive, PTL DEF Spec, LossIsFinal

=============================================================================
