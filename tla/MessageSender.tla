---------------------------- MODULE MessageSender ----------------------------
(***************************************************************************)
(* A message sender of crates/nevy_messages (writer.rs): the map that      *)
(* LocalMessageSender and SharedMessageSender keep, of one message stream  *)
(* for each connection entity, and the loops over it.  The `?` in those    *)
(* loops returns at the first connection that fails, with the work on the  *)
(* entries before it done and the work after the loop not.                 *)
(*                                                                         *)
(* The map is only told of a change to the world when it looks.  Between   *)
(* two calls of the sender a connection may end with its ConnectionOf      *)
(* still there, or its entity be given another connection.  One that has   *)
(* ended is found as before, drained or not: an error comes of data that   *)
(* is queued for it, and of nothing else.                                  *)
(*                                                                         *)
(* get_connection is taken to return the entity's own connection or none;  *)
(* QuicEndpoint shows when it returns that of another entity.              *)
(*                                                                         *)
(* A message is two units, so that the transport can take half of one.     *)
(* MessageStream has the bytes.                                            *)
(*                                                                         *)
(* An operator marked "Faulty" is a plausible bug in the operator after it *)
(* and is used nowhere: substituted for it, it breaks the named property.  *)
(***************************************************************************)
EXTENDS Naturals, FiniteSets, Sequences, Functions

CONSTANTS
    Entity,         \* the connection entities
    Window,         \* the units that a connection takes ahead of its reader
    StreamLimit,    \* how many streams the peer allows to be open at a time
    MaxMessages,    \* bound: messages that enter a queue, of all entities
    MaxConnections  \* bound: connections, of all entities

ASSUME WindowAssumption == Window \in Nat \ {0}
ASSUME StreamLimitAssumption == StreamLimit \in Nat \ {0}
ASSUME BoundsAssumption == MaxMessages \in Nat /\ MaxConnections \in Nat

VARIABLES
    \* The world, as MessageSenderParams shows it, and quinn behind it.
    link,       \* entity -> what a query and get_connection find
    quinn,      \* entity -> the send streams of its connection; ids are positions
    room,       \* entity -> units its connection has room for
    \* MessageSenderState.
    streams,    \* entities with a stream -> its MessageStreamState
    order,      \* the order in which the map yields its entries
    \* History.
    connected,  \* entity -> number of its connection
    accepted,   \* entity -> number of messages that entered a queue
    failed      \* the close operations that have returned an error

world == <<link, quinn, room, connected>>
sender == <<streams, order, accepted, failed>>
vars == <<world, sender>>

-----------------------------------------------------------------------------
(* Values. *)

\* "none": no ConnectionOf.  "closed": the quinn connection has ended, and the
\* endpoint keeps it.  "absent": there is a ConnectionOf, and get_connection
\* fails, since no connection came to be for it or the endpoint's entry is gone.
Links == {"none", "open", "closed", "absent"}

StreamStates == {"open", "finished", "reset"}

Unit == Nat \X {1, 2}

UnitsOf(message) == <<<<message, 1>>, <<message, 2>>>>

\* A send stream of quinn: what it has taken, and as history who opened it and
\* the messages queued for it.
QuinnStream == [mine : BOOLEAN, state : StreamStates, sent : Seq(Unit), queued : Seq(Unit)]

NewStream(mine) == [mine |-> mine, state |-> "open", sent |-> <<>>, queued |-> <<>>]

\* The stream id, with the number of the connection it is of as history, and
\* the queue.
MessageStreamState == [id : Nat \ {0}, connection : Nat, buffer : Seq(Unit)]

Init ==
    /\ link = [c \in Entity |-> "none"]
    /\ quinn = [c \in Entity |-> <<>>]
    /\ room = [c \in Entity |-> Window]
    /\ streams = <<>>
    /\ order = <<>>
    /\ connected = [c \in Entity |-> 0]
    /\ accepted = [c \in Entity |-> 0]
    /\ failed = {}

Kept == DOMAIN streams

-----------------------------------------------------------------------------
(* The world. *)

\* ConnectionOf is inserted, perhaps over another one; connect or accept may fail.
Connect(c) ==
    /\ SumFunction(connected) < MaxConnections
    /\ connected' = [connected EXCEPT ![c] = @ + 1]
    /\ \E state \in {"open", "absent"} : link' = [link EXCEPT ![c] = state]
    /\ quinn' = [quinn EXCEPT ![c] = <<>>]
    /\ room' = [room EXCEPT ![c] = Window]
    /\ UNCHANGED sender

\* The connection ends, by whatever side.
End(c) ==
    /\ link[c] = "open"
    /\ link' = [link EXCEPT ![c] = "closed"]
    /\ UNCHANGED <<quinn, room, connected, sender>>

\* quinn has given the handle of the drained connection to another entity, whose
\* connection took its place in the endpoint and has been removed.
Displace(c) ==
    /\ link[c] = "closed"
    /\ link' = [link EXCEPT ![c] = "absent"]
    /\ UNCHANGED <<quinn, room, connected, sender>>

RemoveConnectionOf(c) ==
    /\ link[c] # "none"
    /\ link' = [link EXCEPT ![c] = "none"]
    /\ UNCHANGED <<quinn, room, connected, sender>>

PeerReads(c) ==
    /\ link[c] = "open" /\ room[c] < Window
    /\ room' = [room EXCEPT ![c] = Window]
    /\ UNCHANGED <<link, quinn, connected, sender>>

OpenStreams(c) == {i \in DOMAIN quinn[c] : quinn[c][i].state = "open"}

\* Faulty (TypeOK): streams are opened beyond the limit.
MayOpenMore(c) == link[c] = "open"

\* The connection has a stream to give.
MayOpen(c) == link[c] = "open" /\ Cardinality(OpenStreams(c)) < StreamLimit

\* The application or another sender opens a stream.
OtherOpens(c) ==
    /\ MayOpen(c)
    /\ quinn' = [quinn EXCEPT ![c] = Append(@, NewStream(FALSE))]
    /\ UNCHANGED <<link, room, connected, sender>>

-----------------------------------------------------------------------------
(* One stream. *)

\* quinn knows the stream of the entry and takes data for it.  It goes by the
\* id alone.
Usable(c) ==
    /\ link[c] = "open"
    /\ streams[c].id \in DOMAIN quinn[c]
    /\ quinn[c][streams[c].id].state = "open"

Credit(c) == IF Usable(c) THEN room[c] ELSE 0

\* Faulty (Conserved): a message of which a part was taken leaves the queue.
FlushedWhole(buffer, credit) ==
    LET taken == IF credit < Len(buffer) THEN credit ELSE Len(buffer)
    IN  [sent |-> SubSeq(buffer, 1, taken),
         buffer |-> SelectSeq(SubSeq(buffer, taken + 1, Len(buffer)),
                              LAMBDA u : taken = 0 \/ u[1] # buffer[taken][1]),
         returned |-> IF taken = Len(buffer) THEN "true" ELSE "error"]

\* MessageStreamState::flush: what quinn takes of the queue, what is left, and
\* what is returned.  A write that quinn takes nothing of is an error, one that
\* it takes a part of ends the flush.
Flushed(buffer, credit) ==
    LET taken == IF credit < Len(buffer) THEN credit ELSE Len(buffer)
    IN  [sent |-> SubSeq(buffer, 1, taken),
         buffer |-> SubSeq(buffer, taken + 1, Len(buffer)),
         returned |-> IF taken = Len(buffer) THEN "true"
                      ELSE IF taken > 0 /\ buffer[taken + 1][2] = 2 THEN "false"
                      ELSE "error"]

FlushedOf(c) == Flushed(streams[c].buffer, Credit(c))

\* The streams of connection c when `units` have been sent on number id.
Sent(c, id, units) ==
    IF units = <<>> THEN quinn[c] ELSE [quinn[c] EXCEPT ![id].sent = @ \o units]

\* Faulty (ForgottenIsClosed): the stream is not closed.
ClosedNot(state, c) == quinn[c]

\* close_send_stream only warns when there is nothing to finish or reset.
ClosedAs(state, c) ==
    IF Usable(c) THEN [quinn[c] EXCEPT ![streams[c].id].state = state] ELSE quinn[c]

-----------------------------------------------------------------------------
(* The loops. *)

\* Faulty (QueuedIsSent): only the first entry is worked on.
ReachedFirst(failing) == {order[i] : i \in {j \in DOMAIN order : j = 1}}

\* The entries that a loop works on when those of `failing` end it: all up to
\* the first of them.
Reached(failing) ==
    {order[i] : i \in {j \in DOMAIN order : \A k \in 1 .. j - 1 : order[k] \notin failing}}

Gone == {c \in Kept : link[c] = "none"}

\* The entries for which the query and get_connection succeed.
Found == {c \in Kept : link[c] \in {"open", "closed"}}

\* The orders in which a map of the entries cs may yield them.
Orders(cs) == Bijection(1 .. Cardinality(cs), cs)

\* The map has the entries cs now, and another order only if they are others.
Yields(cs) == IF cs = Kept THEN UNCHANGED order ELSE order' \in Orders(cs)

\* Faulty (KeptIsOpen): the entries of closed streams stay.
RemovedNone(cs) == UNCHANGED <<streams, order>>

Removed(cs) ==
    /\ streams' = Restrict(streams, Kept \ cs)
    /\ Yields(Kept \ cs)

\* MessageSender::flush.
Flush ==
    LET failing == {c \in Kept : \/ link[c] = "absent"
                                 \/ c \in Found /\ FlushedOf(c).returned = "error"}
        flushed == Reached(failing) \cap Found
        gone == IF failing = {} THEN Gone ELSE {}
    IN  /\ quinn' = [c \in Entity |->
                        IF c \in flushed THEN Sent(c, streams[c].id, FlushedOf(c).sent) ELSE quinn[c]]
        /\ room' = [c \in Entity |->
                        IF c \in flushed THEN room[c] - Len(FlushedOf(c).sent) ELSE room[c]]
        /\ streams' = [c \in Kept \ gone |->
                        IF c \in flushed THEN [streams[c] EXCEPT !.buffer = FlushedOf(c).buffer]
                        ELSE streams[c]]
        /\ Yields(Kept \ gone)
        /\ UNCHANGED <<link, connected, accepted, failed>>

\* MessageSender::close_unused_streams.
CloseUnusedStreams ==
    LET unused == {c \in Kept : streams[c].buffer = <<>>}
        failing == {c \in unused : link[c] = "absent"}
        closing == Reached(failing) \cap unused \cap Found
    IN  /\ quinn' = [c \in Entity |-> IF c \in closing THEN ClosedAs("finished", c) ELSE quinn[c]]
        /\ Removed(IF failing = {} THEN unused ELSE {})
        /\ failed' = IF failing = {} THEN failed ELSE failed \cup {"close_unused_streams"}
        /\ UNCHANGED <<link, room, connected, accepted>>

\* MessageSender::close_all_streams: the map has been taken before the loop.
CloseAllStreams(graceful) ==
    LET failing == {c \in Kept : link[c] = "absent"}
        closing == Reached(failing) \cap Found
        state == IF graceful THEN "finished" ELSE "reset"
    IN  /\ quinn' = [c \in Entity |-> IF c \in closing THEN ClosedAs(state, c) ELSE quinn[c]]
        /\ Removed(Kept)
        /\ failed' = IF failing = {} THEN failed ELSE failed \cup {"close_all_streams"}
        /\ UNCHANGED <<link, room, connected, accepted>>

-----------------------------------------------------------------------------
(* Writing. *)

\* The map's entry, or the one that `entry` would put there.
EntryOf(c) ==
    IF c \in Kept THEN streams[c]
    ELSE [id |-> Len(quinn[c]) + 1, connection |-> connected[c], buffer |-> <<>>]

\* The streams of c once its entry is there.
OpenedFor(c) == IF c \in Kept THEN quinn[c] ELSE Append(quinn[c], NewStream(TRUE))

\* MessageSender::write with its MessageStreamState::write: flush, queue the
\* message unless the first flush turns it away, flush again.  Where the
\* connection is not found or has no stream to give, nothing changes.
Write(c, queue) ==
    /\ SumFunction(accepted) < MaxMessages
    /\ link[c] \in {"open", "closed"}
    /\ c \in Kept \/ MayOpen(c)
    /\ LET entry == EntryOf(c)
           credit == IF c \in Kept THEN Credit(c) ELSE room[c]
           first == Flushed(entry.buffer, credit)
           turned == first.returned = "error" \/ (first.returned = "false" /\ ~ queue)
           message == UnitsOf(accepted[c] + 1)
           second == Flushed(first.buffer \o message, credit - Len(first.sent))
           units == IF turned THEN first.sent ELSE first.sent \o second.sent
           rest == IF turned THEN first.buffer ELSE second.buffer
           current == entry.connection = connected[c]
       IN  /\ quinn' = [quinn EXCEPT ![c] =
                   [i \in DOMAIN OpenedFor(c) |->
                       IF i # entry.id THEN OpenedFor(c)[i]
                       ELSE [OpenedFor(c)[i] EXCEPT
                                !.sent = @ \o units,
                                !.queued = IF turned \/ ~ current THEN @ ELSE @ \o message]]]
           /\ room' = [room EXCEPT ![c] = @ - Len(units)]
           /\ streams' = [d \in Kept \cup {c} |->
                            IF d = c THEN [entry EXCEPT !.buffer = rest] ELSE streams[d]]
           /\ accepted' = IF turned THEN accepted ELSE [accepted EXCEPT ![c] = @ + 1]
    /\ Yields(Kept \cup {c})
    /\ UNCHANGED <<link, connected, failed>>

-----------------------------------------------------------------------------

World == \E c \in Entity :
    \/ Connect(c)
    \/ End(c)
    \/ Displace(c)
    \/ RemoveConnectionOf(c)
    \/ PeerReads(c)
    \/ OtherOpens(c)

Next ==
    \/ World
    \/ \E c \in Entity, queue \in BOOLEAN : Write(c, queue)
    \/ Flush
    \/ CloseUnusedStreams
    \/ \E graceful \in BOOLEAN : CloseAllStreams(graceful)

Spec == Init /\ [][Next]_vars

\* flush_shared_message_sender runs once per tick, and a peer that is connected
\* reads.  Nothing makes the application write, close or remove anything.
Fairness == WF_vars(Flush) /\ \A c \in Entity : WF_vars(PeerReads(c))

LiveSpec == Spec /\ Fairness

-----------------------------------------------------------------------------
(* Properties. *)

\* The types of the variables; no more streams are open than the peer allows.
TypeOK ==
    /\ link \in [Entity -> Links]
    /\ quinn \in [Entity -> Seq(QuinnStream)]
    /\ \A c \in Entity : Cardinality(OpenStreams(c)) <= StreamLimit
    /\ room \in [Entity -> 0 .. Window]
    /\ Kept \subseteq Entity
    /\ \A c \in Kept : streams[c] \in MessageStreamState
    /\ order \in Orders(Kept)
    /\ connected \in [Entity -> Nat]
    /\ accepted \in [Entity -> Nat]
    /\ failed \subseteq {"close_unused_streams", "close_all_streams"}

\* The entry is of the connection that its entity has now.
IsCurrent(c) == streams[c].connection = connected[c]

OwnStream(c) == quinn[c][streams[c].id]

\* Whatever loop was left early and whatever part of a message was taken, the
\* stream has what was queued for it up to some point, each unit once and in
\* order, and the queue has the rest.
Conserved ==
    \A c \in Kept :
        IsCurrent(c) => OwnStream(c).sent \o streams[c].buffer = OwnStream(c).queued

\* No stream is forgotten while its connection is open: until a
\* close_all_streams has returned an error, each open stream of the sender is
\* in the map, where it can still be closed.
ForgottenIsClosed ==
    "close_all_streams" \notin failed =>
        \A c \in Entity : link[c] = "open" =>
            \A i \in DOMAIN quinn[c] :
                quinn[c][i].mine /\ quinn[c][i].state = "open" =>
                    c \in Kept /\ IsCurrent(c) /\ streams[c].id = i

\* A message is written to a stream that is open: until a close_unused_streams
\* has returned an error, the stream that the map keeps for the connection that
\* an entity has is one that the sender opened and has not closed.
KeptIsOpen ==
    "close_unused_streams" \notin failed =>
        \A c \in Kept : IsCurrent(c) => OwnStream(c).mine /\ OwnStream(c).state = "open"

\* The entry makes every flush fail, whatever the peer reads: its connection is
\* not found, or its stream does not take what is queued.
Stuck(c) ==
    \/ link[c] = "absent"
    \/ link[c] # "none" /\ streams[c].buffer # <<>> /\ ~ Usable(c)

Waiting == \E c \in Kept : Usable(c) /\ streams[c].buffer # <<>>

\* What is queued is sent, whoever else is congested, unless some entry stays
\* stuck: that one ends the loop for all the entries behind it.
QueuedIsSent == []<> ~ (\E c \in Kept : Stuck(c)) => (Waiting ~> ~ Waiting)

-----------------------------------------------------------------------------
(* What the repository says and the code does not do. *)

\* "If the connection no longer exists remove the stream" (writer.rs:177): a
\* stream id outlives no connection.  When the entity is given another one
\* before the next flush, the id is used on it, on a stream of somebody else.
OnlyOnOwnStream ==
    \A c \in Entity : \A i \in DOMAIN quinn[c] : ~ quinn[c][i].mine => quinn[c][i].sent = <<>>

=============================================================================
