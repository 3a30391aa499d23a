-------------------------- MODULE ReceivedDatagrams --------------------------
(***************************************************************************)
(* What a connection promises of the datagrams it hands out as streams.    *)
(* Every datagram gets an id that no datagram had before, and a read with  *)
(* that id returns that datagram, once; from then on the stream is closed. *)
(* The ids of nevy are QuicStreamId::ReceivedDatagram.                     *)
(***************************************************************************)

CONSTANTS
    Datagram,   \* payloads
    Id,         \* what the streams can be named
    Closed,     \* what a read of a stream returns that has been read
    NoRead      \* the result before the first read

VARIABLES
    handed,     \* id -> the datagram handed out with it
    unread,     \* the ids that have not been read
    result      \* the last read: its id and what it returned

vars == <<handed, unread, result>>

Init ==
    /\ handed = [id \in {} |-> Closed]
    /\ unread = {}
    /\ result = NoRead

HandOut(id, d) ==
    /\ id \notin DOMAIN handed
    /\ handed' = [i \in DOMAIN handed \cup {id} |-> IF i = id THEN d ELSE handed[i]]
    /\ unread' = unread \cup {id}
    /\ UNCHANGED result

Read(id) ==
    /\ result' = [id |-> id,
                  value |-> IF id \in unread THEN handed[id] ELSE Closed]
    /\ unread' = unread \ {id}
    /\ UNCHANGED handed

Next ==
    \/ \E id \in Id, d \in Datagram : HandOut(id, d)
    \/ \E id \in DOMAIN handed : Read(id)

Spec == Init /\ [][Next]_vars

=============================================================================
