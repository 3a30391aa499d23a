---------------------------- MODULE MessageChannel ----------------------------
(***************************************************************************)
(* What a message stream of crates/nevy_messages promises to the sender's  *)
(* and the receiver's application: the messages of an id come out as they  *)
(* went in, once and in order, and when the sender has closed the channel  *)
(* it ends with nothing left in it.  Messages of different ids overtake    *)
(* each other only in that the receiver looks at them separately.          *)
(***************************************************************************)
EXTENDS Sequences

CONSTANTS
    Message,    \* [id, payload] records
    Id

VARIABLES
    pending,    \* id -> payloads sent and not delivered
    delivered,  \* id -> payloads delivered
    state       \* "open", "closed" or "ended"

vars == <<pending, delivered, state>>

Init ==
    /\ pending = [id \in Id |-> <<>>]
    /\ delivered = [id \in Id |-> <<>>]
    /\ state = "open"

Send(m) ==
    /\ state = "open"
    /\ pending' = [pending EXCEPT ![m.id] = Append(@, m.payload)]
    /\ UNCHANGED <<delivered, state>>

Deliver(id) ==
    /\ state # "ended"
    /\ pending[id] # <<>>
    /\ pending' = [pending EXCEPT ![id] = Tail(@)]
    /\ delivered' = [delivered EXCEPT ![id] = Append(@, Head(pending[id]))]
    /\ UNCHANGED state

Close ==
    /\ state = "open"
    /\ state' = "closed"
    /\ UNCHANGED <<pending, delivered>>

End ==
    /\ state = "closed"
    /\ \A id \in Id : pending[id] = <<>>
    /\ state' = "ended"
    /\ UNCHANGED <<pending, delivered>>

Next ==
    \/ \E m \in Message : Send(m)
    \/ \E id \in Id : Deliver(id)
    \/ Close
    \/ End

Spec == Init /\ [][Next]_vars

=============================================================================
