---------------------------- MODULE VarIntChannel ----------------------------
(***************************************************************************)
(* Integers are encoded onto a byte stream and decoded at its other end,   *)
(* from chunks that the transport cuts as it likes, as the message streams *)
(* of crates/nevy_messages do with ids and lengths (varint.rs, reader.rs). *)
(***************************************************************************)
EXTENDS VarInt

CONSTANTS
    Value,      \* the integers that are sent
    MaxSent     \* bound: how many

ASSUME ValueAssumption == Value \subseteq {v \in Nat : FromU64(v)}
ASSUME MaxSentAssumption == MaxSent \in Nat

VARIABLES
    sent,       \* the integers written
    wire,       \* the bytes that have not been read
    chunk,      \* the bytes that were read and have not been pushed
    decoder,    \* the VarIntDecoder
    received    \* the integers it has given

vars == <<sent, wire, chunk, decoder, received>>

Init ==
    /\ sent = <<>>
    /\ wire = <<>>
    /\ chunk = <<>>
    /\ decoder = VarIntDecoder
    /\ received = <<>>

Write(v) ==
    /\ Len(sent) < MaxSent
    /\ sent' = Append(sent, v)
    /\ wire' = wire \o Encode(v)
    /\ UNCHANGED <<chunk, decoder, received>>

Read(n) ==
    /\ chunk = <<>>
    /\ chunk' = SubSeq(wire, 1, n)
    /\ wire' = SubSeq(wire, n + 1, Len(wire))
    /\ UNCHANGED <<sent, decoder, received>>

Push ==
    /\ chunk # <<>>
    /\ LET result == PushBytes(decoder, chunk) IN
          /\ decoder' = result.decoder
          /\ chunk' = SubSeq(chunk, result.taken + 1, Len(chunk))
          /\ received' = IF result.done THEN Append(received, result.value) ELSE received
    /\ UNCHANGED <<sent, wire>>

Next ==
    \/ \E v \in Value : Write(v)
    \/ \E n \in 1 .. Len(wire) : Read(n)
    \/ Push

Spec == Init /\ [][Next]_vars

-----------------------------------------------------------------------------
(* Properties. *)

\* The decoder gives the integers that were encoded, in their order, wherever
\* the chunks are cut.
RoundTrip ==
    /\ Len(received) <= Len(sent)
    /\ \A i \in DOMAIN received : received[i] = sent[i]

\* An integer is complete when its last byte is pushed: nothing of it is left
\* over for the next one, and no byte of the next one is needed.
Synchronous ==
    wire = <<>> /\ chunk = <<>> => Len(received) = Len(sent) /\ decoder = VarIntDecoder

=============================================================================
