------------------------------- MODULE VarInt -------------------------------
(***************************************************************************)
(* The variable length integers of crates/nevy_messages (varint.rs).  A    *)
(* byte carries GroupBits bits of the value and a bit that says whether    *)
(* another byte follows, except that byte number Limit + 1 is the last and *)
(* carries GroupBits + 1 bits.  The code has 7 for both.                   *)
(*                                                                         *)
(* An operator marked "Faulty" is a plausible bug in the operator after it *)
(* and is used nowhere: substituted for it, it breaks the named property.  *)
(***************************************************************************)
EXTENDS Naturals, Sequences

CONSTANTS
    GroupBits,
    Limit

ASSUME GroupBitsAssumption == GroupBits \in Nat \ {0}
ASSUME LimitAssumption == Limit \in Nat

\* Shifts by n bits are products and quotients with this.
Power[n \in Nat] == IF n = 0 THEN 1 ELSE 2 * Power[n - 1]

Base == Power[GroupBits]
Byte == 0 .. 2 * Base - 1

\* VarInt::from_u64 accepts what the bits of Limit + 1 bytes can hold.
FromU64(value) == value < Power[GroupBits * (Limit + 1) + 1]

-----------------------------------------------------------------------------
(* Encoding. *)

\* The byte written when `used` bytes have been: its payload, and its top bit
\* set if there is more to write or, at the limit, if the payload sets it.
EncodeByte(value, used) ==
    LET payload == (value % (IF used >= Limit THEN 2 * Base ELSE Base))
    IN  (payload % Base)
        + (IF value \div Base # 0 \/ payload >= Base THEN Base ELSE 0)

\* What the loop has left of the value when it has pushed n bytes.
Left(value, n) == value \div Power[GroupBits * n]

\* It pushes bytes until nothing is left.  It does not stop at the limit.
Size(value) ==
    CHOOSE n \in 1 .. value + 1 :
        Left(value, n) = 0 /\ \A k \in 1 .. n - 1 : Left(value, k) # 0

Encode(value) == [n \in 1 .. Size(value) |-> EncodeByte(Left(value, n - 1), n - 1)]

-----------------------------------------------------------------------------
(* Decoding. *)

VarIntDecoder == [current |-> 0, received |-> 0]

\* Faulty (RoundTrip): the continuation bit is taken for a bit of the value.
GrownUnmasked(decoder, byte) ==
    [current |-> decoder.current + byte * Power[GroupBits * decoder.received],
     received |-> decoder.received + 1]

\* The decoder after a byte.  The shifted byte and `current` share no bit, so
\* that or-ing them is adding them.
Grown(decoder, byte) ==
    LET bits == IF decoder.received >= Limit THEN byte ELSE byte % Base
    IN  [current |-> decoder.current + bits * Power[GroupBits * decoder.received],
         received |-> decoder.received + 1]

\* Faulty (Synchronous): the limit is one byte early.
EndsEarly(decoder, byte) == byte < Base \/ decoder.received + 1 >= Limit

\* Is this byte the last of its integer?
Ends(decoder, byte) == byte < Base \/ decoder.received >= Limit

\* push_bytes: takes bytes up to the end of the integer, or all of them.
PushBytes(decoder, bytes) ==
    LET push[n \in 0 .. Len(bytes)] ==
            IF n = 0 THEN decoder ELSE Grown(push[n - 1], bytes[n])
        ends  == {n \in 1 .. Len(bytes) : Ends(push[n - 1], bytes[n])}
        first == CHOOSE n \in ends : \A m \in ends : n <= m
    IN  IF ends = {}
        THEN [done |-> FALSE, decoder |-> push[Len(bytes)], value |-> 0,
              taken |-> Len(bytes)]
        ELSE [done |-> TRUE, decoder |-> VarIntDecoder,
              value |-> push[first].current, taken |-> first]

=============================================================================
