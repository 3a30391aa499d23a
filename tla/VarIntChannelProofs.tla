-------------------------- MODULE VarIntChannelProofs --------------------------
(***************************************************************************)
(* Proofs about VarIntChannel, for every width of a group, every limit and *)
(* all integers whose encoding ends within it.                             *)
(***************************************************************************)
EXTENDS VarIntChannel, VarIntProofs

Codes(values) == [i \in 1 .. Len(values) |-> Encode(values[i])]

\* The decoder is p bytes before the value that it will give next, or -p bytes
\* into it; with none to come it is as new.
Position(p, k, values, d) ==
    IF k < Len(values)
    THEN 0 - p \in 0 .. Size(values[k + 1]) - 1 /\ d = Partial(values[k + 1], 0 - p)
    ELSE p = 0 /\ d = VarIntDecoder

\* Where k of the values have been decoded, the bytes are the rest of the others.
InStep(values, k, d, bytes) ==
    \E at : /\ Lies(Byte, at, bytes, Codes(values))
            /\ Position(at[k + 1], k, values, d)

Typed ==
    /\ sent \in Seq(Value)
    /\ wire \in Seq(Byte)
    /\ chunk \in Seq(Byte)
    /\ received \in Seq(Value)

IInv == Typed /\ RoundTrip /\ InStep(sent, Len(received), decoder, chunk \o wire)

-----------------------------------------------------------------------------
(* The three things that happen to values, decoder and bytes. *)

AllFit == \A v \in Value : Fits(v)

LEMMA ValueIs ==
    ASSUME AllFit, NEW v \in Value
    PROVE  /\ v \in Nat /\ Fits(v)
           /\ Size(v) \in Nat /\ Size(v) >= 1
           /\ Encode(v) \in Seq(Byte) /\ Len(Encode(v)) = Size(v)
<1>1. v \in Nat /\ Fits(v)
  BY ValueAssumption DEF AllFit
<1> QED BY <1>1, SizeIs, EncodeIs, Zenon

LEMMA CodesAre ==
    ASSUME AllFit, NEW values \in Seq(Value)
    PROVE  /\ Codes(values) \in Seq(Seq(Byte)) /\ Len(Codes(values)) = Len(values)
           /\ \A i \in 1 .. Len(values) : Codes(values)[i] = Encode(values[i])
           /\ \A v \in Value : Codes(Append(values, v)) = Append(Codes(values), Encode(v))
<1>1. Len(values) \in Nat /\ \A i \in 1 .. Len(values) : values[i] \in Value
  OBVIOUS
<1>2. \A i \in 1 .. Len(values) : Encode(values[i]) \in Seq(Byte)
  BY <1>1, ValueIs, Zenon
<1>3. /\ Codes(values) \in Seq(Seq(Byte)) /\ Len(Codes(values)) = Len(values)
      /\ \A i \in 1 .. Len(values) : Codes(values)[i] = Encode(values[i])
  BY <1>1, <1>2 DEF Codes
<1>4. ASSUME NEW v \in Value
      PROVE  Codes(Append(values, v)) = Append(Codes(values), Encode(v))
  <2> DEFINE more == Append(values, v)
  <2>1. /\ Len(more) = Len(values) + 1 /\ more[Len(values) + 1] = v
        /\ \A i \in 1 .. Len(values) : more[i] = values[i]
    BY AppendProperties
  <2>2. Codes(more) = [i \in 1 .. Len(values) + 1 |-> Encode(more[i])]
    BY <2>1 DEF Codes
  <2> HIDE DEF more
  <2>3. \A i \in 1 .. Len(values) + 1 :
           Encode(more[i]) = IF i = Len(values) + 1 THEN Encode(v) ELSE Codes(values)[i]
    BY <1>1, <1>3, <2>1
  <2>4. Append(Codes(values), Encode(v)) =
           [i \in 1 .. Len(values) + 1 |->
               IF i = Len(values) + 1 THEN Encode(v) ELSE Codes(values)[i]]
    <3>1. Encode(v) \in Seq(Byte)
      BY ValueIs
    <3> DEFINE codes == Codes(values)
               code == Encode(v)
               n == Len(values)
    <3>2. codes \in Seq(Seq(Byte)) /\ n = Len(codes) /\ code \in Seq(Byte)
      BY <1>3, <3>1
    <3> HIDE DEF codes, code, n
    <3>3. Append(codes, code) = [i \in 1 .. n + 1 |-> IF i = n + 1 THEN code ELSE codes[i]]
      BY <3>2, AppendIs
    <3> QED BY <3>3 DEF codes, code, n
  <2> QED BY <2>2, <2>3, <2>4 DEF more
<1> QED BY <1>3, <1>4

\* A value is written.
LEMMA InStepWrite ==
    ASSUME AllFit, NEW values \in Seq(Value), NEW k \in Nat, k <= Len(values), NEW d,
           NEW bytes, InStep(values, k, d, bytes), NEW v \in Value
    PROVE  InStep(Append(values, v), k, d, bytes \o Encode(v))
<1>1. PICK at : Lies(Byte, at, bytes, Codes(values)) /\ Position(at[k + 1], k, values, d)
  BY DEF InStep
<1> DEFINE n == Len(values)
           more == Append(values, v)
           later == [i \in 1 .. Len(Codes(values)) + 2 |->
                        IF i = Len(Codes(values)) + 2 THEN Len(bytes) + Len(Encode(v))
                        ELSE at[i]]
<1>2. Lies(Byte, later, bytes \o Encode(v), Append(Codes(values), Encode(v)))
  BY <1>1, ValueIs, LiesMore, Zenon
<1>3. Append(Codes(values), Encode(v)) = Codes(more)
  BY CodesAre
<1>4. /\ n \in Nat /\ Len(more) = n + 1 /\ more[n + 1] = v
      /\ \A i \in 1 .. n : more[i] = values[i]
  BY AppendProperties
<1>5. later[k + 1] = at[k + 1]
  <2>1. Len(Codes(values)) = n
    BY CodesAre
  <2>2. k + 1 \in 1 .. n + 2 /\ k + 1 # n + 2
    BY <1>4
  <2> QED BY <2>1, <2>2
<1> HIDE DEF later, more, n
<1>6. Position(at[k + 1], k, more, d)
  <2>1. CASE k < n
    <3>1. more[k + 1] = values[k + 1]
      <4>1. k + 1 \in 1 .. n
        BY <1>4, <2>1
      <4> QED BY <1>4, <4>1
    <3>2. k < Len(more) /\ k < Len(values)
      BY <1>4, <2>1 DEF n
    <3> QED BY <1>1, <3>1, <3>2, Zenon DEF Position
  <2>2. CASE ~ (k < n)
    <3>1. k = n /\ k < Len(more) /\ more[k + 1] = v
      BY <1>4, <2>2 DEF n
    <3>2. at[k + 1] = 0 /\ d = VarIntDecoder
      BY <1>1, <2>2 DEF Position, n
    <3>3. v \in Nat /\ Size(v) \in Nat /\ Size(v) >= 1
      BY ValueIs
    <3>4. d = Partial(v, 0)
      BY <3>2, <3>3, PartialNone
    <3> QED BY <3>1, <3>2, <3>3, <3>4 DEF Position
  <2> QED BY <2>1, <2>2
<1> QED BY <1>2, <1>3, <1>5, <1>6, Zenon DEF InStep, more

\* When no bytes are left, no value is to come.
LEMMA InStepEnd ==
    ASSUME AllFit, NEW values \in Seq(Value), NEW k \in Nat, k <= Len(values), NEW d,
           InStep(values, k, d, <<>>)
    PROVE  k = Len(values) /\ d = VarIntDecoder
<1>1. PICK at : Lies(Byte, at, <<>>, Codes(values)) /\ Position(at[k + 1], k, values, d)
  BY DEF InStep
<1>2. CASE k = Len(values)
  BY <1>1, <1>2 DEF Position
<1>3. CASE k # Len(values)
  <2> DEFINE v == values[k + 1]
  <2>1. k + 1 \in 1 .. Len(values) /\ k < Len(values)
    BY <1>3
  <2>2. v \in Value
    BY <2>1
  <2>3. Size(v) \in Nat /\ Len(Codes(values)[k + 1]) = Size(v) /\ Len(Codes(values)) = Len(values)
    BY <2>1, <2>2, ValueIs, CodesAre
  <2> HIDE DEF v
  <2>4. /\ at[(k + 1) + 1] = at[k + 1] + Size(v) /\ at[(k + 1) + 1] <= 0
        /\ at[k + 1] \in Int
    <3>1. Len(<<>>) = 0
      OBVIOUS
    <3>2. k + 1 \in 1 .. Len(Codes(values)) + 1
      BY <2>1, <2>3
    <3> QED BY <1>1, <2>1, <2>3, <3>1, <3>2 DEF Lies
  <2>5. 0 - at[k + 1] \in 0 .. Size(v) - 1
    BY <1>1, <2>1 DEF Position, v
  <2> QED BY <2>3, <2>4, <2>5
<1> QED BY <1>2, <1>3

\* A chunk is pushed, until it ends or a value does.
LEMMA InStepPush ==
    ASSUME AllFit, NEW values \in Seq(Value), NEW k \in Nat, k <= Len(values), NEW d,
           NEW bytes \in Seq(Byte), bytes # <<>>, NEW rest \in Seq(Byte),
           InStep(values, k, d, bytes \o rest), NEW result, result = PushBytes(d, bytes)
    PROVE  LET left == SubSeq(bytes, result.taken + 1, Len(bytes))
           IN  /\ left \in Seq(Byte)
               /\ result.done \in BOOLEAN
               /\ IF result.done
                  THEN /\ k < Len(values) /\ result.value = values[k + 1]
                       /\ InStep(values, k + 1, result.decoder, left \o rest)
                  ELSE InStep(values, k, result.decoder, left \o rest)
<1> DEFINE all == bytes \o rest
           n == Len(values)
           v == values[k + 1]
<1>1. PICK at : Lies(Byte, at, all, Codes(values)) /\ Position(at[k + 1], k, values, d)
  BY DEF InStep
<1>2. /\ Len(bytes) \in Nat /\ Len(rest) \in Nat /\ Len(bytes) >= 1
      /\ Len(all) = Len(bytes) + Len(rest)
      /\ \A i \in 1 .. Len(bytes) : all[i] = bytes[i]
  BY EmptySeq
<1>3. /\ Len(Codes(values)) = n /\ n \in Nat
      /\ \A i \in 1 .. n : Codes(values)[i] = Encode(values[i])
  BY CodesAre
<1>4. /\ at[n + 1] = Len(all)
      /\ \A i \in 1 .. n + 1 : at[i] \in Int
      /\ \A i \in 1 .. n : at[i + 1] = at[i] + Len(Codes(values)[i])
      /\ \A i \in 1 .. n : \A j \in 1 .. Len(Codes(values)[i]) :
            at[i] + j >= 1 => all[at[i] + j] = Codes(values)[i][j]
  BY <1>1, <1>3 DEF Lies
<1> HIDE DEF all, n
<1>5. k < n
  <2>1. ASSUME ~ (k < n) PROVE FALSE
    <3>1. k = n
      BY <1>3, <2>1 DEF n
    <3>2. at[k + 1] = 0
      BY <1>1, <2>1 DEF Position, n
    <3> QED BY <1>2, <1>4, <3>1, <3>2
  <2> QED BY <2>1
<1>6. k + 1 \in 1 .. n /\ k + 1 \in 1 .. n + 1 /\ (k + 1) + 1 \in 1 .. n + 1
  BY <1>3, <1>5
<1>7. v \in Value
  BY <1>6 DEF n
<1> DEFINE r == 0 - at[k + 1]
<1>8. r \in 0 .. Size(v) - 1 /\ d = Partial(v, r)
  BY <1>1, <1>5 DEF Position, n
<1>9. v \in Nat /\ Fits(v) /\ Size(v) \in Nat /\ Len(Encode(v)) = Size(v)
  BY <1>7, ValueIs
<1>10. Codes(values)[k + 1] = Encode(v)
  BY <1>3, <1>6
<1> HIDE DEF v
<1>11. at[k + 1] \in Int /\ at[(k + 1) + 1] = at[k + 1] + Size(v) /\ r \in Int
       /\ r = 0 - at[k + 1]
  BY <1>4, <1>6, <1>9, <1>10
<1>12. \A j \in 1 .. Size(v) : at[k + 1] + j >= 1 => all[at[k + 1] + j] = Encode(v)[j]
  BY <1>4, <1>6, <1>9, <1>10
<1> HIDE DEF r
<1>13. ASSUME NEW j \in 1 .. Len(bytes), j <= Size(v) - r
       PROVE  bytes[j] = Encode(v)[r + j]
  <2>1. r + j \in 1 .. Size(v) /\ at[k + 1] + (r + j) = j /\ j >= 1
    <3>1. r \in Int /\ r >= 0 /\ Size(v) \in Nat /\ j \in Nat /\ j >= 1 /\ j <= Size(v) - r
      BY <1>2, <1>8, <1>9, <1>11, <1>13
    <3>2. at[k + 1] \in Int /\ r = 0 - at[k + 1]
      BY <1>11
    <3>3. \A a, x, y \in Int : x = 0 - a => a + (x + y) = y
      OBVIOUS
    <3>4. r + j \in 1 .. Size(v)
      BY <3>1
    <3>5. j \in Int
      OBVIOUS
    <3>6. at[k + 1] + (r + j) = j
      BY <3>1, <3>2, <3>3, <3>5, Zenon
    <3> QED BY <3>1, <3>4, <3>6
  <2> QED BY <1>2, <1>12, <2>1
<1> DEFINE last == Size(v) - r
<1>14. r \in Nat /\ r < Size(v) /\ last \in Nat /\ last >= 1
  BY <1>8, <1>9
<1>15. result =
          IF Len(bytes) < last
          THEN [done |-> FALSE, decoder |-> Partial(v, r + Len(bytes)), value |-> 0,
                taken |-> Len(bytes)]
          ELSE [done |-> TRUE, decoder |-> VarIntDecoder, value |-> v, taken |-> last]
  BY <1>2, <1>8, <1>9, <1>13, <1>14, PushBytesDecodes
<1> DEFINE t == result.taken
           left == SubSeq(bytes, t + 1, Len(bytes))
           now == [i \in 1 .. Len(Codes(values)) + 1 |-> at[i] - t]
<1>16. t = IF Len(bytes) < last THEN Len(bytes) ELSE last
  BY <1>15
<1>17. t \in Nat /\ t <= Len(bytes) /\ t <= Len(all)
  BY <1>2, <1>14, <1>16
<1> HIDE DEF t, last
<1>18. left \in Seq(Byte) /\ SubSeq(all, t + 1, Len(all)) = left \o rest
  <2> HIDE DEF left
  <2>1. bytes \in Seq(Byte) /\ rest \in Seq(Byte) /\ t \in Nat /\ t <= Len(bytes)
    BY <1>17
  <2>2. /\ SubSeq(bytes, t + 1, Len(bytes)) \in Seq(Byte)
        /\ SubSeq(bytes \o rest, t + 1, Len(bytes \o rest))
              = SubSeq(bytes, t + 1, Len(bytes)) \o rest
    BY <2>1, SubSeqOfConcat, Zenon
  <2> QED BY <2>2 DEF all, left
<1>19. Lies(Byte, now, left \o rest, Codes(values))
  <2> HIDE DEF left, now
  <2>1. Lies(Byte, [i \in 1 .. Len(Codes(values)) + 1 |-> at[i] - t],
             SubSeq(all, t + 1, Len(all)), Codes(values))
    BY <1>1, <1>17, LiesLess, Zenon
  <2> QED BY <1>18, <2>1 DEF now
<1>20. now[k + 1] = at[k + 1] - t /\ now[(k + 1) + 1] = at[(k + 1) + 1] - t
  BY <1>3, <1>6
<1> HIDE DEF left, now
<1>21. CASE Len(bytes) < last
  <2>1. ~ result.done /\ result.done = FALSE /\ result.decoder = Partial(v, r + t)
        /\ t = Len(bytes)
    BY <1>15, <1>16, <1>21
  <2>2. 0 - now[k + 1] = r + t
    BY <1>11, <1>17, <1>20
  <2>3. r + t \in 0 .. Size(v) - 1
    BY <1>2, <1>9, <1>14, <1>21, <2>1 DEF last
  <2>4. Position(now[k + 1], k, values, result.decoder)
    BY <1>5, <2>1, <2>2, <2>3 DEF Position, n, v
  <2>5. InStep(values, k, result.decoder, left \o rest)
    BY <1>19, <2>4 DEF InStep
  <2> QED BY <1>18, <2>1, <2>5 DEF left, t
<1>22. CASE ~ (Len(bytes) < last)
  <2>1. result.done = TRUE /\ result.decoder = VarIntDecoder /\ result.value = v /\ t = last
    BY <1>15, <1>16, <1>22
  <2>2. now[(k + 1) + 1] = 0
    <3>1. Size(v) \in Nat /\ t = Size(v) - r
      BY <1>9, <2>1 DEF last
    <3>2. at[k + 1] \in Int /\ r = 0 - at[k + 1]
      BY <1>11
    <3>3. now[(k + 1) + 1] = (at[k + 1] + Size(v)) - t
      BY <1>11, <1>20
    <3> QED BY <3>1, <3>2, <3>3
  <2>3. Position(0, k + 1, values, VarIntDecoder)
    <3>1. CASE k + 1 < n
      <4> DEFINE w == values[(k + 1) + 1]
      <4>1. w \in Value
        <5>1. (k + 1) + 1 \in 1 .. Len(values)
          BY <1>3, <3>1 DEF n
        <5> QED BY <5>1
      <4>2. w \in Nat /\ Size(w) \in Nat /\ Size(w) >= 1
        BY <4>1, ValueIs
      <4> HIDE DEF w
      <4>3. Partial(w, 0) = VarIntDecoder
        BY <4>2, PartialNone
      <4>4. 0 - 0 = 0
        OBVIOUS
      <4>5. 0 \in 0 .. Size(w) - 1
        BY <4>2
      <4> QED BY <3>1, <4>3, <4>4, <4>5 DEF Position, w, n
    <3>2. CASE ~ (k + 1 < n)
      BY <3>2 DEF Position, n
    <3> QED BY <3>1, <3>2
  <2>4. InStep(values, k + 1, result.decoder, left \o rest)
    BY <1>19, <2>1, <2>2, <2>3 DEF InStep
  <2> QED BY <1>5, <1>18, <2>1, <2>4 DEF left, t, n, v
<1> QED BY <1>21, <1>22

-----------------------------------------------------------------------------
(* The invariant. *)

LEMMA InitIInv ==
    ASSUME AllFit, Init
    PROVE  IInv
<1>1. /\ sent = <<>> /\ wire = <<>> /\ chunk = <<>> /\ received = <<>>
      /\ decoder = VarIntDecoder /\ Len(<<>>) = 0 /\ <<>> \o <<>> = <<>>
  BY DEF Init
<1>2. <<>> \in Seq(Value) /\ <<>> \in Seq(Byte)
  BY EmptySeq
<1>3. RoundTrip
  BY <1>1 DEF RoundTrip
<1>4. InStep(<<>>, 0, VarIntDecoder, <<>>)
  <2> DEFINE at == [i \in 1 .. 1 |-> 0]
  <2>1. Codes(<<>>) = <<>>
    BY <1>1 DEF Codes
  <2>2. Lies(Byte, at, <<>>, Codes(<<>>))
    BY <2>1, LiesNone
  <2>3. at[0 + 1] = 0
    OBVIOUS
  <2> HIDE DEF at
  <2>4. Position(at[0 + 1], 0, <<>>, VarIntDecoder)
    BY <1>1, <2>3 DEF Position
  <2> QED BY <2>2, <2>4 DEF InStep
<1> QED BY <1>1, <1>2, <1>3, <1>4 DEF IInv, Typed

LEMMA WriteKeeps ==
    ASSUME AllFit, IInv, NEW v \in Value, Write(v)
    PROVE  IInv'
<1>1. /\ sent' = Append(sent, v) /\ wire' = wire \o Encode(v)
      /\ UNCHANGED <<chunk, decoder, received>>
  BY DEF Write
<1>2. sent \in Seq(Value) /\ wire \in Seq(Byte) /\ chunk \in Seq(Byte) /\ received \in Seq(Value)
  BY DEF IInv, Typed
<1>3. Encode(v) \in Seq(Byte)
  BY ValueIs
<1>4. Typed'
  BY <1>1, <1>2, <1>3 DEF Typed
<1>5. Len(received) \in Nat /\ Len(received) <= Len(sent)
  BY <1>2 DEF IInv, RoundTrip
<1>6. /\ Len(sent') = Len(sent) + 1 /\ Len(sent) \in Nat
      /\ \A i \in 1 .. Len(sent) : sent'[i] = sent[i]
  BY <1>1, <1>2, AppendProperties
<1>7. RoundTrip'
  BY <1>1, <1>2, <1>5, <1>6 DEF IInv, RoundTrip
<1>8. InStep(Append(sent, v), Len(received), decoder, (chunk \o wire) \o Encode(v))
  BY <1>2, <1>5, InStepWrite DEF IInv
<1>9. (chunk \o wire) \o Encode(v) = chunk \o (wire \o Encode(v))
  BY <1>2, <1>3
<1> QED BY <1>1, <1>4, <1>7, <1>8, <1>9 DEF IInv

LEMMA ReadKeeps ==
    ASSUME IInv, NEW n \in 1 .. Len(wire), Read(n)
    PROVE  IInv'
<1>1. /\ chunk = <<>> /\ chunk' = SubSeq(wire, 1, n) /\ wire' = SubSeq(wire, n + 1, Len(wire))
      /\ UNCHANGED <<sent, decoder, received>>
  BY DEF Read
<1>2. wire \in Seq(Byte)
  BY DEF IInv, Typed
<1>3. chunk' \in Seq(Byte) /\ wire' \in Seq(Byte) /\ chunk' \o wire' = wire /\ <<>> \o wire = wire
  BY <1>1, <1>2
<1>4. Typed' /\ RoundTrip'
  BY <1>1, <1>3 DEF IInv, Typed, RoundTrip
<1> QED BY <1>1, <1>3, <1>4 DEF IInv

LEMMA PushKeeps ==
    ASSUME AllFit, IInv, Push
    PROVE  IInv'
<1> DEFINE result == PushBytes(decoder, chunk)
           left == SubSeq(chunk, result.taken + 1, Len(chunk))
           k == Len(received)
<1>1. /\ chunk # <<>> /\ decoder' = result.decoder /\ chunk' = left
      /\ received' = IF result.done THEN Append(received, result.value) ELSE received
      /\ UNCHANGED <<sent, wire>>
  BY DEF Push
<1>2. /\ sent \in Seq(Value) /\ wire \in Seq(Byte) /\ chunk \in Seq(Byte)
      /\ received \in Seq(Value) /\ k \in Nat /\ k <= Len(sent) /\ Len(sent) \in Nat
      /\ \A i \in 1 .. k : received[i] = sent[i]
  BY DEF IInv, Typed, RoundTrip
<1>3. InStep(sent, k, decoder, chunk \o wire)
  BY DEF IInv
<1>4. /\ left \in Seq(Byte)
      /\ result.done \in BOOLEAN
      /\ IF result.done
         THEN /\ k < Len(sent) /\ result.value = sent[k + 1]
              /\ InStep(sent, k + 1, result.decoder, left \o wire)
         ELSE InStep(sent, k, result.decoder, left \o wire)
  BY <1>1, <1>2, <1>3, InStepPush
<1> HIDE DEF left, result
<1>5. CASE result.done
  <2>1. received' = Append(received, sent[k + 1]) /\ sent[k + 1] \in Value
    BY <1>1, <1>2, <1>4, <1>5
  <2>2. /\ received' \in Seq(Value) /\ Len(received') = k + 1 /\ received'[k + 1] = sent[k + 1]
        /\ \A i \in 1 .. k : received'[i] = received[i]
    BY <1>2, <2>1, AppendProperties
  <2>3. Typed'
    BY <1>1, <1>2, <1>4, <2>2 DEF Typed
  <2>4. RoundTrip'
    <3>1. ASSUME NEW i \in 1 .. k + 1 PROVE received'[i] = sent[i]
      <4>1. i \in 1 .. k \/ i = k + 1
        BY <1>2
      <4> QED BY <1>2, <2>2, <4>1
    <3>2. DOMAIN received' = 1 .. k + 1 /\ k + 1 <= Len(sent)
      BY <1>2, <1>4, <1>5, <2>2
    <3> QED BY <1>1, <2>2, <3>1, <3>2 DEF RoundTrip
  <2> QED BY <1>1, <1>4, <1>5, <2>2, <2>3, <2>4 DEF IInv
<1>6. CASE ~ result.done
  <2>1. received' = received
    BY <1>1, <1>6
  <2>2. Typed' /\ RoundTrip'
    BY <1>1, <1>2, <1>4, <2>1 DEF IInv, Typed, RoundTrip
  <2> QED BY <1>1, <1>4, <1>6, <2>1, <2>2 DEF IInv
<1> QED BY <1>5, <1>6

LEMMA StepKeeps ==
    ASSUME AllFit, IInv, [Next]_vars
    PROVE  IInv'
<1>1. ASSUME NEW v \in Value, Write(v) PROVE IInv'
  BY <1>1, WriteKeeps
<1>2. ASSUME NEW n \in 1 .. Len(wire), Read(n) PROVE IInv'
  BY <1>2, ReadKeeps
<1>3. CASE Push
  BY <1>3, PushKeeps
<1>4. CASE UNCHANGED vars
  BY <1>4 DEF vars, IInv, Typed, RoundTrip
<1> QED BY <1>1, <1>2, <1>3, <1>4 DEF Next

LEMMA Inductive ==
    ASSUME AllFit
    PROVE  Spec => []IInv
<1>1. Init => IInv
  BY InitIInv
<1>2. IInv /\ [Next]_vars => IInv'
  BY StepKeeps
<1> QED BY <1>1, <1>2, PTL DEF Spec

\* Integers that fit the bytes of the limit come out of the decoder as they were
\* encoded and in their order, wherever the chunks are cut.
THEOREM Decodes ==
    ASSUME \A v \in Value : Fits(v)
    PROVE  Spec => []RoundTrip
<1>1. AllFit
  BY DEF AllFit
<1>2. IInv => RoundTrip
  BY DEF IInv
<1> QED BY <1>1, <1>2, Inductive, PTL

\* The decoder takes exactly the bytes of an integer: when all are pushed, all
\* integers are complete and the decoder is as new.
THEOREM TakesAll ==
    ASSUME \A v \in Value : Fits(v)
    PROVE  Spec => []Synchronous
<1>1. AllFit
  BY DEF AllFit
<1>2. IInv => Synchronous
  <2> SUFFICES ASSUME IInv, wire = <<>>, chunk = <<>>
               PROVE  Len(received) = Len(sent) /\ decoder = VarIntDecoder
    BY DEF Synchronous
  <2>1. chunk \o wire = <<>>
    OBVIOUS
  <2>2. sent \in Seq(Value) /\ Len(received) \in Nat /\ Len(received) <= Len(sent)
    BY DEF IInv, Typed, RoundTrip
  <2>3. InStep(sent, Len(received), decoder, <<>>)
    BY <2>1 DEF IInv
  <2> QED BY <1>1, <2>2, <2>3, InStepEnd
<1> QED BY <1>1, <1>2, Inductive, PTL

=============================================================================
