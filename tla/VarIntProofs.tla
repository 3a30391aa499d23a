----------------------------- MODULE VarIntProofs -----------------------------
(***************************************************************************)
(* Lemmas about VarInt for every width of a group and every limit: the     *)
(* decoder, pushed the bytes of an encoding from any position on, gives    *)
(* back the integer with its last byte.                                    *)
(***************************************************************************)
EXTENDS VarInt, SelectionsProofs

\* The integers whose encoding ends within the limit.  FromU64 accepts one bit
\* more, for which encode writes a byte that the decoder does not expect.
Fits(value) == value < Power[GroupBits * (Limit + 1)]

-----------------------------------------------------------------------------
(* Powers of two. *)

Doubles(f, n) == f = [i \in 0 .. n |-> IF i = 0 THEN 1 ELSE 2 * f[i - 1]]

LEMMA DoublesExists ==
    ASSUME NEW n \in Nat
    PROVE  \E f : Doubles(f, n)
<1> DEFINE T == {m \in Nat : \E f : Doubles(f, m)}
<1>1. 0 \in T
  <2>1. Doubles([i \in 0 .. 0 |-> 1], 0)
    BY DEF Doubles
  <2> QED BY <2>1
<1>2. ASSUME NEW m \in Nat, m \in T PROVE m + 1 \in T
  <2>1. PICK f : Doubles(f, m)
    BY <1>2
  <2> DEFINE g == [i \in 0 .. m + 1 |-> IF i = m + 1 THEN 2 * f[m] ELSE f[i]]
  <2>2. \A i \in 0 .. m : f[i] = IF i = 0 THEN 1 ELSE 2 * f[i - 1]
    BY <2>1 DEF Doubles
  <2>3. (\A i \in 0 .. m : g[i] = f[i]) /\ g[m + 1] = 2 * f[m]
    OBVIOUS
  <2>4. g = [i \in 0 .. m + 1 |-> g[i]]
    OBVIOUS
  <2> HIDE DEF g
  <2>5. \A i \in 0 .. m + 1 : g[i] = IF i = 0 THEN 1 ELSE 2 * g[i - 1]
    <3>1. \A i \in 1 .. m + 1 : g[i - 1] = f[i - 1]
      BY <2>3
    <3> QED BY <2>2, <2>3, <3>1
  <2>6. Doubles(g, m + 1)
    BY <2>4, <2>5 DEF Doubles
  <2> QED BY <2>6
<1> HIDE DEF T
<1>3. Nat \subseteq T
  BY <1>1, <1>2, Induction, Zenon
<1> QED BY <1>3 DEF T

LEMMA DoublesUnique ==
    ASSUME NEW n \in Nat, NEW m \in Nat, NEW f, NEW g, Doubles(f, n), Doubles(g, m),
           NEW k \in Nat, k <= n, k <= m
    PROVE  f[k] = g[k]
<1> DEFINE T == {j \in Nat : j <= k => f[j] = g[j]}
<1>1. /\ \A i \in 0 .. n : f[i] = IF i = 0 THEN 1 ELSE 2 * f[i - 1]
      /\ \A i \in 0 .. m : g[i] = IF i = 0 THEN 1 ELSE 2 * g[i - 1]
  BY DEF Doubles
<1>2. 0 \in T
  BY <1>1
<1>3. ASSUME NEW j \in Nat, j \in T PROVE j + 1 \in T
  <2>1. CASE j + 1 <= k
    <3>1. f[j + 1] = 2 * f[j] /\ g[j + 1] = 2 * g[j] /\ f[j] = g[j]
      <4>1. j + 1 \in 0 .. n /\ j + 1 \in 0 .. m /\ j + 1 # 0 /\ (j + 1) - 1 = j
        BY <2>1
      <4> QED BY <1>1, <1>3, <2>1, <4>1
    <3> QED BY <3>1
  <2> QED BY <2>1
<1> HIDE DEF T
<1>4. Nat \subseteq T
  BY <1>2, <1>3, Induction, Zenon
<1> QED BY <1>4 DEF T

\* Power is the function that its definition describes.
LEMMA PowerDoubles == \A n \in Nat : Power[n] = IF n = 0 THEN 1 ELSE 2 * Power[n - 1]
<1> DEFINE Whole(p) == p = [n \in Nat |-> IF n = 0 THEN 1 ELSE 2 * p[n - 1]]
           p == [n \in Nat |-> (CHOOSE f : Doubles(f, n))[n]]
<1>1. Whole(p)
  <2>1. ASSUME NEW n \in Nat PROVE p[n] = IF n = 0 THEN 1 ELSE 2 * p[n - 1]
    <3>1. Doubles(CHOOSE f : Doubles(f, n), n)
      BY DoublesExists, Zenon
    <3>2. CASE n = 0
      BY <3>1, <3>2 DEF Doubles
    <3>3. CASE n # 0
      <4> DEFINE f == CHOOSE f : Doubles(f, n)
                 g == CHOOSE g : Doubles(g, n - 1)
      <4>1. n - 1 \in Nat /\ n - 1 <= n /\ n - 1 <= n - 1 /\ n \in 0 .. n
        BY <3>3
      <4>2. Doubles(g, n - 1)
        BY <4>1, DoublesExists, Zenon
      <4>3. p[n] = f[n] /\ p[n - 1] = g[n - 1]
        BY <4>1
      <4>4. Doubles(f, n)
        BY <3>1
      <4> HIDE DEF f, g, p
      <4>5. f[n] = 2 * f[n - 1]
        BY <3>3, <4>1, <4>4 DEF Doubles
      <4>6. f[n - 1] = g[n - 1]
        BY <4>1, <4>2, <4>4, DoublesUnique
      <4> QED BY <3>3, <4>3, <4>5, <4>6
    <3> QED BY <3>2, <3>3
  <2>2. p = [n \in Nat |-> p[n]]
    OBVIOUS
  <2> HIDE DEF p
  <2> QED BY <2>1, <2>2
<1>2. Power = CHOOSE q : Whole(q)
  BY DEF Power
<1> HIDE DEF p
<1>3. Whole(CHOOSE q : Whole(q))
  <2> HIDE DEF Whole
  <2> QED BY <1>1, Zenon
<1>4. Whole(Power)
  BY <1>2, <1>3
<1> QED BY <1>4

LEMMA PowerIsPositive == \A n \in Nat : Power[n] \in Nat /\ Power[n] > n
<1> DEFINE T == {n \in Nat : Power[n] \in Nat /\ Power[n] > n}
<1>1. 0 \in T
  BY PowerDoubles
<1>2. ASSUME NEW n \in Nat, n \in T PROVE n + 1 \in T
  <2>1. Power[n + 1] = 2 * Power[n]
    <3>1. n + 1 \in Nat /\ n + 1 # 0 /\ (n + 1) - 1 = n
      OBVIOUS
    <3> QED BY <3>1, PowerDoubles
  <2> QED BY <1>2, <2>1
<1> HIDE DEF T
<1>3. Nat \subseteq T
  BY <1>1, <1>2, Induction, Zenon
<1> QED BY <1>3 DEF T

LEMMA PowerOfSum == \A m, n \in Nat : Power[m + n] = Power[m] * Power[n]
<1> SUFFICES ASSUME NEW m \in Nat PROVE \A n \in Nat : Power[m + n] = Power[m] * Power[n]
  OBVIOUS
<1> DEFINE T == {n \in Nat : Power[m + n] = Power[m] * Power[n]}
<1>1. 0 \in T
  <2>1. Power[0] = 1 /\ Power[m] \in Nat /\ m + 0 = m
    BY PowerDoubles, PowerIsPositive
  <2> QED BY <2>1
<1>2. ASSUME NEW n \in Nat, n \in T PROVE n + 1 \in T
  <2>1. Power[n + 1] = 2 * Power[n] /\ Power[m + (n + 1)] = 2 * Power[m + n]
    <3>1. /\ n + 1 \in Nat /\ n + 1 # 0 /\ (n + 1) - 1 = n
          /\ m + (n + 1) \in Nat /\ m + (n + 1) # 0 /\ (m + (n + 1)) - 1 = m + n
      OBVIOUS
    <3> QED BY <3>1, PowerDoubles
  <2>2. Power[m] \in Nat /\ Power[n] \in Nat
    BY PowerIsPositive
  <2>3. \A a, b \in Nat : 2 * (a * b) = a * (2 * b)
    OBVIOUS
  <2> QED BY <1>2, <2>1, <2>2, <2>3
<1> HIDE DEF T
<1>3. Nat \subseteq T
  BY <1>1, <1>2, Induction, Zenon
<1> QED BY <1>3 DEF T

-----------------------------------------------------------------------------
(* Quotients and remainders. *)

LEMMA DivideTwice ==
    ASSUME NEW v \in Nat, NEW b \in Nat \ {0}, NEW c \in Nat \ {0}
    PROVE  /\ (v \div b) \div c = v \div (b * c)
           /\ v % (b * c) = (v % b) + ((v \div b) % c) * b
<1>1. (v \div b) \div c = v \div (b * c)
  OBVIOUS
<1> DEFINE x == v \div b
           y == x \div c
<1>2. v = b * x + (v % b) /\ v % b \in 0 .. b - 1 /\ x \in Nat
  OBVIOUS
<1>3. x = c * y + (x % c) /\ x % c \in 0 .. c - 1 /\ y \in Nat
  BY <1>2
<1>4. (b * c) \in Nat \ {0} /\ v = (b * c) * (v \div (b * c)) + (v % (b * c))
  <2>1. \A d \in Nat \ {0} : v = d * (v \div d) + (v % d)
    OBVIOUS
  <2>2. (b * c) \in Nat \ {0}
    OBVIOUS
  <2> QED BY <2>1, <2>2, Zenon
<1>5. v % (b * c) = v - (b * c) * y
  BY <1>1, <1>2, <1>4
<1>6. b * x = (b * c) * y + (x % c) * b
  <2> HIDE DEF x, y
  <2>1. \A p, q \in Nat : x = c * p + q => b * x = (b * c) * p + q * b
    BY <1>2
  <2> QED BY <1>3, <2>1
<1> QED BY <1>1, <1>2, <1>3, <1>5, <1>6

LEMMA BaseIsPower == Base \in Nat /\ Base >= 2 /\ Byte = 0 .. 2 * Base - 1
<1>1. GroupBits \in Nat /\ GroupBits >= 1
  BY GroupBitsAssumption
<1> QED BY <1>1, PowerIsPositive DEF Base, Byte

\* The place of the n-th group, counted from 0, and of the next.
LEMMA Places ==
    ASSUME NEW n \in Nat
    PROVE  /\ GroupBits * n \in Nat
           /\ Power[GroupBits * n] \in Nat \ {0}
           /\ Power[GroupBits * (n + 1)] = Power[GroupBits * n] * Base
<1>1. GroupBits \in Nat /\ GroupBits * n \in Nat /\ GroupBits * (n + 1) = GroupBits * n + GroupBits
  BY GroupBitsAssumption
<1>2. /\ Power[GroupBits * n] \in Nat \ {0}
      /\ Power[GroupBits * n + GroupBits] = Power[GroupBits * n] * Power[GroupBits]
  <2> DEFINE m == GroupBits * n
  <2>1. m \in Nat /\ GroupBits \in Nat
    BY <1>1
  <2> HIDE DEF m
  <2>2. Power[m] \in Nat /\ Power[m] > m
    BY <2>1, PowerIsPositive
  <2>3. Power[m + GroupBits] = Power[m] * Power[GroupBits]
    BY <2>1, PowerOfSum, Zenon
  <2> QED BY <2>1, <2>2, <2>3 DEF m
<1>3. Power[GroupBits * (n + 1)] = Power[GroupBits * n] * Power[GroupBits]
  BY <1>1, <1>2, Zenon
<1> QED BY <1>1, <1>2, <1>3, Zenon DEF Base

\* After one more byte, a group less is left.
LEMMA LeftShrinks ==
    ASSUME NEW v \in Nat, NEW n \in Nat
    PROVE  /\ Left(v, 0) = v
           /\ Left(v, n) \in Nat
           /\ Left(v, n + 1) = Left(v, n) \div Base
           /\ v % Power[GroupBits * (n + 1)] =
                 (v % Power[GroupBits * n]) + (Left(v, n) % Base) * Power[GroupBits * n]
<1>1. Left(v, 0) = v
  <2>1. GroupBits * 0 = 0
    BY GroupBitsAssumption
  <2>2. Left(v, 0) = v \div 1
    BY <2>1, PowerDoubles DEF Left
  <2> QED BY <2>2
<1> DEFINE b == Power[GroupBits * n]
<1>2. b \in Nat \ {0} /\ Base \in Nat \ {0} /\ Power[GroupBits * (n + 1)] = b * Base
  <2>1. Base \in Nat \ {0}
    BY BaseIsPower
  <2> QED BY <2>1, Places, Zenon
<1>3. Left(v, n) = v \div b /\ Left(v, n + 1) = v \div (b * Base)
  BY <1>2 DEF Left
<1> HIDE DEF b
<1>4. Left(v, n) \in Nat
  BY <1>2, <1>3
<1>5. Left(v, n + 1) = Left(v, n) \div Base
  <2>1. (v \div b) \div Base = v \div (b * Base)
    BY <1>2, DivideTwice, Zenon
  <2> QED BY <1>3, <2>1
<1>6. v % (b * Base) = (v % b) + ((v \div b) % Base) * b
  BY <1>2, DivideTwice, Zenon
<1> QED BY <1>1, <1>2, <1>3, <1>4, <1>5, <1>6 DEF b

-----------------------------------------------------------------------------
(* Encoding. *)

\* An encoding has a last byte, and nothing is left after it.
LEMMA SizeIs ==
    ASSUME NEW v \in Nat
    PROVE  /\ Size(v) \in Nat /\ Size(v) >= 1
           /\ Left(v, Size(v)) = 0
           /\ \A k \in 1 .. Size(v) - 1 : Left(v, k) # 0
<1> DEFINE T == {n \in 1 .. v + 1 : Left(v, n) = 0}
<1>1. v + 1 \in T
  <2>1. GroupBits * (v + 1) \in Nat /\ GroupBits * (v + 1) >= v + 1
    BY GroupBitsAssumption
  <2>2. Power[GroupBits * (v + 1)] \in Nat /\ Power[GroupBits * (v + 1)] > v
    BY <2>1, PowerIsPositive
  <2>3. \A p \in Nat : p > v => v \div p = 0
    OBVIOUS
  <2> QED BY <2>2, <2>3 DEF Left
<1>2. PICK n \in T : \A m \in T : n <= m
  <2>1. T \in SUBSET Nat /\ T # {}
    BY <1>1
  <2> HIDE DEF T
  <2> QED BY <2>1, Least, Zenon
<1>3. \E k \in 1 .. v + 1 : Left(v, k) = 0 /\ \A j \in 1 .. k - 1 : Left(v, j) # 0
  <2>1. n \in 1 .. v + 1 /\ Left(v, n) = 0
    OBVIOUS
  <2>2. ASSUME NEW j \in 1 .. n - 1, Left(v, j) = 0 PROVE FALSE
    <3>1. j \in T
      BY <2>1, <2>2
    <3> QED BY <1>2, <2>2, <3>1
  <2> QED BY <2>1, <2>2
<1> HIDE DEF T
<1>4. /\ Size(v) \in 1 .. v + 1 /\ Left(v, Size(v)) = 0
      /\ \A j \in 1 .. Size(v) - 1 : Left(v, j) # 0
  <2> DEFINE LastTurn(k) == Left(v, k) = 0 /\ \A j \in 1 .. k - 1 : Left(v, j) # 0
  <2>1. \E k \in 1 .. v + 1 : LastTurn(k)
    BY <1>3
  <2>2. Size(v) = CHOOSE k \in 1 .. v + 1 : LastTurn(k)
    BY DEF Size
  <2> HIDE DEF LastTurn
  <2>3. Size(v) \in 1 .. v + 1 /\ LastTurn(Size(v))
    BY <2>1, <2>2, Zenon
  <2> QED BY <2>3 DEF LastTurn
<1> QED BY <1>4

\* Within the limit, an integer has no more than Limit + 1 bytes.
LEMMA FitsIsShort ==
    ASSUME NEW v \in Nat, Fits(v)
    PROVE  Left(v, Limit + 1) = 0 /\ Size(v) <= Limit + 1
<1>1. Power[GroupBits * (Limit + 1)] \in Nat \ {0}
  BY Places, LimitAssumption
<1>2. Left(v, Limit + 1) = 0
  BY <1>1 DEF Fits, Left
<1> QED BY <1>2, SizeIs, LimitAssumption

\* The byte of a group: the last one is told by its continuation bit.
LEMMA EncodeByteIs ==
    ASSUME NEW v \in Nat, Fits(v), NEW n \in Nat, n < Size(v)
    PROVE  /\ n <= Limit
           /\ EncodeByte(Left(v, n), n) \in Byte
           /\ EncodeByte(Left(v, n), n) < Base <=> n + 1 = Size(v)
           /\ EncodeByte(Left(v, n), n) % Base = Left(v, n) % Base
           /\ n >= Limit => n + 1 = Size(v)
                            /\ EncodeByte(Left(v, n), n) = Left(v, n) % Base
<1> DEFINE x == Left(v, n)
           byte == EncodeByte(x, n)
<1>1. Limit \in Nat /\ Size(v) \in Nat /\ Size(v) <= Limit + 1
  BY FitsIsShort, SizeIs, LimitAssumption
<1>2. n <= Limit /\ (n >= Limit => n + 1 = Size(v) /\ n = Limit)
  BY <1>1
<1>3. x \in Nat /\ Left(v, n + 1) = x \div Base
  BY LeftShrinks
<1>4. Left(v, n + 1) = 0 <=> n + 1 = Size(v)
  <2>1. CASE n + 1 = Size(v)
    BY <2>1, SizeIs
  <2>2. CASE n + 1 # Size(v)
    <3>1. n + 1 \in 1 .. Size(v) - 1
      BY <1>1, <2>2
    <3> QED BY <2>2, <3>1, SizeIs
  <2> QED BY <2>1, <2>2
<1>5. Base \in Nat /\ Base >= 2 /\ Byte = 0 .. 2 * Base - 1
  BY BaseIsPower
<1> HIDE DEF x
<1>6. x \div Base = 0 <=> x < Base
  BY <1>3, <1>5
<1>7. x % Base \in 0 .. Base - 1
  BY <1>3, <1>5
<1>8. byte = (x % Base) + (IF x \div Base # 0 THEN Base ELSE 0)
  <2>1. CASE n >= Limit
    <3>1. x < Base
      BY <1>2, <1>3, <1>4, <1>6, <2>1
    <3>2. x % (2 * Base) = x /\ x % Base = x
      BY <1>3, <1>5, <3>1
    <3>3. byte = (x % Base) + (IF x \div Base # 0 \/ x >= Base THEN Base ELSE 0)
      BY <2>1, <3>2 DEF EncodeByte
    <3> QED BY <1>3, <1>5, <3>1, <3>3
  <2>2. CASE ~ (n >= Limit)
    <3>1. (x % Base) % Base = x % Base
      BY <1>5, <1>7
    <3>2. byte = ((x % Base) % Base)
                 + (IF x \div Base # 0 \/ (x % Base) >= Base THEN Base ELSE 0)
      BY <2>2 DEF EncodeByte
    <3>3. ~ ((x % Base) >= Base)
      BY <1>5, <1>7
    <3> QED BY <3>1, <3>2, <3>3
  <2> QED BY <2>1, <2>2
<1> HIDE DEF byte
<1> DEFINE y == x % Base
<1>9. y \in 0 .. Base - 1
  BY <1>7
<1>10. byte = y + (IF n + 1 = Size(v) THEN 0 ELSE Base)
  BY <1>3, <1>4, <1>8
<1> HIDE DEF y
<1>11. y % Base = y /\ (y + Base) % Base = y /\ y + 0 = y
  BY <1>5, <1>9
<1>12. byte = IF n + 1 = Size(v) THEN y ELSE y + Base
  BY <1>10, <1>11
<1>13. byte \in Byte /\ (byte < Base <=> n + 1 = Size(v))
  BY <1>5, <1>9, <1>12
<1>14. byte % Base = y /\ (n + 1 = Size(v) => byte = y)
  BY <1>11, <1>12, Zenon
<1> QED BY <1>2, <1>13, <1>14 DEF byte, x, y

\* An encoding has the bytes of its groups.
LEMMA EncodeIs ==
    ASSUME NEW v \in Nat, Fits(v)
    PROVE  /\ Encode(v) \in Seq(Byte)
           /\ Len(Encode(v)) = Size(v)
           /\ \A n \in 1 .. Size(v) : Encode(v)[n] = EncodeByte(Left(v, n - 1), n - 1)
<1>1. Size(v) \in Nat /\ Encode(v) = [n \in 1 .. Size(v) |-> EncodeByte(Left(v, n - 1), n - 1)]
  BY SizeIs DEF Encode
<1>2. \A n \in 1 .. Size(v) : EncodeByte(Left(v, n - 1), n - 1) \in Byte
  <2>1. ASSUME NEW n \in 1 .. Size(v) PROVE EncodeByte(Left(v, n - 1), n - 1) \in Byte
    <3>1. n - 1 \in Nat /\ n - 1 < Size(v)
      BY <1>1
    <3> QED BY <3>1, EncodeByteIs, Zenon
  <2> QED BY <2>1
<1> QED BY <1>1, <1>2

-----------------------------------------------------------------------------
(* Decoding. *)

\* The decoder when it has taken n bytes of the encoding of v.
Partial(v, n) == [current |-> v % Power[GroupBits * n], received |-> n]

LEMMA PartialNone ==
    ASSUME NEW v \in Nat
    PROVE  Partial(v, 0) = VarIntDecoder
<1>1. GroupBits * 0 = 0 /\ v % 1 = 0
  BY GroupBitsAssumption
<1> QED BY <1>1, PowerDoubles DEF Partial, VarIntDecoder

\* Each byte adds its group, and the last one ends the integer.
LEMMA GrownIs ==
    ASSUME NEW v \in Nat, Fits(v), NEW n \in Nat, n < Size(v), NEW byte,
           byte = Encode(v)[n + 1]
    PROVE  /\ Grown(Partial(v, n), byte) = Partial(v, n + 1)
           /\ Ends(Partial(v, n), byte) <=> n + 1 = Size(v)
           /\ n + 1 = Size(v) => Partial(v, n + 1).current = v
<1>1. Size(v) \in Nat
  BY SizeIs
<1>2. byte = EncodeByte(Left(v, n), n)
  <2>1. n + 1 \in 1 .. Size(v) /\ (n + 1) - 1 = n
    BY <1>1
  <2> QED BY <2>1, EncodeIs
<1>3. /\ n <= Limit /\ (byte < Base <=> n + 1 = Size(v))
      /\ byte % Base = Left(v, n) % Base
      /\ n >= Limit => n + 1 = Size(v) /\ byte = Left(v, n) % Base
  BY <1>2, EncodeByteIs
<1>4. Partial(v, n).received = n /\ Partial(v, n).current = v % Power[GroupBits * n]
  BY DEF Partial
<1>5. Grown(Partial(v, n), byte) = Partial(v, n + 1)
  <2> DEFINE bits == IF n >= Limit THEN byte ELSE byte % Base
  <2>1. bits = Left(v, n) % Base
    BY <1>3
  <2> HIDE DEF bits
  <2>2. Grown(Partial(v, n), byte) =
           [current |-> (v % Power[GroupBits * n]) + bits * Power[GroupBits * n],
            received |-> n + 1]
    BY <1>4 DEF Grown, bits
  <2>3. v % Power[GroupBits * (n + 1)] =
           (v % Power[GroupBits * n]) + (Left(v, n) % Base) * Power[GroupBits * n]
    BY LeftShrinks
  <2> QED BY <2>1, <2>2, <2>3, Zenon DEF Partial
<1>6. Ends(Partial(v, n), byte) <=> n + 1 = Size(v)
  BY <1>3, <1>4 DEF Ends
<1>7. ASSUME n + 1 = Size(v) PROVE Partial(v, n + 1).current = v
  <2> DEFINE b == Power[GroupBits * (n + 1)]
  <2>1. v \div b = 0
    <3>1. Left(v, n + 1) = 0
      BY <1>7, SizeIs
    <3> QED BY <3>1 DEF Left
  <2>2. b \in Nat \ {0}
    <3>1. n + 1 \in Nat
      OBVIOUS
    <3> QED BY <3>1, Places, Zenon
  <2>3. Partial(v, n + 1).current = v % b
    BY DEF Partial
  <2> HIDE DEF b
  <2>4. v % b = v
    BY <2>1, <2>2
  <2> QED BY <2>3, <2>4
<1> QED BY <1>5, <1>6, <1>7

\* The decoder after each of the first n of these bytes.
Pushes(f, n, decoder, bytes) ==
    f = [i \in 0 .. n |-> IF i = 0 THEN decoder ELSE Grown(f[i - 1], bytes[i])]

LEMMA PushesExists ==
    ASSUME NEW decoder, NEW bytes, NEW n \in Nat
    PROVE  \E f : Pushes(f, n, decoder, bytes)
<1> DEFINE T == {m \in Nat : \E f : Pushes(f, m, decoder, bytes)}
<1>1. 0 \in T
  <2>1. Pushes([i \in 0 .. 0 |-> decoder], 0, decoder, bytes)
    BY DEF Pushes
  <2> QED BY <2>1
<1>2. ASSUME NEW m \in Nat, m \in T PROVE m + 1 \in T
  <2>1. PICK f : Pushes(f, m, decoder, bytes)
    BY <1>2
  <2> DEFINE last == Grown(f[m], bytes[m + 1])
             g == [i \in 0 .. m + 1 |-> IF i = m + 1 THEN last ELSE f[i]]
  <2>2. \A i \in 0 .. m : f[i] = IF i = 0 THEN decoder ELSE Grown(f[i - 1], bytes[i])
    BY <2>1 DEF Pushes
  <2>3. (\A i \in 0 .. m : g[i] = f[i]) /\ g[m + 1] = last
    OBVIOUS
  <2>4. g = [i \in 0 .. m + 1 |-> g[i]]
    OBVIOUS
  <2> HIDE DEF g
  <2>5. \A i \in 0 .. m + 1 : g[i] = IF i = 0 THEN decoder ELSE Grown(g[i - 1], bytes[i])
    <3>1. \A i \in 1 .. m + 1 : g[i - 1] = f[i - 1]
      BY <2>3
    <3> QED BY <2>2, <2>3, <3>1
  <2>6. Pushes(g, m + 1, decoder, bytes)
    BY <2>4, <2>5 DEF Pushes
  <2> QED BY <2>6
<1> HIDE DEF T
<1>3. Nat \subseteq T
  BY <1>1, <1>2, Induction, Zenon
<1> QED BY <1>3 DEF T

\* push_bytes, with the recursion made explicit.
LEMMA PushBytesIs ==
    ASSUME NEW decoder, NEW bytes, Len(bytes) \in Nat
    PROVE  \E f : /\ Pushes(f, Len(bytes), decoder, bytes)
                  /\ LET ends == {n \in 1 .. Len(bytes) : Ends(f[n - 1], bytes[n])}
                         first == CHOOSE n \in ends : \A m \in ends : n <= m
                     IN  PushBytes(decoder, bytes) =
                            IF ends = {}
                            THEN [done |-> FALSE, decoder |-> f[Len(bytes)], value |-> 0,
                                  taken |-> Len(bytes)]
                            ELSE [done |-> TRUE, decoder |-> VarIntDecoder,
                                  value |-> f[first].current, taken |-> first]
<1> DEFINE f == CHOOSE f : Pushes(f, Len(bytes), decoder, bytes)
<1>1. Pushes(f, Len(bytes), decoder, bytes)
  BY PushesExists, Zenon
<1> WITNESS f
<1> QED BY <1>1 DEF PushBytes, Pushes

\* The decoder takes the bytes of an encoding wherever they are cut, and none
\* that follow.
THEOREM PushBytesDecodes ==
    ASSUME NEW v \in Nat, Fits(v), NEW r \in Nat, r < Size(v),
           NEW bytes, Len(bytes) \in Nat,
           \A n \in 1 .. Len(bytes) : n <= Size(v) - r => bytes[n] = Encode(v)[r + n]
    PROVE  PushBytes(Partial(v, r), bytes) =
              IF Len(bytes) < Size(v) - r
              THEN [done |-> FALSE, decoder |-> Partial(v, r + Len(bytes)), value |-> 0,
                    taken |-> Len(bytes)]
              ELSE [done |-> TRUE, decoder |-> VarIntDecoder, value |-> v,
                    taken |-> Size(v) - r]
<1>1. Size(v) \in Nat
  BY SizeIs
<1>2. PICK f :
         /\ Pushes(f, Len(bytes), Partial(v, r), bytes)
         /\ LET ends == {n \in 1 .. Len(bytes) : Ends(f[n - 1], bytes[n])}
                first == CHOOSE n \in ends : \A m \in ends : n <= m
            IN  PushBytes(Partial(v, r), bytes) =
                   IF ends = {}
                   THEN [done |-> FALSE, decoder |-> f[Len(bytes)], value |-> 0,
                         taken |-> Len(bytes)]
                   ELSE [done |-> TRUE, decoder |-> VarIntDecoder,
                         value |-> f[first].current, taken |-> first]
  BY PushBytesIs
<1> DEFINE ends == {n \in 1 .. Len(bytes) : Ends(f[n - 1], bytes[n])}
           first == CHOOSE n \in ends : \A m \in ends : n <= m
           last == Size(v) - r
<1>3. \A i \in 0 .. Len(bytes) :
         f[i] = IF i = 0 THEN Partial(v, r) ELSE Grown(f[i - 1], bytes[i])
  BY <1>2 DEF Pushes
<1>4. \A i \in Nat : i <= Len(bytes) /\ i <= last => f[i] = Partial(v, r + i)
  <2> DEFINE T == {i \in Nat : i <= Len(bytes) /\ i <= last => f[i] = Partial(v, r + i)}
  <2>1. 0 \in T
    BY <1>3
  <2>2. ASSUME NEW i \in Nat, i \in T PROVE i + 1 \in T
    <3>1. CASE i + 1 <= Len(bytes) /\ i + 1 <= last
      <4>1. f[i] = Partial(v, r + i)
        BY <1>1, <2>2, <3>1
      <4>2. i + 1 \in 0 .. Len(bytes) /\ i + 1 # 0 /\ (i + 1) - 1 = i
            /\ i + 1 \in 1 .. Len(bytes)
        BY <3>1
      <4>3. f[i + 1] = Grown(f[i], bytes[i + 1])
        BY <1>3, <4>2
      <4>4. bytes[i + 1] = Encode(v)[r + (i + 1)]
        BY <3>1, <4>2
      <4>5. r + i \in Nat /\ r + i < Size(v) /\ r + (i + 1) = (r + i) + 1
        BY <1>1, <3>1
      <4>6. Grown(Partial(v, r + i), bytes[i + 1]) = Partial(v, (r + i) + 1)
        BY <4>4, <4>5, GrownIs
      <4> QED BY <4>1, <4>3, <4>5, <4>6
    <3> QED BY <3>1
  <2> HIDE DEF T
  <2>3. Nat \subseteq T
    BY <2>1, <2>2, Induction, Zenon
  <2> QED BY <2>3 DEF T
<1>5. ASSUME NEW n \in 1 .. Len(bytes), n <= last
      PROVE  Ends(f[n - 1], bytes[n]) <=> n = last
  <2>1. n - 1 \in Nat /\ n - 1 <= Len(bytes) /\ n - 1 <= last
    BY <1>1, <1>5
  <2>2. f[n - 1] = Partial(v, r + (n - 1))
    BY <1>4, <2>1
  <2>3. r + (n - 1) \in Nat /\ r + (n - 1) < Size(v) /\ (r + (n - 1)) + 1 = r + n
    BY <1>1, <1>5
  <2>4. bytes[n] = Encode(v)[r + n]
    BY <1>5
  <2>5. Ends(Partial(v, r + (n - 1)), bytes[n]) <=> (r + (n - 1)) + 1 = Size(v)
    BY <2>3, <2>4, GrownIs
  <2> QED BY <1>1, <2>2, <2>3, <2>5
<1>6. PushBytes(Partial(v, r), bytes) =
         IF ends = {}
         THEN [done |-> FALSE, decoder |-> f[Len(bytes)], value |-> 0, taken |-> Len(bytes)]
         ELSE [done |-> TRUE, decoder |-> VarIntDecoder, value |-> f[first].current,
               taken |-> first]
  BY <1>2
<1>7. CASE Len(bytes) < last
  <2>1. ends = {}
    BY <1>1, <1>5, <1>7
  <2>2. f[Len(bytes)] = Partial(v, r + Len(bytes))
    BY <1>1, <1>4, <1>7
  <2> QED BY <1>6, <1>7, <2>1, <2>2
<1>8. CASE ~ (Len(bytes) < last)
  <2>1. last \in 1 .. Len(bytes) /\ last \in Nat /\ r + last = Size(v)
    BY <1>1, <1>8
  <2>2. last \in ends /\ \A m \in ends : last <= m
    <3>1. Ends(f[last - 1], bytes[last])
      BY <1>5, <2>1
    <3>2. ASSUME NEW m \in ends PROVE last <= m
      <4>1. m \in 1 .. Len(bytes) /\ Ends(f[m - 1], bytes[m])
        OBVIOUS
      <4>2. m <= last => m = last
        BY <1>5, <4>1
      <4> QED BY <2>1, <4>1, <4>2
    <3> QED BY <2>1, <3>1, <3>2
  <2>3. first = last
    <3>1. ends \subseteq Nat
      BY <2>1
    <3>2. \A n \in ends : (\A m \in ends : n <= m) => n = last
      <4> HIDE DEF ends, last
      <4> QED BY <2>1, <2>2, <3>1
    <3> HIDE DEF ends, last
    <3> QED BY <2>2, <3>2
  <2>4. f[last] = Partial(v, Size(v))
    BY <1>4, <2>1
  <2>5. Partial(v, Size(v)).current = v
    <3>1. Size(v) - 1 \in Nat /\ Size(v) - 1 < Size(v) /\ (Size(v) - 1) + 1 = Size(v)
      BY <1>1
    <3> QED BY <3>1, GrownIs
  <2> HIDE DEF first, ends
  <2> QED BY <1>6, <1>8, <2>2, <2>3, <2>4, <2>5
<1> QED BY <1>7, <1>8

-----------------------------------------------------------------------------
(* Sequences. *)

LEMMA AppendIs ==
    ASSUME NEW V, NEW s \in Seq(V), NEW n, n = Len(s), NEW e \in V
    PROVE  Append(s, e) = [i \in 1 .. n + 1 |-> IF i = n + 1 THEN e ELSE s[i]]
<1> DEFINE f == [i \in 1 .. n + 1 |-> IF i = n + 1 THEN e ELSE s[i]]
           t == Append(s, e)
<1>1. n \in Nat /\ \A i \in 1 .. n : s[i] \in V
  OBVIOUS
<1>2. f \in Seq(V) /\ Len(f) = n + 1
  BY <1>1
<1>3. /\ t \in Seq(V) /\ Len(t) = n + 1 /\ t[n + 1] = e
      /\ \A i \in 1 .. n : t[i] = s[i]
  BY AppendProperties
<1>4. f[n + 1] = e /\ \A i \in 1 .. n : f[i] = s[i]
  BY <1>1
<1> HIDE DEF f, t
<1>5. \A i \in 1 .. n + 1 : t[i] = f[i]
  BY <1>1, <1>3, <1>4
<1>6. t = f
  BY <1>2, <1>3, <1>5, SeqEqual
<1> QED BY <1>6 DEF f, t

LEMMA SubSeqOfConcat ==
    ASSUME NEW V, NEW a \in Seq(V), NEW b \in Seq(V), NEW i \in Nat, i <= Len(a)
    PROVE  /\ SubSeq(a, i + 1, Len(a)) \in Seq(V)
           /\ SubSeq(a \o b, i + 1, Len(a \o b)) = SubSeq(a, i + 1, Len(a)) \o b
<1>1. Len(a) \in Nat /\ Len(b) \in Nat /\ a \o b \in Seq(V) /\ Len(a \o b) = Len(a) + Len(b)
  OBVIOUS
<1> DEFINE s == SubSeq(a, i + 1, Len(a))
           t == SubSeq(a \o b, i + 1, Len(a \o b))
<1>2. /\ s \in Seq(V) /\ Len(s) = Len(a) - i
      /\ \A j \in 1 .. Len(a) - i : s[j] = a[i + j]
  BY <1>1
<1>3. /\ t \in Seq(V) /\ Len(t) = Len(a) + Len(b) - i
      /\ \A j \in 1 .. Len(a) + Len(b) - i : t[j] = (a \o b)[i + j]
  BY <1>1
<1> HIDE DEF s, t
<1>4. s \o b \in Seq(V) /\ Len(s \o b) = Len(a) + Len(b) - i
  <2>1. s \o b \in Seq(V) /\ Len(s \o b) = Len(s) + Len(b)
    BY <1>2, ConcatProperties, Zenon
  <2> QED BY <1>1, <1>2, <2>1
<1>5. ASSUME NEW j \in 1 .. Len(a) + Len(b) - i
      PROVE  t[j] = (s \o b)[j]
  <2>1. t[j] = (a \o b)[i + j] /\ i + j \in 1 .. Len(a) + Len(b)
    BY <1>1, <1>3
  <2>2. CASE j <= Len(a) - i
    <3>1. j \in 1 .. Len(s) /\ s[j] = a[i + j] /\ i + j \in 1 .. Len(a)
      BY <1>1, <1>2, <2>2
    <3>2. (s \o b)[j] = s[j]
      BY <1>2, <3>1
    <3>3. (a \o b)[i + j] = a[i + j]
      BY <3>1
    <3> QED BY <2>1, <3>1, <3>2, <3>3
  <2>3. CASE j > Len(a) - i
    <3> DEFINE m == j - (Len(a) - i)
    <3>1. m \in 1 .. Len(b) /\ j = Len(s) + m /\ i + j = Len(a) + m
      BY <1>1, <1>2, <2>3
    <3> HIDE DEF m
    <3>2. (s \o b)[Len(s) + m] = b[m]
      BY <1>1, <1>2, <3>1
    <3>3. (a \o b)[Len(a) + m] = b[m]
      <4>1. Len(a) + m \in 1 .. Len(a) + Len(b) /\ ~ (Len(a) + m <= Len(a))
            /\ (Len(a) + m) - Len(a) = m
        BY <1>1, <3>1
      <4> QED BY <4>1, ConcatProperties
    <3> QED BY <2>1, <3>1, <3>2, <3>3
  <2>4. j \in Int /\ Len(a) - i \in Int
    BY <1>1
  <2>5. j <= Len(a) - i \/ j > Len(a) - i
    BY <2>4
  <2> QED BY <2>2, <2>3, <2>5
<1>6. t = s \o b
  BY <1>3, <1>4, <1>5, SeqEqual
<1> QED BY <1>2, <1>6 DEF s, t

\* A sequence is its first n elements and the others.
LEMMA CutIs ==
    ASSUME NEW V, NEW s \in Seq(V), NEW n \in Nat, n <= Len(s)
    PROVE  /\ SubSeq(s, 1, n) \in Seq(V) /\ Len(SubSeq(s, 1, n)) = n
           /\ SubSeq(s, n + 1, Len(s)) \in Seq(V)
           /\ Len(SubSeq(s, n + 1, Len(s))) = Len(s) - n
           /\ s = SubSeq(s, 1, n) \o SubSeq(s, n + 1, Len(s))
<1>1. Len(s) \in Nat /\ \A i \in 1 .. Len(s) : s[i] \in V
  OBVIOUS
<1>2. SubSeq(s, 1, n) \in Seq(V) /\ Len(SubSeq(s, 1, n)) = n
  BY <1>1, SubSeqProperties
<1>3. /\ SubSeq(s, n + 1, Len(s)) \in Seq(V)
      /\ Len(SubSeq(s, n + 1, Len(s))) = Len(s) - n
  BY <1>1, SubSeqProperties
<1>4. SubSeq(s, 1, n) \o SubSeq(s, n + 1, Len(s)) = SubSeq(s, 1, Len(s))
  <2>1. 1 \in 1 .. Len(s) + 1 /\ n \in 1 - 1 .. Len(s) /\ Len(s) \in n .. Len(s)
    BY <1>1
  <2> QED BY <2>1, ConcatAdjacentSubSeq, Zenon
<1>5. SubSeq(s, 1, Len(s)) = s
  BY SubSeqFull, Zenon
<1> QED BY <1>2, <1>3, <1>4, <1>5

\* Concatenation by a name, which the provers do not take apart: what they see
\* of it are the lemmas below.
Cat(a, b) == a \o b

LEMMA CatAssociates ==
    ASSUME NEW V, NEW a \in Seq(V), NEW b \in Seq(V), NEW c \in Seq(V)
    PROVE  Cat(Cat(a, b), c) = Cat(a, Cat(b, c)) /\ Cat(a, b) \in Seq(V)
  BY DEF Cat

LEMMA Regrouped ==
    ASSUME NEW V, NEW a \in Seq(V), NEW b \in Seq(V), NEW c \in Seq(V), NEW d \in Seq(V)
    PROVE  /\ Cat(Cat(a, b), Cat(c, d)) = Cat(a, Cat(Cat(b, c), d))
           /\ Cat(Cat(a, b), Cat(c, d)) = Cat(Cat(a, Cat(b, c)), d)
  BY CatAssociates

-----------------------------------------------------------------------------
(* Codes one after the other, of which the first bytes have been taken.     *)

\* The bytes are what is left of the codes: the i-th begins behind at[i] of them,
\* or began that many bytes ago.
Lies(V, at, bytes, codes) ==
    /\ bytes \in Seq(V) /\ codes \in Seq(Seq(V))
    /\ at \in [1 .. Len(codes) + 1 -> Int]
    /\ at[Len(codes) + 1] = Len(bytes)
    /\ \A i \in 1 .. Len(codes) :
          at[i + 1] = at[i] + Len(codes[i]) /\ at[i + 1] <= Len(bytes)
    /\ \A i \in 1 .. Len(codes) : \A n \in 1 .. Len(codes[i]) :
          at[i] + n >= 1 => bytes[at[i] + n] = codes[i][n]

LEMMA LiesNone ==
    ASSUME NEW V, NEW at, at = [i \in 1 .. 1 |-> 0]
    PROVE  Lies(V, at, <<>>, <<>>)
<1>1. <<>> \in Seq(V) /\ <<>> \in Seq(Seq(V)) /\ Len(<<>>) = 0
  BY EmptySeq
<1> QED BY <1>1 DEF Lies

\* Another code is written.
LEMMA LiesMore ==
    ASSUME NEW V, NEW bytes, NEW codes, NEW at, Lies(V, at, bytes, codes),
           NEW code, code \in Seq(V)
    PROVE  Lies(V, [i \in 1 .. Len(codes) + 2 |->
                      IF i = Len(codes) + 2 THEN Len(bytes) + Len(code) ELSE at[i]],
                bytes \o code, Append(codes, code))
<1> DEFINE k == Len(codes)
           b == Len(bytes)
           c == Len(code)
           more == Append(codes, code)
           long == bytes \o code
           later == [i \in 1 .. k + 2 |-> IF i = k + 2 THEN b + c ELSE at[i]]
<1>1. /\ k \in Nat /\ Len(more) = k + 1 /\ more[k + 1] = code
      /\ \A i \in 1 .. k : more[i] = codes[i]
  BY AppendProperties DEF Lies
<1>2. \A i \in 1 .. k : Len(codes[i]) \in Nat
  BY DEF Lies
<1>3. more \in Seq(Seq(V)) /\ long \in Seq(V)
  BY AppendProperties, ConcatProperties DEF Lies
<1>4. b \in Nat /\ c \in Nat /\ Len(long) = b + c
  BY DEF Lies
<1>5. /\ \A j \in 1 .. b : long[j] = bytes[j]
      /\ \A j \in 1 .. c : long[b + j] = code[j]
  BY DEF Lies
<1>6. /\ at[k + 1] = b /\ \A i \in 1 .. k + 1 : at[i] \in Int
      /\ \A i \in 1 .. k : at[i + 1] = at[i] + Len(codes[i]) /\ at[i + 1] <= b
  BY DEF Lies
<1>7. \A i \in 1 .. k : \A n \in 1 .. Len(codes[i]) :
            at[i] + n >= 1 => bytes[at[i] + n] = codes[i][n]
  BY DEF Lies
<1> HIDE DEF k, b, c, more, long
<1>8. /\ later[k + 2] = b + c
      /\ \A i \in 1 .. k + 1 : later[i] = at[i]
      /\ \A i \in 1 .. k + 2 : later[i] \in Int
  BY <1>1, <1>4, <1>6
<1>9. later \in [1 .. k + 2 -> Int]
  BY <1>8
<1> HIDE DEF later
<1>10. ASSUME NEW i \in 1 .. k + 1
      PROVE  later[i + 1] = later[i] + Len(more[i]) /\ later[i + 1] <= b + c
  <2>1. CASE i = k + 1
    <3>1. later[i] = b /\ later[i + 1] = b + c /\ Len(more[i]) = c
      BY <1>1, <1>6, <1>8, <2>1 DEF c
    <3> QED BY <1>4, <3>1
  <2>2. CASE i # k + 1
    <3>1. i \in 1 .. k /\ i + 1 \in 1 .. k + 1
      BY <1>1, <2>2
    <3>2. later[i] = at[i] /\ later[i + 1] = at[i + 1] /\ more[i] = codes[i]
          /\ at[i + 1] \in Int
      BY <1>1, <1>6, <1>8, <3>1
    <3> QED BY <1>4, <1>6, <3>1, <3>2
  <2> QED BY <2>1, <2>2
<1>11. ASSUME NEW i \in 1 .. k + 1, NEW n \in 1 .. Len(more[i]), later[i] + n >= 1
      PROVE  long[later[i] + n] = more[i][n]
  <2>1. CASE i = k + 1
    <3>1. later[i] = b /\ more[i] = code /\ n \in 1 .. c
      BY <1>1, <1>6, <1>8, <2>1 DEF c
    <3> QED BY <1>5, <3>1
  <2>2. CASE i # k + 1
    <3>1. i \in 1 .. k
      BY <1>1, <2>2
    <3>2. more[i] = codes[i] /\ later[i] = at[i] /\ at[i] \in Int
          /\ Len(codes[i]) \in Nat /\ at[i] + Len(codes[i]) <= b
      BY <1>1, <1>2, <1>6, <1>8, <3>1
    <3>3. n \in 1 .. Len(codes[i]) /\ at[i] + n \in 1 .. b
      BY <1>4, <1>11, <3>2
    <3>4. bytes[at[i] + n] = codes[i][n]
      BY <1>7, <3>1, <3>3
    <3> QED BY <1>5, <3>2, <3>3, <3>4
  <2> QED BY <2>1, <2>2
<1>12. Lies(V, later, long, more)
  <2>1. Len(more) = k + 1 /\ Len(long) = b + c /\ later[Len(more) + 1] = Len(long)
        /\ later \in [1 .. Len(more) + 1 -> Int]
    BY <1>1, <1>4, <1>8, <1>9
  <2>2. \A i \in 1 .. Len(more) :
           later[i + 1] = later[i] + Len(more[i]) /\ later[i + 1] <= Len(long)
    BY <1>10, <2>1
  <2>3. \A i \in 1 .. Len(more) : \A n \in 1 .. Len(more[i]) :
            later[i] + n >= 1 => long[later[i] + n] = more[i][n]
    BY <1>11, <2>1
  <2> QED BY <1>3, <2>1, <2>2, <2>3, Zenon DEF Lies
<1> QED BY <1>12 DEF k, b, c, more, long, later

\* Some bytes are taken from the front.
LEMMA LiesLess ==
    ASSUME NEW V, NEW bytes, NEW codes, NEW at, Lies(V, at, bytes, codes),
           NEW t, t \in Nat, t <= Len(bytes)
    PROVE  Lies(V, [i \in 1 .. Len(codes) + 1 |-> at[i] - t],
                SubSeq(bytes, t + 1, Len(bytes)), codes)
<1> DEFINE k == Len(codes)
           b == Len(bytes)
           rest == SubSeq(bytes, t + 1, Len(bytes))
           now == [i \in 1 .. k + 1 |-> at[i] - t]
<1>1. k \in Nat /\ \A i \in 1 .. k : Len(codes[i]) \in Nat
  BY DEF Lies
<1>2. b \in Nat /\ Len(rest) = b - t
  BY DEF Lies
<1>3. rest \in Seq(V) /\ codes \in Seq(Seq(V))
  BY DEF Lies
<1>4. \A j \in 1 .. b - t : rest[j] = bytes[j + t]
  BY DEF Lies
<1>5. /\ at[k + 1] = b /\ \A i \in 1 .. k + 1 : at[i] \in Int
      /\ \A i \in 1 .. k : at[i + 1] = at[i] + Len(codes[i]) /\ at[i + 1] <= b
  BY DEF Lies
<1>6. \A i \in 1 .. k : \A n \in 1 .. Len(codes[i]) :
            at[i] + n >= 1 => bytes[at[i] + n] = codes[i][n]
  BY DEF Lies
<1>7. t <= b
  OBVIOUS
<1> HIDE DEF k, b, rest
<1>8. \A i \in 1 .. k + 1 : now[i] = at[i] - t /\ now[i] \in Int
  BY <1>5
<1>9. now \in [1 .. k + 1 -> Int]
  BY <1>8
<1> HIDE DEF now
<1>10. ASSUME NEW i \in 1 .. k
       PROVE  now[i + 1] = now[i] + Len(codes[i]) /\ now[i + 1] <= b - t
  <2>1. i \in 1 .. k + 1 /\ i + 1 \in 1 .. k + 1
    BY <1>1
  <2>2. /\ now[i] = at[i] - t /\ now[i + 1] = at[i + 1] - t
        /\ at[i] \in Int /\ at[i + 1] \in Int
    BY <1>5, <1>8, <2>1
  <2>3. at[i + 1] = at[i] + Len(codes[i]) /\ at[i + 1] <= b /\ Len(codes[i]) \in Nat
    BY <1>1, <1>5
  <2> QED BY <1>2, <2>2, <2>3
<1>11. ASSUME NEW i \in 1 .. k, NEW n \in 1 .. Len(codes[i]), now[i] + n >= 1
       PROVE  rest[now[i] + n] = codes[i][n]
  <2>1. i \in 1 .. k + 1
    BY <1>1
  <2>2. now[i] = at[i] - t /\ at[i] \in Int /\ Len(codes[i]) \in Nat
        /\ at[i] + Len(codes[i]) <= b
    BY <1>1, <1>5, <1>8, <2>1
  <2>3. at[i] + n >= 1 /\ at[i] + n = (now[i] + n) + t /\ now[i] + n \in 1 .. b - t
    BY <1>2, <1>11, <2>2
  <2>4. bytes[at[i] + n] = codes[i][n]
    BY <1>6, <2>3
  <2>5. rest[now[i] + n] = bytes[(now[i] + n) + t]
    BY <1>4, <2>3
  <2> QED BY <2>3, <2>4, <2>5
<1>12. Lies(V, now, rest, codes)
  <2>1. now[k + 1] = Len(rest)
    <3>1. k + 1 \in 1 .. k + 1
      BY <1>1
    <3> QED BY <1>2, <1>5, <1>8, <3>1
  <2>2. \A i \in 1 .. k : now[i + 1] = now[i] + Len(codes[i]) /\ now[i + 1] <= Len(rest)
    BY <1>2, <1>10
  <2>3. \A i \in 1 .. k : \A n \in 1 .. Len(codes[i]) :
            now[i] + n >= 1 => rest[now[i] + n] = codes[i][n]
    BY <1>11
  <2> QED BY <1>3, <1>9, <2>1, <2>2, <2>3, Zenon DEF Lies, k
<1> QED BY <1>12 DEF k, b, rest, now

===============================================================================
