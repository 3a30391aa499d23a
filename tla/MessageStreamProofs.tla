------------------------- MODULE MessageStreamProofs -------------------------
(***************************************************************************)
(* Proofs about MessageStream, for every set of messages that the limit    *)
(* of VarInt fits, every window and every number of messages.              *)
(***************************************************************************)
EXTENDS MessageStream, VarIntProofs

-----------------------------------------------------------------------------
(* FlattenSeq: the bytes of pieces, one after the other. *)

\* What the recursion has of the first n pieces.
Joins(f, n, pieces) ==
    f = [i \in 1 .. n |-> IF i = 1 THEN pieces[i] ELSE f[i - 1] \o pieces[i]]

LEMMA JoinsExists ==
    ASSUME NEW pieces, NEW n \in Nat
    PROVE  \E f : Joins(f, n, pieces)
<1> DEFINE T == {m \in Nat : \E f : Joins(f, m, pieces)}
<1>1. 0 \in T
  <2>1. Joins([i \in 1 .. 0 |-> 0], 0, pieces)
    BY DEF Joins
  <2> QED BY <2>1
<1>2. ASSUME NEW m \in Nat, m \in T PROVE m + 1 \in T
  <2>1. PICK f : Joins(f, m, pieces)
    BY <1>2
  <2>e. PICK end : end = IF m = 0 THEN pieces[1] ELSE f[m] \o pieces[m + 1]
    OBVIOUS
  <2> DEFINE g == [i \in 1 .. m + 1 |-> IF i = m + 1 THEN end ELSE f[i]]
  <2>2. \A i \in 1 .. m : f[i] = IF i = 1 THEN pieces[i] ELSE f[i - 1] \o pieces[i]
    BY <2>1 DEF Joins
  <2>3. (\A i \in 1 .. m : g[i] = f[i]) /\ g[m + 1] = end
    OBVIOUS
  <2>4. g = [i \in 1 .. m + 1 |-> g[i]]
    OBVIOUS
  <2> HIDE DEF g
  <2>5. \A i \in 1 .. m + 1 : g[i] = IF i = 1 THEN pieces[i] ELSE g[i - 1] \o pieces[i]
    <3>1. \A i \in 2 .. m + 1 : g[i - 1] = f[i - 1]
      BY <2>3
    <3>2. \A i \in 1 .. m : g[i] = IF i = 1 THEN pieces[i] ELSE g[i - 1] \o pieces[i]
      BY <2>2, <2>3, <3>1
    <3>3. g[m + 1] = IF m + 1 = 1 THEN pieces[m + 1] ELSE g[(m + 1) - 1] \o pieces[m + 1]
      <4>1. CASE m = 0
        BY <2>e, <2>3, <4>1
      <4>2. CASE m # 0
        <5>1. g[(m + 1) - 1] = f[m] /\ m + 1 # 1
          BY <2>3, <4>2
        <5> QED BY <2>e, <2>3, <4>2, <5>1
      <4> QED BY <4>1, <4>2
    <3> QED BY <3>2, <3>3
  <2>6. Joins(g, m + 1, pieces)
    BY <2>4, <2>5 DEF Joins
  <2> QED BY <2>6
<1> HIDE DEF T
<1>3. Nat \subseteq T
  BY <1>1, <1>2, Induction, Zenon
<1> QED BY <1>3 DEF T

LEMMA JoinsUnique ==
    ASSUME NEW p, NEW q, NEW f, NEW g, NEW n \in Nat, NEW m \in Nat,
           Joins(f, n, p), Joins(g, m, q),
           NEW k \in Nat, k >= 1, k <= n, k <= m, \A i \in 1 .. k : p[i] = q[i]
    PROVE  f[k] = g[k]
<1> DEFINE T == {j \in Nat : j \in 1 .. k => f[j] = g[j]}
<1>1. /\ \A i \in 1 .. n : f[i] = IF i = 1 THEN p[i] ELSE f[i - 1] \o p[i]
      /\ \A i \in 1 .. m : g[i] = IF i = 1 THEN q[i] ELSE g[i - 1] \o q[i]
  BY DEF Joins
<1>2. 0 \in T
  OBVIOUS
<1>3. ASSUME NEW j \in Nat, j \in T PROVE j + 1 \in T
  <2>1. CASE j + 1 <= k
    <3>1. /\ j + 1 \in 1 .. k /\ j + 1 \in 1 .. n /\ j + 1 \in 1 .. m
          /\ (j + 1) - 1 = j /\ (j # 0 => j + 1 # 1 /\ f[j] = g[j])
      BY <1>3, <2>1
    <3>2. p[j + 1] = q[j + 1]
      BY <3>1
    <3>3. /\ f[j + 1] = IF j = 0 THEN p[j + 1] ELSE f[j] \o p[j + 1]
          /\ g[j + 1] = IF j = 0 THEN q[j + 1] ELSE g[j] \o q[j + 1]
      BY <1>1, <3>1
    <3>4. f[j + 1] = g[j + 1]
      BY <3>1, <3>2, <3>3
    <3> QED BY <3>4
  <2>2. CASE ~ (j + 1 <= k)
    BY <2>2
  <2> QED BY <2>1, <2>2
<1> HIDE DEF T
<1>4. Nat \subseteq T
  BY <1>2, <1>3, Induction, Zenon
<1> QED BY <1>4 DEF T

LEMMA FlattenIs ==
    ASSUME NEW pieces, NEW f, Joins(f, Len(pieces), pieces), Len(pieces) \in Nat \ {0}
    PROVE  FlattenSeq(pieces) = f[Len(pieces)]
<1> DEFINE g == CHOOSE g : Joins(g, Len(pieces), pieces)
<1>1. Joins(g, Len(pieces), pieces)
  BY Zenon
<1>2. FlattenSeq(pieces) = g[Len(pieces)]
  BY DEF FlattenSeq, Joins
<1> HIDE DEF g
<1>3. g[Len(pieces)] = f[Len(pieces)]
  BY <1>1, JoinsUnique
<1> QED BY <1>2, <1>3

LEMMA FlattenOfEmpty == FlattenSeq(<<>>) = <<>>
  BY DEF FlattenSeq

LEMMA FlattenOfOne ==
    ASSUME NEW V, NEW e \in Seq(V)
    PROVE  FlattenSeq(<<e>>) = e
<1>1. PICK p : p = <<e>>
  OBVIOUS
<1>2. Len(p) = 1 /\ p[1] = e /\ 1 \in Nat \ {0}
  BY <1>1
<1>3. PICK f : Joins(f, 1, p)
  BY JoinsExists
<1>4. f[1] = e
  BY <1>2, <1>3 DEF Joins
<1>5. FlattenSeq(p) = f[1]
  BY <1>2, <1>3, FlattenIs
<1> QED BY <1>1, <1>4, <1>5

LEMMA FlattenOfAppend ==
    ASSUME NEW V, NEW s \in Seq(Seq(V)), NEW e \in Seq(V)
    PROVE  FlattenSeq(Append(s, e)) = FlattenSeq(s) \o e
<1>1. CASE s = <<>>
  <2>1. Append(s, e) = <<e>> /\ <<>> \o e = e
    BY <1>1
  <2> QED BY <1>1, <2>1, FlattenOfEmpty, FlattenOfOne
<1>2. CASE s # <<>>
  <2> DEFINE longer == Append(s, e)
             n == Len(s)
  <2>1. /\ n \in Nat /\ n # 0 /\ Len(longer) = n + 1
        /\ \A i \in 1 .. n : longer[i] = s[i]
        /\ longer[n + 1] = e
    BY <1>2, AppendProperties, EmptySeq
  <2> HIDE DEF longer, n
  <2>2. PICK f : Joins(f, n, s)
    BY <2>1, JoinsExists
  <2>3. /\ n + 1 \in Nat /\ n + 1 \in 1 .. n + 1 /\ n + 1 # 1 /\ (n + 1) - 1 = n
        /\ n >= 1 /\ n <= n /\ n <= n + 1 /\ n + 1 \in Nat \ {0} /\ n \in Nat \ {0}
    BY <2>1
  <2>4. PICK g : Joins(g, n + 1, longer)
    BY <2>3, JoinsExists, Zenon
  <2>5. f[n] = g[n]
    BY <2>1, <2>2, <2>3, <2>4, JoinsUnique
  <2>6. g[n + 1] = g[n] \o e
    BY <2>1, <2>3, <2>4 DEF Joins
  <2>7. FlattenSeq(s) = f[n]
    BY <2>2, <2>3, FlattenIs DEF n
  <2>8. FlattenSeq(longer) = g[n + 1]
    BY <2>1, <2>3, <2>4, FlattenIs
  <2> QED BY <2>5, <2>6, <2>7, <2>8 DEF longer
<1> QED BY <1>1, <1>2

LEMMA FlattenType ==
    ASSUME NEW V, NEW s \in Seq(Seq(V))
    PROVE  FlattenSeq(s) \in Seq(V)
<1> DEFINE T == {r \in Seq(Seq(V)) : FlattenSeq(r) \in Seq(V)}
<1>1. <<>> \in T
  <2>1. <<>> \in Seq(Seq(V)) /\ <<>> \in Seq(V)
    BY EmptySeq, Zenon
  <2> QED BY <2>1, FlattenOfEmpty, Zenon
<1>2. ASSUME NEW r \in Seq(Seq(V)), NEW e \in Seq(V), r \in T PROVE Append(r, e) \in T
  <2>1. Append(r, e) \in Seq(Seq(V)) /\ FlattenSeq(Append(r, e)) = FlattenSeq(r) \o e
    BY FlattenOfAppend
  <2>2. FlattenSeq(r) \o e \in Seq(V)
    BY <1>2, ConcatProperties, Zenon
  <2> QED BY <2>1, <2>2
<1> HIDE DEF T
<1>3. Seq(Seq(V)) \subseteq T
  BY <1>1, <1>2, SequenceInduction, Zenon
<1> QED BY <1>3 DEF T

LEMMA FlattenOfFront ==
    ASSUME NEW V, NEW s \in Seq(Seq(V)), NEW e \in Seq(V)
    PROVE  FlattenSeq(<<e>> \o s) = e \o FlattenSeq(s)
<1> DEFINE T == {r \in Seq(Seq(V)) : FlattenSeq(<<e>> \o r) = e \o FlattenSeq(r)}
<1>0. <<e>> \in Seq(Seq(V))
  OBVIOUS
<1>1. <<>> \in T
  <2>1. <<>> \in Seq(Seq(V)) /\ <<e>> \o <<>> = <<e>> /\ e \o <<>> = e
    BY <1>0, EmptySeq, ConcatEmptySeq, Zenon
  <2> QED BY <2>1, FlattenOfEmpty, FlattenOfOne, Zenon
<1>2. ASSUME NEW r \in Seq(Seq(V)), NEW d \in Seq(V), r \in T PROVE Append(r, d) \in T
  <2>1. Append(r, d) \in Seq(Seq(V)) /\ <<e>> \o r \in Seq(Seq(V))
    BY <1>0, ConcatProperties, AppendProperties, Zenon
  <2>2. <<e>> \o Append(r, d) = Append(<<e>> \o r, d)
    OBVIOUS
  <2>3. /\ FlattenSeq(Append(<<e>> \o r, d)) = FlattenSeq(<<e>> \o r) \o d
        /\ FlattenSeq(Append(r, d)) = FlattenSeq(r) \o d
    BY <2>1, FlattenOfAppend, Zenon
  <2>4. FlattenSeq(r) \in Seq(V)
    BY FlattenType, Zenon
  <2> DEFINE all == FlattenSeq(r)
  <2> HIDE DEF all
  <2>5. (e \o all) \o d = e \o (all \o d)
    <3>1. all \in Seq(V)
      BY <2>4 DEF all
    <3> QED BY <3>1, ConcatAssociative
  <2>6. FlattenSeq(<<e>> \o r) = e \o FlattenSeq(r)
    BY <1>2
  <2> QED BY <2>1, <2>2, <2>3, <2>5, <2>6, Zenon DEF all
<1> HIDE DEF T
<1>3. Seq(Seq(V)) \subseteq T
  BY <1>1, <1>2, SequenceInduction, Zenon
<1> QED BY <1>3 DEF T

-----------------------------------------------------------------------------
(* Flush divides the bytes of the queue between the stream and what is left. *)

\* An encoded message, or the rest of one.
Piece == Seq(Byte) \ {<<>>}

FlushState ==
    [wire : Seq(Byte), buffer : Seq(Piece), credit : Nat, returned : {"true", "false", "error"}]

Divided(flush, bytes, credit) ==
    /\ flush \in FlushState
    /\ flush.wire \o FlattenSeq(flush.buffer) = bytes
    /\ Len(flush.wire) + flush.credit = credit

LEMMA PiecesAreBytes == Seq(Piece) \subseteq Seq(Seq(Byte))
<1>1. Piece \subseteq Seq(Byte)
  BY DEF Piece
<1> QED BY <1>1, SeqMonotonic, Zenon

\* A queue that is not empty has a front.
LEMMA FrontIs ==
    ASSUME NEW pieces \in Seq(Piece), pieces # <<>>
    PROVE  /\ Head(pieces) \in Seq(Byte) /\ Head(pieces) # <<>>
           /\ Tail(pieces) \in Seq(Piece)
           /\ FlattenSeq(Tail(pieces)) \in Seq(Byte)
           /\ FlattenSeq(pieces) = Head(pieces) \o FlattenSeq(Tail(pieces))
<1>1. /\ Head(pieces) \in Piece /\ Tail(pieces) \in Seq(Piece)
      /\ pieces = <<Head(pieces)>> \o Tail(pieces)
  OBVIOUS
<1>2. Head(pieces) \in Seq(Byte) /\ Head(pieces) # <<>> /\ Tail(pieces) \in Seq(Seq(Byte))
  BY <1>1, PiecesAreBytes DEF Piece
<1>3. FlattenSeq(Tail(pieces)) \in Seq(Byte)
  BY <1>2, FlattenType, Zenon
<1> DEFINE h == Head(pieces)
           t == Tail(pieces)
<1>4. FlattenSeq(<<h>> \o t) = h \o FlattenSeq(t)
  <2>1. h \in Seq(Byte) /\ t \in Seq(Seq(Byte))
    BY <1>2
  <2> HIDE DEF h, t
  <2> QED BY <2>1, FlattenOfFront, Zenon
<1> QED BY <1>1, <1>2, <1>3, <1>4

LEMMA DividedIs ==
    ASSUME NEW w \in Seq(Byte), NEW b \in Seq(Piece), NEW c \in Nat,
           NEW r \in {"true", "false", "error"},
           NEW bytes, w \o FlattenSeq(b) = bytes, NEW credit, Len(w) + c = credit
    PROVE  Divided([wire |-> w, buffer |-> b, credit |-> c, returned |-> r], bytes, credit)
  BY DEF Divided, FlushState

LEMMA TurnDivides ==
    ASSUME NEW flush, NEW bytes, NEW credit \in Nat, Divided(flush, bytes, credit)
    PROVE  Divided(Turn(flush), bytes, credit)
<1> DEFINE w == flush.wire
           b == flush.buffer
           c == flush.credit
           r == flush.returned
           front == Head(b)
           rest == Tail(b)
<1>1. /\ w \in Seq(Byte) /\ b \in Seq(Piece) /\ c \in Nat /\ r \in {"true", "false", "error"}
      /\ flush = [wire |-> w, buffer |-> b, credit |-> c, returned |-> r]
      /\ w \o FlattenSeq(b) = bytes /\ Len(w) + c = credit
  BY DEF Divided, FlushState
<1> HIDE DEF w, b, c, r
<1>2. CASE b = <<>> \/ r # "true"
  <2>1. Turn(flush) = flush
    BY <1>2 DEF Turn, b, r
  <2> QED BY <2>1
<1>3. CASE b # <<>> /\ r = "true" /\ c = 0
  <2>1. Turn(flush) = [wire |-> w, buffer |-> b, credit |-> c, returned |-> "error"]
    BY <1>1, <1>3 DEF Turn, b, c, r
  <2> QED BY <1>1, <2>1, DividedIs
<1>4. CASE b # <<>> /\ r = "true" /\ c # 0
  <2>1. /\ front \in Seq(Byte) /\ front # <<>> /\ rest \in Seq(Piece)
        /\ FlattenSeq(rest) \in Seq(Byte)
        /\ FlattenSeq(b) = front \o FlattenSeq(rest)
    BY <1>1, <1>4, FrontIs
  <2> DEFINE more == FlattenSeq(rest)
  <2>2. CASE c < Len(front)
    <3> DEFINE head == SubSeq(front, 1, c)
               tail == SubSeq(front, c + 1, Len(front))
    <3>1. Turn(flush) = [wire |-> w \o head, buffer |-> <<tail>> \o rest,
                         credit |-> 0, returned |-> "false"]
      BY <1>4, <2>2 DEF Turn, w, b, c, r
    <3> HIDE DEF front, rest, more
    <3>2. /\ head \in Seq(Byte) /\ tail \in Seq(Byte) /\ Len(head) = c
          /\ Len(tail) = Len(front) - c /\ front = head \o tail
      <4>1. front \in Seq(Byte) /\ c \in Nat /\ c <= Len(front)
        BY <1>1, <2>1, <2>2
      <4> QED BY <4>1, CutIs, Zenon DEF head, tail
    <3>3. tail \in Piece
      <4>1. Len(tail) # 0
        BY <1>1, <2>1, <2>2, <3>2
      <4>2. Len(<<>>) = 0
        OBVIOUS
      <4> QED BY <3>2, <4>1, <4>2, Zenon DEF Piece
    <3> HIDE DEF head, tail
    <3>4. <<tail>> \o rest \in Seq(Piece) /\ rest \in Seq(Seq(Byte))
      BY <2>1, <3>3, PiecesAreBytes
    <3>5. FlattenSeq(<<tail>> \o rest) = tail \o more
      BY <3>2, <3>4, FlattenOfFront, Zenon DEF more
    <3>6. w \o head \in Seq(Byte) /\ Len(w \o head) = Len(w) + c
      BY <1>1, <3>2
    <3>7. (w \o head) \o (tail \o more) = w \o ((head \o tail) \o more)
      <4>1. more \in Seq(Byte)
        BY <2>1 DEF more
      <4>2. w \in Seq(Byte) /\ head \in Seq(Byte) /\ tail \in Seq(Byte)
        BY <1>1, <3>2
      <4>3. Cat(Cat(w, head), Cat(tail, more)) = Cat(w, Cat(Cat(head, tail), more))
        BY <4>1, <4>2, Regrouped
      <4> QED BY <4>3 DEF Cat
    <3>8. (w \o head) \o FlattenSeq(<<tail>> \o rest) = bytes
      BY <1>1, <2>1, <3>2, <3>5, <3>7 DEF more
    <3>9. Len(w \o head) + 0 = credit
      BY <1>1, <3>6
    <3> QED BY <3>1, <3>4, <3>6, <3>8, <3>9, DividedIs
  <2>3. CASE ~ (c < Len(front))
    <3>1. Turn(flush) = [wire |-> w \o front, buffer |-> rest,
                         credit |-> c - Len(front), returned |-> "true"]
      BY <1>1, <1>4, <2>3 DEF Turn, w, b, c, r
    <3> HIDE DEF front, rest, more
    <3>2. w \o front \in Seq(Byte) /\ Len(w \o front) = Len(w) + Len(front)
      BY <1>1, <2>1
    <3>3. (w \o front) \o more = w \o (front \o more)
      <4>1. w \in Seq(Byte) /\ front \in Seq(Byte) /\ more \in Seq(Byte)
        BY <1>1, <2>1 DEF more
      <4>2. \A x, y, z \in Seq(Byte) : Cat(Cat(x, y), z) = Cat(x, Cat(y, z))
        BY CatAssociates
      <4> HIDE DEF w
      <4>3. Cat(Cat(w, front), more) = Cat(w, Cat(front, more))
        BY <4>1, <4>2, Zenon
      <4> QED BY <4>3, Zenon DEF Cat
    <3>4. (w \o front) \o FlattenSeq(rest) = bytes
      BY <1>1, <2>1, <3>3 DEF more
    <3>5. c - Len(front) \in Nat /\ Len(w \o front) + (c - Len(front)) = credit
      <4> DEFINE x == Len(w)
                 y == Len(front)
      <4>1. /\ x \in Nat /\ y \in Nat /\ c \in Nat /\ ~ (c < y)
            /\ x + c = credit /\ Len(w \o front) = x + y
        BY <1>1, <2>1, <2>3, <3>2
      <4> HIDE DEF x, y
      <4>2. c - y \in Nat /\ (x + y) + (c - y) = x + c
        BY <4>1
      <4> QED BY <4>1, <4>2 DEF y
    <3> QED BY <2>1, <3>1, <3>2, <3>4, <3>5, DividedIs
  <2> QED BY <2>2, <2>3
<1> QED BY <1>2, <1>3, <1>4

\* The flush after each of the first n turns.
Turns(f, n, start) == f = [i \in 0 .. n |-> IF i = 0 THEN start ELSE Turn(f[i - 1])]

LEMMA TurnsExists ==
    ASSUME NEW start, NEW n \in Nat
    PROVE  \E f : Turns(f, n, start)
<1> DEFINE T == {m \in Nat : \E f : Turns(f, m, start)}
<1>1. 0 \in T
  <2>1. Turns([i \in 0 .. 0 |-> start], 0, start)
    BY DEF Turns
  <2> QED BY <2>1
<1>2. ASSUME NEW m \in Nat, m \in T PROVE m + 1 \in T
  <2>1. PICK f : Turns(f, m, start)
    BY <1>2
  <2>2. PICK end : end = Turn(f[m])
    OBVIOUS
  <2> DEFINE g == [i \in 0 .. m + 1 |-> IF i = m + 1 THEN end ELSE f[i]]
  <2>3. \A i \in 0 .. m : f[i] = IF i = 0 THEN start ELSE Turn(f[i - 1])
    BY <2>1 DEF Turns
  <2>4. (\A i \in 0 .. m : g[i] = f[i]) /\ g[m + 1] = end
    OBVIOUS
  <2>5. g = [i \in 0 .. m + 1 |-> g[i]]
    OBVIOUS
  <2> HIDE DEF g
  <2>6. \A i \in 0 .. m + 1 : g[i] = IF i = 0 THEN start ELSE Turn(g[i - 1])
    <3>1. \A i \in 1 .. m + 1 : g[i - 1] = f[i - 1]
      BY <2>4
    <3> QED BY <2>2, <2>3, <2>4, <3>1
  <2>7. Turns(g, m + 1, start)
    BY <2>5, <2>6 DEF Turns
  <2> QED BY <2>7
<1> HIDE DEF T
<1>3. Nat \subseteq T
  BY <1>1, <1>2, Induction, Zenon
<1> QED BY <1>3 DEF T

\* What flush writes and what it leaves are together the queue it was given, and
\* it does not write more than the stream takes.
LEMMA FlushDivides ==
    ASSUME NEW messages \in Seq(Piece), NEW credit \in Nat
    PROVE  LET flushed == Flush(messages, credit)
           IN  /\ flushed.wire \in Seq(Byte) /\ flushed.buffer \in Seq(Piece)
               /\ FlattenSeq(flushed.buffer) \in Seq(Byte)
               /\ flushed.returned \in {"true", "false", "error"}
               /\ flushed.wire \o FlattenSeq(flushed.buffer) = FlattenSeq(messages)
               /\ Len(flushed.wire) <= credit
<1> DEFINE bytes == FlattenSeq(messages)
           start == [wire |-> <<>>, buffer |-> messages, credit |-> credit, returned |-> "true"]
           f == CHOOSE f : Turns(f, Len(messages), start)
<1>1. Len(messages) \in Nat
  OBVIOUS
<1>2. Turns(f, Len(messages), start)
  BY <1>1, TurnsExists, Zenon
<1>3. Flush(messages, credit) = f[Len(messages)]
  BY DEF Flush, Turns
<1>4. Divided(start, bytes, credit)
  <2>1. messages \in Seq(Seq(Byte))
    BY PiecesAreBytes
  <2>2. bytes \in Seq(Byte)
    BY <2>1, FlattenType, Zenon
  <2> HIDE DEF bytes
  <2>3. <<>> \o bytes = bytes /\ <<>> \in Seq(Byte) /\ Len(<<>>) + credit = credit
    BY <2>2
  <2> QED BY <2>3 DEF Divided, FlushState, bytes
<1> HIDE DEF f, start, bytes
<1> DEFINE T == {n \in Nat : n <= Len(messages) => Divided(f[n], bytes, credit)}
<1>5. 0 \in T
  BY <1>1, <1>2, <1>4 DEF Turns
<1>6. ASSUME NEW n \in Nat, n \in T PROVE n + 1 \in T
  <2>1. CASE n + 1 <= Len(messages)
    <3>1. f[n + 1] = Turn(f[n])
      <4>1. n + 1 \in 0 .. Len(messages) /\ n + 1 # 0 /\ (n + 1) - 1 = n
        BY <2>1
      <4> QED BY <1>2, <4>1 DEF Turns
    <3>2. Divided(f[n], bytes, credit)
      BY <1>1, <1>6, <2>1
    <3> QED BY <3>1, <3>2, TurnDivides
  <2>2. CASE ~ (n + 1 <= Len(messages))
    BY <2>2
  <2> QED BY <2>1, <2>2
<1> HIDE DEF T
<1>7. Nat \subseteq T
  BY <1>5, <1>6, Induction, Zenon
<1>8. Divided(Flush(messages, credit), bytes, credit)
  BY <1>1, <1>3, <1>7 DEF T
<1> DEFINE flushed == Flush(messages, credit)
<1> HIDE DEF flushed
<1>9. /\ flushed.wire \in Seq(Byte) /\ flushed.buffer \in Seq(Piece) /\ flushed.credit \in Nat
      /\ flushed.returned \in {"true", "false", "error"}
      /\ flushed.wire \o FlattenSeq(flushed.buffer) = bytes
      /\ Len(flushed.wire) + flushed.credit = credit
  BY <1>8 DEF flushed, Divided, FlushState
<1>10. FlattenSeq(flushed.buffer) \in Seq(Byte)
  BY <1>9, PiecesAreBytes, FlattenType
<1>11. Len(flushed.wire) <= credit
  BY <1>9
<1> QED BY <1>9, <1>10, <1>11 DEF flushed, bytes

-----------------------------------------------------------------------------
(* The bytes of messages. *)

AllFit == \A m \in Message : Fits(m.id) /\ Fits(Len(m.payload))

Codes(messages) == [i \in 1 .. Len(messages) |-> Encoded(messages[i])]

LEMMA MessageIs ==
    ASSUME AllFit, NEW m \in Message
    PROVE  /\ m.id \in Nat /\ Fits(m.id) /\ m.id \in MessageIds
           /\ m.payload \in Seq(Byte) /\ Len(m.payload) \in Nat /\ Fits(Len(m.payload))
           /\ Size(m.id) \in Nat /\ Size(m.id) >= 1
           /\ Size(Len(m.payload)) \in Nat /\ Size(Len(m.payload)) >= 1
<1>1. /\ m.id \in Nat /\ m.payload \in Seq(Byte) /\ Fits(m.id) /\ Fits(Len(m.payload))
      /\ m.id \in MessageIds
  BY MessageAssumption DEF AllFit, MessageIds
<1>2. Len(m.payload) \in Nat
  BY <1>1
<1> QED BY <1>1, <1>2, SizeIs

\* After n elements of w come those of s.
StandsAt(s, n, w) == \A j \in 1 .. Len(s) : w[n + j] = s[j]

LEMMA PartsOfTwo ==
    ASSUME NEW V, NEW s \in Seq(V), NEW t \in Seq(V)
    PROVE  /\ Cat(s, t) \in Seq(V) /\ Len(Cat(s, t)) = Len(s) + Len(t)
           /\ StandsAt(s, 0, Cat(s, t)) /\ StandsAt(t, Len(s), Cat(s, t))
  BY DEF Cat, StandsAt

LEMMA StandsInFront ==
    ASSUME NEW V, NEW s \in Seq(V), NEW h \in Seq(V), NEW w, NEW n \in Nat,
           StandsAt(s, n, h), StandsAt(h, 0, w), n + Len(s) <= Len(h)
    PROVE  StandsAt(s, n, w)
<1>1. ASSUME NEW j \in 1 .. Len(s) PROVE w[n + j] = s[j]
  <2>1. n + j \in 1 .. Len(h) /\ 0 + (n + j) = n + j
    OBVIOUS
  <2> QED BY <2>1 DEF StandsAt
<1> QED BY <1>1 DEF StandsAt

LEMMA PartsOfThree ==
    ASSUME NEW V, NEW s \in Seq(V), NEW t \in Seq(V), NEW u \in Seq(V)
    PROVE  LET w == Cat(Cat(s, t), u)
           IN  /\ w \in Seq(V) /\ Len(w) = Len(s) + Len(t) + Len(u)
               /\ StandsAt(s, 0, w) /\ StandsAt(t, Len(s), w)
               /\ StandsAt(u, Len(s) + Len(t), w)
<1> DEFINE h == Cat(s, t)
           w == Cat(h, u)
<1>1. /\ h \in Seq(V) /\ Len(h) = Len(s) + Len(t)
      /\ StandsAt(s, 0, h) /\ StandsAt(t, Len(s), h)
  BY PartsOfTwo, Zenon
<1> HIDE DEF h
<1>2. /\ w \in Seq(V) /\ Len(w) = Len(h) + Len(u)
      /\ StandsAt(h, 0, w) /\ StandsAt(u, Len(h), w)
  BY <1>1, PartsOfTwo, Zenon
<1> HIDE DEF w
<1>3. /\ Len(s) \in Nat /\ Len(t) \in Nat /\ 0 \in Nat
      /\ 0 + Len(s) <= Len(h) /\ Len(s) + Len(t) <= Len(h)
  BY <1>1
<1>4. StandsAt(s, 0, w) /\ StandsAt(t, Len(s), w)
  BY <1>1, <1>2, <1>3, StandsInFront, Zenon
<1>5. Len(w) = Len(s) + Len(t) + Len(u)
  BY <1>1, <1>2
<1> QED BY <1>1, <1>2, <1>4, <1>5, Zenon DEF h, w

\* Id, length and payload stand in the bytes of a message.
LEMMA EncodedIs ==
    ASSUME AllFit, NEW m \in Message
    PROVE  /\ Encoded(m) \in Seq(Byte)
           /\ Len(Encoded(m)) = Size(m.id) + Size(Len(m.payload)) + Len(m.payload)
           /\ StandsAt(Encode(m.id), 0, Encoded(m))
           /\ StandsAt(Encode(Len(m.payload)), Size(m.id), Encoded(m))
           /\ StandsAt(m.payload, Size(m.id) + Size(Len(m.payload)), Encoded(m))
<1> DEFINE s == Encode(m.id)
           t == Encode(Len(m.payload))
           u == m.payload
           w == Cat(Cat(s, t), u)
<1>1. /\ s \in Seq(Byte) /\ Len(s) = Size(m.id)
      /\ t \in Seq(Byte) /\ Len(t) = Size(Len(m.payload))
      /\ u \in Seq(Byte)
  BY MessageIs, EncodeIs
<1>2. Encoded(m) = w
  BY DEF Encoded, Cat
<1> HIDE DEF s, t, u
<1>3. /\ w \in Seq(Byte) /\ Len(w) = Len(s) + Len(t) + Len(u)
      /\ StandsAt(s, 0, w) /\ StandsAt(t, Len(s), w)
      /\ StandsAt(u, Len(s) + Len(t), w)
  BY <1>1, PartsOfThree, Zenon
<1> HIDE DEF w
<1> QED BY <1>1, <1>2, <1>3, Zenon DEF s, t, u

LEMMA CodesAre ==
    ASSUME AllFit, NEW messages \in Seq(Message)
    PROVE  /\ Codes(messages) \in Seq(Seq(Byte)) /\ Len(Codes(messages)) = Len(messages)
           /\ \A i \in 1 .. Len(messages) : Codes(messages)[i] = Encoded(messages[i])
           /\ \A m \in Message : Codes(Append(messages, m)) = Append(Codes(messages), Encoded(m))
<1>1. Len(messages) \in Nat /\ \A i \in 1 .. Len(messages) : messages[i] \in Message
  OBVIOUS
<1>2. \A i \in 1 .. Len(messages) : Encoded(messages[i]) \in Seq(Byte)
  BY <1>1, EncodedIs, Zenon
<1>3. /\ Codes(messages) \in Seq(Seq(Byte)) /\ Len(Codes(messages)) = Len(messages)
      /\ \A i \in 1 .. Len(messages) : Codes(messages)[i] = Encoded(messages[i])
  BY <1>1, <1>2 DEF Codes
<1>4. ASSUME NEW m \in Message
      PROVE  Codes(Append(messages, m)) = Append(Codes(messages), Encoded(m))
  <2> DEFINE more == Append(messages, m)
  <2>1. /\ Len(more) = Len(messages) + 1 /\ more[Len(messages) + 1] = m
        /\ \A i \in 1 .. Len(messages) : more[i] = messages[i]
    BY AppendProperties
  <2>2. Codes(more) = [i \in 1 .. Len(messages) + 1 |-> Encoded(more[i])]
    BY <2>1 DEF Codes
  <2> HIDE DEF more
  <2>3. \A i \in 1 .. Len(messages) + 1 :
           Encoded(more[i]) =
              IF i = Len(messages) + 1 THEN Encoded(m) ELSE Codes(messages)[i]
    BY <1>1, <1>3, <2>1
  <2>4. Append(Codes(messages), Encoded(m)) =
           [i \in 1 .. Len(messages) + 1 |->
               IF i = Len(messages) + 1 THEN Encoded(m) ELSE Codes(messages)[i]]
    <3> DEFINE codes == Codes(messages)
               code == Encoded(m)
               n == Len(messages)
    <3>1. codes \in Seq(Seq(Byte)) /\ n = Len(codes) /\ code \in Seq(Byte)
      BY <1>3, EncodedIs
    <3> HIDE DEF codes, code, n
    <3>2. Append(codes, code) = [i \in 1 .. n + 1 |-> IF i = n + 1 THEN code ELSE codes[i]]
      BY <3>1, AppendIs
    <3> QED BY <3>2 DEF codes, code, n
  <2> QED BY <2>2, <2>3, <2>4 DEF more
<1> QED BY <1>3, <1>4

-----------------------------------------------------------------------------
(* Where the reader is. *)

\* The bytes are what is left of the messages when k of them, and p bytes of the
\* next, have been taken.
LiesAt(messages, k, p, bytes) ==
    \E at : Lies(Byte, at, bytes, Codes(messages)) /\ at[k + 1] = 0 - p

LEMMA LiesAtStart == LiesAt(<<>>, 0, 0, <<>>)
<1> DEFINE at == [i \in 1 .. 1 |-> 0]
<1>1. Codes(<<>>) = <<>>
  <2>1. Len(<<>>) = 0
    OBVIOUS
  <2> QED BY <2>1 DEF Codes
<1>2. Lies(Byte, at, <<>>, Codes(<<>>))
  BY <1>1, LiesNone
<1>3. at[0 + 1] = 0 - 0
  OBVIOUS
<1> HIDE DEF at
<1> QED BY <1>2, <1>3 DEF LiesAt

LEMMA LiesAtWrite ==
    ASSUME AllFit, NEW messages \in Seq(Message), NEW k \in Nat, k <= Len(messages),
           NEW p, NEW bytes, LiesAt(messages, k, p, bytes), NEW m \in Message
    PROVE  LiesAt(Append(messages, m), k, p, bytes \o Encoded(m))
<1>1. PICK at : Lies(Byte, at, bytes, Codes(messages)) /\ at[k + 1] = 0 - p
  BY DEF LiesAt
<1> DEFINE later == [i \in 1 .. Len(Codes(messages)) + 2 |->
                        IF i = Len(Codes(messages)) + 2 THEN Len(bytes) + Len(Encoded(m))
                        ELSE at[i]]
<1>2. Lies(Byte, later, bytes \o Encoded(m), Append(Codes(messages), Encoded(m)))
  BY <1>1, EncodedIs, LiesMore, Zenon
<1>3. Append(Codes(messages), Encoded(m)) = Codes(Append(messages, m))
  BY CodesAre
<1>4. later[k + 1] = at[k + 1]
  <2>1. Len(Codes(messages)) = Len(messages) /\ Len(messages) \in Nat
    BY CodesAre
  <2>2. k + 1 \in 1 .. Len(messages) + 2 /\ k + 1 # Len(messages) + 2
    BY <2>1
  <2> QED BY <2>1, <2>2
<1> HIDE DEF later
<1> QED BY <1>1, <1>2, <1>3, <1>4, Zenon DEF LiesAt

LEMMA LiesAtTaken ==
    ASSUME AllFit, NEW messages \in Seq(Message), NEW k \in Nat, k <= Len(messages),
           NEW p \in Nat, NEW bytes \in Seq(Byte), NEW rest \in Seq(Byte),
           LiesAt(messages, k, p, bytes \o rest), NEW t \in Nat, t <= Len(bytes)
    PROVE  /\ SubSeq(bytes, t + 1, Len(bytes)) \in Seq(Byte)
           /\ LiesAt(messages, k, p + t, SubSeq(bytes, t + 1, Len(bytes)) \o rest)
<1> DEFINE all == bytes \o rest
           left == SubSeq(bytes, t + 1, Len(bytes))
<1>1. PICK at : Lies(Byte, at, all, Codes(messages)) /\ at[k + 1] = 0 - p
  BY DEF LiesAt
<1>2. left \in Seq(Byte) /\ SubSeq(all, t + 1, Len(all)) = left \o rest
  BY SubSeqOfConcat
<1>3. t <= Len(all)
  <2>1. Len(all) = Len(bytes) + Len(rest) /\ Len(bytes) \in Nat /\ Len(rest) \in Nat
    OBVIOUS
  <2> HIDE DEF all
  <2> QED BY <2>1
<1> HIDE DEF all, left
<1> DEFINE later == [i \in 1 .. Len(Codes(messages)) + 1 |-> at[i] - t]
<1>4. Lies(Byte, later, SubSeq(all, t + 1, Len(all)), Codes(messages))
  BY <1>1, <1>3, LiesLess, Zenon
<1>5. later[k + 1] = 0 - (p + t)
  <2>1. Len(Codes(messages)) = Len(messages) /\ Len(messages) \in Nat
    BY CodesAre
  <2>2. k + 1 \in 1 .. Len(messages) + 1
    BY <2>1
  <2>3. later[k + 1] = (0 - p) - t
    BY <1>1, <2>1, <2>2
  <2> QED BY <2>3
<1> HIDE DEF later
<1> QED BY <1>2, <1>4, <1>5 DEF LiesAt, left

LEMMA LiesAtNext ==
    ASSUME AllFit, NEW messages \in Seq(Message), NEW k \in Nat, k < Len(messages),
           NEW p \in Nat, NEW bytes, LiesAt(messages, k, p, bytes),
           p = Len(Encoded(messages[k + 1]))
    PROVE  LiesAt(messages, k + 1, 0, bytes)
<1>1. PICK at : Lies(Byte, at, bytes, Codes(messages)) /\ at[k + 1] = 0 - p
  BY DEF LiesAt
<1>2. k + 1 \in 1 .. Len(Codes(messages)) /\ Codes(messages)[k + 1] = Encoded(messages[k + 1])
  BY CodesAre
<1>3. at[(k + 1) + 1] = (0 - p) + p
  BY <1>1, <1>2 DEF Lies
<1>4. at[(k + 1) + 1] = 0 - 0
  BY <1>3
<1> QED BY <1>1, <1>4 DEF LiesAt

\* The first bytes are those of the message from which p have been taken.
LEMMA LiesAtReads ==
    ASSUME AllFit, NEW messages \in Seq(Message), NEW k \in Nat, k < Len(messages),
           NEW p \in Nat, NEW bytes, LiesAt(messages, k, p, bytes),
           NEW code, code = Encoded(messages[k + 1])
    PROVE  /\ code \in Seq(Byte)
           /\ Len(code) - p <= Len(bytes)
           /\ \A j \in 1 .. Len(code) - p : bytes[j] = code[p + j]
<1>1. PICK at : Lies(Byte, at, bytes, Codes(messages)) /\ at[k + 1] = 0 - p
  BY DEF LiesAt
<1>2. k + 1 \in 1 .. Len(Codes(messages)) /\ Codes(messages)[k + 1] = code
  BY CodesAre
<1>3. messages[k + 1] \in Message
  OBVIOUS
<1>4. code \in Seq(Byte) /\ Len(code) \in Nat
  BY <1>3, EncodedIs
<1>5. at[(k + 1) + 1] = (0 - p) + Len(code) /\ at[(k + 1) + 1] <= Len(bytes)
  BY <1>1, <1>2 DEF Lies
<1>b. Len(bytes) \in Nat
  BY <1>1 DEF Lies
<1>6. \A n \in 1 .. Len(code) : (0 - p) + n >= 1 => bytes[(0 - p) + n] = code[n]
  BY <1>1, <1>2 DEF Lies
<1>7. ASSUME NEW j \in 1 .. Len(code) - p PROVE bytes[j] = code[p + j]
  <2>1. p + j \in 1 .. Len(code) /\ (0 - p) + (p + j) = j /\ j >= 1
    BY <1>4
  <2> QED BY <1>6, <2>1
<1> QED BY <1>4, <1>5, <1>b, <1>7

LEMMA LiesAtEnd ==
    ASSUME AllFit, NEW messages \in Seq(Message), NEW p \in Nat, NEW bytes,
           LiesAt(messages, Len(messages), p, bytes)
    PROVE  p = 0 /\ bytes = <<>>
<1>1. PICK at : Lies(Byte, at, bytes, Codes(messages)) /\ at[Len(messages) + 1] = 0 - p
  BY DEF LiesAt
<1>2. at[Len(messages) + 1] = Len(bytes) /\ bytes \in Seq(Byte)
  BY <1>1, CodesAre DEF Lies
<1>3. Len(bytes) \in Nat
  BY <1>2
<1>4. p = 0 /\ Len(bytes) = 0
  BY <1>1, <1>2, <1>3
<1> QED BY <1>2, <1>4, EmptySeq

-----------------------------------------------------------------------------
(* What the reader does with a chunk. *)

\* The reader when it has taken p bytes of message m.
ReaderAt(m, p, r) ==
    LET a == Size(m.id)
        b == Size(Len(m.payload))
    IN  \/ p < a /\ r = [state |-> "Id", decoder |-> Partial(m.id, p)]
        \/ /\ a <= p /\ p < a + b
           /\ r = [state |-> "Length", id |-> m.id, decoder |-> Partial(Len(m.payload), p - a)]
        \/ /\ a + b <= p
           /\ p < a + b + Len(m.payload) \/ (p = a + b /\ Len(m.payload) = 0)
           /\ r = [state |-> "Message", id |-> m.id, length |-> Len(m.payload),
                   buffer |-> SubSeq(m.payload, 1, p - (a + b))]

\* The bytes are of the code, as far as it goes, when p have been taken.
Reads(code, p, bytes) ==
    \A j \in 1 .. Len(bytes) : j <= Len(code) - p => bytes[j] = code[p + j]

\* What push_bytes returns when q bytes of v were read and `count` more come.
IntegerRead(v, q, count) ==
    IF count < Size(v) - q
    THEN [done |-> FALSE, decoder |-> Partial(v, q + count), value |-> 0, taken |-> count]
    ELSE [done |-> TRUE, decoder |-> VarIntDecoder, value |-> v, taken |-> Size(v) - q]

LEMMA ReaderStarts ==
    ASSUME AllFit, NEW m \in Message
    PROVE  ReaderAt(m, 0, ReceivingId)
<1>1. Partial(m.id, 0) = VarIntDecoder
  BY MessageIs, PartialNone
<1> QED BY <1>1, MessageIs DEF ReaderAt, ReceivingId

\* The code of an integer that stands in that of a message is read as such.
\* The bytes follow q bytes of the code of v, which is behind n bytes of `code`.
AreOf(v, q, n, code, bytes) ==
    /\ v \in Nat /\ Fits(v) /\ code \in Seq(Byte) /\ n \in Nat
    /\ StandsAt(Encode(v), n, code) /\ n + Size(v) <= Len(code)
    /\ q \in Nat /\ q < Size(v) /\ bytes \in Seq(Byte) /\ Reads(code, n + q, bytes)

LEMMA ReadsInteger ==
    ASSUME NEW v, NEW q, NEW n, NEW code, NEW bytes, AreOf(v, q, n, code, bytes)
    PROVE  PushBytes(Partial(v, q), bytes) = IntegerRead(v, q, Len(bytes))
<1>0. /\ v \in Nat /\ Fits(v) /\ code \in Seq(Byte) /\ n \in Nat
      /\ StandsAt(Encode(v), n, code) /\ n + Size(v) <= Len(code)
      /\ q \in Nat /\ q < Size(v) /\ bytes \in Seq(Byte) /\ Reads(code, n + q, bytes)
  BY DEF AreOf
<1>1. Size(v) \in Nat
  BY <1>0, SizeIs
<1>2. Len(Encode(v)) = Size(v)
  BY <1>0, EncodeIs
<1>3. Len(code) \in Nat /\ Len(bytes) \in Nat
  BY <1>0
<1>4. ASSUME NEW j \in 1 .. Len(bytes), j <= Size(v) - q PROVE bytes[j] = Encode(v)[q + j]
  <2>1. /\ j <= Len(code) - (n + q) /\ q + j \in 1 .. Size(v)
        /\ (n + q) + j = n + (q + j)
    BY <1>0, <1>1, <1>3, <1>4
  <2>2. bytes[j] = code[(n + q) + j]
    BY <1>0, <2>1 DEF Reads
  <2>3. code[n + (q + j)] = Encode(v)[q + j]
    BY <1>0, <1>2, <2>1 DEF StandsAt
  <2> QED BY <2>1, <2>2, <2>3
<1>5. \A j \in 1 .. Len(bytes) : j <= Size(v) - q => bytes[j] = Encode(v)[q + j]
  BY <1>4
<1> QED BY <1>0, <1>3, <1>5, PushBytesDecodes DEF IntegerRead

\* What the result of an integer tells.
LEMMA IntegerReadIs ==
    ASSUME NEW v \in Nat, NEW q \in Nat, q < Size(v), NEW count \in Nat
    PROVE  LET result == IntegerRead(v, q, count)
           IN  /\ result.taken \in Nat /\ result.taken <= count
               /\ \/ /\ ~ result.done /\ result.decoder = Partial(v, q + result.taken)
                     /\ q + result.taken < Size(v)
                  \/ result.done /\ result.value = v /\ q + result.taken = Size(v)
<1>1. Size(v) \in Nat
  BY SizeIs
<1>2. CASE count < Size(v) - q
  <2>1. q + count < Size(v)
    BY <1>1, <1>2
  <2> QED BY <1>2, <2>1 DEF IntegerRead
<1>3. CASE ~ (count < Size(v) - q)
  <2> DEFINE rest == Size(v) - q
  <2>1. rest \in Nat /\ rest <= count /\ q + rest = Size(v)
    BY <1>1, <1>3
  <2>2. IntegerRead(v, q, count) =
           [done |-> TRUE, decoder |-> VarIntDecoder, value |-> v, taken |-> rest]
    BY <1>3 DEF IntegerRead
  <2> HIDE DEF rest
  <2> QED BY <2>1, <2>2
<1> QED BY <1>2, <1>3

LEMMA ReceiveIdReads ==
    ASSUME AllFit, NEW m \in Message, NEW p \in Nat, NEW r, ReaderAt(m, p, r), r.state = "Id",
           NEW bytes \in Seq(Byte), Reads(Encoded(m), p, bytes)
    PROVE  LET result == PushBytes(r.decoder, bytes)
           IN  /\ result.taken \in Nat /\ result.taken <= Len(bytes)
               /\ ReaderAt(m, p + result.taken,
                           IF result.done
                           THEN [state |-> "Length", id |-> result.value,
                                 decoder |-> VarIntDecoder]
                           ELSE [r EXCEPT !.decoder = result.decoder])
<1> DEFINE v == m.id
           c == Len(m.payload)
           code == Encoded(m)
           result == PushBytes(r.decoder, bytes)
           t == result.taken
<1>1. /\ v \in Nat /\ Fits(v) /\ Size(v) \in Nat /\ c \in Nat /\ Size(c) \in Nat /\ Size(c) >= 1
      /\ code \in Seq(Byte) /\ StandsAt(Encode(v), 0, code) /\ Len(code) = Size(v) + Size(c) + c
  BY MessageIs, EncodedIs
<1>2. p < Size(v) /\ r = [state |-> "Id", decoder |-> Partial(v, p)]
  BY DEF ReaderAt
<1>3. Reads(code, p, bytes) /\ bytes \in Seq(Byte) /\ p \in Nat
  OBVIOUS
<1> HIDE DEF c, code, v
<1>4. 0 + Size(v) <= Len(code) /\ 0 + p = p /\ 0 \in Nat /\ Len(bytes) \in Nat
  BY <1>1
<1>5. result = IntegerRead(v, p, Len(bytes))
  <2>1. AreOf(v, p, 0, code, bytes)
    BY <1>1, <1>2, <1>3, <1>4 DEF AreOf
  <2>2. PushBytes(Partial(v, p), bytes) = IntegerRead(v, p, Len(bytes))
    BY <2>1, ReadsInteger, Zenon
  <2> QED BY <1>2, <2>2
<1> HIDE DEF result
<1>6. /\ t \in Nat /\ t <= Len(bytes)
      /\ \/ ~ result.done /\ result.decoder = Partial(v, p + t) /\ p + t < Size(v)
         \/ result.done /\ result.value = v /\ p + t = Size(v)
  BY <1>1, <1>2, <1>4, <1>5, IntegerReadIs
<1> HIDE DEF t
<1>7. CASE ~ result.done
  <2>1. result.decoder = Partial(v, p + t) /\ p + t < Size(v)
    BY <1>6, <1>7
  <2>2. [r EXCEPT !.decoder = result.decoder] = [state |-> "Id", decoder |-> Partial(v, p + t)]
    BY <1>2, <2>1
  <2>3. ReaderAt(m, p + t, [state |-> "Id", decoder |-> Partial(v, p + t)])
    BY <2>1 DEF ReaderAt, v
  <2> QED BY <1>6, <1>7, <2>2, <2>3 DEF result, t
<1>8. CASE result.done
  <2>1. result.value = v /\ p + t = Size(v)
    BY <1>6, <1>8
  <2>2. Partial(c, Size(v) - Size(v)) = VarIntDecoder
    <3>1. Size(v) - Size(v) = 0
      BY <1>1
    <3> QED BY <1>1, <3>1, PartialNone
  <2>3. Size(v) <= Size(v) /\ Size(v) < Size(v) + Size(c)
    BY <1>1
  <2>4. ReaderAt(m, Size(v), [state |-> "Length", id |-> v, decoder |-> VarIntDecoder])
    BY <2>2, <2>3 DEF ReaderAt, v, c
  <2> QED BY <1>6, <1>8, <2>1, <2>4 DEF result, t
<1> QED BY <1>7, <1>8

LEMMA ReceiveLengthReads ==
    ASSUME AllFit, NEW m \in Message, NEW p \in Nat, NEW r, ReaderAt(m, p, r),
           r.state = "Length",
           NEW bytes \in Seq(Byte), Reads(Encoded(m), p, bytes)
    PROVE  LET result == PushBytes(r.decoder, bytes)
           IN  /\ result.taken \in Nat /\ result.taken <= Len(bytes)
               /\ ReaderAt(m, p + result.taken,
                           IF result.done
                           THEN [state |-> "Message", id |-> r.id,
                                 length |-> result.value, buffer |-> <<>>]
                           ELSE [r EXCEPT !.decoder = result.decoder])
<1> DEFINE a == Size(m.id)
           v == Len(m.payload)
           code == Encoded(m)
           q == p - a
           result == PushBytes(r.decoder, bytes)
           t == result.taken
<1>1. /\ v \in Nat /\ Fits(v) /\ Size(v) \in Nat /\ a \in Nat
      /\ code \in Seq(Byte) /\ StandsAt(Encode(v), a, code) /\ Len(code) = a + Size(v) + v
  BY MessageIs, EncodedIs
<1>2. /\ a <= p /\ p < a + Size(v)
      /\ r = [state |-> "Length", id |-> m.id, decoder |-> Partial(v, q)]
  BY DEF ReaderAt
<1>3. Reads(code, p, bytes) /\ bytes \in Seq(Byte) /\ p \in Nat
  OBVIOUS
<1> HIDE DEF v, code, a
<1>4. /\ Len(bytes) \in Nat /\ a + Size(v) <= Len(code) /\ p = a + q /\ q \in Nat
      /\ q < Size(v)
  BY <1>1, <1>2
<1> HIDE DEF q
<1>5. result = IntegerRead(v, q, Len(bytes))
  <2>1. AreOf(v, q, a, code, bytes)
    BY <1>1, <1>3, <1>4 DEF AreOf
  <2>2. PushBytes(Partial(v, q), bytes) = IntegerRead(v, q, Len(bytes))
    BY <2>1, ReadsInteger, Zenon
  <2> QED BY <1>2, <2>2
<1> HIDE DEF result
<1>6. /\ t \in Nat /\ t <= Len(bytes)
      /\ \/ ~ result.done /\ result.decoder = Partial(v, q + t) /\ q + t < Size(v)
         \/ result.done /\ result.value = v /\ q + t = Size(v)
  BY <1>1, <1>4, <1>5, IntegerReadIs
<1> HIDE DEF t
<1>7. CASE ~ result.done
  <2>1. result.decoder = Partial(v, q + t) /\ q + t < Size(v)
    BY <1>6, <1>7
  <2>2. [r EXCEPT !.decoder = result.decoder]
           = [state |-> "Length", id |-> m.id, decoder |-> Partial(v, q + t)]
    BY <1>2, <2>1
  <2>3. a <= p + t /\ p + t < a + Size(v) /\ (p + t) - a = q + t
    BY <1>1, <1>4, <1>6, <2>1
  <2>4. ReaderAt(m, p + t, [state |-> "Length", id |-> m.id, decoder |-> Partial(v, q + t)])
    BY <2>3 DEF ReaderAt, v, a
  <2> QED BY <1>6, <1>7, <2>2, <2>4 DEF result, t
<1>8. CASE result.done
  <2>1. result.value = v /\ q + t = Size(v)
    BY <1>6, <1>8
  <2>2. p + t = a + Size(v)
    BY <1>1, <1>4, <1>6, <2>1
  <2>3. SubSeq(m.payload, 1, (a + Size(v)) - (a + Size(v))) = <<>>
    <3>1. (a + Size(v)) - (a + Size(v)) = 0
      BY <1>1
    <3> QED BY <3>1, SubSeqEmpty
  <2>4. /\ a + Size(v) <= a + Size(v)
        /\ a + Size(v) < a + Size(v) + v \/ (a + Size(v) = a + Size(v) /\ v = 0)
    BY <1>1
  <2>5. ReaderAt(m, a + Size(v),
                 [state |-> "Message", id |-> m.id, length |-> v, buffer |-> <<>>])
    BY <2>3, <2>4 DEF ReaderAt, v, a
  <2>6. r.id = m.id
    BY <1>2
  <2> QED BY <1>6, <1>8, <2>1, <2>2, <2>5, <2>6 DEF result, t
<1> QED BY <1>7, <1>8

\* The first t elements of u are those after n elements of s.
Continues(u, t, s, n) == \A j \in 1 .. t : u[j] = s[n + j]

\* The first n elements, and t elements like those that follow.
LEMMA Continued ==
    ASSUME NEW V, NEW s \in Seq(V), NEW n \in Nat, NEW t \in Nat, n + t <= Len(s),
           NEW u \in Seq(V), t <= Len(u), Continues(u, t, s, n)
    PROVE  SubSeq(s, 1, n) \o SubSeq(u, 1, t) = SubSeq(s, 1, n + t)
<1>1. Len(s) \in Nat /\ Len(u) \in Nat /\ n <= Len(s)
  OBVIOUS
<1> DEFINE x == SubSeq(s, 1, n)
           y == SubSeq(u, 1, t)
           z == SubSeq(s, 1, n + t)
<1>2. x \in Seq(V) /\ Len(x) = n /\ \A j \in 1 .. n : x[j] = s[j]
  BY <1>1
<1>3. y \in Seq(V) /\ Len(y) = t /\ \A j \in 1 .. t : y[j] = u[j]
  BY <1>1
<1>4. z \in Seq(V) /\ Len(z) = n + t /\ \A j \in 1 .. n + t : z[j] = s[j]
  BY <1>1
<1> HIDE DEF x, y, z
<1>5. /\ Cat(x, y) \in Seq(V) /\ Len(Cat(x, y)) = n + t
      /\ StandsAt(x, 0, Cat(x, y)) /\ StandsAt(y, n, Cat(x, y))
  BY <1>2, <1>3, PartsOfTwo
<1>6. ASSUME NEW j \in 1 .. n + t PROVE Cat(x, y)[j] = z[j]
  <2>1. CASE j <= n
    <3>1. j \in 1 .. n /\ 0 + j = j
      BY <2>1
    <3> QED BY <1>2, <1>4, <1>5, <3>1 DEF StandsAt
  <2>2. CASE ~ (j <= n)
    <3> DEFINE i == j - n
    <3>1. i \in 1 .. t /\ j = n + i
      BY <2>2
    <3> HIDE DEF i
    <3>2. Cat(x, y)[n + i] = u[i]
      BY <1>3, <1>5, <3>1 DEF StandsAt
    <3>3. u[i] = s[n + i]
      BY <3>1 DEF Continues
    <3> QED BY <1>4, <3>1, <3>2, <3>3
  <2> QED BY <2>1, <2>2
<1>7. Cat(x, y) = z
  BY <1>4, <1>5, <1>6, SeqEqual
<1> QED BY <1>7 DEF Cat, x, y, z

\* How much of the bytes belongs to the message.
OwnOf(r, bytes) ==
    LET remaining == r.length - Len(r.buffer)
    IN  IF remaining < Len(bytes) THEN remaining ELSE Len(bytes)

LEMMA ReceiveMessageReads ==
    ASSUME AllFit, NEW m \in Message, NEW p \in Nat, NEW r, ReaderAt(m, p, r),
           r.state = "Message",
           NEW bytes \in Seq(Byte), Reads(Encoded(m), p, bytes)
    PROVE  LET t   == OwnOf(r, bytes)
               new == r.buffer \o SubSeq(bytes, 1, t)
           IN  /\ t \in Nat /\ t <= Len(bytes) /\ r.id = m.id
               /\ IF Len(new) = r.length
                  THEN p + t = Len(Encoded(m)) /\ new = m.payload
                  ELSE ReaderAt(m, p + t, [r EXCEPT !.buffer = new])
<1> DEFINE h == Size(m.id) + Size(Len(m.payload))
           c == Len(m.payload)
           s == m.payload
           n == p - h
           code == Encoded(m)
           t == OwnOf(r, bytes)
           new == r.buffer \o SubSeq(bytes, 1, t)
<1>1. /\ s \in Seq(Byte) /\ h \in Nat /\ c = Len(s) /\ c \in Nat
      /\ code \in Seq(Byte) /\ Len(code) = h + c /\ StandsAt(s, h, code)
  BY MessageIs, EncodedIs
<1>2. /\ h <= p /\ (p < h + c \/ (p = h /\ c = 0))
      /\ r = [state |-> "Message", id |-> m.id, length |-> c, buffer |-> SubSeq(s, 1, n)]
  BY DEF ReaderAt
<1>3. Reads(code, p, bytes) /\ bytes \in Seq(Byte) /\ p \in Nat
  OBVIOUS
<1> HIDE DEF h, c, s, code
<1>4. n \in Nat /\ n <= c /\ p = h + n /\ Len(bytes) \in Nat
  BY <1>1, <1>2
<1> HIDE DEF n
<1>5. r.length = c /\ r.buffer = SubSeq(s, 1, n) /\ r.id = m.id
  BY <1>2
<1>6. SubSeq(s, 1, n) \in Seq(Byte) /\ Len(SubSeq(s, 1, n)) = n
  BY <1>1, <1>4, CutIs
<1>7. t \in Nat /\ t <= Len(bytes) /\ n + t <= c
  <2>1. t = IF c - n < Len(bytes) THEN c - n ELSE Len(bytes)
    BY <1>5, <1>6 DEF OwnOf
  <2> HIDE DEF t
  <2>2. CASE c - n < Len(bytes)
    BY <1>1, <1>4, <2>1, <2>2
  <2>3. CASE ~ (c - n < Len(bytes))
    BY <1>1, <1>4, <2>1, <2>3
  <2> QED BY <2>2, <2>3
<1> HIDE DEF t
<1>8. ASSUME NEW j \in 1 .. t PROVE bytes[j] = s[n + j]
  <2>1. /\ j \in 1 .. Len(bytes) /\ j <= Len(code) - p /\ n + j \in 1 .. Len(s)
        /\ p + j = h + (n + j)
    BY <1>1, <1>4, <1>7
  <2>2. bytes[j] = code[p + j]
    BY <1>3, <2>1 DEF Reads
  <2>3. code[h + (n + j)] = s[n + j]
    BY <1>1, <2>1 DEF StandsAt
  <2> QED BY <2>1, <2>2, <2>3
<1>9. new = SubSeq(s, 1, n + t)
  <2>1. n + t <= Len(s) /\ Continues(bytes, t, s, n)
    BY <1>1, <1>7, <1>8 DEF Continues
  <2>2. s \in Seq(Byte) /\ n \in Nat /\ t \in Nat /\ t <= Len(bytes)
    BY <1>1, <1>4, <1>7
  <2>3. SubSeq(s, 1, n) \o SubSeq(bytes, 1, t) = SubSeq(s, 1, n + t)
    BY <1>3, <2>1, <2>2, Continued, Zenon
  <2> QED BY <1>5, <2>3, Zenon
<1>10. n + t \in Nat /\ Len(SubSeq(s, 1, n + t)) = n + t
  <2>1. n + t \in Nat /\ n + t <= Len(s)
    BY <1>1, <1>4, <1>7
  <2> QED BY <1>1, <2>1, CutIs
<1> HIDE DEF new
<1>11. CASE Len(new) = r.length
  <2>1. n + t = c
    BY <1>5, <1>9, <1>10, <1>11
  <2>2. new = s
    BY <1>1, <1>9, <2>1, SubSeqFull
  <2>3. p + t = Len(code)
    BY <1>1, <1>4, <1>7, <2>1
  <2> QED BY <1>5, <1>7, <1>11, <2>2, <2>3 DEF s, code, new, t
<1>12. CASE Len(new) # r.length
  <2>1. n + t # c
    BY <1>5, <1>9, <1>10, <1>12
  <2>2. [r EXCEPT !.buffer = new] =
           [state |-> "Message", id |-> m.id, length |-> c, buffer |-> new]
    BY <1>2
  <2>3. h <= p + t /\ p + t < h + c /\ (p + t) - h = n + t
    BY <1>1, <1>4, <1>7, <2>1
  <2>4. new = SubSeq(s, 1, (p + t) - h)
    BY <1>9, <2>3
  <2>5. ReaderAt(m, p + t, [state |-> "Message", id |-> m.id, length |-> c, buffer |-> new])
    BY <2>3, <2>4 DEF ReaderAt, h, c, s
  <2> QED BY <1>5, <1>7, <1>12, <2>2, <2>5 DEF new, t
<1> QED BY <1>11, <1>12

-----------------------------------------------------------------------------
(* The payloads of an id. *)

Own(id) == {m \in Message : m.id = id}

Payloads(own) == [n \in DOMAIN own |-> own[n].payload]

LEMMA PayloadsAre ==
    ASSUME NEW own \in Seq(Message)
    PROVE  /\ Payloads(own) \in Seq(Seq(Byte)) /\ Len(Payloads(own)) = Len(own)
           /\ \A n \in 1 .. Len(own) : Payloads(own)[n] = own[n].payload
<1>1. Len(own) \in Nat /\ DOMAIN own = 1 .. Len(own) /\ \A n \in 1 .. Len(own) : own[n] \in Message
  OBVIOUS
<1>2. \A n \in 1 .. Len(own) : own[n].payload \in Seq(Byte)
  BY <1>1, MessageAssumption
<1>3. Payloads(own) = [n \in 1 .. Len(own) |-> own[n].payload]
  BY <1>1 DEF Payloads
<1> QED BY <1>1, <1>2, <1>3

LEMMA PayloadsOfAppended ==
    ASSUME NEW own \in Seq(Message), NEW m \in Message
    PROVE  Payloads(Append(own, m)) = Append(Payloads(own), m.payload)
<1> DEFINE n == Len(own)
           more == Append(own, m)
           a == Payloads(more)
           p == Payloads(own)
           b == Append(p, m.payload)
<1>1. /\ n \in Nat /\ more \in Seq(Message) /\ Len(more) = n + 1 /\ more[n + 1] = m
      /\ \A i \in 1 .. n : more[i] = own[i]
  BY AppendProperties
<1>2. m.payload \in Seq(Byte)
  BY MessageAssumption
<1>3. /\ p \in Seq(Seq(Byte)) /\ Len(p) = n
      /\ \A i \in 1 .. n : p[i] = own[i].payload
  BY PayloadsAre
<1> HIDE DEF more, p
<1>4. /\ a \in Seq(Seq(Byte)) /\ Len(a) = n + 1
      /\ \A i \in 1 .. n + 1 : a[i] = more[i].payload
  BY <1>1, PayloadsAre
<1>5. /\ b \in Seq(Seq(Byte)) /\ Len(b) = n + 1 /\ b[n + 1] = m.payload
      /\ \A i \in 1 .. n : b[i] = p[i]
  BY <1>1, <1>2, <1>3, AppendProperties
<1> HIDE DEF a, b, n
<1>6. ASSUME NEW i \in 1 .. n + 1 PROVE a[i] = b[i]
  <2>1. CASE i = n + 1
    BY <1>1, <1>4, <1>5, <2>1
  <2>2. CASE i # n + 1
    <3>1. i \in 1 .. n
      BY <1>1, <2>2
    <3>2. a[i] = own[i].payload
      BY <1>1, <1>4, <3>1
    <3>3. b[i] = own[i].payload
      BY <1>3, <1>5, <3>1
    <3> QED BY <3>2, <3>3
  <2> QED BY <2>1, <2>2
<1>7. a = b
  BY <1>4, <1>5, <1>6, SeqEqual
<1> QED BY <1>7 DEF a, b, more, p

LEMMA PayloadsOfJoined ==
    ASSUME NEW r \in Seq(Message), NEW s \in Seq(Message)
    PROVE  Payloads(Cat(r, s)) = Cat(Payloads(r), Payloads(s))
<1> DEFINE n == Len(r)
           c == Len(s)
           x == Cat(r, s)
           p == Payloads(r)
           q == Payloads(s)
           a == Payloads(x)
           b == Cat(p, q)
<1>1. /\ n \in Nat /\ c \in Nat /\ x \in Seq(Message) /\ Len(x) = n + c
      /\ StandsAt(r, 0, x) /\ StandsAt(s, n, x)
  <2>1. /\ x \in Seq(Message) /\ Len(x) = Len(r) + Len(s)
        /\ StandsAt(r, 0, x) /\ StandsAt(s, Len(r), x)
    BY PartsOfTwo, Zenon
  <2>2. n \in Nat /\ c \in Nat
    OBVIOUS
  <2> QED BY <2>1, <2>2
<1>2. /\ p \in Seq(Seq(Byte)) /\ Len(p) = n
      /\ \A i \in 1 .. n : p[i] = r[i].payload
  BY PayloadsAre
<1>3. /\ q \in Seq(Seq(Byte)) /\ Len(q) = c
      /\ \A i \in 1 .. c : q[i] = s[i].payload
  BY PayloadsAre
<1> HIDE DEF x, p, q
<1>4. /\ a \in Seq(Seq(Byte)) /\ Len(a) = n + c
      /\ \A i \in 1 .. n + c : a[i] = x[i].payload
  BY <1>1, PayloadsAre
<1>5. /\ b \in Seq(Seq(Byte)) /\ Len(b) = n + c
      /\ StandsAt(p, 0, b) /\ StandsAt(q, n, b)
  <2>1. /\ b \in Seq(Seq(Byte)) /\ Len(b) = Len(p) + Len(q)
        /\ StandsAt(p, 0, b) /\ StandsAt(q, Len(p), b)
    BY <1>2, <1>3, PartsOfTwo, Zenon
  <2> HIDE DEF b
  <2> QED BY <1>2, <1>3, <2>1
<1> HIDE DEF a, b
<1>6. ASSUME NEW i \in 1 .. n + c PROVE a[i] = b[i]
  <2>1. a[i] = x[i].payload
    BY <1>4
  <2>2. CASE i <= n
    <3>1. i \in 1 .. n /\ 0 + i = i
      BY <1>1, <2>2
    <3>2. x[i] = r[i] /\ b[i] = p[i]
      BY <1>1, <1>2, <1>5, <3>1 DEF StandsAt
    <3> QED BY <1>2, <2>1, <3>1, <3>2
  <2>3. CASE ~ (i <= n)
    <3> DEFINE j == i - n
    <3>1. j \in 1 .. c /\ i = n + j
      BY <1>1, <2>3
    <3> HIDE DEF j
    <3>2. x[n + j] = s[j] /\ b[n + j] = q[j]
      BY <1>1, <1>3, <1>5, <3>1 DEF StandsAt
    <3> QED BY <1>3, <2>1, <3>1, <3>2
  <2> QED BY <2>2, <2>3
<1>7. a = b
  BY <1>4, <1>5, <1>6, SeqEqual
<1> QED BY <1>7 DEF a, b, x, p, q

LEMMA PayloadsInIs ==
    ASSUME NEW id, NEW messages \in Seq(Message)
    PROVE  /\ Only(messages, Own(id)) \in Seq(Message)
           /\ PayloadsIn(id, messages) = Payloads(Only(messages, Own(id)))
           /\ PayloadsIn(id, messages) \in Seq(Seq(Byte))
<1>1. Only(messages, Own(id)) \in Seq(Message)
  BY OnlyOver, Zenon
<1>2. PayloadsIn(id, messages) = Payloads(Only(messages, Own(id)))
  BY DEF PayloadsIn, Payloads, Own
<1> QED BY <1>1, <1>2, PayloadsAre

LEMMA PayloadsInNone ==
    ASSUME NEW id
    PROVE  PayloadsIn(id, <<>>) = <<>>
<1>1. <<>> \in Seq(Message) /\ Len(<<>>) = 0
  BY EmptySeq
<1>2. PayloadsIn(id, <<>>) = Payloads(<<>>)
  BY <1>1, PayloadsInIs, OnlyOfEmpty
<1>3. Payloads(<<>>) \in Seq(Seq(Byte)) /\ Len(Payloads(<<>>)) = 0
  BY <1>1, PayloadsAre
<1> QED BY <1>2, <1>3, EmptySeq

LEMMA PayloadsInAppend ==
    ASSUME NEW id, NEW messages \in Seq(Message), NEW m \in Message
    PROVE  PayloadsIn(id, Append(messages, m)) =
              IF m.id = id THEN Append(PayloadsIn(id, messages), m.payload)
              ELSE PayloadsIn(id, messages)
<1> DEFINE own == Only(messages, Own(id))
           more == Only(Append(messages, m), Own(id))
<1>1. own \in Seq(Message) /\ PayloadsIn(id, messages) = Payloads(own)
  BY PayloadsInIs
<1>2. PayloadsIn(id, Append(messages, m)) = Payloads(more)
  <2>1. Append(messages, m) \in Seq(Message)
    OBVIOUS
  <2> QED BY <2>1, PayloadsInIs, Zenon
<1>3. more = IF m \in Own(id) THEN Append(own, m) ELSE own
  BY OnlyOfAppend
<1>4. m \in Own(id) <=> m.id = id
  BY DEF Own
<1> HIDE DEF own, more
<1>5. Payloads(Append(own, m)) = Append(Payloads(own), m.payload)
  BY <1>1, PayloadsOfAppended
<1> QED BY <1>1, <1>2, <1>3, <1>4, <1>5

LEMMA PayloadsInConcat ==
    ASSUME NEW id, NEW r \in Seq(Message), NEW s \in Seq(Message)
    PROVE  PayloadsIn(id, r \o s) = PayloadsIn(id, r) \o PayloadsIn(id, s)
<1> DEFINE a == Only(r, Own(id))
           b == Only(s, Own(id))
<1>1. a \in Seq(Message) /\ PayloadsIn(id, r) = Payloads(a)
  BY PayloadsInIs
<1>2. b \in Seq(Message) /\ PayloadsIn(id, s) = Payloads(b)
  BY PayloadsInIs
<1>3. PayloadsIn(id, r \o s) = Payloads(Only(r \o s, Own(id)))
  <2>1. r \o s \in Seq(Message)
    OBVIOUS
  <2> QED BY <2>1, PayloadsInIs, Zenon
<1>4. Only(r \o s, Own(id)) = a \o b
  <2>1. \A x, y \in Seq(Message) : Only(x \o y, Own(id)) = Only(x, Own(id)) \o Only(y, Own(id))
    BY OnlyOfConcat
  <2> QED BY <2>1, Zenon
<1> HIDE DEF a, b
<1>5. Payloads(a \o b) = Payloads(a) \o Payloads(b)
  <2>1. Payloads(Cat(a, b)) = Cat(Payloads(a), Payloads(b))
    BY <1>1, <1>2, PayloadsOfJoined
  <2> QED BY <2>1 DEF Cat
<1> QED BY <1>1, <1>2, <1>3, <1>4, <1>5, Zenon

-----------------------------------------------------------------------------
(* The bytes that are not consumed, and what the sender does with them. *)

Unread(taken, stream, left) == Cat(taken, Cat(stream, FlattenSeq(left)))

LEMMA UnreadIs ==
    ASSUME NEW taken \in Seq(Byte), NEW stream \in Seq(Byte), NEW left \in Seq(Piece)
    PROVE  /\ FlattenSeq(left) \in Seq(Byte)
           /\ Cat(stream, FlattenSeq(left)) \in Seq(Byte)
           /\ Unread(taken, stream, left) \in Seq(Byte)
<1>1. FlattenSeq(left) \in Seq(Byte)
  BY PiecesAreBytes, FlattenType
<1>2. Cat(stream, FlattenSeq(left)) \in Seq(Byte)
  BY <1>1, CatAssociates, Zenon
<1>3. Cat(taken, Cat(stream, FlattenSeq(left))) \in Seq(Byte)
  BY <1>2, CatAssociates, Zenon
<1> QED BY <1>1, <1>2, <1>3 DEF Unread

\* A flush moves bytes from the queue to the stream, as far as there is room.
LEMMA FlushMoves ==
    ASSUME NEW left \in Seq(Piece), NEW stream \in Seq(Byte), Len(stream) <= Window
    PROVE  LET flushed == Flush(left, Credit(stream))
           IN  /\ flushed.wire \in Seq(Byte)
               /\ stream \o flushed.wire \in Seq(Byte)
               /\ Len(stream \o flushed.wire) <= Window
               /\ flushed.buffer \in Seq(Piece)
               /\ flushed.returned \in {"true", "false", "error"}
               /\ Cat(stream \o flushed.wire, FlattenSeq(flushed.buffer))
                     = Cat(stream, FlattenSeq(left))
<1> DEFINE credit == Credit(stream)
           flushed == Flush(left, credit)
           x == flushed.wire
           y == FlattenSeq(flushed.buffer)
           z == FlattenSeq(left)
<1>1. credit \in Nat /\ credit = Window - Len(stream) /\ Window \in Nat /\ Len(stream) \in Nat
  BY WindowAssumption DEF Credit
<1> HIDE DEF credit
<1>2. /\ x \in Seq(Byte) /\ flushed.buffer \in Seq(Piece) /\ y \in Seq(Byte)
      /\ flushed.returned \in {"true", "false", "error"}
      /\ x \o y = z /\ Len(x) <= credit
  BY <1>1, FlushDivides, Zenon
<1>3. Cat(x, y) = z
  BY <1>2 DEF Cat
<1> HIDE DEF flushed, x, y, z
<1>4. Cat(Cat(stream, x), y) = Cat(stream, Cat(x, y)) /\ Cat(stream, x) \in Seq(Byte)
  BY <1>2, CatAssociates, Zenon
<1>5. Len(Cat(stream, x)) = Len(stream) + Len(x) /\ Len(x) \in Nat
  BY <1>2 DEF Cat
<1>6. Len(Cat(stream, x)) <= Window
  BY <1>1, <1>2, <1>5
<1>7. Cat(Cat(stream, x), y) = Cat(stream, z)
  BY <1>3, <1>4
<1>8. Cat(stream, x) = stream \o x
  BY DEF Cat
<1> QED BY <1>2, <1>4, <1>6, <1>7, <1>8 DEF flushed, x, y, z, credit

LEMMA EncodedIsPiece ==
    ASSUME AllFit, NEW m \in Message
    PROVE  Encoded(m) \in Piece /\ Len(Encoded(m)) \in Nat /\ Len(Encoded(m)) >= 1
<1>1. Encoded(m) \in Seq(Byte) /\ Len(Encoded(m)) \in Nat /\ Len(Encoded(m)) >= 1
  BY MessageIs, EncodedIs
<1>3. Len(Encoded(m)) # 0
  BY <1>1
<1>2. Len(<<>>) = 0
  OBVIOUS
<1> QED BY <1>1, <1>2, <1>3, Zenon DEF Piece

\* The bytes of a message that is queued are behind those of the queue.
LEMMA PushMoves ==
    ASSUME AllFit, NEW m \in Message, NEW left \in Seq(Piece)
    PROVE  /\ PushMessage(left, Encoded(m)) \in Seq(Piece)
           /\ FlattenSeq(PushMessage(left, Encoded(m))) = Cat(FlattenSeq(left), Encoded(m))
<1> DEFINE e == Encoded(m)
<1>1. e \in Piece /\ e \in Seq(Byte) /\ left \in Seq(Seq(Byte))
  BY EncodedIsPiece, PiecesAreBytes DEF Piece
<1> HIDE DEF e
<1>2. Append(left, e) \in Seq(Piece)
  BY <1>1
<1>3. FlattenSeq(Append(left, e)) = FlattenSeq(left) \o e
  BY <1>1, FlattenOfAppend, Zenon
<1>4. FlattenSeq(left) \o e = Cat(FlattenSeq(left), e)
  BY DEF Cat
<1> QED BY <1>2, <1>3, <1>4 DEF PushMessage, e

LEMMA WriteMoves ==
    ASSUME AllFit, NEW m \in Message,
           NEW left \in Seq(Piece), NEW stream \in Seq(Byte), Len(stream) <= Window
    PROVE  LET first  == Flush(left, Credit(stream))
               second == Flush(PushMessage(first.buffer, Encoded(m)),
                               Credit(stream \o first.wire))
               longer == stream \o first.wire \o second.wire
           IN  /\ longer \in Seq(Byte) /\ Len(longer) <= Window
               /\ second.buffer \in Seq(Piece)
               /\ second.returned \in {"true", "false", "error"}
               /\ Cat(longer, FlattenSeq(second.buffer))
                     = Cat(Cat(stream, FlattenSeq(left)), Encoded(m))
<1> DEFINE first  == Flush(left, Credit(stream))
           between == stream \o first.wire
           pushed == PushMessage(first.buffer, Encoded(m))
           second == Flush(pushed, Credit(between))
           longer == between \o second.wire
           e == Encoded(m)
           f == FlattenSeq(first.buffer)
<1>1. /\ between \in Seq(Byte) /\ Len(between) <= Window /\ first.buffer \in Seq(Piece)
      /\ Cat(between, f) = Cat(stream, FlattenSeq(left))
  BY FlushMoves, Zenon
<1>2. pushed \in Seq(Piece) /\ FlattenSeq(pushed) = Cat(f, e)
  BY <1>1, PushMoves, Zenon
<1>3. f \in Seq(Byte) /\ e \in Seq(Byte)
  BY <1>1, UnreadIs, EncodedIs
<1> HIDE DEF between, pushed, e, f
<1>4. /\ longer \in Seq(Byte) /\ Len(longer) <= Window
      /\ second.buffer \in Seq(Piece)
      /\ second.returned \in {"true", "false", "error"}
      /\ Cat(longer, FlattenSeq(second.buffer)) = Cat(between, FlattenSeq(pushed))
  BY <1>1, <1>2, FlushMoves, Zenon
<1>5. Cat(between, Cat(f, e)) = Cat(Cat(between, f), e)
  <2>1. between \in Seq(Byte)
    BY <1>1
  <2> QED BY <1>3, <2>1, CatAssociates
<1> HIDE DEF longer, second, first
<1>6. Cat(longer, FlattenSeq(second.buffer)) = Cat(Cat(stream, FlattenSeq(left)), e)
  BY <1>1, <1>2, <1>4, <1>5, Zenon
<1> QED BY <1>4, <1>6, Zenon DEF longer, second, first, between, pushed, e

-----------------------------------------------------------------------------
(* The reader is in step with the queue. *)

\* The first k messages.
First(messages, k) == SubSeq(messages, 1, k)

LEMMA FirstIs ==
    ASSUME NEW V, NEW s \in Seq(V), NEW k \in Nat, k <= Len(s)
    PROVE  /\ First(s, k) \in Seq(V) /\ Len(First(s, k)) = k
           /\ \A i \in 1 .. k : First(s, k)[i] = s[i]
<1>1. Len(s) \in Nat
  OBVIOUS
<1> QED BY <1>1, CutIs DEF First

LEMMA FirstOfAppend ==
    ASSUME NEW V, NEW s \in Seq(V), NEW k \in Nat, k <= Len(s), NEW e \in V
    PROVE  First(Append(s, e), k) = First(s, k)
<1> DEFINE more == Append(s, e)
           a == First(more, k)
           b == First(s, k)
<1>1. /\ more \in Seq(V) /\ Len(more) = Len(s) + 1 /\ Len(s) \in Nat
      /\ \A i \in 1 .. Len(s) : more[i] = s[i]
  BY AppendProperties
<1>2. b \in Seq(V) /\ Len(b) = k /\ \A i \in 1 .. k : b[i] = s[i]
  BY FirstIs
<1>3. a \in Seq(V) /\ Len(a) = k /\ \A i \in 1 .. k : a[i] = more[i]
  <2> HIDE DEF more
  <2>1. k <= Len(more)
    BY <1>1
  <2> QED BY <1>1, <2>1, FirstIs
<1> HIDE DEF more, a, b
<1>4. \A i \in 1 .. k : a[i] = b[i]
  BY <1>1, <1>2, <1>3
<1>5. a = b
  BY <1>2, <1>3, <1>4, SeqEqual
<1> QED BY <1>5 DEF a, b, more

LEMMA FirstAndNext ==
    ASSUME NEW V, NEW s \in Seq(V), NEW k \in Nat, k < Len(s)
    PROVE  First(s, k + 1) = Append(First(s, k), s[k + 1])
<1> DEFINE a == First(s, k + 1)
           b == First(s, k)
           e == s[k + 1]
           c == Append(b, e)
<1>1. Len(s) \in Nat /\ k <= Len(s) /\ k + 1 <= Len(s) /\ k + 1 \in Nat /\ e \in V
  OBVIOUS
<1>2. b \in Seq(V) /\ Len(b) = k /\ \A i \in 1 .. k : b[i] = s[i]
  BY <1>1, FirstIs
<1>3. a \in Seq(V) /\ Len(a) = k + 1 /\ \A i \in 1 .. k + 1 : a[i] = s[i]
  BY <1>1, FirstIs
<1> HIDE DEF a, b
<1>4. /\ c \in Seq(V) /\ Len(c) = k + 1 /\ c[k + 1] = e
      /\ \A i \in 1 .. k : c[i] = b[i]
  <2> HIDE DEF e
  <2> QED BY <1>1, <1>2, AppendProperties
<1> HIDE DEF c
<1>5. ASSUME NEW i \in 1 .. k + 1 PROVE a[i] = c[i]
  <2>1. CASE i = k + 1
    BY <1>3, <1>4, <2>1
  <2>2. CASE i # k + 1
    <3>1. i \in 1 .. k
      BY <2>2
    <3> QED BY <1>2, <1>3, <1>4, <3>1
  <2> QED BY <2>1, <2>2
<1>6. a = c
  BY <1>3, <1>4, <1>5, SeqEqual
<1> QED BY <1>6 DEF a, c, b, e

\* The bytes begin behind p bytes of the message after the first k, and so far
\* the reader is.  When all messages were read it waits for an id.
InStepAt(messages, k, p, r, bytes) ==
    /\ LiesAt(messages, k, p, bytes)
    /\ \/ k < Len(messages) /\ ReaderAt(messages[k + 1], p, r)
       \/ k = Len(messages) /\ p = 0 /\ r = ReceivingId

InStep(messages, k, r, bytes) == \E p \in Nat : InStepAt(messages, k, p, r, bytes)

LEMMA InStepStarts == InStep(<<>>, 0, ReceivingId, <<>>)
<1>1. Len(<<>>) = 0 /\ 0 \in Nat
  OBVIOUS
<1>2. InStepAt(<<>>, 0, 0, ReceivingId, <<>>)
  BY <1>1, LiesAtStart DEF InStepAt
<1> QED BY <1>1, <1>2, Zenon DEF InStep

LEMMA InStepWrite ==
    ASSUME AllFit, NEW messages \in Seq(Message), NEW k \in Nat, k <= Len(messages),
           NEW r, NEW bytes, InStep(messages, k, r, bytes), NEW m \in Message
    PROVE  InStep(Append(messages, m), k, r, Cat(bytes, Encoded(m)))
<1> DEFINE more == Append(messages, m)
           later == Cat(bytes, Encoded(m))
<1>1. PICK p \in Nat : InStepAt(messages, k, p, r, bytes)
  BY DEF InStep
<1>2. LiesAt(more, k, p, later)
  BY <1>1, LiesAtWrite DEF InStepAt, Cat
<1>3. /\ Len(messages) \in Nat /\ Len(more) = Len(messages) + 1
      /\ more[Len(messages) + 1] = m
      /\ \A i \in 1 .. Len(messages) : more[i] = messages[i]
  BY AppendProperties
<1> HIDE DEF more, later
<1>4. k < Len(more)
  BY <1>3
<1>5. ReaderAt(more[k + 1], p, r)
  <2>1. CASE k < Len(messages) /\ ReaderAt(messages[k + 1], p, r)
    <3>1. k + 1 \in 1 .. Len(messages)
      BY <1>3, <2>1
    <3> QED BY <1>3, <2>1, <3>1
  <2>2. CASE k = Len(messages) /\ p = 0 /\ r = ReceivingId
    <3>1. ReaderAt(m, 0, ReceivingId)
      BY ReaderStarts, Zenon
    <3> QED BY <1>3, <2>2, <3>1
  <2> QED BY <1>1, <2>1, <2>2 DEF InStepAt
<1>6. InStepAt(more, k, p, r, later)
  BY <1>2, <1>4, <1>5 DEF InStepAt
<1> QED BY <1>6 DEF InStep, more, later

\* A reader with bytes to read reads a message.
LEMMA InStepReads ==
    ASSUME AllFit, NEW messages \in Seq(Message), NEW k \in Nat, k <= Len(messages),
           NEW r, NEW taken \in Seq(Byte), taken # <<>>, NEW rest \in Seq(Byte),
           InStep(messages, k, r, Cat(taken, rest))
    PROVE  /\ k < Len(messages) /\ messages[k + 1] \in Message
           /\ \E p \in Nat : /\ LiesAt(messages, k, p, Cat(taken, rest))
                             /\ ReaderAt(messages[k + 1], p, r)
                             /\ Reads(Encoded(messages[k + 1]), p, taken)
<1> DEFINE bytes == Cat(taken, rest)
<1>1. PICK p \in Nat : InStepAt(messages, k, p, r, bytes)
  BY DEF InStep
<1>2. LiesAt(messages, k, p, bytes)
  BY <1>1 DEF InStepAt
<1>3. /\ Len(taken) \in Nat /\ Len(taken) # 0 /\ bytes \in Seq(Byte)
      /\ Len(bytes) = Len(taken) + Len(rest) /\ Len(rest) \in Nat
      /\ StandsAt(taken, 0, bytes)
  <2>1. /\ bytes \in Seq(Byte) /\ Len(bytes) = Len(taken) + Len(rest)
        /\ StandsAt(taken, 0, bytes)
    BY PartsOfTwo, Zenon
  <2> HIDE DEF bytes
  <2>2. Len(taken) \in Nat /\ Len(rest) \in Nat /\ Len(taken) # 0
    BY EmptySeq
  <2> QED BY <2>1, <2>2
<1> HIDE DEF bytes
<1>4. k # Len(messages)
  <2>1. ASSUME k = Len(messages) PROVE FALSE
    <3>1. LiesAt(messages, Len(messages), p, bytes)
      BY <1>2, <2>1
    <3>2. bytes = <<>>
      BY <3>1, LiesAtEnd, Zenon
    <3> DEFINE x == Len(taken)
               y == Len(rest)
    <3>3. x \in Nat /\ y \in Nat /\ x # 0 /\ Len(bytes) = x + y
      BY <1>3, Zenon
    <3>4. Len(bytes) = 0
      BY <3>2
    <3> HIDE DEF x, y, bytes
    <3> QED BY <3>3, <3>4
  <2> QED BY <2>1
<1>5. k < Len(messages) /\ Len(messages) \in Nat
  BY <1>4
<1> DEFINE m == messages[k + 1]
           code == Encoded(m)
<1>6. m \in Message /\ ReaderAt(m, p, r)
  BY <1>1, <1>4, <1>5 DEF InStepAt
<1>7. /\ code \in Seq(Byte) /\ Len(code) - p <= Len(bytes)
      /\ \A j \in 1 .. Len(code) - p : bytes[j] = code[p + j]
  BY <1>2, <1>5, LiesAtReads
<1> HIDE DEF code, m
<1>8. ASSUME NEW j \in 1 .. Len(taken), j <= Len(code) - p PROVE taken[j] = code[p + j]
  <2>1. Len(code) \in Nat /\ j \in 1 .. Len(code) - p /\ 0 + j = j
    BY <1>7, <1>8
  <2>2. bytes[j] = taken[j]
    BY <1>3, <2>1 DEF StandsAt
  <2>3. bytes[j] = code[p + j]
    BY <1>7, <2>1
  <2> QED BY <2>2, <2>3
<1>9. Reads(code, p, taken)
  BY <1>8 DEF Reads
<1> QED BY <1>2, <1>5, <1>6, <1>9, Zenon DEF bytes, code, m

\* The reader takes t bytes, and they do not complete the message, ...
LEMMA InStepPart ==
    ASSUME AllFit, NEW messages \in Seq(Message), NEW k \in Nat, k < Len(messages),
           NEW p \in Nat, NEW taken \in Seq(Byte), NEW rest \in Seq(Byte),
           LiesAt(messages, k, p, Cat(taken, rest)), NEW t \in Nat, t <= Len(taken),
           NEW r, ReaderAt(messages[k + 1], p + t, r)
    PROVE  /\ SubSeq(taken, t + 1, Len(taken)) \in Seq(Byte)
           /\ InStep(messages, k, r, Cat(SubSeq(taken, t + 1, Len(taken)), rest))
<1> DEFINE left == SubSeq(taken, t + 1, Len(taken))
<1>1. k <= Len(messages) /\ p + t \in Nat
  OBVIOUS
<1>2. left \in Seq(Byte) /\ LiesAt(messages, k, p + t, Cat(left, rest))
  BY <1>1, LiesAtTaken DEF Cat
<1> HIDE DEF left
<1>3. InStepAt(messages, k, p + t, r, Cat(left, rest))
  BY <1>2 DEF InStepAt
<1>4. InStep(messages, k, r, Cat(left, rest))
  BY <1>1, <1>3, Zenon DEF InStep
<1> QED BY <1>2, <1>4 DEF left

\* ... or they do.
LEMMA InStepWhole ==
    ASSUME AllFit, NEW messages \in Seq(Message), NEW k \in Nat, k < Len(messages),
           NEW p \in Nat, NEW taken \in Seq(Byte), NEW rest \in Seq(Byte),
           LiesAt(messages, k, p, Cat(taken, rest)), NEW t \in Nat, t <= Len(taken),
           p + t = Len(Encoded(messages[k + 1]))
    PROVE  /\ SubSeq(taken, t + 1, Len(taken)) \in Seq(Byte)
           /\ InStep(messages, k + 1, ReceivingId,
                     Cat(SubSeq(taken, t + 1, Len(taken)), rest))
<1> DEFINE left == SubSeq(taken, t + 1, Len(taken))
<1>1. k <= Len(messages) /\ p + t \in Nat /\ Len(messages) \in Nat /\ k + 1 <= Len(messages)
  OBVIOUS
<1>2. left \in Seq(Byte) /\ LiesAt(messages, k, p + t, Cat(left, rest))
  BY <1>1, LiesAtTaken DEF Cat
<1> HIDE DEF left
<1>3. LiesAt(messages, k + 1, 0, Cat(left, rest))
  BY <1>1, <1>2, LiesAtNext
<1>4. InStepAt(messages, k + 1, 0, ReceivingId, Cat(left, rest))
  <2>1. CASE k + 1 < Len(messages)
    <3>1. messages[(k + 1) + 1] \in Message
      BY <2>1
    <3>2. ReaderAt(messages[(k + 1) + 1], 0, ReceivingId)
      BY <3>1, ReaderStarts, Zenon
    <3> QED BY <1>3, <2>1, <3>2 DEF InStepAt
  <2>2. CASE k + 1 = Len(messages)
    BY <1>3, <2>2 DEF InStepAt
  <2> QED BY <1>1, <2>1, <2>2
<1>5. InStep(messages, k + 1, ReceivingId, Cat(left, rest))
  BY <1>4 DEF InStep
<1> QED BY <1>2, <1>5 DEF left

\* A message is incomplete before its last byte, unless its payload has no bytes.
LEMMA ReaderBeforeEnd ==
    ASSUME AllFit, NEW m \in Message, NEW p \in Nat, NEW r, ReaderAt(m, p, r),
           Len(Encoded(m)) - p <= 0
    PROVE  p = Len(Encoded(m)) /\ m.payload = <<>>
<1> DEFINE a == Size(m.id)
           b == Size(Len(m.payload))
           c == Len(m.payload)
           n == Len(Encoded(m))
<1>1. a \in Nat /\ b \in Nat /\ c \in Nat /\ n = a + b + c /\ m.payload \in Seq(Byte)
  BY MessageIs, EncodedIs
<1>2. p < a \/ p < a + b \/ p < a + b + c \/ (p = a + b /\ c = 0)
  BY DEF ReaderAt
<1>3. n - p <= 0
  OBVIOUS
<1> HIDE DEF a, b, c, n
<1>4. p = n /\ c = 0
  BY <1>1, <1>2, <1>3
<1> QED BY <1>1, <1>4, EmptySeq DEF c, n

\* When there are no more bytes, everything has been received, or everything but
\* a last message without a payload.
LEMMA InStepEnd ==
    ASSUME AllFit, NEW messages \in Seq(Message), NEW k \in Nat, k <= Len(messages),
           NEW r, InStep(messages, k, r, <<>>)
    PROVE  \/ k = Len(messages)
           \/ k + 1 = Len(messages) /\ messages[k + 1].payload = <<>>
<1> SUFFICES ASSUME k # Len(messages)
             PROVE  k + 1 = Len(messages) /\ messages[k + 1].payload = <<>>
  OBVIOUS
<1>1. PICK p \in Nat : InStepAt(messages, k, p, r, <<>>)
  BY DEF InStep
<1>2. k < Len(messages) /\ Len(messages) \in Nat
  OBVIOUS
<1>3. LiesAt(messages, k, p, <<>>) /\ ReaderAt(messages[k + 1], p, r)
  BY <1>1, <1>2 DEF InStepAt
<1>4. messages[k + 1] \in Message /\ Len(<<>>) = 0
  BY <1>2
<1>5. Len(Encoded(messages[k + 1])) - p <= 0
  BY <1>2, <1>3, <1>4, LiesAtReads
<1>6. p = Len(Encoded(messages[k + 1])) /\ messages[k + 1].payload = <<>>
  BY <1>3, <1>4, <1>5, ReaderBeforeEnd, Zenon
<1>7. LiesAt(messages, k + 1, 0, <<>>)
  BY <1>2, <1>3, <1>6, LiesAtNext, Zenon
<1>8. ASSUME k + 1 < Len(messages) PROVE FALSE
  <2> DEFINE m == messages[(k + 1) + 1]
  <2>1. m \in Message /\ k + 1 \in Nat /\ 0 \in Nat
    BY <1>2, <1>8
  <2>2. Len(Encoded(m)) - 0 <= Len(<<>>)
    BY <1>7, <1>8, <2>1, LiesAtReads
  <2> HIDE DEF m
  <2>3. Len(Encoded(m)) \in Nat /\ Len(Encoded(m)) >= 1
    BY <2>1, EncodedIsPiece, Zenon
  <2> QED BY <1>4, <2>2, <2>3
<1> QED BY <1>2, <1>6, <1>8

\* The types of the reader.
ReaderTyped(r) ==
    \/ r.state = "Id" /\ r.decoder.received <= Limit
    \/ r.state = "Length" /\ r.decoder.received <= Limit /\ r.id \in MessageIds
    \/ r.state = "Message" /\ r.id \in MessageIds /\ Len(r.buffer) <= r.length

LEMMA ReaderAtTyped ==
    ASSUME AllFit, NEW m \in Message, NEW p \in Nat, NEW r, ReaderAt(m, p, r)
    PROVE  ReaderTyped(r)
<1> DEFINE a == Size(m.id)
           c == Len(m.payload)
           b == Size(c)
           s == m.payload
<1>1. /\ a \in Nat /\ b \in Nat /\ c \in Nat /\ Limit \in Nat
      /\ a <= Limit + 1 /\ b <= Limit + 1 /\ s \in Seq(Byte) /\ m.id \in MessageIds
  BY MessageIs, FitsIsShort, LimitAssumption
<1>2. CASE p < a /\ r = [state |-> "Id", decoder |-> Partial(m.id, p)]
  <2>1. p <= Limit
    BY <1>1, <1>2
  <2>2. r.state = "Id" /\ r.decoder.received = p
    BY <1>2 DEF Partial
  <2> QED BY <2>1, <2>2 DEF ReaderTyped
<1>3. CASE /\ a <= p /\ p < a + b
           /\ r = [state |-> "Length", id |-> m.id, decoder |-> Partial(c, p - a)]
  <2>1. p - a <= Limit
    <3> HIDE DEF a, b
    <3> QED BY <1>1, <1>3
  <2>2. r.state = "Length" /\ r.decoder.received = p - a /\ r.id = m.id
    BY <1>3 DEF Partial
  <2> QED BY <1>1, <2>1, <2>2 DEF ReaderTyped
<1>4. CASE /\ a + b <= p /\ (p < a + b + c \/ (p = a + b /\ c = 0))
           /\ r = [state |-> "Message", id |-> m.id, length |-> c,
                   buffer |-> SubSeq(s, 1, p - (a + b))]
  <2>1. p - (a + b) \in Nat /\ p - (a + b) <= c
    <3> HIDE DEF a, b, c
    <3> QED BY <1>1, <1>4
  <2>2. Len(SubSeq(s, 1, p - (a + b))) = p - (a + b)
    <3> HIDE DEF a, b
    <3> QED BY <1>1, <2>1, CutIs
  <2>3. /\ r.state = "Message" /\ r.length = c /\ r.id = m.id
        /\ r.buffer = SubSeq(s, 1, p - (a + b))
    BY <1>4
  <2> QED BY <1>1, <2>1, <2>2, <2>3 DEF ReaderTyped
<1> QED BY <1>2, <1>3, <1>4 DEF ReaderAt

LEMMA InStepTyped ==
    ASSUME AllFit, NEW messages \in Seq(Message), NEW k \in Nat, k <= Len(messages),
           NEW r, NEW bytes, InStep(messages, k, r, bytes)
    PROVE  ReaderTyped(r) /\ r # Gone
<1>1. PICK p \in Nat : InStepAt(messages, k, p, r, bytes)
  BY DEF InStep
<1>2. ReaderTyped(r)
  <2>1. CASE k < Len(messages) /\ ReaderAt(messages[k + 1], p, r)
    <3>1. messages[k + 1] \in Message
      BY <2>1
    <3> QED BY <2>1, <3>1, ReaderAtTyped
  <2>2. CASE r = ReceivingId
    BY <2>2, LimitAssumption DEF ReceivingId, VarIntDecoder, ReaderTyped
  <2> QED BY <1>1, <2>1, <2>2 DEF InStepAt
<1> QED BY <1>2 DEF ReaderTyped, Gone

-----------------------------------------------------------------------------
(* The invariant: k messages have been received, whole and in the order of   *)
(* the queue, and the bytes that are not consumed are those of the rest of   *)
(* the queue, of which the reader knows how far it has come.                 *)

Received(messages, k, result) ==
    result = [id \in MessageIds |-> PayloadsIn(id, First(messages, k))]

\* At most a last message without a payload is lacking.
Complete(messages, k) ==
    \/ k = Len(messages)
    \/ k + 1 = Len(messages) /\ messages[k + 1].payload = <<>>

ReadUpTo(k) ==
    /\ Received(queued, k, received)
    /\ \/ InStep(queued, k, reader, Unread(chunk, wire, buffer))
       \/ reader = Gone /\ closed /\ chunk = <<>> /\ wire = <<>> /\ Complete(queued, k)

StreamTypes ==
    /\ buffer \in Seq(Piece) /\ closed \in BOOLEAN
    /\ closed => buffer = <<>>
    /\ wire \in Seq(Byte) /\ Len(wire) <= Window
    /\ chunk \in Seq(Byte) /\ Len(chunk) <= Window
    /\ queued \in Seq(Message)
    /\ written \in [queue : BOOLEAN, returned : {"true", "false", "error"}]

StreamInv == StreamTypes /\ \E k \in 0 .. Len(queued) : ReadUpTo(k)

LEMMA StreamStarts == Init => StreamInv
<1> SUFFICES ASSUME Init PROVE StreamInv
  OBVIOUS
<1>1. /\ <<>> \in Seq(Byte) /\ <<>> \in Seq(Piece) /\ <<>> \in Seq(Message) /\ Len(<<>>) = 0
      /\ 0 <= Window
  BY EmptySeq, WindowAssumption
<1>2. StreamTypes
  BY <1>1 DEF Init, StreamTypes
<1>3. First(<<>>, 0) = <<>>
  BY SubSeqEmpty DEF First
<1>4. Received(<<>>, 0, [id \in MessageIds |-> <<>>])
  BY <1>3, PayloadsInNone DEF Received
<1>5. Unread(<<>>, <<>>, <<>>) = <<>>
  BY FlattenOfEmpty DEF Unread, Cat
<1>6. ReadUpTo(0)
  BY <1>4, <1>5, InStepStarts DEF Init, ReadUpTo
<1>7. 0 \in 0 .. Len(queued)
  BY <1>1 DEF Init
<1> QED BY <1>2, <1>6, <1>7 DEF StreamInv

\* While the sender has not closed the stream, the reader is there.
LEMMA OpenIsRead ==
    ASSUME NEW k, ReadUpTo(k), ~ closed
    PROVE  InStep(queued, k, reader, Unread(chunk, wire, buffer))
  BY DEF ReadUpTo

LEMMA FlushBufferPreserves ==
    ASSUME AllFit, StreamInv, FlushBuffer
    PROVE  StreamInv'
<1>1. PICK k \in 0 .. Len(queued) : ReadUpTo(k)
  BY DEF StreamInv
<1>2. StreamTypes
  BY DEF StreamInv
<1> DEFINE flushed == Flush(buffer, Credit(wire))
<1>3. /\ ~ closed /\ wire' = wire \o flushed.wire /\ buffer' = flushed.buffer
      /\ UNCHANGED <<closed, queued, written, reader, chunk, received>>
  BY DEF FlushBuffer, receiver
<1>4. /\ wire \o flushed.wire \in Seq(Byte) /\ Len(wire \o flushed.wire) <= Window
      /\ flushed.buffer \in Seq(Piece)
      /\ Cat(wire \o flushed.wire, FlattenSeq(flushed.buffer)) = Cat(wire, FlattenSeq(buffer))
  BY <1>2, FlushMoves, Zenon DEF StreamTypes
<1> HIDE DEF flushed
<1>5. StreamTypes'
  BY <1>2, <1>3, <1>4 DEF StreamTypes
<1>6. Unread(chunk', wire', buffer') = Unread(chunk, wire, buffer)
  BY <1>3, <1>4, Zenon DEF Unread
<1>7. InStep(queued, k, reader, Unread(chunk, wire, buffer))
  BY <1>1, <1>3, OpenIsRead
<1>8. InStep(queued', k, reader', Unread(chunk', wire', buffer')) /\ Received(queued', k, received')
  BY <1>1, <1>3, <1>6, <1>7, Zenon DEF ReadUpTo
<1>9. ReadUpTo(k)'
  BY <1>8 DEF ReadUpTo
<1>10. k \in 0 .. Len(queued')
  BY <1>3
<1> QED BY <1>5, <1>9, <1>10 DEF StreamInv

LEMMA WriteMessagePreserves ==
    ASSUME AllFit, StreamInv, NEW m \in Message, NEW queue \in BOOLEAN, WriteMessage(m, queue)
    PROVE  StreamInv'
<1>1. PICK k \in 0 .. Len(queued) : ReadUpTo(k)
  BY DEF StreamInv
<1>2. StreamTypes
  BY DEF StreamInv
<1> DEFINE first  == Flush(buffer, Credit(wire))
           second == Flush(PushMessage(first.buffer, Encoded(m)), Credit(wire \o first.wire))
           longer == wire \o first.wire \o second.wire
<1>3. ~ closed /\ UNCHANGED <<closed, reader, chunk, received>>
  BY DEF WriteMessage, receiver
<1>4. InStep(queued, k, reader, Unread(chunk, wire, buffer)) /\ Received(queued, k, received)
  BY <1>1, <1>3, OpenIsRead DEF ReadUpTo
<1>5. CASE Turned(first, queue)
  <2>1. /\ wire' = wire \o first.wire /\ buffer' = first.buffer /\ queued' = queued
        /\ written' = [queue |-> queue, returned |-> first.returned]
    BY <1>5 DEF WriteMessage
  <2>2. /\ wire \o first.wire \in Seq(Byte) /\ Len(wire \o first.wire) <= Window
        /\ first.buffer \in Seq(Piece) /\ first.returned \in {"true", "false", "error"}
        /\ Cat(wire \o first.wire, FlattenSeq(first.buffer)) = Cat(wire, FlattenSeq(buffer))
    BY <1>2, FlushMoves, Zenon DEF StreamTypes
  <2> HIDE DEF first
  <2>3. StreamTypes'
    BY <1>2, <1>3, <2>1, <2>2 DEF StreamTypes
  <2>4. Unread(chunk', wire', buffer') = Unread(chunk, wire, buffer)
    BY <1>3, <2>1, <2>2, Zenon DEF Unread
  <2>5. InStep(queued', k, reader', Unread(chunk', wire', buffer'))
        /\ Received(queued', k, received')
    BY <1>3, <1>4, <2>1, <2>4, Zenon
  <2>6. ReadUpTo(k)'
    BY <2>5 DEF ReadUpTo
  <2>7. k \in 0 .. Len(queued')
    BY <2>1
  <2> QED BY <2>3, <2>6, <2>7 DEF StreamInv
<1>6. CASE ~ Turned(first, queue)
  <2>1. /\ wire' = longer /\ buffer' = second.buffer /\ queued' = Append(queued, m)
        /\ written' = [queue |-> queue,
                       returned |-> IF second.returned = "error" THEN "error" ELSE "true"]
    BY <1>6 DEF WriteMessage
  <2>2. /\ longer \in Seq(Byte) /\ Len(longer) <= Window
        /\ second.buffer \in Seq(Piece) /\ second.returned \in {"true", "false", "error"}
        /\ Cat(longer, FlattenSeq(second.buffer))
              = Cat(Cat(wire, FlattenSeq(buffer)), Encoded(m))
    BY <1>2, WriteMoves, Zenon DEF StreamTypes
  <2> HIDE DEF first, second, longer
  <2>3. StreamTypes'
    <3>1. Append(queued, m) \in Seq(Message)
      BY <1>2 DEF StreamTypes
    <3>2. written' \in [queue : BOOLEAN, returned : {"true", "false", "error"}]
      BY <2>1
    <3> QED BY <1>2, <1>3, <2>1, <2>2, <3>1, <3>2 DEF StreamTypes
  <2>4. Unread(chunk', wire', buffer') = Cat(Unread(chunk, wire, buffer), Encoded(m))
    <3> DEFINE w == Cat(wire, FlattenSeq(buffer))
               e == Encoded(m)
    <3>1. w \in Seq(Byte) /\ chunk \in Seq(Byte) /\ e \in Seq(Byte)
      BY <1>2, UnreadIs, EncodedIs DEF StreamTypes
    <3>2. Unread(chunk', wire', buffer') = Cat(chunk, Cat(w, e))
      BY <1>3, <2>1, <2>2, Zenon DEF Unread
    <3>3. Unread(chunk, wire, buffer) = Cat(chunk, w)
      BY DEF Unread
    <3> HIDE DEF w, e
    <3>4. Cat(chunk, Cat(w, e)) = Cat(Cat(chunk, w), e)
      BY <3>1, CatAssociates
    <3> QED BY <3>2, <3>3, <3>4, Zenon DEF e
  <2>5. queued \in Seq(Message) /\ Len(queued) \in Nat /\ k \in Nat /\ k <= Len(queued)
    BY <1>2 DEF StreamTypes
  <2>6. InStep(Append(queued, m), k, reader, Cat(Unread(chunk, wire, buffer), Encoded(m)))
    BY <1>4, <2>5, InStepWrite, Zenon
  <2>7. Received(Append(queued, m), k, received)
    <3>1. First(Append(queued, m), k) = First(queued, k)
      BY <2>5, FirstOfAppend, Zenon
    <3> QED BY <1>4, <3>1 DEF Received
  <2>8. InStep(queued', k, reader', Unread(chunk', wire', buffer'))
        /\ Received(queued', k, received')
    BY <1>3, <2>1, <2>4, <2>6, <2>7, Zenon
  <2>9. ReadUpTo(k)'
    BY <2>8 DEF ReadUpTo
  <2>10. k \in 0 .. Len(queued')
    <3>1. Len(queued') = Len(queued) + 1
      BY <2>1, <2>5
    <3> QED BY <2>5, <3>1
  <2> QED BY <2>3, <2>9, <2>10 DEF StreamInv
<1> QED BY <1>5, <1>6

LEMMA CloseUnusedPreserves ==
    ASSUME StreamInv, CloseUnused
    PROVE  StreamInv'
<1>1. PICK k \in 0 .. Len(queued) : ReadUpTo(k)
  BY DEF StreamInv
<1>2. StreamTypes
  BY DEF StreamInv
<1>3. /\ ~ closed /\ buffer = <<>> /\ closed' = TRUE
      /\ UNCHANGED <<buffer, queued, written, wire, reader, chunk, received>>
  BY DEF CloseUnused, receiver
<1>4. StreamTypes'
  BY <1>2, <1>3 DEF StreamTypes
<1>5. ReadUpTo(k)'
  BY <1>1, <1>3 DEF ReadUpTo
<1>6. k \in 0 .. Len(queued')
  BY <1>3
<1> QED BY <1>4, <1>5, <1>6 DEF StreamInv

LEMMA ReadChunkPreserves ==
    ASSUME AllFit, StreamInv, NEW n \in 1 .. Len(wire), ReadChunk(n)
    PROVE  StreamInv'
<1>1. PICK k \in 0 .. Len(queued) : ReadUpTo(k)
  BY DEF StreamInv
<1>2. StreamTypes
  BY DEF StreamInv
<1> DEFINE head == SubSeq(wire, 1, n)
           tail == SubSeq(wire, n + 1, Len(wire))
<1>3. /\ reader # Gone /\ chunk = <<>> /\ chunk' = head /\ wire' = tail
      /\ UNCHANGED <<buffer, closed, queued, written, reader, received>>
  BY DEF ReadChunk, sender
<1>4. wire \in Seq(Byte) /\ Len(wire) \in Nat /\ Len(wire) <= Window /\ Window \in Nat
  BY <1>2, WindowAssumption DEF StreamTypes
<1>5. /\ head \in Seq(Byte) /\ Len(head) = n /\ tail \in Seq(Byte)
      /\ Len(tail) = Len(wire) - n /\ wire = head \o tail
  <2>1. n \in Nat /\ n <= Len(wire)
    BY <1>4
  <2> QED BY <1>4, <2>1, CutIs, Zenon
<1> HIDE DEF head, tail
<1>6. Len(head) <= Window /\ Len(tail) <= Window
  BY <1>4, <1>5
<1>7. StreamTypes'
  BY <1>2, <1>3, <1>5, <1>6 DEF StreamTypes
<1>8. Unread(chunk', wire', buffer') = Unread(chunk, wire, buffer)
  <2> DEFINE rest == FlattenSeq(buffer)
  <2>1. rest \in Seq(Byte) /\ Cat(wire, rest) \in Seq(Byte)
    BY <1>2, UnreadIs DEF StreamTypes
  <2>2. Unread(chunk', wire', buffer') = Cat(head, Cat(tail, rest))
    BY <1>3 DEF Unread
  <2>3. Unread(chunk, wire, buffer) = Cat(<<>>, Cat(wire, rest))
    BY <1>3 DEF Unread
  <2> HIDE DEF rest
  <2>4. Cat(<<>>, Cat(wire, rest)) = Cat(wire, rest)
    <3> DEFINE s == Cat(wire, rest)
    <3>1. s \in Seq(Byte)
      BY <2>1
    <3> HIDE DEF s
    <3>2. <<>> \o s = s
      BY <3>1, ConcatEmptySeq, Zenon
    <3> QED BY <3>2 DEF Cat, s
  <2>5. Cat(Cat(head, tail), rest) = Cat(head, Cat(tail, rest))
    BY <1>5, <2>1, CatAssociates
  <2>6. Cat(head, tail) = wire
    BY <1>5 DEF Cat
  <2> QED BY <2>2, <2>3, <2>4, <2>5, <2>6, Zenon
<1>9. InStep(queued', k, reader', Unread(chunk', wire', buffer')) /\ Received(queued', k, received')
  BY <1>1, <1>3, <1>8 DEF ReadUpTo
<1>10. ReadUpTo(k)'
  BY <1>9 DEF ReadUpTo
<1>11. k \in 0 .. Len(queued')
  BY <1>3
<1> QED BY <1>7, <1>10, <1>11 DEF StreamInv

LEMMA ReadClosedPreserves ==
    ASSUME AllFit, StreamInv, ReadClosed
    PROVE  StreamInv'
<1>1. PICK k \in 0 .. Len(queued) : ReadUpTo(k)
  BY DEF StreamInv
<1>2. StreamTypes
  BY DEF StreamInv
<1>3. /\ reader # Gone /\ chunk = <<>> /\ wire = <<>> /\ closed /\ reader' = Gone
      /\ UNCHANGED <<buffer, closed, queued, written, wire, chunk, received>>
  BY DEF ReadClosed, sender
<1>4. StreamTypes'
  BY <1>2, <1>3 DEF StreamTypes
<1>5. Unread(chunk, wire, buffer) = <<>>
  <2>1. buffer = <<>>
    BY <1>2, <1>3 DEF StreamTypes
  <2> QED BY <1>3, <2>1, FlattenOfEmpty DEF Unread, Cat
<1>6. InStep(queued, k, reader, <<>>)
  BY <1>1, <1>3, <1>5 DEF ReadUpTo
<1>7. Complete(queued, k)
  <2>1. queued \in Seq(Message) /\ k \in Nat /\ k <= Len(queued)
    BY <1>2 DEF StreamTypes
  <2> QED BY <1>6, <2>1, InStepEnd, Zenon DEF Complete
<1>8. ReadUpTo(k)'
  BY <1>1, <1>3, <1>7 DEF ReadUpTo
<1>9. k \in 0 .. Len(queued')
  BY <1>3
<1> QED BY <1>4, <1>8, <1>9 DEF StreamInv

\* What the reader has to read when it handles a chunk.
LEMMA HandlesIs ==
    ASSUME AllFit, StreamInv, chunk # <<>>, NEW k \in 0 .. Len(queued), ReadUpTo(k)
    PROVE  /\ queued \in Seq(Message) /\ k \in Nat /\ k < Len(queued)
           /\ chunk \in Seq(Byte) /\ Cat(wire, FlattenSeq(buffer)) \in Seq(Byte)
           /\ queued[k + 1] \in Message
           /\ \E p \in Nat : /\ LiesAt(queued, k, p, Cat(chunk, Cat(wire, FlattenSeq(buffer))))
                             /\ ReaderAt(queued[k + 1], p, reader)
                             /\ Reads(Encoded(queued[k + 1]), p, chunk)
<1>1. StreamTypes
  BY DEF StreamInv
<1>2. /\ queued \in Seq(Message) /\ k \in Nat /\ k <= Len(queued) /\ chunk \in Seq(Byte)
      /\ Cat(wire, FlattenSeq(buffer)) \in Seq(Byte)
  BY <1>1, UnreadIs DEF StreamTypes
<1>3. InStep(queued, k, reader, Cat(chunk, Cat(wire, FlattenSeq(buffer))))
  BY DEF ReadUpTo, Unread
<1> DEFINE rest == Cat(wire, FlattenSeq(buffer))
<1> HIDE DEF rest
<1>4. /\ k < Len(queued) /\ queued[k + 1] \in Message
      /\ \E p \in Nat : /\ LiesAt(queued, k, p, Cat(chunk, rest))
                        /\ ReaderAt(queued[k + 1], p, reader)
                        /\ Reads(Encoded(queued[k + 1]), p, chunk)
  BY <1>2, <1>3, InStepReads, Zenon DEF rest
<1> QED BY <1>2, <1>4, Zenon DEF rest

\* The rest of a chunk is no longer than the chunk.
LEMMA RestIs ==
    ASSUME StreamTypes, NEW t \in Nat, t <= Len(chunk)
    PROVE  Rest(t) \in Seq(Byte) /\ Len(Rest(t)) <= Window
<1>1. chunk \in Seq(Byte) /\ Len(chunk) \in Nat /\ Len(chunk) <= Window /\ Window \in Nat
  BY WindowAssumption DEF StreamTypes
<1>2. SubSeq(chunk, t + 1, Len(chunk)) \in Seq(Byte)
      /\ Len(SubSeq(chunk, t + 1, Len(chunk))) = Len(chunk) - t
  BY <1>1, CutIs, Zenon
<1>3. Len(chunk) - t <= Window
  BY <1>1
<1> QED BY <1>2, <1>3 DEF Rest

\* A step in which the reader takes t bytes and does not complete the message.
LEMMA PartPreserves ==
    ASSUME AllFit, StreamInv, chunk # <<>>, NEW k \in 0 .. Len(queued), ReadUpTo(k),
           NEW p \in Nat, LiesAt(queued, k, p, Cat(chunk, Cat(wire, FlattenSeq(buffer)))),
           NEW t \in Nat, t <= Len(chunk), NEW r, ReaderAt(queued[k + 1], p + t, r),
           chunk' = Rest(t), reader' = r,
           UNCHANGED <<buffer, closed, queued, written, wire, received>>
    PROVE  StreamInv' /\ reader' # Gone
<1>1. StreamTypes
  BY DEF StreamInv
<1> DEFINE rest == Cat(wire, FlattenSeq(buffer))
<1>2. /\ queued \in Seq(Message) /\ k \in Nat /\ k < Len(queued)
      /\ chunk \in Seq(Byte) /\ rest \in Seq(Byte)
  BY HandlesIs, Zenon
<1>3. LiesAt(queued, k, p, Cat(chunk, rest))
  OBVIOUS
<1> HIDE DEF rest
<1>4. InStep(queued, k, r, Cat(Rest(t), rest))
  BY <1>2, <1>3, InStepPart, Zenon DEF Rest
<1>5. Unread(chunk', wire', buffer') = Cat(Rest(t), rest)
  BY DEF Unread, rest
<1>6. Rest(t) \in Seq(Byte) /\ Len(Rest(t)) <= Window
  BY <1>1, RestIs, Zenon
<1>7. StreamTypes'
  BY <1>1, <1>6 DEF StreamTypes
<1>8. InStep(queued', k, reader', Unread(chunk', wire', buffer'))
  BY <1>4, <1>5
<1>9. Received(queued', k, received')
  BY DEF ReadUpTo
<1>10. ReadUpTo(k)'
  BY <1>8, <1>9 DEF ReadUpTo
<1>11. k \in 0 .. Len(queued')
  OBVIOUS
<1>12. reader' # Gone
  <2>1. queued[k + 1] \in Message /\ p + t \in Nat
    BY <1>2
  <2>2. ReaderTyped(r)
    BY <2>1, ReaderAtTyped, Zenon
  <2> QED BY <2>2 DEF ReaderTyped, Gone
<1> QED BY <1>7, <1>10, <1>11, <1>12 DEF StreamInv

LEMMA ReceiveIdPreserves ==
    ASSUME AllFit, StreamInv, ReceiveId
    PROVE  StreamInv' /\ reader' # Gone
<1>1. PICK k \in 0 .. Len(queued) : ReadUpTo(k)
  BY DEF StreamInv
<1> DEFINE result == PushBytes(reader.decoder, chunk)
           next == IF result.done
                   THEN [state |-> "Length", id |-> result.value, decoder |-> VarIntDecoder]
                   ELSE [reader EXCEPT !.decoder = result.decoder]
<1>2. /\ chunk # <<>> /\ reader.state = "Id" /\ chunk' = Rest(result.taken) /\ reader' = next
      /\ UNCHANGED <<buffer, closed, queued, written, wire, received>>
  BY DEF ReceiveId, sender
<1>3. PICK p \in Nat : /\ LiesAt(queued, k, p, Cat(chunk, Cat(wire, FlattenSeq(buffer))))
                       /\ ReaderAt(queued[k + 1], p, reader)
                       /\ Reads(Encoded(queued[k + 1]), p, chunk)
  BY <1>1, <1>2, HandlesIs, Zenon
<1>4. queued[k + 1] \in Message /\ chunk \in Seq(Byte)
  BY <1>1, <1>2, HandlesIs, Zenon
<1>5. /\ result.taken \in Nat /\ result.taken <= Len(chunk)
      /\ ReaderAt(queued[k + 1], p + result.taken, next)
  BY <1>2, <1>3, <1>4, ReceiveIdReads, Zenon
<1> HIDE DEF result, next
<1> QED BY <1>1, <1>2, <1>3, <1>5, PartPreserves

LEMMA ReceiveLengthPreserves ==
    ASSUME AllFit, StreamInv, ReceiveLength
    PROVE  StreamInv' /\ reader' # Gone
<1>1. PICK k \in 0 .. Len(queued) : ReadUpTo(k)
  BY DEF StreamInv
<1> DEFINE result == PushBytes(reader.decoder, chunk)
           next == IF result.done
                   THEN [state |-> "Message", id |-> reader.id,
                         length |-> result.value, buffer |-> <<>>]
                   ELSE [reader EXCEPT !.decoder = result.decoder]
<1>2. /\ chunk # <<>> /\ reader.state = "Length" /\ chunk' = Rest(result.taken) /\ reader' = next
      /\ UNCHANGED <<buffer, closed, queued, written, wire, received>>
  BY DEF ReceiveLength, sender
<1>3. PICK p \in Nat : /\ LiesAt(queued, k, p, Cat(chunk, Cat(wire, FlattenSeq(buffer))))
                       /\ ReaderAt(queued[k + 1], p, reader)
                       /\ Reads(Encoded(queued[k + 1]), p, chunk)
  BY <1>1, <1>2, HandlesIs, Zenon
<1>4. queued[k + 1] \in Message /\ chunk \in Seq(Byte)
  BY <1>1, <1>2, HandlesIs, Zenon
<1>5. /\ result.taken \in Nat /\ result.taken <= Len(chunk)
      /\ ReaderAt(queued[k + 1], p + result.taken, next)
  BY <1>2, <1>3, <1>4, ReceiveLengthReads, Zenon
<1> HIDE DEF result, next
<1> QED BY <1>1, <1>2, <1>3, <1>5, PartPreserves

\* What has been received when another message has.
LEMMA ReceivedNext ==
    ASSUME NEW messages \in Seq(Message), NEW k \in Nat, k < Len(messages), NEW result,
           Received(messages, k, result), NEW m \in Message, m = messages[k + 1],
           m.id \in MessageIds
    PROVE  Received(messages, k + 1, [result EXCEPT ![m.id] = Append(@, m.payload)])
<1> DEFINE before == First(messages, k)
           after == First(messages, k + 1)
<1>1. after = Append(before, m) /\ before \in Seq(Message)
  <2>1. k <= Len(messages)
    OBVIOUS
  <2>2. after = Append(before, messages[k + 1])
    BY FirstAndNext, Zenon
  <2>3. before \in Seq(Message)
    BY <2>1, FirstIs, Zenon
  <2> QED BY <2>2, <2>3
<1>2. result = [id \in MessageIds |-> PayloadsIn(id, before)]
  BY DEF Received
<1> HIDE DEF before, after
<1>3. ASSUME NEW id \in MessageIds
      PROVE  PayloadsIn(id, after) = IF m.id = id THEN Append(PayloadsIn(id, before), m.payload)
                                     ELSE PayloadsIn(id, before)
  BY <1>1, PayloadsInAppend, Zenon
<1>4. [result EXCEPT ![m.id] = Append(@, m.payload)]
         = [id \in MessageIds |-> PayloadsIn(id, after)]
  BY <1>2, <1>3
<1> QED BY <1>4 DEF Received, after

LEMMA ReceiveMessagePreserves ==
    ASSUME AllFit, StreamInv, ReceiveMessage, NEW k \in 0 .. Len(queued), ReadUpTo(k)
    PROVE  /\ StreamInv' /\ reader' # Gone
           /\ \/ UNCHANGED received
              \/ /\ k < Len(queued)
                 /\ received' = [received EXCEPT ![queued[k + 1].id] =
                                    Append(@, queued[k + 1].payload)]
                 /\ Received(queued, k + 1, received')
<1> DEFINE t == OwnOf(reader, chunk)
           new == reader.buffer \o SubSeq(chunk, 1, t)
           m == queued[k + 1]
           rest == Cat(wire, FlattenSeq(buffer))
<1>2. /\ chunk # <<>> /\ reader.state = "Message" /\ chunk' = Rest(t)
      /\ IF Len(new) = reader.length
         THEN /\ reader' = ReceivingId
              /\ received' = [received EXCEPT ![reader.id] = Append(@, new)]
         ELSE /\ reader' = [reader EXCEPT !.buffer = new]
              /\ UNCHANGED received
      /\ UNCHANGED <<buffer, closed, queued, written, wire>>
  BY DEF ReceiveMessage, sender, Taken, OwnOf
<1>3. PICK p \in Nat : /\ LiesAt(queued, k, p, Cat(chunk, rest))
                       /\ ReaderAt(m, p, reader)
                       /\ Reads(Encoded(m), p, chunk)
  BY <1>2, HandlesIs, Zenon
<1>4. /\ m \in Message /\ chunk \in Seq(Byte) /\ rest \in Seq(Byte)
      /\ queued \in Seq(Message) /\ k \in Nat /\ k < Len(queued)
  BY <1>2, HandlesIs, Zenon
<1>5. /\ t \in Nat /\ t <= Len(chunk) /\ reader.id = m.id
      /\ IF Len(new) = reader.length
         THEN p + t = Len(Encoded(m)) /\ new = m.payload
         ELSE ReaderAt(m, p + t, [reader EXCEPT !.buffer = new])
  BY <1>2, <1>3, <1>4, ReceiveMessageReads, Zenon
<1>6. CASE Len(new) # reader.length
  <2>1. /\ ReaderAt(m, p + t, [reader EXCEPT !.buffer = new])
        /\ reader' = [reader EXCEPT !.buffer = new] /\ UNCHANGED received
    BY <1>2, <1>5, <1>6
  <2> HIDE DEF t, new
  <2> QED BY <1>2, <1>3, <1>5, <2>1, PartPreserves
<1>7. CASE Len(new) = reader.length
  <2>1. /\ p + t = Len(Encoded(m)) /\ new = m.payload /\ reader' = ReceivingId
        /\ received' = [received EXCEPT ![m.id] = Append(@, m.payload)]
    BY <1>2, <1>5, <1>7
  <2> HIDE DEF t, new, rest
  <2>2. InStep(queued, k + 1, ReceivingId, Cat(Rest(t), rest))
    BY <1>3, <1>4, <1>5, <2>1, InStepWhole, Zenon DEF Rest
  <2>3. StreamTypes'
    <3>1. StreamTypes
      BY DEF StreamInv
    <3>2. Rest(t) \in Seq(Byte) /\ Len(Rest(t)) <= Window
      BY <1>5, <3>1, RestIs, Zenon
    <3> QED BY <1>2, <3>1, <3>2 DEF StreamTypes
  <2>4. Received(queued, k + 1, received')
    <3>1. m.id \in MessageIds /\ Received(queued, k, received)
      BY <1>4 DEF MessageIds, ReadUpTo
    <3> QED BY <1>4, <2>1, <3>1, ReceivedNext, Zenon
  <2>5. Unread(chunk', wire', buffer') = Cat(Rest(t), rest)
    BY <1>2 DEF Unread, rest
  <2>6. InStep(queued', k + 1, reader', Unread(chunk', wire', buffer'))
        /\ Received(queued', k + 1, received')
    BY <1>2, <2>1, <2>2, <2>4, <2>5
  <2>7. ReadUpTo(k + 1)'
    BY <2>6 DEF ReadUpTo
  <2>8. k + 1 \in 0 .. Len(queued')
    BY <1>2, <1>4
  <2>9. reader' # Gone
    BY <2>1 DEF ReceivingId, Gone
  <2> QED BY <1>4, <2>1, <2>3, <2>4, <2>7, <2>8, <2>9 DEF StreamInv
<1> QED BY <1>6, <1>7

LEMMA StreamPreserved == AllFit /\ StreamInv /\ [Next]_vars => StreamInv'
<1> SUFFICES ASSUME AllFit, StreamInv, [Next]_vars PROVE StreamInv'
  OBVIOUS
<1>1. ASSUME NEW m \in Message, NEW queue \in BOOLEAN, WriteMessage(m, queue) PROVE StreamInv'
  BY <1>1, WriteMessagePreserves
<1>2. CASE FlushBuffer
  BY <1>2, FlushBufferPreserves
<1>3. CASE CloseUnused
  BY <1>3, CloseUnusedPreserves
<1>4. ASSUME NEW n \in 1 .. Len(wire), ReadChunk(n) PROVE StreamInv'
  BY <1>4, ReadChunkPreserves
<1>5. CASE ReadClosed
  BY <1>5, ReadClosedPreserves
<1>6. CASE ReceiveId
  BY <1>6, ReceiveIdPreserves
<1>7. CASE ReceiveLength
  BY <1>7, ReceiveLengthPreserves
<1>8. CASE ReceiveMessage
  <2>1. PICK k \in 0 .. Len(queued) : ReadUpTo(k)
    BY DEF StreamInv
  <2> QED BY <1>8, <2>1, ReceiveMessagePreserves
<1>9. CASE UNCHANGED vars
  <2>1. UNCHANGED <<buffer, closed, wire, reader, chunk, received, queued, written>>
    BY <1>9 DEF vars, sender, receiver
  <2>2. StreamTypes'
    BY <2>1 DEF StreamInv, StreamTypes
  <2>3. ASSUME NEW k \in 0 .. Len(queued), ReadUpTo(k) PROVE ReadUpTo(k)'
    BY <2>1, <2>3 DEF ReadUpTo
  <2> QED BY <2>1, <2>2, <2>3 DEF StreamInv
<1> QED BY <1>1, <1>2, <1>3, <1>4, <1>5, <1>6, <1>7, <1>8, <1>9 DEF Next, Read

LEMMA StreamInductive ==
    ASSUME AllFit
    PROVE  Spec => []StreamInv
<1>1. StreamInv /\ [Next]_vars => StreamInv'
  BY StreamPreserved
<1> QED BY <1>1, StreamStarts, PTL DEF Spec

-----------------------------------------------------------------------------
(* What holds of every stream.                                              *)

\* A reader's buffer never outgrows the length it subtracts it from, a decoder
\* never goes past the limit, the transport never holds more than its window,
\* whatever is flushed, read and cut where (writer.rs, reader.rs).
THEOREM TypeCorrect ==
    ASSUME \A m \in Message : Fits(m.id) /\ Fits(Len(m.payload))
    PROVE  Spec => []TypeOK
<1>1. AllFit
  BY DEF AllFit
<1>2. StreamInv => TypeOK
  <2> SUFFICES ASSUME StreamInv PROVE TypeOK
    OBVIOUS
  <2>1. StreamTypes
    BY DEF StreamInv
  <2>2. PICK k \in 0 .. Len(queued) : ReadUpTo(k)
    BY DEF StreamInv
  <2>3. queued \in Seq(Message) /\ k \in Nat /\ k <= Len(queued)
    BY <2>1 DEF StreamTypes
  <2>4. received \in [MessageIds -> Seq(Seq(Byte))]
    <3>1. First(queued, k) \in Seq(Message)
      BY <2>3, FirstIs, Zenon
    <3>2. \A id \in MessageIds : PayloadsIn(id, First(queued, k)) \in Seq(Seq(Byte))
      BY <3>1, PayloadsInIs, Zenon
    <3>3. received = [id \in MessageIds |-> PayloadsIn(id, First(queued, k))]
      BY <2>2 DEF ReadUpTo, Received
    <3> QED BY <3>2, <3>3
  <2>5. reader = Gone \/ ReaderTyped(reader)
    <3>1. CASE InStep(queued, k, reader, Unread(chunk, wire, buffer))
      BY <1>1, <2>3, <3>1, InStepTyped, Zenon
    <3> QED BY <2>2, <3>1 DEF ReadUpTo
  <2>6. buffer \in Seq(Seq(Byte) \ {<<>>})
    BY <2>1 DEF StreamTypes, Piece
  <2> QED BY <2>1, <2>4, <2>5, <2>6 DEF StreamTypes, ReaderTyped, TypeOK
<1> QED BY <1>1, <1>2, StreamInductive, PTL

\* The messages of the queue are those received and the others.
After(messages, k) == SubSeq(messages, k + 1, Len(messages))

LEMMA AfterIs ==
    ASSUME NEW V, NEW s \in Seq(V), NEW k \in Nat, k <= Len(s)
    PROVE  /\ After(s, k) \in Seq(V) /\ Len(After(s, k)) = Len(s) - k
           /\ \A i \in 1 .. Len(s) - k : After(s, k)[i] = s[k + i]
  BY DEF After

LEMMA PayloadsOfRest ==
    ASSUME NEW messages \in Seq(Message), NEW k \in Nat, k <= Len(messages), NEW id
    PROVE  /\ First(messages, k) \in Seq(Message) /\ After(messages, k) \in Seq(Message)
           /\ PayloadsIn(id, First(messages, k)) \in Seq(Seq(Byte))
           /\ PayloadsIn(id, After(messages, k)) \in Seq(Seq(Byte))
           /\ PayloadsIn(id, messages) =
                 PayloadsIn(id, First(messages, k)) \o PayloadsIn(id, After(messages, k))
<1> DEFINE a == First(messages, k)
           b == After(messages, k)
<1>1. a \in Seq(Message) /\ b \in Seq(Message) /\ messages = a \o b
  BY CutIs, Zenon DEF First, After
<1> HIDE DEF a, b
<1>2. PayloadsIn(id, a) \in Seq(Seq(Byte)) /\ PayloadsIn(id, b) \in Seq(Seq(Byte))
  BY <1>1, PayloadsInIs, Zenon
<1>3. PayloadsIn(id, messages) = PayloadsIn(id, a) \o PayloadsIn(id, b)
  <2>1. \A x, y \in Seq(Message) :
           PayloadsIn(id, x \o y) = PayloadsIn(id, x) \o PayloadsIn(id, y)
    BY PayloadsInConcat
  <2> QED BY <1>1, <2>1, Zenon
<1> QED BY <1>1, <1>2, <1>3 DEF a, b

\* The messages of an id come out as they were queued, whole and in the order of
\* write: a partial write, a flush that failed, a full window and a chunk that
\* ends anywhere change nothing in that.
THEOREM InOrderAlways ==
    ASSUME \A m \in Message : Fits(m.id) /\ Fits(Len(m.payload))
    PROVE  Spec => []InOrder
<1>1. AllFit
  BY DEF AllFit
<1>2. StreamInv => InOrder
  <2> SUFFICES ASSUME StreamInv, NEW id \in MessageIds
               PROVE  IsPrefix(received[id], PayloadsOf(id))
    BY DEF InOrder
  <2>1. PICK k \in 0 .. Len(queued) : ReadUpTo(k)
    BY DEF StreamInv
  <2>2. queued \in Seq(Message) /\ k \in Nat /\ k <= Len(queued)
    BY DEF StreamInv, StreamTypes
  <2> DEFINE a == PayloadsIn(id, First(queued, k))
             b == PayloadsIn(id, After(queued, k))
  <2>3. a \in Seq(Seq(Byte)) /\ b \in Seq(Seq(Byte)) /\ PayloadsOf(id) = a \o b
    BY <2>2, PayloadsOfRest DEF PayloadsOf
  <2>4. received[id] = a
    BY <2>1 DEF ReadUpTo, Received
  <2> HIDE DEF a, b
  <2>5. IsPrefix(a, a \o b)
    BY <2>3, PrefixOfConcat, Zenon
  <2> QED BY <2>3, <2>4, <2>5, Zenon
<1> QED BY <1>1, <1>2, StreamInductive, PTL

\* When the reader finds the stream closed, all that was queued on it has been
\* delivered, or all but the last message, if that has no payload.
LEMMA GoneIsComplete ==
    ASSUME AllFit, StreamInv, reader = Gone
    PROVE  \E k \in 0 .. Len(queued) : Received(queued, k, received) /\ Complete(queued, k)
<1>1. PICK k \in 0 .. Len(queued) : ReadUpTo(k)
  BY DEF StreamInv
<1>2. queued \in Seq(Message) /\ k \in Nat /\ k <= Len(queued)
  BY DEF StreamInv, StreamTypes
<1>3. ~ InStep(queued, k, reader, Unread(chunk, wire, buffer))
  BY <1>2, InStepTyped, Zenon
<1> QED BY <1>1, <1>3 DEF ReadUpTo

NoneEmpty == \A m \in Message : m.payload # <<>>

LEMMA CompleteIsAll ==
    ASSUME NoneEmpty, NEW messages \in Seq(Message), NEW k \in Nat, Complete(messages, k)
    PROVE  k = Len(messages)
<1>1. ASSUME k + 1 = Len(messages) PROVE messages[k + 1].payload # <<>>
  <2>1. messages[k + 1] \in Message
    BY <1>1
  <2> QED BY <2>1 DEF NoneEmpty
<1> QED BY <1>1 DEF Complete

\* close_unused_streams (writer.rs) loses no message: with payloads that have at
\* least a byte, the reader that finds the stream closed has delivered them all.
THEOREM NoneLost ==
    ASSUME \A m \in Message : Fits(m.id) /\ Fits(Len(m.payload)),
           \A m \in Message : m.payload # <<>>
    PROVE  Spec => []NoneLostAtClose
<1>1. AllFit /\ NoneEmpty
  BY DEF AllFit, NoneEmpty
<1>2. StreamInv => NoneLostAtClose
  <2> SUFFICES ASSUME StreamInv, reader = Gone, NEW id \in MessageIds
               PROVE  received[id] = PayloadsOf(id)
    BY DEF NoneLostAtClose, Delivers
  <2>1. PICK k \in 0 .. Len(queued) : Received(queued, k, received) /\ Complete(queued, k)
    BY <1>1, GoneIsComplete
  <2>2. queued \in Seq(Message) /\ k \in Nat
    BY DEF StreamInv, StreamTypes
  <2>3. k = Len(queued)
    BY <1>1, <2>1, <2>2, CompleteIsAll, Zenon
  <2>4. First(queued, k) = queued
    BY <2>2, <2>3, SubSeqFull DEF First
  <2>5. received[id] = PayloadsIn(id, First(queued, k))
    BY <2>1 DEF Received
  <2> QED BY <2>4, <2>5 DEF PayloadsOf
<1> QED BY <1>1, <1>2, StreamInductive, PTL

\* When the stream has ended, at most a last message without a payload is lacking.
AllButLast ==
    reader = Gone =>
        \E k \in 0 .. Len(queued) : Received(queued, k, received) /\ Complete(queued, k)

\* What a payload without bytes can cost (reader.rs pushes such a message only
\* when bytes of the next one arrive): the last message of the stream, no other.
THEOREM OnlyLastIsLost ==
    ASSUME \A m \in Message : Fits(m.id) /\ Fits(Len(m.payload))
    PROVE  Spec => []AllButLast
<1>1. AllFit
  BY DEF AllFit
<1>2. StreamInv => AllButLast
  BY <1>1, GoneIsComplete DEF AllButLast
<1> QED BY <1>1, <1>2, StreamInductive, PTL

-----------------------------------------------------------------------------
(* The stream is a channel of messages (MessageChannel).                    *)

\* What is pending when k messages have been received.
Pending(messages, k) == [id \in MessageIds |-> PayloadsIn(id, After(messages, k))]

StateOf(r, ended) == IF r = Gone THEN "ended" ELSE IF ended THEN "closed" ELSE "open"

\* A sequence behind another.
LEMMA BehindIs ==
    ASSUME NEW V, NEW a \in Seq(V), NEW b \in Seq(V)
    PROVE  SubSeq(a \o b, Len(a) + 1, Len(a \o b)) = b
<1>1. Len(a) \in Nat /\ Len(a) <= Len(a)
  OBVIOUS
<1>2. SubSeq(a \o b, Len(a) + 1, Len(a \o b)) = SubSeq(a, Len(a) + 1, Len(a)) \o b
  BY <1>1, SubSeqOfConcat, Zenon
<1>3. SubSeq(a, Len(a) + 1, Len(a)) = <<>>
  BY <1>1, SubSeqEmpty
<1>4. <<>> \o b = b
  BY ConcatEmptySeq, Zenon
<1> QED BY <1>2, <1>3, <1>4, Zenon

PendingOf(messages, result) ==
    [id \in MessageIds |->
        SubSeq(PayloadsIn(id, messages), Len(result[id]) + 1, Len(PayloadsIn(id, messages)))]

LEMMA PendingIs ==
    ASSUME NEW messages \in Seq(Message), NEW k \in Nat, k <= Len(messages), NEW result,
           Received(messages, k, result)
    PROVE  PendingOf(messages, result) = Pending(messages, k)
<1>1. ASSUME NEW id \in MessageIds
      PROVE  SubSeq(PayloadsIn(id, messages), Len(result[id]) + 1,
                    Len(PayloadsIn(id, messages))) = PayloadsIn(id, After(messages, k))
  <2> DEFINE a == PayloadsIn(id, First(messages, k))
             b == PayloadsIn(id, After(messages, k))
  <2>1. a \in Seq(Seq(Byte)) /\ b \in Seq(Seq(Byte)) /\ PayloadsIn(id, messages) = a \o b
    BY PayloadsOfRest
  <2>2. result[id] = a
    BY DEF Received
  <2> HIDE DEF a, b
  <2>3. SubSeq(a \o b, Len(a) + 1, Len(a \o b)) = b
    BY <2>1, BehindIs, Zenon
  <2> QED BY <2>1, <2>2, <2>3, Zenon DEF b
<1> QED BY <1>1 DEF PendingOf, Pending

LEMMA PendingNone ==
    ASSUME NEW messages \in Seq(Message)
    PROVE  Pending(messages, Len(messages)) = [id \in MessageIds |-> <<>>]
<1>1. After(messages, Len(messages)) = <<>>
  <2>1. Len(messages) \in Nat /\ Len(messages) < Len(messages) + 1
    OBVIOUS
  <2> QED BY <2>1, SubSeqEmpty DEF After
<1> QED BY <1>1, PayloadsInNone DEF Pending

\* A message that is queued is pending behind the others.
LEMMA PendingWrite ==
    ASSUME NEW messages \in Seq(Message), NEW k \in Nat, k <= Len(messages), NEW m \in Message
    PROVE  Pending(Append(messages, m), k) =
              [Pending(messages, k) EXCEPT ![m.id] = Append(@, m.payload)]
<1> DEFINE more == Append(messages, m)
           n == Len(messages)
           a == After(more, k)
           b == After(messages, k)
           c == Append(b, m)
<1>1. /\ more \in Seq(Message) /\ n \in Nat /\ Len(more) = n + 1 /\ more[n + 1] = m
      /\ \A i \in 1 .. n : more[i] = messages[i]
  BY AppendProperties
<1>2. /\ b \in Seq(Message) /\ Len(b) = n - k
      /\ \A i \in 1 .. n - k : b[i] = messages[k + i]
  BY DEF After
<1>3. /\ a \in Seq(Message) /\ Len(a) = n + 1 - k
      /\ \A i \in 1 .. n + 1 - k : a[i] = more[k + i]
  <2> HIDE DEF more, n
  <2>1. more \in Seq(Message) /\ k <= Len(more)
    BY <1>1 DEF n
  <2>2. /\ a \in Seq(Message) /\ Len(a) = Len(more) - k
        /\ \A i \in 1 .. Len(more) - k : a[i] = more[k + i]
    BY <2>1, AfterIs, Zenon
  <2> HIDE DEF a
  <2> QED BY <1>1, <2>2
<1> HIDE DEF more, a, b, n
<1>4. /\ c \in Seq(Message) /\ Len(c) = n + 1 - k /\ c[n + 1 - k] = m
      /\ \A i \in 1 .. n - k : c[i] = b[i]
  <2>1. Len(c) = Len(b) + 1 /\ c[Len(b) + 1] = m /\ \A i \in 1 .. Len(b) : c[i] = b[i]
    BY <1>2, AppendProperties
  <2>2. c \in Seq(Message)
    BY <1>2
  <2>3. (n - k) + 1 = n + 1 - k
    BY <1>1
  <2> HIDE DEF c
  <2> QED BY <1>2, <2>1, <2>2, <2>3
<1> HIDE DEF c
<1>5. ASSUME NEW i \in 1 .. n + 1 - k PROVE a[i] = c[i]
  <2>1. CASE i = n + 1 - k
    <3>1. k + i = n + 1
      BY <1>1, <2>1
    <3> QED BY <1>1, <1>3, <1>4, <2>1, <3>1
  <2>2. CASE i # n + 1 - k
    <3>1. i \in 1 .. n - k /\ k + i \in 1 .. n
      BY <1>1, <2>2
    <3> QED BY <1>1, <1>2, <1>3, <1>4, <3>1
  <2> QED BY <2>1, <2>2
<1>6. a = c
  BY <1>3, <1>4, <1>5, SeqEqual
<1>7. ASSUME NEW id \in MessageIds
      PROVE  PayloadsIn(id, a) = IF m.id = id THEN Append(PayloadsIn(id, b), m.payload)
                                 ELSE PayloadsIn(id, b)
  BY <1>2, <1>6, PayloadsInAppend, Zenon DEF c
<1>8. [[id \in MessageIds |-> PayloadsIn(id, b)] EXCEPT ![m.id] = Append(@, m.payload)]
         = [id \in MessageIds |-> PayloadsIn(id, a)]
  BY <1>7
<1> QED BY <1>8 DEF Pending, a, b, more

\* The message m is the first of those pending with its id after k messages.
FirstPending(messages, k, m) ==
    LET pending == Pending(messages, k)
    IN  /\ m.id \in MessageIds
        /\ pending[m.id] # <<>> /\ Head(pending[m.id]) = m.payload
        /\ Pending(messages, k + 1) = [pending EXCEPT ![m.id] = Tail(@)]

LEMMA PendingReceive ==
    ASSUME NEW messages \in Seq(Message), NEW k \in Nat, k < Len(messages)
    PROVE  FirstPending(messages, k, messages[k + 1])
<1> DEFINE m == messages[k + 1]
           a == After(messages, k)
           b == After(messages, k + 1)
           one == Append(<<>>, m)
<1>1. m \in Message /\ m.id \in MessageIds /\ m.payload \in Seq(Byte)
  <2>1. m \in Message
    OBVIOUS
  <2> QED BY <2>1, MessageAssumption DEF MessageIds
<1> HIDE DEF m
<1>2. a = one \o b /\ a \in Seq(Message) /\ b \in Seq(Message) /\ one \in Seq(Message)
  <2> DEFINE n == Len(messages)
             c == one \o b
  <2>1. /\ b \in Seq(Message) /\ Len(b) = n - (k + 1)
        /\ \A i \in 1 .. n - (k + 1) : b[i] = messages[(k + 1) + i]
    BY DEF After
  <2>2. /\ a \in Seq(Message) /\ Len(a) = n - k
        /\ \A i \in 1 .. n - k : a[i] = messages[k + i]
    BY DEF After
  <2>3. one \in Seq(Message) /\ Len(one) = 1 /\ one[1] = m
    BY <1>1
  <2>4. n \in Nat
    OBVIOUS
  <2> HIDE DEF a, b, one
  <2>5. /\ Cat(one, b) \in Seq(Message) /\ Len(Cat(one, b)) = Len(one) + Len(b)
        /\ StandsAt(one, 0, Cat(one, b)) /\ StandsAt(b, Len(one), Cat(one, b))
    BY <2>1, <2>3, PartsOfTwo, Zenon
  <2>6. c = Cat(one, b)
    BY DEF Cat
  <2> HIDE DEF n, c
  <2>7. ASSUME NEW i \in 1 .. n - k PROVE a[i] = c[i]
    <3>1. CASE i = 1
      <4>1. 0 + 1 = 1 /\ 1 \in 1 .. 1
        OBVIOUS
      <4>2. c[0 + 1] = one[1]
        BY <2>3, <2>5, <2>6, <4>1 DEF StandsAt
      <4> QED BY <2>2, <2>3, <3>1, <4>1, <4>2 DEF m
    <3>2. CASE i # 1
      <4> DEFINE j == i - 1
      <4>1. j \in 1 .. n - (k + 1) /\ i = 1 + j /\ k + i = (k + 1) + j
        BY <2>4, <3>2
      <4> HIDE DEF j
      <4>2. c[1 + j] = b[j]
        BY <2>1, <2>3, <2>5, <2>6, <4>1 DEF StandsAt
      <4> QED BY <2>1, <2>2, <4>1, <4>2
    <3> QED BY <3>1, <3>2
  <2>8. Len(c) = n - k /\ c \in Seq(Message)
    BY <2>1, <2>3, <2>4, <2>5, <2>6
  <2>9. a = c
    BY <2>2, <2>7, <2>8, SeqEqual
  <2> QED BY <2>1, <2>2, <2>3, <2>9 DEF c
<1> HIDE DEF a, b
<1>3. ASSUME NEW id \in MessageIds
      PROVE  PayloadsIn(id, a) = IF m.id = id THEN <<m.payload>> \o PayloadsIn(id, b)
                                 ELSE PayloadsIn(id, b)
  <2> DEFINE q == PayloadsIn(id, b)
  <2>1. PayloadsIn(id, a) = PayloadsIn(id, one) \o q
    <3>1. \A x, y \in Seq(Message) :
             PayloadsIn(id, x \o y) = PayloadsIn(id, x) \o PayloadsIn(id, y)
      BY PayloadsInConcat
    <3> HIDE DEF one
    <3> QED BY <1>2, <3>1, Zenon
  <2>2. q \in Seq(Seq(Byte))
    BY <1>2, PayloadsInIs
  <2>3. PayloadsIn(id, one) = IF m.id = id THEN Append(<<>>, m.payload) ELSE <<>>
    <3>1. <<>> \in Seq(Message)
      BY EmptySeq
    <3>2. PayloadsIn(id, Append(<<>>, m)) =
             IF m.id = id THEN Append(PayloadsIn(id, <<>>), m.payload) ELSE PayloadsIn(id, <<>>)
      BY <1>1, <3>1, PayloadsInAppend, Zenon
    <3>3. PayloadsIn(id, <<>>) = <<>>
      BY PayloadsInNone, Zenon
    <3> QED BY <3>2, <3>3
  <2> HIDE DEF q, one
  <2>4. Append(<<>>, m.payload) = <<m.payload>> /\ <<>> \o q = q
    BY <2>2
  <2> QED BY <2>1, <2>3, <2>4 DEF q
<1>4. ASSUME NEW q \in Seq(Seq(Byte))
      PROVE  /\ <<m.payload>> \o q # <<>> /\ Head(<<m.payload>> \o q) = m.payload
             /\ Tail(<<m.payload>> \o q) = q
  BY <1>1
<1>5. PayloadsIn(m.id, b) \in Seq(Seq(Byte))
  BY <1>2, PayloadsInIs
<1>6. PayloadsIn(m.id, a) = <<m.payload>> \o PayloadsIn(m.id, b)
  BY <1>1, <1>3
<1>7. /\ PayloadsIn(m.id, a) # <<>> /\ Head(PayloadsIn(m.id, a)) = m.payload
      /\ Tail(PayloadsIn(m.id, a)) = PayloadsIn(m.id, b)
  BY <1>4, <1>5, <1>6
<1> DEFINE pending == [id \in MessageIds |-> PayloadsIn(id, a)]
<1>8. [id \in MessageIds |-> PayloadsIn(id, b)] = [pending EXCEPT ![m.id] = Tail(@)]
  <2>1. \A id \in MessageIds : id # m.id => PayloadsIn(id, a) = PayloadsIn(id, b)
    BY <1>3
  <2> QED BY <1>1, <1>7, <2>1
<1>9. pending[m.id] # <<>> /\ Head(pending[m.id]) = m.payload
  BY <1>1, <1>7
<1>10. Pending(messages, k) = pending
  BY DEF Pending, a
<1>11. Pending(messages, k + 1) = [id \in MessageIds |-> PayloadsIn(id, b)]
  BY DEF Pending, b
<1> HIDE DEF pending
<1>12. FirstPending(messages, k, m)
  BY <1>1, <1>8, <1>9, <1>10, <1>11 DEF FirstPending
<1> QED BY <1>12 DEF m

LEMMA ChannelStarts == Init => Channel!Init
<1> SUFFICES ASSUME Init PROVE Channel!Init
  OBVIOUS
<1>1. /\ <<>> \in Seq(Message) /\ Len(<<>>) = 0 /\ 0 \in Nat /\ 0 <= Len(<<>>)
      /\ queued = <<>> /\ received = [id \in MessageIds |-> <<>>]
      /\ reader # Gone /\ closed = FALSE
  BY EmptySeq DEF Init, ReceivingId, Gone
<1>2. Received(<<>>, 0, received)
  <2>1. First(<<>>, 0) = <<>>
    BY SubSeqEmpty DEF First
  <2> QED BY <1>1, <2>1, PayloadsInNone DEF Received
<1>3. PendingOf(<<>>, received) = Pending(<<>>, 0)
  BY <1>1, <1>2, PendingIs, Zenon
<1>4. Pending(<<>>, 0) = [id \in MessageIds |-> <<>>]
  BY <1>1, PendingNone
<1>5. PendingOf(queued, received) = [id \in MessageIds |-> <<>>]
  BY <1>1, <1>3, <1>4
<1> QED BY <1>1, <1>5 DEF Channel!Init, PendingOf, PayloadsOf

LEMMA ChannelIdles ==
    ASSUME UNCHANGED <<queued, received, closed>>, reader # Gone, reader' # Gone
    PROVE  UNCHANGED Channel!vars
  BY DEF Channel!vars, PayloadsOf

\* What the two ends of the invariant say of a channel that has not ended.
LEMMA ChannelIs ==
    ASSUME AllFit, StreamInv
    PROVE  /\ queued \in Seq(Message)
           /\ \E k \in 0 .. Len(queued) :
                 /\ ReadUpTo(k) /\ k \in Nat /\ k <= Len(queued)
                 /\ Received(queued, k, received)
                 /\ PendingOf(queued, received) = Pending(queued, k)
           /\ ~ closed => reader # Gone
<1>1. PICK k \in 0 .. Len(queued) : ReadUpTo(k)
  BY DEF StreamInv
<1>2. queued \in Seq(Message) /\ k \in Nat /\ k <= Len(queued)
  BY DEF StreamInv, StreamTypes
<1>3. Received(queued, k, received)
  BY <1>1 DEF ReadUpTo
<1>4. PendingOf(queued, received) = Pending(queued, k)
  BY <1>2, <1>3, PendingIs, Zenon
<1>5. ASSUME ~ closed PROVE reader # Gone
  <2>1. InStep(queued, k, reader, Unread(chunk, wire, buffer))
    BY <1>1, <1>5, OpenIsRead
  <2> QED BY <1>2, <2>1, InStepTyped, Zenon
<1> QED BY <1>1, <1>2, <1>3, <1>4, <1>5

LEMMA WriteSends ==
    ASSUME AllFit, StreamInv, NEW m \in Message, NEW queue \in BOOLEAN, WriteMessage(m, queue)
    PROVE  Channel!Send(m) \/ UNCHANGED Channel!vars
<1>1. ~ closed /\ UNCHANGED <<closed, reader, received>>
  BY DEF WriteMessage, receiver
<1>2. reader # Gone /\ reader' # Gone
  BY <1>1, ChannelIs
<1>3. CASE UNCHANGED queued
  BY <1>1, <1>2, <1>3, ChannelIdles
<1>4. CASE queued' = Append(queued, m)
  <2>1. PICK k \in 0 .. Len(queued) : /\ k \in Nat /\ k <= Len(queued)
                                      /\ Received(queued, k, received)
                                      /\ PendingOf(queued, received) = Pending(queued, k)
    BY ChannelIs
  <2>2. queued \in Seq(Message)
    BY ChannelIs
  <2> DEFINE more == Append(queued, m)
  <2>3. more \in Seq(Message) /\ k <= Len(more) /\ First(more, k) = First(queued, k)
    <3>1. Len(more) = Len(queued) + 1 /\ Len(queued) \in Nat /\ more \in Seq(Message)
      BY <2>2, AppendProperties
    <3>2. First(more, k) = First(queued, k)
      BY <2>1, <2>2, FirstOfAppend, Zenon
    <3> HIDE DEF more
    <3> QED BY <2>1, <3>1, <3>2
  <2>4. Pending(more, k) = [Pending(queued, k) EXCEPT ![m.id] = Append(@, m.payload)]
    BY <2>1, <2>2, PendingWrite, Zenon
  <2> HIDE DEF more
  <2>5. Received(more, k, received)
    BY <2>1, <2>3 DEF Received
  <2>6. PendingOf(more, received) = Pending(more, k)
    BY <2>1, <2>3, <2>5, PendingIs, Zenon
  <2>7. PendingOf(queued', received')
           = [PendingOf(queued, received) EXCEPT ![m.id] = Append(@, m.payload)]
    BY <1>1, <1>4, <2>1, <2>4, <2>6 DEF more
  <2> QED BY <1>1, <1>2, <2>7 DEF Channel!Send, PendingOf, PayloadsOf
<1> QED BY <1>3, <1>4 DEF WriteMessage

LEMMA CloseUnusedCloses ==
    ASSUME AllFit, StreamInv, CloseUnused
    PROVE  Channel!Close
<1>1. ~ closed /\ closed' = TRUE /\ UNCHANGED <<queued, reader, received>>
  BY DEF CloseUnused, receiver
<1>2. reader # Gone
  BY <1>1, ChannelIs
<1> QED BY <1>1, <1>2 DEF Channel!Close, PayloadsOf

LEMMA ReadClosedEnds ==
    ASSUME AllFit, NoneEmpty, StreamInv, ReadClosed
    PROVE  Channel!End
<1>1. reader # Gone /\ closed /\ reader' = Gone /\ UNCHANGED <<closed, queued, received>>
  BY DEF ReadClosed, sender
<1>2. PICK k \in 0 .. Len(queued)' : Received(queued', k, received') /\ Complete(queued', k)
  <2>1. StreamInv'
    BY ReadClosedPreserves
  <2>2. PICK k \in 0 .. Len(queued') : ReadUpTo(k)'
    BY <2>1 DEF StreamInv
  <2>3. ~ InStep(queued', k, reader', Unread(chunk', wire', buffer'))
    <3>1. queued' \in Seq(Message) /\ k \in Nat /\ k <= Len(queued')
      BY <2>1 DEF StreamInv, StreamTypes
    <3> QED BY <1>1, <3>1, InStepTyped, Zenon
  <2> QED BY <2>2, <2>3 DEF ReadUpTo
<1>3. queued \in Seq(Message) /\ Len(queued) \in Nat /\ Len(queued) <= Len(queued)
  BY ChannelIs
<1>4. k = Len(queued)
  BY <1>1, <1>2, <1>3, CompleteIsAll
<1>5. PendingOf(queued, received) = Pending(queued, Len(queued))
  <2>1. Received(queued, Len(queued), received)
    BY <1>1, <1>2, <1>4
  <2> QED BY <1>3, <2>1, PendingIs, Zenon
<1>6. PendingOf(queued, received) = [id \in MessageIds |-> <<>>]
  BY <1>3, <1>5, PendingNone
<1>7. \A id \in MessageIds : PendingOf(queued, received)[id] = <<>>
  BY <1>6
<1> QED BY <1>1, <1>7 DEF Channel!End, PendingOf, PayloadsOf

LEMMA ReceiveDelivers ==
    ASSUME AllFit, StreamInv, ReceiveMessage
    PROVE  (\E id \in MessageIds : Channel!Deliver(id)) \/ UNCHANGED Channel!vars
<1>1. PICK k \in 0 .. Len(queued) : /\ ReadUpTo(k) /\ k \in Nat /\ k <= Len(queued)
                                    /\ Received(queued, k, received)
                                    /\ PendingOf(queued, received) = Pending(queued, k)
  BY ChannelIs
<1>2. /\ reader # Gone /\ UNCHANGED <<closed, queued>>
  BY DEF ReceiveMessage, Gone, sender
<1> DEFINE m == queued[k + 1]
<1>3. /\ reader' # Gone
      /\ \/ UNCHANGED received
         \/ /\ k < Len(queued)
            /\ received' = [received EXCEPT ![m.id] = Append(@, m.payload)]
            /\ Received(queued, k + 1, received')
  BY <1>1, ReceiveMessagePreserves
<1>4. CASE UNCHANGED received
  BY <1>2, <1>3, <1>4, ChannelIdles
<1>5. CASE /\ k < Len(queued)
           /\ received' = [received EXCEPT ![m.id] = Append(@, m.payload)]
           /\ Received(queued, k + 1, received')
  <2>1. queued \in Seq(Message) /\ k + 1 \in Nat /\ k + 1 <= Len(queued)
    BY <1>1, <1>5, ChannelIs
  <2> DEFINE pending == Pending(queued, k)
  <2>2. queued \in Seq(Message) /\ k \in Nat /\ k < Len(queued)
    BY <1>1, <1>5, <2>1
  <2>3. FirstPending(queued, k, m)
    BY <2>2, PendingReceive, Zenon
  <2>4. /\ m.id \in MessageIds
        /\ pending[m.id] # <<>> /\ Head(pending[m.id]) = m.payload
        /\ Pending(queued, k + 1) = [pending EXCEPT ![m.id] = Tail(@)]
    BY <2>3 DEF FirstPending
  <2>5. PendingOf(queued, received') = Pending(queued, k + 1)
    BY <1>5, <2>1, PendingIs, Zenon
  <2>6. pending = PendingOf(queued, received)
    BY <1>1
  <2>7. PICK n \in MessageIds : n = m.id
    BY <2>4
  <2>8. received' = [received EXCEPT ![n] = Append(@, Head(pending[n]))]
    BY <1>5, <2>4, <2>7
  <2>9. pending[n] # <<>> /\ PendingOf(queued', received') = [pending EXCEPT ![n] = Tail(@)]
    BY <1>2, <2>4, <2>5, <2>7
  <2> HIDE DEF m, pending
  <2>10. Channel!Deliver(n)
    BY <1>2, <1>3, <2>6, <2>8, <2>9 DEF Channel!Deliver, PendingOf, PayloadsOf
  <2> QED BY <2>10
<1> QED BY <1>3, <1>4, <1>5

LEMMA StepIsChannel ==
    ASSUME AllFit, NoneEmpty
    PROVE  StreamInv /\ [Next]_vars => [Channel!Next]_(Channel!vars)
<1> SUFFICES ASSUME StreamInv, [Next]_vars PROVE Channel!Next \/ UNCHANGED Channel!vars
  BY DEF Channel!vars
<1>1. ASSUME NEW m \in Message, NEW queue \in BOOLEAN, WriteMessage(m, queue)
      PROVE  Channel!Next \/ UNCHANGED Channel!vars
  BY <1>1, WriteSends DEF Channel!Next
<1>2. CASE FlushBuffer
  <2>1. UNCHANGED <<queued, received, closed, reader>> /\ ~ closed
    BY <1>2 DEF FlushBuffer, receiver
  <2>2. reader # Gone /\ reader' # Gone
    BY <2>1, ChannelIs
  <2> QED BY <2>1, <2>2, ChannelIdles
<1>3. CASE CloseUnused
  BY <1>3, CloseUnusedCloses DEF Channel!Next
<1>4. ASSUME NEW n \in 1 .. Len(wire), ReadChunk(n)
      PROVE  UNCHANGED Channel!vars
  <2>1. UNCHANGED <<queued, received, closed, reader>> /\ reader # Gone /\ reader' # Gone
    BY <1>4 DEF ReadChunk, sender
  <2> QED BY <2>1, ChannelIdles
<1>5. CASE ReadClosed
  BY <1>5, ReadClosedEnds DEF Channel!Next
<1>6. CASE ReceiveId
  <2>1. UNCHANGED <<queued, received, closed>> /\ reader # Gone
    BY <1>6 DEF ReceiveId, Gone, sender
  <2> QED BY <1>6, <2>1, ReceiveIdPreserves, ChannelIdles
<1>7. CASE ReceiveLength
  <2>1. UNCHANGED <<queued, received, closed>> /\ reader # Gone
    BY <1>7 DEF ReceiveLength, Gone, sender
  <2> QED BY <1>7, <2>1, ReceiveLengthPreserves, ChannelIdles
<1>8. CASE ReceiveMessage
  BY <1>8, ReceiveDelivers DEF Channel!Next
<1>9. CASE UNCHANGED vars
  BY <1>9 DEF vars, sender, receiver, Channel!vars, PayloadsOf
<1> QED BY <1>1, <1>2, <1>3, <1>4, <1>5, <1>6, <1>7, <1>8, <1>9 DEF Next, Read

\* A message stream is a channel of whole messages: queues that are flushed in
\* part, chunks and the states of the reader are not seen outside, and it ends
\* only when it was closed and nothing is pending (writer.rs, reader.rs).
THEOREM Refinement ==
    ASSUME \A m \in Message : Fits(m.id) /\ Fits(Len(m.payload)),
           \A m \in Message : m.payload # <<>>
    PROVE  Spec => IsChannel
<1>1. AllFit /\ NoneEmpty
  BY DEF AllFit, NoneEmpty
<1>2. StreamInv /\ [Next]_vars => [Channel!Next]_(Channel!vars)
  BY <1>1, StepIsChannel
<1>3. Spec => []StreamInv
  BY <1>1, StreamInductive
<1> QED BY <1>2, <1>3, ChannelStarts, PTL DEF Spec, IsChannel, Channel!Spec

=============================================================================
