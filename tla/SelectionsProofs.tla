--------------------------- MODULE SelectionsProofs ---------------------------
(***************************************************************************)
(* Lemmas about Only, for sequences over any set, and the principles of    *)
(* induction that they need, stated with a set in place of a predicate.    *)
(***************************************************************************)
EXTENDS Selections, SequencesExt, SequenceTheorems, WellFoundedInduction, TLAPS

-----------------------------------------------------------------------------
(* Induction. *)

\* A set of natural numbers that is not empty has a least element.
LEMMA Least ==
    ASSUME NEW T \in SUBSET Nat, T # {}
    PROVE  \E n \in T : \A m \in T : n <= m
<1>1. PICK n \in T : \A m \in T : ~ (<<m, n>> \in OpToRel(<, Nat))
  BY NatLessThanWellFounded, WFMin, Zenon
<1>2. \A m \in T : ~ (m < n)
  BY <1>1 DEF OpToRel
<1>3. \A m \in T : n <= m
  BY <1>2
<1> QED BY <1>3

\* A set with 0, and with the successor of each of its elements, has all.
LEMMA Induction ==
    ASSUME NEW T, 0 \in T, \A n \in Nat : n \in T => n + 1 \in T
    PROVE  Nat \subseteq T
<1> SUFFICES ASSUME Nat \ T # {} PROVE FALSE
  OBVIOUS
<1>1. PICK n \in Nat \ T : \A m \in Nat \ T : n <= m
  BY Least
<1>2. n - 1 \in Nat /\ n - 1 \in T
  BY <1>1
<1> QED BY <1>1, <1>2

\* The same for sequences, which are built by appending.
LEMMA SequenceInduction ==
    ASSUME NEW V, NEW T, <<>> \in T,
           \A s \in Seq(V), e \in V : s \in T => Append(s, e) \in T
    PROVE  Seq(V) \subseteq T
<1> DEFINE Short == {n \in Nat : \A s \in Seq(V) : Len(s) = n => s \in T}
<1>1. 0 \in Short
  <2>1. \A s \in Seq(V) : Len(s) = 0 => s = <<>>
    BY EmptySeq
  <2> QED BY <2>1
<1>2. ASSUME NEW n \in Nat, n \in Short PROVE n + 1 \in Short
  <2>1. ASSUME NEW s \in Seq(V), Len(s) = n + 1 PROVE s \in T
    <3>1. s # <<>>
      BY <2>1, EmptySeq
    <3>2. PICK r \in Seq(V), e \in V : s = Append(r, e)
      BY <3>1, SequenceEmptyOrAppend
    <3>3. Len(r) = n
      BY <2>1, <3>2
    <3>4. r \in T
      BY <1>2, <3>3
    <3> QED BY <3>2, <3>4
  <2> QED BY <2>1
<1> HIDE DEF Short
<1>3. Nat \subseteq Short
  BY <1>1, <1>2, Induction, Zenon
<1>4. \A s \in Seq(V) : Len(s) \in Nat
  OBVIOUS
<1> QED BY <1>3, <1>4 DEF Short

-----------------------------------------------------------------------------
(* Only, as the recursion that defines it. *)

\* What the recursion keeps of the first n elements.
Keeps(f, n, seq, S) ==
    f = [i \in 0 .. n |->
            IF i = 0 THEN <<>>
            ELSE IF seq[i] \in S THEN Append(f[i - 1], seq[i])
            ELSE f[i - 1]]

LEMMA KeepsExists ==
    ASSUME NEW seq, NEW S, NEW n \in Nat
    PROVE  \E f : Keeps(f, n, seq, S)
<1> DEFINE T == {m \in Nat : \E f : Keeps(f, m, seq, S)}
<1>1. 0 \in T
  <2>1. Keeps([i \in 0 .. 0 |-> <<>>], 0, seq, S)
    BY DEF Keeps
  <2> QED BY <2>1
<1>2. ASSUME NEW m \in Nat, m \in T PROVE m + 1 \in T
  <2>1. PICK f : Keeps(f, m, seq, S)
    BY <1>2
  <2> DEFINE last == IF seq[m + 1] \in S THEN Append(f[m], seq[m + 1]) ELSE f[m]
             g == [i \in 0 .. m + 1 |-> IF i = m + 1 THEN last ELSE f[i]]
  <2>2. \A i \in 0 .. m + 1 :
           g[i] = IF i = 0 THEN <<>>
                  ELSE IF seq[i] \in S THEN Append(g[i - 1], seq[i])
                  ELSE g[i - 1]
    <3>1. ASSUME NEW i \in 0 .. m
          PROVE  f[i] = IF i = 0 THEN <<>>
                        ELSE IF seq[i] \in S THEN Append(f[i - 1], seq[i])
                        ELSE f[i - 1]
      BY <2>1 DEF Keeps
    <3>2. \A i \in 0 .. m : g[i] = f[i]
      OBVIOUS
    <3>3. g[m + 1] = last
      OBVIOUS
    <3> HIDE DEF g
    <3>4. ASSUME NEW i \in 1 .. m PROVE g[i - 1] = f[i - 1] /\ g[i] = f[i]
      BY <3>2
    <3> QED BY <3>1, <3>2, <3>3, <3>4
  <2>3. g = [i \in 0 .. m + 1 |-> g[i]]
    OBVIOUS
  <2> HIDE DEF g
  <2>4. Keeps(g, m + 1, seq, S)
    BY <2>2, <2>3 DEF Keeps
  <2> QED BY <2>4
<1> HIDE DEF T
<1>3. Nat \subseteq T
  BY <1>1, <1>2, Induction, Zenon
<1> QED BY <1>3 DEF T

LEMMA KeepsUnique ==
    ASSUME NEW seq, NEW r, NEW S, NEW f, NEW g, NEW n \in Nat, NEW m \in Nat,
           Keeps(f, n, seq, S), Keeps(g, m, r, S),
           NEW k \in Nat, k <= n, k <= m, \A i \in 1 .. k : seq[i] = r[i]
    PROVE  f[k] = g[k]
<1> DEFINE T == {j \in Nat : j <= k => f[j] = g[j]}
<1>1. /\ \A i \in 0 .. n : f[i] = IF i = 0 THEN <<>>
                                  ELSE IF seq[i] \in S THEN Append(f[i - 1], seq[i])
                                  ELSE f[i - 1]
      /\ \A i \in 0 .. m : g[i] = IF i = 0 THEN <<>>
                                  ELSE IF r[i] \in S THEN Append(g[i - 1], r[i])
                                  ELSE g[i - 1]
  BY DEF Keeps
<1>2. 0 \in T
  BY <1>1
<1>3. ASSUME NEW j \in Nat, j \in T PROVE j + 1 \in T
  <2>1. CASE j + 1 <= k
    <3>1. f[j] = g[j] /\ j + 1 \in 1 .. k /\ j + 1 \in 0 .. n /\ j + 1 \in 0 .. m
          /\ (j + 1) - 1 = j /\ j + 1 # 0
      BY <1>3, <2>1
    <3>2. seq[j + 1] = r[j + 1]
      BY <3>1
    <3>3. /\ f[j + 1] = IF seq[j + 1] \in S THEN Append(f[j], seq[j + 1]) ELSE f[j]
          /\ g[j + 1] = IF r[j + 1] \in S THEN Append(g[j], r[j + 1]) ELSE g[j]
      BY <1>1, <3>1
    <3>4. f[j + 1] = g[j + 1]
      BY <3>1, <3>2, <3>3
    <3> QED BY <3>4
  <2>2. CASE ~ (j + 1 <= k)
    BY <2>2
  <2> QED BY <2>1, <2>2
<1> HIDE DEF T
<1>4. Nat \subseteq T
  BY <1>2, <1>3, Induction, Zenon
<1> QED BY <1>4 DEF T

LEMMA OnlyIsKept ==
    ASSUME NEW seq, NEW S, NEW f, Keeps(f, Len(seq), seq, S), Len(seq) \in Nat
    PROVE  Only(seq, S) = f[Len(seq)]
<1> DEFINE g == CHOOSE g : Keeps(g, Len(seq), seq, S)
<1>1. Keeps(g, Len(seq), seq, S)
  BY Zenon
<1>2. Only(seq, S) = g[Len(seq)]
  BY DEF Only, Keeps
<1> HIDE DEF g
<1>3. g[Len(seq)] = f[Len(seq)]
  BY <1>1, KeepsUnique
<1> QED BY <1>2, <1>3

-----------------------------------------------------------------------------
(* Only, as one knows it. *)

LEMMA OnlyOfEmpty ==
    ASSUME NEW S
    PROVE  Only(<<>>, S) = <<>>
<1>1. Len(<<>>) = 0
  OBVIOUS
<1>2. PICK f : Keeps(f, 0, <<>>, S)
  BY KeepsExists
<1>3. f[0] = <<>>
  BY <1>2 DEF Keeps
<1> QED BY <1>1, <1>2, <1>3, OnlyIsKept

LEMMA OnlyOfAppend ==
    ASSUME NEW V, NEW seq \in Seq(V), NEW e \in V, NEW S
    PROVE  Only(Append(seq, e), S) =
              IF e \in S THEN Append(Only(seq, S), e) ELSE Only(seq, S)
<1> DEFINE longer == Append(seq, e)
<1>1. /\ Len(seq) \in Nat /\ Len(longer) = Len(seq) + 1
      /\ \A i \in 1 .. Len(seq) : longer[i] = seq[i]
      /\ longer[Len(seq) + 1] = e
  BY AppendProperties
<1> HIDE DEF longer
<1>2. PICK f : Keeps(f, Len(seq), seq, S)
  BY <1>1, KeepsExists
<1>0. /\ Len(seq) + 1 \in Nat /\ Len(seq) + 1 \in 0 .. Len(seq) + 1
      /\ Len(seq) + 1 # 0 /\ (Len(seq) + 1) - 1 = Len(seq)
      /\ Len(seq) <= Len(seq) /\ Len(seq) <= Len(seq) + 1
  BY <1>1
<1>3. PICK g : Keeps(g, Len(seq) + 1, longer, S)
  BY <1>0, KeepsExists, Zenon
<1>4. f[Len(seq)] = g[Len(seq)]
  BY <1>0, <1>1, <1>2, <1>3, KeepsUnique
<1>5. g[Len(seq) + 1] = IF e \in S THEN Append(g[Len(seq)], e) ELSE g[Len(seq)]
  BY <1>0, <1>1, <1>3 DEF Keeps
<1>6. Only(seq, S) = f[Len(seq)] /\ Only(longer, S) = g[Len(seq) + 1]
  BY <1>0, <1>1, <1>2, <1>3, OnlyIsKept
<1> QED BY <1>4, <1>5, <1>6 DEF longer

\* The type of a selection.
LEMMA OnlyType ==
    ASSUME NEW V, NEW seq \in Seq(V), NEW S
    PROVE  Only(seq, S) \in Seq(V \cap S)
<1> DEFINE T == {s \in Seq(V) : Only(s, S) \in Seq(V \cap S)}
<1>1. <<>> \in T
  <2>1. <<>> \in Seq(V) /\ <<>> \in Seq(V \cap S)
    BY EmptySeq, Zenon
  <2> QED BY <2>1, OnlyOfEmpty, Zenon
<1>2. ASSUME NEW s \in Seq(V), NEW e \in V, s \in T PROVE Append(s, e) \in T
  <2>1. Append(s, e) \in Seq(V) /\ Only(s, S) \in Seq(V \cap S)
    BY <1>2
  <2>2. Only(Append(s, e), S) = IF e \in S THEN Append(Only(s, S), e) ELSE Only(s, S)
    BY OnlyOfAppend
  <2>3. Only(Append(s, e), S) \in Seq(V \cap S)
    BY <2>1, <2>2
  <2> QED BY <2>1, <2>3
<1> HIDE DEF T
<1>3. Seq(V) \subseteq T
  BY <1>1, <1>2, SequenceInduction, Zenon
<1> QED BY <1>3 DEF T

LEMMA OnlyOver ==
    ASSUME NEW V, NEW seq \in Seq(V), NEW S
    PROVE  Only(seq, S) \in Seq(V)
<1>1. Only(seq, S) \in Seq(V \cap S)
  BY OnlyType, Zenon
<1>2. V \cap S \subseteq V
  OBVIOUS
<1>3. Seq(V \cap S) \subseteq Seq(V)
  BY <1>2, SeqMonotonic, Zenon
<1> QED BY <1>1, <1>3, Zenon

LEMMA OnlyOfConcat ==
    ASSUME NEW V, NEW r \in Seq(V), NEW seq \in Seq(V), NEW S
    PROVE  Only(r \o seq, S) = Only(r, S) \o Only(seq, S)
<1> DEFINE T == {s \in Seq(V) : Only(r \o s, S) = Only(r, S) \o Only(s, S)}
<1>1. <<>> \in T
  <2>1. r \o <<>> = r
    BY ConcatEmptySeq, Zenon
  <2>2. Only(r, S) \in Seq(V \cap S)
    BY OnlyType
  <2>3. Only(r, S) \o <<>> = Only(r, S)
    BY <2>2, ConcatEmptySeq, Zenon
  <2>4. <<>> \in Seq(V)
    BY EmptySeq, Zenon
  <2> QED BY <2>1, <2>3, <2>4, OnlyOfEmpty, Zenon
<1>2. ASSUME NEW s \in Seq(V), NEW e \in V, s \in T PROVE Append(s, e) \in T
  <2>1. Append(s, e) \in Seq(V) /\ r \o s \in Seq(V)
    OBVIOUS
  <2>2. r \o Append(s, e) = Append(r \o s, e)
    OBVIOUS
  <2>3. Only(r \o Append(s, e), S) =
           IF e \in S THEN Append(Only(r \o s, S), e) ELSE Only(r \o s, S)
    BY <2>1, <2>2, OnlyOfAppend
  <2>4. Only(Append(s, e), S) = IF e \in S THEN Append(Only(s, S), e) ELSE Only(s, S)
    BY OnlyOfAppend
  <2> DEFINE a == Only(r, S)
             b == Only(s, S)
  <2>5. a \in Seq(V) /\ b \in Seq(V)
    BY OnlyOver, Zenon
  <2>6. Only(r \o s, S) = a \o b
    BY <1>2
  <2> HIDE DEF a, b
  <2>7. a \o Append(b, e) = Append(a \o b, e)
    BY <2>5
  <2>8. Only(r \o Append(s, e), S) = a \o Only(Append(s, e), S)
    BY <2>3, <2>4, <2>6, <2>7, Zenon DEF b
  <2> QED BY <2>1, <2>8 DEF a
<1> HIDE DEF T
<1>3. Seq(V) \subseteq T
  BY <1>1, <1>2, SequenceInduction, Zenon
<1> QED BY <1>3 DEF T

\* Only asks of the elements whether they are in S, no more.
LEMMA OnlyAgree ==
    ASSUME NEW V, NEW seq \in Seq(V), NEW S, NEW R, V \cap S = V \cap R
    PROVE  Only(seq, S) = Only(seq, R)
<1> DEFINE T == {s \in Seq(V) : Only(s, S) = Only(s, R)}
<1>1. <<>> \in T
  <2>1. <<>> \in Seq(V)
    BY EmptySeq, Zenon
  <2> QED BY <2>1, OnlyOfEmpty, Zenon
<1>2. ASSUME NEW s \in Seq(V), NEW e \in V, s \in T PROVE Append(s, e) \in T
  <2>1. Append(s, e) \in Seq(V) /\ (e \in S <=> e \in R)
    OBVIOUS
  <2>2. /\ Only(Append(s, e), S) = IF e \in S THEN Append(Only(s, S), e) ELSE Only(s, S)
        /\ Only(Append(s, e), R) = IF e \in R THEN Append(Only(s, R), e) ELSE Only(s, R)
    BY OnlyOfAppend, Zenon
  <2> QED BY <1>2, <2>1, <2>2, Zenon
<1> HIDE DEF T
<1>3. Seq(V) \subseteq T
  BY <1>1, <1>2, SequenceInduction, Zenon
<1> QED BY <1>3 DEF T

LEMMA OnlyAll ==
    ASSUME NEW V, NEW seq \in Seq(V), NEW S, V \subseteq S
    PROVE  Only(seq, S) = seq
<1> DEFINE T == {s \in Seq(V) : Only(s, S) = s}
<1>1. <<>> \in T
  <2>1. <<>> \in Seq(V)
    BY EmptySeq, Zenon
  <2> QED BY <2>1, OnlyOfEmpty, Zenon
<1>2. ASSUME NEW s \in Seq(V), NEW e \in V, s \in T PROVE Append(s, e) \in T
  <2>1. Append(s, e) \in Seq(V) /\ e \in S
    OBVIOUS
  <2>2. Only(Append(s, e), S) = IF e \in S THEN Append(Only(s, S), e) ELSE Only(s, S)
    BY OnlyOfAppend, Zenon
  <2> QED BY <1>2, <2>1, <2>2, Zenon
<1> HIDE DEF T
<1>3. Seq(V) \subseteq T
  BY <1>1, <1>2, SequenceInduction, Zenon
<1> QED BY <1>3 DEF T

LEMMA OnlyNone ==
    ASSUME NEW V, NEW seq \in Seq(V), NEW S, V \cap S = {}
    PROVE  Only(seq, S) = <<>>
<1>1. Only(seq, S) \in Seq({})
  BY OnlyType
<1> QED BY <1>1, EmptySeq

LEMMA OnlyOnly ==
    ASSUME NEW V, NEW seq \in Seq(V), NEW S, NEW R
    PROVE  Only(Only(seq, S), R) = Only(seq, S \cap R)
<1> DEFINE T == {s \in Seq(V) : Only(Only(s, S), R) = Only(s, S \cap R)}
<1>1. <<>> \in T
  <2>1. <<>> \in Seq(V)
    BY EmptySeq, Zenon
  <2> QED BY <2>1, OnlyOfEmpty, Zenon
<1>2. ASSUME NEW s \in Seq(V), NEW e \in V, s \in T PROVE Append(s, e) \in T
  <2>1. Append(s, e) \in Seq(V)
    OBVIOUS
  <2>2. Only(s, S) \in Seq(V)
    BY OnlyOver, Zenon
  <2>3. /\ Only(Append(s, e), S) = IF e \in S THEN Append(Only(s, S), e) ELSE Only(s, S)
        /\ Only(Append(s, e), S \cap R) =
              IF e \in S \cap R THEN Append(Only(s, S \cap R), e) ELSE Only(s, S \cap R)
        /\ Only(Append(Only(s, S), e), R) =
              IF e \in R THEN Append(Only(Only(s, S), R), e) ELSE Only(Only(s, S), R)
    BY <2>2, OnlyOfAppend, Zenon
  <2>4. Only(Only(s, S), R) = Only(s, S \cap R)
    BY <1>2, Zenon
  <2>5. Only(Only(Append(s, e), S), R) = Only(Append(s, e), S \cap R)
    <3>1. CASE e \in S /\ e \in R
      BY <2>3, <2>4, <3>1, Zenon
    <3>2. CASE e \in S /\ e \notin R
      BY <2>3, <2>4, <3>2, Zenon
    <3>3. CASE e \notin S
      BY <2>3, <2>4, <3>3, Zenon
    <3> QED BY <3>1, <3>2, <3>3
  <2> QED BY <2>1, <2>5, Zenon
<1> HIDE DEF T
<1>3. Seq(V) \subseteq T
  BY <1>1, <1>2, SequenceInduction, Zenon
<1> QED BY <1>3 DEF T

-----------------------------------------------------------------------------
(* What a selection has, and in which order. *)

LEMMA ToSetOfAppend ==
    ASSUME NEW V, NEW s \in Seq(V), NEW e \in V
    PROVE  ToSet(Append(s, e)) = ToSet(s) \cup {e}
<1>1. /\ Len(s) \in Nat
      /\ DOMAIN s = 1 .. Len(s)
      /\ DOMAIN Append(s, e) = 1 .. Len(s) + 1
      /\ \A i \in 1 .. Len(s) : Append(s, e)[i] = s[i]
      /\ Append(s, e)[Len(s) + 1] = e
  BY AppendProperties, LenProperties
<1>2. 1 .. Len(s) + 1 = 1 .. Len(s) \cup {Len(s) + 1}
  BY <1>1
<1> QED BY <1>1, <1>2 DEF ToSet

LEMMA ToSetOfConcat ==
    ASSUME NEW V, NEW r \in Seq(V), NEW s \in Seq(V)
    PROVE  ToSet(r \o s) = ToSet(r) \cup ToSet(s)
<1> DEFINE T == {q \in Seq(V) : ToSet(r \o q) = ToSet(r) \cup ToSet(q)}
<1>1. <<>> \in T
  <2>1. <<>> \in Seq(V) /\ r \o <<>> = r
    BY EmptySeq, ConcatEmptySeq, Zenon
  <2>2. ToSet(<<>>) = {}
    BY DEF ToSet
  <2> QED BY <2>1, <2>2, Zenon
<1>2. ASSUME NEW q \in Seq(V), NEW e \in V, q \in T PROVE Append(q, e) \in T
  <2>1. Append(q, e) \in Seq(V) /\ r \o q \in Seq(V) /\ r \o Append(q, e) = Append(r \o q, e)
    OBVIOUS
  <2>2. PICK c \in Seq(V) : c = r \o q
    BY <2>1
  <2>3. /\ ToSet(Append(q, e)) = ToSet(q) \cup {e}
        /\ ToSet(Append(c, e)) = ToSet(c) \cup {e}
    BY <2>1, ToSetOfAppend
  <2>4. ToSet(c) = ToSet(r) \cup ToSet(q) /\ r \o Append(q, e) = Append(c, e)
    BY <1>2, <2>1, <2>2, Zenon
  <2>5. ToSet(r \o Append(q, e)) = ToSet(r) \cup ToSet(Append(q, e))
    BY <2>3, <2>4
  <2> QED BY <2>1, <2>5
<1> HIDE DEF T
<1>3. Seq(V) \subseteq T
  BY <1>1, <1>2, SequenceInduction, Zenon
<1> QED BY <1>3 DEF T

LEMMA OnlyElements ==
    ASSUME NEW V, NEW seq \in Seq(V), NEW S
    PROVE  ToSet(Only(seq, S)) = ToSet(seq) \cap S
<1> DEFINE T == {s \in Seq(V) : ToSet(Only(s, S)) = ToSet(s) \cap S}
<1>1. <<>> \in T
  <2>1. <<>> \in Seq(V) /\ Only(<<>>, S) = <<>>
    BY EmptySeq, OnlyOfEmpty, Zenon
  <2>2. ToSet(<<>>) = {}
    BY DEF ToSet
  <2> QED BY <2>1, <2>2, Zenon
<1>2. ASSUME NEW s \in Seq(V), NEW e \in V, s \in T PROVE Append(s, e) \in T
  <2>1. Append(s, e) \in Seq(V) /\ Only(s, S) \in Seq(V)
    BY OnlyOver
  <2>2. Only(Append(s, e), S) = IF e \in S THEN Append(Only(s, S), e) ELSE Only(s, S)
    BY OnlyOfAppend, Zenon
  <2>3. /\ ToSet(Append(s, e)) = ToSet(s) \cup {e}
        /\ ToSet(Append(Only(s, S), e)) = ToSet(Only(s, S)) \cup {e}
    BY <2>1, ToSetOfAppend
  <2>4. ToSet(Only(Append(s, e), S)) = ToSet(Append(s, e)) \cap S
    <3>1. CASE e \in S
      BY <1>2, <2>2, <2>3, <3>1
    <3>2. CASE e \notin S
      BY <1>2, <2>2, <2>3, <3>2
    <3> QED BY <3>1, <3>2
  <2> QED BY <2>1, <2>4
<1> HIDE DEF T
<1>3. Seq(V) \subseteq T
  BY <1>1, <1>2, SequenceInduction, Zenon
<1> QED BY <1>3 DEF T

\* Each element is related to each later one.
Pairwise(seq, R) == \A i, j \in DOMAIN seq : i < j => <<seq[i], seq[j]>> \in R

LEMMA PairwiseAppend ==
    ASSUME NEW V, NEW s \in Seq(V), NEW e \in V, NEW R
    PROVE  Pairwise(Append(s, e), R) <=>
              (Pairwise(s, R) /\ \A x \in ToSet(s) : <<x, e>> \in R)
<1>1. /\ Len(s) \in Nat
      /\ DOMAIN s = 1 .. Len(s)
      /\ DOMAIN Append(s, e) = 1 .. Len(s) + 1
      /\ \A i \in 1 .. Len(s) : Append(s, e)[i] = s[i]
      /\ Append(s, e)[Len(s) + 1] = e
  BY AppendProperties, LenProperties
<1> DEFINE a == Append(s, e)
<1> HIDE DEF a
<1>2. ASSUME Pairwise(a, R) PROVE Pairwise(s, R) /\ \A x \in ToSet(s) : <<x, e>> \in R
  <2>1. ASSUME NEW i \in DOMAIN s, NEW j \in DOMAIN s, i < j PROVE <<s[i], s[j]>> \in R
    BY <1>1, <1>2, <2>1 DEF Pairwise, a
  <2>2. ASSUME NEW i \in DOMAIN s PROVE <<s[i], e>> \in R
    <3>1. i \in DOMAIN a /\ Len(s) + 1 \in DOMAIN a /\ i < Len(s) + 1
      BY <1>1 DEF a
    <3> QED BY <1>1, <1>2, <3>1 DEF Pairwise, a
  <2> QED BY <2>1, <2>2 DEF Pairwise, ToSet
<1>3. ASSUME Pairwise(s, R), \A x \in ToSet(s) : <<x, e>> \in R,
             NEW i \in DOMAIN a, NEW j \in DOMAIN a, i < j
      PROVE  <<a[i], a[j]>> \in R
  <2>1. i \in DOMAIN s /\ a[i] = s[i]
    BY <1>1, <1>3 DEF a
  <2>2. CASE j \in DOMAIN s
    BY <1>1, <1>3, <2>1, <2>2 DEF a, Pairwise
  <2>3. CASE j = Len(s) + 1
    BY <1>1, <1>3, <2>1, <2>3 DEF a, ToSet
  <2> QED BY <1>1, <2>2, <2>3 DEF a
<1> QED BY <1>2, <1>3 DEF Pairwise, a

LEMMA PairwiseConcat ==
    ASSUME NEW V, NEW r \in Seq(V), NEW s \in Seq(V), NEW R
    PROVE  Pairwise(r \o s, R) <=>
              (/\ Pairwise(r, R) /\ Pairwise(s, R)
               /\ \A x \in ToSet(r), y \in ToSet(s) : <<x, y>> \in R)
<1> DEFINE Related(q) == /\ Pairwise(r, R) /\ Pairwise(q, R)
                         /\ \A x \in ToSet(r), y \in ToSet(q) : <<x, y>> \in R
           T == {q \in Seq(V) : Pairwise(r \o q, R) <=> Related(q)}
<1>1. <<>> \in T
  <2>1. <<>> \in Seq(V) /\ r \o <<>> = r
    BY EmptySeq, ConcatEmptySeq, Zenon
  <2>2. ToSet(<<>>) = {} /\ Pairwise(<<>>, R)
    BY DEF ToSet, Pairwise
  <2> QED BY <2>1, <2>2, Zenon
<1>2. ASSUME NEW q \in Seq(V), NEW e \in V, q \in T PROVE Append(q, e) \in T
  <2>1. Append(q, e) \in Seq(V) /\ r \o q \in Seq(V) /\ r \o Append(q, e) = Append(r \o q, e)
    OBVIOUS
  <2>2. /\ ToSet(Append(q, e)) = ToSet(q) \cup {e}
        /\ ToSet(r \o q) = ToSet(r) \cup ToSet(q)
    BY <2>1, ToSetOfAppend, ToSetOfConcat
  <2>3. /\ Pairwise(Append(q, e), R) <=>
              (Pairwise(q, R) /\ \A x \in ToSet(q) : <<x, e>> \in R)
        /\ Pairwise(Append(r \o q, e), R) <=>
              (Pairwise(r \o q, R) /\ \A x \in ToSet(r \o q) : <<x, e>> \in R)
    BY <2>1, PairwiseAppend, Zenon
  <2>4. Pairwise(r \o q, R) <=> Related(q)
    BY <1>2, Zenon
  <2>5. Pairwise(r \o Append(q, e), R) <=> Related(Append(q, e))
    BY <2>1, <2>2, <2>3, <2>4, Zenon
  <2> QED BY <2>1, <2>5, Zenon
<1> HIDE DEF T
<1>3. Seq(V) \subseteq T
  BY <1>1, <1>2, SequenceInduction, Zenon
<1> QED BY <1>3 DEF T

\* A selection keeps the order.
LEMMA OnlyPairwise ==
    ASSUME NEW V, NEW seq \in Seq(V), NEW S, NEW R, Pairwise(seq, R)
    PROVE  Pairwise(Only(seq, S), R)
<1> DEFINE T == {s \in Seq(V) : Pairwise(s, R) => Pairwise(Only(s, S), R)}
<1>1. <<>> \in T
  <2>1. <<>> \in Seq(V) /\ Only(<<>>, S) = <<>>
    BY EmptySeq, OnlyOfEmpty, Zenon
  <2> QED BY <2>1, Zenon
<1>2. ASSUME NEW s \in Seq(V), NEW e \in V, s \in T PROVE Append(s, e) \in T
  <2>1. Append(s, e) \in Seq(V) /\ Only(s, S) \in Seq(V)
    BY OnlyOver
  <2>2. Only(Append(s, e), S) = IF e \in S THEN Append(Only(s, S), e) ELSE Only(s, S)
    BY OnlyOfAppend, Zenon
  <2>3. ToSet(Only(s, S)) \subseteq ToSet(s)
    BY OnlyElements
  <2>4. ASSUME Pairwise(Append(s, e), R) PROVE Pairwise(Only(Append(s, e), S), R)
    <3>1. Pairwise(s, R) /\ \A x \in ToSet(s) : <<x, e>> \in R
      BY <2>4, PairwiseAppend, Zenon
    <3>2. Pairwise(Only(s, S), R) /\ \A x \in ToSet(Only(s, S)) : <<x, e>> \in R
      BY <1>2, <2>3, <3>1
    <3>3. Pairwise(Append(Only(s, S), e), R)
      BY <2>1, <3>2, PairwiseAppend, Zenon
    <3> QED BY <2>2, <3>2, <3>3, Zenon
  <2> QED BY <2>1, <2>4, Zenon
<1> HIDE DEF T
<1>3. Seq(V) \subseteq T
  BY <1>1, <1>2, SequenceInduction, Zenon
<1> QED BY <1>3 DEF T

-----------------------------------------------------------------------------
(* Prefixes. *)

LEMMA PrefixOfConcat ==
    ASSUME NEW V, NEW r \in Seq(V), NEW new \in Seq(V)
    PROVE  IsPrefix(r, r \o new)
<1> DEFINE all == r \o new
           n == Len(r)
<1>1. /\ n \in Nat /\ Len(new) \in Nat /\ Len(all) = n + Len(new) /\ all \in Seq(V)
      /\ \A i \in 1 .. n : all[i] = r[i] /\ r[i] \in V
  BY ConcatProperties, LenProperties
<1> HIDE DEF all, n
<1>2. \A i \in 1 .. n : all[i] \in V
  BY <1>1
<1>3. /\ SubSeq(r, 1, n) \in Seq(V) /\ SubSeq(all, 1, n) \in Seq(V)
      /\ Len(SubSeq(r, 1, n)) = n /\ Len(SubSeq(all, 1, n)) = n
      /\ \A i \in 1 .. n : SubSeq(r, 1, n)[i] = r[i] /\ SubSeq(all, 1, n)[i] = all[i]
  <2>1. 1 \in Int /\ n \in Int /\ n - 1 + 1 = n /\ (1 <= n \/ n = 0)
        /\ \A i \in 1 .. n : 1 + i - 1 = i
    BY <1>1
  <2> QED BY <1>1, <1>2, <2>1, SubSeqProperties
<1>4. SubSeq(r, 1, n) = SubSeq(all, 1, n)
  BY <1>1, <1>3, SeqEqual
<1>5. n <= Len(all)
  BY <1>1
<1> QED BY <1>4, <1>5 DEF all, n, IsPrefix

=============================================================================
