---------------------------- MODULE MessagesProofs ----------------------------
(***************************************************************************)
(* Proofs about Protocol and Messages, for every pair of programs, every   *)
(* set of types, protocols and entities, and every number of messages.     *)
(* First the ids: that lookup is the inverse of the positions, that ids    *)
(* stay, and that the calls on each protocol decide them.  The             *)
(* specification is the one of Messages, in which applications are built   *)
(* and then run.  Then the messages: the way of those of one type to one   *)
(* entity, as sequences, and the invariant that ties the variables to it.  *)
(***************************************************************************)
EXTENDS Messages, SelectionsProofs, FiniteSetTheorems

\* A lookup gives each message its position.
Numbers(ids, seq) ==
    /\ DOMAIN ids = ToSet(seq)
    /\ \A i \in DOMAIN seq : ids[seq[i]] = i - 1

\* The lookups are there for each protocol of each side.
LookupShape == lookup = [s \in Side |-> [p \in Proto |-> lookup[s][p]]]

\* The inductive invariant.
ProtocolInv ==
    /\ ProtocolTypeOK
    /\ LookupShape
    /\ LookupIsInverse

-----------------------------------------------------------------------------
(* What adding messages to a protocol does. *)

\* Messages that a protocol does not have get the ids of their positions.
LEMMA WithIdsNumbers ==
    ASSUME NEW s \in Side, NEW p \in Proto,
           messages[s][p] \in Seq(Type), NEW new \in Seq(Type), IsInjective(new),
           ToSet(new) \cap ToSet(messages[s][p]) = {},
           Numbers(lookup[s][p], messages[s][p])
    PROVE  Numbers(WithIds(s, p, new), messages[s][p] \o new)
<1> DEFINE own == messages[s][p]
           ids == lookup[s][p]
           all == own \o new
           more == WithIds(s, p, new)
<1>1. /\ Len(own) \in Nat /\ DOMAIN own = 1 .. Len(own)
      /\ Len(new) \in Nat /\ DOMAIN new = 1 .. Len(new)
  BY LenProperties
<1>2. /\ DOMAIN all = 1 .. Len(own) + Len(new)
      /\ \A i \in 1 .. Len(own) + Len(new) :
            all[i] = IF i <= Len(own) THEN own[i] ELSE new[i - Len(own)]
  BY ConcatProperties, LenProperties
<1>3. ToSet(all) = ToSet(own) \cup ToSet(new)
  BY ToSetOfConcat
<1>4. /\ DOMAIN more = ToSet(all)
      /\ \A t \in ToSet(new) :
            more[t] = Len(own) + (CHOOSE i \in DOMAIN new : new[i] = t) - 1
      /\ \A t \in ToSet(own) : more[t] = ids[t]
  BY <1>3 DEF WithIds, NextId, Numbers
<1> HIDE DEF all, more
<1>5. ASSUME NEW i \in DOMAIN new PROVE (CHOOSE j \in DOMAIN new : new[j] = new[i]) = i
  BY DEF IsInjective
<1>6. ASSUME NEW i \in DOMAIN all PROVE more[all[i]] = i - 1
  <2>1. CASE i <= Len(own)
    <3>1. i \in DOMAIN own /\ all[i] = own[i]
      BY <1>1, <1>2, <2>1
    <3>2. own[i] \in ToSet(own)
      BY <3>1 DEF ToSet
    <3> QED BY <1>4, <3>1, <3>2 DEF Numbers
  <2>2. CASE ~ (i <= Len(own))
    <3> DEFINE j == i - Len(own)
    <3>1. i \in 1 .. Len(own) + Len(new)
      BY <1>2, <1>6
    <3>2. j \in 1 .. Len(new) /\ i = Len(own) + j /\ j \in Int
      <4>1. \A x, y \in Nat : \A z \in 1 .. x + y :
               ~ (z <= x) => z - x \in 1 .. y /\ z = x + (z - x) /\ z - x \in Int
        OBVIOUS
      <4> QED BY <1>1, <2>2, <3>1, <4>1, Zenon
    <3> HIDE DEF j
    <3>3. j \in DOMAIN new /\ all[i] = new[j]
      BY <1>1, <1>2, <2>2, <3>1, <3>2 DEF j
    <3>4. new[j] \in ToSet(new)
      BY <3>3 DEF ToSet
    <3>5. more[new[j]] = Len(own) + (CHOOSE k \in DOMAIN new : new[k] = new[j]) - 1
      BY <1>4, <3>4
    <3>6. more[all[i]] = Len(own) + j - 1
      BY <1>5, <3>3, <3>5
    <3> QED BY <1>1, <3>2, <3>6
  <2> QED BY <2>1, <2>2
<1> QED BY <1>4, <1>6 DEF all, more, Numbers

\* Ids are positions, so that no message is twice in a protocol.
LEMMA NumbersInjective ==
    ASSUME NEW ids, NEW seq \in Seq(Type), Numbers(ids, seq)
    PROVE  IsInjective(seq)
<1>1. DOMAIN seq \subseteq Int
  BY LenProperties
<1> QED BY <1>1 DEF Numbers, IsInjective

\* A selection has no message twice if the sequence has none.
LEMMA OnlyInjective ==
    ASSUME NEW seq \in Seq(Type), NEW S, IsInjective(seq)
    PROVE  IsInjective(Only(seq, S))
<1> DEFINE Differ == {e \in Type \X Type : e[1] # e[2]}
<1>1. ASSUME NEW r \in Seq(Type) PROVE IsInjective(r) <=> Pairwise(r, Differ)
  <2>1. DOMAIN r \subseteq Int /\ \A i \in DOMAIN r : r[i] \in Type
    BY LenProperties
  <2>2. ASSUME IsInjective(r), NEW i \in DOMAIN r, NEW j \in DOMAIN r, i < j
        PROVE  <<r[i], r[j]>> \in Differ
    BY <2>1, <2>2 DEF IsInjective
  <2>3. ASSUME Pairwise(r, Differ), NEW i \in DOMAIN r, NEW j \in DOMAIN r, r[i] = r[j]
        PROVE  i = j
    <3>1. ~ (i < j) /\ ~ (j < i)
      BY <2>1, <2>3 DEF Pairwise
    <3> QED BY <2>1, <3>1
  <2> QED BY <2>2, <2>3 DEF IsInjective, Pairwise
<1> HIDE DEF Differ
<1>2. Pairwise(seq, Differ)
  BY <1>1
<1>3. Only(seq, S) \in Seq(Type) /\ Pairwise(Only(seq, S), Differ)
  BY <1>2, OnlyOver, OnlyPairwise, Zenon
<1> QED BY <1>1, <1>3

\* The messages that another protocol is missing are new to it, each once.
LEMMA MissingIsNew ==
    ASSUME ProtocolInv, NEW s \in Side, NEW p \in Proto, NEW o \in Proto
    PROVE  /\ Missing(s, p, o) \in Seq(Type)
           /\ IsInjective(Missing(s, p, o))
           /\ ToSet(Missing(s, p, o)) \cap ToSet(messages[s][p]) = {}
           /\ ToSet(Missing(s, p, o)) \subseteq ToSet(messages[s][o])
<1> DEFINE new == Missing(s, p, o)
           S == Type \ DOMAIN lookup[s][p]
<1>1. messages[s][o] \in Seq(Type) /\ Numbers(lookup[s][o], messages[s][o])
  BY DEF ProtocolInv, ProtocolTypeOK, LookupIsInverse, Numbers
<1>2. DOMAIN lookup[s][p] = ToSet(messages[s][p])
  BY DEF ProtocolInv, LookupIsInverse
<1>3. new = Only(messages[s][o], S)
  BY DEF Missing
<1> HIDE DEF new
<1>4. new \in Seq(Type)
  BY <1>1, <1>3, OnlyOver, Zenon
<1>5. IsInjective(new)
  BY <1>1, <1>3, NumbersInjective, OnlyInjective, Zenon
<1>6. ToSet(new) = ToSet(messages[s][o]) \cap S
  BY <1>1, <1>3, OnlyElements
<1> QED BY <1>2, <1>4, <1>5, <1>6 DEF new

\* A call is one of the program's.
LEMMA CallsMade ==
    ASSUME ProtocolTypeOK, NEW s \in Side, NEW op, Calls(s, op)
    PROVE  /\ NextCall(s) \in Call /\ NextCall(s).op = op
           /\ program' = program
           /\ done' \in [Side -> Nat]
<1>1. program \in [Side -> Seq(Call)] /\ done \in [Side -> Nat]
  BY ProgramsAssumption DEF ProtocolTypeOK
<1>2. /\ done[s] < Len(program[s]) /\ NextCall(s).op = op
      /\ done' = [done EXCEPT ![s] = @ + 1] /\ program' = program
  BY DEF Calls
<1>3. NextCall(s) \in Call
  <2> DEFINE calls == program[s]
  <2>1. calls \in Seq(Call) /\ done[s] \in Nat /\ done[s] < Len(calls)
    BY <1>1, <1>2
  <2> HIDE DEF calls
  <2>2. calls[done[s] + 1] \in Call
    BY <2>1
  <2> QED BY <2>2 DEF calls, NextCall
<1>4. done' \in [Side -> Nat]
  BY <1>1, <1>2
<1> QED BY <1>2, <1>3, <1>4

-----------------------------------------------------------------------------
(* The invariant. *)

LEMMA ProtocolStarts == ProtocolInit => ProtocolInv
<1> SUFFICES ASSUME ProtocolInit PROVE ProtocolInv
  OBVIOUS
<1>1. ToSet(<<>>) = {} /\ DOMAIN <<>> = {} /\ <<>> \in Seq(Type)
  BY EmptySeq DEF ToSet
<1>2. \A s \in Side, p \in Proto : messages[s][p] = <<>> /\ lookup[s][p] = <<>>
  BY DEF ProtocolInit
<1>3. ProtocolTypeOK
  <2>1. messages \in [Side -> [Proto -> Seq(Type)]]
    BY <1>1 DEF ProtocolInit
  <2> QED BY <1>1, <1>2, <2>1 DEF ProtocolInit, ProtocolTypeOK
<1>4. LookupShape
  BY DEF ProtocolInit, LookupShape
<1>5. LookupIsInverse
  BY <1>1, <1>2 DEF LookupIsInverse
<1> QED BY <1>3, <1>4, <1>5 DEF ProtocolInv

\* An update of a function of two arguments, and its values.
Rows(f, A, B) == f = [x \in A |-> [y \in B |-> f[x][y]]]
UpdatedAt(f, g, a, b, e) == g = [f EXCEPT ![a][b] = e]
ValuesAt(f, g, A, B, a, b, e) ==
    \A x \in A, y \in B : g[x][y] = IF x = a /\ y = b THEN e ELSE f[x][y]

LEMMA ExceptTwice ==
    ASSUME NEW A, NEW B, NEW f, NEW g, NEW a \in A, NEW b \in B, NEW e,
           Rows(f, A, B), UpdatedAt(f, g, a, b, e)
    PROVE  Rows(g, A, B) /\ ValuesAt(f, g, A, B, a, b, e)
BY DEF Rows, UpdatedAt, ValuesAt

\* New messages of one protocol, in both of its components.
LEMMA Grown ==
    ASSUME ProtocolInv, NEW s \in Side, NEW p \in Proto, NEW new \in Seq(Type),
           IsInjective(new), ToSet(new) \cap ToSet(messages[s][p]) = {},
           messages' = [messages EXCEPT ![s][p] = messages[s][p] \o new],
           lookup' = [lookup EXCEPT ![s][p] = WithIds(s, p, new)],
           built' \in [Side -> SUBSET Type],
           \A r \in Side : built[r] \subseteq built'[r],
           ToSet(new) \subseteq built'[s]
    PROVE  /\ messages' \in [Side -> [Proto -> Seq(Type)]]
           /\ \A r \in Side, q \in Proto : ToSet(messages'[r][q]) \subseteq built'[r]
           /\ LookupShape'
           /\ LookupIsInverse'
<1> DEFINE all == messages[s][p] \o new
           ids == WithIds(s, p, new)
<1>1. /\ messages \in [Side -> [Proto -> Seq(Type)]]
      /\ \A r \in Side, q \in Proto : ToSet(messages[r][q]) \subseteq built[r]
      /\ \A r \in Side, q \in Proto : Numbers(lookup[r][q], messages[r][q])
  BY DEF ProtocolInv, ProtocolTypeOK, LookupIsInverse, Numbers
<1>2. all \in Seq(Type)
  BY <1>1, ConcatProperties
<1>3. ToSet(all) = ToSet(messages[s][p]) \cup ToSet(new)
  BY <1>1, ToSetOfConcat
<1>4. Numbers(ids, all)
  BY <1>1, WithIdsNumbers
<1> HIDE DEF all, ids
<1>5. messages' = [messages EXCEPT ![s][p] = all] /\ lookup' = [lookup EXCEPT ![s][p] = ids]
  BY DEF all, ids
<1>6. /\ messages' \in [Side -> [Proto -> Seq(Type)]]
      /\ \A r \in Side, q \in Proto :
            messages'[r][q] = IF r = s /\ q = p THEN all ELSE messages[r][q]
  <2> DEFINE f == messages
             g == messages'
  <2>1. Rows(f, Side, Proto)
    BY <1>1 DEF Rows
  <2>2. UpdatedAt(f, g, s, p, all)
    BY <1>5 DEF UpdatedAt
  <2> HIDE DEF f, g
  <2>3. Rows(g, Side, Proto) /\ ValuesAt(f, g, Side, Proto, s, p, all)
    BY <2>1, <2>2, ExceptTwice, Zenon
  <2>4. \A r \in Side, q \in Proto : f[r][q] \in Seq(Type)
    BY <1>1 DEF f
  <2>5. \A r \in Side, q \in Proto : g[r][q] \in Seq(Type)
    BY <1>2, <2>3, <2>4 DEF ValuesAt
  <2>6. g \in [Side -> [Proto -> Seq(Type)]]
    BY <2>3, <2>5 DEF Rows
  <2> QED BY <2>3, <2>6 DEF f, g, ValuesAt
<1>7. /\ LookupShape'
      /\ \A r \in Side, q \in Proto :
            lookup'[r][q] = IF r = s /\ q = p THEN ids ELSE lookup[r][q]
  <2> DEFINE f == lookup
             g == lookup'
  <2>1. Rows(f, Side, Proto)
    BY DEF ProtocolInv, LookupShape, Rows
  <2>2. UpdatedAt(f, g, s, p, ids)
    BY <1>5 DEF UpdatedAt
  <2> HIDE DEF f, g
  <2>3. Rows(g, Side, Proto) /\ ValuesAt(f, g, Side, Proto, s, p, ids)
    BY <2>1, <2>2, ExceptTwice, Zenon
  <2> QED BY <2>3 DEF f, g, LookupShape, Rows, ValuesAt
<1>8. \A r \in Side, q \in Proto : ToSet(messages'[r][q]) \subseteq built'[r]
  BY <1>1, <1>3, <1>6
<1>9. \A r \in Side, q \in Proto : Numbers(lookup'[r][q], messages'[r][q])
  BY <1>1, <1>4, <1>6, <1>7
<1> QED BY <1>6, <1>7, <1>8, <1>9 DEF LookupIsInverse, Numbers

\* What a call adds to a protocol goes behind what is there.
LEMMA BuildAdds ==
    ASSUME ProtocolInv, NEW s \in Side, Build(s)
    PROVE  /\ ProtocolInv'
           /\ \A r \in Side, q \in Proto : \E new \in Seq(Type) :
                 messages'[r][q] = messages[r][q] \o new
<1> DEFINE Adds == \A r \in Side, q \in Proto : \E new \in Seq(Type) :
                      messages'[r][q] = messages[r][q] \o new
<1> SUFFICES ProtocolInv' /\ Adds
  OBVIOUS
<1>1. /\ program \in Programs /\ done \in [Side -> Nat]
      /\ state \in [Side -> {"building", "running", "panicked"}]
      /\ initialized \in [Side -> SUBSET Proto] /\ built \in [Side -> SUBSET Type]
      /\ messages \in [Side -> [Proto -> Seq(Type)]]
      /\ \A r \in Side, q \in Proto : ToSet(messages[r][q]) \subseteq built[r]
  BY DEF ProtocolInv, ProtocolTypeOK
<1>2. ASSUME UNCHANGED <<messages, lookup>>, UNCHANGED built
      PROVE  /\ LookupShape' /\ LookupIsInverse' /\ Adds
             /\ messages' \in [Side -> [Proto -> Seq(Type)]]
             /\ \A r \in Side, q \in Proto : ToSet(messages'[r][q]) \subseteq built'[r]
  <2>1. LookupShape' /\ LookupIsInverse'
    BY <1>2 DEF ProtocolInv, LookupShape, LookupIsInverse
  <2>2. \A r \in Side, q \in Proto : messages'[r][q] = messages[r][q] \o <<>>
    BY <1>1, <1>2, ConcatEmptySeq
  <2>3. <<>> \in Seq(Type)
    BY EmptySeq
  <2>4. Adds
    BY <2>2, <2>3, Zenon
  <2> QED BY <1>1, <1>2, <2>1, <2>4
<1>3. ASSUME NEW p \in Proto, NEW new \in Seq(Type), messages \in [Side -> [Proto -> Seq(Type)]],
             messages' = [messages EXCEPT ![s][p] = messages[s][p] \o new]
      PROVE  Adds
  <2>1. ASSUME NEW r \in Side, NEW q \in Proto
        PROVE  \E more \in Seq(Type) : messages'[r][q] = messages[r][q] \o more
    <3>1. CASE r = s /\ q = p
      <4> DEFINE all == messages[s][p] \o new
      <4>1. messages' = [messages EXCEPT ![s][p] = all]
        BY <1>3
      <4> HIDE DEF all
      <4>2. messages'[r][q] = all
        BY <1>3, <3>1, <4>1
      <4> QED BY <3>1, <4>2, Zenon DEF all
    <3>2. CASE ~ (r = s /\ q = p)
      <4> DEFINE all == messages[s][p] \o new
      <4>1. messages' = [messages EXCEPT ![s][p] = all]
        BY <1>3
      <4> HIDE DEF all
      <4>2. messages'[r][q] = messages[r][q]
        BY <1>3, <3>2, <4>1
      <4>3. messages[r][q] \o <<>> = messages[r][q] /\ <<>> \in Seq(Type)
        BY <1>3, ConcatEmptySeq, EmptySeq
      <4> QED BY <4>2, <4>3, Zenon
    <3> QED BY <3>1, <3>2
  <2> QED BY <2>1
<1> HIDE DEF Adds
<1>4. CASE InitProtocol(s)
  <2>1. Calls(s, "init")
    BY <1>4 DEF InitProtocol
  <2>2. NextCall(s) \in Call /\ NextCall(s).op = "init" /\ program' = program
        /\ done' \in [Side -> Nat]
    BY <2>1, CallsMade DEF ProtocolInv
  <2>3. NextCall(s).protocol \in Proto
    BY <2>2 DEF Call
  <2>4. /\ UNCHANGED <<messages, lookup>> /\ UNCHANGED built
        /\ state' \in [Side -> {"building", "running", "panicked"}]
        /\ initialized' \in [Side -> SUBSET Proto]
    <3> DEFINE p == NextCall(s).protocol
    <3>1. CASE p \in initialized[s]
      <4>1. Panic(s)
        BY <1>4, <3>1 DEF InitProtocol
      <4> QED BY <1>1, <4>1 DEF Panic, protocols
    <3>2. CASE p \notin initialized[s]
      <4>1. /\ initialized' = [initialized EXCEPT ![s] = @ \cup {p}]
            /\ UNCHANGED <<state, built, protocols>>
        BY <1>4, <3>2 DEF InitProtocol
      <4> QED BY <1>1, <2>3, <4>1 DEF protocols
    <3> QED BY <3>1, <3>2
  <2> QED BY <1>1, <1>2, <2>2, <2>4 DEF ProtocolInv, ProtocolTypeOK
<1>5. CASE AddProtocolMessage(s)
  <2>1. Calls(s, "add")
    BY <1>5 DEF AddProtocolMessage
  <2>2. NextCall(s) \in Call /\ NextCall(s).op = "add" /\ program' = program
        /\ done' \in [Side -> Nat]
    BY <2>1, CallsMade DEF ProtocolInv
  <2> DEFINE p == NextCall(s).protocol
             t == NextCall(s).type
  <2>3. p \in Proto /\ t \in Type
    BY <2>2 DEF Call
  <2>4. CASE p \notin initialized[s] \/ t \in DOMAIN lookup[s][p]
    <3>1. Panic(s)
      BY <1>5, <2>4 DEF AddProtocolMessage
    <3>2. /\ UNCHANGED <<messages, lookup>> /\ UNCHANGED built
          /\ state' \in [Side -> {"building", "running", "panicked"}]
          /\ initialized' \in [Side -> SUBSET Proto]
      BY <1>1, <3>1 DEF Panic, protocols
    <3> QED BY <1>1, <1>2, <2>2, <3>2 DEF ProtocolInv, ProtocolTypeOK
  <2>5. CASE p \in initialized[s] /\ t \notin DOMAIN lookup[s][p]
    <3>1. /\ messages' = [messages EXCEPT ![s][p] = Append(@, t)]
          /\ lookup' = [lookup EXCEPT ![s][p] = WithIds(s, p, <<t>>)]
          /\ built' = [built EXCEPT ![s] = BuildMessage(s, t)]
          /\ UNCHANGED <<state, initialized>>
      BY <1>5, <2>5 DEF AddProtocolMessage
    <3> HIDE DEF p, t
    <3>2. built' \in [Side -> SUBSET Type] /\ t \in built'[s]
          /\ \A r \in Side : built[r] \subseteq built'[r]
      BY <1>1, <2>3, <3>1 DEF BuildMessage
    <3> DEFINE new == <<t>>
    <3>3. /\ new \in Seq(Type) /\ ToSet(new) = {t} /\ IsInjective(new)
      BY <2>3 DEF ToSet, IsInjective
    <3>4. DOMAIN lookup[s][p] = ToSet(messages[s][p])
      BY <2>3 DEF ProtocolInv, LookupIsInverse
    <3>5. Append(messages[s][p], t) = messages[s][p] \o new
      BY <1>1, <2>3, AppendIsConcat
    <3>6. messages' = [messages EXCEPT ![s][p] = Append(messages[s][p], t)]
      BY <3>1
    <3> HIDE DEF new
    <3>7. messages' = [messages EXCEPT ![s][p] = messages[s][p] \o new]
      BY <3>5, <3>6, Zenon
    <3>8. lookup' = [lookup EXCEPT ![s][p] = WithIds(s, p, new)]
      BY <3>1, Zenon DEF new
    <3>9. ToSet(new) \cap ToSet(messages[s][p]) = {} /\ ToSet(new) \subseteq built'[s]
      BY <2>5, <3>2, <3>3, <3>4
    <3>10. /\ messages' \in [Side -> [Proto -> Seq(Type)]]
           /\ \A r \in Side, q \in Proto : ToSet(messages'[r][q]) \subseteq built'[r]
           /\ LookupShape' /\ LookupIsInverse'
      BY <2>3, <3>2, <3>3, <3>7, <3>8, <3>9, Grown, Zenon
    <3>11. Adds
      BY <1>1, <1>3, <2>3, <3>3, <3>7, Zenon
    <3>12. ProtocolTypeOK'
      BY <1>1, <2>2, <3>1, <3>2, <3>10 DEF ProtocolTypeOK
    <3> QED BY <3>10, <3>11, <3>12 DEF ProtocolInv
  <2> QED BY <2>4, <2>5
<1>6. CASE IncludeProtocol(s)
  <2>1. Calls(s, "include")
    BY <1>6 DEF IncludeProtocol
  <2>2. NextCall(s) \in Call /\ NextCall(s).op = "include" /\ program' = program
        /\ done' \in [Side -> Nat]
    BY <2>1, CallsMade DEF ProtocolInv
  <2> DEFINE p == NextCall(s).protocol
             o == NextCall(s).other
             new == Missing(s, p, o)
  <2>3. p \in Proto /\ o \in Proto
    BY <2>2 DEF Call
  <2>4. CASE ~ ({p, o} \subseteq initialized[s])
    <3>1. Panic(s)
      BY <1>6, <2>4 DEF IncludeProtocol
    <3>2. /\ UNCHANGED <<messages, lookup>> /\ UNCHANGED built
          /\ state' \in [Side -> {"building", "running", "panicked"}]
          /\ initialized' \in [Side -> SUBSET Proto]
      BY <1>1, <3>1 DEF Panic, protocols
    <3> QED BY <1>1, <1>2, <2>2, <3>2 DEF ProtocolInv, ProtocolTypeOK
  <2>5. CASE {p, o} \subseteq initialized[s]
    <3>1. /\ messages' = [messages EXCEPT ![s][p] = Extended(@, new)]
          /\ lookup' = [lookup EXCEPT ![s][p] = WithIds(s, p, new)]
          /\ UNCHANGED <<state, initialized, built>>
      BY <1>6, <2>5 DEF IncludeProtocol
    <3>2. /\ new \in Seq(Type) /\ IsInjective(new)
          /\ ToSet(new) \cap ToSet(messages[s][p]) = {}
          /\ ToSet(new) \subseteq ToSet(messages[s][o])
      BY <2>3, MissingIsNew
    <3> HIDE DEF p, o, new
    <3>3. messages' = [messages EXCEPT ![s][p] = messages[s][p] \o new]
      BY <3>1 DEF Extended
    <3>4. /\ built' \in [Side -> SUBSET Type] /\ ToSet(new) \subseteq built'[s]
          /\ \A r \in Side : built[r] \subseteq built'[r]
      BY <1>1, <2>3, <3>1, <3>2
    <3>5. /\ messages' \in [Side -> [Proto -> Seq(Type)]]
          /\ \A r \in Side, q \in Proto : ToSet(messages'[r][q]) \subseteq built'[r]
          /\ LookupShape' /\ LookupIsInverse'
      BY <2>3, <3>1, <3>2, <3>3, <3>4, Grown, Zenon
    <3>6. Adds
      BY <1>1, <1>3, <2>3, <3>2, <3>3, Zenon
    <3>7. ProtocolTypeOK'
      BY <1>1, <2>2, <3>1, <3>4, <3>5 DEF ProtocolTypeOK
    <3> QED BY <3>5, <3>6, <3>7 DEF ProtocolInv
  <2> QED BY <2>4, <2>5
<1>7. CASE Run(s)
  <2>1. /\ UNCHANGED <<messages, lookup>> /\ UNCHANGED <<program, done, initialized, built>>
        /\ state' \in [Side -> {"building", "running", "panicked"}]
    BY <1>1, <1>7 DEF Run, protocols
  <2> QED BY <1>1, <1>2, <2>1 DEF ProtocolInv, ProtocolTypeOK
<1> QED BY <1>4, <1>5, <1>6, <1>7 DEF Build

\* Only a call of a program changes what Protocol has.
LEMMA OnlyBuildBuilds ==
    ASSUME [Next]_vars
    PROVE  \/ /\ \E s \in Side : Build(s)
              /\ UNCHANGED <<components, table, streams, received, buffers, taken>>
           \/ UNCHANGED building
<1>1. CASE UNCHANGED vars
  BY <1>1 DEF vars
<1>2. CASE \E s \in Side : Build(s) /\ UNCHANGED <<components, table, streams, received, buffers, taken>>
  BY <1>2
<1>3. CASE World
  <2>1. ASSUME NEW c \in Entity, NEW own, InsertConnectionOf(c, own) PROVE UNCHANGED building
    BY <2>1 DEF InsertConnectionOf
  <2>2. ASSUME NEW c \in Entity, NEW p, InsertConnectionProtocol(c, p) PROVE UNCHANGED building
    BY <2>2 DEF InsertConnectionProtocol
  <2>3. ASSUME NEW c \in Entity, RemoveConnectionOf(c) \/ End(c) \/ Arrive(c)
        PROVE  UNCHANGED building
    BY <2>3 DEF RemoveConnectionOf, End, Arrive
  <2>4. ASSUME NEW c \in Entity, NEW t \in Type, Write(c, t) \/ DrainReceived(c, t)
        PROVE  UNCHANGED building
    BY <2>4 DEF Write, DrainReceived
  <2> QED BY <1>3, <2>1, <2>2, <2>3, <2>4 DEF World
<1>4. CASE \E p \in initialized["server"] : InsertEndpointProtocol(p)
  BY <1>4 DEF InsertEndpointProtocol
<1>5. CASE Systems
  BY <1>5 DEF Systems, ReadStreams, DeserializeMessages
<1> QED BY <1>1, <1>2, <1>3, <1>4, <1>5 DEF Next

LEMMA ProtocolPreserved == ProtocolInv /\ [Next]_vars => ProtocolInv'
<1> SUFFICES ASSUME ProtocolInv, [Next]_vars PROVE ProtocolInv'
  OBVIOUS
<1>1. CASE \E s \in Side : Build(s)
  BY <1>1, BuildAdds
<1>2. CASE UNCHANGED building
  BY <1>2 DEF building, protocols, ProtocolInv, ProtocolTypeOK, LookupShape, LookupIsInverse
<1> QED BY <1>1, <1>2, OnlyBuildBuilds

\* The lookups, for every pair of programs.
LEMMA ProtocolInductive == Spec => []ProtocolInv
<1>1. Init => ProtocolInv
  BY ProtocolStarts DEF Init
<1> QED BY <1>1, ProtocolPreserved, PTL DEF Spec

\* Whatever the applications call, in whatever order, the ids and the types of
\* a protocol determine each other.
THEOREM LookupInverse == Spec => []LookupIsInverse
<1>1. ProtocolInv => LookupIsInverse
  BY DEF ProtocolInv
<1> QED BY <1>1, ProtocolInductive, PTL

\* No call ever changes the id of a message that a protocol has.
THEOREM IdsStable == Spec => IdsAreStable
<1> DEFINE Kept == \A s \in Side, p \in Proto : IsPrefix(messages[s][p], messages'[s][p])
<1>1. ProtocolInv /\ [Next]_vars => [Kept]_building
  <2> SUFFICES ASSUME ProtocolInv, [Next]_vars, NEW r \in Side, Build(r),
                      NEW s \in Side, NEW p \in Proto
               PROVE  IsPrefix(messages[s][p], messages'[s][p])
    BY OnlyBuildBuilds
  <2>1. PICK new \in Seq(Type) : messages'[s][p] = messages[s][p] \o new
    BY BuildAdds
  <2>2. messages[s][p] \in Seq(Type)
    BY DEF ProtocolInv, ProtocolTypeOK
  <2>3. IsPrefix(messages[s][p], messages[s][p] \o new)
    BY <2>2, PrefixOfConcat
  <2> QED BY <2>1, <2>3, Zenon
<1> QED BY <1>1, ProtocolInductive, PTL DEF Spec, IdsAreStable

\* An id is below the number of types, which bounds the buffers of a reader.
LEMMA NumbersAreIds ==
    ASSUME NEW ids, NEW seq \in Seq(Type), Numbers(ids, seq), NEW t \in DOMAIN ids
    PROVE  ids[t] \in Id /\ t \in Type
<1>2. Len(seq) \in Nat /\ DOMAIN seq = 1 .. Len(seq) /\ seq \in [1 .. Len(seq) -> Type]
  BY LenProperties
<1>3. IsInjective(seq)
  BY NumbersInjective
<1>4. seq \in Injection(1 .. Len(seq), Type)
  BY <1>2, <1>3 DEF Injection
<1>5. Cardinality(1 .. Len(seq)) <= Cardinality(Type)
  BY <1>4, FS_Injection, FiniteAssumption
<1>6. Cardinality(1 .. Len(seq)) = Len(seq)
  <2>1. \A n \in Nat : Cardinality(1 .. n) = n
    BY FS_Interval
  <2> QED BY <1>2, <2>1, Zenon
<1>7. Cardinality(Type) \in Nat
  BY FS_CardinalityType, FiniteAssumption
<1>8. PICK i \in DOMAIN seq : t = seq[i]
  BY DEF Numbers, ToSet
<1>9. ids[t] = i - 1
  BY <1>8 DEF Numbers
<1> QED BY <1>2, <1>5, <1>6, <1>7, <1>8, <1>9 DEF Id

LEMMA IdsAreIds ==
    ASSUME ProtocolInv, NEW s \in Side, NEW p \in Proto, NEW t \in DOMAIN lookup[s][p]
    PROVE  lookup[s][p][t] \in Id /\ t \in Type
<1> DEFINE seq == messages[s][p]
           ids == lookup[s][p]
<1>1. seq \in Seq(Type) /\ Numbers(ids, seq) /\ t \in DOMAIN ids
  BY DEF ProtocolInv, ProtocolTypeOK, LookupIsInverse, Numbers
<1> HIDE DEF seq, ids
<1>2. ids[t] \in Id /\ t \in Type
  BY <1>1, NumbersAreIds
<1> QED BY <1>2 DEF ids

\* A call takes no protocol away.
LEMMA InitializedGrows ==
    ASSUME ProtocolInv, NEW s \in Side, Build(s)
    PROVE  \A r \in Side : initialized[r] \subseteq initialized'[r]
<1>1. initialized \in [Side -> SUBSET Proto]
  BY DEF ProtocolInv, ProtocolTypeOK
<1>2. ASSUME UNCHANGED initialized PROVE \A r \in Side : initialized[r] \subseteq initialized'[r]
  BY <1>2
<1>3. CASE InitProtocol(s)
  <2> DEFINE p == NextCall(s).protocol
  <2>1. \/ UNCHANGED initialized
        \/ initialized' = [initialized EXCEPT ![s] = @ \cup {p}]
    BY <1>3 DEF InitProtocol, Panic
  <2> HIDE DEF p
  <2> QED BY <1>1, <1>2, <2>1
<1>4. CASE AddProtocolMessage(s)
  BY <1>2, <1>4 DEF AddProtocolMessage, Panic
<1>5. CASE IncludeProtocol(s)
  BY <1>2, <1>5 DEF IncludeProtocol, Panic
<1>6. CASE Run(s)
  BY <1>2, <1>6 DEF Run
<1> QED BY <1>3, <1>4, <1>5, <1>6 DEF Build

\* What a server's protocol entity says about a type, to a client that agrees.
LEMMA AgreeOnIds ==
    ASSUME ProtocolInv, Agree
    PROVE  /\ DOMAIN lookup["client"][Used] = DOMAIN Ids[Used]
           /\ \A t \in DOMAIN Ids[Used] : lookup["client"][Used][t] = Ids[Used][t]
<1>1. "client" \in Side /\ "server" \in Side /\ Used \in Proto
  BY UsedAssumption DEF Side
<1>2. /\ Numbers(lookup["client"][Used], messages["client"][Used])
      /\ Numbers(Ids[Used], messages["client"][Used])
  BY <1>1 DEF ProtocolInv, LookupIsInverse, Numbers, Agree, Ids
<1>3. ASSUME NEW t \in DOMAIN Ids[Used] PROVE lookup["client"][Used][t] = Ids[Used][t]
  <2>1. PICK i \in DOMAIN messages["client"][Used] : t = messages["client"][Used][i]
    BY <1>2 DEF Numbers, ToSet
  <2> QED BY <1>2, <2>1 DEF Numbers
<1> QED BY <1>2, <1>3 DEF Numbers

-----------------------------------------------------------------------------
(* The ids that a program leads to. *)

\* The messages of a protocol after a call on it, when m has those of all.
After(m, own, call) ==
    IF call.op = "add" THEN Append(own, call.type)
    ELSE IF call.op = "include" THEN own \o Only(m[call.other], Type \ ToSet(own))
    ELSE own

\* The calls on a protocol lead to its messages, when the protocols that they
\* include have those of m.
Yields(m, calls, own) ==
    \E h : /\ h[0] = <<>>
           /\ \A i \in 1 .. Len(calls) : h[i] = After(m, h[i - 1], calls[i])
           /\ h[Len(calls)] = own

Includes(call) == call.op = "include"

\* The protocols included by the calls have the same messages in both.
SameIncluded(m, n, calls) ==
    \A i \in 1 .. Len(calls) : Includes(calls[i]) => m[calls[i].other] = n[calls[i].other]

LEMMA AfterSame ==
    ASSUME NEW m, NEW n, NEW own, NEW call, Includes(call) => m[call.other] = n[call.other]
    PROVE  After(m, own, call) = After(n, own, call)
BY DEF After, Includes

LEMMA YieldsNone ==
    ASSUME NEW m
    PROVE  Yields(m, <<>>, <<>>)
<1> DEFINE h == [i \in 0 .. 0 |-> <<>>]
<1>1. Len(<<>>) = 0 /\ 1 .. 0 = {}
  OBVIOUS
<1>2. h[0] = <<>>
  OBVIOUS
<1> HIDE DEF h
<1> QED BY <1>1, <1>2 DEF Yields

LEMMA YieldsMore ==
    ASSUME NEW m, NEW calls \in Seq(Call), NEW own, NEW call \in Call, Yields(m, calls, own)
    PROVE  Yields(m, Append(calls, call), After(m, own, call))
<1> DEFINE n == Len(calls)
           more == Append(calls, call)
           last == After(m, own, call)
<1>1. PICK h : /\ h[0] = <<>>
               /\ \A i \in 1 .. n : h[i] = After(m, h[i - 1], calls[i])
               /\ h[n] = own
  BY DEF Yields
<1> DEFINE g == [i \in 0 .. n + 1 |-> IF i = n + 1 THEN last ELSE h[i]]
<1>2. /\ n \in Nat /\ Len(more) = n + 1 /\ more[n + 1] = call
      /\ \A i \in 1 .. n : more[i] = calls[i]
  BY AppendProperties
<1> HIDE DEF n, more
<1>3. /\ g[n + 1] = last /\ (\A i \in 0 .. n : g[i] = h[i])
      /\ (\A i \in 1 .. n : g[i] = h[i] /\ g[i - 1] = h[i - 1])
  BY <1>2
<1> HIDE DEF g
<1>4. g[0] = <<>> /\ g[Len(more)] = last
  BY <1>1, <1>2, <1>3
<1>5. g[n + 1] = After(m, g[n], more[n + 1]) /\ (n + 1) - 1 = n
  BY <1>1, <1>2, <1>3
<1>6. \A i \in 1 .. n : g[i] = After(m, g[i - 1], more[i])
  BY <1>1, <1>2, <1>3
<1>7. \A i \in 1 .. Len(more) : g[i] = After(m, g[i - 1], more[i])
  <2>1. \A i \in 1 .. Len(more) : i \in 1 .. n \/ i = n + 1
    BY <1>2
  <2> QED BY <1>5, <1>6, <2>1
<1> HIDE DEF last
<1>8. Yields(m, more, last)
  BY <1>4, <1>7, Zenon DEF Yields
<1> QED BY <1>8 DEF more, last

LEMMA YieldsSame ==
    ASSUME NEW m, NEW n, NEW calls, Len(calls) \in Nat, SameIncluded(m, n, calls),
           NEW r, Yields(m, calls, r)
    PROVE  /\ Yields(n, calls, r)
           /\ \A s : Yields(n, calls, s) => r = s
<1> DEFINE k == Len(calls)
<1>1. PICK h : /\ h[0] = <<>>
               /\ \A i \in 1 .. k : h[i] = After(m, h[i - 1], calls[i])
               /\ h[k] = r
  BY DEF Yields
<1>2. \A i \in 1 .. k : h[i] = After(n, h[i - 1], calls[i])
  <2>1. \A i \in 1 .. k : Includes(calls[i]) => m[calls[i].other] = n[calls[i].other]
    BY DEF SameIncluded
  <2>2. ASSUME NEW i \in 1 .. k
        PROVE  After(m, h[i - 1], calls[i]) = After(n, h[i - 1], calls[i])
    <3> DEFINE call == calls[i]
               own == h[i - 1]
    <3>1. Includes(call) => m[call.other] = n[call.other]
      BY <2>1
    <3> HIDE DEF call, own
    <3>2. After(m, own, call) = After(n, own, call)
      BY <3>1, AfterSame
    <3> QED BY <3>2 DEF call, own
  <2> QED BY <1>1, <2>2
<1>3. Yields(n, calls, r)
  BY <1>1, <1>2, Zenon DEF Yields
<1>4. ASSUME NEW s, Yields(n, calls, s) PROVE r = s
  <2>1. PICK g : /\ g[0] = <<>>
                 /\ \A i \in 1 .. k : g[i] = After(n, g[i - 1], calls[i])
                 /\ g[k] = s
    BY <1>4 DEF Yields
  <2> DEFINE T == {i \in Nat : i <= k => h[i] = g[i]}
  <2>2. 0 \in T
    BY <1>1, <2>1
  <2>3. ASSUME NEW i \in Nat, i \in T PROVE i + 1 \in T
    <3>1. CASE i + 1 <= k
      <4>1. i + 1 \in 1 .. k /\ (i + 1) - 1 = i /\ h[i] = g[i]
        BY <2>3, <3>1
      <4>2. h[i + 1] = After(n, h[i], calls[i + 1]) /\ g[i + 1] = After(n, g[i], calls[i + 1])
        BY <1>2, <2>1, <4>1
      <4> QED BY <4>1, <4>2
    <3> QED BY <3>1
  <2> HIDE DEF T
  <2>4. Nat \subseteq T
    BY <2>2, <2>3, Induction, Zenon
  <2> HIDE DEF k
  <2>5. k \in T /\ k \in Nat /\ k <= k
    BY <2>4 DEF k
  <2> QED BY <1>1, <2>1, <2>5 DEF T
<1> QED BY <1>3, <1>4

LEMMA FirstAndNext ==
    ASSUME NEW V, NEW s \in Seq(V), NEW n \in Nat, n < Len(s)
    PROVE  /\ SubSeq(s, 1, n) \in Seq(V) /\ s[n + 1] \in V
           /\ SubSeq(s, 1, n + 1) = Append(SubSeq(s, 1, n), s[n + 1])
<1>1. Len(s) \in Nat /\ n + 1 \in 1 .. Len(s) /\ s[n + 1] \in V
  BY LenProperties
<1>2. SubSeq(s, 1, n) \in Seq(V)
  OBVIOUS
<1>3. SubSeq(s, 1, n + 1) = SubSeq(s, 1, n) \o <<s[n + 1]>>
  <2>1. 1 \in 1 .. Len(s) /\ n + 1 \in 1 .. Len(s) /\ (n + 1) - 1 = n
    BY <1>1
  <2>2. SubSeq(s, 1, n + 1) = SubSeq(s, 1, (n + 1) - 1) \o <<s[n + 1]>>
    BY <2>1, SubSeqRecursiveSecond, Zenon
  <2> QED BY <2>1, <2>2
<1>4. Append(SubSeq(s, 1, n), s[n + 1]) = SubSeq(s, 1, n) \o <<s[n + 1]>>
  BY <1>1, <1>2, AppendIsConcat
<1> QED BY <1>1, <1>2, <1>3, <1>4

\* The calls on a protocol are a program's.
LEMMA CallsOnAre ==
    ASSUME NEW calls \in Seq(Call), NEW p \in Proto
    PROVE  /\ CallsOn(p, calls) \in Seq(Call)
           /\ \A i \in 1 .. Len(CallsOn(p, calls)) :
                 \E j \in 1 .. Len(calls) :
                     calls[j] = CallsOn(p, calls)[i] /\ calls[j].protocol = p
<1> DEFINE S == {call \in Call : call.protocol = p}
           own == CallsOn(p, calls)
<1>1. own = Only(calls, S)
  BY DEF CallsOn
<1>3. \A call \in Call : call \in S <=> call.protocol = p
  OBVIOUS
<1> HIDE DEF S, own
<1>4. own \in Seq(Call)
  BY <1>1, OnlyOver, Zenon
<1>5. ToSet(own) = ToSet(calls) \cap S
  BY <1>1, OnlyElements, Zenon
<1>6. ASSUME NEW i \in 1 .. Len(own)
      PROVE  \E j \in 1 .. Len(calls) : calls[j] = own[i] /\ calls[j].protocol = p
  <2>1. own[i] \in ToSet(own)
    <3>1. DOMAIN own = 1 .. Len(own)
      BY <1>4, LenProperties
    <3> QED BY <3>1 DEF ToSet
  <2>2. own[i] \in ToSet(calls) /\ own[i] \in S
    BY <1>5, <2>1
  <2>3. PICK j \in DOMAIN calls : calls[j] = own[i]
    BY <2>2 DEF ToSet
  <2>4. DOMAIN calls = 1 .. Len(calls) /\ own[i] \in Call
    BY <1>4, LenProperties
  <2> QED BY <1>3, <2>2, <2>3, <2>4
<1> QED BY <1>4, <1>6 DEF own

LEMMA CallsOnMore ==
    ASSUME NEW calls \in Seq(Call), NEW p, NEW call \in Call
    PROVE  /\ call.protocol = p =>
                 CallsOn(p, Append(calls, call)) = Append(CallsOn(p, calls), call)
           /\ call.protocol # p =>
                 CallsOn(p, Append(calls, call)) = CallsOn(p, calls)
<1> DEFINE S == {c \in Call : c.protocol = p}
<1>1. CallsOn(p, calls) = Only(calls, S)
      /\ CallsOn(p, Append(calls, call)) = Only(Append(calls, call), S)
  BY DEF CallsOn
<1>2. call \in S <=> call.protocol = p
  OBVIOUS
<1> HIDE DEF S
<1>3. Only(Append(calls, call), S) = IF call \in S THEN Append(Only(calls, S), call) ELSE Only(calls, S)
  BY OnlyOfAppend, Zenon
<1> QED BY <1>1, <1>2, <1>3

\* All protocols have what the calls on them lead to.
ProgramYields(m, calls) == \A q \in Proto : Yields(m, CallsOn(q, calls), m[q])

\* A call changes the protocol that it is on.
AfterCall(m, n, call) ==
    \A q \in Proto : n[q] = IF q = call.protocol THEN After(m, m[q], call) ELSE m[q]

\* A call on one protocol, when no later one is on a protocol that was included.
LEMMA CallYields ==
    ASSUME NEW calls \in Seq(Call), CompleteWhenIncluded(calls),
           NEW k \in Nat, k < Len(calls), NEW call, call = calls[k + 1],
           NEW m, NEW n, ProgramYields(m, SubSeq(calls, 1, k)), AfterCall(m, n, call)
    PROVE  ProgramYields(n, SubSeq(calls, 1, k + 1))
<1> DEFINE first == SubSeq(calls, 1, k)
           more == SubSeq(calls, 1, k + 1)
<1>1. first \in Seq(Call) /\ call \in Call /\ more = Append(first, call) /\ more \in Seq(Call)
  <2>1. first \in Seq(Call) /\ call \in Call /\ more = Append(first, call)
    BY FirstAndNext
  <2> HIDE DEF first, more
  <2> QED BY <2>1, AppendProperties
<1>2. /\ Len(more) = k + 1 /\ \A i \in 1 .. k + 1 : more[i] = calls[i]
      /\ Len(calls) \in Nat /\ DOMAIN calls = 1 .. Len(calls)
  BY LenProperties
<1>3. \A q \in Proto : Yields(m, CallsOn(q, first), m[q])
  BY DEF ProgramYields
<1> HIDE DEF first, more
<1> SUFFICES ASSUME NEW q \in Proto PROVE Yields(n, CallsOn(q, more), n[q])
  BY DEF more, ProgramYields
<1>4. Yields(m, CallsOn(q, more), n[q])
  <2>1. CASE q = call.protocol
    <3>1. Yields(m, Append(CallsOn(q, first), call), After(m, m[q], call))
      BY <1>1, <1>3, CallsOnAre, YieldsMore
    <3>2. call.protocol = q => CallsOn(q, Append(first, call)) = Append(CallsOn(q, first), call)
      BY <1>1, CallsOnMore, Zenon
    <3>3. n[q] = After(m, m[q], call)
      BY <2>1 DEF AfterCall
    <3>4. CallsOn(q, more) = Append(CallsOn(q, first), call)
      BY <1>1, <2>1, <3>2
    <3> QED BY <3>1, <3>3, <3>4
  <2>2. CASE q # call.protocol
    <3>1. CallsOn(q, more) = CallsOn(q, first)
      BY <1>1, <2>2, CallsOnMore
    <3>2. n[q] = m[q]
      BY <2>2 DEF AfterCall
    <3> QED BY <1>3, <3>1, <3>2
  <2> QED BY <2>1, <2>2
<1>5. CallsOn(q, more) \in Seq(Call)
  BY <1>1, CallsOnAre
<1>6. SameIncluded(m, n, CallsOn(q, more))
  <2> DEFINE own == CallsOn(q, more)
  <2> SUFFICES ASSUME NEW i \in 1 .. Len(own), Includes(own[i])
               PROVE  m[own[i].other] = n[own[i].other]
    BY DEF SameIncluded
  <2>1. PICK j \in 1 .. Len(more) : more[j] = own[i]
    <3>1. \A c \in 1 .. Len(own) : \E d \in 1 .. Len(more) :
             more[d] = own[c] /\ more[d].protocol = q
      BY <1>1, CallsOnAre, Zenon
    <3> HIDE DEF own
    <3> QED BY <3>1
  <2>2. own[i] \in Call
    BY <1>5
  <2> HIDE DEF own
  <2>3. own[i].other \in Proto
    BY <2>2 DEF Call, Includes
  <2>4. own[i].other # call.protocol
    <3>1. j \in DOMAIN calls /\ k + 1 \in DOMAIN calls /\ calls[j] = own[i] /\ j <= k + 1
      BY <1>2, <2>1
    <3>2. calls[j].op = "include"
      BY <3>1 DEF Includes
    <3>3. calls[k + 1].protocol = calls[j].other => k + 1 < j
      BY <3>1, <3>2 DEF CompleteWhenIncluded
    <3>4. ~ (k + 1 < j)
      BY <1>2, <2>1, <3>1
    <3> QED BY <3>1, <3>3, <3>4
  <2> QED BY <2>3, <2>4 DEF AfterCall
<1> QED BY <1>4, <1>5, <1>6, YieldsSame, LenProperties

\* What the calls on each protocol lead to is told by them alone.
LEMMA CallsDecide ==
    ASSUME NEW a \in Seq(Call), NEW b \in Seq(Call), CompleteWhenIncluded(a), NEW m, NEW n,
           \A p \in Proto : CallsOn(p, a) = CallsOn(p, b),
           ProgramYields(m, a), ProgramYields(n, b)
    PROVE  \A p \in Proto : m[p] = n[p]
<1> DEFINE Before(p, k) == \A i \in 1 .. Len(a) : a[i].protocol = p => i <= k
           T == {k \in Nat : \A p \in Proto : Before(p, k) => m[p] = n[p]}
<1>1. Len(a) \in Nat /\ DOMAIN a = 1 .. Len(a) /\ \A i \in 1 .. Len(a) : a[i] \in Call
  BY LenProperties
<1>2. ASSUME NEW p \in Proto,
             \A i, j \in 1 .. Len(a) :
                a[i].protocol = p /\ Includes(a[i]) => m[a[i].other] = n[a[i].other]
      PROVE  m[p] = n[p]
  <2> DEFINE own == CallsOn(p, a)
  <2>1. Len(own) \in Nat
    BY CallsOnAre, LenProperties
  <2>2. SameIncluded(m, n, own)
    <3> SUFFICES ASSUME NEW i \in 1 .. Len(own), Includes(own[i])
                 PROVE  m[own[i].other] = n[own[i].other]
      BY DEF SameIncluded
    <3>1. PICK j \in 1 .. Len(a) : a[j] = own[i] /\ a[j].protocol = p
      BY CallsOnAre
    <3> HIDE DEF own
    <3> QED BY <1>2, <3>1
  <2>3. Yields(m, own, m[p]) /\ Yields(n, own, n[p])
    BY DEF ProgramYields
  <2> QED BY <2>1, <2>2, <2>3, YieldsSame, Zenon
<1>3. 0 \in T
  <2> SUFFICES ASSUME NEW p \in Proto, Before(p, 0) PROVE m[p] = n[p]
    OBVIOUS
  <2>1. \A i \in 1 .. Len(a) : a[i].protocol # p
    BY <1>1
  <2> QED BY <1>2, <2>1
<1>4. ASSUME NEW k \in Nat, k \in T PROVE k + 1 \in T
  <2> SUFFICES ASSUME NEW p \in Proto, Before(p, k + 1) PROVE m[p] = n[p]
    OBVIOUS
  <2>1. ASSUME NEW i \in 1 .. Len(a), a[i].protocol = p, Includes(a[i])
        PROVE  m[a[i].other] = n[a[i].other]
    <3>1. a[i].op = "include" /\ a[i] \in Call
      BY <1>1, <2>1 DEF Includes
    <3>2. a[i].other \in Proto
      BY <3>1 DEF Call
    <3>3. i <= k + 1
      BY <2>1
    <3>4. \A j \in 1 .. Len(a) : a[j].protocol = a[i].other => j < i
      BY <1>1, <3>1 DEF CompleteWhenIncluded
    <3>5. Before(a[i].other, k)
      BY <1>1, <3>3, <3>4
    <3> QED BY <1>4, <3>2, <3>5
  <2> QED BY <1>2, <2>1
<1> HIDE DEF T
<1>5. Nat \subseteq T
  BY <1>3, <1>4, Induction, Zenon
<1>6. Len(a) \in T
  BY <1>1, <1>5
<1>7. \A p \in Proto : Before(p, Len(a))
  BY <1>1
<1> QED BY <1>6, <1>7 DEF T

-----------------------------------------------------------------------------
(* The calls that an application has made have led to its protocols. *)

Made(s) == SubSeq(program[s], 1, done[s])

Led(s) ==
    /\ done[s] <= Len(program[s])
    /\ state[s] = "running" => done[s] = Len(program[s])
    /\ state[s] # "panicked" /\ CompleteWhenIncluded(program[s]) =>
          ProgramYields(messages[s], Made(s))

IsMap(ids) == ids = [t \in DOMAIN ids |-> ids[t]]

LedInv ==
    /\ ProtocolInv
    /\ \A s \in Side : Led(s)
    /\ \A s \in Side, p \in Proto : IsMap(lookup[s][p])

LEMMA LedStarts == ProtocolInit => LedInv
<1> SUFFICES ASSUME ProtocolInit PROVE LedInv
  OBVIOUS
<1>1. ProtocolInv
  BY ProtocolStarts
<1>2. ASSUME NEW s \in Side PROVE Led(s)
  <2>1. done[s] = 0 /\ state[s] = "building" /\ program[s] \in Seq(Call)
        /\ \A p \in Proto : messages[s][p] = <<>>
    BY <1>2, ProgramsAssumption DEF ProtocolInit
  <2>2. Made(s) = <<>>
    BY <2>1, SubSeqEmpty DEF Made
  <2>3. \A p \in Proto : CallsOn(p, <<>>) = <<>>
    BY OnlyOfEmpty DEF CallsOn
  <2>4. \A p \in Proto : Yields(messages[s], CallsOn(p, Made(s)), messages[s][p])
    BY <2>1, <2>2, <2>3, YieldsNone
  <2>5. Len(program[s]) \in Nat
    BY <2>1, LenProperties
  <2> QED BY <2>1, <2>4, <2>5 DEF Led, ProgramYields
<1>3. ASSUME NEW s \in Side, NEW p \in Proto PROVE IsMap(lookup[s][p])
  BY DEF ProtocolInit, IsMap
<1> QED BY <1>1, <1>2, <1>3 DEF LedInv

\* A side that does nothing.
LEMMA OtherLed ==
    ASSUME NEW s \in Side, Led(s), program' = program, done'[s] = done[s],
           state'[s] = state[s], messages'[s] = messages[s]
    PROVE  Led(s)'
BY DEF Led, Made

\* A call that panics, or does what After says.
LEMMA CallLeads ==
    ASSUME LedInv, NEW s \in Side, NEW op, Calls(s, op),
           NEW call, call = NextCall(s),
           \/ state'[s] = "panicked"
           \/ state'[s] = "building" /\ AfterCall(messages[s], messages'[s], call)
    PROVE  Led(s)'
<1> DEFINE calls == program[s]
           k == done[s]
           m == messages[s]
<1>1. calls \in Seq(Call) /\ Len(calls) \in Nat /\ k \in Nat /\ done \in [Side -> Nat]
  BY ProgramsAssumption, LenProperties DEF LedInv, ProtocolInv, ProtocolTypeOK
<1>2. /\ state[s] = "building" /\ k < Len(calls) /\ program' = program
      /\ done' = [done EXCEPT ![s] = @ + 1]
  BY DEF Calls
<1>3. done'[s] = k + 1 /\ program'[s] = calls
  BY <1>1, <1>2
<1>4. call = calls[k + 1]
  BY DEF NextCall
<1>5. CASE state'[s] = "panicked"
  BY <1>1, <1>2, <1>3, <1>5 DEF Led
<1>6. CASE state'[s] # "panicked"
  <2>1. state'[s] = "building" /\ AfterCall(m, messages'[s], call)
    BY <1>6
  <2>2. CompleteWhenIncluded(calls) => ProgramYields(m, SubSeq(calls, 1, k))
    BY <1>2 DEF LedInv, Led, Made
  <2>3. CompleteWhenIncluded(calls) => ProgramYields(messages'[s], SubSeq(calls, 1, k + 1))
    <3> HIDE DEF calls, k, m
    <3> QED BY <1>1, <1>2, <1>4, <2>1, <2>2, CallYields, Zenon
  <2> QED BY <1>1, <1>2, <1>3, <2>1, <2>3 DEF Led, Made
<1> QED BY <1>5, <1>6

LEMMA BuildLeads ==
    ASSUME LedInv, NEW s \in Side, Build(s)
    PROVE  LedInv'
<1>1. ProtocolInv'
  BY BuildAdds DEF LedInv
<1>2. /\ done \in [Side -> Nat] /\ state \in [Side -> {"building", "running", "panicked"}]
      /\ messages \in [Side -> [Proto -> Seq(Type)]]
      /\ LookupShape /\ LookupIsInverse
      /\ \A r \in Side : Led(r)
      /\ \A r \in Side, p \in Proto : IsMap(lookup[r][p])
  BY DEF LedInv, ProtocolInv, ProtocolTypeOK
<1>3. ASSUME NEW op, Calls(s, op)
      PROVE  program' = program /\ \A r \in Side : r # s => done'[r] = done[r]
  BY <1>2, <1>3 DEF Calls
<1>4. ASSUME NEW op, Calls(s, op), UNCHANGED <<messages, lookup>>,
             \/ state' = [state EXCEPT ![s] = "panicked"]
             \/ state' = state /\ NextCall(s).op = "init"
      PROVE  LedInv'
  <2>1. Led(s)'
    <3>1. CASE state' = [state EXCEPT ![s] = "panicked"]
      <4>1. state'[s] = "panicked"
        BY <1>2, <3>1
      <4> QED BY <1>4, <4>1, CallLeads
    <3>2. CASE state' = state /\ NextCall(s).op = "init"
      <4>1. state'[s] = "building"
        BY <1>4, <3>2 DEF Calls
      <4>2. \A q \in Proto : After(messages[s], messages[s][q], NextCall(s)) = messages[s][q]
        BY <3>2 DEF After
      <4>3. messages' = messages
        BY <1>4
      <4>4. AfterCall(messages[s], messages'[s], NextCall(s))
        BY <4>2, <4>3 DEF AfterCall
      <4> QED BY <1>4, <4>1, <4>4, CallLeads
    <3> QED BY <1>4, <3>1, <3>2
  <2>2. \A r \in Side : r # s => Led(r)'
    <3> SUFFICES ASSUME NEW r \in Side, r # s PROVE Led(r)'
      OBVIOUS
    <3>1. done'[r] = done[r] /\ program' = program
      BY <1>3, <1>4
    <3>2. state'[r] = state[r] /\ messages'[r] = messages[r]
      BY <1>2, <1>4
    <3> QED BY <1>2, <3>1, <3>2, OtherLed
  <2>3. \A r \in Side, p \in Proto : IsMap(lookup'[r][p])
    BY <1>2, <1>4
  <2> QED BY <1>1, <2>1, <2>2, <2>3 DEF LedInv
<1>5. ASSUME NEW op, Calls(s, op), UNCHANGED state, NEW p \in Proto, p = NextCall(s).protocol,
             NEW new,
             messages' = [messages EXCEPT ![s][p] = After(messages[s], messages[s][p], NextCall(s))],
             lookup' = [lookup EXCEPT ![s][p] = WithIds(s, p, new)]
      PROVE  LedInv'
  <2>1. ASSUME NEW own, own = After(messages[s], messages[s][p], NextCall(s))
        PROVE  /\ \A r \in Side : r # s => messages'[r] = messages[r]
               /\ \A q \in Proto : messages'[s][q] = IF q = p THEN own ELSE messages[s][q]
    <3>1. messages' = [messages EXCEPT ![s][p] = own]
      BY <1>5, <2>1, Zenon
    <3> QED BY <1>2, <3>1
  <2>2. ASSUME NEW ids, ids = WithIds(s, p, new)
        PROVE  \A r \in Side, q \in Proto : lookup'[r][q] = IF r = s /\ q = p THEN ids ELSE lookup[r][q]
    <3>1. UpdatedAt(lookup, lookup', s, p, ids)
      BY <1>5, <2>2, Zenon DEF UpdatedAt
    <3>2. Rows(lookup, Side, Proto)
      BY <1>2 DEF LookupShape, Rows
    <3>3. ValuesAt(lookup, lookup', Side, Proto, s, p, ids)
      BY <3>1, <3>2, ExceptTwice, Zenon
    <3> QED BY <3>3 DEF ValuesAt
  <2>3. IsMap(WithIds(s, p, new))
    BY DEF WithIds, IsMap
  <2>4. Led(s)'
    <3>1. state'[s] = "building"
      BY <1>5 DEF Calls
    <3>2. AfterCall(messages[s], messages'[s], NextCall(s))
      BY <1>5, <2>1 DEF AfterCall
    <3> QED BY <1>5, <3>1, <3>2, CallLeads
  <2>5. \A r \in Side : r # s => Led(r)'
    <3> SUFFICES ASSUME NEW r \in Side, r # s PROVE Led(r)'
      OBVIOUS
    <3>1. done'[r] = done[r] /\ program' = program
      BY <1>3, <1>5
    <3>2. state'[r] = state[r] /\ messages'[r] = messages[r]
      BY <1>5, <2>1
    <3> QED BY <1>2, <3>1, <3>2, OtherLed
  <2>6. \A r \in Side, q \in Proto : IsMap(lookup'[r][q])
    <3>1. PICK ids : ids = WithIds(s, p, new)
      OBVIOUS
    <3>2. /\ IsMap(ids)
          /\ \A r \in Side, q \in Proto :
                lookup'[r][q] = IF r = s /\ q = p THEN ids ELSE lookup[r][q]
      BY <2>2, <2>3, <3>1
    <3>3. ASSUME NEW r \in Side, NEW q \in Proto PROVE IsMap(lookup'[r][q])
      <4>1. lookup'[r][q] = ids \/ lookup'[r][q] = lookup[r][q]
        BY <3>2
      <4>2. IsMap(lookup[r][q])
        BY <1>2
      <4> QED BY <3>2, <4>1, <4>2
    <3> QED BY <3>3
  <2> QED BY <1>1, <2>4, <2>5, <2>6 DEF LedInv
<1>6. CASE InitProtocol(s)
  <2>1. /\ Calls(s, "init") /\ NextCall(s).op = "init" /\ UNCHANGED <<messages, lookup>>
        /\ state' = state \/ state' = [state EXCEPT ![s] = "panicked"]
    BY <1>6 DEF InitProtocol, Calls, Panic, protocols
  <2> QED BY <1>4, <2>1
<1>7. CASE AddProtocolMessage(s)
  <2>1. Calls(s, "add")
    BY <1>7 DEF AddProtocolMessage
  <2>2. NextCall(s) \in Call /\ NextCall(s).op = "add"
    BY <2>1, CallsMade DEF LedInv, ProtocolInv
  <2> DEFINE p == NextCall(s).protocol
             t == NextCall(s).type
  <2>3. p \in Proto /\ t \in Type
    BY <2>2 DEF Call
  <2>4. CASE Panic(s)
    BY <1>4, <2>1, <2>4 DEF Panic, protocols
  <2>5. CASE ~ Panic(s)
    <3>1. /\ messages' = [messages EXCEPT ![s][p] = Append(@, t)]
          /\ lookup' = [lookup EXCEPT ![s][p] = WithIds(s, p, <<t>>)]
          /\ UNCHANGED state
      BY <1>7, <2>5 DEF AddProtocolMessage
    <3>2. After(messages[s], messages[s][p], NextCall(s)) = Append(messages[s][p], t)
      BY <2>2 DEF After
    <3> HIDE DEF t
    <3>3. messages' = [messages EXCEPT ![s][p] = After(messages[s], messages[s][p], NextCall(s))]
      BY <3>1, <3>2
    <3> QED BY <1>5, <2>1, <2>3, <3>1, <3>3
  <2> QED BY <2>4, <2>5
<1>8. CASE IncludeProtocol(s)
  <2>1. Calls(s, "include")
    BY <1>8 DEF IncludeProtocol
  <2>2. NextCall(s) \in Call /\ NextCall(s).op = "include"
    BY <2>1, CallsMade DEF LedInv, ProtocolInv
  <2> DEFINE p == NextCall(s).protocol
             o == NextCall(s).other
             new == Missing(s, p, o)
  <2>3. p \in Proto /\ o \in Proto
    BY <2>2 DEF Call
  <2>4. CASE Panic(s)
    BY <1>4, <2>1, <2>4 DEF Panic, protocols
  <2>5. CASE ~ Panic(s)
    <3>1. /\ messages' = [messages EXCEPT ![s][p] = Extended(@, new)]
          /\ lookup' = [lookup EXCEPT ![s][p] = WithIds(s, p, new)]
          /\ UNCHANGED state
      BY <1>8, <2>5 DEF IncludeProtocol
    <3>2. DOMAIN lookup[s][p] = ToSet(messages[s][p])
      BY <1>2, <2>3 DEF LookupIsInverse
    <3>3. After(messages[s], messages[s][p], NextCall(s)) = messages[s][p] \o new
      BY <2>2, <3>2 DEF After, Missing
    <3> HIDE DEF new
    <3>4. messages' = [messages EXCEPT ![s][p] = After(messages[s], messages[s][p], NextCall(s))]
      BY <3>1, <3>3 DEF Extended
    <3> QED BY <1>5, <2>1, <2>3, <3>1, <3>4
  <2> QED BY <2>4, <2>5
<1>9. CASE Run(s)
  <2>1. /\ done[s] = Len(program[s]) /\ state[s] = "building"
        /\ UNCHANGED <<program, done, messages, lookup>>
        /\ state' = [state EXCEPT ![s] = "running"]
    BY <1>9 DEF Run, protocols
  <2>2. state'[s] = "running" /\ \A r \in Side : r # s => state'[r] = state[r]
    BY <1>2, <2>1
  <2>3. Led(s)'
    BY <1>2, <2>1, <2>2 DEF Led, Made
  <2>4. \A r \in Side : r # s => Led(r)'
    BY <1>2, <2>1, <2>2, OtherLed
  <2> QED BY <1>1, <1>2, <2>1, <2>3, <2>4 DEF LedInv
<1> QED BY <1>6, <1>7, <1>8, <1>9 DEF Build

LEMMA LedPreserved == LedInv /\ [Next]_vars => LedInv'
<1> SUFFICES ASSUME LedInv, [Next]_vars PROVE LedInv'
  OBVIOUS
<1>1. CASE \E s \in Side : Build(s)
  BY <1>1, BuildLeads
<1>2. CASE UNCHANGED building
  <2>1. ProtocolInv'
    BY ProtocolPreserved DEF LedInv
  <2>2. UNCHANGED <<program, done, state, messages, lookup>>
    BY <1>2 DEF building, protocols
  <2> QED BY <2>1, <2>2, OtherLed DEF LedInv
<1> QED BY <1>1, <1>2, OnlyBuildBuilds

\* Applications that make the same calls on each protocol assign the same ids.
THEOREM SameIds == Spec => []SameCallsSameIds
<1>1. LedInv => SameCallsSameIds
  <2> SUFFICES ASSUME LedInv,
                      \A s \in Side : state[s] = "running" /\ CompleteWhenIncluded(program[s]),
                      \A p \in Proto : CallsOn(p, program["client"]) = CallsOn(p, program["server"])
               PROVE  lookup["client"] = lookup["server"]
    BY DEF SameCallsSameIds
  <2> DEFINE c == "client"
             d == "server"
  <2>1. ASSUME NEW s \in Side
        PROVE  /\ program[s] \in Seq(Call) /\ CompleteWhenIncluded(program[s])
               /\ ProgramYields(messages[s], program[s])
    <3>1. program[s] \in Seq(Call) /\ done[s] = Len(program[s]) /\ state[s] # "panicked"
      BY ProgramsAssumption DEF LedInv, Led, ProtocolInv, ProtocolTypeOK
    <3>2. Made(s) = program[s]
      BY <3>1, SubSeqFull DEF Made
    <3> QED BY <3>1, <3>2 DEF LedInv, Led
  <2>2. c \in Side /\ d \in Side
    BY DEF Side
  <2>3. \A p \in Proto : messages[c][p] = messages[d][p]
    BY <2>1, <2>2, CallsDecide
  <2>4. ASSUME NEW p \in Proto PROVE lookup[c][p] = lookup[d][p]
    <3> DEFINE f == lookup[c][p]
               g == lookup[d][p]
               seq == messages[c][p]
    <3>1. Numbers(f, seq) /\ Numbers(g, seq)
      BY <2>2, <2>3 DEF LedInv, ProtocolInv, LookupIsInverse, Numbers
    <3>2. IsMap(f) /\ IsMap(g)
      BY <2>2 DEF LedInv
    <3> HIDE DEF f, g, seq
    <3>3. \A t \in DOMAIN f : f[t] = g[t]
      BY <3>1 DEF Numbers, ToSet
    <3>4. f = g
      BY <3>1, <3>2, <3>3 DEF Numbers, IsMap
    <3> QED BY <3>4 DEF f, g
  <2>5. lookup[c] = [p \in Proto |-> lookup[c][p]] /\ lookup[d] = [p \in Proto |-> lookup[d][p]]
    BY <2>2 DEF LedInv, ProtocolInv, LookupShape
  <2> QED BY <2>4, <2>5
<1>2. Init => LedInv
  BY LedStarts DEF Init
<1>3. LedInv /\ [Next]_vars => LedInv'
  BY LedPreserved
<1> QED BY <1>1, <1>2, <1>3, PTL DEF Spec

-----------------------------------------------------------------------------
(* The way of the messages of a type. *)

\* What a client with these ids may have sent by its n-th message.
Sent(ids, n) ==
    {m \in Message : m.type \in DOMAIN ids /\ m.id = ids[m.type] /\ m.number <= n}

OneOf(ids, n, t) == {m \in Sent(ids, n) : m.type = t}

Earlier == {e \in Message \X Message : e[1].number < e[2].number}

\* Messages of type t go from seq, what is on the streams, to buffer, and from
\* there to got, what the application has.  On the whole way they keep their
\* order, and if it is "whole" they are those of all, what was written.
OnWay(ids, n, t, got, buffer, seq, all, whole) ==
    /\ got \in Seq(OneOf(ids, n, t))
    /\ buffer \in Seq(OneOf(ids, n, t))
    /\ seq \in Seq(Sent(ids, n))
    /\ all \in Seq(Sent(ids, n))
    /\ Pairwise(got \o (buffer \o OfType(t, seq)), Earlier)
    /\ whole => got \o (buffer \o OfType(t, seq)) = OfType(t, all)

\* No two types have the same id.
Distinct(ids) == \A t, u \in DOMAIN ids : ids[t] = ids[u] => t = u

LEMMA SentMessages ==
    ASSUME NEW ids, NEW n, NEW t
    PROVE  /\ Sent(ids, n) \subseteq Message
           /\ OneOf(ids, n, t) \subseteq Sent(ids, n)
           /\ OneOf(ids, n, t) \subseteq Message
           /\ Sent(ids, n) \cap {m \in Message : m.type = t} = OneOf(ids, n, t)
BY DEF Sent, OneOf

\* The messages of a type are a sequence of such.
LEMMA OfTypeType ==
    ASSUME NEW ids, NEW n, NEW t, NEW seq \in Seq(Sent(ids, n))
    PROVE  OfType(t, seq) \in Seq(OneOf(ids, n, t))
<1> DEFINE S == {m \in Message : m.type = t}
<1>1. Only(seq, S) \in Seq(Sent(ids, n) \cap S)
  BY OnlyType, Zenon
<1>2. Sent(ids, n) \cap S = OneOf(ids, n, t)
  BY SentMessages
<1> QED BY <1>1, <1>2 DEF OfType

LEMMA SentLater ==
    ASSUME NEW ids, NEW n \in Nat, NEW k \in Nat, n <= k, NEW t
    PROVE  /\ Seq(Sent(ids, n)) \subseteq Seq(Sent(ids, k))
           /\ Seq(OneOf(ids, n, t)) \subseteq Seq(OneOf(ids, k, t))
<1>1. Sent(ids, n) \subseteq Sent(ids, k)
  BY DEF Sent, Message
<1>2. OneOf(ids, n, t) \subseteq OneOf(ids, k, t)
  BY <1>1 DEF OneOf
<1> QED BY <1>1, <1>2, SeqMonotonic, Zenon

\* Nothing is on its way at first.
LEMMA WayStarts ==
    ASSUME NEW ids, NEW n, NEW t, NEW whole
    PROVE  OnWay(ids, n, t, <<>>, <<>>, <<>>, <<>>, whole)
<1>1. <<>> \in Seq(OneOf(ids, n, t)) /\ <<>> \in Seq(Sent(ids, n))
  BY EmptySeq, Zenon
<1>2. OfType(t, <<>>) = <<>>
  BY OnlyOfEmpty DEF OfType
<1>3. <<>> \o <<>> = <<>>
  BY <1>1, ConcatEmptySeq, Zenon
<1>4. Pairwise(<<>>, Earlier)
  BY DEF Pairwise
<1> QED BY <1>1, <1>2, <1>3, <1>4, Zenon DEF OnWay

\* A way is one for later messages, and it need not be whole.
LEMMA WayLater ==
    ASSUME NEW ids, NEW n \in Nat, NEW k \in Nat, n <= k, NEW t,
           NEW got, NEW buffer, NEW seq, NEW all, NEW whole, NEW less,
           OnWay(ids, n, t, got, buffer, seq, all, whole), less => whole
    PROVE  OnWay(ids, k, t, got, buffer, seq, all, less)
BY SentLater DEF OnWay

\* The client writes a message of some type, with a new number.
LEMMA WayWrite ==
    ASSUME NEW ids, NEW n \in Nat, NEW t, NEW got, NEW buffer, NEW seq, NEW all, NEW whole,
           OnWay(ids, n, t, got, buffer, seq, all, whole),
           NEW m \in Sent(ids, n + 1), m.number = n + 1
    PROVE  OnWay(ids, n + 1, t, got, buffer, Append(seq, m), Append(all, m), whole)
<1> DEFINE M == Sent(ids, n + 1)
           one == OneOf(ids, n + 1, t)
           of == OfType(t, seq)
           way == got \o (buffer \o of)
<1>1. /\ got \in Seq(one) /\ buffer \in Seq(one) /\ seq \in Seq(M) /\ all \in Seq(M)
      /\ Pairwise(way, Earlier)
      /\ whole => way = OfType(t, all)
  <2>1. OnWay(ids, n + 1, t, got, buffer, seq, all, whole)
    BY WayLater
  <2> QED BY <2>1 DEF OnWay
<1>2. of \in Seq(one) /\ OfType(t, all) \in Seq(one)
  BY <1>1, OfTypeType, Zenon
<1>3. Append(seq, m) \in Seq(M) /\ Append(all, m) \in Seq(M)
  BY <1>1, AppendProperties
<1>4. /\ OfType(t, Append(seq, m)) = IF m.type = t THEN Append(of, m) ELSE of
      /\ OfType(t, Append(all, m)) =
            IF m.type = t THEN Append(OfType(t, all), m) ELSE OfType(t, all)
  <2>1. m \in {x \in Message : x.type = t} <=> m.type = t
    BY SentMessages
  <2> QED BY <1>1, <2>1, OnlyOfAppend DEF OfType
<1>5. CASE m.type # t
  <2>1. OfType(t, Append(seq, m)) = of /\ OfType(t, Append(all, m)) = OfType(t, all)
    BY <1>4, <1>5
  <2> QED BY <1>1, <1>3, <2>1, Zenon DEF OnWay
<1>6. CASE m.type = t
  <2>1. m \in one
    BY <1>6 DEF OneOf
  <2>2. way \in Seq(OneOf(ids, n, t)) /\ way \in Seq(one)
    <3>1. got \in Seq(OneOf(ids, n, t)) /\ buffer \in Seq(OneOf(ids, n, t))
          /\ of \in Seq(OneOf(ids, n, t))
      BY OfTypeType DEF OnWay
    <3>2. \A r, s \in Seq(OneOf(ids, n, t)) : r \o s \in Seq(OneOf(ids, n, t))
      BY ConcatProperties
    <3>3. way \in Seq(OneOf(ids, n, t))
      BY <3>1, <3>2, Zenon
    <3>4. n + 1 \in Nat /\ n <= n + 1
      OBVIOUS
    <3>5. Seq(OneOf(ids, n, t)) \subseteq Seq(one)
      BY <3>4, SentLater
    <3> QED BY <3>3, <3>5, Zenon
  <2>3. \A r, s, q \in Seq(one) : r \o (s \o Append(q, m)) = Append(r \o (s \o q), m)
    <3> HIDE DEF one
    <3>1. \A s, q \in Seq(one) : s \o Append(q, m) = Append(s \o q, m) /\ s \o q \in Seq(one)
      BY <2>1
    <3> QED BY <3>1, Zenon
  <2>4. got \o (buffer \o Append(of, m)) = Append(way, m)
    BY <1>1, <1>2, <2>3, Zenon
  <2>5. Pairwise(Append(way, m), Earlier)
    <3>1. ASSUME NEW x \in ToSet(way) PROVE <<x, m>> \in Earlier
      <4>1. x \in OneOf(ids, n, t)
        BY <2>2, <3>1, LenProperties DEF ToSet
      <4>2. x \in Message /\ m \in Message /\ x.number <= n
        BY <4>1, SentMessages DEF OneOf, Sent
      <4>3. x.number < m.number
        BY <4>2 DEF Message
      <4> QED BY <4>2, <4>3 DEF Earlier
    <3> HIDE DEF way, one
    <3> QED BY <1>1, <2>1, <2>2, <3>1, PairwiseAppend, Zenon
  <2>6. whole => got \o (buffer \o Append(of, m)) = Append(OfType(t, all), m)
    BY <1>1, <2>4, Zenon
  <2>7. OfType(t, Append(seq, m)) = Append(of, m)
        /\ OfType(t, Append(all, m)) = Append(OfType(t, all), m)
    BY <1>4, <1>6
  <2> QED BY <1>1, <1>3, <2>4, <2>5, <2>6, <2>7, Zenon DEF OnWay
<1> QED BY <1>5, <1>6

\* Sequences put together in one order are the same as in another.
LEMMA ConcatAssociates ==
    ASSUME NEW V
    PROVE  \A r, s, q \in Seq(V) :
              /\ r \o (s \o q) = (r \o s) \o q
              /\ r \o s \in Seq(V) /\ r \o (s \o q) \in Seq(V)
OBVIOUS

LEMMA SeqOfElements ==
    ASSUME NEW V, NEW seq \in Seq(V)
    PROVE  seq \in Seq(ToSet(seq)) /\ ToSet(seq) \subseteq V
<1>1. /\ Len(seq) \in Nat /\ DOMAIN seq = 1 .. Len(seq) /\ seq \in [1 .. Len(seq) -> V]
  BY LenProperties
<1>2. \A i \in 1 .. Len(seq) : seq[i] \in ToSet(seq)
  BY <1>1 DEF ToSet
<1>3. seq \in [1 .. Len(seq) -> ToSet(seq)]
  BY <1>1, <1>2
<1>4. seq \in Seq(ToSet(seq))
  <2> DEFINE W == ToSet(seq)
  <2> HIDE DEF W
  <2>1. Len(seq) \in Nat /\ seq \in [1 .. Len(seq) -> W]
    BY <1>1, <1>3 DEF W
  <2>2. seq \in Seq(W)
    BY <2>1, SeqDef
  <2> QED BY <2>2 DEF W
<1> QED BY <1>1, <1>4 DEF ToSet

\* The connection takes with it what is on its streams.
LEMMA WayEnds ==
    ASSUME NEW ids, NEW n, NEW t, NEW got, NEW buffer, NEW seq, NEW all, NEW whole,
           OnWay(ids, n, t, got, buffer, seq, all, whole)
    PROVE  OnWay(ids, n, t, got, buffer, <<>>, Only(all, Message \ ToSet(seq)), whole)
<1> DEFINE one == OneOf(ids, n, t)
           of == OfType(t, seq)
           T == {m \in Message : m.type = t}
           S == Message \ ToSet(seq)
           front == got \o buffer
<1>1. /\ got \in Seq(one) /\ buffer \in Seq(one) /\ of \in Seq(one)
      /\ seq \in Seq(Sent(ids, n)) /\ all \in Seq(Sent(ids, n))
      /\ Pairwise(got \o (buffer \o of), Earlier)
      /\ whole => got \o (buffer \o of) = OfType(t, all)
  BY OfTypeType DEF OnWay
<1>2. OfType(t, <<>>) = <<>>
  BY OnlyOfEmpty DEF OfType
<1>3. ToSet(of) = ToSet(seq) \cap T
  BY <1>1, OnlyElements DEF OfType
<1>4. one \subseteq Message /\ one \subseteq T
  BY SentMessages DEF OneOf
<1> HIDE DEF one, of
<1>5. /\ front \in Seq(one) /\ got \o (buffer \o of) = front \o of
      /\ got \o (buffer \o <<>>) = front
  <2>1. front \in Seq(one)
    BY <1>1, ConcatAssociates, Zenon
  <2>2. got \o (buffer \o of) = front \o of
    <3>1. \A q, r, s \in Seq(one) : q \o (r \o s) = (q \o r) \o s
      BY ConcatAssociates
    <3> QED BY <1>1, <3>1, Zenon
  <2>3. buffer \o <<>> = buffer
    BY <1>1, ConcatEmptySeq, Zenon
  <2> QED BY <2>1, <2>2, <2>3, Zenon
<1> HIDE DEF front
<1>6. /\ Pairwise(front, Earlier)
      /\ \A x \in ToSet(front), y \in ToSet(of) : <<x, y>> \in Earlier
  <2>1. Pairwise(front \o of, Earlier)
    BY <1>1, <1>5, Zenon
  <2> QED BY <1>1, <1>5, <2>1, PairwiseConcat, Zenon
<1>7. ToSet(front) \subseteq S
  <2> SUFFICES ASSUME NEW x \in ToSet(front), x \in ToSet(seq) PROVE FALSE
    BY <1>4, <1>5, SeqOfElements
  <2>1. x \in one
    BY <1>5, SeqOfElements
  <2>2. x \in ToSet(of)
    BY <1>3, <1>4, <2>1
  <2>3. <<x, x>> \in Earlier
    BY <1>6, <2>2
  <2> QED BY <2>3 DEF Earlier, Message
<1>8. ToSet(of) \cap S = {}
  BY <1>3
<1>9. Only(front, S) = front
  <2>1. front \in Seq(ToSet(front))
    BY <1>5, SeqOfElements
  <2> QED BY <1>7, <2>1, OnlyAll, Zenon
<1>10. Only(of, S) = <<>>
  <2>1. of \in Seq(ToSet(of))
    BY <1>1, SeqOfElements
  <2> QED BY <1>8, <2>1, OnlyNone, Zenon
<1>11. Only(all, S) \in Seq(Sent(ids, n))
  BY <1>1, OnlyOver, Zenon
<1>12. ASSUME whole PROVE front = OfType(t, Only(all, S))
  <2>1. front \o of = Only(all, T)
    BY <1>1, <1>5, <1>12 DEF OfType
  <2>6. OfType(t, Only(all, S)) = Only(Only(all, S), T)
    BY DEF OfType
  <2>5. T \cap S = S \cap T
    OBVIOUS
  <2> HIDE DEF S, T
  <2>2. Only(front \o of, S) = Only(front, S) \o Only(of, S)
    <3>1. \A r, s \in Seq(one) : Only(r \o s, S) = Only(r, S) \o Only(s, S)
      BY OnlyOfConcat
    <3> QED BY <1>1, <1>5, <3>1, Zenon
  <2>3. Only(front \o of, S) = front
    BY <1>5, <1>9, <1>10, <2>2, ConcatEmptySeq, Zenon
  <2>4. Only(Only(all, T), S) = Only(all, T \cap S) /\ Only(Only(all, S), T) = Only(all, S \cap T)
    <3>1. \A A, B : Only(Only(all, A), B) = Only(all, A \cap B)
      BY <1>1, OnlyOnly
    <3> QED BY <3>1, Zenon
  <2> QED BY <2>1, <2>3, <2>4, <2>5, <2>6, Zenon
<1> HIDE DEF S
<1>13. OnWay(ids, n, t, got, buffer, <<>>, Only(all, S), whole)
  <2>1. <<>> \in Seq(Sent(ids, n))
    BY EmptySeq, Zenon
  <2>2. got \o (buffer \o OfType(t, <<>>)) = front
    BY <1>2, <1>5, Zenon
  <2> QED BY <1>1, <1>6, <1>11, <1>12, <2>1, <2>2, Zenon DEF OnWay, one
<1> QED BY <1>13 DEF S

\* read_streams takes the first messages off the streams into the buffer of their id.
LEMMA WayRead ==
    ASSUME NEW ids, NEW n, NEW t \in DOMAIN ids, Distinct(ids),
           NEW got, NEW buffer, NEW all, NEW whole,
           NEW front \in Seq(Message), NEW back \in Seq(Message),
           OnWay(ids, n, t, got, buffer, front \o back, all, whole)
    PROVE  OnWay(ids, n, t, got, Pushed(buffer, OfId(ids[t], front)), back, all, whole)
<1> DEFINE one == OneOf(ids, n, t)
           V == Sent(ids, n)
           of == OfType(t, front)
           rest == OfType(t, back)
<1>1. front \in Seq(V) /\ back \in Seq(V)
  <2>1. ToSet(front \o back) = ToSet(front) \cup ToSet(back)
    BY ToSetOfConcat
  <2>2. ToSet(front \o back) \subseteq V
    <3>1. front \o back \in Seq(V)
      BY DEF OnWay
    <3> QED BY <3>1, SeqOfElements, Zenon
  <2>3. ToSet(front) \subseteq V /\ ToSet(back) \subseteq V
    BY <2>1, <2>2
  <2>4. front \in Seq(ToSet(front)) /\ back \in Seq(ToSet(back))
    BY SeqOfElements
  <2> QED BY <2>3, <2>4, SeqMonotonic, Zenon
<1>2. OfType(t, front \o back) = of \o rest
  <2>1. \A T : Only(front \o back, T) = Only(front, T) \o Only(back, T)
    BY OnlyOfConcat
  <2> QED BY <2>1, Zenon DEF OfType
<1>3. /\ got \in Seq(one) /\ buffer \in Seq(one) /\ all \in Seq(V)
      /\ of \in Seq(one) /\ rest \in Seq(one)
      /\ Pairwise(got \o (buffer \o (of \o rest)), Earlier)
      /\ whole => got \o (buffer \o (of \o rest)) = OfType(t, all)
  BY <1>1, <1>2, OfTypeType DEF OnWay
<1>4. OfId(ids[t], front) = of
  <2>1. V \cap {m \in Message : m.id = ids[t]} = V \cap {m \in Message : m.type = t}
    BY DEF Sent, Distinct
  <2> DEFINE A == {m \in Message : m.id = ids[t]}
             B == {m \in Message : m.type = t}
  <2>2. OfId(ids[t], front) = Only(front, A) /\ of = Only(front, B)
    BY DEF OfId, OfType
  <2>3. V \cap A = V \cap B
    BY <2>1
  <2> HIDE DEF A, B, V, of
  <2>4. Only(front, A) = Only(front, B)
    BY <1>1, <2>3, OnlyAgree
  <2> QED BY <2>2, <2>4, Zenon
<1> HIDE DEF one, V, of, rest
<1>5. buffer \o of \in Seq(one) /\ buffer \o (of \o rest) = (buffer \o of) \o rest
  <2>1. \A q, r, u \in Seq(one) : q \o (r \o u) = (q \o r) \o u
    BY ConcatAssociates
  <2>2. \A q, r \in Seq(one) : q \o r \in Seq(one)
    BY ConcatAssociates
  <2>3. buffer \in Seq(one) /\ of \in Seq(one) /\ rest \in Seq(one)
    BY <1>3
  <2> QED BY <2>1, <2>2, <2>3, Zenon
<1>6. OfType(t, back) = rest
  BY DEF rest
<1> QED BY <1>1, <1>3, <1>4, <1>5, <1>6, Zenon DEF OnWay, Pushed, one, V

\* deserialize_messages takes what is in the buffer.
LEMMA WayDecode ==
    ASSUME NEW ids, NEW n, NEW t, NEW got, NEW buffer, NEW seq, NEW all, NEW whole,
           OnWay(ids, n, t, got, buffer, seq, all, whole), NEW lucky
    PROVE  /\ Decoded(t, buffer, lucky) = buffer
           /\ OnWay(ids, n, t, got \o buffer, <<>>, seq, all, whole)
<1> DEFINE one == OneOf(ids, n, t)
           of == OfType(t, seq)
<1>1. /\ got \in Seq(one) /\ buffer \in Seq(one) /\ of \in Seq(one)
      /\ seq \in Seq(Sent(ids, n)) /\ all \in Seq(Sent(ids, n))
      /\ Pairwise(got \o (buffer \o of), Earlier)
      /\ whole => got \o (buffer \o of) = OfType(t, all)
  BY OfTypeType DEF OnWay
<1>2. one \subseteq {m \in Message : m.type = t \/ lucky}
  BY SentMessages DEF OneOf
<1> HIDE DEF one, of
<1>3. Decoded(t, buffer, lucky) = buffer
  BY <1>1, <1>2, OnlyAll, Zenon DEF Decoded
<1>4. got \o buffer \in Seq(one) /\ got \o (buffer \o of) = (got \o buffer) \o of
  <2>1. \A q, r, s \in Seq(one) : q \o (r \o s) = (q \o r) \o s /\ q \o r \in Seq(one)
    BY ConcatAssociates
  <2> QED BY <1>1, <2>1, Zenon
<1>5. <<>> \in Seq(one) /\ <<>> \o of = of
  BY <1>1, EmptySeq, ConcatEmptySeq, Zenon
<1>6. OnWay(ids, n, t, got \o buffer, <<>>, seq, all, whole)
  BY <1>1, <1>4, <1>5, Zenon DEF OnWay, one, of
<1> QED BY <1>3, <1>6

\* A ReceivedMessages that is inserted afresh forgets what was not taken.
LEMMA WayForgets ==
    ASSUME NEW ids, NEW n, NEW t, NEW old \in Seq(Message), NEW new \in Seq(Message),
           NEW buffer, NEW seq, NEW all, NEW whole,
           OnWay(ids, n, t, old \o new, buffer, seq, all, whole)
    PROVE  OnWay(ids, n, t, old, buffer, seq, all, FALSE)
<1> DEFINE one == OneOf(ids, n, t)
           of == OfType(t, seq)
           rest == buffer \o of
<1>1. /\ old \o new \in Seq(one) /\ buffer \in Seq(one) /\ of \in Seq(one)
      /\ seq \in Seq(Sent(ids, n)) /\ all \in Seq(Sent(ids, n))
      /\ Pairwise((old \o new) \o rest, Earlier)
  BY OfTypeType DEF OnWay
<1>2. old \in Seq(one) /\ new \in Seq(one)
  <2>1. ToSet(old \o new) = ToSet(old) \cup ToSet(new)
    BY ToSetOfConcat
  <2>2. ToSet(old \o new) \subseteq one
    BY <1>1, SeqOfElements
  <2>3. ToSet(old) \subseteq one /\ ToSet(new) \subseteq one
    BY <2>1, <2>2
  <2>4. old \in Seq(ToSet(old)) /\ new \in Seq(ToSet(new))
    BY SeqOfElements
  <2> QED BY <2>3, <2>4, SeqMonotonic, Zenon
<1> HIDE DEF one, of
<1>3. rest \in Seq(one)
  BY <1>1, ConcatAssociates, Zenon
<1> HIDE DEF rest
<1>4. /\ Pairwise(old \o new, Earlier) /\ Pairwise(rest, Earlier)
      /\ \A x \in ToSet(old \o new), y \in ToSet(rest) : <<x, y>> \in Earlier
  BY <1>1, <1>3, PairwiseConcat, Zenon
<1>5. Pairwise(old, Earlier)
  BY <1>2, <1>4, PairwiseConcat, Zenon
<1>6. ToSet(old) \subseteq ToSet(old \o new)
  BY ToSetOfConcat
<1>7. Pairwise(old \o rest, Earlier)
  BY <1>2, <1>3, <1>4, <1>5, <1>6, PairwiseConcat
<1> QED BY <1>1, <1>2, <1>7, Zenon DEF OnWay, one, of, rest

-----------------------------------------------------------------------------
(* The inductive invariant. *)

\* The types of the variables of the server.
Typed ==
    /\ connectionOf \subseteq Entity
    /\ endpointProtocol \subseteq initialized["server"]
    /\ protocolEntity \in [Entity -> initialized["server"] \cup {None}]
    /\ received = [c \in Entity |-> received[c]]
    /\ \A c \in Entity : /\ DOMAIN received[c] \subseteq Type
                         /\ \A t \in DOMAIN received[c] : received[c][t] \in Seq(Message)
    /\ taken \in [Entity -> [Type -> Seq(Message)]]
    /\ buffers \in [Entity -> [Id -> Seq(Message)]]
    /\ assigned \in [Entity -> Seq(initialized["server"])]
    /\ count \in Nat

\* Those of the connections and their streams.  Of what a reader is inside of the
\* rest is still to come, or to be read.
Streamed ==
    /\ open \subseteq connections /\ connections \subseteq connectionOf
    /\ handles \in [Entity -> Handle \cup {None}]
    /\ \A c \in connections : handles[c] # None
    /\ reader \in [Entity -> ReaderStates]
    /\ cut \in [Entity -> BOOLEAN]
    /\ arrived \in [Entity -> Seq(Message)]
    /\ written \in [Entity -> Seq(Message)]
    /\ \A c \in Entity : cut[c] \/ reader[c] = "inside" => arrived[c] # <<>>

\* Nothing happens before both applications run.
Nothing ==
    ~ Running =>
        /\ connectionOf = {}
        /\ \A c \in Entity : assigned[c] = <<>> /\ arrived[c] = <<>> /\ written[c] = <<>>

TypesGiven(c) == UNION {DOMAIN Ids[p] : p \in ToSet(assigned[c])}

\* An entity has a protocol that it was given, receives types of such and has
\* received no others.
Given ==
    \A c \in Entity :
        /\ assigned[c] # <<>> => protocolEntity[c] \in ToSet(assigned[c])
        /\ DOMAIN received[c] \subseteq TypesGiven(c)
        /\ \A t \in Type \ TypesGiven(c) : taken[c][t] = <<>>
        /\ assigned[c] = <<>> => \A id \in Id : buffers[c][id] = <<>>

\* An entity with no other protocol than the client's.
OnlyUsed(c) == ToSet(assigned[c]) \subseteq {Used}

\* One whose reader has not lost step with the client either.
Loyal(c) == OnlyUsed(c) /\ reader[c] # "astray"

\* One that was given it once at most.
Whole(c) == assigned[c] \in {<<>>, <<Used>>}

Ways ==
    Agree =>
        \A c \in Entity : Loyal(c) =>
            \A t \in DOMAIN Ids[Used] :
                OnWay(Ids[Used], count, t, Got(c, t), buffers[c][Ids[Used][t]],
                      arrived[c], written[c], Whole(c))

MessagesInv == ProtocolInv /\ Typed /\ Streamed /\ Nothing /\ Given /\ Ways

LEMMA UsedIds ==
    ASSUME ProtocolInv
    PROVE  /\ Distinct(Ids[Used])
           /\ \A p \in Proto : \A t \in DOMAIN Ids[p] : t \in Type /\ Ids[p][t] \in Id
<1>1. "server" \in Side /\ Used \in Proto
  BY UsedAssumption DEF Side
<1>2. \A p \in Proto : \A t \in DOMAIN Ids[p] : t \in Type /\ Ids[p][t] \in Id
  BY <1>1, IdsAreIds DEF Ids
<1>3. messages["server"][Used] \in Seq(Type) /\ Numbers(Ids[Used], messages["server"][Used])
  BY <1>1 DEF ProtocolInv, ProtocolTypeOK, LookupIsInverse, Numbers, Ids
<1>4. ASSUME NEW t \in DOMAIN Ids[Used], NEW u \in DOMAIN Ids[Used], Ids[Used][t] = Ids[Used][u]
      PROVE  t = u
  <2> DEFINE seq == messages["server"][Used]
             ids == Ids[Used]
  <2>1. /\ seq \in Seq(Type) /\ DOMAIN ids = ToSet(seq)
        /\ \A i \in DOMAIN seq : ids[seq[i]] = i - 1
        /\ t \in DOMAIN ids /\ u \in DOMAIN ids /\ ids[t] = ids[u]
    BY <1>3, <1>4 DEF Numbers
  <2> HIDE DEF seq, ids
  <2>2. DOMAIN seq = 1 .. Len(seq) /\ Len(seq) \in Nat
    BY <2>1, LenProperties
  <2>3. PICK i \in DOMAIN seq : t = seq[i]
    BY <2>1 DEF ToSet
  <2>4. PICK j \in DOMAIN seq : u = seq[j]
    BY <2>1 DEF ToSet
  <2>5. i - 1 = j - 1
    BY <2>1, <2>3, <2>4
  <2>6. i = j
    BY <2>2, <2>5
  <2> QED BY <2>3, <2>4, <2>6
<1> QED BY <1>2, <1>4 DEF Distinct

\* The invariant implies the type invariant.
LEMMA TypedIsTypeOK == ProtocolInv /\ Typed /\ Streamed => TypeOK
BY DEF ProtocolInv, Typed, Streamed, TypeOK

LEMMA MessagesStart == Init => MessagesInv
<1> SUFFICES ASSUME Init PROVE MessagesInv
  OBVIOUS
<1>1. ProtocolInv
  BY ProtocolStarts DEF Init
<1>2. <<>> \in Seq(Message) /\ ToSet(<<>>) = {} /\ DOMAIN <<>> = {}
      /\ <<>> \in Seq(initialized["server"])
  BY EmptySeq DEF ToSet
<1>3. Typed /\ Streamed
  BY <1>2 DEF Init, Typed, Streamed, ReaderStates
<1>4. Nothing
  BY DEF Init, Nothing
<1>5. Given
  BY <1>2 DEF Init, Given
<1>6. Ways
  <2> SUFFICES ASSUME NEW c \in Entity, NEW t \in DOMAIN Ids[Used]
               PROVE  OnWay(Ids[Used], count, t, Got(c, t), buffers[c][Ids[Used][t]],
                            arrived[c], written[c], Whole(c))
    BY DEF Ways
  <2>1. t \in Type /\ Ids[Used][t] \in Id
    BY <1>1, UsedIds, UsedAssumption
  <2>2. taken[c][t] = <<>> /\ DOMAIN received[c] = {} /\ arrived[c] = <<>> /\ written[c] = <<>>
        /\ buffers[c][Ids[Used][t]] = <<>>
    BY <1>2, <2>1 DEF Init
  <2>3. Got(c, t) = <<>>
    <3>1. Got(c, t) = <<>> \o <<>>
      BY <2>2 DEF Got
    <3> QED BY <1>2, <3>1, ConcatEmptySeq
  <2> QED BY <2>2, <2>3, WayStarts
<1> QED BY <1>1, <1>3, <1>4, <1>5, <1>6 DEF MessagesInv

\* With the protocols as they are, it is enough that each way stays one.
Stays(c, t) ==
    /\ Loyal(c)
    /\ OnWay(Ids[Used], count, t, Got(c, t), buffers[c][Ids[Used][t]],
             arrived[c], written[c], Whole(c))
       => OnWay(Ids[Used], count', t, Got(c, t)', buffers'[c][Ids[Used][t]],
                arrived'[c], written'[c], Whole(c)')

LEMMA WaysStay ==
    ASSUME Ways, UNCHANGED building,
           \A c \in Entity : Agree /\ Loyal(c)' => \A t \in DOMAIN Ids[Used] : Stays(c, t)
    PROVE  Ways'
<1>1. lookup' = lookup /\ messages' = messages
  BY DEF building, protocols
<1>2. Ids'[Used] = Ids[Used] /\ (Agree' <=> Agree)
  BY <1>1 DEF Ids, Agree
<1> SUFFICES ASSUME Agree, NEW c \in Entity, Loyal(c)', NEW t \in DOMAIN Ids[Used]
             PROVE  OnWay(Ids[Used], count', t, Got(c, t)', buffers'[c][Ids[Used][t]],
                          arrived'[c], written'[c], Whole(c)')
  BY <1>2 DEF Ways
<1>3. Stays(c, t)
  OBVIOUS
<1>4. OnWay(Ids[Used], count, t, Got(c, t), buffers[c][Ids[Used][t]],
            arrived[c], written[c], Whole(c))
  BY <1>3 DEF Ways, Stays
<1> QED BY <1>3, <1>4 DEF Stays

\* What the end of the streams of the entities cs does.
LEMMA StreamsEndWays ==
    ASSUME Streamed, NEW cs, StreamsEnd(cs)
    PROVE  /\ arrived' \in [Entity -> Seq(Message)] /\ written' \in [Entity -> Seq(Message)]
           /\ reader' \in [Entity -> ReaderStates] /\ cut' \in [Entity -> BOOLEAN]
           /\ \A e \in Entity : cut'[e] \/ reader'[e] = "inside" => arrived'[e] # <<>>
           /\ \A e \in Entity : reader'[e] # "astray" => reader[e] # "astray"
           /\ count' = count
           /\ \A e \in Entity : \A t, got, buffer, whole :
                 OnWay(Ids[Used], count, t, got, buffer, arrived[e], written[e], whole)
                 => OnWay(Ids[Used], count, t, got, buffer, arrived'[e], written'[e], whole)
<1> DEFINE left(e) == Only(written[e], Message \ ToSet(arrived[e]))
<1>1. /\ arrived \in [Entity -> Seq(Message)] /\ written \in [Entity -> Seq(Message)]
      /\ reader \in [Entity -> ReaderStates] /\ cut \in [Entity -> BOOLEAN]
      /\ \A e \in Entity : cut[e] \/ reader[e] = "inside" => arrived[e] # <<>>
  BY DEF Streamed
<1>2. /\ arrived' = [e \in Entity |-> IF e \in cs THEN <<>> ELSE arrived[e]]
      /\ written' = [e \in Entity |-> IF e \in cs THEN left(e) ELSE written[e]]
      /\ cut' = [e \in Entity |-> e \notin cs /\ cut[e]]
      /\ reader' = [e \in Entity |->
                      IF e \in cs /\ reader[e] = "inside" THEN "astray" ELSE reader[e]]
      /\ count' = count
  BY DEF StreamsEnd
<1>3. \A e \in Entity : left(e) \in Seq(Message)
  <2> SUFFICES ASSUME NEW e \in Entity PROVE left(e) \in Seq(Message)
    OBVIOUS
  <2>1. written[e] \in Seq(Message)
    BY <1>1
  <2> QED BY <2>1, OnlyOver, Zenon
<1>4. ASSUME NEW e \in Entity, NEW t, NEW got, NEW buffer, NEW whole,
             OnWay(Ids[Used], count, t, got, buffer, arrived[e], written[e], whole)
      PROVE  OnWay(Ids[Used], count, t, got, buffer, <<>>, left(e), whole)
  BY <1>4, WayEnds, Zenon
<1> HIDE DEF left
<1>5. \A e \in Entity : /\ arrived'[e] = IF e \in cs THEN <<>> ELSE arrived[e]
                        /\ written'[e] = IF e \in cs THEN left(e) ELSE written[e]
  BY <1>2
<1>6. ASSUME NEW e \in Entity, NEW t, NEW got, NEW buffer, NEW whole,
             OnWay(Ids[Used], count, t, got, buffer, arrived[e], written[e], whole)
      PROVE  OnWay(Ids[Used], count, t, got, buffer, arrived'[e], written'[e], whole)
  <2>1. CASE e \in cs
    <3>1. arrived'[e] = <<>> /\ written'[e] = left(e)
      BY <1>5, <2>1
    <3>2. OnWay(Ids[Used], count, t, got, buffer, <<>>, left(e), whole)
      BY <1>4, <1>6, Zenon
    <3> QED BY <3>1, <3>2, Zenon
  <2>2. CASE e \notin cs
    BY <1>5, <1>6, <2>2
  <2> QED BY <2>1, <2>2
<1>7. arrived' \in [Entity -> Seq(Message)] /\ written' \in [Entity -> Seq(Message)]
  <2>1. <<>> \in Seq(Message)
    BY EmptySeq, Zenon
  <2> QED BY <1>1, <1>2, <1>3, <2>1
<1>8. /\ reader' \in [Entity -> ReaderStates] /\ cut' \in [Entity -> BOOLEAN]
      /\ \A e \in Entity : reader'[e] # "astray" => reader[e] # "astray"
  BY <1>1, <1>2 DEF ReaderStates
<1>9. \A e \in Entity : cut'[e] \/ reader'[e] = "inside" => arrived'[e] # <<>>
  <2> SUFFICES ASSUME NEW e \in Entity, cut'[e] \/ reader'[e] = "inside"
               PROVE  arrived'[e] # <<>>
    OBVIOUS
  <2>1. e \notin cs /\ (cut[e] \/ reader[e] = "inside")
    BY <1>2
  <2> QED BY <1>1, <1>5, <2>1
<1> QED BY <1>2, <1>6, <1>7, <1>8, <1>9, Zenon

\* The entry of c goes, or a new one comes and may take the place of others.
LEMMA ReplacedTable ==
    ASSUME Streamed, NEW c \in Entity,
           NoConnection(c) \/ \E h \in Handle : NewConnection(c, h)
    PROVE  /\ \E cs : StreamsEnd(cs)
           /\ open' \subseteq connections'
           /\ connections' \subseteq connections \cup {c}
           /\ NoConnection(c) => connections' \subseteq connections \ {c}
           /\ handles' \in [Entity -> Handle \cup {None}]
           /\ \A e \in connections' : e \in Entity => handles'[e] # None
<1>1. /\ open \subseteq connections
      /\ handles \in [Entity -> Handle \cup {None}]
      /\ \A e \in connections : handles[e] # None
  BY DEF Streamed
<1>2. ASSUME NoConnection(c)
      PROVE  /\ \E cs : StreamsEnd(cs)
             /\ connections' = connections \ {c} /\ open' = open \ {c} /\ handles' = handles
  BY <1>2 DEF NoConnection
<1>3. ASSUME NEW h \in Handle, NewConnection(c, h)
      PROVE  /\ \E cs : StreamsEnd(cs)
             /\ open' \subseteq connections' /\ connections' \subseteq connections \cup {c}
             /\ handles' = [handles EXCEPT ![c] = h]
  BY <1>1, <1>3 DEF NewConnection
<1>4. \A h \in Handle : h # None
  BY NoneAssumption
<1>5. CASE NoConnection(c)
  BY <1>1, <1>2, <1>5
<1>6. ASSUME NEW h \in Handle, NewConnection(c, h), ~ NoConnection(c)
      PROVE  /\ handles' \in [Entity -> Handle \cup {None}]
             /\ \A e \in connections' : e \in Entity => handles'[e] # None
  BY <1>1, <1>3, <1>4, <1>6
<1> QED BY <1>3, <1>5, <1>6

\* Where only the applications and the systems act, the connections stay.
LEMMA StreamedStays ==
    ASSUME Streamed, UNCHANGED <<connectionOf, table, reader, cut, arrived, written>>
    PROVE  Streamed'
BY DEF Streamed, table

\* A ConnectionOf is removed.
LEMMA RemovalPreserves ==
    ASSUME MessagesInv, NEW c \in Entity, RemoveConnectionOf(c)
    PROVE  Typed' /\ Streamed' /\ Nothing' /\ Given' /\ Ways'
<1>1. /\ c \in connectionOf /\ NoConnection(c) /\ connectionOf' = connectionOf \ {c}
      /\ UNCHANGED building
      /\ UNCHANGED <<endpointProtocol, protocolEntity, assigned, received, buffers, taken>>
  BY DEF RemoveConnectionOf
<1>2. /\ open' \subseteq connections' /\ connections' \subseteq connections \ {c}
      /\ handles' \in [Entity -> Handle \cup {None}]
      /\ \A e \in connections' : e \in Entity => handles'[e] # None
  BY <1>1, ReplacedTable DEF MessagesInv
<1>3. /\ arrived' \in [Entity -> Seq(Message)] /\ written' \in [Entity -> Seq(Message)]
      /\ reader' \in [Entity -> ReaderStates] /\ cut' \in [Entity -> BOOLEAN]
      /\ \A e \in Entity : cut'[e] \/ reader'[e] = "inside" => arrived'[e] # <<>>
      /\ \A e \in Entity : reader'[e] # "astray" => reader[e] # "astray"
      /\ count' = count
      /\ \A e \in Entity : \A t, got, buffer, whole :
            OnWay(Ids[Used], count, t, got, buffer, arrived[e], written[e], whole)
            => OnWay(Ids[Used], count, t, got, buffer, arrived'[e], written'[e], whole)
  BY <1>1, StreamsEndWays DEF MessagesInv, NoConnection
<1>4. /\ initialized' = initialized /\ lookup' = lookup /\ state' = state
  BY <1>1 DEF building, protocols
<1>5. Typed'
  BY <1>1, <1>3, <1>4 DEF Typed, MessagesInv
<1>6. Streamed'
  BY <1>1, <1>2, <1>3 DEF Streamed, Typed, MessagesInv
<1>7. Nothing'
  BY <1>1, <1>4 DEF Nothing, MessagesInv, Running
<1>8. Given'
  BY <1>1, <1>4 DEF Given, MessagesInv, TypesGiven, Ids
<1>9. ASSUME NEW e \in Entity, Loyal(e)', NEW t \in DOMAIN Ids[Used] PROVE Stays(e, t)
  <2>1. Got(e, t)' = Got(e, t) /\ Whole(e)' = Whole(e)
    BY <1>1 DEF Got, Whole
  <2>2. Loyal(e)
    BY <1>1, <1>3, <1>9 DEF Loyal, OnlyUsed
  <2>3. buffers' = buffers
    BY <1>1
  <2> QED BY <1>3, <2>1, <2>2, <2>3 DEF Stays
<1>10. Ways'
  BY <1>1, <1>9, WaysStay DEF MessagesInv
<1> QED BY <1>5, <1>6, <1>7, <1>8, <1>10

\* A connection ends, or the rest of a message comes on it.
LEMMA EndPreserves ==
    ASSUME MessagesInv, NEW c \in Entity, End(c) \/ Arrive(c)
    PROVE  Typed' /\ Streamed' /\ Nothing' /\ Given' /\ Ways'
<1>1. /\ UNCHANGED building
      /\ UNCHANGED <<connectionOf, endpointProtocol, protocolEntity, assigned>>
      /\ UNCHANGED <<received, buffers, taken, reader, arrived, written, count>>
      /\ UNCHANGED <<handles, connections>> /\ open' \subseteq open
      /\ cut' = cut \/ cut' = [cut EXCEPT ![c] = FALSE]
  BY DEF End, Arrive, components, table, streams
<1>2. /\ initialized' = initialized /\ lookup' = lookup /\ state' = state
  BY <1>1 DEF building, protocols
<1>3. Typed'
  BY <1>1, <1>2 DEF Typed, MessagesInv
<1>4. Streamed'
  BY <1>1 DEF Streamed, MessagesInv
<1>5. Nothing'
  BY <1>1, <1>2 DEF Nothing, MessagesInv, Running
<1>6. Given'
  BY <1>1, <1>2 DEF Given, MessagesInv, TypesGiven, Ids
<1>7. ASSUME NEW e \in Entity, Loyal(e)', NEW t \in DOMAIN Ids[Used] PROVE Stays(e, t)
  <2>1. Got(e, t)' = Got(e, t) /\ Whole(e)' = Whole(e) /\ Loyal(e)
    BY <1>1, <1>7 DEF Got, Whole, Loyal, OnlyUsed
  <2> QED BY <1>1, <2>1 DEF Stays
<1>8. Ways'
  BY <1>1, <1>7, WaysStay DEF MessagesInv
<1> QED BY <1>3, <1>4, <1>5, <1>6, <1>8

\* The endpoint gets a protocol.
LEMMA EndpointPreserves ==
    ASSUME MessagesInv, NEW p \in initialized["server"], InsertEndpointProtocol(p)
    PROVE  Typed' /\ Streamed' /\ Nothing' /\ Given' /\ Ways'
<1>1. /\ UNCHANGED building /\ endpointProtocol' = endpointProtocol \cup {p}
      /\ UNCHANGED <<connectionOf, table, protocolEntity, assigned, received, buffers, taken>>
      /\ UNCHANGED <<reader, cut, arrived, written, count>>
  BY DEF InsertEndpointProtocol, streams
<1>2. /\ initialized' = initialized /\ lookup' = lookup /\ state' = state
  BY <1>1 DEF building, protocols
<1>3. Typed'
  BY <1>1, <1>2 DEF Typed, MessagesInv
<1>8. Streamed'
  BY <1>1, StreamedStays DEF MessagesInv
<1>4. Nothing'
  BY <1>1, <1>2 DEF Nothing, MessagesInv, Running
<1>5. Given'
  BY <1>1, <1>2 DEF Given, MessagesInv, TypesGiven, Ids
<1>6. ASSUME NEW e \in Entity, Loyal(e)', NEW t \in DOMAIN Ids[Used] PROVE Stays(e, t)
  <2>1. Got(e, t)' = Got(e, t) /\ Whole(e)' = Whole(e) /\ Loyal(e)
    BY <1>1, <1>6 DEF Got, Whole, Loyal, OnlyUsed
  <2> QED BY <1>1, <2>1 DEF Stays
<1>7. Ways'
  BY <1>1, <1>6, WaysStay DEF MessagesInv
<1> QED BY <1>3, <1>8, <1>4, <1>5, <1>7

\* The application takes what it received of a type.
LEMMA DrainReceivedPreserves ==
    ASSUME MessagesInv, NEW c \in Entity, NEW t \in Type, DrainReceived(c, t)
    PROVE  Typed' /\ Streamed' /\ Nothing' /\ Given' /\ Ways'
<1>1. /\ UNCHANGED building /\ t \in DOMAIN received[c]
      /\ taken' = [taken EXCEPT ![c][t] = taken[c][t] \o received[c][t]]
      /\ received' = [received EXCEPT ![c][t] = <<>>]
      /\ UNCHANGED <<connectionOf, endpointProtocol, protocolEntity, assigned>>
      /\ UNCHANGED <<table, reader, cut, arrived, written, count, buffers>>
  BY DEF DrainReceived, components, streams
<1>2. /\ initialized' = initialized /\ lookup' = lookup /\ state' = state
  BY <1>1 DEF building, protocols
<1>3. /\ taken \in [Entity -> [Type -> Seq(Message)]]
      /\ received = [e \in Entity |-> received[e]]
      /\ \A e \in Entity : /\ DOMAIN received[e] \subseteq Type
                           /\ \A u \in DOMAIN received[e] : received[e][u] \in Seq(Message)
  BY DEF MessagesInv, Typed
<1> DEFINE now == taken[c][t] \o received[c][t]
<1>4. now \in Seq(Message) /\ now \o <<>> = now /\ <<>> \in Seq(Message)
  <2>1. taken[c][t] \in Seq(Message) /\ received[c][t] \in Seq(Message)
    BY <1>1, <1>3
  <2>2. now \in Seq(Message)
    BY <2>1, ConcatProperties
  <2> HIDE DEF now
  <2> QED BY <2>2, ConcatEmptySeq, EmptySeq
<1>5. Got(c, t) = now
  BY <1>1 DEF Got
<1>6. taken' = [taken EXCEPT ![c][t] = now]
  BY <1>1
<1> HIDE DEF now
<1>7. /\ taken' \in [Entity -> [Type -> Seq(Message)]]
      /\ \A e \in Entity, u \in Type : taken'[e][u] = IF e = c /\ u = t THEN now ELSE taken[e][u]
  <2>1. UpdatedAt(taken, taken', c, t, now) /\ Rows(taken, Entity, Type)
    BY <1>3, <1>6 DEF UpdatedAt, Rows
  <2>2. Rows(taken', Entity, Type) /\ ValuesAt(taken, taken', Entity, Type, c, t, now)
    BY <2>1, ExceptTwice, Zenon
  <2>3. \A e \in Entity, u \in Type : taken'[e][u] = IF e = c /\ u = t THEN now ELSE taken[e][u]
    BY <2>2 DEF ValuesAt
  <2>4. \A e \in Entity, u \in Type : taken'[e][u] \in Seq(Message)
    BY <1>3, <1>4, <2>3
  <2>5. taken' = [e \in Entity |-> [u \in Type |-> taken'[e][u]]]
    BY <2>2 DEF Rows
  <2> QED BY <2>3, <2>4, <2>5
<1>8. /\ received' = [e \in Entity |-> received'[e]]
      /\ \A e \in Entity :
            /\ DOMAIN received'[e] = DOMAIN received[e]
            /\ \A u \in DOMAIN received[e] :
                  received'[e][u] = IF e = c /\ u = t THEN <<>> ELSE received[e][u]
  BY <1>1, <1>3
<1>9. Typed'
  <2>1. \A e \in Entity : /\ DOMAIN received'[e] \subseteq Type
                          /\ \A u \in DOMAIN received'[e] : received'[e][u] \in Seq(Message)
    BY <1>3, <1>4, <1>8
  <2> QED BY <1>1, <1>2, <1>7, <1>8, <2>1 DEF Typed, MessagesInv
<1>14. Streamed'
  BY <1>1, StreamedStays DEF MessagesInv
<1>10. Nothing'
  BY <1>1, <1>2 DEF Nothing, MessagesInv, Running
<1>11. Given'
  <2>1. \A e \in Entity : TypesGiven(e)' = TypesGiven(e)
    BY <1>1, <1>2 DEF TypesGiven, Ids
  <2>2. ASSUME NEW e \in Entity, NEW u \in Type \ TypesGiven(e) PROVE taken'[e][u] = <<>>
    <3>1. taken[e][u] = <<>> /\ u \notin DOMAIN received[e]
      BY DEF MessagesInv, Given
    <3> QED BY <1>1, <1>7, <3>1
  <2> QED BY <1>1, <1>8, <2>1, <2>2 DEF Given, MessagesInv
<1>12. ASSUME NEW e \in Entity, Loyal(e)', NEW u \in DOMAIN Ids[Used] PROVE Stays(e, u)
  <2>0. u \in Type
    BY UsedIds, UsedAssumption DEF MessagesInv
  <2>1. Whole(e)' = Whole(e) /\ Loyal(e)
    BY <1>1, <1>12 DEF Whole, Loyal, OnlyUsed
  <2>2. Got(e, u)' = Got(e, u)
    <3>1. CASE e = c /\ u = t
      <4>1. taken'[e][u] = now /\ u \in DOMAIN received'[e] /\ received'[e][u] = <<>>
        BY <1>1, <1>7, <1>8, <3>1
      <4>2. Got(e, u)' = now \o <<>>
        BY <4>1 DEF Got
      <4> QED BY <1>4, <1>5, <3>1, <4>2
    <3>2. CASE ~ (e = c /\ u = t)
      <4>1. taken'[e][u] = taken[e][u]
        BY <1>7, <2>0, <3>2
      <4> QED BY <1>8, <3>2, <4>1 DEF Got
    <3> QED BY <3>1, <3>2
  <2> QED BY <1>1, <2>1, <2>2 DEF Stays
<1>13. Ways'
  BY <1>1, <1>12, WaysStay DEF MessagesInv
<1> QED BY <1>9, <1>14, <1>10, <1>11, <1>13

\* The client writes a message.
LEMMA WritePreserves ==
    ASSUME MessagesInv, NEW c \in Entity, NEW t \in Type, Write(c, t)
    PROVE  Typed' /\ Streamed' /\ Nothing' /\ Given' /\ Ways'
<1> DEFINE m == [id |-> lookup["client"][Used][t], type |-> t, number |-> count + 1]
<1>1. /\ UNCHANGED building /\ Running /\ t \in DOMAIN lookup["client"][Used]
      /\ arrived' = [arrived EXCEPT ![c] = Append(arrived[c], m)]
      /\ written' = [written EXCEPT ![c] = Append(written[c], m)]
      /\ count' = count + 1
      /\ UNCHANGED <<connectionOf, endpointProtocol, protocolEntity, assigned>>
      /\ \E part \in BOOLEAN : cut' = [cut EXCEPT ![c] = part]
      /\ UNCHANGED <<table, reader, received, buffers, taken>>
  BY DEF Write, components
<1>2. /\ initialized' = initialized /\ lookup' = lookup /\ state' = state
  BY <1>1 DEF building, protocols
<1>3. /\ count \in Nat
      /\ arrived \in [Entity -> Seq(Message)] /\ written \in [Entity -> Seq(Message)]
  BY DEF MessagesInv, Typed, Streamed
<1>4. m \in Message /\ m.number = count + 1 /\ m.type = t /\ m.id = lookup["client"][Used][t]
  <2>1. "client" \in Side
    BY DEF Side
  <2>2. lookup["client"][Used][t] \in Id
    BY <1>1, <2>1, IdsAreIds, UsedAssumption DEF MessagesInv
  <2> QED BY <1>3, <2>2 DEF Message
<1>5. ASSUME Agree PROVE m \in Sent(Ids[Used], count + 1)
  <2>1. t \in DOMAIN Ids[Used] /\ lookup["client"][Used][t] = Ids[Used][t]
    BY <1>1, <1>5, AgreeOnIds DEF MessagesInv
  <2> HIDE DEF m
  <2>2. m.type \in DOMAIN Ids[Used] /\ m.id = Ids[Used][m.type] /\ m.number <= count + 1
    BY <1>3, <1>4, <2>1
  <2> QED BY <1>4, <2>2 DEF Sent
<1> HIDE DEF m
<1>6. \A e \in Entity :
         /\ arrived'[e] = IF e = c THEN Append(arrived[e], m) ELSE arrived[e]
         /\ written'[e] = IF e = c THEN Append(written[e], m) ELSE written[e]
  BY <1>1, <1>3
<1>7. Typed'
  <2>1. count' \in Nat
    BY <1>1, <1>3
  <2> QED BY <1>1, <1>2, <2>1 DEF Typed, MessagesInv
<1>12. Streamed'
  <2>1. /\ Append(arrived[c], m) \in Seq(Message) /\ Append(written[c], m) \in Seq(Message)
        /\ Append(arrived[c], m) # <<>>
    BY <1>3, <1>4, AppendProperties
  <2>2. arrived' \in [Entity -> Seq(Message)] /\ written' \in [Entity -> Seq(Message)]
    BY <1>1, <1>3, <2>1
  <2>3. cut' \in [Entity -> BOOLEAN] /\ \A e \in Entity : e # c => cut'[e] = cut[e]
    BY <1>1 DEF MessagesInv, Streamed
  <2>4. \A e \in Entity : cut'[e] \/ reader'[e] = "inside" => arrived'[e] # <<>>
    BY <1>1, <1>6, <2>1, <2>3 DEF MessagesInv, Streamed
  <2> QED BY <1>1, <2>2, <2>3, <2>4 DEF Streamed, table, MessagesInv
<1>8. Nothing'
  BY <1>1, <1>2 DEF Nothing, Running
<1>9. Given'
  BY <1>1, <1>2 DEF Given, MessagesInv, TypesGiven, Ids
<1>10. ASSUME NEW e \in Entity, Agree, Loyal(e)', NEW u \in DOMAIN Ids[Used] PROVE Stays(e, u)
  <2>1. Got(e, u)' = Got(e, u) /\ Whole(e)' = Whole(e) /\ Loyal(e)
    BY <1>1, <1>10 DEF Got, Whole, Loyal, OnlyUsed
  <2> DEFINE buffer == buffers[e][Ids[Used][u]]
             before == OnWay(Ids[Used], count, u, Got(e, u), buffer, arrived[e], written[e], Whole(e))
             after == OnWay(Ids[Used], count + 1, u, Got(e, u), buffer, arrived'[e], written'[e], Whole(e))
  <2>2. ASSUME before PROVE after
    <3>1. CASE e = c
      <4>1. arrived'[e] = Append(arrived[e], m) /\ written'[e] = Append(written[e], m)
        BY <1>6, <3>1
      <4>2. OnWay(Ids[Used], count + 1, u, Got(e, u), buffer,
                  Append(arrived[e], m), Append(written[e], m), Whole(e))
        BY <1>3, <1>4, <1>5, <1>10, <2>2, WayWrite, Zenon
      <4> QED BY <4>1, <4>2, Zenon
    <3>2. CASE e # c
      <4>1. arrived'[e] = arrived[e] /\ written'[e] = written[e]
        BY <1>6, <3>2
      <4>2. count + 1 \in Nat /\ count <= count + 1
        BY <1>3
      <4>3. OnWay(Ids[Used], count + 1, u, Got(e, u), buffer, arrived[e], written[e], Whole(e))
        BY <1>3, <2>2, <4>2, WayLater, Zenon
      <4> QED BY <4>1, <4>3, Zenon
    <3> QED BY <3>1, <3>2
  <2> QED BY <1>1, <2>1, <2>2 DEF Stays
<1>11. Ways'
  BY <1>1, <1>10, WaysStay DEF MessagesInv
<1> QED BY <1>7, <1>8, <1>9, <1>11, <1>12

\* The messages on a stream are those that have come to their end and a part.
LEMMA CompleteAndPartial ==
    ASSUME Streamed, NEW c \in Entity
    PROVE  /\ Complete(c) \in Seq(Message) /\ Partial(c) \in Seq(Message)
           /\ Complete(c) \o Partial(c) = arrived[c]
           /\ cut[c] => Partial(c) # <<>>
           /\ arrived[c] = <<>> => Partial(c) = <<>>
<1> DEFINE seq == arrived[c]
           last == seq[Len(seq)]
<1>1. /\ seq \in Seq(Message) /\ cut[c] \in BOOLEAN /\ (cut[c] => seq # <<>>)
      /\ Complete(c) = SubSeq(seq, 1, Len(seq) - (IF cut[c] THEN 1 ELSE 0))
      /\ Partial(c) = IF cut[c] THEN <<last>> ELSE <<>>
  BY DEF Streamed, Complete, Partial, Last
<1> HIDE DEF seq
<1>2. CASE cut[c]
  <2>1. seq \in Seq(Message) /\ seq # <<>>
    BY <1>1, <1>2
  <2>2. /\ SubSeq(seq, 1, Len(seq) - 1) \in Seq(Message) /\ <<last>> \in Seq(Message)
        /\ SubSeq(seq, 1, Len(seq) - 1) \o <<last>> = seq
    BY <2>1
  <2>3. <<last>> # <<>>
    OBVIOUS
  <2> QED BY <1>1, <1>2, <2>1, <2>2, <2>3 DEF seq
<1>3. CASE ~ cut[c]
  <2>1. SubSeq(seq, 1, Len(seq)) = seq /\ <<>> \in Seq(Message)
    BY <1>1
  <2>2. seq \o <<>> = seq
    BY <1>1, ConcatEmptySeq
  <2>3. Complete(c) = SubSeq(seq, 1, Len(seq)) /\ Partial(c) = <<>>
    BY <1>1, <1>3
  <2> QED BY <1>1, <1>3, <2>1, <2>2, <2>3 DEF seq
<1> QED BY <1>2, <1>3

\* What the reader of c does in step with its client: it takes what has come to
\* its end, or nothing.  The messages "pushed" are sorted by their ids.
ReadInStep(c, pushed) ==
    \/ pushed[c] = Complete(c) /\ arrived'[c] = Partial(c)
    \/ pushed[c] = <<>> /\ arrived'[c] = arrived[c]

\* read_streams, when the readers of "takers" are those that take something.
TakersRead(takers) ==
    LET source == [c \in takers |-> CHOOSE d \in Found(c) : TRUE]
        strays == {c \in takers : ~ InStep(c) /\ arrived[source[c]] # <<>>}
        steady == {c \in takers : InStep(c)}
    IN  /\ \E garbled \in OneOfEach(strays, [c \in strays |-> Garbled(Complete(source[c]))]) :
             LET pushed == [c \in Entity |->
                    IF c \in strays THEN garbled[c]
                    ELSE IF c \in steady THEN Complete(c) ELSE <<>>]
             IN  buffers' = [c \in Entity |-> [id \in Id |->
                    Pushed(buffers[c][id], OfId(id, pushed[c]))]]
        /\ reader' = [c \in Entity |->
                IF c \in strays \cup {source[e] : e \in strays} THEN "astray"
                ELSE IF c \notin steady THEN reader[c]
                ELSE IF cut[c] THEN "inside" ELSE "boundary"]
        /\ arrived' = [c \in Entity |->
                IF c \in {source[e] : e \in takers} THEN Partial(c) ELSE arrived[c]]
        /\ UNCHANGED <<building, components, table, cut, written, count, received, taken>>

\* read_streams, for those that its loop reaches and each stream they find.
LEMMA WhatIsRead ==
    ASSUME Typed, Streamed, ReadStreams
    PROVE  /\ Streamed'
           /\ \E pushed \in [Entity -> Seq(Message)] :
                 /\ \A c \in Entity \ Readers : pushed[c] = <<>>
                 /\ \A c \in Entity : reader'[c] # "astray" =>
                                          reader[c] # "astray" /\ ReadInStep(c, pushed)
                 /\ buffers' = [c \in Entity |-> [id \in Id |->
                        Pushed(buffers[c][id], OfId(id, pushed[c]))]]
<1>0. PICK reached \in Reached(Readers, {c \in Readers : Found(c) = {}}) :
    \E takers \in Takers(reached) : TakersRead(takers)
  BY DEF ReadStreams, TakersRead
<1>1. PICK takers \in Takers(reached) : TakersRead(takers)
  BY <1>0
<1> DEFINE source == [c \in takers |-> CHOOSE d \in Found(c) : TRUE]
           strays == {c \in takers : ~ InStep(c) /\ arrived[source[c]] # <<>>}
           steady == {c \in takers : InStep(c)}
           lost == strays \cup {source[e] : e \in strays}
<1>2. takers \subseteq Readers /\ Readers \subseteq Entity
  BY DEF Takers, Reached, Readers, Typed
<1>3. \A c \in takers : source[c] \in Found(c)
  <2>1. \A c \in takers : Found(c) # {}
    BY DEF Takers, Reached
  <2> QED BY <2>1
<1>4. \A c \in takers : source[c] \in Entity
  BY <1>3 DEF Found, Streamed, Typed
<1>5. \A c \in steady : source[c] = c /\ reader[c] # "astray"
  BY <1>3 DEF InStep
<1>6. PICK garbled \in OneOfEach(strays, [c \in strays |-> Garbled(Complete(source[c]))]) :
         buffers' = [c \in Entity |-> [id \in Id |-> Pushed(buffers[c][id], OfId(id,
             [d \in Entity |-> IF d \in strays THEN garbled[d]
                               ELSE IF d \in steady THEN Complete(d) ELSE <<>>][c]))]]
  BY <1>1 DEF TakersRead
<1>7. /\ reader' = [c \in Entity |->
            IF c \in lost THEN "astray"
            ELSE IF c \notin steady THEN reader[c]
            ELSE IF cut[c] THEN "inside" ELSE "boundary"]
      /\ arrived' = [c \in Entity |->
            IF c \in {source[e] : e \in takers} THEN Partial(c) ELSE arrived[c]]
      /\ UNCHANGED <<connectionOf, table, cut, written>>
  BY <1>1 DEF TakersRead, components
<1>8. \A c \in Entity : /\ Complete(c) \in Seq(Message) /\ Partial(c) \in Seq(Message)
                        /\ (cut[c] => Partial(c) # <<>>)
                        /\ (arrived[c] = <<>> => Partial(c) = <<>>)
  BY CompleteAndPartial
<1>9. \A c \in strays : garbled[c] \in Seq(Message)
  <2> SUFFICES ASSUME NEW c \in strays PROVE garbled[c] \in Seq(Message)
    OBVIOUS
  <2>1. garbled[c] \in Garbled(Complete(source[c]))
    BY <1>6 DEF OneOfEach
  <2> DEFINE seq == Complete(source[c])
  <2>2. seq \in Seq(Message) /\ <<>> \in Seq(Message)
    BY <1>4, <1>8, EmptySeq
  <2> HIDE DEF seq
  <2>3. \A m \in Noise : m \in Message
    BY DEF Noise, Message
  <2>4. \A m \in Noise : <<m>> \in Seq(Message)
    BY <2>3
  <2>5. Garbled(seq) \subseteq Seq(Message)
    BY <2>2, <2>4 DEF Garbled
  <2> QED BY <2>1, <2>5 DEF seq
<1> HIDE DEF source, strays, steady, lost
<1>10. PICK pushed \in [Entity -> Seq(Message)] :
          pushed = [d \in Entity |-> IF d \in strays THEN garbled[d]
                                    ELSE IF d \in steady THEN Complete(d) ELSE <<>>]
  <2>1. <<>> \in Seq(Message)
    BY EmptySeq
  <2> QED BY <1>8, <1>9, <2>1
<1>11. \A c \in Entity \ Readers : pushed[c] = <<>>
  BY <1>2, <1>10 DEF strays, steady
<1>12. ASSUME NEW c \in Entity, reader'[c] # "astray"
       PROVE  /\ reader[c] # "astray"
              /\ \/ c \in steady /\ pushed[c] = Complete(c) /\ arrived'[c] = Partial(c)
                 \/ c \notin steady /\ pushed[c] = <<>> /\ arrived'[c] = arrived[c]
  <2>1. c \notin strays /\ c \notin {source[e] : e \in strays}
    BY <1>7, <1>12 DEF lost
  <2>2. CASE c \in steady
    <3>1. c \in takers /\ source[c] = c /\ reader[c] # "astray"
      BY <1>5, <2>2 DEF steady
    <3> QED BY <1>7, <1>10, <2>1, <2>2, <3>1
  <2>3. CASE c \notin steady
    <3>1. reader[c] # "astray" /\ pushed[c] = <<>>
      BY <1>7, <1>10, <1>12, <2>1, <2>3 DEF lost
    <3>2. CASE c \in {source[e] : e \in takers}
      <4>1. PICK e \in takers : c = source[e]
        BY <3>2
      <4>2. e \notin strays /\ e \notin steady
        BY <1>5, <2>1, <2>3, <4>1
      <4>3. arrived[c] = <<>>
        BY <4>1, <4>2 DEF strays, steady
      <4>4. arrived'[c] = Partial(c)
        BY <1>7, <3>2
      <4> QED BY <1>8, <2>3, <3>1, <4>3, <4>4
    <3>3. CASE c \notin {source[e] : e \in takers}
      BY <1>7, <2>3, <3>1, <3>3
    <3> QED BY <3>2, <3>3
  <2> QED BY <2>2, <2>3
<1>13. \A c \in Entity : reader'[c] # "astray" => reader[c] # "astray" /\ ReadInStep(c, pushed)
  BY <1>12 DEF ReadInStep
<1>14. Streamed'
  <2>1. /\ reader \in [Entity -> ReaderStates] /\ cut \in [Entity -> BOOLEAN]
        /\ arrived \in [Entity -> Seq(Message)]
        /\ \A c \in Entity : cut[c] \/ reader[c] = "inside" => arrived[c] # <<>>
    BY DEF Streamed
  <2>2. reader' \in [Entity -> ReaderStates] /\ arrived' \in [Entity -> Seq(Message)]
    BY <1>7, <1>8, <2>1 DEF ReaderStates
  <2>3. ASSUME NEW c \in Entity, cut'[c] \/ reader'[c] = "inside" PROVE arrived'[c] # <<>>
    <3>1. CASE cut[c]
      BY <1>7, <1>8, <2>1, <3>1
    <3>2. CASE ~ cut[c] /\ reader'[c] = "inside"
      <4>1. reader'[c] # "astray" /\ c \notin steady /\ reader[c] = "inside"
        BY <1>7, <3>2
      <4>2. arrived'[c] = arrived[c]
        BY <1>12, <4>1
      <4> QED BY <2>1, <4>1, <4>2
    <3> QED BY <1>7, <2>3, <3>1, <3>2
  <2> QED BY <1>7, <2>2, <2>3 DEF Streamed, table
<1>15. buffers' = [c \in Entity |-> [id \in Id |-> Pushed(buffers[c][id], OfId(id, pushed[c]))]]
  BY <1>6, <1>10
<1> QED BY <1>11, <1>13, <1>14, <1>15

LEMMA ReadStreamsPreserves ==
    ASSUME MessagesInv, Running, ReadStreams
    PROVE  Typed' /\ Streamed' /\ Nothing' /\ Given' /\ Ways'
<1>1. /\ UNCHANGED building
      /\ UNCHANGED <<connectionOf, endpointProtocol, protocolEntity, assigned>>
      /\ UNCHANGED <<received, written, count, taken>>
      /\ initialized' = initialized /\ lookup' = lookup /\ state' = state
  BY DEF ReadStreams, components, building, protocols
<1>2. Streamed'
  BY WhatIsRead DEF MessagesInv
<1>3. PICK pushed \in [Entity -> Seq(Message)] :
         /\ \A c \in Entity \ Readers : pushed[c] = <<>>
         /\ \A c \in Entity : reader'[c] # "astray" =>
                                  reader[c] # "astray" /\ ReadInStep(c, pushed)
         /\ buffers' = [c \in Entity |-> [id \in Id |->
                Pushed(buffers[c][id], OfId(id, pushed[c]))]]
  BY WhatIsRead DEF MessagesInv
<1>4. buffers \in [Entity -> [Id -> Seq(Message)]]
  BY DEF MessagesInv, Typed
<1>5. ASSUME NEW c \in Entity, NEW id \in Id
      PROVE  /\ buffers'[c][id] = Pushed(buffers[c][id], OfId(id, pushed[c]))
             /\ buffers'[c][id] \in Seq(Message)
             /\ pushed[c] = <<>> => buffers'[c][id] = buffers[c][id]
  <2> DEFINE r == buffers[c][id]
             q == OfId(id, pushed[c])
  <2>1. r \in Seq(Message) /\ pushed[c] \in Seq(Message)
    BY <1>4
  <2>2. q \in Seq(Message)
    BY <2>1, OnlyOver DEF OfId
  <2>3. pushed[c] = <<>> => q = <<>>
    BY OnlyOfEmpty DEF OfId
  <2>4. buffers'[c][id] = Pushed(r, q)
    BY <1>3
  <2> HIDE DEF r, q
  <2>5. r \o q \in Seq(Message) /\ r \o <<>> = r
    BY <2>1, <2>2, ConcatProperties, ConcatEmptySeq
  <2>6. Pushed(r, q) \in Seq(Message) /\ (q = <<>> => Pushed(r, q) = r)
    BY <2>5, Zenon DEF Pushed
  <2> QED BY <2>3, <2>4, <2>6, Zenon DEF r, q
<1>6. Typed'
  <2>1. buffers' = [c \in Entity |-> [id \in Id |-> buffers'[c][id]]]
    BY <1>3
  <2>2. buffers' \in [Entity -> [Id -> Seq(Message)]]
    BY <1>5, <2>1
  <2> QED BY <1>1, <2>2 DEF Typed, MessagesInv
<1>7. Nothing'
  BY <1>1 DEF Nothing, Running
<1>8. Given'
  <2>1. ASSUME NEW c \in Entity, assigned[c] = <<>>, NEW id \in Id PROVE buffers'[c][id] = <<>>
    <3>1. TypesGiven(c) = {}
      BY <2>1 DEF TypesGiven, ToSet
    <3>2. DOMAIN received[c] = {} /\ buffers[c][id] = <<>>
      BY <2>1, <3>1 DEF MessagesInv, Given
    <3>3. pushed[c] = <<>>
      BY <1>3, <3>2 DEF Readers
    <3> QED BY <1>5, <3>2, <3>3
  <2> QED BY <1>1, <2>1 DEF Given, MessagesInv, TypesGiven, Ids
<1>9. ASSUME NEW e \in Entity, Loyal(e)', NEW u \in DOMAIN Ids[Used] PROVE Stays(e, u)
  <2>0. Ids[Used][u] \in Id /\ Distinct(Ids[Used])
    BY UsedIds, UsedAssumption DEF MessagesInv
  <2>1. /\ Got(e, u)' = Got(e, u) /\ Whole(e)' = Whole(e) /\ Loyal(e)
        /\ ReadInStep(e, pushed)
    BY <1>1, <1>3, <1>9 DEF Got, Whole, Loyal, OnlyUsed
  <2> DEFINE id == Ids[Used][u]
             before == OnWay(Ids[Used], count, u, Got(e, u), buffers[e][id], arrived[e], written[e], Whole(e))
             after == OnWay(Ids[Used], count, u, Got(e, u), buffers'[e][id], arrived'[e], written[e], Whole(e))
  <2>2. ASSUME before PROVE after
    <3>1. CASE pushed[e] = Complete(e) /\ arrived'[e] = Partial(e)
      <4>1. /\ Complete(e) \in Seq(Message) /\ Partial(e) \in Seq(Message)
            /\ Complete(e) \o Partial(e) = arrived[e]
        BY CompleteAndPartial DEF MessagesInv
      <4>2. OnWay(Ids[Used], count, u, Got(e, u), buffers[e][id],
                  Complete(e) \o Partial(e), written[e], Whole(e))
        BY <2>2, <4>1, Zenon
      <4>3. OnWay(Ids[Used], count, u, Got(e, u), Pushed(buffers[e][id], OfId(id, Complete(e))),
                  Partial(e), written[e], Whole(e))
        BY <1>9, <2>0, <4>1, <4>2, WayRead, Zenon
      <4>4. buffers'[e][id] = Pushed(buffers[e][id], OfId(id, Complete(e)))
        BY <1>5, <2>0, <3>1
      <4> QED BY <3>1, <4>3, <4>4, Zenon
    <3>2. CASE pushed[e] = <<>> /\ arrived'[e] = arrived[e]
      <4>1. buffers'[e][id] = buffers[e][id]
        BY <1>5, <2>0, <3>2
      <4> QED BY <2>2, <3>2, <4>1, Zenon
    <3> QED BY <2>1, <3>1, <3>2 DEF ReadInStep
  <2> QED BY <1>1, <2>1, <2>2 DEF Stays
<1>10. Ways'
  BY <1>1, <1>9, WaysStay DEF MessagesInv
<1> QED BY <1>2, <1>6, <1>7, <1>8, <1>10

\* deserialize_messages::<t>, for those that its loop reaches.
LEMMA DeserializePreserves ==
    ASSUME MessagesInv, Running, NEW t \in Type, DeserializeMessages(t)
    PROVE  Typed' /\ Streamed' /\ Nothing' /\ Given' /\ Ways'
<1> DEFINE id(c) == Ids[protocolEntity[c]][t]
<1>1. PICK reached \in Reached(Receivers(t), WithoutId(t)), lucky \in BOOLEAN :
         /\ received' = [c \in Entity |->
               IF c \in reached
               THEN [received[c] EXCEPT ![t] = received[c][t] \o Decoded(t, buffers[c][id(c)], lucky)]
               ELSE received[c]]
         /\ buffers' = [c \in Entity |->
               IF c \in reached THEN [buffers[c] EXCEPT ![id(c)] = <<>>] ELSE buffers[c]]
  BY DEF DeserializeMessages
<1>2. reached \subseteq Receivers(t) \ WithoutId(t)
  BY DEF Reached
<1>3. /\ UNCHANGED building
      /\ UNCHANGED <<connectionOf, endpointProtocol, protocolEntity, assigned>>
      /\ UNCHANGED <<table, reader, cut, arrived, written, count, taken>>
      /\ initialized' = initialized /\ lookup' = lookup /\ state' = state
  BY DEF DeserializeMessages, components, streams, building, protocols
<1>4. /\ received = [c \in Entity |-> received[c]]
      /\ \A c \in Entity : /\ DOMAIN received[c] \subseteq Type
                           /\ \A u \in DOMAIN received[c] : received[c][u] \in Seq(Message)
      /\ buffers \in [Entity -> [Id -> Seq(Message)]]
      /\ protocolEntity \in [Entity -> initialized["server"] \cup {None}]
      /\ initialized["server"] \subseteq Proto
  BY DEF MessagesInv, Typed, ProtocolInv, ProtocolTypeOK, Side
<1>5. ASSUME NEW c \in Entity, c \in reached
      PROVE  /\ t \in DOMAIN received[c] /\ assigned[c] # <<>>
             /\ protocolEntity[c] \in Proto /\ protocolEntity[c] \in ToSet(assigned[c])
             /\ t \in DOMAIN Ids[protocolEntity[c]] /\ id(c) \in Id
  <2>1. t \in DOMAIN received[c] /\ t \in DOMAIN Ids[protocolEntity[c]]
    BY <1>2, <1>5 DEF Receivers, WithoutId
  <2>2. assigned[c] # <<>>
    <3>1. TypesGiven(c) # {}
      BY <2>1 DEF MessagesInv, Given
    <3> QED BY <3>1 DEF TypesGiven, ToSet
  <2>3. protocolEntity[c] \in ToSet(assigned[c])
    BY <2>2 DEF MessagesInv, Given
  <2>4. ToSet(assigned[c]) \subseteq initialized["server"]
    <3>1. assigned[c] \in Seq(initialized["server"])
      BY DEF MessagesInv, Typed
    <3> QED BY <3>1, SeqOfElements
  <2>5. protocolEntity[c] \in Proto
    BY <1>4, <2>3, <2>4
  <2> QED BY <2>1, <2>2, <2>3, <2>5, UsedIds DEF MessagesInv
<1>6. \A c \in Entity :
         /\ DOMAIN received'[c] = DOMAIN received[c]
         /\ \A u \in DOMAIN received[c] :
               received'[c][u] = IF c \in reached /\ u = t
                                 THEN received[c][t] \o Decoded(t, buffers[c][id(c)], lucky)
                                 ELSE received[c][u]
         /\ \A i \in Id :
               buffers'[c][i] = IF c \in reached /\ i = id(c) THEN <<>> ELSE buffers[c][i]
  BY <1>1, <1>4
<1>7. Typed'
  <2>1. ASSUME NEW c \in Entity, c \in reached
        PROVE  received[c][t] \o Decoded(t, buffers[c][id(c)], lucky) \in Seq(Message)
    <3> DEFINE r == received[c][t]
               s == Decoded(t, buffers[c][id(c)], lucky)
    <3>1. r \in Seq(Message) /\ buffers[c][id(c)] \in Seq(Message)
      BY <1>4, <1>5, <2>1
    <3>2. s \in Seq(Message)
      BY <3>1, OnlyOver DEF Decoded
    <3> HIDE DEF r, s
    <3>3. r \o s \in Seq(Message)
      BY <3>1, <3>2, ConcatProperties
    <3> QED BY <3>3 DEF r, s
  <2>2. <<>> \in Seq(Message)
    BY EmptySeq, Zenon
  <2>3. \A c \in Entity : /\ DOMAIN received'[c] \subseteq Type
                          /\ \A u \in DOMAIN received'[c] : received'[c][u] \in Seq(Message)
    <3>1. ASSUME NEW c \in Entity, NEW u \in DOMAIN received[c]
          PROVE  received'[c][u] \in Seq(Message)
      <4>1. CASE c \in reached /\ u = t
        <5>1. received'[c][u] = received[c][t] \o Decoded(t, buffers[c][id(c)], lucky)
          BY <1>6, <4>1
        <5> QED BY <2>1, <4>1, <5>1, Zenon
      <4>2. CASE ~ (c \in reached /\ u = t)
        BY <1>4, <1>6, <4>2
      <4> QED BY <4>1, <4>2
    <3>2. \A c \in Entity : DOMAIN received'[c] = DOMAIN received[c]
      BY <1>6
    <3> QED BY <1>4, <3>1, <3>2
  <2>4. buffers' \in [Entity -> [Id -> Seq(Message)]]
    BY <1>1, <1>4, <2>2
  <2>5. received' = [c \in Entity |-> received'[c]]
    BY <1>1
  <2> QED BY <1>3, <2>3, <2>4, <2>5 DEF Typed, MessagesInv
<1>12. Streamed'
  BY <1>3, StreamedStays DEF MessagesInv
<1>8. Nothing'
  BY <1>3 DEF Nothing, Running
<1>9. Given'
  <2>1. ASSUME NEW c \in Entity, assigned[c] = <<>>, NEW i \in Id PROVE buffers'[c][i] = <<>>
    BY <1>5, <1>6, <2>1 DEF MessagesInv, Given
  <2> QED BY <1>3, <1>6, <2>1 DEF Given, MessagesInv, TypesGiven, Ids
<1>10. ASSUME NEW e \in Entity, Loyal(e)', NEW u \in DOMAIN Ids[Used] PROVE Stays(e, u)
  <2>0. Ids[Used][u] \in Id /\ Distinct(Ids[Used])
    BY UsedIds, UsedAssumption DEF MessagesInv
  <2>1. Whole(e)' = Whole(e) /\ Loyal(e)
    BY <1>3, <1>10 DEF Whole, Loyal, OnlyUsed
  <2> DEFINE i == Ids[Used][u]
             before == OnWay(Ids[Used], count, u, Got(e, u), buffers[e][i], arrived[e], written[e], Whole(e))
             after == OnWay(Ids[Used], count, u, Got(e, u)', buffers'[e][i], arrived[e], written[e], Whole(e))
  <2>2. ASSUME before PROVE after
    <3>1. CASE e \in reached /\ u = t
      <4>1. protocolEntity[e] = Used /\ t \in DOMAIN received[e]
        BY <1>5, <2>1, <3>1 DEF Loyal, OnlyUsed
      <4> DEFINE new == Decoded(t, buffers[e][i], lucky)
                 old == received[e][t]
      <4>2. buffers'[e][i] = <<>>
        BY <1>6, <2>0, <3>1, <4>1
      <4>3. received'[e][t] = old \o new /\ t \in DOMAIN received'[e]
        BY <1>6, <3>1, <4>1
      <4>4. Got(e, u)' = taken[e][t] \o (old \o new)
        BY <1>3, <3>1, <4>3 DEF Got
      <4>5. Got(e, u) = taken[e][t] \o old
        BY <3>1, <4>1 DEF Got
      <4>6. new = buffers[e][i]
            /\ OnWay(Ids[Used], count, u, Got(e, u) \o buffers[e][i], <<>>, arrived[e], written[e], Whole(e))
        <5> DEFINE buffer == buffers[e][i]
                   got == Got(e, u)
        <5>1. OnWay(Ids[Used], count, u, got, buffer, arrived[e], written[e], Whole(e))
          BY <2>2
        <5> HIDE DEF buffer, got
        <5>2. /\ \A flag : Decoded(u, buffer, flag) = buffer
              /\ OnWay(Ids[Used], count, u, got \o buffer, <<>>, arrived[e], written[e], Whole(e))
          BY <5>1, WayDecode
        <5> QED BY <3>1, <5>2, Zenon DEF buffer, got
      <4>7. taken[e][t] \in Seq(Message) /\ old \in Seq(Message) /\ new \in Seq(Message)
        <5>1. buffers[e][i] \in Seq(Message)
          BY <1>4, <2>0
        <5>2. taken[e][t] \in Seq(Message) /\ old \in Seq(Message)
          BY <1>4, <4>1 DEF MessagesInv, Typed
        <5> QED BY <4>6, <5>1, <5>2
      <4> HIDE DEF new, old
      <4>8. taken[e][t] \o (old \o new) = (taken[e][t] \o old) \o new
        <5>1. \A q, r, s \in Seq(Message) : q \o (r \o s) = (q \o r) \o s
          BY ConcatAssociates
        <5> QED BY <4>7, <5>1, Zenon
      <4>9. Got(e, u)' = Got(e, u) \o buffers[e][i]
        BY <4>4, <4>5, <4>6, <4>8, Zenon
      <4> QED BY <4>2, <4>6, <4>9, Zenon
    <3>2. CASE ~ (e \in reached /\ u = t)
      <4>1. Got(e, u)' = Got(e, u)
        BY <1>3, <1>6, <3>2 DEF Got
      <4>2. buffers'[e][i] = buffers[e][i]
        <5>1. ASSUME e \in reached PROVE i # id(e)
          <6>1. protocolEntity[e] = Used /\ t \in DOMAIN Ids[Used] /\ u # t
            BY <1>5, <2>1, <3>2, <5>1 DEF Loyal, OnlyUsed
          <6> QED BY <2>0, <6>1, <1>10 DEF Distinct
        <5> QED BY <1>6, <2>0, <5>1
      <4> QED BY <2>2, <4>1, <4>2, Zenon
    <3> QED BY <3>1, <3>2
  <2> QED BY <1>3, <2>1, <2>2 DEF Stays
<1>11. Ways'
  BY <1>3, <1>10, WaysStay DEF MessagesInv
<1> QED BY <1>7, <1>8, <1>9, <1>11, <1>12

\* The order in which bevy runs the observers has each of the protocols.
LEMMA OrderHasAll ==
    ASSUME NEW ps \in SUBSET Proto, ps # {},
           NEW order \in [1 .. Cardinality(ps) -> ps], IsInjective(order)
    PROVE  /\ order \in Seq(ps) /\ order # <<>> /\ ToSet(order) = ps
           /\ order[Len(order)] \in ps
<1> DEFINE n == Cardinality(ps)
<1>1. IsFiniteSet(ps)
  BY FS_Subset, FiniteAssumption
<1>2. n \in Nat /\ n # 0
  BY <1>1, FS_CardinalityType, FS_EmptySet
<1>3. Cardinality(1 .. n) = n
  <2>1. \A k \in Nat : Cardinality(1 .. k) = k
    BY FS_Interval
  <2> QED BY <1>2, <2>1, Zenon
<1>4. order \in Injection(1 .. n, ps)
  BY DEF Injection
<1> HIDE DEF n
<1>5. order \in Surjection(1 .. n, ps)
  BY <1>1, <1>3, <1>4, FS_Injection DEF n
<1>6. order \in [1 .. n -> ps] /\ \A p \in ps : \E i \in 1 .. n : order[i] = p
  BY <1>5 DEF Surjection, n
<1>7. order \in Seq(ps)
  BY <1>2, <1>6, SeqDef
<1>8. DOMAIN order = 1 .. n /\ Len(order) = n
  BY <1>2, <1>6, <1>7, LenProperties
<1>9. ToSet(order) = ps
  BY <1>6, <1>8 DEF ToSet
<1>10. order[Len(order)] \in ps
  <2>1. n \in 1 .. n
    BY <1>2
  <2>2. order[n] \in ps
    BY <1>6, <2>1
  <2> QED BY <1>8, <2>2
<1>11. order # <<>>
  BY <1>2, <1>8
<1> QED BY <1>7, <1>9, <1>10, <1>11

\* An entity that is given protocols again is not whole any more.
LEMMA GivenAgain ==
    ASSUME NEW V, NEW old \in Seq(V), old # <<>>, NEW new \in Seq(V), new # <<>>, NEW p
    PROVE  old \o new \notin {<<>>, <<p>>}
<1>1. Len(old) \in Nat /\ Len(new) \in Nat /\ Len(old) # 0 /\ Len(new) # 0
      /\ Len(old \o new) = Len(old) + Len(new)
  BY EmptySeq, ConcatProperties, LenProperties
<1>2. Len(<<>>) = 0 /\ Len(<<p>>) = 1
  OBVIOUS
<1> QED BY <1>1, <1>2

\* What the observers do to an entity that is given the protocols ps.
LEMMA AssignGives ==
    ASSUME MessagesInv, NEW c \in Entity, NEW ps \in SUBSET initialized["server"],
           Assign(c, ps), UNCHANGED building, UNCHANGED <<taken, buffers>>
    PROVE  /\ protocolEntity' \in [Entity -> initialized["server"] \cup {None}]
           /\ assigned' \in [Entity -> Seq(initialized["server"])]
           /\ received' = [e \in Entity |-> received'[e]]
           /\ \A e \in Entity :
                 /\ DOMAIN received'[e] \subseteq Type
                 /\ \A t \in DOMAIN received'[e] : received'[e][t] \in Seq(Message)
           /\ Given'
           /\ \A e \in Entity : OnlyUsed(e)' => OnlyUsed(e)
           /\ \A e \in Entity : \A t \in DOMAIN Ids[Used] : \A seq, all :
                 OnWay(Ids[Used], count, t, Got(e, t), buffers[e][Ids[Used][t]], seq, all, Whole(e))
                 => OnWay(Ids[Used], count, t, Got(e, t)', buffers[e][Ids[Used][t]], seq, all, Whole(e)')
<1>1. /\ initialized' = initialized /\ lookup' = lookup /\ built' = built
      /\ taken' = taken /\ buffers' = buffers
  BY DEF building, protocols
<1>2. /\ protocolEntity \in [Entity -> initialized["server"] \cup {None}]
      /\ assigned \in [Entity -> Seq(initialized["server"])]
      /\ received = [e \in Entity |-> received[e]]
      /\ \A e \in Entity : /\ DOMAIN received[e] \subseteq Type
                           /\ \A t \in DOMAIN received[e] : received[e][t] \in Seq(Message)
      /\ taken \in [Entity -> [Type -> Seq(Message)]]
      /\ count \in Nat
      /\ initialized["server"] \subseteq Proto
  BY DEF MessagesInv, Typed, ProtocolInv, ProtocolTypeOK, Side
<1>3. CASE ps = {}
  <2>1. protocolEntity' = protocolEntity /\ received' = received /\ assigned' = assigned
    BY <1>3 DEF Assign
  <2>2. Given'
    BY <1>1, <2>1 DEF MessagesInv, Given, TypesGiven, Ids
  <2>3. \A e \in Entity : \A t : Got(e, t)' = Got(e, t) /\ Whole(e)' = Whole(e)
    BY <1>1, <2>1 DEF Got, Whole
  <2>4. \A e \in Entity : OnlyUsed(e)' => OnlyUsed(e)
    BY <2>1 DEF OnlyUsed
  <2> QED BY <1>2, <2>1, <2>2, <2>3, <2>4
<1>4. CASE ps # {}
  <2> DEFINE types == UNION {TypesOf(p) : p \in ps}
  <2>1. PICK order \in [1 .. Cardinality(ps) -> ps] :
           /\ IsInjective(order)
           /\ protocolEntity' = [protocolEntity EXCEPT ![c] = order[Len(order)]]
           /\ assigned' = [assigned EXCEPT ![c] = assigned[c] \o order]
           /\ received' = [received EXCEPT ![c] =
                 [t \in types \cup DOMAIN received[c] |->
                     IF t \in types THEN <<>> ELSE received[c][t]]]
    BY <1>4 DEF Assign
  <2>2. /\ order \in Seq(ps) /\ order # <<>> /\ ToSet(order) = ps
        /\ order[Len(order)] \in ps
    BY <1>2, <1>4, <2>1, OrderHasAll
  <2>3. order \in Seq(initialized["server"]) /\ assigned[c] \in Seq(initialized["server"])
    BY <1>2, <2>2, SeqMonotonic
  <2> DEFINE now == assigned[c] \o order
  <2>4. /\ now \in Seq(initialized["server"])
        /\ ToSet(now) = ToSet(assigned[c]) \cup ps
        /\ now # <<>>
        /\ assigned[c] # <<>> => now \notin {<<>>, <<Used>>}
    <3>1. now \in Seq(initialized["server"])
      BY <2>3, ConcatProperties
    <3>2. ToSet(now) = ToSet(assigned[c]) \cup ToSet(order)
      BY <2>3, ToSetOfConcat
    <3>3. now # <<>>
      <4>1. ToSet(<<>>) = {}
        BY DEF ToSet
      <4> HIDE DEF now
      <4> QED BY <1>4, <2>2, <3>2, <4>1
    <3>4. assigned[c] # <<>> => now \notin {<<>>, <<Used>>}
      BY <2>2, <2>3, GivenAgain
    <3> HIDE DEF now
    <3> QED BY <2>2, <3>1, <3>2, <3>3, <3>4
  <2>5. assigned' = [assigned EXCEPT ![c] = now]
    BY <2>1
  <2> HIDE DEF now
  <2>6. types \subseteq Type
    <3>1. \A p \in ps : TypesOf(p) \subseteq Type
      <4>1. "server" \in Side
        BY DEF Side
      <4>2. built["server"] \subseteq Type
        BY <4>1 DEF MessagesInv, ProtocolInv, ProtocolTypeOK
      <4> QED BY <4>2 DEF TypesOf
    <3> QED BY <3>1
  <2>7. \A t \in types : \E p \in ps : t \in DOMAIN Ids[p]
    BY DEF TypesOf
  <2> HIDE DEF types
  <2>8. \A e \in Entity :
           /\ protocolEntity'[e] = IF e = c THEN order[Len(order)] ELSE protocolEntity[e]
           /\ assigned'[e] = IF e = c THEN now ELSE assigned[e]
           /\ DOMAIN received'[e] = IF e = c THEN types \cup DOMAIN received[c] ELSE DOMAIN received[e]
           /\ \A t \in DOMAIN received'[e] :
                 received'[e][t] = IF e = c /\ t \in types THEN <<>> ELSE received[e][t]
    BY <1>2, <2>1, <2>5
  <2>9. /\ protocolEntity' \in [Entity -> initialized["server"] \cup {None}]
        /\ assigned' \in [Entity -> Seq(initialized["server"])]
        /\ received' = [e \in Entity |-> received'[e]]
    <3>1. protocolEntity' \in [Entity -> initialized["server"] \cup {None}]
      BY <1>2, <2>1, <2>2
    <3>2. assigned' \in [Entity -> Seq(initialized["server"])]
      BY <1>2, <2>4, <2>5
    <3>3. received' = [e \in Entity |-> received'[e]]
      BY <1>2, <2>1
    <3> QED BY <3>1, <3>2, <3>3
  <2>10. \A e \in Entity :
            /\ DOMAIN received'[e] \subseteq Type
            /\ \A t \in DOMAIN received'[e] : received'[e][t] \in Seq(Message)
    <3>1. <<>> \in Seq(Message)
      BY EmptySeq, Zenon
    <3>2. ASSUME NEW e \in Entity, NEW t \in DOMAIN received'[e]
          PROVE  t \in Type /\ received'[e][t] \in Seq(Message)
      <4>1. CASE e = c /\ t \in types
        <5>1. received'[e][t] = <<>>
          BY <2>8, <4>1
        <5> QED BY <2>6, <3>1, <4>1, <5>1
      <4>2. CASE ~ (e = c /\ t \in types)
        <5>1. t \in DOMAIN received[e] /\ received'[e][t] = received[e][t]
          BY <2>8, <4>2
        <5> QED BY <1>2, <5>1
      <4> QED BY <4>1, <4>2
    <3> QED BY <3>2
  <2>11. \A e \in Entity : TypesGiven(e) \subseteq TypesGiven(e)'
    <3>1. \A e \in Entity : ToSet(assigned[e]) \subseteq ToSet(assigned'[e])
      BY <2>4, <2>8
    <3> QED BY <1>1, <3>1 DEF TypesGiven, Ids
  <2>12. types \subseteq TypesGiven(c)'
    <3>1. ps \subseteq ToSet(assigned'[c])
      BY <2>4, <2>8
    <3> QED BY <1>1, <2>7, <3>1 DEF TypesGiven, Ids
  <2>13. Given'
    <3>1. ASSUME NEW e \in Entity
          PROVE  /\ assigned'[e] # <<>> => protocolEntity'[e] \in ToSet(assigned'[e])
                 /\ DOMAIN received'[e] \subseteq TypesGiven(e)'
                 /\ \A t \in Type \ TypesGiven(e)' : taken'[e][t] = <<>>
                 /\ assigned'[e] = <<>> => \A id \in Id : buffers'[e][id] = <<>>
      <4>1. /\ assigned[e] # <<>> => protocolEntity[e] \in ToSet(assigned[e])
            /\ DOMAIN received[e] \subseteq TypesGiven(e)
            /\ \A t \in Type \ TypesGiven(e) : taken[e][t] = <<>>
            /\ assigned[e] = <<>> => \A id \in Id : buffers[e][id] = <<>>
        BY DEF MessagesInv, Given
      <4>2. assigned'[e] # <<>> => protocolEntity'[e] \in ToSet(assigned'[e])
        BY <2>2, <2>4, <2>8, <4>1
      <4>3. DOMAIN received'[e] \subseteq TypesGiven(e)'
        BY <2>8, <2>11, <2>12, <4>1
      <4>4. \A t \in Type \ TypesGiven(e)' : taken'[e][t] = <<>>
        BY <1>1, <2>11, <4>1
      <4>5. assigned'[e] = <<>> => \A id \in Id : buffers'[e][id] = <<>>
        BY <1>1, <2>4, <2>8, <4>1
      <4> QED BY <4>2, <4>3, <4>4, <4>5
    <3> QED BY <3>1 DEF Given
  <2>14. \A e \in Entity : OnlyUsed(e)' => OnlyUsed(e)
    BY <2>4, <2>8 DEF OnlyUsed
  <2>15. ASSUME NEW e \in Entity, NEW t \in DOMAIN Ids[Used], NEW seq, NEW all,
                OnWay(Ids[Used], count, t, Got(e, t), buffers[e][Ids[Used][t]], seq, all, Whole(e))
         PROVE  OnWay(Ids[Used], count, t, Got(e, t)', buffers[e][Ids[Used][t]], seq, all, Whole(e)')
    <3> DEFINE buffer == buffers[e][Ids[Used][t]]
               rec == IF t \in DOMAIN received[e] THEN received[e][t] ELSE <<>>
    <3>0. t \in Type /\ count <= count
      BY <1>2, UsedIds, UsedAssumption DEF MessagesInv
    <3>1. /\ taken[e][t] \in Seq(Message) /\ rec \in Seq(Message) /\ <<>> \in Seq(Message)
          /\ taken[e][t] \o <<>> = taken[e][t]
      <4>1. taken[e][t] \in Seq(Message)
        BY <1>2, <3>0
      <4>2. rec \in Seq(Message)
        BY <1>2, EmptySeq
      <4> QED BY <4>1, <4>2, EmptySeq, ConcatEmptySeq
    <3>2. Got(e, t) = taken[e][t] \o rec
      BY DEF Got
    <3>3. CASE Got(e, t)' = Got(e, t) /\ (Whole(e)' => Whole(e))
      <4>1. OnWay(Ids[Used], count, t, Got(e, t), buffer, seq, all, Whole(e)')
        BY <1>2, <2>15, <3>0, <3>3, WayLater, Zenon
      <4> QED BY <3>3, <4>1, Zenon
    <3>4. CASE Got(e, t)' = taken[e][t] /\ Whole(e)' = FALSE
      <4> HIDE DEF rec
      <4>1. OnWay(Ids[Used], count, t, taken[e][t] \o rec, buffer, seq, all, Whole(e))
        BY <2>15, <3>2, Zenon
      <4>2. OnWay(Ids[Used], count, t, taken[e][t], buffer, seq, all, FALSE)
        BY <3>1, <4>1, WayForgets, Zenon
      <4> QED BY <3>4, <4>2, Zenon
    <3>5. CASE e # c
      <4>1. assigned'[e] = assigned[e] /\ DOMAIN received'[e] = DOMAIN received[e]
            /\ \A u \in DOMAIN received[e] : received'[e][u] = received[e][u]
        BY <2>8, <3>5
      <4>2. Got(e, t)' = Got(e, t) /\ Whole(e)' = Whole(e)
        BY <1>1, <4>1 DEF Got, Whole
      <4> QED BY <3>3, <4>2
    <3>6. CASE e = c /\ t \in types
      <4>1. t \in DOMAIN received'[e] /\ received'[e][t] = <<>>
        BY <2>8, <3>6
      <4>2. Got(e, t)' = taken[e][t]
        <5>1. Got(e, t)' = taken[e][t] \o <<>>
          BY <1>1, <4>1 DEF Got
        <5> QED BY <3>1, <5>1, Zenon
      <4>3. CASE assigned[e] = <<>>
        <5>1. TypesGiven(e) = {}
          BY <4>3 DEF TypesGiven, ToSet
        <5>2. t \notin DOMAIN received[e]
          BY <5>1 DEF MessagesInv, Given
        <5>3. rec = <<>>
          BY <5>2
        <5>4. Got(e, t)' = Got(e, t)
          BY <3>1, <3>2, <4>2, <5>3, Zenon
        <5>5. Whole(e)
          BY <4>3 DEF Whole
        <5> QED BY <3>3, <5>4, <5>5
      <4>4. CASE assigned[e] # <<>>
        <5>1. Whole(e)' = FALSE
          BY <2>4, <2>8, <3>6, <4>4 DEF Whole
        <5> QED BY <3>4, <4>2, <5>1
      <4> QED BY <4>3, <4>4
    <3>7. CASE e = c /\ t \notin types
      <4>1. /\ t \in DOMAIN received'[e] <=> t \in DOMAIN received[e]
            /\ t \in DOMAIN received[e] => received'[e][t] = received[e][t]
        BY <2>8, <3>7
      <4>2. Got(e, t)' = Got(e, t)
        BY <1>1, <4>1 DEF Got
      <4>3. Whole(e)' => Whole(e)
        BY <2>4, <2>8, <3>7 DEF Whole
      <4> QED BY <3>3, <4>2, <4>3
    <3> QED BY <3>5, <3>6, <3>7
  <2> QED BY <2>9, <2>10, <2>13, <2>14, <2>15, Zenon
<1> QED BY <1>3, <1>4

\* A connection comes, with the protocols of the bundle and of the endpoint.
LEMMA ConnectionOfPreserves ==
    ASSUME MessagesInv, NEW c \in Entity,
           NEW own \in {{}} \cup {{p} : p \in initialized["server"]}, InsertConnectionOf(c, own)
    PROVE  Typed' /\ Streamed' /\ Nothing' /\ Given' /\ Ways'
<1> DEFINE ps == own \cup endpointProtocol
<1>1. /\ Running /\ Assign(c, ps)
      /\ NoConnection(c) \/ \E h \in Handle : NewConnection(c, h)
      /\ connectionOf' = connectionOf \cup {c}
      /\ UNCHANGED building /\ UNCHANGED <<taken, buffers>> /\ UNCHANGED endpointProtocol
  BY DEF InsertConnectionOf, Inserts
<1>2. ps \in SUBSET initialized["server"]
  BY DEF MessagesInv, Typed
<1> HIDE DEF ps
<1>3. /\ initialized' = initialized /\ lookup' = lookup /\ state' = state
  BY <1>1 DEF building, protocols
<1>10. /\ \E cs : StreamsEnd(cs)
       /\ open' \subseteq connections' /\ connections' \subseteq connections \cup {c}
       /\ handles' \in [Entity -> Handle \cup {None}]
       /\ \A e \in connections' : e \in Entity => handles'[e] # None
  BY <1>1, ReplacedTable DEF MessagesInv
<1>4. /\ arrived' \in [Entity -> Seq(Message)] /\ written' \in [Entity -> Seq(Message)]
      /\ reader' \in [Entity -> ReaderStates] /\ cut' \in [Entity -> BOOLEAN]
      /\ \A e \in Entity : cut'[e] \/ reader'[e] = "inside" => arrived'[e] # <<>>
      /\ \A e \in Entity : reader'[e] # "astray" => reader[e] # "astray"
      /\ count' = count
      /\ \A e \in Entity : \A t, got, buffer, whole :
            OnWay(Ids[Used], count, t, got, buffer, arrived[e], written[e], whole)
            => OnWay(Ids[Used], count, t, got, buffer, arrived'[e], written'[e], whole)
  BY <1>10, StreamsEndWays DEF MessagesInv
<1>5. /\ protocolEntity' \in [Entity -> initialized["server"] \cup {None}]
      /\ assigned' \in [Entity -> Seq(initialized["server"])]
      /\ received' = [e \in Entity |-> received'[e]]
      /\ \A e \in Entity :
            /\ DOMAIN received'[e] \subseteq Type
            /\ \A t \in DOMAIN received'[e] : received'[e][t] \in Seq(Message)
      /\ Given'
      /\ \A e \in Entity : OnlyUsed(e)' => OnlyUsed(e)
      /\ \A e \in Entity : \A t \in DOMAIN Ids[Used] : \A seq, all :
            OnWay(Ids[Used], count, t, Got(e, t), buffers[e][Ids[Used][t]], seq, all, Whole(e))
            => OnWay(Ids[Used], count, t, Got(e, t)', buffers[e][Ids[Used][t]], seq, all, Whole(e)')
  BY <1>1, <1>2, AssignGives
<1>6. Typed'
  BY <1>1, <1>3, <1>4, <1>5 DEF Typed, MessagesInv
<1>11. Streamed'
  BY <1>1, <1>4, <1>10 DEF Streamed, Typed, MessagesInv
<1>7. Nothing'
  BY <1>1, <1>3 DEF Nothing, Running
<1>8. ASSUME NEW e \in Entity, Loyal(e)', NEW t \in DOMAIN Ids[Used] PROVE Stays(e, t)
  <2>1. Loyal(e)
    BY <1>4, <1>5, <1>8 DEF Loyal
  <2>2. ASSUME OnWay(Ids[Used], count, t, Got(e, t), buffers[e][Ids[Used][t]],
                     arrived[e], written[e], Whole(e))
        PROVE  OnWay(Ids[Used], count, t, Got(e, t)', buffers[e][Ids[Used][t]],
                     arrived'[e], written'[e], Whole(e)')
    <3>1. OnWay(Ids[Used], count, t, Got(e, t)', buffers[e][Ids[Used][t]],
                arrived[e], written[e], Whole(e)')
      BY <1>5, <1>8, <2>2, Zenon
    <3> QED BY <1>4, <3>1, Zenon
  <2>3. buffers' = buffers /\ count' = count
    BY <1>1, <1>4
  <2> QED BY <2>1, <2>2, <2>3, Zenon DEF Stays
<1>9. Ways'
  BY <1>1, <1>8, WaysStay DEF MessagesInv
<1> QED BY <1>5, <1>6, <1>7, <1>9, <1>11

\* A protocol is inserted onto a connection.
LEMMA ConnectionProtocolPreserves ==
    ASSUME MessagesInv, NEW c \in Entity, NEW p \in initialized["server"],
           InsertConnectionProtocol(c, p)
    PROVE  Typed' /\ Streamed' /\ Nothing' /\ Given' /\ Ways'
<1>1. /\ Running /\ Assign(c, {p})
      /\ UNCHANGED <<connectionOf, endpointProtocol, table>>
      /\ UNCHANGED <<reader, cut, arrived, written, count>>
      /\ UNCHANGED building /\ UNCHANGED <<taken, buffers>>
  BY DEF InsertConnectionProtocol, Inserts, streams
<1>2. {p} \in SUBSET initialized["server"]
  OBVIOUS
<1>3. /\ initialized' = initialized /\ lookup' = lookup /\ state' = state
  BY <1>1 DEF building, protocols
<1>5. /\ protocolEntity' \in [Entity -> initialized["server"] \cup {None}]
      /\ assigned' \in [Entity -> Seq(initialized["server"])]
      /\ received' = [e \in Entity |-> received'[e]]
      /\ \A e \in Entity :
            /\ DOMAIN received'[e] \subseteq Type
            /\ \A t \in DOMAIN received'[e] : received'[e][t] \in Seq(Message)
      /\ Given'
      /\ \A e \in Entity : OnlyUsed(e)' => OnlyUsed(e)
      /\ \A e \in Entity : \A t \in DOMAIN Ids[Used] : \A seq, all :
            OnWay(Ids[Used], count, t, Got(e, t), buffers[e][Ids[Used][t]], seq, all, Whole(e))
            => OnWay(Ids[Used], count, t, Got(e, t)', buffers[e][Ids[Used][t]], seq, all, Whole(e)')
  BY <1>1, <1>2, AssignGives
<1>6. Typed'
  BY <1>1, <1>3, <1>5 DEF Typed, MessagesInv
<1>10. Streamed'
  BY <1>1, StreamedStays DEF MessagesInv
<1>7. Nothing'
  BY <1>1, <1>3 DEF Nothing, Running
<1>8. ASSUME NEW e \in Entity, Loyal(e)', NEW t \in DOMAIN Ids[Used] PROVE Stays(e, t)
  <2>1. Loyal(e)
    BY <1>1, <1>5, <1>8 DEF Loyal
  <2>2. ASSUME OnWay(Ids[Used], count, t, Got(e, t), buffers[e][Ids[Used][t]],
                     arrived[e], written[e], Whole(e))
        PROVE  OnWay(Ids[Used], count, t, Got(e, t)', buffers[e][Ids[Used][t]],
                     arrived[e], written[e], Whole(e)')
    BY <1>5, <1>8, <2>2, Zenon
  <2>3. buffers' = buffers /\ count' = count /\ arrived' = arrived /\ written' = written
    BY <1>1
  <2> QED BY <2>1, <2>2, <2>3, Zenon DEF Stays
<1>9. Ways'
  BY <1>1, <1>8, WaysStay DEF MessagesInv
<1> QED BY <1>5, <1>6, <1>7, <1>9, <1>10

\* A call of a program, while nothing is connected.
LEMMA BuildPreserves ==
    ASSUME MessagesInv, NEW s \in Side, Build(s),
           UNCHANGED <<components, table, streams, received, buffers, taken>>
    PROVE  Typed' /\ Streamed' /\ Nothing' /\ Given' /\ Ways'
<1>1. ProtocolInv' /\ initialized["server"] \subseteq initialized'["server"]
  BY BuildAdds, InitializedGrows DEF MessagesInv, Side
<1>2. ~ Running
  <2>1. state[s] = "building"
    BY DEF Build, InitProtocol, AddProtocolMessage, IncludeProtocol, Run, Calls
  <2> QED BY <2>1 DEF Running
<1>3. /\ connectionOf = {}
      /\ \A c \in Entity : assigned[c] = <<>> /\ arrived[c] = <<>> /\ written[c] = <<>>
  BY <1>2 DEF MessagesInv, Nothing
<1>4. /\ UNCHANGED <<connectionOf, endpointProtocol, protocolEntity, assigned>>
      /\ UNCHANGED <<table, reader, cut, arrived, written, count, received, buffers, taken>>
  BY DEF components, streams
<1>5. Typed'
  <2>1. assigned' \in [Entity -> Seq(initialized'["server"])]
    <3>1. assigned \in [Entity -> Seq(initialized["server"])]
      BY DEF MessagesInv, Typed
    <3>2. \A c \in Entity : assigned[c] \in Seq(initialized'["server"])
      BY <1>1, <3>1, SeqMonotonic
    <3> QED BY <1>4, <3>1, <3>2
  <2>2. endpointProtocol' \subseteq initialized'["server"]
        /\ protocolEntity' \in [Entity -> initialized'["server"] \cup {None}]
    BY <1>1, <1>4 DEF MessagesInv, Typed
  <2> QED BY <1>4, <2>1, <2>2 DEF Typed, MessagesInv
<1>10. Streamed'
  BY <1>4, StreamedStays DEF MessagesInv
<1>6. Nothing'
  BY <1>3, <1>4 DEF Nothing
<1>7. \A c \in Entity : /\ TypesGiven(c) = {} /\ TypesGiven(c)' = {}
                        /\ DOMAIN received[c] = {}
                        /\ \A t \in Type : taken[c][t] = <<>>
                        /\ \A id \in Id : buffers[c][id] = <<>>
  <2>1. \A c \in Entity : TypesGiven(c) = {} /\ TypesGiven(c)' = {}
    BY <1>3, <1>4 DEF TypesGiven, ToSet
  <2> QED BY <1>3, <2>1 DEF MessagesInv, Given
<1>8. Given'
  BY <1>3, <1>4, <1>7 DEF Given
<1>9. Ways'
  <2> DEFINE ids == lookup'["server"][Used]
             seq == messages'["server"][Used]
  <2>1. seq \in Seq(Type) /\ Numbers(ids, seq)
    <3>1. "server" \in Side /\ Used \in Proto
      BY UsedAssumption DEF Side
    <3> QED BY <1>1, <3>1 DEF ProtocolInv, ProtocolTypeOK, LookupIsInverse, Numbers
  <2> HIDE DEF ids, seq
  <2>2. \A t \in DOMAIN ids : ids[t] \in Id /\ t \in Type
    BY <2>1, NumbersAreIds
  <2>3. ASSUME NEW c \in Entity, NEW t \in DOMAIN ids
        PROVE  OnWay(ids, count', t, Got(c, t)', buffers'[c][ids[t]],
                     arrived'[c], written'[c], Whole(c)')
    <3>1. ids[t] \in Id /\ t \in Type
      BY <2>2
    <3>2. buffers'[c][ids[t]] = <<>> /\ arrived'[c] = <<>> /\ written'[c] = <<>>
      BY <1>3, <1>4, <1>7, <3>1
    <3>3. Got(c, t)' = <<>>
      <4>1. Got(c, t)' = <<>> \o <<>>
        BY <1>4, <1>7, <3>1 DEF Got
      <4>2. <<>> \in Seq(Type)
        BY EmptySeq, Zenon
      <4> QED BY <4>1, <4>2, ConcatEmptySeq
    <3>4. OnWay(ids, count', t, <<>>, <<>>, <<>>, <<>>, Whole(c)')
      BY WayStarts
    <3> QED BY <3>2, <3>3, <3>4, Zenon
  <2>4. Ids'[Used] = ids
    BY DEF Ids, ids
  <2> QED BY <2>3, <2>4 DEF Ways
<1> QED BY <1>5, <1>6, <1>8, <1>9, <1>10

LEMMA MessagesPreserved == MessagesInv /\ [Next]_vars => MessagesInv'
<1> SUFFICES ASSUME MessagesInv, [Next]_vars PROVE Typed' /\ Streamed' /\ Nothing' /\ Given' /\ Ways'
  BY ProtocolPreserved DEF MessagesInv
<1>1. CASE UNCHANGED vars
  <2>1. /\ UNCHANGED building
        /\ UNCHANGED <<connectionOf, endpointProtocol, protocolEntity, assigned>>
        /\ UNCHANGED <<table, reader, cut, arrived, written, count, received, buffers, taken>>
        /\ initialized' = initialized /\ lookup' = lookup /\ state' = state
    BY <1>1 DEF vars, building, protocols, components, streams
  <2>5. Streamed'
    BY <2>1, StreamedStays DEF MessagesInv
  <2>2. Typed' /\ Nothing' /\ Given'
    BY <2>1 DEF MessagesInv, Typed, Nothing, Given, TypesGiven, Ids, Running
  <2>3. ASSUME NEW e \in Entity, Loyal(e)', NEW t \in DOMAIN Ids[Used] PROVE Stays(e, t)
    <3>1. Got(e, t)' = Got(e, t) /\ Whole(e)' = Whole(e) /\ Loyal(e)
      BY <2>1, <2>3 DEF Got, Whole, Loyal, OnlyUsed
    <3> QED BY <2>1, <3>1 DEF Stays
  <2>4. Ways'
    BY <2>1, <2>3, WaysStay DEF MessagesInv
  <2> QED BY <2>2, <2>4, <2>5
<1>2. ASSUME NEW s \in Side, Build(s),
             UNCHANGED <<components, table, streams, received, buffers, taken>>
      PROVE  Typed' /\ Streamed' /\ Nothing' /\ Given' /\ Ways'
  BY <1>2, BuildPreserves
<1>3. CASE World
  <2>1. ASSUME NEW c \in Entity, NEW own \in {{}} \cup {{p} : p \in initialized["server"]},
               InsertConnectionOf(c, own)
        PROVE  Typed' /\ Streamed' /\ Nothing' /\ Given' /\ Ways'
    BY <2>1, ConnectionOfPreserves
  <2>2. ASSUME NEW c \in Entity, NEW p \in initialized["server"], InsertConnectionProtocol(c, p)
        PROVE  Typed' /\ Streamed' /\ Nothing' /\ Given' /\ Ways'
    BY <2>2, ConnectionProtocolPreserves
  <2>3. ASSUME NEW c \in Entity, RemoveConnectionOf(c)
        PROVE  Typed' /\ Streamed' /\ Nothing' /\ Given' /\ Ways'
    BY <2>3, RemovalPreserves
  <2>6. ASSUME NEW c \in Entity, End(c) \/ Arrive(c)
        PROVE  Typed' /\ Streamed' /\ Nothing' /\ Given' /\ Ways'
    BY <2>6, EndPreserves
  <2>4. ASSUME NEW c \in Entity, NEW t \in Type, Write(c, t)
        PROVE  Typed' /\ Streamed' /\ Nothing' /\ Given' /\ Ways'
    BY <2>4, WritePreserves
  <2>5. ASSUME NEW c \in Entity, NEW t \in Type, DrainReceived(c, t)
        PROVE  Typed' /\ Streamed' /\ Nothing' /\ Given' /\ Ways'
    BY <2>5, DrainReceivedPreserves
  <2> QED BY <1>3, <2>1, <2>2, <2>3, <2>4, <2>5, <2>6 DEF World
<1>4. ASSUME NEW p \in initialized["server"], InsertEndpointProtocol(p)
      PROVE  Typed' /\ Streamed' /\ Nothing' /\ Given' /\ Ways'
  BY <1>4, EndpointPreserves
<1>5. CASE Systems
  <2>1. Running
    BY <1>5 DEF Systems
  <2>2. CASE ReadStreams
    BY <2>1, <2>2, ReadStreamsPreserves
  <2>3. ASSUME NEW t \in Type, DeserializeMessages(t)
        PROVE  Typed' /\ Streamed' /\ Nothing' /\ Given' /\ Ways'
    BY <2>1, <2>3, DeserializePreserves
  <2> QED BY <1>5, <2>2, <2>3 DEF Systems
<1> QED BY <1>1, <1>2, <1>3, <1>4, <1>5 DEF Next

LEMMA MessagesInductive == Spec => []MessagesInv
BY MessagesStart, MessagesPreserved, PTL DEF Spec

-----------------------------------------------------------------------------
(* The properties. *)

\* The types of the variables, for all values of the constants.
THEOREM TypeCorrect == Spec => []TypeOK
<1>1. MessagesInv => TypeOK
  BY TypedIsTypeOK DEF MessagesInv
<1> QED BY <1>1, MessagesInductive, PTL

\* An entity that receives a type without an id for it, where
\* deserialize_messages gives up, was given two protocols.
THEOREM HaveIds == Spec => []ReceiversHaveIds
<1>1. MessagesInv => ReceiversHaveIds
  <2> SUFFICES ASSUME MessagesInv, NEW t \in Type, NEW c \in WithoutId(t)
               PROVE  Cardinality(ToSet(assigned[c])) > 1
    BY DEF ReceiversHaveIds
  <2> DEFINE given == ToSet(assigned[c])
  <2>1. c \in Entity /\ t \in DOMAIN received[c] /\ t \notin DOMAIN Ids[protocolEntity[c]]
    BY DEF WithoutId, Receivers
  <2>2. PICK p \in given : t \in DOMAIN Ids[p]
    BY <2>1 DEF MessagesInv, Given, TypesGiven
  <2>3. assigned[c] # <<>>
    BY <2>2 DEF ToSet
  <2>4. protocolEntity[c] \in given /\ protocolEntity[c] # p
    BY <2>1, <2>2, <2>3 DEF MessagesInv, Given
  <2>5. given \subseteq Proto
    <3>1. assigned[c] \in Seq(initialized["server"])
      BY <2>1 DEF MessagesInv, Typed
    <3>2. initialized["server"] \subseteq Proto
      BY DEF MessagesInv, ProtocolInv, ProtocolTypeOK, Side
    <3> QED BY <3>1, <3>2, SeqOfElements
  <2> HIDE DEF given
  <2>6. IsFiniteSet(given)
    BY <2>5, FiniteAssumption, FS_Subset
  <2>7. /\ Cardinality(given) \in Nat /\ Cardinality(given) # 0
        /\ Cardinality(given) # 1
    <3>1. Cardinality(given) \in Nat
      BY <2>6, FS_CardinalityType
    <3>2. Cardinality(given) # 0
      BY <2>2, <2>6, FS_EmptySet
    <3>3. Cardinality(given) # 1
      <4>1. ~ \E x : given = {x}
        BY <2>2, <2>4
      <4> QED BY <2>6, <4>1, FS_Singleton
    <3> QED BY <3>1, <3>2, <3>3
  <2> QED BY <2>7 DEF given
<1> QED BY <1>1, MessagesInductive, PTL

\* An entity that is given no other protocol than the client's gets, as messages
\* of a type, only such, in the order in which they were written, once each: as
\* long as its reader was not left inside of a message by the end of a connection
\* and no reused handle has led to the streams of another entity.
THEOREM InOrder == Spec => []TypedInOrder
<1>1. MessagesInv => TypedInOrder
  <2> SUFFICES ASSUME MessagesInv, Agree, NEW c \in Entity, NEW t \in Type, Loyal(c)
               PROVE  \A i \in DOMAIN Got(c, t) :
                         /\ Got(c, t)[i].type = t
                         /\ \A j \in 1 .. i - 1 : Got(c, t)[j].number < Got(c, t)[i].number
    BY DEF TypedInOrder, Loyal, OnlyUsed
  <2> DEFINE got == Got(c, t)
  <2>1. CASE t \in DOMAIN Ids[Used]
    <3> DEFINE buffer == buffers[c][Ids[Used][t]]
               seq == arrived[c]
               one == OneOf(Ids[Used], count, t)
               rest == buffer \o OfType(t, seq)
    <3>1. OnWay(Ids[Used], count, t, got, buffer, seq, written[c], Whole(c))
      BY <2>1 DEF MessagesInv, Ways
    <3> HIDE DEF got, buffer, seq
    <3>2. /\ got \in Seq(one) /\ buffer \in Seq(one) /\ OfType(t, seq) \in Seq(one)
          /\ Pairwise(got \o rest, Earlier)
      BY <3>1, OfTypeType DEF OnWay
    <3>3. rest \in Seq(one)
      <4>1. \A r, s \in Seq(one) : r \o s \in Seq(one)
        BY ConcatAssociates
      <4> QED BY <3>2, <4>1, Zenon
    <3> HIDE DEF rest, one
    <3>4. Pairwise(got, Earlier)
      BY <3>2, <3>3, PairwiseConcat, Zenon
    <3>5. DOMAIN got = 1 .. Len(got) /\ Len(got) \in Nat /\ \A i \in DOMAIN got : got[i] \in one
      BY <3>2, LenProperties
    <3>6. \A i \in DOMAIN got : got[i].type = t
      BY <3>5 DEF one, OneOf
    <3>7. ASSUME NEW i \in DOMAIN got, NEW j \in 1 .. i - 1 PROVE got[j].number < got[i].number
      <4>1. j \in DOMAIN got /\ j < i
        BY <3>5
      <4>2. <<got[j], got[i]>> \in Earlier
        BY <3>4, <4>1 DEF Pairwise
      <4> QED BY <4>2 DEF Earlier
    <3> QED BY <3>6, <3>7 DEF got
  <2>2. CASE t \notin DOMAIN Ids[Used]
    <3>1. t \notin TypesGiven(c)
      BY <2>2 DEF TypesGiven, Loyal, OnlyUsed
    <3>2. t \notin DOMAIN received[c] /\ taken[c][t] = <<>>
      BY <3>1 DEF MessagesInv, Given
    <3>3. got = <<>> \o <<>>
      BY <3>2 DEF Got
    <3>4. <<>> \o <<>> = <<>>
      <4>1. <<>> \in Seq(Message)
        BY EmptySeq, Zenon
      <4> QED BY <4>1, ConcatEmptySeq, Zenon
    <3> QED BY <3>3, <3>4
  <2> QED BY <2>1, <2>2
<1> QED BY <1>1, MessagesInductive, PTL

\* For an entity that is given the client's protocol once, nothing is lost, doubled
\* or swapped between the client's write and the application but what was still on
\* the streams of a connection that goes: under the same condition on its reader.
THEOREM AllAccounted == Spec => []Accounted
<1>1. MessagesInv => Accounted
  <2> SUFFICES ASSUME MessagesInv, Agree, NEW c \in Entity, NEW t \in DOMAIN Ids[Used],
                      assigned[c] = <<Used>>, reader[c] # "astray"
               PROVE  Got(c, t) \o buffers[c][Ids[Used][t]] \o OfType(t, arrived[c])
                         = OfType(t, written[c])
    BY DEF Accounted
  <2> DEFINE got == Got(c, t)
             buffer == buffers[c][Ids[Used][t]]
             seq == arrived[c]
             one == OneOf(Ids[Used], count, t)
  <2>1. Loyal(c) /\ Whole(c)
    BY DEF Loyal, OnlyUsed, Whole, ToSet
  <2>2. OnWay(Ids[Used], count, t, got, buffer, seq, written[c], Whole(c))
    BY <2>1 DEF MessagesInv, Ways
  <2> HIDE DEF got, buffer, seq
  <2>3. /\ got \in Seq(one) /\ buffer \in Seq(one) /\ OfType(t, seq) \in Seq(one)
        /\ got \o (buffer \o OfType(t, seq)) = OfType(t, written[c])
    BY <2>1, <2>2, OfTypeType DEF OnWay
  <2> HIDE DEF one
  <2>4. got \o (buffer \o OfType(t, seq)) = (got \o buffer) \o OfType(t, seq)
    <3>1. \A q, r, s \in Seq(one) : q \o (r \o s) = (q \o r) \o s
      BY ConcatAssociates
    <3> QED BY <2>3, <3>1, Zenon
  <2>5. (got \o buffer) \o OfType(t, seq) = OfType(t, written[c])
    BY <2>3, <2>4, Zenon
  <2> QED BY <2>5 DEF got, buffer, seq
<1> QED BY <1>1, MessagesInductive, PTL

===============================================================================
