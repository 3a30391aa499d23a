------------------------- MODULE MessageSenderProofs -------------------------
(***************************************************************************)
(* Proofs about MessageSender for every set of entities, every window and  *)
(* every limit on streams: loops that are left early lose no data, forget  *)
(* no open stream and keep no closed one.                                  *)
(***************************************************************************)
EXTENDS MessageSender, SequenceTheorems, FiniteSetTheorems, TLAPS

\* An entry is of a connection that its entity has or had, and one of the
\* present connection names a stream of it that the sender opened.
EntriesAreKnown ==
    \A c \in Kept :
        /\ streams[c].connection <= connected[c]
        /\ IsCurrent(c) => streams[c].id \in DOMAIN quinn[c] /\ OwnStream(c).mine

IInv == TypeOK /\ EntriesAreKnown /\ Conserved /\ KeptIsOpen /\ ForgottenIsClosed

-----------------------------------------------------------------------------
(* Sequences of units and of streams. *)

LEMMA SeqOfFunction ==
    ASSUME NEW S, NEW n \in Nat, NEW f \in [1 .. n -> S]
    PROVE  f \in Seq(S) /\ Len(f) = n /\ DOMAIN f = 1 .. n
  BY SeqDef

LEMMA UnitsAssociate ==
    \A s, t, u \in Seq(Unit) : (s \o t) \o u = s \o (t \o u)
  BY ConcatAssociative

\* A flush divides the queue in what is sent and what is left, and sends no
\* more than the credit.
LEMMA FlushedDivides ==
    ASSUME NEW buffer \in Seq(Unit), NEW credit \in Nat
    PROVE  LET f == Flushed(buffer, credit)
           IN  /\ f.sent \in Seq(Unit) /\ f.buffer \in Seq(Unit)
               /\ f.sent \o f.buffer = buffer
               /\ Len(f.sent) \in Nat /\ Len(f.sent) <= credit
<1> DEFINE taken == IF credit < Len(buffer) THEN credit ELSE Len(buffer)
<1>1. /\ Flushed(buffer, credit).sent = SubSeq(buffer, 1, taken)
      /\ Flushed(buffer, credit).buffer = SubSeq(buffer, taken + 1, Len(buffer))
  BY DEF Flushed
<1>2. Len(buffer) \in Nat /\ taken \in 0 .. Len(buffer) /\ taken <= credit
  BY LenProperties
<1> HIDE DEF taken
<1>3. SubSeq(buffer, 1, taken) \in Seq(Unit) /\ Len(SubSeq(buffer, 1, taken)) = taken
  <2>1. \A i \in 1 .. taken : buffer[i] \in Unit
    BY <1>2, ElementOfSeq
  <2> QED BY <1>2, <2>1, SubSeqProperties
<1>4. SubSeq(buffer, taken + 1, Len(buffer)) \in Seq(Unit)
  <2>1. \A i \in taken + 1 .. Len(buffer) : buffer[i] \in Unit
    BY <1>2, ElementOfSeq
  <2> QED BY <1>2, <2>1, SubSeqProperties
<1>5. SubSeq(buffer, 1, taken) \o SubSeq(buffer, taken + 1, Len(buffer)) = buffer
  <2>1. SubSeq(buffer, 1, taken) \o SubSeq(buffer, taken + 1, Len(buffer))
          = SubSeq(buffer, 1, Len(buffer))
    <3>1. 1 \in 1 .. Len(buffer) + 1 /\ taken \in 1 - 1 .. Len(buffer)
          /\ Len(buffer) \in taken .. Len(buffer)
      BY <1>2
    <3> QED BY <3>1, ConcatAdjacentSubSeq
  <2> QED BY <2>1, SubSeqFull
<1>6. taken \in Nat
  BY <1>2
<1> QED BY <1>1, <1>2, <1>3, <1>4, <1>5, <1>6

-----------------------------------------------------------------------------
(* The streams of an entity through a step. *)

\* What a loop may do to the streams of an entity: send on some and close some.
Kin(old, new) ==
    /\ new \in Seq(QuinnStream)
    /\ DOMAIN new = DOMAIN old
    /\ \A i \in DOMAIN old :
          /\ new[i].mine = old[i].mine
          /\ new[i].queued = old[i].queued
          /\ new[i].state = "open" => old[i].state = "open"

SentOn(seq, id, units) == [seq EXCEPT ![id].sent = @ \o units]

LEMMA SentKin ==
    ASSUME NEW seq \in Seq(QuinnStream), NEW id \in DOMAIN seq, NEW units \in Seq(Unit),
           NEW new, new = SentOn(seq, id, units)
    PROVE  /\ Kin(seq, new)
           /\ new[id].sent = seq[id].sent \o units
           /\ \A i \in DOMAIN seq : new[i].state = seq[i].state
           /\ \A i \in DOMAIN seq : i # id => new[i] = seq[i]
<1>1. /\ Len(seq) \in Nat /\ DOMAIN seq = 1 .. Len(seq)
      /\ seq \in [1 .. Len(seq) -> QuinnStream]
  BY LenProperties
<1>2. seq[id].sent \o units \in Seq(Unit)
  BY <1>1, ConcatProperties DEF QuinnStream
<1>3. \A i \in DOMAIN seq : seq[i] \in QuinnStream
  BY <1>1
<1>4. [seq[id] EXCEPT !.sent = @ \o units] \in QuinnStream
  BY <1>2, <1>3 DEF QuinnStream
<1>5. new = [i \in 1 .. Len(seq) |->
               IF i = id THEN [seq[id] EXCEPT !.sent = @ \o units] ELSE seq[i]]
  BY <1>1 DEF SentOn
<1>6. new \in [1 .. Len(seq) -> QuinnStream]
  BY <1>1, <1>4, <1>5
<1>7. new \in Seq(QuinnStream) /\ DOMAIN new = DOMAIN seq
  BY <1>1, <1>6, SeqOfFunction
<1>8. /\ \A i \in DOMAIN seq : i # id => new[i] = seq[i]
      /\ new[id] = [seq[id] EXCEPT !.sent = @ \o units]
  BY <1>1, <1>5
<1>9. /\ new[id].sent = seq[id].sent \o units
      /\ new[id].mine = seq[id].mine /\ new[id].queued = seq[id].queued
      /\ new[id].state = seq[id].state
  BY <1>3, <1>8 DEF QuinnStream
<1> QED BY <1>7, <1>8, <1>9 DEF Kin

LEMMA ClosedKin ==
    ASSUME NEW seq \in Seq(QuinnStream), NEW id \in DOMAIN seq,
           NEW state \in {"finished", "reset"},
           NEW new, new = [seq EXCEPT ![id].state = state]
    PROVE  /\ Kin(seq, new)
           /\ new[id].state = state
           /\ \A i \in DOMAIN seq : new[i].sent = seq[i].sent
           /\ \A i \in DOMAIN seq : i # id => new[i] = seq[i]
<1>1. /\ Len(seq) \in Nat /\ DOMAIN seq = 1 .. Len(seq)
      /\ seq \in [1 .. Len(seq) -> QuinnStream]
  BY LenProperties
<1>2. \A i \in DOMAIN seq : seq[i] \in QuinnStream
  BY <1>1
<1>3. [seq[id] EXCEPT !.state = state] \in QuinnStream
  BY <1>2 DEF QuinnStream, StreamStates
<1>4. new = [i \in 1 .. Len(seq) |->
               IF i = id THEN [seq[id] EXCEPT !.state = state] ELSE seq[i]]
  BY <1>1
<1>5. new \in Seq(QuinnStream) /\ DOMAIN new = DOMAIN seq
  BY <1>1, <1>3, <1>4, SeqOfFunction
<1>6. /\ \A i \in DOMAIN seq : i # id => new[i] = seq[i]
      /\ new[id] = [seq[id] EXCEPT !.state = state]
  BY <1>1, <1>4
<1>7. /\ new[id].state = state /\ state # "open"
      /\ new[id].mine = seq[id].mine /\ new[id].queued = seq[id].queued
      /\ new[id].sent = seq[id].sent
  BY <1>2, <1>6 DEF QuinnStream
<1> QED BY <1>5, <1>6, <1>7 DEF Kin

\* Streams that are only sent on and closed stay within the limit.
OpenOf(seq) == {i \in DOMAIN seq : seq[i].state = "open"}

LEMMA OpenIsFinite ==
    ASSUME NEW seq \in Seq(QuinnStream)
    PROVE  IsFiniteSet(OpenOf(seq)) /\ Cardinality(OpenOf(seq)) \in Nat
<1>1. Len(seq) \in Nat /\ DOMAIN seq = 1 .. Len(seq)
  BY LenProperties
<1>2. IsFiniteSet(1 .. Len(seq))
  BY <1>1, FS_Interval
<1>3. IsFiniteSet(OpenOf(seq))
  BY <1>1, <1>2, FS_Subset DEF OpenOf
<1> QED BY <1>3, FS_CardinalityType

LEMMA KinWithinLimit ==
    ASSUME NEW old \in Seq(QuinnStream), NEW new, Kin(old, new)
    PROVE  Cardinality(OpenOf(new)) <= Cardinality(OpenOf(old))
<1>1. OpenOf(new) \subseteq OpenOf(old)
  BY DEF Kin, OpenOf
<1> QED BY <1>1, OpenIsFinite, FS_Subset

LEMMA OpenedWithinLimit ==
    ASSUME NEW old \in Seq(QuinnStream), NEW mine \in BOOLEAN, NEW new,
           new = Append(old, NewStream(mine))
    PROVE  /\ new \in Seq(QuinnStream)
           /\ DOMAIN new = DOMAIN old \cup {Len(old) + 1}
           /\ Len(old) + 1 \notin DOMAIN old
           /\ \A i \in DOMAIN old : new[i] = old[i]
           /\ new[Len(old) + 1] = NewStream(mine)
           /\ Cardinality(OpenOf(new)) = Cardinality(OpenOf(old)) + 1
<1>1. NewStream(mine) \in QuinnStream
  BY EmptySeq DEF NewStream, QuinnStream, StreamStates
<1>2. /\ Len(old) \in Nat /\ DOMAIN old = 1 .. Len(old)
      /\ new \in Seq(QuinnStream) /\ Len(new) = Len(old) + 1
      /\ \A i \in 1 .. Len(old) : new[i] = old[i]
      /\ new[Len(old) + 1] = NewStream(mine)
  BY <1>1, LenProperties, AppendProperties
<1>3. DOMAIN new = 1 .. Len(old) + 1
  BY <1>2, LenProperties
<1>4. OpenOf(new) = OpenOf(old) \cup {Len(old) + 1} /\ Len(old) + 1 \notin OpenOf(old)
  BY <1>2, <1>3 DEF OpenOf, NewStream
<1>5. Cardinality(OpenOf(new)) = Cardinality(OpenOf(old)) + 1
  BY <1>4, OpenIsFinite, FS_AddElement
<1> QED BY <1>2, <1>3, <1>5

LEMMA KinOfItself ==
    ASSUME NEW seq \in Seq(QuinnStream)
    PROVE  Kin(seq, seq)
  BY DEF Kin

-----------------------------------------------------------------------------
(* The entries through a loop. *)

\* What an entry has and its connection knows, taken apart.
LEMMA EntryTypes ==
    ASSUME TypeOK, NEW c \in Kept
    PROVE  /\ c \in Entity
           /\ streams[c].id \in Nat \ {0}
           /\ streams[c].connection \in Nat
           /\ streams[c].buffer \in Seq(Unit)
           /\ quinn[c] \in Seq(QuinnStream)
           /\ room[c] \in 0 .. Window
           /\ Credit(c) \in Nat /\ Credit(c) <= room[c]
<1>1. c \in Entity /\ streams[c] \in MessageStreamState /\ quinn[c] \in Seq(QuinnStream)
  BY DEF TypeOK
<1>2. room[c] \in 0 .. Window /\ Window \in Nat
  BY <1>1, WindowAssumption DEF TypeOK
<1> QED BY <1>1, <1>2 DEF MessageStreamState, Credit

\* A stream of quinn, taken apart.
LEMMA StreamTypes ==
    ASSUME NEW seq \in Seq(QuinnStream), NEW i \in DOMAIN seq
    PROVE  /\ seq[i] \in QuinnStream
           /\ seq[i].sent \in Seq(Unit) /\ seq[i].queued \in Seq(Unit)
<1>1. seq[i] \in QuinnStream
  BY LenProperties
<1> QED BY <1>1 DEF QuinnStream

\* A loop that nothing ends works on every entry.
LEMMA AllReached ==
    ASSUME order \in Orders(Kept)
    PROVE  Kept \subseteq Reached({})
<1>1. /\ DOMAIN order = 1 .. Cardinality(Kept)
      /\ \A c \in Kept : \E i \in 1 .. Cardinality(Kept) : order[i] = c
  BY DEF Orders, Bijection, Surjection
<1> QED BY <1>1 DEF Reached

LEMMA YieldsAnOrder ==
    ASSUME NEW cs, order \in Orders(Kept), Yields(cs)
    PROVE  order' \in Orders(cs)
  BY DEF Yields

\* Sending no more than the credit touches a stream only when quinn knows it.
LEMMA SentOnEntry ==
    ASSUME TypeOK, EntriesAreKnown, NEW c \in Kept,
           NEW units \in Seq(Unit), Len(units) <= Credit(c),
           NEW new, new = Sent(c, streams[c].id, units)
    PROVE  /\ Kin(quinn[c], new)
           /\ \A i \in DOMAIN quinn[c] : new[i].state = quinn[c][i].state
           /\ IsCurrent(c) => new[streams[c].id].sent = OwnStream(c).sent \o units
<1>1. quinn[c] \in Seq(QuinnStream)
  BY EntryTypes
<1>2. CASE units = <<>>
  <2>1. new = quinn[c]
    BY <1>2 DEF Sent
  <2>2. IsCurrent(c) => OwnStream(c).sent \o units = OwnStream(c).sent
    <3> HAVE IsCurrent(c)
    <3>1. OwnStream(c).sent \in Seq(Unit)
      BY <1>1, StreamTypes DEF EntriesAreKnown, OwnStream
    <3> QED BY <1>2, <3>1, ConcatEmptySeq
  <2> QED BY <1>1, <2>1, <2>2, KinOfItself DEF OwnStream
<1>3. CASE units # <<>>
  <2>1. Usable(c)
    <3>1. Len(units) \in Nat \ {0}
      BY <1>3, EmptySeq
    <3> QED BY <3>1 DEF Credit
  <2>2. streams[c].id \in DOMAIN quinn[c]
    BY <2>1 DEF Usable
  <2>3. new = SentOn(quinn[c], streams[c].id, units)
    BY <1>3 DEF Sent, SentOn
  <2>4. /\ Kin(quinn[c], new)
        /\ new[streams[c].id].sent = quinn[c][streams[c].id].sent \o units
        /\ \A i \in DOMAIN quinn[c] : new[i].state = quinn[c][i].state
    <3>1. Kin(quinn[c], new) /\ \A i \in DOMAIN quinn[c] : new[i].state = quinn[c][i].state
      BY <1>1, <2>2, <2>3, SentKin
    <3>2. new[streams[c].id].sent = quinn[c][streams[c].id].sent \o units
      <4> DEFINE seq == quinn[c]
                 id == streams[c].id
      <4>1. seq \in Seq(QuinnStream) /\ id \in DOMAIN seq /\ new = SentOn(seq, id, units)
        BY <1>1, <2>2, <2>3
      <4> HIDE DEF seq, id
      <4>2. new[id].sent = seq[id].sent \o units
        BY <4>1, SentKin
      <4> QED BY <4>2 DEF seq, id
    <3> QED BY <3>1, <3>2
  <2> QED BY <2>4 DEF OwnStream
<1> QED BY <1>2, <1>3

\* Closing the stream of an entry closes it where quinn knows it.
LEMMA ClosedOnEntry ==
    ASSUME TypeOK, NEW c \in Kept, NEW state \in {"finished", "reset"},
           NEW new, new = ClosedAs(state, c)
    PROVE  /\ Kin(quinn[c], new)
           /\ \A i \in DOMAIN quinn[c] : new[i].sent = quinn[c][i].sent
           /\ Usable(c) => new[streams[c].id].state # "open"
<1>1. quinn[c] \in Seq(QuinnStream)
  BY EntryTypes
<1>2. CASE Usable(c)
  <2>1. streams[c].id \in DOMAIN quinn[c]
    BY <1>2 DEF Usable
  <2>2. new = [quinn[c] EXCEPT ![streams[c].id].state = state]
    BY <1>2 DEF ClosedAs
  <2>3. Kin(quinn[c], new) /\ new[streams[c].id].state = state
        /\ \A i \in DOMAIN quinn[c] : new[i].sent = quinn[c][i].sent
    BY <1>1, <2>1, <2>2, ClosedKin
  <2> QED BY <2>3
<1>3. CASE ~ Usable(c)
  BY <1>1, <1>3, KinOfItself DEF ClosedAs
<1> QED BY <1>2, <1>3

\* What every loop leaves true: it sends and closes, and drops entries.
LEMMA LoopKeeps ==
    ASSUME TypeOK, EntriesAreKnown, connected' = connected,
           \A c \in Entity : Kin(quinn[c], quinn'[c]),
           Kept' \subseteq Kept,
           \A c \in Kept' : /\ streams'[c].id = streams[c].id
                            /\ streams'[c].connection = streams[c].connection
    PROVE  /\ \A c \in Entity : /\ quinn'[c] \in Seq(QuinnStream)
                                /\ Cardinality(OpenStreams(c)') <= StreamLimit
           /\ \A c \in Kept' : IsCurrent(c)' <=> IsCurrent(c)
           /\ EntriesAreKnown'
<1>1. ASSUME NEW c \in Entity
      PROVE  quinn'[c] \in Seq(QuinnStream) /\ Cardinality(OpenStreams(c)') <= StreamLimit
  <2>1. Kin(quinn[c], quinn'[c]) /\ quinn[c] \in Seq(QuinnStream)
        /\ Cardinality(OpenStreams(c)) <= StreamLimit
    BY DEF TypeOK
  <2>2. quinn'[c] \in Seq(QuinnStream)
    BY <2>1 DEF Kin
  <2>3. OpenStreams(c) = OpenOf(quinn[c]) /\ OpenStreams(c)' = OpenOf(quinn'[c])
    BY DEF OpenStreams, OpenOf
  <2>4. Cardinality(OpenOf(quinn'[c])) <= Cardinality(OpenOf(quinn[c]))
    BY <2>1, KinWithinLimit
  <2>5. Cardinality(OpenOf(quinn'[c])) \in Nat /\ Cardinality(OpenOf(quinn[c])) \in Nat
    BY <2>1, <2>2, OpenIsFinite
  <2> QED BY <2>1, <2>2, <2>3, <2>4, <2>5, StreamLimitAssumption
<1>2. \A c \in Kept' : IsCurrent(c)' <=> IsCurrent(c)
  BY DEF IsCurrent
<1>3. EntriesAreKnown'
  <2> SUFFICES ASSUME NEW c \in Kept'
               PROVE  /\ (streams[c].connection <= connected[c])'
                      /\ IsCurrent(c)' => (streams[c].id \in DOMAIN quinn[c] /\ OwnStream(c).mine)'
    BY DEF EntriesAreKnown
  <2>1. c \in Kept /\ c \in Entity
    BY DEF TypeOK
  <2>2. Kin(quinn[c], quinn'[c])
    BY <2>1
  <2>3. /\ streams[c].connection <= connected[c]
        /\ IsCurrent(c) => streams[c].id \in DOMAIN quinn[c] /\ OwnStream(c).mine
    BY <2>1 DEF EntriesAreKnown
  <2> QED BY <1>2, <2>2, <2>3 DEF Kin, OwnStream
<1> QED BY <1>1, <1>2, <1>3

-----------------------------------------------------------------------------
(* The loops preserve the invariant. *)

\* What a flush takes from one entry.
LEMMA FlushedOfEntry ==
    ASSUME TypeOK, NEW c \in Kept
    PROVE  /\ FlushedOf(c).sent \in Seq(Unit) /\ FlushedOf(c).buffer \in Seq(Unit)
           /\ FlushedOf(c).sent \o FlushedOf(c).buffer = streams[c].buffer
           /\ Len(FlushedOf(c).sent) \in Nat /\ Len(FlushedOf(c).sent) <= Credit(c)
<1>1. streams[c].buffer \in Seq(Unit) /\ Credit(c) \in Nat
  BY EntryTypes
<1>2. FlushedOf(c) = Flushed(streams[c].buffer, Credit(c))
  BY DEF FlushedOf
<1> QED BY <1>1, <1>2, FlushedDivides

\* A flush, whole or left early, preserves the invariant.
LEMMA FlushStep ==
    ASSUME IInv, Flush
    PROVE  IInv'
<1> USE DEF IInv
<1> DEFINE failing == {c \in Kept : \/ link[c] = "absent"
                                    \/ c \in Found /\ FlushedOf(c).returned = "error"}
           flushed == Reached(failing) \cap Found
           gone == IF failing = {} THEN Gone ELSE {}
<1>1. /\ quinn' = [c \in Entity |->
                      IF c \in flushed THEN Sent(c, streams[c].id, FlushedOf(c).sent) ELSE quinn[c]]
      /\ room' = [c \in Entity |->
                      IF c \in flushed THEN room[c] - Len(FlushedOf(c).sent) ELSE room[c]]
      /\ streams' = [c \in Kept \ gone |->
                      IF c \in flushed THEN [streams[c] EXCEPT !.buffer = FlushedOf(c).buffer]
                      ELSE streams[c]]
      /\ Yields(Kept \ gone)
      /\ link' = link /\ connected' = connected /\ accepted' = accepted /\ failed' = failed
  BY DEF Flush
<1>2. flushed \subseteq Kept /\ gone \subseteq Kept /\ \A c \in gone : link[c] = "none"
  BY DEF Found, Gone
<1> HIDE DEF failing, flushed, gone
<1>3. Kept' = Kept \ gone
  BY <1>1 DEF Kept
<1>4. ASSUME NEW c \in Entity
      PROVE  /\ Kin(quinn[c], quinn'[c])
             /\ \A i \in DOMAIN quinn[c] : quinn'[c][i].state = quinn[c][i].state
             /\ room'[c] \in 0 .. Window
  <2>1. CASE c \in flushed
    <3>1. c \in Kept
      BY <1>2, <2>1
    <3>2. quinn'[c] = Sent(c, streams[c].id, FlushedOf(c).sent)
          /\ room'[c] = room[c] - Len(FlushedOf(c).sent)
      BY <1>1, <2>1
    <3>3. FlushedOf(c).sent \in Seq(Unit) /\ Len(FlushedOf(c).sent) \in Nat
          /\ Len(FlushedOf(c).sent) <= Credit(c)
      BY <3>1, FlushedOfEntry
    <3>4. Kin(quinn[c], quinn'[c])
          /\ \A i \in DOMAIN quinn[c] : quinn'[c][i].state = quinn[c][i].state
      BY <3>1, <3>2, <3>3, SentOnEntry
    <3>5. room[c] \in 0 .. Window /\ Credit(c) \in Nat /\ Credit(c) <= room[c]
      BY <3>1, EntryTypes
    <3> QED BY <3>2, <3>3, <3>4, <3>5, WindowAssumption
  <2>2. CASE c \notin flushed
    <3>1. quinn'[c] = quinn[c] /\ room'[c] = room[c]
      BY <1>1, <2>2
    <3> QED BY <3>1, KinOfItself DEF TypeOK
  <2> QED BY <2>1, <2>2
<1>5. ASSUME NEW c \in Kept'
      PROVE  /\ c \in Kept
             /\ streams'[c] \in MessageStreamState
             /\ streams'[c].id = streams[c].id
             /\ streams'[c].connection = streams[c].connection
             /\ c \in flushed => streams'[c].buffer = FlushedOf(c).buffer
             /\ c \notin flushed => streams'[c] = streams[c]
  <2>1. c \in Kept /\ streams[c] \in MessageStreamState
    BY <1>3 DEF TypeOK
  <2>2. FlushedOf(c).buffer \in Seq(Unit)
    BY <2>1, FlushedOfEntry
  <2>3. streams'[c] = IF c \in flushed THEN [streams[c] EXCEPT !.buffer = FlushedOf(c).buffer]
                      ELSE streams[c]
    BY <1>1, <1>3
  <2> QED BY <2>1, <2>2, <2>3 DEF MessageStreamState
<1>6. /\ \A c \in Entity : quinn'[c] \in Seq(QuinnStream)
                           /\ Cardinality(OpenStreams(c)') <= StreamLimit
      /\ \A c \in Kept' : IsCurrent(c)' <=> IsCurrent(c)
      /\ EntriesAreKnown'
  BY <1>1, <1>4, <1>5, LoopKeeps
<1>7. TypeOK'
  <2>1. room' \in [Entity -> 0 .. Window]
    BY <1>1, <1>4
  <2>2. order' \in Orders(Kept')
    BY <1>1, <1>3, YieldsAnOrder DEF TypeOK
  <2>3. Kept' \subseteq Entity
    BY <1>3 DEF TypeOK
  <2>4. quinn' \in [Entity -> Seq(QuinnStream)]
    BY <1>1, <1>6
  <2> QED BY <1>1, <1>5, <1>6, <2>1, <2>2, <2>3, <2>4 DEF TypeOK
<1>8. Conserved'
  <2> SUFFICES ASSUME NEW c \in Kept', IsCurrent(c)'
               PROVE  OwnStream(c)'.sent \o streams'[c].buffer = OwnStream(c)'.queued
    BY DEF Conserved
  <2>1. c \in Kept /\ c \in Entity /\ IsCurrent(c) /\ streams'[c].id = streams[c].id
    BY <1>5, <1>6 DEF TypeOK
  <2>2. OwnStream(c)' = quinn'[c][streams[c].id]
    BY <2>1 DEF OwnStream
  <2>3. OwnStream(c).sent \o streams[c].buffer = OwnStream(c).queued
        /\ streams[c].id \in DOMAIN quinn[c]
    BY <2>1 DEF Conserved, EntriesAreKnown
  <2>4. OwnStream(c)'.queued = OwnStream(c).queued
    BY <1>4, <2>1, <2>2, <2>3 DEF Kin, OwnStream
  <2>5. CASE c \in flushed
    <3>1. OwnStream(c)'.sent = OwnStream(c).sent \o FlushedOf(c).sent
      <4>1. quinn'[c] = Sent(c, streams[c].id, FlushedOf(c).sent)
        BY <1>1, <2>1, <2>5
      <4>2. FlushedOf(c).sent \in Seq(Unit) /\ Len(FlushedOf(c).sent) <= Credit(c)
        BY <2>1, FlushedOfEntry
      <4>3. quinn'[c][streams[c].id].sent = OwnStream(c).sent \o FlushedOf(c).sent
        BY <2>1, <4>1, <4>2, SentOnEntry
      <4> QED BY <2>2, <4>3
    <3>2. OwnStream(c).sent \in Seq(Unit)
      BY <2>1, <2>3, EntryTypes, StreamTypes DEF OwnStream
    <3>3. (OwnStream(c).sent \o FlushedOf(c).sent) \o FlushedOf(c).buffer
            = OwnStream(c).sent \o streams[c].buffer
      <4> DEFINE s == OwnStream(c).sent
                 t == FlushedOf(c).sent
                 u == FlushedOf(c).buffer
      <4>1. s \in Seq(Unit) /\ t \in Seq(Unit) /\ u \in Seq(Unit)
        BY <2>1, <3>2, FlushedOfEntry
      <4>2. t \o u = streams[c].buffer
        BY <2>1, FlushedOfEntry
      <4> HIDE DEF s, t, u
      <4>3. (s \o t) \o u = s \o (t \o u)
        BY <4>1, ConcatAssociative
      <4>4. (s \o t) \o u = s \o streams[c].buffer
        BY <4>2, <4>3
      <4> QED BY <4>4 DEF s, t, u
    <3> QED BY <1>5, <2>3, <2>4, <2>5, <3>1, <3>3
  <2>6. CASE c \notin flushed
    <3>1. quinn'[c] = quinn[c] /\ streams'[c] = streams[c]
      BY <1>1, <1>5, <2>1, <2>6
    <3> QED BY <2>2, <2>3, <3>1 DEF OwnStream
  <2> QED BY <2>5, <2>6
<1>9. KeptIsOpen'
  <2> SUFFICES ASSUME "close_unused_streams" \notin failed, NEW c \in Kept', IsCurrent(c)'
               PROVE  OwnStream(c)'.mine /\ OwnStream(c)'.state = "open"
    BY <1>1 DEF KeptIsOpen
  <2>1. c \in Kept /\ c \in Entity /\ IsCurrent(c) /\ streams'[c].id = streams[c].id
    BY <1>5, <1>6 DEF TypeOK
  <2>2. streams[c].id \in DOMAIN quinn[c] /\ OwnStream(c).mine /\ OwnStream(c).state = "open"
    BY <2>1 DEF KeptIsOpen, EntriesAreKnown
  <2> QED BY <1>4, <2>1, <2>2 DEF Kin, OwnStream
<1>10. ForgottenIsClosed'
  <2> SUFFICES ASSUME "close_all_streams" \notin failed, NEW c \in Entity, link[c] = "open",
                      NEW i \in DOMAIN quinn'[c], quinn'[c][i].mine, quinn'[c][i].state = "open"
               PROVE  c \in Kept' /\ IsCurrent(c)' /\ streams'[c].id = i
    BY <1>1 DEF ForgottenIsClosed
  <2>1. i \in DOMAIN quinn[c] /\ quinn[c][i].mine /\ quinn[c][i].state = "open"
    BY <1>4 DEF Kin
  <2>2. c \in Kept /\ IsCurrent(c) /\ streams[c].id = i
    BY <2>1 DEF ForgottenIsClosed
  <2>3. c \in Kept'
    BY <1>2, <1>3, <2>2
  <2> QED BY <1>5, <1>6, <2>2, <2>3
<1> QED BY <1>6, <1>7, <1>8, <1>9, <1>10

\* What both loops that close streams leave true; `cs` are the entries removed.
LEMMA ClosingKeeps ==
    ASSUME IInv, NEW cs \in SUBSET Kept, NEW closing \in SUBSET Kept,
           NEW state \in {"finished", "reset"},
           quinn' = [c \in Entity |-> quinn'[c]],
           \A c \in Entity : quinn'[c] = IF c \in closing THEN ClosedAs(state, c) ELSE quinn[c],
           Removed(cs),
           link' = link, room' = room, connected' = connected, accepted' = accepted,
           failed' \subseteq {"close_unused_streams", "close_all_streams"}
    PROVE  /\ TypeOK' /\ EntriesAreKnown' /\ Conserved'
           /\ Kept' = Kept \ cs
           /\ \A c \in Kept' : streams'[c] = streams[c] /\ (IsCurrent(c)' <=> IsCurrent(c))
           /\ \A c \in Entity : Kin(quinn[c], quinn'[c])
<1> USE DEF IInv
<1>1. /\ Kept' = Kept \ cs
      /\ \A c \in Kept' : streams'[c] = streams[c]
  BY DEF Removed, Restrict, Kept
<1>2. ASSUME NEW c \in Entity
      PROVE  /\ Kin(quinn[c], quinn'[c])
             /\ \A i \in DOMAIN quinn[c] : quinn'[c][i].sent = quinn[c][i].sent
  <2>1. CASE c \in closing
    <3>1. c \in Kept /\ quinn'[c] = ClosedAs(state, c)
      BY <2>1
    <3> QED BY <3>1, ClosedOnEntry
  <2>2. CASE c \notin closing
    <3>1. quinn'[c] = quinn[c]
      BY <2>2
    <3> QED BY <3>1, KinOfItself DEF TypeOK
  <2> QED BY <2>1, <2>2
<1>3. /\ \A c \in Entity : quinn'[c] \in Seq(QuinnStream)
                           /\ Cardinality(OpenStreams(c)') <= StreamLimit
      /\ \A c \in Kept' : IsCurrent(c)' <=> IsCurrent(c)
      /\ EntriesAreKnown'
  BY <1>1, <1>2, LoopKeeps
<1>4. TypeOK'
  <2>1. order' \in Orders(Kept')
    BY <1>1, YieldsAnOrder DEF TypeOK, Removed
  <2>2. quinn' \in [Entity -> Seq(QuinnStream)]
    BY <1>3
  <2> QED BY <1>1, <1>3, <2>1, <2>2 DEF TypeOK
<1>5. Conserved'
  <2> SUFFICES ASSUME NEW c \in Kept', IsCurrent(c)'
               PROVE  OwnStream(c)'.sent \o streams'[c].buffer = OwnStream(c)'.queued
    BY DEF Conserved
  <2>1. c \in Kept /\ c \in Entity /\ IsCurrent(c) /\ streams'[c] = streams[c]
    BY <1>1, <1>3 DEF TypeOK
  <2>2. OwnStream(c).sent \o streams[c].buffer = OwnStream(c).queued
        /\ streams[c].id \in DOMAIN quinn[c]
    BY <2>1 DEF Conserved, EntriesAreKnown
  <2>3. OwnStream(c)'.sent = OwnStream(c).sent /\ OwnStream(c)'.queued = OwnStream(c).queued
    <3>1. /\ Kin(quinn[c], quinn'[c])
          /\ \A i \in DOMAIN quinn[c] : quinn'[c][i].sent = quinn[c][i].sent
      BY <1>2, <2>1
    <3>2. OwnStream(c)' = quinn'[c][streams[c].id]
      BY <2>1 DEF OwnStream
    <3> QED BY <2>2, <3>1, <3>2 DEF Kin, OwnStream
  <2> QED BY <2>1, <2>2, <2>3
<1> QED BY <1>1, <1>2, <1>3, <1>4, <1>5

\* The open stream that a closing loop removes the entry of has been closed.
LEMMA ClosedIsNotOpen ==
    ASSUME TypeOK, NEW c \in Kept, NEW state \in {"finished", "reset"},
           quinn'[c] = ClosedAs(state, c), link[c] = "open",
           NEW i \in DOMAIN quinn[c], quinn[c][i].state = "open", streams[c].id = i
    PROVE  quinn'[c][i].state # "open"
<1>1. Usable(c)
  BY DEF Usable
<1> QED BY <1>1, ClosedOnEntry

LEMMA CloseUnusedStreamsStep ==
    ASSUME IInv, CloseUnusedStreams
    PROVE  IInv'
<1> USE DEF IInv
<1> DEFINE unused == {c \in Kept : streams[c].buffer = <<>>}
           failing == {c \in unused : link[c] = "absent"}
           closing == Reached(failing) \cap unused \cap Found
           cs == IF failing = {} THEN unused ELSE {}
<1>1. /\ quinn' = [c \in Entity |-> IF c \in closing THEN ClosedAs("finished", c) ELSE quinn[c]]
      /\ Removed(cs)
      /\ failed' = IF failing = {} THEN failed ELSE failed \cup {"close_unused_streams"}
      /\ link' = link /\ room' = room /\ connected' = connected /\ accepted' = accepted
  BY DEF CloseUnusedStreams
<1>2. /\ cs \subseteq Kept /\ closing \subseteq Kept
      /\ failed \subseteq failed'
      /\ failed' \subseteq {"close_unused_streams", "close_all_streams"}
      /\ "close_unused_streams" \notin failed' => failing = {} /\ cs = unused
  BY <1>1 DEF TypeOK
<1>3. failing = {} => \A c \in unused : link[c] = "open" => c \in closing
  <2> SUFFICES ASSUME failing = {}, NEW c \in unused, link[c] = "open" PROVE c \in closing
    OBVIOUS
  <2>1. c \in Reached({})
    BY AllReached DEF TypeOK
  <2> QED BY <2>1 DEF Found
<1>4. failing # {} => cs = {}
  OBVIOUS
<1>5. closing \subseteq unused /\ cs \subseteq unused
  OBVIOUS
<1> HIDE DEF unused, failing, closing, cs
<1>6. /\ TypeOK' /\ EntriesAreKnown' /\ Conserved'
      /\ Kept' = Kept \ cs
      /\ \A c \in Kept' : streams'[c] = streams[c] /\ (IsCurrent(c)' <=> IsCurrent(c))
      /\ \A c \in Entity : Kin(quinn[c], quinn'[c])
  <2>1. /\ quinn' = [c \in Entity |-> quinn'[c]]
        /\ \A c \in Entity : quinn'[c] = IF c \in closing THEN ClosedAs("finished", c)
                                        ELSE quinn[c]
    BY <1>1
  <2> QED BY <1>1, <1>2, <2>1, ClosingKeeps
<1>7. KeptIsOpen'
  <2> SUFFICES ASSUME "close_unused_streams" \notin failed', NEW c \in Kept', IsCurrent(c)'
               PROVE  OwnStream(c)'.mine /\ OwnStream(c)'.state = "open"
    BY DEF KeptIsOpen
  <2>1. c \in Kept /\ c \in Entity /\ c \notin closing
    BY <1>2, <1>5, <1>6 DEF TypeOK
  <2>2. quinn'[c] = quinn[c] /\ streams'[c] = streams[c] /\ IsCurrent(c)
    BY <1>1, <1>6, <2>1
  <2>3. OwnStream(c)' = OwnStream(c)
    BY <2>2 DEF OwnStream
  <2> QED BY <1>2, <2>1, <2>2, <2>3 DEF KeptIsOpen
<1>8. ForgottenIsClosed'
  <2> SUFFICES ASSUME "close_all_streams" \notin failed', NEW c \in Entity, link[c] = "open",
                      NEW i \in DOMAIN quinn'[c], quinn'[c][i].mine, quinn'[c][i].state = "open"
               PROVE  c \in Kept' /\ IsCurrent(c)' /\ streams'[c].id = i
    BY <1>1 DEF ForgottenIsClosed
  <2>1. i \in DOMAIN quinn[c] /\ quinn[c][i].mine /\ quinn[c][i].state = "open"
    BY <1>6 DEF Kin
  <2>2. c \in Kept /\ IsCurrent(c) /\ streams[c].id = i
    BY <1>2, <2>1 DEF ForgottenIsClosed
  <2>3. c \notin cs
    <3> SUFFICES ASSUME c \in cs PROVE FALSE
      OBVIOUS
    <3>1. c \in closing
      BY <1>3, <1>4, <1>5
    <3>2. quinn'[c] = ClosedAs("finished", c)
      BY <1>1, <3>1
    <3> QED BY <2>1, <2>2, <3>2, ClosedIsNotOpen
  <2> QED BY <1>6, <2>2, <2>3
<1> QED BY <1>6, <1>7, <1>8

LEMMA CloseAllStreamsStep ==
    ASSUME IInv, NEW graceful \in BOOLEAN, CloseAllStreams(graceful)
    PROVE  IInv'
<1> USE DEF IInv
<1> DEFINE failing == {c \in Kept : link[c] = "absent"}
           closing == Reached(failing) \cap Found
           state == IF graceful THEN "finished" ELSE "reset"
           cs == Kept
<1>1. /\ quinn' = [c \in Entity |-> IF c \in closing THEN ClosedAs(state, c) ELSE quinn[c]]
      /\ Removed(cs)
      /\ failed' = IF failing = {} THEN failed ELSE failed \cup {"close_all_streams"}
      /\ link' = link /\ room' = room /\ connected' = connected /\ accepted' = accepted
  BY DEF CloseAllStreams
<1>2. /\ cs \in SUBSET Kept /\ cs = Kept
      /\ closing \in SUBSET Kept /\ state \in {"finished", "reset"}
      /\ failed \subseteq failed'
      /\ failed' \subseteq {"close_unused_streams", "close_all_streams"}
      /\ "close_all_streams" \notin failed' => failing = {}
  BY <1>1 DEF TypeOK, Found
<1>3. failing = {} => \A c \in Kept : link[c] = "open" => c \in closing
  <2> SUFFICES ASSUME failing = {}, NEW c \in Kept, link[c] = "open" PROVE c \in closing
    OBVIOUS
  <2>1. c \in Reached({})
    BY AllReached DEF TypeOK
  <2> QED BY <2>1 DEF Found
<1> HIDE DEF failing, closing, state, cs
<1>4. /\ TypeOK' /\ EntriesAreKnown' /\ Conserved'
      /\ Kept' = {}
      /\ \A c \in Entity : Kin(quinn[c], quinn'[c])
  <2>1. /\ TypeOK' /\ EntriesAreKnown' /\ Conserved'
        /\ Kept' = Kept \ cs
        /\ \A c \in Entity : Kin(quinn[c], quinn'[c])
    <3>1. /\ quinn' = [c \in Entity |-> quinn'[c]]
          /\ \A c \in Entity : quinn'[c] = IF c \in closing THEN ClosedAs(state, c) ELSE quinn[c]
      BY <1>1
    <3>2. /\ Removed(cs)
          /\ link' = link /\ room' = room /\ connected' = connected /\ accepted' = accepted
      BY <1>1
    <3> QED BY <1>2, <3>1, <3>2, ClosingKeeps
  <2> QED BY <1>2, <2>1
<1>5. KeptIsOpen'
  BY <1>4 DEF KeptIsOpen
<1>6. ForgottenIsClosed'
  <2> SUFFICES ASSUME "close_all_streams" \notin failed', NEW c \in Entity, link[c] = "open",
                      NEW i \in DOMAIN quinn'[c], quinn'[c][i].mine, quinn'[c][i].state = "open"
               PROVE  FALSE
    BY <1>1 DEF ForgottenIsClosed
  <2>1. i \in DOMAIN quinn[c] /\ quinn[c][i].mine /\ quinn[c][i].state = "open"
    BY <1>4 DEF Kin
  <2>2. c \in Kept /\ IsCurrent(c) /\ streams[c].id = i
    BY <1>2, <2>1 DEF ForgottenIsClosed
  <2>3. quinn'[c] = ClosedAs(state, c)
    BY <1>1, <1>2, <1>3, <2>2
  <2> QED BY <1>2, <2>1, <2>2, <2>3, ClosedIsNotOpen
<1> QED BY <1>4, <1>5, <1>6

-----------------------------------------------------------------------------
(* The world preserves the invariant. *)

\* A new connection has no streams, and no entry is of it.
LEMMA ConnectStep ==
    ASSUME IInv, NEW c \in Entity, Connect(c)
    PROVE  IInv'
<1> USE DEF IInv
<1>1. /\ connected' = [connected EXCEPT ![c] = @ + 1]
      /\ link' \in [Entity -> Links]
      /\ \A d \in Entity : d # c => link'[d] = link[d]
      /\ quinn' = [quinn EXCEPT ![c] = <<>>]
      /\ room' = [room EXCEPT ![c] = Window]
      /\ streams' = streams /\ order' = order /\ accepted' = accepted /\ failed' = failed
  BY DEF Connect, sender, TypeOK, Links
<1>2. Kept' = Kept /\ Kept \subseteq Entity
  BY <1>1 DEF Kept, TypeOK
<1>3. ASSUME NEW d \in Entity
      PROVE  /\ connected[d] \in Nat
             /\ d # c => quinn'[d] = quinn[d] /\ connected'[d] = connected[d]
             /\ d = c => quinn'[d] = <<>> /\ connected'[d] = connected[d] + 1
  BY <1>1 DEF TypeOK
<1>4. ASSUME NEW d \in Kept
      PROVE  /\ streams'[d] = streams[d] /\ streams[d].connection <= connected[d]
             /\ d = c => ~ IsCurrent(d)'
             /\ d # c => (IsCurrent(d)' <=> IsCurrent(d)) /\ OwnStream(d)' = OwnStream(d)
  <2>1. d \in Entity /\ streams[d].connection <= connected[d] /\ streams[d].connection \in Nat
    BY EntryTypes DEF EntriesAreKnown
  <2> QED BY <1>1, <1>3, <2>1 DEF IsCurrent, OwnStream
<1>5. TypeOK'
  <2>1. quinn' \in [Entity -> Seq(QuinnStream)]
    BY <1>1, EmptySeq DEF TypeOK
  <2>2. ASSUME NEW d \in Entity
        PROVE  Cardinality(OpenStreams(d)') <= StreamLimit
    <3>1. CASE d = c
      <4>1. OpenStreams(d)' = {}
        BY <1>3, <3>1 DEF OpenStreams
      <4> QED BY <4>1, FS_EmptySet, StreamLimitAssumption
    <3>2. CASE d # c
      <4>1. OpenStreams(d)' = OpenStreams(d)
        BY <1>3, <3>2 DEF OpenStreams
      <4> QED BY <4>1 DEF TypeOK
    <3> QED BY <3>1, <3>2
  <2>3. connected' \in [Entity -> Nat] /\ room' \in [Entity -> 0 .. Window]
    BY <1>1, WindowAssumption DEF TypeOK
  <2> QED BY <1>1, <1>2, <2>1, <2>2, <2>3 DEF TypeOK
<1>6. EntriesAreKnown'
  <2> SUFFICES ASSUME NEW d \in Kept
               PROVE  /\ (streams[d].connection <= connected[d])'
                      /\ IsCurrent(d)' => (streams[d].id \in DOMAIN quinn[d] /\ OwnStream(d).mine)'
    BY <1>2 DEF EntriesAreKnown
  <2>1. d \in Entity /\ streams[d].connection \in Nat
    BY EntryTypes
  <2> QED BY <1>3, <1>4, <2>1 DEF EntriesAreKnown
<1>7. Conserved'
  BY <1>2, <1>4 DEF Conserved
<1>8. KeptIsOpen'
  BY <1>1, <1>2, <1>4 DEF KeptIsOpen
<1>9. ForgottenIsClosed'
  <2> SUFFICES ASSUME "close_all_streams" \notin failed, NEW d \in Entity, link'[d] = "open",
                      NEW i \in DOMAIN quinn'[d], quinn'[d][i].mine, quinn'[d][i].state = "open"
               PROVE  d \in Kept' /\ IsCurrent(d)' /\ streams'[d].id = i
    BY <1>1 DEF ForgottenIsClosed
  <2>1. d # c
    BY <1>3, EmptySeq
  <2> QED BY <1>1, <1>2, <1>3, <1>4, <2>1 DEF ForgottenIsClosed
<1> QED BY <1>5, <1>6, <1>7, <1>8, <1>9

\* A connection that ends, an entity that loses it and a peer that reads leave
\* the streams and the entries alone.
LEMMA LinkStep ==
    ASSUME IInv, link' \in [Entity -> Links],
           \A c \in Entity : link'[c] = "open" => link[c] = "open",
           room' \in [Entity -> 0 .. Window],
           quinn' = quinn, connected' = connected, streams' = streams, order' = order,
           accepted' = accepted, failed' = failed
    PROVE  IInv'
<1> USE DEF IInv
<1>1. /\ Kept' = Kept
      /\ \A c : IsCurrent(c)' = IsCurrent(c) /\ OwnStream(c)' = OwnStream(c)
                /\ OpenStreams(c)' = OpenStreams(c)
  BY DEF Kept, IsCurrent, OwnStream, OpenStreams
<1>2. TypeOK'
  BY <1>1 DEF TypeOK
<1>3. EntriesAreKnown' /\ Conserved' /\ KeptIsOpen' /\ ForgottenIsClosed'
  BY <1>1 DEF EntriesAreKnown, Conserved, KeptIsOpen, ForgottenIsClosed
<1> QED BY <1>2, <1>3

\* A stream that the sender did not open is none that it answers for.
LEMMA OtherOpensStep ==
    ASSUME IInv, NEW c \in Entity, OtherOpens(c)
    PROVE  IInv'
<1> USE DEF IInv
<1>1. /\ quinn' = [quinn EXCEPT ![c] = Append(@, NewStream(FALSE))]
      /\ Cardinality(OpenStreams(c)) < StreamLimit
      /\ link' = link /\ room' = room /\ connected' = connected
      /\ streams' = streams /\ order' = order /\ accepted' = accepted /\ failed' = failed
  BY DEF OtherOpens, MayOpen, sender
<1>2. /\ quinn[c] \in Seq(QuinnStream)
      /\ quinn'[c] = Append(quinn[c], NewStream(FALSE))
      /\ \A d \in Entity : d # c => quinn'[d] = quinn[d]
  BY <1>1 DEF TypeOK
<1>3. /\ quinn'[c] \in Seq(QuinnStream)
      /\ DOMAIN quinn'[c] = DOMAIN quinn[c] \cup {Len(quinn[c]) + 1}
      /\ \A i \in DOMAIN quinn[c] : quinn'[c][i] = quinn[c][i]
      /\ ~ quinn'[c][Len(quinn[c]) + 1].mine
      /\ Cardinality(OpenOf(quinn'[c])) = Cardinality(OpenOf(quinn[c])) + 1
  <2>1. /\ quinn'[c] \in Seq(QuinnStream)
        /\ DOMAIN quinn'[c] = DOMAIN quinn[c] \cup {Len(quinn[c]) + 1}
        /\ \A i \in DOMAIN quinn[c] : quinn'[c][i] = quinn[c][i]
        /\ quinn'[c][Len(quinn[c]) + 1] = NewStream(FALSE)
        /\ Cardinality(OpenOf(quinn'[c])) = Cardinality(OpenOf(quinn[c])) + 1
    BY <1>2, OpenedWithinLimit
  <2>2. ~ NewStream(FALSE).mine
    BY DEF NewStream
  <2> QED BY <2>1, <2>2
<1>4. Kept' = Kept /\ Kept \subseteq Entity /\ \A d \in Kept : IsCurrent(d)' <=> IsCurrent(d)
  BY <1>1 DEF Kept, IsCurrent, TypeOK
<1>5. \A d \in Kept : IsCurrent(d) => /\ streams[d].id \in DOMAIN quinn'[d]
                                      /\ OwnStream(d)' = OwnStream(d)
  BY <1>1, <1>2, <1>3, <1>4 DEF EntriesAreKnown, OwnStream
<1>6. TypeOK'
  <2>1. quinn' \in [Entity -> Seq(QuinnStream)]
    BY <1>1, <1>2, <1>3 DEF TypeOK
  <2>2. ASSUME NEW d \in Entity
        PROVE  Cardinality(OpenStreams(d)') <= StreamLimit
    <3>1. OpenStreams(d) = OpenOf(quinn[d]) /\ OpenStreams(d)' = OpenOf(quinn'[d])
      BY DEF OpenStreams, OpenOf
    <3>2. CASE d = c
      <4>1. Cardinality(OpenOf(quinn[c])) \in Nat /\ Cardinality(OpenOf(quinn[c])) < StreamLimit
        BY <1>1, <1>2, <3>1, <3>2, OpenIsFinite
      <4>2. Cardinality(OpenOf(quinn'[c])) <= StreamLimit
        BY <1>3, <4>1, StreamLimitAssumption
      <4> QED BY <3>1, <3>2, <4>2
    <3>3. CASE d # c
      BY <1>2, <3>1, <3>3 DEF TypeOK
    <3> QED BY <3>2, <3>3
  <2> QED BY <1>1, <1>4, <2>1, <2>2 DEF TypeOK
<1>7. EntriesAreKnown'
  BY <1>1, <1>4, <1>5 DEF EntriesAreKnown
<1>8. Conserved' /\ KeptIsOpen'
  BY <1>1, <1>4, <1>5 DEF Conserved, KeptIsOpen
<1>9. ForgottenIsClosed'
  <2> SUFFICES ASSUME "close_all_streams" \notin failed, NEW d \in Entity, link[d] = "open",
                      NEW i \in DOMAIN quinn'[d], quinn'[d][i].mine, quinn'[d][i].state = "open"
               PROVE  d \in Kept /\ IsCurrent(d) /\ streams[d].id = i
    BY <1>1, <1>4 DEF ForgottenIsClosed
  <2>1. i \in DOMAIN quinn[d] /\ quinn[d][i] = quinn'[d][i]
    BY <1>2, <1>3
  <2> QED BY <2>1 DEF ForgottenIsClosed
<1> QED BY <1>6, <1>7, <1>8, <1>9

-----------------------------------------------------------------------------
(* Writing preserves the invariant. *)

LEMMA MessageIsUnits ==
    ASSUME NEW number \in Nat
    PROVE  UnitsOf(number) \in Seq(Unit)
<1>1. <<number, 1>> \in Unit /\ <<number, 2>> \in Unit
  BY DEF Unit
<1> QED BY <1>1 DEF UnitsOf

\* The second flush of a write, with the message in the queue.
FlushedAgain(first, message, credit) ==
    Flushed(first.buffer \o message, credit - Len(first.sent))

\* The two flushes of a write divide the queue and the message.
Divided(buffer, message, credit, first, second) ==
    /\ first.sent \in Seq(Unit) /\ first.buffer \in Seq(Unit)
    /\ first.sent \o first.buffer = buffer
    /\ Len(first.sent) \in Nat /\ Len(first.sent) <= credit
    /\ first.sent \o second.sent \in Seq(Unit) /\ second.buffer \in Seq(Unit)
    /\ (first.sent \o second.sent) \o second.buffer = buffer \o message
    /\ Len(first.sent \o second.sent) \in Nat /\ Len(first.sent \o second.sent) <= credit

LEMMA WriteDivides ==
    ASSUME NEW buffer \in Seq(Unit), NEW credit \in Nat, NEW message \in Seq(Unit),
           NEW first, first = Flushed(buffer, credit),
           NEW second, second = FlushedAgain(first, message, credit)
    PROVE  Divided(buffer, message, credit, first, second)
<1> DEFINE a == first.sent
           b == first.buffer
           joined == b \o message
           left == credit - Len(a)
           s == second.sent
           t == second.buffer
<1>1. /\ a \in Seq(Unit) /\ b \in Seq(Unit)
      /\ Len(a) \in Nat /\ Len(a) <= credit
  BY FlushedDivides
<1>2. a \o b = buffer
  BY FlushedDivides
<1>3. joined \in Seq(Unit) /\ left \in Nat
  BY <1>1, ConcatProperties
<1>4. second = Flushed(joined, left)
  BY DEF FlushedAgain
<1> HIDE DEF joined, left
<1>5. s \in Seq(Unit) /\ t \in Seq(Unit) /\ Len(s) \in Nat /\ Len(s) <= left
  BY <1>3, <1>4, FlushedDivides
<1>6. s \o t = joined
  BY <1>3, <1>4, FlushedDivides
<1> HIDE DEF a, b, s, t
<1>7. a \o s \in Seq(Unit) /\ Len(a \o s) = Len(a) + Len(s)
  BY <1>1, <1>5, ConcatProperties
<1>8. (a \o s) \o t = a \o (s \o t) /\ (a \o b) \o message = a \o (b \o message)
  <2>1. (a \o s) \o t = a \o (s \o t)
    BY <1>1, <1>5, UnitsAssociate, Zenon
  <2>2. (a \o b) \o message = a \o (b \o message)
    BY <1>1, UnitsAssociate, Zenon
  <2> QED BY <2>1, <2>2
<1>9. (a \o s) \o t = buffer \o message
  BY <1>2, <1>6, <1>8 DEF joined
<1>10. Len(a) + Len(s) \in Nat /\ Len(a) + Len(s) <= credit
  BY <1>1, <1>5 DEF left
<1>11. Len(a \o s) \in Nat /\ Len(a \o s) <= credit
  BY <1>7, <1>10
<1> QED BY <1>1, <1>2, <1>5, <1>7, <1>9, <1>11 DEF a, b, s, t, Divided

IsAFunction(f) == f = [i \in DOMAIN f |-> f[i]]

\* The stream with what it has taken, and what was queued for it.
With(stream, sent, queued) == [stream EXCEPT !.sent = sent, !.queued = queued]

\* A write touches the stream of the entry only.
LEMMA WrittenStreams ==
    ASSUME NEW opened \in Seq(QuinnStream), NEW id,
           NEW sent, NEW queued,
           id \in DOMAIN opened => sent \in Seq(Unit) /\ queued \in Seq(Unit),
           NEW new, IsAFunction(new), DOMAIN new = DOMAIN opened,
           \A i \in DOMAIN opened : i # id => new[i] = opened[i],
           id \in DOMAIN opened => new[id] = With(opened[id], sent, queued)
    PROVE  /\ new \in Seq(QuinnStream)
           /\ DOMAIN new = DOMAIN opened
           /\ \A i \in DOMAIN opened :
                new[i].mine = opened[i].mine /\ new[i].state = opened[i].state
           /\ id \in DOMAIN opened => new[id].sent = sent /\ new[id].queued = queued
<1>1. Len(opened) \in Nat /\ DOMAIN opened = 1 .. Len(opened)
  BY LenProperties
<1>2. ASSUME NEW i \in DOMAIN opened
      PROVE  /\ new[i] \in QuinnStream
             /\ new[i].mine = opened[i].mine /\ new[i].state = opened[i].state
             /\ i = id => new[i].sent = sent /\ new[i].queued = queued
  <2>1. opened[i] \in QuinnStream
    BY StreamTypes
  <2>2. CASE i # id
    BY <2>1, <2>2
  <2>3. CASE i = id
    <3>1. new[i] = [opened[i] EXCEPT !.sent = sent, !.queued = queued]
      BY <2>3 DEF With
    <3> QED BY <2>1, <3>1 DEF QuinnStream
  <2> QED BY <2>2, <2>3
<1>3. new \in [1 .. Len(opened) -> QuinnStream]
  BY <1>1, <1>2 DEF IsAFunction
<1>4. new \in Seq(QuinnStream) /\ DOMAIN new = DOMAIN opened
  BY <1>1, <1>3, SeqOfFunction
<1> QED BY <1>2, <1>4

\* The stream has a part of what was queued for it, the queue the rest.
Conserves(stream, buffer) == stream.sent \o buffer = stream.queued

\* What holds of the entry, there or just made, and of the streams it is in.
LEMMA EntryOpened ==
    ASSUME IInv, NEW c \in Entity, c \in Kept \/ MayOpen(c),
           NEW entry, entry = EntryOf(c), NEW opened, opened = OpenedFor(c),
           NEW credit, credit = IF c \in Kept THEN Credit(c) ELSE room[c]
    PROVE  /\ opened \in Seq(QuinnStream) /\ Cardinality(OpenOf(opened)) <= StreamLimit
           /\ entry \in MessageStreamState /\ entry.connection <= connected[c]
           /\ credit \in Nat /\ credit <= room[c]
           /\ entry.connection = connected[c] =>
                /\ entry.id \in DOMAIN opened /\ opened[entry.id].mine
                /\ Conserves(opened[entry.id], entry.buffer)
                /\ "close_unused_streams" \notin failed => opened[entry.id].state = "open"
           /\ "close_all_streams" \notin failed /\ link[c] = "open" =>
                \A i \in DOMAIN opened :
                    opened[i].mine /\ opened[i].state = "open" =>
                        entry.connection = connected[c] /\ entry.id = i
<1> USE DEF IInv
<1>1. CASE c \in Kept
  <2>1. entry = streams[c] /\ opened = quinn[c] /\ credit = Credit(c)
    BY <1>1 DEF EntryOf, OpenedFor
  <2>2. opened \in Seq(QuinnStream) /\ Cardinality(OpenOf(opened)) <= StreamLimit
    BY <2>1 DEF TypeOK, OpenStreams, OpenOf
  <2>3. entry \in MessageStreamState /\ entry.connection <= connected[c]
        /\ credit \in Nat /\ credit <= room[c]
    BY <1>1, <2>1, EntryTypes DEF TypeOK, EntriesAreKnown
  <2>4. entry.connection = connected[c] =>
          /\ entry.id \in DOMAIN opened /\ opened[entry.id].mine
          /\ Conserves(opened[entry.id], entry.buffer)
          /\ "close_unused_streams" \notin failed => opened[entry.id].state = "open"
    BY <1>1, <2>1 DEF EntriesAreKnown, Conserved, KeptIsOpen, IsCurrent, OwnStream, Conserves
  <2>5. "close_all_streams" \notin failed /\ link[c] = "open" =>
          \A i \in DOMAIN opened :
              opened[i].mine /\ opened[i].state = "open" =>
                  entry.connection = connected[c] /\ entry.id = i
    BY <2>1 DEF ForgottenIsClosed, IsCurrent
  <2> QED BY <2>2, <2>3, <2>4, <2>5
<1>2. CASE c \notin Kept
  <2> DEFINE id == Len(quinn[c]) + 1
  <2>1. entry = [id |-> id, connection |-> connected[c], buffer |-> <<>>]
        /\ opened = Append(quinn[c], NewStream(TRUE)) /\ credit = room[c]
    BY <1>2 DEF EntryOf, OpenedFor
  <2>2. quinn[c] \in Seq(QuinnStream) /\ connected[c] \in Nat /\ room[c] \in 0 .. Window
        /\ Cardinality(OpenOf(quinn[c])) < StreamLimit
    BY <1>2 DEF TypeOK, MayOpen, OpenStreams, OpenOf
  <2>3. /\ opened \in Seq(QuinnStream)
        /\ DOMAIN opened = DOMAIN quinn[c] \cup {id}
        /\ \A i \in DOMAIN quinn[c] : opened[i] = quinn[c][i]
        /\ opened[id] = NewStream(TRUE)
        /\ Cardinality(OpenOf(opened)) = Cardinality(OpenOf(quinn[c])) + 1
    BY <2>1, <2>2, OpenedWithinLimit
  <2>4. Cardinality(OpenOf(opened)) <= StreamLimit
    <3>1. Cardinality(OpenOf(quinn[c])) \in Nat
      BY <2>2, OpenIsFinite
    <3> QED BY <2>2, <2>3, <3>1, StreamLimitAssumption
  <2>5. id \in Nat \ {0}
    BY <2>2, LenProperties
  <2>6. <<>> \in Seq(Unit) /\ <<>> \o <<>> = <<>>
    BY EmptySeq, ConcatEmptySeq
  <2>7. /\ entry.id = id /\ entry.connection = connected[c] /\ entry.buffer = <<>>
        /\ entry \in MessageStreamState
    BY <2>1, <2>2, <2>5, <2>6 DEF MessageStreamState
  <2>8. credit \in Nat /\ credit <= room[c] /\ entry.connection <= connected[c]
    BY <2>1, <2>2, <2>7, WindowAssumption
  <2>9. /\ opened[id].mine /\ opened[id].state = "open"
        /\ opened[id].sent = <<>> /\ opened[id].queued = <<>>
    BY <2>3 DEF NewStream
  <2>10. "close_all_streams" \notin failed /\ link[c] = "open" =>
           \A i \in DOMAIN quinn[c] : ~ (quinn[c][i].mine /\ quinn[c][i].state = "open")
    BY <1>2 DEF ForgottenIsClosed
  <2> HIDE DEF id
  <2>11. Conserves(opened[id], entry.buffer)
    BY <2>6, <2>7, <2>9 DEF Conserves
  <2> QED BY <2>3, <2>4, <2>7, <2>8, <2>9, <2>10, <2>11
<1> QED BY <1>1, <1>2

LEMMA WriteStep ==
    ASSUME IInv, NEW c \in Entity, NEW queue \in BOOLEAN, Write(c, queue)
    PROVE  IInv'
<1> USE DEF IInv
<1> DEFINE entry == EntryOf(c)
           opened == OpenedFor(c)
           credit == IF c \in Kept THEN Credit(c) ELSE room[c]
           first == Flushed(entry.buffer, credit)
           turned == first.returned = "error" \/ (first.returned = "false" /\ ~ queue)
           message == UnitsOf(accepted[c] + 1)
           second == Flushed(first.buffer \o message, credit - Len(first.sent))
           units == IF turned THEN first.sent ELSE first.sent \o second.sent
           rest == IF turned THEN first.buffer ELSE second.buffer
           current == entry.connection = connected[c]
           new == [i \in DOMAIN opened |->
                      IF i # entry.id THEN opened[i]
                      ELSE [opened[i] EXCEPT
                               !.sent = @ \o units,
                               !.queued = IF turned \/ ~ current THEN @ ELSE @ \o message]]
<1>1. /\ quinn' = [quinn EXCEPT ![c] = new]
      /\ room' = [room EXCEPT ![c] = @ - Len(units)]
      /\ streams' = [d \in Kept \cup {c} |->
                       IF d = c THEN [entry EXCEPT !.buffer = rest] ELSE streams[d]]
      /\ accepted' = IF turned THEN accepted ELSE [accepted EXCEPT ![c] = @ + 1]
      /\ Yields(Kept \cup {c})
      /\ c \in Kept \/ MayOpen(c)
      /\ link' = link /\ connected' = connected /\ failed' = failed
  BY DEF Write
<1> DEFINE queued == IF turned \/ ~ current THEN opened[entry.id].queued
                     ELSE opened[entry.id].queued \o message
           sent == opened[entry.id].sent \o units
<1>2. entry = EntryOf(c) /\ opened = OpenedFor(c)
      /\ credit = IF c \in Kept THEN Credit(c) ELSE room[c]
  OBVIOUS
<1>3. message = UnitsOf(accepted[c] + 1)
  OBVIOUS
<1> HIDE DEF entry, opened, credit, message
<1>4. first = Flushed(entry.buffer, credit)
      /\ second = FlushedAgain(first, message, credit)
  BY DEF FlushedAgain
<1> HIDE DEF first, second
<1>5. /\ turned => units = first.sent /\ rest = first.buffer
      /\ ~ turned => units = first.sent \o second.sent /\ rest = second.buffer
  OBVIOUS
<1> HIDE DEF units, rest
<1>6. /\ turned \/ ~ current => queued = opened[entry.id].queued
      /\ ~ turned /\ current => queued = opened[entry.id].queued \o message
  OBVIOUS
<1>7. /\ IsAFunction(new) /\ DOMAIN new = DOMAIN opened
      /\ \A i \in DOMAIN opened : i # entry.id => new[i] = opened[i]
      /\ entry.id \in DOMAIN opened =>
           new[entry.id] = With(opened[entry.id], sent, queued)
  BY DEF IsAFunction, With
<1>8. sent = opened[entry.id].sent \o units
  OBVIOUS
<1> HIDE DEF new, queued, sent, turned
<1>9. /\ opened \in Seq(QuinnStream) /\ Cardinality(OpenOf(opened)) <= StreamLimit
      /\ entry \in MessageStreamState /\ entry.connection <= connected[c]
      /\ credit \in Nat /\ credit <= room[c]
      /\ entry.connection = connected[c] =>
           /\ entry.id \in DOMAIN opened /\ opened[entry.id].mine
           /\ Conserves(opened[entry.id], entry.buffer)
           /\ "close_unused_streams" \notin failed => opened[entry.id].state = "open"
      /\ "close_all_streams" \notin failed /\ link[c] = "open" =>
           \A i \in DOMAIN opened :
               opened[i].mine /\ opened[i].state = "open" =>
                   entry.connection = connected[c] /\ entry.id = i
  BY <1>1, <1>2, EntryOpened
<1>10. accepted[c] \in Nat /\ entry.buffer \in Seq(Unit) /\ entry.id \in Nat \ {0}
       /\ entry.connection \in Nat /\ room[c] \in 0 .. Window /\ Window \in Nat
  BY <1>9, WindowAssumption DEF TypeOK, MessageStreamState
<1>11. message \in Seq(Unit)
  <2>1. accepted[c] + 1 \in Nat
    BY <1>10
  <2> QED BY <1>3, <2>1, MessageIsUnits, Zenon
<1>12. /\ units \in Seq(Unit) /\ rest \in Seq(Unit)
       /\ Len(units) \in Nat /\ Len(units) <= credit
       /\ turned => units \o rest = entry.buffer
       /\ ~ turned => units \o rest = entry.buffer \o message
  <2>1. Divided(entry.buffer, message, credit, first, second)
    BY <1>4, <1>9, <1>10, <1>11, WriteDivides
  <2> QED BY <1>5, <2>1 DEF Divided
<1>13. entry.id \in DOMAIN opened => sent \in Seq(Unit) /\ queued \in Seq(Unit)
  <2> HAVE entry.id \in DOMAIN opened
  <2>1. opened[entry.id].sent \in Seq(Unit) /\ opened[entry.id].queued \in Seq(Unit)
    BY <1>9, StreamTypes
  <2>2. opened[entry.id].sent \o units \in Seq(Unit)
        /\ opened[entry.id].queued \o message \in Seq(Unit)
    BY <1>11, <1>12, <2>1, ConcatProperties
  <2> QED BY <1>6, <1>8, <2>1, <2>2
<1>14. /\ new \in Seq(QuinnStream) /\ DOMAIN new = DOMAIN opened
       /\ \A i \in DOMAIN opened :
            new[i].mine = opened[i].mine /\ new[i].state = opened[i].state
       /\ entry.id \in DOMAIN opened => new[entry.id].sent = sent /\ new[entry.id].queued = queued
  <2>1. CASE entry.id \in DOMAIN opened
    BY <1>7, <1>9, <1>13, <2>1, WrittenStreams
  <2>2. CASE entry.id \notin DOMAIN opened
    <3>1. opened = [i \in DOMAIN opened |-> opened[i]]
      BY <1>9, LenProperties
    <3>2. \A i \in DOMAIN opened : new[i] = opened[i]
      BY <1>7, <2>2
    <3>3. new = opened
      BY <1>7, <3>1, <3>2 DEF IsAFunction
    <3> QED BY <1>9, <2>2, <3>3
  <2> QED BY <2>1, <2>2
<1>15. /\ Kept' = Kept \cup {c} /\ Kept \subseteq Entity
       /\ streams'[c] = [entry EXCEPT !.buffer = rest]
       /\ \A d \in Kept : d # c => streams'[d] = streams[d]
  BY <1>1 DEF Kept, TypeOK
<1>16. /\ streams'[c] \in MessageStreamState
       /\ streams'[c].id = entry.id /\ streams'[c].connection = entry.connection
       /\ streams'[c].buffer = rest
  BY <1>9, <1>12, <1>15 DEF MessageStreamState
<1>17. quinn'[c] = new /\ \A d \in Entity : d # c => quinn'[d] = quinn[d]
  BY <1>1 DEF TypeOK
<1>18. /\ \A d \in Kept : d # c => (IsCurrent(d)' <=> IsCurrent(d)) /\ OwnStream(d)' = OwnStream(d)
       /\ IsCurrent(c)' <=> entry.connection = connected[c]
       /\ OwnStream(c)' = new[entry.id]
  BY <1>1, <1>15, <1>16, <1>17 DEF IsCurrent, OwnStream
<1>19. TypeOK'
  <2>1. quinn' \in [Entity -> Seq(QuinnStream)]
    BY <1>1, <1>14 DEF TypeOK
  <2>2. ASSUME NEW d \in Entity
        PROVE  Cardinality(OpenStreams(d)') <= StreamLimit
    <3>1. OpenStreams(d) = OpenOf(quinn[d]) /\ OpenStreams(d)' = OpenOf(quinn'[d])
      BY DEF OpenStreams, OpenOf
    <3>2. OpenOf(new) = OpenOf(opened)
      BY <1>14 DEF OpenOf
    <3>3. CASE d = c
      BY <1>9, <1>17, <3>1, <3>2, <3>3
    <3>4. CASE d # c
      BY <1>17, <3>1, <3>4 DEF TypeOK
    <3> QED BY <3>3, <3>4
  <2>3. room' \in [Entity -> 0 .. Window]
    BY <1>1, <1>9, <1>10, <1>12 DEF TypeOK
  <2>4. \A d \in Kept' : streams'[d] \in MessageStreamState
    BY <1>15, <1>16 DEF TypeOK
  <2>5. order' \in Orders(Kept')
    BY <1>1, <1>15, YieldsAnOrder DEF TypeOK
  <2>6. accepted' \in [Entity -> Nat]
    BY <1>1, <1>10 DEF TypeOK
  <2> QED BY <1>1, <1>15, <2>1, <2>2, <2>3, <2>4, <2>5, <2>6 DEF TypeOK
<1>20. EntriesAreKnown'
  <2> SUFFICES ASSUME NEW d \in Kept'
               PROVE  /\ (streams[d].connection <= connected[d])'
                      /\ IsCurrent(d)' => (streams[d].id \in DOMAIN quinn[d] /\ OwnStream(d).mine)'
    BY DEF EntriesAreKnown
  <2>1. CASE d = c
    BY <1>1, <1>9, <1>14, <1>16, <1>17, <1>18, <2>1
  <2>2. CASE d # c
    <3>1. d \in Kept /\ d \in Entity
      BY <1>15, <2>2
    <3> QED BY <1>1, <1>15, <1>17, <1>18, <2>2, <3>1 DEF EntriesAreKnown
  <2> QED BY <2>1, <2>2
<1>21. Conserved'
  <2>1. entry.connection = connected[c] =>
          new[entry.id].sent \o rest = new[entry.id].queued
    <3> HAVE entry.connection = connected[c]
    <3>1. /\ entry.id \in DOMAIN opened
          /\ Conserves(opened[entry.id], entry.buffer)
      BY <1>9
    <3> DEFINE before == opened[entry.id].sent
               buffer == entry.buffer
    <3>2. before \in Seq(Unit) /\ buffer \in Seq(Unit)
      BY <1>9, <1>10, <3>1, StreamTypes
    <3>3. before \o buffer = opened[entry.id].queued /\ sent = before \o units
      BY <1>8, <3>1 DEF Conserves
    <3> HIDE DEF before, buffer
    <3>4. (before \o units) \o rest = before \o (units \o rest)
      BY <1>12, <3>2, UnitsAssociate, Zenon
    <3>5. (before \o buffer) \o message = before \o (buffer \o message)
      BY <1>11, <3>2, UnitsAssociate, Zenon
    <3>6. sent \o rest = queued
      <4>1. CASE turned
        BY <1>6, <1>12, <3>3, <3>4, <4>1 DEF buffer
      <4>2. CASE ~ turned
        BY <1>6, <1>12, <3>3, <3>4, <3>5, <4>2 DEF buffer
      <4> QED BY <4>1, <4>2
    <3> QED BY <1>14, <3>1, <3>6
  <2> QED BY <1>15, <1>16, <1>18, <2>1 DEF Conserved
<1>22. KeptIsOpen'
  <2> SUFFICES ASSUME "close_unused_streams" \notin failed, NEW d \in Kept', IsCurrent(d)'
               PROVE  OwnStream(d)'.mine /\ OwnStream(d)'.state = "open"
    BY <1>1 DEF KeptIsOpen
  <2>1. CASE d = c
    BY <1>9, <1>14, <1>18, <2>1
  <2>2. CASE d # c
    BY <1>15, <1>18, <2>2 DEF KeptIsOpen
  <2> QED BY <2>1, <2>2
<1>23. ForgottenIsClosed'
  <2> SUFFICES ASSUME "close_all_streams" \notin failed, NEW d \in Entity, link[d] = "open",
                      NEW i \in DOMAIN quinn'[d], quinn'[d][i].mine, quinn'[d][i].state = "open"
               PROVE  d \in Kept' /\ IsCurrent(d)' /\ streams'[d].id = i
    BY <1>1 DEF ForgottenIsClosed
  <2>1. CASE d = c
    <3>1. i \in DOMAIN opened /\ opened[i].mine /\ opened[i].state = "open"
      BY <1>14, <1>17, <2>1
    <3>2. entry.connection = connected[c] /\ entry.id = i
      BY <1>9, <2>1, <3>1
    <3> QED BY <1>15, <1>16, <1>18, <2>1, <3>2
  <2>2. CASE d # c
    <3>1. d \in Kept /\ IsCurrent(d) /\ streams[d].id = i
      BY <1>17, <2>2 DEF ForgottenIsClosed
    <3> QED BY <1>15, <1>18, <2>2, <3>1
  <2> QED BY <2>1, <2>2
<1> QED BY <1>19, <1>20, <1>21, <1>22, <1>23

-----------------------------------------------------------------------------
(* The specification. *)

\* At the start there is neither an entry nor a stream.
LEMMA InitHolds == Init => IInv
<1> SUFFICES ASSUME Init PROVE IInv
  OBVIOUS
<1>1. Kept = {}
  BY DEF Init, Kept
<1>2. TypeOK
  <2>1. \A c \in Entity : OpenStreams(c) = {}
    BY DEF Init, OpenStreams
  <2>2. \A c \in Entity : Cardinality(OpenStreams(c)) <= StreamLimit
    BY <2>1, FS_EmptySet, StreamLimitAssumption
  <2>3. quinn \in [Entity -> Seq(QuinnStream)]
    BY EmptySeq DEF Init
  <2>4. order \in Orders({})
    <3>1. Cardinality({}) = 0
      BY FS_EmptySet
    <3>2. order \in [1 .. 0 -> {}]
      <4>1. order \in Seq({}) /\ Len(order) = 0
        BY EmptySeq DEF Init
      <4> QED BY <4>1, LenProperties
    <3>3. order \in Bijection(1 .. 0, {})
      BY <3>2 DEF Bijection, Injection, Surjection, IsInjective
    <3> QED BY <3>1, <3>3 DEF Orders
  <2> QED BY <1>1, <2>2, <2>3, <2>4, WindowAssumption DEF Init, TypeOK, Links
<1>3. EntriesAreKnown /\ Conserved /\ KeptIsOpen
  BY <1>1 DEF EntriesAreKnown, Conserved, KeptIsOpen
<1>4. ForgottenIsClosed
  BY DEF Init, ForgottenIsClosed
<1> QED BY <1>2, <1>3, <1>4 DEF IInv

\* No step leaves the invariant: one lemma for each action.
LEMMA NextHolds == IInv /\ [Next]_vars => IInv'
<1> SUFFICES ASSUME IInv, [Next]_vars PROVE IInv'
  OBVIOUS
<1>1. ASSUME NEW c \in Entity, Connect(c) PROVE IInv'
  BY <1>1, ConnectStep
<1>2. ASSUME NEW c \in Entity, End(c) PROVE IInv'
  <2>1. /\ link' \in [Entity -> Links]
        /\ \A d \in Entity : link'[d] = "open" => link[d] = "open"
        /\ quinn' = quinn /\ room' = room /\ connected' = connected /\ streams' = streams
        /\ order' = order /\ accepted' = accepted /\ failed' = failed
    BY <1>2 DEF End, sender, IInv, TypeOK, Links
  <2> QED BY <2>1, LinkStep DEF IInv, TypeOK
<1>3. ASSUME NEW c \in Entity, Displace(c) PROVE IInv'
  <2>1. /\ link' \in [Entity -> Links]
        /\ \A d \in Entity : link'[d] = "open" => link[d] = "open"
        /\ quinn' = quinn /\ room' = room /\ connected' = connected /\ streams' = streams
        /\ order' = order /\ accepted' = accepted /\ failed' = failed
    BY <1>3 DEF Displace, sender, IInv, TypeOK, Links
  <2> QED BY <2>1, LinkStep DEF IInv, TypeOK
<1>4. ASSUME NEW c \in Entity, RemoveConnectionOf(c) PROVE IInv'
  <2>1. /\ link' \in [Entity -> Links]
        /\ \A d \in Entity : link'[d] = "open" => link[d] = "open"
        /\ quinn' = quinn /\ room' = room /\ connected' = connected /\ streams' = streams
        /\ order' = order /\ accepted' = accepted /\ failed' = failed
    BY <1>4 DEF RemoveConnectionOf, sender, IInv, TypeOK, Links
  <2> QED BY <2>1, LinkStep DEF IInv, TypeOK
<1>5. ASSUME NEW c \in Entity, PeerReads(c) PROVE IInv'
  <2>1. /\ room' \in [Entity -> 0 .. Window]
        /\ link' = link /\ quinn' = quinn /\ connected' = connected /\ streams' = streams
        /\ order' = order /\ accepted' = accepted /\ failed' = failed
    BY <1>5, WindowAssumption DEF PeerReads, sender, IInv, TypeOK
  <2> QED BY <2>1, LinkStep DEF IInv, TypeOK
<1>6. ASSUME NEW c \in Entity, OtherOpens(c) PROVE IInv'
  BY <1>6, OtherOpensStep
<1>7. ASSUME NEW c \in Entity, NEW queue \in BOOLEAN, Write(c, queue) PROVE IInv'
  BY <1>7, WriteStep
<1>8. CASE Flush
  BY <1>8, FlushStep
<1>9. CASE CloseUnusedStreams
  BY <1>9, CloseUnusedStreamsStep
<1>10. ASSUME NEW graceful \in BOOLEAN, CloseAllStreams(graceful) PROVE IInv'
  BY <1>10, CloseAllStreamsStep
<1>11. CASE UNCHANGED vars
  <2>1. /\ link' = link /\ room' = room /\ quinn' = quinn /\ connected' = connected
        /\ streams' = streams /\ order' = order /\ accepted' = accepted /\ failed' = failed
    BY <1>11 DEF vars, world, sender
  <2> QED BY <2>1, LinkStep DEF IInv, TypeOK
<1> QED
  BY <1>1, <1>2, <1>3, <1>4, <1>5, <1>6, <1>7, <1>8, <1>9, <1>10, <1>11 DEF Next, World

THEOREM Invariance == Spec => []IInv
  BY InitHolds, NextHolds, PTL DEF Spec

\* Every variable keeps its type and the peer's limit on streams is respected.
THEOREM TypeCorrect == Spec => []TypeOK
<1>1. IInv => TypeOK
  BY DEF IInv
<1> QED BY <1>1, Invariance, PTL

\* A stream has what was queued for it up to some point, each unit once and in
\* order, and the queue has the rest, wherever flush and write leave early.
THEOREM NothingLostOrDuplicated == Spec => []Conserved
<1>1. IInv => Conserved
  BY DEF IInv
<1> QED BY <1>1, Invariance, PTL

\* The stream that write uses of the entity's connection is open, until a
\* close_unused_streams has returned an error.
THEOREM OpenStreamsAreWritten == Spec => []KeptIsOpen
<1>1. IInv => KeptIsOpen
  BY DEF IInv
<1> QED BY <1>1, Invariance, PTL

\* No open stream of the sender is left out of its map, until a
\* close_all_streams has returned an error.
THEOREM NoStreamForgotten == Spec => []ForgottenIsClosed
<1>1. IInv => ForgottenIsClosed
  BY DEF IInv
<1> QED BY <1>1, Invariance, PTL

=============================================================================
