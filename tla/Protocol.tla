------------------------------- MODULE Protocol -------------------------------
(***************************************************************************)
(* Protocols of crates/nevy_messages (protocol.rs): the ids that the types *)
(* of messages get while an application is built.  An id is a position, so *)
(* that two applications understand each other only if they assign the     *)
(* same ones.  A program is the sequence of calls of ProtocolBuilder that  *)
(* an application makes; the client's and the server's run independently.  *)
(*                                                                         *)
(* An operator marked "Faulty" is a plausible bug in the operator after it *)
(* and is used nowhere: substituted for it, it breaks the named property.  *)
(***************************************************************************)
EXTENDS Naturals, Sequences, SequencesExt, Selections

CONSTANTS
    Type,       \* the types of messages
    Proto,      \* the protocols, which are types too
    Programs    \* pairs of programs, [Side -> Seq(Call)]

Side == {"client", "server"}

Call ==
    [op : {"init"}, protocol : Proto]
        \cup [op : {"add"}, protocol : Proto, type : Type]
        \cup [op : {"include"}, protocol : Proto, other : Proto]

\* They are types of a program's text.
ASSUME FiniteAssumption == IsFiniteSet(Type) /\ IsFiniteSet(Proto)
ASSUME ProgramsAssumption == Programs \subseteq [Side -> Seq(Call)]

VARIABLES
    program,        \* side -> the calls that its application makes
    done,           \* side -> how many of them have been made
    state,          \* side -> "building", "running" or "panicked"
    initialized,    \* side -> the protocols with a ProtocolEntity and observers
    built,          \* side -> the types with an observer and a system
    messages,       \* side -> protocol -> Protocol::messages
    lookup          \* side -> protocol -> Protocol::lookup

protocols == <<messages, lookup>>
building == <<program, done, state, initialized, built, protocols>>

ProtocolInit ==
    /\ program \in Programs
    /\ done = [s \in Side |-> 0]
    /\ state = [s \in Side |-> "building"]
    /\ initialized = [s \in Side |-> {}]
    /\ built = [s \in Side |-> {}]
    /\ messages = [s \in Side |-> [p \in Proto |-> <<>>]]
    /\ lookup = [s \in Side |-> [p \in Proto |-> <<>>]]

-----------------------------------------------------------------------------

\* The call that s makes next.
NextCall(s) == program[s][done[s] + 1]

Calls(s, op) ==
    /\ state[s] = "building"
    /\ done[s] < Len(program[s])
    /\ NextCall(s).op = op
    /\ done' = [done EXCEPT ![s] = @ + 1]
    /\ UNCHANGED program

\* A call that finds something wrong panics, which ends the application.
Panic(s) ==
    /\ state' = [state EXCEPT ![s] = "panicked"]
    /\ UNCHANGED <<initialized, built, protocols>>

InitProtocol(s) ==
    /\ Calls(s, "init")
    /\ LET p == NextCall(s).protocol IN
       IF p \in initialized[s]
       THEN Panic(s)
       ELSE /\ initialized' = [initialized EXCEPT ![s] = @ \cup {p}]
            /\ UNCHANGED <<state, built, protocols>>

\* Faulty (SameCallsSameIds): ids count what the application has built.
NextIdBuilt(s, p) == Cardinality(built[s])

\* The id that a new message of the protocol gets.
NextId(s, p) == Len(messages[s][p])

\* Protocol::lookup with the types of `new` at the next ids, in their order.
WithIds(s, p, new) ==
    [t \in DOMAIN lookup[s][p] \cup ToSet(new) |->
        IF t \in ToSet(new)
        THEN NextId(s, p) + (CHOOSE i \in DOMAIN new : new[i] = t) - 1
        ELSE lookup[s][p][t]]

\* Faulty (TypeOK): build_message is not called.
BuiltNot(s, t) == built[s]

\* build_message registers the observer and the system of the type.
BuildMessage(s, t) == built[s] \cup {t}

AddProtocolMessage(s) ==
    /\ Calls(s, "add")
    /\ LET p == NextCall(s).protocol
           t == NextCall(s).type
       IN  IF p \notin initialized[s] \/ t \in DOMAIN lookup[s][p]
           THEN Panic(s)
           ELSE /\ messages' = [messages EXCEPT ![s][p] = Append(@, t)]
                /\ lookup' = [lookup EXCEPT ![s][p] = WithIds(s, p, <<t>>)]
                /\ built' = [built EXCEPT ![s] = BuildMessage(s, t)]
                /\ UNCHANGED <<state, initialized>>

\* Faulty (LookupIsInverse): a message that is there already is added again.
MissingAny(s, p, o) == messages[s][o]

\* The messages of o that p does not have, in their order.
Missing(s, p, o) == Only(messages[s][o], Type \ DOMAIN lookup[s][p])

\* Faulty (IdsAreStable): the included messages go first.
ExtendedInFront(own, new) == new \o own

Extended(own, new) == own \o new

\* The messages come with the types' observers and systems, which adding them
\* to the other protocol has made.
IncludeProtocol(s) ==
    /\ Calls(s, "include")
    /\ LET p == NextCall(s).protocol
           o == NextCall(s).other
           new == Missing(s, p, o)
       IN  IF {p, o} \subseteq initialized[s]
           THEN /\ messages' = [messages EXCEPT ![s][p] = Extended(@, new)]
                /\ lookup' = [lookup EXCEPT ![s][p] = WithIds(s, p, new)]
                /\ UNCHANGED <<state, initialized, built>>
           ELSE Panic(s)

\* App::run.
Run(s) ==
    /\ state[s] = "building"
    /\ done[s] = Len(program[s])
    /\ state' = [state EXCEPT ![s] = "running"]
    /\ UNCHANGED <<program, done, initialized, built, protocols>>

Build(s) == InitProtocol(s) \/ AddProtocolMessage(s) \/ IncludeProtocol(s) \/ Run(s)

-----------------------------------------------------------------------------
(* Properties. *)

\* The types of the variables; each type of a protocol is built.
ProtocolTypeOK ==
    /\ program \in Programs
    /\ done \in [Side -> Nat]
    /\ state \in [Side -> {"building", "running", "panicked"}]
    /\ initialized \in [Side -> SUBSET Proto]
    /\ built \in [Side -> SUBSET Type]
    /\ messages \in [Side -> [Proto -> Seq(Type)]]
    /\ \A s \in Side, p \in Proto : ToSet(messages[s][p]) \subseteq built[s]

\* Within a protocol ids and types determine each other: deserialize_messages
\* and write go by lookup, and the other end counts positions.
LookupIsInverse ==
    \A s \in Side, p \in Proto :
        /\ DOMAIN lookup[s][p] = ToSet(messages[s][p])
        /\ \A i \in DOMAIN messages[s][p] : lookup[s][p][messages[s][p][i]] = i - 1

\* An id once assigned stays, whatever is added or included later.
IdsAreStable ==
    [][\A s \in Side, p \in Proto : IsPrefix(messages[s][p], messages'[s][p])]_building

\* The calls of a program on one protocol.
CallsOn(p, calls) == Only(calls, {call \in Call : call.protocol = p})

\* A protocol is complete before another one includes it.
CompleteWhenIncluded(calls) ==
    \A i, j \in DOMAIN calls :
        calls[i].op = "include" /\ calls[j].protocol = calls[i].other => j < i

\* "The order you include other protocols and add individual messages is what
\* defines the protocol" (protocol.rs:65).  Applications that make the same
\* calls on each protocol assign the same ids, however the calls on different
\* protocols alternate, if each protocol is complete before it is included.
SameCallsSameIds ==
    (/\ \A s \in Side : state[s] = "running" /\ CompleteWhenIncluded(program[s])
     /\ \A p \in Proto : CallsOn(p, program["client"]) = CallsOn(p, program["server"]))
    => lookup["client"] = lookup["server"]

=============================================================================
