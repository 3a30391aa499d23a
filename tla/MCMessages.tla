------------------------------ MODULE MCMessages ------------------------------
(***************************************************************************)
(* Programs for Messages.  The application's protocol is P, and O is one of *)
(* a plugin that P includes.                                                *)
(***************************************************************************)
EXTENDS Messages

CONSTANTS A, B, P, O

Start == <<[op |-> "init", protocol |-> P], [op |-> "init", protocol |-> O]>>
Add(p, t) == [op |-> "add", protocol |-> p, type |-> t]
Include(p, o) == [op |-> "include", protocol |-> p, other |-> o]

\* P has a message of its own and O's.
OwnThenPlugin == Start \o <<Add(O, B), Add(P, A), Include(P, O)>>

\* The same calls on each protocol as OwnThenPlugin, otherwise alternated.
OwnFirst == Start \o <<Add(P, A), Add(O, B), Include(P, O)>>

\* A message of both protocols.
Shared == Start \o <<Add(O, B), Add(O, A), Add(P, A), Include(P, O)>>

\* P includes O before it is complete.
Early == Start \o <<Add(P, A), Include(P, O), Add(O, B)>>

\* A call that panics.
Twice == Start \o <<Add(P, A), Add(P, A)>>

Both(c, s) == [side \in Side |-> IF side = "client" THEN c ELSE s]

\* In the first pair the ends agree.  In the second the client's P has a
\* message more than the server's, in the third the server does not run.
AllPrograms == {
    Both(OwnThenPlugin, OwnFirst), Both(OwnFirst, Early), Both(Shared, Twice)}

TypeSet == {A, B}
ProtoSet == {P, O}

=============================================================================
