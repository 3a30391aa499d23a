--------------------------- MODULE MCMessageStream ---------------------------
(***************************************************************************)
(* Messages for MessageStream.  With groups of 1 bit an id or a length of  *)
(* 2 or more takes two bytes, which a flush or a chunk can then divide.    *)
(***************************************************************************)
EXTENDS MessageStream

\* One of each id, of one byte and of two, and of different lengths.
Payloads == {
    [id |-> 0, payload |-> <<1, 0>>],
    [id |-> 2, payload |-> <<3>>],
    [id |-> 2, payload |-> <<2, 0, 3>>]}

\* Another message, and one of a type without data, of which postcard makes
\* no byte.
WithEmpty == {
    [id |-> 0, payload |-> <<1>>],
    [id |-> 2, payload |-> <<>>]}

=============================================================================
