--------------------------- MODULE MCVarIntChannel ---------------------------
(***************************************************************************)
(* Values for VarIntChannel.  With groups of 2 bits and a limit of 2 bytes *)
(* an integer has at most 7 bits, of which the last byte carries 3.        *)
(***************************************************************************)
EXTENDS VarIntChannel

\* The integers that fit the groups of Limit + 1 bytes.
Small == 0 .. Power[GroupBits * (Limit + 1)] - 1

=============================================================================
