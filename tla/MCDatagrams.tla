----------------------------- MODULE MCDatagrams -----------------------------
(***************************************************************************)
(* Datagrams for TLC: its payloads are alike, and permuting them permutes  *)
(* the behaviours.                                                         *)
(***************************************************************************)
EXTENDS Datagrams, TLC

Symmetry == Permutations(Datagram)

=============================================================================
