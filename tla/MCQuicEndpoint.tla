--------------------------- MODULE MCQuicEndpoint ---------------------------
(***************************************************************************)
(* Model values for QuicEndpoint.  Entities are alike and so are handles,  *)
(* which the runs that check no liveness use as symmetry.                  *)
(***************************************************************************)
EXTENDS QuicEndpoint, TLC

Symmetry == Permutations(Entity) \cup Permutations(Handle)

=============================================================================
