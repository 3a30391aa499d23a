------------------------------ MODULE Selections ------------------------------
(***************************************************************************)
(* The subsequence of the elements that belong to a set: SelectSeq of the  *)
(* standard module, with a set in place of the test.  SelectionsProofs     *)
(* says what it yields.                                                    *)
(***************************************************************************)
EXTENDS Naturals, Sequences

Only(seq, S) ==
    LET kept[n \in 0 .. Len(seq)] ==
            IF n = 0 THEN <<>>
            ELSE IF seq[n] \in S THEN Append(kept[n - 1], seq[n])
            ELSE kept[n - 1]
    IN  kept[Len(seq)]

=============================================================================
