------------------------------- MODULE Picking -------------------------------
(***************************************************************************)
(* Some of the elements of a sequence, by their positions.  It is what     *)
(* SelectSeq would do by their values, as a recursive function, of which   *)
(* the proofs can speak (PickingProofs.tla).  Sums are written likewise.    *)
(***************************************************************************)
EXTENDS Naturals, Sequences

\* The elements of s at the positions `kept', in their order.
Picked(s, kept) ==
    LET upto[k \in 0 .. Len(s)] ==
            IF k = 0 THEN <<>>
            ELSE IF k \in kept THEN Append(upto[k - 1], s[k])
            ELSE upto[k - 1]
    IN  upto[Len(s)]

\* What the first elements of a sequence of numbers come to, for each number
\* of them.
Sums(amounts) ==
    LET sum[k \in 0 .. Len(amounts)] ==
            IF k = 0 THEN 0 ELSE sum[k - 1] + amounts[k]
    IN  sum

=============================================================================
