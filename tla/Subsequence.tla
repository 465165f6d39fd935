----------------------------- MODULE Subsequence -----------------------------
(***************************************************************************)
(* A part of a sequence: SelectSeq with a set of positions for its test,   *)
(* written as a recursive function so that it can be reasoned about.       *)
(***************************************************************************)
EXTENDS Integers, Sequences

\* The elements of s at the given positions, in their order.
Picked(s, positions) ==
    LET upto[n \in 0 .. Len(s)] ==
            IF n = 0 THEN << >>
            ELSE IF n \in positions THEN Append(upto[n - 1], s[n]) ELSE upto[n - 1]
    IN upto[Len(s)]
=============================================================================
