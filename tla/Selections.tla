------------------------------ MODULE Selections ------------------------------
(***************************************************************************)
(* What a filter keeps of a sequence, as Iterator::filter does: the members *)
(* of a set, in their order.  It is a function of the length looked at so   *)
(* far, which the proofs can follow step by step.                           *)
(***************************************************************************)
EXTENDS Naturals, Sequences

KeptUpTo(seq, S) ==
  LET kept[n \in 0..Len(seq)] ==
        IF n = 0 THEN << >>
        ELSE IF seq[n] \in S THEN Append(kept[n-1], seq[n]) ELSE kept[n-1]
  IN kept

Kept(seq, S) == KeptUpTo(seq, S)[Len(seq)]
=============================================================================
