------------------------------- MODULE Filter -------------------------------
(***************************************************************************)
(* The filter of a sequence, which is what Iterator::filter, Vec::retain   *)
(* and a loop with a `continue` do.  Sequences has SelectSeq for it, but no *)
(* prover knows that operator; this one is a recursive function, and        *)
(* SequenceLemmas proves what it does.                                      *)
(***************************************************************************)
EXTENDS Naturals, Sequences

\* The elements of s that are in T, in their order.
Keep(s, T) ==
  LET kept[n \in 0..Len(s)] ==
        IF n = 0 THEN <<>>
        ELSE IF s[n] \in T THEN Append(kept[n - 1], s[n]) ELSE kept[n - 1]
  IN  kept[Len(s)]
=============================================================================
