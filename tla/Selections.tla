----------------------------- MODULE Selections -----------------------------
(***************************************************************************)
(* The elements of a sequence that are in a set, as a function of the      *)
(* position a loop over the sequence has reached.  It is SelectSeq, in a   *)
(* form that proofs can look into.                                         *)
(***************************************************************************)
EXTENDS Naturals, Sequences

\* What a loop over s has selected when it has passed position i.
SelectedUpTo(s, S) ==
    LET upTo[i \in 0 .. Len(s)] ==
            IF i = 0 THEN <<>>
            ELSE IF s[i] \in S THEN Append(upTo[i - 1], s[i])
            ELSE upTo[i - 1]
    IN  upTo

Selected(s, S) == SelectedUpTo(s, S)[Len(s)]
=============================================================================
