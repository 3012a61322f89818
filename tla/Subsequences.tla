---------------------------- MODULE Subsequences ----------------------------
(***************************************************************************)
(* The elements of a sequence that belong to a set, in their order:         *)
(* SelectSeq, as a recursive function that proofs can be built on.          *)
(***************************************************************************)
EXTENDS Integers, Sequences

OnlyIn(s, S) ==
    LET only[i \in 0..Len(s)] ==
          IF i = 0 THEN <<>>
          ELSE IF s[i] \in S THEN Append(only[i-1], s[i]) ELSE only[i-1]
    IN  only[Len(s)]
=============================================================================
