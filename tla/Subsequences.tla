---------------------------- MODULE Subsequences ----------------------------
(* What a loop over a slice leaves that appends some of its elements to      *)
(* another one. SelectSeq of the standard modules is the same thing, but the *)
(* provers know nothing of it.                                               *)
EXTENDS Integers, FiniteSets

\* How many members of I stand up to i.
Rank(I, i) == Cardinality({j \in I : j <= i})

\* The elements of s at the indices in I, in their order.
AtIndices(s, I) ==
    CHOOSE q \in [1 .. Cardinality(I) -> {s[i] : i \in I}] :
        \A i \in I : q[Rank(I, i)] = s[i]

=============================================================================
