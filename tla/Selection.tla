------------------------------ MODULE Selection ------------------------------
(***************************************************************************)
(* What a loop over a slice returns that appends some of its elements to a *)
(* new slice: those elements in their order.  The rate limiter, the ring   *)
(* buffer and what a browser is sent about one container all have one.     *)
(***************************************************************************)
EXTENDS Integers, Sequences, FiniteSets

\* The elements of s at the places in kept: the j-th is at the one with j of
\* those places up to it.
Selected(s, kept) ==
    LET UpTo(i) == Cardinality({h \in kept : h <= i})
    IN  [j \in 1 .. Cardinality(kept) |-> s[CHOOSE i \in kept : UpTo(i) = j]]
=============================================================================
