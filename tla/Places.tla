------------------------------- MODULE Places -------------------------------
(***************************************************************************)
(* Choosing places of a sequence and putting things in order: what a       *)
(* filter and a sort do, given by ranks and not by recursion, which the    *)
(* provers could not reason about.                                         *)
(***************************************************************************)
EXTENDS Integers, Sequences, FiniteSets

(* The k-th of the numbers in S.                                           *)
Nth(S, k) == CHOOSE n \in S : Cardinality({m \in S : m <= n}) = k

(* What a sequence has at the places in S, in their order.                 *)
Picked(s, S) == [k \in 1 .. Cardinality(S) |-> s[Nth(S, k)]]

(* S in the order in which R, a set of pairs, puts it.                     *)
Ranked(S, R) ==
    [k \in 1 .. Cardinality(S) |->
        CHOOSE n \in S : Cardinality({m \in S : <<m, n>> \in R}) = k]
=============================================================================
