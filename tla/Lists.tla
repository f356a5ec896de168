------------------------------- MODULE Lists --------------------------------
(***************************************************************************)
(* Two operations on lists that several models use, written so that they   *)
(* can be reasoned about without induction over the list.                  *)
(***************************************************************************)
EXTENDS Integers, Sequences, FiniteSets

\* The elements of a finite set of numbers, in order (std::sort).
Ascending(S) ==
    [i \in 1..Cardinality(S) |-> CHOOSE x \in S : Cardinality({y \in S : y < x}) = i - 1]

\* The entries of s that lie in S, in the order they have there: what
\* std::list::remove leaves of a list.
Only(s, S) ==
    LET kept == Ascending({i \in 1..Len(s) : s[i] \in S})
    IN  [n \in 1..Len(kept) |-> s[kept[n]]]
=============================================================================
