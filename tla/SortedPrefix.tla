---------------------------- MODULE SortedPrefix ----------------------------
(* sorted(s)[:n] of a set of items that are numbered in their order        *)
EXTENDS Naturals, FiniteSets

FirstN(s, n) == {x \in s : Cardinality({y \in s : y < x}) < n}
=============================================================================
