------------------------------ MODULE Positions ------------------------------
(***************************************************************************)
(* Some of the entries of a sequence, in their order.  SelectSeq and        *)
(* SetToSortSeq come to the same; these say it by the number of elements    *)
(* before an element, without recursion, so that it can be reasoned about.  *)
(***************************************************************************)
EXTENDS Naturals, FiniteSets

(* The numbers in K, the smallest first.                                    *)
Ascending(K) ==
  [n \in 1..Cardinality(K) |-> CHOOSE i \in K : Cardinality({j \in K : j <= i}) = n]

(* The entries of s at the positions in K.                                  *)
Picked(s, K) == [n \in 1..Cardinality(K) |-> s[Ascending(K)[n]]]
=============================================================================
