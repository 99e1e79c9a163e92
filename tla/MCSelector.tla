------------------------------ MODULE MCSelector -----------------------------
(* Two nodes at first and a third that may come, a thread that picks by    *)
(* weight and one that picks by hash.                                      *)
EXTENDS Selector

CONSTANTS n1, n2, n3

MCNodes == {n1, n2, n3}
MCInitial == <<n1, n2>>
MCWeight == [n \in MCNodes |-> IF n = n1 THEN 2 ELSE 1]
MCPoints == 1..5
MCPlace == [n \in MCNodes |-> CASE n = n1 -> {1, 4} [] n = n2 -> {2, 5} [] n = n3 -> {3}]
MCKeys == 0..6
MCHash == [k \in MCKeys |-> k]
=============================================================================
