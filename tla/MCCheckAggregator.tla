------------------------- MODULE MCCheckAggregator -------------------------
(* Check aggregators small enough for TLC: two signatures compete for a     *)
(* cache of one entry or share one of two, and several requests share one.  *)
EXTENDS CheckAggregator, TLC

CONSTANTS r1, r2, r3, r4, s1, s2, none, ok, error, blank

MCReqs == {r1, r2, r3, r4}
MCKeys == {s1, s2}
MCSigOf == (r1 :> s1) @@ (r2 :> s1) @@ (r3 :> s1) @@ (r4 :> s2)

=============================================================================
