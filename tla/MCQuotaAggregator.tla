------------------------- MODULE MCQuotaAggregator -------------------------
(* A quota aggregator small enough for TLC: two signatures and a cache of   *)
(* one or two entries; three requests share a signature.                    *)
EXTENDS QuotaAggregator

CONSTANTS r1, r2, r3, r4, s1, s2, none, ok, error, temp, dummy

MCReqs == {r1, r2, r3, r4}
MCKeys == {s1, s2}
MCSigOf == [r \in MCReqs |-> IF r = r4 THEN s2 ELSE s1]
SameSignature == Permutations({r1, r2, r3})
=============================================================================
