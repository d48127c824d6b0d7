------------------------- MODULE MCReportAggregator -------------------------
(* Report aggregators small enough for TLC.  The first has three signatures *)
(* for a cache of two entries, and an important operation; the second is    *)
(* smaller, for the run that checks a liveness property.                    *)
EXTENDS ReportAggregator, TLC

CONSTANTS o1, o2, o3, o4, o5, s1, s2, s3

MCOps == {o1, o2, o3, o4, o5}
MCKeys == {s1, s2, s3}
MCSigOf == (o1 :> s1) @@ (o2 :> s1) @@ (o3 :> s2) @@ (o4 :> s3) @@ (o5 :> s2)
MCImportant == {o5}

MCFewOps == {o1, o2, o3}
MCFewKeys == {s1, s2}
MCFewSigOf == (o1 :> s1) @@ (o2 :> s1) @@ (o3 :> s2)
=============================================================================
