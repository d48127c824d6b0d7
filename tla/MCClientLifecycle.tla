------------------------- MODULE MCClientLifecycle -------------------------
(* A client small enough for TLC.                                           *)
EXTENDS ClientLifecycle, TLC

CONSTANTS app1, app2, rep1, rep2

MCConfigs == {{}, {"cache"}, {"cache", "report"}, {"cache", "check", "report"}}
=============================================================================
