------------------------------ MODULE MCReports ------------------------------
(* Reports, from the aggregator that caches them to what merging computes:   *)
(* the report aggregator beside the sequential parts.  They share no state:  *)
(* a behaviour is one of one part.                                           *)
EXTENDS MCReportAggregator, MCAlgorithms

algorithms == <<distVars, moneyVars, mergeVars, registryVars, rulesVars>>

ReportsInit == Init /\ MCInit

ReportsNext ==
  \/ part = "aggregator" /\ Next /\ UNCHANGED <<part, algorithms>>
  \/ MCNext /\ UNCHANGED vars

ReportsSpec == ReportsInit /\ [][ReportsNext]_<<vars, part, algorithms>>
=============================================================================
