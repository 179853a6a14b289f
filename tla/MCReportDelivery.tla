-------------------------- MODULE MCReportDelivery --------------------------
(* Instances of ReportDelivery for TLC.                                     *)
EXTENDS ReportDelivery, TLC

CONSTANTS s1, s2

DraftKeyEach == [s \in Subs |-> s]
Interchangeable ==
  Permutations(Workers) \cup Permutations(Subs) \cup Permutations(Keys)
=============================================================================
