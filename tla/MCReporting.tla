----------------------------- MODULE MCReporting -----------------------------
(* Three configured tests, one of which cannot run here, two polls for each, *)
(* two collectors and a table for two results.                               *)
EXTENDS Reporting

CONSTANTS t1, t2, t3

MCTests == <<t1, t2, t3>>

MCSymmetry == Permutations(Collector)
=============================================================================
