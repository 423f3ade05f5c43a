---------------------------- MODULE MCLiveAnalysis ----------------------------
(* TLC instance of LiveAnalysis: two parameter changes, and two failures of any  *)
(* of the processes at any step.                                                 *)
EXTENDS LiveAnalysis
=============================================================================
