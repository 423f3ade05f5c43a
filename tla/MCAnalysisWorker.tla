-------------------------- MODULE MCAnalysisWorker --------------------------
(* TLC instance of AnalysisWorker: two parameter changes and two clears in any  *)
(* order, with a stride that skips every second round.                          *)
EXTENDS AnalysisWorker
=============================================================================
