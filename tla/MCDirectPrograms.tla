--------------------------- MODULE MCDirectPrograms ----------------------------
(* DirectPrograms with a queue of two samples and two restart attempts.      *)
EXTENDS DirectPrograms
=============================================================================
