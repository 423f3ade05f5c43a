----------------------------- MODULE MCSharedSlot -----------------------------
(* TLC instance of SharedSlot: enough writes to come back to a half twice, with  *)
(* pickles of two sizes.                                                         *)
EXTENDS SharedSlot
=============================================================================
