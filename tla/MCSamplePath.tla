----------------------------- MODULE MCSamplePath -----------------------------
(* TLC instance of SamplePath: a ring and a history of different small sizes,   *)
(* batches longer than either, and enough samples for several wraps.            *)
EXTENDS SamplePath

=============================================================================
