--------------------------- MODULE DropOldestQueue ---------------------------
(***************************************************************************)
(* What a pending-sample buffer promises its source and its consumer, with *)
(* no ring, index or counter arithmetic in sight: a queue of at most       *)
(* Capacity samples that discards its oldest samples to make room, and     *)
(* hands everything it still holds to the consumer, once and in order.     *)
(* PendingRing is shown to implement it.                                   *)
(*                                                                         *)
(* Samples are numbered 1, 2, 3, ... in the order the source appends them. *)
(***************************************************************************)
EXTENDS Naturals, Sequences

CONSTANTS Capacity, MaxBatch, MaxSamples

VARIABLES
  queue,      \* the samples waiting, oldest first
  produced,   \* how many samples the source has appended so far
  lost,       \* how many of them were discarded to make room
  batch       \* what the last Take handed to the consumer

queueVars == <<queue, produced, lost, batch>>

\* The last Capacity elements of s, all of s when it is shorter.
Newest(s) == IF Len(s) <= Capacity
             THEN s
             ELSE [i \in 1..Capacity |-> s[i + (Len(s) - Capacity)]]

Excess(s) == IF Len(s) <= Capacity THEN 0 ELSE Len(s) - Capacity

Fresh(n) == [i \in 1..n |-> produced + i]

Init == /\ queue = <<>>
        /\ produced = 0
        /\ lost = 0
        /\ batch = <<>>

Put(n) == /\ produced + n <= MaxSamples
          /\ produced' = produced + n
          /\ queue' = Newest(queue \o Fresh(n))
          /\ lost' = lost + Excess(queue \o Fresh(n))
          /\ UNCHANGED batch

Take == /\ batch' = queue
        /\ queue' = <<>>
        /\ UNCHANGED <<produced, lost>>

Next == (\E n \in 1..MaxBatch : Put(n)) \/ Take

Spec == Init /\ [][Next]_queueVars

=============================================================================
