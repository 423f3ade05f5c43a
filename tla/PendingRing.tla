----------------------------- MODULE PendingRing -----------------------------
(***************************************************************************)
(* The overwrite ring between a source thread and its consumer:            *)
(* PendingSignalBuffer of vesc_py/live_signal.py, and PendingImuStream-    *)
(* Buffer of vesc_py/imu_streamer.py, which applies the same index         *)
(* arithmetic to rows of six channels.                                     *)
(*                                                                         *)
(* Both operations hold the buffer's lock from their first read of the     *)
(* indices to their last write, so each is one action.  The timestamp and  *)
(* value arrays are always written and read with the same bounds: a slot   *)
(* of `ring' stands for one entry of each.  A sample is its number in the  *)
(* order of appending, and a slot no sample was written to holds 0, which  *)
(* is what np.zeros leaves there.                                          *)
(***************************************************************************)
EXTENDS Integers, Sequences

CONSTANTS
  Capacity,    \* the constructor's capacity
  MaxBatch,    \* bound: samples in one append_many
  MaxSamples   \* bound: samples appended in a behaviour

ASSUME CapacityAssumption == Capacity \in Nat \ {0}   \* else: ValueError
ASSUME BoundsAssumption   == MaxBatch \in Nat /\ MaxSamples \in Nat

VARIABLES
  ring,                \* _timestamps and _values
  readIndex,           \* _read_index
  writeIndex,          \* _write_index
  count,               \* _count
  dropped,             \* _dropped: since the last drain
  cumulativeDropped,   \* _cumulative_dropped
  batch,               \* the samples the last drain returned
  \* history variables
  produced,            \* samples appended so far
  consumed,            \* samples returned by all drains so far
  reported             \* the interval drops all drains returned, summed

ringVars    == <<ring, readIndex, writeIndex, count, dropped, cumulativeDropped>>
historyVars == <<produced, consumed, reported>>
pendingVars == <<ringVars, batch, historyVars>>

Slots == 0..Capacity - 1

\* The slot an index falls on after it runs past the end of the arrays.
Slot(x) == x % Capacity

Least(a, b) == IF a <= b THEN a ELSE b

Init ==
  /\ ring = [i \in Slots |-> 0]
  /\ readIndex = 0
  /\ writeIndex = 0
  /\ count = 0
  /\ dropped = 0
  /\ cumulativeDropped = 0
  /\ batch = <<>>
  /\ produced = 0
  /\ consumed = 0
  /\ reported = 0

-----------------------------------------------------------------------------
(* append_many *)

\* Mutant of AppendFull: the head of the batch is kept, not its tail.
AppendFullMutant(n) ==
  LET drop == count + n - Capacity IN
  /\ n >= Capacity
  /\ ring' = [i \in Slots |-> produced + i + 1]
  /\ readIndex' = 0
  /\ writeIndex' = 0
  /\ count' = Capacity
  /\ dropped' = dropped + drop
  /\ cumulativeDropped' = cumulativeDropped + drop

\* A batch at least as long as the ring replaces everything in it.
AppendFull(n) ==
  LET drop == count + n - Capacity IN
  /\ n >= Capacity
  /\ ring' = [i \in Slots |-> produced + (n - Capacity) + i + 1]
  /\ readIndex' = 0
  /\ writeIndex' = 0
  /\ count' = Capacity
  /\ dropped' = dropped + drop
  /\ cumulativeDropped' = cumulativeDropped + drop

\* Mutant of Overflow: the end of the arrays is taken for a full ring.
OverflowMutant(n) == IF n > Capacity - writeIndex THEN n - (Capacity - writeIndex) ELSE 0

Overflow(n) == IF count + n > Capacity THEN count + n - Capacity ELSE 0

\* The slots of a shorter batch: the part up to the end of the arrays, then the
\* remainder from slot 0.
Written(n) ==
  LET first == Least(n, Capacity - writeIndex) IN
  [i \in Slots |->
    IF writeIndex <= i /\ i < writeIndex + first THEN produced + 1 + (i - writeIndex)
    ELSE IF i < n - first                        THEN produced + 1 + first + i
    ELSE ring[i]]

\* Mutant of AppendPart: the samples written over are not counted as dropped.
AppendPartMutant(n) ==
  /\ n < Capacity
  /\ ring' = Written(n)
  /\ readIndex' = Slot(readIndex + Overflow(n))
  /\ writeIndex' = Slot(writeIndex + n)
  /\ count' = Least(Capacity, count + n)
  /\ UNCHANGED <<dropped, cumulativeDropped>>

AppendPart(n) ==
  /\ n < Capacity
  /\ ring' = Written(n)
  /\ readIndex' = Slot(readIndex + Overflow(n))
  /\ writeIndex' = Slot(writeIndex + n)
  /\ count' = Least(Capacity, count + n)
  /\ dropped' = dropped + Overflow(n)
  /\ cumulativeDropped' = cumulativeDropped + Overflow(n)

AppendMany(n) ==
  /\ produced + n <= MaxSamples
  /\ AppendFull(n) \/ AppendPart(n)
  /\ produced' = produced + n
  /\ UNCHANGED <<batch, consumed, reported>>

-----------------------------------------------------------------------------
(* drain *)

\* _pending_arrays_locked, and the copy drain makes itself: one slice, or two
\* joined when the pending samples wrap around the end of the arrays.
PendingArrays ==
  IF readIndex + count <= Capacity
  THEN [k \in 1..count |-> ring[readIndex + k - 1]]
  ELSE LET first == Capacity - readIndex IN
       [k \in 1..count |-> IF k <= first THEN ring[readIndex + k - 1]
                                         ELSE ring[k - 1 - first]]

\* Mutant of Drain: the read index stays behind.
DrainMutant ==
  /\ batch' = PendingArrays
  /\ count' = 0
  /\ dropped' = 0
  /\ consumed' = consumed + count
  /\ reported' = reported + dropped
  /\ UNCHANGED <<ring, readIndex, writeIndex, cumulativeDropped, produced>>

\* The empty buffer returns early and leaves _read_index alone; there
\* _read_index = _write_index already.
Drain ==
  /\ batch' = PendingArrays
  /\ count' = 0
  /\ readIndex' = IF count = 0 THEN readIndex ELSE writeIndex
  /\ dropped' = 0
  /\ consumed' = consumed + count
  /\ reported' = reported + dropped
  /\ UNCHANGED <<ring, writeIndex, cumulativeDropped, produced>>

Next == (\E n \in 1..MaxBatch : AppendMany(n)) \/ Drain

Spec == Init /\ [][Next]_pendingVars

-----------------------------------------------------------------------------
(* Properties *)

TypeOK ==
  /\ ring \in [Slots -> Nat]
  /\ readIndex \in Slots
  /\ writeIndex \in Slots
  /\ count \in 0..Capacity
  /\ dropped \in Nat
  /\ cumulativeDropped \in Nat
  /\ batch \in Seq(Nat)
  /\ produced \in Nat
  /\ consumed \in Nat
  /\ reported \in Nat

\* Every sample a source appended is in exactly one place: handed to a
\* consumer, still pending, or counted as dropped; and every drop is reported
\* by exactly one drain or still waits in _dropped to be.
Accounting ==
  /\ produced = consumed + count + cumulativeDropped
  /\ cumulativeDropped = reported + dropped

\* The ring always holds the newest `count' samples in order, wherever its read
\* index stands: what append_many discards is the oldest, at every wrap.
HoldsNewest ==
  PendingArrays = [k \in 1..count |-> produced - count + k]

\* The inductive invariant: the two indices and the count describe the same
\* run of slots, and slot (readIndex + k) mod Capacity holds the k-th pending sample.
IndicesAgree == writeIndex = Slot(readIndex + count)

SlotsInOrder ==
  \A k \in 0..count - 1 :
    ring[Slot(readIndex + k)] = produced - count + 1 + k

RingInv == TypeOK /\ IndicesAgree /\ SlotsInOrder /\ Accounting

\* A drain hands out consecutive samples, the newest appended last, and no
\* sample that an earlier drain handed out: `consumed + cumulativeDropped' is
\* the number of the last sample already gone.
DrainsInOrder ==
  [][ batch' # batch =>
        \A k \in DOMAIN batch' : batch'[k] = consumed + cumulativeDropped + k ]_pendingVars

\* The ring implements the drop-oldest queue.
Queue == INSTANCE DropOldestQueue WITH
           queue <- PendingArrays, lost <- cumulativeDropped

ImplementsQueue == Queue!Spec

=============================================================================
