----------------------------- MODULE HistoryRing -----------------------------
(***************************************************************************)
(* The fixed-size history a consumer keeps of the samples it drained:      *)
(* SignalRingHistory of vesc_py/live_signal.py and SignalBatchHistory of   *)
(* yalsa/app.py, which keeps one such array per channel with shared        *)
(* indices.  It has no read index: the oldest sample's slot is computed    *)
(* from the write index and the count, and no lock: its owner is one       *)
(* thread.                                                                 *)
(***************************************************************************)
EXTENDS Integers, Sequences

CONSTANT HistoryCapacity

ASSUME HistoryCapacityAssumption == HistoryCapacity \in Nat \ {0}  \* else: ValueError

VARIABLES
  history,      \* _timestamps and _values
  historyWrite, \* _write_index
  historyCount, \* _count
  heard         \* history variable: every sample appended since the last clear

historyRingVars == <<history, historyWrite, historyCount, heard>>

HistorySlots == 0..HistoryCapacity - 1

HistoryInit ==
  /\ history = [i \in HistorySlots |-> 0]
  /\ historyWrite = 0
  /\ historyCount = 0
  /\ heard = <<>>

\* The slot of an index that ran past either end of the arrays; Python's % and
\* this one agree on negative indices.
HistorySlot(x) == x % HistoryCapacity

\* A batch of at least HistoryCapacity samples: the newest of them, from slot 0.
KeepTail(samples) ==
  /\ Len(samples) >= HistoryCapacity
  /\ history' = [i \in HistorySlots |->
                   samples[Len(samples) - HistoryCapacity + i + 1]]
  /\ historyCount' = HistoryCapacity
  /\ historyWrite' = 0

\* Mutant of Placed: the remainder past the end of the arrays is lost.
PlacedMutant(samples) ==
  [i \in HistorySlots |->
    IF historyWrite <= i /\ i < historyWrite + Len(samples)
    THEN samples[i - historyWrite + 1]
    ELSE history[i]]

\* The part up to the end of the arrays, then the remainder from slot 0.
Placed(samples) ==
  LET n     == Len(samples)
      first == IF n <= HistoryCapacity - historyWrite
               THEN n ELSE HistoryCapacity - historyWrite
  IN [i \in HistorySlots |->
       IF historyWrite <= i /\ i < historyWrite + first
       THEN samples[i - historyWrite + 1]
       ELSE IF i < n - first THEN samples[first + i + 1]
       ELSE history[i]]

Place(samples) ==
  /\ Len(samples) < HistoryCapacity
  /\ history' = Placed(samples)
  /\ historyWrite' = HistorySlot(historyWrite + Len(samples))
  /\ historyCount' = IF historyCount + Len(samples) <= HistoryCapacity
                     THEN historyCount + Len(samples) ELSE HistoryCapacity

\* append_samples and append_batch; an empty batch returns early, which is
\* Place's no-op.
HistoryAppend(samples) ==
  /\ KeepTail(samples) \/ Place(samples)
  /\ heard' = heard \o samples

\* clear: the arrays keep their old samples, beyond the count.
HistoryClear ==
  /\ historyCount' = 0
  /\ historyWrite' = 0
  /\ heard' = <<>>
  /\ UNCHANGED history

\* Mutant of Ordered: the ring is read from its write index, as if it were full.
OrderedMutant ==
  [k \in 1..historyCount |-> history[HistorySlot(historyWrite + k - 1)]]

\* valid_timestamps, valid_values and snapshot: one slice, or the slice up to the
\* end of the arrays joined with the slots before the write index.
Ordered ==
  LET start == HistorySlot(historyWrite - historyCount)
      first == HistoryCapacity - start
  IN IF historyCount <= first
     THEN [k \in 1..historyCount |-> history[start + k - 1]]
     ELSE [k \in 1..first + historyWrite |->
            IF k <= first THEN history[start + k - 1] ELSE history[k - 1 - first]]

-----------------------------------------------------------------------------
(* Properties *)

HistoryTypeOK ==
  /\ history \in [HistorySlots -> Nat]
  /\ historyWrite \in HistorySlots
  /\ historyCount \in 0..HistoryCapacity
  /\ heard \in Seq(Nat)

\* The snapshot an analysis reads is exactly the newest HistoryCapacity samples
\* appended since the last clear, in order: nothing from before a clear, nothing
\* overwritten, nothing out of order at a wrap.
HistoryIsNewest ==
  /\ historyCount = IF Len(heard) <= HistoryCapacity THEN Len(heard) ELSE HistoryCapacity
  /\ Ordered = [k \in 1..historyCount |-> heard[Len(heard) - historyCount + k]]

\* Its inductive form, slot by slot.
HistorySlotsInOrder ==
  /\ historyCount = IF Len(heard) <= HistoryCapacity THEN Len(heard) ELSE HistoryCapacity
  /\ \A k \in 1..historyCount :
       history[HistorySlot(historyWrite - k)] = heard[Len(heard) + 1 - k]

HistoryInv == HistoryTypeOK /\ HistorySlotsInOrder

=============================================================================
