------------------------------ MODULE SamplePath ------------------------------
(***************************************************************************)
(* A sample's way from a source thread to the analysis: the source appends *)
(* to its pending ring; the consumer thread drains the ring (drain copies, *)
(* and gives the lock back), and then appends what it got to its history,  *)
(* while the source goes on appending.  The consumer clears its history    *)
(* between two such rounds.  _LiveAnalysisWorker._run in yalsa/app.py is   *)
(* the consumer modelled; it drains again only after it has appended.      *)
(***************************************************************************)
EXTENDS PendingRing, HistoryRing

VARIABLE inHand   \* the consumer has drained and not yet appended to its history

pathVars == <<pendingVars, historyRingVars, inHand>>

PathInit == Init /\ HistoryInit /\ inHand = FALSE

SourceAppends == /\ \E n \in 1..MaxBatch : AppendMany(n)
                 /\ UNCHANGED <<historyRingVars, inHand>>

ConsumerDrains == /\ ~inHand
                  /\ Drain
                  /\ inHand' = TRUE
                  /\ UNCHANGED historyRingVars

ConsumerAppends == /\ inHand
                   /\ HistoryAppend(batch)
                   /\ inHand' = FALSE
                   /\ UNCHANGED pendingVars

ConsumerClears == /\ ~inHand
                  /\ HistoryClear
                  /\ UNCHANGED <<pendingVars, inHand>>

PathNext == SourceAppends \/ ConsumerDrains \/ ConsumerAppends \/ ConsumerClears

PathSpec == PathInit /\ [][PathNext]_pathVars

-----------------------------------------------------------------------------
(* Properties *)

\* What an analysis sees of dropped samples: its history is strictly in the order
\* of the source, and the samples missing between its first and its last are no
\* more than the drops the drains so far have reported to it.
GapsAreReported ==
  /\ \A i \in 1..Len(heard) - 1 : heard[i] < heard[i + 1]
  /\ historyCount > 0 =>
       Ordered[historyCount] - Ordered[1] + 1 - historyCount <= reported

=============================================================================
