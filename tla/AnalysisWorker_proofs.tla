------------------------ MODULE AnalysisWorker_proofs ------------------------
(***************************************************************************)
(* What a clear and a change of parameters mean for the results, for every *)
(* stride and any number of changes and clears.                            *)
(***************************************************************************)
EXTENDS AnalysisWorker, TLAPS

\* The type invariant in two parts: Zenon proves the Boolean one, Z3 the other.
Flags ==
  /\ stop \in BOOLEAN /\ clearRequested \in BOOLEAN /\ processRequested \in BOOLEAN
  /\ sourceOn \in BOOLEAN /\ pending \in BOOLEAN /\ hasNewSamples \in BOOLEAN

Rest ==
  /\ call \in {"none", "set_parameter", "clear_history", "clear_result", "stop", "join"}
  /\ parameters \in 0..MaxRevision
  /\ clears \in 0..MaxClears
  /\ result \in Inputs \cup {NoResult}
  /\ error \in {"none", "process", "worker"}
  /\ pc \in {"top", "stride", "drain", "decide", "process", "publish", "raised", "dead",
             "done"}
  /\ history \in SUBSET (0..MaxClears)
  /\ phase \in 0..DrainStride - 1
  /\ input \in Inputs /\ latest \in Inputs
  /\ attempted \in 0..MaxRevision

\* The two parts of the type invariant: the flags, and everything else.
LEMMA TypeParts == TypeOK <=> Flags /\ Rest
  BY Zenon DEF TypeOK, Flags, Rest

\* The drain phase stays below the stride.
LEMMA PhaseTurns == ASSUME NEW p \in 0..DrainStride - 1
                    PROVE  (p + 1) % DrainStride \in 0..DrainStride - 1
  BY StrideAssumption

\* A step keeps the flags typed.
LEMMA FlagsStep == ASSUME Flags, [Next]_vars PROVE Flags'
<1> USE DEF Flags, controlVars, workerVars, ghostVars, flagVars, shownVars
<1>1. CASE SourceDelivers
  BY Zenon, <1>1 DEF SourceDelivers
<1>2. CASE SetParameter
  BY Zenon, <1>2 DEF SetParameter
<1>3. CASE SetParameterRequests
  BY Zenon, <1>3 DEF SetParameterRequests
<1>4. CASE ClearHistory
  BY Zenon, <1>4 DEF ClearHistory
<1>5. CASE ClearHistoryRequests
  BY Zenon, <1>5 DEF ClearHistoryRequests
<1>6. CASE ClearHistoryForgets
  BY Zenon, <1>6 DEF ClearHistoryForgets
<1>7. CASE StopRequests
  BY Zenon, <1>7 DEF StopRequests
<1>8. CASE StopSource
  BY Zenon, <1>8 DEF StopSource
<1>9. CASE Finish
  BY Zenon, <1>9 DEF Finish
<1>10. CASE BeginRound
  BY Zenon, <1>10 DEF BeginRound
<1>11. CASE SkipRound
  BY Zenon, <1>11 DEF SkipRound
<1>12. CASE DrainRound
  BY Zenon, <1>12 DEF DrainRound
<1>13. CASE DrainSource
  BY Zenon, <1>13 DEF DrainSource
<1>14. CASE DrainRaises
  BY Zenon, <1>14 DEF DrainRaises
<1>15. CASE SurfaceWorkerError
  BY Zenon, <1>15 DEF SurfaceWorkerError
<1>16. CASE TakeRequest
  BY Zenon, <1>16 DEF TakeRequest
<1>17. CASE ReadInput
  BY Zenon, <1>17 DEF ReadInput
<1>18. CASE Publish
  BY Zenon, <1>18 DEF Publish
<1>19. CASE UNCHANGED vars
  BY Zenon, <1>19 DEF vars
<1>20. QED
  BY Zenon, <1>1, <1>2, <1>3, <1>4, <1>5, <1>6, <1>7, <1>8, <1>9, <1>10, <1>11, <1>12,
     <1>13, <1>14, <1>15, <1>16, <1>17, <1>18, <1>19 DEF Next, Control, Worker

\* A step keeps the other variables typed.
LEMMA RestStep == ASSUME Flags, Rest, [Next]_vars PROVE Rest'
<1> USE BoundsAssumption DEF Rest, controlVars, workerVars, ghostVars, flagVars, shownVars
<1>1. CASE SourceDelivers
  BY <1>1 DEF SourceDelivers
<1>2. CASE SetParameter
  BY <1>2 DEF SetParameter
<1>3. CASE SetParameterRequests
  BY <1>3 DEF SetParameterRequests
<1>4. CASE ClearHistory
  BY <1>4 DEF ClearHistory
<1>5. CASE ClearHistoryRequests
  BY <1>5 DEF ClearHistoryRequests
<1>6. CASE ClearHistoryForgets
  BY <1>6 DEF ClearHistoryForgets
<1>7. CASE StopRequests
  BY <1>7 DEF StopRequests
<1>8. CASE StopSource
  BY <1>8 DEF StopSource
<1>9. CASE Finish
  BY <1>9 DEF Finish
<1>10. CASE BeginRound
  BY <1>10, StrideAssumption DEF BeginRound
<1>11. CASE SkipRound
  BY <1>11, PhaseTurns DEF SkipRound, NextRound
<1>12. CASE DrainRound
  BY <1>12 DEF DrainRound
<1>13. CASE DrainSource
  BY <1>13 DEF DrainSource
<1>14. CASE DrainRaises
  BY <1>14 DEF DrainRaises
<1>15. CASE SurfaceWorkerError
  BY <1>15 DEF SurfaceWorkerError
<1>16. CASE TakeRequest
  BY <1>16, PhaseTurns DEF TakeRequest, NextRound
<1>17. CASE ReadInput
  BY <1>17 DEF ReadInput, Inputs
<1>18. CASE Publish
  <2>1. phase' \in 0..DrainStride - 1 /\ pc' = "top"
    BY <1>18, PhaseTurns DEF Publish, NextRound
  <2>2. input.revision \in 0..MaxRevision
    BY DEF Inputs
  <2>3. input' \in Inputs
    BY <1>18 DEF Publish, NothingYet, Inputs
  <2>4. QED
    BY <1>18, <2>1, <2>2, <2>3 DEF Publish
<1>19. CASE UNCHANGED vars
  BY <1>19 DEF vars
<1>20. QED
  BY Zenon, <1>1, <1>2, <1>3, <1>4, <1>5, <1>6, <1>7, <1>8, <1>9, <1>10, <1>11, <1>12,
     <1>13, <1>14, <1>15, <1>16, <1>17, <1>18, <1>19 DEF Next, Control, Worker

\* Every variable of the worker, and of the thread that controls it, keeps its type,
\* whatever the stride and the bounds.
THEOREM WorkerTyped == Spec => []TypeOK
<1>1. Init => Flags /\ Rest
  <2>1. Init => Flags
    BY Zenon DEF Init, Flags
  <2>2. Init => Rest
    BY BoundsAssumption, StrideAssumption DEF Init, Rest, Inputs, NothingYet
  <2>3. QED
    BY <2>1, <2>2
<1>2. Flags /\ Rest /\ [Next]_vars => (Flags /\ Rest)'
  BY FlagsStep, RestStep
<1>3. QED
  BY <1>1, <1>2, TypeParts, PTL DEF Spec
-----------------------------------------------------------------------------
(* Results.                                                                 *)

\* Whatever samples b has, a has some as old.
AsOld(a, b) == \A x \in b : a = {} \/ \E y \in a : y <= x

\* No sample is from a clear still to come, the history goes back no further than the
\* last result, and the input that is processed is the history as it is, gone when its
\* result is published.
ResultInv ==
  /\ history \in SUBSET (0..clears) /\ latest.eras \in SUBSET (0..clears)
  /\ AsOld(latest.eras, history)
  /\ latest.revision <= parameters
  /\ pc = "publish" => /\ input.eras = history
                       /\ latest.revision <= input.revision
                       /\ input.revision <= parameters
  /\ pc # "publish" => input.eras = {}

\* A step of the source or of the controlling thread.
LEMMA ControlKeepsResults ==
  ASSUME Flags, Rest, StaleOnlyInFlight, ResultInv, SourceDelivers \/ Control
  PROVE  StaleOnlyInFlight' /\ ResultInv'
<1> USE DEF Rest, Inputs, StaleOnlyInFlight, Ended, ResultInv, AsOld, controlVars, workerVars,
        ghostVars, flagVars, shownVars
<1>1. CASE SourceDelivers
  BY <1>1 DEF SourceDelivers
<1>2. CASE SetParameter
  BY <1>2 DEF SetParameter
<1>3. CASE SetParameterRequests
  BY <1>3 DEF SetParameterRequests
<1>4. CASE ClearHistory
  BY <1>4 DEF ClearHistory
<1>5. CASE ClearHistoryRequests
  BY <1>5 DEF ClearHistoryRequests
<1>6. CASE ClearHistoryForgets
  BY <1>6 DEF ClearHistoryForgets
<1>7. CASE StopRequests
  BY <1>7 DEF StopRequests
<1>8. CASE StopSource
  BY <1>8 DEF StopSource
<1>9. QED
  BY <1>1, <1>2, <1>3, <1>4, <1>5, <1>6, <1>7, <1>8 DEF Control

\* A step of the worker thread.
LEMMA WorkerKeepsResults ==
  ASSUME Flags, Rest, StaleOnlyInFlight, ResultInv, Worker
  PROVE  StaleOnlyInFlight' /\ ResultInv'
<1> USE DEF Rest, Inputs, StaleOnlyInFlight, Ended, ResultInv, AsOld, controlVars, workerVars,
        ghostVars, flagVars, shownVars
<1>1. CASE Finish
  BY <1>1 DEF Finish
<1>2. CASE BeginRound
  BY <1>2 DEF BeginRound
<1>3. CASE SkipRound
  BY <1>3 DEF SkipRound, NextRound
<1>4. CASE DrainRound
  BY <1>4 DEF DrainRound
<1>5. CASE DrainSource
  BY <1>5 DEF DrainSource
<1>6. CASE DrainRaises
  BY <1>6 DEF DrainRaises
<1>7. CASE SurfaceWorkerError
  BY <1>7 DEF SurfaceWorkerError
<1>8. CASE TakeRequest
  BY <1>8 DEF TakeRequest, NextRound
<1>9. CASE ReadInput
  BY <1>9 DEF ReadInput
<1>10. CASE Publish
  BY <1>10 DEF Publish, NextRound, NothingYet
<1>11. QED
  BY <1>1, <1>2, <1>3, <1>4, <1>5, <1>6, <1>7, <1>8, <1>9, <1>10 DEF Worker

\* Both hold throughout.
LEMMA ResultsHold == Spec => [](StaleOnlyInFlight /\ ResultInv)
<1>1. Init => StaleOnlyInFlight /\ ResultInv
  BY BoundsAssumption DEF Init, StaleOnlyInFlight, ResultInv, AsOld, NothingYet
<1>2. TypeOK /\ StaleOnlyInFlight /\ ResultInv /\ [Next]_vars
        => (StaleOnlyInFlight /\ ResultInv)'
  <2>1. ASSUME StaleOnlyInFlight, ResultInv, UNCHANGED vars
        PROVE  (StaleOnlyInFlight /\ ResultInv)'
    BY <2>1 DEF StaleOnlyInFlight, Ended, ResultInv, AsOld, vars, controlVars, workerVars,
                ghostVars, flagVars, shownVars
  <2>2. QED
    BY <2>1, TypeParts, ControlKeepsResults, WorkerKeepsResults DEF Next
<1>3. QED
  BY <1>1, <1>2, WorkerTyped, PTL DEF Spec

\* After a clear, what the worker publishes, and the history it is taken from, have older
\* samples only until the next round.
THEOREM ClearsAreTaken == Spec => []StaleOnlyInFlight
  BY ResultsHold, PTL

\* No result is computed from older parameters, or from older samples, than one before.
THEOREM ResultsMoveOn == Spec => ResultsNeverGoBack
<1> DEFINE MovesOn ==
      latest' # latest =>
        /\ latest'.revision >= latest.revision
        /\ \A x \in latest'.eras : latest.eras = {} \/ \E y \in latest.eras : y <= x
<1>1. ASSUME ResultInv, Publish PROVE MovesOn
  BY <1>1 DEF ResultInv, AsOld, Publish
<1>2. ASSUME SourceDelivers \/ Control PROVE latest' = latest
  BY Zenon, <1>2 DEF SourceDelivers, Control, SetParameter, SetParameterRequests,
     ClearHistory,
    ClearHistoryRequests, ClearHistoryForgets, StopRequests, StopSource, ghostVars
<1>3. ASSUME Worker, ~Publish PROVE latest' = latest
  BY Zenon, <1>3 DEF Worker, Finish, BeginRound, SkipRound, DrainRound, DrainSource,
     DrainRaises,
    SurfaceWorkerError, TakeRequest, ReadInput, ghostVars
<1>4. ResultInv /\ [Next]_vars => [MovesOn]_vars
  BY Zenon, <1>1, <1>2, <1>3 DEF Next
<1>5. QED
  BY <1>4, ResultsHold, PTL DEF Spec, ResultsNeverGoBack

=============================================================================
