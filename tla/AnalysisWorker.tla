--------------------------- MODULE AnalysisWorker ---------------------------
(***************************************************************************)
(* _LiveAnalysisWorker of yalsa/app.py: a thread that drains the source    *)
(* into its history and runs the user's process function on it, and the    *)
(* controlling thread (the analysis process's main loop) that changes      *)
(* parameters, asks for the history to be cleared, and stops the worker.   *)
(*                                                                         *)
(* The two share three threading.Events and, under two locks, the          *)
(* parameter values and the last result.  Every step below is a stretch of *)
(* code between two of those accesses.  Each set_parameter gives a         *)
(* parameter a new value, named by its revision; a sample is known by its  *)
(* era, the number of clears asked for when it was drained, and a history  *)
(* by the set of eras its samples belong to.  The status line's rates and  *)
(* counters are left out.                                                  *)
(***************************************************************************)
EXTENDS Integers

CONSTANTS
  DrainStride,   \* config.drain_stride: drain on every DrainStride-th round
  MaxRevision,   \* bound: set_parameter calls
  MaxClears,     \* bound: clear_history calls
  NoResult       \* None

ASSUME StrideAssumption == DrainStride \in Nat \ {0}
ASSUME BoundsAssumption == MaxRevision \in Nat /\ MaxClears \in Nat

VARIABLES
  \* the controlling thread
  call,            \* where in which method it is
  parameters,      \* _parameter_values: the revision of the newest value
  clears,          \* clear_history calls so far
  \* shared
  stop,            \* _stop
  clearRequested,  \* _clear_requested
  processRequested,\* _process_requested
  result,          \* _last_result
  error,           \* _last_process_error: none, process or worker
  sourceOn,        \* _source_started, the source is running
  pending,         \* the source has samples waiting to be drained
  \* the worker thread
  pc,
  history,         \* _history
  phase,           \* _drain_phase, modulo the stride
  hasNewSamples,
  input,           \* analysis_input and the parameter snapshot
  \* history variables
  attempted,       \* the parameters of the last process call published, failed or not
  latest           \* the last result published, whether or not cleared since

controlVars == <<call, parameters, clears>>
workerVars  == <<pc, history, phase, hasNewSamples, input>>
ghostVars   == <<attempted, latest>>
flagVars    == <<stop, clearRequested, processRequested>>
shownVars   == <<result, error>>
vars == <<controlVars, flagVars, shownVars, sourceOn, pending, workerVars, ghostVars>>

Inputs == [eras : SUBSET (0..MaxClears), revision : 0..MaxRevision]

NothingYet == [eras |-> {}, revision |-> 0]

\* start() has run: flags cleared, the source started, the thread begun.
Init ==
  /\ call = "none"
  /\ parameters = 0
  /\ clears = 0
  /\ stop = FALSE
  /\ clearRequested = FALSE
  /\ processRequested = FALSE
  /\ result = NoResult
  /\ error = "none"
  /\ sourceOn = TRUE
  /\ pending = FALSE
  /\ pc = "top"
  /\ history = {}
  /\ phase = 0
  /\ hasNewSamples = FALSE
  /\ input = NothingYet
  /\ attempted = 0
  /\ latest = NothingYet

-----------------------------------------------------------------------------
(* The source: a thread of its own that fills a pending ring. *)

SourceDelivers ==
  /\ sourceOn
  /\ pending' = TRUE
  /\ UNCHANGED <<controlVars, flagVars, shownVars, sourceOn, workerVars, ghostVars>>

-----------------------------------------------------------------------------
(* The controlling thread. *)

\* set_parameter: the value under its lock, then the event.
SetParameter ==
  /\ call = "none"
  /\ parameters < MaxRevision
  /\ parameters' = parameters + 1
  /\ call' = "set_parameter"
  /\ UNCHANGED <<clears, flagVars, shownVars, sourceOn, pending, workerVars, ghostVars>>

SetParameterRequests ==
  /\ call = "set_parameter"
  /\ processRequested' = TRUE
  /\ call' = "none"
  /\ UNCHANGED <<parameters, clears, stop, clearRequested, shownVars, sourceOn, pending,
                 workerVars, ghostVars>>

\* Mutant of ClearHistory: the history is not asked to be cleared.
ClearHistoryMutant ==
  /\ call = "none"
  /\ clears < MaxClears
  /\ clears' = clears + 1
  /\ call' = "clear_history"
  /\ UNCHANGED <<parameters, flagVars, shownVars, sourceOn, pending, workerVars, ghostVars>>

\* clear_history: the two events, then the last result under the state lock.
ClearHistory ==
  /\ call = "none"
  /\ clears < MaxClears
  /\ clears' = clears + 1
  /\ clearRequested' = TRUE
  /\ call' = "clear_history"
  /\ UNCHANGED <<parameters, stop, processRequested, shownVars, sourceOn, pending,
                 workerVars, ghostVars>>

ClearHistoryRequests ==
  /\ call = "clear_history"
  /\ processRequested' = TRUE
  /\ call' = "clear_result"
  /\ UNCHANGED <<parameters, clears, stop, clearRequested, shownVars, sourceOn, pending,
                 workerVars, ghostVars>>

ClearHistoryForgets ==
  /\ call = "clear_result"
  /\ result' = NoResult
  /\ error' = "none"
  /\ call' = "none"
  /\ UNCHANGED <<parameters, clears, flagVars, sourceOn, pending, workerVars, ghostVars>>

\* stop: the event, then source.stop, then a join that may time out.
StopRequests ==
  /\ call = "none"
  /\ stop' = TRUE
  /\ call' = "stop"
  /\ UNCHANGED <<parameters, clears, clearRequested, processRequested, shownVars,
                 sourceOn, pending, workerVars, ghostVars>>

StopSource ==
  /\ call = "stop"
  /\ sourceOn' = FALSE
  /\ call' = "join"
  /\ UNCHANGED <<parameters, clears, flagVars, shownVars, pending, workerVars, ghostVars>>

Control == \/ SetParameter \/ ClearHistory \/ StopRequests
           \/ SetParameterRequests \/ ClearHistoryRequests \/ ClearHistoryForgets
           \/ StopSource

\* A method that was called runs to its end.
ControlReturns == \/ SetParameterRequests \/ ClearHistoryRequests \/ ClearHistoryForgets
                  \/ StopSource

-----------------------------------------------------------------------------
(* The worker thread: _run. *)

\* Mutant of NextRound: the phase runs past the stride.
NextRoundMutant == /\ phase' = phase + 1
                   /\ pc' = "top"

NextRound == /\ phase' = (phase + 1) % DrainStride
             /\ pc' = "top"

\* while not self._stop.is_set()
Finish ==
  /\ pc = "top"
  /\ stop
  /\ pc' = "done"
  /\ UNCHANGED <<controlVars, flagVars, shownVars, sourceOn, pending, history, phase,
                 hasNewSamples, input, ghostVars>>

\* Mutant of BeginRound: the request to clear is taken, the history stays.
BeginRoundMutant ==
  /\ pc = "top"
  /\ ~stop
  /\ clearRequested' = FALSE
  /\ phase' = IF clearRequested THEN 0 ELSE phase
  /\ pc' = "stride"
  /\ UNCHANGED <<controlVars, stop, processRequested, shownVars, sourceOn, pending,
                 history, hasNewSamples, input, ghostVars>>

\* The round begins by honouring a request to clear.
BeginRound ==
  /\ pc = "top"
  /\ ~stop
  /\ clearRequested' = FALSE
  /\ history' = IF clearRequested THEN {} ELSE history
  /\ phase' = IF clearRequested THEN 0 ELSE phase
  /\ pc' = "stride"
  /\ UNCHANGED <<controlVars, stop, processRequested, shownVars, sourceOn, pending,
                 hasNewSamples, input, ghostVars>>

\* A round the stride skips, unless processing is asked for.
SkipRound ==
  /\ pc = "stride"
  /\ ~processRequested
  /\ phase # 0
  /\ NextRound
  /\ UNCHANGED <<controlVars, flagVars, shownVars, sourceOn, pending, history,
                 hasNewSamples, input, ghostVars>>

DrainRound ==
  /\ pc = "stride"
  /\ processRequested \/ phase = 0
  /\ pc' = "drain"
  /\ UNCHANGED <<controlVars, flagVars, shownVars, sourceOn, pending, history, phase,
                 hasNewSamples, input, ghostVars>>

\* source.drain, and append_batch when it returned samples.
DrainSource ==
  /\ pc = "drain"
  /\ hasNewSamples' = pending
  /\ pending' = FALSE
  /\ history' = IF pending THEN history \cup {clears} ELSE history
  /\ pc' = "decide"
  /\ UNCHANGED <<controlVars, flagVars, shownVars, sourceOn, phase, input, ghostVars>>

\* source.drain or append_batch raised: the thread's own except clause.
DrainRaises ==
  /\ pc = "drain"
  /\ pending' = FALSE
  /\ pc' = "raised"
  /\ UNCHANGED <<controlVars, flagVars, shownVars, sourceOn, history, phase,
                 hasNewSamples, input, ghostVars>>

SurfaceWorkerError ==
  /\ pc = "raised"
  /\ error' = "worker"
  /\ pc' = "dead"
  /\ UNCHANGED <<controlVars, flagVars, result, sourceOn, pending, history, phase,
                 hasNewSamples, input, ghostVars>>

\* Mutant of TakeRequest: a request is taken, but only samples are processed.
TakeRequestMutant ==
  /\ pc = "decide"
  /\ processRequested' = FALSE
  /\ IF hasNewSamples THEN pc' = "process" /\ UNCHANGED phase ELSE NextRound
  /\ hasNewSamples' = FALSE
  /\ UNCHANGED <<controlVars, stop, clearRequested, shownVars, sourceOn, pending, history,
                 input, ghostVars>>

\* Mutant of TakeRequest: the wrong event is cleared.
TakeStopMutant ==
  /\ pc = "decide"
  /\ stop' = FALSE
  /\ IF hasNewSamples \/ processRequested
     THEN pc' = "process" /\ UNCHANGED phase
     ELSE NextRound
  /\ hasNewSamples' = FALSE
  /\ UNCHANGED <<controlVars, processRequested, clearRequested, shownVars, sourceOn, pending,
                 history, input, ghostVars>>

\* The request to process is taken before the parameters are read.  A set that
\* falls between _run's look at the event and its clear is taken with it.
\* (hasNewSamples and, in Publish, input are reset when the code is done with them.)
TakeRequest ==
  /\ pc = "decide"
  /\ processRequested' = FALSE
  /\ IF hasNewSamples \/ processRequested
     THEN pc' = "process" /\ UNCHANGED phase
     ELSE NextRound
  /\ hasNewSamples' = FALSE
  /\ UNCHANGED <<controlVars, stop, clearRequested, shownVars, sourceOn, pending, history,
                 input, ghostVars>>

\* Mutant of ReadInput: with a request outstanding, the parameters the worker was made with.
ReadInputMutant ==
  /\ pc = "process"
  /\ input' = [eras |-> history, revision |-> IF processRequested THEN 0 ELSE parameters]
  /\ pc' = "publish"
  /\ UNCHANGED <<controlVars, flagVars, shownVars, sourceOn, pending, history, phase,
                 hasNewSamples, ghostVars>>

\* _process_latest: the history and parameter snapshots ...
ReadInput ==
  /\ pc = "process"
  /\ input' = [eras |-> history, revision |-> parameters]
  /\ pc' = "publish"
  /\ UNCHANGED <<controlVars, flagVars, shownVars, sourceOn, pending, history, phase,
                 hasNewSamples, ghostVars>>

\* ... the user's function, and the outcome under the state lock.  A result
\* replaces the last one, an error leaves the last result in place.
Publish ==
  /\ pc = "publish"
  /\ attempted' = input.revision
  /\ \/ /\ result' = input
        /\ error' = "none"
        /\ latest' = input
     \/ /\ error' = "process"
        /\ UNCHANGED <<result, latest>>
  /\ NextRound
  /\ input' = NothingYet
  /\ UNCHANGED <<controlVars, flagVars, sourceOn, pending, history, hasNewSamples>>

Worker == \/ Finish \/ BeginRound \/ SkipRound \/ DrainRound
          \/ DrainSource \/ DrainRaises \/ SurfaceWorkerError
          \/ TakeRequest \/ ReadInput \/ Publish

Next == SourceDelivers \/ Control \/ Worker

Spec == Init /\ [][Next]_vars

\* Both threads are scheduled; nothing obliges the controlling thread to call a
\* method, or the source to deliver a sample.
FairSpec == Spec /\ WF_vars(Worker) /\ WF_vars(ControlReturns)

-----------------------------------------------------------------------------
(* Properties *)

TypeOK ==
  /\ call \in {"none", "set_parameter", "clear_history", "clear_result", "stop", "join"}
  /\ parameters \in 0..MaxRevision
  /\ clears \in 0..MaxClears
  /\ stop \in BOOLEAN /\ clearRequested \in BOOLEAN /\ processRequested \in BOOLEAN
  /\ sourceOn \in BOOLEAN /\ pending \in BOOLEAN /\ hasNewSamples \in BOOLEAN
  /\ result \in Inputs \cup {NoResult}
  /\ error \in {"none", "process", "worker"}
  /\ pc \in {"top", "stride", "drain", "decide", "process", "publish", "raised", "dead",
             "done"}
  /\ history \in SUBSET (0..MaxClears)
  /\ phase \in 0..DrainStride - 1
  /\ input \in Inputs /\ latest \in Inputs
  /\ attempted \in 0..MaxRevision

Ended == pc \in {"raised", "dead", "done"}

\* A parameter changed is a parameter used: after set_parameter returns, the
\* process function is run on that value or a newer one, samples or none, and however
\* the change falls into a round, unless the worker ends.
ParameterTakesEffect ==
  \A r \in 1..MaxRevision :
    (parameters = r /\ call = "none") ~> (attempted >= r \/ stop \/ Ended)

\* A history cleared stays cleared: after clear_history returns, and while samples
\* go on arriving, the result shown comes to hold nothing drained before it,
\* unless processing fails (the old result stays beside the error) or the worker ends.
ShowsNothingBefore(e) == result = NoResult \/ \A x \in result.eras : x >= e

SamplesGoOnArriving == []<>pending

ClearTakesEffect ==
  SamplesGoOnArriving =>
    \A e \in 1..MaxClears :
      (clears = e /\ call = "none")
        ~> (ShowsNothingBefore(e) \/ error # "none" \/ stop \/ Ended)

\* Results never go back: one computed from a newer parameter, or after a clear took
\* effect, is never followed by one computed from an older parameter or from samples
\* older than all of that one's.
ResultsNeverGoBack ==
  [][ latest' # latest =>
        /\ latest'.revision >= latest.revision
        /\ \A x \in latest'.eras : latest.eras = {} \/ \E y \in latest.eras : y <= x ]_vars

\* A result with samples from before a clear is published after it only by the round
\* that was past its look at _clear_requested when the clear was asked for: the input
\* that Publish shows, and the history it is taken from, hold older samples only as
\* long as no round has begun since, or the worker has ended.
StaleOnlyInFlight ==
  (\E x \in history \cup input.eras : x < clears) => (clearRequested \/ Ended)

\* stop ends the thread: no round begins for ever after it.
StopTakesEffect == stop ~> Ended

\* The worker's own errors are shown for as long as the thread is dead of them.
WorkerErrorShown == pc = "dead" => error = "worker"

=============================================================================
