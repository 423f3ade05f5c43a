----------------------------- MODULE LiveAnalysis -----------------------------
(***************************************************************************)
(* The processes of a YALSA run (yalsa/app.py): run_live_analysis is the   *)
(* supervisor, which starts a worker process that owns the source and a    *)
(* GUI process, starts either again when it fails, and ends the run.  They *)
(* talk through the control slot: a record with the newest parameter       *)
(* revision and the request to stop (stop_requested and shutdown_requested *)
(* are always set together).  An update is a read and a write in two       *)
(* steps, and the GUI and the supervisor both make updates.  A slot access *)
(* is one step here, what SharedSlot looks into; its run of FailsAfter-    *)
(* Attempts is why a read that falls into another process's update may     *)
(* raise a RuntimeError.                                                   *)
(*                                                                         *)
(* Time: the two-second joins of _stop_child_process run out only on a     *)
(* process that is not on its way to its end: a GUI nobody closed, a       *)
(* worker that does not see a request to stop, a worker that hangs.  A     *)
(* clear of the history travels like a parameter revision and is left out. *)
(***************************************************************************)
EXTENDS Integers

CONSTANTS
  MaxRevision,   \* bound: parameter changes
  MaxFailures    \* bound: processes that fail, die or hang

ASSUME BoundsAssumption == MaxRevision \in Nat /\ MaxFailures \in Nat

VARIABLES
  control,       \* the control slot
  \* the supervisor
  supervisor,    \* where in run_live_analysis it is
  supervisorRead,\* the control its update has read
  requests,      \* calls of _request_shared_shutdown still to make after this one
  \* the GUI process
  gui,           \* up, quitting (its event loop has ended), exited, crashed, terminated
  guiUpdate,     \* none, or the update it has read the control for
  guiRead,       \* the control that update has read
  guiRequests,   \* request_shutdown calls it has made while quitting
  \* the worker process
  worker,        \* attaching, starting, running, stopping, hung, ended, terminated
  applied,       \* the parameter revision its _LiveAnalysisWorker has
  source,        \* the source is started: its port open, its device sampling
  \* history variables
  failures,      \* processes that failed, died or hung
  stuck,         \* a worker died or hung with the source started
  broken         \* an exception ended the supervisor's loop

supervisorVars == <<supervisor, supervisorRead, requests>>
guiVars        == <<gui, guiUpdate, guiRead, guiRequests>>
workerVars     == <<worker, applied, source>>
ghostVars      == <<failures, stuck, broken>>
vars == <<control, supervisorVars, guiVars, workerVars, ghostVars>>

Controls == [revision : 0..MaxRevision, stop : BOOLEAN]

FirstControl == [revision |-> 0, stop |-> FALSE]

\* Updates under way, into which another process's read may fall.
GuiUpdates        == guiUpdate # "none"
SupervisorUpdates == supervisor = "update"

GuiEnded    == gui \in {"exited", "crashed", "terminated"}
WorkerEnded == worker \in {"ended", "terminated"}

\* The slots are written and both processes started.
Init ==
  /\ control = FirstControl
  /\ supervisor = "read"
  /\ supervisorRead = FirstControl
  /\ requests = 0
  /\ gui = "up"
  /\ guiUpdate = "none"
  /\ guiRead = FirstControl
  /\ guiRequests = 0
  /\ worker = "attaching"
  /\ applied = 0
  /\ source = FALSE
  /\ failures = 0
  /\ stuck = FALSE
  /\ broken = FALSE

-----------------------------------------------------------------------------
(* The supervisor: run_live_analysis *)

\* One look at the control per poll; a stop breaks out of the loop, to finally.
ReadControl ==
  /\ supervisor = "read"
  /\ supervisor' = IF control.stop THEN "request" ELSE "check_gui"
  /\ UNCHANGED <<control, supervisorRead, requests, guiVars, workerVars, ghostVars>>

\* A read that raises leaves the loop for finally, and run_live_analysis raises it there.
ReadControlFails ==
  /\ supervisor = "read"
  /\ GuiUpdates
  /\ broken' = TRUE
  /\ supervisor' = "request"
  /\ UNCHANGED <<control, supervisorRead, requests, guiVars, workerVars, failures, stuck>>

\* A GUI that exited with 0 was closed: the request here and finally's.  One that
\* failed is started again.
CheckGui ==
  /\ supervisor = "check_gui"
  /\ \/ /\ gui = "exited"
        /\ requests' = 1
        /\ supervisor' = "request"
        /\ UNCHANGED guiVars
     \/ /\ gui = "crashed"
        /\ gui' = "up"
        /\ guiRequests' = 0
        /\ supervisor' = "check_worker"
        /\ UNCHANGED <<requests, guiUpdate, guiRead>>
     \/ /\ ~GuiEnded
        /\ supervisor' = "check_worker"
        /\ UNCHANGED <<requests, guiVars>>
  /\ UNCHANGED <<control, supervisorRead, workerVars, ghostVars>>

\* Mutant of CheckWorker: only a worker that was terminated is started again.
CheckWorkerMutant ==
  /\ supervisor = "check_worker"
  /\ worker' = IF worker = "terminated" THEN "attaching" ELSE worker
  /\ supervisor' = "read"
  /\ UNCHANGED <<control, supervisorRead, requests, guiVars, applied, source, ghostVars>>

\* A worker that ended, in whatever way, is started again.
CheckWorker ==
  /\ supervisor = "check_worker"
  /\ worker' = IF WorkerEnded THEN "attaching" ELSE worker
  /\ supervisor' = "read"
  /\ UNCHANGED <<control, supervisorRead, requests, guiVars, applied, source, ghostVars>>

\* Ctrl-C, at any point of the loop: the request here and finally's.
Interrupt ==
  /\ supervisor \in {"read", "check_gui", "check_worker"}
  /\ broken' = TRUE
  /\ requests' = 1
  /\ supervisor' = "request"
  /\ UNCHANGED <<control, supervisorRead, guiVars, workerVars, failures, stuck>>

\* _request_shared_shutdown: _update_live_analysis_control reads, and writes.
RequestReads ==
  /\ supervisor = "request"
  /\ supervisorRead' = control
  /\ supervisor' = "update"
  /\ UNCHANGED <<control, requests, guiVars, workerVars, ghostVars>>

NextRequest == IF requests > 0
               THEN requests' = requests - 1 /\ supervisor' = "request"
               ELSE supervisor' = "stop_gui" /\ UNCHANGED requests

RequestWrites ==
  /\ supervisor = "update"
  /\ control' = [supervisorRead EXCEPT !.stop = TRUE]
  /\ NextRequest
  /\ UNCHANGED <<supervisorRead, guiVars, workerVars, ghostVars>>

\* A RuntimeError gives the request up.
RequestFails ==
  /\ supervisor = "request"
  /\ GuiUpdates
  /\ NextRequest
  /\ UNCHANGED <<control, supervisorRead, guiVars, workerVars, ghostVars>>

\* _stop_child_process, for the GUI and then for the worker: a join, and if it
\* runs out terminate (and kill).
JoinGui ==
  /\ supervisor = "stop_gui"
  /\ GuiEnded
  /\ supervisor' = "stop_worker"
  /\ UNCHANGED <<control, supervisorRead, requests, guiVars, workerVars, ghostVars>>

\* Mutant of TerminateGui: a join that runs out is all there is.
TerminateGuiMutant ==
  /\ supervisor = "stop_gui"
  /\ gui = "up"
  /\ supervisor' = "stop_worker"
  /\ UNCHANGED <<control, supervisorRead, requests, guiVars, workerVars, ghostVars>>

TerminateGui ==
  /\ supervisor = "stop_gui"
  /\ gui = "up"
  /\ gui' = "terminated"
  /\ guiUpdate' = "none"
  /\ supervisor' = "stop_worker"
  /\ UNCHANGED <<control, supervisorRead, requests, guiRead, guiRequests, workerVars,
                 ghostVars>>

JoinWorker ==
  /\ supervisor = "stop_worker"
  /\ WorkerEnded
  /\ supervisor' = "unlinked"
  /\ UNCHANGED <<control, supervisorRead, requests, guiVars, workerVars, ghostVars>>

\* Mutant of TerminateWorker: the join has no timeout for a worker that still polls.
TerminateWorkerMutant ==
  /\ supervisor = "stop_worker"
  /\ worker = "hung"
  /\ worker' = "terminated"
  /\ supervisor' = "unlinked"
  /\ UNCHANGED <<control, supervisorRead, requests, guiVars, applied, source, ghostVars>>

TerminateWorker ==
  /\ supervisor = "stop_worker"
  /\ worker = "hung" \/ (worker \in {"attaching", "starting", "running"} /\ ~control.stop)
  /\ worker' = "terminated"
  /\ supervisor' = "unlinked"
  /\ UNCHANGED <<control, supervisorRead, requests, guiVars, applied, source, ghostVars>>

Supervisor == \/ ReadControl \/ ReadControlFails \/ CheckGui \/ CheckWorker
              \/ RequestReads \/ RequestWrites \/ RequestFails
              \/ JoinGui \/ TerminateGui \/ JoinWorker \/ TerminateWorker

-----------------------------------------------------------------------------
(* The GUI process: _run_live_analysis_gui *)

\* set_parameter: the update's read (if it raises, Qt goes on or the process fails) ...
GuiSets ==
  /\ gui = "up"
  /\ guiUpdate = "none"
  /\ control.revision < MaxRevision
  /\ guiRead' = control
  /\ guiUpdate' = "set_parameter"
  /\ UNCHANGED <<control, supervisorVars, gui, guiRequests, workerVars, ghostVars>>

\* Mutant of GuiSetWrites: the new control is made without the old one's flags.
GuiSetWritesMutant ==
  /\ guiUpdate = "set_parameter"
  /\ control' = [revision |-> guiRead.revision + 1, stop |-> FALSE]
  /\ guiUpdate' = "none"
  /\ UNCHANGED <<supervisorVars, gui, guiRead, guiRequests, workerVars, ghostVars>>

\* ... and its write.
GuiSetWrites ==
  /\ guiUpdate = "set_parameter"
  /\ control' = [guiRead EXCEPT !.revision = guiRead.revision + 1]
  /\ guiUpdate' = "none"
  /\ UNCHANGED <<supervisorVars, gui, guiRead, guiRequests, workerVars, ghostVars>>

\* The window is closed.
GuiQuits ==
  /\ gui = "up"
  /\ guiUpdate = "none"
  /\ gui' = "quitting"
  /\ guiRequests' = 0
  /\ UNCHANGED <<control, supervisorVars, guiUpdate, guiRead, workerVars, ghostVars>>

\* request_shutdown, from aboutToQuit and from the finally around the event loop.
GuiRequestReads ==
  /\ gui = "quitting"
  /\ guiUpdate = "none"
  /\ guiRequests < 2
  /\ guiRead' = control
  /\ guiUpdate' = "request_shutdown"
  /\ UNCHANGED <<control, supervisorVars, gui, guiRequests, workerVars, ghostVars>>

GuiRequestWrites ==
  /\ guiUpdate = "request_shutdown"
  /\ control' = [guiRead EXCEPT !.stop = TRUE]
  /\ guiUpdate' = "none"
  /\ guiRequests' = guiRequests + 1
  /\ UNCHANGED <<supervisorVars, gui, guiRead, workerVars, ghostVars>>

\* A RuntimeError gives the request up.
GuiRequestFails ==
  /\ gui = "quitting"
  /\ guiUpdate = "none"
  /\ guiRequests < 2
  /\ SupervisorUpdates
  /\ guiRequests' = guiRequests + 1
  /\ UNCHANGED <<control, supervisorVars, gui, guiUpdate, guiRead, workerVars, ghostVars>>

GuiExits ==
  /\ gui = "quitting"
  /\ guiRequests = 2
  /\ gui' = "exited"
  /\ UNCHANGED <<control, supervisorVars, guiUpdate, guiRead, guiRequests, workerVars,
                 ghostVars>>

\* The GUI fails at any point, between the two halves of an update too.
GuiCrashes ==
  /\ ~GuiEnded
  /\ failures < MaxFailures
  /\ gui' = "crashed"
  /\ guiUpdate' = "none"
  /\ failures' = failures + 1
  /\ UNCHANGED <<control, supervisorVars, guiRead, guiRequests, workerVars, stuck,
                 broken>>

\* What a GUI process does without anybody at its window.
Gui == \/ GuiSetWrites \/ GuiRequestReads \/ GuiRequestWrites \/ GuiRequestFails
       \/ GuiExits

-----------------------------------------------------------------------------
(* The worker process: _run_analysis_worker_process *)

\* It begins with the parameters the control has by then.
WorkerAttaches ==
  /\ worker = "attaching"
  /\ applied' = control.revision
  /\ worker' = "starting"
  /\ UNCHANGED <<control, supervisorVars, guiVars, source, ghostVars>>

\* Its first read raises: it ends without a _LiveAnalysisWorker.
WorkerAttachFails ==
  /\ worker = "attaching"
  /\ GuiUpdates \/ SupervisorUpdates
  /\ worker' = "ended"
  /\ UNCHANGED <<control, supervisorVars, guiVars, applied, source, ghostVars>>

\* worker.start()
WorkerStarts ==
  /\ worker = "starting"
  /\ source' = TRUE
  /\ worker' = "running"
  /\ UNCHANGED <<control, supervisorVars, guiVars, applied, ghostVars>>

\* Mutant of WorkerPolls: the revision to come is applied.
WorkerPollsMutant ==
  /\ worker = "running"
  /\ IF control.stop THEN worker' = "stopping" /\ UNCHANGED applied
                     ELSE applied' = control.revision + 1 /\ UNCHANGED worker
  /\ UNCHANGED <<control, supervisorVars, guiVars, source, ghostVars>>

\* A turn of its loop: stop, or apply a revision that is not the last one.
WorkerPolls ==
  /\ worker = "running"
  /\ IF control.stop THEN worker' = "stopping" /\ UNCHANGED applied
                     ELSE applied' = control.revision /\ UNCHANGED worker
  /\ UNCHANGED <<control, supervisorVars, guiVars, source, ghostVars>>

\* Mutant of WorkerStops: the process ends without stopping its worker.
WorkerStopsMutant ==
  /\ worker = "stopping"
  /\ worker' = "ended"
  /\ UNCHANGED <<control, supervisorVars, guiVars, applied, source, ghostVars>>

\* finally: worker.stop()
WorkerStops ==
  /\ worker = "stopping"
  /\ source' = FALSE
  /\ worker' = "ended"
  /\ UNCHANGED <<control, supervisorVars, guiVars, applied, ghostVars>>

\* A read that raises: finally runs, and the process ends with an exit code.
WorkerPollFails ==
  /\ worker = "running"
  /\ GuiUpdates \/ SupervisorUpdates
  /\ worker' = "stopping"
  /\ UNCHANGED <<control, supervisorVars, guiVars, applied, source, ghostVars>>

\* So does any other exception end.
WorkerRaises ==
  /\ worker = "running"
  /\ failures < MaxFailures
  /\ failures' = failures + 1
  /\ worker' = "stopping"
  /\ UNCHANGED <<control, supervisorVars, guiVars, applied, source, stuck, broken>>

\* The process is killed, or hangs in a call that does not return.
WorkerDies ==
  /\ ~WorkerEnded
  /\ failures < MaxFailures
  /\ failures' = failures + 1
  /\ stuck' = (stuck \/ source)
  /\ worker' = "ended"
  /\ UNCHANGED <<control, supervisorVars, guiVars, applied, source, broken>>

WorkerHangs ==
  /\ worker = "running"
  /\ failures < MaxFailures
  /\ failures' = failures + 1
  /\ stuck' = TRUE
  /\ worker' = "hung"
  /\ UNCHANGED <<control, supervisorVars, guiVars, applied, source, broken>>

Worker == \/ WorkerAttaches \/ WorkerAttachFails \/ WorkerStarts
          \/ WorkerPolls \/ WorkerPollFails \/ WorkerStops

Next == \/ Supervisor \/ Interrupt
        \/ Gui \/ GuiSets \/ GuiQuits \/ GuiCrashes
        \/ Worker \/ WorkerRaises \/ WorkerDies \/ WorkerHangs

\* Every process is scheduled; nobody has to touch the window or press Ctrl-C, and
\* nothing has to fail.
Spec == Init /\ [][Next]_vars /\ WF_vars(Supervisor) /\ WF_vars(Gui) /\ WF_vars(Worker)

-----------------------------------------------------------------------------
(* Properties *)

TypeOK ==
  /\ control \in Controls
  /\ supervisor \in {"read", "check_gui", "check_worker", "request", "update", "stop_gui",
                     "stop_worker", "unlinked"}
  /\ supervisorRead \in Controls /\ guiRead \in Controls
  /\ requests \in 0..1 /\ guiRequests \in 0..2
  /\ gui \in {"up", "quitting", "exited", "crashed", "terminated"}
  /\ guiUpdate \in {"none", "set_parameter", "request_shutdown"}
  /\ worker \in {"attaching", "starting", "running", "stopping", "hung", "ended",
                 "terminated"}
  /\ applied \in 0..MaxRevision
  /\ source \in BOOLEAN /\ stuck \in BOOLEAN /\ broken \in BOOLEAN
  /\ failures \in 0..MaxFailures

\* The shared memory is unlinked only when no process is left that uses it.
MemoryOutlivesUsers == supervisor = "unlinked" => GuiEnded /\ WorkerEnded

\* Only a worker that hangs is terminated, with its source still running, unless an
\* exception ended the supervisor's loop: closing the window always reaches the worker,
\* however often processes were restarted and whoever else was updating the control.
OnlyStuckWorkersTerminated == worker = "terminated" => stuck \/ broken

\* Two processes update the control by reading and then writing it, and still no
\* update takes another back: not the request to stop, nor, before that, a parameter;
\* unless an exception ended the supervisor's loop while the window is in use.
UpdatesAreKept ==
  [][ ~broken => IF control.stop THEN control'.stop
                                 ELSE control'.revision >= control.revision ]_control

\* A parameter set in the window reaches a running worker, across failures of
\* either process, unless the run ends first or the worker hangs.
ParametersReachWorker ==
  \A r \in 1..MaxRevision :
    control.revision = r ~>
      \/ worker = "running" /\ applied >= r
      \/ control.stop \/ broken \/ worker = "hung"

\* A window closed ends the run: both processes gone, the memory unlinked, and the
\* source stopped by the worker itself unless a worker died or hung with it.
ClosingEndsRun ==
  gui = "exited" ~> (supervisor = "unlinked" /\ (source => stuck \/ broken))

\* A run whose loop an exception ended, Ctrl-C or a read that raised, ends whatever
\* its processes do.
BrokenLoopEndsRun == broken ~> supervisor = "unlinked"

=============================================================================
