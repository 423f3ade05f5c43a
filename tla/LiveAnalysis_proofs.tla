------------------------- MODULE LiveAnalysis_proofs -------------------------
(***************************************************************************)
(* The end of a YALSA run, for any number of parameter changes and of      *)
(* failures: what the supervisor may terminate, when the memory goes, and  *)
(* why updates that read and then write do not undo each other.            *)
(***************************************************************************)
EXTENDS LiveAnalysis, TLAPS

\* The type invariant in two parts: Zenon proves the Boolean one, Z3 the other.
Flags == source \in BOOLEAN /\ stuck \in BOOLEAN /\ broken \in BOOLEAN

Rest ==
  /\ control \in Controls
  /\ supervisor \in {"read", "check_gui", "check_worker", "request", "update", "stop_gui",
                     "stop_worker", "unlinked"}
  /\ supervisorRead \in Controls /\ guiRead \in Controls
  /\ requests \in 0..1 /\ guiRequests \in 0..2
  /\ gui \in {"up", "quitting", "exited", "crashed", "terminated"}
  /\ guiUpdate \in {"none", "set_parameter", "request_shutdown"}
  /\ worker \in {"attaching", "starting", "running", "stopping", "hung", "ended",
                 "terminated"}
  /\ applied \in 0..MaxRevision
  /\ failures \in 0..MaxFailures

\* The parts make up the type invariant.
LEMMA TypeParts == TypeOK <=> Flags /\ Rest
  BY Zenon DEF TypeOK, Flags, Rest

\* The GUI makes one update at a time: parameters while its window is up, the request
\* to stop, at most twice, when it quits.
GuiInv ==
  /\ guiUpdate = "set_parameter" => gui = "up" /\ guiRead.revision < MaxRevision
  /\ guiUpdate = "request_shutdown" => gui = "quitting" /\ guiRequests < 2

Leaving == {"request", "update", "stop_gui", "stop_worker", "unlinked"}

\* Unless an exception ended the loop, nobody writes between the two halves of an
\* update until the run is asked to stop, and the supervisor leaves its loop only when
\* it is, or when the window was closed, whose process then makes no update.
ControlInv ==
  ~broken =>
    /\ guiUpdate # "none" /\ ~control.stop => guiRead = control
    /\ guiUpdate # "none" /\ control.stop => guiRead.stop
    /\ supervisor = "update" /\ ~control.stop => supervisorRead = control
    /\ supervisor \in Leaving =>
         control.stop \/ (gui = "exited" /\ supervisor \in {"request", "update"})

\* The supervisor goes past a child only when it has ended.
EndInv ==
  /\ worker = "hung" => stuck
  /\ worker = "terminated" => stuck \/ broken
  /\ supervisor \in {"stop_worker", "unlinked"} => GuiEnded
  /\ supervisor = "unlinked" => WorkerEnded

\* A step keeps the flags typed.
LEMMA FlagsStep == ASSUME Flags, [Next]_vars PROVE Flags'
<1> USE DEF Flags, supervisorVars, guiVars, workerVars, ghostVars
<1>1. CASE ReadControl
  BY Zenon, <1>1 DEF ReadControl
<1>2. CASE ReadControlFails
  BY Zenon, <1>2 DEF ReadControlFails, GuiUpdates
<1>3. CASE CheckGui
  BY Zenon, <1>3 DEF CheckGui, GuiEnded
<1>4. CASE CheckWorker
  BY Zenon, <1>4 DEF CheckWorker, WorkerEnded
<1>5. CASE RequestReads
  BY Zenon, <1>5 DEF RequestReads
<1>6. CASE RequestWrites
  BY Zenon, <1>6 DEF RequestWrites, NextRequest
<1>7. CASE RequestFails
  BY Zenon, <1>7 DEF RequestFails, NextRequest, GuiUpdates
<1>8. CASE JoinGui
  BY Zenon, <1>8 DEF JoinGui, GuiEnded
<1>9. CASE TerminateGui
  BY Zenon, <1>9 DEF TerminateGui
<1>10. CASE JoinWorker
  BY Zenon, <1>10 DEF JoinWorker, WorkerEnded
<1>11. CASE TerminateWorker
  BY Zenon, <1>11 DEF TerminateWorker
<1>12. CASE Interrupt
  BY Zenon, <1>12 DEF Interrupt
<1>13. CASE GuiSetWrites
  BY Zenon, <1>13 DEF GuiSetWrites
<1>14. CASE GuiRequestReads
  BY Zenon, <1>14 DEF GuiRequestReads
<1>15. CASE GuiRequestWrites
  BY Zenon, <1>15 DEF GuiRequestWrites
<1>16. CASE GuiRequestFails
  BY Zenon, <1>16 DEF GuiRequestFails, SupervisorUpdates
<1>17. CASE GuiExits
  BY Zenon, <1>17 DEF GuiExits
<1>18. CASE GuiSets
  BY Zenon, <1>18 DEF GuiSets
<1>19. CASE GuiQuits
  BY Zenon, <1>19 DEF GuiQuits
<1>20. CASE GuiCrashes
  BY Zenon, <1>20 DEF GuiCrashes, GuiEnded
<1>21. CASE WorkerAttaches
  BY Zenon, <1>21 DEF WorkerAttaches
<1>22. CASE WorkerAttachFails
  BY Zenon, <1>22 DEF WorkerAttachFails, GuiUpdates, SupervisorUpdates
<1>23. CASE WorkerStarts
  BY Zenon, <1>23 DEF WorkerStarts
<1>24. CASE WorkerPolls
  BY Zenon, <1>24 DEF WorkerPolls
<1>25. CASE WorkerPollFails
  BY Zenon, <1>25 DEF WorkerPollFails, GuiUpdates, SupervisorUpdates
<1>26. CASE WorkerStops
  BY Zenon, <1>26 DEF WorkerStops
<1>27. CASE WorkerRaises
  BY Zenon, <1>27 DEF WorkerRaises
<1>28. CASE WorkerDies
  BY Zenon, <1>28 DEF WorkerDies, WorkerEnded
<1>29. CASE WorkerHangs
  BY Zenon, <1>29 DEF WorkerHangs
<1>30. CASE UNCHANGED vars
  BY Zenon, <1>30 DEF vars
<1>31. QED
  BY Zenon, <1>1, <1>2, <1>3, <1>4, <1>5, <1>6, <1>7, <1>8, <1>9, <1>10, <1>11, <1>12,
     <1>13, <1>14, <1>15, <1>16, <1>17, <1>18, <1>19, <1>20, <1>21, <1>22, <1>23, <1>24,
     <1>25, <1>26, <1>27, <1>28, <1>29, <1>30 DEF Next, Supervisor, Gui, Worker

\* A control stays one when a flag of it is set.
LEMMA FlagTyped == ASSUME NEW c \in Controls, NEW b \in BOOLEAN
                   PROVE  [c EXCEPT !.stop = b] \in Controls
  BY DEF Controls

\* A step keeps the other variables typed, and the GUI's updates apart.
LEMMA RestStep == ASSUME Flags, Rest, GuiInv, [Next]_vars PROVE Rest' /\ GuiInv'
<1> USE BoundsAssumption DEF Rest, GuiInv, Controls, supervisorVars, guiVars, workerVars, ghostVars
<1>1. CASE ReadControl
  BY <1>1 DEF ReadControl
<1>2. CASE ReadControlFails
  BY <1>2 DEF ReadControlFails, GuiUpdates
<1>3. CASE CheckGui
  BY <1>3 DEF CheckGui, GuiEnded
<1>4. CASE CheckWorker
  BY <1>4 DEF CheckWorker, WorkerEnded
<1>5. CASE RequestReads
  BY <1>5 DEF RequestReads
<1>6. CASE RequestWrites
  <2>1. control' \in Controls
    BY Zenon, <1>6, FlagTyped DEF RequestWrites
  <2>2. guiUpdate' = guiUpdate /\ gui' = gui /\ guiRead' = guiRead /\ guiRequests' = guiRequests
    BY <1>6 DEF RequestWrites
  <2>3. requests' \in 0..1 /\ supervisor' \in {"request", "stop_gui"}
    BY <1>6 DEF RequestWrites, NextRequest
  <2>4. supervisorRead' = supervisorRead /\ worker' = worker /\ applied' = applied
        /\ failures' = failures
    BY <1>6 DEF RequestWrites
  <2>5. QED
    BY <2>1, <2>2, <2>3, <2>4
<1>7. CASE RequestFails
  BY <1>7 DEF RequestFails, NextRequest, GuiUpdates
<1>8. CASE JoinGui
  BY <1>8 DEF JoinGui, GuiEnded
<1>9. CASE TerminateGui
  BY <1>9 DEF TerminateGui
<1>10. CASE JoinWorker
  BY <1>10 DEF JoinWorker, WorkerEnded
<1>11. CASE TerminateWorker
  BY <1>11 DEF TerminateWorker
<1>12. CASE Interrupt
  BY <1>12 DEF Interrupt
<1>13. CASE GuiSetWrites
  BY <1>13 DEF GuiSetWrites
<1>14. CASE GuiRequestReads
  BY <1>14 DEF GuiRequestReads
<1>15. CASE GuiRequestWrites
  <2>1. control' \in Controls
    BY Zenon, <1>15, FlagTyped DEF GuiRequestWrites
  <2>2. guiUpdate' = "none" /\ guiRequests' \in 0..2
    BY <1>15 DEF GuiRequestWrites
  <2>3. supervisorRead' = supervisorRead /\ guiRead' = guiRead /\ supervisor' = supervisor
        /\ requests' = requests /\ gui' = gui /\ worker' = worker /\ applied' = applied
        /\ failures' = failures
    BY <1>15 DEF GuiRequestWrites
  <2>4. QED
    BY <2>1, <2>2, <2>3
<1>16. CASE GuiRequestFails
  BY <1>16 DEF GuiRequestFails, SupervisorUpdates
<1>17. CASE GuiExits
  BY <1>17 DEF GuiExits
<1>18. CASE GuiSets
  BY <1>18 DEF GuiSets
<1>19. CASE GuiQuits
  BY <1>19 DEF GuiQuits
<1>20. CASE GuiCrashes
  BY <1>20 DEF GuiCrashes, GuiEnded
<1>21. CASE WorkerAttaches
  BY <1>21 DEF WorkerAttaches
<1>22. CASE WorkerAttachFails
  BY <1>22 DEF WorkerAttachFails, GuiUpdates, SupervisorUpdates
<1>23. CASE WorkerStarts
  BY <1>23 DEF WorkerStarts
<1>24. CASE WorkerPolls
  BY <1>24 DEF WorkerPolls
<1>25. CASE WorkerPollFails
  BY <1>25 DEF WorkerPollFails, GuiUpdates, SupervisorUpdates
<1>26. CASE WorkerStops
  BY <1>26 DEF WorkerStops
<1>27. CASE WorkerRaises
  BY <1>27 DEF WorkerRaises
<1>28. CASE WorkerDies
  BY <1>28 DEF WorkerDies, WorkerEnded
<1>29. CASE WorkerHangs
  BY <1>29 DEF WorkerHangs
<1>30. CASE UNCHANGED vars
  BY <1>30 DEF vars
<1>31. QED
  BY Zenon, <1>1, <1>2, <1>3, <1>4, <1>5, <1>6, <1>7, <1>8, <1>9, <1>10, <1>11, <1>12,
     <1>13, <1>14, <1>15, <1>16, <1>17, <1>18, <1>19, <1>20, <1>21, <1>22, <1>23, <1>24,
     <1>25, <1>26, <1>27, <1>28, <1>29, <1>30 DEF Next, Supervisor, Gui, Worker

\* A step keeps the control's updates apart.
LEMMA ControlStep ==
  ASSUME Flags, Flags', Rest, Rest', GuiInv, ControlInv, [Next]_vars PROVE ControlInv'
<1> USE DEF Flags, Rest, GuiInv, ControlInv, Leaving, Controls, supervisorVars, guiVars,
        workerVars, ghostVars
<1>1. CASE ReadControl
  BY <1>1 DEF ReadControl
<1>2. CASE ReadControlFails
  BY <1>2 DEF ReadControlFails, GuiUpdates
<1>3. CASE CheckGui
  BY <1>3 DEF CheckGui, GuiEnded
<1>4. CASE CheckWorker
  BY <1>4 DEF CheckWorker, WorkerEnded
<1>5. CASE RequestReads
  BY <1>5 DEF RequestReads
<1>6. CASE RequestWrites
  BY <1>6 DEF RequestWrites, NextRequest
<1>7. CASE RequestFails
  BY <1>7 DEF RequestFails, NextRequest, GuiUpdates
<1>8. CASE JoinGui
  BY <1>8 DEF JoinGui, GuiEnded
<1>9. CASE TerminateGui
  BY <1>9 DEF TerminateGui
<1>10. CASE JoinWorker
  BY <1>10 DEF JoinWorker, WorkerEnded
<1>11. CASE TerminateWorker
  BY <1>11 DEF TerminateWorker
<1>12. CASE Interrupt
  BY <1>12 DEF Interrupt
<1>13. CASE GuiSetWrites
  BY <1>13 DEF GuiSetWrites
<1>14. CASE GuiRequestReads
  BY <1>14 DEF GuiRequestReads
<1>15. CASE GuiRequestWrites
  BY <1>15 DEF GuiRequestWrites
<1>16. CASE GuiRequestFails
  BY <1>16 DEF GuiRequestFails, SupervisorUpdates
<1>17. CASE GuiExits
  BY <1>17 DEF GuiExits
<1>18. CASE GuiSets
  BY <1>18 DEF GuiSets
<1>19. CASE GuiQuits
  BY <1>19 DEF GuiQuits
<1>20. CASE GuiCrashes
  BY <1>20 DEF GuiCrashes, GuiEnded
<1>21. CASE WorkerAttaches
  BY <1>21 DEF WorkerAttaches
<1>22. CASE WorkerAttachFails
  BY <1>22 DEF WorkerAttachFails, GuiUpdates, SupervisorUpdates
<1>23. CASE WorkerStarts
  BY <1>23 DEF WorkerStarts
<1>24. CASE WorkerPolls
  BY <1>24 DEF WorkerPolls
<1>25. CASE WorkerPollFails
  BY <1>25 DEF WorkerPollFails, GuiUpdates, SupervisorUpdates
<1>26. CASE WorkerStops
  BY <1>26 DEF WorkerStops
<1>27. CASE WorkerRaises
  BY <1>27 DEF WorkerRaises
<1>28. CASE WorkerDies
  BY <1>28 DEF WorkerDies, WorkerEnded
<1>29. CASE WorkerHangs
  BY <1>29 DEF WorkerHangs
<1>30. CASE UNCHANGED vars
  BY <1>30 DEF vars
<1>31. QED
  BY Zenon, <1>1, <1>2, <1>3, <1>4, <1>5, <1>6, <1>7, <1>8, <1>9, <1>10, <1>11, <1>12,
     <1>13, <1>14, <1>15, <1>16, <1>17, <1>18, <1>19, <1>20, <1>21, <1>22, <1>23, <1>24,
     <1>25, <1>26, <1>27, <1>28, <1>29, <1>30 DEF Next, Supervisor, Gui, Worker

\* A step keeps the order in which the run ends.
LEMMA EndStep ==
  ASSUME Flags, Flags', Rest, Rest', ControlInv, EndInv, [Next]_vars PROVE EndInv'
<1> USE DEF Flags, Rest, ControlInv, EndInv, Leaving, GuiEnded, WorkerEnded, supervisorVars,
        guiVars, workerVars, ghostVars
<1>1. CASE ReadControl
  BY <1>1 DEF ReadControl
<1>2. CASE ReadControlFails
  BY <1>2 DEF ReadControlFails, GuiUpdates
<1>3. CASE CheckGui
  BY <1>3 DEF CheckGui, GuiEnded
<1>4. CASE CheckWorker
  BY <1>4 DEF CheckWorker, WorkerEnded
<1>5. CASE RequestReads
  BY <1>5 DEF RequestReads
<1>6. CASE RequestWrites
  BY <1>6 DEF RequestWrites, NextRequest
<1>7. CASE RequestFails
  BY <1>7 DEF RequestFails, NextRequest, GuiUpdates
<1>8. CASE JoinGui
  BY <1>8 DEF JoinGui, GuiEnded
<1>9. CASE TerminateGui
  BY <1>9 DEF TerminateGui
<1>10. CASE JoinWorker
  BY <1>10 DEF JoinWorker, WorkerEnded
<1>11. CASE TerminateWorker
  BY <1>11 DEF TerminateWorker
<1>12. CASE Interrupt
  BY <1>12 DEF Interrupt
<1>13. CASE GuiSetWrites
  BY <1>13 DEF GuiSetWrites
<1>14. CASE GuiRequestReads
  BY <1>14 DEF GuiRequestReads
<1>15. CASE GuiRequestWrites
  BY <1>15 DEF GuiRequestWrites
<1>16. CASE GuiRequestFails
  BY <1>16 DEF GuiRequestFails, SupervisorUpdates
<1>17. CASE GuiExits
  BY <1>17 DEF GuiExits
<1>18. CASE GuiSets
  BY <1>18 DEF GuiSets
<1>19. CASE GuiQuits
  BY <1>19 DEF GuiQuits
<1>20. CASE GuiCrashes
  BY <1>20 DEF GuiCrashes, GuiEnded
<1>21. CASE WorkerAttaches
  BY <1>21 DEF WorkerAttaches
<1>22. CASE WorkerAttachFails
  BY <1>22 DEF WorkerAttachFails, GuiUpdates, SupervisorUpdates
<1>23. CASE WorkerStarts
  BY <1>23 DEF WorkerStarts
<1>24. CASE WorkerPolls
  BY <1>24 DEF WorkerPolls
<1>25. CASE WorkerPollFails
  BY <1>25 DEF WorkerPollFails, GuiUpdates, SupervisorUpdates
<1>26. CASE WorkerStops
  BY <1>26 DEF WorkerStops
<1>27. CASE WorkerRaises
  BY <1>27 DEF WorkerRaises
<1>28. CASE WorkerDies
  BY <1>28 DEF WorkerDies, WorkerEnded
<1>29. CASE WorkerHangs
  BY <1>29 DEF WorkerHangs
<1>30. CASE UNCHANGED vars
  BY <1>30 DEF vars
<1>31. QED
  BY Zenon, <1>1, <1>2, <1>3, <1>4, <1>5, <1>6, <1>7, <1>8, <1>9, <1>10, <1>11, <1>12,
     <1>13, <1>14, <1>15, <1>16, <1>17, <1>18, <1>19, <1>20, <1>21, <1>22, <1>23, <1>24,
     <1>25, <1>26, <1>27, <1>28, <1>29, <1>30 DEF Next, Supervisor, Gui, Worker

\* The invariant, whole.
RunInv == Flags /\ Rest /\ GuiInv /\ ControlInv /\ EndInv

\* It holds throughout.
LEMMA RunHolds == Spec => []RunInv
<1>1. Init => RunInv
  <2>1. Init => Flags
    BY Zenon DEF Init, Flags
  <2>2. Init => Rest
    BY BoundsAssumption DEF Init, Rest, Controls, FirstControl
  <2>3. Init => GuiInv /\ ControlInv /\ EndInv
    BY DEF Init, GuiInv, ControlInv, EndInv, Leaving
  <2>4. QED
    BY <2>1, <2>2, <2>3 DEF RunInv
<1>2. RunInv /\ [Next]_vars => RunInv'
  <2> SUFFICES ASSUME RunInv, [Next]_vars PROVE RunInv'
    OBVIOUS
  <2>1. Flags /\ Rest /\ GuiInv /\ ControlInv /\ EndInv
    BY Zenon DEF RunInv
  <2>2. Flags' /\ Rest' /\ GuiInv'
    BY Zenon, <2>1, FlagsStep, RestStep
  <2>3. ControlInv' /\ EndInv'
    BY Zenon, <2>1, <2>2, ControlStep, EndStep
  <2>4. QED
    BY Zenon, <2>2, <2>3 DEF RunInv
<1>3. QED
  BY <1>1, <1>2, PTL DEF Spec

\* Every variable of the three processes and of the control slot keeps its type.
THEOREM RunTyped == Spec => []TypeOK
<1>1. RunInv => TypeOK
  BY Zenon, TypeParts DEF RunInv
<1>2. QED
  BY <1>1, RunHolds, PTL

\* run_live_analysis unlinks the slots only when neither child is left to use them.
THEOREM MemoryStays == Spec => []MemoryOutlivesUsers
<1>1. RunInv => MemoryOutlivesUsers
  BY Zenon DEF RunInv, EndInv, MemoryOutlivesUsers
<1>2. QED
  BY <1>1, RunHolds, PTL

\* _stop_child_process terminates no worker that would have stopped its source: the
\* request to stop is never lost between the processes that update the control.
THEOREM WorkersStopThemselves == Spec => []OnlyStuckWorkersTerminated
<1>1. RunInv => OnlyStuckWorkersTerminated
  BY Zenon DEF RunInv, EndInv, OnlyStuckWorkersTerminated
<1>2. QED
  BY <1>1, RunHolds, PTL

\* No update of the control takes back another process's.
THEOREM UpdatesStay == Spec => UpdatesAreKept
<1> DEFINE Keeps == ~broken => IF control.stop THEN control'.stop
                               ELSE control'.revision >= control.revision
<1>1. ASSUME RunInv, [Next]_vars PROVE [Keeps]_control
  <2> USE <1>1 DEF RunInv, Flags, Rest, GuiInv, ControlInv, Controls
  <2>1. CASE RequestWrites
    BY <2>1 DEF RequestWrites
  <2>2. CASE GuiSetWrites
    BY <2>2 DEF GuiSetWrites
  <2>3. CASE GuiRequestWrites
    BY <2>3 DEF GuiRequestWrites
  <2>4. CASE ~(RequestWrites \/ GuiSetWrites \/ GuiRequestWrites)
    <3>1. control' = control
      BY Zenon, <1>1, <2>4 DEF Next, vars, Supervisor, Gui, Worker, ReadControl,
         ReadControlFails, CheckGui, CheckWorker, RequestReads, RequestFails, JoinGui,
         TerminateGui, JoinWorker, TerminateWorker, Interrupt, GuiRequestReads,
         GuiRequestFails, GuiExits, GuiSets, GuiQuits, GuiCrashes, WorkerAttaches,
         WorkerAttachFails, WorkerStarts, WorkerPolls, WorkerPollFails, WorkerStops,
         WorkerRaises, WorkerDies, WorkerHangs
    <3>2. QED
      BY <3>1
  <2>5. QED
    BY Zenon, <2>1, <2>2, <2>3, <2>4
<1>2. QED
  BY <1>1, RunHolds, PTL DEF Spec, UpdatesAreKept

=============================================================================
