-------------------------- MODULE ImuStreamer_proofs --------------------------
(***************************************************************************)
(* What a reader of an IMU stream leaves behind, whatever fails on its way *)
(* and wherever a stop catches it, for any number of starts.               *)
(*                                                                         *)
(* The invariant is about two threads, so each of its parts says what one  *)
(* of them may rely on while it is between two of its accesses to the      *)
(* port.  Flags are kept apart from the rest of the types: the provers     *)
(* want their types on both sides of a step.                               *)
(***************************************************************************)
EXTENDS ImuStreamer, TLAPS

FlagsOK ==
  /\ localPort \in BOOLEAN
  /\ stop \in BOOLEAN /\ done \in BOOLEAN /\ portRef \in BOOLEAN
  /\ buffered \in BOOLEAN
  /\ linkUp \in BOOLEAN /\ streaming \in BOOLEAN
  /\ timedOut \in BOOLEAN /\ raised \in BOOLEAN

PlacesOK ==
  /\ call \in {"none", "read", "write", "join", "check", "close", "clear"}
  /\ starts \in 0..MaxStarts
  /\ pc \in {"none", "opening", "start", "ack", "stream", "flush", "finish", "finish_write",
             "finish_close", "finish_clear", "set_done", "dead"}
  /\ port \in {"none", "open", "closed"}

\* Without _serial_port no port is open, stop closes it before it clears it, and no
\* reader opens another while stop is at that.
Owned ==
  /\ ~portRef => port # "open"
  /\ call = "clear" => port # "open"
  /\ call \in {"close", "clear"} => pc \notin {"none", "opening"}
  /\ pc \in {"none", "opening"} => ~portRef /\ ~buffered

\* What the reader has done of its finally clause.
Closing ==
  /\ pc \in {"finish", "finish_write", "finish_close", "finish_clear", "set_done"} => ~buffered
  /\ pc = "finish_clear" => port # "open"
  /\ pc = "set_done" => ~portRef

\* As long as no join ran out, stop does not touch the port of a reader that runs, so
\* that the reader has it when it writes STOP.
Unhurried ==
  ~timedOut =>
    /\ Alive => call \notin {"check", "close", "clear"}
    /\ call = "close" => portRef
    /\ linkUp /\ pc \in {"start", "ack", "stream", "flush", "finish", "finish_write"}
         => port = "open" /\ portRef
    /\ linkUp /\ pc \in {"finish_close", "finish_clear", "set_done"} => ~streaming

CleanupInv  == TypeOK /\ Owned /\ Closing /\ OverIsReported
StreamerInv == CleanupInv /\ Unhurried /\ DeviceIsStopped /\ StopIsClean

-----------------------------------------------------------------------------
(* Types.                                                                   *)

\* TypeOK is the two of them.
LEMMA TypeParts == TypeOK <=> FlagsOK /\ PlacesOK
  BY Zenon DEF TypeOK, FlagsOK, PlacesOK

\* Every step keeps the flags Boolean.
LEMMA FlagsStep == ASSUME FlagsOK, [Next]_vars PROVE FlagsOK'
<1> USE DEF FlagsOK, controlVars, sharedVars, readerVars, deviceVars, ghostVars
<1>1. CASE Start
  BY Zenon, <1>1 DEF Start
<1>2. CASE StopSets
  BY Zenon, <1>2 DEF StopSets
<1>3. CASE StopReads
  BY Zenon, <1>3 DEF StopReads
<1>4. CASE StopWrites
  BY Zenon, <1>4 DEF StopWrites
<1>5. CASE StopJoins
  BY Zenon, <1>5 DEF StopJoins
<1>6. CASE StopJoinTimesOut
  BY Zenon, <1>6 DEF StopJoinTimesOut
<1>7. CASE StopChecks
  BY Zenon, <1>7 DEF StopChecks
<1>8. CASE StopCloses
  BY Zenon, <1>8 DEF StopCloses
<1>9. CASE StopClears
  BY Zenon, <1>9 DEF StopClears
<1>10. CASE Open
  BY Zenon, <1>10 DEF Open
<1>11. CASE OpenRaises
  BY Zenon, <1>11 DEF OpenRaises
<1>12. CASE WriteStart
  BY Zenon, <1>12 DEF WriteStart
<1>13. CASE ReadAck
  BY Zenon, <1>13 DEF ReadAck
<1>14. CASE AckFails
  BY Zenon, <1>14 DEF AckFails
<1>15. CASE ReadSamples
  BY Zenon, <1>15 DEF ReadSamples, Held
<1>16. CASE LeaveStream
  BY Zenon, <1>16 DEF LeaveStream
<1>17. CASE Flush
  BY Zenon, <1>17 DEF Flush
<1>18. CASE Finish
  BY Zenon, <1>18 DEF Finish
<1>19. CASE FinishWrites
  BY Zenon, <1>19 DEF FinishWrites
<1>20. CASE FinishCloses
  BY Zenon, <1>20 DEF FinishCloses
<1>21. CASE FinishClears
  BY Zenon, <1>21 DEF FinishClears
<1>22. CASE SetDone
  BY Zenon, <1>22 DEF SetDone
<1>23. CASE LinkDrops
  BY Zenon, <1>23 DEF LinkDrops
<1>24. CASE UNCHANGED vars
  BY Zenon, <1>24 DEF vars
<1>25. QED
  BY Zenon, <1>1, <1>2, <1>3, <1>4, <1>5, <1>6, <1>7, <1>8, <1>9, <1>10, <1>11, <1>12,
     <1>13, <1>14, <1>15, <1>16, <1>17, <1>18, <1>19, <1>20, <1>21, <1>22, <1>23, <1>24
     DEF Next, Reader, StopContinues

\* Every step keeps the two threads, the port and the number of starts where they may be.
LEMMA PlacesStep == ASSUME PlacesOK, [Next]_vars PROVE PlacesOK'
<1> USE DEF PlacesOK, controlVars, sharedVars, readerVars, deviceVars, ghostVars
<1>1. CASE Start
  BY <1>1, BoundsAssumption DEF Start
<1>2. CASE StopSets
  BY <1>2 DEF StopSets
<1>3. CASE StopReads
  BY <1>3 DEF StopReads
<1>4. CASE StopWrites
  BY <1>4 DEF StopWrites
<1>5. CASE StopJoins
  BY <1>5 DEF StopJoins
<1>6. CASE StopJoinTimesOut
  BY <1>6 DEF StopJoinTimesOut
<1>7. CASE StopChecks
  BY <1>7 DEF StopChecks
<1>8. CASE StopCloses
  BY <1>8 DEF StopCloses
<1>9. CASE StopClears
  BY <1>9 DEF StopClears
<1>10. CASE Open
  BY <1>10 DEF Open
<1>11. CASE OpenRaises
  BY <1>11 DEF OpenRaises
<1>12. CASE WriteStart
  BY <1>12 DEF WriteStart
<1>13. CASE ReadAck
  BY <1>13 DEF ReadAck
<1>14. CASE AckFails
  BY <1>14 DEF AckFails
<1>15. CASE ReadSamples
  BY <1>15 DEF ReadSamples
<1>16. CASE LeaveStream
  BY <1>16 DEF LeaveStream
<1>17. CASE Flush
  BY <1>17 DEF Flush
<1>18. CASE Finish
  BY <1>18 DEF Finish
<1>19. CASE FinishWrites
  BY <1>19 DEF FinishWrites
<1>20. CASE FinishCloses
  BY <1>20 DEF FinishCloses
<1>21. CASE FinishClears
  BY <1>21 DEF FinishClears
<1>22. CASE SetDone
  BY <1>22 DEF SetDone
<1>23. CASE LinkDrops
  BY <1>23 DEF LinkDrops
<1>24. CASE UNCHANGED vars
  BY <1>24 DEF vars
<1>25. QED
  BY Zenon, <1>1, <1>2, <1>3, <1>4, <1>5, <1>6, <1>7, <1>8, <1>9, <1>10, <1>11, <1>12,
     <1>13, <1>14, <1>15, <1>16, <1>17, <1>18, <1>19, <1>20, <1>21, <1>22, <1>23, <1>24
     DEF Next, Reader, StopContinues

-----------------------------------------------------------------------------
(* The reader's cleanup, over a serial port.                                *)

\* A step of start or stop.
LEMMA ControlKeepsCleanup ==
  ASSUME Link = "serial", CleanupInv, Start \/ StopSets \/ StopContinues \/ StopJoinTimesOut
  PROVE  Owned' /\ Closing' /\ OverIsReported'
<1> USE DEF CleanupInv, Owned, Closing, OverIsReported, controlVars, sharedVars,
        readerVars, deviceVars, ghostVars
<1>1. FlagsOK /\ PlacesOK /\ FlagsOK' /\ PlacesOK'
  BY TypeParts, FlagsStep, PlacesStep DEF Next, CleanupInv
<1> USE <1>1 DEF FlagsOK, PlacesOK
<1>2. CASE Start
  BY <1>2 DEF Start, Alive
<1>3. CASE StopSets
  BY <1>3 DEF StopSets
<1>4. CASE StopReads
  BY <1>4 DEF StopReads
<1>5. CASE StopWrites
  BY <1>5 DEF StopWrites
<1>6. CASE StopJoins
  BY <1>6 DEF StopJoins
<1>7. CASE StopJoinTimesOut
  BY <1>7 DEF StopJoinTimesOut
<1>8. CASE StopChecks
  BY <1>8 DEF StopChecks
<1>9. CASE StopCloses
  BY <1>9 DEF StopCloses
<1>10. CASE StopClears
  BY <1>10 DEF StopClears
<1>11. QED
  BY Zenon, <1>2, <1>3, <1>4, <1>5, <1>6, <1>7, <1>8, <1>9, <1>10 DEF StopContinues

\* A step of the reader, or of the link.
LEMMA ReaderKeepsCleanup ==
  ASSUME Link = "serial", CleanupInv, Reader \/ ReadSamples \/ LinkDrops
  PROVE  Owned' /\ Closing' /\ OverIsReported'
<1> USE DEF CleanupInv, Owned, Closing, OverIsReported, controlVars, sharedVars,
        readerVars, deviceVars, ghostVars
<1>1. FlagsOK /\ PlacesOK /\ FlagsOK' /\ PlacesOK'
  BY TypeParts, FlagsStep, PlacesStep DEF Next, CleanupInv
<1> USE <1>1 DEF FlagsOK, PlacesOK
<1>2. CASE Open
  BY Zenon, <1>2 DEF Open
<1>3. CASE OpenRaises
  BY <1>3 DEF OpenRaises
<1>4. CASE WriteStart
  BY <1>4 DEF WriteStart
<1>5. CASE ReadAck
  BY <1>5 DEF ReadAck
<1>6. CASE AckFails
  BY <1>6 DEF AckFails
<1>7. CASE ReadSamples
  BY <1>7 DEF ReadSamples
<1>8. CASE LeaveStream
  BY <1>8 DEF LeaveStream
<1>9. CASE Flush
  BY <1>9 DEF Flush
<1>10. CASE Finish
  BY <1>10 DEF Finish
<1>11. CASE FinishWrites
  BY <1>11 DEF FinishWrites
<1>12. CASE FinishCloses
  BY <1>12 DEF FinishCloses
<1>13. CASE FinishClears
  BY <1>13 DEF FinishClears
<1>14. CASE SetDone
  BY <1>14 DEF SetDone
<1>15. CASE LinkDrops
  BY <1>15 DEF LinkDrops
<1>16. QED
  BY Zenon, <1>2, <1>3, <1>4, <1>5, <1>6, <1>7, <1>8, <1>9, <1>10, <1>11, <1>12, <1>13,
     <1>14, <1>15 DEF Reader

-----------------------------------------------------------------------------
(* The device and stop, over a serial port.                                 *)

\* A step of start or stop.
LEMMA ControlKeepsDevice ==
  ASSUME Link = "serial", StreamerInv, Start \/ StopSets \/ StopContinues \/ StopJoinTimesOut
  PROVE  Unhurried' /\ DeviceIsStopped' /\ StopIsClean'
<1> USE DEF StreamerInv, CleanupInv, Owned, Unhurried, DeviceIsStopped, StopIsClean, Alive,
        controlVars, sharedVars, readerVars, deviceVars, ghostVars
<1>1. FlagsOK /\ PlacesOK /\ FlagsOK' /\ PlacesOK'
  BY TypeParts, FlagsStep, PlacesStep DEF Next, StreamerInv, CleanupInv
<1> USE <1>1 DEF FlagsOK, PlacesOK
<1>2. CASE Start
  BY <1>2 DEF Start
<1>3. CASE StopSets
  BY <1>3 DEF StopSets
<1>4. CASE StopReads
  BY <1>4 DEF StopReads
<1>5. CASE StopWrites
  BY <1>5 DEF StopWrites
<1>6. CASE StopJoins
  BY <1>6 DEF StopJoins
<1>7. CASE StopJoinTimesOut
  BY <1>7 DEF StopJoinTimesOut
<1>8. CASE StopChecks
  BY <1>8 DEF StopChecks
<1>9. CASE StopCloses
  BY <1>9 DEF StopCloses
<1>10. CASE StopClears
  BY <1>10 DEF StopClears
<1>11. QED
  BY Zenon, <1>2, <1>3, <1>4, <1>5, <1>6, <1>7, <1>8, <1>9, <1>10 DEF StopContinues

\* A step of the reader, or of the link.
LEMMA ReaderKeepsDevice ==
  ASSUME Link = "serial", StreamerInv, Reader \/ ReadSamples \/ LinkDrops
  PROVE  Unhurried' /\ DeviceIsStopped' /\ StopIsClean'
<1> USE DEF StreamerInv, CleanupInv, Owned, Unhurried, DeviceIsStopped, StopIsClean, Alive,
        controlVars, sharedVars, readerVars, deviceVars, ghostVars
<1>1. FlagsOK /\ PlacesOK /\ FlagsOK' /\ PlacesOK'
  BY TypeParts, FlagsStep, PlacesStep DEF Next, StreamerInv, CleanupInv
<1> USE <1>1 DEF FlagsOK, PlacesOK
<1>2. CASE Open
  BY Zenon, <1>2 DEF Open
<1>3. CASE OpenRaises
  BY <1>3 DEF OpenRaises
<1>4. CASE WriteStart
  BY <1>4 DEF WriteStart
<1>5. CASE ReadAck
  BY <1>5 DEF ReadAck
<1>6. CASE AckFails
  BY <1>6 DEF AckFails
<1>7. CASE ReadSamples
  BY <1>7 DEF ReadSamples
<1>8. CASE LeaveStream
  BY <1>8 DEF LeaveStream
<1>9. CASE Flush
  BY <1>9 DEF Flush
<1>10. CASE Finish
  BY <1>10 DEF Finish
<1>11. CASE FinishWrites
  BY <1>11 DEF FinishWrites, CanWrite
<1>12. CASE FinishCloses
  BY <1>12 DEF FinishCloses
<1>13. CASE FinishClears
  BY <1>13 DEF FinishClears
<1>14. CASE SetDone
  BY <1>14 DEF SetDone
<1>15. CASE LinkDrops
  BY <1>15 DEF LinkDrops
<1>16. QED
  BY Zenon, <1>2, <1>3, <1>4, <1>5, <1>6, <1>7, <1>8, <1>9, <1>10, <1>11, <1>12, <1>13,
     <1>14, <1>15 DEF Reader

-----------------------------------------------------------------------------
(* Theorems.                                                                *)

\* Over either transport every variable keeps its type.
THEOREM StreamerTyped == Spec => []TypeOK
<1>1. Init => FlagsOK /\ PlacesOK
  <2>1. Init => FlagsOK
    BY Zenon DEF Init, FlagsOK
  <2>2. Init => PlacesOK
    BY BoundsAssumption DEF Init, PlacesOK
  <2>3. QED
    BY <2>1, <2>2
<1>2. FlagsOK /\ PlacesOK /\ [Next]_vars => (FlagsOK /\ PlacesOK)'
  BY FlagsStep, PlacesStep
<1>3. QED
  BY <1>1, <1>2, TypeParts, PTL DEF Spec

\* The cleanup's invariant holds.
LEMMA CleanupHolds ==
  ASSUME Link = "serial"
  PROVE  Spec => [](Owned /\ Closing /\ OverIsReported)
<1>1. Init => Owned /\ Closing /\ OverIsReported
  BY Zenon DEF Init, Owned, Closing, OverIsReported
<1>2. CleanupInv /\ [Next]_vars => (Owned /\ Closing /\ OverIsReported)'
  <2>1. ASSUME CleanupInv, UNCHANGED vars
        PROVE  (Owned /\ Closing /\ OverIsReported)'
    BY Zenon, <2>1 DEF CleanupInv, Owned, Closing, OverIsReported, vars, controlVars,
       sharedVars, readerVars, deviceVars
  <2>2. QED
    BY <2>1, ControlKeepsCleanup, ReaderKeepsCleanup DEF Next
<1>3. QED
  BY <1>1, <1>2, StreamerTyped, PTL DEF Spec, CleanupInv

\* Over a serial port, a reader that is over has closed and forgotten its port, flushed
\* its samples and set _done, whatever failed: the open, the START or STOP command, a
\* read, the link, or a join of stop.
THEOREM ReadersReport ==
  ASSUME Link = "serial"
  PROVE  Spec => []OverIsReported
  BY CleanupHolds, PTL

\* The device's invariant holds, with that of the cleanup.
LEMMA DeviceHolds ==
  ASSUME Link = "serial"
  PROVE  Spec => [](DeviceIsStopped /\ StopIsClean)
<1>1. Init => Unhurried /\ DeviceIsStopped /\ StopIsClean
  BY Zenon DEF Init, Unhurried, DeviceIsStopped, StopIsClean, Alive
<1>2. Spec => []CleanupInv
  BY StreamerTyped, CleanupHolds, PTL DEF CleanupInv
<1>3. StreamerInv /\ [Next]_vars => (Unhurried /\ DeviceIsStopped /\ StopIsClean)'
  <2>1. ASSUME StreamerInv, UNCHANGED vars
        PROVE  (Unhurried /\ DeviceIsStopped /\ StopIsClean)'
    BY Zenon, <2>1 DEF StreamerInv, Unhurried, DeviceIsStopped, StopIsClean, Alive, vars,
       controlVars, sharedVars, readerVars, deviceVars, ghostVars
  <2>2. QED
    BY <2>1, ControlKeepsDevice, ReaderKeepsDevice DEF Next
<1>4. QED
  BY <1>1, <1>2, <1>3, PTL DEF Spec, StreamerInv

\* Over a serial port, and as long as no join of stop runs out, a reader that is over
\* leaves no device streaming that it could still reach.
THEOREM DevicesStop ==
  ASSUME Link = "serial"
  PROVE  Spec => []DeviceIsStopped
  BY DeviceHolds, PTL

\* Over a serial port, and as long as its join does not run out, stop gets through its
\* unlocked looks at _serial_port, and leaves no reader in the way of the next start.
THEOREM StopsAreClean ==
  ASSUME Link = "serial"
  PROVE  Spec => []StopIsClean
  BY DeviceHolds, PTL

=============================================================================
