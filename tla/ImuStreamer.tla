------------------------------ MODULE ImuStreamer ------------------------------
(***************************************************************************)
(* The life of a VescImuStreamer (vesc_py/imu_streamer.py): start and stop *)
(* called by a controlling thread, the reader thread _run that opens the   *)
(* port, starts the streaming package on the device, decodes what arrives  *)
(* and cleans up, and the port the two share, with no lock, through        *)
(* _serial_port.  A step is a stretch of one thread between two accesses   *)
(* to what the other can see.  What is decoded is left out but for whether *)
(* the reader holds samples it has not put into the pending buffer.        *)
(*                                                                         *)
(* Link says which transport open_blocking_io opened: a serial port, whose *)
(* calls raise OSErrors when it is closed or unplugged, or a BLE transport *)
(* behind TransportIoAdapter, whose send then raises RuntimeError and      *)
(* whose recv returns nothing.                                             *)
(*                                                                         *)
(* Time: only opening takes longer than the timeout of stop's join; a      *)
(* read returns within the port's timeout.                                 *)
(***************************************************************************)
EXTENDS Integers

CONSTANTS
  Link,        \* "serial" or "ble"
  MaxStarts    \* bound: calls of start

ASSUME LinkAssumption   == Link \in {"serial", "ble"}
ASSUME BoundsAssumption == MaxStarts \in Nat

VARIABLES
  \* the controlling thread
  call,        \* where in stop it is
  localPort,   \* stop's serial_port is not None
  starts,      \* calls of start so far
  \* shared
  stop,        \* _stop
  done,        \* _done
  portRef,     \* _serial_port is not None
  \* the reader thread
  pc,          \* where in _run it is
  buffered,    \* pending_timestamps is not empty
  \* the transport the reader opened last, and the device
  port,        \* none, open or closed
  linkUp,      \* the device can be reached through it
  streaming,   \* the device's package sends samples
  \* history variables
  timedOut,    \* a join of this reader ran out
  raised       \* a stop of this reader raised

controlVars == <<call, localPort, starts>>
sharedVars  == <<stop, done, portRef>>
readerVars  == <<pc, buffered>>
deviceVars  == <<port, linkUp, streaming>>
ghostVars   == <<timedOut, raised>>
vars == <<controlVars, sharedVars, readerVars, deviceVars, ghostVars>>

\* The reader thread is alive.
Alive == pc \notin {"none", "dead"}

Init ==
  /\ call = "none"
  /\ localPort = FALSE
  /\ starts = 0
  /\ stop = FALSE /\ done = FALSE /\ portRef = FALSE
  /\ pc = "none"
  /\ buffered = FALSE
  /\ port = "none" /\ linkUp = FALSE /\ streaming = FALSE
  /\ timedOut = FALSE /\ raised = FALSE

-----------------------------------------------------------------------------
(* The transport *)

CanWrite == port = "open" /\ linkUp

\* A read of a serial port that is closed or unplugged raises; of a BLE transport
\* it returns nothing.
ReadRaises == Link = "serial" /\ ~CanWrite

\* The device is unplugged, or out of reach.
LinkDrops ==
  /\ linkUp
  /\ linkUp' = FALSE
  /\ UNCHANGED <<controlVars, sharedVars, readerVars, port, streaming, ghostVars>>

-----------------------------------------------------------------------------
(* The controlling thread *)

\* start: nothing when the reader is alive.
Start ==
  /\ call = "none"
  /\ starts < MaxStarts
  /\ starts' = starts + 1
  /\ IF Alive
     THEN UNCHANGED <<stop, done, pc, ghostVars>>
     ELSE /\ stop' = FALSE
          /\ done' = FALSE
          /\ pc' = "opening"
          /\ timedOut' = FALSE /\ raised' = FALSE
  /\ UNCHANGED <<call, localPort, portRef, buffered, deviceVars>>

StopSets ==
  /\ call = "none"
  /\ stop' = TRUE
  /\ call' = "read"
  /\ UNCHANGED <<localPort, starts, done, portRef, readerVars, deviceVars, ghostVars>>

StopReads ==
  /\ call = "read"
  /\ localPort' = portRef
  /\ call' = IF portRef THEN "write" ELSE "join"
  /\ UNCHANGED <<starts, sharedVars, readerVars, deviceVars, ghostVars>>

\* The STOP command; only an OSError is caught.
StopWrites ==
  /\ call = "write"
  /\ IF CanWrite
     THEN streaming' = FALSE /\ call' = "join" /\ UNCHANGED raised
     ELSE /\ UNCHANGED streaming
          /\ IF Link = "serial" THEN call' = "join" /\ UNCHANGED raised
                                ELSE call' = "none" /\ raised' = TRUE
  /\ UNCHANGED <<localPort, starts, sharedVars, readerVars, port, linkUp, timedOut>>

\* Mutant of StopJoins: the reader is not waited for.
StopJoinsMutant ==
  /\ call = "join"
  /\ call' = "check"
  /\ UNCHANGED <<localPort, starts, sharedVars, readerVars, deviceVars, ghostVars>>

StopJoins ==
  /\ call = "join"
  /\ ~Alive
  /\ call' = "check"
  /\ UNCHANGED <<localPort, starts, sharedVars, readerVars, deviceVars, ghostVars>>

StopJoinTimesOut ==
  /\ call = "join"
  /\ pc = "opening"
  /\ timedOut' = TRUE
  /\ call' = "check"
  /\ UNCHANGED <<localPort, starts, sharedVars, readerVars, deviceVars, raised>>

\* Mutant of StopChecks: without a port to close there is no way back to the caller.
StopChecksMutant ==
  /\ call = "check"
  /\ call' = IF portRef THEN "close" ELSE "lost"
  /\ UNCHANGED <<localPort, starts, sharedVars, readerVars, deviceVars, ghostVars>>

StopChecks ==
  /\ call = "check"
  /\ call' = IF portRef THEN "close" ELSE "none"
  /\ UNCHANGED <<localPort, starts, sharedVars, readerVars, deviceVars, ghostVars>>

\* _serial_port is read again: the reader may have put None there.
StopCloses ==
  /\ call = "close"
  /\ IF portRef THEN port' = "closed" /\ call' = "clear" /\ UNCHANGED raised
                ELSE call' = "none" /\ raised' = TRUE /\ UNCHANGED port
  /\ UNCHANGED <<localPort, starts, sharedVars, readerVars, linkUp, streaming, timedOut>>

StopClears ==
  /\ call = "clear"
  /\ portRef' = FALSE
  /\ call' = "none"
  /\ UNCHANGED <<localPort, starts, stop, done, readerVars, deviceVars, ghostVars>>

StopContinues == \/ StopReads \/ StopWrites \/ StopJoins \/ StopChecks
                 \/ StopCloses \/ StopClears

-----------------------------------------------------------------------------
(* The reader thread: _run *)

Open ==
  /\ pc = "opening"
  /\ port' = "open" /\ linkUp' = TRUE
  /\ portRef' = TRUE
  /\ pc' = "start"
  /\ UNCHANGED <<controlVars, stop, done, buffered, streaming, ghostVars>>

OpenRaises ==
  /\ pc = "opening"
  /\ port' = "none" /\ linkUp' = FALSE
  /\ pc' = "flush"
  /\ UNCHANGED <<controlVars, sharedVars, buffered, streaming, ghostVars>>

\* The START command, to a device that obeys it or does not know it.
WriteStart ==
  /\ pc = "start"
  /\ IF CanWrite THEN streaming' \in {TRUE, streaming} /\ pc' = "ack"
                 ELSE pc' = "flush" /\ UNCHANGED streaming
  /\ UNCHANGED <<controlVars, sharedVars, buffered, port, linkUp, ghostVars>>

\* _read_ack: the acknowledgement comes, and samples may have come before it.
ReadAck ==
  /\ pc = "ack"
  /\ ~stop /\ CanWrite /\ streaming
  /\ pc' = "stream"
  /\ buffered' \in BOOLEAN
  /\ UNCHANGED <<controlVars, sharedVars, deviceVars, ghostVars>>

\* It does not come in time, is a refusal, or the wait is given up for stop.
AckFails ==
  /\ pc = "ack"
  /\ pc' = "flush"
  /\ UNCHANGED <<controlVars, sharedVars, buffered, deviceVars, ghostVars>>

\* _append_sample and _flush_pending: samples are kept until there are enough of
\* them or they are old enough.
Held == IF CanWrite /\ streaming THEN BOOLEAN ELSE {buffered, FALSE}

\* A round of the loop: samples are decoded, or flushed, or nothing came.
ReadSamples ==
  /\ pc = "stream"
  /\ ~stop
  /\ ~ReadRaises
  /\ buffered' \in Held
  /\ UNCHANGED <<controlVars, sharedVars, pc, deviceVars, ghostVars>>

\* Mutant of LeaveStream: the loop does not look at stop.
LeaveStreamMutant ==
  /\ pc = "stream"
  /\ ReadRaises
  /\ pc' = "flush"
  /\ UNCHANGED <<controlVars, sharedVars, buffered, deviceVars, ghostVars>>

LeaveStream ==
  /\ pc = "stream"
  /\ stop \/ ReadRaises
  /\ pc' = "flush"
  /\ UNCHANGED <<controlVars, sharedVars, buffered, deviceVars, ghostVars>>

\* finally: _flush_pending ...
Flush ==
  /\ pc = "flush"
  /\ buffered' = FALSE
  /\ pc' = "finish"
  /\ UNCHANGED <<controlVars, sharedVars, deviceVars, ghostVars>>

\* Mutant of Finish: the STOP command is left to stop.
FinishMutant ==
  /\ pc = "finish"
  /\ pc' = IF portRef THEN "finish_close" ELSE "set_done"
  /\ UNCHANGED <<controlVars, sharedVars, buffered, deviceVars, ghostVars>>

\* ... then the port, read once ...
Finish ==
  /\ pc = "finish"
  /\ pc' = IF portRef THEN "finish_write" ELSE "set_done"
  /\ UNCHANGED <<controlVars, sharedVars, buffered, deviceVars, ghostVars>>

\* Mutant of FinishWrites: no error of the write is caught.
FinishWritesMutant ==
  /\ pc = "finish_write"
  /\ IF CanWrite
     THEN streaming' = FALSE /\ pc' = "finish_close"
     ELSE pc' = "dead" /\ UNCHANGED streaming
  /\ UNCHANGED <<controlVars, sharedVars, buffered, port, linkUp, ghostVars>>

\* ... the STOP command, of which only an OSError is caught ...
FinishWrites ==
  /\ pc = "finish_write"
  /\ IF CanWrite
     THEN streaming' = FALSE /\ pc' = "finish_close"
     ELSE /\ pc' = IF Link = "serial" THEN "finish_close" ELSE "dead"
          /\ UNCHANGED streaming
  /\ UNCHANGED <<controlVars, sharedVars, buffered, port, linkUp, ghostVars>>

FinishCloses ==
  /\ pc = "finish_close"
  /\ port' = "closed"
  /\ pc' = "finish_clear"
  /\ UNCHANGED <<controlVars, sharedVars, buffered, linkUp, streaming, ghostVars>>

FinishClears ==
  /\ pc = "finish_clear"
  /\ portRef' = FALSE
  /\ pc' = "set_done"
  /\ UNCHANGED <<controlVars, stop, done, buffered, deviceVars, ghostVars>>

SetDone ==
  /\ pc = "set_done"
  /\ done' = TRUE
  /\ pc' = "dead"
  /\ UNCHANGED <<controlVars, stop, portRef, buffered, deviceVars, ghostVars>>

Reader == \/ Open \/ OpenRaises \/ WriteStart \/ ReadAck \/ AckFails \/ LeaveStream
          \/ Flush \/ Finish \/ FinishWrites \/ FinishCloses \/ FinishClears \/ SetDone

Next == \/ Start \/ StopSets \/ StopContinues \/ StopJoinTimesOut
        \/ Reader \/ ReadSamples \/ LinkDrops

\* Both threads are scheduled, and an open comes to an end; nobody has to call
\* start or stop.
Spec == Init /\ [][Next]_vars /\ WF_vars(Reader) /\ WF_vars(StopContinues)

-----------------------------------------------------------------------------
(* Properties *)

TypeOK ==
  /\ call \in {"none", "read", "write", "join", "check", "close", "clear"}
  /\ starts \in 0..MaxStarts
  /\ localPort \in BOOLEAN
  /\ stop \in BOOLEAN /\ done \in BOOLEAN /\ portRef \in BOOLEAN
  /\ buffered \in BOOLEAN
  /\ linkUp \in BOOLEAN /\ streaming \in BOOLEAN
  /\ timedOut \in BOOLEAN /\ raised \in BOOLEAN
  /\ pc \in {"none", "opening", "start", "ack", "stream", "flush", "finish", "finish_write",
             "finish_close", "finish_clear", "set_done", "dead"}
  /\ port \in {"none", "open", "closed"}

\* A stop, wherever it catches the reader, opening included, ends it and closes its port.
StopEndsReader == stop ~> (~stop \/ (~Alive /\ port # "open"))

\* A reader that is over says so, with its port closed and forgotten and its last
\* samples in the pending buffer, whatever failed on its way.
OverIsReported == pc = "dead" => done /\ port # "open" /\ ~portRef /\ ~buffered

\* A reader that is over leaves no device streaming behind that it could still reach,
\* unless a join of it ran out: stop may then close the port between the reader's
\* START and its STOP.
DeviceIsStopped == pc = "dead" /\ linkUp /\ ~timedOut => ~streaming

\* stop gets through its unlocked look at _serial_port, and a start that follows a
\* stop that returned starts a reader, unless the stop's join ran out.
StopIsClean == ~timedOut => ~raised /\ (Alive /\ stop => call # "none")

\* "Stop package streaming and close the transport."
StopClosesTransport == call = "none" /\ stop /\ ~Alive => port # "open"

=============================================================================
