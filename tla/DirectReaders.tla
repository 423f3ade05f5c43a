----------------------------- MODULE DirectReaders -----------------------------
(***************************************************************************)
(* What the programs do with their connection: poll_imu_fast.py and        *)
(* poll_imu_from_package_debug.py read it in their own loop; the reader    *)
(* threads of live_signal_analysis.py (VescImuBatchSignalSource, which is  *)
(* VescImuSignalSource for several axes) and of poll_imu_from_package.py   *)
(* (VescImuStreamer) read it beside a window.  The window of the package   *)
(* stops its reader to write another rate over the same connection, and    *)
(* starts it again.                                                        *)
(***************************************************************************)
EXTENDS ConnectionCli

CONSTANT Attempts       \* IMU_STREAMER_RESTART_ATTEMPTS
ASSUME AttemptsAssumption == Attempts \in Nat \ {0}

VARIABLES reader,       \* the thread: none, opening, reading, looks, closing, over
          port,         \* _serial_port is set
          done,         \* _done
          next,         \* what the window does when stop() has returned
          tries         \* attempts to restart the reader that are left

readers == <<reader, port, done, next, tries>>

Window == program \in {"bench", "package"}
Alive  == reader \notin {"none", "over"}

--------------------------------------------------------------------------------
(* poll_imu_fast.main: what opening raises ends it with a message.         *)
LoopOpens ==
  /\ program = "fast" /\ step = "run"
  /\ \/ Opens("io") /\ Goto("loop")
     \/ OpenFails /\ Goto("end")
  /\ UNCHANGED <<program, conn, left, cache, readers>>

LoopEnds ==
  /\ program = "fast" /\ step = "loop"
  /\ Closes("io")
  /\ Goto("end")
  /\ UNCHANGED <<program, conn, left, cache, readers>>

(* poll_imu_from_package_debug.main                                        *)
DebugOpens ==
  /\ program = "debug" /\ step = "run"
  /\ \/ Opens("io") /\ Goto("capture")
     \/ OpenFails /\ Goto("end")
  /\ UNCHANGED <<program, conn, left, cache, readers>>

(* debug_imu_stream starts the package and listens: to the end of its time *)
(* or its samples, to Ctrl-C, or to an exception of the port.              *)
DebugListens ==
  /\ program = "debug" /\ step = "capture"
  /\ Goto("stop")
  /\ UNCHANGED <<program, conn, left, cache, held, readers>>

(* A STOP command that cannot be written does not keep it from closing.    *)
DebugCloses ==
  /\ program = "debug" /\ step = "stop"
  /\ Closes("io")
  /\ Goto("end")
  /\ UNCHANGED <<program, conn, left, cache, readers>>

--------------------------------------------------------------------------------
(* start: nothing while the thread of an earlier start runs.               *)
Starts ==
  IF Alive
  THEN UNCHANGED <<reader, done>>
  ELSE reader' = "opening" /\ done' = FALSE

(* _run, of both classes                                                   *)
ReaderOpens ==
  /\ reader = "opening"
  /\ \/ Opens("io") /\ reader' = "reading" /\ port' = TRUE
     \/ OpenFails /\ reader' = "looks" /\ UNCHANGED port
  /\ UNCHANGED <<program, step, conn, left, cache, done, next, tries>>

(* The loop ends: _stop, an exception, the port gone, no START answer.     *)
(* What the reader does with its last samples is in ImuPolling.            *)
ReaderLeaves ==
  /\ reader = "reading"
  /\ reader' = "looks"
  /\ UNCHANGED <<cli, port, done, next, tries>>

ReaderLooks ==
  /\ reader = "looks"
  /\ IF port
     THEN reader' = "closing" /\ UNCHANGED done
     ELSE reader' = "over" /\ done' = TRUE
  /\ UNCHANGED <<cli, port, next, tries>>

(* A BLE link that went down makes the STOP of the streamer raise what it  *)
(* does not catch, here and in stop().                                     *)
StopRaises == program = "package" /\ conn = "ble" /\ held' = held \ {<<conn, "io">>}

(* The batch source reads _serial_port again to close it, and when stop()  *)
(* has cleared it the AttributeError ends the thread before _done is set.  *)
ReaderCloses ==
  /\ reader = "closing"
  /\ reader' = "over"
  /\ \/ /\ port \/ program = "package"
        /\ Closes("io") /\ port' = FALSE /\ done' = TRUE
     \/ ~port /\ program = "bench" /\ UNCHANGED <<held, port, done>>
     \/ StopRaises /\ UNCHANGED <<port, done>>
  /\ UNCHANGED <<program, step, conn, left, cache, next, tries>>

--------------------------------------------------------------------------------
(* read_imu_poll_rate_hz, before the streamer starts; a failure only warns. *)
ReadRate ==
  /\ program = "package" /\ step = "run"
  /\ \/ Opens("client") /\ Goto("rate")
     \/ OpenFails /\ Goto("start")
  /\ UNCHANGED <<program, conn, left, cache, readers>>

RateRead ==
  /\ step = "rate"
  /\ Closes("client") \/ HandshakeFails
  /\ Goto("start")
  /\ UNCHANGED <<program, conn, left, cache, readers>>

Show ==
  /\ \/ program = "bench" /\ step = "run"
     \/ program = "package" /\ step = "start"
  /\ Starts
  /\ Goto("view")
  /\ UNCHANGED <<program, conn, left, cache, held, port, next, tries>>

Stop(then) ==
  /\ Goto("join")
  /\ next' = then
  /\ UNCHANGED <<program, conn, left, cache, held, reader, port, done>>

(* The window closes: main's finally, LiveAnalysis's stop of its source.   *)
CloseView == Window /\ step = "view" /\ Stop("end") /\ UNCHANGED tries

(* _apply_selected_imu_poll_rate                                           *)
ChooseRate == program = "package" /\ step = "view" /\ Stop("write") /\ UNCHANGED tries

(* Where an exception of stop() leads.  A click's handler starts the reader *)
(* again and gives that a second round when the first one raises; what the *)
(* second raises, it passes over.                                          *)
FirstRound == next = "write" \/ (next = "restart" /\ tries >= Attempts)

AfterRaise ==
  \/ next = "end" /\ Goto("end") /\ UNCHANGED tries
  \/ next # "end" /\ FirstRound /\ Goto("restart") /\ tries' = Attempts
  \/ next # "end" /\ ~FirstRound /\ Goto("view") /\ UNCHANGED tries

(* stop(): its join ends with the thread, or runs out.                     *)
Joins ==
  /\ step = "join"
  /\ \/ Goto("look") /\ UNCHANGED <<held, tries>>
     \/ port /\ StopRaises /\ AfterRaise
  /\ UNCHANGED <<program, conn, left, cache, reader, port, done, next>>

StopLooks ==
  /\ step = "look"
  /\ Goto(IF port THEN "close" ELSE next)
  /\ UNCHANGED <<program, conn, left, cache, held, readers>>

(* stop() raises (AttributeError) when the thread has cleared the port.    *)
StopCloses ==
  /\ step = "close"
  /\ port' = FALSE
  /\ IF port
     THEN Closes("io") /\ Goto(next) /\ UNCHANGED tries
     ELSE UNCHANGED held /\ AfterRaise
  /\ UNCHANGED <<program, conn, left, cache, reader, done, next>>

(* write_imu_poll_rate_hz.  A reader that cannot be restarted after the    *)
(* write is given the attempts a failed write gives it as well.            *)
WriteRate ==
  /\ step = "write"
  /\ \/ Opens("client") /\ Goto("written")
     \/ OpenFails /\ Goto("restart")
  /\ tries' = Attempts
  /\ UNCHANGED <<program, conn, left, cache, reader, port, done, next>>

RateWritten ==
  /\ step = "written"
  /\ \/ Closes("client") /\ tries' \in {Attempts, 2 * Attempts}
     \/ HandshakeFails /\ UNCHANGED tries
  /\ Goto("restart")
  /\ UNCHANGED <<program, conn, left, cache, reader, port, done, next>>

(* restart_streamer_with_retry: an attempt stands when the reader is not   *)
(* done at the end of wait_for_streamer_startup, and is stopped when it is. *)
Restart ==
  /\ step = "restart"
  /\ Starts
  /\ Goto("startup")
  /\ UNCHANGED <<program, conn, left, cache, held, port, next, tries>>

StartupStands ==
  /\ step = "startup" /\ ~done
  /\ Goto("view")
  /\ UNCHANGED <<program, conn, left, cache, held, readers>>

StartupFails ==
  /\ step = "startup" /\ done
  /\ tries' = tries - 1
  /\ Stop(IF tries = 1 THEN "view" ELSE "restart")

NextReaders ==
  \/ LoopOpens \/ LoopEnds \/ DebugOpens \/ DebugListens \/ DebugCloses
  \/ ReaderOpens \/ ReaderLooks \/ ReaderCloses
  \/ ReadRate \/ RateRead \/ Show \/ CloseView \/ ChooseRate
  \/ Joins \/ StopLooks \/ StopCloses \/ WriteRate \/ RateWritten
  \/ Restart \/ StartupStands \/ StartupFails

InitReaders ==
  /\ reader = "none" /\ port = FALSE /\ done = FALSE
  /\ next = "end" /\ tries = Attempts
=============================================================================
