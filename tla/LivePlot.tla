------------------------------- MODULE LivePlot --------------------------------
(***************************************************************************)
(* imu_live_plot.py: a thread polls the controller and hands its samples   *)
(* to the window through a bounded queue.  It tells the window only of the *)
(* first sample after a drain (_notification_pending), by a Qt signal      *)
(* that waits for the window's event loop.                                 *)
(***************************************************************************)
EXTENDS DirectReaders

CONSTANT MaxQueue       \* max_queue of ImuPoller
ASSUME QueueAssumption == MaxQueue \in Nat \ {0}

VARIABLES poller,       \* the thread: none, poll, put, mark, notify, wait, over
          samples,      \* how many samples are queued
          pending,      \* _notification_pending
          callback,     \* _sample_callback is set
          signals,      \* sample_ready signals the event loop has yet to deliver
          plot          \* the window's thread, within step "plot"

live == <<poller, samples, pending, callback, signals, plot>>

--------------------------------------------------------------------------------
(* connect_vesc, then main's query of the firmware behind --can-id.        *)
Connect ==
  /\ step = "connect"
  /\ \/ Opens("client") /\ Goto("firmware")
     \/ OpenFails /\ Goto("end")
  /\ UNCHANGED <<program, conn, left, cache, readers, live>>

(* When that query fails, main's finally stops a poller that never         *)
(* started: join raises, and the client is not closed before the process   *)
(* ends.                                                                   *)
Firmware ==
  /\ step = "firmware"
  /\ \/ UNCHANGED held /\ Goto("plot") /\ poller' = "poll" /\ plot' = "register"
     \/ UNCHANGED <<held, poller, plot>> /\ Goto("end")
     \/ HandshakeFails /\ Goto("end") /\ UNCHANGED <<poller, plot>>
  /\ UNCHANGED <<program, conn, left, cache, readers, samples, pending, callback, signals>>

--------------------------------------------------------------------------------
(* ImuPoller._run.  A poll that fails is tried again a period later.       *)
Polls ==
  /\ poller = "poll"
  /\ poller' \in {"put", "wait"}
  /\ UNCHANGED <<cli, readers, samples, pending, callback, signals, plot>>

(* _put_latest: a full queue loses its oldest sample.                      *)
Put ==
  /\ poller = "put"
  /\ samples' = IF samples = MaxQueue THEN MaxQueue ELSE samples + 1
  /\ poller' = "mark"
  /\ UNCHANGED <<cli, readers, pending, callback, signals, plot>>

(* _mark_notification_pending *)
Mark ==
  /\ poller = "mark"
  /\ IF ~callback \/ pending
     THEN poller' = "wait" /\ UNCHANGED pending
     ELSE poller' = "notify" /\ pending' = TRUE
  /\ UNCHANGED <<cli, readers, samples, callback, signals, plot>>

(* _notify_sample *)
Notify ==
  /\ poller = "notify"
  /\ poller' = "wait"
  /\ signals' = IF callback THEN signals + 1 ELSE signals
  /\ UNCHANGED <<cli, readers, samples, pending, callback, plot>>

Wait ==
  /\ poller = "wait"
  /\ poller' = IF plot = "joined" THEN "over" ELSE "poll"
  /\ UNCHANGED <<cli, readers, samples, pending, callback, signals, plot>>

--------------------------------------------------------------------------------
(* run_live_plot: the callback is set before the first update, which takes *)
(* what was queued without one.                                            *)
Register ==
  /\ plot = "register"
  /\ callback' = TRUE
  /\ plot' = "drain"
  /\ UNCHANGED <<cli, readers, poller, samples, pending, signals>>

Deliver ==
  /\ plot = "idle" /\ signals > 0
  /\ signals' = signals - 1
  /\ plot' = "drain"
  /\ UNCHANGED <<cli, readers, poller, samples, pending, callback>>

(* drain, of update *)
DrainBegins ==
  /\ plot = "drain"
  /\ pending' = FALSE
  /\ plot' = "take"
  /\ UNCHANGED <<cli, readers, poller, samples, callback, signals>>

Takes ==
  /\ plot = "take" /\ samples > 0
  /\ samples' = samples - 1
  /\ UNCHANGED <<cli, readers, poller, pending, callback, signals, plot>>

DrainEnds ==
  /\ plot = "take" /\ samples = 0
  /\ plot' = "idle"
  /\ UNCHANGED <<cli, readers, poller, samples, pending, callback, signals>>

(* A mutant: the flag is cleared when the queue has been emptied, not      *)
(* before.                                                                 *)
DrainMutant ==
  \/ /\ plot = "drain" /\ plot' = "take"
     /\ UNCHANGED <<cli, readers, poller, samples, pending, callback, signals>>
  \/ Takes
  \/ /\ plot = "take" /\ samples = 0 /\ plot' = "cleared"
     /\ UNCHANGED <<cli, readers, poller, samples, pending, callback, signals>>
  \/ /\ plot = "cleared" /\ plot' = "idle" /\ pending' = FALSE
     /\ UNCHANGED <<cli, readers, poller, samples, callback, signals>>

Drain == DrainBegins \/ Takes \/ DrainEnds

(* The window closes: run_live_plot's finally, then main's, whose join may *)
(* run out while the thread waits for the controller.                      *)
ClosePlot ==
  /\ plot = "idle"
  /\ callback' = FALSE
  /\ plot' = "joined"
  /\ UNCHANGED <<cli, readers, poller, samples, pending, signals>>

LeavePlot ==
  /\ step = "plot" /\ plot = "joined"
  /\ Closes("client")
  /\ Goto("end")
  /\ UNCHANGED <<program, conn, left, cache, readers, live>>

NextPoller == Polls \/ Put \/ Mark \/ Notify \/ Wait
NextPlot   == Register \/ Deliver \/ Drain

NextLive == NextPoller \/ NextPlot \/ Connect \/ Firmware \/ ClosePlot \/ LeavePlot

InitLive ==
  /\ poller = "none" /\ samples = 0 /\ pending = FALSE
  /\ callback = FALSE /\ signals = 0 /\ plot = "none"
=============================================================================
