# Verification of vesc.(slopi)py

TLA+ models, TLC runs and TLAPS proofs about this repository: `vesc_py`
(`src/src/vesc_py`), which talks to VESC motor controllers over serial, TCP and
BLE; `yalsa` (`src/src/yalsa`), which runs a user's analysis on a live sensor
signal in a process of its own and shows it in a window in another; and the larger
programs of `src/examples`, which set up an IMU, edit a configuration, share one
controller between programs, or read and plot it.

Paths below are relative to `src/src/` unless they begin with `src/`; `examples/`
stands for `src/examples/`.

## 1. The system

    YALSA
    device ──port──> source thread ──PendingRing──> worker thread ──SharedSlot──> GUI process
                     (vesc_py)                      HistoryRing, user function     (yalsa)
                        ^                              ^                             |
                     ImuStreamer                  AnalysisWorker <──control slot─────┘
                     DirectReaders, ImuPolling            LiveAnalysis: supervisor, restarts

    programs
    setup window, setup wizard, configuration editor ──VescClient──> controller: memory, flash
    clients ──TCP──> vesc_mux ──TCP──> upstream server ──> device
    readers, plots ──connection_cli, its cache file──> serial port or BLE link

| Component | State it keeps | Operations | What makes it correct |
|---|---|---|---|
| Pending rings: `PendingSignalBuffer` (`vesc_py/live_signal.py`), `PendingImuStreamBuffer` (`vesc_py/imu_streamer.py`) | arrays, read and write index, count, two drop counters, one lock | `append_many` (source thread), `drain` (consumer) | every sample is delivered once and in order, pending, or counted as dropped; each drop is reported once |
| Histories: `SignalRingHistory` (`vesc_py/live_signal.py`), `SignalBatchHistory` (`yalsa/app.py`) | arrays, write index, count | append, clear, snapshot | a snapshot is the newest samples since the last clear, in order |
| Analysis worker: `_LiveAnalysisWorker` (`yalsa/app.py`) | three events, parameters, last result and error, its history | `set_parameter`, `clear_history`, `stop`; the thread `_run` | a parameter set is used, a history cleared stays cleared, results do not go back, stop ends the thread |
| Shared slots: `_PickleSharedMemorySlot` (`yalsa/app.py`) | a header and two halves in shared memory, no lock | `create`, `write`, `read_with_version` | what is read is one write's pickle, and none older than the last write that had returned when the read began |
| Processes: `run_live_analysis`, `_run_live_analysis_gui`, `_run_analysis_worker_process` (`yalsa/app.py`) | the control slot; three processes | polling, restarts, updates of the control, the end of the run | the run ends, in order; a request is not lost; the memory outlives its users |
| IMU streamer: `VescImuStreamer` (`vesc_py/imu_streamer.py`) | `_stop`, `_done`, `_serial_port` (no lock), a reader thread | `start`, `stop`, `_run` | a reader that is over says so, closed its port and stopped the device |
| BLE transport: `BleTransport` (`vesc_py/ble.py`), behind `TransportIoAdapter` (`vesc_py/connection.py`) | client, queue, `_closed`, `_disconnected`, an asyncio loop thread | `send`, `recv`, `close`, two callbacks | its failures reach its callers in the form they handle; a link that is given up is disconnected |
| Fast IMU source: `VescImuSignalSource` (`vesc_py/fast_imu_source.py`) and the batch source of `examples/yalsa/live_signal_analysis.py` | as the streamer; request, input, batch | `start`, `stop`, `_run`, polling and flushing | as the streamer; samples in order and no older than the reads that failed |
| VESC client (`vesc_py/client.py`) and packet codec (`packet.py`, `crc.py`) | a transport, a decoder with the frames it has not returned | the handshake and its retries, requests, setters that do not wait | an answer belongs to its request |
| Connection command line (`vesc_py/connection_cli.py`, `discovery.py`) | a cache file | check the cached connection, discover, scan for a CAN target, remember | whatever fails, the next attempt finds nothing held by the one before |
| IMU orientation setup (`vesc_py/imu_setup.py`) | none: functions on a configuration | prepare, apply, save, restore | offsets are in the frame of the rotation they are stored with |
| IMU setup programs (`examples/imu_setup_gui.py`, `examples/imu_setup.py`) | page, configuration, restore record, search with its timers | handlers of the window; steps of the wizard | what ends in flash is a calibration; temporary settings end with their step |
| Configuration editor (`examples/config_tui.py`) with the schema's codec (`vesc_py/config_schema.py`, `buffer.py`) | per kind: original and current values; a dialog | load, edit, revert, apply, quit | what is shown and not on the controller is marked |
| Multiplexer (`examples/vesc_mux.py`) | `_clients` under a lock, `_requests`, `_stop`, three kinds of threads | accept, read, round trip, signals, stop | an answer goes to who asked; a stop ends it |
| Direct readers (`examples/poll_imu_fast.py`, `poll_imu_from_package.py`, `..._debug.py`, `yalsa/live_signal_analysis.py`, `discover_vescs.py`) | a connection each; a reader thread and a window in two of them | open, read, change the rate and restart, close | as the connection command line |
| Live plot (`examples/imu_live_plot.py`) | a bounded queue, `_notification_pending`, a poller thread | poll, queue, notify, drain, stop | a queued sample is shown |
| The rest: configuration paths, versions, records, DSP, layout, the other examples | – | – | – |

How they interact. A source thread fills a pending ring under the ring's lock;
the worker thread drains it under the same lock and appends to its history,
which only it touches. The worker's controller (the main loop of the worker
process) talks to it through `threading.Event`s and two locks. The worker process
and the GUI process exchange pickles through shared-memory slots that have no
lock at all; one of them, the control slot, is updated by the GUI process and the
supervisor alike. The supervisor starts, restarts and ends both. The programs meet
at the controller: its memory and flash are what the setup programs and the editor
change one after the other; its connection, a serial port or a BLE link, can be
opened once; the multiplexer lets several clients in by making their requests one
at a time, in answers that carry no name.

What is hard: the interleavings of `set_parameter`, `clear_history` and `stop`
with the worker's round; two processes in one slot, access by access; updates of
the control made of a read and a later write; processes that crash, hang or are
restarted anywhere; `stop` against a reader thread that is opening, streaming or
cleaning up, with a join that may run out; a port that is lost at any point; an
answer that comes after its time-out; clients that leave between a request and its
answer; a signal handler inside the lock it wants; handlers, timers and failing
writes in any order over a configuration whose rotations do not commute; several
writes of which one fails. `PROJECT.json` lists these hazards at their lines, with
the properties aimed at each.

## 2. The modules

| Module | Models | Its state and actions in the code |
|---|---|---|
| `DropOldestQueue` | what a pending ring promises | abstract: a sequence, the samples lost; `Put`, `Take` |
| `PendingRing` | both pending rings | the fields of `PendingSignalBuffer`; `AppendMany` is `append_many` (`AppendFull`: the batch that replaces everything; `AppendPart`: the one that may wrap), `Drain` is `drain` |
| `HistoryRing` | both histories | the fields of the history; `HistoryAppend` (`KeepTail`, `Place`), `HistoryClear`; `Ordered` is the snapshot's order |
| `SamplePath` | the composition of `PendingRing` and `HistoryRing` with the consumer thread | `inHand` is the time between the drain and the append, in which the source goes on |
| `AnalysisWorker` | `_LiveAnalysisWorker` | one variable per event and lock-protected field; the controller's methods step by step; the thread's round `top`, `stride`, `drain`, `decide`, `process`, `publish` |
| `SharedSlot` | `_PickleSharedMemorySlot` | header fields and payload words in memory; the write's stores and the read's loads one at a time |
| `LiveAnalysis` | `run_live_analysis` and its two processes | the control record; the supervisor's loop and `finally`; the GUI's updates and end; the worker process's loop |
| `ImuStreamer` | `VescImuStreamer.start`, `stop`, `_run`, over a serial port or a BLE transport | `_stop`, `_done`, `_serial_port`, the reader's and stop's program positions, the port, its link, the device |
| `ImuSetup` | `imu_setup.py`, and the controller's memory and flash | configurations as records; the frame of the offsets as a sequence of rotations; writes that take effect (`Written`), are lost without an error (`WriteLost`), or raise before or after they took effect (`WriteRaises`); `waits` is `--wait-ack`, `late` the commands of which an acknowledgement may still come |
| `ImuSetupGui` | the window of `imu_setup_gui.py` | one action per handler, `page` and `config` as in the controller object; the search with its young and due timers; the poller |
| `ImuSetupWizard` | the wizard of `imu_setup.py` (examples) | one action per prompt's outcome, Ctrl-C included |
| `ConfigCodec` | a field of each kind on the wire: rounding, widths, what cannot be packed | pure operators |
| `ConfigTui` | `config_tui.py` | `original` and `current` per kind, the dialogs; applying several kinds, any of which may raise, or be lost behind a late acknowledgement (`Mistakable`) |
| `ConfigPrograms` | the composition of the three programs over one controller | – |
| `VescClient` | `VescClient` over TCP: handshake, requests, time-outs, the decoder's remaining frames | one record per client; messages on their way both ways |
| `VescMux` | `vesc_mux.py`: main thread, reader threads, worker, signal handler; upstream and device | program positions, `_clients`, `_requests`, `_stop`, sockets; `Locked` is the main thread in `_clients_lock` |
| `MuxClients` | the composition of the multiplexer with its clients | – |
| `ConnectionCli` | `connection_cli.py` with its file, `connection.py`, `discover_vescs.py`'s probes | the program that runs, its step, what is open and by whom |
| `DirectReaders` | opening, reading, closing and restarting in the readers; the reader threads beside a window | the thread's position, `_serial_port`, `_done`, what the window does after `stop` |
| `ImuPolling` | request, read and reset of the input; the batch and its flush | packets on their way and in the input, each with the number of its request |
| `LivePlot` | `imu_live_plot.py` | the poller, the length of its queue, the notification and its signals, the window |
| `DirectPrograms` | the composition of the last four: programs that run one after the other | – |
| `..._proofs` | theorems about the module of that name | – |
| `MC...` | what the runs check | – |

`PROJECT.json` "map" gives the lines of every definition. An operator named
`...Mutant` stands beside the definition it breaks: it is that definition with a
plausible bug, and the property it belongs to ("mutants") is violated with it.

Writes of a configuration. The setup window and the wizard wait for an
acknowledgement only with `--wait-ack`, which is off by default
(`imu_setup_gui.py` 1080, `imu_setup.py` 995, both in `examples/`); without it
`_set_config` returns after the send (`client.py` 335), and a write that never
arrives raises nothing. `StartGui` and `StartWizard` choose either mode (`waits`),
the editor always waits. A handler goes on after `Sent`, which is a write that took
effect or one that was lost without an error; `lost` remembers the latter ("open",
and "mended" once a later store has taken effect). Waiting does not rule it out: an
acknowledgement is known by its command only, and one that comes after its
time-out is taken for that of the next write by the same command (`late`,
`MayBeLost`). A write that raises may have taken effect all the same.

Composition is by shared abstractions. `SamplePath` composes ring, consumer and
history in one state. `AnalysisWorker` sees the same path as "samples are
pending" and "the eras (clears) the history's samples come from", and leaves the
samples to `SamplePath`. `LiveAnalysis` takes a slot access as one step, which
`SharedSlot` takes apart; what `SharedSlot` shows about it, that a read which
falls into a write may raise, comes back in `LiveAnalysis` as the actions
`ReadControlFails`, `RequestFails`, `GuiRequestFails`, `WorkerAttachFails` and
`WorkerPollFails`.

Atomicity. A method that holds its lock from its first read to its last write is
one action (`AppendMany`, `Drain`, the publication of a result). Where there is
no lock, a step ends before every access that another thread or process can see:
an event set or cleared, a shared attribute read or written, a field of a header.
The one exception is stated at its action: in `AnalysisWorker`, `TakeRequest` is
the look at `_process_requested` and its `clear` together; a `set` between them
would be taken by the same clear, before the parameters are read.

CPython's `Struct.pack_into` fills its target with zeros before it stores the
fields. `SharedSlot` has that step (`StoreZeros`); the order of the stores of one
process is kept, as it is on x86-64. Fields are 64 bits and aligned, so each is
one access.

A handler of a Qt window or of the terminal editor is one action: the event loop
runs one at a time. What runs beside it, a poller or a timer, has actions of its
own. In `VescMux` a `with` block on `_clients_lock` in a reader or in the worker is
one step that waits for `~Locked`; the main thread's own blocks are two, because a
signal may find it inside.

Data left out: values of samples, timestamps, channels (a sample is its number or
the number of its request); parameters (their revision); pickles (the write they
were made for and their size); decoding of packages (whether the reader holds
samples); the fields of a configuration but one of each kind that is treated
differently; angles (one that levels the IMU, per axis); payloads of answers
(their command, and the request they answer, which no program sees); counters and
text that only report.

## 3. The runs

| Run | Bounds | Checks |
|---|---|---|
| `sample_path` | ring of 3, history of 4, batches of 1 to 5, 11 samples | `RingInv`, `HistoryInv`, `HistoryIsNewest`, `GapsAreReported`, `DrainsInOrder`, `ImplementsQueue` |
| `analysis_worker` | stride 2, 2 parameter changes, 2 clears | `TypeOK`, `StaleOnlyInFlight`, `ResultsNeverGoBack`, `ParameterTakesEffect`, `ClearTakesEffect`, `StopTakesEffect` |
| `worker_error_shown` | the same | finding: `WorkerErrorShown` is violated |
| `shared_slot` | halves of 2 words, 2 attempts, 3 writes | `TypeOK`, `AcceptedIsIntact`, `ReadsAreRecent` |
| `shared_slot_torn` | 4 writes | finding: `AcceptedIsOnePickle` is violated |
| `shared_slot_retry` | 3 writes | finding: `FailsAfterAttempts` is violated |
| `live_analysis` | 2 parameter changes, 2 failures | `TypeOK`, `MemoryOutlivesUsers`, `OnlyStuckWorkersTerminated`, `UpdatesAreKept`, `ParametersReachWorker`, `ClosingEndsRun`, `BrokenLoopEndsRun` |
| `imu_streamer` | serial, 3 starts | `TypeOK`, `OverIsReported`, `DeviceIsStopped`, `StopIsClean`, `StopEndsReader` |
| `imu_streamer_ble` | BLE, 1 start | finding: `StopClosesTransport` is violated |
| `config_programs` | with and without `--wait-ack`; 2 IMU types, either configured at first, 2 writes or polls that raise, any that are lost before the second, 2 timers, 2 steps opened | `TypeOK`, `CalibrationSound`, `RestingIsStored`, `CancelUndoes`, `SearchFindsFitted`, `OnlyRevertHides` |
| `mux_clients` | 2 clients, 2 handshake attempts, 2 and 1 requests, 1 signal, 1 fault | `TypeOK`, `AnswersAreOwn`, `StopEnds` |
| `direct_programs` | 2 restart attempts, 3 requests, a buffer and a queue of 2 | `TypeOK`, `LinkIsFree`, `SamplesAreCurrent`, `SamplesAreShown` |

Why the bounds are enough. *sample_path*: batches shorter than, equal to and
longer than either ring occur at every index; 11 samples take each ring around at
least twice. *analysis_worker*: two revisions and two clears let a request fall
into a round that still answers the previous one; a stride of 2 has rounds that
drain and rounds that skip. *shared_slot*: two words can be mixed, two attempts
are one retry, and three writes lap a reader in the half it copies (the third
write goes to the first one's half); the same run was made with four writes, 18
million states, and found nothing more. The finding needs the fourth: the reader
must stay in one half-stored header for both its looks while later writes reuse
the half. *live_analysis*: two failures are a crash of each process, or of one
and then its successor. *imu_streamer*: three starts are a restart after a
stop, and a start that a reader left over from a timed-out join turns away. *config_programs*: a second type is what a search goes on to, a second
timer what a cancelled search leaves beside the next one's, a second failure the
retry of the first; writes that are lost without an error have no bound before the
last failure, and the two steps can be one Save that is lost and the Save that follows
it, because the controller begins with either type, the fitted one or a wrong one; two opened steps are one that is cancelled or fails and the
next that meets what it left; the editor needs none of these. *mux_clients*: the first client's requests are its handshake and one
more, so that something can come late, the second client's is a handshake that gets
between them; two attempts are one retry. *direct_programs*: three requests are one
that fails, one that takes its late answer, and the one after; a queue of two has
room, is full, and overflows.

What they show, beyond each property's own comment in its module:

- A parameter set in the window is used. `ParametersReachWorker` brings it to a
  running worker across crashes, and `ParameterTakesEffect` from there to a call
  of the user's function.
- A clear is honoured late but surely: one result with older samples can still
  appear after `clear_history` returned, from the round that was under way, and none
  after that: `StaleOnlyInFlight` bounds what is about to be published (`input`, which
  `Publish` shows) as well as the history.
- The double buffer works when both looks find a header that was stored in full;
  it does not when they fall into a store. The first, `AcceptedIsIntact`, is what
  the design promises; the second is two findings.
- Updates of the control by GUI and supervisor do not take each other back
  although they are read-modify-writes, because the supervisor updates only when
  the GUI has gone, or a stop is on its way already. When an exception ends the
  supervisor's loop with the window in use, they can, and then a worker may have
  to be terminated; `broken` is that exception in the properties.
- `stop` and the reader may both look at `_serial_port` without a lock: it is
  harmless as long as the join does not run out, which only an open can make it do.
- Cancelling a step of the IMU setup puts the configuration back as it was, by
  undoing rotations in reverse order, whatever failed or was lost within the step;
  the controller's memory with it when the cancelling write arrives.
- Flash holds a calibration of one piece, its offsets in the frame of its rotation,
  under the user's application, also in the default mode in which any write may be
  lost unseen: each store is a whole configuration, and the program's copy is sound
  whether or not the controller has it.
- No client of the multiplexer is given another's answer as long as the device
  says only what it is asked: the worker has one request at a time under way, and
  waits for its answer whether or not its client is still there. That same wait,
  which has no limit, is what can keep it from ending.
- The live plot cannot miss a sample that is alone in its queue: the poller
  queues before it marks, the window unmarks before it drains.

Properties that the code does not have in all cases name the cases. Each is a state
or a variable of its module, so that a reader sees what is exempted:

- `StopEnds`: `Stuck` (a signal that finds the main thread inside
  `_clients_lock`, which its handler wants and which is not reentrant),
  `unanswered` (a request the device never answers) and `Unanswerable` (a
  keepalive, which has no answer). In each the multiplexer does not end.
- `AnswersAreOwn`: `noise` (the device said what nobody asked for: answers are
  known by their order).
- `LinkIsFree`: "lost" (a BLE link that failed while it was being opened is never
  disconnected by this process) and a `stop` whose join ran out.
- `SamplesAreCurrent`: a sample may be as many requests old as reads have given up.
- `CalibrationSound`: `fails` (a write that raised; the next Save adds its offset
  twice, or stores the prepared rotation). That each offset was measured once, and
  that the rotation is not the prepared one, is claimed further only without `hasty`
  (saved without a measurement) and with `lost = "none"`: in the default mode a gyro
  Save that is lost leads to the menu, and the next one, which measures the offset
  the controller still has, adds it to a copy that has it already, with nothing
  raised. A frame that is not the rotation's, and a search's application, are ruled
  out whatever is lost.
- `RestingIsStored`: `fails`, and `lost = "open"`: a Cancel, Discard or restore that is
  lost in the default mode leaves its temporary settings in memory at the menu, with
  nothing raised; they end with the next store that arrives, and the property holds
  again from there.
- `CancelUndoes`: `openFailed` (the orientation step's first write raised, and the
  page still keeps the prepared configuration). That the controller's memory is back
  is claimed of a Cancel whose own write neither raises nor is lost; in the default
  mode nothing tells the user which. The formula takes `lost' # "open"`, or
  `~MayBeLost`, which with `--wait-ack` leaves out only a write that a late
  acknowledgement can be mistaken for.
- `SearchFindsFitted`: `fails`, `lost = "open"` (the type that was tried is not the one
  that answers), and the timer of a cancelled search that finds another under way.
  That the user's application comes back needs none of these.
- `OnlyRevertHides`: a revert after a failed apply goes back to values the
  controller no longer has. The editor always waits, and so loses a write unseen only
  behind a late acknowledgement of one that timed out before (`late # {}`), which an
  Apply then takes for its own. Nothing else hides an unsaved value.
- `StopEnds` speaks of a stop, not of a loss: a worker whose upstream is lost while no
  request is under way does not notice, and the multiplexer goes on.

### Findings

1. `worker_error_shown` (`yalsa/app.py:1126`, against the comment at 1183): the
   error of a dead worker thread is erased by the next clear of the history.
2. `shared_slot_torn` (`yalsa/app.py:931`, against the error at 935): a reader
   whose two looks fall into the same half-stored header accepts a mixed payload.
3. `shared_slot_retry` (`yalsa/app.py:952`, against the loop at 918): a read that
   sees the zeros of a header being stored fails on its first attempt.
4. `imu_streamer_ble` (`vesc_py/imu_streamer.py:532` and 753, against the
   docstring at 526): after a lost BLE link the STOP command raises a
   `RuntimeError` that nobody on the way catches, and the transport stays open.

### Fairness

- `AnalysisWorker`: weak fairness of the worker thread and of a method the
  controller has called; none of the calls themselves, nor of the source.
  `ClearTakesEffect` supposes that samples go on arriving, and says so. The
  user's function and `drain` return.
- `LiveAnalysis`: weak fairness of each process's own steps. Nobody has to touch
  the window, press Ctrl-C, or fail. The supervisor's polls are paced by a sleep
  and its joins have timeouts, so it is never kept from its next step.
- `ImuStreamer`: weak fairness of the reader (reads and writes have timeouts, an
  open comes to an end) and of a stop under way; none of `Start`, `StopSets`,
  losing the link, or data arriving.
- `MuxClients`: weak fairness of the main thread, the worker, each reader thread,
  and the device's answers to what it can answer; none of the clients, signals or
  faults.
- `DirectPrograms`: weak fairness of the live plot's window (its event loop
  delivers signals) and of its poller once it holds a sample; none of polling
  itself, nor of anything the user does.
- `ConfigPrograms` and the runs of findings have safety properties only and need
  none.

Deadlock is checked in `sample_path` and in the streamer's passing run. The other
systems may stop: a worker, a run or a program that has ended has nothing left to
do, and `SharedSlot` stops when its writes are made and nobody reads.

## 4. The proofs

TLAPS checks, for every value of the constants under the modules' assumptions
(capacities are positive integers, which the constructors enforce by a
`ValueError`; bounds are natural numbers):

| Theorem | States |
|---|---|
| `SamplePath_proofs!RingCorrect` | `Spec => []RingInv` |
| `SamplePath_proofs!DrainsOrdered` | `Spec => DrainsInOrder` |
| `SamplePath_proofs!RingImplementsQueue` | `Spec => ImplementsQueue`: the ring implements `DropOldestQueue` |
| `SamplePath_proofs!PathCorrect` | `PathSpec => [](RingInv /\ HistoryInv)` |
| `SamplePath_proofs!SnapshotsAreNewest` | `PathSpec => []HistoryIsNewest` |
| `SamplePath_proofs!GapsStayReported` | `PathSpec => []GapsAreReported` |
| `AnalysisWorker_proofs!WorkerTyped` | `Spec => []TypeOK` |
| `AnalysisWorker_proofs!ClearsAreTaken` | `Spec => []StaleOnlyInFlight` |
| `AnalysisWorker_proofs!ResultsMoveOn` | `Spec => ResultsNeverGoBack` |
| `SharedSlot_proofs!SlotTyped` | `Spec => []TypeOK` |
| `SharedSlot_proofs!ReadsStayRecent` | `Spec => []ReadsAreRecent` |
| `SharedSlot_proofs!AcceptedStaysIntact` | `Spec => []AcceptedIsIntact` |
| `LiveAnalysis_proofs!RunTyped` | `Spec => []TypeOK` |
| `LiveAnalysis_proofs!MemoryStays` | `Spec => []MemoryOutlivesUsers` |
| `LiveAnalysis_proofs!WorkersStopThemselves` | `Spec => []OnlyStuckWorkersTerminated` |
| `LiveAnalysis_proofs!UpdatesStay` | `Spec => UpdatesAreKept` |
| `ImuStreamer_proofs!StreamerTyped` | `Spec => []TypeOK` |
| `ImuStreamer_proofs!ReadersReport` | `Spec => []OverIsReported`, if `Link = "serial"` |
| `ImuStreamer_proofs!DevicesStop` | `Spec => []DeviceIsStopped`, if `Link = "serial"` |
| `ImuStreamer_proofs!StopsAreClean` | `Spec => []StopIsClean`, if `Link = "serial"` |
| `MuxClients_proofs!TypeCorrect` | `Spec => []TypeOK` |
| `MuxClients_proofs!ClientsGetTheirOwn` | `Spec => []AnswersAreOwn` |
| `ConfigPrograms_proofs!ConfigTyped` | `Spec => []TypeOK` |
| `ConfigPrograms_proofs!CalibrationStaysSound` | `Spec => []CalibrationSound` |
| `ConfigPrograms_proofs!TemporarySettingsEnd` | `Spec => []RestingIsStored` |
| `ConfigPrograms_proofs!CancelRestores` | `Spec => CancelUndoes` |
| `ConfigPrograms_proofs!SearchesFind` | `Spec => SearchFindsFitted` |
| `ConfigPrograms_proofs!OnlyRevertsHide` | `Spec => OnlyRevertHides` |
| `DirectPrograms_proofs!TypeCorrect` | `Spec => []TypeOK` |
| `DirectPrograms_proofs!LinkStaysFree` | `Spec => []LinkIsFree` |
| `DirectPrograms_proofs!SamplesStayCurrent` | `Spec => []SamplesAreCurrent` |

`Link = "serial"` is needed: over BLE the STOP command raises what nobody catches
(finding 4), and a reader that dies of it reports nothing.

*The ring.* "The pending samples are the newest ones" is not inductive: it speaks
of the samples read from `readIndex`, and an append writes from `writeIndex`.
`RingInv` adds that the two indices and the count agree (`IndicesAgree`) and says
slot by slot what is there (`SlotsInOrder`). The proof of an append compares, for
each pending sample, its slot before and after: `SlotTurn` gives a slot of an
index that ran past the end at most once, `SlotShift` that turning in two steps
is turning in one, `WrittenSlots` what the two slices of a batch put where.
`PendingNewest` then reads the queue off the slots, and `AppendIsPut` and
`DrainIsTake` are the steps of the refinement.

*The history.* It has no read index, so its invariant counts back from the write
index: slot `historyWrite - k` holds the k-th newest sample
(`HistorySlotsInOrder`). `PlacedSlots` says what an append puts where,
`SlotAdvanced` relates the slots counted back from the old and from the new write
index, and `SnapshotNewest` turns the invariant into the statement about the two
slices of a snapshot. The composition `NextPath` uses the two step lemmas and
that a drain's batch is a sequence of numbers.

*The gaps.* `GapsAreReported` compares the ends of a snapshot with a counter that
grows at every drain. What makes it inductive is a place for every sample on its
own (`GapInv`): counting the samples drained before the last clear (`Before`), each
sample heard lies between its position and its position plus the drops reported so
far, and a batch in hand follows exactly at that upper end. The missing samples of
a snapshot are then a difference of two places, and nothing is summed over the run.

*The worker.* That results do not go back is not inductive: the next one may
already be in the thread's hands. `ResultInv` adds that the history goes back no
further than the latest result (`AsOld`), that an input about to be published was
taken from the history as it still is, and that its parameters lie between those
of the latest result and the newest.

*The slot.* The reader compares two looks at a header, and the invariant (`SlotInv`)
says why that suffices when both were stored in full. Versions go up, so that a
version names one header (`VersionInv`), and the half that a stored header calls
active is not written again before the zeros of the next header have taken its
version away (`CopyInv`). So if the second look finds the same version, nobody has
written to the half between the looks, and the copy is what is there: one pickle,
whole. `WriterInv` says what of the new header is in memory at each of the seven
stores; `RecentInv`, which needs no versions, that no word in the active half is
older than the last write that returned. A writer that dies between the zeros and
the version makes versions start again (`versionLost`), and only recency is
claimed after that.

*The processes.* `UpdatesAreKept` is about a read and a later write by two processes.
`ControlInv` says why nothing comes between: the supervisor updates only after it
left its loop, which it does when a stop is set already, and then every writer's
copy has it, or when the GUI has exited, and then the GUI has no update under way.
`EndInv` orders the end: each child has ended before the supervisor goes past it.

*The streamer.* `stop` and the reader share `_serial_port` without a lock. `Owned`
says what either may rely on at each of its own accesses, `Closing` what the
reader's `finally` clause has done so far, and `Unhurried` that a stop whose join
has not run out touches nothing while the reader lives.

*The multiplexer.* Answers are matched by their order alone, so that each is its
program's takes an account of everything on its way (`MuxInv`). `RoundTrip`: while
the device says only what it is asked, there is one message between the worker and
the device, the worker's request or its answer. `Private`: a connection carries the
messages of one program. `Ordered`: a program that has waited for every answer
(`Orderly`) has its latest request or the answer to it in one place only, on its
connection, in the queue, with the worker or coming back (`Single`), and nothing
older anywhere (`Current`). That is why a time-out ends the promise about the
latest request, and not the one about whose answer it is.

*The setup programs and the editor.* Three programs change one controller, and what
one leaves the next begins with, so there is one invariant for all (`ConfigInv`).
`StepInv` is about Cancel: within an orientation step nothing but rotation, frame
and offsets differs from what was opened, and these were kept. It holds whatever
fails, which is why `CancelUndoes` needs no condition on what happened before.
What is left in flash takes two parts, because a write that is lost without an error
separates what the controller has from what the program believes. `OwnInv` speaks of
flash and of the program's copy, never of the controller's memory, and therefore
holds whichever writes are lost: while none raised, both are calibrations of one
piece (`Owned`), page by page but for what the page sets. `FaultlessInv` adds the
controller's memory: while none raised and none is lost for the time being, it
differs from flash and from the copy only in what the page sets. A loss suspends it
(`lost = "open"`), a store that arrives brings it back (`Mended`), because it makes
all three the same; what was measured on the way is not claimed any more (`Guessed`). On the orientation pages that takes the algebra of the
frame: the offsets' frame is the rotation's (`Framed`), turning back axis by axis in
reverse order ends in none (`FrameUndone`), and an axis added in order gives the next
rotation's frame (`FrameGrows`). On the accelerometer pages a peak is a reading with
the offsets that are in the controller, so that adding it counts once. A search has
not gone past the fitted type unless a second timer hurries it. `EditorInv` says
that what is shown can be written, and that while no write failed the controller has
what `original` is rounded to, which is what makes a revert safe before a failure.
`LossInv` has that nothing can come late before something raised, so that until then
the editor, which waits, loses nothing.

*The direct readers.* What is open besides lost BLE links is the program's own
connection, and it is held at certain steps only, or while `_serial_port` is set
(`HeldInv`, `StepInv`). The window of the plot is told at most once more than it
has taken notice of (`PlotInv`), which bounds the signals on their way. A sample is
as current as the line allows: the answers on their way are newer than the latest
sample and in order (`InTurn`), and every request is waited for, has failed, or
brought a sample of its own (`CountInv`), so the age of a sample is a number of
failures.

`%` by a constant is kept out of the larger obligations: it is `Slot` and
`HistorySlot` in the rings, and the lemmas say all that is needed of them. Boolean
variables have a part of the type invariant to themselves, because one of the two
provers handles them and the other the numbers.

Each inductive invariant was checked by TLC before it was proved, that of
`LiveAnalysis` as inductive, from all its states with one change and one failure.

So every invariant and every action property of the passing runs is proved. Only
model-checked are the liveness properties, which with ENABLED are beyond the
prover: `ParameterTakesEffect`, `ClearTakesEffect`, `StopTakesEffect`,
`ParametersReachWorker`, `ClosingEndsRun`, `BrokenLoopEndsRun`, `StopEndsReader`,
`StopEnds` and `SamplesAreShown`. Nothing here needs a recursive operator.

What the proofs take from the values of constants: `ConfigPrograms` has any number
of types of IMU, of which any is fitted, and any number of failures, timers and
opened steps; the two profiles, the readings (`Bias`, `Level`) and the range of an
edited number are definitions, so the proof is about those. In `MuxClients`,
`DirectPrograms` and the rest every bound of a run is a constant of the proof.

## 5. Not modelled, and why

- The packet decoder's search for a frame, byte by byte, and the CRC: frames are
  whole or damaged. A false length only delays, and a caller's time-out does not
  tell that from silence.
- `BleTransport`'s own asyncio thread and notification queue: seen from its users.
- What `pickle.loads` makes of mixed bytes: `SharedSlot` says when it is given any.
- The reception of an acknowledgement byte by byte, and a controller that acknowledges
  what it does not do: an acknowledgement, when it is that of its write, means that the
  write took effect.
- Numbers in floating point: DSP, the filters and rotations of the setup, rates. Out
  of reach of TLC and of the provers. Rotations are kept as what does not commute.
- 32-bit sequence numbers of the streamer's packages: they feed statistics only.
- Configuration paths, firmware versions, plain records, XML: no state.
- The window's layout, plots and status text; logging and wording everywhere.
- The remaining examples, which make one request or pass a function to YALSA; the
  tests, which were read for what the code is expected to do.
- Weak memory: a machine that reorders the stores of one process would add
  behaviours to `SharedSlot`.
- The few statements of `run_live_analysis` before its `try`, in which Ctrl-C leaves
  two processes without a supervisor.

## 6. Plan

The order was: what a run of YALSA depends on first, then the sources under it,
then the programs and the protocol they share. All of that is done: the modules
above, one composition per group of programs, and proofs about every group.

What could follow, in this order:

1. Safety under the liveness properties: what a system that waits can be waiting
   for (`Stuck`, `unanswered` and `Unanswerable` in `MuxClients`; a worker of
   `LiveAnalysis` after its parent's request), as invariants with their proofs.
2. Streamer and ring as one: that what `_run` reads goes through the pending ring,
   with `SamplePath`'s theorems carried over.
3. `BleTransport` from inside: its loop thread, `send` against `close` against a
   lost link, as the detailed form of the link in `ImuStreamer`.
4. `PacketDecoder` over a small alphabet of bytes, as the detailed form of "frames
   arrive whole or not".

## 7. Running it

    tlc -workers 2 -config MCSamplePath.cfg MCSamplePath
    tlapm SamplePath_proofs.tla

and likewise for each run and proof module. The longest runs are `mux_clients`
(1.1 million states, two and a half minutes), `config_programs` (6.1 million states, three
minutes) and `shared_slot_torn` (one minute); the longest proof,
`ConfigPrograms_proofs`, takes about four.
