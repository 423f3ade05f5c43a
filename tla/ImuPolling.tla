------------------------------- MODULE ImuPolling ------------------------------
(***************************************************************************)
(* Polling: a request is written, packets are read until one of them is an *)
(* IMU answer, and a read that ends without one throws away the input.     *)
(* poll_imu of poll_imu_fast.py shows what it takes; the batch source of   *)
(* live_signal_analysis.py, and VescImuSignalSource of fast_imu_source.py  *)
(* in the same words, collects it, and flushes it to the pending buffer    *)
(* that the window drains.                                                 *)
(*                                                                         *)
(* Nothing in an answer says which request it answers.  Here a packet has  *)
(* the number of its request, and 0 when it is not an answer (other), or   *)
(* when it is damaged or the rest of one that was partly read (bad).       *)
(* That such a rest reads as a whole packet with the right CRC is left out. *)
(***************************************************************************)
EXTENDS DirectReaders

CONSTANTS
  MaxAsked,     \* bound: requests of a program
  Capacity      \* of the pending buffer

ASSUME PollingAssumption == MaxAsked \in Nat /\ Capacity \in Nat \ {0}

VARIABLES
  asked,        \* requests written
  waiting,      \* in read_expected_imu_packet
  line,         \* packets on their way
  input,        \* packets that have come and are not read
  failed,       \* requests that brought no sample: timeouts and parse_errors
  taken,        \* the latest sample, by the request that it answers
  batch,        \* pending_timestamps, pending_values
  buffer        \* the PendingSignalBatchBuffer

polling == <<asked, waiting, line, input, failed, taken, batch, buffer>>

Other == [kind |-> "other", of |-> 0]
Bad   == [kind |-> "bad", of |-> 0]
Answer(n) == [kind |-> "imu", of |-> n]

(* The program is in its loop, with a port to read.                        *)
Polling ==
  \/ program = "fast" /\ step = "loop"
  \/ program = "bench" /\ reader = "reading" /\ port

Read == Polling /\ waiting /\ UNCHANGED <<cli, readers, asked>>

(* The controller answers once, or not at all, after what else it says.    *)
Replies(n) == {<<>>, <<Answer(n)>>, <<Bad>>, <<Other, Answer(n)>>}

Request ==
  /\ Polling /\ ~waiting
  /\ asked < MaxAsked
  /\ asked' = asked + 1
  /\ waiting' = TRUE
  /\ \E reply \in Replies(asked') : line' = line \o reply
  /\ UNCHANGED <<cli, readers, input, failed, taken, batch, buffer>>

Arrives ==
  /\ Polling
  /\ line # <<>>
  /\ input' = Append(input, Head(line))
  /\ line' = Tail(line)
  /\ UNCHANGED <<cli, readers, asked, waiting, failed, taken, batch, buffer>>

--------------------------------------------------------------------------------
(* A mutant: whatever packet comes ends the read, as in a client that asks *)
(* once per answer.                                                        *)
SkipsMutant ==
  /\ Read
  /\ input # <<>> /\ Head(input).kind \in {"other", "bad"}
  /\ input' = Tail(input)
  /\ waiting' = FALSE
  /\ UNCHANGED <<line, failed, taken, batch, buffer>>

(* Another packet is counted and skipped, and so is damage in which no     *)
(* start byte is found.                                                    *)
Skips ==
  /\ Read
  /\ input # <<>> /\ Head(input).kind \in {"other", "bad"}
  /\ input' = Tail(input)
  /\ UNCHANGED <<waiting, line, failed, taken, batch, buffer>>

(* reset_input_buffer: what has come is gone, with the beginning, or the   *)
(* whole, of what was being read when it came.                             *)
ResetInputBuffer ==
  /\ input' = <<>>
  /\ IF line = <<>> THEN UNCHANGED line
                    ELSE line' \in {line, Tail(line), <<Bad>> \o Tail(line)}

GivesUp ==
  /\ failed' = failed + 1
  /\ waiting' = FALSE
  /\ ResetInputBuffer
  /\ UNCHANGED <<taken, batch, buffer>>

(* read_packet returns None: for a length, stop byte or CRC that is wrong, *)
(* at once ...                                                             *)
Rejects == Read /\ input # <<>> /\ Head(input).kind = "bad" /\ GivesUp

(* ... and when the deadline passes.                                       *)
TimesOut == Read /\ GivesUp

(* PendingSignalBatchBuffer.append_many: the oldest make room.             *)
Newest(s) == SubSeq(s, Len(s) - Capacity + 1, Len(s))

(* A mutant: the overflow is that of the batch alone.                      *)
AppendManyMutant(s) ==
  LET all == buffer \o s IN
  buffer' = IF Len(s) > Capacity THEN Newest(all) ELSE all

AppendMany(s) ==
  LET all == buffer \o s IN
  buffer' = IF Len(all) > Capacity THEN Newest(all) ELSE all

TakesPacket(n) ==
  /\ Read
  /\ input # <<>> /\ Head(input) = Answer(n)
  /\ input' = Tail(input)
  /\ waiting' = FALSE
  /\ UNCHANGED line

ShowsAnswer(n) ==
  /\ program = "fast"
  /\ TakesPacket(n)
  /\ taken' = n
  /\ UNCHANGED <<failed, batch, buffer>>

(* The source flushes when it has 64 samples or its 5 ms are over.         *)
CollectsAnswer(n) ==
  /\ program = "bench"
  /\ TakesPacket(n)
  /\ taken' = n
  /\ \/ batch' = Append(batch, n) /\ UNCHANGED buffer
     \/ AppendMany(Append(batch, n)) /\ batch' = <<>>
  /\ UNCHANGED failed

(* An answer that is too short, or lacks what the source wants.            *)
TakesNone(n) ==
  /\ TakesPacket(n)
  /\ failed' = failed + 1
  /\ UNCHANGED <<taken, batch, buffer>>

--------------------------------------------------------------------------------
(* The window takes what is pending.                                       *)
DrainBuffer ==
  /\ program = "bench" /\ step = "view"
  /\ buffer # <<>>
  /\ buffer' = <<>>
  /\ UNCHANGED <<cli, readers, asked, waiting, line, input, failed, taken, batch>>

(* The loop ends, wherever it is: _stop, an exception, the port gone.  The *)
(* source flushes first.                                                   *)
LeavesPolling ==
  /\ ReaderLeaves
  /\ AppendMany(batch)
  /\ batch' = <<>>
  /\ UNCHANGED <<asked, waiting, line, input, failed, taken>>

NextPolling ==
  \/ Request \/ Arrives \/ Skips \/ Rejects \/ TimesOut
  \/ \E n \in 1..asked : ShowsAnswer(n) \/ CollectsAnswer(n) \/ TakesNone(n)
  \/ DrainBuffer \/ LeavesPolling

InitPolling ==
  /\ asked = 0 /\ waiting = FALSE /\ line = <<>> /\ input = <<>>
  /\ failed = 0 /\ taken = 0 /\ batch = <<>> /\ buffer = <<>>
=============================================================================
