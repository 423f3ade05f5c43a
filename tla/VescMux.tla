-------------------------------- MODULE VescMux --------------------------------
(***************************************************************************)
(* examples/vesc_mux.py: one thread accepts, one per client reads its      *)
(* requests into a queue, and a worker takes them one at a time to the     *)
(* upstream server and its answer back.  Signals are handled on the main   *)
(* thread, between two of its steps, by the same stop as its finally       *)
(* clause and the worker's error path.                                     *)
(*                                                                         *)
(* _clients_lock is held for a single step of the readers and the worker;  *)
(* the main thread holds it in "adding" and "clearing", where a signal may *)
(* find it.  Frames arrive whole.                                          *)
(***************************************************************************)
EXTENDS VescClient

CONSTANTS MaxSignals,   \* bound on signals
          MaxFaults     \* bound on what upstream does wrong

ASSUME MuxAssumption == MaxSignals \in Nat /\ MaxFaults \in Nat

VARIABLES main,         \* where the main thread is
          accepted,     \* the client it is accepting
          handler,      \* where a signal handler on the main thread is
          signals,
          stop,         \* _stop
          server,       \* _server is open
          members,      \* _clients
          reader,       \* the threads that run _read_client
          requests,     \* _requests
          worker,       \* where the worker is
          current,      \* its request, then the answer to that
          answer,
          rest,         \* what is left in _upstream_decoder
          up,           \* _upstream
          toDevice, fromDevice, noise, unanswered

clients == <<client, toServer, toClient>>
mains   == <<main, accepted, handler, signals>>
shared  == <<stop, server, members, sock, up>>
workers == <<requests, worker, current, answer, rest>>
device  == <<toDevice, fromDevice, noise, unanswered>>

Locked == main \in {"adding", "clearing"}
Stuck  == handler = "clearing" /\ Locked
Exited == main = "over" /\ worker = "over"

(* A mutant: the listening socket is left to the end of the program.       *)
StopSetsMutant ==
  stop' = TRUE /\ UNCHANGED server /\ up' = IF up = "open" THEN "closed" ELSE up

(* stop, up to the clients: the event, the listening and upstream sockets. *)
StopSets == stop' = TRUE /\ server' = FALSE /\ up' = IF up = "open" THEN "closed" ELSE up

(* The rest of it.  _close_socket shuts the connection down, which ends    *)
(* the recv of the client's reader.                                        *)
StopClears ==
  /\ members' = {}
  /\ sock' = [c \in Clients |-> IF c \in members THEN "closed" ELSE sock[c]]

Discard(c) == members' = members \ {c} /\ sock' = [sock EXCEPT ![c] = "closed"]

--------------------------------------------------------------------------------
(* The main thread: _accept_loop, the finally clause of serve_forever.     *)
Accept ==
  /\ main = "accept" /\ handler = "none" /\ ~stop
  /\ \E c \in Clients :
       sock[c] = "backlog" /\ accepted' = c /\ sock' = [sock EXCEPT ![c] = "open"]
  /\ main' = "accepted"
  /\ UNCHANGED <<clients, handler, signals, stop, server, members, up, reader, workers, device>>

Lock ==
  /\ main = "accepted" /\ handler = "none"
  /\ main' = "adding"
  /\ UNCHANGED <<clients, accepted, handler, signals, shared, reader, workers, device>>

Add ==
  /\ main = "adding" /\ handler = "none"
  /\ members' = members \cup {accepted}
  /\ reader' = [reader EXCEPT ![accepted] = IF stop THEN "leaving" ELSE "reading"]
  /\ main' = "accept" /\ accepted' = NoAnswer.client
  /\ UNCHANGED <<clients, handler, signals, stop, server, sock, up, workers, device>>

FinallyStops ==
  /\ main = "accept" /\ handler = "none" /\ stop
  /\ StopSets
  /\ main' = "clearing"
  /\ UNCHANGED <<clients, accepted, handler, signals, members, sock, reader, workers, device>>

(* The join of the worker runs out; then the program waits for the worker, *)
(* which is no daemon, without a limit.                                    *)
FinallyClears ==
  /\ main = "clearing" /\ handler = "none"
  /\ StopClears
  /\ main' = "over"
  /\ UNCHANGED <<clients, accepted, handler, signals, stop, server, up, reader, workers, device>>

(* _handle_signal.  The lock is not reentrant.                             *)
Signal ==
  /\ handler = "none" /\ main # "over" /\ signals < MaxSignals
  /\ signals' = signals + 1
  /\ StopSets
  /\ handler' = "clearing"
  /\ UNCHANGED <<clients, main, accepted, members, sock, reader, workers, device>>

HandlerClears ==
  /\ handler = "clearing" /\ ~Locked
  /\ StopClears
  /\ handler' = "none"
  /\ UNCHANGED <<clients, main, accepted, signals, stop, server, up, reader, workers, device>>

--------------------------------------------------------------------------------
(* _read_client: "reading" it has looked at _stop and is in its recv.      *)
ReadRequests(c) ==
  /\ reader[c] = "reading" /\ sock[c] = "open" /\ toServer[c] # <<>>
  /\ requests' = requests \o toServer[c]
  /\ toServer' = [toServer EXCEPT ![c] = <<>>]
  /\ reader' = [reader EXCEPT ![c] = IF stop THEN "leaving" ELSE "reading"]
  /\ UNCHANGED <<client, toClient, mains, shared, worker, current, answer, rest, device>>

ReaderLeaves(c) ==
  /\ \/ reader[c] = "leaving"
     \/ /\ reader[c] = "reading"
        /\ sock[c] = "closed" \/ (client[c].pc = "over" /\ toServer[c] = <<>>)
  /\ ~Locked
  /\ reader' = [reader EXCEPT ![c] = "over"]
  /\ Discard(c)
  /\ UNCHANGED <<clients, mains, stop, server, up, workers, device>>

--------------------------------------------------------------------------------
(* _process_requests.  It looks at _stop between two waits for a request.  *)
Fails == StopSets /\ worker' = "clearing"
Done  == worker' = "get" /\ current' = NoAnswer /\ answer' = NoAnswer

(* A mutant: it does not look at _stop.                                    *)
NextRequestMutant ==
  /\ worker = "get" /\ requests # <<>>
  /\ requests' = Tail(requests)
  /\ current' = Head(requests)
  /\ IF up = "open"
     THEN /\ worker' = "recv"
          /\ toDevice' = Append(toDevice, Head(requests))
          /\ UNCHANGED <<stop, server, up>>
     ELSE Fails /\ UNCHANGED toDevice
  /\ UNCHANGED <<clients, mains, members, sock, reader, answer, rest, fromDevice, noise,
                 unanswered>>

(* It takes a request, and _round_trip sends it.  Of an upstream that has  *)
(* closed its end it learns now or from its recv.                          *)
NextRequest ==
  /\ worker = "get"
  /\ \/ /\ stop
        /\ worker' = "over"
        /\ UNCHANGED <<requests, current, stop, server, up, toDevice>>
     \/ /\ requests # <<>>
        /\ requests' = Tail(requests)
        /\ current' = Head(requests)
        /\ \/ /\ up # "closed"
              /\ toDevice' = IF up = "open" THEN Append(toDevice, Head(requests)) ELSE toDevice
              /\ worker' = "recv"
              /\ UNCHANGED <<stop, server, up>>
           \/ up # "open" /\ Fails /\ UNCHANGED toDevice
  /\ UNCHANGED <<clients, mains, members, sock, reader, answer, rest, fromDevice, noise,
                 unanswered>>

TakeLeft ==
  /\ worker = "recv" /\ ~stop /\ rest # <<>>
  /\ answer' = Head(rest)
  /\ rest' = Tail(rest)
  /\ worker' = "check"
  /\ UNCHANGED <<clients, mains, shared, reader, requests, current, device>>

BeginRecv ==
  /\ worker = "recv" /\ (stop \/ rest = <<>>)
  /\ IF stop THEN Fails ELSE worker' = "blocked" /\ UNCHANGED <<stop, server, up>>
  /\ UNCHANGED <<clients, mains, members, sock, reader, requests, current, answer, rest, device>>

(* A close of the socket by another thread does not wake a recv that is    *)
(* blocked: it returns when the device answers.                            *)
RecvUp ==
  /\ worker = "blocked"
  /\ \E k \in 1..Len(fromDevice) :
       /\ answer' = fromDevice[1]
       /\ rest' = SubSeq(fromDevice, 2, k)
       /\ fromDevice' = SubSeq(fromDevice, k + 1, Len(fromDevice))
  /\ worker' = "check"
  /\ UNCHANGED <<clients, mains, shared, reader, requests, current, toDevice, noise, unanswered>>

(* A mutant: the read has a timeout, after which the request is dropped.   *)
RecvFailsMutant ==
  /\ worker = "blocked"
  /\ worker' = "get"
  /\ UNCHANGED <<clients, mains, shared, reader, requests, current, answer, rest, device>>

RecvFails ==
  /\ worker = "blocked" /\ up = "eof" /\ fromDevice = <<>>
  /\ Fails
  /\ UNCHANGED <<clients, mains, members, sock, reader, requests, current, answer, rest, device>>

(* The answer is dropped if the client has gone.                           *)
CheckClient ==
  /\ worker = "check" /\ ~Locked
  /\ IF current.client \in members
     THEN worker' = "deliver" /\ UNCHANGED <<current, answer>>
     ELSE Done
  /\ UNCHANGED <<clients, mains, shared, reader, requests, rest, device>>

Deliver ==
  /\ worker = "deliver"
  /\ LET c == current.client
     IN  \/ /\ sock[c] = "open"
            /\ toClient' = [toClient EXCEPT ![c] = Append(@, answer)]
            /\ UNCHANGED <<members, sock>>
         \/ /\ (sock[c] = "closed" \/ client[c].pc = "over") /\ ~Locked
            /\ Discard(c)
            /\ UNCHANGED toClient
  /\ Done
  /\ UNCHANGED <<client, toServer, mains, stop, server, up, reader, requests, rest, device>>

WorkerClears ==
  /\ worker = "clearing" /\ ~Locked
  /\ StopClears
  /\ worker' = "over"
  /\ UNCHANGED <<clients, mains, stop, server, up, reader, requests, current, answer, rest, device>>

--------------------------------------------------------------------------------
(* The upstream server with the device behind it: it answers, does not,    *)
(* sends what nobody asked for, closes the connection.  A keepalive has no *)
(* answer.                                                                 *)
Faults == noise + unanswered + IF up = "eof" THEN 1 ELSE 0

DeviceAnswers ==
  /\ toDevice # <<>> /\ Head(toDevice).cmd # "alive" /\ up # "eof"
  /\ fromDevice' = Append(fromDevice, Head(toDevice))
  /\ toDevice' = Tail(toDevice)
  /\ UNCHANGED <<clients, mains, shared, reader, workers, noise, unanswered>>

DeviceIsSilent ==
  /\ toDevice # <<>> /\ Faults < MaxFaults
  /\ toDevice' = Tail(toDevice)
  /\ unanswered' = unanswered + 1
  /\ UNCHANGED <<clients, mains, shared, reader, workers, fromDevice, noise>>

DeviceSpeaks ==
  /\ Faults < MaxFaults /\ up # "eof"
  /\ \E cmd \in Commands : fromDevice' = Append(fromDevice, [NoAnswer EXCEPT !.cmd = cmd])
  /\ noise' = noise + 1
  /\ UNCHANGED <<clients, mains, shared, reader, workers, toDevice, unanswered>>

UpstreamEnds ==
  /\ up = "open" \/ (up = "closed" /\ worker = "blocked")
  /\ Faults < MaxFaults
  /\ up' = "eof"
  /\ UNCHANGED <<clients, mains, stop, server, members, sock, reader, workers, device>>

MainStep == Accept \/ Lock \/ Add \/ FinallyStops \/ FinallyClears \/ HandlerClears
ReaderStep(c) == ReadRequests(c) \/ ReaderLeaves(c)
WorkerStep ==
  \/ NextRequest \/ TakeLeft \/ BeginRecv \/ RecvUp \/ RecvFails
  \/ CheckClient \/ Deliver \/ WorkerClears

InitMux ==
  /\ InitClients
  /\ main = "accept" /\ accepted = NoAnswer.client /\ handler = "none" /\ signals = 0
  /\ stop = FALSE /\ server = TRUE /\ up = "open" /\ members = {}
  /\ reader = [c \in Clients |-> "none"]
  /\ requests = <<>> /\ worker = "get" /\ current = NoAnswer /\ answer = NoAnswer /\ rest = <<>>
  /\ toDevice = <<>> /\ fromDevice = <<>> /\ noise = 0 /\ unanswered = 0
=============================================================================
