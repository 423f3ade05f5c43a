------------------------------- MODULE MuxClients -------------------------------
(***************************************************************************)
(* Programs that reach one controller through the multiplexer.             *)
(***************************************************************************)
EXTENDS VescMux

vars == <<clients, mains, shared, reader, workers, device>>

ClientSteps(c) ==
  /\ Connect(c, server) \/ ClientStep(c)
  /\ UNCHANGED <<mains, stop, server, members, up, reader, workers, device>>

Init == InitMux

Next ==
  \/ \E c \in Clients : ClientSteps(c) \/ ReaderStep(c)
  \/ MainStep \/ Signal \/ WorkerStep
  \/ DeviceAnswers \/ DeviceIsSilent \/ DeviceSpeaks \/ UpstreamEnds

Fairness ==
  /\ WF_vars(MainStep) /\ WF_vars(WorkerStep) /\ WF_vars(DeviceAnswers)
  /\ \A c \in Clients : WF_vars(ReaderStep(c))

Spec == Init /\ [][Next]_vars /\ Fairness
--------------------------------------------------------------------------------
Request == [client : Clients, n : Nat \ {0}, cmd : Commands \cup {"alive"}]
Answer  == Request \cup {[NoAnswer EXCEPT !.cmd = cmd] : cmd \in Commands}

(* The type of every variable.  The worker forgets no request it took: it  *)
(* has one whenever it is between the two ends of a round trip.            *)
TypeOK ==
  /\ \A c \in Clients :
       /\ client[c].pc \in {"off", "greet", "idle", "wait", "over"}
       /\ client[c].n \in 0..MaxRequests[c] /\ client[c].tries \in 0..FwRetries
       /\ client[c].got \in Answer /\ client[c].left \in Seq(Answer)
       /\ sock[c] \in {"none", "backlog", "open", "closed"}
       /\ toServer[c] \in Seq(Request) /\ toClient[c] \in Seq(Answer)
       /\ reader[c] \in {"none", "reading", "leaving", "over"}
  /\ main \in {"accept", "accepted", "adding", "clearing", "over"}
  /\ accepted \in Clients \cup {"nobody"} /\ handler \in {"none", "clearing"}
  /\ signals \in 0..MaxSignals
  /\ stop \in BOOLEAN /\ server = ~stop /\ members \subseteq Clients
  /\ up \in {"open", "closed", "eof"}
  /\ requests \in Seq(Request) /\ rest \in Seq(Answer) /\ answer \in Answer
  /\ worker \in {"get", "recv", "blocked", "check", "deliver", "clearing", "over"}
  /\ worker \in {"recv", "blocked", "check", "deliver"} => current \in Request
  /\ toDevice \in Seq(Request) /\ fromDevice \in Seq(Answer)
  /\ Faults \in 0..MaxFaults

(* As long as the device says only what it is asked, no program is given   *)
(* an answer to another's request, whoever leaves, times out or is silent  *)
(* in between; and one that waits for every answer, none too late, is      *)
(* given the answer to the request it has just made (_round_trip and       *)
(* _recv_response, which match answers by their order and command alone).  *)
AnswersAreOwn ==
  noise = 0 =>
    \A c \in Clients : client[c].got # NoAnswer =>
      /\ client[c].got.client = c
      /\ client[c].orderly => client[c].got.n = client[c].n

(* A multiplexer that is told to stop ends: by a signal, or by its worker, *)
(* which tells it to when a round trip finds the upstream lost (a loss that *)
(* no request meets goes unnoticed).  There are two exceptions: a signal   *)
(* that finds the main thread inside the lock its handler wants, and a     *)
(* request the device never answers, for which the worker waits without a  *)
(* limit (stop, _handle_signal, _process_requests, _round_trip).           *)
Unanswerable == toDevice # <<>> /\ Head(toDevice).cmd = "alive"

StopEnds == stop ~> (Exited \/ Stuck \/ unanswered > 0 \/ Unanswerable)
=============================================================================
