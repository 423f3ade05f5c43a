------------------------------ MODULE VescClient ------------------------------
(***************************************************************************)
(* VescClient of vesc_py/client.py over a TcpTransport: the firmware       *)
(* handshake with its retries, requests, and answers that are known by     *)
(* their command alone.  An answer is written as the request it answers.   *)
(***************************************************************************)
EXTENDS Integers, SequencesExt

CONSTANTS Clients,      \* the programs that connect, each once
          FwRetries,    \* attempts of the handshake (25 in the code)
          MaxRequests   \* bound on the requests of each

ASSUME ClientAssumption == FwRetries \in Nat \ {0} /\ MaxRequests \in [Clients -> Nat]

VARIABLES client,       \* per program: where it is, its decoder, its last answer
          sock,         \* per program: the server's end of its connection
          toServer,     \* requests on their way, per connection
          toClient      \* answers on their way, per connection

Commands == {"fw", "data"}

NoAnswer == [client |-> "nobody", n |-> 0, cmd |-> "fw"]

(* "got" is the answer that was accepted for the last request, "left" what *)
(* PacketDecoder keeps: process is a generator, and frames that follow the *)
(* one it returned stay in its buffer.  "orderly": nothing timed out and   *)
(* every answer was waited for.                                            *)
NewClient ==
  [pc |-> "off", n |-> 0, cmd |-> "fw", tries |-> 0, left |-> <<>>,
   got |-> NoAnswer, orderly |-> TRUE]

(* _send_command.  A send may still succeed after the server closed its    *)
(* end, and what is sent is lost.                                          *)
Send(c, cmd, next) ==
  /\ client[c].n < MaxRequests[c]
  /\ client' = [client EXCEPT ![c] = [next EXCEPT !.n = @ + 1, !.cmd = cmd, !.got = NoAnswer]]
  /\ toServer' = IF sock[c] = "closed" THEN toServer
                 ELSE [toServer EXCEPT
                         ![c] = Append(@, [client |-> c, n |-> client[c].n + 1, cmd |-> cmd])]

Ends(c) ==
  /\ client' = [client EXCEPT ![c] = [NewClient EXCEPT !.pc = "over", !.n = client[c].n]]
  /\ toClient' = [toClient EXCEPT ![c] = <<>>]

(* connect_tcp: the connection waits in the server's backlog, with the     *)
(* first request of _handshake.                                            *)
Connect(c, listening) ==
  /\ client[c].pc = "off"
  /\ IF listening
     THEN /\ Send(c, "fw", [client[c] EXCEPT !.pc = "greet"])
          /\ sock' = [sock EXCEPT ![c] = "backlog"]
          /\ UNCHANGED toClient
     ELSE Ends(c) /\ UNCHANGED <<sock, toServer>>

(* get_fw_version, scan_can, get_imu_data, get_ and set_config; a set that *)
(* does not wait for its acknowledgement; send_alive, which has none.      *)
Ask(c) ==
  /\ client[c].pc = "idle"
  /\ \/ \E cmd \in Commands : Send(c, cmd, [client[c] EXCEPT !.pc = "wait"])
     \/ Send(c, "data", [client[c] EXCEPT !.orderly = FALSE])
     \/ Send(c, "alive", client[c])
  /\ UNCHANGED <<sock, toClient>>

(* One chunk read in _recv_response, and what the decoder makes of it.     *)
Receive(c) ==
  /\ client[c].pc \in {"greet", "wait"}
  /\ \E k \in 1..Len(toClient[c]) :
       LET frames == client[c].left \o SubSeq(toClient[c], 1, k)
           i == SelectInSeq(frames, LAMBDA f : f.cmd = client[c].cmd)
       IN  /\ toClient' = [toClient EXCEPT ![c] = SubSeq(@, k + 1, Len(@))]
           /\ client' = [client EXCEPT ![c] =
                           IF i = 0 THEN [@ EXCEPT !.left = <<>>]
                           ELSE [@ EXCEPT !.pc = "idle",
                                          !.got = frames[i],
                                          !.left = SubSeq(frames, i + 1, Len(frames))]]
  /\ UNCHANGED <<sock, toServer>>

(* The deadline of _recv_response.  The handshake tries again, or gives up *)
(* with a ConnectionError.                                                 *)
TimesOut(c) ==
  LET late == [client[c] EXCEPT !.orderly = FALSE, !.tries = @ + 1]
  IN  /\ \/ /\ client[c].pc = "wait"
            /\ client' = [client EXCEPT ![c] = [@ EXCEPT !.pc = "idle", !.orderly = FALSE]]
            /\ UNCHANGED <<toServer, toClient>>
         \/ /\ client[c].pc = "greet" /\ client[c].tries + 1 < FwRetries
            /\ Send(c, "fw", late)
            /\ UNCHANGED toClient
         \/ /\ client[c].pc = "greet" /\ client[c].tries + 1 = FwRetries
            /\ Ends(c)
            /\ UNCHANGED toServer
      /\ UNCHANGED sock

(* The program ends: of its own, or by a send that raises.                 *)
Close(c) ==
  /\ client[c].pc = "idle" \/ (client[c].pc = "greet" /\ sock[c] = "closed")
  /\ Ends(c)
  /\ UNCHANGED <<sock, toServer>>

ClientStep(c) ==
  Ask(c) \/ Receive(c) \/ TimesOut(c) \/ Close(c)

InitClients ==
  /\ client = [c \in Clients |-> NewClient]
  /\ sock = [c \in Clients |-> "none"]
  /\ toServer = [c \in Clients |-> <<>>]
  /\ toClient = [c \in Clients |-> <<>>]
=============================================================================
