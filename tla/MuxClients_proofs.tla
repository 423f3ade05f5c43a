-------------------------- MODULE MuxClients_proofs --------------------------
(***************************************************************************)
(* Whose answer a program behind the multiplexer is given, for any number  *)
(* of programs, requests, retries, signals and faults of the upstream.     *)
(***************************************************************************)
EXTENDS MuxClients, WellFoundedInduction, TLAPS

Live(x) == x.cmd # "alive"

\* Where a request, or its answer, is on its way: between the program and its reader,
\* queued, with the worker, or coming back.  A keepalive has no answer and is left out.
Sent(c, i)     == i \in 1..Len(toServer[c]) /\ Live(toServer[c][i])
Queued(c, i)   == i \in 1..Len(requests) /\ requests[i].client = c /\ Live(requests[i])
Held(c)        == worker \in {"recv", "blocked", "check", "deliver"} /\ current.client = c
                  /\ Live(current)

Waits(c) == client[c].pc \in {"greet", "wait"}

\* While nobody speaks unasked, all there is between the worker and the device is the
\* worker's request, or its answer.
RoundTrip ==
  /\ worker = "get" => toDevice = <<>> /\ fromDevice = <<>> /\ rest = <<>>
  /\ worker \in {"recv", "blocked"} =>
       /\ rest = <<>>
       /\ Len(toDevice) + Len(fromDevice) <= 1
       /\ \A i \in 1..Len(toDevice) : toDevice[i] = current
       /\ \A i \in 1..Len(fromDevice) : fromDevice[i] = current /\ Live(current)
  /\ worker \in {"check", "deliver"} =>
       /\ toDevice = <<>> /\ fromDevice = <<>> /\ rest = <<>>
       /\ answer = current /\ Live(current)

\* A connection carries one program's messages.
Private(c) ==
  /\ \A i \in 1..Len(toServer[c]) : toServer[c][i].client = c
  /\ noise = 0 =>
       /\ \A i \in 1..Len(toClient[c]) : toClient[c][i].client = c
       /\ \A i \in 1..Len(client[c].left) : client[c].left[i].client = c
       /\ client[c].got # NoAnswer => client[c].got.client = c

\* A program that waited for every answer has one request on its way while it waits,
\* the one it waits for, and none while it does not.
Current(c) ==
  /\ client[c].left = <<>>
  /\ \A i \in 1..Len(toServer[c]) : Sent(c, i) => Waits(c) /\ toServer[c][i].n = client[c].n
  /\ \A i \in 1..Len(requests) : Queued(c, i) => Waits(c) /\ requests[i].n = client[c].n
  /\ Held(c) => Waits(c) /\ current.n = client[c].n
  /\ \A i \in 1..Len(toClient[c]) : Waits(c) /\ toClient[c][i].n = client[c].n
  /\ client[c].got # NoAnswer => client[c].got.n = client[c].n

Single(c) ==
  /\ \A i, j \in 1..Len(toServer[c]) : Sent(c, i) /\ Sent(c, j) => i = j
  /\ \A i, j \in 1..Len(requests) : Queued(c, i) /\ Queued(c, j) => i = j
  /\ Len(toClient[c]) <= 1
  /\ \A i \in 1..Len(toServer[c]), j \in 1..Len(requests) : ~(Sent(c, i) /\ Queued(c, j))
  /\ \A i \in 1..Len(toServer[c]) : Sent(c, i) => ~Held(c) /\ Len(toClient[c]) = 0
  /\ \A i \in 1..Len(requests) : Queued(c, i) => ~Held(c) /\ Len(toClient[c]) = 0
  /\ Held(c) => Len(toClient[c]) = 0

Orderly(c) == client[c].orderly /\ client[c].pc # "over"

Ordered(c) == Orderly(c) => Current(c) /\ Single(c)

Gone(c) == client[c].pc = "over" => client[c].got = NoAnswer

MuxInv ==
  /\ noise = 0 => RoundTrip
  /\ \A c \in Clients : Private(c) /\ Gone(c)
  /\ noise = 0 => \A c \in Clients : Ordered(c)


-----------------------------------------------------------------------------
(* Types.                                                                   *)

Program == [pc : {"off", "greet", "idle", "wait", "over"}, n : Nat,
            cmd : Commands \cup {"alive"}, tries : 0..FwRetries,
            left : Seq(Answer), got : Answer, orderly : BOOLEAN]

ProgramsOK ==
  /\ client \in [Clients -> Program]
  /\ \A c \in Clients : client[c].n <= MaxRequests[c]
  /\ toServer \in [Clients -> Seq(Request)]
  /\ toClient \in [Clients -> Seq(Answer)]

WorkerOK ==
  /\ requests \in Seq(Request) /\ rest \in Seq(Answer) /\ answer \in Answer
  /\ worker \in {"get", "recv", "blocked", "check", "deliver", "clearing", "over"}
  /\ worker \in {"recv", "blocked", "check", "deliver"} => current \in Request
  /\ toDevice \in Seq(Request) /\ fromDevice \in Seq(Answer)
  /\ noise \in Nat /\ unanswered \in Nat

MessagesOK == ProgramsOK /\ WorkerOK

\* An answer is a message, whoever asked for it.
LEMMA Answers == /\ Request \subseteq Answer /\ NoAnswer \in Answer
                 /\ \A x \in Answer : x.n \in Nat /\ x.cmd \in Commands \cup {"alive"}
                 /\ \A x \in Request : x.client \in Clients
  BY DEF Answer, Request, NoAnswer, Commands

\* What a program is after some of its fields were set: it has asked.
LEMMA Asked ==
  ASSUME NEW r \in Program, NEW n \in Nat, NEW cmd \in Commands \cup {"alive"}, NEW got \in Answer
  PROVE  [r EXCEPT !.n = n, !.cmd = cmd, !.got = got] \in Program
  BY DEF Program

\* It is somewhere else.
LEMMA Placed ==
  ASSUME NEW r \in Program, NEW pc \in {"off", "greet", "idle", "wait", "over"}
  PROVE  [r EXCEPT !.pc = pc] \in Program
  BY DEF Program

\* It has ended.
LEMMA Ended ==
  ASSUME NEW r \in Program, NEW n \in Nat
  PROVE  [r EXCEPT !.pc = "over", !.n = n] \in Program
  BY DEF Program

\* It goes on without an answer.
LEMMA Marked ==
  ASSUME NEW r \in Program, NEW b \in BOOLEAN
  PROVE  [r EXCEPT !.orderly = b] \in Program
  BY DEF Program

\* It tries its handshake again.
LEMMA Retried ==
  ASSUME NEW r \in Program, NEW b \in BOOLEAN, NEW tries \in 0..FwRetries
  PROVE  [r EXCEPT !.orderly = b, !.tries = tries] \in Program
  BY DEF Program

\* It stops waiting.
LEMMA Late ==
  ASSUME NEW r \in Program, NEW b \in BOOLEAN
  PROVE  [r EXCEPT !.pc = "idle", !.orderly = b] \in Program
  BY DEF Program

\* Its decoder keeps some frames.
LEMMA Filled ==
  ASSUME NEW r \in Program, NEW left \in Seq(Answer)
  PROVE  [r EXCEPT !.left = left] \in Program
  BY DEF Program

\* It is given an answer, and its decoder keeps what follows.
LEMMA Given ==
  ASSUME NEW r \in Program, NEW left \in Seq(Answer), NEW got \in Answer
  PROVE  [r EXCEPT !.pc = "idle", !.got = got, !.left = left] \in Program
  BY DEF Program

\* A program before it connects.
LEMMA NewTyped == NewClient \in Program
  BY Answers, ClientAssumption DEF NewClient, Program, Commands

-----------------------------------------------------------------------------
(* The programs.                                                            *)

\* _send_command: the program waits for, or goes on without, an answer to a request
\* that is new, and that is lost if the server has closed its end.
LEMMA Sends ==
  ASSUME ProgramsOK, NEW c \in Clients, NEW cmd \in Commands \cup {"alive"},
         NEW next \in Program, next.n = client[c].n, Send(c, cmd, next)
  PROVE  /\ client' \in [Clients -> Program]
         /\ \A d \in Clients : client'[d].n <= MaxRequests[d]
         /\ client'[c].pc = next.pc /\ client'[c].n = client[c].n + 1
         /\ client'[c].got = NoAnswer /\ client'[c].left = next.left
         /\ client'[c].orderly = next.orderly
         /\ \A d \in Clients \ {c} : client'[d] = client[d] /\ toServer'[d] = toServer[d]
         /\ toServer' \in [Clients -> Seq(Request)]
         /\ \/ toServer' = toServer
            \/ \E r \in Request : /\ toServer'[c] = Append(toServer[c], r)
                                  /\ r.client = c /\ r.cmd = cmd /\ r.n = client[c].n + 1
<1> DEFINE r == [client |-> c, n |-> client[c].n + 1, cmd |-> cmd]
           p == [next EXCEPT !.n = @ + 1, !.cmd = cmd, !.got = NoAnswer]
<1>1. client[c] \in Program /\ client[c].n \in Nat /\ client[c].n + 1 <= MaxRequests[c]
  <2>1. client[c].n < MaxRequests[c]
    BY Zenon DEF Send
  <2>2. client[c] \in Program /\ client[c].n \in Nat
    BY DEF ProgramsOK, Program
  <2>3. QED
    BY <2>1, <2>2, ClientAssumption
<1>2. p = [next EXCEPT !.n = client[c].n + 1, !.cmd = cmd, !.got = NoAnswer]
  BY Zenon, next.n = client[c].n DEF p
<1>3. p \in Program
  <2>1. client[c].n + 1 \in Nat /\ NoAnswer \in Answer
    BY <1>1, Answers
  <2>2. [next EXCEPT !.n = client[c].n + 1, !.cmd = cmd, !.got = NoAnswer] \in Program
    BY Zenon, <2>1, Asked
  <2>3. QED
    BY Zenon, <1>2, <2>2
<1>4. /\ p.pc = next.pc /\ p.n = client[c].n + 1 /\ p.got = NoAnswer
      /\ p.left = next.left /\ p.orderly = next.orderly
  <2>1. p.pc = next.pc
    BY <1>2 DEF Program
  <2>2. p.n = client[c].n + 1
    BY <1>2 DEF Program
  <2>3. p.got = NoAnswer
    BY <1>2 DEF Program
  <2>4. p.left = next.left
    BY <1>2 DEF Program
  <2>5. p.orderly = next.orderly
    BY <1>2 DEF Program
  <2>6. QED
    BY Zenon, <2>1, <2>2, <2>3, <2>4, <2>5
<1>5. client' = [client EXCEPT ![c] = p]
  BY Zenon DEF Send, p
<1>6. r \in Request /\ r.client = c /\ r.cmd = cmd /\ r.n = client[c].n + 1
  BY <1>1 DEF Request
<1>7. toServer' = IF sock[c] = "closed" THEN toServer
                  ELSE [toServer EXCEPT ![c] = Append(@, r)]
  BY Zenon DEF Send, r
<1> HIDE DEF r, p
<1>8. toServer[c] \in Seq(Request)
  BY DEF ProgramsOK
<1>9. Append(toServer[c], r) \in Seq(Request)
  BY <1>6, <1>8
<1>10. /\ client' \in [Clients -> Program] /\ client'[c] = p
       /\ \A d \in Clients \ {c} : client'[d] = client[d]
  BY Zenon, <1>3, <1>5 DEF ProgramsOK
<1>11. \A d \in Clients : client'[d].n <= MaxRequests[d]
  <2> TAKE d \in Clients
  <2>1. CASE d = c
    BY <2>1, <1>1, <1>4, <1>10
  <2>2. CASE d # c
    BY Zenon, <2>2, <1>10 DEF ProgramsOK
  <2>3. QED
    BY <2>1, <2>2
<1>12. /\ toServer' \in [Clients -> Seq(Request)]
       /\ \A d \in Clients \ {c} : toServer'[d] = toServer[d]
       /\ toServer' = toServer \/ toServer'[c] = Append(toServer[c], r)
  BY Zenon, <1>7, <1>9 DEF ProgramsOK
<1>13. QED
  BY Zenon, <1>4, <1>6, <1>10, <1>11, <1>12

\* A program that ends forgets what it was given.
LEMMA Leaves ==
  ASSUME ProgramsOK, NEW c \in Clients, Ends(c)
  PROVE  /\ client' \in [Clients -> Program]
         /\ \A d \in Clients : client'[d].n <= MaxRequests[d]
         /\ client'[c].pc = "over" /\ client'[c].got = NoAnswer /\ client'[c].left = <<>>
         /\ \A d \in Clients \ {c} : client'[d] = client[d] /\ toClient'[d] = toClient[d]
         /\ toClient' \in [Clients -> Seq(Answer)] /\ toClient'[c] = <<>>
<1> DEFINE p == [NewClient EXCEPT !.pc = "over", !.n = client[c].n]
<1>1. client[c].n \in Nat /\ client[c].n <= MaxRequests[c]
  BY DEF ProgramsOK, Program
<1>2. p \in Program
  BY <1>1, NewTyped, Ended
<1>3. p.pc = "over" /\ p.n = client[c].n /\ p.got = NoAnswer /\ p.left = <<>>
  BY DEF NewClient
<1>4. client' = [client EXCEPT ![c] = p] /\ toClient' = [toClient EXCEPT ![c] = <<>>]
  BY Zenon DEF Ends, p
<1> HIDE DEF p
<1>5. /\ client' \in [Clients -> Program] /\ client'[c] = p
      /\ \A d \in Clients \ {c} : client'[d] = client[d]
  BY Zenon, <1>2, <1>4 DEF ProgramsOK
<1>6. \A d \in Clients : client'[d].n <= MaxRequests[d]
  BY <1>5, <1>1, <1>3 DEF ProgramsOK
<1>7. <<>> \in Seq(Answer)
  OBVIOUS
<1>8. /\ toClient' \in [Clients -> Seq(Answer)] /\ toClient'[c] = <<>>
      /\ \A d \in Clients \ {c} : toClient'[d] = toClient[d]
  BY Zenon, <1>4, <1>7 DEF ProgramsOK
<1>9. QED
  BY Zenon, <1>3, <1>5, <1>6, <1>8

\* What a chunk's frames have for the program: the first with its command.
FirstWith(frames, cmd) ==
  LET I == {j \in 1..Len(frames) : frames[j].cmd = cmd}
  IN  IF I # {} THEN Min(I) ELSE 0

\* If there is one, it is one of the frames.
LEMMA Selects ==
  ASSUME NEW frames \in Seq(Answer), NEW cmd, NEW i, i = FirstWith(frames, cmd)
  PROVE  i \in 0..Len(frames)
<1> DEFINE I == {j \in 1..Len(frames) : frames[j].cmd = cmd}
<1>1. i = IF I # {} THEN Min(I) ELSE 0
  BY Zenon DEF FirstWith, I
<1>2. I \subseteq 1..Len(frames) /\ Len(frames) \in Nat
  OBVIOUS
<1> HIDE DEF I
<1>3. ASSUME I # {} PROVE \E x \in I : \A y \in I : x <= y
  <2>1. I \subseteq Nat
    BY <1>2
  <2>2. PICK x \in I : \A y \in I : <<y, x>> \notin OpToRel(<, Nat)
    BY Zenon, <1>3, <2>1, NatLessThanWellFounded, WFMin
  <2>3. ASSUME NEW y \in I PROVE x <= y
    <3>1. ~(y < x)
      BY <2>1, <2>2 DEF OpToRel
    <3>2. QED
      BY <2>1, <3>1
  <2>4. QED
    BY <2>3
<1>4. I # {} => Min(I) \in I
  BY Zenon, <1>3 DEF Min
<1>5. CASE I = {}
  <2>1. i = 0
    BY Zenon, <1>1, <1>5
  <2>2. QED
    BY <2>1, <1>2
<1>6. CASE I # {}
  <2>1. i \in I
    BY Zenon, <1>1, <1>4, <1>6
  <2>2. QED
    BY <2>1, <1>2
<1>7. QED
  BY <1>5, <1>6

\* A chunk of k answers, after what the last one left.
Chunk(c, k) == client[c].left \o SubSeq(toClient[c], 1, k)

\* What is left when the i-th of its frames is the program's, or none is.
Chunked(c, k, i) ==
  /\ toClient'[c] = SubSeq(toClient[c], k + 1, Len(toClient[c]))
  /\ client'[c] = IF i = 0 THEN [client[c] EXCEPT !.left = <<>>]
                  ELSE [client[c] EXCEPT
                          !.pc = "idle", !.got = Chunk(c, k)[i],
                          !.left = SubSeq(Chunk(c, k), i + 1, Len(Chunk(c, k)))]

\* What a chunk leaves: the first k answers are taken off the connection, and either
\* none is the program's, or one of those at hand is, and what follows it is kept.
LEMMA Receives ==
  ASSUME ProgramsOK, NEW c \in Clients, Receive(c)
  PROVE  /\ client[c].pc \in {"greet", "wait"}
         /\ \A d \in Clients \ {c} : client'[d] = client[d] /\ toClient'[d] = toClient[d]
         /\ \E k \in 1..Len(toClient[c]) : \E i \in 0..Len(Chunk(c, k)) :
              Chunked(c, k, i)
         /\ client' \in [Clients -> Program] /\ toClient' \in [Clients -> Seq(Answer)]
         /\ \A d \in Clients : client'[d].n = client[d].n
<1> DEFINE After(k, i) == IF i = 0 THEN [client[c] EXCEPT !.left = <<>>]
                          ELSE [client[c] EXCEPT
                                  !.pc = "idle", !.got = Chunk(c, k)[i],
                                  !.left = SubSeq(Chunk(c, k), i + 1, Len(Chunk(c, k)))]
<1>1. /\ client[c] \in Program /\ client[c].left \in Seq(Answer) /\ client[c].n \in Nat
      /\ toClient[c] \in Seq(Answer)
  BY DEF ProgramsOK, Program
<1>2. PICK k \in 1..Len(toClient[c]) :
        /\ toClient' = [toClient EXCEPT ![c] = SubSeq(@, k + 1, Len(@))]
        /\ client' = [client EXCEPT ![c] = After(k, FirstWith(Chunk(c, k), client[c].cmd))]
  BY Zenon DEF Receive, SelectInSeq, FirstWith, Chunk, After
<1>3. Chunk(c, k) \in Seq(Answer) /\ Len(Chunk(c, k)) \in Nat
  BY <1>1 DEF Chunk
<1>4. PICK i \in 0..Len(Chunk(c, k)) : i = FirstWith(Chunk(c, k), client[c].cmd)
  BY Zenon, <1>3, Selects
<1>5. i # 0 => i \in 1..Len(Chunk(c, k)) /\ Chunk(c, k)[i] \in Answer
  BY <1>3, <1>4
<1>6. SubSeq(Chunk(c, k), i + 1, Len(Chunk(c, k))) \in Seq(Answer) /\ <<>> \in Seq(Answer)
  BY <1>3, <1>4
<1>7. SubSeq(toClient[c], k + 1, Len(toClient[c])) \in Seq(Answer)
  BY <1>1
<1>8. After(k, i) \in Program
  BY Zenon, <1>1, <1>5, <1>6, Filled, Given
<1>9. After(k, i).n = client[c].n
  BY <1>1 DEF Program
<1>10. client' = [client EXCEPT ![c] = After(k, i)]
  BY Zenon, <1>2, <1>4
<1> HIDE DEF After, Chunked
<1>11. /\ client' \in [Clients -> Program] /\ client'[c] = After(k, i)
       /\ \A d \in Clients \ {c} : client'[d] = client[d]
  BY Zenon, <1>8, <1>10 DEF ProgramsOK
<1>12. /\ toClient' \in [Clients -> Seq(Answer)]
       /\ toClient'[c] = SubSeq(toClient[c], k + 1, Len(toClient[c]))
       /\ \A d \in Clients \ {c} : toClient'[d] = toClient[d]
  BY Zenon, <1>2, <1>7 DEF ProgramsOK
<1>13. client[c].pc \in {"greet", "wait"}
  BY Zenon DEF Receive
<1>14. \A d \in Clients : client'[d].n = client[d].n
  BY Zenon, <1>9, <1>11
<1>15. QED
  BY Zenon, <1>4, <1>11, <1>12, <1>13, <1>14 DEF After, Chunked

\* A program stops waiting for an answer.
TooLate(c) ==
  client' = [client EXCEPT ![c] = [client[c] EXCEPT !.pc = "idle", !.orderly = FALSE]]

\* A request that a program may send: it waits for every one but a keepalive, unless it
\* is no longer orderly.
MaySend(c, cmd, next) ==
  /\ next.n = client[c].n /\ next.left = client[c].left
  /\ next.orderly => client[c].orderly /\ client[c].pc \in {"off", "idle"}
  /\ cmd = "alive" \/ next.pc \in {"greet", "wait"} \/ ~next.orderly
  /\ Send(c, cmd, next) /\ UNCHANGED toClient

\* What a program does to what is on its way.
LEMMA ProgramActs ==
  ASSUME ProgramsOK, NEW c \in Clients, ClientSteps(c)
  PROVE  \/ \E cmd \in Commands \cup {"alive"}, next \in Program : MaySend(c, cmd, next)
         \/ Ends(c) /\ UNCHANGED toServer
         \/ Receive(c) /\ UNCHANGED toServer
         \/ TooLate(c) /\ UNCHANGED <<toServer, toClient>>
<1> DEFINE Asks == \E cmd \in Commands \cup {"alive"}, next \in Program : MaySend(c, cmd, next)
<1>1. client[c] \in Program /\ "fw" \in Commands /\ "data" \in Commands
  BY DEF ProgramsOK, Commands
<1>2. ASSUME Connect(c, server) PROVE Asks \/ (Ends(c) /\ UNCHANGED toServer)
  <2>1. CASE server
    <3>1. /\ client[c].pc = "off" /\ UNCHANGED toClient
          /\ Send(c, "fw", [client[c] EXCEPT !.pc = "greet"])
      BY Zenon, <1>2, <2>1 DEF Connect
    <3>2. [client[c] EXCEPT !.pc = "greet"] \in Program
      BY <1>1, Placed
    <3>3. /\ [client[c] EXCEPT !.pc = "greet"].n = client[c].n
          /\ [client[c] EXCEPT !.pc = "greet"].left = client[c].left
          /\ [client[c] EXCEPT !.pc = "greet"].orderly = client[c].orderly
          /\ [client[c] EXCEPT !.pc = "greet"].pc = "greet"
      BY <1>1 DEF Program
    <3>4. QED
      BY Zenon, <1>1, <3>1, <3>2, <3>3 DEF MaySend
  <2>2. QED
    BY Zenon, <1>2, <2>1 DEF Connect
<1>3. ASSUME Ask(c) PROVE Asks
  <2>1. client[c].pc = "idle" /\ UNCHANGED toClient
    BY Zenon, <1>3 DEF Ask
  <2>2. ASSUME NEW cmd \in Commands, Send(c, cmd, [client[c] EXCEPT !.pc = "wait"]) PROVE Asks
    <3>1. [client[c] EXCEPT !.pc = "wait"] \in Program
      BY <1>1, Placed
    <3>2. /\ [client[c] EXCEPT !.pc = "wait"].n = client[c].n
          /\ [client[c] EXCEPT !.pc = "wait"].left = client[c].left
          /\ [client[c] EXCEPT !.pc = "wait"].orderly = client[c].orderly
          /\ [client[c] EXCEPT !.pc = "wait"].pc = "wait"
      BY <1>1 DEF Program
    <3>3. QED
      BY Zenon, <2>1, <2>2, <3>1, <3>2 DEF MaySend
  <2>3. CASE Send(c, "data", [client[c] EXCEPT !.orderly = FALSE])
    <3>1. [client[c] EXCEPT !.orderly = FALSE] \in Program
      BY Zenon, <1>1, Marked
    <3>2. ASSUME NEW b \in BOOLEAN
          PROVE  /\ [client[c] EXCEPT !.orderly = b].n = client[c].n
                 /\ [client[c] EXCEPT !.orderly = b].left = client[c].left
                 /\ [client[c] EXCEPT !.orderly = b].orderly = b
      BY <1>1 DEF Program
    <3>3. /\ [client[c] EXCEPT !.orderly = FALSE].n = client[c].n
          /\ [client[c] EXCEPT !.orderly = FALSE].left = client[c].left
          /\ ~[client[c] EXCEPT !.orderly = FALSE].orderly
      BY Zenon, <3>2
    <3>4. QED
      BY Zenon, <1>1, <2>1, <2>3, <3>1, <3>3 DEF MaySend
  <2>4. CASE Send(c, "alive", client[c])
    BY Zenon, <1>1, <2>1, <2>4 DEF MaySend
  <2>5. QED
    BY Zenon, <1>3, <2>2, <2>3, <2>4 DEF Ask
<1>4. ASSUME /\ client[c].tries + 1 < FwRetries
             /\ Send(c, "fw", [client[c] EXCEPT !.orderly = FALSE, !.tries = @ + 1])
             /\ UNCHANGED toClient
      PROVE  Asks
  <2> DEFINE next == [client[c] EXCEPT !.orderly = FALSE, !.tries = @ + 1]
  <2>1. client[c].tries + 1 \in 0..FwRetries
    BY <1>1, <1>4, ClientAssumption DEF Program
  <2>2. next = [client[c] EXCEPT !.orderly = FALSE, !.tries = client[c].tries + 1]
    BY Zenon
  <2>3. next \in Program
    BY Zenon, <1>1, <2>1, <2>2, Retried
  <2>4. ASSUME NEW b \in BOOLEAN, NEW t
        PROVE  /\ [client[c] EXCEPT !.orderly = b, !.tries = t].n = client[c].n
               /\ [client[c] EXCEPT !.orderly = b, !.tries = t].left = client[c].left
               /\ [client[c] EXCEPT !.orderly = b, !.tries = t].orderly = b
    BY <1>1 DEF Program
  <2>5. next.n = client[c].n /\ next.left = client[c].left /\ ~next.orderly
    BY Zenon, <2>2, <2>4
  <2>6. Send(c, "fw", next)
    BY Zenon, <1>4
  <2> HIDE DEF next
  <2>7. QED
    BY Zenon, <1>1, <1>4, <2>3, <2>5, <2>6 DEF MaySend
<1>5. ASSUME TimesOut(c)
      PROVE  \/ Asks \/ (Ends(c) /\ UNCHANGED toServer)
             \/ TooLate(c) /\ UNCHANGED <<toServer, toClient>>
  <2> HIDE DEF Asks
  <2>1. QED
    BY Zenon, <1>4, <1>5 DEF TimesOut, TooLate
<1>6. Receive(c) => UNCHANGED toServer
  BY Zenon DEF Receive
<1>7. Close(c) => Ends(c) /\ UNCHANGED toServer
  BY Zenon DEF Close
<1> HIDE DEF Asks
<1>8. \/ Asks
      \/ Ends(c) /\ UNCHANGED toServer
      \/ Receive(c) /\ UNCHANGED toServer
      \/ TooLate(c) /\ UNCHANGED <<toServer, toClient>>
  BY Zenon, <1>2, <1>3, <1>5, <1>6, <1>7 DEF ClientSteps, ClientStep
<1>9. QED
  BY Zenon, <1>8 DEF Asks

\* A time-out leaves the program's connection alone.
LEMMA GivesUp ==
  ASSUME ProgramsOK, NEW c \in Clients, TooLate(c)
  PROVE  /\ client' \in [Clients -> Program]
         /\ \A d \in Clients : client'[d].n = client[d].n
         /\ \A d \in Clients \ {c} : client'[d] = client[d]
         /\ client'[c].pc = "idle" /\ ~client'[c].orderly
         /\ client'[c].left = client[c].left /\ client'[c].got = client[c].got
<1> DEFINE p == [client[c] EXCEPT !.pc = "idle", !.orderly = FALSE]
<1>1. client[c] \in Program
  BY DEF ProgramsOK
<1>2. p \in Program
  BY Zenon, <1>1, Late
<1>3. ASSUME NEW b \in BOOLEAN
      PROVE  /\ [client[c] EXCEPT !.pc = "idle", !.orderly = b].n = client[c].n
             /\ [client[c] EXCEPT !.pc = "idle", !.orderly = b].left = client[c].left
             /\ [client[c] EXCEPT !.pc = "idle", !.orderly = b].got = client[c].got
             /\ [client[c] EXCEPT !.pc = "idle", !.orderly = b].orderly = b
             /\ [client[c] EXCEPT !.pc = "idle", !.orderly = b].pc = "idle"
  BY <1>1 DEF Program
<1>4. p.n = client[c].n /\ p.left = client[c].left /\ p.got = client[c].got /\ ~p.orderly
      /\ p.pc = "idle"
  BY Zenon, <1>3
<1> HIDE DEF p
<1>5. /\ client' \in [Clients -> Program] /\ client'[c] = p
      /\ \A d \in Clients \ {c} : client'[d] = client[d]
  BY Zenon, <1>2 DEF ProgramsOK, p, TooLate
<1>6. QED
  BY Zenon, <1>4, <1>5

\* The messages on a connection keep their types.
LEMMA ProgramsStep ==
  ASSUME MessagesOK, [Next]_vars
  PROVE  ProgramsOK'
<1> USE DEF MessagesOK
<1>1. ASSUME NEW c \in Clients, ClientSteps(c)
      PROVE  ProgramsOK'
  <2>1. ASSUME NEW cmd \in Commands \cup {"alive"}, NEW next \in Program, MaySend(c, cmd, next)
        PROVE  ProgramsOK'
    BY Zenon, <2>1, Sends DEF ProgramsOK, MaySend
  <2>2. CASE Ends(c) /\ UNCHANGED toServer
    BY Zenon, <2>2, Leaves DEF ProgramsOK
  <2>3. CASE Receive(c) /\ UNCHANGED toServer
    BY Zenon, <2>3, Receives DEF ProgramsOK
  <2>4. CASE TooLate(c) /\ UNCHANGED <<toServer, toClient>>
    BY Zenon, <2>4, GivesUp DEF ProgramsOK
  <2>5. QED
    BY Zenon, <1>1, <2>1, <2>2, <2>3, <2>4, ProgramActs
<1>2. ASSUME NEW c \in Clients, ReadRequests(c)
      PROVE  ProgramsOK'
  <2>1. <<>> \in Seq(Request)
    OBVIOUS
  <2>2. QED
    BY Zenon, <1>2, <2>1 DEF ProgramsOK, ReadRequests
<1>3. CASE Deliver
  <2>1. ASSUME NEW c \in Clients, toClient' = [toClient EXCEPT ![c] = Append(@, answer)]
        PROVE  toClient' \in [Clients -> Seq(Answer)]
    <3>1. Append(toClient[c], answer) \in Seq(Answer)
      BY DEF ProgramsOK, WorkerOK
    <3>2. QED
      BY Zenon, <2>1, <3>1 DEF ProgramsOK
  <2>2. current.client \in Clients
    BY <1>3, Answers DEF WorkerOK, Deliver
  <2>3. UNCHANGED <<client, toServer>>
    BY Zenon, <1>3 DEF Deliver
  <2>4. \/ toClient' = [toClient EXCEPT ![current.client] = Append(@, answer)]
        \/ UNCHANGED toClient
    BY Zenon, <1>3 DEF Deliver
  <2>5. QED
    BY Zenon, <2>1, <2>2, <2>3, <2>4 DEF ProgramsOK
<1>4. ASSUME UNCHANGED clients PROVE ProgramsOK'
  BY Zenon, <1>4 DEF ProgramsOK, clients
<1>5. ASSUME NEW c \in Clients, ReaderLeaves(c) PROVE UNCHANGED clients
  BY Zenon, <1>5 DEF ReaderLeaves
<1>6. MainStep \/ Signal => UNCHANGED clients
  BY Zenon DEF MainStep, Signal, Accept, Lock, Add, FinallyStops, FinallyClears,
               HandlerClears
<1>7. WorkerStep => Deliver \/ UNCHANGED clients
  BY Zenon DEF WorkerStep, NextRequest, TakeLeft, BeginRecv, RecvUp, RecvFails,
               CheckClient, WorkerClears
<1>8. DeviceAnswers \/ DeviceIsSilent \/ DeviceSpeaks \/ UpstreamEnds => UNCHANGED clients
  BY Zenon DEF DeviceAnswers, DeviceIsSilent, DeviceSpeaks, UpstreamEnds
<1>9. UNCHANGED vars => UNCHANGED clients
  BY Zenon DEF vars
<1>10. ASSUME NEW c \in Clients, ReaderStep(c) PROVE ProgramsOK'
  BY Zenon, <1>2, <1>4, <1>5, <1>10 DEF ReaderStep
<1>11. QED
  BY Zenon, <1>3, <1>4, <1>6, <1>7, <1>8, <1>9, <1>1, <1>10 DEF Next

-----------------------------------------------------------------------------
(* The worker.                                                              *)

\* The worker leaves, or takes the request at the head of the queue and sends it, or
\* cannot.
LEMMA Takes ==
  ASSUME NextRequest
  PROVE  /\ worker = "get"
         /\ UNCHANGED <<clients, answer, rest, fromDevice, noise, unanswered>>
         /\ \/ worker' = "over" /\ UNCHANGED <<requests, toDevice>>
            \/ /\ requests # <<>> /\ worker' \in {"recv", "clearing"}
               /\ requests' = Tail(requests) /\ current' = Head(requests)
               /\ toDevice' = toDevice \/ toDevice' = Append(toDevice, Head(requests))
<1>1. /\ worker = "get"
      /\ UNCHANGED <<clients, answer, rest, fromDevice, noise, unanswered>>
  BY Zenon DEF NextRequest
<1>2. CASE worker' = "over" /\ UNCHANGED <<requests, toDevice>>
  BY Zenon, <1>1, <1>2
<1>3. CASE requests # <<>> /\ requests' = Tail(requests) /\ current' = Head(requests)
  <2>1. CASE worker' = "recv" /\ toDevice' = IF up = "open" THEN Append(toDevice, Head(requests))
                                             ELSE toDevice
    BY Zenon, <1>1, <1>3, <2>1
  <2>2. CASE Fails /\ UNCHANGED toDevice
    BY Zenon, <1>1, <1>3, <2>2 DEF Fails
  <2>3. QED
    BY Zenon, <1>3, <2>1, <2>2 DEF NextRequest
<1>4. QED
  BY Zenon, <1>2, <1>3 DEF NextRequest

\* The queue and the round trip carry requests and answers.
LEMMA WorkerStepTyped ==
  ASSUME MessagesOK, [Next]_vars
  PROVE  WorkerOK'
<1> USE Answers DEF WorkerOK, MessagesOK
<1>1. ASSUME UNCHANGED <<workers, device>> PROVE WorkerOK'
  BY <1>1 DEF workers, device
<1>2. ASSUME NEW c \in Clients, ReadRequests(c) PROVE WorkerOK'
  <2>1. toServer[c] \in Seq(Request)
    BY DEF ProgramsOK
  <2>2. QED
    BY <1>2, <2>1 DEF ReadRequests, device
<1>3. CASE NextRequest
  <2>1. CASE worker' = "over" /\ UNCHANGED <<requests, toDevice>>
    <3>1. UNCHANGED <<answer, rest, fromDevice, noise, unanswered>>
      BY Zenon, <1>3, Takes
    <3>2. QED
      BY <2>1, <3>1
  <2>2. CASE /\ requests # <<>> /\ worker' \in {"recv", "clearing"}
             /\ requests' = Tail(requests) /\ current' = Head(requests)
             /\ toDevice' = toDevice \/ toDevice' = Append(toDevice, Head(requests))
    <3>1. Head(requests) \in Request /\ Tail(requests) \in Seq(Request)
      BY <2>2
    <3>2. toDevice' \in Seq(Request)
      <4>1. toDevice \in Seq(Request)
        BY DEF MessagesOK
      <4>2. Append(toDevice, Head(requests)) \in Seq(Request)
        BY <3>1, <4>1
      <4>3. QED
        BY Zenon, <2>2, <4>1, <4>2
    <3>3. UNCHANGED <<answer, rest, fromDevice, noise, unanswered>>
      BY Zenon, <1>3, Takes
    <3>4. QED
      BY <2>2, <3>1, <3>2, <3>3
  <2>3. QED
    BY Zenon, <1>3, <2>1, <2>2, Takes
<1>4. CASE TakeLeft
  BY <1>4 DEF TakeLeft, device
<1>5. CASE BeginRecv
  BY <1>5 DEF BeginRecv, Fails, StopSets, device
<1>6. CASE RecvUp
  <2>1. PICK k \in 1..Len(fromDevice) :
          /\ answer' = fromDevice[1]
          /\ rest' = SubSeq(fromDevice, 2, k)
          /\ fromDevice' = SubSeq(fromDevice, k + 1, Len(fromDevice))
    BY Zenon, <1>6 DEF RecvUp
  <2>2. answer' \in Answer /\ rest' \in Seq(Answer) /\ fromDevice' \in Seq(Answer)
    BY <2>1
  <2>3. QED
    BY <1>6, <2>2 DEF RecvUp
<1>7. CASE RecvFails
  BY <1>7 DEF RecvFails, Fails, StopSets, device
<1>8. CASE CheckClient
  BY <1>8 DEF CheckClient, Done, device
<1>9. CASE Deliver
  BY <1>9 DEF Deliver, Done, device
<1>10. CASE WorkerClears
  BY <1>10 DEF WorkerClears, device
<1>11. CASE DeviceAnswers
  BY <1>11 DEF DeviceAnswers, workers
<1>12. CASE DeviceIsSilent
  BY <1>12 DEF DeviceIsSilent, workers
<1>13. CASE DeviceSpeaks
  <2>1. \A cmd \in Commands : [NoAnswer EXCEPT !.cmd = cmd] \in Answer
    BY DEF Answer
  <2>2. PICK cmd \in Commands : fromDevice' = Append(fromDevice, [NoAnswer EXCEPT !.cmd = cmd])
    BY Zenon, <1>13 DEF DeviceSpeaks
  <2>3. fromDevice' \in Seq(Answer)
    BY <2>1, <2>2
  <2>4. QED
    BY <1>13, <2>3 DEF DeviceSpeaks, workers
<1>14. UpstreamEnds \/ UNCHANGED vars => UNCHANGED <<workers, device>>
  BY Zenon DEF UpstreamEnds, vars
<1>15. \A c \in Clients : ClientSteps(c) \/ ReaderLeaves(c) => UNCHANGED <<workers, device>>
  BY Zenon DEF ClientSteps, ReaderLeaves
<1>16. MainStep \/ Signal => UNCHANGED <<workers, device>>
  BY Zenon DEF MainStep, Signal, Accept, Lock, Add, FinallyStops, FinallyClears,
               HandlerClears
<1>17. QED
  BY Zenon, <1>1, <1>2, <1>3, <1>4, <1>5, <1>6, <1>7, <1>8, <1>9, <1>10, <1>11, <1>12,
     <1>13, <1>14, <1>15, <1>16 DEF Next, ReaderStep, WorkerStep

\* What is on its way keeps its type.
LEMMA MessagesHold == Spec => []MessagesOK
<1>1. Init => MessagesOK
  <2>1. Init => /\ requests = <<>> /\ rest = <<>> /\ answer = NoAnswer /\ worker = "get"
                /\ toDevice = <<>> /\ fromDevice = <<>> /\ noise = 0 /\ unanswered = 0
                /\ InitClients
    BY Zenon DEF Init, InitMux
  <2>2. Init => WorkerOK
    BY <2>1, Answers DEF WorkerOK
  <2>3. InitClients => ProgramsOK
    <3>1. NewClient.n = 0 /\ <<>> \in Seq(Request) /\ <<>> \in Seq(Answer)
      BY DEF NewClient
    <3>2. \A c \in Clients : 0 <= MaxRequests[c]
      BY ClientAssumption
    <3>3. QED
      BY Zenon, <3>1, <3>2, NewTyped DEF InitClients, ProgramsOK
  <2>4. QED
    BY Zenon, <2>1, <2>2, <2>3 DEF MessagesOK
<1>2. MessagesOK /\ [Next]_vars => MessagesOK'
  BY Zenon, ProgramsStep, WorkerStepTyped DEF MessagesOK
<1>3. QED
  BY <1>1, <1>2, PTL DEF Spec

-----------------------------------------------------------------------------
(* The threads.                                                             *)

SocksOK ==
  /\ sock \in [Clients -> {"none", "backlog", "open", "closed"}]
  /\ reader \in [Clients -> {"none", "reading", "leaving", "over"}]
  /\ members \subseteq Clients

MainOK ==
  /\ main \in {"accept", "accepted", "adding", "clearing", "over"}
  /\ accepted \in Clients \cup {"nobody"}
  /\ main \in {"accepted", "adding"} => accepted \in Clients
  /\ handler \in {"none", "clearing"} /\ signals \in 0..MaxSignals

UpOK ==
  /\ stop \in BOOLEAN /\ server = ~stop /\ up \in {"open", "closed", "eof"}
  /\ Faults \in 0..MaxFaults

\* The connections, and who is known.
LEMMA SocksStep ==
  ASSUME MessagesOK, SocksOK, MainOK, [Next]_vars
  PROVE  SocksOK'
<1> USE DEF SocksOK
<1>1. ASSUME UNCHANGED <<sock, reader, members>> PROVE SocksOK'
  BY Zenon, <1>1
<1>2. ASSUME StopClears, UNCHANGED reader PROVE SocksOK'
  BY <1>2 DEF StopClears
<1>3. ASSUME NEW c, Discard(c), reader' \in [Clients -> {"none", "reading", "leaving", "over"}]
      PROVE  SocksOK'
  BY <1>3 DEF Discard
<1>4. ASSUME NEW c \in Clients, ClientSteps(c) PROVE SocksOK'
  <2>1. UNCHANGED <<reader, members>>
    BY Zenon, <1>4 DEF ClientSteps
  <2>2. UNCHANGED sock \/ sock' = [sock EXCEPT ![c] = "backlog"]
    BY Zenon, <1>4 DEF ClientSteps, Connect, ClientStep, Ask, Receive, TimesOut, Close
  <2>3. QED
    BY <2>1, <2>2
<1>5. ASSUME NEW c \in Clients, ReaderStep(c) PROVE SocksOK'
  <2>1. CASE ReadRequests(c)
    BY <2>1 DEF ReadRequests, shared
  <2>2. CASE ReaderLeaves(c)
    <3>1. reader' = [reader EXCEPT ![c] = "over"] /\ Discard(c)
      BY Zenon, <2>2 DEF ReaderLeaves
    <3>2. QED
      BY <1>3, <3>1
  <2>3. QED
    BY Zenon, <1>5, <2>1, <2>2 DEF ReaderStep
<1>6. CASE Accept
  <2>1. PICK c \in Clients : sock' = [sock EXCEPT ![c] = "open"]
    BY Zenon, <1>6 DEF Accept
  <2>2. UNCHANGED <<reader, members>>
    BY Zenon, <1>6 DEF Accept
  <2>3. QED
    BY <2>1, <2>2
<1>7. CASE Add
  BY <1>7 DEF Add, MainOK
<1>8. FinallyClears \/ HandlerClears \/ WorkerClears => SocksOK'
  BY Zenon, <1>2 DEF FinallyClears, HandlerClears, WorkerClears
<1>9. Deliver => SocksOK'
  <2>1. ASSUME Deliver, UNCHANGED <<members, sock>> PROVE SocksOK'
    BY Zenon, <1>1, <2>1 DEF Deliver
  <2>2. ASSUME Deliver, Discard(current.client) PROVE SocksOK'
    BY Zenon, <1>3, <2>2 DEF Deliver
  <2>3. QED
    BY Zenon, <2>1, <2>2 DEF Deliver
<1>10. Lock \/ FinallyStops \/ Signal => UNCHANGED <<sock, reader, members>>
  BY Zenon DEF Lock, FinallyStops, Signal, shared
<1>11. NextRequest \/ TakeLeft \/ BeginRecv \/ RecvUp \/ RecvFails \/ CheckClient
         => UNCHANGED <<sock, reader, members>>
  BY Zenon DEF NextRequest, TakeLeft, BeginRecv, RecvUp, RecvFails, CheckClient, shared
<1>12. DeviceAnswers \/ DeviceIsSilent \/ DeviceSpeaks \/ UpstreamEnds \/ UNCHANGED vars
         => UNCHANGED <<sock, reader, members>>
  BY Zenon DEF DeviceAnswers, DeviceIsSilent, DeviceSpeaks, UpstreamEnds, vars, shared
<1>13. QED
  BY Zenon, <1>1, <1>4, <1>5, <1>6, <1>7, <1>8, <1>9, <1>10, <1>11, <1>12
     DEF Next, MainStep, WorkerStep

\* The main thread and the handlers that interrupt it.
LEMMA MainStays ==
  ASSUME MainOK, [Next]_vars
  PROVE  MainOK'
<1> USE MuxAssumption DEF MainOK
<1>1. ASSUME UNCHANGED mains PROVE MainOK'
  BY Zenon, <1>1 DEF mains
<1>2. Accept => MainOK'
  BY DEF Accept
<1>3. Lock => MainOK'
  BY DEF Lock
<1>4. Add => MainOK'
  BY DEF Add, NoAnswer
<1>5. FinallyStops => MainOK'
  BY DEF FinallyStops
<1>6. FinallyClears => MainOK'
  BY DEF FinallyClears
<1>7. Signal => MainOK'
  BY DEF Signal
<1>8. HandlerClears => MainOK'
  BY DEF HandlerClears
<1>9. WorkerStep => UNCHANGED mains
  BY Zenon DEF WorkerStep, NextRequest, TakeLeft, BeginRecv, RecvUp, RecvFails,
               CheckClient, Deliver, WorkerClears
<1>10. \A c \in Clients : ClientSteps(c) \/ ReaderStep(c) => UNCHANGED mains
  BY Zenon DEF ClientSteps, ReaderStep, ReadRequests, ReaderLeaves
<1>11. DeviceAnswers \/ DeviceIsSilent \/ DeviceSpeaks \/ UpstreamEnds \/ UNCHANGED vars
         => UNCHANGED mains
  BY Zenon DEF DeviceAnswers, DeviceIsSilent, DeviceSpeaks, UpstreamEnds, vars
<1>12. QED
  BY Zenon, <1>1, <1>2, <1>3, <1>4, <1>5, <1>6, <1>7, <1>8, <1>9, <1>10, <1>11
     DEF Next, MainStep

\* The upstream connection, and what it did wrong.
LEMMA UpStep ==
  ASSUME MessagesOK, UpOK, [Next]_vars
  PROVE  UpOK'
<1> USE MuxAssumption DEF UpOK, Faults
<1>1. noise \in Nat /\ unanswered \in Nat
  BY DEF MessagesOK, WorkerOK
<1>2. ASSUME UNCHANGED <<stop, server, up, noise, unanswered>> PROVE UpOK'
  BY <1>2
<1>3. ASSUME StopSets, UNCHANGED <<noise, unanswered>> PROVE UpOK'
  BY <1>3 DEF StopSets
<1>4. CASE DeviceIsSilent
  BY <1>1, <1>4 DEF DeviceIsSilent, shared
<1>5. CASE DeviceSpeaks
  <2>1. /\ UNCHANGED <<stop, server, up, unanswered>> /\ noise' = noise + 1
        /\ Faults < MaxFaults
    BY Zenon, <1>5 DEF DeviceSpeaks, shared
  <2>2. QED
    BY <1>1, <2>1
<1>6. CASE UpstreamEnds
  BY <1>1, <1>6 DEF UpstreamEnds, device
<1>7. FinallyStops \/ Signal => UpOK'
  BY Zenon, <1>3 DEF FinallyStops, Signal, device
<1>8. NextRequest \/ BeginRecv \/ RecvFails => UpOK'
  BY Zenon, <1>2, <1>3 DEF NextRequest, BeginRecv, RecvFails, Fails, device
<1>9. TakeLeft \/ RecvUp \/ CheckClient \/ Deliver \/ WorkerClears
        => UNCHANGED <<stop, server, up, noise, unanswered>>
  BY Zenon DEF TakeLeft, RecvUp, CheckClient, Deliver, WorkerClears, shared, device
<1>10. \A c \in Clients : ClientSteps(c) \/ ReaderStep(c)
                            => UNCHANGED <<stop, server, up, noise, unanswered>>
  BY Zenon DEF ClientSteps, ReaderStep, ReadRequests, ReaderLeaves, shared, device
<1>11. Accept \/ Lock \/ Add \/ FinallyClears \/ HandlerClears
         => UNCHANGED <<stop, server, up, noise, unanswered>>
  BY Zenon DEF Accept, Lock, Add, FinallyClears, HandlerClears, shared, device
<1>12. DeviceAnswers \/ UNCHANGED vars => UNCHANGED <<stop, server, up, noise, unanswered>>
  BY Zenon DEF DeviceAnswers, vars, shared, device
<1>13. QED
  BY Zenon, <1>2, <1>4, <1>5, <1>6, <1>7, <1>8, <1>9, <1>10, <1>11, <1>12
     DEF Next, MainStep, WorkerStep

(* Every variable keeps its type, and the worker the request it is         *)
(* answering (VescMuxServer, VescClient).                                  *)
THEOREM TypeCorrect == Spec => []TypeOK
<1> DEFINE ControlOK == SocksOK /\ MainOK /\ UpOK
<1>1. Init => ControlOK
  <2> SUFFICES ASSUME Init PROVE ControlOK
    OBVIOUS
  <2> USE DEF Init, InitMux, InitClients
  <2>1. SocksOK
    BY DEF SocksOK
  <2>2. MainOK
    BY MuxAssumption DEF MainOK, NoAnswer
  <2>3. UpOK
    <3>1. stop = FALSE /\ server = TRUE /\ up = "open" /\ noise = 0 /\ unanswered = 0
      BY Zenon
    <3>2. Faults = 0
      BY <3>1 DEF Faults
    <3>3. Faults \in 0..MaxFaults /\ up \in {"open", "closed", "eof"}
      BY <3>1, <3>2, MuxAssumption
    <3>4. stop \in BOOLEAN /\ server = ~stop
      BY Zenon, <3>1
    <3>5. QED
      BY Zenon, <3>3, <3>4 DEF UpOK
  <2>4. QED
    BY Zenon, <2>1, <2>2, <2>3
<1>2. MessagesOK /\ ControlOK /\ [Next]_vars => ControlOK'
  BY Zenon, SocksStep, MainStays, UpStep
<1>3. MessagesOK /\ ControlOK => TypeOK
  <2> SUFFICES ASSUME MessagesOK, ControlOK PROVE TypeOK
    OBVIOUS
  <2>1. ASSUME NEW c \in Clients
        PROVE  /\ client[c].pc \in {"off", "greet", "idle", "wait", "over"}
               /\ client[c].n \in 0..MaxRequests[c] /\ client[c].tries \in 0..FwRetries
               /\ client[c].got \in Answer /\ client[c].left \in Seq(Answer)
    BY ClientAssumption DEF MessagesOK, ProgramsOK, Program
  <2>2. ASSUME NEW c \in Clients
        PROVE  /\ toServer[c] \in Seq(Request) /\ toClient[c] \in Seq(Answer)
               /\ sock[c] \in {"none", "backlog", "open", "closed"}
               /\ reader[c] \in {"none", "reading", "leaving", "over"}
    BY Zenon DEF MessagesOK, ProgramsOK, SocksOK
  <2>3. QED
    BY Zenon, <2>1, <2>2 DEF TypeOK, MessagesOK, WorkerOK, SocksOK, MainOK, UpOK
<1> HIDE DEF ControlOK
<1>4. QED
  BY <1>1, <1>2, <1>3, MessagesHold, PTL DEF Spec

-----------------------------------------------------------------------------
(* The round trip.                                                          *)

\* What the device has said unasked is not unsaid.
LEMMA NoiseStays == ASSUME MessagesOK, [Next]_vars, noise' = 0 PROVE noise = 0
<1>1. noise' = noise \/ noise' = noise + 1
  BY Zenon DEF Next, vars, ClientSteps, ReaderStep, ReadRequests, ReaderLeaves, MainStep,
       Signal, Accept, Lock, Add, FinallyStops, FinallyClears, HandlerClears, WorkerStep,
       NextRequest, TakeLeft, BeginRecv, RecvUp, RecvFails, CheckClient, Deliver,
       WorkerClears, DeviceAnswers, DeviceIsSilent, DeviceSpeaks, UpstreamEnds, device
<1>2. QED
  BY <1>1 DEF MessagesOK, WorkerOK

\* Only the device's speaking unasked can break the round trip.
LEMMA RoundTripStep ==
  ASSUME MessagesOK, [Next]_vars, RoundTrip, noise = 0, noise' = 0
  PROVE  RoundTrip'
<1> USE DEF RoundTrip, Live, MessagesOK, WorkerOK
<1>1. ASSUME UNCHANGED <<worker, current, answer, rest, device>> PROVE RoundTrip'
  BY <1>1 DEF device
<1>2. CASE NextRequest
  <2>1. CASE worker' = "over"
    BY <2>1
  <2>2. CASE /\ requests # <<>> /\ worker' \in {"recv", "clearing"}
             /\ current' = Head(requests)
             /\ toDevice' = toDevice \/ toDevice' = Append(toDevice, Head(requests))
    <3>1. rest' = <<>> /\ fromDevice' = <<>> /\ toDevice = <<>>
      BY Zenon, <1>2, Takes
    <3>2. Head(requests) \in Request
      BY <2>2
    <3>3. /\ Len(toDevice') <= 1 /\ Len(fromDevice') <= 0
          /\ \A i \in 1..Len(toDevice') : toDevice'[i] = current'
      <4>1. CASE toDevice' = toDevice
        BY <3>1, <4>1
      <4>2. CASE toDevice' = Append(toDevice, Head(requests))
        <5>1. toDevice \in Seq(Request) /\ Len(toDevice) <= 0
          BY <3>1
        <5>2. Len(toDevice') <= 1 /\ \A i \in 1..Len(toDevice') : toDevice'[i] = Head(requests)
          BY <3>2, <4>2, <5>1
        <5>3. QED
          BY <2>2, <3>1, <5>2
      <4>3. QED
        BY Zenon, <2>2, <4>1, <4>2
    <3>4. QED
      BY <2>2, <3>1, <3>3
  <2>3. QED
    BY Zenon, <1>2, <2>1, <2>2, Takes
<1>3. CASE TakeLeft
  BY Zenon, <1>3 DEF TakeLeft
<1>4. CASE BeginRecv
  <2>1. UNCHANGED <<current, answer, rest, device>> /\ worker = "recv"
    BY Zenon, <1>4 DEF BeginRecv
  <2>2. worker' = "blocked" \/ worker' = "clearing"
    BY Zenon, <1>4 DEF BeginRecv, Fails
  <2>3. QED
    BY <2>1, <2>2 DEF device
<1>5. CASE RecvUp
  <2>1. PICK k \in 1..Len(fromDevice) :
          /\ answer' = fromDevice[1]
          /\ rest' = SubSeq(fromDevice, 2, k)
          /\ fromDevice' = SubSeq(fromDevice, k + 1, Len(fromDevice))
    BY Zenon, <1>5 DEF RecvUp
  <2>2. worker = "blocked" /\ worker' = "check" /\ UNCHANGED <<current, toDevice>>
    BY Zenon, <1>5 DEF RecvUp
  <2>3. Len(toDevice) <= 0 /\ k = 1 /\ Len(fromDevice) <= 1
    BY <2>1, <2>2
  <2>4. toDevice = <<>>
    BY <2>3
  <2>5. rest' = <<>> /\ fromDevice' = <<>>
    BY <2>1, <2>3
  <2>6. answer' = current /\ Live(current)
    BY <2>1, <2>2
  <2>7. QED
    BY <2>2, <2>4, <2>5, <2>6
<1>6. CASE RecvFails
  BY <1>6 DEF RecvFails, Fails
<1>7. CASE CheckClient
  <2>1. worker = "check" /\ UNCHANGED <<rest, device>>
    BY Zenon, <1>7 DEF CheckClient
  <2>2. \/ worker' = "deliver" /\ UNCHANGED <<current, answer>>
        \/ worker' = "get"
    BY Zenon, <1>7 DEF CheckClient, Done
  <2>3. QED
    BY <2>1, <2>2 DEF device
<1>8. CASE Deliver
  <2>1. worker = "deliver" /\ UNCHANGED <<rest, device>> /\ worker' = "get"
    BY Zenon, <1>8 DEF Deliver, Done
  <2>2. QED
    BY <2>1 DEF device
<1>9. CASE WorkerClears
  BY <1>9 DEF WorkerClears
<1>10. CASE DeviceAnswers
  <2>1. /\ toDevice # <<>> /\ Live(Head(toDevice))
        /\ fromDevice' = Append(fromDevice, Head(toDevice)) /\ toDevice' = Tail(toDevice)
        /\ UNCHANGED <<worker, current, answer, rest>>
    BY Zenon, <1>10 DEF DeviceAnswers, workers
  <2>2. Head(toDevice) \in Request /\ Head(toDevice) \in Answer
    BY <2>1, Answers
  <2>3. CASE worker \in {"recv", "blocked"}
    <3>1. Head(toDevice) = current /\ Len(toDevice) <= 1 /\ Len(fromDevice) <= 0
      <4>1. /\ toDevice \in Seq(Request) /\ fromDevice \in Seq(Answer)
            /\ Len(toDevice) + Len(fromDevice) <= 1
            /\ \A i \in 1..Len(toDevice) : toDevice[i] = current
        BY Zenon, <2>3
      <4>2. Len(toDevice) > 0 /\ Head(toDevice) = toDevice[1]
        BY <2>1, <4>1
      <4>3. Len(toDevice) \in Nat /\ Len(fromDevice) \in Nat
        BY <4>1
      <4>4. Len(toDevice) <= 1 /\ Len(fromDevice) <= 0
        BY <4>1, <4>2, <4>3
      <4>5. 1 \in 1..Len(toDevice)
        BY <4>2, <4>3
      <4>6. QED
        BY Zenon, <4>1, <4>2, <4>4, <4>5
    <3>2. Len(toDevice') <= 0 /\ Len(fromDevice') <= 1
      BY <2>1, <2>2, <3>1
    <3>3. \A i \in 1..Len(fromDevice') : fromDevice'[i] = current
      BY <2>1, <2>2, <3>1
    <3>4. toDevice' \in Seq(Request)
      BY <2>1
    <3>5. Len(toDevice') + Len(fromDevice') <= 1
      BY <2>1, <2>2, <3>2, <3>4
    <3>6. \A i \in 1..Len(toDevice') : toDevice'[i] = current'
      BY <3>2, <3>4
    <3>7. QED
      BY <2>1, <2>3, <3>1, <3>3, <3>5, <3>6
  <2>4. CASE worker \notin {"recv", "blocked"}
    BY <2>1, <2>4
  <2>5. QED
    BY Zenon, <2>3, <2>4
<1>11. CASE DeviceIsSilent
  <2>1. /\ toDevice # <<>> /\ toDevice' = Tail(toDevice)
        /\ UNCHANGED <<worker, current, answer, rest, fromDevice>>
    BY Zenon, <1>11 DEF DeviceIsSilent, workers
  <2>2. CASE worker \in {"recv", "blocked"}
    <3>1. Len(toDevice') <= 0 /\ toDevice' \in Seq(Request) /\ Len(toDevice) > 0
      BY <2>1, <2>2
    <3>2. QED
      BY <2>1, <2>2, <3>1
  <2>3. CASE worker \notin {"recv", "blocked"}
    BY <2>1, <2>3
  <2>4. QED
    BY Zenon, <2>2, <2>3
<1>12. CASE DeviceSpeaks
  BY <1>12 DEF DeviceSpeaks
<1>13. UpstreamEnds \/ UNCHANGED vars => UNCHANGED <<worker, current, answer, rest, device>>
  BY Zenon DEF UpstreamEnds, vars, workers
<1>14. \A c \in Clients : ClientSteps(c) \/ ReaderStep(c)
                            => UNCHANGED <<worker, current, answer, rest, device>>
  BY Zenon DEF ClientSteps, ReaderStep, ReadRequests, ReaderLeaves, workers
<1>15. MainStep \/ Signal => UNCHANGED <<worker, current, answer, rest, device>>
  BY Zenon DEF MainStep, Signal, Accept, Lock, Add, FinallyStops, FinallyClears,
               HandlerClears, workers
<1>16. QED
  BY Zenon, <1>1, <1>2, <1>3, <1>4, <1>5, <1>6, <1>7, <1>8, <1>9, <1>10, <1>11, <1>12,
     <1>13, <1>14, <1>15 DEF Next, WorkerStep

-----------------------------------------------------------------------------
(* Messages and their programs.                                             *)

\* The state of a program, and what its connection carries.
LEMMA Carried ==
  ASSUME ProgramsOK, NEW c \in Clients
  PROVE  /\ client[c] \in Program /\ client[c].n \in Nat /\ client[c].left \in Seq(Answer)
         /\ toServer[c] \in Seq(Request) /\ toClient[c] \in Seq(Answer)
         /\ Len(toServer[c]) \in Nat /\ Len(toClient[c]) \in Nat
  BY DEF ProgramsOK, Program

\* A step that leaves a program's connection alone.
LEMMA KeepsPrivate ==
  ASSUME NEW d \in Clients, Private(d), noise' = 0 => noise = 0,
         client'[d] = client[d], toServer'[d] = toServer[d], toClient'[d] = toClient[d]
  PROVE  Private(d)'
  BY Zenon DEF Private

\* A step that, besides, leaves what was queued, and the worker's request, or ends that.
LEMMA KeepsOrdered ==
  ASSUME NEW d \in Clients, Ordered(d),
         client'[d] = client[d], toServer'[d] = toServer[d], toClient'[d] = toClient[d],
         requests' = requests, Held(d)' => Held(d) /\ current' = current
  PROVE  Ordered(d)'
<1>1. /\ Orderly(d)' <=> Orderly(d)
      /\ Waits(d)' <=> Waits(d)
      /\ \A i : Sent(d, i)' <=> Sent(d, i)
      /\ \A i : Queued(d, i)' <=> Queued(d, i)
  BY Zenon DEF Orderly, Waits, Sent, Queued
<1>2. Current(d) => Current(d)'
  BY Zenon, <1>1 DEF Current
<1>3. Single(d) => Single(d)'
  BY Zenon, <1>1 DEF Single
<1>4. QED
  BY Zenon, <1>1, <1>2, <1>3 DEF Ordered

\* A request that is sent belongs to its program.
LEMMA SendIsPrivate ==
  ASSUME ProgramsOK, NEW c \in Clients, NEW cmd \in Commands \cup {"alive"},
         NEW next \in Program, MaySend(c, cmd, next), UNCHANGED noise, Private(c)
  PROVE  Private(c)'
<1>1. /\ client'[c].got = NoAnswer /\ client'[c].left = client[c].left
      /\ \/ toServer' = toServer
         \/ \E r \in Request : toServer'[c] = Append(toServer[c], r) /\ r.client = c
  <2>1. next.n = client[c].n /\ next.left = client[c].left /\ Send(c, cmd, next)
    BY Zenon DEF MaySend
  <2>2. /\ client'[c].got = NoAnswer /\ client'[c].left = next.left
        /\ \/ toServer' = toServer
           \/ \E r \in Request : /\ toServer'[c] = Append(toServer[c], r)
                                 /\ r.client = c /\ r.cmd = cmd /\ r.n = client[c].n + 1
    BY <2>1, Sends
  <2>3. QED
    BY Zenon, <2>1, <2>2
<1>2. \A i \in 1..Len(toServer'[c]) : toServer'[c][i].client = c
  <2>1. CASE toServer' = toServer
    BY Zenon, <2>1 DEF Private
  <2>2. ASSUME NEW r \in Request, toServer'[c] = Append(toServer[c], r), r.client = c
        PROVE  \A i \in 1..Len(toServer'[c]) : toServer'[c][i].client = c
    BY <2>2, Carried DEF Private
  <2>3. QED
    BY Zenon, <1>1, <2>1, <2>2
<1>3. QED
  BY Zenon, <1>1, <1>2 DEF Private, MaySend

\* A program that waited for every answer, and sends now, has nothing else on its way.
LEMMA SendIsOrdered ==
  ASSUME ProgramsOK, NEW c \in Clients, NEW cmd \in Commands \cup {"alive"},
         NEW next \in Program, MaySend(c, cmd, next),
         UNCHANGED <<requests, worker, current>>, Ordered(c)
  PROVE  Ordered(c)'
<1> SUFFICES ASSUME Orderly(c)' PROVE Current(c)' /\ Single(c)'
  BY Zenon DEF Ordered
<1>1. /\ client'[c].pc = next.pc /\ client'[c].n = client[c].n + 1
      /\ client'[c].got = NoAnswer /\ client'[c].left = client[c].left
      /\ client'[c].orderly = next.orderly
      /\ \/ toServer' = toServer
         \/ \E r \in Request : /\ toServer'[c] = Append(toServer[c], r)
                               /\ r.client = c /\ r.cmd = cmd /\ r.n = client[c].n + 1
  <2>1. next.n = client[c].n /\ next.left = client[c].left /\ Send(c, cmd, next)
    BY Zenon DEF MaySend
  <2>2. /\ client'[c].pc = next.pc /\ client'[c].n = client[c].n + 1
        /\ client'[c].got = NoAnswer /\ client'[c].left = next.left
        /\ client'[c].orderly = next.orderly
        /\ \/ toServer' = toServer
           \/ \E r \in Request : /\ toServer'[c] = Append(toServer[c], r)
                                 /\ r.client = c /\ r.cmd = cmd /\ r.n = client[c].n + 1
    BY <2>1, Sends
  <2>3. QED
    BY Zenon, <2>1, <2>2
<1>2. Current(c) /\ Single(c) /\ ~Waits(c)
  <2>1. client[c].orderly /\ client[c].pc \in {"off", "idle"}
    BY Zenon, <1>1 DEF Orderly, MaySend
  <2>2. client[c].pc # "over" /\ client[c].pc \notin {"greet", "wait"}
    BY <2>1
  <2>3. QED
    BY Zenon, <2>1, <2>2 DEF Orderly, Ordered, Waits
<1>3. /\ \A i : ~Sent(c, i)
      /\ \A i : ~Queued(c, i)
      /\ ~Held(c) /\ \A i : i \notin 1..Len(toClient[c])
  BY Zenon, <1>2 DEF Current, Sent, Queued
<1>4. /\ \A i : ~Queued(c, i)'
      /\ ~Held(c)' /\ \A i : i \notin 1..Len(toClient'[c])
  BY Zenon, <1>3 DEF Queued, Held, MaySend
<1>5. Len(toClient'[c]) = 0
  <2>1. 1 \notin 1..Len(toClient[c])
    BY Zenon, <1>3
  <2>2. Len(toClient[c]) \in Nat
    BY Zenon, Carried
  <2>3. Len(toClient[c]) = 0
    BY <2>1, <2>2
  <2>4. QED
    BY Zenon, <2>3 DEF MaySend
<1>6. client'[c].left = <<>>
  BY Zenon, <1>1, <1>2 DEF Current
<1>7. \A i \in 1..Len(toServer'[c]) : Sent(c, i)' =>
        /\ Waits(c)' /\ toServer'[c][i].n = client'[c].n
        /\ i = Len(toServer'[c])
  <2>1. CASE toServer' = toServer
    BY Zenon, <2>1, <1>3 DEF Sent
  <2>2. ASSUME NEW r \in Request, toServer'[c] = Append(toServer[c], r),
               r.cmd = cmd, r.n = client[c].n + 1, NEW i \in 1..Len(toServer'[c]), Sent(c, i)'
        PROVE  /\ Waits(c)' /\ toServer'[c][i].n = client'[c].n
               /\ i = Len(toServer'[c])
    <3>1. CASE i \in 1..Len(toServer[c])
      <4>1. toServer'[c][i] = toServer[c][i]
        BY <2>2, <3>1, Carried
      <4>2. QED
        BY Zenon, <3>1, <4>1, <1>3, <2>2 DEF Sent
    <3>2. CASE i \notin 1..Len(toServer[c])
      <4>1. i = Len(toServer'[c]) /\ toServer'[c][i] = r
        BY <2>2, <3>2, Carried
      <4>2. cmd # "alive"
        BY Zenon, <4>1, <2>2 DEF Sent, Live
      <4>3. QED
        BY Zenon, <4>1, <4>2, <2>2, <1>1 DEF Waits, Orderly, MaySend
    <3>3. QED
      BY Zenon, <3>1, <3>2
  <2>3. QED
    BY Zenon, <1>1, <2>1, <2>2
<1>8. Current(c)'
  BY Zenon, <1>1, <1>4, <1>6, <1>7 DEF Current
<1>9. Len(toClient'[c]) <= 1
  BY <1>5
<1>10. Single(c)'
  BY Zenon, <1>4, <1>5, <1>7, <1>9 DEF Single
<1>11. QED
  BY Zenon, <1>8, <1>10

\* Two runs of messages for one program are one run for it.
LEMMA Joined ==
  ASSUME NEW c, NEW s \in Seq(Answer), NEW t \in Seq(Answer),
         \A j \in 1..Len(s) : s[j].client = c, \A j \in 1..Len(t) : t[j].client = c
  PROVE  s \o t \in Seq(Answer) /\ \A j \in 1..Len(s \o t) : (s \o t)[j].client = c
  OBVIOUS

\* A chunk holds at most the one answer the program waits for.
LEMMA ReceiveKeeps ==
  ASSUME ProgramsOK, NEW c \in Clients, Receive(c), UNCHANGED <<toServer, noise>>, Private(c)
  PROVE  Private(c)'
<1>20. PICK k \in 1..Len(toClient[c]) : \E i \in 0..Len(Chunk(c, k)) : Chunked(c, k, i)
  BY Zenon, Receives
<1>21. PICK i \in 0..Len(Chunk(c, k)) : Chunked(c, k, i)
  BY Zenon, <1>20
<1>1. /\ toClient'[c] = SubSeq(toClient[c], k + 1, Len(toClient[c]))
      /\ client'[c] = IF i = 0 THEN [client[c] EXCEPT !.left = <<>>]
                      ELSE [client[c] EXCEPT
                              !.pc = "idle", !.got = Chunk(c, k)[i],
                              !.left = SubSeq(Chunk(c, k), i + 1, Len(Chunk(c, k)))]
  BY Zenon, <1>21 DEF Chunked
<1>2. /\ client[c] \in Program /\ client[c].left \in Seq(Answer)
      /\ toClient[c] \in Seq(Answer)
  BY Zenon, Carried
<1>3. CASE noise # 0
  BY Zenon, <1>3 DEF Private
<1>4. CASE noise = 0
  <2>1. /\ \A j \in 1..Len(toClient[c]) : toClient[c][j].client = c
        /\ \A j \in 1..Len(client[c].left) : client[c].left[j].client = c
        /\ client[c].got # NoAnswer => client[c].got.client = c
    BY Zenon, <1>4 DEF Private
  <2>2. /\ Chunk(c, k) \in Seq(Answer)
        /\ \A j \in 1..Len(Chunk(c, k)) : Chunk(c, k)[j].client = c
    <3>1. /\ SubSeq(toClient[c], 1, k) \in Seq(Answer)
          /\ \A j \in 1..Len(SubSeq(toClient[c], 1, k)) :
               SubSeq(toClient[c], 1, k)[j].client = c
      BY <1>2, <2>1
    <3>2. QED
      BY Zenon, <1>2, <2>1, <3>1, Joined DEF Chunk
  <2>3. \A j \in 1..Len(toClient'[c]) : toClient'[c][j].client = c
    <3>1. \A j \in 1..Len(SubSeq(toClient[c], k + 1, Len(toClient[c]))) :
            SubSeq(toClient[c], k + 1, Len(toClient[c]))[j].client = c
      BY <1>2, <2>1
    <3>2. QED
      BY Zenon, <1>1, <3>1
  <2>4. CASE i = 0
    <3>1. client'[c].left = <<>> /\ client'[c].got = client[c].got
      BY <1>1, <1>2, <2>4 DEF Program
    <3>2. \A j \in 1..Len(client'[c].left) : client'[c].left[j].client = c
      BY <3>1
    <3>3. QED
      BY Zenon, <2>1, <2>3, <3>1, <3>2 DEF Private
  <2>5. CASE i # 0
    <3>1. /\ client'[c].left = SubSeq(Chunk(c, k), i + 1, Len(Chunk(c, k)))
          /\ client'[c].got = Chunk(c, k)[i]
      BY <1>1, <1>2, <2>5 DEF Program
    <3>2. i \in 1..Len(Chunk(c, k))
      BY <2>2, <2>5
    <3>3. \A j \in 1..Len(client'[c].left) : client'[c].left[j].client = c
      BY <2>2, <3>1, <3>2
    <3>4. QED
      BY Zenon, <2>2, <2>3, <3>1, <3>2, <3>3 DEF Private
  <2>6. QED
    BY Zenon, <2>4, <2>5
<1>5. QED
  BY Zenon, <1>3, <1>4

\* Once it has that, nothing of the program's is left on its way.
LEMMA ReceiveKeepsOrdered ==
  ASSUME ProgramsOK, NEW c \in Clients, Receive(c),
         UNCHANGED <<toServer, requests, worker, current>>, Ordered(c)
  PROVE  Ordered(c)'
<1> SUFFICES ASSUME Orderly(c)' PROVE Current(c)' /\ Single(c)'
  BY Zenon DEF Ordered
<1>20. PICK k \in 1..Len(toClient[c]) : \E i \in 0..Len(Chunk(c, k)) : Chunked(c, k, i)
  BY Zenon, Receives
<1>21. PICK i \in 0..Len(Chunk(c, k)) : Chunked(c, k, i)
  BY Zenon, <1>20
<1>1. /\ toClient'[c] = SubSeq(toClient[c], k + 1, Len(toClient[c]))
      /\ client'[c] = IF i = 0 THEN [client[c] EXCEPT !.left = <<>>]
                      ELSE [client[c] EXCEPT
                              !.pc = "idle", !.got = Chunk(c, k)[i],
                              !.left = SubSeq(Chunk(c, k), i + 1, Len(Chunk(c, k)))]
  BY Zenon, <1>21 DEF Chunked
<1>2. /\ client[c] \in Program /\ client[c].left \in Seq(Answer)
      /\ toClient[c] \in Seq(Answer) /\ client[c].pc \in {"greet", "wait"}
  BY Zenon, Carried, Receives
<1>3. client'[c].orderly = client[c].orderly
  BY <1>1, <1>2 DEF Program
<1>4. Current(c) /\ Single(c)
  <2>1. client[c].pc # "over"
    BY <1>2
  <2>2. QED
    BY Zenon, <1>3, <2>1 DEF Orderly, Ordered
<1>5. k = 1 /\ Len(toClient[c]) <= 1
  BY <1>2, <1>4 DEF Single
<1>6. 1 \in 1..Len(toClient[c])
  BY <1>1, <1>2, <1>5
<1>7. toClient'[c] = <<>> /\ Len(toClient'[c]) = 0
  BY <1>1, <1>2, <1>5
<1>8. client[c].left = <<>> /\ toClient[c][1].n = client[c].n
  BY Zenon, <1>4, <1>6 DEF Current
<1>9. /\ Chunk(c, k) \in Seq(Answer) /\ Len(Chunk(c, k)) <= 1
      /\ Chunk(c, k)[1] = toClient[c][1]
  BY <1>2, <1>5, <1>6, <1>8 DEF Chunk
<1>10. /\ \A j : ~Sent(c, j)
       /\ \A j : ~Queued(c, j)
       /\ ~Held(c)
  <2>1. Len(toClient[c]) # 0
    BY <1>6, <1>2
  <2>2. QED
    BY Zenon, <1>4, <2>1 DEF Single, Sent, Queued
<1>11. /\ \A j : ~Sent(c, j)'
       /\ \A j : ~Queued(c, j)'
       /\ ~Held(c)'
  BY Zenon, <1>10 DEF Sent, Queued, Held
<1>12. client'[c].n = client[c].n
  BY Zenon, Receives
<1>13. /\ client'[c].left = <<>>
       /\ client'[c].got = client[c].got \/ client'[c].got = toClient[c][1]
  <2>1. CASE i = 0
    BY <1>1, <1>2, <2>1 DEF Program
  <2>2. CASE i # 0
    <3>1. i = 1
      BY <1>9, <2>2
    <3>2. /\ client'[c].left = SubSeq(Chunk(c, k), i + 1, Len(Chunk(c, k)))
          /\ client'[c].got = Chunk(c, k)[i]
      BY <1>1, <1>2, <2>2 DEF Program
    <3>3. SubSeq(Chunk(c, k), 2, Len(Chunk(c, k))) = <<>>
      BY <1>9
    <3>4. QED
      BY <1>9, <3>1, <3>2, <3>3
  <2>3. QED
    BY Zenon, <2>1, <2>2
<1>14. client'[c].got # NoAnswer => client'[c].got.n = client'[c].n
  BY Zenon, <1>4, <1>8, <1>12, <1>13 DEF Current
<1>15. \A j : j \notin 1..Len(toClient'[c])
  BY <1>7
<1>16. Current(c)'
  BY Zenon, <1>11, <1>13, <1>14, <1>15 DEF Current
<1>17. Len(toClient'[c]) <= 1
  BY <1>7
<1>18. Single(c)'
  BY Zenon, <1>7, <1>11, <1>17 DEF Single
<1>19. QED
  BY Zenon, <1>16, <1>18

\* A program that ends, or a time-out, leaves nothing to be confused with.
LEMMA OutKeeps ==
  ASSUME ProgramsOK, NEW c \in Clients, UNCHANGED <<toServer, noise>>, Private(c),
         \/ Ends(c)
         \/ TooLate(c) /\ UNCHANGED toClient
  PROVE  Private(c)' /\ Ordered(c)'
<1>1. CASE Ends(c)
  <2>1. /\ client'[c].pc = "over" /\ client'[c].got = NoAnswer /\ client'[c].left = <<>>
        /\ toClient'[c] = <<>>
    BY Zenon, <1>1, Leaves
  <2>2. /\ \A i : i \notin 1..Len(toClient'[c])
        /\ \A i : i \notin 1..Len(client'[c].left)
    BY <2>1
  <2>3. QED
    BY Zenon, <2>1, <2>2 DEF Private, Ordered, Orderly
<1>2. CASE TooLate(c) /\ UNCHANGED toClient
  <2>1. /\ client'[c].left = client[c].left /\ client'[c].got = client[c].got
        /\ ~client'[c].orderly
    BY Zenon, <1>2, GivesUp
  <2>2. QED
    BY Zenon, <1>2, <2>1 DEF Private, Ordered, Orderly
<1>3. QED
  BY Zenon, <1>1, <1>2

\* Whatever a program does, every connection keeps its order.
LEMMA ProgramKeeps ==
  ASSUME ProgramsOK, NEW c \in Clients, ClientSteps(c), NEW d \in Clients, Private(d)
  PROVE  Private(d)' /\ (Ordered(d) => Ordered(d)')
<1>1. UNCHANGED <<requests, worker, current, noise>>
  BY Zenon DEF ClientSteps, workers, device
<1>2. Held(d)' => Held(d)
  BY Zenon, <1>1 DEF Held
<1>3. CASE d # c
  <2>1. client'[d] = client[d] /\ toServer'[d] = toServer[d] /\ toClient'[d] = toClient[d]
    <3>1. ASSUME NEW cmd \in Commands \cup {"alive"}, NEW next \in Program,
                 MaySend(c, cmd, next)
          PROVE  client'[d] = client[d] /\ toServer'[d] = toServer[d] /\ toClient'[d] = toClient[d]
      <4>1. next.n = client[c].n /\ Send(c, cmd, next) /\ UNCHANGED toClient
        BY Zenon, <3>1 DEF MaySend
      <4>2. \A e \in Clients \ {c} : client'[e] = client[e] /\ toServer'[e] = toServer[e]
        BY Zenon, <4>1, Sends
      <4>3. QED
        BY Zenon, <1>3, <4>1, <4>2
    <3>2. d \in Clients \ {c}
      BY <1>3
    <3>3. CASE Ends(c) /\ UNCHANGED toServer
      BY Zenon, <3>2, <3>3, Leaves
    <3>4. CASE Receive(c) /\ UNCHANGED toServer
      BY Zenon, <3>2, <3>4, Receives
    <3>5. CASE TooLate(c) /\ UNCHANGED <<toServer, toClient>>
      BY Zenon, <3>2, <3>5, GivesUp
    <3>6. QED
      BY Zenon, <3>1, <3>3, <3>4, <3>5, ProgramActs
  <2>2. QED
    BY Zenon, <1>1, <1>2, <2>1, KeepsPrivate, KeepsOrdered
<1>4. CASE d = c
  <2>1. ASSUME NEW cmd \in Commands \cup {"alive"}, NEW next \in Program,
               MaySend(c, cmd, next)
        PROVE  Private(c)' /\ (Ordered(c) => Ordered(c)')
    BY Zenon, <1>1, <1>4, <2>1, SendIsPrivate, SendIsOrdered
  <2>2. QED
    BY Zenon, <1>1, <1>4, <2>1, ProgramActs, OutKeeps, ReceiveKeeps, ReceiveKeepsOrdered
<1>5. QED
  BY Zenon, <1>3, <1>4

\* A program that has ended has forgotten what it was given.
LEMMA GoneStep ==
  ASSUME ProgramsOK, [Next]_vars, NEW d \in Clients, Gone(d)
  PROVE  Gone(d)'
<1>1. ASSUME client'[d] = client[d] PROVE Gone(d)'
  BY Zenon, <1>1 DEF Gone
<1>2. ASSUME NEW c \in Clients, ClientSteps(c) PROVE Gone(d)'
  <2>1. ASSUME NEW cmd \in Commands \cup {"alive"}, NEW next \in Program,
               MaySend(c, cmd, next)
        PROVE  Gone(d)'
    <3>1. next.n = client[c].n /\ Send(c, cmd, next)
      BY Zenon, <2>1 DEF MaySend
    <3>2. client'[c].got = NoAnswer /\ \A e \in Clients \ {c} : client'[e] = client[e]
      BY Zenon, <3>1, Sends
    <3>3. QED
      BY Zenon, <1>1, <3>2 DEF Gone
  <2>2. CASE Ends(c)
    <3>1. client'[c].got = NoAnswer /\ \A e \in Clients \ {c} : client'[e] = client[e]
      BY Zenon, <2>2, Leaves
    <3>2. QED
      BY Zenon, <1>1, <3>1 DEF Gone
  <2>3. CASE Receive(c)
    <3>1. \A e \in Clients \ {c} : client'[e] = client[e]
      BY Zenon, <2>3, Receives
    <3>2. client'[c].pc # "over"
      <4>1. PICK k \in 1..Len(toClient[c]) : \E i \in 0..Len(Chunk(c, k)) : Chunked(c, k, i)
        BY Zenon, <2>3, Receives
      <4>2. PICK i \in 0..Len(Chunk(c, k)) : Chunked(c, k, i)
        BY Zenon, <4>1
      <4>3. client[c] \in Program /\ client[c].pc \in {"greet", "wait"}
        BY Zenon, <2>3, Carried, Receives
      <4>4. client'[c] = IF i = 0 THEN [client[c] EXCEPT !.left = <<>>]
                         ELSE [client[c] EXCEPT
                                 !.pc = "idle", !.got = Chunk(c, k)[i],
                                 !.left = SubSeq(Chunk(c, k), i + 1, Len(Chunk(c, k)))]
        BY Zenon, <4>2 DEF Chunked
      <4>5. client'[c].pc = client[c].pc \/ client'[c].pc = "idle"
        BY <4>3, <4>4 DEF Program
      <4>6. QED
        BY <4>3, <4>5
    <3>3. QED
      BY Zenon, <1>1, <3>1, <3>2 DEF Gone
  <2>4. CASE TooLate(c)
    <3>1. client'[c].pc = "idle" /\ \A e \in Clients \ {c} : client'[e] = client[e]
      BY Zenon, <2>4, GivesUp
    <3>2. QED
      BY <1>1, <3>1 DEF Gone
  <2>5. QED
    BY Zenon, <1>2, <2>1, <2>2, <2>3, <2>4, ProgramActs
<1>3. (\E c \in Clients : ClientSteps(c)) \/ UNCHANGED client
  BY Zenon DEF Next, vars, ReaderStep, ReadRequests, ReaderLeaves, MainStep,
       Signal, Accept, Lock, Add, FinallyStops, FinallyClears, HandlerClears, WorkerStep,
       NextRequest, TakeLeft, BeginRecv, RecvUp, RecvFails, CheckClient, Deliver,
       WorkerClears, DeviceAnswers, DeviceIsSilent, DeviceSpeaks, UpstreamEnds, clients
<1>4. QED
  BY Zenon, <1>1, <1>2, <1>3

\* Reading a program's requests puts them in the queue, in their order.
LEMMA ReadKeepsOrdered ==
  ASSUME ProgramsOK, WorkerOK, NEW c \in Clients, ReadRequests(c), Private(c), NEW d \in Clients,
         Ordered(d)
  PROVE  Ordered(d)'
<1>1. /\ requests' = requests \o toServer[c]
      /\ toServer' = [toServer EXCEPT ![c] = <<>>]
      /\ UNCHANGED <<client, toClient, worker, current>>
  BY Zenon DEF ReadRequests
<1>2. /\ requests \in Seq(Request) /\ toServer[c] \in Seq(Request)
      /\ \A i \in 1..Len(toServer[c]) : toServer[c][i].client = c
      /\ Len(requests) \in Nat /\ Len(toServer[c]) \in Nat
  BY Carried DEF WorkerOK, Private
<1>3. /\ Len(requests') = Len(requests) + Len(toServer[c])
      /\ \A i \in 1..Len(requests) : requests'[i] = requests[i]
      /\ \A i \in 1..Len(requests') : i \notin 1..Len(requests) =>
           /\ i - Len(requests) \in 1..Len(toServer[c])
           /\ requests'[i] = toServer[c][i - Len(requests)]
  BY <1>1, <1>2
<1>4. /\ Held(d)' <=> Held(d)
      /\ Orderly(d)' <=> Orderly(d)
      /\ Waits(d)' <=> Waits(d)
  BY Zenon, <1>1 DEF Held, Orderly, Waits
<1> SUFFICES ASSUME Orderly(d) PROVE Current(d)' /\ Single(d)'
  BY Zenon, <1>4 DEF Ordered
<1>5. Current(d) /\ Single(d)
  BY Zenon DEF Ordered
<1>6. \A i \in 1..Len(requests') : Queued(d, i)' =>
        \/ Queued(d, i) /\ requests'[i] = requests[i] /\ i \in 1..Len(requests)
        \/ /\ d = c /\ Sent(c, i - Len(requests))
           /\ i - Len(requests) \in 1..Len(toServer[c])
           /\ requests'[i] = toServer[c][i - Len(requests)]
  BY Zenon, <1>2, <1>3 DEF Queued, Sent
<1>7. CASE d # c
  <2>1. toServer'[d] = toServer[d]
    BY Zenon, <1>1, <1>7 DEF ProgramsOK
  <2>2. \A i : Sent(d, i)' <=> Sent(d, i)
    BY Zenon, <2>1 DEF Sent
  <2>3. \A i \in 1..Len(requests') : Queued(d, i)' =>
          Queued(d, i) /\ requests'[i] = requests[i] /\ i \in 1..Len(requests)
    BY Zenon, <1>6, <1>7
  <2>4. Current(d)'
    BY Zenon, <1>1, <1>4, <1>5, <2>1, <2>2, <2>3 DEF Current
  <2>5. Single(d)'
    BY Zenon, <1>1, <1>4, <1>5, <2>1, <2>2, <2>3 DEF Single
  <2>6. QED
    BY Zenon, <2>4, <2>5
<1>8. CASE d = c
  <2>1. toServer'[c] = <<>>
    BY Zenon, <1>1 DEF ProgramsOK
  <2>2. \A i : i \notin 1..Len(toServer'[c])
    BY <2>1
  <2>3. \A i \in 1..Len(requests') : Queued(c, i)' =>
          Waits(c) /\ requests'[i].n = client[c].n /\ ~Held(c) /\ Len(toClient[c]) = 0
    <3>1. /\ \A i \in 1..Len(requests) : Queued(c, i) =>
               Waits(c) /\ requests[i].n = client[c].n /\ ~Held(c) /\ Len(toClient[c]) = 0
          /\ \A i \in 1..Len(toServer[c]) : Sent(c, i) =>
               Waits(c) /\ toServer[c][i].n = client[c].n /\ ~Held(c) /\ Len(toClient[c]) = 0
      BY Zenon, <1>5, <1>8 DEF Current, Single
    <3>2. QED
      BY Zenon, <1>6, <1>8, <3>1
  <2>4. \A i, j \in 1..Len(requests') : Queued(c, i)' /\ Queued(c, j)' => i = j
    <3>1. ASSUME NEW i \in 1..Len(requests'), NEW j \in 1..Len(requests'),
                 Queued(c, i)', Queued(c, j)'
          PROVE  i = j
      <4>1. CASE Queued(c, i) /\ i \in 1..Len(requests) /\ Queued(c, j) /\ j \in 1..Len(requests)
        BY Zenon, <1>5, <1>8, <4>1 DEF Single
      <4>2. CASE /\ Sent(c, i - Len(requests)) /\ i - Len(requests) \in 1..Len(toServer[c])
                 /\ Sent(c, j - Len(requests)) /\ j - Len(requests) \in 1..Len(toServer[c])
        <5>1. i - Len(requests) = j - Len(requests)
          BY Zenon, <1>5, <1>8, <4>2 DEF Single
        <5>2. i \in Int /\ j \in Int
          BY <1>2, <1>3
        <5>3. QED
          BY <5>1, <5>2, <1>2
      <4>3. QED
        BY Zenon, <1>5, <1>6, <1>8, <3>1, <4>1, <4>2 DEF Single
    <3>2. QED
      BY Zenon, <3>1
  <2>5. Current(c)'
    BY Zenon, <1>1, <1>4, <1>5, <1>8, <2>2, <2>3 DEF Current
  <2>6. Single(c)'
    BY Zenon, <1>1, <1>4, <1>5, <1>8, <2>2, <2>3, <2>4 DEF Single
  <2>7. QED
    BY Zenon, <1>8, <2>5, <2>6
<1>9. QED
  BY Zenon, <1>7, <1>8

\* The worker's request is the one at the head of the queue.
LEMMA TakeKeepsOrdered ==
  ASSUME WorkerOK, NextRequest, NEW d \in Clients, Ordered(d)
  PROVE  Ordered(d)'
<1>1. worker = "get" /\ UNCHANGED clients
  BY Zenon, Takes
<1>2. ~Held(d)
  BY <1>1 DEF Held
<1>3. UNCHANGED <<client, toServer, toClient>>
  BY Zenon, <1>1 DEF clients
<1>4. CASE worker' = "over" /\ UNCHANGED requests
  <2>1. ~Held(d)'
    BY <1>4 DEF Held
  <2>2. QED
    BY Zenon, <1>3, <1>4, <2>1, KeepsOrdered
<1>5. CASE requests # <<>> /\ requests' = Tail(requests) /\ current' = Head(requests)
  <2>1. /\ requests \in Seq(Request) /\ Len(requests) \in Nat
        /\ 1 \in 1..Len(requests) /\ current' = requests[1]
        /\ \A i \in 1..Len(requests') :
             i + 1 \in 1..Len(requests) /\ requests'[i] = requests[i + 1] /\ i \in Nat
    BY <1>5 DEF WorkerOK
  <2>2. \A i \in 1..Len(requests') : Queued(d, i)' => Queued(d, i + 1)
    BY Zenon, <2>1 DEF Queued
  <2>3. Held(d)' => Queued(d, 1)
    BY Zenon, <2>1 DEF Queued, Held
  <2>4. /\ Orderly(d)' <=> Orderly(d)
        /\ Waits(d)' <=> Waits(d)
        /\ \A i : Sent(d, i)' <=> Sent(d, i)
    BY Zenon, <1>3 DEF Orderly, Waits, Sent
  <2> SUFFICES ASSUME Orderly(d) PROVE Current(d)' /\ Single(d)'
    BY Zenon, <2>4 DEF Ordered
  <2>5. Current(d) /\ Single(d)
    BY Zenon DEF Ordered
  <2>6. Current(d)'
    BY Zenon, <1>3, <2>1, <2>2, <2>3, <2>4, <2>5 DEF Current
  <2>7. \A i, j \in 1..Len(requests') : Queued(d, i)' /\ Queued(d, j)' => i = j
    <3>1. ASSUME NEW i \in 1..Len(requests'), NEW j \in 1..Len(requests'),
                 Queued(d, i)', Queued(d, j)'
          PROVE  i = j
      <4>1. i + 1 = j + 1
        BY Zenon, <2>1, <2>2, <2>5, <3>1 DEF Single
      <4>2. QED
        BY <2>1, <4>1
    <3>2. QED
      BY Zenon, <3>1
  <2>8. \A i \in 1..Len(requests') : Queued(d, i)' => ~Held(d)'
    <3>1. ASSUME NEW i \in 1..Len(requests'), Queued(d, i)', Held(d)' PROVE FALSE
      <4>1. i + 1 = 1
        BY Zenon, <2>1, <2>2, <2>3, <2>5, <3>1 DEF Single
      <4>2. i \in 1..Len(requests')
        BY <3>1
      <4>3. QED
        BY <2>1, <4>1, <4>2
    <3>2. QED
      BY Zenon, <3>1
  <2>9. Single(d)'
    BY Zenon, <1>3, <2>1, <2>2, <2>3, <2>4, <2>5, <2>7, <2>8 DEF Single
  <2>10. QED
    BY Zenon, <2>6, <2>9
<1>6. QED
  BY Zenon, <1>4, <1>5, Takes

\* The answer that is delivered is that of the program it is delivered to.
LEMMA DeliverKeeps ==
  ASSUME ProgramsOK, WorkerOK, Deliver, noise = 0, UNCHANGED noise, RoundTrip,
         NEW d \in Clients, Private(d), Ordered(d)
  PROVE  Private(d)' /\ Ordered(d)'
<1>1. /\ worker = "deliver" /\ worker' = "get"
      /\ UNCHANGED <<client, toServer, requests>>
      /\ \/ toClient' = [toClient EXCEPT ![current.client] = Append(@, answer)]
         \/ UNCHANGED toClient
  BY Zenon DEF Deliver, Done
<1>2. ~Held(d)'
  BY <1>1 DEF Held
<1>3. CASE toClient'[d] = toClient[d]
  BY Zenon, <1>1, <1>2, <1>3, KeepsPrivate, KeepsOrdered
<1>4. CASE /\ d = current.client
           /\ toClient' = [toClient EXCEPT ![current.client] = Append(@, answer)]
  <2>1. answer = current /\ Live(current)
    BY <1>1 DEF RoundTrip
  <2>2. Held(d)
    BY <1>1, <1>4, <2>1 DEF Held
  <2>3. /\ toClient'[d] = Append(toClient[d], current)
        /\ toClient[d] \in Seq(Answer) /\ current \in Answer
    <3>1. toClient'[d] = Append(toClient[d], current)
      BY Zenon, <1>4, <2>1 DEF ProgramsOK
    <3>2. toClient[d] \in Seq(Answer) /\ answer \in Answer
      BY Carried DEF WorkerOK
    <3>3. QED
      BY Zenon, <2>1, <3>1, <3>2
  <2>4. /\ \A i \in 1..Len(toClient'[d]) :
             toClient'[d][i] = current
             \/ (i \in 1..Len(toClient[d]) /\ toClient'[d][i] = toClient[d][i])
        /\ Len(toClient'[d]) = Len(toClient[d]) + 1
    BY <2>3
  <2>5. Private(d)'
    BY Zenon, <1>1, <1>4, <2>4 DEF Private
  <2>6. /\ Orderly(d)' <=> Orderly(d)
        /\ Waits(d)' <=> Waits(d)
        /\ \A i : Sent(d, i)' <=> Sent(d, i)
        /\ \A i : Queued(d, i)' <=> Queued(d, i)
    BY Zenon, <1>1 DEF Orderly, Waits, Sent, Queued
  <2>7. ASSUME Orderly(d) PROVE Current(d)' /\ Single(d)'
    <3>1. Current(d) /\ Single(d)
      BY Zenon, <2>7 DEF Ordered
    <3>2. Current(d)'
      BY Zenon, <1>1, <1>2, <2>2, <2>4, <2>6, <3>1 DEF Current
    <3>3. /\ \A i : ~Sent(d, i)
          /\ \A i : ~Queued(d, i)
          /\ Len(toClient[d]) = 0
      BY Zenon, <2>2, <3>1 DEF Single, Sent, Queued
    <3>4. Len(toClient'[d]) <= 1
      BY <2>4, <3>3
    <3>5. Single(d)'
      BY Zenon, <1>2, <2>6, <3>3, <3>4 DEF Single
    <3>6. QED
      BY Zenon, <3>2, <3>5
  <2>8. QED
    BY Zenon, <2>5, <2>6, <2>7 DEF Ordered
<1>5. QED
  BY Zenon, <1>1, <1>3, <1>4 DEF ProgramsOK

\* What the worker does besides: it keeps its request, or is done with it.
LEMMA WorkerHolds ==
  ASSUME WorkerStep, NEW d \in Clients
  PROVE  \/ NextRequest
         \/ Deliver
         \/ UNCHANGED <<clients, requests>> /\ (Held(d)' => Held(d) /\ current' = current)
<1>1. CASE TakeLeft
  <2>1. UNCHANGED <<clients, requests, current>> /\ worker = "recv"
    BY Zenon, <1>1 DEF TakeLeft
  <2>2. QED
    BY <2>1 DEF Held
<1>2. CASE BeginRecv
  <2>1. UNCHANGED <<clients, requests, current>> /\ worker = "recv"
    BY Zenon, <1>2 DEF BeginRecv
  <2>2. QED
    BY <2>1 DEF Held
<1>3. CASE RecvUp
  <2>1. UNCHANGED <<clients, requests, current>> /\ worker = "blocked"
    BY Zenon, <1>3 DEF RecvUp
  <2>2. QED
    BY <2>1 DEF Held
<1>4. CASE RecvFails
  <2>1. UNCHANGED <<clients, requests, current>> /\ worker = "blocked"
    BY Zenon, <1>4 DEF RecvFails
  <2>2. QED
    BY <2>1 DEF Held
<1>5. CASE CheckClient
  <2>1. UNCHANGED <<clients, requests>> /\ worker = "check"
        /\ (worker' = "get" \/ UNCHANGED current)
    BY Zenon, <1>5 DEF CheckClient, Done
  <2>2. QED
    BY <2>1 DEF Held
<1>6. CASE WorkerClears
  <2>1. UNCHANGED <<clients, requests>> /\ worker' = "over"
    BY Zenon, <1>6 DEF WorkerClears
  <2>2. QED
    BY <2>1 DEF Held
<1>7. QED
  BY Zenon, <1>1, <1>2, <1>3, <1>4, <1>5, <1>6 DEF WorkerStep

\* Every step keeps each program's messages its own, and in order.
LEMMA MuxStep ==
  ASSUME MessagesOK, MuxInv, [Next]_vars
  PROVE  MuxInv'
<1>1. ProgramsOK /\ WorkerOK /\ (noise' = 0 => noise = 0)
  BY Zenon, NoiseStays DEF MessagesOK
<1>2. noise' = 0 => RoundTrip'
  BY Zenon, <1>1, RoundTripStep DEF MuxInv
<1>3. ASSUME NEW d \in Clients PROVE Gone(d)'
  BY Zenon, <1>1, GoneStep DEF MuxInv
<1>4. ASSUME NEW d \in Clients
      PROVE  Private(d)' /\ (noise' = 0 => Ordered(d)')
  <2>1. Private(d) /\ (noise = 0 => RoundTrip /\ Ordered(d))
    BY Zenon DEF MuxInv
  <2>2. ASSUME UNCHANGED <<client, toServer, toClient, requests>>,
               Held(d)' => Held(d) /\ current' = current
        PROVE  Private(d)' /\ (noise' = 0 => Ordered(d)')
    BY Zenon, <1>1, <2>1, <2>2, KeepsPrivate, KeepsOrdered
  <2>3. ASSUME UNCHANGED <<clients, requests, worker, current>>
        PROVE  Private(d)' /\ (noise' = 0 => Ordered(d)')
    BY Zenon, <2>2, <2>3 DEF Held, clients
  <2>4. ASSUME NEW c \in Clients, ClientSteps(c)
        PROVE  Private(d)' /\ (noise' = 0 => Ordered(d)')
    BY Zenon, <1>1, <2>1, <2>4, ProgramKeeps
  <2>5. ASSUME NEW c \in Clients, ReadRequests(c)
        PROVE  Private(d)' /\ (noise' = 0 => Ordered(d)')
    <3>1. Private(d)'
      <4>1. toServer'[d] = toServer[d] \/ toServer'[d] = <<>>
        BY Zenon, <1>1, <2>5 DEF ReadRequests, ProgramsOK
      <4>2. \A i : i \notin 1..Len(<<>>)
        OBVIOUS
      <4>3. UNCHANGED <<client, toClient, noise>>
        BY Zenon, <2>5 DEF ReadRequests, device
      <4>4. QED
        BY Zenon, <2>1, <4>1, <4>2, <4>3 DEF Private
    <3>2. Private(c)
      BY Zenon DEF MuxInv
    <3>3. QED
      BY Zenon, <1>1, <2>1, <2>5, <3>1, <3>2, ReadKeepsOrdered
  <2>6. ASSUME NEW c \in Clients, ReaderLeaves(c)
        PROVE  UNCHANGED <<clients, requests, worker, current>>
    BY Zenon, <2>6 DEF ReaderLeaves, workers
  <2>7. CASE NextRequest
    <3>1. UNCHANGED <<client, toServer, toClient>>
      BY Zenon, <2>7, Takes DEF clients
    <3>2. QED
      BY Zenon, <1>1, <2>1, <2>7, <3>1, KeepsPrivate, TakeKeepsOrdered
  <2>8. CASE Deliver
    <3>1. UNCHANGED noise
      BY Zenon, <2>8 DEF Deliver, device
    <3>2. CASE noise = 0
      BY Zenon, <1>1, <2>1, <2>8, <3>1, <3>2, DeliverKeeps
    <3>3. CASE noise # 0
      <4>1. UNCHANGED toServer
        BY Zenon, <2>8 DEF Deliver
      <4>2. QED
        BY Zenon, <2>1, <3>1, <3>3, <4>1 DEF Private
    <3>4. QED
      BY Zenon, <3>2, <3>3
  <2>9. WorkerStep => Private(d)' /\ (noise' = 0 => Ordered(d)')
    BY Zenon, <2>2, <2>7, <2>8, WorkerHolds DEF clients
  <2>10. MainStep \/ Signal => UNCHANGED <<clients, requests, worker, current>>
    BY Zenon DEF MainStep, Signal, Accept, Lock, Add, FinallyStops, FinallyClears,
                 HandlerClears, workers
  <2>11. DeviceAnswers \/ DeviceIsSilent \/ DeviceSpeaks \/ UpstreamEnds \/ UNCHANGED vars
           => UNCHANGED <<clients, requests, worker, current>>
    BY Zenon DEF DeviceAnswers, DeviceIsSilent, DeviceSpeaks, UpstreamEnds, vars, workers
  <2>12. QED
    BY Zenon, <2>3, <2>4, <2>5, <2>6, <2>9, <2>10, <2>11 DEF Next, ReaderStep
<1>5. QED
  BY Zenon, <1>2, <1>3, <1>4 DEF MuxInv

\* What the multiplexer has on its way is its programs', in order.
LEMMA MuxHolds == Spec => []MuxInv
<1>1. Init => MuxInv
  <2> SUFFICES ASSUME Init PROVE MuxInv
    OBVIOUS
  <2>1. /\ requests = <<>> /\ rest = <<>> /\ worker = "get"
        /\ toDevice = <<>> /\ fromDevice = <<>>
        /\ client = [c \in Clients |-> NewClient]
        /\ toServer = [c \in Clients |-> <<>>]
        /\ toClient = [c \in Clients |-> <<>>]
    BY Zenon DEF Init, InitMux, InitClients
  <2>2. RoundTrip
    BY <2>1 DEF RoundTrip
  <2>3. NewClient.left = <<>> /\ NewClient.got = NoAnswer
    BY DEF NewClient
  <2>4. Len(<<>>) <= 1 /\ \A i : i \notin 1..Len(<<>>)
    OBVIOUS
  <2>5. ASSUME NEW c \in Clients PROVE Private(c) /\ Gone(c) /\ Ordered(c)
    <3>1. /\ client[c].left = <<>> /\ client[c].got = NoAnswer
          /\ toServer[c] = <<>> /\ toClient[c] = <<>> /\ ~Held(c)
      BY <2>1, <2>3 DEF Held
    <3>2. QED
      BY Zenon, <2>1, <2>4, <3>1 DEF Private, Gone, Ordered, Current, Single
  <2>6. QED
    BY Zenon, <2>2, <2>5 DEF MuxInv
<1>2. MessagesOK /\ MuxInv /\ [Next]_vars => MuxInv'
  BY Zenon, MuxStep
<1>3. QED
  BY <1>1, <1>2, MessagesHold, PTL DEF Spec

(* However many programs share the multiplexer, whoever leaves, times out  *)
(* or is signalled to stop, and whatever the device leaves unanswered: as  *)
(* long as it says only what it is asked, no program takes an answer to    *)
(* another's request, and one that has waited for every answer takes the   *)
(* answer to its latest request (_process_requests, _round_trip).          *)
THEOREM ClientsGetTheirOwn == Spec => []AnswersAreOwn
<1>1. MuxInv => AnswersAreOwn
  BY Zenon DEF MuxInv, AnswersAreOwn, Private, Gone, Ordered, Orderly, Current
<1>2. QED
  BY <1>1, MuxHolds, PTL
=============================================================================
