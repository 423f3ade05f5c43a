---------------------------- MODULE DirectPrograms -----------------------------
(***************************************************************************)
(* The programs that read a controller over a connection of their own, run *)
(* one after the other with the file that remembers the connection.        *)
(***************************************************************************)
EXTENDS LivePlot, ImuPolling

vars == <<cli, readers, live, polling>>

Init == InitCli /\ InitReaders /\ InitLive /\ InitPolling

Next ==
  \/ NextCli /\ UNCHANGED <<readers, live, polling>>
  \/ NextReaders /\ UNCHANGED <<live, polling>>
  \/ NextLive /\ UNCHANGED polling
  \/ NextPolling /\ UNCHANGED live
  \/ /\ End
     /\ reader' = "none" /\ port' = FALSE /\ done' = FALSE /\ next' = "end" /\ tries' = Attempts
     /\ poller' = "none" /\ samples' = 0 /\ pending' = FALSE
     /\ callback' = FALSE /\ signals' = 0 /\ plot' = "none"
     /\ asked' = 0 /\ waiting' = FALSE /\ line' = <<>> /\ input' = <<>>
     /\ failed' = 0 /\ taken' = 0 /\ batch' = <<>> /\ buffer' = <<>>

(* The thread runs, and so does the event loop of the window; a controller *)
(* need not answer, and nobody need close the window.                      *)
Fairness ==
  /\ WF_vars(NextPlot /\ UNCHANGED polling)
  /\ WF_vars((Put \/ Mark \/ Notify) /\ UNCHANGED polling)

Spec == Init /\ [][Next]_vars /\ Fairness

--------------------------------------------------------------------------------
(* Every variable has a value of its type.                                 *)
TypeOK ==
  /\ program \in Programs \union {"none"}
  /\ conn \in Kinds \union {"none", "tcp"}
  /\ cache \in Kinds \union {"none"}
  /\ left \in Selected \union {<<>>}
  /\ held \subseteq ((Kinds \union {"tcp"}) \X {"client", "io", "lost"})
  /\ reader \in {"none", "opening", "reading", "looks", "closing", "over"}
  /\ {port, done, pending, callback} \subseteq BOOLEAN
  /\ tries \in 0..(2 * Attempts)
  /\ poller \in {"none", "poll", "put", "mark", "notify", "wait", "over"}
  /\ samples \in 0..MaxQueue
  /\ signals \in 0..2
  /\ waiting \in BOOLEAN
  /\ {asked, failed, taken} \subseteq 0..MaxAsked
  /\ \A s \in {line, input} : \A i \in DOMAIN s : s[i] \in {Other, Bad} \union {Answer(n) : n \in 1..MaxAsked}
  /\ Len(buffer) <= Capacity

(* Whenever a program is about to open its connection, it has nothing open *)
(* from before: _can_connect, _resolve_can_target, the probes of           *)
(* discover_vescs.py, the reading and writing of the rate and every reader *)
(* close what they opened on all their paths, exceptions included.  Two    *)
(* cases are left out.  A BLE link that failed while it was being opened   *)
(* is lost to the program (ble.py, VescClient._handshake); and a join of   *)
(* stop() that runs out leaves a thread which still opens, or has open,    *)
(* what the window then wants.                                             *)
AboutToOpen ==
  \/ step \in {"check", "can", "open", "write", "connect"} /\ ~Alive
  \/ step = "run" /\ program \in {"fast", "debug", "package"}
  \/ reader = "opening" /\ step \in {"view", "startup"}

LinkIsFree == AboutToOpen => \A h \in held : h[2] = "lost"

(* A sample the thread has queued is taken by the window, however its      *)
(* drain falls between the thread's queueing, marking and notifying, and   *)
(* even when no other sample follows, unless the window is closed.         *)
SamplesAreShown ==
  samples > 0 ~> (plot = "take" \/ plot \in {"none", "joined"})

(* A sample is shown, and queued, as the answer to the latest request, and *)
(* after a read that gave up it need not be: an answer that comes too late *)
(* is taken for the next one's, and from then on each sample is a request  *)
(* old, for as long as no other read gives up.  But it is never older than *)
(* the requests counted as failed, the samples on their way to the window  *)
(* are in order and none is there twice, and the thread ends with none.    *)
SamplesAreCurrent ==
  LET queued == buffer \o batch IN
  /\ taken > 0 /\ ~waiting => asked - taken <= failed
  /\ \A i \in 2..Len(queued) : queued[i - 1] < queued[i]
  /\ ~Alive => batch = <<>>
=============================================================================
