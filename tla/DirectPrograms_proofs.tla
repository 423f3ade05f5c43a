-------------------------- MODULE DirectPrograms_proofs --------------------------
(***************************************************************************)
(* What a program holds open, what the window is told of its samples, and  *)
(* whose answers the samples are, for any number of attempts to restart a  *)
(* reader, of requests, and any capacity of the queue and of the buffer.   *)
(***************************************************************************)
EXTENDS DirectPrograms, SequenceTheorems, TLAPS

-----------------------------------------------------------------------------
(* What a program holds open.                                              *)

HeldTypes == held \subseteq ((Kinds \union {"tcp"}) \X {"client", "io", "lost"})

Holds(who) == <<conn, who>> \in held

\* Besides links that were lost, what is open is the connection a program is at.
OwnOrLost == \A h \in held : h[2] = "lost" \/ h = <<conn, "client">> \/ h = <<conn, "io">>

\* A client is open while it is used, and at the end of a plot that never began.  A loop
\* has its port open until it ends, a reader as long as _serial_port is set.
HeldInv ==
  /\ OwnOrLost
  /\ Holds("client") => step \in {"checked", "scan", "probed", "rate", "written",
                                  "firmware", "plot", "end"}
  /\ Holds("io") => \/ step \in {"loop", "capture", "stop"}
                    \/ port /\ reader \in {"reading", "looks", "closing"}

\* Where a window and its reader are under way.
InWindow == {"view", "join", "look", "close", "write", "written", "restart", "startup"}

\* Each program has its own steps, and only a window has a reader.
StepInv ==
  /\ program = "none" => step = "none"
  /\ step = "none" => held = {}
  /\ step \in InWindow => Window
  /\ reader # "none" \/ port => Window /\ step \in InWindow \union {"end"}
  /\ step = "loop" => program = "fast"
  /\ step \in {"capture", "stop"} => program = "debug"
  /\ program = "plot" => step \in {"connect", "firmware", "plot", "end"}
  /\ step \in {"connect", "firmware", "plot"} => program = "plot"

\* A program has a connection where it uses one.
ConnInv ==
  /\ step \notin {"none", "resolve", "discover", "probe", "end"} => conn # "none"
  /\ reader # "none" => conn # "none"
  /\ conn = "tcp" => program = "plot"

\* Attempts are left when the reader is restarted.
TriesInv ==
  /\ tries \in 0..(2 * Attempts)
  /\ step \in {"written", "restart", "startup"} => tries > 0
  /\ step \in {"join", "look", "close"} => next # "restart" \/ tries > 0
  /\ next \in {"end", "write", "view", "restart"}

ControlTypes ==
  /\ program \in Programs \union {"none"}
  /\ conn \in Kinds \union {"none", "tcp"}
  /\ cache \in Kinds \union {"none"}
  /\ left \in Selected \union {<<>>}
  /\ HeldTypes
  /\ reader \in {"none", "opening", "reading", "looks", "closing", "over"}
  /\ port \in BOOLEAN /\ done \in BOOLEAN

Control == ControlTypes /\ HeldInv /\ StepInv /\ ConnInv /\ TriesInv

-----------------------------------------------------------------------------
(* What opening, failing to open and closing do to what is held.           *)

\* A connection that could be opened was not open, and is open to one who opened it.
LEMMA OpensOne ==
  ASSUME NEW who \in {"client", "io"}, Opens(who), UNCHANGED conn,
         OwnOrLost, HeldTypes, conn \in Kinds \union {"tcp"}
  PROVE  /\ OwnOrLost' /\ HeldTypes'
         /\ who = "client" => ~Holds("io")'
         /\ who = "io" => ~Holds("client")'
  BY DEF Opens, Busy, OwnOrLost, HeldTypes, Holds

\* An attempt to open that fails may lose a BLE link, and opens nothing.
LEMMA FailsToOpen ==
  ASSUME OpenFails, UNCHANGED conn, OwnOrLost, HeldTypes
  PROVE  /\ OwnOrLost' /\ HeldTypes'
         /\ Holds("client")' <=> Holds("client")
         /\ Holds("io")' <=> Holds("io")
  BY DEF OpenFails, Lost, OwnOrLost, HeldTypes, Holds, Kinds

\* Closing takes the connection from the one who had it open.
LEMMA ClosesOne ==
  ASSUME NEW who \in {"client", "io"}, Closes(who), UNCHANGED conn, OwnOrLost, HeldTypes
  PROVE  /\ OwnOrLost' /\ HeldTypes' /\ ~Holds(who)'
         /\ who = "client" => (Holds("io")' <=> Holds("io"))
         /\ who = "io" => (Holds("client")' <=> Holds("client"))
  BY DEF Closes, OwnOrLost, HeldTypes, Holds

\* So does a handshake that fails, though the link may be lost by it.
LEMMA HandshakeLoses ==
  ASSUME HandshakeFails, UNCHANGED conn, OwnOrLost, HeldTypes
  PROVE  /\ OwnOrLost' /\ HeldTypes' /\ ~Holds("client")'
         /\ Holds("io")' <=> Holds("io")
<1>1. CASE conn = "ble"
  BY <1>1 DEF HandshakeFails, OwnOrLost, HeldTypes, Holds, Kinds
<1>2. CASE conn # "ble"
  <2>1. Closes("client")
    BY <1>2 DEF HandshakeFails
  <2>2. QED
    BY <2>1, ClosesOne
<1>3. QED
  BY <1>1, <1>2

\* A program that has nothing open may turn to another connection.
LEMMA TurnsTo ==
  ASSUME UNCHANGED held, OwnOrLost, HeldTypes, ~Holds("client"), ~Holds("io")
  PROVE  OwnOrLost' /\ HeldTypes' /\ ~Holds("client")' /\ ~Holds("io")'
<1>1. \A h \in held : h[2] = "lost"
  BY DEF OwnOrLost, Holds
<1>2. QED
  BY <1>1 DEF OwnOrLost, HeldTypes, Holds

\* While a program stays where it is with what it has open, nothing is opened or closed.
LEMMA StaysAt ==
  ASSUME UNCHANGED <<conn, held>>, OwnOrLost, HeldTypes
  PROVE  /\ OwnOrLost' /\ HeldTypes'
         /\ Holds("client")' <=> Holds("client")
         /\ Holds("io")' <=> Holds("io")
  BY DEF OwnOrLost, HeldTypes, Holds

-----------------------------------------------------------------------------
(* Control, action by action.                                              *)

\* Finding the connection: the steps of connection_cli.py and discover_vescs.py.
LEMMA CliControl ==
  ASSUME Control, NextCli, UNCHANGED readers
  PROVE  Control'
<1> USE DEF Control, ControlTypes, HeldInv, StepInv, ConnInv, TriesInv, readers, Goto, Window,
            InWindow
<1>1. ASSUME NEW p \in Programs, Start(p) PROVE Control'
  <2>1. ~Holds("client") /\ ~Holds("io") /\ UNCHANGED held
    BY <1>1 DEF Start
  <2>2. OwnOrLost' /\ HeldTypes' /\ ~Holds("client")' /\ ~Holds("io")'
    BY <2>1, TurnsTo
  <2>3. QED
    BY <1>1, <2>2 DEF Start, Programs, Kinds, Selected
<1>2. CASE Explicit
  <2>1. ~Holds("client") /\ ~Holds("io") /\ UNCHANGED held
    BY <1>2 DEF Explicit
  <2>2. OwnOrLost' /\ HeldTypes' /\ ~Holds("client")' /\ ~Holds("io")'
    BY <2>1, TurnsTo
  <2>3. QED
    BY <1>2, <2>2 DEF Explicit, Saves, Resolved, Kinds
<1>3. CASE LoadCached
  <2>1. ~Holds("client") /\ ~Holds("io") /\ UNCHANGED held
    BY <1>3 DEF LoadCached
  <2>2. OwnOrLost' /\ HeldTypes' /\ ~Holds("client")' /\ ~Holds("io")'
    BY <2>1, TurnsTo
  <2>3. QED
    BY <1>3, <2>2 DEF LoadCached, Kinds
<1>4. CASE NoCached
  <2>1. OwnOrLost' /\ HeldTypes' /\ ~Holds("client")' /\ ~Holds("io")'
    BY <1>4, TurnsTo DEF NoCached
  <2>2. QED
    BY <1>4, <2>1 DEF NoCached
<1>5. CASE CheckOpens
  <2>1. step = "check" /\ UNCHANGED <<program, conn, left, cache>> /\ conn \in Kinds
    BY <1>5 DEF CheckOpens, Kinds
  <2>2. CASE Opens("client") /\ Goto("checked")
    <3>1. OwnOrLost' /\ HeldTypes' /\ ~Holds("io")'
      BY <2>1, <2>2, OpensOne
    <3>2. QED
      BY <2>1, <2>2, <3>1
  <2>3. CASE OpenFails /\ step' \in {"discover", "end"}
    <3>1. OwnOrLost' /\ HeldTypes' /\ ~Holds("client")' /\ ~Holds("io")'
      BY <2>1, <2>3, FailsToOpen
    <3>2. QED
      BY <2>1, <2>3, <3>1
  <2>4. QED
    BY <1>5, <2>2, <2>3 DEF CheckOpens, OpenRaises
<1>6. CASE Checked
  <2>1. step = "checked" /\ UNCHANGED <<program, conn, left>> /\ conn \in Kinds
    BY <1>6 DEF Checked, Kinds
  <2>2. cache' \in {cache, conn} /\ step' \in {"can", "run", "discover"}
    BY <1>6 DEF Checked, Saves, Resolved
  <2>3. OwnOrLost' /\ HeldTypes' /\ ~Holds("client")' /\ ~Holds("io")'
    <3>1. CASE Closes("client")
      BY <2>1, <3>1, ClosesOne
    <3>2. CASE HandshakeFails
      BY <2>1, <3>2, HandshakeLoses
    <3>3. QED
      BY <1>6, <3>1, <3>2 DEF Checked
  <2>4. QED
    BY <2>1, <2>2, <2>3
<1>7. CASE Discover
  <2>1. ~Holds("client") /\ ~Holds("io") /\ UNCHANGED held
    BY <1>7 DEF Discover
  <2>2. OwnOrLost' /\ HeldTypes' /\ ~Holds("client")' /\ ~Holds("io")'
    BY <2>1, TurnsTo
  <2>3. /\ step = "discover" /\ UNCHANGED <<program, left>>
        /\ \/ conn' \in Kinds /\ cache' \in {cache, conn'} /\ step' \in {"can", "run"}
           \/ UNCHANGED <<conn, cache>> /\ step' = "end"
    BY <1>7 DEF Discover, Saves, Resolved, SerialPorts, BleDevices, Advertising, Kinds
  <2>4. QED
    BY <2>2, <2>3 DEF Kinds
<1>8. CASE CanTarget
  <2>1. step = "can" /\ UNCHANGED <<program, conn, left, cache>> /\ conn \in Kinds
    BY <1>8 DEF CanTarget, Kinds
  <2>2. CASE Opens("client") /\ Goto("scan")
    <3>1. OwnOrLost' /\ HeldTypes' /\ ~Holds("io")'
      BY <2>1, <2>2, OpensOne
    <3>2. QED
      BY <2>1, <2>2, <3>1
  <2>3. CASE (OpenFails \/ UNCHANGED held) /\ step' \in {"run", "end"}
    <3>1. OwnOrLost' /\ HeldTypes' /\ ~Holds("client")' /\ ~Holds("io")'
      BY <2>1, <2>3, FailsToOpen, StaysAt
    <3>2. QED
      BY <2>1, <2>3, <3>1
  <2>4. QED
    BY <1>8, <2>2, <2>3 DEF CanTarget, OpenRaises
<1>9. CASE ScanCan
  <2>1. /\ step = "scan" /\ UNCHANGED <<program, conn, left, cache>>
        /\ step' \in {"run", "end"}
    BY <1>9 DEF ScanCan
  <2>2. OwnOrLost' /\ HeldTypes' /\ ~Holds("client")' /\ ~Holds("io")'
    <3>1. CASE Closes("client")
      BY <2>1, <3>1, ClosesOne
    <3>2. CASE HandshakeFails
      BY <2>1, <3>2, HandshakeLoses
    <3>3. QED
      BY <1>9, <3>1, <3>2 DEF ScanCan
  <2>3. QED
    BY <2>1, <2>2
<1>10. CASE ScanSerial \/ ScanBle
  <2>1. ~Holds("client") /\ ~Holds("io") /\ UNCHANGED held
    BY <1>10 DEF ScanSerial, ScanBle
  <2>2. OwnOrLost' /\ HeldTypes' /\ ~Holds("client")' /\ ~Holds("io")'
    BY <2>1, TurnsTo
  <2>3. /\ step = "probe" /\ UNCHANGED <<program, cache>>
        /\ conn' \in Kinds /\ step' \in {"probe", "open"}
    BY <1>10 DEF ScanSerial, ScanBle, Kinds
  <2>4. left' \in Selected \union {<<>>}
    <3>1. left \in Selected /\ left' = Tail(left)
      BY <1>10 DEF ScanSerial, ScanBle
    <3>2. /\ Tail(<<"serial">>) = <<>> /\ Tail(<<"ble">>) = <<>>
          /\ Tail(<<"serial", "ble">>) = <<"ble">>
      OBVIOUS
    <3>3. QED
      BY <3>1, <3>2 DEF Selected
  <2>5. QED
    BY <2>2, <2>3, <2>4 DEF Kinds
<1>11. CASE Scanned
  <2>1. OwnOrLost' /\ HeldTypes' /\ ~Holds("client")' /\ ~Holds("io")'
    BY <1>11, TurnsTo DEF Scanned
  <2>2. QED
    BY <1>11, <2>1 DEF Scanned
<1>12. CASE Probe
  <2>1. step = "open" /\ UNCHANGED <<program, conn, left, cache>> /\ conn \in Kinds
    BY <1>12 DEF Probe, Kinds
  <2>2. CASE Opens("client") /\ Goto("probed")
    <3>1. OwnOrLost' /\ HeldTypes' /\ ~Holds("io")'
      BY <2>1, <2>2, OpensOne
    <3>2. QED
      BY <2>1, <2>2, <3>1
  <2>3. CASE OpenFails /\ Goto("probe")
    <3>1. OwnOrLost' /\ HeldTypes' /\ ~Holds("client")' /\ ~Holds("io")'
      BY <2>1, <2>3, FailsToOpen
    <3>2. QED
      BY <2>1, <2>3, <3>1
  <2>4. QED
    BY <1>12, <2>2, <2>3 DEF Probe
<1>13. CASE Probed
  <2>1. step = "probed" /\ UNCHANGED <<program, conn, left, cache>> /\ step' = "probe"
    BY <1>13 DEF Probed
  <2>2. OwnOrLost' /\ HeldTypes' /\ ~Holds("client")' /\ ~Holds("io")'
    <3>1. CASE Closes("client")
      BY <2>1, <3>1, ClosesOne
    <3>2. CASE HandshakeFails
      BY <2>1, <3>2, HandshakeLoses
    <3>3. QED
      BY <1>13, <3>1, <3>2 DEF Probed
  <2>3. QED
    BY <2>1, <2>2
<1>14. QED
  BY <1>1, <1>2, <1>3, <1>4, <1>5, <1>6, <1>7, <1>8, <1>9, <1>10, <1>11, <1>12, <1>13
     DEF NextCli

\* Reading it: the loops, the readers, and the windows beside them.
LEMMA ReadersControl ==
  ASSUME Control, NextReaders
  PROVE  Control'
<1> USE AttemptsAssumption
    DEF Control, ControlTypes, HeldInv, StepInv, ConnInv, TriesInv, readers, Goto, Window,
        InWindow, Alive
<1>1. CASE LoopOpens \/ DebugOpens
  <2>1. /\ step = "run" /\ program \in {"fast", "debug"} /\ conn \in Kinds
        /\ UNCHANGED <<program, conn, left, cache, readers>>
    BY <1>1 DEF LoopOpens, DebugOpens, Kinds
  <2>2. CASE OpenFails /\ Goto("end")
    <3>1. OwnOrLost' /\ HeldTypes' /\ ~Holds("client")' /\ ~Holds("io")'
      BY <2>1, <2>2, FailsToOpen
    <3>2. QED
      BY <2>1, <2>2, <3>1
  <2>3. CASE /\ Opens("io")
             /\ \/ program = "fast" /\ step' = "loop"
                \/ program = "debug" /\ step' = "capture"
    <3>1. OwnOrLost' /\ HeldTypes' /\ ~Holds("client")'
      BY <2>1, <2>3, OpensOne
    <3>2. QED
      BY <2>1, <2>3, <3>1
  <2>4. QED
    BY <1>1, <2>2, <2>3 DEF LoopOpens, DebugOpens
<1>2. CASE LoopEnds \/ DebugCloses
  <2>1. /\ step \in {"loop", "stop"} /\ UNCHANGED <<program, conn, left, cache, readers>>
        /\ step' = "end" /\ Closes("io")
    BY <1>2 DEF LoopEnds, DebugCloses
  <2>2. OwnOrLost' /\ HeldTypes' /\ ~Holds("client")' /\ ~Holds("io")'
    BY <2>1, ClosesOne
  <2>3. QED
    BY <2>1, <2>2
<1>3. CASE DebugListens
  <2>1. OwnOrLost' /\ HeldTypes' /\ ~Holds("client")'
    BY <1>3, StaysAt DEF DebugListens
  <2>2. QED
    BY <1>3, <2>1 DEF DebugListens
<1>4. CASE ReaderOpens
  <2>1. /\ reader = "opening" /\ conn \in Kinds \union {"tcp"}
        /\ UNCHANGED <<program, step, conn, left, cache, done, next, tries>>
    BY <1>4 DEF ReaderOpens
  <2>2. CASE Opens("io") /\ reader' = "reading" /\ port' = TRUE
    <3>1. OwnOrLost' /\ HeldTypes' /\ ~Holds("client")'
      BY <2>1, <2>2, OpensOne
    <3>2. QED
      BY <2>1, <2>2, <3>1
  <2>3. CASE OpenFails /\ reader' = "looks" /\ UNCHANGED port
    <3>1. /\ OwnOrLost' /\ HeldTypes'
          /\ Holds("client")' <=> Holds("client")
          /\ ~Holds("io")'
      BY <2>1, <2>3, FailsToOpen
    <3>2. QED
      BY <2>1, <2>3, <3>1
  <2>4. QED
    BY <1>4, <2>2, <2>3 DEF ReaderOpens
<1>5. CASE ReaderLooks
  <2>1. UNCHANGED <<program, step, conn, left, cache, held, port, next, tries>>
    BY <1>5 DEF ReaderLooks, cli
  <2>2. /\ OwnOrLost' /\ HeldTypes'
        /\ Holds("client")' <=> Holds("client")
        /\ Holds("io")' <=> Holds("io")
    BY <2>1, StaysAt
  <2>3. /\ reader = "looks"
        /\ \/ reader' = "closing" /\ UNCHANGED done
           \/ reader' = "over" /\ ~port /\ done' = TRUE
    BY <1>5 DEF ReaderLooks
  <2>4. done' \in BOOLEAN
    BY <2>3
  <2>5. QED
    BY <2>1, <2>2, <2>3, <2>4
<1>6. CASE ReaderCloses
  <2>1. /\ reader = "closing" /\ reader' = "over"
        /\ UNCHANGED <<program, step, conn, left, cache, next, tries>>
    BY <1>6 DEF ReaderCloses
  <2>2. /\ OwnOrLost' /\ HeldTypes'
        /\ Holds("client")' <=> Holds("client")
        /\ ~Holds("io")'
    <3>1. CASE Closes("io")
      BY <2>1, <3>1, ClosesOne
    <3>2. CASE ~port /\ UNCHANGED held
      BY <2>1, <3>2, StaysAt
    <3>3. QED
      BY <1>6, <3>1, <3>2 DEF ReaderCloses, StopRaises, Closes
  <2>3. port' \in BOOLEAN /\ done' \in BOOLEAN /\ (port' => port)
    <3>1. CASE port' = FALSE /\ done' = TRUE
      BY <3>1
    <3>2. CASE UNCHANGED <<port, done>>
      BY <3>2
    <3>3. QED
      BY <1>6, <3>1, <3>2 DEF ReaderCloses
  <2>4. QED
    BY <2>1, <2>2, <2>3
<1>7. CASE ReadRate
  <2>1. /\ program = "package" /\ step = "run" /\ conn \in Kinds
        /\ UNCHANGED <<program, conn, left, cache, readers>>
    BY <1>7 DEF ReadRate, Kinds
  <2>2. CASE Opens("client") /\ Goto("rate")
    <3>1. OwnOrLost' /\ HeldTypes' /\ ~Holds("io")'
      BY <2>1, <2>2, OpensOne
    <3>2. QED
      BY <2>1, <2>2, <3>1
  <2>3. CASE OpenFails /\ Goto("start")
    <3>1. OwnOrLost' /\ HeldTypes' /\ ~Holds("client")' /\ ~Holds("io")'
      BY <2>1, <2>3, FailsToOpen
    <3>2. QED
      BY <2>1, <2>3, <3>1
  <2>4. QED
    BY <1>7, <2>2, <2>3 DEF ReadRate
<1>8. CASE RateRead
  <2>1. /\ step = "rate" /\ UNCHANGED <<program, conn, left, cache, readers>>
        /\ step' = "start"
    BY <1>8 DEF RateRead
  <2>2. OwnOrLost' /\ HeldTypes' /\ ~Holds("client")' /\ ~Holds("io")'
    <3>1. CASE Closes("client")
      BY <2>1, <3>1, ClosesOne
    <3>2. CASE HandshakeFails
      BY <2>1, <3>2, HandshakeLoses
    <3>3. QED
      BY <1>8, <3>1, <3>2 DEF RateRead
  <2>3. QED
    BY <2>1, <2>2
<1>9. CASE Show \/ Restart
  <2>1. /\ Window /\ step \in {"run", "start", "restart"}
        /\ step' = "view" \/ (step' = "startup" /\ step = "restart")
        /\ UNCHANGED <<program, conn, left, cache, held, port, next, tries>>
        /\ \/ UNCHANGED <<reader, done>>
           \/ ~Alive /\ reader' = "opening" /\ done' = FALSE
    BY <1>9 DEF Show, Restart, Starts
  <2>2. OwnOrLost' /\ HeldTypes' /\ ~Holds("client")' /\ (Holds("io")' <=> Holds("io"))
    BY <2>1, StaysAt
  <2>3. CASE UNCHANGED <<reader, done>>
    BY <2>1, <2>2, <2>3
  <2>4. CASE ~Alive /\ reader' = "opening" /\ done' = FALSE
    <3>1. ~Holds("io")'
      BY <2>1, <2>2, <2>4
    <3>2. done' \in BOOLEAN
      BY Zenon, <2>4
    <3>3. QED
      BY <2>1, <2>2, <2>4, <3>1, <3>2
  <2>5. QED
    BY <2>1, <2>3, <2>4
<1>10. CASE CloseView \/ ChooseRate
  <2>1. /\ Window /\ step = "view" /\ step' = "join" /\ next' \in {"end", "write"}
        /\ UNCHANGED <<program, conn, left, cache, held, reader, port, done, tries>>
    BY <1>10 DEF CloseView, ChooseRate, Stop
  <2>2. OwnOrLost' /\ HeldTypes' /\ ~Holds("client")' /\ (Holds("io")' <=> Holds("io"))
    BY <2>1, StaysAt
  <2>3. QED
    BY <2>1, <2>2
<1>11. CASE Joins
  <2>1. /\ step = "join" /\ UNCHANGED <<program, conn, left, cache, reader, port, done, next>>
        /\ \/ step' = "look" /\ UNCHANGED tries
           \/ step' \in {"end", "view"} /\ UNCHANGED tries
           \/ step' = "restart" /\ tries' = Attempts
    BY <1>11 DEF Joins, AfterRaise
  <2>2. OwnOrLost' /\ HeldTypes' /\ ~Holds("client")' /\ (Holds("io")' => Holds("io"))
    <3>1. CASE UNCHANGED held
      BY <2>1, <3>1, StaysAt
    <3>2. CASE Closes("io")
      BY <2>1, <3>2, ClosesOne
    <3>3. QED
      BY <1>11, <3>1, <3>2 DEF Joins, StopRaises, Closes
  <2>3. QED
    BY <2>1, <2>2
<1>12. CASE StopLooks
  <2>1. /\ step = "look" /\ UNCHANGED <<program, conn, left, cache, held, readers>>
        /\ step' = "close" \/ (~port /\ step' = next)
    BY <1>12 DEF StopLooks
  <2>2. OwnOrLost' /\ HeldTypes' /\ ~Holds("client")' /\ (Holds("io")' <=> Holds("io"))
    BY <2>1, StaysAt
  <2>3. QED
    BY <2>1, <2>2
<1>13. CASE StopCloses
  <2>1. /\ step = "close" /\ (next # "restart" \/ tries > 0)
        /\ UNCHANGED <<program, conn, left, cache, reader, done, next>>
        /\ \/ step' = next /\ UNCHANGED tries
           \/ step' \in {"end", "view"} /\ UNCHANGED tries
           \/ step' = "restart" /\ tries' = Attempts
    BY <1>13 DEF StopCloses, AfterRaise
  <2>2. OwnOrLost' /\ HeldTypes' /\ ~Holds("client")' /\ ~Holds("io")'
    <3>1. CASE ~port /\ UNCHANGED held
      BY <2>1, <3>1, StaysAt
    <3>2. CASE Closes("io")
      BY <2>1, <3>2, ClosesOne
    <3>3. QED
      BY <1>13, <3>1, <3>2 DEF StopCloses
  <2>3. ~port' /\ port' \in BOOLEAN
    BY Zenon, <1>13 DEF StopCloses
  <2>4. QED
    BY <2>1, <2>2, <2>3
<1>14. CASE WriteRate
  <2>1. /\ step = "write" /\ tries' = Attempts /\ conn \in Kinds \union {"tcp"}
        /\ UNCHANGED <<program, conn, left, cache, reader, port, done, next>>
    BY <1>14 DEF WriteRate
  <2>2. CASE Opens("client") /\ Goto("written")
    <3>1. OwnOrLost' /\ HeldTypes' /\ ~Holds("io")'
      BY <2>1, <2>2, OpensOne
    <3>2. QED
      BY <2>1, <2>2, <3>1
  <2>3. CASE OpenFails /\ Goto("restart")
    <3>1. OwnOrLost' /\ HeldTypes' /\ ~Holds("client")' /\ (Holds("io")' <=> Holds("io"))
      BY <2>1, <2>3, FailsToOpen
    <3>2. QED
      BY <2>1, <2>3, <3>1
  <2>4. QED
    BY <1>14, <2>2, <2>3 DEF WriteRate
<1>15. CASE RateWritten
  <2>1. /\ step = "written" /\ step' = "restart" /\ tries' \in {tries, Attempts, 2 * Attempts}
        /\ UNCHANGED <<program, conn, left, cache, reader, port, done, next>>
    BY <1>15 DEF RateWritten
  <2>2. OwnOrLost' /\ HeldTypes' /\ ~Holds("client")' /\ (Holds("io")' <=> Holds("io"))
    <3>1. CASE Closes("client")
      BY <2>1, <3>1, ClosesOne
    <3>2. CASE HandshakeFails
      BY <2>1, <3>2, HandshakeLoses
    <3>3. QED
      BY <1>15, <3>1, <3>2 DEF RateWritten
  <2>3. QED
    BY <2>1, <2>2
<1>16. CASE StartupStands
  <2>1. /\ step = "startup" /\ step' = "view"
        /\ UNCHANGED <<program, conn, left, cache, held, readers>>
    BY <1>16 DEF StartupStands
  <2>2. OwnOrLost' /\ HeldTypes' /\ ~Holds("client")' /\ (Holds("io")' <=> Holds("io"))
    BY <2>1, StaysAt
  <2>3. QED
    BY <2>1, <2>2
<1>17. CASE StartupFails
  <2>1. /\ step = "startup" /\ step' = "join" /\ tries' = tries - 1
        /\ next' = IF tries = 1 THEN "view" ELSE "restart"
        /\ UNCHANGED <<program, conn, left, cache, held, reader, port, done>>
    BY <1>17 DEF StartupFails, Stop
  <2>2. OwnOrLost' /\ HeldTypes' /\ ~Holds("client")' /\ (Holds("io")' <=> Holds("io"))
    BY <2>1, StaysAt
  <2>3. QED
    BY <2>1, <2>2
<1>18. QED
  BY <1>1, <1>2, <1>3, <1>4, <1>5, <1>6, <1>7, <1>8, <1>9, <1>10, <1>11, <1>12, <1>13,
     <1>14, <1>15, <1>16, <1>17 DEF NextReaders

\* The plot: its client, and nothing of the rest.
LEMMA LiveControl ==
  ASSUME Control, NextLive
  PROVE  Control'
<1> USE DEF Control, ControlTypes, HeldInv, StepInv, ConnInv, TriesInv, readers, Goto, Window,
            InWindow
<1>1. CASE UNCHANGED <<cli, readers>>
  <2>1. UNCHANGED <<program, step, conn, left, cache, held, readers>>
    BY <1>1 DEF cli
  <2>2. /\ OwnOrLost' /\ HeldTypes'
        /\ Holds("client")' <=> Holds("client")
        /\ Holds("io")' <=> Holds("io")
    BY <2>1, StaysAt
  <2>3. QED
    BY <2>1, <2>2
<1>2. CASE Connect
  <2>1. /\ step = "connect" /\ conn \in Kinds \union {"tcp"}
        /\ UNCHANGED <<program, conn, left, cache, readers>>
    BY <1>2 DEF Connect
  <2>2. CASE Opens("client") /\ Goto("firmware")
    <3>1. OwnOrLost' /\ HeldTypes' /\ ~Holds("io")'
      BY <2>1, <2>2, OpensOne
    <3>2. QED
      BY <2>1, <2>2, <3>1
  <2>3. CASE OpenFails /\ Goto("end")
    <3>1. OwnOrLost' /\ HeldTypes' /\ ~Holds("client")' /\ ~Holds("io")'
      BY <2>1, <2>3, FailsToOpen
    <3>2. QED
      BY <2>1, <2>3, <3>1
  <2>4. QED
    BY <1>2, <2>2, <2>3 DEF Connect
<1>3. CASE Firmware
  <2>1. /\ step = "firmware" /\ step' \in {"plot", "end"}
        /\ UNCHANGED <<program, conn, left, cache, readers>>
    BY <1>3 DEF Firmware
  <2>2. OwnOrLost' /\ HeldTypes' /\ ~Holds("io")'
    <3>1. CASE UNCHANGED held
      BY <2>1, <3>1, StaysAt
    <3>2. CASE HandshakeFails
      BY <2>1, <3>2, HandshakeLoses
    <3>3. QED
      BY <1>3, <3>1, <3>2 DEF Firmware
  <2>3. QED
    BY <2>1, <2>2
<1>4. CASE LeavePlot
  <2>1. /\ step = "plot" /\ step' = "end" /\ Closes("client")
        /\ UNCHANGED <<program, conn, left, cache, readers>>
    BY <1>4 DEF LeavePlot
  <2>2. OwnOrLost' /\ HeldTypes' /\ ~Holds("client")' /\ ~Holds("io")'
    BY <2>1, ClosesOne
  <2>3. QED
    BY <2>1, <2>2
<1>5. QED
  BY <1>1, <1>2, <1>3, <1>4
     DEF NextLive, NextPoller, NextPlot, Polls, Put, Mark, Notify, Wait, Register, Deliver,
         Drain, DrainBegins, Takes, DrainEnds, ClosePlot

\* Polling: only the reader that leaves its loop.
LEMMA PollingControl ==
  ASSUME Control, NextPolling
  PROVE  Control'
<1> USE DEF Control, ControlTypes, HeldInv, StepInv, ConnInv, TriesInv, Window, InWindow
<1>1. /\ UNCHANGED <<program, step, conn, left, cache, held, port, done, next, tries>>
      /\ UNCHANGED reader \/ (reader = "reading" /\ reader' = "looks")
  BY DEF NextPolling, Request, Arrives, Skips, Rejects, TimesOut, ShowsAnswer,
     CollectsAnswer,
         TakesNone, TakesPacket, DrainBuffer, LeavesPolling, ReaderLeaves, Read, cli, readers
<1>2. /\ OwnOrLost' /\ HeldTypes'
      /\ Holds("client")' <=> Holds("client")
      /\ Holds("io")' <=> Holds("io")
  BY <1>1, StaysAt
<1>3. QED
  BY <1>1, <1>2

\* Every step of the composition keeps what is said of steps and connections.
LEMMA ControlInductive == Control /\ [Next]_vars => Control'
<1> SUFFICES ASSUME Control, [Next]_vars PROVE Control'
  OBVIOUS
<1>1. CASE End /\ reader' = "none" /\ port' = FALSE /\ done' = FALSE /\ next' = "end"
               /\ tries' = Attempts
  <2>1. /\ program' = "none" /\ step' = "none" /\ conn' = "none" /\ left' = <<>> /\ held' = {}
        /\ cache' \in Kinds \union {"none"}
    BY <1>1 DEF End, Control, ControlTypes
  <2>2. OwnOrLost' /\ HeldTypes' /\ ~Holds("client")' /\ ~Holds("io")'
    BY <2>1 DEF OwnOrLost, HeldTypes, Holds
  <2>3. ~port' /\ port' \in BOOLEAN /\ done' \in BOOLEAN
    BY Zenon, <1>1
  <2>4. QED
    BY <1>1, <2>1, <2>2, <2>3, AttemptsAssumption
       DEF Control, ControlTypes, HeldInv, StepInv, ConnInv, TriesInv, Window, InWindow
<1>2. CASE UNCHANGED vars
  <2>1. UNCHANGED <<program, step, conn, left, cache, held, reader, port, done, next, tries>>
    BY <1>2 DEF vars, cli, readers
  <2>2. /\ OwnOrLost' /\ HeldTypes'
        /\ Holds("client")' <=> Holds("client")
        /\ Holds("io")' <=> Holds("io")
    BY <2>1, StaysAt DEF Control, ControlTypes, HeldInv
  <2>3. QED
    BY <2>1, <2>2
       DEF Control, ControlTypes, HeldInv, StepInv, ConnInv, TriesInv, Window, InWindow
<1>3. QED
  BY <1>1, <1>2, CliControl, ReadersControl, LiveControl, PollingControl DEF Next

\* No program runs, and nothing is open.
LEMMA ControlInitially == Init => Control
<1> SUFFICES ASSUME Init PROVE Control
  OBVIOUS
<1>1. OwnOrLost /\ HeldTypes /\ ~Holds("client") /\ ~Holds("io")
  BY DEF Init, InitCli, OwnOrLost, HeldTypes, Holds
<1>2. ~port /\ port \in BOOLEAN /\ done \in BOOLEAN
  BY Zenon DEF Init, InitReaders
<1>3. QED
  BY <1>1, <1>2, AttemptsAssumption
     DEF Init, InitCli, InitReaders, Control, ControlTypes, HeldInv, StepInv, ConnInv, TriesInv,
         Window, InWindow

\* A program that is about to open its connection has nothing open.
LEMMA ControlFrees == Control => LinkIsFree
<1> SUFFICES ASSUME Control, AboutToOpen PROVE \A h \in held : h[2] = "lost"
  BY DEF LinkIsFree
<1>1. ~Holds("client") /\ ~Holds("io")
  BY DEF AboutToOpen, Control, ControlTypes, HeldInv, StepInv, InWindow, Window, Alive
<1>2. QED
  BY <1>1 DEF Control, HeldInv, OwnOrLost, Holds

\* Whichever way a probe, a check, a loop, a reader or a change of its rate ends, and
\* whatever fails in it: a program that is about to open its connection has nothing open
\* from before, however often it is run, and its reader is restarted.
THEOREM LinkStaysFree == Spec => []LinkIsFree
<1>1. QED
  BY ControlInitially, ControlInductive, ControlFrees, PTL DEF Spec

-----------------------------------------------------------------------------
(* What the window of the plot is told.                                    *)

\* Of the signals that the event loop has yet to deliver, and the one the thread is
\* about to send, all but one are of samples that came since the last drain.
Told == signals + IF poller = "notify" THEN 1 ELSE 0

Due == IF pending THEN 1 ELSE 0

PlotInv ==
  /\ plot \in {"none", "register", "drain", "take", "idle", "joined"}
  /\ poller \in {"none", "poll", "put", "mark", "notify", "wait", "over"}
  /\ signals \in Nat /\ samples \in 0..MaxQueue
  /\ pending \in BOOLEAN /\ callback \in BOOLEAN
  /\ plot # "none" => step \in {"plot", "end"}
  /\ plot \in {"none", "register"} => Told = 0 /\ ~callback
  /\ plot = "drain" => Told <= Due
  /\ Told <= Due + 1

\* What the other programs do leaves the steps of the plot alone.
LEMMA PlotIsLeft ==
  ASSUME StepInv, NextCli \/ NextReaders \/ NextPolling
  PROVE  UNCHANGED step \/ step \notin {"plot", "end"}
<1>1. CASE NextCli
  BY <1>1 DEF StepInv, NextCli, Start, Explicit, LoadCached, NoCached, CheckOpens, Checked,
              Discover, CanTarget, ScanCan, ScanSerial, ScanBle, Scanned, Probe, Probed
<1>2. CASE NextReaders
  BY <1>2 DEF NextReaders, LoopOpens, LoopEnds, DebugOpens, DebugListens, DebugCloses,
              ReaderOpens, ReaderLooks, ReaderCloses, ReadRate, RateRead, Show, CloseView,
              ChooseRate, Joins, StopLooks, StopCloses, WriteRate, RateWritten, Restart,
              StartupStands, StartupFails, cli
<1>3. CASE NextPolling
  BY <1>3 DEF NextPolling, Request, Arrives, Skips, Rejects, TimesOut, ShowsAnswer,
              CollectsAnswer, TakesNone, TakesPacket, DrainBuffer, LeavesPolling,
              ReaderLeaves, Read, cli
<1>4. QED
  BY <1>1, <1>2, <1>3

\* Signals, marks and samples of the plot stay in step, action by action.
LEMMA NextPlotInv ==
  ASSUME PlotInv, NextLive
  PROVE  PlotInv'
<1> USE QueueAssumption DEF PlotInv, Told, Due
<1>1. CASE Connect
  <2>1. UNCHANGED live /\ step \notin {"plot", "end"}
    BY <1>1 DEF Connect
  <2>2. QED
    BY <2>1 DEF live
<1>2. CASE Firmware
  BY <1>2 DEF Firmware, Goto
<1>3. CASE Polls
  BY <1>3 DEF Polls, cli
<1>4. CASE Put
  BY <1>4 DEF Put, cli
<1>5. CASE Mark
  <2>1. CASE poller' = "wait" /\ UNCHANGED pending
    BY <1>5, <2>1 DEF Mark, cli
  <2>2. CASE callback /\ ~pending /\ poller' = "notify" /\ pending' = TRUE
    <3>1. pending' /\ pending' \in BOOLEAN
      BY Zenon, <2>2
    <3>2. QED
      BY <1>5, <2>2, <3>1 DEF Mark, cli
  <2>3. QED
    BY <1>5, <2>1, <2>2 DEF Mark
<1>6. CASE Notify
  BY <1>6 DEF Notify, cli
<1>7. CASE Wait
  BY <1>7 DEF Wait, cli
<1>8. CASE Register
  BY <1>8 DEF Register, cli
<1>9. CASE Deliver
  BY <1>9 DEF Deliver, cli
<1>10. CASE DrainBegins
  <2>1. ~pending' /\ pending' \in BOOLEAN
    BY Zenon, <1>10 DEF DrainBegins
  <2>2. QED
    BY <1>10, <2>1 DEF DrainBegins, cli
<1>11. CASE Takes
  BY <1>11 DEF Takes, cli
<1>12. CASE DrainEnds
  BY <1>12 DEF DrainEnds, cli
<1>13. CASE ClosePlot
  BY <1>13 DEF ClosePlot, cli
<1>14. CASE LeavePlot
  BY <1>14 DEF LeavePlot, live, Goto
<1>15. QED
  BY <1>1, <1>2, <1>3, <1>4, <1>5, <1>6, <1>7, <1>8, <1>9, <1>10, <1>11, <1>12, <1>13, <1>14
     DEF NextLive, NextPoller, NextPlot, Drain

\* And whatever the other programs do.
LEMMA PlotInductive == Control /\ PlotInv /\ [Next]_vars => PlotInv'
<1> SUFFICES ASSUME Control, PlotInv, [Next]_vars PROVE PlotInv'
  OBVIOUS
<1>1. CASE /\ poller' = "none" /\ samples' = 0 /\ pending' = FALSE
           /\ callback' = FALSE /\ signals' = 0 /\ plot' = "none"
  <2>1. ~callback' /\ callback' \in BOOLEAN /\ pending' \in BOOLEAN
    BY Zenon, <1>1
  <2>2. QED
    BY <1>1, <2>1, QueueAssumption DEF PlotInv, Told, Due
<1>2. CASE UNCHANGED live /\ (UNCHANGED step \/ step \notin {"plot", "end"})
  BY <1>2 DEF PlotInv, Told, Due, live
<1>3. QED
  BY <1>1, <1>2, NextPlotInv, PlotIsLeft DEF Control, Next, vars, cli

-----------------------------------------------------------------------------
(* Which requests the samples answer.                                      *)

IsAnswer(p) == p.kind = "imu"

\* The packets that have come, and those behind them on the line, answer requests after
\* one that was answered, in the order of the requests.
InTurn(s, t, answered) ==
  /\ \A i \in 1..Len(s) : IsAnswer(s[i]) => answered < s[i].of
  /\ \A i \in 1..Len(t) : IsAnswer(t[i]) => answered < t[i].of
  /\ \A i, j \in 1..Len(s) : i < j /\ IsAnswer(s[i]) /\ IsAnswer(s[j]) => s[i].of < s[j].of
  /\ \A i, j \in 1..Len(t) : i < j /\ IsAnswer(t[i]) /\ IsAnswer(t[j]) => t[i].of < t[j].of
  /\ \A i \in 1..Len(s), j \in 1..Len(t) :
       IsAnswer(s[i]) /\ IsAnswer(t[j]) => s[i].of < t[j].of

Packets(n) == {Other, Bad} \union {Answer(i) : i \in 1..n}

PacketsInv ==
  /\ line \in Seq(Packets(asked)) /\ input \in Seq(Packets(asked))
  /\ InTurn(input, line, taken)

\* Every request is being waited for, has failed, or brought a sample of its own.
Open == IF waiting THEN 1 ELSE 0

CountInv ==
  /\ asked \in 0..MaxAsked /\ taken \in 0..asked /\ waiting \in BOOLEAN
  /\ failed \in Nat /\ failed + Open <= asked
  /\ asked - failed - Open <= taken

\* The samples collected are in order, and none is newer than the latest.
Rising(s, latest) ==
  /\ s \in Seq(Nat)
  /\ \A i \in 1..Len(s) : s[i] <= latest
  /\ \A i, j \in 1..Len(s) : i < j => s[i] < s[j]

CollectInv ==
  /\ buffer \in Seq(Nat) /\ batch \in Seq(Nat)
  /\ Rising(buffer \o batch, taken)
  /\ Len(buffer) <= Capacity
  /\ reader # "reading" => batch = <<>>

\* A packet that arrives goes to the end of those that came before.
LEMMA ArrivesInTurn ==
  ASSUME NEW P, NEW s \in Seq(P), NEW t \in Seq(P), t # <<>>, NEW n, InTurn(s, t, n)
  PROVE  /\ InTurn(Append(s, Head(t)), Tail(t), n)
         /\ Append(s, Head(t)) \in Seq(P) /\ Tail(t) \in Seq(P)
<1>1. /\ Tail(t) \in Seq(P) /\ Head(t) \in P /\ Head(t) = t[1]
      /\ Len(t) \in Nat /\ Len(t) >= 1 /\ Len(Tail(t)) = Len(t) - 1
      /\ \A i \in 1..Len(Tail(t)) : Tail(t)[i] = t[i + 1]
  BY HeadTailProperties, EmptySeq
<1>2. /\ Append(s, Head(t)) \in Seq(P) /\ Len(s) \in Nat
      /\ Len(Append(s, Head(t))) = Len(s) + 1
      /\ \A i \in 1..Len(s) : Append(s, Head(t))[i] = s[i]
      /\ Append(s, Head(t))[Len(s) + 1] = t[1]
  BY <1>1, AppendProperties
<1> DEFINE u == Append(s, Head(t))
           v == Tail(t)
<1>3. /\ \A i \in 1..Len(u) : i \in 1..Len(s) \/ i = Len(s) + 1
      /\ \A i \in 1..Len(v) : i + 1 \in 1..Len(t)
      /\ 1 \in 1..Len(t)
  BY <1>1, <1>2
<1> HIDE DEF u, v
<1>4. InTurn(u, v, n)
  BY <1>1, <1>2, <1>3 DEF InTurn, u, v
<1>5. QED
  BY <1>1, <1>2, <1>4 DEF u, v

\* When the first packet is gone the others are in turn, also behind its answer.
LEMMA HeadGone ==
  ASSUME NEW P, NEW s \in Seq(P), NEW t \in Seq(P), s # <<>>, NEW n, InTurn(s, t, n)
  PROVE  /\ Tail(s) \in Seq(P)
         /\ InTurn(Tail(s), t, n)
         /\ IsAnswer(Head(s)) => n < Head(s).of /\ InTurn(Tail(s), t, Head(s).of)
<1>1. /\ Tail(s) \in Seq(P) /\ Head(s) = s[1]
      /\ Len(s) \in Nat /\ Len(s) >= 1 /\ Len(Tail(s)) = Len(s) - 1
      /\ \A i \in 1..Len(Tail(s)) : Tail(s)[i] = s[i + 1]
  BY HeadTailProperties, EmptySeq
<1> DEFINE u == Tail(s)
<1>2. /\ \A i \in 1..Len(u) : i + 1 \in 1..Len(s) /\ 1 < i + 1
      /\ 1 \in 1..Len(s)
      /\ \A i, j \in 1..Len(u) : i < j => i + 1 < j + 1
  BY <1>1
<1> HIDE DEF u
<1>3. InTurn(u, t, n)
  BY <1>1, <1>2 DEF InTurn, u
<1>4. IsAnswer(s[1]) => n < s[1].of /\ InTurn(u, t, s[1].of)
  BY <1>1, <1>2 DEF InTurn, u
<1>5. QED
  BY Zenon, <1>1, <1>3, <1>4 DEF u

\* A sequence with one element put before it.
LEMMA OneBefore ==
  ASSUME NEW P, NEW e \in P, NEW s \in Seq(P)
  PROVE  /\ <<e>> \o s \in Seq(P) /\ Len(<<e>> \o s) = Len(s) + 1
         /\ (<<e>> \o s)[1] = e
         /\ \A i \in 1..Len(s) : (<<e>> \o s)[i + 1] = s[i]
  OBVIOUS

\* Throwing the input away, and the beginning of what is on the line, keeps the rest in
\* turn.
LEMMA ResetInTurn ==
  ASSUME NEW P, Bad \in P, NEW s \in Seq(P), NEW t \in Seq(P), NEW n, InTurn(s, t, n),
         NEW u, IF t = <<>> THEN u = t ELSE u \in {t, Tail(t), <<Bad>> \o Tail(t)}
  PROVE  u \in Seq(P) /\ <<>> \in Seq(P) /\ InTurn(<<>>, u, n)
<1>1. InTurn(<<>>, t, n)
  BY DEF InTurn
<1>2. ASSUME t # <<>>
      PROVE  /\ Tail(t) \in Seq(P) /\ Len(t) \in Nat /\ Len(Tail(t)) = Len(t) - 1
             /\ \A i \in 1..Len(Tail(t)) : i + 1 \in 1..Len(t) /\ Tail(t)[i] = t[i + 1]
  BY <1>2, HeadTailProperties
<1>3. CASE t # <<>> /\ u = Tail(t)
  <2>1. \A i, j \in 1..Len(u) : i < j => i + 1 < j + 1
    BY <1>2, <1>3
  <2>2. InTurn(<<>>, u, n)
    BY <1>1, <1>2, <1>3, <2>1 DEF InTurn
  <2>3. QED
    BY <1>2, <1>3, <2>2
<1>4. CASE t # <<>> /\ u = <<Bad>> \o Tail(t)
  <2>1. /\ u \in Seq(P) /\ Len(u) = Len(Tail(t)) + 1 /\ u[1] = Bad
        /\ \A i \in 1..Len(Tail(t)) : u[i + 1] = Tail(t)[i]
    BY <1>2, <1>4, OneBefore
  <2>2. \A i \in 1..Len(u) : i \in 1..Len(t) /\ (u[i] = Bad \/ u[i] = t[i])
    <3>1. TAKE i \in 1..Len(u)
    <3>2. CASE i = 1
      BY <1>2, <1>4, <2>1, <3>2
    <3>3. CASE i > 1
      <4>1. i - 1 \in 1..Len(Tail(t)) /\ (i - 1) + 1 = i /\ i \in 1..Len(t)
        BY <1>2, <1>4, <2>1, <3>3
      <4>2. u[(i - 1) + 1] = Tail(t)[i - 1] /\ Tail(t)[i - 1] = t[(i - 1) + 1]
        BY Zenon, <1>2, <1>4, <2>1, <4>1
      <4>3. QED
        BY Zenon, <4>1, <4>2
    <3>4. QED
      BY <3>2, <3>3
  <2>3. ~IsAnswer(Bad)
    BY DEF Bad, IsAnswer
  <2>4. InTurn(<<>>, u, n)
    BY <1>1, <2>2, <2>3 DEF InTurn
  <2>5. QED
    BY <2>1, <2>4
<1>5. QED
  BY <1>1, <1>3, <1>4

\* What the controller says to a new request comes after all else.
LEMMA ReplyInTurn ==
  ASSUME NEW m \in Nat, NEW s \in Seq(Packets(m)), NEW t \in Seq(Packets(m)),
         NEW n \in 0..m, InTurn(s, t, n), NEW r \in Replies(m + 1)
  PROVE  /\ s \in Seq(Packets(m + 1)) /\ t \o r \in Seq(Packets(m + 1))
         /\ InTurn(s, t \o r, n)
<1> DEFINE a == Answer(m + 1)
<1>1. /\ \A p \in Packets(m) : IsAnswer(p) => p.of < m + 1
      /\ Packets(m) \subseteq Packets(m + 1)
      /\ {Other, Bad, a} \subseteq Packets(m + 1)
      /\ IsAnswer(a) /\ a.of = m + 1 /\ ~IsAnswer(Bad) /\ ~IsAnswer(Other)
  BY DEF Packets, IsAnswer, Answer, Other, Bad
<1> HIDE DEF a
<1>2. s \in Seq(Packets(m + 1)) /\ t \in Seq(Packets(m + 1))
  BY <1>1, SeqMonotonic
<1>3. r \in {<<>>, <<a>>, <<Bad>>, <<Other, a>>}
  BY DEF Replies, a
<1>4. /\ r \in Seq(Packets(m + 1))
      /\ \A i \in 1..Len(r) : IsAnswer(r[i]) => i = Len(r) /\ r[i].of = m + 1
  <2>1. CASE r = <<>>
    BY <2>1
  <2>2. CASE r = <<a>>
    BY <1>1, <2>2
  <2>3. CASE r = <<Bad>>
    BY <1>1, <2>3
  <2>4. CASE r = <<Other, a>>
    BY <1>1, <2>4
  <2>5. QED
    BY <1>3, <2>1, <2>2, <2>3, <2>4
<1>5. /\ t \o r \in Seq(Packets(m + 1)) /\ Len(t \o r) = Len(t) + Len(r)
      /\ \A i \in 1..Len(t) + Len(r) :
           (t \o r)[i] = IF i <= Len(t) THEN t[i] ELSE r[i - Len(t)]
  BY <1>2, <1>4, ConcatProperties
<1>6. Len(t) \in Nat /\ Len(r) \in Nat
  BY <1>4
<1> DEFINE u == t \o r
<1>7. \A i \in 1..Len(u) :
        \/ i \in 1..Len(t) /\ u[i] = t[i]
        \/ i > Len(t) /\ (IsAnswer(u[i]) => i = Len(u) /\ u[i].of = m + 1)
  <2>1. SUFFICES ASSUME NEW i \in 1..Len(u), ~(i <= Len(t))
                 PROVE  i > Len(t) /\ (IsAnswer(u[i]) => i = Len(u) /\ u[i].of = m + 1)
    BY <1>5, <1>6
  <2>2. i - Len(t) \in 1..Len(r) /\ u[i] = r[i - Len(t)] /\ i > Len(t)
    BY <1>5, <1>6, <2>1
  <2>3. QED
    BY <1>4, <1>5, <1>6, <2>2
<1>8. /\ \A i \in 1..Len(t) : t[i] \in Packets(m)
      /\ \A i \in 1..Len(s) : s[i] \in Packets(m)
  BY ElementOfSeq
<1> HIDE DEF u
<1>9. InTurn(s, u, n)
  <2>1. \A i \in 1..Len(u) : IsAnswer(u[i]) => n < u[i].of
    BY <1>7 DEF InTurn
  <2>2. \A i, j \in 1..Len(u) : i < j /\ IsAnswer(u[i]) /\ IsAnswer(u[j]) => u[i].of < u[j].of
    BY <1>1, <1>6, <1>7, <1>8 DEF InTurn
  <2>3. \A i \in 1..Len(s), j \in 1..Len(u) :
          IsAnswer(s[i]) /\ IsAnswer(u[j]) => s[i].of < u[j].of
    BY <1>1, <1>7, <1>8 DEF InTurn
  <2>4. QED
    BY <2>1, <2>2, <2>3 DEF InTurn
<1>10. QED
  BY <1>2, <1>5, <1>9 DEF u

\* A newer sample goes to the end of those collected.
LEMMA RisingAppends ==
  ASSUME NEW s, NEW m \in Nat, NEW n \in Nat, Rising(s, m), m < n
  PROVE  Rising(Append(s, n), n)
<1> DEFINE u == Append(s, n)
<1>1. /\ u \in Seq(Nat) /\ Len(s) \in Nat /\ Len(u) = Len(s) + 1
      /\ \A i \in 1..Len(s) : u[i] = s[i] /\ s[i] \in Nat
      /\ u[Len(s) + 1] = n
  BY AppendProperties, ElementOfSeq DEF Rising
<1>2. \A i \in 1..Len(u) : (i \in 1..Len(s) /\ u[i] = s[i]) \/ (i = Len(u) /\ u[i] = n)
  BY <1>1
<1> HIDE DEF u
<1>3. \A i \in 1..Len(s) : s[i] <= n /\ s[i] < n
  BY <1>1 DEF Rising
<1>4. ASSUME NEW i \in 1..Len(u)
      PROVE  u[i] <= n
  <2>1. CASE i \in 1..Len(s) /\ u[i] = s[i]
    BY <1>3, <2>1
  <2>2. CASE u[i] = n
    BY <2>2
  <2>3. QED
    BY <1>2, <2>1, <2>2
<1>5. ASSUME NEW i \in 1..Len(u), NEW j \in 1..Len(u), i < j
      PROVE  u[i] < u[j]
  <2>1. i \in 1..Len(s) /\ u[i] = s[i]
    BY <1>1, <1>2, <1>5
  <2>2. CASE j \in 1..Len(s) /\ u[j] = s[j]
    BY <1>5, <2>1, <2>2 DEF Rising
  <2>3. CASE u[j] = n
    BY <1>3, <2>1, <2>3
  <2>4. QED
    BY <1>2, <2>2, <2>3
<1>6. QED
  BY <1>1, <1>4, <1>5 DEF Rising, u

\* The samples collected are as old or older than a later one.
LEMMA RisingLater ==
  ASSUME NEW s, NEW m \in Nat, NEW n \in Nat, Rising(s, m), m <= n
  PROVE  Rising(s, n)
<1>1. ASSUME NEW i \in 1..Len(s) PROVE s[i] <= n
  <2>1. s[i] \in Nat /\ s[i] <= m
    BY ElementOfSeq DEF Rising
  <2>2. QED
    BY <2>1
<1>2. QED
  BY <1>1 DEF Rising

\* The newest of the samples are in order as all of them are.
LEMMA RisingNewest ==
  ASSUME NEW s, NEW m \in Nat, Rising(s, m), Len(s) > Capacity
  PROVE  Rising(Newest(s), m) /\ Len(Newest(s)) <= Capacity
<1> DEFINE u == Newest(s)
           d == Len(s) - Capacity
<1>1. s \in Seq(Nat) /\ Len(s) \in Nat /\ Capacity \in Nat /\ d \in Nat
  BY PollingAssumption DEF Rising
<1>2. \A i \in d + 1..Len(s) : s[i] \in Nat
  BY <1>1
<1>3. /\ u \in Seq(Nat) /\ Len(u) = Capacity
      /\ \A i \in 1..Capacity : u[i] = s[d + i]
  <2>1. u = SubSeq(s, d + 1, Len(s)) /\ d + 1 \in Int
    BY <1>1 DEF Newest
  <2>2. /\ u \in Seq(Nat)
        /\ Len(u) = IF d + 1 <= Len(s) THEN Len(s) - (d + 1) + 1 ELSE 0
        /\ \A i \in 1..Len(s) - (d + 1) + 1 : u[i] = s[(d + 1) + i - 1]
    BY <1>1, <1>2, <2>1, SubSeqProperties
  <2>3. /\ Len(s) - (d + 1) + 1 = Capacity
        /\ d + 1 <= Len(s) \/ Capacity = 0
        /\ \A i \in 1..Capacity : (d + 1) + i - 1 = d + i
    BY <1>1
  <2>4. QED
    BY <1>1, <2>2, <2>3
<1> HIDE DEF u
<1>4. \A i \in 1..Capacity : d + i \in 1..Len(s)
  BY <1>1
<1>5. \A i, j \in 1..Capacity : i < j => d + i < d + j
  BY <1>1
<1> HIDE DEF d
<1>6. /\ \A i \in 1..Len(u) : u[i] <= m
      /\ \A i, j \in 1..Len(u) : i < j => u[i] < u[j]
  BY <1>3, <1>4, <1>5 DEF Rising
<1>7. Len(u) <= Capacity
  BY <1>1, <1>3
<1>8. QED
  BY <1>3, <1>6, <1>7 DEF Rising, u

\* When those before them have been drained, the others are in order.
LEMMA RisingRest ==
  ASSUME NEW s \in Seq(Nat), NEW t \in Seq(Nat), NEW m \in Nat, Rising(s \o t, m)
  PROVE  Rising(t, m)
<1> DEFINE u == s \o t
<1>1. /\ Len(u) = Len(s) + Len(t) /\ Len(s) \in Nat /\ Len(t) \in Nat
      /\ \A i \in 1..Len(s) + Len(t) : u[i] = IF i <= Len(s) THEN s[i] ELSE t[i - Len(s)]
  BY ConcatProperties
<1>2. \A i \in 1..Len(t) : Len(s) + i \in 1..Len(u) /\ t[i] = u[Len(s) + i]
  <2>1. TAKE i \in 1..Len(t)
  <2>2. /\ Len(s) + i \in 1..Len(s) + Len(t) /\ ~(Len(s) + i <= Len(s))
        /\ (Len(s) + i) - Len(s) = i
    BY <1>1
  <2>3. QED
    BY <1>1, <2>2
<1>3. \A i, j \in 1..Len(t) : i < j => Len(s) + i < Len(s) + j
  BY <1>1
<1> HIDE DEF u
<1>4. Rising(u, m)
  BY DEF u
<1>5. QED
  BY <1>2, <1>3, <1>4 DEF Rising

\* Flushing a batch behind what is buffered, which keeps the newest.
LEMMA FlushRises ==
  ASSUME NEW s \in Seq(Nat), NEW m \in Nat, buffer \in Seq(Nat), Rising(buffer \o s, m),
         AppendMany(s)
  PROVE  buffer' \in Seq(Nat) /\ Rising(buffer' \o <<>>, m) /\ Len(buffer') <= Capacity
<1>1. Rising(buffer', m) /\ Len(buffer') <= Capacity
  <2>1. CASE Len(buffer \o s) > Capacity
    BY <2>1, RisingNewest DEF AppendMany
  <2>2. CASE ~(Len(buffer \o s) > Capacity)
    <3>1. buffer' = buffer \o s /\ Len(buffer \o s) \in Nat /\ Capacity \in Nat
      BY <2>2, PollingAssumption DEF AppendMany, Rising
    <3>2. QED
      BY <2>2, <3>1
  <2>3. QED
    BY <2>1, <2>2
<1>2. buffer' \in Seq(Nat) /\ buffer' \o <<>> = buffer'
  BY <1>1, ConcatEmptySeq DEF Rising
<1>3. QED
  BY <1>1, <1>2

-----------------------------------------------------------------------------
(* Polling, action by action.                                              *)

PollingInv == PacketsInv /\ CountInv /\ CollectInv

\* A request, and packets that come.
LEMMA RequestKeeps ==
  ASSUME PollingInv, Request \/ Arrives
  PROVE  PollingInv'
<1>1. UNCHANGED <<reader, failed, taken, batch, buffer>>
  BY DEF Request, Arrives, readers
<1>2. CollectInv'
  BY <1>1 DEF PollingInv, CollectInv, Rising
<1>3. CASE Request
  <2>1. /\ asked' = asked + 1 /\ waiting' = TRUE /\ ~waiting /\ asked < MaxAsked
        /\ UNCHANGED input
        /\ \E r \in Replies(asked + 1) : line' = line \o r
    BY <1>3 DEF Request
  <2>2. asked \in Nat /\ taken \in 0..asked
    BY PollingAssumption DEF PollingInv, CountInv
  <2>3. PacketsInv'
    <3>1. PICK r \in Replies(asked + 1) : line' = line \o r
      BY <2>1
    <3>2. QED
      BY <1>1, <2>1, <2>2, <3>1, ReplyInTurn DEF PollingInv, PacketsInv
  <2>4. waiting' /\ waiting' \in BOOLEAN
    BY Zenon, <2>1
  <2>5. CountInv'
    BY <1>1, <2>1, <2>2, <2>4, PollingAssumption DEF PollingInv, CountInv, Open
  <2>6. QED
    BY <1>2, <2>3, <2>5 DEF PollingInv
<1>4. CASE Arrives
  <2>1. /\ UNCHANGED <<asked, waiting>> /\ line # <<>>
        /\ input' = Append(input, Head(line)) /\ line' = Tail(line)
    BY <1>4 DEF Arrives
  <2>2. PacketsInv'
    BY <1>1, <2>1, ArrivesInTurn DEF PollingInv, PacketsInv
  <2>3. CountInv'
    BY <1>1, <2>1 DEF PollingInv, CountInv, Open
  <2>4. QED
    BY <1>2, <2>2, <2>3 DEF PollingInv
<1>5. QED
  BY <1>3, <1>4

\* A read that brings nothing: a packet that is skipped, damage, a deadline, an answer
\* without what is wanted.
LEMMA FailureKeeps ==
  ASSUME PollingInv,
         \/ Skips \/ Rejects \/ TimesOut
         \/ \E n \in 1..asked : TakesNone(n)
  PROVE  PollingInv'
<1>1. UNCHANGED <<reader, asked, taken, batch, buffer>> /\ waiting
  BY DEF Skips, Rejects, TimesOut, TakesNone, TakesPacket, GivesUp, Read, readers
<1>2. CollectInv'
  BY <1>1 DEF PollingInv, CollectInv, Rising
<1>3. PacketsInv'
  <2>1. CASE input # <<>> /\ input' = Tail(input) /\ UNCHANGED line
    BY <1>1, <2>1, HeadGone DEF PollingInv, PacketsInv
  <2>2. CASE ResetInputBuffer
    <3>1. Bad \in Packets(asked)
      BY DEF Packets
    <3>2. /\ input' = <<>>
          /\ IF line = <<>> THEN line' = line
                            ELSE line' \in {line, Tail(line), <<Bad>> \o Tail(line)}
      BY <2>2 DEF ResetInputBuffer
    <3>3. /\ line' \in Seq(Packets(asked)) /\ <<>> \in Seq(Packets(asked))
          /\ InTurn(<<>>, line', taken)
      BY <3>1, <3>2, ResetInTurn DEF PollingInv, PacketsInv
    <3>4. QED
      BY <1>1, <3>2, <3>3 DEF PacketsInv
  <2>3. QED
    BY <2>1, <2>2 DEF Skips, Rejects, TimesOut, TakesNone, TakesPacket, GivesUp
<1>4. CountInv'
  <2>1. CASE UNCHANGED <<waiting, failed>>
    BY <1>1, <2>1 DEF PollingInv, CountInv, Open
  <2>2. CASE waiting' = FALSE /\ failed' = failed + 1
    <3>1. ~waiting' /\ waiting' \in BOOLEAN
      BY Zenon, <2>2
    <3>2. QED
      BY <1>1, <2>2, <3>1 DEF PollingInv, CountInv, Open
  <2>3. QED
    BY <2>1, <2>2 DEF Skips, Rejects, TimesOut, TakesNone, TakesPacket, GivesUp
<1>5. QED
  BY <1>2, <1>3, <1>4 DEF PollingInv

\* An answer that is shown, or collected.
LEMMA SampleKeeps ==
  ASSUME PollingInv, NEW n \in 1..asked, ShowsAnswer(n) \/ CollectsAnswer(n)
  PROVE  PollingInv'
<1>1. /\ UNCHANGED <<program, step, reader, port, asked, line, failed>>
      /\ waiting /\ waiting' = FALSE /\ taken' = n
      /\ input # <<>> /\ Head(input) = Answer(n) /\ input' = Tail(input)
  BY DEF ShowsAnswer, CollectsAnswer, TakesPacket, Read, readers, cli
<1>2. PacketsInv' /\ taken < n
  <2>1. IsAnswer(Head(input)) /\ Head(input).of = n
    BY <1>1 DEF IsAnswer, Answer
  <2>2. Tail(input) \in Seq(Packets(asked)) /\ InTurn(Tail(input), line, n) /\ taken < n
    BY <1>1, <2>1, HeadGone DEF PollingInv, PacketsInv
  <2>3. QED
    BY <1>1, <2>2 DEF PollingInv, PacketsInv
<1>3. /\ asked \in Nat /\ taken \in Nat /\ n \in Nat
  BY PollingAssumption DEF PollingInv, CountInv
<1>4. CountInv'
  <2>1. ~waiting' /\ waiting' \in BOOLEAN
    BY Zenon, <1>1
  <2>2. QED
    BY <1>1, <1>2, <1>3, <2>1 DEF PollingInv, CountInv, Open
<1>5. CollectInv'
  <2>1. CASE ShowsAnswer(n)
    <3>1. UNCHANGED <<batch, buffer>>
      BY <2>1 DEF ShowsAnswer
    <3>2. Rising(buffer \o batch, n)
      BY <1>2, <1>3, RisingLater DEF PollingInv, CollectInv
    <3>3. QED
      BY <1>1, <3>1, <3>2 DEF PollingInv, CollectInv
  <2>2. CASE CollectsAnswer(n)
    <3>1. reader' = "reading"
      BY <1>1, <2>2 DEF CollectsAnswer, TakesPacket, Read, Polling
    <3>2. /\ Append(batch, n) \in Seq(Nat)
          /\ Append(buffer \o batch, n) = buffer \o Append(batch, n)
      <4>1. /\ buffer \in Seq(Nat) /\ batch \in Seq(Nat) /\ buffer \o batch \in Seq(Nat)
            /\ <<n>> \in Seq(Nat)
        BY <1>3 DEF PollingInv, CollectInv, Rising
      <4>2. /\ Append(batch, n) = batch \o <<n>> /\ Append(batch, n) \in Seq(Nat)
            /\ Append(buffer \o batch, n) = (buffer \o batch) \o <<n>>
        BY <1>3, <4>1, AppendIsConcat, AppendProperties
      <4>3. (buffer \o batch) \o <<n>> = buffer \o (batch \o <<n>>)
        BY <4>1, ConcatAssociative
      <4>4. QED
        BY Zenon, <4>2, <4>3
    <3>3. Rising(buffer \o Append(batch, n), n)
      BY <1>2, <1>3, <3>2, RisingAppends DEF PollingInv, CollectInv
    <3>4. CASE batch' = Append(batch, n) /\ UNCHANGED buffer
      BY <1>1, <3>1, <3>2, <3>3, <3>4 DEF PollingInv, CollectInv
    <3>5. CASE AppendMany(Append(batch, n)) /\ batch' = <<>>
      <4>1. buffer' \in Seq(Nat) /\ Rising(buffer' \o <<>>, n) /\ Len(buffer') <= Capacity
        BY <1>3, <3>2, <3>3, <3>5, FlushRises DEF PollingInv, CollectInv
      <4>2. <<>> \in Seq(Nat)
        OBVIOUS
      <4>3. QED
        BY <1>1, <3>5, <4>1, <4>2 DEF CollectInv
    <3>6. QED
      BY <2>2, <3>4, <3>5 DEF CollectsAnswer
  <2>3. QED
    BY <2>1, <2>2
<1>6. QED
  BY <1>2, <1>4, <1>5 DEF PollingInv

\* The window drains the buffer, and a reader that leaves its loop flushes its batch.
LEMMA BufferKeeps ==
  ASSUME PollingInv, DrainBuffer \/ LeavesPolling
  PROVE  PollingInv'
<1>1. UNCHANGED <<asked, waiting, line, input, failed, taken>>
  BY DEF DrainBuffer, LeavesPolling
<1>2. PacketsInv' /\ CountInv'
  BY <1>1 DEF PollingInv, PacketsInv, CountInv, Open
<1>3. taken \in Nat /\ <<>> \in Seq(Nat) /\ Capacity \in Nat
  BY PollingAssumption DEF PollingInv, CountInv
<1>4. CollectInv'
  <2>1. CASE DrainBuffer
    <3>1. buffer' = <<>> /\ UNCHANGED <<batch, reader>>
      BY <2>1 DEF DrainBuffer, readers
    <3>2. Rising(batch, taken) /\ <<>> \o batch = batch
      BY <1>3, RisingRest, ConcatEmptySeq DEF PollingInv, CollectInv
    <3>3. Len(<<>>) <= Capacity
      BY <1>3
    <3>4. QED
      BY <1>1, <1>3, <3>1, <3>2, <3>3 DEF PollingInv, CollectInv
  <2>2. CASE LeavesPolling
    <3>1. AppendMany(batch) /\ batch' = <<>>
      BY <2>2 DEF LeavesPolling
    <3>2. buffer' \in Seq(Nat) /\ Rising(buffer' \o <<>>, taken) /\ Len(buffer') <= Capacity
      BY <1>3, <3>1, FlushRises DEF PollingInv, CollectInv
    <3>3. QED
      BY <1>1, <1>3, <3>1, <3>2 DEF CollectInv
  <2>3. QED
    BY <2>1, <2>2
<1>5. QED
  BY <1>2, <1>4 DEF PollingInv

\* Only in its loop does a reader begin to read, and there it is left by LeavesPolling.
LEMMA ReadingIsLeft ==
  ASSUME NextReaders, reader = "reading"
  PROVE  reader' = "reading"
  BY DEF NextReaders, LoopOpens, LoopEnds, DebugOpens, DebugListens, DebugCloses,
         ReaderOpens, ReaderLooks, ReaderCloses, ReadRate, RateRead, Show, CloseView,
         ChooseRate, Joins, StopLooks, StopCloses, WriteRate, RateWritten, Restart,
         StartupStands, StartupFails, Stop, Starts, Alive, readers

\* Every step of the composition keeps the order and the count of packets and samples.
LEMMA PollingInductive == PollingInv /\ [Next]_vars => PollingInv'
<1> SUFFICES ASSUME PollingInv, [Next]_vars PROVE PollingInv'
  OBVIOUS
<1>1. CASE UNCHANGED polling /\ (reader = "reading" => reader' = "reading")
  <2>1. UNCHANGED <<asked, waiting, line, input, failed, taken, batch, buffer>>
    BY <1>1 DEF polling
  <2>2. PacketsInv' /\ CountInv'
    BY <2>1 DEF PollingInv, PacketsInv, CountInv, Open
  <2>3. CollectInv'
    BY <1>1, <2>1 DEF PollingInv, CollectInv
  <2>4. QED
    BY <2>2, <2>3 DEF PollingInv
<1>2. CASE /\ asked' = 0 /\ waiting' = FALSE /\ line' = <<>> /\ input' = <<>>
           /\ failed' = 0 /\ taken' = 0 /\ batch' = <<>> /\ buffer' = <<>>
  <2>1. PacketsInv'
    BY <1>2 DEF PacketsInv, InTurn
  <2>2. ~waiting' /\ waiting' \in BOOLEAN
    BY Zenon, <1>2
  <2>3. CountInv'
    BY <1>2, <2>2, PollingAssumption DEF CountInv, Open
  <2>4. <<>> \in Seq(Nat) /\ <<>> \o <<>> = <<>> /\ Rising(<<>>, 0) /\ Len(<<>>) <= Capacity
    BY PollingAssumption, ConcatEmptySeq DEF Rising
  <2>5. CollectInv'
    BY <1>2, <2>4 DEF CollectInv
  <2>6. QED
    BY <2>1, <2>3, <2>5 DEF PollingInv
<1>3. CASE NextPolling
  BY <1>3, RequestKeeps, FailureKeeps, SampleKeeps, BufferKeeps DEF NextPolling
<1>4. CASE NextLive /\ UNCHANGED polling
  <2>1. UNCHANGED reader
    BY <1>4 DEF NextLive, NextPoller, NextPlot, Polls, Put, Mark, Notify, Wait, Register,
                Deliver, Drain, DrainBegins, Takes, DrainEnds, ClosePlot, Connect, Firmware,
                LeavePlot, readers
  <2>2. QED
    BY <1>1, <1>4, <2>1
<1>5. QED
  BY <1>1, <1>2, <1>3, <1>4, ReadingIsLeft DEF Next, vars, readers

\* The three parts together.
LEMMA Inductive == Control /\ PlotInv /\ PollingInv /\ [Next]_vars
                     => Control' /\ PlotInv' /\ PollingInv'
  BY ControlInductive, PlotInductive, PollingInductive

\* No plot runs, and its queue is empty.
LEMMA PlotInitially == Init => PlotInv
<1> SUFFICES ASSUME Init PROVE PlotInv
  OBVIOUS
<1>1. ~callback /\ callback \in BOOLEAN /\ pending \in BOOLEAN
  BY Zenon DEF Init, InitLive
<1>2. QED
  BY <1>1, QueueAssumption DEF Init, InitLive, PlotInv, Told, Due

\* Nothing was asked, and no packet is on its way.
LEMMA PollingInitially == Init => PollingInv
<1> SUFFICES ASSUME Init PROVE PollingInv
  OBVIOUS
<1>1. ~waiting /\ waiting \in BOOLEAN
  BY Zenon DEF Init, InitPolling
<1>2. PacketsInv /\ CountInv
  BY <1>1, PollingAssumption DEF Init, InitPolling, PacketsInv, InTurn, CountInv, Open
<1>3. <<>> \in Seq(Nat) /\ <<>> \o <<>> = <<>> /\ Rising(<<>>, 0) /\ Len(<<>>) <= Capacity
  BY PollingAssumption, ConcatEmptySeq DEF Rising
<1>4. CollectInv
  BY <1>3 DEF Init, InitPolling, CollectInv
<1>5. QED
  BY <1>2, <1>4 DEF PollingInv

\* What the variables are, as the parts of the invariant bound them: in particular, no
\* more than two signals wait for the event loop.
LEMMA InvTypes == Control /\ PlotInv /\ PollingInv => TypeOK
<1> SUFFICES ASSUME Control, PlotInv, PollingInv PROVE TypeOK
  OBVIOUS
<1>1. {port, done, pending, callback} \subseteq BOOLEAN
  BY Zenon DEF Control, ControlTypes, PlotInv
<1>2. signals \in 0..2
  BY DEF PlotInv, Told, Due
<1>3. {asked, failed, taken} \subseteq 0..MaxAsked /\ waiting \in BOOLEAN
  BY PollingAssumption DEF PollingInv, CountInv, Open
<1>4. \A s \in {line, input} : \A i \in DOMAIN s :
        s[i] \in {Other, Bad} \union {Answer(n) : n \in 1..MaxAsked}
  <2>1. Packets(asked) \subseteq {Other, Bad} \union {Answer(n) : n \in 1..MaxAsked}
    BY PollingAssumption DEF Packets, PollingInv, CountInv
  <2>2. \A s \in Seq(Packets(asked)) : \A i \in DOMAIN s : s[i] \in Packets(asked)
    BY LenProperties, ElementOfSeq
  <2>3. QED
    BY <2>1, <2>2 DEF PollingInv, PacketsInv
<1>5. Len(buffer) <= Capacity
  BY DEF PollingInv, CollectInv
<1>6. QED
  BY <1>1, <1>2, <1>3, <1>4, <1>5
     DEF TypeOK, Control, ControlTypes, HeldTypes, TriesInv, PlotInv

\* Every variable has a value of its type, whichever programs are run one after the other.
THEOREM TypeCorrect == Spec => []TypeOK
<1>1. QED
  BY ControlInitially, PlotInitially, PollingInitially, Inductive, InvTypes, PTL DEF Spec

\* Whatever becomes of requests, answers and reads, and however the buffer overflows: a
\* sample is no more requests old than have failed, those on their way to the window are in
\* order and none is there twice, and the reader's thread leaves none behind.
THEOREM SamplesStayCurrent == Spec => []SamplesAreCurrent
<1>1. Control /\ PollingInv => SamplesAreCurrent
  <2> SUFFICES ASSUME Control, PollingInv PROVE SamplesAreCurrent
    OBVIOUS
  <2> DEFINE queued == buffer \o batch
  <2>1. ~waiting => asked - taken <= failed
    BY PollingAssumption DEF PollingInv, CountInv, Open
  <2>2. \A i \in 2..Len(queued) : queued[i - 1] < queued[i]
    <3>1. TAKE i \in 2..Len(queued)
    <3>2. i - 1 \in 1..Len(queued) /\ i \in 1..Len(queued) /\ i - 1 < i
      BY DEF PollingInv, CollectInv, Rising
    <3>3. QED
      BY <3>2 DEF PollingInv, CollectInv, Rising
  <2>3. ~Alive => batch = <<>>
    BY DEF PollingInv, CollectInv, Alive
  <2>4. QED
    BY <2>1, <2>2, <2>3 DEF SamplesAreCurrent
<1>2. QED
  BY <1>1, ControlInitially, PlotInitially, PollingInitially, Inductive, PTL DEF Spec
=============================================================================
