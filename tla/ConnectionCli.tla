----------------------------- MODULE ConnectionCli -----------------------------
(***************************************************************************)
(* How the programs find and open their connection: connection_cli.py with *)
(* the file that remembers the last one, connection.py, and the probing of *)
(* discover_vescs.py.  One program runs at a time; the file outlives it.   *)
(*                                                                         *)
(* A serial port and a BLE link can be opened once.  An attempt that fails *)
(* may raise what its caller lists and, over BLE, what no caller does      *)
(* (RuntimeError, BleakError), which ends the program.                     *)
(***************************************************************************)
EXTENDS Integers, SequencesExt

VARIABLES program,      \* the program that runs
          step,         \* where it is
          conn,         \* the connection it is at: serial or ble
          left,         \* what discover_vescs has yet to probe
          cache,        \* the connection the file remembers
          held          \* what is open: pairs of a connection and who has it open

cli == <<program, step, conn, left, cache, held>>

Kinds    == {"serial", "ble"}
Programs == {"discover", "fast", "debug", "bench", "package", "plot"}

Goto(next) == step' = next

(* connect_client and open_blocking_io.                                    *)
Busy       == \E h \in held : h[1] = conn
Opens(who) == ~Busy /\ held' = held \union {<<conn, who>>}
Closes(who) == held' = held \ {<<conn, who>>}

(* BLE link lost to the program: BleTransport gives up a client that has   *)
(* connected when start_notify raises or the timeout runs out, and a       *)
(* handshake that fails raises before there is a VescClient to close.  A   *)
(* serial port is closed with its object then.                             *)
Lost == held' = held \union {<<"ble", "lost">>}

OpenFails      == UNCHANGED held \/ (conn = "ble" /\ ~Busy /\ Lost)
OpenRaises     == conn = "ble" /\ OpenFails
HandshakeFails ==
  IF conn = "ble"
  THEN held' = (held \ {<<conn, "client">>}) \union {<<conn, "lost">>}
  ELSE Closes("client")

(* _save_cached_connection, which ignores a file it cannot write.          *)
Saves(kind) == cache' \in {cache, kind}

--------------------------------------------------------------------------------
(* --serial-only and --ble-only of discover_vescs.py                       *)
Selected == {<<"serial">>, <<"ble">>, <<"serial", "ble">>}

Start(p) ==
  /\ program = "none"
  /\ program' = p
  /\ Goto(CASE p = "discover" -> "probe" [] p = "plot" -> "connect" [] OTHER -> "resolve")
  /\ IF p = "plot" THEN conn' \in {"ble", "tcp"} ELSE conn' = "none"
  /\ IF p = "discover" THEN left' \in Selected ELSE left' = <<>>
  /\ UNCHANGED <<cache, held>>

(* The end of a process closes what it has open.                           *)
End ==
  /\ step = "end"
  /\ program' = "none" /\ step' = "none" /\ conn' = "none" /\ left' = <<>>
  /\ held' = {}
  /\ UNCHANGED cache

(* run_vesc_connection_cli has a CAN target to find, the package programs  *)
(* have not.                                                               *)
Resolved == IF program \in {"fast", "bench"} THEN "can" ELSE "run"

Explicit ==
  /\ step = "resolve"
  /\ \E kind \in Kinds : conn' = kind /\ Saves(kind)
  /\ Goto(Resolved)
  /\ UNCHANGED <<program, left, held>>

LoadCached ==
  /\ step = "resolve" /\ cache # "none"
  /\ conn' = cache
  /\ Goto("check")
  /\ UNCHANGED <<program, left, cache, held>>

NoCached ==
  /\ step = "resolve"
  /\ Goto("discover")
  /\ UNCHANGED <<program, conn, left, cache, held>>

(* _can_connect *)
CheckOpens ==
  /\ step = "check"
  /\ \/ Opens("client") /\ Goto("checked")
     \/ OpenFails /\ Goto("discover")
     \/ OpenRaises /\ Goto("end")
  /\ UNCHANGED <<program, conn, left, cache>>

Checked ==
  /\ step = "checked"
  /\ \/ Closes("client") /\ Saves(conn) /\ Goto(Resolved)
     \/ HandshakeFails /\ Goto("discover") /\ UNCHANGED cache
  /\ UNCHANGED <<program, conn, left>>

(* list_serial_ports lists what is plugged in, open or not.                *)
SerialPorts == SUBSET {"serial"}

(* A device whose link is open does not advertise, and the radio may miss  *)
(* one that does.                                                          *)
Advertising == IF <<"ble", "lost">> \in held THEN {} ELSE {"ble"}
BleDevices  == SUBSET Advertising

(* discover_connection_candidates, to which a scan that raises is one that *)
(* found nothing, and the choice among the candidates.                     *)
Discover ==
  /\ step = "discover"
  /\ \E ports \in SerialPorts, devices \in BleDevices :
       LET found == ports \union devices IN
       \/ \E kind \in found : conn' = kind /\ Saves(kind) /\ Goto(Resolved)
       \/ Cardinality(found) # 1 /\ Goto("end") /\ UNCHANGED <<conn, cache>>
  /\ UNCHANGED <<program, left, held>>

(* _resolve_can_target: without --can-id it asks the controller, and falls *)
(* back to the controller itself.                                          *)
CanTarget ==
  /\ step = "can"
  /\ \/ UNCHANGED held /\ Goto("run")
     \/ Opens("client") /\ Goto("scan")
     \/ OpenFails /\ Goto("run")
     \/ OpenRaises /\ Goto("end")
  /\ UNCHANGED <<program, conn, left, cache>>

(* A mutant: the client is left open when the scan times out.              *)
ScanCanMutant ==
  /\ step = "scan"
  /\ \/ Closes("client") /\ step' \in {"run", "end"}
     \/ UNCHANGED held /\ Goto("run")
  /\ UNCHANGED <<program, conn, left, cache>>

ScanCan ==
  /\ step = "scan"
  /\ \/ Closes("client") /\ step' \in {"run", "end"}
     \/ HandshakeFails /\ Goto("run")
  /\ UNCHANGED <<program, conn, left, cache>>

(* _scan_serial_tree and _scan_ble_tree, which go on after a failure.      *)
ScanSerial ==
  /\ step = "probe" /\ left # <<>> /\ Head(left) = "serial"
  /\ \E ports \in SerialPorts : Goto(IF ports = {} THEN "probe" ELSE "open")
  /\ conn' = "serial" /\ left' = Tail(left)
  /\ UNCHANGED <<program, cache, held>>

ScanBle ==
  /\ step = "probe" /\ left # <<>> /\ Head(left) = "ble"
  /\ \E devices \in BleDevices : Goto(IF devices = {} THEN "probe" ELSE "open")
  /\ conn' = "ble" /\ left' = Tail(left)
  /\ UNCHANGED <<program, cache, held>>

Scanned ==
  /\ step = "probe" /\ left = <<>>
  /\ Goto("end")
  /\ UNCHANGED <<program, conn, left, cache, held>>

(* _probe_serial_port and _probe_ble_device                                *)
Probe ==
  /\ step = "open"
  /\ \/ Opens("client") /\ Goto("probed")
     \/ OpenFails /\ Goto("probe")
  /\ UNCHANGED <<program, conn, left, cache>>

Probed ==
  /\ step = "probed"
  /\ Closes("client") \/ HandshakeFails
  /\ Goto("probe")
  /\ UNCHANGED <<program, conn, left, cache>>

NextCli ==
  \/ \E p \in Programs : Start(p)
  \/ Explicit \/ LoadCached \/ NoCached \/ CheckOpens \/ Checked \/ Discover
  \/ CanTarget \/ ScanCan \/ ScanSerial \/ ScanBle \/ Scanned \/ Probe \/ Probed

InitCli ==
  /\ program = "none" /\ step = "none" /\ conn = "none" /\ left = <<>>
  /\ cache = "none" /\ held = {}
=============================================================================
