------------------------------ MODULE MCMuxClients ------------------------------
(* A plot that makes its handshake and one request more, or a retry, and   *)
(* an editor that makes its handshake: whatever gets between the plot's    *)
(* two requests is there.                                                  *)
EXTENDS MuxClients

Programs == {"plot", "editor"}
Requests == [c \in Programs |-> IF c = "plot" THEN 2 ELSE 1]
=============================================================================
