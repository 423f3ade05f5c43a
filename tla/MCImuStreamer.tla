---------------------------- MODULE MCImuStreamer -----------------------------
(* TLC instance of ImuStreamer: three calls of start and any number of stops,    *)
(* over a serial port or BLE.                                                    *)
EXTENDS ImuStreamer
=============================================================================
