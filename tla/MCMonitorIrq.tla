---------------------------- MODULE MCMonitorIrq ----------------------------
(* A small instance of MonitorIrq for TLC; the values are in the cfg files. *)
EXTENDS MonitorIrq
=============================================================================
