----------------------------- MODULE MCModbusRtu ----------------------------
(* A small instance of ModbusRtu for TLC; the values are in the cfg files. *)
EXTENDS ModbusRtu
=============================================================================
