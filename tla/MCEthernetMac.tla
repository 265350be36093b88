--------------------------- MODULE MCEthernetMac ---------------------------
(* A small instance of EthernetMac for TLC; the values are in the cfg file. *)
EXTENDS EthernetMac
=============================================================================
