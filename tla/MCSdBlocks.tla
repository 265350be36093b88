----------------------------- MODULE MCSdBlocks -----------------------------
(* A small instance of SdBlocks for TLC; the values are in the cfg.        *)
EXTENDS SdBlocks
=============================================================================
