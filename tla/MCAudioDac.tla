----------------------------- MODULE MCAudioDac -----------------------------
(* Model-checking instances of AudioDac: see the MCAudioDac_*.cfg files.   *)
EXTENDS AudioDac
=============================================================================
