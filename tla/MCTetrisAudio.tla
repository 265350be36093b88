--------------------------- MODULE MCTetrisAudio ---------------------------
(* Model-checking instances of TetrisAudio.  The requests of AudioDac are  *)
(* not used here: the main loop computes its own.                          *)
EXTENDS TetrisAudio
=============================================================================
