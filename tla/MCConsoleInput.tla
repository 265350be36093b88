--------------------------- MODULE MCConsoleInput ---------------------------
(* A small instance of ConsoleInput for TLC; the values are in the cfg files. *)
EXTENDS ConsoleInput
=============================================================================
