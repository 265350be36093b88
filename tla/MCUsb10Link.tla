---------------------------- MODULE MCUsb10Link ----------------------------
(* A small instance of Usb10Link for TLC; the values are in the cfg files. *)
EXTENDS Usb10Link
=============================================================================
