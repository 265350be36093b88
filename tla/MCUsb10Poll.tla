---------------------------- MODULE MCUsb10Poll ----------------------------
(* A small instance of Usb10Poll for TLC; the values are in the cfg files.  *)
EXTENDS Usb10Poll
=============================================================================
