--------------------------- MODULE MCUsb10Control ---------------------------
(* A small instance of Usb10Control for TLC; the values are in the cfg.    *)
EXTENDS Usb10Control
=============================================================================
