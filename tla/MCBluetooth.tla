---------------------------- MODULE MCBluetooth ----------------------------
(* Instances of Bluetooth for TLC.                                         *)
EXTENDS Bluetooth

CONSTANTS d1, d2
=============================================================================
