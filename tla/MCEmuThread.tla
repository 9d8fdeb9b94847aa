---------------------------- MODULE MCEmuThread ----------------------------
(* TLC instances of EmuThread.                                              *)
EXTENDS EmuThread
=============================================================================
