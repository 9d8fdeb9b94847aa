------------------------------ MODULE MCNEvent ------------------------------
(* TLC instances of NEvent: two devices beside the frame event, and clocks  *)
(* so short that events coincide and instructions overshoot them.           *)
EXTENDS NEvent
=============================================================================
