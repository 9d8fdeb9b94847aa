-------------------------------- MODULE MCFdc --------------------------------
(* A TLC instance of Fdc: the guest seeks, reads and writes on drive 0,     *)
(* while the user changes the disks of drive 1.                             *)
EXTENDS Fdc

BothChannels == {"2HD", "2DD"}
TwoDrives == {0, 1}
SomeExtents == {<<1, 0, 0>>, <<1, 1, 0>>, <<0, 0, 1>>}
ControlWrites == {{}, {"DMAE", "MOTOR", "RESET"}}
BothModes == {{"2HD"}, {"ATTN"}}
AllOrNone == {{}, {"2HD", "2DD"}}
First == {0}
Second == {1}

(* What the controller may still look at: neither the command, the head and *)
(* the count when nothing is in progress nor the status of a seek when its  *)
(* timer does not run.                                                      *)
Live ==
  <<lines, event, bufcnt, tc, rqm, dio, us, side, other, stat, int_timer,
    registers, interrupt, media,
    IF event \in {"NEUTRAL", "BUFSEND"} THEN "none" ELSE cmd,
    IF event \in Exec THEN <<hd, leng[Channel]>> ELSE <<>>,
    [d \in Drives |-> IF int_timer[d] > 0 THEN int_stat[d] ELSE "none"]>>
=============================================================================
