-------------------------------- MODULE MCPic --------------------------------
(* TLC instances of Pic: three lines on each controller, of which the       *)
(* timer, the vertical sync and some devices are used.                      *)
EXTENDS Pic

Pair(m, s) == [c \in Pics |-> IF c = "master" THEN m ELSE s]

MasksAtReset == Pair({0, 1}, {0})

(* all lines of the master, or the vertical sync alone *)
MasksWritten == Pair({{}, {0, 2}}, {{}})

OneDevice == {<<"slave", 1>>}
TimerAndTwo == {<<"master", 0>>, <<"slave", 0>>, <<"slave", 1>>}
=============================================================================
