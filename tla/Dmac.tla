-------------------------------- MODULE Dmac --------------------------------
(***************************************************************************)
(* The DMA controller (io/dmac.c, mem/dmax86.c) as one client sees it that *)
(* accepts every start, which the floppy controller does.                  *)
(*                                                                         *)
(* The registers mask, work and working and the ready lines are sets of    *)
(* channels. Not modelled: addresses, banks, bounds and directions, auto   *)
(* initialisation, which the emulator has not, and the bits of the status  *)
(* register that tell the guest of a terminal count.                       *)
(***************************************************************************)
EXTENDS Integers

CONSTANTS
  Channels,   \* the channels that are used
  Counts      \* number of values of a counter (65536)

ASSUME CountsAssumption == Counts \in Nat \ {0}

VARIABLES
  ready,      \* the device of the channel asks for transfers
  mask,       \* the guest forbids them
  work,       \* the channel has been started
  working,    \* it moves a byte with every instruction
  leng        \* bytes that are left after the next one

lines == <<ready, mask, work, working>>
dmac == <<lines, leng>>

DmacTypeOK ==
  /\ ready \subseteq Channels /\ mask \subseteq Channels
  /\ work \subseteq Channels /\ working \subseteq Channels
  /\ leng \in [Channels -> 0 .. Counts - 1]

DmacInit ==
  /\ ready = {} /\ mask = Channels /\ work = {} /\ working = {}
  /\ leng = [c \in Channels |-> 0]

dmac_reset ==
  /\ ready' = {} /\ mask' = Channels /\ work' = {} /\ working' = {}
  /\ leng' = [c \in Channels |-> 0]

(* mutant: a channel that breaks off is still taken for started             *)
Unfinished(m, r, w) ==
  /\ mask' = m
  /\ ready' = r
  /\ work' = work \cup (r \ m)
  /\ working' = (w \ (work \ (r \ m))) \cup ((r \ m) \ work)

(* dmac_check with new masks m and ready lines r, while the channels w move *)
(* bytes: what has become possible starts, what has become impossible       *)
(* breaks off.                                                              *)
dmac_check(m, r, w) ==
  /\ mask' = m
  /\ ready' = r
  /\ work' = r \ m
  /\ working' = (w \ (work \ (r \ m))) \cup ((r \ m) \ work)

(* dmac_o15, dmac_o1d and dmac_o1f                                          *)
WriteMask(m) ==
  /\ dmac_check(m, ready, working)
  /\ UNCHANGED leng

(* dmac_o1b masks all channels but does not look at the consequences.       *)
MasterClear ==
  /\ mask' = Channels
  /\ leng' = [c \in Channels |-> 0]
  /\ UNCHANGED <<ready, work, working>>

(* dmac_o03                                                                 *)
Program(c, n) == leng' = [leng EXCEPT ![c] = n]

(* dmax86 for one channel: the counter underflows at the terminal count,    *)
(* after which the last byte still moves.                                   *)
Terminal(c) == leng[c] = 0
StillWorking(c) == IF Terminal(c) THEN working \ {c} ELSE working
CountDown(c) == leng' = [leng EXCEPT ![c] = (@ + Counts - 1) % Counts]
=============================================================================
