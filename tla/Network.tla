------------------------------ MODULE Network ------------------------------
(***************************************************************************)
(* The network (network/net.c, network/lgy98.c) as built for Linux: the    *)
(* emulator puts the packets of the guest into a ring that writer threads  *)
(* empty into the TAP device; reader threads put what arrives into the     *)
(* page ring of the NE2000, which the driver of the guest empties. No lock *)
(* protects the rings.                                                     *)
(*                                                                         *)
(* The packets to be sent are numbered in the order in which the ring      *)
(* takes them, those that arrive in the order in which the board accepts   *)
(* them. Of a packet that arrives only the pages count that it takes; the  *)
(* last one may be there for its checksum, which is never written.         *)
(*                                                                         *)
(* Not modelled: the data, errors of the device, the remote DMA and the    *)
(* bits of the interrupt status register; the filter for addresses refuses *)
(* any packet.                                                             *)
(***************************************************************************)
EXTENDS Integers, Sequences

CONSTANTS
  Slots,      \* NET_ARYLEN (128)
  Pages,      \* pages of the receive ring, from EN0_STARTPG to EN0_STOPPG
  MaxFrame,   \* pages that ne2000_buffer_full wants to be free (6)
  MaxPacket,  \* pages of the largest packet that is read from the device (65)
  MaxOpens,   \* bound: how often the device is opened
  MaxSend,    \* bound: packets that the guest sends
  MaxArrive   \* bound: packets that arrive

ASSUME NetworkAssumption ==
  /\ Slots \in Nat /\ Slots > 1
  /\ MaxFrame \in Nat \ {0} /\ Pages \in Nat /\ Pages > MaxFrame + 1
  /\ {MaxPacket, MaxOpens, MaxSend, MaxArrive} \subseteq Nat

Threads == 1 .. MaxOpens
Slot == 0 .. Slots - 1
Page == 0 .. Pages - 1

VARIABLES
  readpos, writepos,   \* np2net_membuf_readpos, np2net_membuf_writepos
  membuf,              \* the packet in each slot, 0 for none
  sent, wire,          \* how many packets were sent; those that were written
  wpc, wpos,           \* each writer: what is next, the position it has read
  handler,             \* np2net.recieve_packet: of np2net, lgy98, or neither
  opened,              \* how often the device was opened
  hThreadexit,         \* np2net_hThreadexit
  epc,                 \* what the emulator does next
  curpag, boundary,    \* the registers of the NE2000, from EN0_STARTPG
  started,             \* the driver has started the board
  mem,                 \* of each page: its packet, and the page of the next one
  arrived, unread,     \* how many packets arrived; those in the ring
  dnext,               \* the driver: the page after the packet it reads
  rpc, taking,         \* each reader: what is next, the packet it puts there
  clean                \* the board was started without a packet on its way, and
                       \* has since accepted none that the test of the room
                       \* was not made for

sending == <<readpos, writepos, membuf, sent, wire, wpc, wpos>>
receiving == <<curpag, boundary, started, mem, arrived, unread, dnext, rpc,
               taking, clean>>
control == <<handler, opened, hThreadexit>>
vars == <<sending, receiving, control, epc>>

Packets == [packet : 1 .. MaxArrive, first : Page, size : 1 .. Pages]
Nothing == [packet |-> 0, first |-> 0, size |-> 1]

TypeOK ==
  /\ readpos \in Slot /\ writepos \in Slot
  /\ membuf \in [Slot -> 0 .. MaxSend]
  /\ sent \in 0 .. MaxSend /\ wire \in Seq(0 .. MaxSend)
  /\ wpc \in [Threads -> {"none", "test", "look", "write", "load", "store",
                          "asleep", "done"}]
  /\ wpos \in [Threads -> Slot]
  /\ handler \in {"np2net", "neither", "lgy98"}
  /\ opened \in 0 .. MaxOpens
  /\ hThreadexit \in BOOLEAN
  /\ epc \in {"off", "reset", "bind", "run", "copy", "advance", "read", "end"}
  /\ curpag \in Page /\ boundary \in Page /\ dnext \in Page
  /\ started \in BOOLEAN
  /\ mem \in [Page -> [packet : 0 .. MaxArrive, next : Page]]
  /\ arrived \in 0 .. MaxArrive
  /\ unread \in Seq(Packets)
  /\ rpc \in [Threads -> {"none", "test", "read", "place", "store", "publish",
                          "done"}]
  /\ taking \in [Threads -> Packets \cup {Nothing}]
  /\ clean \in BOOLEAN

Init ==
  /\ readpos = 0 /\ writepos = 0
  /\ membuf = [s \in Slot |-> 0]
  /\ sent = 0 /\ wire = <<>>
  /\ wpc = [t \in Threads |-> "none"] /\ wpos = [t \in Threads |-> 0]
  /\ handler = "np2net" /\ opened = 0 /\ hThreadexit = FALSE
  /\ epc = "off"
  /\ curpag = 0 /\ boundary = 0 /\ started = FALSE
  /\ mem = [p \in Page |-> [packet |-> 0, next |-> 0]]
  /\ arrived = 0 /\ unread = <<>> /\ dnext = 0
  /\ rpc = [t \in Threads |-> "none"] /\ taking = [t \in Threads |-> Nothing]
  /\ clean = FALSE
-----------------------------------------------------------------------------
(* The emulator                                                             *)

(* pccore_reset, first np2net_reset: if the board is used, the device is    *)
(* opened and gets a reader and a writer of its own. Those of an earlier    *)
(* opening go on: np2net_hThreadE tells np2net_closeTAP of threads that     *)
(* run, but nothing sets it.                                                *)
np2net_reset ==
  /\ epc \in {"off", "run", "read"}
  /\ epc' = "reset"
  /\ \/ UNCHANGED <<opened, wpc, rpc>>
     \/ /\ opened < MaxOpens
        /\ opened' = opened + 1
        /\ wpc' = [wpc EXCEPT ![opened + 1] = "test"]
        /\ rpc' = [rpc EXCEPT ![opened + 1] = "test"]
  /\ UNCHANGED <<readpos, writepos, membuf, sent, wire, wpos, handler,
                 hThreadexit, curpag, boundary, started, mem, arrived, unread,
                 dnext, taking, clean>>

(* The registers and the pages are zero.                                    *)
lgy98_reset ==
  /\ epc = "reset"
  /\ epc' = "bind"
  /\ handler' = "neither"
  /\ curpag' = 0 /\ boundary' = 0 /\ started' = FALSE
  /\ mem' = [p \in Page |-> [packet |-> 0, next |-> 0]]
  /\ unread' = <<>> /\ dnext' = 0 /\ clean' = FALSE
  /\ UNCHANGED <<sending, opened, hThreadexit, arrived, rpc, taking>>

(* The board is used, or not.                                               *)
lgy98_bind ==
  /\ epc = "bind"
  /\ epc' = "run"
  /\ handler' \in {"neither", "lgy98"}
  /\ UNCHANGED <<sending, receiving, opened, hThreadexit>>

(* mutant: the last slot is used as well *)
LastSlotToo == FALSE

Full == readpos = (writepos + 1) % Slots

(* sendDataToBuffer: the test, the copy and the new position. The packet is *)
(* dropped if the ring is full.                                             *)
Send ==
  /\ epc = "run" /\ handler = "lgy98" /\ sent < MaxSend
  /\ ~Full
  /\ epc' = "copy"
  /\ UNCHANGED <<sending, receiving, control>>

Copy ==
  /\ epc = "copy"
  /\ epc' = "advance"
  /\ sent' = sent + 1
  /\ membuf' = [membuf EXCEPT ![writepos] = sent + 1]
  /\ UNCHANGED <<readpos, writepos, wire, wpc, wpos, receiving, control>>

Advance ==
  /\ epc = "advance"
  /\ epc' = "run"
  /\ writepos' = (writepos + 1) % Slots
  /\ UNCHANGED <<readpos, membuf, sent, wire, wpc, wpos, receiving, control>>

(* np2net_shutdown                                                          *)
np2net_shutdown ==
  /\ epc = "run"
  /\ epc' = "end"
  /\ hThreadexit' = TRUE
  /\ UNCHANGED <<sending, receiving, handler, opened>>
-----------------------------------------------------------------------------
(* np2net_ThreadFuncW                                                       *)

WriterStep(t, from, to) ==
  /\ wpc[t] = from
  /\ wpc' = [wpc EXCEPT ![t] = to]
  /\ UNCHANGED <<writepos, membuf, sent, receiving, control, epc>>

(* The conditions of the loop: the writer sleeps for 1000 s if the reset    *)
(* has not come to lgy98_reset.                                             *)
WriterTest(t) ==
  /\ WriterStep(t, "test", IF hThreadexit THEN "done"
                           ELSE IF handler = "np2net" THEN "asleep" ELSE "look")
  /\ UNCHANGED <<readpos, wire, wpos>>

WriterWakes(t) ==
  /\ WriterStep(t, "asleep", "test")
  /\ UNCHANGED <<readpos, wire, wpos>>

WriterLook(t) ==
  /\ WriterStep(t, "look", IF readpos # writepos THEN "write" ELSE "test")
  /\ UNCHANGED <<readpos, wire, wpos>>

(* doWriteTap                                                               *)
doWriteTap(t) ==
  /\ WriterStep(t, "write", "load")
  /\ wire' = Append(wire, membuf[readpos])
  /\ UNCHANGED <<readpos, wpos>>

WriterLoad(t) ==
  /\ WriterStep(t, "load", "store")
  /\ wpos' = [wpos EXCEPT ![t] = readpos]
  /\ UNCHANGED <<readpos, wire>>

WriterStore(t) ==
  /\ WriterStep(t, "store", "test")
  /\ readpos' = (wpos[t] + 1) % Slots
  /\ UNCHANGED <<wire, wpos>>

Writer(t) ==
  \/ WriterTest(t) \/ WriterWakes(t) \/ WriterLook(t)
  \/ doWriteTap(t) \/ WriterLoad(t) \/ WriterStore(t)
-----------------------------------------------------------------------------
(* np2net_ThreadFuncR                                                       *)

ReaderStep(t, from, to) ==
  /\ rpc[t] = from
  /\ rpc' = [rpc EXCEPT ![t] = to]
  /\ UNCHANGED <<sending, control, epc, boundary, started, dnext>>

ReaderTest(t) ==
  /\ ReaderStep(t, "test", IF hThreadexit THEN "done" ELSE "read")
  /\ UNCHANGED <<curpag, mem, arrived, unread, taking, clean>>

Available == IF curpag < boundary THEN boundary - curpag
             ELSE Pages - (curpag - boundary)

(* mutant: one page less is tested for *)
OnePageLess == Available < MaxFrame - 1

ne2000_buffer_full == Available < MaxFrame

Accepts == handler = "lgy98" /\ started /\ ~ne2000_buffer_full

Following(p, n) == IF p + n < Pages THEN p + n ELSE p + n - Pages
Taken(p, n) == {Following(p, i) : i \in 0 .. n - 1}
Header(k) == [packet |-> k.packet, next |-> Following(k.first, k.size)]

(* The test for giant packets compares the bytes with those of the ring but *)
(* one page, and forgets header and checksum: of the lengths that take as   *)
(* many pages as the ring has, it lets seven pass.                          *)
Giant(n) == n > Pages

(* ne2000_receive begins, and accepts a packet of n pages. (Only for the    *)
(* statement of UnreadKept: the test of the room asks for MaxFrame pages,   *)
(* and takes a ring that is filled to the last page for an empty one.)      *)
Arrive(t, n) ==
  /\ arrived < MaxArrive
  /\ Accepts /\ ~Giant(n)
  /\ ReaderStep(t, "read", "place")
  /\ arrived' = arrived + 1
  /\ taking' = [taking EXCEPT ![t] =
                  [packet |-> arrived + 1, first |-> 0, size |-> n]]
  /\ clean' = (clean /\ n <= MaxFrame /\ curpag # boundary)
  /\ UNCHANGED <<curpag, mem, unread>>

(* The board is stopped or full, or the packet giant or not addressed to it.*)
Ignored(t) ==
  /\ ReaderStep(t, "read", "test")
  /\ UNCHANGED <<curpag, mem, arrived, unread, taking, clean>>

(* It reads the page at which the packet starts.                            *)
Place(t) ==
  /\ ReaderStep(t, "place", "store")
  /\ taking' = [taking EXCEPT ![t].first = curpag]
  /\ UNCHANGED <<curpag, mem, arrived, unread, clean>>

(* The header and the data                                                  *)
Store(t) ==
  /\ ReaderStep(t, "store", "publish")
  /\ mem' = [p \in Page |-> IF p \in Taken(taking[t].first, taking[t].size)
                            THEN Header(taking[t]) ELSE mem[p]]
  /\ UNCHANGED <<curpag, arrived, unread, taking, clean>>

Publish(t) ==
  /\ ReaderStep(t, "publish", "test")
  /\ curpag' = Following(taking[t].first, taking[t].size)
  /\ unread' = Append(unread, taking[t])
  /\ UNCHANGED <<mem, arrived, taking, clean>>

Reader(t) ==
  \/ ReaderTest(t)
  \/ \E n \in 1 .. MaxPacket : Arrive(t, n)
  \/ Ignored(t) \/ Place(t) \/ Store(t) \/ Publish(t)
-----------------------------------------------------------------------------
(* The driver of the guest                                                  *)

(* It starts the board with an empty ring, the boundary one page behind it. *)
(* A reader may still be in ne2000_receive, with what it read before.       *)
DriverStart ==
  /\ epc = "run" /\ handler = "lgy98"
  /\ started' = TRUE
  /\ boundary' = 0 /\ curpag' = 1
  /\ unread' = <<>>
  /\ clean' = \A t \in Threads : rpc[t] \notin {"place", "store", "publish"}
  /\ UNCHANGED <<sending, control, epc, mem, arrived, dnext, rpc, taking>>

(* It follows the header of the first packet ...                            *)
DriverReads ==
  /\ epc = "run" /\ started
  /\ Following(boundary, 1) # curpag
  /\ epc' = "read"
  /\ dnext' = mem[Following(boundary, 1)].next
  /\ UNCHANGED <<sending, control, curpag, boundary, started, mem, arrived,
                 unread, rpc, taking, clean>>

(* ... and gives its pages back.                                            *)
DriverFrees ==
  /\ epc = "read"
  /\ epc' = "run"
  /\ boundary' = Following(dnext, Pages - 1)
  /\ unread' = IF unread = <<>> THEN unread ELSE Tail(unread)
  /\ UNCHANGED <<sending, control, curpag, started, mem, arrived, dnext, rpc,
                 taking, clean>>

Emulator ==
  \/ np2net_reset \/ lgy98_reset \/ lgy98_bind
  \/ Send \/ Copy \/ Advance
  \/ DriverStart \/ DriverReads \/ DriverFrees
  \/ np2net_shutdown

Next == Emulator \/ \E t \in Threads : Writer(t) \/ Reader(t)

Spec == Init /\ [][Next]_vars
-----------------------------------------------------------------------------
(* Properties                                                               *)

(* As long as the device has been opened once, every packet that the ring   *)
(* has taken is written once, in the order of the sending, and none that is *)
(* being overwritten. (A second writer breaks this.)                        *)
InOrder == opened <= 1 => \A i \in 1 .. Len(wire) : wire[i] = i

(* As long as the device has been opened once and the board was started     *)
(* while no packet was on its way: ne2000_receive overwrites no packet that *)
(* the driver has not given back, and the headers lead the driver from      *)
(* packet to packet, until ne2000_buffer_full lets in a packet that takes   *)
(* more pages than it asks for, or one while the ring is filled to the last *)
(* page. Then packets that were not read may be overwritten; there is no    *)
(* third way to that, however the driver gives pages back in between.       *)
UnreadKept ==
  opened <= 1 /\ clean =>
    \A i \in 1 .. Len(unread) :
      \A p \in Taken(unread[i].first, unread[i].size) :
        mem[p] = Header(unread[i])
=============================================================================
