------------------------------ MODULE Rs232c ------------------------------
(***************************************************************************)
(* The receiving half of the serial port (io/serial.c, built with its      *)
(* FIFO): the callback of the timer puts the bytes of the line into a ring *)
(* and offers the oldest; the guest reads them in an interrupt or polls.   *)
(*                                                                         *)
(* A byte is its number in the order in which it came from the line.       *)
(*                                                                         *)
(* Not modelled: the transmitter. Its interrupts are taken to be masked    *)
(* (bits 1 and 2 of sysport.c, as after a reset); then it shares nothing   *)
(* with the receiver.                                                      *)
(***************************************************************************)
EXTENDS Integers

CONSTANTS
  Size,        \* RS232C_BUFFER (64)
  Many,        \* RS232C_BUFFER * 3 / 4
  Expiry,      \* RS232C_BUFFER_CLRC (16)
  MaxBytes     \* bound: bytes that the line brings

ASSUME Rs232cAssumption ==
  /\ Size \in Nat /\ Size > 1
  /\ Many \in Nat
  /\ Expiry \in Nat /\ Expiry > 1
  /\ MaxBytes \in Nat

VARIABLES
  buf, rpos, wpos,   \* rs232c_buf, rs232c_buf_rpos, rs232c_buf_wpos
  removecounter,     \* rs232c_removecounter
  data,              \* rs232c.data
  rxrdy,             \* bit 1 of rs232c.result
  enabled,           \* bit 2 of rs232c.cmd
  rxre,              \* bit 0 of sysport.c
  port138,           \* bit 0 of rs232cfifo.port138: the FIFO mode
  irqflag,           \* rs232cfifo.irqflag
  irq,               \* IRQ 4 is requested
  guest,             \* what the guest does
  came, got          \* the last byte that came; the last that the guest read

vars == <<buf, rpos, wpos, removecounter, data, rxrdy, enabled, rxre, port138,
          irqflag, irq, guest, came, got>>

Position == 0 .. Size - 1

TypeOK ==
  /\ buf \in [Position -> 0 .. MaxBytes]
  /\ rpos \in Position /\ wpos \in Position
  /\ removecounter \in 0 .. Expiry - 1
  /\ data \in 0 .. MaxBytes
  /\ irqflag \in {0, 2, 3}
  /\ guest \in {"idle", "interrupted", "serving"}
  /\ came \in 0 .. MaxBytes /\ got \in 0 .. MaxBytes
  /\ {rxrdy, enabled, rxre, port138, irq} \subseteq BOOLEAN

(* After rs232c_reset and systemport_reset. The line is received at once    *)
(* unless VAEG_FIX is built in.                                             *)
Init ==
  /\ buf = [p \in Position |-> 0]
  /\ rpos = 0 /\ wpos = 0
  /\ removecounter = 0
  /\ data = 0
  /\ rxrdy = FALSE
  /\ enabled \in BOOLEAN
  /\ rxre = TRUE
  /\ port138 = FALSE
  /\ irqflag = 0
  /\ irq = FALSE
  /\ guest = "idle"
  /\ came = 0 /\ got = 0

After(p) == (p + 1) % Size
bufused == IF wpos >= rpos THEN wpos - rpos ELSE wpos - rpos + Size
-----------------------------------------------------------------------------
(* rs232c_callback                                                          *)

(* In FIFO mode it waits for the guest if the ring is full or a cause was   *)
(* not read.                                                                *)
Waits == port138 /\ (bufused = Size - 1 \/ irqflag # 0)

CallbackWaits ==
  /\ enabled \/ bufused # 0
  /\ Waits
  /\ removecounter' = 0
  /\ irqflag' = IF irqflag = 0 THEN 2 ELSE irqflag
  /\ irq' = (irq \/ irqflag = 0)
  /\ UNCHANGED <<buf, rpos, wpos, data, rxrdy, enabled, rxre, port138, guest,
                 came, got>>

CallbackIdle ==
  /\ ~enabled /\ bufused = 0
  /\ removecounter' = 0
  /\ UNCHANGED <<buf, rpos, wpos, data, rxrdy, enabled, rxre, port138, irqflag,
                 irq, guest, came, got>>

Counted ==
  ((IF bufused = 0 \/ port138 THEN 0 ELSE removecounter) + 1) % Expiry

(* The oldest byte is dropped if it was not read for too long, or to make   *)
(* room for the next.                                                       *)
Drops == (bufused > 0 /\ Counted = 0) \/ bufused = Size - 1

(* mutant: what is offered already is left alone *)
OfferOnce(bytes, r, w, drops) ==
  data' = IF r # w /\ ~rxrdy THEN bytes[r] ELSE data

(* The oldest byte of the ring is offered.                                  *)
Offer(bytes, r, w, drops) ==
  data' = IF r # w THEN bytes[r] ELSE data

Callback(reads) ==
  /\ enabled \/ bufused # 0
  /\ ~Waits
  /\ reads => enabled /\ came < MaxBytes
  /\ removecounter' = Counted
  /\ came' = IF reads THEN came + 1 ELSE came
  /\ buf' = IF reads THEN [buf EXCEPT ![wpos] = came + 1] ELSE buf
  /\ wpos' = IF reads THEN After(wpos) ELSE wpos
  /\ rpos' = IF Drops THEN After(rpos) ELSE rpos
  /\ Offer(buf', rpos', wpos', Drops)
  /\ LET announces == rpos' # wpos' /\ (~rxrdy \/ Drops)
     IN /\ rxrdy' = (rxrdy \/ announces)
        /\ irqflag' = IF announces /\ port138 THEN 2 ELSE irqflag
        /\ irq' = (irq \/ (announces /\ (port138 \/ rxre)))
  /\ UNCHANGED <<enabled, rxre, port138, guest, got>>
-----------------------------------------------------------------------------
(* The ports                                                                *)

(* rs232c_i30, for a guest that has seen RxRDY: the position and the data   *)
(* move to the next byte.                                                   *)
ReadByte ==
  /\ got' = data
  /\ removecounter' = 0
  /\ rpos' = IF rpos # wpos THEN After(rpos) ELSE rpos
  /\ data' = IF rpos # wpos THEN buf[After(rpos)] ELSE data
  /\ UNCHANGED <<buf, wpos, enabled, rxre, port138, came>>

(* The bytes that are left                                                  *)
Left == IF rpos # wpos THEN bufused - 1 ELSE 0

(* mutant: no interrupt although RxRDY stays *)
Port30Quiet ==
  /\ ReadByte
  /\ rxrdy' = (rxrdy /\ Left > Many)
  /\ UNCHANGED <<irq, irqflag>>

(* Port 30h: unless much is left, RxRDY is cleared for the next callback.   *)
Port30 ==
  /\ ReadByte
  /\ rxrdy' = (rxrdy /\ Left > Many)
  /\ irq' = (irq \/ (Left > Many /\ rxre))
  /\ UNCHANGED irqflag

(* Port 130h, in FIFO mode: RxRDY is cleared when nothing is left.          *)
Port130 ==
  /\ ReadByte
  /\ rxrdy' = (rxrdy /\ Left > 0)
  /\ irqflag' = IF Left = 0 THEN 3 ELSE IF Left > Many THEN 2 ELSE irqflag
  /\ irq' = (irq \/ Left = 0 \/ Left > Many)

Read == IF port138 THEN Port130 ELSE Port30

(* rs232c_i136                                                              *)
rs232c_i136 ==
  /\ irqflag' = 0
  /\ irq' = FALSE
  /\ UNCHANGED <<buf, rpos, wpos, removecounter, data, rxrdy, enabled, rxre,
                 port138, came, got>>

Enable ==
  /\ enabled' = ~enabled
  /\ UNCHANGED <<buf, rpos, wpos, removecounter, data, rxrdy, rxre, port138,
                 irqflag, irq, guest, came, got>>

(* The ring and its positions survive a reset.                              *)
rs232c_reset ==
  /\ data' = 0 /\ rxrdy' = FALSE
  /\ enabled' \in BOOLEAN
  /\ rxre' = TRUE /\ port138' = FALSE
  /\ irqflag' = 0 /\ irq' = FALSE
  /\ guest' = "idle"
  /\ UNCHANGED <<buf, rpos, wpos, removecounter, came, got>>
-----------------------------------------------------------------------------
(* The guest. Its handler reads the cause in FIFO mode and then bytes until *)
(* RxRDY is clear, otherwise one byte. It changes the mask, the mode and    *)
(* the speed while nothing is offered (rs232c_o13a would forget the cause   *)
(* of an offered byte), and enters the FIFO mode with no cause left.        *)

TakeInterrupt ==
  /\ guest = "idle" /\ irq
  /\ guest' = IF port138 THEN "interrupted" ELSE "serving"
  /\ irq' = FALSE
  /\ UNCHANGED <<buf, rpos, wpos, removecounter, data, rxrdy, enabled, rxre,
                 port138, irqflag, came, got>>

ReadCause ==
  /\ guest = "interrupted"
  /\ guest' = IF irqflag = 2 THEN "serving" ELSE "idle"
  /\ rs232c_i136

Serve ==
  /\ guest = "serving" /\ rxrdy
  /\ guest' = IF port138 THEN "serving" ELSE "idle"
  /\ Read

Served ==
  /\ guest = "serving" /\ ~rxrdy
  /\ guest' = "idle"
  /\ UNCHANGED <<buf, rpos, wpos, removecounter, data, rxrdy, enabled, rxre,
                 port138, irqflag, irq, came, got>>

Poll ==
  /\ guest = "idle" /\ rxrdy
  /\ Read
  /\ UNCHANGED guest

ClearCause ==
  /\ guest = "idle" /\ ~port138 /\ ~rxrdy
  /\ rs232c_i136
  /\ UNCHANGED guest

Mask ==
  /\ guest = "idle" /\ ~rxrdy
  /\ rxre' = ~rxre
  /\ UNCHANGED <<buf, rpos, wpos, removecounter, data, rxrdy, enabled, port138,
                 irqflag, irq, guest, came, got>>

rs232c_o138 ==
  /\ guest = "idle" /\ ~rxrdy
  /\ ~port138 => irqflag = 0
  /\ port138' = ~port138
  /\ UNCHANGED <<buf, rpos, wpos, removecounter, data, rxrdy, enabled, rxre,
                 irqflag, irq, guest, came, got>>

(* The speed of V-FAST: the cause is forgotten, and its request stays.      *)
rs232c_o13a ==
  /\ guest = "idle" /\ ~rxrdy
  /\ irqflag' = 0
  /\ UNCHANGED <<buf, rpos, wpos, removecounter, data, rxrdy, enabled, rxre,
                 port138, irq, guest, came, got>>

Next ==
  \/ CallbackWaits \/ CallbackIdle \/ \E reads \in BOOLEAN : Callback(reads)
  \/ TakeInterrupt \/ ReadCause \/ Serve \/ Served \/ Poll
  \/ ClearCause \/ Mask \/ rs232c_o138 \/ rs232c_o13a \/ Enable \/ rs232c_reset

Spec == Init /\ [][Next]_vars
-----------------------------------------------------------------------------
(* Properties                                                               *)

(* With RxRDY the guest is offered a byte that it has not read, younger     *)
(* than all that it has read, and the oldest of the ring: it sees none      *)
(* twice and none out of order, whatever the callback drops meanwhile.      *)
OffersNext == rxrdy => data > got /\ (rpos # wpos => data = buf[rpos])

(* While the port waits for the guest, because a byte is offered with       *)
(* interrupts on or because a cause was not read, and the guest is not in   *)
(* its handler, the interrupt is requested, and in FIFO mode a cause tells  *)
(* of an offered byte.                                                      *)
Announced ==
  guest = "idle" =>
    /\ rxrdy /\ rxre /\ ~port138 => irq
    /\ rxrdy /\ port138 => irq /\ irqflag = 2
    /\ port138 /\ irqflag # 0 => irq
=============================================================================
