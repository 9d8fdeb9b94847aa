-------------------------------- MODULE Fdc --------------------------------
(***************************************************************************)
(* The floppy disk controller (io/fdc.c) with the DMA controller and the   *)
(* changes of disks (fdd/diskdrv.c).                                       *)
(*                                                                         *)
(* A command goes through the phases of event: its parameters are received *)
(* (CMDRECV), bytes move by DMA (BUFRECV, BUFSEND2), the result is read    *)
(* (BUFSEND). fdc.R, fdc.eot, fdc.mt and fdc.H are what they amount to:    *)
(* the sectors that are left on this side and on the other one. stat is    *)
(* the kind of what waits for SENSE INTERRUPT STATUS.                      *)
(*                                                                         *)
(* Not modelled: the bits of the status register that nothing reads but    *)
(* the guest (CB, NDM, busy drives), transfers by the CPU instead of DMA   *)
(* (NDM), the data, the type of the media and the BIOS, which uses the     *)
(* drives without the controller; and which of its two interrupt lines     *)
(* fdc_intwait raises: intreq stands for both. The guest changes the mode  *)
(* only between transfers (see GuestMode).                                 *)
(***************************************************************************)
EXTENDS Dmac

CONSTANTS
  Drives,        \* 0 .. 3
  Loaded,        \* those that have a disk at first
  SectorBytes,   \* bytes of a sector, or of an ID when formatting
  ResultBytes,   \* length of the result of a transfer (7)
  IntDelay,      \* FDC_INT_DELAY, in frames (6)
  DiskDelay,     \* DISK_DELAY, in frames (20)
  Extents,       \* of transfers: the head, the sectors after the first one on
                 \* this side, and those on the other one
  Controls,      \* what the guest writes to the control register
  Modes,         \* what it writes to the mode register
  Masks,         \* what it masks
  Accessed,      \* the drives that it reads and writes
  Sought,        \* the drives that it seeks on
  Swapped        \* the drives whose disks the user changes

CH2HD == "2HD"   \* FDC_DMACH2HD, FDC_DMACH2DD
CH2DD == "2DD"

ASSUME FdcAssumption ==
  /\ Drives \subseteq 0 .. 3 /\ 0 \in Drives
  /\ Channels = {CH2HD, CH2DD}
  /\ {SectorBytes, IntDelay, DiskDelay} \subseteq Nat \ {0}
  /\ ResultBytes \in Nat /\ ResultBytes > 2
  /\ Extents \subseteq {0, 1} \X Nat \X Nat
  /\ \A x \in Extents : x[1] = 1 => x[3] = 0
  /\ Controls \subseteq SUBSET {"DMAE", "MOTOR", "RESET"}
  /\ Modes \subseteq SUBSET {"2HD", "ATTN"}
  /\ Masks \subseteq SUBSET Channels
  /\ Loaded \subseteq Drives /\ Accessed \subseteq Drives
  /\ Sought \subseteq Drives /\ Swapped \subseteq Drives

VARIABLES
  event, cmd,      \* the phase, and the command
  us, hd,          \* the drive and the head
  side, other,     \* sectors left after this one: on this side, on the other
  bufcnt,          \* bytes left in the buffer
  tc,              \* terminal count
  rqm, dio,        \* FDCSTAT_RQM and FDCSTAT_DIO
  stat,            \* status of each drive, "none" when zero
  int_stat,        \* the status that int_timer will set
  int_timer,       \* frames until then
  ctrlreg,         \* of "DMAE" (10h), "MOTOR" (08h), "RESET" (80h)
  chgreg,          \* of "2HD" (01h), "ATTN" (04h)
  fdcint,          \* the event NEVENT_FDCINT is set
  intreq,          \* an interrupt was requested and is not cleared
  diskready,       \* fdd_diskready
  delay            \* diskdrv_delay: a disk is inserted after these frames

phase == <<event, cmd, bufcnt, tc, rqm, dio>>
position == <<us, hd, side, other>>
seeks == <<int_stat, int_timer>>
registers == <<ctrlreg, chgreg>>
interrupt == <<fdcint, intreq>>
media == <<diskready, delay>>
vars == <<dmac, phase, position, stat, seeks, registers, interrupt, media>>

Transfers == {"READ", "WRITE", "FORMAT"}
NoParameters == {"SENSE_INT", "INVALID"}
Commands == Transfers \cup NoParameters \cup
            {"READID", "SEEK", "SPECIFY", "SENSE_DEVICE", "SCAN"}
Exec == {"BUFRECV", "BUFSEND2"}
Events == Exec \cup {"NEUTRAL", "CMDRECV", "BUFSEND"}
Kinds == {"none", "unit", "seek", "attention"}

TypeOK ==
  /\ DmacTypeOK
  /\ event \in Events /\ cmd \in Commands
  /\ us \in Drives /\ hd \in {0, 1}
  /\ side \in Nat /\ other \in Nat /\ bufcnt \in Nat
  /\ tc \in BOOLEAN /\ rqm \in BOOLEAN /\ dio \in BOOLEAN
  /\ stat \in [Drives -> Kinds] /\ int_stat \in [Drives -> Kinds]
  /\ int_timer \in [Drives -> 0 .. IntDelay]
  /\ ctrlreg \subseteq {"DMAE", "MOTOR", "RESET"}
  /\ chgreg \subseteq {"2HD", "ATTN"}
  /\ fdcint \in BOOLEAN /\ intreq \in BOOLEAN
  /\ diskready \subseteq Drives
  /\ delay \in [Drives -> 0 .. DiskDelay]

(* As fdc_reset leaves it; the drives have disks or not.                    *)
Init ==
  /\ DmacInit
  /\ event = "NEUTRAL" /\ cmd = "INVALID"
  /\ us = 0 /\ hd = 0 /\ side = 0 /\ other = 0
  /\ bufcnt = 0 /\ tc = FALSE
  /\ rqm = TRUE /\ dio = FALSE
  /\ stat = [d \in Drives |-> "none"]
  /\ int_stat = [d \in Drives |-> "none"]
  /\ int_timer = [d \in Drives |-> 0]
  /\ ctrlreg = {} /\ chgreg = {"2HD"}
  /\ fdcint = FALSE /\ intreq = FALSE
  /\ diskready = Loaded
  /\ delay = [d \in Drives |-> 0]
-----------------------------------------------------------------------------
(* Phases. Each of these sets event, bufcnt, tc, rqm, dio, side, other,     *)
(* stat, fdcint and the DMA controller's sets.                              *)

(* fdc_dmaready takes the channel of the mode as it is now.                 *)
Channel == IF "2HD" \in chgreg THEN CH2HD ELSE CH2DD

(* fdc.stat during a transfer is (hd << 2) | us, zero for the first drive.  *)
Unit(d, h) == IF d = 0 /\ h = 0 THEN "none" ELSE "unit"

Unready(w) == dmac_check(mask, ready \ {Channel}, w)

(* fdcsend_error7 and fdcsend_success7 for drive d, while the channels w    *)
(* work                                                                     *)
Send7(d, w) ==
  /\ event' = "BUFSEND" /\ bufcnt' = ResultBytes
  /\ tc' = FALSE
  /\ rqm' = TRUE /\ dio' = TRUE
  /\ side' = 0 /\ other' = 0
  /\ stat' = [stat EXCEPT ![d] = "none"]
  /\ Unready(w)
  /\ fdcint' = TRUE

(* The bytes of a sector of drive d and head h are to be moved; s and o     *)
(* sectors are left. q is RQM, st the status of the drive.                  *)
Sector(d, st, s, o, e, q, w) ==
  /\ event' = e /\ bufcnt' = SectorBytes
  /\ tc' = FALSE
  /\ rqm' = q /\ dio' = (e = "BUFSEND2")
  /\ side' = s /\ other' = o
  /\ stat' = [stat EXCEPT ![d] = st]
  /\ dmac_check(mask, ready \cup {Channel}, w)
  /\ UNCHANGED fdcint

(* readsector, and writing: there is no disk, it is protected or has an     *)
(* error, or the next sector follows.                                       *)
TrySector(d, h, s, o, e, q, w) ==
  \/ d \in diskready /\ Sector(d, Unit(d, h), s, o, e, q, w)
  \/ Send7(d, w)

(* After a sector that was not the last one of the command                  *)
NextSector(e, q, w) ==
  IF side = 0
  THEN /\ hd' = 1
       /\ TrySector(us, 1, other - 1, 0, e, q, w)
  ELSE /\ hd' = hd
       /\ TrySector(us, hd, side - 1, other, e, q, w)

Last == side = 0 /\ other = 0
-----------------------------------------------------------------------------
(* The bytes that DMA moves: w is what works, t whether the count ended.    *)

(* The phase goes on.                                                       *)
Counted(t, w) ==
  /\ tc' = t
  /\ working' = w
  /\ UNCHANGED <<event, rqm, dio, side, other, hd, stat, fdcint,
                 ready, mask, work>>

(* A byte within the buffer                                                 *)
Middle(t, w) == Counted(t, w) /\ bufcnt' = bufcnt - 1

(* mutant: the count is only looked at with the last byte of a sector       *)
ReadOn(t, w) ==
  IF bufcnt = 1 /\ (t \/ Last)
  THEN Send7(us, w) /\ UNCHANGED hd
  ELSE IF bufcnt = 1
  THEN NextSector("BUFSEND2", TRUE, w)
  ELSE Middle(t, w)

(* fdc_dataread in BUFSEND2, with FDC_ReadData in NEXTDATA                  *)
ReadByte(t, w) ==
  IF t \/ (bufcnt = 1 /\ Last)
  THEN Send7(us, w) /\ UNCHANGED hd
  ELSE IF bufcnt = 1
  THEN NextSector("BUFSEND2", TRUE, w)
  ELSE Middle(t, w)

(* FDC_WriteID in BUFRECV; the drive may have formatted its last sector.    *)
Formatted(t, w) ==
  /\ UNCHANGED hd
  /\ \/ Send7(us, w)
     \/ /\ ~t
        /\ Sector(us, stat[us], side, other, "BUFRECV", TRUE, w)

(* FDC_WriteData in BUFRECV: what was received is written first.            *)
Written(t, w) ==
  IF t \/ Last
  THEN Send7(us, w) /\ UNCHANGED hd
  ELSE NextSector("BUFRECV", FALSE, w)

(* fdc_datawrite in BUFRECV                                                 *)
WriteByte(t, w) ==
  IF t \/ bufcnt = 1
  THEN IF cmd = "FORMAT" THEN Formatted(t, w) ELSE Written(t, w)
  ELSE Middle(t, w)

(* mutant: the last result byte clears the request in any case *)
ResultClears ==
  /\ bufcnt' = bufcnt - 1
  /\ IF bufcnt = 1
     THEN event' = "NEUTRAL" /\ rqm' = TRUE /\ dio' = FALSE
     ELSE UNCHANGED <<event, rqm, dio>>
  /\ intreq' = FALSE

(* fdc_dataread in BUFSEND                                                  *)
ResultByte ==
  /\ bufcnt' = bufcnt - 1
  /\ IF bufcnt = 1
     THEN event' = "NEUTRAL" /\ rqm' = TRUE /\ dio' = FALSE
     ELSE UNCHANGED <<event, rqm, dio>>
  /\ intreq' = (intreq /\ \E d \in Drives : stat[d] # "none")

(* dmax86 in an instruction of the CPU: a byte of channel c in the          *)
(* direction of the transfer. Outside of transfers no channel works         *)
(* (ReadyIffTransfer), and only the count is followed.                      *)
dmax86(c) ==
  /\ c \in working
  /\ CountDown(c)
  /\ LET t == tc \/ Terminal(c)
         w == StillWorking(c)
     IN  CASE event = "BUFSEND2" -> ReadByte(t, w)
           [] event = "BUFRECV" -> WriteByte(t, w)
           [] OTHER -> Counted(t, w) /\ UNCHANGED bufcnt
  /\ UNCHANGED <<cmd, us, seeks, registers, intreq, media>>
-----------------------------------------------------------------------------
(* Commands                                                                 *)

Answer(n) ==
  /\ event' = "BUFSEND" /\ bufcnt' = n
  /\ rqm' = TRUE /\ dio' = TRUE

Done ==
  /\ event' = "NEUTRAL"
  /\ rqm' = TRUE /\ dio' = FALSE

(* FDC_SenceintStatus: the drive of the last command first                  *)
Waiting == {d \in Drives : stat[d] # "none"}
Reported == IF us \in Waiting THEN us
            ELSE CHOOSE d \in Waiting : \A e \in Waiting : d <= e

SenseInt ==
  IF Waiting = {}
  THEN Answer(1) /\ UNCHANGED <<stat, ctrlreg>>
  ELSE /\ Answer(2)
       /\ stat' = [stat EXCEPT ![Reported] = "none"]
       /\ ctrlreg' = ctrlreg \cup {"MOTOR"}

(* fdc_o92 with the first byte of a command                                 *)
Command(c) ==
  /\ event = "NEUTRAL" /\ rqm /\ ~dio
  /\ cmd' = c
  /\ CASE c = "SENSE_INT" -> SenseInt
       [] c = "INVALID" -> Answer(1) /\ UNCHANGED <<stat, ctrlreg>>
       [] OTHER -> /\ event' = "CMDRECV" /\ rqm' = TRUE
                   /\ UNCHANGED <<bufcnt, dio, stat, ctrlreg>>
  /\ UNCHANGED <<dmac, tc, position, seeks, chgreg, interrupt, media>>

(* The last parameter of a command runs it. Drive d, head h.                *)
Parameter(d, h) ==
  /\ event = "CMDRECV" /\ rqm
  /\ us' = d /\ hd' = h
  /\ UNCHANGED <<cmd, registers, intreq, media>>

Quiet == UNCHANGED <<dmac, tc, side, other, fdcint>>

(* FDC_ReadData, FDC_WriteData and FDC_WriteID: s sectors after the first   *)
(* one on this side, and o on the other if both sides are used              *)
Transfer(d, h, s, o) ==
  /\ cmd \in Transfers
  /\ Parameter(d, h)
  /\ LET e == IF cmd = "READ" THEN "BUFSEND2" ELSE "BUFRECV"
         st == IF cmd = "FORMAT" THEN stat[d] ELSE Unit(d, h)
     IN  \/ d \in diskready /\ Sector(d, st, s, o, e, TRUE, working)
         \/ Send7(d, working)
  /\ UNCHANGED seeks

FDC_ReadID(d, h) ==
  /\ cmd = "READID"
  /\ Parameter(d, h)
  /\ Send7(d, working)
  /\ UNCHANGED <<leng, seeks>>

(* FDC_Seek and FDC_Recalibrate: the end is told after IntDelay frames.     *)
FDC_Seek(d) ==
  /\ cmd = "SEEK"
  /\ Parameter(d, 0)
  /\ int_stat' = [int_stat EXCEPT ![d] = "seek"]
  /\ int_timer' = [int_timer EXCEPT ![d] = IntDelay]
  /\ Done
  /\ Quiet /\ UNCHANGED <<bufcnt, stat>>

FDC_SenseDeviceStatus(d, h) ==
  /\ cmd = "SENSE_DEVICE"
  /\ Parameter(d, h)
  /\ Answer(1)
  /\ Quiet /\ UNCHANGED <<stat, seeks>>

FDC_Specify ==
  /\ cmd = "SPECIFY"
  /\ Parameter(us, hd)
  /\ Done
  /\ Quiet /\ UNCHANGED <<bufcnt, stat, seeks>>

(* FDC_ScanEqual takes its parameters and does nothing, without RQM.        *)
FDC_ScanEqual(d, h) ==
  /\ cmd = "SCAN"
  /\ Parameter(d, h)
  /\ rqm' = FALSE
  /\ Quiet /\ UNCHANGED <<event, bufcnt, dio, stat, seeks>>

(* fdc_i92 in the result phase                                              *)
ReadResult ==
  /\ event = "BUFSEND"
  /\ ResultByte
  /\ UNCHANGED <<dmac, cmd, tc, position, stat, seeks, registers, fdcint,
                 media>>

(* mutant: the reset leaves the DMA channel ready *)
ResetPhaseOnly == Done /\ UNCHANGED lines

(* fdcstatusreset after a change of DMAE                                    *)
ResetPhase == Done /\ Unready(working)

(* fdc_o94: a change of DMAE and the start of a reset end the command; a    *)
(* motor that is switched on tells of the disks in the drives.              *)
fdc_o94(new) ==
  LET Rises(b) == b \in new \ ctrlreg
      dmae == ("DMAE" \in ctrlreg) # ("DMAE" \in new)
      osask == Rises("RESET") /\ "MOTOR" \in new
      told == IF Rises("MOTOR") /\ "ATTN" \in chgreg THEN diskready ELSE {}
  IN  /\ IF dmae THEN ResetPhase
         ELSE /\ IF Rises("RESET") THEN Done ELSE UNCHANGED <<event, rqm, dio>>
              /\ UNCHANGED lines
      /\ int_stat' = [d \in Drives |-> IF d \in told THEN "attention"
                                       ELSE IF osask THEN stat[d]
                                       ELSE int_stat[d]]
      /\ int_timer' = [d \in Drives |-> IF d \in told \/ osask THEN IntDelay
                                        ELSE int_timer[d]]
      /\ ctrlreg' = new
      /\ UNCHANGED <<leng, cmd, bufcnt, tc, position, stat, chgreg,
                     interrupt, media>>

(* fdc_obe                                                                  *)
fdc_obe(new) ==
  /\ chgreg' = new
  /\ UNCHANGED <<dmac, phase, position, stat, seeks, ctrlreg, interrupt,
                 media>>
-----------------------------------------------------------------------------
(* Time                                                                     *)

(* fdc_intwait, 512 clocks after the last call of fdc_interrupt             *)
fdc_intwait ==
  /\ fdcint
  /\ fdcint' = FALSE
  /\ intreq' = TRUE
  /\ UNCHANGED <<dmac, phase, position, stat, seeks, registers, media>>

(* diskdrv_callback and fdc_intdelay, once in a frame                       *)
Inserted == {d \in Drives : delay[d] = 1}
Attended == IF "ATTN" \notin chgreg \/ "MOTOR" \in ctrlreg THEN Inserted
            ELSE {}
Expired == {d \in Drives : int_timer[d] = 1}

Before(n) == IF n = 0 THEN 0 ELSE n - 1

Frame ==
  /\ \E d \in Drives : delay[d] > 0 \/ int_timer[d] > 0
  /\ diskready' = diskready \cup Inserted
  /\ delay' = [d \in Drives |-> Before(delay[d])]
  /\ us' = IF Attended = {} THEN us
           ELSE CHOOSE d \in Attended : \A e \in Attended : e <= d
  /\ stat' = [d \in Drives |-> IF d \in Expired THEN int_stat[d]
                               ELSE IF d \in Attended THEN "attention"
                               ELSE stat[d]]
  /\ int_timer' = [d \in Drives |-> Before(int_timer[d])]
  /\ fdcint' = (fdcint \/ Attended \cup Expired # {})
  /\ UNCHANGED <<dmac, phase, hd, side, other, int_stat, registers, intreq>>

(* diskdrv_setfddex: the user takes the disk out of drive d, and may put    *)
(* another one in.                                                          *)
diskdrv_setfddex(d, disk) ==
  /\ diskready' = diskready \ {d}
  /\ delay' = [delay EXCEPT ![d] = IF disk THEN DiskDelay ELSE 0]
  /\ stat' = [stat EXCEPT ![d] = "attention"]
  /\ us' = d
  /\ fdcint' = TRUE
  /\ UNCHANGED <<dmac, phase, hd, side, other, seeks, registers, intreq>>

(* dmac_reset and fdc_reset in pccore_reset; the drives keep their disks.   *)
pccore_reset ==
  /\ dmac_reset
  /\ event' = "NEUTRAL" /\ cmd' = "INVALID"
  /\ us' = 0 /\ hd' = 0 /\ side' = 0 /\ other' = 0
  /\ bufcnt' = 0 /\ tc' = FALSE
  /\ rqm' = TRUE /\ dio' = FALSE
  /\ stat' = [d \in Drives |-> "none"]
  /\ int_stat' = [d \in Drives |-> "none"]
  /\ int_timer' = [d \in Drives |-> 0]
  /\ ctrlreg' = {} /\ chgreg' = {"2HD"}
  /\ fdcint' = FALSE /\ intreq' = FALSE
  /\ UNCHANGED media
-----------------------------------------------------------------------------
(* The guest: it sets the count of the channel when it starts a transfer,   *)
(* changes the mode and starts a reset only outside of transfers. It may    *)
(* mask channels, clear the DMA controller and toggle DMAE at any time.     *)

GuestTransfer == \E d \in Accessed, x \in Extents, n \in 0 .. Counts - 1 :
  /\ Program(Channel, n)
  /\ Transfer(d, x[1], x[2], x[3])

GuestCommand ==
  \/ \E c \in Commands : Command(c)
  \/ GuestTransfer
  \/ \E d \in Accessed, h \in {0, 1} : FDC_ReadID(d, h)
  \/ \E d \in Sought : FDC_Seek(d)
  \/ \E d \in Drives, h \in {0, 1} : FDC_SenseDeviceStatus(d, h)
  \/ FDC_Specify
  \/ \E d \in Drives, h \in {0, 1} : FDC_ScanEqual(d, h)

GuestMasks == \E m \in Masks :
  /\ WriteMask(m)
  /\ UNCHANGED <<phase, position, stat, seeks, registers, interrupt, media>>

GuestClears ==
  /\ MasterClear
  /\ UNCHANGED <<phase, position, stat, seeks, registers, interrupt, media>>

GuestControls == \E new \in Controls :
  /\ event \in Exec => "RESET" \notin new \ ctrlreg
  /\ fdc_o94(new)

GuestMode == \E new \in Modes :
  /\ event \notin Exec
  /\ fdc_obe(new)

Next ==
  \/ GuestCommand
  \/ ReadResult
  \/ GuestMasks
  \/ GuestClears
  \/ GuestControls
  \/ GuestMode
  \/ \E c \in Channels : dmax86(c)
  \/ fdc_intwait
  \/ Frame
  \/ \E d \in Swapped, disk \in BOOLEAN : diskdrv_setfddex(d, disk)
  \/ pccore_reset

Spec == Init /\ [][Next]_vars
-----------------------------------------------------------------------------
(* Properties                                                               *)

(* The DMA channel of the mode is ready exactly while bytes are moved, the  *)
(* other one never, and only what is ready works: a channel that stayed     *)
(* ready would be taken for started, and the next transfer would not start; *)
(* one that worked on would eat the result or feed commands.                *)
ReadyIffTransfer ==
  /\ ready = IF event \in Exec THEN {Channel} ELSE {}
  /\ working \subseteq ready

(* A terminal count ends the transfer that it belongs to and no later one.  *)
NoStaleCount == ~tc

(* What the guest has to ask for is announced: the end of a seek and a      *)
(* change of a disk until the last of them is read, and the result of a     *)
(* transfer until its first byte is.                                        *)
Announced ==
  \/ \E d \in Drives : stat[d] \in {"seek", "attention"}
  \/ event = "BUFSEND" /\ bufcnt = ResultBytes
  => fdcint \/ intreq

(* A transfer that the guest does not mask moves bytes, so that it comes to *)
(* its end: by the last sector, the terminal count or an error. The         *)
(* controller starts a channel only when it takes it for stopped.           *)
NotStalled == event \in Exec /\ Channel \notin mask => Channel \in working
=============================================================================
