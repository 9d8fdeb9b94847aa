----------------------------- MODULE FdcProofs -----------------------------
(* What holds of the floppy and DMA controllers for any number of drives,   *)
(* length of sectors and delays, and whatever disks the user changes.       *)
EXTENDS Fdc, TLAPS

(* The sets of the DMA controller: what has been started works, and exactly *)
(* what is ready and not masked, or was until a master clear.               *)
Lines ==
  /\ working = work /\ work \subseteq ready
  /\ ready \ mask \subseteq work

(* There is a byte to be moved, and what is left of a result.               *)
Buffer ==
  /\ event \in Exec => bufcnt > 0
  /\ event = "BUFSEND" => bufcnt \in 1 .. ResultBytes

PhaseTypes ==
  /\ ready \subseteq Channels /\ mask \subseteq Channels
  /\ event \in Events
  /\ side \in Nat /\ other \in Nat /\ bufcnt \in Nat
  /\ tc \in BOOLEAN /\ rqm \in BOOLEAN /\ dio \in BOOLEAN
  /\ stat \in [Drives -> Kinds]
  /\ fdcint \in BOOLEAN

OtherTypes ==
  /\ leng \in [Channels -> 0 .. Counts - 1]
  /\ cmd \in Commands
  /\ us \in Drives /\ hd \in {0, 1}
  /\ int_stat \in [Drives -> Kinds]
  /\ int_timer \in [Drives -> 0 .. IntDelay]
  /\ ctrlreg \subseteq {"DMAE", "MOTOR", "RESET"}
  /\ chgreg \subseteq {"2HD", "ATTN"}
  /\ intreq \in BOOLEAN
  /\ diskready \subseteq Drives
  /\ delay \in [Drives -> 0 .. DiskDelay]

PhaseInv ==
  /\ PhaseTypes
  /\ ReadyIffTransfer /\ Lines /\ NoStaleCount /\ Buffer
  /\ Announced

IInv == PhaseInv /\ OtherTypes

LEMMA ChannelUsed == Channel \in Channels
BY FdcAssumption DEF Channel

LEMMA InvImplies ==
  ASSUME IInv
  PROVE  TypeOK /\ ReadyIffTransfer /\ NoStaleCount /\ Announced /\ NotStalled
<1> USE DEF IInv, PhaseInv
<1>1. TypeOK
  BY DEF PhaseTypes, OtherTypes, TypeOK, DmacTypeOK, ReadyIffTransfer, Lines
<1>2. NotStalled
  BY DEF NotStalled, ReadyIffTransfer, Lines
<1> QED
  BY <1>1, <1>2

(* What was started before and has not ended goes on.                       *)
LEMMA CheckLines ==
  ASSUME working = work,
         NEW m \in SUBSET Channels, NEW r \in SUBSET Channels,
         NEW w \in SUBSET work, work \cap (r \ m) \subseteq w,
         dmac_check(m, r, w)
  PROVE  /\ ready' = r /\ mask' = m
         /\ Lines'
BY DEF dmac_check, Lines

LEMMA UnitIsKind == \A d \in Drives, h \in {0, 1} : Unit(d, h) \in {"none", "unit"}
BY DEF Unit

(* The result of a command: the channel stops, and the result is announced. *)
LEMMA Send7Keeps ==
  ASSUME IInv, NEW d \in Drives, NEW w \in SUBSET working,
         Send7(d, w), UNCHANGED chgreg
  PROVE  PhaseInv'
<1> USE DEF IInv, PhaseInv
<1>1. ready \ {Channel} = {}
  BY DEF ReadyIffTransfer
<1>2. ready' = {} /\ mask' = mask /\ Lines'
  <2>1. w \in SUBSET work /\ work \cap ({} \ mask) \subseteq w
    BY DEF Lines
  <2>2. dmac_check(mask, {}, w)
    BY <1>1 DEF Send7, Unready
  <2> QED
    BY <2>1, <2>2, CheckLines DEF Lines, PhaseTypes
<1>3. PhaseTypes'
  BY <1>2, FdcAssumption DEF PhaseTypes, Send7, Kinds, Events
<1>4. ReadyIffTransfer'
  BY <1>2 DEF ReadyIffTransfer, Send7, Exec, Lines
<1>5. Buffer' /\ NoStaleCount' /\ Announced'
  BY FdcAssumption DEF Buffer, NoStaleCount, Announced, Send7, Exec
<1> QED
  BY <1>2, <1>3, <1>4, <1>5

(* A sector: the channel starts, or goes on if it has not ended.            *)
LEMMA SectorKeeps ==
  ASSUME IInv, NEW d \in Drives, NEW st \in Kinds,
         st \in {"none", "unit"} \/ st = stat[d],
         NEW s \in Nat, NEW o \in Nat, NEW e \in Exec, NEW q \in BOOLEAN,
         Sector(d, st, s, o, e, q, working), UNCHANGED <<chgreg, intreq>>
  PROVE  PhaseInv'
<1> USE DEF IInv, PhaseInv
<1>1. ready \cup {Channel} = {Channel}
  BY DEF ReadyIffTransfer
<1>2. ready' = {Channel} /\ mask' = mask /\ Lines'
  <2>1. working = work /\ work \cap ({Channel} \ mask) \subseteq working
    BY DEF Lines
  <2>2. dmac_check(mask, {Channel}, working)
    BY <1>1 DEF Sector
  <2> QED
    BY <2>1, <2>2, CheckLines, ChannelUsed DEF PhaseTypes
<1>3. PhaseTypes'
  BY <1>2, ChannelUsed, FdcAssumption DEF PhaseTypes, Sector, Exec, Events
<1>4. ReadyIffTransfer'
  BY <1>2 DEF ReadyIffTransfer, Sector, Lines, Channel
<1>5. Buffer' /\ NoStaleCount'
  BY FdcAssumption DEF Buffer, NoStaleCount, Sector, Exec
<1>6. Announced'
  <2>1. \A x \in Drives : stat'[x] \in {"seek", "attention"}
                          => stat[x] \in {"seek", "attention"}
    BY DEF Sector, PhaseTypes
  <2>2. event' # "BUFSEND" /\ fdcint' = fdcint
    BY DEF Sector, Exec
  <2> QED
    BY <2>1, <2>2 DEF Announced
<1> QED
  BY <1>2, <1>3, <1>4, <1>5, <1>6

LEMMA InitInv == Init => IInv
<1> SUFFICES ASSUME Init PROVE IInv
  OBVIOUS
<1> USE FdcAssumption DEF Init, DmacInit
<1>1. PhaseTypes /\ Buffer /\ NoStaleCount
  BY DEF PhaseTypes, Buffer, NoStaleCount, Kinds, Events, Exec
<1>2. ReadyIffTransfer /\ Lines /\ Announced
  BY DEF ReadyIffTransfer, Lines, Announced, Exec
<1>3. OtherTypes
  <2>1. 0 \in 0 .. Counts - 1 /\ 0 \in 0 .. IntDelay /\ 0 \in 0 .. DiskDelay
    BY CountsAssumption
  <2>2. "INVALID" \in Commands /\ "none" \in Kinds
    BY DEF Commands, NoParameters, Kinds
  <2> QED
    BY <2>1, <2>2 DEF OtherTypes
<1> QED
  BY <1>1, <1>2, <1>3 DEF IInv, PhaseInv

(* The controller is not disturbed outside of a transfer.                   *)
LEMMA LinesStay ==
  ASSUME IInv, UNCHANGED <<lines, tc>>,
         event' \in Exec <=> event \in Exec,
         event \in Exec => UNCHANGED chgreg
  PROVE  ReadyIffTransfer' /\ Lines' /\ NoStaleCount'
BY DEF IInv, PhaseInv, lines, ReadyIffTransfer, Lines, NoStaleCount, Channel

LEMMA CommandKeeps ==
  ASSUME IInv, NEW c \in Commands, Command(c)
  PROVE  IInv'
<1> USE DEF IInv, PhaseInv, Command
<1>1. stat' \in [Drives -> Kinds] /\ ctrlreg' \subseteq {"DMAE", "MOTOR", "RESET"}
      /\ \A d \in Drives : stat'[d] \in {stat[d], "none"}
  BY DEF SenseInt, Answer, PhaseTypes, OtherTypes, Kinds
<1>2. \/ Answer(1) \/ Answer(2)
      \/ event' = "CMDRECV" /\ rqm' = TRUE /\ UNCHANGED <<bufcnt, dio>>
  BY DEF SenseInt
<1>a. rqm' \in BOOLEAN /\ dio' \in BOOLEAN
  BY <1>2 DEF Answer, PhaseTypes
<1>b. event' \in {"BUFSEND", "CMDRECV"} /\ bufcnt' \in Nat
  BY <1>2 DEF Answer, PhaseTypes
<1>c. event' = "BUFSEND" => bufcnt' \in {1, 2}
  BY <1>2 DEF Answer
<1>3. PhaseTypes' /\ OtherTypes'
  BY <1>1, <1>a, <1>b DEF PhaseTypes, OtherTypes, Events, dmac, lines, position,
    seeks, interrupt, media
<1>4. ReadyIffTransfer' /\ Lines' /\ NoStaleCount'
  BY <1>b, LinesStay DEF dmac, Exec
<1>5. Buffer' /\ Announced'
  BY <1>1, <1>b, <1>c, FdcAssumption DEF Buffer, Announced, Exec, interrupt
<1> QED
  BY <1>3, <1>4, <1>5

LEMMA ParameterTypes ==
  ASSUME IInv, NEW d \in Drives, NEW h \in {0, 1}, Parameter(d, h),
         leng' \in [Channels -> 0 .. Counts - 1],
         int_stat' \in [Drives -> Kinds],
         int_timer' \in [Drives -> 0 .. IntDelay]
  PROVE  OtherTypes'
BY DEF IInv, OtherTypes, Parameter, registers, media

(* Commands that end with their parameters, or never.                       *)
LEMMA QuietKeeps ==
  ASSUME IInv, NEW d \in Drives, NEW h \in {0, 1}, Parameter(d, h), Quiet,
         UNCHANGED stat, event' \in {"NEUTRAL", "CMDRECV", "BUFSEND"},
         rqm' \in BOOLEAN, dio' \in BOOLEAN, bufcnt' \in Nat,
         event' = "BUFSEND" => bufcnt' = 1,
         int_stat' \in [Drives -> Kinds],
         int_timer' \in [Drives -> 0 .. IntDelay]
  PROVE  IInv'
<1> USE DEF IInv, PhaseInv, Quiet, Parameter
<1>1. OtherTypes'
  BY ParameterTypes DEF dmac, OtherTypes
<1>2. PhaseTypes'
  BY DEF PhaseTypes, dmac, lines, Events
<1>3. ReadyIffTransfer' /\ Lines' /\ NoStaleCount'
  BY LinesStay DEF dmac, Exec, registers
<1>4. Buffer' /\ Announced'
  BY FdcAssumption DEF Buffer, Announced, Exec
<1> QED
  BY <1>1, <1>2, <1>3, <1>4

LEMMA TransferKeeps ==
  ASSUME IInv, GuestTransfer
  PROVE  IInv'
<1> USE DEF IInv, PhaseInv
<1>1. PICK d \in Accessed, x \in Extents, n \in 0 .. Counts - 1 :
           Program(Channel, n) /\ Transfer(d, x[1], x[2], x[3])
  BY DEF GuestTransfer
<1>2. d \in Drives /\ x[1] \in {0, 1} /\ x[2] \in Nat /\ x[3] \in Nat
  BY FdcAssumption
<1>3. Parameter(d, x[1]) /\ UNCHANGED seeks
  BY <1>1 DEF Transfer
<1>4. OtherTypes'
  <2>1. leng' \in [Channels -> 0 .. Counts - 1]
    BY <1>1 DEF Program, OtherTypes
  <2> QED
    BY <1>2, <1>3, <2>1, ParameterTypes DEF seeks, OtherTypes
<1>5. UNCHANGED <<chgreg, intreq>>
  BY <1>3 DEF Parameter, registers
<1>6. CASE Send7(d, working)
  BY <1>2, <1>4, <1>5, <1>6, Send7Keeps
<1>7. CASE ~Send7(d, working)
  <2> DEFINE e == IF cmd = "READ" THEN "BUFSEND2" ELSE "BUFRECV"
             st == IF cmd = "FORMAT" THEN stat[d] ELSE Unit(d, x[1])
  <2>1. Sector(d, st, x[2], x[3], e, TRUE, working)
    BY <1>1, <1>7 DEF Transfer
  <2>2. e \in Exec /\ st \in Kinds /\ (st \in {"none", "unit"} \/ st = stat[d])
    BY <1>2, UnitIsKind DEF Exec, PhaseTypes, Kinds
  <2> HIDE DEF e, st
  <2> QED
    BY <1>2, <1>4, <1>5, <2>1, <2>2, SectorKeeps
<1> QED
  BY <1>6, <1>7

LEMMA GuestCommandKeeps ==
  ASSUME IInv, GuestCommand
  PROVE  IInv'
<1>1. CASE \E c \in Commands : Command(c)
  BY <1>1, CommandKeeps
<1>2. CASE GuestTransfer
  BY <1>2, TransferKeeps
<1>3. ASSUME NEW d \in Accessed, NEW h \in {0, 1}, FDC_ReadID(d, h)
      PROVE  IInv'
  <2>1. d \in Drives
    BY FdcAssumption
  <2>2. OtherTypes'
    BY <1>3, <2>1, ParameterTypes DEF FDC_ReadID, seeks, IInv, OtherTypes
  <2>3. PhaseInv'
    BY <1>3, <2>1, Send7Keeps DEF FDC_ReadID, Parameter, registers
  <2> QED
    BY <2>2, <2>3 DEF IInv
<1>4. ASSUME NEW d \in Sought, FDC_Seek(d)
      PROVE  IInv'
  <2>1. d \in Drives /\ IntDelay \in 0 .. IntDelay
    BY FdcAssumption
  <2>2. /\ int_stat' \in [Drives -> Kinds]
        /\ int_timer' \in [Drives -> 0 .. IntDelay]
    BY <1>4, <2>1 DEF FDC_Seek, IInv, OtherTypes, Kinds
  <2> QED
    BY <1>4, <2>1, <2>2, QuietKeeps DEF FDC_Seek, Done, IInv, PhaseInv, PhaseTypes
<1>5. ASSUME NEW d \in Drives, NEW h \in {0, 1}, FDC_SenseDeviceStatus(d, h)
      PROVE  IInv'
  BY <1>5, QuietKeeps DEF FDC_SenseDeviceStatus, Answer, seeks, IInv, OtherTypes
<1>6. ASSUME FDC_Specify
      PROVE  IInv'
  BY <1>6, QuietKeeps DEF FDC_Specify, Done, seeks, IInv, OtherTypes, PhaseInv,
    PhaseTypes
<1>7. ASSUME NEW d \in Drives, NEW h \in {0, 1}, FDC_ScanEqual(d, h)
      PROVE  IInv'
  BY <1>7, QuietKeeps DEF FDC_ScanEqual, Parameter, seeks, IInv, OtherTypes,
    PhaseInv, PhaseTypes
<1> QED
  BY <1>1, <1>2, <1>3, <1>4, <1>5, <1>6, <1>7 DEF GuestCommand

LEMMA ReadResultKeeps ==
  ASSUME IInv, ReadResult
  PROVE  IInv'
<1> USE DEF IInv, PhaseInv, ReadResult, ResultByte
<1>1. event' \in {"NEUTRAL", "BUFSEND"} /\ rqm' \in BOOLEAN /\ dio' \in BOOLEAN
  BY DEF PhaseTypes
<1>a. bufcnt' \in 0 .. ResultBytes - 1 /\ (event' = "BUFSEND" => bufcnt' > 0)
  <2>1. bufcnt \in 1 .. ResultBytes
    BY DEF Buffer
  <2>2. bufcnt' = bufcnt - 1 /\ (bufcnt = 1 => event' = "NEUTRAL")
    OBVIOUS
  <2> HIDE DEF IInv, PhaseInv, ReadResult, ResultByte
  <2> QED
    BY <2>1, <2>2, FdcAssumption
<1>2. PhaseTypes' /\ OtherTypes'
  BY <1>1, <1>a, FdcAssumption DEF PhaseTypes, OtherTypes, Events, dmac, lines,
    position, seeks, registers, media
<1>3. ReadyIffTransfer' /\ Lines' /\ NoStaleCount'
  BY <1>1, LinesStay DEF dmac, Exec, registers
<1>4. Buffer'
  BY <1>1, <1>a, FdcAssumption DEF Buffer, Exec
<1>5. Announced'
  <2>1. ~(event' = "BUFSEND" /\ bufcnt' = ResultBytes)
    BY <1>a, FdcAssumption
  <2> QED
    BY <2>1 DEF Announced
<1> QED
  BY <1>2, <1>3, <1>4, <1>5

(* A new set of masks, or no DMA at all (fdc_o94 with a change of DMAE)     *)
LEMMA MasksKeep ==
  ASSUME IInv, GuestMasks
  PROVE  IInv'
<1> USE DEF IInv, PhaseInv
<1>1. PICK m \in Masks : WriteMask(m)
  BY DEF GuestMasks
<1>2. ready' = ready /\ mask' = m /\ Lines'
  <2>1. m \in SUBSET Channels
    BY FdcAssumption
  <2> QED
    BY <1>1, <2>1, CheckLines DEF WriteMask, Lines, PhaseTypes
<1>3. UNCHANGED <<leng, phase, position, stat, seeks, registers, interrupt, media>>
  BY <1>1 DEF GuestMasks, WriteMask
<1>4. PhaseTypes' /\ OtherTypes'
  <2>1. m \subseteq Channels
    BY FdcAssumption
  <2> QED
    BY <1>2, <1>3, <2>1 DEF PhaseTypes, OtherTypes, phase, position, seeks,
      registers, interrupt, media
<1>5. ReadyIffTransfer' /\ Buffer' /\ NoStaleCount' /\ Announced'
  BY <1>2, <1>3 DEF ReadyIffTransfer, Lines, Channel, Buffer, NoStaleCount,
    Announced, phase, registers, interrupt
<1> QED
  BY <1>2, <1>4, <1>5

LEMMA ClearsKeep ==
  ASSUME IInv, GuestClears
  PROVE  IInv'
<1> USE DEF IInv, PhaseInv, GuestClears, MasterClear
<1>1. leng' \in [Channels -> 0 .. Counts - 1]
  BY CountsAssumption
<1>2. PhaseTypes' /\ OtherTypes'
  BY <1>1 DEF PhaseTypes, OtherTypes, phase, position, seeks, registers,
    interrupt, media
<1>3. ReadyIffTransfer' /\ Lines' /\ Buffer' /\ NoStaleCount' /\ Announced'
  BY DEF ReadyIffTransfer, Lines, Channel, Buffer, NoStaleCount, Announced,
    PhaseTypes, phase, registers, interrupt
<1> QED
  BY <1>2, <1>3

LEMMA ControlsKeep ==
  ASSUME IInv, GuestControls
  PROVE  IInv'
<1> USE DEF IInv, PhaseInv
<1>1. PICK new \in Controls : fdc_o94(new)
                              /\ (event \in Exec => "RESET" \notin new \ ctrlreg)
  BY DEF GuestControls
<1>2. OtherTypes'
  <2>1. IntDelay \in 0 .. IntDelay
    BY FdcAssumption
  <2>2. /\ int_stat' \in [Drives -> Kinds]
        /\ int_timer' \in [Drives -> 0 .. IntDelay]
    BY <1>1, <2>1 DEF fdc_o94, PhaseTypes, OtherTypes, Kinds
  <2>3. ctrlreg' \subseteq {"DMAE", "MOTOR", "RESET"}
    BY <1>1, FdcAssumption DEF fdc_o94
  <2> QED
    BY <1>1, <2>2, <2>3 DEF fdc_o94, OtherTypes, position, media, interrupt
<1>3. UNCHANGED <<side, other, bufcnt, stat, tc, chgreg, fdcint, intreq>>
  BY <1>1 DEF fdc_o94, position, interrupt
<1>4. CASE ("DMAE" \in ctrlreg) # ("DMAE" \in new)
  <2>1. ResetPhase
    BY <1>1, <1>4 DEF fdc_o94
  <2>2. ready' = {} /\ mask' = mask /\ Lines'
    <3>1. dmac_check(mask, {}, working)
      <4>1. ready \ {Channel} = {}
        BY DEF ReadyIffTransfer
      <4> QED
        BY <2>1, <4>1 DEF ResetPhase, Unready
    <3> QED
      BY <3>1, CheckLines DEF Lines, PhaseTypes
  <2>3. event' = "NEUTRAL" /\ rqm' = TRUE /\ dio' = FALSE
    BY <2>1 DEF ResetPhase, Done
  <2>4. PhaseTypes'
    BY <1>3, <2>2, <2>3 DEF PhaseTypes, Events
  <2>5. ReadyIffTransfer' /\ Buffer' /\ NoStaleCount' /\ Announced'
    BY <1>3, <2>2, <2>3 DEF ReadyIffTransfer, Lines, Buffer, NoStaleCount,
      Announced, Exec
  <2> QED
    BY <1>2, <2>2, <2>4, <2>5
<1>5. CASE ("DMAE" \in ctrlreg) = ("DMAE" \in new)
  <2>1. /\ UNCHANGED lines
        /\ \/ "RESET" \in new \ ctrlreg /\ Done
           \/ UNCHANGED <<event, rqm, dio>>
    BY <1>1, <1>5 DEF fdc_o94
  <2>2. event' \in Exec <=> event \in Exec
    BY <1>1, <2>1 DEF Done, Exec
  <2>3. PhaseTypes'
    BY <1>3, <2>1 DEF PhaseTypes, lines, Done, Events
  <2>4. ReadyIffTransfer' /\ Lines' /\ NoStaleCount'
    BY <1>3, <2>1, <2>2, LinesStay
  <2>5. Buffer' /\ Announced'
    BY <1>3, <2>1 DEF Buffer, Announced, Done, Exec
  <2> QED
    BY <1>2, <2>3, <2>4, <2>5
<1> QED
  BY <1>4, <1>5

LEMMA ModeKeeps ==
  ASSUME IInv, GuestMode
  PROVE  IInv'
<1> USE DEF IInv, PhaseInv
<1>1. PICK new \in Modes : event \notin Exec /\ fdc_obe(new)
  BY DEF GuestMode
<1>2. PhaseTypes' /\ OtherTypes'
  <2>1. chgreg' \subseteq {"2HD", "ATTN"}
    BY <1>1, FdcAssumption DEF fdc_obe
  <2> QED
    BY <1>1, <2>1 DEF fdc_obe, PhaseTypes, OtherTypes, dmac, lines, phase,
      position, seeks, interrupt, media
<1>3. ReadyIffTransfer' /\ Lines' /\ NoStaleCount'
  BY <1>1, LinesStay DEF fdc_obe, dmac, phase
<1>4. Buffer' /\ Announced'
  BY <1>1 DEF fdc_obe, Buffer, Announced, phase, interrupt
<1> QED
  BY <1>2, <1>3, <1>4

LEMMA WaitKeeps ==
  ASSUME IInv, fdc_intwait
  PROVE  IInv'
<1> USE DEF IInv, PhaseInv, fdc_intwait
<1>1. PhaseTypes' /\ OtherTypes'
  BY DEF PhaseTypes, OtherTypes, dmac, lines, phase, position, seeks,
    registers, media
<1>2. ReadyIffTransfer' /\ Lines' /\ NoStaleCount'
  BY LinesStay DEF dmac, phase, registers
<1>3. Buffer' /\ Announced'
  BY DEF Buffer, Announced, phase
<1> QED
  BY <1>1, <1>2, <1>3

(* The last drive of those whose disk is inserted, of four drives           *)
LEMMA LastDrive ==
  ASSUME NEW D \in SUBSET Drives, D # {}
  PROVE  \E d \in D : \A e \in D : e <= d
<1>1. D \subseteq 0 .. 3
  BY FdcAssumption
<1>2. CASE 3 \in D
  BY <1>1, <1>2
<1>3. CASE 3 \notin D /\ 2 \in D
  <2>1. \A e \in D : e <= 2
    BY <1>1, <1>3
  <2> QED
    BY <1>3, <2>1
<1>4. CASE 3 \notin D /\ 2 \notin D /\ 1 \in D
  <2>1. \A e \in D : e <= 1
    BY <1>1, <1>4
  <2> QED
    BY <1>4, <2>1
<1>5. CASE D \cap {1, 2, 3} = {}
  <2>1. \A e \in D : e = 0
    BY <1>1, <1>5
  <2> QED
    BY <2>1
<1> QED
  BY <1>2, <1>3, <1>4, <1>5

LEMMA FrameKeeps ==
  ASSUME IInv, Frame
  PROVE  IInv'
<1> USE DEF IInv, PhaseInv, Frame
<1>1. us' \in Drives
  <2>1. CASE Attended = {}
    BY <2>1 DEF OtherTypes
  <2>2. CASE Attended # {}
    <3>1. Attended \in SUBSET Drives
      BY DEF Attended, Inserted
    <3>2. \E d \in Attended : \A e \in Attended : e <= d
      BY <2>2, <3>1, LastDrive
    <3> QED
      BY <2>2, <3>1, <3>2
  <2> QED
    BY <2>1, <2>2
<1>2. /\ int_timer' \in [Drives -> 0 .. IntDelay]
      /\ delay' \in [Drives -> 0 .. DiskDelay]
  BY FdcAssumption DEF OtherTypes, Before
<1>3. diskready' \subseteq Drives
  BY DEF OtherTypes, Inserted
<1>4. OtherTypes'
  BY <1>1, <1>2, <1>3 DEF OtherTypes, dmac, phase, registers
<1>5. stat' \in [Drives -> Kinds] /\ fdcint' \in BOOLEAN
  BY DEF PhaseTypes, OtherTypes, Kinds
<1>6. PhaseTypes'
  BY <1>5 DEF PhaseTypes, dmac, lines, phase
<1>7. ReadyIffTransfer' /\ Lines' /\ NoStaleCount'
  BY LinesStay DEF dmac, phase, registers
<1>8. Buffer'
  BY DEF Buffer, phase
<1>9. Announced'
  <2>1. CASE Attended \cup Expired = {}
    <3>1. \A d \in Drives : stat'[d] = stat[d]
      BY <2>1
    <3>2. fdcint' = fdcint
      BY <2>1 DEF PhaseTypes
    <3> QED
      BY <3>1, <3>2 DEF Announced, phase
  <2>2. CASE Attended \cup Expired # {}
    BY <2>2 DEF Announced
  <2> QED
    BY <2>1, <2>2
<1> QED
  BY <1>4, <1>6, <1>7, <1>8, <1>9

LEMMA DiskKeeps ==
  ASSUME IInv, NEW d \in Swapped, NEW disk \in BOOLEAN, diskdrv_setfddex(d, disk)
  PROVE  IInv'
<1> USE DEF IInv, PhaseInv, diskdrv_setfddex
<1>1. d \in Drives /\ DiskDelay \in 0 .. DiskDelay
  BY FdcAssumption
<1>2. delay' \in [Drives -> 0 .. DiskDelay]
  BY <1>1 DEF OtherTypes
<1>3. OtherTypes'
  BY <1>1, <1>2 DEF OtherTypes, dmac, phase, seeks, registers
<1>4. PhaseTypes'
  BY <1>1 DEF PhaseTypes, Kinds, dmac, lines, phase
<1>5. ReadyIffTransfer' /\ Lines' /\ NoStaleCount'
  BY LinesStay DEF dmac, phase, registers
<1>6. Buffer' /\ Announced'
  BY DEF Buffer, Announced, phase
<1> QED
  BY <1>3, <1>4, <1>5, <1>6

LEMMA ResetKeeps ==
  ASSUME pccore_reset, UNCHANGED media, OtherTypes
  PROVE  IInv'
<1> USE FdcAssumption DEF pccore_reset, dmac_reset
<1>1. PhaseTypes' /\ Buffer' /\ NoStaleCount'
  BY DEF PhaseTypes, Buffer, NoStaleCount, Kinds, Events, Exec
<1>2. ReadyIffTransfer' /\ Lines' /\ Announced'
  BY DEF ReadyIffTransfer, Lines, Announced, Exec
<1>3. OtherTypes'
  <2>1. 0 \in 0 .. Counts - 1 /\ 0 \in 0 .. IntDelay
    BY CountsAssumption
  <2>2. "INVALID" \in Commands /\ "none" \in Kinds
    BY DEF Commands, NoParameters, Kinds
  <2> QED
    BY <2>1, <2>2 DEF OtherTypes, media
<1> QED
  BY <1>1, <1>2, <1>3 DEF IInv, PhaseInv

-----------------------------------------------------------------------------
(* The bytes that DMA moves. w is what works after the count, which is all  *)
(* unless the count ended.                                                  *)

(* The next sector, on this side or on the other one                        *)
LEMMA NextSectorKeeps ==
  ASSUME IInv, ~Last, NEW e \in Exec, NEW q \in BOOLEAN,
         NextSector(e, q, working), UNCHANGED <<us, chgreg, intreq>>
  PROVE  PhaseInv' /\ hd' \in {0, 1}
<1> USE DEF IInv, PhaseInv
<1>1. hd' \in {0, 1} /\ us \in Drives
  BY DEF NextSector, OtherTypes
<1>2. PICK h \in {0, 1}, s \in Nat, o \in Nat : TrySector(us, h, s, o, e, q, working)
  <2>1. CASE side = 0
    <3>1. other - 1 \in Nat
      BY <2>1 DEF Last, PhaseTypes
    <3>2. TrySector(us, 1, other - 1, 0, e, q, working)
      BY <2>1 DEF NextSector
    <3> QED
      BY <3>1, <3>2
  <2>2. CASE side # 0
    <3>1. side - 1 \in Nat /\ other \in Nat /\ hd \in {0, 1}
      BY <2>2 DEF PhaseTypes, OtherTypes
    <3>2. TrySector(us, hd, side - 1, other, e, q, working)
      BY <2>2 DEF NextSector
    <3> QED
      BY <3>1, <3>2
  <2> QED
    BY <2>1, <2>2
<1>3. CASE Send7(us, working)
  BY <1>1, <1>3, Send7Keeps
<1>4. CASE Sector(us, Unit(us, h), s, o, e, q, working)
  <2>1. Unit(us, h) \in {"none", "unit"} /\ {"none", "unit"} \subseteq Kinds
    BY <1>1, UnitIsKind DEF Kinds
  <2> DEFINE st == Unit(us, h)
  <2>2. st \in Kinds /\ st \in {"none", "unit"}
    BY <2>1
  <2>3. Sector(us, st, s, o, e, q, working)
    BY <1>4
  <2> HIDE DEF st
  <2> QED
    BY <1>1, <2>2, <2>3, SectorKeeps
<1> QED
  BY <1>1, <1>2, <1>3, <1>4 DEF TrySector

LEMMA MiddleKeeps ==
  ASSUME IInv, event \in Exec, bufcnt # 1, Middle(FALSE, working),
         UNCHANGED <<chgreg, intreq>>
  PROVE  PhaseInv' /\ hd' = hd
<1> USE DEF IInv, PhaseInv, Middle, Counted
<1>1. UNCHANGED <<lines, event, rqm, dio, side, other, hd, stat, fdcint, tc>>
  BY DEF lines, NoStaleCount, PhaseTypes
<1>2. bufcnt' \in Nat /\ bufcnt' > 0
  BY DEF Buffer, PhaseTypes
<1>3. PhaseTypes'
  BY <1>1, <1>2 DEF PhaseTypes, lines
<1>4. ReadyIffTransfer' /\ Lines' /\ NoStaleCount'
  BY <1>1, LinesStay
<1>5. Buffer' /\ Announced'
  BY <1>1, <1>2 DEF Buffer, Announced, Exec
<1> QED
  BY <1>1, <1>3, <1>4, <1>5

LEMMA ByteKeeps ==
  ASSUME IInv, NEW c \in Channels, dmax86(c)
  PROVE  IInv'
<1> USE DEF IInv, PhaseInv
<1> DEFINE t == tc \/ Terminal(c)
           w == StillWorking(c)
<1>1. event \in Exec /\ UNCHANGED <<cmd, us, seeks, registers, intreq, media>>
  BY DEF dmax86, ReadyIffTransfer
<1>2. UNCHANGED <<chgreg, intreq>> /\ us \in Drives /\ w \in SUBSET working
  BY <1>1 DEF registers, OtherTypes, StillWorking
<1>3. /\ event = "BUFSEND2" => ReadByte(t, w)
      /\ event = "BUFRECV" => WriteByte(t, w)
  BY DEF dmax86
<1>4. ~t => t = FALSE /\ w = working
  BY DEF StillWorking, NoStaleCount, PhaseTypes
<1>5. leng' \in [Channels -> 0 .. Counts - 1]
  <2>1. \A n \in 0 .. Counts - 1 : (n + Counts - 1) % Counts \in 0 .. Counts - 1
    BY CountsAssumption
  <2> QED
    BY <2>1 DEF dmax86, CountDown, OtherTypes
<1>6. PhaseInv' /\ hd' \in {0, 1}
  <2> HIDE DEF t, w
  <2>1. CASE Send7(us, w) /\ UNCHANGED hd
    BY <1>2, <2>1, Send7Keeps DEF OtherTypes
  <2>2. ASSUME NEW e \in Exec, NEW q \in BOOLEAN, NextSector(e, q, w), ~t, ~Last
        PROVE  PhaseInv' /\ hd' \in {0, 1}
    BY <1>1, <1>2, <1>4, <2>2, NextSectorKeeps
  <2>3. CASE Middle(t, w) /\ ~t /\ bufcnt # 1
    BY <1>1, <1>2, <1>4, <2>3, MiddleKeeps DEF OtherTypes
  <2>4. CASE event = "BUFSEND2"
    <3>1. ReadByte(t, w)
      BY <1>3, <2>4
    <3>2. CASE t \/ (bufcnt = 1 /\ Last)
      BY <2>1, <3>1, <3>2 DEF ReadByte
    <3>3. CASE ~t /\ bufcnt = 1 /\ ~Last
      <4>1. NextSector("BUFSEND2", TRUE, w)
        BY <3>1, <3>3 DEF ReadByte
      <4> QED
        BY <2>2, <3>3, <4>1 DEF Exec
    <3>4. CASE ~t /\ bufcnt # 1
      BY <2>3, <3>1, <3>4 DEF ReadByte
    <3> QED
      BY <3>2, <3>3, <3>4
  <2>5. CASE event = "BUFRECV"
    <3>1. WriteByte(t, w)
      BY <1>3, <2>5
    <3>2. CASE ~(t \/ bufcnt = 1)
      BY <2>3, <3>1, <3>2 DEF WriteByte
    <3>3. CASE (t \/ bufcnt = 1) /\ cmd = "FORMAT"
      <4>1. Formatted(t, w)
        BY <3>1, <3>3 DEF WriteByte
      <4>2. CASE Send7(us, w)
        BY <2>1, <4>1, <4>2 DEF Formatted
      <4>3. CASE ~Send7(us, w)
        <5>1. ~t /\ Sector(us, stat[us], side, other, "BUFRECV", TRUE, w)
              /\ hd' = hd
          BY <4>1, <4>3 DEF Formatted
        <5>2. stat[us] \in Kinds
          BY <1>2 DEF PhaseTypes
        <5>3. Sector(us, stat[us], side, other, "BUFRECV", TRUE, working)
          BY <1>4, <5>1
        <5>4. side \in Nat /\ other \in Nat /\ "BUFRECV" \in Exec /\ TRUE \in BOOLEAN
              /\ hd' \in {0, 1}
          BY <5>1 DEF Exec, PhaseTypes, OtherTypes
        <5>5. IInv
          OBVIOUS
        <5> HIDE DEF IInv, PhaseInv
        <5> QED
          BY <1>2, <5>2, <5>3, <5>4, <5>5, SectorKeeps
      <4> QED
        BY <4>2, <4>3
    <3>4. CASE (t \/ bufcnt = 1) /\ cmd # "FORMAT"
      <4>1. Written(t, w)
        BY <3>1, <3>4 DEF WriteByte
      <4>2. CASE t \/ Last
        BY <2>1, <4>1, <4>2 DEF Written
      <4>3. CASE ~t /\ ~Last
        <5>1. NextSector("BUFRECV", FALSE, w)
          BY <4>1, <4>3 DEF Written
        <5> QED
          BY <2>2, <4>3, <5>1 DEF Exec
      <4> QED
        BY <4>2, <4>3
    <3> QED
      BY <3>2, <3>3, <3>4
  <2> QED
    BY <1>1, <2>4, <2>5 DEF Exec
<1>7. OtherTypes'
  BY <1>1, <1>5, <1>6 DEF OtherTypes, seeks, registers, media
<1> QED
  BY <1>6, <1>7

-----------------------------------------------------------------------------
LEMMA StepInv ==
  ASSUME IInv, [Next]_vars
  PROVE  IInv'
<1>1. CASE GuestCommand
  BY <1>1, GuestCommandKeeps
<1>2. CASE ReadResult
  BY <1>2, ReadResultKeeps
<1>3. CASE GuestMasks
  BY <1>3, MasksKeep
<1>4. CASE GuestClears
  BY <1>4, ClearsKeep
<1>5. CASE GuestControls
  BY <1>5, ControlsKeep
<1>6. CASE GuestMode
  BY <1>6, ModeKeeps
<1>7. CASE \E c \in Channels : dmax86(c)
  BY <1>7, ByteKeeps
<1>8. CASE fdc_intwait
  BY <1>8, WaitKeeps
<1>9. CASE Frame
  BY <1>9, FrameKeeps
<1>10. CASE \E d \in Swapped, disk \in BOOLEAN : diskdrv_setfddex(d, disk)
  BY <1>10, DiskKeeps
<1>11. CASE pccore_reset
  BY <1>11, ResetKeeps DEF IInv, pccore_reset
<1>12. CASE UNCHANGED vars
  BY <1>12 DEF vars, dmac, lines, phase, position, seeks, registers, interrupt,
    media, IInv, PhaseInv, PhaseTypes, OtherTypes, ReadyIffTransfer, Channel,
    Lines, NoStaleCount, Buffer, Announced
<1> QED
  BY <1>1, <1>2, <1>3, <1>4, <1>5, <1>6, <1>7, <1>8, <1>9, <1>10, <1>11, <1>12
  DEF Next

LEMMA Invariance == Spec => []IInv
BY InitInv, StepInv, PTL DEF Spec

(* Every variable keeps its range.                                          *)
THEOREM TypeCorrect == Spec => []TypeOK
BY Invariance, InvImplies, PTL

(* A DMA channel is ready, and works, during transfers and only then.       *)
THEOREM ReadyDuringTransfers == Spec => []ReadyIffTransfer
BY Invariance, InvImplies, PTL

(* A terminal count never outlives the byte that it came with.              *)
THEOREM CountIsConsumed == Spec => []NoStaleCount
BY Invariance, InvImplies, PTL

(* What waits for the guest was announced by an interrupt.                  *)
THEOREM NothingWaitsUnannounced == Spec => []Announced
BY Invariance, InvImplies, PTL

(* A transfer that is not masked has its channel working.                   *)
THEOREM TransfersGoOn == Spec => []NotStalled
BY Invariance, InvImplies, PTL
=============================================================================
