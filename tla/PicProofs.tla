----------------------------- MODULE PicProofs -----------------------------
(* What holds of the interrupt controllers for any number of lines, set of  *)
(* devices and masks, and for both kinds of guest.                          *)
EXTENDS Pic, SequenceTheorems, WellFoundedInduction, TLAPS

AnyNext == Machine \/ FreeGuest \/ Orderly \/ EndHandler

LEMMA LinesAreNat == N \in Nat \ {0} /\ \A l \in Lines : l \in Nat /\ l < N
BY LinesAssumption DEF Lines

LEMMA RankIsNat ==
  ASSUME NEW c \in Pics, NEW l \in Lines, pry[c] \in Lines
  PROVE  Rank(c, l) \in Nat
<1>1. l + N - pry[c] \in Nat /\ N \in Nat \ {0}
  BY LinesAreNat
<1>2. \A x \in Nat, y \in Nat \ {0} : x % y \in Nat
  OBVIOUS
<1> QED
  BY <1>1, <1>2 DEF Rank

LEMMA LessThan == OpToRel(<, Nat) = {p \in Nat \X Nat : p[1] < p[2]}
BY Zenon DEF OpToRel

(* The search for the first line ends, at the line of highest priority.     *)
LEMMA FirstIsHighest ==
  ASSUME NEW c \in Pics, pry[c] \in Lines, NEW S \in SUBSET Lines, S # {}
  PROVE  /\ First(c, S) \in S
         /\ \A k \in S : Rank(c, First(c, S)) <= Rank(c, k)
<1> DEFINE T == {Rank(c, k) : k \in S}
<1>1. T \subseteq Nat /\ T # {}
  BY RankIsNat
<1>2. PICK x \in T : \A y \in T : ~(<<y, x>> \in OpToRel(<, Nat))
  BY <1>1, WFMin, NatLessThanWellFounded
<1>3. \A y \in T : x <= y
  <2>1. \A y \in T : <<y, x>> \notin {p \in Nat \X Nat : p[1] < p[2]}
    BY <1>2, LessThan, Zenon
  <2>2. ASSUME NEW y \in T PROVE x <= y
    <3>1. x \in Nat /\ y \in Nat
      BY <1>1
    <3> HIDE DEF T
    <3>2. ~(y < x)
      BY <2>1, <2>2, <3>1
    <3> QED
      BY <3>1, <3>2
  <2> QED
    BY <2>2
<1>4. PICK l \in S : x = Rank(c, l)
  OBVIOUS
<1>5. \A k \in S : Rank(c, l) <= Rank(c, k)
  BY <1>3, <1>4
<1> QED
  BY <1>5 DEF First

(* Types, which the searches need, and the vertical sync that is owed.      *)
IInv == TypeOK /\ VsyncKept

LEMMA InitInv == Init => IInv
<1> SUFFICES ASSUME Init PROVE IInv
  OBVIOUS
<1>1. TypeOK
  <2>1. 0 \in Lines
    BY LinesAreNat DEF Lines
  <2>2. irr \in [Pics -> SUBSET Lines] /\ imr \in [Pics -> SUBSET Lines]
        /\ isr \in [Pics -> SUBSET Lines] /\ pry \in [Pics -> Lines]
    BY <2>1, LinesAssumption DEF Init
  <2>3. ris \in [Pics -> BOOLEAN] /\ smm \in [Pics -> BOOLEAN]
        /\ writeicw \in [Pics -> 0 .. 3] /\ ic4 \in [Pics -> BOOLEAN]
    BY DEF Init
  <2>4. phase \in Phases /\ handlers \in Seq(Pics \X Lines) /\ ending \in Endings
    BY DEF Init, Phases, Endings
  <2> QED
    BY <2>2, <2>3, <2>4 DEF Init, TypeOK
<1>2. VsyncKept
  BY DEF Init, VsyncKept
<1> QED
  BY <1>1, <1>2 DEF IInv

LEMMA UnmaskedLines ==
  ASSUME TypeOK, NEW c \in Pics
  PROVE  Unmasked(c) \in SUBSET Lines /\ Competing(c) \in SUBSET Lines
BY LinesAssumption DEF TypeOK, Unmasked, Competing, Pics

-----------------------------------------------------------------------------
(* The main loop                                                           *)

LEMMA AcceptInv ==
  ASSUME IInv, phase' = "run", one' = FALSE,
         NEW c \in Pics, NEW l \in Lines, Accept(c, l)
  PROVE  IInv'
<1> USE DEF IInv
<1>1. irr' \in [Pics -> SUBSET Lines] /\ isr' \in [Pics -> SUBSET Lines]
  BY LinesAssumption DEF Accept, InService, TypeOK, Pics
<1>2. handlers' \in Seq(Pics \X Lines)
  BY DEF Accept, TypeOK
<1>3. picmasked' \in BOOLEAN /\ armed' \in BOOLEAN /\ ei' \in BOOLEAN
  BY DEF Accept, TypeOK
<1>4. TypeOK'
  BY <1>1, <1>2, <1>3 DEF Accept, TypeOK, Phases
<1>5. VsyncKept'
  <2> SUFFICES ASSUME armed' PROVE vsyncint' \/ CRTV \in irr'["master"]
    BY DEF VsyncKept
  <2>1. armed /\ (<<c, l>> # <<"master", CRTV>> \/ vsyncint) /\ vsyncint' = vsyncint
    BY DEF Accept
  <2>2. CASE vsyncint
    BY <2>1, <2>2
  <2>3. CASE ~vsyncint
    <3>1. CRTV \in irr["master"] /\ ~(c = "master" /\ l = CRTV)
      BY <2>1, <2>3 DEF VsyncKept
    <3>2. CRTV \in irr'["master"]
      BY <3>1, LinesAssumption DEF Accept, TypeOK, Pics
    <3> QED
      BY <3>2
  <2> QED
    BY <2>2, <2>3
<1> QED
  BY <1>4, <1>5

LEMMA PicIrqInv ==
  ASSUME IInv, pic_irq
  PROVE  IInv'
<1>1. phase' = "run" /\ one' = FALSE
  BY DEF pic_irq
<1>2. ASSUME NEW c \in Pics, NEW l \in Lines, Accept(c, l) PROVE IInv'
  BY <1>1, <1>2, AcceptInv
<1>3. CASE UNCHANGED <<pi, picmasked, vsyncint, ei, guest, armed>>
  BY <1>1, <1>3 DEF pi, guest, IInv, TypeOK, VsyncKept, Phases
<1> QED
  BY <1>2, <1>3 DEF pic_irq

LEMMA SetIrqType ==
  ASSUME TypeOK, NEW c \in Pics, NEW l \in Lines, pic_setirq(c, l),
         vsyncint' \in BOOLEAN, UNCHANGED <<ei, phase, one, guest, armed>>
  PROVE  TypeOK'
<1>1. irr' \in [Pics -> SUBSET Lines]
  BY DEF pic_setirq, TypeOK
<1>2. picmasked' \in BOOLEAN
  BY DEF pic_setirq, TypeOK
<1> QED
  BY <1>1, <1>2 DEF pic_setirq, TypeOK, guest

LEMMA CallbackInv ==
  ASSUME IInv, Callback
  PROVE  IInv'
<1> USE DEF IInv
<1>1. UNCHANGED <<ei, phase, one, guest>>
  BY DEF Callback
<1>2. ASSUME NEW q \in Irqs, Request(q[1], q[2]) PROVE IInv'
  <2>1. q[1] \in Pics /\ q[2] \in Lines /\ ~(q[1] = "master" /\ q[2] = CRTV)
    BY <1>2, LinesAssumption
  <2>2. TypeOK'
    BY <1>1, <1>2, <2>1, SetIrqType DEF Request, TypeOK
  <2>3. VsyncKept'
    BY <1>2, <2>1 DEF Request, pic_setirq, PutOff, VsyncKept, TypeOK, Pics
  <2> QED
    BY <2>2, <2>3
<1>3. CASE screenvsync
  <2>1. "master" \in Pics /\ CRTV \in Lines
    BY LinesAssumption DEF Pics
  <2>2. vsyncint' \in BOOLEAN
    BY <1>3 DEF screenvsync, PutOff
  <2>3. TypeOK'
    BY <1>1, <1>3, <2>1, <2>2, SetIrqType DEF screenvsync
  <2>4. vsyncint' \/ CRTV \in irr'["master"]
    BY <1>3 DEF screenvsync, pic_setirq, PutOff, TypeOK, Pics
  <2> QED
    BY <2>3, <2>4 DEF VsyncKept
<1>4. CASE screendisp
  <2>1. irr' \in [Pics -> SUBSET Lines] /\ vsyncint' = TRUE
    BY <1>4 DEF screendisp, Again, TypeOK
  <2> QED
    BY <1>1, <1>4, <2>1 DEF screendisp, TypeOK, VsyncKept, guest
<1>5. CASE picmask
  <2>1. irr' \in [Pics -> SUBSET Lines]
    BY <1>5 DEF picmask, TypeOK
  <2>2. TypeOK'
    BY <1>1, <1>5, <2>1 DEF picmask, TypeOK, guest
  <2>3. CRTV \in irr["master"] => CRTV \in irr'["master"]
    BY <1>5, LinesAssumption DEF picmask, TypeOK, Pics
  <2> QED
    BY <1>5, <2>2, <2>3 DEF picmask, VsyncKept
<1> QED
  BY <1>2, <1>3, <1>4, <1>5 DEF Callback
-----------------------------------------------------------------------------
(* The guest's instructions: the types first, then the vertical sync.       *)

RegistersOK ==
  /\ irr \in [Pics -> SUBSET Lines]
  /\ imr \in [Pics -> SUBSET Lines]
  /\ isr \in [Pics -> SUBSET Lines]
  /\ pry \in [Pics -> Lines]
  /\ ris \in [Pics -> BOOLEAN] /\ smm \in [Pics -> BOOLEAN]
  /\ writeicw \in [Pics -> 0 .. 3] /\ ic4 \in [Pics -> BOOLEAN]

MachineOK ==
  /\ picmasked \in BOOLEAN /\ vsyncint \in BOOLEAN
  /\ ei \in BOOLEAN /\ one \in BOOLEAN /\ armed \in BOOLEAN
  /\ phase \in Phases

GuestOK == handlers \in Seq(Pics \X Lines) /\ ending \in Endings

LEMMA NextLine == \A l \in Lines : (l + 1) % N \in Lines
<1>1. \A x \in Nat, y \in Nat \ {0} : x % y \in Nat /\ x % y < y
  OBVIOUS
<1> QED
  BY <1>1, LinesAreNat DEF Lines

LEMMA OCW2Keeps ==
  ASSUME IInv, NEW c \in Pics, NEW r, NEW sl, NEW eoi, NEW n \in Lines,
         OCW2(c, r, sl, eoi, n)
  PROVE  RegistersOK' /\ MachineOK' /\ VsyncKept'
<1> USE DEF IInv
<1>1. UNCHANGED <<irr, imr, ris, smm, ic4, picmasked, vsyncint, ei, armed>>
  BY DEF OCW2
<1>2. phase' \in Phases /\ one' = FALSE
  BY DEF OCW2, Instruction, Phases
<1>3. writeicw' \in [Pics -> 0 .. 3]
  BY DEF OCW2, TypeOK
<1>4. isr' \in [Pics -> SUBSET Lines]
  BY DEF OCW2, TypeOK
<1>5. pry' \in [Pics -> Lines]
  <2>1. CASE pry' = pry
    BY <2>1 DEF TypeOK
  <2>2. CASE pry' # pry
    <3>1. pry' = [pry EXCEPT ![c] = (Level(c, sl, n) + 1) % N] /\ (sl \/ isr[c] # {})
      BY <2>2 DEF OCW2
    <3>2. Level(c, sl, n) \in Lines
      <4>1. CASE sl
        BY <4>1 DEF Level
      <4>2. CASE ~sl
        <5>1. pry[c] \in Lines /\ isr[c] \in SUBSET Lines /\ isr[c] # {}
          BY <3>1, <4>2 DEF TypeOK
        <5>2. First(c, isr[c]) \in isr[c]
          BY <5>1, FirstIsHighest
        <5> QED
          BY <4>2, <5>1, <5>2 DEF Level
      <4> QED
        BY <4>1, <4>2
    <3> QED
      BY <3>1, <3>2, NextLine DEF TypeOK
  <2> QED
    BY <2>1, <2>2
<1> QED
  BY <1>1, <1>2, <1>3, <1>4, <1>5 DEF TypeOK, RegistersOK, MachineOK, VsyncKept

LEMMA OCW3Keeps ==
  ASSUME IInv, NEW c \in Pics, NEW rr \in BOOLEAN, NEW r \in BOOLEAN,
         NEW esmm \in BOOLEAN, NEW s \in BOOLEAN, OCW3(c, rr, r, esmm, s)
  PROVE  RegistersOK' /\ MachineOK' /\ VsyncKept'
<1> USE DEF IInv
<1>1. UNCHANGED <<irr, imr, isr, pry, ic4, picmasked, vsyncint, ei, armed>>
  BY DEF OCW3
<1>2. phase' \in Phases /\ one' = FALSE
  BY DEF OCW3, Instruction, Phases
<1>3. writeicw' \in [Pics -> 0 .. 3]
  BY DEF OCW3, TypeOK
<1>4. ris' \in [Pics -> BOOLEAN] /\ smm' \in [Pics -> BOOLEAN]
  <2>1. (r \/ (~rr /\ ris[c])) \in BOOLEAN
    OBVIOUS
  <2>2. (IF rr /\ esmm THEN s ELSE smm[c]) \in BOOLEAN
    BY DEF TypeOK
  <2>3. ris' = [ris EXCEPT ![c] = r \/ (~rr /\ ris[c])]
    BY DEF OCW3
  <2>4. smm' = [smm EXCEPT ![c] = IF rr /\ esmm THEN s ELSE smm[c]]
    BY DEF OCW3
  <2>5. ris' \in [Pics -> BOOLEAN]
    BY <2>1, <2>3 DEF TypeOK
  <2>6. smm' \in [Pics -> BOOLEAN]
    BY <2>2, <2>4 DEF TypeOK
  <2> QED
    BY <2>5, <2>6
<1> QED
  BY <1>1, <1>2, <1>3, <1>4 DEF TypeOK, RegistersOK, MachineOK, VsyncKept

LEMMA ICW1Keeps ==
  ASSUME IInv, NEW c \in Pics, NEW four \in BOOLEAN, ICW1(c, four)
  PROVE  RegistersOK' /\ MachineOK' /\ VsyncKept'
<1> USE DEF IInv
<1>1. UNCHANGED <<isr, picmasked, vsyncint, ei>>
  BY DEF ICW1
<1>2. phase' \in Phases /\ one' = FALSE
  BY DEF ICW1, Instruction, Phases
<1>3. 0 \in Lines /\ armed' \in BOOLEAN
  BY LinesAreNat DEF ICW1, Lines, TypeOK
<1>4. RegistersOK'
  BY <1>1, <1>3 DEF ICW1, TypeOK, RegistersOK
<1>5. VsyncKept'
  BY DEF ICW1, VsyncKept, TypeOK, Pics
<1> QED
  BY <1>1, <1>2, <1>3, <1>4, <1>5 DEF TypeOK, MachineOK

LEMMA MaskKeeps ==
  ASSUME IInv, NEW c \in Pics, NEW dat \in SUBSET Lines, pic_o02(c, dat)
  PROVE  RegistersOK' /\ MachineOK' /\ VsyncKept'
<1> USE DEF IInv
<1>1. UNCHANGED <<irr, isr, pry, ris, smm, ic4, picmasked, vsyncint, ei, armed>>
  BY DEF pic_o02
<1>2. phase' \in Phases /\ one' = FALSE
  BY DEF pic_o02, Instruction, Phases
<1>3. imr' \in [Pics -> SUBSET Lines]
  BY DEF pic_o02, TypeOK
<1>4. writeicw' \in [Pics -> 0 .. 3]
  <2>1. writeicw[c] \in 0 .. 3 /\ Complete(c) \in {3, 4}
    BY DEF TypeOK, Complete
  <2>2. (IF writeicw[c] + 1 >= Complete(c) THEN 0 ELSE writeicw[c] + 1) \in 0 .. 3
    BY <2>1
  <2> QED
    BY <2>2 DEF pic_o02, TypeOK
<1> QED
  BY <1>1, <1>2, <1>3, <1>4 DEF TypeOK, RegistersOK, MachineOK, VsyncKept

LEMMA ResetIrqKeeps ==
  ASSUME IInv, NEW q \in Irqs, pic_resetirq(q[1], q[2])
  PROVE  RegistersOK' /\ MachineOK' /\ VsyncKept'
<1> USE DEF IInv
<1>1. q[1] \in Pics /\ q[2] \in Lines /\ ~(q[1] = "master" /\ q[2] = CRTV)
  BY LinesAssumption
<1>2. UNCHANGED <<imr, isr, pry, ris, smm, writeicw, ic4, picmasked, vsyncint, ei, armed>>
  BY DEF pic_resetirq
<1>3. phase' \in Phases /\ one' = FALSE
  BY DEF pic_resetirq, Instruction, Phases
<1>4. irr' \in [Pics -> SUBSET Lines]
  BY DEF pic_resetirq, TypeOK
<1>5. CRTV \in irr["master"] => CRTV \in irr'["master"]
  BY <1>1 DEF pic_resetirq, TypeOK, Pics
<1> QED
  BY <1>2, <1>3, <1>4, <1>5 DEF TypeOK, RegistersOK, MachineOK, VsyncKept

LEMMA FlagsKeep ==
  ASSUME IInv, Sti \/ Cli \/ Nop \/ gdc_o64 \/ \E flag \in BOOLEAN : Popf(flag)
  PROVE  RegistersOK' /\ MachineOK' /\ VsyncKept'
<1> USE DEF IInv
<1>1. UNCHANGED pi
  BY DEF Sti, Cli, Nop, gdc_o64, Popf
<1>2. RegistersOK'
  BY <1>1 DEF pi, TypeOK, RegistersOK
<1>3. phase' \in Phases /\ one' \in BOOLEAN
  BY DEF Sti, Cli, Nop, gdc_o64, Popf, Instruction, StiEnds, Phases
<1>4. picmasked' = picmasked /\ ei' \in BOOLEAN
  BY DEF Sti, Cli, Nop, gdc_o64, Popf, TypeOK
<1>5. (UNCHANGED <<vsyncint, armed>>) \/ (vsyncint' = TRUE /\ armed' = TRUE)
  BY DEF Sti, Cli, Nop, gdc_o64, Popf
<1>6. MachineOK'
  BY <1>3, <1>4, <1>5 DEF MachineOK, TypeOK
<1>7. VsyncKept'
  BY <1>1, <1>5 DEF pi, VsyncKept
<1> QED
  BY <1>2, <1>6, <1>7

(* What is left of an instruction is what it leaves to the guest.            *)
LEMMA Combined ==
  ASSUME GuestOK', RegistersOK' /\ MachineOK' /\ VsyncKept'
  PROVE  IInv'
<1>1. TypeOK'
  BY DEF TypeOK, RegistersOK, MachineOK, GuestOK
<1> QED
  BY <1>1 DEF IInv

LEMMA FreeGuestInv ==
  ASSUME IInv, FreeGuest
  PROVE  IInv'
<1>1. GuestOK'
  <2>1. handlers' \in Seq(Pics \X Lines)
    BY DEF FreeGuest
  <2>2. ending' \in Endings
    BY DEF FreeGuest, IInv, TypeOK
  <2> QED
    BY <2>1, <2>2 DEF GuestOK
<1>2. CASE \E c \in Pics, r, sl, eoi \in BOOLEAN, n \in Lines : OCW2(c, r, sl, eoi, n)
  BY <1>1, <1>2, OCW2Keeps, Combined
<1>3. CASE \E c \in Pics, rr, esmm, s \in BOOLEAN : OCW3(c, rr, FALSE, esmm, s)
  BY <1>1, <1>3, OCW3Keeps, Combined
<1>4. CASE \E c \in Pics, four \in BOOLEAN : ICW1(c, four)
  BY <1>1, <1>4, ICW1Keeps, Combined
<1>5. CASE \E c \in Pics : \E dat \in Masks[c] : pic_o02(c, dat)
  BY <1>1, <1>5, MaskKeeps, LinesAssumption, Combined
<1>6. CASE \E q \in Irqs : pic_resetirq(q[1], q[2])
  BY <1>1, <1>6, ResetIrqKeeps, Combined
<1>7. CASE Sti \/ Cli \/ Nop \/ gdc_o64 \/ \E flag \in BOOLEAN : Popf(flag)
  BY <1>1, <1>7, FlagsKeep, Combined
<1> QED
  BY <1>2, <1>3, <1>4, <1>5, <1>6, <1>7, Zenon DEF FreeGuest

LEMMA OrderlyInv ==
  ASSUME IInv, Orderly
  PROVE  IInv'
<1>1. GuestOK'
  BY DEF Orderly, guest, GuestOK, IInv, TypeOK
<1>2. CASE \E c \in Pics : \E dat \in Masks[c] : writeicw[c] = 0 /\ pic_o02(c, dat)
  BY <1>1, <1>2, MaskKeeps, LinesAssumption, Combined
<1>3. CASE \E q \in Irqs : pic_resetirq(q[1], q[2])
  BY <1>1, <1>3, ResetIrqKeeps, Combined
<1>4. CASE Sti \/ Cli \/ Nop \/ gdc_o64
  BY <1>1, <1>4, FlagsKeep, Combined
<1> QED
  BY <1>2, <1>3, <1>4, Zenon DEF Orderly

LEMMA EoiKeeps ==
  ASSUME IInv, NEW c \in Pics, EOI(c)
  PROVE  RegistersOK' /\ MachineOK' /\ VsyncKept'
<1>1. PICK r \in BOOLEAN : OCW2(c, r, FALSE, TRUE, 0)
  BY DEF EOI
<1>2. 0 \in Lines
  BY LinesAreNat DEF Lines
<1> QED
  BY <1>1, <1>2, OCW2Keeps

LEMMA FrontAndLast ==
  ASSUME NEW S, NEW s \in Seq(S), s # <<>>
  PROVE  Last(s) \in S /\ Front(s) \in Seq(S) /\ Len(Front(s)) < Len(s)
<1>1. Len(s) \in Nat /\ Len(s) # 0
  BY EmptySeq
<1>2. Last(s) \in S
  BY <1>1, ElementOfSeq DEF Last
<1>3. Front(s) \in Seq(S)
  BY <1>1, SubSeqProperties DEF Front
<1>4. Len(Front(s)) < Len(s)
  <2> DEFINE n == Len(s) - 1
  <2>1. n \in Nat /\ \A i \in 1 .. n : s[i] \in S
    BY <1>1, ElementOfSeq
  <2>2. Len(SubSeq(s, 1, n)) = IF 1 <= n THEN n - 1 + 1 ELSE 0
    <3> HIDE DEF n
    <3> QED
      BY <2>1, SubSeqProperties
  <2>3. Len(SubSeq(s, 1, n)) < Len(s)
    BY <1>1, <2>2
  <2> QED
    BY <2>3 DEF Front
<1> QED
  BY <1>2, <1>3, <1>4

LEMMA EndHandlerInv ==
  ASSUME IInv, EndHandler
  PROVE  IInv'
<1>1. handlers \in Seq(Pics \X Lines) /\ handlers # <<>>
  BY DEF EndHandler, IInv, TypeOK
<1>2. Last(handlers)[1] \in Pics
  <2>1. Last(handlers) \in Pics \X Lines
    BY <1>1, FrontAndLast
  <2> QED
    BY <2>1
<1>3. Front(handlers) \in Seq(Pics \X Lines)
  BY <1>1, FrontAndLast
<1>4. GuestOK'
  BY <1>1, <1>3 DEF EndHandler, GuestOK, Endings
<1>5. \/ \E c \in Pics : EOI(c)
      \/ OCW3("slave", TRUE, TRUE, FALSE, FALSE)
      \/ Nop
      \/ Popf(TRUE)
  BY <1>2 DEF EndHandler, Pics
<1>6. CASE \E c \in Pics : EOI(c)
  BY <1>4, <1>6, EoiKeeps, Combined
<1>7. CASE OCW3("slave", TRUE, TRUE, FALSE, FALSE)
  <2>1. "slave" \in Pics
    BY DEF Pics
  <2> QED
    BY <1>4, <1>7, <2>1, OCW3Keeps, Combined
<1>8. CASE Nop \/ Popf(TRUE)
  BY <1>4, <1>8, FlagsKeep, Combined
<1> QED
  BY <1>5, <1>6, <1>7, <1>8

LEMMA ResetInv ==
  ASSUME IInv, pccore_reset
  PROVE  IInv'
<1>1. 0 \in Lines
  BY LinesAreNat DEF Lines
<1>2. RegistersOK'
  BY <1>1, LinesAssumption DEF pccore_reset, RegistersOK
<1>3. MachineOK'
  BY DEF pccore_reset, MachineOK, IInv, TypeOK
<1>5. GuestOK'
  <2>1. handlers' \in Seq(Pics \X Lines)
    BY DEF pccore_reset
  <2>2. ending' \in Endings
    BY DEF pccore_reset, Endings
  <2> QED
    BY <2>1, <2>2 DEF GuestOK
<1>4. VsyncKept'
  BY DEF pccore_reset, VsyncKept
<1> QED
  BY <1>2, <1>3, <1>4, <1>5, Combined

LEMMA NextInv ==
  ASSUME IInv, [AnyNext]_vars
  PROVE  IInv'
<1>1. CASE pic_irq
  BY <1>1, PicIrqInv
<1>2. CASE Callback
  BY <1>2, CallbackInv
<1>3. CASE nevent_progress
  BY <1>3 DEF nevent_progress, pi, guest, IInv, TypeOK, VsyncKept, Phases
<1>4. CASE pccore_reset
  BY <1>4, ResetInv
<1>5. CASE FreeGuest
  BY <1>5, FreeGuestInv
<1>6. CASE Orderly
  BY <1>6, OrderlyInv
<1>7. CASE EndHandler
  BY <1>7, EndHandlerInv
<1>8. CASE UNCHANGED vars
  BY <1>8 DEF vars, pi, guest, IInv, TypeOK, VsyncKept
<1> QED
  BY <1>1, <1>2, <1>3, <1>4, <1>5, <1>6, <1>7, <1>8 DEF AnyNext, Machine

-----------------------------------------------------------------------------
(* What is accepted                                                        *)

LEMMA WinnerIsClear ==
  ASSUME TypeOK, NEW c \in Pics, NEW l \in Lines, Wins(c, l)
  PROVE  l \in Competing(c) /\ Clear(c, l)
<1>1. Competing(c) \in SUBSET Lines /\ Competing(c) # {} /\ pry[c] \in Lines
  BY UnmaskedLines DEF Wins, Competing, TypeOK
<1>2. l \in Competing(c) /\ \A k \in Competing(c) : Rank(c, l) <= Rank(c, k)
  BY <1>1, FirstIsHighest DEF Wins
<1>3. \A k \in Lines : Rank(c, k) \in Nat
  BY <1>1, RankIsNat
<1>4. Above(c, l) \cap Competing(c) = {}
  BY <1>2, <1>3 DEF Above
<1> QED
  BY <1>2, <1>4 DEF Clear, Competing

LEMMA AcceptedIsPrior ==
  ASSUME TypeOK, NEW c \in Pics, NEW l \in Lines, Acceptable(c, l)
  PROVE  Prior(c, l)
<1>1. Wins(c, l) /\ l \notin isr[c]
  BY DEF Acceptable, Pics
<1>2. l \in Unmasked(c) /\ Clear(c, l)
  BY <1>1, WinnerIsClear DEF Competing
<1>3. ASSUME c = "slave"
      PROVE  SLAVE \in Unmasked("master") \cup isr["master"] /\ Clear("master", SLAVE)
  <2>1. Wins("master", SLAVE) /\ "master" \in Pics /\ SLAVE \in Lines
    BY <1>3, LinesAssumption DEF Acceptable, Pics
  <2>2. SLAVE \in Competing("master") /\ Clear("master", SLAVE)
    BY <2>1, WinnerIsClear
  <2> QED
    BY <2>2 DEF Competing
<1> QED
  BY <1>2, <1>3 DEF Prior

(* Only an acceptance makes the handlers more.                              *)
LEMMA MoreHandlers ==
  ASSUME IInv, [AnyNext]_vars,
         NEW c \in Pics, NEW l \in Lines,
         Len(handlers') > Len(handlers), Last(handlers') = <<c, l>>
  PROVE  Prior(c, l)
<1>1. handlers \in Seq(Pics \X Lines) /\ Len(handlers) \in Nat
  BY DEF IInv, TypeOK
<1>2. handlers' # handlers /\ handlers' # <<>>
  <2>1. CASE handlers' = handlers
    BY <1>1, <2>1
  <2>2. CASE handlers' = <<>>
    <3>1. Len(<<>>) = 0
      OBVIOUS
    <3> QED
      BY <1>1, <2>2, <3>1
  <2> QED
    BY <2>1, <2>2
<1>3. ~EndHandler
  <2> SUFFICES ASSUME EndHandler PROVE FALSE
    OBVIOUS
  <2>1. handlers' = Front(handlers) /\ handlers # <<>>
    BY <1>2 DEF EndHandler
  <2>2. Front(handlers) \in Seq(Pics \X Lines) /\ Len(Front(handlers)) < Len(handlers)
    BY <1>1, <2>1, FrontAndLast
  <2> QED
    BY <1>1, <2>1, <2>2
<1>4. pic_irq
  BY <1>2, <1>3 DEF AnyNext, Machine, FreeGuest, Orderly, Callback, nevent_progress,
                    pccore_reset, vars, guest
<1>5. PICK d \in Pics, k \in Lines : Accept(d, k)
  BY <1>2, <1>4 DEF pic_irq, guest
<1>6. handlers' = Append(handlers, <<d, k>>) /\ <<d, k>> \in Pics \X Lines
  BY <1>5 DEF Accept
<1>7. Last(handlers') = <<d, k>>
  BY <1>1, <1>6, AppendProperties DEF Last
<1>8. c = d /\ l = k
  BY <1>7
<1> QED
  BY <1>5, <1>8, AcceptedIsPrior DEF Accept, IInv

-----------------------------------------------------------------------------

THEOREM Invariance ==
  /\ FreeSpec => []IInv
  /\ OrderlySpec => []IInv
<1>1. IInv /\ [Machine \/ FreeGuest]_vars => IInv'
  BY NextInv DEF AnyNext
<1>2. IInv /\ [Machine \/ Orderly \/ EndHandler]_vars => IInv'
  BY NextInv DEF AnyNext
<1>3. FreeSpec => []IInv
  BY InitInv, <1>1, PTL DEF FreeSpec
<1>4. OrderlySpec => []IInv
  BY InitInv, <1>2, PTL DEF OrderlySpec
<1> QED
  BY <1>3, <1>4

(* The registers stay in range, the number of the next ICW among them.      *)
THEOREM TypeCorrect == FreeSpec => []TypeOK
<1>1. IInv => TypeOK
  BY DEF IInv
<1> QED
  BY Invariance, <1>1, PTL

(* A vertical sync interrupt that the guest asked for is not lost.          *)
THEOREM VsyncNeverLost == FreeSpec => []VsyncKept
<1>1. IInv => VsyncKept
  BY DEF IInv
<1> QED
  BY Invariance, <1>1, PTL

(* Every interrupt that is accepted is of the highest priority among the    *)
(* requests that are not masked and, but for special mask mode, in service. *)
THEOREM HighestFirst == FreeSpec => PriorityRespected
<1>1. IInv /\ [Machine \/ FreeGuest]_vars =>
        \A c \in Pics, l \in Lines :
          Len(handlers') > Len(handlers) /\ Last(handlers') = <<c, l>> => Prior(c, l)
  BY MoreHandlers DEF AnyNext
<1>2. IInv /\ [Machine \/ FreeGuest]_vars =>
        [\A c \in Pics, l \in Lines :
           Len(handlers') > Len(handlers) /\ Last(handlers') = <<c, l>> => Prior(c, l)]_vars
  BY <1>1
<1> QED
  BY Invariance, <1>2, PTL DEF FreeSpec, PriorityRespected
-----------------------------------------------------------------------------
(* The guest whose handlers end as they should: what is in service.         *)

LEMMA Remainder ==
  ASSUME NEW x \in Nat, NEW y \in Nat, x < y
  PROVE  x % y = x /\ (x + y) % y = x
<1>1. x + y = y * 1 + x /\ x = y * 0 + x
  OBVIOUS
<1> QED
  BY <1>1

(* The rank without the remainder.                                          *)
LEMMA RankIs ==
  ASSUME NEW p \in Lines, NEW l \in Lines
  PROVE  (l + N - p) % N = IF l >= p THEN l - p ELSE l + N - p
<1>1. l \in Nat /\ l < N /\ p \in Nat /\ p < N /\ N \in Nat \ {0}
  BY LinesAreNat
<1>3. CASE l >= p
  <2>1. l - p \in Nat /\ l - p < N /\ l + N - p = (l - p) + N
    BY <1>1, <1>3
  <2> QED
    BY <1>1, <1>3, <2>1, Remainder
<1>4. CASE ~(l >= p)
  <2>1. l + N - p \in Nat /\ l + N - p < N
    BY <1>1, <1>4
  <2> QED
    BY <1>1, <1>4, <2>1, Remainder
<1> QED
  BY <1>3, <1>4

(* Two lines of a controller have two ranks.                                *)
LEMMA RanksDiffer ==
  ASSUME NEW c \in Pics, NEW k \in Lines, NEW l \in Lines, pry[c] \in Lines,
         Rank(c, k) = Rank(c, l)
  PROVE  k = l
<1>1. k \in Nat /\ k < N /\ l \in Nat /\ l < N /\ pry[c] \in Nat /\ pry[c] < N /\ N \in Nat
  BY LinesAreNat
<1> QED
  BY <1>1, RankIs DEF Rank

(* Rotation by an EOI moves what is behind the level to the front, in order. *)
LEMMA Rotation ==
  ASSUME NEW c \in Pics, NEW level \in Lines, NEW k \in Lines,
         pry[c] \in Lines, pry'[c] = (level + 1) % N, Rank(c, level) < Rank(c, k)
  PROVE  Rank(c, k)' = Rank(c, k) - Rank(c, level) - 1
<1>1. k \in Nat /\ k < N /\ level \in Nat /\ level < N
      /\ pry[c] \in Nat /\ pry[c] < N /\ N \in Nat \ {0}
  BY LinesAreNat
<1>2. pry'[c] = IF level + 1 = N THEN 0 ELSE level + 1
  <2>1. CASE level + 1 = N
    <3>1. (0 + N) % N = 0
      BY <1>1, Remainder
    <3> QED
      BY <1>1, <2>1, <3>1
  <2>2. CASE level + 1 < N
    BY <1>1, <2>2, Remainder
  <2> QED
    BY <1>1, <2>1, <2>2
<1>3. pry'[c] \in Lines
  BY <1>1, <1>2 DEF Lines
<1>4. Rank(c, k)' = IF k >= pry'[c] THEN k - pry'[c] ELSE k + N - pry'[c]
  BY <1>3, RankIs DEF Rank
<1>5. Rank(c, k) = (IF k >= pry[c] THEN k - pry[c] ELSE k + N - pry[c])
      /\ Rank(c, level) = IF level >= pry[c] THEN level - pry[c] ELSE level + N - pry[c]
  BY RankIs DEF Rank
<1> DEFINE Turn(x, p) == IF x >= p THEN x - p ELSE x + N - p
<1>6. \A x, v, p \in 0 .. N - 1 :
        Turn(v, p) < Turn(x, p) =>
          Turn(x, IF v + 1 = N THEN 0 ELSE v + 1) = Turn(x, p) - Turn(v, p) - 1
  BY <1>1
<1> HIDE DEF Turn
<1>7. Rank(c, k) = Turn(k, pry[c]) /\ Rank(c, level) = Turn(level, pry[c])
      /\ Rank(c, k)' = Turn(k, pry'[c])
  BY <1>4, <1>5 DEF Turn
<1>8. Turn(level, pry[c]) < Turn(k, pry[c])
  BY <1>7
<1>9. Turn(k, pry'[c]) = Turn(k, pry[c]) - Turn(level, pry[c]) - 1
  BY <1>1, <1>2, <1>6, <1>8
<1> QED
  BY <1>7, <1>9

(* So whatever is behind the level stays in its order, rotated or not.      *)
LEMMA OrderStays ==
  ASSUME NEW c \in Pics, NEW level \in Lines, NEW k \in Lines, NEW m \in Lines,
         pry[c] \in Lines, pry'[c] = pry[c] \/ pry'[c] = (level + 1) % N,
         Rank(c, level) < Rank(c, m), Rank(c, m) < Rank(c, k)
  PROVE  Rank(c, m)' < Rank(c, k)'
<1>1. Rank(c, level) \in Nat /\ Rank(c, m) \in Nat /\ Rank(c, k) \in Nat
  BY RankIsNat
<1>2. CASE pry'[c] = pry[c]
  <2>1. Rank(c, m)' = Rank(c, m) /\ Rank(c, k)' = Rank(c, k)
    BY <1>2 DEF Rank
  <2> QED
    BY <2>1
<1>3. CASE pry'[c] = (level + 1) % N
  <2>1. Rank(c, level) < Rank(c, k)
    BY <1>1
  <2>2. Rank(c, m)' = Rank(c, m) - Rank(c, level) - 1
        /\ Rank(c, k)' = Rank(c, k) - Rank(c, level) - 1
    BY <1>3, <2>1, Rotation
  <2> QED
    BY <1>1, <2>2
<1> QED
  BY <1>2, <1>3

(* The line that handler h keeps in service at the master.                  *)
Line(h) == IF h[1] = "slave" THEN SLAVE ELSE h[2]

(* The program does not set the special mask mode, and only the slave uses  *)
(* its line.                                                                *)
Plain ==
  /\ \A c \in Pics : ~smm[c]
  /\ SLAVE \notin irr["master"]
  /\ \A i \in DOMAIN handlers : handlers[i][1] = "master" => handlers[i][2] # SLAVE

(* A handler ends with interrupts disabled. It sends the master's EOI after *)
(* a look at the slave only if the slave has nothing in service.            *)
EndingOK ==
  /\ ending # "no" => handlers # <<>> /\ ~ei
  /\ ending \in {"look", "read", "master"} => Last(handlers)[1] = "slave"
  /\ ending = "master" => isr["slave"] = {}

(* What is in service, line by line.                                        *)
Matches ==
  /\ \A l \in Lines : l \in isr["slave"] <=> \E i \in Unended : handlers[i] = <<"slave", l>>
  /\ \A l \in Lines : l \in isr["master"] <=> \E i \in Unreturned : Line(handlers[i]) = l

(* An inner handler is of a higher priority than an outer one, except that  *)
(* two handlers of the slave share its line to the master.                  *)
SlaveNested ==
  \A i, j \in Unended :
    i < j /\ handlers[i][1] = "slave" /\ handlers[j][1] = "slave" =>
      Rank("slave", handlers[j][2]) < Rank("slave", handlers[i][2])
MasterNested ==
  \A i, j \in Unreturned :
    i < j /\ ~(handlers[i][1] = "slave" /\ handlers[j][1] = "slave") =>
      Rank("master", Line(handlers[j])) < Rank("master", Line(handlers[i]))

Service == Plain /\ EndingOK /\ Matches /\ SlaveNested /\ MasterNested

LEMMA HandlerTypes ==
  ASSUME TypeOK
  PROVE  /\ handlers \in Seq(Pics \X Lines) /\ Len(handlers) \in Nat
         /\ DOMAIN handlers = 1 .. Len(handlers)
         /\ \A i \in DOMAIN handlers :
              /\ handlers[i][1] \in Pics /\ handlers[i][2] \in Lines
              /\ handlers[i] = <<handlers[i][1], handlers[i][2]>>
              /\ Line(handlers[i]) \in Lines
         /\ Unended \subseteq Unreturned /\ Unreturned \subseteq DOMAIN handlers
         /\ ending = "no" => Unended = DOMAIN handlers
         /\ ending # "iret" => Unreturned = DOMAIN handlers
<1>1. handlers \in Seq(Pics \X Lines)
  BY DEF TypeOK
<1>2. Len(handlers) \in Nat /\ DOMAIN handlers = 1 .. Len(handlers)
  BY <1>1
<1>3. ASSUME NEW i \in DOMAIN handlers
      PROVE  /\ handlers[i][1] \in Pics /\ handlers[i][2] \in Lines
             /\ handlers[i] = <<handlers[i][1], handlers[i][2]>>
             /\ Line(handlers[i]) \in Lines
  <2>1. handlers[i] \in Pics \X Lines
    BY <1>1, <1>2, <1>3, ElementOfSeq
  <2> QED
    BY <2>1, LinesAssumption DEF Line
<1>4. Unended \subseteq Unreturned /\ Unreturned \subseteq DOMAIN handlers
  BY DEF Unended, Unreturned
<1>5. ending = "no" => Unended = DOMAIN handlers
  BY DEF Unended
<1>6. ending # "iret" => Unreturned = DOMAIN handlers
  BY DEF Unreturned
<1> QED
  BY <1>1, <1>2, <1>3, <1>4, <1>5, <1>6

(* Whatever leaves alone what is in service and who handles it.             *)
LEMMA ServiceStays ==
  ASSUME TypeOK, Service, UNCHANGED <<isr, pry, smm, guest>>,
         SLAVE \notin irr'["master"], ei' => ei \/ ending = "no"
  PROVE  Service'
<1>1. Plain' /\ EndingOK'
  BY DEF Service, Plain, EndingOK, guest
<1>2. Unended' = Unended /\ Unreturned' = Unreturned
  BY DEF Unended, Unreturned, guest
<1>3. \A c \in Pics, l \in Lines : Rank(c, l)' = Rank(c, l)
  BY DEF Rank
<1>4. Matches'
  BY <1>2 DEF Service, Matches, guest
<1>5. SlaveNested' /\ MasterNested'
  <2>1. UNCHANGED <<handlers, pry>>
    BY DEF guest
  <2> QED
    BY <1>2, <2>1 DEF Service, SlaveNested, MasterNested, Rank
<1> QED
  BY <1>1, <1>4, <1>5 DEF Service

(* What wins and is not in service is above all that is.                    *)
LEMMA WinnerIsAbove ==
  ASSUME TypeOK, Plain, NEW c \in Pics, NEW l \in Lines, Wins(c, l)
  PROVE  \A k \in isr[c] : k \in Lines /\ (k # l => Rank(c, l) < Rank(c, k))
<1>1. Competing(c) \in SUBSET Lines /\ Competing(c) # {} /\ pry[c] \in Lines
  BY UnmaskedLines DEF Wins, Competing, TypeOK
<1>2. \A k \in Competing(c) : Rank(c, l) <= Rank(c, k)
  BY <1>1, FirstIsHighest DEF Wins
<1>3. isr[c] \subseteq Competing(c)
  BY DEF Competing, Plain
<1> SUFFICES ASSUME NEW k \in isr[c], k # l PROVE Rank(c, l) < Rank(c, k)
  BY <1>1, <1>3
<1>4. k \in Lines /\ Rank(c, l) <= Rank(c, k)
  BY <1>1, <1>2, <1>3
<1>5. Rank(c, l) # Rank(c, k)
  BY <1>1, <1>4, RanksDiffer
<1>6. Rank(c, l) \in Nat /\ Rank(c, k) \in Nat
  BY <1>1, <1>4, RankIsNat
<1> QED
  BY <1>4, <1>5, <1>6

LEMMA AcceptService ==
  ASSUME IInv, Service, NEW c \in Pics, NEW l \in Lines, Accept(c, l)
  PROVE  Service'
<1> DEFINE n == Len(handlers)
<1> USE DEF IInv
<1>1. ei /\ ending = "no" /\ Acceptable(c, l) /\ ~ei'
  BY DEF Accept, Acceptable, Service, EndingOK
<1>2. UNCHANGED <<pry, smm, ending>> /\ isr' = InService(c, l)
      /\ handlers' = Append(handlers, <<c, l>>)
  BY DEF Accept
<1>3. /\ handlers \in Seq(Pics \X Lines) /\ n \in Nat
      /\ DOMAIN handlers = 1 .. n /\ Unended = 1 .. n /\ Unreturned = 1 .. n
      /\ \A i \in 1 .. n : /\ handlers[i][1] \in Pics /\ handlers[i][2] \in Lines
                          /\ handlers[i] = <<handlers[i][1], handlers[i][2]>>
                          /\ Line(handlers[i]) \in Lines
  BY <1>1, HandlerTypes DEF Unended, Unreturned
<1>4. /\ DOMAIN handlers' = 1 .. n + 1 /\ Len(handlers') = n + 1
      /\ \A i \in 1 .. n : handlers'[i] = handlers[i]
      /\ handlers'[n + 1] = <<c, l>>
  BY <1>2, <1>3
<1>5. Unended' = 1 .. n + 1 /\ Unreturned' = 1 .. n + 1
  BY <1>1, <1>2, <1>4 DEF Unended, Unreturned
<1>6. isr \in [Pics -> SUBSET Lines] /\ irr \in [Pics -> SUBSET Lines]
      /\ pry \in [Pics -> Lines] /\ SLAVE \in Lines
      /\ "slave" \in Pics /\ "master" \in Pics
  BY LinesAssumption DEF TypeOK, Pics
<1>7. Line(<<c, l>>) = IF c = "slave" THEN SLAVE ELSE l
  BY DEF Line
<1>8. Plain'
  <2>1. c = "master" => l # SLAVE
    BY <1>1 DEF Acceptable
  <2>2. irr'["master"] \subseteq irr["master"]
    BY <1>6 DEF Accept
  <2>3. \A i \in 1 .. n + 1 : handlers'[i][1] = "master" => handlers'[i][2] # SLAVE
    BY <1>3, <1>4, <2>1 DEF Service, Plain
  <2> QED
    BY <1>2, <1>4, <2>2, <2>3 DEF Service, Plain
<1>9. EndingOK'
  BY <1>1, <1>2 DEF EndingOK
<1>10. Matches'
  <2>1. isr'["slave"] = IF c = "slave" THEN isr["slave"] \cup {l} ELSE isr["slave"]
    BY <1>2, <1>6 DEF InService, Pics
  <2>2. isr'["master"] = isr["master"] \cup {Line(<<c, l>>)}
    BY <1>2, <1>6, <1>7 DEF InService, Pics
  <2>3. ASSUME NEW m \in Lines
        PROVE  m \in isr'["slave"] <=> \E i \in Unended' : handlers'[i] = <<"slave", m>>
    <3>1. m \in isr["slave"] <=> \E i \in 1 .. n : handlers[i] = <<"slave", m>>
      BY <1>3 DEF Service, Matches
    <3>2. <<c, l>> = <<"slave", m>> <=> c = "slave" /\ l = m
      OBVIOUS
    <3>3. n + 1 \in 1 .. n + 1 /\ handlers'[n + 1] = <<c, l>>
      BY <1>3, <1>4
    <3>4. \A i \in 1 .. n : i \in 1 .. n + 1 /\ handlers'[i] = handlers[i]
      BY <1>3, <1>4
    <3>5. \A i \in 1 .. n + 1 : i \in 1 .. n \/ i = n + 1
      BY <1>3
    <3>6. (\E i \in 1 .. n + 1 : handlers'[i] = <<"slave", m>>)
            <=> (\E i \in 1 .. n : handlers[i] = <<"slave", m>>) \/ <<c, l>> = <<"slave", m>>
      BY <3>3, <3>4, <3>5, Zenon
    <3> QED
      BY <1>5, <2>1, <3>1, <3>2, <3>6
  <2>4. ASSUME NEW m \in Lines
        PROVE  m \in isr'["master"] <=> \E i \in Unreturned' : Line(handlers'[i]) = m
    <3>1. m \in isr["master"] <=> \E i \in 1 .. n : Line(handlers[i]) = m
      BY <1>3 DEF Service, Matches
    <3>2. n + 1 \in 1 .. n + 1 /\ Line(handlers'[n + 1]) = Line(<<c, l>>)
      BY <1>3, <1>4
    <3>3. \A i \in 1 .. n : i \in 1 .. n + 1 /\ Line(handlers'[i]) = Line(handlers[i])
      BY <1>3, <1>4
    <3>4. \A i \in 1 .. n + 1 : i \in 1 .. n \/ i = n + 1
      BY <1>3
    <3>5. (\E i \in 1 .. n + 1 : Line(handlers'[i]) = m)
            <=> (\E i \in 1 .. n : Line(handlers[i]) = m) \/ Line(<<c, l>>) = m
      BY <3>2, <3>3, <3>4, Zenon
    <3> QED
      BY <1>5, <2>2, <3>1, <3>5
  <2> QED
    BY <2>3, <2>4 DEF Matches, Line
<1>11. \A d \in Pics, k \in Lines : Rank(d, k)' = Rank(d, k)
  BY <1>2 DEF Rank
<1>12. SlaveNested'
  <2>1. ASSUME NEW i \in 1 .. n + 1, NEW j \in 1 .. n + 1, i < j,
               handlers'[i][1] = "slave", handlers'[j][1] = "slave"
        PROVE  (Rank("slave", handlers[j][2]) < Rank("slave", handlers[i][2]))'
    <3>1. i \in 1 .. n /\ handlers'[i] = handlers[i] /\ handlers[i][2] \in Lines
      BY <1>3, <1>4, <2>1
    <3>2. CASE j \in 1 .. n
      <4>1. Rank("slave", handlers[j][2]) < Rank("slave", handlers[i][2])
        BY <1>3, <1>4, <2>1, <3>1, <3>2 DEF Service, SlaveNested
      <4> QED
        BY <1>4, <3>1, <3>2, <4>1, <1>2 DEF Rank
    <3>3. CASE j = n + 1
      <4>1. c = "slave" /\ handlers'[j][2] = l /\ Wins("slave", l) /\ l \notin isr["slave"]
        BY <1>1, <1>4, <2>1, <3>3 DEF Acceptable
      <4>2. handlers[i] = <<"slave", handlers[i][2]>>
        BY <1>3, <2>1, <3>1
      <4>3. handlers[i][2] \in isr["slave"]
        BY <1>3, <3>1, <4>2 DEF Service, Matches
      <4>4. Rank("slave", l) < Rank("slave", handlers[i][2])
        BY <1>6, <4>1, <4>3, WinnerIsAbove DEF Service
      <4> QED
        BY <1>2, <3>1, <4>1, <4>4 DEF Rank
    <3>4. j \in 1 .. n \/ j = n + 1
      BY <1>3
    <3> QED
      BY <3>2, <3>3, <3>4, Zenon
  <2> QED
    BY <1>5, <2>1 DEF SlaveNested
<1>13. MasterNested'
  <2>1. ASSUME NEW i \in 1 .. n + 1, NEW j \in 1 .. n + 1, i < j,
               ~(handlers'[i][1] = "slave" /\ handlers'[j][1] = "slave")
        PROVE  (Rank("master", Line(handlers[j])) < Rank("master", Line(handlers[i])))'
    <3>1. i \in 1 .. n /\ handlers'[i] = handlers[i] /\ Line(handlers[i]) \in Lines
      BY <1>3, <1>4, <2>1
    <3>2. CASE j \in 1 .. n
      <4>1. Rank("master", Line(handlers[j])) < Rank("master", Line(handlers[i]))
        BY <1>3, <1>4, <2>1, <3>1, <3>2 DEF Service, MasterNested
      <4> QED
        BY <1>4, <3>1, <3>2, <4>1, <1>2 DEF Rank, Line
    <3>3. CASE j = n + 1
      <4>1. handlers'[j] = <<c, l>> /\ Wins("master", Line(<<c, l>>))
            /\ (c = "master" => l \notin isr["master"])
        BY <1>1, <1>4, <1>7, <3>3 DEF Acceptable, Pics
      <4>2. Line(handlers[i]) \in isr["master"]
        BY <1>3, <3>1 DEF Service, Matches
      <4>3. Line(handlers[i]) # Line(<<c, l>>)
        <5>1. CASE c = "master"
          BY <1>7, <4>1, <4>2, <5>1
        <5>2. CASE c = "slave"
          <6>1. handlers[i][1] = "master" /\ handlers[i][2] # SLAVE
            BY <1>3, <2>1, <3>1, <4>1, <5>2 DEF Service, Plain, Pics
          <6> QED
            BY <1>7, <5>2, <6>1 DEF Line
        <5> QED
          BY <5>1, <5>2 DEF Pics
      <4>4. Line(<<c, l>>) \in Lines
        BY <1>6, <1>7
      <4>5. Rank("master", Line(<<c, l>>)) < Rank("master", Line(handlers[i]))
        BY <1>6, <4>1, <4>2, <4>3, <4>4, WinnerIsAbove DEF Service
      <4> QED
        BY <1>2, <3>1, <4>1, <4>5 DEF Rank, Line
    <3>4. j \in 1 .. n \/ j = n + 1
      BY <1>3
    <3> QED
      BY <3>2, <3>3, <3>4, Zenon
  <2> QED
    BY <1>5, <2>1 DEF MasterNested, Line
<1> QED
  BY <1>8, <1>9, <1>10, <1>12, <1>13 DEF Service

LEMMA FirstIs ==
  ASSUME NEW c \in Pics, pry[c] \in Lines, NEW S \in SUBSET Lines, NEW l \in S,
         \A k \in S : k # l => Rank(c, l) < Rank(c, k)
  PROVE  l = First(c, S)
<1>1. First(c, S) \in S /\ Rank(c, First(c, S)) <= Rank(c, l)
  BY FirstIsHighest
<1>2. Rank(c, l) \in Nat /\ Rank(c, First(c, S)) \in Nat
  BY <1>1, RankIsNat
<1> QED
  BY <1>1, <1>2

(* The innermost handler is of the highest priority among those in service. *)
LEMMA LastIsHighest ==
  ASSUME TypeOK, Service, handlers # <<>>
  PROVE  LET n == Len(handlers)  h == handlers[n] IN
         /\ n \in Nat \ {0} /\ h = Last(handlers) /\ n \in DOMAIN handlers
         /\ ending = "no" /\ h[1] = "slave" =>
              h[2] \in isr["slave"] /\ h[2] = First("slave", isr["slave"])
         /\ ending # "iret" =>
              Line(h) \in isr["master"] /\ Line(h) = First("master", isr["master"])
<1> DEFINE n == Len(handlers)  h == handlers[n]
<1>1. n \in Nat \ {0} /\ h = Last(handlers) /\ DOMAIN handlers = 1 .. n
      /\ n \in DOMAIN handlers
  BY HandlerTypes, EmptySeq DEF Last
<1>2. h[1] \in Pics /\ h[2] \in Lines /\ h = <<h[1], h[2]>> /\ Line(h) \in Lines
  BY <1>1, HandlerTypes
<1>3. /\ "slave" \in Pics /\ "master" \in Pics
      /\ isr["slave"] \in SUBSET Lines /\ isr["master"] \in SUBSET Lines
      /\ pry["slave"] \in Lines /\ pry["master"] \in Lines
  BY DEF TypeOK, Pics
<1>4. \A x \in Nat : \A i \in 1 .. x : i # x => i < x
  OBVIOUS
<1>5. ASSUME ending = "no", h[1] = "slave"
      PROVE  h[2] \in isr["slave"] /\ h[2] = First("slave", isr["slave"])
  <2>1. Unended = 1 .. n
    BY <1>1, <1>5, HandlerTypes
  <2>2. h[2] \in isr["slave"]
    BY <1>1, <1>2, <1>5, <2>1 DEF Service, Matches
  <2>3. ASSUME NEW k \in isr["slave"], k # h[2]
        PROVE  Rank("slave", h[2]) < Rank("slave", k)
    <3>1. PICK i \in 1 .. n : handlers[i] = <<"slave", k>>
      BY <1>3, <2>1 DEF Service, Matches
    <3>2. i # n
      BY <2>3, <3>1
    <3>3. i < n
      BY <1>1, <1>4, <3>2, Zenon
    <3>4. i \in Unended /\ n \in Unended /\ handlers[i][1] = "slave" /\ handlers[i][2] = k
      BY <1>1, <2>1, <3>1
    <3> HIDE DEF n
    <3>5. Rank("slave", handlers[n][2]) < Rank("slave", handlers[i][2])
      BY <1>5, <3>3, <3>4, Zenon DEF Service, SlaveNested
    <3> QED
      BY <3>4, <3>5
  <2> QED
    BY <1>3, <2>2, <2>3, FirstIs
<1>6. ASSUME ending # "iret"
      PROVE  Line(h) \in isr["master"] /\ Line(h) = First("master", isr["master"])
  <2>1. Unreturned = 1 .. n
    BY <1>1, <1>6, HandlerTypes
  <2>2. Line(h) \in isr["master"]
    BY <1>1, <1>2, <2>1 DEF Service, Matches
  <2>3. ASSUME NEW k \in isr["master"], k # Line(h)
        PROVE  Rank("master", Line(h)) < Rank("master", k)
    <3>1. PICK i \in 1 .. n : Line(handlers[i]) = k
      BY <1>3, <2>1 DEF Service, Matches
    <3>2. i # n
      BY <2>3, <3>1
    <3>3. i < n
      BY <1>1, <1>4, <3>2, Zenon
    <3>4. ~(handlers[i][1] = "slave" /\ h[1] = "slave")
      BY <2>3, <3>1 DEF Line
    <3>5. i \in Unreturned /\ n \in Unreturned
      BY <1>1, <2>1
    <3> HIDE DEF n
    <3>6. Rank("master", Line(handlers[n])) < Rank("master", Line(handlers[i]))
      BY <3>3, <3>4, <3>5, Zenon DEF Service, MasterNested
    <3> QED
      BY <3>1, <3>6
  <2> QED
    BY <1>3, <2>2, <2>3, FirstIs
<1> QED
  BY <1>1, <1>5, <1>6

(* An EOI that names no level ends the first line in service.                *)
LEMMA EoiEnds ==
  ASSUME TypeOK, NEW c \in Pics, EOI(c), isr[c] # {}
  PROVE  LET level == First(c, isr[c]) IN
         /\ isr'[c] = isr[c] \ {level}
         /\ pry'[c] = pry[c] \/ pry'[c] = (level + 1) % N
         /\ \A d \in Pics : d # c => isr'[d] = isr[d] /\ pry'[d] = pry[d]
         /\ UNCHANGED <<irr, imr, smm, ei>>
<1>1. PICK r \in BOOLEAN : OCW2(c, r, FALSE, TRUE, 0)
  BY DEF EOI
<1> QED
  BY <1>1 DEF OCW2, Level, TypeOK

(* What an EOI keeps of the order of the handlers that remain.              *)
LEMMA Below ==
  ASSUME NEW x \in Nat
  PROVE  /\ \A i \in 1 .. x - 1 : i \in 1 .. x /\ i < x
         /\ \A i \in 1 .. x : i \in 1 .. x - 1 \/ i = x
OBVIOUS

(* The EOI of a handler of the slave.                                       *)
LEMMA SlaveEoiService ==
  ASSUME TypeOK, Service, handlers # <<>>, ending = "no", ~ei,
         Last(handlers)[1] = "slave", EOI("slave"),
         handlers' = handlers, ending' = "look"
  PROVE  Service'
<1> DEFINE n == Len(handlers)  level == handlers[n][2]
<1>1. n \in Nat \ {0} /\ handlers[n] = Last(handlers) /\ n \in DOMAIN handlers
      /\ level \in isr["slave"] /\ level = First("slave", isr["slave"])
  BY LastIsHighest
<1>2. "slave" \in Pics /\ "master" \in Pics /\ isr["slave"] # {}
      /\ pry["slave"] \in Lines /\ isr["slave"] \subseteq Lines
  BY <1>1 DEF Pics, TypeOK
<1>3. /\ isr'["slave"] = isr["slave"] \ {level}
      /\ pry'["slave"] = pry["slave"] \/ pry'["slave"] = (level + 1) % N
      /\ isr'["master"] = isr["master"] /\ pry'["master"] = pry["master"]
      /\ UNCHANGED <<irr, smm, ei>>
  BY <1>1, <1>2, EoiEnds
<1>4. /\ DOMAIN handlers = 1 .. n /\ Unended = 1 .. n /\ Unreturned = 1 .. n
      /\ \A i \in 1 .. n : handlers[i][2] \in Lines /\ handlers[i] = <<handlers[i][1], handlers[i][2]>>
  BY HandlerTypes
<1>5. Unended' = 1 .. n - 1 /\ Unreturned' = 1 .. n
  BY <1>1, <1>4 DEF Unended, Unreturned
<1> HIDE DEF n
<1>6. /\ \A i \in 1 .. n - 1 : i \in 1 .. n /\ i < n
      /\ \A i \in 1 .. n : i \in 1 .. n - 1 \/ i = n
      /\ n \in 1 .. n
  BY <1>1, Below
<1>7. Plain' /\ EndingOK'
  BY <1>3 DEF Service, Plain, EndingOK
<1>8. ASSUME NEW i \in 1 .. n - 1, handlers[i][1] = "slave"
      PROVE  Rank("slave", level) < Rank("slave", handlers[i][2])
  BY <1>1, <1>4, <1>6, <1>8, Zenon DEF Service, SlaveNested
<1>9. Matches'
  <2>1. ASSUME NEW m \in Lines
        PROVE  m \in isr'["slave"] <=> \E i \in Unended' : handlers'[i] = <<"slave", m>>
    <3>1. m \in isr["slave"] <=> \E i \in 1 .. n : handlers[i] = <<"slave", m>>
      BY <1>4 DEF Service, Matches
    <3>2. ASSUME NEW i \in 1 .. n - 1, handlers[i] = <<"slave", m>> PROVE m # level
      <4>1. handlers[i][1] = "slave" /\ handlers[i][2] = m
        BY <3>2
      <4>2. Rank("slave", level) < Rank("slave", m)
        BY <1>8, <4>1
      <4>3. Rank("slave", level) \in Nat
        BY <1>1, <1>2, RankIsNat
      <4> QED
        BY <4>2, <4>3
    <3>3. handlers[n] = <<"slave", m>> => m = level
      BY <1>1
    <3>4. (\E i \in 1 .. n - 1 : handlers[i] = <<"slave", m>>)
            <=> (\E i \in 1 .. n : handlers[i] = <<"slave", m>>) /\ m # level
      BY <1>6, <3>2, <3>3, Zenon
    <3> QED
      BY <1>3, <1>5, <3>1, <3>4
  <2>2. \A m \in Lines : m \in isr'["master"] <=> \E i \in Unreturned' : Line(handlers'[i]) = m
    BY <1>3, <1>4, <1>5 DEF Service, Matches
  <2> QED
    BY <2>1, <2>2 DEF Matches, Line
<1>10. SlaveNested'
  <2>1. ASSUME NEW i \in 1 .. n - 1, NEW j \in 1 .. n - 1, i < j,
               handlers[i][1] = "slave", handlers[j][1] = "slave"
        PROVE  Rank("slave", handlers[j][2])' < Rank("slave", handlers[i][2])'
    <3>1. Rank("slave", handlers[j][2]) < Rank("slave", handlers[i][2])
      BY <1>4, <1>6, <2>1, Zenon DEF Service, SlaveNested
    <3>2. Rank("slave", level) < Rank("slave", handlers[j][2])
      BY <1>8, <2>1
    <3> DEFINE x == handlers[i][2]  y == handlers[j][2]
    <3>3. x \in Lines /\ y \in Lines /\ level \in Lines
      BY <1>1, <1>2, <1>4, <1>6
    <3>4. x' = x /\ y' = y
      OBVIOUS
    <3> HIDE DEF x, y
    <3> QED
      BY <1>2, <1>3, <3>1, <3>2, <3>3, <3>4, OrderStays DEF x, y
  <2> QED
    BY <1>5, <2>1 DEF SlaveNested
<1>11. MasterNested'
  <2>1. \A l \in Lines : Rank("master", l)' = Rank("master", l)
    BY <1>3 DEF Rank
  <2> QED
    BY <1>3, <1>4, <1>5 DEF Service, MasterNested, Rank, Line
<1> QED
  BY <1>7, <1>9, <1>10, <1>11 DEF Service

(* The EOI to the master, of a handler of its own or of the last one of the *)
(* slave.                                                                   *)
LEMMA MasterEoiService ==
  ASSUME TypeOK, Service, handlers # <<>>, ending # "iret", ~ei,
         \/ ending = "no" /\ Last(handlers)[1] = "master"
         \/ ending = "master",
         EOI("master"), handlers' = handlers, ending' = "iret"
  PROVE  Service'
<1> DEFINE n == Len(handlers)  level == Line(handlers[n])
<1>1. n \in Nat \ {0} /\ handlers[n] = Last(handlers) /\ n \in DOMAIN handlers
      /\ level \in isr["master"] /\ level = First("master", isr["master"])
  BY LastIsHighest
<1>2. "slave" \in Pics /\ "master" \in Pics /\ isr["master"] # {}
      /\ pry["master"] \in Lines /\ isr["master"] \subseteq Lines
  BY <1>1 DEF Pics, TypeOK
<1>3. /\ isr'["master"] = isr["master"] \ {level}
      /\ pry'["master"] = pry["master"] \/ pry'["master"] = (level + 1) % N
      /\ isr'["slave"] = isr["slave"] /\ pry'["slave"] = pry["slave"]
      /\ UNCHANGED <<irr, smm, ei>>
  BY <1>1, <1>2, EoiEnds
<1>4. /\ DOMAIN handlers = 1 .. n /\ Unreturned = 1 .. n
      /\ Unended = IF ending = "no" THEN 1 .. n ELSE 1 .. n - 1
      /\ \A i \in 1 .. n : /\ handlers[i][1] \in Pics /\ handlers[i][2] \in Lines
                          /\ handlers[i] = <<handlers[i][1], handlers[i][2]>>
                          /\ Line(handlers[i]) \in Lines
  BY HandlerTypes DEF Unended
<1>5. Unended' = 1 .. n - 1 /\ Unreturned' = 1 .. n - 1
  BY <1>1, <1>4 DEF Unended, Unreturned
<1> HIDE DEF n
<1>6. /\ \A i \in 1 .. n - 1 : i \in 1 .. n /\ i < n
      /\ \A i \in 1 .. n : i \in 1 .. n - 1 \/ i = n
      /\ n \in 1 .. n
  BY <1>1, Below
<1>7. Plain' /\ EndingOK'
  BY <1>3 DEF Service, Plain, EndingOK
<1>8. \A i \in Unended : i \in 1 .. n - 1 \/ handlers[i][1] = "master"
  BY <1>1, <1>4, <1>6
(* No outer handler shares the line of the one that ends.                   *)
<1>9. ASSUME NEW i \in 1 .. n - 1
      PROVE  ~(handlers[i][1] = "slave" /\ handlers[n][1] = "slave")
  <2> SUFFICES ASSUME handlers[i][1] = "slave", handlers[n][1] = "slave" PROVE FALSE
    OBVIOUS
  <2>1. ending = "master" /\ isr["slave"] = {}
    BY <1>1 DEF Service, EndingOK
  <2>2. i \in Unended /\ handlers[i] = <<"slave", handlers[i][2]>> /\ handlers[i][2] \in Lines
    BY <1>4, <1>6, <2>1
  <2>3. handlers[i][2] \in isr["slave"]
    BY <2>2 DEF Service, Matches
  <2> QED
    BY <2>1, <2>3
<1>10. ASSUME NEW i \in 1 .. n - 1
       PROVE  Rank("master", level) < Rank("master", Line(handlers[i]))
  BY <1>4, <1>6, <1>9, Zenon DEF Service, MasterNested
<1>11. Matches'
  <2>1. ASSUME NEW m \in Lines
        PROVE  m \in isr'["slave"] <=> \E i \in Unended' : handlers'[i] = <<"slave", m>>
    <3>1. m \in isr["slave"] <=> \E i \in Unended : handlers[i] = <<"slave", m>>
      BY DEF Service, Matches
    <3>2. \A i \in 1 .. n - 1 : i \in Unended
      BY <1>4, <1>6
    <3>3. \A i \in Unended : handlers[i] = <<"slave", m>> => i \in 1 .. n - 1
      BY <1>8
    <3>4. (\E i \in Unended : handlers[i] = <<"slave", m>>)
            <=> \E i \in 1 .. n - 1 : handlers[i] = <<"slave", m>>
      BY <3>2, <3>3, Zenon
    <3> QED
      BY <1>3, <1>5, <3>1, <3>4
  <2>2. ASSUME NEW m \in Lines
        PROVE  m \in isr'["master"] <=> \E i \in Unreturned' : Line(handlers'[i]) = m
    <3>1. m \in isr["master"] <=> \E i \in 1 .. n : Line(handlers[i]) = m
      BY <1>4 DEF Service, Matches
    <3>2. ASSUME NEW i \in 1 .. n - 1, Line(handlers[i]) = m PROVE m # level
      <4>1. Rank("master", level) < Rank("master", m)
        BY <1>10, <3>2
      <4>2. Rank("master", level) \in Nat
        BY <1>1, <1>2, RankIsNat
      <4> QED
        BY <4>1, <4>2
    <3>3. Line(handlers[n]) = m <=> m = level
      OBVIOUS
    <3>4. (\E i \in 1 .. n - 1 : Line(handlers[i]) = m)
            <=> (\E i \in 1 .. n : Line(handlers[i]) = m) /\ m # level
      BY <1>6, <3>2, <3>3, Zenon
    <3> QED
      BY <1>3, <1>5, <3>1, <3>4
  <2> QED
    BY <2>1, <2>2 DEF Matches, Line
<1>12. SlaveNested'
  <2>1. \A i \in 1 .. n - 1 : i \in Unended
    BY <1>4, <1>6
  <2> QED
    BY <1>3, <1>5, <2>1 DEF Service, SlaveNested, Rank
<1>13. MasterNested'
  <2>1. ASSUME NEW i \in 1 .. n - 1, NEW j \in 1 .. n - 1, i < j,
               ~(handlers[i][1] = "slave" /\ handlers[j][1] = "slave")
        PROVE  (Rank("master", Line(handlers[j])) < Rank("master", Line(handlers[i])))'
    <3> DEFINE x == Line(handlers[i])  y == Line(handlers[j])
    <3>1. Rank("master", y) < Rank("master", x)
      BY <1>4, <1>6, <2>1, Zenon DEF Service, MasterNested
    <3>2. Rank("master", level) < Rank("master", y)
      BY <1>10
    <3>3. x \in Lines /\ y \in Lines /\ level \in Lines
      BY <1>1, <1>2, <1>4, <1>6
    <3>4. x' = x /\ y' = y
      BY DEF Line
    <3> HIDE DEF x, y, level
    <3>5. (Rank("master", y) < Rank("master", x))'
      BY <1>2, <1>3, <3>1, <3>2, <3>3, <3>4, OrderStays
    <3> QED
      BY <3>5 DEF x, y
  <2> QED
    BY <1>5, <2>1 DEF MasterNested
<1> QED
  BY <1>7, <1>11, <1>12, <1>13 DEF Service

(* The look at the slave: if it has something in service, so has an outer   *)
(* handler, and the slave's line stays in service for that one.             *)
LEMMA ReadService ==
  ASSUME TypeOK, Service, handlers # <<>>, ending = "read", ~ei, Nop,
         handlers' = handlers,
         ending' = IF isr["slave"] = {} THEN "master" ELSE "iret"
  PROVE  Service'
<1> DEFINE n == Len(handlers)
<1>1. n \in Nat \ {0} /\ handlers[n] = Last(handlers) /\ n \in DOMAIN handlers
  BY LastIsHighest
<1>2. UNCHANGED <<irr, isr, pry, smm, ei, handlers>>
  BY DEF Nop, pi
<1>3. /\ DOMAIN handlers = 1 .. n /\ Unreturned = 1 .. n /\ Unended = 1 .. n - 1
      /\ \A i \in 1 .. n : Line(handlers[i]) \in Lines
  BY HandlerTypes DEF Unended
<1>4. Unended' = 1 .. n - 1 /\ Unreturned' = IF isr["slave"] = {} THEN 1 .. n ELSE 1 .. n - 1
  BY <1>1, <1>3 DEF Unended, Unreturned
<1> HIDE DEF n
<1>5. /\ \A i \in 1 .. n - 1 : i \in 1 .. n /\ i < n
      /\ \A i \in 1 .. n : i \in 1 .. n - 1 \/ i = n
  BY <1>1, Below
<1>6. Plain' /\ EndingOK'
  BY <1>1, <1>2 DEF Service, Plain, EndingOK
<1>7. Unreturned' \subseteq Unreturned
  BY <1>3, <1>4, <1>5
<1>8. ASSUME NEW m \in Lines
      PROVE  m \in isr'["master"] <=> \E i \in Unreturned' : Line(handlers[i]) = m
  <2>1. m \in isr["master"] <=> \E i \in Unreturned : Line(handlers[i]) = m
    BY DEF Service, Matches
  <2>2. CASE isr["slave"] = {}
    BY <1>2, <1>3, <1>4, <2>1, <2>2
  <2>3. CASE isr["slave"] # {}
    <3>1. PICK k \in Lines : k \in isr["slave"]
      BY <2>3 DEF TypeOK, Pics
    <3>2. PICK j \in 1 .. n - 1 : handlers[j] = <<"slave", k>>
      BY <1>3, <3>1 DEF Service, Matches
    <3>3. Line(handlers[j]) = SLAVE /\ Line(handlers[n]) = SLAVE
      BY <1>1, <3>2 DEF Line, Service, EndingOK
    <3>4. (\E i \in 1 .. n : Line(handlers[i]) = m)
            <=> \E i \in 1 .. n - 1 : Line(handlers[i]) = m
      BY <1>5, <3>3, Zenon
    <3> QED
      BY <1>2, <1>3, <1>4, <2>1, <2>3, <3>4
  <2> QED
    BY <2>2, <2>3
<1>9. Matches'
  <2>1. Unended' = Unended /\ isr' = isr
    BY <1>2, <1>3, <1>4
  <2>2. \A m \in Lines : m \in isr'["slave"] <=> \E i \in Unended' : handlers'[i] = <<"slave", m>>
    BY <1>2, <2>1 DEF Service, Matches
  <2>3. \A m \in Lines : m \in isr'["master"] <=> \E i \in Unreturned' : Line(handlers'[i]) = m
    BY <1>2, <1>8
  <2> QED
    BY <2>2, <2>3 DEF Matches, Line
<1>10. SlaveNested' /\ MasterNested'
  BY <1>2, <1>3, <1>4, <1>7 DEF Service, SlaveNested, MasterNested, Rank, Line
<1> QED
  BY <1>6, <1>9, <1>10 DEF Service

LEMMA FrontIs ==
  ASSUME NEW S, NEW s \in Seq(S), s # <<>>
  PROVE  /\ Len(s) \in Nat \ {0} /\ DOMAIN Front(s) = 1 .. Len(s) - 1
         /\ Len(Front(s)) = Len(s) - 1
         /\ \A i \in 1 .. Len(s) - 1 : Front(s)[i] = s[i]
<1> DEFINE n == Len(s)
<1>1. n \in Nat \ {0} /\ DOMAIN s = 1 .. n
  BY EmptySeq
<1>2. Front(s) = [i \in 1 .. n - 1 |-> s[i]]
  BY <1>1 DEF Front
<1>3. Front(s) \in Seq(S)
  BY FrontAndLast
<1> QED
  BY <1>1, <1>2, <1>3

(* The return to the handler that was interrupted.                          *)
LEMMA IretService ==
  ASSUME TypeOK, Service, handlers # <<>>, ending = "iret", Popf(TRUE),
         handlers' = Front(handlers), ending' = "no"
  PROVE  Service'
<1> DEFINE n == Len(handlers)
<1>1. UNCHANGED <<irr, isr, pry, smm>>
  BY DEF Popf, pi
<1>2. /\ n \in Nat \ {0} /\ DOMAIN handlers = 1 .. n
      /\ DOMAIN handlers' = 1 .. n - 1 /\ Len(handlers') = n - 1
      /\ \A i \in 1 .. n - 1 : handlers'[i] = handlers[i]
  BY HandlerTypes, FrontIs
<1>3. Unended = 1 .. n - 1 /\ Unreturned = 1 .. n - 1
  BY <1>2 DEF Unended, Unreturned
<1>4. Unended' = 1 .. n - 1 /\ Unreturned' = 1 .. n - 1
  BY <1>2 DEF Unended, Unreturned
<1> HIDE DEF n
<1>5. \A i \in 1 .. n - 1 : i \in 1 .. n
  BY <1>2, Below
<1>6. Plain' /\ EndingOK'
  BY <1>1, <1>2, <1>5 DEF Service, Plain, EndingOK
<1>7. Matches'
  <2>1. ASSUME NEW m \in Lines
        PROVE  m \in isr'["slave"] <=> \E i \in Unended' : handlers'[i] = <<"slave", m>>
    <3>1. m \in isr["slave"] <=> \E i \in 1 .. n - 1 : handlers[i] = <<"slave", m>>
      BY <1>3 DEF Service, Matches
    <3> QED
      BY <1>1, <1>2, <1>4, <3>1
  <2>2. ASSUME NEW m \in Lines
        PROVE  m \in isr'["master"] <=> \E i \in Unreturned' : Line(handlers'[i]) = m
    <3>1. m \in isr["master"] <=> \E i \in 1 .. n - 1 : Line(handlers[i]) = m
      BY <1>3 DEF Service, Matches
    <3> QED
      BY <1>1, <1>2, <1>4, <3>1
  <2> QED
    BY <2>1, <2>2 DEF Matches, Line
<1>8. SlaveNested' /\ MasterNested'
  BY <1>1, <1>2, <1>3, <1>4 DEF Service, SlaveNested, MasterNested, Rank, Line
<1> QED
  BY <1>6, <1>7, <1>8 DEF Service

LEMMA LookService ==
  ASSUME TypeOK, Service, ending = "look", OCW3("slave", TRUE, TRUE, FALSE, FALSE),
         handlers' = handlers, ending' = "read"
  PROVE  Service'
<1>1. UNCHANGED <<irr, isr, pry, smm, ei, handlers>>
  BY DEF OCW3, TypeOK
<1>2. Unended' = Unended /\ Unreturned' = Unreturned
  BY <1>1 DEF Unended, Unreturned
<1>3. Plain' /\ EndingOK'
  BY <1>1 DEF Service, Plain, EndingOK
<1>4. Matches' /\ SlaveNested' /\ MasterNested'
  <2>1. Matches'
    BY <1>1, <1>2 DEF Service, Matches, Line
  <2>2. SlaveNested'
    BY <1>1, <1>2 DEF Service, SlaveNested, Rank
  <2>3. MasterNested'
    BY <1>1, <1>2 DEF Service, MasterNested, Rank, Line
  <2> QED
    BY <2>1, <2>2, <2>3
<1> QED
  BY <1>3, <1>4 DEF Service

LEMMA EndHandlerService ==
  ASSUME TypeOK, Service, EndHandler
  PROVE  Service'
<1>1. handlers # <<>> /\ Last(handlers)[1] \in Pics
  <2>1. handlers # <<>> /\ handlers \in Seq(Pics \X Lines)
    BY DEF EndHandler, TypeOK
  <2>2. Last(handlers) \in Pics \X Lines
    BY <2>1, FrontAndLast
  <2> QED
    BY <2>1, <2>2
<1>2. ending # "no" => ~ei
  BY DEF Service, EndingOK
<1>3. CASE ending = "no"
  <2> DEFINE c == Last(handlers)[1]
  <2>1. ~ei /\ EOI(c) /\ handlers' = handlers
        /\ ending' = IF c = "slave" THEN "look" ELSE "iret"
    BY <1>3 DEF EndHandler
  <2>2. CASE c = "slave"
    BY <1>1, <1>3, <2>1, <2>2, SlaveEoiService
  <2>3. CASE c = "master"
    BY <1>1, <1>3, <2>1, <2>3, MasterEoiService
  <2> QED
    BY <1>1, <2>2, <2>3 DEF Pics
<1>4. CASE ending = "look"
  BY <1>4, LookService DEF EndHandler
<1>5. CASE ending = "read"
  BY <1>1, <1>2, <1>5, ReadService DEF EndHandler
<1>6. CASE ending = "master"
  BY <1>1, <1>2, <1>6, MasterEoiService DEF EndHandler
<1>7. CASE ending = "iret"
  BY <1>1, <1>7, IretService DEF EndHandler
<1> QED
  BY <1>3, <1>4, <1>5, <1>6, <1>7 DEF EndHandler

LEMMA InitService ==
  ASSUME Init
  PROVE  Service
<1>1. DOMAIN handlers = {} /\ Len(handlers) = 0
  BY DEF Init
<1>2. Unended = {} /\ Unreturned = {}
  BY <1>1 DEF Unended, Unreturned
<1>3. Plain /\ EndingOK
  BY <1>1 DEF Init, Plain, EndingOK, Pics
<1>4. Matches
  BY <1>2 DEF Init, Matches, Pics
<1>5. SlaveNested /\ MasterNested
  BY <1>2 DEF SlaveNested, MasterNested
<1> QED
  BY <1>3, <1>4, <1>5 DEF Service

LEMMA ResetService ==
  ASSUME pccore_reset
  PROVE  Service'
<1>1. handlers' = <<>>
  BY DEF pccore_reset
<1>2. DOMAIN handlers' = {} /\ Len(handlers') = 0
  BY <1>1
<1>3. Unended' = {} /\ Unreturned' = {}
  BY <1>2 DEF Unended, Unreturned
<1>4. Plain' /\ EndingOK'
  BY <1>2 DEF pccore_reset, Plain, EndingOK, Pics
<1>5. Matches'
  BY <1>3 DEF pccore_reset, Matches, Pics
<1>6. SlaveNested' /\ MasterNested'
  BY <1>3 DEF SlaveNested, MasterNested
<1> QED
  BY <1>4, <1>5, <1>6 DEF Service

OrderlyNext == Machine \/ Orderly \/ EndHandler

LEMMA NextService ==
  ASSUME IInv, Service, [OrderlyNext]_vars
  PROVE  Service'
<1> USE DEF IInv
<1>1. SLAVE \notin irr["master"] /\ \A c \in Pics : irr[c] \in SUBSET Lines
  BY DEF Service, Plain, TypeOK
<1>2. ASSUME NEW c \in Pics, NEW l \in Lines, Accept(c, l) PROVE Service'
  BY <1>2, AcceptService
<1>3. CASE UNCHANGED <<pi, ei, guest>>
  BY <1>1, <1>3, ServiceStays DEF pi, guest
<1>4. CASE Callback
  <2>1. UNCHANGED <<isr, pry, smm, ei, guest>>
    BY <1>4 DEF Callback, Request, screenvsync, pic_setirq, screendisp, picmask
  <2>2. SLAVE \notin irr'["master"]
    <3>1. ASSUME NEW q \in Irqs, Request(q[1], q[2]) PROVE SLAVE \notin irr'["master"]
      <4>1. q[1] \in Pics /\ q[2] \in Lines /\ ~(q[1] = "master" /\ q[2] = SLAVE)
        BY LinesAssumption
      <4> QED
        BY <1>1, <3>1, <4>1 DEF Request, pic_setirq, TypeOK, Pics
    <3>2. CASE screenvsync
      BY <1>1, <3>2, LinesAssumption DEF screenvsync, pic_setirq, TypeOK, Pics
    <3>3. CASE screendisp \/ picmask
      BY <1>1, <3>3 DEF screendisp, picmask, TypeOK, Pics
    <3> QED
      BY <1>4, <3>1, <3>2, <3>3 DEF Callback
  <2> QED
    BY <2>1, <2>2, ServiceStays
<1>5. CASE pic_irq
  <2>1. CASE UNCHANGED <<pi, picmasked, vsyncint, ei, guest, armed>>
    BY <1>3, <2>1
  <2> QED
    BY <1>2, <1>5, <2>1 DEF pic_irq
<1>6. CASE nevent_progress
  BY <1>3, <1>6 DEF nevent_progress
<1>7. CASE pccore_reset
  BY <1>7, ResetService
<1>8. CASE Orderly
  <2>1. UNCHANGED guest
    BY <1>8 DEF Orderly
  <2>2. CASE \E c \in Pics : \E dat \in Masks[c] : writeicw[c] = 0 /\ pic_o02(c, dat)
    <3>1. UNCHANGED <<irr, isr, pry, smm, ei>>
      BY <2>2 DEF pic_o02
    <3> QED
      BY <1>1, <2>1, <3>1, ServiceStays
  <2>3. CASE \E q \in Irqs : pic_resetirq(q[1], q[2])
    <3>1. UNCHANGED <<isr, pry, smm, ei>>
      BY <2>3 DEF pic_resetirq
    <3>2. SLAVE \notin irr'["master"]
      BY <1>1, <2>3, LinesAssumption DEF pic_resetirq, TypeOK, Pics
    <3> QED
      BY <2>1, <3>1, <3>2, ServiceStays
  <2>4. CASE gdc_o64 \/ Nop
    BY <1>3, <2>1, <2>4 DEF gdc_o64, Nop
  <2>5. CASE ending = "no" /\ (Sti \/ Cli)
    <3>1. UNCHANGED <<irr, isr, pry, smm>>
      BY <2>5 DEF Sti, Cli, pi
    <3> QED
      BY <1>1, <2>1, <2>5, <3>1, ServiceStays
  <2> QED
    BY <1>8, <2>2, <2>3, <2>4, <2>5 DEF Orderly
<1>9. CASE EndHandler
  BY <1>9, EndHandlerService
<1>10. CASE UNCHANGED vars
  BY <1>3, <1>10 DEF vars
<1> QED
  BY <1>4, <1>5, <1>6, <1>7, <1>8, <1>9, <1>10 DEF OrderlyNext, Machine

(* Of the orderly guest: types, and what is in service.                     *)
THEOREM OrderlyInvariance == OrderlySpec => [](IInv /\ Service)
<1>1. Init => IInv /\ Service
  BY InitInv, InitService
<1>2. IInv /\ Service /\ [OrderlyNext]_vars => (IInv /\ Service)'
  <2> SUFFICES ASSUME IInv, Service, [OrderlyNext]_vars
               PROVE  (IInv /\ Service)'
    OBVIOUS
  <2>1. IInv'
    BY NextInv DEF OrderlyNext, AnyNext
  <2> QED
    BY <2>1, NextService
<1> QED
  BY <1>1, <1>2, PTL DEF OrderlySpec, OrderlyNext

(* What is in service is what the handlers have not ended, however they     *)
(* nest over the two controllers and rotate the priorities.                 *)
THEOREM InServiceOnce == OrderlySpec => []ServiceMatches
<1>1. IInv /\ Service => ServiceMatches
  <2> SUFFICES ASSUME IInv, Service PROVE ServiceMatches
    OBVIOUS
  <2> USE DEF IInv
  <2>1. isr["slave"] \subseteq Lines /\ isr["master"] \subseteq Lines
    BY DEF TypeOK, Pics
  <2>2. \A i \in Unreturned : /\ handlers[i][2] \in Lines /\ Line(handlers[i]) \in Lines
                             /\ handlers[i] = <<handlers[i][1], handlers[i][2]>>
    BY HandlerTypes
  <2>3. Unended \subseteq Unreturned
    BY HandlerTypes
  <2>4. isr["slave"] = {handlers[i][2] : i \in {j \in Unended : handlers[j][1] = "slave"}}
    <3>1. ASSUME NEW l \in isr["slave"]
          PROVE  \E i \in Unended : handlers[i][1] = "slave" /\ handlers[i][2] = l
      <4>1. PICK i \in Unended : handlers[i] = <<"slave", l>>
        BY <2>1, <3>1 DEF Service, Matches
      <4> QED
        BY <4>1
    <3>2. ASSUME NEW i \in Unended, handlers[i][1] = "slave"
          PROVE  handlers[i][2] \in isr["slave"]
      <4>1. handlers[i] = <<"slave", handlers[i][2]>> /\ handlers[i][2] \in Lines
        BY <2>2, <2>3, <3>2
      <4> QED
        BY <4>1 DEF Service, Matches
    <3> QED
      BY <3>1, <3>2
  <2>5. isr["master"] = {Line(handlers[i]) : i \in Unreturned}
    BY <2>1, <2>2 DEF Service, Matches
  <2> QED
    BY <2>4, <2>5 DEF ServiceMatches, Line
<1> QED
  BY OrderlyInvariance, <1>1, PTL

(* The EOI of a handler names no level; it ends its own interrupt.          *)
THEOREM EoiIsOwn == OrderlySpec => []InnermostIsHighest
<1>1. IInv /\ Service => InnermostIsHighest
  <2> SUFFICES ASSUME IInv, Service, handlers # <<>>, ending = "no"
               PROVE  LET h == Last(handlers) IN
                      /\ h[2] = First(h[1], isr[h[1]])
                      /\ h[1] = "slave" => SLAVE = First("master", isr["master"])
    BY DEF InnermostIsHighest
  <2> DEFINE n == Len(handlers)  h == handlers[n]
  <2>1. /\ h = Last(handlers) /\ n \in DOMAIN handlers
        /\ h[1] = "slave" => h[2] = First("slave", isr["slave"])
        /\ Line(h) = First("master", isr["master"])
    BY LastIsHighest DEF IInv
  <2>2. h[1] \in Pics
    BY <2>1, HandlerTypes DEF IInv
  <2> QED
    BY <2>1, <2>2 DEF Pics, Line
<1> QED
  BY OrderlyInvariance, <1>1, PTL

-----------------------------------------------------------------------------
(* The free guest: what becomes acceptable in a slice.                      *)

(* Line l of the master is requested, not masked, and nothing is in its way. *)
Open(l) ==
  /\ ei /\ l # SLAVE
  /\ l \in Unmasked("master") \ isr["master"]
  /\ Clear("master", l)

(* The search of pic_irq finds just the line that is open.                  *)
LEMMA AcceptableIsOpen ==
  TypeOK => \A l \in Lines : Acceptable("master", l) <=> Open(l)
<1> SUFFICES ASSUME TypeOK, NEW l \in Lines
             PROVE  Acceptable("master", l) <=> Open(l)
  OBVIOUS
<1>1. "master" \in Pics
  BY DEF Pics
<1>2. ASSUME Acceptable("master", l) PROVE Open(l)
  <2>1. ei /\ Wins("master", l) /\ l # SLAVE /\ l \notin isr["master"]
    BY <1>2 DEF Acceptable
  <2> QED
    BY <1>1, <2>1, WinnerIsClear DEF Open, Competing
<1>3. ASSUME Open(l) PROVE Acceptable("master", l)
  <2>1. Competing("master") \in SUBSET Lines /\ pry["master"] \in Lines
    BY <1>1, UnmaskedLines DEF TypeOK
  <2>2. l \in Competing("master") /\ Above("master", l) \cap Competing("master") = {}
    BY <1>3 DEF Open, Clear, Competing
  <2>3. ASSUME NEW k \in Competing("master"), k # l
        PROVE  Rank("master", l) < Rank("master", k)
    <3>1. k \in Lines /\ ~(Rank("master", k) < Rank("master", l))
      BY <2>1, <2>2 DEF Above
    <3>2. Rank("master", k) \in Nat /\ Rank("master", l) \in Nat
      BY <1>1, <2>1, <3>1, RankIsNat
    <3>3. Rank("master", k) # Rank("master", l)
      BY <1>1, <2>1, <2>3, <3>1, RanksDiffer
    <3> QED
      BY <3>1, <3>2, <3>3
  <2>4. l = First("master", Competing("master"))
    BY <1>1, <2>1, <2>2, <2>3, FirstIs
  <2> QED
    BY <1>3, <2>4 DEF Open, Acceptable, Wins
<1> QED
  BY <1>2, <1>3

(* An instruction that leaves the interrupt flag, the priorities and what   *)
(* is in service alone, and adds no request to the master but the slave's,  *)
(* opens no line but in the two ways that Freed names.                      *)
LEMMA OpenBefore ==
  ASSUME NEW l \in Lines, Open(l)', ei, ~Freed(l),
         pry'["master"] = pry["master"], isr'["master"] = isr["master"],
         Unmasked("master")' \subseteq Unmasked("master") \cup {SLAVE},
         smm["master"] \in BOOLEAN, smm'["master"] \in BOOLEAN
  PROVE  Open(l)
<1>1. Above("master", l)' = Above("master", l)
  BY DEF Above, Rank
<1>2. l # SLAVE /\ l \in Unmasked("master") \ isr["master"]
  BY DEF Open
<1>3. Above("master", l) \cap Unmasked("master")' = {}
  BY <1>1 DEF Open, Clear
<1>4. Above("master", l) \cap Unmasked("master") = {}
  BY <1>3 DEF Freed
<1>5. smm["master"] \/ Above("master", l) \cap isr["master"] = {}
  <2>1. smm'["master"] \/ Above("master", l) \cap isr["master"] = {}
    BY <1>1 DEF Open, Clear
  <2> QED
    BY <2>1 DEF Freed
<1> QED
  BY <1>2, <1>4, <1>5 DEF Open, Clear

(* An instruction behind which the slice goes on without an end set for it. *)
LEMMA GoesOn ==
  ASSUME NEW exit, Instruction(exit), phase' = "run"
  PROVE  ~exit /\ phase = "run"
BY DEF Instruction

(* In a slice that goes on, what is open behind an instruction of the free  *)
(* guest was open before it, or it has been freed.                          *)
LEMMA FreeGuestOpens ==
  ASSUME IInv, IInv', FreeGuest, phase' = "run", ~one', NEW l \in Lines, Open(l)', ~Freed(l)
  PROVE  phase = "run" /\ Open(l)
<1> USE DEF IInv
<1>0. "master" \in Pics /\ "slave" \in Pics /\ ei'
      /\ smm["master"] \in BOOLEAN /\ smm'["master"] \in BOOLEAN
  BY DEF Pics, Open, TypeOK
<1>1. ASSUME UNCHANGED <<irr, imr>>
      PROVE  Unmasked("master")' = Unmasked("master")
  BY <1>1 DEF Unmasked
<1>2. ASSUME NEW c \in Pics, NEW r \in BOOLEAN, NEW sl \in BOOLEAN, NEW eoi \in BOOLEAN,
             NEW n \in Lines, OCW2(c, r, sl, eoi, n)
      PROVE  phase = "run" /\ Open(l)
  <2>1. phase = "run" /\ ~sl /\ isr[c] = {}
    BY <1>2, GoesOn DEF OCW2
  <2>2. pry' = pry /\ isr' = isr /\ UNCHANGED <<irr, imr, ei>>
    BY <1>2, <2>1 DEF OCW2
  <2> QED
    BY <1>0, <1>1, <2>1, <2>2, OpenBefore
<1>3. ASSUME NEW c \in Pics, NEW rr \in BOOLEAN, NEW esmm \in BOOLEAN, NEW s \in BOOLEAN,
             OCW3(c, rr, FALSE, esmm, s)
      PROVE  phase = "run" /\ Open(l)
  <2>1. phase = "run" /\ UNCHANGED <<irr, imr, isr, pry, ei>>
    BY <1>3, GoesOn DEF OCW3
  <2> QED
    BY <1>0, <1>1, <2>1, OpenBefore
<1>4. ASSUME NEW c \in Pics, NEW four \in BOOLEAN, ICW1(c, four)
      PROVE  phase = "run" /\ Open(l)
  <2>1. phase = "run" /\ UNCHANGED <<isr, ei>>
    BY <1>4, GoesOn DEF ICW1
  <2>2. imr' = [imr EXCEPT ![c] = {}] /\ irr' = [irr EXCEPT ![c] = {}]
        /\ pry' = [pry EXCEPT ![c] = 0]
    BY <1>4 DEF ICW1
  <2>3. CASE c = "master"
    <3>1. irr'["master"] = {}
      BY <1>0, <2>2, <2>3 DEF TypeOK
    <3>2. Unmasked("master")' \subseteq {SLAVE}
      BY <3>1 DEF Unmasked
    <3> QED
      BY <3>2 DEF Open
  <2>4. CASE c = "slave"
    <3>1. /\ irr'["master"] = irr["master"] /\ imr'["master"] = imr["master"]
          /\ pry'["master"] = pry["master"]
      BY <1>0, <2>2, <2>4 DEF TypeOK
    <3>2. Unmasked("master")' \subseteq Unmasked("master") \cup {SLAVE}
      BY <3>1 DEF Unmasked
    <3> QED
      BY <1>0, <2>1, <3>1, <3>2, OpenBefore
  <2> QED
    BY <2>3, <2>4 DEF Pics
<1>5. ASSUME NEW c \in Pics, NEW dat \in Masks[c], pic_o02(c, dat)
      PROVE  phase = "run" /\ Open(l)
  <2>1. UNCHANGED <<irr, isr, pry, ei>>
    BY <1>5 DEF pic_o02
  <2>2. phase = "run" /\ imr' = [imr EXCEPT ![c] = dat] /\ ~Unmasks(c, dat)
    <3>1. ~Instruction(TRUE)
      BY GoesOn
    <3>2. Instruction(Unmasks(c, dat)) /\ imr' = [imr EXCEPT ![c] = dat]
      BY <1>5, <3>1 DEF pic_o02
    <3> QED
      BY <3>2, GoesOn
  <2>3. irr[c] \cap (imr[c] \ dat) = {}
    BY <1>0, <2>1, <2>2 DEF Unmasks
  <2>4. irr'["master"] \ imr'["master"] \subseteq irr["master"] \ imr["master"]
    BY <1>0, <2>1, <2>2, <2>3 DEF TypeOK
  <2>5. Unmasked("master")' \subseteq Unmasked("master") \cup {SLAVE}
    BY <2>4 DEF Unmasked
  <2> QED
    BY <1>0, <2>1, <2>2, <2>5, OpenBefore
<1>6. ASSUME NEW q \in Irqs, pic_resetirq(q[1], q[2])
      PROVE  phase = "run" /\ Open(l)
  <2>1. phase = "run" /\ UNCHANGED <<imr, isr, pry, ei>>
    BY <1>6, GoesOn DEF pic_resetirq
  <2>2. irr' = [irr EXCEPT ![q[1]] = @ \ {q[2]}] /\ q[1] \in Pics
    BY <1>6, LinesAssumption DEF pic_resetirq
  <2>3. irr'["master"] \subseteq irr["master"]
    BY <1>0, <2>2 DEF TypeOK
  <2>4. Unmasked("master")' \subseteq Unmasked("master") \cup {SLAVE}
    BY <2>1, <2>3 DEF Unmasked
  <2> QED
    BY <1>0, <2>1, <2>4, OpenBefore
<1>7. ASSUME NEW flag \in BOOLEAN, Popf(flag)
      PROVE  phase = "run" /\ Open(l)
  <2>1. phase = "run" /\ ~(flag /\ ExistsInterrupt) /\ ei' = flag /\ UNCHANGED <<irr, imr>>
    BY <1>7, GoesOn DEF Popf, pi
  <2>2. ~ExistsInterrupt
    BY <1>0, <2>1
  <2>3. irr["master"] \ imr["master"] = {} /\ irr["slave"] \ imr["slave"] = {}
    BY <1>0, <2>2 DEF ExistsInterrupt
  <2>4. Unmasked("master")' = {}
    BY <2>1, <2>3 DEF Unmasked
  <2> QED
    BY <2>4 DEF Open
<1>8. CASE gdc_o64 \/ Nop
  <2>1. phase = "run" /\ UNCHANGED <<irr, imr, isr, pry, ei>>
    BY <1>8, GoesOn DEF gdc_o64, Nop, pi
  <2> QED
    BY <1>0, <1>1, <2>1, OpenBefore
<1>9. CASE Sti
  <2>1. phase = "run" /\ (ei \/ ~StiEnds) /\ UNCHANGED <<irr, imr, isr, pry>>
    BY <1>9 DEF Sti, pi
  <2>2. CASE ei
    BY <1>0, <1>1, <2>1, <2>2, OpenBefore
  <2>3. CASE ~StiEnds
    <3>1. irr["master"] \ imr["master"] = {} /\ irr["slave"] \ imr["slave"] = {}
      BY <1>0, <2>3 DEF StiEnds, ExistsInterrupt
    <3>2. Unmasked("master")' = {}
      BY <2>1, <3>1 DEF Unmasked
    <3> QED
      BY <3>2 DEF Open
  <2> QED
    BY <2>1, <2>2, <2>3
<1>10. ~Cli
  BY <1>0 DEF Cli
<1> QED
  BY <1>2, <1>3, <1>4, <1>5, <1>6, <1>7, <1>8, <1>9, <1>10 DEF FreeGuest

(* pic_irq leaves nothing to be accepted.                                   *)
LEMMA NothingLeft ==
  ASSUME IInv, pic_irq, NEW l \in Lines, Open(l)'
  PROVE  FALSE
<1>1. ei'
  BY DEF Open
<1>2. \A c \in Pics, k \in Lines : ~Accept(c, k)
  BY <1>1 DEF Accept
<1>3. /\ \A c \in Pics, k \in Lines : ~Acceptable(c, k)
      /\ UNCHANGED <<irr, imr, isr, pry, smm, ei>>
  BY <1>2 DEF pic_irq, pi
<1>4. Open(l)
  BY <1>3 DEF Open, Clear, Above, Rank, Unmasked
<1>5. Acceptable("master", l)
  BY <1>4, AcceptableIsOpen DEF IInv
<1> QED
  BY <1>3, <1>5 DEF Pics

(* In a slice that goes on, an interrupt of the master becomes acceptable   *)
(* only by special mask mode or by the withdrawal of one that went before.  *)
THEOREM NothingWaits == FreeSpec => Prompt
<1>1. (TypeOK => \A l \in Lines : Acceptable("master", l) <=> Open(l))'
  BY AcceptableIsOpen, PTL
<1>2. ASSUME IInv, IInv', Machine \/ FreeGuest, phase' = "run", ~one',
             NEW l \in Lines, Acceptable("master", l)'
      PROVE  phase = "run" /\ (Acceptable("master", l) \/ Freed(l))
  <2>1. Open(l)'
    BY <1>1, <1>2 DEF IInv
  <2>2. FreeGuest
    <3>1. ~pic_irq
      BY <1>2, <2>1, NothingLeft
    <3>2. ~Callback /\ ~nevent_progress /\ ~pccore_reset
      BY <1>2 DEF Callback, nevent_progress, pccore_reset
    <3> QED
      BY <1>2, <3>1, <3>2 DEF Machine
  <2>3. CASE Freed(l)
    <3>1. phase = "run"
      BY <2>2 DEF FreeGuest, OCW2, OCW3, ICW1, pic_o02, pic_resetirq, Popf, gdc_o64, Sti, Cli, Nop,
                  Instruction
    <3> QED
      BY <2>3, <3>1
  <2>4. CASE ~Freed(l)
    <3>1. phase = "run" /\ Open(l)
      BY <1>2, <2>1, <2>2, <2>4, FreeGuestOpens
    <3> QED
      BY <1>2, <3>1, AcceptableIsOpen DEF IInv
  <2> QED
    BY <2>3, <2>4
<1>3. IInv /\ IInv' /\ [Machine \/ FreeGuest]_vars =>
        [phase' = "run" /\ ~one' =>
           \A l \in Lines : Acceptable("master", l)' =>
             phase = "run" /\ (Acceptable("master", l) \/ Freed(l))]_vars
  BY <1>2
<1> QED
  BY Invariance, <1>3, PTL DEF FreeSpec, Prompt
=============================================================================
