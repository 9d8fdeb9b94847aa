-------------------------------- MODULE Pic --------------------------------
(***************************************************************************)
(* The two interrupt controllers (io/pic.c), as the main loop of           *)
(* pccore_exec, the callbacks of events and the guest's instructions use   *)
(* them, and the vertical sync interrupt, which the guest arms.            *)
(*                                                                         *)
(* pccore_exec calls pic_irq once before each slice of the CPU: what        *)
(* becomes acceptable within a slice waits for its end.                    *)
(*                                                                         *)
(* Not modelled: the vectors and the other contents of ICW1 .. ICW4 (they  *)
(* are those of the reset), the HAXM loop, requests that the guest's own   *)
(* I/O raises within a slice, MOV SS and POP SS, behind which no slice ends *)
(* either.                                                                 *)
(***************************************************************************)
EXTENDS Naturals, SequencesExt

CONSTANTS
  N,          \* lines of a controller (8)
  TIMER,      \* PIC_SYSTEMTIMER, PIC_CRTV, PIC_SLAVE as lines of the master
  CRTV,
  SLAVE,
  ResetMask,  \* imr of def_master and def_slave
  Irqs,       \* the lines whose devices are there, as <<controller, line>>
  Masks,      \* the masks that the guest writes to each controller
  Commands    \* what else a free guest writes, of {"OCW2", "OCW3", "ICW1"}

Pics == {"master", "slave"}
Lines == 0 .. N - 1

ASSUME LinesAssumption ==
  /\ N \in Nat \ {0}
  /\ TIMER \in Lines /\ CRTV \in Lines /\ SLAVE \in Lines
  /\ TIMER # CRTV /\ TIMER # SLAVE /\ CRTV # SLAVE
  /\ ResetMask \in [Pics -> SUBSET Lines]
  /\ Masks \in [Pics -> SUBSET SUBSET Lines]
  /\ Commands \subseteq {"OCW2", "OCW3", "ICW1"}
  /\ Irqs \subseteq Pics \X Lines /\ Irqs \cap ({"master"} \X {CRTV, SLAVE}) = {}

VARIABLES
  irr, imr, isr,   \* pic.pi[]: requested, masked and in service
  pry,             \* the line of highest priority
  ris, smm,        \* ocw3: reads give isr; special mask mode
  writeicw, ic4,   \* the ICW that is written next; ICW1 asks for ICW4
  picmasked,       \* the event NEVENT_PICMASK is running
  vsyncint,        \* gdc.vsyncint
  ei,              \* the CPU's interrupt flag
  phase,           \* where pccore_exec is
  one,             \* the slice ends after the next instruction
  handlers,        \* the guest: the interrupts it handles, the inner ones last
  ending,          \* the guest: how far the end of the innermost handler is
  armed            \* history: a vertical sync interrupt is owed to the guest

pi == <<irr, imr, isr, pry, ris, smm, writeicw, ic4>>
guest == <<handlers, ending>>
vars == <<pi, picmasked, vsyncint, ei, phase, one, guest, armed>>

Phases == {"irq", "run", "events"}
Endings == {"no", "look", "read", "master", "iret"}

TypeOK ==
  /\ irr \in [Pics -> SUBSET Lines]
  /\ imr \in [Pics -> SUBSET Lines]
  /\ isr \in [Pics -> SUBSET Lines]
  /\ pry \in [Pics -> Lines]
  /\ ris \in [Pics -> BOOLEAN] /\ smm \in [Pics -> BOOLEAN]
  /\ writeicw \in [Pics -> 0 .. 3] /\ ic4 \in [Pics -> BOOLEAN]
  /\ picmasked \in BOOLEAN /\ vsyncint \in BOOLEAN
  /\ ei \in BOOLEAN /\ one \in BOOLEAN /\ armed \in BOOLEAN
  /\ phase \in Phases
  /\ handlers \in Seq(Pics \X Lines)
  /\ ending \in Endings

Init ==
  /\ irr = [c \in Pics |-> {}]
  /\ imr = ResetMask
  /\ isr = [c \in Pics |-> {}]
  /\ pry = [c \in Pics |-> 0]
  /\ ris = [c \in Pics |-> FALSE] /\ smm = [c \in Pics |-> FALSE]
  /\ writeicw = [c \in Pics |-> 0] /\ ic4 = [c \in Pics |-> TRUE]
  /\ picmasked = FALSE
  /\ vsyncint = FALSE
  /\ ei = FALSE
  /\ phase = "irq"
  /\ one = FALSE
  /\ handlers = <<>>
  /\ ending = "no"
  /\ armed = FALSE
-----------------------------------------------------------------------------
(* pic_irq                                                                 *)

(* How far line l is behind the one of highest priority.                    *)
Rank(c, l) == (l + N - pry[c]) % N

(* The loops that look for the first bit, from pry on.                      *)
First(c, S) == CHOOSE l \in S : \A k \in S : Rank(c, l) <= Rank(c, k)

Unmasked(c) ==
  LET cascade == IF irr["slave"] \ imr["slave"] # {} THEN {SLAVE} ELSE {}
  IN  IF c = "master" THEN (irr[c] \cup cascade) \ imr[c] ELSE irr[c] \ imr[c]

(* mutant: what is in service blocks nothing *)
IgnoreService(c) == Unmasked(c)

(* Without special mask mode, what is in service competes.                  *)
Competing(c) == Unmasked(c) \cup (IF smm[c] THEN {} ELSE isr[c])

(* c accepts line l: it wins, and it is not the one in service that won.    *)
Wins(c, l) ==
  /\ Unmasked(c) # {}
  /\ l = First(c, Competing(c))

Acceptable(c, l) ==
  /\ ei
  /\ IF c = "master"
     THEN Wins("master", l) /\ l # SLAVE
     ELSE Wins("master", SLAVE) /\ Wins("slave", l)
  /\ l \notin isr[c]

(* mutant: the master is not told that the slave is in service *)
SlaveAlone(c, l) == [isr EXCEPT ![c] = @ \cup {l}]

InService(c, l) ==
  IF c = "master" THEN [isr EXCEPT ![c] = @ \cup {l}]
  ELSE [isr EXCEPT ![c] = @ \cup {l}, !["master"] = @ \cup {SLAVE}]

Accept(c, l) ==
  /\ Acceptable(c, l)
  /\ isr' = InService(c, l)
  /\ irr' = IF c = "master" THEN [irr EXCEPT ![c] = @ \ {l}]
            ELSE [irr EXCEPT ![c] = @ \ {l}, !["master"] = @ \ {SLAVE}]
  /\ picmasked' = (picmasked /\ <<c, l>> # <<"master", TIMER>>)
  /\ ei' = FALSE
  /\ handlers' = Append(handlers, <<c, l>>)
  /\ armed' = (armed /\ (<<c, l>> # <<"master", CRTV>> \/ vsyncint))
  /\ UNCHANGED <<imr, pry, ris, smm, writeicw, ic4, vsyncint, ending>>

pic_irq ==
  /\ phase = "irq"
  /\ phase' = "run" /\ one' = FALSE
  /\ \/ \E c \in Pics, l \in Lines : Accept(c, l)
     \/ /\ \A c \in Pics, l \in Lines : ~Acceptable(c, l)
        /\ UNCHANGED <<pi, picmasked, vsyncint, ei, guest, armed>>
-----------------------------------------------------------------------------
(* The callbacks of nevent_progress.                                       *)

(* A vertical sync that comes while the last is in service is put off.      *)
PutOff(l) == l = CRTV /\ l \in isr["master"]

pic_setirq(c, l) ==
  /\ irr' = IF c = "master" /\ PutOff(l)
            THEN [irr EXCEPT ![c] = @ \ {l}]
            ELSE [irr EXCEPT ![c] = @ \cup {l}]
  /\ \/ /\ c = "master" /\ l = TIMER /\ l \in imr[c]
        /\ picmasked' = TRUE        \* the timer is in mode 2
     \/ picmasked' = picmasked
  /\ UNCHANGED <<imr, isr, pry, ris, smm, writeicw, ic4>>

(* A device, or the timer.                                                  *)
Request(c, l) ==
  /\ pic_setirq(c, l)
  /\ UNCHANGED <<vsyncint, armed>>

screenvsync ==
  /\ vsyncint
  /\ pic_setirq("master", CRTV)
  /\ vsyncint' = PutOff(CRTV)
  /\ UNCHANGED armed

(* mutant: the request that was not accepted is forgotten *)
Forget == FALSE

(* The request ends with the blanking; it will come again.                  *)
Again == TRUE

screendisp ==
  /\ CRTV \in irr["master"]
  /\ irr' = [irr EXCEPT !["master"] = @ \ {CRTV}]
  /\ vsyncint' = (vsyncint \/ Again)
  /\ UNCHANGED <<imr, isr, pry, ris, smm, writeicw, ic4, picmasked, armed>>

picmask ==
  /\ picmasked
  /\ picmasked' = FALSE
  /\ irr' = [irr EXCEPT !["master"] = @ \ (imr["master"] \cap {TIMER})]
  /\ UNCHANGED <<imr, isr, pry, ris, smm, writeicw, ic4, vsyncint, armed>>

Callback ==
  /\ phase = "events"
  /\ \/ \E q \in Irqs : Request(q[1], q[2])
     \/ screenvsync \/ screendisp \/ picmask
  /\ UNCHANGED <<ei, phase, one, guest>>

nevent_progress ==
  /\ phase = "events"
  /\ phase' = "irq"
  /\ UNCHANGED <<pi, picmasked, vsyncint, ei, one, guest, armed>>
-----------------------------------------------------------------------------
(* The guest's instructions. One that forces the exit, or for which an      *)
(* earlier one has asked, is the last of its slice; any may be.             *)

Instruction(exit) ==
  /\ phase = "run"
  /\ phase' = "events" \/ (~exit /\ ~one /\ phase' = "run")
  /\ one' = FALSE

(* PICEXISTINTR                                                             *)
ExistsInterrupt == \E c \in Pics : irr[c] \ imr[c] # {}

(* mutant: the line of highest priority, in service or not *)
NoSearch(c, sl, n) == IF sl THEN n ELSE pry[c]

(* A specific level, or the one in service of highest priority.             *)
Level(c, sl, n) == IF sl THEN n ELSE First(c, isr[c])

(* OCW2: end of interrupt, rotation of the priorities, or both.             *)
OCW2(c, r, sl, eoi, n) ==
  LET idle == ~sl /\ isr[c] = {}
      level == Level(c, sl, n)
  IN
  /\ Instruction(~idle)
  /\ pry' = IF r /\ ~idle THEN [pry EXCEPT ![c] = (level + 1) % N] ELSE pry
  /\ isr' = IF eoi /\ ~idle THEN [isr EXCEPT ![c] = @ \ {level}] ELSE isr
  /\ writeicw' = [writeicw EXCEPT ![c] = 0]
  /\ UNCHANGED <<irr, imr, ris, smm, ic4, picmasked, vsyncint, ei, armed>>

(* OCW3: without PIC_OCW3_RR the mode bits are cut off as well.             *)
OCW3(c, rr, r, esmm, s) ==
  /\ Instruction(FALSE)
  /\ ris' = [ris EXCEPT ![c] = r \/ (~rr /\ @)]
  /\ smm' = [smm EXCEPT ![c] = IF rr /\ esmm THEN s ELSE @]
  /\ writeicw' = [writeicw EXCEPT ![c] = 0]
  /\ UNCHANGED <<irr, imr, isr, pry, ic4, picmasked, vsyncint, ei, armed>>

(* ICW1 leaves what is in service.                                          *)
ICW1(c, four) ==
  /\ Instruction(FALSE)
  /\ imr' = [imr EXCEPT ![c] = {}] /\ irr' = [irr EXCEPT ![c] = {}]
  /\ ris' = [ris EXCEPT ![c] = FALSE] /\ smm' = [smm EXCEPT ![c] = FALSE]
  /\ pry' = [pry EXCEPT ![c] = 0]
  /\ writeicw' = [writeicw EXCEPT ![c] = 1] /\ ic4' = [ic4 EXCEPT ![c] = four]
  /\ armed' = (armed /\ (c = "slave" \/ vsyncint))
  /\ UNCHANGED <<isr, picmasked, vsyncint, ei>>

(* mutant: an ICW more is expected *)
ThreeOrFour(c) == IF ic4[c] THEN 5 ELSE 4

(* The number at which the ICWs are complete.                               *)
Complete(c) == IF ic4[c] THEN 4 ELSE 3

(* mutant: unmasking never ends the slice *)
LetRun(c, dat) == FALSE

(* A request is unmasked while the CPU accepts interrupts.                  *)
Unmasks(c, dat) == ei /\ irr[c] \cap (imr[c] \ dat) # {}

(* pic_o02: the mask, or the next ICW.                                      *)
pic_o02(c, dat) ==
  /\ \/ /\ writeicw[c] = 0
        /\ Instruction(Unmasks(c, dat))
        /\ imr' = [imr EXCEPT ![c] = dat]
        /\ UNCHANGED writeicw
     \/ /\ writeicw[c] # 0
        /\ Instruction(TRUE)
        /\ writeicw' = [writeicw EXCEPT ![c] =
                          IF @ + 1 >= Complete(c) THEN 0 ELSE @ + 1]
        /\ UNCHANGED imr
  /\ UNCHANGED <<irr, isr, pry, ris, smm, ic4, picmasked, vsyncint, ei, armed>>

(* The guest's program reads or writes a device, which withdraws a request. *)
pic_resetirq(c, l) ==
  /\ Instruction(FALSE)
  /\ irr' = [irr EXCEPT ![c] = @ \ {l}]
  /\ UNCHANGED <<imr, isr, pry, ris, smm, writeicw, ic4, picmasked, vsyncint, ei, armed>>

(* Port 64h.                                                                *)
gdc_o64 ==
  /\ Instruction(FALSE)
  /\ vsyncint' = TRUE /\ armed' = TRUE
  /\ UNCHANGED <<pi, picmasked, ei>>

(* STI always lets one more instruction run in the slice. Behind this the   *)
(* slice ends, in i386c always and in i286c if a request is there and was   *)
(* not acceptable for the interrupt flag, or if no clocks are left.         *)
StiEnds == ExistsInterrupt

Sti ==
  /\ phase = "run"
  /\ ei' = TRUE
  /\ phase' = "run"
  /\ one' = TRUE \/ (~one /\ ~(StiEnds /\ ~ei) /\ one' = FALSE)
  /\ UNCHANGED <<pi, picmasked, vsyncint, armed>>

Cli ==
  /\ Instruction(FALSE)
  /\ ei' = FALSE
  /\ UNCHANGED <<pi, picmasked, vsyncint, armed>>

(* IRET and POPF.                                                           *)
Popf(flag) ==
  /\ Instruction(flag /\ ExistsInterrupt)
  /\ ei' = flag
  /\ UNCHANGED <<pi, picmasked, vsyncint, armed>>

Nop == Instruction(FALSE) /\ UNCHANGED <<pi, picmasked, vsyncint, ei, armed>>

(* A guest that writes what it likes; what it reads is of no consequence.   *)
FreeGuest ==
  /\ \/ /\ "OCW2" \in Commands
        /\ \E c \in Pics, r, sl, eoi \in BOOLEAN, n \in Lines : OCW2(c, r, sl, eoi, n)
     \/ /\ "OCW3" \in Commands
        /\ \E c \in Pics, rr, esmm, s \in BOOLEAN : OCW3(c, rr, FALSE, esmm, s)
     \/ /\ "ICW1" \in Commands
        /\ \E c \in Pics, four \in BOOLEAN : ICW1(c, four)
     \/ \E c \in Pics : \E dat \in Masks[c] : pic_o02(c, dat)
     \/ \E q \in Irqs : pic_resetirq(q[1], q[2])
     \/ \E flag \in BOOLEAN : Popf(flag)
     \/ gdc_o64 \/ Sti \/ Cli \/ Nop
  /\ handlers' = <<>>
  /\ UNCHANGED ending

(* A guest whose handlers end as they should: with interrupts disabled, the *)
(* slave's EOI, then the master's if the slave has nothing more in service. *)
EOI(c) == \E r \in BOOLEAN : OCW2(c, r, FALSE, TRUE, 0)

EndHandler ==
  /\ handlers # <<>>
  /\ LET c == Last(handlers)[1] IN
     \/ /\ ending = "no" /\ ~ei
        /\ EOI(c)
        /\ ending' = IF c = "slave" THEN "look" ELSE "iret"
        /\ UNCHANGED handlers
     \/ /\ ending = "look"
        /\ OCW3("slave", TRUE, TRUE, FALSE, FALSE)
        /\ ending' = "read"
        /\ UNCHANGED handlers
     \/ /\ ending = "read"
        /\ Nop
        /\ ending' = IF isr["slave"] = {} THEN "master" ELSE "iret"
        /\ UNCHANGED handlers
     \/ /\ ending = "master"
        /\ EOI("master")
        /\ ending' = "iret"
        /\ UNCHANGED handlers
     \/ /\ ending = "iret"
        /\ Popf(TRUE)
        /\ handlers' = Front(handlers)
        /\ ending' = "no"

Orderly ==
  /\ \/ \E c \in Pics : \E dat \in Masks[c] : writeicw[c] = 0 /\ pic_o02(c, dat)
     \/ \E q \in Irqs : pic_resetirq(q[1], q[2])
     \/ gdc_o64
     \/ ending = "no" /\ (Sti \/ Cli)
     \/ Nop
  /\ UNCHANGED guest

(* pccore_reset                                                             *)
pccore_reset ==
  /\ phase = "irq"
  /\ irr' = [c \in Pics |-> {}] /\ imr' = ResetMask /\ isr' = [c \in Pics |-> {}]
  /\ pry' = [c \in Pics |-> 0]
  /\ ris' = [c \in Pics |-> FALSE] /\ smm' = [c \in Pics |-> FALSE]
  /\ writeicw' = [c \in Pics |-> 0] /\ ic4' = [c \in Pics |-> TRUE]
  /\ picmasked' = FALSE /\ vsyncint' = FALSE /\ ei' = FALSE
  /\ handlers' = <<>> /\ ending' = "no" /\ armed' = FALSE
  /\ UNCHANGED <<phase, one>>

Machine == pic_irq \/ Callback \/ nevent_progress \/ pccore_reset

FreeSpec == Init /\ [][Machine \/ FreeGuest]_vars

OrderlySpec == Init /\ [][Machine \/ Orderly \/ EndHandler]_vars

(* The main loop goes on; handlers end, and the program does not keep       *)
(* interrupts disabled outside of them.                                     *)
FairSpec ==
  /\ OrderlySpec
  /\ WF_vars(pic_irq) /\ WF_vars(nevent_progress) /\ WF_vars(Nop /\ UNCHANGED guest)
  /\ SF_vars(EndHandler)
  /\ SF_vars(handlers # <<>> /\ ending = "no" /\ ei /\ Cli /\ UNCHANGED guest)
  /\ SF_vars(handlers = <<>> /\ ~ei /\ Sti /\ UNCHANGED guest)
-----------------------------------------------------------------------------
(* An accepted interrupt was requested and not masked, and nothing of       *)
(* higher priority was requested or, but for special mask mode, in service; *)
(* nothing has a higher priority than the slave's line to the master either.*)
(* That line is requested and not masked, or it is in service already: with *)
(* rotated priorities it may then be accepted although it has been masked.  *)
Above(c, l) == {k \in Lines : Rank(c, k) < Rank(c, l)}
Clear(c, l) ==
  /\ Above(c, l) \cap Unmasked(c) = {}
  /\ smm[c] \/ Above(c, l) \cap isr[c] = {}
Prior(c, l) ==
  /\ l \in Unmasked(c) /\ Clear(c, l)
  /\ c = "slave" => /\ SLAVE \in Unmasked("master") \cup isr["master"]
                    /\ Clear("master", SLAVE)
PriorityRespected ==
  [][\A c \in Pics, l \in Lines :
       Len(handlers') > Len(handlers) /\ Last(handlers') = <<c, l>> => Prior(c, l)]_vars

(* The vertical sync interrupt that the guest has asked for is not lost,    *)
(* although its request is withdrawn at the end of each blanking, and in    *)
(* its own handler, until the guest accepts it or resets the controller.    *)
VsyncKept == armed => vsyncint \/ CRTV \in irr["master"]

(* What is in service is what the handlers have not ended, the slave's line *)
(* to the master included, however they nest.                               *)
Unended == {i \in DOMAIN handlers : i < Len(handlers) \/ ending = "no"}
Unreturned == {i \in DOMAIN handlers : i < Len(handlers) \/ ending # "iret"}
ServiceMatches ==
  /\ isr["slave"] = {handlers[i][2] : i \in {j \in Unended : handlers[j][1] = "slave"}}
  /\ isr["master"] = {IF handlers[i][1] = "slave" THEN SLAVE ELSE handlers[i][2] :
                        i \in Unreturned}

(* So the EOI of a handler, which names no level, always ends its own       *)
(* interrupt, with and without rotation of the priorities.                  *)
InnermostIsHighest ==
  handlers # <<>> /\ ending = "no" =>
    LET h == Last(handlers) IN
    /\ h[2] = First(h[1], isr[h[1]])
    /\ h[1] = "slave" => SLAVE = First("master", isr["master"])

(* Whatever the guest writes to the flags and the controllers, the CPU does *)
(* not go on in its slice with an interrupt of the master that has become   *)
(* acceptable in it. The code leaves two ways open in which one waits for   *)
(* the end of the slice: special mask mode frees it from what is in         *)
(* service, or a request of higher priority is withdrawn or masked.         *)
Freed(l) ==
  \/ ~smm["master"] /\ smm'["master"]
  \/ Above("master", l) \cap (Unmasked("master") \ Unmasked("master")') # {}
Prompt ==
  [][phase' = "run" /\ ~one' =>
       \A l \in Lines : Acceptable("master", l)' =>
         phase = "run" /\ (Acceptable("master", l) \/ Freed(l))]_vars

(* When the devices are quiet, the masks stay and the program that is       *)
(* interrupted does not disable interrupts, all requests that are not       *)
(* masked are accepted: nothing stays in service and blocks them.           *)
Quiet ==
  <>[][/\ ~Callback /\ ~pccore_reset /\ UNCHANGED imr
       /\ phase = "run" /\ handlers = <<>> /\ ei => ei']_vars
Served == Quiet => <>[](Unmasked("master") = {})
=============================================================================
