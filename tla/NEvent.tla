------------------------------- MODULE NEvent -------------------------------
(***************************************************************************)
(* The event scheduler of nevent.c together with the frame loop that       *)
(* drives it (pccore_exec, screenvsync and screendisp of pccore.c).        *)
(*                                                                         *)
(* The scheduler keeps `level`, the running events in the order of their   *)
(* clocks; an event's clock counts from the last nevent_progress.  The CPU *)
(* core executes while CPU_REMCLOCK > 0; CPU_BASECLOCK - CPU_REMCLOCK is   *)
(* the time it has used since then.  Every round of the frame loop lets    *)
(* pic_irq accept an interrupt, runs the CPU core and calls                *)
(* nevent_progress.                                                        *)
(*                                                                         *)
(* Not modelled: NEVENT_WAIT (no callback sets it), the SINT32 range of    *)
(* the clocks (ClockCap bounds them), nevent_get1stevent and               *)
(* nevent_waitreset (nothing calls them), and nevent_forceexecute, which   *)
(* leaves the scheduler alone and is called right before a reset.          *)
(***************************************************************************)
EXTENDS Integers, SequencesExt

CONSTANTS
  Devices,      \* the events other than NEVENT_FLAMES
  Flames,       \* NEVENT_FLAMES, the event of the display frame
  Delays,       \* the event clocks devices pass to nevent_set
  DispClock,    \* gdc.dispclock, the displayed part of a frame
  VsyncClock,   \* gdc.vsyncclock, the vertical blank
  MaxClock,     \* NEVENT_MAXCLOCK, the longest time slice
  StepClocks,   \* the clocks one instruction of the guest takes
  EntryClocks,  \* the clocks the CPU takes to accept an interrupt
  Multiples,    \* the multiples the user configures or the guest writes
  Steps,        \* the steps of clockDownTbl and clockUpTbl
  ClockCap,     \* bound: a relative nevent_set leaves no clock above it
  ShadowCap,    \* bound: STIs in a row leave CPU_BASECLOCK no higher
  EntryCap      \* bound: interrupts leave CPU_REMCLOCK no lower than its negative

Positive == Nat \ {0}

ASSUME DevicesAssumption == Flames \notin Devices
ASSUME ClocksAssumption ==
  /\ Delays \subseteq Positive
  /\ StepClocks \subseteq Positive
  /\ EntryClocks \subseteq Positive
  /\ Multiples \subseteq Positive
  /\ Steps \subseteq Positive
  /\ DispClock \in Positive
  /\ VsyncClock \in Positive
  /\ MaxClock \in Positive
  /\ ClockCap \in Positive
  /\ ShadowCap \in Positive
  /\ EntryCap \in Positive

Ids == Devices \cup {Flames}

VARIABLES
  level,           \* g_nevent.level[0 .. readyevents-1]
  waitevent,       \* g_nevent.waitevent[], the events nevent_execute has not called yet
  clock,           \* g_nevent.item[].clock
  setevent,        \* NEVENT_SETEVENT of g_nevent.item[].flag
  base,            \* CPU_BASECLOCK
  rem,             \* CPU_REMCLOCK
  proc,            \* g_nevent.item[NEVENT_FLAMES].proc
  screendispflag,  \* pcstat.screendispflag
  multiple,        \* pccore.multiple
  maxmultiple,     \* pccore.maxmultiple
  phase            \* where the emulator's thread is

multiples == <<multiple, maxmultiple>>

vars == <<level, waitevent, clock, setevent, base, rem, proc, screendispflag,
          multiples, phase>>

(* host: between two frames; loop: at the head of the frame loop, before    *)
(* pic_irq; cpu: behind it, about to enter the CPU core; insn: in an        *)
(* instruction, with its clocks taken; next: behind an instruction that     *)
(* makes the core execute another one; execute: in nevent_execute.          *)
Phases == {"host", "loop", "cpu", "insn", "next", "execute"}

TypeOK ==
  /\ level \in Seq(Ids)
  /\ waitevent \in Seq(Ids)
  /\ clock \in [Ids -> Int]
  /\ setevent \in [Ids -> BOOLEAN]
  /\ base \in Int
  /\ rem \in Int
  /\ proc \in {"screenvsync", "screendisp"}
  /\ screendispflag \in BOOLEAN
  /\ maxmultiple \in Multiples
  /\ multiple \in 1 .. maxmultiple
  /\ phase \in Phases

Init ==
  /\ level = <<>>
  /\ waitevent = <<>>
  /\ clock = [id \in Ids |-> 0]
  /\ setevent = [id \in Ids |-> FALSE]
  /\ base = 0
  /\ rem = 0
  /\ proc = "screenvsync"
  /\ screendispflag = FALSE
  /\ maxmultiple \in Multiples
  /\ multiple = maxmultiple
  /\ phase = "host"

Elapsed == base - rem
Remaining(id) == clock[id] - Elapsed      \* nevent_getremain of a running event
nevent_iswork(id) == Contains(level, id)

-----------------------------------------------------------------------------
(* The scheduler's operations.                                             *)

(* mutant: the entry after the one found is dropped *)
DeleteNext(s, id) ==
  IF Contains(s, id)
  THEN LET i == CHOOSE i \in 1 .. Len(s) : s[i] = id
       IN  RemoveAt(s, IF i < Len(s) THEN i + 1 ELSE i)
  ELSE s

Delete(s, id) ==
  IF Contains(s, id)
  THEN RemoveAt(s, CHOOSE i \in 1 .. Len(s) : s[i] = id)
  ELSE s

(* mutant: a new event goes to the end of level *)
IsLastPlace(s, p, c) == p = Len(s) + 1

(* nevent_set looks for the first running event with a greater clock.       *)
IsPlace(s, p, c) ==
  /\ \A i \in 1 .. Len(s) : i < p => clock[s[i]] <= c
  /\ p <= Len(s) => c < clock[s[p]]

(* mutants: the slice is not shortened; the slice starts afresh *)
RebaseNothing(first, c) == UNCHANGED <<base, rem>>
RebaseAfresh(first, c) ==
  IF first THEN base' = c /\ rem' = c ELSE UNCHANGED <<base, rem>>

(* An earliest event shifts CPU_BASECLOCK and CPU_REMCLOCK alike.           *)
Rebase(first, c) ==
  IF first
  THEN base' = c /\ rem' = rem - (base - c)
  ELSE UNCHANGED <<base, rem>>

(* mutants: the flag is kept; the time used in the slice is not added *)
KeepFlag(id) == UNCHANGED setevent
AbsoluteFromSlice(d) == d

(* nevent_set drops all flags, nevent_execute NEVENT_SETEVENT.              *)
ClearFlag(id) == setevent' = [setevent EXCEPT ![id] = FALSE]

(* NEVENT_ABSOLUTE counts from now.                                         *)
AbsoluteClock(d) == d + Elapsed

(* nevent_set(id, ...), where the event's clock becomes c.                  *)
nevent_set(id, c) ==
  LET rest == Delete(level, id) IN
  /\ clock' = [clock EXCEPT ![id] = c]
  /\ \E p \in 1 .. Len(rest) + 1 :
       /\ IsPlace(rest, p, c)
       /\ level' = InsertAt(rest, p, id)
       /\ Rebase(p = 1, c)

(* Who may call the scheduler: the host between frames, the I/O of an       *)
(* instruction, and the callback of the first waiting event.                *)
Calling ==
  \/ phase \in {"host", "insn"}
  \/ phase = "execute" /\ waitevent # <<>>

SetAbsolute(id, d) ==
  /\ Calling
  /\ nevent_set(id, AbsoluteClock(d))
  /\ ClearFlag(id)
  /\ UNCHANGED <<waitevent, proc, screendispflag, multiples, phase>>

(* NEVENT_RELATIVE adds to the event's own clock, whatever it was.          *)
SetRelative(id, d) ==
  /\ Calling
  /\ clock[id] + d <= ClockCap
  /\ nevent_set(id, clock[id] + d)
  /\ ClearFlag(id)
  /\ UNCHANGED <<waitevent, proc, screendispflag, multiples, phase>>

nevent_reset(id) ==
  /\ Calling
  /\ nevent_iswork(id)
  /\ level' = Delete(level, id)
  /\ UNCHANGED <<waitevent, clock, setevent, base, rem, proc, screendispflag,
                 multiples, phase>>

(* A PIC or DMA write ends the time slice, so that the main loop looks.     *)
nevent_forceexit ==
  /\ phase = "insn" \/ (phase = "execute" /\ waitevent # <<>>)
  /\ rem > 0
  /\ base' = base - rem
  /\ rem' = 0
  /\ UNCHANGED <<level, waitevent, clock, setevent, proc, screendispflag,
                 multiples, phase>>

CDiv(a, b) == IF a >= 0 THEN a \div b ELSE -((-a) \div b)

(* x clocks of multiple old, rounded to clocks of multiple new.             *)
Scale(x, old, new) == CDiv(x * new + old \div 2, old)

ScaleEvent(c, old, new) ==
  IF c <= 0 THEN c
  ELSE IF Scale(c, old, new) <= 0 THEN 1 ELSE Scale(c, old, new)

nevent_changeclock(old, new) ==
  IF level = <<>>
  THEN UNCHANGED <<clock, base, rem>>
  ELSE /\ clock' = [id \in Ids |-> IF nevent_iswork(id)
                                   THEN ScaleEvent(clock[id], old, new)
                                   ELSE clock[id]]
       /\ IF base = rem
          THEN base' = clock'[level[1]] /\ rem' = clock'[level[1]]
          ELSE base' = Scale(base, old, new) /\ rem' = Scale(rem, old, new)

-----------------------------------------------------------------------------
(* The main loop.                                                          *)

(* pccore_exec starts a frame.                                              *)
BeginFrame ==
  /\ phase = "host"
  /\ nevent_set(Flames, clock[Flames] + DispClock)
  /\ ClearFlag(Flames)
  /\ proc' = "screenvsync"
  /\ screendispflag' = TRUE
  /\ phase' = "loop"
  /\ UNCHANGED <<waitevent, multiples>>

(* pcstat.hardwarereset, handled after a frame: nevent_allreset clears the  *)
(* events, CPU_RESET the two clocks, and pccore_set takes over the          *)
(* configured multiple.                                                     *)
pccore_reset(configured) ==
  /\ phase = "host"
  /\ level' = <<>>
  /\ waitevent' = <<>>
  /\ clock' = [id \in Ids |-> 0]
  /\ setevent' = [id \in Ids |-> FALSE]
  /\ base' = 0
  /\ rem' = 0
  /\ maxmultiple' = configured
  /\ multiple' = configured
  /\ UNCHANGED <<proc, screendispflag, phase>>

(* pic_irq: an interrupt that the CPU accepts takes n clocks, whether or    *)
(* not any are left; with none, n is 0.                                     *)
PicIrq(n) ==
  /\ phase = "loop"
  /\ n = 0 \/ rem - n >= -EntryCap
  /\ rem' = rem - n
  /\ phase' = "cpu"
  /\ UNCHANGED <<level, waitevent, clock, setevent, base, proc, screendispflag,
                 multiples>>

(* The CPU core runs; it stops once the clocks are used.                    *)
Executing == phase \in {"cpu", "insn", "next"} /\ rem > 0

CpuStep(n) ==
  /\ Executing
  /\ rem' = rem - n
  /\ phase' = "insn"
  /\ UNCHANGED <<level, waitevent, clock, setevent, base, proc, screendispflag,
                 multiples>>

(* HLT gives up the rest of the slice.                                      *)
CpuHalt ==
  /\ Executing
  /\ rem' = -1
  /\ phase' = "insn"
  /\ UNCHANGED <<level, waitevent, clock, setevent, base, proc, screendispflag,
                 multiples>>

(* STI, POP SS and MOV SS of the i286 core must be followed by another      *)
(* instruction: NEXT_OPCODE gives it a clock if none is left, and           *)
(* REMAIN_ADJUST leaves no more than this one if a request waits.           *)
CpuShadow(n) ==
  /\ Executing
  /\ base + 1 - (rem - n) <= ShadowCap
  /\ base' = base + 1 - (rem - n)
  /\ rem' = 1
  /\ phase' = "next"
  /\ UNCHANGED <<level, waitevent, clock, setevent, proc, screendispflag,
                 multiples>>

(* The guest writes a new clock multiple (np2sysp_cngclkmul).               *)
IoChangeClock(new) ==
  /\ phase = "insn"
  /\ new # multiple
  /\ nevent_changeclock(multiple, new)
  /\ multiple' = new
  /\ maxmultiple' = new
  /\ UNCHANGED <<level, waitevent, setevent, proc, screendispflag, phase>>

(* The first n running events are those whose time has come.                *)
IsDue(n) ==
  \A i \in 1 .. Len(level) : clock[level[i]] - base <= 0 <=> i <= n

(* nextbase: the least clock left, at most NEVENT_MAXCLOCK.                 *)
NextBases == {MaxClock} \cup {clock'[level'[i]] : i \in 1 .. Len(level')}

(* nevent_progress up to nevent_execute.  The code filters level; in a      *)
(* sorted level what is due is a prefix, and an event in it with            *)
(* NEVENT_SETEVENT still set would not be queued again: were either ever    *)
(* otherwise, this action would be disabled and the model would deadlock.   *)
Progress ==
  /\ phase \in {"cpu", "insn"}
  /\ rem <= 0
  /\ \E n \in 0 .. Len(level) :
       /\ IsDue(n)
       /\ \A i \in 1 .. n : ~setevent[level[i]]
       /\ level' = SubSeq(level, n + 1, Len(level))
       /\ waitevent' = SubSeq(level, 1, n)
       /\ setevent' = [id \in Ids |-> setevent[id] \/ \E i \in 1 .. n : level[i] = id]
  /\ clock' = [id \in Ids |-> IF nevent_iswork(id) THEN clock[id] - base ELSE clock[id]]
  /\ \E b \in NextBases :
       /\ b <= MaxClock /\ \A i \in 1 .. Len(level') : b <= clock'[level'[i]]
       /\ base' = b
       /\ rem' = rem + b
  /\ screendispflag' = (screendispflag /\ nevent_iswork(Flames))
  /\ phase' = "execute"
  /\ UNCHANGED <<proc, multiples>>

(* nevent_execute: the callback of the first waiting event has returned.    *)
Return ==
  /\ phase = "execute"
  /\ waitevent # <<>>
  /\ waitevent' = Tail(waitevent)
  /\ UNCHANGED <<multiples, phase>>

DeviceReturns ==
  /\ Return
  /\ Head(waitevent) # Flames
  /\ ClearFlag(Head(waitevent))
  /\ UNCHANGED <<level, clock, base, rem, proc, screendispflag>>

screenvsync ==
  /\ Return
  /\ Head(waitevent) = Flames /\ proc = "screenvsync"
  /\ nevent_set(Flames, clock[Flames] + VsyncClock)
  /\ ClearFlag(Flames)
  /\ proc' = "screendisp"
  /\ UNCHANGED screendispflag

screendisp ==
  /\ Return
  /\ Head(waitevent) = Flames /\ proc = "screendisp"
  /\ ClearFlag(Flames)
  /\ screendispflag' = FALSE
  /\ UNCHANGED <<level, clock, base, rem, proc>>

(* nevent_progress has returned; the loop goes on until the frame is done.  *)
LoopBack == phase' = IF screendispflag THEN "loop" ELSE "host"

EndProgress ==
  /\ phase = "execute"
  /\ waitevent = <<>>
  /\ LoopBack
  /\ UNCHANGED <<level, waitevent, clock, setevent, base, rem, proc,
                 screendispflag, multiples>>

(* A late host lowers the multiple by the table's step, never below 1.      *)
Lowered(step) == IF multiple > step THEN multiple - step ELSE 1

(* mutant: the step up is taken without the limit of maxmultiple *)
RaisedFreely(step) == multiple + step

(* A fast host raises it, never above pccore.maxmultiple.                   *)
Raised(step) == IF multiple + step < maxmultiple THEN multiple + step ELSE maxmultiple

(* pccore_asynccpu adapts the clock multiple to the speed of the host.      *)
AsyncChangeClock(step) ==
  /\ phase = "execute"
  /\ waitevent = <<>>
  /\ \/ multiple > 1 /\ multiple' = Lowered(step)
     \/ multiple < maxmultiple /\ multiple' = Raised(step)
  /\ nevent_changeclock(multiple, multiple')
  /\ LoopBack
  /\ UNCHANGED <<level, waitevent, setevent, proc, screendispflag, maxmultiple>>

Call ==
  \/ \E id \in Devices, d \in Delays : SetAbsolute(id, d) \/ SetRelative(id, d)
  \/ \E id \in Devices : nevent_reset(id)
  \/ nevent_forceexit

Run ==
  \/ \E n \in EntryClocks \cup {0} : PicIrq(n)
  \/ \E n \in StepClocks : CpuStep(n) \/ CpuShadow(n)
  \/ CpuHalt
  \/ Progress
  \/ DeviceReturns
  \/ screenvsync
  \/ screendisp
  \/ EndProgress

Next ==
  \/ Call
  \/ Run
  \/ BeginFrame
  \/ \E new \in Multiples : pccore_reset(new) \/ IoChangeClock(new)
  \/ \E step \in Steps : AsyncChangeClock(step)

Spec == Init /\ [][Next]_vars

(* The thread that runs pccore_exec keeps running: an instruction or a      *)
(* callback returns after finitely many calls of the scheduler, and a row   *)
(* of STIs ends at some other instruction (ShadowCap).                      *)
FairSpec == Spec /\ WF_vars(Run)
-----------------------------------------------------------------------------
(* Safety.                                                                 *)

Running == Range(level)

(* nevent_set and nevent_reset keep `level` free of duplicates and in the   *)
(* order of the clocks, through nevent_progress and nevent_changeclock: the *)
(* first entry is the next event, which is all the main loop looks at.      *)
LevelOrdered ==
  \A i, j \in 1 .. Len(level) :
    i < j => level[i] # level[j] /\ clock[level[i]] <= clock[level[j]]

(* The CPU core is never given more clocks than are left until the next     *)
(* running event, whatever was set, removed or rescaled in the slice, but   *)
(* for the single clock that lets it execute the instruction behind an STI. *)
NeverSleepsPastEvent ==
  rem > 0 =>
    \/ phase = "next" /\ rem = 1
    \/ \A i \in 1 .. Len(level) : rem <= Remaining(level[i])

(* A callback that finds NEVENT_SETEVENT set is called once for its event:  *)
(* the event waits exactly once, and has not been set again since it became *)
(* due (mouseint, systimer, ... test the flag for this reason).             *)
EffectiveOnce ==
  /\ \A i, j \in 1 .. Len(waitevent) : i < j => waitevent[i] # waitevent[j]
  /\ \A id \in Ids : setevent[id] =>
       /\ Contains(waitevent, id)
       /\ ~nevent_iswork(id)

(* While a frame lasts the frame event is running (or about to be called):  *)
(* calls of the scheduler from the emulator's own thread never lose it,     *)
(* which the stop-gap at the end of nevent_progress allows for.             *)
FrameEventKept ==
  screendispflag /\ phase # "host" =>
    nevent_iswork(Flames) \/ Contains(waitevent, Flames)

(* What the above rest on: the time used in the slice is not negative, the  *)
(* slice ends no later than the first event unless an STI has stretched it  *)
(* to one more clock, callbacks wait only inside nevent_execute, and the    *)
(* CPU runs only within a frame.                                            *)
SliceFits ==
  /\ rem <= base
  /\ rem > 0 => \A i \in 1 .. Len(level) : base <= clock[level[i]]

SliceOrShadow == IF phase = "next" THEN rem = 1 /\ rem <= base ELSE SliceFits

PhaseFits ==
  /\ phase # "execute" => waitevent = <<>>
  /\ phase \in {"loop", "cpu", "insn", "next"} => screendispflag

IInv ==
  /\ TypeOK
  /\ LevelOrdered
  /\ SliceOrShadow
  /\ EffectiveOnce
  /\ FrameEventKept
  /\ PhaseFits

(* The clock multiple is changed only so many times.                        *)
Steady == <>[][multiple' = multiple]_multiple

(* Then every frame that is begun ends, and the host gets control back.     *)
FrameEnds == Steady => ((phase # "host") ~> (phase = "host"))

(* The alarms of AlarmClock, seen in the scheduler's state: those of level  *)
(* are armed, those of waitevent ring.                                      *)
AlarmLeft ==
  [id \in Ids |-> IF id \in Running \cup Range(waitevent) THEN clock[id] - Elapsed ELSE 0]

(* The guest's turn is the CPU core's, from pic_irq to nevent_progress.     *)
Turn ==
  IF phase = "next" THEN "owed"
  ELSE IF phase \in {"cpu", "insn"} THEN "guest"
  ELSE "clock"

Alarm == INSTANCE AlarmClock WITH
  Alarms <- Ids, Delays <- Delays \cup {DispClock, VsyncClock},
  armed <- Running, remain <- AlarmLeft, ringing <- waitevent, turn <- Turn

(* The scheduler keeps what AlarmClock promises the devices.                *)
ImplementsAlarmClock == Alarm!Spec
=============================================================================
