-------------------------------- MODULE Pit --------------------------------
(***************************************************************************)
(* Counter 0 of the interval timer (io/pit.c, as the IA-32 build has it):  *)
(* the system timer. The guest writes modes and counts, latches the count  *)
(* and reads it byte by byte, while the event NEVENT_ITIMER runs.          *)
(*                                                                         *)
(* Time passes in clocks of the counter (pccore.multiple is 1); a count is *)
(* the pair of its low and its high byte.                                  *)
(*                                                                         *)
(* Not modelled: the status byte itself, the other counters, a change of   *)
(* pccore.multiple while the event runs.                                   *)
(***************************************************************************)
EXTENDS Integers

CONSTANTS
  Base,   \* values of a byte (256)
  Few,    \* counts that setsystimerevent does not take as they are (8)
  Late    \* clocks that the last instruction of a slice may overshoot

ASSUME PitAssumption ==
  /\ Base \in Nat /\ Base > 1
  /\ Few \in Nat
  /\ Late \in Nat

VARIABLES
  rl,        \* PIT_CTRL_RL of ctrl: the bytes of a count that are accessed
  mode,      \* PIT_CTRL_MODE of ctrl, by what the code asks of it
  flag,      \* the flags R W L S C I
  value,     \* the count
  latch,     \* the latched count
  remain,    \* clocks until NEVENT_ITIMER is due
  irq,       \* IRQ 0 is requested
  reading,   \* the guest: where it is in the reading of a count
  wanted,    \* history: the count when the guest latched it
  word,      \* history: the bytes that the guest has read
  asked,     \* history: the count that the guest has written, while it runs
  elapsed,   \* history: clocks since then or since the last time it was due
  fired      \* history: the count has interrupted

control == <<rl, mode>>
guest == <<reading, wanted, word>>
history == <<asked, elapsed, fired>>
vars == <<control, flag, value, latch, remain, irq, guest, history>>

Byte == 0 .. Base - 1
Count == Byte \X Byte
Zero == <<0, 0>>
None == <<>>

(* 2 and 3 are "rate", 1 and 5 "triggered", the others "once".              *)
Modes == {"rate", "triggered", "once"}
Flags == {"R", "W", "L", "S", "C", "I"}

TypeOK ==
  /\ rl \in {"L", "H", "ALL"}
  /\ mode \in Modes
  /\ flag \in SUBSET Flags
  /\ value \in Count /\ latch \in Count
  /\ remain \in Int /\ remain >= -Late
  /\ irq \in BOOLEAN /\ fired \in BOOLEAN
  /\ reading \in {"no", "direct", "first", "second", "done"}
  /\ wanted \in Count /\ word \in Count
  /\ asked \in Count \cup {None}
  /\ elapsed \in Nat

Full == Base * Base
Number(c) == c[1] + Base * c[2]

(* setsystimerevent: few clocks are as good as none.                        *)
Period(c) == IF Number(c) > Few THEN Number(c) ELSE Full

(* What is left of the time, as a count.                                    *)
getcount ==
  IF remain > 0 THEN <<remain % Base, (remain \div Base) % Base>> ELSE Zero

Forget == asked' = None /\ elapsed' = 0 /\ fired' = FALSE

Init ==
  /\ rl = "L"
  /\ mode = "rate"
  /\ flag = {"I"}
  /\ value = Zero /\ latch = Zero
  /\ remain = Full
  /\ irq = FALSE
  /\ reading = "no" /\ wanted = Zero /\ word = Zero
  /\ asked = None /\ elapsed = 0 /\ fired = FALSE
-----------------------------------------------------------------------------
(* Time and the callback of the event                                       *)

Tick ==
  /\ remain > -Late
  /\ remain' = remain - 1
  /\ elapsed' = IF asked # None /\ "I" \in flag THEN elapsed + 1 ELSE elapsed
  /\ UNCHANGED <<control, flag, value, latch, irq, guest, asked, fired>>

(* systimer: it sets its event again in every mode.                         *)
systimer ==
  /\ remain <= 0
  /\ irq' = (irq \/ "I" \in flag)
  /\ flag' = IF mode = "rate" THEN flag \cup {"I"} ELSE flag \ {"I"}
  /\ remain' = remain + (IF mode = "rate" THEN Period(value) ELSE Full)
  /\ IF asked # None /\ "I" \in flag
     THEN elapsed' = elapsed - Period(asked) /\ fired' = TRUE
     ELSE UNCHANGED <<elapsed, fired>>
  /\ UNCHANGED <<control, value, latch, guest, asked>>

(* The guest takes the interrupt, or picmask drops it.                      *)
Acknowledge ==
  /\ irq
  /\ irq' = FALSE
  /\ UNCHANGED <<control, flag, value, latch, remain, guest, history>>
-----------------------------------------------------------------------------
(* The ports                                                                *)

(* mutant: where a read has come to survives a new mode *)
ForgetLatch(f) == f \ {"W", "L", "S", "C"}

(* pit_setflag for a new mode                                               *)
Cleared(f) == f \ {"R", "W", "L", "S", "C"}

(* pit_o77: the old event goes on.                                          *)
SetMode(newrl, newmode) ==
  /\ rl' = newrl /\ mode' = newmode
  /\ flag' = Cleared(flag) \cup {"I"}
  /\ irq' = FALSE
  /\ reading' = "no" /\ wanted' = Zero /\ word' = Zero
  /\ Forget
  /\ UNCHANGED <<value, latch, remain>>

(* latchcmd. The guest does not latch a count between the bytes of another. *)
latchcmd(status, count) ==
  /\ count => reading \notin {"second", "direct"}
  /\ flag' = (IF count THEN (flag \ {"L"}) \cup {"C"} ELSE flag)
               \cup (IF status THEN {"S"} ELSE {})
  /\ latch' = IF count THEN getcount ELSE latch
  /\ IF count
     THEN reading' = "first" /\ wanted' = getcount /\ word' = Zero
     ELSE UNCHANGED guest
  /\ UNCHANGED <<control, value, remain, history>>

(* pit_o77 with no RL bits: a request of the timer is dropped, too.         *)
Latch ==
  /\ latchcmd(FALSE, TRUE)
  /\ irq' = FALSE

(* The multiple latch command                                               *)
LatchMany(status, count) ==
  /\ latchcmd(status, count)
  /\ UNCHANGED irq

(* pit_setcount: the first of two bytes is there at once.                   *)
Written(b) ==
  IF rl = "L" THEN <<b, 0>>
  ELSE IF rl = "H" THEN <<0, b>>
  ELSE IF "W" \in flag THEN <<value[1], b>> ELSE <<b, value[2]>>

Starts ==
  /\ rl = "ALL" => "W" \in flag
  /\ ~(mode = "triggered" /\ "I" \in flag)

(* mutant: the request of the old count stays *)
StartKeepsRequest(b) ==
  /\ flag' = (flag \ {"W"}) \cup {"I"}
  /\ remain' = Period(Written(b))
  /\ asked' = Written(b) /\ elapsed' = 0 /\ fired' = FALSE
  /\ UNCHANGED irq

Start(b) ==
  /\ irq' = FALSE
  /\ flag' = (flag \ {"W"}) \cup {"I"}
  /\ remain' = Period(Written(b))
  /\ asked' = Written(b) /\ elapsed' = 0 /\ fired' = FALSE

Toggle(S, T) == (S \ T) \cup (T \ S)

Waits ==
  /\ flag' = IF rl = "ALL" THEN Toggle(flag, {"W"}) ELSE flag
  /\ Forget
  /\ UNCHANGED <<remain, irq>>

pit_o71(b) ==
  /\ value' = Written(b)
  /\ IF Starts THEN Start(b) ELSE Waits
  /\ UNCHANGED <<control, latch, guest>>
-----------------------------------------------------------------------------
(* pit_i71, which calls pit_getstat                                         *)

ReadStatus ==
  /\ "S" \in flag
  /\ flag' = flag \ {"S"}
  /\ UNCHANGED <<control, value, latch, remain, irq, guest, history>>

Latched == flag \cap {"C", "L"} # {}
Half == IF rl = "L" \/ (rl = "ALL" /\ "R" \notin flag) THEN 1 ELSE 2

Toggled ==
  IF rl # "ALL" THEN {} ELSE IF Latched THEN {"R", "L"} ELSE {"R"}

(* The guest reads both bytes, of a latched count or as they come, and      *)
(* takes the first for the low one.                                         *)
HighIsNext == rl = "H" \/ reading \in {"second", "direct"}

Progress ==
  CASE reading = "first"          -> IF rl = "ALL" THEN "second" ELSE "done"
    [] reading = "second"         -> "done"
    [] reading = "direct"         -> "no"
    [] reading \in {"no", "done"} -> IF rl = "ALL" THEN "direct" ELSE "no"

ReadCount ==
  /\ "S" \notin flag
  /\ LET w == IF Latched THEN latch ELSE getcount
     IN  word' = IF HighIsNext THEN <<word[1], w[Half]>> ELSE <<w[Half], word[2]>>
  /\ flag' = Toggle(flag \ {"C"}, Toggled)
  /\ reading' = Progress
  /\ UNCHANGED <<control, value, latch, remain, irq, wanted, history>>

itimer_reset ==
  /\ rl' = "L" /\ mode' = "rate" /\ flag' = {"I"}
  /\ value' = Zero /\ latch' = Zero
  /\ remain' = Full
  /\ irq' = FALSE
  /\ reading' = "no" /\ wanted' = Zero /\ word' = Zero
  /\ Forget
-----------------------------------------------------------------------------
Next ==
  \/ Tick \/ systimer \/ Acknowledge
  \/ \E newrl \in {"L", "H", "ALL"}, newmode \in Modes : SetMode(newrl, newmode)
  \/ Latch
  \/ \E status \in BOOLEAN, count \in BOOLEAN : LatchMany(status, count)
  \/ \E b \in Byte : pit_o71(b)
  \/ ReadStatus \/ ReadCount
  \/ itimer_reset

Spec == Init /\ [][Next]_vars
-----------------------------------------------------------------------------
(* Properties                                                               *)

(* The bytes that the guest reads after a latch are those of the count at   *)
(* the latch, the low one first, whatever it did before with other modes,   *)
(* whatever it writes and whatever status it latches between the reads,     *)
(* and however often the counter has started anew.                          *)
ReadsOneCount ==
  reading = "done" =>
    /\ rl \in {"L", "ALL"} => word[1] = wanted[1]
    /\ rl \in {"H", "ALL"} => word[2] = wanted[2]

(* A request is of the count that the guest has written and of none before. *)
(* The count interrupts at its end, neither earlier nor more than an        *)
(* instruction later: once, or in a rate mode each time, although the       *)
(* event goes on through new modes and half-written counts.                 *)
InterruptsOnTime ==
  asked # None =>
    /\ irq => fired
    /\ elapsed >= 0 /\ elapsed <= Period(asked) + Late
    /\ IF mode = "rate" THEN "I" \in flag ELSE "I" \in flag <=> ~fired
=============================================================================
