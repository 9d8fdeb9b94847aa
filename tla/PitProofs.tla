----------------------------- MODULE PitProofs -----------------------------
(***************************************************************************)
(* Proofs about Pit: latched counts and the interrupts of the timer.       *)
(***************************************************************************)
EXTENDS Pit, TLAPS

LEMMA Numbers ==
  /\ Base \in Nat /\ Base > 1 /\ Few \in Nat /\ Late \in Nat
  /\ Full \in Nat /\ Zero \in Count /\ None \notin Count
<1>1. Base \in Nat /\ Base > 1 /\ Few \in Nat /\ Late \in Nat
  BY PitAssumption
<1>2. Full \in Nat
  BY <1>1, SMT DEF Full
<1>3. Zero \in Count
  BY <1>1 DEF Zero, Count, Byte
<1>4. None \notin Count
  BY DEF None, Count
<1> QED BY <1>1, <1>2, <1>3, <1>4

(* setsystimerevent is given a number of clocks.                            *)
LEMMA PeriodIsNat ==
  ASSUME NEW c \in Count
  PROVE  Period(c) \in Nat
<1>1. c[1] \in Nat /\ c[2] \in Nat /\ Base \in Nat /\ Full \in Nat
  BY Numbers DEF Count, Byte
<1>2. Base * c[2] \in Nat
  BY <1>1, SMT
<1>3. Number(c) \in Nat
  BY <1>1, <1>2 DEF Number
<1> QED BY <1>1, <1>3 DEF Period

(* getcount gives two bytes, also for a time that does not fit in them.     *)
LEMMA GetcountType ==
  ASSUME remain \in Int
  PROVE  getcount \in Count
<1>1. CASE remain > 0
  <2>1. remain % Base \in Byte
    BY Numbers DEF Byte
  <2>2. remain \div Base \in Int
    BY Numbers
  <2>3. (remain \div Base) % Base \in Byte
    BY <2>2, Numbers DEF Byte
  <2> QED BY <1>1, <2>1, <2>3 DEF getcount, Count
<1>2. CASE ~(remain > 0)
  BY <1>2, Numbers DEF getcount
<1> QED BY <1>1, <1>2
-----------------------------------------------------------------------------
(* Types                                                                    *)

PlainType ==
  /\ rl \in {"L", "H", "ALL"}
  /\ mode \in Modes
  /\ flag \in SUBSET Flags
  /\ irq \in BOOLEAN /\ fired \in BOOLEAN
  /\ reading \in {"no", "direct", "first", "second", "done"}

CountType ==
  /\ value \in Count /\ latch \in Count
  /\ wanted \in Count /\ word \in Count
  /\ asked \in Count \cup {None}

TimeType == remain \in Int /\ remain >= -Late

Types == PlainType /\ CountType /\ TimeType

LEMMA WrittenType ==
  ASSUME value \in Count, NEW b \in Byte
  PROVE  Written(b) \in Count
<1>1. 0 \in Byte
  BY Numbers DEF Byte
<1> QED BY <1>1 DEF Written, Count

LEMMA TypesInit == Init => Types
<1> SUFFICES ASSUME Init PROVE Types
  OBVIOUS
<1>1. PlainType
  BY DEF Init, PlainType, Modes, Flags
<1>2. CountType
  BY Numbers DEF Init, CountType
<1>3. TimeType
  BY Numbers DEF Init, TimeType
<1> QED BY <1>1, <1>2, <1>3 DEF Types

LEMMA PlainTypeStep ==
  ASSUME Types, [Next]_vars PROVE PlainType'
<1> USE DEF PlainType, Modes, Flags
<1> PlainType
  BY DEF Types
<1>1. CASE Tick
  BY <1>1 DEF Tick, control, guest
<1>2. CASE systimer
  BY <1>2 DEF systimer, control, guest
<1>3. CASE Acknowledge
  BY <1>3 DEF Acknowledge, control, guest, history
<1>4. ASSUME NEW newrl \in {"L", "H", "ALL"}, NEW newmode \in Modes,
             SetMode(newrl, newmode)
      PROVE  PlainType'
  BY <1>4 DEF SetMode, Forget, Cleared
<1>5. ASSUME NEW status \in BOOLEAN, NEW count \in BOOLEAN,
             latchcmd(status, count), irq' \in BOOLEAN
      PROVE  PlainType'
  BY <1>5 DEF latchcmd, control, guest, history
<1>6. CASE Latch
  BY <1>6, <1>5 DEF Latch
<1>7. ASSUME NEW status \in BOOLEAN, NEW count \in BOOLEAN,
             LatchMany(status, count)
      PROVE  PlainType'
  BY <1>7, <1>5 DEF LatchMany
<1>8. ASSUME NEW b \in Byte, pit_o71(b) PROVE PlainType'
  BY <1>8 DEF pit_o71, Start, Waits, Toggle, Forget, control, guest
<1>9. CASE ReadStatus
  BY <1>9 DEF ReadStatus, control, guest, history
<1>10. CASE ReadCount
  BY <1>10 DEF ReadCount, Toggle, Toggled, Progress, control, history
<1>11. CASE itimer_reset
  BY <1>11 DEF itimer_reset, Forget
<1>12. CASE UNCHANGED vars
  BY <1>12 DEF vars, control, guest, history
<1> QED
  BY <1>1, <1>2, <1>3, <1>4, <1>6, <1>7, <1>8, <1>9, <1>10, <1>11, <1>12
     DEF Next

LEMMA CountTypeStep ==
  ASSUME Types, [Next]_vars PROVE CountType'
<1> USE DEF CountType
<1>1. CountType /\ TimeType
  BY DEF Types
<1>2. getcount \in Count
  BY <1>1, GetcountType DEF TimeType
<1>3. CASE Tick
  BY <1>1, <1>3 DEF Tick, guest
<1>4. CASE systimer
  BY <1>1, <1>4 DEF systimer, guest
<1>5. CASE Acknowledge
  BY <1>1, <1>5 DEF Acknowledge, guest, history
<1>6. ASSUME NEW newrl \in {"L", "H", "ALL"}, NEW newmode \in Modes,
             SetMode(newrl, newmode)
      PROVE  CountType'
  BY <1>1, <1>6, Numbers DEF SetMode, Forget
<1>7. ASSUME NEW status \in BOOLEAN, NEW count \in BOOLEAN,
             latchcmd(status, count)
      PROVE  CountType'
  BY <1>1, <1>2, <1>7, Numbers DEF latchcmd, guest, history
<1>8. CASE Latch
  BY <1>8, <1>7 DEF Latch
<1>9. ASSUME NEW status \in BOOLEAN, NEW count \in BOOLEAN,
             LatchMany(status, count)
      PROVE  CountType'
  BY <1>9, <1>7 DEF LatchMany
<1>10. ASSUME NEW b \in Byte, pit_o71(b) PROVE CountType'
  <2>1. Written(b) \in Count
    BY <1>1, WrittenType
  <2> QED BY <1>1, <1>10, <2>1 DEF pit_o71, Start, Waits, Forget, guest
<1>11. CASE ReadStatus
  BY <1>1, <1>11 DEF ReadStatus, guest, history
<1>12. CASE ReadCount
  <2> DEFINE w == IF Latched THEN latch ELSE getcount
  <2>1. w \in Count
    BY <1>1, <1>2
  <2> HIDE DEF w
  <2>2. w[Half] \in Byte
    BY <2>1 DEF Half, Count
  <2>3. word' = IF HighIsNext THEN <<word[1], w[Half]>> ELSE <<w[Half], word[2]>>
    BY <1>12 DEF ReadCount, w
  <2>4. word' \in Count
    BY <1>1, <2>2, <2>3 DEF Count
  <2> QED BY <1>1, <1>12, <2>4 DEF ReadCount, history
<1>13. CASE itimer_reset
  BY <1>13, Numbers DEF itimer_reset, Forget
<1>14. CASE UNCHANGED vars
  BY <1>1, <1>14 DEF vars, guest, history
<1> QED
  BY <1>3, <1>4, <1>5, <1>6, <1>8, <1>9, <1>10, <1>11, <1>12, <1>13, <1>14
     DEF Next

LEMMA TimeTypeStep ==
  ASSUME Types, [Next]_vars PROVE TimeType'
<1> USE Numbers DEF TimeType
<1>1. CountType /\ TimeType
  BY DEF Types
<1>2. CASE Tick
  BY <1>1, <1>2 DEF Tick
<1>3. CASE systimer
  <2>1. Period(value) \in Nat
    BY <1>1, PeriodIsNat DEF CountType
  <2> DEFINE d == IF mode = "rate" THEN Period(value) ELSE Full
  <2>2. d \in Nat /\ remain' = remain + d
    BY <1>3, <2>1 DEF systimer
  <2> QED BY <1>1, <2>2
<1>4. ASSUME NEW b \in Byte, pit_o71(b) PROVE TimeType'
  <2>1. Period(Written(b)) \in Nat
    BY <1>1, WrittenType, PeriodIsNat DEF CountType
  <2>2. remain' = Period(Written(b)) \/ remain' = remain
    BY <1>4 DEF pit_o71, Start, Waits
  <2> QED BY <1>1, <2>1, <2>2
<1>5. CASE itimer_reset
  BY <1>5 DEF itimer_reset
<1>6. CASE UNCHANGED remain
  BY <1>1, <1>6
<1> QED
  BY <1>2, <1>3, <1>4, <1>5, <1>6
     DEF Next, Acknowledge, SetMode, Latch, LatchMany, latchcmd, ReadStatus,
         ReadCount, vars
-----------------------------------------------------------------------------
(* Latched counts                                                           *)

(* Where the guest is in its reading, by the flags C, L and R               *)
Followed ==
  /\ reading \in {"no", "done"} => "C" \notin flag /\ "L" \notin flag /\ "R" \notin flag
  /\ reading = "direct" =>
       "C" \notin flag /\ "L" \notin flag /\ "R" \in flag /\ rl = "ALL"
  /\ reading = "first" => "C" \in flag /\ "L" \notin flag /\ "R" \notin flag
  /\ reading = "second" =>
       "C" \notin flag /\ "L" \in flag /\ "R" \in flag /\ rl = "ALL"

Bytes ==
  /\ reading \in {"first", "second"} => latch = wanted
  /\ reading = "second" => word[1] = wanted[1]
  /\ ReadsOneCount

LEMMA ReadingInit == Init => Followed /\ Bytes
BY DEF Init, Followed, Bytes, ReadsOneCount

(* Only a mode, a latch and a read move the guest or its flags.             *)
LEMMA ReadingRest ==
  ASSUME Followed, Bytes, UNCHANGED <<control, latch, guest>>,
         \A f \in {"C", "L", "R"} : f \in flag' <=> f \in flag
  PROVE  Followed' /\ Bytes'
BY DEF Followed, Bytes, ReadsOneCount, control, guest

LEMMA ReadingLatch ==
  ASSUME Types, Followed, Bytes, NEW status \in BOOLEAN, NEW count \in BOOLEAN,
         latchcmd(status, count)
  PROVE  Followed' /\ Bytes'
<1>1. UNCHANGED control
  BY DEF latchcmd
<1>2. CASE count
  <2>1. "C" \in flag' /\ "L" \notin flag' /\ ("R" \in flag' <=> "R" \in flag)
    BY <1>2 DEF latchcmd
  <2>2. "R" \notin flag
    BY <1>2 DEF latchcmd, Followed, Types, PlainType
  <2>3. reading' = "first" /\ latch' = wanted'
    BY <1>2 DEF latchcmd
  <2> QED BY <2>1, <2>2, <2>3 DEF Followed, Bytes, ReadsOneCount
<1>3. CASE ~count
  <2>1. UNCHANGED <<control, latch, guest>>
    BY <1>1, <1>3 DEF latchcmd
  <2>2. \A f \in {"C", "L", "R"} : f \in flag' <=> f \in flag
    BY <1>3 DEF latchcmd
  <2> QED BY <2>1, <2>2, ReadingRest
<1> QED BY <1>2, <1>3

LEMMA ReadingRead ==
  ASSUME Types, Followed, Bytes, ReadCount
  PROVE  Followed' /\ Bytes'
<1> DEFINE w == IF Latched THEN latch ELSE getcount
<1>1. PlainType /\ UNCHANGED <<rl, latch, wanted>> /\ reading' = Progress
  BY DEF ReadCount, Types, control
<1>2. "C" \notin flag'
  BY <1>1 DEF ReadCount, Toggle, Toggled
<1>3. "R" \in flag' <=> (IF rl = "ALL" THEN "R" \notin flag ELSE "R" \in flag)
  BY DEF ReadCount, Toggle, Toggled
<1>4. "L" \in flag' <=>
        (IF rl = "ALL" /\ Latched THEN "L" \notin flag ELSE "L" \in flag)
  BY DEF ReadCount, Toggle, Toggled
<1>5. word' = IF HighIsNext THEN <<word[1], w[Half]>> ELSE <<w[Half], word[2]>>
  BY DEF ReadCount
<1>6. Latched <=> "C" \in flag \/ "L" \in flag
  BY DEF Latched
<1> HIDE DEF w
<1>7. Followed'
  BY <1>1, <1>2, <1>3, <1>4, <1>6 DEF PlainType, Followed, Progress
<1>8. CASE reading = "first"
  <2>1. w = wanted
    BY <1>6, <1>8 DEF Followed, Bytes, w
  <2>2. HighIsNext <=> rl = "H"
    BY <1>8 DEF HighIsNext
  <2>3. Half = IF rl = "H" THEN 2 ELSE 1
    BY <1>1, <1>8 DEF Half, Followed, PlainType
  <2>4. reading' = IF rl = "ALL" THEN "second" ELSE "done"
    BY <1>1, <1>8 DEF Progress
  <2>5. CASE rl = "H"
    <3>1. word'[2] = wanted[2]
      BY <1>5, <2>1, <2>2, <2>3, <2>5
    <3> QED BY <1>1, <1>7, <2>4, <2>5, <3>1 DEF Bytes, ReadsOneCount
  <2>6. CASE rl # "H"
    <3>1. word'[1] = wanted[1]
      BY <1>5, <2>1, <2>2, <2>3, <2>6
    <3>2. latch = wanted
      BY <1>8 DEF Bytes
    <3> QED BY <1>1, <1>7, <2>4, <2>6, <3>1, <3>2 DEF Bytes, ReadsOneCount
  <2> QED BY <2>5, <2>6
<1>9. CASE reading = "second"
  <2>1. w = wanted
    BY <1>6, <1>9 DEF Followed, Bytes, w
  <2>2. HighIsNext /\ Half = 2 /\ rl = "ALL"
    BY <1>9 DEF HighIsNext, Half, Followed
  <2>3. reading' = "done"
    BY <1>1, <1>9 DEF Progress
  <2>4. word' = <<word[1], wanted[2]>>
    BY <1>5, <2>1, <2>2
  <2>5. word[1] = wanted[1]
    BY <1>9 DEF Bytes
  <2> QED BY <1>1, <1>7, <2>2, <2>3, <2>4, <2>5 DEF Bytes, ReadsOneCount
<1>10. CASE reading \in {"no", "direct", "done"}
  <2>1. reading' \in {"no", "direct"}
    BY <1>1, <1>10 DEF Progress
  <2> QED BY <1>7, <2>1 DEF Bytes, ReadsOneCount
<1> QED BY <1>1, <1>7, <1>8, <1>9, <1>10 DEF PlainType

LEMMA ReadingStep ==
  ASSUME Types, Followed, Bytes, [Next]_vars
  PROVE  Followed' /\ Bytes'
<1>1. CASE Tick
  BY <1>1, ReadingRest DEF Tick
<1>2. CASE systimer
  <2>1. \A f \in {"C", "L", "R"} : f \in flag' <=> f \in flag
    BY <1>2 DEF systimer
  <2> QED BY <1>2, <2>1, ReadingRest DEF systimer
<1>3. CASE Acknowledge
  BY <1>3, ReadingRest DEF Acknowledge
<1>4. ASSUME NEW newrl \in {"L", "H", "ALL"}, NEW newmode \in Modes,
             SetMode(newrl, newmode)
      PROVE  Followed' /\ Bytes'
  BY <1>4 DEF SetMode, Cleared, Followed, Bytes, ReadsOneCount
<1>5. CASE Latch
  BY <1>5, ReadingLatch DEF Latch
<1>6. ASSUME NEW status \in BOOLEAN, NEW count \in BOOLEAN,
             LatchMany(status, count)
      PROVE  Followed' /\ Bytes'
  BY <1>6, ReadingLatch DEF LatchMany
<1>7. ASSUME NEW b \in Byte, pit_o71(b) PROVE Followed' /\ Bytes'
  <2>1. \A f \in {"C", "L", "R"} : f \in flag' <=> f \in flag
    BY <1>7 DEF pit_o71, Start, Waits, Toggle
  <2> QED BY <1>7, <2>1, ReadingRest DEF pit_o71
<1>8. CASE ReadStatus
  <2>1. \A f \in {"C", "L", "R"} : f \in flag' <=> f \in flag
    BY <1>8 DEF ReadStatus
  <2> QED BY <1>8, <2>1, ReadingRest DEF ReadStatus
<1>9. CASE ReadCount
  BY <1>9, ReadingRead
<1>10. CASE itimer_reset
  BY <1>10 DEF itimer_reset, Followed, Bytes, ReadsOneCount
<1>11. CASE UNCHANGED vars
  BY <1>11, ReadingRest DEF vars
<1> QED
  BY <1>1, <1>2, <1>3, <1>4, <1>5, <1>6, <1>7, <1>8, <1>9, <1>10, <1>11
     DEF Next
-----------------------------------------------------------------------------
(* Interrupts                                                               *)

(* Elapsed and remaining time add up to the period.                         *)
Clocked ==
  /\ elapsed \in Nat
  /\ asked # None =>
       /\ "I" \in flag => elapsed + remain = Period(asked)
       /\ elapsed <= Period(asked) + Late

(* The flag I, the request and the mode tell the same of the running count. *)
Owed ==
  asked # None =>
    /\ value = asked
    /\ irq => fired
    /\ mode = "rate" => "I" \in flag
    /\ mode # "rate" => ("I" \in flag <=> ~fired)

LEMMA TimingInit == Init => Clocked /\ Owed
BY DEF Init, Clocked, Owed

(* While nothing is asked of the timer, nothing is claimed of it.           *)
LEMMA TimingForgotten ==
  ASSUME asked' = None, elapsed' = 0
  PROVE  Clocked' /\ Owed'
BY DEF Clocked, Owed

LEMMA TimingRest ==
  ASSUME Clocked, Owed, UNCHANGED <<mode, value, remain, history>>,
         "I" \in flag' <=> "I" \in flag, irq' => irq
  PROVE  Clocked' /\ Owed'
<1>1. UNCHANGED <<asked, elapsed, fired>>
  BY DEF history
<1>2. Period(asked)' = Period(asked)
  BY <1>1 DEF Period, Number
<1>3. Clocked'
  BY <1>1, <1>2 DEF Clocked
<1>4. Owed'
  BY <1>1 DEF Owed
<1> QED BY <1>3, <1>4

LEMMA TimingTick ==
  ASSUME Types, Clocked, Owed, Tick
  PROVE  Clocked' /\ Owed'
<1>1. UNCHANGED <<mode, flag, value, irq, asked, fired>>
  BY DEF Tick, control
<1>2. Owed'
  BY <1>1 DEF Owed
<1>3. remain > -Late /\ remain \in Int /\ remain' = remain - 1 /\ Late \in Nat
  BY Numbers DEF Tick, Types, TimeType
<1>4. CASE asked = None \/ "I" \notin flag
  <2>1. elapsed' = elapsed
    BY <1>4 DEF Tick
  <2> QED BY <1>1, <1>2, <1>4, <2>1 DEF Clocked, Period, Number
<1>5. CASE asked # None /\ "I" \in flag
  <2> DEFINE p == Period(asked)
  <2>1. p \in Nat
    BY <1>5, PeriodIsNat DEF Types, CountType
  <2>2. p' = p
    BY <1>1 DEF Period, Number
  <2>3. elapsed' = elapsed + 1 /\ elapsed \in Nat /\ elapsed + remain = p
    BY <1>5 DEF Tick, Clocked
  <2> HIDE DEF p
  <2>4. elapsed' \in Nat /\ elapsed' + remain' = p' /\ elapsed' <= p' + Late
    BY <1>3, <2>1, <2>2, <2>3
  <2> QED BY <1>2, <2>4 DEF Clocked, p
<1> QED BY <1>4, <1>5

LEMMA TimingEvent ==
  ASSUME Types, Clocked, Owed, systimer
  PROVE  Clocked' /\ Owed'
<1>1. UNCHANGED <<mode, value, asked>>
  BY DEF systimer, control
<1>2. CASE asked = None
  <2>1. UNCHANGED <<elapsed, fired>>
    BY <1>2 DEF systimer
  <2> QED BY <1>1, <1>2, <2>1 DEF Clocked, Owed
<1>3. CASE asked # None /\ "I" \notin flag
  <2>1. mode # "rate" /\ fired /\ value = asked
    BY <1>3 DEF Owed, Types, PlainType
  <2>2. UNCHANGED <<elapsed, fired>> /\ "I" \notin flag'
    BY <1>3, <2>1 DEF systimer
  <2>3. Owed'
    BY <1>1, <2>1, <2>2 DEF Owed
  <2>4. Clocked'
    BY <1>1, <1>3, <2>2 DEF Clocked, Period, Number
  <2> QED BY <2>3, <2>4
<1>4. CASE asked # None /\ "I" \in flag
  <2> DEFINE p == Period(asked)
  <2>1. p \in Nat
    BY <1>4, PeriodIsNat DEF Types, CountType
  <2>2. p' = p
    BY <1>1 DEF Period, Number
  <2>3. value = asked /\ fired' = TRUE /\ elapsed' = elapsed - p
    BY <1>4 DEF Owed, systimer
  <2>4. elapsed \in Nat /\ elapsed + remain = p
    BY <1>4 DEF Clocked
  <2>5. remain \in Int /\ remain <= 0 /\ remain >= -Late /\ Late \in Nat
    BY Numbers DEF systimer, Types, TimeType
  <2>6. "I" \in flag' <=> mode = "rate"
    BY DEF systimer
  <2>7. mode = "rate" => remain' = remain + p
    BY <2>3 DEF systimer
  <2>8. Owed'
    BY <1>1, <2>3, <2>6 DEF Owed
  <2> HIDE DEF p
  <2>9. elapsed' \in Nat /\ elapsed' <= p' + Late
    BY <2>1, <2>2, <2>3, <2>4, <2>5
  <2>10. mode = "rate" => elapsed' + remain' = p'
    BY <2>1, <2>2, <2>3, <2>4, <2>5, <2>7
  <2>11. Clocked'
    BY <1>1, <2>6, <2>9, <2>10 DEF Clocked, p
  <2> QED BY <2>8, <2>11
<1> QED BY <1>2, <1>3, <1>4

LEMMA TimingWrite ==
  ASSUME Types, Clocked, Owed, NEW b \in Byte, pit_o71(b)
  PROVE  Clocked' /\ Owed'
<1>1. CASE ~Starts
  BY <1>1, TimingForgotten DEF pit_o71, Waits, Forget
<1>2. CASE Starts
  <2>1. /\ value' = Written(b) /\ asked' = Written(b)
        /\ elapsed' = 0 /\ fired' = FALSE /\ irq' = FALSE
        /\ "I" \in flag' /\ remain' = Period(Written(b))
    BY <1>2 DEF pit_o71, Start
  <2>2. Owed'
    BY <2>1 DEF Owed
  <2>3. Written(b) \in Count
    BY WrittenType DEF Types, CountType
  <2>4. remain' = Period(asked)'
    BY <2>1 DEF Period, Number
  <2>5. Period(asked)' \in Nat /\ Late \in Nat
    BY <2>1, <2>3, <2>4, PeriodIsNat, Numbers
  <2> DEFINE p == Period(asked)'
  <2> HIDE DEF p
  <2>6. elapsed' \in Nat /\ elapsed' + remain' = p /\ elapsed' <= p + Late
    BY <2>1, <2>4, <2>5 DEF p
  <2>7. Clocked'
    BY <2>6 DEF Clocked, p
  <2> QED BY <2>2, <2>7
<1> QED BY <1>1, <1>2

LEMMA TimingStep ==
  ASSUME Types, Clocked, Owed, [Next]_vars
  PROVE  Clocked' /\ Owed'
<1>1. CASE Tick
  BY <1>1, TimingTick
<1>2. CASE systimer
  BY <1>2, TimingEvent
<1>3. CASE Acknowledge
  BY <1>3, TimingRest DEF Acknowledge, control
<1>4. ASSUME NEW newrl \in {"L", "H", "ALL"}, NEW newmode \in Modes,
             SetMode(newrl, newmode)
      PROVE  Clocked' /\ Owed'
  BY <1>4, TimingForgotten DEF SetMode, Forget
<1>5. ASSUME NEW status \in BOOLEAN, NEW count \in BOOLEAN,
             latchcmd(status, count), irq' => irq
      PROVE  Clocked' /\ Owed'
  <2>1. "I" \in flag' <=> "I" \in flag
    BY <1>5 DEF latchcmd
  <2> QED BY <1>5, <2>1, TimingRest DEF latchcmd, control
<1>6. CASE Latch
  BY <1>6, <1>5 DEF Latch
<1>7. ASSUME NEW status \in BOOLEAN, NEW count \in BOOLEAN,
             LatchMany(status, count)
      PROVE  Clocked' /\ Owed'
  BY <1>7, <1>5 DEF LatchMany
<1>8. ASSUME NEW b \in Byte, pit_o71(b) PROVE Clocked' /\ Owed'
  BY <1>8, TimingWrite
<1>9. CASE ReadStatus
  <2>1. "I" \in flag' <=> "I" \in flag
    BY <1>9 DEF ReadStatus
  <2> QED BY <1>9, <2>1, TimingRest DEF ReadStatus, control
<1>10. CASE ReadCount
  <2>1. "I" \in flag' <=> "I" \in flag
    BY <1>10 DEF ReadCount, Toggle, Toggled
  <2> QED BY <1>10, <2>1, TimingRest DEF ReadCount, control
<1>11. CASE itimer_reset
  BY <1>11, TimingForgotten DEF itimer_reset, Forget
<1>12. CASE UNCHANGED vars
  BY <1>12, TimingRest DEF vars, control
<1> QED
  BY <1>1, <1>2, <1>3, <1>4, <1>6, <1>7, <1>8, <1>9, <1>10, <1>11, <1>12
     DEF Next
-----------------------------------------------------------------------------
(* The inductive invariant                                                  *)

IInv == Types /\ Followed /\ Bytes /\ Clocked /\ Owed

LEMMA Inductive == Spec => []IInv
<1>1. Init => IInv
  BY TypesInit, ReadingInit, TimingInit DEF IInv
<1>2. IInv /\ [Next]_vars => IInv'
  <2> SUFFICES ASSUME IInv, [Next]_vars PROVE IInv'
    OBVIOUS
  <2>1. Types /\ Followed /\ Bytes /\ Clocked /\ Owed
    BY DEF IInv
  <2>2. Types'
    BY <2>1, PlainTypeStep, CountTypeStep, TimeTypeStep DEF Types
  <2>3. Followed' /\ Bytes'
    BY <2>1, ReadingStep
  <2>4. Clocked' /\ Owed'
    BY <2>1, TimingStep
  <2> QED BY <2>2, <2>3, <2>4 DEF IInv
<1> QED BY <1>1, <1>2, PTL DEF Spec

(* Every variable of the timer keeps its range.                             *)
THEOREM TypeCorrect == Spec => []TypeOK
<1>1. IInv => TypeOK
  BY DEF IInv, Types, PlainType, CountType, TimeType, Clocked, TypeOK
<1> QED BY <1>1, Inductive, PTL

(* The bytes that the guest reads after a latch (pit_getstat) are those of  *)
(* the count that was latched (latchcmd).                                   *)
THEOREM LatchKept == Spec => []ReadsOneCount
<1>1. IInv => ReadsOneCount
  BY DEF IInv, Bytes
<1> QED BY <1>1, Inductive, PTL

(* A count that was written (pit_o71) interrupts at its end (systimer).     *)
THEOREM OnTime == Spec => []InterruptsOnTime
<1>1. IInv => InterruptsOnTime
  <2> SUFFICES ASSUME IInv, asked # None PROVE InterruptsOnTime
    BY DEF InterruptsOnTime
  <2>1. Clocked /\ Owed
    BY DEF IInv
  <2>2. irq => fired
    BY <2>1 DEF Owed
  <2>3. elapsed >= 0 /\ elapsed <= Period(asked) + Late
    BY <2>1 DEF Clocked
  <2>4. IF mode = "rate" THEN "I" \in flag ELSE "I" \in flag <=> ~fired
    BY <2>1 DEF Owed
  <2> QED BY <2>2, <2>3, <2>4 DEF InterruptsOnTime
<1> QED BY <1>1, Inductive, PTL
=============================================================================
