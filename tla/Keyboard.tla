------------------------------ MODULE Keyboard ------------------------------
(***************************************************************************)
(* The keyboard: keystat.c, which turns the keys of the host into those of *)
(* the PC-9801 and answers the guest's commands, and the first half of     *)
(* io/serial.c, the interface the guest reads the bytes from.              *)
(*                                                                         *)
(* The host's events, the guest's I/O and the callback of the event        *)
(* NEVENT_KEYBOARD come one after the other, as they do in the ports that  *)
(* run the emulator on the thread of their event loop.                     *)
(*                                                                         *)
(* Not modelled: the tables that map a host key to several keys, locks that*)
(* do not lock mechanically and shifts that do (XSHIFT), the user keys, the *)
(* joystick keys, the keyboard types of SUPPORT_PC9801_119, the mode       *)
(* register, and the clocks of the key repeat (it may come at any time).   *)
(***************************************************************************)
EXTENDS Naturals, SequencesExt

CONSTANTS
  Hosts,        \* keys of the host
  KeyOf,        \* nkeytbl: the guest's key of a host key
  Repeating,    \* guest keys that repeat (no KBEX_NONREP)
  Shifts,       \* guest keys 71h .. 74h, sent when they change
  Locks,        \* those of them that lock (CAPS, KANA)
  Codes,        \* the guest's keys in the order of their codes
  KB_BUF,       \* bytes of keys that can wait
  KB_CTR,       \* bytes of an answer that can wait
  RepeatMax,    \* KEYREPEAT_BUF_MAX
  NC, LED,      \* NKEYREF_NC, NKEYREF_uPD8255
  Settings,     \* what the key repeat may be set to in a menu
  Commands,     \* the guest's commands, of {"9c", "9d", "9f", "other"}
  Controls      \* what the guest writes to the command register

Keys == Range(Codes)

ASSUME KeysAssumption ==
  /\ Hosts # {} /\ KeyOf \in [Hosts -> Keys] /\ Codes \in Seq(Keys)
  /\ Repeating \subseteq Keys /\ Locks \subseteq Shifts /\ Shifts \subseteq Keys
  /\ Repeating \cap Shifts = {}
  /\ NC \notin Hosts \cup {LED} /\ LED \notin Hosts
  /\ \A i, j \in DOMAIN Codes : Codes[i] = Codes[j] => i = j
  /\ Settings \subseteq BOOLEAN
  /\ Commands \subseteq {"9c", "9d", "9f", "other"}
  /\ Controls \subseteq [tx : BOOLEAN, reset : BOOLEAN]
ASSUME SizesAssumption ==
  /\ KB_BUF \in Nat /\ KB_BUF >= Len(Codes)
  /\ KB_CTR \in Nat /\ KB_CTR >= 3
  /\ RepeatMax \in Nat \ {0}

VARIABLES
  ref,        \* keystat.ref[]: the host key that holds a key, or NC
  lockref,    \* keyctrl.capsref and kanaref
  keyrep,     \* keyctrl.keyrep is not 70h: keys held are sent again
  param,      \* keyctrl.reqparam: the command whose parameter comes next
  repeat,     \* np2cfg.keyrepeat_enable
  rep,        \* keyrepeat_buf[0 .. keyrepeat_index-1]
  buf, bufpos, buffers,   \* keybrd: the ring of bytes of keys
  ctr,        \* keybrd: the answer bytes that wait (a ring of KB_CTR)
  data,       \* keybrd.data
  full,       \* keybrd.status & 2
  cmd,        \* keybrd.cmd: the bits 01h and 08h
  running,    \* NEVENT_KEYBOARD is in the scheduler's list
  irq,        \* the keyboard's interrupt is requested
  pressed,    \* history: the keys the guest takes to be down
  lost,       \* history: a byte found the ring full since the last reset
  missing,    \* history: so did the repeat buffer, or keys were held at a reset
  reply       \* history: the last answer

keystat == <<ref, lockref, keyrep, param, repeat, rep>>
ring == <<buf, bufpos, buffers>>
keybrd == <<ring, ctr, data, full, cmd>>
history == <<pressed, lost, missing, reply>>
vars == <<keystat, keybrd, running, irq, history>>

(* Bytes, as tuples: the make and break codes of keys, and answers.         *)
Make(k) == <<"make", k>>
Break(k) == <<"break", k>>
Byte == {"make", "break"} \X Keys
Ack == <<"fa">>
Nak == <<"fc">>
Answers == {Ack, Nak, <<"id1">>, <<"id2">>, <<"led">>}
None == <<>>

TypeOK ==
  /\ ref \in [Keys -> Hosts \cup {LED, NC}]
  /\ lockref \in [Locks -> Hosts \cup {LED, NC}]
  /\ keyrep \in BOOLEAN /\ repeat \in BOOLEAN
  /\ param \in {"none", "9c", "9d"}
  /\ rep \in Seq(Repeating) /\ Len(rep) <= RepeatMax
  /\ buf \in [0 .. KB_BUF - 1 -> Byte \cup {None}]
  /\ bufpos \in 0 .. KB_BUF - 1
  /\ buffers \in 0 .. KB_BUF
  /\ ctr \in Seq(Answers) /\ Len(ctr) <= KB_CTR
  /\ data \in Byte \cup Answers \cup {None}
  /\ cmd \in [tx : BOOLEAN, reset : BOOLEAN]
  /\ full \in BOOLEAN /\ running \in BOOLEAN /\ irq \in BOOLEAN
  /\ pressed \subseteq Keys
  /\ lost \in BOOLEAN /\ missing \in BOOLEAN
  /\ reply \in Seq(Answers)

(* The elements of s in S, in their order. (A recursive function: the       *)
(* prover has no definition of SelectSeq or of the folds.)                  *)
Filter(s, S) ==
  LET F[n \in 0 .. Len(s)] ==
        IF n = 0 THEN <<>>
        ELSE IF s[n] \in S THEN Append(F[n - 1], s[n]) ELSE F[n - 1]
  IN  F[Len(s)]

Init ==
  /\ ref = [k \in Keys |-> NC]
  /\ lockref = [k \in Locks |-> NC]
  /\ keyrep = TRUE
  /\ param = "none"
  /\ repeat \in BOOLEAN
  /\ rep = <<>>
  /\ buf = [i \in 0 .. KB_BUF - 1 |-> None]
  /\ bufpos = 0 /\ buffers = 0
  /\ ctr = <<>>
  /\ data = None
  /\ full = FALSE
  /\ cmd = [tx |-> FALSE, reset |-> FALSE]
  /\ running = FALSE
  /\ irq = FALSE
  /\ pressed = {}
  /\ lost = FALSE /\ missing = FALSE
  /\ reply = <<>>
-----------------------------------------------------------------------------
(* The interface.                                                          *)

Held(r) == {k \in Keys : r[k] # NC}

(* mutant: the count is taken for the place *)
PlaceByCount(i) == i

(* The place of the i-th waiting byte, from 0. A place that is read or      *)
(* dropped is None, the byte that is still there is never read again.       *)
Place(i) == (bufpos + i) % KB_BUF

(* mutant: a byte too many is stored *)
RoomPlusOne == KB_BUF - buffers + 1

Room == KB_BUF - buffers

(* keyboard_send for each byte of bs: what finds no room is dropped.        *)
keyboard_send(bs) ==
  LET n == IF Len(bs) < Room THEN Len(bs) ELSE Room IN
  /\ buf' = [i \in 0 .. KB_BUF - 1 |->
               IF \E j \in 1 .. n : i = Place(buffers + j - 1)
               THEN bs[CHOOSE j \in 1 .. n : i = Place(buffers + j - 1)]
               ELSE buf[i]]
  /\ buffers' = buffers + n
  /\ running' = (running \/ n # 0)
  /\ lost' = (lost \/ n < Len(bs))
  /\ UNCHANGED bufpos

(* mutant: the answer before is kept *)
AppendCtrl(c, d) == IF Len(c) < KB_CTR THEN Append(c, d) ELSE c

(* keyboard_ctrl: a positive or negative acknowledge drops what is left of  *)
(* the answer before.                                                       *)
keyboard_ctrl(c, d) ==
  LET rest == IF d \in {Ack, Nak} THEN <<>> ELSE c
  IN  IF Len(rest) < KB_CTR THEN Append(rest, d) ELSE rest

(* keyboard_ctrl for each byte of an answer.                                *)
AnswerWith(bs) ==
  /\ LET After[n \in 0 .. Len(bs)] ==
           IF n = 0 THEN ctr ELSE keyboard_ctrl(After[n - 1], bs[n])
     IN  ctr' = After[Len(bs)]
  /\ running' = TRUE
  /\ reply' = bs

(* mutant: the event is not set again *)
SetOnce == FALSE

(* mutant: an answer raises no interrupt *)
RequestForKeys == ctr = <<>>

(* pic_setirq(1), whether or not there is a new byte.                       *)
Requested == TRUE

(* keyboard_callback sets the event again relative to its own time.         *)
SetAgain == TRUE

keyboard_callback ==
  /\ running
  /\ IF ctr # <<>> \/ buffers # 0
     THEN /\ IF full
             THEN UNCHANGED <<ring, ctr, data, full>>
             ELSE /\ full' = TRUE
                  /\ IF ctr # <<>>
                     THEN /\ data' = Head(ctr) /\ ctr' = Tail(ctr)
                          /\ UNCHANGED ring
                     ELSE /\ data' = buf[bufpos]
                          /\ buffers' = buffers - 1
                          /\ bufpos' = Place(1)
                          /\ buf' = [buf EXCEPT ![bufpos] = None]
                          /\ UNCHANGED ctr
          /\ irq' = (irq \/ Requested)
          /\ running' = SetAgain
     ELSE running' = FALSE /\ UNCHANGED <<ring, ctr, data, full, irq>>
  /\ UNCHANGED <<keystat, cmd, history>>

(* The guest, which took the keys p to be down, has read the bytes bs: what *)
(* was sent last of a key counts.                                           *)
Taken(p, bs) ==
  {k \in Keys :
     \/ \E i \in 1 .. Len(bs) :
          bs[i] = Make(k) /\ \A j \in 1 .. Len(bs) : j > i => bs[j] # Break(k)
     \/ k \in p /\ \A i \in 1 .. Len(bs) : bs[i] # Break(k)}

(* The guest reads the data register.                                       *)
keyboard_i41 ==
  /\ full' = FALSE
  /\ irq' = FALSE
  /\ pressed' = IF full THEN Taken(pressed, <<data>>) ELSE pressed
  /\ UNCHANGED <<keystat, ring, ctr, data, cmd, running, lost, missing, reply>>

(* mutant: the keys held are not sent again *)
ResendNothing == <<>>

(* keystat_resendstat: a make code for every key that is held.              *)
Resent == Filter(Codes, Held(ref'))

(* keyboard_resetsignal.                                                    *)
keyboard_resetsignal ==
  /\ ctr' = <<>> /\ full' = FALSE
  /\ param' = "none"
  /\ ref' = [k \in Keys |-> IF k \in Locks THEN lockref[k] ELSE ref[k]]
  /\ rep' = <<>>
  /\ buffers' = Len(Resent)
  /\ buf' = [i \in 0 .. KB_BUF - 1 |->
               IF \E j \in 1 .. Len(Resent) : i = Place(j - 1)
               THEN Make(Resent[CHOOSE j \in 1 .. Len(Resent) : i = Place(j - 1)])
               ELSE None]
  /\ running' = (Resent # <<>>)
  /\ pressed' = {} /\ lost' = FALSE /\ missing' = FALSE
  /\ UNCHANGED <<lockref, keyrep, repeat, bufpos, data, irq, reply>>

(* The guest writes the command register; the reset is its falling bit 3.   *)
keyboard_o43(dat) ==
  /\ cmd' = dat
  /\ IF ~dat.reset /\ cmd.reset
     THEN keyboard_resetsignal
     ELSE UNCHANGED <<keystat, ring, ctr, data, full, running, irq, history>>

(* pcstat.hardwarereset: keyboard_reset clears the interface, keyboard_bind *)
(* restores the locks; the guest starts with no keys down.                  *)
pccore_reset ==
  /\ buf' = [i \in 0 .. KB_BUF - 1 |-> None]
  /\ bufpos' = 0 /\ buffers' = 0
  /\ ctr' = <<>> /\ data' = None /\ full' = FALSE
  /\ cmd' = [tx |-> FALSE, reset |-> FALSE]
  /\ running' = FALSE /\ irq' = FALSE
  /\ param' = "none"
  /\ ref' = [k \in Keys |-> IF k \in Locks THEN lockref[k] ELSE ref[k]]
  /\ pressed' = {} /\ lost' = FALSE
  /\ missing' = (Held(ref') # {})
  /\ UNCHANGED <<lockref, keyrep, repeat, rep, reply>>
-----------------------------------------------------------------------------
(* keystat.c                                                               *)

Tracked(k) == repeat /\ k \in Repeating

(* keystat_send drops a make code that the repeat buffer has no place for.  *)
Takes(r, k) == ~Tracked(k) \/ (Len(r) < RepeatMax /\ ~Contains(r, k))

(* A make code is sent through KEYBOARD_SEND, after the bytes before.       *)
SendMake(before, r, k) ==
  /\ keyboard_send(before \o IF Takes(r, k) THEN <<Make(k)>> ELSE <<>>)
  /\ rep' = IF Tracked(k) /\ Takes(r, k) THEN Append(r, k) ELSE r
  /\ missing' = (missing \/ ~Takes(r, k))

Released(r, k) == IF Tracked(k) THEN Filter(r, Keys \ {k}) ELSE r

SendBreak(k) ==
  /\ keyboard_send(<<Break(k)>>)
  /\ rep' = Released(rep, k)
  /\ UNCHANGED missing

SendNothing == UNCHANGED <<ring, running, lost, rep, missing>>

(* mutant: the memory of the locks is not brought up to date *)
LedKept == UNCHANGED lockref

(* The locks that a reset restores.                                         *)
reloadled == lockref' = [k \in Locks |-> ref'[k]]

(* A key that is held already is sent as released and pressed again.        *)
keystat_down(h) ==
  LET k == KeyOf[h]
      held == ref[k] # NC
      again == held /\ keyrep /\ k \in Repeating
  IN
  /\ \/ /\ k \notin Shifts
        /\ ref' = [ref EXCEPT ![k] = h]
        /\ CASE again -> SendMake(<<Break(k)>>, Released(rep, k), k)
             [] ~held -> SendMake(<<>>, rep, k)
             [] OTHER -> SendNothing
     \/ /\ k \in Shifts
        /\ CASE ~held -> /\ ref' = [ref EXCEPT ![k] = h]
                         /\ SendMake(<<>>, rep, k)
             [] held /\ k \in Locks -> /\ ref' = [ref EXCEPT ![k] = NC]
                                       /\ SendBreak(k)
             [] OTHER -> UNCHANGED ref /\ SendNothing
  /\ reloadled
  /\ UNCHANGED <<keyrep, param, repeat, ctr, data, full, cmd, irq, pressed, reply>>

(* mutant: the test of the owner is inverted *)
OthersRelease(k, h) == ref[k] # h

(* Only the host key that pressed it last releases a key; a shift any does. *)
Releases(k, h) == IF k \in Shifts THEN ref[k] # NC /\ k \notin Locks ELSE ref[k] = h

keystat_up(h) ==
  LET k == KeyOf[h] IN
  /\ IF Releases(k, h)
     THEN ref' = [ref EXCEPT ![k] = NC] /\ SendBreak(k)
     ELSE UNCHANGED ref /\ SendNothing
  /\ reloadled
  /\ UNCHANGED <<keyrep, param, repeat, ctr, data, full, cmd, irq, pressed, reply>>

(* The window loses the focus: all keys are released but the locks.         *)
keystat_allrelease ==
  LET ks == Filter(Codes, Held(ref) \ Locks) IN
  /\ ref' = [k \in Keys |-> IF k \in Locks THEN ref[k] ELSE NC]
  /\ keyboard_send([i \in 1 .. Len(ks) |-> Break(ks[i])])
  /\ rep' = IF repeat THEN Filter(rep, Keys \ Range(ks)) ELSE rep
  /\ UNCHANGED <<lockref, keyrep, param, repeat, ctr, data, full, cmd, irq,
                 pressed, missing, reply>>

(* keyrepeat_proc, when its time has come: the last key once more.          *)
keyrepeat_proc ==
  /\ repeat
  /\ rep # <<>>
  /\ keyboard_send(<<Break(Last(rep)), Make(Last(rep))>>)
  /\ UNCHANGED <<keystat, ctr, data, full, cmd, irq, pressed, missing, reply>>

(* keystat_ctrlsend: a command of the guest, or the parameter of one.       *)
Command(c) ==
  /\ param = "none"
  /\ param' = IF c \in {"9c", "9d"} THEN c ELSE "none"
  /\ AnswerWith(CASE c \in {"9c", "9d"} -> <<Ack>>
                  [] c = "9f" -> <<Ack, <<"id1">>, <<"id2">>>>
                  [] OTHER -> <<Nak>>)
  /\ UNCHANGED <<ref, lockref, keyrep>>

RepeatParameter ==
  /\ param = "9c"
  /\ keyrep' \in BOOLEAN
  /\ AnswerWith(<<Ack>>)
  /\ UNCHANGED <<ref, lockref>>

(* 60h asks for the lamps, 7xh sets them and the locks, others are ignored. *)
LampParameter ==
  /\ param = "9d"
  /\ \/ AnswerWith(<<Ack, <<"led">>>>) /\ UNCHANGED <<ref, lockref>>
     \/ /\ AnswerWith(<<Ack>>)
        /\ \E on \in [Locks -> {LED, NC}] :
             ref' = [k \in Keys |-> IF k \in Locks THEN on[k] ELSE ref[k]]
        /\ reloadled
     \/ UNCHANGED <<ctr, running, reply, ref, lockref>>
  /\ UNCHANGED keyrep

keystat_ctrlsend ==
  /\ cmd.tx
  /\ \/ \E c \in Commands : Command(c)
     \/ (RepeatParameter \/ LampParameter) /\ param' = "none"
  /\ UNCHANGED <<repeat, rep, ring, data, full, cmd, irq, pressed, lost, missing>>

(* MID_KEYREPEAT in the menu, or the core option of libretro.               *)
SetKeyRepeat ==
  /\ repeat' \in Settings \ {repeat}
  /\ UNCHANGED <<ref, lockref, keyrep, param, rep, keybrd, running, irq, history>>

Guest == keyboard_i41 \/ keystat_ctrlsend \/ \E dat \in Controls : keyboard_o43(dat)

HostKeys ==
  \/ \E h \in Hosts : keystat_down(h) \/ keystat_up(h)
  \/ keystat_allrelease
  \/ keyrepeat_proc

Host == HostKeys \/ SetKeyRepeat

Next == Host \/ Guest \/ keyboard_callback \/ pccore_reset

Spec == Init /\ [][Next]_vars

(* The option to repeat is switched on only when no key is in its buffer.   *)
CarefulSetting == SetKeyRepeat /\ (repeat' => rep = <<>>)
CarefulNext == HostKeys \/ CarefulSetting \/ Guest \/ keyboard_callback \/ pccore_reset
CarefulSpec == Init /\ [][CarefulNext]_vars

(* The scheduler calls the event, and the guest serves the interrupt.       *)
FairSpec == Spec /\ WF_vars(keyboard_callback) /\ WF_vars(irq /\ keyboard_i41)
-----------------------------------------------------------------------------
(* While a byte waits the event is set: keyboard_send and keyboard_ctrl set *)
(* it only if it is not, so a byte that waits without it stays.             *)
NoStall == ctr # <<>> \/ buffers # 0 => running

(* A byte in the register that is not read keeps its interrupt requested.   *)
FullInterrupts == full => irq

(* The bytes of keys in the ring, and with them the one to be read next.    *)
Pending == [i \in 1 .. buffers |-> buf[Place(i - 1)]]
Coming == (IF full THEN <<data>> ELSE <<>>) \o Pending
View == Taken(pressed, Coming) \ Locks

(* If no byte has found the ring full since the last reset, no key is stuck:*)
(* what the guest takes to be down when it has read all, is down.           *)
NoStuckKey == ~lost => View \subseteq Held(ref)

(* Unless a make code was withheld, it also knows all keys that are down.   *)
KeysAgree == ~lost /\ ~missing => View = Held(ref) \ Locks

(* The guest never reads the rest of an answer to an earlier command.       *)
AnswerIsLast == IsSuffix(ctr, reply)

(* The lamps the guest asks for are those of the locks.                     *)
LampsAgree == \A k \in Locks : lockref[k] = ref[k]

(* When no more keys and commands come, all that waits is delivered.        *)
Quiet == <>[][~(Host \/ keystat_ctrlsend \/ pccore_reset
                \/ \E dat \in Controls : keyboard_o43(dat))]_vars
Drains == Quiet => <>[](ctr = <<>> /\ buffers = 0 /\ ~full)

(* The option of libretro: a key repeats that continues to be pressed.      *)
RepeatsHeldKey == [][keyrepeat_proc => ref[Last(rep)] # NC]_vars

(* The promise of the interface, on its ring.                               *)
Line == INSTANCE KeyLine WITH
  Capacity <- KB_BUF, keys <- Pending, replies <- ctr
ImplementsKeyLine == Line!Spec
=============================================================================
