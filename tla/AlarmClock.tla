----------------------------- MODULE AlarmClock -----------------------------
(***************************************************************************)
(* What the event scheduler of nevent.c promises to the devices: every     *)
(* event is an alarm with a time left to run.  The guest executes only     *)
(* while no alarm is overdue, but for the instruction it is owed behind an *)
(* STI; between two looks at the alarms it accepts at most one interrupt,  *)
(* which may take its time with an alarm overdue.  Overdue alarms ring in  *)
(* the order of their deadlines; arming, disarming or answering one alarm  *)
(* leaves the time left of every other alarm alone.  NEvent implements     *)
(* this module.                                                            *)
(***************************************************************************)
EXTENDS Integers, Sequences, Functions

CONSTANTS Alarms,       \* the identities of the alarms
          Delays,       \* the delays an alarm is armed or extended by
          EntryClocks   \* the time the guest takes to accept an interrupt

VARIABLES armed,    \* the alarms that are running
          remain,   \* time left to each armed or ringing alarm, 0 for the others
          ringing,  \* the alarms whose callbacks are still to be answered, in order
          turn      \* "guest": it executes; "owed": one more instruction, come
                    \* what may; "clock": it does not execute

vars == <<armed, remain, ringing, turn>>

Init ==
  /\ armed = {}
  /\ remain = [a \in Alarms |-> 0]
  /\ ringing = <<>>
  /\ turn = "clock"

Known == armed \cup Range(ringing)

(* The guest executes an instruction, which takes some time, the same for   *)
(* all alarms; unless it is owed to the guest, none is overdue.             *)
Execute ==
  /\ turn # "clock"
  /\ turn = "owed" \/ \A a \in armed : remain[a] > 0
  /\ DOMAIN remain' = Alarms
  /\ \A a \in armed : remain[a] > remain'[a]
  /\ \A a, b \in armed : remain[a] - remain'[a] = remain[b] - remain'[b]
  /\ \A a \in Alarms \ armed : remain'[a] = 0
  /\ turn' \in {"guest", "owed"}
  /\ UNCHANGED <<armed, ringing>>

(* The guest's turn begins, and with it an interrupt perhaps.               *)
Enter ==
  /\ turn = "clock"
  /\ ringing = <<>>
  /\ turn' = "guest"
  /\ \E t \in EntryClocks \cup {0} :
       remain' = [a \in Alarms |-> IF a \in armed THEN remain[a] - t ELSE 0]
  /\ UNCHANGED <<armed, ringing>>

(* An alarm is set to go off r clocks from now.                             *)
ArmAt(a, r) ==
  /\ armed' = armed \cup {a}
  /\ remain' = [remain EXCEPT ![a] = r]
  /\ UNCHANGED ringing

Arm == \E a \in Alarms, d \in Delays : ArmAt(a, d)

(* A running or ringing alarm is moved d clocks past its last deadline, so  *)
(* that a periodic alarm does not drift with the lateness of its callback.  *)
Extend == \E a \in Known, d \in Delays : ArmAt(a, remain[a] + d)

(* An idle alarm armed relative to a deadline nobody knows any more.        *)
ArmIdle == \E a \in Alarms \ Known : ArmAt(a, remain'[a])

Disarm ==
  \E a \in armed :
    /\ armed' = armed \ {a}
    /\ remain' = IF a \in Range(ringing) THEN remain ELSE [remain EXCEPT ![a] = 0]
    /\ UNCHANGED ringing

DisarmAll ==
  /\ ringing = <<>>
  /\ armed' = {}
  /\ remain' = [a \in Alarms |-> 0]
  /\ UNCHANGED ringing

(* The clock rate changes: the times left are scaled, their order is kept.  *)
(* By rounding, an alarm may become overdue by one clock.                   *)
Rescale ==
  /\ ringing = <<>>
  /\ DOMAIN remain' = Alarms
  /\ \A a \in Alarms \ armed : remain'[a] = 0
  /\ \A a, b \in armed : remain[a] <= remain[b] => remain'[a] <= remain'[b]
  /\ \A a \in armed : remain[a] > 0 => remain'[a] >= -1
  /\ UNCHANGED <<armed, ringing>>

(* The first ringing alarm is answered; its callback may extend it.         *)
Answer ==
  /\ ringing # <<>>
  /\ ringing' = Tail(ringing)
  /\ LET a == Head(ringing) IN
       \/ /\ armed' = armed
          /\ remain' = IF a \in armed THEN remain ELSE [remain EXCEPT ![a] = 0]
       \/ /\ armed' = armed \cup {a}
          /\ \E d \in Delays : remain' = [remain EXCEPT ![a] = @ + d]

(* What an instruction, a callback or the host does to the alarms takes no  *)
(* time; nothing is done to them before an instruction that is owed.        *)
Handle ==
  /\ turn # "owed"
  /\ Arm \/ Extend \/ ArmIdle \/ Disarm \/ DisarmAll \/ Rescale \/ Answer
  /\ UNCHANGED turn

(* The guest's turn ends: overdue alarms start to ring, the earliest        *)
(* deadline first, and none is passed over for a later one.                 *)
Ring ==
  LET rung == Range(ringing') IN
  /\ turn = "guest"
  /\ turn' = "clock"
  /\ rung \subseteq armed
  /\ armed' = armed \ rung
  /\ remain' = remain
  /\ \A i, j \in DOMAIN ringing' :
       i < j => ringing'[i] # ringing'[j] /\ remain[ringing'[i]] <= remain[ringing'[j]]
  /\ \A a \in rung : remain[a] <= 0
  /\ \A a \in rung, b \in armed \ rung : remain[a] < remain[b]

Next == Execute \/ Enter \/ Handle \/ Ring

Spec == Init /\ [][Next]_vars
=============================================================================
