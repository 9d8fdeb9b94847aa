----------------------------- MODULE MCKeyboard -----------------------------
(* TLC instances of Keyboard: rings so small that they overflow and wrap.   *)
EXTENDS Keyboard

CONSTANTS h1, h2, h3, a, b, c

(* two repeating keys, the first with two host keys *)
ThreeHosts == {h1, h2, h3}
SharedKeyOf == [h \in ThreeHosts |-> IF h = h3 THEN b ELSE a]
TwoCodes == <<a, b>>

(* two repeating keys, a host key for each *)
TwoHosts == {h1, h2}
OwnKeyOf == [h \in TwoHosts |-> IF h = h1 THEN a ELSE b]

(* a lock alone *)
LockHosts == {h1}
LockKeyOf == [h \in LockHosts |-> c]
LockCodes == <<c>>

(* the guest resets the keyboard / sends commands as well                   *)
ResetOnly == {[tx |-> FALSE, reset |-> r] : r \in BOOLEAN}
Both == [tx : {TRUE}, reset : BOOLEAN]
=============================================================================
