------------------------------ MODULE KeyLine ------------------------------
(* What the keyboard interface promises the guest: the bytes of the keys    *)
(* arrive one by one in the order they were sent, the answer to a command   *)
(* goes before them, and nothing overtakes a byte that waits to be read.    *)
EXTENDS Naturals, SequencesExt

CONSTANTS Capacity   \* how many bytes of keys can wait

VARIABLES
  keys,      \* the bytes of keys that wait
  replies,   \* what is left of the answer to the last command
  data,      \* the data register
  full       \* it holds a byte the guest has not read

vars == <<keys, replies, data, full>>

Init == keys = <<>> /\ replies = <<>> /\ full = FALSE

Send ==
  /\ IsPrefix(keys, keys') /\ Len(keys') <= Capacity
  /\ UNCHANGED <<replies, data, full>>

Answer ==
  /\ replies' # <<>>
  /\ UNCHANGED <<keys, data, full>>

Deliver ==
  /\ ~full
  /\ full' = TRUE
  /\ IF replies # <<>>
     THEN data' = Head(replies) /\ replies' = Tail(replies) /\ UNCHANGED keys
     ELSE /\ keys # <<>>
          /\ data' = Head(keys) /\ keys' = Tail(keys) /\ UNCHANGED replies

Read == full' = FALSE /\ UNCHANGED <<keys, replies, data>>

(* What waits is dropped; the keys that are held are sent again.            *)
Reset == full' = FALSE /\ replies' = <<>> /\ Len(keys') <= Capacity

Next == Send \/ Answer \/ Deliver \/ Read \/ Reset
Spec == Init /\ [][Next]_vars
=============================================================================
