---------------------------- MODULE Rs232cProofs ----------------------------
(***************************************************************************)
(* Proofs about Rs232c: the ring of the receiver and its interrupts.       *)
(***************************************************************************)
EXTENDS Rs232c, TLAPS

LEMMA Numbers ==
  /\ Size \in Nat /\ Size > 1 /\ Expiry \in Nat /\ Expiry > 1
  /\ Many \in Nat /\ MaxBytes \in Nat
BY Rs232cAssumption

LEMMA AfterIs ==
  ASSUME NEW p \in Position
  PROVE  After(p) = (IF p + 1 = Size THEN 0 ELSE p + 1) /\ After(p) \in Position
<1>1. Size \in Nat /\ Size > 1
  BY Numbers
<1>2. CASE p + 1 = Size
  BY <1>1, <1>2 DEF Position, After
<1>3. CASE p + 1 < Size
  BY <1>1, <1>3 DEF Position, After
<1> QED BY <1>1, <1>2, <1>3 DEF Position

LEMMA CountedType ==
  ASSUME removecounter \in 0 .. Expiry - 1
  PROVE  Counted \in 0 .. Expiry - 1
<1> DEFINE n == (IF bufused = 0 \/ port138 THEN 0 ELSE removecounter) + 1
<1>1. n \in Nat
  BY Numbers
<1> HIDE DEF n
<1>2. n % Expiry \in 0 .. Expiry - 1
  BY <1>1, Numbers
<1> QED BY <1>2 DEF Counted, n
-----------------------------------------------------------------------------
(* Types                                                                    *)

RingType ==
  /\ buf \in [Position -> 0 .. MaxBytes]
  /\ rpos \in Position /\ wpos \in Position
  /\ data \in 0 .. MaxBytes
  /\ came \in 0 .. MaxBytes /\ got \in 0 .. MaxBytes

CounterType == removecounter \in 0 .. Expiry - 1

FlagType ==
  /\ irqflag \in {0, 2, 3}
  /\ guest \in {"idle", "interrupted", "serving"}
  /\ {rxrdy, enabled, rxre, port138, irq} \subseteq BOOLEAN

Types == RingType /\ CounterType /\ FlagType

LEMMA TypesInit == Init => Types
<1> SUFFICES ASSUME Init PROVE Types
  OBVIOUS
<1>1. RingType
  BY Numbers DEF Init, RingType, Position
<1>2. CounterType
  BY Numbers DEF Init, CounterType
<1>3. FlagType
  BY DEF Init, FlagType
<1> QED BY <1>1, <1>2, <1>3 DEF Types

LEMMA ReadTypes ==
  ASSUME Types, Read
  PROVE  RingType' /\ CounterType'
<1>1. ReadByte
  BY DEF Read, Port30, Port130
<1>2. After(rpos) \in Position
  BY AfterIs DEF Types, RingType
<1>3. CounterType'
  BY <1>1, Numbers DEF ReadByte, CounterType
<1>4. RingType'
  BY <1>1, <1>2 DEF ReadByte, Types, RingType
<1> QED BY <1>3, <1>4

LEMMA ReadFlags ==
  ASSUME FlagType, Read
  PROVE  /\ UNCHANGED <<enabled, rxre, port138>>
         /\ irqflag' \in {0, 2, 3}
         /\ {rxrdy', irq'} \subseteq BOOLEAN
<1> DEFINE many == Left > Many
           none == Left = 0
           some == Left > 0
<1>1. /\ UNCHANGED <<enabled, rxre, port138>>
      /\ \/ /\ rxrdy' = (rxrdy /\ many) /\ irq' = (irq \/ (many /\ rxre))
            /\ irqflag' = irqflag
         \/ /\ rxrdy' = (rxrdy /\ some) /\ irq' = (irq \/ none \/ many)
            /\ irqflag' = IF none THEN 3 ELSE IF many THEN 2 ELSE irqflag
  BY DEF Read, Port30, Port130, ReadByte
<1>2. many \in BOOLEAN /\ none \in BOOLEAN /\ some \in BOOLEAN
  OBVIOUS
<1> HIDE DEF many, none, some
<1>3. irqflag' \in {0, 2, 3}
  BY <1>1 DEF FlagType
<1>4. {rxrdy', irq'} \subseteq BOOLEAN
  BY <1>1, <1>2 DEF FlagType
<1> QED BY <1>1, <1>3, <1>4

LEMMA CallbackFlags ==
  ASSUME FlagType, NEW reads \in BOOLEAN, Callback(reads)
  PROVE  \E announces \in BOOLEAN :
           /\ announces => rpos' # wpos' /\ (~rxrdy \/ Drops)
           /\ rpos' # wpos' /\ ~rxrdy => announces
           /\ rxrdy' = (rxrdy \/ announces)
           /\ irqflag' = IF announces /\ port138 THEN 2 ELSE irqflag
           /\ irq' = (irq \/ (announces /\ (port138 \/ rxre)))
           /\ UNCHANGED <<enabled, rxre, port138, guest>>
<1> DEFINE announces == rpos' # wpos' /\ (~rxrdy \/ Drops)
<1>1. /\ rxrdy' = (rxrdy \/ announces)
      /\ irqflag' = IF announces /\ port138 THEN 2 ELSE irqflag
      /\ irq' = (irq \/ (announces /\ (port138 \/ rxre)))
      /\ UNCHANGED <<enabled, rxre, port138, guest>>
  BY DEF Callback
<1>2. announces \in BOOLEAN
  OBVIOUS
<1> QED BY <1>1, <1>2

LEMMA TypesNext == Types /\ [Next]_vars => Types'
<1> SUFFICES ASSUME Types, [Next]_vars PROVE Types'
  OBVIOUS
<1> USE DEF Types
<1>1. CASE CallbackWaits \/ CallbackIdle
  <2>1. RingType'
    BY <1>1 DEF CallbackWaits, CallbackIdle, RingType
  <2>2. CounterType'
    BY <1>1, Numbers DEF CallbackWaits, CallbackIdle, CounterType
  <2>3. FlagType'
    BY <1>1 DEF CallbackWaits, CallbackIdle, FlagType
  <2> QED BY <2>1, <2>2, <2>3
<1>2. ASSUME NEW reads \in BOOLEAN, Callback(reads)
      PROVE  Types'
  <2>1. CounterType'
    BY <1>2, CountedType DEF Callback, CounterType
  <2>2. FlagType'
    BY <1>2, CallbackFlags DEF FlagType
  <2>3. came' \in 0 .. MaxBytes /\ (reads => came + 1 \in 0 .. MaxBytes)
    BY <1>2, Numbers DEF Callback, RingType
  <2>4. /\ buf' \in [Position -> 0 .. MaxBytes]
        /\ wpos' \in Position /\ rpos' \in Position
    BY <1>2, <2>3, AfterIs DEF Callback, RingType
  <2>5. data' \in 0 .. MaxBytes /\ got' = got
    BY <1>2, <2>4 DEF Callback, Offer, RingType
  <2> QED BY <2>1, <2>2, <2>3, <2>4, <2>5 DEF RingType
<1>3. CASE Serve \/ Poll
  <2>1. Read /\ guest' \in {"idle", "serving"}
    BY <1>3 DEF Serve, Poll
  <2>2. RingType' /\ CounterType'
    BY <2>1, ReadTypes
  <2>3. FlagType'
    BY <2>1, ReadFlags DEF FlagType
  <2> QED BY <2>2, <2>3
<1>4. CASE TakeInterrupt \/ ReadCause \/ Served \/ ClearCause \/ Mask
           \/ rs232c_o138 \/ rs232c_o13a \/ Enable
  <2>1. RingType' /\ CounterType'
    BY <1>4 DEF TakeInterrupt, ReadCause, Served, ClearCause, Mask, rs232c_o138,
                rs232c_o13a, Enable, rs232c_i136, RingType, CounterType
  <2>2. FlagType'
    BY <1>4 DEF TakeInterrupt, ReadCause, Served, ClearCause, Mask, rs232c_o138,
                rs232c_o13a, Enable, rs232c_i136, FlagType
  <2> QED BY <2>1, <2>2
<1>5. CASE rs232c_reset
  <2>1. RingType' /\ CounterType'
    BY <1>5, Numbers DEF rs232c_reset, RingType, CounterType
  <2>2. FlagType'
    BY <1>5 DEF rs232c_reset, FlagType
  <2> QED BY <2>1, <2>2
<1>6. CASE UNCHANGED vars
  BY <1>6 DEF vars, RingType, CounterType, FlagType
<1> QED BY <1>1, <1>2, <1>3, <1>4, <1>5, <1>6 DEF Next

(* Every variable keeps its range; no position leaves the ring.             *)
THEOREM TypeCorrect == Spec => []TypeOK
<1>1. Types => TypeOK
  BY DEF Types, RingType, CounterType, FlagType, TypeOK
<1> QED BY <1>1, TypesInit, TypesNext, PTL DEF Spec
-----------------------------------------------------------------------------
(* The ring                                                                 *)

(* How many slots follow the position p up to q                             *)
Dist(p, q) == IF q >= p THEN q - p ELSE q - p + Size

(* The ring holds the last bytes that came, one after the other.            *)
Consecutive(bytes, r, w, last) ==
  \A p \in Position :
    /\ bytes[p] <= last
    /\ Dist(r, p) < Dist(r, w) =>
         bytes[p] = last - Dist(r, w) + Dist(r, p) + 1

RingInv ==
  /\ Consecutive(buf, rpos, wpos, came)
  /\ data <= came
  /\ got <= came - Dist(rpos, wpos)

IInv == Types /\ RingInv /\ OffersNext

LEMMA UsedIs == bufused = Dist(rpos, wpos)
BY DEF bufused, Dist

LEMMA DistType ==
  ASSUME NEW p \in Position, NEW q \in Position
  PROVE  Dist(p, q) \in 0 .. Size - 1 /\ (Dist(p, q) = 0 <=> p = q)
BY Numbers DEF Dist, Position

(* The first position moves on, the ring not being empty.                   *)
LEMMA Forward ==
  ASSUME NEW r \in Position, NEW p \in Position, p # r
  PROVE  Dist(After(r), p) = Dist(r, p) - 1
BY AfterIs, Numbers DEF Dist, Position

LEMMA ForwardSelf ==
  ASSUME NEW r \in Position
  PROVE  Dist(After(r), r) = Size - 1
BY AfterIs, Numbers DEF Dist, Position

(* The position behind the last moves on, the ring not being full.          *)
LEMMA Backward ==
  ASSUME NEW r \in Position, NEW w \in Position, Dist(r, w) < Size - 1
  PROVE  Dist(r, After(w)) = Dist(r, w) + 1
BY AfterIs, Numbers DEF Dist, Position

LEMMA Dropped ==
  ASSUME NEW bytes \in [Position -> Nat], NEW last \in Nat,
         NEW r \in Position, NEW w \in Position, r # w,
         Consecutive(bytes, r, w, last)
  PROVE  /\ Consecutive(bytes, After(r), w, last)
         /\ Dist(After(r), w) = Dist(r, w) - 1
         /\ bytes[r] = last - Dist(r, w) + 1
<1>1. Dist(After(r), w) = Dist(r, w) - 1
  BY Forward
<1>2. After(r) \in Position
  BY AfterIs
<1>3. ASSUME NEW p \in Position, Dist(After(r), p) < Dist(After(r), w)
      PROVE  bytes[p] = last - Dist(After(r), w) + Dist(After(r), p) + 1
  <2>1. p # r
    BY <1>1, <1>3, ForwardSelf, DistType, Numbers
  <2>2. Dist(After(r), p) = Dist(r, p) - 1
    BY <2>1, Forward
  <2>3. Dist(r, p) \in Int /\ Dist(r, w) \in Int
    BY DistType
  <2>4. bytes[p] = last - Dist(r, w) + Dist(r, p) + 1
    BY <1>1, <1>3, <2>2, <2>3 DEF Consecutive
  <2> QED BY <1>1, <2>2, <2>3, <2>4
<1>4. Consecutive(bytes, After(r), w, last)
  BY <1>3 DEF Consecutive
<1>5. bytes[r] = last - Dist(r, w) + 1
  <2>1. Dist(r, r) = 0 /\ Dist(r, w) \in Nat /\ Dist(r, w) > 0
    BY DistType
  <2> QED BY <2>1 DEF Consecutive
<1> QED BY <1>1, <1>4, <1>5

LEMMA Added ==
  ASSUME NEW bytes \in [Position -> Nat], NEW last \in Nat,
         NEW r \in Position, NEW w \in Position, Dist(r, w) < Size - 1,
         Consecutive(bytes, r, w, last),
         NEW new,
         \A p \in Position : new[p] = IF p = w THEN last + 1 ELSE bytes[p]
  PROVE  /\ Consecutive(new, r, After(w), last + 1)
         /\ Dist(r, After(w)) = Dist(r, w) + 1
<1> DEFINE v == After(w)
           next == last + 1
<1>1. Dist(r, v) = Dist(r, w) + 1
  BY Backward
<1>2. ASSUME NEW p \in Position
      PROVE  /\ new[p] <= next
             /\ Dist(r, p) < Dist(r, v) =>
                  new[p] = next - Dist(r, v) + Dist(r, p) + 1
  <2>1. Dist(r, p) \in Int /\ Dist(r, w) \in Int
    BY DistType
  <2>2. CASE p = w
    BY <1>1, <2>1, <2>2
  <2>3. CASE p # w
    <3>1. new[p] = bytes[p] /\ bytes[p] <= last /\ bytes[p] \in Nat
      BY <2>3 DEF Consecutive
    <3>2. Dist(r, p) # Dist(r, w)
      BY <2>3, Numbers DEF Dist, Position
    <3>3. Dist(r, p) < Dist(r, w) =>
            bytes[p] = last - Dist(r, w) + Dist(r, p) + 1
      BY DEF Consecutive
    <3>4. new[p] <= next
      BY <3>1
    <3>5. ASSUME Dist(r, p) < Dist(r, v)
          PROVE  new[p] = next - Dist(r, v) + Dist(r, p) + 1
      <4>1. Dist(r, p) < Dist(r, w)
        BY <1>1, <2>1, <3>2, <3>5
      <4>2. bytes[p] = last - Dist(r, w) + Dist(r, p) + 1
        BY <3>3, <4>1
      <4> QED BY <1>1, <2>1, <3>1, <4>2
    <3> QED BY <3>4, <3>5
  <2> QED BY <2>2, <2>3
<1>3. Consecutive(new, r, v, next)
  <2> HIDE DEF v, next
  <2> QED BY <1>2 DEF Consecutive
<1> QED BY <1>1, <1>3

LEMMA RingTypes ==
  ASSUME Types
  PROVE  /\ buf \in [Position -> Nat] /\ came \in Nat /\ data \in Nat
         /\ got \in Nat /\ rpos \in Position /\ wpos \in Position
BY Numbers DEF Types, RingType

LEMMA InvInit == Init => IInv
<1> SUFFICES ASSUME Init PROVE IInv
  OBVIOUS
<1>1. Dist(rpos, wpos) = 0
  BY DEF Init, Dist
<1>2. Consecutive(buf, rpos, wpos, came)
  <2>1. ASSUME NEW p \in Position
        PROVE  buf[p] <= came /\ ~(Dist(rpos, p) < 0)
    BY <2>1, Numbers DEF Init, Dist, Position
  <2> QED BY <1>1, <2>1 DEF Consecutive
<1>3. OffersNext
  BY DEF Init, OffersNext
<1>4. RingInv
  BY <1>1, <1>2 DEF Init, RingInv
<1> QED BY <1>3, <1>4, TypesInit DEF IInv

LEMMA CallbackRing ==
  ASSUME IInv, NEW reads \in BOOLEAN, Callback(reads)
  PROVE  RingInv' /\ OffersNext'
<1>0. /\ buf \in [Position -> Nat] /\ came \in Nat /\ data \in Nat
      /\ got \in Nat /\ rpos \in Position /\ wpos \in Position
  BY RingTypes DEF IInv
<1> DEFINE n == Dist(rpos, wpos)
<1>1. n \in 0 .. Size - 1 /\ bufused = n
  BY <1>0, DistType, UsedIs
<1>2. /\ Consecutive(buf, rpos', wpos, came)
      /\ rpos' \in Position /\ Dist(rpos', wpos) < Size - 1
      /\ got <= came - Dist(rpos', wpos)
  <2>1. CASE Drops
    <3>1. rpos # wpos
      BY <1>0, <1>1, <2>1, DistType, Numbers DEF Drops
    <3>2. rpos' = After(rpos)
      BY <2>1 DEF Callback
    <3>3. /\ Consecutive(buf, After(rpos), wpos, came)
          /\ Dist(After(rpos), wpos) = n - 1
      BY <1>0, <3>1, Dropped DEF IInv, RingInv
    <3>4. got <= came - n
      BY DEF IInv, RingInv
    <3> HIDE DEF n
    <3> QED BY <1>0, <1>1, <3>2, <3>3, <3>4, AfterIs, Numbers
  <2>2. CASE ~Drops
    <3>1. rpos' = rpos /\ n # Size - 1
      BY <1>1, <2>2 DEF Callback, Drops
    <3> QED BY <1>0, <1>1, <3>1, Numbers DEF IInv, RingInv
  <2> QED BY <2>1, <2>2
<1>3. /\ Consecutive(buf', rpos', wpos', came')
      /\ got <= came' - Dist(rpos', wpos')
      /\ came' \in Nat /\ came' >= came
      /\ buf' \in [Position -> Nat] /\ wpos' \in Position
  <2>1. CASE reads
    <3>1. /\ came' = came + 1 /\ buf' = [buf EXCEPT ![wpos] = came + 1]
          /\ wpos' = After(wpos)
      BY <2>1 DEF Callback
    <3>2. /\ Consecutive(buf', rpos', wpos', came')
          /\ Dist(rpos', wpos') = Dist(rpos', wpos) + 1
      <4>1. /\ buf \in [Position -> Nat] /\ came \in Nat
            /\ rpos' \in Position /\ wpos \in Position
            /\ Dist(rpos', wpos) < Size - 1 /\ Consecutive(buf, rpos', wpos, came)
        BY <1>0, <1>2
      <4>2. \A p \in Position :
               buf'[p] = IF p = wpos THEN came + 1 ELSE buf[p]
        BY <3>1, <4>1
      <4>3. /\ Consecutive(buf', rpos', After(wpos), came + 1)
            /\ Dist(rpos', After(wpos)) = Dist(rpos', wpos) + 1
        BY <4>1, <4>2, Added
      <4> QED BY <3>1, <4>3
    <3>3. Dist(rpos', wpos) \in Int
      BY <1>0, <1>2, DistType
    <3> QED BY <1>0, <1>2, <3>1, <3>2, <3>3, AfterIs
  <2>2. CASE ~reads
    BY <1>0, <1>2, <2>2 DEF Callback
  <2> QED BY <2>1, <2>2
<1>4. data' = (IF rpos' # wpos' THEN buf'[rpos'] ELSE data) /\ got' = got
  BY DEF Callback, Offer
<1>5. data' <= came'
  BY <1>0, <1>2, <1>3, <1>4 DEF IInv, RingInv, Consecutive
<1>6. RingInv'
  BY <1>3, <1>4, <1>5 DEF RingInv
<1>7. OffersNext'
  <2>1. CASE rpos' # wpos'
    <3>1. buf'[rpos'] = came' - Dist(rpos', wpos') + 1
      BY <1>2, <1>3, <2>1, Dropped
    <3>2. buf'[rpos'] > got
      BY <1>0, <1>2, <1>3, <3>1, DistType
    <3> QED BY <1>4, <2>1, <3>2 DEF OffersNext
  <2>2. CASE rpos' = wpos'
    <3>1. rxrdy' => rxrdy
      <4>1. rxrdy' = (rxrdy \/ (rpos' # wpos' /\ (~rxrdy \/ Drops)))
        BY DEF Callback
      <4> QED BY <2>2, <4>1 DEF IInv, Types, FlagType
    <3> QED BY <1>4, <2>2, <3>1 DEF IInv, OffersNext
  <2> QED BY <2>1, <2>2
<1> QED BY <1>6, <1>7

LEMMA ReadRing ==
  ASSUME IInv, rxrdy, Read
  PROVE  RingInv' /\ OffersNext'
<1>0. /\ buf \in [Position -> Nat] /\ came \in Nat /\ data \in Nat
      /\ got \in Nat /\ rpos \in Position /\ wpos \in Position
  BY RingTypes DEF IInv
<1>1. ReadByte
  BY DEF Read, Port30, Port130
<1>2. /\ got' = data /\ UNCHANGED <<buf, wpos, came>>
      /\ rpos' = IF rpos # wpos THEN After(rpos) ELSE rpos
      /\ data' = IF rpos # wpos THEN buf[After(rpos)] ELSE data
  BY <1>1 DEF ReadByte
<1>3. CASE rpos # wpos
  <2>1. /\ Consecutive(buf, rpos', wpos, came)
        /\ Dist(rpos', wpos) = Dist(rpos, wpos) - 1
        /\ data = came - Dist(rpos, wpos) + 1
    BY <1>0, <1>2, <1>3, Dropped DEF IInv, RingInv, OffersNext
  <2>2. rpos' \in Position /\ data' = buf[rpos']
    BY <1>0, <1>2, <1>3, AfterIs
  <2>3. data' <= came
    BY <2>1, <2>2 DEF Consecutive
  <2>4. Dist(rpos, wpos) \in Int
    BY <1>0, DistType
  <2>5. got' <= came - Dist(rpos', wpos)
    BY <1>0, <1>2, <2>1, <2>4
  <2>6. RingInv'
    BY <1>2, <2>1, <2>3, <2>5 DEF RingInv
  <2>7. rxrdy' => rpos' # wpos
    <3>1. rxrdy' => Left > 0
      <4>1. Left \in Int
        BY <1>0, UsedIs, DistType DEF Left
      <4>2. rxrdy' => Left > Many \/ Left > 0
        BY DEF Read, Port30, Port130
      <4> QED BY <4>1, <4>2, Numbers
    <3>2. Left = Dist(rpos', wpos)
      BY <1>3, <2>1, UsedIs DEF Left
    <3> QED BY <1>0, <2>2, <3>1, <3>2, DistType
  <2>8. rpos' # wpos => data' > got'
    <3>1. ASSUME rpos' # wpos PROVE data' = came - Dist(rpos', wpos) + 1
      BY <1>0, <2>1, <2>2, <3>1, Dropped
    <3> QED BY <1>0, <1>2, <2>1, <2>2, <2>4, <3>1
  <2> QED BY <1>2, <2>2, <2>6, <2>7, <2>8 DEF OffersNext
<1>4. CASE rpos = wpos
  <2>1. Left = 0
    BY <1>4 DEF Left
  <2>2. ~rxrdy'
    <3>1. ~(Left > Many) /\ ~(Left > 0)
      BY <2>1, Numbers
    <3> QED BY <3>1 DEF Read, Port30, Port130
  <2>3. Dist(rpos, wpos) = 0
    BY <1>0, <1>4, DistType
  <2>4. RingInv'
    BY <1>0, <1>2, <1>4, <2>3 DEF IInv, RingInv
  <2> QED BY <2>2, <2>4 DEF OffersNext
<1> QED BY <1>3, <1>4

LEMMA InvNext == IInv /\ [Next]_vars => IInv'
<1> SUFFICES ASSUME IInv, [Next]_vars PROVE RingInv' /\ OffersNext'
  BY TypesNext DEF IInv
<1>1. CASE \E reads \in BOOLEAN : Callback(reads)
  BY <1>1, CallbackRing
<1>2. CASE Serve \/ Poll
  BY <1>2, ReadRing DEF Serve, Poll
<1>3. CASE CallbackWaits \/ CallbackIdle \/ TakeInterrupt \/ ReadCause \/ Served
           \/ ClearCause \/ Mask \/ rs232c_o138 \/ rs232c_o13a \/ Enable
           \/ UNCHANGED vars
  <2>1. UNCHANGED <<buf, rpos, wpos, data, rxrdy, came, got>>
    BY <1>3 DEF CallbackWaits, CallbackIdle, TakeInterrupt, ReadCause, Served,
                ClearCause, Mask, rs232c_o138, rs232c_o13a,
                    Enable, rs232c_i136, vars
  <2> QED BY <2>1 DEF IInv, RingInv, OffersNext, Consecutive, Dist
<1>4. CASE rs232c_reset
  <2>1. UNCHANGED <<buf, rpos, wpos, came, got>> /\ data' = 0 /\ ~rxrdy'
    BY <1>4 DEF rs232c_reset
  <2>2. 0 <= came
    BY RingTypes DEF IInv
  <2>3. RingInv'
    BY <2>1, <2>2 DEF IInv, RingInv, Consecutive, Dist
  <2> QED BY <2>1, <2>3 DEF OffersNext
<1> QED BY <1>1, <1>2, <1>3, <1>4 DEF Next

(* With any length of the ring, RxRDY offers the oldest byte of the ring    *)
(* and never one that was read: the ring holds the last bytes that came,    *)
(* one after the other, all younger than what was read.                     *)
THEOREM NothingTwice == Spec => []OffersNext
<1>1. IInv => OffersNext
  BY DEF IInv
<1> QED BY <1>1, InvInit, InvNext, PTL DEF Spec
-----------------------------------------------------------------------------
(* The interrupts                                                           *)

(* In its handler the guest of the FIFO mode is about to learn the cause.   *)
HandlerLearns ==
  /\ guest = "interrupted" => port138 /\ (rxrdy => irqflag = 2)
  /\ guest # "interrupted" /\ port138 /\ irqflag # 0 => irq

AInv == Types /\ HandlerLearns /\ Announced

LEMMA AnnouncedInit == Init => AInv
BY TypesInit DEF AInv, Init, HandlerLearns, Announced

LEMMA ReadAnnounced ==
  ASSUME AInv, rxrdy, Read, guest # "interrupted", guest' # "interrupted",
         port138 /\ guest' = "idle" => guest = "idle"
  PROVE  HandlerLearns' /\ Announced'
<1> DEFINE many == Left > Many
           none == Left = 0
           some == Left > 0
<1>1. /\ UNCHANGED <<rxre, port138>>
      /\ ~port138 => /\ rxrdy' = (rxrdy /\ many) /\ irq' = (irq \/ (many /\ rxre))
                     /\ irqflag' = irqflag
      /\ port138 => /\ rxrdy' = (rxrdy /\ some) /\ irq' = (irq \/ none \/ many)
                    /\ irqflag' = IF none THEN 3 ELSE IF many THEN 2 ELSE irqflag
  BY DEF Read, Port30, Port130, ReadByte
<1>2. some => ~none
  OBVIOUS
<1> HIDE DEF many, none, some
<1> QED BY <1>1, <1>2 DEF AInv, Types, FlagType, HandlerLearns, Announced

LEMMA AnnouncedNext == AInv /\ [Next]_vars => AInv'
<1> SUFFICES ASSUME AInv, [Next]_vars PROVE HandlerLearns' /\ Announced'
  BY TypesNext DEF AInv
<1> USE DEF AInv, HandlerLearns, Announced
<1>0. FlagType
  BY DEF Types
<1>1. ASSUME NEW reads \in BOOLEAN, Callback(reads)
      PROVE  HandlerLearns' /\ Announced'
  <2>1. PICK announces \in BOOLEAN :
           /\ announces => rpos' # wpos' /\ (~rxrdy \/ Drops)
           /\ rpos' # wpos' /\ ~rxrdy => announces
           /\ rxrdy' = (rxrdy \/ announces)
           /\ irqflag' = IF announces /\ port138 THEN 2 ELSE irqflag
           /\ irq' = (irq \/ (announces /\ (port138 \/ rxre)))
           /\ UNCHANGED <<enabled, rxre, port138, guest>>
    BY <1>0, <1>1, CallbackFlags
  <2> QED BY <1>0, <2>1 DEF FlagType
<1>2. CASE Serve
  BY <1>2, ReadAnnounced DEF Serve
<1>3. CASE Poll
  BY <1>3, ReadAnnounced DEF Poll
<1>4. CASE CallbackWaits \/ CallbackIdle
  BY <1>0, <1>4 DEF CallbackWaits, CallbackIdle, Waits, FlagType
<1>5. CASE TakeInterrupt
  BY <1>0, <1>5 DEF TakeInterrupt, FlagType
<1>6. CASE ReadCause
  BY <1>0, <1>6 DEF ReadCause, rs232c_i136, FlagType
<1>7. CASE Served \/ ClearCause \/ Mask \/ rs232c_o138 \/ rs232c_o13a \/ Enable
  BY <1>0, <1>7 DEF Served, ClearCause, Mask, rs232c_o138, rs232c_o13a,
                    Enable, rs232c_i136,
                    FlagType
<1>8. CASE rs232c_reset
  BY <1>8 DEF rs232c_reset
<1>9. CASE UNCHANGED vars
  BY <1>9 DEF vars
<1> QED BY <1>1, <1>2, <1>3, <1>4, <1>5, <1>6, <1>7, <1>8, <1>9 DEF Next

(* With any length of the ring, no interrupt for a byte is lost.            *)
THEOREM NoLostInterrupt == Spec => []Announced
<1>1. AInv => Announced
  BY DEF AInv
<1> QED BY <1>1, AnnouncedInit, AnnouncedNext, PTL DEF Spec
=============================================================================
