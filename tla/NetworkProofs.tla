--------------------------- MODULE NetworkProofs ---------------------------
(***************************************************************************)
(* Proofs about Network: the ring of the packets that are sent and the     *)
(* page ring of those that arrive.                                         *)
(***************************************************************************)
EXTENDS Network, TLAPS

LEMMA After ==
  ASSUME NEW s \in Slot
  PROVE  (s + 1) % Slots = IF s + 1 = Slots THEN 0 ELSE s + 1
<1>1. Slots \in Nat /\ Slots > 1
  BY NetworkAssumption
<1>2. CASE s + 1 = Slots
  BY <1>1, <1>2 DEF Slot
<1>3. CASE s + 1 < Slots
  BY <1>1, <1>3 DEF Slot
<1> QED BY <1>1, <1>2, <1>3 DEF Slot

LEMMA Bounds ==
  /\ MaxOpens \in Nat /\ MaxSend \in Nat /\ MaxArrive \in Nat
  /\ 0 \in Slot /\ 0 \in Page /\ 1 \in Page
BY NetworkAssumption DEF Slot, Page

LEMMA FollowingInPage ==
  ASSUME NEW p \in Page, NEW n \in 0 .. Pages
  PROVE  Following(p, n) \in Page
BY NetworkAssumption DEF Page, Following
-----------------------------------------------------------------------------
(* Types                                                                    *)

SendingType ==
  /\ readpos \in Slot /\ writepos \in Slot
  /\ membuf \in [Slot -> 0 .. MaxSend]
  /\ sent \in 0 .. MaxSend /\ wire \in Seq(0 .. MaxSend)
  /\ wpc \in [Threads -> {"none", "test", "look", "write", "load", "store",
                          "asleep", "done"}]
  /\ wpos \in [Threads -> Slot]

ReceivingType ==
  /\ curpag \in Page /\ boundary \in Page /\ dnext \in Page
  /\ started \in BOOLEAN
  /\ mem \in [Page -> [packet : 0 .. MaxArrive, next : Page]]
  /\ arrived \in 0 .. MaxArrive
  /\ unread \in Seq(Packets)
  /\ rpc \in [Threads -> {"none", "test", "read", "place", "store", "publish",
                          "done"}]
  /\ taking \in [Threads -> Packets \cup {Nothing}]
  /\ clean \in BOOLEAN

ControlType ==
  /\ handler \in {"np2net", "neither", "lgy98"}
  /\ opened \in 0 .. MaxOpens
  /\ hThreadexit \in BOOLEAN
  /\ epc \in {"off", "reset", "bind", "run", "copy", "advance", "read", "end"}

(* What is put into the page ring is a packet.                              *)
Holding ==
  \A t \in Threads :
    rpc[t] \in {"place", "store", "publish"} => taking[t] \in Packets

Numbered == epc = "copy" => sent < MaxSend

Types == SendingType /\ ReceivingType /\ ControlType /\ Holding /\ Numbered

LEMMA TypesInit == Init => Types
<1> SUFFICES ASSUME Init PROVE Types
  OBVIOUS
<1> USE Bounds DEF Init
<1>1. SendingType
  <2>1. sent \in 0 .. MaxSend /\ 0 \in 0 .. MaxSend
    OBVIOUS
  <2> QED BY <2>1 DEF SendingType
<1>2. ReceivingType
  <2>1. arrived \in 0 .. MaxArrive /\ 0 \in 0 .. MaxArrive
    OBVIOUS
  <2>2. unread \in Seq(Packets)
    OBVIOUS
  <2> QED BY <2>1, <2>2 DEF ReceivingType
<1>3. opened \in 0 .. MaxOpens
  OBVIOUS
<1>4. ControlType /\ Holding /\ Numbered
  BY <1>3 DEF ControlType, Holding, Numbered
<1> QED BY <1>1, <1>2, <1>4 DEF Types

LEMMA TypesEmulator ==
  ASSUME Types, Emulator
  PROVE  Types'
<1> USE DEF Types
<1>1. CASE np2net_reset
  <2>1. /\ opened' \in 0 .. MaxOpens /\ hThreadexit' \in BOOLEAN
        /\ wpc' \in [Threads -> {"none", "test", "look", "write", "load",
                                  "store", "asleep", "done"}]
        /\ rpc' \in [Threads -> {"none", "test", "read", "place", "store",
                                  "publish", "done"}]
    <3>1. opened' \in 0 .. MaxOpens
      BY <1>1, Bounds DEF np2net_reset, ControlType
    <3> QED BY <1>1, <3>1 DEF np2net_reset, SendingType, ReceivingType,
                              ControlType
  <2>2. SendingType' /\ ReceivingType' /\ ControlType' /\ Numbered'
    BY <1>1, <2>1 DEF np2net_reset, SendingType, ReceivingType, ControlType,
                      Numbered
  <2>3. Holding'
    BY <1>1 DEF np2net_reset, ReceivingType, Holding
  <2> QED BY <2>2, <2>3
<1>2. CASE lgy98_reset
  <2>1. SendingType' /\ ControlType' /\ Holding' /\ Numbered'
    BY <1>2 DEF lgy98_reset, sending, SendingType, ControlType, Holding,
                Numbered
  <2>2. ReceivingType'
    <3>1. 0 \in 0 .. MaxArrive /\ unread' \in Seq(Packets)
      BY <1>2, Bounds DEF lgy98_reset
    <3> QED BY <1>2, <3>1, Bounds DEF lgy98_reset, ReceivingType
  <2> QED BY <2>1, <2>2
<1>3. CASE lgy98_bind
  BY <1>3 DEF lgy98_bind, sending, receiving, SendingType, ReceivingType,
              ControlType, Holding, Numbered
<1>4. CASE Send
  BY <1>4 DEF Send, sending, receiving, control, SendingType, ReceivingType,
              ControlType, Holding, Numbered
<1>5. CASE Copy
  <2>1. sent' \in 0 .. MaxSend
    BY <1>5, Bounds DEF Copy, SendingType, Numbered
  <2>2. sent + 1 \in 0 .. MaxSend /\ writepos \in Slot
    BY <1>5, <2>1 DEF Copy, SendingType
  <2>3. SendingType'
    BY <1>5, <2>1, <2>2 DEF Copy, SendingType
  <2>4. ReceivingType' /\ ControlType' /\ Holding' /\ Numbered'
    BY <1>5 DEF Copy, receiving, control, ReceivingType, ControlType, Holding,
                Numbered
  <2> QED BY <2>3, <2>4
<1>6. CASE Advance
  <2>1. writepos' \in Slot
    BY <1>6, After, NetworkAssumption DEF Advance, SendingType, Slot
  <2> QED BY <1>6, <2>1 DEF Advance, receiving, control, SendingType,
             ReceivingType, ControlType, Holding, Numbered
<1>7. CASE DriverStart
  <2>1. SendingType' /\ ControlType' /\ Holding' /\ Numbered'
    BY <1>7 DEF DriverStart, sending, control, SendingType, ControlType,
                Holding, Numbered
  <2>2. 0 \in Page /\ 1 \in Page
    BY Bounds
  <2>3. clean' \in BOOLEAN
    BY <1>7 DEF DriverStart
  <2> QED BY <1>7, <2>1, <2>2, <2>3 DEF DriverStart, ReceivingType
<1>8. CASE DriverReads
  <2>1. Following(boundary, 1) \in Page
    BY FollowingInPage, NetworkAssumption DEF ReceivingType
  <2> QED BY <1>8, <2>1 DEF DriverReads, sending, control, SendingType,
             ReceivingType, ControlType, Holding, Numbered
<1>9. CASE DriverFrees
  <2>1. boundary' \in Page
    BY <1>9, FollowingInPage, NetworkAssumption DEF DriverFrees, ReceivingType
  <2>2. unread' \in Seq(Packets)
    BY <1>9 DEF DriverFrees, ReceivingType
  <2> QED BY <1>9, <2>1, <2>2 DEF DriverFrees, sending, control, SendingType,
             ReceivingType, ControlType, Holding, Numbered
<1>10. CASE np2net_shutdown
  BY <1>10 DEF np2net_shutdown, sending, receiving, SendingType, ReceivingType,
               ControlType, Holding, Numbered
<1> QED BY <1>1, <1>2, <1>3, <1>4, <1>5, <1>6, <1>7, <1>8, <1>9, <1>10
        DEF Emulator

LEMMA TypesWriter ==
  ASSUME Types, NEW t \in Threads, Writer(t)
  PROVE  Types'
<1> USE DEF Types
<1>1. PICK from, to \in {"test", "look", "write", "load", "store", "asleep",
                         "done"} : WriterStep(t, from, to)
  BY DEF Writer, WriterTest, WriterWakes, WriterLook, doWriteTap, WriterLoad,
         WriterStore
<1>2. ReceivingType' /\ ControlType' /\ Holding' /\ Numbered'
  BY <1>1 DEF WriterStep, receiving, control, ReceivingType, ControlType,
              Holding, Numbered
<1>3. /\ readpos' \in Slot /\ wire' \in Seq(0 .. MaxSend)
      /\ wpos' \in [Threads -> Slot]
  <2>1. CASE doWriteTap(t)
    BY <2>1 DEF doWriteTap, SendingType
  <2>2. CASE WriterLoad(t)
    BY <2>2 DEF WriterLoad, SendingType
  <2>3. CASE WriterStore(t)
    BY SMTT(30), <2>3, After, NetworkAssumption DEF WriterStore, SendingType, Slot
  <2>4. CASE WriterTest(t) \/ WriterWakes(t) \/ WriterLook(t)
    BY <2>4 DEF WriterTest, WriterWakes, WriterLook, SendingType
  <2> QED BY <2>1, <2>2, <2>3, <2>4 DEF Writer
<1>4. SendingType'
  BY <1>1, <1>3 DEF WriterStep, SendingType
<1> QED BY <1>2, <1>4

LEMMA TypesReader ==
  ASSUME Types, NEW t \in Threads, Reader(t)
  PROVE  Types'
<1> USE DEF Types
<1>1. PICK from, to \in {"test", "read", "place", "store", "publish", "done"} :
        ReaderStep(t, from, to)
  BY DEF Reader, ReaderTest, Arrive, Ignored, Place, Store, Publish
<1>2. SendingType' /\ ControlType' /\ Numbered'
  BY <1>1 DEF ReaderStep, sending, control, SendingType, ControlType, Numbered
<1>3. CASE ReaderTest(t) \/ Ignored(t)
  BY <1>2, <1>3 DEF ReaderTest, Ignored, ReaderStep, ReceivingType, Holding
<1>4. CASE \E n \in 1 .. MaxPacket : Arrive(t, n)
  <2>1. PICK n \in 1 .. MaxPacket : Arrive(t, n)
    BY <1>4
  <2>2. arrived' \in 0 .. MaxArrive /\ arrived + 1 \in 1 .. MaxArrive
    BY <2>1, NetworkAssumption DEF Arrive, ReceivingType
  <2>3. [packet |-> arrived + 1, first |-> 0, size |-> n] \in Packets
    <3>1. n \in 1 .. Pages
      BY <2>1, NetworkAssumption DEF Arrive, Giant
    <3> QED BY <2>2, <3>1, Bounds DEF Packets
  <2>4. clean' \in BOOLEAN
    BY <2>1 DEF Arrive
  <2> QED BY <1>2, <2>1, <2>2, <2>3, <2>4 DEF Arrive, ReaderStep,
             ReceivingType, Holding
<1>7. CASE Place(t)
  <2>1. taking[t] \in Packets
    BY <1>7 DEF Place, ReaderStep, Holding
  <2>2. [taking[t] EXCEPT !.first = curpag] \in Packets
    BY <2>1 DEF Packets, ReceivingType
  <2> QED BY <1>2, <1>7, <2>2 DEF Place, ReaderStep, ReceivingType, Holding
<1>5. CASE Store(t)
  <2>1. taking[t] \in Packets
    BY <1>5 DEF Store, ReaderStep, Holding
  <2>2. Header(taking[t]) \in [packet : 0 .. MaxArrive, next : Page]
    <3>1. taking[t].first \in Page /\ taking[t].size \in 0 .. Pages
      BY <2>1, NetworkAssumption DEF Packets
    <3>2. taking[t].packet \in 0 .. MaxArrive
      BY <2>1, NetworkAssumption DEF Packets
    <3> QED BY <3>1, <3>2, FollowingInPage DEF Header
  <2>3. mem' \in [Page -> [packet : 0 .. MaxArrive, next : Page]]
    BY <1>5, <2>2 DEF Store, ReceivingType
  <2> QED BY <1>2, <1>5, <2>1, <2>3 DEF Store, ReaderStep, ReceivingType,
             Holding
<1>6. CASE Publish(t)
  <2>1. taking[t] \in Packets
    BY <1>6 DEF Publish, ReaderStep, Holding
  <2>2. curpag' \in Page
    <3>1. taking[t].first \in Page /\ taking[t].size \in 0 .. Pages
      BY <2>1, NetworkAssumption DEF Packets
    <3> QED BY <1>6, <3>1, FollowingInPage DEF Publish
  <2>3. unread' \in Seq(Packets)
    BY <1>6, <2>1 DEF Publish, ReceivingType
  <2>4. clean' \in BOOLEAN
    BY <1>6 DEF Publish, ReceivingType
  <2> QED BY <1>2, <1>6, <2>2, <2>3, <2>4 DEF Publish, ReaderStep,
             ReceivingType, Holding
<1> QED BY <1>3, <1>4, <1>5, <1>6, <1>7 DEF Reader

LEMMA TypesNext == Types /\ [Next]_vars => Types'
<1> SUFFICES ASSUME Types, [Next]_vars PROVE Types'
  OBVIOUS
<1>1. CASE Emulator
  BY <1>1, TypesEmulator
<1>2. CASE \E t \in Threads : Writer(t) \/ Reader(t)
  BY <1>2, TypesWriter, TypesReader
<1>3. CASE UNCHANGED vars
  BY <1>3 DEF vars, sending, receiving, control, Types, SendingType,
              ReceivingType, ControlType, Holding, Numbered
<1> QED BY <1>1, <1>2, <1>3 DEF Next

(* Every variable keeps its range, with any number of threads that write    *)
(* into the rings without a lock: no position ever leaves them.             *)
THEOREM TypeCorrect == Spec => []TypeOK
<1>1. Types => TypeOK
  BY DEF Types, SendingType, ReceivingType, ControlType, TypeOK
<1> QED BY <1>1, TypesInit, TypesNext, PTL DEF Spec
-----------------------------------------------------------------------------
(* The ring of the packets that are sent                                    *)

(* How many slots follow the position p up to q                             *)
Dist(p, q) == IF q >= p THEN q - p ELSE q - p + Slots

Written == \E t \in Threads : wpc[t] \in {"load", "store"}
Consumed == IF Written THEN Len(wire) - 1 ELSE Len(wire)
Produced == IF epc = "advance" THEN sent - 1 ELSE sent

(* Only a writer of a device that was opened runs.                          *)
Running == \A t \in Threads : t > opened => wpc[t] = "none" /\ rpc[t] = "none"

(* The ring holds what was produced and not yet consumed, in order.         *)
Count == Produced = Consumed + Dist(readpos, writepos)

Contents ==
  \A s \in Slot : Dist(readpos, s) < Dist(readpos, writepos) =>
                    membuf[s] = Consumed + Dist(readpos, s) + 1

Copied == epc = "advance" => membuf[writepos] = sent

HasRoom == epc \in {"copy", "advance"} => Dist(readpos, writepos) < Slots - 1

Busy == \A t \in Threads :
          /\ wpc[t] \in {"write", "load", "store"} => readpos # writepos
          /\ wpc[t] = "store" => wpos[t] = readpos

WireInOrder == \A i \in 1 .. Len(wire) : wire[i] = i

RingInv == Count /\ Contents /\ Copied /\ HasRoom /\ Busy /\ WireInOrder

IInv == Types /\ Running /\ (opened <= 1 => RingInv)

LEMMA RunningInit == Init => Running
BY DEF Init, Running

LEMMA RunningNext == Types /\ Running /\ [Next]_vars => Running'
<1> SUFFICES ASSUME Types, Running, [Next]_vars PROVE Running'
  OBVIOUS
<1> USE DEF Types, Running
<1>1. CASE np2net_reset
  <2>1. opened \in Nat
    BY Bounds DEF ControlType
  <2>2. CASE UNCHANGED <<opened, wpc, rpc>>
    BY <2>2
  <2>3. CASE /\ opened' = opened + 1
             /\ wpc' = [wpc EXCEPT ![opened + 1] = "test"]
             /\ rpc' = [rpc EXCEPT ![opened + 1] = "test"]
    BY <2>1, <2>3 DEF SendingType, ReceivingType, Threads
  <2> QED BY <1>1, <2>2, <2>3 DEF np2net_reset
<1>2. CASE Emulator /\ ~np2net_reset
  <2>1. UNCHANGED <<wpc, rpc, opened>>
    BY <1>2 DEF Emulator, lgy98_reset, lgy98_bind, Send, Copy, Advance,
                DriverStart, DriverReads, DriverFrees, np2net_shutdown, sending,
                receiving, control
  <2> QED BY <2>1
<1>3. ASSUME NEW t \in Threads, Writer(t)
      PROVE  Running'
  <2>1. PICK from, to \in {"test", "look", "write", "load", "store", "asleep",
                           "done"} : WriterStep(t, from, to)
    BY <1>3 DEF Writer, WriterTest, WriterWakes, WriterLook, doWriteTap,
                WriterLoad, WriterStore
  <2> QED BY <2>1 DEF WriterStep, receiving, control, SendingType
<1>4. ASSUME NEW t \in Threads, Reader(t)
      PROVE  Running'
  <2>1. PICK from, to \in {"test", "read", "place", "store", "publish", "done"} :
          ReaderStep(t, from, to)
    BY <1>4 DEF Reader, ReaderTest, Arrive, Ignored, Place, Store, Publish
  <2> QED BY <2>1 DEF ReaderStep, sending, control, ReceivingType
<1>5. CASE UNCHANGED vars
  BY <1>5 DEF vars, sending, receiving, control
<1> QED BY <1>1, <1>2, <1>3, <1>4, <1>5 DEF Next

(* A device that was opened once has one writer.                            *)
LEMMA OneWriter ==
  ASSUME Types, Running, opened <= 1, NEW t \in Threads, wpc[t] # "none",
         NEW u \in Threads, u # t
  PROVE  wpc[u] = "none"
BY DEF Types, ControlType, Running, Threads

LEMMA OneReader ==
  ASSUME Types, Running, opened <= 1, NEW t \in Threads, rpc[t] # "none",
         NEW u \in Threads, u # t
  PROVE  rpc[u] = "none"
BY DEF Types, ControlType, Running, Threads

LEMMA RingInit == Init => RingInv
<1> SUFFICES ASSUME Init PROVE RingInv
  OBVIOUS
<1>1. Dist(readpos, writepos) = 0 /\ ~Written /\ Len(wire) = 0
  BY DEF Init, Dist, Written
<1>2. Count
  BY <1>1 DEF Init, Count, Produced, Consumed
<1>3. Contents
  BY <1>1, NetworkAssumption DEF Init, Contents, Dist, Slot
<1> QED BY <1>1, <1>2, <1>3 DEF Init, RingInv, Copied, HasRoom, Busy, WireInOrder

(* What changes no variable of the ring but the step of the emulator.       *)
LEMMA RingKept ==
  ASSUME RingInv,
         UNCHANGED <<readpos, writepos, membuf, sent, wire, wpc, wpos>>,
         (epc = "advance") = (epc' = "advance"),
         epc' \in {"copy", "advance"} => Dist(readpos, writepos) < Slots - 1
  PROVE  RingInv'
<1>1. /\ Dist(readpos, writepos)' = Dist(readpos, writepos)
      /\ Written' = Written /\ Consumed' = Consumed /\ Produced' = Produced
  BY DEF Dist, Written, Consumed, Produced
<1>2. Count' /\ HasRoom' /\ Copied' /\ Busy' /\ WireInOrder'
  BY <1>1 DEF RingInv, Count, HasRoom, Copied, Busy, WireInOrder
<1>3. Contents'
  BY <1>1 DEF RingInv, Contents, Dist
<1> QED BY <1>2, <1>3 DEF RingInv

LEMMA RingEmulator ==
  ASSUME Types, Running, RingInv, opened <= 1, Emulator, opened' <= 1
  PROVE  RingInv'
<1> USE DEF Types
<1>0. readpos \in 0 .. Slots - 1 /\ writepos \in 0 .. Slots - 1
      /\ sent \in Nat /\ Slots \in Nat /\ Slots > 1 /\ Len(wire) \in Nat
  BY NetworkAssumption DEF SendingType, Slot
<1>1. CASE np2net_reset
  <2>1. CASE UNCHANGED wpc
    <3>1. UNCHANGED <<readpos, writepos, membuf, sent, wire, wpc, wpos>>
      BY <1>1, <2>1 DEF np2net_reset
    <3>2. epc # "advance" /\ epc' = "reset"
      BY <1>1 DEF np2net_reset
    <3> QED BY <3>1, <3>2, RingKept
  <2>2. CASE opened = 0 /\ wpc' = [wpc EXCEPT ![1] = "test"]
    <3>1. ~Written /\ ~Written'
      BY <2>2 DEF Running, Written, Threads, SendingType
    <3>2. \A t \in Threads : wpc'[t] \in {"none", "test"}
      BY <2>2 DEF Running, Threads, SendingType
    <3>3. /\ epc # "advance" /\ epc' = "reset"
          /\ UNCHANGED <<readpos, writepos, membuf, sent, wire, wpos>>
      BY <1>1 DEF np2net_reset
    <3>4. Consumed' = Consumed /\ Produced' = Produced
      BY <3>1, <3>3 DEF Consumed, Produced
    <3>5. Count' /\ Contents' /\ Copied' /\ HasRoom' /\ WireInOrder'
      BY <3>3, <3>4 DEF RingInv, Count, Contents, Copied, HasRoom, WireInOrder,
                        Dist
    <3>6. Busy'
      BY <3>2 DEF Busy
    <3> QED BY <3>5, <3>6 DEF RingInv
  <2> QED BY <1>1, <2>1, <2>2 DEF np2net_reset, ControlType
<1>2. CASE Send
  <2>1. UNCHANGED <<readpos, writepos, membuf, sent, wire, wpc, wpos>>
    BY <1>2 DEF Send, sending
  <2>2. Dist(readpos, writepos) < Slots - 1
    <3>1. (writepos + 1) % Slots = IF writepos + 1 = Slots THEN 0 ELSE writepos + 1
      BY After DEF SendingType
    <3>2. readpos # (writepos + 1) % Slots
      BY <1>2 DEF Send, Full
    <3> QED BY <1>0, <3>1, <3>2 DEF Dist
  <2>3. epc = "run" /\ epc' = "copy"
    BY <1>2 DEF Send
  <2> QED BY <2>1, <2>2, <2>3, RingKept
<1>3. CASE Copy
  <2>1. /\ UNCHANGED <<readpos, writepos, wire, wpc, wpos>>
        /\ epc = "copy" /\ epc' = "advance" /\ sent' = sent + 1
        /\ membuf' = [membuf EXCEPT ![writepos] = sent + 1]
    BY <1>3 DEF Copy
  <2>2. Written' = Written /\ Consumed' = Consumed /\ Produced' = Produced
    BY <1>0, <2>1 DEF Written, Consumed, Produced
  <2>3. Count' /\ HasRoom' /\ Busy' /\ WireInOrder'
    BY <2>1, <2>2 DEF RingInv, Count, HasRoom, Busy, WireInOrder, Dist
  <2>4. Copied'
    BY <2>1 DEF Copied, SendingType
  <2>5. Contents'
    <3> SUFFICES ASSUME NEW s \in Slot,
                        Dist(readpos, s) < Dist(readpos, writepos)
                 PROVE  membuf'[s] = Consumed + Dist(readpos, s) + 1
      BY <2>1, <2>2 DEF Contents, Dist
    <3>1. s # writepos
      BY <1>0 DEF Dist, Slot
    <3> QED BY <2>1, <3>1 DEF RingInv, Contents, SendingType
  <2> QED BY <2>3, <2>4, <2>5 DEF RingInv
<1>4. CASE Advance
  <2>1. /\ UNCHANGED <<readpos, membuf, sent, wire, wpc, wpos>>
        /\ epc = "advance" /\ epc' = "run"
        /\ writepos' = IF writepos + 1 = Slots THEN 0 ELSE writepos + 1
    BY <1>4, After DEF Advance, SendingType
  <2>2. Written' = Written /\ Consumed' = Consumed
    BY <2>1 DEF Written, Consumed
  <2>3. Produced = sent - 1 /\ Produced' = sent
    BY <2>1 DEF Produced
  <2>4. Dist(readpos, writepos)' = Dist(readpos, writepos) + 1
    <3>1. Dist(readpos, writepos) < Slots - 1
      BY <2>1 DEF RingInv, HasRoom
    <3> QED BY <1>0, <2>1, <3>1 DEF Dist
  <2>5. Consumed \in Int /\ Dist(readpos, writepos) \in Int
    BY <1>0 DEF Consumed, Dist
  <2>6. Count'
    BY <1>0, <2>2, <2>3, <2>4, <2>5 DEF RingInv, Count
  <2>7. Contents'
    <3> SUFFICES ASSUME NEW s \in Slot,
                        Dist(readpos, s) < Dist(readpos, writepos) + 1
                 PROVE  membuf[s] = Consumed + Dist(readpos, s) + 1
      BY <2>1, <2>2, <2>4 DEF Contents, Dist
    <3>1. CASE Dist(readpos, s) < Dist(readpos, writepos)
      BY <3>1 DEF RingInv, Contents
    <3>2. CASE Dist(readpos, s) = Dist(readpos, writepos)
      <4>1. s = writepos
        BY <1>0, <3>2 DEF Dist, Slot
      <4>2. membuf[writepos] = sent
        BY <2>1 DEF RingInv, Copied
      <4>3. Consumed + Dist(readpos, writepos) = sent - 1
        BY <2>3 DEF RingInv, Count
      <4> QED BY <1>0, <2>5, <3>2, <4>1, <4>2, <4>3
    <3> QED BY <1>0, <2>5, <3>1, <3>2 DEF Dist, Slot
  <2>8. Busy'
    <3>1. readpos # writepos'
      BY <1>0, <2>4, <2>5, <2>1 DEF Dist, RingInv, HasRoom
    <3> QED BY <2>1, <3>1 DEF RingInv, Busy
  <2> QED BY <2>1, <2>6, <2>7, <2>8 DEF RingInv, Copied, HasRoom, WireInOrder
<1>5. CASE \/ lgy98_reset \/ lgy98_bind \/ DriverStart \/ DriverReads
           \/ DriverFrees \/ np2net_shutdown
  <2>1. UNCHANGED <<readpos, writepos, membuf, sent, wire, wpc, wpos>>
    BY <1>5 DEF lgy98_reset, lgy98_bind, DriverStart, DriverReads, DriverFrees,
                np2net_shutdown, sending
  <2>2. epc # "advance" /\ epc' \notin {"copy", "advance"}
    BY <1>5 DEF lgy98_reset, lgy98_bind, DriverStart, DriverReads, DriverFrees,
                np2net_shutdown
  <2> QED BY <2>1, <2>2, RingKept
<1> QED BY <1>1, <1>2, <1>3, <1>4, <1>5 DEF Emulator

LEMMA RingReader ==
  ASSUME RingInv, NEW t \in Threads, Reader(t)
  PROVE  RingInv'
<1>1. UNCHANGED <<readpos, writepos, membuf, sent, wire, wpc, wpos, epc>>
  BY DEF Reader, ReaderTest, Arrive, Ignored, Place, Store, Publish, ReaderStep, sending
<1>2. epc' \in {"copy", "advance"} => Dist(readpos, writepos) < Slots - 1
  BY <1>1 DEF RingInv, HasRoom
<1> QED BY <1>1, <1>2, RingKept

LEMMA RingWriter ==
  ASSUME Types, Running, RingInv, opened <= 1, NEW t \in Threads, Writer(t)
  PROVE  RingInv'
<1> USE DEF Types
<1>0. readpos \in 0 .. Slots - 1 /\ writepos \in 0 .. Slots - 1
      /\ sent \in Nat /\ Slots \in Nat /\ Slots > 1 /\ Len(wire) \in Nat
  BY NetworkAssumption DEF SendingType, Slot
<1>1. /\ UNCHANGED <<writepos, membuf, sent, epc>>
      /\ \A u \in Threads : u # t => wpc[u] = "none" /\ wpc'[u] = "none"
  <2>1. PICK from, to \in {"test", "look", "write", "load", "store", "asleep",
                           "done"} : WriterStep(t, from, to)
    BY DEF Writer, WriterTest, WriterWakes, WriterLook, doWriteTap, WriterLoad,
           WriterStore
  <2>2. \A u \in Threads : u # t => wpc[u] = "none"
    BY <2>1, OneWriter DEF WriterStep
  <2> QED BY <2>1, <2>2 DEF WriterStep, SendingType
<1>2. Produced' = Produced
  BY <1>1 DEF Produced
<1>3. CASE WriterTest(t) \/ WriterWakes(t) \/ WriterLook(t)
  <2>1. /\ UNCHANGED <<readpos, wire, wpos>>
        /\ wpc[t] \in {"test", "asleep", "look"}
        /\ wpc'[t] \in {"test", "asleep", "look", "done", "write"}
        /\ wpc'[t] = "write" => readpos # writepos
    BY <1>3 DEF WriterTest, WriterWakes, WriterLook, WriterStep, SendingType
  <2>2. ~Written /\ ~Written'
    BY <1>1, <2>1 DEF Written
  <2>3. Consumed' = Consumed
    BY <2>1, <2>2 DEF Consumed
  <2>4. Count' /\ Contents' /\ Copied' /\ HasRoom' /\ WireInOrder'
    BY <1>1, <1>2, <2>1, <2>3 DEF RingInv, Count, Contents, Copied, HasRoom,
                                  WireInOrder, Dist
  <2>5. Busy'
    BY <1>1, <2>1 DEF Busy
  <2> QED BY <2>4, <2>5 DEF RingInv
<1>4. CASE doWriteTap(t)
  <2>1. /\ UNCHANGED <<readpos, wpos>>
        /\ wpc[t] = "write" /\ wpc'[t] = "load"
        /\ wire' = Append(wire, membuf[readpos])
    BY <1>4 DEF doWriteTap, WriterStep, SendingType
  <2>2. ~Written /\ Written'
    BY <1>1, <2>1 DEF Written
  <2>3. Consumed = Len(wire) /\ Consumed' = Consumed
    BY <1>0, <2>1, <2>2 DEF Consumed, SendingType
  <2>4. readpos # writepos
    BY <2>1 DEF RingInv, Busy
  <2>5. membuf[readpos] = Len(wire) + 1
    <3>1. Dist(readpos, readpos) = 0 /\ 0 < Dist(readpos, writepos)
      BY <1>0, <2>4 DEF Dist
    <3> QED BY <1>0, <2>3, <3>1 DEF RingInv, Contents, SendingType
  <2>6. WireInOrder'
    BY <1>0, <2>1, <2>5 DEF RingInv, WireInOrder, SendingType
  <2>7. Count' /\ Contents' /\ Copied' /\ HasRoom'
    BY <1>1, <1>2, <2>1, <2>3 DEF RingInv, Count, Contents, Copied, HasRoom, Dist
  <2>8. Busy'
    BY <1>1, <2>1, <2>4 DEF Busy
  <2> QED BY <2>6, <2>7, <2>8 DEF RingInv
<1>5. CASE WriterLoad(t)
  <2>1. /\ UNCHANGED <<readpos, wire>>
        /\ wpc[t] = "load" /\ wpc'[t] = "store" /\ wpos'[t] = readpos
    BY <1>5 DEF WriterLoad, WriterStep, SendingType
  <2>2. Written /\ Written'
    BY <2>1 DEF Written
  <2>3. Consumed' = Consumed
    BY <2>1, <2>2 DEF Consumed
  <2>4. Count' /\ Contents' /\ Copied' /\ HasRoom' /\ WireInOrder'
    BY <1>1, <1>2, <2>1, <2>3 DEF RingInv, Count, Contents, Copied, HasRoom,
                                  WireInOrder, Dist
  <2>5. Busy'
    BY <1>1, <2>1 DEF RingInv, Busy
  <2> QED BY <2>4, <2>5 DEF RingInv
<1>6. CASE WriterStore(t)
  <2>1. wpc[t] = "store" /\ wpc'[t] = "test" /\ UNCHANGED <<wire, wpos>>
    BY <1>6 DEF WriterStore, WriterStep, SendingType
  <2>2. readpos' = IF readpos + 1 = Slots THEN 0 ELSE readpos + 1
    BY <1>6, <2>1, After DEF WriterStore, RingInv, Busy, SendingType
  <2>3. readpos # writepos
    BY <2>1 DEF RingInv, Busy
  <2>4. Written /\ ~Written'
    BY <1>1, <2>1 DEF Written
  <2>5. Consumed = Len(wire) - 1 /\ Consumed' = Len(wire)
    BY <2>1, <2>4 DEF Consumed
  <2>6. Dist(readpos, writepos)' = Dist(readpos, writepos) - 1
    BY <1>0, <1>1, <2>2, <2>3 DEF Dist
  <2>7. Dist(readpos, writepos) \in Int
    BY <1>0 DEF Dist
  <2>8. Count'
    BY <1>0, <1>2, <2>5, <2>6, <2>7 DEF RingInv, Count
  <2>9. Contents'
    <3> SUFFICES ASSUME NEW s \in Slot,
                        Dist(readpos', s) < Dist(readpos, writepos) - 1
                 PROVE  membuf[s] = Len(wire) + Dist(readpos', s) + 1
      BY <1>1, <2>5, <2>6 DEF Contents, Dist
    <3>1. Dist(readpos, s) = Dist(readpos', s) + 1
      BY <1>0, <2>2, <2>3 DEF Dist, Slot
    <3>2. Dist(readpos', s) \in Int
      BY <1>0, <2>2 DEF Dist, Slot
    <3>3. membuf[s] = Consumed + Dist(readpos, s) + 1
      BY <2>7, <3>1, <3>2 DEF RingInv, Contents
    <3> QED BY <1>0, <2>5, <3>1, <3>2, <3>3
  <2>10. HasRoom'
    BY <1>0, <1>1, <2>6, <2>7 DEF RingInv, HasRoom
  <2>11. Busy'
    BY <1>1, <2>1 DEF Busy
  <2> QED BY <1>1, <2>1, <2>8, <2>9, <2>10, <2>11 DEF RingInv, Copied, WireInOrder
<1> QED BY <1>3, <1>4, <1>5, <1>6 DEF Writer

LEMMA InvInit == Init => IInv
BY TypesInit, RunningInit, RingInit DEF IInv

LEMMA InvNext == IInv /\ [Next]_vars => IInv'
<1> SUFFICES ASSUME IInv, [Next]_vars, opened' <= 1 PROVE RingInv'
  BY TypesNext, RunningNext DEF IInv
<1>1. opened <= 1 /\ RingInv
  <2>1. opened' = opened \/ opened' = opened + 1
    BY DEF Next, vars, Emulator, np2net_reset, lgy98_reset, lgy98_bind, Send,
           Copy, Advance, DriverStart, DriverReads, DriverFrees,
           np2net_shutdown, control, Writer, WriterTest, WriterWakes,
           WriterLook, doWriteTap, WriterLoad, WriterStore, WriterStep, Reader,
           ReaderTest, Arrive, Ignored, Place, Store, Publish, ReaderStep
  <2>2. opened <= 1
    BY <2>1 DEF IInv, Types, ControlType
  <2> QED BY <2>2 DEF IInv
<1>2. CASE Emulator
  BY <1>1, <1>2, RingEmulator DEF IInv
<1>3. CASE \E t \in Threads : Writer(t) \/ Reader(t)
  BY <1>1, <1>3, RingWriter, RingReader DEF IInv
<1>4. CASE UNCHANGED vars
  <2>1. UNCHANGED <<readpos, writepos, membuf, sent, wire, wpc, wpos, epc>>
    BY <1>4 DEF vars, sending
  <2>2. epc' \in {"copy", "advance"} => Dist(readpos, writepos) < Slots - 1
    BY <1>1, <2>1 DEF RingInv, HasRoom
  <2> QED BY <1>1, <2>1, <2>2, RingKept
<1> QED BY <1>2, <1>3, <1>4 DEF Next

(* With a device opened once, whatever the length of the ring and the order *)
(* in which the two sides run, every packet that the ring took is written   *)
(* once and in the order of the sending.                                    *)
THEOREM SentInOrder == Spec => []InOrder
<1>1. IInv => InOrder
  BY DEF IInv, RingInv, WireInOrder, InOrder
<1> QED BY <1>1, InvInit, InvNext, PTL DEF Spec
-----------------------------------------------------------------------------
(* The page ring                                                            *)

(* How many pages follow the one after the boundary up to p                 *)
Ahead(b, p) == IF p > b THEN p - b - 1 ELSE p - b - 1 + Pages

Busying == {t \in Threads : rpc[t] \in {"place", "store", "publish"}}
Last == unread[Len(unread)]

(* The packets that were not read lie one after the other, from the page    *)
(* after the boundary up to the one where the next packet goes.             *)
Chained ==
  /\ unread = <<>> => curpag = Following(boundary, 1)
  /\ unread # <<>> => /\ unread[1].first = Following(boundary, 1)
                      /\ curpag = Following(Last.first, Last.size)
  /\ \A i \in 1 .. Len(unread) - 1 :
       unread[i + 1].first = Following(unread[i].first, unread[i].size)

Ordered ==
  \A i \in 1 .. Len(unread) :
    /\ Ahead(boundary, unread[i].first) + unread[i].size
         <= Ahead(boundary, curpag)
    /\ \A j \in i + 1 .. Len(unread) :
         Ahead(boundary, unread[i].first) + unread[i].size
           <= Ahead(boundary, unread[j].first)

Kept(k) == \A p \in Taken(k.first, k.size) : mem[p] = Header(k)

DriverKnows ==
  epc = "read" => /\ unread # <<>>
                  /\ dnext = Following(unread[1].first, unread[1].size)

ReaderFits ==
  \A t \in Busying :
    /\ Ahead(boundary, curpag) + taking[t].size <= Pages - 1
    /\ rpc[t] # "place" => taking[t].first = curpag
    /\ rpc[t] = "publish" => Kept(taking[t])

PageInv ==
  /\ Chained /\ Ordered /\ DriverKnows /\ ReaderFits
  /\ \A i \in 1 .. Len(unread) : Kept(unread[i])

PInv == Types /\ Running /\ (opened <= 1 /\ clean => PageInv)

LEMMA Numbers ==
  /\ Pages \in Nat /\ MaxFrame \in Nat /\ MaxFrame > 0 /\ Pages > MaxFrame + 1
BY NetworkAssumption

LEMMA AheadType ==
  ASSUME NEW b \in Page, NEW p \in Page
  PROVE  Ahead(b, p) \in 0 .. Pages - 1
BY Numbers DEF Ahead, Page

LEMMA AheadNext ==
  ASSUME NEW b \in Page
  PROVE  Following(b, 1) \in Page /\ Ahead(b, Following(b, 1)) = 0
BY Numbers DEF Ahead, Page, Following

LEMMA AheadFollowing ==
  ASSUME NEW b \in Page, NEW p \in Page, NEW n \in Nat,
         Ahead(b, p) + n <= Pages - 1
  PROVE  Following(p, n) \in Page /\ Ahead(b, Following(p, n)) = Ahead(b, p) + n
BY Numbers DEF Ahead, Page, Following

LEMMA AheadSame ==
  ASSUME NEW b \in Page, NEW p \in Page, NEW q \in Page,
         Ahead(b, p) = Ahead(b, q)
  PROVE  p = q
BY Numbers DEF Ahead, Page

LEMMA AheadTaken ==
  ASSUME NEW b \in Page, NEW f \in Page, NEW n \in Nat,
         Ahead(b, f) + n <= Pages - 1, NEW p \in Taken(f, n)
  PROVE  p \in Page /\ Ahead(b, f) <= Ahead(b, p) /\ Ahead(b, p) < Ahead(b, f) + n
<1>1. PICK i \in 0 .. n - 1 : p = Following(f, i)
  BY DEF Taken
<1>2. Ahead(b, f) + i <= Pages - 1 /\ i \in Nat
  BY AheadType, Numbers
<1> QED BY <1>1, <1>2, AheadFollowing, AheadType, Numbers

(* The boundary moves to the page before d.                                 *)
LEMMA AheadShift ==
  ASSUME NEW b \in Page, NEW d \in Page, NEW p \in Page,
         Ahead(b, p) >= Ahead(b, d)
  PROVE  /\ Following(d, Pages - 1) \in Page
         /\ Following(Following(d, Pages - 1), 1) = d
         /\ Ahead(Following(d, Pages - 1), p) = Ahead(b, p) - Ahead(b, d)
BY Numbers DEF Ahead, Page, Following

LEMMA PacketType ==
  ASSUME NEW k \in Packets
  PROVE  k.first \in Page /\ k.size \in Nat /\ k.size >= 1
BY Numbers DEF Packets

LEMMA UnreadType ==
  ASSUME Types
  PROVE  /\ Len(unread) \in Nat /\ boundary \in Page /\ curpag \in Page
         /\ \A i \in 1 .. Len(unread) : unread[i] \in Packets
BY DEF Types, ReceivingType

(* What leaves the receiving side alone.                                    *)
LEMMA PageKept ==
  ASSUME PageInv,
         UNCHANGED <<curpag, boundary, mem, unread, dnext, taking>>,
         Busying' \subseteq Busying,
         \A t \in Busying' : rpc'[t] = rpc[t],
         epc' = "read" => epc = "read"
  PROVE  PageInv'
<1>1. Chained' /\ Ordered'
  BY DEF PageInv, Chained, Ordered, Last
<1>2. DriverKnows'
  BY DEF PageInv, DriverKnows
<1>3. ReaderFits'
  <2> SUFFICES ASSUME NEW t \in Busying'
               PROVE  /\ Ahead(boundary, curpag) + taking[t].size <= Pages - 1
                      /\ rpc'[t] # "place" => taking[t].first = curpag
                      /\ rpc'[t] = "publish" => Kept(taking[t])
    BY DEF ReaderFits, Kept
  <2> QED BY DEF PageInv, ReaderFits
<1>4. \A i \in 1 .. Len(unread') : Kept(unread[i])'
  BY DEF PageInv, Kept
<1> QED BY <1>1, <1>2, <1>3, <1>4 DEF PageInv

LEMMA PageDriverStart ==
  ASSUME Types, DriverStart, clean'
  PROVE  PageInv'
<1>1. /\ unread' = <<>> /\ boundary' = 0 /\ curpag' = 1 /\ epc' = "run"
      /\ \A t \in Threads : rpc'[t] \notin {"place", "store", "publish"}
  BY DEF DriverStart
<1>2. Following(0, 1) = 1
  BY Numbers DEF Following
<1>3. Busying' = {}
  BY <1>1 DEF Busying
<1>4. Chained' /\ Ordered'
  BY <1>1, <1>2 DEF Chained, Ordered
<1>5. DriverKnows' /\ ReaderFits'
  BY <1>1, <1>3 DEF DriverKnows, ReaderFits
<1> QED BY <1>1, <1>4, <1>5 DEF PageInv

LEMMA PageDriverReads ==
  ASSUME Types, PageInv, DriverReads
  PROVE  PageInv'
<1>1. /\ UNCHANGED <<curpag, boundary, mem, unread, taking, rpc>>
      /\ Following(boundary, 1) # curpag
      /\ dnext' = mem[Following(boundary, 1)].next
  BY DEF DriverReads
<1>2. Chained' /\ Ordered'
  BY <1>1 DEF PageInv, Chained, Ordered, Last
<1>3. ReaderFits'
  BY <1>1 DEF PageInv, ReaderFits, Busying, Kept
<1>4. \A i \in 1 .. Len(unread') : Kept(unread[i])'
  BY <1>1 DEF PageInv, Kept
<1>5. unread # <<>>
  BY <1>1 DEF PageInv, Chained
<1>6. 1 \in 1 .. Len(unread) /\ unread[1] \in Packets
  BY <1>5, UnreadType DEF Types, ReceivingType
<1>7. dnext' = Following(unread[1].first, unread[1].size)
  <2>1. Following(unread[1].first, 0) = unread[1].first
    BY <1>6, PacketType, Numbers DEF Following, Page
  <2>2. unread[1].first \in Taken(unread[1].first, unread[1].size)
    BY <1>6, <2>1, PacketType DEF Taken
  <2>3. mem[unread[1].first] = Header(unread[1])
    BY <1>6, <2>2 DEF PageInv, Kept
  <2> QED BY <1>1, <1>5, <2>3 DEF PageInv, Chained, Header
<1>8. DriverKnows'
  BY <1>1, <1>5, <1>7 DEF DriverKnows
<1> QED BY <1>2, <1>3, <1>4, <1>8 DEF PageInv

LEMMA PageDriverFrees ==
  ASSUME Types, PageInv, DriverFrees
  PROVE  PageInv'
<1> DEFINE size == unread[1].size
<1>1. /\ UNCHANGED <<curpag, mem, taking, rpc>>
      /\ epc = "read" /\ epc' = "run"
      /\ boundary' = Following(dnext, Pages - 1)
      /\ unread # <<>> /\ unread' = Tail(unread)
      /\ unread \in Seq(Packets)
  BY DEF DriverFrees, PageInv, DriverKnows, Types, ReceivingType
<1>2. /\ Len(unread) \in Nat /\ Len(unread) >= 1
      /\ Len(unread') = Len(unread) - 1
      /\ \A i \in 1 .. Len(unread') : unread'[i] = unread[i + 1]
  BY <1>1
<1>3. unread[1] \in Packets /\ 1 \in 1 .. Len(unread)
      /\ \A i \in 1 .. Len(unread) : unread[i].first \in Page
      /\ boundary \in Page /\ curpag \in Page
  BY <1>2, UnreadType, PacketType
<1>4. /\ dnext \in Page /\ Ahead(boundary, dnext) = size
      /\ dnext = Following(unread[1].first, size)
  <2>1. dnext = Following(unread[1].first, size)
    BY <1>1 DEF PageInv, DriverKnows
  <2>2. Ahead(boundary, unread[1].first) = 0
    BY <1>1, <1>3, AheadNext DEF PageInv, Chained
  <2>3. Ahead(boundary, unread[1].first) + size <= Ahead(boundary, curpag)
    BY <1>3 DEF PageInv, Ordered
  <2>4. Ahead(boundary, curpag) \in 0 .. Pages - 1 /\ size \in Nat
    BY <1>3, AheadType, PacketType
  <2>5. Ahead(boundary, unread[1].first) + size <= Pages - 1
    BY <2>2, <2>3, <2>4, Numbers
  <2>6. unread[1].first \in Page
    BY <1>3
  <2> HIDE DEF size
  <2> QED BY <1>3, <2>1, <2>2, <2>4, <2>5, <2>6, AheadFollowing
<1>5. size \in Nat /\ Ahead(boundary, unread[1].first) = 0
  BY <1>1, <1>3, AheadNext, PacketType DEF PageInv, Chained
<1> HIDE DEF size
<1>6. /\ Ahead(boundary, curpag) >= size
      /\ \A i \in 2 .. Len(unread) : Ahead(boundary, unread[i].first) >= size
  BY <1>2, <1>3, <1>5 DEF PageInv, Ordered, size
<1>7. /\ boundary' \in Page /\ Following(boundary', 1) = dnext
      /\ Ahead(boundary', curpag) = Ahead(boundary, curpag) - size
  BY <1>1, <1>3, <1>4, <1>6, AheadShift
<1>8. ASSUME NEW i \in 1 .. Len(unread')
      PROVE  Ahead(boundary', unread'[i].first)
               = Ahead(boundary, unread[i + 1].first) - size
  <2>1. i + 1 \in 2 .. Len(unread)
    BY <1>2
  <2>2. Ahead(boundary, unread[i + 1].first) >= size
    BY <1>6, <2>1
  <2>3. unread[i + 1].first \in Page
    BY <1>2, <1>3, <2>1
  <2> QED BY <1>1, <1>2, <1>3, <1>4, <2>2, <2>3, AheadShift
<1>9. Ahead(boundary, curpag) \in Int
      /\ \A i \in 1 .. Len(unread) :
           Ahead(boundary, unread[i].first) \in Int /\ unread[i].size \in Int
  BY <1>3, AheadType, UnreadType, PacketType, Numbers
<1>10. Chained'
  <2>2. CASE Len(unread) = 1
    <3>1. unread' = <<>> /\ curpag = dnext
      BY <1>1, <1>2, <1>4, <2>2 DEF PageInv, Chained, Last, size
    <3>2. Len(unread') = 0
      BY <1>2, <2>2
    <3>3. \A i \in 1 .. Len(unread') - 1 : FALSE
      BY <3>2
    <3> QED BY <1>1, <1>7, <3>1, <3>3 DEF Chained
  <2>3. CASE Len(unread) > 1
    <3>1. unread' # <<>> /\ Last' = Last
      <4>1. Len(unread') \in 1 .. Len(unread') /\ Len(unread') + 1 = Len(unread)
        BY <1>2, <2>3
      <4>2. unread'[Len(unread')] = unread[Len(unread)]
        BY <1>2, <4>1
      <4>3. unread' # <<>>
        BY <4>1
      <4> QED BY <4>2, <4>3 DEF Last
    <3>2. unread[2].first = dnext
      BY <1>2, <1>4, <2>3 DEF PageInv, Chained, size
    <3>3. unread'[1].first = Following(boundary', 1)
      BY <1>2, <1>7, <2>3, <3>2
    <3>4. curpag' = Following(Last'.first, Last'.size)
      BY <1>1, <3>1 DEF PageInv, Chained
    <3>5. \A i \in 1 .. Len(unread') - 1 :
             unread'[i + 1].first = Following(unread'[i].first, unread'[i].size)
      BY <1>2 DEF PageInv, Chained
    <3> QED BY <1>1, <3>1, <3>3, <3>4, <3>5 DEF Chained
  <2> QED BY <1>2, <2>2, <2>3
<1>11. Ordered'
  <2> SUFFICES ASSUME NEW i \in 1 .. Len(unread')
               PROVE  /\ Ahead(boundary', unread'[i].first) + unread'[i].size
                           <= Ahead(boundary', curpag)
                      /\ \A j \in i + 1 .. Len(unread') :
                           Ahead(boundary', unread'[i].first) + unread'[i].size
                             <= Ahead(boundary', unread'[j].first)
    BY <1>1 DEF Ordered
  <2>1. i + 1 \in 1 .. Len(unread) /\ unread'[i] = unread[i + 1]
    BY <1>2
  <2>2. Ahead(boundary, unread[i + 1].first) + unread[i + 1].size
          <= Ahead(boundary, curpag)
    BY <2>1 DEF PageInv, Ordered
  <2>3. Ahead(boundary', unread'[i].first) + unread'[i].size
          <= Ahead(boundary', curpag)
    BY SMTT(30), <1>5, <1>7, <1>8, <1>9, <2>1, <2>2
  <2>4. ASSUME NEW j \in i + 1 .. Len(unread')
        PROVE  Ahead(boundary', unread'[i].first) + unread'[i].size
                 <= Ahead(boundary', unread'[j].first)
    <3>1. j \in 1 .. Len(unread') /\ j + 1 \in i + 1 + 1 .. Len(unread)
          /\ j + 1 \in 1 .. Len(unread)
      BY <1>2
    <3>2. Ahead(boundary, unread[i + 1].first) + unread[i + 1].size
            <= Ahead(boundary, unread[j + 1].first)
      BY <2>1, <3>1 DEF PageInv, Ordered
    <3>3. Ahead(boundary', unread'[i].first)
            = Ahead(boundary, unread[i + 1].first) - size
      BY <1>8
    <3>4. Ahead(boundary', unread'[j].first)
            = Ahead(boundary, unread[j + 1].first) - size
      BY <1>8, <3>1
    <3>5. /\ Ahead(boundary, unread[i + 1].first) \in Int
          /\ Ahead(boundary, unread[j + 1].first) \in Int
          /\ unread[i + 1].size \in Int
      BY <1>9, <2>1, <3>1
    <3> QED BY SMTT(30), <1>5, <2>1, <3>2, <3>3, <3>4, <3>5
  <2> QED BY <2>3, <2>4
<1>12. DriverKnows'
  BY <1>1 DEF DriverKnows
<1>13. ReaderFits'
  <2> SUFFICES ASSUME NEW t \in Busying
               PROVE  Ahead(boundary', curpag) + taking[t].size <= Pages - 1
    BY <1>1 DEF PageInv, ReaderFits, Busying, Kept
  <2>1. taking[t].size \in Nat
    BY PacketType DEF Types, Holding, Busying
  <2>2. Ahead(boundary, curpag) + taking[t].size <= Pages - 1
    BY DEF PageInv, ReaderFits
  <2> QED BY <1>5, <1>7, <1>9, <2>1, <2>2, Numbers
<1>14. \A i \in 1 .. Len(unread') : Kept(unread[i])'
  <2> SUFFICES ASSUME NEW i \in 1 .. Len(unread') PROVE Kept(unread[i])'
    OBVIOUS
  <2>1. i + 1 \in 1 .. Len(unread) /\ unread'[i] = unread[i + 1]
    BY <1>2
  <2>2. Kept(unread[i + 1])
    BY <2>1 DEF PageInv
  <2> QED BY <1>1, <2>1, <2>2 DEF Kept
<1> QED BY <1>10, <1>11, <1>12, <1>13, <1>14 DEF PageInv

(* The readers                                                              *)

LEMMA BusyingAlone ==
  ASSUME Types, Running, opened <= 1, NEW t \in Threads, rpc[t] # "none",
         NEW from, NEW to, ReaderStep(t, from, to)
  PROVE  Busying' \subseteq {t} /\ Busying \subseteq {t} /\ rpc'[t] = to
<1>1. \A u \in Threads : u # t => rpc[u] = "none"
  BY OneReader
<1> QED BY <1>1 DEF Busying, ReaderStep, Types, ReceivingType

(* The test of the room has been made for this packet and this ring.        *)
LEMMA PageArrive ==
  ASSUME Types, Running, opened <= 1, PageInv, NEW t \in Threads,
         NEW n \in 1 .. MaxPacket, Arrive(t, n), clean'
  PROVE  PageInv'
<1>1. /\ UNCHANGED <<curpag, boundary, mem, unread, dnext, epc>>
      /\ rpc[t] = "read" /\ rpc'[t] = "place" /\ taking'[t].size = n
  <2>1. taking \in [Threads -> Packets \cup {Nothing}]
        /\ rpc \in [Threads -> {"none", "test", "read", "place", "store",
                                "publish", "done"}]
    BY DEF Types, ReceivingType
  <2> DEFINE k == [packet |-> arrived + 1, first |-> 0, size |-> n]
  <2>2. taking' = [taking EXCEPT ![t] = k]
    BY DEF Arrive
  <2>3. taking'[t] = k
    <3> HIDE DEF k
    <3> QED BY <2>1, <2>2
  <2>4. rpc[t] = "read" /\ rpc'[t] = "place"
    BY <2>1 DEF Arrive, ReaderStep
  <2>5. UNCHANGED <<curpag, boundary, mem, unread, dnext, epc>>
    BY DEF Arrive, ReaderStep
  <2> QED BY <2>3, <2>4, <2>5
<1>2. Busying' \subseteq {t}
  BY <1>1, BusyingAlone DEF Arrive
<1>3. Ahead(boundary, curpag) + n <= Pages - 1
  <2>1. boundary \in Page /\ curpag \in Page
    BY DEF Types, ReceivingType
  <2>2. ~ne2000_buffer_full /\ n <= MaxFrame /\ curpag # boundary
    BY DEF Arrive, Accepts
  <2>3. Available >= MaxFrame
    BY <2>1, <2>2, Numbers DEF ne2000_buffer_full, Available, Page
  <2> QED BY <2>1, <2>2, <2>3, Numbers DEF Available, Ahead, Page
<1>4. Chained' /\ Ordered' /\ DriverKnows'
  BY <1>1 DEF PageInv, Chained, Ordered, DriverKnows, Last
<1>5. ReaderFits'
  BY <1>1, <1>2, <1>3 DEF ReaderFits
<1>6. \A i \in 1 .. Len(unread') : Kept(unread[i])'
  BY <1>1 DEF PageInv, Kept
<1> QED BY <1>4, <1>5, <1>6 DEF PageInv

LEMMA PagePlace ==
  ASSUME Types, Running, opened <= 1, PageInv, NEW t \in Threads, Place(t)
  PROVE  PageInv'
<1>1. /\ UNCHANGED <<curpag, boundary, mem, unread, dnext, epc>>
      /\ rpc[t] = "place" /\ rpc'[t] = "store"
  BY DEF Place, ReaderStep, Types, ReceivingType
<1>2. Busying' \subseteq {t} /\ t \in Busying
  BY <1>1, BusyingAlone DEF Place, Busying
<1>3. taking'[t].first = curpag /\ taking'[t].size = taking[t].size
  <2>1. taking[t] \in Packets
    BY <1>1 DEF Types, Holding
  <2>2. taking'[t] = [taking[t] EXCEPT !.first = curpag]
    BY DEF Place, Types, ReceivingType
  <2> QED BY <2>1, <2>2 DEF Packets
<1>4. Ahead(boundary, curpag) + taking[t].size <= Pages - 1
  BY <1>2 DEF PageInv, ReaderFits
<1>5. Chained' /\ Ordered' /\ DriverKnows'
  BY <1>1 DEF PageInv, Chained, Ordered, DriverKnows, Last
<1>6. ReaderFits'
  BY <1>1, <1>2, <1>3, <1>4 DEF ReaderFits
<1>7. \A i \in 1 .. Len(unread') : Kept(unread[i])'
  BY <1>1 DEF PageInv, Kept
<1> QED BY <1>5, <1>6, <1>7 DEF PageInv

LEMMA PageStore ==
  ASSUME Types, Running, opened <= 1, PageInv, NEW t \in Threads, Store(t)
  PROVE  PageInv'
<1> DEFINE k == taking[t]
<1>1. /\ UNCHANGED <<curpag, boundary, taking, unread, dnext, epc>>
      /\ rpc[t] = "store"
      /\ mem' = [p \in Page |-> IF p \in Taken(k.first, k.size)
                                THEN Header(k) ELSE mem[p]]
  BY DEF Store, ReaderStep, control
<1>2. Busying' \subseteq {t} /\ t \in Busying
  BY <1>1, BusyingAlone DEF Store, Busying
<1>3. /\ k \in Packets /\ k.first = curpag
      /\ Ahead(boundary, curpag) + k.size <= Pages - 1
  BY <1>1, <1>2 DEF Types, Holding, PageInv, ReaderFits
<1>4. boundary \in Page /\ curpag \in Page /\ k.size \in Nat
  BY <1>3, PacketType, UnreadType
<1>5. \A p \in Taken(k.first, k.size) :
         p \in Page /\ Ahead(boundary, curpag) <= Ahead(boundary, p)
  BY <1>3, <1>4, AheadTaken
<1>6. Kept(k)'
  BY <1>1, <1>5 DEF Kept, Header
<1>7. ASSUME NEW i \in 1 .. Len(unread)
      PROVE  Kept(unread[i])'
  <2> DEFINE u == unread[i]
  <2>1. u \in Packets
    BY UnreadType
  <2>2. Ahead(boundary, u.first) + u.size <= Ahead(boundary, curpag)
    BY DEF PageInv, Ordered
  <2>3. u.first \in Page /\ u.size \in Nat
    BY <2>1, PacketType
  <2>4. Kept(u)
    BY DEF PageInv
  <2>5. ASSUME NEW p \in Taken(u.first, u.size)
        PROVE  p \in Page /\ p \notin Taken(k.first, k.size)
    <3> HIDE DEF u, k
    <3>1. /\ Ahead(boundary, u.first) \in Nat
          /\ Ahead(boundary, curpag) \in 0 .. Pages - 1
      BY <1>4, <2>3, AheadType, Numbers
    <3>2. Ahead(boundary, u.first) + u.size <= Pages - 1
      BY <2>2, <2>3, <3>1, Numbers
    <3>3. p \in Page /\ Ahead(boundary, p) < Ahead(boundary, u.first) + u.size
      BY <1>4, <2>3, <3>2, AheadTaken
    <3>4. Ahead(boundary, p) \in Nat
      BY <1>4, <3>3, AheadType, Numbers
    <3> QED BY <1>5, <2>2, <2>3, <3>1, <3>3, <3>4
  <2>6. u' = u
    BY <1>1
  <2> QED BY <1>1, <2>4, <2>5, <2>6 DEF Kept, Header
<1>8. Chained' /\ Ordered' /\ DriverKnows'
  BY <1>1 DEF PageInv, Chained, Ordered, DriverKnows, Last
<1>9. ReaderFits'
  BY <1>1, <1>2, <1>3, <1>6 DEF ReaderFits
<1> QED BY <1>1, <1>7, <1>8, <1>9 DEF PageInv

LEMMA PagePublish ==
  ASSUME Types, Running, opened <= 1, PageInv, NEW t \in Threads, Publish(t)
  PROVE  PageInv'
<1> DEFINE k == taking[t]
<1>1. /\ UNCHANGED <<boundary, mem, taking, dnext, epc>>
      /\ rpc[t] = "publish" /\ rpc'[t] = "test"
      /\ curpag' = Following(k.first, k.size)
      /\ unread' = Append(unread, k) /\ unread \in Seq(Packets)
  BY DEF Publish, ReaderStep, control, Types, ReceivingType
<1>2. Busying' = {} /\ t \in Busying
  BY <1>1, BusyingAlone DEF Publish, Busying
<1>3. /\ k \in Packets /\ k.first = curpag /\ Kept(k)
      /\ Ahead(boundary, curpag) + k.size <= Pages - 1
  BY <1>1, <1>2 DEF Types, Holding, PageInv, ReaderFits
<1>4. boundary \in Page /\ curpag \in Page /\ k.size \in Nat
  BY <1>3, PacketType, UnreadType
<1>5. Ahead(boundary, curpag') = Ahead(boundary, curpag) + k.size
  BY <1>1, <1>3, <1>4, AheadFollowing
<1>6. /\ Len(unread') = Len(unread) + 1 /\ Len(unread) \in Nat
      /\ unread'[Len(unread) + 1] = k
      /\ \A i \in 1 .. Len(unread) : unread'[i] = unread[i]
  BY <1>1, <1>3
<1>7. /\ Ahead(boundary, curpag) \in Int
      /\ \A i \in 1 .. Len(unread) :
           Ahead(boundary, unread[i].first) \in Int /\ unread[i].size \in Int
  BY <1>4, AheadType, UnreadType, PacketType, Numbers
<1>8. Chained'
  <2>1. unread' # <<>> /\ Last' = k
    BY <1>6 DEF Last
  <2>2. unread'[1].first = Following(boundary, 1)
    <3>1. CASE unread = <<>>
      BY <1>3, <1>6, <3>1 DEF PageInv, Chained
    <3>2. CASE unread # <<>>
      <4>1. 1 \in 1 .. Len(unread)
        BY <1>1, <1>6, <3>2
      <4> QED BY <1>6, <3>2, <4>1 DEF PageInv, Chained
    <3> QED BY <3>1, <3>2
  <2>3. ASSUME NEW i \in 1 .. Len(unread') - 1
        PROVE  unread'[i + 1].first = Following(unread'[i].first, unread'[i].size)
    <3>1. CASE i = Len(unread)
      <4>1. unread # <<>> /\ unread'[i] = Last /\ unread'[i + 1] = k
        BY <1>6, <3>1 DEF Last
      <4> QED BY <1>3, <4>1 DEF PageInv, Chained
    <3>2. CASE i # Len(unread)
      <4>1. i \in 1 .. Len(unread) - 1 /\ i \in 1 .. Len(unread)
            /\ i + 1 \in 1 .. Len(unread)
        BY <1>6, <3>2
      <4> QED BY <1>6, <4>1 DEF PageInv, Chained
    <3> QED BY <3>1, <3>2
  <2> QED BY <1>1, <2>1, <2>2, <2>3 DEF Chained
<1>9. Ordered'
  <2> SUFFICES ASSUME NEW i \in 1 .. Len(unread')
               PROVE  /\ Ahead(boundary, unread'[i].first) + unread'[i].size
                           <= Ahead(boundary, curpag')
                      /\ \A j \in i + 1 .. Len(unread') :
                           Ahead(boundary, unread'[i].first) + unread'[i].size
                             <= Ahead(boundary, unread'[j].first)
    BY <1>1 DEF Ordered
  <2>1. CASE i = Len(unread) + 1
    <3>1. unread'[i] = k /\ \A j \in i + 1 .. Len(unread') : FALSE
      BY <1>6, <2>1
    <3> QED BY <1>3, <1>4, <1>5, <1>7, <3>1
  <2>2. CASE i # Len(unread) + 1
    <3>1. i \in 1 .. Len(unread) /\ unread'[i] = unread[i]
      BY <1>6, <2>2
    <3>2. Ahead(boundary, unread[i].first) + unread[i].size
            <= Ahead(boundary, curpag)
      BY <3>1 DEF PageInv, Ordered
    <3>3. ASSUME NEW j \in i + 1 .. Len(unread')
          PROVE  Ahead(boundary, unread'[i].first) + unread'[i].size
                   <= Ahead(boundary, unread'[j].first)
      <4>1. CASE j = Len(unread) + 1
        BY <1>3, <1>6, <3>1, <3>2, <4>1
      <4>2. CASE j # Len(unread) + 1
        <5>1. j \in i + 1 .. Len(unread) /\ j \in 1 .. Len(unread)
          BY <1>6, <3>1, <4>2
        <5> QED BY <1>6, <3>1, <5>1 DEF PageInv, Ordered
      <4> QED BY <4>1, <4>2
    <3>4. Ahead(boundary, unread'[i].first) + unread'[i].size
            <= Ahead(boundary, curpag')
      BY SMTT(30), <1>4, <1>5, <1>7, <3>1, <3>2
    <3> QED BY <3>3, <3>4
  <2> QED BY <2>1, <2>2
<1>10. DriverKnows'
  <2> SUFFICES ASSUME epc = "read"
               PROVE  /\ unread' # <<>>
                      /\ dnext = Following(unread'[1].first, unread'[1].size)
    BY <1>1 DEF DriverKnows
  <2>1. 1 \in 1 .. Len(unread)
    BY <1>1, <1>6 DEF PageInv, DriverKnows
  <2> QED BY <1>6, <2>1 DEF PageInv, DriverKnows
<1>11. ReaderFits'
  BY <1>2 DEF ReaderFits
<1>12. \A i \in 1 .. Len(unread') : Kept(unread[i])'
  <2> SUFFICES ASSUME NEW i \in 1 .. Len(unread')
               PROVE  Kept(unread'[i])
    BY <1>1 DEF Kept, Header
  <2>1. CASE i = Len(unread) + 1
    BY <1>3, <1>6, <2>1
  <2>2. CASE i # Len(unread) + 1
    <3>1. i \in 1 .. Len(unread)
      BY <1>6, <2>2
    <3> QED BY <1>6, <3>1 DEF PageInv
  <2> QED BY <2>1, <2>2
<1> QED BY <1>8, <1>9, <1>10, <1>11, <1>12 DEF PageInv

LEMMA PageNext == PInv /\ [Next]_vars => PInv'
<1> SUFFICES ASSUME PInv, [Next]_vars, opened' <= 1, clean' PROVE PageInv'
  BY TypesNext, RunningNext DEF PInv
<1> USE DEF PInv
<1>1. opened <= 1
  <2>1. opened' = opened \/ opened' = opened + 1
    BY DEF Next, vars, Emulator, np2net_reset, lgy98_reset, lgy98_bind, Send,
           Copy, Advance, DriverStart, DriverReads, DriverFrees,
           np2net_shutdown, control, Writer, WriterTest, WriterWakes,
           WriterLook, doWriteTap, WriterLoad, WriterStore, WriterStep, Reader,
           ReaderTest, Arrive, Ignored, Place, Store, Publish, ReaderStep
  <2> QED BY <2>1 DEF Types, ControlType
<1>2. CASE np2net_reset
  <2>1. PageInv
    BY <1>1, <1>2 DEF np2net_reset
  <2>2. UNCHANGED <<curpag, boundary, mem, unread, dnext, taking>>
        /\ epc' = "reset"
    BY <1>2 DEF np2net_reset
  <2>3. Busying' \subseteq Busying /\ \A t \in Busying' : rpc'[t] = rpc[t]
    BY <1>2 DEF np2net_reset, Busying, Types, ReceivingType
  <2> QED BY <2>1, <2>2, <2>3, PageKept
<1>3. CASE DriverStart
  BY <1>3, PageDriverStart
<1>4. CASE DriverReads \/ DriverFrees
  BY <1>1, <1>4, PageDriverReads, PageDriverFrees DEF DriverReads, DriverFrees
<1>5. CASE lgy98_reset
  BY <1>5 DEF lgy98_reset
<1>6. CASE lgy98_bind \/ Send \/ Copy \/ Advance \/ np2net_shutdown
  <2>1. PageInv
    BY <1>1, <1>6 DEF lgy98_bind, Send, Copy, Advance, np2net_shutdown, receiving
  <2>2. UNCHANGED receiving /\ epc' # "read"
    BY <1>6 DEF lgy98_bind, Send, Copy, Advance, np2net_shutdown
  <2> QED BY <2>1, <2>2, PageKept DEF receiving, Busying
<1>7. ASSUME NEW t \in Threads, Writer(t)
      PROVE  PageInv'
  <2>1. UNCHANGED <<receiving, epc>>
    BY <1>7 DEF Writer, WriterTest, WriterWakes, WriterLook, doWriteTap,
                WriterLoad, WriterStore, WriterStep
  <2>2. PageInv
    BY <1>1, <2>1 DEF receiving
  <2> QED BY <2>1, <2>2, PageKept DEF receiving, Busying
<1>8. ASSUME NEW t \in Threads, Reader(t)
      PROVE  PageInv'
  <2>1. PageInv
    BY <1>1, <1>8 DEF Reader, ReaderTest, Arrive, Ignored, Place, Store, Publish
  <2>2. CASE ReaderTest(t) \/ Ignored(t)
    <3>1. UNCHANGED <<curpag, boundary, mem, unread, dnext, taking, epc>>
      BY <2>2 DEF ReaderTest, Ignored, ReaderStep
    <3>2. Busying' \subseteq Busying /\ \A u \in Busying' : rpc'[u] = rpc[u]
      BY <2>2 DEF ReaderTest, Ignored, ReaderStep, Busying, Types, ReceivingType
    <3> QED BY <2>1, <3>1, <3>2, PageKept
  <2> QED BY <1>1, <1>8, <2>1, <2>2, PageArrive, PagePlace, PageStore,
         PagePublish
          DEF Reader
<1>9. CASE UNCHANGED vars
  <2>1. UNCHANGED <<receiving, epc>> /\ PageInv
    BY <1>1, <1>9 DEF vars, receiving, control
  <2> QED BY <2>1, PageKept DEF receiving, Busying
<1> QED BY <1>2, <1>3, <1>4, <1>5, <1>6, <1>7, <1>8, <1>9 DEF Next, Emulator

(* With a device opened once, on a board that was started in peace, and for *)
(* any length of the ring and of the packets, nothing but a packet longer   *)
(* than ne2000_buffer_full asks room for, or one let in while the ring is   *)
(* filled to its last page, leads to the loss of a packet that was not      *)
(* read: the packets lie one after the other behind the boundary, so that   *)
(* the room of the test is room that the driver has given back.             *)
THEOREM RoomTestSuffices == Spec => []UnreadKept
<1>1. Init => PInv
  BY TypesInit, RunningInit DEF PInv, Init
<1>2. PInv => UnreadKept
  BY DEF PInv, PageInv, Kept, UnreadKept
<1> QED BY <1>1, <1>2, PageNext, PTL DEF Spec
=============================================================================
