------------------------------ MODULE DemoProofs ------------------------------
(***************************************************************************)
(* Proofs about NetDrivers, for rings of any size and any number of frames: *)
(* every received frame is handled once and in order (FramesInOrder), every *)
(* frame given for sending is sent once and in order (SentAsGiven); and      *)
(* about RtosDemos, for all periods that RtosTiming allows: every event      *)
(* arrives (EventsArrive).                                                  *)
(*                                                                         *)
(* The argument about NetDrivers counts: a descriptor or a place of the      *)
(* queue is named by how many before it have been used, and At(n) is where   *)
(* the n-th is.  The pointers of the programs and of the MAC are then at     *)
(* counts that the histories know, but for two of the receive ring, which    *)
(* Armed and FilledBy name: how many descriptors the program has armed       *)
(* again, and how many the MAC has filled.                                  *)
(*                                                                         *)
(* The argument about RtosDemos ties what a channel holds to how long the    *)
(* processor has been busy: a task that has something to take is ready, so   *)
(* the processor is not idle, and within MaxLate units few events come.      *)
(***************************************************************************)
EXTENDS NetDrivers, RtosDemos, TLAPS

Slot(n, size) == n % size
At(n) == Slot(n, RxNum)

-----------------------------------------------------------------------------
(* Places in a ring.                                                        *)

LEMMA DivMod ==
  ASSUME NEW n \in Nat, NEW size \in Nat \ {0}
  PROVE  /\ n \div size \in Nat /\ n % size \in 0 .. size - 1
         /\ n = size * (n \div size) + (n % size)
OBVIOUS

LEMMA Monotone ==
  ASSUME NEW a \in Nat, NEW b \in Nat, NEW size \in Nat, a < b
  PROVE  size * b >= size * a + size
<1>1. PICK c \in Nat : b = a + 1 + c
  <2> b - a - 1 \in Nat /\ b = a + 1 + (b - a - 1) OBVIOUS
  <2> QED OBVIOUS
<1>2. size * b = size * a + size + size * c
  BY <1>1
<1>3. size * c \in Nat
  OBVIOUS
<1>4. size * a \in Nat
  OBVIOUS
<1> QED BY <1>2, <1>3, <1>4

\* There is one quotient and one remainder.
LEMMA Unique ==
  ASSUME NEW size \in Nat \ {0}, NEW a \in Nat, NEW b \in Nat,
         NEW r \in 0 .. size - 1, NEW s \in 0 .. size - 1,
         size * a + r = size * b + s
  PROVE  a = b /\ r = s
<1>1. size * a \in Nat /\ size * b \in Nat
  OBVIOUS
<1>2. ~(a < b)
  BY Monotone, <1>1
<1>3. ~(b < a)
  BY Monotone, <1>1
<1>4. a = b
  BY <1>2, <1>3
<1>5. size * a = size * b
  BY <1>4
<1> QED BY <1>1, <1>4, <1>5

LEMMA Remainder ==
  ASSUME NEW size \in Nat \ {0}, NEW a \in Nat, NEW r \in 0 .. size - 1, NEW n \in Nat,
         n = size * a + r
  PROVE  n % size = r
<1>1. /\ n \div size \in Nat /\ n % size \in 0 .. size - 1
      /\ n = size * (n \div size) + (n % size)
  BY DivMod
<1> DEFINE b == n \div size
           s == n % size
<1>2. b \in Nat /\ s \in 0 .. size - 1 /\ size * a + r = size * b + s
  BY <1>1
<1> HIDE DEF b, s
<1>3. r = s
  BY <1>2, Unique
<1> QED BY <1>3 DEF s

LEMMA Wraps ==
  ASSUME NEW size \in Nat \ {0}, NEW n \in Nat, NEW k \in Nat
  PROVE  /\ Slot(n, size) \in 0 .. size - 1
         /\ Slot(Slot(n, size) + k, size) = Slot(n + k, size)
<1> DEFINE a == n \div size
           r == n % size
           x == r + k
           y == n + k
           b == x \div size
           s == x % size
<1>1. /\ a \in Nat /\ r \in 0 .. size - 1 /\ n = size * a + r
  BY DivMod
<1>2. x \in Nat
  BY <1>1
<1>3. /\ b \in Nat /\ s \in 0 .. size - 1 /\ x = size * b + s
  BY <1>2, DivMod
<1>4. y \in Nat /\ y = n + k /\ x = r + k /\ Slot(n, size) = r /\ Slot(x, size) = s
  BY DEF Slot
<1> HIDE DEF a, r, b, s, x, y
<1>5. size * (a + b) = size * a + size * b
  BY <1>1, <1>3
<1>6. size * a \in Nat /\ size * b \in Nat /\ a + b \in Nat
  BY <1>1, <1>3
<1>7. y = size * (a + b) + s
  BY <1>1, <1>3, <1>4, <1>5, <1>6
<1>8. y % size = s
  <2> DEFINE q == a + b
  <2>1. q \in Nat /\ y = size * q + s /\ y \in Nat /\ s \in 0 .. size - 1
    BY <1>3, <1>4, <1>6, <1>7
  <2> HIDE DEF q
  <2> QED BY <2>1, Remainder
<1> QED BY <1>1, <1>4, <1>8 DEF Slot

LEMMA Around ==
  ASSUME NEW size \in Nat \ {0}, NEW n \in Nat
  PROVE  Slot(n + size, size) = Slot(n, size)
<1> DEFINE a == n \div size
           r == n % size
           y == n + size
<1>1. /\ a \in Nat /\ r \in 0 .. size - 1 /\ n = size * a + r
  BY DivMod
<1>2. y \in Nat /\ y = n + size /\ Slot(n, size) = r /\ Slot(n + size, size) = y % size
  BY DEF Slot
<1> HIDE DEF a, r, y
<1>3. size * (a + 1) = size * a + size /\ size * a \in Nat /\ a + 1 \in Nat
  BY <1>1
<1>4. y = size * (a + 1) + r
  BY <1>1, <1>2, <1>3
<1>5. y % size = r
  BY <1>1, <1>2, <1>3, <1>4, Remainder
<1> QED BY <1>2, <1>5

LEMMA First ==
  ASSUME NEW size \in Nat \ {0}, NEW n \in 0 .. size - 1
  PROVE  Slot(n, size) = n
<1>1. size * 0 = 0
  OBVIOUS
<1> DEFINE z == 0
<1>2. z \in Nat /\ n = size * z + n /\ n \in Nat
  BY <1>1
<1> HIDE DEF z
<1> QED BY <1>2, Remainder DEF Slot

LEMMA Apart ==
  ASSUME NEW size \in Nat \ {0}, NEW m \in Nat, NEW n \in Nat, m < n, n < m + size
  PROVE  Slot(m, size) # Slot(n, size)
<1> SUFFICES ASSUME Slot(m, size) = Slot(n, size) PROVE FALSE
  OBVIOUS
<1> DEFINE a == m \div size
           b == n \div size
           r == m % size
<1>1. /\ a \in Nat /\ b \in Nat /\ r \in 0 .. size - 1
      /\ m = size * a + r /\ n = size * b + r
  BY DivMod DEF Slot
<1> HIDE DEF a, b, r
<1>2. size * a \in Nat /\ size * b \in Nat
  BY <1>1
<1>3. CASE a < b
  BY <1>1, <1>2, <1>3, Monotone
<1>4. CASE b < a
  BY <1>1, <1>2, <1>4, Monotone
<1>5. CASE a = b
  <2>1. size * a = size * b
    BY <1>5
  <2> QED BY <1>1, <1>2, <2>1
<1> QED BY <1>1, <1>3, <1>4, <1>5

-----------------------------------------------------------------------------
(* The invariants.                                                          *)

Desc == [on : BOOLEAN, frame : Nat]

RxTypes ==
  /\ rx \in [Ring -> Desc] /\ rxPointer \in Ring /\ macRx \in Ring /\ arrived \in Nat

TxTypes ==
  /\ tx \in [0 .. TxNum - 1 -> Desc] /\ given \in Nat /\ sent \in Seq(Nat)
  /\ txPointer \in 0 .. TxNum - 1 /\ macTx \in 0 .. TxNum - 1

PcTypes ==
  /\ driver = "lwip" =>
       pc \in [isr : {"idle", "scan", "phy", "stat1", "stat2", "prepare"},
               main : {"loop", "get", "input", "out"}]
  /\ driver # "lwip" =>
       pc \in [isr : {"idle", "phy", "stat1", "stat2", "clear"},
               main : {"loop", "phy", "stat1", "stat2", "rx"}]

LoopTypes ==
  /\ isr.start \in Ring /\ isr.n \in Nat
  /\ isr = [stat |-> isr.stat, start |-> isr.start, n |-> isr.n]
  /\ queue \in [front : Ring, back : Ring, size : Nat, slot : [Ring -> Ring]]
  /\ got \in [size : Nat, p : Ring]
  /\ handled \in Seq(Nat)

Types == RxTypes /\ TxTypes /\ PcTypes /\ LoopTypes

InOrder(s) == \A k \in DOMAIN s : s[k] = k

\* lwip: how many frames the main loop has taken out of the queue, and how many
\* the handler has put into it
Taken == Len(handled) + IF pc.main = "input" THEN 1 ELSE 0
Put   == Taken + queue.size

\* Where the next buffer is put into the queue and where one is taken out; the
\* places between hold the descriptors of the frames, in order.
QueueHolds ==
  /\ queue.front = At(Put) /\ queue.back = At(Taken)
  /\ \A f \in Taken .. Put - 1 : queue.slot[At(f)] = At(f)
  /\ pc.main = "get" => masked /\ pc.isr = "idle" /\ got.size = queue.size
  /\ pc.main = "input" => got.p = At(Len(handled))

\* No buffer is filled again before its frame has been handled.
BuffersHold ==
  /\ InOrder(handled)
  /\ Put <= arrived /\ arrived <= Len(handled) + RxNum
  /\ macRx = At(arrived)
  /\ \A f \in Len(handled) .. arrived - 1 : rx[At(f)].frame = f + 1

\* The descriptors that are off are those of the frames the handler has not armed
\* again after; it has put the same frames into the queue, but for the
\* ones it is just putting in or arming.
Armed(armed) ==
  /\ rxPointer = At(armed)
  /\ Taken <= armed /\ armed <= Put /\ arrived <= armed + RxNum
  /\ \A f \in armed .. arrived - 1 : ~rx[At(f)].on
  /\ \A f \in arrived .. armed + RxNum - 1 : rx[At(f)].on
  /\ pc.isr # "prepare" => Put = armed + isr.n
  /\ pc.isr = "idle" => isr.n = 0 /\ ("rx" \notin stat => Put = arrived)
  /\ pc.isr = "scan" => isr.start = At(armed)
  /\ Rearming => Put = arrived

LwipInv == QueueHolds /\ BuffersHold /\ \E armed \in 0 .. arrived : Armed(armed)

\* the USB adapter: the k-th descriptor from the one it looks at next
Kth(k) == rx[Slot(rxPointer + k, RxNum)]

\* The first n descriptors from there are filled, and the good ones among them
\* hold the frames that have not been handled, in order.
FilledBy(n) ==
  /\ macRx = Slot(rxPointer + n, RxNum)
  /\ \A k \in 0 .. RxNum - 1 : Kth(k).on <=> k >= n
  /\ \A k \in 0 .. n - 1 : Kth(k).frame = 0 \/ Kth(k).frame \in Len(handled) + 1 .. arrived
  /\ \A j, k \in 0 .. n - 1 :
       j < k /\ Kth(j).frame # 0 /\ Kth(k).frame # 0 => Kth(j).frame < Kth(k).frame
  /\ \A f \in Len(handled) + 1 .. arrived : \E k \in 0 .. n - 1 : Kth(k).frame = f

UsbInv ==
  /\ queue.size = 0
  /\ InOrder(handled) /\ Len(handled) <= arrived
  /\ \E n \in 0 .. RxNum : FilledBy(n)

\* Sending: the enabled descriptors hold the frames that are not sent.
SendInv ==
  /\ InOrder(sent) /\ Len(sent) <= given /\ given <= Len(sent) + TxNum
  /\ macTx = Slot(Len(sent), TxNum) /\ txPointer = Slot(given, TxNum)
  /\ \A f \in Len(sent) .. given - 1 : LET d == tx[Slot(f, TxNum)] IN d.on /\ d.frame = f + 1
  /\ \A f \in given .. Len(sent) + TxNum - 1 : ~tx[Slot(f, TxNum)].on

Inv ==
  /\ Types
  /\ driver = "lwip" /\ ~strained => LwipInv
  /\ driver # "lwip" => UsbInv /\ ~strained
  /\ ~strained => SendInv

-----------------------------------------------------------------------------
(* Types.                                                                   *)

LEMMA Sizes ==
  /\ RxNum \in Nat \ {0} /\ TxNum \in Nat \ {0}
  /\ \A n \in Nat : Slot(n, RxNum) \in Ring /\ Slot(n, TxNum) \in 0 .. TxNum - 1
  /\ 0 \in Ring /\ 0 \in 0 .. TxNum - 1 /\ Ring \subseteq Nat
<1>1. RxNum \in Nat \ {0} /\ TxNum \in Nat \ {0}
  BY NetAssumption DEF RxNum
<1>2. \A n \in Nat : Slot(n, RxNum) \in Ring
  BY <1>1, DivMod DEF Slot, Ring
<1>3. \A n \in Nat : Slot(n, TxNum) \in 0 .. TxNum - 1
  BY <1>1, DivMod DEF Slot
<1>4. 0 \in Ring /\ 0 \in 0 .. TxNum - 1 /\ Ring \subseteq Nat
  BY <1>1 DEF Ring
<1> QED BY <1>1, <1>2, <1>3, <1>4

LEMMA Nexts ==
  /\ \A i : After(i) = Slot(i + 1, RxNum) /\ (i + 1) % TxNum = Slot(i + 1, TxNum)
  /\ Scanned = Slot(isr.start + isr.n, RxNum)
BY DEF After, Scanned, Slot

LEMMA TypesInit == Init => Types
<1> SUFFICES ASSUME Init PROVE Types
  OBVIOUS
<1> USE DEF Init, Desc
<1>1. 0 \in Ring /\ 0 \in 0 .. TxNum - 1
  BY Sizes
<1>2. RxTypes BY <1>1 DEF RxTypes
<1>3. TxTypes BY <1>1 DEF TxTypes
<1>4. PcTypes BY DEF PcTypes
<1>5. LoopTypes BY <1>1 DEF LoopTypes
<1> QED BY <1>2, <1>3, <1>4, <1>5 DEF Types

\* The ring stays as it is.
LEMMA RingStays ==
  ASSUME driver' = driver
  PROVE  /\ RxNum' = RxNum /\ Ring' = Ring
         /\ \A n : At(n)' = At(n)
BY DEF RxNum, Ring, At

\* What each part of the state is changed by.
LEMMA Changes ==
  ASSUME [Next]_vars
  PROVE  /\ driver' = driver
         /\ UNCHANGED rxVars \/ FrameArrives \/ BadFrameArrives \/ MacRxPrepare \/ ServiceTraffic
         /\ UNCHANGED txVars \/ MacSends \/ NetifOutput \/ TudNetworkRecvCb
         /\ UNCHANGED queue \/ LwipScan \/ LwipGet
         /\ UNCHANGED got \/ LwipProtect \/ LwipGet \/ LwipInput
         /\ UNCHANGED handled \/ LwipInput \/ ServiceTraffic
         /\ UNCHANGED isr \/ LwipIsrEnter \/ LwipScan \/ MacRxPrepare \/ UsbIsr
         /\ UNCHANGED strained \/ FrameArrives \/ LwipScan \/ NetifOutput
BY DEF Next, Isr, LwipIsr, UsbIsr, LwipIsrEnter, LwipScan, LwipScanEnds, MacRxPrepare, CheckPhy,
       UsbIsrEnter, UsbIsrEnds, Main, LwipMain, UsbMain, LwipProtect, LwipGet, LwipInput,
       LwipLoops, UsbTask, ServiceTraffic, NetifOutput, TudNetworkRecvCb, FrameArrives,
       BadFrameArrives, MacSends, PhyChanges, UsbFetches, vars, rxVars, txVars

LEMMA RxTypesNext ==
  ASSUME Types, [Next]_vars
  PROVE  RxTypes'
<1>1. RxNum' = RxNum /\ Ring' = Ring
  BY RingStays, Changes
<1>2. \A i \in Ring : After(i) \in Ring
  BY Sizes, Nexts
<1> HIDE DEF Ring, After
<1> USE DEF Types, RxTypes, Desc, rxVars
<1>3. CASE UNCHANGED rxVars BY <1>1, <1>3
<1>4. CASE FrameArrives BY <1>1, <1>2, <1>4 DEF FrameArrives
<1>5. CASE BadFrameArrives BY <1>1, <1>2, <1>5 DEF BadFrameArrives
<1>6. CASE MAC_Receive BY <1>1, <1>2, <1>6 DEF MAC_Receive
<1> QED BY <1>3, <1>4, <1>5, <1>6, Changes DEF MacRxPrepare, ServiceTraffic

LEMMA TxTypesNext ==
  ASSUME Types, [Next]_vars
  PROVE  TxTypes'
<1>1. \A i \in 0 .. TxNum - 1 : (i + 1) % TxNum \in 0 .. TxNum - 1
  BY Sizes, Nexts
<1> USE DEF Types, TxTypes, Desc, txVars
<1>2. CASE UNCHANGED txVars BY <1>2
<1>3. CASE MacSends
  <2>1. tx[macTx].frame \in Nat OBVIOUS
  <2>2. sent' \in Seq(Nat) BY <1>3, <2>1 DEF MacSends
  <2>3. macTx' \in 0 .. TxNum - 1 BY <1>1, <1>3 DEF MacSends
  <2>4. tx' \in [0 .. TxNum - 1 -> Desc] BY <1>3 DEF MacSends
  <2> QED BY <1>3, <2>2, <2>3, <2>4 DEF MacSends
<1>4. CASE Transmit /\ UNCHANGED <<macTx, sent>> BY <1>1, <1>4 DEF Transmit
<1> QED BY <1>2, <1>3, <1>4, Changes DEF NetifOutput, TudNetworkRecvCb, Transmit

LEMMA PcTypesNext ==
  ASSUME Types, [Next]_vars
  PROVE  PcTypes'
BY DEF Types, PcTypes,
       Next, Isr, LwipIsr, UsbIsr, LwipIsrEnter, LwipScan, LwipScanEnds, MacRxPrepare, CheckPhy,
       LinkStatus, UsbIsrEnter, UsbIsrEnds, Main, LwipMain, UsbMain, LwipProtect, LwipGet,
       LwipInput, LwipLoops, UsbTask, ServiceTraffic, NetifOutput, TudNetworkRecvCb, FrameArrives,
       BadFrameArrives, MacSends, PhyChanges, UsbFetches, vars

LEMMA LoopTypesNext ==
  ASSUME Types, [Next]_vars
  PROVE  LoopTypes'
<1>1. RxNum' = RxNum /\ Ring' = Ring
  BY RingStays, Changes
<1>2. /\ \A i \in Ring : After(i) \in Ring
      /\ 0 \in Ring
  BY Sizes, Nexts
<1>3. Scanned \in Ring
  <2>1. isr.start + isr.n \in Nat
    BY Sizes DEF Types, LoopTypes
  <2> QED BY <2>1, Sizes, Nexts
<1> HIDE DEF Ring, After, Scanned
<1> USE DEF Types, LoopTypes, rxVars, txVars
<1>4. queue' \in [front : Ring, back : Ring, size : Nat, slot : [Ring -> Ring]]
  <2>1. CASE LwipScan BY <1>2, <1>3, <2>1 DEF LwipScan, QueuePut
  <2>2. CASE LwipGet
    <3>1. \/ queue' = queue
          \/ /\ got.size # 0
             /\ queue' = [queue EXCEPT !.size = got.size - 1, !.back = After(@)]
      BY <2>2 DEF LwipGet
    <3>2. got.size # 0 => got.size - 1 \in Nat
      OBVIOUS
    <3> QED BY <1>2, <3>1, <3>2
  <2> QED BY <2>1, <2>2, Changes
<1>5. got' \in [size : Nat, p : Ring]
  <2>1. CASE LwipProtect BY <2>1 DEF LwipProtect
  <2>2. CASE LwipGet BY <1>2, <2>2 DEF LwipGet
  <2>3. CASE LwipInput BY <1>2, <2>3 DEF LwipInput
  <2> QED BY <2>1, <2>2, <2>3, Changes
<1>6. handled' \in Seq(Nat)
  <2>1. \A i \in Ring : rx[i].frame \in Nat
    BY DEF RxTypes, Desc
  <2>2. CASE LwipInput BY <2>1, <2>2 DEF LwipInput
  <2>3. CASE ServiceTraffic
    <3>1. handled' = handled \/ handled' = Append(handled, rx[rxPointer].frame)
      BY <2>3 DEF ServiceTraffic
    <3>2. rx[rxPointer].frame \in Nat
      BY <2>1 DEF RxTypes
    <3>3. handled \in Seq(Nat)
      OBVIOUS
    <3> HIDE DEF Types, LoopTypes
    <3> QED BY <3>1, <3>2, <3>3
  <2> QED BY <2>2, <2>3, Changes
<1>7. /\ isr'.start \in Ring /\ isr'.n \in Nat
      /\ isr' = [stat |-> isr'.stat, start |-> isr'.start, n |-> isr'.n]
  <2>1. CASE LwipIsrEnter BY <2>1 DEF LwipIsrEnter
  <2>2. CASE LwipScan
    <3>1. isr' = [isr EXCEPT !.n = @ + 1]
      BY <2>2 DEF LwipScan
    <3>2. /\ isr.start \in Ring /\ isr.n \in Nat
          /\ isr = [stat |-> isr.stat, start |-> isr.start, n |-> isr.n]
      OBVIOUS
    <3> HIDE DEF Types, LoopTypes
    <3>3. isr' = [stat |-> isr.stat, start |-> isr.start, n |-> isr.n + 1]
      BY <3>1, <3>2
    <3> QED BY <3>2, <3>3
  <2>3. CASE MacRxPrepare BY <1>2, <2>3 DEF MacRxPrepare
  <2>4. CASE UsbIsr BY <2>4 DEF UsbIsr, UsbIsrEnter, UsbIsrEnds, CheckPhy
  <2> QED BY <2>1, <2>2, <2>3, <2>4, Changes
<1> QED BY <1>1, <1>4, <1>5, <1>6, <1>7

LEMMA TypesNext == Types /\ [Next]_vars => Types'
BY RxTypesNext, TxTypesNext, PcTypesNext, LoopTypesNext DEF Types

-----------------------------------------------------------------------------
(* Sending.                                                                 *)

LEMMA SendInit == Init => SendInv
<1> SUFFICES ASSUME Init PROVE SendInv
  OBVIOUS
<1>1. TxNum \in Nat \ {0} /\ Slot(0, TxNum) = 0
  BY Sizes, First
<1>2. \A f \in 0 .. TxNum - 1 : Slot(f, TxNum) = f
  BY Sizes, First
<1> QED BY <1>1, <1>2 DEF Init, SendInv, InOrder

\* A frame is put into the next descriptor, which is not enabled.
LEMMA TransmitSends ==
  ASSUME Types, SendInv, Transmit, UNCHANGED <<macTx, sent>>, ~tx[txPointer].on
  PROVE  SendInv'
<1> DEFINE s == Len(sent)
<1>1. s \in Nat /\ given \in Nat /\ given < s + TxNum /\ TxNum \in Nat \ {0}
  <2>1. s \in Nat /\ given \in Nat /\ TxNum \in Nat \ {0}
    BY Sizes DEF Types, TxTypes
  <2>2. given # s + TxNum
    <3> SUFFICES ASSUME given = s + TxNum PROVE FALSE
      OBVIOUS
    <3>1. s \in s .. given - 1 /\ Slot(s + TxNum, TxNum) = Slot(s, TxNum)
      BY <2>1, Around
    <3> QED BY <3>1 DEF SendInv
  <2>3. given <= s + TxNum BY DEF SendInv
  <2> QED BY <2>1, <2>2, <2>3
<1>2. /\ given' = given + 1 /\ sent' = sent /\ macTx' = macTx
      /\ txPointer' = Slot(given + 1, TxNum)
  <2>1. Slot(Slot(given, TxNum) + 1, TxNum) = Slot(given + 1, TxNum)
    BY <1>1, Wraps
  <2> QED BY <2>1, Nexts DEF Transmit, SendInv
<1>3. Slot(given, TxNum) \in 0 .. TxNum - 1
  BY <1>1, Sizes
<1>4. tx'[Slot(given, TxNum)] = [on |-> TRUE, frame |-> given + 1]
  BY <1>3 DEF Transmit, SendInv, Types, TxTypes
<1>5. \A f \in (s .. s + TxNum - 1) \ {given} : tx'[Slot(f, TxNum)] = tx[Slot(f, TxNum)]
  <2> TAKE f \in (s .. s + TxNum - 1) \ {given}
  <2>1. Slot(f, TxNum) # Slot(given, TxNum) /\ Slot(f, TxNum) \in 0 .. TxNum - 1
    <3>1. f \in Nat /\ ((f < given /\ given < f + TxNum) \/ (given < f /\ f < given + TxNum))
      BY <1>1 DEF SendInv
    <3> QED BY <1>1, <3>1, Apart, Sizes
  <2> QED BY <2>1 DEF Transmit, SendInv, Types, TxTypes
<1> HIDE DEF s
<1>6. \A f \in s .. given : LET d == tx'[Slot(f, TxNum)] IN d.on /\ d.frame = f + 1
  <2> TAKE f \in s .. given
  <2>1. CASE f = given BY <1>4, <2>1
  <2>2. CASE f < given
    <3>1. f \in s .. given - 1 /\ f \in (s .. s + TxNum - 1) \ {given} BY <1>1, <2>2
    <3>2. LET d == tx[Slot(f, TxNum)] IN d.on /\ d.frame = f + 1 BY <3>1 DEF SendInv, s
    <3> QED BY <1>5, <3>1, <3>2
  <2> QED BY <1>1, <2>1, <2>2
<1>7. \A f \in given + 1 .. s + TxNum - 1 : ~tx'[Slot(f, TxNum)].on
  BY <1>1, <1>5 DEF SendInv, s
<1> QED BY <1>1, <1>2, <1>6, <1>7 DEF SendInv, s

LEMMA MacSendsInOrder ==
  ASSUME Types, SendInv, MacSends
  PROVE  SendInv'
<1> DEFINE s == Len(sent)
<1>1. s \in Nat /\ given \in Nat /\ TxNum \in Nat \ {0}
  BY Sizes DEF Types, TxTypes
<1>2. s < given
  <2>1. CASE s = given
    BY <1>1, <2>1 DEF SendInv, MacSends
  <2> QED BY <1>1, <2>1 DEF SendInv
<1>3. tx[macTx].frame = s + 1
  BY <1>1, <1>2 DEF SendInv
<1>4. Len(sent') = s + 1 /\ InOrder(sent')
  BY <1>3 DEF MacSends, SendInv, InOrder, Types, TxTypes
<1>5. macTx' = Slot(s + 1, TxNum)
  <2>1. Slot(Slot(s, TxNum) + 1, TxNum) = Slot(s + 1, TxNum)
    BY <1>1, Wraps
  <2> QED BY <2>1, Nexts DEF MacSends, SendInv
<1>6. /\ given' = given /\ txPointer' = txPointer
      /\ Slot(s, TxNum) \in 0 .. TxNum - 1 /\ ~tx'[Slot(s, TxNum)].on
  BY <1>1, Sizes DEF MacSends, SendInv, Types, TxTypes, Desc
<1>7. \A f \in s + 1 .. s + TxNum - 1 : tx'[Slot(f, TxNum)] = tx[Slot(f, TxNum)]
  <2> TAKE f \in s + 1 .. s + TxNum - 1
  <2>1. Slot(f, TxNum) # Slot(s, TxNum) /\ Slot(f, TxNum) \in 0 .. TxNum - 1
    BY <1>1, Apart, Sizes
  <2> QED BY <2>1 DEF MacSends, SendInv, Types, TxTypes
<1>8. ~tx'[Slot(s + TxNum, TxNum)].on
  BY <1>1, <1>6, Around
<1> HIDE DEF s
<1>9. \A f \in s + 1 .. given - 1 : LET d == tx'[Slot(f, TxNum)] IN d.on /\ d.frame = f + 1
  BY <1>1, <1>7 DEF SendInv, s
<1>10. \A f \in given .. s + TxNum : ~tx'[Slot(f, TxNum)].on
  BY <1>1, <1>2, <1>7, <1>8 DEF SendInv, s
<1> QED BY <1>1, <1>2, <1>4, <1>5, <1>6, <1>9, <1>10 DEF SendInv, s

LEMMA SendNext ==
  ASSUME Types, SendInv, [Next]_vars, ~strained'
  PROVE  SendInv'
<1>1. CASE UNCHANGED txVars
  BY <1>1 DEF SendInv, txVars
<1>2. CASE NetifOutput \/ TudNetworkRecvCb
  BY <1>2, TransmitSends DEF NetifOutput, TudNetworkRecvCb, Transmit
<1> QED BY <1>1, <1>2, MacSendsInOrder, Changes

-----------------------------------------------------------------------------
(* Receiving with the USB adapter.                                          *)

LEMMA UsbInvInit == ASSUME Init, driver # "lwip" PROVE UsbInv
<1>1. RxNum \in Nat \ {0} /\ \A i \in Ring : Slot(i, RxNum) = i
  BY Sizes, First DEF Ring
<1>2. FilledBy(0)
  BY <1>1 DEF Init, FilledBy, Kth, Ring
<1>3. \E n \in 0 .. RxNum : FilledBy(n)
  BY <1>1, <1>2
<1>4. queue.size = 0 /\ handled = <<>> /\ arrived = 0
  BY DEF Init
<1>5. InOrder(handled) /\ Len(handled) <= arrived
  BY <1>4 DEF InOrder
<1> QED BY <1>3, <1>4, <1>5 DEF UsbInv

\* The descriptors of the ring are different ones, and rx is a function on them.
LEMMA KthApart ==
  ASSUME Types
  PROVE  /\ \A k \in Nat : Slot(rxPointer + k, RxNum) \in Ring /\ Kth(k) \in Desc
         /\ \A j, k \in 0 .. RxNum - 1 :
              j # k => Slot(rxPointer + j, RxNum) # Slot(rxPointer + k, RxNum)
<1>1. RxNum \in Nat \ {0} /\ rxPointer \in Nat
  BY Sizes DEF Types, RxTypes
<1>2. \A k \in Nat : Slot(rxPointer + k, RxNum) \in Ring
  BY <1>1, Sizes
<1>3. \A k \in Nat : Kth(k) \in Desc
  BY <1>2 DEF Kth, Types, RxTypes
<1>4. \A j, k \in 0 .. RxNum - 1 :
        j < k => Slot(rxPointer + j, RxNum) # Slot(rxPointer + k, RxNum)
  <2> TAKE j, k \in 0 .. RxNum - 1
  <2> HAVE j < k
  <2> DEFINE a == rxPointer + j
             b == rxPointer + k
  <2>1. a \in Nat /\ b \in Nat /\ a < b /\ b < a + RxNum
    BY <1>1
  <2> HIDE DEF a, b
  <2>2. Slot(a, RxNum) # Slot(b, RxNum)
    BY <1>1, <2>1, Apart
  <2> QED BY <2>2 DEF a, b
<1>5. \A j, k \in 0 .. RxNum - 1 :
        j # k => Slot(rxPointer + j, RxNum) # Slot(rxPointer + k, RxNum)
  <2> TAKE j, k \in 0 .. RxNum - 1
  <2> QED BY <1>1, <1>4
<1> QED BY <1>2, <1>3, <1>5

\* A descriptor is filled: the next one, with frame f.
LEMMA FilledNext ==
  ASSUME Types, driver' = driver, NEW n \in 0 .. RxNum, FilledBy(n), NEW f \in Nat,
         rx[macRx].on, rx' = [rx EXCEPT ![macRx] = [on |-> FALSE, frame |-> f]],
         macRx' = After(macRx), rxPointer' = rxPointer
  PROVE  /\ n < RxNum /\ macRx' = Slot(rxPointer + (n + 1), RxNum)
         /\ Kth(n)' = [on |-> FALSE, frame |-> f]
         /\ \A k \in (0 .. RxNum - 1) \ {n} : Kth(k)' = Kth(k)
<1>1. RxNum \in Nat \ {0} /\ RxNum' = RxNum /\ rxPointer \in Nat
  BY Sizes, RingStays DEF Types, RxTypes
<1>2. n < RxNum
  <2>1. CASE n = RxNum
    <3>1. Slot(rxPointer + RxNum, RxNum) = Slot(rxPointer, RxNum)
      BY <1>1, Around
    <3>2. Kth(0) = rx[macRx]
      BY <1>1, <2>1, <3>1 DEF FilledBy, Kth
    <3>3. ~Kth(0).on
      BY <1>1, <2>1 DEF FilledBy
    <3> QED BY <3>2, <3>3
  <2> QED BY <1>1, <2>1
<1>3. macRx' = Slot(rxPointer + (n + 1), RxNum)
  <2> DEFINE a == rxPointer + n
  <2>1. a \in Nat /\ a + 1 = rxPointer + (n + 1) /\ macRx = Slot(a, RxNum)
    BY <1>1 DEF FilledBy
  <2> HIDE DEF a
  <2>2. Slot(Slot(a, RxNum) + 1, RxNum) = Slot(a + 1, RxNum)
    BY <1>1, <2>1, Wraps
  <2> QED BY <2>1, <2>2, Nexts
<1>4. macRx \in Ring /\ macRx = Slot(rxPointer + n, RxNum)
  BY DEF FilledBy, Types, RxTypes
<1>5. Kth(n)' = [on |-> FALSE, frame |-> f]
  BY <1>1, <1>4 DEF Kth, Types, RxTypes
<1>6. \A k \in (0 .. RxNum - 1) \ {n} : Kth(k)' = Kth(k)
  <2> TAKE k \in (0 .. RxNum - 1) \ {n}
  <2>1. Slot(rxPointer + k, RxNum) \in Ring /\ Slot(rxPointer + k, RxNum) # macRx
    <3>1. k \in Nat /\ k \in 0 .. RxNum - 1 /\ n \in 0 .. RxNum - 1 /\ k # n
      BY <1>1, <1>2
    <3>2. Slot(rxPointer + k, RxNum) # Slot(rxPointer + n, RxNum)
      BY <3>1, KthApart
    <3>3. Slot(rxPointer + k, RxNum) \in Ring
      BY <3>1, KthApart
    <3> QED BY <1>4, <3>2, <3>3
  <2> QED BY <1>1, <2>1 DEF Kth, Types, RxTypes
<1> QED BY <1>2, <1>3, <1>5, <1>6

\* The first descriptor is armed again, and the second is looked at next.
LEMMA ArmedNext ==
  ASSUME Types, driver' = driver, NEW n \in 0 .. RxNum, FilledBy(n), ~rx[rxPointer].on, MAC_Receive
  PROVE  /\ n > 0 /\ macRx' = Slot(rxPointer' + (n - 1), RxNum)
         /\ Kth(RxNum - 1)'.on
         /\ \A k \in 0 .. RxNum - 2 : Kth(k)' = Kth(k + 1)
         /\ Kth(0) = rx[rxPointer]
<1>1. RxNum \in Nat \ {0} /\ RxNum' = RxNum /\ rxPointer \in 0 .. RxNum - 1 /\ rxPointer \in Nat
  BY Sizes, RingStays DEF Types, RxTypes, Ring
<1>2. Kth(0) = rx[rxPointer] /\ Slot(rxPointer, RxNum) = rxPointer
  BY <1>1, First DEF Kth
<1>3. n > 0
  BY <1>1, <1>2 DEF FilledBy
<1>4. \A k \in Nat : Slot(rxPointer' + k, RxNum) = Slot(rxPointer + (k + 1), RxNum)
  <2> TAKE k \in Nat
  <2> DEFINE a == rxPointer + 1
  <2>1. a \in Nat /\ a + k = rxPointer + (k + 1) /\ rxPointer' = Slot(a, RxNum)
    BY <1>1, Nexts DEF MAC_Receive
  <2> HIDE DEF a
  <2>2. Slot(Slot(a, RxNum) + k, RxNum) = Slot(a + k, RxNum)
    BY <1>1, <2>1, Wraps
  <2> QED BY <2>1, <2>2
<1>5. macRx' = Slot(rxPointer' + (n - 1), RxNum)
  <2>1. n - 1 \in Nat /\ (n - 1) + 1 = n
    BY <1>1, <1>3
  <2>2. Slot(rxPointer' + (n - 1), RxNum) = Slot(rxPointer + ((n - 1) + 1), RxNum)
    BY <1>4, <2>1
  <2> QED BY <2>1, <2>2 DEF MAC_Receive, FilledBy
<1>6. \A k \in 0 .. RxNum - 2 : Kth(k)' = Kth(k + 1)
  <2> TAKE k \in 0 .. RxNum - 2
  <2>1. Slot(rxPointer + (k + 1), RxNum) # Slot(rxPointer + 0, RxNum)
    BY <1>1, KthApart
  <2>2. Slot(rxPointer + (k + 1), RxNum) \in Ring /\ Slot(rxPointer + 0, RxNum) = rxPointer
    BY <1>1, <1>2, KthApart
  <2>3. Slot(rxPointer' + k, RxNum) = Slot(rxPointer + (k + 1), RxNum)
    BY <1>1, <1>4
  <2> QED BY <1>1, <2>1, <2>2, <2>3 DEF Kth, MAC_Receive, Types, RxTypes
<1>7. Kth(RxNum - 1)'.on
  <2>1. RxNum - 1 \in Nat /\ (RxNum - 1) + 1 = RxNum
    BY <1>1
  <2>2. Slot(rxPointer' + (RxNum - 1), RxNum) = Slot(rxPointer + RxNum, RxNum)
    BY <1>4, <2>1
  <2>3. Slot(rxPointer + RxNum, RxNum) = rxPointer
    BY <1>1, <1>2, Around
  <2> QED BY <1>1, <2>2, <2>3 DEF Kth, MAC_Receive, Types, RxTypes, Desc
<1> QED BY <1>2, <1>3, <1>5, <1>6, <1>7

LEMMA UsbArrives ==
  ASSUME Types, UsbInv, driver' = driver, FrameArrives
  PROVE  UsbInv'
<1>1. PICK n \in 0 .. RxNum : FilledBy(n)
  BY DEF UsbInv
<1>2. arrived \in Nat /\ Len(handled) \in Nat /\ RxNum' = RxNum /\ RxNum \in Nat \ {0}
  BY RingStays, Sizes DEF Types, RxTypes, LoopTypes
<1>3. /\ arrived' = arrived + 1 /\ handled' = handled /\ queue' = queue
      /\ rxPointer' = rxPointer
  BY DEF FrameArrives
<1>4. /\ n < RxNum /\ macRx' = Slot(rxPointer + (n + 1), RxNum)
      /\ Kth(n)' = [on |-> FALSE, frame |-> arrived + 1]
      /\ \A k \in (0 .. RxNum - 1) \ {n} : Kth(k)' = Kth(k)
  <2>1. /\ rx[macRx].on /\ macRx' = After(macRx) /\ arrived + 1 \in Nat
        /\ rx' = [rx EXCEPT ![macRx] = [on |-> FALSE, frame |-> arrived + 1]]
    BY <1>2 DEF FrameArrives
  <2> QED BY <1>1, <1>3, <2>1, FilledNext
<1> DEFINE F(k) == Kth(k).frame
           G(k) == Kth(k)'.frame
           h == Len(handled)
<1>5. \A k \in 0 .. n - 1 : G(k) = F(k)
  BY <1>2, <1>4
<1>6. G(n) = arrived + 1
  BY <1>4
<1>7. /\ \A k \in 0 .. n - 1 : F(k) = 0 \/ F(k) \in h + 1 .. arrived
      /\ \A j, k \in 0 .. n - 1 : j < k /\ F(j) # 0 /\ F(k) # 0 => F(j) < F(k)
      /\ \A f \in h + 1 .. arrived : \E k \in 0 .. n - 1 : F(k) = f
  BY <1>1 DEF FilledBy
<1>8. h <= arrived
  BY DEF UsbInv
<1>9. \A k \in 0 .. RxNum - 1 : Kth(k)'.on <=> k >= n + 1
  BY <1>1, <1>2, <1>4 DEF FilledBy
<1> HIDE DEF F, G, h
<1>10. \A k \in 0 .. n : G(k) = 0 \/ G(k) \in h + 1 .. arrived + 1
  BY <1>2, <1>5, <1>6, <1>7, <1>8 DEF h
<1>11. \A j, k \in 0 .. n : j < k /\ G(j) # 0 /\ G(k) # 0 => G(j) < G(k)
  BY <1>2, <1>5, <1>6, <1>7, <1>8 DEF h
<1>12. \A f \in h + 1 .. arrived + 1 : \E k \in 0 .. n : G(k) = f
  BY <1>2, <1>5, <1>6, <1>7, <1>8 DEF h
<1>13. FilledBy(n + 1)'
  BY <1>2, <1>3, <1>4, <1>9, <1>10, <1>11, <1>12 DEF FilledBy, G, h
<1>14. \E m \in 0 .. RxNum' : FilledBy(m)'
  BY <1>2, <1>4, <1>13
<1> QED BY <1>2, <1>3, <1>8, <1>14 DEF UsbInv, InOrder, h

LEMMA UsbBadArrives ==
  ASSUME Types, UsbInv, driver' = driver, BadFrameArrives
  PROVE  UsbInv'
<1>1. PICK n \in 0 .. RxNum : FilledBy(n)
  BY DEF UsbInv
<1>2. arrived \in Nat /\ Len(handled) \in Nat /\ RxNum' = RxNum /\ RxNum \in Nat \ {0}
  BY RingStays, Sizes DEF Types, RxTypes, LoopTypes
<1>3. /\ arrived' = arrived /\ handled' = handled /\ queue' = queue
      /\ rxPointer' = rxPointer
  BY DEF BadFrameArrives
<1>4. /\ n < RxNum /\ macRx' = Slot(rxPointer + (n + 1), RxNum)
      /\ Kth(n)' = [on |-> FALSE, frame |-> 0]
      /\ \A k \in (0 .. RxNum - 1) \ {n} : Kth(k)' = Kth(k)
  BY <1>1, <1>2, FilledNext DEF BadFrameArrives
<1> DEFINE F(k) == Kth(k).frame
           G(k) == Kth(k)'.frame
           h == Len(handled)
<1>5. \A k \in 0 .. n - 1 : G(k) = F(k)
  BY <1>2, <1>4
<1>6. G(n) = 0
  BY <1>4
<1>7. /\ \A k \in 0 .. n - 1 : F(k) = 0 \/ F(k) \in h + 1 .. arrived
      /\ \A j, k \in 0 .. n - 1 : j < k /\ F(j) # 0 /\ F(k) # 0 => F(j) < F(k)
      /\ \A f \in h + 1 .. arrived : \E k \in 0 .. n - 1 : F(k) = f
  BY <1>1 DEF FilledBy
<1>8. \A k \in 0 .. RxNum - 1 : Kth(k)'.on <=> k >= n + 1
  BY <1>1, <1>2, <1>4 DEF FilledBy
<1> HIDE DEF F, G, h
<1>9. \A k \in 0 .. n : G(k) = 0 \/ G(k) \in h + 1 .. arrived
  BY <1>2, <1>5, <1>6, <1>7
<1>10. \A j, k \in 0 .. n : j < k /\ G(j) # 0 /\ G(k) # 0 => G(j) < G(k)
  BY <1>2, <1>5, <1>6, <1>7
<1>11. \A f \in h + 1 .. arrived : \E k \in 0 .. n : G(k) = f
  BY <1>2, <1>5, <1>6, <1>7
<1>12. FilledBy(n + 1)'
  BY <1>2, <1>3, <1>4, <1>8, <1>9, <1>10, <1>11 DEF FilledBy, G, h
<1>13. \E m \in 0 .. RxNum' : FilledBy(m)'
  BY <1>2, <1>4, <1>12
<1> QED BY <1>2, <1>3, <1>13 DEF UsbInv, InOrder

\* The first descriptor is armed: its frame has an error, or it is handled.
LEMMA UsbServes ==
  ASSUME Types, UsbInv, driver' = driver, ~rx[rxPointer].on, MAC_Receive, queue' = queue,
         \/ rx[rxPointer].frame = 0 /\ handled' = handled
         \/ rx[rxPointer].frame # 0 /\ handled' = Append(handled, rx[rxPointer].frame)
  PROVE  UsbInv'
<1>1. PICK n \in 0 .. RxNum : FilledBy(n)
  BY DEF UsbInv
<1>2. /\ arrived \in Nat /\ Len(handled) \in Nat /\ RxNum' = RxNum /\ RxNum \in Nat \ {0}
      /\ handled \in Seq(Nat) /\ rx[rxPointer].frame \in Nat
  <2>1. handled \in Seq(Nat) /\ Len(handled) \in Nat
    BY DEF Types, LoopTypes
  <2>2. rx[rxPointer].frame \in Nat /\ arrived \in Nat
    BY DEF Types, RxTypes, Desc
  <2> QED BY <2>1, <2>2, RingStays, Sizes
<1>3. /\ n > 0 /\ macRx' = Slot(rxPointer' + (n - 1), RxNum)
      /\ Kth(RxNum - 1)'.on
      /\ \A k \in 0 .. RxNum - 2 : Kth(k)' = Kth(k + 1)
      /\ Kth(0) = rx[rxPointer]
  BY <1>1, ArmedNext
<1> DEFINE F(k) == Kth(k).frame
           G(k) == Kth(k)'.frame
           h == Len(handled)
           i == Len(handled')
<1>4. \A k \in 0 .. n - 2 : G(k) = F(k + 1)
  BY <1>2, <1>3
<1>5. /\ \A k \in 0 .. n - 1 : F(k) = 0 \/ F(k) \in h + 1 .. arrived
      /\ \A j, k \in 0 .. n - 1 : j < k /\ F(j) # 0 /\ F(k) # 0 => F(j) < F(k)
      /\ \A f \in h + 1 .. arrived : \E k \in 0 .. n - 1 : F(k) = f
  BY <1>1 DEF FilledBy
<1>6. \A k \in 0 .. RxNum - 1 : Kth(k)'.on <=> k >= n - 1
  <2> TAKE k \in 0 .. RxNum - 1
  <2>1. CASE k = RxNum - 1 BY <1>2, <1>3, <2>1
  <2>2. CASE k < RxNum - 1
    <3>1. k \in 0 .. RxNum - 2 /\ k + 1 \in 0 .. RxNum - 1 /\ (k + 1 >= n <=> k >= n - 1)
      BY <1>2, <2>2
    <3>2. Kth(k + 1).on <=> k + 1 >= n
      BY <1>1, <3>1 DEF FilledBy
    <3> QED BY <1>3, <3>1, <3>2
  <2> QED BY <1>2, <2>1, <2>2
<1>7. F(0) = rx[rxPointer].frame
  BY <1>3
<1>8. 0 \in 0 .. n - 1 /\ h \in Nat /\ h <= arrived
  BY <1>2, <1>3 DEF UsbInv
<1> HIDE DEF F, G, h, i
\* the first of the frames that have not been handled is the next one
<1>9. F(0) # 0 => F(0) = h + 1
  <2> SUFFICES ASSUME F(0) # 0 PROVE F(0) = h + 1
    OBVIOUS
  <2>1. F(0) \in h + 1 .. arrived
    BY <1>5, <1>8
  <2>2. PICK k \in 0 .. n - 1 : F(k) = h + 1
    BY <1>2, <1>5, <1>8, <2>1
  <2>3. CASE k = 0 BY <2>2, <2>3
  <2>4. CASE k > 0
    <3>1. F(0) < h + 1
      BY <1>5, <1>8, <2>2, <2>4
    <3> QED BY <1>8, <2>1, <3>1
  <2> QED BY <2>3, <2>4
<1>10. \/ F(0) = 0 /\ i = h /\ handled' = handled
       \/ F(0) = h + 1 /\ i = h + 1 /\ handled' = Append(handled, h + 1)
  BY <1>2, <1>7, <1>9 DEF h, i
<1>11. InOrder(handled') /\ i \in Nat /\ i <= arrived
  <2>1. CASE F(0) = 0 /\ i = h /\ handled' = handled
    BY <1>8, <2>1 DEF UsbInv, InOrder
  <2>2. CASE F(0) = h + 1 /\ i = h + 1 /\ handled' = Append(handled, h + 1)
    <3>1. i <= arrived
      BY <1>5, <1>8, <2>2
    <3>2. InOrder(handled')
      BY <1>2, <2>2 DEF UsbInv, InOrder, h
    <3> QED BY <1>8, <2>2, <3>1, <3>2
  <2> QED BY <1>10, <2>1, <2>2
<1>12. \A k \in 0 .. n - 2 : G(k) = 0 \/ G(k) \in i + 1 .. arrived
  <2> TAKE k \in 0 .. n - 2
  <2>1. G(k) = F(k + 1) /\ k + 1 \in 0 .. n - 1 /\ 0 < k + 1
    BY <1>3, <1>4
  <2>2. F(k + 1) = 0 \/ F(k + 1) \in h + 1 .. arrived
    BY <1>5, <2>1
  <2>3. F(0) # 0 /\ F(k + 1) # 0 => F(0) < F(k + 1)
    BY <1>5, <1>8, <2>1
  <2> QED BY <1>8, <1>10, <2>1, <2>2, <2>3
<1>13. \A j, k \in 0 .. n - 2 : j < k /\ G(j) # 0 /\ G(k) # 0 => G(j) < G(k)
  <2> TAKE j, k \in 0 .. n - 2
  <2>1. G(j) = F(j + 1) /\ G(k) = F(k + 1) /\ j + 1 \in 0 .. n - 1 /\ k + 1 \in 0 .. n - 1
    BY <1>4
  <2>2. j < k => j + 1 < k + 1
    OBVIOUS
  <2> QED BY <1>5, <2>1, <2>2
<1>14. \A f \in i + 1 .. arrived : \E k \in 0 .. n - 2 : G(k) = f
  <2> TAKE f \in i + 1 .. arrived
  <2>1. f \in h + 1 .. arrived /\ f # F(0)
    BY <1>8, <1>10
  <2>2. PICK k \in 0 .. n - 1 : F(k) = f
    BY <1>5, <2>1
  <2>3. k - 1 \in 0 .. n - 2 /\ (k - 1) + 1 = k
    BY <2>1, <2>2
  <2> QED BY <1>4, <2>2, <2>3
<1>15. FilledBy(n - 1)'
  <2>1. arrived' = arrived /\ (n - 1) - 1 = n - 2
    BY DEF MAC_Receive
  <2> QED BY <1>2, <1>3, <1>6, <1>12, <1>13, <1>14, <2>1 DEF FilledBy, G, i
<1>16. \E m \in 0 .. RxNum' : FilledBy(m)'
  BY <1>2, <1>3, <1>15
<1> QED BY <1>11, <1>16 DEF UsbInv, i, MAC_Receive

LEMMA UsbNext ==
  ASSUME Types, driver # "lwip", UsbInv, [Next]_vars
  PROVE  UsbInv'
<1>1. driver' = driver /\ RxNum' = RxNum /\ Ring' = Ring
  BY Changes, RingStays
<1>2. queue' = queue /\ ~MacRxPrepare /\ ~LwipInput
  BY Changes DEF Types, PcTypes, LwipScan, LwipGet, MacRxPrepare, LwipInput
<1>3. CASE UNCHANGED <<rxVars, handled>>
  BY <1>1, <1>2, <1>3 DEF UsbInv, FilledBy, Kth, rxVars
<1>4. CASE ServiceTraffic
  BY <1>1, <1>2, <1>3, <1>4, UsbServes DEF ServiceTraffic
<1>5. CASE UNCHANGED rxVars /\ ~ServiceTraffic
  BY <1>2, <1>3, <1>5, Changes
<1> QED BY <1>1, <1>2, <1>4, <1>5, Changes, UsbArrives, UsbBadArrives

-----------------------------------------------------------------------------
(* Receiving with lwip.                                                     *)

LEMMA AtFacts ==
  /\ \A n \in Nat : At(n) \in Ring /\ After(At(n)) = At(n + 1) /\ At(n + RxNum) = At(n)
  /\ \A m, n \in Nat : m < n /\ n < m + RxNum => At(m) # At(n)
<1>1. RxNum \in Nat \ {0} /\ \A n \in Nat : At(n) \in Ring /\ At(n + RxNum) = At(n)
  BY Sizes, Around DEF At
<1>2. \A n \in Nat : After(At(n)) = At(n + 1)
  <2> TAKE n \in Nat
  <2>1. Slot(Slot(n, RxNum) + 1, RxNum) = Slot(n + 1, RxNum)
    BY <1>1, Wraps
  <2> QED BY <2>1, Nexts DEF At
<1>3. \A m, n \in Nat : m < n /\ n < m + RxNum => At(m) # At(n)
  BY <1>1, Apart DEF At
<1> QED BY <1>1, <1>2, <1>3

LEMMA LwipTypes ==
  ASSUME Types
  PROVE  /\ RxNum \in Nat \ {0} /\ arrived \in Nat /\ Len(handled) \in Nat /\ queue.size \in Nat
         /\ Taken \in Nat /\ Put \in Nat /\ Len(handled) <= Taken /\ Taken <= Put
         /\ Put = Taken + queue.size /\ isr.n \in Nat
         /\ handled \in Seq(Nat) /\ rx \in [Ring -> Desc]
<1>1. /\ Len(handled) \in Nat /\ queue.size \in Nat /\ handled \in Seq(Nat) /\ isr.n \in Nat
  BY DEF Types, LoopTypes
<1>2. arrived \in Nat /\ rx \in [Ring -> Desc]
  BY DEF Types, RxTypes
<1>3. Taken \in Nat /\ Len(handled) <= Taken
  BY <1>1 DEF Taken
<1>4. Put = Taken + queue.size
  BY DEF Put
<1>5. Put \in Nat /\ Taken <= Put
  BY <1>1, <1>3, <1>4
<1> QED BY <1>1, <1>2, <1>3, <1>4, <1>5, Sizes

LEMMA LwipInvInit == ASSUME Init, driver = "lwip" PROVE LwipInv
<1>1. RxNum \in Nat \ {0} /\ \A i \in 0 .. RxNum - 1 : At(i) = i
  BY Sizes, First DEF At
<1>2. Len(handled) = 0 /\ Taken = 0 /\ Put = 0 /\ arrived = 0 /\ At(0) = 0
  BY <1>1 DEF Init, Taken, Put
<1>3. QueueHolds
  BY <1>2 DEF Init, QueueHolds
<1>4. BuffersHold
  BY <1>1, <1>2 DEF Init, BuffersHold, InOrder
<1>5. Armed(0)
  BY <1>1, <1>2 DEF Init, Armed, Rearming, Ring
<1> QED BY <1>2, <1>3, <1>4, <1>5 DEF LwipInv

\* While the frames and their places stay, so does what is known of them.
LEMMA LwipStays ==
  ASSUME Types, LwipInv, UNCHANGED <<driver, rxVars, handled, queue, isr, pc, got, masked>>,
         "rx" \in stat => "rx" \in stat'
  PROVE  LwipInv'
<1>1. RxNum' = RxNum /\ \A n : At(n)' = At(n)
  BY RingStays
<1>2. Taken' = Taken /\ Put' = Put /\ Rearming' = Rearming
  BY DEF Taken, Put, Rearming
<1>3. QueueHolds' BY <1>1, <1>2 DEF LwipInv, QueueHolds
<1>4. BuffersHold' BY <1>1, <1>2 DEF LwipInv, BuffersHold, rxVars
<1>5. PICK armed \in 0 .. arrived : Armed(armed) BY DEF LwipInv
<1>6. Armed(armed)' BY <1>1, <1>2, <1>5 DEF Armed, rxVars
<1> QED BY <1>3, <1>4, <1>5, <1>6 DEF LwipInv, rxVars

LEMMA LwipArrives ==
  ASSUME Types, driver = "lwip", LwipInv, FrameArrives, ~strained'
  PROVE  LwipInv'
<1>1. RxNum' = RxNum /\ (\A n : At(n)' = At(n)) /\ driver' = driver
  BY RingStays DEF FrameArrives
<1>2. /\ Taken' = Taken /\ Put' = Put /\ Rearming' = Rearming
      /\ UNCHANGED <<handled, queue, isr, pc, got, masked, rxPointer>>
  BY DEF FrameArrives, Taken, Put, Rearming
<1>3. /\ RxNum \in Nat \ {0} /\ arrived \in Nat /\ Len(handled) \in Nat
      /\ Taken \in Nat /\ Put \in Nat /\ rx \in [Ring -> Desc]
  BY LwipTypes
<1>4. /\ rx[At(arrived)].on /\ arrived' = arrived + 1
      /\ rx' = [rx EXCEPT ![At(arrived)] = [on |-> FALSE, frame |-> arrived + 1]]
      /\ macRx' = At(arrived + 1) /\ "rx" \in stat'
  BY <1>3, AtFacts DEF FrameArrives, LwipInv, BuffersHold
<1>5. arrived < Len(handled) + RxNum /\ ~Rearming
  <2>1. ~(Unhandled >= LwipRx \/ Rearming)
    BY DEF FrameArrives
  <2>2. Unhandled = arrived - Len(handled) /\ RxNum = LwipRx
    BY DEF Unhandled, RxNum
  <2>3. Len(handled) <= arrived
    BY LwipTypes DEF LwipInv, BuffersHold
  <2> QED BY <1>3, <2>1, <2>2, <2>3
<1>6. rx'[At(arrived)] = [on |-> FALSE, frame |-> arrived + 1]
  BY <1>3, <1>4, AtFacts
<1>7. \A f \in Nat : (f < arrived /\ arrived < f + RxNum) \/ (arrived < f /\ f < arrived + RxNum) =>
        rx'[At(f)] = rx[At(f)]
  BY <1>3, <1>4, AtFacts
<1>8. QueueHolds'
  BY <1>1, <1>2 DEF LwipInv, QueueHolds
<1>9. BuffersHold'
  <2>1. InOrder(handled) /\ Put <= arrived
    BY DEF LwipInv, BuffersHold
  <2>2. \A f \in Len(handled) .. arrived : rx'[At(f)].frame = f + 1
    <3> TAKE f \in Len(handled) .. arrived
    <3>1. CASE f = arrived BY <1>6, <3>1
    <3>2. CASE f < arrived
      <4>1. rx[At(f)].frame = f + 1
        BY <1>3, <3>2 DEF LwipInv, BuffersHold
      <4>2. rx'[At(f)] = rx[At(f)]
        BY <1>3, <1>5, <1>7, <3>2
      <4> QED BY <4>1, <4>2
    <3> QED BY <1>3, <3>1, <3>2
  <2> QED BY <1>1, <1>2, <1>3, <1>4, <1>5, <2>1, <2>2 DEF BuffersHold
<1>10. PICK armed \in 0 .. arrived : Armed(armed)
  BY DEF LwipInv
<1>11. Armed(armed)'
  <2>1. arrived < armed + RxNum
    <3>1. arrived # armed + RxNum
      <4> SUFFICES ASSUME arrived = armed + RxNum PROVE FALSE
        OBVIOUS
      <4>1. At(arrived) = At(armed) /\ armed \in armed .. arrived - 1
        BY <1>3, AtFacts
      <4> QED BY <1>4, <1>10, <4>1 DEF Armed
    <3> QED BY <1>3, <1>10, <3>1 DEF Armed
  <2>2. \A f \in armed .. arrived : ~rx'[At(f)].on
    <3> TAKE f \in armed .. arrived
    <3>1. CASE f = arrived BY <1>6, <3>1
    <3>2. CASE f < arrived
      <4>1. ~rx[At(f)].on
        BY <1>3, <1>10, <3>2 DEF Armed
      <4>2. rx'[At(f)] = rx[At(f)]
        BY <1>3, <1>7, <2>1, <3>2
      <4> QED BY <4>1, <4>2
    <3> QED BY <1>3, <3>1, <3>2
  <2>3. \A f \in arrived + 1 .. armed + RxNum - 1 : rx'[At(f)].on
    <3> TAKE f \in arrived + 1 .. armed + RxNum - 1
    <3>1. rx[At(f)].on
      BY <1>3, <1>10 DEF Armed
    <3>2. rx'[At(f)] = rx[At(f)]
      BY <1>3, <1>7
    <3> QED BY <3>1, <3>2
  <2> QED BY <1>1, <1>2, <1>3, <1>4, <1>5, <1>10, <2>1, <2>2, <2>3 DEF Armed
<1> QED BY <1>3, <1>4, <1>8, <1>9, <1>10, <1>11 DEF LwipInv

LEMMA LwipEnters ==
  ASSUME Types, driver = "lwip", LwipInv, LwipIsrEnter
  PROVE  LwipInv'
<1>1. RxNum' = RxNum /\ \A n : At(n)' = At(n)
  BY RingStays DEF LwipIsrEnter
<1>2. /\ pc.isr = "idle" /\ pc'.main = pc.main /\ pc'.isr \in {"scan", "phy"}
      /\ pc'.isr = "phy" => "rx" \notin stat
      /\ isr'.start = queue.front /\ isr'.n = 0 /\ ~masked
      /\ UNCHANGED <<rx, rxPointer, macRx, arrived, handled, queue, got, masked>>
  BY DEF LwipIsrEnter, Types, PcTypes, rxVars
<1>3. Taken' = Taken /\ Put' = Put /\ Taken \in Nat /\ Put \in Nat
  BY <1>2, LwipTypes DEF Taken, Put
<1>4. QueueHolds' BY <1>1, <1>2, <1>3 DEF LwipInv, QueueHolds
<1>5. BuffersHold' BY <1>1, <1>2, <1>3 DEF LwipInv, BuffersHold
<1>6. PICK armed \in 0 .. arrived : Armed(armed) BY DEF LwipInv
<1>7. armed = Put /\ queue.front = At(Put) /\ (pc'.isr = "phy" => Put = arrived)
  BY <1>2, <1>3, <1>6 DEF Armed, LwipInv, QueueHolds
<1>8. Armed(armed)'
  BY <1>1, <1>2, <1>3, <1>6, <1>7 DEF Armed, Rearming
<1> QED BY <1>2, <1>4, <1>5, <1>6, <1>8 DEF LwipInv

\* The scan looks at the descriptor of the next frame to be put into the queue.
LEMMA ScannedNext ==
  ASSUME Types, LwipInv, NEW armed \in 0 .. arrived, Armed(armed), pc.isr = "scan"
  PROVE  /\ Scanned = At(Put) /\ Put = armed + isr.n /\ isr.n <= RxNum /\ Put <= arrived
         /\ ScanEnds <=> Put = arrived
<1>1. /\ RxNum \in Nat \ {0} /\ arrived \in Nat /\ Put \in Nat /\ isr.n \in Nat
  BY LwipTypes
<1>2. Put = armed + isr.n /\ isr.start = At(armed)
  BY DEF Armed
<1>3. Put <= arrived /\ isr.n <= RxNum
  BY <1>1, <1>2 DEF LwipInv, BuffersHold, Armed
<1>4. Scanned = At(Put)
  <2> DEFINE n == isr.n
  <2>1. n \in Nat /\ armed \in Nat
    BY <1>1
  <2>2. Put = armed + n /\ isr.start = Slot(armed, RxNum) /\ Scanned = Slot(isr.start + n, RxNum)
    BY <1>2, Nexts DEF At
  <2> HIDE DEF n
  <2>3. Slot(Slot(armed, RxNum) + n, RxNum) = Slot(armed + n, RxNum)
    BY <1>1, <2>1, Wraps
  <2> QED BY <2>2, <2>3 DEF At
<1>5. CASE Put = arrived
  <2>1. isr.n = RxNum \/ rx[At(Put)].on
    BY <1>1, <1>2, <1>3, <1>5 DEF Armed
  <2> QED BY <1>2, <1>3, <1>4, <1>5, <2>1 DEF ScanEnds
<1>6. CASE Put < arrived
  <2>1. isr.n # RxNum
    BY <1>1, <1>2, <1>6 DEF Armed
  <2>2. ~rx[At(Put)].on
    BY <1>1, <1>2, <1>6 DEF Armed
  <2> QED BY <1>1, <1>2, <1>3, <1>4, <1>6, <2>1, <2>2 DEF ScanEnds
<1> QED BY <1>1, <1>3, <1>5, <1>6

LEMMA LwipScans ==
  ASSUME Types, driver = "lwip", LwipInv, LwipScan, ~strained'
  PROVE  LwipInv'
<1>1. RxNum' = RxNum /\ \A n : At(n)' = At(n)
  BY RingStays DEF LwipScan
<1>2. /\ pc.isr = "scan" /\ ~ScanEnds /\ QueuePut(Scanned) /\ queue.size # RxNum
      /\ isr'.n = isr.n + 1 /\ isr'.start = isr.start
      /\ UNCHANGED <<rx, rxPointer, macRx, arrived, handled, stat, pc, got, masked>>
  BY DEF LwipScan, rxVars, Types, LoopTypes
<1>3. PICK armed \in 0 .. arrived : Armed(armed)
  BY DEF LwipInv
<1>4. /\ Scanned = At(Put) /\ Put = armed + isr.n /\ isr.n <= RxNum /\ Put < arrived
  <2>1. Put <= arrived /\ Put \in Nat /\ arrived \in Nat
    BY <1>2, <1>3, ScannedNext, LwipTypes
  <2> QED BY <1>2, <1>3, <2>1, ScannedNext
<1>5. /\ RxNum \in Nat \ {0} /\ arrived \in Nat /\ Len(handled) \in Nat /\ queue.size \in Nat
      /\ Taken \in Nat /\ Put \in Nat /\ Len(handled) <= Taken /\ Taken <= Put
      /\ Put = Taken + queue.size /\ isr.n \in Nat
  BY LwipTypes
<1>6. /\ queue'.front = At(Put + 1) /\ queue'.back = queue.back /\ queue'.size = queue.size + 1
      /\ queue'.slot = [queue.slot EXCEPT ![At(Put)] = At(Put)]
  <2>1. queue.front = At(Put) /\ After(At(Put)) = At(Put + 1)
    BY <1>5, AtFacts DEF LwipInv, QueueHolds
  <2> QED BY <1>2, <1>4, <2>1 DEF QueuePut
<1>7. Taken' = Taken /\ Put' = Put + 1 /\ Rearming' = Rearming
  <2>1. Taken' = Taken /\ Rearming' = Rearming
    BY <1>2 DEF Taken, Rearming
  <2> QED BY <1>5, <1>6, <2>1 DEF Put
<1>8. \A f \in Taken .. Put : queue'.slot[At(f)] = At(f)
  <2> TAKE f \in Taken .. Put
  <2>1. queue.slot \in [Ring -> Ring] /\ At(Put) \in Ring
    BY <1>5, AtFacts DEF Types, LoopTypes
  <2>2. CASE f = Put BY <1>6, <2>1, <2>2
  <2>3. CASE f < Put
    <3>1. f \in Nat /\ f \in Taken .. Put - 1
      BY <1>5, <2>3
    <3>2. At(f) \in Ring
      BY <3>1, AtFacts
    <3>3. queue.slot[At(f)] = At(f)
      BY <3>1 DEF LwipInv, QueueHolds
    <3>4. arrived <= Len(handled) + RxNum
      BY DEF LwipInv, BuffersHold
    <3>5. Put < f + RxNum
      BY <1>4, <1>5, <3>1, <3>4
    <3>6. At(f) # At(Put)
      BY <1>5, <2>3, <3>1, <3>5, AtFacts
    <3> QED BY <1>6, <2>1, <3>2, <3>3, <3>6
  <2> QED BY <1>5, <2>2, <2>3
<1>9. QueueHolds'
  BY SMTT(30), <1>1, <1>2, <1>5, <1>6, <1>7, <1>8 DEF LwipInv, QueueHolds
<1>10. BuffersHold'
  <2>1. Put' <= arrived'
    BY <1>2, <1>4, <1>5, <1>7
  <2> QED BY <1>1, <1>2, <2>1 DEF LwipInv, BuffersHold
<1>11. Armed(armed)'
  <2>1. Put' = armed + isr'.n /\ armed <= Put' /\ Taken' <= armed
    <3>1. Taken <= armed /\ armed <= Put
      BY <1>3 DEF Armed
    <3>2. Put' = armed + isr'.n
      BY <1>2, <1>4, <1>5, <1>7
    <3>3. armed \in Nat /\ Put' = Put + 1 /\ Put \in Nat
      BY <1>5, <1>7
    <3>4. armed <= Put'
      BY <3>1, <3>3
    <3>5. Taken' <= armed
      BY <1>7, <3>1
    <3> QED BY <3>2, <3>4, <3>5
  <2>2. ~Rearming'
    BY <1>2 DEF Rearming
  <2> QED BY <1>1, <1>2, <1>3, <2>1, <2>2 DEF Armed
<1> QED BY <1>2, <1>3, <1>9, <1>10, <1>11 DEF LwipInv

LEMMA LwipScanned ==
  ASSUME Types, driver = "lwip", LwipInv, LwipScanEnds
  PROVE  LwipInv'
<1>1. RxNum' = RxNum /\ \A n : At(n)' = At(n)
  BY RingStays DEF LwipScanEnds
<1>2. /\ pc.isr = "scan" /\ ScanEnds /\ pc'.main = pc.main /\ pc'.isr \in {"phy", "prepare"}
      /\ UNCHANGED <<rx, rxPointer, macRx, arrived, handled, stat, isr, queue, got, masked>>
  BY DEF LwipScanEnds, rxVars, Types, PcTypes
<1>3. PICK armed \in 0 .. arrived : Armed(armed)
  BY DEF LwipInv
<1>4. Put = armed + isr.n /\ Put = arrived
  BY <1>2, <1>3, ScannedNext
<1>5. Taken' = Taken /\ Put' = Put
  BY <1>2 DEF Taken, Put
<1>6. QueueHolds' BY <1>1, <1>2, <1>5 DEF LwipInv, QueueHolds
<1>7. BuffersHold' BY <1>1, <1>2, <1>5 DEF LwipInv, BuffersHold
<1>8. Armed(armed)' BY <1>1, <1>2, <1>3, <1>4, <1>5 DEF Armed, Rearming
<1> QED BY <1>2, <1>3, <1>6, <1>7, <1>8 DEF LwipInv

LEMMA LwipLooksAtPhy ==
  ASSUME Types, driver = "lwip", LwipInv, CheckPhy("isr", "prepare")
  PROVE  LwipInv'
<1>1. RxNum' = RxNum /\ \A n : At(n)' = At(n)
  BY RingStays DEF CheckPhy
<1>2. /\ pc.isr \in {"phy", "stat1", "stat2"} /\ pc'.isr \in {"stat1", "stat2", "prepare"}
      /\ pc'.main = pc.main
      /\ UNCHANGED <<rx, rxPointer, macRx, arrived, handled, stat, isr, queue, got, masked>>
  BY DEF CheckPhy, LinkStatus, rxVars, Types, PcTypes
<1>3. PICK armed \in 0 .. arrived : Armed(armed)
  BY DEF LwipInv
<1>4. Taken' = Taken /\ Put' = Put
  BY <1>2 DEF Taken, Put
<1>5. QueueHolds' BY <1>1, <1>2, <1>4 DEF LwipInv, QueueHolds
<1>6. BuffersHold' BY <1>1, <1>2, <1>4 DEF LwipInv, BuffersHold
<1>7. Armed(armed)' BY <1>1, <1>2, <1>3, <1>4 DEF Armed, Rearming
<1> QED BY <1>2, <1>3, <1>5, <1>6, <1>7 DEF LwipInv

\* mac_rx_prepare arms a descriptor, or finds the first that is armed and ends.
LEMMA LwipPrepares ==
  ASSUME Types, driver = "lwip", LwipInv, MacRxPrepare
  PROVE  LwipInv'
<1>1. RxNum' = RxNum /\ \A n : At(n)' = At(n)
  BY RingStays DEF MacRxPrepare
<1>2. /\ pc.isr = "prepare" /\ pc'.main = pc.main
      /\ UNCHANGED <<arrived, macRx, handled, stat, queue, got, masked>>
  BY DEF MacRxPrepare, MAC_Receive, rxVars, Types, PcTypes
<1>3. PICK armed \in 0 .. arrived : Armed(armed)
  BY DEF LwipInv
<1>4. /\ Put = arrived /\ rxPointer = At(armed) /\ Taken <= armed
      /\ arrived <= armed + RxNum
  BY <1>2, <1>3 DEF Armed, Rearming
<1>5. /\ RxNum \in Nat \ {0} /\ arrived \in Nat /\ Taken \in Nat /\ rx \in [Ring -> Desc]
      /\ Len(handled) \in Nat
  BY LwipTypes
<1>6. Taken' = Taken /\ Put' = Put
  BY <1>2 DEF Taken, Put
<1>7. QueueHolds'
  BY <1>1, <1>2, <1>6 DEF LwipInv, QueueHolds
<1>8. CASE rx[rxPointer].on
  <2>1. pc'.isr = "idle" /\ isr'.n = 0 /\ rx' = rx /\ rxPointer' = rxPointer
    BY <1>8 DEF MacRxPrepare, rxVars, Types, PcTypes
  <2>2. armed = arrived
    BY <1>3, <1>4, <1>5, <1>8 DEF Armed
  <2>3. BuffersHold' BY <1>1, <1>2, <1>6, <2>1 DEF LwipInv, BuffersHold
  <2>4. Armed(armed)'
    BY <1>1, <1>2, <1>3, <1>4, <1>5, <1>6, <2>1, <2>2 DEF Armed, Rearming
  <2> QED BY <1>2, <1>3, <1>7, <2>3, <2>4 DEF LwipInv
<1>9. CASE ~rx[rxPointer].on
  <2>1. /\ rx' = [rx EXCEPT ![At(armed)].on = TRUE] /\ rxPointer' = At(armed + 1)
        /\ pc' = pc /\ isr' = isr
    BY <1>4, <1>5, <1>9, AtFacts DEF MacRxPrepare, MAC_Receive
  <2>2. armed < arrived
    <3>1. CASE armed = arrived
      BY <1>3, <1>4, <1>5, <1>9, <3>1 DEF Armed
    <3> QED BY <1>3, <1>5, <3>1
  <2>3. At(armed) \in Ring
    BY <1>5, AtFacts
  <2>4. \A n \in Nat : At(n) \in Ring /\ rx'[At(n)].frame = rx[At(n)].frame
    <3> TAKE n \in Nat
    <3>1. At(n) \in Ring
      BY AtFacts
    <3> QED BY <1>5, <2>1, <2>3, <3>1 DEF Desc
  <2>5. BuffersHold'
    BY <1>1, <1>2, <1>5, <1>6, <2>4 DEF LwipInv, BuffersHold
  <2>6. /\ rx'[At(armed)].on
        /\ \A f \in armed + 1 .. armed + RxNum - 1 : rx'[At(f)] = rx[At(f)]
    <3>1. \A f \in armed + 1 .. armed + RxNum - 1 : At(f) \in Ring /\ At(f) # At(armed)
      <4> TAKE f \in armed + 1 .. armed + RxNum - 1
      <4>1. f \in Nat /\ armed \in Nat /\ armed < f /\ f < armed + RxNum
        BY <1>5
      <4> QED BY <4>1, AtFacts
    <3> QED BY <1>5, <2>1, <2>3, <3>1 DEF Desc
  <2>7. \A f \in armed + 1 .. arrived - 1 : ~rx'[At(f)].on
    BY <1>3, <1>4, <1>5, <2>6 DEF Armed
  <2>8. \A f \in arrived .. armed + 1 + RxNum - 1 : rx'[At(f)].on
    <3> TAKE f \in arrived .. armed + 1 + RxNum - 1
    <3>1. CASE f = armed + RxNum
      <4>1. At(f) = At(armed)
        BY <3>1, AtFacts
      <4> QED BY <2>6, <4>1
    <3>2. CASE f # armed + RxNum
      <4>1. f \in arrived .. armed + RxNum - 1 /\ f \in armed + 1 .. armed + RxNum - 1
        BY <1>5, <2>2, <3>2
      <4> QED BY <1>3, <2>6, <4>1 DEF Armed
    <3> QED BY <3>1, <3>2
  <2>9. Armed(armed + 1)'
    BY <1>1, <1>2, <1>3, <1>4, <1>5, <1>6, <2>1, <2>2, <2>7, <2>8 DEF Armed, Rearming
  <2> QED BY <1>2, <1>5, <1>7, <2>2, <2>5, <2>9 DEF LwipInv
<1> QED BY <1>8, <1>9

\* sys_arch_protect: the size that is read stays true until the buffer is taken.
LEMMA LwipProtects ==
  ASSUME Types, driver = "lwip", LwipInv, LwipProtect \/ LwipLoops
  PROVE  LwipInv'
<1>1. RxNum' = RxNum /\ \A n : At(n)' = At(n)
  BY RingStays DEF LwipProtect, LwipLoops
<1>2. /\ pc.isr = "idle" /\ pc'.isr = pc.isr /\ pc.main # "input" /\ pc'.main \in {"get", "loop"}
      /\ pc'.main = "get" => masked' /\ got'.size = queue.size
      /\ UNCHANGED <<rx, rxPointer, macRx, arrived, handled, stat, isr, queue>>
  BY DEF LwipProtect, LwipLoops, MainRuns, rxVars, Types, PcTypes, LoopTypes
<1>3. Taken' = Taken /\ Put' = Put
  BY <1>2 DEF Taken, Put
<1>4. QueueHolds' BY <1>1, <1>2, <1>3 DEF LwipInv, QueueHolds
<1>5. BuffersHold' BY <1>1, <1>2, <1>3 DEF LwipInv, BuffersHold
<1>6. PICK armed \in 0 .. arrived : Armed(armed) BY DEF LwipInv
<1>7. Armed(armed)' BY <1>1, <1>2, <1>3, <1>6 DEF Armed, Rearming
<1> QED BY <1>2, <1>4, <1>5, <1>6, <1>7 DEF LwipInv

LEMMA LwipGets ==
  ASSUME Types, driver = "lwip", LwipInv, LwipGet
  PROVE  LwipInv'
<1>1. RxNum' = RxNum /\ \A n : At(n)' = At(n)
  BY RingStays DEF LwipGet
<1>2. /\ pc.main = "get" /\ pc'.isr = pc.isr /\ pc.isr = "idle" /\ got.size = queue.size
      /\ UNCHANGED <<rx, rxPointer, macRx, arrived, handled, stat, isr>>
  BY DEF LwipGet, MainRuns, rxVars, Types, PcTypes, LwipInv, QueueHolds
<1>3. /\ RxNum \in Nat \ {0} /\ arrived \in Nat /\ Len(handled) \in Nat /\ queue.size \in Nat
      /\ Taken \in Nat /\ Put \in Nat /\ Taken <= Put /\ Put = Taken + queue.size
  BY LwipTypes
<1>4. Taken = Len(handled)
  BY <1>2, <1>3 DEF Taken
<1>5. PICK armed \in 0 .. arrived : Armed(armed)
  BY DEF LwipInv
<1>6. CASE queue.size = 0
  <2>1. pc'.main = "out" /\ queue' = queue
    BY <1>2, <1>6 DEF LwipGet, Types, PcTypes
  <2>2. Taken' = Taken /\ Put' = Put
    BY <1>2, <2>1 DEF Taken, Put
  <2>3. QueueHolds' BY <1>1, <1>2, <2>1, <2>2 DEF LwipInv, QueueHolds
  <2>4. BuffersHold' BY <1>1, <1>2, <2>2 DEF LwipInv, BuffersHold
  <2>5. Armed(armed)' BY <1>1, <1>2, <1>5, <2>2 DEF Armed, Rearming
  <2> QED BY <1>2, <1>5, <2>3, <2>4, <2>5 DEF LwipInv
<1>7. CASE queue.size # 0
  <2>1. /\ pc'.main = "input" /\ queue'.size = queue.size - 1 /\ queue'.front = queue.front
        /\ queue'.back = After(queue.back) /\ queue'.slot = queue.slot
        /\ got'.p = queue.slot[queue.back]
    <3>1. /\ pc' = [pc EXCEPT !.main = "input"]
          /\ queue' = [queue EXCEPT !.size = got.size - 1, !.back = After(@)]
          /\ got' = [size |-> 0, p |-> queue.slot[queue.back]]
      BY <1>2, <1>7 DEF LwipGet
    <3>2. queue \in [front : Ring, back : Ring, size : Nat, slot : [Ring -> Ring]]
      BY DEF Types, LoopTypes
    <3> HIDE DEF Ring, After
    <3>3. pc'.main = "input"
      BY <3>1 DEF Types, PcTypes
    <3> QED BY <1>2, <3>1, <3>2, <3>3
  <2>2. Taken' = Taken + 1
    BY <1>2, <1>3, <1>4, <2>1 DEF Taken
  <2>3. Put' = Put
    BY <1>3, <2>1, <2>2 DEF Put
  <2>4. queue'.back = At(Taken + 1) /\ got'.p = At(Taken)
    <3>1. queue.back = At(Taken) /\ After(At(Taken)) = At(Taken + 1)
      BY <1>3, AtFacts DEF LwipInv, QueueHolds
    <3>2. Taken \in Taken .. Put - 1
      BY <1>3, <1>7
    <3>3. queue.slot[At(Taken)] = At(Taken)
      BY <3>2 DEF LwipInv, QueueHolds
    <3> QED BY <2>1, <3>1, <3>3
  <2>5. QueueHolds'
    BY <1>1, <1>2, <1>3, <1>4, <2>1, <2>2, <2>3, <2>4 DEF LwipInv, QueueHolds
  <2>6. BuffersHold' BY <1>1, <1>2, <2>3 DEF LwipInv, BuffersHold
  <2>7. Armed(armed)'
    BY <1>1, <1>2, <1>3, <1>5, <1>7, <2>2, <2>3 DEF Armed, Rearming
  <2> QED BY <1>2, <1>5, <2>5, <2>6, <2>7 DEF LwipInv
<1> QED BY <1>6, <1>7

LEMMA LwipHandles ==
  ASSUME Types, driver = "lwip", LwipInv, LwipInput
  PROVE  LwipInv'
<1>1. RxNum' = RxNum /\ \A n : At(n)' = At(n)
  BY RingStays DEF LwipInput
<1>2. /\ pc.main = "input" /\ pc'.main = "out" /\ pc'.isr = pc.isr
      /\ handled' = Append(handled, rx[got.p].frame)
      /\ UNCHANGED <<rx, rxPointer, macRx, arrived, stat, isr, queue>>
  BY DEF LwipInput, rxVars, Types, PcTypes
<1>3. /\ RxNum \in Nat \ {0} /\ arrived \in Nat /\ Len(handled) \in Nat /\ queue.size \in Nat
      /\ Taken \in Nat /\ Put \in Nat /\ Taken <= Put /\ handled \in Seq(Nat)
  BY LwipTypes
<1>4. Taken = Len(handled) + 1 /\ Put <= arrived
  BY <1>2, <1>3 DEF Taken, LwipInv, BuffersHold
<1>5. rx[got.p].frame = Len(handled) + 1
  BY <1>2, <1>3, <1>4 DEF LwipInv, QueueHolds, BuffersHold
<1>6. Len(handled') = Len(handled) + 1 /\ InOrder(handled')
  BY <1>2, <1>3, <1>5 DEF LwipInv, BuffersHold, InOrder
<1>7. Taken' = Taken /\ Put' = Put
  BY <1>2, <1>3, <1>4, <1>6 DEF Taken, Put
<1>8. QueueHolds' BY <1>1, <1>2, <1>7 DEF LwipInv, QueueHolds
<1>9. BuffersHold'
  <2>1. /\ Put <= arrived /\ arrived <= Len(handled) + RxNum /\ macRx = At(arrived)
        /\ \A f \in Len(handled) .. arrived - 1 : rx[At(f)].frame = f + 1
    BY DEF LwipInv, BuffersHold
  <2>2. \A f \in Len(handled) + 1 .. arrived - 1 : rx[At(f)].frame = f + 1
    BY <1>3, <2>1
  <2>3. arrived <= Len(handled) + 1 + RxNum
    BY <1>3, <2>1
  <2> QED BY <1>1, <1>2, <1>6, <1>7, <2>1, <2>2, <2>3 DEF BuffersHold
<1>10. PICK armed \in 0 .. arrived : Armed(armed) BY DEF LwipInv
<1>11. Armed(armed)' BY <1>1, <1>2, <1>7, <1>10 DEF Armed, Rearming
<1> QED BY <1>2, <1>8, <1>9, <1>10, <1>11 DEF LwipInv

LEMMA LwipNext ==
  ASSUME Types, driver = "lwip", LwipInv, [Next]_vars, ~strained'
  PROVE  LwipInv'
<1>1. CASE LwipIsr
  BY <1>1, LwipEnters, LwipScans, LwipScanned, LwipPrepares, LwipLooksAtPhy DEF LwipIsr
<1>2. CASE LwipMain
  BY <1>2, LwipProtects, LwipGets, LwipHandles DEF LwipMain
<1>3. CASE FrameArrives
  BY <1>3, LwipArrives
<1>4. ~UsbIsr /\ ~UsbMain /\ ~TudNetworkRecvCb /\ ~BadFrameArrives
  BY DEF Types, PcTypes, UsbIsr, UsbIsrEnter, UsbIsrEnds, UsbMain, UsbTask, ServiceTraffic,
         TudNetworkRecvCb, BadFrameArrives
<1>5. CASE NetifOutput \/ MacSends \/ PhyChanges \/ UsbFetches \/ UNCHANGED vars
  <2>1. /\ UNCHANGED <<driver, rxVars, handled, queue, isr, pc, got, masked>>
        /\ "rx" \in stat => "rx" \in stat'
    BY <1>5 DEF NetifOutput, MacSends, PhyChanges, UsbFetches, vars
  <2> QED BY <2>1, LwipStays
<1> QED BY <1>1, <1>2, <1>3, <1>4, <1>5 DEF Next, Isr, Main

-----------------------------------------------------------------------------
(* All together.                                                            *)

LEMMA InvInit == Init => Inv
<1>1. Init => strained = FALSE
  BY DEF Init
<1> QED BY <1>1, TypesInit, SendInit, UsbInvInit, LwipInvInit DEF Inv

LEMMA InvNext == Inv /\ [Next]_vars => Inv'
<1> SUFFICES ASSUME Inv, [Next]_vars PROVE Inv'
  OBVIOUS
<1>1. Types' /\ driver' = driver
  BY TypesNext, Changes DEF Inv
\* what was too much stays too much
<1>2. strained => strained'
  BY Changes DEF FrameArrives, LwipScan, NetifOutput
<1>3. driver # "lwip" => ~strained'
  BY Changes DEF Inv, Types, PcTypes, FrameArrives, LwipScan, NetifOutput
<1>4. driver = "lwip" /\ ~strained' => LwipInv'
  BY <1>2, LwipNext DEF Inv
<1>5. driver # "lwip" => UsbInv'
  BY UsbNext DEF Inv
<1>6. ~strained' => SendInv'
  BY <1>2, SendNext DEF Inv
<1> QED BY <1>1, <1>3, <1>4, <1>5, <1>6 DEF Inv

LEMMA InvHolds == Spec => []Inv
BY InvInit, InvNext, PTL DEF Spec

-----------------------------------------------------------------------------
(* What the invariant means for the frames on their way.                    *)

LEMMA SentInOrder == Inv => SentAsGiven
<1> SUFFICES ASSUME Inv, ~strained
             PROVE  /\ sent = [f \in 1 .. Len(sent) |-> f]
                    /\ HeldInOrder(tx, From(macTx, TxNum, TxNum), LAMBDA d : d.on,
                                   Len(sent) + 1, given)
  BY DEF SentAsGiven
<1> DEFINE s == Len(sent)
           is == From(macTx, TxNum, TxNum)
           in == {k \in DOMAIN is : tx[is[k]].on}
<1>1. SendInv /\ Types
  BY DEF Inv
<1>2. /\ TxNum \in Nat \ {0} /\ s \in Nat /\ given \in Nat /\ sent \in Seq(Nat)
      /\ s <= given /\ given <= s + TxNum
  BY <1>1, Sizes DEF Types, TxTypes, SendInv
<1>3. sent = [f \in 1 .. s |-> f]
  BY <1>1, <1>2 DEF SendInv, InOrder
<1>4. DOMAIN is = 1 .. TxNum /\ \A k \in 1 .. TxNum : is[k] = Slot(s + (k - 1), TxNum)
  <2>1. DOMAIN is = 1 .. TxNum /\ \A k \in 1 .. TxNum : is[k] = Slot(macTx + k - 1, TxNum)
    BY DEF From, Slot
  <2>2. \A k \in 1 .. TxNum : Slot(macTx + k - 1, TxNum) = Slot(s + (k - 1), TxNum)
    <3> TAKE k \in 1 .. TxNum
    <3> DEFINE n == k - 1
    <3>1. n \in Nat /\ macTx + k - 1 = macTx + n /\ macTx = Slot(s, TxNum)
      BY <1>1, <1>2 DEF SendInv, Types, TxTypes
    <3> HIDE DEF n, s
    <3>2. Slot(Slot(s, TxNum) + n, TxNum) = Slot(s + n, TxNum)
      BY <1>2, <3>1, Wraps
    <3> QED BY <3>1, <3>2 DEF n
  <2> QED BY <2>1, <2>2
<1>5. \A k \in 1 .. TxNum : k <= given - s => tx[is[k]].on /\ tx[is[k]].frame = s + k
  <2> TAKE k \in 1 .. TxNum
  <2> HAVE k <= given - s
  <2>1. s + (k - 1) \in s .. given - 1 /\ (s + (k - 1)) + 1 = s + k
    BY <1>2
  <2> QED BY <1>1, <1>4, <2>1 DEF SendInv
<1>6. \A k \in 1 .. TxNum : k > given - s => ~tx[is[k]].on
  <2> TAKE k \in 1 .. TxNum
  <2> HAVE k > given - s
  <2>1. s + (k - 1) \in given .. s + TxNum - 1
    BY <1>2
  <2> QED BY <1>1, <1>4, <2>1 DEF SendInv
<1> HIDE DEF s, is
<1>7. in = 1 .. given - s /\ \A k \in in : tx[is[k]].frame = s + k
  BY <1>2, <1>4, <1>5, <1>6
<1> HIDE DEF in
<1>8. {tx[is[k]].frame : k \in in} = s + 1 .. given
  <2>1. \A k \in in : tx[is[k]].frame \in s + 1 .. given
    BY <1>2, <1>7
  <2>2. \A f \in s + 1 .. given : f - s \in in /\ tx[is[f - s]].frame = f
    BY <1>2, <1>7
  <2> QED BY <2>1, <2>2
<1>9. \A j, k \in in : j < k => tx[is[j]].frame < tx[is[k]].frame
  BY <1>2, <1>7
<1>10. s + 1 <= given + 1
  BY <1>2
<1>11. HeldInOrder(tx, is, LAMBDA d : d.on, s + 1, given)
  BY <1>8, <1>9, <1>10 DEF HeldInOrder, in
<1> QED BY <1>3, <1>11 DEF s, is

\* Every frame given for sending is sent once, in order and as it was given: no transmit
\* buffer is filled again before the MAC has sent it.  In the adapter always; in lwip,
\* which does not look at the descriptor (agm_lwip.c:96), as long as it is not strained,
\* that is given more frames to receive or to send at a time than it has room for.
THEOREM SentOnceInOrder == Spec => []SentAsGiven
BY InvHolds, SentInOrder, PTL

\* Sequences that go on where the one before ends.
LEMMA InOrderTogether ==
  ASSUME NEW s \in Seq(Nat), NEW t \in Seq(Nat), InOrder(s),
         \A k \in 1 .. Len(t) : t[k] = Len(s) + k
  PROVE  InOrder(s \o t) /\ s \o t \in Seq(Nat) /\ Len(s \o t) = Len(s) + Len(t)
<1>1. s \o t \in Seq(Nat) /\ Len(s \o t) = Len(s) + Len(t)
  OBVIOUS
<1>2. ASSUME NEW k \in 1 .. Len(s) + Len(t) PROVE (s \o t)[k] = k
  <2>1. CASE k <= Len(s) BY <2>1 DEF InOrder
  <2>2. CASE k > Len(s) BY <2>2
  <2> QED BY <2>1, <2>2
<1> QED BY <1>1, <1>2 DEF InOrder

\* From the place of the m-th on, the k-th is that of the (m + k - 1)-th.
LEMMA FromAt ==
  ASSUME NEW m \in Nat, NEW n \in Nat
  PROVE  /\ DOMAIN From(At(m), n, RxNum) = 1 .. n
         /\ \A k \in 1 .. n : From(At(m), n, RxNum)[k] = At(m + (k - 1))
<1>1. RxNum \in Nat \ {0} /\ At(m) \in Nat
  BY Sizes, AtFacts
<1>2. /\ DOMAIN From(At(m), n, RxNum) = 1 .. n
      /\ \A k \in 1 .. n : From(At(m), n, RxNum)[k] = Slot(At(m) + k - 1, RxNum)
  BY DEF From, Slot
<1>3. \A k \in 1 .. n : Slot(At(m) + k - 1, RxNum) = At(m + (k - 1))
  <2> TAKE k \in 1 .. n
  <2> DEFINE i == k - 1
  <2>1. i \in Nat /\ At(m) + k - 1 = At(m) + i
    BY <1>1
  <2> HIDE DEF i
  <2>2. Slot(Slot(m, RxNum) + i, RxNum) = Slot(m + i, RxNum)
    BY <1>1, <2>1, Wraps
  <2> QED BY <2>1, <2>2 DEF At, i
<1> QED BY <1>2, <1>3

\* lwip: the frames that have been handled or put into the queue are in order.
LEMMA LwipTaken ==
  ASSUME Types, driver = "lwip", LwipInv
  PROVE  /\ InOrder(handled \o InHand \o Queued) /\ handled \o InHand \o Queued \in Seq(Nat)
         /\ Len(handled \o InHand \o Queued) = Put /\ Len(InHand) = Taken - Len(handled)
<1>1. /\ RxNum \in Nat \ {0} /\ arrived \in Nat /\ Len(handled) \in Nat /\ queue.size \in Nat
      /\ Taken \in Nat /\ Put \in Nat /\ Len(handled) <= Taken /\ Taken <= Put
      /\ Put = Taken + queue.size /\ handled \in Seq(Nat)
  BY LwipTypes
<1>2. Put <= arrived /\ InOrder(handled)
  BY DEF LwipInv, BuffersHold
<1>3. \A f \in Taken .. Put - 1 : rx[queue.slot[At(f)]].frame = f + 1
  <2> TAKE f \in Taken .. Put - 1
  <2>1. f \in Len(handled) .. arrived - 1
    BY <1>1, <1>2
  <2>2. queue.slot[At(f)] = At(f)
    BY DEF LwipInv, QueueHolds
  <2>3. rx[At(f)].frame = f + 1
    BY <2>1 DEF LwipInv, BuffersHold
  <2> QED BY <2>2, <2>3
<1>4. /\ InHand \in Seq(Nat) /\ Len(InHand) = Taken - Len(handled)
      /\ \A k \in 1 .. Len(InHand) : InHand[k] = Len(handled) + k
  <2>1. CASE pc.main = "input"
    <3>1. Taken = Len(handled) + 1 /\ got.p = At(Len(handled))
      BY <1>1, <2>1 DEF Taken, LwipInv, QueueHolds
    <3>2. rx[got.p].frame = Len(handled) + 1
      BY <1>1, <1>2, <3>1 DEF LwipInv, BuffersHold
    <3>3. InHand = <<Len(handled) + 1>>
      BY <2>1, <3>2 DEF InHand
    <3> QED BY <1>1, <3>1, <3>3
  <2>2. CASE pc.main # "input"
    <3>1. Taken = Len(handled) /\ InHand = <<>>
      BY <1>1, <2>2 DEF Taken, InHand
    <3> QED BY <1>1, <3>1
  <2> QED BY <2>1, <2>2
<1> DEFINE t == handled \o InHand
<1>5. InOrder(t) /\ t \in Seq(Nat) /\ Len(t) = Taken
  BY <1>1, <1>2, <1>4, InOrderTogether
<1>6. /\ Queued \in Seq(Nat) /\ Len(Queued) = queue.size
      /\ \A k \in 1 .. Len(Queued) : Queued[k] = Taken + k
  <2> DEFINE slots == From(queue.back, queue.size, RxNum)
  <2>1. queue.back = At(Taken)
    BY DEF LwipInv, QueueHolds
  <2>2. DOMAIN slots = 1 .. queue.size /\ \A k \in 1 .. queue.size : slots[k] = At(Taken + (k - 1))
    <3> DEFINE m == Taken
               n == queue.size
    <3>1. m \in Nat /\ n \in Nat /\ slots = From(At(m), n, RxNum)
      BY <1>1, <2>1
    <3> HIDE DEF m, n, slots
    <3>2. DOMAIN slots = 1 .. n /\ \A k \in 1 .. n : slots[k] = At(m + (k - 1))
      BY <3>1, FromAt
    <3> QED BY <3>2 DEF m, n
  <2>3. Queued = [k \in DOMAIN slots |-> rx[queue.slot[slots[k]]].frame]
    BY DEF Queued
  <2> HIDE DEF slots
  <2>4. \A k \in 1 .. queue.size : rx[queue.slot[slots[k]]].frame = Taken + k
    <3> TAKE k \in 1 .. queue.size
    <3>1. Taken + (k - 1) \in Taken .. Put - 1 /\ (Taken + (k - 1)) + 1 = Taken + k
      BY <1>1
    <3> QED BY <1>3, <2>2, <3>1
  <2>5. Queued = [k \in 1 .. queue.size |-> Taken + k]
    BY <2>2, <2>3, <2>4
  <2> DEFINE n == queue.size
             m == Taken
  <2>6. n \in Nat /\ m \in Nat /\ Queued = [k \in 1 .. n |-> m + k]
    BY <1>1, <2>5
  <2> HIDE DEF n, m
  <2>7. Queued \in Seq(Nat) /\ Len(Queued) = n /\ \A k \in 1 .. n : Queued[k] = m + k
    BY <2>6
  <2> QED BY <2>7 DEF n, m
<1> HIDE DEF t
<1>7. InOrder(t \o Queued) /\ t \o Queued \in Seq(Nat) /\ Len(t \o Queued) = Put
  <2>1. \A k \in 1 .. Len(Queued) : Queued[k] = Len(t) + k BY ONLY <1>5, <1>6
  <2>2. /\ InOrder(t \o Queued) /\ t \o Queued \in Seq(Nat)
        /\ Len(t \o Queued) = Len(t) + Len(Queued)
    BY ONLY <1>5, <1>6, <2>1, InOrderTogether
  <2>3. Len(t) + Len(Queued) = Put BY <1>1, <1>5, <1>6
  <2> QED BY ONLY <2>2, <2>3
<1> QED BY <1>4, <1>7 DEF t

LEMMA LwipInOrder ==
  ASSUME Types, driver = "lwip", LwipInv
  PROVE  HeldInOrder(rx, NotRead, Good, Put + 1, arrived)
<1> DEFINE h == Len(handled)
           p == Put
           n == RxNum - queue.size - Len(InHand)
           in == {k \in DOMAIN NotRead : Good(rx[NotRead[k]])}
<1>1. /\ RxNum \in Nat \ {0} /\ arrived \in Nat /\ h \in Nat /\ p \in Nat
      /\ h <= p /\ p <= arrived /\ arrived <= h + RxNum
  <2>1. p <= arrived /\ arrived <= h + RxNum
    BY DEF LwipInv, BuffersHold
  <2>2. h <= Taken /\ Taken <= p /\ h \in Nat /\ Taken \in Nat /\ p \in Nat
    BY LwipTypes
  <2> QED BY <2>1, <2>2, LwipTypes
<1>2. n = h + RxNum - p /\ n \in Nat
  <2> DEFINE hand == Len(InHand)
             size == queue.size
             t == Taken
  <2>1. /\ hand = t - h /\ n = RxNum - size - hand /\ p = t + size
        /\ t \in Nat /\ size \in Nat
    BY LwipTaken, LwipTypes
  <2> HIDE DEF h, hand, size, t, p, n
  <2> QED BY <1>1, <2>1
<1>3. \A f \in h .. arrived - 1 : rx[At(f)].frame = f + 1
  BY DEF LwipInv, BuffersHold
<1>4. PICK armed \in 0 .. arrived :
        /\ h <= armed /\ armed <= p
        /\ \A f \in armed .. arrived - 1 : ~rx[At(f)].on
        /\ \A f \in arrived .. armed + RxNum - 1 : rx[At(f)].on
  <2>1. PICK armed \in 0 .. arrived : Armed(armed)
    BY DEF LwipInv
  <2>2. h <= Taken /\ h \in Nat /\ Taken \in Nat /\ Taken <= armed /\ armed <= p
    BY <2>1, LwipTypes DEF Armed
  <2>3. h <= armed
    BY <2>2
  <2> QED BY <2>1, <2>2, <2>3 DEF Armed
<1>5. queue.front = At(p)
  BY DEF LwipInv, QueueHolds
<1>6. NotRead = From(At(p), n, RxNum)
  BY <1>5 DEF NotRead
<1> HIDE DEF h, p, n
<1>7. DOMAIN NotRead = 1 .. n /\ \A k \in 1 .. n : NotRead[k] = At(p + (k - 1))
  BY <1>1, <1>2, <1>6, FromAt
<1>8. \A k \in 1 .. n : k <= arrived - p =>
        Good(rx[NotRead[k]]) /\ rx[NotRead[k]].frame = p + k
  <2> TAKE k \in 1 .. n
  <2> HAVE k <= arrived - p
  <2> DEFINE f == p + (k - 1)
  <2>1. f \in h .. arrived - 1 /\ f \in armed .. arrived - 1 /\ f + 1 = p + k
    BY <1>1, <1>2, <1>4
  <2>2. NotRead[k] = At(f)
    BY <1>7
  <2> HIDE DEF f
  <2>3. rx[At(f)].frame = f + 1 /\ ~rx[At(f)].on /\ f + 1 # 0
    BY <1>1, <1>3, <1>4, <2>1
  <2> QED BY <2>1, <2>2, <2>3 DEF Good
<1>9. \A k \in 1 .. n : k > arrived - p => ~Good(rx[NotRead[k]])
  <2> TAKE k \in 1 .. n
  <2> HAVE k > arrived - p
  <2> DEFINE f == p + (k - 1)
  <2>1. f \in arrived .. armed + RxNum - 1
    BY <1>1, <1>2, <1>4
  <2>2. NotRead[k] = At(f)
    BY <1>7
  <2> HIDE DEF f
  <2>3. rx[At(f)].on
    BY <1>4, <2>1
  <2> QED BY <2>2, <2>3 DEF Good
<1>10. in = 1 .. arrived - p /\ \A k \in in : rx[NotRead[k]].frame = p + k
  <2>1. arrived - p \in Nat /\ arrived - p <= n
    BY <1>1, <1>2
  <2>2. in = 1 .. arrived - p
    BY <1>2, <1>7, <1>8, <1>9, <2>1
  <2> QED BY <1>2, <1>8, <2>1, <2>2
<1> HIDE DEF in
<1>11. {rx[NotRead[k]].frame : k \in in} = p + 1 .. arrived
  <2>1. \A k \in in : rx[NotRead[k]].frame \in p + 1 .. arrived
    BY <1>1, <1>10
  <2>2. \A f \in p + 1 .. arrived : f - p \in in /\ rx[NotRead[f - p]].frame = f
    BY <1>1, <1>10
  <2> QED BY <2>1, <2>2
<1>12. \A j, k \in in : j < k => rx[NotRead[j]].frame < rx[NotRead[k]].frame
  BY <1>1, <1>10
<1>13. p + 1 <= arrived + 1
  BY <1>1
<1> QED BY <1>11, <1>12, <1>13 DEF HeldInOrder, in, p

LEMMA UsbInOrder ==
  ASSUME Types, driver # "lwip", UsbInv
  PROVE  /\ handled \o InHand \o Queued = handled
         /\ HeldInOrder(rx, NotRead, Good, Len(handled) + 1, arrived)
<1>1. /\ RxNum \in Nat \ {0} /\ rxPointer \in 0 .. RxNum - 1 /\ rxPointer \in Nat
      /\ handled \in Seq(Nat) /\ arrived \in Nat /\ queue.size = 0
      /\ Len(handled) \in Nat /\ Len(handled) <= arrived
  BY Sizes DEF Types, RxTypes, LoopTypes, UsbInv, Ring
<1>2. InHand = <<>>
  BY DEF InHand, Types, PcTypes
<1>3. Queued = <<>>
  <2> DEFINE slots == From(queue.back, queue.size, RxNum)
  <2>1. DOMAIN slots = 1 .. 0
    BY <1>1 DEF From
  <2>2. Queued = [k \in DOMAIN slots |-> rx[queue.slot[slots[k]]].frame]
    BY DEF Queued
  <2> HIDE DEF slots
  <2> QED BY <2>1, <2>2
<1>4. handled \o InHand \o Queued = handled
  BY <1>1, <1>2, <1>3
<1>5. PICK n \in 0 .. RxNum : FilledBy(n)
  BY DEF UsbInv
<1> DEFINE h == Len(handled)
           F(k) == Kth(k).frame
           in == {k \in DOMAIN NotRead : Good(rx[NotRead[k]])}
<1>6. DOMAIN NotRead = 1 .. RxNum /\ \A k \in 1 .. RxNum : rx[NotRead[k]] = Kth(k - 1)
  <2>1. At(rxPointer) = rxPointer
    BY <1>1, First DEF At
  <2>2. DOMAIN NotRead = 1 .. RxNum /\ \A k \in 1 .. RxNum : NotRead[k] = At(rxPointer + (k - 1))
    <3> DEFINE m == rxPointer
               n0 == RxNum
    <3>1. m \in Nat /\ n0 \in Nat /\ NotRead = From(At(m), n0, RxNum)
      BY <1>1, <2>1 DEF NotRead
    <3> HIDE DEF m, n0
    <3>2. DOMAIN NotRead = 1 .. n0 /\ \A k \in 1 .. n0 : NotRead[k] = At(m + (k - 1))
      BY <3>1, FromAt
    <3> QED BY <3>2 DEF m, n0
  <2> QED BY <2>2 DEF Kth, At
<1>7. \A k \in 1 .. RxNum : k \in in <=> k - 1 \in 0 .. n - 1 /\ F(k - 1) # 0
  <2> TAKE k \in 1 .. RxNum
  <2>1. k - 1 \in 0 .. RxNum - 1 /\ (k - 1 >= n <=> k - 1 \notin 0 .. n - 1)
    BY <1>1
  <2>2. Kth(k - 1).on <=> k - 1 >= n
    BY <1>5, <2>1 DEF FilledBy
  <2> QED BY <1>6, <2>1, <2>2 DEF Good
<1>8. /\ \A k \in 0 .. n - 1 : F(k) = 0 \/ F(k) \in h + 1 .. arrived
      /\ \A j, k \in 0 .. n - 1 : j < k /\ F(j) # 0 /\ F(k) # 0 => F(j) < F(k)
      /\ \A f \in h + 1 .. arrived : \E k \in 0 .. n - 1 : F(k) = f
  BY <1>5 DEF FilledBy
<1>9. in \subseteq 1 .. RxNum /\ \A k \in 1 .. RxNum : rx[NotRead[k]].frame = F(k - 1)
  BY <1>6
<1>10. h \in Nat /\ h + 1 <= arrived + 1
  BY <1>1
<1> HIDE DEF h, F, in
<1>11. {rx[NotRead[k]].frame : k \in in} = h + 1 .. arrived
  <2>1. \A k \in in : rx[NotRead[k]].frame \in h + 1 .. arrived
    <3> TAKE k \in in
    <3>1. k \in 1 .. RxNum /\ k - 1 \in 0 .. n - 1 /\ F(k - 1) # 0 /\ rx[NotRead[k]].frame = F(k - 1)
      BY <1>7, <1>9
    <3> QED BY <1>8, <3>1
  <2>2. \A f \in h + 1 .. arrived : \E k \in in : rx[NotRead[k]].frame = f
    <3> TAKE f \in h + 1 .. arrived
    <3>1. PICK k \in 0 .. n - 1 : F(k) = f
      BY <1>8
    <3>2. f # 0 /\ k + 1 \in 1 .. RxNum /\ (k + 1) - 1 = k
      BY <1>1, <1>10
    <3>3. k + 1 \in in /\ rx[NotRead[k + 1]].frame = f
      BY <1>7, <1>9, <3>1, <3>2
    <3> QED BY <3>3
  <2> QED BY <2>1, <2>2
<1>12. \A j, k \in in : j < k => rx[NotRead[j]].frame < rx[NotRead[k]].frame
  <2> TAKE j, k \in in
  <2> HAVE j < k
  <2>1. /\ j \in 1 .. RxNum /\ j - 1 \in 0 .. n - 1 /\ F(j - 1) # 0 /\ rx[NotRead[j]].frame = F(j - 1)
        /\ k \in 1 .. RxNum /\ k - 1 \in 0 .. n - 1 /\ F(k - 1) # 0 /\ rx[NotRead[k]].frame = F(k - 1)
    BY <1>7, <1>9
  <2>2. j - 1 < k - 1
    BY <2>1
  <2> QED BY <1>8, <2>1, <2>2
<1> QED BY <1>4, <1>10, <1>11, <1>12 DEF HeldInOrder, in, h

LEMMA ReceivedInOrder == Inv => FramesInOrder
<1> SUFFICES ASSUME Inv, ~strained PROVE FramesInOrder
  BY DEF FramesInOrder
<1> DEFINE taken == handled \o InHand \o Queued
<1>1. /\ InOrder(taken) /\ taken \in Seq(Nat)
      /\ HeldInOrder(rx, NotRead, Good, Len(taken) + 1, arrived)
  <2>1. CASE driver = "lwip"
    BY <2>1, LwipTaken, LwipInOrder DEF Inv
  <2>2. CASE driver # "lwip"
    <3>1. taken = handled /\ HeldInOrder(rx, NotRead, Good, Len(handled) + 1, arrived)
      BY <2>2, UsbInOrder DEF Inv
    <3>2. InOrder(handled) /\ handled \in Seq(Nat)
      BY <2>2 DEF Inv, UsbInv, Types, LoopTypes
    <3> HIDE DEF taken
    <3> QED BY <3>1, <3>2
  <2> QED BY <2>1, <2>2
<1> HIDE DEF taken
<1>2. taken = [f \in 1 .. Len(taken) |-> f]
  BY <1>1 DEF InOrder
<1> QED BY <1>1, <1>2 DEF FramesInOrder, taken

\* Every received frame is handled once, in order and as it came, however handler and
\* main loop interleave: with lwip as long as no more frames come than there are
\* buffers and none while the handler arms the descriptors, with the USB adapter
\* always, whatever frames with errors come in between.
THEOREM HandledOnceInOrder == Spec => []FramesInOrder
BY InvHolds, ReceivedInOrder, PTL

-----------------------------------------------------------------------------
(* RtosDemos: the invariant of the start-up, the tasks and the channels.     *)

(* What was created, and in which order. *)
Done(s) ==
  /\ s[1] = "task" => s[2] \in DOMAIN task
  /\ s[1] = "channel" => s[2] \in DOMAIN count
  /\ kernel = "freertos" /\ s[1] = "scheduler" => "daemon" \in DOMAIN task
  /\ kernel = "freertos" /\ s = <<"task", "gp">> => "gp" \in DOMAIN count
Created ==
  /\ \A k \in 1 .. start : Done(Startup[k])
  /\ \A t \in DOMAIN task : \/ <<"task", t>> \in {Startup[k] : k \in 1 .. start}
                            \/ t = "daemon" /\ kernel = "freertos"
  /\ DOMAIN task \cap DOMAIN Delay \subseteq DOMAIN age
  /\ DOMAIN count \cap DOMAIN Delay \subseteq DOMAIN age
  /\ DOMAIN count \subseteq Channels /\ (kernel = "embos" => DOMAIN count = {})
  /\ hook.on => kernel = "freertos" \/ <<"hook">> \in {Startup[k] : k \in 1 .. start}
  /\ gp.on => <<"gptimer">> \in {Startup[k] : k \in 1 .. start}

RtosTypes ==
  /\ kernel \in {"freertos", "rtthread", "ucos", "embos"}
  /\ start \in 0 .. Len(Startup)
  /\ task \in [DOMAIN task -> {"new", "ready", "waits", "delays", "works"}]
  /\ age \in [DOMAIN age -> Nat] /\ count \in [DOMAIN count -> Nat]
  /\ hook \in [on : BOOLEAN, ticks : Nat] /\ gp \in [on : BOOLEAN, age : 0 .. GpPeriod - 1, flag : BOOLEAN]
  /\ late \in Nat /\ stepped \in BOOLEAN

(* During the start-up no task runs; what is given comes in as many units as steps. *)
Spent == IF stepped THEN 1 ELSE 0
SemEarly ==
  "sem" \in DOMAIN count => 2 * count["sem"] + (IF hook.ticks > 0 THEN 1 ELSE 0) + Spent <= start
Interrupts == (IF "gp" \in DOMAIN count THEN count["gp"] ELSE 0) + (IF gp.flag THEN 1 ELSE 0)
GpEarly == 2 * Interrupts + (IF gp.age > 0 THEN 1 ELSE 0) + Spent <= start
Early ==
  /\ \A t \in DOMAIN task : task[t] = "new" /\ (t = "tx" => age[t] = 0)
  /\ \A c \in DOMAIN count : c \in {"queue", "timer"} \/ kernel = "freertos" => count[c] = 0
  /\ kernel = "freertos" => hook.ticks = 0
  /\ SemEarly /\ GpEarly
StartingUp ==
  /\ start = 0 => ~stepped
  /\ ~hook.on => hook.ticks = 0
  /\ ~gp.on => gp.age = 0 /\ ~gp.flag
  /\ ~Started => Early
  /\ kernel = "rtthread" /\ start = 1 /\ stepped => hook.ticks = 0
  /\ kernel = "ucos" /\ start = 2 /\ stepped => hook.ticks = 0
  /\ kernel = "ucos" /\ start = 8 => ~gp.flag /\ (stepped => gp.age = 0)

(* Who waits has nothing to take. *)
Waiting ==
  \A t \in DOMAIN task :
    /\ task[t] = "waits" => t \in DOMAIN ChannelOf /\ count[ChannelOf[t]] = 0
    /\ task[t] = "delays" => t \in DOMAIN Delay

(* How much a channel holds, and since when its task is busy. *)
SemHolds ==
  LET n == IF kernel = "freertos" THEN 0 ELSE 5
  IN  "sem" \in DOMAIN count =>
        count["sem"] <= n \/ (count["sem"] <= n + 1 /\ hook.ticks <= late)
GpHolds == "gp" \in DOMAIN count => Interrupts <= 5 \/ (Interrupts = 6 /\ gp.age <= late)
TimerHolds ==
  "timer" \in DOMAIN count =>
    \/ count["timer"] = 0
    \/ kernel = "freertos" /\ count["timer"] = 1 /\ age["timer"] <= late
Sent == count["queue"] + (IF task["tx"] = "works" THEN 1 ELSE 0)
Backlog(n, since) ==
  \/ n = 0
  \/ n = 1 /\ since <= late
  \/ n = 2 /\ QueuePeriod + since <= late
  \/ n = 3 /\ 2 * QueuePeriod + since <= late
  \/ n = 4 /\ 3 * QueuePeriod + since <= late
QueueSmall ==
  "queue" \in DOMAIN count /\ "tx" \in DOMAIN task =>
    IF kernel = "freertos" THEN count["queue"] <= 1
    ELSE (task["tx"] # "delays" => age["tx"] = 0) /\ Backlog(Sent, age["tx"])

RtosIInv ==
  /\ RtosTypes /\ Created /\ StartingUp /\ Waiting
  /\ Started => SemHolds /\ GpHolds /\ TimerHolds /\ QueueSmall
  /\ EventsArrive

(* The tables of the programs. *)
LEMMA StartupIs ==
  /\ kernel = "freertos" =>
       /\ Len(Startup) = 9 /\ Startup[1] = <<"gptimer">> /\ Startup[2] = <<"channel", "queue">>
       /\ Startup[3] = <<"channel", "sem">> /\ Startup[4] = <<"task", "rx">>
       /\ Startup[5] = <<"task", "tx">> /\ Startup[6] = <<"task", "sem">>
       /\ Startup[7] = <<"channel", "timer">> /\ Startup[8] = <<"task", "gp">>
       /\ Startup[9] = <<"scheduler">>
  /\ kernel = "rtthread" =>
       /\ Len(Startup) = 10 /\ Startup[1] = <<"hook">> /\ Startup[2] = <<"channel", "sem">>
       /\ Startup[3] = <<"task", "sem">> /\ Startup[4] = <<"channel", "timer">>
       /\ Startup[5] = <<"channel", "queue">> /\ Startup[6] = <<"task", "rx">>
       /\ Startup[7] = <<"task", "tx">> /\ Startup[8] = <<"channel", "gp">>
       /\ Startup[9] = <<"task", "gp">> /\ Startup[10] = <<"gptimer">>
  /\ kernel = "ucos" =>
       /\ Len(Startup) = 10 /\ Startup[1] = <<"task", "timer">> /\ Startup[2] = <<"hook">>
       /\ Startup[3] = <<"channel", "sem">> /\ Startup[4] = <<"task", "sem">>
       /\ Startup[5] = <<"channel", "queue">> /\ Startup[6] = <<"task", "tx">>
       /\ Startup[7] = <<"task", "rx">> /\ Startup[8] = <<"gptimer">>
       /\ Startup[9] = <<"channel", "gp">> /\ Startup[10] = <<"task", "gp">>
  /\ kernel = "embos" =>
       /\ Len(Startup) = 3 /\ Startup[1] = <<"task", "hp">> /\ Startup[2] = <<"task", "lp">>
       /\ Startup[3] = <<"scheduler">>
BY DEF Startup, FreeRtosStart, RtThreadStart, UcosStart, EmbosStart

(* The delays and the channels of the tasks. *)
LEMMA TablesAre ==
  /\ DOMAIN Delay = {"tx", "timer", "hp", "lp"} /\ Delay["tx"] = QueuePeriod
  /\ Delay["timer"] = TimerPeriod
  /\ DOMAIN ChannelOf = {"rx", "sem", "gp", "daemon"} /\ ChannelOf["rx"] = "queue"
  /\ ChannelOf["sem"] = "sem" /\ ChannelOf["gp"] = "gp" /\ ChannelOf["daemon"] = "timer"
BY DEF Delay, ChannelOf

(* Every delay is a number of units. *)
LEMMA DelaysAre == \A t \in DOMAIN Delay : Delay[t] \in Nat \ {0}
BY RtosAssumption DEF Delay

(* The types of the constants. *)
LEMMA PeriodsAre ==
  /\ QueuePeriod \in Nat \ {0} /\ SemPeriod \in Nat \ {0} /\ TimerPeriod \in Nat \ {0}
  /\ GpPeriod \in Nat \ {0} /\ MaxLate \in Nat
BY RtosAssumption

(* What the channels hold at most. *)
LEMMA HoldsIs ==
  /\ \A c : Holds(c) \in Nat \ {0}
  /\ Holds("gp") = 8 /\ Holds("timer") = 8
  /\ Holds("sem") = (IF kernel = "freertos" THEN 1 ELSE 8)
  /\ Holds("queue") = (IF kernel = "freertos" THEN 1 ELSE IF kernel = "ucos" THEN 4 ELSE 8)
BY DEF Holds

(* How many steps the start-up has. *)
LEMMA StartupLength ==
  ASSUME kernel \in {"freertos", "rtthread", "ucos", "embos"}
  PROVE  /\ kernel = "freertos" => Len(Startup) = 9
         /\ kernel = "rtthread" => Len(Startup) = 10
         /\ kernel = "ucos" => Len(Startup) = 10
         /\ kernel = "embos" => Len(Startup) = 3
         /\ \E n \in {3, 9, 10} : Len(Startup) = n
<1>1. CASE kernel = "freertos" BY <1>1 DEF Startup, FreeRtosStart
<1>2. CASE kernel = "rtthread" BY <1>2 DEF Startup, RtThreadStart
<1>3. CASE kernel = "ucos" BY <1>3 DEF Startup, UcosStart
<1>4. CASE kernel = "embos" BY <1>4 DEF Startup, EmbosStart
<1>5. QED BY <1>1, <1>2, <1>3, <1>4

(* What a step of the start-up names. *)
LEMMA StartupParts ==
  ASSUME kernel \in {"freertos", "rtthread", "ucos", "embos"}, NEW k \in 1 .. Len(Startup)
  PROVE  /\ Startup[k][1] = "channel" => Startup[k][2] \in Channels
         /\ Startup[k][1] = "task" => Startup[k] = <<Startup[k][1], Startup[k][2]>>
         /\ kernel = "embos" => Startup[k][1] # "channel"
<1> DEFINE Made(x) == /\ x[1] = "channel" => x[2] \in Channels
                      /\ x[1] = "task" => x = <<x[1], x[2]>>
<1>1. /\ Made(<<"gptimer">>) /\ Made(<<"hook">>) /\ Made(<<"scheduler">>)
      /\ \A c \in Channels : Made(<<"channel", c>>)
      /\ \A t : Made(<<"task", t>>)
  OBVIOUS
<1>2. {"queue", "sem", "gp", "timer"} \subseteq Channels BY DEF Channels
<1> HIDE DEF Made
<1>4. CASE kernel = "freertos"
  <2>1. Len(Startup) = 9 BY <1>4, StartupIs
  <2>2. k \in {1, 2, 3, 4, 5, 6, 7, 8, 9} BY ONLY <2>1
  <2>3. QED BY <1>1, <1>2, <1>4, <2>2, StartupIs DEF Made
<1>5. CASE kernel = "rtthread"
  <2>1. Len(Startup) = 10 BY <1>5, StartupIs
  <2>2. k \in {1, 2, 3, 4, 5, 6, 7, 8, 9, 10} BY ONLY <2>1
  <2>3. QED BY <1>1, <1>2, <1>5, <2>2, StartupIs DEF Made
<1>6. CASE kernel = "ucos"
  <2>1. Len(Startup) = 10 BY <1>6, StartupIs
  <2>2. k \in {1, 2, 3, 4, 5, 6, 7, 8, 9, 10} BY ONLY <2>1
  <2>3. QED BY <1>1, <1>2, <1>6, <2>2, StartupIs DEF Made
<1>7. CASE kernel = "embos"
  <2>1. Len(Startup) = 3 BY <1>7, StartupIs
  <2>2. k \in {1, 2, 3} BY ONLY <2>1
  <2>3. QED BY <1>1, <1>2, <1>7, <2>2, StartupIs DEF Made
<1>8. QED BY <1>4, <1>5, <1>6, <1>7

(* What has been created when it is used, and what never is. *)
LEMMA Creation ==
  ASSUME RtosTypes, Created
  PROVE  /\ kernel = "freertos" =>
              /\ Started => {"rx", "tx", "sem", "gp", "daemon"} \subseteq DOMAIN task
              /\ Started => {"queue", "sem", "gp", "timer"} \subseteq DOMAIN count
              /\ DOMAIN task \subseteq {"rx", "tx", "sem", "gp", "daemon"}
         /\ kernel = "rtthread" =>
              /\ start > 1 => "sem" \in DOMAIN count
              /\ hook.on => start > 0
              /\ gp.on => Started
              /\ Started => {"rx", "tx", "sem", "gp"} \subseteq DOMAIN task
              /\ Started => {"queue", "sem", "gp"} \subseteq DOMAIN count
              /\ DOMAIN task \subseteq {"rx", "tx", "sem", "gp"}
         /\ kernel = "ucos" =>
              /\ start > 2 => "sem" \in DOMAIN count
              /\ start > 8 => "gp" \in DOMAIN count
              /\ hook.on => start > 1
              /\ gp.on => start > 7
              /\ Started => {"rx", "tx", "sem", "gp"} \subseteq DOMAIN task
              /\ Started => {"queue", "sem", "gp"} \subseteq DOMAIN count
              /\ DOMAIN task \subseteq {"rx", "tx", "sem", "gp", "timer"}
         /\ kernel = "embos" =>
              /\ ~hook.on /\ ~gp.on
              /\ DOMAIN task \subseteq {"hp", "lp"}
<1>1. start \in Nat /\ start <= Len(Startup) BY StartupIs DEF RtosTypes
<1>2. \A k \in 1 .. start : Done(Startup[k]) BY DEF Created
<1>3. ASSUME NEW t \in DOMAIN task, t # "daemon" \/ kernel # "freertos"
      PROVE  \E k \in 1 .. start : Startup[k][1] = "task" /\ Startup[k][2] = t
  <2>1. <<"task", t>> \in {Startup[k] : k \in 1 .. start} BY <1>3 DEF Created
  <2>2. PICK k \in 1 .. start : Startup[k] = <<"task", t>> BY ONLY <2>1
  <2>3. QED BY ONLY <2>2
<1>4. hook.on /\ kernel # "freertos" => \E k \in 1 .. start : Startup[k] = <<"hook">> /\ Startup[k][1] = "hook"
  BY DEF Created
<1>5. gp.on => \E k \in 1 .. start : Startup[k] = <<"gptimer">> /\ Startup[k][1] = "gptimer"
  BY DEF Created
<1> HIDE DEF Startup
<1>6. CASE kernel = "freertos"
  <2>1. start <= 9 /\ (Started => start = 9) BY <1>1, <1>6, StartupIs DEF Started
  <2>2. Started => {"rx", "tx", "sem", "gp", "daemon"} \subseteq DOMAIN task
    BY <1>2, <1>6, <2>1, StartupIs DEF Done
  <2>3. Started => {"queue", "sem", "gp", "timer"} \subseteq DOMAIN count
    BY <1>2, <1>6, <2>1, StartupIs DEF Done
  <2>4. DOMAIN task \subseteq {"rx", "tx", "sem", "gp", "daemon"} BY <1>1, <1>3, <1>6, <2>1, StartupIs
  <2>5. QED BY <1>6, <2>2, <2>3, <2>4
<1>7. CASE kernel = "rtthread"
  <2>1. start <= 10 /\ (Started <=> start = 10) BY <1>1, <1>7, StartupIs DEF Started
  <2>2. (start > 1 => "sem" \in DOMAIN count) /\ (start > 7 => {"queue", "sem", "gp"} \subseteq DOMAIN count)
    BY <1>1, <1>2, <1>7, StartupIs DEF Done
  <2>3. start > 8 => {"rx", "tx", "sem", "gp"} \subseteq DOMAIN task BY <1>1, <1>2, <1>7, StartupIs DEF Done
  <2>4. DOMAIN task \subseteq {"rx", "tx", "sem", "gp"} BY <1>1, <1>3, <1>7, <2>1, StartupIs
  <2>5. hook.on => start > 0 BY <1>1, <1>4, <1>7, <2>1
  <2>6. gp.on => start = 10 BY <1>1, <1>5, <1>7, <2>1, StartupIs
  <2>7. QED BY <1>1, <1>7, <2>1, <2>2, <2>3, <2>4, <2>5, <2>6
<1>8. CASE kernel = "ucos"
  <2>1. start <= 10 /\ (Started <=> start = 10) BY <1>1, <1>8, StartupIs DEF Started
  <2>2. (start > 2 => "sem" \in DOMAIN count) /\ (start > 8 => {"queue", "sem", "gp"} \subseteq DOMAIN count)
    BY <1>1, <1>2, <1>8, StartupIs DEF Done
  <2>3. start > 9 => {"rx", "tx", "sem", "gp"} \subseteq DOMAIN task BY <1>1, <1>2, <1>8, StartupIs DEF Done
  <2>4. DOMAIN task \subseteq {"rx", "tx", "sem", "gp", "timer"} BY <1>1, <1>3, <1>8, <2>1, StartupIs
  <2>5. hook.on => start > 1 BY <1>1, <1>4, <1>8, <2>1, StartupIs
  <2>6. gp.on => start > 7 BY <1>1, <1>5, <1>8, <2>1, StartupIs
  <2>7. QED BY <1>1, <1>8, <2>1, <2>2, <2>3, <2>4, <2>5, <2>6
<1>9. CASE kernel = "embos"
  <2>1. start <= 3 BY <1>1, <1>9, StartupIs
  <2>2. DOMAIN task \subseteq {"hp", "lp"} BY <1>1, <1>3, <1>9, <2>1, StartupIs
  <2>3. ~hook.on BY <1>1, <1>4, <1>9, <2>1, StartupIs
  <2>4. ~gp.on BY <1>1, <1>5, <1>9, <2>1, StartupIs
  <2>5. QED BY <1>9, <2>2, <2>3, <2>4
<1>10. QED BY <1>6, <1>7, <1>8, <1>9 DEF RtosTypes

(* The invariant holds before the start-up. *)
LEMMA InitRtos == RtosInit => RtosIInv
<1> SUFFICES ASSUME RtosInit PROVE RtosIInv
  OBVIOUS
<1> USE DEF RtosInit
<1>1. kernel \in {"freertos", "rtthread", "ucos", "embos"} BY RtosAssumption
<1>2. Len(Startup) \in Nat \ {0} BY <1>1, StartupIs
<1>3. ~Started BY <1>2 DEF Started
<1>4. DOMAIN task = {} /\ DOMAIN age = {} /\ DOMAIN count = {} /\ DOMAIN found = {} OBVIOUS
<1>5. task \in [{} -> {"new", "ready", "waits", "delays", "works"}] /\ age \in [{} -> Nat] /\ count \in [{} -> Nat]
  OBVIOUS
<1>6. RtosTypes
  <2>1. start \in 0 .. Len(Startup) BY <1>2
  <2>2. hook \in [on : BOOLEAN, ticks : Nat] OBVIOUS
  <2>3. gp \in [on : BOOLEAN, age : 0 .. GpPeriod - 1, flag : BOOLEAN] BY PeriodsAre
  <2>4. QED BY <1>1, <1>4, <1>5, <2>1, <2>2, <2>3 DEF RtosTypes
<1>7. Created
  <2>1. 1 .. start = {} OBVIOUS
  <2>2. ~gp.on /\ (hook.on => kernel = "freertos") OBVIOUS
  <2>3. QED BY ONLY <1>4, <2>1, <2>2 DEF Created
<1>8. StartingUp BY <1>3, <1>4 DEF StartingUp, Early, SemEarly, GpEarly, Interrupts, Spent
<1>9. Waiting BY <1>4 DEF Waiting
<1>10. EventsArrive BY <1>4 DEF EventsArrive, NothingLost, OnlyCreated
<1>11. QED BY <1>3, <1>6, <1>7, <1>8, <1>9, <1>10 DEF RtosIInv

(* A step of the start-up makes one thing, and that is all of it. *)
LEMMA StartStepKeeps == ASSUME RtosTiming, RtosIInv, StartStep PROVE RtosIInv'
<1> DEFINE s == Startup[start + 1]
           new == IF s[1] = "task" THEN {s[2]}
                  ELSE IF s[1] = "scheduler" /\ kernel = "freertos" THEN {"daemon"} ELSE {}
           made == IF s[1] = "channel" THEN {s[2]}
                   ELSE IF s = <<"task", "gp">> /\ kernel = "freertos" THEN {"gp"} ELSE {}
<1>1. /\ ~Started /\ start' = start + 1 /\ stepped' = (start' < Len(Startup))
      /\ task' = With(task, new, "new")
      /\ age' = With(age, (new \cup made) \cap DOMAIN Delay, 0)
      /\ count' = With(count, made, 0)
      /\ hook' = [hook EXCEPT !.on = @ \/ s = <<"hook">>]
      /\ gp' = [gp EXCEPT !.on = @ \/ s = <<"gptimer">>]
      /\ UNCHANGED <<kernel, found, late, lost, misused>>
  BY Zenon DEF StartStep
<1>2. /\ RtosTypes /\ Created /\ StartingUp /\ Waiting /\ EventsArrive
  BY Zenon DEF RtosIInv
<1>3. /\ start \in Nat /\ start < Len(Startup) /\ start' \in 1 .. Len(Startup)
      /\ Startup' = Startup /\ Len(Startup) \in Nat /\ start <= 9
  <2>1. start \in 0 .. Len(Startup) /\ kernel \in {"freertos", "rtthread", "ucos", "embos"} BY <1>2 DEF RtosTypes
  <2>2. PICK n \in {3, 9, 10} : Len(Startup) = n BY <2>1, StartupLength
  <2>3. start # Len(Startup) BY <1>1 DEF Started
  <2>4. kernel' = kernel => Startup' = Startup BY DEF Startup
  <2>5. start' = start + 1 /\ kernel' = kernel BY <1>1
  <2>6. QED BY ONLY <2>1, <2>2, <2>3, <2>4, <2>5
<1>4. made \subseteq Channels /\ (s[1] = "task" => s = <<s[1], s[2]>>) /\ (kernel = "embos" => s[1] # "channel")
  <2>1. start + 1 \in 1 .. Len(Startup) /\ kernel \in {"freertos", "rtthread", "ucos", "embos"}
    BY <1>2, <1>3 DEF RtosTypes
  <2>2. s[1] = "channel" => s[2] \in Channels BY <2>1, StartupParts
  <2>3. s[1] = "task" => s = <<s[1], s[2]>> BY <2>1, StartupParts
  <2>4. kernel = "embos" => s[1] # "channel" BY <2>1, StartupParts
  <2>5. QED BY <2>2, <2>3, <2>4 DEF Channels
<1>5. /\ DOMAIN task' = new \cup DOMAIN task /\ DOMAIN count' = made \cup DOMAIN count
      /\ DOMAIN age' = ((new \cup made) \cap DOMAIN Delay) \cup DOMAIN age
  BY <1>1 DEF With
<1>6. /\ \A t \in DOMAIN task' : task'[t] = (IF t \in new THEN "new" ELSE task[t])
      /\ \A c \in DOMAIN count' : count'[c] = (IF c \in made THEN 0 ELSE count[c])
      /\ \A t \in DOMAIN age' : age'[t] = (IF t \in (new \cup made) \cap DOMAIN Delay THEN 0 ELSE age[t])
  BY <1>1 DEF With
<1>7. /\ hook'.on = (hook.on \/ s = <<"hook">>) /\ hook'.ticks = hook.ticks
      /\ gp'.on = (gp.on \/ s = <<"gptimer">>) /\ gp'.age = gp.age /\ gp'.flag = gp.flag
  BY <1>1, <1>2 DEF RtosTypes
<1>8. RtosTypes'
  <2>1. task' \in [DOMAIN task' -> {"new", "ready", "waits", "delays", "works"}]
    BY <1>1, <1>2 DEF With, RtosTypes
  <2>2. age' \in [DOMAIN age' -> Nat] /\ count' \in [DOMAIN count' -> Nat]
    BY <1>1, <1>2 DEF With, RtosTypes
  <2>3. hook' \in [on : BOOLEAN, ticks : Nat] /\ gp' \in [on : BOOLEAN, age : 0 .. GpPeriod - 1, flag : BOOLEAN]
    BY <1>1, <1>2 DEF RtosTypes
  <2>4. kernel' \in {"freertos", "rtthread", "ucos", "embos"} /\ late' \in Nat BY <1>1, <1>2 DEF RtosTypes
  <2>5. stepped' \in BOOLEAN BY <1>1
  <2>6. start' \in 0 .. Len(Startup') BY <1>3
  <2>7. GpPeriod' = GpPeriod OBVIOUS
  <2>8. QED BY ONLY <2>1, <2>2, <2>3, <2>4, <2>5, <2>6, <2>7 DEF RtosTypes
<1>9. Created'
  <2>1. \A k \in 1 .. start' : k \in 1 .. start \/ k = start + 1 BY <1>1, <1>3
  <2>2. /\ s[1] = "task" => s[2] \in DOMAIN task'
        /\ s[1] = "channel" => s[2] \in DOMAIN count'
        /\ kernel = "freertos" /\ s[1] = "scheduler" => "daemon" \in DOMAIN task'
        /\ kernel = "freertos" /\ s = <<"task", "gp">> => "gp" \in DOMAIN count'
    <3>1. s[1] = "task" => s[1] # "channel" /\ s[1] # "scheduler" OBVIOUS
    <3>2. s[1] = "channel" => s # <<"task", "gp">> OBVIOUS
    <3>3. QED BY <1>5, <3>1, <3>2
  <2>3. \A k \in 1 .. start : Done(Startup[k]) BY <1>2 DEF Created
  <2>4. ASSUME NEW k \in 1 .. start' PROVE Done(Startup[k])'
    <3> HIDE DEF new, made, Startup
    <3>1. CASE k \in 1 .. start BY <1>1, <1>3, <1>5, <2>3, <3>1 DEF Done
    <3>2. CASE k = start + 1 BY <1>1, <1>3, <2>2, <3>2 DEF Done
    <3>3. QED BY <2>1, <3>1, <3>2
  <2>5. ASSUME NEW t \in DOMAIN task'
        PROVE  \/ <<"task", t>> \in {Startup'[k] : k \in 1 .. start'}
               \/ t = "daemon" /\ kernel' = "freertos"
    <3>1. CASE t \in DOMAIN task
      <4>1. <<"task", t>> \in {Startup[k] : k \in 1 .. start} \/ (t = "daemon" /\ kernel = "freertos")
        BY <1>2, <3>1, Zenon DEF Created
      <4>2. 1 .. start \subseteq 1 .. start' BY <1>1, <1>3
      <4>3. QED BY <1>1, <1>3, <4>1, <4>2
    <3>2. CASE t \in new /\ s[1] = "task"
      <4>1. s = <<"task", t>> BY <1>4, <3>2
      <4>2. QED BY <1>1, <1>3, <4>1
    <3>3. CASE t \in new /\ s[1] # "task" BY <1>1, <3>3
    <3>4. QED BY <1>5, <3>1, <3>2, <3>3
  <2>6. /\ DOMAIN task' \cap DOMAIN Delay \subseteq DOMAIN age'
        /\ DOMAIN count' \cap DOMAIN Delay \subseteq DOMAIN age'
    <3> HIDE DEF new, made
    <3>1. DOMAIN task \cap DOMAIN Delay \subseteq DOMAIN age /\ DOMAIN count \cap DOMAIN Delay \subseteq DOMAIN age
      BY <1>2 DEF Created
    <3>2. QED BY ONLY <1>5, <3>1
  <2>7. DOMAIN count' \subseteq Channels /\ (kernel' = "embos" => DOMAIN count' = {})
    <3>1. DOMAIN count' \subseteq Channels BY <1>2, <1>4, <1>5 DEF Created
    <3>2. kernel = "embos" => made = {} BY <1>4
    <3>3. QED BY <1>1, <1>2, <1>5, <3>1, <3>2 DEF Created
  <2>8. hook'.on => kernel' = "freertos" \/ <<"hook">> \in {Startup'[k] : k \in 1 .. start'}
    <3>1. hook.on => kernel = "freertos" \/ <<"hook">> \in {Startup[k] : k \in 1 .. start}
      BY <1>2 DEF Created
    <3>2. 1 .. start \subseteq 1 .. start' /\ start + 1 \in 1 .. start' BY <1>1, <1>3
    <3>3. s \in {Startup[k] : k \in 1 .. start'} BY <3>2
    <3>4. kernel' = kernel /\ (hook'.on => hook.on \/ s = <<"hook">>) BY <1>1, <1>7
    <3>5. QED BY <1>3, <3>1, <3>2, <3>3, <3>4
  <2>9. gp'.on => <<"gptimer">> \in {Startup'[k] : k \in 1 .. start'}
    <3>1. gp.on => <<"gptimer">> \in {Startup[k] : k \in 1 .. start}
      BY <1>2 DEF Created
    <3>2. 1 .. start \subseteq 1 .. start' /\ start + 1 \in 1 .. start' BY <1>1, <1>3
    <3>3. s \in {Startup[k] : k \in 1 .. start'} BY <3>2
    <3>4. gp'.on => gp.on \/ s = <<"gptimer">> BY <1>7
    <3>5. QED BY <1>3, <3>1, <3>2, <3>3, <3>4
  <2>10. Delay' = Delay BY DEF Delay
  <2>11. QED BY <2>4, <2>5, <2>6, <2>7, <2>8, <2>9, <2>10 DEF Created
<1>10. \A t \in DOMAIN task' : task'[t] = "new" /\ (t = "tx" /\ t \in DOMAIN age' => age'[t] = 0)
  <2> HIDE DEF new, made
  <2>1. \A t \in DOMAIN task : task[t] = "new" /\ (t = "tx" => age[t] = 0) BY <1>1, <1>2 DEF StartingUp, Early
  <2>2. "tx" \in new => "tx" \in (new \cup made) \cap DOMAIN Delay BY TablesAre
  <2>3. QED BY ONLY <1>5, <1>6, <2>1, <2>2
<1>11. /\ "tx" \in DOMAIN task' => "tx" \in DOMAIN age'
       /\ Started' => start' = Len(Startup)
  BY <1>3, <1>9, TablesAre DEF Created, Started
<1>12. /\ hook.ticks \in Nat /\ gp.age \in Nat /\ gp.flag \in BOOLEAN /\ stepped \in BOOLEAN /\ stepped' \in BOOLEAN
       /\ \A c \in DOMAIN count : count[c] \in Nat
  BY <1>1, <1>2 DEF RtosTypes
<1>13. \A c \in DOMAIN count' : c \in {"queue", "timer"} \/ kernel = "freertos" => count'[c] = 0
  <2> HIDE DEF new, made
  <2>1. \A c \in DOMAIN count : c \in {"queue", "timer"} \/ kernel = "freertos" => count[c] = 0
    BY <1>1, <1>2 DEF StartingUp, Early
  <2>2. QED BY ONLY <1>5, <1>6, <2>1
<1>14. SemEarly'
  <2> HIDE DEF new, made, s
  <2>1. SUFFICES ASSUME "sem" \in DOMAIN count'
                 PROVE  2 * count'["sem"] + (IF hook'.ticks > 0 THEN 1 ELSE 0) + 1 <= start + 1
    BY <1>1, <1>3, <1>5, <1>6, <1>7, <1>12 DEF SemEarly, Spent
  <2>2. Early BY <1>1, <1>2 DEF StartingUp
  <2>3. CASE "sem" \in made
    <3>1. hook.ticks > 0 => start # 0
      <4>1. start = 0 => 1 .. start = {} BY <1>3
      <4>2. start = 0 => kernel = "freertos" \/ ~hook.on BY <1>2, <4>1 DEF Created
      <4>3. QED BY <1>2, <2>2, <4>2 DEF StartingUp, Early
    <3>2. count'["sem"] = 0 BY <1>6, <2>1, <2>3
    <3>3. QED BY <1>3, <1>7, <1>12, <3>1, <3>2
  <2>4. CASE "sem" \notin made
    <3>1. "sem" \in DOMAIN count /\ count'["sem"] = count["sem"] BY <1>5, <1>6, <2>1, <2>4
    <3>2. 2 * count["sem"] + (IF hook.ticks > 0 THEN 1 ELSE 0) + (IF stepped THEN 1 ELSE 0) <= start
      BY <2>2, <3>1 DEF Early, SemEarly, Spent
    <3>3. QED BY <1>3, <1>7, <1>12, <3>1, <3>2
  <2>5. QED BY <2>3, <2>4
<1>15. GpEarly'
  <2> HIDE DEF new, made, s
  <2>1. Interrupts \in Nat /\ Interrupts' \in Nat /\ Interrupts' <= Interrupts
    BY <1>5, <1>6, <1>7, <1>12 DEF Interrupts
  <2>2. 2 * Interrupts + (IF gp.age > 0 THEN 1 ELSE 0) + (IF stepped THEN 1 ELSE 0) <= start
    BY <1>1, <1>2 DEF StartingUp, Early, GpEarly, Spent
  <2> HIDE DEF Interrupts
  <2>3. QED BY <1>1, <1>3, <1>7, <1>12, <2>1, <2>2 DEF GpEarly, Spent
<1>16. StartingUp'
  <2>1. start' # 0 BY <1>3
  <2>2. (~hook'.on => hook'.ticks = 0) /\ (~gp'.on => gp'.age = 0 /\ ~gp'.flag)
    BY <1>2, <1>7 DEF StartingUp
  <2>3. Early'
    <3>1. \A t \in DOMAIN task' : task'[t] = "new" /\ (t = "tx" => age'[t] = 0) BY <1>10, <1>11
    <3>2. kernel' = "freertos" => hook'.ticks = 0 BY <1>1, <1>2, <1>7 DEF StartingUp, Early
    <3>3. kernel' = kernel BY <1>1
    <3>4. QED BY ONLY <1>13, <1>14, <1>15, <3>1, <3>2, <3>3 DEF Early
  <2>4. kernel' = "rtthread" /\ start' = 1 => hook'.ticks = 0
    BY <1>1, <1>2, <1>3, <1>7, Creation DEF StartingUp
  <2>5. kernel' = "ucos" /\ start' = 2 => hook'.ticks = 0
    BY <1>1, <1>2, <1>3, <1>7, Creation DEF StartingUp
  <2>6. kernel' = "ucos" /\ start' = 8 => ~gp'.flag /\ gp'.age = 0
    BY <1>1, <1>2, <1>3, <1>7, Creation DEF StartingUp
  <2> HIDE DEF new, made, s
  <2>7. QED BY ONLY <2>1, <2>2, <2>3, <2>4, <2>5, <2>6 DEF StartingUp
<1>17. Waiting'
  <2>1. \A t \in DOMAIN task' : task'[t] = "new" BY <1>10
  <2>2. QED BY ONLY <2>1 DEF Waiting
<1>18. Started' => (SemHolds /\ GpHolds /\ TimerHolds /\ QueueSmall)'
  <2> HIDE DEF new, made, s
  <2>1. SUFFICES ASSUME Started' PROVE (SemHolds /\ GpHolds /\ TimerHolds /\ QueueSmall)'
    OBVIOUS
  <2>2. start' <= 10 BY <1>1, <1>3
  <2>3. RtosTypes' BY <1>8
  <2>4. SemHolds'
    <3>1. SUFFICES ASSUME "sem" \in DOMAIN count'
                   PROVE  count'["sem"] <= IF kernel' = "freertos" THEN 0 ELSE 5
      BY DEF SemHolds
    <3>2. count'["sem"] \in Nat BY <2>3, <3>1 DEF RtosTypes
    <3>3. kernel' = "freertos" => count'["sem"] = 0 BY <1>1, <1>13, <3>1
    <3>4. 2 * count'["sem"] <= start' BY <1>1, <1>3, <1>14, <3>1, <3>2 DEF SemEarly, Spent
    <3>5. QED BY <1>1, <1>3, <2>2, <3>2, <3>3, <3>4
  <2>5. GpHolds'
    <3>1. Interrupts' \in Nat BY <1>12, <2>3 DEF Interrupts, RtosTypes
    <3> HIDE DEF Interrupts
    <3>2. 2 * Interrupts' <= start' BY <1>1, <1>3, <1>15, <3>1 DEF GpEarly, Spent
    <3>3. QED BY <1>1, <1>3, <2>2, <3>1, <3>2 DEF GpHolds
  <2>6. TimerHolds' BY <1>13 DEF TimerHolds
  <2>7. QueueSmall' BY <1>10, <1>11, <1>13 DEF QueueSmall, Sent, Backlog
  <2>8. QED BY <2>4, <2>5, <2>6, <2>7
<1>19. EventsArrive'
  BY <1>1, <1>2 DEF EventsArrive, NothingLost, OnlyCreated
<1>20. QED BY <1>8, <1>9, <1>16, <1>17, <1>18, <1>19 DEF RtosIInv

(* Nothing is created once the start-up is over. *)
LEMMA NothingNew ==
  ASSUME RtosTypes, Created, DOMAIN task' = DOMAIN task, DOMAIN count' = DOMAIN count, DOMAIN age' = DOMAIN age,
         kernel' = kernel, start' = start, hook'.on = hook.on, gp'.on = gp.on
  PROVE  Created'
<1>1. Startup' = Startup /\ Delay' = Delay BY DEF Startup, Delay
<1>2. ASSUME NEW k \in 1 .. start' PROVE Done(Startup[k])'
  <2>1. Done(Startup[k]) BY <1>2 DEF Created
  <2> HIDE DEF Startup
  <2>2. QED BY <1>1, <2>1 DEF Done
<1> HIDE DEF Startup
<1>3. ASSUME NEW t \in DOMAIN task'
      PROVE  <<"task", t>> \in {Startup'[k] : k \in 1 .. start'} \/ (t = "daemon" /\ kernel' = "freertos")
  <2>1. <<"task", t>> \in {Startup[k] : k \in 1 .. start} \/ (t = "daemon" /\ kernel = "freertos")
    BY <1>3, Zenon DEF Created
  <2>2. QED BY <1>1, <2>1
<1>4. /\ DOMAIN task' \cap DOMAIN Delay \subseteq DOMAIN age'
      /\ DOMAIN count' \cap DOMAIN Delay \subseteq DOMAIN age' /\ DOMAIN count' \subseteq Channels
      /\ kernel' = "embos" => DOMAIN count' = {}
  BY DEF Created
<1>5. /\ hook'.on => kernel' = "freertos" \/ <<"hook">> \in {Startup'[k] : k \in 1 .. start'}
      /\ gp'.on => <<"gptimer">> \in {Startup'[k] : k \in 1 .. start'}
  BY <1>1 DEF Created
<1>6. QED BY <1>1, <1>2, <1>3, <1>4, <1>5 DEF Created

(* What is taken out of a channel, or left there, is no harm to it. *)
LEMMA TakenIsLess ==
  ASSUME RtosTypes, SemHolds, GpHolds, TimerHolds, DOMAIN count' = DOMAIN count,
         \A c \in {"sem", "gp", "timer"} \cap DOMAIN count : count'[c] \in Nat /\ count'[c] <= count[c],
         kernel = "freertos" => age'["timer"] = age["timer"],
         UNCHANGED <<kernel, hook, gp, late>>
  PROVE  SemHolds' /\ GpHolds' /\ TimerHolds'
<1>1. /\ hook.ticks \in Nat /\ gp.age \in Nat /\ gp.flag \in BOOLEAN /\ late \in Nat
      /\ \A c \in DOMAIN count : count[c] \in Nat
  BY DEF RtosTypes
<1>2. SemHolds' BY <1>1 DEF SemHolds
<1>3. GpHolds'
  <2>1. Interrupts \in Nat /\ Interrupts' \in Nat /\ Interrupts' <= Interrupts BY <1>1 DEF Interrupts
  <2> HIDE DEF Interrupts
  <2>2. QED BY <1>1, <2>1 DEF GpHolds
<1>4. TimerHolds'
  <2>1. SUFFICES ASSUME "timer" \in DOMAIN count
                 PROVE  \/ count'["timer"] = 0
                        \/ kernel = "freertos" /\ count'["timer"] = 1 /\ age'["timer"] <= late
    BY DEF TimerHolds
  <2>2. QED BY <1>1, <2>1 DEF TimerHolds
<1>5. QED BY <1>2, <1>3, <1>4

(* A backlog that gets smaller or younger stays a good one. *)
LEMMA BacklogLess ==
  ASSUME NEW n \in Nat, NEW m \in Nat, NEW a \in Nat, NEW b \in Nat, m <= n, b <= a, late \in Nat, late' = late,
         Backlog(n, a)
  PROVE  Backlog(m, b) /\ (Backlog(m, b))'
<1>1. QueuePeriod \in Nat BY PeriodsAre
<1>2. QED BY <1>1 DEF Backlog

(* What tx has not seen received yet stays bounded when a step adds nothing to it. *)
LEMMA QueueLess ==
  ASSUME RtosTypes, RtosTypes', Created, QueueSmall, DOMAIN task' = DOMAIN task, DOMAIN count' = DOMAIN count,
         UNCHANGED <<kernel, late>>, DOMAIN age' = DOMAIN age,
         kernel = "freertos" /\ "queue" \in DOMAIN count => count'["queue"] <= 1,
         "queue" \in DOMAIN count /\ "tx" \in DOMAIN task /\ kernel # "freertos" =>
           /\ age'["tx"] <= age["tx"] /\ Sent' <= Sent
           /\ task'["tx"] # "delays" => age'["tx"] = 0
  PROVE  QueueSmall'
<1>1. SUFFICES ASSUME "queue" \in DOMAIN count, "tx" \in DOMAIN task, kernel # "freertos"
               PROVE  QueueSmall'
  BY DEF QueueSmall
<1>2. "tx" \in DOMAIN age BY <1>1, TablesAre DEF Created
<1>3. age["tx"] \in Nat /\ age'["tx"] \in Nat /\ late \in Nat BY <1>2 DEF RtosTypes
<1>4. count["queue"] \in Nat /\ count'["queue"] \in Nat BY <1>1 DEF RtosTypes
<1>5. Sent \in Nat /\ Sent' \in Nat BY <1>4 DEF Sent
<1>6. Backlog(Sent, age["tx"]) BY <1>1 DEF QueueSmall
<1>7. PICK n \in Nat, m \in Nat, a \in Nat, b \in Nat : n = Sent /\ m = Sent' /\ a = age["tx"] /\ b = age'["tx"]
  BY <1>3, <1>5
<1>8. m <= n /\ b <= a /\ late' = late BY <1>1, <1>7
<1>9. (Backlog(m, b))' BY ONLY <1>3, <1>6, <1>7, <1>8, BacklogLess
<1>10. Backlog(Sent, age["tx"])' BY ONLY <1>7, <1>9 DEF Backlog
<1>11. QED BY <1>1, <1>10 DEF QueueSmall, Backlog, Sent

(* What holds of a task's step, whatever it is. *)
LEMMA StepIs ==
  ASSUME RtosIInv, NEW t \in DOMAIN task, Step(t)
  PROVE  /\ Started /\ start \in Nat /\ Started' /\ UNCHANGED <<kernel, start, hook, gp, late, stepped>>
         /\ RtosTypes /\ Created /\ Waiting /\ EventsArrive
         /\ SemHolds /\ GpHolds /\ TimerHolds /\ QueueSmall
         /\ t \in {"rx", "tx", "sem", "gp", "daemon", "timer", "hp", "lp"}
         /\ t \in DOMAIN ChannelOf => ChannelOf[t] \in DOMAIN count
         /\ t \in DOMAIN Delay => t \in DOMAIN age
         /\ t = "timer" => kernel # "freertos"
         /\ StartingUp'
<1>1. RtosTypes /\ Created /\ Waiting /\ EventsArrive /\ StartingUp BY DEF RtosIInv
<1>2. Started /\ UNCHANGED <<kernel, start, hook, gp, late, stepped>> BY DEF Step, MayRun
<1>3. Started' BY <1>2 DEF Started, Startup
<1>4. SemHolds /\ GpHolds /\ TimerHolds /\ QueueSmall BY <1>2 DEF RtosIInv
<1>5. /\ t \in {"rx", "tx", "sem", "gp", "daemon", "timer", "hp", "lp"}
      /\ t = "timer" => kernel # "freertos"
  BY <1>1, <1>2, Creation DEF RtosTypes
<1>6. t \in DOMAIN ChannelOf => ChannelOf[t] \in DOMAIN count
  BY <1>1, <1>2, Creation, TablesAre DEF RtosTypes
<1>7. t \in DOMAIN Delay => t \in DOMAIN age BY <1>1 DEF Created
<1>8. StartingUp' BY <1>1, <1>2, <1>3 DEF StartingUp
<1>9. start \in Nat BY <1>1, StartupLength DEF RtosTypes
<1>10. QED BY <1>1, <1>2, <1>3, <1>4, <1>5, <1>6, <1>7, <1>8, <1>9

(* A task's first step, and one from its work back to its loop. *)
LEMMA BeginKeeps ==
  ASSUME RtosTiming, RtosIInv, NEW t \in DOMAIN task, Step(t), Begin(t) \/ Work(t)
  PROVE  RtosIInv'
<1>1. /\ Started /\ start \in Nat /\ Started' /\ UNCHANGED <<kernel, start, hook, gp, late, stepped>>
      /\ RtosTypes /\ Created /\ Waiting /\ EventsArrive /\ StartingUp'
      /\ SemHolds /\ GpHolds /\ TimerHolds /\ QueueSmall
      /\ t = "timer" => kernel # "freertos"
  BY StepIs
<1>2. /\ task' = [task EXCEPT ![t] = "ready"] /\ UNCHANGED <<count, found, lost, misused>>
      /\ \/ task[t] = "new" /\ age' = [u \in DOMAIN age |-> IF u = t THEN 0 ELSE age[u]]
         \/ t \in DOMAIN ChannelOf /\ age' = age
  BY DEF Begin, Work, Awake, NoEvent
<1>3. DOMAIN task' = DOMAIN task /\ DOMAIN age' = DOMAIN age BY <1>1, <1>2 DEF RtosTypes
<1>4. RtosTypes'
  <2>1. task' \in [DOMAIN task' -> {"new", "ready", "waits", "delays", "works"}] BY <1>1, <1>2 DEF RtosTypes
  <2>2. age' \in [DOMAIN age' -> Nat] BY <1>1, <1>2 DEF RtosTypes
  <2>3. Startup' = Startup BY <1>1 DEF Startup
  <2>4. QED BY <1>1, <1>2, <2>1, <2>2, <2>3 DEF RtosTypes
<1>5. Created' BY <1>1, <1>2, <1>3, NothingNew
<1>6. Waiting'
  <2>1. ChannelOf' = ChannelOf /\ Delay' = Delay BY DEF ChannelOf, Delay
  <2>2. QED BY <1>1, <1>2, <1>3, <2>1 DEF Waiting, RtosTypes
<1>7. SemHolds' /\ GpHolds' /\ TimerHolds'
  <2>1. kernel = "freertos" => age'["timer"] = age["timer"]
    <3>1. SUFFICES ASSUME kernel = "freertos", age' # age PROVE age'["timer"] = age["timer"]
      OBVIOUS
    <3>2. t # "timer" BY <1>1, <3>1
    <3>3. age' = [u \in DOMAIN age |-> IF u = t THEN 0 ELSE age[u]] BY <1>2, <3>1
    <3>4. "timer" \in DOMAIN age BY <1>1, <3>1, Creation, TablesAre DEF Created
    <3>5. QED BY <3>2, <3>3, <3>4
  <2>2. \A c \in DOMAIN count : count'[c] \in Nat /\ count'[c] <= count[c] BY <1>1, <1>2 DEF RtosTypes
  <2>3. QED BY <1>1, <1>2, <2>1, <2>2, TakenIsLess
<1>8. QueueSmall'
  <2>1. kernel = "freertos" /\ "queue" \in DOMAIN count => count'["queue"] <= 1
    BY <1>1, <1>2, Creation DEF QueueSmall
  <2>2. ASSUME "queue" \in DOMAIN count, "tx" \in DOMAIN task, kernel # "freertos"
        PROVE  /\ age'["tx"] <= age["tx"] /\ Sent' <= Sent
               /\ task'["tx"] # "delays" => age'["tx"] = 0
    <3>1. "tx" \in DOMAIN age BY <1>1, <2>2, TablesAre DEF Created
    <3>2. age["tx"] \in Nat /\ age'["tx"] <= age["tx"] /\ (age["tx"] = 0 => age'["tx"] = 0)
      BY <1>1, <1>2, <3>1 DEF RtosTypes
    <3>3. Sent' <= Sent BY <1>1, <1>2, <2>2 DEF Sent, RtosTypes
    <3>4. task["tx"] # "delays" => age["tx"] = 0 BY <1>1, <2>2 DEF QueueSmall
    <3>5. task'["tx"] # "delays" => age'["tx"] = 0
      BY <1>1, <1>2, <2>2, <3>2, <3>4, TablesAre DEF RtosTypes, Waiting
    <3>6. QED BY <3>2, <3>3, <3>5
  <2>3. QED BY ONLY <1>1, <1>2, <1>3, <1>4, <2>1, <2>2, QueueLess
<1>9. EventsArrive' BY <1>1, <1>2 DEF EventsArrive, NothingLost, OnlyCreated
<1>10. QED BY <1>1, <1>4, <1>5, <1>6, <1>7, <1>8, <1>9 DEF RtosIInv

(* A periodic task comes to its delay. *)
LEMMA BeginDelayKeeps ==
  ASSUME RtosTiming, RtosIInv, NEW t \in DOMAIN task, Step(t), BeginDelay(t)
  PROVE  RtosIInv'
<1>1. /\ Started /\ start \in Nat /\ Started' /\ UNCHANGED <<kernel, start, hook, gp, late, stepped>>
      /\ RtosTypes /\ Created /\ Waiting /\ EventsArrive /\ StartingUp'
      /\ SemHolds /\ GpHolds /\ TimerHolds /\ QueueSmall
      /\ t \in DOMAIN Delay => t \in DOMAIN age
      /\ t = "timer" => kernel # "freertos"
  BY StepIs
<1>2. /\ t \in DOMAIN Delay /\ task[t] = "ready" /\ UNCHANGED <<count, found, lost, misused>>
      /\ IF DelaysFrom(t) >= Delay[t]
         THEN /\ task' = [task EXCEPT ![t] = "works"]
              /\ age' = [age EXCEPT ![t] = @ - Delay[t]]
         ELSE /\ task' = [task EXCEPT ![t] = "delays"]
              /\ age' = [age EXCEPT ![t] = DelaysFrom(t)]
  BY DEF BeginDelay, NoEvent
<1>3. age[t] \in Nat /\ Delay[t] \in Nat \ {0} /\ t \in DOMAIN age BY <1>1, <1>2, DelaysAre DEF RtosTypes
<1>4. DelaysFrom(t) = (IF kernel = "freertos" THEN age[t] ELSE 0) BY DEF DelaysFrom
<1> DEFINE s == task'[t]
           a == age'[t]
<1>5. /\ s \in {"works", "delays"} /\ a \in Nat /\ a <= age[t]
      /\ task' = [task EXCEPT ![t] = s] /\ age' = [age EXCEPT ![t] = a]
      /\ kernel # "freertos" => s = "delays" /\ a = 0
  BY <1>1, <1>2, <1>3, <1>4 DEF RtosTypes
<1> HIDE DEF s, a
<1>6. DOMAIN task' = DOMAIN task /\ DOMAIN age' = DOMAIN age BY <1>5
<1>7. RtosTypes'
  <2>1. task' \in [DOMAIN task' -> {"new", "ready", "waits", "delays", "works"}] BY <1>1, <1>5 DEF RtosTypes
  <2>2. age' \in [DOMAIN age' -> Nat] BY <1>1, <1>5 DEF RtosTypes
  <2>3. Startup' = Startup BY <1>1 DEF Startup
  <2>4. QED BY <1>1, <1>2, <2>1, <2>2, <2>3 DEF RtosTypes
<1>8. Created' BY <1>1, <1>2, <1>6, NothingNew
<1>9. Waiting'
  <2>1. ChannelOf' = ChannelOf /\ Delay' = Delay BY DEF ChannelOf, Delay
  <2>2. QED BY <1>1, <1>2, <1>5, <2>1 DEF Waiting, RtosTypes
<1>10. SemHolds' /\ GpHolds' /\ TimerHolds'
  <2>1. kernel = "freertos" => age'["timer"] = age["timer"]
    <3>1. kernel = "freertos" => "timer" \in DOMAIN age /\ t # "timer"
      BY <1>1, Creation, TablesAre DEF Created
    <3>2. QED BY <1>5, <3>1
  <2>2. \A c \in DOMAIN count : count'[c] \in Nat /\ count'[c] <= count[c] BY <1>1, <1>2 DEF RtosTypes
  <2>3. QED BY <1>1, <1>2, <2>1, <2>2, TakenIsLess
<1>11. QueueSmall'
  <2>1. kernel = "freertos" /\ "queue" \in DOMAIN count => count'["queue"] <= 1
    BY <1>1, <1>2, Creation DEF QueueSmall
  <2>2. ASSUME "queue" \in DOMAIN count, "tx" \in DOMAIN task, kernel # "freertos"
        PROVE  /\ age'["tx"] <= age["tx"] /\ Sent' <= Sent
               /\ task'["tx"] # "delays" => age'["tx"] = 0
    <3>1. "tx" \in DOMAIN age BY <1>1, <2>2, TablesAre DEF Created
    <3>2. age["tx"] \in Nat /\ age'["tx"] <= age["tx"] /\ (age["tx"] = 0 => age'["tx"] = 0)
      BY <1>1, <1>5, <2>2, <3>1 DEF RtosTypes
    <3>3. Sent' <= Sent BY <1>1, <1>2, <1>5, <2>2 DEF Sent, RtosTypes
    <3>4. task["tx"] # "delays" => age["tx"] = 0 BY <1>1, <2>2 DEF QueueSmall
    <3>5. task'["tx"] # "delays" => age'["tx"] = 0
      BY <1>1, <1>5, <2>2, <3>2, <3>4 DEF RtosTypes
    <3>6. QED BY <3>2, <3>3, <3>5
  <2>3. QED BY ONLY <1>1, <1>2, <1>6, <1>7, <2>1, <2>2, QueueLess
<1>12. EventsArrive' BY <1>1, <1>2 DEF EventsArrive, NothingLost, OnlyCreated
<1>13. QED BY <1>1, <1>7, <1>8, <1>9, <1>10, <1>11, <1>12 DEF RtosIInv

(* A task takes from its channel, or waits. *)
LEMMA TakeKeeps ==
  ASSUME RtosTiming, RtosIInv, NEW t \in DOMAIN task, Step(t), Take(t)
  PROVE  RtosIInv'
<1> DEFINE c == ChannelOf[t]
<1>1. /\ Started /\ start \in Nat /\ Started' /\ UNCHANGED <<kernel, start, hook, gp, late, stepped>>
      /\ RtosTypes /\ Created /\ Waiting /\ EventsArrive /\ StartingUp'
      /\ SemHolds /\ GpHolds /\ TimerHolds /\ QueueSmall
      /\ t \in DOMAIN ChannelOf => c \in DOMAIN count
  BY StepIs
<1>2. /\ t \in DOMAIN ChannelOf /\ task[t] = "ready" /\ UNCHANGED <<age, found, lost, misused>>
      /\ \/ count[c] = 0 /\ task' = [task EXCEPT ![t] = "waits"] /\ count' = count
         \/ /\ count[c] # 0 /\ task' = [task EXCEPT ![t] = "works"]
            /\ count' = [count EXCEPT ![c] = IF TakesAll(c) THEN 0 ELSE @ - 1]
  BY DEF Take, NoEvent
<1>3. t # "tx" /\ t \in {"rx", "sem", "gp", "daemon"} BY <1>2, TablesAre
<1>4. c \in DOMAIN count /\ count[c] \in Nat BY <1>1, <1>2 DEF RtosTypes
<1> DEFINE s == task'[t]
           n == count'[c]
<1>5. /\ s \in {"works", "waits"} /\ n \in Nat /\ n <= count[c] /\ (s = "waits" => n = 0)
      /\ task' = [task EXCEPT ![t] = s] /\ count' = [count EXCEPT ![c] = n]
  BY <1>1, <1>2, <1>4 DEF RtosTypes
<1> HIDE DEF s, n, c
<1>6. DOMAIN task' = DOMAIN task /\ DOMAIN count' = DOMAIN count BY <1>5
<1>7. \A d \in DOMAIN count : count'[d] \in Nat /\ count'[d] <= count[d] BY <1>1, <1>5 DEF RtosTypes
<1>8. RtosTypes'
  <2>1. task' \in [DOMAIN task' -> {"new", "ready", "waits", "delays", "works"}] BY <1>1, <1>5 DEF RtosTypes
  <2>2. count' \in [DOMAIN count' -> Nat] BY <1>1, <1>5 DEF RtosTypes
  <2>3. Startup' = Startup BY <1>1 DEF Startup
  <2>4. QED BY <1>1, <1>2, <2>1, <2>2, <2>3 DEF RtosTypes
<1>9. Created' BY <1>1, <1>2, <1>6, NothingNew
<1>10. Waiting'
  <2>1. ChannelOf' = ChannelOf /\ Delay' = Delay BY DEF ChannelOf, Delay
  <2>2. ASSUME NEW u \in DOMAIN task, task'[u] = "waits" PROVE u \in DOMAIN ChannelOf /\ count'[ChannelOf[u]] = 0
    <3>1. CASE u = t BY <1>2, <1>5, <2>2, <3>1 DEF c
    <3>2. CASE u # t
      <4>1. task[u] = "waits" BY <1>5, <2>2, <3>2
      <4>2. u \in DOMAIN ChannelOf /\ count[ChannelOf[u]] = 0 BY <1>1, <4>1 DEF Waiting
      <4>3. ChannelOf[u] # c BY <1>3, <3>2, <4>2, TablesAre DEF c
      <4>4. QED BY <1>5, <4>2, <4>3
    <3>3. QED BY <3>1, <3>2
  <2>3. ASSUME NEW u \in DOMAIN task, task'[u] = "delays" PROVE u \in DOMAIN Delay
    BY <1>1, <1>5, <2>3 DEF Waiting, RtosTypes
  <2>4. QED BY <1>6, <2>1, <2>2, <2>3 DEF Waiting
<1>11. SemHolds' /\ GpHolds' /\ TimerHolds' BY <1>1, <1>2, <1>6, <1>7, TakenIsLess
<1>12. QueueSmall'
  <2>1. kernel = "freertos" /\ "queue" \in DOMAIN count => count'["queue"] <= 1
    <3>1. SUFFICES ASSUME kernel = "freertos", "queue" \in DOMAIN count PROVE count'["queue"] <= 1
      OBVIOUS
    <3>2. count["queue"] <= 1 BY <1>1, <3>1, Creation DEF QueueSmall
    <3>3. QED BY <1>1, <1>7, <3>1, <3>2 DEF RtosTypes
  <2>2. ASSUME "queue" \in DOMAIN count, "tx" \in DOMAIN task, kernel # "freertos"
        PROVE  /\ age'["tx"] <= age["tx"] /\ Sent' <= Sent
               /\ task'["tx"] # "delays" => age'["tx"] = 0
    <3>1. "tx" \in DOMAIN age BY <1>1, <2>2, TablesAre DEF Created
    <3>2. age'["tx"] = age["tx"] /\ age["tx"] \in Nat /\ task'["tx"] = task["tx"]
      BY <1>1, <1>2, <1>3, <1>5, <2>2, <3>1 DEF RtosTypes
    <3>3. count'["queue"] <= count["queue"] /\ count'["queue"] \in Nat /\ count["queue"] \in Nat
      BY <1>1, <1>7, <2>2 DEF RtosTypes
    <3>4. Sent' <= Sent BY <3>2, <3>3 DEF Sent
    <3>5. task["tx"] # "delays" => age["tx"] = 0 BY <1>1, <2>2 DEF QueueSmall
    <3>6. QED BY <3>2, <3>4, <3>5
  <2>3. age' = age BY <1>2
  <2>4. QED BY ONLY <1>1, <1>6, <1>8, <2>1, <2>2, <2>3, QueueLess
<1>13. EventsArrive' BY <1>1, <1>2 DEF EventsArrive, NothingLost, OnlyCreated
<1>14. QED BY <1>1, <1>8, <1>9, <1>10, <1>11, <1>12, <1>13 DEF RtosIInv

(* A task's work after its delay: tx sends.  With FreeRTOS it runs only when rx waits; *)
(* in the others, its queue has room for all it may send while the processor is busy.  *)
LEMMA EndDelayKeeps ==
  ASSUME RtosTiming, RtosIInv, NEW t \in DOMAIN task, Step(t), EndDelay(t)
  PROVE  RtosIInv'
<1>1. /\ Started /\ start \in Nat /\ Started' /\ UNCHANGED <<kernel, start, hook, gp, late, stepped>>
      /\ RtosTypes /\ Created /\ Waiting /\ EventsArrive /\ StartingUp'
      /\ SemHolds /\ GpHolds /\ TimerHolds /\ QueueSmall
  BY StepIs
<1>2. /\ t \in DOMAIN Delay /\ task[t] = "works" /\ age' = age
      /\ task' = Awake(t, IF t = "tx" THEN Wake({"queue"}, task) ELSE task)
      /\ IF t = "tx" THEN Give({"queue"}) ELSE UNCHANGED <<count, found, lost, misused>>
  BY DEF EndDelay, NoEvent
<1>3. t \in {"tx", "timer", "hp", "lp"} BY <1>2, TablesAre
<1>4. /\ DOMAIN task' = DOMAIN task /\ task'[t] = "ready"
      /\ \A u \in DOMAIN task : \/ task'[u] = task[u] /\ u # t
                                \/ task'[u] = "ready"
      /\ t = "tx" /\ "rx" \in DOMAIN task => task'["rx"] # "waits"
      /\ task' \in [DOMAIN task' -> {"new", "ready", "waits", "delays", "works"}]
  BY <1>1, <1>2, <1>3, TablesAre DEF Awake, Wake, RtosTypes
<1>5. CASE t # "tx"
  <2>1. UNCHANGED <<count, found, lost, misused>> BY <1>2, <1>5
  <2>2. RtosTypes'
    <3>1. Startup' = Startup BY <1>1 DEF Startup
    <3>2. QED BY <1>1, <1>2, <1>4, <2>1, <3>1 DEF RtosTypes
  <2>3. Created' BY <1>1, <1>2, <1>4, <2>1, NothingNew
  <2>4. Waiting'
    <3>1. ChannelOf' = ChannelOf /\ Delay' = Delay BY DEF ChannelOf, Delay
    <3>2. QED BY <1>1, <1>4, <2>1, <3>1 DEF Waiting
  <2>5. SemHolds' /\ GpHolds' /\ TimerHolds'
    <3>1. \A c \in DOMAIN count : count'[c] \in Nat /\ count'[c] <= count[c] BY <1>1, <2>1 DEF RtosTypes
    <3>2. QED BY <1>1, <1>2, <2>1, <3>1, TakenIsLess
  <2>6. QueueSmall'
    <3>1. "tx" \in DOMAIN task => task'["tx"] = task["tx"] BY <1>1, <1>2, <1>5 DEF Awake, RtosTypes
    <3>2. DOMAIN age' = DOMAIN age /\ DOMAIN count' = DOMAIN count BY <1>2, <2>1
    <3>3. kernel = "freertos" /\ "queue" \in DOMAIN count => count'["queue"] <= 1
      BY <1>1, <2>1, Creation DEF QueueSmall
    <3>4. ASSUME "queue" \in DOMAIN count, "tx" \in DOMAIN task, kernel # "freertos"
          PROVE  /\ age'["tx"] <= age["tx"] /\ Sent' <= Sent
                 /\ task'["tx"] # "delays" => age'["tx"] = 0
      <4>1. "tx" \in DOMAIN age BY <1>1, <3>4, TablesAre DEF Created
      <4>2. age["tx"] \in Nat /\ count["queue"] \in Nat BY <1>1, <3>4, <4>1 DEF RtosTypes
      <4>3. Sent' = Sent /\ Sent \in Nat BY <2>1, <3>1, <3>4, <4>2 DEF Sent
      <4>4. task["tx"] # "delays" => age["tx"] = 0 BY <1>1, <3>4 DEF QueueSmall
      <4>5. QED BY <1>2, <3>1, <3>4, <4>2, <4>3, <4>4
    <3>5. QED BY ONLY <1>1, <1>4, <2>2, <3>2, <3>3, <3>4, QueueLess
  <2>7. EventsArrive' BY <1>1, <2>1 DEF EventsArrive, NothingLost, OnlyCreated
  <2>8. QED BY <1>1, <2>2, <2>3, <2>4, <2>5, <2>6, <2>7 DEF RtosIInv
<1>6. CASE t = "tx"
  <2>1. kernel # "embos" /\ {"rx", "tx"} \subseteq DOMAIN task /\ "queue" \in DOMAIN count
    BY <1>1, <1>6, Creation DEF RtosTypes
  <2>2. Give({"queue"}) BY <1>2, <1>6
  <2>3. count["queue"] \in Nat /\ count["queue"] < Holds("queue") /\ (kernel = "freertos" => count["queue"] = 0)
    <3>1. CASE kernel = "freertos"
      <4>1. Higher("rx", "tx") BY <3>1 DEF Higher, Prio
      <4>2. "rx" \notin Ready BY <1>6, <4>1 DEF Step, MayRun
      <4>3. task["rx"] = "waits" BY <1>1, <2>1, <4>2, TablesAre DEF Ready, RtosTypes, Waiting
      <4>4. count["queue"] = 0 BY <1>1, <2>1, <4>3, TablesAre DEF Waiting
      <4>5. QED BY <3>1, <4>4, HoldsIs
    <3>2. CASE kernel # "freertos"
      <4>1. Backlog(Sent, age["tx"]) BY <1>1, <2>1, <3>2 DEF QueueSmall
      <4>2. Sent = count["queue"] + 1 /\ count["queue"] \in Nat BY <1>1, <1>2, <1>6, <2>1 DEF Sent, RtosTypes
      <4>3. count["queue"] < 4 BY <4>1, <4>2 DEF Backlog
      <4>4. Holds("queue") \in {4, 8} BY <3>2, HoldsIs
      <4>5. QED BY <3>2, <4>2, <4>3, <4>4
    <3>3. QED BY <3>1, <3>2
  <2>4. /\ count' = [c \in DOMAIN count |-> IF c = "queue" THEN count[c] + 1 ELSE count[c]]
        /\ lost' = lost /\ misused' = misused
        /\ "queue" \in DOMAIN found' /\ found'["queue"] = count["queue"]
    <3>1. {"queue"} \cap DOMAIN count = {"queue"} BY <2>1
    <3>2. \A c : Holds(c) \in Nat BY HoldsIs
    <3>3. count["queue"] # Holds("queue") BY <2>3, <3>2
    <3>4. QED BY <2>1, <2>2, <2>3, <3>1, <3>3 DEF Give
  <2>5. DOMAIN count' = DOMAIN count BY <2>4
  <2>6. RtosTypes'
    <3>1. count' \in [DOMAIN count' -> Nat] BY <1>1, <2>4 DEF RtosTypes
    <3>2. Startup' = Startup BY <1>1 DEF Startup
    <3>3. QED BY <1>1, <1>2, <1>4, <3>1, <3>2 DEF RtosTypes
  <2>7. Created' BY <1>1, <1>2, <1>4, <2>5, NothingNew
  <2>8. Waiting'
    <3>1. ChannelOf' = ChannelOf /\ Delay' = Delay BY DEF ChannelOf, Delay
    <3>2. ASSUME NEW u \in DOMAIN task, task'[u] = "waits" PROVE u \in DOMAIN ChannelOf /\ count'[ChannelOf[u]] = 0
      <4>1. task[u] = "waits" /\ u # "rx" BY <1>4, <1>6, <3>2
      <4>2. u \in DOMAIN ChannelOf /\ count[ChannelOf[u]] = 0 BY <1>1, <4>1 DEF Waiting
      <4>3. ChannelOf[u] # "queue" BY <4>1, <4>2, TablesAre
      <4>4. ChannelOf[u] \in DOMAIN count BY <1>1, <4>2, Creation, TablesAre DEF RtosTypes
      <4>5. QED BY <2>4, <4>2, <4>3, <4>4
    <3>3. ASSUME NEW u \in DOMAIN task, task'[u] = "delays" PROVE u \in DOMAIN Delay BY <1>1, <1>4, <3>3 DEF Waiting
    <3>4. QED BY <1>4, <3>1, <3>2, <3>3 DEF Waiting
  <2>9. SemHolds' /\ GpHolds' /\ TimerHolds'
    <3>1. \A c \in {"sem", "gp", "timer"} \cap DOMAIN count : count'[c] \in Nat /\ count'[c] <= count[c]
      BY <1>1, <2>4 DEF RtosTypes
    <3>2. QED BY <1>1, <1>2, <2>5, <3>1, TakenIsLess
  <2>10. QueueSmall'
    <3>1. count'["queue"] = count["queue"] + 1 BY <2>1, <2>4
    <3>2. kernel = "freertos" => count'["queue"] <= 1 BY <2>3, <3>1
    <3>3. kernel # "freertos" => Sent' <= Sent /\ age["tx"] = 0 /\ age'["tx"] <= age["tx"]
      <4>1. Sent' = Sent BY <1>2, <1>4, <1>6, <2>3, <3>1 DEF Sent
      <4>2. count["queue"] + 1 \in Nat BY <2>3
      <4>3. Sent \in Nat BY <1>2, <1>6, <4>2 DEF Sent
      <4>4. QED BY <1>1, <1>2, <1>6, <2>1, <4>1, <4>3 DEF QueueSmall
    <3>4. DOMAIN age' = DOMAIN age BY <1>2
    <3>5. kernel # "freertos" => age'["tx"] = 0 BY <1>2, <3>3
    <3>6. QED BY ONLY <1>1, <1>4, <2>5, <2>6, <3>2, <3>3, <3>4, <3>5, QueueLess
  <2>11. EventsArrive'
    <3>1. lost' = {} /\ misused' = {} BY <1>1, <2>4 DEF EventsArrive, NothingLost, OnlyCreated
    <3>2. QED BY <1>1, <2>3, <2>4, <3>1 DEF EventsArrive, NothingLost, OnlyCreated
  <2>12. QED BY <1>1, <2>6, <2>7, <2>8, <2>9, <2>10, <2>11 DEF RtosIInv
<1>7. QED BY <1>5, <1>6

(* The GPTIMER interrupt: its channel exists and has room; it keeps their sum. *)
LEMMA IsrKeeps == ASSUME RtosTiming, RtosIInv, GPTIMER0_isr PROVE RtosIInv'
<1>1. /\ gp.flag /\ IntsOn /\ gp' = [gp EXCEPT !.flag = FALSE] /\ Give({"gp"})
      /\ task' = Wake({"gp"}, task) /\ UNCHANGED <<kernel, start, age, hook, late, stepped>>
  BY DEF GPTIMER0_isr
<1>2. RtosTypes /\ Created /\ StartingUp /\ Waiting /\ EventsArrive
  BY DEF RtosIInv
<1>3. /\ start \in Nat /\ start <= 10 /\ late \in Nat /\ hook.ticks \in Nat /\ gp.age \in Nat /\ gp.flag \in BOOLEAN
      /\ Startup' = Startup /\ (Started' <=> Started)
  <2>1. PICK n \in {3, 9, 10} : Len(Startup) = n BY <1>2, StartupLength DEF RtosTypes
  <2>2. start \in 0 .. n BY <1>2, <2>1 DEF RtosTypes
  <2>3. start \in Nat /\ start <= 10 BY ONLY <2>2
  <2>4. Startup' = Startup BY <1>1 DEF Startup
  <2>5. QED BY <1>1, <1>2, <2>3, <2>4, PeriodsAre DEF RtosTypes, Started
<1>4. "gp" \in DOMAIN count
  <2>1. gp.on BY <1>1, <1>2 DEF StartingUp
  <2>2. kernel = "freertos" => Started BY <1>1 DEF IntsOn
  <2>3. kernel = "ucos" => start > 8
    <3>1. kernel = "ucos" => start > 7 BY <1>2, <2>1, Creation
    <3>2. kernel = "ucos" => start # 8 BY <1>1, <1>2 DEF StartingUp
    <3>3. QED BY <1>3, <3>1, <3>2
  <2>4. QED BY <1>2, <2>1, <2>2, <2>3, Creation DEF RtosTypes
<1>5. count["gp"] \in Nat /\ count["gp"] + 1 = Interrupts /\ Interrupts \in Nat /\ Interrupts <= 6
  <2>1. count["gp"] \in Nat /\ count["gp"] + 1 = Interrupts BY <1>1, <1>2, <1>4 DEF Interrupts, RtosTypes
  <2> HIDE DEF Interrupts
  <2>2. CASE Started BY <1>2, <1>4, <2>1, <2>2 DEF RtosIInv, GpHolds
  <2>3. CASE ~Started
    <3>1. 2 * Interrupts + (IF gp.age > 0 THEN 1 ELSE 0) + (IF stepped THEN 1 ELSE 0) <= start
      BY <1>2, <2>3 DEF StartingUp, Early, GpEarly, Spent
    <3>2. QED BY <1>3, <2>1, <3>1
  <2>4. QED BY <2>1, <2>2, <2>3
<1>6. /\ count' = [c \in DOMAIN count |-> IF c = "gp" THEN count[c] + 1 ELSE count[c]]
      /\ lost' = lost /\ misused' = misused
      /\ "queue" \in DOMAIN found' => "queue" \in DOMAIN found /\ found'["queue"] = found["queue"]
  <2>1. {"gp"} \cap DOMAIN count = {"gp"} BY <1>4
  <2>2. count["gp"] < Holds("gp") /\ count["gp"] # Holds("gp") BY <1>5, HoldsIs
  <2>3. QED BY <1>1, <1>4, <2>1, <2>2 DEF Give
<1>7. /\ DOMAIN task' = DOMAIN task /\ DOMAIN count' = DOMAIN count
      /\ \A u \in DOMAIN task : task'[u] = task[u] \/ (task[u] = "waits" /\ task'[u] = "ready")
      /\ "gp" \in DOMAIN task => task'["gp"] # "waits"
      /\ task' \in [DOMAIN task' -> {"new", "ready", "waits", "delays", "works"}]
  BY <1>1, <1>2, <1>6, TablesAre DEF Wake, RtosTypes
<1>8. /\ gp'.on = gp.on /\ gp'.age = gp.age /\ gp'.flag = FALSE
      /\ gp' \in [on : BOOLEAN, age : 0 .. GpPeriod - 1, flag : BOOLEAN]
  BY <1>1, <1>2 DEF RtosTypes
<1>9. Interrupts' = Interrupts
  <2>1. count'["gp"] = count["gp"] + 1 BY <1>4, <1>6
  <2>2. Interrupts' = count'["gp"] + 0 BY <1>4, <1>7, <1>8 DEF Interrupts
  <2>3. QED BY <1>5, <2>1, <2>2
<1>10. RtosTypes'
  <2>1. count' \in [DOMAIN count' -> Nat] BY <1>2, <1>6 DEF RtosTypes
  <2>2. QED BY <1>1, <1>2, <1>3, <1>7, <1>8, <2>1 DEF RtosTypes
<1>11. Created' BY <1>1, <1>2, <1>7, <1>8, NothingNew
<1>12. \A c \in DOMAIN count : c # "gp" => count'[c] = count[c] BY <1>6
<1> HIDE DEF Interrupts
<1>13. StartingUp'
  <2>1. ~Started => Early'
    <3>1. SUFFICES ASSUME ~Started PROVE Early'
      OBVIOUS
    <3>2. Early /\ kernel # "freertos" BY <1>1, <1>2, <3>1 DEF StartingUp, IntsOn
    <3>3. SemEarly' BY <1>1, <1>7, <1>12, <3>2 DEF Early, SemEarly, Spent
    <3>4. GpEarly' BY <1>1, <1>8, <1>9, <3>2 DEF Early, GpEarly, Spent
    <3>5. \A t \in DOMAIN task' : task'[t] = "new" /\ (t = "tx" => age'[t] = 0)
      BY <1>1, <1>7, <3>2 DEF Early
    <3>6. \A c \in DOMAIN count' : c \in {"queue", "timer"} => count'[c] = 0
      BY <1>7, <1>12, <3>2 DEF Early
    <3>7. QED BY <1>1, <3>2, <3>3, <3>4, <3>5, <3>6 DEF Early
  <2>2. QED BY <1>1, <1>2, <1>3, <1>8, <2>1 DEF StartingUp
<1>14. Waiting'
  <2>1. ChannelOf' = ChannelOf /\ Delay' = Delay BY DEF ChannelOf, Delay
  <2>2. ASSUME NEW u \in DOMAIN task, task'[u] = "waits" PROVE u \in DOMAIN ChannelOf /\ count'[ChannelOf[u]] = 0
    <3>1. task[u] = "waits" /\ u # "gp" BY <1>7, <2>2
    <3>2. u \in DOMAIN ChannelOf /\ count[ChannelOf[u]] = 0 BY <1>2, <3>1 DEF Waiting
    <3>3. Started
      <4>1. ~Started => task[u] = "new" BY <1>2 DEF StartingUp, Early
      <4>2. QED BY <3>1, <4>1
    <3>4. ChannelOf[u] # "gp" /\ ChannelOf[u] \in DOMAIN count
      BY <1>2, <3>1, <3>2, <3>3, Creation, TablesAre DEF RtosTypes
    <3>5. QED BY <1>12, <3>2, <3>4
  <2>3. ASSUME NEW u \in DOMAIN task, task'[u] = "delays" PROVE u \in DOMAIN Delay BY <1>2, <1>7, <2>3 DEF Waiting
  <2>4. QED BY <1>7, <2>1, <2>2, <2>3 DEF Waiting
<1>15. Started => SemHolds' /\ GpHolds' /\ TimerHolds' /\ QueueSmall'
  <2>1. SUFFICES ASSUME Started PROVE SemHolds' /\ GpHolds' /\ TimerHolds' /\ QueueSmall'
    OBVIOUS
  <2>2. SemHolds /\ GpHolds /\ TimerHolds /\ QueueSmall BY <2>1 DEF RtosIInv
  <2>3. SemHolds' BY <1>1, <1>7, <1>12, <2>2 DEF SemHolds
  <2>4. GpHolds' BY <1>1, <1>4, <1>8, <1>9, <2>2 DEF GpHolds
  <2>5. TimerHolds' BY <1>1, <1>7, <1>12, <2>2 DEF TimerHolds
  <2>6. QueueSmall'
    <3>1. "tx" \in DOMAIN task => task'["tx"] = task["tx"] BY <1>2, <1>7, TablesAre DEF Waiting
    <3>2. Sent' = Sent \/ "queue" \notin DOMAIN count \/ "tx" \notin DOMAIN task
      BY <1>12, <3>1 DEF Sent
    <3>3. QED BY <1>1, <1>7, <1>12, <2>2, <3>1, <3>2 DEF QueueSmall, Backlog
  <2>7. QED BY <2>3, <2>4, <2>5, <2>6
<1>16. EventsArrive' BY <1>1, <1>2, <1>6 DEF EventsArrive, NothingLost, OnlyCreated
<1>17. QED BY <1>3, <1>10, <1>11, <1>13, <1>14, <1>15, <1>16 DEF RtosIInv

(* A channel that holds something has a task that is not waiting. *)
LEMMA Busy ==
  ASSUME RtosTypes, Created, Waiting, Started
  PROVE  /\ \A c \in {"sem", "gp", "queue"} : c \in DOMAIN count /\ count[c] # 0 => ~Idle
         /\ kernel = "freertos" /\ count["timer"] # 0 => ~Idle
         /\ "tx" \in DOMAIN task /\ task["tx"] = "works" => ~Idle
<1>1. ASSUME NEW t \in DOMAIN task, task[t] # "waits", task[t] # "delays" PROVE ~Idle
  BY <1>1 DEF Idle, Ready, RtosTypes
<1>2. ASSUME NEW t \in DOMAIN task, t \in DOMAIN ChannelOf, count[ChannelOf[t]] # 0 PROVE ~Idle
  <2>1. task[t] # "waits" BY <1>2 DEF Waiting
  <2>2. task[t] # "delays" BY <1>2, TablesAre DEF Waiting
  <2>3. QED BY <1>1, <2>1, <2>2
<1>3. kernel = "embos" => DOMAIN count = {} BY DEF Created
<1>4. QED BY <1>1, <1>2, <1>3, Creation, TablesAre DEF RtosTypes

(* What passes of the timers in one unit. *)
LEMMA UnitOfGp ==
  ASSUME RtosTypes, Elapse
  PROVE  /\ gp' \in [on : BOOLEAN, age : 0 .. GpPeriod - 1, flag : BOOLEAN] /\ gp'.on = gp.on
         /\ ~gp.on => gp' = gp
         /\ gp.on /\ gp.age + 1 = GpPeriod => gp'.age = 0 /\ gp'.flag
         /\ gp.on /\ gp.age + 1 # GpPeriod => gp'.age = gp.age + 1 /\ gp'.flag = gp.flag
<1>1. gp' = IF ~gp.on THEN gp
            ELSE [gp EXCEPT !.age = (@ + 1) % GpPeriod, !.flag = @ \/ gp.age + 1 = GpPeriod]
  BY DEF Elapse
<1>2. gp \in [on : BOOLEAN, age : 0 .. GpPeriod - 1, flag : BOOLEAN] /\ GpPeriod \in Nat \ {0}
  BY PeriodsAre DEF RtosTypes
<1>3. ASSUME NEW a \in 0 .. GpPeriod - 1 PROVE (a + 1) % GpPeriod = IF a + 1 = GpPeriod THEN 0 ELSE a + 1
  BY <1>2, <1>3
<1> DEFINE next == (gp.age + 1) % GpPeriod
<1>4. next = (IF gp.age + 1 = GpPeriod THEN 0 ELSE gp.age + 1) /\ next \in 0 .. GpPeriod - 1 BY <1>2, <1>3
<1>5. gp' = IF ~gp.on THEN gp ELSE [gp EXCEPT !.age = next, !.flag = @ \/ gp.age + 1 = GpPeriod] BY <1>1
<1> HIDE DEF next
<1>6. QED BY <1>2, <1>4, <1>5

(* What the queue holds grows by one in a period, and only while the processor is busy. *)
LEMMA BacklogGrows ==
  ASSUME RtosTiming, NEW n \in Nat, NEW m \in Nat, NEW a \in Nat, NEW b \in Nat, late \in Nat, late' \in Nat,
         Backlog(n, a), n # 0 => late' = late + 1 /\ late < MaxLate,
         (m = n /\ b <= a + 1) \/ (m = n + 1 /\ b = 0 /\ a + 1 = QueuePeriod)
  PROVE  (Backlog(m, b))'
<1>1. QueuePeriod \in Nat /\ MaxLate \in Nat /\ MaxLate < 4 * QueuePeriod BY PeriodsAre DEF RtosTiming
<1>2. CASE m = n /\ b <= a + 1 BY <1>1, <1>2 DEF Backlog
<1>3. CASE m = n + 1 /\ b = 0 /\ a + 1 = QueuePeriod BY <1>1, <1>3 DEF Backlog
<1>4. QED BY <1>2, <1>3

(* A unit of time: what it gives finds its channel created and with room. *)
LEMMA ElapseKeeps == ASSUME RtosTiming, RtosIInv, Elapse PROVE RtosIInv'
<1> DEFINE due == {t \in DOMAIN task \cap DOMAIN Delay : task[t] = "delays" /\ age[t] + 1 = Delay[t]}
           gives == {c \in {"sem"} : hook.on /\ HookGives} \cup {c \in {"timer"} : TimerExpires /\ kernel = "freertos"}
           counts(t) == \/ t \notin DOMAIN task \/ task[t] = "delays"
                        \/ kernel = "freertos" /\ task[t] # "new"
           zero == due \cup {t \in {"timer"} : TimerExpires}
<1>1. /\ IF Started THEN Idle \/ late < MaxLate ELSE stepped
      /\ IF ~IntsOn THEN UNCHANGED <<count, found, lost, misused, task, age, hook>>
         ELSE /\ task' = Wake(gives, [t \in DOMAIN task |-> IF t \in due THEN "works" ELSE task[t]])
              /\ age' = [t \in DOMAIN age |-> IF t \in zero THEN 0
                                             ELSE IF counts(t) THEN age[t] + 1 ELSE age[t]]
              /\ Give(gives)
              /\ hook' = IF hook.on THEN [hook EXCEPT !.ticks = HookTicks] ELSE hook
      /\ late' = (IF Started /\ ~Idle THEN late + 1 ELSE 0)
      /\ stepped' = FALSE
      /\ UNCHANGED <<kernel, start>>
  BY DEF Elapse, NoEvent
<1>2. RtosTypes /\ Created /\ StartingUp /\ Waiting /\ EventsArrive
  BY DEF RtosIInv
<1>3. /\ start \in Nat /\ start <= 10 /\ late \in Nat /\ hook.ticks \in Nat /\ hook.on \in BOOLEAN
      /\ gp.age \in Nat /\ gp.flag \in BOOLEAN /\ gp.on \in BOOLEAN
      /\ Startup' = Startup /\ (Started' <=> Started)
  <2>1. PICK n \in {3, 9, 10} : Len(Startup) = n BY <1>2, StartupLength DEF RtosTypes
  <2>2. start \in 0 .. n BY <1>2, <2>1 DEF RtosTypes
  <2>3. start \in Nat /\ start <= 10 BY ONLY <2>2
  <2>4. Startup' = Startup BY <1>1 DEF Startup
  <2>5. QED BY <1>1, <1>2, <2>3, <2>4, PeriodsAre DEF RtosTypes, Started
<1>4. Started => SemHolds /\ GpHolds /\ TimerHolds /\ QueueSmall BY DEF RtosIInv
<1>5. ~Started => Early /\ stepped BY <1>1, <1>2 DEF StartingUp
<1>6. late' \in Nat /\ (Started /\ ~Idle => late' = late + 1 /\ late < MaxLate) BY <1>1, <1>3
<1>7. /\ gives \subseteq {"sem", "timer"}
      /\ "sem" \in gives <=> hook.on /\ hook.ticks + 1 >= SemPeriod
      /\ "timer" \in gives <=> kernel = "freertos" /\ "timer" \in DOMAIN count /\ age["timer"] + 1 = TimerPeriod
  BY DEF HookGives, TimerExpires
<1>8. Started => IntsOn BY DEF IntsOn
<1>9. IntsOn /\ ~Started => kernel \in {"rtthread", "ucos"} BY DEF IntsOn
<1>10. ASSUME IntsOn, "sem" \in gives
       PROVE  /\ "sem" \in DOMAIN count /\ count["sem"] \in Nat /\ count["sem"] < Holds("sem")
              /\ Started => count["sem"] <= IF kernel = "freertos" THEN 0 ELSE 5
  <2> HIDE DEF gives
  <2>1. hook.on /\ hook.ticks + 1 >= SemPeriod /\ kernel # "embos" BY <1>2, <1>7, <1>10, Creation
  <2>2. "sem" \in DOMAIN count
    <3>1. CASE kernel = "freertos" BY <1>2, <1>9, <1>10, <3>1, Creation
    <3>2. CASE kernel = "rtthread"
      <4>1. start > 0 BY <1>2, <2>1, <3>2, Creation
      <4>2. start # 1 \/ Started BY <1>2, <1>3, <1>5, <2>1, <3>2, PeriodsAre DEF StartingUp, RtosTiming
      <4>3. Started => start = 10 BY <3>2, StartupIs DEF Started
      <4>4. QED BY <1>2, <1>3, <3>2, <4>1, <4>2, <4>3, Creation
    <3>3. CASE kernel = "ucos"
      <4>1. start > 1 BY <1>2, <2>1, <3>3, Creation
      <4>2. start # 2 \/ Started BY <1>2, <1>3, <1>5, <2>1, <3>3, PeriodsAre DEF StartingUp, RtosTiming
      <4>3. Started => start = 10 BY <3>3, StartupIs DEF Started
      <4>4. QED BY <1>2, <1>3, <3>3, <4>1, <4>2, <4>3, Creation
    <3>4. QED BY <1>2, <2>1, <3>1, <3>2, <3>3 DEF RtosTypes
  <2>3. count["sem"] \in Nat BY <1>2, <2>2 DEF RtosTypes
  <2>4. Started => count["sem"] <= IF kernel = "freertos" THEN 0 ELSE 5
    <3>1. SUFFICES ASSUME Started, count["sem"] > IF kernel = "freertos" THEN 0 ELSE 5 PROVE FALSE
      BY <2>3
    <3>2. hook.ticks <= late
      <4>1. SemHolds /\ ~(count["sem"] <= IF kernel = "freertos" THEN 0 ELSE 5) BY <1>4, <2>3, <3>1
      <4>2. QED BY ONLY <2>2, <4>1 DEF SemHolds
    <3>3. count["sem"] # 0 BY <2>3, <3>1
    <3>4. late < MaxLate BY <1>2, <1>6, <2>2, <3>1, <3>3, Busy
    <3>5. QED BY <1>3, <2>1, <3>2, <3>4, PeriodsAre DEF RtosTiming
  <2>5. ~Started => count["sem"] <= 5 /\ kernel # "freertos"
    <3>1. SUFFICES ASSUME ~Started PROVE count["sem"] <= 5
      BY <1>9, <1>10
    <3>2. 2 * count["sem"] + (IF hook.ticks > 0 THEN 1 ELSE 0) + (IF stepped THEN 1 ELSE 0) <= start
      BY <1>5, <2>2, <3>1 DEF Early, SemEarly, Spent
    <3>3. QED BY <1>3, <2>3, <3>2
  <2>6. count["sem"] < Holds("sem") BY <2>3, <2>4, <2>5, HoldsIs
  <2>7. QED BY <2>2, <2>3, <2>4, <2>6
<1>11. ASSUME IntsOn, "timer" \in gives
       PROVE  /\ "timer" \in DOMAIN count /\ count["timer"] = 0 /\ count["timer"] < Holds("timer")
  <2> HIDE DEF gives
  <2>1. kernel = "freertos" /\ "timer" \in DOMAIN count /\ age["timer"] + 1 = TimerPeriod /\ Started
    BY <1>7, <1>9, <1>11
  <2>2. age["timer"] \in Nat BY <1>2, <2>1, TablesAre DEF Created, RtosTypes
  <2>3. count["timer"] = 0
    <3>1. SUFFICES ASSUME count["timer"] # 0 PROVE FALSE
      OBVIOUS
    <3>2. age["timer"] <= late BY <1>4, <2>1, <3>1 DEF TimerHolds
    <3>3. late < MaxLate BY <1>2, <1>6, <2>1, <3>1, Busy
    <3>4. QED BY <1>3, <2>1, <2>2, <3>2, <3>3, PeriodsAre DEF RtosTiming
  <2>4. QED BY <2>1, <2>3, HoldsIs
<1> DEFINE gifts == IF IntsOn THEN gives ELSE {}
<1>12. /\ count' = [c \in DOMAIN count |-> IF c \in gifts THEN count[c] + 1 ELSE count[c]]
       /\ lost' = lost /\ misused' = misused
       /\ "queue" \in DOMAIN found' => "queue" \in DOMAIN found /\ found'["queue"] = found["queue"]
  <2>1. CASE ~IntsOn
    <3>1. count = [c \in DOMAIN count |-> count[c]] BY <1>2 DEF RtosTypes
    <3>2. QED BY <1>1, <2>1, <3>1
  <2>2. CASE IntsOn
    <3> HIDE DEF gives
    <3>1. gifts = gives /\ gives \subseteq DOMAIN count /\ \A c \in gives : count[c] < Holds(c) /\ count[c] \in Nat
      BY <1>7, <1>10, <1>11, <2>2
    <3>2. Give(gives) BY <1>1, <2>2
    <3>3. gives \cap DOMAIN count = gives /\ gives \ gives = {} BY <3>1
    <3>4. \A c \in gives : count[c] # Holds(c) BY <3>1, HoldsIs
    <3> HIDE DEF gifts
    <3>5. lost' = lost /\ misused' = misused BY <3>2, <3>3, <3>4 DEF Give
    <3>6. count' = [c \in DOMAIN count |-> IF c \in gifts THEN count[c] + 1 ELSE count[c]]
      BY <3>1, <3>2, <3>3 DEF Give
    <3>7. "queue" \in DOMAIN found' => "queue" \in DOMAIN found /\ found'["queue"] = found["queue"]
      BY <1>7, <3>2, <3>3 DEF Give
    <3>8. QED BY <3>5, <3>6, <3>7
  <2>3. QED BY <2>1, <2>2
<1>13. /\ hook' \in [on : BOOLEAN, ticks : Nat] /\ hook'.on = hook.on
       /\ "sem" \in gifts => hook'.ticks = 0 /\ hook.on /\ hook.ticks + 1 >= SemPeriod
       /\ "sem" \notin gifts => \/ hook'.ticks = hook.ticks /\ (~hook.on \/ ~IntsOn)
                                \/ hook.on /\ IntsOn /\ hook'.ticks = hook.ticks + 1 /\ hook.ticks + 1 < SemPeriod
  <2> HIDE DEF gives
  <2>1. HookTicks = (IF hook.ticks + 1 >= SemPeriod THEN 0 ELSE hook.ticks + 1) /\ HookTicks \in Nat
    BY <1>3 DEF HookTicks
  <2>2. hook \in [on : BOOLEAN, ticks : Nat] /\ SemPeriod \in Nat BY <1>2, PeriodsAre DEF RtosTypes
  <2>3. hook' = IF IntsOn /\ hook.on THEN [hook EXCEPT !.ticks = HookTicks] ELSE hook BY <1>1
  <2>4. QED BY <1>3, <1>7, <2>1, <2>2, <2>3
<1>14. /\ DOMAIN task' = DOMAIN task /\ DOMAIN age' = DOMAIN age /\ DOMAIN count' = DOMAIN count
  BY <1>1, <1>12 DEF Wake
<1>15. \A u \in DOMAIN task :
         \/ task'[u] = task[u] /\ (IntsOn => u \notin due)
         \/ task[u] = "waits" /\ u \in DOMAIN ChannelOf /\ ChannelOf[u] \in gifts /\ task'[u] = "ready"
         \/ IntsOn /\ u \in due /\ task'[u] = "works" /\ age'[u] = 0
  <2>1. CASE ~IntsOn BY <1>1, <2>1
  <2>2. CASE IntsOn
    <3>1. ASSUME NEW u \in DOMAIN task, u \in due PROVE task'[u] = "works" /\ age'[u] = 0
      <4>1. u \in DOMAIN age BY <1>2, <3>1 DEF Created
      <4>2. age'[u] = 0 BY <1>1, <2>2, <3>1, <4>1
      <4>3. task'[u] = "works" BY <1>1, <2>2, <3>1 DEF Wake
      <4>4. QED BY <4>2, <4>3
    <3>2. ASSUME NEW u \in DOMAIN task, u \notin due
          PROVE  \/ task'[u] = task[u]
                 \/ task[u] = "waits" /\ u \in DOMAIN ChannelOf /\ ChannelOf[u] \in gifts /\ task'[u] = "ready"
      <4> HIDE DEF due, gives
      <4>1. task'[u] = IF u \in DOMAIN ChannelOf /\ ChannelOf[u] \in gives /\ task[u] = "waits" THEN "ready" ELSE task[u]
        BY <1>1, <2>2, <3>2 DEF Wake
      <4>2. QED BY <2>2, <4>1
    <3>3. QED BY <2>2, <3>1, <3>2
  <2>3. QED BY <2>1, <2>2
<1>16. \A u \in DOMAIN task : u \in DOMAIN ChannelOf /\ ChannelOf[u] \in gifts => task'[u] # "waits"
  <2>1. ASSUME NEW u \in DOMAIN task, IntsOn, u \in DOMAIN ChannelOf, ChannelOf[u] \in gives PROVE task'[u] # "waits"
    <3> HIDE DEF due, gives
    <3>1. task' = Wake(gives, [t \in DOMAIN task |-> IF t \in due THEN "works" ELSE task[t]]) BY <1>1, <2>1
    <3>2. QED BY <2>1, <3>1 DEF Wake
  <2>2. QED BY <2>1
<1>17. ASSUME NEW t \in DOMAIN age
       PROVE  /\ ~IntsOn => age'[t] = age[t]
              /\ IntsOn /\ t \in zero => age'[t] = 0
              /\ IntsOn /\ t \notin zero /\ counts(t) => age'[t] = age[t] + 1
              /\ IntsOn /\ t \notin zero /\ ~counts(t) => age'[t] = age[t]
  <2> HIDE DEF zero
  <2>1. CASE ~IntsOn BY <1>1, <2>1
  <2>2. CASE IntsOn
    <3>1. age' = [u \in DOMAIN age |-> IF u \in zero THEN 0 ELSE IF counts(u) THEN age[u] + 1 ELSE age[u]]
      BY <1>1, <2>2
    <3>2. t \in zero => age'[t] = 0 BY <1>17, <3>1
    <3>3. t \notin zero => age'[t] = IF counts(t) THEN age[t] + 1 ELSE age[t] BY <1>17, <3>1
    <3>4. QED BY <2>2, <3>2, <3>3
  <2>3. QED BY <2>1, <2>2
<1> HIDE DEF gives, gifts, due, zero, counts
<1>18. \A c \in DOMAIN count : count[c] \in Nat /\ count'[c] = (IF c \in gifts THEN count[c] + 1 ELSE count[c])
  BY <1>2, <1>12 DEF RtosTypes
<1>19. gifts \subseteq {"sem", "timer"} BY <1>7 DEF gifts
<1>20. RtosTypes'
  <2>1. task' \in [DOMAIN task' -> {"new", "ready", "waits", "delays", "works"}]
    <3>1. \A u \in DOMAIN task : task'[u] \in {"new", "ready", "waits", "delays", "works"}
      BY <1>2, <1>15 DEF RtosTypes
    <3>2. task' = [u \in DOMAIN task |-> task'[u]]
      <4>1. task = [u \in DOMAIN task |-> task[u]] BY <1>2 DEF RtosTypes
      <4>2. QED BY <1>1, <4>1 DEF Wake
    <3>3. QED BY ONLY <1>14, <3>1, <3>2
  <2>2. age' \in [DOMAIN age' -> Nat]
    <3>1. ASSUME NEW t \in DOMAIN age PROVE age[t] \in Nat /\ age'[t] \in Nat
      <4>1. age[t] \in Nat BY <1>2 DEF RtosTypes
      <4>2. age'[t] = 0 \/ age'[t] = age[t] + 1 \/ age'[t] = age[t] BY <1>17, <3>1, Zenon
      <4>3. QED BY <4>1, <4>2
    <3>2. age' = [t \in DOMAIN age |-> age'[t]]
      <4>1. age = [t \in DOMAIN age |-> age[t]] BY <1>2 DEF RtosTypes
      <4>2. QED BY <1>1, <4>1
    <3>3. QED BY ONLY <1>14, <3>1, <3>2
  <2>3. count' \in [DOMAIN count' -> Nat] BY <1>12, <1>14, <1>18
  <2>4. gp' \in [on : BOOLEAN, age : 0 .. GpPeriod - 1, flag : BOOLEAN] BY <1>2, UnitOfGp
  <2>5. kernel' \in {"freertos", "rtthread", "ucos", "embos"} /\ start' \in 0 .. Len(Startup')
    BY <1>1, <1>2, <1>3 DEF RtosTypes
  <2>6. stepped' \in BOOLEAN BY <1>1
  <2>7. QED BY ONLY <1>6, <1>13, <2>1, <2>2, <2>3, <2>4, <2>5, <2>6 DEF RtosTypes
<1>21. gp'.on = gp.on BY <1>2, UnitOfGp
<1>22. Created' BY <1>1, <1>2, <1>13, <1>14, <1>21, NothingNew
<1>23. Waiting'
  <2>1. ChannelOf' = ChannelOf /\ Delay' = Delay BY DEF ChannelOf, Delay
  <2>2. ASSUME NEW u \in DOMAIN task, task'[u] = "waits" PROVE u \in DOMAIN ChannelOf /\ count'[ChannelOf[u]] = 0
    <3>1. task[u] = "waits" BY <1>15, <2>2
    <3>2. u \in DOMAIN ChannelOf /\ count[ChannelOf[u]] = 0 BY <1>2, <3>1 DEF Waiting
    <3>3. Started
      <4>1. ~Started => task[u] = "new" BY <1>5 DEF Early
      <4>2. QED BY <3>1, <4>1
    <3>4. ChannelOf[u] \in DOMAIN count
      BY <1>2, <3>2, <3>3, Creation, TablesAre DEF RtosTypes
    <3>5. ChannelOf[u] \notin gifts BY <1>16, <2>2, <3>2
    <3>6. QED BY <1>18, <3>2, <3>4, <3>5
  <2>3. ASSUME NEW u \in DOMAIN task, task'[u] = "delays" PROVE u \in DOMAIN Delay BY <1>2, <1>15, <2>3 DEF Waiting
  <2>4. QED BY <1>14, <2>1, <2>2, <2>3 DEF Waiting
<1>24. /\ ~gp.on => gp'.age = gp.age /\ gp'.flag = gp.flag
       /\ gp.on /\ gp.age + 1 = GpPeriod => gp'.age = 0 /\ gp'.flag
       /\ gp.on /\ gp.age + 1 # GpPeriod => gp'.age = gp.age + 1 /\ gp'.flag = gp.flag
       /\ GpPeriod \in Nat /\ SemPeriod \in Nat /\ MaxLate \in Nat
       /\ SemPeriod > 1 /\ GpPeriod > 1 /\ MaxLate < SemPeriod /\ MaxLate < GpPeriod /\ MaxLate < TimerPeriod
  BY <1>2, UnitOfGp, PeriodsAre DEF RtosTiming
<1>25. /\ Interrupts \in Nat /\ Interrupts' \in Nat
       /\ gp.flag \/ ~gp'.flag => Interrupts' <= Interrupts
       /\ Interrupts' <= Interrupts + 1
       /\ Interrupts > 1 => "gp" \in DOMAIN count /\ count["gp"] # 0
  <2>1. "gp" \in DOMAIN count => count'["gp"] = count["gp"] /\ count["gp"] \in Nat BY <1>18, <1>19
  <2>2. gp'.flag \in BOOLEAN BY <1>3, <1>24
  <2>3. QED BY <1>3, <1>14, <2>1, <2>2 DEF Interrupts
<1> HIDE DEF Interrupts
<1>26. EventsArrive' BY <1>1, <1>2, <1>12 DEF EventsArrive, NothingLost, OnlyCreated
<1>27. ~Started => Early'
  <2>1. SUFFICES ASSUME ~Started PROVE Early'
    OBVIOUS
  <2>2. Early /\ stepped BY <1>5, <2>1
  <2>3. \A u \in DOMAIN task : task[u] = "new" /\ (u = "tx" => age[u] = 0) BY <2>2 DEF Early
  <2>4. "timer" \notin gifts /\ (kernel = "freertos" => gifts = {} /\ ~IntsOn)
    BY <1>7, <1>9, <2>1 DEF gifts
  <2>5. ASSUME NEW u \in DOMAIN task' PROVE task'[u] = "new" /\ (u = "tx" => age'[u] = 0)
    <3>1. u \in DOMAIN task BY <1>14, <2>5
    <3>2. task[u] = "new" BY <2>3, <3>1
    <3>3. u \notin due BY <3>2 DEF due
    <3>4. task'[u] = "new" BY <1>15, <3>1, <3>2, <3>3
    <3>5. ASSUME u = "tx" PROVE age'[u] = 0
      <4>1. u \in DOMAIN age BY <1>2, <3>1, <3>5, TablesAre DEF Created
      <4>2. u \notin zero BY <3>3, <3>5 DEF zero
      <4>3. ~counts(u) BY <3>1, <3>2 DEF counts
      <4>4. age'[u] = age[u] BY <1>17, <4>1, <4>2, <4>3
      <4>5. QED BY <2>3, <3>1, <3>5, <4>4
    <3>6. QED BY <3>4, <3>5
  <2>6. ASSUME NEW c \in DOMAIN count', c \in {"queue", "timer"} \/ kernel' = "freertos" PROVE count'[c] = 0
    <3>1. c \in DOMAIN count /\ kernel' = kernel BY <1>1, <1>14, <2>6
    <3>2. c \notin gifts BY <1>19, <2>4, <2>6, <3>1
    <3>3. count[c] = 0 BY <2>2, <2>6, <3>1 DEF Early
    <3>4. QED BY <1>18, <3>1, <3>2, <3>3
  <2>7. kernel' = "freertos" => hook'.ticks = 0
    <3>1. SUFFICES ASSUME kernel = "freertos" PROVE hook'.ticks = 0
      BY <1>1
    <3>2. hook.ticks = 0 BY <2>2, <3>1 DEF Early
    <3>3. "sem" \notin gifts /\ ~IntsOn BY <2>4, <3>1
    <3>4. QED BY <1>13, <3>2, <3>3
  <2>8. SemEarly'
    <3>1. SUFFICES ASSUME "sem" \in DOMAIN count
                   PROVE  2 * count'["sem"] + (IF hook'.ticks > 0 THEN 1 ELSE 0) <= start
      <4>1. Spent' = 0 BY <1>1 DEF Spent
      <4>2. "sem" \in DOMAIN count' => count'["sem"] \in Nat BY <1>14, <1>18
      <4>3. hook'.ticks \in Nat BY <1>13
      <4>4. start' = start BY <1>1
      <4>5. QED BY <1>14, <4>1, <4>2, <4>3, <4>4 DEF SemEarly
    <3>2. 2 * count["sem"] + (IF hook.ticks > 0 THEN 1 ELSE 0) + 1 <= start
      BY <2>2, <3>1 DEF Early, SemEarly, Spent
    <3>3. count["sem"] \in Nat /\ count'["sem"] = (IF "sem" \in gifts THEN count["sem"] + 1 ELSE count["sem"])
      BY <1>18, <3>1
    <3>4. "sem" \in gifts => hook'.ticks = 0 /\ hook.ticks > 0 BY <1>3, <1>13, <1>24
    <3>5. QED BY ONLY <1>3, <3>2, <3>3, <3>4
  <2>9. GpEarly'
    <3>1. PICK i \in Nat : i = Interrupts BY <1>25
    <3>2. PICK j \in Nat : j = Interrupts' BY <1>25
    <3>3. 2 * i + (IF gp.age > 0 THEN 1 ELSE 0) + 1 <= start
      BY <2>2, <3>1 DEF Early, GpEarly, Spent
    <3>4. ~stepped' /\ start' = start BY <1>1
    <3>5. j <= i + 1 /\ (gp.flag \/ ~gp'.flag => j <= i) BY <1>25, <3>1, <3>2
    <3>6. 2 * j + (IF gp'.age > 0 THEN 1 ELSE 0) <= start
      <4>1. CASE gp.on /\ gp.age + 1 = GpPeriod
        <5>1. gp'.age = 0 /\ gp.age > 0 BY <1>3, <1>24, <4>1
        <5>2. QED BY ONLY <1>3, <3>3, <3>5, <5>1
      <4>2. CASE ~(gp.on /\ gp.age + 1 = GpPeriod)
        <5>1. gp'.flag = gp.flag BY <1>3, <1>24, <4>2
        <5>2. j <= i BY <3>5, <5>1
        <5>3. QED BY ONLY <1>3, <3>3, <5>2
      <4>3. QED BY <4>1, <4>2
    <3>7. Spent' = 0 BY <3>4 DEF Spent
    <3> DEFINE x == 2 * j + (IF gp'.age > 0 THEN 1 ELSE 0)
    <3>8. x \in Nat /\ x <= start BY ONLY <3>6
    <3>9. x = 2 * Interrupts' + (IF gp'.age > 0 THEN 1 ELSE 0) BY ONLY <3>2
    <3> HIDE DEF x
    <3>10. x + Spent' <= start' BY ONLY <1>3, <3>4, <3>7, <3>8
    <3>11. QED BY ONLY <3>9, <3>10 DEF GpEarly
  <2>10. QED BY <2>5, <2>6, <2>7, <2>8, <2>9 DEF Early
<1>28. StartingUp'
  <2>1. kernel' = kernel /\ start' = start /\ ~stepped' BY <1>1
  <2>2. ~hook'.on => hook'.ticks = 0 BY <1>2, <1>3, <1>13 DEF StartingUp
  <2>3. ~gp'.on => gp'.age = 0 /\ ~gp'.flag BY <1>2, <1>3, <1>21, <1>24 DEF StartingUp
  <2>4. kernel = "ucos" /\ start = 8 => ~gp'.flag
    <3>1. SUFFICES ASSUME kernel = "ucos", start = 8 PROVE ~gp'.flag
      OBVIOUS
    <3>2. ~Started BY <3>1, StartupIs DEF Started
    <3>3. ~gp.flag /\ gp.age = 0 BY <1>2, <1>5, <3>1, <3>2 DEF StartingUp
    <3>4. gp.age + 1 # GpPeriod BY <1>24, <3>3
    <3>5. QED BY <1>3, <1>24, <3>3, <3>4
  <2>5. ~Started' => Early' BY <1>3, <1>27
  <2>6. QED BY <2>1, <2>2, <2>3, <2>4, <2>5 DEF StartingUp
<1>29. Started => SemHolds'
  <2> DEFINE n == IF kernel = "freertos" THEN 0 ELSE 5
  <2>1. n \in Nat /\ kernel' = kernel BY <1>1
  <2>2. SUFFICES ASSUME Started, "sem" \in DOMAIN count
                 PROVE  count'["sem"] <= n \/ (count'["sem"] <= n + 1 /\ hook'.ticks <= late')
    BY <1>14, <2>1 DEF SemHolds
  <2>3. IntsOn /\ SemHolds /\ count["sem"] \in Nat BY <1>4, <1>8, <1>18, <2>2
  <2>4. count["sem"] <= n \/ (count["sem"] <= n + 1 /\ hook.ticks <= late) BY ONLY <2>2, <2>3 DEF SemHolds
  <2>5. CASE "sem" \in gifts
    <3>1. count["sem"] <= n BY <1>10, <2>2, <2>3, <2>5 DEF gifts
    <3>2. count'["sem"] = count["sem"] + 1 /\ hook'.ticks = 0 BY <1>13, <1>18, <2>2, <2>5
    <3> HIDE DEF n
    <3>3. QED BY <1>6, <2>1, <2>3, <3>1, <3>2
  <2>6. CASE "sem" \notin gifts
    <3>1. count'["sem"] = count["sem"] /\ hook'.ticks <= hook.ticks + 1 BY <1>3, <1>13, <1>18, <2>2, <2>6
    <3>2. count["sem"] # 0 => ~Idle BY <1>2, <2>2, Busy
    <3>3. count["sem"] # 0 => late' = late + 1 BY <1>6, <2>2, <3>2
    <3>4. hook'.ticks \in Nat BY <1>13
    <3> HIDE DEF n
    <3>5. CASE count["sem"] = 0 BY <2>1, <3>1, <3>5
    <3>6. CASE count["sem"] # 0
      <4>1. late' = late + 1 BY <3>3, <3>6
      <4>2. hook.ticks <= late => hook'.ticks <= late' BY <1>3, <3>1, <3>4, <4>1
      <4>3. QED BY <2>4, <3>1, <4>2
    <3>7. QED BY <3>5, <3>6
  <2>7. QED BY <2>5, <2>6
<1>30. Started => GpHolds'
  <2>1. SUFFICES ASSUME Started, "gp" \in DOMAIN count
                 PROVE  Interrupts' <= 5 \/ (Interrupts' = 6 /\ gp'.age <= late')
    BY <1>14 DEF GpHolds
  <2>2. PICK i \in Nat : i = Interrupts BY <1>25
  <2>3. PICK j \in Nat : j = Interrupts' BY <1>25
  <2>4. i <= 5 \/ (i = 6 /\ gp.age <= late) BY <1>4, <2>1, <2>2 DEF GpHolds
  <2>5. j <= i + 1 /\ (gp.flag \/ ~gp'.flag => j <= i) BY <1>25, <2>2, <2>3
  <2>6. gp'.flag \in BOOLEAN BY <1>3, <1>24
  <2>7. j <= 5 \/ (j = 6 /\ gp'.age <= late')
    <3>1. CASE i <= 5 /\ gp.on /\ gp.age + 1 = GpPeriod BY <1>6, <1>24, <2>5, <3>1
    <3>2. CASE i <= 5 /\ ~(gp.on /\ gp.age + 1 = GpPeriod)
      <4>1. gp'.flag = gp.flag BY <1>3, <1>24, <3>2
      <4>2. j <= i BY <2>5, <2>6, <4>1
      <4>3. QED BY <3>2, <4>2
    <3>3. CASE i = 6 /\ gp.age <= late
      <4>1. count["gp"] # 0 BY <1>25, <2>2, <3>3
      <4>2. late' = late + 1 /\ late < MaxLate BY <1>2, <1>6, <2>1, <4>1, Busy
      <4>3. gp.age + 1 # GpPeriod /\ gp.age + 1 <= late' BY <1>3, <1>24, <3>3, <4>2
      <4>4. gp'.flag = gp.flag /\ gp'.age <= late'
        <5>1. CASE gp.on BY <1>24, <4>3, <5>1
        <5>2. CASE ~gp.on BY <1>3, <1>6, <1>24, <3>3, <4>2, <5>2
        <5>3. QED BY <5>1, <5>2
      <4>5. j <= i BY <2>5, <2>6, <4>4
      <4>6. QED BY <3>3, <4>4, <4>5
    <3>4. QED BY <2>4, <3>1, <3>2, <3>3
  <2>8. QED BY <2>3, <2>7
<1>31. Started => TimerHolds'
  <2>1. SUFFICES ASSUME Started, "timer" \in DOMAIN count
                 PROVE  \/ count'["timer"] = 0
                        \/ kernel = "freertos" /\ count'["timer"] = 1 /\ age'["timer"] <= late'
    BY <1>1, <1>14 DEF TimerHolds
  <2>2. "timer" \in DOMAIN age /\ IntsOn BY <1>2, <1>8, <2>1, TablesAre DEF Created
  <2>3. TimerHolds BY <1>4, <2>1
  <2>4. CASE "timer" \in gifts
    <3>1. "timer" \in gives BY <2>2, <2>4 DEF gifts
    <3>2. count["timer"] = 0 /\ kernel = "freertos" BY <1>7, <1>11, <2>2, <3>1
    <3>3. "timer" \in zero BY <3>1 DEF zero, gives
    <3>4. age'["timer"] = 0 BY <1>17, <2>2, <3>3
    <3>5. count'["timer"] = 1 BY <1>18, <2>1, <2>4, <3>2
    <3>6. QED BY <1>6, <3>2, <3>4, <3>5
  <2>5. CASE "timer" \notin gifts /\ count["timer"] = 0 BY <1>18, <2>1, <2>5
  <2>6. CASE "timer" \notin gifts /\ count["timer"] # 0
    <3>1. kernel = "freertos" /\ count["timer"] = 1 /\ age["timer"] <= late BY <2>1, <2>3, <2>6 DEF TimerHolds
    <3>2. late' = late + 1 BY <1>2, <1>6, <2>1, <2>6, <3>1, Busy
    <3>3. "timer" \notin gives BY <2>2, <2>6 DEF gifts
    <3>4. "timer" \notin DOMAIN task BY <1>2, <3>1, Creation
    <3>5. "timer" \notin zero BY <3>1, <3>3, <3>4 DEF zero, gives, due
    <3>6. counts("timer") BY <3>4 DEF counts
    <3>7. age'["timer"] = age["timer"] + 1 BY <1>17, <2>2, <3>5, <3>6
    <3>8. count'["timer"] = 1 BY <1>18, <2>1, <2>6, <3>1
    <3>9. age["timer"] \in Nat BY <1>2, <2>2 DEF RtosTypes
    <3>10. QED BY <1>3, <3>1, <3>2, <3>7, <3>8, <3>9
  <2>7. QED BY <2>4, <2>5, <2>6
<1>32. Started => QueueSmall'
  <2>1. SUFFICES ASSUME Started, "queue" \in DOMAIN count, "tx" \in DOMAIN task
                 PROVE  QueueSmall'
    BY <1>14 DEF QueueSmall
  <2>2. count'["queue"] = count["queue"] /\ count["queue"] \in Nat BY <1>18, <1>19, <2>1
  <2>3. CASE kernel = "freertos" BY <1>1, <1>4, <2>1, <2>2, <2>3 DEF QueueSmall
  <2>4. CASE kernel # "freertos"
    <3>1. (task["tx"] # "delays" => age["tx"] = 0) /\ Backlog(Sent, age["tx"]) BY <1>4, <2>1, <2>4 DEF QueueSmall
    <3>2. "tx" \in DOMAIN age /\ IntsOn BY <1>2, <1>8, <2>1, TablesAre DEF Created
    <3>3. age["tx"] \in Nat /\ age'["tx"] \in Nat BY <1>14, <1>20, <1>2, <3>2 DEF RtosTypes
    <3>4. Sent \in Nat /\ Sent' \in Nat BY <2>2 DEF Sent
    <3>5. PICK n \in Nat, m \in Nat, a \in Nat, b \in Nat : n = Sent /\ m = Sent' /\ a = age["tx"] /\ b = age'["tx"]
      BY <3>3, <3>4
    <3>6. n # 0 => ~Idle BY <1>2, <2>1, <2>2, <3>5, Busy DEF Sent
    <3>7. n # 0 => late' = late + 1 /\ late < MaxLate BY <1>6, <2>1, <3>6
    <3>8. "tx" \notin DOMAIN ChannelOf BY TablesAre
    <3>9. CASE "tx" \in due /\ task'["tx"] = "works"
      <4>1. task["tx"] = "delays" /\ a + 1 = QueuePeriod BY <3>5, <3>9, TablesAre DEF due
      <4>2. m = n + 1 BY <2>2, <3>5, <3>9, <4>1 DEF Sent
      <4>3. "tx" \in zero BY <3>9 DEF zero
      <4>4. b = 0 BY <1>17, <3>2, <3>5, <4>3
      <4>5. (Backlog(m, b))' BY ONLY RtosTiming, <1>3, <1>6, <3>1, <3>5, <3>7, <4>1, <4>2, <4>4, BacklogGrows
      <4>6. Backlog(Sent, age["tx"])' BY ONLY <3>5, <4>5 DEF Backlog
      <4>7. kernel' = kernel BY <1>1
      <4>8. QED BY <2>4, <3>5, <4>4, <4>6, <4>7 DEF QueueSmall, Backlog, Sent
    <3>10. CASE "tx" \notin due /\ task'["tx"] = task["tx"]
      <4>1. "tx" \notin zero BY <3>10 DEF zero
      <4>2. task["tx"] = "delays" => b = a + 1 BY <1>17, <3>2, <3>5, <4>1 DEF counts
      <4>3. task["tx"] # "delays" => b = a BY <1>17, <2>1, <2>4, <3>2, <3>5, <4>1 DEF counts
      <4>4. m = n /\ b <= a + 1 BY <2>2, <3>5, <3>10, <4>2, <4>3 DEF Sent
      <4>5. (Backlog(m, b))' BY ONLY RtosTiming, <1>3, <1>6, <3>1, <3>5, <3>7, <4>4, BacklogGrows
      <4>6. Backlog(Sent, age["tx"])' BY ONLY <3>5, <4>5 DEF Backlog
      <4>7. task'["tx"] # "delays" => age'["tx"] = 0 BY <3>1, <3>5, <3>10, <4>3
      <4>8. kernel' = kernel BY <1>1
      <4>9. QED BY <2>4, <4>6, <4>7, <4>8 DEF QueueSmall, Backlog, Sent
    <3>11. QED BY <1>15, <2>1, <3>2, <3>8, <3>9, <3>10
  <2>5. QED BY <2>3, <2>4
<1>33. QED BY ONLY <1>3, <1>20, <1>22, <1>23, <1>26, <1>28, <1>29, <1>30, <1>31, <1>32 DEF RtosIInv

(* Every step keeps the invariant. *)
LEMMA NextRtos == ASSUME RtosTiming, RtosIInv, [RtosNext]_rtosVars PROVE RtosIInv'
<1>1. CASE StartStep BY <1>1, StartStepKeeps
<1>2. ASSUME NEW t \in DOMAIN task, Step(t) PROVE RtosIInv'
  <2>1. Begin(t) \/ BeginDelay(t) \/ EndDelay(t) \/ Take(t) \/ Work(t) BY <1>2 DEF Step
  <2>2. QED BY <1>2, <2>1, BeginKeeps, BeginDelayKeeps, EndDelayKeeps, TakeKeeps
<1>3. CASE Elapse BY <1>3, ElapseKeeps
<1>4. CASE GPTIMER0_isr BY <1>4, IsrKeeps
<1>5. CASE UNCHANGED rtosVars
  <2>1. UNCHANGED <<kernel, start, task, age, count, hook, gp, found, late, stepped, lost, misused>>
    BY <1>5 DEF rtosVars
  <2>2. RtosTypes' /\ (Started' <=> Started) BY <2>1 DEF RtosIInv, RtosTypes, Started, Startup
  <2>3. Created' BY <2>1 DEF RtosIInv, Created, Done, Startup, Delay
  <2>4. StartingUp'
    <3>1. Early => Early' BY <2>1 DEF Early, SemEarly, GpEarly, Interrupts, Spent
    <3>2. QED BY <2>1, <2>2, <3>1 DEF RtosIInv, StartingUp
  <2>5. Waiting' BY <2>1 DEF RtosIInv, Waiting, ChannelOf, Delay
  <2>6. Started' => SemHolds' /\ GpHolds' /\ TimerHolds'
    BY <2>1, <2>2 DEF RtosIInv, SemHolds, GpHolds, Interrupts, TimerHolds
  <2>7. Started' => QueueSmall' BY <2>1, <2>2 DEF RtosIInv, QueueSmall, Sent, Backlog
  <2>8. EventsArrive' BY <2>1 DEF RtosIInv, EventsArrive, NothingLost, OnlyCreated
  <2>9. QED BY <2>2, <2>3, <2>4, <2>5, <2>6, <2>7, <2>8 DEF RtosIInv
<1>6. QED BY <1>1, <1>2, <1>3, <1>4, <1>5 DEF RtosNext, Processor

(* No message, gift of the tick hook or interrupt is lost in any of the four      *)
(* demonstrations, and none comes for a semaphore or a task that is not there yet. *)
THEOREM EventsAlwaysArrive == ASSUME RtosTiming PROVE RtosSpec => []EventsArrive
<1>1. RtosInit => RtosIInv BY InitRtos
<1>2. RtosIInv /\ [RtosNext]_rtosVars => RtosIInv' BY RtosTiming, NextRtos
<1>3. RtosIInv => EventsArrive BY DEF RtosIInv
<1>4. QED BY <1>1, <1>2, <1>3, PTL DEF RtosSpec
=============================================================================
