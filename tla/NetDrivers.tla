------------------------------ MODULE NetDrivers ------------------------------
(***************************************************************************)
(* The two programs that drive the Ethernet MAC: examples/lwip, where the   *)
(* interrupt handler puts received frames into a queue for the main loop,   *)
(* and examples/usb/tinyusb_lwip, a USB network adapter whose main loop     *)
(* polls the descriptors ("usb_mii" and "usb_rmii": with MII it polls the   *)
(* PHY as well).                                                           *)
(*                                                                         *)
(* Both have a ring of receive descriptors, each with a buffer, that the    *)
(* program arms in turn (hmac.RxPointer) and the MAC fills in turn, and a   *)
(* ring of transmit descriptors.  The MAC, the PHY and the USB host run on  *)
(* their own.  Frames are numbered in the order they come; 0 is a frame     *)
(* with an error.                                                          *)
(***************************************************************************)
EXTENDS Naturals, Sequences

CONSTANTS
  Drivers,     \* the programs looked at
  LwipRx,      \* RX_NUM_DESC of lwip (6)
  UsbRx,       \* RX_NUM_DESC of the USB adapter (2)
  TxNum,       \* TX_NUM_DESC (2)
  Loads        \* bounds: how many frames are received and given for sending,
               \* and how often the link changes

ASSUME NetAssumption ==
  /\ Drivers \subseteq {"lwip", "usb_mii", "usb_rmii"}
  /\ {LwipRx, UsbRx, TxNum} \subseteq Nat \ {0}
  /\ Loads \subseteq [frames : Nat, out : Nat, changes : Nat]

VARIABLES
  driver,    \* the program
  load,      \* the bounds of this behaviour
  rx,        \* i -> descriptor enabled, and the frame in its buffer
  rxPointer, \* hmac.RxPointer, the next descriptor to arm
  macRx,     \* the next descriptor the MAC fills
  arrived,   \* frames received
  tx,        \* i -> descriptor enabled, and the frame in its buffer
  txPointer, \* hmac.TxPointer
  macTx,     \* the next descriptor the MAC sends
  given,     \* frames given for sending
  sent,      \* frames sent
  stat,      \* the status of the MAC: "rx", "phy"
  masked,    \* its interrupt is disabled
  phy,       \* the PHY: link up, link change not read yet, link low latched
  changes,   \* changes of the link so far
  link,      \* what the network stack was told
  pc,        \* "isr" and "main" |-> where it is
  isr,       \* stat, start_idx, and the descriptors scanned in the handler
  queue,     \* rx_queue_front, _back, _size, and the buffers queued
  got,       \* the main loop: the size it has read, and the buffer it handles
  usbFree,   \* tud_network_can_xmit
  handled,   \* history: frames handed to the network stack or to USB
  strained   \* history: more than the lwip driver is made for has happened

rxVars   == <<rx, rxPointer, macRx, arrived>>
txVars   == <<tx, txPointer, macTx, given, sent>>
linkVars == <<phy, changes, link>>
vars == <<driver, load, rxVars, txVars, stat, masked, linkVars, pc, isr, queue, got, usbFree,
          handled, strained>>

RxNum == IF driver = "lwip" THEN LwipRx ELSE UsbRx
Ring  == 0 .. RxNum - 1
After(i) == (i + 1) % RxNum

-----------------------------------------------------------------------------
(* mac_init: all receive descriptors are armed, interrupts enabled last.     *)
LwipInit ==
  /\ driver = "lwip"
  /\ link = TRUE                  \* netif_set_link_up, whatever the PHY says
UsbInit ==
  /\ driver # "lwip"
  /\ link = phy.up

Init ==
  /\ driver \in Drivers /\ load \in Loads
  /\ rx = [i \in Ring |-> [on |-> TRUE, frame |-> 0]]
  /\ rxPointer = 0 /\ macRx = 0 /\ arrived = 0
  /\ tx = [i \in 0 .. TxNum - 1 |-> [on |-> FALSE, frame |-> 0]]
  /\ txPointer = 0 /\ macTx = 0 /\ given = 0 /\ sent = <<>>
  /\ stat = {} /\ masked = FALSE
  /\ \E up \in BOOLEAN : phy = [up |-> up, chg |-> FALSE, low |-> ~up]
  /\ changes = 0
  /\ pc = [isr |-> "idle", main |-> "loop"]
  /\ isr = [stat |-> {}, start |-> 0, n |-> 0]
  /\ queue = [front |-> 0, back |-> 0, size |-> 0, slot |-> [i \in Ring |-> 0]]
  /\ got = [size |-> 0, p |-> 0]
  /\ usbFree = TRUE
  /\ handled = <<>> /\ strained = FALSE
  /\ LwipInit \/ UsbInit

-----------------------------------------------------------------------------
(* The MAC, the PHY and the USB host.                                       *)

\* frames the lwip driver has buffers for, and when none may come: between the
\* scan of the handler and the end of mac_rx_prepare
Unhandled == arrived - Len(handled)
Rearming  == pc.isr \in {"phy", "stat1", "stat2", "prepare"}

\* a frame has been received; without an armed descriptor it is lost in the MAC
FrameArrives ==
  /\ arrived < load.frames /\ rx[macRx].on
  /\ rx' = [rx EXCEPT ![macRx] = [on |-> FALSE, frame |-> arrived + 1]]
  /\ macRx' = After(macRx) /\ arrived' = arrived + 1
  /\ stat' = stat \cup {"rx"}
  /\ strained' = (strained \/ (driver = "lwip" /\ (Unhandled >= LwipRx \/ Rearming)))
  /\ UNCHANGED <<driver, load, rxPointer, txVars, masked, linkVars, pc, isr, queue, got, usbFree, handled>>

\* the same with an error, as the USB adapter tells them apart
BadFrameArrives ==
  /\ driver # "lwip" /\ rx[macRx].on
  /\ rx' = [rx EXCEPT ![macRx] = [on |-> FALSE, frame |-> 0]]
  /\ macRx' = After(macRx) /\ stat' = stat \cup {"rx"}
  /\ UNCHANGED <<driver, load, rxPointer, arrived, txVars, masked, linkVars, pc, isr, queue, got,
                 usbFree, handled, strained>>

MacSends ==
  /\ tx[macTx].on
  /\ tx' = [tx EXCEPT ![macTx].on = FALSE]
  /\ macTx' = (macTx + 1) % TxNum /\ sent' = Append(sent, tx[macTx].frame)
  /\ UNCHANGED <<driver, load, rxVars, txPointer, given, stat, masked, linkVars, pc, isr, queue, got,
                 usbFree, handled, strained>>

PhyChanges ==
  /\ changes < load.changes
  /\ phy' = [up |-> ~phy.up, chg |-> TRUE, low |-> phy.low \/ phy.up]
  /\ changes' = changes + 1 /\ stat' = stat \cup {"phy"}
  /\ UNCHANGED <<driver, load, rxVars, txVars, masked, link, pc, isr, queue, got, usbFree, handled, strained>>

\* the USB host has fetched the frame
UsbFetches ==
  /\ ~usbFree /\ usbFree' = TRUE
  /\ UNCHANGED <<driver, load, rxVars, txVars, stat, masked, linkVars, pc, isr, queue, got, handled, strained>>

-----------------------------------------------------------------------------
(* MAC_Receive and MAC_Transmit of the SDK: arm the next descriptor.         *)
MAC_Receive ==
  /\ rx' = [rx EXCEPT ![rxPointer].on = TRUE]
  /\ rxPointer' = After(rxPointer)
  /\ UNCHANGED <<macRx, arrived>>

\* copy a frame to the transmit buffer of the next descriptor and enable it
Transmit ==
  /\ given < load.out /\ given' = given + 1
  /\ tx' = [tx EXCEPT ![txPointer] = [on |-> TRUE, frame |-> given + 1]]
  /\ txPointer' = (txPointer + 1) % TxNum
  /\ UNCHANGED <<macTx, sent>>

-----------------------------------------------------------------------------
(* The link: the interrupt register of the PHY is read, which clears it, and *)
(* the status register twice, since it latches a low link until it is read.  *)
(* c is where this runs, next where it goes on.                              *)

\* the status register is read once
LinkStatus_Once(c, next) ==
  /\ pc[c] = "stat1" /\ pc' = [pc EXCEPT ![c] = next]
  /\ link' = (phy.up /\ ~phy.low)
LinkStatus(c, next) ==
  \/ /\ pc[c] = "stat1" /\ pc' = [pc EXCEPT ![c] = "stat2"]
     /\ UNCHANGED link
  \/ /\ pc[c] = "stat2" /\ pc' = [pc EXCEPT ![c] = next]
     /\ link' = (phy.up /\ ~phy.low)

CheckPhy(c, next) ==
  /\ \/ /\ pc[c] = "phy" /\ pc' = [pc EXCEPT ![c] = IF phy.chg THEN "stat1" ELSE next]
        /\ phy' = [phy EXCEPT !.chg = FALSE]
        /\ UNCHANGED link
     \/ /\ LinkStatus(c, next)
        /\ phy' = [phy EXCEPT !.low = ~phy.up]
  /\ UNCHANGED <<driver, load, rxVars, txVars, stat, masked, changes, isr, queue, got, usbFree,
                 handled, strained>>

-----------------------------------------------------------------------------
(* examples/lwip: MAC0_isr_agm.                                             *)
LwipIsrEnter ==
  /\ driver = "lwip" /\ pc.isr = "idle" /\ stat # {} /\ ~masked
  /\ isr' = [stat |-> stat, start |-> queue.front, n |-> 0]
  /\ stat' = {}                                           \* MAC_ClearStatus
  /\ pc' = [pc EXCEPT !.isr = IF "rx" \in stat THEN "scan" ELSE "phy"]
  /\ UNCHANGED <<driver, load, rxVars, txVars, masked, linkVars, queue, got, usbFree, handled, strained>>

Scanned  == (isr.start + isr.n) % RxNum
ScanEnds == isr.n = RxNum \/ rx[Scanned].on

\* queue_try_put_agm
QueuePut(p) ==
  queue' = IF queue.size = RxNum THEN queue
           ELSE [front |-> After(queue.front), back |-> queue.back, size |-> queue.size + 1,
                 slot |-> [queue.slot EXCEPT ![queue.front] = p]]

\* one descriptor: not enabled, so its frame is put into the queue, unless there
\* is no pbuf for it or the queue is full
LwipScan ==
  /\ pc.isr = "scan" /\ ~ScanEnds
  /\ \/ QueuePut(Scanned) /\ strained' = (strained \/ queue.size = RxNum)
     \/ strained' = TRUE /\ UNCHANGED queue
  /\ isr' = [isr EXCEPT !.n = @ + 1]
  /\ UNCHANGED <<driver, load, rxVars, txVars, stat, masked, linkVars, pc, got, usbFree, handled>>

LwipScanEnds ==
  /\ pc.isr = "scan" /\ ScanEnds
  /\ pc' = [pc EXCEPT !.isr = IF "phy" \in isr.stat THEN "phy" ELSE "prepare"]
  /\ UNCHANGED <<driver, load, rxVars, txVars, stat, masked, linkVars, isr, queue, got, usbFree,
                 handled, strained>>

\* mac_rx_prepare, and the end of the handler
MacRxPrepare ==
  /\ pc.isr = "prepare"
  /\ IF ~rx[rxPointer].on THEN MAC_Receive /\ UNCHANGED <<pc, isr>>
     ELSE /\ pc' = [pc EXCEPT !.isr = "idle"]
          /\ isr' = [stat |-> {}, start |-> 0, n |-> 0]
          /\ UNCHANGED rxVars
  /\ UNCHANGED <<driver, load, txVars, stat, masked, linkVars, queue, got, usbFree, handled, strained>>

LwipIsr ==
  \/ LwipIsrEnter \/ LwipScan \/ LwipScanEnds \/ MacRxPrepare
  \/ driver = "lwip" /\ CheckPhy("isr", "prepare")

-----------------------------------------------------------------------------
(* examples/lwip: main.                                                     *)

\* an interrupt that is pending is taken before the main loop's next step
MainRuns == pc.isr = "idle" /\ (stat = {} \/ masked)

\* sys_arch_protect, and queue_try_get_agm up to where it has read the size
LwipProtect_NoMask ==
  /\ driver = "lwip" /\ pc.main = "loop" /\ MainRuns
  /\ got' = [got EXCEPT !.size = queue.size]
  /\ pc' = [pc EXCEPT !.main = "get"]
  /\ UNCHANGED <<driver, load, rxVars, txVars, stat, masked, linkVars, isr, queue, usbFree, handled, strained>>
LwipProtect ==
  /\ driver = "lwip" /\ pc.main = "loop" /\ MainRuns
  /\ masked' = TRUE
  /\ got' = [got EXCEPT !.size = queue.size]
  /\ pc' = [pc EXCEPT !.main = "get"]
  /\ UNCHANGED <<driver, load, rxVars, txVars, stat, linkVars, isr, queue, usbFree, handled, strained>>

\* the rest of queue_try_get_agm, and sys_arch_unprotect
LwipGet ==
  /\ pc.main = "get" /\ MainRuns
  /\ masked' = FALSE
  /\ IF got.size = 0 THEN pc' = [pc EXCEPT !.main = "out"] /\ UNCHANGED <<queue, got>>
     ELSE /\ pc' = [pc EXCEPT !.main = "input"]
          /\ queue' = [queue EXCEPT !.size = got.size - 1, !.back = After(@)]
          /\ got' = [size |-> 0, p |-> queue.slot[queue.back]]
  /\ UNCHANGED <<driver, load, rxVars, txVars, stat, linkVars, isr, usbFree, handled, strained>>

\* netif.input: the stack takes the frame out of the buffer the pbuf refers to
LwipInput ==
  /\ pc.main = "input" /\ MainRuns
  /\ handled' = Append(handled, rx[got.p].frame)
  /\ pc' = [pc EXCEPT !.main = "out"] /\ got' = [size |-> 0, p |-> 0]
  /\ UNCHANGED <<driver, load, rxVars, txVars, stat, masked, linkVars, isr, queue, usbFree, strained>>

\* the stack sends, in answer or when a timeout has expired
NetifOutput ==
  /\ driver = "lwip" /\ pc.main = "out" /\ MainRuns
  /\ Transmit
  /\ strained' = (strained \/ tx[txPointer].on)
  /\ UNCHANGED <<driver, load, rxVars, stat, masked, linkVars, pc, isr, queue, got, usbFree, handled>>

LwipLoops ==
  /\ driver = "lwip" /\ pc.main = "out" /\ MainRuns
  /\ pc' = [pc EXCEPT !.main = "loop"]
  /\ UNCHANGED <<driver, load, rxVars, txVars, stat, masked, linkVars, isr, queue, got, usbFree,
                 handled, strained>>

LwipMain == LwipProtect \/ LwipGet \/ LwipInput \/ LwipLoops

-----------------------------------------------------------------------------
(* examples/usb/tinyusb_lwip: MAC0_isr clears the status at its end.          *)
UsbIsrEnter ==
  /\ driver # "lwip" /\ pc.isr = "idle" /\ stat # {}
  /\ isr' = [isr EXCEPT !.stat = stat]
  /\ pc' = [pc EXCEPT !.isr = IF "phy" \in stat THEN "phy" ELSE "clear"]
  /\ UNCHANGED <<driver, load, rxVars, txVars, stat, masked, linkVars, queue, got, usbFree, handled, strained>>

UsbIsrEnds ==
  /\ pc.isr = "clear"
  /\ stat' = stat \ isr.stat
  /\ isr' = [isr EXCEPT !.stat = {}] /\ pc' = [pc EXCEPT !.isr = "idle"]
  /\ UNCHANGED <<driver, load, rxVars, txVars, masked, linkVars, queue, got, usbFree, handled, strained>>

UsbIsr == UsbIsrEnter \/ UsbIsrEnds \/ (driver # "lwip" /\ CheckPhy("isr", "clear"))

\* tud_task: the host has sent a frame; refused while the descriptor is in use
TudNetworkRecvCb_NoCheck ==
  /\ driver # "lwip" /\ pc.main = "loop" /\ MainRuns
  /\ Transmit
  /\ UNCHANGED <<driver, load, rxVars, stat, masked, linkVars, pc, isr, queue, got, usbFree, handled, strained>>
TudNetworkRecvCb ==
  /\ driver # "lwip" /\ pc.main = "loop" /\ MainRuns
  /\ ~tx[txPointer].on
  /\ Transmit
  /\ UNCHANGED <<driver, load, rxVars, stat, masked, linkVars, pc, isr, queue, got, usbFree, handled, strained>>

\* tud_task returns; service_traffic begins, with the PHY if it has MII
UsbTask ==
  /\ driver # "lwip" /\ pc.main = "loop" /\ MainRuns
  /\ pc' = [pc EXCEPT !.main = IF driver = "usb_mii" THEN "phy" ELSE "rx"]
  /\ UNCHANGED <<driver, load, rxVars, txVars, stat, masked, linkVars, isr, queue, got, usbFree,
                 handled, strained>>

\* the rest of service_traffic: a frame is passed on if USB is free, one with an
\* error is not, and the descriptor is armed again in either case
ServiceTraffic_KeepsBad ==
  /\ pc.main = "rx" /\ MainRuns
  /\ pc' = [pc EXCEPT !.main = "loop"]
  /\ IF rx[rxPointer].on \/ rx[rxPointer].frame = 0 \/ ~usbFree
     THEN UNCHANGED <<rxVars, handled, usbFree>>
     ELSE MAC_Receive /\ handled' = Append(handled, rx[rxPointer].frame) /\ usbFree' = FALSE
  /\ UNCHANGED <<driver, load, txVars, stat, masked, linkVars, isr, queue, got, strained>>
ServiceTraffic ==
  /\ pc.main = "rx" /\ MainRuns
  /\ pc' = [pc EXCEPT !.main = "loop"]
  /\ \/ /\ rx[rxPointer].on \/ (rx[rxPointer].frame # 0 /\ ~usbFree)
        /\ UNCHANGED <<rxVars, handled, usbFree>>
     \/ /\ ~rx[rxPointer].on /\ rx[rxPointer].frame = 0
        /\ MAC_Receive /\ UNCHANGED <<handled, usbFree>>
     \/ /\ ~rx[rxPointer].on /\ rx[rxPointer].frame # 0 /\ usbFree
        /\ MAC_Receive /\ handled' = Append(handled, rx[rxPointer].frame) /\ usbFree' = FALSE
  /\ UNCHANGED <<driver, load, txVars, stat, masked, linkVars, isr, queue, got, strained>>

UsbMain ==
  \/ UsbTask \/ ServiceTraffic
  \/ driver # "lwip" /\ MainRuns /\ CheckPhy("main", "rx")

-----------------------------------------------------------------------------
Isr  == LwipIsr \/ UsbIsr
Main == LwipMain \/ UsbMain
Next == Isr \/ Main \/ NetifOutput \/ TudNetworkRecvCb
        \/ FrameArrives \/ BadFrameArrives \/ MacSends \/ PhyChanges \/ UsbFetches

Spec == Init /\ [][Next]_vars

(* The processor goes on with its loop and its handler, and the USB host    *)
(* fetches what it is given.                                                *)
FairSpec == Spec /\ WF_vars(Isr) /\ WF_vars(Main) /\ WF_vars(UsbFetches)

-----------------------------------------------------------------------------
\* The n descriptors, or places of the queue, from the i-th on.
From(i, n, size) == [k \in 1 .. n |-> (i + k - 1) % size]

\* Frames first .. last are in those of the descriptors is that satisfy In, each
\* once and in this order.
HeldInOrder(ds, is, In(_), first, last) ==
  LET in == {k \in DOMAIN is : In(ds[is[k]])}
  IN  /\ first <= last + 1 /\ {ds[is[k]].frame : k \in in} = first .. last
      /\ \A j, k \in in : j < k => ds[is[j]].frame < ds[is[k]].frame

(* Received frames on their way: in the hand of the main loop, in the queue,  *)
(* and in filled descriptors that have not been read.                         *)
InHand == IF pc.main = "input" THEN <<rx[got.p].frame>> ELSE <<>>
Queued ==
  LET slots == From(queue.back, queue.size, RxNum)
  IN  [k \in DOMAIN slots |-> rx[queue.slot[slots[k]]].frame]
NotRead ==
  IF driver = "lwip" THEN From(queue.front, RxNum - queue.size - Len(InHand), RxNum)
  ELSE From(rxPointer, RxNum, RxNum)
Good(d) == ~d.on /\ d.frame # 0

\* As long as no more frames come than there are buffers, and none while the
\* handler arms the descriptors, every frame received is handled once, in order
\* and as it came, however handler and main loop interleave: what was handled
\* and what is on its way are all the frames there were.  The USB adapter has
\* no such condition.
FramesInOrder ==
  ~strained =>
    LET taken == handled \o InHand \o Queued
    IN  /\ taken = [f \in 1 .. Len(taken) |-> f]
        /\ HeldInOrder(rx, NotRead, Good, Len(taken) + 1, arrived)

\* Every frame given for sending is sent once, in order and as it was given: no
\* transmit buffer is filled again before the MAC has sent it (with lwip: unless
\* the stack sends a third frame at a time).
SentAsGiven ==
  ~strained =>
    /\ sent = [f \in 1 .. Len(sent) |-> f]
    /\ HeldInOrder(tx, From(macTx, TxNum, TxNum), LAMBDA d : d.on, Len(sent) + 1, given)

\* A frame that was received does not stay in a descriptor or in the queue.
FramesHandled ==
  \A f \in UNION {1 .. l.frames : l \in Loads} : arrived >= f ~> strained \/ Len(handled) >= f

\* The lwip stack comes to know the state of the link, once it has changed, even
\* if it changes again while the handler reads the PHY.
LinkFollows == driver = "lwip" => <>[](changes = 0 \/ link = phy.up)

\* Nothing stays behind: neither a frame nor the state of the link.
NothingStays == FramesHandled /\ LinkFollows
=============================================================================
