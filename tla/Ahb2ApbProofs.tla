----------------------------- MODULE Ahb2ApbProofs -----------------------------
(***************************************************************************)
(* The two-cycle error answer of ahb2apb.v for every clock ratio, slave and *)
(* choice of slow paths: hresp never rises together with hreadyout, although *)
(* the fault and the end of the access reach SYSCLK by different registers,  *)
(* either of which may latch a value of the cycle before.                   *)
(***************************************************************************)
EXTENDS Ahb2Apb, TLAPS

Booleans ==
  /\ sys.hreadyout \in BOOLEAN /\ sys.hdone \in BOOLEAN /\ sys.hresp \in BOOLEAN
  /\ bus.pvalid \in BOOLEAN /\ bus.pdone \in BOOLEAN
  /\ slave \in [ready : BOOLEAN, err : BOOLEAN, data : Data \cup {0}, waits : Nat]
  /\ bus.apbState \in {"idle", "setup", "access"}

(* Slow paths exist between different clocks only; before an edge of BUSCLK *)
(* its registers have been at rest for a cycle of SYSCLK at least.          *)
Clocks ==
  /\ ratio \in Nat \ {0} /\ phase \in 0 .. ratio - 1
  /\ ratio = 1 => slow = {}
  /\ phase = 0 /\ ratio # 1 => busWas = BusView

(* pdone comes after the access, and no access begins in its cycle.         *)
Handshake ==
  /\ bus.apbState = "access" => ~bus.pvalid
  /\ bus.pdone => bus.apbState = "idle"
  /\ busWas.pdone => bus.apbState # "access" /\ ~busWas.fault

(* When pdone can be latched together with the fault before it, hresp has   *)
(* risen already, or the master is not in this transfer any more.           *)
FaultFirst == busWas.fault /\ bus.pdone => ratio = 1 \/ sys.hresp \/ sys.hdone

IInv == Booleans /\ Clocks /\ Handshake /\ FaultFirst
-----------------------------------------------------------------------------
LEMMA InitHolds == Init => IInv
<1> SUFFICES ASSUME Init PROVE IInv
  OBVIOUS
<1>1. ratio \in Nat \ {0} /\ phase = 0 /\ (ratio = 1 => slow = {})
  BY ConstantsAssumption DEF Init
<1>2. Booleans
  BY DEF Init, Booleans
<1>3. Clocks
  BY <1>1 DEF Init, Clocks
<1>4. ~bus.pdone /\ bus.apbState = "idle" /\ busWas.pdone = FALSE
  BY DEF Init, BusView
<1> QED BY <1>2, <1>3, <1>4 DEF IInv, Handshake, FaultFirst

(* The BUSCLK registers at an edge of BUSCLK. *)
LEMMA BusStep ==
  ASSUME Booleans, Tick, phase = 0
  PROVE  /\ bus'.apbState = NextState
         /\ bus'.pvalid \in BOOLEAN /\ bus'.pdone \in BOOLEAN
         /\ bus'.pvalid => ~psel /\ ~bus.pdone
         /\ bus'.pdone => ~bus.pdone /\ apb_pdone
<1>1. ApbRegisters
  BY DEF Tick, BusEdge
<1>2. PICK hreadyout \in {v.hreadyout : v \in SysLatched}, held \in {v.held : v \in SysLatched} :
        bus' = [apbState |-> NextState,
                access |-> IF Launch /\ held # NoTransfer THEN Access(held) ELSE bus.access,
                pvalid |-> ~hreadyout /\ ~(psel \/ bus.pdone),
                pdone  |-> ~bus.pdone /\ apb_pdone,
                prdata |-> IF apb_pdone THEN slave.data ELSE bus.prdata]
  BY <1>1 DEF ApbRegisters
<1>3. bus'.apbState = NextState
  BY <1>2
<1>4. bus'.pvalid = (~hreadyout /\ ~(psel \/ bus.pdone))
  BY <1>2
<1>5. bus'.pdone = (~bus.pdone /\ apb_pdone)
  BY <1>2
<1> QED BY <1>3, <1>4, <1>5

(* The SYSCLK registers at an edge. *)
LEMMA SysStep ==
  ASSUME Booleans, Tick
  PROVE  /\ sys'.hreadyout \in BOOLEAN /\ sys'.hdone \in BOOLEAN /\ sys'.hresp \in BOOLEAN
         /\ sys.hreadyout => sys'.hdone
         /\ sys'.hresp => ~sys.hreadyout
         /\ sys'.hresp /\ ~sys.hresp => \E v \in BusLatched : v.fault
         /\ sys'.hreadyout /\ ~sys.hreadyout /\ ~sys.hresp =>
              ~sys.hdone /\ \E v \in BusLatched : v.pdone
         /\ sys.hresp /\ ~sys.hreadyout => sys'.hreadyout
         /\ ~sys.hreadyout /\ (\A v \in BusLatched : v.fault) => sys'.hresp
<1>1. SysEdge
  BY DEF Tick
<1>2. PICK pdone \in {v.pdone : v \in BusLatched},
           pvalid \in {v.pvalid : v \in BusLatched},
           fault \in {v.fault : v \in BusLatched} :
        sys' = [hreadyout |-> ~Accepted /\ (sys.hreadyout \/ (pdone /\ ~sys.hdone) \/ sys.hresp),
                held  |-> IF Accepted THEN aph ELSE sys.held,
                hdone |-> sys.hreadyout \/ (sys.hdone /\ ~pvalid),
                hresp |-> ~sys.hreadyout /\ (sys.hresp \/ fault)]
  BY <1>1 DEF SysEdge
<1>3. PICK v1 \in BusLatched : pdone = v1.pdone
  OBVIOUS
<1>4. PICK v3 \in BusLatched : fault = v3.fault
  OBVIOUS
<1>5. sys'.hreadyout = (~Accepted /\ (sys.hreadyout \/ (v1.pdone /\ ~sys.hdone) \/ sys.hresp))
  BY <1>2, <1>3
<1>6. sys'.hdone = (sys.hreadyout \/ (sys.hdone /\ ~pvalid))
  BY <1>2
<1>7. sys'.hresp = (~sys.hreadyout /\ (sys.hresp \/ v3.fault))
  BY <1>2, <1>4
<1>8. Accepted => sys.hreadyout
  BY DEF Accepted
<1> QED BY <1>5, <1>6, <1>7, <1>8

LEMMA BooleansStep ==
  ASSUME Booleans, Tick PROVE Booleans'
<1>1. CASE phase = 0
  <2>1. Slave /\ bus'.apbState = NextState
    BY <1>1, BusStep DEF Tick, BusEdge
  <2>2. slave' \in [ready : BOOLEAN, err : BOOLEAN, data : Data \cup {0}, waits : Nat]
    <3>1. slave \in [ready : BOOLEAN, err : BOOLEAN, data : Data \cup {0}, waits : Nat]
      BY DEF Booleans
    <3>2. \A e \in Errors : e \in BOOLEAN
      BY ConstantsAssumption
    <3>3. CASE slave' = [ready |-> FALSE, err |-> FALSE, data |-> 0, waits |-> 0]
      BY <3>3
    <3>4. CASE slave' = [slave EXCEPT !.waits = @ + 1]
      BY <3>1, <3>4
    <3>5. ASSUME NEW e \in Errors, NEW d \in Data,
                 slave' = [slave EXCEPT !.ready = TRUE, !.err = e, !.data = d]
          PROVE  slave' \in [ready : BOOLEAN, err : BOOLEAN, data : Data \cup {0}, waits : Nat]
      BY <3>1, <3>2, <3>5
    <3> QED BY <2>1, <3>3, <3>4, <3>5 DEF Slave
  <2>3. NextState \in {"idle", "setup", "access"}
    BY DEF NextState, Booleans
  <2> QED BY <1>1, <2>1, <2>2, <2>3, BusStep, SysStep DEF Booleans
<1>2. CASE phase # 0
  BY <1>2, SysStep DEF Tick, Booleans
<1> QED BY <1>1, <1>2

LEMMA ClocksStep ==
  ASSUME Clocks, Tick PROVE Clocks'
<1>1. ratio' = ratio /\ slow' = slow /\ phase' = (phase + 1) % ratio /\ busWas' = BusView
  BY DEF Tick
<1>2. ratio \in Nat \ {0} /\ phase \in 0 .. ratio - 1
  BY DEF Clocks
<1>3. (phase + 1) % ratio \in 0 .. ratio - 1
  BY <1>2
<1>4. ASSUME phase' = 0, ratio # 1 PROVE busWas' = BusView'
  <2>1. phase # 0
    <3>1. CASE phase = 0
      <4>1. 1 % ratio = 1
        BY <1>2, <1>4
      <4> QED BY <1>1, <1>4, <3>1, <4>1
    <3> QED BY <3>1
  <2>2. bus' = bus /\ slave' = slave
    BY <2>1 DEF Tick
  <2> QED BY <1>1, <2>2 DEF BusView, apb_pdone, penable
<1> QED BY <1>1, <1>2, <1>3, <1>4 DEF Clocks

LEMMA HandshakeStep ==
  ASSUME Booleans, Handshake, Tick PROVE Handshake'
<1>1. /\ busWas'.pdone = bus.pdone /\ busWas'.fault = (apb_pdone /\ slave.err)
  BY DEF Tick, BusView
<1>2. busWas'.pdone => ~busWas'.fault
  BY <1>1 DEF Handshake, apb_pdone, penable
<1>3. CASE phase = 0
  <2>1. /\ bus'.apbState = NextState
        /\ bus'.pvalid => ~psel /\ ~bus.pdone
        /\ bus'.pdone => ~bus.pdone /\ apb_pdone
    BY <1>3, BusStep
  <2>2. NextState = "access" => psel /\ ~bus.pdone
    BY DEF NextState, psel, Launch, Handshake, Booleans
  <2>3. apb_pdone => NextState = "idle"
    BY DEF NextState, apb_pdone, penable, Launch, Handshake, Booleans
  <2> QED BY <1>1, <1>2, <2>1, <2>2, <2>3 DEF Handshake
<1>4. CASE phase # 0
  <2>1. bus' = bus
    BY <1>4 DEF Tick
  <2> QED BY <1>1, <1>2, <2>1 DEF Handshake
<1> QED BY <1>3, <1>4

LEMMA FaultFirstStep ==
  ASSUME IInv, Tick PROVE FaultFirst'
<1> SUFFICES ASSUME busWas'.fault, bus'.pdone, ratio # 1 PROVE sys'.hresp \/ sys'.hdone
  BY DEF FaultFirst, Tick
<1>1. apb_pdone /\ slave.err
  BY DEF Tick, BusView
<1>2. ~bus.pdone
  BY <1>1 DEF IInv, Handshake, apb_pdone, penable
<1>3. phase = 0
  BY <1>2 DEF Tick
<1>4. busWas = BusView
  BY <1>3 DEF IInv, Clocks
<1>5. \A v \in BusLatched : v = BusView
  BY <1>4 DEF BusLatched
<1>6. \A v \in BusLatched : v.fault
  <2>1. BusView.fault
    BY <1>1 DEF BusView
  <2> QED BY <1>5, <2>1
<1> QED BY <1>6, SysStep DEF IInv, Booleans

LEMMA NextHolds == IInv /\ [Next]_vars => IInv'
<1> SUFFICES ASSUME IInv, [Next]_vars PROVE IInv'
  OBVIOUS
<1>1. CASE Tick
  BY <1>1, BooleansStep, ClocksStep, HandshakeStep, FaultFirstStep DEF IInv
<1>2. CASE UNCHANGED vars
  BY <1>2 DEF vars, IInv, Booleans, Clocks, Handshake, FaultFirst, BusView, apb_pdone, penable
<1> QED BY <1>1, <1>2 DEF Next

(* The error of an access and its end never reach hready in the same cycle. *)
LEMMA NoEarlyReady ==
  ASSUME IInv, Tick, sys'.hresp, ~sys.hresp
  PROVE  ~sys'.hreadyout
<1> SUFFICES ASSUME sys'.hreadyout PROVE FALSE
  BY SysStep DEF IInv
<1>1. /\ ~sys.hreadyout /\ ~sys.hdone
  BY SysStep DEF IInv
<1>2. PICK u \in BusLatched : u.fault
  BY SysStep DEF IInv
<1>3. PICK v \in BusLatched : v.pdone
  BY <1>1, SysStep DEF IInv
<1>4. u \in {BusView, busWas} /\ v \in {BusView, busWas}
  BY <1>2, <1>3 DEF BusLatched
<1>5. v = busWas => ~u.fault
  <2>1. ASSUME busWas.pdone PROVE ~busWas.fault /\ ~BusView.fault
    BY <2>1 DEF IInv, Handshake, BusView, apb_pdone, penable
  <2> QED BY <1>3, <1>4, <2>1
<1>6. v = BusView /\ u = BusView => FALSE
  <2>1. ~(BusView.pdone /\ BusView.fault)
    BY DEF IInv, Handshake, BusView, apb_pdone, penable
  <2> QED BY <1>2, <1>3, <2>1
<1>7. u = busWas /\ v = BusView
  BY <1>2, <1>4, <1>5, <1>6
<1>8. busWas.fault /\ bus.pdone
  BY <1>2, <1>3, <1>7 DEF BusView
<1>9. ratio = 1
  BY <1>1, <1>8 DEF IInv, FaultFirst
<1>10. BusLatched = {BusView}
  BY <1>9 DEF IInv, Clocks, BusLatched
<1> QED BY <1>2, <1>3, <1>6, <1>10

(* An error is answered in two cycles, first with hready low and then with  *)
(* hready high, whatever the clocks, the slave and the slow paths.          *)
THEOREM ErrorsTakeTwoCycles == Spec => ErrorTakesTwoCycles
<1>1. IInv /\ [Next]_vars =>
        [sys'.hresp => /\ ~sys.hresp => ~sys'.hreadyout
                       /\ sys.hresp => ~sys.hreadyout /\ sys'.hreadyout]_vars
  <2> SUFFICES ASSUME IInv, Tick, sys'.hresp
               PROVE  /\ ~sys.hresp => ~sys'.hreadyout
                      /\ sys.hresp => ~sys.hreadyout /\ sys'.hreadyout
    BY DEF Next
  <2> QED BY NoEarlyReady, SysStep DEF IInv
<1> QED BY <1>1, InitHolds, NextHolds, PTL DEF Spec, ErrorTakesTwoCycles
-----------------------------------------------------------------------------
(***************************************************************************)
(* One AHB transfer is one APB access, for any transfers, any data, any     *)
(* number of wait states and any errors, in the designs of the repository   *)
(* (Designs): one clock, or SYSCLK at twice BUSCLK, and slow paths in any    *)
(* direction; until BUSCLK latches an old hreadyout (again), for which they   *)
(* have to be slow both ways.                                               *)
(***************************************************************************)
Designs == Ratios \subseteq {1, 2}

(* AHB transfers are aligned: their bytes lie within a word. *)
Aligned ==
  \A t \in Transfers : /\ t.low \in Nat /\ 2 ^ t.size \in Nat
                       /\ t.low + 2 ^ t.size <= 4

Build ==
  /\ ratio \in {1, 2} /\ phase \in 0 .. ratio - 1
  /\ slow \subseteq BothWays

(* The master is held in the transfer that was accepted. *)
Holds ==
  /\ aph \in Transfers \cup {NoTransfer} /\ dph \in Transfers \cup {NoTransfer}
  /\ ~sys.hreadyout => dph = sys.held /\ dph # NoTransfer
  /\ sys.hreadyout /\ sys.hresp => aph = NoTransfer

(* A request on BUSCLK is for a transfer that is open and not yet served.   *)
Request == bus.pvalid =>
  /\ ~sys.hreadyout /\ ~sys.hresp /\ served = <<>>
  /\ ~bus.pdone /\ ~busWas.pdone /\ ~busWas.fault
  /\ \A v \in SysLatched : v.held = sys.held

(* So is an access, and hresp rises within it only before its last edge.    *)
Selected == psel =>
  /\ ~sys.hreadyout /\ ~sys.hdone /\ served = <<>>
  /\ ~busWas.pdone
  /\ bus.access = Access(dph)
  /\ \A v \in SysLatched : v.hwdata = hwdata
  /\ sys.hresp => phase = 0 /\ apb_pdone /\ slave.err

Matches(r) ==
  /\ r.access = Access(dph) /\ r.wdata = hwdata
  /\ r.err = sys.hresp
  /\ ~sys.hresp => r.rdata = bus.prdata

(* A transfer that was served and not answered is in the cycle of pdone. *)
Ended == ~sys.hreadyout /\ served # <<>> =>
  /\ bus.pdone /\ ~sys.hdone
  /\ Len(served) = 1 /\ Matches(served[1])

(* Before it is served, hdone keeps out the pdone of the one before. *)
Pending == ~sys.hreadyout /\ served = <<>> =>
  /\ bus.pdone \/ ("toSys" \in slow /\ busWas.pdone) => sys.hdone
  /\ sys.hresp => psel

Answered == sys.hreadyout /\ dph # NoTransfer =>
  /\ Len(served) = 1 /\ Matches(served[1])
  /\ "toSys" \in slow => busWas.prdata = bus.prdata \/ sys.hresp

(* What a register of the other domain may have latched from the past. *)
BusPast ==
  /\ bus.pdone => ~busWas.pvalid
  /\ phase # 0 /\ busWas.fault => bus.pdone /\ (sys.hreadyout \/ served # <<>>)
SysPast == slow = {"toBus"} =>
  /\ \A v \in sysSeen : v.hreadyout \/ ~sys.hreadyout \/ psel \/ bus.pdone
  /\ phase = 0 /\ bus.pdone => sys.hreadyout \/ sys.hdone
  /\ phase = 0 /\ sys.hresp /\ ~sys.hreadyout => apb_pdone

Transfer == Holds /\ Request /\ Selected /\ Ended /\ Pending /\ Answered
Inv == IInv /\ Build /\ Transfer /\ BusPast /\ SysPast
Bridge == /\ again \in BOOLEAN /\ IInv /\ Build /\ (again => slow = BothWays)
          /\ ~again => Inv
-----------------------------------------------------------------------------
(* What is latched: at an edge of BUSCLK its registers are at rest, and     *)
(* SYSCLK sees them as they are; over a fast path always.                   *)
LEMMA BusLatches ==
  ASSUME Inv
  PROVE  /\ phase = 0 \/ "toSys" \notin slow => BusLatched = {BusView}
         /\ \A v \in BusLatched : v = BusView \/ ("toSys" \in slow /\ v = busWas)
         /\ slow # {} => ratio = 2
         /\ phase # 0 => ratio = 2 /\ phase = 1
         /\ ratio = 1 => slow = {}
<1>1. phase = 0 /\ "toSys" \in slow => busWas = BusView
  BY DEF Inv, IInv, Clocks
<1>2. phase # 0 => ratio = 2 /\ phase = 1
  BY DEF Inv, Build
<1>4. slow # {} => ratio = 2
  BY DEF Inv, Build, IInv, Clocks
<1> QED BY <1>1, <1>2, <1>4 DEF BusLatched

LEMMA BusViews ==
  /\ BusView.pvalid = bus.pvalid /\ BusView.pdone = bus.pdone
  /\ BusView.prdata = bus.prdata /\ BusView.fault = (apb_pdone /\ slave.err)
BY DEF BusView

LEMMA SysViews ==
  /\ SysView.hreadyout = sys.hreadyout /\ SysView.held = sys.held /\ SysView.hwdata = hwdata
  /\ SysView'.hreadyout = sys'.hreadyout /\ SysView'.held = sys'.held
  /\ SysView'.hwdata = hwdata'
BY DEF SysView

LEMMA SysChoice ==
  ASSUME Tick
  PROVE  /\ sys'.held = IF Accepted THEN aph ELSE sys.held
         /\ \E v1 \in BusLatched, v2 \in BusLatched, v3 \in BusLatched :
              /\ sys'.hreadyout = (~Accepted /\ (sys.hreadyout \/ (v1.pdone /\ ~sys.hdone) \/ sys.hresp))
              /\ sys'.hdone = (sys.hreadyout \/ (sys.hdone /\ ~v2.pvalid))
              /\ sys'.hresp = (~sys.hreadyout /\ (sys.hresp \/ v3.fault))
<1>1. SysEdge
  BY DEF Tick
<1>2. PICK pdone \in {v.pdone : v \in BusLatched},
           pvalid \in {v.pvalid : v \in BusLatched},
           fault \in {v.fault : v \in BusLatched} :
        sys' = [hreadyout |-> ~Accepted /\ (sys.hreadyout \/ (pdone /\ ~sys.hdone) \/ sys.hresp),
                held  |-> IF Accepted THEN aph ELSE sys.held,
                hdone |-> sys.hreadyout \/ (sys.hdone /\ ~pvalid),
                hresp |-> ~sys.hreadyout /\ (sys.hresp \/ fault)]
  BY <1>1 DEF SysEdge
<1>3. PICK v1 \in BusLatched : pdone = v1.pdone
  OBVIOUS
<1>4. PICK v2 \in BusLatched : pvalid = v2.pvalid
  OBVIOUS
<1>5. PICK v3 \in BusLatched : fault = v3.fault
  OBVIOUS
<1>6. sys'.held = IF Accepted THEN aph ELSE sys.held
  BY <1>2
<1>7. sys'.hreadyout = (~Accepted /\ (sys.hreadyout \/ (v1.pdone /\ ~sys.hdone) \/ sys.hresp))
  BY <1>2, <1>3
<1>8. sys'.hdone = (sys.hreadyout \/ (sys.hdone /\ ~v2.pvalid))
  BY <1>2, <1>4
<1>9. sys'.hresp = (~sys.hreadyout /\ (sys.hresp \/ v3.fault))
  BY <1>2, <1>5
<1> QED BY <1>6, <1>7, <1>8, <1>9

(* SYSCLK at an edge of both clocks, in an open transfer. *)
LEMMA OpenAtEdge ==
  ASSUME Inv, Tick, ~sys.hreadyout, phase = 0
  PROVE  /\ sys'.hreadyout <=> (bus.pdone /\ ~sys.hdone) \/ sys.hresp
         /\ sys'.hdone <=> sys.hdone /\ ~bus.pvalid
         /\ sys'.hresp <=> sys.hresp \/ (apb_pdone /\ slave.err)
<1>1. BusLatched = {BusView}
  BY BusLatches
<1>2. ~Accepted
  BY DEF Accepted
<1>3. \A v \in BusLatched : /\ v.pdone = bus.pdone /\ v.pvalid = bus.pvalid
                            /\ v.fault = (apb_pdone /\ slave.err)
  BY <1>1, BusViews
<1>4. Booleans
  BY DEF Inv, IInv
<1> QED BY <1>2, <1>3, <1>4, SysChoice DEF Booleans

(* SYSCLK between two edges of BUSCLK, in an open transfer. *)
LEMMA OpenBetween ==
  ASSUME Inv, Tick, ~sys.hreadyout, phase # 0
  PROVE  /\ sys'.hreadyout => \/ sys.hresp
                              \/ ~sys.hdone /\ (bus.pdone \/ ("toSys" \in slow /\ busWas.pdone))
         /\ sys.hresp \/ ("toSys" \notin slow /\ bus.pdone /\ ~sys.hdone) => sys'.hreadyout
         /\ sys'.hdone => sys.hdone
         /\ sys.hdone /\ ~bus.pvalid /\ ~busWas.pvalid => sys'.hdone
         /\ sys.hdone /\ ~bus.pvalid /\ "toSys" \notin slow => sys'.hdone
         /\ sys.hresp => sys'.hresp
         /\ sys'.hresp => \/ sys.hresp \/ (apb_pdone /\ slave.err)
                          \/ "toSys" \in slow /\ busWas.fault
<1>1. \A v \in BusLatched : v = BusView \/ ("toSys" \in slow /\ v = busWas)
  BY BusLatches
<1>2. ~Accepted
  BY DEF Accepted
<1>3. \A v \in BusLatched :
        \/ /\ v.pdone = bus.pdone /\ v.pvalid = bus.pvalid
           /\ v.fault = (apb_pdone /\ slave.err)
        \/ "toSys" \in slow /\ v = busWas
  BY <1>1, BusViews
<1>4. Booleans
  BY DEF Inv, IInv
<1> QED BY <1>2, <1>3, <1>4, SysChoice DEF Booleans

(* The master and its data in an open transfer. *)
LEMMA OpenHeld ==
  ASSUME Inv, Tick, ~sys.hreadyout
  PROVE  /\ dph' = dph /\ dph # NoTransfer /\ dph = sys.held /\ sys'.held = sys.held
         /\ hwdata' = hwdata /\ Access(dph)' = Access(dph)
         /\ aph' \in Transfers \cup {NoTransfer} /\ (sys.hresp => aph' = NoTransfer)
<1>1. dph' = dph /\ aph' \in Transfers \cup {NoTransfer} /\ (sys.hresp => aph' = NoTransfer)
  BY DEF Tick, Master, Inv, Transfer, Holds
<1>2. ~Accepted
  BY DEF Accepted
<1>3. sys'.held = sys.held
  BY <1>2, SysChoice
<1>4. dph # NoTransfer /\ dph = sys.held
  BY DEF Inv, Transfer, Holds
<1> QED BY <1>1, <1>3, <1>4 DEF hwdata, Access, Strobe

(* The BUSCLK registers at their edge. *)
LEMMA BusAtEdge ==
  ASSUME Inv, Tick, phase = 0
  PROVE  /\ bus'.apbState = NextState
         /\ bus'.pvalid => /\ ~psel /\ ~bus.pdone
                           /\ \E v \in SysLatched : ~v.hreadyout
         /\ bus'.pdone <=> ~bus.pdone /\ apb_pdone
         /\ bus'.prdata = IF apb_pdone THEN slave.data ELSE bus.prdata
         /\ ~Launch => bus'.access = bus.access
         /\ Launch => \E v \in SysLatched : v.held # NoTransfer => bus'.access = Access(v.held)
<1>1. ApbRegisters
  BY DEF Tick, BusEdge
<1>2. PICK hreadyout \in {v.hreadyout : v \in SysLatched}, held \in {v.held : v \in SysLatched} :
        bus' = [apbState |-> NextState,
                access |-> IF Launch /\ held # NoTransfer THEN Access(held) ELSE bus.access,
                pvalid |-> ~hreadyout /\ ~(psel \/ bus.pdone),
                pdone  |-> ~bus.pdone /\ apb_pdone,
                prdata |-> IF apb_pdone THEN slave.data ELSE bus.prdata]
  BY <1>1 DEF ApbRegisters
<1>3. bus'.apbState = NextState /\ bus'.prdata = IF apb_pdone THEN slave.data ELSE bus.prdata
  BY <1>2
<1>4. bus'.pvalid = (~hreadyout /\ ~(psel \/ bus.pdone))
  BY <1>2
<1>5. bus'.pdone = (~bus.pdone /\ apb_pdone)
  BY <1>2
<1>6. bus'.access = IF Launch /\ held # NoTransfer THEN Access(held) ELSE bus.access
  BY <1>2
<1>7. bus'.pvalid => \E v \in SysLatched : ~v.hreadyout
  BY <1>2, <1>4
<1>8. Launch => \E v \in SysLatched : v.held # NoTransfer => bus'.access = Access(v.held)
  BY <1>2, <1>6
<1> QED BY <1>3, <1>4, <1>5, <1>6, <1>7, <1>8

(* The history in an open transfer, and when the bridge is ready. *)
LEMMA ServedStep ==
  ASSUME Inv, Tick
  PROVE  /\ ~(phase = 0 /\ apb_pdone) => served' = IF sys.hreadyout THEN <<>> ELSE served
         /\ phase = 0 /\ apb_pdone =>
              \E v \in SysLatched :
                served' = <<[access |-> bus.access, wdata |-> v.hwdata,
                             rdata |-> slave.data, err |-> slave.err]>>
<1>1. History
  BY DEF Tick
<1>2. apb_pdone => ~sys.hreadyout /\ served = <<>>
  BY DEF Inv, Transfer, Selected, apb_pdone, penable, psel
<1>3. Len(<<>>) < MaxServed /\ \A r : Append(<<>>, r) = <<r>>
  BY DEF MaxServed
<1> QED BY <1>1, <1>2, <1>3 DEF History

(* What SysLatched is after a step: only what was seen. *)
LEMMA SysLatches ==
  ASSUME Inv, Tick
  PROVE  /\ "toBus" \notin slow => SysLatched = {SysView} /\ SysLatched' = {SysView'}
         /\ "toBus" \in slow => SysLatched = sysSeen /\ SysLatched' = sysSeen'
         /\ phase = 0 => sysSeen' = {SysView, SysView'}
         /\ phase # 0 => sysSeen' = sysSeen \cup {SysView'}
<1>1. slow' = slow
  BY DEF Tick
<1>2. sysSeen' = (IF phase = 0 THEN {SysView} ELSE sysSeen) \cup {SysView'}
  BY DEF Tick
<1> QED BY <1>1, <1>2 DEF SysLatched

LEMMA BuildAlways ==
  ASSUME IInv, Build, Tick
  PROVE  /\ Build' /\ ratio' = ratio /\ slow' = slow
         /\ phase = 0 => phase' = 0 \/ ratio = 2
         /\ phase = 0 /\ slow # {} => phase' # 0
         /\ phase # 0 => phase' = 0 /\ bus' = bus /\ slave' = slave
<1>1. /\ ratio' = ratio /\ slow' = slow /\ phase' = (phase + 1) % ratio
      /\ phase # 0 => bus' = bus /\ slave' = slave
  BY DEF Tick
<1>2. CASE ratio = 1
  <2>1. phase = 0 /\ (0 + 1) % 1 = 0
    BY <1>2 DEF Build
  <2>2. slow = {}
    BY <1>2 DEF IInv, Clocks
  <2> QED BY <1>1, <1>2, <2>1, <2>2 DEF Build
<1>3. CASE ratio = 2
  <2>1. phase \in {0, 1} /\ (0 + 1) % 2 = 1 /\ (1 + 1) % 2 = 0
    BY <1>3 DEF Build
  <2> QED BY <1>1, <1>3, <2>1 DEF Build
<1> QED BY <1>2, <1>3 DEF Build

LEMMA BuildStep ==
  ASSUME Inv, Tick
  PROVE  /\ Build' /\ ratio' = ratio /\ slow' = slow
         /\ phase = 0 => phase' = 0 \/ ratio = 2
         /\ phase = 0 /\ slow # {} => phase' # 0
         /\ phase # 0 => phase' = 0 /\ bus' = bus /\ slave' = slave
BY BuildAlways DEF Inv

(* While the bridge is ready nothing is requested or selected, before and   *)
(* after the step, although BUSCLK may latch an older hreadyout.            *)
LEMMA ReadyStep ==
  ASSUME Inv, Tick, sys.hreadyout, ~again'
  PROVE  Transfer' /\ BusPast' /\ SysPast'
<1>1. ~psel /\ ~bus.pvalid /\ ~apb_pdone /\ bus.apbState = "idle"
  BY DEF Inv, Transfer, Selected, Request, apb_pdone, penable, psel
<1>2. /\ dph' = aph /\ aph \in Transfers \cup {NoTransfer}
      /\ aph' \in Transfers \cup {NoTransfer}
  BY DEF Tick, Master, Inv, Transfer, Holds
<1>3. Accepted <=> aph # NoTransfer
  BY DEF Accepted, Inv, Transfer, Holds
<1>4. /\ sys'.hdone /\ ~sys'.hresp /\ sys'.held = IF Accepted THEN aph ELSE sys.held
      /\ sys'.hreadyout <=> ~Accepted
  BY SysChoice DEF Inv, IInv, Booleans
<1>5. served' = <<>>
  BY <1>1, ServedStep
<1>6. ~psel' /\ ~bus'.pvalid /\ (bus'.pdone => phase # 0 /\ bus' = bus)
  <2>1. CASE phase = 0
    <3>1. bus'.apbState = "idle"
      BY <1>1, <2>1, BusAtEdge DEF NextState, Launch
    <3>2. ~bus'.pdone
      BY <1>1, <2>1, BusAtEdge
    <3>3. ~bus'.pvalid
      BY <2>1 DEF Tick, Repetition
    <3> QED BY <3>1, <3>2, <3>3 DEF psel
  <2>2. CASE phase # 0
    <3>1. bus' = bus
      BY <2>2, BuildStep
    <3> QED BY <1>1, <2>2, <3>1 DEF psel
  <2> QED BY <2>1, <2>2
<1>7. Holds'
  BY <1>2, <1>3, <1>4 DEF Holds
<1>8. Request' /\ Selected'
  BY <1>6 DEF Request, Selected
<1>9. Ended' /\ Pending' /\ Answered'
  BY <1>2, <1>3, <1>4, <1>5 DEF Ended, Pending, Answered
<1>10. busWas' = BusView
  BY DEF Tick
<1>11. BusPast'
  BY <1>1, <1>6, <1>10, BusViews DEF BusPast
<1>12. SysPast'
  <2> SUFFICES ASSUME slow = {"toBus"}
               PROVE  \A v \in sysSeen' : v.hreadyout \/ ~sys'.hreadyout \/ psel' \/ bus'.pdone
    BY <1>4, BuildStep DEF SysPast
  <2>1. CASE phase = 0
    BY <2>1, SysLatches, SysViews
  <2>2. CASE phase # 0
    <3>1. \A v \in sysSeen : v.hreadyout \/ bus.pdone
      BY <1>1 DEF Inv, SysPast
    <3>2. bus' = bus
      BY <2>2, BuildStep
    <3> QED BY <2>2, <3>1, <3>2, SysLatches, SysViews
  <2> QED BY <2>1, <2>2
<1> QED BY <1>7, <1>8, <1>9, <1>11, <1>12 DEF Transfer

(* An open transfer at an edge of BUSCLK: it was served in the cycle before. *)
LEMMA EdgeServed ==
  ASSUME Inv, Tick, ~sys.hreadyout, phase = 0, served # <<>>
  PROVE  Transfer' /\ BusPast' /\ SysPast'
<1>1. bus.pdone /\ ~sys.hdone /\ Len(served) = 1 /\ Matches(served[1])
  BY DEF Inv, Transfer, Ended
<1>2. ~bus.pvalid /\ ~psel /\ ~apb_pdone /\ bus.apbState = "idle"
  BY <1>1 DEF Inv, IInv, Handshake, Transfer, Request, psel, apb_pdone, penable
<1>3. slow # {"toBus"}
  BY <1>1 DEF Inv, SysPast
<1>4. sys'.hreadyout /\ (sys'.hresp <=> sys.hresp) /\ ~sys'.hdone
  BY <1>1, <1>2, OpenAtEdge
<1>5. /\ ~bus'.pvalid /\ ~bus'.pdone /\ ~psel' /\ bus'.prdata = bus.prdata
  BY <1>1, <1>2, BusAtEdge DEF NextState, Launch, psel
<1>6. served' = served
  BY <1>2, ServedStep
<1>7. busWas' = BusView /\ slow' = slow
  BY DEF Tick
<1>8. Holds'
  <2>1. sys'.hresp => sys.hresp
    BY <1>4
  <2> QED BY <1>4, <2>1, OpenHeld DEF Holds, Inv, Transfer
<1>9. Request' /\ Selected' /\ Ended' /\ Pending'
  BY <1>4, <1>5 DEF Request, Selected, Ended, Pending
<1>10. Matches(served[1])'
  <2>1. sys'.hresp = sys.hresp
    BY <1>4, BooleansStep DEF Inv, IInv, Booleans
  <2> QED BY <1>1, <1>5, <1>6, <2>1, OpenHeld DEF Matches
<1>11. Answered'
  BY <1>1, <1>5, <1>6, <1>7, <1>10, BusViews DEF Answered
<1>12. BusPast'
  BY <1>2, <1>5, <1>7, BusViews DEF BusPast
<1>13. SysPast'
  BY <1>3, <1>7 DEF SysPast
<1> QED BY <1>8, <1>9, <1>11, <1>12, <1>13 DEF Transfer

(* The access of the transfer ends. *)
LEMMA EdgeEnds ==
  ASSUME Inv, Tick, ~sys.hreadyout, phase = 0, served = <<>>, apb_pdone
  PROVE  Transfer' /\ BusPast' /\ SysPast'
<1>1. /\ psel /\ ~sys.hdone /\ bus.access = Access(dph)
      /\ \A v \in SysLatched : v.hwdata = hwdata
      /\ sys.hresp => slave.err
  BY DEF Inv, Transfer, Selected, psel, apb_pdone, penable
<1>2. ~bus.pvalid /\ ~bus.pdone
  BY DEF Inv, IInv, Handshake, apb_pdone, penable
<1>3. /\ sys'.hreadyout <=> sys.hresp
      /\ sys'.hresp <=> slave.err
      /\ ~sys'.hdone
  BY <1>1, <1>2, OpenAtEdge
<1>4. ~bus'.pvalid /\ bus'.pdone /\ ~psel' /\ bus'.prdata = slave.data
  BY <1>1, <1>2, BusAtEdge DEF NextState, Launch, psel, apb_pdone, penable
<1>5. PICK r : /\ served' = <<r>> /\ r.access = Access(dph) /\ r.wdata = hwdata
               /\ r.rdata = slave.data /\ r.err = slave.err
  <2>1. PICK v \in SysLatched :
          served' = <<[access |-> bus.access, wdata |-> v.hwdata,
                       rdata |-> slave.data, err |-> slave.err]>>
    BY ServedStep
  <2>2. v.hwdata = hwdata
    BY <1>1
  <2>3. WITNESS [access |-> bus.access, wdata |-> v.hwdata, rdata |-> slave.data, err |-> slave.err]
  <2> QED BY <1>1, <2>1, <2>2
<1>6. Len(served') = 1 /\ served'[1] = r /\ served' # <<>>
  BY <1>5
<1>7. busWas' = BusView /\ slow' = slow
  BY DEF Tick
<1>8. Holds'
  BY <1>3, OpenHeld DEF Holds, Inv, Transfer
<1>9. Request' /\ Selected' /\ Pending'
  BY <1>4, <1>6 DEF Request, Selected, Pending
<1>10. Matches(served[1])'
  <2>1. r.err = sys'.hresp
    BY <1>3, <1>5, BooleansStep DEF Inv, IInv, Booleans
  <2> QED BY <1>4, <1>5, <1>6, <2>1, OpenHeld DEF Matches
<1>11. Answered' /\ Ended'
  <2>1. sys'.hreadyout => sys'.hresp
    BY <1>1, <1>3
  <2> QED BY <1>3, <1>4, <1>6, <1>10, <2>1 DEF Answered, Ended
<1>12. BusPast'
  BY <1>2, <1>4, <1>6, <1>7, BusViews DEF BusPast
<1>13. SysPast'
  <2>1. slow = {"toBus"} => phase' # 0
    BY BuildStep
  <2> QED BY <1>4, <1>7, <2>1 DEF SysPast
<1> QED BY <1>8, <1>9, <1>11, <1>12, <1>13 DEF Transfer

(* The access of the transfer goes on. *)
LEMMA EdgeGoesOn ==
  ASSUME Inv, Tick, ~sys.hreadyout, phase = 0, psel, ~apb_pdone
  PROVE  Transfer' /\ BusPast' /\ SysPast'
<1>1. /\ ~sys.hdone /\ served = <<>> /\ bus.access = Access(dph)
      /\ \A v \in SysLatched : v.hwdata = hwdata
      /\ ~sys.hresp
  BY DEF Inv, Transfer, Selected
<1>2. ~bus.pdone
  BY DEF Inv, IInv, Handshake, psel
<1>3. ~sys'.hreadyout /\ ~sys'.hresp /\ ~sys'.hdone
  BY <1>1, <1>2, OpenAtEdge
<1>4. /\ ~bus'.pvalid /\ ~bus'.pdone /\ bus'.access = bus.access
  BY <1>2, BusAtEdge DEF Launch, psel
<1>5. served' = <<>>
  BY <1>1, ServedStep
<1>6. busWas' = BusView /\ slow' = slow
  BY DEF Tick
<1>7. ~busWas'.pdone /\ ~busWas'.fault
  BY <1>2, <1>6, BusViews
<1>8. Holds'
  BY <1>3, OpenHeld DEF Holds, Inv, Transfer
<1>9. \A v \in SysLatched' : v.hwdata = hwdata'
  <2>1. SysLatched' \subseteq {SysView, SysView'}
    BY SysLatches
  <2> QED BY <2>1, SysViews, OpenHeld
<1>10. Selected'
  BY <1>1, <1>3, <1>4, <1>5, <1>7, <1>9, OpenHeld DEF Selected
<1>11. Request' /\ Ended' /\ Pending' /\ Answered'
  BY <1>3, <1>4, <1>5, <1>7 DEF Request, Ended, Pending, Answered
<1>12. BusPast'
  BY <1>4, <1>7 DEF BusPast
<1>13. SysPast'
  BY <1>3, <1>4 DEF SysPast
<1> QED BY <1>8, <1>10, <1>11, <1>12, <1>13 DEF Transfer

(* The transfer waits for its access, which may be requested or begin now. *)
LEMMA EdgeBegins ==
  ASSUME Inv, Tick, ~sys.hreadyout, phase = 0, served = <<>>, ~psel
  PROVE  Transfer' /\ BusPast' /\ SysPast'
<1>1. /\ ~sys.hresp /\ (bus.pdone => sys.hdone)
      /\ ~apb_pdone /\ bus.apbState = "idle"
  BY DEF Inv, Transfer, Pending, IInv, Booleans, psel, apb_pdone, penable
<1>2. ~sys'.hreadyout /\ ~sys'.hresp /\ (sys'.hdone <=> sys.hdone /\ ~bus.pvalid)
  BY <1>1, OpenAtEdge
<1>3. served' = <<>>
  BY <1>1, ServedStep
<1>4. ~bus'.pdone /\ (bus'.pvalid => ~bus.pdone) /\ (psel' <=> bus.pvalid)
  BY <1>1, BusAtEdge DEF NextState, Launch, psel
<1>5. busWas' = BusView /\ slow' = slow
  BY DEF Tick
<1>6. (busWas'.pdone <=> bus.pdone) /\ ~busWas'.fault
  BY <1>1, <1>5, BusViews
<1>7. bus.pvalid => ~bus.pdone
  BY DEF Inv, Transfer, Request
<1>8. SysLatched' \subseteq {SysView, SysView'}
  BY SysLatches
<1>9. \A v \in SysLatched' : v.hwdata = hwdata' /\ v.held = sys'.held
  BY <1>8, SysViews, OpenHeld
<1>10. Holds'
  BY <1>2, OpenHeld DEF Holds, Inv, Transfer
<1>11. Request'
  BY <1>2, <1>3, <1>4, <1>6, <1>9 DEF Request
<1>12. ASSUME bus.pvalid PROVE bus'.access = Access(dph)
  <2>1. Launch /\ \A v \in SysLatched : v.held = sys.held
    BY <1>1, <1>12 DEF Launch, Inv, Transfer, Request
  <2>2. sys.held = dph /\ dph # NoTransfer
    BY OpenHeld
  <2>3. PICK v \in SysLatched : v.held # NoTransfer => bus'.access = Access(v.held)
    BY <2>1, BusAtEdge
  <2> QED BY <2>1, <2>2, <2>3
<1>13. Selected'
  BY <1>2, <1>3, <1>4, <1>6, <1>7, <1>9, <1>12, OpenHeld DEF Selected
<1>14. Ended' /\ Answered' /\ Pending'
  BY <1>1, <1>2, <1>3, <1>4, <1>6, <1>7 DEF Ended, Pending, Answered
<1>15. BusPast' /\ SysPast'
  BY <1>2, <1>4, <1>6 DEF BusPast, SysPast
<1> QED BY <1>10, <1>11, <1>13, <1>14, <1>15 DEF Transfer

(* Between two edges of BUSCLK its registers are at rest. *)
LEMMA AtRest ==
  ASSUME Inv, Tick, ~sys.hreadyout, phase # 0
  PROVE  /\ bus' = bus /\ slave' = slave /\ phase' = 0 /\ slow' = slow
         /\ psel' = psel /\ apb_pdone' = apb_pdone
         /\ busWas'.pdone = bus.pdone /\ busWas'.prdata = bus.prdata
         /\ busWas'.pvalid = bus.pvalid /\ busWas'.fault = (apb_pdone /\ slave.err)
         /\ served' = served
<1>1. bus' = bus /\ slave' = slave /\ phase' = 0 /\ slow' = slow /\ served' = served
  BY BuildStep, ServedStep
<1>2. busWas' = BusView
  BY DEF Tick
<1> QED BY <1>1, <1>2, BusViews DEF psel, apb_pdone, penable

(* SYSCLK sees nothing of an answered past through what it shows BUSCLK.    *)
LEMMA SysPastBetween ==
  ASSUME Inv, Tick, ~sys.hreadyout, phase # 0
  PROVE  SysPast'
<1> SUFFICES ASSUME slow = {"toBus"}
             PROVE  /\ \A v \in sysSeen' : v.hreadyout \/ ~sys'.hreadyout \/ psel \/ bus.pdone
                    /\ bus.pdone => sys'.hreadyout \/ sys'.hdone
                    /\ sys'.hresp /\ ~sys'.hreadyout => apb_pdone
  BY AtRest DEF SysPast
<1>1. "toSys" \notin slow
  OBVIOUS
<1>2. sys'.hreadyout => psel \/ bus.pdone
  <2>1. sys'.hreadyout => sys.hresp \/ bus.pdone
    BY <1>1, OpenBetween
  <2>2. sys.hresp => psel \/ bus.pdone
    BY DEF Inv, Transfer, Pending, Ended
  <2> QED BY <2>1, <2>2
<1>3. sysSeen' = sysSeen \cup {SysView'}
  BY SysLatches
<1>4. bus.pdone => sys'.hreadyout \/ sys'.hdone
  <2>1. bus.pdone => ~bus.pvalid
    BY DEF Inv, Transfer, Request
  <2>2. sys.hdone \in BOOLEAN
    BY DEF Inv, IInv, Booleans
  <2> QED BY <1>1, <2>1, <2>2, OpenBetween
<1>5. sys'.hresp /\ ~sys'.hreadyout => apb_pdone
  BY <1>1, OpenBetween
<1> QED BY <1>2, <1>3, <1>4, <1>5, SysViews

(* The transfer was served: pdone is up, and may be seen now or later. *)
LEMMA BetweenServed ==
  ASSUME Inv, Tick, ~sys.hreadyout, phase # 0, served # <<>>
  PROVE  Transfer' /\ BusPast'
<1>1. bus.pdone /\ ~sys.hdone /\ Len(served) = 1 /\ Matches(served[1])
  BY DEF Inv, Transfer, Ended
<1>2. ~bus.pvalid /\ ~psel /\ ~apb_pdone
  BY <1>1 DEF Inv, IInv, Handshake, Transfer, Request, psel, apb_pdone, penable
<1>3. sys'.hresp = sys.hresp
  <2>1. "toSys" \in slow /\ busWas.fault => sys.hresp
    BY <1>1, BusLatches DEF Inv, IInv, FaultFirst
  <2>2. sys'.hresp <=> sys.hresp
    BY <1>2, <2>1, OpenBetween
  <2> QED BY <2>2, BooleansStep DEF Inv, IInv, Booleans
<1>4. ~sys'.hdone /\ (sys.hresp => sys'.hreadyout)
  BY <1>1, OpenBetween
<1>5. Holds'
  BY <1>3, OpenHeld DEF Holds, Inv, Transfer
<1>6. Matches(served[1])'
  BY <1>1, <1>3, AtRest, OpenHeld DEF Matches
<1>7. Request' /\ Selected'
  BY <1>2, AtRest DEF Request, Selected
<1>8. Ended' /\ Pending' /\ Answered'
  BY <1>1, <1>4, <1>6, AtRest DEF Ended, Pending, Answered
<1>9. BusPast'
  BY <1>2, AtRest DEF BusPast
<1> QED BY <1>5, <1>7, <1>8, <1>9 DEF Transfer

(* The transfer is being performed. *)
LEMMA BetweenSelected ==
  ASSUME Inv, Tick, ~sys.hreadyout, phase # 0, psel
  PROVE  Transfer' /\ BusPast'
<1>1. /\ ~sys.hdone /\ served = <<>> /\ bus.access = Access(dph)
      /\ \A v \in SysLatched : v.hwdata = hwdata
      /\ ~sys.hresp /\ ~busWas.pdone
  BY DEF Inv, Transfer, Selected
<1>2. ~bus.pdone
  BY DEF Inv, IInv, Handshake, psel
<1>3. ~busWas.fault
  BY <1>2 DEF Inv, BusPast
<1>4. ~sys'.hreadyout /\ ~sys'.hdone /\ (sys'.hresp => apb_pdone /\ slave.err)
  BY <1>1, <1>2, <1>3, OpenBetween
<1>5. apb_pdone => ~bus.pvalid
  BY DEF Inv, IInv, Handshake, apb_pdone, penable
<1>6. SysLatched' \subseteq SysLatched \cup {SysView'}
  BY SysLatches
<1>7. Holds'
  BY <1>4, OpenHeld DEF Holds, Inv, Transfer
<1>8. Selected'
  <2>1. \A v \in SysLatched' : v.hwdata = hwdata'
    BY <1>1, <1>6, SysViews, OpenHeld
  <2> QED BY <1>1, <1>2, <1>4, <2>1, AtRest, OpenHeld DEF Selected
<1>9. Request'
  <2>1. ASSUME bus.pvalid PROVE \A v \in SysLatched' : v.held = sys'.held
    <3>1. \A v \in SysLatched : v.held = sys.held
      BY <2>1 DEF Inv, Transfer, Request
    <3> QED BY <3>1, <1>6, SysViews, OpenHeld
  <2> QED BY <1>1, <1>2, <1>4, <1>5, <2>1, AtRest DEF Request
<1>10. Ended' /\ Pending' /\ Answered'
  BY <1>1, <1>2, <1>4, AtRest DEF Ended, Pending, Answered
<1>11. BusPast'
  BY <1>2, AtRest DEF BusPast
<1> QED BY <1>7, <1>8, <1>9, <1>10, <1>11 DEF Transfer

(* The transfer waits: the pdone that may be seen is of the one before. *)
LEMMA BetweenWaits ==
  ASSUME Inv, Tick, ~sys.hreadyout, phase # 0, served = <<>>, ~psel
  PROVE  Transfer' /\ BusPast'
<1>1. /\ ~sys.hresp /\ ~apb_pdone /\ ~busWas.fault
      /\ bus.pdone \/ ("toSys" \in slow /\ busWas.pdone) => sys.hdone
  BY DEF Inv, Transfer, Pending, BusPast, psel, apb_pdone, penable
<1>2. ~sys'.hreadyout /\ ~sys'.hresp
  BY <1>1, OpenBetween
<1>3. bus.pdone => ~bus.pvalid /\ ~busWas.pvalid
  BY DEF Inv, Transfer, Request, BusPast
<1>4. bus.pdone => sys'.hdone
  BY <1>1, <1>3, OpenBetween
<1>5. SysLatched' \subseteq SysLatched \cup {SysView'}
  BY SysLatches
<1>6. Holds'
  BY <1>2, OpenHeld DEF Holds, Inv, Transfer
<1>7. Request'
  <2>1. ASSUME bus.pvalid PROVE \A v \in SysLatched' : v.held = sys'.held
    <3>1. \A v \in SysLatched : v.held = sys.held
      BY <2>1 DEF Inv, Transfer, Request
    <3> QED BY <3>1, <1>5, SysViews, OpenHeld
  <2> QED BY <1>1, <1>2, <1>3, <2>1, AtRest DEF Request
<1>8. Selected'
  BY AtRest DEF Selected
<1>9. Ended' /\ Pending' /\ Answered'
  BY <1>2, <1>4, AtRest DEF Ended, Pending, Answered
<1>10. BusPast'
  BY <1>3, AtRest DEF BusPast
<1> QED BY <1>6, <1>7, <1>8, <1>9, <1>10 DEF Transfer

-----------------------------------------------------------------------------
LEMMA InitInv ==
  ASSUME Designs PROVE Init => Bridge
<1> SUFFICES ASSUME Init PROVE Bridge
  OBVIOUS
<1>1. IInv
  BY InitHolds
<1>2. Build /\ again = FALSE
  <2>1. ratio \in {1, 2} /\ phase = 0 /\ again = FALSE
    BY DEF Init, Designs
  <2>2. slow \in {{}} \cup Margins
    BY DEF Init
  <2>3. slow \subseteq BothWays
    BY <2>2, ConstantsAssumption DEF BothWays
  <2>4. phase \in 0 .. ratio - 1
    BY <2>1
  <2> QED BY <2>1, <2>3, <2>4 DEF Build
<1>3. sys = [hreadyout |-> TRUE, held |-> NoTransfer, hdone |-> TRUE, hresp |-> FALSE]
  BY DEF Init
<1>4. /\ ~bus.pvalid /\ ~bus.pdone /\ ~psel /\ aph = NoTransfer /\ dph = NoTransfer
      /\ phase = 0 /\ sysSeen = {SysView}
  BY DEF Init, psel
<1>5. Transfer
  BY <1>3, <1>4 DEF Transfer, Holds, Request, Selected, Ended, Pending, Answered
<1>6. BusPast /\ SysPast
  BY <1>3, <1>4, SysViews DEF BusPast, SysPast
<1> QED BY <1>1, <1>2, <1>5, <1>6 DEF Bridge, Inv

LEMMA InvStep ==
  ASSUME Inv, Tick, ~again' PROVE Inv'
<1>1. IInv' /\ Build'
  BY NextHolds, BuildStep DEF Inv, Next
<1>2. Transfer' /\ BusPast' /\ SysPast'
  <2>1. CASE sys.hreadyout
    BY <2>1, ReadyStep
  <2>2. CASE ~sys.hreadyout /\ phase = 0
    <3>1. apb_pdone => psel
      BY DEF apb_pdone, penable, psel
    <3>2. psel => served = <<>>
      BY DEF Inv, Transfer, Selected
    <3> QED BY <2>2, <3>1, <3>2, EdgeServed, EdgeEnds, EdgeGoesOn, EdgeBegins
  <2>3. CASE ~sys.hreadyout /\ phase # 0
    BY <2>3, BetweenServed, BetweenSelected, BetweenWaits, SysPastBetween
  <2> QED BY <2>1, <2>2, <2>3
<1> QED BY <1>1, <1>2 DEF Inv

(* With slow paths one way only, BUSCLK never sees a transfer that is over.  *)
LEMMA OnlyBothWays ==
  ASSUME Inv, Tick, ~again, again' PROVE slow = BothWays
<1>1. phase = 0 /\ bus'.pvalid /\ sys.hreadyout
  BY DEF Tick, Repetition
<1>2. ~psel /\ ~bus.pdone /\ \E v \in SysLatched : ~v.hreadyout
  BY <1>1, BusAtEdge
<1>3. "toBus" \in slow
  <2> SUFFICES ASSUME "toBus" \notin slow PROVE FALSE
    OBVIOUS
  <2> QED BY <1>1, <1>2, SysLatches, SysViews
<1>4. slow # {"toBus"}
  <2> SUFFICES ASSUME slow = {"toBus"} PROVE FALSE
    OBVIOUS
  <2> QED BY <1>1, <1>2, SysLatches DEF Inv, SysPast
<1> QED BY <1>3, <1>4 DEF Inv, Build, BothWays

LEMMA NextInv == Bridge /\ [Next]_vars => Bridge'
<1> SUFFICES ASSUME Bridge, [Next]_vars PROVE Bridge'
  OBVIOUS
<1>1. CASE Tick
  <2>1. IInv'
    BY <1>1, NextHolds DEF Bridge, Next
  <2>2. Build' /\ slow' = slow
    BY <1>1, BuildAlways DEF Bridge
  <2>3. again' \in BOOLEAN
    BY <1>1 DEF Bridge, Tick, Repetition
  <2>4. CASE again
    <3>1. again' = TRUE
      BY <1>1, <2>4 DEF Tick, Repetition
    <3> QED BY <2>1, <2>2, <2>3, <2>4, <3>1 DEF Bridge
  <2>5. CASE ~again
    BY <1>1, <2>1, <2>2, <2>3, <2>5, InvStep, OnlyBothWays DEF Bridge
  <2> QED BY <2>4, <2>5
<1>2. CASE UNCHANGED vars
  <2>1. /\ sys' = sys /\ bus' = bus /\ slave' = slave /\ aph' = aph /\ dph' = dph
        /\ ratio' = ratio /\ slow' = slow /\ phase' = phase /\ sysSeen' = sysSeen
        /\ busWas' = busWas /\ served' = served /\ again' = again
    BY <1>2 DEF vars
  <2>2. IInv' /\ Build'
    BY <1>2, <2>1, NextHolds DEF Bridge, Build
  <2>3. /\ hwdata' = hwdata /\ psel' = psel /\ apb_pdone' = apb_pdone
        /\ SysLatched' = SysLatched /\ Access(dph)' = Access(dph)
    BY <2>1 DEF hwdata, psel, apb_pdone, penable, SysLatched, SysView, Access, Strobe
  <2>4. Transfer => Transfer'
    BY <2>1, <2>3 DEF Transfer, Holds, Request, Selected, Ended, Pending, Answered, Matches
  <2>5. (BusPast => BusPast') /\ (SysPast => SysPast')
    BY <2>1, <2>3 DEF BusPast, SysPast
  <2> QED BY <2>1, <2>2, <2>4, <2>5 DEF Bridge, Inv
<1> QED BY <1>1, <1>2 DEF Next

(* The byte lanes of ahb_strb are those of an aligned transfer. *)
LEMMA AccessAsked ==
  ASSUME Aligned, NEW t \in Transfers
  PROVE  AsksFor(t, Access(t))
<1>1. /\ Access(t).word = t.word /\ Access(t).write = t.write
      /\ Access(t).strb = Strobe(t)
  BY DEF Access
<1>2. ASSUME t.write PROVE Strobe(t) = {t.low + i : i \in 0 .. (2 ^ t.size - 1)}
  <2> DEFINE n == 2 ^ t.size
             l == t.low
  <2>1. l \in Nat /\ n \in Nat /\ l + n <= 4
    BY DEF Aligned
  <2>2. Strobe(t) = {b \in 0 .. 3 : b >= l /\ b < l + n}
    BY <1>2 DEF Strobe
  <2> HIDE DEF n, l
  <2>3. ASSUME NEW b \in 0 .. 3, b >= l, b < l + n
        PROVE  \E i \in 0 .. (n - 1) : b = l + i
    <3>1. b - l \in 0 .. (n - 1) /\ b = l + (b - l)
      BY <2>1, <2>3
    <3> QED BY <3>1
  <2>4. ASSUME NEW i \in 0 .. (n - 1)
        PROVE  l + i \in 0 .. 3 /\ l + i >= l /\ l + i < l + n
    BY <2>1
  <2>5. {b \in 0 .. 3 : b >= l /\ b < l + n} = {l + i : i \in 0 .. (n - 1)}
    BY <2>3, <2>4
  <2> QED BY <2>2, <2>5 DEF n, l
<1> QED BY <1>1, <1>2 DEF AsksFor

(* While the APB slave is selected, the master is held in the transfer that *)
(* is being performed, and the write data, which ahb2apb.v does not         *)
(* register, is the same whenever it is latched - with one clock or SYSCLK   *)
(* at twice BUSCLK, slow paths in any direction, and until BUSCLK latches an *)
(* old hreadyout, which takes slow paths both ways (again).                  *)
THEOREM SelectedHasMaster ==
  ASSUME Designs, Aligned PROVE Spec => []AccessHasMaster
<1>1. Bridge => AccessHasMaster
  <2> SUFFICES ASSUME Inv, psel
               PROVE  /\ dph # NoTransfer /\ AsksFor(dph, bus.access)
                      /\ \A v \in SysLatched : v.hwdata = hwdata
    BY DEF AccessHasMaster, Bridge
  <2>1. dph # NoTransfer /\ dph \in Transfers
    BY DEF Inv, Transfer, Selected, Holds
  <2>2. bus.access = Access(dph) /\ \A v \in SysLatched : v.hwdata = hwdata
    BY DEF Inv, Transfer, Selected
  <2> QED BY <2>1, <2>2, AccessAsked
<1> QED BY <1>1, InitInv, NextInv, PTL DEF Spec

(* An AHB transfer that ends has caused exactly one APB access, at its      *)
(* word, with its byte lanes and data, and returns the data and the error   *)
(* of that access: none is lost and none repeated in the crossing of the    *)
(* clocks, whatever the wait states and errors, and with paths that are slow  *)
(* one way.  With paths that are slow both ways one thing can go wrong, and   *)
(* nothing before it: BUSCLK latches an old hreadyout and begins the transfer *)
(* that has ended again (again; pvalid of ahb2apb.v).                         *)
THEOREM TransfersAreAccesses ==
  ASSUME Designs, Aligned PROVE Spec => []TransferIsOneAccess
<1>1. Bridge => TransferIsOneAccess
  <2> SUFFICES ASSUME Inv, dph # NoTransfer, sys.hreadyout
               PROVE  /\ Len(served) = 1
                      /\ AsksFor(dph, served[1].access)
                      /\ dph.write => served[1].wdata = hwdata
                      /\ ~dph.write /\ ~sys.hresp => \A v \in BusLatched : v.prdata = served[1].rdata
                      /\ sys.hresp = served[1].err
    BY DEF TransferIsOneAccess, Bridge
  <2>1. dph \in Transfers
    BY DEF Inv, Transfer, Holds
  <2>2. /\ Len(served) = 1 /\ Matches(served[1])
        /\ "toSys" \in slow => busWas.prdata = bus.prdata \/ sys.hresp
    BY DEF Inv, Transfer, Answered
  <2>3. ASSUME ~sys.hresp, NEW v \in BusLatched PROVE v.prdata = bus.prdata
    BY <2>2, <2>3, BusLatches, BusViews
  <2> QED BY <2>1, <2>2, <2>3, AccessAsked DEF Matches
<1> QED BY <1>1, InitInv, NextInv, PTL DEF Spec
=============================================================================
