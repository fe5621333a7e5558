-------------------------- MODULE RamDesignsProofs ---------------------------
(****************************************************************************)
(* The two designs of RamDesigns, for every number of words, any wait states*)
(* and errors of the slave port, with slow paths between BUSCLK and SYSCLK  *)
(* in either direction, both or none, and whenever the GPIO pin raises the  *)
(* trigger:                                                                 *)
(*                                                                          *)
(*  - ahb_slave: one AHB transfer for each APB access of ram2apb.  The proof*)
(*    follows an access through its stages: ram2apb rests, sets the access  *)
(*    up, asks for the transfer, the transfer goes on, it has been made, and*)
(*    the access has ended.  Each edge leads from a stage to itself or to   *)
(*    the next.                                                             *)
(*  - ahb_slave: the copies, by what the memory, the RAM and the registers  *)
(*    hold at each place of the program and in each part of a copy.         *)
(*  - custom_ip: the bursts of ram2ahb.                                     *)
(****************************************************************************)
EXTENDS RamDesigns, TLAPS

Chain == design = "ahb_slave"

BridgeShape ==
  /\ bridge = [pready |-> bridge.pready, pslverr |-> bridge.pslverr,
               prdata |-> bridge.prdata, hvalid |-> bridge.hvalid,
               herror |-> bridge.herror, hsel |-> bridge.hsel,
               hrdata |-> bridge.hrdata, pending |-> bridge.pending,
               pending_d |-> bridge.pending_d, data_pending |-> bridge.data_pending]
  /\ bridge.pready \in BOOLEAN /\ bridge.pslverr \in BOOLEAN
  /\ bridge.hvalid \in BOOLEAN /\ bridge.herror \in BOOLEAN
  /\ bridge.hsel \in BOOLEAN /\ bridge.pending \in BOOLEAN
  /\ bridge.pending_d \in BOOLEAN /\ bridge.data_pending \in BOOLEAN

PortShape ==
  /\ port = [busy |-> port.busy, addr |-> port.addr, write |-> port.write,
             ready |-> port.ready, resp |-> port.resp, rdata |-> port.rdata,
             waits |-> port.waits]
  /\ port.busy \in BOOLEAN /\ port.ready \in BOOLEAN /\ port.resp \in BOOLEAN

(* ram2apb drives its access only while it runs, and does not turn round    *)
(* while it does: a trigger that rises then finds finished low.             *)
CopierRules ==
  /\ copier.psel \in BOOLEAN /\ copier.penable \in BOOLEAN
  /\ copier.write \in BOOLEAN /\ copier.run \in BOOLEAN
  /\ copier.finished \in BOOLEAN /\ copier.addr_valid \in BOOLEAN
  /\ copier.run => ~copier.finished
  /\ copier.psel => copier.run /\ copier.addr_valid /\ copier.pwrite = copier.write
  /\ copier.penable => copier.psel

(* Before an edge of BUSCLK its registers have been at rest for a cycle of  *)
(* SYSCLK.                                                                  *)
Clocks == phase \in {0, 1} /\ (phase = 0 => busWas = BusView)

-----------------------------------------------------------------------------
(* The stages of an access.                                                 *)
InSetup == copier.psel /\ ~copier.penable
Accessing == c_access /\ ~bridge.pready
Ended == c_access /\ bridge.pready
WasInSetup == busWas.psel /\ ~busWas.penable

NoTransfer == ~port.busy /\ port.ready /\ ~port.resp

\* nothing is left of the access before
Cleared ==
  /\ bridge.pready /\ NoTransfer
  /\ ~bridge.hsel /\ ~bridge.pending /\ ~bridge.pending_d /\ ~bridge.data_pending
  /\ ~bridge.herror

Asking ==
  /\ served = <<>> /\ NoTransfer
  /\ ~bridge.pending /\ ~bridge.pending_d /\ ~bridge.data_pending
  /\ bridge.hsel = ~bridge.hvalid
  /\ ~bridge.herror /\ ~bridge.pslverr
  /\ busWas.paddr = copier.paddr /\ busWas.pwrite = copier.pwrite

\* pready and pslverr are low, and what SYSCLK latches of them is low too
AnswersLow == ~bridge.pslverr /\ ~busWas.pslverr /\ ~busWas.pready

Transferring ==
  /\ served = <<>>
  /\ port.busy /\ port.addr = copier.paddr /\ port.write = copier.pwrite
  /\ bridge.pending /\ bridge.data_pending /\ ~bridge.hsel
  /\ bridge.herror => port.resp
  /\ AnswersLow

\* what the port has done in this access, and the data that came of it
MadeOnce(err, rdata) ==
  served = <<[addr |-> copier.paddr, write |-> copier.pwrite, err |-> err,
              data |-> IF copier.pwrite THEN qb ELSE rdata]>>

Transferred ==
  /\ MadeOnce(bridge.herror, bridge.hrdata) /\ NoTransfer
  /\ bridge.data_pending /\ ~bridge.pending /\ ~bridge.hsel /\ ~bridge.hvalid
  /\ AnswersLow

(* What BUSCLK may latch while an access goes on: a view in which the AHB   *)
(* transfer is done shows what the registers hold now.                      *)
Done(v) == ~v.pending /\ ~v.pending_d /\ v.data_pending
Lags ==
  Accessing => \A v \in AhbLatched :
                 Done(v) => /\ Done(bridge) /\ v.hrdata = bridge.hrdata
                            /\ v.herror = bridge.herror

Resting == ~copier.psel => Cleared /\ ~bridge.hvalid /\ ~WasInSetup
SettingUp == InSetup => Cleared /\ (phase = 1 => ~bridge.hvalid /\ ~WasInSetup)
AccessGoesOn == Accessing => Asking \/ Transferring \/ Transferred
AccessEnds ==
  Ended =>
    /\ MadeOnce(bridge.pslverr, bridge.prdata) /\ NoTransfer
    /\ ~bridge.hsel /\ ~bridge.hvalid /\ ~bridge.pending /\ ~bridge.pending_d
    /\ bridge.herror => bridge.pslverr
    /\ phase = 1 => bridge.data_pending

IInv ==
  Chain /\ ~torn =>
    /\ BridgeShape /\ PortShape /\ CopierRules /\ Clocks /\ Lags
    /\ Resting /\ SettingUp /\ AccessGoesOn /\ AccessEnds

-----------------------------------------------------------------------------
LEMMA InitHolds == Init => IInv
<1> SUFFICES ASSUME Init, Chain PROVE IInv
  BY DEF IInv
<1>1. InitTest /\ InitChain /\ busWas = BusView
  BY DEF Init, Chain
<1>2. copier.psel = FALSE /\ copier.penable = FALSE /\ bridge.pready = TRUE
  BY <1>1 DEF InitChain
<1>3. BridgeShape /\ CopierRules
  BY <1>1 DEF InitChain, BridgeShape, CopierRules
<1>4. PortShape /\ Clocks /\ NoTransfer
  BY <1>1 DEF InitTest, IdlePort, PortShape, Clocks, NoTransfer
<1>5. Resting
  BY <1>1, <1>2, <1>4 DEF InitChain, Resting, Cleared, WasInSetup, BusView
<1> QED
  BY <1>2, <1>3, <1>4, <1>5
  DEF IInv, Lags, SettingUp, AccessGoesOn, AccessEnds, InSetup, Accessing, Ended, c_access

-----------------------------------------------------------------------------
(* One edge of each part.                                                   *)

(* An edge of ahb_slave after which no view of SYSCLK has been torn.        *)
ChainStep == ChainTick /\ ~torn' /\ slow' = slow

(* At an edge of BUSCLK, SYSCLK latches what is there. *)
LEMMA LatchedAtBusEdge ==
  ASSUME Clocks, phase = 0, NEW v \in BusLatched
  PROVE  v = BusView
BY DEF Clocks, BusLatched

(* The registers of apb2ahb on BUSCLK. *)
LEMMA ApbStep ==
  ASSUME BridgeShape, Lags, phase = 0, NEW apb \in Whole
  PROVE  \E done \in BOOLEAN :
           /\ done => Done(bridge) /\ c_access
           /\ apb.pready = IF InSetup THEN FALSE ELSE bridge.pready \/ done
           /\ apb.pready \in BOOLEAN /\ apb.pslverr \in BOOLEAN
           /\ ~Ended => /\ apb.prdata = IF done THEN bridge.hrdata ELSE bridge.prdata
                        /\ apb.pslverr = (done /\ bridge.herror)
<1>1. PICK v \in AhbLatched :
        apb = ApbSide(b_done(v, v, v), b_done(v, v, v), v.hrdata, b_done(v, v, v) /\ v.herror)
  BY DEF Whole
<1> DEFINE seen == c_access /\ Done(v)
<1>2. /\ apb.pready = (~InSetup /\ (bridge.pready \/ seen))
      /\ apb.prdata = IF seen THEN v.hrdata ELSE bridge.prdata
      /\ apb.pslverr = (seen /\ v.herror)
  BY <1>1 DEF ApbSide, b_done, Done, InSetup
<1>3. seen /\ ~Ended => /\ Done(bridge) /\ v.hrdata = bridge.hrdata
                       /\ v.herror = bridge.herror
  BY DEF Lags, Ended, Accessing
<1>4. CASE Ended
  <2>1. ~InSetup /\ bridge.pready
    BY <1>4 DEF Ended, c_access, InSetup
  <2>2. apb.pready = TRUE /\ apb.pslverr \in BOOLEAN
    BY <1>2, <2>1
  <2>3. WITNESS FALSE \in BOOLEAN
  <2> QED BY <1>4, <2>1, <2>2
<1>5. CASE ~Ended
  <2>1. WITNESS seen \in BOOLEAN
  <2> QED BY <1>2, <1>3, <1>5 DEF BridgeShape
<1> QED BY <1>4, <1>5

(* The registers of apb2ahb on BUSCLK, and those on SYSCLK. *)
LEMMA BridgeStep ==
  ASSUME ChainStep, BridgeShape, Lags, port.resp \in BOOLEAN
  PROVE  /\ BridgeShape'
         /\ \E done \in BOOLEAN :
              /\ done => phase = 0 /\ Done(bridge) /\ c_access
              /\ bridge'.pready = IF phase # 0 THEN bridge.pready
                                  ELSE IF InSetup THEN FALSE ELSE bridge.pready \/ done
              /\ phase # 0 \/ ~Ended =>
                   /\ bridge'.prdata = IF done THEN bridge.hrdata ELSE bridge.prdata
                   /\ bridge'.pslverr = IF phase # 0 THEN bridge.pslverr
                                        ELSE done /\ bridge.herror
         /\ bridge'.hsel = (~bridge.hsel /\ bridge.hvalid /\ ~bridge.data_pending)
         /\ bridge'.hrdata = IF bridge.pending THEN port.rdata ELSE bridge.hrdata
         /\ bridge'.pending = \/ bridge.hsel /\ port.ready
                              \/ bridge.pending /\ ~port.ready
         /\ bridge'.pending_d = bridge.pending
         /\ \E v \in BusLatched :
              bridge'.hvalid = /\ ~bridge.hvalid /\ v.psel /\ ~v.penable
                               /\ ~bridge.data_pending
         /\ \E v \in BusLatched :
              bridge'.herror = (~v.pslverr /\ (bridge.herror \/ port.resp))
         /\ \E v \in BusLatched :
              bridge'.data_pending = \/ bridge.hsel /\ port.ready
                                     \/ bridge.data_pending /\ ~(port.ready /\ v.pready)
<1>1. PICK access \in BusLatched, p \in BusLatched, e \in BusLatched,
           apb \in IF phase = 0 THEN Whole ELSE {bridge} :
        bridge' = AhbSide([bridge EXCEPT !.pready = apb.pready, !.prdata = apb.prdata,
                                         !.pslverr = apb.pslverr],
                          access, p.pready, e.pslverr)
  BY DEF ChainStep, ChainTick, BridgeEdge
<1>2. PICK done \in BOOLEAN :
        /\ done => phase = 0 /\ Done(bridge) /\ c_access
        /\ apb.pready \in BOOLEAN /\ apb.pslverr \in BOOLEAN
        /\ apb.pready = IF phase # 0 THEN bridge.pready
                        ELSE IF InSetup THEN FALSE ELSE bridge.pready \/ done
        /\ phase # 0 \/ ~Ended =>
             /\ apb.prdata = IF done THEN bridge.hrdata ELSE bridge.prdata
             /\ apb.pslverr = IF phase # 0 THEN bridge.pslverr ELSE done /\ bridge.herror
  <2>1. CASE phase = 0
    <3>1. apb \in Whole
      BY <2>1
    <3> QED BY <2>1, <3>1, ApbStep
  <2>2. CASE phase # 0
    <3>1. apb = bridge
      BY <2>2
    <3>2. WITNESS FALSE \in BOOLEAN
    <3> QED BY <2>2, <3>1 DEF BridgeShape
  <2> QED BY <2>1, <2>2
<1>3. PICK b : b = [bridge EXCEPT !.pready = apb.pready, !.prdata = apb.prdata,
                                  !.pslverr = apb.pslverr]
  OBVIOUS
<1>4. /\ b = [pready |-> b.pready, pslverr |-> b.pslverr,
              prdata |-> b.prdata, hvalid |-> b.hvalid, herror |-> b.herror,
              hsel |-> b.hsel, hrdata |-> b.hrdata, pending |-> b.pending,
              pending_d |-> b.pending_d, data_pending |-> b.data_pending]
      /\ b.pready = apb.pready /\ b.prdata = apb.prdata /\ b.pslverr = apb.pslverr
      /\ b.hvalid = bridge.hvalid /\ b.herror = bridge.herror
      /\ b.hsel = bridge.hsel /\ b.hrdata = bridge.hrdata
      /\ b.pending = bridge.pending /\ b.data_pending = bridge.data_pending
  <2>1. PICK ready, data, fault :
          ready = apb.pready /\ data = apb.prdata /\ fault = apb.pslverr
    OBVIOUS
  <2>2. b = [bridge EXCEPT !.pready = ready, !.prdata = data, !.pslverr = fault]
    BY ONLY <1>3, <2>1
  <2>3. /\ b = [pready |-> b.pready, pslverr |-> b.pslverr,
                prdata |-> b.prdata, hvalid |-> b.hvalid, herror |-> b.herror,
                hsel |-> b.hsel, hrdata |-> b.hrdata, pending |-> b.pending,
                pending_d |-> b.pending_d, data_pending |-> b.data_pending]
        /\ b.pready = ready /\ b.prdata = data /\ b.pslverr = fault
        /\ b.hvalid = bridge.hvalid /\ b.herror = bridge.herror
        /\ b.hsel = bridge.hsel /\ b.hrdata = bridge.hrdata
        /\ b.pending = bridge.pending /\ b.data_pending = bridge.data_pending
    BY ONLY <2>2, BridgeShape DEF BridgeShape
  <2> QED BY ONLY <2>1, <2>3
<1>5. bridge' = AhbSide(b, access, p.pready, e.pslverr)
  BY ONLY <1>1, <1>3
<1>6. bridge' = [pready |-> b.pready, pslverr |-> b.pslverr, prdata |-> b.prdata,
         hvalid |-> ~bridge.hvalid /\ access.psel /\ ~access.penable /\ ~bridge.data_pending,
         herror |-> ~e.pslverr /\ (b.herror \/ port.resp),
         hsel |-> ~b.hsel /\ bridge.hvalid /\ ~bridge.data_pending,
         hrdata |-> IF bridge.pending THEN port.rdata ELSE b.hrdata,
         pending |-> (bridge.hsel /\ port.ready) \/ (b.pending /\ ~port.ready),
         pending_d |-> bridge.pending,
         data_pending |-> \/ bridge.hsel /\ port.ready
                          \/ b.data_pending /\ ~(port.ready /\ p.pready)]
  BY <1>4, <1>5 DEF AhbSide
<1>7. BridgeShape'
  BY <1>2, <1>4, <1>6 DEF BridgeShape
<1> QED BY <1>2, <1>4, <1>6, <1>7

LEMMA ClockStep ==
  ASSUME ChainStep, BridgeShape, Lags, PortShape, Clocks
  PROVE  Clocks' /\ busWas' = BusView /\ phase' = IF phase = 0 THEN 1 ELSE 0
<1>1. phase \in {0, 1} /\ phase' = (phase + 1) % 2 /\ busWas' = BusView
  BY DEF ChainStep, ChainTick, ChainRatio, Clocks
<1>2. phase' = IF phase = 0 THEN 1 ELSE 0
  BY <1>1
<1>3. ASSUME phase # 0 PROVE BusView' = BusView
  <2>1. copier' = copier /\ qb' = qb
    BY <1>3 DEF ChainStep, ChainTick
  <2>2. bridge'.pready = bridge.pready /\ bridge'.pslverr = bridge.pslverr
    BY <1>3, BridgeStep DEF PortShape
  <2> QED BY <2>1, <2>2 DEF BusView
<1> QED BY <1>1, <1>2, <1>3 DEF Clocks

(* The slave port: it rests, takes a transfer, goes on with it, or ends it. *)
LEMMA PortRests ==
  ASSUME ChainStep, PortShape, ~bridge.hsel, ~port.busy \/ port.ready
  PROVE  PortShape' /\ NoTransfer'
<1>1. port' = IdlePort
  BY DEF ChainStep, ChainTick, ChainPort, PortEdge
<1> QED BY <1>1 DEF IdlePort, PortShape, NoTransfer

LEMMA AnswerIsOfTransfer ==
  ASSUME NEW addr, NEW write, NEW ready \in BOOLEAN, NEW resp \in BOOLEAN,
         NEW rdata, NEW waits,
         NEW q \in Answer([busy |-> TRUE, addr |-> addr, write |-> write, ready |-> ready,
                           resp |-> resp, rdata |-> rdata, waits |-> waits])
  PROVE  /\ q = [busy |-> q.busy, addr |-> q.addr, write |-> q.write, ready |-> q.ready,
                 resp |-> q.resp, rdata |-> q.rdata, waits |-> q.waits]
         /\ q.busy = TRUE /\ q.addr = addr /\ q.write = write
         /\ q.ready \in BOOLEAN /\ q.resp \in BOOLEAN
BY DEF Answer

LEMMA WordIsRead ==
  ASSUME NEW addr, NEW write, NEW rdata, NEW waits,
         NEW q \in Answer([busy |-> TRUE, addr |-> addr, write |-> write, ready |-> FALSE,
                           resp |-> FALSE, rdata |-> rdata, waits |-> waits]),
         q.ready, ~write
  PROVE  q.rdata = At(addr)
BY DEF Answer

LEMMA PortTakes ==
  ASSUME ChainStep, bridge.hsel
  PROVE  /\ PortShape' /\ port'.busy
         /\ \E v \in BusLatched : port'.addr = v.paddr /\ port'.write = v.pwrite
         /\ port'.ready /\ ~port'.write => port'.rdata = At(port'.addr)
<1>1. PICK v \in BusLatched : PortEdge(TRUE, v.paddr, v.pwrite)
  BY DEF ChainStep, ChainTick, ChainPort, PortEdge
<1>2. port' \in Answer([busy |-> TRUE, addr |-> v.paddr, write |-> v.pwrite, ready |-> FALSE,
                        resp |-> FALSE, rdata |-> Unset, waits |-> 0])
  <2>1. PICK p : /\ p = [IdlePort EXCEPT !.busy = TRUE, !.addr = v.paddr,
                                        !.write = v.pwrite, !.ready = FALSE]
                 /\ port' \in Answer(p)
    BY <1>1 DEF PortEdge
  <2>2. p = [busy |-> TRUE, addr |-> v.paddr, write |-> v.pwrite, ready |-> FALSE,
             resp |-> FALSE, rdata |-> Unset, waits |-> 0]
    BY <2>1 DEF IdlePort
  <2> QED BY <2>1, <2>2
<1>3. /\ port' = [busy |-> port'.busy, addr |-> port'.addr, write |-> port'.write,
                  ready |-> port'.ready, resp |-> port'.resp, rdata |-> port'.rdata,
                  waits |-> port'.waits]
      /\ port'.busy = TRUE /\ port'.addr = v.paddr /\ port'.write = v.pwrite
      /\ port'.ready \in BOOLEAN /\ port'.resp \in BOOLEAN
  BY <1>2, AnswerIsOfTransfer
<1>4. port'.ready /\ ~v.pwrite => port'.rdata = At(v.paddr)
  BY <1>2, WordIsRead
<1> QED BY <1>3, <1>4 DEF PortShape

LEMMA PortGoesOn ==
  ASSUME ChainStep, PortShape, ~bridge.hsel, port.busy, ~port.ready
  PROVE  /\ PortShape' /\ port'.busy
         /\ port'.addr = port.addr /\ port'.write = port.write
         /\ port.resp => port'.resp
         /\ ~port.resp /\ port'.ready /\ ~port.write => port'.rdata = At(port.addr)
<1>1. port' \in IF port.resp THEN {[port EXCEPT !.ready = TRUE]} ELSE Answer(port)
  BY DEF ChainStep, ChainTick, ChainPort, PortEdge
<1>2. CASE port.resp
  BY <1>1, <1>2 DEF PortShape
<1>3. CASE ~port.resp
  <2>1. port' \in Answer([busy |-> TRUE, addr |-> port.addr, write |-> port.write,
                          ready |-> port.ready, resp |-> port.resp,
                          rdata |-> port.rdata, waits |-> port.waits])
    BY <1>1, <1>3 DEF PortShape
  <2>2. /\ port' = [busy |-> port'.busy, addr |-> port'.addr, write |-> port'.write,
                    ready |-> port'.ready, resp |-> port'.resp, rdata |-> port'.rdata,
                    waits |-> port'.waits]
        /\ port'.busy = TRUE /\ port'.addr = port.addr /\ port'.write = port.write
        /\ port'.ready \in BOOLEAN /\ port'.resp \in BOOLEAN
    BY <2>1, AnswerIsOfTransfer DEF PortShape
  <2>3. port' \in Answer([busy |-> TRUE, addr |-> port.addr, write |-> port.write,
                          ready |-> FALSE, resp |-> FALSE,
                          rdata |-> port.rdata, waits |-> port.waits])
    BY <1>3, <2>1 DEF PortShape
  <2>4. port'.ready /\ ~port.write => port'.rdata = At(port.addr)
    BY <2>3, WordIsRead
  <2> QED BY <1>3, <2>2, <2>4 DEF PortShape
<1> QED BY <1>2, <1>3 DEF PortShape

(* ram2apb between two edges of BUSCLK, and at one. *)
LEMMA CopierStays ==
  ASSUME ChainStep, phase # 0
  PROVE  copier' = copier /\ qb' = qb
BY DEF ChainStep, ChainTick

LEMMA CopierStep ==
  ASSUME ChainStep, CopierRules, phase = 0
  PROVE  /\ CopierRules'
         /\ copier'.psel = c_driving /\ copier'.penable = c_penable
         /\ copier'.paddr = c_paddr
         /\ qb' = IF c_rden THEN ram[copier.addr] ELSE qb
         /\ copier.psel /\ c_driving => copier'.pwrite = copier.pwrite
<1>1. CopierEdge
  BY DEF ChainStep, ChainTick
<1>2. /\ copier'.psel = c_driving /\ copier'.penable = c_penable
      /\ copier'.paddr = c_paddr /\ copier'.pwrite = (c_driving /\ copier.write)
      /\ copier'.write = (copier.write # (copier.finished /\ c_rise))
      /\ copier'.run = (c_rise \/ (copier.run /\ ~c_stop))
      /\ copier'.finished = c_finished /\ copier'.addr_valid = copier.run
  BY <1>1 DEF CopierEdge
<1>3. qb' = IF c_rden THEN ram[copier.addr] ELSE qb
  BY DEF ChainStep, ChainTick, RamEdge, ChainPortB
<1>4. c_driving => copier.run /\ copier.addr_valid /\ ~c_stop
  BY DEF c_driving
<1>5. c_penable => c_driving
  BY DEF c_penable
<1>6. copier'.run => ~copier'.finished
  BY <1>2 DEF CopierRules, c_finished
<1>7. copier.run => copier'.write = copier.write
  BY <1>2 DEF CopierRules
<1>8. c_driving \in BOOLEAN /\ c_penable \in BOOLEAN /\ c_finished \in BOOLEAN
  BY DEF c_driving, c_penable, c_finished
<1>9. c_driving => copier'.pwrite = copier'.write /\ copier'.pwrite = copier.write
  BY <1>2, <1>4, <1>7 DEF CopierRules
<1>10. CopierRules'
  BY <1>2, <1>4, <1>5, <1>6, <1>8, <1>9 DEF CopierRules
<1> QED BY <1>2, <1>3, <1>9, <1>10 DEF CopierRules

(* An access that is set up goes on until pready, with its address, its      *)
(* direction and its data; none begins in the cycle in which one ends.      *)
LEMMA AccessIsHeld ==
  ASSUME ChainStep, CopierRules, Clocks, phase = 0,
         InSetup \/ Accessing
  PROVE  /\ copier'.psel /\ copier'.penable /\ qb' = qb
         /\ copier'.paddr = copier.paddr /\ copier'.pwrite = copier.pwrite
<1>1. copier.psel /\ copier.run /\ copier.addr_valid
  BY DEF InSetup, Accessing, c_access, CopierRules
<1>2. ~c_stop /\ c_driving
  BY <1>1 DEF c_stop, c_driving, InSetup, Accessing, c_access
<1>3. c_penable
  BY <1>2 DEF c_penable, InSetup, Accessing, c_access
<1>4. ~c_rden
  BY <1>1 DEF c_rden, InSetup, Accessing, c_access
<1>5. c_paddr = copier.paddr
  BY <1>1 DEF c_paddr, InSetup, Accessing, c_access
<1> QED BY <1>1, <1>2, <1>3, <1>4, <1>5, CopierStep

LEMMA NoneBegins ==
  ASSUME ChainStep, CopierRules, phase = 0, ~copier.psel \/ Ended
  PROVE  ~copier'.penable
<1>1. ~c_penable
  BY DEF c_penable, Ended, c_access, CopierRules
<1> QED BY <1>1, CopierStep

(* The history: cleared by the set-up, one entry more when a transfer ends.  *)
LEMMA HistoryStays ==
  ASSUME ChainStep, ~InSetup, ~(port.busy /\ port.ready)
  PROVE  served' = served
BY DEF ChainStep, ChainTick, ChainHistory, InSetup

LEMMA HistoryOfSetup ==
  ASSUME ChainStep, InSetup, phase = 0
  PROVE  served' = <<>>
BY DEF ChainStep, ChainTick, ChainHistory, InSetup

LEMMA HistoryOfTransfer ==
  ASSUME ChainStep, ~InSetup, port.busy, port.ready, served = <<>>
  PROVE  served' = <<[addr |-> port.addr, write |-> port.write, err |-> port.resp,
                      data |-> IF port.write THEN qb ELSE port.rdata]>>
BY DEF ChainStep, ChainTick, ChainHistory, InSetup

-----------------------------------------------------------------------------
(* From one stage to the next.                                              *)
Shapes == BridgeShape /\ PortShape /\ CopierRules /\ Clocks /\ Lags

LEMMA ShapesNext ==
  ASSUME ChainStep, Shapes
  PROVE  BridgeShape' /\ Clocks' /\ CopierRules'
<1>1. BridgeShape' /\ Clocks'
  BY BridgeStep, ClockStep DEF Shapes, PortShape
<1>2. CopierRules'
  BY CopierStep, CopierStays DEF Shapes, CopierRules
<1> QED BY <1>1, <1>2

LEMMA PortShapeNext ==
  ASSUME ChainStep, Shapes
  PROVE  PortShape'
BY PortRests, PortTakes, PortGoesOn DEF Shapes, PortShape, BridgeShape

(* While ram2apb does not access anything, apb2ahb stays cleared. *)
LEMMA RestingNext ==
  ASSUME ChainStep, Shapes, Resting, ~copier.psel
  PROVE  Cleared' /\ ~bridge'.hvalid /\ ~WasInSetup' /\ ~copier'.penable
<1>1. Cleared /\ ~bridge.hvalid /\ ~WasInSetup
  BY DEF Resting
<1>2. \A v \in BusLatched : ~(v.psel /\ ~v.penable)
  BY <1>1 DEF BusLatched, BusView, WasInSetup
<1>3. NoTransfer'
  BY <1>1, PortRests DEF Shapes, Cleared, NoTransfer
<1>4. ~WasInSetup'
  BY ClockStep DEF Shapes, WasInSetup, BusView
<1>5. ~copier'.penable
  BY NoneBegins, CopierStays DEF Shapes, CopierRules
<1>6. Cleared' /\ ~bridge'.hvalid
  BY <1>1, <1>2, <1>3, BridgeStep
  DEF Shapes, Cleared, NoTransfer, BridgeShape, PortShape, c_access, InSetup
<1> QED BY <1>3, <1>4, <1>5, <1>6

LEMMA SetupWaits ==
  ASSUME ChainStep, Shapes, SettingUp, InSetup, phase # 0
  PROVE  InSetup' /\ SettingUp'
<1>1. Cleared /\ ~bridge.hvalid /\ ~WasInSetup /\ phase = 1
  BY DEF SettingUp, Shapes, Clocks
<1>2. InSetup' /\ phase' = 0
  BY <1>1, CopierStays, ClockStep DEF InSetup, Shapes
<1>3. NoTransfer'
  BY <1>1, PortRests DEF Shapes, Cleared, NoTransfer
<1>4. Cleared'
  BY <1>1, <1>3, BridgeStep DEF Shapes, Cleared, NoTransfer, BridgeShape, PortShape
<1> QED BY <1>2, <1>4 DEF SettingUp

LEMMA SetupAsks ==
  ASSUME ChainStep, Shapes, SettingUp, InSetup, phase = 0
  PROVE  Accessing' /\ Asking'
<1>1. Cleared /\ c_access = FALSE
  BY DEF SettingUp, InSetup, c_access, Shapes, CopierRules
<1>2. /\ copier'.psel /\ copier'.penable /\ qb' = qb
      /\ copier'.paddr = copier.paddr /\ copier'.pwrite = copier.pwrite
  BY AccessIsHeld DEF Shapes
<1>3. NoTransfer'
  BY <1>1, PortRests DEF Shapes, Cleared, NoTransfer
<1>4. served' = <<>>
  BY HistoryOfSetup
<1>5. busWas'.paddr = copier'.paddr /\ busWas'.pwrite = copier'.pwrite
  BY <1>2, ClockStep DEF Shapes, BusView
<1>6. \A v \in BusLatched : v.psel /\ ~v.penable
  BY LatchedAtBusEdge DEF Shapes, BusView, InSetup
<1>7. /\ ~bridge'.pready /\ ~bridge'.pslverr /\ ~bridge'.herror
      /\ ~bridge'.pending /\ ~bridge'.pending_d /\ ~bridge'.data_pending
      /\ bridge'.hsel = bridge.hvalid /\ bridge'.hvalid = ~bridge.hvalid
  BY <1>1, <1>6, BridgeStep
  DEF Shapes, Cleared, NoTransfer, BridgeShape, PortShape, Ended
<1> QED BY <1>2, <1>3, <1>4, <1>5, <1>7, ShapesNext
        DEF Accessing, Asking, c_access, BridgeShape, Shapes

(* An access goes on until apb2ahb finds its transfer made. *)
LEMMA AccessIsKept ==
  ASSUME ChainStep, Shapes, Accessing
  PROVE  /\ copier'.psel /\ copier'.penable /\ qb' = qb
         /\ copier'.paddr = copier.paddr /\ copier'.pwrite = copier.pwrite
         /\ ~Done(bridge) => Accessing'
<1>1. /\ copier'.psel /\ copier'.penable /\ qb' = qb
      /\ copier'.paddr = copier.paddr /\ copier'.pwrite = copier.pwrite
  BY AccessIsHeld, CopierStays DEF Shapes, Accessing, c_access
<1>2. ~Done(bridge) => ~bridge'.pready
  BY BridgeStep DEF Shapes, PortShape, Accessing
<1> QED BY <1>1, <1>2 DEF Accessing, c_access

LEMMA AskingNext ==
  ASSUME ChainStep, Shapes, Accessing, Asking
  PROVE  Accessing' /\ (Asking' \/ Transferring')
<1>1. ~Done(bridge)
  BY DEF Asking, Done
<1>2. /\ qb' = qb /\ Accessing'
      /\ copier'.paddr = copier.paddr /\ copier'.pwrite = copier.pwrite
  BY <1>1, AccessIsKept
<1>3. served' = <<>>
  BY HistoryStays DEF Asking, NoTransfer, Accessing, c_access, InSetup
<1>4. busWas' = BusView
  BY ClockStep DEF Shapes
<1>5. /\ ~bridge'.pslverr /\ ~bridge'.herror /\ ~bridge'.pending_d
      /\ bridge'.pending = bridge.hsel /\ bridge'.data_pending = bridge.hsel
      /\ bridge'.hsel = ~bridge.hsel
  BY <1>1, BridgeStep DEF Shapes, PortShape, BridgeShape, Asking, NoTransfer, Accessing, Ended
<1>6. CASE ~bridge.hsel
  <2>1. NoTransfer'
    BY <1>6, PortRests DEF Shapes, Asking, NoTransfer
  <2>2. ~bridge'.hvalid
    BY <1>6, BridgeStep DEF Shapes, PortShape, BridgeShape, Asking
  <2> QED BY <1>2, <1>3, <1>4, <1>5, <1>6, <2>1, <2>2 DEF Asking, BusView
<1>7. CASE bridge.hsel
  <2>1. port'.busy /\ port'.addr = copier.paddr /\ port'.write = copier.pwrite
    BY <1>7, PortTakes DEF BusLatched, BusView, Asking
  <2>2. AnswersLow'
    BY <1>4, <1>5 DEF AnswersLow, BusView, Asking, Accessing
  <2> QED BY <1>2, <1>3, <1>5, <1>7, <2>1, <2>2 DEF Transferring
<1> QED BY <1>6, <1>7 DEF Shapes, BridgeShape

LEMMA TransferringNext ==
  ASSUME ChainStep, Shapes, Accessing, Transferring
  PROVE  Accessing' /\ (Transferring' \/ Transferred')
<1>1. ~Done(bridge)
  BY DEF Transferring, Done
<1>2. /\ qb' = qb /\ Accessing'
      /\ copier'.paddr = copier.paddr /\ copier'.pwrite = copier.pwrite
  BY <1>1, AccessIsKept
<1>3. \A v \in BusLatched : ~v.pslverr /\ ~v.pready
  BY DEF BusLatched, BusView, Transferring, AnswersLow, Accessing
<1>4. /\ ~bridge'.pslverr /\ bridge'.herror = port.resp
      /\ bridge'.pending = ~port.ready /\ bridge'.data_pending = TRUE
      /\ ~bridge'.hsel /\ ~bridge'.hvalid /\ bridge'.hrdata = port.rdata
  BY <1>1, <1>3, BridgeStep
  DEF Shapes, PortShape, BridgeShape, Transferring, AnswersLow, Accessing, Ended
<1>5. AnswersLow'
  BY <1>4, ClockStep DEF Shapes, AnswersLow, BusView, Transferring, Accessing
<1>6. CASE ~port.ready
  <2>1. /\ port'.busy /\ port'.addr = port.addr /\ port'.write = port.write
        /\ port.resp => port'.resp
    BY <1>6, PortGoesOn DEF Shapes, Transferring
  <2>2. served' = <<>>
    BY <1>6, HistoryStays DEF Transferring, Accessing, c_access, InSetup
  <2> QED BY <1>2, <1>4, <1>5, <1>6, <2>1, <2>2 DEF Transferring
<1>7. CASE port.ready
  <2>1. NoTransfer'
    BY <1>7, PortRests DEF Shapes, Transferring
  <2>2. served' = <<[addr |-> port.addr, write |-> port.write, err |-> port.resp,
                     data |-> IF port.write THEN qb ELSE port.rdata]>>
    BY <1>7, HistoryOfTransfer DEF Transferring, Accessing, c_access, InSetup
  <2>3. MadeOnce(bridge.herror, bridge.hrdata)'
    BY <1>2, <1>4, <2>2 DEF MadeOnce, Transferring
  <2> QED BY <1>2, <1>4, <1>5, <1>7, <2>1, <2>3 DEF Transferred
<1> QED BY <1>6, <1>7 DEF Shapes, PortShape

LEMMA TransferredNext ==
  ASSUME ChainStep, Shapes, Accessing, Transferred
  PROVE  \/ Accessing' /\ Transferred'
         \/ Ended' /\ AccessEnds'
<1>1. /\ copier'.psel /\ copier'.penable /\ qb' = qb
      /\ copier'.paddr = copier.paddr /\ copier'.pwrite = copier.pwrite
  BY AccessIsKept
<1>2. \A v \in BusLatched : ~v.pslverr /\ ~v.pready
  BY DEF BusLatched, BusView, Transferred, AnswersLow, Accessing
<1>3. /\ bridge'.herror = bridge.herror /\ bridge'.hrdata = bridge.hrdata
      /\ bridge'.data_pending = TRUE /\ ~bridge'.pending
      /\ ~bridge'.hsel /\ ~bridge'.hvalid
  BY <1>2, BridgeStep
  DEF Shapes, PortShape, BridgeShape, Transferred, NoTransfer
<1>4. NoTransfer' /\ served' = served
  BY PortRests, HistoryStays
  DEF Shapes, Transferred, NoTransfer, Accessing, c_access, InSetup
<1>5. CASE bridge'.pready
  <2>1. /\ ~bridge.pending_d /\ bridge'.prdata = bridge.hrdata
        /\ bridge'.pslverr = bridge.herror /\ phase = 0
    BY <1>5, BridgeStep DEF Shapes, PortShape, BridgeShape, Done, Accessing, Ended, InSetup
  <2>2. ~bridge'.pending_d /\ phase' = 1
    BY <2>1, BridgeStep, ClockStep DEF Shapes, PortShape, Transferred
  <2>3. MadeOnce(bridge.pslverr, bridge.prdata)'
    BY <1>1, <1>4, <2>1 DEF MadeOnce, Transferred
  <2> QED BY <1>1, <1>3, <1>4, <1>5, <2>1, <2>2, <2>3 DEF Ended, AccessEnds, c_access
<1>6. CASE ~bridge'.pready
  <2>1. ~bridge'.pslverr
    BY <1>6, BridgeStep
    DEF Shapes, PortShape, Transferred, AnswersLow, Accessing, Ended, InSetup, c_access
  <2>2. MadeOnce(bridge.herror, bridge.hrdata)'
    BY <1>1, <1>3, <1>4 DEF MadeOnce, Transferred
  <2>3. AnswersLow'
    BY <2>1, ClockStep DEF Shapes, AnswersLow, BusView, Transferred, Accessing
  <2> QED BY <1>1, <1>3, <1>4, <1>6, <2>1, <2>2, <2>3 DEF Accessing, Transferred, c_access
<1> QED BY <1>5, <1>6

(* The cycle of pready, and the edge after it. *)
LEMMA EndedWaits ==
  ASSUME ChainStep, Shapes, Ended, AccessEnds, phase # 0
  PROVE  Ended' /\ AccessEnds'
<1>1. /\ copier'.psel /\ copier'.penable /\ qb' = qb
      /\ copier'.paddr = copier.paddr /\ copier'.pwrite = copier.pwrite
  BY CopierStays DEF Ended, c_access
<1>2. phase = 1 /\ phase' = 0 /\ bridge.data_pending
  BY ClockStep DEF Shapes, Clocks, AccessEnds
<1>3. /\ bridge'.pready /\ bridge'.prdata = bridge.prdata
      /\ bridge'.pslverr = bridge.pslverr /\ (bridge'.herror => bridge.herror)
      /\ ~bridge'.hsel /\ ~bridge'.hvalid /\ ~bridge'.pending /\ ~bridge'.pending_d
  BY <1>2, BridgeStep DEF Shapes, PortShape, BridgeShape, AccessEnds, Ended, NoTransfer
<1>4. NoTransfer' /\ served' = served
  BY PortRests, HistoryStays
  DEF Shapes, AccessEnds, Ended, NoTransfer, c_access, InSetup
<1>5. MadeOnce(bridge.pslverr, bridge.prdata)'
  BY <1>1, <1>3, <1>4 DEF MadeOnce, AccessEnds
<1>6. bridge'.herror => bridge'.pslverr
  BY <1>3 DEF AccessEnds
<1> QED BY <1>1, <1>2, <1>3, <1>4, <1>5, <1>6 DEF Ended, AccessEnds, c_access

LEMMA EndedClears ==
  ASSUME ChainStep, Shapes, Ended, AccessEnds, phase = 0
  PROVE  Cleared' /\ ~bridge'.hvalid /\ ~WasInSetup' /\ ~copier'.penable
<1>1. \A v \in BusLatched : v = BusView
  BY LatchedAtBusEdge DEF Shapes
<1>2. BusView.penable /\ BusView.pready /\ BusView.pslverr = bridge.pslverr
  BY DEF BusView, Ended, c_access
<1>3. /\ bridge'.pready /\ ~bridge'.herror
      /\ ~bridge'.hsel /\ ~bridge'.hvalid /\ ~bridge'.pending /\ ~bridge'.pending_d
      /\ ~bridge'.data_pending
  BY <1>1, <1>2, BridgeStep
  DEF Shapes, PortShape, BridgeShape, AccessEnds, Ended, NoTransfer, c_access, InSetup
<1>4. NoTransfer'
  BY PortRests DEF Shapes, AccessEnds, NoTransfer, Ended
<1>5. ~WasInSetup'
  BY <1>2, ClockStep DEF Shapes, WasInSetup
<1>6. ~copier'.penable
  BY NoneBegins DEF Shapes
<1> QED BY <1>3, <1>4, <1>5, <1>6 DEF Cleared

(* A late view that shows the transfer done is one of this access.          *)
LEMMA LagsNext ==
  ASSUME ChainStep, Shapes, Resting, SettingUp, AccessGoesOn, AccessEnds
  PROVE  Lags'
<1> SUFFICES ASSUME Accessing', NEW v \in AhbLatched', Done(v)
             PROVE  (/\ Done(bridge) /\ v.hrdata = bridge.hrdata
                     /\ v.herror = bridge.herror)'
  BY DEF Lags, Done
<1>1. v = AhbView' \/ v = AhbView \/ (v \in AhbLatched /\ phase # 0)
  BY DEF ChainStep, ChainTick, AhbLatched
<1>2. CASE v = AhbView'
  BY <1>2 DEF AhbView, Done
<1>3. CASE v # AhbView'
  <2>1. (InSetup /\ phase = 0) \/ Accessing
    <3>1. CASE ~copier.psel
      <4>1. ~copier'.penable
        BY <3>1, RestingNext
      <4> QED BY <4>1 DEF Accessing, c_access
    <3>2. CASE InSetup /\ phase # 0
      <4>1. InSetup'
        BY <3>2, SetupWaits
      <4> QED BY <4>1 DEF Accessing, c_access, InSetup
    <3>3. CASE Ended
      <4>1. CASE phase # 0
        <5>1. Ended'
          BY <3>3, <4>1, EndedWaits
        <5> QED BY <5>1 DEF Accessing, Ended
      <4>2. CASE phase = 0
        <5>1. ~copier'.penable
          BY <3>3, <4>2, EndedClears
        <5> QED BY <5>1 DEF Accessing, c_access
      <4> QED BY <4>1, <4>2
    <3> QED BY <3>1, <3>2, <3>3 DEF InSetup, Accessing, Ended, c_access
  <2>2. CASE InSetup /\ phase = 0
    <3>1. ~bridge.data_pending
      BY <2>2 DEF SettingUp, Cleared
    <3>2. v = AhbView
      BY <1>1, <1>3, <2>2
    <3> QED BY <3>1, <3>2 DEF AhbView, Done
  <2>3. CASE Accessing
    <3>1. Done(bridge) /\ v.hrdata = bridge.hrdata /\ v.herror = bridge.herror
      BY <1>1, <1>3, <2>3 DEF Shapes, Lags, AhbView, Done
    <3>2. Transferred
      BY <2>3, <3>1 DEF AccessGoesOn, Asking, Transferring, Done
    <3>3. \A w \in BusLatched : ~w.pslverr /\ ~w.pready
      BY <2>3, <3>2 DEF BusLatched, BusView, Transferred, AnswersLow, Accessing
    <3>4. /\ bridge'.herror = bridge.herror /\ bridge'.hrdata = bridge.hrdata
          /\ bridge'.data_pending = TRUE /\ ~bridge'.pending /\ ~bridge'.pending_d
      BY <3>2, <3>3, BridgeStep
      DEF Shapes, PortShape, BridgeShape, Transferred, NoTransfer
    <3> QED BY <3>1, <3>4 DEF Done
  <2> QED BY <2>1, <2>2, <2>3
<1> QED BY <1>2, <1>3

-----------------------------------------------------------------------------
LEMMA StepKeeps == IInv /\ [Next]_vars => IInv'
<1> SUFFICES ASSUME IInv, [Next]_vars, Chain', ~torn' PROVE IInv'
  BY DEF IInv
<1>1. CASE UNCHANGED vars
  <2> USE <1>1 DEF vars
  <2>1. /\ Chain /\ ~torn /\ BusView' = BusView /\ (c_access' <=> c_access)
        /\ AhbLatched' = AhbLatched
    BY DEF Chain, BusView, c_access, AhbLatched, AhbView
  <2>2. Chain => Shapes'
    BY <2>1 DEF IInv, Shapes, Lags, Done, Accessing, BridgeShape, PortShape, CopierRules, Clocks
  <2>3. Resting' /\ SettingUp'
    BY <2>1 DEF IInv, Resting, SettingUp, Cleared, NoTransfer, WasInSetup, InSetup
  <2>4. AccessGoesOn' /\ AccessEnds'
    BY <2>1 DEF IInv, AccessGoesOn, AccessEnds, Accessing, Ended, Asking, Transferring,
                Transferred, MadeOnce, AnswersLow, NoTransfer
  <2> QED BY <2>1, <2>2, <2>3, <2>4 DEF IInv, Shapes
<1>2. CASE WholeTick
  <2>1. Chain /\ ChainStep /\ ~torn
    BY <1>2 DEF WholeTick, Tick, Chain, ChainStep
  <2>2. Shapes /\ Resting /\ SettingUp /\ AccessGoesOn /\ AccessEnds
    BY <2>1 DEF IInv, Shapes
  <2>3. BridgeShape' /\ PortShape' /\ CopierRules' /\ Clocks'
    BY <2>1, <2>2, ShapesNext, PortShapeNext
  <2>4. ASSUME Cleared', ~bridge'.hvalid, ~WasInSetup', ~copier'.penable
        PROVE  Resting' /\ SettingUp' /\ AccessGoesOn' /\ AccessEnds'
    BY <2>4 DEF Resting, SettingUp, AccessGoesOn, AccessEnds, Accessing, Ended, c_access
  <2>5. ASSUME Accessing', Asking' \/ Transferring' \/ Transferred'
        PROVE  Resting' /\ SettingUp' /\ AccessGoesOn' /\ AccessEnds'
    BY <2>5 DEF Resting, SettingUp, AccessGoesOn, AccessEnds, Accessing, Ended, c_access,
                InSetup
  <2>6. ASSUME Ended', AccessEnds'
        PROVE  Resting' /\ SettingUp' /\ AccessGoesOn'
    BY <2>6 DEF Resting, SettingUp, AccessGoesOn, Accessing, Ended, c_access, InSetup
  <2>7. Resting' /\ SettingUp' /\ AccessGoesOn' /\ AccessEnds'
    <3>1. CASE ~copier.psel
      <4>1. Cleared' /\ ~bridge'.hvalid /\ ~WasInSetup' /\ ~copier'.penable
        BY <2>1, <2>2, <3>1, RestingNext
      <4> QED BY <2>4, <4>1
    <3>2. CASE InSetup
      <4>1. CASE phase # 0
        <5>1. InSetup' /\ SettingUp'
          BY <2>1, <2>2, <3>2, <4>1, SetupWaits
        <5> QED BY <5>1 DEF Resting, AccessGoesOn, AccessEnds, Accessing, Ended, c_access,
                            InSetup
      <4>2. CASE phase = 0
        <5>1. Accessing' /\ Asking'
          BY <2>1, <2>2, <3>2, <4>2, SetupAsks
        <5> QED BY <2>5, <5>1
      <4> QED BY <4>1, <4>2
    <3>3. CASE Accessing
      <4>1. \/ Accessing' /\ (Asking' \/ Transferring' \/ Transferred')
            \/ Ended' /\ AccessEnds'
        BY <2>1, <2>2, <3>3, AskingNext, TransferringNext, TransferredNext DEF AccessGoesOn
      <4> QED BY <2>5, <2>6, <4>1
    <3>4. CASE Ended
      <4>1. CASE phase # 0
        <5>1. Ended' /\ AccessEnds'
          BY <2>1, <2>2, <3>4, <4>1, EndedWaits
        <5> QED BY <2>6, <5>1
      <4>2. CASE phase = 0
        <5>1. Cleared' /\ ~bridge'.hvalid /\ ~WasInSetup' /\ ~copier'.penable
          BY <2>1, <2>2, <3>4, <4>2, EndedClears
        <5> QED BY <2>4, <5>1
      <4> QED BY <4>1, <4>2
    <3>5. ~copier.psel \/ InSetup \/ Accessing \/ Ended
      BY DEF InSetup, Accessing, Ended, c_access
    <3> QED BY <3>1, <3>2, <3>3, <3>4, <3>5
  <2>8. Lags'
    BY <2>1, <2>2, LagsNext
  <2> QED BY <2>3, <2>7, <2>8 DEF IInv
<1> QED BY <1>1, <1>2 DEF Next

LEMMA InvMeans == IInv => AccessIsOneTransfer
<1> SUFFICES ASSUME IInv, Chain, ~torn, Ended PROVE AccessIsOneTransfer
  BY DEF AccessIsOneTransfer, Chain, Ended
<1>1. MadeOnce(bridge.pslverr, bridge.prdata)
  BY DEF IInv, AccessEnds
<1> DEFINE t == [addr |-> copier.paddr, write |-> copier.pwrite, err |-> bridge.pslverr,
                 data |-> IF copier.pwrite THEN qb ELSE bridge.prdata]
<1>2. served = <<t>>
  BY <1>1 DEF MadeOnce
<1>3. /\ t.addr = copier.paddr /\ t.write = copier.pwrite /\ t.err = bridge.pslverr
      /\ t.data = IF copier.pwrite THEN qb ELSE bridge.prdata
  OBVIOUS
<1> HIDE DEF t
<1>4. Len(served) = 1 /\ served[1] = t
  BY <1>2
<1> QED BY <1>3, <1>4 DEF AccessIsOneTransfer

\* Every APB access of ram2apb that ends has been exactly one AHB transfer at the
\* slave port, with its address, direction and write data, and has the data and the
\* error of that transfer, in apb2ahb.v of ahb_slave: whichever of the paths between
\* the clocks are slow, until BUSCLK latches of different registers of SYSCLK what
\* they did not show at the same moment (torn; without slow paths to BUSCLK, never).
THEOREM OneTransfer == Spec => []AccessIsOneTransfer
<1>1. Init => IInv
  BY InitHolds
<1>2. IInv /\ [Next]_vars => IInv'
  BY StepKeeps
<1>3. IInv => AccessIsOneTransfer
  BY InvMeans
<1> QED BY <1>1, <1>2, <1>3, PTL DEF Spec

-----------------------------------------------------------------------------
(* The copies: what memory, RAM and registers hold while the program and     *)
(* ram2apb go on, as long as the port has not answered with an error.       *)

MemShape == mem = [a \in Address |-> mem[a]] /\ ram = [i \in Index |-> ram[i]]
Outside == \A a \in Address : a < DataBuf \/ a >= ReadBuf + Words => mem[a] = Unset

(* Where ram2apb is in a copy. *)
Still == ~copier.run /\ ~copier.psel /\ ~copier.wren
Off   == Still /\ ~copier.addr_valid /\ copier.addr = 0
Begun == copier.run /\ ~copier.addr_valid /\ ~copier.psel /\ ~copier.wren /\ copier.addr = 0
Fetched == copier.run /\ copier.addr_valid /\ ~copier.psel /\ ~copier.wren
Tail1 == ~copier.run /\ copier.addr_valid /\ ~copier.psel

\* neither copy has begun
NoCopy == ~copier.write /\ ~copier.finished /\ Off

(* The word of an access under way: what the port, apb2ahb or ram2apb has   *)
(* of a word that is read, and where a word that is written has got to.     *)
ReadData ==
  /\ bridge.pending /\ port.ready => port.rdata = mem[copier.paddr]
  /\ ~bridge.pending /\ bridge.data_pending /\ ~bridge.pready =>
       bridge.hrdata = mem[copier.paddr]
  /\ bridge.pready => bridge.prdata = mem[copier.paddr]
WriteData ==
  /\ ~bridge.pready => busWas.pwdata = qb
  /\ ~bridge.pending /\ bridge.data_pending => mem[copier.paddr] = qb
  /\ bridge.pready => mem[copier.paddr] = qb

DataIsSecond == \A i \in Index : mem[DataBuf + i] = Expected[i]

\* data_buf goes to the RAM: the words before addr are there, and the next one is
\* in the register prdata or still under way
InRam(n) == \A i \in Index : i < n => ram[i] = Expected[i]
FirstSetup ==
  /\ copier.addr \in Index /\ InRam(copier.addr)
  /\ ~copier.wren => copier.paddr = DataBuf + copier.addr
  /\ copier.wren => /\ copier.paddr = DataBuf + (copier.addr + 1)
                    /\ copier.addr # Words - 1
                    /\ copier.prdata = Expected[copier.addr]
FirstAccess ==
  /\ copier.addr \in Index /\ InRam(copier.addr)
  /\ copier.paddr = DataBuf + copier.addr /\ ~copier.wren
  /\ ReadData
FirstTail ==
  /\ Tail1 /\ copier.wren /\ copier.addr = Words - 1 /\ InRam(copier.addr)
  /\ copier.prdata = Expected[copier.addr]
FirstDone == Off /\ copier.finished /\ ram = Expected
FirstCopy ==
  /\ ~copier.write /\ DataIsSecond
  /\ \/ copier.finished /\ FirstDone
     \/ /\ ~copier.finished
        /\ \/ Begun /\ ram[0] = DataBuf
           \/ Fetched /\ copier.addr = 0 /\ qb = DataBuf
           \/ InSetup /\ FirstSetup
           \/ c_access /\ FirstAccess
           \/ FirstTail

\* the RAM goes to read_buf: the words before paddr are there, the word at paddr is
\* on the RAM's output, and addr is that of the next
InReadBuf(n) == \A i \in Index : i < n => mem[ReadBuf + i] = Expected[i]
SecondWord ==
  LET k == copier.paddr - ReadBuf
  IN  /\ k \in Index /\ copier.paddr = ReadBuf + k
      /\ InReadBuf(k) /\ qb = Expected[k]
      /\ copier.addr = IF k = Words - 1 THEN 0 ELSE k + 1
SecondCopy ==
  /\ copier.write /\ DataIsSecond /\ ram = Expected /\ ~copier.wren
  /\ \/ copier.finished /\ Off /\ InReadBuf(Words)
     \/ /\ ~copier.finished
        /\ \/ Begun
           \/ Fetched /\ copier.addr = (IF Words = 1 THEN 0 ELSE 1) /\ qb = ReadBuf
           \/ InSetup /\ SecondWord
           \/ c_access /\ SecondWord /\ WriteData
           \/ Tail1 /\ InReadBuf(Words)

-----------------------------------------------------------------------------
(* The program.                                                             *)
Trigger(d, dd) == copier.trigger_d = d /\ copier.trigger_dd = dd
Pin(en, data) == gpio = [en |-> en, data |-> data]

HostShape ==
  /\ host = [sel |-> host.sel, enable |-> host.enable, word |-> host.word]
  /\ host.sel \in BOOLEAN /\ host.enable \in BOOLEAN /\ host.word \in JobWords
  /\ host.enable => host.sel

DataIsFirst == \A i \in Index : mem[DataBuf + i] = Value(1, i)
DataIsNew == \A i \in Index : mem[DataBuf + i] = Value(2, i)
Filled(n) == \A i \in Index : i < n => ram[i] = Value(1, i)

Writing == DataIsFirst /\ Filled(IF host.enable THEN host.word + 1 ELSE host.word)
Reading ==
  /\ DataIsFirst /\ Filled(Words)
  /\ host.enable => qa = ram[host.word]
  /\ \A i \in Index : i < host.word => mem[ReadBuf + i] = Value(1, i)
Verifying == DataIsFirst /\ (\A i \in Index : mem[ReadBuf + i] = Value(1, i))
             /\ ~host.sel /\ ~host.enable /\ host.word = 0
Telling == DataIsNew /\ (host.enable => ram[0] = DataBuf)

HostJob ==
  /\ HostShape /\ Pin(FALSE, FALSE) /\ NoCopy /\ Trigger(FALSE, FALSE) /\ since = 0
  /\ pc = "write" => Writing
  /\ pc = "read" => Reading
  /\ pc = "verify" => Verifying
  /\ pc = "tell" => Telling

Told == NoCopy /\ DataIsSecond /\ ram[0] = DataBuf
BeforeFirst ==
  /\ pc \in {"out1", "high1"} => Told /\ Trigger(FALSE, FALSE)
  /\ pc = "out1" => Pin(FALSE, FALSE)
  /\ pc = "high1" => Pin(TRUE, FALSE)
FirstPulse ==
  pc = "in1" =>
    /\ Pin(TRUE, TRUE)
    /\ since = 0 => Told /\ Trigger(FALSE, FALSE)
    /\ since = 1 => Told /\ Trigger(TRUE, FALSE)
    /\ since > 1 => FirstCopy /\ Trigger(TRUE, TRUE)
FirstPoll ==
  pc = "poll1" =>
    /\ Pin(FALSE, TRUE) /\ FirstCopy
    /\ since = 0 => Trigger(TRUE, TRUE)
    /\ since > 0 => copier.trigger_d = FALSE
Between == FirstCopy /\ copier.finished
SecondPulse ==
  /\ pc = "out2" => Pin(FALSE, TRUE) /\ Between /\ Trigger(FALSE, FALSE)
  /\ pc = "high2" =>
       /\ Pin(TRUE, TRUE)
       /\ since = 0 => Between /\ Trigger(FALSE, FALSE)
       /\ since = 1 => Between /\ Trigger(TRUE, FALSE)
       /\ since > 1 => SecondCopy /\ Trigger(TRUE, TRUE)
  /\ pc = "in2" => Pin(TRUE, TRUE) /\ SecondCopy /\ Trigger(TRUE, TRUE)
SecondPoll ==
  pc = "poll2" =>
    /\ Pin(FALSE, TRUE) /\ SecondCopy
    /\ since = 0 => Trigger(TRUE, TRUE)
    /\ since > 0 => copier.trigger_d = FALSE
AfterSecond ==
  pc \in {"compare", "passed", "failed"} =>
    /\ Pin(FALSE, TRUE) /\ SecondCopy /\ copier.finished /\ Trigger(FALSE, FALSE)

Program ==
  /\ pc \in {"write", "read", "verify", "tell", "out1", "high1", "in1", "poll1",
             "out2", "high2", "in2", "poll2", "compare", "passed", "failed"}
  /\ since \in Nat
  /\ HostActive => HostJob
  /\ BeforeFirst /\ FirstPulse /\ FirstPoll /\ SecondPulse /\ SecondPoll /\ AfterSecond

DataInv ==
  Chain /\ ~torn =>
    /\ HostActive => ~faulty
    /\ ~faulty => /\ MemShape /\ Outside /\ Program /\ ~port.resp
                  /\ copier.data_phase = c_access

-----------------------------------------------------------------------------
(* Words, and what an edge does to memory and RAM.                          *)
LEMMA Sizes ==
  /\ Words \in Nat \ {0} /\ 0 \in Index /\ Words - 1 \in Index
  /\ DataBuf = Words /\ ReadBuf = 2 * Words /\ Address = 0 .. 3 * Words
  /\ \A i \in Index : /\ i \in Nat /\ i < Words
                      /\ DataBuf + i \in Address /\ ReadBuf + i \in Address
BY RamAssumption DEF Index, DataBuf, ReadBuf, Address

LEMMA NextWord ==
  ASSUME NEW i \in Index
  PROVE  (i + 1) % Words = IF i = Words - 1 THEN 0 ELSE i + 1
<1> DEFINE n == i + 1
           q == n \div Words
           r == n % Words
<1>1. /\ Words \in Nat \ {0} /\ n \in Nat /\ n <= Words /\ n # 0
      /\ q \in Nat /\ r \in 0 .. Words - 1 /\ n = Words * q + r
  BY Sizes DEF Index
<1>2. i \in Nat /\ n = i + 1
  BY DEF Index
<1> HIDE DEF n, q, r
<1>3. CASE q = 0
  <2>1. Words * q = 0
    BY <1>1, <1>3
  <2> QED BY <1>1, <1>2, <2>1 DEF n, r
<1>4. CASE q # 0
  <2>1. PICK c \in Nat : q = 1 + c
    <3>1. q - 1 \in Nat /\ q = 1 + (q - 1)
      BY <1>1, <1>4
    <3> QED BY <3>1
  <2>2. Words * q = Words + Words * c /\ Words * c \in Nat
    BY <1>1, <2>1
  <2>3. r = 0 /\ n = Words
    BY <1>1, <2>2
  <2> QED BY <1>1, <1>2, <2>3 DEF n, r
<1> QED BY <1>3, <1>4

LEMMA Updated ==
  ASSUME NEW D, NEW f, f = [x \in D |-> f[x]], NEW a \in D, NEW v,
         NEW g, g = [f EXCEPT ![a] = v]
  PROVE  /\ g = [x \in D |-> g[x]] /\ g[a] = v
         /\ \A x \in D : x # a => g[x] = f[x]
OBVIOUS

LEMMA ExpectedWord ==
  ASSUME NEW i \in Index
  PROVE  Expected[i] = IF i = 0 THEN ReadBuf ELSE Value(2, i)
BY DEF Expected

LEMMA RamIsExpected ==
  ASSUME MemShape, InRam(Words)
  PROVE  ram = Expected
<1>1. \A i \in Index : ram[i] = Expected[i]
  BY Sizes DEF InRam
<1>2. Expected = [i \in Index |-> Expected[i]]
  BY DEF Expected
<1> QED BY <1>1, <1>2 DEF MemShape

(* The invariant of a state without an error, part by part. *)
Good ==
  /\ Shapes /\ Resting /\ SettingUp /\ AccessGoesOn /\ AccessEnds
  /\ MemShape /\ Outside /\ ~port.resp /\ copier.data_phase = c_access

LEMMA MemoryStays ==
  ASSUME ChainStep, ~(HostActive /\ phase = 0), ~port.busy \/ ~port.ready \/ ~port.write
  PROVE  mem' = mem
BY DEF ChainStep, ChainTick, Stored

LEMMA MemoryWritten ==
  ASSUME ChainStep, ~(HostActive /\ phase = 0), port.busy, port.ready, port.write, ~port.resp,
         port.addr \in Address
  PROVE  \E v \in BusLatched : mem' = [mem EXCEPT ![port.addr] = v.pwdata]
BY DEF ChainStep, ChainTick, Stored

(* A word that is read arrives. *)
LEMMA ReadDataNext ==
  ASSUME ChainStep, Shapes, Accessing, AccessGoesOn, ~port.resp, ~port'.resp,
         ~copier.pwrite, copier.paddr \in Address, ReadData, mem' = mem
  PROVE  c_access' /\ ReadData'
<1>1. /\ copier'.psel /\ copier'.penable /\ copier'.paddr = copier.paddr
  BY AccessIsKept
<1>2. mem'[copier'.paddr] = mem[copier.paddr] /\ At(copier.paddr) = mem[copier.paddr]
  BY <1>1 DEF At
<1>3. Asking \/ Transferring \/ Transferred
  BY DEF AccessGoesOn
<1>4. CASE Asking
  <2>1. Accessing' /\ (Asking' \/ Transferring')
    BY <1>4, AskingNext
  <2>2. CASE ~bridge.hsel
    <3>1. ~bridge'.pending /\ ~bridge'.data_pending
      BY <1>4, <2>2, BridgeStep DEF Shapes, PortShape, Asking
    <3> QED BY <1>1, <2>1, <3>1 DEF ReadData, Accessing, c_access
  <2>3. CASE bridge.hsel
    <3>1. bridge'.pending
      BY <1>4, <2>3, BridgeStep DEF Shapes, PortShape, Asking, NoTransfer
    <3>2. port'.addr = copier.paddr /\ port'.write = copier.pwrite
      BY <1>4, <2>3, PortTakes DEF BusLatched, BusView, Asking
    <3>3. port'.ready => port'.rdata = mem[copier.paddr]
      BY <1>2, <2>3, <3>2, PortTakes
    <3> QED BY <1>1, <1>2, <2>1, <3>1, <3>3 DEF ReadData, Accessing, c_access
  <2> QED BY <2>2, <2>3
<1>5. CASE Transferring
  <2>1. Accessing'
    BY <1>5, TransferringNext
  <2>2. /\ bridge'.pending = ~port.ready /\ bridge'.hrdata = port.rdata
    BY <1>5, BridgeStep DEF Shapes, PortShape, BridgeShape, Transferring
  <2>3. CASE ~port.ready
    <3>1. port'.ready => port'.rdata = mem[copier.paddr]
      BY <1>2, <1>5, <2>3, PortGoesOn DEF Shapes, Transferring
    <3> QED BY <1>1, <1>2, <2>1, <2>2, <2>3, <3>1 DEF ReadData, Accessing, c_access
  <2>4. CASE port.ready
    <3>1. bridge'.hrdata = mem[copier.paddr]
      BY <1>5, <2>2, <2>4 DEF ReadData, Transferring
    <3> QED BY <1>1, <1>2, <2>1, <2>2, <2>4, <3>1 DEF ReadData, Accessing, c_access
  <2> QED BY <2>3, <2>4
<1>6. CASE Transferred
  <2>1. bridge.hrdata = mem[copier.paddr]
    BY <1>6 DEF ReadData, Transferred, Accessing
  <2>2. bridge'.hrdata = bridge.hrdata /\ ~bridge'.pending
    BY <1>6, BridgeStep DEF Shapes, PortShape, Transferred
  <2>3. bridge'.pready => bridge'.prdata = bridge.hrdata
    BY <1>6, BridgeStep DEF Shapes, PortShape, Accessing, Ended, InSetup, c_access
  <2> QED BY <1>1, <1>2, <2>1, <2>2, <2>3 DEF ReadData, c_access
<1> QED BY <1>3, <1>4, <1>5, <1>6

(* A word that is written arrives, and nothing else changes in memory.      *)
LEMMA WriteDataNext ==
  ASSUME ChainStep, ~HostActive, Shapes, Accessing, AccessGoesOn, ~port.resp, MemShape,
         copier.pwrite, copier.paddr \in Address, WriteData
  PROVE  /\ c_access' /\ WriteData' /\ mem' = [a \in Address |-> mem'[a]]
         /\ \A a \in Address : a # copier.paddr => mem'[a] = mem[a]
<1>1. /\ copier'.psel /\ copier'.penable /\ copier'.paddr = copier.paddr /\ qb' = qb
  BY AccessIsKept
<1>2. busWas' = BusView /\ busWas'.pwdata = qb
  BY ClockStep DEF Shapes, BusView
<1>3. Asking \/ Transferring \/ Transferred
  BY DEF AccessGoesOn
<1>4. CASE Asking
  <2>1. mem' = mem
    BY <1>4, MemoryStays DEF Asking, NoTransfer
  <2>2. Accessing' /\ (Asking' \/ Transferring')
    BY <1>4, AskingNext
  <2>3. ~bridge'.pready /\ (bridge'.pending \/ ~bridge'.data_pending)
    BY <2>2 DEF Accessing, Asking, Transferring
  <2> QED BY <1>1, <1>2, <2>1, <2>3 DEF MemShape, WriteData, c_access
<1>5. CASE Transferring
  <2>1. Accessing' /\ bridge'.pending = ~port.ready
    BY <1>5, TransferringNext, BridgeStep DEF Shapes, PortShape, BridgeShape, Transferring
  <2>2. CASE ~port.ready
    <3>1. mem' = mem
      BY <2>2, MemoryStays
    <3> QED BY <1>1, <1>2, <2>1, <2>2, <3>1 DEF MemShape, WriteData, c_access, Accessing
  <2>3. CASE port.ready
    <3>1. PICK v \in BusLatched : mem' = [mem EXCEPT ![copier.paddr] = v.pwdata]
      BY <1>5, <2>3, MemoryWritten DEF Transferring
    <3>2. v.pwdata = qb
      BY DEF BusLatched, BusView, WriteData, Accessing
    <3>3. /\ mem' = [a \in Address |-> mem'[a]] /\ mem'[copier.paddr] = qb
          /\ \A a \in Address : a # copier.paddr => mem'[a] = mem[a]
      BY <3>1, <3>2, Updated DEF MemShape
    <3> QED BY <1>1, <1>2, <2>1, <3>3 DEF WriteData, c_access, Accessing
  <2> QED BY <2>2, <2>3
<1>6. CASE Transferred
  <2>1. mem' = mem
    BY <1>6, MemoryStays DEF Transferred, NoTransfer
  <2>2. mem[copier.paddr] = qb
    BY <1>6 DEF WriteData, Transferred
  <2> QED BY <1>1, <1>2, <2>1, <2>2 DEF MemShape, WriteData, c_access
<1> QED BY <1>3, <1>4, <1>5, <1>6

-----------------------------------------------------------------------------
(* The registers of ram2apb that no access needs.                           *)
LEMMA Registers ==
  ASSUME ChainStep, phase = 0
  PROVE  /\ copier'.trigger_d = ram_trigger /\ copier'.trigger_dd = copier.trigger_d
         /\ copier'.finished = c_finished
         /\ copier'.write = (copier.write # (copier.finished /\ c_rise))
         /\ copier'.run = (c_rise \/ (copier.run /\ ~c_stop))
         /\ copier'.addr_valid = copier.run
         /\ copier'.data_phase = \/ copier.psel /\ ~copier.penable
                                 \/ copier.data_phase /\ ~bridge.pready
         /\ copier'.wren = (~copier.write /\ c_access /\ bridge.pready)
         /\ copier'.addr = c_addr
         /\ copier'.prdata = IF ~copier.write /\ copier.data_phase /\ bridge.pready
                             THEN bridge.prdata ELSE copier.prdata
<1>1. CopierEdge
  BY DEF ChainStep, ChainTick
<1> QED BY <1>1 DEF CopierEdge

LEMMA BetweenBusEdges ==
  ASSUME ChainStep, phase # 0
  PROVE  UNCHANGED <<copier, ram, qa, qb, host, pc, gpio, since>>
BY DEF ChainStep, ChainTick

LEMMA RamStep ==
  ASSUME ChainStep, ~HostActive, phase = 0
  PROVE  ram' = IF copier.wren THEN [ram EXCEPT ![copier.addr] = copier.prdata] ELSE ram
BY DEF ChainStep, ChainTick, RamEdge, ChainPortB, NoAccess

LEMMA DataPhaseNext ==
  ASSUME ChainStep, Good
  PROVE  copier'.data_phase = c_access'
<1>1. CASE phase # 0
  BY <1>1, CopierStays DEF Good, c_access
<1>2. CASE phase = 0
  <2>1. copier'.data_phase = \/ copier.psel /\ ~copier.penable
                             \/ copier.data_phase /\ ~bridge.pready
    BY <1>2, Registers
  <2>2. CASE ~copier.psel \/ Ended
    <3>1. ~copier'.penable
      BY <1>2, <2>2, NoneBegins DEF Good, Shapes
    <3> QED BY <2>1, <2>2, <3>1 DEF Good, Shapes, BridgeShape, CopierRules, c_access, Ended
  <2>3. CASE InSetup \/ Accessing
    <3>1. copier'.psel /\ copier'.penable
      BY <1>2, <2>3, AccessIsHeld DEF Good, Shapes
    <3> QED BY <2>1, <2>3, <3>1 DEF Good, Shapes, BridgeShape, c_access, Accessing, InSetup
  <2> QED BY <2>2, <2>3 DEF InSetup, Accessing, Ended, c_access
<1> QED BY <1>1, <1>2

(* ram2apb at rest: no access, no copy, no word for the RAM.                *)
LEMMA OffNext ==
  ASSUME ChainStep, Good, Off, phase = 0 => ~c_rise
  PROVE  /\ Off' /\ copier'.write = copier.write /\ copier'.finished = copier.finished
         /\ ~port.busy
<1>1. ~port.busy
  BY DEF Good, Resting, Cleared, NoTransfer, Off, Still
<1>2. CASE phase # 0
  BY <1>1, <1>2, CopierStays DEF Off, Still
<1>3. CASE phase = 0
  <2>1. ~c_access /\ ~c_driving /\ ~c_stop
    BY DEF c_access, c_driving, c_stop, Off, Still
  <2>2. ~copier'.psel
    BY <1>3, <2>1, CopierStep DEF Good, Shapes
  <2>3. c_addr = 0
    BY <2>1 DEF c_addr, Off, Still, Good
  <2>4. c_finished = copier.finished
    BY <1>3 DEF c_finished, Off, Still, Good, Shapes, CopierRules
  <2>5. copier'.write = copier.write
    BY <1>3, Registers DEF Good, Shapes, CopierRules
  <2> QED BY <1>1, <1>3, <2>1, <2>2, <2>3, <2>4, <2>5, Registers DEF Off, Still
<1> QED BY <1>2, <1>3

LEMMA CopyBegins ==
  ASSUME ChainStep, Good, Off, phase = 0, c_rise
  PROVE  /\ Begun' /\ ~copier'.finished /\ ~port.busy
         /\ copier'.write = (copier.write # copier.finished)
<1>1. ~port.busy
  BY DEF Good, Resting, Cleared, NoTransfer, Off, Still
<1>2. ~c_access /\ ~c_driving
  BY DEF c_access, c_driving, Off, Still
<1>3. ~copier'.psel
  BY <1>2, CopierStep DEF Good, Shapes
<1>4. c_addr = 0
  BY <1>2 DEF c_addr, Off, Still, Good
<1>5. ~c_finished
  BY DEF c_finished
<1>6. copier'.write = (copier.write # copier.finished)
  BY Registers DEF Good, Shapes, CopierRules
<1> QED BY <1>1, <1>2, <1>3, <1>4, <1>5, <1>6, Registers DEF Begun, Off, Still

-----------------------------------------------------------------------------
(* ram2apb, from one register state to the next: the word that names the     *)
(* block, the set-up of an access, the access, its end, and the end of all.  *)
LEMMA FetchNext ==
  ASSUME ChainStep, Good, Begun, phase = 0, ~c_rise
  PROVE  /\ Fetched' /\ qb' = ram[0] /\ ~port.busy
         /\ copier'.write = copier.write /\ ~copier'.finished
         /\ copier'.addr = IF copier.write THEN 1 % Words ELSE 0
<1>1. bridge.pready /\ ~port.busy
  BY DEF Good, Resting, Cleared, NoTransfer, Begun
<1>2. c_rden /\ ~c_driving /\ ~c_stop /\ ~c_access /\ ~c_ram_end
  BY <1>1 DEF c_rden, c_driving, c_stop, c_access, c_ram_end, Begun
<1>3. copier'.write = copier.write /\ ~c_finished
  BY Registers DEF Begun, Good, Shapes, CopierRules, c_finished
<1>4. c_addr = IF copier.write THEN 1 % Words ELSE 0
  BY <1>2 DEF c_addr, Begun
<1>5. ~copier'.psel /\ qb' = ram[0]
  BY <1>2, CopierStep DEF Good, Shapes, Begun
<1> QED BY <1>1, <1>2, <1>3, <1>4, <1>5, Registers DEF Fetched, Begun

LEMMA SetUpNext ==
  ASSUME ChainStep, Good, Fetched, phase = 0, ~c_rise
  PROVE  /\ InSetup' /\ ~copier'.wren /\ copier'.paddr = qb /\ qb' = qb /\ ~port.busy
         /\ copier'.write = copier.write /\ ~copier'.finished
         /\ copier'.addr = copier.addr
<1>1. bridge.pready /\ ~port.busy /\ ~copier.penable
  BY DEF Good, Resting, Cleared, NoTransfer, Fetched, Shapes, CopierRules
<1>2. c_driving /\ ~c_rden /\ ~c_stop /\ ~c_access
  BY <1>1 DEF c_rden, c_driving, c_stop, c_access, Fetched
<1>3. copier'.write = copier.write /\ ~c_finished
  BY Registers DEF Fetched, Good, Shapes, CopierRules, c_finished
<1>4. c_addr = copier.addr
  BY <1>2 DEF c_addr, Fetched
<1>5. c_paddr = qb /\ ~c_penable
  BY <1>1 DEF c_paddr, c_penable, Fetched, Good, Shapes, CopierRules
<1>6. copier'.psel /\ ~copier'.penable /\ copier'.paddr = qb /\ qb' = qb
  BY <1>2, <1>5, CopierStep DEF Good, Shapes
<1> QED BY <1>1, <1>2, <1>3, <1>4, <1>6, Registers DEF InSetup

LEMMA AccessNext ==
  ASSUME ChainStep, Good, InSetup \/ Accessing, phase = 0, ~c_rise
  PROVE  /\ ~copier'.wren /\ copier'.paddr = copier.paddr /\ qb' = qb
         /\ copier'.write = copier.write /\ ~copier'.finished
         /\ copier'.addr = IF ~copier.write /\ copier.wren /\ copier.addr # Words - 1
                           THEN (copier.addr + 1) % Words ELSE copier.addr
<1>1. copier.run /\ ~copier.finished /\ copier.addr_valid /\ ~(c_access /\ bridge.pready)
  BY DEF InSetup, Accessing, c_access, Good, Shapes, CopierRules
<1>2. ~c_rden
  BY <1>1 DEF c_rden, InSetup, Accessing, c_access
<1>3. copier'.write = copier.write /\ ~c_finished
  BY <1>1, Registers DEF Good, Shapes, CopierRules, c_finished
<1>4. c_addr = IF ~copier.write /\ copier.wren /\ copier.addr # Words - 1
               THEN (copier.addr + 1) % Words ELSE copier.addr
  BY <1>1, <1>2 DEF c_addr, c_ram_end
<1>5. copier'.paddr = copier.paddr /\ qb' = qb
  BY AccessIsHeld DEF Good, Shapes
<1> QED BY <1>1, <1>3, <1>4, <1>5, Registers

(* The edge at the end of an access sets up the next one, or the run ends.   *)
LEMMA EndNext ==
  ASSUME ChainStep, Good, Ended, ~copier.wren, phase = 0, ~c_rise
  PROVE  /\ copier'.write = copier.write /\ ~copier'.finished
         /\ copier'.wren = ~copier.write
         /\ ~copier.write => copier'.prdata = bridge.prdata
         /\ qb' = IF copier.write THEN ram[copier.addr] ELSE qb
         /\ copier.addr = (IF copier.write THEN 0 ELSE Words - 1) =>
              Tail1' /\ copier'.addr = copier.addr
         /\ copier.addr # (IF copier.write THEN 0 ELSE Words - 1) =>
              /\ InSetup' /\ copier'.paddr = copier.paddr + 1
              /\ copier'.addr = IF copier.write THEN (copier.addr + 1) % Words
                                ELSE copier.addr
<1>1. /\ copier.run /\ ~copier.finished /\ copier.addr_valid /\ copier.psel
      /\ copier.penable /\ c_access /\ bridge.pready
  BY DEF Ended, c_access, Good, Shapes, CopierRules
<1>2. c_rden = copier.write
  BY <1>1 DEF c_rden, Good, Shapes, CopierRules
<1>3. copier'.write = copier.write /\ ~c_finished
  BY <1>1, Registers DEF Good, Shapes, CopierRules, c_finished
<1>4. copier'.wren = ~copier.write /\ (~copier.write => copier'.prdata = bridge.prdata)
  BY <1>1, Registers DEF Good, Shapes, CopierRules
<1>5. qb' = IF copier.write THEN ram[copier.addr] ELSE qb
  BY <1>2, CopierStep DEF Good, Shapes
<1>6. c_ram_end <=> copier.addr = IF copier.write THEN 0 ELSE Words - 1
  BY <1>1 DEF c_ram_end
<1>7. CASE c_ram_end
  <2>1. c_stop /\ ~c_driving /\ c_addr = copier.addr
    BY <1>1, <1>7 DEF c_stop, c_driving, c_addr
  <2>2. ~copier'.psel
    BY <2>1, CopierStep DEF Good, Shapes
  <2> QED BY <1>1, <1>3, <1>4, <1>5, <1>6, <1>7, <2>1, <2>2, Registers DEF Tail1
<1>8. CASE ~c_ram_end
  <2>1. c_driving /\ ~c_penable /\ c_paddr = copier.paddr + 1
    BY <1>1, <1>8 DEF c_stop, c_driving, c_penable, c_paddr
  <2>2. c_addr = IF copier.write THEN (copier.addr + 1) % Words ELSE copier.addr
    BY <1>1, <1>2, <1>8 DEF c_addr
  <2>3. InSetup' /\ copier'.paddr = copier.paddr + 1
    BY <2>1, CopierStep DEF Good, Shapes, InSetup
  <2> QED BY <1>1, <1>3, <1>4, <1>5, <1>6, <1>8, <2>2, <2>3, Registers
<1> QED BY <1>7, <1>8

LEMMA TailNext ==
  ASSUME ChainStep, Good, Tail1, phase = 0, ~c_rise
  PROVE  Off' /\ copier'.finished /\ copier'.write = copier.write /\ ~port.busy
<1>1. bridge.pready /\ ~port.busy
  BY DEF Good, Resting, Cleared, NoTransfer, Tail1
<1>2. ~c_access /\ ~c_driving /\ c_finished
  BY <1>1 DEF c_access, c_driving, c_finished, Tail1
<1>3. copier'.write = copier.write
  BY Registers, <1>2 DEF Good, Shapes, CopierRules
<1>4. c_addr = 0
  BY <1>2 DEF c_addr, Tail1, Good
<1>5. ~copier'.psel
  BY <1>2, CopierStep DEF Good, Shapes
<1> QED BY <1>1, <1>2, <1>3, <1>4, <1>5, Registers DEF Off, Still, Tail1

(* The RAM keeps its words, but for the one ram2apb has for it.              *)
LEMMA RamNext ==
  ASSUME ChainStep, ~HostActive, MemShape
  PROVE  /\ ram' = [i \in Index |-> ram'[i]]
         /\ ~copier.wren \/ phase # 0 => ram' = ram
         /\ \A i \in Index : i # copier.addr => ram'[i] = ram[i]
         /\ copier.wren /\ phase = 0 /\ copier.addr \in Index =>
              ram'[copier.addr] = copier.prdata
<1>1. CASE phase # 0 \/ ~copier.wren
  BY <1>1, BetweenBusEdges, RamStep DEF MemShape
<1>2. CASE phase = 0 /\ copier.wren
  <2>1. ram' = [ram EXCEPT ![copier.addr] = copier.prdata]
    BY <1>2, RamStep
  <2>2. ram = [i \in Index |-> ram[i]]
    BY DEF MemShape
  <2> QED BY <1>2, <2>1, <2>2
<1> QED BY <1>1, <1>2

LEMMA FirstOnlyReads ==
  ASSUME ChainStep, ~HostActive, Good, ~copier.write
  PROVE  mem' = mem
<1>1. ~port.busy \/ ~port.write
  BY DEF Good, Resting, SettingUp, AccessGoesOn, AccessEnds, Cleared, NoTransfer, Asking,
         Transferring, Transferred, InSetup, Accessing, Ended, c_access, Shapes, CopierRules
<1> QED BY <1>1, MemoryStays DEF Good, Shapes, PortShape

LEMMA FirstCopyNext ==
  ASSUME ChainStep, ~HostActive, Good, ~port'.resp, FirstCopy, phase = 0 => ~c_rise
  PROVE  /\ FirstCopy' /\ mem' = mem /\ ram' = [i \in Index |-> ram'[i]]
         /\ copier.finished => copier'.finished
<1>1. mem' = mem /\ ram' = [i \in Index |-> ram'[i]]
  BY FirstOnlyReads, RamNext DEF FirstCopy, Good
<1>2. DataIsSecond' /\ ~copier.write
  BY <1>1 DEF FirstCopy, DataIsSecond
<1>3. CASE copier.finished
  <2>1. Off /\ ram = Expected
    BY <1>3 DEF FirstCopy, FirstDone
  <2>2. ram' = ram
    BY <2>1, RamNext DEF Off, Still, Good
  <2> QED BY <1>1, <1>2, <1>3, <2>1, <2>2, OffNext DEF FirstCopy, FirstDone
<1>4. CASE ~copier.finished /\ phase # 0
  <2>1. copier' = copier /\ qb' = qb /\ ram' = ram
    BY <1>4, CopierStays, BetweenBusEdges
  <2>2. ASSUME c_access, FirstAccess
        PROVE  c_access' /\ FirstAccess'
    <3>1. ReadData'
      <4>1. CASE Accessing
        <5>1. ~copier.pwrite /\ copier.paddr \in Address
          BY <1>2, <2>2, Sizes DEF Good, Shapes, CopierRules, c_access, FirstAccess
        <5> QED BY <1>1, <2>2, <4>1, <5>1, ReadDataNext DEF Good, FirstAccess
      <4>2. CASE Ended
        <5>1. bridge'.pready /\ bridge'.prdata = bridge.prdata
          BY <1>4, <4>2, BridgeStep DEF Good, Shapes, PortShape, Ended
        <5>2. ~bridge'.pending
          BY <4>2, BridgeStep
          DEF Good, Shapes, PortShape, AccessEnds, NoTransfer
        <5>3. bridge'.prdata = mem'[copier'.paddr]
          BY <1>1, <2>1, <2>2, <4>2, <5>1 DEF FirstAccess, ReadData, Ended
        <5> QED BY <5>1, <5>2, <5>3 DEF ReadData
      <4> QED BY <2>2, <4>1, <4>2 DEF Accessing, Ended
    <3> QED BY <2>1, <2>2, <3>1 DEF c_access, FirstAccess, InRam
  <2>3. ASSUME InSetup, FirstSetup
        PROVE  InSetup' /\ FirstSetup'
    BY <2>1, <2>3 DEF InSetup, FirstSetup, InRam
  <2>4. ASSUME FirstTail
        PROVE  FirstTail'
    BY <2>1, <2>4 DEF FirstTail, InRam, Tail1
  <2> QED BY <1>1, <1>2, <1>4, <2>1, <2>2, <2>3, <2>4 DEF FirstCopy, Begun, Fetched
<1>5. CASE ~copier.finished /\ phase = 0
  <2>1. CASE Begun /\ ram[0] = DataBuf
    <3>1. /\ Fetched' /\ qb' = ram[0] /\ copier'.write = copier.write
          /\ ~copier'.finished /\ copier'.addr = 0
      BY <1>2, <1>5, <2>1, FetchNext
    <3> QED BY <1>1, <1>2, <1>5, <2>1, <3>1 DEF FirstCopy
  <2>2. CASE Fetched /\ copier.addr = 0 /\ qb = DataBuf
    <3>1. /\ InSetup' /\ ~copier'.wren /\ copier'.paddr = DataBuf /\ copier'.addr = 0
          /\ copier'.write = copier.write /\ ~copier'.finished
      BY <1>5, <2>2, SetUpNext
    <3>2. 0 \in Index /\ DataBuf = DataBuf + 0 /\ \A i \in Index : ~(i < 0)
      BY Sizes DEF Index
    <3>3. FirstSetup'
      BY <3>1, <3>2 DEF FirstSetup, InRam
    <3> QED BY <1>1, <1>2, <1>5, <3>1, <3>3 DEF FirstCopy
  <2>3. CASE InSetup /\ FirstSetup
    <3>1. /\ Accessing' /\ Asking'
      BY <1>5, <2>3, SetupAsks DEF Good
    <3>2. /\ ~copier'.wren /\ copier'.paddr = copier.paddr
          /\ copier'.write = copier.write /\ ~copier'.finished
          /\ copier'.addr = IF copier.wren /\ copier.addr # Words - 1
                           THEN (copier.addr + 1) % Words ELSE copier.addr
      BY <1>2, <1>5, <2>3, AccessNext
    <3>3. ReadData'
      BY <3>1 DEF ReadData, Accessing, Asking
    <3>4. /\ copier'.addr \in Index /\ (\A i \in Index : i < copier'.addr => ram'[i] = Expected[i])
          /\ copier'.paddr = DataBuf + copier'.addr
      <4>1. CASE copier.wren
        <5>1. /\ copier.addr \in Index /\ copier.addr + 1 < Words
              /\ copier.paddr = DataBuf + (copier.addr + 1)
          <6>1. copier.addr \in Index /\ copier.addr # Words - 1
            BY <2>3, <4>1 DEF FirstSetup
          <6>2. copier.addr + 1 < Words
            BY <6>1, Sizes DEF Index
          <6> QED BY <2>3, <4>1, <6>1, <6>2 DEF FirstSetup
        <5>2. copier'.addr = copier.addr + 1
          <6>1. (copier.addr + 1) % Words = copier.addr + 1
            BY <2>3, <4>1, NextWord DEF FirstSetup
          <6> QED BY <2>3, <3>2, <4>1, <6>1 DEF FirstSetup
        <5>3. \A i \in Index : i < copier'.addr => ram'[i] = Expected[i]
          <6>1. ram'[copier.addr] = Expected[copier.addr]
            BY <1>5, <2>3, <4>1, <5>1, RamNext DEF Good, FirstSetup
          <6>2. \A i \in Index : i # copier.addr => ram'[i] = ram[i]
            BY RamNext DEF Good
          <6>3. \A i \in Index : i < copier.addr => ram[i] = Expected[i]
            BY <2>3 DEF FirstSetup, InRam
          <6>4. \A i \in Index : i < copier'.addr => i < copier.addr \/ i = copier.addr
            BY <5>1, <5>2 DEF Index
          <6> QED BY <6>1, <6>2, <6>3, <6>4
        <5>4. copier.addr + 1 \in Index
          BY <5>1, Sizes DEF Index
        <5> QED BY <3>2, <5>1, <5>2, <5>3, <5>4
      <4>2. CASE ~copier.wren
        <5>1. ram' = ram /\ copier'.addr = copier.addr
          BY <3>2, <4>2, RamNext DEF Good
        <5>2. copier.paddr = DataBuf + copier.addr
          BY <2>3, <4>2 DEF FirstSetup
        <5> QED BY <2>3, <3>2, <5>1, <5>2 DEF FirstSetup, InRam
      <4> QED BY <4>1, <4>2
    <3>5. c_access' /\ FirstAccess'
      BY <3>1, <3>2, <3>3, <3>4 DEF FirstAccess, Accessing, InRam
    <3> QED BY <1>1, <1>2, <1>5, <3>2, <3>5 DEF FirstCopy
  <2>4. CASE c_access /\ FirstAccess /\ ~bridge.pready
    <3>1. ~copier.pwrite /\ copier.paddr \in Address
      BY <1>2, <2>4, Sizes DEF Good, Shapes, CopierRules, c_access, FirstAccess
    <3>2. c_access' /\ ReadData'
      BY <1>1, <2>4, <3>1, ReadDataNext DEF Good, FirstAccess, Accessing
    <3>3. /\ ~copier'.wren /\ copier'.paddr = copier.paddr
          /\ copier'.write = copier.write /\ ~copier'.finished
          /\ copier'.addr = copier.addr
      BY <1>5, <2>4, AccessNext DEF Accessing, FirstAccess
    <3>4. ram' = ram
      BY <2>4, RamNext DEF Good, FirstAccess
    <3>5. FirstAccess'
      BY <2>4, <3>2, <3>3, <3>4 DEF FirstAccess, InRam
    <3> QED BY <1>1, <1>2, <1>5, <3>2, <3>3, <3>5 DEF FirstCopy
  <2>5. CASE c_access /\ FirstAccess /\ bridge.pready
    <3>1. /\ copier'.write = copier.write /\ ~copier'.finished /\ copier'.wren
          /\ copier'.prdata = bridge.prdata
          /\ copier.addr = Words - 1 => Tail1' /\ copier'.addr = copier.addr
          /\ copier.addr # Words - 1 =>
               /\ InSetup' /\ copier'.paddr = copier.paddr + 1
               /\ copier'.addr = copier.addr
      BY <1>2, <1>5, <2>5, EndNext DEF Ended, FirstAccess
    <3>2. copier'.prdata = Expected[copier.addr]
      BY <2>5, <3>1 DEF FirstAccess, ReadData, FirstCopy, DataIsSecond
    <3>3. ram' = ram
      BY <2>5, RamNext DEF Good, FirstAccess
    <3>4. CASE copier.addr = Words - 1
      <4>1. FirstTail'
        BY <2>5, <3>1, <3>2, <3>3, <3>4 DEF FirstTail, FirstAccess, InRam
      <4> QED BY <1>1, <1>2, <1>5, <3>1, <4>1 DEF FirstCopy
    <3>5. CASE copier.addr # Words - 1
      <4>1. copier'.paddr = DataBuf + (copier'.addr + 1)
        <5>1. /\ copier.addr \in Index /\ copier.paddr = DataBuf + copier.addr
              /\ copier'.paddr = copier.paddr + 1 /\ copier'.addr = copier.addr
          BY <2>5, <3>1, <3>5 DEF FirstAccess
        <5>2. copier.addr \in Nat /\ DataBuf \in Nat
          BY <5>1, Sizes
        <5> QED BY <5>1, <5>2
      <4>2. FirstSetup'
        BY <2>5, <3>1, <3>2, <3>3, <3>5, <4>1 DEF FirstSetup, FirstAccess, InRam
      <4> QED BY <1>1, <1>2, <1>5, <3>1, <3>5, <4>2 DEF FirstCopy
    <3> QED BY <3>4, <3>5
  <2>6. CASE FirstTail
    <3>1. Off' /\ copier'.finished /\ copier'.write = copier.write
      BY <1>5, <2>6, TailNext DEF FirstTail
    <3>2. ram'[copier.addr] = Expected[copier.addr]
      BY <1>5, <2>6, RamNext, Sizes DEF Good, FirstTail
    <3>3. \A i \in Index : ram'[i] = Expected[i]
      <4>1. \A i \in Index : i # copier.addr => ram'[i] = ram[i]
        BY RamNext DEF Good
      <4>2. \A i \in Index : i # copier.addr => i < copier.addr
        BY <2>6, Sizes DEF FirstTail, Index
      <4> QED BY <2>6, <3>2, <4>1, <4>2 DEF FirstTail, InRam
    <3>4. ram' = Expected
      BY <1>1, <3>3 DEF Expected
    <3> QED BY <1>1, <1>2, <1>5, <3>1, <3>4 DEF FirstCopy, FirstDone
  <2> QED BY <1>5, <2>1, <2>2, <2>3, <2>4, <2>5, <2>6 DEF FirstCopy
<1> QED BY <1>3, <1>4, <1>5

(* The second copy writes only into read_buf.                               *)
LEMMA SecondAddress ==
  ASSUME SecondWord
  PROVE  /\ copier.paddr \in Address /\ copier.paddr >= ReadBuf
         /\ copier.paddr < ReadBuf + Words
         /\ copier.paddr = ReadBuf + (copier.paddr - ReadBuf)
         /\ \A i \in Index : DataBuf + i # copier.paddr
<1> DEFINE k == copier.paddr - ReadBuf
<1>1. k \in Index
  BY DEF SecondWord
<1>2. k \in Nat /\ k < Words /\ ReadBuf \in Nat /\ Words \in Nat
  BY <1>1, Sizes
<1>3. copier.paddr = ReadBuf + k
  BY DEF SecondWord
<1> HIDE DEF k
<1>4. copier.paddr \in Address /\ copier.paddr >= ReadBuf /\ copier.paddr < ReadBuf + Words
  BY <1>1, <1>2, <1>3, Sizes
<1>5. \A i \in Index : DataBuf + i # copier.paddr
  <2> TAKE i \in Index
  <2>1. i \in Nat /\ i < Words /\ DataBuf = Words /\ ReadBuf = 2 * Words
    BY Sizes
  <2> QED BY <1>2, <1>3, <2>1
<1> QED BY <1>3, <1>4, <1>5 DEF k

LEMMA SecondWritesReadBuf ==
  ASSUME SecondWord, Outside, DataIsSecond, MemShape,
         mem' = [a \in Address |-> mem'[a]],
         \A a \in Address : a # copier.paddr => mem'[a] = mem[a]
  PROVE  /\ Outside' /\ DataIsSecond'
         /\ \A i \in Index : i < copier.paddr - ReadBuf => mem'[ReadBuf + i] = Expected[i]
<1> DEFINE k == copier.paddr - ReadBuf
<1>1. /\ copier.paddr \in Address /\ copier.paddr >= ReadBuf
      /\ copier.paddr < ReadBuf + Words /\ copier.paddr = ReadBuf + k
      /\ \A i \in Index : DataBuf + i # copier.paddr
  BY SecondAddress
<1>2. k \in Nat
  BY Sizes DEF SecondWord
<1> HIDE DEF k
<1>3. Outside'
  <2>1. /\ Words \in Nat /\ DataBuf = Words /\ ReadBuf = 2 * Words
        /\ copier.paddr \in Nat
    BY <1>1, Sizes
  <2>2. ~(copier.paddr < DataBuf) /\ ~(copier.paddr >= ReadBuf + Words)
    BY <1>1, <2>1
  <2>3. \A a \in Address : a < DataBuf \/ a >= ReadBuf + Words => a # copier.paddr
    BY <2>2
  <2> QED BY <2>3 DEF Outside
<1>4. DataIsSecond'
  BY <1>1, Sizes DEF DataIsSecond
<1>5. ASSUME NEW i \in Index, i < k
      PROVE  mem'[ReadBuf + i] = Expected[i]
  <2>1. ReadBuf + i \in Address /\ ReadBuf + i # copier.paddr
    <3>1. i \in Nat /\ ReadBuf + i \in Address
      BY <1>5, Sizes
    <3>2. ReadBuf \in Nat
      BY RamAssumption DEF ReadBuf
    <3> QED BY <1>1, <1>2, <1>5, <3>1, <3>2
  <2> QED BY <1>5, <2>1 DEF SecondWord, InReadBuf, k
<1> QED BY <1>3, <1>4, <1>5 DEF k

LEMMA SecondCopyNext ==
  ASSUME ChainStep, ~HostActive, Good, SecondCopy, phase = 0 => ~c_rise
  PROVE  /\ SecondCopy' /\ Outside' /\ mem' = [a \in Address |-> mem'[a]]
         /\ ram' = [i \in Index |-> ram'[i]]
         /\ copier.finished => copier'.finished
<1>1. ram' = ram /\ ram' = [i \in Index |-> ram'[i]] /\ copier.write /\ ram = Expected
  BY RamNext DEF SecondCopy, Good
<1>2. ~copier'.wren
  BY <1>1, Registers, CopierStays DEF SecondCopy
<1>3. ASSUME mem' = mem
      PROVE  /\ Outside' /\ mem' = [a \in Address |-> mem'[a]] /\ DataIsSecond'
             /\ \A n : InReadBuf(n) => \A i \in Index : i < n => mem'[ReadBuf + i] = Expected[i]
  BY <1>3 DEF Good, MemShape, Outside, SecondCopy, DataIsSecond, InReadBuf
<1>4. ASSUME ~port.busy PROVE mem' = mem
  BY <1>4, MemoryStays
<1>5. CASE copier.finished
  <2>1. Off /\ InReadBuf(Words)
    BY <1>5 DEF SecondCopy, Begun, Fetched, InSetup, Tail1, Good, Shapes, CopierRules, c_access
  <2>2. Off' /\ copier'.write = copier.write /\ copier'.finished /\ mem' = mem
    BY <1>4, <1>5, <2>1, OffNext
  <2> QED BY <1>1, <1>2, <1>3, <2>1, <2>2 DEF SecondCopy, InReadBuf
<1>6. CASE ~copier.finished /\ c_access /\ ~bridge.pready
  <2>1. SecondWord /\ WriteData
    BY <1>6 DEF SecondCopy, Begun, Fetched, InSetup, Tail1, c_access
  <2>2. copier.pwrite /\ copier.paddr \in Address
    BY <1>1, <1>6, <2>1, SecondAddress DEF Good, Shapes, CopierRules, c_access
  <2>3. /\ c_access' /\ WriteData' /\ mem' = [a \in Address |-> mem'[a]]
        /\ \A a \in Address : a # copier.paddr => mem'[a] = mem[a]
    BY <1>6, <2>1, <2>2, WriteDataNext DEF Good, Accessing
  <2>4. /\ Outside' /\ DataIsSecond'
        /\ \A i \in Index : i < copier.paddr - ReadBuf => mem'[ReadBuf + i] = Expected[i]
    BY <2>1, <2>3, SecondWritesReadBuf DEF Good, SecondCopy
  <2>5. /\ copier'.paddr = copier.paddr /\ qb' = qb /\ copier'.addr = copier.addr
        /\ copier'.write = copier.write /\ ~copier'.finished
    BY <1>1, <1>6, AccessNext, CopierStays DEF Accessing
  <2>6. SecondWord'
    BY <2>1, <2>4, <2>5 DEF SecondWord, InReadBuf
  <2> QED BY <1>1, <1>2, <1>6, <2>3, <2>4, <2>5, <2>6 DEF SecondCopy
<1>7. CASE ~copier.finished /\ phase # 0 /\ ~(c_access /\ ~bridge.pready)
  <2>1. copier' = copier /\ qb' = qb
    BY <1>7, CopierStays
  <2>2. ~port.busy \/ ~port.ready \/ ~port.write
    BY <1>7 DEF Good, Resting, SettingUp, AccessEnds, Cleared, NoTransfer, InSetup, Ended,
                c_access
  <2>3. mem' = mem
    BY <2>2, <1>7, MemoryStays
  <2>4. ASSUME SecondWord PROVE SecondWord'
    BY <1>3, <2>1, <2>3, <2>4 DEF SecondWord, InReadBuf
  <2>5. ASSUME c_access, WriteData PROVE c_access' /\ WriteData'
    <3>1. bridge.pready /\ bridge'.pready /\ mem[copier.paddr] = qb
      BY <1>7, <2>5, BridgeStep DEF WriteData, Good, Shapes, PortShape
    <3> QED BY <2>1, <2>3, <2>5, <3>1 DEF c_access, WriteData
  <2> QED BY <1>1, <1>2, <1>3, <1>7, <2>1, <2>3, <2>4, <2>5
          DEF SecondCopy, Begun, Fetched, InSetup, Tail1, InReadBuf
<1>8. CASE ~copier.finished /\ phase = 0 /\ ~(c_access /\ ~bridge.pready)
  <2>1. ~port.busy
    BY <1>8 DEF Good, Resting, SettingUp, AccessEnds, Cleared, NoTransfer, InSetup, Ended,
                c_access
  <2>2. /\ mem' = mem /\ Outside' /\ mem' = [a \in Address |-> mem'[a]] /\ DataIsSecond'
        /\ \A n : InReadBuf(n) => \A i \in Index : i < n => mem'[ReadBuf + i] = Expected[i]
    BY <1>3, <1>4, <2>1
  <2>3. CASE Begun
    <3>1. /\ Fetched' /\ qb' = ram[0] /\ copier'.write = copier.write
          /\ ~copier'.finished /\ copier'.addr = 1 % Words
      BY <1>1, <1>8, <2>3, FetchNext
    <3>2. 1 % Words = IF Words = 1 THEN 0 ELSE 1
      <4>1. 0 \in Index /\ 0 + 1 = 1 /\ Words \in Nat /\ (0 = Words - 1 <=> Words = 1)
        BY Sizes
      <4>2. (0 + 1) % Words = IF 0 = Words - 1 THEN 0 ELSE 0 + 1
        BY <4>1, NextWord
      <4> QED BY <4>1, <4>2
    <3>3. ram[0] = ReadBuf
      BY <1>1, Sizes, ExpectedWord
    <3> QED BY <1>1, <1>2, <1>8, <2>2, <3>1, <3>2, <3>3 DEF SecondCopy
  <2>4. CASE Fetched /\ copier.addr = (IF Words = 1 THEN 0 ELSE 1) /\ qb = ReadBuf
    <3>1. /\ InSetup' /\ copier'.paddr = ReadBuf /\ qb' = ReadBuf
          /\ copier'.write = copier.write /\ ~copier'.finished /\ copier'.addr = copier.addr
      BY <1>8, <2>4, SetUpNext
    <3>2. /\ 0 \in Index /\ ReadBuf - ReadBuf = 0 /\ \A i \in Index : ~(i < 0)
          /\ ReadBuf + 0 = ReadBuf /\ 0 + 1 = 1 /\ (0 = Words - 1 <=> Words = 1)
      BY Sizes DEF Index
    <3>3. Expected[0] = ReadBuf
      BY <3>2, ExpectedWord
    <3>4. copier'.paddr - ReadBuf = 0
      BY <3>1, <3>2
    <3>5. copier'.addr = IF 0 = Words - 1 THEN 0 ELSE 0 + 1
      BY <2>4, <3>1, <3>2
    <3>6. SecondWord'
      BY <3>1, <3>2, <3>3, <3>4, <3>5 DEF SecondWord, InReadBuf
    <3> QED BY <1>1, <1>2, <1>8, <2>2, <3>1, <3>6 DEF SecondCopy
  <2>5. CASE InSetup /\ SecondWord
    <3>1. Accessing' /\ Asking'
      BY <1>8, <2>5, SetupAsks DEF Good
    <3>2. /\ copier'.paddr = copier.paddr /\ qb' = qb /\ copier'.addr = copier.addr
          /\ copier'.write = copier.write /\ ~copier'.finished
      BY <1>1, <1>8, <2>5, AccessNext
    <3>3. busWas'.pwdata = qb'
      BY <3>2, ClockStep DEF Good, Shapes, BusView
    <3>4. WriteData'
      BY <3>1, <3>3 DEF WriteData, Accessing, Asking
    <3>5. SecondWord'
      BY <2>2, <2>5, <3>2 DEF SecondWord, InReadBuf
    <3> QED BY <1>1, <1>2, <1>8, <2>2, <3>1, <3>2, <3>4, <3>5 DEF SecondCopy, Accessing
  <2>6. CASE c_access /\ SecondWord /\ WriteData
    <3> DEFINE k == copier.paddr - ReadBuf
    <3>1. /\ k \in Index /\ InReadBuf(k) /\ qb = Expected[k]
          /\ copier.addr = IF k = Words - 1 THEN 0 ELSE k + 1
      BY <2>6 DEF SecondWord
    <3>2. copier.paddr = ReadBuf + k
      BY <2>6, SecondAddress
    <3>3. k \in Nat /\ k < Words /\ ReadBuf \in Nat /\ Words \in Nat \ {0}
      BY <3>1, Sizes
    <3> HIDE DEF k
    <3>4. mem[ReadBuf + k] = Expected[k]
      BY <1>8, <2>6, <3>1, <3>2 DEF WriteData
    <3>5. \A i \in Index : i < k + 1 => mem'[ReadBuf + i] = Expected[i]
      <4>1. \A i \in Index : i < k + 1 => i < k \/ i = k
        BY <3>3 DEF Index
      <4> QED BY <2>2, <3>1, <3>4, <4>1 DEF InReadBuf
    <3>6. /\ copier'.write = copier.write /\ ~copier'.finished
          /\ qb' = ram[copier.addr]
          /\ copier.addr = 0 => Tail1' /\ copier'.addr = copier.addr
          /\ copier.addr # 0 => /\ InSetup' /\ copier'.paddr = copier.paddr + 1
                                /\ copier'.addr = (copier.addr + 1) % Words
      BY <1>1, <1>8, <2>6, EndNext DEF Ended, SecondCopy
    <3>7. CASE k = Words - 1
      <4>1. copier.addr = 0 /\ k + 1 = Words
        BY <3>1, <3>3, <3>7
      <4>2. Tail1' /\ \A i \in Index : i < Words => mem'[ReadBuf + i] = Expected[i]
        BY <3>5, <3>6, <4>1
      <4> QED BY <1>1, <1>2, <1>8, <2>2, <3>6, <4>2 DEF SecondCopy, InReadBuf
    <3>8. CASE k # Words - 1
      <4>1. copier.addr = k + 1 /\ k + 1 \in Index /\ copier.addr # 0
        BY <3>1, <3>3, <3>8 DEF Index
      <4>2. InSetup' /\ copier'.paddr - ReadBuf = k + 1 /\ copier'.paddr = ReadBuf + (k + 1)
        BY <3>2, <3>3, <3>6, <4>1
      <4>3. copier'.addr = IF k + 1 = Words - 1 THEN 0 ELSE (k + 1) + 1
        BY <3>6, <4>1, NextWord
      <4>4. qb' = Expected[k + 1]
        BY <1>1, <3>6, <4>1
      <4>5. SecondWord'
        BY <3>5, <4>1, <4>2, <4>3, <4>4 DEF SecondWord, InReadBuf
      <4> QED BY <1>1, <1>2, <1>8, <2>2, <3>6, <4>2, <4>5 DEF SecondCopy
    <3> QED BY <3>7, <3>8
  <2>7. CASE Tail1 /\ InReadBuf(Words)
    <3>1. Off' /\ copier'.finished /\ copier'.write = copier.write
      BY <1>8, <2>7, TailNext
    <3> QED BY <1>1, <1>2, <1>8, <2>2, <2>7, <3>1 DEF SecondCopy, InReadBuf
  <2> QED BY <1>8, <2>3, <2>4, <2>5, <2>6, <2>7 DEF SecondCopy
<1> QED BY <1>5, <1>6, <1>7, <1>8

-----------------------------------------------------------------------------
(* From one copy to the next.                                               *)
LEMMA KeptMemory ==
  ASSUME Good, mem' = mem, ram' = [i \in Index |-> ram'[i]]
  PROVE  MemShape' /\ Outside'
BY DEF Good, MemShape, Outside

LEMMA OffKeeps ==
  ASSUME ChainStep, ~HostActive, Good, Off
  PROVE  mem' = mem /\ ram' = ram /\ MemShape' /\ Outside'
<1>1. ~port.busy /\ ~copier.wren
  BY DEF Good, Resting, Cleared, NoTransfer, Off, Still
<1>2. mem' = mem /\ ram' = ram /\ ram' = [i \in Index |-> ram'[i]]
  BY <1>1, MemoryStays, RamNext DEF Good
<1> QED BY <1>2, KeptMemory

LEMMA ToldNext ==
  ASSUME ChainStep, ~HostActive, Good, Told, phase = 0 => ~c_rise
  PROVE  Told'
<1>1. Off' /\ copier'.write = copier.write /\ copier'.finished = copier.finished
  BY OffNext DEF Told, NoCopy
<1>2. mem' = mem /\ ram' = ram
  BY OffKeeps DEF Told, NoCopy
<1> QED BY <1>1, <1>2 DEF Told, NoCopy, DataIsSecond

\* the first trigger starts the copy into the RAM
LEMMA FirstBegins ==
  ASSUME ChainStep, ~HostActive, Good, Told, phase = 0, c_rise
  PROVE  FirstCopy'
<1>1. Begun' /\ ~copier'.finished /\ copier'.write = (copier.write # copier.finished)
  BY CopyBegins DEF Told, NoCopy
<1>2. copier.write = FALSE /\ copier.finished = FALSE
  BY DEF Told, NoCopy, Good, Shapes, CopierRules
<1>3. ~copier'.write
  BY <1>1, <1>2
<1>4. mem' = mem /\ ram' = ram
  BY OffKeeps DEF Told, NoCopy
<1> QED BY <1>1, <1>3, <1>4 DEF FirstCopy, Told, DataIsSecond

\* the second one finds finished, and so turns the copy round
LEMMA SecondBegins ==
  ASSUME ChainStep, ~HostActive, Good, Between, phase = 0, c_rise
  PROVE  SecondCopy'
<1>1. Off /\ ram = Expected /\ copier.finished /\ ~copier.write /\ DataIsSecond
  BY DEF Between, FirstCopy, FirstDone
<1>2. Begun' /\ ~copier'.finished /\ copier'.write
  BY <1>1, CopyBegins
<1>3. mem' = mem /\ ram' = ram
  BY <1>1, OffKeeps
<1> QED BY <1>1, <1>2, <1>3 DEF SecondCopy, DataIsSecond, Begun

LEMMA BetweenNext ==
  ASSUME ChainStep, ~HostActive, Good, ~port'.resp, Between, phase = 0 => ~c_rise
  PROVE  Between'
BY FirstCopyNext DEF Between

(* Whatever is under way, memory keeps its shape.                           *)
LEMMA CopyKeeps ==
  ASSUME ChainStep, ~HostActive, Good, ~port'.resp,
         \/ Told \/ Between
         \/ FirstCopy /\ (phase = 0 => ~c_rise)
         \/ SecondCopy /\ (phase = 0 => ~c_rise)
  PROVE  MemShape' /\ Outside'
<1>1. CASE Told
  BY <1>1, OffKeeps DEF Told, NoCopy
<1>2. CASE Between
  BY <1>2, OffKeeps DEF Between, FirstCopy, FirstDone
<1>3. CASE FirstCopy /\ (phase = 0 => ~c_rise)
  BY <1>3, FirstCopyNext, KeptMemory
<1>4. CASE SecondCopy /\ (phase = 0 => ~c_rise)
  BY <1>4, SecondCopyNext DEF MemShape
<1> QED BY <1>1, <1>2, <1>3, <1>4

-----------------------------------------------------------------------------
(* The program after the host's jobs.                                       *)
LEMMA PinNext ==
  ASSUME GpioAccess, NEW e, NEW d, Pin(e, d), NEW e2, NEW d2,
         e2 = ((e \/ pc \in {"out1", "out2"}) /\ pc \notin {"in1", "in2"}),
         d2 = (d \/ pc \in {"high1", "high2"})
  PROVE  Pin(e2, d2)'
<1>1. gpio.en = e /\ gpio.data = d
  BY DEF Pin
<1> DEFINE en == (gpio.en \/ pc \in {"out1", "out2"}) /\ pc \notin {"in1", "in2"}
           data == gpio.data \/ pc \in {"high1", "high2"}
<1>2. gpio' = [en |-> en, data |-> data]
  BY DEF GpioAccess
<1>3. en = e2 /\ data = d2
  BY <1>1
<1> HIDE DEF en, data
<1> QED BY <1>2, <1>3 DEF Pin

LEMMA AccessTable ==
  ASSUME GpioAccess
  PROVE  /\ since >= Gap /\ (~(pc \in Polls /\ ~copier.finished) => since' = 0)
         /\ pc = "out1" /\ Pin(FALSE, FALSE) => pc' = "high1" /\ Pin(TRUE, FALSE)'
         /\ pc = "high1" /\ Pin(TRUE, FALSE) => pc' = "in1" /\ Pin(TRUE, TRUE)'
         /\ pc = "in1" /\ Pin(TRUE, TRUE) => pc' = "poll1" /\ Pin(FALSE, TRUE)'
         /\ pc = "out2" /\ Pin(FALSE, TRUE) => pc' = "high2" /\ Pin(TRUE, TRUE)'
         /\ pc = "high2" /\ Pin(TRUE, TRUE) => pc' = "in2" /\ Pin(TRUE, TRUE)'
         /\ pc = "in2" /\ Pin(TRUE, TRUE) => pc' = "poll2" /\ Pin(FALSE, TRUE)'
         /\ pc \in Polls /\ Pin(FALSE, TRUE) =>
              /\ Pin(FALSE, TRUE)'
              /\ copier.finished => pc' = IF pc = "poll1" THEN "out2" ELSE "compare"
              /\ ~copier.finished => pc' = pc /\ since' = since
<1>1. /\ pc' = IF pc \in Polls /\ ~copier.finished THEN pc ELSE GpioSteps[pc]
      /\ since >= Gap
      /\ since' = IF pc \in Polls /\ ~copier.finished THEN since ELSE 0
  BY DEF GpioAccess
<1>2. /\ GpioSteps["out1"] = "high1" /\ GpioSteps["high1"] = "in1"
      /\ GpioSteps["in1"] = "poll1" /\ GpioSteps["poll1"] = "out2"
      /\ GpioSteps["out2"] = "high2" /\ GpioSteps["high2"] = "in2"
      /\ GpioSteps["in2"] = "poll2" /\ GpioSteps["poll2"] = "compare"
  BY DEF GpioSteps
<1>3. pc = "out1" /\ Pin(FALSE, FALSE) => Pin(TRUE, FALSE)'
  BY PinNext
<1>4. pc = "high1" /\ Pin(TRUE, FALSE) => Pin(TRUE, TRUE)'
  BY PinNext
<1>5. pc = "in1" /\ Pin(TRUE, TRUE) => Pin(FALSE, TRUE)'
  BY PinNext
<1>6. pc = "out2" /\ Pin(FALSE, TRUE) => Pin(TRUE, TRUE)'
  BY PinNext
<1>7. pc = "high2" /\ Pin(TRUE, TRUE) => Pin(TRUE, TRUE)'
  BY PinNext
<1>8. pc = "in2" /\ Pin(TRUE, TRUE) => Pin(FALSE, TRUE)'
  BY PinNext
<1>9. pc \in Polls /\ Pin(FALSE, TRUE) => Pin(FALSE, TRUE)'
  BY PinNext DEF Polls
<1> QED BY <1>1, <1>2, <1>3, <1>4, <1>5, <1>6, <1>7, <1>8, <1>9 DEF Polls

(* The registers of the trigger follow the pin.                             *)
LEMMA TriggerNext ==
  ASSUME ChainStep, phase = 0, NEW d, NEW dd, Trigger(d, dd), NEW e, NEW v, Pin(e, v),
         NEW t, t = (e /\ v)
  PROVE  Trigger(t, d)' /\ (c_rise <=> ~dd /\ d)
<1>1. gpio.en = e /\ gpio.data = v
  BY DEF Pin
<1>2. copier'.trigger_d = ram_trigger /\ copier'.trigger_dd = copier.trigger_d
  BY Registers
<1>3. ram_trigger = t
  BY <1>1 DEF ram_trigger
<1> QED BY <1>2, <1>3 DEF Trigger, c_rise

LEMMA PauseNext ==
  ASSUME ChainStep, ~HostActive, Good, ~port'.resp, Program, phase # 0
  PROVE  Program' /\ MemShape' /\ Outside'
<1>1. pc' = pc /\ gpio' = gpio /\ since' = since /\ copier' = copier
  BY BetweenBusEdges
<1>2. Told => Told' /\ MemShape' /\ Outside'
  BY ToldNext, CopyKeeps
<1>3. FirstCopy => FirstCopy' /\ MemShape' /\ Outside'
  BY FirstCopyNext, CopyKeeps
<1>4. Between => Between' /\ MemShape' /\ Outside'
  BY BetweenNext, CopyKeeps
<1>5. SecondCopy => SecondCopy' /\ MemShape' /\ Outside'
  BY SecondCopyNext, CopyKeeps
<1>6. MemShape' /\ Outside'
  <2> since = 0 \/ since = 1 \/ since > 1
    BY DEF Program
  <2>1. pc \in {"out1", "high1"} => Told
    BY DEF Program, BeforeFirst
  <2>2. pc = "in1" => Told \/ FirstCopy
    BY DEF Program, FirstPulse
  <2>3. pc = "poll1" => FirstCopy
    BY DEF Program, FirstPoll
  <2>4. pc \in {"out2", "high2", "in2"} => Between \/ SecondCopy
    BY DEF Program, SecondPulse
  <2>5. pc \in {"poll2", "compare", "passed", "failed"} => SecondCopy
    BY DEF Program, SecondPoll, AfterSecond
  <2> QED BY <1>2, <1>3, <1>4, <1>5, <2>1, <2>2, <2>3, <2>4, <2>5 DEF Program, HostActive
<1>7. BeforeFirst' /\ FirstPulse' /\ FirstPoll'
  BY <1>1, <1>2, <1>3 DEF Program, BeforeFirst, FirstPulse, FirstPoll, Pin, Trigger
<1>8. SecondPulse' /\ SecondPoll' /\ AfterSecond'
  BY <1>1, <1>4, <1>5 DEF Program, SecondPulse, SecondPoll, AfterSecond, Pin, Trigger
<1> QED BY <1>1, <1>6, <1>7, <1>8 DEF Program, HostActive

(* Where the program is, and what holds there: one entry for each step.      *)
LEMMA Enter ==
  ASSUME since' \in Nat
  PROVE  /\ pc' = "out1" /\ Told' /\ Trigger(FALSE, FALSE)' /\ Pin(FALSE, FALSE)' => Program'
         /\ pc' = "high1" /\ Told' /\ Trigger(FALSE, FALSE)' /\ Pin(TRUE, FALSE)' => Program'
         /\ pc' = "in1" /\ FirstPulse' => Program'
         /\ pc' = "poll1" /\ FirstPoll' => Program'
         /\ pc' \in {"out2", "high2", "in2"} /\ SecondPulse' => Program'
         /\ pc' = "poll2" /\ SecondPoll' => Program'
         /\ pc' \in {"compare", "passed", "failed"} /\ AfterSecond' => Program'
<1> USE DEF Program, HostActive
<1>1. /\ pc' = "out1" /\ Told' /\ Trigger(FALSE, FALSE)' /\ Pin(FALSE, FALSE)' => Program'
      /\ pc' = "high1" /\ Told' /\ Trigger(FALSE, FALSE)' /\ Pin(TRUE, FALSE)' => Program'
  BY DEF BeforeFirst, FirstPulse, FirstPoll, SecondPulse, SecondPoll, AfterSecond
<1>2. pc' = "in1" /\ FirstPulse' => Program'
  BY DEF BeforeFirst, FirstPoll, SecondPulse, SecondPoll, AfterSecond
<1>3. pc' = "poll1" /\ FirstPoll' => Program'
  BY DEF BeforeFirst, FirstPulse, SecondPulse, SecondPoll, AfterSecond
<1>4. pc' \in {"out2", "high2", "in2"} /\ SecondPulse' => Program'
  BY DEF BeforeFirst, FirstPulse, FirstPoll, SecondPoll, AfterSecond
<1>5. pc' = "poll2" /\ SecondPoll' => Program'
  BY DEF BeforeFirst, FirstPulse, FirstPoll, SecondPulse, AfterSecond
<1>6. pc' \in {"compare", "passed", "failed"} /\ AfterSecond' => Program'
  BY DEF BeforeFirst, FirstPulse, FirstPoll, SecondPulse, SecondPoll
<1> QED BY <1>1, <1>2, <1>3, <1>4, <1>5, <1>6

LEMMA ProgramNext ==
  ASSUME ChainStep, ~HostActive, Good, ~port'.resp, Program, phase = 0
  PROVE  Program' /\ MemShape' /\ Outside'
<1>1. ProgramEdge /\ since \in Nat /\ Gap \in Nat /\ Gap > 0
  BY RamAssumption DEF ChainStep, ChainTick, Program
<1>2. \/ GpioAccess
      \/ GpioIdle
      \/ pc \in {"compare", "passed", "failed"}
  BY <1>1 DEF ProgramEdge, Compare, Stopped
<1>3. since' \in Nat
  BY <1>1 DEF ProgramEdge, GpioAccess, GpioIdle, Compare, Stopped
<1>4. /\ GpioIdle => pc' = pc /\ gpio' = gpio /\ since' = since + 1
      /\ GpioIdle /\ since = 0 => since' = 1 /\ since' # 0 /\ ~(since' > 1) /\ since' > 0
      /\ GpioIdle /\ (since = 1 \/ since > 1) => since' > 1 /\ since' # 0 /\ since' # 1
      /\ GpioIdle /\ since > 0 => since' > 0 /\ since' # 0
  BY <1>1 DEF GpioIdle
<1>5. gpio' = gpio => \A e, v \in BOOLEAN : Pin(e, v) => Pin(e, v)'
  BY DEF Pin
<1>6. since = 0 => ~GpioAccess
  BY <1>1 DEF GpioAccess
<1>7. /\ since = 0 \/ since = 1 \/ since > 1
      /\ since = 0 \/ since > 0
      /\ since = 0 => ~(since > 0)
      /\ since' = 0 => since' # 1 /\ ~(since' > 1) /\ ~(since' > 0)
  BY <1>1
<1>8. CASE pc \in {"out1", "high1"}
  <2>1. Told /\ Trigger(FALSE, FALSE)
    BY <1>8 DEF Program, BeforeFirst
  <2>2. PICK e \in BOOLEAN :
          Pin(e, FALSE) /\ (pc = "out1" => e = FALSE) /\ (pc = "high1" => e = TRUE)
    BY <1>8 DEF Program, BeforeFirst
  <2>3. Trigger(FALSE, FALSE)' /\ ~c_rise
    BY <2>1, <2>2, TriggerNext
  <2>4. Told' /\ MemShape' /\ Outside'
    BY <2>1, <2>3, ToldNext, CopyKeeps
  <2>5. CASE GpioIdle
    BY <1>3, <1>4, <1>5, <1>8, <2>2, <2>3, <2>4, <2>5, Enter
  <2>6. CASE GpioAccess /\ pc = "out1"
    BY <1>3, <2>2, <2>3, <2>4, <2>6, AccessTable, Enter
  <2>7. CASE GpioAccess /\ pc = "high1"
    <3>1. pc' = "in1" /\ Pin(TRUE, TRUE)' /\ since' = 0
      BY <2>2, <2>7, AccessTable DEF Polls
    <3>2. FirstPulse'
      BY <1>7, <2>3, <2>4, <3>1 DEF FirstPulse
    <3> QED BY <1>3, <2>4, <3>1, <3>2, Enter
  <2> QED BY <1>2, <1>8, <2>5, <2>6, <2>7
<1>9. CASE pc = "in1"
  <2>1. Pin(TRUE, TRUE)
    BY <1>9 DEF Program, FirstPulse
  <2>2. GpioIdle => pc' = "in1" /\ Pin(TRUE, TRUE)'
    BY <1>4, <1>5, <1>9, <2>1
  <2>3. GpioAccess => pc' = "poll1" /\ Pin(FALSE, TRUE)' /\ since' = 0
    BY <1>9, <2>1, AccessTable DEF Polls
  <2>4. CASE since = 0
    <3>1. Told /\ Trigger(FALSE, FALSE) /\ GpioIdle
      BY <1>2, <1>6, <1>9, <2>4 DEF Program, FirstPulse
    <3>2. Trigger(TRUE, FALSE)' /\ ~c_rise
      BY <2>1, <3>1, TriggerNext
    <3>3. Told' /\ MemShape' /\ Outside'
      BY <3>1, <3>2, ToldNext, CopyKeeps
    <3>4. FirstPulse'
      BY <1>4, <2>2, <2>4, <3>1, <3>2, <3>3 DEF FirstPulse
    <3> QED BY <1>3, <2>2, <3>1, <3>3, <3>4, Enter
  <2>5. CASE since = 1 \/ since > 1
    <3>1. Trigger(TRUE, TRUE)' /\ FirstCopy' /\ MemShape' /\ Outside'
      <4>1. CASE since = 1
        <5>1. Told /\ Trigger(TRUE, FALSE)
          BY <1>9, <4>1 DEF Program, FirstPulse
        <5>2. Trigger(TRUE, TRUE)' /\ c_rise
          BY <2>1, <5>1, TriggerNext
        <5> QED BY <5>1, <5>2, FirstBegins, CopyKeeps
      <4>2. CASE since > 1
        <5>1. FirstCopy /\ Trigger(TRUE, TRUE)
          BY <1>9, <4>2 DEF Program, FirstPulse
        <5>2. Trigger(TRUE, TRUE)' /\ ~c_rise
          BY <2>1, <5>1, TriggerNext
        <5> QED BY <5>1, <5>2, FirstCopyNext, CopyKeeps
      <4> QED BY <2>5, <4>1, <4>2
    <3>2. CASE GpioIdle
      <4>1. FirstPulse'
        BY <1>4, <2>2, <2>5, <3>1, <3>2 DEF FirstPulse
      <4> QED BY <1>3, <2>2, <3>1, <3>2, <4>1, Enter
    <3>3. CASE GpioAccess
      <4>1. FirstPoll'
        BY <1>7, <2>3, <3>1, <3>3 DEF FirstPoll
      <4> QED BY <1>3, <2>3, <3>1, <3>3, <4>1, Enter
    <3> QED BY <1>2, <1>9, <3>2, <3>3
  <2> QED BY <1>7, <2>4, <2>5
<1>10. CASE pc = "poll1"
  <2>1. Pin(FALSE, TRUE) /\ FirstCopy
    BY <1>10 DEF Program, FirstPoll
  <2>2. ~c_rise /\ copier'.trigger_d = FALSE /\ (since > 0 => Trigger(FALSE, FALSE)')
    <3>1. CASE since = 0
      <4>1. Trigger(TRUE, TRUE) /\ ~(since > 0)
        BY <1>7, <1>10, <3>1 DEF Program, FirstPoll
      <4>2. Trigger(FALSE, TRUE)' /\ ~c_rise
        BY <2>1, <4>1, TriggerNext
      <4> QED BY <4>1, <4>2 DEF Trigger
    <3>2. CASE since > 0
      <4>1. Trigger(FALSE, copier.trigger_dd) /\ gpio.en = FALSE
        BY <1>10, <2>1, <3>2 DEF Program, FirstPoll, Trigger, Pin
      <4>2. copier'.trigger_d = FALSE /\ copier'.trigger_dd = FALSE /\ ~c_rise
        BY <4>1, Registers DEF ram_trigger, Trigger, c_rise
      <4> QED BY <4>2 DEF Trigger
    <3> QED BY <1>7, <3>1, <3>2
  <2>3. /\ FirstCopy' /\ MemShape' /\ Outside' /\ copier'.trigger_d = FALSE
        /\ copier.finished => copier'.finished
    BY <2>1, <2>2, FirstCopyNext, CopyKeeps
  <2>4. CASE GpioIdle
    <3>1. pc' = "poll1" /\ Pin(FALSE, TRUE)' /\ since' > 0 /\ since' # 0
      BY <1>4, <1>5, <1>7, <1>10, <2>1, <2>4
    <3>2. FirstPoll'
      BY <2>3, <3>1 DEF FirstPoll
    <3> QED BY <1>3, <2>3, <3>1, <3>2, Enter
  <2>5. CASE GpioAccess /\ ~copier.finished
    <3>1. pc' = "poll1" /\ Pin(FALSE, TRUE)' /\ since' = since /\ since > 0 /\ since # 0
      BY <1>6, <1>7, <1>10, <2>1, <2>5, AccessTable DEF Polls
    <3>2. FirstPoll'
      BY <2>3, <3>1 DEF FirstPoll
    <3> QED BY <1>3, <2>3, <3>1, <3>2, Enter
  <2>6. CASE GpioAccess /\ copier.finished
    <3>1. pc' = "out2" /\ Pin(FALSE, TRUE)' /\ since > 0
      BY <1>6, <1>7, <1>10, <2>1, <2>6, AccessTable DEF Polls
    <3>2. Between' /\ Trigger(FALSE, FALSE)'
      BY <2>2, <2>3, <2>6, <3>1 DEF Between
    <3>3. SecondPulse'
      BY <3>1, <3>2 DEF SecondPulse
    <3> QED BY <1>3, <2>3, <3>1, <3>3, Enter
  <2> QED BY <1>2, <1>10, <2>4, <2>5, <2>6
<1>11. CASE pc = "out2"
  <2>1. Pin(FALSE, TRUE) /\ Between /\ Trigger(FALSE, FALSE)
    BY <1>11 DEF Program, SecondPulse
  <2>2. Trigger(FALSE, FALSE)' /\ ~c_rise
    BY <2>1, TriggerNext
  <2>3. Between' /\ MemShape' /\ Outside'
    BY <2>1, <2>2, BetweenNext, CopyKeeps
  <2>4. CASE GpioIdle
    <3>1. pc' = "out2" /\ Pin(FALSE, TRUE)'
      BY <1>4, <1>5, <1>11, <2>1, <2>4
    <3>2. SecondPulse'
      BY <2>2, <2>3, <3>1 DEF SecondPulse
    <3> QED BY <1>3, <2>3, <3>1, <3>2, Enter
  <2>5. CASE GpioAccess
    <3>1. pc' = "high2" /\ Pin(TRUE, TRUE)' /\ since' = 0
      BY <1>11, <2>1, <2>5, AccessTable DEF Polls
    <3>2. SecondPulse'
      BY <1>7, <2>2, <2>3, <3>1 DEF SecondPulse
    <3> QED BY <1>3, <2>3, <3>1, <3>2, Enter
  <2> QED BY <1>2, <1>11, <2>4, <2>5
<1>12. CASE pc = "high2"
  <2>1. Pin(TRUE, TRUE)
    BY <1>12 DEF Program, SecondPulse
  <2>2. GpioIdle => pc' = "high2" /\ Pin(TRUE, TRUE)'
    BY <1>4, <1>5, <1>12, <2>1
  <2>3. GpioAccess => pc' = "in2" /\ Pin(TRUE, TRUE)' /\ since' = 0
    BY <1>12, <2>1, AccessTable DEF Polls
  <2>4. CASE since = 0
    <3>1. Between /\ Trigger(FALSE, FALSE) /\ GpioIdle
      BY <1>2, <1>6, <1>12, <2>4 DEF Program, SecondPulse
    <3>2. Trigger(TRUE, FALSE)' /\ ~c_rise
      BY <2>1, <3>1, TriggerNext
    <3>3. Between' /\ MemShape' /\ Outside'
      BY <3>1, <3>2, BetweenNext, CopyKeeps
    <3>4. SecondPulse'
      BY <1>4, <2>2, <2>4, <3>1, <3>2, <3>3 DEF SecondPulse
    <3> QED BY <1>3, <2>2, <3>1, <3>3, <3>4, Enter
  <2>5. CASE since = 1 \/ since > 1
    <3>1. Trigger(TRUE, TRUE)' /\ SecondCopy' /\ MemShape' /\ Outside'
      <4>1. CASE since = 1
        <5>1. Between /\ Trigger(TRUE, FALSE)
          BY <1>12, <4>1 DEF Program, SecondPulse
        <5>2. Trigger(TRUE, TRUE)' /\ c_rise
          BY <2>1, <5>1, TriggerNext
        <5> QED BY <5>1, <5>2, SecondBegins, CopyKeeps
      <4>2. CASE since > 1
        <5>1. SecondCopy /\ Trigger(TRUE, TRUE)
          BY <1>12, <4>2 DEF Program, SecondPulse
        <5>2. Trigger(TRUE, TRUE)' /\ ~c_rise
          BY <2>1, <5>1, TriggerNext
        <5> QED BY <5>1, <5>2, SecondCopyNext, CopyKeeps
      <4> QED BY <2>5, <4>1, <4>2
    <3>2. CASE GpioIdle
      <4>1. SecondPulse'
        BY <1>4, <2>2, <2>5, <3>1, <3>2 DEF SecondPulse
      <4> QED BY <1>3, <2>2, <3>1, <3>2, <4>1, Enter
    <3>3. CASE GpioAccess
      <4>1. SecondPulse'
        BY <2>3, <3>1, <3>3 DEF SecondPulse
      <4> QED BY <1>3, <2>3, <3>1, <3>3, <4>1, Enter
    <3> QED BY <1>2, <1>12, <3>2, <3>3
  <2> QED BY <1>7, <2>4, <2>5
<1>13. CASE pc = "in2"
  <2>1. Pin(TRUE, TRUE) /\ SecondCopy /\ Trigger(TRUE, TRUE)
    BY <1>13 DEF Program, SecondPulse
  <2>2. Trigger(TRUE, TRUE)' /\ ~c_rise
    BY <2>1, TriggerNext
  <2>3. SecondCopy' /\ MemShape' /\ Outside'
    BY <2>1, <2>2, SecondCopyNext, CopyKeeps
  <2>4. CASE GpioIdle
    <3>1. pc' = "in2" /\ Pin(TRUE, TRUE)'
      BY <1>4, <1>5, <1>13, <2>1, <2>4
    <3>2. SecondPulse'
      BY <2>2, <2>3, <3>1 DEF SecondPulse
    <3> QED BY <1>3, <2>3, <3>1, <3>2, Enter
  <2>5. CASE GpioAccess
    <3>1. pc' = "poll2" /\ Pin(FALSE, TRUE)' /\ since' = 0
      BY <1>13, <2>1, <2>5, AccessTable DEF Polls
    <3>2. SecondPoll'
      BY <1>7, <2>2, <2>3, <3>1 DEF SecondPoll
    <3> QED BY <1>3, <2>3, <3>1, <3>2, Enter
  <2> QED BY <1>2, <1>13, <2>4, <2>5
<1>14. CASE pc = "poll2"
  <2>1. Pin(FALSE, TRUE) /\ SecondCopy
    BY <1>14 DEF Program, SecondPoll
  <2>2. ~c_rise /\ copier'.trigger_d = FALSE /\ (since > 0 => Trigger(FALSE, FALSE)')
    <3>1. CASE since = 0
      <4>1. Trigger(TRUE, TRUE) /\ ~(since > 0)
        BY <1>7, <1>14, <3>1 DEF Program, SecondPoll
      <4>2. Trigger(FALSE, TRUE)' /\ ~c_rise
        BY <2>1, <4>1, TriggerNext
      <4> QED BY <4>1, <4>2 DEF Trigger
    <3>2. CASE since > 0
      <4>1. Trigger(FALSE, copier.trigger_dd) /\ gpio.en = FALSE
        BY <1>14, <2>1, <3>2 DEF Program, SecondPoll, Trigger, Pin
      <4>2. copier'.trigger_d = FALSE /\ copier'.trigger_dd = FALSE /\ ~c_rise
        BY <4>1, Registers DEF ram_trigger, Trigger, c_rise
      <4> QED BY <4>2 DEF Trigger
    <3> QED BY <1>7, <3>1, <3>2
  <2>3. /\ SecondCopy' /\ MemShape' /\ Outside' /\ copier'.trigger_d = FALSE
        /\ copier.finished => copier'.finished
    BY <2>1, <2>2, SecondCopyNext, CopyKeeps
  <2>4. CASE GpioIdle
    <3>1. pc' = "poll2" /\ Pin(FALSE, TRUE)' /\ since' > 0 /\ since' # 0
      BY <1>4, <1>5, <1>7, <1>14, <2>1, <2>4
    <3>2. SecondPoll'
      BY <2>3, <3>1 DEF SecondPoll
    <3> QED BY <1>3, <2>3, <3>1, <3>2, Enter
  <2>5. CASE GpioAccess /\ ~copier.finished
    <3>1. pc' = "poll2" /\ Pin(FALSE, TRUE)' /\ since' = since /\ since > 0 /\ since # 0
      BY <1>6, <1>7, <1>14, <2>1, <2>5, AccessTable DEF Polls
    <3>2. SecondPoll'
      BY <2>3, <3>1 DEF SecondPoll
    <3> QED BY <1>3, <2>3, <3>1, <3>2, Enter
  <2>6. CASE GpioAccess /\ copier.finished
    <3>1. pc' = "compare" /\ Pin(FALSE, TRUE)' /\ since > 0
      BY <1>6, <1>7, <1>14, <2>1, <2>6, AccessTable DEF Polls
    <3>2. AfterSecond'
      BY <2>2, <2>3, <2>6, <3>1 DEF AfterSecond
    <3> QED BY <1>3, <2>3, <3>1, <3>2, Enter
  <2> QED BY <1>2, <1>14, <2>4, <2>5, <2>6
<1>15. CASE pc \in {"compare", "passed", "failed"}
  <2>1. Pin(FALSE, TRUE) /\ SecondCopy /\ copier.finished /\ Trigger(FALSE, FALSE)
    BY <1>15 DEF Program, AfterSecond
  <2>2. Trigger(FALSE, FALSE)' /\ ~c_rise
    BY <2>1, TriggerNext
  <2>3. SecondCopy' /\ copier'.finished /\ MemShape' /\ Outside'
    BY <2>1, <2>2, SecondCopyNext, CopyKeeps
  <2>4. pc' \in {"compare", "passed", "failed"} /\ gpio' = gpio
    BY <1>1, <1>15 DEF ProgramEdge, GpioAccess, GpioIdle, GpioSteps, Compare, Stopped
  <2>5. AfterSecond'
    BY <1>5, <2>1, <2>2, <2>3, <2>4 DEF AfterSecond
  <2> QED BY <1>3, <2>3, <2>4, <2>5, Enter
<1> QED BY <1>8, <1>9, <1>10, <1>11, <1>12, <1>13, <1>14, <1>15 DEF Program, HostActive

-----------------------------------------------------------------------------
(* The host's jobs, while ram2apb rests.                                    *)
LEMMA HostEdge ==
  ASSUME ChainStep, Good, HostActive, HostJob, phase = 0
  PROVE  /\ ChainHost /\ gpio' = gpio /\ since' = 0
         /\ ram' = IF host.sel /\ ~host.enable /\ pc # "read"
                   THEN [ram EXCEPT ![host.word] = JobData(host.word)] ELSE ram
         /\ qa' = IF host.sel /\ ~host.enable /\ pc = "read" THEN ram[host.word] ELSE qa
<1>1. ~copier.wren
  BY DEF HostJob, NoCopy, Off, Still
<1>2. /\ ChainHost /\ gpio' = gpio /\ since' = since
      /\ RamEdge(ChainPortA, ChainPortB)
  BY DEF ChainStep, ChainTick
<1>3. /\ ChainPortA.wren = (host.sel /\ ~host.enable /\ pc # "read")
      /\ ChainPortA.rden = (host.sel /\ ~host.enable /\ pc = "read")
      /\ ChainPortA.addr = host.word /\ ChainPortA.data = JobData(host.word)
  BY DEF ChainPortA
<1>4. ~ChainPortB.wren
  BY <1>1 DEF ChainPortB
<1> QED BY <1>2, <1>3, <1>4 DEF RamEdge, HostJob

LEMMA HostRests ==
  ASSUME ChainStep, Good, HostActive, HostJob
  PROVE  /\ NoCopy' /\ Trigger(FALSE, FALSE)' /\ Pin(FALSE, FALSE)' /\ since' = 0
         /\ ~port.busy /\ ~bridge.hsel
         /\ phase # 0 => mem' = mem
<1>1. Off /\ Trigger(FALSE, FALSE) /\ Pin(FALSE, FALSE)
  BY DEF HostJob, NoCopy
<1>2. ~port.busy /\ ~bridge.hsel
  BY <1>1 DEF Good, Resting, Cleared, NoTransfer, Off, Still
<1>3. ~c_rise
  BY <1>1 DEF Trigger, c_rise
<1>4. NoCopy'
  BY <1>1, <1>3, OffNext DEF HostJob, NoCopy
<1>5. Trigger(FALSE, FALSE)'
  BY <1>1, TriggerNext, BetweenBusEdges DEF Trigger
<1>6. Pin(FALSE, FALSE)' /\ since' = 0
  BY <1>1, HostEdge, BetweenBusEdges DEF Pin, HostJob
<1>7. phase # 0 => mem' = mem
  BY <1>2, MemoryStays
<1> QED BY <1>2, <1>4, <1>5, <1>6, <1>7

LEMMA HostGoesOn ==
  ASSUME HostActive', HostShape', Pin(FALSE, FALSE)', NoCopy', Trigger(FALSE, FALSE)',
         since' = 0,
         \/ pc' = "write" /\ Writing'
         \/ pc' = "read" /\ Reading'
         \/ pc' = "verify" /\ Verifying'
         \/ pc' = "tell" /\ Telling'
  PROVE  Program'
<1>1. HostJob'
  BY DEF HostJob
<1>2. BeforeFirst' /\ FirstPulse' /\ FirstPoll' /\ SecondPulse' /\ SecondPoll' /\ AfterSecond'
  BY DEF BeforeFirst, FirstPulse, FirstPoll, SecondPulse, SecondPoll, AfterSecond
<1>3. since' \in Nat
  OBVIOUS
<1> QED BY <1>1, <1>2, <1>3 DEF Program

LEMMA HostPause ==
  ASSUME ChainStep, Good, HostActive, HostJob, phase # 0
  PROVE  Program' /\ MemShape' /\ Outside'
<1>1. /\ pc' = pc /\ host' = host /\ ram' = ram /\ qa' = qa /\ mem' = mem
  BY BetweenBusEdges, HostRests
<1>2. MemShape' /\ Outside'
  BY <1>1 DEF Good, MemShape, Outside
<1>3. HostShape'
  BY <1>1 DEF HostJob, HostShape, JobWords
<1>4. \/ pc' = "write" /\ Writing'
      \/ pc' = "read" /\ Reading'
      \/ pc' = "verify" /\ Verifying'
      \/ pc' = "tell" /\ Telling'
  BY <1>1 DEF HostJob, HostActive, Writing, Reading, Verifying, Telling, DataIsFirst,
              DataIsNew, Filled
<1> QED BY <1>1, <1>2, <1>3, <1>4, HostRests, HostGoesOn DEF HostActive

\* what each step of the bus does to host and pc
LEMMA BusSteps ==
  ASSUME ChainHost, HostShape, pc \in {"write", "read", "tell"}
  PROVE  \/ /\ ~host.sel /\ pc' = pc /\ mem' = mem
            /\ host' = [sel |-> TRUE, enable |-> FALSE, word |-> host.word]
         \/ /\ host.sel /\ ~host.enable /\ pc' = pc /\ mem' = mem
            /\ host' = [sel |-> TRUE, enable |-> TRUE, word |-> host.word]
         \/ /\ host.sel /\ host.enable
            /\ mem' = CASE pc = "read" -> ReadBack(host.word, qa)
                        [] pc = "tell" -> [mem EXCEPT ![DataBuf] = ReadBuf]
                        [] OTHER -> mem
            /\ \/ /\ host.word + 1 \in JobWords /\ pc' = pc
                  /\ host' = [sel |-> FALSE, enable |-> FALSE, word |-> host.word + 1]
               \/ /\ host.word + 1 \notin JobWords /\ pc' = HostSteps[pc]
                  /\ host' = [sel |-> FALSE, enable |-> FALSE, word |-> 0]
<1>1. ~Verify
  BY DEF Verify
<1>2. host = [sel |-> host.sel, enable |-> host.enable, word |-> host.word]
  BY DEF HostShape
<1>3. CASE ~host.sel /\ host' = [host EXCEPT !.sel = TRUE] /\ UNCHANGED <<pc, mem>>
  <2>1. host.enable = FALSE
    BY <1>3 DEF HostShape
  <2>2. host' = [sel |-> TRUE, enable |-> host.enable, word |-> host.word]
    BY <1>2, <1>3
  <2> QED BY <1>3, <2>1, <2>2
<1>4. CASE /\ host.sel /\ ~host.enable /\ host' = [host EXCEPT !.enable = TRUE]
           /\ UNCHANGED <<pc, mem>>
  <2>1. host.sel = TRUE
    BY <1>4 DEF HostShape
  <2>2. host' = [sel |-> host.sel, enable |-> TRUE, word |-> host.word]
    BY <1>2, <1>4
  <2> QED BY <1>4, <2>1, <2>2
<1> QED BY <1>1, <1>3, <1>4 DEF ChainHost, JobEnds

LEMMA WriteNext ==
  ASSUME ChainStep, Good, HostActive, HostJob, phase = 0, pc = "write"
  PROVE  Program' /\ MemShape' /\ Outside'
<1>1. HostShape /\ Writing /\ JobWords = Index /\ HostSteps["write"] = "read"
  BY DEF HostJob, JobWords, HostSteps
<1>2. host.word \in Index /\ mem' = mem
  BY <1>1, HostEdge, BusSteps DEF HostShape
<1>3. ram' = [i \in Index |-> ram'[i]]
  BY HostEdge DEF Good, MemShape
<1>4. MemShape' /\ Outside' /\ DataIsFirst'
  BY <1>1, <1>2, <1>3, KeptMemory DEF Writing, DataIsFirst
<1>5. CASE ~host.sel /\ pc' = pc /\ host' = [sel |-> TRUE, enable |-> FALSE, word |-> host.word]
  <2>1. ram' = ram /\ ~host.enable
    BY <1>1, <1>5, HostEdge DEF HostShape
  <2>2. Writing' /\ HostShape'
    BY <1>1, <1>2, <1>4, <1>5, <2>1 DEF Writing, HostShape, Filled, JobWords
  <2> QED BY <1>4, <1>5, <2>2, HostRests, HostGoesOn DEF HostActive
<1>6. CASE /\ host.sel /\ ~host.enable /\ pc' = pc
           /\ host' = [sel |-> TRUE, enable |-> TRUE, word |-> host.word]
  <2>1. ram' = [ram EXCEPT ![host.word] = JobData(host.word)]
    BY <1>6, HostEdge
  <2>2. JobData(host.word) = Value(1, host.word)
    BY <1>1, <1>2 DEF JobData, Writing, DataIsFirst
  <2>3. /\ ram'[host.word] = Value(1, host.word)
        /\ \A i \in Index : i # host.word => ram'[i] = ram[i]
    BY <1>2, <2>1, <2>2 DEF Good, MemShape
  <2>4. \A i \in Index : i < host.word + 1 => ram'[i] = Value(1, i)
    <3>1. \A i \in Index : i < host.word + 1 => i < host.word \/ i = host.word
      BY <1>2, Sizes DEF Index
    <3> QED BY <1>1, <1>6, <2>3, <3>1 DEF Writing, Filled
  <2>5. Writing' /\ HostShape'
    BY <1>1, <1>2, <1>4, <1>6, <2>4 DEF Writing, HostShape, Filled, JobWords
  <2> QED BY <1>4, <1>6, <2>5, HostRests, HostGoesOn DEF HostActive
<1>7. CASE host.sel /\ host.enable
  <2>1. ram' = ram
    BY <1>7, HostEdge
  <2>2. \A i \in Index : i < host.word + 1 => ram'[i] = Value(1, i)
    BY <1>1, <1>7, <2>1 DEF Writing, Filled
  <2>3. CASE /\ host.word + 1 \in Index /\ pc' = pc
             /\ host' = [sel |-> FALSE, enable |-> FALSE, word |-> host.word + 1]
    <3>1. Writing' /\ HostShape'
      BY <1>4, <2>2, <2>3 DEF Writing, HostShape, Filled, JobWords
    <3> QED BY <1>4, <2>3, <3>1, HostRests, HostGoesOn DEF HostActive
  <2>4. CASE /\ host.word + 1 \notin Index /\ pc' = "read"
             /\ host' = [sel |-> FALSE, enable |-> FALSE, word |-> 0]
    <3>1. \A i \in Index : i < host.word + 1
      BY <1>2, <2>4, Sizes DEF Index
    <3>2. \A i \in Index : ~(i < 0) /\ (i < Words => ram'[i] = Value(1, i))
      BY <2>2, <3>1, Sizes DEF Index
    <3>3. Reading'
      BY <1>4, <2>4, <3>2 DEF Reading, Filled
    <3>4. HostShape'
      BY <2>4, Sizes DEF HostShape, JobWords
    <3> QED BY <1>4, <2>4, <3>3, <3>4, HostRests, HostGoesOn DEF HostActive
  <2> QED BY <1>1, <1>7, <2>3, <2>4, HostEdge, BusSteps
<1> QED BY <1>1, <1>5, <1>6, <1>7, HostEdge, BusSteps

LEMMA ReadNext ==
  ASSUME ChainStep, Good, HostActive, HostJob, phase = 0, pc = "read"
  PROVE  Program' /\ MemShape' /\ Outside'
<1>1. HostShape /\ Reading /\ JobWords = Index /\ HostSteps["read"] = "verify"
  BY DEF HostJob, JobWords, HostSteps
<1>2. host.word \in Index /\ ram' = ram
  BY <1>1, HostEdge DEF HostShape
<1>3. \A i \in Index : ram'[i] = Value(1, i)
  BY <1>1, <1>2, Sizes DEF Reading, Filled
<1>4. CASE ~host.sel /\ pc' = pc /\ host' = [sel |-> TRUE, enable |-> FALSE, word |-> host.word]
           /\ mem' = mem
  <2>1. MemShape' /\ Outside' /\ DataIsFirst'
    BY <1>1, <1>2, <1>4 DEF Good, MemShape, Outside, Reading, DataIsFirst
  <2>2. Reading' /\ HostShape'
    BY <1>1, <1>2, <1>3, <1>4, <2>1 DEF Reading, HostShape, Filled, JobWords
  <2> QED BY <1>4, <2>1, <2>2, HostRests, HostGoesOn DEF HostActive
<1>5. CASE /\ host.sel /\ ~host.enable /\ pc' = pc /\ mem' = mem
           /\ host' = [sel |-> TRUE, enable |-> TRUE, word |-> host.word]
  <2>1. MemShape' /\ Outside' /\ DataIsFirst'
    BY <1>1, <1>2, <1>5 DEF Good, MemShape, Outside, Reading, DataIsFirst
  <2>2. qa' = ram[host.word]
    BY <1>5, HostEdge
  <2>3. Reading' /\ HostShape'
    BY <1>1, <1>2, <1>3, <1>5, <2>1, <2>2 DEF Reading, HostShape, Filled, JobWords
  <2> QED BY <1>5, <2>1, <2>3, HostRests, HostGoesOn DEF HostActive
<1>6. CASE host.sel /\ host.enable /\ mem' = ReadBack(host.word, qa)
  <2>1. qa = Value(1, host.word)
    BY <1>1, <1>2, <1>3, <1>6 DEF Reading
  <2>2. ReadBuf + host.word \in Address
    BY <1>2, Sizes
  <2>3. mem' = [mem EXCEPT ![ReadBuf + host.word] = qa]
    BY <1>6 DEF ReadBack
  <2>4. /\ mem' = [a \in Address |-> mem'[a]] /\ mem'[ReadBuf + host.word] = qa
        /\ \A a \in Address : a # ReadBuf + host.word => mem'[a] = mem[a]
    BY <2>2, <2>3, Updated DEF Good, MemShape
  <2>5. /\ host.word \in Nat /\ host.word < Words /\ Words \in Nat
        /\ DataBuf = Words /\ ReadBuf = 2 * Words
    BY <1>2, Sizes
  <2>6. Outside'
    <3>1. \A a \in Address : a < DataBuf \/ a >= ReadBuf + Words => a # ReadBuf + host.word
      BY <2>5
    <3> QED BY <2>4, <3>1 DEF Outside, Good
  <2>7. DataIsFirst'
    <3>1. \A i \in Index : DataBuf + i \in Address /\ i \in Nat /\ i < Words
      BY Sizes
    <3>2. \A i \in Index : DataBuf + i # ReadBuf + host.word
      BY <2>5, <3>1
    <3> QED BY <1>1, <2>4, <3>1, <3>2 DEF DataIsFirst, Reading
  <2>8. \A i \in Index : i < host.word + 1 => mem'[ReadBuf + i] = Value(1, i)
    <3>1. \A i \in Index : ReadBuf + i \in Address /\ i \in Nat
      BY Sizes
    <3>2. \A i \in Index : i < host.word => ReadBuf + i # ReadBuf + host.word
      BY <2>5, <3>1
    <3>3. \A i \in Index : i < host.word + 1 => i < host.word \/ i = host.word
      BY <2>5, <3>1
    <3> QED BY <1>1, <2>1, <2>4, <3>1, <3>2, <3>3 DEF Reading
  <2>9. MemShape'
    BY <1>2, <2>4 DEF Good, MemShape
  <2>10. CASE /\ host.word + 1 \in Index /\ pc' = pc
              /\ host' = [sel |-> FALSE, enable |-> FALSE, word |-> host.word + 1]
    <3>1. Reading' /\ HostShape'
      BY <1>3, <2>7, <2>8, <2>10 DEF Reading, HostShape, Filled, JobWords
    <3> QED BY <2>6, <2>9, <2>10, <3>1, HostRests, HostGoesOn DEF HostActive
  <2>11. CASE /\ host.word + 1 \notin Index /\ pc' = "verify"
              /\ host' = [sel |-> FALSE, enable |-> FALSE, word |-> 0]
    <3>1. \A i \in Index : i < host.word + 1
      BY <1>2, <2>11, Sizes DEF Index
    <3>2. Verifying'
      BY <2>7, <2>8, <2>11, <3>1 DEF Verifying
    <3>3. HostShape'
      BY <2>11, Sizes DEF HostShape, JobWords
    <3> QED BY <2>6, <2>9, <2>11, <3>2, <3>3, HostRests, HostGoesOn DEF HostActive
  <2> QED BY <1>1, <1>6, <2>10, <2>11, HostEdge, BusSteps
<1> QED BY <1>1, <1>4, <1>5, <1>6, HostEdge, BusSteps

LEMMA VerifyNext ==
  ASSUME ChainStep, Good, HostActive, HostJob, phase = 0, pc = "verify"
  PROVE  Program' /\ MemShape' /\ Outside'
<1>1. Verifying /\ HostShape
  BY DEF HostJob
<1>2. Verify /\ host' = host /\ ram' = ram
  BY <1>1, HostEdge DEF ChainHost, Verifying
<1>3. Block(ReadBuf) = Block(DataBuf)
  BY <1>1 DEF Block, Verifying, DataIsFirst
<1>4. /\ pc' = "tell"
      /\ mem' = [a \in Address |-> IF a >= DataBuf /\ a < ReadBuf
                                   THEN Value(2, a - DataBuf) ELSE mem[a]]
  BY <1>2, <1>3 DEF Verify
<1>5. Words \in Nat \ {0} /\ DataBuf = Words /\ ReadBuf = 2 * Words
  BY Sizes
<1>6. DataIsNew'
  <2> SUFFICES ASSUME NEW i \in Index PROVE mem'[DataBuf + i] = Value(2, i)
    BY DEF DataIsNew
  <2>1. i \in Nat /\ i < Words /\ DataBuf + i \in Address
    BY Sizes
  <2>2. DataBuf + i >= DataBuf /\ DataBuf + i < ReadBuf /\ (DataBuf + i) - DataBuf = i
    BY <1>5, <2>1
  <2> QED BY <1>4, <2>1, <2>2
<1>7. Outside'
  <2> SUFFICES ASSUME NEW a \in Address, a < DataBuf \/ a >= ReadBuf + Words
               PROVE  mem'[a] = Unset
    BY DEF Outside
  <2>1. a \in Nat
    BY Sizes
  <2>2. ~(a >= DataBuf /\ a < ReadBuf)
    BY <1>5, <2>1
  <2> QED BY <1>4, <2>2 DEF Good, Outside
<1>8. MemShape'
  BY <1>2, <1>4 DEF Good, MemShape
<1>9. HostShape' /\ Telling'
  BY <1>1, <1>2, <1>4, <1>6 DEF HostShape, Verifying, Telling, JobWords
<1> QED BY <1>4, <1>7, <1>8, <1>9, HostRests, HostGoesOn DEF HostActive

LEMMA TellNext ==
  ASSUME ChainStep, Good, HostActive, HostJob, phase = 0, pc = "tell"
  PROVE  Program' /\ MemShape' /\ Outside'
<1>1. HostShape /\ Telling /\ JobWords = {0} /\ HostSteps["tell"] = "out1"
  BY DEF HostJob, JobWords, HostSteps
<1>2. host.word = 0 /\ host.word + 1 \notin JobWords /\ 0 \in Index
  BY <1>1, Sizes DEF HostShape
<1>3. ram' = [i \in Index |-> ram'[i]]
  BY HostEdge DEF Good, MemShape
<1>4. CASE ~host.sel /\ pc' = pc /\ host' = [sel |-> TRUE, enable |-> FALSE, word |-> host.word]
           /\ mem' = mem
  <2>1. MemShape' /\ Outside' /\ DataIsNew'
    BY <1>1, <1>3, <1>4, KeptMemory DEF Telling, DataIsNew
  <2>2. Telling' /\ HostShape'
    BY <1>2, <1>4, <2>1 DEF Telling, HostShape, JobWords
  <2> QED BY <1>4, <2>1, <2>2, HostRests, HostGoesOn DEF HostActive
<1>5. CASE /\ host.sel /\ ~host.enable /\ pc' = pc /\ mem' = mem
           /\ host' = [sel |-> TRUE, enable |-> TRUE, word |-> host.word]
  <2>1. MemShape' /\ Outside' /\ DataIsNew'
    BY <1>1, <1>3, <1>5, KeptMemory DEF Telling, DataIsNew
  <2>2. ram' = [ram EXCEPT ![0] = DataBuf]
    BY <1>2, <1>5, HostEdge DEF JobData
  <2>3. ram'[0] = DataBuf
    BY <1>2, <2>2 DEF Good, MemShape
  <2>4. Telling' /\ HostShape'
    BY <1>2, <1>5, <2>1, <2>3 DEF Telling, HostShape, JobWords
  <2> QED BY <1>5, <2>1, <2>4, HostRests, HostGoesOn DEF HostActive
<1>6. CASE /\ host.sel /\ host.enable /\ mem' = [mem EXCEPT ![DataBuf] = ReadBuf]
           /\ pc' = "out1"
  <2>1. ram' = ram /\ ram[0] = DataBuf
    BY <1>1, <1>6, HostEdge DEF Telling
  <2>2. Words \in Nat \ {0} /\ DataBuf = Words /\ ReadBuf = 2 * Words /\ DataBuf \in Address
    BY Sizes
  <2>3. /\ mem' = [a \in Address |-> mem'[a]] /\ mem'[DataBuf] = ReadBuf
        /\ \A a \in Address : a # DataBuf => mem'[a] = mem[a]
    BY <1>6, <2>2, Updated DEF Good, MemShape
  <2>4. Outside'
    <3>1. \A a \in Address : a < DataBuf \/ a >= ReadBuf + Words => a # DataBuf
      BY <2>2
    <3> QED BY <2>3, <3>1 DEF Good, Outside
  <2>5. DataIsSecond'
    <3> SUFFICES ASSUME NEW i \in Index PROVE mem'[DataBuf + i] = Expected[i]
      BY DEF DataIsSecond
    <3>1. i \in Nat /\ DataBuf + i \in Address
      BY Sizes
    <3>2. CASE i = 0
      BY <2>2, <2>3, <3>2, ExpectedWord
    <3>3. CASE i # 0
      <4>1. DataBuf + i # DataBuf
        BY <2>2, <3>1, <3>3
      <4> QED BY <1>1, <2>3, <3>1, <3>3, <4>1, ExpectedWord DEF Telling, DataIsNew
    <3> QED BY <3>2, <3>3
  <2>6. MemShape'
    BY <2>1, <2>3 DEF Good, MemShape
  <2>7. Trigger(FALSE, FALSE)' /\ Pin(FALSE, FALSE)' /\ NoCopy' /\ since' = 0
    BY HostRests
  <2>8. Told'
    BY <2>1, <2>5, <2>7 DEF Told
  <2>9. since' \in Nat
    BY <2>7
  <2> QED BY <1>6, <2>4, <2>6, <2>7, <2>8, <2>9, Enter
<1> QED BY <1>1, <1>2, <1>4, <1>5, <1>6, HostEdge, BusSteps

LEMMA JobsNext ==
  ASSUME ChainStep, Good, HostActive, HostJob
  PROVE  Program' /\ MemShape' /\ Outside'
BY HostPause, WriteNext, ReadNext, VerifyNext, TellNext DEF HostActive

-----------------------------------------------------------------------------
LEMMA DataInit == Init => DataInv
<1> SUFFICES ASSUME Init, Chain PROVE DataInv
  BY DEF DataInv
<1>1. InitTest /\ InitChain /\ pc = "write" /\ faulty = FALSE /\ since = 0
  BY DEF Init, Chain, InitTest
<1>2. Words \in Nat \ {0} /\ DataBuf = Words /\ ReadBuf = 2 * Words
  BY Sizes
<1>3. mem = [a \in Address |-> IF a - DataBuf \in Index /\ a >= DataBuf
                              THEN Value(1, a - DataBuf) ELSE Unset]
  BY <1>1 DEF InitTest
<1>4. MemShape
  BY <1>1, <1>3 DEF InitTest, MemShape
<1>5. Outside
  <2> SUFFICES ASSUME NEW a \in Address, a < DataBuf \/ a >= ReadBuf + Words
               PROVE  mem[a] = Unset
    BY DEF Outside
  <2>1. a \in Nat
    BY Sizes
  <2>2. ~(a - DataBuf \in Index /\ a >= DataBuf)
    <3>1. \A i \in Index : i < Words
      BY Sizes
    <3> QED BY <1>2, <2>1, <3>1
  <2> QED BY <1>3, <2>2
<1>6. DataIsFirst
  <2> SUFFICES ASSUME NEW i \in Index PROVE mem[DataBuf + i] = Value(1, i)
    BY DEF DataIsFirst
  <2>1. i \in Nat /\ DataBuf + i \in Address
    BY Sizes
  <2>2. (DataBuf + i) - DataBuf = i /\ DataBuf + i >= DataBuf
    BY <1>2, <2>1
  <2> QED BY <1>3, <2>1, <2>2
<1>7. HostShape /\ host.enable = FALSE /\ host.word = 0
  BY <1>1, Sizes DEF InitChain, HostShape, JobWords
<1>8. Writing
  <2>1. \A i \in Index : ~(i < 0)
    BY Sizes DEF Index
  <2> QED BY <1>6, <1>7, <2>1 DEF Writing, Filled
<1>9. NoCopy /\ Trigger(FALSE, FALSE) /\ Pin(FALSE, FALSE)
  BY <1>1 DEF InitTest, InitChain, NoCopy, Off, Still, Trigger, Pin
<1>10. Program
  BY <1>1, <1>7, <1>8, <1>9
  DEF Program, HostJob, HostActive, BeforeFirst, FirstPulse, FirstPoll, SecondPulse,
      SecondPoll, AfterSecond
<1>11. ~port.resp /\ copier.data_phase = c_access
  BY <1>1 DEF InitTest, InitChain, IdlePort, c_access
<1> QED BY <1>1, <1>4, <1>5, <1>10, <1>11 DEF DataInv

(* An error answer is remembered, and none comes while the host works.       *)
LEMMA FaultyNext ==
  ASSUME ChainStep
  PROVE  ~faulty' => ~faulty /\ ~port'.resp
BY DEF ChainStep, ChainTick, ChainPort, PortEdge

LEMMA HostIsFaultless ==
  ASSUME ChainStep, ~torn, IInv, DataInv, Chain, HostActive'
  PROVE  ~faulty'
<1>1. HostActive
  BY DEF ChainStep, ChainTick, HostActive, ProgramEdge, GpioAccess, GpioIdle, Compare, Stopped,
         GpioSteps
<1>2. ~faulty /\ HostJob /\ Shapes /\ Resting /\ copier.psel = FALSE
  BY <1>1 DEF DataInv, Program, IInv, Shapes, HostJob, NoCopy, Off, Still, CopierRules
<1>3. ~bridge.hsel /\ ~port.busy
  BY <1>2 DEF Resting, Cleared, NoTransfer
<1>4. ~port'.resp
  BY <1>2, <1>3, PortRests DEF Shapes, NoTransfer
<1> QED BY <1>2, <1>4 DEF ChainStep, ChainTick, ChainPort, PortEdge

LEMMA DataKept == IInv /\ DataInv /\ [Next]_vars => DataInv'
<1> SUFFICES ASSUME IInv, DataInv, [Next]_vars, Chain', ~torn' PROVE DataInv'
  BY DEF DataInv
<1>1. CASE UNCHANGED vars
  <2> USE <1>1 DEF vars
  <2>1. Chain /\ ~torn /\ c_access' = c_access /\ (HostActive' <=> HostActive)
    BY DEF Chain, c_access, HostActive
  <2>2. /\ MemShape => MemShape'
        /\ Outside => Outside'
    BY DEF MemShape, Outside
  <2>3. /\ Told => Told'
        /\ HostJob => HostJob'
    BY DEF Told, NoCopy, Off, Still, DataIsSecond, HostJob, HostShape, JobWords, Pin, Trigger,
           Writing, Reading, Verifying, Telling, DataIsFirst, DataIsNew, Filled
  <2>4. FirstCopy => FirstCopy'
    BY DEF FirstCopy, DataIsSecond, FirstDone, Off, Still, Begun, Fetched, InSetup, c_access,
           FirstSetup, FirstAccess, FirstTail, Tail1, InRam, ReadData
  <2>5. SecondCopy => SecondCopy'
    BY DEF SecondCopy, DataIsSecond, Off, Still, Begun, Fetched, InSetup, c_access,
           SecondWord, Tail1, InReadBuf, WriteData
  <2>6. Between => Between'
    BY <2>4 DEF Between
  <2>7. Program => Program'
    BY <2>1, <2>3, <2>4, <2>5, <2>6
    DEF Program, BeforeFirst, FirstPulse, FirstPoll, SecondPulse, SecondPoll, AfterSecond,
        Pin, Trigger
  <2> QED BY <2>1, <2>2, <2>7 DEF DataInv
<1>2. CASE WholeTick
  <2>1. Chain /\ ChainStep /\ ~torn
    BY <1>2 DEF WholeTick, Tick, Chain, ChainStep
  <2>2. HostActive' => ~faulty'
    BY <2>1, HostIsFaultless
  <2>3. ASSUME ~faulty'
        PROVE  /\ MemShape' /\ Outside' /\ Program' /\ ~port'.resp
               /\ copier'.data_phase = c_access'
    <3>1. ~faulty /\ ~port'.resp
      BY <2>1, <2>3, FaultyNext
    <3>2. Good /\ Program
      BY <2>1, <3>1 DEF IInv, DataInv, Good, Shapes
    <3>3. copier'.data_phase = c_access'
      BY <2>1, <3>2, DataPhaseNext
    <3>4. CASE HostActive
      BY <2>1, <3>1, <3>2, <3>3, <3>4, JobsNext DEF Program
    <3>5. CASE ~HostActive /\ phase = 0
      BY <2>1, <3>1, <3>2, <3>3, <3>5, ProgramNext
    <3>6. CASE ~HostActive /\ phase # 0
      BY <2>1, <3>1, <3>2, <3>3, <3>6, PauseNext
    <3> QED BY <3>4, <3>5, <3>6
  <2> QED BY <2>2, <2>3 DEF DataInv
<1> QED BY <1>1, <1>2 DEF Next

LEMMA DataMeans == DataInv => (Chain => CopyIsComplete)
<1> SUFFICES ASSUME DataInv, Chain, ~torn PROVE CopyIsComplete
  BY DEF CopyIsComplete
<1>1. ~faulty => \A a \in Address : a < DataBuf \/ a >= ReadBuf + Words => mem[a] = Unset
  BY DEF DataInv, Outside
<1>2. DataIsSecond => Block(DataBuf) = Expected
  <2>1. Expected = [i \in Index |-> Expected[i]]
    BY DEF Expected
  <2> QED BY <2>1 DEF DataIsSecond, Block
<1>3. InReadBuf(Words) => Block(ReadBuf) = Expected
  <2>1. Expected = [i \in Index |-> Expected[i]] /\ \A i \in Index : i < Words
    BY Sizes DEF Expected
  <2> QED BY <2>1 DEF InReadBuf, Block
<1>4. ASSUME Between \/ SecondCopy
      PROVE  ram = Expected /\ DataIsSecond
  BY <1>4 DEF Between, FirstCopy, FirstDone, SecondCopy
<1>5. ASSUME pc \in {"out2", "high2", "in2", "poll2", "compare"}, ~faulty
      PROVE  Between \/ SecondCopy
  <2>1. Program
    BY <1>5 DEF DataInv
  <2>2. since = 0 \/ since = 1 \/ since > 1
    BY <2>1 DEF Program
  <2>3. CASE pc \in {"out2", "high2", "in2"}
    BY <2>1, <2>2, <2>3 DEF Program, SecondPulse
  <2>4. CASE pc \in {"poll2", "compare"}
    BY <2>1, <2>4 DEF Program, SecondPoll, AfterSecond
  <2> QED BY <1>5, <2>3, <2>4
<1>6. ASSUME pc = "compare", ~faulty PROVE InReadBuf(Words)
  <2>1. SecondCopy /\ copier.finished
    BY <1>6 DEF DataInv, Program, AfterSecond
  <2> QED BY <2>1 DEF SecondCopy
<1>7. ASSUME pc = "verify" PROVE Block(ReadBuf) = Block(DataBuf)
  <2>1. Verifying
    BY <1>7 DEF DataInv, Program, HostActive, HostJob
  <2> QED BY <2>1 DEF Verifying, DataIsFirst, Block
<1> QED BY <1>1, <1>2, <1>3, <1>4, <1>5, <1>6, <1>7 DEF CopyIsComplete

(* A view is torn only over slow paths to BUSCLK.                            *)
TornIsLate == torn => "toBus" \in slow

LEMMA TornKept == TornIsLate /\ [Next]_vars => TornIsLate'
<1> SUFFICES ASSUME TornIsLate, [Next]_vars PROVE TornIsLate'
  OBVIOUS
<1>1. CASE UNCHANGED vars
  BY <1>1 DEF vars, TornIsLate
<1>2. CASE WholeTick /\ BridgeTick
  BY <1>2 DEF WholeTick, Tick, BridgeTick, TornIsLate
<1>3. CASE WholeTick /\ ChainTick
  <2>1. slow' = slow /\ ~torn
    BY <1>3 DEF WholeTick, Tick
  <2>2. CASE "toBus" \in slow
    BY <2>1, <2>2 DEF TornIsLate
  <2>3. CASE "toBus" \notin slow
    <3>1. AhbLatched = {AhbView}
      BY <2>3 DEF AhbLatched
    <3>2. Latches \subseteq Whole
      BY <3>1 DEF Latches, Whole, Ends
    <3>3. ~torn'
      BY <1>3, <2>1, <3>2 DEF ChainTick, BridgeEdge
    <3> QED BY <3>3 DEF TornIsLate
  <2> QED BY <2>2, <2>3
<1> QED BY <1>1, <1>2, <1>3 DEF Next, WholeTick, Tick

\* In ahb_slave, as long as the slave port answers no transfer with an error and no view
\* of SYSCLK is torn, which happens only over slow paths to BUSCLK: when the
\* program has seen the first finish signal, the RAM holds data_buf; when it has seen the
\* second, read_buf holds it; no word around the two buffers is ever touched; and what
\* the program has read back over port A is what it wrote.
THEOREM ChainCopies == Spec => []((Chain => CopyIsComplete) /\ TornIsLate)
<1>1. Init => IInv /\ DataInv /\ TornIsLate
  BY InitHolds, DataInit DEF Init, InitTest, TornIsLate
<1>2. IInv /\ DataInv /\ TornIsLate /\ [Next]_vars => IInv' /\ DataInv' /\ TornIsLate'
  BY StepKeeps, DataKept, TornKept
<1>3. DataInv => (Chain => CopyIsComplete)
  BY DataMeans
<1> QED BY <1>1, <1>2, <1>3, PTL DEF Spec

-----------------------------------------------------------------------------
(* ram2ahb.v in custom_ip: the bursts of the two copies.                     *)

Custom == design = "custom_ip"
Phases == [trans : {"idle", "nonseq", "seq"}, write : BOOLEAN, word : 0 .. Words]

(* The types: an address can come from any word the program can write.       *)
HostTypes ==
  /\ host \in [ap : Phases, dp : Phases]
  /\ active => host.ap.word \in Index
StoreTypes ==
  /\ mem \in [Address -> Nat] /\ ram \in [Index -> Nat] /\ qa \in Nat /\ qb \in Nat
SlaveTypes == bridge.haddr \in Index /\ bridge.ram_qd \in Nat /\ bridge.hrdata \in Nat
MasterTypes ==
  /\ copier.run \in BOOLEAN /\ copier.finished \in BOOLEAN /\ copier.write \in BOOLEAN
  /\ copier.hwrite \in BOOLEAN /\ copier.data_phase \in BOOLEAN
  /\ copier.addr \in Index /\ copier.haddr \in Nat
  /\ copier.hwdata \in Nat /\ copier.ram_qd \in Nat /\ copier.hrdata \in Nat
PortTypes == PortShape /\ port.rdata \in Nat

(* ram2ahb drives an address phase only while it runs, in the direction of    *)
(* the copy, and only the first of a burst is at the start of a block.       *)
Driving ==
  /\ copier.run => ~copier.finished
  /\ m_active => /\ copier.run /\ copier.addr_valid /\ copier.hsel
                 /\ copier.hwrite = copier.write
  /\ m_active /\ copier.data_phase => ~burst_end
PortFollows == copier.data_phase = port.busy /\ (~port.busy => port.ready)

BurstInv ==
  Custom => /\ HostTypes /\ StoreTypes /\ SlaveTypes /\ MasterTypes /\ PortTypes
            /\ Driving /\ PortFollows

LEMMA BurstInit == Init => BurstInv
<1> SUFFICES ASSUME Init, Custom PROVE BurstInv
  BY DEF BurstInv
<1>1. InitTest /\ InitBridge
  BY DEF Init, Custom
<1>2. HostTypes
  BY <1>1, Sizes DEF InitBridge, HostTypes, Phases, NoPhase, active
<1>3. StoreTypes
  <2>1. \A a \in Address : a >= DataBuf => Value(1, a - DataBuf) \in Nat
    BY Sizes DEF Value
  <2>2. mem \in [Address -> Nat]
    BY <1>1, <2>1 DEF InitTest, Unset
  <2> QED BY <1>1, <2>2 DEF InitTest, StoreTypes, Unset
<1>4. SlaveTypes /\ MasterTypes
  BY <1>1, Sizes DEF InitBridge, SlaveTypes, MasterTypes
<1>5. PortTypes
  BY <1>1 DEF InitTest, IdlePort, PortTypes, PortShape, Unset
<1>6. Driving /\ PortFollows
  BY <1>1 DEF InitBridge, InitTest, IdlePort, Driving, PortFollows, m_active
<1> QED BY <1>2, <1>3, <1>4, <1>5, <1>6 DEF BurstInv

(* What a word at the slave port is. *)
LEMMA WordsAreNumbers ==
  ASSUME StoreTypes, NEW a
  PROVE  At(a) \in Nat
BY DEF StoreTypes, At, Unset

LEMMA AnswerNumbers ==
  ASSUME StoreTypes, NEW addr, NEW write, NEW ready, NEW resp, NEW rdata \in Nat, NEW waits,
         NEW q \in Answer([busy |-> TRUE, addr |-> addr, write |-> write, ready |-> ready,
                           resp |-> resp, rdata |-> rdata, waits |-> waits])
  PROVE  q.rdata \in Nat
<1>1. At(addr) \in Nat /\ Unset \in Nat
  BY WordsAreNumbers DEF Unset
<1> QED BY <1>1 DEF Answer

(* The port takes the address phase that is driven, or goes on, or rests. *)
LEMMA PortNext ==
  ASSUME BridgeTick, StoreTypes, PortTypes, PortFollows, m_active => copier.hsel
  PROVE  /\ PortTypes'
         /\ port'.busy = (m_active \/ (port.busy /\ ~port.ready))
         /\ ~port'.busy => port'.ready
<1> DEFINE accept == copier.hsel /\ m_active /\ port.ready
<1>1. PICK addr, write : PortEdge(accept, addr, write)
  BY DEF BridgeTick
<1>2. accept <=> m_active /\ port.ready
  OBVIOUS
<1> HIDE DEF accept
<1>3. CASE accept
  <2>1. PICK p : /\ p = [IdlePort EXCEPT !.busy = TRUE, !.addr = addr,
                                        !.write = write, !.ready = FALSE]
                 /\ port' \in Answer(p)
    BY <1>1, <1>3 DEF PortEdge
  <2>2. p = [busy |-> TRUE, addr |-> addr, write |-> write, ready |-> FALSE,
             resp |-> FALSE, rdata |-> Unset, waits |-> 0]
    BY <2>1 DEF IdlePort
  <2>3. port' \in Answer([busy |-> TRUE, addr |-> addr, write |-> write, ready |-> FALSE,
                          resp |-> FALSE, rdata |-> Unset, waits |-> 0])
    BY <2>1, <2>2
  <2>4. /\ port' = [busy |-> port'.busy, addr |-> port'.addr, write |-> port'.write,
                    ready |-> port'.ready, resp |-> port'.resp, rdata |-> port'.rdata,
                    waits |-> port'.waits]
        /\ port'.busy = TRUE /\ port'.ready \in BOOLEAN /\ port'.resp \in BOOLEAN
    BY <2>3, AnswerIsOfTransfer
  <2>5. port'.rdata \in Nat
    <3>1. Unset \in Nat
      BY DEF Unset
    <3> QED BY <2>3, <3>1, AnswerNumbers
  <2> QED BY <1>2, <1>3, <2>4, <2>5 DEF PortTypes, PortShape
<1>4. CASE ~accept /\ port.busy /\ ~port.ready
  <2>1. port' \in IF port.resp THEN {[port EXCEPT !.ready = TRUE]} ELSE Answer(port)
    BY <1>1, <1>4 DEF PortEdge
  <2>2. CASE port.resp
    BY <1>4, <2>1, <2>2 DEF PortTypes, PortShape
  <2>3. CASE ~port.resp
    <3>1. port' \in Answer([busy |-> TRUE, addr |-> port.addr, write |-> port.write,
                            ready |-> FALSE, resp |-> FALSE,
                            rdata |-> port.rdata, waits |-> port.waits])
      BY <1>4, <2>1, <2>3 DEF PortTypes, PortShape
    <3>2. /\ port' = [busy |-> port'.busy, addr |-> port'.addr, write |-> port'.write,
                      ready |-> port'.ready, resp |-> port'.resp, rdata |-> port'.rdata,
                      waits |-> port'.waits]
          /\ port'.busy = TRUE /\ port'.ready \in BOOLEAN /\ port'.resp \in BOOLEAN
      BY <3>1, AnswerIsOfTransfer
    <3>3. port'.rdata \in Nat
      BY <3>1, AnswerNumbers DEF PortTypes
    <3> QED BY <1>4, <3>2, <3>3 DEF PortTypes, PortShape
  <2> QED BY <2>2, <2>3
<1>5. CASE ~accept /\ ~(port.busy /\ ~port.ready)
  <2>1. port' = IdlePort
    BY <1>1, <1>5 DEF PortEdge
  <2>2. ~m_active
    BY <1>2, <1>5 DEF PortFollows, PortTypes, PortShape
  <2> QED BY <1>5, <2>1, <2>2 DEF IdlePort, PortTypes, PortShape, Unset
<1> QED BY <1>3, <1>4, <1>5

(* The next word is in the same block unless this is the last of it. *)
LEMMA BlockGoesOn ==
  ASSUME NEW a \in Nat, a % Burst # Burst - 1
  PROVE  (a + 1) % Burst # 0
<1> DEFINE n == a + 1
           q == a \div Burst
           r == a % Burst
           nq == n \div Burst
<1>1. Burst \in Nat \ {0}
  BY RamAssumption
<1>2. q \in Nat /\ r \in 0 .. Burst - 1 /\ a = Burst * q + r
  BY <1>1
<1>3. SUFFICES ASSUME n % Burst = 0 PROVE FALSE
  OBVIOUS
<1>4. n \in Nat /\ nq \in Nat /\ n = Burst * nq /\ n = a + 1
  BY <1>1, <1>3
<1>5. r # Burst - 1
  OBVIOUS
<1> HIDE DEF n, q, r, nq
<1>6. CASE nq <= q
  <2>1. PICK c \in Nat : q = nq + c
    <3>1. q - nq \in Nat /\ q = nq + (q - nq)
      BY <1>2, <1>4, <1>6
    <3> QED BY <3>1
  <2>2. Burst * q = Burst * nq + Burst * c /\ Burst * c \in Nat /\ Burst * nq \in Nat
    BY <1>1, <1>4, <2>1
  <2> QED BY <1>1, <1>2, <1>4, <2>2
<1>7. CASE ~(nq <= q)
  <2>1. PICK c \in Nat : nq = q + 1 + c
    <3>1. nq - (q + 1) \in Nat /\ nq = q + 1 + (nq - (q + 1))
      BY <1>2, <1>4, <1>7
    <3> QED BY <3>1
  <2>2. /\ Burst * nq = Burst * q + Burst + Burst * c
        /\ Burst * c \in Nat /\ Burst * q \in Nat
    BY <1>1, <1>2, <2>1
  <2> QED BY <1>1, <1>2, <1>4, <1>5, <2>2
<1> QED BY <1>6, <1>7

(* The registers of ram2ahb, one by one. *)
LEMMA MasterStep ==
  ASSUME BridgeTick
  PROVE  /\ copier'.finished =
              (~m_rise /\ (copier.finished \/ (copier.hsel /\ ~copier.run /\ port.ready)))
         /\ copier'.write = (copier.write # (copier.finished /\ m_rise))
         /\ copier'.run = (m_rise \/ (copier.run /\ ~m_stop))
         /\ copier'.addr_valid = copier.run
         /\ copier'.data_phase = (m_active \/ (copier.data_phase /\ ~port.ready))
         /\ copier'.hsel = (m_driving \/ (copier.hsel /\ ~copier.finished))
         /\ copier'.htrans = m_htrans /\ copier'.haddr = m_haddr /\ copier'.addr = m_addr
         /\ copier'.hwrite = (IF m_driving THEN copier.write ELSE copier.hwrite)
         /\ copier'.hwdata = m_hwdata
         /\ copier'.ram_qd = (IF m_rden THEN qb ELSE copier.ram_qd)
         /\ copier'.hrdata = IF ~copier.write /\ copier.data_phase /\ port.ready
                             THEN port.rdata ELSE copier.hrdata
<1>1. MasterEdge
  BY DEF BridgeTick
<1> QED BY <1>1 DEF MasterEdge

(* A phase that goes on stays with its block and its direction. *)
LEMMA DrivingNext ==
  ASSUME BridgeTick, MasterTypes, PortTypes, Driving, PortFollows, qb \in Nat
  PROVE  Driving' /\ copier'.haddr \in Nat
<1>1. /\ port.ready \in BOOLEAN /\ port.busy \in BOOLEAN /\ (~port.ready => copier.data_phase)
  BY DEF PortTypes, PortShape, PortFollows
<1>2. copier'.haddr \in Nat
  BY MasterStep DEF m_haddr, MasterTypes
<1>3. copier'.run => ~copier'.finished
  BY MasterStep DEF Driving, MasterTypes
<1>4. ASSUME m_active' PROVE m_driving
  BY <1>4, MasterStep DEF m_active, m_htrans
<1>5. m_active' => /\ copier'.run /\ copier'.addr_valid /\ copier'.hsel
                   /\ copier'.hwrite = copier'.write
  <2>1. SUFFICES ASSUME m_driving
                 PROVE  /\ copier'.run /\ copier'.addr_valid /\ copier'.hsel
                        /\ copier'.hwrite = copier'.write
    BY <1>4
  <2>2. copier.run /\ ~m_stop /\ copier.addr_valid /\ ~copier.finished
    BY <2>1 DEF m_driving, Driving
  <2> QED BY <2>1, <2>2, MasterStep DEF MasterTypes
<1>6. ASSUME m_active', copier'.data_phase PROVE ~burst_end'
  <2>1. m_driving /\ copier.run /\ copier.addr_valid
    BY <1>4, <1>6 DEF m_driving
  <2>2. CASE ~port.ready
    <3>1. copier'.haddr = copier.haddr /\ copier'.htrans = copier.htrans
      BY <2>1, <2>2, MasterStep DEF m_haddr, m_htrans
    <3> QED BY <1>1, <1>6, <2>2, <3>1 DEF Driving, m_active, burst_end
  <2>3. CASE port.ready
    <3>1. m_active
      BY <1>6, <2>3, MasterStep
    <3>2. copier.haddr % Burst # Burst - 1
      BY <1>6, <2>1, <2>3, <3>1, MasterStep DEF m_htrans, m_active
    <3>3. copier'.haddr = copier.haddr + 1
      BY <2>1, <2>3, <3>1, MasterStep DEF m_haddr, Driving
    <3> QED BY <3>2, <3>3, BlockGoesOn DEF burst_end, MasterTypes
  <2> QED BY <1>1, <2>2, <2>3
<1> QED BY <1>2, <1>3, <1>5, <1>6 DEF Driving

(* The rules, step by step. *)
LEMMA BurstStep ==
  ASSUME BridgeTick, MasterTypes, PortTypes, Driving, PortFollows, m_active
  PROVE  IF ~port.ready
         THEN copier'.haddr = copier.haddr /\ copier'.htrans = copier.htrans
         ELSE copier'.htrans = "seq" =>
                /\ copier'.haddr = copier.haddr + 1 /\ copier'.haddr % Burst # 0
                /\ copier'.hwrite = copier.hwrite
<1>1. /\ port.ready \in BOOLEAN /\ port.busy \in BOOLEAN /\ (~port.ready => copier.data_phase)
  BY DEF PortTypes, PortShape, PortFollows
<1>2. copier.run /\ copier.addr_valid /\ copier.hsel /\ copier.hwrite = copier.write
  BY DEF Driving
<1>3. CASE ~port.ready
  <2>1. ~m_stop
    BY <1>1, <1>3 DEF Driving, m_stop
  <2> QED BY <1>2, <1>3, <2>1, MasterStep DEF m_driving, m_haddr, m_htrans
<1>4. CASE port.ready
  <2>1. SUFFICES ASSUME copier'.htrans = "seq"
                 PROVE  /\ copier'.haddr = copier.haddr + 1 /\ copier'.haddr % Burst # 0
                        /\ copier'.hwrite = copier.hwrite
    BY <1>4
  <2>2. m_driving /\ copier.haddr % Burst # Burst - 1
    BY <1>4, <2>1, MasterStep DEF m_htrans
  <2>3. copier'.haddr = copier.haddr + 1 /\ copier'.hwrite = copier.hwrite
    BY <1>2, <1>4, <2>2, MasterStep DEF m_haddr
  <2> QED BY <2>2, <2>3, BlockGoesOn DEF MasterTypes
<1> QED BY <1>1, <1>3, <1>4

(* The RAM and the memory hold numbers, whatever the two bridges do. *)
LEMMA RamNumbers ==
  ASSUME StoreTypes, NEW a, NEW b, RamEdge(a, b),
         a.addr \in Index, a.data \in Nat, b.addr \in Index, b.data \in Nat
  PROVE  ram' \in [Index -> Nat] /\ qa' \in Nat /\ qb' \in Nat
BY DEF StoreTypes, RamEdge

LEMMA StoreNext ==
  ASSUME BridgeTick, HostTypes, StoreTypes, SlaveTypes, MasterTypes
  PROVE  StoreTypes'
<1>1. JobData(host.dp.word) \in Nat
  <2>1. host.dp.word \in 0 .. Words
    BY DEF HostTypes, Phases
  <2>2. DataBuf \in Nat /\ DataBuf + host.dp.word \in Address
    BY <2>1, RamAssumption DEF DataBuf, Address
  <2> QED BY <2>2 DEF JobData, StoreTypes
<1>2. ram' \in [Index -> Nat] /\ qa' \in Nat /\ qb' \in Nat
  <2> DEFINE a == BridgePortA
             b == BridgePortB
  <2>1. a.addr \in Index /\ a.data \in Nat
    BY <1>1 DEF BridgePortA, SlaveTypes
  <2>2. b.addr \in Index /\ b.data \in Nat
    BY DEF BridgePortB, MasterTypes
  <2>3. RamEdge(a, b)
    BY DEF BridgeTick
  <2> HIDE DEF a, b
  <2> QED BY <2>1, <2>2, <2>3, RamNumbers
<1>3. mem' \in [Address -> Nat]
  <2>1. CASE mem' = Stored(copier.hwdata)
    BY <2>1 DEF Stored, StoreTypes, MasterTypes
  <2>2. CASE BridgeHost
    <3>1. CASE Verify
      <4>1. \A a \in Address : a >= DataBuf => Value(2, a - DataBuf) \in Nat
        BY Sizes DEF Value
      <4> QED BY <3>1, <4>1 DEF Verify, StoreTypes
    <3>2. CASE ~Verify
      <4>1. mem' \in {mem, ReadBack(host.dp.word, bridge.hrdata),
                      [mem EXCEPT ![DataBuf] = ReadBuf]}
        BY <2>2, <3>2 DEF BridgeHost
      <4>2. ReadBuf \in Nat
        BY Sizes
      <4> QED BY <4>1, <4>2 DEF ReadBack, StoreTypes, SlaveTypes
    <3> QED BY <3>1, <3>2
  <2> QED BY <2>1, <2>2 DEF BridgeTick
<1> QED BY <1>2, <1>3 DEF StoreTypes

(* The master at port A asks for words of its job only. *)
LEMMA HostNextTypes ==
  ASSUME HostTypes, NEW a \in HostNext
  PROVE  a \in Phases /\ (a.trans # "idle" => a.word \in Index)
<1> DEFINE word == IF host.ap.trans = "idle" THEN host.ap.word ELSE host.ap.word + 1
<1>1. JobWords \subseteq Index /\ Index \subseteq 0 .. Words
  BY Sizes DEF JobWords, Index
<1>2. word \in 0 .. Words
  BY Sizes DEF HostTypes, Phases, active, Index
<1>3. \/ a = [trans |-> IF host.ap.trans = "idle" THEN "nonseq" ELSE "seq",
              write |-> pc # "read", word |-> word] /\ word \in JobWords
      \/ a = [host.ap EXCEPT !.trans = "idle", !.word = word]
  BY DEF HostNext
<1> HIDE DEF word
<1>4. host.ap \in Phases
  BY DEF HostTypes
<1>5. CASE a = [trans |-> IF host.ap.trans = "idle" THEN "nonseq" ELSE "seq",
               write |-> pc # "read", word |-> word] /\ word \in JobWords
  <2>1. (pc # "read") \in BOOLEAN
    OBVIOUS
  <2> QED BY <1>1, <1>2, <1>5, <2>1 DEF Phases
<1>6. CASE a = [host.ap EXCEPT !.trans = "idle", !.word = word]
  BY <1>2, <1>4, <1>6 DEF Phases
<1> QED BY <1>3, <1>5, <1>6

LEMMA HostTypesNext ==
  ASSUME BridgeTick, HostTypes
  PROVE  HostTypes'
<1>1. CASE UNCHANGED host
  BY <1>1 DEF HostTypes, active
<1>2. CASE host' = [ap |-> [host.ap EXCEPT !.word = 0], dp |-> NoPhase]
  <2>1. NoPhase \in Phases /\ 0 \in Index /\ 0 \in 0 .. Words
    BY Sizes DEF NoPhase, Phases
  <2>2. host.ap \in Phases
    BY DEF HostTypes
  <2>3. [host.ap EXCEPT !.word = 0] \in Phases /\ [host.ap EXCEPT !.word = 0].word = 0
    BY <2>1, <2>2 DEF Phases
  <2> QED BY <1>2, <2>1, <2>3 DEF HostTypes, active
<1>3. CASE \E a \in HostNext : host' = [ap |-> a, dp |-> host.ap]
  BY <1>3, HostNextTypes DEF HostTypes, Phases, active
<1> QED BY <1>1, <1>2, <1>3 DEF BridgeTick, BridgeHost

LEMMA RegistersNext ==
  ASSUME BridgeTick, HostTypes, StoreTypes, SlaveTypes, MasterTypes, PortTypes
  PROVE  /\ SlaveTypes'
         /\ copier'.run \in BOOLEAN /\ copier'.finished \in BOOLEAN
         /\ copier'.write \in BOOLEAN /\ copier'.hwrite \in BOOLEAN
         /\ copier'.data_phase \in BOOLEAN /\ copier'.addr \in Index
         /\ copier'.hwdata \in Nat /\ copier'.ram_qd \in Nat /\ copier'.hrdata \in Nat
<1>1. SlaveTypes'
  <2>1. Haddr \in Index
    <3>1. (bridge.haddr + 1) % Words \in Index
      BY NextWord, Sizes DEF SlaveTypes, Index
    <3> QED BY <3>1 DEF Haddr, HostTypes, SlaveTypes
  <2>2. SlaveEdge
    BY DEF BridgeTick
  <2> QED BY <2>1, <2>2 DEF SlaveEdge, SlaveTypes, StoreTypes
<1>2. copier'.addr \in Index
  <2>1. copier.addr # Words - 1 => copier.addr + 1 \in Index
    BY Sizes DEF MasterTypes, Index
  <2> QED BY <2>1, Sizes, MasterStep DEF m_addr, m_ram_end, MasterTypes
<1>3. /\ copier'.hwdata \in Nat /\ copier'.ram_qd \in Nat /\ copier'.hrdata \in Nat
  BY MasterStep DEF m_hwdata, MasterTypes, StoreTypes, PortTypes
<1>4. /\ copier'.run \in BOOLEAN /\ copier'.finished \in BOOLEAN
      /\ copier'.write \in BOOLEAN /\ copier'.hwrite \in BOOLEAN
      /\ copier'.data_phase \in BOOLEAN
  BY MasterStep DEF MasterTypes
<1> QED BY <1>1, <1>2, <1>3, <1>4

LEMMA BurstKept == BurstInv /\ [Next]_vars => BurstInv'
<1> SUFFICES ASSUME BurstInv, [Next]_vars, Custom' PROVE BurstInv'
  BY DEF BurstInv
<1>1. CASE UNCHANGED vars
  BY <1>1
  DEF BurstInv, vars, Custom, HostTypes, StoreTypes, SlaveTypes, MasterTypes, PortTypes,
      PortShape, Driving, PortFollows, active, m_active, burst_end
<1>2. CASE WholeTick
  <2>1. Custom /\ BridgeTick
    BY <1>2 DEF WholeTick, Tick, Custom
  <2>2. /\ HostTypes /\ StoreTypes /\ SlaveTypes /\ MasterTypes /\ PortTypes
        /\ Driving /\ PortFollows
    BY <2>1 DEF BurstInv
  <2>3. HostTypes' /\ StoreTypes' /\ SlaveTypes'
    BY <2>1, <2>2, HostTypesNext, StoreNext, RegistersNext
  <2>4. Driving' /\ copier'.haddr \in Nat
    BY <2>1, <2>2, DrivingNext DEF StoreTypes
  <2>5. MasterTypes'
    BY <2>1, <2>2, <2>4, RegistersNext DEF MasterTypes
  <2>6. PortTypes' /\ PortFollows'
    BY <2>1, <2>2, PortNext, MasterStep DEF Driving, PortFollows, MasterTypes, PortTypes,
       PortShape
  <2> QED BY <2>3, <2>4, <2>5, <2>6 DEF BurstInv
<1> QED BY <1>1, <1>2 DEF Next

\* In custom_ip, for any number of words, any length of burst that divides it, any wait
\* states and errors, whatever the words copied: ram2ahb goes on with a burst only at
\* the next word of the same block and in the same direction, leaves an address phase
\* the port has not taken as it is, and ends a burst at the end of a block.
THEOREM BurstsKeepTheRules == Spec => BurstRules
<1>1. Init => BurstInv
  BY BurstInit
<1>2. BurstInv /\ [Next]_vars => BurstInv'
  BY BurstKept
<1> DEFINE Rule ==
      design = "custom_ip" /\ m_active =>
        IF ~port.ready
        THEN copier'.haddr = copier.haddr /\ copier'.htrans = copier.htrans
        ELSE copier'.htrans = "seq" =>
               /\ copier'.haddr = copier.haddr + 1 /\ copier'.haddr % Burst # 0
               /\ copier'.hwrite = copier.hwrite
<1>3. BurstInv /\ [Next]_vars => [Rule]_vars
  <2>1. SUFFICES ASSUME BurstInv, WholeTick, Custom, m_active PROVE Rule
    BY DEF Custom, Next
  <2>2. BridgeTick
    BY <2>1 DEF WholeTick, Tick, Custom
  <2> QED BY <2>1, <2>2, BurstStep DEF BurstInv
<1> QED BY <1>1, <1>2, <1>3, PTL DEF Spec, BurstRules
=============================================================================
