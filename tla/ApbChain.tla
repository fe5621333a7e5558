------------------------------ MODULE ApbChain ------------------------------
(***************************************************************************)
(* examples/ahb_slave/logic: port A of the RAM behind apb2ram.v, port B in  *)
(* ram2apb.v, which copies a block over APB, and apb2ahb.v, which turns each *)
(* APB access, clocked by BUSCLK, into one AHB transfer, clocked by SYSCLK   *)
(* (twice as fast, top.ve).                                                 *)
(*                                                                         *)
(* copier holds the registers of ram2apb, bridge those of apb2ahb: pready,   *)
(* pslverr and prdata on BUSCLK, the others on SYSCLK.  As in Ahb2Apb, a     *)
(* register fed over a slow path may latch what its source showed before:    *)
(* one of SYSCLK one edge of SYSCLK ago, one of BUSCLK one edge of BUSCLK.   *)
(***************************************************************************)
EXTENDS RamTest

ChainRatio == 2

InitChain ==
  /\ host = [sel |-> FALSE, enable |-> FALSE, word |-> 0]
  /\ copier = [trigger_d |-> FALSE, trigger_dd |-> FALSE, finished |-> FALSE,
               write |-> FALSE, run |-> FALSE, addr_valid |-> FALSE,
               data_phase |-> FALSE, wren |-> FALSE, addr |-> 0, psel |-> FALSE,
               penable |-> FALSE, pwrite |-> FALSE, paddr |-> 0, prdata |-> 0]
  /\ bridge = [pready |-> TRUE, pslverr |-> FALSE, prdata |-> 0, hvalid |-> FALSE,
               herror |-> FALSE, hsel |-> FALSE, hrdata |-> 0, pending |-> FALSE,
               pending_d |-> FALSE, data_pending |-> FALSE]

-----------------------------------------------------------------------------
(* Port A.  The accesses arrive over ahb2apb (module Ahb2Apb), one word in   *)
(* each, with an idle cycle between; the RAM is accessed in the setup phase. *)
ChainPortA ==
  LET setup == host.sel /\ ~host.enable
  IN  [wren |-> setup /\ pc # "read", rden |-> setup /\ pc = "read",
       addr |-> host.word, data |-> JobData(host.word)]

ChainHost ==
  \/ /\ ~host.sel /\ pc # "verify"
     /\ host' = [host EXCEPT !.sel = TRUE]
     /\ UNCHANGED <<pc, mem>>
  \/ /\ host.sel /\ ~host.enable
     /\ host' = [host EXCEPT !.enable = TRUE]
     /\ UNCHANGED <<pc, mem>>
  \/ /\ host.sel /\ host.enable
     /\ mem' = CASE pc = "read" -> ReadBack(host.word, qa)
                 [] pc = "tell" -> [mem EXCEPT ![DataBuf] = ReadBuf]
                 [] OTHER -> mem
     /\ IF host.word + 1 \in JobWords
        THEN host' = [sel |-> FALSE, enable |-> FALSE, word |-> host.word + 1] /\ pc' = pc
        ELSE host' = [sel |-> FALSE, enable |-> FALSE, word |-> 0] /\ JobEnds
  \/ Verify /\ UNCHANGED host

-----------------------------------------------------------------------------
(* ram2apb, all on BUSCLK.                                                  *)
c_rise == ~copier.trigger_dd /\ copier.trigger_d
c_ram_end == copier.addr_valid /\ copier.addr = IF copier.write THEN 0 ELSE Words - 1
c_access == copier.psel /\ copier.penable
c_stop == c_ram_end /\ c_access /\ bridge.pready
c_rden == /\ copier.run /\ (copier.penable \/ ~copier.addr_valid)
          /\ bridge.pready /\ (copier.write \/ ~copier.addr_valid)

\* psel, penable and pwrite: set up an access after each other while it runs
c_driving == copier.run /\ copier.addr_valid /\ ~c_stop
c_penable == /\ c_driving
             /\ IF copier.psel /\ ~copier.penable THEN TRUE
                ELSE copier.penable /\ ~bridge.pready

\* the address: word 0 of the RAM, then one word on after each access
c_paddr ==
  IF copier.run /\ bridge.pready /\ copier.addr_valid /\ copier.psel = copier.penable
  THEN IF copier.psel THEN copier.paddr + 1 ELSE qb
  ELSE IF ~copier.run /\ ~copier.addr_valid THEN 0 ELSE copier.paddr

c_addr ==
  IF ~copier.run /\ ~copier.data_phase THEN 0
  ELSE IF ~c_ram_end /\ IF copier.write THEN c_rden ELSE copier.wren
       THEN (copier.addr + 1) % Words ELSE copier.addr

\* finished of the first copy is still there when the second is triggered
c_finished_Stays == copier.finished \/ (~copier.run /\ copier.addr_valid /\ bridge.pready)
c_finished ==
  /\ ~c_rise
  /\ copier.finished \/ (~copier.run /\ copier.addr_valid /\ bridge.pready)

\* the registers of ram2apb
CopierEdge ==
  copier' = [trigger_d |-> ram_trigger, trigger_dd |-> copier.trigger_d,
    finished |-> c_finished,
    write |-> copier.write # (copier.finished /\ c_rise),
    run |-> c_rise \/ (copier.run /\ ~c_stop),
    addr_valid |-> copier.run,
    data_phase |-> (copier.psel /\ ~copier.penable) \/ (copier.data_phase /\ ~bridge.pready),
    wren |-> ~copier.write /\ c_access /\ bridge.pready,
    addr |-> c_addr,
    psel |-> c_driving, penable |-> c_penable, pwrite |-> c_driving /\ copier.write,
    paddr |-> c_paddr,
    prdata |-> IF ~copier.write /\ copier.data_phase /\ bridge.pready
               THEN bridge.prdata ELSE copier.prdata]

ChainPortB == [wren |-> copier.wren, rden |-> c_rden, addr |-> copier.addr, data |-> copier.prdata]

-----------------------------------------------------------------------------
(* apb2ahb.  What the SYSCLK side latches from the BUSCLK side:             *)
BusView == [psel |-> copier.psel, penable |-> copier.penable, paddr |-> copier.paddr,
            pwrite |-> copier.pwrite, pwdata |-> qb,
            pready |-> bridge.pready, pslverr |-> bridge.pslverr]
BusLatched == IF "toSys" \in slow THEN {BusView, busWas} ELSE {BusView}

\* What the BUSCLK side latches from the SYSCLK side: over a slow path each register
\* may be late by itself, by up to one cycle of BUSCLK.
AhbView == [pending |-> bridge.pending, pending_d |-> bridge.pending_d,
            data_pending |-> bridge.data_pending,
            hrdata |-> bridge.hrdata, herror |-> bridge.herror]
AhbLatched == IF "toBus" \in slow THEN ahbSeen ELSE {AhbView}

\* without data_pending, the access ends before its transfer begins
b_done_NoDataPending(p, q, d) == c_access /\ ~p.pending /\ ~q.pending_d
\* the AHB transfer an access asked for is done, one SYSCLK cycle ago
b_done(p, q, d) == c_access /\ ~p.pending /\ ~q.pending_d /\ d.data_pending

\* the registers on BUSCLK
ApbSide(done, load, hrdata, error) ==
  [pready |-> ~(copier.psel /\ ~copier.penable) /\ (bridge.pready \/ done),
   prdata |-> IF load THEN hrdata ELSE bridge.prdata,
   pslverr |-> error]

\* what they latch when every register of SYSCLK is seen at the same moment, and
\* when each of the three reads each of the others at a moment of its own
Whole == {ApbSide(b_done(v, v, v), b_done(v, v, v), v.hrdata,
                  b_done(v, v, v) /\ v.herror) : v \in AhbLatched}
Ends == {b_done(p, q, d) : p, q, d \in AhbLatched}
Latches == {ApbSide(done, load, v.hrdata, fault /\ e.herror) :
              done, load, fault \in Ends, v, e \in AhbLatched}

\* the registers on SYSCLK, from what they latch of the access, of pready and
\* of pslverr; b is the bridge with its registers on BUSCLK
AhbSide(b, access, pready, pslverr) ==
  [b EXCEPT !.hvalid = /\ ~bridge.hvalid
                       /\ access.psel /\ ~access.penable /\ ~bridge.data_pending,
            !.herror = ~pslverr /\ (@ \/ port.resp),
            !.hsel = ~@ /\ bridge.hvalid /\ ~bridge.data_pending,
            !.hrdata = IF bridge.pending THEN port.rdata ELSE @,
            !.pending = (bridge.hsel /\ port.ready) \/ (@ /\ ~port.ready),
            !.pending_d = bridge.pending,
            !.data_pending = \/ bridge.hsel /\ port.ready
                             \/ @ /\ ~(port.ready /\ pready)]

BridgeEdge ==
  \E access, p, e \in BusLatched, apb \in IF phase = 0 THEN Latches ELSE {bridge} :
    /\ bridge' = AhbSide([bridge EXCEPT !.pready = apb.pready, !.prdata = apb.prdata,
                                        !.pslverr = apb.pslverr],
                         access, p.pready, e.pslverr)
    /\ torn' = (torn \/ (phase = 0 /\ apb \notin Whole))

\* ahb_hready is tied high: the port takes the transfer whenever hsel is high
ChainPort ==
  \E v \in BusLatched : PortEdge(bridge.hsel, v.paddr, v.pwrite)

\* the transfers the port has ended since the set-up of the access
ChainHistory ==
  served' = IF copier.psel /\ ~copier.penable /\ phase = 0 THEN <<>>
            ELSE IF port.busy /\ port.ready /\ Len(served) < 2
            THEN Append(served, [addr |-> port.addr, write |-> port.write, err |-> port.resp,
                                 data |-> IF port.write THEN qb ELSE port.rdata])
            ELSE served

-----------------------------------------------------------------------------
ChainTick ==
  /\ BridgeEdge /\ ChainPort /\ ChainHistory
  /\ IF phase = 0
     THEN /\ CopierEdge
          /\ RamEdge(IF HostActive THEN ChainPortA ELSE NoAccess, ChainPortB)
          /\ IF HostActive THEN ChainHost /\ UNCHANGED <<gpio, since>>
             ELSE /\ ProgramEdge /\ UNCHANGED host
                  /\ \E v \in BusLatched : mem' = Stored(v.pwdata)
     ELSE /\ UNCHANGED <<copier, ram, qa, qb, host, pc, gpio, since>>
          /\ \E v \in BusLatched : mem' = Stored(v.pwdata)
  /\ phase' = (phase + 1) % ChainRatio
  /\ busWas' = BusView
  /\ ahbSeen' = (IF phase = 0 THEN {AhbView} ELSE ahbSeen) \cup {AhbView'}

\* An access of ram2apb that ends has caused exactly one AHB transfer, with its
\* address, direction and write data; the data and the error it reports are those
\* of that transfer, not of an earlier one.  (This is so until the BUSCLK side, over
\* slow paths, latches registers of SYSCLK that it sees at different moments: with
\* ahb_pending still low and data_pending already high an access ends early.)
AccessIsOneTransfer ==
  ~torn /\ design = "ahb_slave" /\ c_access /\ bridge.pready =>
    /\ Len(served) = 1
    /\ served[1].addr = copier.paddr /\ served[1].write = copier.pwrite
    /\ bridge.pslverr = served[1].err
    /\ served[1].data = IF copier.pwrite THEN qb ELSE bridge.prdata
=============================================================================
