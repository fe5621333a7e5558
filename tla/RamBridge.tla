----------------------------- MODULE RamBridge -----------------------------
(***************************************************************************)
(* examples/custom_ip/logic: port A of the RAM behind ahb2ram.v, an AHB      *)
(* slave with wait states on reads and a read prefetch, and port B in        *)
(* ram2ahb.v, an AHB master that copies a block in bursts.  All registers    *)
(* are on SYSCLK (top.ve: one clock).  copier holds the registers of         *)
(* ram2ahb, bridge those of ahb2ram.                                         *)
(***************************************************************************)
EXTENDS RamTest

NoPhase == [trans |-> "idle", write |-> FALSE, word |-> 0]

InitBridge ==
  /\ host = [ap |-> NoPhase, dp |-> NoPhase]
  /\ copier = [trigger_d |-> FALSE, finished |-> FALSE, write |-> FALSE, run |-> FALSE,
               addr_valid |-> FALSE, data_phase |-> FALSE, wren |-> FALSE, addr |-> 0,
               hsel |-> FALSE, htrans |-> "idle", hwrite |-> FALSE, haddr |-> 0,
               hwdata |-> 0, hrdata |-> 0, ram_qd |-> 0]
  /\ bridge = [wren |-> FALSE, haddr |-> 0, rd_en |-> <<FALSE, FALSE, FALSE>>,
               ram_qd |-> 0, hrdata |-> 0, hreadyout |-> TRUE]

-----------------------------------------------------------------------------
(* The bus master at port A (external): the words of a job in order, in      *)
(* bursts that may end early, with an idle address phase after each burst    *)
(* that keeps the direction of the burst.                                    *)
HostNext ==
  LET ap == host.ap
      word == IF ap.trans = "idle" THEN ap.word ELSE ap.word + 1
  IN  (IF word \in JobWords /\ (ap.trans = "idle" \/ word % Burst # 0)
       THEN {[trans |-> IF ap.trans = "idle" THEN "nonseq" ELSE "seq",
              write |-> pc # "read", word |-> word]}
       ELSE {}) \cup {[ap EXCEPT !.trans = "idle", !.word = word]}

\* the last data phase of the job ends
HostLast == host.ap.trans = "idle" /\ host.ap.word \notin JobWords

BridgeHost ==
  \/ /\ pc # "verify"
     /\ IF ~bridge.hreadyout THEN UNCHANGED <<host, mem, pc>>
        ELSE /\ mem' = IF host.dp.trans = "idle" THEN mem
                       ELSE CASE pc = "read" -> ReadBack(host.dp.word, bridge.hrdata)
                              [] pc = "tell" -> [mem EXCEPT ![DataBuf] = ReadBuf]
                              [] OTHER -> mem
             /\ IF HostLast
                THEN /\ host' = [ap |-> [host.ap EXCEPT !.word = 0], dp |-> NoPhase]
                     /\ JobEnds
                ELSE /\ host' \in {[ap |-> a, dp |-> host.ap] : a \in HostNext}
                     /\ pc' = pc
  \/ Verify /\ UNCHANGED host

-----------------------------------------------------------------------------
(* ahb2ram.                                                                  *)
active == host.ap.trans # "idle"
rd_en == ~host.ap.write /\ (active \/ ~bridge.hreadyout)

\* haddr_reg: the address of a write or of the first word of a read burst, then
\* one word on in each cycle of the burst
Haddr ==
  IF bridge.hreadyout /\ active /\ (host.ap.write \/ host.ap.trans = "nonseq")
  THEN host.ap.word
  ELSE IF host.ap.trans = "seq" /\ ~host.ap.write /\ bridge.rd_en[1]
  THEN (bridge.haddr + 1) % Words ELSE bridge.haddr

\* the registers of ahb2ram
SlaveEdge ==
  bridge' = [wren |-> active /\ host.ap.write,
             haddr |-> Haddr,
             rd_en |-> <<rd_en, bridge.rd_en[1], bridge.rd_en[2]>>,
             ram_qd |-> IF bridge.rd_en[2] THEN qa ELSE bridge.ram_qd,
             hrdata |-> IF bridge.rd_en[3] THEN bridge.ram_qd ELSE bridge.hrdata,
             hreadyout |-> IF rd_en /\ ~bridge.rd_en[1] THEN FALSE
                           ELSE bridge.hreadyout \/ (bridge.rd_en[3] /\ bridge.rd_en[2])]

BridgePortA ==
  [wren |-> bridge.wren, rden |-> bridge.rd_en[1], addr |-> bridge.haddr,
   data |-> JobData(host.dp.word)]

-----------------------------------------------------------------------------
(* ram2ahb.                                                                  *)
m_rise == ~copier.trigger_d /\ ram_trigger
m_active == copier.htrans # "idle"
burst_end == copier.haddr % Burst = 0
m_ram_end == copier.addr = Words - 1
m_stop == copier.hsel /\ copier.data_phase /\ burst_end /\ m_ram_end
m_rden == /\ copier.run /\ (m_active \/ ~copier.hsel) /\ port.ready
          /\ (copier.write \/ ~copier.addr_valid)

m_driving == copier.run /\ copier.addr_valid /\ ~m_stop

\* the burst does not pause where the next one begins
m_htrans_NoPause ==
  IF ~m_driving THEN "idle"
  ELSE IF ~port.ready THEN copier.htrans
  ELSE IF m_active THEN "seq" ELSE "nonseq"
\* htrans: a burst, then one idle cycle
m_htrans ==
  IF ~m_driving THEN "idle"
  ELSE IF ~port.ready THEN copier.htrans
  ELSE IF ~m_active THEN "nonseq"
  ELSE IF copier.haddr % Burst = Burst - 1 THEN "idle" ELSE "seq"

m_haddr ==
  IF copier.run /\ port.ready /\ copier.addr_valid
  THEN IF ~copier.hsel THEN qb
       ELSE IF m_active THEN copier.haddr + 1 ELSE copier.haddr
  ELSE copier.haddr

m_addr ==
  IF ~copier.run /\ ~copier.data_phase THEN 0
  ELSE IF ~m_ram_end /\ IF copier.write THEN m_rden ELSE copier.wren
       THEN copier.addr + 1 ELSE copier.addr

\* write data leaves one register too early
m_hwdata_OneStage == IF m_rden THEN qb ELSE copier.hwdata
m_hwdata == IF m_rden THEN copier.ram_qd ELSE copier.hwdata

\* the registers of ram2ahb
MasterEdge ==
  copier' = [trigger_d |-> ram_trigger,
    finished |-> ~m_rise /\ (copier.finished \/ (copier.hsel /\ ~copier.run /\ port.ready)),
    write |-> copier.write # (copier.finished /\ m_rise),
    run |-> m_rise \/ (copier.run /\ ~m_stop),
    addr_valid |-> copier.run,
    data_phase |-> m_active \/ (copier.data_phase /\ ~port.ready),
    wren |-> ~copier.write /\ copier.data_phase /\ port.ready,
    addr |-> m_addr,
    hsel |-> m_driving \/ (copier.hsel /\ ~copier.finished),
    htrans |-> m_htrans,
    hwrite |-> IF m_driving THEN copier.write ELSE copier.hwrite,
    haddr |-> m_haddr,
    hwdata |-> m_hwdata,
    ram_qd |-> IF m_rden THEN qb ELSE copier.ram_qd,
    hrdata |-> IF ~copier.write /\ copier.data_phase /\ port.ready
               THEN port.rdata ELSE copier.hrdata]

BridgePortB == [wren |-> copier.wren, rden |-> m_rden, addr |-> copier.addr, data |-> copier.hrdata]

-----------------------------------------------------------------------------
BridgeTick ==
  /\ SlaveEdge /\ MasterEdge
  /\ RamEdge(BridgePortA, BridgePortB)
  /\ PortEdge(copier.hsel /\ m_active /\ port.ready, copier.haddr, copier.hwrite)
  /\ IF HostActive THEN BridgeHost /\ UNCHANGED <<gpio, since>>
     ELSE ProgramEdge /\ UNCHANGED host /\ mem' = Stored(copier.hwdata)
  /\ UNCHANGED <<phase, busWas, ahbSeen, torn, served>>

\* ram2ahb keeps to the rules of AHB bursts: a burst goes on with the next word
\* of the same aligned block in the same direction, only an address phase the
\* port has taken is followed by another, and the last word of a block is
\* followed by an idle phase.
BurstRules ==
  [][design = "custom_ip" /\ m_active =>
      IF ~port.ready
      THEN copier'.haddr = copier.haddr /\ copier'.htrans = copier.htrans
      ELSE copier'.htrans = "seq" =>
             /\ copier'.haddr = copier.haddr + 1 /\ copier'.haddr % Burst # 0
             /\ copier'.hwrite = copier.hwrite]_vars
=============================================================================
