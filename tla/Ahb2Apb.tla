------------------------------- MODULE Ahb2Apb -------------------------------
(***************************************************************************)
(* examples/ahb_slave/logic/ahb2apb.v (and its copy under examples/analog): *)
(* the bridge that turns the pipelined AHB transfers of the processor,      *)
(* clocked by SYSCLK, into APB accesses clocked by BUSCLK.                  *)
(*                                                                         *)
(* A Tick is one edge of SYSCLK; every ratio-th of them is also an edge of  *)
(* BUSCLK.  All registers are assigned from the values before the edge, as  *)
(* non-blocking assignments are.  When the two clocks differ, top.sdc gives *)
(* every path between them one cycle of the latching clock more (multicycle *)
(* 2): a register fed over a path that uses this margin may latch any value *)
(* its source had since the previous edge of the latching clock.  Which     *)
(* directions have such slow paths is a fact of the build, in slow.  The    *)
(* master (processor or DMA) and the APB slave are external.                *)
(***************************************************************************)
EXTENDS Naturals, Sequences

CONSTANTS
  Transfers,   \* the transfers the AHB master may ask for: records of
               \* word, low (haddr[1:0]), size (hsize), write, data (hwdata)
  NoTransfer,  \* the bus is idle
  Ratios,      \* cycles of SYSCLK in one of BUSCLK
  Margins,     \* the directions, "toBus" and "toSys", a build may be slow in
  Errors,      \* what the APB slave may answer on pslverr
  MaxWait      \* APB wait states the slave may insert

ASSUME ConstantsAssumption ==
  /\ NoTransfer \notin Transfers
  /\ Ratios \subseteq Nat \ {0}
  /\ Margins \subseteq SUBSET {"toBus", "toSys"}
  /\ Errors \subseteq BOOLEAN
  /\ MaxWait \in Nat

VARIABLES
  ratio, slow, \* the clock ratio and the slow directions of this build
  phase,       \* 0 when the next Tick is an edge of BUSCLK too
  aph, dph,    \* the master: transfer in address phase, in data phase
  sys,         \* SYSCLK registers: hreadyout, haddr/hwrite/hsize, hdone, hresp
  bus,         \* BUSCLK registers: apbState, paddr/pwrite/pstrb, pvalid, pdone, prdata
  slave,       \* the APB slave: its answer to the access in progress
  sysSeen,     \* what the SYSCLK side showed since before the last BUSCLK edge
  busWas,      \* what the BUSCLK side showed before the last SYSCLK edge
  served,      \* history: APB accesses ended since the last AHB transfer ended
  again        \* history: BUSCLK took an old hreadyout for a transfer to perform

vars == <<ratio, slow, phase, aph, dph, sys, bus, slave, sysSeen, busWas, served, again>>

MaxServed == 2  \* bound on the history

Data == {t.data : t \in Transfers}

\* ahb_strb: 2^hsize byte lanes from haddr[1:0], none for a read
Strobe(t) ==
  IF t.write THEN {b \in 0..3 : b >= t.low /\ b < t.low + 2 ^ t.size} ELSE {}

\* paddr, pwrite and pstrb for a transfer
Access(t) == [word |-> t.word, write |-> t.write, strb |-> Strobe(t)]

psel == bus.apbState # "idle"
penable == bus.apbState = "access"
apb_pdone == penable /\ slave.ready

hwdata == IF dph = NoTransfer THEN {} ELSE {dph.data}

\* what each side shows the other
SysView == [hreadyout |-> sys.hreadyout, held |-> sys.held, hwdata |-> hwdata]
BusView == [pvalid |-> bus.pvalid, pdone |-> bus.pdone,
            fault |-> apb_pdone /\ slave.err, prdata |-> bus.prdata]

\* what a register of the other domain may latch now
SysLatched == IF "toBus" \in slow THEN sysSeen ELSE {SysView}
BusLatched == IF "toSys" \in slow THEN {BusView, busWas} ELSE {BusView}

Init ==
  /\ ratio \in Ratios
  /\ slow \in IF ratio = 1 THEN {{}} ELSE Margins  \* one clock: no path between two
  /\ phase = 0
  /\ aph = NoTransfer
  /\ dph = NoTransfer
  /\ sys = [hreadyout |-> TRUE, held |-> NoTransfer, hdone |-> TRUE, hresp |-> FALSE]
  /\ bus = [apbState |-> "idle", access |-> [word |-> 0, write |-> FALSE, strb |-> {}],
            pvalid |-> FALSE, pdone |-> FALSE, prdata |-> 0]
  /\ slave = [ready |-> FALSE, err |-> FALSE, data |-> 0, waits |-> 0]
  /\ sysSeen = {SysView}
  /\ busWas = BusView
  /\ served = <<>>
  /\ again = FALSE

-----------------------------------------------------------------------------
(* The AHB master: moves on when hready (this bridge's hreadyout) is high,  *)
(* may turn an idle address phase into a transfer while it waits, and       *)
(* cancels the address phase when it sees the first cycle of an error.      *)
Master ==
  IF sys.hreadyout
  THEN /\ dph' = aph
       /\ aph' \in Transfers \cup {NoTransfer}
  ELSE /\ dph' = dph
       /\ IF sys.hresp THEN aph' = NoTransfer
          ELSE aph' \in IF aph = NoTransfer THEN Transfers \cup {NoTransfer} ELSE {aph}

\* ahb_hsel && ahb_htrans[1] && hreadyout && !hresp
Accepted == aph # NoTransfer /\ sys.hreadyout /\ ~sys.hresp

\* without hdone, hreadyout rises on pdone of the previous access
SysEdge_NoHdone ==
  \E pdone \in {v.pdone : v \in BusLatched},
     fault \in {v.fault : v \in BusLatched} :
    sys' = [hreadyout |-> ~Accepted /\ (sys.hreadyout \/ pdone \/ sys.hresp),
            held  |-> IF Accepted THEN aph ELSE sys.held,
            hdone |-> sys.hdone,
            hresp |-> ~sys.hreadyout /\ (sys.hresp \/ fault)]
\* hresp follows the fault instead of staying until hready
SysEdge_HrespNotHeld ==
  \E pdone \in {v.pdone : v \in BusLatched},
     pvalid \in {v.pvalid : v \in BusLatched},
     fault \in {v.fault : v \in BusLatched} :
    sys' = [hreadyout |-> ~Accepted /\ (sys.hreadyout \/ (pdone /\ ~sys.hdone) \/ sys.hresp),
            held  |-> IF Accepted THEN aph ELSE sys.held,
            hdone |-> sys.hreadyout \/ (sys.hdone /\ ~pvalid),
            hresp |-> fault]
\* hdone is never cleared
SysEdge_HdoneStays ==
  \E pdone \in {v.pdone : v \in BusLatched},
     fault \in {v.fault : v \in BusLatched} :
    sys' = [hreadyout |-> ~Accepted /\ (sys.hreadyout \/ (pdone /\ ~sys.hdone) \/ sys.hresp),
            held  |-> IF Accepted THEN aph ELSE sys.held,
            hdone |-> TRUE,
            hresp |-> ~sys.hreadyout /\ (sys.hresp \/ fault)]

\* the SYSCLK registers
SysEdge ==
  \E pdone \in {v.pdone : v \in BusLatched},
     pvalid \in {v.pvalid : v \in BusLatched},
     fault \in {v.fault : v \in BusLatched} :
    sys' = [hreadyout |-> ~Accepted /\ (sys.hreadyout \/ (pdone /\ ~sys.hdone) \/ sys.hresp),
            held  |-> IF Accepted THEN aph ELSE sys.held,
            hdone |-> sys.hreadyout \/ (sys.hdone /\ ~pvalid),
            hresp |-> ~sys.hreadyout /\ (sys.hresp \/ fault)]

-----------------------------------------------------------------------------
\* pvalid in apbIdle, or in an apbAccess that ends: => apbSetup
Launch == bus.pvalid /\ (bus.apbState = "idle" \/ apb_pdone)

NextState ==
  IF Launch THEN "setup"
  ELSE IF bus.apbState = "setup" THEN "access"
  ELSE IF apb_pdone THEN "idle"
  ELSE bus.apbState

\* pvalid without the wait for the previous access to end
ApbRegisters_NoPdone ==
  \E hreadyout \in {v.hreadyout : v \in SysLatched},
     held \in {v.held : v \in SysLatched} :
    bus' = [apbState |-> NextState,
            access |-> IF Launch /\ held # NoTransfer THEN Access(held) ELSE bus.access,
            pvalid |-> ~hreadyout /\ ~psel,
            pdone  |-> ~bus.pdone /\ apb_pdone,
            prdata |-> IF apb_pdone THEN slave.data ELSE bus.prdata]

\* the BUSCLK registers
ApbRegisters ==
  \E hreadyout \in {v.hreadyout : v \in SysLatched},
     held \in {v.held : v \in SysLatched} :
    bus' = [apbState |-> NextState,
            access |-> IF Launch /\ held # NoTransfer THEN Access(held) ELSE bus.access,
            pvalid |-> ~hreadyout /\ ~(psel \/ bus.pdone),
            pdone  |-> ~bus.pdone /\ apb_pdone,
            prdata |-> IF apb_pdone THEN slave.data ELSE bus.prdata]

\* the APB slave: from the cycle penable rises it waits or answers
Slave ==
  IF NextState # "access"
  THEN slave' = [ready |-> FALSE, err |-> FALSE, data |-> 0, waits |-> 0]
  ELSE \/ /\ slave.waits < MaxWait
          /\ slave' = [slave EXCEPT !.waits = @ + 1]
       \/ \E e \in Errors, d \in Data :
            slave' = [slave EXCEPT !.ready = TRUE, !.err = e, !.data = d]

BusEdge == ApbRegisters /\ Slave

History ==
  LET before == IF sys.hreadyout THEN <<>> ELSE served
  IN  IF phase = 0 /\ apb_pdone /\ Len(before) < MaxServed
      THEN \E v \in SysLatched :
             served' = Append(before, [access |-> bus.access, wdata |-> v.hwdata,
                                       rdata |-> slave.data, err |-> slave.err])
      ELSE served' = before

\* pvalid rises although SYSCLK shows no transfer to perform (any more)
Repetition == again' = (again \/ (phase = 0 /\ bus'.pvalid /\ sys.hreadyout))

\* one edge of SYSCLK, with the edge of BUSCLK it may coincide with
Tick ==
  /\ Master
  /\ SysEdge
  /\ IF phase = 0 THEN BusEdge ELSE UNCHANGED <<bus, slave>>
  /\ sysSeen' = (IF phase = 0 THEN {SysView} ELSE sysSeen) \cup {SysView'}
  /\ busWas' = BusView
  /\ History /\ Repetition
  /\ phase' = (phase + 1) % ratio
  /\ UNCHANGED <<ratio, slow>>

Next == Tick
Spec == Init /\ [][Next]_vars
FairSpec == Spec /\ WF_vars(Tick)

-----------------------------------------------------------------------------
\* what an AHB transfer asks for: its bytes, by their address
AsksFor(t, a) ==
  /\ a.word = t.word /\ a.write = t.write
  /\ t.write => a.strb = {t.low + i : i \in 0..(2 ^ t.size - 1)}

BothWays == {"toBus", "toSys"}

\* The AHB transfer about to end (hready high in its data phase) has caused
\* exactly one APB access, at its word, with its byte lanes and its data;
\* the data a read returns and the error it reports are those of that access.
\* This holds as long as BUSCLK has not latched an old hreadyout and so performed the
\* transfer again, which takes paths that are late in both directions (again).
TransferIsOneAccess ==
  /\ again => slow = BothWays
  /\ ~again /\ dph # NoTransfer /\ sys.hreadyout =>
       /\ Len(served) = 1
       /\ AsksFor(dph, served[1].access)
       /\ dph.write => served[1].wdata = hwdata
       /\ ~dph.write /\ ~sys.hresp => \A v \in BusLatched : v.prdata = served[1].rdata
       /\ sys.hresp = served[1].err

\* While the APB slave is selected the master is held in the data phase of the
\* transfer being performed, and its write data, which is not registered but
\* passed on from ahb_hwdata, is the same for every register that latches it; with
\* the same exception (again).
AccessHasMaster ==
  psel /\ ~again =>
    /\ dph # NoTransfer
    /\ AsksFor(dph, bus.access)
    /\ \A v \in SysLatched : v.hwdata = hwdata

\* An error is answered in two cycles, as AHB requires: hresp first with
\* hreadyout low, then with hreadyout high, then it is gone.
ErrorTakesTwoCycles ==
  [][sys'.hresp => /\ ~sys.hresp => ~sys'.hreadyout
                   /\ sys.hresp => ~sys.hreadyout /\ sys'.hreadyout]_vars

\* The bridge never keeps the master waiting for ever.
Answers == []<>(sys.hreadyout /\ ~sys.hresp)
=============================================================================
