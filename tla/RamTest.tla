------------------------------- MODULE RamTest -------------------------------
(***************************************************************************)
(* What examples/ahb_slave and examples/custom_ip share: the test program   *)
(* of src/main.c (the same file in both), the block RAM in the logic with   *)
(* its two ports, the GPIO pin between processor and logic, and the AHB     *)
(* slave port through which the logic reaches the processor's memory.       *)
(*                                                                         *)
(* The processor fills the RAM by DMA, reads it back, leaves the address of *)
(* data_buf in RAM word 0 and of read_buf in data_buf[0], and raises the    *)
(* trigger twice: the logic must copy data_buf to the RAM, then the RAM to  *)
(* read_buf.  Addresses count words; one edge of SYSCLK is a Tick.  The     *)
(* GPIO block, the memory and the slave port are external.                  *)
(***************************************************************************)
EXTENDS Naturals, Sequences

CONSTANTS
  Words,    \* words of the RAM (RAM_SIZE / 4)
  Burst,    \* words of an AHB burst
  Gap,      \* BUSCLK cycles between two GPIO accesses of the processor:
  MaxGap,   \*   at least Gap, at most MaxGap
  Errors,   \* what the slave port may answer on hresp
  MinWait,  \* wait states the slave port inserts in a read of custom_ip at least,
  MaxWait   \*   and in any transfer at most

ASSUME RamAssumption ==
  /\ Words \in Nat \ {0} /\ Burst \in Nat \ {0} /\ Words % Burst = 0
  /\ Gap \in Nat \ {0} /\ MaxGap \in Nat /\ Gap <= MaxGap
  /\ Errors \subseteq BOOLEAN /\ Errors # {}
  /\ MinWait \in Nat /\ MaxWait \in Nat /\ MinWait <= MaxWait

VARIABLES
  design,  \* "ahb_slave" or "custom_ip"
  slow,    \* the directions ("toSys", "toBus") between BUSCLK and SYSCLK whose
           \*   paths use the margin top.sdc gives them in this build
  phase,   \* 0 when the next Tick is an edge of BUSCLK too
  pc,      \* where TestAHB is
  since,   \* BUSCLK cycles since the last GPIO access
  gpio,    \* GPIO0_0: output enable and data
  mem,     \* the processor's memory
  host,    \* the bus master that serves TestAHB at the RAM's port A
  ram,     \* the block RAM
  qa, qb,  \* its registered outputs
  copier,  \* registers of ram2apb, or of ram2ahb
  bridge,  \* registers of apb2ahb, or of ahb2ram
  port,    \* the slave port: the transfer in its data phase
  busWas,  \* what the BUSCLK side showed before the last SYSCLK edge
  ahbSeen, \* what the SYSCLK side has shown since before the last BUSCLK edge
  torn,    \* history: BUSCLK has latched what the SYSCLK side never showed at once
  served,  \* history: AHB transfers since the copier began its access
  faulty   \* history: the slave port has answered with an error

vars == <<design, slow, phase, pc, since, gpio, mem, host, ram, qa, qb,
          copier, bridge, port, busWas, ahbSeen, torn, served, faulty>>

Index == 0..(Words - 1)
DataBuf == Words            \* address of data_buf: word 0 up to it is not ours
ReadBuf == 2 * Words        \* address of read_buf
Address == 0..(3 * Words)   \* and one word after it
Unset == 99                 \* what a word nobody has written holds
Value(k, i) == 100 * k + i  \* rand(): values of the k-th filling of data_buf

Block(start) == [i \in Index |-> mem[start + i]]
\* data_buf after its second filling, and the address of read_buf in word 0
Expected == [i \in Index |-> IF i = 0 THEN ReadBuf ELSE Value(2, i)]

At(a) == IF a \in Address THEN mem[a] ELSE Unset

-----------------------------------------------------------------------------
(* The slave port.  It takes an address phase when it is ready, then waits, *)
(* answers, or answers with an error in two cycles.                         *)
IdlePort == [busy |-> FALSE, addr |-> 0, write |-> FALSE, ready |-> TRUE,
             resp |-> FALSE, rdata |-> Unset, waits |-> 0]

\* The data phase the port is in after this edge, the transfer being p.
Answer(p) ==
  (IF p.write \/ design = "ahb_slave" \/ p.waits >= MinWait
   THEN {[p EXCEPT !.ready = TRUE, !.rdata = IF p.write THEN Unset ELSE At(p.addr)]}
   ELSE {})
    \cup (IF p.waits < MaxWait THEN {[p EXCEPT !.waits = @ + 1]} ELSE {})
    \cup (IF TRUE \in Errors /\ ~faulty THEN {[p EXCEPT !.resp = TRUE]} ELSE {})

\* the memory after an edge: write data is stored at the end of a data phase
Stored(hwdata) ==
  IF port.busy /\ port.ready /\ port.write /\ ~port.resp /\ port.addr \in Address
  THEN [mem EXCEPT ![port.addr] = hwdata] ELSE mem

\* One edge of the port, which may accept an address phase.
PortEdge(accept, addr, write) ==
  /\ CASE accept -> port' \in Answer([IdlePort EXCEPT !.busy = TRUE, !.addr = addr,
                                                      !.write = write, !.ready = FALSE])
       [] ~accept /\ port.busy /\ ~port.ready ->
            port' \in IF port.resp THEN {[port EXCEPT !.ready = TRUE]} ELSE Answer(port)
       [] OTHER -> port' = IdlePort
  /\ faulty' = (faulty \/ port'.resp)

-----------------------------------------------------------------------------
(* The RAM: a port that writes stores at the edge, one that reads registers *)
(* its output.  The program never uses both ports at a time.                *)
RamEdge(a, b) ==
  /\ ram' = IF a.wren THEN [ram EXCEPT ![a.addr] = a.data]
            ELSE IF b.wren THEN [ram EXCEPT ![b.addr] = b.data] ELSE ram
  /\ qa' = IF a.rden THEN ram[a.addr] ELSE qa
  /\ qb' = IF b.rden THEN ram[b.addr] ELSE qb

NoAccess == [wren |-> FALSE, rden |-> FALSE, addr |-> 0, data |-> Unset]

-----------------------------------------------------------------------------
(* TestAHB up to the first trigger: the RAM is written and read back, then  *)
(* verified, and the two addresses are left for the logic.                  *)
HostSteps == [write |-> "read", read |-> "verify", tell |-> "out1"]
HostActive == pc \in {"write", "read", "verify", "tell"}

\* the words a bus job moves: WR_REG writes one, the DMA transfers all of them
JobWords == IF pc = "tell" THEN {0} ELSE Index
JobData(i) == IF pc = "tell" THEN DataBuf ELSE mem[DataBuf + i]

\* a word has been read back; the last word of a job is done
ReadBack(i, data) == [mem EXCEPT ![ReadBuf + i] = data]
JobEnds == pc' = HostSteps[pc]

\* read_buf against data_buf, which is filled anew
Verify ==
  /\ pc = "verify"
  /\ IF Block(ReadBuf) = Block(DataBuf)
     THEN /\ pc' = "tell"
          /\ mem' = [a \in Address |-> IF a >= DataBuf /\ a < ReadBuf
                                       THEN Value(2, a - DataBuf) ELSE mem[a]]
     ELSE pc' = "failed" /\ mem' = mem

(* From the first trigger on: GPIO accesses, one at a time.  The trigger is *)
(* (GPIO output enabled && GPIO output high); GPIO_SetInput                 *)
(* disables the output and leaves its level.                                *)
ram_trigger == gpio.en /\ gpio.data

GpioSteps ==
  [out1 |-> "high1", high1 |-> "in1", in1 |-> "poll1", poll1 |-> "out2",
   out2 |-> "high2", high2 |-> "in2", in2 |-> "poll2", poll2 |-> "compare"]
Polls == {"poll1", "poll2"}

GpioAccess ==
  /\ pc \in DOMAIN GpioSteps /\ since >= Gap
  /\ pc' = IF pc \in Polls /\ ~copier.finished THEN pc ELSE GpioSteps[pc]
  /\ gpio' = [en |-> (gpio.en \/ pc \in {"out1", "out2"}) /\ pc \notin {"in1", "in2"},
              data |-> gpio.data \/ pc \in {"high1", "high2"}]
  /\ since' = IF pc \in Polls /\ ~copier.finished THEN since ELSE 0

GpioIdle ==
  /\ pc \in DOMAIN GpioSteps /\ since < MaxGap
  /\ since' = since + 1
  /\ UNCHANGED <<pc, gpio>>

\* the final comparison of read_buf and data_buf
Compare ==
  /\ pc = "compare"
  /\ pc' = IF Block(ReadBuf) = Block(DataBuf) THEN "passed" ELSE "failed"
  /\ UNCHANGED <<gpio, since>>

Stopped == pc \in {"passed", "failed"} /\ UNCHANGED <<pc, gpio, since>>

ProgramEdge == GpioAccess \/ GpioIdle \/ Compare \/ Stopped

InitTest ==
  /\ phase = 0
  /\ pc = "write" /\ since = 0
  /\ gpio = [en |-> FALSE, data |-> FALSE]
  /\ mem = [a \in Address |-> IF a - DataBuf \in Index /\ a >= DataBuf
                              THEN Value(1, a - DataBuf) ELSE Unset]
  /\ ram = [i \in Index |-> Unset] /\ qa = Unset /\ qb = Unset
  /\ port = IdlePort
  /\ served = <<>> /\ faulty = FALSE /\ torn = FALSE
=============================================================================
