----------------------------- MODULE RamDesigns -----------------------------
(***************************************************************************)
(* The test program of src/main.c on each of the two designs.               *)
(***************************************************************************)
EXTENDS ApbChain, RamBridge

Init ==
  /\ InitTest
  /\ \/ design = "ahb_slave" /\ slow \in SUBSET {"toSys", "toBus"} /\ InitChain
        /\ busWas = BusView /\ ahbSeen = {AhbView}
     \/ design = "custom_ip" /\ slow = {} /\ InitBridge
        /\ busWas = <<>> /\ ahbSeen = {}

Tick ==
  /\ \/ design = "ahb_slave" /\ ChainTick
     \/ design = "custom_ip" /\ BridgeTick
  /\ UNCHANGED <<design, slow>>

\* Nothing more is said of a copy once BUSCLK has latched a torn view.
WholeTick == ~torn /\ Tick

Next == WholeTick \/ (torn /\ UNCHANGED vars)
Spec == Init /\ [][Next]_vars
FairSpec == Spec /\ WF_vars(WholeTick)

-----------------------------------------------------------------------------
\* When the program has seen the finish signal, the copy it announces is complete:
\* the RAM holds data_buf after the first, read_buf holds it after the second; and
\* the memory around the two buffers is never touched.  The words the program reads
\* back over port A are the words it wrote.  (An error answer of the
\* slave port, which neither design looks at, loses a word, and with the first word
\* the address to which the second copy goes.  Nor is anything said once a view of
\* SYSCLK is torn.)
CopyIsComplete == ~torn =>
  /\ ~faulty =>
       \A a \in Address : a < DataBuf \/ a >= ReadBuf + Words => mem[a] = Unset
  /\ pc \in {"out2", "high2", "in2", "poll2", "compare"} /\ ~faulty =>
       ram = Expected /\ Block(DataBuf) = Expected
  /\ pc = "compare" /\ ~faulty => Block(ReadBuf) = Expected
  /\ pc = "verify" => Block(ReadBuf) = Block(DataBuf)

\* The test ends, and unless the slave port answered with an error or
\* a view of SYSCLK is torn, it passes.
TestPasses == <>(torn \/ pc = "passed" \/ (faulty /\ pc = "failed"))
=============================================================================
