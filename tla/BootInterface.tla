---------------------------- MODULE BootInterface ----------------------------
(***************************************************************************)
(* The bytes of the boot loader over USB and over I2C (examples/dfu/src/     *)
(* boot.c, BOOT_INTERFACE 2 and 3): send, receive, waitForInit, processBoot   *)
(* and resetBoot.  What the bytes mean is module LoaderPort; here a command   *)
(* is a number of exchanges, so many bytes asked and so many answered, and    *)
(* the last exchange of a behaviour ends with a reset.                      *)
(*                                                                         *)
(* The USB stack and the I2C slave are not in the repository.  The stack     *)
(* works only while tud_task runs, takes a packet only if it fits its FIFO    *)
(* and keeps what fits of what is written.  The slave has one byte in each    *)
(* direction, and holds the clock when the program is late.                 *)
(***************************************************************************)
EXTENDS Naturals, Sequences, FiniteSetsExt

CONSTANTS
  Ports,    \* "usb", "i2c": the builds looked at
  Fifo,     \* bytes of a FIFO of the stack (2048)
  Packet,   \* bytes of a packet (64)
  Noise,    \* bound: bytes the host sends before INIT
  Scripts   \* bounds: the exchanges of a behaviour, [ask, answer] each

InterfaceAssumption ==
  /\ Ports \subseteq {"usb", "i2c"} /\ Noise \in Nat
  /\ {Fifo, Packet} \subseteq Nat \ {0} /\ Packet <= Fifo
  /\ Scripts \subseteq Seq([ask : Nat \ {0}, answer : 1 .. Fifo]) \ {<<>>}

VARIABLES
  port, script,
  host,      \* the exchange the host is at, what it has still to send and to get
  sent, got, \* history: the bytes of either direction as the host sees them
  pc, at,    \* the function the loader is in, and its exchange; 0 is the INIT byte
  need,      \* what receive still waits for, or send has still to write
  taken,     \* history: what receive has returned
  written,   \* history: how many bytes send was given; byte k is the k-th of them
  out, rx,   \* the packet of the host on the bus, the receive FIFO
  tx, in,    \* the transmit FIFO, the packet (I2C: the byte) for the host
  fetched    \* the host has fetched it and tud_task has not seen that yet

hostVars == <<host, sent, got>>
cpuVars  == <<pc, at, need, taken, written>>
fifoVars == <<rx, tx, in, fetched>>
vars     == <<port, script, hostVars, cpuVars, out, fifoVars>>

\* A byte of the host: noise, INIT (0x7F), or a number that tells it from the others.
NOISE == 0
INIT  == 1

First(n, s) == SubSeq(s, 1, Min({n, Len(s)}))
Rest(n, s)  == SubSeq(s, n + 1, Len(s))

\* setupBoot: over USB the loader waits for INIT and acknowledges it, over I2C it does not.
UsbSetupBoot ==
  /\ port = "usb" /\ pc = "waitForInit" /\ at = 0
  /\ \E n \in 0 .. Noise : host = [at |-> 0, send |-> n + 1, await |-> 1]
I2cSetupBoot ==
  /\ port = "i2c" /\ pc = "processBoot" /\ at = 1
  /\ host = [at |-> 1, send |-> script[1].ask, await |-> script[1].answer]

Init ==
  /\ port \in Ports /\ script \in Scripts
  /\ UsbSetupBoot \/ I2cSetupBoot
  /\ sent = <<>> /\ got = <<>> /\ need = 1 /\ taken = <<>> /\ written = 0
  /\ out = <<>> /\ rx = <<>> /\ tx = <<>> /\ in = <<>> /\ fetched = FALSE

-----------------------------------------------------------------------------
(* The host: it sends in packets of any size, and what belongs to the next    *)
(* exchange only once the answer is complete.                               *)
NextBytes(n) ==
  [k \in 1 .. n |-> IF host.at > 0 THEN Len(sent) + k + 1
                    ELSE IF k = host.send THEN INIT ELSE NOISE]

HostSends ==
  /\ out = <<>> /\ \E n \in 1 .. Min({host.send, IF port = "usb" THEN Packet ELSE 1}) :
       /\ out' = NextBytes(n) /\ sent' = sent \o out'
       /\ host' = [host EXCEPT !.send = @ - n]
  /\ UNCHANGED <<port, script, got, cpuVars, fifoVars>>

HostFetches ==
  /\ in # <<>> /\ ~fetched /\ got' = got \o in
  /\ host' = [host EXCEPT !.await = @ - Min({@, Len(in)})]
  /\ IF port = "usb" THEN fetched' = TRUE /\ UNCHANGED in ELSE in' = <<>> /\ UNCHANGED fetched
  /\ UNCHANGED <<port, script, sent, cpuVars, out, rx, tx>>

HostGoesOn ==
  /\ host.send = 0 /\ host.await = 0 /\ host.at < Len(script)
  /\ host' = [at |-> host.at + 1, send |-> script[host.at + 1].ask,
              await |-> script[host.at + 1].answer]
  /\ UNCHANGED <<port, script, sent, got, cpuVars, out, fifoVars>>

Host == HostSends \/ HostFetches \/ HostGoesOn

-----------------------------------------------------------------------------
(* tud_task, with `fifo` left in the receive FIFO and `queue` to transmit;    *)
(* `flush` after a tud_cdc_n_write_flush.                                   *)
TudTask(fifo, queue, flush) ==
  /\ IF Len(fifo) + Len(out) <= Fifo THEN rx' = fifo \o out /\ out' = <<>>
                                     ELSE rx' = fifo /\ UNCHANGED out
  /\ IF fetched \/ (flush /\ in = <<>>)
     THEN in' = First(Packet, queue) /\ tx' = Rest(Packet, queue) /\ fetched' = FALSE
     ELSE tx' = queue /\ UNCHANGED <<in, fetched>>

\* the pointer is not moved on: what comes next goes over what came before
UsbReads_InPlace ==
  LET old == IF at = 0 THEN 0 ELSE Min({Len(rx), script[at].ask - need})
  IN  /\ taken' = First(Len(taken) - old, taken) \o First(need, rx)
      /\ TudTask(Rest(need, rx), tx, FALSE)
\* One turn of the loop of receive: what is there is read, then the stack works.
UsbReads ==
  /\ taken' = taken \o First(need, rx)
  /\ TudTask(Rest(need, rx), tx, FALSE)

\* written and not flushed
UsbSends_NoFlush ==
  /\ TudTask(rx, tx \o First(Fifo - Len(tx), [k \in 1 .. need |-> written + k]), FALSE)
  /\ written' = written + need /\ need' = 0
\* what send is given is written and flushed, and the stack works once
UsbSends ==
  /\ TudTask(rx, tx \o First(Fifo - Len(tx), [k \in 1 .. need |-> written + k]), TRUE)
  /\ written' = written + need /\ need' = 0

-----------------------------------------------------------------------------
(* I2C: byte by byte, each when the slave has one or has room for one.        *)
I2cReads ==
  /\ out # <<>> /\ taken' = taken \o out /\ out' = <<>>
  /\ UNCHANGED fifoVars

\* the slave is not asked whether it has room
I2cSends_Late ==
  /\ in' = <<written + 1>> /\ written' = written + 1 /\ need' = need - 1
  /\ UNCHANGED <<out, rx, tx, fetched>>
I2cSends ==
  /\ in = <<>> /\ in' = <<written + 1>> /\ written' = written + 1 /\ need' = need - 1
  /\ UNCHANGED <<out, rx, tx, fetched>>

-----------------------------------------------------------------------------
(* The loader.                                                              *)
Reads == IF port = "usb" THEN UsbReads ELSE I2cReads
Sends == IF port = "usb" THEN UsbSends ELSE I2cSends

\* any byte is taken for INIT
WaitForInit_Any ==
  /\ pc = "waitForInit" /\ UsbReads
  /\ IF taken' = taken THEN UNCHANGED pc ELSE pc' = "send"
  /\ UNCHANGED <<port, script, hostVars, at, need, written>>
WaitForInit ==
  /\ pc = "waitForInit" /\ UsbReads
  /\ IF taken' # taken /\ taken'[Len(taken')] = INIT THEN pc' = "send" ELSE UNCHANGED pc
  /\ UNCHANGED <<port, script, hostVars, at, need, written>>

\* receive has read nothing, some of what it needs, or all of it
Receive ==
  /\ pc = "receive" /\ Reads
  /\ IF Len(taken') - Len(taken) = need
     THEN pc' = "send" /\ need' = script[at].answer
     ELSE need' = need - (Len(taken') - Len(taken)) /\ UNCHANGED pc
  /\ UNCHANGED <<port, script, hostVars, at, written>>

Send ==
  /\ pc = "send" /\ Sends
  /\ IF need' > 0 THEN UNCHANGED <<pc, at>>
     ELSE IF at = Len(script) THEN pc' = "resetBoot" /\ UNCHANGED at
     ELSE pc' = "processBoot" /\ at' = at + 1
  /\ UNCHANGED <<port, script, hostVars, taken>>

ProcessBoot ==
  /\ pc = "processBoot" /\ pc' = "receive" /\ need' = script[at].ask
  /\ IF port = "usb" THEN TudTask(rx, tx, FALSE) ELSE UNCHANGED <<out, fifoVars>>
  /\ UNCHANGED <<port, script, hostVars, at, taken, written>>

\* the endpoint, or the slave, is not waited for
ResetBoot_AtOnce ==
  /\ pc = "resetBoot" /\ pc' = "down"
  /\ UNCHANGED <<port, script, hostVars, at, need, taken, written, out, fifoVars>>
\* the bus is switched off when it is no longer busy; until then the stack works
UsbResetBoot ==
  \/ in = <<>> /\ pc' = "down" /\ UNCHANGED <<out, fifoVars>>
  \/ in # <<>> /\ TudTask(rx, tx, FALSE) /\ UNCHANGED pc
I2cResetBoot == in = <<>> /\ pc' = "down" /\ UNCHANGED <<out, fifoVars>>

ResetBoot ==
  /\ pc = "resetBoot" /\ IF port = "usb" THEN UsbResetBoot ELSE I2cResetBoot
  /\ UNCHANGED <<port, script, hostVars, at, need, taken, written>>

Loader == WaitForInit \/ Receive \/ Send \/ ProcessBoot \/ ResetBoot

Done == pc = "down" /\ UNCHANGED vars
Next == Host \/ Loader \/ Done

Spec == Init /\ [][Next]_vars

(* The loader runs, and the host takes what comes and goes on.               *)
FairSpec == Spec /\ WF_vars(Loader) /\ WF_vars(Host)

-----------------------------------------------------------------------------
\* However the bytes of the host are cut into packets and wherever the loader is when
\* they come, receive returns each of them once and in order.
TakenInOrder == sent = taken \o rx \o out

\* Nothing the loader sends is dropped for lack of room, nothing comes twice, as long
\* as an answer fits the FIFO and the host asks for no more before it is complete.
AnswersInOrder ==
  got \o (IF fetched THEN <<>> ELSE in) \o tx = [k \in 1 .. written |-> k]

\* The bus is not switched off before the host has the last answer (that a command that
\* resets the device was carried out).
NothingCutOff == pc = "down" => Len(got) = written /\ host.await = 0

\* The loader answers what the host asks and nothing else: noise before INIT is passed
\* over, and an answer begins once its question is complete and nothing follows it.
InStep ==
  pc = "send" => host.at = at /\ host.send = 0 /\ Len(out) = 0 /\ Len(rx) = 0

\* Neither side waits for the other for ever: the host gets to the end of the script.
ScriptEnded == pc = "down" /\ host.at = Len(script)
ScriptEnds  == []<>ScriptEnded
=============================================================================
