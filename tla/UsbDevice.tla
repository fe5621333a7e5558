------------------------------ MODULE UsbDevice ------------------------------
(***************************************************************************)
(* Two programs as USB devices.  The loop of examples/usb/cdc_msc lets the   *)
(* stack call the callbacks (tud_task), blinks the LED and echoes what came  *)
(* over the serial interface (cdc_task); its disk is module UsbDisk.  That   *)
(* of examples/usb/otg_host_hid_device_cdc ("otg") does not echo, it reads   *)
(* what came in its callback; its side as a USB host is module UsbHid.       *)
(*                                                                         *)
(* The stack, which is not in the repository, is taken to do what the        *)
(* program and its tusb_config.h rely on: it tells what happens on the bus   *)
(* in that order, takes a packet from the host only when it all fits the     *)
(* receive FIFO, and keeps of what is written what fits the transmit FIFO.   *)
(***************************************************************************)
EXTENDS Naturals, Sequences

CONSTANTS
  Programs,    \* the programs looked at
  Fifo,        \* bytes of a FIFO and of a packet (CFG_TUD_CDC_RX_BUFSIZE: 64)
  BufSize,     \* bytes cdc_task reads at a time (64)
  Interval,    \* "not_mounted", "mounted", "suspended" |-> ticks (250, 1000, 2500 ms)
  MaxLate,     \* bound: ticks the loop may be late
  Strings,     \* the lengths of string_desc_arr
  MaxChars,    \* characters of _desc_str (31)
  Loads        \* bounds: bytes the host sends, changes of the bus, strings asked
               \* for, and whether time passes

UsbDeviceAssumption ==
  /\ Programs \subseteq {"cdc_msc", "otg"}
  /\ {Fifo, BufSize, MaxChars} \subseteq Nat \ {0} /\ MaxLate \in Nat
  /\ Interval \in [{"not_mounted", "mounted", "suspended"} -> 1 .. MaxLate]
  /\ Strings \in Seq(Nat)
  /\ Loads \subseteq [bytes : Nat, changes : Nat, asks : Nat, clock : BOOLEAN]

VARIABLES
  program,   \* the program
  load,      \* the bounds of this behaviour
  pc,        \* where the loop is: "stack", "led", "cdc"
  bus,       \* what the host has made of the device: mounted, suspended
  events,    \* what happened on the bus and tud_task has not handled yet
  changes,   \* changes of the bus so far
  blink,     \* blink_interval_ms
  late,      \* board_millis() - start_ms
  led,       \* led_state
  out, rx,   \* the packet of the host that the stack holds, the receive FIFO
  tx, in,    \* the transmit FIFO, the packet for the host
  fetched,   \* the host has fetched it and tud_task has not seen that yet
  sent,      \* bytes the host has sent; byte b is the b-th of them
  echoed,    \* history: what the host got back
  overrun,   \* history: something did not fit the transmit FIFO
  ctl,       \* the string asked for: its index and where the request is
  asks,      \* strings asked for so far
  desc       \* _desc_str: the length in its header, and its characters

busVars  == <<bus, events, changes, blink>>
ledVars  == <<late, led>>
echoVars == <<out, rx, tx, in, fetched, sent, echoed, overrun>>
ctlVars  == <<ctl, asks, desc>>
vars     == <<program, load, pc, busVars, ledVars, echoVars, ctlVars>>

Smaller(a, b) == IF a < b THEN a ELSE b

\* Types.  late is a number: start_ms never gets ahead of the time, where the
\* unsigned difference the interval is compared with would be huge.
TypeOK ==
  /\ program \in Programs /\ load \in Loads /\ pc \in {"stack", "led", "cdc"}
  /\ bus \in [mounted : BOOLEAN, suspended : BOOLEAN]
  /\ events \in Seq({"mount", "umount", "suspend", "resume"}) /\ changes \in 0 .. load.changes
  /\ blink \in DOMAIN Interval /\ late \in 0 .. MaxLate /\ led \in BOOLEAN
  /\ {out, rx, tx, in, echoed} \subseteq Seq(Nat) /\ sent \in 0 .. load.bytes
  /\ fetched \in BOOLEAN /\ overrun \in BOOLEAN
  /\ ctl \in [index : Nat, at : {"idle", "asked", "answered", "stalled"}]
  /\ asks \in 0 .. load.asks
  /\ desc.n \in Nat /\ desc.char \in [1 .. MaxChars -> 0 .. Len(Strings)]

Init ==
  /\ program \in Programs /\ load \in Loads /\ pc = "stack"
  /\ bus = [mounted |-> FALSE, suspended |-> FALSE] /\ events = <<>> /\ changes = 0
  /\ blink = "not_mounted" /\ late = 0 /\ led = FALSE
  /\ out = <<>> /\ rx = <<>> /\ tx = <<>> /\ in = <<>> /\ fetched = FALSE
  /\ sent = 0 /\ echoed = <<>> /\ overrun = FALSE
  /\ ctl = [index |-> 0, at |-> "idle"] /\ asks = 0
  /\ desc = [n |-> 0, char |-> [c \in 1 .. MaxChars |-> 0]]

-----------------------------------------------------------------------------
(* The host, and time.                                                      *)
BusChanges(e, state) ==
  /\ changes < load.changes /\ changes' = changes + 1
  /\ events' = Append(events, e) /\ bus' = state
  /\ UNCHANGED <<program, load, pc, blink, ledVars, echoVars, ctlVars>>

Plugging ==
  \/ ~bus.mounted /\ ~bus.suspended /\ BusChanges("mount", [bus EXCEPT !.mounted = TRUE])
  \/ bus.mounted /\ BusChanges("umount", [mounted |-> FALSE, suspended |-> FALSE])

\* the bus may be suspended before the host has mounted the device
Suspending ==
  \/ ~bus.suspended /\ BusChanges("suspend", [bus EXCEPT !.suspended = TRUE])
  \/ bus.suspended /\ BusChanges("resume", [bus EXCEPT !.suspended = FALSE])

HostSends ==
  /\ out = <<>> /\ rx = <<>>
  /\ \E n \in 1 .. Smaller(Fifo, load.bytes - sent) :
       out' = [k \in 1 .. n |-> sent + k] /\ sent' = sent + n
  /\ UNCHANGED <<program, load, pc, busVars, ledVars, rx, tx, in, fetched, echoed, overrun, ctlVars>>

HostFetches ==
  /\ in # <<>> /\ ~fetched
  /\ echoed' = echoed \o in /\ fetched' = TRUE
  /\ UNCHANGED <<program, load, pc, busVars, ledVars, out, rx, tx, in, sent, overrun, ctlVars>>

HostAsks ==
  /\ ctl.at # "asked" /\ asks < load.asks /\ asks' = asks + 1
  /\ \E i \in 0 .. Len(Strings) : ctl' = [index |-> i, at |-> "asked"]
  /\ UNCHANGED <<program, load, pc, busVars, ledVars, echoVars, desc>>

Tick ==
  /\ load.clock /\ late < MaxLate /\ late' = late + 1
  /\ UNCHANGED <<program, load, pc, busVars, led, echoVars, ctlVars>>

-----------------------------------------------------------------------------
(* tud_task: the callbacks of the bus.                                      *)
Calls(e) ==
  /\ pc = "stack" /\ events # <<>> /\ Head(events) = e
  /\ events' = Tail(events)
  /\ UNCHANGED <<program, load, pc, bus, changes, ledVars, echoVars, ctlVars>>

TudMountCb   == Calls("mount") /\ blink' = "mounted"
TudUmountCb  == Calls("umount") /\ blink' = "not_mounted"
TudSuspendCb == Calls("suspend") /\ blink' = "suspended"

\* the interval is left as it is
TudResumeCb_Nothing == Calls("resume") /\ UNCHANGED blink
TudResumeCb  == Calls("resume") /\ blink' = "mounted"

BusCallbacks == TudMountCb \/ TudUmountCb \/ TudSuspendCb \/ TudResumeCb

-----------------------------------------------------------------------------
(* tud_task: packets of the serial interface, and tud_cdc_rx_cb: cdc_msc      *)
(* leaves them to cdc_task, otg reads BufSize bytes of them there and does    *)
(* not use them yet.                                                        *)

\* otg leaves them in the FIFO as well
PacketCame_Left ==
  /\ pc = "stack" /\ out # <<>> /\ out' = <<>> /\ rx' = out
  /\ UNCHANGED <<program, load, pc, busVars, ledVars, tx, in, fetched, sent, echoed, overrun, ctlVars>>
PacketCame ==
  /\ pc = "stack" /\ out # <<>> /\ out' = <<>>
  /\ rx' = IF program = "otg" THEN SubSeq(out, BufSize + 1, Len(out)) ELSE out
  /\ UNCHANGED <<program, load, pc, busVars, ledVars, tx, in, fetched, sent, echoed, overrun, ctlVars>>

\* the stack sends what has been written meanwhile
PacketWent ==
  /\ pc = "stack" /\ fetched
  /\ in' = tx /\ tx' = <<>> /\ fetched' = FALSE
  /\ UNCHANGED <<program, load, pc, busVars, ledVars, out, rx, sent, echoed, overrun, ctlVars>>

-----------------------------------------------------------------------------
(* tud_task: tud_descriptor_string_cb.  The host then reads as many          *)
(* characters of _desc_str as its header says.                              *)
Answers(at) ==
  /\ pc = "stack" /\ ctl.at = "asked" /\ ctl' = [ctl EXCEPT !.at = at]
  /\ UNCHANGED <<program, load, pc, busVars, ledVars, echoVars, asks>>

Filled(i, n) == [c \in 1 .. MaxChars |-> IF c <= n THEN i ELSE desc.char[c]]

NoSuchString == ctl.index >= Len(Strings) /\ Answers("stalled") /\ UNCHANGED desc

\* the header is only written if there is none yet
TudDescriptorStringCb_Header ==
  LET n == Smaller(Strings[ctl.index + 1], MaxChars)
  IN  /\ ctl.index < Len(Strings) /\ Answers("answered")
      /\ desc' = [n |-> IF desc.n = 0 THEN n ELSE desc.n, char |-> Filled(ctl.index, n)]
TudDescriptorStringCb ==
  LET n == Smaller(Strings[ctl.index + 1], MaxChars)
  IN  /\ ctl.index < Len(Strings) /\ Answers("answered")
      /\ desc' = [n |-> n, char |-> Filled(ctl.index, n)]

\* tud_task returns once it has handled everything
TudTaskReturns ==
  /\ pc = "stack" /\ events = <<>> /\ out = <<>> /\ ~fetched /\ ctl.at # "asked"
  /\ pc' = "led"
  /\ UNCHANGED <<program, load, busVars, ledVars, echoVars, ctlVars>>

TudTask == BusCallbacks \/ PacketCame \/ PacketWent \/ NoSuchString \/ TudDescriptorStringCb
           \/ TudTaskReturns

-----------------------------------------------------------------------------
\* otg has no cdc_task
AfterLed == IF program = "otg" THEN "stack" ELSE "cdc"

\* the interval is added at every call
LedBlinkingTask_Always ==
  /\ pc = "led" /\ pc' = AfterLed
  /\ late' = late - Interval[blink]
  /\ led' = IF late < Interval[blink] THEN led ELSE ~led
  /\ UNCHANGED <<program, load, busVars, echoVars, ctlVars>>
\* the time is taken anew at every call
LedBlinkingTask_Anew ==
  /\ pc = "led" /\ pc' = AfterLed /\ late' = 0
  /\ led' = IF late < Interval[blink] THEN led ELSE ~led
  /\ UNCHANGED <<program, load, busVars, echoVars, ctlVars>>
LedBlinkingTask ==
  /\ pc = "led" /\ pc' = AfterLed
  /\ \/ late < Interval[blink] /\ UNCHANGED ledVars
     \/ late >= Interval[blink] /\ late' = late - Interval[blink] /\ led' = ~led
  /\ UNCHANGED <<program, load, busVars, echoVars, ctlVars>>

-----------------------------------------------------------------------------
(* cdc_task.                                                                *)

\* tud_cdc_write: what does not fit is dropped
Written(bytes) == tx \o SubSeq(bytes, 1, Smaller(Len(bytes), Fifo - Len(tx)))

\* tud_cdc_write_flush, with what is in the transmit FIFO
Flush(fifo) ==
  IF in = <<>> THEN in' = fifo /\ tx' = <<>> ELSE tx' = fifo /\ UNCHANGED in

\* nothing is flushed
Echo_NoFlush ==
  LET count == Smaller(BufSize, Len(rx))
      bytes == SubSeq(rx, 1, count)
  IN  /\ rx # <<>> /\ rx' = SubSeq(rx, count + 1, Len(rx))
      /\ tx' = Written(bytes) /\ UNCHANGED in
      /\ overrun' = (overrun \/ Len(tx) + count > Fifo)
\* the whole buffer is written, whatever was read
Echo_Whole ==
  LET count == Smaller(BufSize, Len(rx))
      bytes == [k \in 1 .. BufSize |-> IF k <= count THEN rx[k] ELSE 0]
  IN  /\ rx # <<>> /\ rx' = SubSeq(rx, count + 1, Len(rx))
      /\ Flush(Written(bytes))
      /\ overrun' = (overrun \/ Len(tx) + count > Fifo)
Echo ==
  LET count == Smaller(BufSize, Len(rx))
      bytes == SubSeq(rx, 1, count)
  IN  /\ rx # <<>> /\ rx' = SubSeq(rx, count + 1, Len(rx))
      /\ Flush(Written(bytes))
      /\ overrun' = (overrun \/ Len(tx) + count > Fifo)

CdcTask ==
  /\ pc = "cdc" /\ pc' = "stack"
  /\ Echo \/ (rx = <<>> /\ UNCHANGED <<rx, tx, in, overrun>>)
  /\ UNCHANGED <<program, load, busVars, ledVars, out, fetched, sent, echoed, ctlVars>>

-----------------------------------------------------------------------------
Host == Plugging \/ Suspending \/ HostSends \/ HostAsks
Main == TudTask \/ LedBlinkingTask \/ CdcTask
Next == Host \/ HostFetches \/ Tick \/ Main

Spec == Init /\ [][Next]_vars

(* The loop goes on, time passes, and the host fetches what is sent to it.   *)
FairSpec == Spec /\ WF_vars(Main) /\ WF_vars(Tick) /\ WF_vars(HostFetches)

-----------------------------------------------------------------------------
\* The bytes of the host that are on their way or have come back, first sent first.
OnTheWay == echoed \o (IF fetched THEN <<>> ELSE in) \o tx \o rx \o out

\* Every byte the host sends is echoed once and in order, as long as it fetches
\* the echo before the FIFO is full; after that bytes are missing, but what comes
\* is still in order and nothing comes twice.
EchoIsWhatCame ==
  /\ ~overrun /\ program = "cdc_msc" => OnTheWay = [k \in 1 .. sent |-> k]
  /\ \A j, k \in DOMAIN OnTheWay : j < k => OnTheWay[j] < OnTheWay[k]

\* What was echoed does not stay in the FIFO, however little it is: when the host pauses
\* it gets all of it.
EchoArrives == []<>(program = "otg" \/ overrun \/ Len(echoed) = sent)

\* Neither program leaves what the host sent where it is, which would keep the host
\* from sending any more: it can always go on after a while.  (otg reads once for
\* each packet, so this needs a packet not to be longer than its buffer.)
HostGoesOn == []<>(out = <<>> /\ rx = <<>>)

\* The host reads the string it asked for, up to the length of the buffer, and
\* nothing a longer one left in the buffer; for others there is none.
StringsAreWhole ==
  /\ ctl.at = "answered" =>
       /\ desc.n = Smaller(Strings[ctl.index + 1], MaxChars)
       /\ \A c \in 1 .. desc.n : desc.char[c] = ctl.index
  /\ ctl.at = "stalled" => ctl.index \notin 0 .. Len(Strings) - 1

\* Once its callbacks have run, a mounted device shows whether it is suspended.
BlinkWhenMounted ==
  events = <<>> /\ bus.mounted => blink = IF bus.suspended THEN "suspended" ELSE "mounted"

\* The LED goes on blinking, however often the interval changes.
LedGoesOn == []<>(load.clock => led) /\ []<>(load.clock => ~led)
=============================================================================
