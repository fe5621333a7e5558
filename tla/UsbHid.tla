-------------------------------- MODULE UsbHid --------------------------------
(***************************************************************************)
(* Keyboards and mice at the two USB host programs: hid_app.c of             *)
(* examples/usb/host_cdc_msc_hid ("host") and main.c of                      *)
(* examples/usb/otg_host_hid_device_cdc ("otg").  The callbacks run one at a *)
(* time, from tuh_task; plugging, the keys and the reports of the devices    *)
(* go on beside them.                                                       *)
(*                                                                         *)
(* A boot keyboard reports the keys that are held, in the order they were    *)
(* pressed, or "rollover" if there are more than fit; it reports each change *)
(* when it is asked for a report.  The stack, which is not in the            *)
(* repository, numbers the interfaces that are mounted (instance).           *)
(***************************************************************************)
EXTENDS Naturals, Sequences, FiniteSets, Functions, Filters

CONSTANTS
  Programs,    \* the programs looked at
  Instances,   \* HID interfaces at a time (CFG_TUH_HID)
  Plain,       \* keys that have no character
  KeySlots,    \* keys of a report (6)
  Loads        \* bounds: the devices that may be plugged in, each with its protocol,
               \* the reports it sends and those tuh_hid_parse_report_descriptor
               \* gives, and the instances they get; the keys, how many are pressed,
               \* and whether shift is used

Usages  == {"keyboard", "mouse", "other"}
Reports == Seq([id : Nat, usage : Usages])

\* Its descriptor tells the reports of a device apart, with an identifier if there are
\* more than one; it is parsed as far as there is room; and a boot device sends what it
\* is named for.
Describes(d) ==
  /\ \A n, m \in DOMAIN d.sends : d.sends[n].id = d.sends[m].id => n = m
  /\ \A n \in DOMAIN d.sends : d.sends[n].id = 0 => Len(d.sends) = 1
  /\ Range(d.parsed) \subseteq Range(d.sends)
  /\ d.protocol # "none" => \A n \in DOMAIN d.sends : d.sends[n].usage = d.protocol

UsbHidAssumption ==
  /\ Programs \subseteq {"host", "otg"}
  /\ KeySlots \in Nat /\ Instances # {}
  /\ \A load \in Loads :
       /\ load.at \subseteq Instances /\ load.pressed \in Nat /\ load.shift \in BOOLEAN
       /\ load.devices \subseteq
            [protocol : {"none", "keyboard", "mouse"}, sends : Reports, parsed : Reports]
       /\ \A d \in load.devices : Describes(d)

VARIABLES
  program,   \* the program
  load,      \* the bounds of this behaviour
  dev,       \* instance -> the device there, or NoDevice
  mounted,   \* instances whose mount callback has run
  asked,     \* instance -> a report is asked for: "no", "pending", "refused"
  arrived,   \* instance -> the report that has come, or NoReport
  info,      \* hid_info: instance -> its reports
  held,      \* instance -> the keys held on the keyboard, and shift
  told,      \* instance -> the same as the device has reported it
  prev,      \* prev_report of process_kbd_report: its keys
  printed,   \* the keys printed, with shift
  pressed,   \* history: the keys pressed, with shift
  mixed,     \* history: one keyboard was used while another was, and the like
  last       \* history: the last report: its usage, what it was handled as, and
             \* whether its device is a boot device or has this report in its descriptor

devVars == <<dev, held, told>>
vars == <<program, load, dev, mounted, asked, arrived, info, held, told, prev, printed, pressed,
          mixed, last>>

NoDevice == [protocol |-> "gone", sends |-> <<>>, parsed |-> <<>>]
NoReport == [id |-> 0, usage |-> "nothing", keys |-> <<>>, shift |-> FALSE]
Released == [keys |-> <<>>, shift |-> FALSE]

Init ==
  /\ program \in Programs /\ load \in Loads
  /\ dev = [i \in Instances |-> NoDevice] /\ mounted = {}
  /\ asked = [i \in Instances |-> "no"] /\ arrived = [i \in Instances |-> NoReport]
  /\ info = [i \in Instances |-> <<>>]
  /\ held = [i \in Instances |-> Released] /\ told = held
  /\ prev = <<>> /\ printed = <<>>
  /\ pressed = <<>> /\ mixed = FALSE
  /\ last = [usage |-> "nothing", as |-> "nothing", known |-> FALSE]

-----------------------------------------------------------------------------
(* The devices.                                                             *)

\* what the device on i sends a report of this usage as; a boot keyboard and a
\* boot mouse have one report, without an identifier
Sends(i, usage) == {r \in Range(dev[i].sends) : r.usage = usage}

\* the keyboard is not used: no key is held, and all that happened was handled
Unused(i) == held[i].keys = <<>> /\ told[i] = held[i] /\ arrived[i].usage # "keyboard"
OneKeyboard(i) == \A j \in Instances \ {i} : Unused(j)

Plug ==
  \E i \in load.at, d \in load.devices :
    /\ dev[i] = NoDevice
    /\ dev' = [dev EXCEPT ![i] = d]
    /\ UNCHANGED <<program, load, mounted, asked, arrived, info, held, told, prev, printed,
                   pressed, mixed, last>>

\* the stack takes back what it was asked for, and drops a report that has come
Unplug ==
  \E i \in Instances :
    /\ dev[i] # NoDevice /\ dev' = [dev EXCEPT ![i] = NoDevice]
    /\ held' = [held EXCEPT ![i] = Released] /\ told' = [told EXCEPT ![i] = Released]
    /\ asked' = [asked EXCEPT ![i] = "no"] /\ arrived' = [arrived EXCEPT ![i] = NoReport]
    /\ mixed' = (mixed \/ ~Unused(i))
    /\ mounted' = mounted \ {i}                        \* tuh_hid_umount_cb
    /\ UNCHANGED <<program, load, info, prev, printed, pressed, last>>

Changes(i, state) ==
  /\ Sends(i, "keyboard") # {} /\ told[i] = held[i]
  /\ held' = [held EXCEPT ![i] = state]
  /\ mixed' = (mixed \/ ~OneKeyboard(i) \/ Len(state.keys) > KeySlots)
  /\ UNCHANGED <<program, load, dev, mounted, asked, arrived, info, told, prev, printed, last>>

Press ==
  \E i \in Instances, k \in load.keys :
    /\ k \notin Range(held[i].keys)
    /\ Len(pressed) < load.pressed
    /\ Changes(i, [held[i] EXCEPT !.keys = Append(@, k)])
    /\ pressed' = Append(pressed, [key |-> k, shift |-> held[i].shift])

Release ==
  \E i \in Instances : \E k \in Range(held[i].keys) :
    /\ Changes(i, [held[i] EXCEPT !.keys = Without(@, {k})])
    /\ UNCHANGED pressed

\* bound: no more once keyboards are mixed, when each change may print keys again
Shift ==
  \E i \in Instances :
    load.shift /\ ~mixed /\ Changes(i, [held[i] EXCEPT !.shift = ~@]) /\ UNCHANGED pressed

Comes(i, report) ==
  /\ asked[i] = "pending" /\ asked' = [asked EXCEPT ![i] = "no"]
  /\ arrived' = [arrived EXCEPT ![i] = report]
  /\ UNCHANGED <<program, load, dev, mounted, info, held, prev, printed, pressed, mixed, last>>

KeyboardReport ==
  \E i \in Instances : \E r \in Sends(i, "keyboard") :
    /\ told[i] # held[i] /\ told' = [told EXCEPT ![i] = held[i]]
    /\ Comes(i, [id |-> r.id, usage |-> r.usage, shift |-> held[i].shift,
                 keys |-> IF Len(held[i].keys) <= KeySlots THEN held[i].keys ELSE <<"rollover">>])

\* a mouse moves, or another control is used
OtherReport ==
  \E i \in Instances, usage \in {"mouse", "other"} : \E r \in Sends(i, usage) :
    /\ Comes(i, [NoReport EXCEPT !.id = r.id, !.usage = usage])
    /\ UNCHANGED told

-----------------------------------------------------------------------------
(* tuh_hid_mount_cb.                                                        *)

\* tuh_hid_receive_report, which the stack may refuse; the program says so
Receive(i) == \E answer \in {"pending", "refused"} : asked' = [asked EXCEPT ![i] = answer]

Polled(i) == program = "host" \/ dev[i].protocol \in {"keyboard", "mouse"}

\* an interface that had reports before is not parsed again
TuhHidMountCb_Once ==
  \E i \in Instances \ mounted :
    /\ dev[i] # NoDevice /\ mounted' = mounted \cup {i}
    /\ info' = IF program = "host" /\ dev[i].protocol = "none" /\ info[i] = <<>>
               THEN [info EXCEPT ![i] = dev[i].parsed] ELSE info
    /\ IF Polled(i) THEN Receive(i) ELSE UNCHANGED asked
    /\ UNCHANGED <<program, load, devVars, arrived, prev, printed, pressed, mixed, last>>
TuhHidMountCb ==
  \E i \in Instances \ mounted :
    /\ dev[i] # NoDevice /\ mounted' = mounted \cup {i}
    /\ info' = IF program = "host" /\ dev[i].protocol = "none"
               THEN [info EXCEPT ![i] = dev[i].parsed] ELSE info
    /\ IF Polled(i) THEN Receive(i) ELSE UNCHANGED asked
    /\ UNCHANGED <<program, load, devVars, arrived, prev, printed, pressed, mixed, last>>

-----------------------------------------------------------------------------
(* tuh_hid_report_received_cb.                                              *)

\* keys that are not in the keys of another report (find_key_in_report)
New(old, keys) == Without(keys, Range(old))

Typed(keys, shift) == [n \in DOMAIN keys |-> [key |-> keys[n], shift |-> shift]]

\* otg prints nothing for a key that has no character
Visible(typed) == IF program = "host" THEN typed
                  ELSE Without(typed, [key : Plain \cup {"rollover"}, shift : BOOLEAN])

\* the previous report is only kept if keys are held
ProcessKbdReport_KeepsOld(report) ==
  /\ printed' = printed \o Visible(Typed(New(prev, report.keys), report.shift))
  /\ prev' = IF report.keys = <<>> THEN prev ELSE report.keys
ProcessKbdReport(report) ==
  /\ printed' = printed \o Visible(Typed(New(prev, report.keys), report.shift))
  /\ prev' = report.keys

\* a line with the buttons and the movement (host: the buttons only while one is
\* pressed); nothing of the report is kept, prev_report is never assigned
ProcessMouseReport == UNCHANGED <<prev, printed>>

\* the usage process_generic_report finds for a report
Found(i, report) ==
  LET one   == Len(info[i]) = 1 /\ info[i][1].id = 0
      fits  == {n \in DOMAIN info[i] : info[i][n].id = report.id}
  IN  IF one THEN info[i][1].usage
      ELSE IF fits = {} THEN "nothing"
      ELSE info[i][CHOOSE n \in fits : \A m \in fits : n <= m].usage

HandledAs(i, report) ==
  IF dev[i].protocol # "none" THEN dev[i].protocol
  ELSE IF program = "host" THEN Found(i, report) ELSE "nothing"

\* the handler asks for the next report only if it could handle this one
ReportReceivedCb_Asks(i, as) ==
  IF as = "nothing" THEN asked' = [asked EXCEPT ![i] = "no"] ELSE Receive(i)
ReportReceivedCb(i, as) == Receive(i)

Known(i, report) ==
  dev[i].protocol # "none" \/ [id |-> report.id, usage |-> report.usage] \in Range(dev[i].parsed)

TuhHidReportReceivedCb ==
  \E i \in mounted :
    LET as == HandledAs(i, arrived[i])
    IN  /\ arrived[i] # NoReport /\ arrived' = [arrived EXCEPT ![i] = NoReport]
        /\ CASE as = "keyboard" -> ProcessKbdReport(arrived[i])
             [] as = "mouse"    -> ProcessMouseReport
             [] OTHER           -> UNCHANGED <<prev, printed>>
        /\ last' = [usage |-> arrived[i].usage, as |-> as, known |-> Known(i, arrived[i])]
        /\ ReportReceivedCb(i, as)
        /\ mixed' = (mixed \/ (arrived[i].usage = "keyboard" /\ as # "keyboard"))
        /\ UNCHANGED <<program, load, devVars, mounted, info, pressed>>

-----------------------------------------------------------------------------
Callbacks == TuhHidMountCb \/ TuhHidReportReceivedCb
Next == Plug \/ Unplug \/ Press \/ Release \/ Shift \/ KeyboardReport \/ OtherReport \/ Callbacks
Spec == Init /\ [][Next]_vars

-----------------------------------------------------------------------------
\* Keys that were pressed and not yet printed: those of the report that has come,
\* and those of the next.
Waiting(i) ==
  LET came == IF arrived[i].usage = "keyboard" THEN arrived[i].keys ELSE prev
  IN  Typed(New(prev, came), arrived[i].shift)
      \o (IF told[i] = held[i] THEN <<>> ELSE Typed(New(came, held[i].keys), held[i].shift))

\* As long as one keyboard is used at a time, is released before it is unplugged,
\* and does not roll over, every key pressed is printed once, with its shift and
\* in the order they were pressed, whatever else is plugged in or reports.
TypedOnce ==
  ~mixed =>
    LET used == {i \in Instances : ~Unused(i)}
        rest == IF used = {} THEN <<>> ELSE Waiting(CHOOSE i \in used : TRUE)
    IN  Cardinality(used) <= 1 /\ printed \o Visible(rest) = Visible(pressed)

\* A mounted interface is asked for its next report unless one is waiting or the
\* stack has refused: no report silences it.  (otg asks keyboards and mice.)
ReportsGoOn ==
  \A i \in mounted : Polled(i) => asked[i] # "no" \/ arrived[i] # NoReport

\* A report is handled as what the device that sent it means it, or not at all:
\* never by the report descriptor of a device that was on the instance before.
HandledAsMeant ==
  last.as = IF last.known THEN last.usage ELSE "nothing"
=============================================================================
