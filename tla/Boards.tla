-------------------------------- MODULE Boards --------------------------------
(****************************************************************************)
(* A board: main of dfu.c decides what it runs, and then it runs one program,  *)
(* a USB demonstration or the boot loader over USB or I2C.  Each is a module   *)
(* of its own, with the constants below.  A behaviour is the decision, or one  *)
(* of the programs once it was started.                                      *)
(****************************************************************************)
EXTENDS DfuEntry, Sequences

CONSTANTS
  DevicePrograms, DeviceFifo, DeviceBufSize, Interval, MaxLate, Strings, MaxChars, DeviceLoads,
  DISK_BLOCK_NUM, Behind, Contents, Image, MaxLength,
  HidPrograms, Instances, Plain, KeySlots, HidLoads,
  HostBufSize, HostFifo, Sticks, HostLoads,
  Ports, BootFifo, Packet, Noise, Scripts,
  Rate, SofCount, SofMin, SofMax, SofJitter, Strange, MaxStrange,
  Bits, Gaps, EdgeJitter, MaxInits,
  Resting   \* bound: what a program that does not run is started with

VARIABLES
  program, load, devicePc, bus, busEvents, changes, blink, late, led, out, rx, tx, in, fetched,
  sent, echoed, overrun, ctl, asks, desc
deviceVars == <<program, load, devicePc, bus, busEvents, changes, blink, late, led, out, rx, tx, in,
                fetched, sent, echoed, overrun, ctl, asks, desc>>

VARIABLES memory, ejected, sense, cmd, done, status, got, kept
diskVars == <<memory, ejected, sense, cmd, done, status, got, kept>>

VARIABLES
  hidProgram, hidLoad, dev, interfaces, polled, arrived, info, held, told, prev, printed,
  typedKeys, mixed, last
hidVars == <<hidProgram, hidLoad, dev, interfaces, polled, arrived, info, held, told, prev, printed,
             typedKeys, mixed, last>>

VARIABLES
  hostLoad, hostPc, mounted, input, typed, nuls, hostTx, hostOut, taken, received, missed, hostRx,
  packets, stick, inquiry_resp, shown, crossed
hostVars == <<hostLoad, hostPc, mounted, input, typed, nuls, hostTx, hostOut, taken, received,
              missed, hostRx, packets, stick, inquiry_resp, shown, crossed>>

VARIABLES
  port, script, asker, bootSent, bootGot, bootPc, at, need, read, written, bootOut, bootRx,
  bootTx, bootIn, bootFetched
loaderVars == <<port, script, asker, bootSent, bootGot, bootPc, at, need, read, written, bootOut,
                bootRx, bootTx, bootIn, bootFetched>>

VARIABLES cal, before, frames, cycles, strange, odd
trimVars == <<cal, before, frames, cycles, strange, odd>>

VARIABLES bit, aligned, gap, lastGap, inits, uart_pulse, brd
baudVars == <<bit, aligned, gap, lastGap, inits, uart_pulse, brd>>

VARIABLE board   \* what the behaviour is about
boardVars == <<board, vars, deviceVars, diskVars, hidVars, hostVars, loaderVars, trimVars,
               baudVars>>

-----------------------------------------------------------------------------
Device == INSTANCE UsbDevice WITH
  Programs <- DevicePrograms, Fifo <- DeviceFifo, BufSize <- DeviceBufSize, Loads <- DeviceLoads,
  pc <- devicePc, events <- busEvents

Disk == INSTANCE UsbDisk

Hid == INSTANCE UsbHid WITH
  Programs <- HidPrograms, Loads <- HidLoads, program <- hidProgram, load <- hidLoad,
  mounted <- interfaces, asked <- polled, pressed <- typedKeys

Host == INSTANCE UsbHost WITH
  BufSize <- HostBufSize, Fifo <- HostFifo, Loads <- HostLoads,
  load <- hostLoad, pc <- hostPc, tx <- hostTx, out <- hostOut, rx <- hostRx, lost <- missed

Loader == INSTANCE BootInterface WITH
  Fifo <- BootFifo, host <- asker, sent <- bootSent, got <- bootGot, pc <- bootPc, taken <- read,
  out <- bootOut, rx <- bootRx, tx <- bootTx, in <- bootIn, fetched <- bootFetched

Trim == INSTANCE OscTrim WITH Jitter <- SofJitter, count <- frames

Baud == INSTANCE BaudRate WITH Jitter <- EdgeJitter, last <- lastGap

ASSUME BoardsAssumption ==
  /\ Device!UsbDeviceAssumption /\ Disk!UsbDiskAssumption
  /\ Hid!UsbHidAssumption /\ Host!UsbHostAssumption
  /\ Loader!InterfaceAssumption /\ Trim!TrimAssumption /\ Baud!BaudAssumption

-----------------------------------------------------------------------------
\* main has started the application or the loader.
Started ==
  /\ pc \in {"app", "boot"} /\ pc = IF board \in {"loader", "trim", "baud"} THEN "boot" ELSE "app"
  /\ build = [app |-> pc = "app", fpga |-> FALSE, button |-> FALSE]
  /\ por = FALSE /\ mscratch = "none" /\ scratch = "none"
  /\ fpga = "user" /\ corrupt = FALSE /\ clocks = "reset" /\ pressed = FALSE
  /\ events = MaxEvents /\ seen = TRUE /\ asked = FALSE /\ leftover = FALSE

\* The programs that do not run are kept in one of their initial states.
BoardInit ==
  /\ board \in {"entry", "device", "disk", "hid", "host", "loader", "trim", "baud"}
  /\ IF board = "entry" THEN Init ELSE Started
  /\ Device!Init /\ (board # "device" => <<program, load>> = Resting.device)
  /\ Disk!Init
  /\ Hid!Init /\ (board # "hid" => <<hidProgram, hidLoad>> = Resting.hid)
  /\ Host!Init /\ (board # "host" => hostLoad = Resting.host)
  /\ Loader!Init /\ (board # "loader" => <<port, script, asker>> = Resting.loader)
  /\ Trim!Init /\ (board # "trim" => cal = Resting.trim)
  /\ Baud!Init /\ (board # "baud" => <<aligned, bit>> = Resting.baud)

OnlyEntry ==
  board = "entry" /\ UNCHANGED <<board, deviceVars, diskVars, hidVars, hostVars, loaderVars, trimVars, baudVars>>
OnlyDevice ==
  board = "device" /\ UNCHANGED <<board, vars, diskVars, hidVars, hostVars, loaderVars, trimVars, baudVars>>
OnlyDisk ==
  board = "disk" /\ UNCHANGED <<board, vars, deviceVars, hidVars, hostVars, loaderVars, trimVars, baudVars>>
OnlyHid ==
  board = "hid" /\ UNCHANGED <<board, vars, deviceVars, diskVars, hostVars, loaderVars, trimVars, baudVars>>
OnlyHost ==
  board = "host" /\ UNCHANGED <<board, vars, deviceVars, diskVars, hidVars, loaderVars, trimVars, baudVars>>
OnlyLoader ==
  board = "loader" /\ UNCHANGED <<board, vars, deviceVars, diskVars, hidVars, hostVars, trimVars, baudVars>>
OnlyTrim ==
  board = "trim" /\ UNCHANGED <<board, vars, deviceVars, diskVars, hidVars, hostVars, loaderVars, baudVars>>
OnlyBaud ==
  board = "baud" /\ UNCHANGED <<board, vars, deviceVars, diskVars, hidVars, hostVars, loaderVars, trimVars>>

BoardNext ==
  \/ OnlyEntry /\ Next
  \/ OnlyDevice /\ Device!Next
  \/ OnlyDisk /\ Disk!Next
  \/ OnlyHid /\ Hid!Next
  \/ OnlyHost /\ Host!Next
  \/ OnlyLoader /\ Loader!Next
  \/ OnlyTrim /\ Trim!Next
  \/ OnlyBaud /\ Baud!Next

\* The fairness of the programs: the processor goes on (and the host sends frames), time
\* passes or the host of the loader goes on, and that of the device fetches what it gets.
Runs ==
  \/ OnlyEntry /\ Main
  \/ OnlyDevice /\ Device!Main
  \/ OnlyLoader /\ Loader!Loader
  \/ OnlyTrim /\ Trim!Next
Passes ==
  \/ OnlyDevice /\ Device!Tick
  \/ OnlyLoader /\ Loader!Host
Fetches == OnlyDevice /\ Device!HostFetches

BoardSpec ==
  /\ BoardInit /\ [][BoardNext]_boardVars
  /\ WF_boardVars(Runs) /\ WF_boardVars(Passes) /\ WF_boardVars(Fetches)

-----------------------------------------------------------------------------
\* The USB device: the echo is what came, strings come whole, the LED shows the state of
\* a mounted device, and the disk holds what was written to it.
DeviceServes ==
  /\ Device!TypeOK
  /\ Device!EchoIsWhatCame
  /\ Device!StringsAreWhole
  /\ Device!BlinkWhenMounted
  /\ Disk!DiskIsAsWritten

\* The USB hosts: every key is printed once and each report handled as what it is, no
\* device falls silent, the console is forwarded, and a stick is shown under its name.
HostServes ==
  /\ Hid!TypedOnce
  /\ Hid!ReportsGoOn
  /\ Hid!HandledAsMeant
  /\ Host!ConsoleForwarded
  /\ Host!InquiryIsOwn

\* The boot loader over USB and I2C: no byte is lost, doubled or out of place in either
\* direction, question and answer keep in step, and the last answer is not cut off.
LoaderExchanges ==
  /\ Loader!TakenInOrder
  /\ Loader!AnswersInOrder
  /\ Loader!NothingCutOff
  /\ Loader!InStep

\* The clocks of the loader: the oscillator is never moved away from its frequency by
\* frames the host sent; the UART gets the baud rate of the host,
\* with no more than two INITs if the loader listened in time.
KeepsTime == Trim!NeverWorse /\ [](Baud!BaudIsRight /\ Baud!TwoInits)

\* Every program goes on: main comes to a program, the oscillator to its frequency where it
\* stays, the echo arrives, the host can always
\* send more, the LED blinks, and the host of the loader comes to the end of its script.
EverythingGoesOn ==
  /\ Settles /\ Trim!Settles
  /\ Device!EchoArrives
  /\ Device!HostGoesOn
  /\ Device!LedGoesOn
  /\ []<>(board = "loader" => Loader!ScriptEnded)
=============================================================================
