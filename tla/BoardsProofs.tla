----------------------------- MODULE BoardsProofs -----------------------------
(****************************************************************************)
(* What a board promises holds for every value of the constants: main of     *)
(* dfu.c, for every set of builds and any number of disturbances, and the     *)
(* programs it starts.  Each part has an invariant of its own, over the       *)
(* variables of its program: the steps of the others leave them alone.        *)
(****************************************************************************)
EXTENDS Boards, Filters, FiniteSets, FiniteSetTheorems, FunctionTheorems, SequenceTheorems, TLAPS

(****************************************************************************)
(* main of dfu.c.  None of its properties is inductive alone: what mscratch   *)
(* may hold at each point of main ties the two starts together.              *)
(****************************************************************************)

(* The message to the second start is there only when the button was read; *)
(* the loader and the application are entered with an empty register.      *)
Handshake ==
  /\ pc \in {"configure", "button", "software", "decided", "enter", "boot", "app"}
     => ~build.app \/ mscratch = "none"
  /\ pc \in {"clear", "read", "button", "software", "decided", "restart", "app"} => build.app
  /\ pc = "start" /\ mscratch = "app" => ~build.app \/ por \/ seen \/ leftover
  /\ pc = "read" /\ mscratch = "app" => seen \/ leftover
  /\ pc = "app" => seen \/ leftover
  /\ pc \in {"software", "decided", "restart"} => seen

(* Where the request for the loader is while it is on its way. *)
Request ==
  /\ build.app /\ pc # "start" => ~por
  /\ asked => ~por /\ build.app
  /\ asked => \/ pc \in {"start", "read"} /\ mscratch = "dfu"
              \/ pc \in {"configure", "button", "software"} /\ scratch = "dfu"
              \/ pc = "enter"

(* What main has changed of the hardware at each point. *)
Hardware ==
  /\ pc \in {"start", "clear", "read", "app"} => fpga # "minimal" /\ clocks = "reset"
  /\ pc \in {"button", "software", "decided", "enter", "boot"} /\ build.fpga => fpga = "minimal"
  /\ pc = "boot" => clocks = "reset"

EntryIInv == TypeOK /\ Handshake /\ Request /\ Hardware

LEMMA InitEntryIInv == Init => EntryIInv
<1> SUFFICES ASSUME Init PROVE EntryIInv
  OBVIOUS
<1> USE DEF Init
<1>1. TypeOK
  <2>1. events \in 0 .. MaxEvents BY EntryAssumption
  <2>2. QED BY <2>1 DEF TypeOK, Magic
<1>2. Handshake BY DEF Handshake
<1>3. Request BY DEF Request
<1>4. Hardware BY DEF Hardware
<1>5. QED BY <1>1, <1>2, <1>3, <1>4 DEF EntryIInv

(* Each step of main keeps the invariant. *)
LEMMA MainEntryIInv == EntryIInv /\ Main => EntryIInv'
<1> SUFFICES ASSUME EntryIInv, Main PROVE EntryIInv'
  OBVIOUS
<1> USE DEF EntryIInv, histories
<1>1. CASE ClearAfterPowerOn
  <2>1. TypeOK' BY <1>1, ZenonT(60) DEF ClearAfterPowerOn, TypeOK, Magic
  <2>2. Handshake' BY <1>1 DEF ClearAfterPowerOn, TypeOK, Magic, Handshake, Request
  <2>3. Request' BY <1>1 DEF ClearAfterPowerOn, TypeOK, Magic, Handshake, Request
  <2>4. Hardware' BY <1>1 DEF ClearAfterPowerOn, TypeOK, Magic, Handshake, Hardware
  <2> QED BY <2>1, <2>2, <2>3, <2>4
<1>a. CASE ClearScratch
  <2>1. TypeOK' BY <1>a DEF ClearScratch, TypeOK, Magic
  <2>2. Handshake' BY <1>a DEF ClearScratch, TypeOK, Magic, Handshake, Request
  <2>3. Request' BY <1>a DEF ClearScratch, TypeOK, Magic, Handshake, Request
  <2>4. Hardware' BY <1>a DEF ClearScratch, TypeOK, Magic, Handshake, Hardware
  <2> QED BY <2>1, <2>2, <2>3, <2>4
<1>2. CASE ReadScratch
  <2>1. TypeOK' BY <1>2 DEF ReadScratch, TypeOK, Magic
  <2>2. Handshake' BY <1>2 DEF ReadScratch, TypeOK, Magic, Handshake, Request
  <2>3. Request' BY <1>2 DEF ReadScratch, TypeOK, Magic, Handshake, Request
  <2>4. Hardware' BY <1>2 DEF ReadScratch, TypeOK, Magic, Handshake, Hardware
  <2> QED BY <2>1, <2>2, <2>3, <2>4
<1>3. CASE NoApplication
  <2>1. TypeOK' BY <1>3 DEF NoApplication, TypeOK, Magic
  <2>2. Handshake' BY <1>3 DEF NoApplication, TypeOK, Magic, Handshake, Request
  <2>3. Request' BY <1>3 DEF NoApplication, TypeOK, Magic, Handshake, Request
  <2>4. Hardware' BY <1>3 DEF NoApplication, TypeOK, Magic, Handshake, Hardware
  <2> QED BY <2>1, <2>2, <2>3, <2>4
<1>4. CASE MinimalConfig
  <2>1. TypeOK' BY <1>4 DEF MinimalConfig, TypeOK, Magic
  <2>2. Handshake' BY <1>4 DEF MinimalConfig, TypeOK, Magic, Handshake, Request
  <2>3. Request' BY <1>4 DEF MinimalConfig, TypeOK, Magic, Handshake, Request
  <2>4. Hardware' BY <1>4 DEF MinimalConfig, TypeOK, Magic, Handshake, Hardware
  <2> QED BY <2>1, <2>2, <2>3, <2>4
<1>5. CASE Button
  <2>1. TypeOK' BY <1>5 DEF Button, TypeOK, Magic
  <2>2. Handshake' BY <1>5 DEF Button, TypeOK, Magic, Handshake, Request
  <2>3. Request' BY <1>5 DEF Button, TypeOK, Magic, Handshake, Request
  <2>4. Hardware' BY <1>5 DEF Button, TypeOK, Magic, Handshake, Hardware
  <2> QED BY <2>1, <2>2, <2>3, <2>4
<1>6. CASE SoftwareDfu
  <2>1. TypeOK' BY <1>6 DEF SoftwareDfu, TypeOK, Magic
  <2>2. Handshake' BY <1>6 DEF SoftwareDfu, TypeOK, Magic, Handshake, Request
  <2>3. Request' BY <1>6 DEF SoftwareDfu, TypeOK, Magic, Handshake, Request
  <2>4. Hardware' BY <1>6 DEF SoftwareDfu, TypeOK, Magic, Handshake, Hardware
  <2> QED BY <2>1, <2>2, <2>3, <2>4
<1>7. CASE Decide
  <2>1. TypeOK' BY <1>7 DEF Decide, TypeOK, Magic
  <2>2. Handshake' BY <1>7 DEF Decide, TypeOK, Magic, Handshake, Request
  <2>3. Request' BY <1>7 DEF Decide, TypeOK, Magic, Handshake, Request
  <2>4. Hardware' BY <1>7 DEF Decide, TypeOK, Magic, Handshake, Hardware
  <2> QED BY <2>1, <2>2, <2>3, <2>4
<1>8. CASE Restart
  <2>1. TypeOK' BY <1>8 DEF Restart, Reset, TypeOK, Magic
  <2>2. Handshake' BY <1>8 DEF Restart, Reset, TypeOK, Magic, Handshake, Request
  <2>3. Request' BY <1>8 DEF Restart, Reset, TypeOK, Magic, Handshake, Request
  <2>4. Hardware' BY <1>8 DEF Restart, Reset, TypeOK, Magic, Handshake, Hardware
  <2> QED BY <2>1, <2>2, <2>3, <2>4
<1>9. CASE EnterBoot
  <2>1. TypeOK' BY <1>9 DEF EnterBoot, TypeOK, Magic
  <2>2. Handshake' BY <1>9 DEF EnterBoot, TypeOK, Magic, Handshake, Request
  <2>3. Request' BY <1>9 DEF EnterBoot, TypeOK, Magic, Handshake, Request
  <2>4. Hardware' BY <1>9 DEF EnterBoot, TypeOK, Magic, Handshake, Hardware
  <2> QED BY <2>1, <2>2, <2>3, <2>4
<1>10. QED BY <1>1, <1>a, <1>2, <1>3, <1>4, <1>5, <1>6, <1>7, <1>8, <1>9 DEF Main

LEMMA NextEntryIInv == EntryIInv /\ [Next]_vars => EntryIInv'
<1> SUFFICES ASSUME EntryIInv, [Next]_vars PROVE EntryIInv'
  OBVIOUS
<1>1. CASE Main BY <1>1, MainEntryIInv
<1> USE DEF EntryIInv, TypeOK, Handshake, Request, Hardware, Magic, histories
<1>2. ASSUME NEW m \in {"none", "dfu", "other"}, AppReset(m) PROVE EntryIInv'
  BY <1>2 DEF AppReset, Reset
<1>3. CASE BootReset BY <1>3 DEF BootReset, Reset
<1>4. CASE BootWrites BY <1>4 DEF BootWrites
<1>5. CASE PowerCycle
  <2>1. events' \in 0 .. MaxEvents BY <1>5, EntryAssumption DEF PowerCycle, Event
  <2>2. TypeOK' BY <1>5, <2>1 DEF PowerCycle, Reset
  <2>3. (Handshake /\ Request /\ Hardware)' BY <1>5 DEF PowerCycle, Reset
  <2>4. QED BY <2>2, <2>3
<1>6. CASE ExternalReset
  <2>1. events' \in 0 .. MaxEvents BY <1>6, EntryAssumption DEF ExternalReset, Event
  <2>2. TypeOK' BY <1>6, <2>1 DEF ExternalReset, Reset
  <2>3. (Handshake /\ Request /\ Hardware)' BY <1>6 DEF ExternalReset, Reset
  <2>4. QED BY <2>2, <2>3
<1>7. CASE Press BY <1>7, EntryAssumption DEF Press, Event
<1>8. CASE UNCHANGED vars BY <1>8 DEF vars
<1>9. QED BY <1>1, <1>2, <1>3, <1>4, <1>5, <1>6, <1>7, <1>8 DEF Next

LEMMA AlwaysEntryIInv == Spec => []EntryIInv
BY InitEntryIInv, NextEntryIInv, PTL DEF Spec

(* Whatever mscratch held when power came on, and wherever in main a reset *)
(* came, the application starts only after the button was looked at (lines *)
(* 39 to 48 and 77 to 91 of dfu.c), unless a reset between the lines 40    *)
(* and 41 has left the register as it was at power on.                     *)
THEOREM ButtonAlwaysFirst == Spec => []ButtonFirst
<1>1. EntryIInv => ButtonFirst BY DEF EntryIInv, Handshake, ButtonFirst
<1>2. QED BY <1>1, AlwaysEntryIInv, PTL

(* The application never runs on the loader's FPGA configuration or clocks *)
(* (line 88 of dfu.c), for any build and any number of resets.             *)
THEOREM AppAlwaysUntouched == Spec => []AppUntouched
<1>1. EntryIInv => AppUntouched BY DEF EntryIInv, Hardware, AppUntouched
<1>2. QED BY <1>1, AlwaysEntryIInv, PTL

(* The loader has its own FPGA configuration and the clocks of a reset     *)
(* whatever the flash holds (lines 30, 31 and 57 to 63 of dfu.c).          *)
THEOREM LoaderAlwaysWorks == Spec => []LoaderWorks
<1>1. EntryIInv => LoaderWorks BY DEF EntryIInv, Hardware, LoaderWorks
<1>2. QED BY <1>1, AlwaysEntryIInv, PTL

(* A request for the loader through mscratch is never answered by starting *)
(* the application (lines 83 to 86 of dfu.c).                              *)
THEOREM RequestHonoured == Spec => []AskedForLoader
<1>1. EntryIInv => AskedForLoader BY DEF EntryIInv, Request, AskedForLoader
<1>2. QED BY <1>1, AlwaysEntryIInv, PTL

-----------------------------------------------------------------------------
(****************************************************************************)
(* The programs of a board run one at a time: a step of the board is one of   *)
(* the program and leaves the others alone, or leaves the program alone.     *)
(****************************************************************************)
LEMMA EntrySteps == [BoardNext]_boardVars => [Next]_vars
BY DEF BoardNext, boardVars, vars, OnlyEntry, OnlyDevice, OnlyDisk, OnlyHid, OnlyHost,
  OnlyLoader, OnlyTrim, OnlyBaud

LEMMA DeviceSteps == [BoardNext]_boardVars => [Device!Next]_deviceVars
BY DEF BoardNext, boardVars, deviceVars, OnlyEntry, OnlyDevice, OnlyDisk, OnlyHid, OnlyHost,
  OnlyLoader, OnlyTrim, OnlyBaud

LEMMA DiskSteps == [BoardNext]_boardVars => [Disk!Next]_diskVars
BY DEF BoardNext, boardVars, diskVars, OnlyEntry, OnlyDevice, OnlyDisk, OnlyHid, OnlyHost,
  OnlyLoader, OnlyTrim, OnlyBaud

LEMMA HidSteps == [BoardNext]_boardVars => [Hid!Next]_hidVars
BY DEF BoardNext, boardVars, hidVars, OnlyEntry, OnlyDevice, OnlyDisk, OnlyHid, OnlyHost,
  OnlyLoader, OnlyTrim, OnlyBaud

LEMMA HostSteps == [BoardNext]_boardVars => [Host!Next]_hostVars
BY DEF BoardNext, boardVars, hostVars, OnlyEntry, OnlyDevice, OnlyDisk, OnlyHid, OnlyHost,
  OnlyLoader, OnlyTrim, OnlyBaud

LEMMA LoaderSteps == [BoardNext]_boardVars => [Loader!Next]_loaderVars
BY DEF BoardNext, boardVars, loaderVars, OnlyEntry, OnlyDevice, OnlyDisk, OnlyHid, OnlyHost,
  OnlyLoader, OnlyTrim, OnlyBaud

(* main, or the program it has started and that it does not see any more. *)
BoardEntryIInv == IF board = "entry" THEN EntryIInv ELSE Started

LEMMA InitBoardEntry == BoardInit => BoardEntryIInv
BY InitEntryIInv DEF BoardInit, BoardEntryIInv

LEMMA NextBoardEntry == BoardEntryIInv /\ [BoardNext]_boardVars => BoardEntryIInv'
<1> SUFFICES ASSUME BoardEntryIInv, [BoardNext]_boardVars PROVE BoardEntryIInv'
  OBVIOUS
<1>1. board' = board
  BY DEF BoardNext, boardVars, OnlyEntry, OnlyDevice, OnlyDisk, OnlyHid, OnlyHost, OnlyLoader,
    OnlyTrim, OnlyBaud
<1>2. CASE board = "entry" BY <1>1, <1>2, EntrySteps, NextEntryIInv DEF BoardEntryIInv
<1>3. CASE board # "entry"
  <2>1. UNCHANGED vars
    BY <1>3 DEF BoardNext, boardVars, OnlyEntry, OnlyDevice, OnlyDisk, OnlyHid, OnlyHost,
      OnlyLoader, OnlyTrim, OnlyBaud
  <2>2. Started' BY <1>1, <1>3, <2>1 DEF BoardEntryIInv, Started, vars, histories
  <2>3. QED BY <1>1, <1>3, <2>2 DEF BoardEntryIInv
<1>4. QED BY <1>2, <1>3

(* On a board main keeps its promises as it does alone, and what it has       *)
(* started finds what it promised.                                          *)
THEOREM BoardsStart == BoardSpec => [](ButtonFirst /\ AppUntouched /\ LoaderWorks /\ AskedForLoader)
<1>1. BoardEntryIInv => ButtonFirst /\ AppUntouched /\ LoaderWorks /\ AskedForLoader
  BY DEF BoardEntryIInv, EntryIInv, Handshake, Request, Hardware, Started, ButtonFirst, AppUntouched,
    LoaderWorks, AskedForLoader
<1>2. QED BY <1>1, InitBoardEntry, NextBoardEntry, PTL DEF BoardSpec

-----------------------------------------------------------------------------
(****************************************************************************)
(* The RAM disk.  Where a command has got to, and that the disk holds what    *)
(* kept says, makes what it promises about reads and statuses inductive.     *)
(****************************************************************************)
DiskCommand ==
  /\ cmd \in [op : Disk!Commands \cup {"none"}, lba : Nat, n : Nat, data : Contents \cup {Disk!Other},
              start : BOOLEAN, eject : BOOLEAN]
  /\ cmd.op \in {"read10", "write10"} => cmd.n > 0
  /\ status \in {"busy", "passed", "failed", "unplugged"}

DiskContent ==
  /\ memory \in [Disk!Memory -> Contents \cup {Disk!Other}]
  /\ kept \in [Disk!Disk -> Contents \cup {Disk!Other}]
  /\ \A b \in Disk!Disk : memory[b] = kept[b]
  /\ \A b \in Disk!Memory \ Disk!Disk : memory[b] = Disk!Other

DiskProgress ==
  cmd.op \in {"read10", "write10"} =>
    /\ done \in 0 .. cmd.n
    /\ done > 0 => cmd.lba + done - 1 < DISK_BLOCK_NUM
    /\ status = "passed" => done = cmd.n
    /\ status = "failed" => cmd.lba + cmd.n - 1 >= DISK_BLOCK_NUM

DiskRead == cmd.op = "read10" => got = [k \in 1 .. done |-> kept[cmd.lba + k - 1]]

DiskIInv == DiskCommand /\ DiskContent /\ DiskProgress /\ DiskRead

LEMMA InitDisk == Disk!Init => DiskIInv
<1> SUFFICES ASSUME Disk!Init PROVE DiskIInv
  OBVIOUS
<1> USE DEF Disk!Init
<1>1. DiskCommand BY DEF DiskCommand, Disk!NoCommand, Disk!Other
<1>2. DiskContent
  BY BoardsAssumption DEF DiskContent, Disk!UsbDiskAssumption, Disk!Disk, Disk!Memory
<1>3. DiskProgress /\ DiskRead BY DEF DiskProgress, DiskRead, Disk!NoCommand
<1>4. QED BY <1>1, <1>2, <1>3 DEF DiskIInv

(* A new command has read nothing and has not ended. *)
LEMMA DiskAsks ==
  ASSUME DiskIInv, NEW c, Disk!Asks(c),
         c \in [op : Disk!Commands, lba : Nat, n : Nat, data : Contents \cup {Disk!Other},
                start : BOOLEAN, eject : BOOLEAN],
         c.op \in {"read10", "write10"} => c.n > 0
  PROVE  DiskIInv'
<1> USE DEF Disk!Asks, DiskIInv
<1>1. DiskCommand' BY DEF DiskCommand
<1>2. DiskContent' BY DEF DiskContent
<1>3. DiskProgress' BY DEF DiskProgress
<1>4. DiskRead'
  <2>1. [k \in 1 .. 0 |-> kept[c.lba + k - 1]] = <<>> OBVIOUS
  <2>2. QED BY <2>1 DEF DiskRead
<1>5. QED BY <1>1, <1>2, <1>3, <1>4

(* A command that is neither a read nor a write changes nothing but how it    *)
(* ended.                                                                   *)
LEMMA DiskOthers ==
  ASSUME DiskIInv, NEW s \in {"passed", "failed"}, status' = s, UNCHANGED <<memory, cmd, done, got, kept>>,
         cmd.op \notin {"read10", "write10"}
  PROVE  DiskIInv'
BY DEF DiskIInv, DiskCommand, DiskContent, DiskProgress, DiskRead, Disk!Memory, Disk!Disk

LEMMA NextDisk == DiskIInv /\ [Disk!Next]_diskVars => DiskIInv'
<1> SUFFICES ASSUME DiskIInv, [Disk!Next]_diskVars PROVE DiskIInv'
  OBVIOUS
<1>1. CASE Disk!HostCommands
  <2> DEFINE Records == [op : Disk!Commands, lba : Nat, n : Nat, data : Contents \cup {Disk!Other},
                         start : BOOLEAN, eject : BOOLEAN]
  <2>1. ASSUME NEW op \in Disk!Commands \ {"start_stop", "read10", "write10"},
               Disk!Asks([Disk!NoCommand EXCEPT !.op = op])
        PROVE  DiskIInv'
    <3> DEFINE c == [Disk!NoCommand EXCEPT !.op = op]
    <3>1. c \in Records /\ c.op = op BY DEF Disk!NoCommand, Disk!Commands
    <3>2. QED BY <2>1, <3>1, DiskAsks
  <2>2. ASSUME NEW start \in BOOLEAN, NEW eject \in BOOLEAN,
               Disk!Asks([Disk!NoCommand EXCEPT !.op = "start_stop", !.start = start, !.eject = eject])
        PROVE  DiskIInv'
    <3> DEFINE c == [Disk!NoCommand EXCEPT !.op = "start_stop", !.start = start, !.eject = eject]
    <3>1. c \in Records /\ c.op = "start_stop" BY DEF Disk!NoCommand, Disk!Commands
    <3>2. QED BY <2>2, <3>1, DiskAsks
  <2>3. ASSUME NEW lba \in Disk!Memory, NEW n \in 1 .. MaxLength,
               Disk!Asks([Disk!NoCommand EXCEPT !.op = "read10", !.lba = lba, !.n = n])
        PROVE  DiskIInv'
    <3> DEFINE c == [Disk!NoCommand EXCEPT !.op = "read10", !.lba = lba, !.n = n]
    <3>0. lba \in Nat /\ n \in Nat /\ n > 0
      BY BoardsAssumption DEF Disk!Memory, Disk!UsbDiskAssumption
    <3>1. c \in Records /\ c.op = "read10" /\ c.n > 0
      <4> DEFINE c1 == [Disk!NoCommand EXCEPT !.op = "read10"]
                 c2 == [c1 EXCEPT !.lba = lba]
                 c3 == [c2 EXCEPT !.n = n]
      <4>1. c1 \in Records /\ c1.op = "read10" BY DEF Disk!NoCommand, Disk!Commands
      <4> HIDE DEF c1
      <4>2. c2 \in Records /\ c2.op = "read10" BY <3>0, <4>1
      <4> HIDE DEF c2
      <4>3. c3 \in Records /\ c3.op = "read10" /\ c3.n = n BY <3>0, <4>2
      <4>4. QED BY <3>0, <4>3 DEF c1, c2
    <3>2. QED BY <2>3, <3>1, DiskAsks
  <2>4. ASSUME NEW lba \in Disk!Memory, NEW n \in 1 .. MaxLength, NEW d \in Contents,
               Disk!Asks([Disk!NoCommand EXCEPT !.op = "write10", !.lba = lba, !.n = n, !.data = d])
        PROVE  DiskIInv'
    <3> DEFINE c == [Disk!NoCommand EXCEPT !.op = "write10", !.lba = lba, !.n = n, !.data = d]
    <3>0. lba \in Nat /\ n \in Nat /\ n > 0
      BY BoardsAssumption DEF Disk!Memory, Disk!UsbDiskAssumption
    <3>1. c \in Records /\ c.op = "write10" /\ c.n > 0
      <4> DEFINE c1 == [Disk!NoCommand EXCEPT !.op = "write10"]
                 c2 == [c1 EXCEPT !.lba = lba]
                 c3 == [c2 EXCEPT !.n = n]
                 c4 == [c3 EXCEPT !.data = d]
      <4>1. c1 \in Records /\ c1.op = "write10" BY DEF Disk!NoCommand, Disk!Commands
      <4> HIDE DEF c1
      <4>2. c2 \in Records /\ c2.op = "write10" BY <3>0, <4>1
      <4> HIDE DEF c2
      <4>3. c3 \in Records /\ c3.op = "write10" /\ c3.n = n BY <3>0, <4>2
      <4> HIDE DEF c3
      <4>4. c4 \in Records /\ c4.op = "write10" /\ c4.n = n BY <4>3
      <4>5. QED BY <3>0, <4>4 DEF c1, c2, c3
    <3>2. QED BY <2>4, <3>1, DiskAsks
  <2>5. QED BY <1>1, <2>1, <2>2, <2>3, <2>4 DEF Disk!HostCommands
<1>2. CASE Disk!Unplugged
  BY <1>2 DEF Disk!Unplugged, DiskIInv, DiskCommand, DiskContent, DiskProgress, DiskRead
<1>3. CASE Disk!TudMscInquiryCb \/ Disk!TudMscCapacityCb \/ Disk!TudMscScsiCb
  BY <1>3, DiskOthers DEF Disk!TudMscInquiryCb, Disk!TudMscCapacityCb, Disk!TudMscScsiCb, Disk!Handles, Disk!Ends
<1>4. CASE Disk!TudMscTestUnitReadyCb \/ Disk!TudMscStartStopCb
  BY <1>4, DiskOthers DEF Disk!TudMscTestUnitReadyCb, Disk!TudMscStartStopCb, Disk!Handles, Disk!Ends
<1>5. ASSUME NEW op \in {"read10", "write10"}, Disk!OutOfDisk(op) \/ Disk!BlocksDone(op) PROVE DiskIInv'
  <2>1. DiskCommand' /\ DiskContent' /\ DiskRead'
    BY <1>5 DEF Disk!OutOfDisk, Disk!BlocksDone, Disk!Ends, DiskIInv, DiskCommand, DiskContent, DiskRead
  <2>2. DiskProgress'
    BY <1>5, BoardsAssumption DEF Disk!OutOfDisk, Disk!BlocksDone, Disk!Ends, Disk!Handles, Disk!Lba,
      DiskIInv, DiskCommand, DiskProgress, Disk!UsbDiskAssumption
  <2>3. QED BY <2>1, <2>2 DEF DiskIInv
<1>6. CASE Disk!TudMscRead10Cb
  <2>1. CASE Disk!OutOfDisk("read10") BY <2>1, <1>5
  <2>2. CASE Disk!Handles("read10") /\ done < cmd.n /\ Disk!Lba < DISK_BLOCK_NUM
             /\ got' = Append(got, memory[Disk!Lba]) /\ done' = done + 1
             /\ UNCHANGED <<memory, ejected, sense, cmd, status, kept>>
    <3>1. DiskCommand' /\ DiskContent' BY <2>2 DEF DiskIInv, DiskCommand, DiskContent
    <3>2. DiskProgress'
      BY <2>2, BoardsAssumption DEF DiskIInv, DiskCommand, DiskProgress, Disk!Lba, Disk!Handles,
        Disk!UsbDiskAssumption
    <3>3. done \in Nat /\ cmd.lba \in Nat /\ cmd.op = "read10"
      BY <2>2 DEF DiskIInv, DiskCommand, DiskProgress, Disk!Handles
    <3>4. memory[Disk!Lba] = kept[cmd.lba + done]
      BY <2>2, <3>3, BoardsAssumption DEF DiskIInv, DiskContent, Disk!Lba, Disk!Disk, Disk!UsbDiskAssumption
    <3>5. Append([k \in 1 .. done |-> kept[cmd.lba + k - 1]], kept[cmd.lba + done])
          = [k \in 1 .. done + 1 |-> kept[cmd.lba + k - 1]]
      BY <3>3
    <3>6. DiskRead' BY <2>2, <3>3, <3>4, <3>5 DEF DiskIInv, DiskRead
    <3>7. QED BY <3>1, <3>2, <3>6 DEF DiskIInv
  <2>3. QED BY <1>6, <2>1, <2>2 DEF Disk!TudMscRead10Cb
<1>7. CASE Disk!TudMscWrite10Cb
  <2>1. CASE Disk!OutOfDisk("write10") BY <2>1, <1>5
  <2>2. CASE Disk!Handles("write10") /\ done < cmd.n /\ Disk!Lba < DISK_BLOCK_NUM
             /\ memory' = [memory EXCEPT ![Disk!Lba] = cmd.data] /\ done' = done + 1
             /\ kept' = [kept EXCEPT ![Disk!Lba] = cmd.data]
             /\ UNCHANGED <<ejected, sense, cmd, status, got>>
    <3>1. DiskCommand' BY <2>2 DEF DiskIInv, DiskCommand
    <3>2. DiskProgress' /\ DiskRead'
      BY <2>2, BoardsAssumption DEF DiskIInv, DiskCommand, DiskProgress, DiskRead, Disk!Lba, Disk!Handles,
        Disk!UsbDiskAssumption
    <3>3. Disk!Lba \in Disk!Disk
      BY <2>2, BoardsAssumption DEF DiskIInv, DiskCommand, DiskProgress, Disk!Lba, Disk!Handles, Disk!Disk,
        Disk!UsbDiskAssumption
    <3>4. DiskContent'
      <4> DEFINE l == Disk!Lba
      <4>1. memory' = [memory EXCEPT ![l] = cmd.data] /\ kept' = [kept EXCEPT ![l] = cmd.data]
        BY <2>2
      <4>2. l \in Disk!Disk /\ l \in Disk!Memory
        BY <3>3, BoardsAssumption DEF Disk!Disk, Disk!Memory, Disk!UsbDiskAssumption
      <4>3. cmd.data \in Contents \cup {Disk!Other} BY DEF DiskIInv, DiskCommand
      <4> HIDE DEF l
      <4>4. QED BY <4>1, <4>2, <4>3 DEF DiskIInv, DiskContent
    <3>5. QED BY <3>1, <3>2, <3>4 DEF DiskIInv
  <2>3. QED BY <1>7, <2>1, <2>2 DEF Disk!TudMscWrite10Cb
<1>8. CASE UNCHANGED diskVars
  BY <1>8 DEF diskVars, DiskIInv, DiskCommand, DiskContent, DiskProgress, DiskRead
<1>9. QED BY <1>1, <1>2, <1>3, <1>4, <1>5, <1>6, <1>7, <1>8 DEF Disk!Next, Disk!Callbacks

LEMMA DiskKeepsWhatWasWritten == DiskIInv => Disk!DiskIsAsWritten
<1> SUFFICES ASSUME DiskIInv PROVE Disk!DiskIsAsWritten
  OBVIOUS
<1>1. \A b \in Disk!Memory \ Disk!Disk : memory[b] = Disk!Other BY DEF DiskIInv, DiskContent
<1>2. cmd.op = "read10" => got = [k \in 1 .. done |-> kept[cmd.lba + k - 1]] BY DEF DiskIInv, DiskRead
<1>3. cmd.op \in {"read10", "write10"} =>
       /\ status = "passed" => done = cmd.n /\ cmd.lba + cmd.n - 1 \in Disk!Disk
       /\ status = "failed" => cmd.lba + cmd.n - 1 \notin Disk!Disk
  BY BoardsAssumption DEF DiskIInv, DiskCommand, DiskProgress, Disk!Disk, Disk!UsbDiskAssumption
<1>4. QED BY <1>1, <1>2, <1>3 DEF Disk!DiskIsAsWritten

-----------------------------------------------------------------------------
(****************************************************************************)
(* Sequences of numbers: parts that follow each other, and what is left in    *)
(* order when a part is dropped.                                            *)
(****************************************************************************)
LEMMA Joined ==
  ASSUME NEW a \in Seq(Nat), NEW b \in Seq(Nat)
  PROVE  a \o b \in Seq(Nat) /\ Len(a \o b) = Len(a) + Len(b)
BY ConcatProperties

LEMMA Assoc ==
  ASSUME NEW a \in Seq(Nat), NEW b \in Seq(Nat), NEW c \in Seq(Nat)
  PROVE  (a \o b) \o c = a \o (b \o c)
BY ConcatAssociative

LEMMA Cut ==
  ASSUME NEW S, NEW s \in Seq(S), NEW n \in 0 .. Len(s)
  PROVE  /\ SubSeq(s, 1, n) \in Seq(S) /\ SubSeq(s, n + 1, Len(s)) \in Seq(S)
         /\ Len(SubSeq(s, 1, n)) = n /\ Len(SubSeq(s, n + 1, Len(s))) = Len(s) - n
         /\ SubSeq(s, 1, n) \o SubSeq(s, n + 1, Len(s)) = s
<1>1. \A k \in 1 .. Len(s) : s[k] \in S OBVIOUS
<1>2. SubSeq(s, 1, n) \in Seq(S) /\ Len(SubSeq(s, 1, n)) = n BY <1>1, SubSeqProperties
<1>3. SubSeq(s, n + 1, Len(s)) \in Seq(S) /\ Len(SubSeq(s, n + 1, Len(s))) = Len(s) - n
  BY <1>1, SubSeqProperties
<1>4. SubSeq(s, 1, n) \o SubSeq(s, n + 1, Len(s)) = SubSeq(s, 1, Len(s))
  <2>1. 1 \in 1 .. Len(s) + 1 /\ n \in 1 - 1 .. Len(s) /\ Len(s) \in n .. Len(s) OBVIOUS
  <2>2. QED BY <2>1, ConcatAdjacentSubSeq
<1>5. QED BY <1>2, <1>3, <1>4, SubSeqFull

(* The same with a name the provers do not look into. *)
Cat(a, b) == a \o b

LEMMA CatAt ==
  ASSUME NEW a \in Seq(Nat), NEW b \in Seq(Nat), NEW k \in 1 .. Len(b)
  PROVE  (a \o b)[Len(a) + k] = b[k]
<1>1. Len(a) \in Nat /\ Len(b) \in Nat OBVIOUS
<1>2. Len(a) + k \in 1 .. Len(a) + Len(b) /\ ~(Len(a) + k <= Len(a)) /\ Len(a) + k - Len(a) = k
  BY ONLY <1>1, k \in 1 .. Len(b)
<1>3. QED BY <1>2

LEMMA CatIn == ASSUME NEW a \in Seq(Nat), NEW b \in Seq(Nat) PROVE Cat(a, b) \in Seq(Nat)
BY Joined DEF Cat
LEMMA CatAssoc ==
  ASSUME NEW a \in Seq(Nat), NEW b \in Seq(Nat), NEW c \in Seq(Nat)
  PROVE  Cat(Cat(a, b), c) = Cat(a, Cat(b, c))
BY Assoc DEF Cat

LEMMA Regroup ==
  ASSUME NEW a \in Seq(Nat), NEW w \in Seq(Nat), NEW d \in Seq(Nat), NEW r \in Seq(Nat), NEW o \in Seq(Nat)
  PROVE  Cat(Cat(a, Cat(Cat(w, d), r)), o) = Cat(Cat(a, w), Cat(d, Cat(r, o)))
<1>1. Cat(w, d) \in Seq(Nat) /\ Cat(r, o) \in Seq(Nat) BY CatIn
<1>2. Cat(Cat(w, d), r) \in Seq(Nat) /\ Cat(d, Cat(r, o)) \in Seq(Nat) BY <1>1, CatIn
<1>3. Cat(Cat(a, Cat(Cat(w, d), r)), o) = Cat(a, Cat(Cat(Cat(w, d), r), o)) BY <1>2, CatAssoc
<1>4. Cat(Cat(Cat(w, d), r), o) = Cat(w, Cat(d, Cat(r, o))) BY <1>1, CatAssoc
<1>5. Cat(a, Cat(w, Cat(d, Cat(r, o)))) = Cat(Cat(a, w), Cat(d, Cat(r, o))) BY <1>2, CatAssoc
<1>6. QED BY <1>3, <1>4, <1>5

Increasing(s) == \A j, k \in DOMAIN s : j < k => s[j] < s[k]
UpTo(n, s)    == \A k \in DOMAIN s : s[k] <= n

LEMMA Dropped ==
  ASSUME NEW a \in Seq(Nat), NEW b \in Seq(Nat), NEW c \in Seq(Nat), NEW n \in Nat,
         Increasing(a \o (b \o c)), UpTo(n, a \o (b \o c))
  PROVE  Increasing(a \o c) /\ UpTo(n, a \o c)
<1> DEFINE s == a \o (b \o c)
           t == a \o c
           partAt(k) == IF k <= Len(a) THEN k ELSE k + Len(b)
<1>1. s \in Seq(Nat) /\ t \in Seq(Nat) /\ Len(s) = Len(a) + Len(b) + Len(c) /\ Len(t) = Len(a) + Len(c)
  OBVIOUS
<1>2. \A k \in 1 .. Len(t) : partAt(k) \in 1 .. Len(s) /\ t[k] = s[partAt(k)]
  <2> TAKE k \in 1 .. Len(t)
  <2>1. Len(a) \in Nat /\ Len(b) \in Nat /\ Len(c) \in Nat OBVIOUS
  <2>2. CASE k <= Len(a)
    <3>1. partAt(k) = k /\ k \in 1 .. Len(s) BY <1>1, <2>1, <2>2
    <3>2. t[k] = a[k] /\ s[k] = a[k] BY <1>1, <2>1, <2>2
    <3>3. QED BY <3>1, <3>2
  <2>3. CASE k > Len(a)
    <3>1. partAt(k) = k + Len(b) /\ k + Len(b) \in 1 .. Len(s) BY <1>1, <2>1, <2>3
    <3> DEFINE j == k - Len(a)
    <3>2. j \in 1 .. Len(c) /\ k = Len(a) + j BY <1>1, <2>1, <2>3
    <3> HIDE DEF j
    <3>3. t[k] = c[j] BY <3>2, CatAt
    <3>4. b \o c \in Seq(Nat) /\ Len(b \o c) = Len(b) + Len(c) BY Joined
    <3>5. Len(b) + j \in 1 .. Len(b \o c) BY <2>1, <3>2, <3>4
    <3>6. s[Len(a) + (Len(b) + j)] = (b \o c)[Len(b) + j] BY <3>4, <3>5, CatAt
    <3>7. (b \o c)[Len(b) + j] = c[j] BY <3>2, CatAt
    <3>8. k + Len(b) = Len(a) + (Len(b) + j) BY <2>1, <3>2
    <3>9. QED BY <3>1, <3>3, <3>6, <3>7, <3>8
  <2>4. QED BY <1>1, <2>1, <2>2, <2>3
<1>3. \A j, k \in 1 .. Len(t) : j < k => partAt(j) < partAt(k)
  OBVIOUS
<1>4. DOMAIN s = 1 .. Len(s) /\ DOMAIN t = 1 .. Len(t) BY <1>1
<1> HIDE DEF s, t, partAt
<1>5. Increasing(t) /\ UpTo(n, t)
  <2>1. Increasing(s) /\ UpTo(n, s) BY DEF s
  <2>2. QED BY <1>2, <1>3, <1>4, <2>1 DEF Increasing, UpTo
<1>6. QED BY <1>5 DEF t

-----------------------------------------------------------------------------
(****************************************************************************)
(* The USB device.  Its strings need no more than the types.  The LED shows   *)
(* the state of the bus once the callbacks have run because it shows it       *)
(* already after the last thing that happened; the echo is what came because  *)
(* of all the places its bytes pass, seen together.                         *)
(****************************************************************************)

(* What the LED shows after an event of the bus, and after all that wait. *)
ShownAfter(e) == IF e = "mount" \/ e = "resume" THEN "mounted"
                 ELSE IF e = "umount" THEN "not_mounted" ELSE "suspended"
ShownAtLast == IF busEvents = <<>> THEN blink ELSE ShownAfter(busEvents[Len(busEvents)])

DeviceBus == bus.mounted => ShownAtLast = IF bus.suspended THEN "suspended" ELSE "mounted"

(* The packet of the host and the FIFO are not full at a time; a packet that  *)
(* was fetched was one; the bytes on their way are in order.                 *)
DeviceEcho ==
  /\ out # <<>> => rx = <<>>
  /\ fetched => in # <<>>
  /\ Len(tx) <= DeviceFifo
  /\ Increasing(Device!OnTheWay) /\ UpTo(sent, Device!OnTheWay)
  /\ ~overrun /\ program = "cdc_msc" => Device!OnTheWay = [k \in 1 .. sent |-> k]

DeviceIInv == Device!TypeOK /\ DeviceBus /\ DeviceEcho /\ Device!StringsAreWhole

LEMMA DeviceConstants ==
  /\ DeviceFifo \in Nat \ {0} /\ DeviceBufSize \in Nat \ {0} /\ MaxChars \in Nat \ {0} /\ MaxLate \in Nat
  /\ DOMAIN Interval = {"not_mounted", "mounted", "suspended"}
  /\ \A e \in {"not_mounted", "mounted", "suspended"} : Interval[e] \in 1 .. MaxLate
  /\ Strings \in Seq(Nat)
  /\ \A l \in DeviceLoads : l.bytes \in Nat /\ l.changes \in Nat /\ l.asks \in Nat
BY BoardsAssumption DEF Device!UsbDeviceAssumption

LEMMA InitDevice == Device!Init => DeviceIInv
<1> SUFFICES ASSUME Device!Init PROVE DeviceIInv
  OBVIOUS
<1> USE DeviceConstants DEF Device!Init
<1>1. Device!TypeOK
  <2>1. load.changes \in Nat /\ load.bytes \in Nat /\ load.asks \in Nat OBVIOUS
  <2>2. "not_mounted" \in DOMAIN Interval /\ MaxLate \in Nat OBVIOUS
  <2>3. busEvents \in Seq({"mount", "umount", "suspend", "resume"}) OBVIOUS
  <2>4. {out, rx, tx, in, echoed} \subseteq Seq(Nat) OBVIOUS
  <2>5. desc.n \in Nat /\ desc.char \in [1 .. MaxChars -> 0 .. Len(Strings)] OBVIOUS
  <2>6. ctl \in [index : Nat, at : {"idle", "asked", "answered", "stalled"}] OBVIOUS
  <2>7. changes \in 0 .. load.changes /\ sent \in 0 .. load.bytes /\ asks \in 0 .. load.asks BY <2>1
  <2>8. blink \in DOMAIN Interval /\ late \in 0 .. MaxLate BY <2>2
  <2>9. bus \in [mounted : BOOLEAN, suspended : BOOLEAN] OBVIOUS
  <2>10. program \in DevicePrograms /\ load \in DeviceLoads /\ devicePc \in {"stack", "led", "cdc"}
         /\ led \in BOOLEAN /\ fetched \in BOOLEAN /\ overrun \in BOOLEAN
    OBVIOUS
  <2> HIDE DeviceConstants DEF Device!Init
  <2>11. QED BY <2>3, <2>4, <2>5, <2>6, <2>7, <2>8, <2>9, <2>10 DEF Device!TypeOK
<1>2. DeviceBus BY DEF DeviceBus
<1>3. DeviceEcho
  <2>1. Device!OnTheWay = <<>> BY DEF Device!OnTheWay
  <2>2. <<>> = [k \in 1 .. 0 |-> k] OBVIOUS
  <2>3. QED BY <2>1, <2>2 DEF DeviceEcho, Increasing, UpTo
<1>4. Device!StringsAreWhole BY DEF Device!StringsAreWhole
<1>5. QED BY <1>1, <1>2, <1>3, <1>4 DEF DeviceIInv

(* A step that leaves these variables alone leaves the part alone. *)
LEMMA DeviceBusStays == DeviceBus /\ UNCHANGED <<bus, busEvents, blink>> => DeviceBus'
BY DEF DeviceBus, ShownAtLast, ShownAfter
LEMMA DeviceEchoStays == DeviceEcho /\ UNCHANGED <<program, Device!echoVars>> => DeviceEcho'
<1> SUFFICES ASSUME DeviceEcho, UNCHANGED <<program, Device!echoVars>> PROVE DeviceEcho'
  OBVIOUS
<1>1. Device!OnTheWay' = Device!OnTheWay BY DEF Device!echoVars, Device!OnTheWay
<1>2. QED BY <1>1 DEF DeviceEcho, Device!echoVars

LEMMA DeviceStringsStay == Device!StringsAreWhole /\ UNCHANGED Device!ctlVars => Device!StringsAreWhole'
BY DEF Device!StringsAreWhole, Device!ctlVars, Device!Smaller

(* The bus changes: what is shown at last is what just happened. *)
LEMMA DeviceBusChanges ==
  ASSUME DeviceIInv, NEW e \in {"mount", "umount", "suspend", "resume"}, NEW state,
         state \in [mounted : BOOLEAN, suspended : BOOLEAN], Device!BusChanges(e, state),
         state.mounted => ShownAfter(e) = IF state.suspended THEN "suspended" ELSE "mounted"
  PROVE  DeviceIInv'
<1> USE DEF Device!BusChanges, DeviceIInv
<1>1. busEvents' \in Seq({"mount", "umount", "suspend", "resume"})
      /\ busEvents' # <<>> /\ busEvents'[Len(busEvents')] = e
  <2> DEFINE E == {"mount", "umount", "suspend", "resume"}
  <2>1. busEvents \in Seq(E) /\ e \in E BY DEF Device!TypeOK
  <2>2. busEvents' = Append(busEvents, e) OBVIOUS
  <2> HIDE DEF E
  <2>3. QED BY <2>1, <2>2, AppendProperties DEF E
<1>2. Device!TypeOK'
  <2>1. changes' \in 0 .. load.changes
    BY DeviceConstants, SMTT(30) DEF Device!TypeOK
  <2>2. QED BY <1>1, <2>1 DEF Device!TypeOK, Device!ledVars, Device!echoVars, Device!ctlVars
<1>3. DeviceBus' BY <1>1 DEF DeviceBus, ShownAtLast
<1>4. DeviceEcho' /\ Device!StringsAreWhole' BY DeviceEchoStays, DeviceStringsStay
<1>5. QED BY <1>2, <1>3, <1>4

LEMMA DeviceBusHost == DeviceIInv /\ (Device!Plugging \/ Device!Suspending) => DeviceIInv'
<1> SUFFICES ASSUME DeviceIInv, Device!Plugging \/ Device!Suspending PROVE DeviceIInv'
  OBVIOUS
<1>1. bus \in [mounted : BOOLEAN, suspended : BOOLEAN] BY DEF DeviceIInv, Device!TypeOK
<1>2. CASE ~bus.mounted /\ ~bus.suspended /\ Device!BusChanges("mount", [bus EXCEPT !.mounted = TRUE])
  BY <1>1, <1>2, DeviceBusChanges DEF ShownAfter
<1>3. CASE bus.mounted /\ Device!BusChanges("umount", [mounted |-> FALSE, suspended |-> FALSE])
  BY <1>3, DeviceBusChanges DEF ShownAfter
<1>4. CASE ~bus.suspended /\ Device!BusChanges("suspend", [bus EXCEPT !.suspended = TRUE])
  BY <1>1, <1>4, DeviceBusChanges DEF ShownAfter
<1>5. CASE bus.suspended /\ Device!BusChanges("resume", [bus EXCEPT !.suspended = FALSE])
  BY <1>1, <1>5, DeviceBusChanges DEF ShownAfter
<1>6. QED BY <1>2, <1>3, <1>4, <1>5 DEF Device!Plugging, Device!Suspending

(* A callback of the bus shows the event it is called for. *)
LEMMA DeviceCallbacks == DeviceIInv /\ Device!BusCallbacks => DeviceIInv'
<1> SUFFICES ASSUME DeviceIInv, NEW e \in {"mount", "umount", "suspend", "resume"}, Device!Calls(e),
                    blink' = ShownAfter(e)
             PROVE  DeviceIInv'
  BY DEF Device!BusCallbacks, Device!TudMountCb, Device!TudUmountCb, Device!TudSuspendCb,
    Device!TudResumeCb, ShownAfter
<1> USE DEF Device!Calls, DeviceIInv
<1>1. busEvents \in Seq({"mount", "umount", "suspend", "resume"}) BY DEF Device!TypeOK
<1>2. busEvents' \in Seq({"mount", "umount", "suspend", "resume"})
      /\ (busEvents' # <<>> => busEvents'[Len(busEvents')] = busEvents[Len(busEvents)])
      /\ (busEvents' = <<>> => busEvents[Len(busEvents)] = e)
  <2> DEFINE E == {"mount", "umount", "suspend", "resume"}
  <2>1. busEvents \in Seq(E) /\ busEvents # <<>> /\ busEvents' = Tail(busEvents) /\ Head(busEvents) = e
    BY <1>1
  <2> HIDE DEF E
  <2>2. Len(busEvents) > 0 /\ busEvents[1] = e BY <2>1
  <2>3. Tail(busEvents) \in Seq(E) /\ Len(Tail(busEvents)) = Len(busEvents) - 1
        /\ \A i \in 1 .. Len(Tail(busEvents)) : Tail(busEvents)[i] = busEvents[i + 1]
    BY <2>1, HeadTailProperties
  <2>4. Len(Tail(busEvents)) \in Nat /\ (Tail(busEvents) = <<>> <=> Len(Tail(busEvents)) = 0)
    BY <2>3, EmptySeq, LenProperties
  <2>5. busEvents' \in Seq(E) BY <2>1, <2>3
  <2>6. busEvents' # <<>> => busEvents'[Len(busEvents')] = busEvents[Len(busEvents)]
    BY <2>1, <2>2, <2>3, <2>4
  <2>7. busEvents' = <<>> => busEvents[Len(busEvents)] = e BY <2>1, <2>2, <2>3, <2>4
  <2>8. QED BY <2>5, <2>6, <2>7 DEF E
<1>3. Device!TypeOK'
  <2>1. blink' \in DOMAIN Interval
    BY DeviceConstants DEF ShownAfter
  <2>2. QED BY <1>2, <2>1 DEF Device!TypeOK, Device!ledVars, Device!echoVars, Device!ctlVars
<1>4. DeviceBus' BY <1>2 DEF DeviceBus, ShownAtLast
<1>5. DeviceEcho' /\ Device!StringsAreWhole' BY DeviceEchoStays, DeviceStringsStay
<1>6. QED BY <1>3, <1>4, <1>5

(* The strings. *)
LEMMA DeviceStrings ==
  DeviceIInv /\ (Device!HostAsks \/ Device!NoSuchString \/ Device!TudDescriptorStringCb) => DeviceIInv'
<1> SUFFICES ASSUME DeviceIInv, Device!HostAsks \/ Device!NoSuchString \/ Device!TudDescriptorStringCb
             PROVE  DeviceIInv'
  OBVIOUS
<1> USE DEF DeviceIInv
<1>1. UNCHANGED <<program, load, devicePc, Device!busVars, Device!ledVars, Device!echoVars>>
  BY DEF Device!HostAsks, Device!NoSuchString, Device!TudDescriptorStringCb, Device!Answers
<1>2. DeviceBus' /\ DeviceEcho' BY <1>1, DeviceBusStays, DeviceEchoStays DEF Device!busVars
<1>3. /\ ctl \in [index : Nat, at : {"idle", "asked", "answered", "stalled"}]
      /\ asks \in 0 .. load.asks /\ load.asks \in Nat
      /\ desc.n \in Nat /\ desc.char \in [1 .. MaxChars -> 0 .. Len(Strings)]
      /\ Strings \in Seq(Nat) /\ MaxChars \in Nat \ {0}
  BY DeviceConstants DEF Device!TypeOK
<1>4. ASSUME ctl' \in [index : Nat, at : {"idle", "asked", "answered", "stalled"}],
             asks' \in 0 .. load.asks, Device!StringsAreWhole',
             desc'.n \in Nat, desc'.char \in [1 .. MaxChars -> 0 .. Len(Strings)]
      PROVE  DeviceIInv'
  <2>1. Device!TypeOK'
    BY <1>1, <1>4 DEF Device!TypeOK, Device!busVars, Device!ledVars, Device!echoVars
  <2>2. QED BY <1>2, <1>4, <2>1
<1>5. CASE Device!HostAsks
  <2>1. PICK i \in 0 .. Len(Strings) : ctl' = [index |-> i, at |-> "asked"] BY <1>5 DEF Device!HostAsks
  <2>2. asks' = asks + 1 /\ asks < load.asks /\ UNCHANGED desc BY <1>5 DEF Device!HostAsks
  <2>3. Device!StringsAreWhole' BY <2>1 DEF Device!StringsAreWhole
  <2>4. i \in Nat BY <1>3
  <2>5. asks' \in 0 .. load.asks BY <1>3, <2>2
  <2>6. ctl' \in [index : Nat, at : {"idle", "asked", "answered", "stalled"}] BY <2>1, <2>4
  <2>7. QED BY <1>3, <1>4, <2>2, <2>3, <2>5, <2>6
<1>6. ASSUME NEW at0 \in {"answered", "stalled"}, Device!Answers(at0)
      PROVE  /\ ctl' \in [index : Nat, at : {"idle", "asked", "answered", "stalled"}]
             /\ ctl'.at = at0 /\ ctl'.index = ctl.index /\ asks' = asks
  BY <1>3, <1>6 DEF Device!Answers
<1>7. CASE Device!NoSuchString
  <2>1. Device!Answers("stalled") /\ ctl.index >= Len(Strings) /\ UNCHANGED desc
    BY <1>7 DEF Device!NoSuchString
  <2>2. Device!StringsAreWhole' BY <1>3, <1>6, <2>1 DEF Device!StringsAreWhole
  <2>3. QED BY <1>3, <1>4, <1>6, <2>1, <2>2
<1>8. CASE Device!TudDescriptorStringCb
  <2> DEFINE n == Device!Smaller(Strings[ctl.index + 1], MaxChars)
  <2>1. Device!Answers("answered") /\ ctl.index < Len(Strings) BY <1>8 DEF Device!TudDescriptorStringCb
  <2>2. n \in 0 .. MaxChars
    <3>1. Strings[ctl.index + 1] \in Nat BY <1>3, <2>1
    <3>2. QED BY <1>3, <3>1 DEF Device!Smaller
  <2>3. desc' = [n |-> n, char |-> Device!Filled(ctl.index, n)] BY <1>8 DEF Device!TudDescriptorStringCb
  <2>4. n = Device!Smaller(Strings[ctl.index + 1], MaxChars) OBVIOUS
  <2> HIDE DEF n
  <2>5. desc'.n = n /\ desc'.char = [c \in 1 .. MaxChars |-> IF c <= n THEN ctl.index ELSE desc.char[c]]
    BY <2>3 DEF Device!Filled
  <2>6. desc'.n \in Nat BY <1>3, <2>2, <2>5
  <2>7. ctl.index \in 0 .. Len(Strings) BY <1>3, <2>1
  <2>8. desc'.char \in [1 .. MaxChars -> 0 .. Len(Strings)] BY <1>3, <2>5, <2>7
  <2>9. \A c \in 1 .. n : desc'.char[c] = ctl.index BY <1>3, <2>2, <2>5
  <2>10. Device!StringsAreWhole' BY <1>6, <2>1, <2>4, <2>5, <2>9 DEF Device!StringsAreWhole, Device!Smaller
  <2>11. QED BY <1>3, <1>4, <1>6, <2>1, <2>6, <2>8, <2>10
<1>9. QED BY <1>5, <1>7, <1>8

(* Time, the LED, and the end of tud_task. *)
LEMMA DeviceLed ==
  DeviceIInv /\ (Device!Tick \/ Device!LedBlinkingTask \/ Device!TudTaskReturns) => DeviceIInv'
<1> SUFFICES ASSUME DeviceIInv, Device!Tick \/ Device!LedBlinkingTask \/ Device!TudTaskReturns
             PROVE  DeviceIInv'
  OBVIOUS
<1> USE DEF Device!Tick, Device!LedBlinkingTask, Device!TudTaskReturns, DeviceIInv
<1>1. UNCHANGED <<program, load, bus, busEvents, changes, blink, Device!echoVars, Device!ctlVars>>
  BY DEF Device!busVars
<1>2. devicePc' \in {"stack", "led", "cdc"} /\ led' \in BOOLEAN
  BY DEF Device!TypeOK, Device!AfterLed, Device!ledVars
<1>3. late' \in 0 .. MaxLate
  <2>1. late \in 0 .. MaxLate /\ Interval[blink] \in 1 .. MaxLate /\ MaxLate \in Nat
    BY DeviceConstants DEF Device!TypeOK
  <2>2. late' = late \/ (late < MaxLate /\ late' = late + 1)
        \/ (late >= Interval[blink] /\ late' = late - Interval[blink])
    BY DEF Device!ledVars
  <2>3. QED BY <2>1, <2>2
<1>4. Device!TypeOK' BY <1>1, <1>2, <1>3 DEF Device!TypeOK, Device!echoVars, Device!ctlVars
<1>5. QED BY <1>1, <1>4, DeviceBusStays, DeviceEchoStays, DeviceStringsStay

(* A step of the echo leaves the rest alone. *)
LEMMA DeviceEchoes ==
  ASSUME DeviceIInv, UNCHANGED <<program, load, Device!busVars, Device!ledVars, Device!ctlVars>>,
         devicePc' \in {"stack", "led", "cdc"},
         {out', rx', tx', in', echoed'} \subseteq Seq(Nat), sent' \in 0 .. load.bytes,
         fetched' \in BOOLEAN, overrun' \in BOOLEAN, DeviceEcho'
  PROVE  DeviceIInv'
<1>1. Device!TypeOK' BY DEF DeviceIInv, Device!TypeOK, Device!busVars, Device!ledVars, Device!ctlVars
<1>2. QED
  BY <1>1, DeviceBusStays, DeviceStringsStay DEF DeviceIInv, Device!busVars

(* The host sends the next numbers. *)
LEMMA DeviceHostSends == DeviceIInv /\ Device!HostSends => DeviceIInv'
<1> SUFFICES ASSUME DeviceIInv, Device!HostSends PROVE DeviceIInv'
  OBVIOUS
<1> USE DEF DeviceIInv
<1>1. PICK n \in 1 .. Device!Smaller(DeviceFifo, load.bytes - sent) :
        out' = [k \in 1 .. n |-> sent + k] /\ sent' = sent + n
  BY DEF Device!HostSends
<1>2. sent \in Nat /\ load.bytes \in Nat /\ n \in Nat /\ sent + n <= load.bytes /\ n > 0
  <2>1. sent \in 0 .. load.bytes /\ load.bytes \in Nat /\ DeviceFifo \in Nat
    BY DeviceConstants DEF Device!TypeOK
  <2>2. QED BY <2>1 DEF Device!Smaller
<1>3. {out, rx, tx, in, echoed} \subseteq Seq(Nat) BY DEF Device!TypeOK
<1>4. out = <<>> /\ rx = <<>> /\ UNCHANGED <<rx, tx, in, fetched, echoed, overrun>>
  BY DEF Device!HostSends
<1>5. out' \in Seq(Nat) /\ Len(out') = n BY <1>1, <1>2
<1> DEFINE s == Device!OnTheWay
<1>6. s \in Seq(Nat) /\ s' = s \o out'
  <2> DEFINE p == ((echoed \o (IF fetched THEN <<>> ELSE in)) \o tx) \o rx
  <2>1. p \in Seq(Nat) BY <1>3
  <2>2. s = p BY <1>4, <2>1, ConcatEmptySeq DEF Device!OnTheWay
  <2>3. s' = p \o out' BY <1>4 DEF Device!OnTheWay
  <2>4. QED BY <2>1, <2>2, <2>3
<1>7. Increasing(s) /\ UpTo(sent, s) /\ (~overrun /\ program = "cdc_msc" => s = [k \in 1 .. sent |-> k])
  BY DEF DeviceEcho
<1> HIDE DEF s
<1> DEFINE t == s \o out'
<1>8. t \in Seq(Nat) /\ Len(t) = Len(s) + n
      /\ \A k \in 1 .. Len(t) : t[k] = IF k <= Len(s) THEN s[k] ELSE sent + (k - Len(s))
  BY <1>1, <1>2, <1>5, <1>6
<1>9. Increasing(t) /\ UpTo(sent', t)
  <2>1. DOMAIN t = 1 .. Len(t) /\ DOMAIN s = 1 .. Len(s) BY <1>6, <1>8
  <2>2. \A k \in 1 .. Len(s) : s[k] \in Nat BY <1>6
  <2>3. Len(s) \in Nat BY <1>6
  <2>4. sent' = sent + n /\ sent \in Nat /\ n \in Nat BY <1>1, <1>2
  <2> HIDE DEF t
  <2>5. \A k \in 1 .. Len(s) : s[k] \in Nat /\ s[k] <= sent BY <1>7, <2>1, <2>2 DEF UpTo
  <2>6. UpTo(sent', t)
    <3> SUFFICES ASSUME NEW k \in 1 .. Len(t) PROVE t[k] <= sent'
      BY <2>1 DEF UpTo
    <3>1. CASE k <= Len(s)
      <4>1. t[k] = s[k] BY <1>8, <3>1
      <4>2. k \in 1 .. Len(s) BY <1>8, <2>3, <3>1
      <4>3. s[k] \in Nat /\ s[k] <= sent BY <2>5, <4>2
      <4>4. QED BY <2>4, <4>1, <4>3
    <3>2. CASE k > Len(s) BY <1>8, <2>3, <2>4, <3>2
    <3>3. QED BY <2>3, <3>1, <3>2
  <2>7. ASSUME NEW j \in DOMAIN t, NEW k \in DOMAIN t, j < k PROVE t[j] < t[k]
    <3>1. CASE k <= Len(s) BY <1>7, <1>8, <2>1, <2>2, <2>3, <2>7, <3>1 DEF Increasing
    <3>2. CASE k > Len(s) /\ j <= Len(s)
      <4>1. t[j] = s[j] /\ t[k] = sent + (k - Len(s)) BY <1>8, <2>1, <2>3, <2>7, <3>2
      <4>2. s[j] \in Nat /\ s[j] <= sent BY <1>8, <2>1, <2>5, <3>2
      <4>3. QED BY <1>8, <2>1, <2>3, <2>4, <3>2, <4>1, <4>2
    <3>3. CASE j > Len(s) BY <1>8, <2>1, <2>3, <2>4, <2>7, <3>3
    <3>4. QED BY <2>1, <2>3, <2>7, <3>1, <3>2, <3>3, <1>8
  <2>8. QED BY <2>6, <2>7 DEF Increasing
<1>10. ~overrun /\ program = "cdc_msc" => t = [k \in 1 .. sent' |-> k]
  <2> SUFFICES ASSUME ~overrun, program = "cdc_msc" PROVE t = [k \in 1 .. sent' |-> k]
    OBVIOUS
  <2>1. Len(s) = sent /\ \A k \in 1 .. sent : s[k] = k BY <1>2, <1>7
  <2> DEFINE u == [k \in 1 .. sent' |-> k]
  <2>2. u \in Seq(Nat) /\ Len(u) = sent + n /\ \A k \in 1 .. sent + n : u[k] = k BY <1>1, <1>2
  <2>3. \A k \in 1 .. Len(t) : t[k] = u[k] BY <1>2, <1>8, <2>1, <2>2
  <2> HIDE DEF t, u
  <2>4. t = u BY <1>8, <2>1, <2>2, <2>3, SeqEqual
  <2>5. QED BY <2>4 DEF u
<1>11. DeviceEcho'
  <2>1. s' = Device!OnTheWay' /\ program' = program BY DEF s, Device!HostSends
  <2>2. QED BY <1>4, <1>6, <1>9, <1>10, <2>1 DEF DeviceEcho
<1>12. QED
  <2>1. {out', rx', tx', in', echoed'} \subseteq Seq(Nat) /\ sent' \in 0 .. load.bytes
    BY <1>1, <1>2, <1>3, <1>4, <1>5
  <2>2. QED BY <1>4, <1>11, <2>1, DeviceEchoes DEF Device!HostSends, Device!TypeOK

(* The places of the echo, one after the other. *)
LEMMA DeviceTypes ==
  ASSUME DeviceIInv
  PROVE  /\ echoed \in Seq(Nat) /\ in \in Seq(Nat) /\ tx \in Seq(Nat) /\ rx \in Seq(Nat) /\ out \in Seq(Nat)
         /\ sent \in Nat /\ sent \in 0 .. load.bytes /\ fetched \in BOOLEAN /\ overrun \in BOOLEAN
         /\ devicePc \in {"stack", "led", "cdc"}
         /\ Device!OnTheWay \in Seq(Nat)
<1> USE DEF DeviceIInv
<1>1. /\ echoed \in Seq(Nat) /\ in \in Seq(Nat) /\ tx \in Seq(Nat) /\ rx \in Seq(Nat) /\ out \in Seq(Nat)
      /\ sent \in 0 .. load.bytes /\ fetched \in BOOLEAN /\ overrun \in BOOLEAN
      /\ devicePc \in {"stack", "led", "cdc"}
  BY DEF Device!TypeOK
<1>2. sent \in Nat BY DeviceConstants DEF Device!TypeOK
<1>3. (IF fetched THEN <<>> ELSE in) \in Seq(Nat) BY <1>1
<1>4. Device!OnTheWay \in Seq(Nat) BY <1>1, <1>3, Joined DEF Device!OnTheWay
<1>5. QED BY <1>1, <1>2, <1>4

(* A step that moves bytes from a place to the next leaves what is on its way *)
(* as it is.                                                                *)
LEMMA DeviceHostFetches == DeviceIInv /\ Device!HostFetches => DeviceIInv'
<1> SUFFICES ASSUME DeviceIInv, Device!HostFetches PROVE DeviceIInv'
  OBVIOUS
<1> USE DEF Device!HostFetches
<1>1. Device!OnTheWay' = Device!OnTheWay
  <2>1. (echoed \o in) \o <<>> = echoed \o in BY DeviceTypes, ConcatEmptySeq, Joined
  <2>2. QED BY <2>1 DEF Device!OnTheWay
<1>2. DeviceEcho' BY <1>1 DEF DeviceIInv, DeviceEcho
<1>3. echoed' \in Seq(Nat) BY DeviceTypes, Joined
<1>4. QED BY <1>2, <1>3, DeviceTypes, DeviceEchoes

LEMMA DevicePacketWent == DeviceIInv /\ Device!PacketWent => DeviceIInv'
<1> SUFFICES ASSUME DeviceIInv, Device!PacketWent PROVE DeviceIInv'
  OBVIOUS
<1> USE DEF Device!PacketWent
<1>1. Device!OnTheWay' = Device!OnTheWay
  <2>1. (echoed \o <<>>) \o tx = (echoed \o tx) \o <<>> BY DeviceTypes, ConcatEmptySeq, Joined
  <2>2. QED BY <2>1 DEF Device!OnTheWay
<1>2. DeviceEcho' BY <1>1, DeviceConstants DEF DeviceIInv, DeviceEcho
<1>3. tx' \in Seq(Nat) OBVIOUS
<1>4. QED BY <1>2, <1>3, DeviceTypes, DeviceEchoes

(* otg drops what it has read; the rest is still in order. *)
LEMMA DevicePacketCame == DeviceIInv /\ Device!PacketCame => DeviceIInv'
<1> SUFFICES ASSUME DeviceIInv, Device!PacketCame PROVE DeviceIInv'
  OBVIOUS
<1> USE DEF Device!PacketCame
<1> DEFINE p == (echoed \o (IF fetched THEN <<>> ELSE in)) \o tx
           s == Device!OnTheWay
<1>1. p \in Seq(Nat)
  <2>1. (IF fetched THEN <<>> ELSE in) \in Seq(Nat) BY DeviceTypes
  <2>2. QED BY <2>1, DeviceTypes, Joined
<1>2. s = p \o out
  <2>1. rx = <<>> BY DEF DeviceIInv, DeviceEcho
  <2>2. QED BY <1>1, <2>1, ConcatEmptySeq DEF Device!OnTheWay
<1>3. PICK b \in Seq(Nat) : rx' \in Seq(Nat) /\ b \o rx' = out /\ (program = "cdc_msc" => b = <<>>)
  <2>1. CASE program # "otg"
    <3>1. rx' = out /\ <<>> \in Seq(Nat) BY <2>1
    <3>2. <<>> \o rx' = out BY <3>1, DeviceTypes, ConcatEmptySeq
    <3>3. QED BY <3>1, <3>2, DeviceTypes
  <2>2. CASE program = "otg" /\ DeviceBufSize <= Len(out)
    <3>1. DeviceBufSize \in 0 .. Len(out) BY <2>2, DeviceConstants, DeviceTypes
    <3>2. QED BY <2>2, <3>1, DeviceTypes, Cut
  <2>3. CASE program = "otg" /\ DeviceBufSize > Len(out)
    <3>1. Len(out) \in Int /\ DeviceBufSize + 1 \in Int /\ Len(out) < DeviceBufSize + 1
      BY <2>3, DeviceConstants, DeviceTypes
    <3>2. rx' = <<>> BY <2>3, <3>1, SubSeqEmpty
    <3>3. out \o <<>> = out /\ <<>> \in Seq(Nat) BY DeviceTypes, ConcatEmptySeq
    <3>4. QED BY <2>3, <3>2, <3>3, DeviceTypes
  <2>4. Len(out) \in Nat /\ DeviceBufSize \in Nat BY DeviceConstants, DeviceTypes
  <2>5. program = "otg" => DeviceBufSize <= Len(out) \/ DeviceBufSize > Len(out) BY <2>4
  <2> HIDE DEF p, s
  <2>6. QED BY ONLY <2>1, <2>2, <2>3, <2>5
<1>4. s' = p \o rx'
  <2>1. (p \o rx') \o <<>> = p \o rx' BY <1>1, <1>3, Joined, ConcatEmptySeq
  <2>2. QED BY <2>1 DEF Device!OnTheWay
<1>5. Increasing(p \o (b \o rx')) /\ UpTo(sent, p \o (b \o rx'))
  BY <1>2, <1>3 DEF DeviceIInv, DeviceEcho
<1>6. Increasing(p \o rx') /\ UpTo(sent, p \o rx')
  BY <1>1, <1>3, <1>5, DeviceTypes, Dropped
<1>7. ~overrun /\ program = "cdc_msc" => p \o rx' = [k \in 1 .. sent |-> k]
  BY <1>2, <1>3, ConcatEmptySeq DEF DeviceIInv, DeviceEcho
<1> HIDE DEF p
<1>8. DeviceEcho' BY <1>4, <1>6, <1>7 DEF DeviceIInv, DeviceEcho
<1>9. QED BY <1>3, <1>8, DeviceTypes, DeviceEchoes

(* cdc_task: what does not fit is dropped, the rest moves on. *)
LEMMA DeviceCdcTask == DeviceIInv /\ Device!CdcTask => DeviceIInv'
<1> SUFFICES ASSUME DeviceIInv, Device!CdcTask PROVE DeviceIInv'
  OBVIOUS
<1>1. /\ devicePc' = "stack"
      /\ UNCHANGED <<program, load, Device!busVars, Device!ledVars, out, fetched, sent, echoed, Device!ctlVars>>
  BY DEF Device!CdcTask
<1>2. CASE rx = <<>> /\ UNCHANGED <<rx, tx, in, overrun>>
  <2>1. DeviceEcho' BY <1>1, <1>2, DeviceEchoStays DEF DeviceIInv, Device!echoVars
  <2>2. QED BY <1>1, <1>2, <2>1, DeviceTypes, DeviceEchoes
<1>3. CASE Device!Echo
  <2> DEFINE I == IF fetched THEN <<>> ELSE in
             count == Device!Smaller(DeviceBufSize, Len(rx))
             bytes == SubSeq(rx, 1, count)
             n == Device!Smaller(Len(bytes), DeviceFifo - Len(tx))
             w == SubSeq(bytes, 1, n)
             d == SubSeq(bytes, n + 1, Len(bytes))
             fifo == tx \o w
  <2>1. count \in 0 .. Len(rx) BY DeviceConstants, DeviceTypes DEF Device!Smaller
  <2>2. bytes \in Seq(Nat) /\ Len(bytes) = count /\ rx' \in Seq(Nat) /\ bytes \o rx' = rx
    BY <1>3, <2>1, DeviceTypes, Cut DEF Device!Echo
  <2>3. Len(tx) \in Nat /\ Len(tx) <= DeviceFifo /\ DeviceFifo \in Nat
    BY DeviceTypes, DeviceConstants DEF DeviceIInv, DeviceEcho
  <2>4. n \in 0 .. Len(bytes) /\ n <= DeviceFifo - Len(tx)
        /\ (Len(tx) + count <= DeviceFifo => n = Len(bytes))
    <3> HIDE DEF bytes, count
    <3>1. Len(bytes) \in Nat BY <2>2
    <3>2. QED BY <2>2, <2>3, <3>1 DEF Device!Smaller
  <2>5. w \in Seq(Nat) /\ d \in Seq(Nat) /\ w \o d = bytes /\ Len(w) = n
    <3> HIDE DEF bytes, n
    <3>1. QED BY <2>2, <2>4, Cut
  <2>6. n = Len(bytes) => d = <<>>
    <3> HIDE DEF bytes, n
    <3>1. QED BY <2>2, <2>5, SubSeqEmpty
  <2>7. /\ fifo = Device!Written(bytes) /\ Device!Flush(fifo)
        /\ overrun' = (overrun \/ Len(tx) + count > DeviceFifo)
    BY <1>3 DEF Device!Echo, Device!Written
  <2> HIDE DEF w, d, n, count, bytes
  <2>8. I \in Seq(Nat) /\ echoed \in Seq(Nat) /\ tx \in Seq(Nat) /\ out \in Seq(Nat) /\ rx \in Seq(Nat)
        /\ in \in Seq(Nat)
    BY DeviceTypes
  <2> DEFINE p == (echoed \o I) \o fifo
             r == rx' \o out
  <2>9. fifo \in Seq(Nat) /\ Len(fifo) <= DeviceFifo /\ p \in Seq(Nat) /\ r \in Seq(Nat)
    <3>1. fifo \in Seq(Nat) /\ Len(fifo) = Len(tx) + Len(w) BY <2>5, <2>8, Joined
    <3>2. Len(fifo) <= DeviceFifo BY <2>3, <2>4, <2>5, <3>1
    <3>3. r \in Seq(Nat) BY <2>2, <2>8, Joined
    <3> HIDE DEF fifo
    <3>4. p \in Seq(Nat) BY <2>8, <3>1, Joined
    <3>5. QED BY <3>1, <3>2, <3>3, <3>4
  <2>10. Device!OnTheWay = p \o (d \o r)
    <3>1. Device!OnTheWay = (((echoed \o I) \o tx) \o ((w \o d) \o rx')) \o out
      BY <2>2, <2>5 DEF Device!OnTheWay
    <3> DEFINE a == (echoed \o I) \o tx
    <3>2. echoed \o I \in Seq(Nat) /\ a \in Seq(Nat)
      <4> HIDE DEF I
      <4>1. QED BY <2>8, Joined
    <3>3. p = a \o w
      <4> HIDE DEF I
      <4> DEFINE e == echoed \o I
      <4>1. e \in Seq(Nat) /\ tx \in Seq(Nat) /\ w \in Seq(Nat) BY <2>5, <2>8, <3>2
      <4> HIDE DEF e
      <4>2. e \o (tx \o w) = (e \o tx) \o w BY <4>1, Assoc, Zenon
      <4>3. QED BY <4>2 DEF e
    <3> HIDE DEF a, p
    <3>4. a \in Seq(Nat) /\ w \in Seq(Nat) /\ d \in Seq(Nat) /\ rx' \in Seq(Nat) /\ out \in Seq(Nat)
      BY <2>2, <2>5, <2>8, <3>2
    <3>5. (a \o ((w \o d) \o rx')) \o out = (a \o w) \o (d \o (rx' \o out))
      <4>1. Cat(Cat(a, Cat(Cat(w, d), rx')), out) = Cat(Cat(a, w), Cat(d, Cat(rx', out)))
        BY ONLY <3>4, Regroup
      <4>2. QED BY <4>1 DEF Cat
    <3>6. Device!OnTheWay = (a \o ((w \o d) \o rx')) \o out BY <3>1 DEF a
    <3>7. QED BY <3>3, <3>5, <3>6
  <2>11. Device!OnTheWay' = p \o r /\ in' \in Seq(Nat) /\ tx' \in Seq(Nat) /\ Len(tx') <= DeviceFifo
         /\ (fetched' => in' # <<>>)
    <3>1. (p \o rx') \o out = p \o (rx' \o out)
      <4> HIDE DEF p
      <4>1. p \in Seq(Nat) /\ rx' \in Seq(Nat) /\ out \in Seq(Nat) BY <2>2, <2>8, <2>9
      <4>2. QED BY ONLY <4>1, Assoc, Zenon
    <3>2. CASE in = <<>>
      <4>1. in' = fifo /\ tx' = <<>> /\ ~fetched BY <2>7, <3>2 DEF Device!Flush, DeviceIInv, DeviceEcho
      <4>2. (echoed \o fifo) \o <<>> = (echoed \o <<>>) \o fifo
        BY <2>8, <2>9, Joined, ConcatEmptySeq
      <4>3. ((echoed \o fifo) \o <<>>) = p BY <3>2, <4>2
      <4> HIDE DEF p, fifo
      <4>4. Device!OnTheWay' = (p \o rx') \o out BY <1>1, <4>1, <4>3 DEF Device!OnTheWay
      <4>5. QED BY <1>1, <2>3, <2>9, <3>1, <4>1, <4>4
    <3>3. CASE in # <<>>
      <4>1. in' = in /\ tx' = fifo BY <2>7, <3>3 DEF Device!Flush
      <4>2. Device!OnTheWay' = (p \o rx') \o out BY <1>1, <4>1 DEF Device!OnTheWay
      <4>3. QED BY <1>1, <2>8, <2>9, <3>1, <3>3, <4>1, <4>2
    <3>4. QED BY <3>2, <3>3
  <2> HIDE DEF p, r
  <2>12. Increasing(p \o r) /\ UpTo(sent, p \o r)
    BY <2>5, <2>9, <2>10, DeviceTypes, Dropped DEF DeviceIInv, DeviceEcho
  <2>13. ~overrun' => p \o r = Device!OnTheWay /\ ~overrun
    <3> SUFFICES ASSUME ~overrun' PROVE p \o r = Device!OnTheWay /\ ~overrun
      OBVIOUS
    <3>1. ~overrun /\ ~(Len(tx) + count > DeviceFifo) BY <2>7
    <3>2. count \in Nat BY <2>1, DeviceTypes
    <3>3. d = <<>> BY <2>3, <2>4, <2>6, <3>1, <3>2
    <3>4. d \o r = r BY <2>9, <3>3, ConcatEmptySeq
    <3>5. QED BY <2>10, <3>1, <3>4
  <2>14. out # <<>> => rx' = <<>>
    <3>1. rx # <<>> BY <1>3 DEF Device!Echo
    <3>2. QED BY <3>1 DEF DeviceIInv, DeviceEcho
  <2>15. DeviceEcho'
    BY <1>1, <2>11, <2>12, <2>13, <2>14 DEF DeviceIInv, DeviceEcho
  <2>16. overrun' \in BOOLEAN BY <2>7
  <2>17. QED BY <1>1, <2>2, <2>8, <2>11, <2>15, <2>16, DeviceTypes, DeviceEchoes
<1>4. QED BY <1>2, <1>3 DEF Device!CdcTask

LEMMA NextDevice == DeviceIInv /\ [Device!Next]_deviceVars => DeviceIInv'
<1> SUFFICES ASSUME DeviceIInv, [Device!Next]_deviceVars PROVE DeviceIInv'
  OBVIOUS
<1>1. CASE Device!Host \/ Device!HostFetches \/ Device!Tick
  BY <1>1, DeviceBusHost, DeviceHostSends, DeviceStrings, DeviceHostFetches, DeviceLed DEF Device!Host
<1>2. CASE Device!Main
  BY <1>2, DeviceCallbacks, DevicePacketCame, DevicePacketWent, DeviceStrings, DeviceLed, DeviceCdcTask
    DEF Device!Main, Device!TudTask
<1>3. CASE UNCHANGED deviceVars
  <2>1. Device!TypeOK' BY <1>3 DEF deviceVars, DeviceIInv, Device!TypeOK
  <2>2. QED
    BY <1>3, <2>1, DeviceBusStays, DeviceEchoStays, DeviceStringsStay
      DEF deviceVars, DeviceIInv, Device!echoVars, Device!ctlVars
<1>4. QED BY <1>1, <1>2, <1>3 DEF Device!Next

LEMMA DeviceDoesItsWork ==
  DeviceIInv => Device!TypeOK /\ Device!EchoIsWhatCame /\ Device!StringsAreWhole /\ Device!BlinkWhenMounted
<1> SUFFICES ASSUME DeviceIInv
             PROVE  Device!TypeOK /\ Device!EchoIsWhatCame /\ Device!StringsAreWhole /\ Device!BlinkWhenMounted
  OBVIOUS
<1>1. Device!EchoIsWhatCame BY DEF DeviceIInv, DeviceEcho, Device!EchoIsWhatCame, Increasing
<1>2. Device!BlinkWhenMounted BY DEF DeviceIInv, DeviceBus, ShownAtLast, Device!BlinkWhenMounted
<1>3. QED BY <1>1, <1>2 DEF DeviceIInv

(* However packets, requests, the bus and time interleave with the loop of    *)
(* the device: the echo is what came, strings come whole, the LED shows the   *)
(* state of a mounted device, and the disk holds what was written to it       *)
(* (cdc_task and the callbacks of cdc_msc/src/main.c, usb_descriptors.c,      *)
(* msc_disk.c).                                                             *)
THEOREM DeviceAlwaysServes == BoardSpec => []DeviceServes
<1>1. BoardInit => DeviceIInv /\ DiskIInv BY InitDevice, InitDisk DEF BoardInit
<1>2. DeviceIInv /\ DiskIInv /\ [BoardNext]_boardVars => DeviceIInv' /\ DiskIInv'
  BY DeviceSteps, DiskSteps, NextDevice, NextDisk
<1>3. DeviceIInv /\ DiskIInv => DeviceServes
  BY DeviceDoesItsWork, DiskKeepsWhatWasWritten DEF DeviceServes
<1>4. QED BY <1>1, <1>2, <1>3, PTL DEF BoardSpec

-----------------------------------------------------------------------------
(****************************************************************************)
(* The boot loader over USB and I2C.  Host and loader keep in step because    *)
(* what is on its way in either direction is always what the exchange they    *)
(* are at still needs.                                                      *)
(****************************************************************************)
Exchange == [ask : Nat \ {0}, answer : 1 .. BootFifo]

LEMMA LoaderConstants ==
  /\ Ports \subseteq {"usb", "i2c"} /\ Noise \in Nat
  /\ BootFifo \in Nat \ {0} /\ Packet \in Nat \ {0} /\ Packet <= BootFifo
  /\ Scripts \subseteq Seq(Exchange) /\ <<>> \notin Scripts
BY BoardsAssumption DEF Loader!InterfaceAssumption, Exchange

LoaderTypes ==
  /\ port \in {"usb", "i2c"} /\ script \in Seq(Exchange)
  /\ Len(script) > 0
  /\ asker \in [at : Nat, send : Nat, await : Nat]
  /\ bootSent \in Seq(Nat) /\ bootGot \in Seq(Nat) /\ read \in Seq(Nat) /\ bootOut \in Seq(Nat)
  /\ bootRx \in Seq(Nat) /\ bootTx \in Seq(Nat) /\ bootIn \in Seq(Nat) /\ bootFetched \in BOOLEAN
  /\ bootPc \in {"waitForInit", "processBoot", "receive", "send", "resetBoot", "down"}
  /\ at \in 0 .. Len(script) /\ need \in Nat /\ written \in Nat

LoaderFifos ==
  /\ bootFetched => bootIn # <<>>
  /\ bootIn = <<>> => bootTx = <<>>
  /\ port = "i2c" => bootRx = <<>> /\ bootTx = <<>> /\ ~bootFetched
  /\ Loader!TakenInOrder
  /\ Loader!AnswersInOrder

(* Bytes of the host that are on their way, and those for it. *)
Coming   == asker.send + Len(bootOut) + Len(bootRx)
InFlight == (IF bootFetched THEN 0 ELSE Len(bootIn)) + Len(bootTx)

(* Of what comes before the first exchange the last byte is INIT. *)
InitIsLast ==
  LET q == bootRx \o bootOut
  IN  \A k \in 1 .. Len(q) : q[k] = Loader!INIT => asker.send = 0 /\ k = Len(q)

Greeting ==
  /\ bootPc = "waitForInit" /\ port = "usb" /\ at = 0 /\ asker.at = 0 /\ need = 1 /\ asker.await = 1
  /\ InFlight = 0 /\ InitIsLast
Asking ==
  /\ bootPc \in {"processBoot", "receive"} /\ at > 0 /\ asker.at = at
  /\ Coming = (IF bootPc = "receive" THEN need ELSE script[at].ask) /\ Coming > 0
  /\ asker.await = script[at].answer /\ InFlight = 0
Answering ==
  /\ bootPc = "send" /\ asker.at = at /\ Coming = 0
  /\ need > 0 /\ need <= BootFifo /\ asker.await = need + InFlight
  /\ port = "usb" => InFlight = 0
Answered ==
  /\ Coming = 0 /\ asker.await = InFlight
  /\ \/ /\ bootPc \in {"processBoot", "receive"} /\ at > 0 /\ asker.at + 1 = at
        /\ bootPc = "receive" => need = script[at].ask
     \/ bootPc \in {"resetBoot", "down"} /\ asker.at = at /\ at = Len(script)
  /\ bootPc = "down" => InFlight = 0

InPhase == Greeting \/ Asking \/ Answering \/ Answered

LoaderIInv == LoaderTypes /\ LoaderFifos /\ InPhase

(* The operators of the loader. *)
LEMMA MinOfTwo ==
  ASSUME NEW m \in Nat, NEW n \in Nat
  PROVE  Loader!Min({m, n}) = IF m <= n THEN m ELSE n
<1> DEFINE x == IF m <= n THEN m ELSE n
<1>1. x \in {m, n} /\ \A y \in {m, n} : x <= y OBVIOUS
<1>2. \A y \in {m, n} : (\A z \in {m, n} : y <= z) => y = x OBVIOUS
<1>3. QED BY <1>1, <1>2 DEF Loader!Min

LEMMA FirstAndRest ==
  ASSUME NEW s \in Seq(Nat), NEW n \in Nat
  PROVE  /\ Loader!First(n, s) \in Seq(Nat) /\ Loader!Rest(n, s) \in Seq(Nat)
         /\ Len(Loader!First(n, s)) = (IF n <= Len(s) THEN n ELSE Len(s))
         /\ Len(Loader!Rest(n, s)) = Len(s) - Len(Loader!First(n, s))
         /\ Loader!First(n, s) \o Loader!Rest(n, s) = s
<1>1. Len(s) \in Nat OBVIOUS
<1>2. CASE n <= Len(s)
  <2>1. Loader!Min({n, Len(s)}) = n /\ n \in 0 .. Len(s) BY <1>1, <1>2, MinOfTwo
  <2>2. Loader!First(n, s) = SubSeq(s, 1, n) /\ Loader!Rest(n, s) = SubSeq(s, n + 1, Len(s))
    BY <2>1 DEF Loader!First, Loader!Rest
  <2>3. /\ SubSeq(s, 1, n) \in Seq(Nat) /\ SubSeq(s, n + 1, Len(s)) \in Seq(Nat)
        /\ Len(SubSeq(s, 1, n)) = n /\ Len(SubSeq(s, n + 1, Len(s))) = Len(s) - n
        /\ SubSeq(s, 1, n) \o SubSeq(s, n + 1, Len(s)) = s
    BY <2>1, Cut
  <2>4. QED BY <1>2, <2>2, <2>3, Zenon
<1>3. CASE n > Len(s)
  <2>1. Loader!Min({n, Len(s)}) = Len(s) BY <1>1, <1>3, MinOfTwo
  <2>2. SubSeq(s, n + 1, Len(s)) = <<>> BY <1>1, <1>3, SubSeqEmpty
  <2>3. SubSeq(s, 1, Len(s)) = s BY SubSeqFull
  <2>4. s \o <<>> = s /\ <<>> \in Seq(Nat) /\ Len(<<>>) = 0 BY ConcatEmptySeq
  <2>5. Loader!First(n, s) = s /\ Loader!Rest(n, s) = <<>> BY <2>1, <2>2, <2>3 DEF Loader!First, Loader!Rest
  <2>6. QED BY <1>1, <1>3, <2>4, <2>5
<1>4. n <= Len(s) \/ n > Len(s) BY <1>1
<1>5. QED BY <1>2, <1>3, <1>4, Zenon

(* tud_task loses nothing in either direction. *)
LEMMA TudTaskMoves ==
  ASSUME LoaderTypes, bootFetched => bootIn # <<>>,
         NEW fifo \in Seq(Nat), NEW queue \in Seq(Nat), NEW flush \in BOOLEAN,
         bootIn = <<>> => queue = <<>> \/ flush,
         Loader!TudTask(fifo, queue, flush)
  PROVE  /\ bootRx' \in Seq(Nat) /\ bootOut' \in Seq(Nat) /\ bootTx' \in Seq(Nat) /\ bootIn' \in Seq(Nat)
         /\ bootFetched' \in BOOLEAN
         /\ bootRx' \o bootOut' = fifo \o bootOut
         /\ (IF bootFetched' THEN <<>> ELSE bootIn') \o bootTx'
            = (IF bootFetched THEN <<>> ELSE bootIn) \o queue
         /\ Len(bootRx') + Len(bootOut') = Len(fifo) + Len(bootOut)
         /\ InFlight' = (IF bootFetched THEN 0 ELSE Len(bootIn)) + Len(queue)
         /\ bootFetched' => bootIn' # <<>>
         /\ bootIn' = <<>> => bootTx' = <<>>
<1>1. bootOut \in Seq(Nat) /\ bootIn \in Seq(Nat) /\ bootFetched \in BOOLEAN BY DEF LoaderTypes
<1>2. /\ bootRx' \in Seq(Nat) /\ bootOut' \in Seq(Nat) /\ bootRx' \o bootOut' = fifo \o bootOut
      /\ Len(bootRx') + Len(bootOut') = Len(fifo) + Len(bootOut)
  <2>1. CASE bootRx' = fifo /\ bootOut' = bootOut BY <1>1, <2>1
  <2>2. CASE bootRx' = fifo \o bootOut /\ bootOut' = <<>>
    <3>1. fifo \o bootOut \in Seq(Nat) /\ Len(fifo \o bootOut) = Len(fifo) + Len(bootOut) BY <1>1, Joined
    <3>2. QED BY <1>1, <2>2, <3>1, ConcatEmptySeq
  <2>3. QED BY <2>1, <2>2 DEF Loader!TudTask
<1>3. CASE bootFetched \/ (flush /\ bootIn = <<>>)
  <2> DEFINE f == Loader!First(Packet, queue)
             r == Loader!Rest(Packet, queue)
  <2>1. bootIn' = f /\ bootTx' = r /\ bootFetched' = FALSE BY <1>3 DEF Loader!TudTask
  <2>2. f \in Seq(Nat) /\ r \in Seq(Nat) /\ f \o r = queue /\ Len(f) + Len(r) = Len(queue)
        /\ (Len(f) = 0 => Len(queue) = 0)
    BY FirstAndRest, LoaderConstants
  <2> HIDE DEF f, r
  <2>3. (IF bootFetched THEN <<>> ELSE bootIn) = <<>> /\ (IF bootFetched THEN 0 ELSE Len(bootIn)) = 0
    BY <1>1, <1>3
  <2>4. <<>> \o queue = queue BY ConcatEmptySeq
  <2>5. InFlight' = Len(queue) BY <2>1, <2>2 DEF InFlight
  <2>6. f = <<>> => r = <<>>
    <3> SUFFICES ASSUME f = <<>> PROVE r = <<>>
      OBVIOUS
    <3>1. Len(f) = 0 OBVIOUS
    <3>2. Len(r) = 0 BY <2>2, <3>1
    <3>3. QED BY <2>2, <3>2, EmptySeq
  <2>7. (IF bootFetched' THEN <<>> ELSE bootIn') \o bootTx' = (IF bootFetched THEN <<>> ELSE bootIn) \o queue
    BY <2>1, <2>2, <2>3, <2>4
  <2>8. InFlight' = (IF bootFetched THEN 0 ELSE Len(bootIn)) + Len(queue)
    <3>1. Len(queue) \in Nat OBVIOUS
    <3>2. QED BY <2>3, <2>5, <3>1
  <2>9. bootTx' \in Seq(Nat) /\ bootIn' \in Seq(Nat) /\ bootFetched' \in BOOLEAN
        /\ (bootFetched' => bootIn' # <<>>) /\ (bootIn' = <<>> => bootTx' = <<>>)
    BY <2>1, <2>2, <2>6
  <2>10. QED BY <1>2, <2>7, <2>8, <2>9
<1>4. CASE ~bootFetched /\ ~(flush /\ bootIn = <<>>)
  <2>1. bootTx' = queue /\ bootIn' = bootIn /\ bootFetched' = bootFetched BY <1>4 DEF Loader!TudTask
  <2>2. QED BY <1>1, <1>2, <1>4, <2>1 DEF InFlight
<1>5. QED BY <1>1, <1>3, <1>4

LEMMA Shift ==
  ASSUME NEW g \in Seq(Nat), NEW x \in Seq(Nat), NEW y \in Seq(Nat), NEW u \in Seq(Nat), NEW v \in Seq(Nat),
         x \o y = u \o v
  PROVE  (g \o x) \o y = (g \o u) \o v
<1>1. Cat(x, y) = Cat(u, v) BY DEF Cat
<1>2. Cat(Cat(g, x), y) = Cat(Cat(g, u), v) BY <1>1, CatAssoc
<1>3. QED BY <1>2 DEF Cat

(* The numbers go on. *)
LEMMA NumbersGoOn ==
  ASSUME NEW m \in Nat, NEW n \in Nat
  PROVE  [k \in 1 .. m |-> k] \o [k \in 1 .. n |-> m + k] = [k \in 1 .. m + n |-> k]
<1> DEFINE a == [k \in 1 .. m |-> k]
           b == [k \in 1 .. n |-> m + k]
           c == [k \in 1 .. m + n |-> k]
<1>1. a \in Seq(Nat) /\ Len(a) = m /\ b \in Seq(Nat) /\ Len(b) = n /\ c \in Seq(Nat) /\ Len(c) = m + n
  OBVIOUS
<1>2. \A k \in 1 .. m + n : (a \o b)[k] = c[k] BY <1>1
<1>3. a \o b \in Seq(Nat) /\ Len(a \o b) = m + n BY <1>1, Joined
<1> HIDE DEF a, b, c
<1>4. a \o b = c BY <1>1, <1>2, <1>3, SeqEqual
<1>5. QED BY <1>4 DEF a, b, c

LEMMA LoaderNumbers ==
  ASSUME LoaderTypes
  PROVE  /\ Coming \in Nat /\ InFlight \in Nat
         /\ asker.at \in Nat /\ asker.send \in Nat /\ asker.await \in Nat
         /\ Len(bootOut) \in Nat /\ Len(bootRx) \in Nat /\ Len(bootIn) \in Nat /\ Len(bootTx) \in Nat
         /\ Len(script) \in Nat /\ at \in Nat /\ at <= Len(script) /\ need \in Nat /\ written \in Nat
<1>1. /\ asker.at \in Nat /\ asker.send \in Nat /\ asker.await \in Nat
      /\ Len(bootOut) \in Nat /\ Len(bootRx) \in Nat /\ Len(bootIn) \in Nat /\ Len(bootTx) \in Nat
  BY DEF LoaderTypes
<1>2. Len(script) \in Nat BY DEF LoaderTypes
<1>3. at \in Nat /\ at <= Len(script) /\ need \in Nat /\ written \in Nat BY <1>2 DEF LoaderTypes
<1>4. Coming \in Nat /\ InFlight \in Nat BY <1>1 DEF Coming, InFlight
<1>5. QED BY <1>1, <1>2, <1>3, <1>4

LEMMA LoaderSequences ==
  ASSUME LoaderTypes
  PROVE  /\ asker \in [at : Nat, send : Nat, await : Nat]
         /\ bootSent \in Seq(Nat) /\ bootGot \in Seq(Nat) /\ read \in Seq(Nat) /\ bootOut \in Seq(Nat)
         /\ bootRx \in Seq(Nat) /\ bootTx \in Seq(Nat) /\ bootIn \in Seq(Nat)
         /\ bootFetched \in BOOLEAN /\ port \in {"usb", "i2c"}
BY DEF LoaderTypes

LEMMA LoaderScript ==
  ASSUME LoaderTypes, NEW k \in 1 .. Len(script)
  PROVE  script[k].ask \in Nat /\ script[k].ask > 0
         /\ script[k].answer \in Nat /\ script[k].answer > 0 /\ script[k].answer <= BootFifo
<1>1. script[k] \in Exchange BY DEF LoaderTypes
<1>2. QED BY <1>1, LoaderConstants DEF Exchange

(* Nothing is on its way where there are no bytes. *)
LEMMA LoaderEmpty ==
  ASSUME LoaderTypes
  PROVE  /\ Coming = 0 => asker.send = 0 /\ bootOut = <<>> /\ bootRx = <<>>
         /\ InFlight = 0 => bootTx = <<>> /\ (~bootFetched => bootIn = <<>>)
         /\ bootOut = <<>> => Len(bootOut) = 0
         /\ bootIn # <<>> => Len(bootIn) > 0
<1>1. /\ (Len(bootOut) = 0 => bootOut = <<>>) /\ (Len(bootRx) = 0 => bootRx = <<>>)
      /\ (Len(bootIn) = 0 => bootIn = <<>>) /\ (Len(bootTx) = 0 => bootTx = <<>>)
      /\ (bootOut = <<>> => Len(bootOut) = 0)
  BY EmptySeq DEF LoaderTypes
<1>2. Coming = 0 => asker.send = 0 /\ bootOut = <<>> /\ bootRx = <<>> BY <1>1, LoaderNumbers DEF Coming
<1>3. InFlight = 0 => bootTx = <<>> /\ (~bootFetched => bootIn = <<>>) BY <1>1, LoaderNumbers DEF InFlight
<1>4. bootIn # <<>> => Len(bootIn) > 0 BY <1>1, LoaderNumbers
<1>5. QED BY <1>1, <1>2, <1>3, <1>4

LEMMA InitLoader == Loader!Init => LoaderIInv
<1> SUFFICES ASSUME Loader!Init PROVE LoaderIInv
  OBVIOUS
<1> USE DEF Loader!Init
<1>1. script \in Scripts /\ script \in Seq(Exchange) /\ script # <<>>
  BY LoaderConstants
<1>2. Len(script) \in Nat \ {0} BY <1>1, EmptySeq
<1>3. <<>> \in Seq(Nat) /\ Len(<<>>) = 0 /\ <<>> \o <<>> = <<>> OBVIOUS
<1>4. LoaderFifos
  <2>1. <<>> = [k \in 1 .. 0 |-> k] OBVIOUS
  <2>2. QED BY <1>3, <2>1 DEF LoaderFifos, Loader!TakenInOrder, Loader!AnswersInOrder
<1>5. InFlight = 0 BY <1>3 DEF InFlight
<1>6. CASE Loader!UsbSetupBoot
  <2>1. PICK n \in 0 .. Noise : asker = [at |-> 0, send |-> n + 1, await |-> 1]
    BY <1>6 DEF Loader!UsbSetupBoot
  <2>2. n \in Nat BY LoaderConstants
  <2>3. LoaderTypes
    <3>1. asker \in [at : Nat, send : Nat, await : Nat] BY <2>1, <2>2
    <3>2. at \in 0 .. Len(script) BY <1>2, <1>6 DEF Loader!UsbSetupBoot
    <3>3. bootPc = "waitForInit" /\ port = "usb" BY <1>6 DEF Loader!UsbSetupBoot
    <3>4. need \in Nat /\ written \in Nat /\ bootFetched \in BOOLEAN OBVIOUS
    <3>5. QED BY <1>1, <1>2, <1>3, <3>1, <3>2, <3>3, <3>4 DEF LoaderTypes
  <2>4. Greeting BY <1>3, <1>5, <1>6, <2>1 DEF Greeting, InitIsLast, Loader!UsbSetupBoot
  <2>5. QED BY <1>4, <2>3, <2>4 DEF LoaderIInv, InPhase
<1>7. CASE Loader!I2cSetupBoot
  <2>1. script[1].ask \in Nat /\ script[1].ask > 0 /\ script[1].answer \in 1 .. BootFifo
    <3>1. script[1] \in Exchange BY <1>1, <1>2
    <3>2. QED BY <3>1 DEF Exchange
  <2>2. asker \in [at : Nat, send : Nat, await : Nat]
    <3>1. script[1].answer \in Nat BY <2>1, LoaderConstants
    <3>2. QED BY <1>7, <2>1, <3>1 DEF Loader!I2cSetupBoot
  <2>3. LoaderTypes
    <3>1. at \in 0 .. Len(script) BY <1>2, <1>7 DEF Loader!I2cSetupBoot
    <3>2. bootPc = "processBoot" /\ port = "i2c" BY <1>7 DEF Loader!I2cSetupBoot
    <3>3. need \in Nat /\ written \in Nat /\ bootFetched \in BOOLEAN OBVIOUS
    <3>4. QED BY <1>1, <1>2, <1>3, <2>2, <3>1, <3>2, <3>3 DEF LoaderTypes
  <2>4. Asking BY <1>3, <1>5, <1>7, <2>1 DEF Asking, Coming, Loader!I2cSetupBoot
  <2>5. QED BY <1>4, <2>3, <2>4 DEF LoaderIInv, InPhase
<1>8. QED BY <1>6, <1>7

(* The host sends what belongs to its exchange. *)
LEMMA LoaderHostSends == LoaderIInv /\ Loader!HostSends => LoaderIInv'
<1> SUFFICES ASSUME LoaderIInv, Loader!HostSends PROVE LoaderIInv'
  OBVIOUS
<1> USE DEF LoaderIInv
<1>1. /\ bootOut = <<>>
      /\ UNCHANGED <<port, script, bootGot, bootPc, at, need, read, written, bootRx, bootTx, bootIn, bootFetched>>
  BY DEF Loader!HostSends, Loader!cpuVars, Loader!fifoVars
<1>2. PICK n \in 1 .. Loader!Min({asker.send, IF port = "usb" THEN Packet ELSE 1}) :
        /\ bootOut' = Loader!NextBytes(n) /\ bootSent' = bootSent \o bootOut'
        /\ asker' = [asker EXCEPT !.send = @ - n]
  BY DEF Loader!HostSends
<1>3. n \in Nat /\ n > 0 /\ n <= asker.send
  <2>1. asker.send \in Nat /\ (IF port = "usb" THEN Packet ELSE 1) \in Nat BY LoaderNumbers, LoaderConstants
  <2>2. QED BY <2>1, MinOfTwo
<1>4. /\ asker' \in [at : Nat, send : Nat, await : Nat]
      /\ asker'.at = asker.at /\ asker'.await = asker.await /\ asker'.send = asker.send - n
  <2>1. asker \in [at : Nat, send : Nat, await : Nat] /\ asker.send - n \in Nat
    BY <1>3, LoaderSequences, LoaderNumbers, SMTT(30)
  <2>2. QED BY <1>2, <2>1
<1>5. /\ bootOut' \in Seq(Nat) /\ Len(bootOut') = n
      /\ \A k \in 1 .. n : asker.at = 0 => (bootOut'[k] = Loader!INIT => k = asker.send)
  <2> DEFINE b == [k \in 1 .. n |-> IF asker.at > 0 THEN Len(bootSent) + k + 1
                                   ELSE IF k = asker.send THEN 1 ELSE 0]
  <2>1. bootOut' = b BY <1>2 DEF Loader!NextBytes, Loader!INIT, Loader!NOISE
  <2>2. Len(bootSent) \in Nat BY LoaderSequences
  <2>3. b \in Seq(Nat) /\ Len(b) = n BY <1>3, <2>2
  <2>4. \A k \in 1 .. n : asker.at = 0 => (b[k] = 1 => k = asker.send) OBVIOUS
  <2> HIDE DEF b
  <2>5. QED BY <2>1, <2>3, <2>4 DEF Loader!INIT
<1>6. LoaderTypes'
  <2>1. bootSent' \in Seq(Nat) BY <1>2, <1>5, Joined DEF LoaderTypes
  <2>2. QED BY <1>1, <1>4, <1>5, <2>1 DEF LoaderTypes
<1>7. LoaderFifos'
  <2>1. Loader!TakenInOrder'
    <3>1. bootSent = read \o bootRx
      <4>1. read \o bootRx \in Seq(Nat) BY Joined DEF LoaderTypes
      <4>2. QED BY <1>1, <4>1, ConcatEmptySeq DEF LoaderFifos, Loader!TakenInOrder
    <3>2. QED BY <1>1, <1>2, <3>1 DEF Loader!TakenInOrder
  <2>2. Loader!AnswersInOrder' BY <1>1 DEF LoaderFifos, Loader!AnswersInOrder
  <2>3. QED BY <1>1, <2>1, <2>2 DEF LoaderFifos
<1>8. Coming' = Coming /\ InFlight' = InFlight /\ Coming > 0
  <2>1. Coming' = asker.send - n + n + Len(bootRx) BY <1>1, <1>4, <1>5 DEF Coming
  <2>2. Coming = asker.send + Len(bootRx) BY <1>1, LoaderEmpty, LoaderNumbers DEF Coming
  <2>3. InFlight' = InFlight BY <1>1 DEF InFlight
  <2>4. QED BY <1>3, <2>1, <2>2, <2>3, LoaderNumbers, SMTT(30)
<1>9. Greeting => InitIsLast'
  <2> SUFFICES ASSUME Greeting PROVE InitIsLast'
    OBVIOUS
  <2>1. bootRx \in Seq(Nat) /\ bootOut' \in Seq(Nat) /\ bootRx' = bootRx BY <1>1, <1>5 DEF LoaderTypes
  <2>2. \A k \in 1 .. Len(bootRx) : bootRx[k] # Loader!INIT
    <3>1. bootRx \o bootOut = bootRx BY <1>1, <2>1, ConcatEmptySeq
    <3>2. asker.send # 0 BY <1>3
    <3>3. QED BY <3>1, <3>2 DEF Greeting, InitIsLast
  <2> DEFINE q == bootRx \o bootOut'
  <2>3. Len(q) = Len(bootRx) + n
        /\ \A k \in 1 .. Len(q) : q[k] = IF k <= Len(bootRx) THEN bootRx[k] ELSE bootOut'[k - Len(bootRx)]
    BY <1>5, <2>1
  <2> HIDE DEF q
  <2>4. ASSUME NEW k \in 1 .. Len(q), q[k] = Loader!INIT PROVE asker'.send = 0 /\ k = Len(q)
    <3>1. Len(bootRx) \in Nat BY <2>1
    <3>2. k > Len(bootRx) BY <2>2, <2>3, <2>4, <3>1, <1>3
    <3>3. k - Len(bootRx) \in 1 .. n /\ bootOut'[k - Len(bootRx)] = Loader!INIT
      BY <1>3, <2>3, <2>4, <3>1, <3>2
    <3>4. k - Len(bootRx) = asker.send BY <1>5, <3>3 DEF Greeting
    <3>5. asker.send = n BY <1>3, <3>3, <3>4
    <3>6. asker'.send = 0 BY <1>3, <1>4, <3>5
    <3>7. k = Len(q) BY <1>3, <2>3, <3>1, <3>4, <3>5
    <3>8. QED BY <3>6, <3>7
  <2>5. QED BY <2>1, <2>4 DEF InitIsLast, q
<1>10. InPhase'
  BY <1>1, <1>4, <1>8, <1>9 DEF InPhase, Greeting, Asking, Answering, Answered
<1>11. QED BY <1>6, <1>7, <1>10

(* The host takes what was on its way to it. *)
LEMMA LoaderHostFetches == LoaderIInv /\ Loader!HostFetches => LoaderIInv'
<1> SUFFICES ASSUME LoaderIInv, Loader!HostFetches PROVE LoaderIInv'
  OBVIOUS
<1> USE DEF LoaderIInv
<1>1. /\ bootIn # <<>> /\ ~bootFetched /\ bootGot' = bootGot \o bootIn
      /\ asker' = [asker EXCEPT !.await = @ - Loader!Min({@, Len(bootIn)})]
      /\ IF port = "usb" THEN bootFetched' = TRUE /\ bootIn' = bootIn
                         ELSE bootIn' = <<>> /\ bootFetched' = bootFetched
      /\ UNCHANGED <<port, script, bootSent, bootPc, at, need, read, written, bootOut, bootRx, bootTx>>
  BY DEF Loader!HostFetches, Loader!cpuVars
<1>2. InFlight = Len(bootIn) + Len(bootTx) /\ Len(bootIn) > 0 BY <1>1, LoaderEmpty DEF InFlight
<1>3. asker.await >= InFlight
  <2>1. Greeting => asker.await = 1 /\ InFlight = 0 BY DEF Greeting
  <2>2. Asking => InFlight = 0 BY DEF Asking
  <2>3. Answering => asker.await = need + InFlight BY DEF Answering
  <2>4. Answered => asker.await = InFlight BY DEF Answered
  <2>5. QED BY <2>1, <2>2, <2>3, <2>4, LoaderNumbers DEF InPhase
<1>4. Loader!Min({asker.await, Len(bootIn)}) = Len(bootIn)
  <2>1. Len(bootIn) \in Nat /\ asker.await \in Nat /\ Len(bootIn) <= asker.await
    BY <1>2, <1>3, LoaderNumbers
  <2>2. Loader!Min({asker.await, Len(bootIn)})
        = IF asker.await <= Len(bootIn) THEN asker.await ELSE Len(bootIn)
    BY ONLY <2>1, MinOfTwo
  <2>3. QED BY <2>1, <2>2
<1>5. /\ asker' \in [at : Nat, send : Nat, await : Nat]
      /\ asker'.at = asker.at /\ asker'.send = asker.send /\ asker'.await = asker.await - Len(bootIn)
  <2>1. asker.await - Len(bootIn) \in Nat BY <1>2, <1>3, LoaderNumbers
  <2>2. asker' = [asker EXCEPT !.await = asker.await - Len(bootIn)] BY <1>1, <1>4
  <2>3. QED BY <2>1, <2>2 DEF LoaderTypes
<1>6. LoaderTypes'
  <2>1. bootGot' \in Seq(Nat) BY <1>1, Joined DEF LoaderTypes
  <2>2. bootIn' \in Seq(Nat) /\ bootFetched' \in BOOLEAN
    <3>1. bootIn \in Seq(Nat) /\ <<>> \in Seq(Nat) /\ bootFetched \in BOOLEAN BY LoaderSequences
    <3>2. QED BY <1>1, <3>1
  <2>3. QED BY <1>1, <1>5, <2>1, <2>2 DEF LoaderTypes
<1>7. LoaderFifos'
  <2>1. (IF bootFetched' THEN <<>> ELSE bootIn') = <<>> BY <1>1
  <2>2. Loader!AnswersInOrder'
    <3>1. (bootGot \o bootIn) \o <<>> = bootGot \o bootIn
      <4>1. bootGot \o bootIn \in Seq(Nat) BY Joined DEF LoaderTypes
      <4>2. QED BY <4>1, ConcatEmptySeq
    <3>2. QED BY <1>1, <2>1, <3>1 DEF LoaderFifos, Loader!AnswersInOrder
  <2>3. Loader!TakenInOrder' BY <1>1 DEF LoaderFifos, Loader!TakenInOrder
  <2>4. port = "i2c" => bootRx' = <<>> /\ bootTx' = <<>> /\ ~bootFetched' BY <1>1 DEF LoaderFifos
  <2>5. bootFetched' => bootIn' # <<>> BY <1>1
  <2>6. bootIn' = <<>> => bootTx' = <<>> BY <1>1 DEF LoaderFifos, LoaderTypes
  <2>7. QED BY <1>1, <2>2, <2>3, <2>4, <2>5, <2>6 DEF LoaderFifos
<1>8. InFlight' = InFlight - Len(bootIn) /\ Coming' = Coming
  <2>1. (IF bootFetched' THEN 0 ELSE Len(bootIn')) = 0 BY <1>1
  <2>2. InFlight' = Len(bootTx) BY <1>1, <2>1, LoaderNumbers DEF InFlight
  <2>3. Coming' = Coming BY <1>1, <1>5 DEF Coming
  <2>4. QED BY <1>2, <2>2, <2>3, LoaderNumbers
<1>9. InPhase'
  <2>1. InFlight > 0 BY <1>2, LoaderNumbers
  <2>2. ~Greeting /\ ~Asking BY <2>1, LoaderNumbers DEF Greeting, Asking
  <2>3. CASE Answering
    <3>1. port # "usb" BY <2>1, <2>3 DEF Answering
    <3>2. asker'.await = need + InFlight'
      <4>1. need \in Nat /\ InFlight \in Nat /\ Len(bootIn) \in Nat BY LoaderNumbers
      <4>2. asker.await = need + InFlight BY <2>3 DEF Answering
      <4>3. asker'.await = asker.await - Len(bootIn) /\ InFlight' = InFlight - Len(bootIn) BY <1>5, <1>8
      <4>4. QED BY ONLY <4>1, <4>2, <4>3
    <3>3. Answering' BY <1>1, <1>5, <1>8, <2>3, <3>1, <3>2 DEF Answering
    <3>4. QED BY <3>3 DEF InPhase
  <2>4. CASE Answered
    <3>1. Answered' BY <1>1, <1>2, <1>5, <1>8, <2>1, <2>4, LoaderNumbers DEF Answered
    <3>2. QED BY <3>1 DEF InPhase
  <2>5. QED BY <2>2, <2>3, <2>4 DEF InPhase
<1>10. QED BY <1>6, <1>7, <1>9

(* The host goes on only when the loader has answered. *)
LEMMA LoaderHostGoesOn == LoaderIInv /\ Loader!HostGoesOn => LoaderIInv'
<1> SUFFICES ASSUME LoaderIInv, Loader!HostGoesOn PROVE LoaderIInv'
  OBVIOUS
<1> USE DEF LoaderIInv
<1>1. /\ asker.send = 0 /\ asker.await = 0 /\ asker.at < Len(script)
      /\ asker' = [at |-> asker.at + 1, send |-> script[asker.at + 1].ask, await |-> script[asker.at + 1].answer]
      /\ UNCHANGED <<port, script, bootSent, bootGot, bootPc, at, need, read, written, bootOut, bootRx, bootTx,
                     bootIn, bootFetched>>
  BY DEF Loader!HostGoesOn, Loader!cpuVars, Loader!fifoVars
<1>2. script[asker.at + 1].ask \in Nat /\ script[asker.at + 1].ask > 0
      /\ script[asker.at + 1].answer \in 1 .. BootFifo
  <2>1. asker.at + 1 \in 1 .. Len(script) BY <1>1, LoaderNumbers
  <2>2. QED BY <2>1, LoaderScript, LoaderConstants
<1>3. LoaderTypes'
  <2>1. script[asker.at + 1].answer \in Nat BY <1>2, LoaderConstants
  <2>2. asker' \in [at : Nat, send : Nat, await : Nat] BY <1>1, <1>2, <2>1, LoaderNumbers, SMTT(30)
  <2>3. QED BY <1>1, <2>2 DEF LoaderTypes
<1>4. LoaderFifos' BY <1>1 DEF LoaderFifos, Loader!TakenInOrder, Loader!AnswersInOrder
<1>5. Answered /\ InFlight = 0 /\ bootPc \in {"processBoot", "receive"}
  <2>1. ~Greeting /\ ~Answering
    BY <1>1, LoaderNumbers DEF Greeting, Answering
  <2>2. ~Asking
    <3>1. at > 0 => at \in 1 .. Len(script) BY LoaderNumbers
    <3>2. at > 0 => script[at].answer > 0 BY <3>1, LoaderScript
    <3>3. QED BY <1>1, <3>2 DEF Asking
  <2>3. Answered BY <2>1, <2>2 DEF InPhase
  <2>4. bootPc \in {"processBoot", "receive"} BY <1>1, <2>3, LoaderNumbers DEF Answered
  <2>5. QED BY <1>1, <2>3, <2>4 DEF Answered
<1>6. InFlight' = 0 /\ Coming' = script[asker.at + 1].ask
  BY <1>1, <1>2, <1>5, LoaderNumbers DEF InFlight, Coming, Answered
<1>7. Asking' BY <1>1, <1>2, <1>5, <1>6, LoaderNumbers DEF Asking, Answered
<1>8. QED BY <1>3, <1>4, <1>7 DEF InPhase

(* A turn of the loader over USB that reads as much as it needs. *)
LEMMA LoaderReads ==
  ASSUME LoaderIInv, Loader!Reads, UNCHANGED <<port, asker, bootSent, bootGot, written>>
  PROVE  /\ read' \in Seq(Nat) /\ bootRx' \in Seq(Nat) /\ bootOut' \in Seq(Nat)
         /\ bootTx' \in Seq(Nat) /\ bootIn' \in Seq(Nat) /\ bootFetched' \in BOOLEAN
         /\ LoaderFifos'
         /\ InFlight' = InFlight
         /\ Len(read') >= Len(read) /\ Coming' = Coming - (Len(read') - Len(read))
         /\ port = "usb" => /\ read' = read \o Loader!First(need, bootRx)
                            /\ bootRx' \o bootOut' = Loader!Rest(need, bootRx) \o bootOut
                            /\ Len(read') - Len(read) = (IF need <= Len(bootRx) THEN need ELSE Len(bootRx))
         /\ port = "i2c" => Len(read') - Len(read) = Len(bootOut) /\ Len(bootOut) > 0
<1> USE DEF LoaderIInv
<1>1. CASE port = "usb"
  <2> DEFINE f == Loader!First(need, bootRx)
             r == Loader!Rest(need, bootRx)
  <2>1. read' = read \o f /\ Loader!TudTask(r, bootTx, FALSE) BY <1>1 DEF Loader!Reads, Loader!UsbReads
  <2>2. need \in Nat /\ bootRx \in Seq(Nat) /\ read \in Seq(Nat) /\ bootOut \in Seq(Nat) /\ bootTx \in Seq(Nat)
        /\ bootGot \in Seq(Nat)
    BY LoaderSequences, LoaderNumbers
  <2>3. f \in Seq(Nat) /\ r \in Seq(Nat) /\ f \o r = bootRx
        /\ Len(f) = (IF need <= Len(bootRx) THEN need ELSE Len(bootRx)) /\ Len(r) = Len(bootRx) - Len(f)
    BY <2>2, FirstAndRest
  <2> HIDE DEF f, r
  <2>4. /\ bootRx' \in Seq(Nat) /\ bootOut' \in Seq(Nat) /\ bootTx' \in Seq(Nat) /\ bootIn' \in Seq(Nat)
        /\ bootFetched' \in BOOLEAN
        /\ bootRx' \o bootOut' = r \o bootOut
        /\ (IF bootFetched' THEN <<>> ELSE bootIn') \o bootTx' = (IF bootFetched THEN <<>> ELSE bootIn) \o bootTx
        /\ Len(bootRx') + Len(bootOut') = Len(r) + Len(bootOut)
        /\ InFlight' = (IF bootFetched THEN 0 ELSE Len(bootIn)) + Len(bootTx)
        /\ bootFetched' => bootIn' # <<>>
        /\ bootIn' = <<>> => bootTx' = <<>>
    <3>1. bootFetched => bootIn # <<>> BY DEF LoaderFifos
    <3>2. bootIn = <<>> => bootTx = <<>> BY DEF LoaderFifos
    <3>3. QED BY <2>1, <2>2, <2>3, <3>1, <3>2, TudTaskMoves
  <2>5. read' \in Seq(Nat) /\ Len(read') = Len(read) + Len(f) BY <2>1, <2>2, <2>3, Joined
  <2>6. Loader!TakenInOrder'
    <3>1. bootSent = (read \o bootRx) \o bootOut BY DEF LoaderFifos, Loader!TakenInOrder
    <3>2. Cat(Cat(read, Cat(f, r)), bootOut) = Cat(Cat(Cat(read, f), r), bootOut)
      BY <2>2, <2>3, CatAssoc
    <3>3. Cat(Cat(Cat(read, f), r), bootOut) = Cat(Cat(read, f), Cat(r, bootOut))
      BY <2>2, <2>3, CatAssoc, CatIn, SMTT(30)
    <3>4. Cat(Cat(read, f), Cat(bootRx', bootOut')) = Cat(Cat(Cat(read, f), bootRx'), bootOut')
      <4>1. Cat(read, f) \in Seq(Nat) BY <2>2, <2>3, CatIn
      <4>2. bootRx' \in Seq(Nat) /\ bootOut' \in Seq(Nat) BY <2>4
      <4>3. QED BY ONLY <4>1, <4>2, CatAssoc
    <3>5. Cat(r, bootOut) = Cat(bootRx', bootOut') /\ Cat(f, r) = bootRx BY <2>3, <2>4 DEF Cat
    <3>6. Cat(Cat(read, bootRx), bootOut) = Cat(Cat(Cat(read, f), bootRx'), bootOut')
      BY <3>2, <3>3, <3>4, <3>5
    <3>7. bootSent' = Cat(Cat(Cat(read, f), bootRx'), bootOut') BY <3>1, <3>6 DEF Cat
    <3>8. QED BY <2>1, <3>7 DEF Cat, Loader!TakenInOrder
  <2>7. Loader!AnswersInOrder'
    <3> DEFINE x == IF bootFetched THEN <<>> ELSE bootIn
               y == IF bootFetched' THEN <<>> ELSE bootIn'
    <3>1. x \in Seq(Nat) /\ y \in Seq(Nat) /\ y \o bootTx' = x \o bootTx
      <4>1. bootIn \in Seq(Nat) /\ bootIn' \in Seq(Nat) /\ <<>> \in Seq(Nat) BY <2>4, LoaderSequences
      <4>2. x \in Seq(Nat) /\ y \in Seq(Nat) BY ONLY <4>1
      <4>3. QED BY <2>4, <4>2
    <3>2. (bootGot \o x) \o bootTx = [k \in 1 .. written |-> k] BY DEF LoaderFifos, Loader!AnswersInOrder
    <3>3. Loader!AnswersInOrder' <=> (bootGot \o y) \o bootTx' = [k \in 1 .. written |-> k]
      BY DEF Loader!AnswersInOrder
    <3> HIDE DEF x, y
    <3>4. (bootGot \o y) \o bootTx' = (bootGot \o x) \o bootTx
      <4>1. bootGot \in Seq(Nat) /\ bootTx \in Seq(Nat) /\ bootTx' \in Seq(Nat) BY <2>2, <2>4
      <4>2. x \in Seq(Nat) /\ y \in Seq(Nat) /\ y \o bootTx' = x \o bootTx BY <3>1
      <4>3. Cat(y, bootTx') = Cat(x, bootTx) BY <4>2 DEF Cat
      <4>4. Cat(bootGot, Cat(y, bootTx')) = Cat(Cat(bootGot, y), bootTx') BY ONLY <4>1, <4>2, CatAssoc
      <4>5. Cat(bootGot, Cat(x, bootTx)) = Cat(Cat(bootGot, x), bootTx) BY ONLY <4>1, <4>2, CatAssoc
      <4>6. Cat(Cat(bootGot, y), bootTx') = Cat(Cat(bootGot, x), bootTx) BY ONLY <4>3, <4>4, <4>5
      <4>7. QED BY ONLY <4>6 DEF Cat
    <3>5. QED BY <3>2, <3>3, <3>4
  <2>8. LoaderFifos' BY <1>1, <2>4, <2>6, <2>7 DEF LoaderFifos
  <2>9. InFlight' = InFlight BY <2>4 DEF InFlight
  <2>10. Coming' = Coming - (Len(read') - Len(read))
    <3>1. Len(bootRx') \in Nat /\ Len(bootOut') \in Nat
      <4>1. bootRx' \in Seq(Nat) /\ bootOut' \in Seq(Nat) BY <2>4
      <4>2. QED BY ONLY <4>1
    <3>7. Len(read) \in Nat /\ Len(f) \in Nat /\ Len(r) \in Nat
      <4>1. read \in Seq(Nat) /\ f \in Seq(Nat) /\ r \in Seq(Nat) BY <2>2, <2>3
      <4>2. QED BY ONLY <4>1
    <3>2. Coming' = asker.send + Len(bootOut') + Len(bootRx') BY DEF Coming
    <3>3. Coming = asker.send + Len(bootOut) + Len(bootRx) BY DEF Coming
    <3>4. asker.send \in Nat /\ Len(bootOut) \in Nat /\ Len(bootRx) \in Nat BY LoaderNumbers
    <3>5. Len(bootRx') + Len(bootOut') = Len(r) + Len(bootOut) /\ Len(r) = Len(bootRx) - Len(f)
          /\ Len(read') = Len(read) + Len(f)
      BY <2>3, <2>4, <2>5
    <3>6. Len(read') - Len(read) = Len(f) BY ONLY <3>5, <3>7
    <3>8. Len(bootRx') + Len(bootOut') = Len(bootRx) - Len(f) + Len(bootOut) BY ONLY <3>5
    <3>9. Coming' = Coming - Len(f)
      <4>1. Coming' = asker.send + (Len(bootRx') + Len(bootOut')) BY ONLY <3>1, <3>2, <3>4
      <4>2. Coming' = asker.send + (Len(bootRx) - Len(f) + Len(bootOut)) BY ONLY <4>1, <3>8
      <4>3. QED BY ONLY <4>2, <3>3, <3>4, <3>7
    <3>10. QED BY ONLY <3>6, <3>9
  <2>11. Len(read') >= Len(read) /\ Len(read') - Len(read) = Len(f)
    <3>1. Len(f) \in Nat /\ Len(read) \in Nat BY <2>2, <2>3
    <3>2. QED BY <2>5, <3>1
  <2>12. QED BY <1>1, <2>1, <2>3, <2>4, <2>5, <2>8, <2>9, <2>10, <2>11 DEF f, r
<1>2. CASE port = "i2c"
  <2>1. bootOut # <<>> /\ read' = read \o bootOut /\ bootOut' = <<>> /\ UNCHANGED <<bootRx, bootTx, bootIn, bootFetched>>
    BY <1>2 DEF Loader!Reads, Loader!I2cReads, Loader!fifoVars
  <2>2. /\ read \in Seq(Nat) /\ bootOut \in Seq(Nat) /\ bootRx \in Seq(Nat) /\ bootTx \in Seq(Nat)
        /\ bootIn \in Seq(Nat) /\ bootFetched \in BOOLEAN
    BY LoaderSequences
  <2>3. read' \in Seq(Nat) /\ Len(read') = Len(read) + Len(bootOut) BY <2>1, <2>2, Joined
  <2>4. bootRx = <<>> BY <1>2 DEF LoaderFifos
  <2>5. Loader!TakenInOrder'
    <3>1. (read \o <<>>) \o bootOut = ((read \o bootOut) \o <<>>) \o <<>>
      BY <2>1, <2>2, <2>3, ConcatEmptySeq
    <3>2. QED BY <2>1, <2>4, <3>1 DEF LoaderFifos, Loader!TakenInOrder
  <2>6. Loader!AnswersInOrder' BY <2>1 DEF LoaderFifos, Loader!AnswersInOrder
  <2>7. LoaderFifos' BY <2>1, <2>5, <2>6 DEF LoaderFifos
  <2>8. InFlight' = InFlight BY <2>1 DEF InFlight
  <2>9. Len(bootOut) \in Nat /\ Len(bootOut) > 0 /\ Len(<<>>) = 0
    <3>1. Len(bootOut) \in Nat \ {0} BY <2>1, <2>2, EmptySeq
    <3>2. QED BY <3>1
  <2>10. Len(read') >= Len(read) /\ Len(read') - Len(read) = Len(bootOut)
    <3>1. Len(read) \in Nat BY <2>2
    <3>2. QED BY <2>3, <2>9, <3>1
  <2>11. Coming' = Coming - Len(bootOut)
    <3>1. Coming' = asker.send + 0 + Len(bootRx) BY <2>1, <2>9 DEF Coming
    <3>2. Coming = asker.send + Len(bootOut) + Len(bootRx) BY DEF Coming
    <3>3. asker.send \in Nat /\ Len(bootOut) \in Nat /\ Len(bootRx) \in Nat BY LoaderNumbers
    <3>4. QED BY ONLY <3>1, <3>2, <3>3
  <2>12. QED BY <1>2, <2>1, <2>2, <2>3, <2>7, <2>8, <2>9, <2>10, <2>11
<1>3. QED BY <1>1, <1>2, LoaderSequences

(* A turn of the stack and nothing read or sent. *)
LEMMA LoaderStackWorks ==
  ASSUME LoaderIInv, port = "usb", Loader!TudTask(bootRx, bootTx, FALSE),
         UNCHANGED <<port, asker, bootSent, bootGot, read, written>>
  PROVE  /\ bootRx' \in Seq(Nat) /\ bootOut' \in Seq(Nat)
         /\ bootTx' \in Seq(Nat) /\ bootIn' \in Seq(Nat) /\ bootFetched' \in BOOLEAN
         /\ LoaderFifos'
         /\ InFlight' = InFlight /\ Coming' = Coming
<1> USE DEF LoaderIInv
<1>1. /\ bootRx \in Seq(Nat) /\ bootOut \in Seq(Nat) /\ bootTx \in Seq(Nat) /\ bootGot \in Seq(Nat)
      /\ bootIn \in Seq(Nat) /\ read \in Seq(Nat)
  BY LoaderSequences
<1>2. /\ bootRx' \in Seq(Nat) /\ bootOut' \in Seq(Nat) /\ bootTx' \in Seq(Nat) /\ bootIn' \in Seq(Nat)
      /\ bootFetched' \in BOOLEAN
      /\ bootRx' \o bootOut' = bootRx \o bootOut
      /\ (IF bootFetched' THEN <<>> ELSE bootIn') \o bootTx' = (IF bootFetched THEN <<>> ELSE bootIn) \o bootTx
      /\ Len(bootRx') + Len(bootOut') = Len(bootRx) + Len(bootOut)
      /\ InFlight' = (IF bootFetched THEN 0 ELSE Len(bootIn)) + Len(bootTx)
      /\ bootFetched' => bootIn' # <<>>
      /\ bootIn' = <<>> => bootTx' = <<>>
  <2>1. (bootFetched => bootIn # <<>>) /\ (bootIn = <<>> => bootTx = <<>>) BY DEF LoaderFifos
  <2>2. QED BY <1>1, <2>1, TudTaskMoves
<1>3. Loader!TakenInOrder'
  <2>1. Cat(bootRx', bootOut') = Cat(bootRx, bootOut) BY <1>2 DEF Cat
  <2>2. Cat(read, Cat(bootRx', bootOut')) = Cat(Cat(read, bootRx'), bootOut')
    <3>1. bootRx' \in Seq(Nat) /\ bootOut' \in Seq(Nat) BY <1>2
    <3>2. QED BY ONLY <1>1, <3>1, CatAssoc
  <2>3. Cat(read, Cat(bootRx, bootOut)) = Cat(Cat(read, bootRx), bootOut) BY ONLY <1>1, CatAssoc
  <2>4. Cat(Cat(read, bootRx'), bootOut') = Cat(Cat(read, bootRx), bootOut) BY ONLY <2>1, <2>2, <2>3
  <2>5. (read \o bootRx') \o bootOut' = (read \o bootRx) \o bootOut BY ONLY <2>4 DEF Cat
  <2>6. QED BY <2>5 DEF LoaderFifos, Loader!TakenInOrder
<1>4. Loader!AnswersInOrder'
  <2> DEFINE x == IF bootFetched THEN <<>> ELSE bootIn
             y == IF bootFetched' THEN <<>> ELSE bootIn'
  <2>1. x \in Seq(Nat) /\ y \in Seq(Nat) /\ y \o bootTx' = x \o bootTx
    <3>1. bootIn \in Seq(Nat) /\ bootIn' \in Seq(Nat) /\ <<>> \in Seq(Nat) BY <1>2, LoaderSequences
    <3>2. x \in Seq(Nat) /\ y \in Seq(Nat) BY ONLY <3>1
    <3>3. QED BY <1>2, <3>2
  <2>2. (bootGot \o x) \o bootTx = [k \in 1 .. written |-> k] BY DEF LoaderFifos, Loader!AnswersInOrder
  <2>3. Loader!AnswersInOrder' <=> (bootGot \o y) \o bootTx' = [k \in 1 .. written |-> k]
    BY DEF Loader!AnswersInOrder
  <2> HIDE DEF x, y
  <2>4. Cat(y, bootTx') = Cat(x, bootTx) BY <2>1 DEF Cat
  <2>5. bootTx' \in Seq(Nat) BY <1>2
  <2>6. Cat(bootGot, Cat(y, bootTx')) = Cat(Cat(bootGot, y), bootTx') BY ONLY <1>1, <2>1, <2>5, CatAssoc
  <2>7. Cat(bootGot, Cat(x, bootTx)) = Cat(Cat(bootGot, x), bootTx) BY ONLY <1>1, <2>1, CatAssoc
  <2>8. Cat(Cat(bootGot, y), bootTx') = Cat(Cat(bootGot, x), bootTx) BY ONLY <2>4, <2>6, <2>7
  <2>9. (bootGot \o y) \o bootTx' = (bootGot \o x) \o bootTx BY ONLY <2>8 DEF Cat
  <2>10. QED BY <2>2, <2>3, <2>9
<1>5. LoaderFifos' BY <1>2, <1>3, <1>4 DEF LoaderFifos
<1>6. Coming' = Coming
  <2>1. Coming' = asker.send + Len(bootOut') + Len(bootRx') BY DEF Coming
  <2>2. Coming = asker.send + Len(bootOut) + Len(bootRx) BY DEF Coming
  <2>3. Len(bootRx') \in Nat /\ Len(bootOut') \in Nat
    <3>1. bootRx' \in Seq(Nat) /\ bootOut' \in Seq(Nat) BY <1>2
    <3>2. QED BY ONLY <3>1
  <2>4. asker.send \in Nat /\ Len(bootOut) \in Nat /\ Len(bootRx) \in Nat BY LoaderNumbers
  <2>5. Len(bootRx') + Len(bootOut') = Len(bootRx) + Len(bootOut) BY <1>2
  <2>6. Coming' = asker.send + (Len(bootRx') + Len(bootOut')) BY ONLY <2>1, <2>3, <2>4
  <2>7. Coming' = asker.send + (Len(bootRx) + Len(bootOut)) BY ONLY <2>5, <2>6
  <2>8. QED BY ONLY <2>2, <2>4, <2>7
<1>7. InFlight' = InFlight BY <1>2 DEF InFlight
<1>8. QED BY <1>2, <1>5, <1>6, <1>7

(* waitForInit: INIT is the last byte, so nothing is on its way once it is read. *)
LEMMA LoaderWaitsForInit == LoaderIInv /\ Loader!WaitForInit => LoaderIInv'
<1> SUFFICES ASSUME LoaderIInv, Loader!WaitForInit PROVE LoaderIInv'
  OBVIOUS
<1> USE DEF LoaderIInv
<1>1. /\ bootPc = "waitForInit" /\ Loader!UsbReads
      /\ UNCHANGED <<port, script, asker, bootSent, bootGot, at, need, written>>
      /\ bootPc' = IF read' # read /\ read'[Len(read')] = Loader!INIT THEN "send" ELSE bootPc
  BY DEF Loader!WaitForInit, Loader!hostVars
<1>2. Greeting BY <1>1 DEF InPhase, Asking, Answering, Answered
<1>3. port = "usb" /\ need = 1 /\ at = 0 /\ asker.at = 0 /\ asker.await = 1 /\ InFlight = 0 /\ InitIsLast
  BY <1>2 DEF Greeting
<1>4. /\ read' \in Seq(Nat) /\ bootRx' \in Seq(Nat) /\ bootOut' \in Seq(Nat)
      /\ bootTx' \in Seq(Nat) /\ bootIn' \in Seq(Nat) /\ bootFetched' \in BOOLEAN
      /\ LoaderFifos' /\ InFlight' = InFlight
      /\ Coming' = Coming - (Len(read') - Len(read))
      /\ read' = read \o Loader!First(need, bootRx)
      /\ bootRx' \o bootOut' = Loader!Rest(need, bootRx) \o bootOut
  <2>1. Loader!Reads BY <1>1, <1>3 DEF Loader!Reads
  <2>2. UNCHANGED <<port, asker, bootSent, bootGot, written>> BY <1>1
  <2>3. QED BY ONLY <1>3, <2>1, <2>2, LoaderReads, LoaderIInv, LoaderConstants
<1> DEFINE f == Loader!First(1, bootRx)
           r == Loader!Rest(1, bootRx)
           q == bootRx \o bootOut
           p == bootRx' \o bootOut'
<1>5. read \in Seq(Nat) /\ bootRx \in Seq(Nat) /\ bootOut \in Seq(Nat) BY LoaderSequences
<1>6. f \in Seq(Nat) /\ r \in Seq(Nat) /\ f \o r = bootRx /\ Len(f) \in {0, 1}
  <2>1. Len(bootRx) \in Nat /\ 1 \in Nat BY <1>5
  <2>2. f \in Seq(Nat) /\ r \in Seq(Nat) /\ f \o r = bootRx
        /\ Len(f) = (IF 1 <= Len(bootRx) THEN 1 ELSE Len(bootRx))
    BY <1>5, <2>1, FirstAndRest
  <2> HIDE DEF f, r
  <2>3. QED BY <2>1, <2>2
<1>7. read' = read \o f /\ p = r \o bootOut BY <1>3, <1>4
<1>8. p \in Seq(Nat) /\ q \in Seq(Nat) /\ Len(q) = Len(bootRx) + Len(bootOut)
  <2>1. bootRx' \in Seq(Nat) /\ bootOut' \in Seq(Nat) BY <1>4
  <2>2. QED BY <1>5, <2>1, Joined
<1>9. \A k \in 1 .. Len(q) : q[k] = Loader!INIT => asker.send = 0 /\ k = Len(q)
  BY <1>3 DEF InitIsLast
<1>10. InitIsLast' <=> \A k \in 1 .. Len(p) : p[k] = Loader!INIT => asker.send = 0 /\ k = Len(p)
  BY <1>1 DEF InitIsLast
<1> HIDE DEF f, r, p
<1>11. q = f \o p
  <2>1. q = Cat(Cat(f, r), bootOut) BY <1>6 DEF Cat
  <2>2. Cat(f, Cat(r, bootOut)) = Cat(Cat(f, r), bootOut) BY ONLY <1>5, <1>6, CatAssoc
  <2>3. Cat(r, bootOut) = p BY <1>7 DEF Cat
  <2>4. q = Cat(f, p) BY <2>1, <2>2, <2>3
  <2>5. QED BY <2>4 DEF Cat
<1> HIDE DEF q
<1>12. Len(q) = Len(f) + Len(p) /\ Len(p) \in Nat
       /\ (\A k \in 1 .. Len(f) : q[k] = f[k]) /\ (\A k \in 1 .. Len(p) : q[Len(f) + k] = p[k])
  <2>1. Len(f \o p) = Len(f) + Len(p) /\ Len(p) \in Nat /\ Len(f) \in Nat BY <1>6, <1>8, Joined
  <2>2. \A k \in 1 .. Len(f) : (f \o p)[k] = f[k] BY <1>6, <1>8
  <2>3. \A k \in 1 .. Len(p) : (f \o p)[Len(f) + k] = p[k] BY <1>6, <1>8, CatAt
  <2>4. QED BY <1>11, <2>1, <2>2, <2>3
<1>13. InitIsLast'
  <2> SUFFICES ASSUME NEW k \in 1 .. Len(p), p[k] = Loader!INIT PROVE asker.send = 0 /\ k = Len(p)
    BY <1>10
  <2>1. Len(f) \in Nat BY <1>6
  <2>2. Len(f) + k \in 1 .. Len(q) BY <1>12, <2>1
  <2>3. q[Len(f) + k] = Loader!INIT BY <1>12
  <2>4. asker.send = 0 /\ Len(f) + k = Len(q) BY <1>9, <2>2, <2>3
  <2>5. QED BY <1>12, <2>1, <2>4
<1>14. CASE read' # read /\ read'[Len(read')] = Loader!INIT
  <2>1. Len(f) = 1
    <3>1. Len(f) = 0 => f = <<>> BY <1>6, EmptySeq
    <3>2. read \o <<>> = read BY <1>5, ConcatEmptySeq
    <3>3. QED BY <1>6, <1>7, <1>14, <3>1, <3>2
  <2>2. Len(read') = Len(read) + 1 /\ read'[Len(read')] = f[1] /\ Len(read) \in Nat
    <3>1. read \in Seq(Nat) /\ f \in Seq(Nat) /\ 1 \in 1 .. Len(f) BY <1>5, <1>6, <2>1
    <3>2. Len(read \o f) = Len(read) + Len(f) BY ONLY <3>1, Joined
    <3>3. (read \o f)[Len(read) + 1] = f[1] BY ONLY <3>1, CatAt
    <3>4. Len(read) \in Nat BY ONLY <3>1
    <3>5. Len(read \o f) = Len(read) + 1 BY ONLY <2>1, <3>2
    <3>6. QED BY <1>7, <3>3, <3>4, <3>5
  <2>3. asker.send = 0 /\ Len(q) = 1
    <3>1. 1 \in 1 .. Len(f) /\ 1 \in 1 .. Len(q) BY <1>12, <2>1
    <3>2. q[1] = Loader!INIT BY <1>12, <1>14, <2>2, <3>1
    <3>3. asker.send = 0 /\ 1 = Len(q) BY <1>9, <3>1, <3>2
    <3>4. QED BY <3>3
  <2>4. Coming = 1
    <3>1. Len(bootRx) \in Nat /\ Len(bootOut) \in Nat /\ asker.send = 0 /\ Len(bootRx) + Len(bootOut) = 1
      <4>1. Len(bootRx) \in Nat /\ Len(bootOut) \in Nat BY ONLY <1>5
      <4>2. Len(bootRx) + Len(bootOut) = 1 BY ONLY <1>8, <2>3
      <4>3. QED BY <2>3, <4>1, <4>2
    <3>2. Coming = asker.send + Len(bootOut) + Len(bootRx) BY DEF Coming
    <3>3. QED BY ONLY <3>1, <3>2
  <2>5. Coming' = 0 BY <1>4, <2>2, <2>4
  <2>6. bootPc' = "send" BY <1>1, <1>14
  <2>7. 1 <= BootFifo BY LoaderConstants
  <2>8. Answering'
    <3>1. asker' = asker /\ at' = 0 /\ need' = 1 /\ InFlight' = 0 BY <1>1, <1>3, <1>4
    <3>2. asker'.at = 0 /\ asker'.await = 1 BY <1>3, <3>1
    <3>3. asker'.await = need' + InFlight' BY ONLY <3>1, <3>2
    <3>4. need' > 0 /\ need' <= BootFifo BY ONLY <3>1, <2>7
    <3>5. QED BY <2>5, <2>6, <3>1, <3>2, <3>3, <3>4 DEF Answering
  <2>9. LoaderTypes' BY <1>1, <1>4, <2>6 DEF LoaderTypes
  <2>10. QED BY <1>4, <2>8, <2>9 DEF InPhase
<1>15. CASE ~(read' # read /\ read'[Len(read')] = Loader!INIT)
  <2>1. bootPc' = "waitForInit" BY <1>1, <1>15
  <2>2. Greeting' BY <1>1, <1>3, <1>4, <1>13, <2>1 DEF Greeting
  <2>3. LoaderTypes' BY <1>1, <1>4, <2>1 DEF LoaderTypes
  <2>4. QED BY <1>4, <2>2, <2>3 DEF InPhase
<1>16. QED BY <1>14, <1>15

LEMMA PlusZero == ASSUME NEW m \in Nat PROVE m + 0 = m /\ 0 + m = m
OBVIOUS

(* receive reads what the exchange still needs and never more. *)
LEMMA LoaderReceives == LoaderIInv /\ Loader!Receive => LoaderIInv'
<1> SUFFICES ASSUME LoaderIInv, Loader!Receive PROVE LoaderIInv'
  OBVIOUS
<1> USE DEF LoaderIInv
<1> DEFINE n == Len(read') - Len(read)
<1>1. /\ bootPc = "receive" /\ Loader!Reads
      /\ UNCHANGED <<port, script, asker, bootSent, bootGot, at, written>>
      /\ IF n = need THEN bootPc' = "send" /\ need' = script[at].answer
                     ELSE need' = need - n /\ bootPc' = bootPc
  BY DEF Loader!Receive, Loader!hostVars
<1>2. /\ read' \in Seq(Nat) /\ bootRx' \in Seq(Nat) /\ bootOut' \in Seq(Nat)
      /\ bootTx' \in Seq(Nat) /\ bootIn' \in Seq(Nat) /\ bootFetched' \in BOOLEAN
      /\ LoaderFifos' /\ InFlight' = InFlight
      /\ Len(read') >= Len(read) /\ Coming' = Coming - n
      /\ port = "usb" => n = (IF need <= Len(bootRx) THEN need ELSE Len(bootRx))
      /\ port = "i2c" => n = Len(bootOut) /\ Len(bootOut) > 0
  <2>1. UNCHANGED <<port, asker, bootSent, bootGot, written>> BY <1>1
  <2>2. QED BY ONLY <1>1, <2>1, LoaderReads, LoaderIInv, LoaderConstants
<1>3. n \in Nat
  <2>1. Len(read) \in Nat /\ Len(read') \in Nat /\ Len(read') >= Len(read)
    <3>1. read \in Seq(Nat) /\ read' \in Seq(Nat) BY <1>2, LoaderSequences
    <3>2. QED BY <1>2, <3>1
  <2>2. QED BY ONLY <2>1
<1>4. port \in {"usb", "i2c"} BY LoaderSequences
<1> HIDE DEF n
<1>5. /\ Coming \in Nat /\ need \in Nat /\ Len(bootRx) \in Nat /\ Len(bootOut) \in Nat /\ asker.send \in Nat
      /\ Coming = asker.send + Len(bootOut) + Len(bootRx)
  BY LoaderNumbers DEF Coming
<1>6. at \in 1 .. Len(script) BY <1>1, LoaderNumbers DEF InPhase, Greeting, Asking, Answering, Answered
<1>7. script[at].ask > 0 /\ script[at].answer \in Nat /\ script[at].answer > 0 /\ script[at].answer <= BootFifo
  BY <1>6, LoaderScript
<1>8. n <= Coming
  <2>1. CASE port = "usb"
    <3>1. n <= Len(bootRx) BY <1>2, <1>3, <1>5, <2>1, SMTT(30)
    <3>2. QED BY ONLY <1>3, <1>5, <3>1
  <2>2. CASE port = "i2c"
    <3>1. n = Len(bootOut) BY <1>2, <2>2
    <3>2. QED BY ONLY <1>3, <1>5, <3>1
  <2>3. QED BY <1>4, <2>1, <2>2
<1>9. CASE Asking
  <2>1. Coming = need /\ need > 0 /\ asker.at = at /\ at > 0 /\ asker.await = script[at].answer /\ InFlight = 0
    BY <1>1, <1>9 DEF Asking
  <2>2. CASE n = need
    <3>1. bootPc' = "send" /\ need' = script[at].answer BY <1>1, <2>2
    <3>2. Coming' = 0
      <4>1. Coming' = Coming - n BY <1>2
      <4>2. QED BY ONLY <1>5, <2>1, <2>2, <4>1
    <3>3. asker' = asker /\ at' = at /\ InFlight' = 0 BY <1>1, <1>2, <2>1
    <3>4. asker'.await = need' + InFlight'
      <4>1. asker'.await = need' /\ need' \in Nat BY <1>7, <2>1, <3>1, <3>3
      <4>2. InFlight' = 0 BY <3>3
      <4>3. need' + InFlight' = need' BY ONLY <4>1, <4>2, PlusZero, Zenon
      <4>4. QED BY ONLY <4>1, <4>3
    <3>5. need' > 0 /\ need' <= BootFifo BY <1>7, <3>1
    <3>6. asker'.at = at' BY <2>1, <3>3
    <3>7. Answering' BY <3>1, <3>2, <3>3, <3>4, <3>5, <3>6 DEF Answering
    <3>8. LoaderTypes' BY <1>1, <1>2, <1>7, <3>1 DEF LoaderTypes
    <3>9. QED BY <1>2, <3>7, <3>8 DEF InPhase
  <2>3. CASE n # need
    <3>1. bootPc' = "receive" /\ need' = need - n BY <1>1, <2>3
    <3>2. Coming' = need' /\ Coming' > 0 /\ need' \in Nat
      <4>1. Coming' = Coming - n BY <1>2
      <4>2. QED BY ONLY <1>3, <1>5, <1>8, <2>1, <2>3, <3>1, <4>1
    <3>3. asker' = asker /\ at' = at /\ script' = script /\ InFlight' = 0 BY <1>1, <1>2, <2>1
    <3>4. Asking' BY <2>1, <3>1, <3>2, <3>3 DEF Asking
    <3>5. LoaderTypes' BY <1>1, <1>2, <3>1, <3>2 DEF LoaderTypes
    <3>6. QED BY <1>2, <3>4, <3>5 DEF InPhase
  <2>4. QED BY <2>2, <2>3
<1>10. CASE Answered
  <2>1. Coming = 0 /\ asker.await = InFlight /\ at > 0 /\ asker.at + 1 = at /\ need = script[at].ask
    BY <1>1, <1>10 DEF Answered
  <2>2. n = 0 BY ONLY <1>3, <1>8, <2>1
  <2>3. need > 0 BY <1>7, <2>1
  <2>4. bootPc' = "receive" /\ need' = need
    <3>1. n # need BY <2>2, <2>3
    <3>2. bootPc' = "receive" /\ need' = need - n BY <1>1, <3>1
    <3>3. QED BY ONLY <1>5, <2>2, <3>2
  <2>5. Coming' = 0
    <3>1. Coming' = Coming - n BY <1>2
    <3>2. QED BY ONLY <2>1, <2>2, <3>1
  <2>6. asker' = asker /\ at' = at /\ script' = script /\ InFlight' = InFlight BY <1>1, <1>2
  <2>7. Answered' BY <2>1, <2>4, <2>5, <2>6 DEF Answered
  <2>8. LoaderTypes' BY <1>1, <1>2, <2>4 DEF LoaderTypes
  <2>9. QED BY <1>2, <2>7, <2>8 DEF InPhase
<1>11. QED BY <1>1, <1>9, <1>10 DEF InPhase, Greeting, Answering

(* send: there is room, since the answer before has been fetched. *)
LEMMA LoaderSends == LoaderIInv /\ Loader!Send => LoaderIInv'
<1> SUFFICES ASSUME LoaderIInv, Loader!Send PROVE LoaderIInv'
  OBVIOUS
<1> USE DEF LoaderIInv
<1>1. /\ bootPc = "send" /\ Loader!Sends
      /\ UNCHANGED <<port, script, asker, bootSent, bootGot, read>>
      /\ \/ need' > 0 /\ UNCHANGED <<bootPc, at>>
         \/ ~(need' > 0) /\ at = Len(script) /\ bootPc' = "resetBoot" /\ at' = at
         \/ ~(need' > 0) /\ at # Len(script) /\ bootPc' = "processBoot" /\ at' = at + 1
  BY DEF Loader!Send, Loader!hostVars
<1>2. Answering BY <1>1 DEF InPhase, Greeting, Asking, Answered
<1>3. /\ asker.at = at /\ Coming = 0 /\ need > 0 /\ need <= BootFifo
      /\ asker.await = need + InFlight /\ (port = "usb" => InFlight = 0)
  BY <1>2 DEF Answering
<1>4. /\ bootRx \in Seq(Nat) /\ bootOut \in Seq(Nat) /\ bootTx \in Seq(Nat) /\ bootGot \in Seq(Nat)
      /\ bootIn \in Seq(Nat) /\ bootFetched \in BOOLEAN /\ read \in Seq(Nat) /\ port \in {"usb", "i2c"}
  BY LoaderSequences
<1>5. need \in Nat /\ written \in Nat /\ at \in Nat /\ Len(script) \in Nat /\ at <= Len(script) /\ InFlight \in Nat
  BY LoaderNumbers
<1>6. SUFFICES /\ bootRx' \in Seq(Nat) /\ bootOut' \in Seq(Nat) /\ bootTx' \in Seq(Nat) /\ bootIn' \in Seq(Nat)
               /\ bootFetched' \in BOOLEAN /\ LoaderFifos'
               /\ written' \in Nat /\ need' \in Nat /\ need' <= need
               /\ Coming' = 0 /\ asker.await = need' + InFlight' /\ InFlight' \in Nat
               /\ (port = "usb" => need' = 0)
  <2>1. asker' = asker /\ script' = script /\ port' = port BY <1>1
  <2>2. CASE need' > 0 /\ UNCHANGED <<bootPc, at>>
    <3>1. need' <= BootFifo
      <4>1. BootFifo \in Nat BY LoaderConstants
      <4>2. QED BY ONLY <1>3, <1>5, <1>6, <4>1
    <3>2. port' # "usb" BY <1>6, <2>1, <2>2
    <3>3. Answering' BY <1>1, <1>3, <1>6, <2>1, <2>2, <3>1, <3>2 DEF Answering
    <3>4. LoaderTypes' BY <1>1, <1>4, <1>6, <2>1, <2>2 DEF LoaderTypes
    <3>5. QED BY <1>6, <3>3, <3>4 DEF InPhase
  <2>3. CASE ~(need' > 0)
    <3>1. need' = 0 BY <1>6, <2>3
    <3>2. asker.await = InFlight'
      <4>1. asker.await = need' + InFlight' /\ InFlight' \in Nat BY <1>6
      <4>2. need' + InFlight' = InFlight' BY ONLY <3>1, <4>1, PlusZero, Zenon
      <4>3. QED BY ONLY <4>1, <4>2
    <3>3. CASE at = Len(script) /\ bootPc' = "resetBoot" /\ at' = at
      <4>1. Answered' BY <1>3, <1>6, <2>1, <3>2, <3>3 DEF Answered
      <4>2. LoaderTypes' BY <1>1, <1>4, <1>6, <2>1, <3>3 DEF LoaderTypes
      <4>3. QED BY <1>6, <4>1, <4>2 DEF InPhase
    <3>4. CASE at # Len(script) /\ bootPc' = "processBoot" /\ at' = at + 1
      <4>1. at' > 0 /\ at' \in 0 .. Len(script) BY ONLY <1>5, <3>4
      <4>2. Answered' BY <1>3, <1>6, <2>1, <3>2, <3>4, <4>1 DEF Answered
      <4>3. LoaderTypes' BY <1>1, <1>4, <1>6, <2>1, <3>4, <4>1 DEF LoaderTypes
      <4>4. QED BY <1>6, <4>2, <4>3 DEF InPhase
    <3>5. QED BY <1>1, <2>3, <3>3, <3>4
  <2>4. QED BY <1>1, <2>2, <2>3
<1> DEFINE x == IF bootFetched THEN <<>> ELSE bootIn
           y == IF bootFetched' THEN <<>> ELSE bootIn'
<1>7. (bootGot \o x) \o bootTx = [k \in 1 .. written |-> k] BY DEF LoaderFifos, Loader!AnswersInOrder
<1>8. Loader!AnswersInOrder' <=> (bootGot \o y) \o bootTx' = [k \in 1 .. written' |-> k]
  BY <1>1 DEF Loader!AnswersInOrder
<1>9. (bootFetched => bootIn # <<>>) /\ (bootIn = <<>> => bootTx = <<>>) BY DEF LoaderFifos
<1>10. bootOut = <<>> /\ bootRx = <<>> /\ asker.send = 0 BY <1>3, LoaderEmpty
<1>11. bootGot \o <<>> = bootGot /\ <<>> \in Seq(Nat) BY <1>4, ConcatEmptySeq
<1>12. CASE port = "usb"
  <2> DEFINE b == [k \in 1 .. need |-> written + k]
  <2>1. bootTx = <<>> /\ x = <<>> BY <1>3, <1>4, <1>12, LoaderEmpty
  <2>2. b \in Seq(Nat) /\ Len(b) = need BY <1>5
  <2>3. Loader!First(BootFifo - Len(bootTx), b) = b
    <3>1. Len(bootTx) = 0 BY <2>1
    <3>2. BootFifo \in Nat /\ BootFifo - Len(bootTx) = BootFifo BY <3>1, LoaderConstants
    <3> HIDE DEF b
    <3> DEFINE f == Loader!First(BootFifo, b)
               r == Loader!Rest(BootFifo, b)
    <3>3. f \in Seq(Nat) /\ r \in Seq(Nat) /\ Len(f) = (IF BootFifo <= Len(b) THEN BootFifo ELSE Len(b))
          /\ Len(r) = Len(b) - Len(f) /\ f \o r = b
      BY <2>2, <3>2, FirstAndRest
    <3> HIDE DEF f, r
    <3>4. Len(f) = need BY ONLY <1>3, <1>5, <2>2, <3>2, <3>3
    <3>5. Len(r) = 0 BY ONLY <1>5, <2>2, <3>3, <3>4
    <3>6. r = <<>> BY <3>3, <3>5, EmptySeq
    <3>7. f = b BY <3>3, <3>6, ConcatEmptySeq
    <3>8. QED BY <3>2, <3>7 DEF f
  <2>4. bootTx \o b = b BY <2>1, <2>2, ConcatEmptySeq
  <2>5. Loader!TudTask(bootRx, b, TRUE) /\ written' = written + need /\ need' = 0
    BY <1>1, <1>12, <2>3, <2>4 DEF Loader!Sends, Loader!UsbSends
  <2>6. [k \in 1 .. written |-> k] \o b = [k \in 1 .. written + need |-> k] BY <1>5, NumbersGoOn
  <2> HIDE DEF b
  <2>7. /\ bootRx' \in Seq(Nat) /\ bootOut' \in Seq(Nat) /\ bootTx' \in Seq(Nat) /\ bootIn' \in Seq(Nat)
        /\ bootFetched' \in BOOLEAN
        /\ bootRx' \o bootOut' = bootRx \o bootOut
        /\ y \o bootTx' = x \o b
        /\ Len(bootRx') + Len(bootOut') = Len(bootRx) + Len(bootOut)
        /\ InFlight' = (IF bootFetched THEN 0 ELSE Len(bootIn)) + Len(b)
        /\ bootFetched' => bootIn' # <<>>
        /\ bootIn' = <<>> => bootTx' = <<>>
    <3>1. TRUE \in BOOLEAN OBVIOUS
    <3>2. QED BY <1>4, <1>9, <2>2, <2>5, <3>1, TudTaskMoves
  <2>8. y \in Seq(Nat)
    <3>1. bootIn' \in Seq(Nat) BY <2>7
    <3>2. QED BY ONLY <1>11, <3>1
  <2> HIDE DEF y
  <2>9. Loader!AnswersInOrder'
    <3>1. x \o b = b BY <2>1, <2>2, ConcatEmptySeq
    <3>2. bootGot = [k \in 1 .. written |-> k]
      <4>1. (bootGot \o <<>>) \o <<>> = [k \in 1 .. written |-> k] BY <1>7, <2>1
      <4>2. QED BY <1>11, <4>1
    <3>3. bootTx' \in Seq(Nat) BY <2>7
    <3>4. Cat(bootGot, Cat(y, bootTx')) = Cat(Cat(bootGot, y), bootTx') BY ONLY <1>4, <2>8, <3>3, CatAssoc
    <3>5. Cat(y, bootTx') = b BY <2>7, <3>1 DEF Cat
    <3>6. Cat(bootGot, b) = Cat(Cat(bootGot, y), bootTx') BY ONLY <3>4, <3>5
    <3>7. bootGot \o b = (bootGot \o y) \o bootTx' BY ONLY <3>6 DEF Cat
    <3>8. bootGot \o b = [k \in 1 .. written + need |-> k] BY <2>6, <3>2
    <3>9. QED BY <1>8, <2>5, <3>7, <3>8
  <2>10. bootRx' = <<>> /\ bootOut' = <<>>
    <3>1. Len(bootRx) = 0 /\ Len(bootOut) = 0 BY <1>10
    <3>2. Len(bootRx') \in Nat /\ Len(bootOut') \in Nat
      <4>1. bootRx' \in Seq(Nat) /\ bootOut' \in Seq(Nat) BY <2>7
      <4>2. QED BY ONLY <4>1
    <3>3. Len(bootRx') + Len(bootOut') = 0 BY <2>7, <3>1
    <3>4. Len(bootRx') = 0 /\ Len(bootOut') = 0 BY ONLY <3>2, <3>3
    <3>5. QED BY <2>7, <3>4, EmptySeq
  <2>11. Loader!TakenInOrder'
    BY <1>1, <1>10, <2>10 DEF LoaderFifos, Loader!TakenInOrder
  <2>12. LoaderFifos' BY <1>1, <1>12, <2>7, <2>9, <2>11 DEF LoaderFifos
  <2>13. Coming' = 0
    <3>1. asker'.send = 0 /\ Len(bootRx') = 0 /\ Len(bootOut') = 0 BY <1>1, <1>10, <2>10
    <3>2. Coming' = asker'.send + Len(bootOut') + Len(bootRx') BY DEF Coming
    <3>3. QED BY ONLY <3>1, <3>2
  <2>14. InFlight' = need
    <3>1. (IF bootFetched THEN 0 ELSE Len(bootIn)) = 0 BY <2>1
    <3>2. InFlight' = 0 + Len(b) BY <2>7, <3>1
    <3>3. QED BY ONLY <1>5, <2>2, <3>2
  <2>15. asker.await = need' + InFlight'
    <3>1. InFlight = 0 BY <1>3, <1>12
    <3>2. asker.await = need + InFlight BY <1>3
    <3>3. need' = 0 BY <2>5
    <3>4. QED BY ONLY <1>5, <2>14, <3>1, <3>2, <3>3
  <2>16. written' \in Nat /\ need' \in Nat /\ need' <= need /\ need' = 0 BY ONLY <1>5, <2>5
  <2>17. QED BY <1>5, <2>7, <2>12, <2>13, <2>14, <2>15, <2>16
<1>13. CASE port = "i2c"
  <2>1. /\ bootIn = <<>> /\ bootIn' = <<written + 1>> /\ written' = written + 1 /\ need' = need - 1
        /\ UNCHANGED <<bootOut, bootRx, bootTx, bootFetched>>
    BY <1>1, <1>13 DEF Loader!Sends, Loader!I2cSends
  <2>2. bootTx = <<>> /\ ~bootFetched /\ x = <<>> /\ y = <<written + 1>>
    BY <1>9, <1>13, <2>1 DEF LoaderFifos
  <2>3. <<written + 1>> \in Seq(Nat) /\ <<written + 1>> # <<>> /\ Len(<<written + 1>>) = 1 BY <1>5
  <2>4. Loader!AnswersInOrder'
    <3>1. bootGot = [k \in 1 .. written |-> k]
      <4>1. (bootGot \o <<>>) \o <<>> = [k \in 1 .. written |-> k] BY <1>7, <2>2
      <4>2. QED BY <1>11, <4>1
    <3>2. [k \in 1 .. written |-> k] \o [k \in 1 .. 1 |-> written + k] = [k \in 1 .. written + 1 |-> k]
      BY <1>5, NumbersGoOn
    <3>3. [k \in 1 .. 1 |-> written + k] = <<written + 1>> BY <1>5
    <3>4. bootGot \o <<written + 1>> \in Seq(Nat) BY <1>4, <2>3, Joined
    <3>5. (bootGot \o <<written + 1>>) \o <<>> = bootGot \o <<written + 1>> BY <3>4, ConcatEmptySeq
    <3>6. bootGot \o <<written + 1>> = [k \in 1 .. written + 1 |-> k] BY <3>1, <3>2, <3>3
    <3>7. (bootGot \o y) \o bootTx' = bootGot \o <<written + 1>> BY <2>1, <2>2, <3>5
    <3>8. QED BY <1>8, <2>1, <3>6, <3>7
  <2>5. Loader!TakenInOrder' BY <1>1, <2>1 DEF LoaderFifos, Loader!TakenInOrder
  <2>6. LoaderFifos' BY <1>1, <1>13, <2>1, <2>2, <2>3, <2>4, <2>5 DEF LoaderFifos
  <2>7. Coming' = 0 BY <1>1, <1>3, <2>1 DEF Coming
  <2>8. InFlight' = 1 /\ InFlight = 0
    <3>1. Len(bootTx) = 0 /\ Len(bootIn) = 0 /\ Len(bootIn') = 1 BY <2>1, <2>2, <2>3
    <3>2. InFlight = 0 BY <2>2, <3>1 DEF InFlight
    <3>3. InFlight' = 1 BY <2>1, <2>2, <3>1 DEF InFlight
    <3>4. QED BY <3>2, <3>3
  <2>9. asker.await = need' + InFlight'
    <3>1. asker.await = need + InFlight /\ need' = need - 1 BY <1>3, <2>1
    <3>2. QED BY ONLY <1>5, <2>8, <3>1
  <2>10. written' \in Nat /\ need' \in Nat /\ need' <= need BY <1>3, <1>5, <2>1
  <2>11. bootRx' \in Seq(Nat) /\ bootOut' \in Seq(Nat) /\ bootTx' \in Seq(Nat) /\ bootIn' \in Seq(Nat)
         /\ bootFetched' \in BOOLEAN
    BY <1>4, <2>1, <2>3
  <2>12. QED BY <1>13, <2>6, <2>7, <2>8, <2>9, <2>10, <2>11
<1>14. QED BY <1>4, <1>12, <1>13

(* processBoot: the next exchange. *)
LEMMA LoaderProcesses == LoaderIInv /\ Loader!ProcessBoot => LoaderIInv'
<1> SUFFICES ASSUME LoaderIInv, Loader!ProcessBoot PROVE LoaderIInv'
  OBVIOUS
<1> USE DEF LoaderIInv
<1>1. /\ bootPc = "processBoot" /\ bootPc' = "receive" /\ need' = script[at].ask
      /\ IF port = "usb" THEN Loader!TudTask(bootRx, bootTx, FALSE)
                         ELSE UNCHANGED <<bootOut, bootRx, bootTx, bootIn, bootFetched>>
      /\ UNCHANGED <<port, script, asker, bootSent, bootGot, at, read, written>>
  BY DEF Loader!ProcessBoot, Loader!hostVars, Loader!fifoVars
<1>2. Asking \/ Answered BY <1>1 DEF InPhase, Greeting, Answering
<1>3. at \in 1 .. Len(script) BY <1>1, <1>2, LoaderNumbers DEF Asking, Answered
<1>4. script[at].ask \in Nat BY <1>3, LoaderScript
<1>5. /\ bootRx' \in Seq(Nat) /\ bootOut' \in Seq(Nat)
      /\ bootTx' \in Seq(Nat) /\ bootIn' \in Seq(Nat) /\ bootFetched' \in BOOLEAN
      /\ LoaderFifos' /\ InFlight' = InFlight /\ Coming' = Coming
  <2>1. CASE port = "usb"
    <3>1. Loader!TudTask(bootRx, bootTx, FALSE) /\ UNCHANGED <<port, asker, bootSent, bootGot, read, written>>
      BY <1>1, <2>1
    <3>2. QED BY ONLY <2>1, <3>1, LoaderStackWorks, LoaderIInv, LoaderConstants
  <2>2. CASE port # "usb"
    <3>1. UNCHANGED <<port, asker, bootSent, bootGot, read, written, bootOut, bootRx, bootTx, bootIn, bootFetched>>
      BY <1>1, <2>2
    <3>2. LoaderFifos' BY <3>1 DEF LoaderFifos, Loader!TakenInOrder, Loader!AnswersInOrder
    <3>3. InFlight' = InFlight /\ Coming' = Coming BY <3>1 DEF InFlight, Coming
    <3>4. QED BY <3>1, <3>2, <3>3, LoaderSequences
  <2>3. QED BY <2>1, <2>2
<1>6. LoaderTypes' BY <1>1, <1>4, <1>5 DEF LoaderTypes
<1>7. Asking => Asking' BY <1>1, <1>5 DEF Asking
<1>8. Answered => Answered' BY <1>1, <1>5 DEF Answered
<1>9. QED BY <1>2, <1>5, <1>6, <1>7, <1>8 DEF InPhase

(* resetBoot: nothing is on its way to the host when the bus is switched off. *)
LEMMA LoaderResets == LoaderIInv /\ Loader!ResetBoot => LoaderIInv'
<1> SUFFICES ASSUME LoaderIInv, Loader!ResetBoot PROVE LoaderIInv'
  OBVIOUS
<1> USE DEF LoaderIInv
<1>1. /\ bootPc = "resetBoot"
      /\ UNCHANGED <<port, script, asker, bootSent, bootGot, at, need, read, written>>
      /\ \/ bootIn = <<>> /\ bootPc' = "down" /\ UNCHANGED <<bootOut, bootRx, bootTx, bootIn, bootFetched>>
         \/ port = "usb" /\ Loader!TudTask(bootRx, bootTx, FALSE) /\ bootPc' = bootPc
  BY DEF Loader!ResetBoot, Loader!UsbResetBoot, Loader!I2cResetBoot, Loader!hostVars, Loader!fifoVars
<1>2. Answered BY <1>1 DEF InPhase, Greeting, Asking, Answering
<1>3. CASE bootIn = <<>> /\ bootPc' = "down" /\ UNCHANGED <<bootOut, bootRx, bootTx, bootIn, bootFetched>>
  <2>1. bootTx = <<>> /\ ~bootFetched BY <1>3 DEF LoaderFifos
  <2>2. InFlight = 0
    <3>1. Len(bootIn) = 0 /\ Len(bootTx) = 0 BY <1>3, <2>1
    <3>2. QED BY <2>1, <3>1 DEF InFlight
  <2>3. InFlight' = InFlight /\ Coming' = Coming BY <1>1, <1>3 DEF InFlight, Coming
  <2>4. Answered' BY <1>1, <1>2, <1>3, <2>2, <2>3 DEF Answered
  <2>5. LoaderFifos' BY <1>1, <1>3 DEF LoaderFifos, Loader!TakenInOrder, Loader!AnswersInOrder
  <2>6. LoaderTypes' BY <1>1, <1>3 DEF LoaderTypes
  <2>7. QED BY <2>4, <2>5, <2>6 DEF InPhase
<1>4. CASE port = "usb" /\ Loader!TudTask(bootRx, bootTx, FALSE) /\ bootPc' = bootPc
  <2>1. /\ bootRx' \in Seq(Nat) /\ bootOut' \in Seq(Nat)
        /\ bootTx' \in Seq(Nat) /\ bootIn' \in Seq(Nat) /\ bootFetched' \in BOOLEAN
        /\ LoaderFifos' /\ InFlight' = InFlight /\ Coming' = Coming
    <3>1. UNCHANGED <<port, asker, bootSent, bootGot, read, written>> BY <1>1
    <3>2. QED BY ONLY <1>4, <3>1, LoaderStackWorks, LoaderIInv, LoaderConstants
  <2>2. Answered' BY <1>1, <1>2, <1>4, <2>1 DEF Answered
  <2>3. LoaderTypes' BY <1>1, <1>4, <2>1 DEF LoaderTypes
  <2>4. QED BY <2>1, <2>2, <2>3 DEF InPhase
<1>5. QED BY <1>1, <1>3, <1>4

LEMMA NextLoader == LoaderIInv /\ [Loader!Next]_loaderVars => LoaderIInv'
<1>1. LoaderIInv /\ UNCHANGED loaderVars => LoaderIInv'
  <2> SUFFICES ASSUME LoaderIInv, UNCHANGED loaderVars PROVE LoaderIInv'
    OBVIOUS
  <2>1. LoaderTypes' BY DEF LoaderIInv, LoaderTypes, loaderVars
  <2>2. LoaderFifos' BY DEF LoaderIInv, LoaderFifos, Loader!TakenInOrder, Loader!AnswersInOrder, loaderVars
  <2>3. InFlight' = InFlight /\ Coming' = Coming /\ (InitIsLast => InitIsLast')
    BY DEF InFlight, Coming, InitIsLast, loaderVars
  <2>4. InPhase'
    BY <2>3 DEF LoaderIInv, InPhase, Greeting, Asking, Answering, Answered, loaderVars
  <2>5. QED BY <2>1, <2>2, <2>4 DEF LoaderIInv
<1>2. Loader!Done => UNCHANGED loaderVars
  BY DEF Loader!Done, Loader!vars, Loader!hostVars, Loader!cpuVars, Loader!fifoVars, loaderVars
<1>3. Loader!Next => \/ Loader!HostSends \/ Loader!HostFetches \/ Loader!HostGoesOn
                     \/ Loader!WaitForInit \/ Loader!Receive \/ Loader!Send \/ Loader!ProcessBoot
                     \/ Loader!ResetBoot \/ Loader!Done
  BY DEF Loader!Next, Loader!Host, Loader!Loader
<1>4. QED
  BY <1>1, <1>2, <1>3, LoaderHostSends, LoaderHostFetches, LoaderHostGoesOn, LoaderWaitsForInit,
     LoaderReceives, LoaderSends, LoaderProcesses, LoaderResets

LEMMA LoaderKeepsInStep == LoaderIInv => LoaderExchanges
<1> SUFFICES ASSUME LoaderIInv PROVE LoaderExchanges
  OBVIOUS
<1> USE DEF LoaderIInv
<1>1. Loader!TakenInOrder /\ Loader!AnswersInOrder BY DEF LoaderFifos
<1>2. Loader!NothingCutOff
  <2> SUFFICES ASSUME bootPc = "down" PROVE Len(bootGot) = written /\ asker.await = 0
    BY DEF Loader!NothingCutOff
  <2>1. asker.await = InFlight /\ InFlight = 0 BY DEF InPhase, Greeting, Asking, Answering, Answered
  <2>2. bootTx = <<>> /\ (~bootFetched => bootIn = <<>>) BY <2>1, LoaderEmpty
  <2>3. (bootGot \o <<>>) \o <<>> = [k \in 1 .. written |-> k] BY <1>1, <2>2 DEF Loader!AnswersInOrder
  <2>4. bootGot = [k \in 1 .. written |-> k]
    <3>1. bootGot \in Seq(Nat) BY LoaderSequences
    <3>2. QED BY <2>3, <3>1, ConcatEmptySeq
  <2>5. written \in Nat BY LoaderNumbers
  <2>6. Len([k \in 1 .. written |-> k]) = written BY <2>5
  <2>7. QED BY <2>1, <2>4, <2>6
<1>3. Loader!InStep
  <2> SUFFICES ASSUME bootPc = "send"
               PROVE  asker.at = at /\ asker.send = 0 /\ Len(bootOut) = 0 /\ Len(bootRx) = 0
    BY DEF Loader!InStep
  <2>1. Answering BY DEF InPhase, Greeting, Asking, Answered
  <2>2. bootOut = <<>> /\ bootRx = <<>> /\ asker.send = 0 BY <2>1, LoaderEmpty DEF Answering
  <2>3. QED BY <2>1, <2>2 DEF Answering
<1>4. QED BY <1>1, <1>2, <1>3 DEF LoaderExchanges

(* The boot loader over USB and over I2C: no byte is lost, doubled or out of  *)
(* place in either direction, question and answer keep in step, and the last  *)
(* answer is not cut off by the reset (send, receive, waitForInit,            *)
(* processBoot and resetBoot of dfu/src/boot.c), for every sequence of        *)
(* exchanges whose answers fit the FIFO.                                    *)
THEOREM LoaderAlwaysExchanges == BoardSpec => []LoaderExchanges
<1>1. BoardInit => LoaderIInv BY InitLoader DEF BoardInit
<1>2. LoaderIInv /\ [BoardNext]_boardVars => LoaderIInv' BY LoaderSteps, NextLoader
<1>3. QED BY <1>1, <1>2, LoaderKeepsInStep, PTL DEF BoardSpec

-----------------------------------------------------------------------------
(****************************************************************************)
(* The loops that pass over some elements of a buffer.  What they return is   *)
(* proved along the sequence: of the places where a claim fails there would be *)
(* a first one.                                                               *)
(****************************************************************************)

LEMMA Least == ASSUME NEW S \in SUBSET Nat, S # {} PROVE \E n \in S : \A m \in S : n <= m
<1> SUFFICES ASSUME \A n \in S : \E m \in S : m < n PROVE FALSE OBVIOUS
<1> DEFINE T == {n \in Nat : \A m \in S : n < m}
<1> DEFINE g == [n \in T |-> IF n = 0 THEN 0 ELSE n - 1]
<1>1. PICK k \in S : TRUE OBVIOUS
<1>2. \A n \in T : n <= k OBVIOUS
<1>3. IsFiniteSet(T) BY <1>2, FS_BoundedSetOfNaturals
<1>4. 0 \in T /\ 1 \in T OBVIOUS
<1>5. \A n \in T : n + 1 \in T OBVIOUS
<1>6. g \in [T -> T] OBVIOUS
<1>7. \A n \in T : \E m \in T : g[m] = n
  <2> TAKE n \in T
  <2> WITNESS n + 1 \in T
  <2> QED BY <1>5
<1>8. g \in Surjection(T, T) BY <1>6, <1>7 DEF Surjection
<1> HIDE DEF g, T
<1>9. g \in Injection(T, T) BY <1>3, <1>8, FS_SurjSameCardinalityImpliesInj
<1>10. g[0] = g[1] BY <1>4 DEF g
<1> QED BY <1>4, <1>9, <1>10 DEF Injection, IsInjective

Kept(s, dropped, part) ==
  part = [n \in 0 .. Len(s) |->
            IF n = 0 THEN <<>> ELSE IF s[n] \in dropped THEN part[n - 1] ELSE Append(part[n - 1], s[n])]

LEMMA WithoutIs ==
  ASSUME NEW T, NEW s \in Seq(T), NEW D
  PROVE  Without(s, D) = (CHOOSE part : Kept(s, D, part))[Len(s)]
BY DEF Without, Kept

LEMMA KeptExists ==
  ASSUME NEW T, NEW s \in Seq(T), NEW D
  PROVE  \E part : Kept(s, D, part)
<1> DEFINE Upto(k, h) == \A n \in 0 .. k :
             h[n] = IF n = 0 THEN <<>> ELSE IF s[n] \in D THEN h[n - 1] ELSE Append(h[n - 1], s[n])
           Missing == {k \in 0 .. Len(s) : ~ \E h : Upto(k, h)}
<1>1. Len(s) \in Nat OBVIOUS
<1>2. Missing = {}
  <2> SUFFICES ASSUME Missing # {} PROVE FALSE OBVIOUS
  <2>1. Missing \in SUBSET Nat OBVIOUS
  <2> HIDE DEF Missing
  <2>2. PICK k \in Missing : \A m \in Missing : k <= m BY <2>1, Least
  <2> USE DEF Missing
  <2>3. CASE k = 0
    <3> DEFINE h == [n \in {0} |-> <<>>]
    <3>1. Upto(0, h) OBVIOUS
    <3>2. QED BY <2>3, <3>1
  <2>4. CASE k # 0
    <3>1. k \in Nat /\ k - 1 \in 0 .. Len(s) /\ ~(k <= k - 1) BY <1>1, <2>4
    <3>2. k - 1 \notin Missing BY <2>2, <3>1
    <3>3. PICK h : Upto(k - 1, h) BY <3>1, <3>2
    <3> DEFINE g == [n \in 0 .. k |-> IF n < k THEN h[n]
                                     ELSE IF s[k] \in D THEN h[k - 1] ELSE Append(h[k - 1], s[k])]
    <3>4. Upto(k, g)
      <4> SUFFICES ASSUME NEW n \in 0 .. k
                   PROVE g[n] = IF n = 0 THEN <<>> ELSE IF s[n] \in D THEN g[n - 1] ELSE Append(g[n - 1], s[n])
        OBVIOUS
      <4>1. CASE n = k
        <5>1. g[k - 1] = h[k - 1] BY <3>1
        <5>2. QED BY <3>1, <4>1, <5>1, <2>4
      <4>2. CASE n < k
        <5>1. n \in 0 .. k - 1 /\ (n # 0 => n - 1 \in 0 .. k /\ n - 1 < k) BY <3>1, <4>2
        <5>2. g[n] = h[n] /\ (n # 0 => g[n - 1] = h[n - 1]) BY <4>2, <5>1
        <5>3. QED BY <3>3, <5>1, <5>2
      <4>3. QED BY <3>1, <4>1, <4>2
    <3>5. QED BY <2>2, <3>4
  <2>5. QED BY <2>3, <2>4
<1>3. \E h : Upto(Len(s), h)
  <2>1. Len(s) \in 0 .. Len(s) BY <1>1
  <2> HIDE DEF Upto
  <2>2. QED BY <1>2, <2>1
<1>6. PICK h : Upto(Len(s), h) BY <1>3
<1> DEFINE g == [n \in 0 .. Len(s) |-> h[n]]
<1>4. Kept(s, D, g)
  <2>1. \A n \in 0 .. Len(s) : n # 0 => n - 1 \in 0 .. Len(s) BY <1>1
  <2>2. \A n \in 0 .. Len(s) :
          g[n] = IF n = 0 THEN <<>> ELSE IF s[n] \in D THEN g[n - 1] ELSE Append(g[n - 1], s[n])
    BY <1>6, <2>1
  <2>3. g = [n \in 0 .. Len(s) |-> g[n]] OBVIOUS
  <2> HIDE DEF g
  <2>4. QED BY <2>2, <2>3 DEF Kept
<1>5. QED BY <1>4

LEMMA KeptSteps ==
  ASSUME NEW T, NEW s \in Seq(T), NEW D, NEW part, Kept(s, D, part)
  PROVE  /\ part[0] = <<>>
         /\ \A n \in 1 .. Len(s) :
              part[n] = IF s[n] \in D THEN part[n - 1] ELSE Append(part[n - 1], s[n])
<1>1. Len(s) \in Nat OBVIOUS
<1>2. \A n \in 0 .. Len(s) :
        part[n] = IF n = 0 THEN <<>> ELSE IF s[n] \in D THEN part[n - 1] ELSE Append(part[n - 1], s[n])
  BY DEF Kept
<1>3. QED BY <1>1, <1>2

LEMMA WithoutSteps ==
  ASSUME NEW T, NEW s \in Seq(T), NEW D
  PROVE  \E part : /\ Without(s, D) = part[Len(s)] /\ part[0] = <<>>
                    /\ \A n \in 1 .. Len(s) :
                         part[n] = IF s[n] \in D THEN part[n - 1] ELSE Append(part[n - 1], s[n])
<1> DEFINE c == CHOOSE part : Kept(s, D, part)
<1>1. Kept(s, D, c) BY KeptExists
<1>2. Without(s, D) = c[Len(s)] BY WithoutIs
<1> HIDE DEF c
<1>3. QED BY <1>1, <1>2, KeptSteps

LEMMA WithoutAny ==
  ASSUME NEW T, NEW s \in Seq(T), NEW D
  PROVE  Len(s) = 0 => Without(s, D) = <<>>
<1>1. PICK part : /\ Without(s, D) = part[Len(s)] /\ part[0] = <<>>
                  /\ \A n \in 1 .. Len(s) :
                       part[n] = IF s[n] \in D THEN part[n - 1] ELSE Append(part[n - 1], s[n])
  BY WithoutSteps
<1>2. QED BY <1>1

LEMMA WithoutNone ==
  ASSUME NEW D PROVE Without(<<>>, D) = <<>>
<1>1. <<>> \in Seq({}) /\ Len(<<>>) = 0 OBVIOUS
<1>2. QED BY <1>1, WithoutAny

LEMMA WithoutAppended ==
  ASSUME NEW T, NEW s \in Seq(T), NEW x \in T, NEW D
  PROVE  Without(Append(s, x), D) = IF x \in D THEN Without(s, D) ELSE Append(Without(s, D), x)
<1> DEFINE t == Append(s, x)
<1>1. t \in Seq(T) /\ Len(t) = Len(s) + 1 /\ t[Len(s) + 1] = x /\ Len(s) \in Nat
      /\ \A n \in 1 .. Len(s) : t[n] = s[n]
  OBVIOUS
<1> HIDE DEF t
<1>2. PICK f : /\ Without(s, D) = f[Len(s)] /\ f[0] = <<>>
               /\ \A n \in 1 .. Len(s) : f[n] = IF s[n] \in D THEN f[n - 1] ELSE Append(f[n - 1], s[n])
  BY WithoutSteps
<1>3. PICK h : /\ Without(t, D) = h[Len(t)] /\ h[0] = <<>>
               /\ \A n \in 1 .. Len(t) : h[n] = IF t[n] \in D THEN h[n - 1] ELSE Append(h[n - 1], t[n])
  BY <1>1, WithoutSteps
<1> DEFINE Differ == {n \in 0 .. Len(s) : f[n] # h[n]}
<1>4. Differ = {}
  <2> SUFFICES ASSUME Differ # {} PROVE FALSE OBVIOUS
  <2>1. Differ \in SUBSET Nat BY <1>1
  <2> HIDE DEF Differ
  <2>2. PICK n \in Differ : \A m \in Differ : n <= m BY <2>1, Least
  <2> USE DEF Differ
  <2>3. n # 0 BY <1>2, <1>3
  <2>4. n \in 1 .. Len(s) /\ n \in 1 .. Len(t) /\ n - 1 \in 0 .. Len(s) /\ ~(n <= n - 1) BY <1>1, <2>3
  <2>5. f[n - 1] = h[n - 1] BY <2>2, <2>4
  <2>6. t[n] = s[n] BY <1>1, <2>4
  <2>7. QED BY <1>2, <1>3, <2>4, <2>5, <2>6
<1>5. f[Len(s)] = h[Len(s)] BY <1>1, <1>4
<1>6. Len(t) \in 1 .. Len(t) /\ Len(t) - 1 = Len(s) BY <1>1
<1>7. h[Len(t)] = IF t[Len(t)] \in D THEN h[Len(t) - 1] ELSE Append(h[Len(t) - 1], t[Len(t)]) BY <1>3, <1>6
<1>8. QED BY <1>1, <1>2, <1>3, <1>5, <1>6, <1>7 DEF t

(* Induction along a sequence. *)
LEMMA AlongSequence ==
  ASSUME NEW T, NEW P, <<>> \in P, \A s \in Seq(T) : \A x \in T : s \in P => Append(s, x) \in P
  PROVE  \A s \in Seq(T) : s \in P
<1> SUFFICES ASSUME NEW s \in Seq(T), s \notin P PROVE FALSE
  OBVIOUS
<1> DEFINE Bad == {k \in 0 .. Len(s) : SubSeq(s, 1, k) \notin P}
<1>1. Len(s) \in Nat OBVIOUS
<1>2. Bad \in SUBSET Nat BY <1>1
<1>3. Len(s) \in Bad
  <2>1. SubSeq(s, 1, Len(s)) = s /\ Len(s) \in 0 .. Len(s) BY <1>1, SubSeqFull
  <2>2. QED BY <2>1
<1> HIDE DEF Bad
<1>4. PICK k \in Bad : \A m \in Bad : k <= m BY <1>2, <1>3, Least
<1> USE DEF Bad
<1>5. k # 0
  <2>1. SubSeq(s, 1, 0) = <<>> BY SubSeqEmpty
  <2>2. QED BY <2>1
<1>6. k \in Nat /\ k - 1 \in 0 .. Len(s) /\ ~(k <= k - 1) BY <1>1, <1>5
<1>7. SubSeq(s, 1, k - 1) \in P BY <1>4, <1>6
<1>8. SubSeq(s, 1, k - 1) \in Seq(T) /\ s[k] \in T BY <1>1, <1>6
<1>9. Append(SubSeq(s, 1, k - 1), s[k]) = SubSeq(s, 1, k) BY <1>1, <1>6
<1>10. QED BY <1>7, <1>8, <1>9

LEMMA WithoutIn ==
  ASSUME NEW T, NEW s \in Seq(T), NEW D
  PROVE  Without(s, D) \in Seq(T)
<1> DEFINE P == {r \in Seq(T) : Without(r, D) \in Seq(T)}
<1>1. <<>> \in P
  <2>1. <<>> \in Seq(T) /\ Without(<<>>, D) = <<>> BY WithoutNone
  <2>2. QED BY <2>1
<1>2. ASSUME NEW r \in Seq(T), NEW x \in T, r \in P PROVE Append(r, x) \in P
  <2>1. Append(r, x) \in Seq(T) OBVIOUS
  <2>2. Without(Append(r, x), D) = IF x \in D THEN Without(r, D) ELSE Append(Without(r, D), x)
    BY WithoutAppended
  <2>3. Without(r, D) \in Seq(T) BY <1>2
  <2>4. Append(Without(r, D), x) \in Seq(T) BY <2>3
  <2>5. QED BY <2>1, <2>2, <2>3, <2>4
<1> HIDE DEF P
<1>3. s \in P BY <1>1, <1>2, AlongSequence
<1>4. QED BY <1>3 DEF P

LEMMA JoinAppended ==
  ASSUME NEW T, NEW s \in Seq(T), NEW t \in Seq(T), NEW x \in T
  PROVE  s \o Append(t, x) = Append(s \o t, x)
OBVIOUS

LEMMA WithoutJoined ==
  ASSUME NEW T, NEW s \in Seq(T), NEW t \in Seq(T), NEW D
  PROVE  Without(s \o t, D) = Without(s, D) \o Without(t, D)
<1> DEFINE P == {r \in Seq(T) : Without(s \o r, D) = Without(s, D) \o Without(r, D)}
<1>1. <<>> \in P
  <2>1. s \o <<>> = s BY ConcatEmptySeq
  <2>2. Without(s, D) \o <<>> = Without(s, D) BY WithoutIn, ConcatEmptySeq
  <2>3. Without(<<>>, D) = <<>> /\ <<>> \in Seq(T) BY WithoutNone
  <2>4. QED BY <2>1, <2>2, <2>3
<1>2. ASSUME NEW r \in Seq(T), NEW x \in T, r \in P PROVE Append(r, x) \in P
  <2>1. s \o r \in Seq(T) BY ConcatProperties
  <2>2. s \o Append(r, x) = Append(s \o r, x) BY JoinAppended
  <2>3. Without(Append(s \o r, x), D) = IF x \in D THEN Without(s \o r, D) ELSE Append(Without(s \o r, D), x)
    BY <2>1, WithoutAppended, ZenonT(30)
  <2>4. Without(Append(r, x), D) = IF x \in D THEN Without(r, D) ELSE Append(Without(r, D), x)
    BY WithoutAppended
  <2>5. Without(s, D) \o Append(Without(r, D), x) = Append(Without(s, D) \o Without(r, D), x)
    BY WithoutIn, JoinAppended
  <2>6. Without(s \o r, D) = Without(s, D) \o Without(r, D) BY <1>2
  <2>7. Append(r, x) \in Seq(T) OBVIOUS
  <2>8. Without(s \o Append(r, x), D) = Without(s, D) \o Without(Append(r, x), D)
    BY ONLY <2>2, <2>3, <2>4, <2>5, <2>6, Zenon
  <2>9. QED BY <2>7, <2>8
<1> HIDE DEF P
<1>3. t \in P BY <1>1, <1>2, AlongSequence
<1>4. QED BY <1>3 DEF P

LEMMA WithoutOthers ==
  ASSUME NEW T, NEW s \in Seq(T), NEW D, \A k \in 1 .. Len(s) : s[k] \notin D
  PROVE  Without(s, D) = s
<1> DEFINE P == {r \in Seq(T) : (\A k \in 1 .. Len(r) : r[k] \notin D) => Without(r, D) = r}
<1>1. <<>> \in P
  <2>1. <<>> \in Seq(T) /\ Without(<<>>, D) = <<>> BY WithoutNone
  <2>2. QED BY <2>1
<1>2. ASSUME NEW r \in Seq(T), NEW x \in T, r \in P PROVE Append(r, x) \in P
  <2> SUFFICES ASSUME \A k \in 1 .. Len(Append(r, x)) : Append(r, x)[k] \notin D
               PROVE  Without(Append(r, x), D) = Append(r, x)
    BY AppendProperties
  <2>1. Len(r) \in Nat /\ Len(Append(r, x)) = Len(r) + 1 /\ Append(r, x)[Len(r) + 1] = x
        /\ \A k \in 1 .. Len(r) : Append(r, x)[k] = r[k]
    BY AppendProperties
  <2>2. x \notin D /\ \A k \in 1 .. Len(r) : r[k] \notin D BY <2>1
  <2>3. Without(r, D) = r BY <1>2, <2>2
  <2>4. QED BY <2>2, <2>3, WithoutAppended
<1> HIDE DEF P
<1>3. s \in P BY <1>1, <1>2, AlongSequence
<1>4. QED BY <1>3 DEF P

LEMMA WithoutThem ==
  ASSUME NEW T, NEW s \in Seq(T), NEW D, \A k \in 1 .. Len(s) : s[k] \in D
  PROVE  Without(s, D) = <<>>
<1> DEFINE P == {r \in Seq(T) : (\A k \in 1 .. Len(r) : r[k] \in D) => Without(r, D) = <<>>}
<1>1. <<>> \in P
  <2>1. <<>> \in Seq(T) /\ Without(<<>>, D) = <<>> BY WithoutNone
  <2>2. QED BY <2>1
<1>2. ASSUME NEW r \in Seq(T), NEW x \in T, r \in P PROVE Append(r, x) \in P
  <2> SUFFICES ASSUME \A k \in 1 .. Len(Append(r, x)) : Append(r, x)[k] \in D
               PROVE  Without(Append(r, x), D) = <<>>
    BY AppendProperties
  <2>1. Len(r) \in Nat /\ Len(Append(r, x)) = Len(r) + 1 /\ Append(r, x)[Len(r) + 1] = x
        /\ \A k \in 1 .. Len(r) : Append(r, x)[k] = r[k]
    BY AppendProperties
  <2>2. x \in D /\ \A k \in 1 .. Len(r) : r[k] \in D BY <2>1
  <2>3. Without(r, D) = <<>> BY <1>2, <2>2
  <2>4. QED BY <2>2, <2>3, WithoutAppended
<1> HIDE DEF P
<1>3. s \in P BY <1>1, <1>2, AlongSequence
<1>4. QED BY <1>3 DEF P

LEMMA WithoutLeaves ==
  ASSUME NEW T, NEW s \in Seq(T), NEW D, NEW k \in 1 .. Len(Without(s, D))
  PROVE  /\ Without(s, D)[k] \notin D
         /\ \E j \in 1 .. Len(s) : s[j] = Without(s, D)[k]
<1> DEFINE Fine(r) == \A n \in 1 .. Len(Without(r, D)) :
                        /\ Without(r, D)[n] \notin D
                        /\ \E j \in 1 .. Len(r) : r[j] = Without(r, D)[n]
           P == {r \in Seq(T) : Fine(r)}
<1>1. <<>> \in P
  <2>1. <<>> \in Seq(T) /\ Without(<<>>, D) = <<>> BY WithoutNone
  <2>2. QED BY <2>1
<1>2. ASSUME NEW r \in Seq(T), NEW x \in T, r \in P PROVE Append(r, x) \in P
  <2> DEFINE w == Without(r, D)
             v == Without(Append(r, x), D)
  <2>1. w \in Seq(T) /\ Len(w) \in Nat BY WithoutIn
  <2>2. v = IF x \in D THEN w ELSE Append(w, x) BY WithoutAppended
  <2>3. \A n \in 1 .. Len(w) : w[n] \notin D /\ \E j \in 1 .. Len(r) : r[j] = w[n] BY <1>2
  <2> HIDE DEF w, v
  <2>4. Len(r) \in Nat /\ Len(Append(r, x)) = Len(r) + 1 /\ Append(r, x)[Len(r) + 1] = x
        /\ \A j \in 1 .. Len(r) : Append(r, x)[j] = r[j] /\ j \in 1 .. Len(Append(r, x))
    OBVIOUS
  <2>5. \A n \in 1 .. Len(w) : \E j \in 1 .. Len(Append(r, x)) : Append(r, x)[j] = w[n] BY <2>3, <2>4
  <2>6. \E j \in 1 .. Len(Append(r, x)) : Append(r, x)[j] = x BY <2>4
  <2>7. ASSUME NEW n \in 1 .. Len(v)
        PROVE  v[n] \notin D /\ \E j \in 1 .. Len(Append(r, x)) : Append(r, x)[j] = v[n]
    <3>1. CASE x \in D BY <2>2, <2>3, <2>5, <3>1
    <3>2. CASE x \notin D
      <4>1. Len(v) = Len(w) + 1 /\ v[Len(w) + 1] = x /\ \A m \in 1 .. Len(w) : v[m] = w[m]
        BY <2>1, <2>2, <3>2
      <4>2. CASE n = Len(w) + 1 BY <2>6, <3>2, <4>1, <4>2
      <4>3. CASE n # Len(w) + 1
        <5>1. n \in 1 .. Len(w) BY <2>1, <4>1, <4>3
        <5>2. QED BY <2>3, <2>5, <4>1, <5>1
      <4>4. QED BY <4>2, <4>3
    <3>3. QED BY <3>1, <3>2
  <2>8. Append(r, x) \in Seq(T) OBVIOUS
  <2>9. QED BY <2>7, <2>8 DEF v
<1> HIDE DEF P
<1>3. s \in P BY <1>1, <1>2, AlongSequence
<1>4. QED BY <1>3 DEF P

-----------------------------------------------------------------------------
(****************************************************************************)
(* The USB host that forwards its console.  What the device got, what is on   *)
(* its way and what is still unread make up all that was typed.               *)
(****************************************************************************)

Nul == {Host!NUL}

ConsoleIInv ==
  /\ input \in Seq(Nat) /\ typed \in Nat
  /\ hostTx \in Seq(Nat) /\ hostOut \in Seq(Nat) /\ received \in Seq(Nat)
  /\ taken \in BOOLEAN /\ missed \in BOOLEAN
  /\ taken => hostOut # <<>>
  /\ Host!ConsoleForwarded

LEMMA HostConstants ==
  HostBufSize \in Nat \ {0} /\ HostFifo \in Nat \ {0}
BY BoardsAssumption DEF Host!UsbHostAssumption

LEMMA HostWithout == ASSUME NEW s, NEW D PROVE Host!Without(s, D) = Without(s, D)
BY DEF Host!Without, Without

LEMMA UpToNul ==
  ASSUME NEW text \in Seq(Nat)
  PROVE  /\ Host!BeforeNul(text) \in 0 .. Len(text)
         /\ \A k \in 1 .. Host!BeforeNul(text) : text[k] # Host!NUL
         /\ Host!BeforeNul(text) < Len(text) => text[Host!BeforeNul(text) + 1] = Host!NUL
<1> DEFINE S == {Len(text)} \cup {k - 1 : k \in {k \in DOMAIN text : text[k] = Host!NUL}}
           b == Host!BeforeNul(text)
<1>1. Len(text) \in Nat /\ DOMAIN text = 1 .. Len(text) OBVIOUS
<1>2. S \in SUBSET (0 .. Len(text)) /\ Len(text) \in S BY <1>1
<1>3. S \in SUBSET Nat /\ S # {} BY <1>1, <1>2
<1>4. b = CHOOSE x \in S : \A y \in S : x <= y BY DEF Host!BeforeNul, Host!Min
<1>5. \A x \in S : x = Len(text) \/ \E k \in 1 .. Len(text) : text[k] = Host!NUL /\ x = k - 1 BY <1>1
<1>6. \A k \in 1 .. Len(text) : text[k] = Host!NUL => k - 1 \in S BY <1>1
<1> HIDE DEF S, b
<1>7. \E x \in S : \A y \in S : x <= y BY <1>3, Least
<1>8. b \in S /\ \A y \in S : b <= y BY <1>4, <1>7
<1>9. b \in 0 .. Len(text) BY <1>2, <1>8
<1>10. ASSUME NEW k \in 1 .. b, text[k] = Host!NUL PROVE FALSE
  <2>1. k \in 1 .. Len(text) /\ ~(b <= k - 1) BY <1>1, <1>9
  <2>2. QED BY <1>6, <1>8, <1>10, <2>1
<1>11. b < Len(text) => text[b + 1] = Host!NUL
  <2> SUFFICES ASSUME b < Len(text) PROVE text[b + 1] = Host!NUL
    OBVIOUS
  <2>4. b = Len(text) \/ \E k \in 1 .. Len(text) : text[k] = Host!NUL /\ b = k - 1 BY <1>5, <1>8
  <2>5. b # Len(text)
    <3>1. b < Len(text) /\ Len(text) \in Nat OBVIOUS
    <3>2. QED BY ONLY <3>1
  <2>1. PICK k \in 1 .. Len(text) : text[k] = Host!NUL /\ b = k - 1 BY <2>4, <2>5
  <2>2. b + 1 = k BY <1>1, <2>1
  <2>3. QED BY <2>1, <2>2
<1>12. QED BY <1>9, <1>10, <1>11 DEF b

LEMMA NulDropped ==
  ASSUME NEW s \in Seq(Nat) PROVE Without(Append(s, 0), Nul) = Without(s, Nul)
<1>1. PICK z \in Nat : z = 0 OBVIOUS
<1>2. Without(Append(s, z), Nul) = IF z \in Nul THEN Without(s, Nul) ELSE Append(Without(s, Nul), z)
  <2>1. s \in Seq(Nat) OBVIOUS
  <2>2. z \in Nat OBVIOUS
  <2>3. QED BY ONLY <2>1, <2>2, WithoutAppended, ZenonT(30)
<1>3. z \in Nul BY <1>1 DEF Nul, Host!NUL
<1>4. QED BY <1>1, <1>2, <1>3

(* get_console_inputs reads the characters it keeps, and a NUL after them or not. *)
LEMMA ReadsCharacters ==
  ASSUME NEW g, g = Host!GetConsoleInputs, input \in Seq(Nat)
  PROVE  /\ g.kept \in 0 .. Len(input) /\ g.read \in 0 .. Len(input)
         /\ Without(input, Nul)
            = SubSeq(input, 1, g.kept) \o Without(SubSeq(input, g.read + 1, Len(input)), Nul)
<1> DEFINE b == Host!BeforeNul(input)
           n == Host!Kept
<1>1. b \in 0 .. Len(input) /\ (\A k \in 1 .. b : input[k] # 0) /\ (b < Len(input) => input[b + 1] = 0)
  BY UpToNul DEF Host!NUL
<1>2. Len(input) \in Nat OBVIOUS
<1>3. n = IF HostBufSize < b THEN HostBufSize ELSE b BY DEF Host!Kept, Host!Smaller
<1>4. g.kept = n /\ g.read = IF n < HostBufSize THEN Host!Smaller(n + 1, Len(input)) ELSE n
  BY DEF Host!GetConsoleInputs
<1> HIDE DEF b, n
<1>5. n \in 0 .. b /\ n \in 0 .. Len(input) /\ (n < HostBufSize => n = b) BY <1>1, <1>2, <1>3, HostConstants
<1> DEFINE a == SubSeq(input, 1, n)
           r == SubSeq(input, n + 1, Len(input))
<1>6. a \in Seq(Nat) /\ r \in Seq(Nat) /\ Len(a) = n /\ a \o r = input BY <1>5, Cut
<1>7. \A k \in 1 .. n : a[k] = input[k] BY <1>5
<1>8. Without(a, Nul) = a
  <2>1. \A k \in 1 .. Len(a) : a[k] \notin Nul
    <3>1. \A k \in 1 .. n : k \in 1 .. b BY <1>1, <1>2, <1>5
    <3>2. QED BY <1>1, <1>6, <1>7, <3>1 DEF Nul, Host!NUL
  <2> HIDE DEF a
  <2>2. QED BY <1>6, <2>1, WithoutOthers
<1>9. CASE g.read = n
  <2>1. Without(a \o r, Nul) = Without(a, Nul) \o Without(r, Nul)
    <3> HIDE DEF a, r
    <3>1. a \in Seq(Nat) /\ r \in Seq(Nat) BY <1>6
    <3>2. QED BY ONLY <3>1, WithoutJoined
  <2>2. QED BY <1>4, <1>5, <1>6, <1>8, <1>9, <2>1
<1>10. CASE g.read # n
  <2>1. n < HostBufSize /\ n = b /\ n < Len(input) /\ g.read = n + 1
    BY <1>2, <1>4, <1>5, <1>10 DEF Host!Smaller
  <2> DEFINE c == SubSeq(input, 1, n + 1)
             q == SubSeq(input, n + 1 + 1, Len(input))
  <2>2. n + 1 \in 0 .. Len(input) BY <1>2, <1>5, <2>1
  <2>3. c \in Seq(Nat) /\ q \in Seq(Nat) /\ c \o q = input BY <2>2, Cut
  <2>4. input[n + 1] = 0 BY <1>1, <2>1
  <2>5. c = Append(a, 0)
    <3>1. c = Append(SubSeq(input, 1, n), input[n + 1]) BY <1>2, <1>5, <2>1
    <3>2. QED BY <2>4, <3>1
  <2> HIDE DEF a, c, q
  <2>6. Without(c, Nul) = a
    <3>1. a \in Seq(Nat) BY <1>6
    <3>2. QED BY <1>8, <2>5, <3>1, NulDropped
  <2>7. Without(c \o q, Nul) = Without(c, Nul) \o Without(q, Nul)
    <3>1. c \in Seq(Nat) /\ q \in Seq(Nat) BY <2>3
    <3>2. QED BY ONLY <3>1, WithoutJoined
  <2>8. Without(input, Nul) = a \o Without(q, Nul) BY <2>3, <2>6, <2>7
  <2>9. g.kept \in 0 .. Len(input) /\ g.read \in 0 .. Len(input) BY <1>4, <1>5, <2>1, <2>2
  <2>10. QED BY <1>4, <2>1, <2>8, <2>9 DEF a, q
<1>11. QED BY <1>9, <1>10

LEMMA PushBehind ==
  ASSUME NEW r \in Seq(Nat), NEW x \in Seq(Nat), NEW t \in Seq(Nat), NEW a \in Seq(Nat), NEW w \in Seq(Nat)
  PROVE  ((r \o x) \o (t \o a)) \o w = ((r \o x) \o t) \o (a \o w)
<1> DEFINE y == r \o x
<1>1. y \in Seq(Nat) BY Joined
<1> HIDE DEF y
<1>8. Cat(t, a) \in Seq(Nat) /\ Cat(a, w) \in Seq(Nat) BY CatIn
<1>2. Cat(Cat(y, Cat(t, a)), w) = Cat(y, Cat(Cat(t, a), w)) BY <1>1, <1>8, CatAssoc
<1>3. Cat(Cat(t, a), w) = Cat(t, Cat(a, w)) BY CatAssoc
<1>4. Cat(Cat(y, t), Cat(a, w)) = Cat(y, Cat(t, Cat(a, w))) BY <1>1, <1>8, CatAssoc
<1>5. Cat(Cat(y, Cat(t, a)), w) = Cat(Cat(y, t), Cat(a, w)) BY <1>2, <1>3, <1>4
<1>6. (y \o (t \o a)) \o w = (y \o t) \o (a \o w) BY ONLY <1>5 DEF Cat
<1>7. QED BY <1>6 DEF y

LEMMA InitConsole == Host!Init => ConsoleIInv
<1> SUFFICES ASSUME Host!Init PROVE ConsoleIInv
  OBVIOUS
<1> USE DEF Host!Init
<1>1. Without(<<>>, Nul) = <<>> BY WithoutNone
<1>2. <<>> = [k \in 1 .. 0 |-> k] /\ <<>> \o <<>> = <<>> /\ <<>> \in Seq(Nat) OBVIOUS
<1>3. Host!ConsoleForwarded BY <1>1, <1>2, HostWithout DEF Host!ConsoleForwarded, Nul
<1>4. QED BY <1>2, <1>3 DEF ConsoleIInv

(* What was typed and is not read, without the NULs. *)
Unread == Without(input, Nul)
OnBus  == IF taken THEN <<>> ELSE hostOut

LEMMA ConsoleIs ==
  Host!ConsoleForwarded
  <=> (~missed => ((received \o OnBus) \o hostTx) \o Unread = [k \in 1 .. typed |-> k])
BY HostWithout DEF Host!ConsoleForwarded, OnBus, Unread, Nul

LEMMA ConsoleTyped == ConsoleIInv /\ Host!Types => ConsoleIInv'
<1> SUFFICES ASSUME ConsoleIInv, Host!Types PROVE ConsoleIInv'
  OBVIOUS
<1> USE DEF ConsoleIInv
<1>1. UNCHANGED <<hostTx, hostOut, taken, received, missed>> BY DEF Host!Types
<1>2. CASE typed' = typed + 1 /\ input' = Append(input, typed')
  <2>1. input' \in Seq(Nat) /\ typed' \in Nat BY <1>2
  <2>2. Unread' = Append(Unread, typed + 1)
    <3>1. Without(Append(input, typed + 1), Nul)
          = IF typed + 1 \in Nul THEN Without(input, Nul) ELSE Append(Without(input, Nul), typed + 1)
      <4>1. input \in Seq(Nat) OBVIOUS
      <4>2. PICK z \in Nat : z = typed + 1 OBVIOUS
      <4>3. Without(Append(input, z), Nul)
            = IF z \in Nul THEN Without(input, Nul) ELSE Append(Without(input, Nul), z)
        BY ONLY <4>1, z \in Nat, WithoutAppended
      <4>4. QED BY ONLY <4>2, <4>3
    <3>2. typed + 1 \notin Nul BY DEF Nul, Host!NUL
    <3>3. QED BY <1>2, <3>1, <3>2 DEF Unread
  <2>3. Host!ConsoleForwarded'
    <3> SUFFICES ASSUME ~missed
                 PROVE  ((received \o OnBus) \o hostTx) \o Unread' = [k \in 1 .. typed + 1 |-> k]
      BY <1>1, <1>2, HostWithout DEF Host!ConsoleForwarded, OnBus, Unread, Nul
    <3> DEFINE f == (received \o OnBus) \o hostTx
    <3>1. f \o Unread = [k \in 1 .. typed |-> k] BY ConsoleIs
    <3>2. f \in Seq(Nat) /\ Unread \in Seq(Nat)
      <4>1. OnBus \in Seq(Nat) BY DEF OnBus
      <4>2. received \o OnBus \in Seq(Nat) BY <4>1, Joined
      <4>3. QED BY <4>2, Joined, WithoutIn DEF Unread
    <3> HIDE DEF f
    <3>3. f \o Append(Unread, typed + 1) = Append(f \o Unread, typed + 1)
      <4>1. f \in Seq(Nat) BY <3>2
      <4>2. Unread \in Seq(Nat) BY <3>2
      <4>3. PICK z \in Nat : z = typed + 1 OBVIOUS
      <4>4. f \o Append(Unread, z) = Append(f \o Unread, z) BY ONLY <4>1, <4>2, z \in Nat, JoinAppended
      <4>5. QED BY ONLY <4>3, <4>4
    <3>4. Append([k \in 1 .. typed |-> k], typed + 1) = [k \in 1 .. typed + 1 |-> k] OBVIOUS
    <3>5. QED BY <2>2, <3>1, <3>3, <3>4 DEF f
  <2>4. QED BY <1>1, <2>1, <2>3
<1>3. CASE typed' = typed /\ input' = Append(input, Host!NUL)
  <2>1. input' \in Seq(Nat) /\ typed' \in Nat BY <1>3 DEF Host!NUL
  <2>2. Unread' = Unread
    <3>1. Without(Append(input, 0), Nul) = Without(input, Nul) BY NulDropped
    <3>2. QED BY <1>3, <3>1 DEF Unread, Host!NUL
  <2>3. Host!ConsoleForwarded'
    <3>1. Host!ConsoleForwarded'
          <=> (~missed => ((received \o OnBus) \o hostTx) \o Unread' = [k \in 1 .. typed |-> k])
      BY <1>1, <1>3, HostWithout DEF Host!ConsoleForwarded, OnBus, Unread, Nul
    <3>2. QED BY <2>2, <3>1, ConsoleIs
  <2>4. QED BY <1>1, <2>1, <2>3
<1>4. QED BY <1>2, <1>3 DEF Host!Types

(* The loop forwards all the characters it takes, or has lost some. *)
LEMMA ConsoleTask == ConsoleIInv /\ Host!CdcAppTask => ConsoleIInv'
<1> SUFFICES ASSUME ConsoleIInv, Host!CdcAppTask PROVE ConsoleIInv'
  OBVIOUS
<1> USE DEF ConsoleIInv
<1> DEFINE g == Host!GetConsoleInputs
           fits == Host!Smaller(g.kept, HostFifo - Len(hostTx))
           fifo == hostTx \o SubSeq(input, 1, fits)
           rest == SubSeq(input, g.read + 1, Len(input))
           a == SubSeq(input, 1, g.kept)
           w == Without(rest, Nul)
<1>1. /\ UNCHANGED <<typed, taken, received>> /\ input' = rest
      /\ \/ /\ mounted /\ g.kept > 0
            /\ hostOut = <<>> /\ hostOut' = fifo /\ hostTx' = <<>>
            /\ missed' = (missed \/ fits < g.kept)
         \/ /\ mounted /\ g.kept > 0
            /\ hostOut # <<>> /\ hostTx' = fifo /\ hostOut' = hostOut
            /\ missed' = (missed \/ fits < g.kept)
         \/ /\ ~(mounted /\ g.kept > 0)
            /\ missed' = (missed \/ g.kept > 0) /\ UNCHANGED <<hostTx, hostOut>>
  BY DEF Host!CdcAppTask
<1>2. g.kept \in 0 .. Len(input) /\ g.read \in 0 .. Len(input) /\ Unread = a \o w
  BY ReadsCharacters DEF Unread
<1>3. Len(input) \in Nat /\ Len(hostTx) \in Nat /\ HostFifo \in Nat BY HostConstants
<1>4. fits <= g.kept /\ fits \in Int /\ fits <= Len(input)
  <2> DEFINE k == g.kept
             h == HostFifo - Len(hostTx)
  <2>1. k \in Nat /\ k <= Len(input) /\ h \in Int /\ Len(input) \in Nat BY <1>2, <1>3
  <2>2. fits = IF k < h THEN k ELSE h BY DEF Host!Smaller
  <2> HIDE DEF g, k, h
  <2>3. fits <= k /\ fits \in Int /\ fits <= Len(input)
    <3> HIDE DEF fits
    <3>1. QED BY ONLY <2>1, <2>2
  <2>4. QED BY <2>3 DEF k
<1>5. a \in Seq(Nat) /\ rest \in Seq(Nat) /\ w \in Seq(Nat)
  <2>1. a \in Seq(Nat) /\ rest \in Seq(Nat)
    <3> HIDE DEF g
    <3>1. QED BY <1>2, Cut
  <2> HIDE DEF a, rest
  <2>2. QED BY <2>1, WithoutIn
<1>6. fifo \in Seq(Nat)
  <2> HIDE DEF g, fits
  <2>1. SubSeq(input, 1, fits) \in Seq(Nat)
    <3>1. CASE fits >= 1
      <4>1. fits \in 0 .. Len(input) BY <1>3, <1>4, <3>1
      <4>2. QED BY <4>1, Cut
    <3>2. CASE fits < 1
      <4>1. SubSeq(input, 1, fits) = <<>> BY <1>4, <3>2, SubSeqEmpty
      <4>2. <<>> \in Seq(Nat) OBVIOUS
      <4>3. QED BY ONLY <4>1, <4>2
    <3>3. QED BY <1>4, <3>1, <3>2
  <2>2. QED BY <2>1, Joined
<1> HIDE DEF g, rest, a, w
<1>7. fits >= g.kept => fifo = hostTx \o a
  <2> SUFFICES ASSUME fits >= g.kept PROVE fifo = hostTx \o a
    OBVIOUS
  <2>1. fits = g.kept
    <3> HIDE DEF fits
    <3>1. QED BY <1>2, <1>3, <1>4
  <2>2. QED BY <2>1 DEF a
<1>8. g.kept = 0 => a = <<>>
  <2>1. SubSeq(input, 1, 0) = <<>> BY SubSeqEmpty
  <2>2. QED BY <2>1 DEF a
<1> HIDE DEF fits, fifo
<1>9. missed' \in BOOLEAN /\ hostTx' \in Seq(Nat) /\ hostOut' \in Seq(Nat) /\ input' \in Seq(Nat)
  BY <1>1, <1>5, <1>6
<1>10. taken' => hostOut' # <<>> BY <1>1
<1>11. Unread' = w BY <1>1 DEF Unread, w
<1>12. OnBus \in Seq(Nat) BY DEF OnBus
<1>13. ((received \o OnBus) \o (hostTx \o a)) \o w = ((received \o OnBus) \o hostTx) \o (a \o w)
  <2>1. received \in Seq(Nat) OBVIOUS
  <2>2. hostTx \in Seq(Nat) OBVIOUS
  <2>3. a \in Seq(Nat) BY <1>5
  <2>4. w \in Seq(Nat) BY <1>5
  <2>5. \A x1, x2, x3, x4, x5 \in Seq(Nat) :
          ((x1 \o x2) \o (x3 \o x4)) \o x5 = ((x1 \o x2) \o x3) \o (x4 \o x5)
    BY ONLY PushBehind
  <2>7. \A x2, x3, x4, x5 \in Seq(Nat) :
          ((received \o x2) \o (x3 \o x4)) \o x5 = ((received \o x2) \o x3) \o (x4 \o x5)
    BY ONLY <2>1, <2>5, Zenon
  <2>8. \A x4, x5 \in Seq(Nat) :
          ((received \o OnBus) \o (hostTx \o x4)) \o x5 = ((received \o OnBus) \o hostTx) \o (x4 \o x5)
    BY ONLY <1>12, <2>2, <2>7, Zenon
  <2>6. QED BY ONLY <2>3, <2>4, <2>8, Zenon
<1>14. (missed' \/ ((received \o OnBus') \o hostTx') \o w = ((received \o OnBus) \o hostTx) \o (a \o w))
       /\ (missed => missed')
  <2> SUFFICES ASSUME ~missed'
               PROVE  ((received \o OnBus') \o hostTx') \o w = ((received \o OnBus) \o hostTx) \o (a \o w)
    BY <1>1
  <2>1. CASE mounted /\ g.kept > 0
    <3>1. fits >= g.kept
      <4>1. ~(fits < g.kept) BY <1>1, <2>1
      <4>2. g.kept \in Int /\ fits \in Int BY <1>2, <1>4
      <4>3. QED BY ONLY <4>1, <4>2
    <3>2. fifo = hostTx \o a BY <1>7, <3>1
    <3>3. CASE hostOut = <<>>
      <4>1. ~taken /\ OnBus = <<>> /\ hostOut' = fifo /\ hostTx' = <<>> BY <1>1, <2>1, <3>3 DEF OnBus
      <4>2. OnBus' = fifo BY <1>1, <4>1 DEF OnBus
      <4>3. received \o OnBus = received BY <4>1, ConcatEmptySeq
      <4>4. received \o fifo \in Seq(Nat) BY <1>6, Joined
      <4>5. (received \o fifo) \o <<>> = received \o fifo BY <4>4, ConcatEmptySeq
      <4>6. (received \o OnBus') \o hostTx' = received \o (hostTx \o a) BY <3>2, <4>1, <4>2, <4>5
      <4>7. QED BY <1>13, <4>3, <4>6
    <3>4. CASE hostOut # <<>>
      <4>1. hostTx' = fifo /\ OnBus' = OnBus BY <1>1, <2>1, <3>4 DEF OnBus
      <4>2. QED BY <1>13, <3>2, <4>1
    <3>5. QED BY <3>3, <3>4
  <2>2. CASE ~(mounted /\ g.kept > 0)
    <3>4. ~(g.kept > 0) BY <1>1, <2>2
    <3>5. g.kept \in Nat BY <1>2
    <3>6. g.kept = 0 BY ONLY <3>4, <3>5
    <3>7. hostTx' = hostTx /\ OnBus' = OnBus BY <1>1, <2>2 DEF OnBus
    <3>1. g.kept = 0 /\ hostTx' = hostTx /\ OnBus' = OnBus BY <3>6, <3>7
    <3>2. a = <<>> BY <1>8, <3>1
    <3>3. <<>> \o w = w BY <1>5, ConcatEmptySeq
    <3>8. QED BY <3>1, <3>2, <3>3
  <2>3. QED BY <2>1, <2>2
<1>15. Host!ConsoleForwarded'
  <2>1. Host!ConsoleForwarded'
        <=> (~missed' => ((received \o OnBus') \o hostTx') \o Unread' = [k \in 1 .. typed |-> k])
    BY <1>1, HostWithout DEF Host!ConsoleForwarded, OnBus, Unread, Nul
  <2>2. QED BY <1>2, <1>11, <1>14, <2>1, ConsoleIs
<1>16. QED BY <1>1, <1>9, <1>10, <1>15

LEMMA NextConsole == ConsoleIInv /\ [Host!Next]_hostVars => ConsoleIInv'
<1> SUFFICES ASSUME ConsoleIInv, [Host!Next]_hostVars PROVE ConsoleIInv'
  OBVIOUS
<1>0. CASE UNCHANGED <<input, typed, hostTx, hostOut, taken, received, missed>>
  BY <1>0, HostWithout DEF ConsoleIInv, Host!ConsoleForwarded
<1> DEFINE Rest == ((received \o OnBus) \o hostTx) \o Unread
<1>1. /\ input \in Seq(Nat) /\ typed \in Nat
      /\ hostTx \in Seq(Nat) /\ hostOut \in Seq(Nat) /\ received \in Seq(Nat)
      /\ taken \in BOOLEAN /\ missed \in BOOLEAN
      /\ taken => hostOut # <<>>
      /\ ~missed => Rest = [k \in 1 .. typed |-> k]
  BY ConsoleIs DEF ConsoleIInv
<1>2. Host!ConsoleForwarded' <=> (~missed' => Rest' = [k \in 1 .. typed' |-> k])
  BY HostWithout DEF Host!ConsoleForwarded, OnBus, Unread, Nul
<1>3. received \o <<>> = received BY <1>1, ConcatEmptySeq
<1>4. CASE Host!Takes
  <2>1. /\ hostOut # <<>> /\ ~taken /\ taken' = TRUE /\ received' = received \o hostOut
        /\ UNCHANGED <<input, typed, hostTx, hostOut, missed>>
    BY <1>4 DEF Host!Takes
  <2>2. received' \in Seq(Nat) BY <1>1, <2>1, Joined
  <2>3. OnBus = hostOut /\ OnBus' = <<>> /\ Unread' = Unread BY <2>1 DEF OnBus, Unread
  <2>4. received' \o <<>> = received' BY <2>2, ConcatEmptySeq
  <2>5. Rest' = Rest BY <2>1, <2>3, <2>4
  <2> HIDE DEF Rest
  <2>6. QED BY <1>1, <1>2, <2>1, <2>2, <2>5 DEF ConsoleIInv
<1>5. CASE Host!CdcUnmounts
  <2>1. /\ hostTx' = <<>> /\ hostOut' = <<>> /\ taken' = FALSE
        /\ missed' = (missed \/ hostTx # <<>> \/ (hostOut # <<>> /\ ~taken))
        /\ UNCHANGED <<input, typed, received>>
    BY <1>5 DEF Host!CdcUnmounts
  <2>2. ~missed' => OnBus = <<>> /\ OnBus' = <<>> /\ hostTx = <<>> /\ Unread' = Unread
    BY <2>1 DEF OnBus, Unread
  <2>3. ~missed' => Rest' = Rest BY <2>1, <2>2
  <2> HIDE DEF Rest
  <2>4. <<>> \in Seq(Nat) /\ FALSE \in BOOLEAN OBVIOUS
  <2>5. missed' \in BOOLEAN /\ (missed => missed') BY <1>1, <2>1
  <2>6. Host!ConsoleForwarded' BY <1>1, <1>2, <2>1, <2>3, <2>5
  <2>7. taken' \in BOOLEAN /\ ~taken' BY <2>1
  <2>8. hostTx' \in Seq(Nat) /\ hostOut' \in Seq(Nat) BY ONLY <2>1, <2>4
  <2>9. input' \in Seq(Nat) /\ typed' \in Nat /\ received' \in Seq(Nat) BY <1>1, <2>1
  <2>10. QED BY ONLY <2>5, <2>6, <2>7, <2>8, <2>9 DEF ConsoleIInv
<1>6. CASE Host!PacketWent
  <2>1. /\ taken /\ taken' = FALSE /\ hostOut' = hostTx /\ hostTx' = <<>>
        /\ UNCHANGED <<input, typed, received, missed>>
    BY <1>6 DEF Host!PacketWent
  <2>2. OnBus = <<>> /\ OnBus' = hostTx /\ Unread' = Unread BY <2>1 DEF OnBus, Unread
  <2>3. received \o hostTx \in Seq(Nat) BY <1>1, Joined
  <2>4. (received \o hostTx) \o <<>> = received \o hostTx BY <2>3, ConcatEmptySeq
  <2>5. Rest' = Rest BY <1>3, <2>1, <2>2, <2>4
  <2> HIDE DEF Rest
  <2>4a. <<>> \in Seq(Nat) OBVIOUS
  <2>6. Host!ConsoleForwarded' BY <1>1, <1>2, <2>1, <2>5
  <2>7. taken' \in BOOLEAN /\ ~taken' /\ missed' \in BOOLEAN BY <1>1, <2>1
  <2>8. hostTx' \in Seq(Nat) BY ONLY <2>1, <2>4a
  <2>9. input' \in Seq(Nat) /\ typed' \in Nat /\ received' \in Seq(Nat) /\ hostOut' \in Seq(Nat)
    BY <1>1, <2>1
  <2>10. QED BY ONLY <2>6, <2>7, <2>8, <2>9 DEF ConsoleIInv
<1>7. QED
  BY <1>0, <1>4, <1>5, <1>6, ConsoleTyped, ConsoleTask
  DEF Host!Next, Host!Main, Host!TuhTask, Host!Says, Host!CdcMounts, Host!Plugs, Host!Answers,
      Host!TuhCdcRxCb, Host!TuhMscMountCb, Host!InquiryCompleteCb, Host!TuhTaskReturns,
      Host!cdcVars, Host!outVars, hostVars

-----------------------------------------------------------------------------
(****************************************************************************)
(* The memory sticks share one inquiry_resp.  While no two of them ask at a   *)
(* time, what is in it belongs to the one whose data came last.               *)
(****************************************************************************)

StickStates == {"gone", "plugged", "asked", "data", "fails", "known", "failed"}
SticksIInv ==
  /\ hostLoad.sticks \subseteq Sticks
  /\ stick \in [Sticks -> StickStates] /\ shown \in [Sticks -> Sticks \cup {Host!NoStick}]
  /\ inquiry_resp \in Sticks \cup {Host!NoStick}
  /\ \A s \in Sticks \ hostLoad.sticks : stick[s] = "gone"
  /\ \A s, t \in Sticks : s # t /\ Host!Asking(s) /\ Host!Asking(t) => s \in crossed
  /\ \A s \in Sticks \ crossed : stick[s] = "data" => inquiry_resp = s
  /\ \A s \in Sticks \ crossed : shown[s] \in {Host!NoStick, s}

stickVars == <<hostLoad, stick, inquiry_resp, shown, crossed>>

LEMMA InitSticks == Host!Init => SticksIInv
<1> SUFFICES ASSUME Host!Init PROVE SticksIInv
  OBVIOUS
<1>1. hostLoad.sticks \subseteq Sticks BY BoardsAssumption DEF Host!Init, Host!UsbHostAssumption
<1>2. stick = [s \in Sticks |-> "gone"] /\ shown = [s \in Sticks |-> Host!NoStick] BY DEF Host!Init
<1>3. QED BY <1>1, <1>2 DEF Host!Init, SticksIInv, StickStates, Host!Asking

LEMMA NextSticks == SticksIInv /\ [Host!Next]_hostVars => SticksIInv'
<1> SUFFICES ASSUME SticksIInv, [Host!Next]_hostVars PROVE SticksIInv'
  OBVIOUS
<1>1. /\ hostLoad.sticks \subseteq Sticks
      /\ stick \in [Sticks -> StickStates] /\ shown \in [Sticks -> Sticks \cup {Host!NoStick}]
      /\ inquiry_resp \in Sticks \cup {Host!NoStick}
      /\ \A s \in Sticks \ hostLoad.sticks : stick[s] = "gone"
      /\ \A s, t \in Sticks : s # t /\ Host!Asking(s) /\ Host!Asking(t) => s \in crossed
      /\ \A s \in Sticks \ crossed : stick[s] = "data" => inquiry_resp = s
      /\ \A s \in Sticks \ crossed : shown[s] \in {Host!NoStick, s}
  BY DEF SticksIInv
<1>2. CASE UNCHANGED stickVars BY <1>1, <1>2 DEF stickVars, SticksIInv, Host!Asking
<1>3. CASE Host!Plugs
  <2>1. PICK s \in hostLoad.sticks :
          /\ stick' = [stick EXCEPT ![s] = IF @ = "gone" THEN "plugged" ELSE "gone"]
          /\ shown' = [shown EXCEPT ![s] = Host!NoStick]
          /\ crossed' = crossed \ {s}
          /\ UNCHANGED <<hostLoad, inquiry_resp>>
    BY <1>3 DEF Host!Plugs
  <2>2. stick' \in [Sticks -> StickStates] /\ shown' \in [Sticks -> Sticks \cup {Host!NoStick}]
    BY <1>1, <2>1 DEF StickStates
  <2>3. /\ ~Host!Asking(s)' /\ stick'[s] # "data" /\ shown'[s] = Host!NoStick
        /\ \A t \in Sticks \ {s} : stick'[t] = stick[t] /\ shown'[t] = shown[t]
    BY <1>1, <2>1 DEF Host!Asking
  <2>4. \A t \in Sticks \ {s} : Host!Asking(t)' <=> Host!Asking(t) BY <2>3 DEF Host!Asking
  <2>5. \A t, u \in Sticks : t # u /\ Host!Asking(t)' /\ Host!Asking(u)' => t \in crossed'
    BY <1>1, <2>1, <2>3, <2>4
  <2>6. QED BY <1>1, <2>1, <2>2, <2>3, <2>5 DEF SticksIInv
<1>4. CASE Host!Answers
  <2>1. PICK s \in hostLoad.sticks :
          /\ stick[s] = "asked" /\ UNCHANGED <<hostLoad, shown, crossed>>
          /\ \/ stick' = [stick EXCEPT ![s] = "data"] /\ inquiry_resp' = s
             \/ stick' = [stick EXCEPT ![s] = "fails"] /\ inquiry_resp' = inquiry_resp
    BY <1>4 DEF Host!Answers
  <2>2. stick' \in [Sticks -> StickStates] BY <1>1, <2>1 DEF StickStates
  <2>3. /\ stick'[s] \in {"data", "fails"} /\ \A t \in Sticks \ {s} : stick'[t] = stick[t]
        /\ \A t \in Sticks : Host!Asking(t)' <=> Host!Asking(t)
    BY <1>1, <2>1 DEF Host!Asking
  <2>4. ASSUME NEW t \in Sticks \ crossed, stick'[t] = "data" PROVE inquiry_resp' = t
    <3>1. CASE t = s BY <1>1, <2>1, <2>4, <3>1
    <3>2. CASE t # s
      <4>1. stick[t] = "data" /\ Host!Asking(t) /\ Host!Asking(s) BY <2>1, <2>3, <2>4, <3>2 DEF Host!Asking
      <4>2. QED BY <1>1, <3>2, <4>1, <2>1
    <3>3. QED BY <3>1, <3>2
  <2>5. QED BY <1>1, <2>1, <2>2, <2>3, <2>4 DEF SticksIInv
<1>5. CASE Host!TuhMscMountCb
  <2>1. PICK s \in hostLoad.sticks :
          /\ stick[s] = "plugged" /\ stick' = [stick EXCEPT ![s] = "asked"]
          /\ UNCHANGED <<hostLoad, inquiry_resp, shown>>
          /\ crossed' = crossed \cup {t \in hostLoad.sticks \ {s} : Host!Asking(t)}
                        \cup (IF {t \in hostLoad.sticks \ {s} : Host!Asking(t)} = {} THEN {} ELSE {s})
    BY <1>5 DEF Host!TuhMscMountCb
  <2>2. stick' \in [Sticks -> StickStates] BY <1>1, <2>1 DEF StickStates
  <2>3. /\ stick'[s] = "asked" /\ \A t \in Sticks \ {s} : stick'[t] = stick[t] BY <1>1, <2>1
  <2>4. \A t \in Sticks \ {s} : Host!Asking(t)' <=> Host!Asking(t) BY <2>3 DEF Host!Asking
  <2>5. \A t \in Sticks : Host!Asking(t) => t \in hostLoad.sticks BY <1>1 DEF Host!Asking
  <2>6. \A t, u \in Sticks : t # u /\ Host!Asking(t)' /\ Host!Asking(u)' => t \in crossed'
    BY <1>1, <2>1, <2>4, <2>5
  <2>7. \A t \in Sticks \ hostLoad.sticks : stick'[t] = "gone" BY <1>1, <2>1, <2>3
  <2>8. QED BY <1>1, <2>1, <2>2, <2>3, <2>6, <2>7 DEF SticksIInv
<1>6. CASE Host!InquiryCompleteCb
  <2>1. PICK s \in hostLoad.sticks :
          /\ UNCHANGED <<hostLoad, inquiry_resp, crossed>>
          /\ \/ stick[s] = "fails" /\ stick' = [stick EXCEPT ![s] = "failed"] /\ shown' = shown
             \/ /\ stick[s] = "data" /\ stick' = [stick EXCEPT ![s] = "known"]
                /\ shown' = [shown EXCEPT ![s] = inquiry_resp]
    BY <1>6 DEF Host!InquiryCompleteCb
  <2>2. stick' \in [Sticks -> StickStates] BY <1>1, <2>1 DEF StickStates
  <2>3. /\ stick'[s] \in {"known", "failed"} /\ \A t \in Sticks \ {s} : stick'[t] = stick[t] BY <1>1, <2>1
  <2>4. ~Host!Asking(s)' /\ \A t \in Sticks \ {s} : Host!Asking(t)' <=> Host!Asking(t)
    BY <2>3 DEF Host!Asking
  <2>5. shown' \in [Sticks -> Sticks \cup {Host!NoStick}] /\ \A t \in Sticks \ {s} : shown'[t] = shown[t]
    BY <1>1, <2>1
  <2>6. s \notin crossed => shown'[s] \in {Host!NoStick, s} BY <1>1, <2>1
  <2>7. QED BY <1>1, <2>1, <2>2, <2>3, <2>4, <2>5, <2>6 DEF SticksIInv
<1>7. QED
  BY <1>2, <1>3, <1>4, <1>5, <1>6
  DEF Host!Next, Host!Main, Host!TuhTask, Host!Types, Host!Takes, Host!Says, Host!CdcMounts, Host!CdcUnmounts,
      Host!TuhCdcRxCb, Host!PacketWent, Host!TuhTaskReturns, Host!CdcAppTask, Host!mscVars, Host!cdcVars,
      stickVars, hostVars

-----------------------------------------------------------------------------
(****************************************************************************)
(* The keyboards and mice.  A report that has come is one its device sends,   *)
(* and what the program knows of an interface is what the device there now says *)
(* of itself: so it is handled as what it is.                                 *)
(****************************************************************************)

HidKeys    == hidLoad.keys \cup {"rollover"}
Characters == [key : HidKeys, shift : BOOLEAN]
Hands      == [keys : Seq(HidKeys), shift : BOOLEAN]
HidReports == [id : Nat, usage : Hid!Usages \cup {"nothing"}, keys : Seq(HidKeys), shift : BOOLEAN]

LEMMA HidWithout == ASSUME NEW s, NEW D PROVE Hid!Without(s, D) = Without(s, D)
BY DEF Hid!Without, Without

LEMMA NewIs == ASSUME NEW old, NEW keys PROVE Hid!New(old, keys) = Without(keys, Hid!Range(old))
BY HidWithout DEF Hid!New

LEMMA NewIn ==
  ASSUME NEW T, NEW old \in Seq(T), NEW keys \in Seq(T) PROVE Hid!New(old, keys) \in Seq(T)
BY NewIs, WithoutIn

LEMMA NothingNew == ASSUME NEW T, NEW s \in Seq(T) PROVE Hid!New(s, s) = <<>>
<1>1. \A k \in 1 .. Len(s) : s[k] \in Hid!Range(s) BY DEF Hid!Range
<1>2. Without(s, Hid!Range(s)) = <<>> BY <1>1, WithoutThem
<1>3. QED BY <1>2, NewIs

LEMMA OneNew ==
  ASSUME NEW T, NEW s \in Seq(T), NEW k \in T, k \notin Hid!Range(s)
  PROVE  Hid!New(s, Append(s, k)) = <<k>>
<1>1. Without(Append(s, k), Hid!Range(s))
      = IF k \in Hid!Range(s) THEN Without(s, Hid!Range(s)) ELSE Append(Without(s, Hid!Range(s)), k)
  BY WithoutAppended
<1>2. Without(s, Hid!Range(s)) = <<>> BY NothingNew, NewIs
<1>3. Append(<<>>, k) = <<k>> OBVIOUS
<1>4. QED BY <1>1, <1>2, <1>3, NewIs

LEMMA FewerNew ==
  ASSUME NEW T, NEW s \in Seq(T), NEW D
  PROVE  Hid!New(s, Without(s, D)) = <<>>
<1> DEFINE w == Without(s, D)
<1>1. w \in Seq(T) BY WithoutIn
<1>2. \A k \in 1 .. Len(w) : \E j \in 1 .. Len(s) : s[j] = w[k] BY WithoutLeaves
<1> HIDE DEF w
<1>3. \A k \in 1 .. Len(w) : w[k] \in Hid!Range(s) BY <1>2 DEF Hid!Range
<1>4. Without(w, Hid!Range(s)) = <<>> BY <1>1, <1>3, WithoutThem
<1>5. QED BY <1>4, NewIs DEF w

LEMMA OneFewer ==
  ASSUME NEW T, NEW s \in Seq(T), NEW k \in Hid!Range(s)
  PROVE  Without(s, {k}) # s
<1> SUFFICES ASSUME Without(s, {k}) = s PROVE FALSE
  OBVIOUS
<1>1. PICK j \in 1 .. Len(s) : s[j] = k BY DEF Hid!Range
<1>2. \A n \in 1 .. Len(Without(s, {k})) : Without(s, {k})[n] \notin {k} BY WithoutLeaves
<1>3. s[j] \notin {k} BY <1>2
<1>4. QED BY <1>1, <1>3

LEMMA TypedIn ==
  ASSUME NEW K, NEW keys \in Seq(K), NEW shift \in BOOLEAN
  PROVE  Hid!Typed(keys, shift) \in Seq([key : K, shift : BOOLEAN])
<1>1. Len(keys) \in Nat /\ DOMAIN keys = 1 .. Len(keys) /\ \A n \in 1 .. Len(keys) : keys[n] \in K OBVIOUS
<1>2. Hid!Typed(keys, shift) \in [1 .. Len(keys) -> [key : K, shift : BOOLEAN]] BY <1>1 DEF Hid!Typed
<1> DEFINE C == [key : K, shift : BOOLEAN]
           typed_ == Hid!Typed(keys, shift)
<1> HIDE DEF C, typed_
<1>3. typed_ \in [1 .. Len(keys) -> C] BY <1>2 DEF C, typed_
<1>4. typed_ \in Seq(C) BY <1>1, <1>3, SeqDef
<1>5. QED BY <1>4 DEF C, typed_

LEMMA TypedNone == ASSUME NEW shift PROVE Hid!Typed(<<>>, shift) = <<>>
BY DEF Hid!Typed

LEMMA TypedOne ==
  ASSUME NEW k, NEW shift PROVE Hid!Typed(<<k>>, shift) = <<[key |-> k, shift |-> shift]>>
BY DEF Hid!Typed

Silent == [key : Plain \cup {"rollover"}, shift : BOOLEAN]

LEMMA VisibleIs ==
  ASSUME NEW s PROVE Hid!Visible(s) = IF hidProgram = "host" THEN s ELSE Without(s, Silent)
BY HidWithout DEF Hid!Visible, Silent

LEMMA VisibleIn == ASSUME NEW T, NEW s \in Seq(T) PROVE Hid!Visible(s) \in Seq(T)
BY VisibleIs, WithoutIn

LEMMA VisibleNone == Hid!Visible(<<>>) = <<>>
BY VisibleIs, WithoutNone

LEMMA VisibleJoined ==
  ASSUME NEW T, NEW s \in Seq(T), NEW t \in Seq(T)
  PROVE  Hid!Visible(s \o t) = Hid!Visible(s) \o Hid!Visible(t)
<1>1. Without(s \o t, Silent) = Without(s, Silent) \o Without(t, Silent) BY WithoutJoined
<1>2. QED BY <1>1, VisibleIs

LEMMA VisibleSame ==
  ASSUME NEW s, hidProgram' = hidProgram PROVE Hid!Visible(s)' = Hid!Visible(s')
BY DEF Hid!Visible, Hid!Without

(* The usage a report is found to have. *)
LEMMA FoundIs ==
  ASSUME NEW i, NEW sends \in Hid!Reports, info[i] \in Hid!Reports,
         Hid!Range(info[i]) \subseteq Hid!Range(sends),
         \A n, m \in DOMAIN sends : sends[n].id = sends[m].id => n = m,
         \A n \in DOMAIN sends : sends[n].id = 0 => Len(sends) = 1,
         NEW report, [id |-> report.id, usage |-> report.usage] \in Hid!Range(sends)
  PROVE  Hid!Found(i, report)
         = IF [id |-> report.id, usage |-> report.usage] \in Hid!Range(info[i]) THEN report.usage ELSE "nothing"
<1> DEFINE q == info[i]
           r == [id |-> report.id, usage |-> report.usage]
           one == Len(q) = 1 /\ q[1].id = 0
           fits == {n \in DOMAIN q : q[n].id = report.id}
<1>1. Hid!Found(i, report) = IF one THEN q[1].usage ELSE IF fits = {} THEN "nothing"
                           ELSE q[CHOOSE n \in fits : \A m \in fits : n <= m].usage
  BY DEF Hid!Found
<1>2. r.id = report.id /\ r.usage = report.usage OBVIOUS
<1>3. /\ Len(q) \in Nat /\ DOMAIN q = 1 .. Len(q)
      /\ Len(sends) \in Nat /\ DOMAIN sends = 1 .. Len(sends)
  BY DEF Hid!Reports
<1>4. \A n \in DOMAIN q : \E m \in DOMAIN sends : sends[m] = q[n] BY DEF Hid!Range
<1>5. PICK k \in DOMAIN sends : sends[k] = r BY DEF Hid!Range
<1>6. \A n \in DOMAIN q : q[n].id = r.id => q[n] = r
  <2> TAKE n \in DOMAIN q
  <2>1. PICK m \in DOMAIN sends : sends[m] = q[n] BY <1>4
  <2>2. QED BY <1>5, <2>1
<1>7. r \in Hid!Range(q) <=> \E n \in DOMAIN q : q[n] = r BY DEF Hid!Range
<1>8. CASE one
  <2>1. 1 \in DOMAIN q BY <1>3, <1>8
  <2>2. PICK m \in DOMAIN sends : sends[m] = q[1] BY <1>4, <2>1
  <2>3. Len(sends) = 1 BY <1>8, <2>2
  <2>4. m = 1 /\ k = 1 BY <1>3, <2>3
  <2>5. q[1] = r BY <1>5, <2>2, <2>4
  <2> HIDE DEF q, r, one, fits
  <2>6. QED BY <1>1, <1>2, <1>7, <1>8, <2>1, <2>5 DEF q, r
<1>9. CASE ~one /\ fits = {}
  <2>1. r \notin Hid!Range(q)
    <3> HIDE DEF q, r, one
    <3>1. QED BY <1>2, <1>7, <1>9
  <2> HIDE DEF q, r, one, fits
  <2>2. QED BY <1>1, <1>9, <2>1 DEF q, r
<1>10. CASE ~one /\ fits # {}
  <2> DEFINE n == CHOOSE n \in fits : \A m \in fits : n <= m
  <2>1. fits \in SUBSET Nat BY <1>3
  <2> HIDE DEF fits
  <2>2. \E x \in fits : \A m \in fits : x <= m BY <1>10, <2>1, Least
  <2>3. n \in fits BY <2>2
  <2> HIDE DEF n, q, r, one
  <2>4. n \in DOMAIN q /\ q[n].id = r.id BY <1>2, <2>3 DEF fits
  <2>5. q[n] = r BY <1>6, <2>4
  <2>6. Hid!Found(i, report) = q[n].usage BY <1>1, <1>10 DEF n
  <2>7. QED BY <1>2, <1>7, <2>4, <2>5, <2>6 DEF q, r
<1>11. QED BY <1>8, <1>9, <1>10

(* What is plugged in, asked and has come. *)
ReportsIInv ==
  /\ hidProgram \in {"host", "otg"} /\ hidLoad \in HidLoads /\ interfaces \subseteq Instances
  /\ dev \in [Instances -> hidLoad.devices \cup {Hid!NoDevice}]
  /\ polled \in [Instances -> {"no", "pending", "refused"}]
  /\ arrived \in [Instances -> HidReports]
  /\ info \in [Instances -> Hid!Reports]
  /\ \A i \in Instances :
       /\ dev[i] = Hid!NoDevice => i \notin interfaces
       /\ i \notin interfaces => polled[i] = "no" /\ arrived[i] = Hid!NoReport
       /\ polled[i] # "no" => Hid!Polled(i) /\ arrived[i] = Hid!NoReport
       /\ arrived[i] # Hid!NoReport =>
            Hid!Polled(i) /\ [id |-> arrived[i].id, usage |-> arrived[i].usage] \in Hid!Range(dev[i].sends)
       /\ i \in interfaces /\ hidProgram = "host" /\ dev[i].protocol = "none" => info[i] = dev[i].parsed
       /\ i \in interfaces /\ Hid!Polled(i) => polled[i] # "no" \/ arrived[i] # Hid!NoReport
  /\ Hid!HandledAsMeant

LEMMA HidConstants ==
  /\ KeySlots \in Nat /\ Instances # {} /\ HidPrograms \subseteq {"host", "otg"}
  /\ \A l \in HidLoads :
       /\ l.at \subseteq Instances /\ l.shift \in BOOLEAN
       /\ \A d \in l.devices :
            /\ d.protocol \in {"none", "keyboard", "mouse"} /\ d.sends \in Hid!Reports /\ d.parsed \in Hid!Reports
            /\ Hid!Describes(d)
<1> HIDE DEF Hid!Reports, Hid!Describes
<1>1. Hid!UsbHidAssumption BY BoardsAssumption
<1>2. \A l \in HidLoads : l.devices \subseteq
        [protocol : {"none", "keyboard", "mouse"}, sends : Hid!Reports, parsed : Hid!Reports]
  BY <1>1 DEF Hid!UsbHidAssumption
<1>3. QED BY <1>1, <1>2 DEF Hid!UsbHidAssumption

LEMMA NoReportIs == Hid!NoReport \in HidReports /\ Hid!NoReport.usage = "nothing"
<1>1. <<>> \in Seq(HidKeys) /\ FALSE \in BOOLEAN OBVIOUS
<1> HIDE DEF HidKeys
<1>2. QED BY <1>1 DEF Hid!NoReport, HidReports

(* A report that came is handled as what it is, if it is in the descriptor. *)
LEMMA HandledRight ==
  ASSUME ReportsIInv, NEW i \in Instances, i \in interfaces, arrived[i] # Hid!NoReport
  PROVE  /\ Hid!HandledAs(i, arrived[i]) = IF Hid!Known(i, arrived[i]) THEN arrived[i].usage ELSE "nothing"
         /\ Hid!Polled(i) /\ arrived[i].usage \in Hid!Usages
<1> DEFINE d == dev[i]
           a == arrived[i]
           r == [id |-> a.id, usage |-> a.usage]
<1>1. /\ d \in hidLoad.devices \cup {Hid!NoDevice} /\ d # Hid!NoDevice
      /\ hidLoad \in HidLoads /\ hidProgram \in {"host", "otg"}
      /\ Hid!Polled(i) /\ r \in Hid!Range(d.sends)
      /\ hidProgram = "host" /\ d.protocol = "none" => info[i] = d.parsed
  BY DEF ReportsIInv
<1>2. d.protocol \in {"none", "keyboard", "mouse"} /\ d.sends \in Hid!Reports /\ d.parsed \in Hid!Reports /\ Hid!Describes(d)
  BY <1>1, HidConstants
<1>3. PICK k \in DOMAIN d.sends : d.sends[k] = r BY <1>1 DEF Hid!Range
<1>4. r.usage \in Hid!Usages BY <1>2, <1>3 DEF Hid!Reports
<1>5. CASE d.protocol # "none"
  <2>1. a.usage = d.protocol BY <1>2, <1>3, <1>5 DEF Hid!Describes
  <2>2. Hid!HandledAs(i, a) = d.protocol /\ Hid!Known(i, a) BY <1>5 DEF Hid!HandledAs, Hid!Known
  <2>3. QED BY <1>1, <1>4, <2>1, <2>2
<1>6. CASE d.protocol = "none"
  <2>1. hidProgram = "host" /\ info[i] = d.parsed BY <1>1, <1>6 DEF Hid!Polled
  <2>2. Hid!HandledAs(i, a) = Hid!Found(i, a) /\ (Hid!Known(i, a) <=> r \in Hid!Range(d.parsed))
    BY <1>6, <2>1 DEF Hid!HandledAs, Hid!Known
  <2>3. /\ Hid!Range(d.parsed) \subseteq Hid!Range(d.sends)
        /\ \A n, m \in DOMAIN d.sends : d.sends[n].id = d.sends[m].id => n = m
        /\ \A n \in DOMAIN d.sends : d.sends[n].id = 0 => Len(d.sends) = 1
    BY <1>2 DEF Hid!Describes
  <2>4. PICK sends \in Hid!Reports : sends = d.sends BY <1>2
  <2>5. info[i] \in Hid!Reports /\ Hid!Range(info[i]) \subseteq Hid!Range(sends) BY <1>2, <2>1, <2>3, <2>4
  <2>6. \A n, m \in DOMAIN sends : sends[n].id = sends[m].id => n = m BY <2>3, <2>4
  <2>7. \A n \in DOMAIN sends : sends[n].id = 0 => Len(sends) = 1 BY <2>3, <2>4
  <2>8. [id |-> a.id, usage |-> a.usage] \in Hid!Range(sends) BY <1>1, <2>4
  <2> HIDE DEF d, a
  <2>9. Hid!Found(i, a) = IF [id |-> a.id, usage |-> a.usage] \in Hid!Range(info[i]) THEN a.usage ELSE "nothing"
    BY ONLY <2>5, <2>6, <2>7, <2>8, FoundIs
  <2>10. QED BY <1>1, <1>4, <2>1, <2>2, <2>9 DEF a, d
<1>7. QED BY <1>5, <1>6

LEMMA InitReports == Hid!Init => ReportsIInv
<1> SUFFICES ASSUME Hid!Init PROVE ReportsIInv
  OBVIOUS
<1>1. /\ hidProgram \in HidPrograms /\ hidLoad \in HidLoads /\ interfaces = {}
      /\ dev = [i \in Instances |-> Hid!NoDevice] /\ polled = [i \in Instances |-> "no"]
      /\ arrived = [i \in Instances |-> Hid!NoReport] /\ info = [i \in Instances |-> <<>>]
      /\ Hid!HandledAsMeant
  BY DEF Hid!Init, Hid!HandledAsMeant
<1>2. <<>> \in Hid!Reports BY DEF Hid!Reports
<1>3. QED BY <1>1, <1>2, HidConstants, NoReportIs DEF ReportsIInv

(* The keys: what the keyboards hold and tell, and what is printed. *)
KeysIInv ==
  /\ held \in [Instances -> Hands] /\ told \in [Instances -> Hands]
  /\ prev \in Seq(HidKeys) /\ printed \in Seq(Characters) /\ typedKeys \in Seq(Characters)
  /\ mixed \in BOOLEAN

LEMMA HandsWith ==
  ASSUME NEW h \in Hands, NEW k PROVE [h EXCEPT !.keys = k] = [keys |-> k, shift |-> h.shift]
BY DEF Hands

LEMMA OtherReportIs ==
  ASSUME NEW id, NEW usage
  PROVE  [Hid!NoReport EXCEPT !.id = id, !.usage = usage]
         = [id |-> id, usage |-> usage, keys |-> <<>>, shift |-> FALSE]
<1> DEFINE none == <<>>
           up == FALSE
           zero == 0
           nothing == "nothing"
           r == [Hid!NoReport EXCEPT !.id = id]
<1>1. Hid!NoReport = [id |-> zero, usage |-> nothing, keys |-> none, shift |-> up] BY DEF Hid!NoReport
<1>2. [Hid!NoReport EXCEPT !.id = id, !.usage = usage] = [r EXCEPT !.usage = usage] OBVIOUS
<1> HIDE DEF none, up, zero, nothing
<1>3. r = [id |-> id, usage |-> nothing, keys |-> none, shift |-> up] BY <1>1
<1> HIDE DEF r
<1>4. [r EXCEPT !.usage = usage] = [id |-> id, usage |-> usage, keys |-> none, shift |-> up] BY <1>3
<1>5. QED BY <1>2, <1>4 DEF none, up

keysVars == <<hidLoad, held, told, prev, printed, typedKeys>>

LEMMA InitKeys == Hid!Init => KeysIInv
<1> SUFFICES ASSUME Hid!Init PROVE KeysIInv
  OBVIOUS
<1>1. Hid!Released \in Hands
  <2>1. <<>> \in Seq(HidKeys) /\ FALSE \in BOOLEAN OBVIOUS
  <2> HIDE DEF HidKeys
  <2>2. QED BY <2>1 DEF Hid!Released, Hands
<1>2. <<>> \in Seq(HidKeys) /\ <<>> \in Seq(Characters) OBVIOUS
<1>3. QED BY <1>1, <1>2 DEF KeysIInv, Hid!Init

(* The keyboard or the mouse on i changes: what Changes does. *)
LEMMA NextKeys ==
  ASSUME ReportsIInv, KeysIInv, [Hid!Next]_hidVars PROVE KeysIInv'
<1>1. /\ held \in [Instances -> Hands] /\ told \in [Instances -> Hands]
      /\ prev \in Seq(HidKeys) /\ printed \in Seq(Characters) /\ typedKeys \in Seq(Characters)
      /\ mixed \in BOOLEAN /\ arrived \in [Instances -> HidReports]
  BY DEF KeysIInv, ReportsIInv
<1>2. /\ hidLoad' = hidLoad => Hands' = Hands /\ HidKeys' = HidKeys /\ Characters' = Characters
  BY DEF Hands, HidKeys, Characters
<1>3. \A h \in Hands : h.keys \in Seq(HidKeys) /\ h.shift \in BOOLEAN BY DEF Hands
<1>4. \A k \in Seq(HidKeys), s \in BOOLEAN : [keys |-> k, shift |-> s] \in Hands BY DEF Hands
<1>5. \A k \in HidKeys, s \in BOOLEAN : [key |-> k, shift |-> s] \in Characters BY DEF Characters
<1>6. hidLoad.keys \subseteq HidKeys BY DEF HidKeys
<1> HIDE DEF Hands, HidKeys, Characters
<1>7. CASE Hid!Press
  <2>1. PICK i \in Instances, k \in hidLoad.keys :
          /\ held' = [held EXCEPT ![i] = [held[i] EXCEPT !.keys = Append(@, k)]]
          /\ typedKeys' = Append(typedKeys, [key |-> k, shift |-> held[i].shift])
          /\ UNCHANGED <<hidLoad, told, prev, printed>> /\ mixed' \in BOOLEAN
    BY <1>1, <1>7 DEF Hid!Press, Hid!Changes
  <2>2. k \in HidKeys /\ held[i] \in Hands BY <1>1, <1>6
  <2>3. held[i].keys \in Seq(HidKeys) /\ held[i].shift \in BOOLEAN BY <1>3, <2>2
  <2>4. Append(held[i].keys, k) \in Seq(HidKeys) BY <2>2, <2>3
  <2>5. [held[i] EXCEPT !.keys = Append(@, k)] = [keys |-> Append(held[i].keys, k), shift |-> held[i].shift]
    BY <2>2, HandsWith
  <2>6. [held[i] EXCEPT !.keys = Append(@, k)] \in Hands BY <1>4, <2>3, <2>4, <2>5, ZenonT(30)
  <2>7. held' \in [Instances -> Hands] BY <1>1, <2>1, <2>6
  <2>8. [key |-> k, shift |-> held[i].shift] \in Characters BY <1>5, <2>2, <2>3
  <2>9. typedKeys' \in Seq(Characters) BY <1>1, <2>1, <2>8
  <2>10. QED BY <1>1, <1>2, <2>1, <2>7, <2>9 DEF KeysIInv
<1>8. CASE Hid!Release
  <2>0. PICK i \in Instances : \E k \in Hid!Range(held[i].keys) :
          /\ held' = [held EXCEPT ![i] = [held[i] EXCEPT !.keys = Without(@, {k})]]
          /\ UNCHANGED <<hidLoad, told, prev, printed, typedKeys>> /\ mixed' \in BOOLEAN
    BY <1>1, <1>8, HidWithout DEF Hid!Release, Hid!Changes
  <2>1. PICK k \in Hid!Range(held[i].keys) :
          /\ held' = [held EXCEPT ![i] = [held[i] EXCEPT !.keys = Without(@, {k})]]
          /\ UNCHANGED <<hidLoad, told, prev, printed, typedKeys>> /\ mixed' \in BOOLEAN
    BY <2>0
  <2>2. held[i] \in Hands BY <1>1
  <2>3. held[i].keys \in Seq(HidKeys) /\ held[i].shift \in BOOLEAN BY <1>3, <2>2
  <2>4. Without(held[i].keys, {k}) \in Seq(HidKeys) BY <2>3, WithoutIn
  <2>5. [held[i] EXCEPT !.keys = Without(@, {k})] = [keys |-> Without(held[i].keys, {k}), shift |-> held[i].shift]
    BY <2>2 DEF Hands
  <2>6. [held[i] EXCEPT !.keys = Without(@, {k})] \in Hands BY <1>4, <2>3, <2>4, <2>5
  <2>7. held' \in [Instances -> Hands] BY <1>1, <2>1, <2>6
  <2>8. QED BY <1>1, <1>2, <2>1, <2>7 DEF KeysIInv
<1>9. CASE Hid!Shift
  <2>1. PICK i \in Instances :
          /\ held' = [held EXCEPT ![i] = [held[i] EXCEPT !.shift = ~@]]
          /\ UNCHANGED <<hidLoad, told, prev, printed, typedKeys>> /\ mixed' \in BOOLEAN
    BY <1>1, <1>9 DEF Hid!Shift, Hid!Changes
  <2>2. held[i] \in Hands BY <1>1
  <2>3. held[i].keys \in Seq(HidKeys) /\ (~held[i].shift) \in BOOLEAN BY <1>3, <2>2
  <2>4. [held[i] EXCEPT !.shift = ~@] = [keys |-> held[i].keys, shift |-> ~held[i].shift]
    BY <2>2 DEF Hands
  <2>5. [held[i] EXCEPT !.shift = ~@] \in Hands BY <1>4, <2>3, <2>4
  <2>6. held' \in [Instances -> Hands] BY <1>1, <2>1, <2>5
  <2>7. QED BY <1>1, <1>2, <2>1, <2>6 DEF KeysIInv
<1>10. CASE Hid!Unplug
  <2>1. PICK i \in Instances :
          /\ held' = [held EXCEPT ![i] = Hid!Released] /\ told' = [told EXCEPT ![i] = Hid!Released]
          /\ UNCHANGED <<hidLoad, prev, printed, typedKeys>> /\ mixed' \in BOOLEAN
    BY <1>1, <1>10 DEF Hid!Unplug
  <2>2. <<>> \in Seq(HidKeys) /\ FALSE \in BOOLEAN OBVIOUS
  <2>3. Hid!Released \in Hands BY <1>4, <2>2 DEF Hid!Released
  <2>4. held' \in [Instances -> Hands] /\ told' \in [Instances -> Hands] BY <1>1, <2>1, <2>3
  <2>5. QED BY <1>1, <1>2, <2>1, <2>4 DEF KeysIInv
<1>11. CASE Hid!KeyboardReport
  <2>1. PICK i \in Instances :
          /\ told' = [told EXCEPT ![i] = held[i]]
          /\ UNCHANGED <<hidLoad, held, prev, printed, typedKeys, mixed>>
    BY <1>1, <1>11 DEF Hid!KeyboardReport, Hid!Comes
  <2>2. told' \in [Instances -> Hands] BY <1>1, <2>1
  <2>3. QED BY <1>1, <1>2, <2>1, <2>2 DEF KeysIInv
<1>12. CASE Hid!TuhHidReportReceivedCb
  <2>1. PICK i \in interfaces :
          /\ \/ Hid!ProcessKbdReport(arrived[i]) \/ UNCHANGED <<prev, printed>>
          /\ UNCHANGED <<hidLoad, held, told, typedKeys>> /\ mixed' \in BOOLEAN
    BY <1>1, <1>12 DEF Hid!TuhHidReportReceivedCb, Hid!ProcessMouseReport, Hid!devVars
  <2>2. arrived[i].keys \in Seq(HidKeys) /\ arrived[i].shift \in BOOLEAN
    <3>1. arrived[i] \in HidReports BY <1>1, <2>1 DEF ReportsIInv
    <3>2. QED BY <3>1 DEF HidReports
  <2>3. prev' \in Seq(HidKeys) /\ printed' \in Seq(Characters)
    <3>1. CASE Hid!ProcessKbdReport(arrived[i])
      <4> DEFINE f == Hid!Typed(Hid!New(prev, arrived[i].keys), arrived[i].shift)
      <4>1. prev' = arrived[i].keys /\ printed' = printed \o Hid!Visible(f) BY <3>1 DEF Hid!ProcessKbdReport
      <4>2. Hid!New(prev, arrived[i].keys) \in Seq(HidKeys) BY <1>1, <2>2, NewIn
      <4>3. f \in Seq(Characters) BY <2>2, <4>2, TypedIn DEF Characters
      <4> HIDE DEF f
      <4>4. Hid!Visible(f) \in Seq(Characters) BY <4>3, VisibleIn
      <4>5. printed \o Hid!Visible(f) \in Seq(Characters) BY <1>1, <4>4, ConcatProperties
      <4>6. QED BY <2>2, <4>1, <4>5
    <3>2. CASE UNCHANGED <<prev, printed>> BY <1>1, <3>2
    <3>3. QED BY <2>1, <3>1, <3>2
  <2>4. QED BY <1>1, <1>2, <2>1, <2>3 DEF KeysIInv
<1>13. CASE UNCHANGED <<keysVars, mixed>>
  BY <1>1, <1>2, <1>13 DEF KeysIInv, keysVars
<1>14. QED
  BY <1>7, <1>8, <1>9, <1>10, <1>11, <1>12, <1>13
  DEF Hid!Next, Hid!Callbacks, Hid!Plug, Hid!OtherReport, Hid!Comes, Hid!TuhHidMountCb, Hid!devVars,
      keysVars, hidVars

(* The devices and their reports. *)
LEMMA NextReports ==
  ASSUME ReportsIInv, KeysIInv, [Hid!Next]_hidVars PROVE ReportsIInv'
<1>1. /\ hidProgram \in {"host", "otg"} /\ hidLoad \in HidLoads /\ interfaces \subseteq Instances
      /\ dev \in [Instances -> hidLoad.devices \cup {Hid!NoDevice}]
      /\ polled \in [Instances -> {"no", "pending", "refused"}]
      /\ arrived \in [Instances -> HidReports]
      /\ info \in [Instances -> Hid!Reports]
      /\ Hid!HandledAsMeant
  BY DEF ReportsIInv
<1> DEFINE Fits(i) ==
       /\ dev[i] = Hid!NoDevice => i \notin interfaces
       /\ i \notin interfaces => polled[i] = "no" /\ arrived[i] = Hid!NoReport
       /\ polled[i] # "no" => Hid!Polled(i) /\ arrived[i] = Hid!NoReport
       /\ arrived[i] # Hid!NoReport =>
            Hid!Polled(i) /\ [id |-> arrived[i].id, usage |-> arrived[i].usage] \in Hid!Range(dev[i].sends)
       /\ i \in interfaces /\ hidProgram = "host" /\ dev[i].protocol = "none" => info[i] = dev[i].parsed
       /\ i \in interfaces /\ Hid!Polled(i) => polled[i] # "no" \/ arrived[i] # Hid!NoReport
<1>2. \A i \in Instances : Fits(i) BY DEF ReportsIInv
<1>3. ASSUME NEW j \in Instances, dev'[j] = dev[j], (j \in interfaces' <=> j \in interfaces), polled'[j] = polled[j],
             arrived'[j] = arrived[j], info'[j] = info[j], hidProgram' = hidProgram
      PROVE  Fits(j)'
  BY <1>2, <1>3 DEF Hid!Polled, Hid!NoReport, Hid!NoDevice, Hid!Range
<1>4. UNCHANGED hidLoad => HidReports' = HidReports BY DEF HidReports, HidKeys
<1>5. Hid!NoReport \in HidReports /\ Hid!NoReport.usage = "nothing" BY NoReportIs
<1>6. \A d \in hidLoad.devices : d # Hid!NoDevice /\ d.protocol \in {"none", "keyboard", "mouse"}
                               /\ d.sends \in Hid!Reports /\ d.parsed \in Hid!Reports
  BY <1>1, HidConstants DEF Hid!NoDevice
<1> HIDE DEF Fits, HidReports
<1>7. ASSUME (\A i \in Instances : Fits(i))', UNCHANGED <<hidProgram, hidLoad>>, interfaces' \subseteq Instances,
             dev' \in [Instances -> hidLoad.devices \cup {Hid!NoDevice}],
             polled' \in [Instances -> {"no", "pending", "refused"}],
             arrived' \in [Instances -> HidReports], info' \in [Instances -> Hid!Reports],
             Hid!HandledAsMeant'
      PROVE  ReportsIInv'
  BY <1>1, <1>4, <1>7 DEF ReportsIInv, Fits
<1>18. \A i \in Instances : \A r \in Hid!Range(dev[i].sends) : r = [id |-> r.id, usage |-> r.usage] /\ r.id \in Nat
  <2> TAKE i \in Instances
  <2> TAKE r \in Hid!Range(dev[i].sends)
  <2>1. dev[i] \in hidLoad.devices
    <3>1. Hid!NoDevice.sends = <<>> BY DEF Hid!NoDevice
    <3>2. dev[i] # Hid!NoDevice BY <3>1 DEF Hid!Range
    <3>3. QED BY <1>1, <3>2
  <2>2. dev[i].sends \in Hid!Reports BY <1>6, <2>1
  <2>5. PICK n \in DOMAIN dev[i].sends : dev[i].sends[n] = r BY DEF Hid!Range
  <2> DEFINE C == [id : Nat, usage : Hid!Usages]
  <2>6. dev[i].sends \in Seq(C) BY <2>2 DEF Hid!Reports
  <2> HIDE DEF C
  <2>7. r \in C BY <2>5, <2>6
  <2>3. r \in [id : Nat, usage : Hid!Usages] BY <2>7 DEF C
  <2>4. QED BY <2>3
<1>8. CASE Hid!Plug
  <2>1. PICK i \in hidLoad.at, d \in hidLoad.devices :
          /\ dev[i] = Hid!NoDevice /\ dev' = [dev EXCEPT ![i] = d]
          /\ UNCHANGED <<hidProgram, hidLoad, interfaces, polled, arrived, info, last>>
    BY <1>8 DEF Hid!Plug
  <2>2. i \in Instances BY <1>1, HidConstants
  <2>3. dev' \in [Instances -> hidLoad.devices \cup {Hid!NoDevice}] BY <1>1, <2>1, <2>2
  <2>4. Fits(i)' BY <1>1, <1>2, <1>6, <2>1, <2>2 DEF Fits
  <2>5. \A j \in Instances \ {i} : Fits(j)' BY <1>1, <1>3, <2>1, <2>2
  <2>6. QED BY <1>1, <1>7, <2>1, <2>3, <2>4, <2>5 DEF Hid!HandledAsMeant
<1>9. CASE Hid!Unplug
  <2>1. PICK i \in Instances :
          /\ dev' = [dev EXCEPT ![i] = Hid!NoDevice] /\ interfaces' = interfaces \ {i}
          /\ polled' = [polled EXCEPT ![i] = "no"] /\ arrived' = [arrived EXCEPT ![i] = Hid!NoReport]
          /\ UNCHANGED <<hidProgram, hidLoad, info, last>>
    BY <1>9 DEF Hid!Unplug
  <2>2. /\ dev' \in [Instances -> hidLoad.devices \cup {Hid!NoDevice}]
        /\ polled' \in [Instances -> {"no", "pending", "refused"}] /\ arrived' \in [Instances -> HidReports]
    BY <1>1, <1>5, <2>1
  <2>4. Fits(i)' BY <1>1, <2>1 DEF Fits
  <2>5. \A j \in Instances \ {i} : Fits(j)' BY <1>1, <1>3, <2>1
  <2>6. QED BY <1>1, <1>7, <2>1, <2>2, <2>4, <2>5 DEF Hid!HandledAsMeant
<1>10. CASE Hid!KeyboardReport \/ Hid!OtherReport
  <2>1. PICK i \in Instances, report \in HidReports :
          /\ [id |-> report.id, usage |-> report.usage] \in Hid!Range(dev[i].sends)
          /\ polled[i] = "pending" /\ polled' = [polled EXCEPT ![i] = "no"]
          /\ arrived' = [arrived EXCEPT ![i] = report]
          /\ report.usage # "nothing"
          /\ UNCHANGED <<hidProgram, hidLoad, dev, interfaces, info, last>>
    <3>1. CASE Hid!KeyboardReport
      <4>1. PICK i \in Instances : \E r \in Hid!Sends(i, "keyboard") :
              Hid!Comes(i, [id |-> r.id, usage |-> r.usage, shift |-> held[i].shift,
                 keys |-> IF Len(held[i].keys) <= KeySlots THEN held[i].keys ELSE <<"rollover">>])
        BY <3>1 DEF Hid!KeyboardReport
      <4>2. PICK r \in Hid!Sends(i, "keyboard") :
              Hid!Comes(i, [id |-> r.id, usage |-> r.usage, shift |-> held[i].shift,
                 keys |-> IF Len(held[i].keys) <= KeySlots THEN held[i].keys ELSE <<"rollover">>])
        BY <4>1
      <4> DEFINE keys_ == IF Len(held[i].keys) <= KeySlots THEN held[i].keys ELSE <<"rollover">>
                 shift_ == held[i].shift
                 report == [id |-> r.id, usage |-> r.usage, shift |-> shift_, keys |-> keys_]
      <4>3. keys_ \in Seq(HidKeys) /\ shift_ \in BOOLEAN
        <5>1. held[i] \in Hands BY DEF KeysIInv
        <5>2. <<"rollover">> \in Seq(HidKeys) BY DEF HidKeys
        <5>3. QED BY <5>1, <5>2 DEF Hands
      <4>4. r \in Hid!Range(dev[i].sends) /\ r.usage = "keyboard" BY <4>2 DEF Hid!Sends
      <4>5. r = [id |-> r.id, usage |-> r.usage] /\ r.id \in Nat BY <1>18, <4>4
      <4>6. Hid!Comes(i, report) BY <4>2
      <4> HIDE DEF keys_, shift_
      <4>7. report \in HidReports /\ report.id = r.id /\ report.usage = "keyboard"
        BY <4>3, <4>4, <4>5 DEF HidReports, Hid!Usages
      <4> HIDE DEF report
      <4>8. QED BY <4>4, <4>5, <4>6, <4>7 DEF Hid!Comes
    <3>2. CASE Hid!OtherReport
      <4>1. PICK i \in Instances, usage \in {"mouse", "other"} : \E r \in Hid!Sends(i, usage) :
              Hid!Comes(i, [Hid!NoReport EXCEPT !.id = r.id, !.usage = usage])
        BY <3>2 DEF Hid!OtherReport
      <4>2. PICK r \in Hid!Sends(i, usage) :
              Hid!Comes(i, [Hid!NoReport EXCEPT !.id = r.id, !.usage = usage])
        BY <4>1
      <4> DEFINE report == [Hid!NoReport EXCEPT !.id = r.id, !.usage = usage]
      <4>3. report = [id |-> r.id, usage |-> usage, keys |-> <<>>, shift |-> FALSE] BY OtherReportIs
      <4>4. r \in Hid!Range(dev[i].sends) /\ r.usage = usage BY <4>2 DEF Hid!Sends
      <4>5. r = [id |-> r.id, usage |-> r.usage] /\ r.id \in Nat BY <1>18, <4>4
      <4>6. Hid!Comes(i, report) BY <4>2
      <4>7. <<>> \in Seq(HidKeys) OBVIOUS
      <4> HIDE DEF report
      <4>8. report \in HidReports /\ report.id = r.id /\ report.usage = usage
        BY <4>3, <4>5, <4>7 DEF HidReports, Hid!Usages
      <4>9. QED BY <4>4, <4>5, <4>6, <4>8 DEF Hid!Comes
    <3>3. QED BY <1>10, <3>1, <3>2
  <2>2. polled' \in [Instances -> {"no", "pending", "refused"}] /\ arrived' \in [Instances -> HidReports]
    BY <1>1, <2>1
  <2>4. Fits(i)' BY <1>1, <1>2, <1>5, <2>1 DEF Fits, Hid!Polled
  <2>5. \A j \in Instances \ {i} : Fits(j)' BY <1>1, <1>3, <2>1
  <2>6. QED BY <1>1, <1>7, <2>1, <2>2, <2>4, <2>5 DEF Hid!HandledAsMeant
<1>11. CASE Hid!TuhHidMountCb
  <2>1. PICK i \in Instances \ interfaces :
          /\ dev[i] # Hid!NoDevice /\ interfaces' = interfaces \cup {i}
          /\ info' = IF hidProgram = "host" /\ dev[i].protocol = "none"
                     THEN [info EXCEPT ![i] = dev[i].parsed] ELSE info
          /\ IF Hid!Polled(i) THEN Hid!Receive(i) ELSE UNCHANGED polled
          /\ UNCHANGED <<hidProgram, hidLoad, dev, arrived, last>>
    BY <1>11 DEF Hid!TuhHidMountCb, Hid!devVars
  <2>2. Hid!Polled(i) => \E answer \in {"pending", "refused"} : polled' = [polled EXCEPT ![i] = answer]
    BY <2>1 DEF Hid!Receive
  <2>3. dev[i] \in hidLoad.devices BY <1>1, <2>1
  <2>4. polled' \in [Instances -> {"no", "pending", "refused"}] /\ info' \in [Instances -> Hid!Reports]
    BY <1>1, <1>6, <2>1, <2>2, <2>3
  <2>5. Fits(i)' BY <1>1, <1>2, <2>1, <2>2 DEF Fits, Hid!Polled
  <2>6. \A j \in Instances \ {i} : Fits(j)' BY <1>1, <1>3, <2>1, <2>2
  <2>7. QED BY <1>1, <1>7, <2>1, <2>4, <2>5, <2>6 DEF Hid!HandledAsMeant
<1>12. CASE Hid!TuhHidReportReceivedCb
  <2>1. PICK i \in interfaces :
          /\ arrived[i] # Hid!NoReport /\ arrived' = [arrived EXCEPT ![i] = Hid!NoReport]
          /\ last' = [usage |-> arrived[i].usage, as |-> Hid!HandledAs(i, arrived[i]), known |-> Hid!Known(i, arrived[i])]
          /\ Hid!Receive(i)
          /\ UNCHANGED <<hidProgram, hidLoad, dev, interfaces, info>>
    BY <1>12 DEF Hid!TuhHidReportReceivedCb, Hid!devVars, Hid!ReportReceivedCb
  <2>2. \E answer \in {"pending", "refused"} : polled' = [polled EXCEPT ![i] = answer]
    BY <2>1 DEF Hid!Receive
  <2>3. i \in Instances BY <1>1
  <2>4. polled' \in [Instances -> {"no", "pending", "refused"}] /\ arrived' \in [Instances -> HidReports]
    BY <1>1, <1>5, <2>1, <2>2
  <2>5. Hid!Polled(i) /\ Hid!HandledAsMeant'
    <3>1. Hid!HandledAs(i, arrived[i]) = (IF Hid!Known(i, arrived[i]) THEN arrived[i].usage ELSE "nothing") /\ Hid!Polled(i)
      BY <2>1, <2>3, HandledRight
    <3>2. QED BY <2>1, <3>1 DEF Hid!HandledAsMeant
  <2>6. Fits(i)' BY <1>1, <1>2, <2>1, <2>2, <2>5, <2>3 DEF Fits, Hid!Polled
  <2>7. \A j \in Instances \ {i} : Fits(j)' BY <1>1, <1>3, <2>1, <2>2
  <2>8. QED BY <1>1, <1>7, <2>1, <2>3, <2>4, <2>5, <2>6, <2>7
<1>13. CASE UNCHANGED <<hidProgram, hidLoad, dev, interfaces, polled, arrived, info, last>>
  BY <1>1, <1>2, <1>3, <1>7, <1>13 DEF Hid!HandledAsMeant
<1>14. QED
  BY <1>8, <1>9, <1>10, <1>11, <1>12, <1>13
  DEF Hid!Next, Hid!Callbacks, Hid!Press, Hid!Release, Hid!Shift, Hid!Changes, hidVars

-----------------------------------------------------------------------------
(****************************************************************************)
(* Every key is printed once.  With one keyboard in use the keys that were    *)
(* printed, those of the report that has come and those of the next are all that *)
(* were pressed, in order; the other keyboards add nothing.                   *)
(****************************************************************************)

(* The keys that wait: those of the report that has come, and those of the next. *)
Came(i)  == IF arrived[i].usage = "keyboard" THEN arrived[i].keys ELSE prev
First(i) == Hid!Typed(Hid!New(prev, Came(i)), arrived[i].shift)
Later(i) == IF told[i] = held[i] THEN <<>> ELSE Hid!Typed(Hid!New(Came(i), held[i].keys), held[i].shift)

InOrder(i) ==
  /\ Came(i) = told[i].keys
  /\ printed \o Hid!Visible(First(i) \o Later(i)) = Hid!Visible(typedKeys)

TypedIInv ==
  ~mixed =>
    /\ \A i, j \in Instances : i = j \/ Hid!Unused(i) \/ Hid!Unused(j)
    /\ \A i \in Instances : Len(held[i].keys) <= KeySlots
    /\ \A i \in Instances : Hid!OneKeyboard(i) => InOrder(i)

LEMMA WaitingIs == ASSUME NEW i PROVE Hid!Waiting(i) = First(i) \o Later(i)
BY DEF Hid!Waiting, First, Later, Came

LEMMA WaitingIn ==
  ASSUME ReportsIInv, KeysIInv, NEW i \in Instances
  PROVE  /\ Came(i) \in Seq(HidKeys) /\ First(i) \in Seq(Characters) /\ Later(i) \in Seq(Characters)
         /\ held[i].keys \in Seq(HidKeys) /\ held[i].shift \in BOOLEAN /\ held[i] \in Hands /\ told[i] \in Hands
         /\ prev \in Seq(HidKeys) /\ printed \in Seq(Characters) /\ typedKeys \in Seq(Characters)
<1>1. /\ held[i] \in Hands /\ told[i] \in Hands /\ prev \in Seq(HidKeys) /\ printed \in Seq(Characters)
      /\ typedKeys \in Seq(Characters) /\ arrived[i] \in HidReports
  BY DEF KeysIInv, ReportsIInv
<1>2. held[i].keys \in Seq(HidKeys) /\ held[i].shift \in BOOLEAN BY <1>1 DEF Hands
<1>3. arrived[i].keys \in Seq(HidKeys) /\ arrived[i].shift \in BOOLEAN BY <1>1 DEF HidReports
<1>4. Came(i) \in Seq(HidKeys) BY <1>1, <1>3 DEF Came
<1>5. First(i) \in Seq(Characters)
  <2>1. Hid!New(prev, Came(i)) \in Seq(HidKeys) BY <1>1, <1>4, NewIn
  <2>2. QED BY <1>3, <2>1, TypedIn DEF First, Characters
<1>6. Later(i) \in Seq(Characters)
  <2>1. Hid!New(Came(i), held[i].keys) \in Seq(HidKeys) BY <1>2, <1>4, NewIn
  <2>2. Hid!Typed(Hid!New(Came(i), held[i].keys), held[i].shift) \in Seq(Characters)
    BY <1>2, <2>1, TypedIn DEF Characters
  <2>3. <<>> \in Seq(Characters) OBVIOUS
  <2>4. QED BY <2>2, <2>3 DEF Later
<1>7. QED BY <1>1, <1>2, <1>4, <1>5, <1>6

LEMMA FirstNone ==
  ASSUME prev \in Seq(HidKeys), NEW i, arrived[i].usage # "keyboard" PROVE First(i) = <<>> /\ Came(i) = prev
<1>1. Came(i) = prev BY DEF Came
<1>2. Hid!New(prev, prev) = <<>> BY NothingNew
<1>3. QED BY <1>1, <1>2, TypedNone DEF First

LEMMA UnusedNone ==
  ASSUME prev \in Seq(HidKeys), NEW i, Hid!Unused(i)
  PROVE  First(i) = <<>> /\ Came(i) = prev /\ Later(i) = <<>> /\ told[i].keys = <<>>
BY FirstNone DEF Hid!Unused, Later

LEMMA InitTyped == Hid!Init => TypedIInv
<1> SUFFICES ASSUME Hid!Init PROVE TypedIInv
  OBVIOUS
<1>1. \A i \in Instances : held[i].keys = <<>> /\ told[i] = held[i] /\ arrived[i].usage = "nothing"
  BY DEF Hid!Init, Hid!Released, Hid!NoReport
<1>2. prev = <<>> /\ printed = <<>> /\ typedKeys = <<>> BY DEF Hid!Init
<1>3. prev \in Seq(HidKeys) BY <1>2
<1>4. \A i \in Instances : Hid!Unused(i) BY <1>1 DEF Hid!Unused
<1>5. ASSUME NEW i \in Instances PROVE InOrder(i)
  <2>1. First(i) = <<>> /\ Came(i) = prev /\ Later(i) = <<>> /\ told[i].keys = <<>>
    BY <1>3, <1>4, UnusedNone
  <2>2. <<>> \o <<>> = <<>> OBVIOUS
  <2>3. QED BY <1>2, <2>1, <2>2, VisibleNone DEF InOrder
<1>6. KeySlots \in Nat BY HidConstants
<1>7. \A i \in Instances : Len(held[i].keys) <= KeySlots BY <1>1, <1>6
<1>8. QED BY <1>4, <1>5, <1>7 DEF TypedIInv

LEMMA HidCardinality == ASSUME NEW s PROVE Hid!Cardinality(s) = Cardinality(s)
BY DEF Hid!Cardinality, Cardinality

(* What the invariant says of the property. *)
LEMMA TypedIs == ReportsIInv /\ KeysIInv /\ TypedIInv => Hid!TypedOnce
<1> SUFFICES ASSUME ReportsIInv, KeysIInv, TypedIInv, ~mixed PROVE Hid!TypedOnce
  BY DEF Hid!TypedOnce
<1> DEFINE used == {i \in Instances : ~Hid!Unused(i)}
           rest == IF used = {} THEN <<>> ELSE Hid!Waiting(CHOOSE i \in used : TRUE)
<1>1. /\ \A i, j \in Instances : i = j \/ Hid!Unused(i) \/ Hid!Unused(j)
      /\ \A i \in Instances : Hid!OneKeyboard(i) => InOrder(i)
  BY DEF TypedIInv
<1>5. Hid!TypedOnce <=> (~mixed => Cardinality(used) <= 1 /\ printed \o Hid!Visible(rest) = Hid!Visible(typedKeys))
  BY HidCardinality, Zenon DEF Hid!TypedOnce
<1>2. CASE used = {}
  <2>1. PICK i \in Instances : TRUE BY HidConstants
  <2>2. Hid!Unused(i) /\ Hid!OneKeyboard(i) BY <1>2 DEF Hid!OneKeyboard
  <2>3. InOrder(i) BY <1>1, <2>2
  <2>4. First(i) = <<>> /\ Later(i) = <<>> BY <2>2, UnusedNone DEF KeysIInv
  <2>5. <<>> \o <<>> = <<>> OBVIOUS
  <2>6. printed \o Hid!Visible(<<>>) = Hid!Visible(typedKeys) BY <2>3, <2>4, <2>5 DEF InOrder
  <2>7. Cardinality(used) <= 1
    <3>1. Cardinality({}) = 0 BY FS_EmptySet
    <3>2. QED BY <1>2, <3>1
  <2> HIDE DEF used
  <2>8. rest = <<>> BY <1>2
  <2> HIDE DEF rest
  <2>9. QED BY <1>5, <2>6, <2>7, <2>8
<1>3. CASE used # {}
  <2> DEFINE i == CHOOSE i \in used : TRUE
  <2>1. i \in used BY <1>3
  <2> HIDE DEF i
  <2>2. i \in Instances /\ ~Hid!Unused(i) BY <2>1
  <2>3. used = {i} BY <1>1, <2>2
  <2>4. Cardinality(used) <= 1
    <3>1. Cardinality({i}) = 1 BY FS_Singleton
    <3>2. QED BY <2>3, <3>1
  <2>5. InOrder(i) BY <1>1, <2>2 DEF Hid!OneKeyboard
  <2>6. rest = First(i) \o Later(i) BY <1>3, WaitingIs DEF i
  <2> HIDE DEF used
  <2> HIDE DEF rest
  <2>7. QED BY <1>5, <2>4, <2>5, <2>6 DEF InOrder
<1>4. QED BY <1>2, <1>3

(* Nothing happens to the keys: what Plug, Unplug, the mounts and other reports do. *)
LEMMA NoKeys ==
  ASSUME ReportsIInv, KeysIInv, TypedIInv, UNCHANGED <<hidProgram, prev, printed, typedKeys>>, mixed => mixed',
         ~mixed' => \A i \in Instances :
                      /\ Hid!Unused(i)' = Hid!Unused(i)
                      /\ Came(i)' = Came(i) /\ First(i)' = First(i) /\ Later(i)' = Later(i)
                      /\ told'[i].keys = told[i].keys
                      /\ held'[i].keys = held[i].keys
  PROVE  TypedIInv'
<1> SUFFICES ASSUME ~mixed' PROVE /\ (\A i, j \in Instances : i = j \/ Hid!Unused(i) \/ Hid!Unused(j))'
                                  /\ (\A i \in Instances : Len(held[i].keys) <= KeySlots)'
                                  /\ (\A i \in Instances : Hid!OneKeyboard(i) => InOrder(i))'
  BY DEF TypedIInv
<1>1. /\ \A i, j \in Instances : i = j \/ Hid!Unused(i) \/ Hid!Unused(j)
      /\ \A i \in Instances : Len(held[i].keys) <= KeySlots
      /\ \A i \in Instances : Hid!OneKeyboard(i) => InOrder(i)
  BY DEF TypedIInv
<1>2. \A i \in Instances : Hid!Unused(i)' = Hid!Unused(i) OBVIOUS
<1> HIDE DEF Hid!Unused
<1>3. \A i, j \in Instances : i = j \/ Hid!Unused(i)' \/ Hid!Unused(j)' BY <1>1, <1>2
<1>4. \A i \in Instances : Len(held'[i].keys) <= KeySlots BY <1>1
<1>5. ASSUME NEW i \in Instances, Hid!OneKeyboard(i)' PROVE InOrder(i)'
  <2>1. Hid!OneKeyboard(i) BY <1>2, <1>5 DEF Hid!OneKeyboard
  <2>2. InOrder(i) BY <1>1, <2>1
  <2>3. Came(i)' = Came(i) /\ First(i)' = First(i) /\ Later(i)' = Later(i) /\ told'[i].keys = told[i].keys OBVIOUS
  <2>4. Hid!Visible(First(i) \o Later(i))' = Hid!Visible(First(i) \o Later(i)) BY <2>3 DEF Hid!Visible
  <2>5. Hid!Visible(typedKeys)' = Hid!Visible(typedKeys) BY DEF Hid!Visible
  <2>6. QED BY <2>2, <2>3, <2>4, <2>5 DEF InOrder
<1>6. QED BY <1>3, <1>4, <1>5

(* Something happens on i, and i is the keyboard that is used then. *)
LEMMA SomeKeys ==
  ASSUME TypedIInv, NEW i \in Instances, ~mixed, Hid!OneKeyboard(i),
         \A j \in Instances \ {i} : held'[j] = held[j] /\ told'[j] = told[j] /\ arrived'[j] = arrived[j],
         ~Hid!Unused(i)', Len(held'[i].keys) <= KeySlots, InOrder(i)'
  PROVE  TypedIInv'
<1>1. \A j \in Instances \ {i} : Hid!Unused(j)' BY DEF Hid!OneKeyboard, Hid!Unused
<1>2. \A j \in Instances : Len(held[j].keys) <= KeySlots BY DEF TypedIInv
<1>3. \A j \in Instances : Len(held'[j].keys) <= KeySlots BY <1>2
<1>4. \A j \in Instances \ {i} : ~Hid!OneKeyboard(j)' BY DEF Hid!OneKeyboard
<1>5. QED BY <1>1, <1>3, <1>4 DEF TypedIInv

LEMMA JoinAssoc ==
  ASSUME NEW C, NEW a \in Seq(C), NEW b \in Seq(C), NEW c \in Seq(C)
  PROVE  a \o (b \o c) = (a \o b) \o c
BY ConcatAssociative, SMTT(30)

LEMMA OneMore ==
  ASSUME NEW C, NEW p \in Seq(C), NEW f \in Seq(C), NEW t \in Seq(C), NEW x \in C,
         p \o Hid!Visible(f) = Hid!Visible(t)
  PROVE  p \o Hid!Visible(f \o <<x>>) = Hid!Visible(Append(t, x))
<1>1. <<x>> \in Seq(C) /\ Append(t, x) = t \o <<x>> OBVIOUS
<1>2. Hid!Visible(f \o <<x>>) = Hid!Visible(f) \o Hid!Visible(<<x>>) BY <1>1, VisibleJoined
<1>3. Hid!Visible(t \o <<x>>) = Hid!Visible(t) \o Hid!Visible(<<x>>) BY <1>1, VisibleJoined
<1> DEFINE v == Hid!Visible(f)
           w == Hid!Visible(<<x>>)
<1>4. v \in Seq(C) /\ w \in Seq(C) BY <1>1, VisibleIn
<1> HIDE DEF v, w
<1>7. p \o (v \o w) = (p \o v) \o w BY <1>4, JoinAssoc, SMTT(30)
<1>5. p \o (Hid!Visible(f) \o Hid!Visible(<<x>>)) = (p \o Hid!Visible(f)) \o Hid!Visible(<<x>>)
  BY <1>7 DEF v, w
<1>6. QED BY <1>1, <1>2, <1>3, <1>5

LEMMA OneLess ==
  ASSUME NEW C, NEW p \in Seq(C), NEW f \in Seq(C), NEW r \in Seq(C)
  PROVE  (p \o Hid!Visible(f)) \o Hid!Visible(<<>> \o r) = p \o Hid!Visible(f \o r)
<1>1. <<>> \o r = r BY ConcatEmptySeq
<1>2. Hid!Visible(f \o r) = Hid!Visible(f) \o Hid!Visible(r) BY VisibleJoined
<1> DEFINE v == Hid!Visible(f)
           w == Hid!Visible(r)
<1>3. v \in Seq(C) /\ w \in Seq(C) BY VisibleIn
<1> HIDE DEF v, w
<1>6. p \o (v \o w) = (p \o v) \o w BY <1>3, JoinAssoc, SMTT(30)
<1>4. p \o (Hid!Visible(f) \o Hid!Visible(r)) = (p \o Hid!Visible(f)) \o Hid!Visible(r)
  BY <1>6 DEF v, w
<1>5. QED BY <1>1, <1>2, <1>4

(* The steps of the keyboards, with what holds before them. *)
LEMMA TypedPress ==
  ASSUME ReportsIInv, KeysIInv, TypedIInv, Hid!Press PROVE TypedIInv'
<1> SUFFICES ASSUME ~mixed' PROVE TypedIInv'
  BY DEF TypedIInv
<1>1. PICK i \in Instances, k \in hidLoad.keys :
        /\ k \notin Hid!Range(held[i].keys) /\ told[i] = held[i]
        /\ held' = [held EXCEPT ![i] = [held[i] EXCEPT !.keys = Append(@, k)]]
        /\ mixed' = (mixed \/ ~Hid!OneKeyboard(i) \/ Len([held[i] EXCEPT !.keys = Append(@, k)].keys) > KeySlots)
        /\ typedKeys' = Append(typedKeys, [key |-> k, shift |-> held[i].shift])
        /\ UNCHANGED <<hidProgram, told, arrived, prev, printed>>
  BY DEF Hid!Press, Hid!Changes
<1> DEFINE keys == held[i].keys
           more == Append(held[i].keys, k)
           x == [key |-> k, shift |-> held[i].shift]
<1>2. /\ keys \in Seq(HidKeys) /\ held[i].shift \in BOOLEAN /\ held[i] \in Hands
      /\ First(i) \in Seq(Characters) /\ printed \in Seq(Characters) /\ typedKeys \in Seq(Characters)
  BY WaitingIn
<1>3. k \in HidKeys BY DEF HidKeys
<1>4. [held[i] EXCEPT !.keys = Append(@, k)] = [keys |-> more, shift |-> held[i].shift] BY <1>2, HandsWith
<1>5. held \in [Instances -> Hands] BY DEF KeysIInv
<1>6. held'[i] = [keys |-> more, shift |-> held[i].shift] /\ \A j \in Instances \ {i} : held'[j] = held[j]
  BY <1>1, <1>4, <1>5
<1>7. ~mixed /\ Hid!OneKeyboard(i) /\ ~(Len(more) > KeySlots) BY <1>1, <1>4
<1>8. Len(more) \in Nat /\ KeySlots \in Nat /\ more # keys
  <2>1. Len(more) = Len(keys) + 1 /\ Len(keys) \in Nat BY <1>2
  <2>2. QED BY <2>1, HidConstants
<1>9. x \in Characters BY <1>2, <1>3 DEF Characters
<1>10. InOrder(i) BY <1>7 DEF TypedIInv
<1>11. Came(i)' = Came(i) /\ First(i)' = First(i) BY <1>1 DEF Came, First, Hid!Typed, Hid!New, Hid!Without, Hid!Range
<1>12. Came(i) = keys BY <1>1, <1>10 DEF InOrder
<1>13. Later(i) = <<>> BY <1>1 DEF Later
<1>14. Hid!New(keys, more) = <<k>> BY <1>1, <1>2, <1>3, OneNew
<1> HIDE DEF keys, more
<1>15. Later(i)' = <<x>>
  <2>1. told'[i] # held'[i] BY <1>1, <1>6, <1>8 DEF keys
  <2>2. Later(i)' = Hid!Typed(Hid!New(Came(i)', held'[i].keys), held'[i].shift)
    BY <2>1 DEF Later, Hid!Typed, Hid!New, Hid!Without, Hid!Range
  <2>3. held'[i].keys = more /\ held'[i].shift = held[i].shift BY <1>6
  <2>4. Later(i)' = Hid!Typed(<<k>>, held[i].shift) BY <1>11, <1>12, <1>14, <2>2, <2>3
  <2>5. QED BY <2>4, TypedOne
<1>16. InOrder(i)'
  <2>1. First(i) \o <<>> = First(i) BY <1>2, ConcatEmptySeq
  <2>2. printed \o Hid!Visible(First(i)) = Hid!Visible(typedKeys) BY <1>10, <1>13, <2>1 DEF InOrder
  <2> HIDE DEF x
  <2>3. printed \o Hid!Visible(First(i) \o <<x>>) = Hid!Visible(Append(typedKeys, x))
    BY <1>2, <1>9, <2>2, OneMore
  <2>4. Hid!Visible(First(i) \o Later(i))' = Hid!Visible(First(i) \o <<x>>)
    BY <1>1, <1>11, <1>15 DEF Hid!Visible, Hid!Without
  <2>5. Hid!Visible(typedKeys)' = Hid!Visible(Append(typedKeys, x))
    BY <1>1 DEF Hid!Visible, Hid!Without, x
  <2>6. told'[i].keys = Came(i)' BY <1>1, <1>11, <1>12 DEF keys
  <2>7. QED BY <1>1, <2>3, <2>4, <2>5, <2>6 DEF InOrder
<1>17. ~Hid!Unused(i)'
  <2>1. told'[i] # held'[i] BY <1>1, <1>6, <1>8 DEF keys
  <2>2. QED BY <2>1 DEF Hid!Unused
<1>18. Len(held'[i].keys) <= KeySlots BY <1>6, <1>7, <1>8
<1>19. QED BY <1>1, <1>6, <1>7, <1>16, <1>17, <1>18, SomeKeys

(* A key is released, or shift is pressed or released: nothing is printed for that. *)
LEMMA TypedChanges ==
  ASSUME ReportsIInv, KeysIInv, TypedIInv, ~mixed, NEW i \in Instances,
         told[i] = held[i], Hid!OneKeyboard(i),
         held' \in [Instances -> Hands], held'[i] # held[i], Hid!New(held[i].keys, held'[i].keys) = <<>>,
         \A j \in Instances \ {i} : held'[j] = held[j], Len(held'[i].keys) <= KeySlots,
         UNCHANGED <<hidProgram, told, arrived, prev, printed, typedKeys>>
  PROVE  TypedIInv'
<1>1. InOrder(i) BY DEF TypedIInv
<1>2. Came(i)' = Came(i) /\ First(i)' = First(i) BY DEF Came, First, Hid!Typed, Hid!New, Hid!Without, Hid!Range
<1>3. Came(i) = held[i].keys BY <1>1 DEF InOrder
<1>4. Later(i) = <<>> BY DEF Later
<1>5. told'[i] # held'[i] OBVIOUS
<1>6. Later(i)' = <<>>
  <2>1. Later(i)' = Hid!Typed(Hid!New(Came(i)', held'[i].keys), held'[i].shift)
    BY <1>5 DEF Later, Hid!Typed, Hid!New, Hid!Without, Hid!Range
  <2>2. Later(i)' = Hid!Typed(<<>>, held'[i].shift) BY <1>2, <1>3, <2>1
  <2>3. QED BY <2>2, TypedNone
<1>7. InOrder(i)'
  <2>1. Hid!Visible(First(i) \o Later(i))' = Hid!Visible(First(i) \o Later(i))
    BY <1>2, <1>4, <1>6 DEF Hid!Visible, Hid!Without
  <2>2. Hid!Visible(typedKeys)' = Hid!Visible(typedKeys) BY DEF Hid!Visible, Hid!Without
  <2>3. QED BY <1>1, <1>2, <2>1, <2>2 DEF InOrder
<1>8. ~Hid!Unused(i)' BY <1>5 DEF Hid!Unused
<1>9. QED BY <1>7, <1>8, SomeKeys

LEMMA TypedRelease ==
  ASSUME ReportsIInv, KeysIInv, KeysIInv', TypedIInv, Hid!Release, ~mixed' PROVE TypedIInv'
<1>1. PICK i \in Instances : \E k \in Hid!Range(held[i].keys) :
        Hid!Changes(i, [held[i] EXCEPT !.keys = Hid!Without(@, {k})]) /\ UNCHANGED typedKeys
  BY DEF Hid!Release
<1>2. PICK k \in Hid!Range(held[i].keys) :
        Hid!Changes(i, [held[i] EXCEPT !.keys = Hid!Without(@, {k})]) /\ UNCHANGED typedKeys
  BY <1>1
<1> DEFINE keys == held[i].keys
           fewer == Without(held[i].keys, {k})
<1>3. keys \in Seq(HidKeys) /\ held[i] \in Hands BY WaitingIn
<1>4. Hid!Without(held[i].keys, {k}) = fewer BY HidWithout
<1>5. [held[i] EXCEPT !.keys = Hid!Without(@, {k})] = [keys |-> fewer, shift |-> held[i].shift]
  BY <1>3, <1>4, HandsWith
<1>6. fewer # keys /\ Hid!New(keys, fewer) = <<>> BY <1>3, OneFewer, FewerNew
<1>7. held \in [Instances -> Hands] /\ held' \in [Instances -> Hands]' BY DEF KeysIInv
<1>8. /\ held' = [held EXCEPT ![i] = [keys |-> fewer, shift |-> held[i].shift]] /\ told[i] = held[i]
      /\ ~mixed /\ Hid!OneKeyboard(i) /\ ~(Len([keys |-> fewer, shift |-> held[i].shift].keys) > KeySlots)
      /\ UNCHANGED <<hidProgram, hidLoad, told, arrived, prev, printed, typedKeys>>
  BY <1>2, <1>5 DEF Hid!Changes
<1> HIDE DEF fewer, keys
<1>9. held' \in [Instances -> Hands] BY <1>7, <1>8 DEF Hands, HidKeys
<1>10. held'[i] = [keys |-> fewer, shift |-> held[i].shift] /\ \A j \in Instances \ {i} : held'[j] = held[j]
  BY <1>7, <1>8
<1>11. held'[i].keys = fewer BY <1>10
<1>12. held'[i] # held[i] BY <1>6, <1>11 DEF keys
<1>13. Len(fewer) <= KeySlots
  <2>1. fewer \in Seq(HidKeys) BY <1>3, WithoutIn DEF fewer, keys
  <2>2. Len(fewer) \in Nat /\ ~(Len(fewer) > KeySlots) BY <1>8, <2>1
  <2>3. QED BY <2>2, HidConstants
<1>14. Hid!New(held[i].keys, held'[i].keys) = <<>> BY <1>6, <1>11 DEF keys
<1>15. Len(held'[i].keys) <= KeySlots BY <1>11, <1>13
<1>16. QED BY <1>8, <1>9, <1>10, <1>12, <1>14, <1>15, TypedChanges

LEMMA TypedShift ==
  ASSUME ReportsIInv, KeysIInv, KeysIInv', TypedIInv, Hid!Shift, ~mixed' PROVE TypedIInv'
<1>1. PICK i \in Instances : Hid!Changes(i, [held[i] EXCEPT !.shift = ~@]) /\ UNCHANGED typedKeys
  BY DEF Hid!Shift
<1>2. held[i].keys \in Seq(HidKeys) /\ held[i] \in Hands /\ held[i].shift \in BOOLEAN BY WaitingIn
<1>3. held \in [Instances -> Hands] /\ held' \in [Instances -> Hands]' BY DEF KeysIInv
<1>4. /\ held' = [held EXCEPT ![i] = [held[i] EXCEPT !.shift = ~@]] /\ told[i] = held[i]
      /\ ~mixed /\ Hid!OneKeyboard(i)
      /\ UNCHANGED <<hidProgram, hidLoad, told, arrived, prev, printed, typedKeys>>
  BY <1>1 DEF Hid!Changes
<1>5. held' \in [Instances -> Hands] BY <1>3, <1>4 DEF Hands, HidKeys
<1>6. held'[i] = [held[i] EXCEPT !.shift = ~@] /\ \A j \in Instances \ {i} : held'[j] = held[j]
  BY <1>3, <1>4
<1>7. held'[i].keys = held[i].keys /\ held'[i] # held[i]
  <2>1. held'[i].keys = held[i].keys /\ held'[i].shift = ~held[i].shift BY <1>2, <1>6 DEF Hands
  <2>2. QED BY <1>2, <2>1
<1>8. Hid!New(held[i].keys, held'[i].keys) = <<>> BY <1>2, <1>7, NothingNew
<1>9. Len(held'[i].keys) <= KeySlots BY <1>4, <1>7 DEF TypedIInv
<1>10. QED BY <1>4, <1>5, <1>6, <1>7, <1>8, <1>9, TypedChanges

LEMMA TypedKeyboardReport ==
  ASSUME ReportsIInv, KeysIInv, TypedIInv, Hid!KeyboardReport, ~mixed' PROVE TypedIInv'
<1> DEFINE Keys(i) == IF Len(held[i].keys) <= KeySlots THEN held[i].keys ELSE <<"rollover">>
<1>1. PICK i \in Instances : \E r \in Hid!Sends(i, "keyboard") :
        /\ told[i] # held[i] /\ told' = [told EXCEPT ![i] = held[i]] /\ polled[i] = "pending"
        /\ arrived' = [arrived EXCEPT ![i] = [id |-> r.id, usage |-> r.usage, shift |-> held[i].shift, keys |-> Keys(i)]]
        /\ UNCHANGED <<hidProgram, held, prev, printed, typedKeys, mixed>>
  BY DEF Hid!KeyboardReport, Hid!Comes
<1>2. PICK r \in Hid!Sends(i, "keyboard") :
        arrived' = [arrived EXCEPT ![i] = [id |-> r.id, usage |-> r.usage, shift |-> held[i].shift, keys |-> Keys(i)]]
  BY <1>1
<1>3. r.usage = "keyboard" BY DEF Hid!Sends
<1>4. /\ \A j, n \in Instances : j = n \/ Hid!Unused(j) \/ Hid!Unused(n)
      /\ \A j \in Instances : Len(held[j].keys) <= KeySlots
      /\ \A j \in Instances : Hid!OneKeyboard(j) => InOrder(j)
      /\ ~mixed
  BY <1>1 DEF TypedIInv
<1>5. Keys(i) = held[i].keys BY <1>4
<1> HIDE DEF Keys
<1>6. Hid!OneKeyboard(i) /\ InOrder(i)
  <2>1. ~Hid!Unused(i) BY <1>1 DEF Hid!Unused
  <2>2. Hid!OneKeyboard(i) BY <1>4, <2>1 DEF Hid!OneKeyboard
  <2>3. QED BY <1>4, <2>2
<1>7. arrived \in [Instances -> HidReports] /\ told \in [Instances -> Hands] BY DEF ReportsIInv, KeysIInv
<1>8. /\ arrived'[i].usage = "keyboard" /\ arrived'[i].keys = held[i].keys /\ arrived'[i].shift = held[i].shift
      /\ told'[i] = held[i]
      /\ \A j \in Instances \ {i} : arrived'[j] = arrived[j] /\ told'[j] = told[j]
  BY <1>1, <1>2, <1>3, <1>5, <1>7
<1>9. /\ First(i) \in Seq(Characters) /\ Later(i) \in Seq(Characters) /\ prev \in Seq(HidKeys)
  BY WaitingIn
<1>10. arrived[i].usage # "keyboard"
  <2>1. arrived[i] = Hid!NoReport BY <1>1 DEF ReportsIInv
  <2>2. QED BY <2>1, NoReportIs
<1>11. First(i) = <<>> /\ Came(i) = prev BY <1>9, <1>10, FirstNone
<1>12. Later(i) = Hid!Typed(Hid!New(prev, held[i].keys), held[i].shift) BY <1>1, <1>11 DEF Later
<1>13. Came(i)' = held[i].keys BY <1>8 DEF Came
<1>14. First(i)' = Later(i)
  <2>1. First(i)' = Hid!Typed(Hid!New(prev', Came(i)'), arrived'[i].shift)
    BY DEF First, Hid!Typed, Hid!New, Hid!Without, Hid!Range
  <2>2. QED BY <1>1, <1>8, <1>12, <1>13, <2>1
<1>15. Later(i)' = <<>> BY <1>1, <1>8 DEF Later
<1>16. InOrder(i)'
  <2>1. Later(i) \o <<>> = <<>> \o Later(i) BY <1>9, ConcatEmptySeq
  <2>2. (First(i) \o Later(i))' = First(i) \o Later(i) BY <1>11, <1>14, <1>15, <2>1
  <2>3. Hid!Visible(First(i) \o Later(i))' = Hid!Visible(First(i) \o Later(i))
    BY <1>1, <2>2 DEF Hid!Visible, Hid!Without
  <2>4. Hid!Visible(typedKeys)' = Hid!Visible(typedKeys) BY <1>1 DEF Hid!Visible, Hid!Without
  <2>5. Came(i)' = told'[i].keys BY <1>8, <1>13
  <2>6. QED BY <1>1, <1>6, <2>3, <2>4, <2>5 DEF InOrder
<1>17. ~Hid!Unused(i)' BY <1>8 DEF Hid!Unused
<1>18. Len(held'[i].keys) <= KeySlots /\ \A j \in Instances \ {i} : held'[j] = held[j] BY <1>1, <1>4
<1>19. QED BY <1>4, <1>6, <1>8, <1>16, <1>17, <1>18, SomeKeys

(* The callback prints the keys that came; those of the next report are the same before and after. *)
LEMMA TypedPrints ==
  ASSUME ReportsIInv, KeysIInv, TypedIInv, ~mixed, NEW i \in Instances, arrived[i].usage = "keyboard",
         Hid!ProcessKbdReport(arrived[i]), arrived' = [arrived EXCEPT ![i] = Hid!NoReport],
         UNCHANGED <<hidProgram, hidLoad, held, told, typedKeys>>
  PROVE  TypedIInv'
<1>1. /\ \A j, n \in Instances : j = n \/ Hid!Unused(j) \/ Hid!Unused(n)
      /\ \A j \in Instances : Len(held[j].keys) <= KeySlots
      /\ \A j \in Instances : Hid!OneKeyboard(j) => InOrder(j)
  BY DEF TypedIInv
<1>2. ~Hid!Unused(i) BY DEF Hid!Unused
<1>3. Hid!OneKeyboard(i) /\ InOrder(i) /\ \A j \in Instances \ {i} : Hid!Unused(j) BY <1>1, <1>2 DEF Hid!OneKeyboard
<1>4. Came(i) = arrived[i].keys BY DEF Came
<1>5. prev' = Came(i) /\ printed' = printed \o Hid!Visible(First(i))
  BY <1>4 DEF Hid!ProcessKbdReport, First
<1>6. /\ First(i) \in Seq(Characters) /\ Later(i) \in Seq(Characters) /\ printed \in Seq(Characters)
      /\ Came(i) \in Seq(HidKeys)
  BY WaitingIn
<1>7. arrived \in [Instances -> HidReports] BY DEF ReportsIInv
<1>8. arrived'[i].usage # "keyboard" /\ \A j \in Instances \ {i} : arrived'[j] = arrived[j] BY <1>7, NoReportIs
<1>9. \A j \in Instances \ {i} : arrived'[j].usage # "keyboard" BY <1>3, <1>8 DEF Hid!Unused
<1>10. ASSUME NEW j \in Instances PROVE First(j)' = <<>> /\ Came(j)' = Came(i)
  <2>1. arrived'[j].usage # "keyboard" BY <1>8, <1>9
  <2>2. Came(j)' = Came(i) BY <1>5, <2>1 DEF Came
  <2>3. First(j)' = Hid!Typed(Hid!New(prev', Came(j)'), arrived'[j].shift)
    BY DEF First, Hid!Typed, Hid!New, Hid!Without, Hid!Range
  <2>4. Hid!New(Came(i), Came(i)) = <<>> BY <1>6, NothingNew
  <2>5. QED BY <1>5, <2>2, <2>3, <2>4, TypedNone
<1>11. Later(i)' = Later(i)
  <2>1. Came(i)' = Came(i) BY <1>10
  <2>2. QED BY <2>1 DEF Later, Hid!Typed, Hid!New, Hid!Without, Hid!Range
<1>12. printed' \o Hid!Visible(<<>> \o Later(i)) = Hid!Visible(typedKeys)
  <2>1. (printed \o Hid!Visible(First(i))) \o Hid!Visible(<<>> \o Later(i)) = printed \o Hid!Visible(First(i) \o Later(i))
    <3>1. printed \in Seq(Characters) BY <1>6
    <3>2. First(i) \in Seq(Characters) BY <1>6
    <3>3. Later(i) \in Seq(Characters) BY <1>6
    <3>4. QED BY ONLY <3>1, <3>2, <3>3, OneLess
  <2>2. QED BY <1>3, <1>5, <2>1 DEF InOrder
<1>13. Hid!Visible(typedKeys)' = Hid!Visible(typedKeys) BY DEF Hid!Visible, Hid!Without
<1>14. ASSUME NEW j \in Instances, Later(j)' = Later(i), told[j].keys = Came(i) PROVE InOrder(j)'
  <2>1. First(j)' = <<>> /\ Came(j)' = Came(i) BY <1>10
  <2>2. Hid!Visible(First(j) \o Later(j))' = Hid!Visible(<<>> \o Later(i))
    BY <1>14, <2>1 DEF Hid!Visible, Hid!Without
  <2>3. QED BY <1>12, <1>13, <1>14, <2>1, <2>2 DEF InOrder
<1>15. InOrder(i)' BY <1>3, <1>11, <1>14 DEF InOrder
<1>16. \A j \in Instances \ {i} : Hid!Unused(j)' BY <1>3, <1>8 DEF Hid!Unused
<1>17. ASSUME NEW j \in Instances, Hid!OneKeyboard(j)' PROVE InOrder(j)'
  <2>1. CASE j = i BY <1>15, <2>1
  <2>2. CASE j # i
    <3>1. Hid!Unused(i)' BY <1>17, <2>2 DEF Hid!OneKeyboard
    <3>2. held[i].keys = <<>> /\ told[i] = held[i] BY <3>1 DEF Hid!Unused
    <3>3. Later(i) = <<>> /\ Came(i) = <<>> BY <1>3, <3>2 DEF Later, InOrder
    <3>4. held[j].keys = <<>> /\ told[j] = held[j] BY <1>3, <2>2 DEF Hid!Unused
    <3>5. Later(j)' = <<>> BY <3>4 DEF Later
    <3>6. QED BY <1>14, <3>3, <3>4, <3>5
  <2>3. QED BY <2>1, <2>2
<1>18. QED BY <1>1, <1>16, <1>17 DEF TypedIInv

(* A device is unplugged, while its keyboard is not used. *)
LEMMA TypedUnplug ==
  ASSUME ReportsIInv, KeysIInv, TypedIInv, Hid!Unplug PROVE TypedIInv'
<1>1. PICK i \in Instances :
        /\ held' = [held EXCEPT ![i] = Hid!Released] /\ told' = [told EXCEPT ![i] = Hid!Released]
        /\ arrived' = [arrived EXCEPT ![i] = Hid!NoReport]
        /\ mixed' = (mixed \/ ~Hid!Unused(i))
        /\ UNCHANGED <<hidProgram, prev, printed, typedKeys>>
  BY DEF Hid!Unplug
<1>2. /\ held \in [Instances -> Hands] /\ told \in [Instances -> Hands] /\ arrived \in [Instances -> HidReports]
      /\ prev \in Seq(HidKeys)
  BY DEF ReportsIInv, KeysIInv
<1>3. /\ held'[i] = Hid!Released /\ told'[i] = Hid!Released /\ arrived'[i] = Hid!NoReport
      /\ \A j \in Instances \ {i} : held'[j] = held[j] /\ told'[j] = told[j] /\ arrived'[j] = arrived[j]
  BY <1>1, <1>2
<1>4. Hid!Released.keys = <<>> /\ Hid!NoReport.usage # "keyboard" BY NoReportIs DEF Hid!Released
<1>5. ASSUME NEW j \in Instances, j # i
      PROVE  /\ Hid!Unused(j)' = Hid!Unused(j)
             /\ Came(j)' = Came(j) /\ First(j)' = First(j) /\ Later(j)' = Later(j)
             /\ told'[j].keys = told[j].keys /\ held'[j].keys = held[j].keys
  <2>1. held'[j] = held[j] /\ told'[j] = told[j] /\ arrived'[j] = arrived[j] /\ prev' = prev BY <1>1, <1>3, <1>5
  <2>2. Hid!Unused(j)' = Hid!Unused(j) BY <2>1 DEF Hid!Unused
  <2>3. Came(j)' = Came(j) BY <2>1 DEF Came
  <2>4. First(j)' = First(j) BY <2>1, <2>3 DEF First, Hid!Typed, Hid!New, Hid!Without, Hid!Range
  <2>5. Later(j)' = Later(j) BY <2>1, <2>3 DEF Later, Hid!Typed, Hid!New, Hid!Without, Hid!Range
  <2>6. QED BY <2>1, <2>2, <2>3, <2>4, <2>5
<1>6. ASSUME Hid!Unused(i)
      PROVE  /\ Hid!Unused(i)' = Hid!Unused(i)
             /\ Came(i)' = Came(i) /\ First(i)' = First(i) /\ Later(i)' = Later(i)
             /\ told'[i].keys = told[i].keys /\ held'[i].keys = held[i].keys
  <2>1. First(i) = <<>> /\ Came(i) = prev /\ Later(i) = <<>> /\ told[i].keys = <<>> BY <1>2, <1>6, UnusedNone
  <2>2. held[i].keys = <<>> BY <1>6 DEF Hid!Unused
  <2>3. Hid!Unused(i)' BY <1>3, <1>4 DEF Hid!Unused
  <2>4. Came(i)' = prev BY <1>1, <1>3, <1>4 DEF Came
  <2>5. First(i)' = <<>>
    <3>1. First(i)' = Hid!Typed(Hid!New(prev', Came(i)'), arrived'[i].shift)
      BY DEF First, Hid!Typed, Hid!New, Hid!Without, Hid!Range
    <3>2. Hid!New(prev, prev) = <<>> BY <1>2, NothingNew
    <3>3. QED BY <1>1, <2>4, <3>1, <3>2, TypedNone
  <2>6. Later(i)' = <<>> BY <1>3 DEF Later
  <2>7. QED BY <1>3, <1>4, <1>6, <2>1, <2>2, <2>3, <2>4, <2>5, <2>6
<1>7. QED BY <1>1, <1>5, <1>6, NoKeys

(* A report that is no keyboard's comes, or is handled. *)
LEMMA TypedOther ==
  ASSUME ReportsIInv, KeysIInv, TypedIInv, mixed => mixed',
         NEW i \in Instances, NEW report, arrived[i].usage # "keyboard", report.usage # "keyboard",
         arrived' = [arrived EXCEPT ![i] = report],
         UNCHANGED <<hidProgram, held, told, prev, printed, typedKeys>>
  PROVE  TypedIInv'
<1>1. arrived \in [Instances -> HidReports] /\ prev \in Seq(HidKeys) BY DEF ReportsIInv, KeysIInv
<1>2. arrived'[i].usage # "keyboard" /\ \A j \in Instances \ {i} : arrived'[j] = arrived[j] BY <1>1
<1>3. ASSUME NEW j \in Instances
      PROVE  Hid!Unused(j)' = Hid!Unused(j) /\ Came(j)' = Came(j) /\ Later(j)' = Later(j)
  <2>1. Hid!Unused(j)' = Hid!Unused(j) BY <1>2 DEF Hid!Unused
  <2>2. Came(j)' = Came(j) BY <1>2 DEF Came
  <2>3. Later(j)' = Later(j) BY <2>2 DEF Later, Hid!Typed, Hid!New, Hid!Without, Hid!Range
  <2>4. QED BY <2>1, <2>2, <2>3
<1>4. ASSUME NEW j \in Instances PROVE First(j)' = First(j)
  <2>1. First(j)' = Hid!Typed(Hid!New(prev, Came(j)), arrived'[j].shift)
    <3>1. First(j)' = Hid!Typed(Hid!New(prev', Came(j)'), arrived'[j].shift)
      BY DEF First, Hid!Typed, Hid!New, Hid!Without, Hid!Range
    <3>2. QED BY <1>3, <3>1
  <2>2. CASE j # i BY <1>2, <2>1, <2>2 DEF First
  <2>3. CASE j = i
    <3>1. First(i) = <<>> /\ Came(i) = prev BY <1>1, FirstNone
    <3>2. Hid!New(prev, prev) = <<>> BY <1>1, NothingNew
    <3>3. QED BY <2>1, <2>3, <3>1, <3>2, TypedNone
  <2>4. QED BY <2>2, <2>3
<1>5. QED BY <1>3, <1>4, NoKeys

LEMMA NextTyped ==
  ASSUME ReportsIInv, KeysIInv, KeysIInv', TypedIInv, [Hid!Next]_hidVars PROVE TypedIInv'
<1> SUFFICES ASSUME ~mixed' PROVE TypedIInv'
  BY DEF TypedIInv
<1>1. CASE Hid!OtherReport
  <2>1. PICK i \in Instances, usage \in {"mouse", "other"} : \E r \in Hid!Sends(i, usage) :
          Hid!Comes(i, [Hid!NoReport EXCEPT !.id = r.id, !.usage = usage]) /\ UNCHANGED told
    BY <1>1 DEF Hid!OtherReport
  <2>2. PICK r \in Hid!Sends(i, usage) :
          Hid!Comes(i, [Hid!NoReport EXCEPT !.id = r.id, !.usage = usage]) /\ UNCHANGED told
    BY <2>1
  <2> DEFINE report == [Hid!NoReport EXCEPT !.id = r.id, !.usage = usage]
  <2>3. report = [id |-> r.id, usage |-> usage, keys |-> <<>>, shift |-> FALSE] BY OtherReportIs
  <2>4. polled[i] = "pending" /\ arrived' = [arrived EXCEPT ![i] = report]
        /\ UNCHANGED <<hidProgram, held, told, prev, printed, typedKeys, mixed>>
    BY <2>2 DEF Hid!Comes
  <2>5. arrived[i] = Hid!NoReport BY <2>4 DEF ReportsIInv
  <2> HIDE DEF report
  <2>6. report.usage # "keyboard" /\ arrived[i].usage # "keyboard" BY <2>3, <2>5, NoReportIs
  <2>7. QED BY <2>4, <2>6, TypedOther
<1>2. CASE Hid!TuhHidReportReceivedCb
  <2>1. PICK i \in interfaces :
          LET as == Hid!HandledAs(i, arrived[i])
          IN  /\ arrived[i] # Hid!NoReport /\ arrived' = [arrived EXCEPT ![i] = Hid!NoReport]
              /\ CASE as = "keyboard" -> Hid!ProcessKbdReport(arrived[i])
                   [] as = "mouse"    -> Hid!ProcessMouseReport
                   [] OTHER           -> UNCHANGED <<prev, printed>>
              /\ mixed' = (mixed \/ (arrived[i].usage = "keyboard" /\ as # "keyboard"))
              /\ UNCHANGED <<hidProgram, hidLoad, held, told, typedKeys>>
    BY <1>2 DEF Hid!TuhHidReportReceivedCb, Hid!devVars
  <2>2. i \in Instances BY DEF ReportsIInv
  <2>3. Hid!HandledAs(i, arrived[i]) \in {arrived[i].usage, "nothing"} BY <2>1, <2>2, HandledRight
  <2>4. CASE arrived[i].usage = "keyboard"
    <3>1. ~mixed /\ Hid!HandledAs(i, arrived[i]) = "keyboard" BY <2>1, <2>4
    <3>2. Hid!ProcessKbdReport(arrived[i]) BY <2>1, <3>1
    <3>3. QED BY <2>1, <2>2, <2>4, <3>1, <3>2, TypedPrints
  <2>5. CASE arrived[i].usage # "keyboard"
    <3>1. Hid!HandledAs(i, arrived[i]) # "keyboard" BY <2>3, <2>5
    <3>2. UNCHANGED <<prev, printed>> BY <2>1, <3>1 DEF Hid!ProcessMouseReport
    <3>3. Hid!NoReport.usage # "keyboard" BY NoReportIs
    <3>4. QED BY <2>1, <2>2, <2>5, <3>2, <3>3, TypedOther
  <2>6. QED BY <2>4, <2>5
<1>3. CASE UNCHANGED <<hidProgram, held, told, arrived, prev, printed, typedKeys, mixed>>
  <2>1. \A i \in Instances :
          /\ Hid!Unused(i)' = Hid!Unused(i)
          /\ Came(i)' = Came(i) /\ First(i)' = First(i) /\ Later(i)' = Later(i)
          /\ told'[i].keys = told[i].keys /\ held'[i].keys = held[i].keys
    BY <1>3 DEF Hid!Unused, Came, First, Later, Hid!Typed, Hid!New, Hid!Without, Hid!Range
  <2>2. QED BY <1>3, <2>1, NoKeys
<1>4. QED
  BY <1>1, <1>2, <1>3, TypedPress, TypedRelease, TypedShift, TypedKeyboardReport, TypedUnplug
  DEF Hid!Next, Hid!Callbacks, Hid!Plug, Hid!TuhHidMountCb, Hid!devVars, hidVars

HostIInv == ConsoleIInv /\ SticksIInv /\ ReportsIInv /\ KeysIInv /\ TypedIInv

LEMMA HostKeepsPromises == HostIInv => HostServes
<1> SUFFICES ASSUME HostIInv PROVE HostServes
  OBVIOUS
<1>1. Hid!TypedOnce BY TypedIs DEF HostIInv
<1>2. Hid!ReportsGoOn BY DEF HostIInv, ReportsIInv, Hid!ReportsGoOn
<1>3. Hid!HandledAsMeant BY DEF HostIInv, ReportsIInv
<1>4. Host!ConsoleForwarded BY DEF HostIInv, ConsoleIInv
<1>5. Host!InquiryIsOwn BY DEF HostIInv, SticksIInv, Host!InquiryIsOwn
<1>6. QED BY <1>1, <1>2, <1>3, <1>4, <1>5 DEF HostServes

(* The USB hosts: every key is printed once, in order and with its shift, each  *)
(* report is handled as what it is, and no interface falls silent (hid_app.c   *)
(* and main.c of the two host programs); the device gets all that is typed at  *)
(* the console (cdc_app.c), and a stick is shown under its own name (msc_app.c) *)
(* - for any number of interfaces and sticks, any keys and any sizes.         *)
THEOREM HostsAlwaysServe == BoardSpec => []HostServes
<1>1. BoardInit => HostIInv
  BY InitConsole, InitSticks, InitReports, InitKeys, InitTyped DEF BoardInit, HostIInv
<1>2. HostIInv /\ [BoardNext]_boardVars => HostIInv'
  <2> SUFFICES ASSUME HostIInv, [BoardNext]_boardVars PROVE HostIInv'
    OBVIOUS
  <2>1. [Hid!Next]_hidVars /\ [Host!Next]_hostVars BY HidSteps, HostSteps
  <2>2. ConsoleIInv' /\ SticksIInv' BY <2>1, NextConsole, NextSticks DEF HostIInv
  <2>3. ReportsIInv' /\ KeysIInv' BY <2>1, NextReports, NextKeys DEF HostIInv
  <2>4. TypedIInv' BY <2>1, <2>3, NextTyped DEF HostIInv
  <2>5. QED BY <2>2, <2>3, <2>4 DEF HostIInv
<1>3. QED BY <1>1, <1>2, HostKeepsPromises, PTL DEF BoardSpec

-----------------------------------------------------------------------------
(****************************************************************************)
(* The baud rate.  A pulse that was measured is eight bits, or as many as the *)
(* gap makes it, but for what the edges were seen late; what is accepted is   *)
(* eight bits, because no other gap makes a pulse of the right ratio, unless  *)
(* it lasts about as long as the one before, which two alike gaps can do.     *)
(****************************************************************************)
PulseOf(g) == IF aligned THEN 8 * bit ELSE (3 + g) * bit
Measured(p, g) == p \in Int /\ p >= PulseOf(g) - 2 * EdgeJitter /\ p <= PulseOf(g) + 2 * EdgeJitter

BaudIInv ==
  /\ bit \in Bits /\ aligned \in BOOLEAN /\ inits \in Nat /\ brd \in Nat \cup {Baud!Unset}
  /\ inits = 0 => uart_pulse = 0
  /\ inits > 0 => gap \in Gaps
  /\ brd = Baud!Unset /\ inits > 0 => Measured(uart_pulse, gap)
  /\ Baud!BaudIsRight
  /\ Baud!TwoInits

LEMMA BaudConstants ==
  ASSUME Baud!BaudMargins, NEW b \in Bits
  PROVE  /\ b \in Nat /\ b > 0 /\ EdgeJitter \in Nat
         /\ 8 * b >= 128 + 2 * EdgeJitter /\ 12 * b >= 100 * (EdgeJitter + 1)
         /\ 7 * b > 83 * EdgeJitter /\ 8 * b > 102 * EdgeJitter
BY BoardsAssumption DEF Baud!BaudAssumption, Baud!BaudMargins

\* What the four edges give.
LEMMA Pulses ==
  ASSUME NEW b \in Nat, NEW j \in Nat, NEW h \in Nat, NEW l \in [0 .. 3 -> 0 .. j]
  PROVE  LET lo == (b + l[1] - l[0] + b + l[3] - l[2] + 1) \div 2
             hi == h * b + l[2] - l[1]
         IN  /\ lo \in Int /\ b - j <= lo /\ lo <= b + j
             /\ hi \in Int /\ h * b - j <= hi /\ hi <= h * b + j
<1>1. l[0] \in 0 .. j /\ l[1] \in 0 .. j /\ l[2] \in 0 .. j /\ l[3] \in 0 .. j
  OBVIOUS
<1>2. PICK a \in 0 .. j, c \in 0 .. j, d \in 0 .. j, e \in 0 .. j : l[0] = a /\ l[1] = c /\ l[2] = d /\ l[3] = e
  BY <1>1
<1>3. PICK x \in Nat : x = h * b
  OBVIOUS
<1>4. LET lo == (b + c - a + b + e - d + 1) \div 2
      IN  lo \in Int /\ b - j <= lo /\ lo <= b + j
  OBVIOUS
<1>5. x + d - c \in Int /\ x - j <= x + d - c /\ x + d - c <= x + j
  OBVIOUS
<1>6. QED BY <1>2, <1>3, <1>4, <1>5

\* A pulse of eight bits gives the divisor of the host.
LEMMA DivisorIsNear ==
  ASSUME NEW b \in Nat, NEW j \in Nat, NEW p \in Int, 8 * b >= 128 + 2 * j, 12 * b >= 100 * (j + 1),
         8 * b - 2 * j <= p, p <= 8 * b + 2 * j
  PROVE  /\ Baud!Divisor(p) \in Nat
         /\ p % 128 # 127 => Baud!Abs(Baud!Divisor(p) - 4 * b) * 100 <= 3 * 4 * b
<1>1. p >= 128
  OBVIOUS
<1>2. PICK q \in Nat : q = p \div 128
  BY <1>1
<1>3. PICK r \in 0 .. 127 : r = p % 128
  BY <1>1
<1>4. p = 128 * q + r BY <1>1, <1>2, <1>3
<1>5. q >= 1 BY <1>1, <1>4
<1>6. PICK s \in 0 .. 64 : s = (r + 1) \div 2
  OBVIOUS
<1>7. PICK f \in 0 .. 63 : f = s % 64
  OBVIOUS
<1>8. Baud!Divisor(p) = 64 * q + f BY <1>2, <1>3, <1>6, <1>7 DEF Baud!Divisor
<1>9. ASSUME r # 127 PROVE Baud!Abs(64 * q + f - 4 * b) * 100 <= 3 * 4 * b
  <2>1. s < 64 BY <1>6, <1>9
  <2>2. f = s BY <1>7, <2>1
  <2>3. 2 * s \in r .. r + 1 BY <1>6
  <2>4. 2 * (64 * q + f) >= 8 * b - 2 * j /\ 2 * (64 * q + f) <= 8 * b + 2 * j + 1
    BY <1>4, <2>2, <2>3
  <2>5. PICK d \in Nat : d = 64 * q + f
    OBVIOUS
  <2>6. d >= 4 * b - (j + 1) /\ d <= 4 * b + (j + 1) BY <2>4, <2>5
  <2>7. QED BY <2>5, <2>6 DEF Baud!Abs
<1>10. QED BY <1>3, <1>5, <1>8, <1>9

\* What is accepted is eight bits; two INITs of a host that the loader heard in time agree.
LEMMA AcceptedIsRight ==
  ASSUME Baud!BaudMargins, BaudIInv, brd = Baud!Unset, NEW g \in Gaps, NEW late_ \in [0 .. 3 -> 0 .. EdgeJitter]
  PROVE  LET p == Baud!MeasureBaudRate(g, late_)
         IN  /\ Measured(p.hi + p.lo, g)
             /\ Baud!Accepted(p) \in Nat
             /\ (aligned \/ ~Baud!Alike(g, gap)) /\ Baud!Accepted(p) > 0 =>
                  /\ 8 * bit - 2 * EdgeJitter <= Baud!Accepted(p)
                  /\ Baud!Accepted(p) <= 8 * bit + 2 * EdgeJitter
             /\ aligned /\ inits > 0 => Baud!Accepted(p) > 0
<1> DEFINE p == Baud!MeasureBaudRate(g, late_)
           h == Baud!HighBits(g)
<1>1. /\ bit \in Bits /\ bit \in Nat /\ bit > 0 /\ EdgeJitter \in Nat /\ aligned \in BOOLEAN
      /\ 8 * bit >= 128 + 2 * EdgeJitter /\ 7 * bit > 83 * EdgeJitter /\ 8 * bit > 102 * EdgeJitter
      /\ Gaps \subseteq Nat /\ inits \in Nat
  BY BaudConstants, BoardsAssumption DEF BaudIInv, Baud!BaudAssumption
<1>2. h \in Nat /\ (aligned => h = 7) /\ (~aligned => h = 2 + g)
  BY <1>1 DEF Baud!HighBits
<1> HIDE DEF h
<1>3. /\ p.lo \in Int /\ bit - EdgeJitter <= p.lo /\ p.lo <= bit + EdgeJitter
      /\ p.hi \in Int /\ h * bit - EdgeJitter <= p.hi /\ p.hi <= h * bit + EdgeJitter
  BY <1>1, <1>2, Pulses DEF Baud!MeasureBaudRate, h
<1> HIDE DEF p
<1>4. PICK b \in Nat, j \in Nat, lo \in Int, hi \in Int, x \in Nat :
        b = bit /\ j = EdgeJitter /\ lo = p.lo /\ hi = p.hi /\ x = g * bit
  BY <1>1, <1>3
<1>5. PulseOf(g) = h * bit + bit /\ PulseOf(g) \in Nat /\ h * bit \in Nat
  BY <1>1, <1>2 DEF PulseOf
<1>6. Measured(hi + lo, g) BY <1>1, <1>3, <1>4, <1>5 DEF Measured
<1>7. hi + lo > 0 BY <1>1, <1>3, <1>4, <1>5
\* the ratio is right only for a pulse of seven bits
<1>8. ASSUME 10 * hi < 73 * lo, 10 * hi > 67 * lo PROVE h = 7
  <2>1. h >= 8 => h * bit >= 8 * bit BY <1>1, <1>2
  <2>2. h <= 6 => h * bit <= 6 * bit BY <1>1, <1>2
  <2>3. h < 8
    <3>1. SUFFICES ASSUME h >= 8 PROVE FALSE BY <1>2
    <3>2. hi >= 8 * b - j BY <1>3, <1>4, <1>5, <2>1, <3>1
    <3>3. QED BY <1>1, <1>3, <1>4, <1>8, <3>2
  <2>4. h > 6
    <3>1. SUFFICES ASSUME h <= 6 PROVE FALSE BY <1>2
    <3>2. hi <= 6 * b + j BY <1>3, <1>4, <1>5, <2>2, <3>1
    <3>3. QED BY <1>1, <1>3, <1>4, <1>8, <3>2
  <2>5. QED BY <1>2, <2>3, <2>4
<1>9. h = 7 => 8 * b - 2 * j <= hi + lo /\ hi + lo <= 8 * b + 2 * j
  BY <1>3, <1>4
<1>10. uart_pulse \in Int /\ (inits = 0 => uart_pulse = 0)
  BY <1>1 DEF BaudIInv, Measured
<1>11. PICK u \in Int : u = uart_pulse BY <1>10
<1>12. u >= 0
  <2>1. inits > 0 => gap \in Gaps /\ Measured(u, gap) BY <1>11 DEF BaudIInv
  <2>2. ASSUME inits > 0 PROVE PulseOf(gap) \in Nat /\ PulseOf(gap) >= 3 * bit
    <3>0. gap \in Nat /\ bit \in Nat BY <1>1, <2>1, <2>2
    <3>1. PICK y \in Nat : y = gap * bit BY ONLY <3>0
    <3>2. (3 + gap) * bit = 3 * bit + y BY ONLY <3>0, <3>1
    <3>3. CASE aligned BY <1>1, <3>3 DEF PulseOf
    <3>4. CASE ~aligned BY <1>1, <3>1, <3>2, <3>4 DEF PulseOf
    <3>5. QED BY <3>3, <3>4
  <2>3. inits > 0 => u >= 0 BY <1>1, <2>1, <2>2 DEF Measured
  <2>4. QED BY <1>1, <1>10, <1>11, <2>3
<1>13. ASSUME Baud!Abs(hi + lo - u) * 25 < hi + lo, aligned \/ ~Baud!Alike(g, gap)
       PROVE  /\ 8 * b - 2 * j <= (hi + lo + u + 1) \div 2
              /\ (hi + lo + u + 1) \div 2 <= 8 * b + 2 * j
  <2>1. inits > 0
    <3>1. SUFFICES ASSUME u = 0 PROVE FALSE BY <1>1, <1>10, <1>11
    <3>2. Baud!Abs(hi + lo - u) = hi + lo BY <1>7, <3>1 DEF Baud!Abs
    <3>3. QED BY <1>7, <1>13, <3>2
  <2>2. gap \in Gaps /\ gap \in Nat /\ Measured(u, gap) BY <1>1, <1>11, <2>1 DEF BaudIInv
  <2>3. CASE aligned
    <3>1. 8 * b - 2 * j <= u /\ u <= 8 * b + 2 * j BY <1>4, <2>2, <2>3 DEF Measured, PulseOf
    <3>2. 8 * b - 2 * j <= hi + lo /\ hi + lo <= 8 * b + 2 * j BY <1>2, <1>9, <2>3
    <3>3. QED BY <3>1, <3>2
  <2>4. CASE ~aligned
    <3>1. PICK y \in Nat : y = gap * bit BY <1>1, <2>2
    <3>2. u >= 3 * b + y - 2 * j /\ u <= 3 * b + y + 2 * j
      <4>1. PulseOf(gap) = 3 * b + y BY <1>1, <1>4, <2>2, <2>4, <3>1 DEF PulseOf
      <4>2. QED BY <1>4, <2>2, <4>1 DEF Measured
    <3>3. hi + lo >= 3 * b + x - 2 * j /\ hi + lo <= 3 * b + x + 2 * j
      <4>1. PulseOf(g) = 3 * b + x BY <1>1, <1>4, <2>4 DEF PulseOf
      <4>2. QED BY <1>4, <1>6, <4>1 DEF Measured
    <3>4. 25 * Baud!Abs(x - y) >= 3 * b + x + 102 * j
      <4>1. 25 * Baud!Abs(g * bit - gap * bit) >= (3 + g) * bit + 102 * EdgeJitter
        <5>1. g * bit \in Int /\ gap * bit \in Int /\ (3 + g) * bit \in Int BY <1>1, <2>2
        <5>2. Baud!Abs(g * bit - gap * bit) \in Int BY <5>1 DEF Baud!Abs
        <5>3. QED BY <1>1, <1>13, <2>4, <5>1, <5>2 DEF Baud!Alike
      <4>2. (3 + g) * bit = 3 * b + x BY <1>1, <1>4
      <4>3. QED BY <1>4, <3>1, <4>1, <4>2
    <3>5. Baud!Abs(hi + lo - u) >= Baud!Abs(x - y) - 4 * j
      BY <3>2, <3>3 DEF Baud!Abs
    <3>6. Baud!Abs(x - y) \in Nat /\ Baud!Abs(hi + lo - u) \in Nat BY DEF Baud!Abs
    <3>7. FALSE BY <1>13, <3>3, <3>4, <3>5, <3>6
    <3>8. QED BY <3>7
  <2>5. QED BY <1>1, <2>3, <2>4
<1>14. ASSUME aligned, inits > 0 PROVE Baud!Abs(hi + lo - u) * 25 < hi + lo
  <2>1. Measured(u, gap) BY <1>11, <1>14 DEF BaudIInv
  <2>2. 8 * b - 2 * j <= u /\ u <= 8 * b + 2 * j BY <1>4, <1>14, <2>1 DEF Measured, PulseOf
  <2>3. 8 * b - 2 * j <= hi + lo /\ hi + lo <= 8 * b + 2 * j BY <1>2, <1>9, <1>14
  <2>4. 8 * b > 102 * j BY <1>1, <1>4
  <2>5. QED BY <2>2, <2>3, <2>4 DEF Baud!Abs
<1>15. Baud!Accepted(p) = IF 10 * hi < 73 * lo /\ 10 * hi > 67 * lo THEN hi + lo
                          ELSE IF Baud!Abs(hi + lo - u) * 25 < hi + lo THEN (hi + lo + u + 1) \div 2
                          ELSE 0
  BY <1>4, <1>11 DEF Baud!Accepted
<1>16. (hi + lo + u + 1) \div 2 \in Nat /\ (hi + lo + u + 1) \div 2 > 0 BY <1>7, <1>12
<1>17. Baud!Accepted(p) \in Nat BY <1>7, <1>15, <1>16
<1>18. (aligned \/ ~Baud!Alike(g, gap)) /\ Baud!Accepted(p) > 0 =>
         8 * b - 2 * j <= Baud!Accepted(p) /\ Baud!Accepted(p) <= 8 * b + 2 * j
  BY <1>8, <1>9, <1>13, <1>15
<1>19. aligned /\ inits > 0 => Baud!Accepted(p) > 0 BY <1>7, <1>14, <1>15, <1>16
<1>20. QED BY <1>4, <1>6, <1>17, <1>18, <1>19 DEF p

LEMMA BaudSteps == [BoardNext]_boardVars => [Baud!Next]_baudVars
BY DEF BoardNext, boardVars, baudVars, OnlyEntry, OnlyDevice, OnlyDisk, OnlyHid, OnlyHost,
  OnlyLoader, OnlyTrim, OnlyBaud

LEMMA DivisorIsNat ==
  ASSUME NEW p \in Nat PROVE Baud!Divisor(p) \in Nat
<1>1. PICK q \in Nat, r \in 0 .. 127 : q = p \div 128 /\ r = p % 128
  OBVIOUS
<1>2. PICK f \in 0 .. 63 : f = ((r + 1) \div 2) % 64
  OBVIOUS
<1>3. QED BY <1>1, <1>2 DEF Baud!Divisor

LEMMA InitBaud == Baud!Init => BaudIInv
BY BoardsAssumption DEF Baud!Init, BaudIInv, Baud!BaudIsRight, Baud!TwoInits, Baud!Unset, Baud!BaudAssumption

LEMMA NextBaud ==
  ASSUME Baud!BaudMargins, BaudIInv, [Baud!Next]_baudVars PROVE BaudIInv'
<1>1. CASE Baud!WaitForInit
  <2>1. PICK g \in Gaps, late_ \in [0 .. 3 -> 0 .. EdgeJitter] :
          LET p == Baud!MeasureBaudRate(g, late_)
          IN  /\ gap' = g /\ lastGap' = gap
              /\ IF Baud!Accepted(p) > 0
                 THEN uart_pulse' = Baud!Accepted(p) /\ brd' = Baud!Divisor(uart_pulse')
                 ELSE uart_pulse' = p.hi + p.lo /\ UNCHANGED brd
    BY <1>1 DEF Baud!WaitForInit
  <2>2. brd = Baud!Unset /\ inits' = inits + 1 /\ bit' = bit /\ aligned' = aligned
    BY <1>1 DEF Baud!WaitForInit
  <2> DEFINE p == Baud!MeasureBaudRate(g, late_)
             a == Baud!Accepted(p)
  <2>3. /\ Measured(p.hi + p.lo, g) /\ a \in Nat
        /\ (aligned \/ ~Baud!Alike(g, gap)) /\ a > 0 => 8 * bit - 2 * EdgeJitter <= a /\ a <= 8 * bit + 2 * EdgeJitter
        /\ aligned /\ inits > 0 => a > 0
    BY <2>2, AcceptedIsRight
  <2>4. /\ gap' = g /\ lastGap' = gap
        /\ a > 0 => uart_pulse' = a /\ brd' = Baud!Divisor(a)
        /\ ~(a > 0) => uart_pulse' = p.hi + p.lo /\ brd' = Baud!Unset
    BY <2>1, <2>2
  <2> HIDE DEF a, p
  <2>5. /\ bit \in Bits /\ bit \in Nat /\ EdgeJitter \in Nat /\ inits \in Nat /\ aligned \in BOOLEAN
        /\ 8 * bit >= 128 + 2 * EdgeJitter /\ 12 * bit >= 100 * (EdgeJitter + 1)
    BY BaudConstants DEF BaudIInv
  <2>6. ASSUME a > 0, aligned \/ ~Baud!Alike(g, gap)
        PROVE  /\ brd' \in Nat
               /\ uart_pulse' % 128 # 127 => Baud!Abs(brd' - 4 * bit) * 100 <= 3 * 4 * bit
    <3>1. a \in Int /\ uart_pulse' = a /\ brd' = Baud!Divisor(a) BY <2>3, <2>4, <2>6
    <3>2. 8 * bit - 2 * EdgeJitter <= a /\ a <= 8 * bit + 2 * EdgeJitter BY <2>3, <2>6
    <3>3. QED BY <2>5, <3>1, <3>2, DivisorIsNear
  <2>7. brd' \in Nat \cup {Baud!Unset}
    <3>1. CASE a > 0 BY <2>3, <2>4, <3>1, DivisorIsNat
    <3>2. CASE ~(a > 0) BY <2>4, <3>2
    <3>3. QED BY <3>1, <3>2
  <2>8. ASSUME a > 0 PROVE brd' # Baud!Unset
    <3>1. brd' \in Nat BY <2>3, <2>4, <2>8, DivisorIsNat
    <3>2. QED BY <3>1 DEF Baud!Unset
  <2>9. Baud!BaudIsRight'
    <3>1. CASE a > 0 /\ (aligned \/ ~Baud!Alike(g, gap))
      BY <2>2, <2>4, <2>6, <3>1 DEF Baud!BaudIsRight, Baud!Near, Baud!Abs
    <3>2. CASE ~(a > 0) BY <2>4, <3>2 DEF Baud!BaudIsRight
    <3>3. CASE ~aligned /\ Baud!Alike(g, gap)
      BY <2>2, <2>4, <3>3 DEF Baud!BaudIsRight, Baud!Alike, Baud!Abs
    <3>4. QED BY <3>1, <3>2, <3>3
  <2>10. Baud!TwoInits'
    <3> SUFFICES ASSUME aligned, inits + 1 >= 2 PROVE brd' # Baud!Unset
      BY <2>2 DEF Baud!TwoInits
    <3>1. a > 0 BY <2>3, <2>5
    <3>2. QED BY <2>8, <3>1
  <2>11. (brd' = Baud!Unset /\ inits' > 0 => Measured(uart_pulse, gap)') /\ (inits' > 0 => gap' \in Gaps)
        /\ inits' \in Nat /\ (inits' = 0 => uart_pulse' = 0)
    <3>1. Measured(uart_pulse', g) => Measured(uart_pulse, gap)'
      BY <2>2, <2>4 DEF Measured, PulseOf
    <3>2. brd' = Baud!Unset => Measured(uart_pulse', g) BY <2>3, <2>4, <2>8
    <3>3. QED BY <2>1, <2>2, <2>4, <2>5, <3>1, <3>2
  <2>12. QED BY <2>2, <2>5, <2>7, <2>9, <2>10, <2>11 DEF BaudIInv
<1>2. CASE UNCHANGED baudVars
  BY <1>2 DEF baudVars, BaudIInv, Measured, PulseOf, Baud!BaudIsRight, Baud!Near, Baud!Abs, Baud!Alike,
    Baud!TwoInits, Baud!Unset
<1>3. QED BY <1>1, <1>2 DEF Baud!Next, Baud!Done, Baud!vars, baudVars

(****************************************************************************)
(* The oscillator.  What ten frames count tells on which side of the right    *)
(* settings the oscillator is, or that the next setting is right as well.     *)
(****************************************************************************)
Top == Trim!Max(Trim!Settings)
Rights == {k \in Trim!Settings : Trim!Right(k)}
Away(m, n) == IF m < n THEN n - m ELSE m - n

LEMMA TrimConstants ==
  /\ Top \in Nat /\ Trim!Settings = 0 .. Top
  /\ \A n \in Trim!Settings : Rate[n] \in Nat \ {0} /\ (n > 0 => Rate[n - 1] < Rate[n])
  /\ SofCount \in Nat \ {0} /\ SofMin \in Nat \ {0} /\ SofMax \in Nat \ {0} /\ SofJitter \in Nat
  /\ MaxStrange \in Nat /\ Strange \subseteq Nat
  /\ \A n \in Trim!Settings \ {0} : SofCount * (Rate[n] - Rate[n - 1]) <= SofMax - SofMin
  /\ SofCount * Rate[0] < SofMin /\ SofMax < SofCount * Rate[Top]
BY BoardsAssumption DEF Trim!TrimAssumption, Top

LEMMA LowestOf ==
  ASSUME NEW S \in SUBSET Nat, S # {}
  PROVE  Trim!Min(S) \in S /\ \A y \in S : Trim!Min(S) <= y
<1>1. PICK x \in S : \A y \in S : x <= y BY Least
<1>2. QED BY <1>1 DEF Trim!Min

LEMMA LowerOf ==
  ASSUME NEW a \in Int, NEW b \in Int
  PROVE  Trim!Min({a, b}) = IF a < b THEN a ELSE b
BY DEF Trim!Min

LEMMA HigherOf ==
  ASSUME NEW a \in Int, NEW b \in Int
  PROVE  Trim!Max({a, b}) = IF a > b THEN a ELSE b
BY DEF Trim!Max

\* The field goes round at its ends.
LEMMA Wraps ==
  ASSUME NEW m \in Nat, NEW x \in Int, -1 <= x, x <= m + 1
  PROVE  x % (m + 1) = IF x = -1 THEN m ELSE IF x = m + 1 THEN 0 ELSE x
OBVIOUS

\* A higher setting is faster.
LEMMA RateGrows ==
  ASSUME NEW m \in Trim!Settings, NEW n \in Trim!Settings, m < n
  PROVE  Rate[m] < Rate[n]
<1> DEFINE S == {k \in Nat : k \in Trim!Settings /\ m < k /\ ~(Rate[m] < Rate[k])}
<1>1. Trim!Settings = 0 .. Top /\ Top \in Nat
      /\ \A k \in Trim!Settings : Rate[k] \in Nat /\ (k > 0 => Rate[k - 1] < Rate[k])
  BY TrimConstants
<1>2. S = {}
  <2> SUFFICES ASSUME S # {} PROVE FALSE OBVIOUS
  <2>1. PICK k \in S : \A l \in S : k <= l BY Least
  <2>2. k \in Nat /\ k \in Trim!Settings /\ m < k /\ ~(Rate[m] < Rate[k]) /\ m \in Nat
    BY <1>1
  <2>3. k - 1 \in Trim!Settings /\ Rate[k - 1] < Rate[k] /\ k - 1 \in Nat BY <1>1, <2>2
  <2>4. m < k - 1
    <3>1. k - 1 # m BY <2>2, <2>3
    <3>2. QED BY <2>2, <3>1
  <2>5. k - 1 \notin S BY <2>1, <2>2
  <2>6. Rate[m] < Rate[k - 1] BY <2>3, <2>4, <2>5
  <2>7. Rate[m] \in Nat /\ Rate[k - 1] \in Nat /\ Rate[k] \in Nat BY <1>1, <2>2, <2>3
  <2>8. QED BY <2>2, <2>3, <2>6, <2>7
<1>3. n \in Nat BY <1>1
<1>4. QED BY <1>2, <1>3

LEMMA SumGrows ==
  ASSUME NEW m \in Trim!Settings, NEW n \in Trim!Settings, m < n
  PROVE  SofCount * Rate[m] < SofCount * Rate[n]
<1>1. Rate[m] < Rate[n] BY RateGrows
<1>2. PICK a \in Nat, b \in Nat, c \in Nat \ {0} : a = Rate[m] /\ b = Rate[n] /\ c = SofCount BY TrimConstants
<1>3. a < b BY <1>1, <1>2
<1>4. c * a < c * b BY ONLY <1>3
<1>5. QED BY <1>2, <1>4

LEMMA SomeRight ==
  ASSUME Top > 0 PROVE Rights # {}
<1> DEFINE Sum(n) == SofCount * Rate[n]
           S == {n \in Nat : n \in Trim!Settings /\ Sum(n) >= SofMin}
<1>1. /\ Top \in Nat /\ Trim!Settings = 0 .. Top /\ SofMin \in Nat /\ SofMax \in Nat
      /\ Sum(0) < SofMin /\ SofMax < Sum(Top)
      /\ \A n \in Trim!Settings : Sum(n) \in Nat
  BY TrimConstants
<1>2. ASSUME NEW n \in Trim!Settings, n > 0
      PROVE  Sum(n - 1) \in Nat /\ Sum(n) <= Sum(n - 1) + SofMax - SofMin /\ Sum(n - 1) < Sum(n)
             /\ n - 1 \in Trim!Settings
  <2>1. n - 1 \in Trim!Settings BY <1>1, <1>2
  <2>2. PICK a \in Nat, b \in Nat, c \in Nat : a = Rate[n] /\ b = Rate[n - 1] /\ c = SofCount
    BY <2>1, TrimConstants
  <2>3. c * (a - b) <= SofMax - SofMin BY <1>2, <2>2, TrimConstants
  <2>4. c * (a - b) = c * a - c * b BY ONLY a \in Nat, b \in Nat, c \in Nat
  <2>5. Sum(n - 1) = c * b /\ Sum(n) = c * a /\ c * a \in Nat /\ c * b \in Nat BY <2>2
  <2>6. n - 1 < n BY <1>1
  <2>7. Sum(n - 1) < Sum(n) BY <2>1, <2>6, SumGrows
  <2> HIDE DEF Sum
  <2>8. QED BY <1>1, <2>1, <2>3, <2>4, <2>5, <2>7
<1> HIDE DEF Sum
<1>3. SofMin < SofMax
  <2>1. Top \in Trim!Settings /\ Top - 1 \in Trim!Settings BY <1>1
  <2>2. QED BY <1>1, <1>2, <2>1
<1>4. Top \in S BY <1>1, <1>3
<1>5. PICK n \in S : \A m \in S : n <= m BY <1>4, Least
<1>6. n \in Nat /\ n \in Trim!Settings /\ Sum(n) >= SofMin OBVIOUS
<1>7. n # 0 BY <1>1, <1>6
<1>8. Sum(n - 1) \in Nat /\ Sum(n) <= Sum(n - 1) + SofMax - SofMin /\ n - 1 \in Trim!Settings
  BY <1>2, <1>6, <1>7
<1>9. n - 1 \notin S BY <1>5, <1>6
<1>10. Sum(n - 1) < SofMin BY <1>1, <1>6, <1>7, <1>8, <1>9
<1>11. Sum(n) \in SofMin .. SofMax BY <1>1, <1>6, <1>8, <1>10
<1>12. QED BY <1>6, <1>11 DEF Rights, Trim!Right, Sum

\* A setting that is nearer to every right one is not worse.
LEMMA NearerIsNotWorse ==
  ASSUME Top > 0, NEW m \in Nat, NEW n \in Nat,
         \A k \in Rights : \E l \in Rights : Away(l, m) <= Away(k, n)
  PROVE  Trim!Distance(m) <= Trim!Distance(n)
<1> DEFINE D(x) == {Away(k, x) : k \in Rights}
<1>1. Rights # {} /\ Rights \subseteq Nat BY SomeRight, TrimConstants DEF Rights
<1>2. ASSUME NEW x \in Nat
      PROVE  /\ Trim!Distance(x) = Trim!Min(D(x)) /\ D(x) \in SUBSET Nat /\ D(x) # {}
  BY <1>1 DEF Trim!Distance, Rights, Away
<1>3. /\ Trim!Distance(m) \in Nat /\ \A y \in D(m) : Trim!Distance(m) <= y
      /\ Trim!Distance(n) \in D(n)
  <2> HIDE DEF D
  <2>1. QED BY <1>2, LowestOf
<1>4. PICK k \in Rights : Trim!Distance(n) = Away(k, n) BY <1>3
<1>5. PICK l \in Rights : Away(l, m) <= Away(k, n) OBVIOUS
<1>6. Trim!Distance(m) <= Away(l, m) BY <1>3
<1>7. Away(l, m) \in Nat /\ Away(k, n) \in Nat BY <1>1 DEF Away
<1>8. QED BY <1>3, <1>4, <1>5, <1>6, <1>7

Lesser(a, b)  == IF a < b THEN a ELSE b
Greater(a, b) == IF a > b THEN a ELSE b

\* What k frames in a row that the host sent have counted, when the setting was b before
\* the first of them.
Within(sum, k, b) ==
  /\ sum >= (k - 1) * Rate[cal] + Lesser(Rate[b], Rate[cal]) - k * SofJitter
  /\ sum <= (k - 1) * Rate[cal] + Greater(Rate[b], Rate[cal]) + k * SofJitter

TrimIInv ==
  /\ Top > 0 /\ cal \in Trim!Settings /\ before \in Trim!Settings
  /\ frames \in 0 .. SofCount - 1 /\ cycles \in Nat /\ odd \in BOOLEAN /\ strange \in Nat
  /\ frames = 0 => cycles = 0 /\ ~odd /\ before \in Trim!Neighbours(cal)
  /\ frames > 0 => before = cal
  /\ frames > 0 /\ ~odd => \E b \in Trim!Neighbours(cal) : Within(cycles, frames, b)

LEMMA TrimSteps == [BoardNext]_boardVars => [Trim!Next]_trimVars
BY DEF BoardNext, boardVars, trimVars, OnlyEntry, OnlyDevice, OnlyDisk, OnlyHid, OnlyHost,
  OnlyLoader, OnlyTrim, OnlyBaud

LEMMA NeighboursAre ==
  ASSUME NEW n \in Trim!Settings
  PROVE  /\ n \in Trim!Neighbours(n) /\ Trim!Neighbours(n) \subseteq Trim!Settings
         /\ \A d \in {-1, 0, 1} : LET m == (n + d) % (Top + 1)
                                 IN  m \in Trim!Settings /\ n \in Trim!Neighbours(m)
<1>1. Top \in Nat /\ Trim!Settings = 0 .. Top /\ n \in 0 .. Top BY TrimConstants
<1> DEFINE Round(x) == x % (Top + 1)
<1>2. ASSUME NEW x \in -1 .. Top + 1
      PROVE  Round(x) = IF x = -1 THEN Top ELSE IF x = Top + 1 THEN 0 ELSE x
  <2>1. PICK t \in Nat : t = Top BY <1>1
  <2>2. x \in Int /\ -1 <= x /\ x <= t + 1 BY <2>1
  <2>3. x % (t + 1) = IF x = -1 THEN t ELSE IF x = t + 1 THEN 0 ELSE x
    BY ONLY <2>1, <2>2, Wraps
  <2>4. QED BY <2>1, <2>3
<1>3. \A k : Trim!Neighbours(k) = {k, Round(k + 1), Round(k - 1)}
  BY DEF Trim!Neighbours, Top
<1> DEFINE Next1 == IF n = Top THEN 0 ELSE n + 1
           Prev1 == IF n = 0 THEN Top ELSE n - 1
<1>4. Round(n + 1) = Next1 /\ Round(n - 1) = Prev1 /\ Round(n) = n
  <2> HIDE DEF Round
  <2>1. n + 1 \in -1 .. Top + 1 /\ n - 1 \in -1 .. Top + 1 /\ n \in -1 .. Top + 1 BY <1>1
  <2>2. QED BY <1>1, <1>2, <2>1
<1>5. Next1 \in 0 .. Top /\ Prev1 \in 0 .. Top BY <1>1
<1>6. Round(Next1 - 1) = n /\ Round(Prev1 + 1) = n
  <2> HIDE DEF Round
  <2>1. Next1 - 1 \in -1 .. Top + 1 /\ Prev1 + 1 \in -1 .. Top + 1 BY <1>1
  <2>2. Next1 - 1 = (IF n = Top THEN -1 ELSE n) /\ Prev1 + 1 = (IF n = 0 THEN Top + 1 ELSE n) BY <1>1
  <2>3. QED BY <1>1, <1>2, <2>1, <2>2
<1>7. ASSUME NEW d \in {-1, 0, 1}
      PROVE  Round(n + d) \in Trim!Settings /\ n \in Trim!Neighbours(Round(n + d))
  <2>1. n + d = (IF d = 0 THEN n ELSE IF d = 1 THEN n + 1 ELSE n - 1) BY <1>1
  <2> HIDE DEF Round, Next1, Prev1
  <2>2. Round(n + d) = IF d = 0 THEN n ELSE IF d = 1 THEN Next1 ELSE Prev1 BY <1>4, <2>1
  <2>3. QED BY <1>1, <1>3, <1>5, <1>6, <2>2
<1>8. QED
  <2>1. n \in Trim!Neighbours(n) /\ Trim!Neighbours(n) \subseteq Trim!Settings
    <3> HIDE DEF Round, Next1, Prev1
    <3>1. QED BY <1>1, <1>3, <1>4, <1>5
  <2>2. QED BY <1>7, <2>1

\* What a frame counts.
LEMMA CountedWithin ==
  ASSUME TrimIInv, NEW n \in Trim!Counted
  PROVE  /\ n \in Nat
         /\ n >= Lesser(Rate[before], Rate[cal]) - SofJitter
         /\ n <= Greater(Rate[before], Rate[cal]) + SofJitter
<1>1. PICK a \in Nat, c \in Nat, j \in Nat : a = Rate[before] /\ c = Rate[cal] /\ j = SofJitter
  BY TrimConstants DEF TrimIInv
<1>2. n \in Trim!Max({0, Trim!Min({a, c}) - j}) .. Trim!Max({a, c}) + j BY <1>1 DEF Trim!Counted
<1>3. Trim!Min({a, c}) = Lesser(a, c) /\ Trim!Max({a, c}) = Greater(a, c)
  BY LowerOf, HigherOf DEF Lesser, Greater
<1>4. Lesser(a, c) \in Nat /\ Greater(a, c) \in Nat BY DEF Lesser, Greater
<1>5. PICK x \in Int : x = Lesser(a, c) - j BY <1>4
<1>6. Trim!Max({0, x}) = IF 0 > x THEN 0 ELSE x BY HigherOf
<1>7. n \in (IF 0 > x THEN 0 ELSE x) .. Greater(a, c) + j BY <1>2, <1>3, <1>5, <1>6
<1>8. n \in Nat /\ n >= x /\ n <= Greater(a, c) + j BY <1>4, <1>7
<1>9. QED BY <1>1, <1>5, <1>8

\* The frames with one more.
LEMMA OneMoreFrame ==
  ASSUME TrimIInv, ~odd, NEW n \in Trim!Counted
  PROVE  \E b \in Trim!Neighbours(cal) : Within(cycles + n, frames + 1, b)
<1>1. PICK c \in Nat, j \in Nat, k \in Nat, s \in Nat :
        c = Rate[cal] /\ j = SofJitter /\ k = frames /\ s = cycles
  <2>1. Rate[cal] \in Nat /\ SofJitter \in Nat /\ frames \in Nat /\ cycles \in Nat
    BY TrimConstants DEF TrimIInv
  <2>2. QED BY <2>1
<1>2. /\ n \in Nat
      /\ n >= Lesser(Rate[before], c) - j /\ n <= Greater(Rate[before], c) + j
  BY <1>1, CountedWithin
<1>3. ASSUME NEW b \in Trim!Settings
      PROVE  Rate[b] \in Nat /\ Lesser(Rate[b], c) \in Nat /\ Greater(Rate[b], c) \in Nat
  BY TrimConstants DEF Lesser, Greater
<1>4. CASE k = 0
  <2>1. before \in Trim!Neighbours(cal) /\ s = 0 /\ before \in Trim!Settings BY <1>1, <1>4 DEF TrimIInv
  <2>2. PICK lo \in Nat, hi \in Nat : lo = Lesser(Rate[before], c) /\ hi = Greater(Rate[before], c)
    BY <1>3, <2>1
  <2>3. s + n >= (k + 1 - 1) * c + lo - (k + 1) * j /\ s + n <= (k + 1 - 1) * c + hi + (k + 1) * j
    BY <1>2, <1>4, <2>1, <2>2
  <2>4. Within(cycles + n, frames + 1, before) BY <1>1, <2>2, <2>3 DEF Within
  <2>5. QED BY <2>1, <2>4
<1>5. CASE k > 0
  <2>1. before = cal BY <1>1, <1>5 DEF TrimIInv
  <2>2. PICK b \in Trim!Neighbours(cal) : Within(cycles, frames, b) BY <1>1, <1>5 DEF TrimIInv
  <2>3. b \in Trim!Settings BY NeighboursAre DEF TrimIInv
  <2>4. PICK lo \in Nat, hi \in Nat : lo = Lesser(Rate[b], c) /\ hi = Greater(Rate[b], c)
    BY <1>3, <2>3
  <2>5. s >= (k - 1) * c + lo - k * j /\ s <= (k - 1) * c + hi + k * j
    BY <1>1, <2>2, <2>4 DEF Within
  <2>6. n >= c - j /\ n <= c + j
    <3>1. Lesser(c, c) = c /\ Greater(c, c) = c BY DEF Lesser, Greater
    <3>2. QED BY <1>1, <1>2, <2>1, <3>1
  <2>7. PICK y \in Nat, z \in Nat : y = (k - 1) * c /\ z = k * j
    <3>1. k - 1 \in Nat BY <1>5
    <3>2. (k - 1) * c \in Nat /\ k * j \in Nat BY <3>1
    <3>3. QED BY <3>2
  <2>8. (k + 1 - 1) * c = y + c /\ (k + 1) * j = z + j BY <2>7
  <2>9. s + n >= (k + 1 - 1) * c + lo - (k + 1) * j /\ s + n <= (k + 1 - 1) * c + hi + (k + 1) * j
    BY <1>2, <2>5, <2>6, <2>7, <2>8
  <2>10. Within(cycles + n, frames + 1, b) BY <1>1, <2>4, <2>9 DEF Within
  <2>11. QED BY <2>10
<1>6. QED BY <1>4, <1>5

LEMMA InitTrim == Trim!Init => TrimIInv
<1> SUFFICES ASSUME Trim!Init PROVE TrimIInv OBVIOUS
<1>1. cal \in Trim!Settings \ {0, Top} /\ before = cal /\ frames = 0 /\ cycles = 0 /\ odd = FALSE
      /\ strange = 0
  BY DEF Trim!Init, Top
<1>2. Top > 0 BY <1>1, TrimConstants
<1>3. cal \in Trim!Settings /\ cal \in Trim!Neighbours(cal) BY <1>1, NeighboursAre
<1>4. 0 \in 0 .. SofCount - 1 BY TrimConstants
<1>5. odd \in BOOLEAN /\ ~odd BY <1>1
<1>6. before \in Trim!Settings /\ before \in Trim!Neighbours(cal) BY <1>1, <1>3
<1>7. frames \in 0 .. SofCount - 1 /\ cycles \in Nat /\ ~(frames > 0) /\ cycles = 0 /\ strange \in Nat
  BY <1>1, <1>4
<1>8. QED BY <1>2, <1>3, <1>5, <1>6, <1>7 DEF TrimIInv

LEMMA StepIs == \A s : Trim!Step(s) \in {-1, 0, 1}
BY DEF Trim!Step

\* The handler, whatever the frame has counted.
LEMMA TrimHandles ==
  ASSUME TrimIInv, NEW n \in Nat, Trim!OscSofCb(n), odd' \in BOOLEAN, strange' \in Nat, frames' = 0 => ~odd',
         ~odd' => frames' = 0 \/ (~odd /\ n \in Trim!Counted)
  PROVE  TrimIInv'
<1>1. before' = cal /\ cal \in Trim!Settings /\ SofCount \in Nat \ {0} /\ cycles \in Nat
      /\ frames \in 0 .. SofCount - 1
  BY TrimConstants DEF Trim!OscSofCb, TrimIInv
<1>2. CASE frames + 1 < SofCount
  <2>1. frames' = frames + 1 /\ cycles' = cycles + n /\ cal' = cal
    BY <1>1, <1>2 DEF Trim!OscSofCb
  <2>2. ASSUME ~odd' PROVE \E b \in Trim!Neighbours(cal') : Within(cycles, frames, b)'
    <3>1. ~odd /\ n \in Trim!Counted BY <1>1, <2>1, <2>2
    <3>2. PICK b \in Trim!Neighbours(cal) : Within(cycles + n, frames + 1, b) BY <3>1, OneMoreFrame
    <3>3. Within(cycles, frames, b)' BY <2>1, <3>2 DEF Within, Lesser, Greater
    <3>4. QED BY <2>1, <3>3
  <2>3. Trim!Neighbours(cal)' = Trim!Neighbours(cal') BY DEF Trim!Neighbours
  <2>4. frames' \in 0 .. SofCount - 1 /\ frames' > 0 /\ cycles' \in Nat BY <1>1, <1>2, <2>1
  <2>5. QED BY <1>1, <2>1, <2>2, <2>3, <2>4 DEF TrimIInv
<1>3. CASE frames + 1 = SofCount
  <2>1. frames' = 0 /\ cycles' = 0 /\ cal' = (cal + Trim!Step(cycles + n)) % (Top + 1)
    BY <1>1, <1>3 DEF Trim!OscSofCb, Top
  <2>2. cal' \in Trim!Settings /\ cal \in Trim!Neighbours(cal') BY <1>1, <2>1, StepIs, NeighboursAre
  <2>3. Trim!Neighbours(cal)' = Trim!Neighbours(cal') BY DEF Trim!Neighbours
  <2>4. QED BY <1>1, <2>1, <2>2, <2>3 DEF TrimIInv
<1>4. QED BY <1>2, <1>3 DEF Trim!OscSofCb

LEMMA NextTrim ==
  ASSUME TrimIInv, [Trim!Next]_trimVars PROVE TrimIInv'
<1>1. CASE Trim!Frame
  <2>1. PICK n \in Trim!Counted : Trim!OscSofCb(n) BY <1>1 DEF Trim!Frame
  <2>2. n \in Nat BY CountedWithin
  <2>3. odd' = (odd /\ frames' # 0) BY <1>1 DEF Trim!Frame
  <2>4. odd \in BOOLEAN /\ strange' \in Nat BY <1>1 DEF TrimIInv, Trim!Frame
  <2>5. odd' \in BOOLEAN /\ (frames' = 0 => ~odd') /\ (~odd' => frames' = 0 \/ ~odd)
    BY <2>3, <2>4
  <2>6. QED BY <2>1, <2>2, <2>4, <2>5, TrimHandles
<1>2. CASE Trim!StrangeFrame
  <2>1. PICK n \in Strange : Trim!OscSofCb(n) BY <1>2 DEF Trim!StrangeFrame
  <2>2. n \in Nat BY TrimConstants
  <2>3. odd' = (frames' # 0) BY <1>2 DEF Trim!StrangeFrame
  <2>4. odd' \in BOOLEAN /\ (frames' = 0 => ~odd') /\ (~odd' => frames' = 0) BY <2>3
  <2>5. strange' \in Nat BY <1>2 DEF TrimIInv, Trim!StrangeFrame
  <2>6. QED BY <2>1, <2>2, <2>4, <2>5, TrimHandles
<1>3. CASE UNCHANGED trimVars
  BY <1>3 DEF trimVars, TrimIInv, Within, Trim!Neighbours
<1>4. QED BY <1>1, <1>2, <1>3 DEF Trim!Next

\* Ten frames that the host sent.
LEMMA TenFrames ==
  ASSUME Trim!TrimMargins, TrimIInv, ~odd, NEW n \in Trim!Counted, SofCount = frames + 1
  PROVE  LET s == cycles + n
         IN  /\ s \in Nat
             /\ s < SofMin => SofCount * Rate[cal] < SofMin \/ cal + 1 \in Rights
             /\ s > SofMax => SofCount * Rate[cal] > SofMax \/ cal - 1 \in Rights
<1> DEFINE s == cycles + n
<1>1. PICK b \in Trim!Neighbours(cal) : Within(s, frames + 1, b) BY OneMoreFrame
<1>2. s >= Trim!Fewest(b, cal) /\ s <= Trim!Most(b, cal)
  <2>1. Lesser(Rate[b], Rate[cal]) = (IF Rate[b] < Rate[cal] THEN Rate[b] ELSE Rate[cal])
        /\ Greater(Rate[b], Rate[cal]) = (IF Rate[b] > Rate[cal] THEN Rate[b] ELSE Rate[cal])
    BY DEF Lesser, Greater
  <2>2. Within(s, SofCount, b) BY <1>1
  <2> HIDE DEF s
  <2>3. QED BY <2>1, <2>2 DEF Within, Trim!Fewest, Trim!Most
<1>3. /\ SofCount * Rate[cal] >= SofMin /\ cal + 1 \notin Rights => Trim!Fewest(b, cal) >= SofMin
      /\ SofCount * Rate[cal] <= SofMax /\ cal - 1 \notin Rights => Trim!Most(b, cal) <= SofMax
  <2>1. cal \in Trim!Settings BY DEF TrimIInv
  <2> HIDE DEF s
  <2>2. QED BY <1>1, <2>1 DEF Trim!TrimMargins, Rights
<1>4. /\ s \in Nat /\ SofMin \in Nat /\ SofMax \in Nat /\ SofCount * Rate[cal] \in Nat
  <2>1. Rate[cal] \in Nat /\ cycles \in Nat /\ n \in Nat BY TrimConstants, CountedWithin DEF TrimIInv
  <2>2. QED BY <2>1, TrimConstants
<1>5. PICK a \in Int, c \in Int : a = Trim!Fewest(b, cal) /\ c = Trim!Most(b, cal)
  <2>1. b \in Trim!Settings /\ cal \in Trim!Settings BY NeighboursAre DEF TrimIInv
  <2>2. PICK x \in Nat, y \in Nat, j \in Nat, k \in Nat : x = Rate[b] /\ y = Rate[cal] /\ j = SofJitter /\ k = SofCount
    BY <2>1, TrimConstants
  <2>3. QED BY <2>2 DEF Trim!Fewest, Trim!Most
<1> HIDE DEF s
<1>6. QED BY <1>2, <1>3, <1>4, <1>5 DEF s

\* The handler moves the setting towards the right ones.
LEMMA StepIsNotWorse ==
  ASSUME Trim!TrimMargins, TrimIInv, ~odd, NEW n \in Trim!Counted, SofCount = frames + 1,
         cal' = (cal + Trim!Step(cycles + n)) % (Top + 1)
  PROVE  Trim!Distance(cal') <= Trim!Distance(cal)
<1>1. /\ Top \in Nat /\ Top > 0 /\ Trim!Settings = 0 .. Top /\ cal \in 0 .. Top
      /\ SofMin \in Nat /\ SofMax \in Nat
  BY TrimConstants DEF TrimIInv
<1>2. PICK s \in Nat : s = cycles + n BY TenFrames
<1>3. /\ s < SofMin => SofCount * Rate[cal] < SofMin \/ cal + 1 \in Rights
      /\ s > SofMax => SofCount * Rate[cal] > SofMax \/ cal - 1 \in Rights
  BY <1>2, TenFrames
<1>4. Rights \subseteq 0 .. Top BY <1>1 DEF Rights
<1>5. ASSUME NEW k \in Rights
      PROVE  /\ SofMin <= SofCount * Rate[k] /\ SofCount * Rate[k] <= SofMax
             /\ SofCount * Rate[cal] < SofMin => k > cal
             /\ SofCount * Rate[cal] > SofMax => k < cal
  <2>1. k \in 0 .. Top /\ SofCount * Rate[k] \in SofMin .. SofMax BY <1>4 DEF Rights, Trim!Right
  <2>2. k > cal => SofCount * Rate[cal] < SofCount * Rate[k] BY <1>1, <2>1, SumGrows
  <2>3. k < cal => SofCount * Rate[k] < SofCount * Rate[cal] BY <1>1, <2>1, SumGrows
  <2>4. PICK x \in Nat, y \in Nat : x = SofCount * Rate[k] /\ y = SofCount * Rate[cal]
    <3>1. Rate[k] \in Nat /\ Rate[cal] \in Nat /\ SofCount \in Nat BY <1>1, <2>1, TrimConstants
    <3>2. QED BY <3>1
  <2>5. k = cal => x = y BY <2>4
  <2>6. x >= SofMin /\ x <= SofMax BY <1>1, <2>1, <2>4
  <2>7. (y < SofMin => k > cal) /\ (y > SofMax => k < cal) BY <1>1, <2>1, <2>2, <2>3, <2>4, <2>5, <2>6
  <2>8. QED BY <2>4, <2>6, <2>7
<1>6. PICK z \in Rights : TRUE BY <1>1, SomeRight
<1>7. ASSUME NEW m \in 0 .. Top, cal' = m,
             \/ m = cal
             \/ m \in Rights
             \/ m = cal + 1 /\ \A k \in Rights : k > cal
             \/ m = cal - 1 /\ \A k \in Rights : k < cal
      PROVE  Trim!Distance(cal') <= Trim!Distance(cal)
  <2>1. \A k \in Rights : \E l \in Rights : Away(l, m) <= Away(k, cal)
    <3> TAKE k \in Rights
    <3>1. k \in Nat /\ cal \in Nat /\ m \in Nat BY <1>1, <1>4
    <3>2. CASE m \in Rights
      <4>1. Away(m, m) = 0 /\ Away(k, cal) \in Nat BY <3>1 DEF Away
      <4>2. QED BY <3>1, <3>2, <4>1
    <3>3. CASE m \notin Rights
      <4>1. Away(k, m) <= Away(k, cal) BY <1>7, <3>1, <3>3 DEF Away
      <4>2. QED BY <4>1
    <3>4. QED BY <3>2, <3>3
  <2>2. m \in Nat /\ cal \in Nat BY <1>1
  <2>3. Trim!Distance(m) <= Trim!Distance(cal) BY <1>1, <2>1, <2>2, NearerIsNotWorse
  <2>4. QED BY <1>7, <2>3
<1> DEFINE Moved(x) == (cal + x) % (Top + 1)
<1>8. cal' = Moved(Trim!Step(s)) BY <1>2
<1>9. ASSUME NEW x \in {-1, 0, 1}, cal + x \in 0 .. Top PROVE Moved(x) = cal + x
  <2>1. PICK t \in Nat, c \in Nat : t = Top /\ c = cal BY <1>1
  <2>2. c + x \in 0 .. t BY <1>9, <2>1
  <2>3. (c + x) % (t + 1) = c + x BY ONLY <2>2
  <2>4. QED BY <2>1, <2>3
<1> HIDE DEF Moved
<1>10. CASE s < SofMin
  <2>1. Trim!Step(s) = 1 BY <1>10 DEF Trim!Step
  <2>2. cal + 1 \in Rights \/ \A k \in Rights : k > cal BY <1>3, <1>5, <1>10
  <2>3. cal + 1 \in 0 .. Top BY <1>1, <1>4, <1>6, <2>2
  <2>4. cal' = cal + 1 BY <1>8, <1>9, <2>1, <2>3
  <2>5. QED BY <1>7, <2>2, <2>3, <2>4
<1>11. CASE s > SofMax /\ ~(s < SofMin)
  <2>1. Trim!Step(s) = -1 BY <1>11 DEF Trim!Step
  <2>2. cal - 1 \in Rights \/ \A k \in Rights : k < cal BY <1>3, <1>5, <1>11
  <2>3. cal + (-1) = cal - 1 /\ cal - 1 \in 0 .. Top BY <1>1, <1>4, <1>6, <2>2
  <2>4. cal' = cal - 1 BY <1>8, <1>9, <2>1, <2>3
  <2>5. QED BY <1>7, <2>2, <2>3, <2>4
<1>12. CASE ~(s > SofMax) /\ ~(s < SofMin)
  <2>1. Trim!Step(s) = 0 BY <1>12 DEF Trim!Step
  <2>2. cal + 0 = cal BY <1>1
  <2>3. cal' = cal BY <1>1, <1>8, <1>9, <2>1, <2>2
  <2>4. QED BY <1>1, <1>7, <2>3
<1>13. QED BY <1>10, <1>11, <1>12

LEMMA NeverWorseStep ==
  ASSUME Trim!TrimMargins, TrimIInv, [Trim!Next]_trimVars, frames' = 0, ~odd, UNCHANGED strange
  PROVE  Trim!Distance(cal') <= Trim!Distance(cal)
<1>1. cal \in Nat /\ Top > 0 BY TrimConstants DEF TrimIInv
<1>2. CASE cal' = cal
  <2>1. \A k \in Rights : \E l \in Rights : Away(l, cal) <= Away(k, cal)
    <3> TAKE k \in Rights
    <3>1. k \in Nat BY TrimConstants DEF Rights
    <3>2. Away(k, cal) \in Nat BY <1>1, <3>1 DEF Away
    <3>3. QED BY <3>2
  <2>2. Trim!Distance(cal) <= Trim!Distance(cal) BY <1>1, <2>1, NearerIsNotWorse
  <2>3. QED BY <1>2, <2>2
<1>3. CASE cal' # cal
  <2>1. Trim!Frame
    <3>1. MaxStrange \in Nat /\ ~Trim!StrangeFrame
      <4>1. strange' = strange /\ strange \in Nat BY DEF TrimIInv
      <4>2. QED BY <4>1, TrimConstants DEF Trim!StrangeFrame
    <3>2. QED BY <1>3, <3>1 DEF trimVars, Trim!Next
  <2>2. PICK n \in Trim!Counted : Trim!OscSofCb(n) BY <2>1 DEF Trim!Frame
  <2>3. frames + 1 = SofCount /\ cal' = (cal + Trim!Step(cycles + n)) % (Top + 1)
    BY <1>3, <2>2 DEF Trim!OscSofCb, Top
  <2>4. QED BY <2>2, <2>3, StepIsNotWorse
<1>4. QED BY <1>2, <1>3

(* The clocks of the boot loader, when the frames and the edges are counted   *)
(* well enough (TrimMargins, BaudMargins): ten frames in a row that the host   *)
(* sent never move the oscillator away from its frequency (osc_sof_cb), and    *)
(* the UART gets the rate of the host, from no more than two INITs if the      *)
(* loader listened in time, and also if it did not, unless the last two gaps   *)
(* between INITs were alike (waitForInit) - for any rates of the settings, any *)
(* length of a bit and any gaps.                                              *)
THEOREM ClocksAlwaysKeepTime ==
  ASSUME Trim!TrimMargins, Baud!BaudMargins
  PROVE  BoardSpec => KeepsTime
<1>1. BoardInit => TrimIInv /\ BaudIInv BY InitTrim, InitBaud DEF BoardInit
<1>2. TrimIInv /\ BaudIInv /\ [BoardNext]_boardVars => (TrimIInv /\ BaudIInv)'
  BY TrimSteps, NextTrim, BaudSteps, NextBaud
<1>3. TrimIInv /\ [BoardNext]_boardVars
      => [frames' = 0 /\ ~odd /\ UNCHANGED strange => Trim!Distance(cal') <= Trim!Distance(cal)]_trimVars
  BY TrimSteps, NeverWorseStep
<1>4. BaudIInv => Baud!BaudIsRight /\ Baud!TwoInits BY DEF BaudIInv
<1>5. QED BY <1>1, <1>2, <1>3, <1>4, PTL DEF BoardSpec, KeepsTime, Trim!NeverWorse, Trim!vars, trimVars

=============================================================================
