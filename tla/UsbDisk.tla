------------------------------- MODULE UsbDisk -------------------------------
(***************************************************************************)
(* The RAM disk of examples/usb/cdc_msc (msc_disk.c): the callbacks the USB  *)
(* stack makes for the SCSI commands of the host.                           *)
(*                                                                         *)
(* The stack, which is not in the repository, handles one command at a time  *)
(* and calls tud_msc_read10_cb and tud_msc_write10_cb once for each block    *)
(* (CFG_TUD_MSC_EP_BUFSIZE is the size of a block, so offset is 0); a        *)
(* negative answer ends the command.  The host may ask for any blocks, and   *)
(* the device may be unplugged between two of them.                         *)
(***************************************************************************)
EXTENDS Naturals, Sequences

CONSTANTS
  DISK_BLOCK_NUM,  \* blocks of the disk (16)
  Behind,          \* bound: blocks of memory after the disk that are looked at
  Contents,        \* what a block may hold
  Image,           \* what each block of the image in the program holds
  MaxLength        \* bound: blocks of a command

UsbDiskAssumption ==
  /\ DISK_BLOCK_NUM \in Nat \ {0} /\ Behind \in Nat /\ MaxLength \in Nat \ {0}
  /\ Image \in [0 .. DISK_BLOCK_NUM - 1 -> Contents]

Disk   == 0 .. DISK_BLOCK_NUM - 1
Memory == 0 .. DISK_BLOCK_NUM + Behind - 1
Other  == "other variables"              \* what lies after the disk

Commands == {"inquiry", "test_unit_ready", "read_capacity", "start_stop", "read10", "write10",
             "other"}
NoCommand == [op |-> "none", lba |-> 0, n |-> 0, data |-> Other, start |-> FALSE, eject |-> FALSE]

VARIABLES
  memory,    \* msc_disk, and what lies after it
  ejected,
  sense,     \* the sense key the stack keeps: "none", "not_ready", "illegal_request"
  cmd,       \* the command of the host
  done,      \* blocks of it that were read or written
  status,    \* "busy", or how the last command ended: "passed", "failed", "unplugged"
  got,       \* what the last command has read
  kept       \* history: what the host must find in each block

vars == <<memory, ejected, sense, cmd, done, status, got, kept>>

Init ==
  /\ memory = [b \in Memory |-> IF b \in Disk THEN Image[b] ELSE Other]
  /\ ejected = FALSE /\ sense = "none"
  /\ cmd = NoCommand /\ done = 0 /\ status = "passed" /\ got = <<>>
  /\ kept = Image

-----------------------------------------------------------------------------
(* The host and the stack.                                                  *)
Asks(c) ==
  /\ status # "busy" /\ status' = "busy"
  /\ cmd' = c /\ done' = 0 /\ got' = <<>>
  /\ UNCHANGED <<memory, ejected, sense, kept>>

HostCommands ==
  \/ \E op \in Commands \ {"start_stop", "read10", "write10"} : Asks([NoCommand EXCEPT !.op = op])
  \/ \E start, eject \in BOOLEAN :
       Asks([NoCommand EXCEPT !.op = "start_stop", !.start = start, !.eject = eject])
  \/ \E lba \in Memory, n \in 1 .. MaxLength :
       /\ lba + n - 1 \in Memory
       /\ \/ Asks([NoCommand EXCEPT !.op = "read10", !.lba = lba, !.n = n])
          \/ \E d \in Contents :
               Asks([NoCommand EXCEPT !.op = "write10", !.lba = lba, !.n = n, !.data = d])

\* the bus is reset; the memory of the device stays
Unplugged ==
  /\ status = "busy" /\ status' = "unplugged" /\ sense' = "none"
  /\ UNCHANGED <<memory, ejected, cmd, done, got, kept>>

Handles(op) == status = "busy" /\ cmd.op = op
Ends(s) == status' = s /\ UNCHANGED <<cmd, done, got, kept>>

-----------------------------------------------------------------------------
(* Callbacks that tell what the disk is; nothing depends on their answers.   *)
TudMscInquiryCb  == Handles("inquiry") /\ Ends("passed") /\ UNCHANGED <<memory, ejected, sense>>
TudMscCapacityCb == Handles("read_capacity") /\ Ends("passed") /\ UNCHANGED <<memory, ejected, sense>>

\* commands the stack does not know
TudMscScsiCb ==
  /\ Handles("other") /\ Ends("failed") /\ sense' = "illegal_request"
  /\ UNCHANGED <<memory, ejected>>

TudMscTestUnitReadyCb ==
  /\ Handles("test_unit_ready") /\ UNCHANGED <<memory, ejected>>
  /\ \/ ejected /\ sense' = "not_ready" /\ Ends("failed")
     \/ ~ejected /\ UNCHANGED sense /\ Ends("passed")

TudMscStartStopCb ==
  /\ Handles("start_stop") /\ Ends("passed")
  /\ ejected' = (ejected \/ (cmd.eject /\ ~cmd.start))
  /\ UNCHANGED <<memory, sense>>

-----------------------------------------------------------------------------
(* Blocks.                                                                  *)
Lba == cmd.lba + done                    \* the block of the next call

\* the callback answers -1
OutOfDisk(op) ==
  /\ Handles(op) /\ done < cmd.n /\ Lba >= DISK_BLOCK_NUM
  /\ Ends("failed") /\ UNCHANGED <<memory, ejected, sense>>

BlocksDone(op) ==
  /\ Handles(op) /\ done = cmd.n
  /\ Ends("passed") /\ UNCHANGED <<memory, ejected, sense>>

TudMscRead10Cb ==
  \/ /\ Handles("read10") /\ done < cmd.n /\ Lba < DISK_BLOCK_NUM
     /\ got' = Append(got, memory[Lba]) /\ done' = done + 1
     /\ UNCHANGED <<memory, ejected, sense, cmd, status, kept>>
  \/ OutOfDisk("read10")

\* one block too many is taken for the disk's
TudMscWrite10Cb_OffByOne ==
  \/ /\ Handles("write10") /\ done < cmd.n /\ Lba <= DISK_BLOCK_NUM
     /\ memory' = [memory EXCEPT ![Lba] = cmd.data] /\ done' = done + 1
     /\ kept' = IF Lba \in Disk THEN [kept EXCEPT ![Lba] = cmd.data] ELSE kept
     /\ UNCHANGED <<ejected, sense, cmd, status, got>>
  \/ OutOfDisk("write10")
TudMscWrite10Cb ==
  \/ /\ Handles("write10") /\ done < cmd.n /\ Lba < DISK_BLOCK_NUM
     /\ memory' = [memory EXCEPT ![Lba] = cmd.data] /\ done' = done + 1
     /\ kept' = [kept EXCEPT ![Lba] = cmd.data]
     /\ UNCHANGED <<ejected, sense, cmd, status, got>>
  \/ OutOfDisk("write10")

Callbacks ==
  \/ TudMscInquiryCb \/ TudMscCapacityCb \/ TudMscScsiCb \/ TudMscTestUnitReadyCb \/ TudMscStartStopCb
  \/ TudMscRead10Cb \/ TudMscWrite10Cb \/ BlocksDone("read10") \/ BlocksDone("write10")

Next == HostCommands \/ Unplugged \/ Callbacks
Spec == Init /\ [][Next]_vars

-----------------------------------------------------------------------------
\* A read returns what was last written to its blocks, or the image, also after
\* commands that failed or were cut off by unplugging; a command passes if and only
\* if all its blocks are on the disk, and what lies after the disk is left alone.
DiskIsAsWritten ==
  /\ \A b \in Memory \ Disk : memory[b] = Other
  /\ cmd.op = "read10" => got = [k \in 1 .. done |-> kept[cmd.lba + k - 1]]
  /\ cmd.op \in {"read10", "write10"} =>
       /\ status = "passed" => done = cmd.n /\ cmd.lba + cmd.n - 1 \in Disk
       /\ status = "failed" => cmd.lba + cmd.n - 1 \notin Disk
=============================================================================
