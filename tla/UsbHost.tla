------------------------------- MODULE UsbHost -------------------------------
(***************************************************************************)
(* The rest of examples/usb/host_cdc_msc_hid: its loop, the characters that  *)
(* go from the console to a serial device and back (cdc_app.c), and the      *)
(* inquiry of memory sticks (msc_app.c).  Keyboards and mice are module      *)
(* UsbHid.                                                                  *)
(*                                                                         *)
(* The stack, which is not in the repository, keeps of what is written what  *)
(* fits its FIFO, sends it a packet at a time, and carries out an inquiry in *)
(* two steps, the data and then the status, which those of two sticks at a   *)
(* hub may take alternately.                                                *)
(***************************************************************************)
EXTENDS Naturals, Sequences, FiniteSetsExt, Filters

CONSTANTS
  BufSize,   \* characters cdc_app_task takes at a time (64)
  Fifo,      \* the transmit FIFO of the stack (64)
  Sticks,    \* memory sticks
  Loads      \* bounds: characters and NULs typed, packets the device sends, whether
             \* it is unplugged, and the sticks there are

UsbHostAssumption ==
  /\ {BufSize, Fifo} \subseteq Nat \ {0}
  /\ Loads \subseteq [chars : Nat, nuls : Nat, packets : Nat, unplugs : BOOLEAN, sticks : SUBSET Sticks]

NUL     == 0
NoStick == "none"

VARIABLES
  load,      \* the bounds of this behaviour
  pc,        \* where the loop is: "stack", "cdc"
  mounted,   \* tuh_cdc_mounted
  input,     \* what was typed and not read: n is the n-th character, or NUL
  typed,     \* characters typed so far
  nuls,      \* NULs typed so far
  tx, out,   \* the FIFO, and the packet for the device
  taken,     \* the device has taken it and tuh_task has not seen that yet
  received,  \* history: what the device got
  lost,      \* history: the FIFO was full, or there was no device
  rx,        \* a packet of the device came and tuh_task has not handled it
  packets,   \* packets it has sent so far
  stick,     \* stick -> "gone", "plugged", "asked", "data", "fails", "known", "failed"
  inquiry_resp, \* the stick whose answer is in it
  shown,     \* stick -> the stick whose name was printed for it
  crossed    \* history: sticks whose inquiry went on while another's did

outVars == <<input, typed, nuls, tx, out, taken, received, lost>>
inVars  == <<rx, packets>>
cdcVars == <<mounted, outVars, inVars>>
mscVars == <<stick, inquiry_resp, shown, crossed>>
vars    == <<load, pc, cdcVars, mscVars>>

Smaller(a, b) == IF a < b THEN a ELSE b

\* how many characters of a text come before its first NUL
BeforeNul(text) == Min({Len(text)} \cup {k - 1 : k \in {k \in DOMAIN text : text[k] = NUL}})

Init ==
  /\ load \in Loads /\ pc = "stack"
  /\ mounted = FALSE /\ input = <<>> /\ typed = 0 /\ nuls = 0
  /\ tx = <<>> /\ out = <<>> /\ taken = FALSE /\ received = <<>> /\ lost = FALSE
  /\ rx = FALSE /\ packets = 0
  /\ stick = [s \in Sticks |-> "gone"] /\ inquiry_resp = NoStick
  /\ shown = [s \in Sticks |-> NoStick] /\ crossed = {}

-----------------------------------------------------------------------------
(* The user, the serial device and the sticks.                              *)
Types ==
  /\ \/ typed < load.chars /\ typed' = typed + 1 /\ input' = Append(input, typed') /\ UNCHANGED nuls
     \/ nuls < load.nuls /\ nuls' = nuls + 1 /\ input' = Append(input, NUL) /\ UNCHANGED typed
  /\ UNCHANGED <<load, pc, mounted, tx, out, taken, received, lost, inVars, mscVars>>

Takes ==
  /\ out # <<>> /\ ~taken /\ taken' = TRUE /\ received' = received \o out
  /\ UNCHANGED <<load, pc, mounted, input, typed, nuls, tx, out, lost, inVars, mscVars>>

Says ==
  /\ mounted /\ ~rx /\ rx' = TRUE
  /\ packets < load.packets /\ packets' = packets + 1
  /\ UNCHANGED <<load, pc, mounted, outVars, mscVars>>

Plugs ==
  \E s \in load.sticks :
    /\ stick' = [stick EXCEPT ![s] = IF @ = "gone" THEN "plugged" ELSE "gone"]
    /\ shown' = [shown EXCEPT ![s] = NoStick]
    /\ crossed' = crossed \ {s}
    /\ UNCHANGED <<load, pc, cdcVars, inquiry_resp>>

\* the data of the answer, or a failure before it
Answers ==
  \E s \in load.sticks :
    /\ stick[s] = "asked"
    /\ \/ stick' = [stick EXCEPT ![s] = "data"] /\ inquiry_resp' = s
       \/ stick' = [stick EXCEPT ![s] = "fails"] /\ UNCHANGED inquiry_resp
    /\ UNCHANGED <<load, pc, cdcVars, shown, crossed>>

-----------------------------------------------------------------------------
(* tuh_task: the serial device.                                             *)
CdcMounts ==
  /\ pc = "stack" /\ ~mounted /\ mounted' = TRUE               \* tuh_cdc_mount_cb
  /\ UNCHANGED <<load, pc, input, typed, nuls, tx, out, taken, received, lost, inVars, mscVars>>

CdcUnmounts ==
  /\ pc = "stack" /\ mounted /\ load.unplugs /\ mounted' = FALSE \* tuh_cdc_umount_cb
  /\ tx' = <<>> /\ out' = <<>> /\ taken' = FALSE /\ rx' = FALSE
  /\ lost' = (lost \/ tx # <<>> \/ (out # <<>> /\ ~taken))
  /\ UNCHANGED <<load, pc, input, typed, nuls, received, packets, mscVars>>

\* the packet is printed, up to the first NUL
TuhCdcRxCb ==
  /\ pc = "stack" /\ rx /\ rx' = FALSE
  /\ UNCHANGED <<load, pc, mounted, outVars, packets, mscVars>>

PacketWent ==
  /\ pc = "stack" /\ taken /\ taken' = FALSE
  /\ out' = tx /\ tx' = <<>>
  /\ UNCHANGED <<load, pc, mounted, input, typed, nuls, received, lost, inVars, mscVars>>

-----------------------------------------------------------------------------
(* tuh_task: the sticks.                                                    *)
Asking(s) == stick[s] \in {"asked", "data", "fails"}

TuhMscMountCb ==
  \E s \in load.sticks :
    LET others == {t \in load.sticks \ {s} : Asking(t)}
    IN  /\ pc = "stack" /\ stick[s] = "plugged"
        /\ stick' = [stick EXCEPT ![s] = "asked"]              \* tuh_msc_inquiry
        /\ crossed' = crossed \cup others \cup (IF others = {} THEN {} ELSE {s})
        /\ UNCHANGED <<load, pc, cdcVars, inquiry_resp, shown>>

\* the status is not looked at
InquiryCompleteCb_NoStatus ==
  \E s \in load.sticks :
    /\ pc = "stack" /\ stick[s] \in {"data", "fails"}
    /\ stick' = [stick EXCEPT ![s] = "known"] /\ shown' = [shown EXCEPT ![s] = inquiry_resp]
    /\ UNCHANGED <<load, pc, cdcVars, inquiry_resp, crossed>>
InquiryCompleteCb ==
  \E s \in load.sticks :
    /\ pc = "stack"
    /\ \/ /\ stick[s] = "fails" /\ stick' = [stick EXCEPT ![s] = "failed"] /\ UNCHANGED shown
       \/ /\ stick[s] = "data" /\ stick' = [stick EXCEPT ![s] = "known"]
          /\ shown' = [shown EXCEPT ![s] = inquiry_resp]
    /\ UNCHANGED <<load, pc, cdcVars, inquiry_resp, crossed>>

TuhTaskReturns ==
  /\ pc = "stack" /\ ~taken /\ ~rx /\ pc' = "cdc"
  /\ \A s \in Sticks : stick[s] \notin {"plugged", "data", "fails"}
  /\ UNCHANGED <<load, cdcVars, mscVars>>

TuhTask == CdcMounts \/ CdcUnmounts \/ TuhCdcRxCb \/ PacketWent \/ TuhMscMountCb
           \/ InquiryCompleteCb \/ TuhTaskReturns

-----------------------------------------------------------------------------
(* cdc_app_task.                                                            *)

\* get_console_inputs: characters up to a NUL, which is read and dropped, or as
\* many as fit; how many are read, and how many of them are kept
Kept == Smaller(BufSize, BeforeNul(input))

\* a character is read before the loop sees that the buffer is full
GetConsoleInputs_ReadsFirst == [read |-> Smaller(Kept + 1, Len(input)), kept |-> Kept]
GetConsoleInputs ==
  [read |-> IF Kept < BufSize THEN Smaller(Kept + 1, Len(input)) ELSE Kept, kept |-> Kept]

CdcAppTask ==
  LET got   == GetConsoleInputs
      fits  == Smaller(got.kept, Fifo - Len(tx))
      fifo  == tx \o SubSeq(input, 1, fits)
  IN  /\ pc = "cdc" /\ pc' = "stack"
      /\ input' = SubSeq(input, got.read + 1, Len(input))
      /\ \/ /\ mounted /\ got.kept > 0
            /\ IF out = <<>> THEN out' = fifo /\ tx' = <<>> ELSE tx' = fifo /\ UNCHANGED out
            /\ lost' = (lost \/ fits < got.kept)
         \/ /\ ~(mounted /\ got.kept > 0)
            /\ lost' = (lost \/ got.kept > 0) /\ UNCHANGED <<tx, out>>
      /\ UNCHANGED <<load, mounted, typed, nuls, taken, received, inVars, mscVars>>

-----------------------------------------------------------------------------
Main == TuhTask \/ CdcAppTask
Next == Types \/ Takes \/ Says \/ Plugs \/ Answers \/ Main
Spec == Init /\ [][Next]_vars

-----------------------------------------------------------------------------
\* While there is a device and it takes what it is sent in time, it gets every
\* character typed once and in order, whatever NULs are in between and however the
\* loop and the packets interleave.
ConsoleForwarded ==
  ~lost =>
    LET chars == Without(input, {NUL})
    IN  received \o (IF taken THEN <<>> ELSE out) \o tx \o chars = [k \in 1 .. typed |-> k]

\* All inquiries share one inquiry_resp; still the name printed for a stick is its
\* own and never that of a stick plugged in before, also after an inquiry that
\* failed, as long as no other was asked before it had answered.
InquiryIsOwn ==
  \A s \in Sticks \ crossed : shown[s] \in {NoStick, s}
=============================================================================
