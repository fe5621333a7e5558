------------------------------ MODULE UartLink ------------------------------
(***************************************************************************)
(* The programming master and the boot loader on one serial line: an       *)
(* operator presses the button, the image is written; presses may follow   *)
(* one another.  On an undisturbed line no byte is lost and a timeout      *)
(* expires only when no answer is coming; a fault is a lost byte or a       *)
(* timeout that expires before the answer.                                 *)
(***************************************************************************)
EXTENDS UartMaster, LoaderPort

CONSTANTS
  Old,            (* the memory before the first press                       *)
  MaxPresses,     (* bound: times the button is pressed                      *)
  MaxFaults       (* bound: faults in a run                                  *)

VARIABLES
  presses,        (* times the button was pressed                            *)
  faults,         (* faults so far                                           *)
  clean           (* history: no fault since the button was last pressed     *)

vars == <<fifo, rxq, up, hostVars, devVars, extended, presses, faults, clean>>

(* No answer is coming: everything sent has been read, or was lost because *)
(* the loader was not up.  The loader is up before uart_init_seq makes its *)
(* last attempt.                                                           *)
Quiet ==
  /\ fifo = <<>> /\ at # "reset"
  /\ ~up => attempt < Attempts - 1

ButtonIsr ==
  /\ call \in {"idle", "done"} /\ presses < MaxPresses
  /\ presses' = presses + 1 /\ clean' = TRUE
  /\ Nrst(TRUE)
  /\ Begin("init_seq", 0)
  /\ attempt' = 1 /\ slow' = TRUE /\ rxq' = <<>> /\ result' = "none"
  /\ UNCHANGED <<rd, wr, extended, faults>>

UartFinal ==
  /\ call = "final" /\ call' = "done"
  /\ Nrst(FALSE) /\ rxq' = <<>>
  /\ UNCHANGED <<todo, ok, attempt, slow, rd, wr, done, heard, result, extended, presses, faults,
                 clean>>

RightTimeout ==
  /\ Quiet /\ Timeout
  /\ UNCHANGED <<devVars, extended, presses, faults, clean>>

Fault == faults < MaxFaults /\ faults' = faults + 1 /\ clean' = FALSE

EarlyTimeout ==
  /\ ~Quiet /\ Timeout /\ Fault
  /\ UNCHANGED <<devVars, extended, presses>>

LoseByte ==
  /\ Fault
  /\ \/ \E i \in DOMAIN fifo : fifo' = RemoveAt(fifo, i) /\ UNCHANGED rxq
     \/ \E i \in DOMAIN rxq : rxq' = RemoveAt(rxq, i) /\ UNCHANGED fifo
  /\ UNCHANGED <<up, hostVars, devVars, extended, presses>>

LoaderStep == Loader /\ UNCHANGED <<hostVars, extended, presses, faults, clean>>
MasterStep == Master /\ UNCHANGED <<devVars, extended, presses, faults, clean>>
Pressed    == call \in {"idle", "done"} /\ presses = MaxPresses /\ UNCHANGED vars

Init ==
  /\ fifo = <<>> /\ rxq = <<>> /\ up = FALSE
  /\ call = "idle" /\ todo = <<>> /\ ok = TRUE /\ attempt = 0 /\ slow = TRUE
  /\ rd = 0 /\ wr = 0 /\ done = 0 /\ heard = <<>> /\ result = "none"
  /\ extended \in BOOLEAN
  /\ at = "app" /\ got = <<>> /\ addr = <<0, 0, 0, 0>> /\ prot \in BOOLEAN /\ mem = Old
  /\ presses = 0 /\ faults = 0 /\ clean = TRUE

Next ==
  \/ ButtonIsr \/ UartFinal \/ LoaderStep \/ MasterStep \/ RightTimeout
  \/ EarlyTimeout \/ LoseByte \/ Pressed

Spec == Init /\ [][Next]_vars

(* Both programs run, and a timeout expires; nobody has to press the       *)
(* button and no fault has to happen.                                      *)
FairSpec ==
  Spec /\ WF_vars(LoaderStep) /\ WF_vars(MasterStep \/ UartFinal) /\ WF_vars(RightTimeout)

-----------------------------------------------------------------------------
(* When uart_update_program says that the image was written, it is in the  *)
(* memory: whatever was lost or late, a stale answer is never taken for    *)
(* the bytes read back.                                                    *)
UpdateStored == result = "true" => \A i \in DOMAIN Image : mem[i - 1] = Image[i]

(* Whatever happens on the line, the loader stores only bytes of the image *)
(* at their own address, on erased memory.                                 *)
OnlyImage ==
  \A a \in DOMAIN mem :
    mem[a] \in {Old[a], 255} \cup (IF a < Len(Image) THEN {Image[a + 1]} ELSE {})

(* The memory is what the master says it is, and never anything else. *)
MemoryIsRight == UpdateStored /\ OnlyImage

(* An update that nothing disturbs succeeds, whatever state an earlier one *)
(* that failed has left the two sides in, and whether the device was       *)
(* protected or not.                                                       *)
CleanUpdateSucceeds == call = "done" /\ clean => result # "false"

(* "Read protection is on if read memory fails": on an undisturbed line    *)
(* the master lifts the protection, which erases the device, only of a     *)
(* device that is protected, also after an update that failed half way.    *)
UnlockOnlyProtected == [][Unlock /\ clean => prot]_vars

(* Every press of the button comes to its end. *)
Finishes == call \notin {"idle", "done"} ~> call = "done"
=============================================================================
