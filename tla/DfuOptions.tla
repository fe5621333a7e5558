----------------------------- MODULE DfuOptions -----------------------------
(***************************************************************************)
(* The commands of boot.c that program the option bytes: write protect and *)
(* unprotect (WP, UW), read protect and unprotect (RP, UR), which reset    *)
(* the device when they are done, and the erase of the option bytes (OO),  *)
(* which does not.  The registers are loaded from the option bytes by a    *)
(* reset only, and the power may fail between any two steps.               *)
(***************************************************************************)
EXTENDS Integers, FiniteSets

CONSTANTS
  WrpBytes,       (* WRP half-words: 4                                       *)
  WrpBits,        (* protection bits in each: 8                              *)
  Requests,       (* the sets of sector numbers to protect                   *)
  MaxCmds,        (* bound: commands in a run                                *)
  MaxFails        (* bound: power failures in a run                          *)

LastBit == WrpBytes * WrpBits - 1                                     (* 31 *)

ASSUME OptionsAssumption ==
  /\ WrpBytes \in Nat \ {0} /\ WrpBits \in Nat \ {0}
  /\ \A S \in Requests : S \subseteq Nat
  /\ MaxCmds \in Nat /\ MaxFails \in Nat

VARIABLES
  pc,             (* where the CPU is                                        *)
  ret,            (* where flashOptErase returns to                          *)
  cmd,            (* the command being carried out                           *)
  wrpr,           (* the local of bootWriteProtect: bits that are to be 0    *)
  next,           (* the half-word it programs next                          *)
  optpg,          (* option byte programming is enabled in FLASH->CR         *)
  rdp,            (* the RDP option half-word: RDP_WORD, erased, or 0        *)
  wrp,            (* WRP half-word -> its bits that are 0                    *)
  regs,           (* FLASH->WRPR (its 0 bits) and read protection, as loaded *)
  acked,          (* history: the command acknowledged last, if nothing has
                     happened since                                          *)
  before,         (* history: wrp and FLASH->WRPR when the command began     *)
  cmds, fails     (* commands and power failures so far                      *)

vars == <<pc, ret, cmd, wrpr, next, optpg, rdp, wrp, regs, acked, before, cmds, fails>>

None    == [name |-> "none", sectors |-> {}]
Bits(i) == i * WrpBits .. (i + 1) * WrpBits - 1
Zeros   == UNION {wrp[i] : i \in DOMAIN wrp}
Empty   == [i \in 0 .. WrpBytes - 1 |-> {}]

(* Sectors past the 31st share its bit. *)
Bit(s)        == IF s > LastBit THEN LastBit ELSE s
BitsOf(S)     == {Bit(s) : s \in S}

-----------------------------------------------------------------------------
(* A command arrives.  All but UR and OO are refused by a read-protected   *)
(* device.  checkFlashBusy and flashStatusReset change nothing here.       *)
Receive(name, sectors) ==
  /\ pc = "idle" /\ cmds < MaxCmds /\ cmds' = cmds + 1
  /\ cmd' = [name |-> name, sectors |-> sectors]
  /\ acked' = None /\ before' = [wrp |-> wrp, regs |-> regs.wrpr]
  /\ UNCHANGED <<rdp, wrp, regs, fails>>
Allowed == ~regs.protected

(* Mutant: the option bytes are programmed without an erase. *)
WriteProtectCmd_NoErase(S) ==
  /\ Allowed
  /\ Receive("WP", S)
  /\ optpg' = TRUE /\ next' = 0
  /\ wrpr' = regs.wrpr \cup BitsOf(S)
  /\ pc' = IF wrpr' = regs.wrpr THEN "ack" ELSE "wp_program"
  /\ ret' = "wp_program"

(* bootWriteProtect, as far as the erase. *)
WriteProtectCmd(S) ==
  /\ Allowed
  /\ Receive("WP", S)
  /\ optpg' = TRUE /\ next' = 0
  /\ wrpr' = regs.wrpr \cup BitsOf(S)
  /\ pc' = IF wrpr' = regs.wrpr THEN "ack"
           ELSE IF regs.wrpr # {} THEN "erase" ELSE "wp_program"
  /\ ret' = "wp_program"

WriteUnprotectCmd ==
  /\ Allowed /\ Receive("UW", {})
  /\ pc' = IF regs.wrpr = {} THEN "ack" ELSE "erase"
  /\ ret' = "ack"
  /\ UNCHANGED <<wrpr, next, optpg>>

(* Mutant: the option bytes are erased first. *)
ReadProtectCmd_Erase ==
  /\ Allowed /\ Receive("RP", {})
  /\ pc' = "erase" /\ ret' = "rp_program" /\ optpg' = TRUE
  /\ UNCHANGED <<wrpr, next>>

(* The option bytes are not erased; 0 can be programmed over any value. *)
ReadProtectCmd ==
  /\ Allowed /\ Receive("RP", {})
  /\ pc' = "rp_program" /\ optpg' = TRUE
  /\ UNCHANGED <<ret, wrpr, next>>

ReadUnprotectCmd ==
  /\ Receive("UR", {})
  /\ pc' = IF rdp = "word" THEN "ack" ELSE IF rdp = "zero" THEN "erase" ELSE "ur_enable"
  /\ ret' = "ur_enable"
  /\ UNCHANGED <<wrpr, next, optpg>>

EraseOptionBytesCmd ==
  /\ Receive("OO", {})
  /\ pc' = "erase" /\ ret' = "ack"
  /\ UNCHANGED <<wrpr, next, optpg>>

ResetDeviceCmd ==
  /\ Receive("RESET", {})
  /\ pc' = "reset"
  /\ UNCHANGED <<ret, wrpr, next, optpg>>

-----------------------------------------------------------------------------
(* flashOptErase: the flash erases, and programming is disabled. *)
FlashOptErase ==
  /\ pc = "erase" /\ pc' = "erased"
  /\ rdp' = "erased" /\ wrp' = Empty
  /\ optpg' = TRUE
  /\ UNCHANGED <<ret, cmd, wrpr, next, regs, acked, before, cmds, fails>>

OptErased ==
  /\ pc = "erased" /\ pc' = ret
  /\ optpg' = FALSE
  /\ UNCHANGED <<ret, cmd, wrpr, next, rdp, wrp, regs, acked, before, cmds, fails>>

(* A half-word is written: nothing happens unless programming is enabled,  *)
(* and bits are only cleared.  getComplement guards it with its inverse.   *)
WpProgram ==
  /\ pc = "wp_program" /\ next < WrpBytes
  /\ next' = next + 1
  /\ wrp' = IF optpg THEN [wrp EXCEPT ![next] = @ \cup (wrpr \cap Bits(next))] ELSE wrp
  /\ UNCHANGED <<pc, ret, cmd, wrpr, optpg, rdp, regs, acked, before, cmds, fails>>

WpDone ==
  /\ pc = "wp_program" /\ next = WrpBytes
  /\ pc' = "ack" /\ optpg' = FALSE
  /\ UNCHANGED <<ret, cmd, wrpr, next, rdp, wrp, regs, acked, before, cmds, fails>>

RpProgram ==
  /\ pc = "rp_program"
  /\ rdp' = IF optpg THEN "zero" ELSE rdp
  /\ pc' = "ack" /\ optpg' = FALSE
  /\ UNCHANGED <<ret, cmd, wrpr, next, wrp, regs, acked, before, cmds, fails>>

UrEnable ==
  /\ pc = "ur_enable" /\ pc' = "ur_program" /\ optpg' = TRUE
  /\ UNCHANGED <<ret, cmd, wrpr, next, rdp, wrp, regs, acked, before, cmds, fails>>

UrProgram ==
  /\ pc = "ur_program"
  /\ rdp' = IF optpg /\ rdp = "erased" THEN "word" ELSE rdp
  /\ pc' = "ack" /\ optpg' = FALSE
  /\ UNCHANGED <<ret, cmd, wrpr, next, wrp, regs, acked, before, cmds, fails>>

(* sendACK and, but for OO, waitAndResetDevice. *)
Ack ==
  /\ pc = "ack"
  /\ acked' = cmd
  /\ pc' = IF cmd.name = "OO" THEN "idle" ELSE "reset"
  /\ UNCHANGED <<ret, cmd, wrpr, next, optpg, rdp, wrp, regs, before, cmds, fails>>

(* The flash controller loads the option bytes; the loader starts.         *)
Load ==
  /\ pc = "reset" /\ pc' = "idle"
  /\ regs' = [wrpr |-> Zeros, protected |-> rdp # "word"] /\ optpg' = FALSE
  /\ UNCHANGED <<ret, cmd, wrpr, next, rdp, wrp, acked, before, cmds, fails>>

Power ==
  /\ fails < MaxFails /\ fails' = fails + 1
  /\ pc' = "reset"
  /\ UNCHANGED <<ret, cmd, wrpr, next, optpg, rdp, wrp, regs, acked, before, cmds>>

Step ==
  \/ FlashOptErase \/ OptErased \/ WpProgram \/ WpDone \/ RpProgram \/ UrEnable
  \/ UrProgram \/ Ack \/ Load
Finished == pc = "idle" /\ cmds = MaxCmds /\ UNCHANGED vars

Init ==
  /\ pc = "reset" /\ ret = "ack" /\ cmd = None /\ wrpr = {} /\ next = 0 /\ optpg = FALSE
  /\ rdp \in {"word", "erased", "zero"}
  /\ wrp \in {w \in [0 .. WrpBytes - 1 -> SUBSET (0 .. LastBit)] :
                \A i \in DOMAIN w : w[i] \subseteq Bits(i)}
  /\ regs = [wrpr |-> {}, protected |-> TRUE]
  /\ acked = None /\ before = [wrp |-> wrp, regs |-> {}] /\ cmds = 0 /\ fails = 0

Next ==
  \/ Step \/ (\E S \in Requests : WriteProtectCmd(S)) \/ WriteUnprotectCmd
  \/ ReadProtectCmd \/ ReadUnprotectCmd \/ EraseOptionBytesCmd \/ ResetDeviceCmd
  \/ Power \/ Finished

Spec == Init /\ [][Next]_vars

-----------------------------------------------------------------------------
(* The loader runs again, and `name' was what it acknowledged last. *)
Since(name) == pc = "idle" /\ acked.name = name

(* A change of protection, once acknowledged, is in force when the device  *)
(* has been reset, whatever was cut short by a power failure before it:    *)
(* write protection of a device that has none, its removal, read           *)
(* protection, which leaves write protection as it was ("Don't erase       *)
(* option bytes here!"), and its removal, also of a device whose option    *)
(* bytes an earlier power failure has left erased.                         *)
ProtectionHonoured ==
  /\ (Since("WP") /\ before.regs = {}) => \A s \in acked.sectors : Bit(s) \in regs.wrpr
  /\ Since("UW") => regs.wrpr = {}
  /\ Since("RP") => (regs.protected /\ wrp = before.wrp)
  /\ Since("UR") => ~regs.protected

(* A half-word of the write protection, with its inverse in the upper byte, *)
(* can be programmed only once: it is erased when it is programmed by WP    *)
(* (boot.c:786-788), even when FLASH->WRPR is stale                         *)
(* because the option bytes were erased without a reset.                   *)
BlankFirst == [][\A i \in DOMAIN wrp : wrp'[i] # wrp[i] => wrp[i] = {} \/ wrp'[i] = {}]_vars
=============================================================================
