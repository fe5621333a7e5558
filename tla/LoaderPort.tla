----------------------------- MODULE LoaderPort -----------------------------
(***************************************************************************)
(* The boot loader as the serial line sees it: bytes are read one at a     *)
(* time until the argument being waited for is complete, checked, and the  *)
(* handler of the command goes on.  The memory is a flash without write    *)
(* protection; the commands the master never sends are left out.           *)
(***************************************************************************)
EXTENDS UartWire

CONSTANTS
  MaxLenEE,       (* BOOT_MAX_LEN_EE                                         *)
  MaxLen,         (* extended build -> BOOT_MAX_LEN_RE and BOOT_MAX_LEN_WE   *)
  Size            (* flash bytes tracked: addresses FLASH_BASE + 0 .. Size-1 *)

VARIABLES
  extended,       (* the build has RE and WE (BOOT_RE_EXTENDED > 1 ...), fixed *)
  at,             (* what the loader waits for: "init", a command, an argument;
                     or "reset" on its way to a reset, "app" out of the loader *)
  got,            (* the bytes of it read so far                             *)
  addr,           (* the address of the read or write command being received *)
  prot,           (* FLASH_IsReadProtected()                                 *)
  mem             (* offset from FLASH_BASE -> byte                          *)

devVars == <<at, got, addr, prot, mem>>

Blank == [a \in 0 .. Size - 1 |-> 255]

-----------------------------------------------------------------------------
(* The bytes a complete argument has, once `g' of them were read. *)
Half(g, i) == 256 * g[i] + g[i + 1]
Addresses == {"rm_addr", "re_addr", "wm_addr", "we_addr"}
Needs(stage, g) ==
  CASE stage = "init" -> 1
    [] stage = "cmd" -> 2
    [] stage \in Addresses -> 5
    [] stage = "rm_len" -> 2
    [] stage = "re_len" -> 3
    [] stage = "wm_data" -> IF g = <<>> THEN 1 ELSE g[1] + 3
    [] stage = "we_data" ->
         IF Len(g) < 2 THEN 2
         ELSE IF Half(g, 1) + 1 <= MaxLen[extended].write THEN Half(g, 1) + 4 ELSE 3
    [] stage = "ee_data" ->
         IF Len(g) < 2 THEN 2
         ELSE IF Half(g, 1) + 1 <= MaxLenEE - 1 THEN 2 * (Half(g, 1) + 1) + 3 ELSE 3

Receiving == up /\ at \notin {"reset", "app"} /\ fifo # <<>>
Bytes     == Append(got, Head(fifo))          (* got and the byte being read *)
Complete  == Receiving /\ Len(Bytes) = Needs(at, Bytes)

(* The argument being waited for at `stage' has just become complete. *)
Arg(stage) == at = stage /\ Complete /\ fifo' = Tail(fifo) /\ got' = <<>>

(* Mutant: the checksums of addresses and data are not compared. *)
Valid_Any(stage) ==
  stage \in {"cmd", "rm_len"} => Bytes[1] + Bytes[2] = 255

Valid(stage) ==
  IF stage \in {"cmd", "rm_len"} THEN Bytes[1] + Bytes[2] = 255 ELSE XorOf(Bytes) = 0

(* A byte in the middle of an argument. *)
TakeByte ==
  /\ Receiving /\ ~Complete
  /\ fifo' = Tail(fifo) /\ got' = Bytes
  /\ UNCHANGED <<rxq, up, at, addr, prot, mem>>

(* waitForInit waits until it has seen 0x7F, setupBoot acknowledges it. *)
SetupBoot ==
  /\ Arg("init")
  /\ IF Bytes = <<INIT>> THEN at' = "cmd" /\ Reply(<<ACK>>) ELSE UNCHANGED <<at, rxq>>
  /\ UNCHANGED <<up, addr, prot, mem>>

(* A command or an argument that fails its check is refused, and the       *)
(* command with it.                                                        *)
Reject ==
  \E stage \in Addresses \cup {"cmd", "rm_len", "re_len", "wm_data", "we_data", "ee_data"} :
    /\ Arg(stage) /\ ~Valid(stage)
    /\ at' = "cmd" /\ Reply(<<NACK>>)
    /\ UNCHANGED <<up, addr, prot, mem>>

-----------------------------------------------------------------------------
(* Command c is received (processCmd) and answered with `reply'. *)
Cmd(c, next, reply) ==
  /\ Arg("cmd") /\ Valid("cmd") /\ Bytes[1] = c
  /\ at' = next /\ Reply(reply)
  /\ UNCHANGED <<up, addr>>

Info  == <<32, GET, GVR, GID, IF extended THEN RE ELSE RM, IF extended THEN WE ELSE WM,
           EE, 33, 99, 115, 130, UR, RESET, 163, 161>>
Codes == {INIT, RM, RE, WM, WE} \cup {Info[i] : i \in 2 .. Len(Info)}
RdpBytes == IF prot THEN <<0, 0>> ELSE <<90, 165>>

InitCmd         == Cmd(INIT, "cmd", <<ACK>>) /\ UNCHANGED <<prot, mem>>
GetInfomation   == Cmd(GET, "cmd", <<ACK, Len(Info) - 1>> \o Info \o <<ACK>>)
                   /\ UNCHANGED <<prot, mem>>
GetVersion      == Cmd(GVR, "cmd", <<ACK, 32>> \o RdpBytes \o <<ACK>>)
                   /\ UNCHANGED <<prot, mem>>
GetDeviceID     == Cmd(GID, "cmd", <<ACK, 3, 0, 0, 64, 64, ACK>>)
                   /\ UNCHANGED <<prot, mem>>
UnknownCmd      == /\ Receiving /\ Bytes[1] \notin Codes
                   /\ Cmd(Bytes[1], "cmd", <<NACK>>) /\ UNCHANGED <<prot, mem>>

(* The commands a protected device refuses. *)
Guarded(c, next) ==
  /\ IF prot THEN Cmd(c, "cmd", <<NACK>>) ELSE Cmd(c, next, <<ACK>>)
  /\ UNCHANGED <<prot, mem>>

ReadMemoryCmd          == Guarded(RM, "rm_addr") \/ Guarded(RE, "re_addr")
WriteMemoryCmd         == Guarded(WM, "wm_addr") \/ Guarded(WE, "we_addr")
EraseMemoryExtendedCmd == Guarded(EE, "ee_data")

WaitForAddr ==
  \E stage \in Addresses :
    /\ Arg(stage) /\ Valid(stage)
    /\ at' = CASE stage = "rm_addr" -> "rm_len"  [] stage = "re_addr" -> "re_len"
               [] stage = "wm_addr" -> "wm_data" [] stage = "we_addr" -> "we_data"
    /\ addr' = SubSeq(Bytes, 1, 4)
    /\ Reply(<<ACK>>)
    /\ UNCHANGED <<up, prot, mem>>

(* The tracked offsets of n bytes from addr, and the offset of the i-th. *)
Offset(i) == addr[4] + i
Tracked(n) == IF SubSeq(addr, 1, 3) = FlashBase
              THEN {i \in 0 .. n - 1 : Offset(i) \in DOMAIN mem} ELSE {}

(* Memory that is not tracked reads as erased. *)
ReadMemory(stage) ==
  LET n == IF stage = "re_len" THEN Half(Bytes, 1) + 1 ELSE Bytes[1] + 1
  IN
  /\ Arg(stage) /\ Valid(stage)
  /\ at' = "cmd"
  /\ Reply(IF n > MaxLen[extended].read THEN <<NACK>>
           ELSE <<ACK>> \o [i \in 1 .. n |->
                              IF i - 1 \in Tracked(n) THEN mem[Offset(i - 1)] ELSE 255])
  /\ UNCHANGED <<up, addr, prot, mem>>

(* Programming only clears bits. *)
WriteMemory(stage) ==
  LET n    == IF stage = "we_data" THEN Half(Bytes, 1) + 1 ELSE Bytes[1] + 1
      from == IF stage = "we_data" THEN 2 ELSE 1      (* bytes before the data *)
  IN
  /\ Arg(stage) /\ Valid(stage)
  /\ at' = "cmd"
  /\ IF n > MaxLen[extended].write THEN Reply(<<NACK>>) /\ UNCHANGED mem
     ELSE /\ Reply(<<ACK>>)
          /\ mem' = [a \in DOMAIN mem |->
               IF \E i \in Tracked(n) : Offset(i) = a
               THEN mem[a] & Bytes[from + 1 + a - addr[4]] ELSE mem[a]]
  /\ UNCHANGED <<up, addr, prot>>

(* The tracked bytes are in the first sector; no sector is protected. *)
Erase ==
  LET n     == Half(Bytes, 1) + 1
      pages == {Half(Bytes, 2 * i + 1) : i \in 1 .. n}
  IN
  /\ Arg("ee_data") /\ Valid("ee_data")
  /\ at' = "cmd" /\ Reply(<<ACK>>)
  /\ mem' = IF n >= MaxLenEE \/ 0 \in pages THEN Blank ELSE mem
  /\ UNCHANGED <<up, addr, prot>>

(* Mutant: the second ACK is not sent. *)
ReadUnprotect_OneAck ==
  /\ Cmd(UR, "reset", <<ACK>>)
  /\ prot' = FALSE /\ mem' = IF prot THEN Blank ELSE mem

(* The flash is erased when the protection is really lifted; the device    *)
(* resets itself in any case.                                              *)
ReadUnprotect ==
  /\ Cmd(UR, "reset", <<ACK, ACK>>)
  /\ prot' = FALSE /\ mem' = IF prot THEN Blank ELSE mem

ResetDevice == Cmd(RESET, "reset", <<ACK, ACK>>) /\ UNCHANGED <<prot, mem>>

(* waitAndResetDevice after the answer has been sent: what was received    *)
(* meanwhile is lost, and the loader comes up again.                       *)
SoftwareReset ==
  /\ at = "reset" /\ at' = "init"
  /\ up' = FALSE /\ fifo' = <<>> /\ got' = <<>>
  /\ UNCHANGED <<rxq, addr, prot, mem>>

BootBegin ==
  /\ at = "init" /\ ~up
  /\ up' = TRUE
  /\ UNCHANGED <<fifo, rxq, devVars>>

Loader ==
  \/ TakeByte \/ SetupBoot \/ Reject \/ InitCmd \/ GetInfomation \/ GetVersion
  \/ GetDeviceID \/ UnknownCmd
  \/ ReadMemoryCmd \/ WriteMemoryCmd \/ EraseMemoryExtendedCmd
  \/ WaitForAddr \/ (\E stage \in {"rm_len", "re_len"} : ReadMemory(stage))
  \/ (\E stage \in {"wm_data", "we_data"} : WriteMemory(stage)) \/ Erase
  \/ ReadUnprotect \/ ResetDevice \/ SoftwareReset \/ BootBegin

(* NRST, with BOOT0 high (the loader starts) or low (the application does). *)
Nrst(boot0) ==
  /\ fifo' = <<>> /\ got' = <<>> /\ addr' = <<0, 0, 0, 0>>
  /\ at' = IF boot0 THEN "init" ELSE "app"
  /\ up' = boot0
  /\ UNCHANGED <<prot, mem>>
=============================================================================
