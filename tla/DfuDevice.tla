------------------------------ MODULE DfuDevice ------------------------------
(***************************************************************************)
(* The DFU boot loader of examples/dfu/src/boot.c: the CPU executing one   *)
(* command at a time, the DMA channel WRITE_MEM_DMA that keeps copying a   *)
(* received block to flash after the command was acknowledged, and the     *)
(* flash controller (bits PG and FASTPG of FLASH->CR, and the busy flag).  *)
(*                                                                         *)
(* Bytes are tagged rather than valued: byte p of the g-th block received  *)
(* is <<g, p>>.  The four commands that program the option bytes and then  *)
(* reset the device are not in this module.                                *)
(***************************************************************************)
EXTENDS Integers, FiniteSets

CONSTANTS
  MaxAddr,      (* the memory tracked is 0 .. MaxAddr                        *)
  BufLen,       (* BOOT_MAX_LEN_WE                                           *)
  LenMod,       (* 2^16, the range of the uint16_t BootLen                   *)
  SectorSize,   (* FLASH_SECTOR_SIZE                                         *)
  WRPR,         (* the write-protected sectors, fixed between resets         *)
  Reqs,         (* the <<address, length>> pairs the host may write          *)
  MaxWrites,    (* bound: blocks received in a run                           *)
  VerifyHost    (* TRUE: the host reads back after its writes, as
                   uart_write_memory does, before it asks for anything that
                   drives the flash controller; FALSE: any host              *)

Addr    == 0 .. MaxAddr
Sectors == {a \div SectorSize : a \in Addr}

ASSUME DeviceAssumption ==
  /\ MaxAddr \in Nat /\ BufLen \in Nat \ {0} /\ LenMod \in Nat \ {0}
  /\ SectorSize \in Nat \ {0} /\ WRPR \subseteq Sectors
  /\ \A r \in Reqs : r \in Addr \X (1 .. BufLen)
  /\ BufLen < LenMod /\ MaxWrites \in Nat /\ VerifyHost \in BOOLEAN

Buffers == {0, 1}
Erased  == <<0, 0>>
Garbage == <<0, 1>>
Vals    == (0 .. MaxWrites) \X (0 .. BufLen - 1) \cup {Erased, Garbage}

VARIABLES
  pc,             (* where the CPU is                                        *)
  ret,            (* where checkFlashBusy returns to                         *)
  fast_pg,        (* the local of checkFlashBusy: FASTPG when it was called  *)
  write_mem_idx,  (* the half of write_mem_buf the next block goes to        *)
  write_mem_buf,  (* buffer -> offset -> number of the block it came from    *)
  req,            (* address and length of the block being written           *)
  w,              (* addr, len and vals (as an offset) in bootWriteDMA       *)
  pages,          (* sectors bootErase has still to erase                    *)
  dma,            (* the channel: stage, source, offset, address, words left *)
  cr,             (* the bits PG and FASTPG of FLASH->CR                     *)
  bsy,            (* FLASH_IsBusy()                                          *)
  mem,            (* the memory                                              *)
  gen,            (* number of the last block received                       *)
  want,           (* history: what the acknowledged writes and erases leave *)
  unverified,     (* the host wrote and has not read since                   *)
  boundary,       (* history: the last block ended at its first word boundary *)
  rd              (* what the last read command returned                     *)

cpuVars  == <<pc, ret, fast_pg>>
bufVars  == <<write_mem_idx, write_mem_buf, req, w, gen>>
hwVars   == <<dma, cr, bsy>>
ghosts   == <<want, unverified, boundary>>
vars     == <<cpuVars, bufVars, pages, hwVars, mem, ghosts, rd>>

NoReq   == [addr |-> 0, len |-> 0]
NoWrite == [addr |-> 0, len |-> 0, vals |-> 0]
IdleDma == [stage |-> "idle", src |-> 0, stack |-> FALSE,
            off |-> 0, dst |-> 0, n |-> 0]
Blank   == [b \in Buffers |-> [p \in 0 .. BufLen - 1 |-> 0]]

-----------------------------------------------------------------------------
(* The flash controller.  PG cannot be modified while the flash is busy.   *)

WriteCR(new)   == IF bsy THEN (new \ {"PG"}) \cup (cr \cap {"PG"}) ELSE new
Program        == WriteCR(cr \cup {"PG", "FASTPG"})  (* CR |= PG|OPTPG|FASTPG *)
DisableProgram == WriteCR({})          (* FLASH_DisableProgram(), and the DMA's
                                          store of FLASH_CR_DISABLE *)

(* What the byte at `a', which holds `old', holds once `new' has been       *)
(* programmed there.  A write-protected sector refuses it (WRPRTERR); a    *)
(* byte that was not erased is refused (PGERR) or keeps bits of both, so   *)
(* nothing is known of it.  The loader clears both error flags before it   *)
(* writes and never reads them.                                            *)
Programmed(a, old, new) ==
  IF a \div SectorSize \in WRPR THEN old
  ELSE IF old \in {Erased, new} THEN new ELSE Garbage

(* Memory after the bytes `new' (address -> value) are written: a write    *)
(* needs PG, and only the tracked addresses are recorded.                  *)
Written(new) ==
  IF "PG" \in cr
  THEN [a \in Addr |-> IF a \in DOMAIN new THEN Programmed(a, mem[a], new[a]) ELSE mem[a]]
  ELSE mem

(* Byte at offset p of write_mem_buf[b]; past its end is other memory. *)
BufByte(b, p) == IF p < BufLen THEN <<write_mem_buf[b][p], p>> ELSE Garbage

(* The flash finishes a program or erase operation. *)
FlashDone ==
  /\ bsy
  /\ bsy' = FALSE
  /\ UNCHANGED <<cpuVars, bufVars, pages, dma, cr, mem, ghosts, rd>>

-----------------------------------------------------------------------------
(* The DMA channel: dma_write_flash, one 32-bit word at a time, and then   *)
(* the linked item dma_write_disable that writes FLASH->CR.                *)

(* The stack frame of bootWriteDMA, with its local `buf', exists. *)
FrameLive == pc \in {"wm_start", "wm_align", "wm_dma", "wm_tail", "wm_bytes", "wm_off"}

(* What the channel can read at offset p of its source: a copy on a stack  *)
(* frame that was popped may have been overwritten.                        *)
Source(p) ==
  IF dma.stack /\ ~FrameLive THEN {BufByte(dma.src, p), Garbage}
                         ELSE {BufByte(dma.src, p)}

DmaWord ==
  /\ dma.stage = "data" /\ dma.n > 0
  /\ bsy => "FASTPG" \in cr      (* otherwise the bus stalls until the flash is done *)
  /\ \E v \in [0 .. 3 -> UNION {Source(dma.off + k) : k \in 0 .. 3}] :
       /\ \A k \in 0 .. 3 : v[k] \in Source(dma.off + k)
       /\ mem' = Written([a \in dma.dst .. dma.dst + 3 |-> v[a - dma.dst]])
  /\ dma' = [stage |-> "data", src |-> dma.src, stack |-> dma.stack,
              off |-> dma.off + 4, dst |-> dma.dst + 4, n |-> dma.n - 1]
  /\ bsy' = TRUE
  /\ UNCHANGED <<cpuVars, bufVars, pages, cr, ghosts, rd>>

(* Mutant: the disabling item is not linked, FLASH->CR is left alone. *)
DmaDisable_NotLinked ==
  /\ dma.stage = "data" /\ dma.n = 0
  /\ dma' = IdleDma
  /\ UNCHANGED <<cpuVars, bufVars, pages, cr, bsy, mem, ghosts, rd>>

DmaDisable ==
  /\ dma.stage = "data" /\ dma.n = 0
  /\ dma' = IdleDma
  /\ cr' = DisableProgram
  /\ UNCHANGED <<cpuVars, bufVars, pages, bsy, mem, ghosts, rd>>

ChannelIdle == dma.stage = "idle"   (* DMAC_WaitChannel(WRITE_MEM_DMA) returns *)

-----------------------------------------------------------------------------
(* checkFlashBusy(), a subroutine of most commands. *)

Goto(from, to) == pc = from /\ pc' = to /\ UNCHANGED <<ret, fast_pg>>
CheckFlashBusy(from, to) ==
  /\ pc = from /\ pc' = "fb_read" /\ ret' = to /\ UNCHANGED fast_pg

FbRead ==
  /\ pc = "fb_read" /\ pc' = "fb_clear"
  /\ fast_pg' = ("FASTPG" \in cr)
  /\ UNCHANGED <<ret, bufVars, pages, hwVars, mem, ghosts, rd>>

FbClear ==
  /\ Goto("fb_clear", "fb_wait")
  /\ cr' = cr \ {"FASTPG"}
  /\ UNCHANGED <<bufVars, pages, dma, bsy, mem, ghosts, rd>>

FbRestore ==
  /\ pc = "fb_wait" /\ ~bsy
  /\ pc' = ret /\ ret' = "cmd" /\ fast_pg' = FALSE
  /\ cr' = IF fast_pg THEN cr \cup {"FASTPG"} ELSE cr
  /\ UNCHANGED <<bufVars, pages, dma, bsy, mem, ghosts, rd>>

-----------------------------------------------------------------------------
(* The host sends a command (processCmd); DMAC_WaitChannel and the waits   *)
(* for the flash are guards, so a command that waits is a later action.    *)

(* The commands that use the flash controller without waiting for the DMA  *)
(* channel; uart_master.c never sends them before it has verified.         *)
Trusted == VerifyHost => ~unverified

(* WM, WE: acknowledged, then the address is read (waitForAddr). *)
WriteMemoryCmd ==
  /\ gen < MaxWrites
  /\ Goto("cmd", "wm_addr")
  /\ UNCHANGED <<bufVars, pages, hwVars, mem, ghosts, rd>>

WmAddr ==
  /\ \E r \in Reqs :
       \/ Goto("wm_addr", "wm_data") /\ req' = [addr |-> r[1], len |-> r[2]]
       \/ Goto("wm_addr", "cmd") /\ UNCHANGED req              (* NACK *)
  /\ UNCHANGED <<write_mem_idx, write_mem_buf, w, gen,
                 pages, hwVars, mem, ghosts, rd>>

(* waitForDataX: the block is stored before its checksum is known, and a   *)
(* block that fails it has overwritten the buffer; write_mem_idx stays.    *)
WmData ==
  /\ \/ Goto("wm_data", "wm_start") \/ Goto("wm_data", "cmd")
  /\ gen' = IF pc' = "cmd" THEN gen ELSE gen + 1
  /\ write_mem_buf' = [write_mem_buf EXCEPT ![write_mem_idx] =
       [p \in 0 .. BufLen - 1 |->
          IF p >= req.len THEN @[p] ELSE IF pc' = "cmd" THEN 0 ELSE gen']]
  /\ UNCHANGED <<write_mem_idx, req, w, pages, hwVars, mem, ghosts, rd>>

(* Mutant: programming starts without waiting for the previous transfer. *)
WmStart_NoWait ==
  /\ Goto("wm_start", "wm_align")
  /\ w' = [addr |-> req.addr, len |-> req.len, vals |-> 0]
  /\ cr' = Program
  /\ UNCHANGED <<write_mem_idx, write_mem_buf, req, gen, pages, dma, bsy, mem, ghosts, rd>>

(* bootWriteDMA: programming is enabled once the channel is free. *)
WmStart ==
  /\ ChannelIdle
  /\ Goto("wm_start", "wm_align")
  /\ w' = [addr |-> req.addr, len |-> req.len, vals |-> 0]
  /\ cr' = Program
  /\ UNCHANGED <<write_mem_idx, write_mem_buf, req, gen, pages, dma, bsy, mem, ghosts, rd>>

(* The CPU stores n bytes of the block at w.addr + skip; the store stalls  *)
(* while the flash is busy with a program operation that is not a fast one. *)
StoreBytes(skip, n) ==
  /\ (n > 0 /\ bsy) => "FASTPG" \in cr
  /\ bsy' = (bsy \/ n > 0)
  /\ mem' = Written([a \in (w.addr + skip) .. (w.addr + skip + n - 1) |->
                      BufByte(write_mem_idx, w.vals + a - w.addr)])

(* The loop that aligns addr decrements the unsigned len once per byte and *)
(* does not compare it with 0.                                             *)
WmAlign ==
  LET head == (4 - (w.addr % 4)) % 4
  IN
  /\ Goto("wm_align", "wm_dma")
  /\ StoreBytes(0, head)
  /\ w' = [addr |-> w.addr + head, len |-> (w.len - head) % LenMod, vals |-> head]
  /\ UNCHANGED <<write_mem_idx, write_mem_buf, req, gen, pages, dma, cr, ghosts, rd>>

(* The words go to the channel, through a copy on the stack when vals is   *)
(* not aligned.                                                            *)
WmDma ==
  /\ Goto("wm_dma", IF w.len % 4 = 0 THEN "wm_ack" ELSE "wm_tail")
  /\ dma' = IF w.len < 4 THEN dma
            ELSE [stage |-> "data", src |-> write_mem_idx, stack |-> w.vals % 4 # 0,
                  off |-> w.vals, dst |-> w.addr, n |-> w.len \div 4]
  /\ UNCHANGED <<bufVars, pages, cr, bsy, mem, ghosts, rd>>

(* The 1 to 3 bytes left: wait for the channel, enable programming again. *)
WmTail ==
  /\ ChannelIdle
  /\ Goto("wm_tail", "wm_bytes")
  /\ cr' = Program
  /\ UNCHANGED <<bufVars, pages, dma, bsy, mem, ghosts, rd>>

WmBytes ==
  /\ Goto("wm_bytes", "wm_off")
  /\ StoreBytes((w.len \div 4) * 4, w.len % 4)
  /\ UNCHANGED <<bufVars, pages, dma, cr, ghosts, rd>>

WmOff ==
  /\ Goto("wm_off", "wm_ack")
  /\ cr' = DisableProgram
  /\ UNCHANGED <<bufVars, pages, dma, bsy, mem, ghosts, rd>>

(* The whole block, programmed over what the host was told before. *)
Acked == [a \in Addr |->
  IF a \in req.addr .. (req.addr + req.len - 1)
  THEN Programmed(a, want[a], <<gen, a - req.addr>>) ELSE want[a]]

(* Mutant: the next block goes to the same buffer.                          *)
WmAck_SameBuffer ==
  /\ Goto("wm_ack", "cmd")
  /\ want' = Acked /\ unverified' = TRUE /\ boundary' = (w.len = 0)
  /\ req' = NoReq /\ w' = NoWrite
  /\ UNCHANGED <<write_mem_idx, write_mem_buf, gen, pages, hwVars, mem, rd>>

(* bootWriteMemory acknowledges as soon as bootWriteDMA returns; the other *)
(* buffer takes the next block.                                            *)
WmAck ==
  /\ Goto("wm_ack", "cmd")
  /\ write_mem_idx' = 1 - write_mem_idx
  /\ want' = Acked /\ unverified' = TRUE /\ boundary' = (w.len = 0)
  /\ req' = NoReq /\ w' = NoWrite
  /\ UNCHANGED <<write_mem_buf, gen, pages, hwVars, mem, rd>>

-----------------------------------------------------------------------------
(* RM, RE: the channel and the flash are waited for before the first ACK;  *)
(* a bad address or length ends the command.                               *)
ReadMemoryCmd ==
  /\ Goto("cmd", "rm_wait")
  /\ UNCHANGED <<bufVars, pages, hwVars, mem, ghosts, rd>>

(* Mutant: a read does not wait for the channel. *)
RmWait_NoWait ==
  /\ CheckFlashBusy("rm_wait", "rm_args")
  /\ UNCHANGED <<bufVars, pages, hwVars, mem, ghosts, rd>>

RmWait ==
  /\ ChannelIdle
  /\ CheckFlashBusy("rm_wait", "rm_args")
  /\ UNCHANGED <<bufVars, pages, hwVars, mem, ghosts, rd>>

RmRead ==
  \/ /\ Goto("rm_args", "cmd")
     /\ rd' = mem /\ unverified' = FALSE
     /\ UNCHANGED <<bufVars, pages, hwVars, mem, want, boundary>>
  \/ /\ Goto("rm_args", "cmd")                                  (* NACK *)
     /\ UNCHANGED <<bufVars, pages, hwVars, mem, ghosts, rd>>

(* CRC: the same channel reads the memory, after it has been waited for;   *)
(* reads of the flash stall while it is busy.                              *)
CalculateCrcCmd ==
  /\ Goto("cmd", "crc_args")
  /\ UNCHANGED <<bufVars, pages, hwVars, mem, ghosts, rd>>

CrcArgs ==
  /\ Goto("crc_args", "crc_wait") \/ Goto("crc_args", "cmd")       (* NACK *)
  /\ UNCHANGED <<bufVars, pages, hwVars, mem, ghosts, rd>>

CrcRead ==
  /\ ChannelIdle /\ ~bsy
  /\ Goto("crc_wait", "cmd")
  /\ rd' = mem
  /\ UNCHANGED <<bufVars, pages, hwVars, mem, ghosts>>

(* GVR: checkFlashBusy, then the option bytes are read. *)
GetVersionCmd ==
  /\ Trusted
  /\ CheckFlashBusy("cmd", "cmd")
  /\ UNCHANGED <<bufVars, pages, hwVars, mem, ghosts, rd>>

(* EE: refused when a page is protected (checkMemoryErasable), otherwise   *)
(* bootErase or, for all of them, bootEraseAll.                            *)
EraseMemoryCmd ==
  /\ Trusted
  /\ \E P \in SUBSET Sectors \ {{}} :
       IF P \cap WRPR # {} THEN Goto("cmd", "cmd") /\ UNCHANGED pages
       ELSE CheckFlashBusy("cmd", "ee_next") /\ pages' = P
  /\ UNCHANGED <<bufVars, hwVars, mem, ghosts, rd>>

EraseSector(s) ==
  /\ s \in pages \ WRPR
  /\ CheckFlashBusy("ee_next", "ee_next")
  /\ pages' = pages \ {s}
  /\ bsy' = TRUE
  /\ mem' = [a \in Addr |-> IF a \div SectorSize = s THEN Erased ELSE mem[a]]
  /\ want' = [a \in Addr |-> IF a \div SectorSize = s THEN Erased ELSE want[a]]
  /\ UNCHANGED <<bufVars, dma, cr, unverified, boundary, rd>>

EraseAck ==
  /\ pages \ WRPR = {}
  /\ Goto("ee_next", "cmd")
  /\ UNCHANGED <<bufVars, pages, hwVars, mem, ghosts, rd>>

(* OO: bootErsaeOptionBytes waits, starts flashOptErase, waits, disables   *)
(* programming and waits again.  The option bytes are not in `mem'.        *)
EraseOptionBytesCmd ==
  /\ Trusted
  /\ CheckFlashBusy("cmd", "oo_start")
  /\ UNCHANGED <<bufVars, pages, hwVars, mem, ghosts, rd>>

OoStart ==
  /\ CheckFlashBusy("oo_start", "oo_off")
  /\ bsy' = TRUE
  /\ UNCHANGED <<bufVars, pages, dma, cr, mem, ghosts, rd>>

OoOff ==
  /\ CheckFlashBusy("oo_off", "cmd")
  /\ cr' = DisableProgram
  /\ UNCHANGED <<bufVars, pages, dma, bsy, mem, ghosts, rd>>

(* RESET and GO: resetBoot waits for the channel, then for the flash. *)
ResetDeviceCmd ==
  /\ \/ Goto("cmd", "reset_wait") \/ Goto("cmd", "go_wait")
  /\ UNCHANGED <<bufVars, pages, hwVars, mem, ghosts, rd>>

(* Mutant: the loader is left without waiting for the channel. *)
ResetBoot_NoWait ==
  /\ \/ CheckFlashBusy("reset_wait", "reset") \/ CheckFlashBusy("go_wait", "go")
  /\ UNCHANGED <<bufVars, pages, hwVars, mem, ghosts, rd>>

ResetBoot ==
  /\ ChannelIdle
  /\ \/ CheckFlashBusy("reset_wait", "reset") \/ CheckFlashBusy("go_wait", "go")
  /\ UNCHANGED <<bufVars, pages, hwVars, mem, ghosts, rd>>

(* SYS_SoftwareReset, after which bootBegin and main's initialisation run  *)
(* again; or the DMA controller is reset and the CPU leaves the loader.    *)
SoftwareReset ==
  /\ Goto("reset", "cmd")
  /\ write_mem_idx' = 0 /\ write_mem_buf' = Blank /\ w' = NoWrite /\ req' = NoReq
  /\ dma' = IdleDma /\ cr' = {} /\ bsy' = FALSE
  /\ UNCHANGED <<gen, pages, mem, ghosts, rd>>

JumpToAddress ==
  /\ Goto("go", "jumped")
  /\ dma' = IdleDma
  /\ UNCHANGED <<bufVars, pages, cr, bsy, mem, ghosts, rd>>

-----------------------------------------------------------------------------
Init ==
  /\ pc = "cmd" /\ ret = "cmd" /\ fast_pg = FALSE
  /\ write_mem_idx = 0 /\ write_mem_buf = Blank /\ req = NoReq /\ w = NoWrite
  /\ gen = 0 /\ pages = {}
  /\ dma = IdleDma /\ cr = {} /\ bsy = FALSE
  /\ mem = [a \in Addr |-> Erased] /\ want = mem /\ rd = mem
  /\ unverified = FALSE /\ boundary = FALSE

WriteStep == WmStart \/ WmAlign \/ WmDma \/ WmTail \/ WmBytes \/ WmOff \/ WmAck
BusyWait  == FbRead \/ FbClear \/ FbRestore
Erase     == (\E s \in Sectors : EraseSector(s)) \/ EraseAck
Cpu       == WriteStep \/ BusyWait \/ Erase \/ RmWait \/ CrcRead \/ OoStart \/ OoOff
             \/ ResetBoot \/ SoftwareReset \/ JumpToAddress
Host      == WriteMemoryCmd \/ ReadMemoryCmd \/ CalculateCrcCmd \/ GetVersionCmd
             \/ EraseMemoryCmd \/ EraseOptionBytesCmd \/ ResetDeviceCmd
             \/ WmAddr \/ WmData \/ RmRead \/ CrcArgs
Hardware  == DmaWord \/ DmaDisable \/ FlashDone
Jumped    == pc = "jumped" /\ UNCHANGED vars      (* the application runs *)
Next      == Host \/ Cpu \/ Hardware \/ Jumped

Spec == Init /\ [][Next]_vars

(* The CPU, the channel and the flash controller run on their own; the     *)
(* host is not obliged to send anything.  The flash finishes an operation  *)
(* only when it is not held in fast-program mode.                          *)
FairSpec ==
  /\ Spec
  /\ WF_vars(Cpu)
  /\ WF_vars(DmaWord \/ DmaDisable)
  /\ WF_vars(FlashDone /\ "FASTPG" \notin cr)

-----------------------------------------------------------------------------
Pcs == {"cmd", "fb_read", "fb_clear", "fb_wait", "wm_addr", "wm_data", "wm_start",
        "wm_align", "wm_dma", "wm_tail", "wm_bytes", "wm_off", "wm_ack", "rm_wait",
        "rm_args", "crc_args", "crc_wait", "ee_next", "oo_start", "oo_off",
        "reset_wait", "reset", "go_wait", "go", "jumped"}

(* The state space of the device: every variable has the shape its C       *)
(* declaration and the hardware give it.                                   *)
TypeOK ==
  /\ pc \in Pcs /\ ret \in Pcs /\ fast_pg \in BOOLEAN
  /\ write_mem_idx \in Buffers
  /\ write_mem_buf \in [Buffers -> [0 .. BufLen - 1 -> 0 .. MaxWrites]]
  /\ req \in [addr : Addr, len : 0 .. BufLen]
  /\ w \in [addr : Nat, len : 0 .. LenMod - 1, vals : 0 .. 3]
  /\ gen \in 0 .. MaxWrites /\ pages \subseteq Sectors
  /\ dma \in [stage : {"idle", "data"}, src : Buffers, stack : BOOLEAN,
              off : Nat, dst : Nat, n : Nat]
  /\ cr \subseteq {"PG", "FASTPG"} /\ bsy \in BOOLEAN
  /\ mem \in [Addr -> Vals] /\ want \in [Addr -> Vals] /\ rd \in [Addr -> Vals]
  /\ unverified \in BOOLEAN /\ boundary \in BOOLEAN

(* While the device receives a block into write_mem_buf[write_mem_idx],    *)
(* the DMA channel is never still copying the previous block out of that   *)
(* half: writeMemoryCmd may receive without waiting for the channel.       *)
ReceiveBufferFree ==
  pc \in {"wm_addr", "wm_data"} /\ dma.stage = "data" => dma.src # write_mem_idx

(* When the loader is idle, memory is what the acknowledged blocks and     *)
(* erases make of it, in their order, and nothing else: a block written to *)
(* erased, unprotected bytes is stored, one written to a protected sector  *)
(* has changed nothing, though it is acknowledged all the same.            *)
AckedIsStored == pc = "cmd" /\ ChannelIdle => mem = want

(* "Use dma_write_disable to disable FLASH_CR_FASTPG at the end of a DMA   *)
(* write": with the channel done and no command running, FASTPG is off.    *)
FastPgOff == pc = "cmd" /\ ChannelIdle => "FASTPG" \notin cr

(* The device is the memory service of MemService: whatever the DMA is     *)
(* still doing, a read or a CRC sees what every acknowledged block and     *)
(* erase has made of the flash, and a block becomes visible as a whole.    *)
Service == INSTANCE MemService WITH
  store <- want, Blocks <- 1 .. MaxWrites
ServesMemory == Service!Spec

(* The device is reset, or left for the application, only when nothing is  *)
(* being written any more.                                                 *)
ResetWhenQuiet == [][SoftwareReset \/ JumpToAddress => ChannelIdle /\ ~bsy]_vars

(* Every wait for the channel and for the flash comes to an end: once the  *)
(* loader has what it needs from the host it comes back for the next       *)
(* command.  There is one exception, HeldByFastPg.  A block that begins    *)
(* unaligned and ends at the next word boundary leaves PG and FASTPG on    *)
(* (the loop at boot.c:657 stores all of it, and the lines that disable    *)
(* programming are not reached).  CRC is the only command that uses the    *)
(* flash without a checkFlashBusy, which clears FASTPG: it reads a flash   *)
(* that FASTPG keeps busy.                                                 *)
HostWaits == pc \in {"cmd", "wm_addr", "wm_data", "rm_args", "crc_args", "jumped"}
HeldByFastPg == boundary /\ pc = "crc_wait" /\ ChannelIdle /\ bsy /\ "FASTPG" \in cr
CommandEnds == ~HostWaits ~> (HostWaits \/ HeldByFastPg)
=============================================================================
