--------------------------- MODULE DfuDeviceProofs ---------------------------
(* Proofs about DfuDevice, for every memory, buffer and sector size, every  *)
(* set of requests, any number of blocks and any host.                      *)
EXTENDS DfuDevice, TLAPS

(* Where checkFlashBusy may return to. *)
Returns == {"cmd", "rm_args", "ee_next", "oo_start", "oo_off", "reset", "go"}
InBusyWait == pc \in {"fb_read", "fb_clear", "fb_wait"}

(* The control skeleton: who owns the channel, and which half of           *)
(* write_mem_buf it reads, at each place of the program.  Between the       *)
(* wait at the start of bootWriteDMA and the programming of the channel the *)
(* channel is idle; from there to the acknowledgement it reads the half     *)
(* just received; everywhere else it reads the other half.                  *)
Ownership ==
  /\ pc \in Pcs /\ ret \in Returns
  /\ write_mem_idx \in Buffers
  /\ dma.stage \in {"idle", "data"}
  /\ pc \in {"wm_align", "wm_dma", "wm_bytes", "wm_off"} => dma.stage = "idle"
  /\ pc \in {"wm_tail", "wm_ack"} /\ dma.stage = "data" => dma.src = write_mem_idx
  /\ pc \notin {"wm_tail", "wm_ack"} /\ dma.stage = "data" => dma.src = 1 - write_mem_idx
  /\ pc \in {"wm_addr", "wm_data"} => gen < MaxWrites
  /\ pc \in {"reset", "go"} => dma.stage = "idle" /\ ~bsy
  /\ InBusyWait /\ ret \in {"reset", "go"} => dma.stage = "idle"

LEMMA OwnershipInit == Init => Ownership
BY DEF Init, Ownership, Pcs, Returns, Buffers, IdleDma, InBusyWait

LEMMA OwnershipNext == Ownership /\ [Next]_vars => Ownership'
<1> SUFFICES ASSUME Ownership, [Next]_vars PROVE Ownership'
  OBVIOUS
<1> USE DEF Ownership, Pcs, Returns, Buffers, IdleDma, InBusyWait, Goto, CheckFlashBusy,
            cpuVars, bufVars, hwVars, ghosts, ChannelIdle
<1>1. CASE Hardware
  <2>1. CASE DmaWord     BY <2>1 DEF DmaWord
  <2>2. CASE DmaDisable  BY <2>2 DEF DmaDisable
  <2>3. CASE FlashDone   BY <2>3 DEF FlashDone
  <2> QED BY <1>1, <2>1, <2>2, <2>3 DEF Hardware
<1>2. CASE Cpu
  <2>1. CASE WriteStep
    <3>1. CASE WmStart BY <3>1 DEF WmStart
    <3>2. CASE WmAlign BY <3>2 DEF WmAlign, StoreBytes
    <3>3. CASE WmDma   BY <3>3 DEF WmDma
    <3>4. CASE WmTail  BY <3>4 DEF WmTail
    <3>5. CASE WmBytes BY <3>5 DEF WmBytes, StoreBytes
    <3>6. CASE WmOff   BY <3>6 DEF WmOff
    <3>7. CASE WmAck   BY <3>7 DEF WmAck
    <3> QED BY <2>1, <3>1, <3>2, <3>3, <3>4, <3>5, <3>6, <3>7 DEF WriteStep
  <2>2. CASE BusyWait
    BY <2>2 DEF BusyWait, FbRead, FbClear, FbRestore
  <2>3. CASE Erase
    BY <2>3 DEF Erase, EraseSector, EraseAck
  <2>4. CASE RmWait \/ CrcRead \/ OoStart \/ OoOff
    BY <2>4 DEF RmWait, CrcRead, OoStart, OoOff
  <2>5. CASE ResetBoot \/ SoftwareReset \/ JumpToAddress
    BY <2>5 DEF ResetBoot, SoftwareReset, JumpToAddress
  <2> QED BY <1>2, <2>1, <2>2, <2>3, <2>4, <2>5 DEF Cpu
<1>3. CASE Host
  <2>1. CASE WriteMemoryCmd \/ WmAddr \/ WmData
    BY <2>1 DEF WriteMemoryCmd, WmAddr, WmData
  <2>2. CASE ReadMemoryCmd \/ RmRead \/ CalculateCrcCmd \/ CrcArgs
    BY <2>2 DEF ReadMemoryCmd, RmRead, CalculateCrcCmd, CrcArgs
  <2>3. CASE GetVersionCmd \/ EraseMemoryCmd \/ EraseOptionBytesCmd \/ ResetDeviceCmd
    BY <2>3 DEF GetVersionCmd, EraseMemoryCmd, EraseOptionBytesCmd, ResetDeviceCmd
  <2> QED BY <1>3, <2>1, <2>2, <2>3 DEF Host
<1>4. CASE Jumped \/ UNCHANGED vars
  BY <1>4 DEF Jumped, vars
<1> QED BY <1>1, <1>2, <1>3, <1>4 DEF Next

LEMMA OwnershipInvariant == Spec => []Ownership
BY OwnershipInit, OwnershipNext, PTL DEF Spec

(* Double buffering is safe: the half being received into is never the one *)
(* the DMA channel is copying from, although writeMemoryCmd does not wait  *)
(* for the channel before it receives.                                     *)
THEOREM ReceiveBufferSafe == Spec => []ReceiveBufferFree
<1>1. Ownership => ReceiveBufferFree
  BY DEF Ownership, ReceiveBufferFree, Buffers
<1> QED BY <1>1, OwnershipInvariant, PTL

(* The device is reset, or left for the application, only when the channel *)
(* and the flash are both idle: resetBoot waits for them in that order.    *)
THEOREM ResetIsQuiet == Spec => ResetWhenQuiet
<1>1. Ownership /\ [Next]_vars =>
        [SoftwareReset \/ JumpToAddress => ChannelIdle /\ ~bsy]_vars
  BY DEF Ownership, SoftwareReset, JumpToAddress, Goto, ChannelIdle
<1> QED BY <1>1, OwnershipInvariant, PTL DEF Spec, ResetWhenQuiet

-----------------------------------------------------------------------------
(* Type correctness.  The control part comes from Ownership; what is left   *)
(* is that every byte that reaches memory is a byte of some block, and that *)
(* the lengths and addresses of bootWriteDMA stay in range although len     *)
(* wraps around.                                                            *)

LEMMA ByteType ==
  ASSUME TypeOK, NEW b \in Buffers, NEW p \in Nat
  PROVE  BufByte(b, p) \in Vals
<1>1. CASE p < BufLen
  <2>1. p \in 0 .. BufLen - 1
    BY <1>1, DeviceAssumption
  <2>2. write_mem_buf[b] \in [0 .. BufLen - 1 -> 0 .. MaxWrites]
    BY DEF TypeOK
  <2>3. write_mem_buf[b][p] \in 0 .. MaxWrites
    BY <2>1, <2>2
  <2> QED BY <1>1, <2>1, <2>3 DEF BufByte, Vals
<1>2. CASE ~(p < BufLen)
  BY <1>2 DEF BufByte, Vals
<1> QED BY <1>1, <1>2

(* Programming leaves a byte of some block, whatever was there. *)
LEMMA ProgrammedType ==
  ASSUME NEW a, NEW old \in Vals, NEW new \in Vals
  PROVE  Programmed(a, old, new) \in Vals
BY DEF Programmed, Vals

LEMMA WrittenType ==
  ASSUME NEW new, mem \in [Addr -> Vals], \A a \in DOMAIN new : new[a] \in Vals
  PROVE  Written(new) \in [Addr -> Vals]
<1>1. \A a \in Addr : a \in DOMAIN new => Programmed(a, mem[a], new[a]) \in Vals
  BY ProgrammedType
<1> QED BY <1>1 DEF Written

LEMMA StoreType ==
  ASSUME TypeOK, NEW skip \in Nat, NEW n \in Nat, StoreBytes(skip, n)
  PROVE  mem' \in [Addr -> Vals] /\ bsy' \in BOOLEAN
<1> DEFINE S == (w.addr + skip) .. (w.addr + skip + n - 1)
           B(a) == BufByte(write_mem_idx, w.vals + a - w.addr)
           new == [a \in S |-> B(a)]
<1>1. w.addr \in Nat /\ w.vals \in Nat /\ write_mem_idx \in Buffers
  BY DEF TypeOK
<1>2. ASSUME NEW a \in S PROVE B(a) \in Vals
  <2>1. w.vals + a - w.addr \in Nat
    BY <1>1
  <2> QED BY <2>1, <1>1, ByteType
<1>3. mem' = Written(new)
  BY DEF StoreBytes
<1>4. mem \in [Addr -> Vals] /\ bsy \in BOOLEAN
  BY DEF TypeOK
<1>5. \A a \in DOMAIN new : new[a] \in Vals
  BY <1>2
<1> HIDE DEF new
<1>6. Written(new) \in [Addr -> Vals]
  BY <1>4, <1>5, WrittenType
<1> QED BY <1>3, <1>4, <1>6 DEF StoreBytes

LEMMA AckType == TypeOK /\ gen \in 0 .. MaxWrites => Acked \in [Addr -> Vals]
<1> SUFFICES ASSUME TypeOK, NEW a \in Addr PROVE Acked[a] \in Vals
  BY DEF Acked
<1>1. CASE a \in req.addr .. (req.addr + req.len - 1)
  <2>1. req.addr \in Int /\ req.len \in 0 .. BufLen /\ a \in Int
    BY DEF TypeOK, Addr
  <2>2. a - req.addr \in 0 .. BufLen - 1
    BY <1>1, <2>1, DeviceAssumption
  <2>3. <<gen, a - req.addr>> \in Vals /\ want[a] \in Vals
    BY <2>2 DEF Vals, TypeOK
  <2>4. Acked[a] = Programmed(a, want[a], <<gen, a - req.addr>>)
    BY <1>1 DEF Acked
  <2> QED BY <2>3, <2>4, ProgrammedType
<1>2. CASE a \notin req.addr .. (req.addr + req.len - 1)
  BY <1>2 DEF Acked, TypeOK
<1> QED BY <1>1, <1>2

DmaType == [stage : {"idle", "data"}, src : Buffers, stack : BOOLEAN,
            off : Nat, dst : Nat, n : Nat]

LEMMA ConstantTypes ==
  /\ IdleDma \in DmaType /\ NoReq \in [addr : Addr, len : 0 .. BufLen]
  /\ NoWrite \in [addr : Nat, len : 0 .. LenMod - 1, vals : 0 .. 3]
  /\ Blank \in [Buffers -> [0 .. BufLen - 1 -> 0 .. MaxWrites]]
  /\ Erased \in Vals
BY DeviceAssumption
   DEF DmaType, IdleDma, NoReq, NoWrite, Blank, Addr, Vals, Buffers, Erased

LEMMA TypeInit == Init => TypeOK
<1> SUFFICES ASSUME Init PROVE TypeOK
  OBVIOUS
<1>1. pc \in Pcs /\ ret \in Pcs /\ write_mem_idx \in Buffers /\ gen \in 0 .. MaxWrites
  BY DeviceAssumption DEF Init, Pcs, Buffers
<1>2. fast_pg \in BOOLEAN /\ bsy \in BOOLEAN /\ unverified \in BOOLEAN
  BY Zenon DEF Init
<1>3. mem \in [Addr -> Vals] /\ want \in [Addr -> Vals] /\ rd \in [Addr -> Vals]
  BY ConstantTypes DEF Init
<1>4. pages \subseteq Sectors /\ cr \subseteq {"PG", "FASTPG"}
  BY DEF Init
<1> QED BY <1>1, <1>2, <1>3, <1>4, ConstantTypes DEF Init, TypeOK, DmaType

LEMMA WordType ==
  ASSUME TypeOK, DmaWord
  PROVE  mem' \in [Addr -> Vals] /\ dma' \in DmaType
<1>1. /\ dma.off \in Nat /\ dma.dst \in Nat /\ dma.n \in Nat /\ dma.src \in Buffers
      /\ mem \in [Addr -> Vals]
  BY DEF TypeOK
<1>2. \A k \in 0 .. 3 : Source(dma.off + k) \subseteq Vals
  <2> TAKE k \in 0 .. 3
  <2>1. BufByte(dma.src, dma.off + k) \in Vals
    BY <1>1, ByteType
  <2> QED BY <2>1 DEF Source, Vals
<1>3. PICK v \in [0 .. 3 -> UNION {Source(dma.off + k) : k \in 0 .. 3}] :
        /\ \A k \in 0 .. 3 : v[k] \in Source(dma.off + k)
        /\ mem' = Written([a \in dma.dst .. dma.dst + 3 |-> v[a - dma.dst]])
  BY DEF DmaWord
<1> DEFINE new == [a \in dma.dst .. dma.dst + 3 |-> v[a - dma.dst]]
<1>4. \A a \in DOMAIN new : new[a] \in Vals
  <2> TAKE a \in DOMAIN new
  <2>1. a - dma.dst \in 0 .. 3
    BY <1>1
  <2> QED BY <2>1, <1>2, <1>3
<1>5. mem' = Written(new)
  BY <1>3
<1> HIDE DEF new
<1>6. Written(new) \in [Addr -> Vals]
  BY <1>1, <1>4, WrittenType
<1>7. dma' \in DmaType
  <2>1. dma.stack \in BOOLEAN
    BY Zenon DEF TypeOK
  <2>2. dma.off + 4 \in Nat /\ dma.dst + 4 \in Nat /\ dma.n - 1 \in Nat
    <3>1. dma.n > 0
      BY Zenon DEF DmaWord
    <3> QED BY <1>1, <3>1
  <2>3. dma' = [stage |-> "data", src |-> dma.src, stack |-> dma.stack,
                off |-> dma.off + 4, dst |-> dma.dst + 4, n |-> dma.n - 1]
    BY DEF DmaWord
  <2> QED BY <1>1, <2>1, <2>2, <2>3, Zenon DEF DmaType
<1> QED BY <1>5, <1>6, <1>7

LEMMA TypeNext == TypeOK /\ Ownership /\ [Next]_vars => TypeOK'
<1> SUFFICES ASSUME TypeOK, Ownership, [Next]_vars PROVE TypeOK'
  OBVIOUS
<1>a. Ownership'
  BY OwnershipNext
<1>b. pc' \in Pcs /\ ret' \in Pcs /\ write_mem_idx' \in Buffers
  BY <1>a DEF Ownership, Returns, Pcs
<1>d. DisableProgram \subseteq {"PG", "FASTPG"} /\ Program \subseteq {"PG", "FASTPG"}
  BY DEF DisableProgram, Program, WriteCR, TypeOK
<1> USE DEF Goto, CheckFlashBusy, cpuVars, bufVars, hwVars, ghosts
<1>1. CASE Hardware
  <2>1. CASE DmaWord     BY <1>b, <2>1, WordType DEF DmaWord, DmaType, TypeOK
  <2>2. CASE DmaDisable  BY <1>b, ConstantTypes, <1>d, <2>2 DEF DmaDisable, DmaType, TypeOK
  <2>3. CASE FlashDone   BY <1>b, <2>3 DEF FlashDone, TypeOK
  <2> QED BY <1>1, <2>1, <2>2, <2>3 DEF Hardware
<1>2. CASE Cpu
  <2>1. CASE WriteStep
    <3>1. CASE WmStart
      <4>1. w' \in [addr : Nat, len : 0 .. LenMod - 1, vals : 0 .. 3]
        BY <3>1, DeviceAssumption DEF WmStart, TypeOK, Addr
      <4> QED BY <1>b, <1>d, <3>1, <4>1 DEF WmStart, TypeOK
    <3>2. CASE WmAlign
      <4> DEFINE head == (4 - (w.addr % 4)) % 4
      <4>1. w.addr \in Nat /\ w.len \in Int /\ head \in 0 .. 3
        BY DEF TypeOK
      <4>2. w' = [addr |-> w.addr + head, len |-> (w.len - head) % LenMod, vals |-> head]
            /\ StoreBytes(0, head)
        BY <3>2 DEF WmAlign
      <4>3. mem' \in [Addr -> Vals] /\ bsy' \in BOOLEAN
        BY <4>1, <4>2, StoreType
      <4> HIDE DEF head
      <4>4. (w.len - head) % LenMod \in 0 .. LenMod - 1
        BY <4>1, DeviceAssumption
      <4>5. w' \in [addr : Nat, len : 0 .. LenMod - 1, vals : 0 .. 3]
        BY <4>1, <4>2, <4>4
      <4> QED BY <1>b, <3>2, <4>3, <4>5 DEF WmAlign, TypeOK
    <3>3. CASE WmDma
      <4>1. dma' \in DmaType
        <5>1. /\ w.addr \in Nat /\ w.len \in Nat /\ w.vals \in Nat
              /\ write_mem_idx \in Buffers /\ dma \in DmaType
          <6>1. w \in [addr : Nat, len : 0 .. LenMod - 1, vals : 0 .. 3]
            BY Zenon DEF TypeOK
          <6>2. write_mem_idx \in Buffers /\ dma \in DmaType
            BY Zenon DEF TypeOK, DmaType
          <6> QED BY <6>1, <6>2, DeviceAssumption
        <5>2. CASE w.len < 4
          BY <3>3, <5>1, <5>2 DEF WmDma
        <5>3. CASE ~(w.len < 4)
          <6>1. (w.vals % 4 # 0) \in BOOLEAN
            OBVIOUS
          <6>2. w.len \div 4 \in Nat
            BY <5>1
          <6> DEFINE onStack == w.vals % 4 # 0
          <6>3. dma' = [stage |-> "data", src |-> write_mem_idx, stack |-> onStack,
                        off |-> w.vals, dst |-> w.addr, n |-> w.len \div 4]
            BY <3>3, <5>3, Zenon DEF WmDma
          <6> HIDE DEF onStack
          <6>4. onStack \in BOOLEAN
            BY <6>1 DEF onStack
          <6> QED BY <5>1, <6>2, <6>3, <6>4, Zenon DEF DmaType
        <5> QED BY <5>2, <5>3
      <4> QED BY <1>b, <3>3, <4>1 DEF WmDma, DmaType, TypeOK
    <3>4. CASE WmTail  BY <1>b, <1>d, <3>4 DEF WmTail, TypeOK
    <3>5. CASE WmBytes
      <4> DEFINE len == w.len
      <4>0. len \in Nat
        BY DeviceAssumption DEF TypeOK
      <4> HIDE DEF len
      <4>a. (len \div 4) * 4 \in Nat /\ len % 4 \in Nat
        BY <4>0
      <4>1. (w.len \div 4) * 4 \in Nat /\ w.len % 4 \in Nat
        BY <4>a DEF len
      <4>2. mem' \in [Addr -> Vals] /\ bsy' \in BOOLEAN
        BY <3>5, <4>1, StoreType DEF WmBytes
      <4> QED BY <1>b, <3>5, <4>2 DEF WmBytes, TypeOK
    <3>6. CASE WmOff   BY <1>b, <1>d, <3>6 DEF WmOff, TypeOK
    <3>7. CASE WmAck   BY <1>b, ConstantTypes, <3>7, AckType DEF WmAck, TypeOK
    <3> QED BY <2>1, <3>1, <3>2, <3>3, <3>4, <3>5, <3>6, <3>7 DEF WriteStep
  <2>2. CASE BusyWait
    <3>1. fast_pg' \in BOOLEAN
      <4>1. CASE FbRead    BY <4>1, SMT DEF FbRead
      <4>2. CASE FbClear   BY <4>2, Zenon DEF FbClear, TypeOK
      <4>3. CASE FbRestore BY <4>3, Zenon DEF FbRestore
      <4> QED BY <2>2, <4>1, <4>2, <4>3 DEF BusyWait
    <3>2. cr' \subseteq {"PG", "FASTPG"}
      BY <2>2 DEF BusyWait, FbRead, FbClear, FbRestore, TypeOK
    <3> QED BY <1>b, <2>2, <3>1, <3>2 DEF BusyWait, FbRead, FbClear, FbRestore, TypeOK
  <2>3. CASE Erase
    <3>1. ASSUME NEW s \in Sectors, EraseSector(s) PROVE TypeOK'
      BY <1>b, ConstantTypes, <3>1 DEF EraseSector, TypeOK
    <3>2. CASE EraseAck BY <1>b, <3>2 DEF EraseAck, TypeOK
    <3> QED BY <2>3, <3>1, <3>2 DEF Erase
  <2>4. CASE RmWait \/ CrcRead \/ OoStart \/ OoOff
    BY <1>b, <1>d, <2>4 DEF RmWait, CrcRead, OoStart, OoOff, TypeOK
  <2>5. CASE ResetBoot \/ SoftwareReset \/ JumpToAddress
    BY <1>b, ConstantTypes, <2>5 DEF ResetBoot, SoftwareReset, JumpToAddress, DmaType, TypeOK
  <2> QED BY <1>2, <2>1, <2>2, <2>3, <2>4, <2>5 DEF Cpu
<1>3. CASE Host
  <2>1. CASE WriteMemoryCmd BY <1>b, <2>1 DEF WriteMemoryCmd, TypeOK
  <2>2. CASE WmAddr
    <3>1. ASSUME NEW r \in Reqs
          PROVE  [addr |-> r[1], len |-> r[2]] \in [addr : Addr, len : 0 .. BufLen]
      BY DeviceAssumption
    <3> QED BY <1>b, <2>2, <3>1 DEF WmAddr, TypeOK
  <2>3. CASE WmData
    <3>1. gen' \in 0 .. MaxWrites
      BY <2>3, DeviceAssumption DEF WmData, TypeOK, Ownership
    <3>2. write_mem_buf' \in [Buffers -> [0 .. BufLen - 1 -> 0 .. MaxWrites]]
      BY <2>3, <3>1, DeviceAssumption DEF WmData, TypeOK
    <3> QED BY <1>b, <2>3, <3>1, <3>2 DEF WmData, TypeOK
  <2>4. CASE ReadMemoryCmd \/ RmRead \/ CalculateCrcCmd \/ CrcArgs
    BY <1>b, <2>4 DEF ReadMemoryCmd, RmRead, CalculateCrcCmd, CrcArgs, TypeOK
  <2>5. CASE GetVersionCmd \/ EraseMemoryCmd \/ EraseOptionBytesCmd \/ ResetDeviceCmd
    BY <1>b, <2>5 DEF GetVersionCmd, EraseMemoryCmd, EraseOptionBytesCmd, ResetDeviceCmd, TypeOK
  <2> QED BY <1>3, <2>1, <2>2, <2>3, <2>4, <2>5 DEF Host
<1>4. CASE Jumped \/ UNCHANGED vars
  BY <1>b, <1>4 DEF Jumped, vars, TypeOK
<1> QED BY <1>1, <1>2, <1>3, <1>4 DEF Next

(* Every variable keeps its type: in particular no byte that is not part   *)
(* of a received block, of erased flash or of clobbered stack ever shows   *)
(* up in memory, and len stays a uint16_t.                                 *)
THEOREM TypeCorrect == Spec => []TypeOK
BY TypeInit, TypeNext, OwnershipInvariant, PTL DEF Spec

-----------------------------------------------------------------------------
(***************************************************************************)
(* What the loader acknowledges is stored, and it is the memory service of *)
(* MemService, for every memory, buffer and sector size and any number of  *)
(* blocks: with a host that reads back before it drives the flash          *)
(* controller, and for blocks that are aligned, as all of uart_master.c's  *)
(* are, or that at least end in a partial word.                            *)
(***************************************************************************)
Lead(a)     == (4 - (a % 4)) % 4        (* bytes before the next whole word *)
Ordinary(r) == r[1] % 4 = 0 \/ (r[2] > Lead(r[1]) /\ (r[1] + r[2]) % 4 # 0)
Disciplined == VerifyHost /\ \A r \in Reqs : Ordinary(r)

Loading == {"wm_align", "wm_dma", "wm_tail", "wm_bytes", "wm_off", "wm_ack"}
Settled == {"fb_read", "fb_clear", "fb_wait", "rm_args", "ee_next", "oo_start", "oo_off",
            "reset", "go", "jumped"}

(* The flash controller: whoever still has bytes to store finds programming *)
(* enabled, because nobody else touches FLASH->CR before the channel is     *)
(* done, and enabling it has no effect only while an erase is under way.    *)
Controller ==
  /\ ~unverified /\ pc \notin {"wm_tail", "wm_ack"} => ChannelIdle
  /\ pc \in Settled => ChannelIdle
  /\ dma.stage = "data" => "PG" \in cr
  /\ pc \in {"wm_align", "wm_dma", "wm_bytes"} => "PG" \in cr
  /\ bsy /\ "PG" \notin cr => InBusyWait
  /\ ChannelIdle /\ "FASTPG" \in cr =>
       pc \in {"wm_align", "wm_dma", "wm_tail", "wm_bytes", "wm_off"}
  /\ pc \in {"fb_clear", "fb_wait"} => ~fast_pg
  /\ dma.stage = "data" /\ dma.stack => pc = "wm_tail"

(* The block being written: the request it came with, the half of the      *)
(* buffer it fills, and what bootWriteDMA has left of it.                   *)
Block ==
  /\ pc \in Loading \cup {"wm_data", "wm_start"} =>
       <<req.addr, req.len>> \in Reqs
  /\ pc \in Loading \cup {"wm_start"} =>
       /\ gen \in 1 .. MaxWrites
       /\ \A p \in 0 .. req.len - 1 : write_mem_buf[write_mem_idx][p] = gen
  /\ pc = "wm_align" => w = [addr |-> req.addr, len |-> req.len, vals |-> 0]
  /\ pc \in {"wm_dma", "wm_tail", "wm_bytes"} =>
       w = [addr |-> req.addr + Lead(req.addr), len |-> req.len - Lead(req.addr),
            vals |-> Lead(req.addr)]
  /\ pc \in {"wm_tail", "wm_bytes"} => w.len % 4 # 0

(* What memory is to become once the command being carried out is done, and *)
(* the addresses where the channel and the CPU have not stored that yet:    *)
(* never both of them.  A byte the CPU has still to store is as the host    *)
(* knows it; one the channel has still to store becomes the target once the *)
(* byte of the buffer is programmed over it.                                *)
Target == IF pc \in Loading THEN Acked ELSE want
InChannel(a) == dma.stage = "data" /\ a \in dma.dst .. dma.dst + 4 * dma.n - 1
InCpu(a) ==
  \/ pc \in {"wm_align", "wm_dma"} /\ a \in w.addr .. w.addr + w.len - 1
  \/ pc \in {"wm_tail", "wm_bytes"}
     /\ a \in w.addr + 4 * (w.len \div 4) .. w.addr + w.len - 1

Stored ==
  /\ \A a \in Addr : mem[a] = Target[a] \/ InChannel(a) \/ InCpu(a)
  /\ \A a \in Addr : InCpu(a) => mem[a] = want[a] /\ ~InChannel(a)
  /\ \A a \in Addr : InChannel(a) =>
       Target[a] = Programmed(a, mem[a], BufByte(dma.src, dma.off + (a - dma.dst)))

StoreInv == Controller /\ Block /\ Stored

-----------------------------------------------------------------------------
(* What an ordinary request leaves after its first bytes are stored. *)
LEMMA Request ==
  ASSUME Disciplined, NEW a, NEW l, <<a, l>> \in Reqs
  PROVE  /\ a \in Nat /\ l \in 1 .. BufLen /\ Lead(a) \in 0 .. 3 /\ Lead(a) < l
         /\ (a + Lead(a)) % 4 = 0
         /\ Lead(a) # 0 => (l - Lead(a)) % 4 # 0
         /\ BufLen \in Nat /\ LenMod \in Nat /\ BufLen < LenMod
<1>1. <<a, l>> \in Addr \X (1 .. BufLen) /\ Ordinary(<<a, l>>)
  BY DeviceAssumption DEF Disciplined
<1>2. a \in Nat /\ l \in 1 .. BufLen /\ BufLen \in Nat
  BY <1>1, DeviceAssumption DEF Addr
<1>3. a % 4 = 0 \/ (l > Lead(a) /\ (a + l) % 4 # 0)
  BY <1>1 DEF Ordinary
<1>4. Lead(a) \in 0 .. 3 /\ (a + Lead(a)) % 4 = 0 /\ (a % 4 = 0 => Lead(a) = 0)
  BY <1>2 DEF Lead
<1>5. Lead(a) # 0 => (l - Lead(a)) % 4 # 0
  BY <1>2, <1>3, <1>4
<1> QED BY <1>2, <1>3, <1>4, <1>5, DeviceAssumption

LEMMA StoreInit == Init => StoreInv
BY DEF Init, StoreInv, Controller, Block, Stored, Loading, Settled, Target, InChannel,
       InCpu, ChannelIdle, IdleDma

LEMMA ControllerNext ==
  ASSUME Disciplined, Ownership, Controller, Block, [Next]_vars
  PROVE  Controller'
<1> USE DEF Ownership, Controller, Settled, InBusyWait, Goto, CheckFlashBusy, cpuVars,
            bufVars, hwVars, ghosts, ChannelIdle, IdleDma
<1>1. CASE Hardware
  <2>1. CASE DmaWord     BY <2>1 DEF DmaWord
  <2>2. CASE DmaDisable  BY <2>2 DEF DmaDisable, DisableProgram, WriteCR
  <2>3. CASE FlashDone   BY <2>3 DEF FlashDone
  <2> QED BY <1>1, <2>1, <2>2, <2>3 DEF Hardware
<1>2. CASE Cpu
  <2>1. CASE WriteStep
    <3>1. CASE WmStart BY <3>1 DEF WmStart, Program, WriteCR
    <3>2. CASE WmAlign BY <3>2 DEF WmAlign, StoreBytes
    <3>3. CASE WmDma
      <4>1. /\ w.len = req.len - Lead(req.addr) /\ w.vals = Lead(req.addr)
            /\ <<req.addr, req.len>> \in Reqs
        BY <3>3 DEF WmDma, Block, Loading
      <4>2. /\ w.len \in Nat /\ w.len > 0 /\ w.vals \in 0 .. 3
            /\ w.vals # 0 => w.len % 4 # 0
        BY <4>1, Request
      <4>3. w.len % 4 = 0 => w.len >= 4 /\ w.vals % 4 = 0
        BY <4>2
      <4>4. /\ pc' = IF w.len % 4 = 0 THEN "wm_ack" ELSE "wm_tail"
            /\ w.len < 4 => dma' = dma
            /\ w.len >= 4 => dma'.stage = "data" /\ dma'.stack = (w.vals % 4 # 0)
            /\ dma'.stage \in {"idle", "data"}
            /\ UNCHANGED <<unverified, cr, bsy, fast_pg, ret>>
        <5>1. CASE w.len < 4
          BY <3>3, <5>1, <4>2 DEF WmDma
        <5>2. CASE ~(w.len < 4)
          BY <3>3, <5>2, <4>2 DEF WmDma
        <5> QED BY <5>1, <5>2
      <4>5. "PG" \in cr /\ pc = "wm_dma"
        BY <3>3 DEF WmDma
      <4> QED BY <4>2, <4>3, <4>4, <4>5
    <3>4. CASE WmTail  BY <3>4 DEF WmTail, Program, WriteCR
    <3>5. CASE WmBytes BY <3>5 DEF WmBytes, StoreBytes
    <3>6. CASE WmOff   BY <3>6 DEF WmOff, DisableProgram, WriteCR
    <3>7. CASE WmAck   BY <3>7 DEF WmAck
    <3> QED BY <2>1, <3>1, <3>2, <3>3, <3>4, <3>5, <3>6, <3>7 DEF WriteStep
  <2>2. CASE BusyWait
    <3>1. CASE FbRead
      <4>1. "FASTPG" \notin cr /\ fast_pg' = ("FASTPG" \in cr)
        BY <3>1 DEF FbRead
      <4>2. ~fast_pg'
        BY <4>1, Zenon
      <4>3. pc = "fb_read" /\ pc' = "fb_clear" /\ UNCHANGED <<ret, cr, bsy, dma, unverified>>
        BY <3>1 DEF FbRead
      <4> QED BY <4>2, <4>3
    <3>2. CASE FbClear   BY <3>2 DEF FbClear
    <3>3. CASE FbRestore BY <3>3 DEF FbRestore, Returns
    <3> QED BY <2>2, <3>1, <3>2, <3>3 DEF BusyWait
  <2>3. CASE Erase
    <3>1. ASSUME NEW s \in Sectors, EraseSector(s) PROVE Controller'
      BY <3>1 DEF EraseSector
    <3>2. CASE EraseAck BY <3>2 DEF EraseAck
    <3> QED BY <2>3, <3>1, <3>2 DEF Erase
  <2>4. CASE RmWait \/ CrcRead \/ OoStart \/ OoOff
    <3>1. CASE RmWait  BY <3>1 DEF RmWait
    <3>2. CASE CrcRead BY <3>2 DEF CrcRead
    <3>3. CASE OoStart BY <3>3 DEF OoStart
    <3>4. CASE OoOff   BY <3>4 DEF OoOff, DisableProgram, WriteCR
    <3> QED BY <2>4, <3>1, <3>2, <3>3, <3>4
  <2>5. CASE ResetBoot     BY <2>5 DEF ResetBoot
  <2>6. CASE SoftwareReset BY <2>6 DEF SoftwareReset
  <2>7. CASE JumpToAddress BY <2>7 DEF JumpToAddress
  <2> QED BY <1>2, <2>1, <2>2, <2>3, <2>4, <2>5, <2>6, <2>7 DEF Cpu
<1>3. CASE Host
  <2>1. CASE WriteMemoryCmd \/ WmAddr \/ WmData
    BY <2>1 DEF WriteMemoryCmd, WmAddr, WmData
  <2>2. CASE ReadMemoryCmd \/ RmRead \/ CalculateCrcCmd \/ CrcArgs
    BY <2>2 DEF ReadMemoryCmd, RmRead, CalculateCrcCmd, CrcArgs
  <2>3. CASE GetVersionCmd \/ EraseMemoryCmd \/ EraseOptionBytesCmd \/ ResetDeviceCmd
    BY <2>3 DEF GetVersionCmd, EraseMemoryCmd, EraseOptionBytesCmd, ResetDeviceCmd, Trusted,
                Disciplined
  <2> QED BY <1>3, <2>1, <2>2, <2>3 DEF Host
<1>4. CASE Jumped \/ UNCHANGED vars
  BY <1>4 DEF Jumped, vars
<1> QED BY <1>1, <1>2, <1>3, <1>4 DEF Next

LEMMA ModSmall == \A m, x \in Nat : x < m => x % m = x
OBVIOUS

LEMMA DivMod ==
  \A x \in Nat : /\ x \div 4 \in Nat /\ x % 4 \in Nat /\ 4 * (x \div 4) + (x % 4) = x
                 /\ (x \div 4) * 4 = 4 * (x \div 4)
                 /\ x < 4 => x \div 4 = 0 /\ x % 4 = x
OBVIOUS

LEMMA BlockNext ==
  ASSUME Disciplined, TypeOK, Ownership, Block, [Next]_vars
  PROVE  Block'
<1> USE DEF Block, Loading, Goto, CheckFlashBusy, cpuVars, bufVars, hwVars, ghosts
<1>1. CASE Hardware
  BY <1>1 DEF Hardware, DmaWord, DmaDisable, FlashDone
<1>2. CASE Cpu
  <2>1. CASE WriteStep
    <3>1. CASE WmStart BY <3>1 DEF WmStart
    <3>2. CASE WmAlign
      <4>1. /\ <<req.addr, req.len>> \in Reqs
            /\ w = [addr |-> req.addr, len |-> req.len, vals |-> 0]
        BY <3>2 DEF WmAlign
      <4>2. w' = [addr |-> req.addr + Lead(req.addr),
                  len |-> (req.len - Lead(req.addr)) % LenMod, vals |-> Lead(req.addr)]
        BY <3>2, <4>1 DEF WmAlign, Lead
      <4>3. (req.len - Lead(req.addr)) % LenMod = req.len - Lead(req.addr)
        <5> DEFINE left == req.len - Lead(req.addr)
        <5>0. /\ req.len \in 1 .. BufLen /\ Lead(req.addr) \in 0 .. 3
              /\ Lead(req.addr) < req.len /\ BufLen < LenMod
              /\ BufLen \in Nat /\ LenMod \in Nat
          BY <4>1, Request
        <5>1. left \in Nat /\ left < LenMod /\ LenMod \in Nat
          BY <5>0
        <5> HIDE DEF left
        <5>2. left % LenMod = left
          BY <5>1, ModSmall
        <5> QED BY <5>2 DEF left
      <4> QED BY <3>2, <4>2, <4>3 DEF WmAlign
    <3>3. CASE WmDma   BY <3>3 DEF WmDma
    <3>4. CASE WmTail  BY <3>4 DEF WmTail
    <3>5. CASE WmBytes BY <3>5 DEF WmBytes
    <3>6. CASE WmOff   BY <3>6 DEF WmOff
    <3>7. CASE WmAck   BY <3>7 DEF WmAck
    <3> QED BY <2>1, <3>1, <3>2, <3>3, <3>4, <3>5, <3>6, <3>7 DEF WriteStep
  <2>2. CASE BusyWait
    BY <2>2 DEF BusyWait, FbRead, FbClear, FbRestore, Ownership, Returns
  <2>3. CASE Erase
    BY <2>3 DEF Erase, EraseSector, EraseAck
  <2>4. CASE RmWait \/ CrcRead \/ OoStart \/ OoOff
    BY <2>4 DEF RmWait, CrcRead, OoStart, OoOff
  <2>5. CASE ResetBoot \/ SoftwareReset \/ JumpToAddress
    BY <2>5 DEF ResetBoot, SoftwareReset, JumpToAddress
  <2> QED BY <1>2, <2>1, <2>2, <2>3, <2>4, <2>5 DEF Cpu
<1>3. CASE Host
  <2>1. CASE WriteMemoryCmd BY <2>1 DEF WriteMemoryCmd
  <2>2. CASE WmAddr
    <3>1. ASSUME NEW r \in Reqs PROVE r = <<r[1], r[2]>>
      BY DeviceAssumption
    <3> QED BY <2>2, <3>1 DEF WmAddr
  <2>3. CASE WmData
    <3>1. CASE pc' = "cmd"
      BY <3>1
    <3>2. CASE pc' # "cmd"
      <4>1. /\ pc' = "wm_start" /\ gen' = gen + 1 /\ gen < MaxWrites /\ gen \in Nat
            /\ UNCHANGED <<req, write_mem_idx>>
        BY <2>3, <3>2 DEF WmData, Ownership, TypeOK
      <4>2. \A p \in 0 .. req.len - 1 : write_mem_buf'[write_mem_idx][p] = gen'
        <5>1. write_mem_buf[write_mem_idx] \in [0 .. BufLen - 1 -> 0 .. MaxWrites]
              /\ req.len \in 0 .. BufLen
          BY DEF TypeOK
        <5>2. write_mem_buf'[write_mem_idx] =
                [p \in 0 .. BufLen - 1 |->
                   IF p >= req.len THEN write_mem_buf[write_mem_idx][p] ELSE gen']
          BY <2>3, <3>2 DEF WmData, TypeOK
        <5>3. \A p \in 0 .. req.len - 1 : p \in 0 .. BufLen - 1 /\ ~(p >= req.len)
          BY <5>1, DeviceAssumption
        <5> QED BY <5>2, <5>3
      <4>3. <<req.addr, req.len>> \in Reqs
        BY <2>3 DEF WmData
      <4>4. gen' \in 1 .. MaxWrites
        BY <4>1, DeviceAssumption
      <4> QED BY <4>1, <4>2, <4>3, <4>4
    <3> QED BY <3>1, <3>2
  <2>4. CASE ReadMemoryCmd \/ RmRead \/ CalculateCrcCmd \/ CrcArgs
    BY <2>4 DEF ReadMemoryCmd, RmRead, CalculateCrcCmd, CrcArgs
  <2>5. CASE GetVersionCmd \/ EraseMemoryCmd \/ EraseOptionBytesCmd \/ ResetDeviceCmd
    BY <2>5 DEF GetVersionCmd, EraseMemoryCmd, EraseOptionBytesCmd, ResetDeviceCmd
  <2> QED BY <1>3, <2>1, <2>2, <2>3, <2>4, <2>5 DEF Host
<1>4. CASE Jumped \/ UNCHANGED vars
  BY <1>4 DEF Jumped, vars
<1> QED BY <1>1, <1>2, <1>3, <1>4 DEF Next

-----------------------------------------------------------------------------
LEMMA StoreEffect ==
  ASSUME TypeOK, "PG" \in cr, NEW skip \in Nat, NEW n \in Nat, StoreBytes(skip, n),
         NEW a \in Addr
  PROVE  mem'[a] = IF a \in w.addr + skip .. w.addr + skip + n - 1
                   THEN Programmed(a, mem[a], BufByte(write_mem_idx, w.vals + a - w.addr))
                   ELSE mem[a]
BY DEF StoreBytes, Written

(* The target is the buffer's byte, programmed over what was there. *)
LEMMA Content ==
  ASSUME Disciplined, TypeOK, Block, pc \in Loading,
         NEW a \in Addr, a \in req.addr .. req.addr + req.len - 1
  PROVE  Acked[a] = Programmed(a, want[a], BufByte(write_mem_idx, a - req.addr))
<1>1. req.addr \in Nat /\ req.len \in 0 .. BufLen /\ a \in Nat /\ BufLen \in Nat
  BY DeviceAssumption DEF TypeOK, Addr
<1>2. a - req.addr \in 0 .. req.len - 1 /\ a - req.addr < BufLen
  BY <1>1
<1>3. write_mem_buf[write_mem_idx][a - req.addr] = gen
  BY <1>2 DEF Block
<1> QED BY <1>2, <1>3 DEF Acked, BufByte

LEMMA OutsideBlock ==
  ASSUME NEW a \in Addr, a \notin req.addr .. req.addr + req.len - 1
  PROVE  Acked[a] = want[a]
BY DEF Acked

(* Steps that leave memory, the channel and what is to be stored alone. *)
LEMMA OtherSteps ==
  ASSUME Stored, pc \notin Loading, pc' \notin Loading,
         dma.stage = "idle" \/ UNCHANGED write_mem_buf[dma.src],
         dma' = dma \/ (dma.stage = "idle" /\ dma'.stage = "idle"),
         UNCHANGED <<mem, want>>
  PROVE  Stored'
BY DEF Stored, Target, InChannel, InCpu, Loading, BufByte, Programmed

LEMMA HardwareStored ==
  ASSUME TypeOK, Controller, Stored, Hardware
  PROVE  Stored'
<1> USE DEF cpuVars, bufVars, ghosts
<1>1. /\ Target' = Target /\ UNCHANGED <<pc, w, write_mem_buf>>
      /\ \A a \in Addr : InCpu(a)' <=> InCpu(a)
  BY DEF Hardware, DmaWord, DmaDisable, FlashDone, Target, Loading, Acked, InCpu
<1>2. CASE DmaWord
  <2>1. /\ dma.off \in Nat /\ dma.dst \in Nat /\ dma.n \in Nat /\ dma.n > 0
        /\ dma.stage = "data" /\ "PG" \in cr
    BY <1>2 DEF DmaWord, TypeOK, Controller
  <2>2. \A p : Source(p) = {BufByte(dma.src, p)}
    BY <2>1 DEF Source, FrameLive, Controller
  <2>3. PICK v \in [0 .. 3 -> UNION {Source(dma.off + k) : k \in 0 .. 3}] :
          /\ \A k \in 0 .. 3 : v[k] \in Source(dma.off + k)
          /\ mem' = Written([a \in dma.dst .. dma.dst + 3 |-> v[a - dma.dst]])
    BY <1>2 DEF DmaWord
  <2>4. /\ dma'.stage = "data" /\ dma'.src = dma.src /\ dma'.off = dma.off + 4
        /\ dma'.dst = dma.dst + 4 /\ dma'.n = dma.n - 1
    BY <1>2 DEF DmaWord
  <2>5. ASSUME NEW a \in Addr, a \in dma.dst .. dma.dst + 3
        PROVE  mem'[a] = Target[a]
    <3>1. a - dma.dst \in 0 .. 3 /\ InChannel(a)
      BY <2>1, <2>5 DEF InChannel
    <3>2. mem'[a] = Programmed(a, mem[a], v[a - dma.dst])
      BY <2>1, <2>3, <2>5 DEF Written
    <3>3. v[a - dma.dst] = BufByte(dma.src, dma.off + (a - dma.dst))
      BY <2>2, <2>3, <3>1
    <3> QED BY <3>1, <3>2, <3>3 DEF Stored
  <2>6. ASSUME NEW a \in Addr, a \notin dma.dst .. dma.dst + 3
        PROVE  mem'[a] = mem[a] /\ (InChannel(a)' <=> InChannel(a))
    <3>1. mem'[a] = mem[a]
      BY <2>1, <2>3, <2>6 DEF Written
    <3>2. a \in Nat
      BY DeviceAssumption DEF Addr
    <3> QED BY <2>1, <2>4, <2>6, <3>1, <3>2 DEF InChannel
  <2>7. ASSUME NEW a \in Addr, InChannel(a)'
        PROVE  InChannel(a) /\ dma'.off + (a - dma'.dst) = dma.off + (a - dma.dst)
    <3>1. a \in Nat
      BY DeviceAssumption DEF Addr
    <3> QED BY <2>1, <2>4, <2>7, <3>1 DEF InChannel
  <2>8. ASSUME NEW a \in Addr
        PROVE  mem'[a] = Target'[a] \/ InChannel(a)' \/ InCpu(a)'
    BY <1>1, <2>5, <2>6 DEF Stored
  <2>9. ASSUME NEW a \in Addr, InChannel(a)'
        PROVE  Target'[a] = Programmed(a, mem'[a], BufByte(dma.src, dma.off + (a - dma.dst))')
    <3>1. a \notin dma.dst .. dma.dst + 3
      BY <2>1, <2>4, <2>9, DeviceAssumption DEF InChannel, Addr
    <3>2. InChannel(a) /\ mem'[a] = mem[a]
      BY <2>6, <2>9, <3>1
    <3>3. BufByte(dma.src, dma.off + (a - dma.dst))' = BufByte(dma.src, dma.off + (a - dma.dst))
      BY <1>1, <2>4, <2>7, <2>9 DEF BufByte
    <3>4. Target[a] = Programmed(a, mem[a], BufByte(dma.src, dma.off + (a - dma.dst)))
      BY <3>2 DEF Stored
    <3> QED BY <1>1, <3>2, <3>3, <3>4
  <2>10. ASSUME NEW a \in Addr, InCpu(a)'
         PROVE  mem'[a] = want'[a] /\ ~InChannel(a)'
    <3>1. mem[a] = want[a] /\ ~InChannel(a) /\ want' = want
      BY <1>1, <1>2, <2>10 DEF Stored, DmaWord
    <3>2. a \notin dma.dst .. dma.dst + 3
      BY <2>1, <3>1, DeviceAssumption DEF InChannel, Addr
    <3> QED BY <2>6, <3>1, <3>2
  <2> QED BY <2>8, <2>9, <2>10 DEF Stored, Programmed
<1>3. CASE DmaDisable
  <2>1. \A a \in Addr : ~InChannel(a) /\ ~InChannel(a)'
    BY <1>3, DeviceAssumption DEF DmaDisable, InChannel, IdleDma, TypeOK, Addr
  <2> QED BY <1>1, <1>3, <2>1 DEF DmaDisable, Stored, Programmed
<1>4. CASE FlashDone
  BY <1>1, <1>4 DEF FlashDone, Stored, InChannel, BufByte, Programmed
<1> QED BY <1>2, <1>3, <1>4 DEF Hardware

(* bootWriteDMA moves bytes of the block from the CPU's share to memory or  *)
(* to the channel's share.                                                  *)
LEMMA WriteStored ==
  ASSUME Disciplined, TypeOK, Ownership, Controller, Block, Stored, WriteStep
  PROVE  Stored'
<1> USE DEF Goto, cpuVars, bufVars, ghosts
<1>a. \A a \in Addr : a \in Nat
  BY DeviceAssumption DEF Addr
<1>1. CASE WmStart
  <2>1. /\ pc = "wm_start" /\ pc' = "wm_align" /\ dma.stage = "idle"
        /\ w' = [addr |-> req.addr, len |-> req.len, vals |-> 0]
        /\ UNCHANGED <<mem, want, dma, req, gen>>
    BY <1>1 DEF WmStart, ChannelIdle
  <2>2. \A a \in Addr : mem[a] = want[a] /\ ~InChannel(a)'
    BY <2>1 DEF Stored, Target, InChannel, InCpu, Loading
  <2>3. Target' = Acked
    BY <2>1 DEF Target, Loading, Acked
  <2>4. ASSUME NEW a \in Addr PROVE mem'[a] = Target'[a] \/ InCpu(a)'
    <3>1. CASE a \in req.addr .. req.addr + req.len - 1
      BY <2>1, <3>1 DEF InCpu
    <3>2. CASE a \notin req.addr .. req.addr + req.len - 1
      BY <2>1, <2>2, <2>3, <3>2, OutsideBlock
    <3> QED BY <3>1, <3>2
  <2> QED BY <2>1, <2>2, <2>4 DEF Stored
<1>b. ASSUME WmAlign \/ WmDma \/ WmTail \/ WmBytes \/ WmOff
      PROVE  pc \in Loading /\ Target = Acked /\ Target' = Acked
  BY <1>b DEF WmAlign, WmDma, WmTail, WmBytes, WmOff, Target, Loading, Acked
<1>c. ASSUME pc \in {"wm_align", "wm_dma", "wm_tail", "wm_bytes"}
      PROVE  /\ req.addr \in Nat /\ req.len \in Nat /\ Lead(req.addr) \in 0 .. 3
             /\ Lead(req.addr) < req.len
  <2>1. <<req.addr, req.len>> \in Reqs
    BY <1>c DEF Block, Loading
  <2>2. req.len \in 1 .. BufLen /\ BufLen \in Nat
    BY <2>1, Request
  <2> QED BY <2>1, <2>2, Request
<1>2. CASE WmAlign
  <2>1. /\ pc = "wm_align" /\ pc' = "wm_dma"
        /\ w = [addr |-> req.addr, len |-> req.len, vals |-> 0]
        /\ dma.stage = "idle" /\ dma' = dma /\ "PG" \in cr
    BY <1>2 DEF WmAlign, Block, Ownership, Controller
  <2>e. StoreBytes(0, Lead(req.addr))
    BY <1>2, <2>1 DEF WmAlign, Lead
  <2>c. /\ req.addr \in Nat /\ req.len \in Nat /\ Lead(req.addr) \in 0 .. 3
        /\ Lead(req.addr) < req.len
    BY <1>c, <2>1
  <2>2. w' = [addr |-> req.addr + Lead(req.addr), len |-> req.len - Lead(req.addr),
              vals |-> Lead(req.addr)]
    <3>1. w' = [addr |-> req.addr + Lead(req.addr),
                len |-> (req.len - Lead(req.addr)) % LenMod, vals |-> Lead(req.addr)]
      BY <1>2, <2>1 DEF WmAlign, Lead
    <3> DEFINE left == req.len - Lead(req.addr)
    <3>2. left \in Nat /\ left < LenMod /\ LenMod \in Nat
      <4>1. req.len <= BufLen /\ BufLen \in Nat /\ LenMod \in Nat /\ BufLen < LenMod
        BY DeviceAssumption DEF TypeOK
      <4> QED BY <2>c, <4>1
    <3> HIDE DEF left
    <3>3. left % LenMod = left
      BY <3>2, ModSmall
    <3> QED BY <3>1, <3>3 DEF left
  <2>3. ASSUME NEW a \in Addr
        PROVE  /\ mem'[a] = Acked[a] \/ InCpu(a)'
               /\ InCpu(a)' => mem'[a] = want[a]
    <3>1. mem'[a] = IF a \in req.addr .. req.addr + Lead(req.addr) - 1
                    THEN Programmed(a, mem[a], BufByte(write_mem_idx, a - req.addr))
                    ELSE mem[a]
      <4>1. 0 \in Nat /\ Lead(req.addr) \in Nat
        BY <2>c
      <4>2. mem'[a] = IF a \in w.addr + 0 .. w.addr + 0 + Lead(req.addr) - 1
                      THEN Programmed(a, mem[a], BufByte(write_mem_idx, w.vals + a - w.addr))
                      ELSE mem[a]
        BY <2>1, <2>e, <4>1, StoreEffect
      <4>3. w.addr = req.addr /\ w.vals = 0
        BY <2>1
      <4>4. /\ req.addr + 0 = req.addr /\ 0 + a - req.addr = a - req.addr
            /\ req.addr + 0 + Lead(req.addr) - 1 = req.addr + Lead(req.addr) - 1
        BY <1>a, <2>c
      <4> QED BY <4>2, <4>3, <4>4
    <3>2. CASE a \in req.addr .. req.addr + Lead(req.addr) - 1
      <4>1. a \in req.addr .. req.addr + req.len - 1
        BY <1>a, <2>c, <2>1, <3>2
      <4>2. mem[a] = want[a]
        BY <2>1, <4>1 DEF Stored, InCpu
      <4>3. ~InCpu(a)'
        BY <1>a, <2>c, <2>1, <2>2, <3>2 DEF InCpu
      <4> QED BY <1>2, <1>b, <3>1, <3>2, <4>1, <4>2, <4>3, Content
    <3>3. CASE a \notin req.addr .. req.addr + Lead(req.addr) - 1
      <4>1. mem[a] = Acked[a] \/ a \in req.addr .. req.addr + req.len - 1
        BY <1>2, <1>b, <2>1 DEF Stored, InChannel, InCpu
      <4>2. a \in req.addr .. req.addr + req.len - 1 => InCpu(a)'
        BY <1>a, <2>c, <2>1, <2>2, <3>3 DEF InCpu
      <4>3. InCpu(a)' => a \in req.addr .. req.addr + req.len - 1
        BY <1>a, <2>c, <2>1, <2>2 DEF InCpu
      <4>4. a \in req.addr .. req.addr + req.len - 1 => mem[a] = want[a]
        BY <2>1 DEF Stored, InCpu
      <4> QED BY <3>1, <3>3, <4>1, <4>2, <4>3, <4>4
    <3> QED BY <3>2, <3>3
  <2>4. want' = want
    BY <1>2 DEF WmAlign
  <2> QED BY <1>2, <1>b, <2>1, <2>3, <2>4 DEF Stored, InChannel
<1>d. ASSUME pc \in {"wm_dma", "wm_bytes"}
      PROVE  /\ w.addr = req.addr + Lead(req.addr) /\ w.len = req.len - Lead(req.addr)
             /\ w.vals = Lead(req.addr) /\ dma.stage = "idle" /\ "PG" \in cr
             /\ w.len \in Nat /\ w.len > 0 /\ w.addr \in Nat
             /\ req.addr \in Nat /\ req.len \in Nat /\ Lead(req.addr) \in Nat
  <2>1. /\ w.addr = req.addr + Lead(req.addr) /\ w.len = req.len - Lead(req.addr)
        /\ w.vals = Lead(req.addr) /\ dma.stage = "idle" /\ "PG" \in cr
    BY <1>d DEF Block, Ownership, Controller
  <2>2. /\ req.addr \in Nat /\ req.len \in Nat /\ Lead(req.addr) \in 0 .. 3
        /\ Lead(req.addr) < req.len
    BY <1>c, <1>d
  <2> QED BY <2>1, <2>2
<1>3. CASE WmDma
  <2> DEFINE q == w.len \div 4
             h == Lead(req.addr)
  <2>1. pc = "wm_dma" /\ UNCHANGED <<w, mem, want, write_mem_idx, write_mem_buf>>
    BY <1>3 DEF WmDma
  <2>2. pc' = IF w.len % 4 = 0 THEN "wm_ack" ELSE "wm_tail"
    BY <1>3 DEF WmDma
  <2>3. /\ w.addr = req.addr + h /\ w.len = req.len - h /\ w.vals = h
        /\ w.len \in Nat /\ w.len > 0 /\ w.addr \in Nat
        /\ req.addr \in Nat /\ req.len \in Nat /\ h \in Nat
        /\ dma.stage = "idle"
    BY <1>d, <2>1
  <2>4. /\ q \in Nat /\ 4 * q <= w.len /\ (w.len < 4 => q = 0 /\ w.len % 4 # 0)
        /\ (w.len % 4 = 0 => w.len = 4 * q)
    BY <2>3, DivMod
  <2>5. \A a \in Addr : mem[a] = Acked[a] \/ a \in w.addr .. w.addr + w.len - 1
    BY <1>3, <1>b, <2>3, <2>1 DEF Stored, InChannel, InCpu
  <2>6. \A a \in Addr : InCpu(a)' <=>
          pc' = "wm_tail" /\ a \in w.addr + 4 * q .. w.addr + w.len - 1
    BY <2>1, <2>2 DEF InCpu
  <2>7. dma' = IF w.len < 4 THEN dma
               ELSE [stage |-> "data", src |-> write_mem_idx, stack |-> w.vals % 4 # 0,
                     off |-> w.vals, dst |-> w.addr, n |-> q]
    BY <1>3 DEF WmDma
  <2>a. \A a \in Addr : a \in w.addr .. w.addr + w.len - 1 => mem[a] = want[a]
    BY <2>1 DEF Stored, InCpu
  <2> HIDE DEF q, h
  <2>b. \A a \in Addr : InCpu(a)' => mem'[a] = want'[a]
    <3>1. ASSUME NEW a \in Addr, InCpu(a)' PROVE a \in w.addr .. w.addr + w.len - 1
      BY <1>a, <2>3, <2>4, <2>6, <3>1
    <3> QED BY <2>1, <2>a, <3>1
  <2>8. CASE w.len < 4
    <3>1. pc' = "wm_tail" /\ dma' = dma /\ q = 0
      BY <2>2, <2>4, <2>7, <2>8
    <3>2. \A a \in Addr : ~InChannel(a)'
      BY <2>3, <3>1 DEF InChannel
    <3>3. w.addr + 4 * q = w.addr
      BY <2>3, <3>1
    <3> QED BY <1>3, <1>b, <2>1, <2>5, <2>6, <2>b, <3>1, <3>2, <3>3 DEF Stored
  <2>9. CASE ~(w.len < 4)
    <3>1. /\ dma'.stage = "data" /\ dma'.src = write_mem_idx /\ dma'.off = w.vals
          /\ dma'.dst = w.addr /\ dma'.n = q
      BY <2>7, <2>9
    <3>2. \A a \in Addr : InChannel(a)' <=> a \in w.addr .. w.addr + 4 * q - 1
      BY <3>1 DEF InChannel
    <3>3. ASSUME NEW a \in Addr, a \in w.addr .. w.addr + w.len - 1
          PROVE  InChannel(a)' \/ InCpu(a)'
      <4>1. \/ a \in w.addr .. w.addr + 4 * q - 1
            \/ a \in w.addr + 4 * q .. w.addr + w.len - 1
        BY <1>a, <2>3, <2>4, <3>3
      <4>2. w.len % 4 = 0 => a \in w.addr .. w.addr + 4 * q - 1
        BY <2>4, <3>3
      <4> QED BY <2>2, <2>6, <3>2, <4>1, <4>2
    <3>4. ASSUME NEW a \in Addr, InChannel(a)'
          PROVE  Acked[a] = Programmed(a, mem[a], BufByte(dma.src, dma.off + (a - dma.dst))')
      <4>1. a \in w.addr .. w.addr + 4 * q - 1
        BY <3>2, <3>4
      <4>2. /\ a \in req.addr .. req.addr + req.len - 1
            /\ w.vals + (a - w.addr) = a - req.addr
        BY <1>a, <2>3, <2>4, <4>1
      <4>3. Acked[a] = Programmed(a, want[a], BufByte(write_mem_idx, a - req.addr))
        BY <1>3, <1>b, <4>2, Content
      <4>4. mem[a] = want[a]
        BY <1>a, <2>3, <2>4, <2>a, <4>1
      <4>5. BufByte(dma.src, dma.off + (a - dma.dst))' = BufByte(write_mem_idx, a - req.addr)
        BY <2>1, <3>1, <4>2 DEF BufByte
      <4> QED BY <4>3, <4>4, <4>5
    <3>5. ASSUME NEW a \in Addr, InCpu(a)' PROVE ~InChannel(a)'
      BY <1>a, <2>3, <2>4, <2>6, <3>2, <3>5
    <3> QED BY <1>3, <1>b, <2>1, <2>5, <2>b, <3>3, <3>4, <3>5 DEF Stored, Programmed
  <2> QED BY <2>8, <2>9
<1>4. CASE WmTail
  BY <1>4, <1>b DEF WmTail, ChannelIdle, Stored, InChannel, InCpu
<1>5. CASE WmBytes
  <2> DEFINE skip == (w.len \div 4) * 4
             n == w.len % 4
             h == Lead(req.addr)
  <2>1. pc = "wm_bytes" /\ pc' = "wm_off" /\ dma' = dma
    BY <1>5 DEF WmBytes
  <2>2. StoreBytes(skip, n)
    BY <1>5 DEF WmBytes
  <2>3. /\ w.addr = req.addr + h /\ w.len = req.len - h /\ w.vals = h
        /\ w.len \in Nat /\ w.len > 0 /\ w.addr \in Nat
        /\ req.addr \in Nat /\ req.len \in Nat /\ h \in Nat
        /\ dma.stage = "idle" /\ "PG" \in cr
    BY <1>d, <2>1
  <2>4. skip \in Nat /\ n \in Nat /\ skip + n = w.len /\ skip = 4 * (w.len \div 4)
    BY <2>3, DivMod
  <2>5. \A a \in Addr : mem[a] = Acked[a] \/ a \in w.addr + skip .. w.addr + w.len - 1
    BY <1>5, <1>b, <2>1, <2>3, <2>4 DEF Stored, InChannel, InCpu
  <2>a. \A a \in Addr : a \in w.addr + skip .. w.addr + w.len - 1 => mem[a] = want[a]
    BY <2>1, <2>4 DEF Stored, InCpu
  <2> HIDE DEF skip, n, h
  <2>6. ASSUME NEW a \in Addr PROVE mem'[a] = Acked[a]
    <3>1. mem'[a] = IF a \in w.addr + skip .. w.addr + skip + n - 1
                    THEN Programmed(a, mem[a], BufByte(write_mem_idx, w.vals + a - w.addr))
                    ELSE mem[a]
      <4>1. skip \in Nat /\ n \in Nat /\ "PG" \in cr
        BY <2>3, <2>4
      <4> QED BY <2>2, <4>1, StoreEffect
    <3>2. w.addr + skip + n - 1 = w.addr + w.len - 1
      BY <2>3, <2>4
    <3>3. CASE a \in w.addr + skip .. w.addr + w.len - 1
      <4>1. a \in req.addr .. req.addr + req.len - 1 /\ w.vals + a - w.addr = a - req.addr
        BY <1>a, <2>3, <2>4, <3>3
      <4>2. mem[a] = want[a]
        BY <2>1, <2>a, <3>3
      <4> QED BY <1>5, <1>b, <3>1, <3>2, <3>3, <4>1, <4>2, Content
    <3>4. CASE a \notin w.addr + skip .. w.addr + w.len - 1
      BY <2>5, <3>1, <3>2, <3>4
    <3> QED BY <3>3, <3>4
  <2>7. \A a \in Addr : ~InCpu(a)'
    BY <2>1 DEF InCpu
  <2> QED BY <1>5, <1>b, <2>1, <2>3, <2>6, <2>7 DEF Stored, InChannel
<1>6. CASE WmOff
  BY <1>6, <1>b DEF WmOff, Ownership, Stored, InChannel, InCpu
<1>7. CASE WmAck
  <2>1. /\ pc = "wm_ack" /\ pc' = "cmd" /\ want' = Acked
        /\ UNCHANGED <<mem, dma, write_mem_buf>>
    BY <1>7 DEF WmAck, hwVars
  <2>2. Target' = Acked /\ Target = Acked
    BY <2>1 DEF Target, Loading
  <2> QED BY <2>1, <2>2 DEF Stored, InChannel, InCpu, BufByte, Programmed
<1> QED BY <1>1, <1>2, <1>3, <1>4, <1>5, <1>6, <1>7 DEF WriteStep

LEMMA StoredNext ==
  ASSUME Disciplined, TypeOK, Ownership, Controller, Block, Stored, [Next]_vars
  PROVE  Stored'
<1> USE DEF Goto, CheckFlashBusy, cpuVars, bufVars, hwVars, ghosts
<1>1. CASE Hardware BY <1>1, HardwareStored
<1>2. CASE Cpu
  <2>1. CASE WriteStep BY <2>1, WriteStored
  <2>2. CASE BusyWait
    BY <2>2, OtherSteps DEF BusyWait, FbRead, FbClear, FbRestore, Ownership, Returns, Loading
  <2>3. CASE Erase
    <3>1. ASSUME NEW s \in Sectors, EraseSector(s) PROVE Stored'
      <4>1. /\ dma.stage = "idle" /\ dma' = dma /\ pc = "ee_next" /\ pc' = "fb_read"
            /\ mem' = [a \in Addr |-> IF a \div SectorSize = s THEN Erased ELSE mem[a]]
            /\ want' = [a \in Addr |-> IF a \div SectorSize = s THEN Erased ELSE want[a]]
        BY <3>1 DEF EraseSector, Controller, Settled, ChannelIdle
      <4>2. \A a \in Addr : mem[a] = want[a]
        BY <4>1 DEF Stored, Target, InChannel, InCpu, Loading
      <4>3. \A a \in Addr : mem'[a] = want'[a]
        BY <4>1, <4>2, Zenon
      <4>4. Target' = want' /\ \A a \in Addr : ~InChannel(a)'
        BY <4>1 DEF Target, InChannel, Loading
      <4> QED BY <4>3, <4>4 DEF Stored
    <3>2. CASE EraseAck
      BY <3>2, OtherSteps DEF EraseAck, Loading
    <3> QED BY <2>3, <3>1, <3>2 DEF Erase
  <2>4. CASE RmWait \/ CrcRead \/ OoStart \/ OoOff
    BY <2>4, OtherSteps DEF RmWait, CrcRead, OoStart, OoOff, Loading
  <2>5. CASE ResetBoot BY <2>5, OtherSteps DEF ResetBoot, Loading
  <2>6. CASE SoftwareReset
    BY <2>6, OtherSteps DEF SoftwareReset, Loading, Ownership, IdleDma
  <2>7. CASE JumpToAddress
    BY <2>7, OtherSteps DEF JumpToAddress, Loading, Ownership, IdleDma
  <2> QED BY <1>2, <2>1, <2>2, <2>3, <2>4, <2>5, <2>6, <2>7 DEF Cpu
<1>3. CASE Host
  <2>1. CASE WriteMemoryCmd \/ WmAddr
    BY <2>1, OtherSteps DEF WriteMemoryCmd, WmAddr, Loading
  <2>2. CASE WmData
    <3>1. dma.stage = "data" => dma.src # write_mem_idx /\ dma.src \in Buffers
      BY <2>2 DEF WmData, Ownership, TypeOK, Buffers
    <3>2. dma.stage = "idle" \/ UNCHANGED write_mem_buf[dma.src]
      BY <2>2, <3>1 DEF WmData, TypeOK, Ownership
    <3>3. pc \notin Loading /\ pc' \notin Loading /\ UNCHANGED <<dma, mem, want>>
      BY <2>2 DEF WmData, Loading
    <3> QED BY <3>2, <3>3, OtherSteps
  <2>3. CASE ReadMemoryCmd \/ RmRead \/ CalculateCrcCmd \/ CrcArgs
    BY <2>3, OtherSteps DEF ReadMemoryCmd, RmRead, CalculateCrcCmd, CrcArgs, Loading
  <2>4. CASE GetVersionCmd \/ EraseMemoryCmd \/ EraseOptionBytesCmd \/ ResetDeviceCmd
    BY <2>4, OtherSteps
       DEF GetVersionCmd, EraseMemoryCmd, EraseOptionBytesCmd, ResetDeviceCmd, Loading
  <2> QED BY <1>3, <2>1, <2>2, <2>3, <2>4 DEF Host
<1>4. CASE Jumped \/ UNCHANGED vars
  BY <1>4 DEF Jumped, vars, Stored, Target, InChannel, InCpu, Acked, BufByte, Loading,
              Programmed
<1> QED BY <1>1, <1>2, <1>3, <1>4 DEF Next

Invariant == TypeOK /\ Ownership /\ StoreInv

LEMMA InvariantHolds == ASSUME Disciplined PROVE Spec => []Invariant
<1>1. Init => Invariant
  BY TypeInit, OwnershipInit, StoreInit DEF Invariant
<1>2. Invariant /\ [Next]_vars => Invariant'
  BY TypeNext, OwnershipNext, ControllerNext, BlockNext, StoredNext DEF Invariant, StoreInv
<1> QED BY <1>1, <1>2, PTL DEF Spec

(* With the channel idle and nothing left to store, memory is what the host *)
(* was told.                                                                *)
LEMMA AllStored ==
  ASSUME Invariant, ChannelIdle, pc \notin Loading
  PROVE  mem = want
<1>1. \A a \in Addr : mem[a] = want[a]
  BY DEF Invariant, StoreInv, Stored, Target, InChannel, InCpu, ChannelIdle, Loading
<1>2. mem \in [Addr -> Vals] /\ want \in [Addr -> Vals]
  BY DEF Invariant, TypeOK
<1> QED BY <1>1, <1>2

(* Once the channel is done, memory is what the acknowledged blocks and     *)
(* erases make of it, although the acknowledgement does not wait for the    *)
(* channel: a block at erased, unprotected bytes is in memory; one at a     *)
(* protected sector, acknowledged too, has changed nothing there.           *)
THEOREM AcknowledgedIsStored == ASSUME Disciplined PROVE Spec => []AckedIsStored
<1>1. Invariant => AckedIsStored
  BY AllStored DEF AckedIsStored, Loading
<1> QED BY <1>1, InvariantHolds, PTL

(* FASTPG is off between commands: the linked item clears it, and no        *)
(* checkFlashBusy brings back what it has cleared.                          *)
THEOREM FastPgIsOff == ASSUME Disciplined PROVE Spec => []FastPgOff
<1>1. Invariant => FastPgOff
  BY DEF Invariant, StoreInv, Controller, FastPgOff
<1> QED BY <1>1, InvariantHolds, PTL

-----------------------------------------------------------------------------
(* Refinement: each step of the device is a step of the memory service, or  *)
(* changes neither what the host was told nor what it has read.             *)
LEMMA WriteIsWrite ==
  ASSUME Invariant, WmAck
  PROVE  \E r \in Reqs, b \in 1 .. MaxWrites : Service!Write(r, b)
<1>1. <<req.addr, req.len>> \in Reqs /\ gen \in 1 .. MaxWrites
  BY DEF WmAck, Goto, Invariant, StoreInv, Block, Loading
<1>2. want' = Acked /\ rd' = rd
  BY DEF WmAck
<1>3. Service!Write(<<req.addr, req.len>>, gen)
  BY <1>2 DEF Service!Write, Acked, Programmed
<1> QED BY <1>1, <1>3

LEMMA ReadIsRead ==
  ASSUME Invariant, RmRead \/ CrcRead
  PROVE  Service!Read \/ UNCHANGED <<want, rd>>
<1>1. CASE RmRead
  <2>1. mem = want
    BY <1>1, AllStored
       DEF RmRead, Goto, Invariant, StoreInv, Controller, Settled, Loading
  <2> QED BY <1>1, <2>1 DEF RmRead, Service!Read, ghosts
<1>2. CASE CrcRead
  <2>1. mem = want
    BY <1>2, AllStored DEF CrcRead, Goto, Loading
  <2> QED BY <1>2, <2>1 DEF CrcRead, Service!Read, ghosts
<1> QED BY <1>1, <1>2

LEMMA EraseIsErase ==
  ASSUME NEW s \in Sectors, EraseSector(s)
  PROVE  Service!EraseSector(s)
BY DEF EraseSector, Service!EraseSector

(* The loader implements MemService: whatever the channel has still to copy *)
(* when a command arrives, a read returns what every acknowledged block and *)
(* erase has made of the flash, and a block becomes visible as a whole.     *)
THEOREM ImplementsMemService == ASSUME Disciplined PROVE Spec => ServesMemory
<1>1. Init => Service!Init
  BY DEF Init, Service!Init
<1>2. Invariant /\ [Next]_vars => [Service!Next]_<<want, rd>>
  <2> SUFFICES ASSUME Invariant, [Next]_vars
               PROVE  Service!Next \/ UNCHANGED <<want, rd>>
    OBVIOUS
  <2> USE DEF ghosts
  <2>1. CASE WmAck
    BY <2>1, WriteIsWrite DEF Service!Next
  <2>2. CASE RmRead \/ CrcRead
    BY <2>2, ReadIsRead DEF Service!Next
  <2>3. ASSUME NEW s \in Sectors, EraseSector(s) PROVE Service!Next
    BY <2>3, EraseIsErase DEF Service!Next, Sectors
  <2>4. CASE Hardware
    BY <2>4 DEF Hardware, DmaWord, DmaDisable, FlashDone
  <2>5. CASE WmStart \/ WmAlign \/ WmDma \/ WmTail \/ WmBytes \/ WmOff
    BY <2>5 DEF WmStart, WmAlign, WmDma, WmTail, WmBytes, WmOff
  <2>6. CASE BusyWait \/ EraseAck
    BY <2>6 DEF BusyWait, FbRead, FbClear, FbRestore, EraseAck
  <2>7. CASE RmWait \/ OoStart \/ OoOff \/ ResetBoot \/ SoftwareReset \/ JumpToAddress
    BY <2>7 DEF RmWait, OoStart, OoOff, ResetBoot, SoftwareReset, JumpToAddress
  <2>8. CASE WriteMemoryCmd \/ ReadMemoryCmd \/ CalculateCrcCmd \/ WmAddr \/ WmData \/ CrcArgs
    BY <2>8 DEF WriteMemoryCmd, ReadMemoryCmd, CalculateCrcCmd, WmAddr, WmData, CrcArgs
  <2>9. CASE GetVersionCmd \/ EraseMemoryCmd \/ EraseOptionBytesCmd \/ ResetDeviceCmd
    BY <2>9 DEF GetVersionCmd, EraseMemoryCmd, EraseOptionBytesCmd, ResetDeviceCmd
  <2>10. CASE Jumped \/ UNCHANGED vars
    BY <2>10 DEF Jumped, vars
  <2> QED
    BY <2>1, <2>2, <2>3, <2>4, <2>5, <2>6, <2>7, <2>8, <2>9, <2>10
       DEF Next, Host, Cpu, WriteStep, Erase
<1> QED BY <1>1, <1>2, InvariantHolds, PTL DEF Spec, ServesMemory, Service!Spec
=============================================================================
