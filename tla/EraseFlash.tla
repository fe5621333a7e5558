----------------------------- MODULE EraseFlash -----------------------------
(***************************************************************************)
(* uart_erase_flash of uart_master.c: a byte range is turned into sector   *)
(* and block pages, sent in frames of at most DFU_MAX_FRAME - 1 pages, and *)
(* each frame is carried out by eraseMemoryExtendedCmd of boot.c.          *)
(* Addresses are relative to FLASH_BASE, sectors numbered from 0.          *)
(***************************************************************************)
EXTENDS Integers, Sequences, FiniteSets

CONSTANTS
  SectorSize,     (* FLASH_SECTOR_SIZE                                       *)
  BlockSectors,   (* FLASH_BLOCK_SIZE / FLASH_SECTOR_SIZE                    *)
  FlashSectors,   (* sectors of the device                                   *)
  MaxPages,       (* DFU_MAX_FRAME - 1                                       *)
  LastWp,         (* 31: the last bit of WRPR, which stands for all the rest *)
  WrpChoices,     (* sets of write-protected bits to consider                *)
  Requests,       (* <<address, length>> pairs to consider                   *)
  OptionBase,     (* FLASH_OPTION_BASE                                       *)
  OptionSize      (* FLASH_OPTION_SIZE                                       *)

ASSUME EraseAssumption ==
  /\ {SectorSize, BlockSectors, FlashSectors, MaxPages, OptionSize} \subseteq Nat \ {0}
  /\ LastWp \in Nat /\ WrpChoices \subseteq SUBSET (0 .. LastWp)
  /\ Requests \subseteq Nat \X Nat /\ OptionBase \in Nat
  /\ OptionBase >= FlashSectors * SectorSize

VARIABLES
  pc,             (* the master: in its loop, waiting for the frame, returned *)
  req,            (* address and length                                      *)
  addr,           (* where the loop is                                       *)
  pages,          (* the pages of the frame being made or carried out        *)
  wrp,            (* the write-protected bits, fixed                         *)
  erased,         (* sectors the device has erased                           *)
  optErased,      (* the option bytes were erased                            *)
  result

vars == <<pc, req, addr, pages, wrp, erased, optErased, result>>

Sector(n) == [block |-> FALSE, n |-> n]
Block(n)  == [block |-> TRUE, n |-> n]       (* page number | DFU_BLOCK_ERASE *)

-----------------------------------------------------------------------------
(* The device: sectors a page stands for, and what is protected of them. *)
Covers(p) ==
  IF p.block THEN p.n * BlockSectors .. (p.n + 1) * BlockSectors - 1 ELSE {p.n}

SectorProtected(s) == (IF s > LastWp THEN LastWp ELSE s) \in wrp

(* Mutant: only the first sector of a block is looked up. *)
Protected_First(p) == SectorProtected(IF p.block THEN p.n * BlockSectors ELSE p.n)

Protected(p) == \E s \in Covers(p) : SectorProtected(s)
MemoryErasable == \A i \in DOMAIN pages : ~Protected(pages[i])

-----------------------------------------------------------------------------
(* The master. *)
Begin == (req.address \div SectorSize) * SectorSize
EndOf == ((req.address + req.length + SectorSize - 1) \div SectorSize) * SectorSize
IsOption == req.address \in OptionBase .. OptionBase + OptionSize - 1
AtBlock  == addr % (BlockSectors * SectorSize) = 0
            /\ addr + BlockSectors * SectorSize <= EndOf

Return(value) == pc' = "done" /\ result' = value

EraseNothing ==
  /\ pc = "begin" /\ req.length = 0
  /\ Return("true")
  /\ UNCHANGED <<req, addr, pages, wrp, erased, optErased>>

EraseBegin ==
  /\ pc = "begin" /\ req.length > 0
  /\ pc' = "loop" /\ addr' = Begin /\ pages' = <<>>
  /\ UNCHANGED <<req, wrp, erased, optErased, result>>

(* A range in the option bytes: uart_cmd_option_erase, and that is all. *)
OptionErase ==
  /\ pc = "loop" /\ addr < EndOf /\ IsOption
  /\ optErased' = TRUE /\ Return("true")
  /\ UNCHANGED <<req, addr, pages, wrp, erased>>

(* Mutant: the frame is sent one page late. *)
AddPage_OneMore(p, size) ==
  /\ pc = "loop" /\ addr < EndOf /\ ~IsOption
  /\ pages' = Append(pages, p) /\ addr' = addr + size
  /\ pc' = IF Len(pages') > MaxPages \/ addr' >= EndOf THEN "erase" ELSE "loop"
  /\ UNCHANGED <<req, wrp, erased, optErased, result>>

(* One page is added; a frame that is full, or the last, is sent. *)
AddPage(p, size) ==
  /\ pc = "loop" /\ addr < EndOf /\ ~IsOption
  /\ pages' = Append(pages, p) /\ addr' = addr + size
  /\ pc' = IF Len(pages') >= MaxPages \/ addr' >= EndOf THEN "erase" ELSE "loop"
  /\ UNCHANGED <<req, wrp, erased, optErased, result>>

Page == addr \div SectorSize                          (* flash_addr_to_page *)
AddBlock  == AtBlock /\ AddPage(Block(Page), BlockSectors * SectorSize)
AddSector == ~AtBlock /\ AddPage(Sector(Page), SectorSize)

(* The device refuses a frame with a protected page before it erases any.  *)
Refuse ==
  /\ pc = "erase" /\ ~MemoryErasable
  /\ Return("false")
  /\ UNCHANGED <<req, addr, pages, wrp, erased, optErased>>

Accept ==
  /\ pc = "erase" /\ MemoryErasable
  /\ pc' = "erasing"
  /\ UNCHANGED <<req, addr, pages, wrp, erased, optErased, result>>

(* bootErase; addresses past the flash are not part of it. *)
ErasePage ==
  /\ pc = "erasing" /\ pages # <<>>
  /\ pages' = Tail(pages)
  /\ erased' = IF Protected(Head(pages)) THEN erased
               ELSE erased \cup (Covers(Head(pages)) \cap (0 .. FlashSectors - 1))
  /\ UNCHANGED <<pc, req, addr, wrp, optErased, result>>

(* Mutant: only the first frame is sent. *)
Erased_Once ==
  /\ pc = "erasing" /\ pages = <<>>
  /\ Return("true")
  /\ UNCHANGED <<req, addr, pages, wrp, erased, optErased>>

Erased ==
  /\ pc = "erasing" /\ pages = <<>>
  /\ IF addr < EndOf THEN pc' = "loop" /\ UNCHANGED result ELSE Return("true")
  /\ UNCHANGED <<req, addr, pages, wrp, erased, optErased>>

Returned == pc = "done" /\ UNCHANGED vars

Init ==
  /\ pc = "begin" /\ req \in {[address |-> r[1], length |-> r[2]] : r \in Requests}
  /\ addr = 0 /\ pages = <<>> /\ wrp \in WrpChoices
  /\ erased = {} /\ optErased = FALSE /\ result = "none"

Next ==
  \/ EraseNothing \/ EraseBegin \/ OptionErase \/ AddBlock \/ AddSector
  \/ Refuse \/ Accept \/ ErasePage \/ Erased \/ Returned

Spec == Init /\ [][Next]_vars

-----------------------------------------------------------------------------
(* The sectors the range asked for touches. *)
Asked == {s \in 0 .. FlashSectors - 1 :
            /\ req.length > 0
            /\ req.address < (s + 1) * SectorSize
            /\ req.address + req.length > s * SectorSize}

(* A frame the device is given holds at least one page and fits its        *)
(* buffer; a range that is exactly used up leaves no empty frame behind.   *)
FrameFits == pc = "erase" => Len(pages) \in 1 .. MaxPages

(* Neither a sector outside the range nor a protected one is erased, not   *)
(* even when a later frame of the same range is refused.                   *)
OnlyAsked == erased \subseteq {s \in Asked : ~((IF s > LastWp THEN LastWp ELSE s) \in wrp)}

(* Success means that every sector of the range was erased, however it was *)
(* cut into blocks, sectors and frames ("Page number used in DFU actually  *)
(* means 4K sector").                                                      *)
AllErased == pc = "done" /\ result = "true" => Asked \subseteq erased
=============================================================================
