----------------------------- MODULE LogicUpdate -----------------------------
(***************************************************************************)
(* The presses of example/main.c with every function they call: after      *)
(* uart_init, the first button calls uart_init_flash, uart_update_logic    *)
(* and uart_update_program, the second one uart_update_logic, each whether *)
(* the one before has succeeded or not.  A step is a command of            *)
(* uart_master.c: it is carried out and answered, or a fault cuts it short *)
(* (UartLink is the serial line under it).  Addresses count cells, a part  *)
(* of a sector; the program is at 0 and the logic at the end of the flash. *)
(***************************************************************************)
EXTENDS Integers, Sequences

CONSTANTS
  SectorCells,    (* cells of a sector (FLASH_SECTOR_SIZE)                   *)
  BlockSectors,   (* FLASH_BLOCK_SIZE / FLASH_SECTOR_SIZE                    *)
  FlashSectors,   (* flash_size, in sectors                                  *)
  PlainSectors,   (* FLASH_CONFIG_SIZE of a logic that is not compressed     *)
  PackedSectors,  (* COMPRESSED_SIZE                                         *)
  LogicOffset,    (* FLASH_LOGIC - FLASH_DECOMP                              *)
  Cells,          (* name of an image -> the cells it takes                  *)
  Packed,         (* the logic images that are shorter than COMPRESSED_SIZE  *)
  Starts,         (* option bytes and flash before the first press           *)
  MaxPresses,     (* bound: times a button is pressed                        *)
  MaxFaults       (* bound: faults in a run                                  *)

Names == {"program", "default", "config", "config1", "decomp"}
Logic == <<"config", "config1">>              (* what button 1 and 2 write *)

FlashCells    == FlashSectors * SectorCells
ConfigSectors(packed) == IF packed THEN PackedSectors ELSE PlainSectors
ConfigAddr(packed)    == FlashCells - ConfigSectors(packed) * SectorCells

(* Option bytes: the RDP word, and the two ways to find the logic: words   *)
(* 12, 13 and words 14 to 17; a word and its inverse are valid together.   *)
(* "ok" is what uart_write_options writes, "other" a valid other address.  *)
Addresses   == {"none", "ok", "other", "bad"}
OptionBytes == [rdp : {"erased", "zero", "key"}, plain : Addresses, packed : Addresses]

ASSUME LogicAssumption ==
  /\ {SectorCells, BlockSectors, FlashSectors, PlainSectors, PackedSectors} \subseteq Nat \ {0}
  /\ {LogicOffset, MaxPresses, MaxFaults} \subseteq Nat
  /\ FlashSectors <= BlockSectors * BlockSectors
  /\ Cells \in [Names -> Nat \ {0}] /\ Packed \subseteq {"config", "config1"}
  /\ Cells["program"] <= ConfigAddr(FALSE) /\ Cells["default"] <= ConfigAddr(FALSE)
  /\ PackedSectors <= PlainSectors /\ PlainSectors <= FlashSectors
  /\ Cells["decomp"] <= LogicOffset
  /\ \A i \in {"config", "config1"} :
       (IF i \in Packed THEN LogicOffset ELSE 0) + Cells[i]
         <= ConfigSectors(i \in Packed) * SectorCells
  /\ \A s \in Starts :
       /\ s.opt \in OptionBytes
       /\ s.flash = [c \in 0 .. FlashCells - 1 |-> s.flash[c]]

VARIABLES
  button,         (* the button pressed last                                 *)
  fn,             (* the function being called, "idle" between presses       *)
  todo,           (* the commands left of it                                 *)
  ok,             (* no command of it has failed                             *)
  compress,       (* logic_compress, kept from call to call                  *)
  results,        (* function -> what it returned in this press              *)
  session,        (* the loader runs and is in step with the master          *)
  prot,           (* read protection, as loaded by the last reset            *)
  opt,            (* the option bytes                                        *)
  flash,          (* cell -> <<image, cell of it>>, Blank or Garbled         *)
  presses, faults,
  had,            (* history: the program in flash when the button was pressed *)
  clean           (* history: no fault since then                            *)

vars == <<button, fn, todo, ok, compress, results, session, prot, opt, flash,
          presses, faults, had, clean>>

Blank   == <<"blank", 0>>
Garbled == <<"garbled", 0>>
Functions == {"init_flash", "update_logic", "update_program"}

ErasedOpt == [rdp |-> "erased", plain |-> "none", packed |-> "none"]
OptFor(packed) == [rdp |-> "key", plain  |-> IF packed THEN "none" ELSE "ok",
                                  packed |-> IF packed THEN "ok" ELSE "none"]

AllBlank == [c \in 0 .. FlashCells - 1 |-> Blank]
Holds(name, at) == \A i \in 0 .. Cells[name] - 1 : flash[at + i] = <<name, i>>

-----------------------------------------------------------------------------
(* The commands of a function. *)
Size     == [do |-> "size"]
Options  == [do |-> "options"]
OptErase == [do |-> "opt_erase"]
OptWrite == <<[do |-> "opt_write"], [do |-> "opt_verify"]>>
Erase(at, sectors) == [do |-> "erase", at |-> at, sectors |-> sectors]
WriteMemory(at, name) == <<[do |-> "write", at |-> at, name |-> name],
                           [do |-> "verify", at |-> at, name |-> name]>>

(* Mutant: the options are programmed over the old ones. *)
WriteOptions_NoErase == OptWrite

WriteOptions == <<OptErase>> \o OptWrite
InitFlash    == <<Size>> \o WriteOptions \o WriteMemory(0, "default")
ProgramSectors == (Cells["program"] + SectorCells - 1) \div SectorCells
UpdateProgram == <<Erase(0, ProgramSectors)>> \o WriteMemory(0, "program")

(* The end of uart_update_logic: the decompressor, if any, and the logic.  *)
LogicAt(packed) == ConfigAddr(packed) + (IF packed THEN LogicOffset ELSE 0)
WriteLogic(image) ==
  (IF compress THEN WriteMemory(ConfigAddr(TRUE), "decomp") ELSE <<>>)
    \o WriteMemory(LogicAt(compress), image)

(* Mutant: a plain address that is still valid is not looked at. *)
Rewrite_PlainLeft ==
  IF compress THEN opt.packed # "ok" ELSE opt.plain # "ok"

Rewrite ==
  IF compress THEN opt.packed # "ok" \/ opt.plain \in {"ok", "other"}
              ELSE opt.plain # "ok"

(* Mutant: the program that the option bytes cost is not written again. *)
PlaceLogic_NoDefault ==
  IF Rewrite THEN WriteOptions
  ELSE <<Erase(ConfigAddr(compress), ConfigSectors(compress))>>

(* Once the option bytes are read: a new address erases the whole chip, so *)
(* a default program is written; otherwise only the place is erased.       *)
PlaceLogic ==
  IF Rewrite THEN WriteOptions \o WriteMemory(0, "default")
  ELSE <<Erase(ConfigAddr(compress), ConfigSectors(compress))>>

-----------------------------------------------------------------------------
(* What a command does to the device, as far as its first n parts.         *)
InBlock(s, c) ==             (* s is in a whole block of the range, but block 0 *)
  LET b == (s \div BlockSectors) * BlockSectors
  IN  b > 0 /\ b * SectorCells >= c.at /\ b + BlockSectors <= c.at \div SectorCells + c.sectors

(* The number sent for a whole block is that of its first sector; the      *)
(* loader takes it for a block number, past the end of the flash.          *)
Erases(c, n) ==
  {s \in c.at \div SectorCells .. c.at \div SectorCells + n - 1 : ~InBlock(s, c)}

Program(old, new) == IF old \in {Blank, new} THEN new ELSE Garbled

(* Programming the RDP word of erased option bytes erases the chip. *)
FlashAfter(c, n) ==
  CASE c.do = "write"     -> [a \in DOMAIN flash |->
                               IF a \in c.at .. c.at + n - 1
                               THEN Program(flash[a], <<c.name, a - c.at>>) ELSE flash[a]]
    [] c.do = "erase"     -> [a \in DOMAIN flash |->
                               IF a \div SectorCells \in Erases(c, n) THEN Blank ELSE flash[a]]
    [] c.do = "opt_write" -> IF n > 0 /\ opt.rdp # "key" THEN AllBlank ELSE flash
    [] OTHER              -> flash

Join(old, new) == IF new = "none" \/ old = new THEN old ELSE IF old = "none" THEN new ELSE "bad"
OptAfter(c, n) ==
  CASE c.do = "opt_erase" -> IF n > 0 THEN ErasedOpt ELSE opt
    [] c.do = "opt_write" ->
         LET new == OptFor(compress)
         IN  [rdp    |-> IF n > 0 THEN "key" ELSE opt.rdp,
              plain  |-> IF n > 1 THEN Join(opt.plain, new.plain) ELSE opt.plain,
              packed |-> IF n > 1 THEN Join(opt.packed, new.packed) ELSE opt.packed]
    [] OTHER -> opt

Parts(c) == CASE c.do = "write" -> Cells[c.name]
              [] c.do = "erase" -> c.sectors
              [] c.do = "opt_erase" -> 1
              [] c.do = "opt_write" -> 2
              [] OTHER -> 0

(* A protected device refuses to be read, written and erased. *)
Answers(c) == session /\ (prot => c.do = "opt_erase")
Matches(c) ==
  CASE c.do = "verify"     -> Holds(c.name, c.at)
    [] c.do = "opt_verify" -> opt = OptFor(compress)
    [] OTHER               -> TRUE

Calling == fn \in Functions /\ ok /\ todo # <<>>

Command ==
  /\ Calling /\ Answers(Head(todo))
  /\ flash' = FlashAfter(Head(todo), Parts(Head(todo)))
  /\ opt' = OptAfter(Head(todo), Parts(Head(todo)))
  /\ ok' = Matches(Head(todo))
  /\ todo' = IF Head(todo).do = "options" THEN PlaceLogic \o WriteLogic(Logic[button])
             ELSE Tail(todo)
  /\ UNCHANGED <<button, fn, compress, results, session, prot, presses, faults, had, clean>>

Refused ==
  /\ Calling /\ ~Answers(Head(todo))
  /\ ok' = FALSE
  /\ UNCHANGED <<button, fn, todo, compress, results, session, prot, opt, flash,
                 presses, faults, had, clean>>

(* A byte or an answer is lost, or the power of the device fails: part of  *)
(* the command may be done, and the two sides may be out of step after it. *)
Fault ==
  /\ faults < MaxFaults /\ faults' = faults + 1 /\ clean' = FALSE
  /\ session' \in BOOLEAN

CutShort ==
  /\ Calling /\ Answers(Head(todo)) /\ Fault
  /\ \E n \in 0 .. Parts(Head(todo)) :
       flash' = FlashAfter(Head(todo), n) /\ opt' = OptAfter(Head(todo), n)
  /\ ok' = FALSE
  /\ UNCHANGED <<button, fn, todo, compress, results, prot, presses, had>>

-----------------------------------------------------------------------------
Press(b) ==
  /\ fn = "idle" /\ presses < MaxPresses /\ presses' = presses + 1
  /\ button' = b /\ fn' = "init" /\ todo' = <<>> /\ ok' = TRUE
  /\ results' = [f \in Functions |-> "none"]
  /\ session' = TRUE /\ prot' = (opt.rdp # "key")
  /\ had' = IF Holds("program", 0) THEN "program"
            ELSE IF Holds("default", 0) THEN "default" ELSE "none"
  /\ clean' = TRUE
  /\ UNCHANGED <<compress, opt, flash, faults>>

Begin(f) ==
  /\ fn' = f /\ ok' = TRUE
  /\ compress' = IF f = "update_logic" THEN Logic[button] \in Packed ELSE compress
  /\ todo' = CASE f = "init_flash"     -> InitFlash
               [] f = "update_logic"   -> <<Size, Options>>
               [] f = "update_program" -> UpdateProgram
               [] OTHER                -> <<>>

(* uart_init lifts a read protection; the flash is erased by that. *)
Unlocked ==
  /\ opt' = IF opt.rdp = "zero" THEN [ErasedOpt EXCEPT !.rdp = "key"]
            ELSE [opt EXCEPT !.rdp = "key"]
  /\ flash' = AllBlank /\ prot' = FALSE

UartInit ==
  /\ fn = "init"
  /\ IF prot THEN Unlocked ELSE UNCHANGED <<opt, flash, prot>>
  /\ Begin(IF button = 1 THEN "init_flash" ELSE "update_logic")
  /\ UNCHANGED <<button, results, session, presses, faults, had, clean>>

InitFails ==
  /\ fn = "init" /\ Fault
  /\ \/ prot /\ Unlocked
     \/ UNCHANGED <<opt, flash, prot>>
  /\ Begin(IF button = 1 THEN "init_flash" ELSE "update_logic")
  /\ UNCHANGED <<button, results, presses, had>>

Return ==
  /\ fn \in Functions /\ (~ok \/ todo = <<>>)
  /\ results' = [results EXCEPT ![fn] = IF ok THEN "true" ELSE "false"]
  /\ Begin(CASE fn = "init_flash" -> "update_logic"
             [] fn = "update_logic" -> IF button = 1 THEN "update_program" ELSE "final"
             [] fn = "update_program" -> "final")
  /\ UNCHANGED <<button, session, prot, opt, flash, presses, faults, had, clean>>

(* The target leaves the loader and runs what it was given. *)
UartFinal ==
  /\ fn = "final" /\ fn' = "idle"
  /\ prot' = (opt.rdp # "key") /\ session' = FALSE
  /\ UNCHANGED <<button, todo, ok, compress, results, opt, flash, presses, faults, had, clean>>

Resting == fn = "idle" /\ presses = MaxPresses /\ UNCHANGED vars

Init ==
  /\ button = 1 /\ fn = "idle" /\ todo = <<>> /\ ok = TRUE /\ compress = FALSE
  /\ results = [f \in Functions |-> "none"] /\ session = FALSE
  /\ \E s \in Starts : opt = s.opt /\ flash = s.flash
  /\ prot = (opt.rdp # "key")
  /\ presses = 0 /\ faults = 0 /\ had = "none" /\ clean = TRUE

Next ==
  \/ (\E b \in {1, 2} : Press(b)) \/ UartInit \/ InitFails \/ Command \/ Refused
  \/ CutShort \/ Return \/ UartFinal \/ Resting

Spec == Init /\ [][Next]_vars

-----------------------------------------------------------------------------
(* When the target leaves the loader, what a function of this press has    *)
(* reported as written is still there, whatever the functions after it     *)
(* did: the logic at the address that the option bytes give, alone and     *)
(* with its decompressor, and the program.                                 *)
ReportedIsStored ==
  /\ fn = "final" /\ results["update_logic"] = "true" =>
       LET packed == Logic[button] \in Packed
       IN
       /\ Holds(Logic[button], LogicAt(packed))
       /\ packed => Holds("decomp", ConfigAddr(TRUE)) /\ opt.packed = "ok"
                    /\ opt.plain \notin {"ok", "other"}
       /\ ~packed => opt.plain = "ok"
  /\ fn = "final" /\ results["update_program"] = "true" => Holds("program", 0)

(* A press that nothing disturbs succeeds, whatever a press that failed    *)
(* half way has left behind: option bytes that are erased, so that the     *)
(* device is protected, addresses without a logic, a logic in part.        *)
CleanPressSucceeds == fn = "final" /\ clean => \A f \in Functions : results[f] # "false"

(* A new logic never costs a device its program: where the option bytes    *)
(* are written "this will also erase the full chip, including the MCU      *)
(* program", and the default program takes the place of the one it had.    *)
ProgramSurvives ==
  fn = "final" /\ button = 2 /\ results["update_logic"] = "true" /\ had # "none"
    => Holds("program", 0) \/ Holds("default", 0)
=============================================================================
