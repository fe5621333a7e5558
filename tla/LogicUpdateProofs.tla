-------------------------- MODULE LogicUpdateProofs --------------------------
(***************************************************************************)
(* What a press of a button has reported as written is in flash when the   *)
(* target leaves the loader, a new logic never costs a device its program, *)
(* and a press that nothing disturbs succeeds: for any flash, any images,  *)
(* any number of presses and faults, and every state a fault leaves.       *)
(*                                                                         *)
(* The invariant is an outline of the three functions: for every list of   *)
(* commands that may be left, what the commands before it have achieved,   *)
(* as long as none of them has failed.                                     *)
(***************************************************************************)
EXTENDS LogicUpdate, SequenceTheorems, TLAPS

(* What a command relies on beyond the commands before it: one logic image *)
(* at most has the place that is not compressed, the other place and the   *)
(* program hold no whole block (which would not be erased), and a device   *)
(* that comes with the address of the former has no other logic there.     *)
LogicImages == {"config", "config1"}
OneLogicAt(a) ==
  flash[a] = Blank \/ \E i \in LogicImages \ Packed : flash[a] = <<i, a - ConfigAddr(FALSE)>>
Rewritable ==
  /\ \A i, j \in LogicImages \ Packed : i = j
  /\ PackedSectors < BlockSectors /\ ProgramSectors < 2 * BlockSectors
  /\ \A s \in Starts : s.opt.plain = "ok" /\ s.opt.rdp = "key" =>
       \A a \in ConfigAddr(FALSE) .. FlashCells - 1 :
         s.flash[a] = Blank
           \/ \E i \in LogicImages \ Packed : s.flash[a] = <<i, a - ConfigAddr(FALSE)>>

(* Option bytes without an RDP word come without an address. *)
ErasedWhole == \A s \in Starts : s.opt.rdp = "erased" => s.opt = ErasedOpt

-----------------------------------------------------------------------------
Types ==
  /\ button \in {1, 2} /\ fn \in {"idle", "init", "final"} \cup Functions
  /\ ok \in BOOLEAN /\ compress \in BOOLEAN /\ session \in BOOLEAN /\ prot \in BOOLEAN
  /\ clean \in BOOLEAN
  /\ results \in [Functions -> {"none", "true", "false"}]
  /\ opt \in OptionBytes
  /\ flash = [a \in 0 .. FlashCells - 1 |-> flash[a]]

OptProgram      == [do |-> "opt_write"]
OptVerify       == [do |-> "opt_verify"]
Write(at, name) == [do |-> "write", at |-> at, name |-> name]
Check(at, name) == [do |-> "verify", at |-> at, name |-> name]
Image == Logic[button]

BlankFrom(at) == \A a \in at .. FlashCells - 1 : flash[a] = Blank
Free(at, name) == \A i \in 0 .. Cells[name] - 1 : flash[at + i] \in {Blank, <<name, i>>}
HasProgram == Holds("program", 0) \/ Holds("default", 0)
NoAddress == opt.plain = "none" /\ opt.packed = "none"

WriteDefault == WriteMemory(0, "default")

(* uart_init_flash *)
InitSteps == fn = "init_flash" /\ ok =>
  \/ todo = <<Size>> \o (WriteOptions \o WriteDefault)
  \/ todo = WriteOptions \o WriteDefault
  \/ todo = OptWrite \o WriteDefault /\ opt = ErasedOpt
  \/ todo = <<OptVerify>> \o WriteDefault /\ opt = OptFor(compress) /\ flash = AllBlank
  \/ todo = WriteDefault /\ opt = OptFor(compress) /\ flash = AllBlank
  \/ todo = <<Check(0, "default")>> /\ Holds("default", 0)
  \/ todo = <<>>

(* uart_update_program *)
ProgramSteps == fn = "update_program" /\ ok =>
  \/ todo = UpdateProgram
  \/ todo = WriteMemory(0, "program") /\ (Rewritable => Free(0, "program"))
  \/ todo = <<Check(0, "program")>> /\ (Rewritable => Holds("program", 0))
  \/ todo = <<>> /\ Holds("program", 0)

(* uart_update_logic.  The program: there, or certain to be written.        *)
Survives == ErasedWhole /\ button = 2 /\ had # "none" => HasProgram
SurvivesOrRewrite == ErasedWhole /\ button = 2 /\ had # "none" => HasProgram \/ NoAddress

(* The address of the logic, and of no other, is in the option bytes. *)
Addressed ==
  IF compress THEN opt.packed = "ok" /\ opt.plain \notin {"ok", "other"} ELSE opt.plain = "ok"

RewriteSteps ==
  LET Rest == WriteDefault \o WriteLogic(Image)
  IN  \/ todo = WriteOptions \o Rest
      \/ todo = OptWrite \o Rest /\ opt = ErasedOpt
      \/ todo = <<OptVerify>> \o Rest /\ opt = OptFor(compress) /\ flash = AllBlank
      \/ todo = Rest /\ opt = OptFor(compress) /\ flash = AllBlank
      \/ /\ todo = <<Check(0, "default")>> \o WriteLogic(Image)
         /\ opt = OptFor(compress) /\ Holds("default", 0) /\ BlankFrom(ConfigAddr(compress))

PlaceSteps ==
  /\ Addressed /\ Survives
  /\ \/ todo = <<Erase(ConfigAddr(compress), ConfigSectors(compress))>> \o WriteLogic(Image)
     \/ /\ todo = WriteLogic(Image)
        /\ Rewritable => IF compress THEN BlankFrom(ConfigAddr(TRUE))
                                     ELSE Free(LogicAt(FALSE), Image)
     \/ /\ compress
        /\ todo = <<Check(ConfigAddr(TRUE), "decomp")>> \o WriteMemory(LogicAt(TRUE), Image)
        /\ Rewritable => Holds("decomp", ConfigAddr(TRUE)) /\ BlankFrom(LogicAt(TRUE))
     \/ /\ todo = WriteMemory(LogicAt(compress), Image)
        /\ compress => Holds("decomp", ConfigAddr(TRUE))
        /\ Rewritable => Free(LogicAt(compress), Image)
     \/ /\ todo = <<Check(LogicAt(compress), Image)>>
        /\ compress => Holds("decomp", ConfigAddr(TRUE))
        /\ Rewritable => Holds(Image, LogicAt(compress))
     \/ /\ todo = <<>>
        /\ compress => Holds("decomp", ConfigAddr(TRUE))
        /\ Holds(Image, LogicAt(compress))

LogicSteps ==
  /\ fn = "update_logic" => compress = (Image \in Packed)
  /\ fn = "update_logic" /\ ok =>
       \/ todo = <<Size, Options>> /\ SurvivesOrRewrite
       \/ todo = <<Options>> /\ SurvivesOrRewrite
       \/ RewriteSteps
       \/ PlaceSteps

-----------------------------------------------------------------------------
(* What the functions that have returned leave.                            *)
LogicStored ==
  LET packed == Image \in Packed
  IN  /\ Holds(Image, LogicAt(packed))
      /\ packed => Holds("decomp", ConfigAddr(TRUE)) /\ opt.packed = "ok"
                   /\ opt.plain \notin {"ok", "other"}
      /\ ~packed => opt.plain = "ok"

Returned ==
  /\ fn \in {"init_flash", "update_program"} => button = 1
  /\ fn \in {"init", "init_flash", "update_logic"} => results["update_program"] = "none"
  /\ fn = "init" => prot = (opt.rdp # "key") /\ (had # "none" => HasProgram)
  /\ fn \in {"update_program", "final"} /\ results["update_logic"] = "true" =>
       LogicStored /\ Survives
  /\ fn = "final" /\ results["update_program"] = "true" => Holds("program", 0)

(* A press without a fault.                                                *)
Undisturbed == Rewritable /\ clean =>
  /\ fn \in Functions => ok /\ session /\ ~prot
  /\ fn = "init" => session
  /\ fn # "idle" => \A f \in Functions : results[f] # "false"

(* What a device keeps from press to press, whatever happens in them.      *)
Device ==
  /\ ErasedWhole => (opt.rdp = "erased" => opt = ErasedOpt)
  /\ Rewritable /\ opt.plain = "ok" /\ opt.rdp = "key" =>
       \A a \in ConfigAddr(FALSE) .. FlashCells - 1 : OneLogicAt(a)

(* A device that is not protected has the key, or no option bytes at all.  *)
HasKey == opt.rdp = "key" \/ opt = ErasedOpt
Open   == fn \in Functions => prot \/ HasKey

Inv == /\ Types /\ InitSteps /\ LogicSteps /\ ProgramSteps
       /\ Returned /\ Undisturbed /\ Device /\ Open

-----------------------------------------------------------------------------
(* Lists of commands.                                                      *)
LEMMA HeadOfOne == ASSUME NEW a PROVE <<a>> # <<>> /\ Head(<<a>>) = a /\ Tail(<<a>>) = <<>>
  OBVIOUS

LEMMA HeadOfTwo == ASSUME NEW a, NEW b
                   PROVE <<a, b>> # <<>> /\ Head(<<a, b>>) = a /\ Tail(<<a, b>>) = <<b>>
  OBVIOUS

LEMMA HeadOneJoined ==
  ASSUME NEW T, NEW s \in Seq(T), NEW a \in T
  PROVE  /\ <<a>> \o s # <<>> /\ Head(<<a>> \o s) = a
         /\ Tail(<<a>> \o s) = s
  OBVIOUS

LEMMA HeadTwoJoined ==
  ASSUME NEW T, NEW s \in Seq(T), NEW a \in T, NEW b \in T
  PROVE  /\ <<a, b>> \o s # <<>> /\ Head(<<a, b>> \o s) = a
         /\ Tail(<<a, b>> \o s) = <<b>> \o s
  OBVIOUS

(* The commands there are. *)
Commands ==
  {Size, Options, OptErase, OptProgram, OptVerify,
   Erase(0, ProgramSectors), Write(0, "program"), Check(0, "program"),
   Write(0, "default"), Check(0, "default"),
   Erase(ConfigAddr(TRUE), ConfigSectors(TRUE)), Erase(ConfigAddr(FALSE), ConfigSectors(FALSE)),
   Write(ConfigAddr(TRUE), "decomp"), Check(ConfigAddr(TRUE), "decomp"),
   Write(LogicAt(TRUE), "config"), Check(LogicAt(TRUE), "config"),
   Write(LogicAt(TRUE), "config1"), Check(LogicAt(TRUE), "config1"),
   Write(LogicAt(FALSE), "config"), Check(LogicAt(FALSE), "config"),
   Write(LogicAt(FALSE), "config1"), Check(LogicAt(FALSE), "config1")}

LEMMA OneIsList == ASSUME NEW a \in Commands PROVE <<a>> \in Seq(Commands)
<1> HIDE DEF Commands
<1>1. QED OBVIOUS

LEMMA TwoAreList == ASSUME NEW a \in Commands, NEW b \in Commands
                    PROVE  <<a, b>> \in Seq(Commands)
<1> HIDE DEF Commands
<1>1. QED OBVIOUS

LEMMA WriteList == ASSUME NEW at, NEW name
                   PROVE WriteMemory(at, name) = <<Write(at, name), Check(at, name)>>
  BY DEF WriteMemory, Write, Check

LEMMA AreCommands ==
  /\ Size \in Commands /\ Options \in Commands /\ OptErase \in Commands
  /\ OptProgram \in Commands /\ OptVerify \in Commands
  /\ Erase(0, ProgramSectors) \in Commands
  /\ Write(0, "program") \in Commands /\ Check(0, "program") \in Commands
  /\ Write(0, "default") \in Commands /\ Check(0, "default") \in Commands
  /\ Write(ConfigAddr(TRUE), "decomp") \in Commands /\ Check(ConfigAddr(TRUE), "decomp") \in Commands
  /\ \A p \in BOOLEAN : Erase(ConfigAddr(p), ConfigSectors(p)) \in Commands
  /\ \A p \in BOOLEAN : \A i \in LogicImages :
       Write(LogicAt(p), i) \in Commands /\ Check(LogicAt(p), i) \in Commands
<1>1. /\ Size \in Commands /\ Options \in Commands /\ OptErase \in Commands
      /\ OptProgram \in Commands /\ OptVerify \in Commands
      /\ Erase(0, ProgramSectors) \in Commands
      /\ Write(0, "program") \in Commands /\ Check(0, "program") \in Commands
      /\ Write(0, "default") \in Commands /\ Check(0, "default") \in Commands
      /\ Write(ConfigAddr(TRUE), "decomp") \in Commands
      /\ Check(ConfigAddr(TRUE), "decomp") \in Commands
  BY Zenon DEF Commands
<1>2. /\ Erase(ConfigAddr(TRUE), ConfigSectors(TRUE)) \in Commands
      /\ Erase(ConfigAddr(FALSE), ConfigSectors(FALSE)) \in Commands
  BY Zenon DEF Commands
<1>3. /\ Write(LogicAt(TRUE), "config") \in Commands /\ Check(LogicAt(TRUE), "config") \in Commands
      /\ Write(LogicAt(TRUE), "config1") \in Commands /\ Check(LogicAt(TRUE), "config1") \in Commands
      /\ Write(LogicAt(FALSE), "config") \in Commands /\ Check(LogicAt(FALSE), "config") \in Commands
      /\ Write(LogicAt(FALSE), "config1") \in Commands /\ Check(LogicAt(FALSE), "config1") \in Commands
  BY Zenon DEF Commands
<1>4. (\A p \in BOOLEAN : p = TRUE \/ p = FALSE) /\ (\A i \in LogicImages : i = "config" \/ i = "config1")
  BY DEF LogicImages
<1>5. \A p \in BOOLEAN : Erase(ConfigAddr(p), ConfigSectors(p)) \in Commands
  BY <1>2, <1>4, Zenon
<1>6. \A p \in BOOLEAN : \A i \in LogicImages :
        Write(LogicAt(p), i) \in Commands /\ Check(LogicAt(p), i) \in Commands
  BY <1>3, <1>4, Zenon
<1>7. QED BY <1>1, <1>5, <1>6

LEMMA Lists ==
  /\ OptWrite = <<OptProgram, OptVerify>> /\ OptWrite \in Seq(Commands)
  /\ WriteOptions = <<OptErase>> \o OptWrite /\ WriteOptions \in Seq(Commands)
  /\ WriteDefault \in Seq(Commands)
  /\ WriteMemory(0, "program") \in Seq(Commands)
  /\ WriteMemory(ConfigAddr(TRUE), "decomp") \in Seq(Commands)
  /\ \A p \in BOOLEAN : \A i \in LogicImages : WriteMemory(LogicAt(p), i) \in Seq(Commands)
<1>1. OptWrite = <<OptProgram, OptVerify>> /\ OptWrite \in Seq(Commands)
  BY AreCommands, TwoAreList DEF OptWrite, OptProgram, OptVerify
<1>2. WriteOptions = <<OptErase>> \o OptWrite /\ <<OptErase>> \in Seq(Commands)
  BY AreCommands, OneIsList DEF WriteOptions
<1>3. WriteOptions \in Seq(Commands)
  BY <1>1, <1>2, ConcatProperties
<1>4. WriteDefault \in Seq(Commands) /\ WriteMemory(0, "program") \in Seq(Commands)
  BY AreCommands, TwoAreList, WriteList DEF WriteDefault, Names
<1>5. WriteMemory(ConfigAddr(TRUE), "decomp") \in Seq(Commands)
  BY AreCommands, TwoAreList, WriteList
<1>6. ASSUME NEW p \in BOOLEAN, NEW i \in LogicImages
      PROVE  WriteMemory(LogicAt(p), i) \in Seq(Commands)
  BY AreCommands, TwoAreList, WriteList, Zenon
<1>7. QED BY <1>1, <1>2, <1>3, <1>4, <1>5, <1>6

LEMMA RestList ==
  ASSUME NEW i \in LogicImages, compress \in BOOLEAN
  PROVE  /\ WriteLogic(i) \in Seq(Commands)
         /\ compress => WriteLogic(i) = WriteMemory(ConfigAddr(TRUE), "decomp")
                                          \o WriteMemory(LogicAt(TRUE), i)
         /\ ~compress => WriteLogic(i) = WriteMemory(LogicAt(FALSE), i)
<1>1. CASE compress = TRUE
  <2>1. WriteLogic(i) = WriteMemory(ConfigAddr(TRUE), "decomp") \o WriteMemory(LogicAt(TRUE), i)
    BY <1>1 DEF WriteLogic
  <2>2. /\ WriteMemory(ConfigAddr(TRUE), "decomp") \in Seq(Commands)
        /\ WriteMemory(LogicAt(TRUE), i) \in Seq(Commands)
    BY Lists
  <2>3. WriteLogic(i) \in Seq(Commands)
    BY <2>1, <2>2, ConcatProperties, Zenon
  <2>4. QED BY <1>1, <2>1, <2>3
<1>2. CASE compress = FALSE
  <2>1. WriteMemory(LogicAt(FALSE), i) \in Seq(Commands)
    BY Lists
  <2>2. WriteLogic(i) = <<>> \o WriteMemory(LogicAt(FALSE), i)
    BY <1>2 DEF WriteLogic
  <2>3. QED BY <1>2, <2>1, <2>2, ConcatEmptySeq
<1>3. QED BY <1>1, <1>2

(* The options of a device that gets a new address are written, then the   *)
(* default program and the logic.                                          *)
LEMMA PlaceList ==
  ASSUME NEW i \in LogicImages, compress \in BOOLEAN
  PROVE  PlaceLogic \o WriteLogic(i) =
           IF Rewrite THEN WriteOptions \o (WriteDefault \o WriteLogic(i))
           ELSE <<Erase(ConfigAddr(compress), ConfigSectors(compress))>> \o WriteLogic(i)
<1>1. CASE Rewrite
  <2>1. PlaceLogic = WriteOptions \o WriteDefault
    BY <1>1 DEF PlaceLogic, WriteDefault
  <2>2. (WriteOptions \o WriteDefault) \o WriteLogic(i)
          = WriteOptions \o (WriteDefault \o WriteLogic(i))
    <3>1. /\ WriteOptions \in Seq(Commands) /\ WriteDefault \in Seq(Commands)
          /\ WriteLogic(i) \in Seq(Commands)
      BY Lists, RestList
    <3> DEFINE a == WriteOptions
               b == WriteDefault
               c == WriteLogic(i)
    <3> HIDE DEF a, b, c
    <3>2. a \in Seq(Commands) /\ b \in Seq(Commands) /\ c \in Seq(Commands)
      BY <3>1 DEF a, b, c
    <3>3. (a \o b) \o c = a \o (b \o c)
      BY <3>2, ConcatAssociative
    <3>4. QED BY <3>3 DEF a, b, c
  <2>3. QED BY <1>1, <2>1, <2>2
<1>2. CASE ~Rewrite
  BY <1>2 DEF PlaceLogic
<1>3. QED BY <1>1, <1>2

(* Of a list that begins with the writing of the options, the first three  *)
(* commands.                                                               *)
LEMMA OptionList ==
  ASSUME NEW s \in Seq(Commands)
  PROVE  /\ WriteOptions \o s # <<>> /\ Head(WriteOptions \o s) = OptErase
         /\ Tail(WriteOptions \o s) = OptWrite \o s
         /\ OptWrite \o s # <<>> /\ Head(OptWrite \o s) = OptProgram
         /\ Tail(OptWrite \o s) = <<OptVerify>> \o s
         /\ <<OptVerify>> \o s # <<>> /\ Head(<<OptVerify>> \o s) = OptVerify
         /\ Tail(<<OptVerify>> \o s) = s
<1>1. WriteOptions \o s = <<OptErase>> \o (OptWrite \o s)
  BY Lists, AreCommands, OneIsList, ConcatAssociative
<1>2. OptWrite \o s \in Seq(Commands)
  BY Lists, ConcatProperties
<1>3. /\ WriteOptions \o s # <<>> /\ Head(WriteOptions \o s) = OptErase
      /\ Tail(WriteOptions \o s) = OptWrite \o s
  <2>1. OptErase \in Commands
    BY AreCommands
  <2> DEFINE t == OptWrite \o s
  <2> HIDE DEF t
  <2>2. t \in Seq(Commands)
    BY <1>2 DEF t
  <2>3. <<OptErase>> \o t # <<>> /\ Head(<<OptErase>> \o t) = OptErase /\ Tail(<<OptErase>> \o t) = t
    BY <2>1, <2>2, HeadOneJoined
  <2>4. QED BY <1>1, <2>3 DEF t
<1>4. /\ OptWrite \o s # <<>> /\ Head(OptWrite \o s) = OptProgram
      /\ Tail(OptWrite \o s) = <<OptVerify>> \o s
  <2>1. OptProgram \in Commands /\ OptVerify \in Commands
    BY AreCommands
  <2>2. /\ <<OptProgram, OptVerify>> \o s # <<>>
        /\ Head(<<OptProgram, OptVerify>> \o s) = OptProgram
        /\ Tail(<<OptProgram, OptVerify>> \o s) = <<OptVerify>> \o s
    BY <2>1, HeadTwoJoined
  <2>3. QED BY <2>2, Lists
<1>5. /\ <<OptVerify>> \o s # <<>> /\ Head(<<OptVerify>> \o s) = OptVerify
      /\ Tail(<<OptVerify>> \o s) = s
  BY AreCommands, HeadOneJoined, Zenon
<1>6. QED BY <1>3, <1>4, <1>5

-----------------------------------------------------------------------------
(* The places in flash.                                                    *)
LEMMA CellSector ==
  ASSUME NEW a \in Nat, NEW k \in Nat
  PROVE  /\ a \div SectorCells \in Nat
         /\ a < k * SectorCells <=> a \div SectorCells < k
         /\ k * SectorCells \in Nat
         /\ (k * SectorCells) \div SectorCells = k
<1>1. SectorCells \in Nat \ {0}
  BY LogicAssumption DEF LogicAssumption
<1>2. /\ a \div SectorCells \in Nat /\ (a \div SectorCells) * SectorCells <= a
      /\ a < (a \div SectorCells + 1) * SectorCells
  BY <1>1
<1>3. a < k * SectorCells <=> a \div SectorCells < k
  BY <1>1, <1>2
<1>4. k * SectorCells \in Nat
  BY <1>1
<1>5. (k * SectorCells) \div SectorCells = k
  BY <1>1
<1>6. QED BY <1>2, <1>3, <1>4, <1>5

LEMMA Product == ASSUME NEW a \in Nat, NEW b \in Nat, NEW s \in Nat, b <= a
                 PROVE  a * s - b * s = (a - b) * s /\ a - b \in Nat /\ b * s <= a * s
                        /\ a * s \in Nat /\ b * s \in Nat
  OBVIOUS

LEMMA Places ==
  /\ FlashCells \in Nat
  /\ \A p \in BOOLEAN :
       /\ ConfigSectors(p) \in Nat /\ ConfigSectors(p) <= FlashSectors
       /\ ConfigAddr(p) = (FlashSectors - ConfigSectors(p)) * SectorCells
       /\ ConfigAddr(p) \in Nat /\ ConfigAddr(p) <= FlashCells
       /\ ConfigAddr(FALSE) <= ConfigAddr(p)
       /\ FlashCells = ConfigAddr(p) + ConfigSectors(p) * SectorCells
  /\ \A n \in Names : Cells[n] \in Nat \ {0}
  /\ Cells["program"] <= ConfigAddr(FALSE) /\ Cells["default"] <= ConfigAddr(FALSE)
<1>1. {SectorCells, FlashSectors, PlainSectors, PackedSectors} \subseteq Nat \ {0}
      /\ PackedSectors <= PlainSectors /\ PlainSectors <= FlashSectors
  BY LogicAssumption DEF LogicAssumption
<1>2. FlashCells \in Nat /\ FlashCells = FlashSectors * SectorCells
  BY <1>1 DEF FlashCells
<1>3. ASSUME NEW p \in BOOLEAN
      PROVE  /\ ConfigSectors(p) \in Nat /\ ConfigSectors(p) <= FlashSectors
             /\ ConfigSectors(p) <= PlainSectors
  BY <1>1 DEF ConfigSectors
<1>4. ASSUME NEW p \in BOOLEAN
      PROVE  /\ ConfigAddr(p) = (FlashSectors - ConfigSectors(p)) * SectorCells
             /\ ConfigAddr(p) \in Nat /\ ConfigAddr(p) <= FlashCells
             /\ FlashCells = ConfigAddr(p) + ConfigSectors(p) * SectorCells
  <2> DEFINE k == ConfigSectors(p)
  <2>1. k \in Nat /\ k <= FlashSectors
    BY <1>3
  <2> HIDE DEF k
  <2>2. /\ FlashSectors * SectorCells - k * SectorCells = (FlashSectors - k) * SectorCells
        /\ FlashSectors - k \in Nat
    BY <2>1, <1>1, Product
  <2>3. k * SectorCells \in Nat /\ k * SectorCells <= FlashSectors * SectorCells
    BY <2>1, <1>1, Product
  <2>4. ConfigAddr(p) = FlashCells - k * SectorCells
    BY DEF ConfigAddr, k
  <2>5. QED BY <2>2, <2>3, <2>4, <1>2 DEF k
<1>5. ASSUME NEW p \in BOOLEAN PROVE ConfigAddr(FALSE) <= ConfigAddr(p)
  <2> DEFINE k == ConfigSectors(p)
  <2>1. k \in Nat /\ k <= PlainSectors /\ ConfigSectors(FALSE) = PlainSectors
    BY <1>3 DEF ConfigSectors
  <2> HIDE DEF k
  <2>2. k * SectorCells <= PlainSectors * SectorCells
    BY <2>1, <1>1, Product
  <2>3. k * SectorCells \in Nat /\ PlainSectors * SectorCells \in Nat
    BY <2>1, <1>1
  <2>4. ConfigAddr(p) = FlashCells - k * SectorCells
        /\ ConfigAddr(FALSE) = FlashCells - PlainSectors * SectorCells
    BY <2>1 DEF ConfigAddr, k
  <2> DEFINE x == k * SectorCells
             y == PlainSectors * SectorCells
  <2>5. x \in Nat /\ y \in Nat /\ x <= y /\ FlashCells \in Nat
        /\ ConfigAddr(p) = FlashCells - x /\ ConfigAddr(FALSE) = FlashCells - y
    BY <2>2, <2>3, <2>4, <1>2
  <2> HIDE DEF x, y
  <2>6. FlashCells - y <= FlashCells - x
    BY <2>5
  <2>7. QED BY <2>5, <2>6, Zenon
<1>6. (\A n \in Names : Cells[n] \in Nat \ {0})
      /\ Cells["program"] <= ConfigAddr(FALSE) /\ Cells["default"] <= ConfigAddr(FALSE)
  BY LogicAssumption DEF LogicAssumption
<1>7. QED BY <1>2, <1>3, <1>4, <1>5, <1>6

LEMMA LogicPlaces ==
  /\ LogicAt(FALSE) = ConfigAddr(FALSE)
  /\ LogicAt(TRUE) \in Nat
  /\ ConfigAddr(TRUE) + Cells["decomp"] <= LogicAt(TRUE)
  /\ \A i \in LogicImages : LogicAt(i \in Packed) + Cells[i] <= FlashCells
<1>1. LogicOffset \in Nat /\ Cells["decomp"] <= LogicOffset
  BY LogicAssumption DEF LogicAssumption
<1>2. LogicAt(FALSE) = ConfigAddr(FALSE) /\ LogicAt(TRUE) = ConfigAddr(TRUE) + LogicOffset
  <2>1. ConfigAddr(FALSE) \in Nat
    BY Places
  <2>2. LogicAt(FALSE) = ConfigAddr(FALSE) + 0
    BY DEF LogicAt
  <2>3. LogicAt(TRUE) = ConfigAddr(TRUE) + LogicOffset
    BY DEF LogicAt
  <2> DEFINE f == ConfigAddr(FALSE)
  <2>4. f + 0 = f
    <3>1. f \in Nat
      BY <2>1
    <3> HIDE DEF f
    <3>2. QED BY <3>1
  <2>5. QED BY <2>2, <2>3, <2>4, Zenon
<1>3. Cells["decomp"] \in Nat
  BY Places DEF Names
<1>4. ASSUME NEW i \in LogicImages PROVE LogicAt(i \in Packed) + Cells[i] <= FlashCells
  <2> DEFINE p == i \in Packed
             off == IF p THEN LogicOffset ELSE 0
  <2>1. off + Cells[i] <= ConfigSectors(p) * SectorCells
    BY LogicAssumption DEF LogicAssumption, LogicImages
  <2>2. LogicAt(p) = ConfigAddr(p) + off
    BY DEF LogicAt
  <2>3. off \in Nat /\ p \in BOOLEAN
    BY <1>1
  <2>4. Cells[i] \in Nat
    BY Places DEF LogicImages, Names
  <2> HIDE DEF off, p
  <2>5. ConfigAddr(p) \in Nat /\ FlashCells = ConfigAddr(p) + ConfigSectors(p) * SectorCells
        /\ FlashCells \in Nat
    BY <2>3, Places
  <2>6. LogicAt(p) + Cells[i] <= FlashCells
    <3> DEFINE x == ConfigSectors(p) * SectorCells
               y == ConfigAddr(p)
               z == Cells[i]
    <3>1. x \in Int
      <4>1. SectorCells \in Nat /\ ConfigSectors(p) \in Nat
        BY <2>3, Places, LogicAssumption DEF LogicAssumption
      <4>2. QED BY <4>1
    <3>2. y \in Nat /\ z \in Nat /\ off + z <= x /\ LogicAt(p) = y + off /\ FlashCells = y + x
      BY <2>1, <2>2, <2>4, <2>5
    <3> HIDE DEF x, y, z
    <3>3. y + off + z <= y + x
      BY <2>3, <3>1, <3>2
    <3>4. QED BY <3>2, <3>3 DEF z
  <2>7. QED BY <2>6 DEF p
<1> DEFINE t == ConfigAddr(TRUE)
<1>5. t \in Nat
  BY Places, Zenon
<1> HIDE DEF t
<1>6. t + LogicOffset \in Nat /\ t + Cells["decomp"] <= t + LogicOffset
  BY <1>1, <1>3, <1>5
<1>7. QED BY <1>2, <1>4, <1>6, Zenon DEF t

-----------------------------------------------------------------------------
(* What a command does, as far as its first n parts.                       *)
Does(c) == \E n \in 0 .. Parts(c) : flash' = FlashAfter(c, n) /\ opt' = OptAfter(c, n)
DoesAll(c) == flash' = FlashAfter(c, Parts(c)) /\ opt' = OptAfter(c, Parts(c))

LEMMA WriteParts ==
  ASSUME NEW at, NEW name, NEW n
  PROVE  /\ OptAfter(Write(at, name), n) = opt
         /\ Parts(Write(at, name)) = Cells[name]
         /\ Matches(Write(at, name)) = TRUE
  BY DEF OptAfter, Parts, Matches, Write

LEMMA EraseParts ==
  ASSUME NEW at, NEW k, NEW n
  PROVE  /\ OptAfter(Erase(at, k), n) = opt
         /\ Parts(Erase(at, k)) = k
         /\ Matches(Erase(at, k)) = TRUE
<1> DEFINE c == Erase(at, k)
<1>1. c.do = "erase" /\ c.sectors = k
  BY DEF Erase
<1> HIDE DEF c
<1>2. OptAfter(c, n) = opt /\ Parts(c) = k /\ Matches(c) = TRUE
  BY <1>1 DEF OptAfter, Parts, Matches
<1>3. QED BY <1>2 DEF c

(* Reading and comparing change nothing. *)
LEMMA Reading ==
  ASSUME NEW n, NEW at, NEW name
  PROVE  /\ FlashAfter(Size, n) = flash /\ OptAfter(Size, n) = opt /\ Matches(Size) = TRUE
         /\ FlashAfter(Options, n) = flash /\ OptAfter(Options, n) = opt
         /\ Matches(Options) = TRUE
         /\ FlashAfter(OptVerify, n) = flash /\ OptAfter(OptVerify, n) = opt
         /\ Matches(OptVerify) = (opt = OptFor(compress))
         /\ FlashAfter(Check(at, name), n) = flash /\ OptAfter(Check(at, name), n) = opt
         /\ Matches(Check(at, name)) = Holds(name, at)
<1>1. FlashAfter(Size, n) = flash /\ OptAfter(Size, n) = opt /\ Matches(Size) = TRUE
  BY DEF FlashAfter, OptAfter, Matches, Size
<1>2. FlashAfter(Options, n) = flash /\ OptAfter(Options, n) = opt /\ Matches(Options) = TRUE
  BY DEF FlashAfter, OptAfter, Matches, Options
<1>3. FlashAfter(OptVerify, n) = flash /\ OptAfter(OptVerify, n) = opt
      /\ Matches(OptVerify) = (opt = OptFor(compress))
  BY DEF FlashAfter, OptAfter, Matches, OptVerify
<1>4. FlashAfter(Check(at, name), n) = flash /\ OptAfter(Check(at, name), n) = opt
  BY DEF FlashAfter, OptAfter, Check
<1>5. Matches(Check(at, name)) = Holds(name, at)
  <2> DEFINE c == Check(at, name)
  <2>1. c.do = "verify" /\ c.at = at /\ c.name = name
    BY DEF Check
  <2> HIDE DEF c
  <2>2. Matches(c) = Holds(c.name, c.at)
    BY <2>1 DEF Matches
  <2>3. QED BY <2>1, <2>2 DEF c
<1>6. QED BY <1>1, <1>2, <1>3, <1>4, <1>5

LEMMA ErasingOptions ==
  ASSUME NEW n
  PROVE  /\ FlashAfter(OptErase, n) = flash /\ OptAfter(OptErase, n) = IF n > 0 THEN ErasedOpt ELSE opt
         /\ Parts(OptErase) = 1 /\ Matches(OptErase) = TRUE
  BY DEF FlashAfter, OptAfter, Parts, Matches, OptErase

(* Options are programmed only after they were erased. *)
LEMMA ProgrammingOptions ==
  ASSUME opt = ErasedOpt, NEW n \in 0 .. 2
  PROVE  /\ FlashAfter(OptProgram, n) = IF n > 0 THEN AllBlank ELSE flash
         /\ n < 2 => OptAfter(OptProgram, n).plain = "none" /\ OptAfter(OptProgram, n).packed = "none"
         /\ n = 0 => OptAfter(OptProgram, n) = ErasedOpt
         /\ n = 1 => OptAfter(OptProgram, n).rdp = "key"
         /\ n = 2 => OptAfter(OptProgram, n) = OptFor(compress)
         /\ OptAfter(OptProgram, n) \in OptionBytes
         /\ Parts(OptProgram) = 2 /\ Matches(OptProgram) = TRUE
<1>1. opt.rdp # "key" /\ opt.plain = "none" /\ opt.packed = "none" /\ opt.rdp = "erased"
  BY DEF ErasedOpt
<1>2. FlashAfter(OptProgram, n) = IF n > 0 THEN AllBlank ELSE flash
  BY <1>1 DEF FlashAfter, OptProgram
<1>3. Parts(OptProgram) = 2 /\ Matches(OptProgram) = TRUE
  BY DEF Parts, Matches, OptProgram
<1>4. OptAfter(OptProgram, n) =
        [rdp    |-> IF n > 0 THEN "key" ELSE opt.rdp,
         plain  |-> IF n > 1 THEN Join(opt.plain, OptFor(compress).plain) ELSE opt.plain,
         packed |-> IF n > 1 THEN Join(opt.packed, OptFor(compress).packed) ELSE opt.packed]
  BY DEF OptAfter, OptProgram
<1>5. \A w : Join("none", w) = w
  BY DEF Join
<1>6. OptAfter(OptProgram, n) =
        [rdp    |-> IF n > 0 THEN "key" ELSE "erased",
         plain  |-> IF n > 1 THEN OptFor(compress).plain ELSE "none",
         packed |-> IF n > 1 THEN OptFor(compress).packed ELSE "none"]
  BY <1>1, <1>4, <1>5
<1>7. OptFor(compress) = [rdp |-> "key", plain |-> OptFor(compress).plain,
                          packed |-> OptFor(compress).packed]
      /\ OptFor(compress).plain \in Addresses /\ OptFor(compress).packed \in Addresses
  BY DEF OptFor, Addresses
<1>8. n \in Nat /\ (n < 2 => ~(n > 1)) /\ (n = 2 => n > 1 /\ n > 0) /\ (n = 1 => n > 0)
      /\ (n = 0 => ~(n > 0) /\ ~(n > 1))
  OBVIOUS
<1>9. OptAfter(OptProgram, n) \in OptionBytes
  BY <1>6, <1>7 DEF OptionBytes, Addresses
<1>10. n < 2 => OptAfter(OptProgram, n).plain = "none" /\ OptAfter(OptProgram, n).packed = "none"
  BY <1>6, <1>8
<1>11. (n = 0 => OptAfter(OptProgram, n) = ErasedOpt) /\ (n = 1 => OptAfter(OptProgram, n).rdp = "key")
  BY <1>6, <1>8 DEF ErasedOpt
<1>12. n = 2 => OptAfter(OptProgram, n) = OptFor(compress)
  <2> DEFINE u == OptFor(compress).plain
             v == OptFor(compress).packed
  <2> HIDE DEF u, v
  <2>1. n = 2 => OptAfter(OptProgram, n) = [rdp |-> "key", plain |-> u, packed |-> v]
    BY <1>6, <1>8 DEF u, v
  <2>2. QED BY <2>1, <1>7 DEF u, v
<1>13. QED BY <1>2, <1>3, <1>9, <1>10, <1>11, <1>12

-----------------------------------------------------------------------------
(* Which cells a command may change, and what a complete one leaves.        *)
FlashType == flash = [a \in 0 .. FlashCells - 1 |-> flash[a]]
KeepsBelow(at) == \A a \in 0 .. FlashCells - 1 : a < at => flash'[a] = flash[a]
KeepsFrom(at)  == \A a \in 0 .. FlashCells - 1 : a >= at => flash'[a] = flash[a]

LEMMA Whole == ASSUME NEW c, Parts(c) \in Nat, DoesAll(c) PROVE Does(c)
  BY DEF Does, DoesAll

LEMMA WriteFrame ==
  ASSUME FlashType, NEW at \in Nat, NEW name \in Names, Does(Write(at, name))
  PROVE  /\ FlashType' /\ opt' = opt
         /\ KeepsBelow(at) /\ KeepsFrom(at + Cells[name])
         /\ \A a \in 0 .. FlashCells - 1 :
              flash'[a] \in {flash[a], Program(flash[a], <<name, a - at>>)}
<1>1. PICK n \in 0 .. Parts(Write(at, name)) :
        flash' = FlashAfter(Write(at, name), n) /\ opt' = OptAfter(Write(at, name), n)
  BY DEF Does
<1>2. opt' = opt /\ n \in 0 .. Cells[name]
  BY <1>1, WriteParts
<1>3. DOMAIN flash = 0 .. FlashCells - 1
  BY DEF FlashType
<1>4. flash' = [a \in 0 .. FlashCells - 1 |-> IF a \in at .. at + n - 1
                                 THEN Program(flash[a], <<name, a - at>>) ELSE flash[a]]
  <2>1. flash' = [a \in DOMAIN flash |-> IF a \in at .. at + n - 1
                                 THEN Program(flash[a], <<name, a - at>>) ELSE flash[a]]
    <3>1. FlashAfter(Write(at, name), n) =
            [a \in DOMAIN flash |-> IF a \in at .. at + n - 1
                                    THEN Program(flash[a], <<name, a - at>>) ELSE flash[a]]
      BY DEF FlashAfter, Write
    <3>2. QED BY <1>1, <3>1, Zenon
  <2>2. QED BY <2>1, <1>3, Zenon
<1>5. FlashType'
  BY <1>4 DEF FlashType
<1>6. Cells[name] \in Nat /\ FlashCells \in Nat
  BY Places
<1>7. ASSUME NEW a \in 0 .. FlashCells - 1, a < at \/ a >= at + Cells[name]
      PROVE  flash'[a] = flash[a]
  <2>1. a \notin at .. at + n - 1
    BY <1>2, <1>6, <1>7
  <2>2. QED BY <2>1, <1>4
<1>8. \A a \in 0 .. FlashCells - 1 :
        flash'[a] \in {flash[a], Program(flash[a], <<name, a - at>>)}
  BY <1>4
<1>9. QED BY <1>2, <1>5, <1>7, <1>8 DEF KeepsBelow, KeepsFrom

LEMMA WriteWhole ==
  ASSUME FlashType, NEW at \in Nat, NEW name \in Names, DoesAll(Write(at, name)),
         at + Cells[name] <= FlashCells, Free(at, name)
  PROVE  Holds(name, at)'
<1>1. Cells[name] \in Nat /\ FlashCells \in Nat
  BY Places
<1>2. DOMAIN flash = 0 .. FlashCells - 1
  BY DEF FlashType
<1>3. flash' = [a \in 0 .. FlashCells - 1 |-> IF a \in at .. at + Cells[name] - 1
                                 THEN Program(flash[a], <<name, a - at>>) ELSE flash[a]]
  <2>1. flash' = FlashAfter(Write(at, name), Cells[name])
    BY WriteParts DEF DoesAll
  <2>2. flash' = [a \in DOMAIN flash |-> IF a \in at .. at + Cells[name] - 1
                                 THEN Program(flash[a], <<name, a - at>>) ELSE flash[a]]
    <3>1. FlashAfter(Write(at, name), Cells[name]) =
            [a \in DOMAIN flash |-> IF a \in at .. at + Cells[name] - 1
                                    THEN Program(flash[a], <<name, a - at>>) ELSE flash[a]]
      BY DEF FlashAfter, Write
    <3>2. QED BY <2>1, <3>1, Zenon
  <2>3. QED BY <2>2, <1>2, Zenon
<1>4. ASSUME NEW i \in 0 .. Cells[name] - 1 PROVE flash'[at + i] = <<name, i>>
  <2>1. /\ at + i \in 0 .. FlashCells - 1 /\ at + i \in at .. at + Cells[name] - 1
        /\ at + i - at = i
    BY <1>1
  <2>2. flash'[at + i] = Program(flash[at + i], <<name, at + i - at>>)
    BY <1>3, <2>1
  <2>3. flash'[at + i] = Program(flash[at + i], <<name, i>>)
    BY <2>1, <2>2
  <2>4. flash[at + i] \in {Blank, <<name, i>>}
    BY DEF Free
  <2>5. QED BY <2>3, <2>4 DEF Program
<1>5. QED BY <1>4 DEF Holds

(* Erasing k sectors from the q-th. *)
LEMMA EraseFrame ==
  ASSUME FlashType, NEW q \in Nat, NEW k \in Nat, Does(Erase(q * SectorCells, k))
  PROVE  /\ FlashType' /\ opt' = opt
         /\ KeepsBelow(q * SectorCells) /\ KeepsFrom((q + k) * SectorCells)
         /\ \A a \in 0 .. FlashCells - 1 : flash'[a] \in {flash[a], Blank}
<1> DEFINE c == Erase(q * SectorCells, k)
<1>1. PICK n \in 0 .. Parts(c) : flash' = FlashAfter(c, n) /\ opt' = OptAfter(c, n)
  BY DEF Does
<1>2. opt' = opt /\ n \in 0 .. k
  BY <1>1, EraseParts
<1>3. DOMAIN flash = 0 .. FlashCells - 1
  BY DEF FlashType
<1>4. flash' = [a \in 0 .. FlashCells - 1 |-> IF a \div SectorCells \in Erases(c, n)
                                              THEN Blank ELSE flash[a]]
  <2>1. flash' = [a \in DOMAIN flash |-> IF a \div SectorCells \in Erases(c, n)
                                         THEN Blank ELSE flash[a]]
    <3>1. c.do = "erase"
      BY DEF Erase
    <3> HIDE DEF c
    <3>2. FlashAfter(c, n) = [a \in DOMAIN flash |-> IF a \div SectorCells \in Erases(c, n)
                                                     THEN Blank ELSE flash[a]]
      BY <3>1 DEF FlashAfter
    <3>3. QED BY <1>1, <3>2, Zenon
  <2>2. QED BY <2>1, <1>3, Zenon
<1>5. FlashType'
  BY <1>4 DEF FlashType
<1>6. c.at \div SectorCells = q
  BY CellSector, Places DEF Erase
<1>7. Erases(c, n) \subseteq q .. q + n - 1
  BY <1>6 DEF Erases
<1> HIDE DEF c
<1>8. FlashCells \in Nat
  BY Places
<1>9. ASSUME NEW a \in 0 .. FlashCells - 1, a < q * SectorCells \/ a >= (q + k) * SectorCells
      PROVE  flash'[a] = flash[a]
  <2>1. a \in Nat /\ q + k \in Nat
    BY <1>8
  <2>2. a \div SectorCells < q \/ ~(a \div SectorCells < q + k)
    <3>1. CASE a < q * SectorCells
      BY <3>1, <2>1, CellSector
    <3>2. CASE a >= (q + k) * SectorCells
      <4>1. (q + k) * SectorCells \in Nat
        BY <2>1, CellSector
      <4>2. ~(a < (q + k) * SectorCells)
        BY <3>2, <4>1, <2>1
      <4>3. QED BY <4>2, <2>1, CellSector
    <3>3. QED BY <3>1, <3>2, <1>9
  <2>3. a \div SectorCells \in Nat
    BY <2>1, CellSector
  <2>4. a \div SectorCells \notin q .. q + n - 1
    BY <1>2, <2>2, <2>3
  <2>5. QED BY <2>4, <1>4, <1>7
<1>10. KeepsBelow(q * SectorCells) /\ KeepsFrom((q + k) * SectorCells)
  BY <1>9 DEF KeepsBelow, KeepsFrom
<1>11. \A a \in 0 .. FlashCells - 1 : flash'[a] \in {flash[a], Blank}
  BY <1>4
<1>12. QED BY <1>2, <1>5, <1>10, <1>11

LEMMA EraseWhole ==
  ASSUME FlashType, NEW q \in Nat, NEW k \in Nat, DoesAll(Erase(q * SectorCells, k)),
         \A x \in q .. q + k - 1 : ~InBlock(x, Erase(q * SectorCells, k))
  PROVE  \A a \in 0 .. FlashCells - 1 :
           a >= q * SectorCells /\ a < (q + k) * SectorCells => flash'[a] = Blank
<1> DEFINE c == Erase(q * SectorCells, k)
<1>1. DOMAIN flash = 0 .. FlashCells - 1
  BY DEF FlashType
<1>2. flash' = [a \in 0 .. FlashCells - 1 |-> IF a \div SectorCells \in Erases(c, k)
                                              THEN Blank ELSE flash[a]]
  <2>1. flash' = FlashAfter(c, k)
    BY EraseParts DEF DoesAll
  <2>2. flash' = [a \in DOMAIN flash |-> IF a \div SectorCells \in Erases(c, k)
                                         THEN Blank ELSE flash[a]]
    <3>1. c.do = "erase"
      BY DEF Erase
    <3> HIDE DEF c
    <3>2. FlashAfter(c, k) = [a \in DOMAIN flash |-> IF a \div SectorCells \in Erases(c, k)
                                                     THEN Blank ELSE flash[a]]
      BY <3>1 DEF FlashAfter
    <3>3. QED BY <2>1, <3>2, Zenon
  <2>3. QED BY <2>2, <1>1, Zenon
<1>3. c.at \div SectorCells = q
  BY CellSector, Places DEF Erase
<1>4. Erases(c, k) = q .. q + k - 1
  BY <1>3 DEF Erases
<1> HIDE DEF c
<1>5. ASSUME NEW a \in 0 .. FlashCells - 1, a >= q * SectorCells, a < (q + k) * SectorCells
      PROVE  flash'[a] = Blank
  <2>1. a \in Nat /\ q + k \in Nat
    BY Places
  <2>2. a \div SectorCells \in Nat /\ a \div SectorCells < q + k
    BY <1>5, <2>1, CellSector
  <2>3. q * SectorCells \in Nat
    BY CellSector
  <2>4. ~(a < q * SectorCells)
    BY <1>5, <2>1, <2>3
  <2>5. ~(a \div SectorCells < q)
    BY <2>1, <2>4, CellSector
  <2>6. a \div SectorCells \in q .. q + k - 1
    BY <2>2, <2>5
  <2>7. QED BY <2>6, <1>2, <1>4
<1>6. QED BY <1>5

-----------------------------------------------------------------------------
(* The commands that a function may come to.                               *)
Reads == \/ Head(todo) \in {Size, Options, OptVerify}
         \/ \E at, name : Head(todo) = Check(at, name)
Low   == Head(todo) \in {Write(0, "default"), Write(0, "program"), Erase(0, ProgramSectors)}

Kinds ==
  \/ Reads
  \/ Low
  \/ Head(todo) = OptErase /\ fn # "update_program"
  \/ Head(todo) = OptProgram /\ opt = ErasedOpt /\ fn # "update_program"
  \/ /\ fn = "update_logic"
     /\ Head(todo) = Erase(ConfigAddr(compress), ConfigSectors(compress))
  \/ /\ fn = "update_logic" /\ compress /\ Addressed
     /\ Head(todo) \in {Write(ConfigAddr(TRUE), "decomp"), Write(LogicAt(TRUE), Image)}
  \/ /\ fn = "update_logic" /\ ~compress /\ Addressed /\ Image \notin Packed
     /\ Head(todo) = Write(LogicAt(FALSE), Image)

LEMMA ImageIsLogic == ASSUME Types PROVE Image \in LogicImages
<1>1. button = 1 \/ button = 2
  BY DEF Types
<1>2. Logic[1] = "config" /\ Logic[2] = "config1"
  BY DEF Logic
<1>3. QED BY <1>1, <1>2 DEF Image, LogicImages

(* The first command of each list. *)
LEMMA InitHeads ==
  ASSUME Calling, fn = "init_flash", InitSteps
  PROVE  \/ /\ todo = <<Size>> \o (WriteOptions \o WriteDefault)
            /\ Head(todo) = Size /\ Tail(todo) = WriteOptions \o WriteDefault
         \/ /\ todo = WriteOptions \o WriteDefault
            /\ Head(todo) = OptErase /\ Tail(todo) = OptWrite \o WriteDefault
         \/ /\ todo = OptWrite \o WriteDefault /\ opt = ErasedOpt
            /\ Head(todo) = OptProgram /\ Tail(todo) = <<OptVerify>> \o WriteDefault
         \/ /\ todo = <<OptVerify>> \o WriteDefault /\ opt = OptFor(compress) /\ flash = AllBlank
            /\ Head(todo) = OptVerify /\ Tail(todo) = WriteDefault
         \/ /\ todo = WriteDefault /\ opt = OptFor(compress) /\ flash = AllBlank
            /\ Head(todo) = Write(0, "default") /\ Tail(todo) = <<Check(0, "default")>>
         \/ /\ todo = <<Check(0, "default")>> /\ Holds("default", 0)
            /\ Head(todo) = Check(0, "default") /\ Tail(todo) = <<>>
<1>1. WriteDefault \in Seq(Commands)
  BY Lists
<1>2. WriteOptions \o WriteDefault \in Seq(Commands)
  BY <1>1, Lists, ConcatProperties
<1>3. /\ Head(<<Size>> \o (WriteOptions \o WriteDefault)) = Size
      /\ Tail(<<Size>> \o (WriteOptions \o WriteDefault)) = WriteOptions \o WriteDefault
  <2> DEFINE t == WriteOptions \o WriteDefault
  <2> HIDE DEF t
  <2>1. t \in Seq(Commands) /\ Size \in Commands
    BY <1>2, AreCommands DEF t
  <2>2. Head(<<Size>> \o t) = Size /\ Tail(<<Size>> \o t) = t
    BY <2>1, HeadOneJoined
  <2>3. QED BY <2>2 DEF t
<1>4. Head(WriteDefault) = Write(0, "default") /\ Tail(WriteDefault) = <<Check(0, "default")>>
  BY WriteList, HeadOfTwo DEF WriteDefault
<1>5. Head(<<Check(0, "default")>>) = Check(0, "default") /\ Tail(<<Check(0, "default")>>) = <<>>
  BY HeadOfOne
<1>6. todo # <<>> /\ ok
  BY DEF Calling
<1>7. CASE todo = <<Size>> \o (WriteOptions \o WriteDefault)
  BY <1>7, <1>3
<1>8. CASE todo = WriteOptions \o WriteDefault
  BY <1>8, <1>1, OptionList
<1>9. CASE todo = OptWrite \o WriteDefault /\ opt = ErasedOpt
  BY <1>9, <1>1, OptionList
<1>10. CASE todo = <<OptVerify>> \o WriteDefault /\ opt = OptFor(compress) /\ flash = AllBlank
  BY <1>10, <1>1, OptionList
<1>11. CASE todo = WriteDefault /\ opt = OptFor(compress) /\ flash = AllBlank
  BY <1>11, <1>4
<1>12. CASE todo = <<Check(0, "default")>> /\ Holds("default", 0)
  BY <1>12, <1>5
<1>13. QED BY <1>6, <1>7, <1>8, <1>9, <1>10, <1>11, <1>12 DEF InitSteps

LEMMA ProgramHeads ==
  ASSUME Calling, fn = "update_program", ProgramSteps
  PROVE  \/ /\ todo = UpdateProgram
            /\ Head(todo) = Erase(0, ProgramSectors) /\ Tail(todo) = WriteMemory(0, "program")
         \/ /\ todo = WriteMemory(0, "program") /\ (Rewritable => Free(0, "program"))
            /\ Head(todo) = Write(0, "program") /\ Tail(todo) = <<Check(0, "program")>>
         \/ /\ todo = <<Check(0, "program")>> /\ (Rewritable => Holds("program", 0))
            /\ Head(todo) = Check(0, "program") /\ Tail(todo) = <<>>
<1>1. /\ Head(UpdateProgram) = Erase(0, ProgramSectors)
      /\ Tail(UpdateProgram) = WriteMemory(0, "program")
  <2> DEFINE t == WriteMemory(0, "program")
             e == Erase(0, ProgramSectors)
  <2>1. t \in Seq(Commands) /\ e \in Commands
    BY Lists, AreCommands
  <2>2. UpdateProgram = <<e>> \o t
    BY DEF UpdateProgram
  <2> HIDE DEF t, e
  <2>3. Head(<<e>> \o t) = e /\ Tail(<<e>> \o t) = t
    BY <2>1, HeadOneJoined
  <2>4. QED BY <2>2, <2>3 DEF t, e
<1>2. /\ Head(WriteMemory(0, "program")) = Write(0, "program")
      /\ Tail(WriteMemory(0, "program")) = <<Check(0, "program")>>
  BY WriteList, HeadOfTwo
<1>3. Head(<<Check(0, "program")>>) = Check(0, "program") /\ Tail(<<Check(0, "program")>>) = <<>>
  BY HeadOfOne
<1>4. todo # <<>> /\ ok
  BY DEF Calling
<1>5. QED BY <1>1, <1>2, <1>3, <1>4 DEF ProgramSteps

LogicHeads ==
  LET Logics == WriteLogic(Image)
      Rest == WriteDefault \o Logics
  IN
  \/ /\ todo = <<Size, Options>> /\ SurvivesOrRewrite
     /\ Head(todo) = Size /\ Tail(todo) = <<Options>>
  \/ todo = <<Options>> /\ SurvivesOrRewrite /\ Head(todo) = Options
  \/ todo = WriteOptions \o Rest /\ Head(todo) = OptErase /\ Tail(todo) = OptWrite \o Rest
  \/ /\ todo = OptWrite \o Rest /\ opt = ErasedOpt
     /\ Head(todo) = OptProgram /\ Tail(todo) = <<OptVerify>> \o Rest
  \/ /\ todo = <<OptVerify>> \o Rest /\ opt = OptFor(compress) /\ flash = AllBlank
     /\ Head(todo) = OptVerify /\ Tail(todo) = Rest
  \/ /\ todo = Rest /\ opt = OptFor(compress) /\ flash = AllBlank
     /\ Head(todo) = Write(0, "default") /\ Tail(todo) = <<Check(0, "default")>> \o Logics
  \/ /\ todo = <<Check(0, "default")>> \o Logics
     /\ opt = OptFor(compress) /\ Holds("default", 0) /\ BlankFrom(ConfigAddr(compress))
     /\ Head(todo) = Check(0, "default") /\ Tail(todo) = Logics
  \/ /\ Addressed /\ Survives
     /\ todo = <<Erase(ConfigAddr(compress), ConfigSectors(compress))>> \o Logics
     /\ Head(todo) = Erase(ConfigAddr(compress), ConfigSectors(compress)) /\ Tail(todo) = Logics
  \/ /\ Addressed /\ Survives /\ compress
     /\ Rewritable => BlankFrom(ConfigAddr(TRUE))
     /\ Head(todo) = Write(ConfigAddr(TRUE), "decomp")
     /\ Tail(todo) = <<Check(ConfigAddr(TRUE), "decomp")>> \o WriteMemory(LogicAt(TRUE), Image)
  \/ /\ Addressed /\ Survives /\ compress
     /\ Rewritable => Holds("decomp", ConfigAddr(TRUE)) /\ BlankFrom(LogicAt(TRUE))
     /\ Head(todo) = Check(ConfigAddr(TRUE), "decomp")
     /\ Tail(todo) = WriteMemory(LogicAt(TRUE), Image)
  \/ /\ Addressed /\ Survives
     /\ compress => Holds("decomp", ConfigAddr(TRUE))
     /\ Rewritable => Free(LogicAt(compress), Image)
     /\ Head(todo) = Write(LogicAt(compress), Image)
     /\ Tail(todo) = <<Check(LogicAt(compress), Image)>>
  \/ /\ Addressed /\ Survives
     /\ compress => Holds("decomp", ConfigAddr(TRUE))
     /\ Rewritable => Holds(Image, LogicAt(compress))
     /\ Head(todo) = Check(LogicAt(compress), Image) /\ Tail(todo) = <<>>

LEMMA DefaultList ==
  ASSUME NEW s \in Seq(Commands)
  PROVE  /\ Head(WriteDefault \o s) = Write(0, "default")
         /\ Tail(WriteDefault \o s) = <<Check(0, "default")>> \o s
         /\ Head(<<Check(0, "default")>> \o s) = Check(0, "default")
         /\ Tail(<<Check(0, "default")>> \o s) = s
<1>1. Write(0, "default") \in Commands /\ Check(0, "default") \in Commands
  BY AreCommands
<1>2. WriteDefault = <<Write(0, "default"), Check(0, "default")>>
  BY WriteList DEF WriteDefault
<1>3. /\ Head(<<Check(0, "default")>> \o s) = Check(0, "default")
      /\ Tail(<<Check(0, "default")>> \o s) = s
  BY <1>1, HeadOneJoined
<1>4. /\ Head(<<Write(0, "default"), Check(0, "default")>> \o s) = Write(0, "default")
      /\ Tail(<<Write(0, "default"), Check(0, "default")>> \o s) = <<Check(0, "default")>> \o s
  BY <1>1, HeadTwoJoined
<1>5. QED BY <1>2, <1>3, <1>4

LEMMA LogicLists ==
  ASSUME Types
  PROVE  LET Logics == WriteLogic(Image)
             e == Erase(ConfigAddr(compress), ConfigSectors(compress))
             d == Check(ConfigAddr(TRUE), "decomp")
             w == WriteMemory(LogicAt(TRUE), Image)
         IN  /\ Logics \in Seq(Commands) /\ WriteDefault \o Logics \in Seq(Commands)
             /\ Head(<<e>> \o Logics) = e /\ Tail(<<e>> \o Logics) = Logics
             /\ Head(<<d>> \o w) = d /\ Tail(<<d>> \o w) = w
             /\ compress => /\ Head(Logics) = Write(ConfigAddr(TRUE), "decomp")
                            /\ Tail(Logics) = <<d>> \o w
             /\ ~compress => Logics = WriteMemory(LogicAt(compress), Image)
<1> DEFINE Logics == WriteLogic(Image)
           e == Erase(ConfigAddr(compress), ConfigSectors(compress))
           d == Check(ConfigAddr(TRUE), "decomp")
           c == Write(ConfigAddr(TRUE), "decomp")
           w == WriteMemory(LogicAt(TRUE), Image)
<1>1. Image \in LogicImages /\ compress \in BOOLEAN
  BY ImageIsLogic DEF Types
<1>2. Logics \in Seq(Commands)
  BY <1>1, RestList
<1>3. WriteDefault \o Logics \in Seq(Commands)
  BY <1>2, Lists, ConcatProperties
<1>4. e \in Commands /\ d \in Commands /\ c \in Commands
  BY <1>1, AreCommands, Zenon
<1>5. w \in Seq(Commands)
  BY <1>1, Lists, Zenon
<1>6. compress => Logics = <<c, d>> \o w
  <2>1. compress => Logics = WriteMemory(ConfigAddr(TRUE), "decomp") \o w
    BY <1>1, RestList
  <2>2. WriteMemory(ConfigAddr(TRUE), "decomp") = <<c, d>>
    BY WriteList
  <2>3. QED BY <2>1, <2>2
<1>7. ~compress => Logics = WriteMemory(LogicAt(compress), Image)
  <2>1. ~compress => compress = FALSE
    BY <1>1
  <2>2. ~compress => Logics = WriteMemory(LogicAt(FALSE), Image)
    BY <1>1, RestList
  <2>3. QED BY <2>1, <2>2, Zenon
<1> HIDE DEF Logics, e, d, c, w
<1>8. Head(<<e>> \o Logics) = e /\ Tail(<<e>> \o Logics) = Logics
  BY <1>2, <1>4, HeadOneJoined
<1>9. Head(<<d>> \o w) = d /\ Tail(<<d>> \o w) = w
  BY <1>4, <1>5, HeadOneJoined
<1>10. Head(<<c, d>> \o w) = c /\ Tail(<<c, d>> \o w) = <<d>> \o w
  BY <1>4, <1>5, HeadTwoJoined
<1>11. QED BY <1>2, <1>3, <1>6, <1>7, <1>8, <1>9, <1>10 DEF Logics, e, d, c, w

LEMMA LogicHead ==
  ASSUME Types, Calling, fn = "update_logic", LogicSteps
  PROVE  LogicHeads
<1> DEFINE Logics == WriteLogic(Image)
           Rest == WriteDefault \o Logics
<1>1. Logics \in Seq(Commands) /\ Rest \in Seq(Commands)
  BY LogicLists
<1>2. todo # <<>> /\ ok /\ compress \in BOOLEAN
  BY DEF Calling, Types
<1>3. CASE todo = <<Size, Options>> /\ SurvivesOrRewrite
  BY <1>3, HeadOfTwo DEF LogicHeads
<1>4. CASE todo = <<Options>> /\ SurvivesOrRewrite
  BY <1>4, HeadOfOne DEF LogicHeads
<1>5. CASE RewriteSteps
  <2>1. /\ Head(WriteOptions \o Rest) = OptErase /\ Tail(WriteOptions \o Rest) = OptWrite \o Rest
        /\ Head(OptWrite \o Rest) = OptProgram /\ Tail(OptWrite \o Rest) = <<OptVerify>> \o Rest
        /\ Head(<<OptVerify>> \o Rest) = OptVerify /\ Tail(<<OptVerify>> \o Rest) = Rest
    <3> HIDE DEF Rest
    <3>1. QED BY <1>1, OptionList
  <2>2. /\ Head(Rest) = Write(0, "default") /\ Tail(Rest) = <<Check(0, "default")>> \o Logics
        /\ Head(<<Check(0, "default")>> \o Logics) = Check(0, "default")
        /\ Tail(<<Check(0, "default")>> \o Logics) = Logics
    <3> HIDE DEF Logics
    <3>1. QED BY <1>1, DefaultList DEF Rest
  <2>3. CASE todo = WriteOptions \o Rest
    BY <2>1, <2>3 DEF LogicHeads
  <2>4. CASE todo = OptWrite \o Rest /\ opt = ErasedOpt
    BY <2>1, <2>4 DEF LogicHeads
  <2>5. CASE todo = <<OptVerify>> \o Rest /\ opt = OptFor(compress) /\ flash = AllBlank
    BY <2>1, <2>5 DEF LogicHeads
  <2>6. CASE todo = Rest /\ opt = OptFor(compress) /\ flash = AllBlank
    BY <2>2, <2>6 DEF LogicHeads
  <2>7. CASE /\ todo = <<Check(0, "default")>> \o Logics
             /\ opt = OptFor(compress) /\ Holds("default", 0) /\ BlankFrom(ConfigAddr(compress))
    BY <2>2, <2>7 DEF LogicHeads
  <2>8. QED BY <1>5, <2>3, <2>4, <2>5, <2>6, <2>7 DEF RewriteSteps
<1>6. CASE PlaceSteps
  <2>1. Addressed /\ Survives
    BY <1>6 DEF PlaceSteps
  <2>2. /\ Head(WriteMemory(LogicAt(compress), Image)) = Write(LogicAt(compress), Image)
        /\ Tail(WriteMemory(LogicAt(compress), Image)) = <<Check(LogicAt(compress), Image)>>
    BY WriteList, HeadOfTwo
  <2>3. CASE todo = <<Erase(ConfigAddr(compress), ConfigSectors(compress))>> \o Logics
    BY <2>1, <2>3, LogicLists DEF LogicHeads
  <2>4. CASE /\ todo = Logics
             /\ Rewritable => IF compress THEN BlankFrom(ConfigAddr(TRUE))
                                          ELSE Free(LogicAt(FALSE), Image)
    <3>1. CASE compress
      BY <2>1, <2>4, <3>1, LogicLists DEF LogicHeads
    <3>2. CASE ~compress
      <4>1. compress = FALSE
        BY <1>2, <3>2
      <4>2. Rewritable => Free(LogicAt(compress), Image)
        BY <2>4, <4>1, Zenon
      <4>3. todo = WriteMemory(LogicAt(compress), Image)
        BY <2>4, <3>2, LogicLists
      <4>4. QED BY <2>1, <2>2, <3>2, <4>2, <4>3 DEF LogicHeads
    <3>3. QED BY <3>1, <3>2
  <2>5. CASE /\ compress
             /\ todo = <<Check(ConfigAddr(TRUE), "decomp")>> \o WriteMemory(LogicAt(TRUE), Image)
             /\ Rewritable => Holds("decomp", ConfigAddr(TRUE)) /\ BlankFrom(LogicAt(TRUE))
    BY <2>1, <2>5, LogicLists DEF LogicHeads
  <2>6. CASE /\ todo = WriteMemory(LogicAt(compress), Image)
             /\ compress => Holds("decomp", ConfigAddr(TRUE))
             /\ Rewritable => Free(LogicAt(compress), Image)
    BY <2>1, <2>2, <2>6 DEF LogicHeads
  <2>7. CASE /\ todo = <<Check(LogicAt(compress), Image)>>
             /\ compress => Holds("decomp", ConfigAddr(TRUE))
             /\ Rewritable => Holds(Image, LogicAt(compress))
    BY <2>1, <2>7, HeadOfOne DEF LogicHeads
  <2>8. QED BY <1>2, <1>6, <2>3, <2>4, <2>5, <2>6, <2>7 DEF PlaceSteps
<1>7. QED BY <1>2, <1>3, <1>4, <1>5, <1>6 DEF LogicSteps

LEMMA Kind ==
  ASSUME Types, Calling, InitSteps, LogicSteps, ProgramSteps
  PROVE  Kinds
<1>1. fn \in Functions
  BY DEF Calling
<1>2. CASE fn = "init_flash"
  BY <1>2, InitHeads DEF Kinds, Reads, Low
<1>3. CASE fn = "update_program"
  BY <1>3, ProgramHeads DEF Kinds, Reads, Low
<1>4. CASE fn = "update_logic"
  <2>1. LogicHeads
    BY <1>4, LogicHead
  <2>2. compress \in BOOLEAN /\ compress = (Image \in Packed) /\ ok
    BY <1>4 DEF Types, LogicSteps, Calling
  <2>3. compress => LogicAt(compress) = LogicAt(TRUE)
    BY <2>2
  <2>4. ~compress => LogicAt(compress) = LogicAt(FALSE)
    <3>1. ~compress => compress = FALSE
      BY <2>2
    <3>2. QED BY <3>1, Zenon
  <2>5. ~compress => Image \notin Packed
    BY <2>2
  <2>6. CASE Head(todo) = Write(LogicAt(compress), Image) /\ Addressed
    BY <1>4, <2>3, <2>4, <2>5, <2>6, Zenon DEF Kinds
  <2>7. QED BY <1>4, <2>1, <2>6 DEF LogicHeads, Kinds, Reads, Low
<1>5. QED BY <1>1, <1>2, <1>3, <1>4 DEF Functions

-----------------------------------------------------------------------------
(* What every command, done in part or as a whole, keeps.                   *)
Effect ==
  /\ FlashType' /\ opt' \in OptionBytes /\ Device' /\ (HasKey => HasKey')
  /\ fn = "update_program" => KeepsFrom(ConfigAddr(FALSE)) /\ opt' = opt

LEMMA PlainCell == ASSUME NEW a \in ConfigAddr(FALSE) .. FlashCells - 1
                   PROVE  a \in 0 .. FlashCells - 1 /\ a >= ConfigAddr(FALSE)
<1> DEFINE lo == ConfigAddr(FALSE)
<1>1. lo \in Nat /\ FlashCells \in Nat
  BY Places
<1>2. a \in lo .. FlashCells - 1
  OBVIOUS
<1> HIDE DEF lo
<1>3. a \in 0 .. FlashCells - 1 /\ a >= lo
  BY <1>1, <1>2
<1>4. QED BY <1>3 DEF lo

LEMMA TypesFlash == ASSUME Types PROVE FlashType /\ opt \in OptionBytes
  BY DEF Types, FlashType

LEMMA KeptHigh ==
  ASSUME Types, Device, FlashType', opt' = opt, KeepsFrom(ConfigAddr(FALSE))
  PROVE  Effect
<1>1. ASSUME NEW a \in ConfigAddr(FALSE) .. FlashCells - 1 PROVE OneLogicAt(a) => OneLogicAt(a)'
  <2>2. a \in 0 .. FlashCells - 1 /\ a >= ConfigAddr(FALSE)
    BY PlainCell
  <2>3. flash'[a] = flash[a]
    BY <2>2 DEF KeepsFrom
  <2>4. QED BY <2>3 DEF OneLogicAt
<1>2. Device'
  BY <1>1 DEF Device
<1>3. QED BY <1>2, TypesFlash DEF Effect, HasKey

LEMMA KeptFlash ==
  ASSUME Types, Device, flash' = flash, opt' = opt
  PROVE  Effect
<1>1. FlashType' /\ KeepsFrom(ConfigAddr(FALSE))
  BY TypesFlash DEF FlashType, KeepsFrom
<1>2. QED BY <1>1, KeptHigh

LEMMA BlankDevice ==
  ASSUME flash' = AllBlank, opt' \in OptionBytes, opt'.rdp = "key", fn # "update_program"
  PROVE  Effect
<1>1. FlashType'
  BY DEF FlashType, AllBlank
<1>2. ASSUME NEW a \in ConfigAddr(FALSE) .. FlashCells - 1 PROVE OneLogicAt(a)'
  <2>1. a \in 0 .. FlashCells - 1
    BY PlainCell
  <2>2. flash'[a] = Blank
    BY <2>1 DEF AllBlank
  <2>3. QED BY <2>2 DEF OneLogicAt
<1>3. QED BY <1>1, <1>2 DEF Effect, Device, HasKey

(* A device without the plain address may hold anything. *)
LEMMA NoPlain ==
  ASSUME FlashType', opt' \in OptionBytes, opt'.plain # "ok",
         opt' = ErasedOpt, fn # "update_program"
  PROVE  Effect
  BY DEF Effect, Device, HasKey

LEMMA ReadEffect == ASSUME Types, Device, Reads, Does(Head(todo)) PROVE Effect
<1>1. PICK n \in 0 .. Parts(Head(todo)) :
        flash' = FlashAfter(Head(todo), n) /\ opt' = OptAfter(Head(todo), n)
  BY DEF Does
<1>2. CASE Head(todo) \in {Size, Options, OptVerify}
  <2>1. flash' = flash /\ opt' = opt
    BY <1>1, <1>2, Reading
  <2>2. QED BY <2>1, KeptFlash
<1>3. CASE \E at, name : Head(todo) = Check(at, name)
  <2>1. flash' = flash /\ opt' = opt
    BY <1>1, <1>3, Reading
  <2>2. QED BY <2>1, KeptFlash
<1>4. QED BY <1>2, <1>3 DEF Reads

(* The program has a place below the logic. *)
LEMMA ProgramPlace ==
  /\ ProgramSectors \in Nat
  /\ ProgramSectors * SectorCells <= ConfigAddr(FALSE)
  /\ Cells["program"] <= ProgramSectors * SectorCells
<1>1. SectorCells \in Nat \ {0} /\ FlashSectors \in Nat /\ ConfigSectors(FALSE) \in Nat
      /\ ConfigSectors(FALSE) <= FlashSectors
  BY LogicAssumption, Places DEF LogicAssumption
<1>2. Cells["program"] \in Nat \ {0} /\ Cells["program"] <= ConfigAddr(FALSE)
  BY Places DEF Names
<1> DEFINE k == FlashSectors - ConfigSectors(FALSE)
           x == Cells["program"]
           y == x + SectorCells - 1
           z == k * SectorCells
<1>3. k \in Nat /\ ConfigAddr(FALSE) = z
  <2>1. ConfigAddr(FALSE) = (FlashSectors - ConfigSectors(FALSE)) * SectorCells
    BY Places
  <2>2. k \in Nat
    <3> DEFINE m == ConfigSectors(FALSE)
    <3>1. m \in Nat /\ m <= FlashSectors
      BY <1>1
    <3> HIDE DEF m
    <3>2. FlashSectors - m \in Nat
      BY <1>1, <3>1
    <3>3. QED BY <3>2 DEF m
  <2>3. QED BY <2>1, <2>2, Zenon
<1>4. x \in Nat /\ x >= 1 /\ y \in Nat /\ ProgramSectors = y \div SectorCells
  BY <1>1, <1>2 DEF ProgramSectors
<1>5. z \in Nat /\ x <= z
  <2>1. ConfigAddr(FALSE) \in Nat
    BY Places
  <2>2. QED BY <2>1, <1>2, <1>3, Zenon
<1> HIDE DEF k
<1>6. (k + 1) * SectorCells = z + SectorCells
  BY <1>1, <1>3
<1>7. y < (k + 1) * SectorCells
  <2> HIDE DEF x, z
  <2>1. QED BY <1>1, <1>4, <1>5, <1>6
<1> HIDE DEF y, x, z
<1>8. y \div SectorCells \in Nat /\ y \div SectorCells < k + 1
  BY <1>3, <1>4, <1>7, CellSector
<1>9. ProgramSectors \in Nat /\ ProgramSectors <= k
  BY <1>3, <1>4, <1>8
<1>10. ProgramSectors * SectorCells <= k * SectorCells
  BY <1>1, <1>3, <1>9, Product
<1>11. y < (ProgramSectors + 1) * SectorCells
  BY <1>4, <1>9, CellSector
<1>12. (ProgramSectors + 1) * SectorCells = ProgramSectors * SectorCells + SectorCells
       /\ ProgramSectors * SectorCells \in Nat
  BY <1>1, <1>9
<1>13. x <= ProgramSectors * SectorCells
  <2> DEFINE w == ProgramSectors * SectorCells
  <2>1. w \in Nat /\ y < w + SectorCells /\ y = x + SectorCells - 1
    BY <1>11, <1>12 DEF y
  <2> HIDE DEF w
  <2>2. x <= w
    BY <2>1, <1>1, <1>4
  <2>3. QED BY <2>2 DEF w
<1>14. QED BY <1>3, <1>9, <1>10, <1>13 DEF z, x

LEMMA LowEffect == ASSUME Types, Device, Low, Does(Head(todo)) PROVE Effect
<1>1. FlashType
  BY TypesFlash
<1>2. ASSUME NEW name \in {"program", "default"}, Head(todo) = Write(0, name)
      PROVE  Effect
  <2>1. name \in Names /\ Cells[name] \in Nat /\ Cells[name] <= ConfigAddr(FALSE)
    BY Places DEF Names
  <2>2. FlashType' /\ opt' = opt /\ KeepsFrom(0 + Cells[name])
    BY <1>1, <1>2, <2>1, WriteFrame
  <2>3. KeepsFrom(ConfigAddr(FALSE))
    <3> DEFINE lo == ConfigAddr(FALSE)
               n == Cells[name]
    <3>1. lo \in Nat /\ n \in Nat /\ n <= lo
      BY <2>1, Places
    <3> HIDE DEF lo, n
    <3>2. ASSUME NEW a \in 0 .. FlashCells - 1, a >= lo PROVE flash'[a] = flash[a]
      <4>1. a >= 0 + n
        BY <3>1, <3>2
      <4>2. QED BY <4>1, <2>2 DEF KeepsFrom, n
    <3>3. QED BY <3>2 DEF KeepsFrom, lo
  <2>4. QED BY <2>2, <2>3, KeptHigh
<1>3. CASE Head(todo) = Erase(0, ProgramSectors)
  <2>1. 0 * SectorCells = 0 /\ ProgramSectors \in Nat
    BY ProgramPlace, LogicAssumption DEF LogicAssumption
  <2>2. Does(Erase(0 * SectorCells, ProgramSectors))
    BY <1>3, <2>1
  <2>3. FlashType' /\ opt' = opt /\ KeepsFrom((0 + ProgramSectors) * SectorCells)
    BY <1>1, <2>1, <2>2, EraseFrame
  <2>4. KeepsFrom(ConfigAddr(FALSE))
    <3> DEFINE lo == ConfigAddr(FALSE)
               n == ProgramSectors * SectorCells
    <3>1. lo \in Nat /\ n \in Nat /\ n <= lo
      BY ProgramPlace, Places, CellSector
    <3>2. (0 + ProgramSectors) * SectorCells = n
      BY <2>1
    <3> HIDE DEF lo, n
    <3>3. ASSUME NEW a \in 0 .. FlashCells - 1, a >= lo PROVE flash'[a] = flash[a]
      <4>1. a >= n
        BY <3>1, <3>3
      <4>2. QED BY <4>1, <2>3, <3>2 DEF KeepsFrom
    <3>4. QED BY <3>3 DEF KeepsFrom, lo
  <2>5. QED BY <2>3, <2>4, KeptHigh
<1>4. QED BY <1>2, <1>3 DEF Low

LEMMA OptionEffect ==
  ASSUME Types, Device, Does(Head(todo)), fn # "update_program",
         Head(todo) = OptErase \/ (Head(todo) = OptProgram /\ opt = ErasedOpt)
  PROVE  Effect
<1>1. PICK n \in 0 .. Parts(Head(todo)) :
        flash' = FlashAfter(Head(todo), n) /\ opt' = OptAfter(Head(todo), n)
  BY DEF Does
<1>2. FlashType /\ ErasedOpt \in OptionBytes
  BY TypesFlash DEF ErasedOpt, OptionBytes, Addresses
<1>3. CASE Head(todo) = OptErase
  <2>1. flash' = flash /\ (opt' = opt \/ opt' = ErasedOpt)
    BY <1>1, <1>3, ErasingOptions
  <2>2. CASE opt' = opt
    BY <2>1, <2>2, KeptFlash
  <2>3. CASE opt' = ErasedOpt
    <3>1. FlashType' /\ opt'.plain # "ok" /\ opt' \in OptionBytes
      BY <1>2, <2>1, <2>3 DEF FlashType, ErasedOpt
    <3>2. QED BY <3>1, <2>3, NoPlain
  <2>4. QED BY <2>1, <2>2, <2>3
<1>4. CASE Head(todo) = OptProgram /\ opt = ErasedOpt
  <2>1. Parts(OptProgram) = 2
    BY DEF Parts, OptProgram
  <2>2. n \in 0 .. 2
    BY <1>4, <2>1
  <2>3. /\ flash' = IF n > 0 THEN AllBlank ELSE flash
        /\ n < 2 => opt'.plain = "none"
        /\ n = 0 => opt' = ErasedOpt
        /\ n = 1 => opt'.rdp = "key"
        /\ n = 2 => opt' = OptFor(compress)
        /\ opt' \in OptionBytes
    BY <1>1, <1>4, <2>2, ProgrammingOptions
  <2>4. n = 0 \/ n = 1 \/ n = 2
    BY <2>2
  <2>5. CASE n = 0
    BY <1>4, <2>3, <2>5, KeptFlash
  <2>6. CASE n = 1 \/ n = 2
    <3>1. flash' = AllBlank
      BY <2>3, <2>6
    <3>2. opt'.rdp = "key"
      BY <2>3, <2>6 DEF OptFor
    <3>3. QED BY <2>3, <3>1, <3>2, BlankDevice
  <2>7. QED BY <2>4, <2>5, <2>6
<1>5. QED BY <1>3, <1>4

LEMMA PlaceEffect ==
  ASSUME Types, Device, Does(Head(todo)), fn = "update_logic",
         Head(todo) = Erase(ConfigAddr(compress), ConfigSectors(compress))
  PROVE  Effect
<1> DEFINE q == FlashSectors - ConfigSectors(compress)
<1>1. /\ compress \in BOOLEAN /\ ConfigSectors(compress) \in Nat
      /\ ConfigSectors(compress) <= FlashSectors /\ ConfigAddr(compress) = q * SectorCells
  BY Places DEF Types
<1>2. q \in Nat
  BY <1>1, LogicAssumption DEF LogicAssumption
<1> HIDE DEF q
<1>3. /\ FlashType' /\ opt' = opt
      /\ \A a \in 0 .. FlashCells - 1 : flash'[a] \in {flash[a], Blank}
  BY <1>1, <1>2, TypesFlash, EraseFrame
<1>4. ASSUME NEW a \in ConfigAddr(FALSE) .. FlashCells - 1 PROVE OneLogicAt(a) => OneLogicAt(a)'
  <2>1. flash'[a] \in {flash[a], Blank}
    BY <1>3, PlainCell
  <2>2. QED BY <2>1 DEF OneLogicAt
<1>5. Device'
  BY <1>3, <1>4 DEF Device
<1>6. QED BY <1>3, <1>5, TypesFlash DEF Effect, HasKey

LEMMA PackedEffect ==
  ASSUME Types, Device, Does(Head(todo)), fn = "update_logic", compress, Addressed,
         Head(todo) \in {Write(ConfigAddr(TRUE), "decomp"), Write(LogicAt(TRUE), Image)}
  PROVE  Effect
<1>1. opt.plain # "ok"
  BY DEF Addressed
<1>2. ConfigAddr(TRUE) \in Nat /\ LogicAt(TRUE) \in Nat
  BY Places, LogicPlaces, Zenon
<1>3. "decomp" \in Names /\ Image \in Names
  BY ImageIsLogic DEF Names, LogicImages
<1>4. FlashType' /\ opt' = opt
  BY <1>2, <1>3, TypesFlash, WriteFrame
<1>5. Device'
  BY <1>1, <1>4 DEF Device
<1>6. QED BY <1>4, <1>5, TypesFlash DEF Effect, HasKey

LEMMA PlainEffect ==
  ASSUME Types, Device, Does(Head(todo)), fn = "update_logic", ~compress, Addressed,
         Image \notin Packed, Head(todo) = Write(LogicAt(FALSE), Image)
  PROVE  Effect
<1>1. LogicAt(FALSE) = ConfigAddr(FALSE) /\ ConfigAddr(FALSE) \in Nat
  BY Places, LogicPlaces, Zenon
<1>2. Image \in Names /\ Image \in LogicImages
  BY ImageIsLogic DEF Names, LogicImages
<1>3. /\ FlashType' /\ opt' = opt
      /\ \A a \in 0 .. FlashCells - 1 :
           flash'[a] \in {flash[a], Program(flash[a], <<Image, a - ConfigAddr(FALSE)>>)}
  BY <1>1, <1>2, TypesFlash, WriteFrame
<1>4. ASSUME NEW a \in ConfigAddr(FALSE) .. FlashCells - 1, Rewritable, OneLogicAt(a)
      PROVE  OneLogicAt(a)'
  <2>1. \A i \in LogicImages \ Packed : i = Image
    BY <1>2, <1>4 DEF Rewritable
  <2> DEFINE new == <<Image, a - ConfigAddr(FALSE)>>
  <2>2. flash[a] = Blank \/ flash[a] = new
    BY <1>4, <2>1 DEF OneLogicAt
  <2>3. flash'[a] \in {flash[a], Program(flash[a], new)}
    BY <1>3, PlainCell
  <2> HIDE DEF new
  <2>4. flash'[a] = Blank \/ flash'[a] = new
    BY <2>2, <2>3 DEF Program
  <2>5. QED BY <1>2, <2>4 DEF OneLogicAt, new
<1>5. Device'
  BY <1>3, <1>4 DEF Device
<1>6. QED BY <1>3, <1>5, TypesFlash DEF Effect, HasKey

LEMMA AnyEffect == ASSUME Types, Device, Kinds, Does(Head(todo)) PROVE Effect
<1>1. CASE Reads
  BY <1>1, ReadEffect
<1>2. CASE Low
  BY <1>2, LowEffect
<1>3. CASE Head(todo) = OptErase /\ fn # "update_program"
  BY <1>3, OptionEffect
<1>4. CASE Head(todo) = OptProgram /\ opt = ErasedOpt /\ fn # "update_program"
  BY <1>4, OptionEffect
<1>5. CASE fn = "update_logic" /\ Head(todo) = Erase(ConfigAddr(compress), ConfigSectors(compress))
  BY <1>5, PlaceEffect
<1>6. CASE /\ fn = "update_logic" /\ compress /\ Addressed
           /\ Head(todo) \in {Write(ConfigAddr(TRUE), "decomp"), Write(LogicAt(TRUE), Image)}
  BY <1>6, PackedEffect
<1>7. CASE /\ fn = "update_logic" /\ ~compress /\ Addressed /\ Image \notin Packed
           /\ Head(todo) = Write(LogicAt(FALSE), Image)
  BY <1>7, PlainEffect
<1>8. QED BY <1>1, <1>2, <1>3, <1>4, <1>5, <1>6, <1>7 DEF Kinds

-----------------------------------------------------------------------------
(* What is in flash before and after a command.                            *)
LEMMA KeepHolds ==
  ASSUME NEW at \in Nat, NEW name \in Names, NEW hi \in Nat, KeepsBelow(hi),
         at + Cells[name] <= hi, at + Cells[name] <= FlashCells, Holds(name, at)
  PROVE  Holds(name, at)'
<1>1. Cells[name] \in Nat /\ FlashCells \in Nat
  BY Places
<1>2. ASSUME NEW i \in 0 .. Cells[name] - 1 PROVE flash'[at + i] = <<name, i>>
  <2>1. at + i \in 0 .. FlashCells - 1 /\ at + i < hi
    BY <1>1
  <2>2. flash'[at + i] = flash[at + i]
    BY <2>1 DEF KeepsBelow
  <2>3. QED BY <2>2 DEF Holds
<1>3. QED BY <1>2 DEF Holds

LEMMA KeepHoldsHigh ==
  ASSUME NEW at \in Nat, NEW name \in Names, NEW lo \in Nat, KeepsFrom(lo),
         lo <= at, at + Cells[name] <= FlashCells, Holds(name, at)
  PROVE  Holds(name, at)'
<1>1. Cells[name] \in Nat /\ FlashCells \in Nat
  BY Places
<1>2. ASSUME NEW i \in 0 .. Cells[name] - 1 PROVE flash'[at + i] = <<name, i>>
  <2>1. at + i \in 0 .. FlashCells - 1 /\ at + i >= lo
    BY <1>1
  <2>2. flash'[at + i] = flash[at + i]
    BY <2>1 DEF KeepsFrom
  <2>3. QED BY <2>2 DEF Holds
<1>3. QED BY <1>2 DEF Holds

LEMMA BlankFree ==
  ASSUME NEW at \in Nat, NEW name \in Names, NEW lo \in Nat, BlankFrom(lo), lo <= at,
         at + Cells[name] <= FlashCells
  PROVE  Free(at, name)
<1>1. Cells[name] \in Nat /\ FlashCells \in Nat
  BY Places
<1>2. ASSUME NEW i \in 0 .. Cells[name] - 1 PROVE flash[at + i] = Blank
  <2>1. at + i \in lo .. FlashCells - 1
    BY <1>1
  <2>2. QED BY <2>1 DEF BlankFrom
<1>3. QED BY <1>2 DEF Free

LEMMA KeepProgram ==
  ASSUME NEW hi \in Nat, KeepsBelow(hi), ConfigAddr(FALSE) <= hi, HasProgram
  PROVE  HasProgram'
<1>1. ASSUME NEW name \in {"program", "default"}, Holds(name, 0) PROVE Holds(name, 0)'
  <2> DEFINE lo == ConfigAddr(FALSE)
             n == Cells[name]
  <2>1. name \in Names /\ n \in Nat /\ lo \in Nat /\ FlashCells \in Nat /\ n <= lo
        /\ lo <= FlashCells /\ lo <= hi
    BY Places DEF Names
  <2> HIDE DEF lo, n
  <2>2. 0 + n <= hi /\ 0 + n <= FlashCells
    BY <2>1
  <2>3. QED BY <1>1, <2>1, <2>2, KeepHolds DEF n
<1>2. QED BY <1>1 DEF HasProgram

LEMMA AllBlankFrom == ASSUME flash = AllBlank, NEW lo \in Nat PROVE BlankFrom(lo)
<1>1. \A a \in 0 .. FlashCells - 1 : flash[a] = Blank
  BY DEF AllBlank
<1>2. \A a \in lo .. FlashCells - 1 : a \in 0 .. FlashCells - 1
  BY Places
<1>3. QED BY <1>1, <1>2 DEF BlankFrom

(* A step of Command for a command other than "options". *)
Step(c) ==
  /\ DoesAll(c) /\ Does(c) /\ ok' = Matches(c) /\ todo' = Tail(todo)
  /\ UNCHANGED <<button, fn, compress, had>>

LEMMA Parted ==
  /\ Parts(Size) \in Nat /\ Parts(Options) \in Nat /\ Parts(OptErase) \in Nat
  /\ Parts(OptProgram) \in Nat /\ Parts(OptVerify) \in Nat
  /\ \A at, name : Parts(Check(at, name)) \in Nat
  /\ \A at : \A name \in Names : Parts(Write(at, name)) \in Nat
  /\ \A at : \A k \in Nat : Parts(Erase(at, k)) \in Nat
<1>1. /\ Parts(Size) \in Nat /\ Parts(Options) \in Nat /\ Parts(OptErase) \in Nat
      /\ Parts(OptProgram) \in Nat /\ Parts(OptVerify) \in Nat
  BY DEF Parts, Size, Options, OptErase, OptProgram, OptVerify
<1>2. ASSUME NEW at, NEW name PROVE Parts(Check(at, name)) \in Nat
  <2> DEFINE c == Check(at, name)
  <2>1. c.do = "verify"
    BY DEF Check
  <2> HIDE DEF c
  <2>2. Parts(c) = 0
    BY <2>1 DEF Parts
  <2>3. QED BY <2>2 DEF c
<1>3. QED BY <1>1, <1>2, WriteParts, EraseParts, Places

LEMMA NotOptions ==
  /\ Size.do # "options" /\ OptErase.do # "options" /\ OptProgram.do # "options"
  /\ OptVerify.do # "options"
  /\ \A at, name : Check(at, name).do # "options" /\ Write(at, name).do # "options"
  /\ \A at, k : Erase(at, k).do # "options"
  BY DEF Size, OptErase, OptProgram, OptVerify, Check, Write, Erase

LEMMA IsStep ==
  ASSUME Command, NEW c, Head(todo) = c, c.do # "options", Parts(c) \in Nat
  PROVE  Step(c)
<1>1. DoesAll(c) /\ ok' = Matches(c) /\ todo' = Tail(todo) /\ UNCHANGED <<button, fn, compress, had>>
  BY DEF Command, DoesAll
<1>2. QED BY <1>1, Whole DEF Step

(* uart_init_flash *)
LEMMA WriteDefaultWhole ==
  ASSUME FlashType, flash = AllBlank, Step(Write(0, "default"))
  PROVE  /\ Holds("default", 0)' /\ opt' = opt /\ ok' = TRUE
         /\ KeepsFrom(Cells["default"])
<1> DEFINE n == Cells["default"]
<1>1. "default" \in Names /\ n \in Nat /\ n <= ConfigAddr(FALSE)
      /\ ConfigAddr(FALSE) <= FlashCells
  BY Places DEF Names
<1>2. 0 + n <= FlashCells
  <2> DEFINE lo == ConfigAddr(FALSE)
  <2>1. lo \in Nat /\ FlashCells \in Nat /\ n \in Nat /\ n <= lo /\ lo <= FlashCells
    BY <1>1, Places
  <2> HIDE DEF lo, n
  <2>2. QED BY <2>1
<1>3. BlankFrom(0)
  BY AllBlankFrom
<1>4. Free(0, "default")
  BY <1>1, <1>2, <1>3, BlankFree
<1>5. Holds("default", 0)'
  BY <1>1, <1>2, <1>4, WriteWhole DEF Step
<1>6. opt' = opt /\ KeepsFrom(0 + n)
  BY <1>1, WriteFrame DEF Step
<1>7. 0 + n = n
  BY <1>1
<1>8. ok' = TRUE
  BY WriteParts DEF Step
<1>9. QED BY <1>5, <1>6, <1>7, <1>8

LEMMA EraseOptionsWhole ==
  ASSUME Step(OptErase) PROVE opt' = ErasedOpt /\ ok' = TRUE
<1>1. Parts(OptErase) = 1
  BY DEF Parts, OptErase
<1>2. opt' = OptAfter(OptErase, 1) /\ ok' = Matches(OptErase)
  BY <1>1 DEF Step, DoesAll
<1>3. OptAfter(OptErase, 1) = ErasedOpt /\ Matches(OptErase) = TRUE
  BY DEF OptAfter, Matches, OptErase
<1>4. QED BY <1>2, <1>3

LEMMA ProgramOptionsWhole ==
  ASSUME opt = ErasedOpt, Step(OptProgram)
  PROVE  opt' = OptFor(compress)' /\ flash' = AllBlank /\ ok' = TRUE
<1>1. Parts(OptProgram) = 2
  BY DEF Parts, OptProgram
<1>2. flash' = FlashAfter(OptProgram, 2) /\ opt' = OptAfter(OptProgram, 2)
      /\ ok' = Matches(OptProgram)
  BY <1>1 DEF Step, DoesAll
<1>3. opt' = OptFor(compress) /\ flash' = AllBlank /\ ok' = TRUE
  BY <1>2, ProgrammingOptions
<1>4. compress' = compress
  BY DEF Step
<1>5. QED BY <1>3, <1>4 DEF OptFor

LEMMA InitCommand ==
  ASSUME Types, InitSteps, Command, fn = "init_flash"
  PROVE  InitSteps' /\ ok' = TRUE
<1>1. Calling /\ FlashType
  BY TypesFlash DEF Command
<1>2. WriteDefault' = WriteDefault /\ (WriteOptions \o WriteDefault)' = WriteOptions \o WriteDefault
  OBVIOUS
<1>3. CASE Head(todo) = Size /\ Tail(todo) = WriteOptions \o WriteDefault
  <2>1. Step(Size)
    BY <1>3, IsStep, Parted, NotOptions
  <2>2. ok' = TRUE
    BY <2>1, Reading DEF Step
  <2>3. QED BY <1>3, <2>1, <2>2 DEF InitSteps, Step
<1>4. CASE Head(todo) = OptErase /\ Tail(todo) = OptWrite \o WriteDefault
  <2>1. Step(OptErase)
    BY <1>4, IsStep, Parted, NotOptions
  <2>2. ok' = TRUE /\ opt' = ErasedOpt
    BY <2>1, EraseOptionsWhole
  <2>3. QED BY <1>4, <2>1, <2>2 DEF InitSteps, Step
<1>5. CASE opt = ErasedOpt /\ Head(todo) = OptProgram /\ Tail(todo) = <<OptVerify>> \o WriteDefault
  <2>1. Step(OptProgram)
    BY <1>5, IsStep, Parted, NotOptions
  <2>2. ok' = TRUE /\ opt' = OptFor(compress)' /\ flash' = AllBlank
    BY <1>5, <2>1, ProgramOptionsWhole
  <2>3. QED BY <1>5, <2>1, <2>2 DEF InitSteps, Step
<1>6. CASE /\ opt = OptFor(compress) /\ flash = AllBlank
           /\ Head(todo) = OptVerify /\ Tail(todo) = WriteDefault
  <2>1. Step(OptVerify)
    BY <1>6, IsStep, Parted, NotOptions
  <2>2. ok' = TRUE /\ opt' = opt /\ flash' = flash
    BY <1>6, <2>1, Reading DEF Step, DoesAll
  <2>3. OptFor(compress)' = OptFor(compress)
    BY <2>1 DEF Step, OptFor
  <2>4. QED BY <1>6, <2>1, <2>2, <2>3 DEF InitSteps, Step
<1>7. CASE /\ opt = OptFor(compress) /\ flash = AllBlank
           /\ Head(todo) = Write(0, "default") /\ Tail(todo) = <<Check(0, "default")>>
  <2>1. Step(Write(0, "default"))
    BY <1>7, IsStep, Parted, NotOptions DEF Names
  <2>2. ok' = TRUE /\ Holds("default", 0)'
    BY <1>1, <1>7, <2>1, WriteDefaultWhole
  <2>3. QED BY <1>7, <2>1, <2>2 DEF InitSteps, Step
<1>8. CASE /\ Holds("default", 0)
           /\ Head(todo) = Check(0, "default") /\ Tail(todo) = <<>>
  <2>1. Step(Check(0, "default"))
    BY <1>8, IsStep, Parted, NotOptions
  <2>2. ok' = TRUE
    BY <1>8, <2>1, Reading DEF Step
  <2>3. QED BY <1>8, <2>1, <2>2 DEF InitSteps, Step
<1>9. QED BY <1>1, <1>3, <1>4, <1>5, <1>6, <1>7, <1>8, InitHeads

(* uart_update_program: the sectors of the program hold no whole block but  *)
(* the first, which is erased.                                             *)
LEMMA ProgramErased ==
  ASSUME FlashType, Rewritable, DoesAll(Erase(0, ProgramSectors))
  PROVE  Free(0, "program")'
<1> DEFINE c == Erase(0 * SectorCells, ProgramSectors)
           k == ProgramSectors
<1>1. SectorCells \in Nat \ {0} /\ BlockSectors \in Nat \ {0} /\ k \in Nat
  BY ProgramPlace, LogicAssumption DEF LogicAssumption
<1>2. 0 * SectorCells = 0
  BY <1>1
<1>3. c.at = 0 /\ c.sectors = k /\ 0 \div SectorCells = 0
  BY <1>1, <1>2 DEF Erase
<1>4. k < 2 * BlockSectors
  BY DEF Rewritable
<1>5. ASSUME NEW x \in 0 .. 0 + k - 1 PROVE ~InBlock(x, c)
  <2> DEFINE m == x \div BlockSectors
             b == m * BlockSectors
  <2>1. m \in Nat
    BY <1>1
  <2> HIDE DEF c, m, k
  <2>2. SUFFICES ASSUME b > 0, b + BlockSectors <= 0 + k PROVE FALSE
    <3>1. InBlock(x, c) => b > 0 /\ b + BlockSectors <= 0 + k
      BY <1>3 DEF InBlock, m
    <3>2. QED BY <3>1
  <2>3. m # 0
    BY <2>2, <1>1
  <2>4. m >= 1
    BY <2>1, <2>3
  <2>5. b >= BlockSectors
    BY <2>1, <2>4, <1>1
  <2>6. b \in Nat
    BY <2>1, <1>1
  <2> HIDE DEF b
  <2>7. QED BY <2>2, <2>5, <2>6, <1>1, <1>4
<1>6. \A a \in 0 .. FlashCells - 1 :
        a >= 0 * SectorCells /\ a < (0 + k) * SectorCells => flash'[a] = Blank
  BY <1>1, <1>2, <1>5, EraseWhole
<1> DEFINE y == k * SectorCells
           x == Cells["program"]
<1>7. x \in Nat /\ y \in Nat /\ x <= y /\ y <= ConfigAddr(FALSE) /\ ConfigAddr(FALSE) <= FlashCells
      /\ ConfigAddr(FALSE) \in Nat /\ FlashCells \in Nat /\ (0 + k) * SectorCells = y
  <2>1. x \in Nat
    BY Places DEF Names
  <2>2. ConfigAddr(FALSE) <= FlashCells /\ ConfigAddr(FALSE) \in Nat /\ FlashCells \in Nat
    BY Places
  <2>3. y \in Nat /\ (0 + k) * SectorCells = y
    <3>1. 0 + k = k
      BY <1>1
    <3>2. QED BY <1>1, <3>1
  <2>4. x <= y /\ y <= ConfigAddr(FALSE)
    BY ProgramPlace
  <2>5. QED BY <2>1, <2>2, <2>3, <2>4
<1>8. \A i \in 0 .. x - 1 : flash'[0 + i] = Blank
  <2> DEFINE lo == ConfigAddr(FALSE)
  <2>1. x <= y /\ y <= lo /\ lo <= FlashCells /\ lo \in Nat
    BY <1>7
  <2> HIDE DEF x, y, lo, k
  <2>2. ASSUME NEW i \in 0 .. x - 1 PROVE flash'[0 + i] = Blank
    <3>1. 0 + i \in 0 .. FlashCells - 1 /\ 0 + i >= 0 /\ 0 + i < y
      BY <2>1, <1>7
    <3>2. QED BY <3>1, <1>2, <1>6, <1>7
  <2>3. QED BY <2>2
<1>9. QED BY <1>8 DEF Free

LEMMA ProgramCommand ==
  ASSUME Types, ProgramSteps, Command, fn = "update_program"
  PROVE  ProgramSteps' /\ (Rewritable => ok' = TRUE)
<1>1. Calling /\ FlashType
  BY TypesFlash DEF Command
<1>2. "program" \in Names
  BY DEF Names
<1>3. CASE /\ Head(todo) = Erase(0, ProgramSectors) /\ Tail(todo) = WriteMemory(0, "program")
  <2>1. Step(Erase(0, ProgramSectors))
    BY <1>3, IsStep, Parted, NotOptions, ProgramPlace
  <2>2. ok' = TRUE
    BY <2>1, EraseParts DEF Step
  <2>3. Rewritable => Free(0, "program")'
    BY <1>1, <2>1, ProgramErased DEF Step
  <2>4. QED BY <1>3, <2>1, <2>2, <2>3 DEF ProgramSteps, Step
<1>4. CASE /\ Rewritable => Free(0, "program")
           /\ Head(todo) = Write(0, "program") /\ Tail(todo) = <<Check(0, "program")>>
  <2>1. Step(Write(0, "program"))
    BY <1>2, <1>4, IsStep, Parted, NotOptions
  <2>2. ok' = TRUE
    BY <2>1, WriteParts DEF Step
  <2>3. 0 + Cells["program"] <= FlashCells
    <3> DEFINE lo == ConfigAddr(FALSE)
               n == Cells["program"]
    <3>1. lo \in Nat /\ FlashCells \in Nat /\ n \in Nat /\ n <= lo /\ lo <= FlashCells
      BY Places DEF Names
    <3> HIDE DEF lo, n
    <3>2. 0 + n <= FlashCells
      BY <3>1
    <3>3. QED BY <3>2 DEF n
  <2>4. Rewritable => Holds("program", 0)'
    BY <1>1, <1>2, <1>4, <2>1, <2>3, WriteWhole DEF Step
  <2>5. QED BY <1>4, <2>1, <2>2, <2>4 DEF ProgramSteps, Step
<1>5. CASE /\ Rewritable => Holds("program", 0)
           /\ Head(todo) = Check(0, "program") /\ Tail(todo) = <<>>
  <2>1. Step(Check(0, "program"))
    BY <1>5, IsStep, Parted, NotOptions
  <2>2. flash' = flash /\ ok' = Holds("program", 0)
    BY <2>1, Reading DEF Step, DoesAll
  <2>3. Holds("program", 0)' = Holds("program", 0)
    BY <2>2 DEF Holds
  <2>4. ok' => Holds("program", 0)'
    BY <2>2, <2>3
  <2>5. Rewritable => ok' = TRUE
    BY <1>5, <2>2 DEF Holds
  <2>6. QED BY <1>5, <2>1, <2>4, <2>5 DEF ProgramSteps, Step
<1>6. QED BY <1>1, <1>3, <1>4, <1>5, ProgramHeads

(* uart_update_logic *)
LEMMA LogicSame ==
  ASSUME compress' = compress, button' = button, had' = had
  PROVE  /\ Image' = Image /\ WriteLogic(Image)' = WriteLogic(Image)
         /\ opt' = opt => (Addressed' <=> Addressed) /\ (NoAddress' <=> NoAddress)
         /\ Survives /\ (HasProgram => HasProgram') => Survives'
         /\ SurvivesOrRewrite /\ (HasProgram => HasProgram') /\ opt' = opt => SurvivesOrRewrite'
         /\ OptFor(compress)' = OptFor(compress)
<1>1. Image' = Image
  BY DEF Image
<1>2. WriteLogic(Image)' = WriteLogic(Image)
  BY <1>1 DEF WriteLogic
<1>3. opt' = opt => (Addressed' <=> Addressed) /\ (NoAddress' <=> NoAddress)
  BY DEF Addressed, NoAddress
<1>4. Survives /\ (HasProgram => HasProgram') => Survives'
  BY DEF Survives
<1>5. SurvivesOrRewrite /\ (HasProgram => HasProgram') /\ opt' = opt => SurvivesOrRewrite'
  BY <1>3 DEF SurvivesOrRewrite
<1>6. OptFor(compress)' = OptFor(compress)
  BY DEF OptFor
<1>7. QED BY <1>1, <1>2, <1>3, <1>4, <1>5, <1>6

LEMMA FlashSame ==
  ASSUME flash' = flash
  PROVE  /\ HasProgram' <=> HasProgram
         /\ \A name, at : Holds(name, at)' <=> Holds(name, at)
         /\ \A name, at : Free(at, name)' <=> Free(at, name)
         /\ \A at : BlankFrom(at)' <=> BlankFrom(at)
<1>1. \A name, at : Holds(name, at)' <=> Holds(name, at)
  BY DEF Holds
<1>2. \A name, at : Free(at, name)' <=> Free(at, name)
  BY DEF Free
<1>3. \A at : BlankFrom(at)' <=> BlankFrom(at)
  BY DEF BlankFrom
<1>4. QED BY <1>1, <1>2, <1>3, Zenon DEF HasProgram

(* The address that OptFor writes is the right one. *)
LEMMA OptForAddressed == ASSUME opt = OptFor(compress) PROVE Addressed
  BY DEF OptFor, Addressed

LEMMA LogicQueries ==
  ASSUME Types, Command, fn = "update_logic", SurvivesOrRewrite,
         \/ todo = <<Size, Options>> /\ Head(todo) = Size /\ Tail(todo) = <<Options>>
         \/ todo = <<Options>> /\ Head(todo) = Options,
         compress = (Image \in Packed)
  PROVE  LogicSteps' /\ ok' = TRUE
<1>0. compress \in BOOLEAN /\ Image \in LogicImages
  BY ImageIsLogic DEF Types
<1>1. UNCHANGED <<button, fn, compress, had>>
  BY DEF Command
<1>2. CASE Head(todo) = Size /\ Tail(todo) = <<Options>>
  <2>1. Step(Size)
    BY <1>2, IsStep, Parted, NotOptions
  <2>2. ok' = TRUE /\ opt' = opt /\ flash' = flash
    BY <2>1, Reading DEF Step, DoesAll
  <2>3. SurvivesOrRewrite' /\ Image' = Image
    BY <1>1, <2>2, LogicSame, FlashSame
  <2>4. QED BY <1>1, <1>2, <2>1, <2>2, <2>3 DEF LogicSteps, Step
<1>3. CASE Head(todo) = Options
  <2>1. Options.do = "options"
    BY DEF Options
  <2>2. flash' = flash /\ opt' = opt /\ ok' = TRUE
    BY <1>3, Reading DEF Command
  <2>3. todo' = PlaceLogic \o WriteLogic(Image)
    BY <1>3, <2>1 DEF Command, Image
  <2>4. /\ Image' = Image /\ WriteLogic(Image)' = WriteLogic(Image)
        /\ SurvivesOrRewrite' /\ (Addressed' <=> Addressed)
    BY <1>1, <2>2, LogicSame, FlashSame
  <2>5. CASE Rewrite
    <3>1. todo' = WriteOptions \o (WriteDefault \o WriteLogic(Image))
      BY <1>0, <2>3, <2>5, PlaceList
    <3>2. todo' = (WriteOptions \o (WriteDefault \o WriteLogic(Image)))'
      BY <3>1, <2>4
    <3>3. RewriteSteps'
      BY <3>2 DEF RewriteSteps
    <3>4. QED BY <1>1, <2>2, <2>4, <3>3 DEF LogicSteps
  <2>6. CASE ~Rewrite
    <3>1. todo' = <<Erase(ConfigAddr(compress), ConfigSectors(compress))>> \o WriteLogic(Image)
      BY <1>0, <2>3, <2>6, PlaceList
    <3>2. todo' = (<<Erase(ConfigAddr(compress), ConfigSectors(compress))>> \o WriteLogic(Image))'
      BY <3>1, <2>4, <1>1
    <3>3. Addressed'
      <4>1. Addressed
        BY <2>6 DEF Rewrite, Addressed
      <4>2. QED BY <4>1, <2>4
    <3>4. Survives'
      <4>1. ~NoAddress
        BY <2>6 DEF Rewrite, NoAddress
      <4>2. Survives
        BY <4>1 DEF Survives, SurvivesOrRewrite
      <4>3. QED BY <4>2, <1>1, <2>2, LogicSame, FlashSame
    <3>5. PlaceSteps'
      BY <3>2, <3>3, <3>4 DEF PlaceSteps
    <3>6. QED BY <1>1, <2>2, <2>4, <3>5 DEF LogicSteps
  <2>7. QED BY <2>5, <2>6
<1>4. QED BY <1>2, <1>3

LEMMA BlankAfterDefault ==
  ASSUME flash = AllBlank, KeepsFrom(Cells["default"]), NEW p \in BOOLEAN
  PROVE  BlankFrom(ConfigAddr(p))'
<1> DEFINE lo == ConfigAddr(p)
           n == Cells["default"]
<1>1. lo \in Nat /\ n \in Nat /\ n <= lo /\ FlashCells \in Nat
  <2> DEFINE f == ConfigAddr(FALSE)
  <2>1. lo \in Nat /\ n \in Nat /\ n <= f /\ f <= lo /\ FlashCells \in Nat /\ f \in Nat
    BY Places DEF Names
  <2> HIDE DEF lo, f, n
  <2>2. QED BY <2>1
<1> HIDE DEF lo, n
<1>2. ASSUME NEW a \in lo .. FlashCells - 1 PROVE flash'[a] = Blank
  <2>1. a \in 0 .. FlashCells - 1 /\ a >= n
    BY <1>1
  <2>2. flash'[a] = flash[a] /\ flash[a] = Blank
    BY <2>1 DEF KeepsFrom, AllBlank, n
  <2>3. QED BY <2>2
<1>3. QED BY <1>2 DEF BlankFrom, lo

LEMMA RewriteCommand ==
  ASSUME Types, Command, fn = "update_logic", compress = (Image \in Packed),
         NEW Logics, Logics = WriteLogic(Image), NEW Rest, Rest = WriteDefault \o Logics,
         \/ Head(todo) = OptErase /\ Tail(todo) = OptWrite \o Rest
         \/ /\ opt = ErasedOpt
            /\ Head(todo) = OptProgram /\ Tail(todo) = <<OptVerify>> \o Rest
         \/ /\ opt = OptFor(compress) /\ flash = AllBlank
            /\ Head(todo) = OptVerify /\ Tail(todo) = Rest
         \/ /\ opt = OptFor(compress) /\ flash = AllBlank
            /\ Head(todo) = Write(0, "default") /\ Tail(todo) = <<Check(0, "default")>> \o Logics
  PROVE  LogicSteps' /\ ok' = TRUE
<1>1. UNCHANGED <<button, fn, compress, had>> /\ compress \in BOOLEAN
  BY DEF Command, Types
<1>2. /\ Image' = Image /\ WriteLogic(Image)' = Logics
      /\ (WriteDefault \o WriteLogic(Image))' = Rest /\ OptFor(compress)' = OptFor(compress)
  BY <1>1, LogicSame
<1>3. SUFFICES RewriteSteps' /\ ok' = TRUE
  BY <1>1, <1>2 DEF LogicSteps
<1>4. CASE Head(todo) = OptErase /\ Tail(todo) = OptWrite \o Rest
  <2>1. Step(OptErase)
    BY <1>4, IsStep, Parted, NotOptions
  <2>2. ok' = TRUE /\ opt' = ErasedOpt
    BY <2>1, EraseOptionsWhole
  <2>3. todo' = OptWrite \o Rest
    BY <1>4, <2>1 DEF Step
  <2>4. QED BY <1>2, <2>2, <2>3 DEF RewriteSteps
<1>5. CASE /\ opt = ErasedOpt
           /\ Head(todo) = OptProgram /\ Tail(todo) = <<OptVerify>> \o Rest
  <2>1. Step(OptProgram)
    BY <1>5, IsStep, Parted, NotOptions
  <2>2. ok' = TRUE /\ opt' = OptFor(compress)' /\ flash' = AllBlank
    BY <1>5, <2>1, ProgramOptionsWhole
  <2>3. todo' = <<OptVerify>> \o Rest
    BY <1>5, <2>1 DEF Step
  <2>4. QED BY <1>2, <2>2, <2>3 DEF RewriteSteps
<1>6. CASE /\ opt = OptFor(compress) /\ flash = AllBlank
           /\ Head(todo) = OptVerify /\ Tail(todo) = Rest
  <2>1. Step(OptVerify)
    BY <1>6, IsStep, Parted, NotOptions
  <2>2. ok' = TRUE /\ opt' = opt /\ flash' = flash
    BY <1>6, <2>1, Reading DEF Step, DoesAll
  <2>3. todo' = Rest
    BY <1>6, <2>1 DEF Step
  <2>4. QED BY <1>2, <1>6, <2>2, <2>3 DEF RewriteSteps
<1>7. CASE /\ opt = OptFor(compress) /\ flash = AllBlank
           /\ Head(todo) = Write(0, "default") /\ Tail(todo) = <<Check(0, "default")>> \o Logics
  <2>1. Step(Write(0, "default"))
    BY <1>7, IsStep, Parted, NotOptions DEF Names
  <2>2. ok' = TRUE /\ Holds("default", 0)' /\ opt' = opt /\ KeepsFrom(Cells["default"])
    BY <1>7, <2>1, TypesFlash, WriteDefaultWhole
  <2>3. BlankFrom(ConfigAddr(compress))'
    <3>1. BlankFrom(ConfigAddr(TRUE))' /\ BlankFrom(ConfigAddr(FALSE))'
      BY <1>7, <2>2, BlankAfterDefault, Zenon
    <3>2. compress' = TRUE \/ compress' = FALSE
      BY <1>1
    <3>3. QED BY <3>1, <3>2, Zenon
  <2>4. todo' = <<Check(0, "default")>> \o Logics
    BY <1>7, <2>1 DEF Step
  <2>5. QED BY <1>2, <1>7, <2>2, <2>3, <2>4 DEF RewriteSteps
<1>8. QED BY <1>4, <1>5, <1>6, <1>7

LEMMA CheckStep ==
  ASSUME NEW at, NEW name, Step(Check(at, name))
  PROVE  flash' = flash /\ opt' = opt /\ ok' = Holds(name, at)
<1> DEFINE c == Check(at, name)
<1>1. flash' = FlashAfter(c, Parts(c)) /\ opt' = OptAfter(c, Parts(c)) /\ ok' = Matches(c)
  BY DEF Step, DoesAll
<1>2. \A n : FlashAfter(c, n) = flash /\ OptAfter(c, n) = opt /\ Matches(c) = Holds(name, at)
  BY Reading
<1> HIDE DEF c
<1>3. QED BY <1>1, <1>2

(* The place of the logic, once it is blank. *)
LEMMA BlankPlace ==
  ASSUME Types, compress = (Image \in Packed), BlankFrom(ConfigAddr(compress))
  PROVE  IF compress THEN BlankFrom(ConfigAddr(TRUE)) ELSE Free(LogicAt(FALSE), Image)
<1>1. CASE compress
  <2>1. compress = TRUE
    BY <1>1 DEF Types
  <2>2. BlankFrom(ConfigAddr(TRUE))
    BY <2>1, Zenon
  <2>3. QED BY <1>1, <2>2
<1>2. CASE ~compress
  <2>1. compress = FALSE
    BY <1>2 DEF Types
  <2>2. Image \in LogicImages /\ Image \in Names
    BY ImageIsLogic DEF LogicImages, Names
  <2>3. LogicAt(FALSE) + Cells[Image] <= FlashCells
    <3>1. (Image \in Packed) = FALSE
      BY <2>1
    <3>2. LogicAt(Image \in Packed) + Cells[Image] <= FlashCells
      BY <2>2, LogicPlaces
    <3>3. QED BY <3>1, <3>2, Zenon
  <2> DEFINE lo == ConfigAddr(FALSE)
             at == LogicAt(FALSE)
  <2>4. BlankFrom(lo)
    BY <2>1, Zenon
  <2>5. lo \in Nat /\ at = lo
    BY Places, LogicPlaces
  <2> HIDE DEF lo, at
  <2>6. at + Cells[Image] <= FlashCells
    BY <2>3 DEF at
  <2>7. lo <= at
    BY <2>5
  <2>8. Free(at, Image)
    BY <2>2, <2>4, <2>5, <2>6, <2>7, BlankFree
  <2>9. QED BY <1>2, <2>8 DEF at
<1>3. QED BY <1>1, <1>2

LEMMA DefaultChecked ==
  ASSUME Types, Command, fn = "update_logic", compress = (Image \in Packed),
         opt = OptFor(compress), Holds("default", 0), BlankFrom(ConfigAddr(compress)),
         Head(todo) = Check(0, "default"), Tail(todo) = WriteLogic(Image)
  PROVE  LogicSteps' /\ ok' = TRUE
<1>1. UNCHANGED <<button, fn, compress, had>>
  BY DEF Command
<1>2. Step(Check(0, "default"))
  BY IsStep, Parted, NotOptions
<1>3. ok' = TRUE /\ opt' = opt /\ flash' = flash /\ todo' = WriteLogic(Image)
  BY <1>2, CheckStep DEF Step
<1>4. Image' = Image /\ WriteLogic(Image)' = WriteLogic(Image) /\ Addressed'
  BY <1>1, <1>3, LogicSame, OptForAddressed
<1>5. Survives'
  <2>1. HasProgram'
    BY <1>3, FlashSame DEF HasProgram
  <2>2. QED BY <2>1 DEF Survives
<1>6. (IF compress THEN BlankFrom(ConfigAddr(TRUE)) ELSE Free(LogicAt(FALSE), Image))'
  BY <1>1, <1>3, <1>4, BlankPlace DEF BlankFrom, Free
<1>7. PlaceSteps'
  BY <1>3, <1>4, <1>5, <1>6 DEF PlaceSteps
<1>8. QED BY <1>1, <1>3, <1>4, <1>7 DEF LogicSteps

(* The compressed place holds no whole block, and all of it is erased. *)
LEMMA PackedErased ==
  ASSUME FlashType, Rewritable, DoesAll(Erase(ConfigAddr(TRUE), ConfigSectors(TRUE)))
  PROVE  BlankFrom(ConfigAddr(TRUE))'
<1> DEFINE k == ConfigSectors(TRUE)
           q == FlashSectors - k
           at == ConfigAddr(TRUE)
<1>1. /\ SectorCells \in Nat \ {0} /\ BlockSectors \in Nat \ {0} /\ k \in Nat /\ q \in Nat
      /\ at = q * SectorCells /\ at \in Nat
  <2>1. k \in Nat /\ k <= FlashSectors /\ at = q * SectorCells /\ at \in Nat
    BY Places, Zenon
  <2>2. SectorCells \in Nat \ {0} /\ BlockSectors \in Nat \ {0} /\ FlashSectors \in Nat
    BY LogicAssumption DEF LogicAssumption
  <2> HIDE DEF k, at
  <2>3. q \in Nat
    BY <2>1, <2>2
  <2>4. QED BY <2>1, <2>2, <2>3
<1>2. k < BlockSectors
  BY DEF Rewritable, ConfigSectors
<1>3. DoesAll(Erase(q * SectorCells, k))
  BY <1>1, Zenon
<1>4. (q + k) * SectorCells = FlashCells
  <2>1. q + k = FlashSectors
    <3> HIDE DEF k
    <3>1. QED BY <1>1, LogicAssumption DEF LogicAssumption
  <2>2. QED BY <2>1, Zenon DEF FlashCells
<1> HIDE DEF k, q, at
<1> DEFINE c == Erase(q * SectorCells, k)
<1>5. c.at \div SectorCells = q /\ c.at = q * SectorCells /\ c.sectors = k
  BY <1>1, CellSector DEF Erase
<1>6. ASSUME NEW x \in q .. q + k - 1 PROVE ~InBlock(x, c)
  <2> DEFINE b == (x \div BlockSectors) * BlockSectors
  <2>1. x \div BlockSectors \in Nat
    BY <1>1
  <2>2. b \in Nat
    BY <1>1, <2>1
  <2>3. InBlock(x, c) => b * SectorCells >= q * SectorCells /\ b + BlockSectors <= q + k
    <3> HIDE DEF c
    <3>1. QED BY <1>5 DEF InBlock
  <2> HIDE DEF b, c
  <2>4. b * SectorCells >= q * SectorCells => b >= q
    <3>1. SUFFICES ASSUME b + 1 <= q PROVE ~(b * SectorCells >= q * SectorCells)
      BY <1>1, <2>2
    <3>2. (b + 1) * SectorCells <= q * SectorCells
      BY <3>1, <1>1, <2>2, Product
    <3>3. (b + 1) * SectorCells = b * SectorCells + SectorCells
      BY <1>1, <2>2
    <3>4. b * SectorCells \in Nat /\ q * SectorCells \in Nat
      BY <1>1, <2>2
    <3>5. QED BY <3>2, <3>3, <3>4, <1>1
  <2>5. QED BY <1>1, <1>2, <2>2, <2>3, <2>4
<1>7. \A a \in 0 .. FlashCells - 1 :
        a >= q * SectorCells /\ a < (q + k) * SectorCells => flash'[a] = Blank
  BY <1>1, <1>3, <1>6, EraseWhole
<1>8. ASSUME NEW a \in at .. FlashCells - 1 PROVE flash'[a] = Blank
  <2>1. a \in 0 .. FlashCells - 1 /\ a >= at /\ a < FlashCells
    BY <1>1, Places
  <2>2. QED BY <2>1, <1>1, <1>4, <1>7
<1>9. QED BY <1>8 DEF BlankFrom, at

(* The place that is not compressed: what is left of it is the one logic.  *)
LEMMA PlainErased ==
  ASSUME Types, Device, Rewritable, opt.plain = "ok", opt.rdp = "key", Image \notin Packed,
         \A a \in 0 .. FlashCells - 1 : flash'[a] \in {flash[a], Blank}, Image' = Image
  PROVE  Free(LogicAt(FALSE), Image)'
<1> DEFINE lo == ConfigAddr(FALSE)
           n == Cells[Image]
<1>1. Image \in LogicImages \ Packed /\ Image \in Names
  BY ImageIsLogic DEF LogicImages, Names
<1>2. lo \in Nat /\ n \in Nat /\ FlashCells \in Nat /\ LogicAt(FALSE) = lo
  BY <1>1, Places, LogicPlaces
<1>3. lo + n <= FlashCells
  <2>1. LogicAt(Image \in Packed) + Cells[Image] <= FlashCells
    BY <1>1, LogicPlaces
  <2>2. (Image \in Packed) = FALSE
    OBVIOUS
  <2>3. LogicAt(FALSE) + Cells[Image] <= FlashCells
    BY <2>1, <2>2, Zenon
  <2>4. QED BY <2>3, <1>2, Zenon
<1>4. ASSUME NEW a \in lo .. FlashCells - 1
      PROVE  flash[a] = Blank \/ flash[a] = <<Image, a - lo>>
  <2>1. OneLogicAt(a)
    BY DEF Device
  <2>2. \A i \in LogicImages \ Packed : i = Image
    BY <1>1 DEF Rewritable
  <2>3. QED BY <2>1, <2>2 DEF OneLogicAt
<1> HIDE DEF lo, n
<1>5. ASSUME NEW i \in 0 .. n - 1 PROVE flash'[lo + i] \in {Blank, <<Image, i>>}
  <2> DEFINE a == lo + i
  <2>1. a \in lo .. FlashCells - 1 /\ a \in 0 .. FlashCells - 1 /\ a - lo = i
    BY <1>2, <1>3
  <2> HIDE DEF a
  <2>2. flash[a] = Blank \/ flash[a] = <<Image, a - lo>>
    BY <1>4, <2>1
  <2>3. flash[a] = Blank \/ flash[a] = <<Image, i>>
    BY <2>1, <2>2
  <2>4. flash'[a] \in {flash[a], Blank}
    BY <2>1
  <2>5. QED BY <2>3, <2>4 DEF a
<1>6. Cells[Image'] = n
  BY DEF n
<1>7. QED BY <1>2, <1>5, <1>6 DEF Free

LEMMA PlaceErased ==
  ASSUME Types, Device, Open, Command, fn = "update_logic", compress = (Image \in Packed),
         Addressed, Survives,
         Head(todo) = Erase(ConfigAddr(compress), ConfigSectors(compress)),
         Tail(todo) = WriteLogic(Image)
  PROVE  LogicSteps' /\ ok' = TRUE
<1> DEFINE k == ConfigSectors(compress)
           q == FlashSectors - k
<1>1. UNCHANGED <<button, fn, compress, had>> /\ compress \in BOOLEAN
  BY DEF Command, Types
<1>2. k \in Nat /\ q \in Nat /\ ConfigAddr(compress) = q * SectorCells
      /\ ConfigAddr(FALSE) <= ConfigAddr(compress) /\ ConfigAddr(compress) \in Nat
  <2>1. k \in Nat /\ k <= FlashSectors /\ ConfigAddr(compress) = q * SectorCells
        /\ ConfigAddr(FALSE) <= ConfigAddr(compress) /\ ConfigAddr(compress) \in Nat
    BY <1>1, Places, Zenon
  <2>2. FlashSectors \in Nat
    BY LogicAssumption DEF LogicAssumption
  <2> HIDE DEF k
  <2>3. q \in Nat
    BY <2>1, <2>2
  <2>4. QED BY <2>1, <2>3
<1>3. Step(Erase(ConfigAddr(compress), k))
  BY <1>2, IsStep, Parted, NotOptions
<1> DEFINE c == Erase(ConfigAddr(compress), k)
<1>4. /\ opt' = opt /\ KeepsBelow(ConfigAddr(compress))
      /\ \A a \in 0 .. FlashCells - 1 : flash'[a] \in {flash[a], Blank}
  <2>1. Does(Erase(q * SectorCells, k)) /\ FlashType
    BY <1>2, <1>3, TypesFlash DEF Step
  <2> HIDE DEF k, q
  <2>2. /\ opt' = opt /\ KeepsBelow(q * SectorCells)
        /\ \A a \in 0 .. FlashCells - 1 : flash'[a] \in {flash[a], Blank}
    BY <1>2, <2>1, EraseFrame
  <2>3. QED BY <2>2, <1>2
<1>5. ok' = TRUE /\ todo' = WriteLogic(Image)
  BY <1>3, EraseParts DEF Step
<1>6. /\ Image' = Image /\ WriteLogic(Image)' = WriteLogic(Image) /\ Addressed'
  BY <1>1, <1>4, LogicSame
<1>7. Survives'
  BY <1>1, <1>2, <1>4, KeepProgram, LogicSame
<1>8. ASSUME Rewritable
      PROVE  (IF compress THEN BlankFrom(ConfigAddr(TRUE)) ELSE Free(LogicAt(FALSE), Image))'
  <2>1. CASE compress
    <3>1. compress = TRUE
      BY <1>1, <2>1
    <3>2. DoesAll(Erase(ConfigAddr(TRUE), ConfigSectors(TRUE)))
      BY <1>3, <3>1, Zenon DEF Step
    <3>3. QED BY <1>1, <1>8, <2>1, <3>2, TypesFlash, PackedErased
  <2>2. CASE ~compress
    <3>1. opt.rdp = "key" /\ opt.plain = "ok"
      <4>1. opt.plain = "ok"
        BY <2>2 DEF Addressed
      <4>2. ~prot
        BY DEF Command, Answers, Erase
      <4>3. HasKey
        BY <4>2 DEF Open, Functions
      <4>4. QED BY <4>1, <4>3 DEF HasKey, ErasedOpt
    <3>2. Image \notin Packed
      BY <2>2
    <3>3. QED BY <1>1, <1>4, <1>6, <1>8, <2>2, <3>1, <3>2, PlainErased
  <2>3. QED BY <2>1, <2>2
<1>9. PlaceSteps'
  BY <1>5, <1>6, <1>7, <1>8 DEF PlaceSteps
<1>10. QED BY <1>1, <1>5, <1>6, <1>9 DEF LogicSteps

LEMMA ImagePlace ==
  ASSUME Types, compress = (Image \in Packed)
  PROVE  /\ Image \in Names /\ Cells[Image] \in Nat
         /\ LogicAt(compress) \in Nat /\ LogicAt(compress) + Cells[Image] <= FlashCells
         /\ ConfigAddr(FALSE) \in Nat /\ ConfigAddr(FALSE) <= LogicAt(compress)
         /\ compress => LogicAt(compress) = LogicAt(TRUE)
         /\ ~compress => LogicAt(compress) = LogicAt(FALSE)
<1>1. Image \in LogicImages /\ Image \in Names /\ compress \in BOOLEAN
  BY ImageIsLogic DEF LogicImages, Names, Types
<1>2. Cells[Image] \in Nat
  BY <1>1, Places
<1>3. LogicAt(Image \in Packed) + Cells[Image] <= FlashCells
  BY <1>1, LogicPlaces
<1>4. compress = TRUE \/ compress = FALSE
  BY <1>1
<1>5. (compress => LogicAt(compress) = LogicAt(TRUE))
      /\ (~compress => LogicAt(compress) = LogicAt(FALSE))
  BY <1>4, Zenon
<1> DEFINE lo == ConfigAddr(FALSE)
           hi == ConfigAddr(TRUE)
           at == LogicAt(TRUE)
           n == Cells["decomp"]
<1>6. lo \in Nat /\ hi \in Nat /\ lo <= hi /\ at \in Nat /\ LogicAt(FALSE) = lo
  BY Places, LogicPlaces, Zenon
<1>7. n \in Nat /\ hi + n <= at
  BY Places, LogicPlaces DEF Names
<1>8. lo <= at /\ lo <= lo
  <2> HIDE DEF lo, hi, at, n
  <2>1. QED BY <1>6, <1>7
<1>9. LogicAt(compress) \in Nat /\ lo <= LogicAt(compress)
  BY <1>4, <1>6, <1>8, Zenon
<1>10. LogicAt(compress) + Cells[Image] <= FlashCells
  BY <1>3, Zenon
<1>11. QED BY <1>1, <1>2, <1>5, <1>6, <1>9, <1>10, Zenon

(* The decompressor ends before the logic. *)
LEMMA DecompPlace ==
  ASSUME Types, compress = (Image \in Packed), compress
  PROVE  /\ ConfigAddr(TRUE) \in Nat /\ LogicAt(TRUE) \in Nat /\ Cells["decomp"] \in Nat
         /\ "decomp" \in Names /\ ConfigAddr(TRUE) <= LogicAt(TRUE)
         /\ ConfigAddr(TRUE) + Cells["decomp"] <= LogicAt(TRUE)
         /\ ConfigAddr(TRUE) + Cells["decomp"] <= FlashCells
         /\ ConfigAddr(FALSE) <= ConfigAddr(TRUE)
         /\ LogicAt(TRUE) + Cells[Image] <= FlashCells
<1> DEFINE hi == ConfigAddr(TRUE)
           at == LogicAt(TRUE)
           n == Cells["decomp"]
           m == Cells[Image]
<1>1. hi \in Nat /\ at \in Nat /\ ConfigAddr(FALSE) <= hi /\ FlashCells \in Nat
  BY Places, LogicPlaces, Zenon
<1>2. n \in Nat /\ hi + n <= at /\ "decomp" \in Names
  BY Places, LogicPlaces DEF Names
<1>3. m \in Nat /\ at + m <= FlashCells
  BY ImagePlace, Zenon
<1> HIDE DEF hi, at, n, m
<1>4. hi <= at /\ hi + n <= FlashCells
  BY <1>1, <1>2, <1>3
<1>5. QED BY <1>1, <1>2, <1>3, <1>4 DEF hi, at, n, m

LEMMA WriteStep ==
  ASSUME FlashType, NEW at \in Nat, NEW name \in Names, Step(Write(at, name))
  PROVE  /\ opt' = opt /\ ok' = TRUE /\ KeepsBelow(at) /\ KeepsFrom(at + Cells[name])
         /\ at + Cells[name] <= FlashCells /\ Free(at, name) => Holds(name, at)'
<1>1. Does(Write(at, name)) /\ DoesAll(Write(at, name)) /\ ok' = Matches(Write(at, name))
  BY DEF Step
<1>2. opt' = opt /\ KeepsBelow(at) /\ KeepsFrom(at + Cells[name])
  BY <1>1, WriteFrame
<1>3. ok' = TRUE
  BY <1>1, WriteParts
<1>4. at + Cells[name] <= FlashCells /\ Free(at, name) => Holds(name, at)'
  BY <1>1, WriteWhole
<1>5. QED BY <1>2, <1>3, <1>4

LEMMA DecompWritten ==
  ASSUME Types, Command, fn = "update_logic", compress = (Image \in Packed), compress,
         Addressed, Survives, Rewritable => BlankFrom(ConfigAddr(TRUE)),
         Head(todo) = Write(ConfigAddr(TRUE), "decomp"),
         Tail(todo) = <<Check(ConfigAddr(TRUE), "decomp")>> \o WriteMemory(LogicAt(TRUE), Image)
  PROVE  LogicSteps' /\ ok' = TRUE
<1> DEFINE hi == ConfigAddr(TRUE)
           at == LogicAt(TRUE)
           n == Cells["decomp"]
<1>1. UNCHANGED <<button, fn, compress, had>> /\ FlashType /\ FlashCells \in Nat
  BY TypesFlash, Places DEF Command
<1>2. /\ hi \in Nat /\ at \in Nat /\ n \in Nat /\ "decomp" \in Names
      /\ hi <= at /\ hi + n <= at /\ hi + n <= FlashCells
  BY DecompPlace, Zenon
<1>3. Step(Write(hi, "decomp"))
  BY <1>2, IsStep, Parted, NotOptions
<1>4. /\ opt' = opt /\ ok' = TRUE /\ KeepsBelow(hi) /\ KeepsFrom(hi + n)
      /\ hi + n <= FlashCells /\ Free(hi, "decomp") => Holds("decomp", hi)'
  <2> HIDE DEF hi
  <2>1. QED BY <1>1, <1>2, <1>3, WriteStep
<1>5. todo' = <<Check(hi, "decomp")>> \o WriteMemory(at, Image)
  BY <1>3 DEF Step
<1>6. Image' = Image /\ Addressed'
  BY <1>1, <1>4, LogicSame
<1>7. Survives'
  BY <1>1, <1>2, <1>4, DecompPlace, KeepProgram, LogicSame
<1>8. ASSUME Rewritable PROVE Holds("decomp", hi)' /\ BlankFrom(at)'
  <2>1. BlankFrom(hi)
    BY <1>8
  <2> HIDE DEF hi, at, n
  <2>2. hi <= hi
    BY <1>2
  <2>3. Free(hi, "decomp")
    BY <1>2, <2>1, <2>2, BlankFree DEF n
  <2>4. ASSUME NEW a \in at .. FlashCells - 1 PROVE flash'[a] = Blank
    <3>1. a \in hi .. FlashCells - 1 /\ a \in 0 .. FlashCells - 1 /\ a >= hi + n
      BY <1>1, <1>2
    <3>2. flash'[a] = flash[a] /\ flash[a] = Blank
      BY <1>4, <2>1, <3>1 DEF KeepsFrom, BlankFrom
    <3>3. QED BY <3>2
  <2>5. BlankFrom(at)'
    BY <2>4 DEF BlankFrom, at
  <2>6. QED BY <1>2, <1>4, <2>3, <2>5
<1>9. todo' = (<<Check(ConfigAddr(TRUE), "decomp")>> \o WriteMemory(LogicAt(TRUE), Image))'
  BY <1>5, <1>6
<1>10. compress'
  BY <1>1
<1>11. (Rewritable => Holds("decomp", ConfigAddr(TRUE)) /\ BlankFrom(LogicAt(TRUE)))'
  BY <1>8
<1>12. PlaceSteps'
  BY <1>6, <1>7, <1>9, <1>10, <1>11 DEF PlaceSteps
<1>13. QED BY <1>1, <1>4, <1>6, <1>12 DEF LogicSteps

LEMMA DecompChecked ==
  ASSUME Types, Command, fn = "update_logic", compress = (Image \in Packed), compress,
         Addressed, Survives,
         Rewritable => Holds("decomp", ConfigAddr(TRUE)) /\ BlankFrom(LogicAt(TRUE)),
         Head(todo) = Check(ConfigAddr(TRUE), "decomp"),
         Tail(todo) = WriteMemory(LogicAt(TRUE), Image)
  PROVE  LogicSteps' /\ (Rewritable => ok' = TRUE)
<1> DEFINE hi == ConfigAddr(TRUE)
           at == LogicAt(TRUE)
<1>1. UNCHANGED <<button, fn, compress, had>> /\ compress = TRUE
  BY DEF Command, Types
<1>2. Step(Check(hi, "decomp"))
  BY IsStep, Parted, NotOptions
<1>3. flash' = flash /\ opt' = opt /\ ok' = Holds("decomp", hi)
  BY <1>2, CheckStep
<1>4. /\ Image' = Image /\ Addressed' /\ Survives'
      /\ todo' = WriteMemory(at, Image)
  BY <1>1, <1>2, <1>3, LogicSame, FlashSame DEF Step
<1>5. Holds("decomp", hi)' <=> Holds("decomp", hi)
  BY <1>3 DEF Holds
<1>6. ASSUME Rewritable PROVE Free(at, Image)'
  <2>1. Free(at, Image)
    <3>1. at \in Nat /\ BlankFrom(at) /\ at + Cells[Image] <= FlashCells /\ Image \in Names
      BY <1>6, DecompPlace, ImagePlace
    <3> HIDE DEF at
    <3>2. at <= at
      BY <3>1
    <3>3. QED BY <3>1, <3>2, BlankFree
  <2>2. QED BY <2>1, <1>3, <1>4, FlashSame
<1>7. todo' = WriteMemory(LogicAt(compress), Image)'
  <2>1. todo' = WriteMemory(LogicAt(compress'), Image')
    BY <1>1, <1>4, Zenon
  <2>2. QED BY <2>1
<1>8. (Rewritable => Free(LogicAt(compress), Image))'
  <2>1. LogicAt(compress)' = at
    BY <1>1, Zenon
  <2> HIDE DEF at
  <2>2. QED BY <2>1, <1>6 DEF Free
<1>9. ok' => PlaceSteps'
  BY <1>3, <1>4, <1>5, <1>7, <1>8 DEF PlaceSteps
<1>10. Rewritable => ok' = TRUE
  BY <1>3 DEF Holds
<1>11. QED BY <1>1, <1>4, <1>9, <1>10 DEF LogicSteps

LEMMA LogicWritten ==
  ASSUME Types, Command, fn = "update_logic", compress = (Image \in Packed),
         Addressed, Survives, compress => Holds("decomp", ConfigAddr(TRUE)),
         Rewritable => Free(LogicAt(compress), Image),
         Head(todo) = Write(LogicAt(compress), Image),
         Tail(todo) = <<Check(LogicAt(compress), Image)>>
  PROVE  LogicSteps' /\ ok' = TRUE
<1> DEFINE at == LogicAt(compress)
<1>1. UNCHANGED <<button, fn, compress, had>> /\ FlashType
  BY TypesFlash DEF Command
<1>2. /\ Image \in Names /\ at \in Nat /\ at + Cells[Image] <= FlashCells
      /\ ConfigAddr(FALSE) <= at
  BY ImagePlace
<1>3. Step(Write(at, Image))
  BY <1>2, IsStep, Parted, NotOptions
<1>4. /\ opt' = opt /\ ok' = TRUE /\ KeepsBelow(at)
      /\ Free(at, Image) => Holds(Image, at)'
  <2>1. PICK a \in Nat, name \in Names : a = at /\ name = Image
    BY <1>2
  <2>2. at' = a /\ Image' = name
    BY <1>1, <2>1 DEF Image
  <2>3. Step(Write(a, name)) /\ a + Cells[name] <= FlashCells /\ (Free(at, Image) <=> Free(a, name))
    BY <1>2, <1>3, <2>1
  <2>4. Holds(Image, at)' <=> Holds(name, a)'
    BY <2>2 DEF Holds
  <2> HIDE DEF at
  <2>5. /\ opt' = opt /\ ok' = TRUE /\ KeepsBelow(a)
        /\ Free(a, name) => Holds(name, a)'
    BY <1>1, <2>3, WriteStep
  <2>6. KeepsBelow(at)
    BY <2>1, <2>5
  <2>7. QED BY <2>3, <2>4, <2>5, <2>6
<1>5. todo' = <<Check(at, Image)>>
  BY <1>3 DEF Step
<1>6. Image' = Image /\ Addressed'
  BY <1>1, <1>4, LogicSame
<1>7. Survives'
  BY <1>1, <1>2, <1>4, KeepProgram, LogicSame
<1>8. ASSUME compress PROVE Holds("decomp", ConfigAddr(TRUE))'
  <2> DEFINE hi == ConfigAddr(TRUE)
             to == LogicAt(TRUE)
  <2>1. /\ hi \in Nat /\ to \in Nat /\ "decomp" \in Names /\ hi + Cells["decomp"] <= to
        /\ hi + Cells["decomp"] <= FlashCells
    BY <1>8, DecompPlace
  <2>2. KeepsBelow(to)
    BY <1>4, <1>8, ImagePlace
  <2>3. Holds("decomp", hi)
    BY <1>8
  <2> HIDE DEF hi, to
  <2>4. Holds("decomp", hi)'
    BY <2>1, <2>2, <2>3, KeepHolds
  <2>5. QED BY <2>4 DEF hi
<1>9. (Rewritable => Holds(Image, LogicAt(compress)))'
  <2>1. Holds(Image, at)' <=> Holds(Image, LogicAt(compress))'
    OBVIOUS
  <2>2. QED BY <2>1, <1>4
<1>10. todo' = <<Check(LogicAt(compress), Image)>>'
  BY <1>1, <1>5, <1>6
<1>11. PlaceSteps'
  BY <1>1, <1>6, <1>7, <1>8, <1>9, <1>10 DEF PlaceSteps
<1>12. QED BY <1>1, <1>4, <1>6, <1>11 DEF LogicSteps

LEMMA LogicChecked ==
  ASSUME Types, Command, fn = "update_logic", compress = (Image \in Packed),
         Addressed, Survives, compress => Holds("decomp", ConfigAddr(TRUE)),
         Rewritable => Holds(Image, LogicAt(compress)),
         Head(todo) = Check(LogicAt(compress), Image), Tail(todo) = <<>>
  PROVE  LogicSteps' /\ (Rewritable => ok' = TRUE)
<1> DEFINE at == LogicAt(compress)
<1>1. UNCHANGED <<button, fn, compress, had>>
  BY DEF Command
<1>2. Step(Check(at, Image))
  BY IsStep, Parted, NotOptions
<1>3. flash' = flash /\ opt' = opt /\ ok' = Holds(Image, at)
  BY <1>2, CheckStep
<1>4. Image' = Image /\ Addressed' /\ Survives' /\ todo' = <<>>
  BY <1>1, <1>2, <1>3, LogicSame, FlashSame DEF Step
<1>5. Holds(Image, LogicAt(compress))' <=> Holds(Image, at)
  <2>1. LogicAt(compress)' = at
    BY <1>1
  <2>2. QED BY <2>1, <1>3, <1>4 DEF Holds
<1>6. (compress => Holds("decomp", ConfigAddr(TRUE)))'
  BY <1>1, <1>3, FlashSame
<1>7. ok' => PlaceSteps'
  BY <1>3, <1>4, <1>5, <1>6 DEF PlaceSteps
<1>8. Rewritable => ok' = TRUE
  BY <1>3 DEF Holds
<1>9. QED BY <1>1, <1>4, <1>7, <1>8 DEF LogicSteps

LEMMA LogicCommand ==
  ASSUME Types, Device, Open, LogicSteps, Command, fn = "update_logic"
  PROVE  LogicSteps' /\ (Rewritable => ok' = TRUE)
<1>1. LogicHeads /\ compress = (Image \in Packed)
  BY LogicHead DEF Command, LogicSteps
<1> DEFINE Logics == WriteLogic(Image)
           Rest == WriteDefault \o Logics
<1>2. CASE SurvivesOrRewrite
           /\ \/ todo = <<Size, Options>> /\ Head(todo) = Size /\ Tail(todo) = <<Options>>
              \/ todo = <<Options>> /\ Head(todo) = Options
  BY <1>1, <1>2, LogicQueries
<1>3. CASE \/ Head(todo) = OptErase /\ Tail(todo) = OptWrite \o Rest
           \/ /\ opt = ErasedOpt
              /\ Head(todo) = OptProgram /\ Tail(todo) = <<OptVerify>> \o Rest
           \/ /\ opt = OptFor(compress) /\ flash = AllBlank
              /\ Head(todo) = OptVerify /\ Tail(todo) = Rest
           \/ /\ opt = OptFor(compress) /\ flash = AllBlank
              /\ Head(todo) = Write(0, "default") /\ Tail(todo) = <<Check(0, "default")>> \o Logics
  BY <1>1, <1>3, RewriteCommand
<1>4. CASE /\ opt = OptFor(compress) /\ Holds("default", 0) /\ BlankFrom(ConfigAddr(compress))
           /\ Head(todo) = Check(0, "default") /\ Tail(todo) = Logics
  BY <1>1, <1>4, DefaultChecked
<1>5. CASE /\ Addressed /\ Survives
           /\ Head(todo) = Erase(ConfigAddr(compress), ConfigSectors(compress))
           /\ Tail(todo) = Logics
  BY <1>1, <1>5, PlaceErased
<1>6. CASE /\ Addressed /\ Survives /\ compress
           /\ Rewritable => BlankFrom(ConfigAddr(TRUE))
           /\ Head(todo) = Write(ConfigAddr(TRUE), "decomp")
           /\ Tail(todo) = <<Check(ConfigAddr(TRUE), "decomp")>> \o WriteMemory(LogicAt(TRUE), Image)
  BY <1>1, <1>6, DecompWritten
<1>7. CASE /\ Addressed /\ Survives /\ compress
           /\ Rewritable => Holds("decomp", ConfigAddr(TRUE)) /\ BlankFrom(LogicAt(TRUE))
           /\ Head(todo) = Check(ConfigAddr(TRUE), "decomp")
           /\ Tail(todo) = WriteMemory(LogicAt(TRUE), Image)
  BY <1>1, <1>7, DecompChecked
<1>8. CASE /\ Addressed /\ Survives
           /\ compress => Holds("decomp", ConfigAddr(TRUE))
           /\ Rewritable => Free(LogicAt(compress), Image)
           /\ Head(todo) = Write(LogicAt(compress), Image)
           /\ Tail(todo) = <<Check(LogicAt(compress), Image)>>
  BY <1>1, <1>8, LogicWritten
<1>9. CASE /\ Addressed /\ Survives
           /\ compress => Holds("decomp", ConfigAddr(TRUE))
           /\ Rewritable => Holds(Image, LogicAt(compress))
           /\ Head(todo) = Check(LogicAt(compress), Image) /\ Tail(todo) = <<>>
  BY <1>1, <1>9, LogicChecked
<1>10. QED BY <1>1, <1>2, <1>3, <1>4, <1>5, <1>6, <1>7, <1>8, <1>9, Zenon DEF LogicHeads

-----------------------------------------------------------------------------
(* The steps.                                                              *)

(* What a function in progress does to the flash costs the ones before it  *)
(* nothing.                                                                *)
LEMMA StoredSame ==
  ASSUME Types, LogicStored, button' = button, opt' = opt,
         KeepsFrom(ConfigAddr(FALSE)) \/ flash' = flash
  PROVE  LogicStored'
<1>1. ASSUME NEW name \in Names, NEW at \in Nat, ConfigAddr(FALSE) <= at,
             at + Cells[name] <= FlashCells, Holds(name, at)
      PROVE  Holds(name, at)'
  <2>1. ConfigAddr(FALSE) \in Nat
    BY Places, Zenon
  <2>2. CASE KeepsFrom(ConfigAddr(FALSE))
    BY <1>1, <2>1, <2>2, KeepHoldsHigh
  <2>3. CASE flash' = flash
    BY <1>1, <2>3, FlashSame
  <2>4. QED BY <2>2, <2>3
<1> DEFINE packed == Image \in Packed
           at == LogicAt(packed)
           name == Image
<1>2. name \in Names /\ name \in LogicImages /\ packed \in BOOLEAN
  BY ImageIsLogic DEF LogicImages, Names
<1>3. at + Cells[name] <= FlashCells
  BY <1>2, LogicPlaces
<1> DEFINE lo == ConfigAddr(FALSE)
           hi == ConfigAddr(TRUE)
           to == LogicAt(TRUE)
           n == Cells["decomp"]
<1>4. lo \in Nat /\ hi \in Nat /\ lo <= hi /\ LogicAt(FALSE) = lo /\ to \in Nat
  BY Places, LogicPlaces, Zenon
<1>5. n \in Nat /\ hi + n <= to /\ "decomp" \in Names
  BY Places, LogicPlaces DEF Names
<1>6. lo <= to /\ lo <= lo
  <2> HIDE DEF lo, hi, to, n
  <2>1. QED BY <1>4, <1>5
<1>7. at \in Nat /\ lo <= at
  <2>1. packed = TRUE \/ packed = FALSE
    BY <1>2
  <2>2. (packed = TRUE => at = to) /\ (packed = FALSE => at = lo)
    BY <1>4, Zenon
  <2> HIDE DEF at, lo, to, packed
  <2>3. QED BY <2>1, <2>2, <1>4, <1>6
<1>8. Image' = Image
  BY DEF Image
<1>9. Holds(Image, LogicAt(packed))'
  <2>1. PICK a \in Nat, i \in Names : a = at /\ i = Image
    BY <1>2, <1>7
  <2>2. Holds(i, a)
    BY <2>1 DEF LogicStored
  <2>3. Holds(i, a)'
    <3>1. ConfigAddr(FALSE) <= a /\ a + Cells[i] <= FlashCells
      BY <1>3, <1>7, <2>1
    <3>2. QED BY <1>1, <2>2, <3>1
  <2>4. at' = a /\ Image' = i
    BY <1>8, <2>1
  <2>5. QED BY <2>3, <2>4 DEF Holds
<1>10. ASSUME packed PROVE Holds("decomp", hi)'
  <2>1. Holds("decomp", hi)
    BY <1>10 DEF LogicStored
  <2>2. hi + n <= FlashCells
    <3> DEFINE m == Cells[Image]
    <3>1. to + m <= FlashCells
      <4>1. packed = TRUE
        BY <1>10, <1>2
      <4>2. QED BY <4>1, <1>3, Zenon
    <3>2. m \in Nat /\ FlashCells \in Nat
      BY <1>2, Places
    <3> HIDE DEF hi, to, n, m
    <3>3. QED BY <1>4, <1>5, <3>1, <3>2
  <2>3. QED BY <1>1, <1>4, <1>5, <2>1, <2>2
<1>11. QED BY <1>8, <1>9, <1>10 DEF LogicStored

LEMMA KindParts ==
  ASSUME Types, Kinds
  PROVE  Parts(Head(todo)) \in Nat
<1>1. CASE Reads
  BY <1>1, Parted DEF Reads
<1>2. CASE Low
  BY <1>2, Parted, ProgramPlace DEF Low, Names
<1>3. CASE Head(todo) = OptErase \/ Head(todo) = OptProgram
  BY <1>3, Parted
<1>4. CASE Head(todo) = Erase(ConfigAddr(compress), ConfigSectors(compress))
  <2>1. ConfigSectors(compress) \in Nat
    BY Places DEF Types
  <2>2. QED BY <1>4, <2>1, Parted
<1>5. CASE Head(todo) \in {Write(ConfigAddr(TRUE), "decomp"), Write(LogicAt(TRUE), Image),
                           Write(LogicAt(FALSE), Image)}
  <2>1. "decomp" \in Names /\ Image \in Names
    BY ImageIsLogic DEF Names, LogicImages
  <2>2. QED BY <1>5, <2>1, Parted
<1>6. QED BY <1>1, <1>2, <1>3, <1>4, <1>5 DEF Kinds

LEMMA MatchesBoolean == ASSUME NEW c PROVE Matches(c) \in BOOLEAN
  BY DEF Matches, Holds

LEMMA CommandReturned ==
  ASSUME Types, Returned, fn \in Functions, Effect,
         UNCHANGED <<button, fn, results, had>>
  PROVE  Returned'
<1>1. ASSUME fn = "update_program", results["update_logic"] = "true"
      PROVE  LogicStored' /\ Survives'
  <2>1. LogicStored
    BY <1>1 DEF Returned
  <2>2. LogicStored'
    BY <1>1, <2>1, StoredSame DEF Effect
  <2>3. button' = 1
    BY <1>1 DEF Returned
  <2>4. QED BY <2>2, <2>3 DEF Survives
<1>2. fn # "final" /\ fn # "init" /\ fn # "idle"
  BY DEF Functions
<1>3. QED BY <1>1, <1>2 DEF Returned

LEMMA CommandInv ==
  ASSUME Inv, Command
  PROVE  Inv'
<1>1. Calling /\ UNCHANGED <<button, fn, compress, results, session, prot, presses, faults, had, clean>>
  BY DEF Command
<1>2. fn \in Functions /\ Kinds
  BY <1>1, Kind DEF Inv, Calling
<1>3. Parts(Head(todo)) \in Nat
  BY <1>2, KindParts DEF Inv
<1>4. Does(Head(todo))
  BY <1>3, Whole DEF Command, DoesAll
<1>5. Effect
  BY <1>2, <1>4, AnyEffect DEF Inv
<1>6. InitSteps' /\ (fn = "init_flash" => ok' = TRUE)
  <2>1. CASE fn = "init_flash"
    BY <2>1, InitCommand DEF Inv
  <2>2. CASE fn # "init_flash"
    BY <1>1, <2>2 DEF InitSteps
  <2>3. QED BY <2>1, <2>2
<1>7. ProgramSteps' /\ (fn = "update_program" => (Rewritable => ok' = TRUE))
  <2>1. CASE fn = "update_program"
    BY <2>1, ProgramCommand DEF Inv
  <2>2. CASE fn # "update_program"
    BY <1>1, <2>2 DEF ProgramSteps
  <2>3. QED BY <2>1, <2>2
<1>8. LogicSteps' /\ (fn = "update_logic" => (Rewritable => ok' = TRUE))
  <2>1. CASE fn = "update_logic"
    BY <2>1, LogicCommand DEF Inv
  <2>2. CASE fn # "update_logic"
    BY <1>1, <2>2 DEF LogicSteps
  <2>3. QED BY <2>1, <2>2
<1>9. Rewritable => ok' = TRUE
  BY <1>2, <1>6, <1>7, <1>8 DEF Functions
<1>10. ok' \in BOOLEAN
  BY MatchesBoolean DEF Command
<1>11. Types'
  BY <1>1, <1>5, <1>10 DEF Inv, Types, Effect, FlashType
<1>12. Returned'
  BY <1>1, <1>2, <1>5, CommandReturned DEF Inv
<1>13. Undisturbed'
  BY <1>1, <1>2, <1>9 DEF Inv, Undisturbed
<1>14. Device' /\ Open'
  BY <1>1, <1>5 DEF Inv, Effect, Open
<1>15. QED BY <1>6, <1>7, <1>8, <1>11, <1>12, <1>13, <1>14 DEF Inv

LEMMA CutShortInv ==
  ASSUME Inv, CutShort
  PROVE  Inv'
<1>1. Calling /\ UNCHANGED <<button, fn, todo, compress, results, prot, presses, had>>
      /\ ok' = FALSE /\ clean' = FALSE /\ session' \in BOOLEAN
  BY DEF CutShort, Fault
<1>2. fn \in Functions /\ Kinds
  BY <1>1, Kind DEF Inv, Calling
<1>3. Does(Head(todo))
  BY DEF CutShort, Does
<1>4. Effect
  BY <1>2, <1>3, AnyEffect DEF Inv
<1>5. InitSteps' /\ ProgramSteps' /\ Undisturbed'
  BY <1>1 DEF InitSteps, ProgramSteps, Undisturbed
<1>6. LogicSteps'
  BY <1>1 DEF Inv, LogicSteps, Image
<1>7. Types'
  BY <1>1, <1>4 DEF Inv, Types, Effect, FlashType
<1>8. Returned'
  BY <1>1, <1>2, <1>4, CommandReturned DEF Inv
<1>9. Device' /\ Open'
  BY <1>1, <1>4 DEF Inv, Effect, Open
<1>10. QED BY <1>5, <1>6, <1>7, <1>8, <1>9 DEF Inv

LEMMA RefusedInv ==
  ASSUME Inv, Refused
  PROVE  Inv'
<1>1. /\ Calling /\ ~Answers(Head(todo)) /\ ok' = FALSE
      /\ UNCHANGED <<button, fn, todo, compress, results, session, prot, opt, flash,
                     presses, faults, had, clean>>
  BY DEF Refused
<1>2. fn \in Functions
  BY <1>1 DEF Calling
<1>3. InitSteps' /\ ProgramSteps'
  BY <1>1 DEF InitSteps, ProgramSteps
<1>4. LogicSteps'
  BY <1>1 DEF Inv, LogicSteps, Image
<1>5. Effect
  BY <1>1, KeptFlash DEF Inv
<1>6. Types'
  BY <1>1, <1>5 DEF Inv, Types, Effect, FlashType
<1>7. Returned'
  BY <1>1, <1>2, <1>5, CommandReturned DEF Inv
<1>8. Undisturbed'
  <2>1. Rewritable /\ clean => session /\ ~prot
    BY <1>2 DEF Inv, Undisturbed
  <2>2. ~(Rewritable /\ clean)
    BY <1>1, <2>1 DEF Answers
  <2>3. QED BY <1>1, <2>2 DEF Undisturbed
<1>9. Device' /\ Open'
  BY <1>1, <1>5 DEF Inv, Effect, Open
<1>10. QED BY <1>3, <1>4, <1>6, <1>7, <1>8, <1>9 DEF Inv

LEMMA InitFlashList == InitFlash = <<Size>> \o (WriteOptions \o WriteDefault)
<1>1. <<Size>> \in Seq(Commands)
  BY AreCommands, OneIsList
<1>2. (<<Size>> \o WriteOptions) \o WriteDefault = <<Size>> \o (WriteOptions \o WriteDefault)
  BY <1>1, Lists, ConcatAssociative
<1>3. QED BY <1>2 DEF InitFlash, WriteDefault

(* The start of the first function of a press. *)
LEMMA BeginSteps ==
  ASSUME Types, UNCHANGED <<button, results, had>>, session' \in BOOLEAN, clean' \in BOOLEAN,
         prot' \in BOOLEAN, opt' \in OptionBytes, FlashType', SurvivesOrRewrite',
         results["update_program"] = "none",
         fn' \in {"init_flash", "update_logic"}, fn' = "init_flash" <=> button = 1, ok' = TRUE,
         compress' = (IF fn' = "update_logic" THEN Image \in Packed ELSE compress),
         fn' = "init_flash" => todo' = InitFlash,
         fn' = "update_logic" => todo' = <<Size, Options>>
  PROVE  Types' /\ InitSteps' /\ LogicSteps' /\ ProgramSteps' /\ Returned'
<1>1. Types'
  <2>1. compress' \in BOOLEAN
    <3>1. compress \in BOOLEAN /\ (Image \in Packed) \in BOOLEAN
      BY DEF Types
    <3>2. CASE fn' = "update_logic"
      BY <3>1, <3>2, Zenon
    <3>3. CASE fn' # "update_logic"
      BY <3>1, <3>3, Zenon
    <3>4. QED BY <3>2, <3>3
  <2>2. flash' = [a \in 0 .. FlashCells - 1 |-> flash'[a]]
    BY DEF FlashType
  <2>3. fn' \in {"idle", "init", "final"} \cup Functions /\ ok' \in BOOLEAN
    BY DEF Functions
  <2>4. button' \in {1, 2} /\ results' \in [Functions -> {"none", "true", "false"}]
    BY DEF Types
  <2>5. QED BY <2>1, <2>2, <2>3, <2>4 DEF Types
<1>2. InitSteps'
  BY InitFlashList DEF InitSteps
<1>3. Image' = Image
  BY DEF Image
<1>4. LogicSteps'
  BY <1>3 DEF LogicSteps
<1>5. ProgramSteps'
  BY DEF ProgramSteps
<1>6. Returned'
  BY DEF Returned
<1>7. QED BY <1>1, <1>2, <1>4, <1>5, <1>6

(* uart_init: a protected device is opened and is blank after it; one that *)
(* is not has the key and the program it had when the button was pressed.  *)
Opened ==
  \/ prot /\ Unlocked
  \/ UNCHANGED <<opt, flash, prot>>

LEMMA BeginInit ==
  ASSUME Types, Returned, Device, fn = "init", Opened, session' \in BOOLEAN, clean' \in BOOLEAN,
         Begin(IF button = 1 THEN "init_flash" ELSE "update_logic"),
         UNCHANGED <<button, results, had>>
  PROVE  /\ Types' /\ InitSteps' /\ LogicSteps' /\ ProgramSteps' /\ Returned' /\ Device' /\ Open'
         /\ fn' \in Functions /\ ok' = TRUE
<1>1. /\ fn' = IF button = 1 THEN "init_flash" ELSE "update_logic"
      /\ ok' = TRUE /\ button \in {1, 2} /\ button' = button
      /\ compress' = IF fn' = "update_logic" THEN Image \in Packed ELSE compress
      /\ fn' = "init_flash" => todo' = InitFlash
      /\ fn' = "update_logic" => todo' = <<Size, Options>>
  BY DEF Begin, Types, Image
<1>2. prot = (opt.rdp # "key") /\ (had # "none" => HasProgram)
      /\ results["update_program"] = "none"
  BY DEF Returned
<1>3. fn' \in Functions /\ (fn' = "init_flash" <=> button = 1)
      /\ (fn' = "update_logic" <=> button = 2) /\ fn' # "update_program"
  BY <1>1 DEF Functions
<1>4. CASE prot /\ Unlocked
  <2>1. /\ flash' = AllBlank /\ prot' = FALSE /\ opt \in OptionBytes
        /\ opt' = IF opt.rdp = "zero" THEN [ErasedOpt EXCEPT !.rdp = "key"]
                                      ELSE [opt EXCEPT !.rdp = "key"]
    BY <1>4 DEF Unlocked, Types
  <2>2. opt' \in OptionBytes /\ opt'.rdp = "key"
    BY <2>1 DEF OptionBytes, ErasedOpt, Addresses
  <2>3. ErasedWhole => NoAddress'
    <3>1. CASE opt.rdp = "zero"
      BY <2>1, <3>1 DEF NoAddress, ErasedOpt
    <3>2. CASE opt.rdp = "erased"
      BY <2>1, <3>2 DEF NoAddress, ErasedOpt, Device
    <3>3. QED BY <1>2, <1>4, <2>1, <3>1, <3>2 DEF OptionBytes
  <2>4. Effect
    BY <2>1, <2>2, BlankDevice
  <2>5. FlashType' /\ Device' /\ Open' /\ SurvivesOrRewrite'
    BY <2>2, <2>3, <2>4 DEF Effect, Open, HasKey, SurvivesOrRewrite
  <2>6. prot' \in BOOLEAN /\ opt' \in OptionBytes
    BY <2>1, <2>2
  <2>7. QED BY <1>1, <1>2, <1>3, <2>5, <2>6, BeginSteps
<1>5. CASE UNCHANGED <<opt, flash, prot>>
  <2>1. Effect
    BY <1>5, KeptFlash
  <2>2. Open'
    BY <1>2, <1>5 DEF Open, HasKey, Types, OptionBytes
  <2>3. HasProgram' <=> HasProgram
    BY <1>5, FlashSame
  <2>4. SurvivesOrRewrite'
    BY <1>2, <2>3 DEF SurvivesOrRewrite
  <2>5. prot' \in BOOLEAN /\ opt' \in OptionBytes /\ FlashType' /\ Device'
    BY <1>5, <2>1 DEF Effect, Types
  <2>6. QED BY <1>1, <1>2, <1>3, <2>2, <2>4, <2>5, BeginSteps
<1>6. QED BY <1>4, <1>5 DEF Opened

LEMMA UartInitInv ==
  ASSUME Inv, UartInit
  PROVE  Inv'
<1>1. /\ fn = "init" /\ Begin(IF button = 1 THEN "init_flash" ELSE "update_logic")
      /\ UNCHANGED <<button, results, session, presses, faults, had, clean>>
  BY DEF UartInit
<1>2. Opened /\ prot' = FALSE
  <2>1. prot \in BOOLEAN
    BY DEF Inv, Types
  <2>2. QED BY <2>1 DEF UartInit, Opened, Unlocked
<1>3. /\ Types' /\ InitSteps' /\ LogicSteps' /\ ProgramSteps' /\ Returned' /\ Device' /\ Open'
      /\ fn' \in Functions /\ ok' = TRUE
  BY <1>1, <1>2, BeginInit DEF Inv, Types
<1>4. Undisturbed'
  BY <1>1, <1>2, <1>3 DEF Inv, Undisturbed, Functions
<1>5. QED BY <1>3, <1>4 DEF Inv

LEMMA InitFailsInv ==
  ASSUME Inv, InitFails
  PROVE  Inv'
<1>1. /\ fn = "init" /\ Begin(IF button = 1 THEN "init_flash" ELSE "update_logic")
      /\ UNCHANGED <<button, results, presses, had>>
      /\ clean' = FALSE /\ session' \in BOOLEAN /\ Opened
  BY DEF InitFails, Fault, Opened
<1>2. /\ Types' /\ InitSteps' /\ LogicSteps' /\ ProgramSteps' /\ Returned' /\ Device' /\ Open'
  BY <1>1, BeginInit DEF Inv
<1>3. Undisturbed'
  BY <1>1 DEF Undisturbed
<1>4. QED BY <1>2, <1>3 DEF Inv

LEMMA PressInv ==
  ASSUME Inv, NEW b \in {1, 2}, Press(b)
  PROVE  Inv'
<1>1. /\ fn' = "init" /\ button' = b /\ ok' = TRUE /\ session' = TRUE /\ clean' = TRUE
      /\ results' = [f \in Functions |-> "none"] /\ prot' = (opt.rdp # "key")
      /\ UNCHANGED <<compress, opt, flash, faults>>
  BY DEF Press
<1>2. had' # "none" => HasProgram
  BY DEF Press, HasProgram
<1>3. HasProgram' <=> HasProgram
  BY <1>1, FlashSame
<1>4. FlashType' /\ Device'
  BY <1>1, KeptFlash DEF Effect, Inv
<1>5. Types'
  <2>1. prot' \in BOOLEAN
    BY <1>1
  <2>2. flash' = [a \in 0 .. FlashCells - 1 |-> flash'[a]]
    BY <1>4 DEF FlashType
  <2>3. results' \in [Functions -> {"none", "true", "false"}]
    BY <1>1
  <2>4. QED BY <1>1, <2>1, <2>2, <2>3 DEF Inv, Types
<1>6. InitSteps' /\ LogicSteps' /\ ProgramSteps' /\ Open'
  BY <1>1 DEF InitSteps, LogicSteps, ProgramSteps, Open, Functions
<1>7. Returned'
  <2>1. results'["update_program"] = "none"
    BY <1>1 DEF Functions
  <2>2. prot' = (opt'.rdp # "key")
    BY <1>1
  <2>3. had' # "none" => HasProgram'
    BY <1>2, <1>3
  <2>4. QED BY <1>1, <2>1, <2>2, <2>3 DEF Returned
<1>8. Undisturbed'
  BY <1>1 DEF Undisturbed, Functions
<1>9. QED BY <1>4, <1>5, <1>6, <1>7, <1>8 DEF Inv

(* uart_update_logic and uart_update_program that have succeeded. *)
LEMMA LogicDone ==
  ASSUME Types, LogicSteps, fn = "update_logic", ok, todo = <<>>
  PROVE  LogicStored /\ Survives
<1> DEFINE Logics == WriteLogic(Image)
           Rest == WriteDefault \o Logics
           e == Erase(ConfigAddr(compress), ConfigSectors(compress))
           d == Check(ConfigAddr(TRUE), "decomp")
           w == WriteMemory(LogicAt(TRUE), Image)
<1>1. Image \in LogicImages /\ compress \in BOOLEAN /\ compress = (Image \in Packed)
  BY ImageIsLogic DEF Types, LogicSteps
<1>2. Logics \in Seq(Commands) /\ Rest \in Seq(Commands)
  BY LogicLists
<1>3. e \in Commands /\ d \in Commands /\ Check(0, "default") \in Commands
  BY <1>1, AreCommands, Zenon
<1>4. w \in Seq(Commands)
  BY <1>1, Lists, Zenon
<1>5. WriteOptions \o Rest # <<>> /\ OptWrite \o Rest # <<>> /\ <<OptVerify>> \o Rest # <<>>
  <2> HIDE DEF Rest
  <2>1. QED BY <1>2, OptionList
<1>6. <<e>> \o Logics # <<>> /\ <<Check(0, "default")>> \o Logics # <<>>
  <2> HIDE DEF e, Logics
  <2>1. QED BY <1>2, <1>3, HeadOneJoined, Zenon
<1>7. <<d>> \o w # <<>>
  <2> HIDE DEF d, w
  <2>1. QED BY <1>3, <1>4, HeadOneJoined, Zenon
<1>8. \A at, name : WriteMemory(at, name) # <<>>
  BY DEF WriteMemory
<1>9. Logics # <<>>
  <2>1. CASE compress
    <3>1. Logics = WriteMemory(ConfigAddr(TRUE), "decomp") \o w
      BY <1>1, <2>1, RestList
    <3>2. WriteMemory(ConfigAddr(TRUE), "decomp") = <<Write(ConfigAddr(TRUE), "decomp"), d>>
      BY WriteList
    <3>3. Write(ConfigAddr(TRUE), "decomp") \in Commands
      BY AreCommands
    <3> DEFINE c == Write(ConfigAddr(TRUE), "decomp")
    <3> HIDE DEF c, d, w, Logics
    <3>4. <<c, d>> \o w # <<>>
      BY <1>3, <1>4, <3>3, HeadTwoJoined DEF c
    <3>5. QED BY <3>1, <3>2, <3>4 DEF c
  <2>2. CASE ~compress
    BY <1>1, <1>8, <2>2, RestList
  <2>3. QED BY <2>1, <2>2
<1>10. Rest # <<>>
  <2> HIDE DEF Logics
  <2>1. /\ WriteDefault = <<Write(0, "default"), Check(0, "default")>>
        /\ Write(0, "default") \in Commands
    BY WriteList, AreCommands DEF WriteDefault
  <2>2. QED BY <1>2, <1>3, <2>1, HeadTwoJoined
<1>11. ~RewriteSteps
  BY <1>5, <1>6, <1>10 DEF RewriteSteps
<1>12. todo # <<Size, Options>> /\ todo # <<Options>>
  BY HeadOfOne, HeadOfTwo
<1>13. PlaceSteps
  BY <1>11, <1>12 DEF LogicSteps
<1>14. /\ Addressed /\ Survives
       /\ compress => Holds("decomp", ConfigAddr(TRUE))
       /\ Holds(Image, LogicAt(compress))
  BY <1>6, <1>7, <1>8, <1>9, <1>13, HeadOfOne DEF PlaceSteps
<1>15. LogicStored
  <2>1. Holds(Image, LogicAt(Image \in Packed))
    BY <1>1, <1>14, Zenon
  <2>2. QED BY <1>1, <1>14, <2>1 DEF LogicStored, Addressed
<1>16. QED BY <1>14, <1>15

LEMMA ProgramDone ==
  ASSUME ProgramSteps, fn = "update_program", ok, todo = <<>>
  PROVE  Holds("program", 0)
<1>1. \A at, name : WriteMemory(at, name) # <<>>
  BY DEF WriteMemory
<1>2. UpdateProgram # <<>>
  <2>1. /\ Erase(0, ProgramSectors) \in Commands
        /\ WriteMemory(0, "program") \in Seq(Commands)
    BY Lists, AreCommands
  <2>2. QED BY <2>1, HeadOneJoined DEF UpdateProgram
<1>3. QED BY <1>1, <1>2, HeadOfOne DEF ProgramSteps

LEMMA ReturnInv ==
  ASSUME Inv, Return
  PROVE  Inv'
<1> DEFINE next == CASE fn = "init_flash" -> "update_logic"
                     [] fn = "update_logic" -> IF button = 1 THEN "update_program" ELSE "final"
                     [] fn = "update_program" -> "final"
<1>1. /\ fn \in Functions /\ (~ok \/ todo = <<>>) /\ Begin(next)
      /\ results' = [results EXCEPT ![fn] = IF ok THEN "true" ELSE "false"]
      /\ UNCHANGED <<button, session, prot, opt, flash, presses, faults, had, clean>>
  BY DEF Return
<1>2. /\ fn = "init_flash" => next = "update_logic"
      /\ fn = "update_logic" => next = IF button = 1 THEN "update_program" ELSE "final"
      /\ fn = "update_program" => next = "final"
  OBVIOUS
<1>3. next \in {"update_logic", "update_program", "final"}
  BY <1>1, <1>2 DEF Functions
<1> HIDE DEF next
<1>4. /\ fn' = next /\ ok' = TRUE
      /\ next = "update_logic" => todo' = <<Size, Options>>
      /\ next = "update_program" => todo' = UpdateProgram
  BY <1>1 DEF Begin
<1>5. compress' = (IF next = "update_logic" THEN Image \in Packed ELSE compress) /\ Image' = Image
  BY <1>1 DEF Begin, Image
<1>6. FlashType' /\ Device'
  BY <1>1, KeptFlash DEF Effect, Inv
<1>7. \A f \in Functions : results'[f] = IF f = fn THEN IF ok THEN "true" ELSE "false"
                                         ELSE results[f]
  BY <1>1 DEF Inv, Types
<1>8. Types'
  <2>1. compress' \in BOOLEAN
    <3>1. compress \in BOOLEAN /\ (Image \in Packed) \in BOOLEAN
      BY DEF Inv, Types
    <3>2. CASE next = "update_logic"
      BY <1>5, <3>1, <3>2, Zenon
    <3>3. CASE next # "update_logic"
      BY <1>5, <3>1, <3>3, Zenon
    <3>4. QED BY <3>2, <3>3
  <2>2. flash' = [a \in 0 .. FlashCells - 1 |-> flash'[a]]
    BY <1>6 DEF FlashType
  <2>3. fn' \in {"idle", "init", "final"} \cup Functions /\ ok' \in BOOLEAN
    BY <1>3, <1>4 DEF Functions
  <2>4. results' \in [Functions -> {"none", "true", "false"}]
    BY <1>1 DEF Inv, Types
  <2>5. QED BY <1>1, <2>1, <2>2, <2>3, <2>4 DEF Inv, Types
<1>9. InitSteps'
  BY <1>3, <1>4 DEF InitSteps
<1>10. ProgramSteps'
  BY <1>4 DEF ProgramSteps
<1>11. button = 1 \/ button = 2
  BY DEF Inv, Types
<1>12. next = "update_logic" => fn = "init_flash" /\ button = 1
  BY <1>1, <1>2 DEF Inv, Returned, Functions
<1>13. next = "update_program" => fn = "update_logic" /\ button = 1
  BY <1>1, <1>2 DEF Functions
<1>14. LogicSteps'
  BY <1>1, <1>3, <1>4, <1>5, <1>12 DEF LogicSteps, SurvivesOrRewrite
<1>15. LogicStored' <=> LogicStored
  BY <1>1, <1>5, FlashSame DEF LogicStored
<1>16. Survives' <=> Survives
  BY <1>1, FlashSame DEF Survives
<1>17. ASSUME next # "update_logic", results'["update_logic"] = "true"
       PROVE  LogicStored /\ Survives
  <2>1. CASE fn = "update_logic"
    <3>1. ok /\ todo = <<>>
      BY <1>1, <1>7, <1>17, <2>1 DEF Functions
    <3>2. QED BY <2>1, <3>1, LogicDone DEF Inv
  <2>2. CASE fn = "update_program"
    BY <1>7, <1>17, <2>2 DEF Inv, Returned, Functions
  <2>3. QED BY <1>1, <1>2, <1>17, <2>1, <2>2 DEF Functions
<1>18. ASSUME next = "final", results'["update_program"] = "true"
       PROVE  Holds("program", 0)'
  <2>1. CASE fn = "update_logic"
    BY <1>7, <1>18, <2>1 DEF Inv, Returned, Functions
  <2>2. CASE fn = "update_program"
    <3>1. ok /\ todo = <<>>
      BY <1>1, <1>7, <1>18, <2>2 DEF Functions
    <3>2. Holds("program", 0)
      BY <2>2, <3>1, ProgramDone DEF Inv
    <3>3. QED BY <1>1, <3>2, FlashSame
  <2>3. QED BY <1>1, <1>2, <1>18, <2>1, <2>2 DEF Functions
<1>19. next = "update_logic" => results'["update_program"] = "none"
  BY <1>7, <1>12 DEF Inv, Returned, Functions
<1>20. Returned'
  BY <1>1, <1>3, <1>4, <1>12, <1>13, <1>15, <1>16, <1>17, <1>18, <1>19 DEF Returned
<1>21. Undisturbed'
  <2>1. Rewritable /\ clean => /\ ok /\ session /\ ~prot
                               /\ \A f \in Functions : results[f] # "false"
    BY <1>1 DEF Inv, Undisturbed, Functions
  <2>2. QED BY <1>1, <1>3, <1>4, <1>7, <2>1 DEF Undisturbed
<1>22. Open'
  BY <1>1 DEF Inv, Open, HasKey
<1>23. QED BY <1>6, <1>8, <1>9, <1>10, <1>14, <1>20, <1>21, <1>22 DEF Inv

LEMMA UartFinalInv ==
  ASSUME Inv, UartFinal
  PROVE  Inv'
<1>1. /\ fn' = "idle" /\ prot' = (opt.rdp # "key") /\ session' = FALSE
      /\ UNCHANGED <<button, todo, ok, compress, results, opt, flash, presses, faults, had, clean>>
  BY DEF UartFinal
<1>2. Effect
  BY <1>1, KeptFlash DEF Inv
<1>3. Types'
  <2>1. prot' \in BOOLEAN
    BY <1>1
  <2>2. QED BY <1>1, <1>2, <2>1 DEF Inv, Types
<1>4. Device'
  BY <1>2 DEF Effect
<1>5. InitSteps' /\ LogicSteps' /\ ProgramSteps' /\ Open' /\ Returned' /\ Undisturbed'
  BY <1>1 DEF InitSteps, LogicSteps, ProgramSteps, Open, Returned, Undisturbed, Functions
<1>6. QED BY <1>3, <1>4, <1>5 DEF Inv

LEMMA StutterInv ==
  ASSUME Inv, UNCHANGED vars
  PROVE  Inv'
<1>1. UNCHANGED <<button, fn, todo, ok, compress, results, session, prot, opt, flash, had, clean>>
  BY DEF vars
<1>2. Image' = Image /\ HasProgram' = HasProgram
  BY <1>1 DEF Image, HasProgram, Holds
<1>3. Types' /\ Undisturbed' /\ Device' /\ Open'
  BY <1>1 DEF Inv, Types, Undisturbed, Device, OneLogicAt, Open, HasKey
<1>4. InitSteps'
  BY <1>1 DEF Inv, InitSteps, Holds, OptFor
<1>5. ProgramSteps'
  BY <1>1 DEF Inv, ProgramSteps, Free, Holds
<1>6. Returned'
  BY <1>1, <1>2 DEF Inv, Returned, LogicStored, Survives, Holds
<1>7. LogicSteps'
  <2>1. /\ WriteLogic(Image)' = WriteLogic(Image) /\ OptFor(compress)' = OptFor(compress)
        /\ Addressed' = Addressed /\ Survives' = Survives
        /\ SurvivesOrRewrite' = SurvivesOrRewrite
    BY <1>1, <1>2 DEF WriteLogic, OptFor, Addressed, Survives, SurvivesOrRewrite, NoAddress
  <2>2. RewriteSteps => RewriteSteps'
    BY <1>1, <1>2, <2>1 DEF RewriteSteps, Holds, BlankFrom
  <2>3. PlaceSteps => PlaceSteps'
    BY <1>1, <1>2, <2>1 DEF PlaceSteps, Holds, BlankFrom, Free
  <2>4. QED BY <1>1, <1>2, <2>1, <2>2, <2>3 DEF Inv, LogicSteps
<1>8. QED BY <1>3, <1>4, <1>5, <1>6, <1>7 DEF Inv

LEMMA InitInv == Init => Inv
<1> SUFFICES ASSUME Init PROVE Inv
  OBVIOUS
<1>1. PICK s \in Starts : opt = s.opt /\ flash = s.flash
  BY DEF Init
<1>2. s.opt \in OptionBytes /\ s.flash = [c \in 0 .. FlashCells - 1 |-> s.flash[c]]
  BY LogicAssumption DEF LogicAssumption
<1>3. Types
  <2>1. flash = [a \in 0 .. FlashCells - 1 |-> flash[a]]
    BY <1>1, <1>2
  <2>2. prot \in BOOLEAN
    BY DEF Init
  <2>3. QED BY <1>1, <1>2, <2>1, <2>2 DEF Init, Types
<1>4. Device
  <2>1. ErasedWhole => (opt.rdp = "erased" => opt = ErasedOpt)
    BY <1>1 DEF ErasedWhole
  <2>2. Rewritable /\ opt.plain = "ok" /\ opt.rdp = "key" =>
          \A a \in ConfigAddr(FALSE) .. FlashCells - 1 : OneLogicAt(a)
    BY <1>1, Zenon DEF Rewritable, OneLogicAt
  <2>3. QED BY <2>1, <2>2 DEF Device
<1>5. InitSteps /\ LogicSteps /\ ProgramSteps /\ Open /\ Returned /\ Undisturbed
  BY DEF Init, InitSteps, LogicSteps, ProgramSteps, Open, Returned, Undisturbed, Functions
<1>6. QED BY <1>3, <1>4, <1>5 DEF Inv

(* The outline holds throughout, for any flash, images, presses and faults. *)
THEOREM Outline == Spec => []Inv
<1>1. Inv /\ [Next]_vars => Inv'
  <2> SUFFICES ASSUME Inv, [Next]_vars PROVE Inv'
    OBVIOUS
  <2>1. ASSUME NEW b \in {1, 2}, Press(b) PROVE Inv'
    BY <2>1, PressInv
  <2>2. CASE UartInit
    BY <2>2, UartInitInv
  <2>3. CASE InitFails
    BY <2>3, InitFailsInv
  <2>4. CASE Command
    BY <2>4, CommandInv
  <2>5. CASE Refused
    BY <2>5, RefusedInv
  <2>6. CASE CutShort
    BY <2>6, CutShortInv
  <2>7. CASE Return
    BY <2>7, ReturnInv
  <2>8. CASE UartFinal
    BY <2>8, UartFinalInv
  <2>9. CASE Resting \/ UNCHANGED vars
    BY <2>9, StutterInv DEF Resting
  <2>10. QED BY <2>1, <2>2, <2>3, <2>4, <2>5, <2>6, <2>7, <2>8, <2>9 DEF Next
<1>2. QED BY <1>1, InitInv, PTL DEF Spec

(* What a function of this press has reported as written is still there    *)
(* when the target leaves the loader (uart_master.c: uart_update_logic and *)
(* uart_update_program, which read back what they write): whatever was in  *)
(* flash and in the option bytes before, and whatever faults came.         *)
THEOREM LogicStays == Spec => []ReportedIsStored
<1>1. Inv => ReportedIsStored
  BY DEF Inv, Returned, LogicStored, ReportedIsStored, Image
<1>2. QED BY <1>1, Outline, PTL

(* A logic that is reported as written has not cost the device its         *)
(* program: either the option bytes stay, or the default program is        *)
(* written after them.                                                     *)
THEOREM ProgramStays == ASSUME ErasedWhole PROVE Spec => []ProgramSurvives
<1>1. Inv => ProgramSurvives
  BY DEF Inv, Returned, Survives, HasProgram, ProgramSurvives
<1>2. QED BY <1>1, Outline, PTL

(* A press that nothing disturbs succeeds, whatever the ones before it     *)
(* have left: every state a fault leaves can be written again.             *)
THEOREM Repairs == ASSUME Rewritable PROVE Spec => []CleanPressSucceeds
<1>1. Inv => CleanPressSucceeds
  BY DEF Inv, Undisturbed, CleanPressSucceeds
<1>2. QED BY <1>1, Outline, PTL
=============================================================================
