--------------------------- MODULE EraseFlashProofs ---------------------------
(***************************************************************************)
(* Of a range of any length at any address, cut into sectors, blocks and   *)
(* frames of any size: frames fit the loader's buffer, and nothing but     *)
(* unprotected sectors of the range is erased.  Blocks are sent with the   *)
(* number of their first sector, which the loader multiplies by the block  *)
(* size.  That the wrong block is always past the end of the flash rests   *)
(* on SmallFlash: the flash has at most as many blocks as a block has      *)
(* sectors (64K blocks of 4K sectors: up to 1 MB, the largest board's).    *)
(***************************************************************************)
EXTENDS EraseFlash, SequenceTheorems, TLAPS

SmallFlash == FlashSectors <= BlockSectors * BlockSectors

FirstSector == req.address \div SectorSize
EndSector   == (req.address + req.length + SectorSize - 1) \div SectorSize
FlashRange  == 0 .. FlashSectors - 1

(* A page stands for sectors that were asked for, or for none of the flash. *)
PageType  == [block : BOOLEAN, n : Nat]
Within(p) == Covers(p) \cap FlashRange \subseteq Asked

Types ==
  /\ pc \in {"begin", "loop", "erase", "erasing", "done"}
  /\ req.address \in Nat /\ req.length \in Nat
  /\ addr \in Nat /\ pages \in Seq(PageType)

(* The loop stands at a sector of the range, and the frame is not full.    *)
Loop ==
  /\ pc \in {"loop", "erase", "erasing"} =>
       req.length > 0 /\ addr = Page * SectorSize /\ Page >= FirstSector
  /\ pc = "loop" => Len(pages) < MaxPages
  /\ pc = "erase" => Len(pages) \in 1 .. MaxPages

Pages == SmallFlash => \A i \in DOMAIN pages : Within(pages[i])
Safe  == SmallFlash => OnlyAsked

IInv == Types /\ Loop /\ Pages /\ Safe
-----------------------------------------------------------------------------
(* The constants, one fact each. *)
LEMMA Constants ==
  /\ SectorSize \in Nat \ {0} /\ BlockSectors \in Nat \ {0}
  /\ FlashSectors \in Nat \ {0} /\ MaxPages \in Nat \ {0}
BY EraseAssumption

LEMMA Division ==
  ASSUME NEW a \in Nat, NEW s \in Nat \ {0}
  PROVE  /\ a \div s \in Nat
         /\ (a \div s) * s <= a
         /\ a < ((a \div s) + 1) * s
OBVIOUS

LEMMA DivMod ==
  \A x \in Nat, d \in Nat \ {0} : x \div d \in Nat /\ x = d * (x \div d) + (x % d)
OBVIOUS

LEMMA Exact ==
  ASSUME NEW k \in Nat, NEW s \in Nat \ {0}
  PROVE  (k * s) \div s = k
OBVIOUS

LEMMA Monotone ==
  ASSUME NEW a \in Nat, NEW b \in Nat, NEW s \in Nat, a <= b
  PROVE  a * s <= b * s
OBVIOUS

LEMMA Multiple ==
  ASSUME NEW k \in Nat, NEW b \in Nat \ {0}, NEW s \in Nat \ {0}, (k * s) % (b * s) = 0
  PROVE  \E m \in Nat : k = m * b
<1> DEFINE m == (k * s) \div (b * s)
<1>1. b * s \in Nat \ {0} /\ k * s \in Nat
  OBVIOUS
<1>2. m \in Nat /\ k * s = m * (b * s)
  <2> DEFINE x == k * s
             d == b * s
  <2>1. x \in Nat /\ d \in Nat \ {0} /\ x % d = 0
    BY <1>1
  <2> HIDE DEF x, d
  <2>2. x \div d \in Nat /\ x = d * (x \div d) + (x % d)
    BY <2>1, DivMod
  <2>3. d * (x \div d) = (x \div d) * d
    BY <2>1, <2>2
  <2>4. x = (x \div d) * d
    BY <2>1, <2>2, <2>3
  <2> QED BY <2>2, <2>4 DEF x, d
<1> HIDE DEF m
<1>3. k * s = (m * b) * s
  BY <1>2
<1>4. k = m * b
  BY <1>2, <1>3
<1> QED BY <1>2, <1>4

(* What lies between the first sector and the end was asked for. *)
LEMMA Between ==
  ASSUME Types, req.length > 0, NEW s \in FlashRange, FirstSector <= s, s < EndSector
  PROVE  s \in Asked
<1> DEFINE a == req.address
           e == req.address + req.length + SectorSize - 1
<1>1. /\ SectorSize \in Nat \ {0} /\ FlashSectors \in Nat /\ a \in Nat /\ e \in Nat
      /\ req.length \in Nat /\ s \in Nat
  <2>1. SectorSize \in Nat \ {0} /\ FlashSectors \in Nat \ {0}
    BY Constants
  <2>2. req.address \in Nat /\ req.length \in Nat
    BY DEF Types
  <2>3. s \in Nat
    BY <2>1 DEF FlashRange
  <2> QED BY <2>1, <2>2, <2>3
<1>2. /\ FirstSector \in Nat /\ a < (FirstSector + 1) * SectorSize
      /\ EndSector \in Nat /\ EndSector * SectorSize <= e
  BY <1>1, Division DEF FirstSector, EndSector
<1>3. (FirstSector + 1) * SectorSize <= (s + 1) * SectorSize
  BY <1>1, <1>2, Monotone
<1>4. (s + 1) * SectorSize <= EndSector * SectorSize
  BY <1>1, <1>2, Monotone
<1>5. (s + 1) * SectorSize = s * SectorSize + SectorSize /\ s * SectorSize \in Nat
      /\ (FirstSector + 1) * SectorSize \in Nat /\ EndSector * SectorSize \in Nat
  BY <1>1, <1>2
<1>6. a < (s + 1) * SectorSize
  BY <1>1, <1>2, <1>3, <1>5
<1>7. a + req.length > s * SectorSize
  BY <1>1, <1>2, <1>4, <1>5
<1> QED BY <1>6, <1>7 DEF Asked, FlashRange

(* Where the loop stands, counted in sectors. *)
LEMMA LoopSector ==
  ASSUME Types, Loop, pc = "loop", addr < EndOf
  PROVE  /\ Page \in Nat /\ FirstSector \in Nat /\ EndSector \in Nat
         /\ FirstSector <= Page /\ Page < EndSector /\ addr = Page * SectorSize
         /\ EndOf = EndSector * SectorSize
         /\ SectorSize \in Nat \ {0} /\ BlockSectors \in Nat \ {0} /\ req.length > 0
<1>1. SectorSize \in Nat \ {0} /\ BlockSectors \in Nat \ {0} /\ addr \in Nat
      /\ req.address \in Nat /\ req.address + req.length + SectorSize - 1 \in Nat
  <2>1. SectorSize \in Nat \ {0} /\ BlockSectors \in Nat \ {0}
    BY Constants
  <2>2. addr \in Nat /\ req.address \in Nat /\ req.length \in Nat
    BY DEF Types
  <2> QED BY <2>1, <2>2
<1>2. Page \in Nat /\ FirstSector \in Nat /\ EndSector \in Nat
  BY <1>1, Division DEF Page, FirstSector, EndSector
<1>3. addr = Page * SectorSize /\ FirstSector <= Page /\ req.length > 0
  BY <1>1, <1>2 DEF Loop
<1>4. EndOf = EndSector * SectorSize
  BY DEF EndOf, EndSector
<1>5. Page < EndSector
  <2>1. SUFFICES ASSUME EndSector <= Page PROVE FALSE
    BY <1>2
  <2>2. EndSector * SectorSize <= Page * SectorSize
    BY <1>1, <1>2, <2>1, Monotone
  <2> QED BY <1>1, <1>2, <1>3, <1>4, <2>2
<1> QED BY <1>1, <1>2, <1>3, <1>4, <1>5

LEMMA SectorWithin ==
  ASSUME Types, Loop, pc = "loop", addr < EndOf
  PROVE  Within(Sector(Page)) /\ Sector(Page) \in PageType
<1>1. Page \in Nat /\ FirstSector <= Page /\ Page < EndSector /\ req.length > 0
  BY LoopSector
<1>2. Covers(Sector(Page)) = {Page} /\ Sector(Page) \in PageType
  BY <1>1 DEF Covers, Sector, PageType
<1> QED BY <1>1, <1>2, Between DEF Within

LEMMA BlockType ==
  ASSUME Types, Loop, pc = "loop", addr < EndOf
  PROVE  Block(Page) \in PageType
BY LoopSector DEF Block, PageType

LEMMA BlockWithin ==
  ASSUME SmallFlash, Types, Loop, pc = "loop", addr < EndOf, AtBlock
  PROVE  Within(Block(Page)) /\ Block(Page) \in PageType
<1>1. /\ Page \in Nat /\ FirstSector \in Nat /\ EndSector \in Nat
      /\ FirstSector <= Page /\ addr = Page * SectorSize
      /\ EndOf = EndSector * SectorSize
      /\ SectorSize \in Nat \ {0} /\ BlockSectors \in Nat \ {0} /\ req.length > 0
  BY LoopSector
<1>2. Covers(Block(Page)) = Page * BlockSectors .. (Page + 1) * BlockSectors - 1
      /\ Block(Page) \in PageType
  BY <1>1 DEF Covers, Block, PageType
<1>3. (Page * SectorSize) % (BlockSectors * SectorSize) = 0
      /\ Page * SectorSize + BlockSectors * SectorSize <= EndSector * SectorSize
  BY <1>1 DEF AtBlock
<1>4. PICK m \in Nat : Page = m * BlockSectors
  BY <1>1, <1>3, Multiple
<1>5. CASE m = 0
  <2>1. Page = 0 /\ Covers(Block(Page)) = 0 .. BlockSectors - 1
    BY <1>1, <1>2, <1>4, <1>5
  <2>2. BlockSectors <= EndSector
    <3>1. BlockSectors * SectorSize <= EndSector * SectorSize
      BY <1>1, <1>3, <2>1
    <3>2. SUFFICES ASSUME EndSector + 1 <= BlockSectors PROVE FALSE
      BY <1>1
    <3>3. (EndSector + 1) * SectorSize <= BlockSectors * SectorSize
      BY <1>1, <3>2, Monotone
    <3>4. (EndSector + 1) * SectorSize = EndSector * SectorSize + SectorSize
      BY <1>1
    <3> QED BY <1>1, <3>1, <3>3, <3>4
  <2>3. \A s \in 0 .. BlockSectors - 1 : FirstSector <= s /\ s < EndSector
    BY <1>1, <2>1, <2>2
  <2> QED BY <1>1, <1>2, <2>1, <2>3, Between DEF Within
<1>6. CASE m # 0
  <2>1. BlockSectors <= Page
    <3>1. 1 * BlockSectors <= m * BlockSectors
      BY <1>1, <1>6, Monotone
    <3> QED BY <1>1, <1>4, <3>1
  <2>2. BlockSectors * BlockSectors <= Page * BlockSectors
    BY <1>1, <2>1, Monotone
  <2>3. FlashSectors <= Page * BlockSectors
    BY <1>1, <2>2, EraseAssumption DEF SmallFlash
  <2>4. Covers(Block(Page)) \cap FlashRange = {}
    BY <1>1, <1>2, <2>3, EraseAssumption DEF FlashRange
  <2> QED BY <1>2, <2>4 DEF Within
<1> QED BY <1>5, <1>6
-----------------------------------------------------------------------------
(* Initially, and when a range is begun. *)
LEMMA InitHolds == Init => IInv
<1> SUFFICES ASSUME Init PROVE IInv
  OBVIOUS
<1>1. PICK r \in Requests : req = [address |-> r[1], length |-> r[2]]
  BY DEF Init
<1>2. r \in Nat \X Nat
  BY EraseAssumption
<1>3. Types
  BY <1>1, <1>2 DEF Init, Types
<1> QED BY <1>3 DEF Init, IInv, Loop, Pages, Safe, OnlyAsked, SmallFlash

(* What a step leaves in place when it touches neither pages nor range.    *)
LEMMA Kept ==
  ASSUME UNCHANGED <<req, wrp, erased>>, Safe
  PROVE  Safe'
BY DEF Safe, OnlyAsked, Asked, SmallFlash

LEMMA PagesKept ==
  ASSUME UNCHANGED <<req, pages>>, Pages
  PROVE  Pages'
BY DEF Pages, Within, Asked, SmallFlash

LEMMA EraseBeginStep == IInv /\ EraseBegin => IInv'
<1> SUFFICES ASSUME IInv, EraseBegin PROVE IInv'
  OBVIOUS
<1>1. SectorSize \in Nat \ {0} /\ MaxPages \in Nat \ {0}
  BY Constants
<1>2. req.address \in Nat /\ req' = req /\ req.length \in Nat /\ req.length > 0
  BY DEF EraseBegin, IInv, Types
<1>3. FirstSector \in Nat
  BY <1>1, <1>2, Division DEF FirstSector
<1>4. addr' = FirstSector * SectorSize /\ pages' = <<>> /\ pc' = "loop"
  BY DEF EraseBegin, Begin, FirstSector
<1>5. Page' = FirstSector
  <2>1. (FirstSector * SectorSize) \div SectorSize = FirstSector
    BY <1>1, <1>3, Exact
  <2> QED BY <1>4, <2>1 DEF Page
<1>6. FirstSector' = FirstSector
  BY <1>2 DEF FirstSector
<1>7. Types'
  <2>1. FirstSector * SectorSize \in Nat
    BY <1>1, <1>3
  <2> QED BY <1>2, <1>4, <2>1 DEF Types
<1>8. Loop'
  BY <1>1, <1>2, <1>3, <1>4, <1>5, <1>6 DEF Loop
<1>9. Pages'
  BY <1>4 DEF Pages
<1>10. Safe'
  BY Kept DEF IInv, EraseBegin
<1> QED BY <1>7, <1>8, <1>9, <1>10 DEF IInv

(* A page of k sectors, all of the range, is added to the frame. *)
LEMMA AddStep ==
  ASSUME IInv, NEW p \in PageType, NEW k \in Nat \ {0}, SmallFlash => Within(p),
         AddPage(p, k * SectorSize)
  PROVE  IInv'
<1>1. /\ pc = "loop" /\ addr < EndOf /\ req' = req /\ wrp' = wrp /\ erased' = erased
      /\ pages' = Append(pages, p) /\ addr' = addr + k * SectorSize
      /\ pc' = IF Len(pages') >= MaxPages \/ addr' >= EndOf THEN "erase" ELSE "loop"
  BY DEF AddPage
<1>2. SectorSize \in Nat \ {0} /\ MaxPages \in Nat \ {0}
  BY Constants
<1>3. Types /\ Loop /\ Pages /\ Safe
  BY DEF IInv
<1>4. /\ Page \in Nat /\ FirstSector \in Nat /\ FirstSector <= Page
      /\ addr = Page * SectorSize /\ req.length > 0
  BY <1>1, <1>3, LoopSector
<1>5. addr' = (Page + k) * SectorSize
  BY <1>1, <1>2, <1>4
<1>6. Page' = Page + k
  <2>1. ((Page + k) * SectorSize) \div SectorSize = Page + k
    BY <1>2, <1>4, Exact
  <2> QED BY <1>5, <2>1 DEF Page
<1>7. /\ pages \in Seq(PageType) /\ pages' \in Seq(PageType)
      /\ Len(pages') = Len(pages) + 1 /\ Len(pages) \in Nat
      /\ \A i \in 1 .. Len(pages) : pages'[i] = pages[i]
      /\ pages'[Len(pages) + 1] = p
  <2>1. pages \in Seq(PageType)
    BY <1>3 DEF Types
  <2> QED BY <1>1, <2>1, AppendProperties
<1>8. Types'
  <2>1. (Page + k) * SectorSize \in Nat
    BY <1>2, <1>4
  <2> QED BY <1>1, <1>3, <1>5, <1>7, <2>1 DEF Types
<1>9. Loop'
  <2>1. FirstSector' = FirstSector
    BY <1>1 DEF FirstSector
  <2>2. Page' >= FirstSector'
    BY <1>4, <1>6, <2>1
  <2>3. addr' = Page' * SectorSize
    BY <1>5, <1>6
  <2>4. Len(pages) < MaxPages
    BY <1>1, <1>3 DEF Loop
  <2>5. Len(pages') \in 1 .. MaxPages
    BY <1>2, <1>7, <2>4
  <2>6. pc' = "loop" => Len(pages') < MaxPages
    BY <1>1, <1>2, <1>7
  <2>7. pc' \in {"loop", "erase"}
    BY <1>1
  <2> QED BY <1>1, <1>4, <2>2, <2>3, <2>5, <2>6, <2>7 DEF Loop
<1>10. Pages'
  <2> SUFFICES ASSUME SmallFlash PROVE (\A i \in DOMAIN pages : Within(pages[i]))'
    BY DEF Pages, SmallFlash
  <2>1. \A q : Within(q)' <=> Within(q)
    BY <1>1 DEF Within, Asked, Covers
  <2>2. \A i \in 1 .. Len(pages) : Within(pages[i])
    BY <1>3, <1>7 DEF Pages
  <2>3. \A i \in 1 .. Len(pages) + 1 : i \in 1 .. Len(pages) \/ i = Len(pages) + 1
    BY <1>7
  <2>4. DOMAIN pages' = 1 .. Len(pages) + 1
    BY <1>7
  <2>5. ASSUME NEW i \in DOMAIN pages' PROVE Within(pages'[i])
    BY <1>7, <2>2, <2>3, <2>4, <2>5
  <2> QED BY <2>1, <2>5
<1>11. Safe'
  BY <1>1, <1>3, Kept
<1> QED BY <1>8, <1>9, <1>10, <1>11 DEF IInv

LEMMA ErasePageStep == IInv /\ ErasePage => IInv'
<1> SUFFICES ASSUME IInv, ErasePage PROVE IInv'
  OBVIOUS
<1>1. /\ pc = "erasing" /\ pc' = pc /\ pages # <<>> /\ pages' = Tail(pages)
      /\ UNCHANGED <<req, addr, wrp>>
      /\ erased' = IF Protected(Head(pages)) THEN erased
                   ELSE erased \cup (Covers(Head(pages)) \cap FlashRange)
  BY DEF ErasePage, FlashRange
<1>2. Types /\ Loop /\ Pages /\ Safe /\ pages \in Seq(PageType)
  BY DEF IInv, Types
<1>3. /\ Head(pages) = pages[1] /\ 1 \in DOMAIN pages /\ pages' \in Seq(PageType)
      /\ \A i \in DOMAIN pages' : i + 1 \in DOMAIN pages /\ pages'[i] = pages[i + 1]
  BY <1>1, <1>2, HeadTailProperties, EmptySeq
<1>4. Types'
  BY <1>1, <1>2, <1>3 DEF Types
<1>5. Loop'
  BY <1>1, <1>2 DEF Loop, Page, FirstSector
<1>6. \A q : Within(q)' <=> Within(q)
  BY <1>1 DEF Within, Asked, Covers
<1>7. Pages'
  <2> SUFFICES ASSUME SmallFlash PROVE (\A i \in DOMAIN pages : Within(pages[i]))'
    BY DEF Pages, SmallFlash
  <2>1. ASSUME NEW i \in DOMAIN pages' PROVE Within(pages'[i])
    BY <1>2, <1>3 DEF Pages
  <2> QED BY <1>6, <2>1
<1>8. Safe'
  <2> SUFFICES ASSUME SmallFlash PROVE OnlyAsked'
    BY DEF Safe, SmallFlash
  <2>1. Covers(Head(pages)) \cap FlashRange \subseteq Asked
    BY <1>2, <1>3 DEF Pages, Within
  <2>2. Asked' = Asked
    BY <1>1 DEF Asked
  <2>3. CASE Protected(Head(pages))
    BY <1>1, <1>2, <2>3, <2>2 DEF Safe, OnlyAsked
  <2>4. CASE ~Protected(Head(pages))
    <3>1. \A s \in Covers(Head(pages)) : ~((IF s > LastWp THEN LastWp ELSE s) \in wrp)
      BY <2>4 DEF Protected, SectorProtected
    <3> QED BY <1>1, <1>2, <2>1, <2>2, <2>4, <3>1 DEF Safe, OnlyAsked
  <2> QED BY <2>3, <2>4
<1> QED BY <1>4, <1>5, <1>7, <1>8 DEF IInv

(* The rest change neither the frame nor what is erased. *)
LEMMA QuietStep ==
  ASSUME IInv, UNCHANGED <<req, addr, pages, wrp, erased>>,
         \/ pc' = "done" \/ pc' = pc
         \/ pc = "erase" /\ pc' = "erasing"
         \/ pc = "erasing" /\ pages = <<>> /\ pc' = "loop"
  PROVE  IInv'
<1>1. MaxPages \in Nat \ {0} /\ Types /\ Loop /\ Pages /\ Safe
  BY Constants DEF IInv
<1>2. pages = <<>> => Len(pages) < MaxPages
  BY <1>1
<1>3. Types'
  BY <1>1 DEF Types
<1>4. Loop'
  BY <1>1, <1>2 DEF Loop, Page, FirstSector
<1>5. Pages' /\ Safe'
  BY <1>1, Kept, PagesKept
<1> QED BY <1>3, <1>4, <1>5 DEF IInv

(* Every step preserves the invariant. *)
LEMMA NextHolds == IInv /\ [Next]_vars => IInv'
<1> SUFFICES ASSUME IInv, [Next]_vars PROVE IInv'
  OBVIOUS
<1>1. CASE EraseNothing
  BY <1>1, QuietStep DEF EraseNothing, Return
<1>2. CASE EraseBegin
  BY <1>2, EraseBeginStep
<1>3. CASE OptionErase
  BY <1>3, QuietStep DEF OptionErase, Return
<1>4. CASE AddBlock
  <2>1. AtBlock /\ pc = "loop" /\ addr < EndOf
    BY <1>4 DEF AddBlock, AddPage
  <2>2. AddPage(Block(Page), BlockSectors * SectorSize)
    BY <1>4 DEF AddBlock
  <2>3. (SmallFlash => Within(Block(Page))) /\ Block(Page) \in PageType
    BY <2>1, BlockWithin, BlockType DEF IInv
  <2>4. BlockSectors \in Nat \ {0}
    BY Constants
  <2> QED BY <2>2, <2>3, <2>4, AddStep
<1>5. CASE AddSector
  <2>1. pc = "loop" /\ addr < EndOf
    BY <1>5 DEF AddSector, AddPage
  <2>2. AddPage(Sector(Page), 1 * SectorSize)
    <3>1. 1 * SectorSize = SectorSize
      BY Constants
    <3> QED BY <1>5, <3>1 DEF AddSector
  <2>3. Within(Sector(Page)) /\ Sector(Page) \in PageType
    BY <2>1, SectorWithin DEF IInv
  <2> QED BY <2>2, <2>3, AddStep
<1>6. CASE Refuse
  BY <1>6, QuietStep DEF Refuse, Return
<1>7. CASE Accept
  BY <1>7, QuietStep DEF Accept
<1>8. CASE ErasePage
  BY <1>8, ErasePageStep
<1>9. CASE Erased
  BY <1>9, QuietStep DEF Erased, Return
<1>10. CASE Returned \/ UNCHANGED vars
  BY <1>10, QuietStep DEF Returned, vars
<1> QED BY <1>1, <1>2, <1>3, <1>4, <1>5, <1>6, <1>7, <1>8, <1>9, <1>10 DEF Next

(* Every frame sent to the loader holds at least one page and never more   *)
(* than its buffer (MaxPages), for a range of any length.                  *)
THEOREM FramesAlwaysFit == Spec => []FrameFits
<1>1. IInv => FrameFits
  BY DEF IInv, Loop, FrameFits
<1> QED BY <1>1, InitHolds, NextHolds, PTL DEF Spec

(* In a flash of at most 16 blocks of 16 sectors, uart_erase_flash erases  *)
(* no sector outside the range asked for and no protected one, although    *)
(* blocks are sent with sector numbers.                                    *)
THEOREM OnlyAskedErased ==
  ASSUME SmallFlash PROVE Spec => []OnlyAsked
<1>1. IInv => OnlyAsked
  BY DEF IInv, Safe
<1> QED BY <1>1, InitHolds, NextHolds, PTL DEF Spec
-----------------------------------------------------------------------------
(* The defect of block pages aside (a block other than the first is sent   *)
(* with the number of its first sector), a range is erased completely.     *)
NoWholeBlock ==
  \A r \in Requests, m \in Nat \ {0} :
    ~(/\ r[1] \div SectorSize <= m * BlockSectors
      /\ (m + 1) * BlockSectors <= (r[1] + r[2] + SectorSize - 1) \div SectorSize)

(* What the loop has passed is erased or in the frame; a frame that is     *)
(* being erased has no protected page, so that none is skipped.            *)
Asking  == \E r \in Requests : req = [address |-> r[1], length |-> r[2]]
Passed  == pc \in {"loop", "erase", "erasing"} =>
             \A s \in Asked : s < Page => s \in erased \/ \E i \in DOMAIN pages : s \in Covers(pages[i])
Allowed == pc = "erasing" => MemoryErasable
Success == result = "true" => pc = "done" /\ Asked \subseteq erased

Complete == Asking /\ Passed /\ Allowed /\ Success

LEMMA AskedType ==
  ASSUME Types
  PROVE  /\ SectorSize \in Nat \ {0} /\ FlashSectors \in Nat
         /\ req.address \in Nat /\ req.length \in Nat
         /\ \A s \in Asked : s \in Nat /\ s \in FlashRange
BY Constants DEF Types, Asked, FlashRange

(* Every sector asked for lies between the first one and the end. *)
LEMMA AskedBetween ==
  ASSUME Types, NEW s \in Asked
  PROVE  FirstSector <= s /\ s < EndSector
<1>1. /\ SectorSize \in Nat \ {0} /\ req.address \in Nat /\ req.length \in Nat /\ s \in Nat
      /\ req.address < (s + 1) * SectorSize /\ req.address + req.length > s * SectorSize
  BY AskedType DEF Asked
<1>2. FirstSector \in Nat /\ FirstSector * SectorSize <= req.address
  BY <1>1, Division DEF FirstSector
<1>3. EndSector \in Nat /\ req.address + req.length + SectorSize - 1 < (EndSector + 1) * SectorSize
  <2>1. req.address + req.length + SectorSize - 1 \in Nat
    BY <1>1
  <2> QED BY <1>1, <2>1, Division DEF EndSector
<1>4. FirstSector <= s
  <2> SUFFICES ASSUME s + 1 <= FirstSector PROVE FALSE
    BY <1>1, <1>2
  <2>1. (s + 1) * SectorSize <= FirstSector * SectorSize
    BY <1>1, <1>2, Monotone
  <2>2. (s + 1) * SectorSize \in Nat /\ FirstSector * SectorSize \in Nat
    BY <1>1, <1>2
  <2> QED BY <1>1, <1>2, <2>1, <2>2
<1>5. s < EndSector
  <2> SUFFICES ASSUME EndSector <= s PROVE FALSE
    BY <1>1, <1>3
  <2>1. EndSector * SectorSize <= s * SectorSize
    BY <1>1, <1>3, Monotone
  <2>2. (EndSector + 1) * SectorSize = EndSector * SectorSize + SectorSize
        /\ EndSector * SectorSize \in Nat /\ s * SectorSize \in Nat
    BY <1>1, <1>3
  <2> QED BY <1>1, <1>3, <2>1, <2>2
<1> QED BY <1>4, <1>5

(* A range of the option bytes asks for no sector of the flash. *)
LEMMA OptionsAskNone ==
  ASSUME Types, IsOption
  PROVE  Asked = {}
<1> SUFFICES ASSUME NEW s \in Asked PROVE FALSE
  OBVIOUS
<1>1. /\ SectorSize \in Nat \ {0} /\ FlashSectors \in Nat /\ req.address \in Nat
      /\ s \in Nat /\ s + 1 <= FlashSectors /\ req.address < (s + 1) * SectorSize
  BY AskedType DEF Asked
<1>2. OptionBase \in Nat /\ OptionBase >= FlashSectors * SectorSize /\ req.address >= OptionBase
  BY <1>1, EraseAssumption DEF IsOption
<1>3. (s + 1) * SectorSize <= FlashSectors * SectorSize
  BY <1>1, Monotone
<1>4. (s + 1) * SectorSize \in Nat /\ FlashSectors * SectorSize \in Nat
  BY <1>1
<1> QED BY <1>1, <1>2, <1>3, <1>4

(* Only block 0 is ever sent as a block. *)
LEMMA OnlyFirstBlock ==
  ASSUME NoWholeBlock, Asking, Types, Loop, pc = "loop", addr < EndOf, AtBlock
  PROVE  Page = 0
<1>1. /\ Page \in Nat /\ FirstSector \in Nat /\ EndSector \in Nat
      /\ FirstSector <= Page /\ addr = Page * SectorSize
      /\ EndOf = EndSector * SectorSize
      /\ SectorSize \in Nat \ {0} /\ BlockSectors \in Nat \ {0}
  BY LoopSector
<1>2. (Page * SectorSize) % (BlockSectors * SectorSize) = 0
      /\ Page * SectorSize + BlockSectors * SectorSize <= EndSector * SectorSize
  BY <1>1 DEF AtBlock
<1>3. PICK m \in Nat : Page = m * BlockSectors
  BY <1>1, <1>2, Multiple
<1>4. Page + BlockSectors <= EndSector
  <2> SUFFICES ASSUME EndSector + 1 <= Page + BlockSectors PROVE FALSE
    BY <1>1
  <2>1. (EndSector + 1) * SectorSize <= (Page + BlockSectors) * SectorSize
    BY <1>1, Monotone
  <2>2. /\ (EndSector + 1) * SectorSize = EndSector * SectorSize + SectorSize
        /\ (Page + BlockSectors) * SectorSize = Page * SectorSize + BlockSectors * SectorSize
        /\ EndSector * SectorSize \in Nat /\ Page * SectorSize \in Nat
        /\ BlockSectors * SectorSize \in Nat
    BY <1>1
  <2> QED BY <1>1, <1>2, <2>1, <2>2
<1>5. (m + 1) * BlockSectors = Page + BlockSectors
  BY <1>1, <1>3
<1>6. PICK r \in Requests : req = [address |-> r[1], length |-> r[2]]
  BY DEF Asking
<1>7. r[1] \div SectorSize = FirstSector
      /\ (r[1] + r[2] + SectorSize - 1) \div SectorSize = EndSector
  BY <1>6 DEF FirstSector, EndSector
<1>8. m = 0
  <2> SUFFICES ASSUME m \in Nat \ {0} PROVE FALSE
    BY <1>3
  <2>1. ~(FirstSector <= m * BlockSectors /\ (m + 1) * BlockSectors <= EndSector)
    BY <1>6, <1>7 DEF NoWholeBlock
  <2> QED BY <1>1, <1>3, <1>4, <1>5, <2>1
<1> QED BY <1>1, <1>3, <1>8

LEMMA CompleteInit == Init => Complete
<1> SUFFICES ASSUME Init PROVE Complete
  OBVIOUS
<1> QED BY DEF Init, Complete, Asking, Passed, Allowed, Success

LEMMA CompleteBegin ==
  ASSUME IInv, Complete, EraseBegin
  PROVE  Complete'
<1>1. /\ req' = req /\ wrp' = wrp /\ erased' = erased /\ result' = result
      /\ pc = "begin" /\ pc' = "loop" /\ pages' = <<>> /\ addr' = FirstSector * SectorSize
  BY DEF EraseBegin, Begin, FirstSector
<1>2. Types /\ Asked' = Asked
  BY <1>1 DEF IInv, Asked
<1>3. Page' = FirstSector /\ FirstSector \in Nat
  <2>1. SectorSize \in Nat \ {0} /\ FirstSector \in Nat
    BY <1>2, AskedType, Division DEF FirstSector
  <2>2. (FirstSector * SectorSize) \div SectorSize = FirstSector
    BY <2>1, Exact
  <2> QED BY <1>1, <2>1, <2>2 DEF Page
<1>4. \A s \in Asked : s \in Nat /\ FirstSector <= s
  BY <1>2, AskedType, AskedBetween
<1>5. Passed'
  BY <1>2, <1>3, <1>4 DEF Passed
<1> QED BY <1>1, <1>2, <1>5 DEF Complete, Asking, Allowed, Success

(* A page that stands for the next k sectors is added to the frame. *)
LEMMA CompleteAdd ==
  ASSUME IInv, Complete, NEW p \in PageType, NEW k \in Nat \ {0},
         Covers(p) = Page .. Page + k - 1, AddPage(p, k * SectorSize)
  PROVE  Complete'
<1>1. /\ pc = "loop" /\ addr < EndOf /\ req' = req /\ wrp' = wrp /\ erased' = erased
      /\ result' = result
      /\ pages' = Append(pages, p) /\ addr' = addr + k * SectorSize
      /\ pc' \in {"loop", "erase"}
  BY DEF AddPage
<1>2. Types /\ Loop /\ Asked' = Asked
  BY <1>1 DEF IInv, Asked
<1>3. Page' = Page + k /\ Page \in Nat
  <2>1. Page \in Nat /\ addr = Page * SectorSize /\ SectorSize \in Nat \ {0}
    BY <1>1, <1>2, LoopSector
  <2>2. addr' = (Page + k) * SectorSize
    BY <1>1, <2>1
  <2>3. ((Page + k) * SectorSize) \div SectorSize = Page + k
    BY <2>1, Exact
  <2> QED BY <2>1, <2>2, <2>3 DEF Page
<1>4. /\ Len(pages) \in Nat /\ DOMAIN pages = 1 .. Len(pages)
      /\ DOMAIN pages' = 1 .. Len(pages) + 1
      /\ \A i \in 1 .. Len(pages) : pages'[i] = pages[i]
      /\ pages'[Len(pages) + 1] = p
  <2>1. pages \in Seq(PageType)
    BY <1>2 DEF Types
  <2> QED BY <1>1, <2>1, AppendProperties
<1>5. \A q : Covers(q)' = Covers(q)
  BY DEF Covers
<1>6. ASSUME NEW s \in Asked, s < Page'
      PROVE  s \in erased \/ \E i \in DOMAIN pages' : s \in Covers(pages'[i])
  <2>1. s \in Nat
    BY <1>2, AskedType
  <2>2. CASE s < Page
    BY <1>1, <1>4, <2>2 DEF Complete, Passed
  <2>3. CASE ~(s < Page)
    <3>1. s \in Covers(p)
      BY <1>3, <1>6, <2>1, <2>3
    <3>2. Len(pages) + 1 \in DOMAIN pages'
      BY <1>4
    <3> QED BY <1>4, <3>1, <3>2
  <2> QED BY <2>2, <2>3
<1>7. Passed'
  BY <1>1, <1>2, <1>5, <1>6 DEF Passed
<1> QED BY <1>1, <1>2, <1>7 DEF Complete, Asking, Allowed, Success

LEMMA CompleteErase ==
  ASSUME IInv, Complete, ErasePage
  PROVE  Complete'
<1>1. /\ pc = "erasing" /\ pc' = pc /\ pages # <<>> /\ pages' = Tail(pages)
      /\ UNCHANGED <<req, addr, wrp, result>>
      /\ erased' = IF Protected(Head(pages)) THEN erased
                   ELSE erased \cup (Covers(Head(pages)) \cap FlashRange)
  BY DEF ErasePage, FlashRange
<1>2. Types /\ pages \in Seq(PageType) /\ Asked' = Asked /\ Page' = Page
  BY <1>1 DEF IInv, Types, Asked, Page
<1>3. /\ Head(pages) = pages[1] /\ 1 \in DOMAIN pages
      /\ DOMAIN pages = 1 .. Len(pages) /\ DOMAIN pages' = 1 .. Len(pages) - 1
      /\ Len(pages) \in Nat
      /\ \A i \in DOMAIN pages' : i + 1 \in DOMAIN pages /\ pages'[i] = pages[i + 1]
  BY <1>1, <1>2, HeadTailProperties, EmptySeq
<1>4. ~Protected(Head(pages))
  BY <1>1, <1>3 DEF Complete, Allowed, MemoryErasable
<1>5. \A q : Covers(q)' = Covers(q) /\ Protected(q)' = Protected(q)
  BY <1>1 DEF Covers, Protected, SectorProtected
<1>6. Allowed'
  BY <1>1, <1>3, <1>5 DEF Complete, Allowed, MemoryErasable
<1>7. ASSUME NEW s \in Asked, s < Page
      PROVE  s \in erased' \/ \E i \in DOMAIN pages' : s \in Covers(pages'[i])
  <2>1. s \in FlashRange
    BY <1>2, AskedType
  <2>2. CASE s \in erased
    BY <1>1, <2>2
  <2>3. CASE s \notin erased
    <3>1. PICK i \in DOMAIN pages : s \in Covers(pages[i])
      BY <1>1, <1>7, <2>3 DEF Complete, Passed
    <3>2. CASE i = 1
      BY <1>1, <1>3, <1>4, <2>1, <3>1, <3>2
    <3>3. CASE i # 1
      <4>1. i - 1 \in DOMAIN pages' /\ (i - 1) + 1 = i
        BY <1>3, <3>3
      <4>2. pages'[i - 1] = pages[i]
        BY <1>3, <4>1
      <4> QED BY <3>1, <4>1, <4>2
    <3> QED BY <3>2, <3>3
  <2> QED BY <2>2, <2>3
<1>8. Passed'
  BY <1>1, <1>2, <1>5, <1>7 DEF Passed
<1>9. Success'
  BY <1>1, <1>2 DEF Complete, Success
<1> QED BY <1>1, <1>6, <1>8, <1>9 DEF Complete, Asking

(* The frame is used up: the range is, or the loop goes on. *)
LEMMA CompleteErased ==
  ASSUME IInv, Complete, Erased
  PROVE  Complete'
<1>1. /\ pc = "erasing" /\ pages = <<>>
      /\ UNCHANGED <<req, addr, pages, wrp, erased>>
      /\ \/ addr < EndOf /\ pc' = "loop" /\ result' = result
         \/ ~(addr < EndOf) /\ pc' = "done" /\ result' = "true"
  BY DEF Erased, Return
<1>2. Types /\ Loop /\ Asked' = Asked /\ Page' = Page
  BY <1>1 DEF IInv, Asked, Page
<1>3. \A s \in Asked : s < Page => s \in erased
  BY <1>1 DEF Complete, Passed
<1>4. ASSUME ~(addr < EndOf), NEW s \in Asked PROVE s < Page
  <2>1. /\ SectorSize \in Nat \ {0} /\ s \in Nat /\ s < EndSector
        /\ req.address \in Nat /\ req.length \in Nat
    BY <1>2, AskedType, AskedBetween
  <2>2. EndSector \in Nat /\ EndOf = EndSector * SectorSize
    <3>1. req.address + req.length + SectorSize - 1 \in Nat
      BY <2>1
    <3> QED BY <2>1, <3>1, Division DEF EndSector, EndOf
  <2>3. addr = Page * SectorSize /\ Page \in Nat
    <3>1. addr \in Nat
      BY <1>2 DEF Types
    <3> QED BY <1>1, <1>2, <2>1, <3>1, Division DEF Loop, Page
  <2>4. EndSector <= Page
    <3> SUFFICES ASSUME Page + 1 <= EndSector PROVE FALSE
      BY <2>2, <2>3
    <3>1. (Page + 1) * SectorSize <= EndSector * SectorSize
      BY <2>1, <2>2, <2>3, Monotone
    <3>2. (Page + 1) * SectorSize = Page * SectorSize + SectorSize
          /\ Page * SectorSize \in Nat /\ EndSector * SectorSize \in Nat
      BY <2>1, <2>2, <2>3
    <3> QED BY <1>4, <2>1, <2>2, <2>3, <3>1, <3>2
  <2> QED BY <2>1, <2>2, <2>3, <2>4
<1>5. Success'
  BY <1>1, <1>2, <1>3, <1>4 DEF Complete, Success
<1>6. Passed'
  BY <1>1, <1>2, <1>3 DEF Passed
<1> QED BY <1>1, <1>5, <1>6 DEF Complete, Asking, Allowed

(* Steps that leave the range, the frame and the sectors alone. *)
LEMMA CompleteQuiet ==
  ASSUME IInv, Complete, UNCHANGED <<req, addr, pages, wrp, erased>>,
         \/ pc' = pc /\ result' = result
         \/ pc = "erase" /\ pc' = "erasing" /\ result' = result /\ MemoryErasable
         \/ pc' = "done" /\ result' = "false"
         \/ pc' = "done" /\ result' = "true" /\ Asked = {}
  PROVE  Complete'
<1>1. Asked' = Asked /\ Page' = Page
  BY DEF Asked, Page
<1>2. \A q : Covers(q)' = Covers(q) /\ Protected(q)' = Protected(q)
  BY DEF Covers, Protected, SectorProtected
<1>3. Passed'
  BY <1>1, <1>2 DEF Complete, Passed
<1>4. Allowed'
  BY <1>2 DEF Complete, Allowed, MemoryErasable
<1>5. Success'
  BY <1>1 DEF Complete, Success
<1> QED BY <1>3, <1>4, <1>5 DEF Complete, Asking

LEMMA CompleteNext ==
  ASSUME NoWholeBlock, IInv, Complete, [Next]_vars
  PROVE  Complete'
<1>1. Types /\ Loop /\ Asking
  BY DEF IInv, Complete
<1>2. CASE EraseNothing
  <2>1. Asked = {}
    BY <1>2 DEF EraseNothing, Asked
  <2> QED BY <1>2, <2>1, CompleteQuiet DEF EraseNothing, Return
<1>3. CASE EraseBegin
  BY <1>3, CompleteBegin
<1>4. CASE OptionErase
  <2>1. Asked = {}
    BY <1>1, <1>4, OptionsAskNone DEF OptionErase
  <2> QED BY <1>4, <2>1, CompleteQuiet DEF OptionErase, Return
<1>5. CASE AddBlock
  <2>1. AtBlock /\ AddPage(Block(Page), BlockSectors * SectorSize)
        /\ pc = "loop" /\ addr < EndOf
    BY <1>5 DEF AddBlock, AddPage
  <2>2. Page = 0 /\ BlockSectors \in Nat \ {0}
    BY <1>1, <2>1, OnlyFirstBlock, Constants
  <2>3. Block(Page) \in PageType
    BY <1>1, <2>1, BlockType
  <2>4. Covers(Block(Page)) = Page .. Page + BlockSectors - 1
    BY <2>2 DEF Covers, Block
  <2> QED BY <2>1, <2>2, <2>3, <2>4, CompleteAdd
<1>6. CASE AddSector
  <2>1. pc = "loop" /\ addr < EndOf
    BY <1>6 DEF AddSector, AddPage
  <2>2. AddPage(Sector(Page), 1 * SectorSize)
    <3>1. 1 * SectorSize = SectorSize
      BY Constants
    <3> QED BY <1>6, <3>1 DEF AddSector
  <2>3. Sector(Page) \in PageType /\ Page \in Nat
    BY <1>1, <2>1, SectorWithin, LoopSector
  <2>4. Covers(Sector(Page)) = Page .. Page + 1 - 1
    BY <2>3 DEF Covers, Sector
  <2>5. 1 \in Nat \ {0}
    OBVIOUS
  <2> QED BY <2>2, <2>3, <2>4, <2>5, CompleteAdd, Zenon
<1>7. CASE Refuse
  BY <1>7, CompleteQuiet DEF Refuse, Return
<1>8. CASE Accept
  BY <1>8, CompleteQuiet DEF Accept
<1>9. CASE ErasePage
  BY <1>9, CompleteErase
<1>10. CASE Erased
  BY <1>10, CompleteErased
<1>11. CASE Returned \/ UNCHANGED vars
  BY <1>11, CompleteQuiet DEF Returned, vars
<1> QED BY <1>2, <1>3, <1>4, <1>5, <1>6, <1>7, <1>8, <1>9, <1>10, <1>11 DEF Next

(* If no request contains a whole block other than the first, success of   *)
(* uart_erase_flash means that every sector asked for was erased, whatever *)
(* the sizes, the range and the protection.                                *)
THEOREM EverythingErased ==
  ASSUME NoWholeBlock PROVE Spec => []AllErased
<1>1. Complete => AllErased
  BY DEF Complete, Success, AllErased
<1>2. IInv /\ Complete /\ [Next]_vars => (IInv /\ Complete)'
  BY NextHolds, CompleteNext
<1> QED BY <1>1, <1>2, InitHolds, CompleteInit, PTL DEF Spec
=============================================================================
