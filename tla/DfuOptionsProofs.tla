-------------------------- MODULE DfuOptionsProofs --------------------------
(***************************************************************************)
(* Acknowledged protection is in force and option half-words are only      *)
(* programmed blank: for any number of half-words and bits in them, any    *)
(* sectors asked for, and any number of commands and power failures.       *)
(***************************************************************************)
EXTENDS DfuOptions, TLAPS

HalfWords == 0 .. WrpBytes - 1
Names     == {"none", "WP", "UW", "RP", "UR", "OO", "RESET"}
Places    == {"idle", "ack", "erase", "erased", "wp_program", "rp_program",
              "ur_enable", "ur_program", "reset"}
Commands  == [name : Names, sectors : SUBSET Nat]

Types ==
  /\ pc \in Places /\ ret \in {"ack", "wp_program", "ur_enable"}
  /\ cmd \in Commands /\ acked \in Commands
  /\ next \in Nat /\ rdp \in {"word", "erased", "zero"}
  /\ wrp \in [HalfWords -> SUBSET (0 .. LastBit)]
  /\ wrpr \subseteq 0 .. LastBit
  /\ regs.wrpr \subseteq 0 .. LastBit
  /\ regs = [wrpr |-> regs.wrpr, protected |-> regs.protected]

(* Which command is where: what runs between two idle moments, and that    *)
(* nothing but idling and the reset follows an acknowledgement.            *)
Progress ==
  /\ pc \in {"erase", "erased"} =>
       \/ cmd.name = "WP" /\ ret = "wp_program" /\ before.regs # {}
       \/ cmd.name \in {"UW", "OO"} /\ ret = "ack"
       \/ cmd.name = "UR" /\ ret = "ur_enable"
  /\ pc = "wp_program" => cmd.name = "WP"
  /\ pc = "rp_program" => cmd.name = "RP"
  /\ pc \in {"ur_enable", "ur_program"} => cmd.name = "UR"
  /\ acked.name # "none" => pc \in {"idle", "reset"}
  /\ cmd.name = "RP" /\ pc \in {"rp_program", "ack"} => wrp = before.wrp
  /\ pc \notin {"idle", "reset"} => before.regs = regs.wrpr

(* FLASH->WRPR is never behind the option bytes while a command may use it, *)
(* so that an empty register means blank half-words.                       *)
Loaded ==
  /\ pc \in {"idle", "erase", "rp_program", "ur_enable", "ur_program"}
       => Zeros \subseteq regs.wrpr
  /\ pc = "ack" /\ cmd.name # "WP" => Zeros \subseteq regs.wrpr
  /\ pc = "erased" => Zeros = {}
  /\ pc = "wp_program" /\ optpg => \A i \in HalfWords : i >= next => wrp[i] = {}

(* How far the command being carried out has got with the option bytes.    *)
Programmed ==
  /\ pc = "wp_program" /\ before.regs = {} =>
       optpg /\ wrpr = BitsOf(cmd.sectors)
       /\ \A i \in HalfWords : i < next => wrpr \cap Bits(i) \subseteq wrp[i]
  /\ pc = "rp_program" => optpg
  /\ pc = "erased" => rdp = "erased"
  /\ pc \in {"ur_enable", "ur_program"} => rdp = "erased"
  /\ pc = "ur_program" => optpg

(* What an acknowledged command has done to the option bytes. *)
Done(c) ==
  /\ c.name = "WP" /\ before.regs = {} => BitsOf(c.sectors) \subseteq Zeros
  /\ c.name = "UW" => Zeros = {}
  /\ c.name = "RP" => rdp = "zero" /\ wrp = before.wrp
  /\ c.name = "UR" => rdp = "word"

Acknowledged ==
  /\ pc = "ack" => Done(cmd)
  /\ Done(acked)
  /\ pc = "idle" /\ acked.name \notin {"none", "OO"} =>
       Zeros = regs.wrpr /\ regs.protected = (rdp # "word")

IInv == Types /\ Progress /\ Loaded /\ Programmed /\ Acknowledged

LEMMA HalfWordsNat == WrpBytes \in Nat /\ 0 \in HalfWords /\ LastBit \in Nat
BY OptionsAssumption DEF HalfWords, LastBit

(* Every bit of WRPR lies in one of the half-words. *)
LEMMA SomeHalfWord ==
  ASSUME NEW x \in 0 .. LastBit
  PROVE  \E i \in HalfWords : x \in Bits(i)
<1> DEFINE i == x \div WrpBits
<1>1. WrpBits \in Nat /\ WrpBits > 0 /\ WrpBytes \in Nat /\ x \in Nat
  BY OptionsAssumption
<1>2. i \in Nat /\ x >= i * WrpBits /\ x < i * WrpBits + WrpBits
  BY <1>1
<1>3. x < WrpBytes * WrpBits
  BY <1>1 DEF LastBit
<1> HIDE DEF i
<1>4. i < WrpBytes
  <2>1. SUFFICES ASSUME i >= WrpBytes PROVE FALSE
    BY <1>1, <1>2
  <2>2. i * WrpBits >= WrpBytes * WrpBits
    BY <1>1, <1>2, <2>1
  <2> QED BY <1>1, <1>2, <1>3, <2>2
<1>5. x \in Bits(i)
  BY <1>1, <1>2 DEF Bits
<1> QED BY <1>1, <1>2, <1>4, <1>5 DEF HalfWords

LEMMA BitsInRange ==
  ASSUME NEW S \in Requests
  PROVE  BitsOf(S) \subseteq 0 .. LastBit
<1>1. ASSUME NEW s \in Nat PROVE Bit(s) \in 0 .. LastBit
  BY HalfWordsNat DEF Bit
<1> QED BY <1>1, OptionsAssumption DEF BitsOf

LEMMA InitIInv == Init => IInv
BY OptionsAssumption, HalfWordsNat
   DEF Init, IInv, Types, Progress, Loaded, Programmed, Acknowledged, Done, None,
       Places, Names, Commands, HalfWords

(* The commands: none of them changes the option bytes when it arrives. *)
LEMMA ReceiveIInv ==
  ASSUME IInv,
         (\E S \in Requests : WriteProtectCmd(S)) \/ WriteUnprotectCmd \/ ReadProtectCmd
           \/ ReadUnprotectCmd \/ EraseOptionBytesCmd \/ ResetDeviceCmd
  PROVE  IInv'
<1> USE OptionsAssumption, HalfWordsNat
    DEF IInv, Types, Progress, Loaded, Programmed, Acknowledged, Done, None, Places,
        Names, Commands, Receive, Zeros, HalfWords
<1>1. ASSUME NEW S \in Requests, WriteProtectCmd(S) PROVE IInv'
  <2>1. BitsOf(S) \subseteq 0 .. LastBit /\ S \subseteq Nat
    BY BitsInRange
  <2>2. Types'
    <3>1. /\ wrpr' = regs.wrpr \cup BitsOf(S) /\ next' = 0 /\ ret' = "wp_program"
          /\ cmd' = [name |-> "WP", sectors |-> S] /\ acked' = None
          /\ pc' \in {"ack", "erase", "wp_program"}
          /\ UNCHANGED <<rdp, wrp, regs>>
      BY <1>1 DEF WriteProtectCmd
    <3>2. cmd' \in Commands /\ acked' \in Commands
      BY <2>1, <3>1
    <3> QED BY <2>1, <3>1, <3>2
  <2>3. Progress'  BY <1>1 DEF WriteProtectCmd
  <2>4. Loaded'
    <3>1. /\ pc' \in {"ack", "erase", "wp_program"} /\ cmd'.name = "WP"
          /\ pc' = "wp_program" => regs.wrpr = {}
          /\ UNCHANGED <<wrp, regs>>
      BY <1>1 DEF WriteProtectCmd
    <3>2. Zeros \subseteq regs.wrpr
      BY <1>1 DEF WriteProtectCmd
    <3>3. regs.wrpr = {} => \A i \in HalfWords : wrp[i] = {}
      BY <3>2
    <3> QED BY <3>1, <3>2, <3>3
  <2>5. Programmed'
    <3>1. CASE pc' = "wp_program" /\ before'.regs = {}
      <4>1. wrpr' = BitsOf(S) /\ cmd'.sectors = S /\ optpg' /\ next' = 0
        BY <1>1, <3>1 DEF WriteProtectCmd
      <4> QED BY <3>1, <4>1
    <3> QED BY <1>1, <3>1 DEF WriteProtectCmd
  <2>6. Acknowledged'
    <3>1. /\ cmd' = [name |-> "WP", sectors |-> S] /\ acked' = None
          /\ before'.regs = regs.wrpr /\ pc' # "idle" /\ wrp' = wrp
          /\ pc' = "ack" => regs.wrpr = regs.wrpr \cup BitsOf(S)
      BY <1>1 DEF WriteProtectCmd
    <3>2. pc' = "ack" => Done(cmd)'
      BY <3>1
    <3>3. Done(acked)'
      BY <3>1
    <3> QED BY <3>1, <3>2, <3>3
  <2> QED BY <2>2, <2>3, <2>4, <2>5, <2>6
<1>2. CASE WriteUnprotectCmd
  <2>1. /\ cmd' = [name |-> "UW", sectors |-> {}] /\ acked' = None
        /\ before' = [wrp |-> wrp, regs |-> regs.wrpr] /\ ret' = "ack"
        /\ pc' = IF regs.wrpr = {} THEN "ack" ELSE "erase"
        /\ UNCHANGED <<wrpr, next, optpg, rdp, wrp, regs>>
    BY <1>2 DEF WriteUnprotectCmd
  <2>2. Types' /\ Progress'
    BY <2>1
  <2>3. Zeros \subseteq regs.wrpr
    BY <1>2 DEF WriteUnprotectCmd
  <2>4. Loaded' /\ Programmed'
    BY <2>1, <2>3
  <2>5. Acknowledged'
    <3>1. pc' = "ack" => Done(cmd)'
      <4>1. pc' = "ack" => Zeros' = {}
        <5>1. Zeros' = Zeros
          BY <2>1
        <5>2. pc' = "ack" => regs.wrpr = {}
          BY <2>1
        <5> QED BY <2>3, <5>1, <5>2, Zenon
      <4>2. cmd'.name = "UW"
        BY <2>1
      <4> QED BY <4>1, <4>2
    <3>2. Done(acked)' /\ pc' # "idle"
      BY <2>1
    <3> QED BY <3>1, <3>2
  <2> QED BY <2>2, <2>4, <2>5
<1>3. CASE ReadProtectCmd
  <2>1. /\ cmd' = [name |-> "RP", sectors |-> {}] /\ acked' = None
        /\ before' = [wrp |-> wrp, regs |-> regs.wrpr]
        /\ pc' = "rp_program" /\ optpg'
        /\ UNCHANGED <<ret, wrpr, next, rdp, wrp, regs>>
    BY <1>3 DEF ReadProtectCmd
  <2>2. Types' /\ Progress'
    BY <2>1
  <2>3. Loaded' /\ Programmed' /\ Acknowledged'
    BY <1>3, <2>1 DEF ReadProtectCmd
  <2> QED BY <2>2, <2>3
<1>4. CASE ReadUnprotectCmd    BY <1>4 DEF ReadUnprotectCmd
<1>5. CASE EraseOptionBytesCmd BY <1>5 DEF EraseOptionBytesCmd
<1>6. CASE ResetDeviceCmd      BY <1>6 DEF ResetDeviceCmd
<1> QED BY <1>1, <1>2, <1>3, <1>4, <1>5, <1>6

LEMMA StepIInv == ASSUME IInv, Step PROVE IInv'
<1> USE HalfWordsNat
    DEF IInv, Types, Progress, Loaded, Programmed, Acknowledged, Done, Places, Names,
        Commands, Zeros
<1>1. CASE FlashOptErase BY <1>1 DEF FlashOptErase, Empty, HalfWords
<1>2. CASE OptErased     BY <1>2 DEF OptErased
<1>3. CASE WpProgram
  <2>1. next \in HalfWords /\ next' = next + 1 /\ cmd.name = "WP"
    BY <1>3 DEF WpProgram, HalfWords
  <2>2. /\ \A i \in HalfWords : i # next => wrp'[i] = wrp[i]
        /\ wrp'[next] = IF optpg THEN wrp[next] \cup (wrpr \cap Bits(next)) ELSE wrp[next]
        /\ wrp' \in [HalfWords -> SUBSET (0 .. LastBit)]
    BY <1>3, <2>1 DEF WpProgram
  <2>3. Types'        BY <1>3, <2>1, <2>2 DEF WpProgram
  <2>4. Progress'     BY <1>3, <2>1 DEF WpProgram
  <2>5. Loaded'       BY <1>3, <2>1, <2>2 DEF WpProgram, HalfWords
  <2>6. Programmed'   BY <1>3, <2>1, <2>2 DEF WpProgram, HalfWords
  <2>7. Acknowledged' BY <1>3, <2>1 DEF WpProgram
  <2> QED BY <2>3, <2>4, <2>5, <2>6, <2>7
<1>4. CASE WpDone        BY <1>4, SomeHalfWord DEF WpDone, HalfWords
<1>5. CASE RpProgram     BY <1>5 DEF RpProgram
<1>6. CASE UrEnable      BY <1>6 DEF UrEnable
<1>7. CASE UrProgram     BY <1>7 DEF UrProgram
<1>8. CASE Ack           BY <1>8 DEF Ack
<1>9. CASE Load          BY <1>9 DEF Load
<1> QED BY <1>1, <1>2, <1>3, <1>4, <1>5, <1>6, <1>7, <1>8, <1>9 DEF Step

LEMMA NextIInv == IInv /\ [Next]_vars => IInv'
<1> SUFFICES ASSUME IInv, [Next]_vars PROVE IInv'
  OBVIOUS
<1>1. CASE Power
  BY <1>1 DEF Power, IInv, Types, Progress, Loaded, Programmed, Acknowledged, Done,
              Places, Zeros
<1>2. CASE Finished \/ UNCHANGED vars
  BY <1>2 DEF Finished, vars, IInv, Types, Progress, Loaded, Programmed, Acknowledged,
              Done, Zeros
<1> QED BY <1>1, <1>2, StepIInv, ReceiveIInv DEF Next

LEMMA Invariant == Spec => []IInv
BY InitIInv, NextIInv, PTL DEF Spec

(* A change of protection that was acknowledged is in force after the      *)
(* reset, whatever power failures came before the command.                 *)
THEOREM ProtectionAlwaysHonoured == Spec => []ProtectionHonoured
<1>1. IInv => ProtectionHonoured
  BY DEF IInv, Types, Acknowledged, Done, ProtectionHonoured, Since, BitsOf
<1> QED BY <1>1, Invariant, PTL

(* No half-word of the write protection is programmed twice between erases. *)
THEOREM AlwaysBlankFirst == Spec => BlankFirst
<1>1. IInv /\ [Next]_vars =>
        [\A i \in DOMAIN wrp : wrp'[i] # wrp[i] => wrp[i] = {} \/ wrp'[i] = {}]_vars
  <2> SUFFICES ASSUME IInv, Next, NEW i \in HalfWords, wrp'[i] # wrp[i]
              PROVE  wrp[i] = {} \/ wrp'[i] = {}
    BY DEF IInv, Types, vars
  <2>1. CASE WpProgram
    BY <2>1 DEF WpProgram, IInv, Types, Loaded
  <2>2. CASE FlashOptErase
    BY <2>2 DEF FlashOptErase, Empty, HalfWords
  <2> QED
    BY <2>1, <2>2 DEF Next, Step, OptErased, WpDone, RpProgram, UrEnable, UrProgram, Ack,
       Load, WriteProtectCmd, WriteUnprotectCmd, ReadProtectCmd, ReadUnprotectCmd,
       EraseOptionBytesCmd, ResetDeviceCmd, Receive, Power, Finished, vars
<1> QED BY <1>1, Invariant, PTL DEF Spec, BlankFirst
=============================================================================
