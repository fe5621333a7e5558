------------------------------ MODULE DfuEntry ------------------------------
(***************************************************************************)
(* main() of dfu.c, from reset to the application or the boot loader.      *)
(* The decision spans two starts: mscratch, which a reset leaves alone,    *)
(* tells the second start that the first one has decided for the           *)
(* application.  FPGA configuration and clocks are set by every reset.     *)
(***************************************************************************)
EXTENDS Naturals

CONSTANTS
  Builds,         (* the combinations of DFU_APP_ADDRESS, DFU_FPGA_CONFIG and
                     the button to consider                                  *)
  MaxEvents       (* bound: power cycles, external resets and button changes *)

ASSUME EntryAssumption ==
  /\ Builds \subseteq [app : BOOLEAN, fpga : BOOLEAN, button : BOOLEAN]
  /\ MaxEvents \in Nat

Magic == {"none", "dfu", "app", "other"}   (* 0, DFU_MSCRATCH, its complement, else *)

VARIABLES
  pc,             (* where main is; or the program it has started            *)
  build,          (* what was defined when main was compiled                 *)
  por,            (* the power-on reset flag                                 *)
  mscratch,       (* the register                                            *)
  scratch,        (* the local of main it was read into                      *)
  fpga,           (* the FPGA configuration: the user's, DFU_FPGA_CONFIG, or
                     what the power-on load left when the user's is corrupt  *)
  corrupt,        (* the user's FPGA configuration in flash is corrupt       *)
  clocks,         (* APB_CLKENABLE is as after a reset, or only the FCB runs *)
  pressed,        (* the button                                              *)
  events,         (* disturbances so far                                     *)
  seen,           (* history: the button was read since a program last ran   *)
  asked,          (* history: the application has asked for the loader       *)
  leftover        (* history: an external reset came when the power-on flag
                     was cleared and mscratch not yet, and main has not read
                     it since, or has believed it                            *)

histories == <<seen, asked, leftover>>
vars == <<pc, build, por, mscratch, scratch, fpga, corrupt, clocks, pressed, events, histories>>

-----------------------------------------------------------------------------
(* Every reset loads the FPGA from flash and resets the clock enables;     *)
(* mscratch is not touched by it.                                          *)
Reset ==
  /\ pc' = "start"
  /\ fpga' = IF corrupt THEN "corrupt" ELSE "user"
  /\ clocks' = "reset"

(* Mutant: the register is read before the power-on flag is looked at. *)
ClearAfterPowerOn_Late ==
  /\ pc = "start" /\ build.app
  /\ pc' = "read" /\ por' = FALSE
  /\ UNCHANGED <<build, mscratch, scratch, fpga, corrupt, clocks, pressed, events, histories>>

(* After power on the register holds anything, and means nothing.  The flag *)
(* that tells is cleared first, the register next.                         *)
ClearAfterPowerOn ==
  /\ pc = "start" /\ build.app
  /\ pc' = IF por THEN "clear" ELSE "read"
  /\ por' = FALSE
  /\ UNCHANGED <<build, mscratch, scratch, fpga, corrupt, clocks, pressed, events, histories>>

ClearScratch ==
  /\ pc = "clear" /\ pc' = "read" /\ mscratch' = "none"
  /\ UNCHANGED <<build, por, scratch, fpga, corrupt, clocks, pressed, events, histories>>

(* The message is taken out of the register: it works once. *)
ReadScratch ==
  /\ pc = "read"
  /\ scratch' = mscratch /\ mscratch' = "none"
  /\ pc' = IF scratch' = "app" THEN "app" ELSE "configure"
  /\ leftover' = (leftover /\ scratch' = "app")
  /\ UNCHANGED <<build, por, fpga, corrupt, clocks, pressed, events, seen, asked>>

(* Without an application there is nothing to decide. *)
NoApplication ==
  /\ pc = "start" /\ ~build.app /\ pc' = "configure"
  /\ UNCHANGED <<build, por, mscratch, scratch, fpga, corrupt, clocks, pressed, events, histories>>

(* Mutant: the user's configuration is kept. *)
MinimalConfig_Skip ==
  /\ pc = "configure" /\ pc' = IF build.app THEN "button" ELSE "enter"
  /\ clocks' = IF build.fpga THEN "fcb" ELSE clocks
  /\ UNCHANGED <<build, por, mscratch, scratch, fpga, corrupt, pressed, events, histories>>

(* FCB_AutoDecompress; apb_clken was saved before. *)
MinimalConfig ==
  /\ pc = "configure" /\ pc' = IF build.app THEN "button" ELSE "enter"
  /\ IF build.fpga THEN fpga' = "minimal" /\ clocks' = "fcb" ELSE UNCHANGED <<fpga, clocks>>
  /\ UNCHANGED <<build, por, mscratch, scratch, corrupt, pressed, events, histories>>

Button ==
  /\ pc = "button"
  /\ pc' = IF build.button /\ pressed THEN "enter" ELSE "software"
  /\ seen' = TRUE
  /\ UNCHANGED <<build, por, mscratch, scratch, fpga, corrupt, clocks, pressed, events, asked, leftover>>

(* Mutant: what is left in the register now is looked at. *)
SoftwareDfu_Reread ==
  /\ pc = "software"
  /\ pc' = IF mscratch = "dfu" THEN "enter" ELSE "decided"
  /\ UNCHANGED <<build, por, mscratch, scratch, fpga, corrupt, clocks, pressed, events, histories>>

SoftwareDfu ==
  /\ pc = "software"
  /\ pc' = IF scratch = "dfu" THEN "enter" ELSE "decided"
  /\ UNCHANGED <<build, por, mscratch, scratch, fpga, corrupt, clocks, pressed, events, histories>>

(* Mutants: jump at once; the register is written too late. *)
Decide_Jump ==
  /\ pc = "decided" /\ pc' = "app"
  /\ UNCHANGED <<build, por, mscratch, scratch, fpga, corrupt, clocks, pressed, events, histories>>

Decide_Forget ==
  /\ pc = "decided" /\ pc' = "restart" /\ UNCHANGED mscratch
  /\ UNCHANGED <<build, por, scratch, fpga, corrupt, clocks, pressed, events, histories>>

Decide ==
  /\ pc = "decided" /\ pc' = "restart" /\ mscratch' = "app"
  /\ UNCHANGED <<build, por, scratch, fpga, corrupt, clocks, pressed, events, histories>>

Restart ==
  /\ pc = "restart" /\ Reset
  /\ UNCHANGED <<build, por, mscratch, scratch, corrupt, pressed, events, histories>>

(* enter_boot restores the clocks before it calls boot(). *)
EnterBoot ==
  /\ pc = "enter" /\ pc' = "boot" /\ clocks' = "reset" /\ asked' = FALSE
  /\ UNCHANGED <<build, por, mscratch, scratch, fpga, corrupt, pressed, events, seen, leftover>>

Main ==
  \/ ClearAfterPowerOn \/ ClearScratch \/ ReadScratch \/ NoApplication \/ MinimalConfig \/ Button
  \/ SoftwareDfu \/ Decide \/ Restart \/ EnterBoot

-----------------------------------------------------------------------------
(* The running programs.  The application resets the device, with whatever *)
(* it has put into mscratch, the magic value to ask for the loader; the    *)
(* loader has written flash, so the user's configuration may be corrupt.   *)
AppReset(m) ==
  /\ pc = "app" /\ Reset
  /\ mscratch' = m /\ asked' = (m = "dfu") /\ seen' = FALSE /\ leftover' = FALSE
  /\ UNCHANGED <<build, por, scratch, corrupt, pressed, events>>

BootReset ==
  /\ pc = "boot" /\ Reset
  /\ seen' = FALSE /\ leftover' = FALSE
  /\ UNCHANGED <<build, por, mscratch, scratch, corrupt, pressed, events, asked>>

BootWrites ==
  /\ pc = "boot" /\ corrupt' \in BOOLEAN \ {corrupt}
  /\ UNCHANGED <<pc, build, por, mscratch, scratch, fpga, clocks, pressed, events, histories>>

Event == events < MaxEvents /\ events' = events + 1

PowerCycle ==
  /\ Event /\ Reset
  /\ por' = TRUE /\ mscratch' \in Magic /\ scratch' = "none"
  /\ seen' = FALSE /\ asked' = FALSE /\ leftover' = FALSE
  /\ UNCHANGED <<build, corrupt, pressed>>

(* An external reset; mscratch survives it. *)
ExternalReset ==
  /\ Event /\ Reset
  /\ asked' = (asked /\ mscratch = "dfu")
  /\ seen' = IF pc \in {"app", "boot"} THEN FALSE ELSE seen
  /\ leftover' = (pc = "clear" \/ (leftover /\ pc \in {"start", "read"}))
  /\ UNCHANGED <<build, por, mscratch, scratch, corrupt, pressed>>

Press ==
  /\ Event /\ pressed' = ~pressed
  /\ UNCHANGED <<pc, build, por, mscratch, scratch, fpga, corrupt, clocks, histories>>

Init ==
  /\ pc = "start" /\ build \in Builds /\ por = TRUE /\ mscratch \in Magic
  /\ scratch = "none" /\ corrupt \in BOOLEAN
  /\ fpga = (IF corrupt THEN "corrupt" ELSE "user")
  /\ clocks = "reset" /\ pressed \in BOOLEAN /\ events = 0
  /\ seen = FALSE /\ asked = FALSE /\ leftover = FALSE

Next ==
  \/ Main \/ (\E m \in {"none", "dfu", "other"} : AppReset(m)) \/ BootReset \/ BootWrites
  \/ PowerCycle \/ ExternalReset \/ Press

Spec == Init /\ [][Next]_vars /\ WF_vars(Main)

-----------------------------------------------------------------------------
(* Used by the proofs only. *)
TypeOK ==
  /\ pc \in {"start", "clear", "read", "configure", "button", "software", "decided", "restart",
             "enter", "app", "boot"}
  /\ build \in Builds /\ por \in BOOLEAN /\ mscratch \in Magic /\ scratch \in Magic
  /\ fpga \in {"user", "minimal", "corrupt"} /\ corrupt \in BOOLEAN
  /\ clocks \in {"reset", "fcb"} /\ pressed \in BOOLEAN /\ events \in 0 .. MaxEvents
  /\ seen \in BOOLEAN /\ asked \in BOOLEAN /\ leftover \in BOOLEAN

(* The application is started as a reset would start it: never with the    *)
(* configuration or the clocks that main has set up for the loader (the    *)
(* comment at "Set mscratch so that next time dfu will go straight to      *)
(* application").                                                          *)
AppUntouched == pc = "app" => fpga # "minimal" /\ clocks = "reset"

(* The loader works whatever is in the flash: it has its own configuration *)
(* and the clocks it was started with.                                     *)
LoaderWorks == pc = "boot" => (build.fpga => fpga = "minimal") /\ clocks = "reset"

(* Whatever mscratch held when power came on, and wherever in main or in a *)
(* program a reset came, the application is not started before the button  *)
(* was looked at ("It will remain in DFU if the defined button is pressed  *)
(* when power on") - with one exception, which the code allows.  A reset   *)
(* between the clearing of the flag (dfu.c:40) and that of the register    *)
(* (41) leaves the register as it was at power on, and nothing tells any   *)
(* more: if that is the message for the second start, it is believed.      *)
ButtonFirst == pc = "app" => seen \/ leftover

(* An application that asks for the loader gets it and is not started      *)
(* again instead, unless the request is lost with a reset or the power.    *)
AskedForLoader == pc = "app" => ~asked

(* Every start leads to a program: main does not reset the device for ever.*)
Settles == []<>(pc \in {"app", "boot"})
=============================================================================
