--------------------------- MODULE MCLogicUpdate ---------------------------
(* The images of the example: config is compressed, config1 is not.  A       *)
(* flash of 12 sectors of two cells in blocks of four sectors: the place of  *)
(* config1 holds a whole block.                                              *)
EXTENDS LogicUpdate, TLC

TheCells == [program |-> 3, default |-> 1, config |-> 3, config1 |-> 9, decomp |-> 1]

Opt(rdp, plain, packed) == [rdp |-> rdp, plain |-> plain, packed |-> packed]
Old == [c \in 0 .. FlashCells - 1 |-> IF c < 3 THEN <<"program", c>> ELSE <<"old", c>>]

(* New, protected, and used devices; on a used one with the address of       *)
(* config1 in its option bytes the logic is not another one.                 *)
Devices ==
  {[opt |-> ErasedOpt, flash |-> AllBlank]}
  \cup {[opt |-> o, flash |-> Old] :
          o \in {Opt("zero", "ok", "none"), Opt("key", "none", "none"),
                 Opt("key", "other", "none"), Opt("key", "none", "ok"),
                 Opt("key", "none", "other"), Opt("key", "other", "ok")}}
=============================================================================
