---------------------------- MODULE MCEraseFlash ----------------------------
(* A flash of 12 sectors of 2 bytes in blocks of 4 sectors; frames of 3.     *)
EXTENDS EraseFlash, TLC

Protections == {{}, {2}, {5}}

HoldsBlock(r) ==
  \E b \in 1 .. 2 : r[1] <= 8 * b + 1 /\ r[1] + r[2] > 8 * b + 6

(* Every range of the flash, and ranges in the option bytes; the ranges     *)
(* that contain no whole block but the first.                               *)
AllRanges == {r \in (0 .. 23) \X (0 .. 24) : r[1] + r[2] <= 24} \cup {<<32, 4>>, <<33, 1>>}
NoBlocks  == {r \in AllRanges : ~HoldsBlock(r)}
=============================================================================
