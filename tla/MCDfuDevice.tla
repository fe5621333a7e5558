---------------------------- MODULE MCDfuDevice ----------------------------
(* Instances of DfuDevice for TLC: two 4-byte sectors and a third beyond    *)
(* them, blocks of up to 8 bytes.                                           *)
EXTENDS DfuDevice, TLC

(* Aligned writes of every kind of length, and unaligned ones whose block  *)
(* ends in a partial word.                                                 *)
OrdinaryReqs == {<<0, 8>>, <<4, 6>>, <<4, 2>>, <<8, 4>>, <<1, 4>>}

(* For any host: whole words, a block with a first and a last part of a    *)
(* word, one whose words are copied from the stack and end it, and one     *)
(* that ends at the first word boundary.                                   *)
AnyReqs == {<<0, 8>>, <<1, 4>>, <<1, 7>>, <<1, 3>>}
=============================================================================
