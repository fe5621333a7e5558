----------------------------- MODULE MCAhb2Apb -----------------------------
(* A word write, a byte write, a half-word write and a read, to two words.  *)
EXTENDS Ahb2Apb

MCTransfers ==
  {[word |-> 0, low |-> 0, size |-> 2, write |-> TRUE,  data |-> 1],
   [word |-> 0, low |-> 1, size |-> 0, write |-> TRUE,  data |-> 0],
   [word |-> 1, low |-> 2, size |-> 1, write |-> TRUE,  data |-> 1],
   [word |-> 1, low |-> 0, size |-> 2, write |-> FALSE, data |-> 0]}
MCRatios == {1, 2}
AllMargins == SUBSET BothWays
=============================================================================
