---------------------------- MODULE MCRamDesigns ----------------------------
(* Two bursts of four words.                                                *)
EXTENDS RamDesigns
=============================================================================
