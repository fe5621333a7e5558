---------------------------- MODULE MCDfuOptions ----------------------------
(* Two half-words of two bits; sectors 5 and 9 share the last bit, 3.        *)
EXTENDS DfuOptions, TLC

SectorSets == {{0}, {1, 2}, {5}, {3, 9}}
=============================================================================
