---------------------------- MODULE MCNetDrivers ----------------------------
(* Instances of NetDrivers for TLC. *)
EXTENDS NetDrivers

AllDrivers == {"lwip", "usb_mii", "usb_rmii"}

\* many frames; some frames and a link that changes; frames both ways; the link
AllLoads  == {[frames |-> 5, out |-> 0, changes |-> 0], [frames |-> 3, out |-> 0, changes |-> 1],
              [frames |-> 2, out |-> 3, changes |-> 0], [frames |-> 1, out |-> 0, changes |-> 3]}
=============================================================================
