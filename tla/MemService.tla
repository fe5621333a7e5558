----------------------------- MODULE MemService -----------------------------
(***************************************************************************)
(* What the loader's memory commands promise a host: a memory that changes *)
(* only by whole blocks and whole sectors, and that a read returns as it   *)
(* is.  It is flash: a block sets the bytes that are erased, leaves those   *)
(* of a protected sector, and spoils the others.  No DMA, no buffers, no    *)
(* flash controller.                                                       *)
(***************************************************************************)
EXTENDS Integers

CONSTANTS Addr, SectorSize, WRPR, Reqs, Blocks, Erased, Garbage

VARIABLES store, rd

Init == store = [a \in Addr |-> Erased] /\ rd = store

(* Block b, all of it, at address r[1], is accepted. *)
Write(r, b) ==
  /\ store' = [a \in Addr |->
       IF a \notin r[1] .. (r[1] + r[2] - 1) \/ a \div SectorSize \in WRPR THEN store[a]
       ELSE IF store[a] \in {Erased, <<b, a - r[1]>>} THEN <<b, a - r[1]>>
       ELSE Garbage]
  /\ UNCHANGED rd

EraseSector(s) ==
  /\ s \notin WRPR
  /\ store' = [a \in Addr |-> IF a \div SectorSize = s THEN Erased ELSE store[a]]
  /\ UNCHANGED rd

Read == rd' = store /\ UNCHANGED store

Next ==
  \/ \E r \in Reqs, b \in Blocks : Write(r, b)
  \/ \E s \in {a \div SectorSize : a \in Addr} : EraseSector(s)
  \/ Read

Spec == Init /\ [][Next]_<<store, rd>>
=============================================================================
