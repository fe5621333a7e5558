----------------------------- MODULE MCUartLink -----------------------------
(* An image of three bytes in frames of one, with the codes of ACK and of   *)
(* read-unprotect among its bytes, over a memory that holds other data.  An *)
(* extended write takes the whole of it, an extended read two bytes.        *)
EXTENDS UartLink, TLC

TheImage == <<121, 146, 18>>
MaxLens  == [e \in BOOLEAN |-> [read |-> IF e THEN 1024 ELSE 256, write |-> IF e THEN 4096 ELSE 256]]
OldBytes == [a \in 0 .. 3 |-> 64]
=============================================================================
