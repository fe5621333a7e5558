------------------------------ MODULE UartWire ------------------------------
(***************************************************************************)
(* The serial line between the programming master (uart_master.c) and the  *)
(* boot loader (boot.c, BOOT_INTERFACE 1): the bytes under way in the two  *)
(* directions, the codes both sides use and the frames the master sends.   *)
(***************************************************************************)
EXTENDS Integers, Sequences, SequencesExt, Bitwise

CONSTANT FifoLen          (* bytes the loader's UART holds (UART_LCR_FIFO_16) *)

VARIABLES
  fifo,   (* bytes sent to the loader and not read by it yet                 *)
  rxq,    (* bytes sent to the master and not read by it yet                 *)
  up      (* the loader's UART is enabled; what is sent otherwise is lost     *)

ACK   == 121   (* 0x79 *)
NACK  == 31    (* 0x1F *)
INIT  == 127   (* 0x7F *)
GET   == 0
GVR   == 1
GID   == 2
RM    == 17    (* 0x11 *)
RE    == 19    (* 0x13 *)
WM    == 49    (* 0x31 *)
WE    == 51    (* 0x33 *)
EE    == 68    (* 0x44 *)
UR    == 146   (* 0x92 *)
RESET == 162   (* 0xA2 *)

(* The exclusive or of bytes, a half byte at a time. *)
XorHalf == [x \in 0 .. 15, y \in 0 .. 15 |-> x ^^ y]
XorByte(x, y) == 16 * XorHalf[x \div 16, y \div 16] + XorHalf[x % 16, y % 16]
XorOf(bytes) ==
  LET upTo[i \in 0 .. Len(bytes)] == IF i = 0 THEN 0 ELSE XorByte(upTo[i - 1], bytes[i])
  IN  upTo[Len(bytes)]
Summed(bytes) == Append(bytes, XorOf(bytes))

FlashBase == <<128, 0, 0>>   (* the high bytes of FLASH_BASE = 0x80000000     *)

(* Mutant: the length is sent twice instead of with its complement. *)
LenFrame_NoComplement(n) == <<n - 1, n - 1>>

CmdFrame(c)       == <<c, 255 - c>>
AddrFrame(a)      == Summed(Append(FlashBase, a))
LenFrame(n)       == <<n - 1, 255 - (n - 1)>>           (* uart_send_bytes, no data *)
DataFrame(data)   == Summed(<<Len(data) - 1>> \o data)
HalfWord(x)       == <<x \div 256, x % 256>>
WideFrame(n, data) == Summed(HalfWord(n - 1) \o data)    (* more than DFU_MAX_FRAME *)
PageFrame(pages)  ==                                    (* uart_send_data16 *)
  Summed(HalfWord(Len(pages) - 1) \o
         FlattenSeq([i \in 1 .. Len(pages) |-> HalfWord(pages[i])]))

(* Bytes that arrive while the loader's FIFO is full are lost. *)
Send(bytes) ==
  LET q == fifo \o bytes
  IN  fifo' = IF ~up THEN fifo
              ELSE IF Len(q) <= FifoLen THEN q ELSE SubSeq(q, 1, FifoLen)
Reply(bytes) == rxq' = rxq \o bytes
=============================================================================
