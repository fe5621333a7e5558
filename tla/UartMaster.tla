----------------------------- MODULE UartMaster -----------------------------
(***************************************************************************)
(* The programming master of uart_master.c writing an image: uart_init,    *)
(* uart_update_program and uart_final, called one after the other whether  *)
(* they succeed or not, as example/main.c does.  A call is a list of items *)
(* still to do; the first that fails ends it (ENSURE).                     *)
(***************************************************************************)
EXTENDS UartWire

CONSTANTS
  Image,          (* the bytes to write at FLASH_BASE                        *)
  Frame,          (* DFU_MAX_FRAME                                           *)
  ExtRd, ExtWr,   (* 4 and 16: frames in an extended read or write           *)
  Attempts        (* INIT: times uart_init_seq sends 0x7F                    *)

VARIABLES
  call,           (* the call in progress                                    *)
  todo,           (* what is left of it                                      *)
  ok,             (* no item of it has failed                                *)
  attempt,        (* 0x7F sent by uart_init_seq                              *)
  slow,           (* the baud rate is DFU_SLOW_BAUD, the version not known   *)
  done,           (* bytes of the image written or verified                  *)
  rd, wr,         (* uart_extended_rd and uart_extended_wr                   *)
  heard,          (* what uart_rx last returned                              *)
  result          (* of uart_update_program                                  *)

hostVars == <<call, todo, ok, attempt, slow, rd, wr, done, heard, result>>

-----------------------------------------------------------------------------
(* The items of a call.  "list" receives as many bytes as the one received *)
(* before says, plus one.                                                  *)
Tx(bytes) == [do |-> "tx", bytes |-> bytes]
Ack       == [do |-> "ack"]
Rx(n)     == [do |-> "rx", n |-> n]
RxList    == [do |-> "list"]

SendCmd(c)       == <<Tx(CmdFrame(c)), Ack>>
SendAddr(a)      == <<Tx(AddrFrame(a)), Ack>>
(* uart_send_bytes sends nothing at all for a length of 0. *)
SendBytes(n, short, wide) == IF n = 0 THEN <<>> ELSE <<Tx(IF n <= Frame THEN short ELSE wide)>>
ReadMemoryAt(a, n) ==
  SendCmd(IF n <= Frame THEN RM ELSE RE) \o SendAddr(a)
    \o SendBytes(n, LenFrame(n), WideFrame(n, <<>>)) \o <<Ack, Rx(n)>>
WriteMemoryAt(a, data) ==
  SendCmd(IF Len(data) <= Frame THEN WM ELSE WE) \o SendAddr(a)
    \o SendBytes(Len(data), DataFrame(data), WideFrame(Len(data), data)) \o <<Ack>>

Min2(x, y) == IF x <= y THEN x ELSE y

(* Mutant: the buffer is not advanced with the address. *)
Chunk_NotAdvanced(from, size) == SubSeq(Image, 1, Min2(size, Len(Image) - from))

Chunk(from, size) == SubSeq(Image, from + 1, Min2(from + size, Len(Image)))
MaxRlen == Frame * rd                                   (* DFU_MAX_RLEN *)
MaxWlen == Frame * wr                                   (* DFU_MAX_WLEN *)

Script(c, from) ==
  CASE c = "init_seq"  -> <<Tx(<<INIT>>), Ack>>
    [] c = "get"       -> SendCmd(GET) \o <<Rx(1), RxList, Ack>>
    [] c = "protected" -> ReadMemoryAt(0, 1)
    [] c = "unlock"    -> SendCmd(UR) \o <<Ack>>
    [] c = "reset"     -> SendCmd(RESET) \o <<Ack>>
    [] c = "erase"     -> SendCmd(EE) \o <<Tx(PageFrame(<<0>>)), Ack>>
    [] c = "write"     -> WriteMemoryAt(from, Chunk(from, MaxWlen))
    [] c = "verify"    -> ReadMemoryAt(from, Len(Chunk(from, MaxRlen)))

Doing(what) == ok /\ todo # <<>> /\ Head(todo).do = what
Next1       == todo' = Tail(todo)

TxItem ==
  /\ Doing("tx")
  /\ Send(Head(todo).bytes) /\ Next1
  /\ UNCHANGED <<rxq, up, call, ok, attempt, slow, rd, wr, done, heard, result>>

(* uart_get_ack: any other byte is taken for a refusal. *)
AckItem ==
  /\ Doing("ack") /\ rxq # <<>>
  /\ rxq' = Tail(rxq)
  /\ ok' = (Head(rxq) = ACK) /\ Next1
  /\ UNCHANGED <<fifo, up, call, attempt, slow, rd, wr, done, heard, result>>

Wanted == IF Doing("rx") THEN Head(todo).n ELSE heard[1] + 1
RxItem ==
  /\ Doing("rx") \/ Doing("list")
  /\ Len(rxq) >= Wanted
  /\ heard' = SubSeq(rxq, 1, Wanted)
  /\ rxq' = SubSeq(rxq, Wanted + 1, Len(rxq)) /\ Next1
  /\ UNCHANGED <<fifo, up, call, ok, attempt, slow, rd, wr, done, result>>

(* The bytes an item waits for have not come; uart_rx drops what did. *)
Waiting ==
  \/ Doing("ack") /\ rxq = <<>>
  \/ (Doing("rx") \/ Doing("list")) /\ Len(rxq) < Wanted
Timeout ==
  /\ Waiting
  /\ ok' = FALSE /\ rxq' = <<>>
  /\ UNCHANGED <<fifo, up, call, todo, attempt, slow, rd, wr, done, heard, result>>

-----------------------------------------------------------------------------
(* A call returns, and the next one is made. *)
Succeeded(c) == call = c /\ ok /\ todo = <<>>
Failed(c)    == call = c /\ ~ok
Begin(c, from) ==
  /\ call' = c /\ todo' = Script(c, from) /\ ok' = TRUE /\ done' = from
  /\ heard' = <<>>

(* uart_init0: uart_init_seq resets the master's UART first. *)
Init0(fast) ==
  /\ Begin("init_seq", 0)
  /\ attempt' = 1 /\ slow' = ~fast /\ rxq' = <<>>
  /\ UNCHANGED <<fifo, up, rd, wr, result>>

Goto(c, from) == Begin(c, from) /\ UNCHANGED <<fifo, rxq, up, attempt, slow, rd, wr, result>>

(* Mutant: the attempts are not counted. *)
RetryInit_Uncounted ==
  /\ Failed("init_seq") /\ attempt < Attempts
  /\ Begin("init_seq", 0)
  /\ UNCHANGED <<fifo, rxq, up, attempt, slow, rd, wr, result>>

RetryInit ==
  /\ Failed("init_seq") /\ attempt < Attempts
  /\ Begin("init_seq", 0) /\ attempt' = attempt + 1
  /\ UNCHANGED <<fifo, rxq, up, slow, rd, wr, result>>

GetInfo        == Succeeded("init_seq") /\ Goto("get", 0)
CheckProtected ==
  /\ Succeeded("get")
  /\ LET codes == {heard[i] : i \in 2 .. Len(heard)}
     IN  /\ rd' = IF RE \in codes THEN ExtRd ELSE 1
         /\ wr' = IF WE \in codes THEN ExtWr ELSE 1
  /\ Begin("protected", 0) /\ UNCHANGED <<fifo, rxq, up, attempt, slow, result>>
Unlock         == Failed("protected") /\ Goto("unlock", 0)
UnlockedInit   == Succeeded("unlock") /\ Init0(TRUE)
ResetToFast    == Succeeded("protected") /\ slow /\ Goto("reset", 0)
FastInit       == Succeeded("reset") /\ Init0(TRUE)

(* uart_init returned; the application goes on in any case. *)
UpdateProgram ==
  /\ \/ Failed("init_seq") /\ attempt = Attempts
     \/ \E c \in {"get", "unlock", "reset"} : Failed(c)
     \/ Succeeded("protected") /\ ~slow
  /\ Goto("erase", 0)

EraseDone == Succeeded("erase") /\ Goto("write", 0)
WriteMore ==
  /\ Succeeded("write") /\ done + MaxWlen < Len(Image)
  /\ Goto("write", done + MaxWlen)
VerifyMemory ==
  /\ Succeeded("write") /\ done + MaxWlen >= Len(Image)
  /\ Goto("verify", 0)

Matches == heard = Chunk(done, MaxRlen)
VerifyMore ==
  /\ Succeeded("verify") /\ Matches /\ done + MaxRlen < Len(Image)
  /\ Goto("verify", done + MaxRlen)

Return(value) ==
  /\ result' = value
  /\ call' = "final" /\ todo' = <<>> /\ ok' = TRUE /\ done' = 0 /\ heard' = <<>>
  /\ UNCHANGED <<fifo, rxq, up, attempt, slow, rd, wr>>
UpdateTrue ==
  /\ Succeeded("verify") /\ Matches /\ done + MaxRlen >= Len(Image)
  /\ Return("true")
UpdateFalse ==
  /\ \/ \E c \in {"erase", "write", "verify"} : Failed(c)
     \/ Succeeded("verify") /\ ~Matches
  /\ Return("false")

Master ==
  \/ TxItem \/ AckItem \/ RxItem
  \/ RetryInit \/ GetInfo \/ CheckProtected \/ Unlock \/ UnlockedInit \/ ResetToFast
  \/ FastInit \/ UpdateProgram \/ EraseDone \/ WriteMore \/ VerifyMemory \/ VerifyMore
  \/ UpdateTrue \/ UpdateFalse
=============================================================================
