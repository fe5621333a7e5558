------------------------------ MODULE BaudRate ------------------------------
(***************************************************************************)
(* How the boot loader finds the baud rate of its host (waitForInit and       *)
(* MeasureBaudRate of examples/dfu/src/boot.c).  The host sends INIT, 0x7F     *)
(* with even parity, until it gets an answer: a start bit, seven ones, a zero,*)
(* then parity and stop, which are ones.  The loader takes the times of four  *)
(* edges: the two low pulses should last a bit each, the high one between    *)
(* them seven.                                                             *)
(*                                                                         *)
(* A loader that begins to listen while a byte is on the line sees its edges  *)
(* from the zero on, and the high pulse is then that between two bytes.      *)
(***************************************************************************)
EXTENDS Integers

CONSTANTS
  Bits,     \* lengths of a bit, in ticks of INT_GetMtime
  Gaps,     \* bits between two INITs of the host
  Jitter,   \* ticks the loader may see an edge late
  MaxInits  \* bound: INITs sent

BaudAssumption ==
  Bits \subseteq Nat \ {0} /\ Gaps \subseteq Nat /\ Jitter \in Nat /\ MaxInits \in Nat

VARIABLES
  bit,       \* ticks of a bit of this host
  aligned,   \* the loader began to listen between two bytes
  gap, last, \* bits between the last two INITs, and between those before
  inits,     \* INITs measured
  uart_pulse,
  brd        \* the divisor of the UART, in 64ths; Unset until it is written

vars == <<bit, aligned, gap, last, inits, uart_pulse, brd>>

Unset == -1
Init ==
  /\ bit \in Bits /\ aligned \in BOOLEAN /\ gap = 0 /\ last = 0 /\ inits = 0
  /\ uart_pulse = 0 /\ brd = Unset

-----------------------------------------------------------------------------
Abs(n) == IF n < 0 THEN -n ELSE n

\* The pulses as the four times of an INIT give them.
HighBits(g) == IF aligned THEN 7 ELSE 2 + g

MeasureBaudRate(g, late) ==
  [lo |-> (bit + late[1] - late[0] + bit + late[3] - late[2] + 1) \div 2,
   hi |-> HighBits(g) * bit + late[2] - late[1]]

\* twice as long as the one before is enough
Accepted_Wide(p) ==
  LET pulse == p.hi + p.lo
  IN  IF 10 * p.hi < 73 * p.lo /\ 10 * p.hi > 67 * p.lo THEN pulse
      ELSE IF Abs(pulse - uart_pulse) < pulse THEN (pulse + uart_pulse + 1) \div 2
      ELSE 0
\* only the ratio counts
Accepted_Ratio(p) ==
  LET pulse == p.hi + p.lo
  IN  IF 10 * p.hi < 73 * p.lo /\ 10 * p.hi > 67 * p.lo THEN pulse ELSE 0
\* The pulse of an INIT whose high and low part have the right ratio; otherwise one
\* that lasts as long as the one before, to four in a hundred.
Accepted(p) ==
  LET pulse == p.hi + p.lo
  IN  IF 10 * p.hi < 73 * p.lo /\ 10 * p.hi > 67 * p.lo THEN pulse
      ELSE IF Abs(pulse - uart_pulse) * 25 < pulse THEN (pulse + uart_pulse + 1) \div 2
      ELSE 0

\* setupBoot: ibrd and fbrd, of which the register holds six bits.
Divisor(pulse) == 64 * (pulse \div 128) + ((((pulse % 128) + 1) \div 2) % 64)

WaitForInit ==
  /\ brd = Unset /\ inits < MaxInits /\ inits' = inits + 1
  /\ \E g \in Gaps, late \in [0 .. 3 -> 0 .. Jitter] :
       LET p == MeasureBaudRate(g, late)
       IN  /\ gap' = g /\ last' = gap
           /\ IF Accepted(p) > 0
              THEN uart_pulse' = Accepted(p) /\ brd' = Divisor(uart_pulse')
              ELSE uart_pulse' = p.hi + p.lo /\ UNCHANGED brd
  /\ UNCHANGED <<bit, aligned>>

Done == (brd # Unset \/ inits = MaxInits) /\ UNCHANGED vars
Next == WaitForInit \/ Done

Spec == Init /\ [][Next]_vars

-----------------------------------------------------------------------------
\* A bit is long enough for its edges.
BaudMargins ==
  \A b \in Bits :
    /\ 8 * b >= 128 + 2 * Jitter /\ 12 * b >= 100 * (Jitter + 1) /\ 7 * b > 83 * Jitter
    /\ 8 * b > 102 * Jitter

\* 16 * brd / 64 ticks are a bit, to three in a hundred.
Near == Abs(brd - 4 * bit) * 100 <= 3 * 4 * bit

\* The pulses of a loader that listened late may be within four in a hundred of each
\* other: the same gap twice, or two gaps that differ by less than that.
Alike(g, h) == 25 * Abs(g * bit - h * bit) < (3 + g) * bit + 102 * Jitter

\* The UART is set to the rate of the host, if the loader listened in time (waitForInit,
\* setupBoot); and also if it did not, unless the last two gaps were alike for it: then
\* it takes the length of a gap for that of a byte.  The one pulse whose fraction does not
\* fit the register is left out (uart_pulse % 128 = 127).
BaudIsRight ==
  brd # Unset /\ uart_pulse % 128 # 127 /\ (aligned \/ ~Alike(gap, last)) => Near

\* A loader that listened in time needs no more than two INITs, of the ten the master sends.
TwoInits == aligned /\ inits >= 2 => brd # Unset
=============================================================================
