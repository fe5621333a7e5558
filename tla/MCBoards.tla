------------------------------- MODULE MCBoards -------------------------------
(* Instances of the programs of a board for TLC.                            *)
EXTENDS Boards

(* Every combination of the definitions of platformio.ini.                    *)
AllBuilds == [app : BOOLEAN, fpga : BOOLEAN, button : BOOLEAN]

-----------------------------------------------------------------------------
(* The USB device.                                                          *)
Intervals == [not_mounted |-> 1, mounted |-> 2, suspended |-> 3]

\* an echo with strings asked for in between; the bus, with the LED
EchoAndBus == {[bytes |-> 5, changes |-> 0, asks |-> 2, clock |-> FALSE],
               [bytes |-> 0, changes |-> 3, asks |-> 0, clock |-> TRUE]}
\* the language, a short string, a long one and one that is too long
Lengths == <<1, 2, 3, 5>>

ImageBlocks == [b \in 0 .. 2 |-> "image"]

-----------------------------------------------------------------------------
Keyboard == [id |-> 0, usage |-> "keyboard"]
Mouse    == [id |-> 0, usage |-> "mouse"]

\* interfaces with a mouse, a keyboard and other controls, of which the last is not
\* parsed; a keyboard without boot protocol, and one whose descriptor is too long
Controls == <<[id |-> 1, usage |-> "mouse"], [id |-> 2, usage |-> "keyboard"], [id |-> 3, usage |-> "other"]>>
Boot(report) == [protocol |-> report.usage, sends |-> <<report>>, parsed |-> <<>>]
Combined == [protocol |-> "none", sends |-> Controls, parsed |-> SubSeq(Controls, 1, 2)]
Simple   == [protocol |-> "none", sends |-> <<Keyboard>>, parsed |-> <<Keyboard>>]
Unparsed == [Simple EXCEPT !.parsed = <<>>]

\* keys on two boot keyboards, with shift, and more of them than fit; keys with another
\* keyboard there; any devices, no keys
KeysAndDevices ==
  {[devices |-> {Boot(Keyboard)}, at |-> {1, 2}, keys |-> {"a", "f1"}, pressed |-> 2, shift |-> FALSE],
   [devices |-> {Boot(Keyboard)}, at |-> {1, 2}, keys |-> {"a"}, pressed |-> 1, shift |-> TRUE],
   [devices |-> {Boot(Keyboard)}, at |-> {1}, keys |-> {"a", "b", "c"}, pressed |-> 3, shift |-> FALSE],
   [devices |-> {Boot(Keyboard), Combined}, at |-> {1, 2}, keys |-> {"a"}, pressed |-> 2, shift |-> FALSE],
   [devices |-> {Boot(Mouse), Combined, Simple, Unparsed}, at |-> {1, 2}, keys |-> {}, pressed |-> 0,
    shift |-> FALSE]}

\* a device that stays; one that goes; two sticks
ConsoleAndSticks ==
  {[chars |-> 5, nuls |-> 2, packets |-> 0, unplugs |-> FALSE, sticks |-> {}],
   [chars |-> 3, nuls |-> 0, packets |-> 1, unplugs |-> TRUE, sticks |-> {"s1"}],
   [chars |-> 0, nuls |-> 0, packets |-> 0, unplugs |-> TRUE, sticks |-> {"s1", "s2"}]}

-----------------------------------------------------------------------------
\* a question of several packets with an answer as long as the FIFO, which takes
\* several packets; a short one of a single byte; and several exchanges in a row
Short == <<[ask |-> 4, answer |-> 4]>>
Exchanges == {<<[ask |-> 5, answer |-> 4], [ask |-> 2, answer |-> 1]>>,
              <<[ask |-> 2, answer |-> 1], [ask |-> 3, answer |-> 3], [ask |-> 1, answer |-> 2]>>,
              Short}

\* 49 .. 52 cycles a frame are right; steps of different sizes, the largest allowed one
\* among them; the first frame is short or long, and one left out adds its cycles
Rates == [n \in 0 .. 6 |-> <<41, 44, 46, 49, 51, 54, 56>>[n + 1]]
LeftOut == {0, 20, 100, 400}

\* a bit so short that an edge seen late spoils the ratio, and others, one of which gives
\* pulses on both sides of a multiple of 128; INITs without a gap, with one that makes
\* the high pulse seven bits, and with longer ones, two of which are nearly the same
BitLengths == {20, 48, 69, 139}
InitGaps   == {0, 5, 12, 60, 61, 100}

-----------------------------------------------------------------------------
ASSUME MarginsHold == Trim!TrimMargins /\ Baud!BaudMargins

Quiet ==
  [device |-> <<"otg", [bytes |-> 5, changes |-> 0, asks |-> 2, clock |-> FALSE]>>,
   hid    |-> <<"otg", CHOOSE l \in KeysAndDevices : l.shift>>,
   host   |-> CHOOSE l \in ConsoleAndSticks : l.packets = 1,
   loader |-> <<"i2c", Short, [at |-> 1, send |-> 4, await |-> 4]>>,
   trim   |-> 3,
   baud   |-> <<TRUE, 69>>]
=============================================================================
