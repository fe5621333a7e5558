------------------------------- MODULE OscTrim -------------------------------
(***************************************************************************)
(* The boot loader over USB on a board without a crystal (examples/dfu/src/  *)
(* boot.c, BOARD_HSE_NONE): osc_sof_cb, called at every start of frame of the *)
(* host (SOF, each ms), counts the cycles of SOF_COUNT frames and moves the   *)
(* oscillator by one step of CFG_RCOSCCAL when they are too few or too many.  *)
(*                                                                         *)
(* External: how fast the oscillator runs at a setting, and a frame that the  *)
(* host leaves out or that is the first after the counter was started, which  *)
(* counts any number of cycles.                                             *)
(***************************************************************************)
EXTENDS Integers, FiniteSetsExt

CONSTANTS
  Rate,      \* setting |-> cycles of a frame; its domain is that of CFG_RCOSCCAL
  SofCount,  \* SOF_COUNT: 10
  SofMin,    \* sof_min, sof_max: the cycles of SofCount frames that are right
  SofMax,
  Jitter,    \* cycles a frame may count more or fewer
  Strange,   \* what a frame counts that the host left out, or the first
  MaxStrange \* bound: how many of them

Settings == DOMAIN Rate
Right(n) == SofCount * Rate[n] \in SofMin .. SofMax

\* A step is smaller than the range of right settings, which lies inside the settings.
TrimAssumption ==
  /\ Max(Settings) \in Nat /\ Settings = 0 .. Max(Settings)
  /\ \A n \in Settings : Rate[n] \in Nat \ {0} /\ (n > 0 => Rate[n - 1] < Rate[n])
  /\ {SofCount, SofMin, SofMax} \subseteq Nat \ {0} /\ Jitter \in Nat /\ MaxStrange \in Nat
  /\ Strange \subseteq Nat
  /\ \A n \in Settings \ {0} : SofCount * (Rate[n] - Rate[n - 1]) <= SofMax - SofMin
  /\ SofCount * Rate[0] < SofMin /\ SofMax < SofCount * Rate[Max(Settings)]

VARIABLES
  cal,      \* osc_cfg.CFG_RCOSCCAL
  before,   \* the setting when the last frame began
  count, cycles,
  strange,  \* frames that were strange so far
  odd       \* there is one among the frames counted in cycles

vars == <<cal, before, count, cycles, strange, odd>>

\* A setting the board was made with: not one of those at the end.
Init ==
  /\ cal \in Settings \ {0, Max(Settings)} /\ before = cal
  /\ count = 0 /\ cycles = 0 /\ strange = 0 /\ odd = FALSE

-----------------------------------------------------------------------------
\* What the counter shows after a frame in which the setting may have changed.
Counted ==
  LET r == {Rate[before], Rate[cal]}
  IN  Max({0, Min(r) - Jitter}) .. Max(r) + Jitter

\* the other way round
Step_Reversed(n) == IF n < SofMin THEN -1 ELSE IF n > SofMax THEN 1 ELSE 0
Step(n) == IF n < SofMin THEN 1 ELSE IF n > SofMax THEN -1 ELSE 0

\* the sum is not cleared
OscSofCb_Keeps(n) ==
  /\ before' = cal /\ cycles' = cycles + n
  /\ \/ count + 1 < SofCount /\ count' = count + 1 /\ UNCHANGED cal
     \/ count + 1 = SofCount /\ count' = 0 /\ cal' = (cal + Step(cycles + n)) % (Max(Settings) + 1)
\* the handler; the field has as many settings as Rate
OscSofCb(n) ==
  /\ before' = cal
  /\ \/ count + 1 < SofCount /\ count' = count + 1 /\ cycles' = cycles + n /\ UNCHANGED cal
     \/ /\ count + 1 = SofCount /\ count' = 0 /\ cycles' = 0
        /\ cal' = (cal + Step(cycles + n)) % (Max(Settings) + 1)

Frame ==
  /\ \E n \in Counted : OscSofCb(n)
  /\ odd' = (odd /\ count' # 0) /\ UNCHANGED strange

StrangeFrame ==
  /\ strange < MaxStrange /\ strange' = strange + 1
  /\ \E n \in Strange : OscSofCb(n)
  /\ odd' = (count' # 0)

Next == Frame \/ StrangeFrame

Spec == Init /\ [][Next]_vars

(* The host sends frames.                                                   *)
FairSpec == Spec /\ WF_vars(Next)

-----------------------------------------------------------------------------
\* Steps from a setting to the nearest right one.
Distance(n) ==
  Min({IF m < n THEN n - m ELSE m - n : m \in {k \in Settings : Right(k)}})

\* Ten frames in a row that the host really sent never move the oscillator away from the
\* frequency it should have, although the setting changes while a frame is counted.
NeverWorse ==
  [][count' = 0 /\ ~odd /\ UNCHANGED strange => Distance(cal') <= Distance(cal)]_vars

\* The frames are counted so well that the highest right setting is not taken for one that
\* is too slow, nor the lowest for one that is too fast: the setting before, which may
\* have changed by one and at the ends goes round, has counted in the first frame.
Neighbours(n) == {n, (n + 1) % (Max(Settings) + 1), (n - 1) % (Max(Settings) + 1)}
Fewest(b, n) == (SofCount - 1) * Rate[n] + (IF Rate[b] < Rate[n] THEN Rate[b] ELSE Rate[n]) - SofCount * Jitter
Most(b, n)   == (SofCount - 1) * Rate[n] + (IF Rate[b] > Rate[n] THEN Rate[b] ELSE Rate[n]) + SofCount * Jitter
TrimMargins ==
  \A n \in Settings : \A b \in Neighbours(n) :
    /\ SofCount * Rate[n] >= SofMin /\ ~(n + 1 \in Settings /\ Right(n + 1)) => Fewest(b, n) >= SofMin
    /\ SofCount * Rate[n] <= SofMax /\ ~(n - 1 \in Settings /\ Right(n - 1)) => Most(b, n) <= SofMax

\* From any setting, and whatever the frames the host left out have done to it, it comes
\* as near to the frequency as the counting can tell, and stays there.
InTune == {n \in Settings : SofCount * Rate[n] \in SofMin - SofCount * Jitter
                                                   .. SofMax + SofCount * Jitter}
Settles == <>[](cal \in InTune)
=============================================================================
