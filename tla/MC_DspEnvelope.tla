--------------------------- MODULE MC_DspEnvelope ---------------------------
(* DspEnvelope for TLC: registers for every branch of AdvanceEnvelope.  The
   rates are 0 (never) and the fastest ones, which differ from the slow ones
   in the number of updates between two moves only. *)
EXTENDS DspEnvelope

Adsr(a1, a2) == [adsr1 |-> a1, adsr2 |-> a2, gain |-> 0]
Gain(g) == [adsr1 |-> 0, adsr2 |-> 0, gain |-> g]

AllBranches == {
  Adsr(255, 31),     \* attack at once, decay 7 to level 0, sustain rate 31
  Adsr(254, 96),     \* attack 14, decay 7 to level 3, sustain for ever
  Gain(127),         \* direct, the highest
  Gain(159), Gain(191), Gain(223), Gain(255) }   \* the moving modes, rate 31
=============================================================================
