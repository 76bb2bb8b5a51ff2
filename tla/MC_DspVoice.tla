----------------------------- MODULE MC_DspVoice -----------------------------
(* DspVoice for TLC: a key-on delay of 3 updates, blocks of 2 bytes (the four
   samples a note begins with), pitches of no sample, of part of a sample and
   of more samples than are left in a block. *)
EXTENDS DspVoice

SmallPitches == {0, 1, 7}
=============================================================================
