---------------------------- MODULE MC_DspSound -----------------------------
(* DspSound for TLC.  A note of five samples in blocks of two, loud enough to
   wrap; every position of noise; three voices and every filter whose eight
   products are at their limits or nothing. *)
EXTENDS DspSound, GaussTable

LoudHeaders ==
  {[range |-> 12, filter |-> f] : f \in 0 .. 3} \cup {[range |-> 13, filter |-> 0]}

Past(s1, s2) == [smp1 |-> s1, smp2 |-> s2]
Pasts == {Past(0, 0), Past(32766, -32768), Past(-32768, -32768)}

(* The ends of the curve and its middle. *)
SomePositions == {-256, -255, -128, -1}

(* The fastest rate, half of it, and none. *)
SomeCounts == {0, 15360, 30720}

EnvEnds == {0, 2047}
SampleEnds == {-32768, 32767}
VolumeEnds == {-128, 127}
ExtremeProducts == {<<-32768, 64>>, <<-32768, -128>>, <<32767, 63>>, <<0, -128>>}

ExtremeNibbles == {-8, 7}
PitchEnds == {0, 16383}
=============================================================================
