---------------------------- MODULE SampleClock ----------------------------
(***************************************************************************)
(* What the run loop of the library promises: the DSP is updated once       *)
(* every TsCyc cycles of the CPU (dsp.c:80-81), neither early nor late,     *)
(* however the cycles are divided among calls.  phase is the number of      *)
(* cycles the CPU has been granted since the last sample.                   *)
(***************************************************************************)
EXTENDS Naturals

CONSTANT TsCyc

VARIABLE phase

Init == phase = TsCyc           \* the first sample is due at once

Sample == phase = TsCyc /\ phase' = 0

Grant == phase < TsCyc /\ phase' \in (phase + 1) .. TsCyc

Next == Sample \/ Grant

Spec == Init /\ [][Next]_phase
=============================================================================
