------------------------------ MODULE DspNoise ------------------------------
(***************************************************************************)
(* The noise generator, one for all voices (dsp.c:215-223, 495-501): a      *)
(* counter timed like the envelopes', and a shift register of 15 bits.      *)
(* The CPU may change its rate, or reset the DSP, between any two updates.  *)
(***************************************************************************)
EXTENDS DspRates

CONSTANT NoiseCounts   \* values of ENVCNT that the noise rate selects

Top == 16384           \* 0x4000
FullPeriod == 32767

ASSUME NoiseAssumption == NoiseCounts \subseteq 0 .. CntInit

VARIABLES
  noise_cnt, noise_lev,
  moves   \* history: moves of the register since a reset, modulo its period

noiseVars == <<noise_cnt, noise_lev, moves>>

NoiseInit == noise_cnt = 0 /\ noise_lev = Top /\ moves = 0

-----------------------------------------------------------------------------
Bit0(x) == x % 2
Bit1(x) == (x \div 2) % 2

\* mutant: the register is fed with its last bit alone
NextLevel_OneTap(x) == Top * Bit0(x) + x \div 2
(* ((x << 13) ^ (x << 14)) & 0x4000 | x >> 1 *)
NextLevel(x) == Top * ((Bit0(x) + Bit1(x)) % 2) + x \div 2

NoiseUpdate(count) ==
  IF noise_cnt - count <= 0
    THEN /\ noise_cnt' = CntInit
         /\ noise_lev' = NextLevel(noise_lev)
         /\ moves' = (moves + 1) % FullPeriod
    ELSE /\ noise_cnt' = noise_cnt - count
         /\ UNCHANGED <<noise_lev, moves>>

(* DSP_Reset. *)
NoiseReset == noise_cnt' = 0 /\ noise_lev' = Top /\ moves' = 0

NoiseNext == NoiseReset \/ \E count \in NoiseCounts : NoiseUpdate(count)

(* What a voice with its bit in NON is given: (short)(noise_lev << 1). *)
NoiseSample == IF noise_lev >= Top THEN 2 * noise_lev - 65536 ELSE 2 * noise_lev

NoiseTypeOK ==
  /\ noise_cnt \in 0 .. CntInit
  /\ noise_lev \in 1 .. FullPeriod
  /\ moves \in 0 .. FullPeriod - 1

(* The register never runs into 0, where it would stay, and does not repeat
   itself before it has gone through all of its other 32767 values. *)
NoiseFullPeriod == noise_lev # 0 /\ (noise_lev = Top <=> moves = 0)
=============================================================================
