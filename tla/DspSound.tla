------------------------------ MODULE DspSound ------------------------------
(***************************************************************************)
(* The amplitudes of DSP_Update: the decoder of a voice, the noise          *)
(* generator and the mixer.  They hand one number to each other, the sample *)
(* of a voice, which the mixer takes to be any; so a behaviour follows one  *)
(* of the three parts, and the others rest.                                 *)
(***************************************************************************)
EXTENDS DspDecoder, DspNoise, DspMixer

VARIABLE part   \* the part that is followed

soundVars == <<part, decVars, noiseVars, mixVars>>

SoundInit ==
  /\ part \in {"decoder", "noise", "mixer"}
  /\ DecInit /\ NoiseInit /\ MixInit

DecoderStep == part = "decoder" /\ DecNext /\ UNCHANGED <<part, noiseVars, mixVars>>
NoiseStep == part = "noise" /\ NoiseNext /\ UNCHANGED <<part, decVars, mixVars>>
MixerStep == part = "mixer" /\ MixNext /\ UNCHANGED <<part, decVars, noiseVars>>

SoundNext == DecoderStep \/ NoiseStep \/ MixerStep

SoundSpec == SoundInit /\ [][SoundNext]_soundVars

(* The numbers of each part stay within their widths. *)
SoundTypeOK == DecTypeOK /\ NoiseTypeOK /\ MixTypeOK
=============================================================================
