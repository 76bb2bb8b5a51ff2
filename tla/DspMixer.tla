------------------------------ MODULE DspMixer ------------------------------
(***************************************************************************)
(* What an update of the DSP adds up (dsp.c:211-227 and 556-732): the       *)
(* samples of the voices, each with its envelope and volume, the master     *)
(* volume, the filter over the echo heard, and the echo to be written.      *)
(* The numbers are the code's; a voice's sample, its envelope and every     *)
(* register are inputs, which the CPU and the notes may set to anything.    *)
(*                                                                         *)
(* The left side is modelled: the right one is computed alike, from volume  *)
(* registers and echo samples of its own.                                   *)
(***************************************************************************)
EXTENDS Integers

CONSTANTS
  Voices,    \* 8
  Taps,      \* of the filter: 8
  Samples,   \* samples of a voice
  Envs,      \* its envelope, envx
  Pitches,   \* its pitch register, 14 bits
  Volumes,   \* signed volume registers, of voices, master and echo
  Products   \* echo samples and coefficients: <<sample, coefficient>>

MinWord == -32768
MaxWord == 32767
Word16 == MinWord .. MaxWord
VolMin == -128
VolMax == 127
Vol == VolMin .. VolMax
EnvTop == 2047               \* 0x7FF
PitchTop == 16383            \* 0x3FFF
MovedTop == 32767            \* eight samples of 4096, less one

ASSUME MixerAssumption ==
  /\ Voices \in 0 .. 8 /\ Taps \in 0 .. 8
  /\ Samples \subseteq Word16
  /\ Envs \subseteq 0 .. EnvTop
  /\ Pitches \subseteq 0 .. PitchTop
  /\ Volumes \subseteq Vol
  /\ Products \subseteq Word16 \X Vol

VARIABLES
  phase,        \* "rest", "voices", "filter"
  v,            \* the next voice
  voice_outx,   \* outx: the sample of the last voice
  moved,        \* history: the last voice's pitch, as modulated
  outl, echol,  \* sums of the output and of the echo
  vl,           \* the filter's sum
  tap, gain,    \* history: taps done, and the sum of their coefficients' sizes
  heard         \* *sound_ptr

mixVars == <<phase, v, voice_outx, moved, outl, echol, vl, tap, gain, heard>>

MixInit ==
  /\ phase = "rest" /\ v = 0 /\ voice_outx = 0 /\ moved = 0
  /\ outl = 0 /\ echol = 0 /\ vl = 0 /\ tap = 0 /\ gain = 0 /\ heard = 0

-----------------------------------------------------------------------------
Clipped(x) == IF x < MinWord THEN MinWord ELSE IF x > MaxWord THEN MaxWord ELSE x
Size(c) == IF c < 0 THEN -c ELSE c

(* 32 bits are cut to this many by a shift to the right by 14. *)
Shifted32 == 262144

(* (x * c) >> 14, before its product is held in 32 bits. *)
EchoTerm(x, c) == (x \div 16384) * c + ((x % 16384) * c) \div 16384

\* mutant: the sum is cut to 16 bits before it is multiplied
EchoPart_Short(x, c) == EchoTerm(((x + 32768) % 65536) - 32768, c)
(* The product of the code: what leaves the 32 bits is lost. *)
EchoPart(x, c) == ((EchoTerm(x, c) + Shifted32 \div 2) % Shifted32) - Shifted32 \div 2

(* 2 * floor(s * e / 4096): (outx * envx) >> 11, and its last bit cleared. *)
Scaled(s, e) == 2 * ((s * e) \div 4096)

\* mutant: the modulation takes the sample without its offset
Modulated_Signed(p, x) == (p * x) \div 32768
(* Pitch modulation by the sample of the voice before. *)
Modulated(p, x) == (p * (x + 32768)) \div 32768

(* Every sum is a local of DSP_Update, and starts at 0. *)
BeginMix ==
  /\ phase = "rest" /\ phase' = "voices"
  /\ v' = 0 /\ voice_outx' = 0 /\ moved' = 0
  /\ outl' = 0 /\ echol' = 0
  /\ vl' = 0 /\ tap' = 0 /\ gain' = 0 /\ heard' = 0

SilentVoice ==
  /\ phase = "voices" /\ v < Voices
  /\ v' = v + 1 /\ voice_outx' = 0
  /\ UNCHANGED <<phase, moved, outl, echol, vl, tap, gain, heard>>

Part(x, vol) == (vol * x) \div 128

(* pmon, eon: its bits of those registers; muted: its bit of channel_mask. *)
SoundingVoice(s, env, vol, p, pmon, eon, muted) ==
  LET x == Scaled(s, env) IN
  /\ phase = "voices" /\ v < Voices
  /\ v' = v + 1 /\ voice_outx' = x
  /\ moved' = IF pmon THEN Modulated(p, voice_outx) ELSE p
  /\ outl' = IF muted THEN outl ELSE outl + Part(x, vol)
  /\ echol' = IF muted \/ ~eon THEN echol ELSE echol + Part(x, vol)
  /\ UNCHANGED <<phase, vl, tap, gain, heard>>

Master(vol) ==
  /\ phase = "voices" /\ v = Voices /\ phase' = "filter"
  /\ outl' = (outl * vol) \div 128
  /\ voice_outx' = 0 /\ moved' = 0   \* not used any more
  /\ UNCHANGED <<v, echol, vl, tap, gain, heard>>

FilterTap(s, c) ==
  /\ phase = "filter" /\ tap < Taps
  /\ vl' = vl + s * c
  /\ tap' = tap + 1 /\ gain' = gain + Size(c)
  /\ UNCHANGED <<phase, v, voice_outx, moved, outl, echol, heard>>

(* evol, efb: echo volume and feedback; no_echo, mute: bits 5 and 6 of FLG. *)
Finish(evol, efb, no_echo, mute) ==
  /\ phase = "filter" /\ tap = Taps /\ phase' = "rest"
  /\ outl' = outl + EchoPart(vl, evol)
  /\ echol' = IF no_echo THEN echol ELSE Clipped(echol + EchoPart(vl, efb))
  /\ heard' = IF mute THEN 0 ELSE Clipped(outl')
  /\ UNCHANGED <<v, voice_outx, moved, vl, tap, gain>>

MixNext ==
  \/ BeginMix \/ SilentVoice
  \/ \E s \in Samples, env \in Envs, vol \in Volumes, p \in Pitches,
        pmon, eon, muted \in BOOLEAN : SoundingVoice(s, env, vol, p, pmon, eon, muted)
  \/ \E vol \in Volumes : Master(vol)
  \/ \E pr \in Products : FilterTap(pr[1], pr[2])
  \/ \E evol, efb \in Volumes, no_echo, mute \in BOOLEAN :
       Finish(evol, efb, no_echo, mute)

MixSpec == MixInit /\ [][MixNext]_mixVars

-----------------------------------------------------------------------------
(* The sums of eight voices, and what an echo adds. *)
SumTop == 262144
EchoTop == 131072

(* No sum of an update leaves its 32 bits but the filter's times its volume:
   eight voices have 19 bits, eight taps 26; and a voice moves on by less
   than eight samples, and never back. *)
MixTypeOK ==
  /\ phase \in {"rest", "voices", "filter"}
  /\ v \in 0 .. Voices
  /\ voice_outx \in Word16
  /\ moved \in 0 .. MovedTop
  /\ outl \in -(SumTop + EchoTop) .. SumTop + EchoTop
  /\ phase # "rest" => outl \in -SumTop .. SumTop
  /\ echol \in -SumTop .. SumTop
  /\ phase = "voices" => outl \in -(v * 32768) .. v * 32768
                         /\ echol \in -(v * 32768) .. v * 32768
  /\ tap \in 0 .. Taps
  /\ gain \in 0 .. tap * 128
  /\ vl \in -(gain * 32768) .. gain * 32768
  /\ heard \in Word16

(* The product of the filter's sum and a volume fits its 32 bits (dsp.c:640),
   whatever the echo holds, as long as the sizes of the eight coefficients
   add up to no more than 511.  At 512 there is a product that does not, and
   eight registers hold up to 1024. *)
EchoExact == gain <= 511 => \A c \in Volumes : EchoPart(vl, c) = EchoTerm(vl, c)
=============================================================================
