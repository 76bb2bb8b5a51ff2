------------------------------ MODULE DspVoice ------------------------------
(***************************************************************************)
(* One voice of the DSP: what DSP_Update (dsp.c) does to it once per        *)
(* sample.  The CPU writes the registers between two updates (stage "cpu"); *)
(* an update goes through the stages in the order of the code: reset,       *)
(* key-on delay, KON, KOFF, envelope, decoding of the compressed (BRR)      *)
(* samples, mixing.  The amplitudes are abstracted: the envelope is a level *)
(* (DspEnvelope has its arithmetic), a sample is its number in its note,    *)
(* and a block header is any pair of end flags that RAM may hold.           *)
(***************************************************************************)
EXTENDS Integers

CONSTANTS
  OnDelay,     \* updates between KON and the start of the voice: 8
  BlockBytes,  \* data bytes of a BRR block, two samples each: 8
  Unit,        \* mixfrac of one decoded sample: 4096
  Pitches,     \* what pitch register and pitch modulation make of the pitch
  MaxLevel     \* updates a RELEASE from full level takes: 0x800 / 8

ASSUME VoiceAssumption ==
  /\ OnDelay \in Nat \ {0} /\ BlockBytes \in Nat \ {0}
  /\ Unit \in Nat \ {0} /\ Pitches \subseteq Nat
  /\ MaxLevel \in Nat \ {0}

VARIABLES
  stage,                  \* "cpu", or the stage of the update in progress
  kon, koff, endx,        \* the voice's bits of DSPregs[0x4C], [0x5C], [0x7C]
  reset,                  \* FLG bit 7
  envxShown,              \* what the voice's ENVX register holds: "level", of
                          \*   its envelope, "none", 0, or "written", what
                          \*   the program, a file or an earlier song left
  onCnt,                  \* on_cnt
  keyed,                  \* the voice's bit of keys
  envstate, level,        \* envstate ("ON" for all but RELEASE) and envx
  headerCnt, half, end,   \* header_cnt, half, end
  sampptr, frac,          \* sampptr, mixfrac
  \* history
  slots,                  \* sampbuf: the number of the sample in each slot
  decoded                 \* number of the next sample of the note, modulo 8

regs == <<kon, koff, endx, reset, envxShown>>
keys == <<onCnt, keyed>>
env == <<envstate, level>>
brr == <<headerCnt, half, end, sampptr, frac, slots, decoded>>
vars == <<stage, regs, keys, env, brr>>

Old == 8                  \* a sample of an earlier note

(* DSP_Reset, then the registers that Load copies from a file (main.cc:180,
   235) or, where it fails, those of an earlier song. *)
Init ==
  /\ stage = "cpu"
  /\ kon \in BOOLEAN /\ koff \in BOOLEAN /\ endx \in BOOLEAN /\ reset \in BOOLEAN
  /\ envxShown = "written"
  /\ onCnt = 0 /\ keyed = FALSE
  /\ envstate = "ON" /\ level = 0
  /\ headerCnt = 0 /\ half = 0 /\ end = 0
  /\ sampptr = 0 /\ frac = 0
  /\ slots = [i \in 0 .. 3 |-> Old] /\ decoded = 0

-----------------------------------------------------------------------------
(* Writes of the CPU, between updates: SPC_WRITE_DSP stores any byte in any
   register. *)

WriteKeys(on, off) ==
  /\ stage = "cpu"
  /\ kon' = on /\ koff' = off
  /\ UNCHANGED <<stage, endx, reset, envxShown, keys, env, brr>>

(* Whatever is written to ENDX clears it. *)
WriteEndx ==
  /\ stage = "cpu"
  /\ endx' = FALSE
  /\ UNCHANGED <<stage, kon, koff, reset, envxShown, keys, env, brr>>

WriteFlg(r) ==
  /\ stage = "cpu"
  /\ reset' = r
  /\ UNCHANGED <<stage, kon, koff, endx, envxShown, keys, env, brr>>

(* ENVX is the DSP's to set, but nothing keeps a program from writing to it. *)
WriteEnvx ==
  /\ stage = "cpu"
  /\ envxShown' = "written"
  /\ UNCHANGED <<stage, kon, koff, endx, reset, keys, env, brr>>

-----------------------------------------------------------------------------
(* The stages of an update. *)

(* FLG bit 7 resets the DSP at every update, and KON clears its bit in ENDX. *)
BeginUpdate ==
  /\ stage = "cpu" /\ stage' = "count"
  /\ IF reset
       THEN /\ kon' = FALSE /\ koff' = FALSE
            /\ onCnt' = 0 /\ keyed' = FALSE
            /\ UNCHANGED endx
       ELSE /\ endx' = (endx /\ ~kon)
            /\ UNCHANGED <<kon, koff, keys>>
  /\ UNCHANGED <<reset, envxShown, env, brr>>

CountedDown == onCnt - 1

\* mutant: on_cnt is compared before it is counted down
NoteDue_Post == onCnt > 0 /\ onCnt = 0
(* vp->on_cnt && ( --vp->on_cnt == 0 ) *)
NoteDue == onCnt > 0 /\ CountedDown = 0

HalfAtKeyOn == 0

\* mutant: one sample too few is decoded when a note begins
FirstFrac_Three == 2 * Unit
FirstFrac == 3 * Unit

KeyOnDelay ==
  /\ stage = "count" /\ stage' = "latch"
  /\ ~NoteDue
  /\ onCnt' = IF onCnt = 0 THEN 0 ELSE CountedDown
  /\ UNCHANGED <<regs, keyed, env, brr>>

(* on_cnt reaches 0: the note starts. *)
KeyOn ==
  /\ stage = "count" /\ stage' = "latch"
  /\ NoteDue
  /\ onCnt' = CountedDown
  /\ keyed' = TRUE
  /\ envstate' = "ON" /\ level' = 0
  /\ headerCnt' = 0 /\ half' = HalfAtKeyOn /\ end' = 0
  /\ sampptr' = 0 /\ frac' = FirstFrac
  /\ slots' = [i \in 0 .. 3 |-> Old] /\ decoded' = 0
  /\ UNCHANGED regs

(* KON is accepted, unless KOFF is set: then it stays pending. *)
AcceptKon ==
  /\ stage = "latch" /\ stage' = "off"
  /\ IF kon /\ ~koff
       THEN kon' = FALSE /\ onCnt' = OnDelay
       ELSE UNCHANGED <<kon, onCnt>>
  /\ UNCHANGED <<koff, endx, reset, envxShown, keyed, env, brr>>

\* mutant: KOFF is not looked at while a new note is on its way
KoffApplies_Idle == keyed /\ koff /\ onCnt = 0
KoffApplies == keyed /\ koff

CheckKoff ==
  /\ stage = "off" /\ stage' = "env"
  /\ IF KoffApplies
       THEN envstate' = "RELEASE" /\ onCnt' = 0
       ELSE UNCHANGED <<envstate, onCnt>>
  /\ UNCHANGED <<regs, keyed, level, brr>>

\* mutant: a released voice keeps its level
Released_Held == level
Released == level - 1

(* Silent, or AdvanceEnvelope returns -1: ENVX is 0 and nothing is decoded. *)
Silent ==
  /\ stage = "env" /\ stage' = "cpu"
  /\ ~keyed \/ (envstate = "RELEASE" /\ Released <= 0)
  /\ keyed' = FALSE
  /\ envxShown' = "none"
  /\ UNCHANGED <<kon, koff, endx, reset, onCnt, env, brr>>

AdvanceEnvelope ==
  /\ stage = "env" /\ stage' = "brr"
  /\ keyed
  /\ IF envstate = "RELEASE"
       THEN Released > 0 /\ level' = Released
       ELSE level' \in 0 .. MaxLevel
  /\ envxShown' = "level"
  /\ UNCHANGED <<kon, koff, endx, reset, keys, envstate, brr>>

-----------------------------------------------------------------------------
(* Decoding: one step for each turn of the loop over mixfrac. *)

\* mutant: the loop stops at mixfrac 0
MoreSamples_Strict == frac > 0
MoreSamples == frac >= 0

\* mutant: the ring of four samples is not closed
NextSlot_Open == sampptr + 1
NextSlot == (sampptr + 1) % 4

PutSample ==
  /\ slots' = [slots EXCEPT ![sampptr] = decoded]
  /\ decoded' = (decoded + 1) % 8
  /\ sampptr' = NextSlot
  /\ frac' = frac - Unit

EndFlag(e) == e % 2 = 1
LoopFlag(e) == e >= 2

(* A sample of the current block: the first or the second half of a byte. *)
NextNibble(h) ==
  IF half = 0 THEN half' = 1 /\ headerCnt' = h
              ELSE half' = 0 /\ headerCnt' = h - 1

DecodeInBlock ==
  /\ stage = "brr" /\ MoreSamples
  /\ headerCnt > 0
  /\ NextNibble(headerCnt)
  /\ PutSample
  /\ UNCHANGED <<stage, regs, keys, env, end>>

(* The next block, the next one in memory or the one the loop pointer names:
   its header is read before its first sample. *)
DecodeNewBlock(flags) ==
  /\ stage = "brr" /\ MoreSamples
  /\ headerCnt = 0
  /\ EndFlag(end) => LoopFlag(end)
  /\ endx' = (endx \/ EndFlag(end))
  /\ end' = flags
  /\ NextNibble(BlockBytes)
  /\ PutSample
  /\ UNCHANGED <<stage, kon, koff, reset, envxShown, keys, env>>

\* mutant: ENVX keeps its value when a sample ends
EnvxAtEnd_Kept == envxShown
EnvxAtEnd == "none"

(* The last block, not looped, has been decoded: the voice is off.  The rest
   of the samples due now are zeroes, put by FillZeroes. *)
EndOfSample ==
  /\ stage = "brr" /\ MoreSamples
  /\ headerCnt = 0 /\ EndFlag(end) /\ ~LoopFlag(end)
  /\ stage' = "fill"
  /\ endx' = TRUE
  /\ keyed' = FALSE
  /\ envxShown' = EnvxAtEnd
  /\ level' = 0
  /\ UNCHANGED <<kon, koff, reset, onCnt, envstate, brr>>

FillZeroes ==
  /\ stage = "fill" /\ frac >= 0
  /\ PutSample
  /\ UNCHANGED <<stage, regs, keys, env, headerCnt, half, end>>

DecodeDone ==
  /\ \/ stage = "brr" /\ ~MoreSamples
     \/ stage = "fill" /\ frac < 0
  /\ stage' = "mix"
  /\ UNCHANGED <<regs, keys, env, brr>>

(* Interpolation between the four samples, and on to the next position. *)
Mix(pitch) ==
  /\ stage = "mix" /\ stage' = "cpu"
  /\ frac' = frac + pitch
  /\ UNCHANGED <<regs, keys, env, headerCnt, half, end, sampptr, slots,
                 decoded>>

UpdateStep ==
  \/ BeginUpdate \/ KeyOnDelay \/ KeyOn \/ AcceptKon \/ CheckKoff
  \/ Silent \/ AdvanceEnvelope
  \/ DecodeInBlock \/ (\E flags \in 0 .. 3 : DecodeNewBlock(flags))
  \/ EndOfSample \/ FillZeroes \/ DecodeDone
  \/ \E pitch \in Pitches : Mix(pitch)

CpuWrite ==
  \/ \E on, off \in BOOLEAN : WriteKeys(on, off)
  \/ WriteEndx \/ WriteEnvx
  \/ \E r \in BOOLEAN : WriteFlg(r)

Next == CpuWrite \/ UpdateStep

Spec == Init /\ [][Next]_vars

(* Samples keep coming while the host runs the emulation. *)
FairSpec == Spec /\ WF_vars(UpdateStep)

-----------------------------------------------------------------------------
(* The voice's fields keep within their types through every stage. *)
TypeOK ==
  /\ stage \in {"cpu", "count", "latch", "off", "env", "brr", "fill", "mix"}
  /\ kon \in BOOLEAN /\ koff \in BOOLEAN /\ endx \in BOOLEAN /\ reset \in BOOLEAN
  /\ envxShown \in {"level", "none", "written"} /\ keyed \in BOOLEAN
  /\ onCnt \in 0 .. OnDelay
  /\ envstate \in {"ON", "RELEASE"} /\ level \in 0 .. MaxLevel
  /\ headerCnt \in 0 .. BlockBytes /\ half \in 0 .. 1 /\ end \in 0 .. 3
  /\ sampptr \in 0 .. 3 /\ frac \in Int
  /\ slots \in [0 .. 3 -> 0 .. Old] /\ decoded \in 0 .. 7

(* After an update that saw KOFF the voice is off or in RELEASE, also when
   its key-on delay ended in that same update (dsp.c:276-285). *)
KeyOffWins == (stage \in {"env", "brr"} /\ koff) =>
                (keyed => envstate = "RELEASE" /\ onCnt = 0)

(* Between two updates a program can tell from ENVX what became of a note: the
   register holds the level of a voice that is on, and 0 once the voice is off,
   whether it was silenced by a release, by a reset or, in the middle of the
   decoding, by the end of its sample.  What the program or a file wrote there
   stays only until the next update. *)
EnvxFollowsVoice ==
  stage = "cpu" /\ envxShown # "written" => (keyed <=> envxShown = "level")

(* When the interpolation runs, mixfrac >> 4 is an index of the Gaussian
   table: mixfrac is in -Unit .. -1 (dsp.c:502-509). *)
GaussIndex == stage = "mix" => frac \in -Unit .. -1

(* The interpolation sees, from sampptr on, the last four samples of the
   current note in order, and never one of the note before. *)
GaussWindow ==
  stage = "mix" => \A i \in 0 .. 3 :
    slots[(sampptr + i) % 4] = (decoded + 4 + i) % 8

(* A block is decoded to its last half byte: the next header is read at the
   start of a byte, also when a note was cut short in the middle of one. *)
BlockAligned == headerCnt = 0 => half = 0

(* A voice whose KOFF stays set falls silent, and stays so. *)
KeyOffSilences == <>[]koff => <>[](stage = "cpu" => ~keyed)

(* A key-on that was accepted brings its note, whatever becomes of the old one
   in the delay, unless the program keys the voice on again or off, or resets
   the DSP, before the delay is over (dsp.c:230-285). *)
NoteStarts ==
  stage = "latch" /\ keyed /\ decoded = 0 /\ slots = [i \in 0 .. 3 |-> Old]
KeyOnSounds == onCnt > 0 ~> NoteStarts \/ kon \/ koff \/ reset

=============================================================================
