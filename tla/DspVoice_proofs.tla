--------------------------- MODULE DspVoice_proofs ---------------------------
(***************************************************************************)
(* Proofs about DspVoice for every key-on delay, block length, resolution   *)
(* of the sample position and set of pitches.                               *)
(***************************************************************************)
EXTENDS DspVoice, TLAPS

USE VoiceAssumption DEF VoiceAssumption

(* mixfrac is never below the position of the last sample decoded. *)
FracInv ==
  /\ frac >= -Unit
  /\ stage = "mix" => frac < 0

(* The register ENVX from the envelope on until the next update begins: what
   the program or a file wrote there is gone until the program writes again. *)
ShownInv ==
  /\ stage = "brr" => keyed
  /\ stage \in {"brr", "fill", "mix"} => envxShown # "written"
  /\ stage \in {"cpu", "brr", "fill", "mix"} /\ envxShown # "written"
        => (keyed <=> envxShown = "level")

IInv == TypeOK /\ FracInv /\ ShownInv /\ KeyOffWins /\ BlockAligned

LEMMA InitInv == Init => IInv
<1> SUFFICES ASSUME Init PROVE IInv
  OBVIOUS
<1>1. slots \in [0 .. 3 -> 0 .. Old] /\ decoded \in 0 .. 7
  BY DEF Init, Old
<1>2. /\ kon \in BOOLEAN /\ koff \in BOOLEAN /\ endx \in BOOLEAN
      /\ reset \in BOOLEAN /\ keyed \in BOOLEAN
  BY Zenon DEF Init
<1>3. TypeOK
  BY <1>1, <1>2, SMT DEF Init, TypeOK
<1> QED BY <1>3 DEF Init, IInv, FracInv, ShownInv, KeyOffWins, BlockAligned

LEMMA PutSampleType ==
  ASSUME TypeOK, FracInv, PutSample, frac >= 0
  PROVE  /\ slots' \in [0 .. 3 -> 0 .. Old] /\ decoded' \in 0 .. 7
         /\ sampptr' \in 0 .. 3
         /\ frac' \in Int /\ frac' >= -Unit
<1>1. slots' \in [0 .. 3 -> 0 .. Old]
  BY DEF TypeOK, PutSample, Old
<1>2. decoded' \in 0 .. 7
  BY DEF TypeOK, PutSample
<1>3. sampptr' \in 0 .. 3
  BY DEF TypeOK, PutSample, NextSlot
<1> QED BY <1>1, <1>2, <1>3 DEF TypeOK, FracInv, PutSample

LEMMA NextNibbleType ==
  ASSUME TypeOK, NEW h \in 1 .. BlockBytes, NextNibble(h)
  PROVE  /\ headerCnt' \in 0 .. BlockBytes /\ half' \in 0 .. 1
         /\ BlockAligned'
  BY DEF TypeOK, NextNibble, BlockAligned

LEMMA NextInv == IInv /\ [Next]_vars => IInv'
<1> SUFFICES ASSUME IInv, [Next]_vars PROVE IInv'
  OBVIOUS
<1> USE DEF IInv
<1>1. ASSUME NEW on \in BOOLEAN, NEW off \in BOOLEAN, WriteKeys(on, off)
      PROVE  IInv'
  BY <1>1 DEF WriteKeys, TypeOK, FracInv, ShownInv, KeyOffWins, BlockAligned,
              keys, env, brr
<1>2. CASE WriteEndx
  BY <1>2 DEF WriteEndx, TypeOK, FracInv, ShownInv, KeyOffWins, BlockAligned,
              keys, env, brr
<1>2e. CASE WriteEnvx
  BY <1>2e DEF WriteEnvx, TypeOK, FracInv, ShownInv, KeyOffWins, BlockAligned,
               keys, env, brr
<1>3. ASSUME NEW r \in BOOLEAN, WriteFlg(r) PROVE IInv'
  BY <1>3 DEF WriteFlg, TypeOK, FracInv, ShownInv, KeyOffWins, BlockAligned,
              keys, env, brr
<1>4. CASE BeginUpdate
  <2>0. /\ kon' \in BOOLEAN /\ koff' \in BOOLEAN /\ endx' \in BOOLEAN
        /\ keyed' \in BOOLEAN
    BY <1>4, Zenon DEF BeginUpdate, TypeOK, keys
  <2>1. TypeOK'
    BY <1>4, <2>0 DEF BeginUpdate, TypeOK, keys, env, brr
  <2> QED BY <1>4, <2>1 DEF BeginUpdate, TypeOK, FracInv, ShownInv, KeyOffWins,
                            BlockAligned, keys, env, brr
<1>5. CASE KeyOnDelay
  <2>1. TypeOK'
    BY <1>5 DEF KeyOnDelay, NoteDue, CountedDown, TypeOK, regs, env, brr
  <2> QED BY <1>5, <2>1 DEF KeyOnDelay, FracInv, ShownInv, KeyOffWins,
                            BlockAligned, regs, env, brr
<1>6. CASE KeyOn
  <2>1. slots' \in [0 .. 3 -> 0 .. Old] /\ onCnt' = 0 /\ frac' = 3 * Unit
    BY <1>6 DEF KeyOn, NoteDue, CountedDown, FirstFrac, Old, TypeOK
  <2> QED BY <1>6, <2>1 DEF KeyOn, HalfAtKeyOn, TypeOK, FracInv, ShownInv,
                            KeyOffWins, BlockAligned, regs
<1>7. CASE AcceptKon
  <2>0. kon' \in BOOLEAN
    BY <1>7, Zenon DEF AcceptKon, TypeOK
  <2>1. TypeOK'
    BY <1>7, <2>0 DEF AcceptKon, TypeOK, env, brr
  <2> QED BY <1>7, <2>1 DEF AcceptKon, FracInv, ShownInv, KeyOffWins,
                            BlockAligned, env, brr
<1>8. CASE CheckKoff
  <2>1. TypeOK'
    BY <1>8 DEF CheckKoff, TypeOK, regs, brr
  <2> QED BY <1>8, <2>1 DEF CheckKoff, KoffApplies, TypeOK, FracInv, ShownInv,
                            KeyOffWins, BlockAligned, regs, brr
<1>9. CASE Silent
  BY <1>9 DEF Silent, TypeOK, FracInv, ShownInv, KeyOffWins, BlockAligned,
              env, brr
<1>10. CASE AdvanceEnvelope
  <2>1. level' \in 0 .. MaxLevel
    BY <1>10 DEF AdvanceEnvelope, Released, TypeOK
  <2> QED BY <1>10, <2>1 DEF AdvanceEnvelope, TypeOK, FracInv, ShownInv,
                             KeyOffWins, BlockAligned, keys, brr
<1>11. CASE DecodeInBlock
  <2>1. headerCnt \in 1 .. BlockBytes /\ frac >= 0 /\ stage = "brr"
    BY <1>11 DEF DecodeInBlock, MoreSamples, TypeOK
  <2>2. /\ headerCnt' \in 0 .. BlockBytes /\ half' \in 0 .. 1 /\ BlockAligned'
    BY <1>11, <2>1, NextNibbleType DEF DecodeInBlock
  <2>3. /\ slots' \in [0 .. 3 -> 0 .. Old] /\ decoded' \in 0 .. 7
        /\ sampptr' \in 0 .. 3 /\ frac' \in Int /\ frac' >= -Unit
    BY <1>11, <2>1, PutSampleType DEF DecodeInBlock
  <2> QED BY <1>11, <2>1, <2>2, <2>3
          DEF DecodeInBlock, TypeOK, FracInv, ShownInv, KeyOffWins,
              regs, keys, env
<1>12. ASSUME NEW flags \in 0 .. 3, DecodeNewBlock(flags) PROVE IInv'
  <2>1. BlockBytes \in 1 .. BlockBytes /\ frac >= 0 /\ stage = "brr"
    BY <1>12 DEF DecodeNewBlock, MoreSamples
  <2>2. /\ headerCnt' \in 0 .. BlockBytes /\ half' \in 0 .. 1 /\ BlockAligned'
    BY <1>12, <2>1, NextNibbleType DEF DecodeNewBlock
  <2>3. /\ slots' \in [0 .. 3 -> 0 .. Old] /\ decoded' \in 0 .. 7
        /\ sampptr' \in 0 .. 3 /\ frac' \in Int /\ frac' >= -Unit
    BY <1>12, <2>1, PutSampleType DEF DecodeNewBlock
  <2>4. endx' \in BOOLEAN
    BY <1>12 DEF DecodeNewBlock
  <2> QED BY <1>12, <2>1, <2>2, <2>3, <2>4
          DEF DecodeNewBlock, TypeOK, FracInv, ShownInv, KeyOffWins,
              keys, env
<1>13. CASE EndOfSample
  <2>0. endx' \in BOOLEAN /\ keyed' \in BOOLEAN
    BY <1>13, Zenon DEF EndOfSample
  <2>1. TypeOK'
    BY <1>13, <2>0 DEF EndOfSample, EnvxAtEnd, TypeOK, brr
  <2> QED BY <1>13, <2>1 DEF EndOfSample, EnvxAtEnd, FracInv, ShownInv,
                             KeyOffWins, BlockAligned, brr
<1>14. CASE FillZeroes
  <2>1. frac >= 0 /\ stage = "fill"
    BY <1>14 DEF FillZeroes
  <2>2. /\ slots' \in [0 .. 3 -> 0 .. Old] /\ decoded' \in 0 .. 7
        /\ sampptr' \in 0 .. 3 /\ frac' \in Int /\ frac' >= -Unit
    BY <1>14, <2>1, PutSampleType DEF FillZeroes
  <2> QED BY <1>14, <2>1, <2>2
          DEF FillZeroes, TypeOK, FracInv, ShownInv, KeyOffWins, BlockAligned,
              regs, keys, env
<1>15. CASE DecodeDone
  BY <1>15 DEF DecodeDone, MoreSamples, TypeOK, FracInv, ShownInv, KeyOffWins,
               BlockAligned, regs, keys, env, brr
<1>16. ASSUME NEW pitch \in Pitches, Mix(pitch) PROVE IInv'
  <2>1. pitch \in Nat
    OBVIOUS
  <2> QED BY <1>16, <2>1 DEF Mix, TypeOK, FracInv, ShownInv, KeyOffWins,
                             BlockAligned, regs, keys, env
<1>17. CASE UNCHANGED vars
  BY <1>17 DEF vars, TypeOK, FracInv, ShownInv, KeyOffWins, BlockAligned,
               regs, keys, env, brr
<1> QED BY <1>1, <1>2, <1>2e, <1>3, <1>4, <1>5, <1>6, <1>7, <1>8, <1>9, <1>10, <1>11,
           <1>12, <1>13, <1>14, <1>15, <1>16, <1>17
        DEF Next, CpuWrite, UpdateStep

LEMMA Invariance == Spec => []IInv
<1> QED BY InitInv, NextInv, PTL DEF Spec

(* The voice's fields keep their types through every stage of an update. *)
THEOREM TypeCorrect == Spec => []TypeOK
<1> QED BY Invariance, PTL DEF IInv

(* An update that sees KOFF leaves the voice off or in RELEASE. *)
THEOREM KeyOffAlwaysWins == Spec => []KeyOffWins
<1> QED BY Invariance, PTL DEF IInv

(* Between two updates ENVX holds the level of a voice that is on and 0 for one
   that is off, unless the program or a file has written there since. *)
THEOREM EnvxTellsVoice == Spec => []EnvxFollowsVoice
<1>1. IInv => EnvxFollowsVoice
  BY DEF IInv, ShownInv, EnvxFollowsVoice
<1> QED BY <1>1, Invariance, PTL

(* The interpolation never leaves its table, at any pitch. *)
THEOREM GaussIndexInTable == Spec => []GaussIndex
<1>1. IInv => GaussIndex
  BY DEF IInv, TypeOK, FracInv, GaussIndex
<1> QED BY <1>1, Invariance, PTL

(* Headers are read between blocks only. *)
THEOREM BlocksAligned == Spec => []BlockAligned
<1> QED BY Invariance, PTL DEF IInv

-----------------------------------------------------------------------------
(* What the ring of four holds: the last four samples of the note in order
   or, while a note begins, as many as have been decoded, with as many left to
   decode before the interpolation runs. *)
Window ==
  \A i \in 0 .. 3 : slots[(sampptr + i) % 4] = (decoded + 4 + i) % 8

Beginning ==
  /\ decoded \in 0 .. 3 /\ sampptr = decoded
  /\ frac = (3 - decoded) * Unit
  /\ \A i \in 0 .. 3 : i < decoded => slots[i] = i

Playing == keyed \/ stage \in {"fill", "mix"}

WindowInv == Playing => Window \/ Beginning

(* One sample more moves the window on by one; the fourth completes it. *)
LEMMA WindowMoves ==
  ASSUME TypeOK, PutSample, Window \/ Beginning
  PROVE  (Window \/ Beginning)'
<1>1. /\ decoded \in 0 .. 7 /\ sampptr \in 0 .. 3
      /\ slots \in [0 .. 3 -> 0 .. Old] /\ frac \in Int /\ Unit \in Nat
  BY DEF TypeOK
<1>2. /\ slots' = [slots EXCEPT ![sampptr] = decoded]
      /\ decoded' = (decoded + 1) % 8 /\ sampptr' = (sampptr + 1) % 4
      /\ frac' = frac - Unit
  BY DEF PutSample, NextSlot
<1>3. \A j \in 0 .. 3 : slots'[j] = IF j = sampptr THEN decoded ELSE slots[j]
  BY <1>1, <1>2
<1>4. CASE Window
  <2>1. ASSUME NEW i \in 0 .. 3
        PROVE  slots'[(sampptr' + i) % 4] = (decoded' + 4 + i) % 8
    <3>1. CASE i = 3
      <4>1. (sampptr' + i) % 4 = sampptr
        BY <1>1, <1>2, <3>1
      <4>2. (decoded' + 4 + i) % 8 = decoded
        BY <1>1, <1>2, <3>1
      <4> QED BY <1>1, <1>3, <4>1, <4>2
    <3>2. CASE i < 3
      <4>1. i + 1 \in 0 .. 3
        BY <3>2
      <4>2. /\ (sampptr' + i) % 4 = (sampptr + (i + 1)) % 4
            /\ (sampptr' + i) % 4 \in 0 .. 3
            /\ (sampptr' + i) % 4 # sampptr
        BY <1>1, <1>2, <3>2
      <4>3. (decoded' + 4 + i) % 8 = (decoded + 4 + (i + 1)) % 8
        BY <1>1, <1>2, <3>2
      <4>4. slots[(sampptr + (i + 1)) % 4] = (decoded + 4 + (i + 1)) % 8
        BY <1>4, <4>1 DEF Window
      <4> QED BY <1>3, <4>2, <4>3, <4>4
    <3> QED BY <3>1, <3>2
  <2> QED BY <2>1 DEF Window
<1>5. CASE Beginning
  <2>1. /\ decoded \in 0 .. 3 /\ sampptr = decoded /\ frac = (3 - decoded) * Unit
        /\ \A i \in 0 .. 3 : i < decoded => slots[i] = i
    BY <1>5 DEF Beginning
  <2>2. \A j \in 0 .. 3 : j < decoded + 1 => slots'[j] = j
    BY <1>3, <2>1
  <2>3. CASE decoded < 3
    <3>1. decoded' = decoded + 1 /\ sampptr' = decoded + 1
      BY <1>2, <2>1, <2>3
    <3>2. (3 - (decoded + 1)) * Unit = (3 - decoded) * Unit - Unit
      BY <1>1, <2>1
    <3> QED BY <1>2, <2>1, <2>2, <2>3, <3>1, <3>2 DEF Beginning
  <2>4. CASE decoded = 3
    <3>1. decoded' = 4 /\ sampptr' = 0
      BY <1>2, <2>1, <2>4
    <3>2. \A i \in 0 .. 3 : (0 + i) % 4 = i /\ (4 + 4 + i) % 8 = i
      OBVIOUS
    <3> QED BY <2>2, <2>4, <3>1, <3>2 DEF Window
  <2> QED BY <2>1, <2>3, <2>4
<1> QED BY <1>4, <1>5

(* A note that is still beginning has samples left to decode. *)
LEMMA MixInside ==
  ASSUME TypeOK, frac < 0
  PROVE  ~Beginning
<1> SUFFICES ASSUME Beginning PROVE FALSE
  OBVIOUS
<1>1. decoded \in 0 .. 3 /\ frac = (3 - decoded) * Unit /\ Unit \in Nat
  BY DEF Beginning
<1>2. (3 - decoded) * Unit >= 0
  BY <1>1
<1> QED BY <1>1, <1>2

LEMMA WindowStep ==
  ASSUME IInv, WindowInv, [Next]_vars
  PROVE  WindowInv'
<1> USE DEF IInv
<1>1. ASSUME UNCHANGED <<slots, decoded, sampptr, frac>>, Playing' => Playing
      PROVE  WindowInv'
  BY <1>1 DEF WindowInv, Window, Beginning
<1>2. CASE \/ WriteEndx \/ WriteEnvx \/ BeginUpdate \/ KeyOnDelay \/ AcceptKon \/ CheckKoff
           \/ Silent \/ AdvanceEnvelope \/ EndOfSample \/ DecodeDone
           \/ (\E on, off \in BOOLEAN : WriteKeys(on, off))
           \/ (\E r \in BOOLEAN : WriteFlg(r))
           \/ UNCHANGED vars
  <2>1. UNCHANGED <<slots, decoded, sampptr, frac>>
    BY <1>2 DEF WriteKeys, WriteEndx, WriteEnvx, WriteFlg, BeginUpdate, KeyOnDelay,
                AcceptKon, CheckKoff, Silent, AdvanceEnvelope, EndOfSample,
                DecodeDone, vars, brr
  <2>2. Playing' => Playing
    BY <1>2 DEF WriteKeys, WriteEndx, WriteEnvx, WriteFlg, BeginUpdate, KeyOnDelay,
                AcceptKon, CheckKoff, Silent, AdvanceEnvelope, EndOfSample,
                DecodeDone, vars, keys, ShownInv, Playing
  <2> QED BY <1>1, <2>1, <2>2
<1>3. CASE KeyOn
  <2>1. /\ decoded' = 0 /\ sampptr' = 0 /\ frac' = 3 * Unit
    BY <1>3 DEF KeyOn, FirstFrac
  <2>2. (3 - 0) * Unit = 3 * Unit
    OBVIOUS
  <2> QED BY <2>1, <2>2 DEF WindowInv, Beginning
<1>4. ASSUME PutSample, Playing PROVE WindowInv'
  BY <1>4, WindowMoves DEF WindowInv
<1>5. CASE DecodeInBlock \/ FillZeroes \/ \E flags \in 0 .. 3 : DecodeNewBlock(flags)
  BY <1>4, <1>5 DEF DecodeInBlock, FillZeroes, DecodeNewBlock, ShownInv, Playing
<1>6. ASSUME NEW pitch \in Pitches, Mix(pitch) PROVE WindowInv'
  <2>1. /\ stage = "mix" /\ stage' = "cpu" /\ keyed' = keyed
        /\ UNCHANGED <<slots, decoded, sampptr>>
    BY <1>6 DEF Mix, keys
  <2>2. ~Beginning
    BY <2>1, MixInside DEF FracInv
  <2>3. Window'
    BY <2>1, <2>2 DEF WindowInv, Window, Playing
  <2> QED BY <2>3 DEF WindowInv
<1> QED BY <1>2, <1>3, <1>5, <1>6 DEF Next, CpuWrite, UpdateStep

(* The four samples the interpolation looks at are the last four of the note,
   in order, and never one of the note before: at every pitch, for every
   length of a block and wherever a note ends. *)
THEOREM WindowIsLastFour == Spec => []GaussWindow
<1>1. Init => WindowInv
  BY DEF Init, WindowInv, Playing
<1>2. IInv /\ WindowInv /\ [Next]_vars => WindowInv'
  BY WindowStep
<1>3. IInv /\ WindowInv => GaussWindow
  <2> SUFFICES ASSUME IInv, WindowInv, stage = "mix"
               PROVE  Window
    BY DEF GaussWindow, Window
  <2>1. ~Beginning
    BY MixInside DEF IInv, FracInv
  <2> QED BY <2>1 DEF WindowInv, Playing
<1> QED BY <1>1, <1>2, <1>3, Invariance, PTL DEF Spec
=============================================================================
