----------------------------- MODULE Dsp_proofs -----------------------------
(***************************************************************************)
(* Proofs about the DSP: the envelope, for every value of the ADSR and GAIN *)
(* registers, rewritten at any time; the echo unit, for every size of the   *)
(* memory, of the echo steps and of the FIR ring; and the amplitudes, for   *)
(* every header, sample, register and position: the decoder's filters, the  *)
(* interpolation with any table like the one of gauss.h, and the widths of  *)
(* the mixer's sums.                                                        *)
(***************************************************************************)
EXTENDS DspEnvelope, DspEcho, DspSound, SequenceTheorems, TLAPS

-----------------------------------------------------------------------------
(* The envelope. *)

LEMMA DivFloor ==
  ASSUME NEW x \in Int, NEW q \in Int, 256 * q <= x, x < 256 * q + 256
  PROVE  x \div 256 = q
OBVIOUS

LEMMA RateType == ASSUME NEW r \in 0 .. 31 PROVE Rate(r) \in 0 .. CntInit
<1>1. EnvCnt \in Seq(0 .. CntInit) /\ Len(EnvCnt) = 32
  BY DEF EnvCnt, CntInit
<1>2. r + 1 \in 1 .. Len(EnvCnt)
  BY <1>1
<1> QED BY <1>1, <1>2, ElementOfSeq DEF Rate

(* The fields of the registers are within their bits. *)
LEMMA FieldTypes ==
  ASSUME set \in Settings
  PROVE  /\ set.adsr1 \in Byte /\ set.adsr2 \in Byte /\ set.gain \in Byte
         /\ AttackRate \in 0 .. 15 /\ DecayRate \in 0 .. 7
         /\ SustainLevel \in 0 .. 7 /\ SustainRate \in 0 .. 31
         /\ GainRate \in 0 .. 31
<1>1. set.adsr1 \in Byte /\ set.adsr2 \in Byte /\ set.gain \in Byte
  BY SettingsAssumption DEF SettingsAssumption
<1> QED BY <1>1 DEF Byte, AttackRate, DecayRate, SustainLevel, SustainRate,
                    GainRate

LEMMA CountType ==
  ASSUME envcnt \in 1 .. CntInit, NEW r \in 0 .. 31, Count(r)
  PROVE  envcnt' \in 1 .. CntInit
<1>1. PICK q \in 0 .. CntInit : q = Rate(r)
  BY RateType
<1>2. envcnt' = IF envcnt - q <= 0 THEN CntInit ELSE envcnt - q
  BY <1>1 DEF Count, IsDue
<1>3. CntInit \in Nat \ {0}
  BY DEF CntInit
<1> QED BY <1>1, <1>2, <1>3

LEMMA ExpDownType ==
  ASSUME envx \in 0 .. EnvMax
  PROVE  /\ ExpDown \in 0 .. EnvMax /\ ExpDown <= envx
         /\ ExpDown < envx \/ (envx = 0 /\ ExpDown = 0)
<1>1. CASE envx = 0
  <2>1. envx - 1 \in Int /\ envx - 1 = -1
    BY <1>1
  <2>2. -1 \in Int /\ 256 * (-1) <= envx - 1 /\ envx - 1 < 256 * (-1) + 256
    BY <2>1
  <2>3. (envx - 1) \div 256 = -1
    BY <2>1, <2>2, DivFloor
  <2>4. ExpDown = 0
    BY <1>1, <2>3 DEF ExpDown
  <2> QED BY <1>1, <2>4 DEF EnvMax
<1>2. CASE envx > 0
  <2>1. PICK d \in Int : d = (envx - 1) \div 256
    BY DEF EnvMax
  <2>2. d >= 0 /\ d <= envx - 1
    BY <1>2, <2>1 DEF EnvMax
  <2>3. ExpDown = envx - (d + 1)
    BY <2>1, Zenon DEF ExpDown
  <2> QED BY <1>2, <2>2, <2>3 DEF EnvMax
<1>3. envx = 0 \/ envx > 0
  BY DEF EnvMax
<1> QED BY <1>1, <1>2, <1>3, Zenon

(* What Show and the move of an envelope in range leave behind. *)
LEMMA ShowType ==
  ASSUME EnvTypeOK, envx' \in 0 .. EnvMax, Show
  PROVE  /\ shown' \in 0 .. 127
         /\ set' = set /\ keyed' = keyed /\ since_off' = since_off
<1>1. PICK e \in 0 .. EnvMax : e = envx'
  OBVIOUS
<1>2. e \in Nat /\ e <= 2047
  BY DEF EnvMax
<1>3. e \div 16 \in 0 .. 127
  BY <1>2
<1>4. shown' = e \div 16
  BY <1>1, Zenon DEF Show
<1>5. shown' \in 0 .. 127
  BY <1>3, <1>4, Zenon
<1> QED BY <1>5, Zenon DEF Show

(* In a release the level and the updates it has taken add up; before one no
   update has been counted. *)
ReleaseInv ==
  keyed => IF envstate = "RELEASE"
             THEN envx + 8 * since_off <= EnvMax /\ since_off <= 255
             ELSE since_off = 0

EnvInv == EnvTypeOK /\ ReleaseInv

LEMMA EnvInitInv == EnvInit => EnvInv
<1> SUFFICES ASSUME EnvInit PROVE EnvInv
  OBVIOUS
<1>1. keyed = FALSE /\ keyed \in BOOLEAN
  BY Zenon DEF EnvInit
<1>2. EnvTypeOK
  BY <1>1, SMT DEF EnvInit, EnvTypeOK, EnvMax, CntInit
<1> QED BY <1>1, <1>2 DEF EnvInv, ReleaseInv

LEMMA RiseType ==
  ASSUME envx \in 0 .. EnvMax, NEW up \in Nat, Rise(up)
  PROVE  envx' \in 0 .. EnvMax /\ envstate' \in {"ATTACK", "DECAY"}
  BY DEF Rise, ClipUp, EnvMax

LEMMA GainToType ==
  ASSUME envx \in 0 .. EnvMax
  PROVE  GainTo \in 0 .. EnvMax
<1>1. ExpDown \in 0 .. EnvMax
  BY ExpDownType
<1>2. ClipDown(envx - 32) \in 0 .. EnvMax
  BY DEF ClipDown, EnvMax
<1>3. ClipUp(envx + 32) \in 0 .. EnvMax
  BY DEF ClipUp, EnvMax
<1>4. ClipUp(envx + (IF envx < 1536 THEN 32 ELSE 8)) \in 0 .. EnvMax
  BY DEF ClipUp, EnvMax
<1> QED BY <1>1, <1>2, <1>3, <1>4 DEF GainTo

(* Every branch of an update that is not a release keeps the types, stays out
   of RELEASE and leaves since_off alone. *)
LEMMA BranchStep ==
  ASSUME EnvTypeOK, AttackAtOnce \/ Attack \/ Decay \/ Sustain \/ GainDirect \/ GainMoving
  PROVE  EnvTypeOK' /\ keyed' = keyed /\ since_off' = since_off
         /\ envstate # "RELEASE" /\ envstate' # "RELEASE"
<1> USE DEF EnvTypeOK
<1>f. /\ set.gain \in Byte
      /\ AttackRate \in 0 .. 15 /\ DecayRate \in 0 .. 7
      /\ SustainRate \in 0 .. 31 /\ GainRate \in 0 .. 31
  BY FieldTypes
<1>e. ExpDown \in 0 .. EnvMax
  BY ExpDownType
<1>g. envx \in Nat /\ envcnt \in Nat
  BY DEF EnvMax
<1>1. SUFFICES /\ envx' \in 0 .. EnvMax /\ envcnt' \in 1 .. CntInit
               /\ envstate' \in {"ATTACK", "DECAY", "SUSTAIN"}
               /\ envstate' # "RELEASE" /\ envstate # "RELEASE" /\ Show
  <2>1. ASSUME envx' \in 0 .. EnvMax, Show
        PROVE  /\ shown' \in 0 .. 127
               /\ set' = set /\ keyed' = keyed /\ since_off' = since_off
    BY <2>1, ShowType
  <2> QED BY <2>1
<1>2. CASE AttackAtOnce
  BY <1>2, RiseType DEF AttackAtOnce, Advance, InRelease
<1>3. CASE Attack
  <2>1. 2 * AttackRate + 1 \in 0 .. 31
    BY <1>3, <1>f DEF Attack
  <2>2. envcnt' \in 1 .. CntInit
    BY <1>3, <2>1, CountType DEF Attack
  <2>3. envx' \in 0 .. EnvMax /\ envstate' \in {"ATTACK", "DECAY"}
    BY <1>3, RiseType DEF Attack
  <2> QED BY <1>3, <2>2, <2>3 DEF Attack, Advance, InRelease
<1>4. CASE Decay
  <2>1. 2 * DecayRate + 16 \in 0 .. 31
    BY <1>f
  <2>2. envcnt' \in 1 .. CntInit
    BY <1>4, <2>1, CountType DEF Decay, DecayTo
  <2> QED BY <1>4, <1>e, <2>2 DEF Decay, DecayTo, Advance, InRelease
<1>5. CASE Sustain
  <2>1. envcnt' \in 1 .. CntInit
    BY <1>5, <1>f, CountType DEF Sustain
  <2> QED BY <1>5, <1>e, <2>1 DEF Sustain, Advance, InRelease
<1>6. CASE GainDirect
  <2>1. set.gain * 16 \in 0 .. EnvMax
    BY <1>6, <1>f DEF GainDirect, Byte, EnvMax
  <2> QED BY <1>6, <2>1 DEF GainDirect, Advance, InRelease
<1>7. CASE GainMoving
  <2>1. envcnt' \in 1 .. CntInit
    BY <1>7, <1>f, CountType DEF GainMoving
  <2>2. envx' \in 0 .. EnvMax
    BY <1>7, GainToType DEF GainMoving
  <2> QED BY <1>7, <2>1, <2>2 DEF GainMoving, Advance, InRelease
<1> QED BY <1>2, <1>3, <1>4, <1>5, <1>6, <1>7

LEMMA EnvNextInv == EnvInv /\ [EnvNext]_envVars => EnvInv'
<1> SUFFICES ASSUME EnvInv, [EnvNext]_envVars PROVE EnvInv'
  OBVIOUS
<1> USE DEF EnvInv
<1>1. CASE Release
  <2>1. envx \in Nat /\ envx <= EnvMax /\ since_off \in Nat /\ keyed \in BOOLEAN
    BY DEF EnvTypeOK, EnvMax
  <2>2. /\ keyed /\ envstate = "RELEASE" /\ envstate' = "RELEASE"
        /\ since_off' = since_off + 1 /\ set' = set /\ envcnt' = envcnt
        /\ IF envx - 8 <= 0
             THEN keyed' = FALSE /\ envx' = envx /\ shown' = shown
             ELSE /\ envx' = envx - 8 /\ shown' = (envx - 8) \div 256
                  /\ keyed' = keyed
    BY <1>1 DEF Release, InRelease, ReleaseTo
  <2>3. CASE envx - 8 <= 0
    <3>1. keyed' = FALSE /\ keyed' \in BOOLEAN
      BY <2>2, <2>3, Zenon
    <3>2. EnvTypeOK'
      BY <2>1, <2>2, <2>3, <3>1 DEF EnvTypeOK
    <3> QED BY <3>1, <3>2 DEF ReleaseInv
  <2>4. CASE ~(envx - 8 <= 0)
    <3>1. /\ envx' = envx - 8 /\ envx' \in 0 .. EnvMax /\ keyed' = keyed
          /\ shown' \in 0 .. 127
      BY <2>1, <2>2, <2>4 DEF EnvMax
    <3>2. EnvTypeOK'
      BY <2>1, <2>2, <3>1 DEF EnvTypeOK
    <3>3. envx + 8 * since_off <= EnvMax
      BY <2>2 DEF ReleaseInv
    <3>4. envx' + 8 * since_off' <= EnvMax /\ since_off' <= 255
      BY <2>1, <2>2, <2>4, <3>1, <3>3 DEF EnvMax
    <3> QED BY <2>2, <3>2, <3>4 DEF ReleaseInv
  <2> QED BY <2>1, <2>3, <2>4
<1>2. CASE AttackAtOnce \/ Attack \/ Decay \/ Sustain \/ GainDirect \/ GainMoving
  BY <1>2, BranchStep DEF ReleaseInv
<1>3. CASE KeyedOn
  BY <1>3 DEF KeyedOn, EnvTypeOK, ReleaseInv, EnvMax, CntInit
<1>4. CASE KeyedOff
  BY <1>4 DEF KeyedOff, EnvTypeOK, ReleaseInv, EnvMax
<1>5. ASSUME NEW s \in Settings, WriteRegs(s) PROVE EnvInv'
  BY <1>5 DEF WriteRegs, EnvTypeOK, ReleaseInv
<1>6. CASE UNCHANGED envVars
  BY <1>6 DEF envVars, EnvTypeOK, ReleaseInv
<1> QED BY <1>1, <1>2, <1>3, <1>4, <1>5, <1>6 DEF EnvNext, AdvanceEnvelope

LEMMA EnvInvariance == EnvSpec => []EnvInv
<1> QED BY EnvInitInv, EnvNextInv, PTL DEF EnvSpec

(* The envelope, its counter and ENVX keep to their bits. *)
THEOREM EnvelopeInRange == EnvSpec => []EnvTypeOK
<1> QED BY EnvInvariance, PTL DEF EnvInv

(* A voice keyed off is silent within 256 updates, whatever is written to its
   registers. *)
THEOREM ReleaseEnds == EnvSpec => []ReleaseBounded
<1>1. EnvInv => ReleaseBounded
  BY DEF EnvInv, EnvTypeOK, ReleaseInv, ReleaseBounded
<1> QED BY <1>1, EnvInvariance, PTL

(* An envelope past its attack never rises under ADSR, and a released one
   never rises at all. *)
THEOREM EnvelopeNeverRises == EnvSpec => NeverRises
<1> DEFINE Falling ==
      (envstate \in {"DECAY", "SUSTAIN"} /\ AdsrMode) \/ envstate = "RELEASE"
        => envx' <= envx
<1>1. EnvInv /\ [EnvNext]_envVars => [Falling]_envVars
  <2> SUFFICES ASSUME EnvInv, EnvNext,
                      \/ envstate \in {"DECAY", "SUSTAIN"} /\ AdsrMode
                      \/ envstate = "RELEASE"
               PROVE  envx' <= envx
    BY DEF envVars
  <2>1. envx \in 0 .. EnvMax /\ ExpDown <= envx
    BY ExpDownType DEF EnvInv, EnvTypeOK
  <2>2. CASE Release
    <3>1. envx' = envx \/ envx' = envx - 8
      BY <2>2 DEF Release, ReleaseTo
    <3> QED BY <2>1, <3>1 DEF EnvMax
  <2>3. CASE AttackAtOnce \/ Attack
    BY <2>3 DEF AttackAtOnce, Attack, Advance, InRelease
  <2>4. CASE Decay \/ Sustain
    BY <2>1, <2>4 DEF Decay, DecayTo, Sustain, EnvMax
  <2>5. CASE GainDirect \/ GainMoving
    BY <2>5 DEF GainDirect, GainMoving, Advance, InRelease
  <2>6. CASE KeyedOn
    BY <2>1, <2>6 DEF KeyedOn, EnvMax
  <2>7. CASE KeyedOff
    BY <2>1, <2>7 DEF KeyedOff, EnvMax
  <2>8. ASSUME NEW s \in Settings, WriteRegs(s) PROVE envx' <= envx
    BY <2>1, <2>8 DEF WriteRegs, EnvMax
  <2> QED BY <2>2, <2>3, <2>4, <2>5, <2>6, <2>7, <2>8 DEF EnvNext, AdvanceEnvelope
<1> HIDE DEF Falling
<1>2. EnvSpec => [][Falling]_envVars
  BY <1>1, EnvInvariance, PTL DEF EnvSpec
<1> QED BY <1>2 DEF Falling, NeverRises

(* The exponential fall takes something off every level but 0. *)
THEOREM SilenceIsReached == EnvSpec => FallsToZero
<1>1. EnvInv /\ [EnvNext]_envVars =>
        [Sustain /\ IsDue(SustainRate) =>
           envx' < envx \/ (envx = 0 /\ envx' = 0)]_envVars
  <2> SUFFICES ASSUME EnvInv, Sustain, IsDue(SustainRate)
               PROVE  envx' < envx \/ (envx = 0 /\ envx' = 0)
    OBVIOUS
  <2>1. envx' = ExpDown
    BY DEF Sustain
  <2> QED BY <2>1, ExpDownType DEF EnvInv, EnvTypeOK
<1> QED BY <1>1, EnvInvariance, PTL DEF EnvSpec, FallsToZero

-----------------------------------------------------------------------------
(* The echo unit. *)

(* Two facts on products and remainders the steps below rest on. *)
LEMMA ModIn == ASSUME NEW a \in Nat, NEW n \in Nat \ {0} PROVE a % n \in 0 .. n - 1
OBVIOUS

LEMMA TimesMono ==
  ASSUME NEW a \in Nat, NEW b \in Nat, a <= b, NEW c \in Nat
  PROVE  a * c \in Nat /\ a * c <= b * c
OBVIOUS

LEMMA TimesPos ==
  ASSUME NEW a \in Nat \ {0}, NEW c \in Nat \ {0} PROVE a * c >= 1
OBVIOUS

LEMMA Constants ==
  /\ Zero \in Sample
  /\ Cells \in Nat \ {0} /\ PageCells \in Nat \ {0}
  /\ StepCells \in Nat \ {0} /\ Steps \in Nat \ {0}
  /\ (Steps - 1) * StepCells <= Cells
  /\ EdlValues \subseteq Nat /\ RingTaps \in Nat \ {0}
  /\ Images \subseteq [Cell -> Sample]
BY EchoAssumption DEF EchoAssumption

(* An address of the unit is a cell, whatever the registers. *)
LEMMA AddressIsCell ==
  ASSUME NEW e \in EsaValues, NEW p \in Cell PROVE CellAt(e, p) \in Cell
<1>1. e \in Nat /\ p \in Nat /\ PageCells \in Nat /\ Cells \in Nat \ {0}
  BY Constants DEF EsaValues, Cell
<1>2. e * PageCells + p \in Nat
  BY <1>1
<1>3. (e * PageCells + p) % Cells \in 0 .. Cells - 1
  BY <1>1, <1>2, ModIn
<1> QED BY <1>3 DEF CellAt, Cell

(* No length EDL can ask for exceeds the memory; the period is the length,
   or one cell. *)
LEMMA LenFits ==
  ASSUME NEW d \in EdlValues
  PROVE  /\ EchoLen(d) \in 0 .. Cells /\ PeriodOf(d) \in 1 .. Cells
         /\ PeriodOf(d) = IF EchoLen(d) = 0 THEN 1 ELSE EchoLen(d)
<1>1. PICK k \in 0 .. Steps - 1 : k = d % Steps
  BY Constants, ModIn
<1>2. k * StepCells \in Nat /\ k * StepCells <= (Steps - 1) * StepCells
  <2>1. k \in Nat /\ Steps - 1 \in Nat /\ k <= Steps - 1 /\ StepCells \in Nat
    BY Constants
  <2> QED BY <2>1, TimesMono
<1>3. k # 0 => k * StepCells >= 1
  BY Constants, TimesPos
<1>4. k = 0 => k * StepCells = 0
  BY Constants
<1>5. PICK len \in Nat : len = k * StepCells
  BY <1>2
<1>6. EchoLen(d) = len
  BY <1>1, <1>5 DEF EchoLen
<1>7. PeriodOf(d) = IF k = 0 THEN 1 ELSE len
  BY <1>1, <1>5 DEF PeriodOf
<1>8. len <= Cells /\ (k # 0 => len >= 1) /\ (k = 0 => len = 0)
  <2>1. PICK most \in Nat : most = (Steps - 1) * StepCells
    BY Constants, TimesMono
  <2> QED BY <1>2, <1>3, <1>4, <1>5, <2>1, Constants
<1> QED BY <1>6, <1>7, <1>8, Constants

(* The pointer an update leaves is within the region of the registers. *)
LEMMA NextPtrFits ==
  ASSUME edl \in EdlValues, NEW p \in Cell
  PROVE  NextPtr(p) \in Cell /\ NextPtr(p) < Period
<1>1. PICK len \in 0 .. Cells : len = EchoLen(edl)
  BY LenFits
<1>2. Period = (IF len = 0 THEN 1 ELSE len) /\ Cells \in Nat \ {0} /\ p \in Nat
  BY <1>1, LenFits, Constants DEF Cell, Period
<1>3. NextPtr(p) = IF p + 1 >= len THEN 0 ELSE p + 1
  BY <1>1 DEF NextPtr
<1> QED BY <1>2, <1>3 DEF Cell

(* A context not loaded yet has its pointer at the start. *)
IInv == TypeOK /\ PtrInRegion /\ (since = "new" => echo_ptr = 0)

LEMMA InitInv == Init => IInv
<1> SUFFICES ASSUME Init PROVE IInv
  OBVIOUS
<1>1. TypeOK
  BY Constants DEF Init, TypeOK, NoEcho, Cell
<1>2. Period \in Nat /\ Period >= 1
  BY <1>1, LenFits, Constants DEF TypeOK, Period
<1>3. PtrInRegion
  BY <1>2 DEF Init, PtrInRegion
<1> QED BY <1>1, <1>3 DEF IInv, Init

LEMMA LoadInv ==
  ASSUME IInv, NEW img \in Images, NEW e \in EsaValues, NEW d \in EdlValues,
         NEW c \in BOOLEAN, LoadSong(img, e, d, c)
  PROVE  IInv'
<1> USE DEF IInv
<1>1. img \in [Cell -> Sample] /\ Cleared(img, e, d) \in [Cell -> Sample]
  BY Constants DEF Cleared
<1>2. ram' \in [Cell -> Sample]
  BY <1>1 DEF LoadSong
<1>3. since' = "steady" /\ echo_ptr' = 0
  BY DEF LoadSong
<1>4. reset' \in BOOLEAN /\ frozen' \in BOOLEAN
  BY Zenon DEF LoadSong
<1>5. TypeOK'
  BY <1>2, <1>3, <1>4 DEF LoadSong, TypeOK
<1>6. Period' \in Nat /\ Period' >= 1
  BY <1>5, LenFits, Constants DEF TypeOK, Period
<1>7. PtrInRegion'
  BY <1>3, <1>6 DEF PtrInRegion
<1> QED BY <1>3, <1>5, <1>7

LEMMA WriteInv == ASSUME IInv, since # "new", Write PROVE IInv'
<1> USE DEF IInv
<1>1. ASSUME NEW e \in EsaValues, WriteEsa(e) PROVE IInv'
  BY <1>1 DEF WriteEsa, TypeOK, PtrInRegion, Period
<1>2. ASSUME NEW d \in EdlValues, WriteEdl(d) PROVE IInv'
  BY <1>2 DEF WriteEdl, TypeOK, PtrInRegion
<1>3. ASSUME NEW r \in BOOLEAN, NEW f \in BOOLEAN, WriteFlg(r, f) PROVE IInv'
  <2>1. reset' \in BOOLEAN /\ frozen' \in BOOLEAN
    BY <1>3, Zenon DEF WriteFlg
  <2> QED BY <1>3, <2>1 DEF WriteFlg, TypeOK, PtrInRegion, Period
<1>4. ASSUME NEW c \in Cell, NEW s \in Sample, WriteRam(c, s) PROVE IInv'
  BY <1>4 DEF WriteRam, regs, TypeOK, PtrInRegion, Period
<1> QED BY <1>1, <1>2, <1>3, <1>4 DEF Write

(* What an update starts from, with or without the reset bit. *)
LEMMA SeenTypes ==
  ASSUME TypeOK
  PROVE  /\ PtrSeen \in Cell /\ FirSeen \in [0 .. RingTaps - 1 -> Sample]
         /\ FirPtrSeen \in 0 .. RingTaps - 1
BY Constants DEF TypeOK, PtrSeen, FirSeen, FirPtrSeen, NoEcho, Cell

LEMMA UpdateInv ==
  ASSUME IInv, NEW s \in Sample, Update(s)
  PROVE  IInv'
<1> USE DEF IInv
<1> DEFINE at == CellAt(esa, PtrSeen)
<1>1. at \in Cell
  BY SeenTypes, AddressIsCell DEF TypeOK
<1>2. ram' \in [Cell -> Sample]
  <2>1. ram' = ram \/ ram' = [ram EXCEPT ![at] = s]
    BY Zenon DEF Update
  <2> QED BY <1>1, <2>1 DEF TypeOK
<1>3. fir' \in [0 .. RingTaps - 1 -> Sample]
  <2>1. fir' = [FirSeen EXCEPT ![FirPtrSeen] = ram[at]]
    BY Zenon DEF Update
  <2>2. ram[at] \in Sample
    BY <1>1 DEF TypeOK
  <2> QED BY <2>1, <2>2, SeenTypes
<1>4. firptr' \in 0 .. RingTaps - 1
  <2>1. FirPtrSeen + (RingTaps - 1) \in Nat
    BY SeenTypes, Constants
  <2> QED BY <2>1, ModIn, Constants DEF Update, AfterTaps
<1>5. frozen' \in BOOLEAN
  BY Zenon DEF Update
<1>6. echo_ptr' \in Cell /\ echo_ptr' < Period
  BY SeenTypes, NextPtrFits DEF Update, TypeOK
<1>7. TypeOK'
  BY <1>2, <1>3, <1>4, <1>5, <1>6 DEF Update, TypeOK
<1>8. PtrInRegion'
  BY <1>6 DEF PtrInRegion, Period, Update
<1> QED BY <1>7, <1>8 DEF Update

THEOREM Invariance == Spec => []IInv
<1>1. IInv /\ [Next]_vars => IInv'
  <2> SUFFICES ASSUME IInv, [Next]_vars PROVE IInv'
    OBVIOUS
  <2>1. CASE Load
    BY <2>1, LoadInv DEF Load
  <2>2. CASE LoadFails
    BY <2>2 DEF LoadFails, regs, IInv, TypeOK, PtrInRegion, Period
  <2>3. CASE since # "new" /\ Write
    BY <2>3, WriteInv
  <2>4. CASE \E s \in Sample : Update(s)
    BY <2>4, UpdateInv
  <2>5. CASE UNCHANGED vars
    BY <2>5 DEF vars, regs, IInv, TypeOK, PtrInRegion, Period
  <2> QED BY <2>1, <2>2, <2>3, <2>4, <2>5 DEF Next
<1> QED BY InitInv, <1>1, PTL DEF Spec

(* Every address of the echo unit is within RAM and every index of the ring
   within the ring, for any sizes and whatever the song writes. *)
THEOREM TypeCorrect == Spec => []TypeOK
BY Invariance, PTL DEF IInv

(* The echo pointer is out of the region of its registers only between a
   change of EDL and the next update. *)
THEOREM PointerInRegion == Spec => []PtrInRegion
BY Invariance, PTL DEF IInv

(* With the pointer in its region, an update writes nowhere else. *)
THEOREM RestUntouched == Spec => OnlyRegionWritten
<1>1. ASSUME IInv, since # "resized", NEW c \in Cell \ Region,
             NEW s \in Sample, Update(s)
      PROVE  ram'[c] = ram[c]
  <2>1. echo_ptr \in Nat /\ echo_ptr < Period /\ Period \in Nat
    BY <1>1, LenFits, Constants DEF IInv, TypeOK, PtrInRegion, Period, Cell
  <2>2. PtrSeen \in 0 .. Period - 1
    BY <2>1 DEF PtrSeen
  <2>3. CellAt(esa, PtrSeen) \in Region
    BY <2>2 DEF Region
  <2>4. c # CellAt(esa, PtrSeen)
    BY <1>1, <2>3
  <2>5. ram' = ram \/ ram' = [ram EXCEPT ![CellAt(esa, PtrSeen)] = s]
    BY <1>1, Zenon DEF Update
  <2> QED BY <1>1, <2>4, <2>5 DEF IInv, TypeOK
<1>2. IInv /\ [Next]_vars =>
        [since # "resized" =>
           \A c \in Cell \ Region :
             (\E s \in Sample : Update(s)) => ram'[c] = ram[c]]_vars
  BY <1>1
<1> QED BY <1>2, Invariance, PTL DEF Spec, OnlyRegionWritten

-----------------------------------------------------------------------------
(* The delay line.  Remainders of what is less than two turns. *)
LEMMA ModTwice ==
  ASSUME NEW n \in Int, n > 0, NEW a \in Int, 0 <= a, a < 2 * n
  PROVE  a % n = IF a < n THEN a ELSE a - n
<1>1. CASE a < n
  BY <1>1, SMTT(20)
<1>2. CASE a >= n
  BY <1>2, SMTT(20)
<1> QED BY <1>1, <1>2

LEMMA ShiftIs ==
  ASSUME NEW S, NEW n \in Nat \ {0}, NEW l \in [1 .. n -> S], NEW s \in S,
         NEW m \in [1 .. n -> S],
         \A i \in 1 .. n - 1 : m[i] = l[i + 1], m[n] = s
  PROVE  /\ Head(l) = l[1]
         /\ m = Append(Tail(l), s)
<1>1. l \in Seq(S) /\ Len(l) = n /\ m \in Seq(S) /\ Len(m) = n
  OBVIOUS
<1>2. Head(l) = l[1]
  BY <1>1
<1>3. Tail(l) \in Seq(S) /\ Len(Tail(l)) = n - 1
  BY <1>1
<1>4. \A i \in 1 .. n - 1 : Tail(l)[i] = l[i + 1]
  BY <1>1
<1> DEFINE k == Append(Tail(l), s)
<1>5. k \in Seq(S) /\ Len(k) = n
  BY <1>3
<1>6. \A i \in 1 .. n : k[i] = m[i]
  BY <1>3, <1>4
<1> QED BY <1>1, <1>2, <1>5, <1>6, SeqEqual

LEMMA PushIs ==
  ASSUME NEW S, NEW n \in Nat \ {0}, NEW l \in [1 .. n -> S], NEW s \in S,
         NEW m \in [1 .. n -> S],
         \A i \in 2 .. n : m[i] = l[i - 1], m[1] = s
  PROVE  m = <<s>> \o SubSeq(l, 1, n - 1)
<1>1. l \in Seq(S) /\ Len(l) = n /\ m \in Seq(S) /\ Len(m) = n
  OBVIOUS
<1> DEFINE t == SubSeq(l, 1, n - 1)
           k == <<s>> \o t
<1>2. t \in Seq(S) /\ Len(t) = n - 1 /\ \A i \in 1 .. n - 1 : t[i] = l[i]
  BY <1>1
<1> HIDE DEF t
<1>3. k \in Seq(S) /\ Len(k) = n
  BY <1>2
<1>4. \A i \in 1 .. n : k[i] = m[i]
  BY <1>2
<1> QED BY <1>1, <1>3, <1>4, SeqEqual DEF t

LEMMA SameTurn ==
  ASSUME NEW n \in Int, NEW b \in Int, 0 <= b, b < n,
         NEW p \in Int, 0 <= p, p < n, NEW q \in Int, 0 <= q, q < n,
         (b + p) % n = (b + q) % n
  PROVE  p = q
<1> DEFINE x == b + p
           y == b + q
<1>1. /\ x \in Int /\ 0 <= x /\ x < 2 * n /\ x = b + p
      /\ y \in Int /\ 0 <= y /\ y < 2 * n /\ y = b + q
      /\ n > 0 /\ x % n = y % n
  OBVIOUS
<1> HIDE DEF x, y
<1>2. x % n = IF x < n THEN x ELSE x - n
  BY <1>1, ModTwice
<1>3. y % n = IF y < n THEN y ELSE y - n
  BY <1>1, ModTwice
<1> DEFINE u == x % n
           w == y % n
<1>4. u = w /\ (u = x \/ u = x - n) /\ (w = y \/ w = y - n)
  BY <1>1, <1>2, <1>3
<1> HIDE DEF u, w
<1> QED BY <1>1, <1>4

(* No two places of the pointer are the same cell. *)
LEMMA Distinct ==
  ASSUME NEW e \in EsaValues, NEW p \in Cell, NEW q \in Cell,
         CellAt(e, p) = CellAt(e, q)
  PROVE  p = q
<1> DEFINE b == e * PageCells
<1>1. b \in Nat /\ b < Cells /\ Cells \in Nat \ {0}
  BY Constants DEF EsaValues, Cell
<1>2. (b + p) % Cells = (b + q) % Cells
  BY DEF CellAt
<1> HIDE DEF b
<1>3. /\ p \in Int /\ q \in Int /\ 0 <= p /\ p < Cells /\ 0 <= q /\ q < Cells
      /\ b \in Int /\ 0 <= b /\ Cells \in Int
  BY <1>1 DEF Cell
<1> QED BY <1>1, <1>2, <1>3, SameTurn

LineNow == [i \in 1 .. Period |-> ram[CellAt(esa, (Start + i - 1) % Period)]]
TapsNow == [i \in 1 .. RingTaps |-> fir[(firptr + i) % RingTaps]]
Astray == echo_ptr >= Period

(* Where the line is: the i-th sample of it, and where that stands. *)
LEMMA LineIs ==
  ASSUME TypeOK
  PROVE  /\ Period \in Nat \ {0} /\ Period <= Cells
         /\ Start \in 0 .. Period - 1
         /\ \A i \in 1 .. Period : (Start + i - 1) % Period \in 0 .. Period - 1
         /\ LineNow \in [1 .. Period -> Sample]
<1>1. Period \in Nat \ {0} /\ Period <= Cells /\ Cells \in Nat
  BY LenFits, Constants DEF TypeOK, Period
<1>2. Start \in 0 .. Period - 1
  BY <1>1 DEF Start, TypeOK, Cell
<1>3. ASSUME NEW i \in 1 .. Period
      PROVE  (Start + i - 1) % Period \in 0 .. Period - 1
  <2>1. Start + i - 1 \in Nat
    BY <1>2
  <2> QED BY <1>1, <2>1, ModIn
<1>4. ASSUME NEW i \in 1 .. Period
      PROVE  ram[CellAt(esa, (Start + i - 1) % Period)] \in Sample
  <2>1. (Start + i - 1) % Period \in Cell
    BY <1>1, <1>3 DEF Cell
  <2> QED BY <2>1, AddressIsCell DEF TypeOK
<1> QED BY <1>1, <1>2, <1>3, <1>4 DEF LineNow

LEMMA LineIsLine ==
  ASSUME TypeOK
  PROVE  LineNow \in Line!Lines /\ Len(LineNow) = Period
<1>1. Period \in Nat \ {0} /\ LineNow \in [1 .. Period -> Sample]
  BY LineIs
<1>2. LineNow \in Seq(Sample) /\ Len(LineNow) = Period
  BY <1>1
<1> QED BY <1>1, <1>2 DEF Line!Lines

LineFacts ==
  /\ Period \in Nat \ {0} /\ Start \in 0 .. Period - 1
  /\ LineNow \in [1 .. Period -> Sample] /\ LineNow \in Line!Lines

LEMMA LineIsNow == TypeOK => LineFacts
<1> SUFFICES ASSUME TypeOK PROVE LineFacts
  OBVIOUS
<1> QED BY LineIs, LineIsLine DEF LineFacts

LEMMA LineIsNext == TypeOK' => LineFacts'
BY LineIsNow, PTL

LEMMA TapsIs ==
  ASSUME TypeOK
  PROVE  TapsNow \in [1 .. RingTaps -> Sample]
<1>1. ASSUME NEW i \in 1 .. RingTaps PROVE fir[(firptr + i) % RingTaps] \in Sample
  <2>1. firptr + i \in Nat
    BY Constants DEF TypeOK
  <2>2. (firptr + i) % RingTaps \in 0 .. RingTaps - 1
    BY <2>1, Constants, ModIn
  <2> QED BY <2>2 DEF TypeOK
<1> QED BY <1>1 DEF TapsNow

(* An update puts what it hears before the samples heard last. *)
LEMMA TapsShift ==
  ASSUME TypeOK, NEW x \in Sample, NEW f \in [0 .. RingTaps - 1 -> Sample],
         NEW p \in 0 .. RingTaps - 1,
         fir' = [f EXCEPT ![p] = x], firptr' = AfterTaps(p)
  PROVE  /\ TapsNow'[1] = x
         /\ \A i \in 2 .. RingTaps : TapsNow'[i] = f[(p + (i - 1)) % RingTaps]
         /\ TapsNow' \in [1 .. RingTaps -> Sample]
<1>1. RingTaps \in Nat \ {0} /\ p \in Nat /\ p < RingTaps
  BY Constants
<1> DEFINE q == firptr'
<1>2. q = (p + (RingTaps - 1)) % RingTaps /\ q \in Nat
  <2>1. p + (RingTaps - 1) \in Nat
    BY <1>1
  <2> QED BY <1>1, <2>1, ModIn DEF AfterTaps
<1>3. q = IF p = 0 THEN RingTaps - 1 ELSE p - 1
  <2>1. p + (RingTaps - 1) \in Nat /\ p + (RingTaps - 1) < 2 * RingTaps
    BY <1>1
  <2>2. (p + (RingTaps - 1)) % RingTaps =
          IF p + (RingTaps - 1) < RingTaps THEN p + (RingTaps - 1)
                                           ELSE p + (RingTaps - 1) - RingTaps
    BY <1>1, <2>1, ModTwice
  <2> QED BY <1>1, <1>2, <2>2
<1>4. TapsNow' = [i \in 1 .. RingTaps |-> fir'[(q + i) % RingTaps]]
  BY DEF TapsNow
<1> HIDE DEF q
<1>5. ASSUME NEW i \in 1 .. RingTaps
      PROVE  /\ (q + i) % RingTaps \in 0 .. RingTaps - 1
             /\ (q + i) % RingTaps = (p + (i - 1)) % RingTaps
             /\ (q + i) % RingTaps = p <=> i = 1
  <2>1. /\ q + i \in Nat /\ q + i < 2 * RingTaps
        /\ p + (i - 1) \in Nat /\ p + (i - 1) < 2 * RingTaps
    BY <1>1, <1>2, <1>3
  <2> DEFINE m == q + i
             k == p + (i - 1)
  <2>2. /\ m \in Int /\ 0 <= m /\ m < 2 * RingTaps
        /\ k \in Int /\ 0 <= k /\ k < 2 * RingTaps /\ RingTaps \in Int /\ RingTaps > 0
    BY <1>1, <2>1
  <2> HIDE DEF m, k
  <2>3. /\ m % RingTaps = IF m < RingTaps THEN m ELSE m - RingTaps
        /\ k % RingTaps = IF k < RingTaps THEN k ELSE k - RingTaps
    BY <2>2, ModTwice
  <2> USE DEF m, k
  <2> QED BY <1>1, <1>2, <1>3, <2>1, <2>3
<1>6. 1 \in 1 .. RingTaps /\ \A i \in 2 .. RingTaps : i \in 1 .. RingTaps /\ i # 1
  BY <1>1
<1>7. TapsNow'[1] = x
  BY <1>1, <1>4, <1>5, <1>6
<1>8. ASSUME NEW i \in 2 .. RingTaps PROVE TapsNow'[i] = f[(p + (i - 1)) % RingTaps]
  BY <1>4, <1>5, <1>6
<1>9. ASSUME NEW i \in 1 .. RingTaps PROVE fir'[(q + i) % RingTaps] \in Sample
  BY <1>5
<1> QED BY <1>4, <1>7, <1>8, <1>9

LEMMA HeardShift ==
  ASSUME TypeOK, NEW x \in Sample,
         fir' = [fir EXCEPT ![firptr] = x], firptr' = AfterTaps(firptr)
  PROVE  TapsNow' = <<x>> \o SubSeq(TapsNow, 1, RingTaps - 1)
<1>1. firptr \in 0 .. RingTaps - 1 /\ fir \in [0 .. RingTaps - 1 -> Sample]
  BY DEF TypeOK
<1>2. /\ TapsNow'[1] = x
      /\ \A i \in 2 .. RingTaps : TapsNow'[i] = fir[(firptr + (i - 1)) % RingTaps]
      /\ TapsNow' \in [1 .. RingTaps -> Sample]
  BY <1>1, TapsShift
<1>3. RingTaps \in Nat \ {0}
  BY Constants
<1>4. \A i \in 2 .. RingTaps : TapsNow'[i] = TapsNow[i - 1]
  <2>1. \A i \in 2 .. RingTaps : i - 1 \in 1 .. RingTaps
    BY <1>3
  <2> QED BY <1>2, <2>1 DEF TapsNow
<1> QED BY <1>2, <1>3, <1>4, TapsIs, PushIs

(* A reset leaves one sample, what it heard, before silence. *)
LEMMA ResetShift ==
  ASSUME TypeOK, NEW x \in Sample,
         fir' = [NoEcho EXCEPT ![0] = x], firptr' = AfterTaps(0)
  PROVE  TapsNow' = [Line!Silence EXCEPT ![1] = x]
<1>1. /\ 0 \in 0 .. RingTaps - 1 /\ RingTaps \in Nat \ {0}
      /\ NoEcho \in [0 .. RingTaps - 1 -> Sample]
  BY Constants DEF NoEcho
<1>2. /\ TapsNow'[1] = x
      /\ \A i \in 2 .. RingTaps : TapsNow'[i] = NoEcho[(0 + (i - 1)) % RingTaps]
      /\ TapsNow' \in [1 .. RingTaps -> Sample]
  BY <1>1, TapsShift
<1>3. ASSUME NEW i \in 2 .. RingTaps PROVE TapsNow'[i] = Zero
  <2>1. 0 + (i - 1) \in Nat
    OBVIOUS
  <2>2. (0 + (i - 1)) % RingTaps \in 0 .. RingTaps - 1
    BY <1>1, <2>1, ModIn
  <2> QED BY <1>2, <2>2 DEF NoEcho
<1>4. \A i \in 1 .. RingTaps : i = 1 \/ i \in 2 .. RingTaps
  BY <1>1
<1> QED BY <1>1, <1>2, <1>3, <1>4 DEF Line!Silence

(* Nothing moves the pointer or the registers: the line is the memory's. *)
LEMMA NextStart ==
  ASSUME TypeOK, edl' = edl, echo_ptr' = NextPtr(echo_ptr), echo_ptr < Period
  PROVE  /\ Period' = Period /\ Start' = (Start + 1) % Period
         /\ Start = echo_ptr /\ Start' = echo_ptr'
<1>1. Period \in Nat \ {0} /\ echo_ptr \in Nat /\ Cells \in Nat
  BY LineIs, Constants DEF TypeOK, Cell
<1>2. PICK len \in 0 .. Cells : len = EchoLen(edl) /\ Period = IF len = 0 THEN 1 ELSE len
  BY LenFits DEF TypeOK, Period
<1>3. Period' = Period
  BY DEF Period
<1>4. echo_ptr' = IF echo_ptr + 1 >= len THEN 0 ELSE echo_ptr + 1
  BY <1>2 DEF NextPtr
<1>5. echo_ptr' \in Nat /\ echo_ptr' < Period
  BY <1>1, <1>2, <1>4
<1>6. Start = echo_ptr /\ Start' = echo_ptr'
  BY <1>3, <1>5 DEF Start
<1>7. (echo_ptr + 1) % Period = echo_ptr'
  <2>1. CASE Period = 1
    <3>1. echo_ptr + 1 = 1 /\ echo_ptr' = 0
      BY <1>1, <1>5, <2>1
    <3> QED BY <2>1, <3>1
  <2>2. CASE Period > 1
    <3>1. echo_ptr + 1 \in Nat /\ echo_ptr + 1 < 2 * Period
      BY <1>1, <2>2
    <3>2. (echo_ptr + 1) % Period = IF echo_ptr + 1 < Period THEN echo_ptr + 1
                                                             ELSE echo_ptr + 1 - Period
      BY <1>1, <3>1, ModTwice
    <3> QED BY <1>1, <1>2, <1>4, <2>2, <3>2
  <2> QED BY <1>1, <2>1, <2>2
<1> QED BY <1>3, <1>6, <1>7

(* A sample heard in the region: the line moves on by one. *)
LEMMA HearStep ==
  ASSUME IInv, NEW s \in Sample, Update(s), TypeOK', ~reset, ~Astray
  PROVE  Line!Hear(s) \/ Line!HearAgain
<1> USE DEF IInv
<1> DEFINE at == CellAt(esa, echo_ptr)
           w == IF frozen' THEN ram[at] ELSE s
<1>1. /\ Period \in Nat \ {0} /\ Period <= Cells
      /\ Start \in 0 .. Period - 1 /\ LineNow \in [1 .. Period -> Sample]
  BY LineIs
<1>2. echo_ptr \in Cell /\ at \in Cell /\ ram \in [Cell -> Sample] /\ echo_ptr < Period
      /\ esa \in EsaValues /\ Cells \in Nat
  <2>1. echo_ptr \in Cell /\ ram \in [Cell -> Sample] /\ esa \in EsaValues
    BY DEF TypeOK
  <2>2. echo_ptr < Period /\ Cells \in Nat
    BY <1>1, <2>1, Constants DEF Astray, Cell
  <2> QED BY <2>1, <2>2, AddressIsCell
<1>3. /\ fir' = [fir EXCEPT ![firptr] = ram[at]] /\ firptr' = AfterTaps(firptr)
      /\ echo_ptr' = NextPtr(echo_ptr) /\ esa' = esa /\ edl' = edl
  BY DEF Update, PtrSeen, FirSeen, FirPtrSeen
<1>4. ram' = [ram EXCEPT ![at] = w]
  <2>1. ram' = IF frozen' THEN ram ELSE [ram EXCEPT ![at] = s]
    BY DEF Update, PtrSeen
  <2> QED BY <1>2, <2>1
<1>5. ram[at] \in Sample /\ w \in Sample
  BY <1>2
<1>6. /\ Period' = Period /\ Start' = (Start + 1) % Period
      /\ Start = echo_ptr /\ Start' = echo_ptr'
  BY <1>2, <1>3, NextStart
<1>7. LineNow' \in [1 .. Period -> Sample] /\ Start' \in 0 .. Period - 1
  BY <1>6, LineIsNext DEF LineFacts
<1> HIDE DEF w
<1>8. LineNow[1] = ram[at]
  <2>1. 1 \in 1 .. Period /\ Start + 1 - 1 = Start
    BY <1>1
  <2>2. Start % Period = Start
    BY <1>1, SMTT(20)
  <2> QED BY <1>6, <2>1, <2>2 DEF LineNow
<1>9. ASSUME NEW i \in 1 .. Period
      PROVE  LineNow'[i] = ram'[CellAt(esa, (Start' + i - 1) % Period)]
  BY <1>3, <1>6 DEF LineNow
<1>10. ASSUME NEW i \in 1 .. Period
       PROVE  /\ (Start' + i - 1) % Period = (Start + i) % Period
              /\ (Start + i) % Period = (IF Start + i < Period THEN Start + i ELSE Start + i - Period)
  <2> DEFINE p == Period
             t == Start
             u == Start'
  <2>1. p \in Nat \ {0} /\ t \in 0 .. p - 1 /\ u \in 0 .. p - 1 /\ u = (t + 1) % p /\ i \in 1 .. p
    BY <1>1, <1>6, <1>7
  <2> HIDE DEF p, t, u
  <2>2. \A a \in Int : 0 <= a /\ a < 2 * p => a % p = IF a < p THEN a ELSE a - p
    BY <2>1, ModTwice
  <2>3. /\ t + 1 \in Nat /\ (t + 1 < 2 * p \/ p = 1)
        /\ u + i - 1 \in Nat /\ u + i - 1 < 2 * p
        /\ t + i \in Nat /\ t + i < 2 * p
    BY <2>1
  <2>4. u = IF t + 1 < p THEN t + 1 ELSE 0
    <3>1. CASE p = 1
      BY <2>1, <3>1
    <3>2. CASE p > 1
      <4>1. t + 1 < 2 * p
        BY <2>1, <3>2
      <4> QED BY <2>1, <2>2, <2>3, <4>1
    <3> QED BY <2>1, <3>1, <3>2
  <2> DEFINE x == t + i
             y == u + i - 1
  <2>5. x \in Int /\ 0 <= x /\ x < 2 * p /\ y \in Int /\ 0 <= y /\ y < 2 * p
    BY <2>1, <2>3
  <2> HIDE DEF x, y
  <2>6. /\ x % p = (IF x < p THEN x ELSE x - p)
        /\ y % p = (IF y < p THEN y ELSE y - p)
    BY <2>2, <2>5
  <2> USE DEF x, y
  <2> QED BY <2>1, <2>4, <2>6 DEF p, t, u
<1>11. ASSUME NEW i \in 1 .. Period - 1
       PROVE  LineNow'[i] = LineNow[i + 1]
  <2>1. i \in 1 .. Period /\ i + 1 \in 1 .. Period /\ Start + (i + 1) - 1 = Start + i
    BY <1>1
  <2> DEFINE k == (Start + i) % Period
  <2>2. k \in Cell /\ k # echo_ptr
    <3>1. k = (IF Start + i < Period THEN Start + i ELSE Start + i - Period)
      BY <1>10, <2>1
    <3> HIDE DEF k
    <3> QED BY <1>1, <1>2, <1>6, <2>1, <3>1 DEF Cell
  <2>3. CellAt(esa, k) \in Cell /\ CellAt(esa, k) # at
    BY <1>2, <2>2, Distinct, AddressIsCell
  <2>4. LineNow'[i] = ram'[CellAt(esa, k)]
    BY <1>9, <1>10, <2>1
  <2>5. LineNow[i + 1] = ram[CellAt(esa, k)]
    BY <2>1 DEF LineNow
  <2> QED BY <1>2, <1>4, <2>3, <2>4, <2>5
<1>12. LineNow'[Period] = w
  <2>1. Period \in 1 .. Period /\ (Start + Period) % Period = Start
    BY <1>1, <1>10
  <2>2. LineNow'[Period] = ram'[at]
    BY <1>6, <1>9, <1>10, <2>1
  <2> QED BY <1>2, <1>4, <2>2
<1>13. Head(LineNow) = ram[at] /\ LineNow' = Append(Tail(LineNow), w)
  BY <1>1, <1>5, <1>7, <1>8, <1>11, <1>12, ShiftIs
<1>14. TapsNow' = <<Head(LineNow)>> \o SubSeq(TapsNow, 1, RingTaps - 1)
  BY <1>3, <1>5, <1>13, HeardShift
<1>15. ~Astray /\ ~Astray'
  <2>1. echo_ptr' \in Nat /\ echo_ptr' < Period
    BY <1>6, <1>7, <1>1
  <2> QED BY <1>1, <1>6, <2>1 DEF Astray
<1>16. Line!Hear(w)
  <2>1. ~(echo_ptr >= Period) /\ ~(echo_ptr >= Period)'
    BY <1>15 DEF Astray
  <2>2. UNCHANGED (echo_ptr >= Period)
    BY <2>1
  <2>3. Line!Shift(Head(LineNow))
    BY <1>14 DEF Line!Shift, TapsNow
  <2> QED BY <1>13, <2>1, <2>2, <2>3 DEF Line!Hear, LineNow
<1>17. w = s \/ w = Head(LineNow)
  BY <1>13 DEF w
<1> QED BY <1>16, <1>17 DEF Line!HearAgain, LineNow

(* One sample heard from outside the region: the line stays. *)
LEMMA StrayStep ==
  ASSUME IInv, NEW s \in Sample, Update(s), TypeOK', ~reset, Astray
  PROVE  Line!HearStray
<1> USE DEF IInv
<1> DEFINE at == CellAt(esa, echo_ptr)
<1>1. /\ Period \in Nat \ {0} /\ Period <= Cells
      /\ LineNow \in [1 .. Period -> Sample]
      /\ \A i \in 1 .. Period : (Start + i - 1) % Period \in 0 .. Period - 1
  BY LineIs
<1>2. /\ echo_ptr \in Cell /\ at \in Cell /\ ram \in [Cell -> Sample]
      /\ esa \in EsaValues /\ Cells \in Nat /\ echo_ptr \in Nat /\ echo_ptr >= Period
  <2>1. echo_ptr \in Cell /\ ram \in [Cell -> Sample] /\ esa \in EsaValues
    BY DEF TypeOK
  <2>2. echo_ptr >= Period /\ Cells \in Nat /\ echo_ptr \in Nat
    BY <1>1, <2>1, Constants DEF Astray, Cell
  <2> QED BY <2>1, <2>2, AddressIsCell
<1>3. /\ fir' = [fir EXCEPT ![firptr] = ram[at]] /\ firptr' = AfterTaps(firptr)
      /\ echo_ptr' = NextPtr(echo_ptr) /\ esa' = esa /\ edl' = edl
      /\ (ram' = ram \/ ram' = [ram EXCEPT ![at] = s])
  <2>1. ram' = ram \/ ram' = [ram EXCEPT ![at] = s]
    BY Zenon DEF Update, PtrSeen
  <2> QED BY <2>1 DEF Update, PtrSeen, FirSeen, FirPtrSeen
<1>4. Period' = Period /\ Start' = 0 /\ Start = 0 /\ ~Astray'
  <2>1. PICK len \in 0 .. Cells : len = EchoLen(edl) /\ Period = IF len = 0 THEN 1 ELSE len
    BY LenFits DEF TypeOK, Period
  <2>2. echo_ptr' = 0
    BY <1>1, <1>2, <1>3, <2>1 DEF NextPtr
  <2>3. Period' = Period
    BY <1>3 DEF Period
  <2>4. ~(echo_ptr < Period) /\ 0 < Period /\ ~(0 >= Period)
    BY <1>1, <1>2
  <2> QED BY <2>2, <2>3, <2>4 DEF Start, Astray
<1>5. ASSUME NEW i \in 1 .. Period
      PROVE  ram'[CellAt(esa, (Start + i - 1) % Period)] = ram[CellAt(esa, (Start + i - 1) % Period)]
  <2> DEFINE k == (Start + i - 1) % Period
  <2>1. k \in 0 .. Period - 1
    BY <1>1
  <2> HIDE DEF k
  <2>2. k \in Cell /\ k # echo_ptr
    BY <1>1, <1>2, <2>1 DEF Cell
  <2>3. CellAt(esa, k) \in Cell /\ CellAt(esa, k) # at
    BY <1>2, <2>2, Distinct, AddressIsCell
  <2>4. ram'[CellAt(esa, k)] = ram[CellAt(esa, k)]
    BY <1>2, <1>3, <2>3
  <2> QED BY <2>4 DEF k
<1>6. LineNow' = LineNow
  BY <1>3, <1>4, <1>5 DEF LineNow
<1>7. ram[at] \in Sample
  BY <1>2
<1>8. TapsNow' = <<ram[at]>> \o SubSeq(TapsNow, 1, RingTaps - 1)
  BY <1>3, <1>7, HeardShift
<1>9. echo_ptr >= Period /\ (echo_ptr >= Period)' = FALSE
  BY <1>2, <1>4 DEF Astray
<1>10. \E t \in Sample : TapsNow' = <<t>> \o SubSeq(TapsNow, 1, RingTaps - 1)
  BY <1>7, <1>8
<1>11. UNCHANGED [i \in 1 .. Period |-> ram[CellAt(esa, (Start + i - 1) % Period)]]
  BY <1>6 DEF LineNow
<1> QED BY <1>9, <1>10, <1>11 DEF Line!HearStray, Line!Shift, TapsNow

(* An update with the reset bit set. *)
LEMMA ResetStep ==
  ASSUME IInv, NEW s \in Sample, Update(s), TypeOK', reset
  PROVE  Line!Restart
<1> USE DEF IInv
<1> DEFINE at == CellAt(esa, 0)
<1>1. 0 \in Cell /\ esa \in EsaValues /\ edl \in EdlValues /\ ram \in [Cell -> Sample]
  BY Constants DEF TypeOK, Cell
<1>2. ram[at] \in Sample
  BY <1>1, AddressIsCell
<1>3. /\ fir' = [NoEcho EXCEPT ![0] = ram[at]] /\ firptr' = AfterTaps(0)
      /\ echo_ptr' = NextPtr(0) /\ edl' = edl
  BY DEF Update, PtrSeen, FirSeen, FirPtrSeen
<1>4. TapsNow' = [Line!Silence EXCEPT ![1] = ram[at]]
  BY <1>2, <1>3, ResetShift
<1>5. (echo_ptr >= Period)' = FALSE
  <2>1. NextPtr(0) \in Cell /\ NextPtr(0) < Period
    BY <1>1, NextPtrFits
  <2>2. Period' = Period /\ Period \in Nat
    BY <1>3, LineIs DEF Period
  <2> QED BY <1>3, <2>1, <2>2, Constants DEF Cell
<1>6. LineNow' \in Line!Lines
  BY LineIsNext DEF LineFacts
<1> QED BY <1>2, <1>4, <1>5, <1>6 DEF Line!Restart, LineNow, TapsNow

(* Whatever the song, or the loading of one, does to the registers and the
   memory moves the line and leaves the samples heard alone. *)
LEMMA MoveStep ==
  ASSUME TypeOK', Load \/ LoadFails \/ Write
  PROVE  Line!Move
<1>1. UNCHANGED <<fir, firptr>>
  BY DEF Load, LoadSong, LoadFails, Write, WriteEsa, WriteEdl, WriteFlg, WriteRam
<1>2. TapsNow' = TapsNow
  BY <1>1 DEF TapsNow
<1>3. LineNow' \in Line!Lines
  BY LineIsNext DEF LineFacts
<1>4. (echo_ptr >= Period)' \in BOOLEAN
  OBVIOUS
<1> QED BY <1>2, <1>3, <1>4 DEF Line!Move, LineNow, TapsNow

LEMMA LineInit == Init => Line!Init
<1> SUFFICES ASSUME Init PROVE Line!Init
  OBVIOUS
<1>1. TypeOK
  BY InitInv DEF IInv
<1>2. LineNow \in Line!Lines
  BY <1>1, LineIsLine
<1>3. TapsNow = Line!Silence
  <2>1. ASSUME NEW i \in 1 .. RingTaps PROVE NoEcho[(0 + i) % RingTaps] = Zero
    <3>1. 0 + i \in Nat
      OBVIOUS
    <3>2. (0 + i) % RingTaps \in 0 .. RingTaps - 1
      BY <3>1, Constants, ModIn
    <3> QED BY <3>2 DEF NoEcho
  <2> QED BY <2>1 DEF Init, TapsNow, Line!Silence
<1>4. (echo_ptr >= Period) = FALSE
  BY <1>1, LineIs DEF Init
<1> QED BY <1>2, <1>3, <1>4 DEF Line!Init, LineNow, TapsNow

(* The echo is a delay line of Period samples: each update hears the sample
   entered Period updates ago, the filter weighs the samples heard last in
   their order, a change of EDL lets at most one stray sample be heard, and
   nothing else disturbs the order (dsp.c:573-687). *)
THEOREM EchoIsDelayLine == Spec => DelayLine
<1>1. ASSUME IInv, IInv', [Next]_vars
      PROVE  [Line!Next]_<<LineNow, TapsNow, Astray>>
  <2>1. TypeOK'
    BY <1>1 DEF IInv
  <2>2. CASE Load \/ LoadFails \/ Write
    BY <2>1, <2>2, MoveStep DEF Line!Next
  <2>3. ASSUME NEW s \in Sample, Update(s) PROVE Line!Next
    BY <1>1, <2>1, <2>3, HearStep, StrayStep, ResetStep DEF Line!Next
  <2>4. CASE UNCHANGED vars
    BY <2>4 DEF vars, regs, LineNow, TapsNow, Astray, Start, Period
  <2> QED BY <1>1, <2>2, <2>3, <2>4 DEF Next
<1>2. IInv /\ IInv' /\ [Next]_vars => [Line!Next]_<<LineNow, TapsNow, Astray>>
  BY <1>1
<1> QED BY LineInit, <1>2, Invariance, PTL
        DEF Spec, DelayLine, Line!Spec, LineNow, TapsNow, Astray

-----------------------------------------------------------------------------
(* The amplitudes. *)

LEMMA Interval ==
  ASSUME NEW lo \in Int, NEW hi \in Int, NEW x
  PROVE  x \in lo .. hi <=> x \in Int /\ lo <= x /\ x <= hi
OBVIOUS

LEMMA InBits16 ==
  ASSUME NEW x
  PROVE  x \in Bits16 <=> x \in Int /\ -32768 <= x /\ x <= 32767
<1>1. Min16 \in Int /\ Max16 \in Int
  BY DEF Min16, Max16
<1>2. x \in Bits16 <=> x \in Int /\ Min16 <= x /\ x <= Max16
  BY <1>1 DEF Bits16
<1> QED BY <1>2 DEF Min16, Max16

(* Shifts and clipping keep to 16 bits, and doubling leaves an even number. *)
LEMMA Sixteen ==
  ASSUME NEW x \in Int
  PROVE  /\ Wrap16(x) \in Bits16
         /\ Clip16(x) \in Bits16
         /\ Wrap16(2 * x) % 2 = 0
<1>1. Wrap16(x) \in Int /\ -32768 <= Wrap16(x) /\ Wrap16(x) <= 32767
  BY SMTT(20) DEF Wrap16
<1>2. -32768 <= Clip16(x) /\ Clip16(x) <= 32767 /\ Clip16(x) \in Int
  BY DEF Clip16, Min16, Max16
<1>3. Wrap16(2 * x) % 2 = 0
  BY SMTT(20) DEF Wrap16
<1> QED BY <1>1, <1>2, <1>3, InBits16

(* A number within 16 bits is left as it is. *)
LEMMA NoWrap ==
  ASSUME NEW x \in Int, -32768 <= x, x <= 32767
  PROVE  Wrap16(x) = x /\ Clip16(x) = x
<1>1. x + 32768 \in Int /\ 0 <= x + 32768 /\ x + 32768 <= 65535
  OBVIOUS
<1>2. \A y \in Int : 0 <= y /\ y <= 65535 => y % 65536 = y
  BY SMTT(20)
<1>3. (x + 32768) % 65536 = x + 32768
  BY <1>1, <1>2
<1>4. Wrap16(x) = x
  BY <1>3 DEF Wrap16
<1>5. Clip16(x) = x
  BY DEF Clip16, Min16, Max16
<1> QED BY <1>4, <1>5

LEMMA PowerType ==
  ASSUME NEW r \in 0 .. 12
  PROVE  Power[r + 1] \in Nat
<1>1. Power \in Seq(Nat) /\ Len(Power) = 13
  BY DEF Power
<1>2. r + 1 \in 1 .. Len(Power)
  BY <1>1
<1> QED BY <1>1, <1>2, ElementOfSeq

(* A half byte, shifted, is a number. *)
LEMMA DeltaType ==
  ASSUME NEW n \in -8 .. 7, NEW r \in 0 .. 15
  PROVE  Delta(n, r) \in Int
<1>1. CASE r <= 12
  <2>1. PICK p \in Nat : p = Power[r + 1]
    BY <1>1, PowerType
  <2>2. n * p \in Int
    BY <2>1
  <2>3. Delta(n, r) = (n * p) \div 2
    BY <1>1, <2>1 DEF Delta
  <2> QED BY <2>2, <2>3
<1>2. CASE r > 12
  BY <1>2 DEF Delta
<1> QED BY <1>1, <1>2

(* Filters shift what they are given by constants, and err by rounding down
   twice at most. *)
LEMMA FilterBound ==
  ASSUME NEW f \in 0 .. 3, NEW p1 \in Int, NEW p2 \in Int,
         p1 % 2 = 0, p2 % 2 = 0
  PROVE  /\ Filter(f, p1, p2) \in Int
         /\ Ideal(f, p1, p2) - 128 * Filter(f, p1, p2) \in 0 .. 255
<1>1. CASE f = 0
  BY <1>1 DEF Filter, Ideal
<1>2. CASE f = 1
  <2>1. /\ Filter1(p1) \in Int
        /\ 0 <= 60 * p1 - 128 * Filter1(p1) /\ 60 * p1 - 128 * Filter1(p1) <= 255
    BY SMTT(20) DEF Filter1
  <2> QED BY <1>2, <2>1 DEF Filter, Ideal
<1>3. CASE f = 2
  <2> DEFINE e == 122 * p1 - 60 * p2 - 128 * Filter2(p1, p2)
  <2>1. Filter2(p1, p2) \in Int /\ 0 <= e /\ e <= 255
    BY SMTT(20) DEF Filter2
  <2> QED BY <1>3, <2>1 DEF Filter, Ideal
<1>4. CASE f = 3
  <2> DEFINE e == 115 * p1 - 52 * p2 - 128 * Filter3(p1, p2)
  <2>1. Filter3(p1, p2) \in Int /\ 0 <= e /\ e <= 255
    BY SMTT(20) DEF Filter3
  <2> QED BY <1>4, <2>1 DEF Filter, Ideal
<1> QED BY <1>1, <1>2, <1>3, <1>4

(* Histories: two samples of 16 bits, of which the last is 0. *)
Past(h) ==
  /\ h \in [smp1 : Bits16, smp2 : Bits16]
  /\ h.smp1 % 2 = 0 /\ h.smp2 % 2 = 0

LEMMA DecodedPast ==
  ASSUME NEW n \in -8 .. 7, NEW hd \in [range : 0 .. 15, filter : 0 .. 3],
         NEW h, Past(h)
  PROVE  Past(Decoded(n, hd, h))
<1> DEFINE f == Filter(hd.filter, h.smp1, h.smp2)
           d == Delta(n, hd.range)
           c == Clip16(d + f)
<1>1. f \in Int
  <2>1. h.smp1 \in Int /\ h.smp2 \in Int /\ h.smp1 % 2 = 0 /\ h.smp2 % 2 = 0
    BY InBits16 DEF Past
  <2>2. hd.filter \in 0 .. 3
    OBVIOUS
  <2> QED BY <2>1, <2>2, FilterBound
<1>2. d \in Int
  BY DeltaType
<1>3. c \in Int
  <2>1. d + f \in Int
    BY <1>1, <1>2
  <2> QED BY <2>1, Sixteen, InBits16
<1>4. Decoded(n, hd, h) = [smp1 |-> Wrap16(2 * c), smp2 |-> h.smp1]
  BY DEF Decoded
<1> HIDE DEF c
<1>5. 2 * c \in Int
  BY <1>3
<1>6. Wrap16(2 * c) \in Bits16
  BY <1>5, Sixteen
<1>7. Wrap16(2 * c) % 2 = 0
  BY <1>3, Sixteen
<1> QED BY <1>4, <1>6, <1>7 DEF Past

-----------------------------------------------------------------------------
(* The interpolation. *)

(* The four weights of a position, and their sum. *)
LEMMA WeightFacts ==
  ASSUME NEW pos \in Position
  PROVE  /\ Weights(pos)[1] \in Nat /\ Weights(pos)[2] \in Nat
         /\ Weights(pos)[3] \in Nat /\ Weights(pos)[4] \in Nat
         /\ Weights(pos) \in [Window -> Nat]
         /\ WeightSum(pos) \in 2047 .. 2049
<1>1. Gauss \in [0 .. 2 * Turn - 1 -> Nat] /\ WeightSum(pos) \in 2047 .. 2049
  BY GaussAssumption DEF GaussAssumption
<1>2. Turn \in Int /\ Turn = 256
  BY DEF Turn
<1>3. /\ -1 - pos \in 0 .. 2 * Turn - 1 /\ 255 - pos \in 0 .. 2 * Turn - 1
      /\ 512 + pos \in 0 .. 2 * Turn - 1 /\ 256 + pos \in 0 .. 2 * Turn - 1
  BY <1>2 DEF Position
<1>4. /\ Gauss[-1 - pos] \in Nat /\ Gauss[255 - pos] \in Nat
      /\ Gauss[512 + pos] \in Nat /\ Gauss[256 + pos] \in Nat
  BY <1>1, <1>3
<1> QED BY <1>1, <1>4 DEF Weights, Window

(* A product with a weight is between those of the bounds of its sample. *)
LEMMA Scales ==
  ASSUME NEW w \in Nat, NEW s \in Int, NEW lo \in Int, NEW hi \in Int,
         lo <= s, s <= hi
  PROVE  w * s \in Int /\ w * lo <= w * s /\ w * s <= w * hi
<1>1. \A k \in Nat : w * k \in Nat
  OBVIOUS
<1>2. PICK k \in Nat : k = s - lo
  OBVIOUS
<1>3. PICK l \in Nat : l = hi - s
  OBVIOUS
<1>4. w * s = w * lo + w * k
  BY <1>2, SMTT(20)
<1>5. w * hi = w * s + w * l
  BY <1>3, SMTT(20)
<1>6. w * lo \in Int /\ w * s \in Int /\ w * hi \in Int
  OBVIOUS
<1>7. w * k \in Nat /\ w * l \in Nat
  BY <1>1
<1> QED BY <1>4, <1>5, <1>6, <1>7

(* What is cut off a product: less than two, and it is even. *)
LEMMA TermBound ==
  ASSUME NEW p \in Int
  PROVE  /\ 2 * (p \div 4096) \in Int
         /\ 2048 * (2 * (p \div 4096)) <= p
         /\ p - 4095 <= 2048 * (2 * (p \div 4096))
BY SMTT(20)

(* The sum of four products with weights that add up to nearly 2048: near the
   samples, and not wrapped before the last addition. *)
CutProduct(w, s, k) == 2 * ((w[k] * s[k]) \div 4096)

LEMMA SumNear ==
  ASSUME NEW w \in [Window -> Nat], NEW s \in [Window -> Int],
         w[1] + w[2] + w[3] + w[4] \in 2047 .. 2049,
         NEW lo \in Int, NEW hi \in Int, -32000 <= lo, lo <= hi, hi <= 32000,
         \A k \in Window : lo <= s[k] /\ s[k] <= hi
  PROVE  /\ \A k \in Window : CutProduct(w, s, k) \in Int
         /\ -32768 <= CutProduct(w, s, 1) + CutProduct(w, s, 2) + CutProduct(w, s, 3)
         /\ CutProduct(w, s, 1) + CutProduct(w, s, 2) + CutProduct(w, s, 3) <= 32767
         /\ lo - 24 <= CutProduct(w, s, 1) + CutProduct(w, s, 2)
                         + CutProduct(w, s, 3) + CutProduct(w, s, 4)
         /\ CutProduct(w, s, 1) + CutProduct(w, s, 2)
              + CutProduct(w, s, 3) + CutProduct(w, s, 4) <= hi + 24
<1> DEFINE w1 == w[1]  w2 == w[2]  w3 == w[3]  w4 == w[4]
           s1 == s[1]  s2 == s[2]  s3 == s[3]  s4 == s[4]
           t1 == CutProduct(w, s, 1)  t2 == CutProduct(w, s, 2)
           t3 == CutProduct(w, s, 3)  t4 == CutProduct(w, s, 4)
<1>a. 1 \in Window /\ 2 \in Window /\ 3 \in Window /\ 4 \in Window
  BY DEF Window
<1>b. /\ w1 \in Nat /\ w2 \in Nat /\ w3 \in Nat /\ w4 \in Nat
      /\ s1 \in Int /\ s2 \in Int /\ s3 \in Int /\ s4 \in Int
      /\ w1 + w2 + w3 + w4 \in 2047 .. 2049
      /\ lo <= s1 /\ s1 <= hi /\ lo <= s2 /\ s2 <= hi
      /\ lo <= s3 /\ s3 <= hi /\ lo <= s4 /\ s4 <= hi
  BY <1>a
<1>c. /\ t1 = 2 * ((w1 * s1) \div 4096) /\ t2 = 2 * ((w2 * s2) \div 4096)
      /\ t3 = 2 * ((w3 * s3) \div 4096) /\ t4 = 2 * ((w4 * s4) \div 4096)
  BY DEF CutProduct
<1>d. \A k \in Window : CutProduct(w, s, k) \in Int
  <2> TAKE k \in Window
  <2>1. PICK a \in Int : a = w[k] * s[k]
    OBVIOUS
  <2> QED BY <2>1, TermBound DEF CutProduct
<1>e. t1 \in Int /\ t2 \in Int /\ t3 \in Int /\ t4 \in Int
  BY <1>a, <1>d
<1> HIDE DEF w1, w2, w3, w4, s1, s2, s3, s4, t1, t2, t3, t4
<1> DEFINE p1 == w1 * s1  p2 == w2 * s2  p3 == w3 * s3  p4 == w4 * s4
           m == w1 + w2 + w3
           n == m + w4
<1>1. /\ p1 \in Int /\ w1 * lo <= p1 /\ p1 <= w1 * hi
      /\ p2 \in Int /\ w2 * lo <= p2 /\ p2 <= w2 * hi
      /\ p3 \in Int /\ w3 * lo <= p3 /\ p3 <= w3 * hi
      /\ p4 \in Int /\ w4 * lo <= p4 /\ p4 <= w4 * hi
  BY <1>b, Scales
<1>2. /\ 2048 * t1 <= p1 /\ p1 - 4095 <= 2048 * t1
      /\ 2048 * t2 <= p2 /\ p2 - 4095 <= 2048 * t2
      /\ 2048 * t3 <= p3 /\ p3 - 4095 <= 2048 * t3
      /\ 2048 * t4 <= p4 /\ p4 - 4095 <= 2048 * t4
  <2> HIDE DEF p1, p2, p3, p4
  <2> QED BY <1>1, <1>c, TermBound DEF p1, p2, p3, p4
<1>3. m \in Nat /\ n \in Nat /\ m <= 2049 /\ 2047 <= n /\ n <= 2049
  BY <1>b
<1>4. /\ n * lo \in Int /\ m * lo \in Int /\ n * hi \in Int /\ m * hi \in Int
      /\ n * lo = w1 * lo + w2 * lo + w3 * lo + w4 * lo
      /\ n * hi = w1 * hi + w2 * hi + w3 * hi + w4 * hi
      /\ m * lo = w1 * lo + w2 * lo + w3 * lo
      /\ m * hi = w1 * hi + w2 * hi + w3 * hi
  BY <1>b, SMTT(20)
<1>5. \A x \in Int, k \in Nat :
        -32000 <= x /\ x <= 32000 /\ k <= 2049
          => k * x \in Int /\ -65568000 <= k * x /\ k * x <= 65568000
  <2> TAKE x \in Int, k \in Nat
  <2> HAVE -32000 <= x /\ x <= 32000 /\ k <= 2049
  <2>1. k * x \in Int /\ k * (-32000) <= k * x /\ k * x <= k * 32000
    BY Scales
  <2> QED BY <2>1
<1>6. \A x \in Int, k \in Nat :
        -32000 <= x /\ x <= 32000 /\ 2047 <= k /\ k <= 2049
          => /\ 2048 * x - 32000 <= k * x
             /\ k * x <= 2048 * x + 32000
  <2> TAKE x \in Int, k \in Nat
  <2> HAVE -32000 <= x /\ x <= 32000 /\ 2047 <= k /\ k <= 2049
  <2>1. CASE k = 2047 BY <2>1
  <2>2. CASE k = 2048 BY <2>2
  <2>3. CASE k = 2049 BY <2>3
  <2> QED BY <2>1, <2>2, <2>3
<1> HIDE DEF p1, p2, p3, p4, m, n
<1>7. -65568000 <= m * lo /\ m * hi <= 65568000
  BY <1>3, <1>5
<1>8. 2048 * lo - 32000 <= n * lo /\ n * hi <= 2048 * hi + 32000
  BY <1>3, <1>6
<1>9. m * lo <= p1 + p2 + p3 /\ p1 + p2 + p3 <= m * hi
  <2>1. /\ w1 * lo \in Int /\ w2 * lo \in Int /\ w3 * lo \in Int
        /\ w1 * hi \in Int /\ w2 * hi \in Int /\ w3 * hi \in Int
    BY <1>b
  <2> QED BY <1>1, <1>4, <2>1
<1>10. n * lo <= p1 + p2 + p3 + p4 /\ p1 + p2 + p3 + p4 <= n * hi
  <2>1. /\ w1 * lo \in Int /\ w2 * lo \in Int /\ w3 * lo \in Int /\ w4 * lo \in Int
        /\ w1 * hi \in Int /\ w2 * hi \in Int /\ w3 * hi \in Int /\ w4 * hi \in Int
    BY <1>b
  <2> QED BY <1>1, <1>4, <2>1
<1>11. /\ 2048 * (t1 + t2 + t3) <= 65568000
       /\ -65568000 - 12285 <= 2048 * (t1 + t2 + t3)
  BY <1>1, <1>2, <1>4, <1>7, <1>9, <1>e
<1>12. /\ 2048 * (t1 + t2 + t3 + t4) <= 2048 * hi + 32000
       /\ 2048 * lo - 32000 - 16380 <= 2048 * (t1 + t2 + t3 + t4)
  BY <1>1, <1>2, <1>4, <1>8, <1>10, <1>e
<1>13. /\ -32768 <= t1 + t2 + t3 /\ t1 + t2 + t3 <= 32767
       /\ lo - 24 <= t1 + t2 + t3 + t4 /\ t1 + t2 + t3 + t4 <= hi + 24
  BY <1>11, <1>12, <1>e
<1> QED BY <1>13, <1>d DEF t1, t2, t3, t4

LEMMA Enclosed ==
  ASSUME window \in [Window -> Bits16],
         \A k \in Window : -Loud <= window[k] /\ window[k] <= Loud,
         NEW pos \in Position
  PROVE  EnclosedBy(Interpolated(pos))
<1>1. \A k \in Window : window[k] \in Int /\ -32000 <= window[k] /\ window[k] <= 32000
  BY InBits16 DEF Loud
<1>2. PICK h \in Window : \A k \in Window : window[k] <= window[h]
  BY <1>1 DEF Window
<1>3. PICK l \in Window : \A k \in Window : window[l] <= window[k]
  BY <1>1 DEF Window
<1> DEFINE w == Weights(pos)
           t(k) == CutProduct(w, window, k)
<1>4. w \in [Window -> Nat] /\ w[1] + w[2] + w[3] + w[4] \in 2047 .. 2049
  BY WeightFacts DEF WeightSum
<1>5. 1 \in Window /\ 2 \in Window /\ 3 \in Window /\ 4 \in Window
  BY DEF Window
<1>6. \A k \in Window : Term(k, pos) = t(k)
  BY DEF Term, CutProduct
<1>7. window \in [Window -> Int]
  BY <1>1
<1>8. /\ window[l] \in Int /\ window[h] \in Int
      /\ -32000 <= window[l] /\ window[l] <= window[h] /\ window[h] <= 32000
      /\ \A k \in Window : window[l] <= window[k] /\ window[k] <= window[h]
  BY <1>1, <1>2, <1>3
<1> HIDE DEF w
<1>9. /\ \A k \in Window : t(k) \in Int
      /\ -32768 <= t(1) + t(2) + t(3) /\ t(1) + t(2) + t(3) <= 32767
      /\ window[l] - 24 <= t(1) + t(2) + t(3) + t(4)
      /\ t(1) + t(2) + t(3) + t(4) <= window[h] + 24
  <2>1. PICK lo \in Int : lo = window[l]
    BY <1>8
  <2>2. PICK hi \in Int : hi = window[h]
    BY <1>8
  <2>3. /\ -32000 <= lo /\ lo <= hi /\ hi <= 32000
        /\ \A k \in Window : lo <= window[k] /\ window[k] <= hi
    BY <1>8, <2>1, <2>2
  <2> QED BY <1>4, <1>7, <2>1, <2>2, <2>3, SumNear, SMTT(30)
<1> HIDE DEF t
<1> DEFINE a == t(1) + t(2) + t(3)
           b == a + t(4)
<1>10. a \in Int /\ b \in Int /\ -32768 <= b /\ b <= 32767
  BY <1>5, <1>8, <1>9
<1>11. Interpolated(pos) = b
  <2>1. Interpolated(pos) = Clip16(Wrap16(a) + t(4))
    BY <1>5, <1>6 DEF Interpolated
  <2>2. -32768 <= a /\ a <= 32767
    BY <1>9
  <2> HIDE DEF a
  <2>3. Wrap16(a) = a
    BY <1>10, <2>2, NoWrap
  <2> HIDE DEF b
  <2>4. Clip16(b) = b
    BY <1>10, NoWrap
  <2> QED BY <2>1, <2>3, <2>4 DEF b
<1>12. b <= window[h] + 24 /\ b >= window[l] - 24
  BY <1>8, <1>9, <1>10
<1> HIDE DEF b
<1> QED BY <1>11, <1>12 DEF EnclosedBy

-----------------------------------------------------------------------------
(* The decoder's invariant. *)

LEMMA FilterSame ==
  ASSUME NEW f \in 0 .. 3, NEW p1 \in Int, NEW p2 \in Int,
         NEW q1 \in Int, NEW q2 \in Int,
         f >= 1 => p1 = q1, f >= 2 => p2 = q2
  PROVE  Filter(f, p1, p2) = Filter(f, q1, q2)
<1>1. CASE f = 0 BY <1>1 DEF Filter
<1>2. CASE f = 1 BY <1>2 DEF Filter
<1>3. CASE f >= 2
  <2>1. p1 = q1 /\ p2 = q2
    BY <1>3
  <2> QED BY <2>1
<1> QED BY <1>1, <1>2, <1>3

DecInv == DecTypeOK /\ HistoryForgotten

LEMMA DecInitInv == DecInit => DecInv
<1> SUFFICES ASSUME DecInit PROVE DecInv
  OBVIOUS
<1>1. Past(hist) /\ Past(ghost)
  BY DecoderAssumption DEF DecInit, DecoderAssumption, Past
<1>2. BlockSamples \in Nat
  BY DecoderAssumption DEF DecoderAssumption
<1>3. 0 \in Bits16
  BY InBits16
<1>4. window \in [Window -> Bits16]
  BY <1>3 DEF DecInit
<1>a. on \in BOOLEAN
  BY Zenon DEF DecInit
<1>5. /\ step \in {"start", "decode", "mix"}
      /\ header \in [range : 0 .. 15, filter : 0 .. 3]
      /\ left \in 0 .. BlockSamples /\ due \in Nat /\ outx \in Bits16
      /\ known \in 0 .. 2 /\ age \in Nat
  BY <1>2, <1>3 DEF DecInit
<1>7. DecTypeOK
  BY <1>1, <1>4, <1>5, <1>a, Zenon DEF DecTypeOK, Past
<1>6. HistoryForgotten
  BY DEF DecInit, HistoryForgotten
<1> QED BY <1>6, <1>7 DEF DecInv

LEMMA InterpolatedType ==
  ASSUME window \in [Window -> Bits16], NEW pos \in Position
  PROVE  Interpolated(pos) \in Bits16
<1>1. \A k \in Window : window[k] \in Int /\ Weights(pos)[k] \in Nat
  BY InBits16, WeightFacts DEF Window
<1>2. \A k \in Window : Term(k, pos) \in Int
  <2> TAKE k \in Window
  <2>1. PICK a \in Int : a = Weights(pos)[k] * window[k]
    BY <1>1
  <2>2. 2 * (a \div 4096) \in Int
    BY TermBound
  <2> QED BY <2>1, <2>2 DEF Term
<1>3. PICK a \in Int : a = Term(1, pos) + Term(2, pos) + Term(3, pos)
  BY <1>2 DEF Window
<1>4. Wrap16(a) \in Int
  BY Sixteen, InBits16
<1>5. Wrap16(a) + Term(4, pos) \in Int
  BY <1>2, <1>4 DEF Window
<1> QED BY <1>3, <1>5, Sixteen DEF Interpolated

LEMMA DecNextInv ==
  ASSUME DecInv, DecNext
  PROVE  DecInv'
<1> USE DEF DecInv, DecTypeOK
<1>p. Past(hist) /\ Past(ghost)
  BY DEF Past
<1>1. CASE KeyOn
  <2>1. Past(ghost') /\ hist' = hist
    BY <1>1, DecoderAssumption DEF KeyOn, DecoderAssumption, Past
  <2>2. on' \in BOOLEAN
    BY <1>1, Zenon DEF KeyOn
  <2>3. BlockSamples \in Nat
    BY DecoderAssumption DEF DecoderAssumption
  <2>4. DecTypeOK'
    BY <1>1, <2>1, <2>2, <2>3 DEF KeyOn, Past
  <2>5. HistoryForgotten'
    BY <1>1 DEF KeyOn, HistoryForgotten
  <2> QED BY <2>4, <2>5
<1>2. CASE NextUpdate
  BY <1>2 DEF NextUpdate, HistoryForgotten
<1>3. CASE SilentUpdate
  <2>1. 0 \in Bits16
    BY InBits16
  <2> QED BY <1>3, <2>1 DEF SilentUpdate, HistoryForgotten
<1>4. ASSUME NEW hd \in Headers, ReadHeader(hd)
      PROVE  DecInv'
  <2>1. hd \in [range : 0 .. 15, filter : 0 .. 3] /\ BlockSamples \in Nat
    BY DecoderAssumption DEF DecoderAssumption
  <2> QED BY <1>4, <2>1 DEF ReadHeader, HistoryForgotten
<1>5. ASSUME NEW n \in Nibbles, Decode(n)
      PROVE  DecInv'
  <2>1. n \in -8 .. 7
    BY DecoderAssumption DEF DecoderAssumption
  <2>2. /\ hist' = Decoded(n, header, hist)
        /\ ghost' = Decoded(n, header, ghost)
    BY <1>5 DEF Decode
  <2>3. Past(hist') /\ Past(ghost')
    BY <1>p, <2>1, <2>2, DecodedPast
  <2>4. window' \in [Window -> Bits16]
    <3>1. hist'.smp1 \in Bits16
      BY <2>3 DEF Past
    <3>2. window' = Shifted(hist'.smp1)
      BY <1>5 DEF Decode
    <3>3. \A k \in Window : k = 4 \/ k + 1 \in Window
      BY DEF Window
    <3> QED BY <3>1, <3>2, <3>3 DEF Shifted
  <2> DEFINE f == header.filter
  <2>5. /\ f \in 0 .. 3 /\ known' = KnownAfter(f)
        /\ hist.smp1 \in Int /\ hist.smp2 \in Int
        /\ ghost.smp1 \in Int /\ ghost.smp2 \in Int
    BY <1>5, InBits16 DEF Decode
  <2>6. known' \in 0 .. 2
    BY <2>5 DEF KnownAfter, LooksBack
  <2>7. DecTypeOK'
    <3>1. left' \in 0 .. BlockSamples /\ due' \in Nat /\ age' \in Nat
      BY <1>5, DecoderAssumption DEF Decode, DecoderAssumption
    <3>2. UNCHANGED <<step, on, header, outx>>
      BY <1>5 DEF Decode
    <3> HIDE DEF f
    <3> QED BY <2>3, <2>4, <2>6, <3>1, <3>2 DEF Past
  <2>8. ASSUME known' >= 1
        PROVE  hist'.smp1 = ghost'.smp1
    <3>1. (f >= 1 => hist.smp1 = ghost.smp1) /\ (f >= 2 => hist.smp2 = ghost.smp2)
      BY <2>5, <2>8 DEF KnownAfter, LooksBack, HistoryForgotten
    <3>2. Filter(f, hist.smp1, hist.smp2) = Filter(f, ghost.smp1, ghost.smp2)
      BY <2>5, <3>1, FilterSame
    <3> QED BY <2>2, <3>2 DEF Decoded
  <2>9. ASSUME known' = 2
        PROVE  hist' = ghost'
    <3>1. known >= 1
      BY <2>5, <2>9 DEF KnownAfter, LooksBack
    <3>2. hist.smp1 = ghost.smp1
      BY <3>1 DEF HistoryForgotten
    <3>3. hist'.smp1 = ghost'.smp1
      BY <2>8, <2>9
    <3> QED BY <2>2, <3>2, <3>3 DEF Decoded
  <2> QED BY <2>7, <2>8, <2>9 DEF HistoryForgotten
<1>6. CASE EndOfSample
  <2>1. 0 \in Bits16
    BY InBits16
  <2>2. window' \in [Window -> Bits16]
    BY <1>6, <2>1 DEF EndOfSample, Window
  <2>3. on' \in BOOLEAN
    BY <1>6, Zenon DEF EndOfSample
  <2> QED BY <1>6, <2>2, <2>3 DEF EndOfSample, HistoryForgotten
<1>7. CASE DecodeDone
  BY <1>7 DEF DecodeDone, HistoryForgotten
<1>8. ASSUME NEW pos \in Positions, NEW d \in 0 .. MaxDue, Interpolate(pos, d)
      PROVE  DecInv'
  <2>1. pos \in Position /\ d \in Nat
    BY DecoderAssumption DEF DecoderAssumption
  <2>2. outx' \in Bits16
    BY <1>8, <2>1, InterpolatedType DEF Interpolate
  <2> QED BY <1>8, <2>1, <2>2 DEF Interpolate, HistoryForgotten
<1> QED BY <1>1, <1>2, <1>3, <1>4, <1>5, <1>6, <1>7, <1>8 DEF DecNext

-----------------------------------------------------------------------------
(* The noise generator. *)

LEMMA NoiseNextInv ==
  ASSUME NoiseTypeOK, NoiseNext
  PROVE  NoiseTypeOK'
<1> USE DEF NoiseTypeOK
<1>c. /\ CntInit \in Int /\ CntInit > 0
      /\ FullPeriod \in Int /\ FullPeriod > 0
      /\ Top \in Int /\ 1 <= Top /\ Top <= FullPeriod
  BY DEF CntInit, Top, FullPeriod
<1>1. CASE NoiseReset
  BY <1>1, <1>c DEF NoiseReset
<1>2. ASSUME NEW count \in NoiseCounts, NoiseUpdate(count)
      PROVE  NoiseTypeOK'
  <2>1. count \in Int /\ 0 <= count /\ noise_cnt \in Int /\ noise_cnt <= CntInit
    BY <1>c, NoiseAssumption DEF NoiseAssumption
  <2>2. noise_lev \in Int /\ 1 <= noise_lev /\ noise_lev <= FullPeriod
    BY <1>c
  <2>3. /\ NextLevel(noise_lev) \in Int
        /\ 1 <= NextLevel(noise_lev) /\ NextLevel(noise_lev) <= FullPeriod
    <3> DEFINE b == (Bit0(noise_lev) + Bit1(noise_lev)) % 2
    <3>1. b \in {0, 1}
      BY <2>2, SMTT(20) DEF Bit0, Bit1
    <3>2. noise_lev = 1 => b = 1
      BY SMTT(20) DEF Bit0, Bit1
    <3>3. NextLevel(noise_lev) = Top * b + noise_lev \div 2
      BY DEF NextLevel
    <3> HIDE DEF b
    <3>4. PICK x \in Int : x = noise_lev /\ 1 <= x /\ x <= 32767
      BY <2>2 DEF FullPeriod
    <3>5. PICK y : y = NextLevel(noise_lev)
      OBVIOUS
    <3>6. y = 16384 * b + x \div 2
      BY <3>3, <3>4, <3>5 DEF Top
    <3>7. y \in Int /\ 1 <= y /\ y <= 32767
      <4>1. CASE b = 1
        BY <3>4, <3>6, <4>1, SMTT(20)
      <4>2. CASE b = 0
        BY <3>2, <3>4, <3>6, <4>2, SMTT(20)
      <4> QED BY <3>1, <4>1, <4>2
    <3> QED BY <3>5, <3>7 DEF FullPeriod
  <2>4. CASE noise_cnt - count <= 0
    <3>1. noise_cnt' = CntInit /\ noise_lev' = NextLevel(noise_lev)
      BY <1>2, <2>4 DEF NoiseUpdate
    <3>2. moves' = (moves + 1) % FullPeriod
      BY <1>2, <2>4 DEF NoiseUpdate
    <3>3. moves' \in 0 .. FullPeriod - 1
      BY <1>c, <3>2, SMTT(20)
    <3>4. noise_lev' \in 1 .. FullPeriod
      BY <1>c, <2>3, <3>1
    <3>5. noise_cnt' \in 0 .. CntInit
      BY <1>c, <3>1
    <3> QED BY <3>3, <3>4, <3>5
  <2>5. CASE ~(noise_cnt - count <= 0)
    BY <1>2, <1>c, <2>1, <2>5 DEF NoiseUpdate
  <2> QED BY <2>4, <2>5
<1> QED BY <1>1, <1>2 DEF NoiseNext

-----------------------------------------------------------------------------
(* The mixer. *)

LEMMA InWord16 ==
  ASSUME NEW x
  PROVE  x \in Word16 <=> x \in Int /\ -32768 <= x /\ x <= 32767
<1>1. MinWord \in Int /\ MaxWord \in Int
  BY DEF MinWord, MaxWord
<1>2. x \in Word16 <=> x \in Int /\ MinWord <= x /\ x <= MaxWord
  BY <1>1 DEF Word16
<1> QED BY <1>2 DEF MinWord, MaxWord

LEMMA InVol ==
  ASSUME NEW x
  PROVE  x \in Vol <=> x \in Int /\ -128 <= x /\ x <= 127
<1>1. VolMin \in Int /\ VolMax \in Int
  BY DEF VolMin, VolMax
<1>2. x \in Vol <=> x \in Int /\ VolMin <= x /\ x <= VolMax
  BY <1>1 DEF Vol
<1> QED BY <1>2 DEF VolMin, VolMax

(* A product is no larger than that of the sizes. *)
LEMMA ProductBound ==
  ASSUME NEW a \in Int, NEW b \in Int, NEW m \in Nat, NEW n \in Nat,
         -m <= a, a <= m, -n <= b, b <= n
  PROVE  a * b \in Int /\ m * n \in Nat /\ -(m * n) <= a * b /\ a * b <= m * n
<1>1. \A x, y \in Nat : x <= m /\ y <= n => x * y \in Nat /\ x * y <= m * n
  <2> TAKE x, y \in Nat
  <2> HAVE x <= m /\ y <= n
  <2>1. x * y <= x * n /\ n * x <= n * m
    BY Scales
  <2>2. n * x = x * n /\ n * m = m * n
    BY SMTT(20)
  <2>3. x * y \in Nat /\ x * n \in Int /\ m * n \in Int
    OBVIOUS
  <2> QED BY <2>1, <2>2, <2>3
<1>2. PICK x \in Nat : x <= m /\ (a = x \/ a = -x)
  BY a \in Nat \/ -a \in Nat
<1>3. PICK y \in Nat : y <= n /\ (b = y \/ b = -y)
  BY b \in Nat \/ -b \in Nat
<1>4. x * y \in Nat /\ x * y <= m * n
  BY <1>1, <1>2, <1>3
<1>5. a * b = x * y \/ a * b = -(x * y)
  BY <1>2, <1>3, SMTT(20)
<1>6. m * n \in Nat
  OBVIOUS
<1> QED BY <1>4, <1>5, <1>6

(* What a voice adds: its sample, scaled, and its part at a volume. *)
LEMMA VoiceBounds ==
  ASSUME NEW s \in Word16, NEW env \in 0 .. EnvTop, NEW vol \in Vol
  PROVE  /\ Scaled(s, env) \in Word16
         /\ \A x \in Word16 : /\ Part(x, vol) \in Int
                              /\ -32768 <= Part(x, vol) /\ Part(x, vol) <= 32768
<1>1. Scaled(s, env) \in Word16
  <2>1. /\ s \in Int /\ -32768 <= s /\ s <= 32768
        /\ env \in Int /\ -2047 <= env /\ env <= 2047
    BY InWord16 DEF EnvTop
  <2>2. PICK p \in Int : p = s * env /\ -67076096 <= p /\ p <= 67076096
    <3>1. s * env \in Int /\ -(32768 * 2047) <= s * env /\ s * env <= 32768 * 2047
      BY <2>1, ProductBound
    <3> QED BY <3>1
  <2>3. Scaled(s, env) = 2 * (p \div 4096)
    BY <2>2 DEF Scaled
  <2>4. /\ 2 * (p \div 4096) \in Int
        /\ -32768 <= 2 * (p \div 4096) /\ 2 * (p \div 4096) <= 32767
    BY <2>2, SMTT(20)
  <2> QED BY <2>3, <2>4, InWord16
<1>2. ASSUME NEW x \in Word16
      PROVE  /\ Part(x, vol) \in Int
             /\ -32768 <= Part(x, vol) /\ Part(x, vol) <= 32768
  <2>1. /\ x \in Int /\ -32768 <= x /\ x <= 32768
        /\ vol \in Int /\ -128 <= vol /\ vol <= 128
    BY InWord16, InVol
  <2>2. PICK p \in Int : p = vol * x /\ -4194304 <= p /\ p <= 4194304
    <3>1. vol * x \in Int /\ -(128 * 32768) <= vol * x /\ vol * x <= 128 * 32768
      BY <2>1, ProductBound
    <3> QED BY <3>1
  <2>3. Part(x, vol) = p \div 128
    BY <2>2 DEF Part
  <2>4. p \div 128 \in Int /\ -32768 <= p \div 128 /\ p \div 128 <= 32768
    BY <2>2, SMTT(20)
  <2> QED BY <2>3, <2>4
<1> QED BY <1>1, <1>2

(* A modulated voice moves on by less than eight samples. *)
LEMMA ModulatedBounds ==
  ASSUME NEW p \in 0 .. PitchTop, NEW x \in Word16
  PROVE  Modulated(p, x) \in 0 .. MovedTop
<1>1. p \in Nat /\ p <= 16383 /\ p <= PitchTop
  BY DEF PitchTop
<1>2. PICK y \in Nat : y = x + 32768 /\ y <= 65535
  BY InWord16
<1>3. PICK q \in Nat : q = p * y /\ q <= 1073659905
  <2>1. p * y \in Int /\ p * 0 <= p * y /\ p * y <= p * 65535
    BY <1>1, <1>2, Scales
  <2> QED BY <1>1, <2>1
<1>4. Modulated(p, x) = q \div 32768
  BY <1>2, <1>3 DEF Modulated
<1>5. q \div 32768 \in Int /\ 0 <= q \div 32768 /\ q \div 32768 <= 32767
  BY <1>3, SMTT(20)
<1>6. 0 <= Modulated(p, x) /\ Modulated(p, x) <= MovedTop /\ Modulated(p, x) \in Int
  BY <1>4, <1>5 DEF MovedTop
<1> QED
  <2>1. MovedTop \in Int
    BY DEF MovedTop
  <2> QED BY <1>6, <2>1

(* The product of the filter's sum and a volume, shifted. *)
LEMMA TermIsShift ==
  ASSUME NEW x \in Int, NEW c \in Int
  PROVE  /\ EchoTerm(x, c) = (x * c) \div 16384
         /\ EchoTerm(x, c) \in Int
<1>1. PICK q \in Int : q = x \div 16384
  OBVIOUS
<1>2. PICK r \in Int : r = x % 16384
  OBVIOUS
<1>3. x = 16384 * q + r
  BY <1>1, <1>2, SMTT(20)
<1>4. PICK a \in Int : a = q * c
  OBVIOUS
<1>5. PICK b \in Int : b = r * c
  OBVIOUS
<1>6. x * c = 16384 * a + b
  BY <1>3, <1>4, <1>5, SMTT(20)
<1>7. (16384 * a + b) \div 16384 = a + b \div 16384 /\ b \div 16384 \in Int
  BY SMTT(20)
<1>8. EchoTerm(x, c) = a + b \div 16384
  BY <1>1, <1>2, <1>4, <1>5 DEF EchoTerm
<1> QED BY <1>6, <1>7, <1>8

(* A product of 32 bits, as C computes it: what is beyond them is lost. *)
Int32(y) == ((y + 2147483648) % 4294967296) - 2147483648

LEMMA PartBounds ==
  ASSUME NEW x \in Int, NEW c \in Int
  PROVE  EchoPart(x, c) \in Int /\ -131072 <= EchoPart(x, c) /\ EchoPart(x, c) <= 131072
<1>1. PICK t \in Int : t = EchoTerm(x, c)
  BY TermIsShift
<1>2. /\ ((t + 131072) % 262144) - 131072 \in Int
      /\ -131072 <= ((t + 131072) % 262144) - 131072
      /\ ((t + 131072) % 262144) - 131072 <= 131072
  BY SMTT(20)
<1>3. EchoPart(x, c) = ((t + 131072) % 262144) - 131072
  BY <1>1 DEF EchoPart, Shifted32
<1> QED BY <1>2, <1>3

(* EchoPart, with its numbers below 2^32, is what the code computes: the
   product in 32 bits, shifted to the right by 14. *)
THEOREM EchoPartIsTheProduct ==
  ASSUME NEW x \in Int, NEW c \in Int
  PROVE  EchoPart(x, c) = Int32(x * c) \div 16384
<1>1. PICK y \in Int : y = x * c
  OBVIOUS
<1>2. EchoTerm(x, c) = y \div 16384
  BY <1>1, TermIsShift
<1>3. EchoPart(x, c) = ((y \div 16384 + 131072) % 262144) - 131072
  BY <1>2 DEF EchoPart, Shifted32
<1>4. Int32(y) \div 16384 = ((y \div 16384 + 131072) % 262144) - 131072
  <2>1. PICK z \in Int : z = y + 2147483648
    OBVIOUS
  <2>2. PICK m \in Int : m = z % 4294967296 /\ 0 <= m /\ m < 4294967296
    BY SMTT(20)
  <2>3. PICK k \in Int : z = 4294967296 * k + m
    <3>1. z \div 4294967296 \in Int /\ z = 4294967296 * (z \div 4294967296) + m
      BY <2>2, SMTT(20)
    <3> QED BY <3>1
  <2>4. PICK a \in Int, b \in Int : m = 16384 * a + b /\ 0 <= b /\ b < 16384
    <3>1. /\ m \div 16384 \in Int /\ m % 16384 \in Int
          /\ m = 16384 * (m \div 16384) + (m % 16384)
          /\ 0 <= m % 16384 /\ m % 16384 < 16384
      BY SMTT(20)
    <3> QED BY <3>1
  <2>5. \A q \in Int : (16384 * q + b) \div 16384 = q
    BY <2>4, SMTT(20)
  <2>6. 0 <= a /\ a < 262144
    BY <2>2, <2>4
  <2>7. \A l \in Int : (262144 * l + a) % 262144 = a
    BY <2>6, SMTT(20)
  <2>8. Int32(y) \div 16384 = a - 131072
    <3>1. Int32(y) = 16384 * (a - 131072) + b
      BY <2>1, <2>2, <2>4 DEF Int32
    <3> QED BY <2>5, <3>1
  <2>9. y \div 16384 = 262144 * k + a - 131072
    <3>1. y = 16384 * (262144 * k + a - 131072) + b
      BY <2>1, <2>3, <2>4
    <3> QED BY <2>5, <3>1
  <2>10. (y \div 16384 + 131072) % 262144 = a
    BY <2>7, <2>9
  <2> QED BY <2>8, <2>10
<1> QED BY <1>1, <1>3, <1>4

LEMMA ClippedType ==
  ASSUME NEW x \in Int
  PROVE  Clipped(x) \in Word16
<1>1. Clipped(x) \in Int /\ -32768 <= Clipped(x) /\ Clipped(x) <= 32767
  BY DEF Clipped, MinWord, MaxWord
<1> QED BY <1>1, InWord16

LEMMA MixConstants ==
  /\ Voices \in 0 .. 8 /\ Taps \in 0 .. 8
  /\ MovedTop \in Nat /\ SumTop \in Nat /\ EchoTop \in Nat
  /\ PitchTop \in Nat /\ PitchTop <= MovedTop
BY MixerAssumption DEF MixerAssumption, MovedTop, SumTop, EchoTop, PitchTop

(* What n voices can add up to. *)
Reach(n) == -(n * 32768) .. n * 32768

LEMMA AtMostEight ==
  ASSUME NEW n \in Nat, n <= 8
  PROVE  n * 32768 <= SumTop /\ n * 32768 \in Int
BY DEF SumTop

LEMMA MixInitInv == MixInit => MixTypeOK
<1> SUFFICES ASSUME MixInit PROVE MixTypeOK
  OBVIOUS
<1>1. 0 \in Word16
  BY InWord16
<1> QED BY <1>1, MixConstants DEF MixInit, MixTypeOK

LEMMA MixNextInv ==
  ASSUME MixTypeOK, MixNext
  PROVE  MixTypeOK'
<1>c. /\ Voices \in 0 .. 8 /\ Taps \in 0 .. 8
      /\ MovedTop \in Nat /\ SumTop \in Nat /\ EchoTop \in Nat
      /\ PitchTop \in Nat /\ PitchTop <= MovedTop
  BY MixConstants
<1>a. /\ v \in Nat /\ v <= Voices
      /\ outl \in Int /\ (phase # "rest" => -SumTop <= outl /\ outl <= SumTop)
      /\ echol \in Int /\ -SumTop <= echol /\ echol <= SumTop
      /\ phase = "voices" => /\ -(v * 32768) <= outl /\ outl <= v * 32768
                             /\ -(v * 32768) <= echol /\ echol <= v * 32768
      /\ tap \in Nat /\ gain \in Nat /\ gain <= tap * 128
      /\ vl \in Int /\ -(gain * 32768) <= vl /\ vl <= gain * 32768
  BY <1>c DEF MixTypeOK
<1>z. 0 \in Word16
  BY InWord16
<1>1. CASE BeginMix
  BY <1>1, <1>c, <1>z DEF BeginMix, MixTypeOK
<1>2. CASE SilentVoice
  <2>1. v' \in Nat /\ v' = v + 1 /\ v' <= Voices /\ v * 32768 <= v' * 32768
    BY <1>2, <1>a, <1>c DEF SilentVoice
  <2> QED BY <1>2, <1>a, <1>c, <1>z, <2>1 DEF SilentVoice, MixTypeOK
<1>3. ASSUME NEW s \in Samples, NEW env \in Envs, NEW vol \in Volumes,
             NEW p \in Pitches, NEW pmon \in BOOLEAN, NEW eon \in BOOLEAN,
             NEW muted \in BOOLEAN,
             SoundingVoice(s, env, vol, p, pmon, eon, muted)
      PROVE  MixTypeOK'
  <2>1. s \in Word16 /\ env \in 0 .. EnvTop /\ vol \in Vol /\ p \in 0 .. PitchTop
    BY MixerAssumption DEF MixerAssumption
  <2>2. PICK x \in Word16 : x = Scaled(s, env)
    BY <2>1, VoiceBounds
  <2>3. PICK d \in Int : d = Part(x, vol) /\ -32768 <= d /\ d <= 32768
    BY <2>1, VoiceBounds
  <2>4. /\ voice_outx' = x /\ v' = v + 1 /\ v < Voices /\ phase = "voices"
        /\ outl' = outl \/ outl' = outl + d
        /\ echol' = echol \/ echol' = echol + d
        /\ UNCHANGED <<phase, vl, tap, gain, heard>>
    BY <1>3, <2>2, <2>3 DEF SoundingVoice
  <2>5. moved' \in 0 .. MovedTop
    <3>1. moved' = p \/ moved' = Modulated(p, voice_outx)
      BY <1>3 DEF SoundingVoice
    <3>2. p \in 0 .. MovedTop
      BY <1>c, <2>1
    <3>3. Modulated(p, voice_outx) \in 0 .. MovedTop
      BY <2>1, ModulatedBounds DEF MixTypeOK
    <3> QED BY <3>1, <3>2, <3>3
  <2>6. /\ v \in Nat /\ v' \in Nat /\ v' <= 8 /\ v' \in 0 .. Voices
        /\ outl \in Int /\ -(v * 32768) <= outl /\ outl <= v * 32768
        /\ echol \in Int /\ -(v * 32768) <= echol /\ echol <= v * 32768
    BY <1>a, <1>c, <2>4
  <2>7. PICK n \in Nat : n = v + 1 /\ n <= 8
    BY <2>4, <2>6
  <2>8. /\ outl' \in Int /\ -(n * 32768) <= outl' /\ outl' <= n * 32768
         /\ echol' \in Int /\ -(n * 32768) <= echol' /\ echol' <= n * 32768
    BY <2>3, <2>4, <2>6, <2>7
  <2>9. v' = n
    BY <2>4, <2>7
  <2>10. n * 32768 <= SumTop /\ n * 32768 \in Int
    BY <2>7, AtMostEight
  <2>11. /\ -SumTop <= outl' /\ outl' <= SumTop
        /\ -SumTop <= echol' /\ echol' <= SumTop
    BY <1>c, <2>8, <2>10
  <2>12. outl' \in -SumTop .. SumTop /\ echol' \in -SumTop .. SumTop
    BY <1>c, <2>8, <2>11
  <2>13. outl' \in -(SumTop + EchoTop) .. SumTop + EchoTop
    BY <1>c, <2>8, <2>11
  <2>14. /\ outl' \in -(v' * 32768) .. v' * 32768
         /\ echol' \in -(v' * 32768) .. v' * 32768
    <3>1. outl' \in Reach(n) /\ echol' \in Reach(n)
      BY <2>8, <2>10 DEF Reach
    <3>2. outl' \in Reach(v') /\ echol' \in Reach(v')
      BY <3>1, <2>9, Zenon
    <3> QED BY <3>2 DEF Reach
  <2> QED BY <2>4, <2>5, <2>6, <2>12, <2>13, <2>14 DEF MixTypeOK
<1>4. ASSUME NEW vol \in Volumes, Master(vol)
      PROVE  MixTypeOK'
  <2>1. vol \in Int /\ -128 <= vol /\ vol <= 128
    BY MixerAssumption, InVol DEF MixerAssumption
  <2>2. outl \in Int /\ -262144 <= outl /\ outl <= 262144
    <3>1. outl \in Int /\ -SumTop <= outl /\ outl <= SumTop
      BY <1>4, <1>a DEF Master
    <3> QED BY <3>1 DEF SumTop
  <2>3. PICK q \in Int : q = outl * vol /\ -33554432 <= q /\ q <= 33554432
    <3>1. /\ outl * vol \in Int /\ -(262144 * 128) <= outl * vol
          /\ outl * vol <= 262144 * 128
      BY <2>1, <2>2, ProductBound
    <3> QED BY <3>1
  <2>4. q \div 128 \in Int /\ -262144 <= q \div 128 /\ q \div 128 <= 262144
    BY <2>3, SMTT(20)
  <2>5. outl' = q \div 128
    BY <1>4, <2>3 DEF Master
  <2>6. outl' \in Int /\ -SumTop <= outl' /\ outl' <= SumTop
    BY <2>4, <2>5 DEF SumTop
  <2>7. /\ outl' \in -(SumTop + EchoTop) .. SumTop + EchoTop
        /\ outl' \in -SumTop .. SumTop
    BY <1>c, <2>6
  <2>8. /\ phase' = "filter" /\ voice_outx' = 0 /\ moved' = 0
        /\ UNCHANGED <<v, echol, vl, tap, gain, heard>>
    BY <1>4 DEF Master
  <2> QED BY <1>c, <1>z, <2>7, <2>8 DEF MixTypeOK
<1>5. ASSUME NEW pr \in Products, FilterTap(pr[1], pr[2])
      PROVE  MixTypeOK'
  <2>1. PICK s \in Word16, c \in Vol : s = pr[1] /\ c = pr[2]
    BY MixerAssumption DEF MixerAssumption
  <2>2. /\ s \in Int /\ -32768 <= s /\ s <= 32768
        /\ c \in Int /\ -128 <= c /\ c <= 127
    BY InWord16, InVol
  <2>3. PICK z \in Nat : z = Size(c) /\ z <= 128 /\ -z <= c /\ c <= z
    BY <2>2 DEF Size
  <2>4. PICK q \in Int : q = s * c /\ -(z * 32768) <= q /\ q <= z * 32768
    <3>1. s * c \in Int /\ -(32768 * z) <= s * c /\ s * c <= 32768 * z
      BY <2>2, <2>3, ProductBound
    <3> QED BY <3>1
  <2>5. /\ vl' = vl + q /\ gain' = gain + z /\ tap' = tap + 1 /\ tap < Taps
        /\ UNCHANGED <<phase, v, voice_outx, moved, outl, echol, heard>>
    BY <1>5, <2>1, <2>3, <2>4 DEF FilterTap
  <2>6. tap \in Nat /\ gain \in Nat /\ gain <= tap * 128
        /\ vl \in Int /\ -(gain * 32768) <= vl /\ vl <= gain * 32768
    BY <1>a
  <2>7. /\ gain' \in 0 .. tap' * 128 /\ tap' \in 0 .. Taps
        /\ vl' \in -(gain' * 32768) .. gain' * 32768
    BY <1>c, <2>3, <2>4, <2>5, <2>6
  <2>8. phase = "filter"
    BY <1>5 DEF FilterTap
  <2> QED BY <2>5, <2>7, <2>8 DEF MixTypeOK
<1>6. ASSUME NEW evol \in Volumes, NEW efb \in Volumes, NEW no_echo \in BOOLEAN,
             NEW mute \in BOOLEAN, Finish(evol, efb, no_echo, mute)
      PROVE  MixTypeOK'
  <2>1. evol \in Int /\ efb \in Int /\ vl \in Int /\ echol \in Int
    BY <1>a, MixerAssumption, InVol DEF MixerAssumption
  <2>2. PICK d \in Int : d = EchoPart(vl, evol) /\ -131072 <= d /\ d <= 131072
    <3>1. PICK x \in Int, c \in Int : x = vl /\ c = evol
      BY <2>1
    <3>2. /\ EchoPart(x, c) \in Int
          /\ -131072 <= EchoPart(x, c) /\ EchoPart(x, c) <= 131072
      BY PartBounds
    <3> QED BY <3>1, <3>2
  <2>3. PICK e \in Int : e = EchoPart(vl, efb)
    BY <2>1, PartBounds
  <2>4. outl \in Int /\ -SumTop <= outl /\ outl <= SumTop
    BY <1>6, <1>a DEF Finish
  <2>5. -EchoTop <= d /\ d <= EchoTop
    BY <2>2 DEF EchoTop
  <2>6. outl' = outl + d
    BY <1>6, <2>2 DEF Finish
  <2>7. outl' \in -(SumTop + EchoTop) .. SumTop + EchoTop
    BY <1>c, <2>4, <2>5, <2>6
  <2>8. echol' \in -SumTop .. SumTop
    <3>1. echol' = echol \/ echol' = Clipped(echol + e)
      BY <1>6, <2>3 DEF Finish
    <3>2. PICK y \in Word16 : y = Clipped(echol + e)
      BY <2>1, ClippedType
    <3>3. y \in Int /\ -SumTop <= y /\ y <= SumTop
      <4>1. y \in Int /\ -32768 <= y /\ y <= 32767
        BY InWord16
      <4> QED BY <4>1 DEF SumTop
    <3>4. y \in -SumTop .. SumTop
      BY <1>c, <3>3
    <3>5. echol \in -SumTop .. SumTop
      BY <1>a, <1>c
    <3> QED BY <3>1, <3>2, <3>4, <3>5
  <2>9. heard' \in Word16
    <3>1. heard' = 0 \/ heard' = Clipped(outl')
      BY <1>6 DEF Finish
    <3>2. outl' \in Int
      BY <2>4, <2>6
    <3> QED BY <1>z, <3>1, <3>2, ClippedType
  <2>10. phase' = "rest" /\ UNCHANGED <<v, voice_outx, moved, vl, tap, gain>>
    BY <1>6 DEF Finish
  <2> QED BY <2>7, <2>8, <2>9, <2>10 DEF MixTypeOK
<1> QED BY <1>1, <1>2, <1>3, <1>4, <1>5, <1>6 DEF MixNext

-----------------------------------------------------------------------------
(* The three parts together. *)

SoundInv == DecInv /\ NoiseTypeOK /\ MixTypeOK

LEMMA SoundInitInv == SoundInit => SoundInv
<1> SUFFICES ASSUME SoundInit PROVE SoundInv
  OBVIOUS
<1>1. DecInv
  BY DecInitInv DEF SoundInit
<1>2. NoiseTypeOK
  <2>1. CntInit \in Nat /\ FullPeriod \in Int /\ 1 <= Top /\ Top <= FullPeriod /\ Top \in Int
    BY DEF CntInit, FullPeriod, Top
  <2> QED BY <2>1 DEF SoundInit, NoiseInit, NoiseTypeOK
<1>3. MixTypeOK
  BY MixInitInv DEF SoundInit
<1> QED BY <1>1, <1>2, <1>3 DEF SoundInv

(* What a part that rests keeps. *)
LEMMA DecRests == DecInv /\ UNCHANGED decVars => DecInv'
BY DEF DecInv, DecTypeOK, HistoryForgotten, decVars

LEMMA NoiseRests == NoiseTypeOK /\ UNCHANGED noiseVars => NoiseTypeOK'
BY DEF NoiseTypeOK, noiseVars

LEMMA MixRests == MixTypeOK /\ UNCHANGED mixVars => MixTypeOK'
BY DEF MixTypeOK, mixVars

LEMMA SoundNextInv == SoundInv /\ [SoundNext]_soundVars => SoundInv'
<1> SUFFICES ASSUME SoundInv, [SoundNext]_soundVars PROVE SoundInv'
  OBVIOUS
<1>1. DecInv /\ NoiseTypeOK /\ MixTypeOK
  BY DEF SoundInv
<1>2. CASE DecoderStep
  <2>1. DecNext /\ UNCHANGED noiseVars /\ UNCHANGED mixVars
    BY <1>2 DEF DecoderStep
  <2> QED BY <1>1, <2>1, DecNextInv, NoiseRests, MixRests DEF SoundInv
<1>3. CASE NoiseStep
  <2>1. NoiseNext /\ UNCHANGED decVars /\ UNCHANGED mixVars
    BY <1>3 DEF NoiseStep
  <2> QED BY <1>1, <2>1, NoiseNextInv, DecRests, MixRests DEF SoundInv
<1>4. CASE MixerStep
  <2>1. MixNext /\ UNCHANGED decVars /\ UNCHANGED noiseVars
    BY <1>4 DEF MixerStep
  <2> QED BY <1>1, <2>1, MixNextInv, DecRests, NoiseRests DEF SoundInv
<1>5. CASE UNCHANGED soundVars
  <2>1. UNCHANGED decVars /\ UNCHANGED noiseVars /\ UNCHANGED mixVars
    BY <1>5 DEF soundVars
  <2> QED BY <1>1, <2>1, DecRests, NoiseRests, MixRests DEF SoundInv
<1> QED BY <1>2, <1>3, <1>4, <1>5 DEF SoundNext

LEMMA SoundInvariance == SoundSpec => []SoundInv
BY SoundInitInv, SoundNextInv, PTL DEF SoundSpec

(* The numbers of the decoder, the noise generator and the mixer stay within
   their widths, with any table, samples and registers (dsp.c:204-732). *)
THEOREM SoundTypeCorrect == SoundSpec => []SoundTypeOK
<1>1. SoundInv => SoundTypeOK
  BY DEF SoundInv, DecInv, SoundTypeOK
<1> QED BY <1>1, SoundInvariance, PTL

(* A note of any length, of any blocks, does not sound of the one before it
   for longer than its own filters look back (dsp.c:250, 479-481). *)
THEOREM NoteForgetsThePast == SoundSpec => []HistoryForgotten
<1>1. SoundInv => HistoryForgotten
  BY DEF SoundInv, DecInv
<1> QED BY <1>1, SoundInvariance, PTL

(* Whatever the history, the filters' shifts err by less than two
   (dsp.c:437-459). *)
THEOREM FiltersAreAccurate == SoundSpec => []FilterAccurate
<1>1. SoundInv => FilterAccurate
  <2> SUFFICES ASSUME SoundInv, NEW f \in 0 .. 3
               PROVE  Ideal(f, hist.smp1, hist.smp2)
                        - 128 * Filter(f, hist.smp1, hist.smp2) \in 0 .. 255
    BY DEF FilterAccurate
  <2>1. /\ hist.smp1 \in Int /\ hist.smp2 \in Int
        /\ hist.smp1 % 2 = 0 /\ hist.smp2 % 2 = 0
    BY InBits16 DEF SoundInv, DecInv, DecTypeOK
  <2> QED BY <2>1, FilterBound
<1> QED BY <1>1, SoundInvariance, PTL

LEMMA LoudType == Loud \in Int
BY DEF Loud

(* With any table whose weights add up as those of gauss.h do, and at every
   position, the interpolation stays by the samples it is between
   (dsp.c:509-531). *)
THEOREM InterpolationStaysBetween == SoundSpec => []WithinWindow
<1>1. SoundInv => WithinWindow
  <2> SUFFICES ASSUME SoundInv, \A k \in Window : window[k] \in -Loud .. Loud,
                      NEW pos \in Positions
               PROVE  EnclosedBy(Interpolated(pos))
    BY DEF WithinWindow
  <2>1. window \in [Window -> Bits16]
    BY DEF SoundInv, DecInv, DecTypeOK
  <2>2. pos \in Position
    BY DecoderAssumption DEF DecoderAssumption
  <2>3. Loud \in Int
    BY LoudType
  <2>4. \A k \in Window : -Loud <= window[k] /\ window[k] <= Loud
    BY <2>3
  <2> QED BY <2>1, <2>2, <2>4, Enclosed
<1> QED BY <1>1, SoundInvariance, PTL

(* The echo's product fits 32 bits, for every echo sample and volume, while
   the coefficients' sizes add up to 511 at most (dsp.c:640). *)
THEOREM EchoFits == SoundSpec => []EchoExact
<1>1. SoundInv => EchoExact
  <2> SUFFICES ASSUME SoundInv, gain <= 511, NEW c \in Volumes
               PROVE  EchoPart(vl, c) = EchoTerm(vl, c)
    BY DEF EchoExact
  <2>1. c \in Int /\ -128 <= c /\ c <= 128
    BY MixerAssumption, InVol DEF MixerAssumption
  <2>2. gain \in Nat /\ vl \in Int /\ -(gain * 32768) <= vl /\ vl <= gain * 32768
    <3>1. tap \in Nat
      BY MixConstants DEF SoundInv, MixTypeOK
    <3>2. gain \in Nat
      BY <3>1 DEF SoundInv, MixTypeOK
    <3> QED BY <3>2 DEF SoundInv, MixTypeOK
  <2>3. -16744448 <= vl /\ vl <= 16744448
    BY <2>2
  <2>4. PICK y \in Int : y = vl * c /\ -2143289344 <= y /\ y <= 2143289344
    <3>1. /\ vl * c \in Int /\ -(16744448 * 128) <= vl * c
          /\ vl * c <= 16744448 * 128
      BY <2>1, <2>2, <2>3, ProductBound
    <3> QED BY <3>1
  <2>5. PICK t \in Int : t = EchoTerm(vl, c) /\ t = y \div 16384
    BY <2>1, <2>2, <2>4, TermIsShift
  <2>6. 0 <= t + 131072 /\ t + 131072 < 262144
    BY <2>4, <2>5, SMTT(20)
  <2>7. (t + 131072) % 262144 = t + 131072
    BY <2>6, SMTT(20)
  <2> QED BY <2>5, <2>7 DEF EchoPart, Shifted32
<1> QED BY <1>1, SoundInvariance, PTL
==============================================================================
