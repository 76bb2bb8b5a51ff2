-------------------------- MODULE SpcSystem_proofs --------------------------
(***************************************************************************)
(* Proofs about the run loop (SpcRun), the CPU (SpcCycles) and the two      *)
(* together (SpcSystem), for every sample length, word, instruction set and *)
(* host.                                                                    *)
(***************************************************************************)
EXTENDS SpcSystem, SequenceTheorems, TLAPS

-----------------------------------------------------------------------------
(***************************************************************************)
(* The run loop: what a call promises (type correctness, the buffer, the   *)
(* cycles), and that the sample clock is exact for hosts whose calls never *)
(* end exactly on a sample that was begun before.                          *)
(***************************************************************************)

(* Products with the sample length, which the provers do not multiply out. *)

LEMMA MulTs ==
  ASSUME TsCyc \in Nat \ {0}, NEW a \in Nat
  PROVE  /\ a * TsCyc \in Nat
         /\ (a + 1) * TsCyc = a * TsCyc + TsCyc
         /\ a > 0 => (a - 1) * TsCyc = a * TsCyc - TsCyc
  OBVIOUS

LEMMA MulAtLeast ==
  ASSUME TsCyc \in Nat \ {0}, NEW a \in Nat
  PROVE  a * TsCyc >= a
<1>1. PICK t \in Nat : TsCyc = t + 1
  <2>1. TsCyc - 1 \in Nat /\ TsCyc = (TsCyc - 1) + 1
    OBVIOUS
  <2> QED BY <2>1
<1>2. a * t \in Nat /\ a * (t + 1) = a * t + a
  BY <1>1
<1> QED BY <1>1, <1>2

LEMMA MulLess ==
  ASSUME TsCyc \in Nat \ {0}, NEW a \in Nat, NEW b \in Nat,
         a * TsCyc < b * TsCyc
  PROVE  a < b
<1>1. SUFFICES ASSUME a >= b PROVE a * TsCyc >= b * TsCyc
  BY MulTs
<1>2. PICK d \in Nat : a = b + d
  <2>1. a - b \in Nat /\ a = b + (a - b)
    BY <1>1
  <2> QED BY <2>1
<1>3. d * TsCyc \in Nat
  BY MulTs
<1>4. a * TsCyc = b * TsCyc + d * TsCyc
  BY <1>2
<1> QED BY <1>3, <1>4, MulTs

LEMMA SamplesFit ==
  ASSUME NEW bytes \in Nat
  PROVE  Samples(bytes) \in Nat /\ Samples(bytes) * BytesPerSample <= bytes
  BY DEF Samples, BytesPerSample

-----------------------------------------------------------------------------
(* The call in progress was limited by its buffer. *)
ByBuffer ==
  \/ call.cyc < 0
  \/ call.hasBuf /\ call.cyc >= Samples(call.bytes) * TsCyc + call.left

(* Types, without the ones that follow from the assumptions only. *)
TypeInv ==
  /\ mode \in {"idle", "buffer", "cycles"}
  /\ step \in {"lead", "mix", "run"}
  /\ mixLeft \in Nat /\ mixLeft < TsCyc
  /\ room \in Nat /\ limit \in Nat /\ written \in Nat /\ granted \in Nat
  /\ call \in [cyc : CycleLimits \cup {0}, hasBuf : BOOLEAN,
               bytes : BufferBytes \cup {0}, left : 0 .. TsCyc - 1]
  /\ phase \in Nat /\ phase <= PhaseCap

(* Before the lead-in the call has done nothing. *)
LeadInv ==
  (mode # "idle" /\ step = "lead") =>
    /\ mixLeft = call.left /\ granted = 0 /\ written = 0
    /\ mode = "cycles" => limit = call.cyc /\ limit >= mixLeft

(* The buffer loop: samples written and room, cycles and samples. *)
BufferInv ==
  mode = "buffer" =>
    /\ ByBuffer
    /\ step = "lead" => room = Samples(call.bytes)
    /\ step = "mix" => /\ written + room = Samples(call.bytes)
                       /\ granted = call.left + written * TsCyc
    /\ step = "run" => /\ room > 0 /\ written > 0
                       /\ written + room = Samples(call.bytes) + 1
                       /\ granted = call.left + (written - 1) * TsCyc

(* The cycle loop: what has been granted and what is left make the limit. *)
CycleInv ==
  mode = "cycles" =>
    /\ ~ByBuffer
    /\ granted + limit = call.cyc
    /\ step = "run" => /\ limit > 0 /\ written > 0
                       /\ granted = call.left + (written - 1) * TsCyc
    /\ (step = "mix" /\ limit > 0) => granted = call.left + written * TsCyc
    /\ call.hasBuf => written <= Samples(call.bytes)

(* What a finished call leaves behind. *)
DoneInv ==
  mode = "idle" => /\ CyclesHonoured
                   /\ call.hasBuf => written <= Samples(call.bytes)

IInv == TypeInv /\ LeadInv /\ BufferInv /\ CycleInv /\ DoneInv

LEMMA Constants ==
  /\ TsCyc \in Nat \ {0}
  /\ CycleLimits \cup {0} \subseteq Int
  /\ BufferBytes \cup {0} \subseteq Nat
  BY RunAssumption DEF RunAssumption

USE Constants

LEMMA CallType ==
  ASSUME TypeInv
  PROVE  /\ call.cyc \in Int /\ call.hasBuf \in BOOLEAN
         /\ call.bytes \in Nat
         /\ call.left \in Nat /\ call.left < TsCyc
<1>1. /\ call.cyc \in CycleLimits \cup {0} /\ call.hasBuf \in BOOLEAN
      /\ call.bytes \in BufferBytes \cup {0} /\ call.left \in 0 .. TsCyc - 1
  BY DEF TypeInv
<1> QED BY <1>1

LEMMA InitInv == Init => IInv
<1> SUFFICES ASSUME Init PROVE IInv
  OBVIOUS
<1>1. Samples(0) = 0
  BY DEF Samples, BytesPerSample
<1> QED BY <1>1 DEF Init, IInv, TypeInv, LeadInv, BufferInv, CycleInv, DoneInv,
                    CyclesHonoured, PhaseCap, Samples, BytesPerSample

LEMMA ElapseType ==
  ASSUME phase \in Nat, NEW n \in Nat
  PROVE  Elapse(n) \in Nat /\ Elapse(n) <= PhaseCap
  BY DEF Elapse, PhaseCap

(* A call never reaches the bound of its history. *)
LEMMA MixCounts ==
  ASSUME IInv, Mix
  PROVE  OneMore = written + 1
<1>1. /\ mode \in {"buffer", "cycles"} /\ step = "mix" /\ MoreToMix
      /\ written \in Nat /\ room \in Nat /\ limit \in Nat
  BY DEF Mix, IInv, TypeInv
<1>2. /\ call.bytes \in Nat /\ Samples(call.bytes) \in Nat
      /\ call.cyc \in Int /\ call.left \in Nat
  BY CallType, SamplesFit DEF IInv
<1>3. CASE mode = "buffer"
  <2>1. written + room = Samples(call.bytes)
    BY <1>1, <1>3 DEF IInv, BufferInv
  <2> QED BY <1>1, <1>2, <1>3, <2>1 DEF OneMore, WrittenCap
<1>4. CASE mode = "cycles"
  <2>1. /\ granted + limit = call.cyc /\ limit > 0
        /\ granted = call.left + written * TsCyc
    BY <1>1, <1>4 DEF IInv, CycleInv, MoreToMix
  <2>2. written * TsCyc \in Nat /\ written * TsCyc >= written
    BY <1>1, MulTs, MulAtLeast
  <2> QED BY <1>1, <1>2, <1>4, <2>1, <2>2 DEF OneMore, WrittenCap
<1> QED BY <1>1, <1>3, <1>4

LEMMA NextInv == IInv /\ [Next]_vars => IInv'
<1> SUFFICES ASSUME IInv, [Next]_vars PROVE IInv'
  OBVIOUS
<1> USE DEF IInv, TypeInv
<1>s. /\ call.bytes \in Nat /\ Samples(call.bytes) \in Nat
      /\ call.cyc \in Int /\ call.left \in Nat /\ call.left < TsCyc
      /\ call.hasBuf \in BOOLEAN
      /\ Samples(call.bytes) * TsCyc \in Nat
  BY CallType, SamplesFit, MulTs
<1>w. /\ written * TsCyc \in Nat
      /\ (written + 1) * TsCyc = written * TsCyc + TsCyc
      /\ written > 0 => (written - 1) * TsCyc = written * TsCyc - TsCyc
  BY MulTs
<1>1. ASSUME NEW c \in CycleLimits, NEW hasBuf \in BOOLEAN,
             NEW bytes \in BufferBytes, CallForBuffer(c, hasBuf, bytes)
      PROVE  IInv'
  <2>1. Samples(bytes) \in Nat /\ Samples(bytes) * TsCyc \in Nat
    BY SamplesFit, MulTs
  <2>2. /\ call' = [cyc |-> c, hasBuf |-> hasBuf, bytes |-> bytes, left |-> mixLeft]
        /\ mode' = "buffer" /\ room' = Samples(bytes) /\ granted' = 0
        /\ written' = 0 /\ limit' = 0 /\ mixLeft' = mixLeft /\ phase' = phase
        /\ step' = Lead
    BY <1>1 DEF CallForBuffer, Begin
  <2>3. TypeInv'
    BY <2>1, <2>2 DEF Lead, PhaseCap
  <2>4. ByBuffer'
    BY <1>1, <2>2 DEF CallForBuffer, BufferLimited, BufCycles, ByBuffer
  <2>5. BufferInv'
    BY <2>1, <2>2, <2>4 DEF BufferInv, Lead
  <2> QED BY <2>2, <2>3, <2>5 DEF LeadInv, CycleInv, DoneInv
<1>2. ASSUME NEW c \in CycleLimits, NEW hasBuf \in BOOLEAN,
             NEW bytes \in BufferBytes, CallWithinSample(c, hasBuf, bytes)
      PROVE  IInv'
  <2>1. Samples(bytes) \in Nat /\ Samples(bytes) * TsCyc \in Nat
    BY SamplesFit, MulTs
  <2>2. /\ call' = [cyc |-> c, hasBuf |-> hasBuf, bytes |-> bytes, left |-> mixLeft]
        /\ mode' = "idle" /\ room' = 0 /\ granted' = c
        /\ written' = 0 /\ limit' = 0 /\ mixLeft' = mixLeft - c /\ phase' = Elapse(c)
        /\ step' = step /\ c < mixLeft
    BY <1>2 DEF CallWithinSample, Begin, StillOwed
  <2>3. c \in Nat /\ ~(hasBuf /\ c >= Samples(bytes) * TsCyc + mixLeft)
    BY <1>2 DEF CallWithinSample, BufferLimited, BufCycles
  <2>4. TypeInv'
    <3>1. Elapse(c) \in Nat /\ Elapse(c) <= PhaseCap
      BY <2>3, ElapseType
    <3> QED BY <2>1, <2>2, <2>3, <3>1 DEF PhaseCap
  <2>5. CyclesHonoured'
    BY <2>1, <2>2, <2>3 DEF CyclesHonoured
  <2> QED BY <2>1, <2>2, <2>4, <2>5 DEF LeadInv, BufferInv, CycleInv, DoneInv
<1>3. ASSUME NEW c \in CycleLimits, NEW hasBuf \in BOOLEAN,
             NEW bytes \in BufferBytes, CallForCycles(c, hasBuf, bytes)
      PROVE  IInv'
  <2>1. Samples(bytes) \in Nat /\ Samples(bytes) * TsCyc \in Nat
    BY SamplesFit, MulTs
  <2>2. /\ call' = [cyc |-> c, hasBuf |-> hasBuf, bytes |-> bytes, left |-> mixLeft]
        /\ mode' = "cycles" /\ room' = 0 /\ granted' = 0
        /\ written' = 0 /\ limit' = c /\ mixLeft' = mixLeft /\ phase' = phase
        /\ step' = Lead /\ c >= mixLeft
    BY <1>3 DEF CallForCycles, Begin
  <2>3. c \in Nat /\ ~(hasBuf /\ c >= Samples(bytes) * TsCyc + mixLeft)
    BY <1>3 DEF CallForCycles, BufferLimited, BufCycles
  <2>4. TypeInv'
    BY <2>1, <2>2, <2>3 DEF Lead, PhaseCap
  <2>5. ~ByBuffer'
    BY <2>2, <2>3 DEF ByBuffer
  <2>6. CycleInv'
    <3>1. step' = "mix" => mixLeft = 0
      BY <2>2 DEF Lead
    <3>2. step' # "run"
      BY <2>2 DEF Lead
    <3> QED BY <2>1, <2>2, <2>3, <2>5, <3>1, <3>2 DEF CycleInv
  <2> QED BY <2>2, <2>4, <2>6 DEF LeadInv, BufferInv, DoneInv
<1>4. CASE LeadIn
  <2>1. /\ mode # "idle" /\ step = "lead" /\ step' = "mix"
        /\ granted' = granted + mixLeft /\ phase' = Elapse(mixLeft)
        /\ limit' = (IF mode = "cycles" THEN limit - mixLeft ELSE limit)
        /\ mode' = mode /\ mixLeft' = mixLeft /\ room' = room
        /\ written' = written /\ call' = call
    BY <1>4 DEF LeadIn, GrantCpu, LimitAfterLead
  <2>2. TypeInv'
    BY <2>1, ElapseType DEF LeadInv
  <2>3. ByBuffer' <=> ByBuffer
    BY <2>1 DEF ByBuffer
  <2> QED BY <1>s, <1>w, <2>1, <2>2, <2>3
          DEF LeadInv, BufferInv, CycleInv, DoneInv
<1>5. CASE Mix
  <2>0. OneMore = written + 1
    BY <1>5, MixCounts
  <2>1. /\ mode # "idle" /\ step = "mix" /\ step' = "run" /\ MoreToMix
        /\ phase' = 0 /\ written' = written + 1 /\ granted' = granted
        /\ mode' = mode /\ mixLeft' = mixLeft /\ room' = room
        /\ limit' = limit /\ call' = call
    BY <1>5, <2>0 DEF Mix
  <2>2. TypeInv'
    BY <2>1 DEF PhaseCap
  <2>3. ByBuffer' <=> ByBuffer
    BY <2>1 DEF ByBuffer
  <2>4. BufferInv'
    BY <1>s, <1>w, <2>1, <2>3 DEF BufferInv, MoreToMix
  <2>5. CycleInv'
    <3>1. SUFFICES ASSUME mode = "cycles" PROVE CycleInv'
      BY <2>1 DEF CycleInv
    <3>2. ~ByBuffer /\ granted + limit = call.cyc /\ limit > 0
          /\ granted = call.left + written * TsCyc
      BY <2>1, <3>1 DEF CycleInv, MoreToMix
    <3>3. ASSUME call.hasBuf PROVE written + 1 <= Samples(call.bytes)
      <4>1. written * TsCyc < Samples(call.bytes) * TsCyc
        BY <1>s, <1>w, <3>2, <3>3 DEF ByBuffer
      <4>2. written < Samples(call.bytes)
        BY <1>s, <4>1, MulLess
      <4> QED BY <1>s, <4>2
    <3> QED BY <1>s, <1>w, <2>1, <2>3, <3>1, <3>2, <3>3 DEF CycleInv
  <2> QED BY <2>1, <2>2, <2>4, <2>5 DEF LeadInv, DoneInv
<1>6. CASE RunWhole
  <2>1. /\ mode # "idle" /\ step = "run" /\ step' = "mix"
        /\ mode = "buffer" \/ limit >= TsCyc
        /\ granted' = granted + TsCyc /\ phase' = Elapse(TsCyc)
        /\ room' = (IF mode = "buffer" THEN room - 1 ELSE room)
        /\ limit' = (IF mode = "cycles" THEN limit - TsCyc ELSE limit)
        /\ mode' = mode /\ mixLeft' = mixLeft
        /\ written' = written /\ call' = call
    BY <1>6 DEF RunWhole, GrantCpu
  <2>2. TypeInv'
    BY <2>1, ElapseType DEF BufferInv
  <2>3. ByBuffer' <=> ByBuffer
    BY <2>1 DEF ByBuffer
  <2>4. BufferInv'
    BY <1>s, <1>w, <2>1, <2>3 DEF BufferInv
  <2>5. CycleInv'
    BY <1>s, <1>w, <2>1, <2>3 DEF CycleInv
  <2> QED BY <2>1, <2>2, <2>4, <2>5 DEF LeadInv, DoneInv
<1>7. CASE RunPart
  <2>1. /\ mode = "cycles" /\ step = "run" /\ step' = "mix" /\ limit < TsCyc
        /\ granted' = granted + limit /\ phase' = Elapse(limit)
        /\ mixLeft' = TsCyc - limit /\ limit' = 0
        /\ mode' = mode /\ room' = room /\ written' = written /\ call' = call
    BY <1>7 DEF RunPart, GrantCpu, Owed
  <2>2. limit > 0
    BY <2>1 DEF CycleInv
  <2>3. TypeInv'
    BY <2>1, <2>2, ElapseType
  <2>4. ByBuffer' <=> ByBuffer
    BY <2>1 DEF ByBuffer
  <2>5. CycleInv'
    BY <1>s, <2>1, <2>4 DEF CycleInv
  <2> QED BY <2>1, <2>3, <2>5 DEF LeadInv, BufferInv, DoneInv
<1>8. CASE Return
  <2>1. /\ mode # "idle" /\ step = "mix" /\ ~MoreToMix
        /\ mixLeft' = (IF mode = "buffer" THEN 0 ELSE mixLeft)
        /\ mode' = "idle" /\ step' = "lead"
        /\ room' = room /\ limit' = limit /\ written' = written
        /\ call' = call /\ granted' = granted /\ phase' = phase
    BY <1>8 DEF Return, LeftAtReturn
  <2>2. TypeInv'
    BY <2>1
  <2>3. DoneInv'
    <3>1. CASE mode = "buffer"
      BY <1>s, <2>1, <3>1
      DEF BufferInv, MoreToMix, DoneInv, CyclesHonoured, ByBuffer
    <3>2. CASE mode = "cycles"
      BY <1>s, <2>1, <3>2
      DEF CycleInv, MoreToMix, DoneInv, CyclesHonoured, ByBuffer
    <3> QED BY <2>1, <3>1, <3>2
  <2> QED BY <2>1, <2>2, <2>3 DEF LeadInv, BufferInv, CycleInv
<1>9. CASE UNCHANGED vars
  BY <1>9 DEF vars, callVars, LeadInv, BufferInv, CycleInv, DoneInv, ByBuffer,
              CyclesHonoured, PhaseCap
<1> QED BY <1>1, <1>2, <1>3, <1>4, <1>5, <1>6, <1>7, <1>8, <1>9
        DEF Next, Call, InCall

LEMMA Invariance == Spec => []IInv
<1>1. Init => IInv
  BY InitInv
<1>2. IInv /\ [Next]_vars => IInv'
  BY NextInv
<1> QED BY <1>1, <1>2, PTL DEF Spec

(* The state of the run loop has its type, whatever the host passes. *)
THEOREM TypeCorrect == Spec => []TypeOK
<1>1. IInv => TypeOK
  BY DEF IInv, TypeInv, TypeOK, PhaseCap
<1> QED BY <1>1, Invariance, PTL

(* No call of any host writes a sample beyond the end of its buffer. *)
THEOREM BufferSafe == Spec => []BufferRespected
<1>1. IInv => BufferRespected
  <2> SUFFICES ASSUME IInv, call.hasBuf
               PROVE  written * BytesPerSample <= call.bytes
    BY DEF BufferRespected
  <2>1. call.bytes \in Nat /\ written \in Nat
    BY CallType DEF IInv, TypeInv
  <2>2. Samples(call.bytes) \in Nat
        /\ Samples(call.bytes) * BytesPerSample <= call.bytes
    BY <2>1, SamplesFit
  <2>3. written <= Samples(call.bytes)
    BY <2>1, <2>2 DEF IInv, TypeInv, LeadInv, BufferInv, CycleInv, DoneInv
  <2> QED BY <2>1, <2>2, <2>3 DEF BytesPerSample
<1> QED BY <1>1, Invariance, PTL

(* Every call gives the CPU exactly the cycles it was asked for. *)
THEOREM CyclesAccounted == Spec => []CyclesHonoured
<1>1. IInv => CyclesHonoured
  BY DEF IInv, DoneInv, CyclesHonoured
<1> QED BY <1>1, Invariance, PTL

-----------------------------------------------------------------------------
(* The sample clock, for hosts none of whose calls ends exactly on the end of
   a sample that an earlier call began. *)

NoMultiple(n) == \A k \in Nat : n # k * TsCyc

ClockInv ==
  /\ (mode = "idle" \/ step = "lead") => phase = TsCyc - mixLeft
  /\ (mode # "idle" /\ step = "lead") => mixLeft > 0
  /\ (mode = "cycles" /\ step = "lead") => NoMultiple(limit - mixLeft)
  /\ (mode = "buffer" /\ step = "mix") => phase = TsCyc
  /\ (mode = "cycles" /\ step = "mix") =>
       IF limit > 0 THEN phase = TsCyc /\ (mixLeft > 0 => NoMultiple(limit))
                    ELSE phase = TsCyc - mixLeft
  /\ (mode # "idle" /\ step = "run") =>
       /\ phase = 0
       /\ (mode = "cycles" /\ mixLeft > 0) => NoMultiple(limit)

CInv == IInv /\ ClockInv

LEMMA NotExact ==
  ASSUME NEW c \in Nat, mixLeft \in Nat, mixLeft > 0, c >= mixLeft, ~EndsOnSample(c)
  PROVE  NoMultiple(c - mixLeft)
<1>1. SUFFICES ASSUME NEW k \in Nat, c - mixLeft = k * TsCyc PROVE FALSE
  BY DEF NoMultiple
<1>2. k * TsCyc >= k
  <2>1. PICK d \in Nat : TsCyc = d + 1
    <3>1. TsCyc - 1 \in Nat /\ TsCyc = (TsCyc - 1) + 1
      OBVIOUS
    <3> QED BY <3>1
  <2>2. k * d \in Nat /\ k * TsCyc = k * d + k
    BY <2>1
  <2> QED BY <2>2
<1>3. k \in 0 .. c
  BY <1>1, <1>2
<1> QED BY <1>1, <1>3 DEF EndsOnSample

LEMMA NoMultipleLess ==
  ASSUME NEW n \in Nat, n >= TsCyc, NoMultiple(n)
  PROVE  NoMultiple(n - TsCyc) /\ n - TsCyc > 0
<1>1. ASSUME NEW k \in Nat, n - TsCyc = k * TsCyc PROVE FALSE
  <2>1. (k + 1) * TsCyc = k * TsCyc + TsCyc
    BY MulTs
  <2>2. n = (k + 1) * TsCyc
    BY <1>1, <2>1, MulTs
  <2> QED BY <2>2 DEF NoMultiple
<1>2. 0 * TsCyc = 0
  OBVIOUS
<1>3. n - TsCyc # 0
  BY <1>1, <1>2
<1> QED BY <1>1, <1>3 DEF NoMultiple

LEMMA ElapseExact ==
  ASSUME phase \in Nat, NEW n \in Nat, phase + n <= TsCyc
  PROVE  Elapse(n) = phase + n
  BY DEF Elapse, PhaseCap

(* Each step keeps ClockInv and is a step of SampleClock. *)
LEMMA ClockStep ==
  ASSUME ~ExactEnds, CInv, [Next]_vars
  PROVE  ClockInv' /\ [Clock!Next]_phase
<1> USE DEF CInv, IInv, TypeInv
<1>1. ASSUME NEW c \in CycleLimits, NEW hasBuf \in BOOLEAN,
             NEW bytes \in BufferBytes, CallForBuffer(c, hasBuf, bytes)
      PROVE  ClockInv' /\ [Clock!Next]_phase
  BY <1>1 DEF CallForBuffer, Begin, Lead, ClockInv
<1>2. ASSUME NEW c \in CycleLimits, NEW hasBuf \in BOOLEAN,
             NEW bytes \in BufferBytes, CallWithinSample(c, hasBuf, bytes)
      PROVE  ClockInv' /\ [Clock!Next]_phase
  <2>1. c \in Nat /\ c < mixLeft /\ mode = "idle" /\ mode' = "idle"
        /\ mixLeft' = mixLeft - c /\ phase' = Elapse(c)
    BY <1>2 DEF CallWithinSample, Begin, BufferLimited, StillOwed
  <2>2. phase = TsCyc - mixLeft /\ phase' = phase + c
    BY <2>1, ElapseExact DEF ClockInv
  <2>3. ClockInv'
    BY <2>1, <2>2 DEF ClockInv
  <2>4. [Clock!Next]_phase
    BY <2>1, <2>2 DEF Clock!Next, Clock!Grant
  <2> QED BY <2>3, <2>4
<1>3. ASSUME NEW c \in CycleLimits, NEW hasBuf \in BOOLEAN,
             NEW bytes \in BufferBytes, CallForCycles(c, hasBuf, bytes)
      PROVE  ClockInv' /\ [Clock!Next]_phase
  <2>1. c \in Nat /\ c >= mixLeft /\ mode = "idle" /\ mode' = "cycles"
        /\ step' = Lead /\ limit' = c /\ ~EndsOnSample(c)
        /\ mixLeft' = mixLeft /\ phase' = phase
    BY <1>3 DEF CallForCycles, Begin, BufferLimited
  <2>2. mixLeft > 0 => NoMultiple(c - mixLeft)
    BY <2>1, NotExact
  <2>3. phase = TsCyc - mixLeft
    BY <2>1 DEF ClockInv
  <2>4. mixLeft' > 0 => NoMultiple(limit' - mixLeft')
    BY <2>1, <2>2
  <2>5. ClockInv'
    BY <2>1, <2>3, <2>4 DEF Lead, ClockInv
  <2> QED BY <2>1, <2>5
<1>4. CASE LeadIn
  <2>1. /\ mode # "idle" /\ step = "lead" /\ step' = "mix"
        /\ phase' = Elapse(mixLeft)
        /\ limit' = (IF mode = "cycles" THEN limit - mixLeft ELSE limit)
        /\ mode' = mode /\ mixLeft' = mixLeft
    BY <1>4 DEF LeadIn, GrantCpu, LimitAfterLead
  <2>2. mixLeft > 0 /\ phase = TsCyc - mixLeft /\ phase' = TsCyc
    BY <2>1, ElapseExact DEF ClockInv
  <2>3. mode = "cycles" => limit' # 0 /\ NoMultiple(limit')
    <3>1. SUFFICES ASSUME mode = "cycles" PROVE limit' # 0 /\ NoMultiple(limit')
      OBVIOUS
    <3>2. limit' = limit - mixLeft /\ NoMultiple(limit - mixLeft)
      BY <2>1, <3>1 DEF ClockInv
    <3>3. limit - mixLeft # 0 * TsCyc /\ 0 * TsCyc = 0
      BY <3>2 DEF NoMultiple
    <3> QED BY <3>2, <3>3
  <2>4. limit' >= 0
    BY <2>1 DEF LeadInv
  <2>5. ClockInv'
    BY <2>1, <2>2, <2>3, <2>4 DEF ClockInv
  <2>6. [Clock!Next]_phase
    BY <2>2 DEF Clock!Next, Clock!Grant
  <2> QED BY <2>5, <2>6
<1>5. CASE Mix
  <2>1. /\ mode # "idle" /\ step = "mix" /\ step' = "run" /\ MoreToMix
        /\ phase' = 0 /\ mode' = mode /\ mixLeft' = mixLeft /\ limit' = limit
    BY <1>5 DEF Mix
  <2>2. phase = TsCyc /\ (mode = "cycles" /\ mixLeft > 0 => NoMultiple(limit))
    BY <2>1 DEF ClockInv, MoreToMix
  <2>3. (mode' = "cycles" /\ mixLeft' > 0) => NoMultiple(limit')
    BY <2>1, <2>2
  <2>4. ClockInv'
    BY <2>1, <2>3 DEF ClockInv
  <2>5. [Clock!Next]_phase
    BY <2>1, <2>2 DEF Clock!Next, Clock!Sample
  <2> QED BY <2>4, <2>5
<1>6. CASE RunWhole
  <2>1. /\ mode # "idle" /\ step = "run" /\ step' = "mix"
        /\ mode = "buffer" \/ limit >= TsCyc
        /\ phase' = Elapse(TsCyc)
        /\ limit' = (IF mode = "cycles" THEN limit - TsCyc ELSE limit)
        /\ mode' = mode /\ mixLeft' = mixLeft
    BY <1>6 DEF RunWhole, GrantCpu
  <2>2. phase = 0 /\ phase' = TsCyc
    BY <2>1, ElapseExact DEF ClockInv
  <2>3. (mode = "cycles" /\ mixLeft > 0) => NoMultiple(limit') /\ limit' > 0
    BY <2>1, NoMultipleLess DEF ClockInv
  <2>4. ClockInv'
    BY <2>1, <2>2, <2>3 DEF ClockInv
  <2>5. [Clock!Next]_phase
    BY <2>2 DEF Clock!Next, Clock!Grant
  <2> QED BY <2>4, <2>5
<1>7. CASE RunPart
  <2>1. /\ mode = "cycles" /\ step = "run" /\ step' = "mix" /\ limit < TsCyc
        /\ phase' = Elapse(limit)
        /\ mixLeft' = TsCyc - limit /\ limit' = 0 /\ mode' = mode
    BY <1>7 DEF RunPart, GrantCpu, Owed
  <2>2. limit > 0
    BY <2>1 DEF CycleInv
  <2>3. phase = 0 /\ phase' = limit
    BY <2>1, ElapseExact DEF ClockInv
  <2>4. ClockInv'
    BY <2>1, <2>2, <2>3 DEF ClockInv
  <2>5. [Clock!Next]_phase
    BY <2>1, <2>2, <2>3 DEF Clock!Next, Clock!Grant
  <2> QED BY <2>4, <2>5
<1>8. CASE Return
  <2>1. /\ mode # "idle" /\ step = "mix" /\ ~MoreToMix
        /\ mixLeft' = (IF mode = "buffer" THEN 0 ELSE mixLeft)
        /\ mode' = "idle" /\ phase' = phase
    BY <1>8 DEF Return, LeftAtReturn
  <2>2. phase' = TsCyc - mixLeft'
    BY <2>1 DEF ClockInv, MoreToMix
  <2> QED BY <2>1, <2>2 DEF ClockInv
<1>9. CASE UNCHANGED vars
  <2>1. /\ mode' = mode /\ step' = step /\ mixLeft' = mixLeft
        /\ limit' = limit /\ phase' = phase
    BY <1>9 DEF vars, callVars
  <2> QED BY <2>1 DEF ClockInv, NoMultiple
<1> QED BY <1>1, <1>2, <1>3, <1>4, <1>5, <1>6, <1>7, <1>8, <1>9
        DEF Next, Call, InCall

LEMMA ClockInvariance == ASSUME ~ExactEnds PROVE Spec => []CInv
<1>1. Init => CInv
  BY InitInv DEF Init, CInv, ClockInv
<1>2. CInv /\ [Next]_vars => CInv'
  BY NextInv, ClockStep DEF CInv
<1> QED BY <1>1, <1>2, PTL DEF Spec

(* mix_left_ is between calls the time to the next sample. *)
THEOREM MixLeftExact ==
  ASSUME ~ExactEnds PROVE Spec => []MixLeftIsTimeToSample
<1>1. CInv => MixLeftIsTimeToSample
  BY DEF CInv, IInv, TypeInv, ClockInv, MixLeftIsTimeToSample
<1> QED BY <1>1, ClockInvariance, PTL

(* The run loop implements the sample clock. *)
THEOREM ImplementsClock == ASSUME ~ExactEnds PROVE Spec => SampleClockSpec
<1>1. Init => Clock!Init
  BY DEF Init, Clock!Init
<1>2. CInv /\ [Next]_vars => [Clock!Next]_phase
  BY ClockStep
<1> QED BY <1>1, <1>2, ClockInvariance, PTL DEF Spec, SampleClockSpec, Clock!Spec

HIDE Constants

-----------------------------------------------------------------------------
(***************************************************************************)
(* The CPU: counters of every width, every instruction set and all grants  *)
(* that a word can tell apart.                                             *)
(***************************************************************************)

LEMMA CpuConstants ==
  /\ Half \in Nat /\ Word \in Nat /\ Word = 2 * Half /\ WrapBy \in 0 .. Word - 1
  /\ MaxGrant \in Nat /\ MaxCost \in Nat /\ MaxCost + MaxGrant < Half
  /\ ResetCycles \in Nat /\ ResetCycles < MaxCost
  BY CycleAssumption DEF CycleAssumption, ResetCycles

LEMMA TickMod == ASSUME NEW x \in Int PROVE x % Tick \in 0 .. Tick - 1
  BY CycleAssumption DEF CycleAssumption

LEMMA CostType ==
  ASSUME NEW o \in Opcodes, NEW b \in Nat, b > 0, b <= Len(Cost[o])
  PROVE  Cost[o][b] \in Nat /\ Cost[o][b] > 0 /\ Cost[o][b] <= MaxCost
<1>1. Cost[o] \in Seq(1 .. MaxCost)
  BY CycleAssumption DEF CycleAssumption
<1>2. Cost[o][b] \in 1 .. MaxCost
  <2>1. Len(Cost[o]) \in Nat
    BY <1>1
  <2>2. b \in 1 .. Len(Cost[o])
    BY <2>1
  <2> QED BY <1>1, <2>2, ElementOfSeq
<1> QED BY <1>2, CpuConstants

USE CpuConstants

(* Words and true numbers: a difference that fits in a word survives the
   arithmetic of words. *)
LEMMA WordRange ==
  ASSUME NEW x \in Int, -Word <= x, x < 2 * Word
  PROVE  ToWord(x) \in 0 .. Word - 1
  BY DEF ToWord

LEMMA LoadedIsLag ==
  ASSUME NEW t \in 0 .. Word - 1, NEW c \in 0 .. Word - 1,
         NEW d \in Int, -Half < d, d < Half,
         t = c + d \/ t = c + d - Word \/ t = c + d + Word
  PROVE  Loaded(t, c) = d
  BY DEF Loaded, ToInt, ToWord, Negative

(* total and cycles differ by d, up to the wrap of either. *)
Apart(t, c, d) == t = c + d \/ t = c + d - Word \/ t = c + d + Word

CpuTypeInv ==
  /\ state \in {"idle", "exec"}
  /\ cycles \in 0 .. Word - 1 /\ total \in 0 .. Word - 1
  /\ op \in Opcodes
  /\ cycle \in Nat /\ block \in Nat
  /\ lag \in Int /\ work \in -Half .. Half - 1
  /\ stamp \in 0 .. Tick - 1

IdleInv ==
  state = "idle" => /\ block = 0 /\ lag >= 0 /\ lag < MaxCost
                    /\ Apart(total, cycles, lag)

ExecInv ==
  state = "exec" => /\ work = lag
                    /\ -MaxGrant <= lag /\ lag < MaxCost
                    /\ block > 0 => lag < 0

CpuInv == CpuTypeInv /\ IdleInv /\ ExecInv

LEMMA CpuInitInv == CpuInit => CpuInv
<1> SUFFICES ASSUME CpuInit PROVE CpuInv
  OBVIOUS
<1>1. stamp \in 0 .. Tick - 1
  BY TickMod DEF CpuInit
<1> QED BY <1>1 DEF CpuInit, CpuInv, CpuTypeInv, IdleInv, ExecInv, Apart

(* A grant to a CPU that is not behind. *)
LEMMA GrantWord ==
  ASSUME CpuInv, state = "idle", NEW n \in 0 .. MaxGrant
  PROVE  LET c == ToWord(cycles + n)
         IN  /\ c \in 0 .. Word - 1
             /\ Apart(total, c, lag - n)
             /\ NothingDue(c) => lag - n >= 0
             /\ (c <= total /\ lag - n >= 0) => Apart(total, c, lag - n)
<1> DEFINE c == ToWord(cycles + n)
<1>0. n \in Nat /\ n <= MaxGrant
  OBVIOUS
<1>1. c \in 0 .. Word - 1 /\ (c = cycles + n \/ c = cycles + n - Word)
  BY <1>0 DEF CpuInv, CpuTypeInv, ToWord
<1>2. lag - n < Half /\ lag - n > -Half
  BY <1>0 DEF CpuInv, CpuTypeInv, IdleInv
<1>3. Apart(total, c, lag - n)
  <2>1. Apart(total, cycles, lag)
    BY DEF CpuInv, IdleInv
  <2>2. /\ lag \in Nat /\ lag < Half
        /\ total \in 0 .. Word - 1 /\ cycles \in 0 .. Word - 1
    BY DEF CpuInv, CpuTypeInv, IdleInv
  <2> HIDE DEF c
  <2> QED BY <1>0, <1>1, <2>1, <2>2 DEF Apart
<1>4. NothingDue(c) => lag - n >= 0
  BY <1>0, <1>1, <1>2, <1>3 DEF CpuInv, CpuTypeInv, IdleInv, Apart, NothingDue, Negative
<1> QED BY <1>1, <1>3, <1>4

LEMMA BodyStep ==
  ASSUME CpuInv, NEW o \in Opcodes, NEW access \in BOOLEAN, BlockBody(o, access),
         block <= Len(Cost[o])
  PROVE  /\ state = "exec" /\ op' \in Opcodes
         /\ total' \in 0 .. Word - 1 /\ stamp' \in 0 .. Tick - 1
         /\ work' = lag' /\ lag' \in Int /\ -MaxGrant <= lag' /\ lag' < MaxCost
         /\ work' \in -Half .. Half - 1
<1> USE DEF CpuInv, CpuTypeInv, ExecInv
<1>1. Cost[o][block] \in Nat /\ Cost[o][block] > 0 /\ Cost[o][block] <= MaxCost
  BY CostType DEF BlockBody
<1>2. work' = lag' /\ lag' = lag + Cost[o][block]
  BY DEF BlockBody
<1>3. Saved \in 0 .. Word - 1
  BY WordRange DEF BlockBody, Saved
<1>4. total' \in 0 .. Word - 1
  BY <1>3 DEF BlockBody
<1>5. stamp' \in 0 .. Tick - 1
  BY <1>4, TickMod DEF BlockBody
<1> QED BY <1>1, <1>2, <1>4, <1>5 DEF BlockBody

(* Moving both words back by the same amount leaves them as far apart. *)
LEMMA WrapKeepsLag ==
  ASSUME CpuInv, NEW n \in 0 .. MaxGrant, StartWrapped(n)
  PROVE  /\ cycles' \in 0 .. Word - 1 /\ total' \in 0 .. Word - 1
         /\ Apart(total', cycles', lag - n) /\ work' = lag'
<1> USE DEF CpuInv, CpuTypeInv
<1> DEFINE c == ToWord(cycles + n)
<1>1. /\ state' = "exec" /\ state = "idle"
      /\ op' = op /\ cycle' = cycle /\ block' = block /\ stamp' = stamp
      /\ lag' = lag - n /\ cycles' = ToWord(c - WrapBy)
      /\ total' = ToWord(total - WrapBy) /\ work' = Loaded(total', cycles')
  BY DEF StartWrapped, WrapCycles
<1>2. c \in 0 .. Word - 1 /\ Apart(total, c, lag - n)
  BY <1>1, GrantWord
<1>3. cycles' \in 0 .. Word - 1 /\ total' \in 0 .. Word - 1
  BY <1>1, <1>2, WordRange
<1>4. cycles' = c - WrapBy \/ cycles' = c - WrapBy + Word
  BY <1>1, <1>2 DEF ToWord
<1>5. total' = total - WrapBy \/ total' = total - WrapBy + Word
  BY <1>1, <1>2 DEF ToWord
<1>6. lag - n > -Half /\ lag - n < Half /\ lag - n \in Int
  BY <1>1 DEF IdleInv
<1>7. Apart(total', cycles', lag - n)
  <2>1. total \in 0 .. Word - 1
    OBVIOUS
  <2> HIDE DEF c, CpuInv, CpuTypeInv
  <2> QED BY <1>2, <1>3, <1>4, <1>5, <1>6, <2>1 DEF Apart
<1>8. work' = lag'
  BY <1>1, <1>3, <1>6, <1>7, LoadedIsLag DEF Apart
<1> QED BY <1>3, <1>7, <1>8

LEMMA CpuNextInv == CpuInv /\ [CpuNext]_cpuVars => CpuInv'
<1> SUFFICES ASSUME CpuInv, [CpuNext]_cpuVars PROVE CpuInv'
  OBVIOUS
<1> USE DEF CpuInv, CpuTypeInv
<1>1. ASSUME NEW n \in 0 .. MaxGrant, StartNothingDue(n) PROVE CpuInv'
  <2>1. /\ state' = "idle" /\ state = "idle" /\ total' = total /\ work' = work
        /\ op' = op /\ cycle' = cycle /\ block' = block /\ stamp' = stamp
        /\ lag' = lag - n /\ cycles' = ToWord(cycles + n)
        /\ NothingDue(ToWord(cycles + n))
    BY <1>1 DEF StartNothingDue
  <2>2. /\ cycles' \in 0 .. Word - 1 /\ Apart(total, cycles', lag - n)
        /\ lag - n >= 0
    BY <2>1, GrantWord
  <2>3. CpuTypeInv'
    BY <2>1, <2>2
  <2> QED BY <2>1, <2>2, <2>3 DEF IdleInv, ExecInv, Apart
<1>2. ASSUME NEW n \in 0 .. MaxGrant, StartWrapped(n) PROVE CpuInv'
  <2>1. /\ state' = "exec" /\ op' = op /\ cycle' = cycle /\ block' = block
        /\ stamp' = stamp /\ lag' = lag - n /\ state = "idle"
    BY <1>2 DEF StartWrapped
  <2>2. /\ cycles' \in 0 .. Word - 1 /\ total' \in 0 .. Word - 1
        /\ work' = lag'
    BY <1>2, WrapKeepsLag
  <2>3. lag - n > -Half /\ lag - n < Half /\ lag - n \in Int
    BY <2>1 DEF IdleInv
  <2> QED BY <2>1, <2>2, <2>3 DEF IdleInv, ExecInv
<1>3. ASSUME NEW n \in 0 .. MaxGrant, StartExecute(n) PROVE CpuInv'
  <2>1. /\ state' = "exec" /\ state = "idle" /\ total' = total
        /\ op' = op /\ cycle' = cycle /\ block' = block /\ stamp' = stamp
        /\ lag' = lag - n /\ cycles' = ToWord(cycles + n)
        /\ work' = Loaded(total, cycles')
    BY <1>3 DEF StartExecute
  <2>2. cycles' \in 0 .. Word - 1 /\ Apart(total, cycles', lag - n)
    BY <2>1, GrantWord
  <2>3. lag - n > -Half /\ lag - n < Half /\ lag - n \in Int
    BY <2>1 DEF IdleInv
  <2>4. work' = lag'
    BY <2>1, <2>2, <2>3, LoadedIsLag DEF Apart
  <2> QED BY <2>1, <2>2, <2>3, <2>4 DEF IdleInv, ExecInv
<1>4. CASE Loop
  BY <1>4 DEF Loop, ResumeAt, IdleInv, ExecInv
<1>5. CASE LeaveExecute
  <2>1. /\ state = "exec" /\ state' = "idle" /\ block = 0 /\ work >= 0
        /\ total' = ToWord(work + cycles)
        /\ cycles' = cycles /\ work' = work /\ op' = op /\ cycle' = cycle
        /\ block' = block /\ lag' = lag /\ stamp' = stamp
    BY <1>5 DEF LeaveExecute, Saved
  <2>2. total' \in 0 .. Word - 1
    BY <2>1, WordRange
  <2>3. Apart(total', cycles', lag')
    BY <2>1 DEF ToWord, ExecInv, Apart
  <2> QED BY <2>1, <2>2, <2>3 DEF IdleInv, ExecInv
<1>6. ASSUME NEW o \in Opcodes, NEW access \in BOOLEAN, LastBlock(o, access)
      PROVE  CpuInv'
  <2>1. /\ BlockBody(o, access) /\ block <= Len(Cost[o]) /\ cycle' = 0
        /\ block' = 0 /\ state' = state /\ cycles' = cycles
    BY <1>6 DEF LastBlock, BlockBody, CycleAtEnd
  <2> QED BY <2>1, BodyStep DEF IdleInv, ExecInv
<1>7. ASSUME NEW o \in Opcodes, NEW access \in BOOLEAN, InnerBlock(o, access)
      PROVE  CpuInv'
  <2>0. Cost[o] \in Seq(1 .. MaxCost)
    BY CycleAssumption DEF CycleAssumption
  <2>1. /\ BlockBody(o, access) /\ block <= Len(Cost[o])
        /\ state' = state /\ cycles' = cycles
        /\ IF Spent(work') THEN cycle' = block /\ block' = 0
                           ELSE cycle' = cycle /\ block' = block + 1
    BY <1>7, <2>0 DEF InnerBlock
  <2> QED BY <2>1, BodyStep DEF Spent, IdleInv, ExecInv
<1>8. CASE UNCHANGED cpuVars
  BY <1>8 DEF cpuVars, IdleInv, ExecInv, Apart
<1> QED BY <1>1, <1>2, <1>3, <1>4, <1>5, <1>6, <1>7, <1>8
        DEF CpuNext, Start, SpcStart, Execute

LEMMA CpuInvariance == CpuSpec => []CpuInv
<1> QED BY CpuInitInv, CpuNextInv, PTL DEF CpuSpec

(* The counters stay words and the control state has its type. *)
THEOREM CpuTypeCorrect == CpuSpec => []CpuTypeOK
<1>1. CpuInv => CpuTypeOK
  BY DEF CpuInv, CpuTypeInv, CpuTypeOK
<1> QED BY <1>1, CpuInvariance, PTL

(* The CPU has executed what it was granted, and less than a block more,
   whenever SPC_START has returned; no wrap of the counters loses or repeats
   a cycle. *)
THEOREM CpuNotBehind == CpuSpec => []NotBehind
<1>1. CpuInv => NotBehind
  BY DEF CpuInv, CpuTypeInv, IdleInv, NotBehind
<1> QED BY <1>1, CpuInvariance, PTL

(* No block is begun without cycles to spend. *)
THEOREM CpuNeverAhead == CpuSpec => []NeverAhead
<1>1. CpuInv => NeverAhead
  BY DEF CpuInv, ExecInv, NeverAhead
<1> QED BY <1>1, CpuInvariance, PTL

(* The difference of the two words is the true lag, across every wrap. *)
THEOREM CountersMeasureLag == CpuSpec => []LagMeasured
<1>1. CpuInv => LagMeasured
  BY DEF CpuInv, CpuTypeInv, IdleInv, ExecInv, LagMeasured, Apart, ToWord
<1> QED BY <1>1, CpuInvariance, PTL

-----------------------------------------------------------------------------
(* Remainders, of which the provers know little: t * k grows with k, so a
   remainder is unique, and multiples of t drop out. *)

LEMMA MulGrows ==
  ASSUME NEW t \in Int, t > 0, NEW k \in Int, k >= 1
  PROVE  t * k >= t
<1>1. PICK j \in Nat : k = j + 1
  <2>1. k - 1 \in Nat /\ k = (k - 1) + 1
    OBVIOUS
  <2> QED BY <2>1
<1>2. t * (j + 1) = t * j + t /\ t * j \in Nat
  OBVIOUS
<1> QED BY <1>1, <1>2

LEMMA Quotient ==
  ASSUME NEW t \in Int, t > 0, NEW a \in Int
  PROVE  \E q \in Int : a - (a % t) = t * q
<1>1. a \div t \in Int
  OBVIOUS
<1>2. a = t * (a \div t) + (a % t)
  BY SMTT(20)
<1>3. \A r, p \in Int : a = p + r => a - r = p
  OBVIOUS
<1>4. a % t \in Int /\ t * (a \div t) \in Int
  BY <1>1
<1>5. a - (a % t) = t * (a \div t)
  BY <1>2, <1>3, <1>4
<1> QED BY <1>1, <1>5

LEMMA Remainder ==
  ASSUME NEW t \in Int, t > 0, NEW a \in Int
  PROVE  a % t \in Int /\ 0 <= a % t /\ a % t < t
  OBVIOUS

LEMMA ModUnique ==
  ASSUME NEW t \in Int, t > 0, NEW q \in Int, NEW r \in Int, 0 <= r, r < t,
         NEW a \in Int, a - r = t * q
  PROVE  a % t = r
<1> DEFINE s == a % t
<1>1. s \in Int /\ 0 <= s /\ s < t
  BY Remainder
<1>2. PICK p \in Int : a - s = t * p
  BY Quotient
<1> HIDE DEF s
<1>3. t * (q - p) = t * q - t * p /\ t * (p - q) = t * p - t * q
  OBVIOUS
<1>4. t * (q - p) = s - r /\ t * (p - q) = r - s
  BY <1>1, <1>2, <1>3
<1>5. ~(q - p >= 1)
  BY <1>1, <1>4, MulGrows
<1>6. ~(p - q >= 1)
  BY <1>1, <1>4, MulGrows
<1>7. p = q
  BY <1>5, <1>6
<1> QED BY <1>1, <1>2, <1>7 DEF s

LEMMA ModAdd ==
  ASSUME NEW t \in Int, t > 0, NEW x \in Int, NEW y \in Int
  PROVE  ((x % t) + y) % t = (x + y) % t
<1> DEFINE r == x % t
           u == r + y
           s == u % t
<1>1. r \in Int /\ u \in Int /\ u = r + y
  BY Remainder
<1>2. PICK q \in Int : x - r = t * q
  BY Quotient
<1> HIDE DEF r, u
<1>3. s \in Int /\ 0 <= s /\ s < t
  BY <1>1, Remainder
<1>4. PICK p \in Int : u - s = t * p
  BY <1>1, Quotient
<1> HIDE DEF s
<1>5. t * (q + p) = t * q + t * p /\ q + p \in Int
  OBVIOUS
<1>6. x + y - s = t * (q + p)
  BY <1>1, <1>2, <1>3, <1>4, <1>5
<1>7. (x + y) % t = s
  <2> DEFINE a == x + y
             k == q + p
  <2>1. a \in Int /\ k \in Int
    BY <1>5
  <2>2. a - s = t * k
    BY <1>3, <1>6
  <2> HIDE DEF a, k
  <2>3. a % t = s
    BY <2>1, <2>2, <1>3, ModUnique
  <2> QED BY <2>3 DEF a
<1> QED BY <1>7 DEF r, u, s

LEMMA ModPeriod ==
  ASSUME NEW t \in Int, t > 0, NEW x \in Int, NEW w \in Int, w % t = 0
  PROVE  (x + w) % t = x % t /\ (x - w) % t = x % t
<1> DEFINE r == x % t
<1>1. PICK k \in Int : w - (w % t) = t * k
  BY Quotient
<1>2. PICK q \in Int : x - r = t * q
  BY Quotient
<1>3. r \in Int /\ 0 <= r /\ r < t
  BY Remainder
<1> HIDE DEF r
<1>4. /\ t * (q + k) = t * q + t * k /\ t * (q - k) = t * q - t * k
      /\ q + k \in Int /\ q - k \in Int
  OBVIOUS
<1>5. w = t * k
  BY <1>1
<1>6. x + w - r = t * (q + k) /\ x - w - r = t * (q - k)
  BY <1>2, <1>3, <1>4, <1>5
<1>7. (x + w) % t = r
  <2> DEFINE a == x + w
             m == q + k
  <2>1. a \in Int /\ m \in Int /\ a - r = t * m
    BY <1>3, <1>4, <1>6
  <2> HIDE DEF a, m
  <2>2. a % t = r
    BY <2>1, <1>3, ModUnique
  <2> QED BY <2>2 DEF a
<1>8. (x - w) % t = r
  <2> DEFINE a == x - w
             m == q - k
  <2>1. a \in Int /\ m \in Int /\ a - r = t * m
    BY <1>3, <1>4, <1>6
  <2> HIDE DEF a, m
  <2>2. a % t = r
    BY <2>1, <1>3, ModUnique
  <2> QED BY <2>2 DEF a
<1> QED BY <1>7, <1>8 DEF r

-----------------------------------------------------------------------------
(* The refinement of CpuStream. *)

LEMMA WordMod ==
  ASSUME NEW x \in Int
  PROVE  ToWord(x) % Tick = x % Tick
<1>1. Tick \in Int /\ Tick > 0 /\ Word \in Int /\ Word % Tick = 0
  BY CycleAssumption DEF CycleAssumption
<1>2. (x + Word) % Tick = x % Tick /\ (x - Word) % Tick = x % Tick
  BY <1>1, ModPeriod
<1> QED BY <1>2 DEF ToWord

LEMMA WrapMod ==
  ASSUME NEW x \in Int
  PROVE  ToWord(x - WrapBy) % Tick = x % Tick
<1>1. Tick \in Int /\ Tick > 0 /\ WrapBy \in Int /\ WrapBy % Tick = 0
  BY CycleAssumption DEF CycleAssumption
<1>2. (x - WrapBy) % Tick = x % Tick
  BY <1>1, ModPeriod
<1>3. x - WrapBy \in Int
  BY <1>1
<1> QED BY <1>2, <1>3, WordMod

(* What SameStream puts for the variables of CpuStream. *)
Done == IF block > 0 THEN block - 1 ELSE cycle
Phase == Now % Tick

LEMMA InitStream == CpuInit => Stream!Init
  BY DEF CpuInit, Stream!Init, Now

(* From idle to the loop the time does not move. *)
LEMMA SavedIsTotal ==
  ASSUME NEW t \in 0 .. Word - 1, NEW c \in 0 .. Word - 1, NEW d \in Int,
         -Half < d, d < Half, Apart(t, c, d)
  PROVE  ToWord(d + c) = t
  BY DEF Apart, ToWord

(* A block done, be it an instruction's last or not. *)
LEMMA BlockDone ==
  ASSUME CpuInv, NEW o \in Opcodes, NEW access \in BOOLEAN,
         LastBlock(o, access) \/ InnerBlock(o, access)
  PROVE  /\ BlockBody(o, access) /\ block <= Len(Cost[o])
         /\ state' = state /\ cycles' = cycles
         /\ Done' = IF block = Len(Cost[o]) THEN 0 ELSE block
<1> USE DEF CpuInv, CpuTypeInv
<1>1. CASE LastBlock(o, access)
  BY <1>1 DEF LastBlock, BlockBody, CycleAtEnd, Done
<1>2. CASE InnerBlock(o, access)
  <2>0. Cost[o] \in Seq(1 .. MaxCost)
    BY CycleAssumption DEF CycleAssumption
  <2>1. /\ BlockBody(o, access) /\ block < Len(Cost[o]) /\ block > 0
        /\ block <= Len(Cost[o]) /\ block # Len(Cost[o])
        /\ state' = state /\ cycles' = cycles
        /\ IF Spent(work') THEN cycle' = block /\ block' = 0
                           ELSE cycle' = cycle /\ block' = block + 1
    BY <1>2, <2>0 DEF InnerBlock, BlockBody
  <2>2. Done' = block
    <3>1. CASE work' >= 0
      BY <2>1, <3>1 DEF Spent, Done
    <3>2. CASE ~(work' >= 0)
      BY <2>1, <3>2 DEF Spent, Done
    <3> QED BY <3>1, <3>2
  <2> QED BY <2>1, <2>2
<1> QED BY <1>1, <1>2

LEMMA StreamStep ==
  ASSUME CpuInv, CpuInv', [CpuNext]_cpuVars
  PROVE  [Stream!Next]_<<op, Done, Phase, stamp>>
<1> USE DEF CpuInv, CpuTypeInv
<1>1. ASSUME NEW n \in 0 .. MaxGrant, StartNothingDue(n)
      PROVE  UNCHANGED <<op, Done, Phase, stamp>>
  BY <1>1 DEF StartNothingDue, Done, Phase, Now
<1>2. ASSUME NEW n \in 0 .. MaxGrant, StartWrapped(n)
      PROVE  UNCHANGED <<op, Done, Phase, stamp>>
  <2>1. /\ state = "idle" /\ state' = "exec" /\ total' = ToWord(total - WrapBy)
        /\ op' = op /\ Done' = Done /\ stamp' = stamp /\ lag' = lag - n
    BY <1>2 DEF StartWrapped, Done
  <2>2. Now = total /\ Now' = ToWord(work' + cycles')
    BY <2>1 DEF Now, Saved
  <2>3. total' % Tick = total % Tick
    BY <2>1, WrapMod
  <2>4. ToWord(work' + cycles') = total'
    <3>1. /\ cycles' \in 0 .. Word - 1 /\ total' \in 0 .. Word - 1
          /\ Apart(total', cycles', lag - n) /\ work' = lag - n
      BY <1>2, <2>1, WrapKeepsLag
    <3>2. lag - n \in Int /\ -Half < lag - n /\ lag - n < Half
      BY <2>1 DEF IdleInv
    <3> QED BY <3>1, <3>2, SavedIsTotal
  <2> QED BY <2>1, <2>2, <2>3, <2>4 DEF Phase
<1>3. ASSUME NEW n \in 0 .. MaxGrant, StartExecute(n)
      PROVE  UNCHANGED <<op, Done, Phase, stamp>>
  <2>1. /\ state = "idle" /\ state' = "exec" /\ total' = total
        /\ op' = op /\ Done' = Done /\ stamp' = stamp /\ lag' = lag - n
        /\ cycles' = ToWord(cycles + n)
    BY <1>3 DEF StartExecute, Done
  <2>2. Now = total /\ Now' = ToWord(work' + cycles')
    BY <2>1 DEF Now, Saved
  <2>3. Apart(total, cycles', lag - n) /\ work' = lag - n
    BY <2>1, GrantWord DEF ExecInv
  <2>4. ToWord(work' + cycles') = total
    BY <2>1, <2>3, SavedIsTotal DEF ExecInv
  <2> QED BY <2>1, <2>2, <2>4 DEF Phase
<1>4. CASE Loop
  BY <1>4 DEF Loop, ResumeAt, Done, Phase, Now, Saved
<1>5. CASE LeaveExecute
  BY <1>5 DEF LeaveExecute, Done, Phase, Now, Saved
<1>6. ASSUME NEW o \in Opcodes, NEW access \in BOOLEAN, BlockBody(o, access),
             block <= Len(Cost[o]), state' = state, cycles' = cycles,
             Done' = IF block = Len(Cost[o]) THEN 0 ELSE block
      PROVE  Stream!Block(o, access)
  <2>1. /\ state = "exec" /\ block > 0 /\ (block > 1 => o = op) /\ op' = o
        /\ total' = (IF access THEN Saved ELSE total)
        /\ stamp' = (IF access THEN total' % Tick ELSE stamp)
        /\ work' = work + Cost[o][block]
    BY <1>6 DEF BlockBody
  <2>2. Done = block - 1 /\ Done + 1 = block
    BY <2>1 DEF Done
  <2>3. stamp' = IF access THEN Phase ELSE stamp
    BY <2>1 DEF Phase, Now
  <2>4. Phase' = (Phase + Cost[o][Done + 1]) % Tick
    <3> DEFINE w == work + cycles
               k == Cost[o][block]
    <3>1. k \in Int
      BY <1>6, <2>1, CostType
    <3>2. Phase = w % Tick
      BY <2>1, WordMod DEF Phase, Now, Saved
    <3>3. work' + cycles' = w + k /\ w \in Int /\ w + k \in Int
      BY <1>6, <2>1, <3>1
    <3>4. Phase' = (w + k) % Tick
      BY <1>6, <2>1, <3>3, WordMod DEF Phase, Now, Saved
    <3>5. Tick \in Int /\ Tick > 0
      BY CycleAssumption DEF CycleAssumption
    <3> HIDE DEF w, k
    <3>6. ((w % Tick) + k) % Tick = (w + k) % Tick
      BY <3>1, <3>3, <3>5, ModAdd
    <3> QED BY <2>2, <3>2, <3>4, <3>6 DEF k
  <2>5. Done > 0 => o = op
    BY <2>1, <2>2
  <2> QED BY <1>6, <2>1, <2>2, <2>3, <2>4, <2>5 DEF Stream!Block, Done, Phase
<1>7. ASSUME NEW o \in Opcodes, NEW access \in BOOLEAN,
             LastBlock(o, access) \/ InnerBlock(o, access)
      PROVE  Stream!Next
  <2>1. Stream!Block(o, access)
    BY <1>6, <1>7, BlockDone
  <2> QED BY <2>1 DEF Stream!Next
<1>8. CASE UNCHANGED cpuVars
  BY <1>8 DEF cpuVars, Done, Phase, Now, Saved
<1> QED BY <1>1, <1>2, <1>3, <1>4, <1>5, <1>7, <1>8
        DEF CpuNext, Start, SpcStart, Execute

(* However cycles are granted, the CPU implements the stream of blocks. *)
THEOREM CpuRunsStream == CpuSpec => SameStream
<1>1. CpuInv /\ CpuInv' /\ [CpuNext]_cpuVars
        => [Stream!Next]_<<op, Done, Phase, stamp>>
  BY StreamStep
<1> QED BY InitStream, <1>1, CpuInvariance, PTL
        DEF CpuSpec, SameStream, Stream!Spec, Done, Phase

HIDE CpuConstants

-----------------------------------------------------------------------------
(***************************************************************************)
(* The two together: the composition is made of steps of its components,   *)
(* and what the song sees of it does not depend on the host.               *)
(***************************************************************************)

(* Each step is one of the run loop's and one of the CPU's, or leaves one of
   the two alone. *)
LEMMA HostStep == [SysNext]_sysVars => [Next]_vars
  BY DEF SysNext, SysCall, SysInCall, CallAndRun, CallOnly, LeadInAndRun,
         RunWholeAndRun, RunPartAndRun, MixOnly, ReturnOnly, CpuStep, sysVars,
         Next, Call, InCall

(* What the run loop grants is no more than a sample's cycles. *)
LEMMA GrantsBounded ==
  ASSUME IInv
  PROVE  /\ TsCyc \in 0 .. MaxGrant
         /\ mixLeft \in 0 .. MaxGrant
         /\ RunPart => limit \in 0 .. MaxGrant
         /\ \A c \in CycleLimits, hasBuf \in BOOLEAN, bytes \in BufferBytes :
              CallWithinSample(c, hasBuf, bytes) => c \in 0 .. MaxGrant
<1> USE SystemAssumption DEF SystemAssumption, IInv, TypeInv
<1>1. TsCyc \in 0 .. MaxGrant /\ mixLeft \in 0 .. MaxGrant
  BY Constants, CpuConstants
<1>2. RunPart => limit \in 0 .. MaxGrant
  BY <1>1, Constants, CpuConstants DEF RunPart
<1>3. ASSUME NEW c \in CycleLimits, NEW hasBuf \in BOOLEAN,
             NEW bytes \in BufferBytes, CallWithinSample(c, hasBuf, bytes)
      PROVE  c \in 0 .. MaxGrant
  <2>1. c \in Int /\ c >= 0 /\ c < mixLeft
    BY <1>3, Constants DEF CallWithinSample, BufferLimited
  <2> QED BY <1>1, <2>1, Constants, CpuConstants
<1> QED BY <1>1, <1>2, <1>3

LEMMA CpuStepOrStutter == ASSUME IInv PROVE [SysNext]_sysVars => [CpuNext]_cpuVars
<1> SUFFICES ASSUME [SysNext]_sysVars PROVE [CpuNext]_cpuVars
  OBVIOUS
<1>1. ASSUME NEW n \in 0 .. MaxGrant, SpcStart(n) PROVE CpuNext
  BY <1>1 DEF CpuNext, Start
<1>2. CASE LeadInAndRun
  BY <1>1, <1>2, GrantsBounded DEF LeadInAndRun, LeadGrant
<1>3. CASE RunWholeAndRun
  BY <1>1, <1>3, GrantsBounded DEF RunWholeAndRun, RunsAfter
<1>4. CASE RunPartAndRun
  BY <1>1, <1>4, GrantsBounded DEF RunPartAndRun
<1>5. CASE CallAndRun
  BY <1>1, <1>5, GrantsBounded DEF CallAndRun
<1>6. CASE CallOnly \/ MixOnly \/ ReturnOnly \/ UNCHANGED sysVars
  BY <1>6 DEF CallOnly, MixOnly, ReturnOnly, sysVars
<1>7. CASE CpuStep
  BY <1>7 DEF CpuStep, CpuNext
<1> QED BY <1>2, <1>3, <1>4, <1>5, <1>6, <1>7 DEF SysNext, SysCall, SysInCall

(* The run loop in the system is SpcRun: all that is proved of it holds. *)
THEOREM SystemRunsHost == SysSpec => Spec
<1>1. SysInit => Init
  BY DEF SysInit
<1> QED BY <1>1, HostStep, PTL DEF SysSpec, Spec

(* The CPU in the system is SpcCycles. *)
THEOREM SystemRunsCpu == SysSpec => CpuSpec
<1>1. SysInit => CpuInit
  BY DEF SysInit
<1>2. SysSpec => []IInv
  BY SystemRunsHost, Invariance, PTL
<1>3. IInv /\ [SysNext]_sysVars => [CpuNext]_cpuVars
  BY CpuStepOrStutter
<1> QED BY <1>1, <1>2, <1>3, PTL DEF SysSpec, CpuSpec

-----------------------------------------------------------------------------
(* Independence of the host. *)

(* The time the CPU is ahead of the next sample: what a call has granted it
   and the sample clock has not yet seen cancel out. *)
Ahead == lag + phase - TsCyc

LEMMA InitMachine == SysInit => Machine!Init
  BY Constants, CpuConstants
     DEF SysInit, Init, CpuInit, Machine!Init, ResetCycles

(* A grant of n cycles leaves Ahead as it is. *)
LEMMA GrantNeutral ==
  ASSUME CpuInv, CInv, CpuInv', NEW n \in 0 .. MaxGrant, SpcStart(n),
         phase' = phase + n
  PROVE  UNCHANGED <<op, Done, Ahead>>
<1>1. lag' = lag - n /\ op' = op /\ cycle' = cycle /\ block' = block
  BY DEF SpcStart, StartNothingDue, StartWrapped, StartExecute
<1>2. lag \in Int /\ n \in Int /\ phase \in Int /\ TsCyc \in Int
  BY Constants DEF CpuInv, CpuTypeInv, CInv, IInv, TypeInv
<1> QED BY <1>1, <1>2 DEF Ahead, Done

LEMMA PhaseWithinSample == ASSUME CInv PROVE phase <= TsCyc
<1> USE Constants DEF CInv, IInv, TypeInv
<1>1. CASE mode = "idle" \/ step = "lead"
  BY <1>1 DEF ClockInv
<1>2. CASE mode # "idle" /\ step = "mix"
  BY <1>2 DEF ClockInv
<1>3. CASE mode # "idle" /\ step = "run"
  BY <1>3 DEF ClockInv
<1> QED BY <1>1, <1>2, <1>3

LEMMA MachineStep ==
  ASSUME ~ExactEnds, CInv, CpuInv, CInv', CpuInv', [SysNext]_sysVars
  PROVE  [Machine!Next]_<<op, Done, Ahead>>
<1> USE DEF CInv, IInv, TypeInv, CpuInv, CpuTypeInv
<1> USE Constants, CpuConstants
<1>1. CASE LeadInAndRun
  <2>1. /\ LeadIn /\ SpcStart(mixLeft) /\ mode # "idle" /\ step = "lead"
        /\ phase' = Elapse(mixLeft)
    BY <1>1 DEF LeadInAndRun, LeadGrant, LeadIn, GrantCpu
  <2>2. phase' = phase + mixLeft
    BY <2>1, ElapseExact DEF ClockInv
  <2> QED BY <2>1, <2>2, GrantsBounded, GrantNeutral
<1>2. CASE RunWholeAndRun
  <2>1. /\ SpcStart(TsCyc) /\ mode # "idle" /\ step = "run"
        /\ phase' = Elapse(TsCyc)
    BY <1>2 DEF RunWholeAndRun, RunsAfter, RunWhole, GrantCpu
  <2>2. phase' = phase + TsCyc
    BY <2>1, ElapseExact DEF ClockInv
  <2> QED BY <2>1, <2>2, GrantsBounded, GrantNeutral
<1>3. CASE RunPartAndRun
  <2>1. /\ RunPart /\ SpcStart(limit) /\ mode # "idle" /\ step = "run"
        /\ limit < TsCyc /\ phase' = Elapse(limit)
    BY <1>3 DEF RunPartAndRun, RunPart, GrantCpu
  <2>2. phase' = phase + limit
    BY <2>1, ElapseExact DEF ClockInv
  <2> QED BY <2>1, <2>2, GrantsBounded, GrantNeutral
<1>4. CASE CallAndRun
  <2>1. PICK c \in CycleLimits, hasBuf \in BOOLEAN, bytes \in BufferBytes :
               CallWithinSample(c, hasBuf, bytes) /\ SpcStart(c)
    BY <1>4 DEF CallAndRun
  <2>2. mode = "idle" /\ c < mixLeft /\ phase' = Elapse(c) /\ c \in 0 .. MaxGrant
    BY <2>1, GrantsBounded DEF CallWithinSample, Begin
  <2>3. phase' = phase + c
    BY <2>2, ElapseExact DEF ClockInv
  <2> QED BY <2>1, <2>2, <2>3, GrantNeutral
<1>5. CASE CallOnly
  <2>1. phase' = phase
    BY <1>5 DEF CallOnly, CallForBuffer, CallForCycles
  <2> QED BY <1>5, <2>1 DEF CallOnly, cpuVars, Ahead, Done
<1>6. CASE MixOnly
  <2>1. /\ mode # "idle" /\ step = "mix" /\ MoreToMix /\ phase' = 0
        /\ state = "idle" /\ UNCHANGED cpuVars
    BY <1>6 DEF MixOnly, Mix, CpuDone
  <2>2. phase = TsCyc
    BY <2>1 DEF ClockInv, MoreToMix
  <2>3. lag >= 0 /\ lag' = lag
    BY <2>1 DEF IdleInv, cpuVars
  <2>4. Ahead >= 0 /\ Ahead' = Ahead - TsCyc
    BY <2>1, <2>2, <2>3 DEF Ahead
  <2>5. op' = op /\ Done' = Done
    BY <2>1 DEF cpuVars, Done
  <2> QED BY <2>4, <2>5 DEF Machine!Next, Machine!Sample, Ahead, Done
<1>7. CASE ReturnOnly
  <2>1. phase' = phase
    BY <1>7 DEF ReturnOnly, Return
  <2> QED BY <1>7, <2>1 DEF ReturnOnly, cpuVars, Ahead, Done
<1>8. CASE CpuStep
  <2>0. phase' = phase /\ phase <= TsCyc
    <3>1. phase' = phase
      BY <1>8 DEF CpuStep, vars
    <3>2. phase <= TsCyc
      BY PhaseWithinSample
    <3> QED BY <3>1, <3>2
  <2>1. CASE Loop \/ LeaveExecute
    <3>1. lag' = lag /\ op' = op
      BY <2>1 DEF Loop, LeaveExecute
    <3>2. CASE Loop
      <4>1. block = 0 /\ block' = cycle + 1 /\ cycle' = cycle
        BY <3>2 DEF Loop, ResumeAt
      <4> QED BY <2>0, <3>1, <4>1 DEF Ahead, Done
    <3>3. CASE LeaveExecute
      <4>1. block' = block /\ cycle' = cycle
        BY <3>3 DEF LeaveExecute
      <4> QED BY <2>0, <3>1, <4>1 DEF Ahead, Done
    <3> QED BY <2>1, <3>2, <3>3
  <2>2. ASSUME NEW o \in Opcodes, NEW access \in BOOLEAN,
               BlockBody(o, access), Done' = IF block = Len(Cost[o]) THEN 0 ELSE block,
               block <= Len(Cost[o])
        PROVE  Machine!Next
    <3>1. /\ state = "exec" /\ block > 0 /\ (block > 1 => o = op) /\ op' = o
          /\ lag' = lag + Cost[o][block]
      BY <2>2 DEF BlockBody
    <3>2. lag < 0
      BY <3>1 DEF ExecInv
    <3>3. Done = block - 1 /\ Done + 1 = block
      BY <3>1 DEF Done
    <3>4. Cost[o][block] \in Nat
      BY <2>2, <3>1, CostType
    <3>5. Ahead < 0 /\ Ahead' = Ahead + Cost[o][block]
      BY <2>0, <3>1, <3>2, <3>4 DEF Ahead
    <3>6. Done > 0 => o = op
      BY <3>1, <3>3
    <3>7. Machine!Block(o)
      BY <2>2, <3>1, <3>3, <3>5, <3>6 DEF Machine!Block, Ahead, Done
    <3> QED BY <3>7 DEF Machine!Next
  <2>3. ASSUME NEW o \in Opcodes, NEW access \in BOOLEAN,
               LastBlock(o, access) \/ InnerBlock(o, access)
        PROVE  Machine!Next
    BY <2>2, <2>3, BlockDone
  <2> QED BY <1>8, <2>1, <2>2, <2>3 DEF CpuStep, Execute
<1>9. CASE UNCHANGED sysVars
  BY <1>9 DEF sysVars, vars, cpuVars, Ahead, Done
<1> QED BY <1>1, <1>2, <1>3, <1>4, <1>5, <1>6, <1>7, <1>8, <1>9
        DEF SysNext, SysCall, SysInCall

(* However the host divides cycles among calls, of whichever kind, the song
   runs as on a machine without a host. *)
THEOREM RunsLikeMachine == ASSUME ~ExactEnds PROVE SysSpec => HostIndependent
<1>1. SysSpec => []CInv
  BY SystemRunsHost, ClockInvariance, PTL
<1>2. SysSpec => []CpuInv
  BY SystemRunsCpu, CpuInvariance, PTL
<1>3. CInv /\ CInv' /\ CpuInv /\ CpuInv' /\ [SysNext]_sysVars
        => [Machine!Next]_<<op, Done, Ahead>>
  BY MachineStep
<1> QED BY InitMachine, <1>1, <1>2, <1>3, PTL
        DEF SysSpec, HostIndependent, Machine!Spec, Done, Ahead
=============================================================================
