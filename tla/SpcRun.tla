------------------------------- MODULE SpcRun -------------------------------
(***************************************************************************)
(* SpcContext::Run (main.cc:92-137): the loop that interleaves the CPU and  *)
(* the DSP.  A call of the host is limited by the buffer or by a number of  *)
(* cycles; mixLeft (mix_left_) carries the cycles still owed to the current *)
(* sample from one call to the next.  Every DSP_Update and every            *)
(* spc_cpu_.Run is a step of its own, because the state of the machine is   *)
(* visible to both between the two.                                         *)
(***************************************************************************)
EXTENDS Integers

CONSTANTS
  TsCyc,          \* TS_CYC, CPU cycles per sample (32 in the code)
  CycleLimits,    \* the values of cycle_limit the host passes
  BufferBytes,    \* the values of buf_size the host passes
  ExactEnds       \* may a cycle limited call end exactly on a sample's due time?

BytesPerSample == 4               \* kBytesPerSample

ASSUME RunAssumption ==
  /\ TsCyc \in Nat \ {0}
  /\ CycleLimits \subseteq Int
  /\ BufferBytes \subseteq Nat
  /\ ExactEnds \in BOOLEAN

VARIABLES
  mode,       \* "idle" between calls; "buffer" or "cycles": what limits the call
  step,       \* next step of the call: "lead", "mix" or "run"
  mixLeft,    \* mix_left_
  room,       \* samples the buffer loop has yet to emit
  limit,      \* cycle_limit, counted down by the cycle loop
  written,    \* samples emitted by this call
  \* history, of the current or last call and of the sample clock
  call,       \* the arguments, and mixLeft at the start of the call
  granted,    \* cycles given to the CPU by this call
  phase       \* cycles given to the CPU since the last sample

callVars == <<mode, step, room, limit, written, call, granted>>
vars == <<callVars, mixLeft, phase>>

(***************************************************************************)
(* PhaseCap bounds the history: a sample that is late at all is as late as  *)
(* this.                                                                    *)
(***************************************************************************)
PhaseCap == TsCyc + 1
Elapse(n) == IF phase + n > PhaseCap THEN PhaseCap ELSE phase + n

\* mutant: a buffer's last, incomplete sample counts as room
Samples_RoundUp(bytes) == (bytes + BytesPerSample - 1) \div BytesPerSample
Samples(bytes) == bytes \div BytesPerSample

Init ==
  /\ mode = "idle" /\ step = "lead"
  /\ mixLeft = 0
  /\ room = 0 /\ limit = 0 /\ written = 0
  /\ call = [cyc |-> 0, hasBuf |-> FALSE, bytes |-> 0, left |-> 0]
  /\ granted = 0
  /\ phase = TsCyc

-----------------------------------------------------------------------------
(* The call.  Its first decision is what limits it. *)

BufCycles(bytes) == Samples(bytes) * TsCyc + mixLeft

BufferLimited(c, hasBuf, bytes) == c < 0 \/ (hasBuf /\ c >= BufCycles(bytes))

(* A cycle limited call for which the last cycle granted is the one that
   makes the next sample due, while cycles of the current one were owed. *)
EndsOnSample(c) ==
  /\ mixLeft > 0
  /\ c >= mixLeft
  /\ \E k \in 0 .. c : c - mixLeft = k * TsCyc

Begin(c, hasBuf, bytes) ==
  /\ mode = "idle"
  /\ call' = [cyc |-> c, hasBuf |-> hasBuf, bytes |-> bytes, left |-> mixLeft]
  /\ written' = 0

\* mutant: the cycles owed from the last call are forgotten
Lead_Skip == "mix"
Lead == IF mixLeft > 0 THEN "lead" ELSE "mix"

CallForBuffer(c, hasBuf, bytes) ==
  /\ Begin(c, hasBuf, bytes)
  /\ BufferLimited(c, hasBuf, bytes)
  /\ mode' = "buffer" /\ step' = Lead
  /\ room' = Samples(bytes) /\ limit' = 0 /\ granted' = 0
  /\ UNCHANGED <<mixLeft, phase>>

StillOwed(c) == mixLeft - c

(* cycle_limit < mix_left_: one CPU run and an early return. *)
CallWithinSample(c, hasBuf, bytes) ==
  /\ Begin(c, hasBuf, bytes)
  /\ ~BufferLimited(c, hasBuf, bytes)
  /\ c < mixLeft
  /\ mixLeft' = StillOwed(c)
  /\ granted' = c
  /\ phase' = Elapse(c)
  /\ room' = 0 /\ limit' = 0
  /\ UNCHANGED <<mode, step>>

CallForCycles(c, hasBuf, bytes) ==
  /\ Begin(c, hasBuf, bytes)
  /\ ~BufferLimited(c, hasBuf, bytes)
  /\ c >= mixLeft
  /\ ExactEnds \/ ~EndsOnSample(c)
  /\ mode' = "cycles" /\ step' = Lead
  /\ limit' = c /\ room' = 0 /\ granted' = 0
  /\ UNCHANGED <<mixLeft, phase>>

Call == \E c \in CycleLimits, hasBuf \in BOOLEAN, bytes \in BufferBytes :
          \/ CallForBuffer(c, hasBuf, bytes)
          \/ CallWithinSample(c, hasBuf, bytes)
          \/ CallForCycles(c, hasBuf, bytes)

-----------------------------------------------------------------------------
(* The steps of a call in progress. *)

GrantCpu(n) == granted' = granted + n /\ phase' = Elapse(n)

\* mutant: the lead-in is not charged to the limit
LimitAfterLead_Free == limit
LimitAfterLead == IF mode = "cycles" THEN limit - mixLeft ELSE limit

(* spc_cpu_.Run(mix_left_); mixLeft itself is not changed here. *)
LeadIn ==
  /\ mode # "idle" /\ step = "lead"
  /\ GrantCpu(mixLeft)
  /\ limit' = LimitAfterLead
  /\ step' = "mix"
  /\ UNCHANGED <<mode, mixLeft, room, written, call>>

\* mutant: the loop runs once more with nothing left
MoreToMix_OneMore == IF mode = "buffer" THEN room > 0 ELSE limit >= 0
MoreToMix == IF mode = "buffer" THEN room > 0 ELSE limit > 0

(* WrittenCap bounds the history: one sample more than a call can want is as
   many as it takes to be wrong. *)
WrittenCap == IF mode = "buffer" THEN Samples(call.bytes) + 1 ELSE call.cyc + 1
OneMore == IF written < WrittenCap THEN written + 1 ELSE written

(* DSP_Update(buf); buf advances *)
Mix ==
  /\ mode # "idle" /\ step = "mix" /\ MoreToMix
  /\ phase' = 0
  /\ written' = OneMore
  /\ step' = "run"
  /\ UNCHANGED <<mode, mixLeft, room, limit, call, granted>>

(* spc_cpu_.Run(TS_CYC) after a sample *)
RunWhole ==
  /\ mode # "idle" /\ step = "run"
  /\ mode = "buffer" \/ limit >= TsCyc
  /\ GrantCpu(TsCyc)
  /\ room' = IF mode = "buffer" THEN room - 1 ELSE room
  /\ limit' = IF mode = "cycles" THEN limit - TsCyc ELSE limit
  /\ step' = "mix"
  /\ UNCHANGED <<mode, mixLeft, written, call>>

Owed(n) == TsCyc - n

(* The rest of the limit: a sample is begun and left for the next call. *)
RunPart ==
  /\ mode = "cycles" /\ step = "run"
  /\ limit < TsCyc
  /\ GrantCpu(limit)
  /\ mixLeft' = Owed(limit)
  /\ limit' = 0
  /\ step' = "mix"
  /\ UNCHANGED <<mode, room, written, call>>

\* mutant: a call limited by the buffer leaves mix_left_ as it was
LeftAtReturn_Kept == mixLeft
LeftAtReturn == IF mode = "buffer" THEN 0 ELSE mixLeft

Return ==
  /\ mode # "idle" /\ step = "mix" /\ ~MoreToMix
  /\ mixLeft' = LeftAtReturn
  /\ mode' = "idle" /\ step' = "lead"
  /\ UNCHANGED <<room, limit, written, call, granted, phase>>

InCall == LeadIn \/ Mix \/ RunWhole \/ RunPart \/ Return

Next == Call \/ InCall

Spec == Init /\ [][Next]_vars

-----------------------------------------------------------------------------
(* The run loop is always in one of its known states. *)
TypeOK ==
  /\ mode \in {"idle", "buffer", "cycles"}
  /\ step \in {"lead", "mix", "run"}
  /\ mixLeft \in 0 .. TsCyc - 1
  /\ room \in Nat /\ limit \in Nat /\ written \in Nat /\ granted \in Nat
  /\ call \in [cyc : CycleLimits \cup {0}, hasBuf : BOOLEAN,
               bytes : BufferBytes \cup {0}, left : 0 .. TsCyc - 1]
  /\ phase \in 0 .. PhaseCap

(* With a buffer, no call writes a sample that does not fit in it, whichever
   limit stops the call and whatever was left over from the call before
   (openspc.h: "Execution will stop when ... s_buf has been filled"). *)
BufferRespected ==
  call.hasBuf => written * BytesPerSample <= call.bytes

(* A call limited by cycles has given the CPU exactly the cycles it was asked
   for when it returns; one limited by the buffer has given it those owed to
   the sample in progress and a whole sample's for each sample written. *)
CyclesHonoured ==
  mode = "idle" =>
    IF \/ call.cyc < 0
       \/ call.hasBuf /\ call.cyc >= Samples(call.bytes) * TsCyc + call.left
      THEN /\ written = Samples(call.bytes)
           /\ granted = call.left + written * TsCyc
      ELSE granted = call.cyc

(* Between calls mixLeft is the number of cycles until the next sample is due
   (the comment at main.cc:248-249). *)
MixLeftIsTimeToSample == mode = "idle" => mixLeft = TsCyc - phase

(* The sample clock: SpcRun implements SampleClock. *)
Clock == INSTANCE SampleClock
SampleClockSpec == Clock!Spec
=============================================================================
