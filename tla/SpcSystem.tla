----------------------------- MODULE SpcSystem ------------------------------
(***************************************************************************)
(* The run loop and the CPU together.  Where SpcContext::Run (SpcRun) gives *)
(* the CPU n cycles it calls spc_cpu_.Run(n), which is SPC_START(n)         *)
(* (SpcCycles), and waits until that returns; only then does it make a      *)
(* sample, return to the host or grant again.                               *)
(***************************************************************************)
EXTENDS SpcRun, SpcCycles

ASSUME SystemAssumption == TsCyc <= MaxGrant

sysVars == <<vars, cpuVars>>

SysInit == Init /\ CpuInit

CpuDone == state = "idle"

\* mutant: the CPU is given a whole sample where the rest of one is owed
LeadGrant_Whole == TsCyc
LeadGrant == mixLeft

\* mutant: the CPU's run after a sample is left out
RunsAfter_Never(n) == UNCHANGED cpuVars
RunsAfter(n) == SpcStart(n)

-----------------------------------------------------------------------------
(* Steps of the run loop that run the CPU. *)
LeadInAndRun == CpuDone /\ LeadIn /\ SpcStart(LeadGrant)

RunWholeAndRun == CpuDone /\ RunWhole /\ RunsAfter(TsCyc)

RunPartAndRun == CpuDone /\ RunPart /\ SpcStart(limit)

CallAndRun ==
  /\ CpuDone
  /\ \E c \in CycleLimits, hasBuf \in BOOLEAN, bytes \in BufferBytes :
       CallWithinSample(c, hasBuf, bytes) /\ SpcStart(c)

(* Steps of the run loop that do not. *)
CallOnly ==
  /\ CpuDone
  /\ \E c \in CycleLimits, hasBuf \in BOOLEAN, bytes \in BufferBytes :
       CallForBuffer(c, hasBuf, bytes) \/ CallForCycles(c, hasBuf, bytes)
  /\ UNCHANGED cpuVars

MixOnly == CpuDone /\ Mix /\ UNCHANGED cpuVars

ReturnOnly == CpuDone /\ Return /\ UNCHANGED cpuVars

SysCall == CallAndRun \/ CallOnly

CpuStep == Execute /\ UNCHANGED vars

SysInCall ==
  \/ LeadInAndRun
  \/ RunWholeAndRun
  \/ RunPartAndRun
  \/ MixOnly
  \/ ReturnOnly
  \/ CpuStep

SysNext == SysCall \/ SysInCall

SysSpec == SysInit /\ [][SysNext]_sysVars

(* A call is sequential code, and the host keeps making calls. *)
SysFairSpec == SysSpec /\ WF_sysVars(SysInCall) /\ WF_sysVars(SysCall)

-----------------------------------------------------------------------------
(* What the song does is independent of how the host runs it.  The order of
   samples and of blocks of instructions is that of a machine without calls:
   a block is executed only while its CPU is behind the next sample, and the
   sample is made only when it is not, whether the calls are limited by
   cycles or by buffers, and wherever they stop the CPU. *)
Machine == INSTANCE Interleaving WITH
             done <- IF block > 0 THEN block - 1 ELSE cycle,
             ahead <- lag + phase - TsCyc
HostIndependent == Machine!Spec

(* Every call returns: the loop over samples ends, and so does the CPU's loop
   in each of its steps. *)
CallsReturn ==
  (mode # "idle" \/ state = "exec") ~> (mode = "idle" /\ state = "idle")

(* While the host keeps calling for cycles, however few at a time, the song
   goes on: instructions are executed and samples are made. *)
SongGoesOn ==
  []<>(mode = "idle" /\ granted > 0) =>
    []<>(step = "run") /\ []<>(state = "exec" /\ block > 0)
=============================================================================
