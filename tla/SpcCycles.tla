----------------------------- MODULE SpcCycles -----------------------------
(***************************************************************************)
(* The cycle counters of the SPC700 core (spc700.c): SPC_START grants       *)
(* cycles, Execute_SPC spends them one block of an instruction at a time,   *)
(* stops in the middle of an instruction when they are spent, and goes on   *)
(* there in the next call.  The counters are words that wrap around, and    *)
(* Wrap_SPC_Cyclecounter moves them back together.                          *)
(***************************************************************************)
EXTENDS Integers, Sequences

CONSTANTS
  Word,        \* 2^32, the modulus of _Cycles and _TotalCycles
  Half,        \* 2^31: (int) x < 0 for words from here on
  WrapBy,      \* 0xF0000000
  Tick,        \* cycles of a timer tick; divides Word and WrapBy
  MaxGrant,    \* SPC_START is given at most this (TS_CYC = 32)
  Opcodes,     \* the instructions
  Cost,        \* Cost[op]: the cycles of its blocks, in order
  MaxCost      \* no block takes more (DIV: 11)

ResetCycles == 6      \* _TotalCycles after Reset_SPC

ASSUME CycleAssumption ==
  /\ Half \in Nat /\ Word = 2 * Half
  /\ WrapBy \in 0 .. Word - 1
  /\ Tick \in Nat \ {0} /\ Word % Tick = 0 /\ WrapBy % Tick = 0
  /\ MaxGrant \in Nat /\ MaxGrant < Half
  /\ MaxCost \in Nat /\ MaxCost + MaxGrant < Half /\ ResetCycles < MaxCost
  /\ Cost \in [Opcodes -> Seq(1 .. MaxCost)]
  /\ \A o \in Opcodes : Len(Cost[o]) > 0

VARIABLES
  state,     \* "idle" outside SPC_START, "exec" in the loop of Execute_SPC
  cycles,    \* _Cycles: granted
  total,     \* _TotalCycles: executed, as last saved
  work,      \* _WorkCycles, signed: executed beyond what was granted
  op,        \* _opcode
  cycle,     \* _cycle: blocks of op done when the CPU was last stopped
  block,     \* the block being executed, 0 at the top of the loop
  \* history
  lag,       \* true number of cycles executed beyond those granted
  stamp      \* _TotalCycles modulo Tick as the last bus access saw it

cpuVars == <<state, cycles, total, work, op, cycle, block, lag, stamp>>

(* Word arithmetic.  Sums and differences of two words leave the range by at
   most one modulus. *)
ToWord(x) == IF x < 0 THEN x + Word ELSE IF x >= Word THEN x - Word ELSE x
Negative(w) == w >= Half
ToInt(w) == IF Negative(w) THEN w - Word ELSE w

(* save_cycles_spc, load_cycles_spc *)
Saved == ToWord(work + cycles)
Loaded(t, c) == ToInt(ToWord(t - c))

CpuInit ==
  /\ state = "idle"
  /\ cycles = 0 /\ total = ResetCycles /\ work = 0
  /\ op \in Opcodes /\ cycle = 0 /\ block = 0
  /\ lag = ResetCycles
  /\ stamp = ResetCycles % Tick

-----------------------------------------------------------------------------
\* mutant: a counter that has wrapped looks like cycles still owed
NothingDue_NoWrap(c) == c <= total
(* The early returns of SPC_START: _Cycles is not past _TotalCycles, and not
   because it wrapped around. *)
NothingDue(c) == c <= total /\ (Negative(c) \/ ~Negative(total))

StartNothingDue(n) ==
  /\ state = "idle"
  /\ LET c == ToWord(cycles + n) IN
       /\ NothingDue(c)
       /\ cycles' = c
  /\ lag' = lag - n
  /\ UNCHANGED <<state, total, work, op, cycle, block, stamp>>

WrapCycles(c) == ToWord(c - WrapBy)

(* Wrap_SPC_Cyclecounter, when _Cycles <= _TotalCycles all the same. *)
StartWrapped(n) ==
  /\ state = "idle"
  /\ LET c == ToWord(cycles + n) IN
       /\ c <= total /\ ~NothingDue(c)
       /\ cycles' = WrapCycles(c)
       /\ total' = ToWord(total - WrapBy)
       /\ work' = Loaded(total', cycles')
  /\ state' = "exec"
  /\ lag' = lag - n
  /\ UNCHANGED <<op, cycle, block, stamp>>

StartExecute(n) ==
  /\ state = "idle"
  /\ LET c == ToWord(cycles + n) IN
       /\ c > total
       /\ cycles' = c
       /\ work' = Loaded(total, c)
  /\ state' = "exec"
  /\ lag' = lag - n
  /\ UNCHANGED <<total, op, cycle, block, stamp>>

SpcStart(n) == StartNothingDue(n) \/ StartWrapped(n) \/ StartExecute(n)

Start == \E n \in 0 .. MaxGrant : SpcStart(n)

-----------------------------------------------------------------------------
\* mutant: START_CYCLE(c) runs its block again after the CPU stopped there
ResumeAt_Again == IF cycle = 0 THEN 1 ELSE cycle
(* START_CYCLE(c) skips the blocks already done: _cycle <= c - 1 *)
ResumeAt == cycle + 1

Loop ==
  /\ state = "exec" /\ block = 0 /\ work < 0
  /\ block' = ResumeAt
  /\ UNCHANGED <<state, cycles, total, work, op, cycle, lag, stamp>>

LeaveExecute ==
  /\ state = "exec" /\ block = 0 /\ work >= 0
  /\ total' = Saved
  /\ state' = "idle"
  /\ UNCHANGED <<cycles, work, op, cycle, block, lag, stamp>>

(* get_byte_spc and set_byte_spc save the time for the handlers of the I/O
   registers; an instruction's first block fetches the opcode. *)
BlockBody(o, access) ==
  /\ state = "exec" /\ block > 0
  /\ block > 1 => o = op
  /\ op' = o
  /\ total' = IF access THEN Saved ELSE total
  /\ stamp' = IF access THEN total' % Tick ELSE stamp
  /\ work' = work + Cost[o][block]
  /\ lag' = lag + Cost[o][block]

CycleAtEnd == 0

(* EXIT_OPCODE, END_OPCODE: opcode_done, so _cycle = 0 *)
LastBlock(o, access) ==
  /\ BlockBody(o, access)
  /\ block = Len(Cost[o])
  /\ cycle' = CycleAtEnd
  /\ block' = 0
  /\ UNCHANGED <<state, cycles>>

\* mutant: END_CYCLE stops only once the cycles granted are exceeded
Spent_Late(w) == w > 0
Spent(w) == w >= 0

(* END_FETCH_CYCLE, END_CYCLE: stop here when the cycles are spent. *)
InnerBlock(o, access) ==
  /\ BlockBody(o, access)
  /\ block < Len(Cost[o])
  /\ IF Spent(work') THEN cycle' = block /\ block' = 0
                     ELSE cycle' = cycle /\ block' = block + 1
  /\ UNCHANGED <<state, cycles>>

Execute ==
  \/ Loop
  \/ LeaveExecute
  \/ \E o \in Opcodes, access \in BOOLEAN :
       LastBlock(o, access) \/ InnerBlock(o, access)

CpuNext == Start \/ Execute

CpuSpec == CpuInit /\ [][CpuNext]_cpuVars

-----------------------------------------------------------------------------
(* The counters are words, and the CPU is somewhere within an instruction. *)
CpuTypeOK ==
  /\ state \in {"idle", "exec"}
  /\ cycles \in 0 .. Word - 1 /\ total \in 0 .. Word - 1
  /\ work \in -Half .. Half - 1
  /\ op \in Opcodes
  /\ cycle \in Nat /\ block \in Nat
  /\ lag \in Int
  /\ stamp \in 0 .. Tick - 1

(* When SPC_START returns the CPU has executed all that it was granted, and
   exceeds it by less than one block: what it ran too far is taken off the
   next grants, through every wrap of the counters (spc700.c:3539-3560). *)
NotBehind == state = "idle" => lag \in 0 .. MaxCost - 1

(* Block by block the CPU never begins what it has no cycles for. *)
NeverAhead == (state = "exec" /\ block > 0) => lag < 0

(* The words measure the true lag. *)
LagMeasured ==
  /\ state = "idle" => ToWord(total - cycles) = lag
  /\ state = "exec" => work = lag

(* What the program on the CPU sees does not depend on the grants: every
   block runs once, in order and at its time, also as the timers see it. *)
Now == IF state = "exec" THEN Saved ELSE total
Stream == INSTANCE CpuStream WITH
            done <- IF block > 0 THEN block - 1 ELSE cycle,
            phase <- Now % Tick
SameStream == Stream!Spec
=============================================================================
