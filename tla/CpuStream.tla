----------------------------- MODULE CpuStream -----------------------------
(***************************************************************************)
(* The instruction stream of the CPU as the program running on it sees it:  *)
(* each instruction is a sequence of blocks (the START_CYCLE ... END_CYCLE  *)
(* blocks of spc700.c), each executed once, in order, each taking its       *)
(* cycles.  Nothing here knows of the calls that grant the cycles.          *)
(***************************************************************************)
EXTENDS Naturals, Sequences

CONSTANTS
  Opcodes,   \* the instructions
  Cost,      \* Cost[op] is the sequence of the cycles of op's blocks
  Tick,      \* time is observed modulo a timer tick
  ResetCycles

VARIABLES
  op,        \* current instruction
  done,      \* blocks of it already executed, 0 between instructions
  phase,     \* cycles executed, modulo Tick
  stamp      \* the phase at which the bus was last accessed

Init ==
  /\ op \in Opcodes /\ done = 0
  /\ phase = ResetCycles % Tick /\ stamp = phase

(* Execute the next block of o, which accesses the bus or not. *)
Block(o, access) ==
  /\ done > 0 => o = op
  /\ op' = o
  /\ phase' = (phase + Cost[o][done + 1]) % Tick
  /\ done' = IF done + 1 = Len(Cost[o]) THEN 0 ELSE done + 1
  /\ stamp' = IF access THEN phase ELSE stamp

Next == \E o \in Opcodes, access \in BOOLEAN : Block(o, access)

Spec == Init /\ [][Next]_<<op, done, phase, stamp>>
=============================================================================
