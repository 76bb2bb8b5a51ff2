---------------------------- MODULE Interleaving ----------------------------
(***************************************************************************)
(* The machine as the song sees it: a CPU that executes the blocks of its   *)
(* instructions in order, and a DSP that makes a sample every TsCyc cycles. *)
(* Which of the two comes next is settled by the time of the CPU alone: it  *)
(* executes as long as it is behind the next sample, and the sample is made *)
(* as soon as it no longer is.  There is no host here and there are no      *)
(* calls.                                                                   *)
(***************************************************************************)
EXTENDS Integers, Sequences

CONSTANTS
  TsCyc,     \* cycles per sample
  Opcodes,   \* the instructions
  Cost,      \* Cost[op] is the sequence of the cycles of op's blocks
  ResetCycles

VARIABLES
  op,        \* current instruction
  done,      \* blocks of it already executed, 0 between instructions
  ahead      \* cycles the CPU is ahead of the time of the next sample

Init == op \in Opcodes /\ done = 0 /\ ahead = ResetCycles

Block(o) ==
  /\ ahead < 0
  /\ done > 0 => o = op
  /\ op' = o
  /\ done' = IF done + 1 = Len(Cost[o]) THEN 0 ELSE done + 1
  /\ ahead' = ahead + Cost[o][done + 1]

Sample ==
  /\ ahead >= 0
  /\ ahead' = ahead - TsCyc
  /\ UNCHANGED <<op, done>>

Next == Sample \/ \E o \in Opcodes : Block(o)

Spec == Init /\ [][Next]_<<op, done, ahead>>
=============================================================================
