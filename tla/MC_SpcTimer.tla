---------------------------- MODULE MC_SpcTimer ----------------------------
(* SpcTimer for TLC: a tick of 4 cycles, targets up to 4, a counter of two
   bits, and a cycle counter of five bits that wraps every 8 ticks. *)
EXTENDS SpcTimer
=============================================================================
