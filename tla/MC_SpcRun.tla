----------------------------- MODULE MC_SpcRun -----------------------------
(* SpcRun for TLC: a sample of 4 cycles (32 in the code), calls that fall
   within a sample, on its end and beyond it, and buffers that do not hold a
   whole number of samples. *)
EXTENDS SpcRun

AnyLimits == {-1, 0, 1, 2, 4, 7, 9}
Buffers == {0, 3, 4, 9}
=============================================================================
