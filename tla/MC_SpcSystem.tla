---------------------------- MODULE MC_SpcSystem ----------------------------
(* SpcSystem for TLC: a sample of 3 cycles (32 in the code), calls that fall
   within a sample, on its end and beyond it, words that wrap at 24, and every
   shape of instruction the stop rule tells apart: short, long, and with a
   last block longer than a sample (nop, a taken branch, div). *)
EXTENDS SpcSystem

AnyLimits == {-1, 0, 2, 3, 7}
Buffers == {3, 4, 9}

SmallOps == {"nop", "bra", "div"}
SmallCost == [o \in SmallOps |->
                CASE o = "nop" -> <<1, 1>>
                  [] o = "bra" -> <<1, 1, 1, 1>>
                  [] o = "div" -> <<1, 7>>]
=============================================================================
