----------------------------- MODULE MC_DspEcho -----------------------------
(* DspEcho for TLC: six cells of RAM, three pages, and an EDL of which the
   value 4 stands for one with bits beyond the mask (4 % 3 = 1). *)
EXTENDS DspEcho

TwoImages == {[c \in Cell |-> s] : s \in Sample}
=============================================================================
