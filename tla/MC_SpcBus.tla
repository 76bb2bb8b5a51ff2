------------------------------ MODULE MC_SpcBus -----------------------------
(* SpcBus for TLC: an address of every kind, a port of each pair, and values
   that tell apart the bits of the control register and the halves of the
   DSP's registers.  The echo goes over the control register's cell, and
   clear_echo over those of the other registers as well. *)
EXTENDS SpcBus

SomeAddresses == {241, 242, 243, 244, 246, 250, 253, 65472}

SomeInputs ==
  [a \in SomeAddresses |->
     CASE a = 241 -> {0, 145, 33}
       [] a = 242 -> {0, 124, 128, 252}
       [] a = 250 -> {0, 2}
       [] a \in {243, 244, 246, 65472} -> {1}
       [] OTHER -> {}]

SomeIndexes == {0, 124, 128, 252}

File(ctrl) == [a \in SomeAddresses |-> IF a = 241 THEN ctrl ELSE 0]
SomeImages == {File(0), File(129)}
SomeErasures == {{}, {241, 242, 243}}
SomeEchoCells == {241}
=============================================================================
