------------------------------- MODULE SpcBits ------------------------------
(***************************************************************************)
(* Bits of a byte, for the arithmetic (SpcAlu) and for the instructions     *)
(* that test and change bits of memory (SpcInstr).                          *)
(***************************************************************************)
EXTENDS Integers

Bit(cond, value) == IF cond THEN value ELSE 0
One(cond) == Bit(cond, 1)
HasBit(byte, value) == (byte \div value) % 2 = 1

(* C's |, & and ^ on bytes: the byte of the bits that Has tells of. *)
ByteOf(Has(_)) ==
  Bit(Has(128), 128) + Bit(Has(64), 64) + Bit(Has(32), 32) + Bit(Has(16), 16)
    + Bit(Has(8), 8) + Bit(Has(4), 4) + Bit(Has(2), 2) + One(Has(1))
BitOr(p, q) == ByteOf(LAMBDA v : HasBit(p, v) \/ HasBit(q, v))
BitAnd(p, q) == ByteOf(LAMBDA v : HasBit(p, v) /\ HasBit(q, v))
BitXor(p, q) == ByteOf(LAMBDA v : HasBit(p, v) # HasBit(q, v))
=============================================================================
