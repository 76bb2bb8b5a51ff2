--------------------------- MODULE SpcInstr_steps ---------------------------
(***************************************************************************)
(* What a block of an instruction does, whatever the memory: the steps that *)
(* SpcInstr_proofs puts together.  First numbers, memories and registers;   *)
(* then what each action of SpcInstr makes of them; then, instruction by    *)
(* instruction, a definition of the places it can be at (XAt: the blocks to *)
(* come, and what the machine and tmp are, from the machine c and m that it *)
(* began with), that a block takes it from one of them to another (XGoes),  *)
(* what has been done at the last (XEnds) and where it begins (XBegins).    *)
(***************************************************************************)
EXTENDS SpcInstr, TLAPS

-----------------------------------------------------------------------------
(* Numbers.  Radix is one of six powers of two, so that the provers need no
   induction over the bits. *)

LEMMA PowersOfTwo ==
  /\ OffsetToBit(0) = 1 /\ OffsetToBit(1) = 2 /\ OffsetToBit(2) = 4
  /\ OffsetToBit(3) = 8 /\ OffsetToBit(4) = 16 /\ OffsetToBit(5) = 32
  /\ OffsetToBit(6) = 64 /\ OffsetToBit(7) = 128
BY DEF OffsetToBit

LEMMA RadixIs ==
  /\ Bits \in Nat /\ Bits > 0 /\ Bits <= 8
  /\ \/ Bits = 3 /\ Radix = 8
     \/ Bits = 4 /\ Radix = 16
     \/ Bits = 5 /\ Radix = 32
     \/ Bits = 6 /\ Radix = 64
     \/ Bits = 7 /\ Radix = 128
     \/ Bits = 8 /\ Radix = 256
<1>1. Bits \in 3 .. 8 /\ Radix = 2 * OffsetToBit(Bits - 1)
  BY InstrAssumption
<1>2. Bits \in {3, 4, 5, 6, 7, 8}
  BY <1>1
<1>3. ASSUME Bits = 3 PROVE Radix = 8
  BY <1>1, <1>3, PowersOfTwo
<1>4. ASSUME Bits = 4 PROVE Radix = 16
  BY <1>1, <1>4, PowersOfTwo
<1>5. ASSUME Bits = 5 PROVE Radix = 32
  BY <1>1, <1>5, PowersOfTwo
<1>6. ASSUME Bits = 6 PROVE Radix = 64
  BY <1>1, <1>6, PowersOfTwo
<1>7. ASSUME Bits = 7 PROVE Radix = 128
  BY <1>1, <1>7, PowersOfTwo
<1>8. ASSUME Bits = 8 PROVE Radix = 256
  BY <1>1, <1>8, PowersOfTwo
<1> QED BY <1>2, <1>3, <1>4, <1>5, <1>6, <1>7, <1>8

LEMMA ByteIs == \A b : b \in Byte <=> b \in Int /\ 0 <= b /\ b < Radix
BY RadixIs DEF Byte

LEMMA AddrIs == \A n : n \in Addr <=> n \in Int /\ 0 <= n /\ n < Radix * Radix
<1>1. Radix * Radix \in Int
  BY RadixIs
<1> QED BY <1>1 DEF Addr

LEMMA Numbers ==
  /\ Radix \in Int
  /\ \A n \in Int : Wrap(n) \in Addr /\ Low(n) \in Byte
  /\ \A n \in Addr : n \in Int /\ Wrap(n) = n /\ High(n) \in Byte
  /\ \A b \in Byte : b \in Int /\ b \in Addr /\ Low(b) = b /\ Radix + b \in Addr
                     /\ 0 + b \in Addr /\ Signed(b) \in Int
<1> USE RadixIs
<1>1. Radix \in Int
  OBVIOUS
<1>2. ASSUME NEW n \in Int PROVE Wrap(n) \in Addr /\ Low(n) \in Byte
  BY ByteIs, AddrIs DEF Wrap, Low
<1>3. ASSUME NEW n \in Addr PROVE n \in Int /\ Wrap(n) = n /\ High(n) \in Byte
  BY ByteIs, AddrIs DEF Wrap, High
<1>4. ASSUME NEW b \in Byte
      PROVE  b \in Int /\ b \in Addr /\ Low(b) = b /\ Radix + b \in Addr
             /\ 0 + b \in Addr /\ Signed(b) \in Int
  BY ByteIs, AddrIs DEF Low, Signed
<1> QED BY <1>1, <1>2, <1>3, <1>4

LEMMA WrapTwice ==
  /\ \A n \in Int, k \in Int : Wrap(Wrap(n) + k) = Wrap(n + k)
  /\ \A n \in Int, k \in Int : Low(Low(n) + k) = Low(n + k)
BY RadixIs DEF Wrap, Low

(* Two bytes make an address. *)
LEMMA Words ==
  \A l \in Byte, h \in Byte :
    /\ l + Radix * h \in Addr /\ Radix * h + l = l + Radix * h
    /\ Wrap(l + Radix * h) = l + Radix * h
    /\ Low(l + Radix * h) = l /\ High(l + Radix * h) = h
<1> SUFFICES ASSUME NEW l \in Byte, NEW h \in Byte
             PROVE  /\ l + Radix * h \in Addr /\ Radix * h + l = l + Radix * h
                    /\ Wrap(l + Radix * h) = l + Radix * h
                    /\ Low(l + Radix * h) = l /\ High(l + Radix * h) = h
  OBVIOUS
<1>1. l \in Int /\ 0 <= l /\ l < Radix /\ h \in Int /\ 0 <= h /\ h < Radix
  BY ByteIs
<1>2. l + Radix * h \in Int /\ 0 <= l + Radix * h /\ l + Radix * h < Radix * Radix
  BY <1>1, RadixIs
<1>3. Low(l + Radix * h) = l /\ High(l + Radix * h) = h
  BY <1>1, RadixIs DEF Low, High
<1> QED BY <1>1, <1>2, <1>3, RadixIs, AddrIs, Numbers

-----------------------------------------------------------------------------
(* Memory and registers. *)

LEMMA Memories ==
  /\ \A m \in Memory, k \in Addr : m[k] \in Byte
  /\ \A m \in Memory, e \in Addr, v \in Byte :
       /\ Set(m, e, v) \in Memory
       /\ \A k \in Addr : Set(m, e, v)[k] = IF k = e THEN v ELSE m[k]
       /\ \A k \in Addr, w \in Byte :
            k # e => Set(Set(m, e, v), k, w) = Set(Set(m, k, w), e, v)
BY DEF Memory, Set

LEMMA CpuIs ==
  ASSUME NEW c \in Cpu
  PROVE  /\ c.pc \in Addr /\ c.sp \in Byte /\ c.a \in Byte /\ c.x \in Byte
         /\ c.y \in Byte /\ c.p \in BOOLEAN /\ c.z \in BOOLEAN /\ c.c \in BOOLEAN
         /\ PageOf(c) \in {0, Radix}
BY DEF Cpu, PageOf

(* With its program counter moved on. *)
LEMMA PastIs ==
  ASSUME NEW c \in Cpu, NEW i \in Nat
  PROVE  /\ Past(c, i) \in Cpu /\ Past(c, i).pc = Wrap(c.pc + i)
         /\ Past(c, i).sp = c.sp /\ Past(c, i).a = c.a /\ Past(c, i).x = c.x
         /\ Past(c, i).y = c.y /\ Past(c, i).p = c.p /\ Past(c, i).z = c.z
         /\ Past(c, i).c = c.c /\ PageOf(Past(c, i)) = PageOf(c)
         /\ \A j \in Nat : Past(Past(c, i), j) = Past(c, i + j)
         /\ Past(c, 0) = c
<1>1. c.pc \in Addr /\ c.pc + i \in Int /\ Wrap(c.pc + i) \in Addr
  BY Numbers DEF Cpu
<1>2. /\ Past(c, i) \in Cpu /\ Past(c, i).pc = Wrap(c.pc + i)
      /\ Past(c, i).sp = c.sp /\ Past(c, i).a = c.a /\ Past(c, i).x = c.x
      /\ Past(c, i).y = c.y /\ Past(c, i).p = c.p /\ Past(c, i).z = c.z
      /\ Past(c, i).c = c.c
  BY <1>1 DEF Past, Cpu
<1>3. PageOf(Past(c, i)) = PageOf(c)
  BY <1>2 DEF PageOf
<1>4. ASSUME NEW j \in Nat PROVE Past(Past(c, i), j) = Past(c, i + j)
  <2>1. c.pc + i \in Int /\ j \in Int /\ c.pc + i + j = c.pc + (i + j)
    BY <1>1, Numbers
  <2>2. Wrap(Wrap(c.pc + i) + j) = Wrap(c.pc + i + j)
    BY <2>1, WrapTwice
  <2> QED BY <1>2, <2>1, <2>2 DEF Past, Cpu
<1>5. Past(c, 0) = c
  <2>1. Wrap(c.pc + 0) = c.pc
    BY <1>1, Numbers
  <2> QED BY <2>1 DEF Past, Cpu
<1> QED BY <1>2, <1>3, <1>4, <1>5

-----------------------------------------------------------------------------
(* The first of the blocks to come says which action may happen; none of them
   touches the rest of the state. *)
Kept == UNCHANGED <<form, prog, start, torn, frames, scribbled>>


AddressingAt(b) ==
  \/ (b = "dp" /\ Dp) \/ (b = "lo" /\ Lo) \/ (b = "hi" /\ Hi)
  \/ (b = "hi_stay" /\ HiStay) \/ (b = "hi_bit" /\ HiBit)
  \/ (b = "at_x" /\ IndirectX) \/ (b = "at_y" /\ IndirectY)
  \/ (b = "dp+x" /\ DpX) \/ (b = "dp+y" /\ DpY) \/ (b = "+x" /\ PlusX)
  \/ (b = "+y" /\ PlusY) \/ (b = "lo2" /\ Lo2) \/ (b = "hi2" /\ Hi2)
  \/ (b = "dp_2" /\ Dp2) \/ (b = "dp+x_2" /\ DpX2) \/ (b = "ptr_lo" /\ PtrLo)
  \/ (b = "ptr_hi" /\ PtrHi)

LEMMA AddressingIs == Addressing => todo # <<>> /\ AddressingAt(Head(todo)) /\ Kept
<1>1. Dp => todo # <<>> /\ AddressingAt(Head(todo)) /\ Kept
  BY Zenon DEF Dp, At, AddressingAt, Kept
<1>2. Lo => todo # <<>> /\ AddressingAt(Head(todo)) /\ Kept
  BY Zenon DEF Lo, At, AddressingAt, Kept
<1>3. Hi => todo # <<>> /\ AddressingAt(Head(todo)) /\ Kept
  BY Zenon DEF Hi, At, AddressingAt, Kept
<1>4. HiStay => todo # <<>> /\ AddressingAt(Head(todo)) /\ Kept
  BY Zenon DEF HiStay, At, AddressingAt, Kept
<1>5. HiBit => todo # <<>> /\ AddressingAt(Head(todo)) /\ Kept
  BY Zenon DEF HiBit, At, AddressingAt, Kept
<1>6. IndirectX => todo # <<>> /\ AddressingAt(Head(todo)) /\ Kept
  BY Zenon DEF IndirectX, At, AddressingAt, Kept
<1>7. IndirectY => todo # <<>> /\ AddressingAt(Head(todo)) /\ Kept
  BY Zenon DEF IndirectY, At, AddressingAt, Kept
<1>8. DpX => todo # <<>> /\ AddressingAt(Head(todo)) /\ Kept
  BY Zenon DEF DpX, At, AddressingAt, Kept
<1>9. DpY => todo # <<>> /\ AddressingAt(Head(todo)) /\ Kept
  BY Zenon DEF DpY, At, AddressingAt, Kept
<1>10. PlusX => todo # <<>> /\ AddressingAt(Head(todo)) /\ Kept
  BY Zenon DEF PlusX, At, AddressingAt, Kept
<1>11. PlusY => todo # <<>> /\ AddressingAt(Head(todo)) /\ Kept
  BY Zenon DEF PlusY, At, AddressingAt, Kept
<1>12. Lo2 => todo # <<>> /\ AddressingAt(Head(todo)) /\ Kept
  BY Zenon DEF Lo2, At, AddressingAt, Kept
<1>13. Hi2 => todo # <<>> /\ AddressingAt(Head(todo)) /\ Kept
  BY Zenon DEF Hi2, At, AddressingAt, Kept
<1>14. Dp2 => todo # <<>> /\ AddressingAt(Head(todo)) /\ Kept
  BY Zenon DEF Dp2, At, AddressingAt, Kept
<1>15. DpX2 => todo # <<>> /\ AddressingAt(Head(todo)) /\ Kept
  BY Zenon DEF DpX2, At, AddressingAt, Kept
<1>16. PtrLo => todo # <<>> /\ AddressingAt(Head(todo)) /\ Kept
  BY Zenon DEF PtrLo, At, AddressingAt, Kept
<1>17. PtrHi => todo # <<>> /\ AddressingAt(Head(todo)) /\ Kept
  BY Zenon DEF PtrHi, At, AddressingAt, Kept
<1> QED
  BY <1>1, <1>2, <1>3, <1>4, <1>5, <1>6, <1>7, <1>8, <1>9, <1>10, <1>11,
     <1>12, <1>13, <1>14, <1>15, <1>16, <1>17
     DEF Addressing

OperandsAt(b) ==
  \/ (b = "load" /\ Load) \/ (b = "load_r" /\ LoadR)
  \/ (b = "load_psw" /\ LoadPSW) \/ (b = "compare" /\ Compare)
  \/ (b = "imm" /\ Imm) \/ (b = "read" /\ Read) \/ (b = "old" /\ Old)
  \/ (b = "old_2" /\ Old2) \/ (b = "store" /\ Store)
  \/ (b = "store_y" /\ StoreY) \/ (b = "modify" /\ Modify)
  \/ (b = "x++" /\ XPlus) \/ (b = "src_imm" /\ SrcImm)
  \/ (b = "src_2" /\ Src2) \/ (b = "src+at_x" /\ SrcThenX)
  \/ (b = "combine" /\ CombineBlock) \/ (b = "compare_2" /\ Compare2)
  \/ (b = "move" /\ Move) \/ (b = "put" /\ Put) \/ (b = "word_lo" /\ WordLo)
  \/ (b = "word_hi" /\ WordHi) \/ (b = "word_load" /\ WordLoad)
  \/ (b = "word_inc" /\ WordInc) \/ (b = "word_put" /\ WordPut)

LEMMA OperandsIs == Operands => todo # <<>> /\ OperandsAt(Head(todo)) /\ Kept
<1>1. Load => todo # <<>> /\ OperandsAt(Head(todo)) /\ Kept
  BY Zenon DEF Load, At, OperandsAt, Kept
<1>2. LoadR => todo # <<>> /\ OperandsAt(Head(todo)) /\ Kept
  BY Zenon DEF LoadR, At, OperandsAt, Kept
<1>3. LoadPSW => todo # <<>> /\ OperandsAt(Head(todo)) /\ Kept
  BY Zenon DEF LoadPSW, At, OperandsAt, Kept
<1>4. Compare => todo # <<>> /\ OperandsAt(Head(todo)) /\ Kept
  BY Zenon DEF Compare, At, OperandsAt, Kept
<1>5. Imm => todo # <<>> /\ OperandsAt(Head(todo)) /\ Kept
  BY Zenon DEF Imm, At, OperandsAt, Kept
<1>6. Read => todo # <<>> /\ OperandsAt(Head(todo)) /\ Kept
  BY Zenon DEF Read, At, OperandsAt, Kept
<1>7. Old => todo # <<>> /\ OperandsAt(Head(todo)) /\ Kept
  BY Zenon DEF Old, At, OperandsAt, Kept
<1>8. Old2 => todo # <<>> /\ OperandsAt(Head(todo)) /\ Kept
  BY Zenon DEF Old2, At, OperandsAt, Kept
<1>9. Store => todo # <<>> /\ OperandsAt(Head(todo)) /\ Kept
  BY Zenon DEF Store, At, OperandsAt, Kept
<1>10. StoreY => todo # <<>> /\ OperandsAt(Head(todo)) /\ Kept
  BY Zenon DEF StoreY, At, OperandsAt, Kept
<1>11. Modify => todo # <<>> /\ OperandsAt(Head(todo)) /\ Kept
  BY Zenon DEF Modify, At, OperandsAt, Kept
<1>12. XPlus => todo # <<>> /\ OperandsAt(Head(todo)) /\ Kept
  BY Zenon DEF XPlus, At, OperandsAt, Kept
<1>13. SrcImm => todo # <<>> /\ OperandsAt(Head(todo)) /\ Kept
  BY Zenon DEF SrcImm, At, OperandsAt, Kept
<1>14. Src2 => todo # <<>> /\ OperandsAt(Head(todo)) /\ Kept
  BY Zenon DEF Src2, At, OperandsAt, Kept
<1>15. SrcThenX => todo # <<>> /\ OperandsAt(Head(todo)) /\ Kept
  BY Zenon DEF SrcThenX, At, OperandsAt, Kept
<1>16. CombineBlock => todo # <<>> /\ OperandsAt(Head(todo)) /\ Kept
  BY Zenon DEF CombineBlock, At, OperandsAt, Kept
<1>17. Compare2 => todo # <<>> /\ OperandsAt(Head(todo)) /\ Kept
  BY Zenon DEF Compare2, At, OperandsAt, Kept
<1>18. Move => todo # <<>> /\ OperandsAt(Head(todo)) /\ Kept
  BY Zenon DEF Move, At, OperandsAt, Kept
<1>19. Put => todo # <<>> /\ OperandsAt(Head(todo)) /\ Kept
  BY Zenon DEF Put, At, OperandsAt, Kept
<1>20. WordLo => todo # <<>> /\ OperandsAt(Head(todo)) /\ Kept
  BY Zenon DEF WordLo, At, OperandsAt, Kept
<1>21. WordHi => todo # <<>> /\ OperandsAt(Head(todo)) /\ Kept
  BY Zenon DEF WordHi, At, OperandsAt, Kept
<1>22. WordLoad => todo # <<>> /\ OperandsAt(Head(todo)) /\ Kept
  BY Zenon DEF WordLoad, At, OperandsAt, Kept
<1>23. WordInc => todo # <<>> /\ OperandsAt(Head(todo)) /\ Kept
  BY Zenon DEF WordInc, At, OperandsAt, Kept
<1>24. WordPut => todo # <<>> /\ OperandsAt(Head(todo)) /\ Kept
  BY Zenon DEF WordPut, At, OperandsAt, Kept
<1> QED
  BY <1>1, <1>2, <1>3, <1>4, <1>5, <1>6, <1>7, <1>8, <1>9, <1>10, <1>11,
     <1>12, <1>13, <1>14, <1>15, <1>16, <1>17, <1>18, <1>19, <1>20, <1>21,
     <1>22, <1>23, <1>24
     DEF Operands

BitworkAt(b) ==
  \/ (b = "set1" /\ Set1) \/ (b = "clr1" /\ Clr1) \/ (b = "test" /\ Test)
  \/ (b = "tset1" /\ Tset1) \/ (b = "tclr1" /\ Tclr1) \/ (b = "or1" /\ Or1)
  \/ (b = "or1n" /\ Or1Not) \/ (b = "eor1" /\ Eor1) \/ (b = "and1" /\ And1)
  \/ (b = "and1n" /\ And1Not) \/ (b = "mov1c" /\ Mov1C)
  \/ (b = "mov1" /\ Mov1) \/ (b = "not1" /\ Not1)

LEMMA BitworkIs == Bitwork => todo # <<>> /\ BitworkAt(Head(todo)) /\ Kept
<1>1. Set1 => todo # <<>> /\ BitworkAt(Head(todo)) /\ Kept
  BY Zenon DEF Set1, At, BitworkAt, Kept
<1>2. Clr1 => todo # <<>> /\ BitworkAt(Head(todo)) /\ Kept
  BY Zenon DEF Clr1, At, BitworkAt, Kept
<1>3. Test => todo # <<>> /\ BitworkAt(Head(todo)) /\ Kept
  BY Zenon DEF Test, At, BitworkAt, Kept
<1>4. Tset1 => todo # <<>> /\ BitworkAt(Head(todo)) /\ Kept
  BY Zenon DEF Tset1, At, BitworkAt, Kept
<1>5. Tclr1 => todo # <<>> /\ BitworkAt(Head(todo)) /\ Kept
  BY Zenon DEF Tclr1, At, BitworkAt, Kept
<1>6. Or1 => todo # <<>> /\ BitworkAt(Head(todo)) /\ Kept
  BY Zenon DEF Or1, CarryFrom, At, BitworkAt, Kept
<1>7. Or1Not => todo # <<>> /\ BitworkAt(Head(todo)) /\ Kept
  BY Zenon DEF Or1Not, CarryFrom, At, BitworkAt, Kept
<1>8. Eor1 => todo # <<>> /\ BitworkAt(Head(todo)) /\ Kept
  BY Zenon DEF Eor1, CarryFrom, At, BitworkAt, Kept
<1>9. And1 => todo # <<>> /\ BitworkAt(Head(todo)) /\ Kept
  BY Zenon DEF And1, CarryRead, At, BitworkAt, Kept
<1>10. And1Not => todo # <<>> /\ BitworkAt(Head(todo)) /\ Kept
  BY Zenon DEF And1Not, CarryRead, At, BitworkAt, Kept
<1>11. Mov1C => todo # <<>> /\ BitworkAt(Head(todo)) /\ Kept
  BY Zenon DEF Mov1C, CarryRead, At, BitworkAt, Kept
<1>12. Mov1 => todo # <<>> /\ BitworkAt(Head(todo)) /\ Kept
  BY Zenon DEF Mov1, At, BitworkAt, Kept
<1>13. Not1 => todo # <<>> /\ BitworkAt(Head(todo)) /\ Kept
  BY Zenon DEF Not1, At, BitworkAt, Kept
<1> QED
  BY <1>1, <1>2, <1>3, <1>4, <1>5, <1>6, <1>7, <1>8, <1>9, <1>10, <1>11,
     <1>12, <1>13
     DEF Bitwork

JumpsAt(b) ==
  \/ (b = "offset+test" /\ OffsetTest) \/ (b = "offset" /\ Offset)
  \/ (b = "bbs" /\ Bbs) \/ (b = "bbc" /\ Bbc) \/ (b = "cbne" /\ Cbne)
  \/ (b = "y--" /\ YMinus) \/ (b = "dbnz_y" /\ DbnzY) \/ (b = "dbnz" /\ Dbnz)
  \/ (b = "target" /\ Target) \/ (b = "jump" /\ Jump)
  \/ (b = "jump_hi" /\ JumpHi) \/ (b = "pcl" /\ Pcl) \/ (b = "pch" /\ Pch)

LEMMA JumpsIs == Jumps => todo # <<>> /\ JumpsAt(Head(todo)) /\ Kept
<1>1. OffsetTest => todo # <<>> /\ JumpsAt(Head(todo)) /\ Kept
  BY Zenon DEF OffsetTest, TakenOr, JumpsAt, Kept
<1>2. Offset => todo # <<>> /\ JumpsAt(Head(todo)) /\ Kept
  BY Zenon DEF Offset, At, JumpsAt, Kept
<1>3. Bbs => todo # <<>> /\ JumpsAt(Head(todo)) /\ Kept
  BY Zenon DEF Bbs, BitTest, TakenOr, JumpsAt, Kept
<1>4. Bbc => todo # <<>> /\ JumpsAt(Head(todo)) /\ Kept
  BY Zenon DEF Bbc, BitTest, TakenOr, JumpsAt, Kept
<1>5. Cbne => todo # <<>> /\ JumpsAt(Head(todo)) /\ Kept
  BY Zenon DEF Cbne, BitTest, TakenOr, JumpsAt, Kept
<1>6. YMinus => todo # <<>> /\ JumpsAt(Head(todo)) /\ Kept
  BY Zenon DEF YMinus, At, JumpsAt, Kept
<1>7. DbnzY => todo # <<>> /\ JumpsAt(Head(todo)) /\ Kept
  BY Zenon DEF DbnzY, BitTest, TakenOr, JumpsAt, Kept
<1>8. Dbnz => todo # <<>> /\ JumpsAt(Head(todo)) /\ Kept
  BY Zenon DEF Dbnz, TakenOr, JumpsAt, Kept
<1>9. Target => todo # <<>> /\ JumpsAt(Head(todo)) /\ Kept
  BY Zenon DEF Target, At, JumpsAt, Kept
<1>10. Jump => todo # <<>> /\ JumpsAt(Head(todo)) /\ Kept
  BY Zenon DEF Jump, At, JumpsAt, Kept
<1>11. JumpHi => todo # <<>> /\ JumpsAt(Head(todo)) /\ Kept
  BY Zenon DEF JumpHi, At, JumpsAt, Kept
<1>12. Pcl => todo # <<>> /\ JumpsAt(Head(todo)) /\ Kept
  BY Zenon DEF Pcl, At, JumpsAt, Kept
<1>13. Pch => todo # <<>> /\ JumpsAt(Head(todo)) /\ Kept
  BY Zenon DEF Pch, At, JumpsAt, Kept
<1> QED
  BY <1>1, <1>2, <1>3, <1>4, <1>5, <1>6, <1>7, <1>8, <1>9, <1>10, <1>11,
     <1>12, <1>13
     DEF Jumps

StackingAt(b) ==
  \/ (b = "vec_lo" /\ VecLo) \/ (b = "vec_hi" /\ VecHi)
  \/ (b = "upage" /\ Upage) \/ (b = "stack" /\ Stack) \/ (b = "sp--" /\ DecSP)
  \/ (b = "sp++" /\ IncSP) \/ (b = "idle" /\ Idle)
  \/ (b = "push_pch" /\ PushPch) \/ (b = "push_pcl" /\ PushPcl)
  \/ (b = "push_pcl_stay" /\ PushPclStay) \/ (b = "push_psw" /\ PushPSW)
  \/ (b = "jump_2" /\ Jump2) \/ (b = "jump_2_sp--" /\ Jump2Dec)
  \/ (b = "pop_pcl" /\ PopPcl) \/ (b = "pop_pch" /\ PopPch)
  \/ (b = "pop_psw" /\ PopPSW)

LEMMA StackingIs == Stacking => todo # <<>> /\ StackingAt(Head(todo)) /\ Kept
<1>1. VecLo => todo # <<>> /\ StackingAt(Head(todo)) /\ Kept
  BY Zenon DEF VecLo, At, StackingAt, Kept
<1>2. VecHi => todo # <<>> /\ StackingAt(Head(todo)) /\ Kept
  BY Zenon DEF VecHi, At, StackingAt, Kept
<1>3. Upage => todo # <<>> /\ StackingAt(Head(todo)) /\ Kept
  BY Zenon DEF Upage, At, StackingAt, Kept
<1>4. Stack => todo # <<>> /\ StackingAt(Head(todo)) /\ Kept
  BY Zenon DEF Stack, At, StackingAt, Kept
<1>5. DecSP => todo # <<>> /\ StackingAt(Head(todo)) /\ Kept
  BY Zenon DEF DecSP, At, StackingAt, Kept
<1>6. IncSP => todo # <<>> /\ StackingAt(Head(todo)) /\ Kept
  BY Zenon DEF IncSP, At, StackingAt, Kept
<1>7. Idle => todo # <<>> /\ StackingAt(Head(todo)) /\ Kept
  BY Zenon DEF Idle, At, StackingAt, Kept
<1>8. PushPch => todo # <<>> /\ StackingAt(Head(todo)) /\ Kept
  BY Zenon DEF PushPch, At, StackingAt, Kept
<1>9. PushPcl => todo # <<>> /\ StackingAt(Head(todo)) /\ Kept
  BY Zenon DEF PushPcl, At, StackingAt, Kept
<1>10. PushPclStay => todo # <<>> /\ StackingAt(Head(todo)) /\ Kept
  BY Zenon DEF PushPclStay, At, StackingAt, Kept
<1>11. PushPSW => todo # <<>> /\ StackingAt(Head(todo)) /\ Kept
  BY Zenon DEF PushPSW, At, StackingAt, Kept
<1>12. Jump2 => todo # <<>> /\ StackingAt(Head(todo)) /\ Kept
  BY Zenon DEF Jump2, At, StackingAt, Kept
<1>13. Jump2Dec => todo # <<>> /\ StackingAt(Head(todo)) /\ Kept
  BY Zenon DEF Jump2Dec, At, StackingAt, Kept
<1>14. PopPcl => todo # <<>> /\ StackingAt(Head(todo)) /\ Kept
  BY Zenon DEF PopPcl, At, StackingAt, Kept
<1>15. PopPch => todo # <<>> /\ StackingAt(Head(todo)) /\ Kept
  BY Zenon DEF PopPch, At, StackingAt, Kept
<1>16. PopPSW => todo # <<>> /\ StackingAt(Head(todo)) /\ Kept
  BY Zenon DEF PopPSW, At, StackingAt, Kept
<1> QED
  BY <1>1, <1>2, <1>3, <1>4, <1>5, <1>6, <1>7, <1>8, <1>9, <1>10, <1>11,
     <1>12, <1>13, <1>14, <1>15, <1>16
     DEF Stacking

LEMMA BlockIs ==
  ASSUME Block
  PROVE  /\ todo # <<>> /\ (Head(todo) = "dp" => Dp)
         /\ (Head(todo) = "lo" => Lo) /\ (Head(todo) = "hi" => Hi)
         /\ (Head(todo) = "hi_stay" => HiStay)
         /\ (Head(todo) = "hi_bit" => HiBit)
         /\ (Head(todo) = "at_x" => IndirectX)
         /\ (Head(todo) = "at_y" => IndirectY) /\ (Head(todo) = "dp+x" => DpX)
         /\ (Head(todo) = "dp+y" => DpY) /\ (Head(todo) = "+x" => PlusX)
         /\ (Head(todo) = "+y" => PlusY) /\ (Head(todo) = "lo2" => Lo2)
         /\ (Head(todo) = "hi2" => Hi2) /\ (Head(todo) = "dp_2" => Dp2)
         /\ (Head(todo) = "dp+x_2" => DpX2)
         /\ (Head(todo) = "ptr_lo" => PtrLo)
         /\ (Head(todo) = "ptr_hi" => PtrHi) /\ (Head(todo) = "load" => Load)
         /\ (Head(todo) = "load_r" => LoadR)
         /\ (Head(todo) = "load_psw" => LoadPSW)
         /\ (Head(todo) = "compare" => Compare) /\ (Head(todo) = "imm" => Imm)
         /\ (Head(todo) = "read" => Read) /\ (Head(todo) = "old" => Old)
         /\ (Head(todo) = "old_2" => Old2) /\ (Head(todo) = "store" => Store)
         /\ (Head(todo) = "store_y" => StoreY)
         /\ (Head(todo) = "modify" => Modify) /\ (Head(todo) = "x++" => XPlus)
         /\ (Head(todo) = "src_imm" => SrcImm)
         /\ (Head(todo) = "src_2" => Src2)
         /\ (Head(todo) = "src+at_x" => SrcThenX)
         /\ (Head(todo) = "combine" => CombineBlock)
         /\ (Head(todo) = "compare_2" => Compare2)
         /\ (Head(todo) = "move" => Move) /\ (Head(todo) = "put" => Put)
         /\ (Head(todo) = "word_lo" => WordLo)
         /\ (Head(todo) = "word_hi" => WordHi)
         /\ (Head(todo) = "word_load" => WordLoad)
         /\ (Head(todo) = "word_inc" => WordInc)
         /\ (Head(todo) = "word_put" => WordPut)
         /\ (Head(todo) = "set1" => Set1) /\ (Head(todo) = "clr1" => Clr1)
         /\ (Head(todo) = "test" => Test) /\ (Head(todo) = "tset1" => Tset1)
         /\ (Head(todo) = "tclr1" => Tclr1) /\ (Head(todo) = "or1" => Or1)
         /\ (Head(todo) = "or1n" => Or1Not) /\ (Head(todo) = "eor1" => Eor1)
         /\ (Head(todo) = "and1" => And1) /\ (Head(todo) = "and1n" => And1Not)
         /\ (Head(todo) = "mov1c" => Mov1C) /\ (Head(todo) = "mov1" => Mov1)
         /\ (Head(todo) = "not1" => Not1)
         /\ (Head(todo) = "offset+test" => OffsetTest)
         /\ (Head(todo) = "offset" => Offset) /\ (Head(todo) = "bbs" => Bbs)
         /\ (Head(todo) = "bbc" => Bbc) /\ (Head(todo) = "cbne" => Cbne)
         /\ (Head(todo) = "y--" => YMinus) /\ (Head(todo) = "dbnz_y" => DbnzY)
         /\ (Head(todo) = "dbnz" => Dbnz) /\ (Head(todo) = "target" => Target)
         /\ (Head(todo) = "jump" => Jump)
         /\ (Head(todo) = "jump_hi" => JumpHi) /\ (Head(todo) = "pcl" => Pcl)
         /\ (Head(todo) = "pch" => Pch) /\ (Head(todo) = "vec_lo" => VecLo)
         /\ (Head(todo) = "vec_hi" => VecHi)
         /\ (Head(todo) = "upage" => Upage) /\ (Head(todo) = "stack" => Stack)
         /\ (Head(todo) = "sp--" => DecSP) /\ (Head(todo) = "sp++" => IncSP)
         /\ (Head(todo) = "idle" => Idle)
         /\ (Head(todo) = "push_pch" => PushPch)
         /\ (Head(todo) = "push_pcl" => PushPcl)
         /\ (Head(todo) = "push_pcl_stay" => PushPclStay)
         /\ (Head(todo) = "push_psw" => PushPSW)
         /\ (Head(todo) = "jump_2" => Jump2)
         /\ (Head(todo) = "jump_2_sp--" => Jump2Dec)
         /\ (Head(todo) = "pop_pcl" => PopPcl)
         /\ (Head(todo) = "pop_pch" => PopPch)
         /\ (Head(todo) = "pop_psw" => PopPSW)
         /\ (Head(todo) = "implied" => Implied)
<1>1. CASE Addressing
  BY Zenon, <1>1, AddressingIs DEF AddressingAt
<1>2. CASE Operands
  BY Zenon, <1>2, OperandsIs DEF OperandsAt
<1>3. CASE Bitwork
  BY Zenon, <1>3, BitworkIs DEF BitworkAt
<1>4. CASE Jumps
  BY Zenon, <1>4, JumpsIs DEF JumpsAt
<1>5. CASE Stacking
  BY Zenon, <1>5, StackingIs DEF StackingAt
<1>6. CASE Implied
  BY Zenon, <1>6 DEF Implied, At
<1> QED BY Zenon, <1>1, <1>2, <1>3, <1>4, <1>5, <1>6 DEF Block

LEMMA BlockKeeps == Block => Kept
<1>1. Implied => Kept
  BY DEF Implied, At, Kept
<1> QED BY <1>1, AddressingIs, OperandsIs, BitworkIs, JumpsIs, StackingIs DEF Block
-----------------------------------------------------------------------------
(* What each block does to the registers, the memory, the cells accessed and
   the context, as one equation for each of them. *)
TmpFields == {"address", "address2", "data", "data2", "data16", "offset"}
IsTmp(t) == t = [k \in TmpFields |-> t[k]]

WithPC(k, v) == [k EXCEPT !.pc = v]
WithSP(k, v) == [k EXCEPT !.sp = v]
WithX(k, v) == [k EXCEPT !.x = v]
WithY(k, v) == [k EXCEPT !.y = v]
Pulled(k, r, v) == [k EXCEPT ![r] = v]
WithZ(k, v) == [k EXCEPT !.z = v]
WordIn(k, w) == [k EXCEPT !.a = Low(w), !.y = High(w), !.z = (w = 0)]
Written(v, bit, set) == IF set THEN WithBit(v, bit) ELSE WithoutBit(v, bit)
Turned(v, bit) == IF IsSet(v, bit) THEN WithoutBit(v, bit) ELSE WithBit(v, bit)

Ready == Block /\ cpu \in Cpu /\ IsTmp(tmp) /\ form.reg \in Registers
After(k, r, cells) ==
  /\ cpu' = k /\ ram' = r /\ seen' = seen \cup cells /\ IsTmp(tmp')
  /\ todo' = Tail(todo) /\ form' = form
AfterIf(taken, k, r, cells) ==
  /\ cpu' = k /\ ram' = r /\ seen' = seen \cup cells /\ IsTmp(tmp')
  /\ todo' = (IF taken THEN Tail(todo) ELSE <<>>) /\ form' = form
TmpIs(address, address2, data, data2, data16, offset) ==
  /\ tmp'.address = address /\ tmp'.address2 = address2
  /\ tmp'.data = data /\ tmp'.data2 = data2
  /\ tmp'.data16 = data16 /\ tmp'.offset = offset

LEMMA RegisterNames ==
  \A r \in Registers : r \in {"a", "x", "y"} /\ r # "pc" /\ r # "sp" /\ r # "z"
BY DEF Registers

LEMMA DpDoes ==
  ASSUME Ready, Head(todo) = "dp"
  PROVE  /\ After(Past(cpu, 1), ram, {cpu.pc})
         /\ TmpIs(PageOf(cpu) + ram[cpu.pc], tmp.address2, tmp.data,
               tmp.data2, tmp.data16, tmp.offset)
<1>1. Dp
  BY BlockIs DEF Ready
<1> QED
  BY <1>1, RegisterNames DEF Dp, At, Fetch, Address, DirectPage, Operand, NextPC, Touch,
     Past, PageOf,
     Ready, After, TmpIs, IsTmp, TmpFields

LEMMA LoDoes ==
  ASSUME Ready, Head(todo) = "lo"
  PROVE  /\ After(Past(cpu, 1), ram, {cpu.pc})
         /\ TmpIs(ram[cpu.pc], tmp.address2, tmp.data, tmp.data2, tmp.data16,
               tmp.offset)
<1>1. Lo
  BY BlockIs DEF Ready
<1> QED
  BY <1>1, RegisterNames DEF Lo, At, Fetch, Address, Operand, NextPC, Touch, Past, Ready,
     After,
     TmpIs, IsTmp, TmpFields

LEMMA HiDoes ==
  ASSUME Ready, Head(todo) = "hi"
  PROVE  /\ After(Past(cpu, 1), ram, {cpu.pc})
         /\ TmpIs(Wrap(tmp.address + Radix * ram[cpu.pc]), tmp.address2,
               tmp.data, tmp.data2, tmp.data16, tmp.offset)
<1>1. Hi
  BY BlockIs DEF Ready
<1> QED
  BY <1>1, RegisterNames DEF Hi, At, Fetch, Address, Operand, NextPC, Touch, Past, Ready,
     After,
     TmpIs, IsTmp, TmpFields

LEMMA HiStayDoes ==
  ASSUME Ready, Head(todo) = "hi_stay"
  PROVE  /\ After(cpu, ram, {cpu.pc})
         /\ TmpIs(Wrap(tmp.address + Radix * ram[cpu.pc]), tmp.address2,
               tmp.data, tmp.data2, tmp.data16, tmp.offset)
<1>1. HiStay
  BY BlockIs DEF Ready
<1> QED
  BY <1>1, RegisterNames DEF HiStay, At, Address, Operand, ReadAt, Touch, Ready, After,
     TmpIs, IsTmp,
     TmpFields

LEMMA HiBitDoes ==
  ASSUME Ready, Head(todo) = "hi_bit"
  PROVE  /\ After(Past(cpu, 1), ram, {cpu.pc})
         /\ TmpIs(Wrap(tmp.address + Radix * ram[cpu.pc]) % BitArea,
               tmp.address2, tmp.data, tmp.data2, tmp.data16,
               Wrap(tmp.address + Radix * ram[cpu.pc]) \div BitArea)
<1>1. HiBit
  BY BlockIs DEF Ready
<1> QED
  BY <1>1, RegisterNames DEF HiBit, Operand, At, Fetch, NextPC, Touch, Past, Ready, After,
     TmpIs,
     IsTmp, TmpFields

LEMMA IndirectXDoes ==
  ASSUME Ready, Head(todo) = "at_x"
  PROVE  /\ After(cpu, ram, {})
         /\ TmpIs(PageOf(cpu) + cpu.x, tmp.address2, tmp.data, tmp.data2,
               tmp.data16, tmp.offset)
<1>1. IndirectX
  BY BlockIs DEF Ready
<1> QED
  BY <1>1, RegisterNames DEF IndirectX, At, Address, DirectPage, Calculate, PageOf, Ready,
     After,
     TmpIs, IsTmp, TmpFields

LEMMA IndirectYDoes ==
  ASSUME Ready, Head(todo) = "at_y"
  PROVE  /\ After(cpu, ram, {})
         /\ TmpIs(PageOf(cpu) + cpu.y, tmp.address2, tmp.data, tmp.data2,
               tmp.data16, tmp.offset)
<1>1. IndirectY
  BY BlockIs DEF Ready
<1> QED
  BY <1>1, RegisterNames DEF IndirectY, At, Address, DirectPage, Calculate, PageOf, Ready,
     After,
     TmpIs, IsTmp, TmpFields

LEMMA DpXDoes ==
  ASSUME Ready, Head(todo) = "dp+x"
  PROVE  /\ After(cpu, ram, {})
         /\ TmpIs(PageOf(cpu) + Low(tmp.address + cpu.x), tmp.address2,
               tmp.data, tmp.data2, tmp.data16, tmp.offset)
<1>1. DpX
  BY BlockIs DEF Ready
<1> QED
  BY <1>1, RegisterNames DEF DpX, At, Address, InPage, Calculate, DirectPage, PageOf, Ready,
     After,
     TmpIs, IsTmp, TmpFields

LEMMA DpYDoes ==
  ASSUME Ready, Head(todo) = "dp+y"
  PROVE  /\ After(cpu, ram, {})
         /\ TmpIs(PageOf(cpu) + Low(tmp.address + cpu.y), tmp.address2,
               tmp.data, tmp.data2, tmp.data16, tmp.offset)
<1>1. DpY
  BY BlockIs DEF Ready
<1> QED
  BY <1>1, RegisterNames DEF DpY, At, Address, InPage, Calculate, DirectPage, PageOf, Ready,
     After,
     TmpIs, IsTmp, TmpFields

LEMMA PlusXDoes ==
  ASSUME Ready, Head(todo) = "+x"
  PROVE  /\ After(cpu, ram, {})
         /\ TmpIs(Wrap(tmp.address + cpu.x), tmp.address2, tmp.data,
               tmp.data2, tmp.data16, tmp.offset)
<1>1. PlusX
  BY BlockIs DEF Ready
<1> QED
  BY <1>1, RegisterNames DEF PlusX, At, Address, Calculate, Ready, After, TmpIs, IsTmp,
     TmpFields

LEMMA PlusYDoes ==
  ASSUME Ready, Head(todo) = "+y"
  PROVE  /\ After(cpu, ram, {})
         /\ TmpIs(Wrap(tmp.address + cpu.y), tmp.address2, tmp.data,
               tmp.data2, tmp.data16, tmp.offset)
<1>1. PlusY
  BY BlockIs DEF Ready
<1> QED
  BY <1>1, RegisterNames DEF PlusY, At, Address, Calculate, Ready, After, TmpIs, IsTmp,
     TmpFields

LEMMA Lo2Does ==
  ASSUME Ready, Head(todo) = "lo2"
  PROVE  /\ After(Past(cpu, 1), ram, {cpu.pc})
         /\ TmpIs(tmp.address, ram[cpu.pc], tmp.data, tmp.data2, tmp.data16,
               tmp.offset)
<1>1. Lo2
  BY BlockIs DEF Ready
<1> QED
  BY <1>1, RegisterNames DEF Lo2, At, Fetch, Address2, Operand, NextPC, Touch, Past, Ready,
     After,
     TmpIs, IsTmp, TmpFields

LEMMA Hi2Does ==
  ASSUME Ready, Head(todo) = "hi2"
  PROVE  /\ After(Past(cpu, 1), ram, {cpu.pc})
         /\ TmpIs(tmp.address, Wrap(tmp.address2 + Radix * ram[cpu.pc]),
               tmp.data, tmp.data2, tmp.data16, tmp.offset)
<1>1. Hi2
  BY BlockIs DEF Ready
<1> QED
  BY <1>1, RegisterNames DEF Hi2, At, Fetch, Address2, Operand, NextPC, Touch, Past, Ready,
     After,
     TmpIs, IsTmp, TmpFields

LEMMA Dp2Does ==
  ASSUME Ready, Head(todo) = "dp_2"
  PROVE  /\ After(Past(cpu, 1), ram, {cpu.pc})
         /\ TmpIs(tmp.address, PageOf(cpu) + ram[cpu.pc], tmp.data, tmp.data2,
               tmp.data16, tmp.offset)
<1>1. Dp2
  BY BlockIs DEF Ready
<1> QED
  BY <1>1, RegisterNames DEF Dp2, At, Fetch, Address2, DirectPage, Operand, NextPC, Touch,
     Past,
     PageOf, Ready, After, TmpIs, IsTmp, TmpFields

LEMMA DpX2Does ==
  ASSUME Ready, Head(todo) = "dp+x_2"
  PROVE  /\ After(cpu, ram, {})
         /\ TmpIs(tmp.address, PageOf(cpu) + Low(tmp.address2 + cpu.x),
               tmp.data, tmp.data2, tmp.data16, tmp.offset)
<1>1. DpX2
  BY BlockIs DEF Ready
<1> QED
  BY <1>1, RegisterNames DEF DpX2, At, Address2, InPage, Calculate, DirectPage, PageOf,
     Ready, After,
     TmpIs, IsTmp, TmpFields

LEMMA PtrLoDoes ==
  ASSUME Ready, Head(todo) = "ptr_lo"
  PROVE  /\ After(cpu, ram, {tmp.address2})
         /\ TmpIs(ram[tmp.address2], tmp.address2, tmp.data, tmp.data2,
               tmp.data16, tmp.offset)
<1>1. PtrLo
  BY BlockIs DEF Ready
<1> QED
  BY <1>1, RegisterNames DEF PtrLo, At, Address, ReadAt, Touch, Ready, After, TmpIs, IsTmp,
     TmpFields

LEMMA PtrHiDoes ==
  ASSUME Ready, Head(todo) = "ptr_hi"
  PROVE  /\ After(cpu, ram, {Wrap(tmp.address2 + 1)})
         /\ TmpIs(Wrap(tmp.address + Radix * ram[Wrap(tmp.address2 + 1)]),
               tmp.address2, tmp.data, tmp.data2, tmp.data16, tmp.offset)
<1>1. PtrHi
  BY BlockIs DEF Ready
<1> QED
  BY <1>1, RegisterNames DEF PtrHi, At, Address, ReadAt, Touch, Ready, After, TmpIs, IsTmp,
     TmpFields

LEMMA LoadDoes ==
  ASSUME Ready, Head(todo) = "load"
  PROVE  /\ After(GetR(cpu, form.reg, ram[tmp.address]), ram, {tmp.address})
         /\ TmpIs(tmp.address, tmp.address2, ram[tmp.address], tmp.data2,
               tmp.data16, tmp.offset)
<1>1. Load
  BY BlockIs DEF Ready
<1> QED
  BY <1>1, RegisterNames, ZenonT(20) DEF Load, At, Data, Top, Loaded, ReadAt, Touch, GetR,
     Ready, After, TmpIs,
     IsTmp, TmpFields

LEMMA LoadRDoes ==
  ASSUME Ready, Head(todo) = "load_r"
  PROVE  /\ After(Pulled(cpu, form.reg, ram[tmp.address]), ram,
               {tmp.address})
         /\ TmpIs(tmp.address, tmp.address2, tmp.data, tmp.data2, tmp.data16,
               tmp.offset)
<1>1. LoadR
  BY BlockIs DEF Ready
<1> QED
  BY <1>1, RegisterNames DEF LoadR, At, Top, ReadAt, Touch, Pulled, Ready, After, TmpIs,
     IsTmp,
     TmpFields

LEMMA LoadPSWDoes ==
  ASSUME Ready, Head(todo) = "load_psw"
  PROVE  /\ After(Restored(cpu, ram[tmp.address]), ram, {tmp.address})
         /\ TmpIs(tmp.address, tmp.address2, tmp.data, tmp.data2, tmp.data16,
               tmp.offset)
<1>1. LoadPSW
  BY BlockIs DEF Ready
<1> QED
  BY <1>1, RegisterNames DEF LoadPSW, At, Top, ReadAt, Touch, Ready, After, TmpIs, IsTmp,
     TmpFields

LEMMA CompareDoes ==
  ASSUME Ready, Head(todo) = "compare"
  PROVE  /\ After(Compared(cpu, cpu[form.reg], ram[tmp.address]), ram,
               {tmp.address})
         /\ TmpIs(tmp.address, tmp.address2, ram[tmp.address], tmp.data2,
               tmp.data16, tmp.offset)
<1>1. Compare
  BY BlockIs DEF Ready
<1> QED
  BY <1>1, RegisterNames DEF Compare, At, Data, Top, ReadAt, Touch, Ready, After, TmpIs,
     IsTmp,
     TmpFields

LEMMA ImmDoes ==
  ASSUME Ready, Head(todo) = "imm"
  PROVE  /\ After(GetR(Past(cpu, 1), form.reg, ram[cpu.pc]), ram, {cpu.pc})
         /\ TmpIs(tmp.address, tmp.address2, ram[cpu.pc], tmp.data2,
               tmp.data16, tmp.offset)
<1>1. Imm
  BY BlockIs DEF Ready
<1> QED
  BY <1>1, RegisterNames DEF Imm, At, Data, Operand, ReadAt, NextPC, Touch, Past, GetR,
     Ready, After,
     TmpIs, IsTmp, TmpFields

LEMMA ReadDoes ==
  ASSUME Ready, Head(todo) = "read"
  PROVE  /\ After(cpu, ram, {tmp.address})
         /\ TmpIs(tmp.address, tmp.address2, tmp.data, tmp.data2, tmp.data16,
               tmp.offset)
<1>1. Read
  BY BlockIs DEF Ready
<1> QED
  BY <1>1, RegisterNames DEF Read, At, ReadAt, Touch, Ready, After, TmpIs, IsTmp, TmpFields

LEMMA OldDoes ==
  ASSUME Ready, Head(todo) = "old"
  PROVE  /\ After(cpu, ram, {tmp.address})
         /\ TmpIs(tmp.address, tmp.address2, ram[tmp.address], tmp.data2,
               tmp.data16, tmp.offset)
<1>1. Old
  BY BlockIs DEF Ready
<1> QED
  BY <1>1, RegisterNames DEF Old, At, Data, Top, ReadAt, Touch, Ready, After, TmpIs, IsTmp,
     TmpFields

LEMMA Old2Does ==
  ASSUME Ready, Head(todo) = "old_2"
  PROVE  /\ After(cpu, ram, {tmp.address2})
         /\ TmpIs(tmp.address, tmp.address2, ram[tmp.address2], tmp.data2,
               tmp.data16, tmp.offset)
<1>1. Old2
  BY BlockIs DEF Ready
<1> QED
  BY <1>1, RegisterNames DEF Old2, At, Data, ReadAt, Touch, Ready, After, TmpIs, IsTmp,
     TmpFields

LEMMA StoreDoes ==
  ASSUME Ready, Head(todo) = "store"
  PROVE  /\ After(cpu, Set(ram, tmp.address, cpu[form.reg]), {tmp.address})
         /\ TmpIs(tmp.address, tmp.address2, tmp.data, tmp.data2, tmp.data16,
               tmp.offset)
<1>1. Store
  BY BlockIs DEF Ready
<1> QED
  BY <1>1, RegisterNames DEF Store, At, WriteAt, Touch, Set, Ready, After, TmpIs, IsTmp,
     TmpFields

LEMMA StoreYDoes ==
  ASSUME Ready, Head(todo) = "store_y"
  PROVE  /\ After(cpu,
               Set(ram, Wrap(tmp.address + 1), cpu.y), {Wrap(tmp.address + 1)})
         /\ TmpIs(tmp.address, tmp.address2, tmp.data, tmp.data2, tmp.data16,
               tmp.offset)
<1>1. StoreY
  BY BlockIs DEF Ready
<1> QED
  BY <1>1, RegisterNames DEF StoreY, At, WriteAt, AfterAddress, Touch, Set, Ready, After,
     TmpIs,
     IsTmp, TmpFields

LEMMA ModifyDoes ==
  ASSUME Ready, Head(todo) = "modify"
  PROVE  /\ After(GetZ(cpu, Low(tmp.data + 1)),
               Set(ram, tmp.address, Low(tmp.data + 1)), {tmp.address})
         /\ TmpIs(tmp.address, tmp.address2, Low(tmp.data + 1), tmp.data2,
               tmp.data16, tmp.offset)
<1>1. Modify
  BY BlockIs DEF Ready
<1> QED
  BY <1>1, RegisterNames DEF Modify, At, Data, WriteAt, Touch, GetZ, Set, Ready, After,
     TmpIs, IsTmp,
     TmpFields

LEMMA XPlusDoes ==
  ASSUME Ready, Head(todo) = "x++"
  PROVE  /\ After(WithX(cpu, Low(cpu.x + 1)), ram, {})
         /\ TmpIs(tmp.address, tmp.address2, tmp.data, tmp.data2, tmp.data16,
               tmp.offset)
<1>1. XPlus
  BY BlockIs DEF Ready
<1> QED
  BY <1>1, RegisterNames DEF XPlus, At, WithX, Ready, After, TmpIs, IsTmp, TmpFields

LEMMA SrcImmDoes ==
  ASSUME Ready, Head(todo) = "src_imm"
  PROVE  /\ After(Past(cpu, 1), ram, {cpu.pc})
         /\ TmpIs(tmp.address, tmp.address2, tmp.data, ram[cpu.pc],
               tmp.data16, tmp.offset)
<1>1. SrcImm
  BY BlockIs DEF Ready
<1> QED
  BY <1>1, RegisterNames DEF SrcImm, At, Fetch, Data2, Operand, NextPC, Touch, Past, Ready,
     After,
     TmpIs, IsTmp, TmpFields

LEMMA Src2Does ==
  ASSUME Ready, Head(todo) = "src_2"
  PROVE  /\ After(cpu, ram, {tmp.address2})
         /\ TmpIs(tmp.address, tmp.address2, tmp.data, ram[tmp.address2],
               tmp.data16, tmp.offset)
<1>1. Src2
  BY BlockIs DEF Ready
<1> QED
  BY <1>1, RegisterNames DEF Src2, At, Data2, ReadAt, Touch, Ready, After, TmpIs, IsTmp,
     TmpFields

LEMMA SrcThenXDoes ==
  ASSUME Ready, Head(todo) = "src+at_x"
  PROVE  /\ After(cpu, ram, {tmp.address})
         /\ TmpIs(PageOf(cpu) + cpu.x, tmp.address2, tmp.data,
               ram[tmp.address], tmp.data16, tmp.offset)
<1>1. SrcThenX
  BY BlockIs DEF Ready
<1> QED
  BY <1>1, RegisterNames DEF SrcThenX, At, ReadAt, Top, DirectPage, Touch, PageOf, Ready,
     After,
     TmpIs, IsTmp, TmpFields

LEMMA CombineBlockDoes ==
  ASSUME Ready, Head(todo) = "combine"
  PROVE  /\ After(GetZ(cpu, Combine(ram[tmp.address], tmp.data2)), ram,
               {tmp.address})
         /\ TmpIs(tmp.address, tmp.address2,
               Combine(ram[tmp.address], tmp.data2), tmp.data2, tmp.data16,
               tmp.offset)
<1>1. CombineBlock
  BY BlockIs DEF Ready
<1> QED
  BY <1>1, RegisterNames DEF CombineBlock, Top, At, Data, ReadAt, Touch, GetZ, Ready, After,
     TmpIs,
     IsTmp, TmpFields

LEMMA Compare2Does ==
  ASSUME Ready, Head(todo) = "compare_2"
  PROVE  /\ After(Compared(cpu, ram[tmp.address], tmp.data2), ram,
               {tmp.address})
         /\ TmpIs(tmp.address, tmp.address2, ram[tmp.address], tmp.data2,
               tmp.data16, tmp.offset)
<1>1. Compare2
  BY BlockIs DEF Ready
<1> QED
  BY <1>1, RegisterNames DEF Compare2, At, Data, Top, ReadAt, Touch, Ready, After, TmpIs,
     IsTmp,
     TmpFields

LEMMA MoveDoes ==
  ASSUME Ready, Head(todo) = "move"
  PROVE  /\ After(cpu, ram, {tmp.address})
         /\ TmpIs(tmp.address, tmp.address2, tmp.data2, tmp.data2, tmp.data16,
               tmp.offset)
<1>1. Move
  BY BlockIs DEF Ready
<1> QED
  BY <1>1, RegisterNames DEF Move, At, Data, ReadAt, Touch, Ready, After, TmpIs, IsTmp,
     TmpFields

LEMMA PutDoes ==
  ASSUME Ready, Head(todo) = "put"
  PROVE  /\ After(cpu, Set(ram, tmp.address, tmp.data), {tmp.address})
         /\ TmpIs(tmp.address, tmp.address2, tmp.data, tmp.data2, tmp.data16,
               tmp.offset)
<1>1. Put
  BY BlockIs DEF Ready
<1> QED
  BY <1>1, RegisterNames DEF Put, At, WriteAt, Touch, Set, Ready, After, TmpIs, IsTmp,
     TmpFields

LEMMA WordLoDoes ==
  ASSUME Ready, Head(todo) = "word_lo"
  PROVE  /\ After(cpu, ram, {tmp.address})
         /\ TmpIs(tmp.address, tmp.address2, tmp.data, tmp.data2,
               ram[tmp.address], tmp.offset)
<1>1. WordLo
  BY BlockIs DEF Ready
<1> QED
  BY <1>1, RegisterNames DEF WordLo, At, Word, Top, ReadAt, Touch, Ready, After, TmpIs, IsTmp,
     TmpFields

LEMMA WordHiDoes ==
  ASSUME Ready, Head(todo) = "word_hi"
  PROVE  /\ After(cpu, ram, {Wrap(tmp.address + 1)})
         /\ TmpIs(tmp.address, tmp.address2, tmp.data, tmp.data2,
               Wrap(tmp.data16 + Radix * ram[Wrap(tmp.address + 1)]),
               tmp.offset)
<1>1. WordHi
  BY BlockIs DEF Ready
<1> QED
  BY <1>1, RegisterNames DEF WordHi, At, ReadAt, AfterAddress, Word, Touch, Ready, After,
     TmpIs,
     IsTmp, TmpFields

LEMMA WordLoadDoes ==
  ASSUME Ready, Head(todo) = "word_load"
  PROVE  /\ After(WordIn(cpu, tmp.data16), ram, {})
         /\ TmpIs(tmp.address, tmp.address2, tmp.data, tmp.data2, tmp.data16,
               tmp.offset)
<1>1. WordLoad
  BY BlockIs DEF Ready
<1> QED
  BY <1>1, RegisterNames DEF WordLoad, At, WordIn, Ready, After, TmpIs, IsTmp, TmpFields

LEMMA WordIncDoes ==
  ASSUME Ready, Head(todo) = "word_inc"
  PROVE  /\ After(GetZ(cpu, Wrap(tmp.data16 + 1)),
               Set(ram, tmp.address, Low(Wrap(tmp.data16 + 1))), {tmp.address})
         /\ TmpIs(tmp.address, tmp.address2, tmp.data, tmp.data2,
               Wrap(tmp.data16 + 1), tmp.offset)
<1>1. WordInc
  BY BlockIs DEF Ready
<1> QED
  BY <1>1, RegisterNames DEF WordInc, At, Word, WriteAt, Touch, GetZ, Set, Ready, After,
     TmpIs, IsTmp,
     TmpFields

LEMMA WordPutDoes ==
  ASSUME Ready, Head(todo) = "word_put"
  PROVE  /\ After(cpu,
               Set(ram, Wrap(tmp.address + 1), High(tmp.data16)), {Wrap(tmp.address + 1)})
         /\ TmpIs(tmp.address, tmp.address2, tmp.data, tmp.data2, tmp.data16,
               tmp.offset)
<1>1. WordPut
  BY BlockIs DEF Ready
<1> QED
  BY <1>1, RegisterNames DEF WordPut, At, WriteAt, AfterAddress, Touch, Set, Ready, After,
     TmpIs,
     IsTmp, TmpFields

LEMMA Set1Does ==
  ASSUME Ready, Head(todo) = "set1"
  PROVE  /\ After(cpu,
               Set(ram, tmp.address, WithBit(tmp.data, form.n)), {tmp.address})
         /\ TmpIs(tmp.address, tmp.address2, WithBit(tmp.data, form.n),
               tmp.data2, tmp.data16, tmp.offset)
<1>1. Set1
  BY BlockIs DEF Ready
<1> QED
  BY <1>1, RegisterNames DEF Set1, At, Rewrite, Data, WriteAt, Touch, Set, Ready, After,
     TmpIs, IsTmp,
     TmpFields

LEMMA Clr1Does ==
  ASSUME Ready, Head(todo) = "clr1"
  PROVE  /\ After(cpu,
               Set(ram, tmp.address, WithoutBit(tmp.data, form.n)), {tmp.address})
         /\ TmpIs(tmp.address, tmp.address2, WithoutBit(tmp.data, form.n),
               tmp.data2, tmp.data16, tmp.offset)
<1>1. Clr1
  BY BlockIs DEF Ready
<1> QED
  BY <1>1, RegisterNames DEF Clr1, At, Rewrite, Data, WriteAt, Touch, Set, Ready, After,
     TmpIs, IsTmp,
     TmpFields

LEMMA TestDoes ==
  ASSUME Ready, Head(todo) = "test"
  PROVE  /\ After(WithZ(cpu, BitAnd(tmp.data, cpu.a) = 0), ram, {})
         /\ TmpIs(tmp.address, tmp.address2, tmp.data, tmp.data2, tmp.data16,
               tmp.offset)
<1>1. Test
  BY BlockIs DEF Ready
<1> QED
  BY <1>1, RegisterNames DEF Test, At, WithZ, Ready, After, TmpIs, IsTmp, TmpFields

LEMMA Tset1Does ==
  ASSUME Ready, Head(todo) = "tset1"
  PROVE  /\ After(cpu,
               Set(ram, tmp.address, BitOr(tmp.data, cpu.a)), {tmp.address})
         /\ TmpIs(tmp.address, tmp.address2, BitOr(tmp.data, cpu.a),
               tmp.data2, tmp.data16, tmp.offset)
<1>1. Tset1
  BY BlockIs DEF Ready
<1> QED
  BY <1>1, RegisterNames DEF Tset1, At, Rewrite, Data, WriteAt, Touch, Set, Ready, After,
     TmpIs,
     IsTmp, TmpFields

LEMMA Tclr1Does ==
  ASSUME Ready, Head(todo) = "tclr1"
  PROVE  /\ After(cpu,
               Set(ram, tmp.address, tmp.data - BitAnd(tmp.data, cpu.a)), {tmp.address})
         /\ TmpIs(tmp.address, tmp.address2,
               tmp.data - BitAnd(tmp.data, cpu.a), tmp.data2, tmp.data16,
               tmp.offset)
<1>1. Tclr1
  BY BlockIs DEF Ready
<1> QED
  BY <1>1, RegisterNames DEF Tclr1, At, Rewrite, Data, WriteAt, Touch, Set, Ready, After,
     TmpIs,
     IsTmp, TmpFields

LEMMA Or1Does ==
  ASSUME Ready, Head(todo) = "or1"
  PROVE  /\ After(Flagged(cpu, cpu.c \/ IsSet(tmp.data, tmp.offset)), ram,
               {})
         /\ TmpIs(tmp.address, tmp.address2, tmp.data, tmp.data2, tmp.data16,
               tmp.offset)
<1>1. Or1
  BY BlockIs DEF Ready
<1> QED
  BY <1>1, RegisterNames DEF Or1, CarryFrom, Addressed, At, SetsCarry, Flagged, Set, Ready,
     After,
     TmpIs, IsTmp, TmpFields

LEMMA Or1NotDoes ==
  ASSUME Ready, Head(todo) = "or1n"
  PROVE  /\ After(Flagged(cpu, cpu.c \/ ~IsSet(tmp.data, tmp.offset)), ram,
               {})
         /\ TmpIs(tmp.address, tmp.address2, tmp.data, tmp.data2, tmp.data16,
               tmp.offset)
<1>1. Or1Not
  BY BlockIs DEF Ready
<1> QED
  BY <1>1, RegisterNames DEF Or1Not, CarryFrom, Addressed, At, SetsCarry, Flagged, Set,
     Ready, After,
     TmpIs, IsTmp, TmpFields

LEMMA Eor1Does ==
  ASSUME Ready, Head(todo) = "eor1"
  PROVE  /\ After(Flagged(cpu, cpu.c # IsSet(tmp.data, tmp.offset)), ram, {})
         /\ TmpIs(tmp.address, tmp.address2, tmp.data, tmp.data2, tmp.data16,
               tmp.offset)
<1>1. Eor1
  BY BlockIs DEF Ready
<1> QED
  BY <1>1, RegisterNames DEF Eor1, CarryFrom, Addressed, At, SetsCarry, Flagged, Set, Ready,
     After,
     TmpIs, IsTmp, TmpFields

LEMMA And1Does ==
  ASSUME Ready, Head(todo) = "and1"
  PROVE  /\ After(Flagged(cpu, cpu.c /\ IsSet(ram[tmp.address], tmp.offset)), ram,
               {tmp.address})
         /\ TmpIs(tmp.address, tmp.address2, ram[tmp.address], tmp.data2,
               tmp.data16, tmp.offset)
<1>1. And1
  BY BlockIs DEF Ready
<1> QED
  BY <1>1, RegisterNames DEF And1, CarryRead, Addressed, Top, At, SetsCarry, Data, ReadAt,
     Touch,
     Flagged, Set, Ready, After, TmpIs, IsTmp, TmpFields

LEMMA And1NotDoes ==
  ASSUME Ready, Head(todo) = "and1n"
  PROVE  /\ After(Flagged(cpu, cpu.c /\ ~IsSet(ram[tmp.address], tmp.offset)), ram,
               {tmp.address})
         /\ TmpIs(tmp.address, tmp.address2, ram[tmp.address], tmp.data2,
               tmp.data16, tmp.offset)
<1>1. And1Not
  BY BlockIs DEF Ready
<1> QED
  BY <1>1, RegisterNames DEF And1Not, CarryRead, Addressed, Top, At, SetsCarry, Data, ReadAt,
     Touch,
     Flagged, Set, Ready, After, TmpIs, IsTmp, TmpFields

LEMMA Mov1CDoes ==
  ASSUME Ready, Head(todo) = "mov1c"
  PROVE  /\ After(Flagged(cpu, IsSet(ram[tmp.address], tmp.offset)), ram,
               {tmp.address})
         /\ TmpIs(tmp.address, tmp.address2, ram[tmp.address], tmp.data2,
               tmp.data16, tmp.offset)
<1>1. Mov1C
  BY BlockIs DEF Ready
<1> QED
  BY <1>1, RegisterNames DEF Mov1C, CarryRead, Addressed, Top, At, SetsCarry, Data, ReadAt,
     Touch,
     Flagged, Set, Ready, After, TmpIs, IsTmp, TmpFields

LEMMA Mov1Does ==
  ASSUME Ready, Head(todo) = "mov1"
  PROVE  /\ After(cpu, ram, {})
         /\ TmpIs(tmp.address, tmp.address2,
               Written(tmp.data, tmp.offset, cpu.c), tmp.data2, tmp.data16,
               tmp.offset)
<1>1. Mov1
  BY BlockIs DEF Ready
<1> QED
  BY <1>1, RegisterNames DEF Mov1, At, Data, Written, Ready, After, TmpIs, IsTmp, TmpFields

LEMMA Not1Does ==
  ASSUME Ready, Head(todo) = "not1"
  PROVE  /\ After(cpu,
               Set(ram, tmp.address, Turned(tmp.data, tmp.offset)), {tmp.address})
         /\ TmpIs(tmp.address, tmp.address2, Turned(tmp.data, tmp.offset),
               tmp.data2, tmp.data16, tmp.offset)
<1>1. Not1
  BY BlockIs DEF Ready
<1> QED
  BY <1>1, RegisterNames DEF Not1, At, Rewrite, Addressed, Data, WriteAt, Touch, Set, Turned,
     Ready,
     After, TmpIs, IsTmp, TmpFields

LEMMA OffsetTestDoes ==
  ASSUME Ready, Head(todo) = "offset+test"
  PROVE  /\ AfterIf(Taken, Past(cpu, 1), ram, {cpu.pc})
         /\ TmpIs(tmp.address, tmp.address2, tmp.data, tmp.data2, tmp.data16,
               ram[cpu.pc])
<1>1. OffsetTest
  BY BlockIs DEF Ready
<1> QED
  BY <1>1, RegisterNames DEF OffsetTest, TakenOr, Fetch, Operand, NextPC, Touch, Past, Ready,
     AfterIf,
     TmpIs, IsTmp, TmpFields

LEMMA OffsetDoes ==
  ASSUME Ready, Head(todo) = "offset"
  PROVE  /\ After(Past(cpu, 1), ram, {cpu.pc})
         /\ TmpIs(tmp.address, tmp.address2, tmp.data, tmp.data2, tmp.data16,
               ram[cpu.pc])
<1>1. Offset
  BY BlockIs DEF Ready
<1> QED
  BY <1>1, RegisterNames DEF Offset, At, Fetch, Operand, NextPC, Touch, Past, Ready, After,
     TmpIs,
     IsTmp, TmpFields

LEMMA BbsDoes ==
  ASSUME Ready, Head(todo) = "bbs"
  PROVE  /\ AfterIf(IsSet(tmp.data, form.n), cpu, ram, {})
         /\ TmpIs(tmp.address, tmp.address2, tmp.data, tmp.data2, tmp.data16,
               tmp.offset)
<1>1. Bbs
  BY BlockIs DEF Ready
<1> QED
  BY <1>1, RegisterNames DEF Bbs, BitTest, TakenOr, mach, Set, Ready, AfterIf, TmpIs, IsTmp,
     TmpFields

LEMMA BbcDoes ==
  ASSUME Ready, Head(todo) = "bbc"
  PROVE  /\ AfterIf(~IsSet(tmp.data, form.n), cpu, ram, {})
         /\ TmpIs(tmp.address, tmp.address2, tmp.data, tmp.data2, tmp.data16,
               tmp.offset)
<1>1. Bbc
  BY BlockIs DEF Ready
<1> QED
  BY <1>1, RegisterNames DEF Bbc, BitTest, TakenOr, mach, Set, Ready, AfterIf, TmpIs, IsTmp,
     TmpFields

LEMMA CbneDoes ==
  ASSUME Ready, Head(todo) = "cbne"
  PROVE  /\ AfterIf(tmp.data # cpu.a, cpu, ram, {})
         /\ TmpIs(tmp.address, tmp.address2, tmp.data, tmp.data2, tmp.data16,
               tmp.offset)
<1>1. Cbne
  BY BlockIs DEF Ready
<1> QED
  BY <1>1, RegisterNames DEF Cbne, BitTest, TakenOr, mach, Ready, AfterIf, TmpIs, IsTmp,
     TmpFields

LEMMA YMinusDoes ==
  ASSUME Ready, Head(todo) = "y--"
  PROVE  /\ After(WithY(cpu, Low(cpu.y - 1)), ram, {})
         /\ TmpIs(tmp.address, tmp.address2, tmp.data, tmp.data2, tmp.data16,
               tmp.offset)
<1>1. YMinus
  BY BlockIs DEF Ready
<1> QED
  BY <1>1, RegisterNames DEF YMinus, At, WithY, Ready, After, TmpIs, IsTmp, TmpFields

LEMMA DbnzYDoes ==
  ASSUME Ready, Head(todo) = "dbnz_y"
  PROVE  /\ AfterIf(cpu.y # 0, cpu, ram, {})
         /\ TmpIs(tmp.address, tmp.address2, tmp.data, tmp.data2, tmp.data16,
               tmp.offset)
<1>1. DbnzY
  BY BlockIs DEF Ready
<1> QED
  BY <1>1, RegisterNames DEF DbnzY, BitTest, TakenOr, mach, Ready, AfterIf, TmpIs, IsTmp,
     TmpFields

LEMMA DbnzDoes ==
  ASSUME Ready, Head(todo) = "dbnz"
  PROVE  /\ AfterIf(Low(tmp.data - 1) # 0, cpu,
               Set(ram, tmp.address, Low(tmp.data - 1)), {tmp.address})
         /\ TmpIs(tmp.address, tmp.address2, Low(tmp.data - 1), tmp.data2,
               tmp.data16, tmp.offset)
<1>1. Dbnz
  BY BlockIs DEF Ready
<1> QED
  BY <1>1, RegisterNames DEF Dbnz, TakenOr, Data, WriteAt, Touch, Set, Ready, AfterIf, TmpIs,
     IsTmp,
     TmpFields

LEMMA TargetDoes ==
  ASSUME Ready, Head(todo) = "target"
  PROVE  /\ After(cpu, ram, {})
         /\ TmpIs(Wrap(cpu.pc + Signed(tmp.offset)), tmp.address2, tmp.data,
               tmp.data2, tmp.data16, tmp.offset)
<1>1. Target
  BY BlockIs DEF Ready
<1> QED
  BY <1>1, RegisterNames DEF Target, At, Address, Calculate, Ready, After, TmpIs, IsTmp,
     TmpFields

LEMMA JumpDoes ==
  ASSUME Ready, Head(todo) = "jump"
  PROVE  /\ After(WithPC(cpu, tmp.address), ram, {})
         /\ TmpIs(tmp.address, tmp.address2, tmp.data, tmp.data2, tmp.data16,
               tmp.offset)
<1>1. Jump
  BY BlockIs DEF Ready
<1> QED
  BY <1>1, RegisterNames DEF Jump, At, JumpTo, WithPC, Ready, After, TmpIs, IsTmp, TmpFields

LEMMA JumpHiDoes ==
  ASSUME Ready, Head(todo) = "jump_hi"
  PROVE  /\ After(WithPC(cpu, Wrap(Radix * ram[cpu.pc] + tmp.address)), ram,
               {cpu.pc})
         /\ TmpIs(tmp.address, tmp.address2, tmp.data, tmp.data2, tmp.data16,
               tmp.offset)
<1>1. JumpHi
  BY BlockIs DEF Ready
<1> QED
  BY <1>1, RegisterNames DEF JumpHi, At, JumpTo, Operand, ReadAt, Touch, WithPC, Ready,
     After, TmpIs,
     IsTmp, TmpFields

LEMMA PclDoes ==
  ASSUME Ready, Head(todo) = "pcl"
  PROVE  /\ After(cpu, ram, {tmp.address})
         /\ TmpIs(tmp.address, tmp.address2, tmp.data, tmp.data2, tmp.data16,
               ram[tmp.address])
<1>1. Pcl
  BY BlockIs DEF Ready
<1> QED
  BY <1>1, RegisterNames DEF Pcl, At, Top, ReadAt, Touch, Ready, After, TmpIs, IsTmp,
     TmpFields

LEMMA PchDoes ==
  ASSUME Ready, Head(todo) = "pch"
  PROVE  /\ After(WithPC(cpu, Wrap(Radix * ram[Wrap(tmp.address + 1)] + tmp.offset)), ram,
               {Wrap(tmp.address + 1)})
         /\ TmpIs(tmp.address, tmp.address2, tmp.data, tmp.data2, tmp.data16,
               tmp.offset)
<1>1. Pch
  BY BlockIs DEF Ready
<1> QED
  BY <1>1, RegisterNames DEF Pch, At, JumpTo, AfterAddress, ReadAt, Touch, WithPC, Ready,
     After,
     TmpIs, IsTmp, TmpFields

LEMMA VecLoDoes ==
  ASSUME Ready, Head(todo) = "vec_lo"
  PROVE  /\ After(cpu, ram, {VectorAt(form.n)})
         /\ TmpIs(VectorAt(form.n), ram[VectorAt(form.n)], tmp.data,
               tmp.data2, tmp.data16, tmp.offset)
<1>1. VecLo
  BY BlockIs DEF Ready
<1> QED
  BY <1>1, RegisterNames DEF VecLo, At, ReadAt, Touch, Ready, After, TmpIs, IsTmp, TmpFields

LEMMA VecHiDoes ==
  ASSUME Ready, Head(todo) = "vec_hi"
  PROVE  /\ After(cpu, ram, {Wrap(tmp.address + 1)})
         /\ TmpIs(tmp.address,
               Wrap(tmp.address2 + Radix * ram[Wrap(tmp.address + 1)]),
               tmp.data, tmp.data2, tmp.data16, tmp.offset)
<1>1. VecHi
  BY BlockIs DEF Ready
<1> QED
  BY <1>1, RegisterNames DEF VecHi, At, ReadAt, AfterAddress, Address2, Touch, Ready, After,
     TmpIs,
     IsTmp, TmpFields

LEMMA UpageDoes ==
  ASSUME Ready, Head(todo) = "upage"
  PROVE  /\ After(Past(cpu, 1), ram, {cpu.pc})
         /\ TmpIs(tmp.address, Radix * (Radix - 1) + ram[cpu.pc], tmp.data,
               tmp.data2, tmp.data16, tmp.offset)
<1>1. Upage
  BY BlockIs DEF Ready
<1> QED
  BY <1>1, RegisterNames DEF Upage, At, Fetch, Address2, Operand, NextPC, Touch, Past, Ready,
     After,
     TmpIs, IsTmp, TmpFields

LEMMA StackDoes ==
  ASSUME Ready, Head(todo) = "stack"
  PROVE  /\ After(cpu, ram, {})
         /\ TmpIs(StackAt(cpu.sp), tmp.address2, tmp.data, tmp.data2,
               tmp.data16, tmp.offset)
<1>1. Stack
  BY BlockIs DEF Ready
<1> QED
  BY <1>1, RegisterNames DEF Stack, At, Address, Calculate, Ready, After, TmpIs, IsTmp,
     TmpFields

LEMMA DecSPDoes ==
  ASSUME Ready, Head(todo) = "sp--"
  PROVE  /\ After(WithSP(cpu, Low(cpu.sp - 1)), ram, {})
         /\ TmpIs(tmp.address, tmp.address2, tmp.data, tmp.data2, tmp.data16,
               tmp.offset)
<1>1. DecSP
  BY BlockIs DEF Ready
<1> QED
  BY <1>1, RegisterNames DEF DecSP, At, SetSP, SPMinus, WithSP, Ready, After, TmpIs, IsTmp,
     TmpFields

LEMMA IncSPDoes ==
  ASSUME Ready, Head(todo) = "sp++"
  PROVE  /\ After(WithSP(cpu, Low(cpu.sp + 1)), ram, {})
         /\ TmpIs(tmp.address, tmp.address2, tmp.data, tmp.data2, tmp.data16,
               tmp.offset)
<1>1. IncSP
  BY BlockIs DEF Ready
<1> QED
  BY <1>1, RegisterNames DEF IncSP, At, SetSP, SPPlus, WithSP, Ready, After, TmpIs, IsTmp,
     TmpFields

LEMMA IdleDoes ==
  ASSUME Ready, Head(todo) = "idle"
  PROVE  /\ After(cpu, ram, {})
         /\ TmpIs(tmp.address, tmp.address2, tmp.data, tmp.data2, tmp.data16,
               tmp.offset)
<1>1. Idle
  BY BlockIs DEF Ready
<1> QED
  BY <1>1, RegisterNames DEF Idle, At, mach, Ready, After, TmpIs, IsTmp, TmpFields

LEMMA PushPchDoes ==
  ASSUME Ready, Head(todo) = "push_pch"
  PROVE  /\ After(WithSP(cpu, Low(cpu.sp - 1)),
               Set(ram, tmp.address, High(cpu.pc)), {tmp.address})
         /\ TmpIs(StackAt(Low(cpu.sp - 1)), tmp.address2, tmp.data, tmp.data2,
               tmp.data16, tmp.offset)
<1>1. PushPch
  BY BlockIs DEF Ready
<1> QED
  BY <1>1, RegisterNames DEF PushPch, At, Pushed, WriteAt, SetSP, BelowSP, Address, Touch,
     SPMinus,
     Set, WithSP, Ready, After, TmpIs, IsTmp, TmpFields

LEMMA PushPclDoes ==
  ASSUME Ready, Head(todo) = "push_pcl"
  PROVE  /\ After(WithSP(cpu, Low(cpu.sp - 1)),
               Set(ram, tmp.address, Low(cpu.pc)), {tmp.address})
         /\ TmpIs(StackAt(Low(cpu.sp - 1)), tmp.address2, tmp.data, tmp.data2,
               tmp.data16, tmp.offset)
<1>1. PushPcl
  BY BlockIs DEF Ready
<1> QED
  BY <1>1, RegisterNames DEF PushPcl, At, Pushed, WriteAt, SetSP, BelowSP, Address, Touch,
     SPMinus,
     Set, WithSP, Ready, After, TmpIs, IsTmp, TmpFields

LEMMA PushPclStayDoes ==
  ASSUME Ready, Head(todo) = "push_pcl_stay"
  PROVE  /\ After(cpu, Set(ram, tmp.address, Low(cpu.pc)), {tmp.address})
         /\ TmpIs(tmp.address, tmp.address2, tmp.data, tmp.data2, tmp.data16,
               tmp.offset)
<1>1. PushPclStay
  BY BlockIs DEF Ready
<1> QED
  BY <1>1, RegisterNames DEF PushPclStay, At, WriteAt, Touch, Set, Ready, After, TmpIs, IsTmp,
     TmpFields

LEMMA PushPSWDoes ==
  ASSUME Ready, Head(todo) = "push_psw"
  PROVE  /\ After(cpu, Set(ram, tmp.address, PSW(cpu)), {tmp.address})
         /\ TmpIs(tmp.address, tmp.address2, tmp.data, tmp.data2, tmp.data16,
               tmp.offset)
<1>1. PushPSW
  BY BlockIs DEF Ready
<1> QED
  BY <1>1, RegisterNames DEF PushPSW, At, WriteAt, Touch, Set, Ready, After, TmpIs, IsTmp,
     TmpFields

LEMMA Jump2Does ==
  ASSUME Ready, Head(todo) = "jump_2"
  PROVE  /\ After(WithPC(cpu, tmp.address2), ram, {})
         /\ TmpIs(tmp.address, tmp.address2, tmp.data, tmp.data2, tmp.data16,
               tmp.offset)
<1>1. Jump2
  BY BlockIs DEF Ready
<1> QED
  BY <1>1, RegisterNames DEF Jump2, At, JumpTo, WithPC, Ready, After, TmpIs, IsTmp, TmpFields

LEMMA Jump2DecDoes ==
  ASSUME Ready, Head(todo) = "jump_2_sp--"
  PROVE  /\ After(WithSP(WithPC(cpu, tmp.address2), Low(cpu.sp - 1)), ram,
               {})
         /\ TmpIs(tmp.address, tmp.address2, tmp.data, tmp.data2, tmp.data16,
               tmp.offset)
<1>1. Jump2Dec
  BY BlockIs DEF Ready
<1> QED
  BY <1>1, RegisterNames DEF Jump2Dec, At, SPMinus, WithPC, WithSP, Ready, After, TmpIs,
     IsTmp,
     TmpFields

LEMMA PopPclDoes ==
  ASSUME Ready, Head(todo) = "pop_pcl"
  PROVE  /\ After(WithSP(cpu, Low(cpu.sp + 1)), ram, {tmp.address})
         /\ TmpIs(StackAt(Low(cpu.sp + 1)), ram[tmp.address], tmp.data,
               tmp.data2, tmp.data16, tmp.offset)
<1>1. PopPcl
  BY BlockIs DEF Ready
<1> QED
  BY <1>1, RegisterNames DEF PopPcl, At, SetSP, SPPlus, ReadAt, Top, Touch, WithSP, Ready,
     After,
     TmpIs, IsTmp, TmpFields

LEMMA PopPchDoes ==
  ASSUME Ready, Head(todo) = "pop_pch"
  PROVE  /\ After(WithPC(cpu, Wrap(Radix * ram[tmp.address] + tmp.address2)), ram,
               {tmp.address})
         /\ TmpIs(tmp.address, tmp.address2, tmp.data, tmp.data2, tmp.data16,
               tmp.offset)
<1>1. PopPch
  BY BlockIs DEF Ready
<1> QED
  BY <1>1, RegisterNames DEF PopPch, At, JumpTo, Top, ReadAt, Touch, WithPC, Ready, After,
     TmpIs,
     IsTmp, TmpFields

LEMMA PopPSWDoes ==
  ASSUME Ready, Head(todo) = "pop_psw"
  PROVE  /\ After(WithSP(Restored(cpu, ram[tmp.address]), Low(cpu.sp + 1)), ram,
               {tmp.address})
         /\ TmpIs(StackAt(Low(cpu.sp + 1)), tmp.address2, tmp.data, tmp.data2,
               tmp.data16, tmp.offset)
<1>1. PopPSW
  BY BlockIs DEF Ready
<1> QED
  BY <1>1, RegisterNames DEF PopPSW, At, ReadAt, Address, SPPlus, Top, Touch, WithSP, Ready,
     After,
     TmpIs, IsTmp, TmpFields

LEMMA ImpliedDoes ==
  ASSUME Ready, Head(todo) = "implied"
  PROVE  /\ After(AfterImplied(form.what, cpu, form.reg), ram, {})
         /\ TmpIs(tmp.address, tmp.address2, tmp.data, tmp.data2, tmp.data16,
               tmp.offset)
<1>1. Implied
  BY BlockIs DEF Ready
<1> QED
  BY <1>1, RegisterNames DEF Implied, At, Ready, After, TmpIs, IsTmp, TmpFields

-----------------------------------------------------------------------------
(* What the instructions compute are bytes and addresses. *)

LEMMA BitsOfBytes ==
  \A v \in Byte, n \in 0 .. Bits - 1 :
    WithBit(v, n) \in Byte /\ WithoutBit(v, n) \in Byte /\ Turned(v, n) \in Byte
<1> SUFFICES ASSUME NEW v \in Byte, NEW n \in 0 .. Bits - 1
             PROVE  WithBit(v, n) \in Byte /\ WithoutBit(v, n) \in Byte
  BY DEF Turned
<1>1. n \in Int /\ 0 <= n /\ n < Bits /\ n \in {0, 1, 2, 3, 4, 5, 6, 7}
  BY RadixIs
<1>2. v \in Int /\ 0 <= v /\ v < Radix
  BY ByteIs
<1>3. WithBit(v, n) \in Int /\ 0 <= WithBit(v, n) /\ WithBit(v, n) < Radix
  BY <1>1, <1>2, RadixIs, PowersOfTwo DEF WithBit, IsSet, HasBit
<1>4. WithoutBit(v, n) \in Int /\ 0 <= WithoutBit(v, n) /\ WithoutBit(v, n) < Radix
  BY <1>1, <1>2, RadixIs, PowersOfTwo DEF WithoutBit, IsSet, HasBit
<1> QED BY <1>3, <1>4, ByteIs

LEMMA StackCells == \A b \in Byte : StackAt(b) \in Addr
BY Numbers DEF StackAt

LEMMA VectorCells == \A n \in Nat : n < Vectors => VectorAt(n) \in Addr
<1>1. /\ Vectors \in Int /\ VectorBase \in Int /\ 0 <= VectorBase
      /\ VectorBase + 2 * Vectors <= Radix * Radix /\ Radix * Radix \in Int
  BY InstrAssumption, AddrIs, RadixIs
<1> QED BY <1>1, AddrIs DEF VectorAt

LEMMA UpperPage == \A b \in Byte : Radix * (Radix - 1) + b \in Addr
BY ByteIs, AddrIs, RadixIs

LEMMA BitAddresses ==
  \A n \in Addr : n % BitArea \in Addr /\ n \div BitArea \in 0 .. Bits - 1
<1> SUFFICES ASSUME NEW n \in Addr
             PROVE  n % BitArea \in Addr /\ n \div BitArea \in 0 .. Bits - 1
  OBVIOUS
<1> DEFINE q == n \div BitArea
           r == n % BitArea
<1>1. n \in Int /\ 0 <= n /\ n < Radix * Radix /\ Radix * Radix \in Int
  BY AddrIs, RadixIs
<1>2. BitArea \in Int /\ 0 < BitArea /\ Radix * Radix <= Bits * BitArea
  BY InstrAssumption, RadixIs
<1>3. q \in Int /\ r \in Int /\ n = BitArea * q + r /\ 0 <= r /\ r < BitArea
  BY <1>1, <1>2, Z3
<1> HIDE DEF q, r
<1>4. 0 <= q
  <2>1. CASE q <= -1
    <3>1. BitArea * q <= -BitArea
      BY <1>2, <1>3, <2>1, Z3
    <3> QED BY <1>1, <1>2, <1>3, <3>1
  <2> QED BY <1>3, <2>1
<1>5. q < Bits
  <2>1. CASE Bits <= q
    <3>1. Bits * BitArea <= BitArea * q
      BY <1>2, <1>3, <2>1, RadixIs, Z3
    <3> QED BY <1>1, <1>2, <1>3, <3>1, RadixIs
  <2> QED BY <1>3, <2>1, RadixIs
<1>6. r <= n
  BY <1>1, <1>2, <1>3, <1>4, Z3
<1> QED BY <1>1, <1>3, <1>4, <1>5, <1>6, AddrIs, RadixIs DEF q, r

LEMMA PSWIsByte == \A c \in Cpu : PSW(c) \in Byte
BY ByteIs, RadixIs DEF PSW, Cpu

(* The byte that a & b is cannot exceed a, nor a | b what the bits of a byte
   can come to. *)
LEMMA BitsTogether ==
  \A v \in Byte, w \in Byte : BitOr(v, w) \in Byte /\ v - BitAnd(v, w) \in Byte
<1> SUFFICES ASSUME NEW v \in Byte, NEW w \in Byte
             PROVE  BitOr(v, w) \in Byte /\ v - BitAnd(v, w) \in Byte
  OBVIOUS
<1> DEFINE P(k) == HasBit(v, k)
           Q(k) == HasBit(w, k)
<1>1. v \in Int /\ 0 <= v /\ v < Radix /\ w \in Int /\ 0 <= w /\ w < Radix
  BY ByteIs
<1>2. v = Bit(P(128), 128) + Bit(P(64), 64) + Bit(P(32), 32) + Bit(P(16), 16)
            + Bit(P(8), 8) + Bit(P(4), 4) + Bit(P(2), 2) + Bit(P(1), 1)
  BY <1>1, RadixIs DEF Bit, HasBit
<1>3. /\ Radix <= 128 => ~P(128) /\ ~Q(128)
      /\ Radix <= 64 => ~P(64) /\ ~Q(64)
      /\ Radix <= 32 => ~P(32) /\ ~Q(32)
      /\ Radix <= 16 => ~P(16) /\ ~Q(16)
      /\ Radix <= 8 => ~P(8) /\ ~Q(8)
  BY <1>1, RadixIs DEF HasBit
<1>4. /\ BitOr(v, w) = Bit(P(128) \/ Q(128), 128) + Bit(P(64) \/ Q(64), 64)
            + Bit(P(32) \/ Q(32), 32) + Bit(P(16) \/ Q(16), 16) + Bit(P(8) \/ Q(8), 8)
            + Bit(P(4) \/ Q(4), 4) + Bit(P(2) \/ Q(2), 2) + Bit(P(1) \/ Q(1), 1)
      /\ BitAnd(v, w) = Bit(P(128) /\ Q(128), 128) + Bit(P(64) /\ Q(64), 64)
            + Bit(P(32) /\ Q(32), 32) + Bit(P(16) /\ Q(16), 16) + Bit(P(8) /\ Q(8), 8)
            + Bit(P(4) /\ Q(4), 4) + Bit(P(2) /\ Q(2), 2) + Bit(P(1) /\ Q(1), 1)
  BY DEF BitOr, BitAnd, ByteOf, One
<1> HIDE DEF P, Q
<1>5. BitOr(v, w) \in Int /\ 0 <= BitOr(v, w) /\ BitOr(v, w) < Radix
  BY <1>3, <1>4, RadixIs DEF Bit
<1>6. BitAnd(v, w) \in Int /\ 0 <= BitAnd(v, w) /\ BitAnd(v, w) <= v
  BY <1>2, <1>4 DEF Bit
<1> DEFINE d == v - BitAnd(v, w)
<1>7. d \in Int /\ 0 <= d /\ d < Radix
  BY <1>1, <1>6, RadixIs
<1> QED BY <1>5, <1>7, ByteIs

-----------------------------------------------------------------------------
(* Registers after an update. *)

LEMMA Moves ==
  ASSUME NEW c \in Cpu
  PROVE  /\ \A r \in Registers : c[r] \in Byte
         /\ Past(c, 0) = c
         /\ Past(Past(c, 1), 1) = Past(c, 2)
         /\ Past(c, 1) \in Cpu /\ Past(c, 1).pc = Wrap(c.pc + 1)
         /\ Past(c, 2) \in Cpu /\ Past(c, 2).pc = Wrap(c.pc + 2)
         /\ \A i \in {1, 2} :
              /\ Past(c, i).sp = c.sp /\ Past(c, i).a = c.a /\ Past(c, i).x = c.x
              /\ Past(c, i).y = c.y /\ Past(c, i).p = c.p /\ Past(c, i).z = c.z
              /\ Past(c, i).c = c.c /\ PageOf(Past(c, i)) = PageOf(c)
              /\ \A r \in Registers : Past(c, i)[r] = c[r]
<1>1. \A i \in {1, 2} : \A r \in Registers : Past(c, i)[r] = c[r] /\ c[r] \in Byte
  BY RegisterNames DEF Past, Cpu
<1> QED BY <1>1, PastIs

LEMMA NextTwice == \A n \in Int : Wrap(Wrap(n + 1) + 1) = Wrap(n + 2)
BY RadixIs DEF Wrap

(* The bytes and cells that the first bytes of an instruction name. *)
LEMMA Fetched ==
  ASSUME NEW c \in Cpu, NEW m \in Memory
  PROVE  /\ c.pc \in Addr /\ Wrap(c.pc + 1) \in Addr /\ Wrap(c.pc + 2) \in Addr
         /\ Wrap(Wrap(c.pc + 1) + 1) = Wrap(c.pc + 2)
         /\ m[c.pc] \in Byte /\ m[Wrap(c.pc + 1)] \in Byte
         /\ \A b \in Byte : PageOf(c) + b \in Addr
<1>1. c.pc \in Addr /\ c.pc \in Int /\ c.pc + 1 \in Int /\ c.pc + 2 \in Int
  BY CpuIs, Numbers
<1>2. Wrap(c.pc + 1) \in Addr /\ Wrap(c.pc + 2) \in Addr
      /\ Wrap(Wrap(c.pc + 1) + 1) = Wrap(c.pc + 2)
  BY <1>1, Numbers, NextTwice
<1>3. \A b \in Byte : PageOf(c) + b \in Addr
  BY CpuIs, Numbers
<1> QED BY <1>1, <1>2, <1>3, Memories

LEMMA BlocksLeft == Block => todo # <<>>
BY BlockIs

(* Sums of bytes and addresses. *)
LEMMA Sums ==
  /\ \A e \in Addr : Wrap(e + 1) \in Addr /\ Wrap(e + 2) \in Addr
  /\ \A e \in Addr, b \in Byte : Wrap(e + b) \in Addr /\ Wrap(e + Signed(b)) \in Addr
  /\ \A b \in Byte, d \in Byte : Low(b + d) \in Byte /\ Combine(b, d) \in Byte
  /\ \A b \in Byte :
       /\ Low(b + 1) \in Byte /\ Low(b + 2) \in Byte /\ Low(b + 3) \in Byte
       /\ Low(b - 1) \in Byte /\ Low(b - 2) \in Byte /\ Low(b - 3) \in Byte
       /\ Low(Low(b + 1) + 1) = Low(b + 2) /\ Low(Low(b + 2) + 1) = Low(b + 3)
       /\ Low(Low(b - 1) - 1) = Low(b - 2) /\ Low(Low(b - 2) - 1) = Low(b - 3)
<1>1. ASSUME NEW e \in Addr PROVE Wrap(e + 1) \in Addr /\ Wrap(e + 2) \in Addr
  <2>1. e \in Int /\ e + 1 \in Int /\ e + 2 \in Int
    BY Numbers
  <2> QED BY <2>1, Numbers
<1>2. ASSUME NEW e \in Addr, NEW b \in Byte
      PROVE  Wrap(e + b) \in Addr /\ Wrap(e + Signed(b)) \in Addr
  <2>1. e \in Int /\ b \in Int /\ Signed(b) \in Int
    BY Numbers
  <2>2. e + b \in Int /\ e + Signed(b) \in Int
    BY <2>1
  <2> QED BY <2>2, Numbers
<1>3. ASSUME NEW b \in Byte, NEW d \in Byte
      PROVE  Low(b + d) \in Byte /\ Combine(b, d) \in Byte
  <2>1. b \in Int /\ d \in Int /\ b + d \in Int
    BY Numbers
  <2> QED BY <2>1, Numbers DEF Combine
<1>4. ASSUME NEW b \in Byte
      PROVE  /\ Low(b + 1) \in Byte /\ Low(b + 2) \in Byte /\ Low(b + 3) \in Byte
             /\ Low(b - 1) \in Byte /\ Low(b - 2) \in Byte /\ Low(b - 3) \in Byte
  <2>1. /\ b + 1 \in Int /\ b + 2 \in Int /\ b + 3 \in Int
        /\ b - 1 \in Int /\ b - 2 \in Int /\ b - 3 \in Int
    BY Numbers
  <2> QED BY <2>1, Numbers
<1>5. \A b \in Int : Low(Low(b + 1) + 1) = Low(b + 2) /\ Low(Low(b + 2) + 1) = Low(b + 3)
  BY RadixIs DEF Low
<1>6. \A b \in Int : Low(Low(b - 1) - 1) = Low(b - 2) /\ Low(Low(b - 2) - 1) = Low(b - 3)
  BY RadixIs DEF Low
<1>7. \A b \in Byte : b \in Int
  BY Numbers
<1> QED BY <1>1, <1>2, <1>3, <1>4, <1>5, <1>6, <1>7

LEMMA Onward ==
  \A n \in Addr :
    /\ Wrap(n + 0) = n /\ Wrap(n + 1 + 0) = Wrap(n + 1) /\ Wrap(n + 2 + 0) = Wrap(n + 2)
    /\ \A b \in Byte : /\ Wrap(n + 1 + Signed(b)) = Wrap(Wrap(n + 1) + Signed(b))
                       /\ Wrap(n + 2 + Signed(b)) = Wrap(Wrap(n + 2) + Signed(b))
<1> SUFFICES ASSUME NEW n \in Addr
             PROVE  /\ /\ Wrap(n + 0) = n
                       /\ Wrap(n + 1 + 0) = Wrap(n + 1) /\ Wrap(n + 2 + 0) = Wrap(n + 2)
                    /\ \A b \in Byte :
                         /\ Wrap(n + 1 + Signed(b)) = Wrap(Wrap(n + 1) + Signed(b))
                         /\ Wrap(n + 2 + Signed(b)) = Wrap(Wrap(n + 2) + Signed(b))
  OBVIOUS
<1>1. n \in Int /\ n + 1 \in Int /\ n + 2 \in Int /\ Wrap(n) = n
  BY Numbers
<1>2. n + 0 = n /\ n + 1 + 0 = n + 1 /\ n + 2 + 0 = n + 2
  BY <1>1
<1>3. ASSUME NEW b \in Byte
      PROVE  /\ Wrap(n + 1 + Signed(b)) = Wrap(Wrap(n + 1) + Signed(b))
             /\ Wrap(n + 2 + Signed(b)) = Wrap(Wrap(n + 2) + Signed(b))
  <2>1. Signed(b) \in Int
    BY Numbers
  <2> QED BY <1>1, <2>1, WrapTwice
<1> QED BY <1>1, <1>2, <1>3

(* Registers stay registers. *)
LEMMA StillCpu ==
  \A k \in Cpu :
    /\ \A e \in Addr : WithPC(k, e) \in Cpu /\ WordIn(k, e) \in Cpu
    /\ \A b \in Byte : WithSP(k, b) \in Cpu /\ WithX(k, b) \in Cpu /\ WithY(k, b) \in Cpu
    /\ \A v : GetZ(k, v) \in Cpu /\ Restored(k, v) \in Cpu
    /\ \A r \in Registers, b \in Byte : GetR(k, r, b) \in Cpu /\ Pulled(k, r, b) \in Cpu
    /\ \A v \in Byte, d \in Byte : Compared(k, d, v) \in Cpu
<1> SUFFICES ASSUME NEW k \in Cpu
             PROVE  /\ \A e \in Addr : WithPC(k, e) \in Cpu /\ WordIn(k, e) \in Cpu
                    /\ \A b \in Byte : WithSP(k, b) \in Cpu /\ WithX(k, b) \in Cpu
                                       /\ WithY(k, b) \in Cpu
                    /\ \A v : GetZ(k, v) \in Cpu /\ Restored(k, v) \in Cpu
                    /\ \A r \in Registers, b \in Byte :
                         GetR(k, r, b) \in Cpu /\ Pulled(k, r, b) \in Cpu
                    /\ \A v \in Byte, d \in Byte : Compared(k, d, v) \in Cpu
  OBVIOUS
<1>1. ASSUME NEW e \in Addr PROVE WithPC(k, e) \in Cpu
  BY DEF WithPC, Cpu
<1>2. ASSUME NEW e \in Addr PROVE WordIn(k, e) \in Cpu
  <2>1. Low(e) \in Byte /\ High(e) \in Byte
    BY Numbers
  <2> QED BY <2>1 DEF WordIn, Cpu
<1>3. ASSUME NEW b \in Byte PROVE WithSP(k, b) \in Cpu /\ WithX(k, b) \in Cpu /\ WithY(k,
    b) \in Cpu
  BY DEF WithSP, WithX, WithY, Cpu
<1>4. ASSUME NEW v PROVE GetZ(k, v) \in Cpu
  BY DEF GetZ, Cpu
<1>5. ASSUME NEW v PROVE Restored(k, v) \in Cpu
  BY DEF Restored, IsSet, HasBit, Cpu
<1>6. ASSUME NEW r \in Registers, NEW b \in Byte
      PROVE  GetR(k, r, b) \in Cpu /\ Pulled(k, r, b) \in Cpu
  BY ZenonT(20) DEF GetR, Pulled, Cpu, Registers
<1>7. ASSUME NEW v \in Byte, NEW d \in Byte PROVE Compared(k, d, v) \in Cpu
  <2> DEFINE carry == d >= v
  <2>1. carry \in BOOLEAN
    BY ByteIs
  <2>2. Compared(k, d, v) = [k EXCEPT !.z = (d = v), !.c = carry]
    BY DEF Compared
  <2> HIDE DEF carry
  <2> QED BY <2>1, <2>2 DEF Cpu
<1> QED BY <1>1, <1>2, <1>3, <1>4, <1>5, <1>6, <1>7

LEMMA StillCpuImplied ==
  \A k \in Cpu, r \in Registers, what \in ImpliedOps : AfterImplied(what, k, r) \in Cpu
<1> SUFFICES ASSUME NEW k \in Cpu, NEW r \in Registers, NEW what \in ImpliedOps
             PROVE  AfterImplied(what, k, r) \in Cpu
  OBVIOUS
<1>1. k.a \in Byte /\ k.x \in Byte /\ k.sp \in Byte /\ k[r] \in Byte /\ r \in {"a", "x", "y"}
  BY CpuIs, Moves, RegisterNames
<1>2. Low(k[r] + 1) \in Byte /\ Low(k[r] + (-1)) \in Byte
  <2>1. k[r] + 1 \in Int /\ k[r] + (-1) \in Int
    BY <1>1, Numbers
  <2> QED BY <2>1, Numbers
<1>3. Stepped(k, r, 1) \in Cpu /\ Stepped(k, r, -1) \in Cpu
  BY <1>1, <1>2, ZenonT(20) DEF Stepped, Cpu
<1>4. Moved(k, r, "a") \in Cpu /\ Moved(k, "a", r) \in Cpu /\ Moved(k, "x", "sp") \in Cpu
  BY <1>1, ZenonT(20) DEF Moved, Cpu
<1>5. /\ [k EXCEPT !.p = FALSE] \in Cpu /\ [k EXCEPT !.p = TRUE] \in Cpu
      /\ [k EXCEPT !.c = FALSE] \in Cpu /\ [k EXCEPT !.c = TRUE] \in Cpu
      /\ [k EXCEPT !.c = ~@] \in Cpu /\ [k EXCEPT !.sp = k.x] \in Cpu
  BY <1>1 DEF Cpu
<1> QED BY <1>3, <1>4, <1>5 DEF AfterImplied, ImpliedOps

(* The order of two updates. *)
LEMMA Orders ==
  \A k \in Cpu :
    /\ \A e, f : WithPC(WithPC(k, f), e) = WithPC(k, e)
    /\ \A e : WithPC(Past(k, 1), e) = WithPC(k, e) /\ WithPC(Past(k, 2), e) = WithPC(k, e)
    /\ WithPC(k, Wrap(k.pc + 1)) = Past(k, 1) /\ WithPC(k, Wrap(k.pc + 2)) = Past(k, 2)
    /\ \A s, t : WithSP(WithSP(k, s), t) = WithSP(k, t)
    /\ \A s, e : WithPC(WithSP(k, s), e) = WithSP(WithPC(k, e), s)
    /\ \A s, e : WithPC(WithY(k, s), e) = WithY(WithPC(k, e), s)
    /\ \A s, b : Restored(WithSP(k, s), b) = WithSP(Restored(k, b), s)
<1> SUFFICES ASSUME NEW k \in Cpu
             PROVE  /\ \A e, f : WithPC(WithPC(k, f), e) = WithPC(k, e)
                    /\ \A e : WithPC(Past(k, 1), e) = WithPC(k, e)
                              /\ WithPC(Past(k, 2), e) = WithPC(k, e)
                    /\ WithPC(k, Wrap(k.pc + 1)) = Past(k, 1)
                    /\ WithPC(k, Wrap(k.pc + 2)) = Past(k, 2)
                    /\ \A s, t : WithSP(WithSP(k, s), t) = WithSP(k, t)
                    /\ \A s, e : WithPC(WithSP(k, s), e) = WithSP(WithPC(k, e), s)
                    /\ \A s, e : WithPC(WithY(k, s), e) = WithY(WithPC(k, e), s)
                    /\ \A s, b : Restored(WithSP(k, s), b) = WithSP(Restored(k, b), s)
  OBVIOUS
<1>1. /\ \A e, f : WithPC(WithPC(k, f), e) = WithPC(k, e)
      /\ \A e : WithPC(Past(k, 1), e) = WithPC(k, e) /\ WithPC(Past(k, 2), e) = WithPC(k, e)
  BY ZenonT(20) DEF WithPC, Past, Cpu
<1>2. WithPC(k, Wrap(k.pc + 1)) = Past(k, 1) /\ WithPC(k, Wrap(k.pc + 2)) = Past(k, 2)
  BY ZenonT(20) DEF WithPC, Past, Cpu
<1>3. \A s, t : WithSP(WithSP(k, s), t) = WithSP(k, t)
  BY DEF WithSP, Cpu
<1>4. \A s, e : WithPC(WithSP(k, s), e) = WithSP(WithPC(k, e), s)
  BY DEF WithPC, WithSP, Cpu
<1>5. \A s, e : WithPC(WithY(k, s), e) = WithY(WithPC(k, e), s)
  BY DEF WithPC, WithY, Cpu
<1>6. \A s, b : Restored(WithSP(k, s), b) = WithSP(Restored(k, b), s)
  BY DEF WithSP, Restored, Cpu
<1> QED BY <1>1, <1>2, <1>3, <1>4, <1>5, <1>6

(* What an update leaves alone. *)
LEMMA Untouched ==
  \A k \in Cpu :
    /\ \A e : WithPC(k, e).sp = k.sp
    /\ \A s : /\ WithSP(k, s).sp = s /\ WithSP(k, s).pc = k.pc /\ PSW(WithSP(k, s)) = PSW(k)
              /\ PageOf(WithSP(k, s)) = PageOf(k)
    /\ \A s : WithY(k, s).y = s /\ WithY(k, s).pc = k.pc
    /\ \A b : GetR(k, "a", b).x = k.x
    /\ \A b : Restored(k, b).pc = k.pc /\ Restored(k, b).sp = k.sp
    /\ \A i \in {1, 2} : PSW(Past(k, i)) = PSW(k)
BY SMTT(20) DEF WithPC, WithSP, WithY, GetR, Restored, PSW, PageOf, Past, Cpu


-----------------------------------------------------------------------------
(* Where an instruction is. *)
Now(k, r, cells) ==
  /\ cpu = k /\ k \in Cpu /\ ram = r /\ r \in Memory /\ IsTmp(tmp)
  /\ cells \subseteq seen /\ cells \subseteq Addr

(* Whether a branch that tests a flag is taken. *)
Takes(op, c) ==
  CASE op = "bra" -> TRUE
    [] op = "bne" -> ~c.z
    [] op = "beq" -> c.z
    [] op = "bcc" -> ~c.c
    [] op = "bcs" -> c.c

(* A sample of the echo where the instruction has not been. *)
Stray(cell, echo) ==
  /\ cell \in Addr \ seen /\ echo \in Byte /\ ram' = Set(ram, cell, echo)
  /\ UNCHANGED <<cpu, tmp, form, todo, seen>>

LEMMA Apart ==
  \A m \in Memory : \A e, v, k, w :
    k # e => Set(Set(m, e, v), k, w) = Set(Set(m, k, w), e, v)
BY DEF Memory, Set

LEMMA TakenIs == Taken = Takes(form.op, cpu)
BY DEF Taken, Takes

-----------------------------------------------------------------------------
(* Blocks before others. *)
ModeBlocks ==
  {"dp", "lo", "hi", "at_x", "dp+x", "dp+y", "+x", "+y", "lo2", "dp+x_2", "dp_2",
   "ptr_lo", "ptr_hi", "load", "compare", "read", "store", "old", "modify"}

LEMMA Follow ==
  ASSUME NEW t \in Seq(ModeBlocks), NEW s \in Seq(ModeBlocks), t # <<>>
  PROVE  /\ Head(t \o s) = Head(t) /\ Tail(t \o s) = Tail(t) \o s
         /\ t \o s # <<>>
<1>1. Len(t) \in Nat /\ Len(s) \in Nat /\ Len(t) > 0
  OBVIOUS
<1>2. /\ t \o s \in Seq(ModeBlocks) /\ Len(t \o s) = Len(t) + Len(s)
      /\ \A i \in 1 .. Len(t) + Len(s) :
           (t \o s)[i] = IF i <= Len(t) THEN t[i] ELSE s[i - Len(t)]
  OBVIOUS
<1>3. Head(t \o s) = Head(t) /\ t \o s # <<>>
  BY <1>1, <1>2
<1>4. /\ Tail(t) \in Seq(ModeBlocks) /\ Len(Tail(t)) = Len(t) - 1
      /\ \A i \in 1 .. Len(t) - 1 : Tail(t)[i] = t[i + 1]
  BY <1>1
<1>5. /\ Tail(t) \o s \in Seq(ModeBlocks) /\ Len(Tail(t) \o s) = Len(t) - 1 + Len(s)
      /\ \A i \in 1 .. Len(t) - 1 + Len(s) :
           (Tail(t) \o s)[i] = IF i <= Len(t) - 1 THEN Tail(t)[i] ELSE s[i - (Len(t) - 1)]
  BY <1>4
<1>6. /\ Tail(t \o s) \in Seq(ModeBlocks) /\ Len(Tail(t \o s)) = Len(t) + Len(s) - 1
      /\ \A i \in 1 .. Len(t) + Len(s) - 1 : Tail(t \o s)[i] = (t \o s)[i + 1]
  BY <1>1, <1>2, <1>3
<1>7. ASSUME NEW i \in 1 .. Len(t) + Len(s) - 1 PROVE Tail(t \o s)[i] = (Tail(t) \o s)[i]
  <2>1. i + 1 \in 1 .. Len(t) + Len(s) /\ i \in 1 .. Len(t) - 1 + Len(s)
        /\ i + 1 - Len(t) = i - (Len(t) - 1) /\ i \in Int
    BY <1>1
  <2>2. CASE i <= Len(t) - 1
    <3>1. i + 1 <= Len(t) /\ i \in 1 .. Len(t) - 1
      BY <1>1, <2>1, <2>2
    <3> QED BY <1>2, <1>4, <1>5, <1>6, <2>1, <2>2, <3>1
  <2>3. CASE ~(i <= Len(t) - 1)
    <3>1. ~(i + 1 <= Len(t))
      BY <1>1, <2>1, <2>3
    <3>2. (t \o s)[i + 1] = s[i + 1 - Len(t)]
      BY <1>2, <2>1, <3>1
    <3> QED BY <1>5, <1>6, <2>1, <2>3, <3>2
  <2> QED BY <2>2, <2>3
<1>8. Len(Tail(t \o s)) = Len(Tail(t) \o s)
  BY <1>1, <1>5, <1>6
<1>9. Tail(t \o s) = Tail(t) \o s
  <2>1. \A u \in Seq(ModeBlocks), v \in Seq(ModeBlocks) :
          Len(u) = Len(v) /\ (\A i \in 1 .. Len(u) : u[i] = v[i]) => u = v
    OBVIOUS
  <2> QED BY <1>5, <1>6, <1>7, <1>8, <2>1
<1> QED BY <1>3, <1>9

LEMMA Tuples ==
  \A S :
    /\ \A a \in S :
         <<a>> \in Seq(S) /\ <<a>> # <<>> /\ Head(<<a>>) = a /\ Tail(<<a>>) = <<>>
    /\ \A a \in S, b \in S : <<a, b>> \in Seq(S) /\ <<a, b>> # <<>>
    /\ \A a \in S, b \in S, c \in S : <<a, b, c>> \in Seq(S) /\ <<a, b, c>> # <<>>
    /\ \A a \in S, b \in S, c \in S, d \in S :
         <<a, b, c, d>> \in Seq(S) /\ <<a, b, c, d>> # <<>>
OBVIOUS

LEMMA AccessBlocks ==
  \A a \in DOMAIN Accesses :
    Accesses[a] \in Seq(ModeBlocks) /\ <<>> \o Accesses[a] = Accesses[a]
<1> SUFFICES ASSUME NEW a \in DOMAIN Accesses
             PROVE  Accesses[a] \in Seq(ModeBlocks)
  OBVIOUS
<1>1. a \in {"load", "compare", "store", "modify"}
  BY DEF Accesses
<1>2. Accesses[a] \in {<<"load">>, <<"compare">>, <<"read", "store">>, <<"old", "modify">>}
  BY <1>1 DEF Accesses
<1>3. /\ "load" \in ModeBlocks /\ "compare" \in ModeBlocks /\ "read" \in ModeBlocks
      /\ "store" \in ModeBlocks /\ "old" \in ModeBlocks /\ "modify" \in ModeBlocks
  BY DEF ModeBlocks
<1> HIDE DEF ModeBlocks
<1> QED BY <1>2, <1>3, Tuples, ZenonT(20)

LEMMA Ahead ==
  ASSUME NEW a \in ModeBlocks, NEW b \in ModeBlocks, NEW c \in ModeBlocks,
         NEW d \in ModeBlocks, NEW s \in Seq(ModeBlocks)
  PROVE  /\ Head(<<a>> \o s) = a /\ Tail(<<a>> \o s) = s
         /\ Head(<<a, b>> \o s) = a /\ Tail(<<a, b>> \o s) = <<b>> \o s
         /\ Head(<<a, b, c>> \o s) = a /\ Tail(<<a, b, c>> \o s) = <<b, c>> \o s
         /\ Head(<<a, b, c, d>> \o s) = a /\ Tail(<<a, b, c, d>> \o s) = <<b, c, d>> \o s
<1>1. /\ <<a>> \in Seq(ModeBlocks) /\ <<a>> # <<>>
      /\ <<a, b>> \in Seq(ModeBlocks) /\ <<a, b>> # <<>>
      /\ <<a, b, c>> \in Seq(ModeBlocks) /\ <<a, b, c>> # <<>>
      /\ <<a, b, c, d>> \in Seq(ModeBlocks) /\ <<a, b, c, d>> # <<>>
  BY Tuples
<1>2. /\ Head(<<a>>) = a /\ Tail(<<a>>) = <<>>
      /\ Head(<<a, b>>) = a /\ Tail(<<a, b>>) = <<b>>
      /\ Head(<<a, b, c>>) = a /\ Tail(<<a, b, c>>) = <<b, c>>
      /\ Head(<<a, b, c, d>>) = a /\ Tail(<<a, b, c, d>>) = <<b, c, d>>
  OBVIOUS
<1>3. <<>> \o s = s
  OBVIOUS
<1>4. Head(<<a>> \o s) = a /\ Tail(<<a>> \o s) = s
  <2>1. Head(<<a>> \o s) = Head(<<a>>) /\ Tail(<<a>> \o s) = Tail(<<a>>) \o s
    BY <1>1, Follow
  <2> QED BY <1>2, <1>3, <2>1
<1>5. Head(<<a, b>> \o s) = a /\ Tail(<<a, b>> \o s) = <<b>> \o s
  <2>1. /\ Head(<<a, b>> \o s) = Head(<<a, b>>)
        /\ Tail(<<a, b>> \o s) = Tail(<<a, b>>) \o s
    BY <1>1, Follow
  <2> QED BY <1>2, <2>1
<1>6. Head(<<a, b, c>> \o s) = a /\ Tail(<<a, b, c>> \o s) = <<b, c>> \o s
  <2>1. /\ Head(<<a, b, c>> \o s) = Head(<<a, b, c>>)
        /\ Tail(<<a, b, c>> \o s) = Tail(<<a, b, c>>) \o s
    BY <1>1, Follow
  <2> QED BY <1>2, <2>1
<1>7. Head(<<a, b, c, d>> \o s) = a /\ Tail(<<a, b, c, d>> \o s) = <<b, c, d>> \o s
  <2>1. /\ Head(<<a, b, c, d>> \o s) = Head(<<a, b, c, d>>)
        /\ Tail(<<a, b, c, d>> \o s) = Tail(<<a, b, c, d>>) \o s
    BY <1>1, Follow
  <2> QED BY <1>2, <2>1
<1> QED BY <1>4, <1>5, <1>6, <1>7

-----------------------------------------------------------------------------
(* Where the operand of a mode is, and the cells read to find it. *)
Direct(c, m, index) == PageOf(c) + Low(m[c.pc] + index)
Pointer(c, m) == {c.pc, PageOf(c) + m[c.pc], Wrap(PageOf(c) + m[c.pc] + 1)}
PointerX(c, m) == {c.pc, Direct(c, m, c.x), Wrap(Direct(c, m, c.x) + 1)}
ModeCells(mode, c, m) ==
  CASE mode \in {"dp", "dpx", "dpy"}   -> {c.pc}
    [] mode \in {"abs", "absx", "absy"} -> {c.pc, Wrap(c.pc + 1)}
    [] mode = "x"    -> {}
    [] mode = "dpxi" -> PointerX(c, m)
    [] mode = "dpiy" -> Pointer(c, m)

(* How far an access to the operand is. *)
AccessAt(i, c, m) ==
  LET e == EA(form.mode, c, m)
      k == Past(c, OperandLength[form.mode])
      read == ModeCells(form.mode, c, m)
      v == Low(m[e] + 1)
  IN
  \/ /\ i = 0 /\ todo = Accesses[form.access] /\ Now(k, m, read) /\ tmp.address = e
  \/ /\ i = 1 /\ form.access = "load" /\ todo = <<>>
     /\ Now(GetR(k, form.reg, m[e]), m, read \cup {e})
  \/ /\ i = 2 /\ form.access = "compare" /\ todo = <<>>
     /\ Now(Compared(k, k[form.reg], m[e]), m, read \cup {e})
  \/ /\ i = 3 /\ form.access = "store" /\ todo = <<"store">>
     /\ Now(k, m, read \cup {e}) /\ tmp.address = e
  \/ /\ i = 4 /\ form.access = "store" /\ todo = <<>>
     /\ Now(k, Set(m, e, k[form.reg]), read \cup {e})
  \/ /\ i = 5 /\ form.access = "modify" /\ todo = <<"modify">>
     /\ Now(k, m, read \cup {e}) /\ tmp.address = e /\ tmp.data = m[e]
  \/ /\ i = 6 /\ form.access = "modify" /\ todo = <<>>
     /\ Now(GetZ(k, v), Set(m, e, v), read \cup {e})

-----------------------------------------------------------------------------
(* The instructions with an operand at a mode of addressing. *)

(* An operand at dp: where it is found. *)
DpAt(i, c, m) ==
  LET e == PageOf(c) + m[c.pc]
  IN
  \/ /\ i = 0 /\ todo = <<"dp">> \o Accesses[form.access] /\ Now(c, m, {})

DpTyped(c, m) ==
  LET e == PageOf(c) + m[c.pc]
  IN
  /\ e \in Addr
  /\ m[e] \in Byte

LEMMA DpTypes ==
  ASSUME NEW c \in Cpu, NEW m \in Memory, form \in ModeForms, form.mode = "dp"
  PROVE  DpTyped(c, m)
<1> DEFINE e == PageOf(c) + m[c.pc]
<1>1. /\ c.pc \in Addr /\ m[c.pc] \in Byte
      /\ Wrap(c.pc + 1) \in Addr /\ m[Wrap(c.pc + 1)] \in Byte
  BY Fetched
<1>2. e \in Addr
  BY <1>1, Fetched
<1>3. m[e] \in Byte
  BY <1>1, <1>2, Memories
<1> QED
  BY <1>2, <1>3
     DEF DpTyped

LEMMA DpGoes ==
  ASSUME NEW c \in Cpu, NEW m \in Memory, NEW i, DpAt(i, c, m), Block,
         form \in ModeForms, form.mode = "dp"
  PROVE  (\E j : DpAt(j, c, m)') \/ AccessAt(0, c, m)'
<1> DEFINE e == PageOf(c) + m[c.pc]
<1>1. /\ c.pc \in Addr /\ m[c.pc] \in Byte
      /\ Wrap(c.pc + 1) \in Addr /\ m[Wrap(c.pc + 1)] \in Byte
  BY Fetched
<1>t. /\ e \in Addr
      /\ m[e] \in Byte
  BY DpTypes DEF DpTyped
<1>2. Ready /\ form.access \in DOMAIN Accesses
  BY DEF DpAt, Now, Ready, ModeForms
<1>a. /\ "dp" \in ModeBlocks /\ Accesses[form.access] \in Seq(ModeBlocks)
  BY <1>2, AccessBlocks DEF ModeBlocks
<1>m. /\ EA(form.mode, c, m) = e /\ Past(c, OperandLength[form.mode]) = Past(c, 1)
      /\ ModeCells(form.mode, c, m) = {c.pc}
  BY Moves DEF EA, ModeCells, OperandLength, WordAt
<1>3. ASSUME i = 0 PROVE AccessAt(0, c, m)'
  <2>1. todo = <<"dp">> \o Accesses[form.access]
    BY <1>3 DEF DpAt
  <2>2. Head(todo) = "dp" /\ Tail(todo) = Accesses[form.access]
    BY <1>a, <2>1, Ahead
  <2>3. /\ After(Past(cpu, 1), ram, {cpu.pc})
        /\ tmp'.address = PageOf(cpu) + ram[cpu.pc]
    BY <1>2, <2>2, DpDoes DEF TmpIs
  <2>4. /\ todo' = Accesses[form.access] /\ form' = form
        /\ Now(Past(c, 1), m, {c.pc})' /\ tmp'.address = e
    BY <1>1, <1>t, <1>3, <2>2, <2>3, Moves
       DEF DpAt, Now, After
  <2> HIDE DEF e
  <2> QED BY <1>m, <2>4 DEF AccessAt
<1> QED BY <1>3 DEF DpAt

LEMMA DpBegins ==
  ASSUME NEW c, NEW m, (todo = Modes[form.mode] \o Accesses[form.access])',
         Now(c, m, {})', form'.mode = "dp"
  PROVE  DpAt(0, c, m)'
BY DEF DpAt, Modes

(* An operand at !abs. *)
AbsAt(i, c, m) ==
  LET e == m[c.pc] + Radix * m[Wrap(c.pc + 1)]
  IN
  \/ /\ i = 0 /\ todo = <<"lo", "hi">> \o Accesses[form.access]
     /\ Now(c, m, {})
  \/ /\ i = 1 /\ todo = <<"hi">> \o Accesses[form.access]
     /\ Now(Past(c, 1), m, {c.pc}) /\ tmp.address = m[c.pc]

AbsTyped(c, m) ==
  LET e == m[c.pc] + Radix * m[Wrap(c.pc + 1)]
  IN
  /\ e \in Addr
  /\ m[e] \in Byte

LEMMA AbsTypes ==
  ASSUME NEW c \in Cpu, NEW m \in Memory, form \in ModeForms, form.mode = "abs"
  PROVE  AbsTyped(c, m)
<1> DEFINE e == m[c.pc] + Radix * m[Wrap(c.pc + 1)]
<1>1. /\ c.pc \in Addr /\ m[c.pc] \in Byte
      /\ Wrap(c.pc + 1) \in Addr /\ m[Wrap(c.pc + 1)] \in Byte
  BY Fetched
<1>2. e \in Addr
  BY <1>1, Fetched, Sums, Words
<1>3. m[e] \in Byte
  BY <1>1, <1>2, Memories
<1> QED
  BY <1>2, <1>3
     DEF AbsTyped

LEMMA AbsGoes ==
  ASSUME NEW c \in Cpu, NEW m \in Memory, NEW i, AbsAt(i, c, m), Block,
         form \in ModeForms, form.mode = "abs"
  PROVE  (\E j : AbsAt(j, c, m)') \/ AccessAt(0, c, m)'
<1> DEFINE e == m[c.pc] + Radix * m[Wrap(c.pc + 1)]
<1>1. /\ c.pc \in Addr /\ m[c.pc] \in Byte
      /\ Wrap(c.pc + 1) \in Addr /\ m[Wrap(c.pc + 1)] \in Byte
  BY Fetched
<1>t. /\ e \in Addr
      /\ m[e] \in Byte
  BY AbsTypes DEF AbsTyped
<1>2. Ready /\ form.access \in DOMAIN Accesses
  BY DEF AbsAt, Now, Ready, ModeForms
<1>a. /\ "lo" \in ModeBlocks /\ "hi" \in ModeBlocks
      /\ Accesses[form.access] \in Seq(ModeBlocks)
  BY <1>2, AccessBlocks DEF ModeBlocks
<1>m. /\ EA(form.mode, c, m) = e /\ Past(c, OperandLength[form.mode]) = Past(c, 2)
      /\ ModeCells(form.mode, c, m) = {c.pc, Wrap(c.pc + 1)}
  BY Moves DEF EA, ModeCells, OperandLength, WordAt
<1>3. ASSUME i = 0 PROVE AbsAt(1, c, m)'
  <2>1. todo = <<"lo", "hi">> \o Accesses[form.access]
    BY <1>3 DEF AbsAt
  <2>2. Head(todo) = "lo" /\ Tail(todo) = <<"hi">> \o Accesses[form.access]
    BY <1>a, <2>1, Ahead
  <2>3. /\ After(Past(cpu, 1), ram, {cpu.pc}) /\ tmp'.address = ram[cpu.pc]
    BY <1>2, <2>2, LoDoes DEF TmpIs
  <2> QED
    BY <1>1, <1>t, <1>3, <2>2, <2>3, Moves
       DEF AbsAt, Now, After
<1>4. ASSUME i = 1 PROVE AccessAt(0, c, m)'
  <2>1. todo = <<"hi">> \o Accesses[form.access]
    BY <1>4 DEF AbsAt
  <2>2. Head(todo) = "hi" /\ Tail(todo) = Accesses[form.access]
    BY <1>a, <2>1, Ahead
  <2>3. /\ After(Past(cpu, 1), ram, {cpu.pc})
        /\ tmp'.address = Wrap(tmp.address + Radix * ram[cpu.pc])
    BY <1>2, <2>2, HiDoes DEF TmpIs
  <2>4. /\ todo' = Accesses[form.access] /\ form' = form
        /\ Now(Past(c, 2), m, {c.pc, Wrap(c.pc + 1)})' /\ tmp'.address = e
    BY <1>1, <1>t, <1>4, <2>2, <2>3, Moves, Words
       DEF AbsAt, Now, After
  <2> HIDE DEF e
  <2> QED BY <1>m, <2>4 DEF AccessAt
<1> QED BY <1>3, <1>4 DEF AbsAt

LEMMA AbsBegins ==
  ASSUME NEW c, NEW m, (todo = Modes[form.mode] \o Accesses[form.access])',
         Now(c, m, {})', form'.mode = "abs"
  PROVE  AbsAt(0, c, m)'
BY DEF AbsAt, Modes

(* An operand at (X). *)
XAt(i, c, m) ==
  LET e == PageOf(c) + c.x
  IN
  \/ /\ i = 0 /\ todo = <<"at_x">> \o Accesses[form.access] /\ Now(c, m, {})

XTyped(c, m) ==
  LET e == PageOf(c) + c.x
  IN
  /\ e \in Addr
  /\ m[e] \in Byte

LEMMA XTypes ==
  ASSUME NEW c \in Cpu, NEW m \in Memory, form \in ModeForms, form.mode = "x"
  PROVE  XTyped(c, m)
<1> DEFINE e == PageOf(c) + c.x
<1>1. /\ c.pc \in Addr /\ m[c.pc] \in Byte
      /\ Wrap(c.pc + 1) \in Addr /\ m[Wrap(c.pc + 1)] \in Byte
  BY Fetched
<1>2. e \in Addr
  BY <1>1, Fetched, CpuIs
<1>3. m[e] \in Byte
  BY <1>1, <1>2, Memories
<1> QED
  BY <1>2, <1>3
     DEF XTyped

LEMMA XGoes ==
  ASSUME NEW c \in Cpu, NEW m \in Memory, NEW i, XAt(i, c, m), Block,
         form \in ModeForms, form.mode = "x"
  PROVE  (\E j : XAt(j, c, m)') \/ AccessAt(0, c, m)'
<1> DEFINE e == PageOf(c) + c.x
<1>1. /\ c.pc \in Addr /\ m[c.pc] \in Byte
      /\ Wrap(c.pc + 1) \in Addr /\ m[Wrap(c.pc + 1)] \in Byte
  BY Fetched
<1>t. /\ e \in Addr
      /\ m[e] \in Byte
  BY XTypes DEF XTyped
<1>2. Ready /\ form.access \in DOMAIN Accesses
  BY DEF XAt, Now, Ready, ModeForms
<1>a. /\ "at_x" \in ModeBlocks /\ Accesses[form.access] \in Seq(ModeBlocks)
  BY <1>2, AccessBlocks DEF ModeBlocks
<1>m. /\ EA(form.mode, c, m) = e /\ Past(c, OperandLength[form.mode]) = c
      /\ ModeCells(form.mode, c, m) = {}
  BY Moves DEF EA, ModeCells, OperandLength, WordAt
<1>3. ASSUME i = 0 PROVE AccessAt(0, c, m)'
  <2>1. todo = <<"at_x">> \o Accesses[form.access]
    BY <1>3 DEF XAt
  <2>2. Head(todo) = "at_x" /\ Tail(todo) = Accesses[form.access]
    BY <1>a, <2>1, Ahead
  <2>3. /\ After(cpu, ram, {}) /\ tmp'.address = PageOf(cpu) + cpu.x
    BY <1>2, <2>2, IndirectXDoes DEF TmpIs
  <2>4. /\ todo' = Accesses[form.access] /\ form' = form
        /\ Now(c, m, {})' /\ tmp'.address = e
    BY <1>1, <1>t, <1>3, <2>2, <2>3, Moves
       DEF XAt, Now, After
  <2> HIDE DEF e
  <2> QED BY <1>m, <2>4 DEF AccessAt
<1> QED BY <1>3 DEF XAt

LEMMA XBegins ==
  ASSUME NEW c, NEW m, (todo = Modes[form.mode] \o Accesses[form.access])',
         Now(c, m, {})', form'.mode = "x"
  PROVE  XAt(0, c, m)'
BY DEF XAt, Modes

(* An operand at dp+X. *)
DpXAt(i, c, m) ==
  LET e == PageOf(c) + Low(m[c.pc] + c.x)
  IN
  \/ /\ i = 0 /\ todo = <<"lo", "dp+x">> \o Accesses[form.access]
     /\ Now(c, m, {})
  \/ /\ i = 1 /\ todo = <<"dp+x">> \o Accesses[form.access]
     /\ Now(Past(c, 1), m, {c.pc}) /\ tmp.address = m[c.pc]

DpXTyped(c, m) ==
  LET e == PageOf(c) + Low(m[c.pc] + c.x)
  IN
  /\ e \in Addr
  /\ m[e] \in Byte

LEMMA DpXTypes ==
  ASSUME NEW c \in Cpu, NEW m \in Memory, form \in ModeForms, form.mode = "dpx"
  PROVE  DpXTyped(c, m)
<1> DEFINE e == PageOf(c) + Low(m[c.pc] + c.x)
<1>1. /\ c.pc \in Addr /\ m[c.pc] \in Byte
      /\ Wrap(c.pc + 1) \in Addr /\ m[Wrap(c.pc + 1)] \in Byte
  BY Fetched
<1>2. e \in Addr
  BY <1>1, Fetched, CpuIs, Sums
<1>3. m[e] \in Byte
  BY <1>1, <1>2, Memories
<1> QED
  BY <1>2, <1>3
     DEF DpXTyped

LEMMA DpXGoes ==
  ASSUME NEW c \in Cpu, NEW m \in Memory, NEW i, DpXAt(i, c, m), Block,
         form \in ModeForms, form.mode = "dpx"
  PROVE  (\E j : DpXAt(j, c, m)') \/ AccessAt(0, c, m)'
<1> DEFINE e == PageOf(c) + Low(m[c.pc] + c.x)
<1>1. /\ c.pc \in Addr /\ m[c.pc] \in Byte
      /\ Wrap(c.pc + 1) \in Addr /\ m[Wrap(c.pc + 1)] \in Byte
  BY Fetched
<1>t. /\ e \in Addr
      /\ m[e] \in Byte
  BY DpXTypes DEF DpXTyped
<1>2. Ready /\ form.access \in DOMAIN Accesses
  BY DEF DpXAt, Now, Ready, ModeForms
<1>a. /\ "lo" \in ModeBlocks /\ "dp+x" \in ModeBlocks
      /\ Accesses[form.access] \in Seq(ModeBlocks)
  BY <1>2, AccessBlocks DEF ModeBlocks
<1>m. /\ EA(form.mode, c, m) = e /\ Past(c, OperandLength[form.mode]) = Past(c, 1)
      /\ ModeCells(form.mode, c, m) = {c.pc}
  BY Moves DEF EA, ModeCells, OperandLength, WordAt
<1>3. ASSUME i = 0 PROVE DpXAt(1, c, m)'
  <2>1. todo = <<"lo", "dp+x">> \o Accesses[form.access]
    BY <1>3 DEF DpXAt
  <2>2. Head(todo) = "lo" /\ Tail(todo) = <<"dp+x">> \o Accesses[form.access]
    BY <1>a, <2>1, Ahead
  <2>3. /\ After(Past(cpu, 1), ram, {cpu.pc}) /\ tmp'.address = ram[cpu.pc]
    BY <1>2, <2>2, LoDoes DEF TmpIs
  <2> QED
    BY <1>1, <1>t, <1>3, <2>2, <2>3, Moves
       DEF DpXAt, Now, After
<1>4. ASSUME i = 1 PROVE AccessAt(0, c, m)'
  <2>1. todo = <<"dp+x">> \o Accesses[form.access]
    BY <1>4 DEF DpXAt
  <2>2. Head(todo) = "dp+x" /\ Tail(todo) = Accesses[form.access]
    BY <1>a, <2>1, Ahead
  <2>3. /\ After(cpu, ram, {})
        /\ tmp'.address = PageOf(cpu) + Low(tmp.address + cpu.x)
    BY <1>2, <2>2, DpXDoes DEF TmpIs
  <2>4. /\ todo' = Accesses[form.access] /\ form' = form
        /\ Now(Past(c, 1), m, {c.pc})' /\ tmp'.address = e
    BY <1>1, <1>t, <1>4, <2>2, <2>3, Moves
       DEF DpXAt, Now, After
  <2> HIDE DEF e
  <2> QED BY <1>m, <2>4 DEF AccessAt
<1> QED BY <1>3, <1>4 DEF DpXAt

LEMMA DpXBegins ==
  ASSUME NEW c, NEW m, (todo = Modes[form.mode] \o Accesses[form.access])',
         Now(c, m, {})', form'.mode = "dpx"
  PROVE  DpXAt(0, c, m)'
BY DEF DpXAt, Modes

(* An operand at dp+Y. *)
DpYAt(i, c, m) ==
  LET e == PageOf(c) + Low(m[c.pc] + c.y)
  IN
  \/ /\ i = 0 /\ todo = <<"lo", "dp+y">> \o Accesses[form.access]
     /\ Now(c, m, {})
  \/ /\ i = 1 /\ todo = <<"dp+y">> \o Accesses[form.access]
     /\ Now(Past(c, 1), m, {c.pc}) /\ tmp.address = m[c.pc]

DpYTyped(c, m) ==
  LET e == PageOf(c) + Low(m[c.pc] + c.y)
  IN
  /\ e \in Addr
  /\ m[e] \in Byte

LEMMA DpYTypes ==
  ASSUME NEW c \in Cpu, NEW m \in Memory, form \in ModeForms, form.mode = "dpy"
  PROVE  DpYTyped(c, m)
<1> DEFINE e == PageOf(c) + Low(m[c.pc] + c.y)
<1>1. /\ c.pc \in Addr /\ m[c.pc] \in Byte
      /\ Wrap(c.pc + 1) \in Addr /\ m[Wrap(c.pc + 1)] \in Byte
  BY Fetched
<1>2. e \in Addr
  BY <1>1, Fetched, CpuIs, Sums
<1>3. m[e] \in Byte
  BY <1>1, <1>2, Memories
<1> QED
  BY <1>2, <1>3
     DEF DpYTyped

LEMMA DpYGoes ==
  ASSUME NEW c \in Cpu, NEW m \in Memory, NEW i, DpYAt(i, c, m), Block,
         form \in ModeForms, form.mode = "dpy"
  PROVE  (\E j : DpYAt(j, c, m)') \/ AccessAt(0, c, m)'
<1> DEFINE e == PageOf(c) + Low(m[c.pc] + c.y)
<1>1. /\ c.pc \in Addr /\ m[c.pc] \in Byte
      /\ Wrap(c.pc + 1) \in Addr /\ m[Wrap(c.pc + 1)] \in Byte
  BY Fetched
<1>t. /\ e \in Addr
      /\ m[e] \in Byte
  BY DpYTypes DEF DpYTyped
<1>2. Ready /\ form.access \in DOMAIN Accesses
  BY DEF DpYAt, Now, Ready, ModeForms
<1>a. /\ "lo" \in ModeBlocks /\ "dp+y" \in ModeBlocks
      /\ Accesses[form.access] \in Seq(ModeBlocks)
  BY <1>2, AccessBlocks DEF ModeBlocks
<1>m. /\ EA(form.mode, c, m) = e /\ Past(c, OperandLength[form.mode]) = Past(c, 1)
      /\ ModeCells(form.mode, c, m) = {c.pc}
  BY Moves DEF EA, ModeCells, OperandLength, WordAt
<1>3. ASSUME i = 0 PROVE DpYAt(1, c, m)'
  <2>1. todo = <<"lo", "dp+y">> \o Accesses[form.access]
    BY <1>3 DEF DpYAt
  <2>2. Head(todo) = "lo" /\ Tail(todo) = <<"dp+y">> \o Accesses[form.access]
    BY <1>a, <2>1, Ahead
  <2>3. /\ After(Past(cpu, 1), ram, {cpu.pc}) /\ tmp'.address = ram[cpu.pc]
    BY <1>2, <2>2, LoDoes DEF TmpIs
  <2> QED
    BY <1>1, <1>t, <1>3, <2>2, <2>3, Moves
       DEF DpYAt, Now, After
<1>4. ASSUME i = 1 PROVE AccessAt(0, c, m)'
  <2>1. todo = <<"dp+y">> \o Accesses[form.access]
    BY <1>4 DEF DpYAt
  <2>2. Head(todo) = "dp+y" /\ Tail(todo) = Accesses[form.access]
    BY <1>a, <2>1, Ahead
  <2>3. /\ After(cpu, ram, {})
        /\ tmp'.address = PageOf(cpu) + Low(tmp.address + cpu.y)
    BY <1>2, <2>2, DpYDoes DEF TmpIs
  <2>4. /\ todo' = Accesses[form.access] /\ form' = form
        /\ Now(Past(c, 1), m, {c.pc})' /\ tmp'.address = e
    BY <1>1, <1>t, <1>4, <2>2, <2>3, Moves
       DEF DpYAt, Now, After
  <2> HIDE DEF e
  <2> QED BY <1>m, <2>4 DEF AccessAt
<1> QED BY <1>3, <1>4 DEF DpYAt

LEMMA DpYBegins ==
  ASSUME NEW c, NEW m, (todo = Modes[form.mode] \o Accesses[form.access])',
         Now(c, m, {})', form'.mode = "dpy"
  PROVE  DpYAt(0, c, m)'
BY DEF DpYAt, Modes

(* An operand at !abs+X. *)
AbsXAt(i, c, m) ==
  LET u == m[c.pc] + Radix * m[Wrap(c.pc + 1)]
      e == Wrap(u + c.x)
  IN
  \/ /\ i = 0 /\ todo = <<"lo", "hi", "+x">> \o Accesses[form.access]
     /\ Now(c, m, {})
  \/ /\ i = 1 /\ todo = <<"hi", "+x">> \o Accesses[form.access]
     /\ Now(Past(c, 1), m, {c.pc}) /\ tmp.address = m[c.pc]
  \/ /\ i = 2 /\ todo = <<"+x">> \o Accesses[form.access]
     /\ Now(Past(c, 2), m, {c.pc, Wrap(c.pc + 1)}) /\ tmp.address = u

AbsXTyped(c, m) ==
  LET u == m[c.pc] + Radix * m[Wrap(c.pc + 1)]
      e == Wrap(u + c.x)
  IN
  /\ u \in Addr
  /\ m[u] \in Byte
  /\ e \in Addr
  /\ m[e] \in Byte

LEMMA AbsXTypes ==
  ASSUME NEW c \in Cpu, NEW m \in Memory, form \in ModeForms, form.mode = "absx"
  PROVE  AbsXTyped(c, m)
<1> DEFINE u == m[c.pc] + Radix * m[Wrap(c.pc + 1)]
           e == Wrap(u + c.x)
<1>1. /\ c.pc \in Addr /\ m[c.pc] \in Byte
      /\ Wrap(c.pc + 1) \in Addr /\ m[Wrap(c.pc + 1)] \in Byte
  BY Fetched
<1>2. u \in Addr
  BY <1>1, Fetched, Sums, Words
<1>3. m[u] \in Byte
  BY <1>1, <1>2, Memories
<1>4. e \in Addr
  BY <1>1, <1>2, CpuIs, Sums
<1>5. m[e] \in Byte
  BY <1>1, <1>4, Memories
<1> QED
  BY <1>2, <1>3, <1>4, <1>5
     DEF AbsXTyped

LEMMA AbsXGoes ==
  ASSUME NEW c \in Cpu, NEW m \in Memory, NEW i, AbsXAt(i, c, m), Block,
         form \in ModeForms, form.mode = "absx"
  PROVE  (\E j : AbsXAt(j, c, m)') \/ AccessAt(0, c, m)'
<1> DEFINE u == m[c.pc] + Radix * m[Wrap(c.pc + 1)]
           e == Wrap(u + c.x)
<1>1. /\ c.pc \in Addr /\ m[c.pc] \in Byte
      /\ Wrap(c.pc + 1) \in Addr /\ m[Wrap(c.pc + 1)] \in Byte
  BY Fetched
<1>t. /\ u \in Addr
      /\ m[u] \in Byte
      /\ e \in Addr
      /\ m[e] \in Byte
  BY AbsXTypes DEF AbsXTyped
<1>2. Ready /\ form.access \in DOMAIN Accesses
  BY DEF AbsXAt, Now, Ready, ModeForms
<1>a. /\ "lo" \in ModeBlocks /\ "hi" \in ModeBlocks /\ "+x" \in ModeBlocks
      /\ Accesses[form.access] \in Seq(ModeBlocks)
  BY <1>2, AccessBlocks DEF ModeBlocks
<1>m. /\ EA(form.mode, c, m) = e /\ Past(c, OperandLength[form.mode]) = Past(c, 2)
      /\ ModeCells(form.mode, c, m) = {c.pc, Wrap(c.pc + 1)}
  BY Moves DEF EA, ModeCells, OperandLength, WordAt
<1>3. ASSUME i = 0 PROVE AbsXAt(1, c, m)'
  <2>1. todo = <<"lo", "hi", "+x">> \o Accesses[form.access]
    BY <1>3 DEF AbsXAt
  <2>2. Head(todo) = "lo" /\ Tail(todo) = <<"hi", "+x">> \o Accesses[form.access]
    BY <1>a, <2>1, Ahead
  <2>3. /\ After(Past(cpu, 1), ram, {cpu.pc}) /\ tmp'.address = ram[cpu.pc]
    BY <1>2, <2>2, LoDoes DEF TmpIs
  <2> QED
    BY <1>1, <1>t, <1>3, <2>2, <2>3, Moves
       DEF AbsXAt, Now, After
<1>4. ASSUME i = 1 PROVE AbsXAt(2, c, m)'
  <2>1. todo = <<"hi", "+x">> \o Accesses[form.access]
    BY <1>4 DEF AbsXAt
  <2>2. Head(todo) = "hi" /\ Tail(todo) = <<"+x">> \o Accesses[form.access]
    BY <1>a, <2>1, Ahead
  <2>3. /\ After(Past(cpu, 1), ram, {cpu.pc})
        /\ tmp'.address = Wrap(tmp.address + Radix * ram[cpu.pc])
    BY <1>2, <2>2, HiDoes DEF TmpIs
  <2> QED
    BY <1>1, <1>t, <1>4, <2>2, <2>3, Moves, Words
       DEF AbsXAt, Now, After
<1>5. ASSUME i = 2 PROVE AccessAt(0, c, m)'
  <2>1. todo = <<"+x">> \o Accesses[form.access]
    BY <1>5 DEF AbsXAt
  <2>2. Head(todo) = "+x" /\ Tail(todo) = Accesses[form.access]
    BY <1>a, <2>1, Ahead
  <2>3. /\ After(cpu, ram, {}) /\ tmp'.address = Wrap(tmp.address + cpu.x)
    BY <1>2, <2>2, PlusXDoes DEF TmpIs
  <2>4. /\ todo' = Accesses[form.access] /\ form' = form
        /\ Now(Past(c, 2), m, {c.pc, Wrap(c.pc + 1)})' /\ tmp'.address = e
    BY <1>1, <1>t, <1>5, <2>2, <2>3, Moves
       DEF AbsXAt, Now, After
  <2> HIDE DEF u, e
  <2> QED BY <1>m, <2>4 DEF AccessAt
<1> QED BY <1>3, <1>4, <1>5 DEF AbsXAt

LEMMA AbsXBegins ==
  ASSUME NEW c, NEW m, (todo = Modes[form.mode] \o Accesses[form.access])',
         Now(c, m, {})', form'.mode = "absx"
  PROVE  AbsXAt(0, c, m)'
BY DEF AbsXAt, Modes

(* An operand at !abs+Y. *)
AbsYAt(i, c, m) ==
  LET u == m[c.pc] + Radix * m[Wrap(c.pc + 1)]
      e == Wrap(u + c.y)
  IN
  \/ /\ i = 0 /\ todo = <<"lo", "hi", "+y">> \o Accesses[form.access]
     /\ Now(c, m, {})
  \/ /\ i = 1 /\ todo = <<"hi", "+y">> \o Accesses[form.access]
     /\ Now(Past(c, 1), m, {c.pc}) /\ tmp.address = m[c.pc]
  \/ /\ i = 2 /\ todo = <<"+y">> \o Accesses[form.access]
     /\ Now(Past(c, 2), m, {c.pc, Wrap(c.pc + 1)}) /\ tmp.address = u

AbsYTyped(c, m) ==
  LET u == m[c.pc] + Radix * m[Wrap(c.pc + 1)]
      e == Wrap(u + c.y)
  IN
  /\ u \in Addr
  /\ m[u] \in Byte
  /\ e \in Addr
  /\ m[e] \in Byte

LEMMA AbsYTypes ==
  ASSUME NEW c \in Cpu, NEW m \in Memory, form \in ModeForms, form.mode = "absy"
  PROVE  AbsYTyped(c, m)
<1> DEFINE u == m[c.pc] + Radix * m[Wrap(c.pc + 1)]
           e == Wrap(u + c.y)
<1>1. /\ c.pc \in Addr /\ m[c.pc] \in Byte
      /\ Wrap(c.pc + 1) \in Addr /\ m[Wrap(c.pc + 1)] \in Byte
  BY Fetched
<1>2. u \in Addr
  BY <1>1, Fetched, Sums, Words
<1>3. m[u] \in Byte
  BY <1>1, <1>2, Memories
<1>4. e \in Addr
  BY <1>1, <1>2, CpuIs, Sums
<1>5. m[e] \in Byte
  BY <1>1, <1>4, Memories
<1> QED
  BY <1>2, <1>3, <1>4, <1>5
     DEF AbsYTyped

LEMMA AbsYGoes ==
  ASSUME NEW c \in Cpu, NEW m \in Memory, NEW i, AbsYAt(i, c, m), Block,
         form \in ModeForms, form.mode = "absy"
  PROVE  (\E j : AbsYAt(j, c, m)') \/ AccessAt(0, c, m)'
<1> DEFINE u == m[c.pc] + Radix * m[Wrap(c.pc + 1)]
           e == Wrap(u + c.y)
<1>1. /\ c.pc \in Addr /\ m[c.pc] \in Byte
      /\ Wrap(c.pc + 1) \in Addr /\ m[Wrap(c.pc + 1)] \in Byte
  BY Fetched
<1>t. /\ u \in Addr
      /\ m[u] \in Byte
      /\ e \in Addr
      /\ m[e] \in Byte
  BY AbsYTypes DEF AbsYTyped
<1>2. Ready /\ form.access \in DOMAIN Accesses
  BY DEF AbsYAt, Now, Ready, ModeForms
<1>a. /\ "lo" \in ModeBlocks /\ "hi" \in ModeBlocks /\ "+y" \in ModeBlocks
      /\ Accesses[form.access] \in Seq(ModeBlocks)
  BY <1>2, AccessBlocks DEF ModeBlocks
<1>m. /\ EA(form.mode, c, m) = e /\ Past(c, OperandLength[form.mode]) = Past(c, 2)
      /\ ModeCells(form.mode, c, m) = {c.pc, Wrap(c.pc + 1)}
  BY Moves DEF EA, ModeCells, OperandLength, WordAt
<1>3. ASSUME i = 0 PROVE AbsYAt(1, c, m)'
  <2>1. todo = <<"lo", "hi", "+y">> \o Accesses[form.access]
    BY <1>3 DEF AbsYAt
  <2>2. Head(todo) = "lo" /\ Tail(todo) = <<"hi", "+y">> \o Accesses[form.access]
    BY <1>a, <2>1, Ahead
  <2>3. /\ After(Past(cpu, 1), ram, {cpu.pc}) /\ tmp'.address = ram[cpu.pc]
    BY <1>2, <2>2, LoDoes DEF TmpIs
  <2> QED
    BY <1>1, <1>t, <1>3, <2>2, <2>3, Moves
       DEF AbsYAt, Now, After
<1>4. ASSUME i = 1 PROVE AbsYAt(2, c, m)'
  <2>1. todo = <<"hi", "+y">> \o Accesses[form.access]
    BY <1>4 DEF AbsYAt
  <2>2. Head(todo) = "hi" /\ Tail(todo) = <<"+y">> \o Accesses[form.access]
    BY <1>a, <2>1, Ahead
  <2>3. /\ After(Past(cpu, 1), ram, {cpu.pc})
        /\ tmp'.address = Wrap(tmp.address + Radix * ram[cpu.pc])
    BY <1>2, <2>2, HiDoes DEF TmpIs
  <2> QED
    BY <1>1, <1>t, <1>4, <2>2, <2>3, Moves, Words
       DEF AbsYAt, Now, After
<1>5. ASSUME i = 2 PROVE AccessAt(0, c, m)'
  <2>1. todo = <<"+y">> \o Accesses[form.access]
    BY <1>5 DEF AbsYAt
  <2>2. Head(todo) = "+y" /\ Tail(todo) = Accesses[form.access]
    BY <1>a, <2>1, Ahead
  <2>3. /\ After(cpu, ram, {}) /\ tmp'.address = Wrap(tmp.address + cpu.y)
    BY <1>2, <2>2, PlusYDoes DEF TmpIs
  <2>4. /\ todo' = Accesses[form.access] /\ form' = form
        /\ Now(Past(c, 2), m, {c.pc, Wrap(c.pc + 1)})' /\ tmp'.address = e
    BY <1>1, <1>t, <1>5, <2>2, <2>3, Moves
       DEF AbsYAt, Now, After
  <2> HIDE DEF u, e
  <2> QED BY <1>m, <2>4 DEF AccessAt
<1> QED BY <1>3, <1>4, <1>5 DEF AbsYAt

LEMMA AbsYBegins ==
  ASSUME NEW c, NEW m, (todo = Modes[form.mode] \o Accesses[form.access])',
         Now(c, m, {})', form'.mode = "absy"
  PROVE  AbsYAt(0, c, m)'
BY DEF AbsYAt, Modes

(* An operand at [dp+X]. *)
PtrXAt(i, c, m) ==
  LET t == PageOf(c) + Low(m[c.pc] + c.x)
      f == Wrap(t + 1)
      e == m[t] + Radix * m[f]
  IN
  \/ /\ i = 0
     /\ todo = <<"lo2", "dp+x_2", "ptr_lo", "ptr_hi">> \o Accesses[form.access]
     /\ Now(c, m, {})
  \/ /\ i = 1
     /\ todo = <<"dp+x_2", "ptr_lo", "ptr_hi">> \o Accesses[form.access]
     /\ Now(Past(c, 1), m, {c.pc}) /\ tmp.address2 = m[c.pc]
  \/ /\ i = 2 /\ todo = <<"ptr_lo", "ptr_hi">> \o Accesses[form.access]
     /\ Now(Past(c, 1), m, {c.pc}) /\ tmp.address2 = t
  \/ /\ i = 3 /\ todo = <<"ptr_hi">> \o Accesses[form.access]
     /\ Now(Past(c, 1), m, {c.pc, t}) /\ tmp.address = m[t]
     /\ tmp.address2 = t

PtrXTyped(c, m) ==
  LET t == PageOf(c) + Low(m[c.pc] + c.x)
      f == Wrap(t + 1)
      e == m[t] + Radix * m[f]
  IN
  /\ t \in Addr
  /\ m[t] \in Byte
  /\ f \in Addr
  /\ m[f] \in Byte
  /\ e \in Addr
  /\ m[e] \in Byte

LEMMA PtrXTypes ==
  ASSUME NEW c \in Cpu, NEW m \in Memory, form \in ModeForms, form.mode = "dpxi"
  PROVE  PtrXTyped(c, m)
<1> DEFINE t == PageOf(c) + Low(m[c.pc] + c.x)
           f == Wrap(t + 1)
           e == m[t] + Radix * m[f]
<1>1. /\ c.pc \in Addr /\ m[c.pc] \in Byte
      /\ Wrap(c.pc + 1) \in Addr /\ m[Wrap(c.pc + 1)] \in Byte
  BY Fetched
<1>2. t \in Addr
  BY <1>1, Fetched, CpuIs, Sums
<1>3. m[t] \in Byte
  BY <1>1, <1>2, Memories
<1>4. f \in Addr
  BY <1>1, <1>2, Sums
<1>5. m[f] \in Byte
  BY <1>1, <1>4, Memories
<1>6. e \in Addr
  BY <1>1, <1>2, <1>3, <1>4, <1>5, Words
<1>7. m[e] \in Byte
  BY <1>1, <1>6, Memories
<1> QED
  BY <1>2, <1>3, <1>4, <1>5, <1>6, <1>7
     DEF PtrXTyped

LEMMA PtrXGoes ==
  ASSUME NEW c \in Cpu, NEW m \in Memory, NEW i, PtrXAt(i, c, m), Block,
         form \in ModeForms, form.mode = "dpxi"
  PROVE  (\E j : PtrXAt(j, c, m)') \/ AccessAt(0, c, m)'
<1> DEFINE t == PageOf(c) + Low(m[c.pc] + c.x)
           f == Wrap(t + 1)
           e == m[t] + Radix * m[f]
<1>1. /\ c.pc \in Addr /\ m[c.pc] \in Byte
      /\ Wrap(c.pc + 1) \in Addr /\ m[Wrap(c.pc + 1)] \in Byte
  BY Fetched
<1>t. /\ t \in Addr
      /\ m[t] \in Byte
      /\ f \in Addr
      /\ m[f] \in Byte
      /\ e \in Addr
      /\ m[e] \in Byte
  BY PtrXTypes DEF PtrXTyped
<1>2. Ready /\ form.access \in DOMAIN Accesses
  BY DEF PtrXAt, Now, Ready, ModeForms
<1>a. /\ "lo2" \in ModeBlocks /\ "dp+x_2" \in ModeBlocks
      /\ "ptr_lo" \in ModeBlocks /\ "ptr_hi" \in ModeBlocks
      /\ Accesses[form.access] \in Seq(ModeBlocks)
  BY <1>2, AccessBlocks DEF ModeBlocks
<1>m. /\ EA(form.mode, c, m) = e /\ Past(c, OperandLength[form.mode]) = Past(c, 1)
      /\ ModeCells(form.mode, c, m) = {c.pc, t, f}
  BY Moves DEF EA, ModeCells, OperandLength, WordAt, Pointer, PointerX, Direct
<1>3. ASSUME i = 0 PROVE PtrXAt(1, c, m)'
  <2>1. todo = <<"lo2", "dp+x_2", "ptr_lo", "ptr_hi">> \o Accesses[form.access]
    BY <1>3 DEF PtrXAt
  <2>2. Head(todo) = "lo2" /\ Tail(todo) = <<"dp+x_2", "ptr_lo",
      "ptr_hi">> \o Accesses[form.access]
    BY <1>a, <2>1, Ahead
  <2>3. /\ After(Past(cpu, 1), ram, {cpu.pc}) /\ tmp'.address2 = ram[cpu.pc]
    BY <1>2, <2>2, Lo2Does DEF TmpIs
  <2> QED
    BY <1>1, <1>t, <1>3, <2>2, <2>3, Moves
       DEF PtrXAt, Now, After
<1>4. ASSUME i = 1 PROVE PtrXAt(2, c, m)'
  <2>1. todo = <<"dp+x_2", "ptr_lo", "ptr_hi">> \o Accesses[form.access]
    BY <1>4 DEF PtrXAt
  <2>2. Head(todo) = "dp+x_2" /\ Tail(todo) = <<"ptr_lo", "ptr_hi">> \o Accesses[form.access]
    BY <1>a, <2>1, Ahead
  <2>3. /\ After(cpu, ram, {})
        /\ tmp'.address2 = PageOf(cpu) + Low(tmp.address2 + cpu.x)
    BY <1>2, <2>2, DpX2Does DEF TmpIs
  <2> QED
    BY <1>1, <1>t, <1>4, <2>2, <2>3, Moves
       DEF PtrXAt, Now, After
<1>5. ASSUME i = 2 PROVE PtrXAt(3, c, m)'
  <2>1. todo = <<"ptr_lo", "ptr_hi">> \o Accesses[form.access]
    BY <1>5 DEF PtrXAt
  <2>2. Head(todo) = "ptr_lo" /\ Tail(todo) = <<"ptr_hi">> \o Accesses[form.access]
    BY <1>a, <2>1, Ahead
  <2>3. /\ After(cpu, ram, {tmp.address2}) /\ tmp'.address = ram[tmp.address2]
        /\ tmp'.address2 = tmp.address2
    BY <1>2, <2>2, PtrLoDoes DEF TmpIs
  <2> QED
    BY <1>1, <1>t, <1>5, <2>2, <2>3, Moves
       DEF PtrXAt, Now, After
<1>6. ASSUME i = 3 PROVE AccessAt(0, c, m)'
  <2>1. todo = <<"ptr_hi">> \o Accesses[form.access]
    BY <1>6 DEF PtrXAt
  <2>2. Head(todo) = "ptr_hi" /\ Tail(todo) = Accesses[form.access]
    BY <1>a, <2>1, Ahead
  <2>3. /\ After(cpu, ram, {Wrap(tmp.address2 + 1)})
        /\ tmp'.address = Wrap(tmp.address + Radix * ram[Wrap(tmp.address2 + 1)])
    BY <1>2, <2>2, PtrHiDoes DEF TmpIs
  <2>4. /\ todo' = Accesses[form.access] /\ form' = form
        /\ Now(Past(c, 1), m, {c.pc, t, f})' /\ tmp'.address = e
    BY <1>1, <1>t, <1>6, <2>2, <2>3, Moves, Words
       DEF PtrXAt, Now, After
  <2> HIDE DEF t, f, e
  <2> QED BY <1>m, <2>4 DEF AccessAt
<1> QED BY <1>3, <1>4, <1>5, <1>6 DEF PtrXAt

LEMMA PtrXBegins ==
  ASSUME NEW c, NEW m, (todo = Modes[form.mode] \o Accesses[form.access])',
         Now(c, m, {})', form'.mode = "dpxi"
  PROVE  PtrXAt(0, c, m)'
BY DEF PtrXAt, Modes

(* An operand at [dp]+Y. *)
PtrYAt(i, c, m) ==
  LET t == PageOf(c) + m[c.pc]
      f == Wrap(t + 1)
      u == m[t] + Radix * m[f]
      e == Wrap(u + c.y)
  IN
  \/ /\ i = 0
     /\ todo = <<"dp_2", "ptr_lo", "ptr_hi", "+y">> \o Accesses[form.access]
     /\ Now(c, m, {})
  \/ /\ i = 1 /\ todo = <<"ptr_lo", "ptr_hi", "+y">> \o Accesses[form.access]
     /\ Now(Past(c, 1), m, {c.pc}) /\ tmp.address2 = t
  \/ /\ i = 2 /\ todo = <<"ptr_hi", "+y">> \o Accesses[form.access]
     /\ Now(Past(c, 1), m, {c.pc, t}) /\ tmp.address = m[t]
     /\ tmp.address2 = t
  \/ /\ i = 3 /\ todo = <<"+y">> \o Accesses[form.access]
     /\ Now(Past(c, 1), m, {c.pc, t, f}) /\ tmp.address = u

PtrYTyped(c, m) ==
  LET t == PageOf(c) + m[c.pc]
      f == Wrap(t + 1)
      u == m[t] + Radix * m[f]
      e == Wrap(u + c.y)
  IN
  /\ t \in Addr
  /\ m[t] \in Byte
  /\ f \in Addr
  /\ m[f] \in Byte
  /\ u \in Addr
  /\ m[u] \in Byte
  /\ e \in Addr
  /\ m[e] \in Byte

LEMMA PtrYTypes ==
  ASSUME NEW c \in Cpu, NEW m \in Memory, form \in ModeForms, form.mode = "dpiy"
  PROVE  PtrYTyped(c, m)
<1> DEFINE t == PageOf(c) + m[c.pc]
           f == Wrap(t + 1)
           u == m[t] + Radix * m[f]
           e == Wrap(u + c.y)
<1>1. /\ c.pc \in Addr /\ m[c.pc] \in Byte
      /\ Wrap(c.pc + 1) \in Addr /\ m[Wrap(c.pc + 1)] \in Byte
  BY Fetched
<1>2. t \in Addr
  BY <1>1, Fetched
<1>3. m[t] \in Byte
  BY <1>1, <1>2, Memories
<1>4. f \in Addr
  BY <1>1, <1>2, Sums
<1>5. m[f] \in Byte
  BY <1>1, <1>4, Memories
<1>6. u \in Addr
  BY <1>1, <1>2, <1>3, <1>4, <1>5, Words
<1>7. m[u] \in Byte
  BY <1>1, <1>6, Memories
<1>8. e \in Addr
  BY <1>1, <1>6, CpuIs, Sums
<1>9. m[e] \in Byte
  BY <1>1, <1>8, Memories, SMTT(20)
<1> QED
  BY <1>2, <1>3, <1>4, <1>5, <1>6, <1>7, <1>8, <1>9
     DEF PtrYTyped

LEMMA PtrYGoes ==
  ASSUME NEW c \in Cpu, NEW m \in Memory, NEW i, PtrYAt(i, c, m), Block,
         form \in ModeForms, form.mode = "dpiy"
  PROVE  (\E j : PtrYAt(j, c, m)') \/ AccessAt(0, c, m)'
<1> DEFINE t == PageOf(c) + m[c.pc]
           f == Wrap(t + 1)
           u == m[t] + Radix * m[f]
           e == Wrap(u + c.y)
<1>1. /\ c.pc \in Addr /\ m[c.pc] \in Byte
      /\ Wrap(c.pc + 1) \in Addr /\ m[Wrap(c.pc + 1)] \in Byte
  BY Fetched
<1>t. /\ t \in Addr
      /\ m[t] \in Byte
      /\ f \in Addr
      /\ m[f] \in Byte
      /\ u \in Addr
      /\ m[u] \in Byte
      /\ e \in Addr
      /\ m[e] \in Byte
  BY PtrYTypes DEF PtrYTyped
<1>2. Ready /\ form.access \in DOMAIN Accesses
  BY DEF PtrYAt, Now, Ready, ModeForms
<1>a. /\ "dp_2" \in ModeBlocks /\ "ptr_lo" \in ModeBlocks
      /\ "ptr_hi" \in ModeBlocks /\ "+y" \in ModeBlocks
      /\ Accesses[form.access] \in Seq(ModeBlocks)
  BY <1>2, AccessBlocks DEF ModeBlocks
<1>m. /\ EA(form.mode, c, m) = e /\ Past(c, OperandLength[form.mode]) = Past(c, 1)
      /\ ModeCells(form.mode, c, m) = {c.pc, t, f}
  BY Moves, <1>t DEF EA, ModeCells, OperandLength, WordAt, Pointer, PointerX, Direct
<1>3. ASSUME i = 0 PROVE PtrYAt(1, c, m)'
  <2>1. todo = <<"dp_2", "ptr_lo", "ptr_hi", "+y">> \o Accesses[form.access]
    BY <1>3 DEF PtrYAt
  <2>2. Head(todo) = "dp_2" /\ Tail(todo) = <<"ptr_lo", "ptr_hi",
      "+y">> \o Accesses[form.access]
    BY <1>a, <2>1, Ahead
  <2>3. /\ After(Past(cpu, 1), ram, {cpu.pc})
        /\ tmp'.address2 = PageOf(cpu) + ram[cpu.pc]
    BY <1>2, <2>2, Dp2Does DEF TmpIs
  <2> QED
    BY <1>1, <1>t, <1>3, <2>2, <2>3, Moves
       DEF PtrYAt, Now, After
<1>4. ASSUME i = 1 PROVE PtrYAt(2, c, m)'
  <2>1. todo = <<"ptr_lo", "ptr_hi", "+y">> \o Accesses[form.access]
    BY <1>4 DEF PtrYAt
  <2>2. Head(todo) = "ptr_lo" /\ Tail(todo) = <<"ptr_hi", "+y">> \o Accesses[form.access]
    BY <1>a, <2>1, Ahead
  <2>3. /\ After(cpu, ram, {tmp.address2}) /\ tmp'.address = ram[tmp.address2]
        /\ tmp'.address2 = tmp.address2
    BY <1>2, <2>2, PtrLoDoes DEF TmpIs
  <2> QED
    BY <1>1, <1>t, <1>4, <2>2, <2>3, Moves
       DEF PtrYAt, Now, After
<1>5. ASSUME i = 2 PROVE PtrYAt(3, c, m)'
  <2>1. todo = <<"ptr_hi", "+y">> \o Accesses[form.access]
    BY <1>5 DEF PtrYAt
  <2>2. Head(todo) = "ptr_hi" /\ Tail(todo) = <<"+y">> \o Accesses[form.access]
    BY <1>a, <2>1, Ahead
  <2>3. /\ After(cpu, ram, {Wrap(tmp.address2 + 1)})
        /\ tmp'.address = Wrap(tmp.address + Radix * ram[Wrap(tmp.address2 + 1)])
    BY <1>2, <2>2, PtrHiDoes DEF TmpIs
  <2> QED
    BY <1>1, <1>t, <1>5, <2>2, <2>3, Moves, Words
       DEF PtrYAt, Now, After
<1>6. ASSUME i = 3 PROVE AccessAt(0, c, m)'
  <2>1. todo = <<"+y">> \o Accesses[form.access]
    BY <1>6 DEF PtrYAt
  <2>2. Head(todo) = "+y" /\ Tail(todo) = Accesses[form.access]
    BY <1>a, <2>1, Ahead
  <2>3. /\ After(cpu, ram, {}) /\ tmp'.address = Wrap(tmp.address + cpu.y)
    BY <1>2, <2>2, PlusYDoes DEF TmpIs
  <2>4. /\ todo' = Accesses[form.access] /\ form' = form
        /\ Now(Past(c, 1), m, {c.pc, t, f})' /\ tmp'.address = e
    BY <1>1, <1>t, <1>6, <2>2, <2>3, Moves
       DEF PtrYAt, Now, After
  <2> HIDE DEF t, f, u, e
  <2> QED BY <1>m, <2>4 DEF AccessAt
<1> QED BY <1>3, <1>4, <1>5, <1>6 DEF PtrYAt

LEMMA PtrYBegins ==
  ASSUME NEW c, NEW m, (todo = Modes[form.mode] \o Accesses[form.access])',
         Now(c, m, {})', form'.mode = "dpiy"
  PROVE  PtrYAt(0, c, m)'
BY DEF PtrYAt, Modes

-----------------------------------------------------------------------------
(* The other instructions. *)

(* Instructions on registers only, of one block. *)
ImpliedAt(i, c, m) ==
  \/ /\ i = 0 /\ todo = <<"implied">> /\ Now(c, m, {})
  \/ /\ i = 1 /\ todo = <<>>
     /\ Now(AfterImplied(form.what, c, form.reg), m, {})

ImpliedTyped(c, m) ==
  /\ AfterImplied(form.what, c, form.reg) \in Cpu

LEMMA ImpliedTypes ==
  ASSUME NEW c \in Cpu, NEW m \in Memory, form \in OtherForms, form.op = "implied"
  PROVE  ImpliedTyped(c, m)
<1>1. /\ c.pc \in Addr /\ m[c.pc] \in Byte
      /\ Wrap(c.pc + 1) \in Addr /\ m[Wrap(c.pc + 1)] \in Byte
  BY Fetched
<1>2. AfterImplied(form.what, c, form.reg) \in Cpu
  BY <1>1, StillCpuImplied DEF OtherForms
<1> QED
  BY <1>2
     DEF ImpliedTyped

LEMMA ImpliedGoes ==
  ASSUME NEW c \in Cpu, NEW m \in Memory, NEW i, ImpliedAt(i, c, m), Block,
         form \in OtherForms, form.op = "implied"
  PROVE  \E j : ImpliedAt(j, c, m)'
<1>1. /\ c.pc \in Addr /\ m[c.pc] \in Byte
      /\ Wrap(c.pc + 1) \in Addr /\ m[Wrap(c.pc + 1)] \in Byte
  BY Fetched
<1>t. /\ AfterImplied(form.what, c, form.reg) \in Cpu
  BY ImpliedTypes DEF ImpliedTyped
<1>2. Ready
  BY DEF ImpliedAt, Now, Ready, OtherForms
<1>3. ASSUME i = 0 PROVE ImpliedAt(1, c, m)'
  <2>1. todo = <<"implied">>
    BY <1>3 DEF ImpliedAt
  <2>2. Head(todo) = "implied" /\ Tail(todo) = <<>>
    BY <2>1
  <2>3. /\ After(AfterImplied(form.what, cpu, form.reg), ram, {})
    BY <1>2, <2>2, ImpliedDoes
  <2> QED
    BY <1>1, <1>t, <1>3, <2>2, <2>3, Moves
       DEF ImpliedAt, Now, After
<1>4. i # 1
  BY BlocksLeft DEF ImpliedAt
<1> QED BY <1>3, <1>4 DEF ImpliedAt

LEMMA ImpliedEnds ==
  ASSUME NEW c \in Cpu, NEW m \in Memory, NEW i, ImpliedAt(i, c, m), todo = <<>>,
         form \in OtherForms, form.op = "implied"
  PROVE  Machine(cpu, ram) = Special(form, c, m)
BY DEF ImpliedAt, Now, Special

LEMMA ImpliedBegins ==
  ASSUME NEW c, NEW m, (todo = Others[form.op])', Now(c, m, {})', form'.op = "implied"
  PROVE  ImpliedAt(0, c, m)'
BY DEF ImpliedAt, Others

(* MOV r,#imm. *)
ImmAt(i, c, m) ==
  \/ /\ i = 0 /\ todo = <<"imm">> /\ Now(c, m, {})
  \/ /\ i = 1 /\ todo = <<>>
     /\ Now(GetR(Past(c, 1), form.reg, m[c.pc]), m, {c.pc})

ImmTyped(c, m) ==
  /\ GetR(Past(c, 1), form.reg, m[c.pc]) \in Cpu

LEMMA ImmTypes ==
  ASSUME NEW c \in Cpu, NEW m \in Memory, form \in OtherForms, form.op = "imm"
  PROVE  ImmTyped(c, m)
<1>1. /\ c.pc \in Addr /\ m[c.pc] \in Byte
      /\ Wrap(c.pc + 1) \in Addr /\ m[Wrap(c.pc + 1)] \in Byte
  BY Fetched
<1>2. GetR(Past(c, 1), form.reg, m[c.pc]) \in Cpu
  BY <1>1, StillCpu, Moves DEF OtherForms
<1> QED
  BY <1>2
     DEF ImmTyped

LEMMA ImmGoes ==
  ASSUME NEW c \in Cpu, NEW m \in Memory, NEW i, ImmAt(i, c, m), Block,
         form \in OtherForms, form.op = "imm"
  PROVE  \E j : ImmAt(j, c, m)'
<1>1. /\ c.pc \in Addr /\ m[c.pc] \in Byte
      /\ Wrap(c.pc + 1) \in Addr /\ m[Wrap(c.pc + 1)] \in Byte
  BY Fetched
<1>t. /\ GetR(Past(c, 1), form.reg, m[c.pc]) \in Cpu
  BY ImmTypes DEF ImmTyped
<1>2. Ready
  BY DEF ImmAt, Now, Ready, OtherForms
<1>3. ASSUME i = 0 PROVE ImmAt(1, c, m)'
  <2>1. todo = <<"imm">>
    BY <1>3 DEF ImmAt
  <2>2. Head(todo) = "imm" /\ Tail(todo) = <<>>
    BY <2>1
  <2>3. /\ After(GetR(Past(cpu, 1), form.reg, ram[cpu.pc]), ram, {cpu.pc})
    BY <1>2, <2>2, ImmDoes
  <2> QED
    BY <1>1, <1>t, <1>3, <2>2, <2>3, Moves
       DEF ImmAt, Now, After
<1>4. i # 1
  BY BlocksLeft DEF ImmAt
<1> QED BY <1>3, <1>4 DEF ImmAt

LEMMA ImmEnds ==
  ASSUME NEW c \in Cpu, NEW m \in Memory, NEW i, ImmAt(i, c, m), todo = <<>>,
         form \in OtherForms, form.op = "imm"
  PROVE  Machine(cpu, ram) = Special(form, c, m)
BY DEF ImmAt, Now, Special

LEMMA ImmBegins ==
  ASSUME NEW c, NEW m, (todo = Others[form.op])', Now(c, m, {})', form'.op = "imm"
  PROVE  ImmAt(0, c, m)'
BY DEF ImmAt, Others

(* MOV A,(X)+. *)
LoadIncAt(i, c, m) ==
  LET e == PageOf(c) + c.x
  IN
  \/ /\ i = 0 /\ todo = <<"at_x", "load", "x++">> /\ Now(c, m, {})
  \/ /\ i = 1 /\ todo = <<"load", "x++">> /\ Now(c, m, {}) /\ tmp.address = e
  \/ /\ i = 2 /\ todo = <<"x++">> /\ Now(GetR(c, "a", m[e]), m, {e})
  \/ /\ i = 3 /\ todo = <<>>
     /\ Now(WithX(GetR(c, "a", m[e]), Low(c.x + 1)), m, {e})

LoadIncTyped(c, m) ==
  LET e == PageOf(c) + c.x
  IN
  /\ e \in Addr
  /\ m[e] \in Byte
  /\ form.reg = "a"
  /\ "a" \in Registers
  /\ GetR(c, "a", m[e]).x = c.x
  /\ GetR(c, "a", m[e]) \in Cpu
  /\ WithX(GetR(c, "a", m[e]), Low(c.x + 1)) \in Cpu

LEMMA LoadIncTypes ==
  ASSUME NEW c \in Cpu, NEW m \in Memory, form \in OtherForms, form.op = "loadinc"
  PROVE  LoadIncTyped(c, m)
<1> DEFINE e == PageOf(c) + c.x
<1>1. /\ c.pc \in Addr /\ m[c.pc] \in Byte
      /\ Wrap(c.pc + 1) \in Addr /\ m[Wrap(c.pc + 1)] \in Byte
  BY Fetched
<1>2. e \in Addr
  BY <1>1, Fetched, CpuIs
<1>3. m[e] \in Byte
  BY <1>1, <1>2, Memories
<1>4. form.reg = "a"
  BY <1>1 DEF OtherForms
<1>5. "a" \in Registers
  BY <1>1 DEF Registers
<1>6. GetR(c, "a", m[e]).x = c.x
  BY <1>1, <1>2, <1>3, <1>5, Untouched
<1>7. GetR(c, "a", m[e]) \in Cpu
  BY <1>1, <1>2, <1>3, <1>5, StillCpu
<1>8. WithX(GetR(c, "a", m[e]), Low(c.x + 1)) \in Cpu
  BY <1>1, <1>2, <1>3, <1>5, <1>7, StillCpu, CpuIs, Sums
<1> QED
  BY <1>2, <1>3, <1>4, <1>5, <1>6, <1>7, <1>8
     DEF LoadIncTyped

LEMMA LoadIncGoes ==
  ASSUME NEW c \in Cpu, NEW m \in Memory, NEW i, LoadIncAt(i, c, m), Block,
         form \in OtherForms, form.op = "loadinc"
  PROVE  \E j : LoadIncAt(j, c, m)'
<1> DEFINE e == PageOf(c) + c.x
<1>1. /\ c.pc \in Addr /\ m[c.pc] \in Byte
      /\ Wrap(c.pc + 1) \in Addr /\ m[Wrap(c.pc + 1)] \in Byte
  BY Fetched
<1>t. /\ e \in Addr
      /\ m[e] \in Byte
      /\ form.reg = "a"
      /\ "a" \in Registers
      /\ GetR(c, "a", m[e]).x = c.x
      /\ GetR(c, "a", m[e]) \in Cpu
      /\ WithX(GetR(c, "a", m[e]), Low(c.x + 1)) \in Cpu
  BY LoadIncTypes DEF LoadIncTyped
<1>2. Ready
  BY DEF LoadIncAt, Now, Ready, OtherForms
<1>3. ASSUME i = 0 PROVE LoadIncAt(1, c, m)'
  <2>1. todo = <<"at_x", "load", "x++">>
    BY <1>3 DEF LoadIncAt
  <2>2. Head(todo) = "at_x" /\ Tail(todo) = <<"load", "x++">>
    BY <2>1
  <2>3. /\ After(cpu, ram, {}) /\ tmp'.address = PageOf(cpu) + cpu.x
    BY <1>2, <2>2, IndirectXDoes DEF TmpIs
  <2> QED
    BY <1>1, <1>t, <1>3, <2>2, <2>3, Moves
       DEF LoadIncAt, Now, After
<1>4. ASSUME i = 1 PROVE LoadIncAt(2, c, m)'
  <2>1. todo = <<"load", "x++">>
    BY <1>4 DEF LoadIncAt
  <2>2. Head(todo) = "load" /\ Tail(todo) = <<"x++">>
    BY <2>1
  <2>3. /\ After(GetR(cpu, form.reg, ram[tmp.address]), ram, {tmp.address})
    BY <1>2, <2>2, LoadDoes
  <2> QED
    BY <1>1, <1>t, <1>4, <2>2, <2>3, Moves
       DEF LoadIncAt, Now, After
<1>5. ASSUME i = 2 PROVE LoadIncAt(3, c, m)'
  <2>1. todo = <<"x++">>
    BY <1>5 DEF LoadIncAt
  <2>2. Head(todo) = "x++" /\ Tail(todo) = <<>>
    BY <2>1
  <2>3. /\ After(WithX(cpu, Low(cpu.x + 1)), ram, {})
    BY <1>2, <2>2, XPlusDoes
  <2> QED
    BY <1>1, <1>t, <1>5, <2>2, <2>3, Moves
       DEF LoadIncAt, Now, After
<1>6. i # 3
  BY BlocksLeft DEF LoadIncAt
<1> QED BY <1>3, <1>4, <1>5, <1>6 DEF LoadIncAt

LEMMA LoadIncEnds ==
  ASSUME NEW c \in Cpu, NEW m \in Memory, NEW i, LoadIncAt(i, c, m), todo = <<>>,
         form \in OtherForms, form.op = "loadinc"
  PROVE  Machine(cpu, ram) = Special(form, c, m)
<1> DEFINE e == PageOf(c) + c.x
<1>1. /\ c.pc \in Addr /\ m[c.pc] \in Byte
      /\ Wrap(c.pc + 1) \in Addr /\ m[Wrap(c.pc + 1)] \in Byte
  BY Fetched
<1>t. /\ e \in Addr
      /\ m[e] \in Byte
      /\ form.reg = "a"
      /\ "a" \in Registers
      /\ GetR(c, "a", m[e]).x = c.x
      /\ GetR(c, "a", m[e]) \in Cpu
      /\ WithX(GetR(c, "a", m[e]), Low(c.x + 1)) \in Cpu
  BY LoadIncTypes DEF LoadIncTyped
<1>2. cpu = WithX(GetR(c, "a", m[e]), Low(c.x + 1)) /\ ram = m
  BY DEF LoadIncAt, Now
<1>3. Special(form, c, m) = Machine(WithX(GetR(c, "a", m[e]), Low(c.x + 1)), m)
  BY <1>t DEF Special, WithX
<1> QED BY <1>2, <1>3

LEMMA LoadIncBegins ==
  ASSUME NEW c, NEW m, (todo = Others[form.op])', Now(c, m, {})', form'.op = "loadinc"
  PROVE  LoadIncAt(0, c, m)'
BY DEF LoadIncAt, Others

(* MOV (X)+,A. *)
StoreIncAt(i, c, m) ==
  LET e == PageOf(c) + c.x
  IN
  \/ /\ i = 0 /\ todo = <<"at_x", "store", "x++">> /\ Now(c, m, {})
  \/ /\ i = 1 /\ todo = <<"store", "x++">> /\ Now(c, m, {}) /\ tmp.address = e
  \/ /\ i = 2 /\ todo = <<"x++">> /\ Now(c, Set(m, e, c.a), {e})
  \/ /\ i = 3 /\ todo = <<>>
     /\ Now(WithX(c, Low(c.x + 1)), Set(m, e, c.a), {e})

StoreIncTyped(c, m) ==
  LET e == PageOf(c) + c.x
  IN
  /\ e \in Addr
  /\ m[e] \in Byte
  /\ Set(m, e, c.a) \in Memory
  /\ form.reg = "a"
  /\ WithX(c, Low(c.x + 1)) \in Cpu

LEMMA StoreIncTypes ==
  ASSUME NEW c \in Cpu, NEW m \in Memory, form \in OtherForms, form.op = "storeinc"
  PROVE  StoreIncTyped(c, m)
<1> DEFINE e == PageOf(c) + c.x
<1>1. /\ c.pc \in Addr /\ m[c.pc] \in Byte
      /\ Wrap(c.pc + 1) \in Addr /\ m[Wrap(c.pc + 1)] \in Byte
  BY Fetched
<1>2. e \in Addr
  BY <1>1, Fetched, CpuIs
<1>3. m[e] \in Byte
  BY <1>1, <1>2, Memories
<1>4. Set(m, e, c.a) \in Memory
  BY <1>1, <1>2, Memories, CpuIs
<1>5. form.reg = "a"
  BY <1>1 DEF OtherForms
<1>6. WithX(c, Low(c.x + 1)) \in Cpu
  BY <1>1, StillCpu, CpuIs, Sums
<1> QED
  BY <1>2, <1>3, <1>4, <1>5, <1>6
     DEF StoreIncTyped

LEMMA StoreIncGoes ==
  ASSUME NEW c \in Cpu, NEW m \in Memory, NEW i, StoreIncAt(i, c, m), Block,
         form \in OtherForms, form.op = "storeinc"
  PROVE  \E j : StoreIncAt(j, c, m)'
<1> DEFINE e == PageOf(c) + c.x
<1>1. /\ c.pc \in Addr /\ m[c.pc] \in Byte
      /\ Wrap(c.pc + 1) \in Addr /\ m[Wrap(c.pc + 1)] \in Byte
  BY Fetched
<1>t. /\ e \in Addr
      /\ m[e] \in Byte
      /\ Set(m, e, c.a) \in Memory
      /\ form.reg = "a"
      /\ WithX(c, Low(c.x + 1)) \in Cpu
  BY StoreIncTypes DEF StoreIncTyped
<1>2. Ready
  BY DEF StoreIncAt, Now, Ready, OtherForms
<1>3. ASSUME i = 0 PROVE StoreIncAt(1, c, m)'
  <2>1. todo = <<"at_x", "store", "x++">>
    BY <1>3 DEF StoreIncAt
  <2>2. Head(todo) = "at_x" /\ Tail(todo) = <<"store", "x++">>
    BY <2>1
  <2>3. /\ After(cpu, ram, {}) /\ tmp'.address = PageOf(cpu) + cpu.x
    BY <1>2, <2>2, IndirectXDoes DEF TmpIs
  <2> QED
    BY <1>1, <1>t, <1>3, <2>2, <2>3, Moves
       DEF StoreIncAt, Now, After
<1>4. ASSUME i = 1 PROVE StoreIncAt(2, c, m)'
  <2>1. todo = <<"store", "x++">>
    BY <1>4 DEF StoreIncAt
  <2>2. Head(todo) = "store" /\ Tail(todo) = <<"x++">>
    BY <2>1
  <2>3. /\ After(cpu, Set(ram, tmp.address, cpu[form.reg]), {tmp.address})
    BY <1>2, <2>2, StoreDoes
  <2> QED
    BY <1>1, <1>t, <1>4, <2>2, <2>3, Moves
       DEF StoreIncAt, Now, After
<1>5. ASSUME i = 2 PROVE StoreIncAt(3, c, m)'
  <2>1. todo = <<"x++">>
    BY <1>5 DEF StoreIncAt
  <2>2. Head(todo) = "x++" /\ Tail(todo) = <<>>
    BY <2>1
  <2>3. /\ After(WithX(cpu, Low(cpu.x + 1)), ram, {})
    BY <1>2, <2>2, XPlusDoes
  <2> QED
    BY <1>1, <1>t, <1>5, <2>2, <2>3, Moves
       DEF StoreIncAt, Now, After
<1>6. i # 3
  BY BlocksLeft DEF StoreIncAt
<1> QED BY <1>3, <1>4, <1>5, <1>6 DEF StoreIncAt

LEMMA StoreIncEnds ==
  ASSUME NEW c \in Cpu, NEW m \in Memory, NEW i, StoreIncAt(i, c, m), todo = <<>>,
         form \in OtherForms, form.op = "storeinc"
  PROVE  Machine(cpu, ram) = Special(form, c, m)
<1> DEFINE e == PageOf(c) + c.x
<1>2. cpu = WithX(c, Low(c.x + 1)) /\ ram = Set(m, e, c.a)
  BY DEF StoreIncAt, Now
<1>3. Special(form, c, m) = Machine(WithX(c, Low(c.x + 1)), Set(m, e, c.a))
  BY DEF Special, WithX
<1> QED BY <1>2, <1>3

LEMMA StoreIncBegins ==
  ASSUME NEW c, NEW m, (todo = Others[form.op])', Now(c, m, {})', form'.op = "storeinc"
  PROVE  StoreIncAt(0, c, m)'
BY DEF StoreIncAt, Others

(* OR, AND, EOR, ADC and SBC dp,dp. *)
DpDpAt(i, c, m) ==
  LET s == PageOf(c) + m[c.pc]
      d == PageOf(c) + m[Wrap(c.pc + 1)]
      v == Combine(m[d], m[s])
  IN
  \/ /\ i = 0 /\ todo = <<"dp_2", "dp", "src_2", "combine", "put">>
     /\ Now(c, m, {})
  \/ /\ i = 1 /\ todo = <<"dp", "src_2", "combine", "put">>
     /\ Now(Past(c, 1), m, {c.pc}) /\ tmp.address2 = s
  \/ /\ i = 2 /\ todo = <<"src_2", "combine", "put">>
     /\ Now(Past(c, 2), m, {c.pc, Wrap(c.pc + 1)}) /\ tmp.address = d
     /\ tmp.address2 = s
  \/ /\ i = 3 /\ todo = <<"combine", "put">>
     /\ Now(Past(c, 2), m, {c.pc, Wrap(c.pc + 1), s}) /\ tmp.address = d
     /\ tmp.data2 = m[s]
  \/ /\ i = 4 /\ todo = <<"put">>
     /\ Now(GetZ(Past(c, 2), v), m, {c.pc, Wrap(c.pc + 1), s, d})
     /\ tmp.address = d /\ tmp.data = v
  \/ /\ i = 5 /\ todo = <<>>
     /\ Now(GetZ(Past(c, 2), v), Set(m, d, v), {c.pc, Wrap(c.pc + 1), s, d})

DpDpTyped(c, m) ==
  LET s == PageOf(c) + m[c.pc]
      d == PageOf(c) + m[Wrap(c.pc + 1)]
      v == Combine(m[d], m[s])
  IN
  /\ s \in Addr
  /\ m[s] \in Byte
  /\ d \in Addr
  /\ m[d] \in Byte
  /\ v \in Byte
  /\ Set(m, d, v) \in Memory
  /\ GetZ(Past(c, 2), v) \in Cpu

LEMMA DpDpTypes ==
  ASSUME NEW c \in Cpu, NEW m \in Memory, form \in OtherForms, form.op = "dpdp"
  PROVE  DpDpTyped(c, m)
<1> DEFINE s == PageOf(c) + m[c.pc]
           d == PageOf(c) + m[Wrap(c.pc + 1)]
           v == Combine(m[d], m[s])
<1>1. /\ c.pc \in Addr /\ m[c.pc] \in Byte
      /\ Wrap(c.pc + 1) \in Addr /\ m[Wrap(c.pc + 1)] \in Byte
  BY Fetched
<1>2. s \in Addr
  BY <1>1, Fetched
<1>3. m[s] \in Byte
  BY <1>1, <1>2, Memories
<1>4. d \in Addr
  BY <1>1, Fetched, Sums
<1>5. m[d] \in Byte
  BY <1>1, <1>4, Memories
<1>6. v \in Byte
  BY <1>1, <1>2, <1>3, <1>4, <1>5, Sums
<1>7. Set(m, d, v) \in Memory
  BY <1>1, <1>4, <1>6, Memories
<1>8. GetZ(Past(c, 2), v) \in Cpu
  BY <1>1, <1>6, StillCpu, Moves
<1> QED
  BY <1>2, <1>3, <1>4, <1>5, <1>6, <1>7, <1>8
     DEF DpDpTyped

LEMMA DpDpGoes ==
  ASSUME NEW c \in Cpu, NEW m \in Memory, NEW i, DpDpAt(i, c, m), Block,
         form \in OtherForms, form.op = "dpdp"
  PROVE  \E j : DpDpAt(j, c, m)'
<1> DEFINE s == PageOf(c) + m[c.pc]
           d == PageOf(c) + m[Wrap(c.pc + 1)]
           v == Combine(m[d], m[s])
<1>1. /\ c.pc \in Addr /\ m[c.pc] \in Byte
      /\ Wrap(c.pc + 1) \in Addr /\ m[Wrap(c.pc + 1)] \in Byte
  BY Fetched
<1>t. /\ s \in Addr
      /\ m[s] \in Byte
      /\ d \in Addr
      /\ m[d] \in Byte
      /\ v \in Byte
      /\ Set(m, d, v) \in Memory
      /\ GetZ(Past(c, 2), v) \in Cpu
  BY DpDpTypes DEF DpDpTyped
<1>2. Ready
  BY DEF DpDpAt, Now, Ready, OtherForms
<1>3. ASSUME i = 0 PROVE DpDpAt(1, c, m)'
  <2>1. todo = <<"dp_2", "dp", "src_2", "combine", "put">>
    BY <1>3 DEF DpDpAt
  <2>2. Head(todo) = "dp_2" /\ Tail(todo) = <<"dp", "src_2", "combine", "put">>
    BY <2>1
  <2>3. /\ After(Past(cpu, 1), ram, {cpu.pc})
        /\ tmp'.address2 = PageOf(cpu) + ram[cpu.pc]
    BY <1>2, <2>2, Dp2Does DEF TmpIs
  <2> QED
    BY <1>1, <1>t, <1>3, <2>2, <2>3, Moves
       DEF DpDpAt, Now, After
<1>4. ASSUME i = 1 PROVE DpDpAt(2, c, m)'
  <2>1. todo = <<"dp", "src_2", "combine", "put">>
    BY <1>4 DEF DpDpAt
  <2>2. Head(todo) = "dp" /\ Tail(todo) = <<"src_2", "combine", "put">>
    BY <2>1
  <2>3. /\ After(Past(cpu, 1), ram, {cpu.pc})
        /\ tmp'.address = PageOf(cpu) + ram[cpu.pc]
        /\ tmp'.address2 = tmp.address2
    BY <1>2, <2>2, DpDoes DEF TmpIs
  <2> QED
    BY <1>1, <1>t, <1>4, <2>2, <2>3, Moves
       DEF DpDpAt, Now, After
<1>5. ASSUME i = 2 PROVE DpDpAt(3, c, m)'
  <2>1. todo = <<"src_2", "combine", "put">>
    BY <1>5 DEF DpDpAt
  <2>2. Head(todo) = "src_2" /\ Tail(todo) = <<"combine", "put">>
    BY <2>1
  <2>3. /\ After(cpu, ram, {tmp.address2}) /\ tmp'.address = tmp.address
        /\ tmp'.data2 = ram[tmp.address2]
    BY <1>2, <2>2, Src2Does DEF TmpIs
  <2> QED
    BY <1>1, <1>t, <1>5, <2>2, <2>3, Moves
       DEF DpDpAt, Now, After
<1>6. ASSUME i = 3 PROVE DpDpAt(4, c, m)'
  <2>1. todo = <<"combine", "put">>
    BY <1>6 DEF DpDpAt
  <2>2. Head(todo) = "combine" /\ Tail(todo) = <<"put">>
    BY <2>1
  <2>3. /\ After(GetZ(cpu, Combine(ram[tmp.address], tmp.data2)), ram, {tmp.address})
        /\ tmp'.address = tmp.address
        /\ tmp'.data = Combine(ram[tmp.address], tmp.data2)
    BY <1>2, <2>2, CombineBlockDoes DEF TmpIs
  <2> QED
    BY <1>1, <1>t, <1>6, <2>2, <2>3, Moves
       DEF DpDpAt, Now, After
<1>7. ASSUME i = 4 PROVE DpDpAt(5, c, m)'
  <2>1. todo = <<"put">>
    BY <1>7 DEF DpDpAt
  <2>2. Head(todo) = "put" /\ Tail(todo) = <<>>
    BY <2>1
  <2>3. /\ After(cpu, Set(ram, tmp.address, tmp.data), {tmp.address})
    BY <1>2, <2>2, PutDoes
  <2> QED
    BY <1>1, <1>t, <1>7, <2>2, <2>3, Moves
       DEF DpDpAt, Now, After
<1>8. i # 5
  BY BlocksLeft DEF DpDpAt
<1> QED BY <1>3, <1>4, <1>5, <1>6, <1>7, <1>8 DEF DpDpAt

LEMMA DpDpEnds ==
  ASSUME NEW c \in Cpu, NEW m \in Memory, NEW i, DpDpAt(i, c, m), todo = <<>>,
         form \in OtherForms, form.op = "dpdp"
  PROVE  Machine(cpu, ram) = Special(form, c, m)
BY DEF DpDpAt, Now, Special

LEMMA DpDpBegins ==
  ASSUME NEW c, NEW m, (todo = Others[form.op])', Now(c, m, {})', form'.op = "dpdp"
  PROVE  DpDpAt(0, c, m)'
BY DEF DpDpAt, Others

(* CMP dp,dp. *)
CmpDpDpAt(i, c, m) ==
  LET s == PageOf(c) + m[c.pc]
      d == PageOf(c) + m[Wrap(c.pc + 1)]
  IN
  \/ /\ i = 0 /\ todo = <<"dp_2", "dp", "src_2", "compare_2">>
     /\ Now(c, m, {})
  \/ /\ i = 1 /\ todo = <<"dp", "src_2", "compare_2">>
     /\ Now(Past(c, 1), m, {c.pc}) /\ tmp.address2 = s
  \/ /\ i = 2 /\ todo = <<"src_2", "compare_2">>
     /\ Now(Past(c, 2), m, {c.pc, Wrap(c.pc + 1)}) /\ tmp.address = d
     /\ tmp.address2 = s
  \/ /\ i = 3 /\ todo = <<"compare_2">>
     /\ Now(Past(c, 2), m, {c.pc, Wrap(c.pc + 1), s}) /\ tmp.address = d
     /\ tmp.data2 = m[s]
  \/ /\ i = 4 /\ todo = <<>>
     /\ Now(Compared(Past(c, 2), m[d], m[s]), m, {c.pc, Wrap(c.pc + 1), s, d})

CmpDpDpTyped(c, m) ==
  LET s == PageOf(c) + m[c.pc]
      d == PageOf(c) + m[Wrap(c.pc + 1)]
  IN
  /\ s \in Addr
  /\ m[s] \in Byte
  /\ d \in Addr
  /\ m[d] \in Byte
  /\ Compared(Past(c, 2), m[d], m[s]) \in Cpu

LEMMA CmpDpDpTypes ==
  ASSUME NEW c \in Cpu, NEW m \in Memory, form \in OtherForms, form.op = "cmpdpdp"
  PROVE  CmpDpDpTyped(c, m)
<1> DEFINE s == PageOf(c) + m[c.pc]
           d == PageOf(c) + m[Wrap(c.pc + 1)]
<1>1. /\ c.pc \in Addr /\ m[c.pc] \in Byte
      /\ Wrap(c.pc + 1) \in Addr /\ m[Wrap(c.pc + 1)] \in Byte
  BY Fetched
<1>2. s \in Addr
  BY <1>1, Fetched
<1>3. m[s] \in Byte
  BY <1>1, <1>2, Memories
<1>4. d \in Addr
  BY <1>1, Fetched, Sums
<1>5. m[d] \in Byte
  BY <1>1, <1>4, Memories
<1>6. Compared(Past(c, 2), m[d], m[s]) \in Cpu
  BY <1>1, <1>2, <1>3, <1>4, <1>5, StillCpu, Moves
<1> QED
  BY <1>2, <1>3, <1>4, <1>5, <1>6
     DEF CmpDpDpTyped

LEMMA CmpDpDpGoes ==
  ASSUME NEW c \in Cpu, NEW m \in Memory, NEW i, CmpDpDpAt(i, c, m), Block,
         form \in OtherForms, form.op = "cmpdpdp"
  PROVE  \E j : CmpDpDpAt(j, c, m)'
<1> DEFINE s == PageOf(c) + m[c.pc]
           d == PageOf(c) + m[Wrap(c.pc + 1)]
<1>1. /\ c.pc \in Addr /\ m[c.pc] \in Byte
      /\ Wrap(c.pc + 1) \in Addr /\ m[Wrap(c.pc + 1)] \in Byte
  BY Fetched
<1>t. /\ s \in Addr
      /\ m[s] \in Byte
      /\ d \in Addr
      /\ m[d] \in Byte
      /\ Compared(Past(c, 2), m[d], m[s]) \in Cpu
  BY CmpDpDpTypes DEF CmpDpDpTyped
<1>2. Ready
  BY DEF CmpDpDpAt, Now, Ready, OtherForms
<1>3. ASSUME i = 0 PROVE CmpDpDpAt(1, c, m)'
  <2>1. todo = <<"dp_2", "dp", "src_2", "compare_2">>
    BY <1>3 DEF CmpDpDpAt
  <2>2. Head(todo) = "dp_2" /\ Tail(todo) = <<"dp", "src_2", "compare_2">>
    BY <2>1
  <2>3. /\ After(Past(cpu, 1), ram, {cpu.pc})
        /\ tmp'.address2 = PageOf(cpu) + ram[cpu.pc]
    BY <1>2, <2>2, Dp2Does DEF TmpIs
  <2> QED
    BY <1>1, <1>t, <1>3, <2>2, <2>3, Moves
       DEF CmpDpDpAt, Now, After
<1>4. ASSUME i = 1 PROVE CmpDpDpAt(2, c, m)'
  <2>1. todo = <<"dp", "src_2", "compare_2">>
    BY <1>4 DEF CmpDpDpAt
  <2>2. Head(todo) = "dp" /\ Tail(todo) = <<"src_2", "compare_2">>
    BY <2>1
  <2>3. /\ After(Past(cpu, 1), ram, {cpu.pc})
        /\ tmp'.address = PageOf(cpu) + ram[cpu.pc]
        /\ tmp'.address2 = tmp.address2
    BY <1>2, <2>2, DpDoes DEF TmpIs
  <2> QED
    BY <1>1, <1>t, <1>4, <2>2, <2>3, Moves
       DEF CmpDpDpAt, Now, After
<1>5. ASSUME i = 2 PROVE CmpDpDpAt(3, c, m)'
  <2>1. todo = <<"src_2", "compare_2">>
    BY <1>5 DEF CmpDpDpAt
  <2>2. Head(todo) = "src_2" /\ Tail(todo) = <<"compare_2">>
    BY <2>1
  <2>3. /\ After(cpu, ram, {tmp.address2}) /\ tmp'.address = tmp.address
        /\ tmp'.data2 = ram[tmp.address2]
    BY <1>2, <2>2, Src2Does DEF TmpIs
  <2> QED
    BY <1>1, <1>t, <1>5, <2>2, <2>3, Moves
       DEF CmpDpDpAt, Now, After
<1>6. ASSUME i = 3 PROVE CmpDpDpAt(4, c, m)'
  <2>1. todo = <<"compare_2">>
    BY <1>6 DEF CmpDpDpAt
  <2>2. Head(todo) = "compare_2" /\ Tail(todo) = <<>>
    BY <2>1
  <2>3. /\ After(Compared(cpu, ram[tmp.address], tmp.data2), ram, {tmp.address})
    BY <1>2, <2>2, Compare2Does
  <2> QED
    BY <1>1, <1>t, <1>6, <2>2, <2>3, Moves
       DEF CmpDpDpAt, Now, After
<1>7. i # 4
  BY BlocksLeft DEF CmpDpDpAt
<1> QED BY <1>3, <1>4, <1>5, <1>6, <1>7 DEF CmpDpDpAt

LEMMA CmpDpDpEnds ==
  ASSUME NEW c \in Cpu, NEW m \in Memory, NEW i, CmpDpDpAt(i, c, m), todo = <<>>,
         form \in OtherForms, form.op = "cmpdpdp"
  PROVE  Machine(cpu, ram) = Special(form, c, m)
BY DEF CmpDpDpAt, Now, Special

LEMMA CmpDpDpBegins ==
  ASSUME NEW c, NEW m, (todo = Others[form.op])', Now(c, m, {})', form'.op = "cmpdpdp"
  PROVE  CmpDpDpAt(0, c, m)'
BY DEF CmpDpDpAt, Others

(* MOV dp,dp. *)
MovDpDpAt(i, c, m) ==
  LET s == PageOf(c) + m[c.pc]
      d == PageOf(c) + m[Wrap(c.pc + 1)]
  IN
  \/ /\ i = 0 /\ todo = <<"dp_2", "dp", "old_2", "put">> /\ Now(c, m, {})
  \/ /\ i = 1 /\ todo = <<"dp", "old_2", "put">> /\ Now(Past(c, 1), m, {c.pc})
     /\ tmp.address2 = s
  \/ /\ i = 2 /\ todo = <<"old_2", "put">>
     /\ Now(Past(c, 2), m, {c.pc, Wrap(c.pc + 1)}) /\ tmp.address = d
     /\ tmp.address2 = s
  \/ /\ i = 3 /\ todo = <<"put">>
     /\ Now(Past(c, 2), m, {c.pc, Wrap(c.pc + 1), s}) /\ tmp.address = d
     /\ tmp.data = m[s]
  \/ /\ i = 4 /\ todo = <<>>
     /\ Now(Past(c, 2), Set(m, d, m[s]), {c.pc, Wrap(c.pc + 1), s, d})

MovDpDpTyped(c, m) ==
  LET s == PageOf(c) + m[c.pc]
      d == PageOf(c) + m[Wrap(c.pc + 1)]
  IN
  /\ s \in Addr
  /\ m[s] \in Byte
  /\ d \in Addr
  /\ m[d] \in Byte
  /\ Set(m, d, m[s]) \in Memory

LEMMA MovDpDpTypes ==
  ASSUME NEW c \in Cpu, NEW m \in Memory, form \in OtherForms, form.op = "movdpdp"
  PROVE  MovDpDpTyped(c, m)
<1> DEFINE s == PageOf(c) + m[c.pc]
           d == PageOf(c) + m[Wrap(c.pc + 1)]
<1>1. /\ c.pc \in Addr /\ m[c.pc] \in Byte
      /\ Wrap(c.pc + 1) \in Addr /\ m[Wrap(c.pc + 1)] \in Byte
  BY Fetched
<1>2. s \in Addr
  BY <1>1, Fetched
<1>3. m[s] \in Byte
  BY <1>1, <1>2, Memories
<1>4. d \in Addr
  BY <1>1, Fetched, Sums
<1>5. m[d] \in Byte
  BY <1>1, <1>4, Memories
<1>6. Set(m, d, m[s]) \in Memory
  BY <1>1, <1>2, <1>3, <1>4, Memories
<1> QED
  BY <1>2, <1>3, <1>4, <1>5, <1>6
     DEF MovDpDpTyped

LEMMA MovDpDpGoes ==
  ASSUME NEW c \in Cpu, NEW m \in Memory, NEW i, MovDpDpAt(i, c, m), Block,
         form \in OtherForms, form.op = "movdpdp"
  PROVE  \E j : MovDpDpAt(j, c, m)'
<1> DEFINE s == PageOf(c) + m[c.pc]
           d == PageOf(c) + m[Wrap(c.pc + 1)]
<1>1. /\ c.pc \in Addr /\ m[c.pc] \in Byte
      /\ Wrap(c.pc + 1) \in Addr /\ m[Wrap(c.pc + 1)] \in Byte
  BY Fetched
<1>t. /\ s \in Addr
      /\ m[s] \in Byte
      /\ d \in Addr
      /\ m[d] \in Byte
      /\ Set(m, d, m[s]) \in Memory
  BY MovDpDpTypes DEF MovDpDpTyped
<1>2. Ready
  BY DEF MovDpDpAt, Now, Ready, OtherForms
<1>3. ASSUME i = 0 PROVE MovDpDpAt(1, c, m)'
  <2>1. todo = <<"dp_2", "dp", "old_2", "put">>
    BY <1>3 DEF MovDpDpAt
  <2>2. Head(todo) = "dp_2" /\ Tail(todo) = <<"dp", "old_2", "put">>
    BY <2>1
  <2>3. /\ After(Past(cpu, 1), ram, {cpu.pc})
        /\ tmp'.address2 = PageOf(cpu) + ram[cpu.pc]
    BY <1>2, <2>2, Dp2Does DEF TmpIs
  <2> QED
    BY <1>1, <1>t, <1>3, <2>2, <2>3, Moves
       DEF MovDpDpAt, Now, After
<1>4. ASSUME i = 1 PROVE MovDpDpAt(2, c, m)'
  <2>1. todo = <<"dp", "old_2", "put">>
    BY <1>4 DEF MovDpDpAt
  <2>2. Head(todo) = "dp" /\ Tail(todo) = <<"old_2", "put">>
    BY <2>1
  <2>3. /\ After(Past(cpu, 1), ram, {cpu.pc})
        /\ tmp'.address = PageOf(cpu) + ram[cpu.pc]
        /\ tmp'.address2 = tmp.address2
    BY <1>2, <2>2, DpDoes DEF TmpIs
  <2> QED
    BY <1>1, <1>t, <1>4, <2>2, <2>3, Moves
       DEF MovDpDpAt, Now, After
<1>5. ASSUME i = 2 PROVE MovDpDpAt(3, c, m)'
  <2>1. todo = <<"old_2", "put">>
    BY <1>5 DEF MovDpDpAt
  <2>2. Head(todo) = "old_2" /\ Tail(todo) = <<"put">>
    BY <2>1
  <2>3. /\ After(cpu, ram, {tmp.address2}) /\ tmp'.address = tmp.address
        /\ tmp'.data = ram[tmp.address2]
    BY <1>2, <2>2, Old2Does DEF TmpIs
  <2> QED
    BY <1>1, <1>t, <1>5, <2>2, <2>3, Moves
       DEF MovDpDpAt, Now, After
<1>6. ASSUME i = 3 PROVE MovDpDpAt(4, c, m)'
  <2>1. todo = <<"put">>
    BY <1>6 DEF MovDpDpAt
  <2>2. Head(todo) = "put" /\ Tail(todo) = <<>>
    BY <2>1
  <2>3. /\ After(cpu, Set(ram, tmp.address, tmp.data), {tmp.address})
    BY <1>2, <2>2, PutDoes
  <2> QED
    BY <1>1, <1>t, <1>6, <2>2, <2>3, Moves
       DEF MovDpDpAt, Now, After
<1>7. i # 4
  BY BlocksLeft DEF MovDpDpAt
<1> QED BY <1>3, <1>4, <1>5, <1>6, <1>7 DEF MovDpDpAt

LEMMA MovDpDpEnds ==
  ASSUME NEW c \in Cpu, NEW m \in Memory, NEW i, MovDpDpAt(i, c, m), todo = <<>>,
         form \in OtherForms, form.op = "movdpdp"
  PROVE  Machine(cpu, ram) = Special(form, c, m)
BY DEF MovDpDpAt, Now, Special

LEMMA MovDpDpBegins ==
  ASSUME NEW c, NEW m, (todo = Others[form.op])', Now(c, m, {})', form'.op = "movdpdp"
  PROVE  MovDpDpAt(0, c, m)'
BY DEF MovDpDpAt, Others

(* OR, AND, EOR, ADC and SBC dp,#imm. *)
DpImmAt(i, c, m) ==
  LET s == m[c.pc]
      d == PageOf(c) + m[Wrap(c.pc + 1)]
      v == Combine(m[d], s)
  IN
  \/ /\ i = 0 /\ todo = <<"src_imm", "dp", "combine", "put">> /\ Now(c, m, {})
  \/ /\ i = 1 /\ todo = <<"dp", "combine", "put">>
     /\ Now(Past(c, 1), m, {c.pc}) /\ tmp.data2 = s
  \/ /\ i = 2 /\ todo = <<"combine", "put">>
     /\ Now(Past(c, 2), m, {c.pc, Wrap(c.pc + 1)}) /\ tmp.address = d
     /\ tmp.data2 = s
  \/ /\ i = 3 /\ todo = <<"put">>
     /\ Now(GetZ(Past(c, 2), v), m, {c.pc, Wrap(c.pc + 1), d})
     /\ tmp.address = d /\ tmp.data = v
  \/ /\ i = 4 /\ todo = <<>>
     /\ Now(GetZ(Past(c, 2), v), Set(m, d, v), {c.pc, Wrap(c.pc + 1), d})

DpImmTyped(c, m) ==
  LET s == m[c.pc]
      d == PageOf(c) + m[Wrap(c.pc + 1)]
      v == Combine(m[d], s)
  IN
  /\ s \in Byte
  /\ d \in Addr
  /\ m[d] \in Byte
  /\ v \in Byte
  /\ Set(m, d, v) \in Memory
  /\ GetZ(Past(c, 2), v) \in Cpu

LEMMA DpImmTypes ==
  ASSUME NEW c \in Cpu, NEW m \in Memory, form \in OtherForms, form.op = "dpimm"
  PROVE  DpImmTyped(c, m)
<1> DEFINE s == m[c.pc]
           d == PageOf(c) + m[Wrap(c.pc + 1)]
           v == Combine(m[d], s)
<1>1. /\ c.pc \in Addr /\ m[c.pc] \in Byte
      /\ Wrap(c.pc + 1) \in Addr /\ m[Wrap(c.pc + 1)] \in Byte
  BY Fetched
<1>2. s \in Byte
  BY <1>1, Fetched
<1>3. d \in Addr
  BY <1>1, Fetched, Sums
<1>4. m[d] \in Byte
  BY <1>1, <1>3, Memories
<1>5. v \in Byte
  BY <1>1, <1>2, <1>3, <1>4, Sums
<1>6. Set(m, d, v) \in Memory
  BY <1>1, <1>3, <1>5, Memories
<1>7. GetZ(Past(c, 2), v) \in Cpu
  BY <1>1, <1>5, StillCpu, Moves
<1> QED
  BY <1>2, <1>3, <1>4, <1>5, <1>6, <1>7
     DEF DpImmTyped

LEMMA DpImmGoes ==
  ASSUME NEW c \in Cpu, NEW m \in Memory, NEW i, DpImmAt(i, c, m), Block,
         form \in OtherForms, form.op = "dpimm"
  PROVE  \E j : DpImmAt(j, c, m)'
<1> DEFINE s == m[c.pc]
           d == PageOf(c) + m[Wrap(c.pc + 1)]
           v == Combine(m[d], s)
<1>1. /\ c.pc \in Addr /\ m[c.pc] \in Byte
      /\ Wrap(c.pc + 1) \in Addr /\ m[Wrap(c.pc + 1)] \in Byte
  BY Fetched
<1>t. /\ s \in Byte
      /\ d \in Addr
      /\ m[d] \in Byte
      /\ v \in Byte
      /\ Set(m, d, v) \in Memory
      /\ GetZ(Past(c, 2), v) \in Cpu
  BY DpImmTypes DEF DpImmTyped
<1>2. Ready
  BY DEF DpImmAt, Now, Ready, OtherForms
<1>3. ASSUME i = 0 PROVE DpImmAt(1, c, m)'
  <2>1. todo = <<"src_imm", "dp", "combine", "put">>
    BY <1>3 DEF DpImmAt
  <2>2. Head(todo) = "src_imm" /\ Tail(todo) = <<"dp", "combine", "put">>
    BY <2>1
  <2>3. /\ After(Past(cpu, 1), ram, {cpu.pc}) /\ tmp'.data2 = ram[cpu.pc]
    BY <1>2, <2>2, SrcImmDoes DEF TmpIs
  <2> QED
    BY <1>1, <1>t, <1>3, <2>2, <2>3, Moves
       DEF DpImmAt, Now, After
<1>4. ASSUME i = 1 PROVE DpImmAt(2, c, m)'
  <2>1. todo = <<"dp", "combine", "put">>
    BY <1>4 DEF DpImmAt
  <2>2. Head(todo) = "dp" /\ Tail(todo) = <<"combine", "put">>
    BY <2>1
  <2>3. /\ After(Past(cpu, 1), ram, {cpu.pc})
        /\ tmp'.address = PageOf(cpu) + ram[cpu.pc] /\ tmp'.data2 = tmp.data2
    BY <1>2, <2>2, DpDoes DEF TmpIs
  <2> QED
    BY <1>1, <1>t, <1>4, <2>2, <2>3, Moves
       DEF DpImmAt, Now, After
<1>5. ASSUME i = 2 PROVE DpImmAt(3, c, m)'
  <2>1. todo = <<"combine", "put">>
    BY <1>5 DEF DpImmAt
  <2>2. Head(todo) = "combine" /\ Tail(todo) = <<"put">>
    BY <2>1
  <2>3. /\ After(GetZ(cpu, Combine(ram[tmp.address], tmp.data2)), ram, {tmp.address})
        /\ tmp'.address = tmp.address
        /\ tmp'.data = Combine(ram[tmp.address], tmp.data2)
    BY <1>2, <2>2, CombineBlockDoes DEF TmpIs
  <2> QED
    BY <1>1, <1>t, <1>5, <2>2, <2>3, Moves
       DEF DpImmAt, Now, After
<1>6. ASSUME i = 3 PROVE DpImmAt(4, c, m)'
  <2>1. todo = <<"put">>
    BY <1>6 DEF DpImmAt
  <2>2. Head(todo) = "put" /\ Tail(todo) = <<>>
    BY <2>1
  <2>3. /\ After(cpu, Set(ram, tmp.address, tmp.data), {tmp.address})
    BY <1>2, <2>2, PutDoes
  <2> QED
    BY <1>1, <1>t, <1>6, <2>2, <2>3, Moves
       DEF DpImmAt, Now, After
<1>7. i # 4
  BY BlocksLeft DEF DpImmAt
<1> QED BY <1>3, <1>4, <1>5, <1>6, <1>7 DEF DpImmAt

LEMMA DpImmEnds ==
  ASSUME NEW c \in Cpu, NEW m \in Memory, NEW i, DpImmAt(i, c, m), todo = <<>>,
         form \in OtherForms, form.op = "dpimm"
  PROVE  Machine(cpu, ram) = Special(form, c, m)
BY DEF DpImmAt, Now, Special

LEMMA DpImmBegins ==
  ASSUME NEW c, NEW m, (todo = Others[form.op])', Now(c, m, {})', form'.op = "dpimm"
  PROVE  DpImmAt(0, c, m)'
BY DEF DpImmAt, Others

(* CMP dp,#imm. *)
CmpDpImmAt(i, c, m) ==
  LET s == m[c.pc]
      d == PageOf(c) + m[Wrap(c.pc + 1)]
  IN
  \/ /\ i = 0 /\ todo = <<"src_imm", "dp", "compare_2">> /\ Now(c, m, {})
  \/ /\ i = 1 /\ todo = <<"dp", "compare_2">> /\ Now(Past(c, 1), m, {c.pc})
     /\ tmp.data2 = s
  \/ /\ i = 2 /\ todo = <<"compare_2">>
     /\ Now(Past(c, 2), m, {c.pc, Wrap(c.pc + 1)}) /\ tmp.address = d
     /\ tmp.data2 = s
  \/ /\ i = 3 /\ todo = <<>>
     /\ Now(Compared(Past(c, 2), m[d], s), m, {c.pc, Wrap(c.pc + 1), d})

CmpDpImmTyped(c, m) ==
  LET s == m[c.pc]
      d == PageOf(c) + m[Wrap(c.pc + 1)]
  IN
  /\ s \in Byte
  /\ d \in Addr
  /\ m[d] \in Byte
  /\ Compared(Past(c, 2), m[d], s) \in Cpu

LEMMA CmpDpImmTypes ==
  ASSUME NEW c \in Cpu, NEW m \in Memory, form \in OtherForms, form.op = "cmpdpimm"
  PROVE  CmpDpImmTyped(c, m)
<1> DEFINE s == m[c.pc]
           d == PageOf(c) + m[Wrap(c.pc + 1)]
<1>1. /\ c.pc \in Addr /\ m[c.pc] \in Byte
      /\ Wrap(c.pc + 1) \in Addr /\ m[Wrap(c.pc + 1)] \in Byte
  BY Fetched
<1>2. s \in Byte
  BY <1>1, Fetched
<1>3. d \in Addr
  BY <1>1, Fetched, Sums
<1>4. m[d] \in Byte
  BY <1>1, <1>3, Memories
<1>5. Compared(Past(c, 2), m[d], s) \in Cpu
  BY <1>1, <1>2, <1>3, <1>4, StillCpu, Moves
<1> QED
  BY <1>2, <1>3, <1>4, <1>5
     DEF CmpDpImmTyped

LEMMA CmpDpImmGoes ==
  ASSUME NEW c \in Cpu, NEW m \in Memory, NEW i, CmpDpImmAt(i, c, m), Block,
         form \in OtherForms, form.op = "cmpdpimm"
  PROVE  \E j : CmpDpImmAt(j, c, m)'
<1> DEFINE s == m[c.pc]
           d == PageOf(c) + m[Wrap(c.pc + 1)]
<1>1. /\ c.pc \in Addr /\ m[c.pc] \in Byte
      /\ Wrap(c.pc + 1) \in Addr /\ m[Wrap(c.pc + 1)] \in Byte
  BY Fetched
<1>t. /\ s \in Byte
      /\ d \in Addr
      /\ m[d] \in Byte
      /\ Compared(Past(c, 2), m[d], s) \in Cpu
  BY CmpDpImmTypes DEF CmpDpImmTyped
<1>2. Ready
  BY DEF CmpDpImmAt, Now, Ready, OtherForms
<1>3. ASSUME i = 0 PROVE CmpDpImmAt(1, c, m)'
  <2>1. todo = <<"src_imm", "dp", "compare_2">>
    BY <1>3 DEF CmpDpImmAt
  <2>2. Head(todo) = "src_imm" /\ Tail(todo) = <<"dp", "compare_2">>
    BY <2>1
  <2>3. /\ After(Past(cpu, 1), ram, {cpu.pc}) /\ tmp'.data2 = ram[cpu.pc]
    BY <1>2, <2>2, SrcImmDoes DEF TmpIs
  <2> QED
    BY <1>1, <1>t, <1>3, <2>2, <2>3, Moves
       DEF CmpDpImmAt, Now, After
<1>4. ASSUME i = 1 PROVE CmpDpImmAt(2, c, m)'
  <2>1. todo = <<"dp", "compare_2">>
    BY <1>4 DEF CmpDpImmAt
  <2>2. Head(todo) = "dp" /\ Tail(todo) = <<"compare_2">>
    BY <2>1
  <2>3. /\ After(Past(cpu, 1), ram, {cpu.pc})
        /\ tmp'.address = PageOf(cpu) + ram[cpu.pc] /\ tmp'.data2 = tmp.data2
    BY <1>2, <2>2, DpDoes DEF TmpIs
  <2> QED
    BY <1>1, <1>t, <1>4, <2>2, <2>3, Moves
       DEF CmpDpImmAt, Now, After
<1>5. ASSUME i = 2 PROVE CmpDpImmAt(3, c, m)'
  <2>1. todo = <<"compare_2">>
    BY <1>5 DEF CmpDpImmAt
  <2>2. Head(todo) = "compare_2" /\ Tail(todo) = <<>>
    BY <2>1
  <2>3. /\ After(Compared(cpu, ram[tmp.address], tmp.data2), ram, {tmp.address})
    BY <1>2, <2>2, Compare2Does
  <2> QED
    BY <1>1, <1>t, <1>5, <2>2, <2>3, Moves
       DEF CmpDpImmAt, Now, After
<1>6. i # 3
  BY BlocksLeft DEF CmpDpImmAt
<1> QED BY <1>3, <1>4, <1>5, <1>6 DEF CmpDpImmAt

LEMMA CmpDpImmEnds ==
  ASSUME NEW c \in Cpu, NEW m \in Memory, NEW i, CmpDpImmAt(i, c, m), todo = <<>>,
         form \in OtherForms, form.op = "cmpdpimm"
  PROVE  Machine(cpu, ram) = Special(form, c, m)
BY DEF CmpDpImmAt, Now, Special

LEMMA CmpDpImmBegins ==
  ASSUME NEW c, NEW m, (todo = Others[form.op])', Now(c, m, {})', form'.op = "cmpdpimm"
  PROVE  CmpDpImmAt(0, c, m)'
BY DEF CmpDpImmAt, Others

(* MOV dp,#imm. *)
MovDpImmAt(i, c, m) ==
  LET s == m[c.pc]
      d == PageOf(c) + m[Wrap(c.pc + 1)]
  IN
  \/ /\ i = 0 /\ todo = <<"src_imm", "dp", "move", "put">> /\ Now(c, m, {})
  \/ /\ i = 1 /\ todo = <<"dp", "move", "put">> /\ Now(Past(c, 1), m, {c.pc})
     /\ tmp.data2 = s
  \/ /\ i = 2 /\ todo = <<"move", "put">>
     /\ Now(Past(c, 2), m, {c.pc, Wrap(c.pc + 1)}) /\ tmp.address = d
     /\ tmp.data2 = s
  \/ /\ i = 3 /\ todo = <<"put">>
     /\ Now(Past(c, 2), m, {c.pc, Wrap(c.pc + 1), d}) /\ tmp.address = d
     /\ tmp.data = s
  \/ /\ i = 4 /\ todo = <<>>
     /\ Now(Past(c, 2), Set(m, d, s), {c.pc, Wrap(c.pc + 1), d})

MovDpImmTyped(c, m) ==
  LET s == m[c.pc]
      d == PageOf(c) + m[Wrap(c.pc + 1)]
  IN
  /\ s \in Byte
  /\ d \in Addr
  /\ m[d] \in Byte
  /\ Set(m, d, s) \in Memory

LEMMA MovDpImmTypes ==
  ASSUME NEW c \in Cpu, NEW m \in Memory, form \in OtherForms, form.op = "movdpimm"
  PROVE  MovDpImmTyped(c, m)
<1> DEFINE s == m[c.pc]
           d == PageOf(c) + m[Wrap(c.pc + 1)]
<1>1. /\ c.pc \in Addr /\ m[c.pc] \in Byte
      /\ Wrap(c.pc + 1) \in Addr /\ m[Wrap(c.pc + 1)] \in Byte
  BY Fetched
<1>2. s \in Byte
  BY <1>1, Fetched
<1>3. d \in Addr
  BY <1>1, Fetched, Sums
<1>4. m[d] \in Byte
  BY <1>1, <1>3, Memories
<1>5. Set(m, d, s) \in Memory
  BY <1>1, <1>2, <1>3, Memories
<1> QED
  BY <1>2, <1>3, <1>4, <1>5
     DEF MovDpImmTyped

LEMMA MovDpImmGoes ==
  ASSUME NEW c \in Cpu, NEW m \in Memory, NEW i, MovDpImmAt(i, c, m), Block,
         form \in OtherForms, form.op = "movdpimm"
  PROVE  \E j : MovDpImmAt(j, c, m)'
<1> DEFINE s == m[c.pc]
           d == PageOf(c) + m[Wrap(c.pc + 1)]
<1>1. /\ c.pc \in Addr /\ m[c.pc] \in Byte
      /\ Wrap(c.pc + 1) \in Addr /\ m[Wrap(c.pc + 1)] \in Byte
  BY Fetched
<1>t. /\ s \in Byte
      /\ d \in Addr
      /\ m[d] \in Byte
      /\ Set(m, d, s) \in Memory
  BY MovDpImmTypes DEF MovDpImmTyped
<1>2. Ready
  BY DEF MovDpImmAt, Now, Ready, OtherForms
<1>3. ASSUME i = 0 PROVE MovDpImmAt(1, c, m)'
  <2>1. todo = <<"src_imm", "dp", "move", "put">>
    BY <1>3 DEF MovDpImmAt
  <2>2. Head(todo) = "src_imm" /\ Tail(todo) = <<"dp", "move", "put">>
    BY <2>1
  <2>3. /\ After(Past(cpu, 1), ram, {cpu.pc}) /\ tmp'.data2 = ram[cpu.pc]
    BY <1>2, <2>2, SrcImmDoes DEF TmpIs
  <2> QED
    BY <1>1, <1>t, <1>3, <2>2, <2>3, Moves
       DEF MovDpImmAt, Now, After
<1>4. ASSUME i = 1 PROVE MovDpImmAt(2, c, m)'
  <2>1. todo = <<"dp", "move", "put">>
    BY <1>4 DEF MovDpImmAt
  <2>2. Head(todo) = "dp" /\ Tail(todo) = <<"move", "put">>
    BY <2>1
  <2>3. /\ After(Past(cpu, 1), ram, {cpu.pc})
        /\ tmp'.address = PageOf(cpu) + ram[cpu.pc] /\ tmp'.data2 = tmp.data2
    BY <1>2, <2>2, DpDoes DEF TmpIs
  <2> QED
    BY <1>1, <1>t, <1>4, <2>2, <2>3, Moves
       DEF MovDpImmAt, Now, After
<1>5. ASSUME i = 2 PROVE MovDpImmAt(3, c, m)'
  <2>1. todo = <<"move", "put">>
    BY <1>5 DEF MovDpImmAt
  <2>2. Head(todo) = "move" /\ Tail(todo) = <<"put">>
    BY <2>1
  <2>3. /\ After(cpu, ram, {tmp.address}) /\ tmp'.address = tmp.address
        /\ tmp'.data = tmp.data2
    BY <1>2, <2>2, MoveDoes DEF TmpIs
  <2> QED
    BY <1>1, <1>t, <1>5, <2>2, <2>3, Moves
       DEF MovDpImmAt, Now, After
<1>6. ASSUME i = 3 PROVE MovDpImmAt(4, c, m)'
  <2>1. todo = <<"put">>
    BY <1>6 DEF MovDpImmAt
  <2>2. Head(todo) = "put" /\ Tail(todo) = <<>>
    BY <2>1
  <2>3. /\ After(cpu, Set(ram, tmp.address, tmp.data), {tmp.address})
    BY <1>2, <2>2, PutDoes
  <2> QED
    BY <1>1, <1>t, <1>6, <2>2, <2>3, Moves
       DEF MovDpImmAt, Now, After
<1>7. i # 4
  BY BlocksLeft DEF MovDpImmAt
<1> QED BY <1>3, <1>4, <1>5, <1>6, <1>7 DEF MovDpImmAt

LEMMA MovDpImmEnds ==
  ASSUME NEW c \in Cpu, NEW m \in Memory, NEW i, MovDpImmAt(i, c, m), todo = <<>>,
         form \in OtherForms, form.op = "movdpimm"
  PROVE  Machine(cpu, ram) = Special(form, c, m)
BY DEF MovDpImmAt, Now, Special

LEMMA MovDpImmBegins ==
  ASSUME NEW c, NEW m, (todo = Others[form.op])', Now(c, m, {})', form'.op = "movdpimm"
  PROVE  MovDpImmAt(0, c, m)'
BY DEF MovDpImmAt, Others

(* OR, AND, EOR, ADC and SBC (X),(Y). *)
XYAt(i, c, m) ==
  LET s == PageOf(c) + c.y
      d == PageOf(c) + c.x
      v == Combine(m[d], m[s])
  IN
  \/ /\ i = 0 /\ todo = <<"at_y", "src+at_x", "combine", "put">>
     /\ Now(c, m, {})
  \/ /\ i = 1 /\ todo = <<"src+at_x", "combine", "put">> /\ Now(c, m, {})
     /\ tmp.address = s
  \/ /\ i = 2 /\ todo = <<"combine", "put">> /\ Now(c, m, {s})
     /\ tmp.address = d /\ tmp.data2 = m[s]
  \/ /\ i = 3 /\ todo = <<"put">> /\ Now(GetZ(c, v), m, {s, d})
     /\ tmp.address = d /\ tmp.data = v
  \/ /\ i = 4 /\ todo = <<>> /\ Now(GetZ(c, v), Set(m, d, v), {s, d})

XYTyped(c, m) ==
  LET s == PageOf(c) + c.y
      d == PageOf(c) + c.x
      v == Combine(m[d], m[s])
  IN
  /\ s \in Addr
  /\ m[s] \in Byte
  /\ d \in Addr
  /\ m[d] \in Byte
  /\ v \in Byte
  /\ Set(m, d, v) \in Memory
  /\ GetZ(Past(c, 0), v) \in Cpu

LEMMA XYTypes ==
  ASSUME NEW c \in Cpu, NEW m \in Memory, form \in OtherForms, form.op = "xy"
  PROVE  XYTyped(c, m)
<1> DEFINE s == PageOf(c) + c.y
           d == PageOf(c) + c.x
           v == Combine(m[d], m[s])
<1>1. /\ c.pc \in Addr /\ m[c.pc] \in Byte
      /\ Wrap(c.pc + 1) \in Addr /\ m[Wrap(c.pc + 1)] \in Byte
  BY Fetched
<1>2. s \in Addr
  BY <1>1, Fetched, CpuIs
<1>3. m[s] \in Byte
  BY <1>1, <1>2, Memories
<1>4. d \in Addr
  BY <1>1, Fetched, CpuIs
<1>5. m[d] \in Byte
  BY <1>1, <1>4, Memories
<1>6. v \in Byte
  BY <1>1, <1>2, <1>3, <1>4, <1>5, Sums
<1>7. Set(m, d, v) \in Memory
  BY <1>1, <1>4, <1>6, Memories
<1>8. GetZ(Past(c, 0), v) \in Cpu
  BY <1>1, <1>6, StillCpu, Moves
<1> QED
  BY <1>2, <1>3, <1>4, <1>5, <1>6, <1>7, <1>8
     DEF XYTyped

LEMMA XYGoes ==
  ASSUME NEW c \in Cpu, NEW m \in Memory, NEW i, XYAt(i, c, m), Block,
         form \in OtherForms, form.op = "xy"
  PROVE  \E j : XYAt(j, c, m)'
<1> DEFINE s == PageOf(c) + c.y
           d == PageOf(c) + c.x
           v == Combine(m[d], m[s])
<1>1. /\ c.pc \in Addr /\ m[c.pc] \in Byte
      /\ Wrap(c.pc + 1) \in Addr /\ m[Wrap(c.pc + 1)] \in Byte
  BY Fetched
<1>t. /\ s \in Addr
      /\ m[s] \in Byte
      /\ d \in Addr
      /\ m[d] \in Byte
      /\ v \in Byte
      /\ Set(m, d, v) \in Memory
      /\ GetZ(Past(c, 0), v) \in Cpu
  BY XYTypes DEF XYTyped
<1>2. Ready
  BY DEF XYAt, Now, Ready, OtherForms
<1>3. ASSUME i = 0 PROVE XYAt(1, c, m)'
  <2>1. todo = <<"at_y", "src+at_x", "combine", "put">>
    BY <1>3 DEF XYAt
  <2>2. Head(todo) = "at_y" /\ Tail(todo) = <<"src+at_x", "combine", "put">>
    BY <2>1
  <2>3. /\ After(cpu, ram, {}) /\ tmp'.address = PageOf(cpu) + cpu.y
    BY <1>2, <2>2, IndirectYDoes DEF TmpIs
  <2> QED
    BY <1>1, <1>t, <1>3, <2>2, <2>3, Moves
       DEF XYAt, Now, After
<1>4. ASSUME i = 1 PROVE XYAt(2, c, m)'
  <2>1. todo = <<"src+at_x", "combine", "put">>
    BY <1>4 DEF XYAt
  <2>2. Head(todo) = "src+at_x" /\ Tail(todo) = <<"combine", "put">>
    BY <2>1
  <2>3. /\ After(cpu, ram, {tmp.address})
        /\ tmp'.address = PageOf(cpu) + cpu.x /\ tmp'.data2 = ram[tmp.address]
    BY <1>2, <2>2, SrcThenXDoes DEF TmpIs
  <2> QED
    BY <1>1, <1>t, <1>4, <2>2, <2>3, Moves
       DEF XYAt, Now, After
<1>5. ASSUME i = 2 PROVE XYAt(3, c, m)'
  <2>1. todo = <<"combine", "put">>
    BY <1>5 DEF XYAt
  <2>2. Head(todo) = "combine" /\ Tail(todo) = <<"put">>
    BY <2>1
  <2>3. /\ After(GetZ(cpu, Combine(ram[tmp.address], tmp.data2)), ram, {tmp.address})
        /\ tmp'.address = tmp.address
        /\ tmp'.data = Combine(ram[tmp.address], tmp.data2)
    BY <1>2, <2>2, CombineBlockDoes DEF TmpIs
  <2> QED
    BY <1>1, <1>t, <1>5, <2>2, <2>3, Moves
       DEF XYAt, Now, After
<1>6. ASSUME i = 3 PROVE XYAt(4, c, m)'
  <2>1. todo = <<"put">>
    BY <1>6 DEF XYAt
  <2>2. Head(todo) = "put" /\ Tail(todo) = <<>>
    BY <2>1
  <2>3. /\ After(cpu, Set(ram, tmp.address, tmp.data), {tmp.address})
    BY <1>2, <2>2, PutDoes
  <2> QED
    BY <1>1, <1>t, <1>6, <2>2, <2>3, Moves
       DEF XYAt, Now, After
<1>7. i # 4
  BY BlocksLeft DEF XYAt
<1> QED BY <1>3, <1>4, <1>5, <1>6, <1>7 DEF XYAt

LEMMA XYEnds ==
  ASSUME NEW c \in Cpu, NEW m \in Memory, NEW i, XYAt(i, c, m), todo = <<>>,
         form \in OtherForms, form.op = "xy"
  PROVE  Machine(cpu, ram) = Special(form, c, m)
<1> DEFINE s == PageOf(c) + c.y
           d == PageOf(c) + c.x
           v == Combine(m[d], m[s])
<1>2. cpu = GetZ(c, v) /\ ram = Set(m, d, v)
  BY DEF XYAt, Now
<1>3. Special(form, c, m) = Machine(GetZ(c, v), Set(m, d, v))
  BY Moves DEF Special
<1> QED BY <1>2, <1>3

LEMMA XYBegins ==
  ASSUME NEW c, NEW m, (todo = Others[form.op])', Now(c, m, {})', form'.op = "xy"
  PROVE  XYAt(0, c, m)'
BY DEF XYAt, Others

(* CMP (X),(Y). *)
CmpXYAt(i, c, m) ==
  LET s == PageOf(c) + c.y
      d == PageOf(c) + c.x
  IN
  \/ /\ i = 0 /\ todo = <<"at_y", "src+at_x", "compare_2">> /\ Now(c, m, {})
  \/ /\ i = 1 /\ todo = <<"src+at_x", "compare_2">> /\ Now(c, m, {})
     /\ tmp.address = s
  \/ /\ i = 2 /\ todo = <<"compare_2">> /\ Now(c, m, {s}) /\ tmp.address = d
     /\ tmp.data2 = m[s]
  \/ /\ i = 3 /\ todo = <<>> /\ Now(Compared(c, m[d], m[s]), m, {s, d})

CmpXYTyped(c, m) ==
  LET s == PageOf(c) + c.y
      d == PageOf(c) + c.x
  IN
  /\ s \in Addr
  /\ m[s] \in Byte
  /\ d \in Addr
  /\ m[d] \in Byte
  /\ Compared(c, m[d], m[s]) \in Cpu

LEMMA CmpXYTypes ==
  ASSUME NEW c \in Cpu, NEW m \in Memory, form \in OtherForms, form.op = "cmpxy"
  PROVE  CmpXYTyped(c, m)
<1> DEFINE s == PageOf(c) + c.y
           d == PageOf(c) + c.x
<1>1. /\ c.pc \in Addr /\ m[c.pc] \in Byte
      /\ Wrap(c.pc + 1) \in Addr /\ m[Wrap(c.pc + 1)] \in Byte
  BY Fetched
<1>2. s \in Addr
  BY <1>1, Fetched, CpuIs
<1>3. m[s] \in Byte
  BY <1>1, <1>2, Memories
<1>4. d \in Addr
  BY <1>1, Fetched, CpuIs
<1>5. m[d] \in Byte
  BY <1>1, <1>4, Memories
<1>6. Compared(c, m[d], m[s]) \in Cpu
  BY <1>1, <1>2, <1>3, <1>4, <1>5, StillCpu
<1> QED
  BY <1>2, <1>3, <1>4, <1>5, <1>6
     DEF CmpXYTyped

LEMMA CmpXYGoes ==
  ASSUME NEW c \in Cpu, NEW m \in Memory, NEW i, CmpXYAt(i, c, m), Block,
         form \in OtherForms, form.op = "cmpxy"
  PROVE  \E j : CmpXYAt(j, c, m)'
<1> DEFINE s == PageOf(c) + c.y
           d == PageOf(c) + c.x
<1>1. /\ c.pc \in Addr /\ m[c.pc] \in Byte
      /\ Wrap(c.pc + 1) \in Addr /\ m[Wrap(c.pc + 1)] \in Byte
  BY Fetched
<1>t. /\ s \in Addr
      /\ m[s] \in Byte
      /\ d \in Addr
      /\ m[d] \in Byte
      /\ Compared(c, m[d], m[s]) \in Cpu
  BY CmpXYTypes DEF CmpXYTyped
<1>2. Ready
  BY DEF CmpXYAt, Now, Ready, OtherForms
<1>3. ASSUME i = 0 PROVE CmpXYAt(1, c, m)'
  <2>1. todo = <<"at_y", "src+at_x", "compare_2">>
    BY <1>3 DEF CmpXYAt
  <2>2. Head(todo) = "at_y" /\ Tail(todo) = <<"src+at_x", "compare_2">>
    BY <2>1
  <2>3. /\ After(cpu, ram, {}) /\ tmp'.address = PageOf(cpu) + cpu.y
    BY <1>2, <2>2, IndirectYDoes DEF TmpIs
  <2> QED
    BY <1>1, <1>t, <1>3, <2>2, <2>3, Moves
       DEF CmpXYAt, Now, After
<1>4. ASSUME i = 1 PROVE CmpXYAt(2, c, m)'
  <2>1. todo = <<"src+at_x", "compare_2">>
    BY <1>4 DEF CmpXYAt
  <2>2. Head(todo) = "src+at_x" /\ Tail(todo) = <<"compare_2">>
    BY <2>1
  <2>3. /\ After(cpu, ram, {tmp.address})
        /\ tmp'.address = PageOf(cpu) + cpu.x /\ tmp'.data2 = ram[tmp.address]
    BY <1>2, <2>2, SrcThenXDoes DEF TmpIs
  <2> QED
    BY <1>1, <1>t, <1>4, <2>2, <2>3, Moves
       DEF CmpXYAt, Now, After
<1>5. ASSUME i = 2 PROVE CmpXYAt(3, c, m)'
  <2>1. todo = <<"compare_2">>
    BY <1>5 DEF CmpXYAt
  <2>2. Head(todo) = "compare_2" /\ Tail(todo) = <<>>
    BY <2>1
  <2>3. /\ After(Compared(cpu, ram[tmp.address], tmp.data2), ram, {tmp.address})
    BY <1>2, <2>2, Compare2Does
  <2> QED
    BY <1>1, <1>t, <1>5, <2>2, <2>3, Moves
       DEF CmpXYAt, Now, After
<1>6. i # 3
  BY BlocksLeft DEF CmpXYAt
<1> QED BY <1>3, <1>4, <1>5, <1>6 DEF CmpXYAt

LEMMA CmpXYEnds ==
  ASSUME NEW c \in Cpu, NEW m \in Memory, NEW i, CmpXYAt(i, c, m), todo = <<>>,
         form \in OtherForms, form.op = "cmpxy"
  PROVE  Machine(cpu, ram) = Special(form, c, m)
BY DEF CmpXYAt, Now, Special

LEMMA CmpXYBegins ==
  ASSUME NEW c, NEW m, (todo = Others[form.op])', Now(c, m, {})', form'.op = "cmpxy"
  PROVE  CmpXYAt(0, c, m)'
BY DEF CmpXYAt, Others

(* MOVW YA,dp. *)
LoadWordAt(i, c, m) ==
  LET e == PageOf(c) + m[c.pc]
      f == Wrap(e + 1)
      w == m[e] + Radix * m[f]
  IN
  \/ /\ i = 0 /\ todo = <<"dp", "word_lo", "word_hi", "word_load">>
     /\ Now(c, m, {})
  \/ /\ i = 1 /\ todo = <<"word_lo", "word_hi", "word_load">>
     /\ Now(Past(c, 1), m, {c.pc}) /\ tmp.address = e
  \/ /\ i = 2 /\ todo = <<"word_hi", "word_load">>
     /\ Now(Past(c, 1), m, {c.pc, e}) /\ tmp.address = e /\ tmp.data16 = m[e]
  \/ /\ i = 3 /\ todo = <<"word_load">> /\ Now(Past(c, 1), m, {c.pc, e, f})
     /\ tmp.data16 = w
  \/ /\ i = 4 /\ todo = <<>> /\ Now(WordIn(Past(c, 1), w), m, {c.pc, e, f})

LoadWordTyped(c, m) ==
  LET e == PageOf(c) + m[c.pc]
      f == Wrap(e + 1)
      w == m[e] + Radix * m[f]
  IN
  /\ e \in Addr
  /\ m[e] \in Byte
  /\ f \in Addr
  /\ m[f] \in Byte
  /\ w \in Addr
  /\ WordIn(Past(c, 1), w) \in Cpu

LEMMA LoadWordTypes ==
  ASSUME NEW c \in Cpu, NEW m \in Memory, form \in OtherForms, form.op = "word"
  PROVE  LoadWordTyped(c, m)
<1> DEFINE e == PageOf(c) + m[c.pc]
           f == Wrap(e + 1)
           w == m[e] + Radix * m[f]
<1>1. /\ c.pc \in Addr /\ m[c.pc] \in Byte
      /\ Wrap(c.pc + 1) \in Addr /\ m[Wrap(c.pc + 1)] \in Byte
  BY Fetched
<1>2. e \in Addr
  BY <1>1, Fetched
<1>3. m[e] \in Byte
  BY <1>1, <1>2, Memories
<1>4. f \in Addr
  BY <1>1, <1>2, Sums
<1>5. m[f] \in Byte
  BY <1>1, <1>4, Memories
<1>6. w \in Addr
  BY <1>1, <1>2, <1>3, <1>4, <1>5, Words
<1>7. WordIn(Past(c, 1), w) \in Cpu
  BY <1>1, <1>6, StillCpu, Moves
<1> QED
  BY <1>2, <1>3, <1>4, <1>5, <1>6, <1>7
     DEF LoadWordTyped

LEMMA LoadWordGoes ==
  ASSUME NEW c \in Cpu, NEW m \in Memory, NEW i, LoadWordAt(i, c, m), Block,
         form \in OtherForms, form.op = "word"
  PROVE  \E j : LoadWordAt(j, c, m)'
<1> DEFINE e == PageOf(c) + m[c.pc]
           f == Wrap(e + 1)
           w == m[e] + Radix * m[f]
<1>1. /\ c.pc \in Addr /\ m[c.pc] \in Byte
      /\ Wrap(c.pc + 1) \in Addr /\ m[Wrap(c.pc + 1)] \in Byte
  BY Fetched
<1>t. /\ e \in Addr
      /\ m[e] \in Byte
      /\ f \in Addr
      /\ m[f] \in Byte
      /\ w \in Addr
      /\ WordIn(Past(c, 1), w) \in Cpu
  BY LoadWordTypes DEF LoadWordTyped
<1>2. Ready
  BY DEF LoadWordAt, Now, Ready, OtherForms
<1>3. ASSUME i = 0 PROVE LoadWordAt(1, c, m)'
  <2>1. todo = <<"dp", "word_lo", "word_hi", "word_load">>
    BY <1>3 DEF LoadWordAt
  <2>2. Head(todo) = "dp" /\ Tail(todo) = <<"word_lo", "word_hi", "word_load">>
    BY <2>1
  <2>3. /\ After(Past(cpu, 1), ram, {cpu.pc})
        /\ tmp'.address = PageOf(cpu) + ram[cpu.pc]
    BY <1>2, <2>2, DpDoes DEF TmpIs
  <2> QED
    BY <1>1, <1>t, <1>3, <2>2, <2>3, Moves
       DEF LoadWordAt, Now, After
<1>4. ASSUME i = 1 PROVE LoadWordAt(2, c, m)'
  <2>1. todo = <<"word_lo", "word_hi", "word_load">>
    BY <1>4 DEF LoadWordAt
  <2>2. Head(todo) = "word_lo" /\ Tail(todo) = <<"word_hi", "word_load">>
    BY <2>1
  <2>3. /\ After(cpu, ram, {tmp.address}) /\ tmp'.address = tmp.address
        /\ tmp'.data16 = ram[tmp.address]
    BY <1>2, <2>2, WordLoDoes DEF TmpIs
  <2> QED
    BY <1>1, <1>t, <1>4, <2>2, <2>3, Moves
       DEF LoadWordAt, Now, After
<1>5. ASSUME i = 2 PROVE LoadWordAt(3, c, m)'
  <2>1. todo = <<"word_hi", "word_load">>
    BY <1>5 DEF LoadWordAt
  <2>2. Head(todo) = "word_hi" /\ Tail(todo) = <<"word_load">>
    BY <2>1
  <2>3. /\ After(cpu, ram, {Wrap(tmp.address + 1)})
        /\ tmp'.data16 = Wrap(tmp.data16 + Radix * ram[Wrap(tmp.address + 1)])
    BY <1>2, <2>2, WordHiDoes DEF TmpIs
  <2> QED
    BY <1>1, <1>t, <1>5, <2>2, <2>3, Moves, Words
       DEF LoadWordAt, Now, After
<1>6. ASSUME i = 3 PROVE LoadWordAt(4, c, m)'
  <2>1. todo = <<"word_load">>
    BY <1>6 DEF LoadWordAt
  <2>2. Head(todo) = "word_load" /\ Tail(todo) = <<>>
    BY <2>1
  <2>3. /\ After(WordIn(cpu, tmp.data16), ram, {})
    BY <1>2, <2>2, WordLoadDoes
  <2> QED
    BY <1>1, <1>t, <1>6, <2>2, <2>3, Moves
       DEF LoadWordAt, Now, After
<1>7. i # 4
  BY BlocksLeft DEF LoadWordAt
<1> QED BY <1>3, <1>4, <1>5, <1>6, <1>7 DEF LoadWordAt

LEMMA LoadWordEnds ==
  ASSUME NEW c \in Cpu, NEW m \in Memory, NEW i, LoadWordAt(i, c, m), todo = <<>>,
         form \in OtherForms, form.op = "word"
  PROVE  Machine(cpu, ram) = Special(form, c, m)
<1> DEFINE e == PageOf(c) + m[c.pc]
           f == Wrap(e + 1)
           w == m[e] + Radix * m[f]
<1>1. /\ c.pc \in Addr /\ m[c.pc] \in Byte
      /\ Wrap(c.pc + 1) \in Addr /\ m[Wrap(c.pc + 1)] \in Byte
  BY Fetched
<1>t. /\ e \in Addr
      /\ m[e] \in Byte
      /\ f \in Addr
      /\ m[f] \in Byte
      /\ w \in Addr
      /\ WordIn(Past(c, 1), w) \in Cpu
  BY LoadWordTypes DEF LoadWordTyped
<1>2. cpu = WordIn(Past(c, 1), w) /\ ram = m
  BY DEF LoadWordAt, Now
<1>3. Special(form, c, m) = Machine(WordIn(Past(c, 1), w), m)
  BY <1>t, Numbers DEF Special, WordAt, WordIn
<1> QED BY <1>2, <1>3

LEMMA LoadWordBegins ==
  ASSUME NEW c, NEW m, (todo = Others[form.op])', Now(c, m, {})', form'.op = "word"
  PROVE  LoadWordAt(0, c, m)'
BY DEF LoadWordAt, Others

(* INCW and DECW dp. *)
IncWAt(i, c, m) ==
  LET e == PageOf(c) + m[c.pc]
      f == Wrap(e + 1)
      w == m[e] + Radix * m[f]
      v == Wrap(w + 1)
  IN
  \/ /\ i = 0 /\ todo = <<"dp", "word_lo", "word_hi", "word_inc", "word_put">>
     /\ Now(c, m, {})
  \/ /\ i = 1 /\ todo = <<"word_lo", "word_hi", "word_inc", "word_put">>
     /\ Now(Past(c, 1), m, {c.pc}) /\ tmp.address = e
  \/ /\ i = 2 /\ todo = <<"word_hi", "word_inc", "word_put">>
     /\ Now(Past(c, 1), m, {c.pc, e}) /\ tmp.address = e /\ tmp.data16 = m[e]
  \/ /\ i = 3 /\ todo = <<"word_inc", "word_put">>
     /\ Now(Past(c, 1), m, {c.pc, e, f}) /\ tmp.address = e /\ tmp.data16 = w
  \/ /\ i = 4 /\ todo = <<"word_put">>
     /\ Now(GetZ(Past(c, 1), v), Set(m, e, Low(v)), {c.pc, e, f})
     /\ tmp.address = e /\ tmp.data16 = v
  \/ /\ i = 5 /\ todo = <<>>
     /\ Now(GetZ(Past(c, 1), v), Set(Set(m, e, Low(v)), f, High(v)), {c.pc, e, f})

IncWTyped(c, m) ==
  LET e == PageOf(c) + m[c.pc]
      f == Wrap(e + 1)
      w == m[e] + Radix * m[f]
      v == Wrap(w + 1)
  IN
  /\ e \in Addr
  /\ m[e] \in Byte
  /\ f \in Addr
  /\ m[f] \in Byte
  /\ w \in Addr
  /\ v \in Addr
  /\ m[v] \in Byte
  /\ Set(m, e, Low(v)) \in Memory
  /\ Set(Set(m, e, Low(v)), f, High(v)) \in Memory
  /\ GetZ(Past(c, 1), v) \in Cpu

LEMMA IncWTypes ==
  ASSUME NEW c \in Cpu, NEW m \in Memory, form \in OtherForms, form.op = "incw"
  PROVE  IncWTyped(c, m)
<1> DEFINE e == PageOf(c) + m[c.pc]
           f == Wrap(e + 1)
           w == m[e] + Radix * m[f]
           v == Wrap(w + 1)
<1>1. /\ c.pc \in Addr /\ m[c.pc] \in Byte
      /\ Wrap(c.pc + 1) \in Addr /\ m[Wrap(c.pc + 1)] \in Byte
  BY Fetched
<1>2. e \in Addr
  BY <1>1, Fetched
<1>3. m[e] \in Byte
  BY <1>1, <1>2, Memories
<1>4. f \in Addr
  BY <1>1, <1>2, Sums
<1>5. m[f] \in Byte
  BY <1>1, <1>4, Memories
<1>6. w \in Addr
  BY <1>1, <1>2, <1>3, <1>4, <1>5, Words
<1>7. v \in Addr
  BY <1>1, <1>6, Sums
<1>8. m[v] \in Byte
  BY <1>1, <1>7, Memories
<1>9. Set(m, e, Low(v)) \in Memory
  BY <1>1, <1>2, <1>7, Memories, Numbers
<1>10. Set(Set(m, e, Low(v)), f, High(v)) \in Memory
  BY <1>1, <1>2, <1>4, <1>7, <1>9, Memories, Numbers
<1>11. GetZ(Past(c, 1), v) \in Cpu
  BY <1>1, <1>7, StillCpu, Moves, SMTT(20)
<1> QED
  BY <1>2, <1>3, <1>4, <1>5, <1>6, <1>7, <1>8, <1>9, <1>10, <1>11
     DEF IncWTyped

LEMMA IncWGoes ==
  ASSUME NEW c \in Cpu, NEW m \in Memory, NEW i, IncWAt(i, c, m), Block,
         form \in OtherForms, form.op = "incw"
  PROVE  \E j : IncWAt(j, c, m)'
<1> DEFINE e == PageOf(c) + m[c.pc]
           f == Wrap(e + 1)
           w == m[e] + Radix * m[f]
           v == Wrap(w + 1)
<1>1. /\ c.pc \in Addr /\ m[c.pc] \in Byte
      /\ Wrap(c.pc + 1) \in Addr /\ m[Wrap(c.pc + 1)] \in Byte
  BY Fetched
<1>t. /\ e \in Addr
      /\ m[e] \in Byte
      /\ f \in Addr
      /\ m[f] \in Byte
      /\ w \in Addr
      /\ v \in Addr
      /\ m[v] \in Byte
      /\ Set(m, e, Low(v)) \in Memory
      /\ Set(Set(m, e, Low(v)), f, High(v)) \in Memory
      /\ GetZ(Past(c, 1), v) \in Cpu
  BY IncWTypes DEF IncWTyped
<1>2. Ready
  BY DEF IncWAt, Now, Ready, OtherForms
<1>3. ASSUME i = 0 PROVE IncWAt(1, c, m)'
  <2>1. todo = <<"dp", "word_lo", "word_hi", "word_inc", "word_put">>
    BY <1>3 DEF IncWAt
  <2>2. Head(todo) = "dp" /\ Tail(todo) = <<"word_lo", "word_hi", "word_inc", "word_put">>
    BY <2>1
  <2>3. /\ After(Past(cpu, 1), ram, {cpu.pc})
        /\ tmp'.address = PageOf(cpu) + ram[cpu.pc]
    BY <1>2, <2>2, DpDoes DEF TmpIs
  <2> QED
    BY <1>1, <1>t, <1>3, <2>2, <2>3, Moves
       DEF IncWAt, Now, After
<1>4. ASSUME i = 1 PROVE IncWAt(2, c, m)'
  <2>1. todo = <<"word_lo", "word_hi", "word_inc", "word_put">>
    BY <1>4 DEF IncWAt
  <2>2. Head(todo) = "word_lo" /\ Tail(todo) = <<"word_hi", "word_inc", "word_put">>
    BY <2>1
  <2>3. /\ After(cpu, ram, {tmp.address}) /\ tmp'.address = tmp.address
        /\ tmp'.data16 = ram[tmp.address]
    BY <1>2, <2>2, WordLoDoes DEF TmpIs
  <2> QED
    BY <1>1, <1>t, <1>4, <2>2, <2>3, Moves
       DEF IncWAt, Now, After
<1>5. ASSUME i = 2 PROVE IncWAt(3, c, m)'
  <2>1. todo = <<"word_hi", "word_inc", "word_put">>
    BY <1>5 DEF IncWAt
  <2>2. Head(todo) = "word_hi" /\ Tail(todo) = <<"word_inc", "word_put">>
    BY <2>1
  <2>3. /\ After(cpu, ram, {Wrap(tmp.address + 1)})
        /\ tmp'.address = tmp.address
        /\ tmp'.data16 = Wrap(tmp.data16 + Radix * ram[Wrap(tmp.address + 1)])
    BY <1>2, <2>2, WordHiDoes DEF TmpIs
  <2> QED
    BY <1>1, <1>t, <1>5, <2>2, <2>3, Moves, Words
       DEF IncWAt, Now, After
<1>6. ASSUME i = 3 PROVE IncWAt(4, c, m)'
  <2>1. todo = <<"word_inc", "word_put">>
    BY <1>6 DEF IncWAt
  <2>2. Head(todo) = "word_inc" /\ Tail(todo) = <<"word_put">>
    BY <2>1
  <2>3. /\ After(GetZ(cpu, Wrap(tmp.data16 + 1)), Set(ram, tmp.address,
            Low(Wrap(tmp.data16 + 1))), {tmp.address})
        /\ tmp'.address = tmp.address /\ tmp'.data16 = Wrap(tmp.data16 + 1)
    BY <1>2, <2>2, WordIncDoes, SMTT(20) DEF TmpIs
  <2> QED
    BY <1>1, <1>t, <1>6, <2>2, <2>3, Moves
       DEF IncWAt, Now, After
<1>7. ASSUME i = 4 PROVE IncWAt(5, c, m)'
  <2>1. todo = <<"word_put">>
    BY <1>7 DEF IncWAt
  <2>2. Head(todo) = "word_put" /\ Tail(todo) = <<>>
    BY <2>1
  <2>3. /\ After(cpu, Set(ram, Wrap(tmp.address + 1), High(tmp.data16)),
            {Wrap(tmp.address + 1)})
    BY <1>2, <2>2, WordPutDoes
  <2> QED
    BY <1>1, <1>t, <1>7, <2>2, <2>3, Moves
       DEF IncWAt, Now, After
<1>8. i # 5
  BY BlocksLeft DEF IncWAt
<1> QED BY <1>3, <1>4, <1>5, <1>6, <1>7, <1>8 DEF IncWAt

LEMMA IncWEnds ==
  ASSUME NEW c \in Cpu, NEW m \in Memory, NEW i, IncWAt(i, c, m), todo = <<>>,
         form \in OtherForms, form.op = "incw"
  PROVE  Machine(cpu, ram) = Special(form, c, m)
<1> DEFINE e == PageOf(c) + m[c.pc]
           f == Wrap(e + 1)
           w == m[e] + Radix * m[f]
           v == Wrap(w + 1)
<1>1. /\ c.pc \in Addr /\ m[c.pc] \in Byte
      /\ Wrap(c.pc + 1) \in Addr /\ m[Wrap(c.pc + 1)] \in Byte
  BY Fetched
<1>t. /\ e \in Addr
      /\ m[e] \in Byte
      /\ f \in Addr
      /\ m[f] \in Byte
      /\ w \in Addr
      /\ v \in Addr
      /\ m[v] \in Byte
      /\ Set(m, e, Low(v)) \in Memory
      /\ Set(Set(m, e, Low(v)), f, High(v)) \in Memory
      /\ GetZ(Past(c, 1), v) \in Cpu
  BY IncWTypes DEF IncWTyped
<1>2. cpu = GetZ(Past(c, 1), v) /\ ram = Set(Set(m, e, Low(v)), f, High(v))
  BY DEF IncWAt, Now
<1>3. Special(form, c, m) = Machine(GetZ(Past(c, 1), v), Set(Set(m, e, Low(v)), f, High(v)))
  BY <1>t, Numbers DEF Special, WordAt, SetWord
<1> QED BY <1>2, <1>3

LEMMA IncWBegins ==
  ASSUME NEW c, NEW m, (todo = Others[form.op])', Now(c, m, {})', form'.op = "incw"
  PROVE  IncWAt(0, c, m)'
BY DEF IncWAt, Others

(* MOVW dp,YA. *)
MovWAt(i, c, m) ==
  LET e == PageOf(c) + m[c.pc]
      f == Wrap(e + 1)
  IN
  \/ /\ i = 0 /\ todo = <<"dp", "read", "store", "store_y">> /\ Now(c, m, {})
  \/ /\ i = 1 /\ todo = <<"read", "store", "store_y">>
     /\ Now(Past(c, 1), m, {c.pc}) /\ tmp.address = e
  \/ /\ i = 2 /\ todo = <<"store", "store_y">>
     /\ Now(Past(c, 1), m, {c.pc, e}) /\ tmp.address = e
  \/ /\ i = 3 /\ todo = <<"store_y">>
     /\ Now(Past(c, 1), Set(m, e, c.a), {c.pc, e}) /\ tmp.address = e
  \/ /\ i = 4 /\ todo = <<>>
     /\ Now(Past(c, 1), Set(Set(m, e, c.a), f, c.y), {c.pc, e, f})

MovWTyped(c, m) ==
  LET e == PageOf(c) + m[c.pc]
      f == Wrap(e + 1)
  IN
  /\ e \in Addr
  /\ m[e] \in Byte
  /\ f \in Addr
  /\ m[f] \in Byte
  /\ Set(m, e, c.a) \in Memory
  /\ Set(Set(m, e, c.a), f, c.y) \in Memory
  /\ form.reg = "a"

LEMMA MovWTypes ==
  ASSUME NEW c \in Cpu, NEW m \in Memory, form \in OtherForms, form.op = "movw"
  PROVE  MovWTyped(c, m)
<1> DEFINE e == PageOf(c) + m[c.pc]
           f == Wrap(e + 1)
<1>1. /\ c.pc \in Addr /\ m[c.pc] \in Byte
      /\ Wrap(c.pc + 1) \in Addr /\ m[Wrap(c.pc + 1)] \in Byte
  BY Fetched
<1>2. e \in Addr
  BY <1>1, Fetched
<1>3. m[e] \in Byte
  BY <1>1, <1>2, Memories
<1>4. f \in Addr
  BY <1>1, <1>2, Sums
<1>5. m[f] \in Byte
  BY <1>1, <1>4, Memories
<1>6. Set(m, e, c.a) \in Memory
  BY <1>1, <1>2, Memories, CpuIs
<1>7. Set(Set(m, e, c.a), f, c.y) \in Memory
  BY <1>1, <1>2, <1>4, <1>6, Memories, CpuIs
<1>8. form.reg = "a"
  BY <1>1 DEF OtherForms
<1> QED
  BY <1>2, <1>3, <1>4, <1>5, <1>6, <1>7, <1>8
     DEF MovWTyped

LEMMA MovWGoes ==
  ASSUME NEW c \in Cpu, NEW m \in Memory, NEW i, MovWAt(i, c, m), Block,
         form \in OtherForms, form.op = "movw"
  PROVE  \E j : MovWAt(j, c, m)'
<1> DEFINE e == PageOf(c) + m[c.pc]
           f == Wrap(e + 1)
<1>1. /\ c.pc \in Addr /\ m[c.pc] \in Byte
      /\ Wrap(c.pc + 1) \in Addr /\ m[Wrap(c.pc + 1)] \in Byte
  BY Fetched
<1>t. /\ e \in Addr
      /\ m[e] \in Byte
      /\ f \in Addr
      /\ m[f] \in Byte
      /\ Set(m, e, c.a) \in Memory
      /\ Set(Set(m, e, c.a), f, c.y) \in Memory
      /\ form.reg = "a"
  BY MovWTypes DEF MovWTyped
<1>2. Ready
  BY DEF MovWAt, Now, Ready, OtherForms
<1>3. ASSUME i = 0 PROVE MovWAt(1, c, m)'
  <2>1. todo = <<"dp", "read", "store", "store_y">>
    BY <1>3 DEF MovWAt
  <2>2. Head(todo) = "dp" /\ Tail(todo) = <<"read", "store", "store_y">>
    BY <2>1
  <2>3. /\ After(Past(cpu, 1), ram, {cpu.pc})
        /\ tmp'.address = PageOf(cpu) + ram[cpu.pc]
    BY <1>2, <2>2, DpDoes DEF TmpIs
  <2> QED
    BY <1>1, <1>t, <1>3, <2>2, <2>3, Moves
       DEF MovWAt, Now, After
<1>4. ASSUME i = 1 PROVE MovWAt(2, c, m)'
  <2>1. todo = <<"read", "store", "store_y">>
    BY <1>4 DEF MovWAt
  <2>2. Head(todo) = "read" /\ Tail(todo) = <<"store", "store_y">>
    BY <2>1
  <2>3. /\ After(cpu, ram, {tmp.address}) /\ tmp'.address = tmp.address
    BY <1>2, <2>2, ReadDoes DEF TmpIs
  <2> QED
    BY <1>1, <1>t, <1>4, <2>2, <2>3, Moves
       DEF MovWAt, Now, After
<1>5. ASSUME i = 2 PROVE MovWAt(3, c, m)'
  <2>1. todo = <<"store", "store_y">>
    BY <1>5 DEF MovWAt
  <2>2. Head(todo) = "store" /\ Tail(todo) = <<"store_y">>
    BY <2>1
  <2>3. /\ After(cpu, Set(ram, tmp.address, cpu[form.reg]), {tmp.address})
        /\ tmp'.address = tmp.address
    BY <1>2, <2>2, StoreDoes DEF TmpIs
  <2> QED
    BY <1>1, <1>t, <1>5, <2>2, <2>3, Moves
       DEF MovWAt, Now, After
<1>6. ASSUME i = 3 PROVE MovWAt(4, c, m)'
  <2>1. todo = <<"store_y">>
    BY <1>6 DEF MovWAt
  <2>2. Head(todo) = "store_y" /\ Tail(todo) = <<>>
    BY <2>1
  <2>3. /\ After(cpu, Set(ram, Wrap(tmp.address + 1), cpu.y), {Wrap(tmp.address + 1)})
    BY <1>2, <2>2, StoreYDoes
  <2> QED
    BY <1>1, <1>t, <1>6, <2>2, <2>3, Moves
       DEF MovWAt, Now, After
<1>7. i # 4
  BY BlocksLeft DEF MovWAt
<1> QED BY <1>3, <1>4, <1>5, <1>6, <1>7 DEF MovWAt

LEMMA MovWEnds ==
  ASSUME NEW c \in Cpu, NEW m \in Memory, NEW i, MovWAt(i, c, m), todo = <<>>,
         form \in OtherForms, form.op = "movw"
  PROVE  Machine(cpu, ram) = Special(form, c, m)
<1> DEFINE e == PageOf(c) + m[c.pc]
           f == Wrap(e + 1)
<1>1. /\ c.pc \in Addr /\ m[c.pc] \in Byte
      /\ Wrap(c.pc + 1) \in Addr /\ m[Wrap(c.pc + 1)] \in Byte
  BY Fetched
<1>t. /\ e \in Addr
      /\ m[e] \in Byte
      /\ f \in Addr
      /\ m[f] \in Byte
      /\ Set(m, e, c.a) \in Memory
      /\ Set(Set(m, e, c.a), f, c.y) \in Memory
      /\ form.reg = "a"
  BY MovWTypes DEF MovWTyped
<1>2. cpu = Past(c, 1) /\ ram = Set(Set(m, e, c.a), f, c.y)
  BY DEF MovWAt, Now
<1>3. Special(form, c, m) = Machine(Past(c, 1), Set(Set(m, e, c.a), f, c.y))
  BY <1>t, Words, CpuIs DEF Special, SetWord
<1> QED BY <1>2, <1>3

LEMMA MovWBegins ==
  ASSUME NEW c, NEW m, (todo = Others[form.op])', Now(c, m, {})', form'.op = "movw"
  PROVE  MovWAt(0, c, m)'
BY DEF MovWAt, Others

(* SET1 dp.bit. *)
SetBitAt(i, c, m) ==
  LET e == PageOf(c) + m[c.pc]
      v == WithBit(m[e], form.n)
  IN
  \/ /\ i = 0 /\ todo = <<"dp", "old", "set1">> /\ Now(c, m, {})
  \/ /\ i = 1 /\ todo = <<"old", "set1">> /\ Now(Past(c, 1), m, {c.pc})
     /\ tmp.address = e
  \/ /\ i = 2 /\ todo = <<"set1">> /\ Now(Past(c, 1), m, {c.pc, e})
     /\ tmp.address = e /\ tmp.data = m[e]
  \/ /\ i = 3 /\ todo = <<>> /\ Now(Past(c, 1), Set(m, e, v), {c.pc, e})

SetBitTyped(c, m) ==
  LET e == PageOf(c) + m[c.pc]
      v == WithBit(m[e], form.n)
  IN
  /\ e \in Addr
  /\ m[e] \in Byte
  /\ v \in Byte
  /\ Set(m, e, v) \in Memory

LEMMA SetBitTypes ==
  ASSUME NEW c \in Cpu, NEW m \in Memory, form \in OtherForms, form.op = "set1"
  PROVE  SetBitTyped(c, m)
<1> DEFINE e == PageOf(c) + m[c.pc]
           v == WithBit(m[e], form.n)
<1>1. /\ c.pc \in Addr /\ m[c.pc] \in Byte
      /\ Wrap(c.pc + 1) \in Addr /\ m[Wrap(c.pc + 1)] \in Byte
  BY Fetched
<1>2. e \in Addr
  BY <1>1, Fetched
<1>3. m[e] \in Byte
  BY <1>1, <1>2, Memories
<1>4. v \in Byte
  BY <1>1, <1>2, <1>3, BitsOfBytes, RadixIs DEF OtherForms
<1>5. Set(m, e, v) \in Memory
  BY <1>1, <1>2, <1>4, Memories
<1> QED
  BY <1>2, <1>3, <1>4, <1>5
     DEF SetBitTyped

LEMMA SetBitGoes ==
  ASSUME NEW c \in Cpu, NEW m \in Memory, NEW i, SetBitAt(i, c, m), Block,
         form \in OtherForms, form.op = "set1"
  PROVE  \E j : SetBitAt(j, c, m)'
<1> DEFINE e == PageOf(c) + m[c.pc]
           v == WithBit(m[e], form.n)
<1>1. /\ c.pc \in Addr /\ m[c.pc] \in Byte
      /\ Wrap(c.pc + 1) \in Addr /\ m[Wrap(c.pc + 1)] \in Byte
  BY Fetched
<1>t. /\ e \in Addr
      /\ m[e] \in Byte
      /\ v \in Byte
      /\ Set(m, e, v) \in Memory
  BY SetBitTypes DEF SetBitTyped
<1>2. Ready
  BY DEF SetBitAt, Now, Ready, OtherForms
<1>3. ASSUME i = 0 PROVE SetBitAt(1, c, m)'
  <2>1. todo = <<"dp", "old", "set1">>
    BY <1>3 DEF SetBitAt
  <2>2. Head(todo) = "dp" /\ Tail(todo) = <<"old", "set1">>
    BY <2>1
  <2>3. /\ After(Past(cpu, 1), ram, {cpu.pc})
        /\ tmp'.address = PageOf(cpu) + ram[cpu.pc]
    BY <1>2, <2>2, DpDoes DEF TmpIs
  <2> QED
    BY <1>1, <1>t, <1>3, <2>2, <2>3, Moves
       DEF SetBitAt, Now, After
<1>4. ASSUME i = 1 PROVE SetBitAt(2, c, m)'
  <2>1. todo = <<"old", "set1">>
    BY <1>4 DEF SetBitAt
  <2>2. Head(todo) = "old" /\ Tail(todo) = <<"set1">>
    BY <2>1
  <2>3. /\ After(cpu, ram, {tmp.address}) /\ tmp'.address = tmp.address
        /\ tmp'.data = ram[tmp.address]
    BY <1>2, <2>2, OldDoes DEF TmpIs
  <2> QED
    BY <1>1, <1>t, <1>4, <2>2, <2>3, Moves
       DEF SetBitAt, Now, After
<1>5. ASSUME i = 2 PROVE SetBitAt(3, c, m)'
  <2>1. todo = <<"set1">>
    BY <1>5 DEF SetBitAt
  <2>2. Head(todo) = "set1" /\ Tail(todo) = <<>>
    BY <2>1
  <2>3. /\ After(cpu, Set(ram, tmp.address, WithBit(tmp.data, form.n)), {tmp.address})
    BY <1>2, <2>2, Set1Does
  <2> QED
    BY <1>1, <1>t, <1>5, <2>2, <2>3, Moves
       DEF SetBitAt, Now, After
<1>6. i # 3
  BY BlocksLeft DEF SetBitAt
<1> QED BY <1>3, <1>4, <1>5, <1>6 DEF SetBitAt

LEMMA SetBitEnds ==
  ASSUME NEW c \in Cpu, NEW m \in Memory, NEW i, SetBitAt(i, c, m), todo = <<>>,
         form \in OtherForms, form.op = "set1"
  PROVE  Machine(cpu, ram) = Special(form, c, m)
BY DEF SetBitAt, Now, Special

LEMMA SetBitBegins ==
  ASSUME NEW c, NEW m, (todo = Others[form.op])', Now(c, m, {})', form'.op = "set1"
  PROVE  SetBitAt(0, c, m)'
BY DEF SetBitAt, Others

(* CLR1 dp.bit. *)
ClrBitAt(i, c, m) ==
  LET e == PageOf(c) + m[c.pc]
      v == WithoutBit(m[e], form.n)
  IN
  \/ /\ i = 0 /\ todo = <<"dp", "old", "clr1">> /\ Now(c, m, {})
  \/ /\ i = 1 /\ todo = <<"old", "clr1">> /\ Now(Past(c, 1), m, {c.pc})
     /\ tmp.address = e
  \/ /\ i = 2 /\ todo = <<"clr1">> /\ Now(Past(c, 1), m, {c.pc, e})
     /\ tmp.address = e /\ tmp.data = m[e]
  \/ /\ i = 3 /\ todo = <<>> /\ Now(Past(c, 1), Set(m, e, v), {c.pc, e})

ClrBitTyped(c, m) ==
  LET e == PageOf(c) + m[c.pc]
      v == WithoutBit(m[e], form.n)
  IN
  /\ e \in Addr
  /\ m[e] \in Byte
  /\ v \in Byte
  /\ Set(m, e, v) \in Memory

LEMMA ClrBitTypes ==
  ASSUME NEW c \in Cpu, NEW m \in Memory, form \in OtherForms, form.op = "clr1"
  PROVE  ClrBitTyped(c, m)
<1> DEFINE e == PageOf(c) + m[c.pc]
           v == WithoutBit(m[e], form.n)
<1>1. /\ c.pc \in Addr /\ m[c.pc] \in Byte
      /\ Wrap(c.pc + 1) \in Addr /\ m[Wrap(c.pc + 1)] \in Byte
  BY Fetched
<1>2. e \in Addr
  BY <1>1, Fetched
<1>3. m[e] \in Byte
  BY <1>1, <1>2, Memories
<1>4. v \in Byte
  BY <1>1, <1>2, <1>3, BitsOfBytes, RadixIs DEF OtherForms
<1>5. Set(m, e, v) \in Memory
  BY <1>1, <1>2, <1>4, Memories
<1> QED
  BY <1>2, <1>3, <1>4, <1>5
     DEF ClrBitTyped

LEMMA ClrBitGoes ==
  ASSUME NEW c \in Cpu, NEW m \in Memory, NEW i, ClrBitAt(i, c, m), Block,
         form \in OtherForms, form.op = "clr1"
  PROVE  \E j : ClrBitAt(j, c, m)'
<1> DEFINE e == PageOf(c) + m[c.pc]
           v == WithoutBit(m[e], form.n)
<1>1. /\ c.pc \in Addr /\ m[c.pc] \in Byte
      /\ Wrap(c.pc + 1) \in Addr /\ m[Wrap(c.pc + 1)] \in Byte
  BY Fetched
<1>t. /\ e \in Addr
      /\ m[e] \in Byte
      /\ v \in Byte
      /\ Set(m, e, v) \in Memory
  BY ClrBitTypes DEF ClrBitTyped
<1>2. Ready
  BY DEF ClrBitAt, Now, Ready, OtherForms
<1>3. ASSUME i = 0 PROVE ClrBitAt(1, c, m)'
  <2>1. todo = <<"dp", "old", "clr1">>
    BY <1>3 DEF ClrBitAt
  <2>2. Head(todo) = "dp" /\ Tail(todo) = <<"old", "clr1">>
    BY <2>1
  <2>3. /\ After(Past(cpu, 1), ram, {cpu.pc})
        /\ tmp'.address = PageOf(cpu) + ram[cpu.pc]
    BY <1>2, <2>2, DpDoes DEF TmpIs
  <2> QED
    BY <1>1, <1>t, <1>3, <2>2, <2>3, Moves
       DEF ClrBitAt, Now, After
<1>4. ASSUME i = 1 PROVE ClrBitAt(2, c, m)'
  <2>1. todo = <<"old", "clr1">>
    BY <1>4 DEF ClrBitAt
  <2>2. Head(todo) = "old" /\ Tail(todo) = <<"clr1">>
    BY <2>1
  <2>3. /\ After(cpu, ram, {tmp.address}) /\ tmp'.address = tmp.address
        /\ tmp'.data = ram[tmp.address]
    BY <1>2, <2>2, OldDoes DEF TmpIs
  <2> QED
    BY <1>1, <1>t, <1>4, <2>2, <2>3, Moves
       DEF ClrBitAt, Now, After
<1>5. ASSUME i = 2 PROVE ClrBitAt(3, c, m)'
  <2>1. todo = <<"clr1">>
    BY <1>5 DEF ClrBitAt
  <2>2. Head(todo) = "clr1" /\ Tail(todo) = <<>>
    BY <2>1
  <2>3. /\ After(cpu, Set(ram, tmp.address, WithoutBit(tmp.data, form.n)), {tmp.address})
    BY <1>2, <2>2, Clr1Does
  <2> QED
    BY <1>1, <1>t, <1>5, <2>2, <2>3, Moves
       DEF ClrBitAt, Now, After
<1>6. i # 3
  BY BlocksLeft DEF ClrBitAt
<1> QED BY <1>3, <1>4, <1>5, <1>6 DEF ClrBitAt

LEMMA ClrBitEnds ==
  ASSUME NEW c \in Cpu, NEW m \in Memory, NEW i, ClrBitAt(i, c, m), todo = <<>>,
         form \in OtherForms, form.op = "clr1"
  PROVE  Machine(cpu, ram) = Special(form, c, m)
BY DEF ClrBitAt, Now, Special

LEMMA ClrBitBegins ==
  ASSUME NEW c, NEW m, (todo = Others[form.op])', Now(c, m, {})', form'.op = "clr1"
  PROVE  ClrBitAt(0, c, m)'
BY DEF ClrBitAt, Others

(* TSET1 !abs. *)
TestSetAt(i, c, m) ==
  LET e == m[c.pc] + Radix * m[Wrap(c.pc + 1)]
      v == BitOr(m[e], c.a)
  IN
  \/ /\ i = 0 /\ todo = <<"lo", "hi", "old", "test", "tset1">>
     /\ Now(c, m, {})
  \/ /\ i = 1 /\ todo = <<"hi", "old", "test", "tset1">>
     /\ Now(Past(c, 1), m, {c.pc}) /\ tmp.address = m[c.pc]
  \/ /\ i = 2 /\ todo = <<"old", "test", "tset1">>
     /\ Now(Past(c, 2), m, {c.pc, Wrap(c.pc + 1)}) /\ tmp.address = e
  \/ /\ i = 3 /\ todo = <<"test", "tset1">>
     /\ Now(Past(c, 2), m, {c.pc, Wrap(c.pc + 1), e}) /\ tmp.address = e
     /\ tmp.data = m[e]
  \/ /\ i = 4 /\ todo = <<"tset1">>
     /\ Now(WithZ(Past(c, 2), BitAnd(m[e], c.a) = 0), m, {c.pc, Wrap(c.pc + 1), e})
     /\ tmp.address = e /\ tmp.data = m[e]
  \/ /\ i = 5 /\ todo = <<>>
     /\ Now(WithZ(Past(c, 2), BitAnd(m[e], c.a) = 0), Set(m, e, v), {c.pc, Wrap(c.pc + 1), e})

TestSetTyped(c, m) ==
  LET e == m[c.pc] + Radix * m[Wrap(c.pc + 1)]
      v == BitOr(m[e], c.a)
  IN
  /\ e \in Addr
  /\ m[e] \in Byte
  /\ v \in Byte
  /\ Set(m, e, v) \in Memory
  /\ WithZ(Past(c, 2), BitAnd(m[e], c.a) = 0).a = c.a
  /\ WithZ(Past(c, 2), BitAnd(m[e], c.a) = 0) \in Cpu

LEMMA TestSetTypes ==
  ASSUME NEW c \in Cpu, NEW m \in Memory, form \in OtherForms, form.op = "tset1"
  PROVE  TestSetTyped(c, m)
<1> DEFINE e == m[c.pc] + Radix * m[Wrap(c.pc + 1)]
           v == BitOr(m[e], c.a)
<1>1. /\ c.pc \in Addr /\ m[c.pc] \in Byte
      /\ Wrap(c.pc + 1) \in Addr /\ m[Wrap(c.pc + 1)] \in Byte
  BY Fetched
<1>2. e \in Addr
  BY <1>1, Fetched, Sums, Words
<1>3. m[e] \in Byte
  BY <1>1, <1>2, Memories
<1>4. v \in Byte
  BY <1>1, <1>2, <1>3, CpuIs, BitsTogether
<1>5. Set(m, e, v) \in Memory
  BY <1>1, <1>2, <1>4, Memories
<1>6. WithZ(Past(c, 2), BitAnd(m[e], c.a) = 0).a = c.a
  BY <1>1, <1>2, <1>3, Moves, ZenonT(20) DEF WithZ, Past, Cpu
<1>7. WithZ(Past(c, 2), BitAnd(m[e], c.a) = 0) \in Cpu
  BY <1>1, <1>2, <1>3, <1>6, Moves, ZenonT(20) DEF WithZ, Past, Cpu
<1> QED
  BY <1>2, <1>3, <1>4, <1>5, <1>6, <1>7
     DEF TestSetTyped

LEMMA TestSetGoes ==
  ASSUME NEW c \in Cpu, NEW m \in Memory, NEW i, TestSetAt(i, c, m), Block,
         form \in OtherForms, form.op = "tset1"
  PROVE  \E j : TestSetAt(j, c, m)'
<1> DEFINE e == m[c.pc] + Radix * m[Wrap(c.pc + 1)]
           v == BitOr(m[e], c.a)
<1>1. /\ c.pc \in Addr /\ m[c.pc] \in Byte
      /\ Wrap(c.pc + 1) \in Addr /\ m[Wrap(c.pc + 1)] \in Byte
  BY Fetched
<1>t. /\ e \in Addr
      /\ m[e] \in Byte
      /\ v \in Byte
      /\ Set(m, e, v) \in Memory
      /\ WithZ(Past(c, 2), BitAnd(m[e], c.a) = 0).a = c.a
      /\ WithZ(Past(c, 2), BitAnd(m[e], c.a) = 0) \in Cpu
  BY TestSetTypes DEF TestSetTyped
<1>2. Ready
  BY DEF TestSetAt, Now, Ready, OtherForms
<1>3. ASSUME i = 0 PROVE TestSetAt(1, c, m)'
  <2>1. todo = <<"lo", "hi", "old", "test", "tset1">>
    BY <1>3 DEF TestSetAt
  <2>2. Head(todo) = "lo" /\ Tail(todo) = <<"hi", "old", "test", "tset1">>
    BY <2>1
  <2>3. /\ After(Past(cpu, 1), ram, {cpu.pc}) /\ tmp'.address = ram[cpu.pc]
    BY <1>2, <2>2, LoDoes DEF TmpIs
  <2> QED
    BY <1>1, <1>t, <1>3, <2>2, <2>3, Moves
       DEF TestSetAt, Now, After
<1>4. ASSUME i = 1 PROVE TestSetAt(2, c, m)'
  <2>1. todo = <<"hi", "old", "test", "tset1">>
    BY <1>4 DEF TestSetAt
  <2>2. Head(todo) = "hi" /\ Tail(todo) = <<"old", "test", "tset1">>
    BY <2>1
  <2>3. /\ After(Past(cpu, 1), ram, {cpu.pc})
        /\ tmp'.address = Wrap(tmp.address + Radix * ram[cpu.pc])
    BY <1>2, <2>2, HiDoes DEF TmpIs
  <2> QED
    BY <1>1, <1>t, <1>4, <2>2, <2>3, Moves, Words
       DEF TestSetAt, Now, After
<1>5. ASSUME i = 2 PROVE TestSetAt(3, c, m)'
  <2>1. todo = <<"old", "test", "tset1">>
    BY <1>5 DEF TestSetAt
  <2>2. Head(todo) = "old" /\ Tail(todo) = <<"test", "tset1">>
    BY <2>1
  <2>3. /\ After(cpu, ram, {tmp.address}) /\ tmp'.address = tmp.address
        /\ tmp'.data = ram[tmp.address]
    BY <1>2, <2>2, OldDoes DEF TmpIs
  <2> QED
    BY <1>1, <1>t, <1>5, <2>2, <2>3, Moves
       DEF TestSetAt, Now, After
<1>6. ASSUME i = 3 PROVE TestSetAt(4, c, m)'
  <2>1. todo = <<"test", "tset1">>
    BY <1>6 DEF TestSetAt
  <2>2. Head(todo) = "test" /\ Tail(todo) = <<"tset1">>
    BY <2>1
  <2>3. /\ After(WithZ(cpu, BitAnd(tmp.data, cpu.a) = 0), ram, {})
        /\ tmp'.address = tmp.address /\ tmp'.data = tmp.data
    BY <1>2, <2>2, TestDoes DEF TmpIs
  <2> QED
    BY <1>1, <1>t, <1>6, <2>2, <2>3, Moves
       DEF TestSetAt, Now, After
<1>7. ASSUME i = 4 PROVE TestSetAt(5, c, m)'
  <2>1. todo = <<"tset1">>
    BY <1>7 DEF TestSetAt
  <2>2. Head(todo) = "tset1" /\ Tail(todo) = <<>>
    BY <2>1
  <2>3. /\ After(cpu, Set(ram, tmp.address, BitOr(tmp.data, cpu.a)), {tmp.address})
    BY <1>2, <2>2, Tset1Does
  <2> QED
    BY <1>1, <1>t, <1>7, <2>2, <2>3, Moves
       DEF TestSetAt, Now, After
<1>8. i # 5
  BY BlocksLeft DEF TestSetAt
<1> QED BY <1>3, <1>4, <1>5, <1>6, <1>7, <1>8 DEF TestSetAt

LEMMA TestSetEnds ==
  ASSUME NEW c \in Cpu, NEW m \in Memory, NEW i, TestSetAt(i, c, m), todo = <<>>,
         form \in OtherForms, form.op = "tset1"
  PROVE  Machine(cpu, ram) = Special(form, c, m)
<1> DEFINE e == m[c.pc] + Radix * m[Wrap(c.pc + 1)]
           v == BitOr(m[e], c.a)
<1>2. cpu = WithZ(Past(c, 2), BitAnd(m[e], c.a) = 0) /\ ram = Set(m, e, v)
  BY DEF TestSetAt, Now
<1>3. Special(form, c, m) = Machine(WithZ(Past(c, 2), BitAnd(m[e], c.a) = 0), Set(m, e, v))
  BY DEF Special, WordAt, WithZ
<1> QED BY <1>2, <1>3

LEMMA TestSetBegins ==
  ASSUME NEW c, NEW m, (todo = Others[form.op])', Now(c, m, {})', form'.op = "tset1"
  PROVE  TestSetAt(0, c, m)'
BY DEF TestSetAt, Others

(* TCLR1 !abs. *)
TestClrAt(i, c, m) ==
  LET e == m[c.pc] + Radix * m[Wrap(c.pc + 1)]
      v == m[e] - BitAnd(m[e], c.a)
  IN
  \/ /\ i = 0 /\ todo = <<"lo", "hi", "old", "test", "tclr1">>
     /\ Now(c, m, {})
  \/ /\ i = 1 /\ todo = <<"hi", "old", "test", "tclr1">>
     /\ Now(Past(c, 1), m, {c.pc}) /\ tmp.address = m[c.pc]
  \/ /\ i = 2 /\ todo = <<"old", "test", "tclr1">>
     /\ Now(Past(c, 2), m, {c.pc, Wrap(c.pc + 1)}) /\ tmp.address = e
  \/ /\ i = 3 /\ todo = <<"test", "tclr1">>
     /\ Now(Past(c, 2), m, {c.pc, Wrap(c.pc + 1), e}) /\ tmp.address = e
     /\ tmp.data = m[e]
  \/ /\ i = 4 /\ todo = <<"tclr1">>
     /\ Now(WithZ(Past(c, 2), BitAnd(m[e], c.a) = 0), m, {c.pc, Wrap(c.pc + 1), e})
     /\ tmp.address = e /\ tmp.data = m[e]
  \/ /\ i = 5 /\ todo = <<>>
     /\ Now(WithZ(Past(c, 2), BitAnd(m[e], c.a) = 0), Set(m, e, v), {c.pc, Wrap(c.pc + 1), e})

TestClrTyped(c, m) ==
  LET e == m[c.pc] + Radix * m[Wrap(c.pc + 1)]
      v == m[e] - BitAnd(m[e], c.a)
  IN
  /\ e \in Addr
  /\ m[e] \in Byte
  /\ v \in Byte
  /\ Set(m, e, v) \in Memory
  /\ WithZ(Past(c, 2), BitAnd(m[e], c.a) = 0).a = c.a
  /\ WithZ(Past(c, 2), BitAnd(m[e], c.a) = 0) \in Cpu

LEMMA TestClrTypes ==
  ASSUME NEW c \in Cpu, NEW m \in Memory, form \in OtherForms, form.op = "tclr1"
  PROVE  TestClrTyped(c, m)
<1> DEFINE e == m[c.pc] + Radix * m[Wrap(c.pc + 1)]
           v == m[e] - BitAnd(m[e], c.a)
<1>1. /\ c.pc \in Addr /\ m[c.pc] \in Byte
      /\ Wrap(c.pc + 1) \in Addr /\ m[Wrap(c.pc + 1)] \in Byte
  BY Fetched
<1>2. e \in Addr
  BY <1>1, Fetched, Sums, Words
<1>3. m[e] \in Byte
  BY <1>1, <1>2, Memories
<1>4. v \in Byte
  BY <1>1, <1>2, <1>3, CpuIs, BitsTogether
<1>5. Set(m, e, v) \in Memory
  BY <1>1, <1>2, <1>4, Memories
<1>6. WithZ(Past(c, 2), BitAnd(m[e], c.a) = 0).a = c.a
  BY <1>1, <1>2, <1>3, Moves, ZenonT(20) DEF WithZ, Past, Cpu
<1>7. WithZ(Past(c, 2), BitAnd(m[e], c.a) = 0) \in Cpu
  BY <1>1, <1>2, <1>3, <1>6, Moves, ZenonT(20) DEF WithZ, Past, Cpu
<1> QED
  BY <1>2, <1>3, <1>4, <1>5, <1>6, <1>7
     DEF TestClrTyped

LEMMA TestClrGoes ==
  ASSUME NEW c \in Cpu, NEW m \in Memory, NEW i, TestClrAt(i, c, m), Block,
         form \in OtherForms, form.op = "tclr1"
  PROVE  \E j : TestClrAt(j, c, m)'
<1> DEFINE e == m[c.pc] + Radix * m[Wrap(c.pc + 1)]
           v == m[e] - BitAnd(m[e], c.a)
<1>1. /\ c.pc \in Addr /\ m[c.pc] \in Byte
      /\ Wrap(c.pc + 1) \in Addr /\ m[Wrap(c.pc + 1)] \in Byte
  BY Fetched
<1>t. /\ e \in Addr
      /\ m[e] \in Byte
      /\ v \in Byte
      /\ Set(m, e, v) \in Memory
      /\ WithZ(Past(c, 2), BitAnd(m[e], c.a) = 0).a = c.a
      /\ WithZ(Past(c, 2), BitAnd(m[e], c.a) = 0) \in Cpu
  BY TestClrTypes DEF TestClrTyped
<1>2. Ready
  BY DEF TestClrAt, Now, Ready, OtherForms
<1>3. ASSUME i = 0 PROVE TestClrAt(1, c, m)'
  <2>1. todo = <<"lo", "hi", "old", "test", "tclr1">>
    BY <1>3 DEF TestClrAt
  <2>2. Head(todo) = "lo" /\ Tail(todo) = <<"hi", "old", "test", "tclr1">>
    BY <2>1
  <2>3. /\ After(Past(cpu, 1), ram, {cpu.pc}) /\ tmp'.address = ram[cpu.pc]
    BY <1>2, <2>2, LoDoes DEF TmpIs
  <2> QED
    BY <1>1, <1>t, <1>3, <2>2, <2>3, Moves
       DEF TestClrAt, Now, After
<1>4. ASSUME i = 1 PROVE TestClrAt(2, c, m)'
  <2>1. todo = <<"hi", "old", "test", "tclr1">>
    BY <1>4 DEF TestClrAt
  <2>2. Head(todo) = "hi" /\ Tail(todo) = <<"old", "test", "tclr1">>
    BY <2>1
  <2>3. /\ After(Past(cpu, 1), ram, {cpu.pc})
        /\ tmp'.address = Wrap(tmp.address + Radix * ram[cpu.pc])
    BY <1>2, <2>2, HiDoes DEF TmpIs
  <2> QED
    BY <1>1, <1>t, <1>4, <2>2, <2>3, Moves, Words
       DEF TestClrAt, Now, After
<1>5. ASSUME i = 2 PROVE TestClrAt(3, c, m)'
  <2>1. todo = <<"old", "test", "tclr1">>
    BY <1>5 DEF TestClrAt
  <2>2. Head(todo) = "old" /\ Tail(todo) = <<"test", "tclr1">>
    BY <2>1
  <2>3. /\ After(cpu, ram, {tmp.address}) /\ tmp'.address = tmp.address
        /\ tmp'.data = ram[tmp.address]
    BY <1>2, <2>2, OldDoes DEF TmpIs
  <2> QED
    BY <1>1, <1>t, <1>5, <2>2, <2>3, Moves
       DEF TestClrAt, Now, After
<1>6. ASSUME i = 3 PROVE TestClrAt(4, c, m)'
  <2>1. todo = <<"test", "tclr1">>
    BY <1>6 DEF TestClrAt
  <2>2. Head(todo) = "test" /\ Tail(todo) = <<"tclr1">>
    BY <2>1
  <2>3. /\ After(WithZ(cpu, BitAnd(tmp.data, cpu.a) = 0), ram, {})
        /\ tmp'.address = tmp.address /\ tmp'.data = tmp.data
    BY <1>2, <2>2, TestDoes, SMTT(20) DEF TmpIs
  <2> QED
    BY <1>1, <1>t, <1>6, <2>2, <2>3, Moves
       DEF TestClrAt, Now, After
<1>7. ASSUME i = 4 PROVE TestClrAt(5, c, m)'
  <2>1. todo = <<"tclr1">>
    BY <1>7 DEF TestClrAt
  <2>2. Head(todo) = "tclr1" /\ Tail(todo) = <<>>
    BY <2>1
  <2>3. /\ After(cpu, Set(ram, tmp.address, tmp.data - BitAnd(tmp.data, cpu.a)),
            {tmp.address})
    BY <1>2, <2>2, Tclr1Does
  <2> QED
    BY <1>1, <1>t, <1>7, <2>2, <2>3, Moves
       DEF TestClrAt, Now, After
<1>8. i # 5
  BY BlocksLeft DEF TestClrAt
<1> QED BY <1>3, <1>4, <1>5, <1>6, <1>7, <1>8 DEF TestClrAt

LEMMA TestClrEnds ==
  ASSUME NEW c \in Cpu, NEW m \in Memory, NEW i, TestClrAt(i, c, m), todo = <<>>,
         form \in OtherForms, form.op = "tclr1"
  PROVE  Machine(cpu, ram) = Special(form, c, m)
<1> DEFINE e == m[c.pc] + Radix * m[Wrap(c.pc + 1)]
           v == m[e] - BitAnd(m[e], c.a)
<1>2. cpu = WithZ(Past(c, 2), BitAnd(m[e], c.a) = 0) /\ ram = Set(m, e, v)
  BY DEF TestClrAt, Now
<1>3. Special(form, c, m) = Machine(WithZ(Past(c, 2), BitAnd(m[e], c.a) = 0), Set(m, e, v))
  BY DEF Special, WordAt, WithZ
<1> QED BY <1>2, <1>3

LEMMA TestClrBegins ==
  ASSUME NEW c, NEW m, (todo = Others[form.op])', Now(c, m, {})', form'.op = "tclr1"
  PROVE  TestClrAt(0, c, m)'
BY DEF TestClrAt, Others

(* OR1 C,mem.bit. *)
OrBitAt(i, c, m) ==
  LET at == m[c.pc] + Radix * m[Wrap(c.pc + 1)]
      e == at % BitArea
      bit == at \div BitArea
  IN
  \/ /\ i = 0 /\ todo = <<"lo", "hi_bit", "old", "or1">> /\ Now(c, m, {})
  \/ /\ i = 1 /\ todo = <<"hi_bit", "old", "or1">>
     /\ Now(Past(c, 1), m, {c.pc}) /\ tmp.address = m[c.pc]
  \/ /\ i = 2 /\ todo = <<"old", "or1">>
     /\ Now(Past(c, 2), m, {c.pc, Wrap(c.pc + 1)}) /\ tmp.address = e
     /\ tmp.offset = bit
  \/ /\ i = 3 /\ todo = <<"or1">>
     /\ Now(Past(c, 2), m, {c.pc, Wrap(c.pc + 1), e}) /\ tmp.data = m[e]
     /\ tmp.offset = bit
  \/ /\ i = 4 /\ todo = <<>>
     /\ Now(Flagged(Past(c, 2), c.c \/ IsSet(m[e], bit)), m, {c.pc, Wrap(c.pc + 1), e})

OrBitTyped(c, m) ==
  LET at == m[c.pc] + Radix * m[Wrap(c.pc + 1)]
      e == at % BitArea
      bit == at \div BitArea
  IN
  /\ at \in Addr
  /\ e \in Addr
  /\ m[e] \in Byte
  /\ bit \in 0 .. Bits - 1
  /\ Flagged(Past(c, 2), c.c \/ IsSet(m[e], bit)) \in Cpu

LEMMA OrBitTypes ==
  ASSUME NEW c \in Cpu, NEW m \in Memory, form \in OtherForms, form.op = "or1"
  PROVE  OrBitTyped(c, m)
<1> DEFINE at == m[c.pc] + Radix * m[Wrap(c.pc + 1)]
           e == at % BitArea
           bit == at \div BitArea
<1>1. /\ c.pc \in Addr /\ m[c.pc] \in Byte
      /\ Wrap(c.pc + 1) \in Addr /\ m[Wrap(c.pc + 1)] \in Byte
  BY Fetched
<1>2. at \in Addr
  BY <1>1, Fetched, Sums, Words
<1>3. e \in Addr
  BY <1>1, <1>2, BitAddresses
<1>4. m[e] \in Byte
  BY <1>1, <1>3, Memories
<1>5. bit \in 0 .. Bits - 1
  BY <1>1, <1>2, BitAddresses
<1>6. Flagged(Past(c, 2), c.c \/ IsSet(m[e], bit)) \in Cpu
  BY <1>1, <1>3, <1>4, <1>5, Moves, ZenonT(20) DEF Flagged, Past, Cpu, IsSet, HasBit
<1> QED
  BY <1>2, <1>3, <1>4, <1>5, <1>6
     DEF OrBitTyped

LEMMA OrBitGoes ==
  ASSUME NEW c \in Cpu, NEW m \in Memory, NEW i, OrBitAt(i, c, m), Block,
         form \in OtherForms, form.op = "or1"
  PROVE  \E j : OrBitAt(j, c, m)'
<1> DEFINE at == m[c.pc] + Radix * m[Wrap(c.pc + 1)]
           e == at % BitArea
           bit == at \div BitArea
<1>1. /\ c.pc \in Addr /\ m[c.pc] \in Byte
      /\ Wrap(c.pc + 1) \in Addr /\ m[Wrap(c.pc + 1)] \in Byte
  BY Fetched
<1>t. /\ at \in Addr
      /\ e \in Addr
      /\ m[e] \in Byte
      /\ bit \in 0 .. Bits - 1
      /\ Flagged(Past(c, 2), c.c \/ IsSet(m[e], bit)) \in Cpu
  BY OrBitTypes DEF OrBitTyped
<1>2. Ready
  BY DEF OrBitAt, Now, Ready, OtherForms
<1>3. ASSUME i = 0 PROVE OrBitAt(1, c, m)'
  <2>1. todo = <<"lo", "hi_bit", "old", "or1">>
    BY <1>3 DEF OrBitAt
  <2>2. Head(todo) = "lo" /\ Tail(todo) = <<"hi_bit", "old", "or1">>
    BY <2>1
  <2>3. /\ After(Past(cpu, 1), ram, {cpu.pc}) /\ tmp'.address = ram[cpu.pc]
    BY <1>2, <2>2, LoDoes DEF TmpIs
  <2> QED
    BY <1>1, <1>t, <1>3, <2>2, <2>3, Moves
       DEF OrBitAt, Now, After
<1>4. ASSUME i = 1 PROVE OrBitAt(2, c, m)'
  <2>1. todo = <<"hi_bit", "old", "or1">>
    BY <1>4 DEF OrBitAt
  <2>2. Head(todo) = "hi_bit" /\ Tail(todo) = <<"old", "or1">>
    BY <2>1
  <2>3. /\ After(Past(cpu, 1), ram, {cpu.pc})
        /\ tmp'.address = Wrap(tmp.address + Radix * ram[cpu.pc]) % BitArea
        /\ tmp'.offset = Wrap(tmp.address + Radix * ram[cpu.pc]) \div BitArea
    BY <1>2, <2>2, HiBitDoes DEF TmpIs
  <2> QED
    BY <1>1, <1>t, <1>4, <2>2, <2>3, Moves, Words
       DEF OrBitAt, Now, After
<1>5. ASSUME i = 2 PROVE OrBitAt(3, c, m)'
  <2>1. todo = <<"old", "or1">>
    BY <1>5 DEF OrBitAt
  <2>2. Head(todo) = "old" /\ Tail(todo) = <<"or1">>
    BY <2>1
  <2>3. /\ After(cpu, ram, {tmp.address}) /\ tmp'.data = ram[tmp.address]
        /\ tmp'.offset = tmp.offset
    BY <1>2, <2>2, OldDoes DEF TmpIs
  <2> QED
    BY <1>1, <1>t, <1>5, <2>2, <2>3, Moves
       DEF OrBitAt, Now, After
<1>6. ASSUME i = 3 PROVE OrBitAt(4, c, m)'
  <2>1. todo = <<"or1">>
    BY <1>6 DEF OrBitAt
  <2>2. Head(todo) = "or1" /\ Tail(todo) = <<>>
    BY <2>1
  <2>3. /\ After(Flagged(cpu, cpu.c \/ IsSet(tmp.data, tmp.offset)), ram, {})
    BY <1>2, <2>2, Or1Does
  <2> QED
    BY <1>1, <1>t, <1>6, <2>2, <2>3, Moves
       DEF OrBitAt, Now, After
<1>7. i # 4
  BY BlocksLeft DEF OrBitAt
<1> QED BY <1>3, <1>4, <1>5, <1>6, <1>7 DEF OrBitAt

LEMMA OrBitEnds ==
  ASSUME NEW c \in Cpu, NEW m \in Memory, NEW i, OrBitAt(i, c, m), todo = <<>>,
         form \in OtherForms, form.op = "or1"
  PROVE  Machine(cpu, ram) = Special(form, c, m)
<1> DEFINE at == m[c.pc] + Radix * m[Wrap(c.pc + 1)]
           e == at % BitArea
           bit == at \div BitArea
<1>2. cpu = Flagged(Past(c, 2), c.c \/ IsSet(m[e], bit)) /\ ram = m
  BY DEF OrBitAt, Now
<1>3. Special(form, c, m) = Machine(Flagged(Past(c, 2), c.c \/ IsSet(m[e], bit)), m)
  BY DEF Special, WordAt
<1> QED BY <1>2, <1>3

LEMMA OrBitBegins ==
  ASSUME NEW c, NEW m, (todo = Others[form.op])', Now(c, m, {})', form'.op = "or1"
  PROVE  OrBitAt(0, c, m)'
BY DEF OrBitAt, Others

(* OR1 C,/mem.bit. *)
OrNotBitAt(i, c, m) ==
  LET at == m[c.pc] + Radix * m[Wrap(c.pc + 1)]
      e == at % BitArea
      bit == at \div BitArea
  IN
  \/ /\ i = 0 /\ todo = <<"lo", "hi_bit", "old", "or1n">> /\ Now(c, m, {})
  \/ /\ i = 1 /\ todo = <<"hi_bit", "old", "or1n">>
     /\ Now(Past(c, 1), m, {c.pc}) /\ tmp.address = m[c.pc]
  \/ /\ i = 2 /\ todo = <<"old", "or1n">>
     /\ Now(Past(c, 2), m, {c.pc, Wrap(c.pc + 1)}) /\ tmp.address = e
     /\ tmp.offset = bit
  \/ /\ i = 3 /\ todo = <<"or1n">>
     /\ Now(Past(c, 2), m, {c.pc, Wrap(c.pc + 1), e}) /\ tmp.data = m[e]
     /\ tmp.offset = bit
  \/ /\ i = 4 /\ todo = <<>>
     /\ Now(Flagged(Past(c, 2), c.c \/ ~IsSet(m[e], bit)), m, {c.pc, Wrap(c.pc + 1), e})

OrNotBitTyped(c, m) ==
  LET at == m[c.pc] + Radix * m[Wrap(c.pc + 1)]
      e == at % BitArea
      bit == at \div BitArea
  IN
  /\ at \in Addr
  /\ e \in Addr
  /\ m[e] \in Byte
  /\ bit \in 0 .. Bits - 1
  /\ Flagged(Past(c, 2), c.c \/ ~IsSet(m[e], bit)) \in Cpu

LEMMA OrNotBitTypes ==
  ASSUME NEW c \in Cpu, NEW m \in Memory, form \in OtherForms, form.op = "or1n"
  PROVE  OrNotBitTyped(c, m)
<1> DEFINE at == m[c.pc] + Radix * m[Wrap(c.pc + 1)]
           e == at % BitArea
           bit == at \div BitArea
<1>1. /\ c.pc \in Addr /\ m[c.pc] \in Byte
      /\ Wrap(c.pc + 1) \in Addr /\ m[Wrap(c.pc + 1)] \in Byte
  BY Fetched
<1>2. at \in Addr
  BY <1>1, Fetched, Sums, Words
<1>3. e \in Addr
  BY <1>1, <1>2, BitAddresses
<1>4. m[e] \in Byte
  BY <1>1, <1>3, Memories
<1>5. bit \in 0 .. Bits - 1
  BY <1>1, <1>2, BitAddresses
<1>6. Flagged(Past(c, 2), c.c \/ ~IsSet(m[e], bit)) \in Cpu
  BY <1>1, <1>3, <1>4, <1>5, Moves, ZenonT(20) DEF Flagged, Past, Cpu, IsSet, HasBit
<1> QED
  BY <1>2, <1>3, <1>4, <1>5, <1>6
     DEF OrNotBitTyped

LEMMA OrNotBitGoes ==
  ASSUME NEW c \in Cpu, NEW m \in Memory, NEW i, OrNotBitAt(i, c, m), Block,
         form \in OtherForms, form.op = "or1n"
  PROVE  \E j : OrNotBitAt(j, c, m)'
<1> DEFINE at == m[c.pc] + Radix * m[Wrap(c.pc + 1)]
           e == at % BitArea
           bit == at \div BitArea
<1>1. /\ c.pc \in Addr /\ m[c.pc] \in Byte
      /\ Wrap(c.pc + 1) \in Addr /\ m[Wrap(c.pc + 1)] \in Byte
  BY Fetched
<1>t. /\ at \in Addr
      /\ e \in Addr
      /\ m[e] \in Byte
      /\ bit \in 0 .. Bits - 1
      /\ Flagged(Past(c, 2), c.c \/ ~IsSet(m[e], bit)) \in Cpu
  BY OrNotBitTypes DEF OrNotBitTyped
<1>2. Ready
  BY DEF OrNotBitAt, Now, Ready, OtherForms
<1>3. ASSUME i = 0 PROVE OrNotBitAt(1, c, m)'
  <2>1. todo = <<"lo", "hi_bit", "old", "or1n">>
    BY <1>3 DEF OrNotBitAt
  <2>2. Head(todo) = "lo" /\ Tail(todo) = <<"hi_bit", "old", "or1n">>
    BY <2>1
  <2>3. /\ After(Past(cpu, 1), ram, {cpu.pc}) /\ tmp'.address = ram[cpu.pc]
    BY <1>2, <2>2, LoDoes DEF TmpIs
  <2> QED
    BY <1>1, <1>t, <1>3, <2>2, <2>3, Moves
       DEF OrNotBitAt, Now, After
<1>4. ASSUME i = 1 PROVE OrNotBitAt(2, c, m)'
  <2>1. todo = <<"hi_bit", "old", "or1n">>
    BY <1>4 DEF OrNotBitAt
  <2>2. Head(todo) = "hi_bit" /\ Tail(todo) = <<"old", "or1n">>
    BY <2>1
  <2>3. /\ After(Past(cpu, 1), ram, {cpu.pc})
        /\ tmp'.address = Wrap(tmp.address + Radix * ram[cpu.pc]) % BitArea
        /\ tmp'.offset = Wrap(tmp.address + Radix * ram[cpu.pc]) \div BitArea
    BY <1>2, <2>2, HiBitDoes DEF TmpIs
  <2> QED
    BY <1>1, <1>t, <1>4, <2>2, <2>3, Moves, Words
       DEF OrNotBitAt, Now, After
<1>5. ASSUME i = 2 PROVE OrNotBitAt(3, c, m)'
  <2>1. todo = <<"old", "or1n">>
    BY <1>5 DEF OrNotBitAt
  <2>2. Head(todo) = "old" /\ Tail(todo) = <<"or1n">>
    BY <2>1
  <2>3. /\ After(cpu, ram, {tmp.address}) /\ tmp'.data = ram[tmp.address]
        /\ tmp'.offset = tmp.offset
    BY <1>2, <2>2, OldDoes DEF TmpIs
  <2> QED
    BY <1>1, <1>t, <1>5, <2>2, <2>3, Moves
       DEF OrNotBitAt, Now, After
<1>6. ASSUME i = 3 PROVE OrNotBitAt(4, c, m)'
  <2>1. todo = <<"or1n">>
    BY <1>6 DEF OrNotBitAt
  <2>2. Head(todo) = "or1n" /\ Tail(todo) = <<>>
    BY <2>1
  <2>3. /\ After(Flagged(cpu, cpu.c \/ ~IsSet(tmp.data, tmp.offset)), ram, {})
    BY <1>2, <2>2, Or1NotDoes
  <2> QED
    BY <1>1, <1>t, <1>6, <2>2, <2>3, Moves
       DEF OrNotBitAt, Now, After
<1>7. i # 4
  BY BlocksLeft DEF OrNotBitAt
<1> QED BY <1>3, <1>4, <1>5, <1>6, <1>7 DEF OrNotBitAt

LEMMA OrNotBitEnds ==
  ASSUME NEW c \in Cpu, NEW m \in Memory, NEW i, OrNotBitAt(i, c, m), todo = <<>>,
         form \in OtherForms, form.op = "or1n"
  PROVE  Machine(cpu, ram) = Special(form, c, m)
<1> DEFINE at == m[c.pc] + Radix * m[Wrap(c.pc + 1)]
           e == at % BitArea
           bit == at \div BitArea
<1>2. cpu = Flagged(Past(c, 2), c.c \/ ~IsSet(m[e], bit)) /\ ram = m
  BY DEF OrNotBitAt, Now
<1>3. Special(form, c, m) = Machine(Flagged(Past(c, 2), c.c \/ ~IsSet(m[e], bit)), m)
  BY DEF Special, WordAt
<1> QED BY <1>2, <1>3

LEMMA OrNotBitBegins ==
  ASSUME NEW c, NEW m, (todo = Others[form.op])', Now(c, m, {})', form'.op = "or1n"
  PROVE  OrNotBitAt(0, c, m)'
BY DEF OrNotBitAt, Others

(* EOR1 C,mem.bit. *)
EorBitAt(i, c, m) ==
  LET at == m[c.pc] + Radix * m[Wrap(c.pc + 1)]
      e == at % BitArea
      bit == at \div BitArea
  IN
  \/ /\ i = 0 /\ todo = <<"lo", "hi_bit", "old", "eor1">> /\ Now(c, m, {})
  \/ /\ i = 1 /\ todo = <<"hi_bit", "old", "eor1">>
     /\ Now(Past(c, 1), m, {c.pc}) /\ tmp.address = m[c.pc]
  \/ /\ i = 2 /\ todo = <<"old", "eor1">>
     /\ Now(Past(c, 2), m, {c.pc, Wrap(c.pc + 1)}) /\ tmp.address = e
     /\ tmp.offset = bit
  \/ /\ i = 3 /\ todo = <<"eor1">>
     /\ Now(Past(c, 2), m, {c.pc, Wrap(c.pc + 1), e}) /\ tmp.data = m[e]
     /\ tmp.offset = bit
  \/ /\ i = 4 /\ todo = <<>>
     /\ Now(Flagged(Past(c, 2), c.c # IsSet(m[e], bit)), m, {c.pc, Wrap(c.pc + 1), e})

EorBitTyped(c, m) ==
  LET at == m[c.pc] + Radix * m[Wrap(c.pc + 1)]
      e == at % BitArea
      bit == at \div BitArea
  IN
  /\ at \in Addr
  /\ e \in Addr
  /\ m[e] \in Byte
  /\ bit \in 0 .. Bits - 1
  /\ Flagged(Past(c, 2), c.c # IsSet(m[e], bit)) \in Cpu

LEMMA EorBitTypes ==
  ASSUME NEW c \in Cpu, NEW m \in Memory, form \in OtherForms, form.op = "eor1"
  PROVE  EorBitTyped(c, m)
<1> DEFINE at == m[c.pc] + Radix * m[Wrap(c.pc + 1)]
           e == at % BitArea
           bit == at \div BitArea
<1>1. /\ c.pc \in Addr /\ m[c.pc] \in Byte
      /\ Wrap(c.pc + 1) \in Addr /\ m[Wrap(c.pc + 1)] \in Byte
  BY Fetched
<1>2. at \in Addr
  BY <1>1, Fetched, Sums, Words
<1>3. e \in Addr
  BY <1>1, <1>2, BitAddresses
<1>4. m[e] \in Byte
  BY <1>1, <1>3, Memories
<1>5. bit \in 0 .. Bits - 1
  BY <1>1, <1>2, BitAddresses
<1>6. Flagged(Past(c, 2), c.c # IsSet(m[e], bit)) \in Cpu
  BY <1>1, <1>3, <1>4, <1>5, Moves, ZenonT(20) DEF Flagged, Past, Cpu, IsSet, HasBit
<1> QED
  BY <1>2, <1>3, <1>4, <1>5, <1>6
     DEF EorBitTyped

LEMMA EorBitGoes ==
  ASSUME NEW c \in Cpu, NEW m \in Memory, NEW i, EorBitAt(i, c, m), Block,
         form \in OtherForms, form.op = "eor1"
  PROVE  \E j : EorBitAt(j, c, m)'
<1> DEFINE at == m[c.pc] + Radix * m[Wrap(c.pc + 1)]
           e == at % BitArea
           bit == at \div BitArea
<1>1. /\ c.pc \in Addr /\ m[c.pc] \in Byte
      /\ Wrap(c.pc + 1) \in Addr /\ m[Wrap(c.pc + 1)] \in Byte
  BY Fetched
<1>t. /\ at \in Addr
      /\ e \in Addr
      /\ m[e] \in Byte
      /\ bit \in 0 .. Bits - 1
      /\ Flagged(Past(c, 2), c.c # IsSet(m[e], bit)) \in Cpu
  BY EorBitTypes DEF EorBitTyped
<1>2. Ready
  BY DEF EorBitAt, Now, Ready, OtherForms
<1>3. ASSUME i = 0 PROVE EorBitAt(1, c, m)'
  <2>1. todo = <<"lo", "hi_bit", "old", "eor1">>
    BY <1>3 DEF EorBitAt
  <2>2. Head(todo) = "lo" /\ Tail(todo) = <<"hi_bit", "old", "eor1">>
    BY <2>1
  <2>3. /\ After(Past(cpu, 1), ram, {cpu.pc}) /\ tmp'.address = ram[cpu.pc]
    BY <1>2, <2>2, LoDoes DEF TmpIs
  <2> QED
    BY <1>1, <1>t, <1>3, <2>2, <2>3, Moves
       DEF EorBitAt, Now, After
<1>4. ASSUME i = 1 PROVE EorBitAt(2, c, m)'
  <2>1. todo = <<"hi_bit", "old", "eor1">>
    BY <1>4 DEF EorBitAt
  <2>2. Head(todo) = "hi_bit" /\ Tail(todo) = <<"old", "eor1">>
    BY <2>1
  <2>3. /\ After(Past(cpu, 1), ram, {cpu.pc})
        /\ tmp'.address = Wrap(tmp.address + Radix * ram[cpu.pc]) % BitArea
        /\ tmp'.offset = Wrap(tmp.address + Radix * ram[cpu.pc]) \div BitArea
    BY <1>2, <2>2, HiBitDoes DEF TmpIs
  <2> QED
    BY <1>1, <1>t, <1>4, <2>2, <2>3, Moves, Words
       DEF EorBitAt, Now, After
<1>5. ASSUME i = 2 PROVE EorBitAt(3, c, m)'
  <2>1. todo = <<"old", "eor1">>
    BY <1>5 DEF EorBitAt
  <2>2. Head(todo) = "old" /\ Tail(todo) = <<"eor1">>
    BY <2>1
  <2>3. /\ After(cpu, ram, {tmp.address}) /\ tmp'.data = ram[tmp.address]
        /\ tmp'.offset = tmp.offset
    BY <1>2, <2>2, OldDoes DEF TmpIs
  <2> QED
    BY <1>1, <1>t, <1>5, <2>2, <2>3, Moves
       DEF EorBitAt, Now, After
<1>6. ASSUME i = 3 PROVE EorBitAt(4, c, m)'
  <2>1. todo = <<"eor1">>
    BY <1>6 DEF EorBitAt
  <2>2. Head(todo) = "eor1" /\ Tail(todo) = <<>>
    BY <2>1
  <2>3. /\ After(Flagged(cpu, cpu.c # IsSet(tmp.data, tmp.offset)), ram, {})
    BY <1>2, <2>2, Eor1Does
  <2> QED
    BY <1>1, <1>t, <1>6, <2>2, <2>3, Moves
       DEF EorBitAt, Now, After
<1>7. i # 4
  BY BlocksLeft DEF EorBitAt
<1> QED BY <1>3, <1>4, <1>5, <1>6, <1>7 DEF EorBitAt

LEMMA EorBitEnds ==
  ASSUME NEW c \in Cpu, NEW m \in Memory, NEW i, EorBitAt(i, c, m), todo = <<>>,
         form \in OtherForms, form.op = "eor1"
  PROVE  Machine(cpu, ram) = Special(form, c, m)
<1> DEFINE at == m[c.pc] + Radix * m[Wrap(c.pc + 1)]
           e == at % BitArea
           bit == at \div BitArea
<1>2. cpu = Flagged(Past(c, 2), c.c # IsSet(m[e], bit)) /\ ram = m
  BY DEF EorBitAt, Now
<1>3. Special(form, c, m) = Machine(Flagged(Past(c, 2), c.c # IsSet(m[e], bit)), m)
  BY DEF Special, WordAt
<1> QED BY <1>2, <1>3

LEMMA EorBitBegins ==
  ASSUME NEW c, NEW m, (todo = Others[form.op])', Now(c, m, {})', form'.op = "eor1"
  PROVE  EorBitAt(0, c, m)'
BY DEF EorBitAt, Others

(* AND1 C,mem.bit. *)
AndBitAt(i, c, m) ==
  LET at == m[c.pc] + Radix * m[Wrap(c.pc + 1)]
      e == at % BitArea
      bit == at \div BitArea
  IN
  \/ /\ i = 0 /\ todo = <<"lo", "hi_bit", "and1">> /\ Now(c, m, {})
  \/ /\ i = 1 /\ todo = <<"hi_bit", "and1">> /\ Now(Past(c, 1), m, {c.pc})
     /\ tmp.address = m[c.pc]
  \/ /\ i = 2 /\ todo = <<"and1">>
     /\ Now(Past(c, 2), m, {c.pc, Wrap(c.pc + 1)}) /\ tmp.address = e
     /\ tmp.offset = bit
  \/ /\ i = 3 /\ todo = <<>>
     /\ Now(Flagged(Past(c, 2), c.c /\ IsSet(m[e], bit)), m, {c.pc, Wrap(c.pc + 1), e})

AndBitTyped(c, m) ==
  LET at == m[c.pc] + Radix * m[Wrap(c.pc + 1)]
      e == at % BitArea
      bit == at \div BitArea
  IN
  /\ at \in Addr
  /\ e \in Addr
  /\ m[e] \in Byte
  /\ bit \in 0 .. Bits - 1
  /\ Flagged(Past(c, 2), c.c /\ IsSet(m[e], bit)) \in Cpu

LEMMA AndBitTypes ==
  ASSUME NEW c \in Cpu, NEW m \in Memory, form \in OtherForms, form.op = "and1"
  PROVE  AndBitTyped(c, m)
<1> DEFINE at == m[c.pc] + Radix * m[Wrap(c.pc + 1)]
           e == at % BitArea
           bit == at \div BitArea
<1>1. /\ c.pc \in Addr /\ m[c.pc] \in Byte
      /\ Wrap(c.pc + 1) \in Addr /\ m[Wrap(c.pc + 1)] \in Byte
  BY Fetched
<1>2. at \in Addr
  BY <1>1, Fetched, Sums, Words
<1>3. e \in Addr
  BY <1>1, <1>2, BitAddresses
<1>4. m[e] \in Byte
  BY <1>1, <1>3, Memories
<1>5. bit \in 0 .. Bits - 1
  BY <1>1, <1>2, BitAddresses
<1>6. Flagged(Past(c, 2), c.c /\ IsSet(m[e], bit)) \in Cpu
  BY <1>1, <1>3, <1>4, <1>5, Moves, ZenonT(20) DEF Flagged, Past, Cpu, IsSet, HasBit
<1> QED
  BY <1>2, <1>3, <1>4, <1>5, <1>6
     DEF AndBitTyped

LEMMA AndBitGoes ==
  ASSUME NEW c \in Cpu, NEW m \in Memory, NEW i, AndBitAt(i, c, m), Block,
         form \in OtherForms, form.op = "and1"
  PROVE  \E j : AndBitAt(j, c, m)'
<1> DEFINE at == m[c.pc] + Radix * m[Wrap(c.pc + 1)]
           e == at % BitArea
           bit == at \div BitArea
<1>1. /\ c.pc \in Addr /\ m[c.pc] \in Byte
      /\ Wrap(c.pc + 1) \in Addr /\ m[Wrap(c.pc + 1)] \in Byte
  BY Fetched
<1>t. /\ at \in Addr
      /\ e \in Addr
      /\ m[e] \in Byte
      /\ bit \in 0 .. Bits - 1
      /\ Flagged(Past(c, 2), c.c /\ IsSet(m[e], bit)) \in Cpu
  BY AndBitTypes DEF AndBitTyped
<1>2. Ready
  BY DEF AndBitAt, Now, Ready, OtherForms
<1>3. ASSUME i = 0 PROVE AndBitAt(1, c, m)'
  <2>1. todo = <<"lo", "hi_bit", "and1">>
    BY <1>3 DEF AndBitAt
  <2>2. Head(todo) = "lo" /\ Tail(todo) = <<"hi_bit", "and1">>
    BY <2>1
  <2>3. /\ After(Past(cpu, 1), ram, {cpu.pc}) /\ tmp'.address = ram[cpu.pc]
    BY <1>2, <2>2, LoDoes DEF TmpIs
  <2> QED
    BY <1>1, <1>t, <1>3, <2>2, <2>3, Moves
       DEF AndBitAt, Now, After
<1>4. ASSUME i = 1 PROVE AndBitAt(2, c, m)'
  <2>1. todo = <<"hi_bit", "and1">>
    BY <1>4 DEF AndBitAt
  <2>2. Head(todo) = "hi_bit" /\ Tail(todo) = <<"and1">>
    BY <2>1
  <2>3. /\ After(Past(cpu, 1), ram, {cpu.pc})
        /\ tmp'.address = Wrap(tmp.address + Radix * ram[cpu.pc]) % BitArea
        /\ tmp'.offset = Wrap(tmp.address + Radix * ram[cpu.pc]) \div BitArea
    BY <1>2, <2>2, HiBitDoes DEF TmpIs
  <2> QED
    BY <1>1, <1>t, <1>4, <2>2, <2>3, Moves, Words
       DEF AndBitAt, Now, After
<1>5. ASSUME i = 2 PROVE AndBitAt(3, c, m)'
  <2>1. todo = <<"and1">>
    BY <1>5 DEF AndBitAt
  <2>2. Head(todo) = "and1" /\ Tail(todo) = <<>>
    BY <2>1
  <2>3. /\ After(Flagged(cpu, cpu.c /\ IsSet(ram[tmp.address], tmp.offset)), ram,
            {tmp.address})
    BY <1>2, <2>2, And1Does
  <2> QED
    BY <1>1, <1>t, <1>5, <2>2, <2>3, Moves
       DEF AndBitAt, Now, After
<1>6. i # 3
  BY BlocksLeft DEF AndBitAt
<1> QED BY <1>3, <1>4, <1>5, <1>6 DEF AndBitAt

LEMMA AndBitEnds ==
  ASSUME NEW c \in Cpu, NEW m \in Memory, NEW i, AndBitAt(i, c, m), todo = <<>>,
         form \in OtherForms, form.op = "and1"
  PROVE  Machine(cpu, ram) = Special(form, c, m)
<1> DEFINE at == m[c.pc] + Radix * m[Wrap(c.pc + 1)]
           e == at % BitArea
           bit == at \div BitArea
<1>2. cpu = Flagged(Past(c, 2), c.c /\ IsSet(m[e], bit)) /\ ram = m
  BY DEF AndBitAt, Now
<1>3. Special(form, c, m) = Machine(Flagged(Past(c, 2), c.c /\ IsSet(m[e], bit)), m)
  BY DEF Special, WordAt
<1> QED BY <1>2, <1>3

LEMMA AndBitBegins ==
  ASSUME NEW c, NEW m, (todo = Others[form.op])', Now(c, m, {})', form'.op = "and1"
  PROVE  AndBitAt(0, c, m)'
BY DEF AndBitAt, Others

(* AND1 C,/mem.bit. *)
AndNotBitAt(i, c, m) ==
  LET at == m[c.pc] + Radix * m[Wrap(c.pc + 1)]
      e == at % BitArea
      bit == at \div BitArea
  IN
  \/ /\ i = 0 /\ todo = <<"lo", "hi_bit", "and1n">> /\ Now(c, m, {})
  \/ /\ i = 1 /\ todo = <<"hi_bit", "and1n">> /\ Now(Past(c, 1), m, {c.pc})
     /\ tmp.address = m[c.pc]
  \/ /\ i = 2 /\ todo = <<"and1n">>
     /\ Now(Past(c, 2), m, {c.pc, Wrap(c.pc + 1)}) /\ tmp.address = e
     /\ tmp.offset = bit
  \/ /\ i = 3 /\ todo = <<>>
     /\ Now(Flagged(Past(c, 2), c.c /\ ~IsSet(m[e], bit)), m, {c.pc, Wrap(c.pc + 1), e})

AndNotBitTyped(c, m) ==
  LET at == m[c.pc] + Radix * m[Wrap(c.pc + 1)]
      e == at % BitArea
      bit == at \div BitArea
  IN
  /\ at \in Addr
  /\ e \in Addr
  /\ m[e] \in Byte
  /\ bit \in 0 .. Bits - 1
  /\ Flagged(Past(c, 2), c.c /\ ~IsSet(m[e], bit)) \in Cpu

LEMMA AndNotBitTypes ==
  ASSUME NEW c \in Cpu, NEW m \in Memory, form \in OtherForms, form.op = "and1n"
  PROVE  AndNotBitTyped(c, m)
<1> DEFINE at == m[c.pc] + Radix * m[Wrap(c.pc + 1)]
           e == at % BitArea
           bit == at \div BitArea
<1>1. /\ c.pc \in Addr /\ m[c.pc] \in Byte
      /\ Wrap(c.pc + 1) \in Addr /\ m[Wrap(c.pc + 1)] \in Byte
  BY Fetched
<1>2. at \in Addr
  BY <1>1, Fetched, Sums, Words
<1>3. e \in Addr
  BY <1>1, <1>2, BitAddresses
<1>4. m[e] \in Byte
  BY <1>1, <1>3, Memories
<1>5. bit \in 0 .. Bits - 1
  BY <1>1, <1>2, BitAddresses
<1>6. Flagged(Past(c, 2), c.c /\ ~IsSet(m[e], bit)) \in Cpu
  BY <1>1, <1>3, <1>4, <1>5, Moves, ZenonT(20) DEF Flagged, Past, Cpu, IsSet, HasBit
<1> QED
  BY <1>2, <1>3, <1>4, <1>5, <1>6
     DEF AndNotBitTyped

LEMMA AndNotBitGoes ==
  ASSUME NEW c \in Cpu, NEW m \in Memory, NEW i, AndNotBitAt(i, c, m), Block,
         form \in OtherForms, form.op = "and1n"
  PROVE  \E j : AndNotBitAt(j, c, m)'
<1> DEFINE at == m[c.pc] + Radix * m[Wrap(c.pc + 1)]
           e == at % BitArea
           bit == at \div BitArea
<1>1. /\ c.pc \in Addr /\ m[c.pc] \in Byte
      /\ Wrap(c.pc + 1) \in Addr /\ m[Wrap(c.pc + 1)] \in Byte
  BY Fetched
<1>t. /\ at \in Addr
      /\ e \in Addr
      /\ m[e] \in Byte
      /\ bit \in 0 .. Bits - 1
      /\ Flagged(Past(c, 2), c.c /\ ~IsSet(m[e], bit)) \in Cpu
  BY AndNotBitTypes DEF AndNotBitTyped
<1>2. Ready
  BY DEF AndNotBitAt, Now, Ready, OtherForms
<1>3. ASSUME i = 0 PROVE AndNotBitAt(1, c, m)'
  <2>1. todo = <<"lo", "hi_bit", "and1n">>
    BY <1>3 DEF AndNotBitAt
  <2>2. Head(todo) = "lo" /\ Tail(todo) = <<"hi_bit", "and1n">>
    BY <2>1
  <2>3. /\ After(Past(cpu, 1), ram, {cpu.pc}) /\ tmp'.address = ram[cpu.pc]
    BY <1>2, <2>2, LoDoes DEF TmpIs
  <2> QED
    BY <1>1, <1>t, <1>3, <2>2, <2>3, Moves
       DEF AndNotBitAt, Now, After
<1>4. ASSUME i = 1 PROVE AndNotBitAt(2, c, m)'
  <2>1. todo = <<"hi_bit", "and1n">>
    BY <1>4 DEF AndNotBitAt
  <2>2. Head(todo) = "hi_bit" /\ Tail(todo) = <<"and1n">>
    BY <2>1
  <2>3. /\ After(Past(cpu, 1), ram, {cpu.pc})
        /\ tmp'.address = Wrap(tmp.address + Radix * ram[cpu.pc]) % BitArea
        /\ tmp'.offset = Wrap(tmp.address + Radix * ram[cpu.pc]) \div BitArea
    BY <1>2, <2>2, HiBitDoes DEF TmpIs
  <2> QED
    BY <1>1, <1>t, <1>4, <2>2, <2>3, Moves, Words
       DEF AndNotBitAt, Now, After
<1>5. ASSUME i = 2 PROVE AndNotBitAt(3, c, m)'
  <2>1. todo = <<"and1n">>
    BY <1>5 DEF AndNotBitAt
  <2>2. Head(todo) = "and1n" /\ Tail(todo) = <<>>
    BY <2>1
  <2>3. /\ After(Flagged(cpu, cpu.c /\ ~IsSet(ram[tmp.address], tmp.offset)), ram,
            {tmp.address})
    BY <1>2, <2>2, And1NotDoes
  <2> QED
    BY <1>1, <1>t, <1>5, <2>2, <2>3, Moves
       DEF AndNotBitAt, Now, After
<1>6. i # 3
  BY BlocksLeft DEF AndNotBitAt
<1> QED BY <1>3, <1>4, <1>5, <1>6 DEF AndNotBitAt

LEMMA AndNotBitEnds ==
  ASSUME NEW c \in Cpu, NEW m \in Memory, NEW i, AndNotBitAt(i, c, m), todo = <<>>,
         form \in OtherForms, form.op = "and1n"
  PROVE  Machine(cpu, ram) = Special(form, c, m)
<1> DEFINE at == m[c.pc] + Radix * m[Wrap(c.pc + 1)]
           e == at % BitArea
           bit == at \div BitArea
<1>2. cpu = Flagged(Past(c, 2), c.c /\ ~IsSet(m[e], bit)) /\ ram = m
  BY DEF AndNotBitAt, Now
<1>3. Special(form, c, m) = Machine(Flagged(Past(c, 2), c.c /\ ~IsSet(m[e], bit)), m)
  BY DEF Special, WordAt
<1> QED BY <1>2, <1>3

LEMMA AndNotBitBegins ==
  ASSUME NEW c, NEW m, (todo = Others[form.op])', Now(c, m, {})', form'.op = "and1n"
  PROVE  AndNotBitAt(0, c, m)'
BY DEF AndNotBitAt, Others

(* MOV1 C,mem.bit. *)
LoadBitAt(i, c, m) ==
  LET at == m[c.pc] + Radix * m[Wrap(c.pc + 1)]
      e == at % BitArea
      bit == at \div BitArea
  IN
  \/ /\ i = 0 /\ todo = <<"lo", "hi_bit", "mov1c">> /\ Now(c, m, {})
  \/ /\ i = 1 /\ todo = <<"hi_bit", "mov1c">> /\ Now(Past(c, 1), m, {c.pc})
     /\ tmp.address = m[c.pc]
  \/ /\ i = 2 /\ todo = <<"mov1c">>
     /\ Now(Past(c, 2), m, {c.pc, Wrap(c.pc + 1)}) /\ tmp.address = e
     /\ tmp.offset = bit
  \/ /\ i = 3 /\ todo = <<>>
     /\ Now(Flagged(Past(c, 2), IsSet(m[e], bit)), m, {c.pc, Wrap(c.pc + 1), e})

LoadBitTyped(c, m) ==
  LET at == m[c.pc] + Radix * m[Wrap(c.pc + 1)]
      e == at % BitArea
      bit == at \div BitArea
  IN
  /\ at \in Addr
  /\ e \in Addr
  /\ m[e] \in Byte
  /\ bit \in 0 .. Bits - 1
  /\ Flagged(Past(c, 2), IsSet(m[e], bit)) \in Cpu

LEMMA LoadBitTypes ==
  ASSUME NEW c \in Cpu, NEW m \in Memory, form \in OtherForms, form.op = "mov1c"
  PROVE  LoadBitTyped(c, m)
<1> DEFINE at == m[c.pc] + Radix * m[Wrap(c.pc + 1)]
           e == at % BitArea
           bit == at \div BitArea
<1>1. /\ c.pc \in Addr /\ m[c.pc] \in Byte
      /\ Wrap(c.pc + 1) \in Addr /\ m[Wrap(c.pc + 1)] \in Byte
  BY Fetched
<1>2. at \in Addr
  BY <1>1, Fetched, Sums, Words
<1>3. e \in Addr
  BY <1>1, <1>2, BitAddresses
<1>4. m[e] \in Byte
  BY <1>1, <1>3, Memories
<1>5. bit \in 0 .. Bits - 1
  BY <1>1, <1>2, BitAddresses
<1>6. Flagged(Past(c, 2), IsSet(m[e], bit)) \in Cpu
  BY <1>1, <1>3, <1>4, <1>5, Moves, ZenonT(20) DEF Flagged, Past, Cpu, IsSet, HasBit
<1> QED
  BY <1>2, <1>3, <1>4, <1>5, <1>6
     DEF LoadBitTyped

LEMMA LoadBitGoes ==
  ASSUME NEW c \in Cpu, NEW m \in Memory, NEW i, LoadBitAt(i, c, m), Block,
         form \in OtherForms, form.op = "mov1c"
  PROVE  \E j : LoadBitAt(j, c, m)'
<1> DEFINE at == m[c.pc] + Radix * m[Wrap(c.pc + 1)]
           e == at % BitArea
           bit == at \div BitArea
<1>1. /\ c.pc \in Addr /\ m[c.pc] \in Byte
      /\ Wrap(c.pc + 1) \in Addr /\ m[Wrap(c.pc + 1)] \in Byte
  BY Fetched
<1>t. /\ at \in Addr
      /\ e \in Addr
      /\ m[e] \in Byte
      /\ bit \in 0 .. Bits - 1
      /\ Flagged(Past(c, 2), IsSet(m[e], bit)) \in Cpu
  BY LoadBitTypes DEF LoadBitTyped
<1>2. Ready
  BY DEF LoadBitAt, Now, Ready, OtherForms
<1>3. ASSUME i = 0 PROVE LoadBitAt(1, c, m)'
  <2>1. todo = <<"lo", "hi_bit", "mov1c">>
    BY <1>3 DEF LoadBitAt
  <2>2. Head(todo) = "lo" /\ Tail(todo) = <<"hi_bit", "mov1c">>
    BY <2>1
  <2>3. /\ After(Past(cpu, 1), ram, {cpu.pc}) /\ tmp'.address = ram[cpu.pc]
    BY <1>2, <2>2, LoDoes DEF TmpIs
  <2> QED
    BY <1>1, <1>t, <1>3, <2>2, <2>3, Moves
       DEF LoadBitAt, Now, After
<1>4. ASSUME i = 1 PROVE LoadBitAt(2, c, m)'
  <2>1. todo = <<"hi_bit", "mov1c">>
    BY <1>4 DEF LoadBitAt
  <2>2. Head(todo) = "hi_bit" /\ Tail(todo) = <<"mov1c">>
    BY <2>1
  <2>3. /\ After(Past(cpu, 1), ram, {cpu.pc})
        /\ tmp'.address = Wrap(tmp.address + Radix * ram[cpu.pc]) % BitArea
        /\ tmp'.offset = Wrap(tmp.address + Radix * ram[cpu.pc]) \div BitArea
    BY <1>2, <2>2, HiBitDoes DEF TmpIs
  <2> QED
    BY <1>1, <1>t, <1>4, <2>2, <2>3, Moves, Words
       DEF LoadBitAt, Now, After
<1>5. ASSUME i = 2 PROVE LoadBitAt(3, c, m)'
  <2>1. todo = <<"mov1c">>
    BY <1>5 DEF LoadBitAt
  <2>2. Head(todo) = "mov1c" /\ Tail(todo) = <<>>
    BY <2>1
  <2>3. /\ After(Flagged(cpu, IsSet(ram[tmp.address], tmp.offset)), ram, {tmp.address})
    BY <1>2, <2>2, Mov1CDoes
  <2> QED
    BY <1>1, <1>t, <1>5, <2>2, <2>3, Moves
       DEF LoadBitAt, Now, After
<1>6. i # 3
  BY BlocksLeft DEF LoadBitAt
<1> QED BY <1>3, <1>4, <1>5, <1>6 DEF LoadBitAt

LEMMA LoadBitEnds ==
  ASSUME NEW c \in Cpu, NEW m \in Memory, NEW i, LoadBitAt(i, c, m), todo = <<>>,
         form \in OtherForms, form.op = "mov1c"
  PROVE  Machine(cpu, ram) = Special(form, c, m)
<1> DEFINE at == m[c.pc] + Radix * m[Wrap(c.pc + 1)]
           e == at % BitArea
           bit == at \div BitArea
<1>2. cpu = Flagged(Past(c, 2), IsSet(m[e], bit)) /\ ram = m
  BY DEF LoadBitAt, Now
<1>3. Special(form, c, m) = Machine(Flagged(Past(c, 2), IsSet(m[e], bit)), m)
  BY DEF Special, WordAt
<1> QED BY <1>2, <1>3

LEMMA LoadBitBegins ==
  ASSUME NEW c, NEW m, (todo = Others[form.op])', Now(c, m, {})', form'.op = "mov1c"
  PROVE  LoadBitAt(0, c, m)'
BY DEF LoadBitAt, Others

(* MOV1 mem.bit,C. *)
StoreBitAt(i, c, m) ==
  LET at == m[c.pc] + Radix * m[Wrap(c.pc + 1)]
      e == at % BitArea
      bit == at \div BitArea
      v == Written(m[e], bit, c.c)
  IN
  \/ /\ i = 0 /\ todo = <<"lo", "hi_bit", "old", "mov1", "put">>
     /\ Now(c, m, {})
  \/ /\ i = 1 /\ todo = <<"hi_bit", "old", "mov1", "put">>
     /\ Now(Past(c, 1), m, {c.pc}) /\ tmp.address = m[c.pc]
  \/ /\ i = 2 /\ todo = <<"old", "mov1", "put">>
     /\ Now(Past(c, 2), m, {c.pc, Wrap(c.pc + 1)}) /\ tmp.address = e
     /\ tmp.offset = bit
  \/ /\ i = 3 /\ todo = <<"mov1", "put">>
     /\ Now(Past(c, 2), m, {c.pc, Wrap(c.pc + 1), e}) /\ tmp.address = e
     /\ tmp.data = m[e] /\ tmp.offset = bit
  \/ /\ i = 4 /\ todo = <<"put">>
     /\ Now(Past(c, 2), m, {c.pc, Wrap(c.pc + 1), e}) /\ tmp.address = e
     /\ tmp.data = v
  \/ /\ i = 5 /\ todo = <<>>
     /\ Now(Past(c, 2), Set(m, e, v), {c.pc, Wrap(c.pc + 1), e})

StoreBitTyped(c, m) ==
  LET at == m[c.pc] + Radix * m[Wrap(c.pc + 1)]
      e == at % BitArea
      bit == at \div BitArea
      v == Written(m[e], bit, c.c)
  IN
  /\ at \in Addr
  /\ e \in Addr
  /\ m[e] \in Byte
  /\ bit \in 0 .. Bits - 1
  /\ v \in Byte
  /\ Set(m, e, v) \in Memory

LEMMA StoreBitTypes ==
  ASSUME NEW c \in Cpu, NEW m \in Memory, form \in OtherForms, form.op = "mov1"
  PROVE  StoreBitTyped(c, m)
<1> DEFINE at == m[c.pc] + Radix * m[Wrap(c.pc + 1)]
           e == at % BitArea
           bit == at \div BitArea
           v == Written(m[e], bit, c.c)
<1>1. /\ c.pc \in Addr /\ m[c.pc] \in Byte
      /\ Wrap(c.pc + 1) \in Addr /\ m[Wrap(c.pc + 1)] \in Byte
  BY Fetched
<1>2. at \in Addr
  BY <1>1, Fetched, Sums, Words
<1>3. e \in Addr
  BY <1>1, <1>2, BitAddresses
<1>4. m[e] \in Byte
  BY <1>1, <1>3, Memories
<1>5. bit \in 0 .. Bits - 1
  BY <1>1, <1>2, BitAddresses
<1>6. v \in Byte
  BY <1>1, <1>3, <1>4, <1>5, CpuIs, BitsOfBytes DEF Written
<1>7. Set(m, e, v) \in Memory
  BY <1>1, <1>3, <1>6, Memories, SMTT(20)
<1> QED
  BY <1>2, <1>3, <1>4, <1>5, <1>6, <1>7
     DEF StoreBitTyped

LEMMA StoreBitGoes ==
  ASSUME NEW c \in Cpu, NEW m \in Memory, NEW i, StoreBitAt(i, c, m), Block,
         form \in OtherForms, form.op = "mov1"
  PROVE  \E j : StoreBitAt(j, c, m)'
<1> DEFINE at == m[c.pc] + Radix * m[Wrap(c.pc + 1)]
           e == at % BitArea
           bit == at \div BitArea
           v == Written(m[e], bit, c.c)
<1>1. /\ c.pc \in Addr /\ m[c.pc] \in Byte
      /\ Wrap(c.pc + 1) \in Addr /\ m[Wrap(c.pc + 1)] \in Byte
  BY Fetched
<1>t. /\ at \in Addr
      /\ e \in Addr
      /\ m[e] \in Byte
      /\ bit \in 0 .. Bits - 1
      /\ v \in Byte
      /\ Set(m, e, v) \in Memory
  BY StoreBitTypes DEF StoreBitTyped
<1>2. Ready
  BY DEF StoreBitAt, Now, Ready, OtherForms
<1>3. ASSUME i = 0 PROVE StoreBitAt(1, c, m)'
  <2>1. todo = <<"lo", "hi_bit", "old", "mov1", "put">>
    BY <1>3 DEF StoreBitAt
  <2>2. Head(todo) = "lo" /\ Tail(todo) = <<"hi_bit", "old", "mov1", "put">>
    BY <2>1
  <2>3. /\ After(Past(cpu, 1), ram, {cpu.pc}) /\ tmp'.address = ram[cpu.pc]
    BY <1>2, <2>2, LoDoes DEF TmpIs
  <2> QED
    BY <1>1, <1>t, <1>3, <2>2, <2>3, Moves
       DEF StoreBitAt, Now, After
<1>4. ASSUME i = 1 PROVE StoreBitAt(2, c, m)'
  <2>1. todo = <<"hi_bit", "old", "mov1", "put">>
    BY <1>4 DEF StoreBitAt
  <2>2. Head(todo) = "hi_bit" /\ Tail(todo) = <<"old", "mov1", "put">>
    BY <2>1
  <2>3. /\ After(Past(cpu, 1), ram, {cpu.pc})
        /\ tmp'.address = Wrap(tmp.address + Radix * ram[cpu.pc]) % BitArea
        /\ tmp'.offset = Wrap(tmp.address + Radix * ram[cpu.pc]) \div BitArea
    BY <1>2, <2>2, HiBitDoes DEF TmpIs
  <2> QED
    BY <1>1, <1>t, <1>4, <2>2, <2>3, Moves, Words
       DEF StoreBitAt, Now, After
<1>5. ASSUME i = 2 PROVE StoreBitAt(3, c, m)'
  <2>1. todo = <<"old", "mov1", "put">>
    BY <1>5 DEF StoreBitAt
  <2>2. Head(todo) = "old" /\ Tail(todo) = <<"mov1", "put">>
    BY <2>1
  <2>3. /\ After(cpu, ram, {tmp.address}) /\ tmp'.address = tmp.address
        /\ tmp'.data = ram[tmp.address] /\ tmp'.offset = tmp.offset
    BY <1>2, <2>2, OldDoes DEF TmpIs
  <2> QED
    BY <1>1, <1>t, <1>5, <2>2, <2>3, Moves
       DEF StoreBitAt, Now, After
<1>6. ASSUME i = 3 PROVE StoreBitAt(4, c, m)'
  <2>1. todo = <<"mov1", "put">>
    BY <1>6 DEF StoreBitAt
  <2>2. Head(todo) = "mov1" /\ Tail(todo) = <<"put">>
    BY <2>1
  <2>3. /\ After(cpu, ram, {}) /\ tmp'.address = tmp.address
        /\ tmp'.data = Written(tmp.data, tmp.offset, cpu.c)
    BY <1>2, <2>2, Mov1Does DEF TmpIs
  <2> QED
    BY <1>1, <1>t, <1>6, <2>2, <2>3, Moves
       DEF StoreBitAt, Now, After
<1>7. ASSUME i = 4 PROVE StoreBitAt(5, c, m)'
  <2>1. todo = <<"put">>
    BY <1>7 DEF StoreBitAt
  <2>2. Head(todo) = "put" /\ Tail(todo) = <<>>
    BY <2>1
  <2>3. /\ After(cpu, Set(ram, tmp.address, tmp.data), {tmp.address})
    BY <1>2, <2>2, PutDoes
  <2> QED
    BY <1>1, <1>t, <1>7, <2>2, <2>3, Moves
       DEF StoreBitAt, Now, After
<1>8. i # 5
  BY BlocksLeft DEF StoreBitAt
<1> QED BY <1>3, <1>4, <1>5, <1>6, <1>7, <1>8, ZenonT(20) DEF StoreBitAt

LEMMA StoreBitEnds ==
  ASSUME NEW c \in Cpu, NEW m \in Memory, NEW i, StoreBitAt(i, c, m), todo = <<>>,
         form \in OtherForms, form.op = "mov1"
  PROVE  Machine(cpu, ram) = Special(form, c, m)
<1> DEFINE at == m[c.pc] + Radix * m[Wrap(c.pc + 1)]
           e == at % BitArea
           bit == at \div BitArea
           v == Written(m[e], bit, c.c)
<1>2. cpu = Past(c, 2) /\ ram = Set(m, e, v)
  BY DEF StoreBitAt, Now
<1>3. Special(form, c, m) = Machine(Past(c, 2), Set(m, e, v))
  BY DEF Special, WordAt, Written
<1> QED BY <1>2, <1>3

LEMMA StoreBitBegins ==
  ASSUME NEW c, NEW m, (todo = Others[form.op])', Now(c, m, {})', form'.op = "mov1"
  PROVE  StoreBitAt(0, c, m)'
BY DEF StoreBitAt, Others

(* NOT1 mem.bit. *)
NotBitAt(i, c, m) ==
  LET at == m[c.pc] + Radix * m[Wrap(c.pc + 1)]
      e == at % BitArea
      bit == at \div BitArea
      v == Turned(m[e], bit)
  IN
  \/ /\ i = 0 /\ todo = <<"lo", "hi_bit", "old", "not1">> /\ Now(c, m, {})
  \/ /\ i = 1 /\ todo = <<"hi_bit", "old", "not1">>
     /\ Now(Past(c, 1), m, {c.pc}) /\ tmp.address = m[c.pc]
  \/ /\ i = 2 /\ todo = <<"old", "not1">>
     /\ Now(Past(c, 2), m, {c.pc, Wrap(c.pc + 1)}) /\ tmp.address = e
     /\ tmp.offset = bit
  \/ /\ i = 3 /\ todo = <<"not1">>
     /\ Now(Past(c, 2), m, {c.pc, Wrap(c.pc + 1), e}) /\ tmp.address = e
     /\ tmp.data = m[e] /\ tmp.offset = bit
  \/ /\ i = 4 /\ todo = <<>>
     /\ Now(Past(c, 2), Set(m, e, v), {c.pc, Wrap(c.pc + 1), e})

NotBitTyped(c, m) ==
  LET at == m[c.pc] + Radix * m[Wrap(c.pc + 1)]
      e == at % BitArea
      bit == at \div BitArea
      v == Turned(m[e], bit)
  IN
  /\ at \in Addr
  /\ e \in Addr
  /\ m[e] \in Byte
  /\ bit \in 0 .. Bits - 1
  /\ v \in Byte
  /\ Set(m, e, v) \in Memory

LEMMA NotBitTypes ==
  ASSUME NEW c \in Cpu, NEW m \in Memory, form \in OtherForms, form.op = "not1"
  PROVE  NotBitTyped(c, m)
<1> DEFINE at == m[c.pc] + Radix * m[Wrap(c.pc + 1)]
           e == at % BitArea
           bit == at \div BitArea
           v == Turned(m[e], bit)
<1>1. /\ c.pc \in Addr /\ m[c.pc] \in Byte
      /\ Wrap(c.pc + 1) \in Addr /\ m[Wrap(c.pc + 1)] \in Byte
  BY Fetched
<1>2. at \in Addr
  BY <1>1, Fetched, Sums, Words
<1>3. e \in Addr
  BY <1>1, <1>2, BitAddresses
<1>4. m[e] \in Byte
  BY <1>1, <1>3, Memories
<1>5. bit \in 0 .. Bits - 1
  BY <1>1, <1>2, BitAddresses
<1>6. v \in Byte
  BY <1>1, <1>3, <1>4, <1>5, BitsOfBytes
<1>7. Set(m, e, v) \in Memory
  BY <1>1, <1>3, <1>6, Memories, SMTT(20)
<1> QED
  BY <1>2, <1>3, <1>4, <1>5, <1>6, <1>7
     DEF NotBitTyped

LEMMA NotBitGoes ==
  ASSUME NEW c \in Cpu, NEW m \in Memory, NEW i, NotBitAt(i, c, m), Block,
         form \in OtherForms, form.op = "not1"
  PROVE  \E j : NotBitAt(j, c, m)'
<1> DEFINE at == m[c.pc] + Radix * m[Wrap(c.pc + 1)]
           e == at % BitArea
           bit == at \div BitArea
           v == Turned(m[e], bit)
<1>1. /\ c.pc \in Addr /\ m[c.pc] \in Byte
      /\ Wrap(c.pc + 1) \in Addr /\ m[Wrap(c.pc + 1)] \in Byte
  BY Fetched
<1>t. /\ at \in Addr
      /\ e \in Addr
      /\ m[e] \in Byte
      /\ bit \in 0 .. Bits - 1
      /\ v \in Byte
      /\ Set(m, e, v) \in Memory
  BY NotBitTypes DEF NotBitTyped
<1>2. Ready
  BY DEF NotBitAt, Now, Ready, OtherForms
<1>3. ASSUME i = 0 PROVE NotBitAt(1, c, m)'
  <2>1. todo = <<"lo", "hi_bit", "old", "not1">>
    BY <1>3 DEF NotBitAt
  <2>2. Head(todo) = "lo" /\ Tail(todo) = <<"hi_bit", "old", "not1">>
    BY <2>1
  <2>3. /\ After(Past(cpu, 1), ram, {cpu.pc}) /\ tmp'.address = ram[cpu.pc]
    BY <1>2, <2>2, LoDoes DEF TmpIs
  <2> QED
    BY <1>1, <1>t, <1>3, <2>2, <2>3, Moves
       DEF NotBitAt, Now, After
<1>4. ASSUME i = 1 PROVE NotBitAt(2, c, m)'
  <2>1. todo = <<"hi_bit", "old", "not1">>
    BY <1>4 DEF NotBitAt
  <2>2. Head(todo) = "hi_bit" /\ Tail(todo) = <<"old", "not1">>
    BY <2>1
  <2>3. /\ After(Past(cpu, 1), ram, {cpu.pc})
        /\ tmp'.address = Wrap(tmp.address + Radix * ram[cpu.pc]) % BitArea
        /\ tmp'.offset = Wrap(tmp.address + Radix * ram[cpu.pc]) \div BitArea
    BY <1>2, <2>2, HiBitDoes DEF TmpIs
  <2> QED
    BY <1>1, <1>t, <1>4, <2>2, <2>3, Moves, Words
       DEF NotBitAt, Now, After
<1>5. ASSUME i = 2 PROVE NotBitAt(3, c, m)'
  <2>1. todo = <<"old", "not1">>
    BY <1>5 DEF NotBitAt
  <2>2. Head(todo) = "old" /\ Tail(todo) = <<"not1">>
    BY <2>1
  <2>3. /\ After(cpu, ram, {tmp.address}) /\ tmp'.address = tmp.address
        /\ tmp'.data = ram[tmp.address] /\ tmp'.offset = tmp.offset
    BY <1>2, <2>2, OldDoes DEF TmpIs
  <2> QED
    BY <1>1, <1>t, <1>5, <2>2, <2>3, Moves
       DEF NotBitAt, Now, After
<1>6. ASSUME i = 3 PROVE NotBitAt(4, c, m)'
  <2>1. todo = <<"not1">>
    BY <1>6 DEF NotBitAt
  <2>2. Head(todo) = "not1" /\ Tail(todo) = <<>>
    BY <2>1
  <2>3. /\ After(cpu, Set(ram, tmp.address, Turned(tmp.data, tmp.offset)), {tmp.address})
    BY <1>2, <2>2, Not1Does
  <2> QED
    BY <1>1, <1>t, <1>6, <2>2, <2>3, Moves
       DEF NotBitAt, Now, After
<1>7. i # 4
  BY BlocksLeft DEF NotBitAt
<1> QED BY <1>3, <1>4, <1>5, <1>6, <1>7 DEF NotBitAt

LEMMA NotBitEnds ==
  ASSUME NEW c \in Cpu, NEW m \in Memory, NEW i, NotBitAt(i, c, m), todo = <<>>,
         form \in OtherForms, form.op = "not1"
  PROVE  Machine(cpu, ram) = Special(form, c, m)
<1> DEFINE at == m[c.pc] + Radix * m[Wrap(c.pc + 1)]
           e == at % BitArea
           bit == at \div BitArea
           v == Turned(m[e], bit)
<1>2. cpu = Past(c, 2) /\ ram = Set(m, e, v)
  BY DEF NotBitAt, Now
<1>3. Special(form, c, m) = Machine(Past(c, 2), Set(m, e, v))
  BY DEF Special, WordAt, Turned
<1> QED BY <1>2, <1>3

LEMMA NotBitBegins ==
  ASSUME NEW c, NEW m, (todo = Others[form.op])', Now(c, m, {})', form'.op = "not1"
  PROVE  NotBitAt(0, c, m)'
BY DEF NotBitAt, Others

(* BRA and the branches on a flag. *)
BranchAt(i, c, m) ==
  LET to == Wrap(Wrap(c.pc + 1) + Signed(m[c.pc]))
  IN
  \/ /\ i = 0 /\ todo = <<"offset+test", "target", "jump">> /\ Now(c, m, {})
  \/ /\ i = 1 /\ todo = <<"target", "jump">> /\ Now(Past(c, 1), m, {c.pc})
     /\ Takes(form.op, c) /\ tmp.offset = m[c.pc]
  \/ /\ i = 2 /\ todo = <<"jump">> /\ Now(Past(c, 1), m, {c.pc})
     /\ Takes(form.op, c) /\ tmp.address = to
  \/ /\ i = 3 /\ todo = <<>>
     /\ Now(WithPC(c, IF Takes(form.op, c) THEN to ELSE Wrap(c.pc + 1)), m, {c.pc})

BranchTyped(c, m) ==
  LET to == Wrap(Wrap(c.pc + 1) + Signed(m[c.pc]))
  IN
  /\ to \in Addr
  /\ \A n : WithPC(Past(c, 1), n) = WithPC(c, n)
  /\ WithPC(c, Wrap(c.pc + 1)) = Past(c, 1)
  /\ WithPC(c, to) \in Cpu

LEMMA BranchTypes ==
  ASSUME NEW c \in Cpu, NEW m \in Memory, form \in OtherForms, form.op \in {"bra", "bne",
      "beq", "bcc", "bcs"}
  PROVE  BranchTyped(c, m)
<1> DEFINE to == Wrap(Wrap(c.pc + 1) + Signed(m[c.pc]))
<1>1. /\ c.pc \in Addr /\ m[c.pc] \in Byte
      /\ Wrap(c.pc + 1) \in Addr /\ m[Wrap(c.pc + 1)] \in Byte
  BY Fetched
<1>2. to \in Addr
  BY <1>1, Fetched, Sums
<1>3. \A n : WithPC(Past(c, 1), n) = WithPC(c, n)
  BY <1>1, Orders
<1>4. WithPC(c, Wrap(c.pc + 1)) = Past(c, 1)
  BY <1>1, <1>3, Orders
<1>5. WithPC(c, to) \in Cpu
  BY <1>1, <1>2, StillCpu
<1> QED
  BY <1>2, <1>3, <1>4, <1>5
     DEF BranchTyped

LEMMA BranchGoes ==
  ASSUME NEW c \in Cpu, NEW m \in Memory, NEW i, BranchAt(i, c, m), Block,
         form \in OtherForms, form.op \in {"bra", "bne", "beq", "bcc", "bcs"}
  PROVE  \E j : BranchAt(j, c, m)'
<1> DEFINE to == Wrap(Wrap(c.pc + 1) + Signed(m[c.pc]))
<1>1. /\ c.pc \in Addr /\ m[c.pc] \in Byte
      /\ Wrap(c.pc + 1) \in Addr /\ m[Wrap(c.pc + 1)] \in Byte
  BY Fetched
<1>t. /\ to \in Addr
      /\ \A n : WithPC(Past(c, 1), n) = WithPC(c, n)
      /\ WithPC(c, Wrap(c.pc + 1)) = Past(c, 1)
      /\ WithPC(c, to) \in Cpu
  BY BranchTypes DEF BranchTyped
<1>2. Ready
  BY DEF BranchAt, Now, Ready, OtherForms
<1>3. ASSUME i = 0, Takes(form.op, c) PROVE BranchAt(1, c, m)'
  <2>1. todo = <<"offset+test", "target", "jump">>
    BY <1>3 DEF BranchAt
  <2>2. Head(todo) = "offset+test" /\ Tail(todo) = <<"target", "jump">>
    BY <2>1
  <2>3. /\ AfterIf(Taken, Past(cpu, 1), ram, {cpu.pc})
        /\ tmp'.offset = ram[cpu.pc]
    BY <1>2, <2>2, OffsetTestDoes DEF TmpIs
  <2> QED
    BY <1>1, <1>t, <1>3, <2>2, <2>3, Moves, TakenIs
       DEF BranchAt, Now, AfterIf
<1>4. ASSUME i = 0, ~Takes(form.op, c) PROVE BranchAt(3, c, m)'
  <2>1. todo = <<"offset+test", "target", "jump">>
    BY <1>4 DEF BranchAt
  <2>2. Head(todo) = "offset+test" /\ Tail(todo) = <<"target", "jump">>
    BY <2>1
  <2>3. /\ AfterIf(Taken, Past(cpu, 1), ram, {cpu.pc})
    BY <1>2, <2>2, OffsetTestDoes DEF TmpIs
  <2> QED
    BY <1>1, <1>t, <1>4, <2>2, <2>3, Moves, TakenIs
       DEF BranchAt, Now, AfterIf
<1>5. ASSUME i = 1 PROVE BranchAt(2, c, m)'
  <2>1. todo = <<"target", "jump">>
    BY <1>5 DEF BranchAt
  <2>2. Head(todo) = "target" /\ Tail(todo) = <<"jump">>
    BY <2>1
  <2>3. /\ After(cpu, ram, {})
        /\ tmp'.address = Wrap(cpu.pc + Signed(tmp.offset))
    BY <1>2, <2>2, TargetDoes DEF TmpIs
  <2> QED
    BY <1>1, <1>t, <1>5, <2>2, <2>3, Moves
       DEF BranchAt, Now, After
<1>6. ASSUME i = 2 PROVE BranchAt(3, c, m)'
  <2>1. todo = <<"jump">>
    BY <1>6 DEF BranchAt
  <2>2. Head(todo) = "jump" /\ Tail(todo) = <<>>
    BY <2>1
  <2>3. /\ After(WithPC(cpu, tmp.address), ram, {})
    BY <1>2, <2>2, JumpDoes
  <2> QED
    BY <1>1, <1>t, <1>6, <2>2, <2>3, Moves
       DEF BranchAt, Now, After
<1>7. i # 3
  BY BlocksLeft DEF BranchAt
<1> QED BY <1>3, <1>4, <1>5, <1>6, <1>7 DEF BranchAt

LEMMA BranchEnds ==
  ASSUME NEW c \in Cpu, NEW m \in Memory, NEW i, BranchAt(i, c, m), todo = <<>>,
         form \in OtherForms, form.op \in {"bra", "bne", "beq", "bcc", "bcs"}
  PROVE  Machine(cpu, ram) = Special(form, c, m)
<1> DEFINE to == Wrap(Wrap(c.pc + 1) + Signed(m[c.pc]))
<1>1. /\ c.pc \in Addr /\ m[c.pc] \in Byte
      /\ Wrap(c.pc + 1) \in Addr /\ m[Wrap(c.pc + 1)] \in Byte
  BY Fetched
<1>t. /\ to \in Addr
      /\ \A n : WithPC(Past(c, 1), n) = WithPC(c, n)
      /\ WithPC(c, Wrap(c.pc + 1)) = Past(c, 1)
      /\ WithPC(c, to) \in Cpu
  BY BranchTypes DEF BranchTyped
<1>o. /\ Wrap(c.pc + 1 + 0) = Wrap(c.pc + 1)
      /\ Wrap(c.pc + 1 + Signed(m[c.pc])) = to
  BY <1>1, Onward
<1>2. cpu = WithPC(c, IF Takes(form.op, c) THEN to ELSE Wrap(c.pc + 1)) /\ ram = m
  BY SMTT(20) DEF BranchAt, Now
<1>3. Special(form, c, m) = Machine(WithPC(c, IF Takes(form.op,
    c) THEN to ELSE Wrap(c.pc + 1)), m)
  BY <1>o, ZenonT(20) DEF Special, WithPC, Takes
<1> QED BY <1>2, <1>3

LEMMA BranchBegins ==
  ASSUME NEW c, NEW m, (todo = Others[form.op])', Now(c, m, {})', form'.op \in {"bra", "bne",
      "beq", "bcc", "bcs"}
  PROVE  BranchAt(0, c, m)'
BY DEF BranchAt, Others

(* BBS dp.bit,rel. *)
BranchSetAt(i, c, m) ==
  LET e == PageOf(c) + m[c.pc]
      to == Wrap(Wrap(c.pc + 2) + Signed(m[Wrap(c.pc + 1)]))
      taken == IsSet(m[e], form.n)
  IN
  \/ /\ i = 0 /\ todo = <<"dp", "offset", "old", "bbs", "target", "jump">>
     /\ Now(c, m, {})
  \/ /\ i = 1 /\ todo = <<"offset", "old", "bbs", "target", "jump">>
     /\ Now(Past(c, 1), m, {c.pc}) /\ tmp.address = e
  \/ /\ i = 2 /\ todo = <<"old", "bbs", "target", "jump">>
     /\ Now(Past(c, 2), m, {c.pc, Wrap(c.pc + 1)}) /\ tmp.address = e
     /\ tmp.offset = m[Wrap(c.pc + 1)]
  \/ /\ i = 3 /\ todo = <<"bbs", "target", "jump">>
     /\ Now(Past(c, 2), m, {c.pc, Wrap(c.pc + 1), e}) /\ tmp.data = m[e]
     /\ tmp.offset = m[Wrap(c.pc + 1)]
  \/ /\ i = 4 /\ todo = <<"target", "jump">>
     /\ Now(Past(c, 2), m, {c.pc, Wrap(c.pc + 1), e}) /\ taken
     /\ tmp.offset = m[Wrap(c.pc + 1)]
  \/ /\ i = 5 /\ todo = <<"jump">>
     /\ Now(Past(c, 2), m, {c.pc, Wrap(c.pc + 1), e}) /\ taken
     /\ tmp.address = to
  \/ /\ i = 6 /\ todo = <<>>
     /\ Now(WithPC(c, IF taken THEN to ELSE Wrap(c.pc + 2)), m, {c.pc, Wrap(c.pc + 1), e})

BranchSetTyped(c, m) ==
  LET e == PageOf(c) + m[c.pc]
      to == Wrap(Wrap(c.pc + 2) + Signed(m[Wrap(c.pc + 1)]))
      taken == IsSet(m[e], form.n)
  IN
  /\ e \in Addr
  /\ m[e] \in Byte
  /\ to \in Addr
  /\ \A n : WithPC(Past(c, 2), n) = WithPC(c, n)
  /\ WithPC(c, Wrap(c.pc + 2)) = Past(c, 2)
  /\ WithPC(c, to) \in Cpu

LEMMA BranchSetTypes ==
  ASSUME NEW c \in Cpu, NEW m \in Memory, form \in OtherForms, form.op = "bbs"
  PROVE  BranchSetTyped(c, m)
<1> DEFINE e == PageOf(c) + m[c.pc]
           to == Wrap(Wrap(c.pc + 2) + Signed(m[Wrap(c.pc + 1)]))
           taken == IsSet(m[e], form.n)
<1>1. /\ c.pc \in Addr /\ m[c.pc] \in Byte
      /\ Wrap(c.pc + 1) \in Addr /\ m[Wrap(c.pc + 1)] \in Byte
  BY Fetched
<1>2. e \in Addr
  BY <1>1, Fetched
<1>3. m[e] \in Byte
  BY <1>1, <1>2, Memories
<1>4. to \in Addr
  BY <1>1, Fetched, Sums
<1>5. \A n : WithPC(Past(c, 2), n) = WithPC(c, n)
  BY <1>1, Orders
<1>6. WithPC(c, Wrap(c.pc + 2)) = Past(c, 2)
  BY <1>1, <1>5, Orders
<1>7. WithPC(c, to) \in Cpu
  BY <1>1, <1>4, StillCpu
<1> QED
  BY <1>2, <1>3, <1>4, <1>5, <1>6, <1>7
     DEF BranchSetTyped

LEMMA BranchSetGoes ==
  ASSUME NEW c \in Cpu, NEW m \in Memory, NEW i, BranchSetAt(i, c, m), Block,
         form \in OtherForms, form.op = "bbs"
  PROVE  \E j : BranchSetAt(j, c, m)'
<1> DEFINE e == PageOf(c) + m[c.pc]
           to == Wrap(Wrap(c.pc + 2) + Signed(m[Wrap(c.pc + 1)]))
           taken == IsSet(m[e], form.n)
<1>1. /\ c.pc \in Addr /\ m[c.pc] \in Byte
      /\ Wrap(c.pc + 1) \in Addr /\ m[Wrap(c.pc + 1)] \in Byte
  BY Fetched
<1>t. /\ e \in Addr
      /\ m[e] \in Byte
      /\ to \in Addr
      /\ \A n : WithPC(Past(c, 2), n) = WithPC(c, n)
      /\ WithPC(c, Wrap(c.pc + 2)) = Past(c, 2)
      /\ WithPC(c, to) \in Cpu
  BY BranchSetTypes DEF BranchSetTyped
<1>2. Ready
  BY DEF BranchSetAt, Now, Ready, OtherForms
<1>3. ASSUME i = 0 PROVE BranchSetAt(1, c, m)'
  <2>1. todo = <<"dp", "offset", "old", "bbs", "target", "jump">>
    BY <1>3 DEF BranchSetAt
  <2>2. Head(todo) = "dp" /\ Tail(todo) = <<"offset", "old", "bbs", "target", "jump">>
    BY <2>1
  <2>3. /\ After(Past(cpu, 1), ram, {cpu.pc})
        /\ tmp'.address = PageOf(cpu) + ram[cpu.pc]
    BY <1>2, <2>2, DpDoes DEF TmpIs
  <2> QED
    BY <1>1, <1>t, <1>3, <2>2, <2>3, Moves
       DEF BranchSetAt, Now, After
<1>4. ASSUME i = 1 PROVE BranchSetAt(2, c, m)'
  <2>1. todo = <<"offset", "old", "bbs", "target", "jump">>
    BY <1>4 DEF BranchSetAt
  <2>2. Head(todo) = "offset" /\ Tail(todo) = <<"old", "bbs", "target", "jump">>
    BY <2>1
  <2>3. /\ After(Past(cpu, 1), ram, {cpu.pc}) /\ tmp'.address = tmp.address
        /\ tmp'.offset = ram[cpu.pc]
    BY <1>2, <2>2, OffsetDoes DEF TmpIs
  <2> QED
    BY <1>1, <1>t, <1>4, <2>2, <2>3, Moves
       DEF BranchSetAt, Now, After
<1>5. ASSUME i = 2 PROVE BranchSetAt(3, c, m)'
  <2>1. todo = <<"old", "bbs", "target", "jump">>
    BY <1>5 DEF BranchSetAt
  <2>2. Head(todo) = "old" /\ Tail(todo) = <<"bbs", "target", "jump">>
    BY <2>1
  <2>3. /\ After(cpu, ram, {tmp.address}) /\ tmp'.data = ram[tmp.address]
        /\ tmp'.offset = tmp.offset
    BY <1>2, <2>2, OldDoes DEF TmpIs
  <2> QED
    BY <1>1, <1>t, <1>5, <2>2, <2>3, Moves
       DEF BranchSetAt, Now, After
<1>6. ASSUME i = 3, taken PROVE BranchSetAt(4, c, m)'
  <2>1. todo = <<"bbs", "target", "jump">>
    BY <1>6 DEF BranchSetAt
  <2>2. Head(todo) = "bbs" /\ Tail(todo) = <<"target", "jump">>
    BY <2>1
  <2>3. /\ AfterIf(IsSet(tmp.data, form.n), cpu, ram, {})
        /\ tmp'.offset = tmp.offset
    BY <1>2, <2>2, BbsDoes DEF TmpIs
  <2> QED
    BY <1>1, <1>t, <1>6, <2>2, <2>3, Moves
       DEF BranchSetAt, Now, AfterIf
<1>7. ASSUME i = 3, ~taken PROVE BranchSetAt(6, c, m)'
  <2>1. todo = <<"bbs", "target", "jump">>
    BY <1>7 DEF BranchSetAt
  <2>2. Head(todo) = "bbs" /\ Tail(todo) = <<"target", "jump">>
    BY <2>1
  <2>3. /\ AfterIf(IsSet(tmp.data, form.n), cpu, ram, {})
    BY <1>2, <2>2, BbsDoes DEF TmpIs
  <2> QED
    BY <1>1, <1>t, <1>7, <2>2, <2>3, Moves
       DEF BranchSetAt, Now, AfterIf
<1>8. ASSUME i = 4 PROVE BranchSetAt(5, c, m)'
  <2>1. todo = <<"target", "jump">>
    BY <1>8 DEF BranchSetAt
  <2>2. Head(todo) = "target" /\ Tail(todo) = <<"jump">>
    BY <2>1
  <2>3. /\ After(cpu, ram, {})
        /\ tmp'.address = Wrap(cpu.pc + Signed(tmp.offset))
    BY <1>2, <2>2, TargetDoes DEF TmpIs
  <2> QED
    BY <1>1, <1>t, <1>8, <2>2, <2>3, Moves
       DEF BranchSetAt, Now, After
<1>9. ASSUME i = 5 PROVE BranchSetAt(6, c, m)'
  <2>1. todo = <<"jump">>
    BY <1>9 DEF BranchSetAt
  <2>2. Head(todo) = "jump" /\ Tail(todo) = <<>>
    BY <2>1
  <2>3. /\ After(WithPC(cpu, tmp.address), ram, {})
    BY <1>2, <2>2, JumpDoes
  <2> QED
    BY <1>1, <1>t, <1>9, <2>2, <2>3, Moves
       DEF BranchSetAt, Now, After
<1>10. i # 6
  BY BlocksLeft DEF BranchSetAt
<1> QED BY <1>3, <1>4, <1>5, <1>6, <1>7, <1>8, <1>9, <1>10 DEF BranchSetAt

LEMMA BranchSetEnds ==
  ASSUME NEW c \in Cpu, NEW m \in Memory, NEW i, BranchSetAt(i, c, m), todo = <<>>,
         form \in OtherForms, form.op = "bbs"
  PROVE  Machine(cpu, ram) = Special(form, c, m)
<1> DEFINE e == PageOf(c) + m[c.pc]
           to == Wrap(Wrap(c.pc + 2) + Signed(m[Wrap(c.pc + 1)]))
           taken == IsSet(m[e], form.n)
<1>1. /\ c.pc \in Addr /\ m[c.pc] \in Byte
      /\ Wrap(c.pc + 1) \in Addr /\ m[Wrap(c.pc + 1)] \in Byte
  BY Fetched
<1>t. /\ e \in Addr
      /\ m[e] \in Byte
      /\ to \in Addr
      /\ \A n : WithPC(Past(c, 2), n) = WithPC(c, n)
      /\ WithPC(c, Wrap(c.pc + 2)) = Past(c, 2)
      /\ WithPC(c, to) \in Cpu
  BY BranchSetTypes DEF BranchSetTyped
<1>o. /\ Wrap(c.pc + 2 + 0) = Wrap(c.pc + 2)
      /\ Wrap(c.pc + 2 + Signed(m[Wrap(c.pc + 1)])) = to
  BY <1>1, Onward
<1>2. cpu = WithPC(c, IF taken THEN to ELSE Wrap(c.pc + 2)) /\ ram = m
  BY DEF BranchSetAt, Now
<1>3. Special(form, c, m) = Machine(WithPC(c, IF taken THEN to ELSE Wrap(c.pc + 2)), m)
  BY <1>o DEF Special, WithPC
<1> QED BY <1>2, <1>3

LEMMA BranchSetBegins ==
  ASSUME NEW c, NEW m, (todo = Others[form.op])', Now(c, m, {})', form'.op = "bbs"
  PROVE  BranchSetAt(0, c, m)'
BY DEF BranchSetAt, Others

(* BBC dp.bit,rel. *)
BranchClrAt(i, c, m) ==
  LET e == PageOf(c) + m[c.pc]
      to == Wrap(Wrap(c.pc + 2) + Signed(m[Wrap(c.pc + 1)]))
      taken == ~IsSet(m[e], form.n)
  IN
  \/ /\ i = 0 /\ todo = <<"dp", "offset", "old", "bbc", "target", "jump">>
     /\ Now(c, m, {})
  \/ /\ i = 1 /\ todo = <<"offset", "old", "bbc", "target", "jump">>
     /\ Now(Past(c, 1), m, {c.pc}) /\ tmp.address = e
  \/ /\ i = 2 /\ todo = <<"old", "bbc", "target", "jump">>
     /\ Now(Past(c, 2), m, {c.pc, Wrap(c.pc + 1)}) /\ tmp.address = e
     /\ tmp.offset = m[Wrap(c.pc + 1)]
  \/ /\ i = 3 /\ todo = <<"bbc", "target", "jump">>
     /\ Now(Past(c, 2), m, {c.pc, Wrap(c.pc + 1), e}) /\ tmp.data = m[e]
     /\ tmp.offset = m[Wrap(c.pc + 1)]
  \/ /\ i = 4 /\ todo = <<"target", "jump">>
     /\ Now(Past(c, 2), m, {c.pc, Wrap(c.pc + 1), e}) /\ taken
     /\ tmp.offset = m[Wrap(c.pc + 1)]
  \/ /\ i = 5 /\ todo = <<"jump">>
     /\ Now(Past(c, 2), m, {c.pc, Wrap(c.pc + 1), e}) /\ taken
     /\ tmp.address = to
  \/ /\ i = 6 /\ todo = <<>>
     /\ Now(WithPC(c, IF taken THEN to ELSE Wrap(c.pc + 2)), m, {c.pc, Wrap(c.pc + 1), e})

BranchClrTyped(c, m) ==
  LET e == PageOf(c) + m[c.pc]
      to == Wrap(Wrap(c.pc + 2) + Signed(m[Wrap(c.pc + 1)]))
      taken == ~IsSet(m[e], form.n)
  IN
  /\ e \in Addr
  /\ m[e] \in Byte
  /\ to \in Addr
  /\ \A n : WithPC(Past(c, 2), n) = WithPC(c, n)
  /\ WithPC(c, Wrap(c.pc + 2)) = Past(c, 2)
  /\ WithPC(c, to) \in Cpu

LEMMA BranchClrTypes ==
  ASSUME NEW c \in Cpu, NEW m \in Memory, form \in OtherForms, form.op = "bbc"
  PROVE  BranchClrTyped(c, m)
<1> DEFINE e == PageOf(c) + m[c.pc]
           to == Wrap(Wrap(c.pc + 2) + Signed(m[Wrap(c.pc + 1)]))
           taken == ~IsSet(m[e], form.n)
<1>1. /\ c.pc \in Addr /\ m[c.pc] \in Byte
      /\ Wrap(c.pc + 1) \in Addr /\ m[Wrap(c.pc + 1)] \in Byte
  BY Fetched
<1>2. e \in Addr
  BY <1>1, Fetched
<1>3. m[e] \in Byte
  BY <1>1, <1>2, Memories
<1>4. to \in Addr
  BY <1>1, Fetched, Sums
<1>5. \A n : WithPC(Past(c, 2), n) = WithPC(c, n)
  BY <1>1, Orders
<1>6. WithPC(c, Wrap(c.pc + 2)) = Past(c, 2)
  BY <1>1, <1>5, Orders
<1>7. WithPC(c, to) \in Cpu
  BY <1>1, <1>4, StillCpu
<1> QED
  BY <1>2, <1>3, <1>4, <1>5, <1>6, <1>7
     DEF BranchClrTyped

LEMMA BranchClrGoes ==
  ASSUME NEW c \in Cpu, NEW m \in Memory, NEW i, BranchClrAt(i, c, m), Block,
         form \in OtherForms, form.op = "bbc"
  PROVE  \E j : BranchClrAt(j, c, m)'
<1> DEFINE e == PageOf(c) + m[c.pc]
           to == Wrap(Wrap(c.pc + 2) + Signed(m[Wrap(c.pc + 1)]))
           taken == ~IsSet(m[e], form.n)
<1>1. /\ c.pc \in Addr /\ m[c.pc] \in Byte
      /\ Wrap(c.pc + 1) \in Addr /\ m[Wrap(c.pc + 1)] \in Byte
  BY Fetched
<1>t. /\ e \in Addr
      /\ m[e] \in Byte
      /\ to \in Addr
      /\ \A n : WithPC(Past(c, 2), n) = WithPC(c, n)
      /\ WithPC(c, Wrap(c.pc + 2)) = Past(c, 2)
      /\ WithPC(c, to) \in Cpu
  BY BranchClrTypes DEF BranchClrTyped
<1>2. Ready
  BY DEF BranchClrAt, Now, Ready, OtherForms
<1>3. ASSUME i = 0 PROVE BranchClrAt(1, c, m)'
  <2>1. todo = <<"dp", "offset", "old", "bbc", "target", "jump">>
    BY <1>3 DEF BranchClrAt
  <2>2. Head(todo) = "dp" /\ Tail(todo) = <<"offset", "old", "bbc", "target", "jump">>
    BY <2>1
  <2>3. /\ After(Past(cpu, 1), ram, {cpu.pc})
        /\ tmp'.address = PageOf(cpu) + ram[cpu.pc]
    BY <1>2, <2>2, DpDoes DEF TmpIs
  <2> QED
    BY <1>1, <1>t, <1>3, <2>2, <2>3, Moves
       DEF BranchClrAt, Now, After
<1>4. ASSUME i = 1 PROVE BranchClrAt(2, c, m)'
  <2>1. todo = <<"offset", "old", "bbc", "target", "jump">>
    BY <1>4 DEF BranchClrAt
  <2>2. Head(todo) = "offset" /\ Tail(todo) = <<"old", "bbc", "target", "jump">>
    BY <2>1
  <2>3. /\ After(Past(cpu, 1), ram, {cpu.pc}) /\ tmp'.address = tmp.address
        /\ tmp'.offset = ram[cpu.pc]
    BY <1>2, <2>2, OffsetDoes DEF TmpIs
  <2> QED
    BY <1>1, <1>t, <1>4, <2>2, <2>3, Moves
       DEF BranchClrAt, Now, After
<1>5. ASSUME i = 2 PROVE BranchClrAt(3, c, m)'
  <2>1. todo = <<"old", "bbc", "target", "jump">>
    BY <1>5 DEF BranchClrAt
  <2>2. Head(todo) = "old" /\ Tail(todo) = <<"bbc", "target", "jump">>
    BY <2>1
  <2>3. /\ After(cpu, ram, {tmp.address}) /\ tmp'.data = ram[tmp.address]
        /\ tmp'.offset = tmp.offset
    BY <1>2, <2>2, OldDoes DEF TmpIs
  <2> QED
    BY <1>1, <1>t, <1>5, <2>2, <2>3, Moves
       DEF BranchClrAt, Now, After
<1>6. ASSUME i = 3, taken PROVE BranchClrAt(4, c, m)'
  <2>1. todo = <<"bbc", "target", "jump">>
    BY <1>6 DEF BranchClrAt
  <2>2. Head(todo) = "bbc" /\ Tail(todo) = <<"target", "jump">>
    BY <2>1
  <2>3. /\ AfterIf(~IsSet(tmp.data, form.n), cpu, ram, {})
        /\ tmp'.offset = tmp.offset
    BY <1>2, <2>2, BbcDoes DEF TmpIs
  <2> QED
    BY <1>1, <1>t, <1>6, <2>2, <2>3, Moves
       DEF BranchClrAt, Now, AfterIf
<1>7. ASSUME i = 3, ~taken PROVE BranchClrAt(6, c, m)'
  <2>1. todo = <<"bbc", "target", "jump">>
    BY <1>7 DEF BranchClrAt
  <2>2. Head(todo) = "bbc" /\ Tail(todo) = <<"target", "jump">>
    BY <2>1
  <2>3. /\ AfterIf(~IsSet(tmp.data, form.n), cpu, ram, {})
    BY <1>2, <2>2, BbcDoes DEF TmpIs
  <2> QED
    BY <1>1, <1>t, <1>7, <2>2, <2>3, Moves
       DEF BranchClrAt, Now, AfterIf
<1>8. ASSUME i = 4 PROVE BranchClrAt(5, c, m)'
  <2>1. todo = <<"target", "jump">>
    BY <1>8 DEF BranchClrAt
  <2>2. Head(todo) = "target" /\ Tail(todo) = <<"jump">>
    BY <2>1
  <2>3. /\ After(cpu, ram, {})
        /\ tmp'.address = Wrap(cpu.pc + Signed(tmp.offset))
    BY <1>2, <2>2, TargetDoes DEF TmpIs
  <2> QED
    BY <1>1, <1>t, <1>8, <2>2, <2>3, Moves
       DEF BranchClrAt, Now, After
<1>9. ASSUME i = 5 PROVE BranchClrAt(6, c, m)'
  <2>1. todo = <<"jump">>
    BY <1>9 DEF BranchClrAt
  <2>2. Head(todo) = "jump" /\ Tail(todo) = <<>>
    BY <2>1
  <2>3. /\ After(WithPC(cpu, tmp.address), ram, {})
    BY <1>2, <2>2, JumpDoes
  <2> QED
    BY <1>1, <1>t, <1>9, <2>2, <2>3, Moves
       DEF BranchClrAt, Now, After
<1>10. i # 6
  BY BlocksLeft DEF BranchClrAt
<1> QED BY <1>3, <1>4, <1>5, <1>6, <1>7, <1>8, <1>9, <1>10 DEF BranchClrAt

LEMMA BranchClrEnds ==
  ASSUME NEW c \in Cpu, NEW m \in Memory, NEW i, BranchClrAt(i, c, m), todo = <<>>,
         form \in OtherForms, form.op = "bbc"
  PROVE  Machine(cpu, ram) = Special(form, c, m)
<1> DEFINE e == PageOf(c) + m[c.pc]
           to == Wrap(Wrap(c.pc + 2) + Signed(m[Wrap(c.pc + 1)]))
           taken == ~IsSet(m[e], form.n)
<1>1. /\ c.pc \in Addr /\ m[c.pc] \in Byte
      /\ Wrap(c.pc + 1) \in Addr /\ m[Wrap(c.pc + 1)] \in Byte
  BY Fetched
<1>t. /\ e \in Addr
      /\ m[e] \in Byte
      /\ to \in Addr
      /\ \A n : WithPC(Past(c, 2), n) = WithPC(c, n)
      /\ WithPC(c, Wrap(c.pc + 2)) = Past(c, 2)
      /\ WithPC(c, to) \in Cpu
  BY BranchClrTypes DEF BranchClrTyped
<1>o. /\ Wrap(c.pc + 2 + 0) = Wrap(c.pc + 2)
      /\ Wrap(c.pc + 2 + Signed(m[Wrap(c.pc + 1)])) = to
  BY <1>1, Onward
<1>2. cpu = WithPC(c, IF taken THEN to ELSE Wrap(c.pc + 2)) /\ ram = m
  BY DEF BranchClrAt, Now
<1>3. Special(form, c, m) = Machine(WithPC(c, IF taken THEN to ELSE Wrap(c.pc + 2)), m)
  BY <1>o DEF Special, WithPC
<1> QED BY <1>2, <1>3

LEMMA BranchClrBegins ==
  ASSUME NEW c, NEW m, (todo = Others[form.op])', Now(c, m, {})', form'.op = "bbc"
  PROVE  BranchClrAt(0, c, m)'
BY DEF BranchClrAt, Others

(* CBNE dp,rel. *)
BranchNeAt(i, c, m) ==
  LET e == PageOf(c) + m[c.pc]
      to == Wrap(Wrap(c.pc + 2) + Signed(m[Wrap(c.pc + 1)]))
      taken == m[e] # c.a
  IN
  \/ /\ i = 0 /\ todo = <<"dp", "offset", "old", "cbne", "target", "jump">>
     /\ Now(c, m, {})
  \/ /\ i = 1 /\ todo = <<"offset", "old", "cbne", "target", "jump">>
     /\ Now(Past(c, 1), m, {c.pc}) /\ tmp.address = e
  \/ /\ i = 2 /\ todo = <<"old", "cbne", "target", "jump">>
     /\ Now(Past(c, 2), m, {c.pc, Wrap(c.pc + 1)}) /\ tmp.address = e
     /\ tmp.offset = m[Wrap(c.pc + 1)]
  \/ /\ i = 3 /\ todo = <<"cbne", "target", "jump">>
     /\ Now(Past(c, 2), m, {c.pc, Wrap(c.pc + 1), e}) /\ tmp.data = m[e]
     /\ tmp.offset = m[Wrap(c.pc + 1)]
  \/ /\ i = 4 /\ todo = <<"target", "jump">>
     /\ Now(Past(c, 2), m, {c.pc, Wrap(c.pc + 1), e}) /\ taken
     /\ tmp.offset = m[Wrap(c.pc + 1)]
  \/ /\ i = 5 /\ todo = <<"jump">>
     /\ Now(Past(c, 2), m, {c.pc, Wrap(c.pc + 1), e}) /\ taken
     /\ tmp.address = to
  \/ /\ i = 6 /\ todo = <<>>
     /\ Now(WithPC(c, IF taken THEN to ELSE Wrap(c.pc + 2)), m, {c.pc, Wrap(c.pc + 1), e})

BranchNeTyped(c, m) ==
  LET e == PageOf(c) + m[c.pc]
      to == Wrap(Wrap(c.pc + 2) + Signed(m[Wrap(c.pc + 1)]))
      taken == m[e] # c.a
  IN
  /\ e \in Addr
  /\ m[e] \in Byte
  /\ to \in Addr
  /\ \A n : WithPC(Past(c, 2), n) = WithPC(c, n)
  /\ WithPC(c, Wrap(c.pc + 2)) = Past(c, 2)
  /\ WithPC(c, to) \in Cpu

LEMMA BranchNeTypes ==
  ASSUME NEW c \in Cpu, NEW m \in Memory, form \in OtherForms, form.op = "cbne"
  PROVE  BranchNeTyped(c, m)
<1> DEFINE e == PageOf(c) + m[c.pc]
           to == Wrap(Wrap(c.pc + 2) + Signed(m[Wrap(c.pc + 1)]))
           taken == m[e] # c.a
<1>1. /\ c.pc \in Addr /\ m[c.pc] \in Byte
      /\ Wrap(c.pc + 1) \in Addr /\ m[Wrap(c.pc + 1)] \in Byte
  BY Fetched
<1>2. e \in Addr
  BY <1>1, Fetched
<1>3. m[e] \in Byte
  BY <1>1, <1>2, Memories
<1>4. to \in Addr
  BY <1>1, Fetched, Sums
<1>5. \A n : WithPC(Past(c, 2), n) = WithPC(c, n)
  BY <1>1, Orders
<1>6. WithPC(c, Wrap(c.pc + 2)) = Past(c, 2)
  BY <1>1, <1>5, Orders
<1>7. WithPC(c, to) \in Cpu
  BY <1>1, <1>4, StillCpu
<1> QED
  BY <1>2, <1>3, <1>4, <1>5, <1>6, <1>7
     DEF BranchNeTyped

LEMMA BranchNeGoes ==
  ASSUME NEW c \in Cpu, NEW m \in Memory, NEW i, BranchNeAt(i, c, m), Block,
         form \in OtherForms, form.op = "cbne"
  PROVE  \E j : BranchNeAt(j, c, m)'
<1> DEFINE e == PageOf(c) + m[c.pc]
           to == Wrap(Wrap(c.pc + 2) + Signed(m[Wrap(c.pc + 1)]))
           taken == m[e] # c.a
<1>1. /\ c.pc \in Addr /\ m[c.pc] \in Byte
      /\ Wrap(c.pc + 1) \in Addr /\ m[Wrap(c.pc + 1)] \in Byte
  BY Fetched
<1>t. /\ e \in Addr
      /\ m[e] \in Byte
      /\ to \in Addr
      /\ \A n : WithPC(Past(c, 2), n) = WithPC(c, n)
      /\ WithPC(c, Wrap(c.pc + 2)) = Past(c, 2)
      /\ WithPC(c, to) \in Cpu
  BY BranchNeTypes DEF BranchNeTyped
<1>2. Ready
  BY DEF BranchNeAt, Now, Ready, OtherForms
<1>3. ASSUME i = 0 PROVE BranchNeAt(1, c, m)'
  <2>1. todo = <<"dp", "offset", "old", "cbne", "target", "jump">>
    BY <1>3 DEF BranchNeAt
  <2>2. Head(todo) = "dp" /\ Tail(todo) = <<"offset", "old", "cbne", "target", "jump">>
    BY <2>1
  <2>3. /\ After(Past(cpu, 1), ram, {cpu.pc})
        /\ tmp'.address = PageOf(cpu) + ram[cpu.pc]
    BY <1>2, <2>2, DpDoes DEF TmpIs
  <2> QED
    BY <1>1, <1>t, <1>3, <2>2, <2>3, Moves
       DEF BranchNeAt, Now, After
<1>4. ASSUME i = 1 PROVE BranchNeAt(2, c, m)'
  <2>1. todo = <<"offset", "old", "cbne", "target", "jump">>
    BY <1>4 DEF BranchNeAt
  <2>2. Head(todo) = "offset" /\ Tail(todo) = <<"old", "cbne", "target", "jump">>
    BY <2>1
  <2>3. /\ After(Past(cpu, 1), ram, {cpu.pc}) /\ tmp'.address = tmp.address
        /\ tmp'.offset = ram[cpu.pc]
    BY <1>2, <2>2, OffsetDoes DEF TmpIs
  <2> QED
    BY <1>1, <1>t, <1>4, <2>2, <2>3, Moves
       DEF BranchNeAt, Now, After
<1>5. ASSUME i = 2 PROVE BranchNeAt(3, c, m)'
  <2>1. todo = <<"old", "cbne", "target", "jump">>
    BY <1>5 DEF BranchNeAt
  <2>2. Head(todo) = "old" /\ Tail(todo) = <<"cbne", "target", "jump">>
    BY <2>1
  <2>3. /\ After(cpu, ram, {tmp.address}) /\ tmp'.data = ram[tmp.address]
        /\ tmp'.offset = tmp.offset
    BY <1>2, <2>2, OldDoes DEF TmpIs
  <2> QED
    BY <1>1, <1>t, <1>5, <2>2, <2>3, Moves
       DEF BranchNeAt, Now, After
<1>6. ASSUME i = 3, taken PROVE BranchNeAt(4, c, m)'
  <2>1. todo = <<"cbne", "target", "jump">>
    BY <1>6 DEF BranchNeAt
  <2>2. Head(todo) = "cbne" /\ Tail(todo) = <<"target", "jump">>
    BY <2>1
  <2>3. /\ AfterIf(tmp.data # cpu.a, cpu, ram, {}) /\ tmp'.offset = tmp.offset
    BY <1>2, <2>2, CbneDoes DEF TmpIs
  <2> QED
    BY <1>1, <1>t, <1>6, <2>2, <2>3, Moves
       DEF BranchNeAt, Now, AfterIf
<1>7. ASSUME i = 3, ~taken PROVE BranchNeAt(6, c, m)'
  <2>1. todo = <<"cbne", "target", "jump">>
    BY <1>7 DEF BranchNeAt
  <2>2. Head(todo) = "cbne" /\ Tail(todo) = <<"target", "jump">>
    BY <2>1
  <2>3. /\ AfterIf(tmp.data # cpu.a, cpu, ram, {})
    BY <1>2, <2>2, CbneDoes DEF TmpIs
  <2> QED
    BY <1>1, <1>t, <1>7, <2>2, <2>3, Moves
       DEF BranchNeAt, Now, AfterIf
<1>8. ASSUME i = 4 PROVE BranchNeAt(5, c, m)'
  <2>1. todo = <<"target", "jump">>
    BY <1>8 DEF BranchNeAt
  <2>2. Head(todo) = "target" /\ Tail(todo) = <<"jump">>
    BY <2>1
  <2>3. /\ After(cpu, ram, {})
        /\ tmp'.address = Wrap(cpu.pc + Signed(tmp.offset))
    BY <1>2, <2>2, TargetDoes DEF TmpIs
  <2> QED
    BY <1>1, <1>t, <1>8, <2>2, <2>3, Moves
       DEF BranchNeAt, Now, After
<1>9. ASSUME i = 5 PROVE BranchNeAt(6, c, m)'
  <2>1. todo = <<"jump">>
    BY <1>9 DEF BranchNeAt
  <2>2. Head(todo) = "jump" /\ Tail(todo) = <<>>
    BY <2>1
  <2>3. /\ After(WithPC(cpu, tmp.address), ram, {})
    BY <1>2, <2>2, JumpDoes
  <2> QED
    BY <1>1, <1>t, <1>9, <2>2, <2>3, Moves
       DEF BranchNeAt, Now, After
<1>10. i # 6
  BY BlocksLeft DEF BranchNeAt
<1> QED BY <1>3, <1>4, <1>5, <1>6, <1>7, <1>8, <1>9, <1>10 DEF BranchNeAt

LEMMA BranchNeEnds ==
  ASSUME NEW c \in Cpu, NEW m \in Memory, NEW i, BranchNeAt(i, c, m), todo = <<>>,
         form \in OtherForms, form.op = "cbne"
  PROVE  Machine(cpu, ram) = Special(form, c, m)
<1> DEFINE e == PageOf(c) + m[c.pc]
           to == Wrap(Wrap(c.pc + 2) + Signed(m[Wrap(c.pc + 1)]))
           taken == m[e] # c.a
<1>1. /\ c.pc \in Addr /\ m[c.pc] \in Byte
      /\ Wrap(c.pc + 1) \in Addr /\ m[Wrap(c.pc + 1)] \in Byte
  BY Fetched
<1>t. /\ e \in Addr
      /\ m[e] \in Byte
      /\ to \in Addr
      /\ \A n : WithPC(Past(c, 2), n) = WithPC(c, n)
      /\ WithPC(c, Wrap(c.pc + 2)) = Past(c, 2)
      /\ WithPC(c, to) \in Cpu
  BY BranchNeTypes DEF BranchNeTyped
<1>o. /\ Wrap(c.pc + 2 + 0) = Wrap(c.pc + 2)
      /\ Wrap(c.pc + 2 + Signed(m[Wrap(c.pc + 1)])) = to
  BY <1>1, Onward
<1>2. cpu = WithPC(c, IF taken THEN to ELSE Wrap(c.pc + 2)) /\ ram = m
  BY DEF BranchNeAt, Now
<1>3. Special(form, c, m) = Machine(WithPC(c, IF taken THEN to ELSE Wrap(c.pc + 2)), m)
  BY <1>o DEF Special, WithPC
<1> QED BY <1>2, <1>3

LEMMA BranchNeBegins ==
  ASSUME NEW c, NEW m, (todo = Others[form.op])', Now(c, m, {})', form'.op = "cbne"
  PROVE  BranchNeAt(0, c, m)'
BY DEF BranchNeAt, Others

(* CBNE dp+X,rel. *)
BranchNeXAt(i, c, m) ==
  LET e == PageOf(c) + Low(m[c.pc] + c.x)
      to == Wrap(Wrap(c.pc + 2) + Signed(m[Wrap(c.pc + 1)]))
      taken == m[e] # c.a
  IN
  \/ /\ i = 0
     /\ todo = <<"lo", "offset", "dp+x", "old", "cbne", "target", "jump">>
     /\ Now(c, m, {})
  \/ /\ i = 1 /\ todo = <<"offset", "dp+x", "old", "cbne", "target", "jump">>
     /\ Now(Past(c, 1), m, {c.pc}) /\ tmp.address = m[c.pc]
  \/ /\ i = 2 /\ todo = <<"dp+x", "old", "cbne", "target", "jump">>
     /\ Now(Past(c, 2), m, {c.pc, Wrap(c.pc + 1)}) /\ tmp.address = m[c.pc]
     /\ tmp.offset = m[Wrap(c.pc + 1)]
  \/ /\ i = 3 /\ todo = <<"old", "cbne", "target", "jump">>
     /\ Now(Past(c, 2), m, {c.pc, Wrap(c.pc + 1)}) /\ tmp.address = e
     /\ tmp.offset = m[Wrap(c.pc + 1)]
  \/ /\ i = 4 /\ todo = <<"cbne", "target", "jump">>
     /\ Now(Past(c, 2), m, {c.pc, Wrap(c.pc + 1), e}) /\ tmp.data = m[e]
     /\ tmp.offset = m[Wrap(c.pc + 1)]
  \/ /\ i = 5 /\ todo = <<"target", "jump">>
     /\ Now(Past(c, 2), m, {c.pc, Wrap(c.pc + 1), e}) /\ taken
     /\ tmp.offset = m[Wrap(c.pc + 1)]
  \/ /\ i = 6 /\ todo = <<"jump">>
     /\ Now(Past(c, 2), m, {c.pc, Wrap(c.pc + 1), e}) /\ taken
     /\ tmp.address = to
  \/ /\ i = 7 /\ todo = <<>>
     /\ Now(WithPC(c, IF taken THEN to ELSE Wrap(c.pc + 2)), m, {c.pc, Wrap(c.pc + 1), e})

BranchNeXTyped(c, m) ==
  LET e == PageOf(c) + Low(m[c.pc] + c.x)
      to == Wrap(Wrap(c.pc + 2) + Signed(m[Wrap(c.pc + 1)]))
      taken == m[e] # c.a
  IN
  /\ e \in Addr
  /\ m[e] \in Byte
  /\ to \in Addr
  /\ \A n : WithPC(Past(c, 2), n) = WithPC(c, n)
  /\ WithPC(c, Wrap(c.pc + 2)) = Past(c, 2)
  /\ WithPC(c, to) \in Cpu

LEMMA BranchNeXTypes ==
  ASSUME NEW c \in Cpu, NEW m \in Memory, form \in OtherForms, form.op = "cbnex"
  PROVE  BranchNeXTyped(c, m)
<1> DEFINE e == PageOf(c) + Low(m[c.pc] + c.x)
           to == Wrap(Wrap(c.pc + 2) + Signed(m[Wrap(c.pc + 1)]))
           taken == m[e] # c.a
<1>1. /\ c.pc \in Addr /\ m[c.pc] \in Byte
      /\ Wrap(c.pc + 1) \in Addr /\ m[Wrap(c.pc + 1)] \in Byte
  BY Fetched
<1>2. e \in Addr
  BY <1>1, Fetched, CpuIs, Sums
<1>3. m[e] \in Byte
  BY <1>1, <1>2, Memories
<1>4. to \in Addr
  BY <1>1, Fetched, Sums
<1>5. \A n : WithPC(Past(c, 2), n) = WithPC(c, n)
  BY <1>1, Orders
<1>6. WithPC(c, Wrap(c.pc + 2)) = Past(c, 2)
  BY <1>1, <1>5, Orders
<1>7. WithPC(c, to) \in Cpu
  BY <1>1, <1>4, StillCpu, SMTT(20)
<1> QED
  BY <1>2, <1>3, <1>4, <1>5, <1>6, <1>7
     DEF BranchNeXTyped

LEMMA BranchNeXGoes ==
  ASSUME NEW c \in Cpu, NEW m \in Memory, NEW i, BranchNeXAt(i, c, m), Block,
         form \in OtherForms, form.op = "cbnex"
  PROVE  \E j : BranchNeXAt(j, c, m)'
<1> DEFINE e == PageOf(c) + Low(m[c.pc] + c.x)
           to == Wrap(Wrap(c.pc + 2) + Signed(m[Wrap(c.pc + 1)]))
           taken == m[e] # c.a
<1>1. /\ c.pc \in Addr /\ m[c.pc] \in Byte
      /\ Wrap(c.pc + 1) \in Addr /\ m[Wrap(c.pc + 1)] \in Byte
  BY Fetched
<1>t. /\ e \in Addr
      /\ m[e] \in Byte
      /\ to \in Addr
      /\ \A n : WithPC(Past(c, 2), n) = WithPC(c, n)
      /\ WithPC(c, Wrap(c.pc + 2)) = Past(c, 2)
      /\ WithPC(c, to) \in Cpu
  BY BranchNeXTypes DEF BranchNeXTyped
<1>2. Ready
  BY DEF BranchNeXAt, Now, Ready, OtherForms
<1>3. ASSUME i = 0 PROVE BranchNeXAt(1, c, m)'
  <2>1. todo = <<"lo", "offset", "dp+x", "old", "cbne", "target", "jump">>
    BY <1>3 DEF BranchNeXAt
  <2>2. Head(todo) = "lo" /\ Tail(todo) = <<"offset", "dp+x", "old", "cbne", "target",
      "jump">>
    BY <2>1
  <2>3. /\ After(Past(cpu, 1), ram, {cpu.pc}) /\ tmp'.address = ram[cpu.pc]
    BY <1>2, <2>2, LoDoes DEF TmpIs
  <2> QED
    BY <1>1, <1>t, <1>3, <2>2, <2>3, Moves
       DEF BranchNeXAt, Now, After
<1>4. ASSUME i = 1 PROVE BranchNeXAt(2, c, m)'
  <2>1. todo = <<"offset", "dp+x", "old", "cbne", "target", "jump">>
    BY <1>4 DEF BranchNeXAt
  <2>2. Head(todo) = "offset" /\ Tail(todo) = <<"dp+x", "old", "cbne", "target", "jump">>
    BY <2>1
  <2>3. /\ After(Past(cpu, 1), ram, {cpu.pc}) /\ tmp'.address = tmp.address
        /\ tmp'.offset = ram[cpu.pc]
    BY <1>2, <2>2, OffsetDoes DEF TmpIs
  <2> QED
    BY <1>1, <1>t, <1>4, <2>2, <2>3, Moves
       DEF BranchNeXAt, Now, After
<1>5. ASSUME i = 2 PROVE BranchNeXAt(3, c, m)'
  <2>1. todo = <<"dp+x", "old", "cbne", "target", "jump">>
    BY <1>5 DEF BranchNeXAt
  <2>2. Head(todo) = "dp+x" /\ Tail(todo) = <<"old", "cbne", "target", "jump">>
    BY <2>1
  <2>3. /\ After(cpu, ram, {})
        /\ tmp'.address = PageOf(cpu) + Low(tmp.address + cpu.x)
        /\ tmp'.offset = tmp.offset
    BY <1>2, <2>2, DpXDoes DEF TmpIs
  <2> QED
    BY <1>1, <1>t, <1>5, <2>2, <2>3, Moves
       DEF BranchNeXAt, Now, After
<1>6. ASSUME i = 3 PROVE BranchNeXAt(4, c, m)'
  <2>1. todo = <<"old", "cbne", "target", "jump">>
    BY <1>6 DEF BranchNeXAt
  <2>2. Head(todo) = "old" /\ Tail(todo) = <<"cbne", "target", "jump">>
    BY <2>1
  <2>3. /\ After(cpu, ram, {tmp.address}) /\ tmp'.data = ram[tmp.address]
        /\ tmp'.offset = tmp.offset
    BY <1>2, <2>2, OldDoes DEF TmpIs
  <2> QED
    BY <1>1, <1>t, <1>6, <2>2, <2>3, Moves
       DEF BranchNeXAt, Now, After
<1>7. ASSUME i = 4, taken PROVE BranchNeXAt(5, c, m)'
  <2>1. todo = <<"cbne", "target", "jump">>
    BY <1>7 DEF BranchNeXAt
  <2>2. Head(todo) = "cbne" /\ Tail(todo) = <<"target", "jump">>
    BY <2>1
  <2>3. /\ AfterIf(tmp.data # cpu.a, cpu, ram, {}) /\ tmp'.offset = tmp.offset
    BY <1>2, <2>2, CbneDoes DEF TmpIs
  <2> QED
    BY <1>1, <1>t, <1>7, <2>2, <2>3, Moves
       DEF BranchNeXAt, Now, AfterIf
<1>8. ASSUME i = 4, ~taken PROVE BranchNeXAt(7, c, m)'
  <2>1. todo = <<"cbne", "target", "jump">>
    BY <1>8 DEF BranchNeXAt
  <2>2. Head(todo) = "cbne" /\ Tail(todo) = <<"target", "jump">>
    BY <2>1
  <2>3. /\ AfterIf(tmp.data # cpu.a, cpu, ram, {})
    BY <1>2, <2>2, CbneDoes DEF TmpIs
  <2> QED
    BY <1>1, <1>t, <1>8, <2>2, <2>3, Moves
       DEF BranchNeXAt, Now, AfterIf
<1>9. ASSUME i = 5 PROVE BranchNeXAt(6, c, m)'
  <2>1. todo = <<"target", "jump">>
    BY <1>9 DEF BranchNeXAt
  <2>2. Head(todo) = "target" /\ Tail(todo) = <<"jump">>
    BY <2>1
  <2>3. /\ After(cpu, ram, {})
        /\ tmp'.address = Wrap(cpu.pc + Signed(tmp.offset))
    BY <1>2, <2>2, TargetDoes DEF TmpIs
  <2> QED
    BY <1>1, <1>t, <1>9, <2>2, <2>3, Moves
       DEF BranchNeXAt, Now, After
<1>10. ASSUME i = 6 PROVE BranchNeXAt(7, c, m)'
  <2>1. todo = <<"jump">>
    BY <1>10 DEF BranchNeXAt
  <2>2. Head(todo) = "jump" /\ Tail(todo) = <<>>
    BY <2>1
  <2>3. /\ After(WithPC(cpu, tmp.address), ram, {})
    BY <1>2, <2>2, JumpDoes
  <2> QED
    BY <1>1, <1>t, <1>10, <2>2, <2>3, Moves
       DEF BranchNeXAt, Now, After
<1>11. i # 7
  BY BlocksLeft DEF BranchNeXAt
<1> QED BY <1>3, <1>4, <1>5, <1>6, <1>7, <1>8, <1>9, <1>10, <1>11 DEF BranchNeXAt

LEMMA BranchNeXEnds ==
  ASSUME NEW c \in Cpu, NEW m \in Memory, NEW i, BranchNeXAt(i, c, m), todo = <<>>,
         form \in OtherForms, form.op = "cbnex"
  PROVE  Machine(cpu, ram) = Special(form, c, m)
<1> DEFINE e == PageOf(c) + Low(m[c.pc] + c.x)
           to == Wrap(Wrap(c.pc + 2) + Signed(m[Wrap(c.pc + 1)]))
           taken == m[e] # c.a
<1>1. /\ c.pc \in Addr /\ m[c.pc] \in Byte
      /\ Wrap(c.pc + 1) \in Addr /\ m[Wrap(c.pc + 1)] \in Byte
  BY Fetched
<1>t. /\ e \in Addr
      /\ m[e] \in Byte
      /\ to \in Addr
      /\ \A n : WithPC(Past(c, 2), n) = WithPC(c, n)
      /\ WithPC(c, Wrap(c.pc + 2)) = Past(c, 2)
      /\ WithPC(c, to) \in Cpu
  BY BranchNeXTypes DEF BranchNeXTyped
<1>o. /\ Wrap(c.pc + 2 + 0) = Wrap(c.pc + 2)
      /\ Wrap(c.pc + 2 + Signed(m[Wrap(c.pc + 1)])) = to
  BY <1>1, Onward
<1>2. cpu = WithPC(c, IF taken THEN to ELSE Wrap(c.pc + 2)) /\ ram = m
  BY DEF BranchNeXAt, Now
<1>3. Special(form, c, m) = Machine(WithPC(c, IF taken THEN to ELSE Wrap(c.pc + 2)), m)
  BY <1>o DEF Special, WithPC
<1> QED BY <1>2, <1>3

LEMMA BranchNeXBegins ==
  ASSUME NEW c, NEW m, (todo = Others[form.op])', Now(c, m, {})', form'.op = "cbnex"
  PROVE  BranchNeXAt(0, c, m)'
BY DEF BranchNeXAt, Others

(* DBNZ dp,rel. *)
CountDownAt(i, c, m) ==
  LET e == PageOf(c) + m[c.pc]
      to == Wrap(Wrap(c.pc + 2) + Signed(m[Wrap(c.pc + 1)]))
      v == Low(m[e] - 1)
  IN
  \/ /\ i = 0 /\ todo = <<"dp", "offset", "old", "dbnz", "target", "jump">>
     /\ Now(c, m, {})
  \/ /\ i = 1 /\ todo = <<"offset", "old", "dbnz", "target", "jump">>
     /\ Now(Past(c, 1), m, {c.pc}) /\ tmp.address = e
  \/ /\ i = 2 /\ todo = <<"old", "dbnz", "target", "jump">>
     /\ Now(Past(c, 2), m, {c.pc, Wrap(c.pc + 1)}) /\ tmp.address = e
     /\ tmp.offset = m[Wrap(c.pc + 1)]
  \/ /\ i = 3 /\ todo = <<"dbnz", "target", "jump">>
     /\ Now(Past(c, 2), m, {c.pc, Wrap(c.pc + 1), e}) /\ tmp.address = e
     /\ tmp.data = m[e] /\ tmp.offset = m[Wrap(c.pc + 1)]
  \/ /\ i = 4 /\ todo = <<"target", "jump">>
     /\ Now(Past(c, 2), Set(m, e, v), {c.pc, Wrap(c.pc + 1), e}) /\ v # 0
     /\ tmp.offset = m[Wrap(c.pc + 1)]
  \/ /\ i = 5 /\ todo = <<"jump">>
     /\ Now(Past(c, 2), Set(m, e, v), {c.pc, Wrap(c.pc + 1), e}) /\ v # 0
     /\ tmp.address = to
  \/ /\ i = 6 /\ todo = <<>>
     /\ Now(WithPC(c, IF v # 0 THEN to ELSE Wrap(c.pc + 2)), Set(m, e, v), {c.pc,
         Wrap(c.pc + 1), e})

CountDownTyped(c, m) ==
  LET e == PageOf(c) + m[c.pc]
      to == Wrap(Wrap(c.pc + 2) + Signed(m[Wrap(c.pc + 1)]))
      v == Low(m[e] - 1)
  IN
  /\ e \in Addr
  /\ m[e] \in Byte
  /\ to \in Addr
  /\ v \in Byte
  /\ Set(m, e, v) \in Memory
  /\ \A n : WithPC(Past(c, 2), n) = WithPC(c, n)
  /\ WithPC(c, Wrap(c.pc + 2)) = Past(c, 2)
  /\ WithPC(c, to) \in Cpu

LEMMA CountDownTypes ==
  ASSUME NEW c \in Cpu, NEW m \in Memory, form \in OtherForms, form.op = "dbnz"
  PROVE  CountDownTyped(c, m)
<1> DEFINE e == PageOf(c) + m[c.pc]
           to == Wrap(Wrap(c.pc + 2) + Signed(m[Wrap(c.pc + 1)]))
           v == Low(m[e] - 1)
<1>1. /\ c.pc \in Addr /\ m[c.pc] \in Byte
      /\ Wrap(c.pc + 1) \in Addr /\ m[Wrap(c.pc + 1)] \in Byte
  BY Fetched
<1>2. e \in Addr
  BY <1>1, Fetched
<1>3. m[e] \in Byte
  BY <1>1, <1>2, Memories
<1>4. to \in Addr
  BY <1>1, Fetched, Sums
<1>5. v \in Byte
  BY <1>1, <1>2, <1>3, Sums
<1>6. Set(m, e, v) \in Memory
  BY <1>1, <1>2, <1>5, Memories
<1>7. \A n : WithPC(Past(c, 2), n) = WithPC(c, n)
  BY <1>1, Orders
<1>8. WithPC(c, Wrap(c.pc + 2)) = Past(c, 2)
  BY <1>1, <1>7, Orders
<1>9. WithPC(c, to) \in Cpu
  BY <1>1, <1>4, StillCpu, SMTT(20)
<1> QED
  BY <1>2, <1>3, <1>4, <1>5, <1>6, <1>7, <1>8, <1>9
     DEF CountDownTyped

LEMMA CountDownGoes ==
  ASSUME NEW c \in Cpu, NEW m \in Memory, NEW i, CountDownAt(i, c, m), Block,
         form \in OtherForms, form.op = "dbnz"
  PROVE  \E j : CountDownAt(j, c, m)'
<1> DEFINE e == PageOf(c) + m[c.pc]
           to == Wrap(Wrap(c.pc + 2) + Signed(m[Wrap(c.pc + 1)]))
           v == Low(m[e] - 1)
<1>1. /\ c.pc \in Addr /\ m[c.pc] \in Byte
      /\ Wrap(c.pc + 1) \in Addr /\ m[Wrap(c.pc + 1)] \in Byte
  BY Fetched
<1>t. /\ e \in Addr
      /\ m[e] \in Byte
      /\ to \in Addr
      /\ v \in Byte
      /\ Set(m, e, v) \in Memory
      /\ \A n : WithPC(Past(c, 2), n) = WithPC(c, n)
      /\ WithPC(c, Wrap(c.pc + 2)) = Past(c, 2)
      /\ WithPC(c, to) \in Cpu
  BY CountDownTypes DEF CountDownTyped
<1>2. Ready
  BY DEF CountDownAt, Now, Ready, OtherForms
<1>3. ASSUME i = 0 PROVE CountDownAt(1, c, m)'
  <2>1. todo = <<"dp", "offset", "old", "dbnz", "target", "jump">>
    BY <1>3 DEF CountDownAt
  <2>2. Head(todo) = "dp" /\ Tail(todo) = <<"offset", "old", "dbnz", "target", "jump">>
    BY <2>1
  <2>3. /\ After(Past(cpu, 1), ram, {cpu.pc})
        /\ tmp'.address = PageOf(cpu) + ram[cpu.pc]
    BY <1>2, <2>2, DpDoes DEF TmpIs
  <2> QED
    BY <1>1, <1>t, <1>3, <2>2, <2>3, Moves
       DEF CountDownAt, Now, After
<1>4. ASSUME i = 1 PROVE CountDownAt(2, c, m)'
  <2>1. todo = <<"offset", "old", "dbnz", "target", "jump">>
    BY <1>4 DEF CountDownAt
  <2>2. Head(todo) = "offset" /\ Tail(todo) = <<"old", "dbnz", "target", "jump">>
    BY <2>1
  <2>3. /\ After(Past(cpu, 1), ram, {cpu.pc}) /\ tmp'.address = tmp.address
        /\ tmp'.offset = ram[cpu.pc]
    BY <1>2, <2>2, OffsetDoes DEF TmpIs
  <2> QED
    BY <1>1, <1>t, <1>4, <2>2, <2>3, Moves
       DEF CountDownAt, Now, After
<1>5. ASSUME i = 2 PROVE CountDownAt(3, c, m)'
  <2>1. todo = <<"old", "dbnz", "target", "jump">>
    BY <1>5 DEF CountDownAt
  <2>2. Head(todo) = "old" /\ Tail(todo) = <<"dbnz", "target", "jump">>
    BY <2>1
  <2>3. /\ After(cpu, ram, {tmp.address}) /\ tmp'.address = tmp.address
        /\ tmp'.data = ram[tmp.address] /\ tmp'.offset = tmp.offset
    BY <1>2, <2>2, OldDoes DEF TmpIs
  <2> QED
    BY <1>1, <1>t, <1>5, <2>2, <2>3, Moves
       DEF CountDownAt, Now, After
<1>6. ASSUME i = 3, v # 0 PROVE CountDownAt(4, c, m)'
  <2>1. todo = <<"dbnz", "target", "jump">>
    BY <1>6 DEF CountDownAt
  <2>2. Head(todo) = "dbnz" /\ Tail(todo) = <<"target", "jump">>
    BY <2>1
  <2>3. /\ AfterIf(Low(tmp.data - 1) # 0, cpu, Set(ram, tmp.address, Low(tmp.data - 1)),
            {tmp.address})
        /\ tmp'.offset = tmp.offset
    BY <1>2, <2>2, DbnzDoes DEF TmpIs
  <2> QED
    BY <1>1, <1>t, <1>6, <2>2, <2>3, Moves
       DEF CountDownAt, Now, AfterIf
<1>7. ASSUME i = 3, v = 0 PROVE CountDownAt(6, c, m)'
  <2>1. todo = <<"dbnz", "target", "jump">>
    BY <1>7 DEF CountDownAt
  <2>2. Head(todo) = "dbnz" /\ Tail(todo) = <<"target", "jump">>
    BY <2>1
  <2>3. /\ AfterIf(Low(tmp.data - 1) # 0, cpu, Set(ram, tmp.address, Low(tmp.data - 1)),
            {tmp.address})
    BY <1>2, <2>2, DbnzDoes DEF TmpIs
  <2> QED
    BY <1>1, <1>t, <1>7, <2>2, <2>3, Moves
       DEF CountDownAt, Now, AfterIf
<1>8. ASSUME i = 4 PROVE CountDownAt(5, c, m)'
  <2>1. todo = <<"target", "jump">>
    BY <1>8 DEF CountDownAt
  <2>2. Head(todo) = "target" /\ Tail(todo) = <<"jump">>
    BY <2>1
  <2>3. /\ After(cpu, ram, {})
        /\ tmp'.address = Wrap(cpu.pc + Signed(tmp.offset))
    BY <1>2, <2>2, TargetDoes DEF TmpIs
  <2> QED
    BY <1>1, <1>t, <1>8, <2>2, <2>3, Moves
       DEF CountDownAt, Now, After
<1>9. ASSUME i = 5 PROVE CountDownAt(6, c, m)'
  <2>1. todo = <<"jump">>
    BY <1>9 DEF CountDownAt
  <2>2. Head(todo) = "jump" /\ Tail(todo) = <<>>
    BY <2>1
  <2>3. /\ After(WithPC(cpu, tmp.address), ram, {})
    BY <1>2, <2>2, JumpDoes
  <2> QED
    BY <1>1, <1>t, <1>9, <2>2, <2>3, Moves
       DEF CountDownAt, Now, After
<1>10. i # 6
  BY BlocksLeft DEF CountDownAt
<1> QED BY <1>3, <1>4, <1>5, <1>6, <1>7, <1>8, <1>9, <1>10 DEF CountDownAt

LEMMA CountDownEnds ==
  ASSUME NEW c \in Cpu, NEW m \in Memory, NEW i, CountDownAt(i, c, m), todo = <<>>,
         form \in OtherForms, form.op = "dbnz"
  PROVE  Machine(cpu, ram) = Special(form, c, m)
<1> DEFINE e == PageOf(c) + m[c.pc]
           to == Wrap(Wrap(c.pc + 2) + Signed(m[Wrap(c.pc + 1)]))
           v == Low(m[e] - 1)
<1>1. /\ c.pc \in Addr /\ m[c.pc] \in Byte
      /\ Wrap(c.pc + 1) \in Addr /\ m[Wrap(c.pc + 1)] \in Byte
  BY Fetched
<1>t. /\ e \in Addr
      /\ m[e] \in Byte
      /\ to \in Addr
      /\ v \in Byte
      /\ Set(m, e, v) \in Memory
      /\ \A n : WithPC(Past(c, 2), n) = WithPC(c, n)
      /\ WithPC(c, Wrap(c.pc + 2)) = Past(c, 2)
      /\ WithPC(c, to) \in Cpu
  BY CountDownTypes DEF CountDownTyped
<1>o. /\ Wrap(c.pc + 2 + 0) = Wrap(c.pc + 2)
      /\ Wrap(c.pc + 2 + Signed(m[Wrap(c.pc + 1)])) = to
  BY <1>1, Onward
<1>2. cpu = WithPC(c, IF v # 0 THEN to ELSE Wrap(c.pc + 2)) /\ ram = Set(m, e, v)
  BY DEF CountDownAt, Now
<1>3. Special(form, c, m) = Machine(WithPC(c, IF v # 0 THEN to ELSE Wrap(c.pc + 2)), Set(m,
    e, v))
  BY <1>o DEF Special, WithPC
<1> QED BY <1>2, <1>3

LEMMA CountDownBegins ==
  ASSUME NEW c, NEW m, (todo = Others[form.op])', Now(c, m, {})', form'.op = "dbnz"
  PROVE  CountDownAt(0, c, m)'
BY DEF CountDownAt, Others

(* DBNZ Y,rel. *)
CountDownYAt(i, c, m) ==
  LET to == Wrap(Wrap(c.pc + 1) + Signed(m[c.pc]))
      v == Low(c.y - 1)
  IN
  \/ /\ i = 0 /\ todo = <<"offset", "y--", "dbnz_y", "target", "jump">>
     /\ Now(c, m, {})
  \/ /\ i = 1 /\ todo = <<"y--", "dbnz_y", "target", "jump">>
     /\ Now(Past(c, 1), m, {c.pc}) /\ tmp.offset = m[c.pc]
  \/ /\ i = 2 /\ todo = <<"dbnz_y", "target", "jump">>
     /\ Now(WithY(Past(c, 1), v), m, {c.pc}) /\ tmp.offset = m[c.pc]
  \/ /\ i = 3 /\ todo = <<"target", "jump">>
     /\ Now(WithY(Past(c, 1), v), m, {c.pc}) /\ v # 0 /\ tmp.offset = m[c.pc]
  \/ /\ i = 4 /\ todo = <<"jump">> /\ Now(WithY(Past(c, 1), v), m, {c.pc})
     /\ v # 0 /\ tmp.address = to
  \/ /\ i = 5 /\ todo = <<>>
     /\ Now(WithY(WithPC(c, IF v # 0 THEN to ELSE Wrap(c.pc + 1)), v), m, {c.pc})

CountDownYTyped(c, m) ==
  LET to == Wrap(Wrap(c.pc + 1) + Signed(m[c.pc]))
      v == Low(c.y - 1)
  IN
  /\ to \in Addr
  /\ v \in Byte
  /\ \A n : WithPC(Past(c, 1), n) = WithPC(c, n)
  /\ WithPC(c, Wrap(c.pc + 1)) = Past(c, 1)
  /\ WithPC(c, to) \in Cpu
  /\ \A n : WithPC(WithY(Past(c, 1), v), n) = WithY(WithPC(Past(c, 1), n), v)
  /\ WithY(Past(c, 1), v).y = v
    /\ WithY(Past(c, 1), v).pc = Wrap(c.pc + 1)
  /\ WithY(WithPC(c, to), v) \in Cpu
  /\ WithY(Past(c, 1), v) \in Cpu

LEMMA CountDownYTypes ==
  ASSUME NEW c \in Cpu, NEW m \in Memory, form \in OtherForms, form.op = "dbnzy"
  PROVE  CountDownYTyped(c, m)
<1> DEFINE to == Wrap(Wrap(c.pc + 1) + Signed(m[c.pc]))
           v == Low(c.y - 1)
<1>1. /\ c.pc \in Addr /\ m[c.pc] \in Byte
      /\ Wrap(c.pc + 1) \in Addr /\ m[Wrap(c.pc + 1)] \in Byte
  BY Fetched
<1>2. to \in Addr
  BY <1>1, Fetched, Sums
<1>3. v \in Byte
  BY <1>1, CpuIs, Sums
<1>4. \A n : WithPC(Past(c, 1), n) = WithPC(c, n)
  BY <1>1, Orders
<1>5. WithPC(c, Wrap(c.pc + 1)) = Past(c, 1)
  BY <1>1, <1>4, Orders
<1>6. WithPC(c, to) \in Cpu
  BY <1>1, <1>2, StillCpu
<1>7. \A n : WithPC(WithY(Past(c, 1), v), n) = WithY(WithPC(Past(c, 1), n), v)
  BY <1>1, <1>3, <1>4, Orders, Moves
<1>8. /\ WithY(Past(c, 1), v).y = v
        /\ WithY(Past(c, 1), v).pc = Wrap(c.pc + 1)
  BY <1>1, <1>3, <1>4, <1>7, Untouched, Moves
<1>9. WithY(WithPC(c, to), v) \in Cpu
  BY <1>1, <1>2, <1>3, <1>6, StillCpu
<1>10. WithY(Past(c, 1), v) \in Cpu
  BY <1>1, <1>3, StillCpu, Moves
<1> QED
  BY <1>2, <1>3, <1>4, <1>5, <1>6, <1>7, <1>8, <1>9, <1>10
     DEF CountDownYTyped

LEMMA CountDownYGoes ==
  ASSUME NEW c \in Cpu, NEW m \in Memory, NEW i, CountDownYAt(i, c, m), Block,
         form \in OtherForms, form.op = "dbnzy"
  PROVE  \E j : CountDownYAt(j, c, m)'
<1> DEFINE to == Wrap(Wrap(c.pc + 1) + Signed(m[c.pc]))
           v == Low(c.y - 1)
<1>1. /\ c.pc \in Addr /\ m[c.pc] \in Byte
      /\ Wrap(c.pc + 1) \in Addr /\ m[Wrap(c.pc + 1)] \in Byte
  BY Fetched
<1>t. /\ to \in Addr
      /\ v \in Byte
      /\ \A n : WithPC(Past(c, 1), n) = WithPC(c, n)
      /\ WithPC(c, Wrap(c.pc + 1)) = Past(c, 1)
      /\ WithPC(c, to) \in Cpu
      /\ \A n : WithPC(WithY(Past(c, 1), v), n) = WithY(WithPC(Past(c, 1), n), v)
      /\ WithY(Past(c, 1), v).y = v
        /\ WithY(Past(c, 1), v).pc = Wrap(c.pc + 1)
      /\ WithY(WithPC(c, to), v) \in Cpu
      /\ WithY(Past(c, 1), v) \in Cpu
  BY CountDownYTypes DEF CountDownYTyped
<1>2. Ready
  BY DEF CountDownYAt, Now, Ready, OtherForms
<1>3. ASSUME i = 0 PROVE CountDownYAt(1, c, m)'
  <2>1. todo = <<"offset", "y--", "dbnz_y", "target", "jump">>
    BY <1>3 DEF CountDownYAt
  <2>2. Head(todo) = "offset" /\ Tail(todo) = <<"y--", "dbnz_y", "target", "jump">>
    BY <2>1
  <2>3. /\ After(Past(cpu, 1), ram, {cpu.pc}) /\ tmp'.offset = ram[cpu.pc]
    BY <1>2, <2>2, OffsetDoes DEF TmpIs
  <2> QED
    BY <1>1, <1>t, <1>3, <2>2, <2>3, Moves
       DEF CountDownYAt, Now, After
<1>4. ASSUME i = 1 PROVE CountDownYAt(2, c, m)'
  <2>1. todo = <<"y--", "dbnz_y", "target", "jump">>
    BY <1>4 DEF CountDownYAt
  <2>2. Head(todo) = "y--" /\ Tail(todo) = <<"dbnz_y", "target", "jump">>
    BY <2>1
  <2>3. /\ After(WithY(cpu, Low(cpu.y - 1)), ram, {})
        /\ tmp'.offset = tmp.offset
    BY <1>2, <2>2, YMinusDoes DEF TmpIs
  <2> QED
    BY <1>1, <1>t, <1>4, <2>2, <2>3, Moves
       DEF CountDownYAt, Now, After
<1>5. ASSUME i = 2, v # 0 PROVE CountDownYAt(3, c, m)'
  <2>1. todo = <<"dbnz_y", "target", "jump">>
    BY <1>5 DEF CountDownYAt
  <2>2. Head(todo) = "dbnz_y" /\ Tail(todo) = <<"target", "jump">>
    BY <2>1
  <2>3. /\ AfterIf(cpu.y # 0, cpu, ram, {}) /\ tmp'.offset = tmp.offset
    BY <1>2, <2>2, DbnzYDoes DEF TmpIs
  <2> QED
    BY <1>1, <1>t, <1>5, <2>2, <2>3, Moves
       DEF CountDownYAt, Now, AfterIf
<1>6. ASSUME i = 2, v = 0 PROVE CountDownYAt(5, c, m)'
  <2>1. todo = <<"dbnz_y", "target", "jump">>
    BY <1>6 DEF CountDownYAt
  <2>2. Head(todo) = "dbnz_y" /\ Tail(todo) = <<"target", "jump">>
    BY <2>1
  <2>3. /\ AfterIf(cpu.y # 0, cpu, ram, {})
    BY <1>2, <2>2, DbnzYDoes DEF TmpIs
  <2> QED
    BY <1>1, <1>t, <1>6, <2>2, <2>3, Moves
       DEF CountDownYAt, Now, AfterIf
<1>7. ASSUME i = 3 PROVE CountDownYAt(4, c, m)'
  <2>1. todo = <<"target", "jump">>
    BY <1>7 DEF CountDownYAt
  <2>2. Head(todo) = "target" /\ Tail(todo) = <<"jump">>
    BY <2>1
  <2>3. /\ After(cpu, ram, {})
        /\ tmp'.address = Wrap(cpu.pc + Signed(tmp.offset))
    BY <1>2, <2>2, TargetDoes DEF TmpIs
  <2> QED
    BY <1>1, <1>t, <1>7, <2>2, <2>3, Moves
       DEF CountDownYAt, Now, After
<1>8. ASSUME i = 4 PROVE CountDownYAt(5, c, m)'
  <2>1. todo = <<"jump">>
    BY <1>8 DEF CountDownYAt
  <2>2. Head(todo) = "jump" /\ Tail(todo) = <<>>
    BY <2>1
  <2>3. /\ After(WithPC(cpu, tmp.address), ram, {})
    BY <1>2, <2>2, JumpDoes
  <2> QED
    BY <1>1, <1>t, <1>8, <2>2, <2>3, Moves
       DEF CountDownYAt, Now, After
<1>9. i # 5
  BY BlocksLeft DEF CountDownYAt
<1> QED BY <1>3, <1>4, <1>5, <1>6, <1>7, <1>8, <1>9 DEF CountDownYAt

LEMMA CountDownYEnds ==
  ASSUME NEW c \in Cpu, NEW m \in Memory, NEW i, CountDownYAt(i, c, m), todo = <<>>,
         form \in OtherForms, form.op = "dbnzy"
  PROVE  Machine(cpu, ram) = Special(form, c, m)
<1> DEFINE to == Wrap(Wrap(c.pc + 1) + Signed(m[c.pc]))
           v == Low(c.y - 1)
<1>1. /\ c.pc \in Addr /\ m[c.pc] \in Byte
      /\ Wrap(c.pc + 1) \in Addr /\ m[Wrap(c.pc + 1)] \in Byte
  BY Fetched
<1>t. /\ to \in Addr
      /\ v \in Byte
      /\ \A n : WithPC(Past(c, 1), n) = WithPC(c, n)
      /\ WithPC(c, Wrap(c.pc + 1)) = Past(c, 1)
      /\ WithPC(c, to) \in Cpu
      /\ \A n : WithPC(WithY(Past(c, 1), v), n) = WithY(WithPC(Past(c, 1), n), v)
      /\ WithY(Past(c, 1), v).y = v
        /\ WithY(Past(c, 1), v).pc = Wrap(c.pc + 1)
      /\ WithY(WithPC(c, to), v) \in Cpu
      /\ WithY(Past(c, 1), v) \in Cpu
  BY CountDownYTypes DEF CountDownYTyped
<1>o. /\ Wrap(c.pc + 1 + 0) = Wrap(c.pc + 1)
      /\ Wrap(c.pc + 1 + Signed(m[c.pc])) = to
  BY <1>1, Onward
<1>2. cpu = WithY(WithPC(c, IF v # 0 THEN to ELSE Wrap(c.pc + 1)), v) /\ ram = m
  BY DEF CountDownYAt, Now
<1>3. Special(form, c, m) = Machine(WithY(WithPC(c, IF v # 0 THEN to ELSE Wrap(c.pc + 1)),
    v), m)
  BY <1>o DEF Special, WithPC, WithY
<1> QED BY <1>2, <1>3

LEMMA CountDownYBegins ==
  ASSUME NEW c, NEW m, (todo = Others[form.op])', Now(c, m, {})', form'.op = "dbnzy"
  PROVE  CountDownYAt(0, c, m)'
BY DEF CountDownYAt, Others

(* JMP !abs. *)
JmpAt(i, c, m) ==
  LET e == m[c.pc] + Radix * m[Wrap(c.pc + 1)]
  IN
  \/ /\ i = 0 /\ todo = <<"lo", "jump_hi">> /\ Now(c, m, {})
  \/ /\ i = 1 /\ todo = <<"jump_hi">> /\ Now(Past(c, 1), m, {c.pc})
     /\ tmp.address = m[c.pc]
  \/ /\ i = 2 /\ todo = <<>> /\ Now(WithPC(c, e), m, {c.pc, Wrap(c.pc + 1)})

JmpTyped(c, m) ==
  LET e == m[c.pc] + Radix * m[Wrap(c.pc + 1)]
  IN
  /\ e \in Addr
  /\ m[e] \in Byte
  /\ \A n : WithPC(Past(c, 1), n) = WithPC(c, n)
  /\ WithPC(c, e) \in Cpu

LEMMA JmpTypes ==
  ASSUME NEW c \in Cpu, NEW m \in Memory, form \in OtherForms, form.op = "jmp"
  PROVE  JmpTyped(c, m)
<1> DEFINE e == m[c.pc] + Radix * m[Wrap(c.pc + 1)]
<1>1. /\ c.pc \in Addr /\ m[c.pc] \in Byte
      /\ Wrap(c.pc + 1) \in Addr /\ m[Wrap(c.pc + 1)] \in Byte
  BY Fetched
<1>2. e \in Addr
  BY <1>1, Fetched, Sums, Words
<1>3. m[e] \in Byte
  BY <1>1, <1>2, Memories
<1>4. \A n : WithPC(Past(c, 1), n) = WithPC(c, n)
  BY <1>1, Orders
<1>5. WithPC(c, e) \in Cpu
  BY <1>1, <1>2, StillCpu
<1> QED
  BY <1>2, <1>3, <1>4, <1>5
     DEF JmpTyped

LEMMA JmpGoes ==
  ASSUME NEW c \in Cpu, NEW m \in Memory, NEW i, JmpAt(i, c, m), Block,
         form \in OtherForms, form.op = "jmp"
  PROVE  \E j : JmpAt(j, c, m)'
<1> DEFINE e == m[c.pc] + Radix * m[Wrap(c.pc + 1)]
<1>1. /\ c.pc \in Addr /\ m[c.pc] \in Byte
      /\ Wrap(c.pc + 1) \in Addr /\ m[Wrap(c.pc + 1)] \in Byte
  BY Fetched
<1>t. /\ e \in Addr
      /\ m[e] \in Byte
      /\ \A n : WithPC(Past(c, 1), n) = WithPC(c, n)
      /\ WithPC(c, e) \in Cpu
  BY JmpTypes DEF JmpTyped
<1>2. Ready
  BY DEF JmpAt, Now, Ready, OtherForms
<1>3. ASSUME i = 0 PROVE JmpAt(1, c, m)'
  <2>1. todo = <<"lo", "jump_hi">>
    BY <1>3 DEF JmpAt
  <2>2. Head(todo) = "lo" /\ Tail(todo) = <<"jump_hi">>
    BY <2>1
  <2>3. /\ After(Past(cpu, 1), ram, {cpu.pc}) /\ tmp'.address = ram[cpu.pc]
    BY <1>2, <2>2, LoDoes DEF TmpIs
  <2> QED
    BY <1>1, <1>t, <1>3, <2>2, <2>3, Moves
       DEF JmpAt, Now, After
<1>4. ASSUME i = 1 PROVE JmpAt(2, c, m)'
  <2>1. todo = <<"jump_hi">>
    BY <1>4 DEF JmpAt
  <2>2. Head(todo) = "jump_hi" /\ Tail(todo) = <<>>
    BY <2>1
  <2>3. /\ After(WithPC(cpu, Wrap(Radix * ram[cpu.pc] + tmp.address)), ram, {cpu.pc})
    BY <1>2, <2>2, JumpHiDoes
  <2> QED
    BY <1>1, <1>t, <1>4, <2>2, <2>3, Moves, Words
       DEF JmpAt, Now, After
<1>5. i # 2
  BY BlocksLeft DEF JmpAt
<1> QED BY <1>3, <1>4, <1>5 DEF JmpAt

LEMMA JmpEnds ==
  ASSUME NEW c \in Cpu, NEW m \in Memory, NEW i, JmpAt(i, c, m), todo = <<>>,
         form \in OtherForms, form.op = "jmp"
  PROVE  Machine(cpu, ram) = Special(form, c, m)
<1> DEFINE e == m[c.pc] + Radix * m[Wrap(c.pc + 1)]
<1>2. cpu = WithPC(c, e) /\ ram = m
  BY DEF JmpAt, Now
<1>3. Special(form, c, m) = Machine(WithPC(c, e), m)
  BY DEF Special, WordAt, WithPC
<1> QED BY <1>2, <1>3

LEMMA JmpBegins ==
  ASSUME NEW c, NEW m, (todo = Others[form.op])', Now(c, m, {})', form'.op = "jmp"
  PROVE  JmpAt(0, c, m)'
BY DEF JmpAt, Others

(* JMP [!abs+X]. *)
JmpXAt(i, c, m) ==
  LET e == m[c.pc] + Radix * m[Wrap(c.pc + 1)]
      t == Wrap(e + c.x)
      u == Wrap(t + 1)
  IN
  \/ /\ i = 0 /\ todo = <<"lo", "hi_stay", "+x", "pcl", "pch">>
     /\ Now(c, m, {})
  \/ /\ i = 1 /\ todo = <<"hi_stay", "+x", "pcl", "pch">>
     /\ Now(Past(c, 1), m, {c.pc}) /\ tmp.address = m[c.pc]
  \/ /\ i = 2 /\ todo = <<"+x", "pcl", "pch">>
     /\ Now(Past(c, 1), m, {c.pc, Wrap(c.pc + 1)}) /\ tmp.address = e
  \/ /\ i = 3 /\ todo = <<"pcl", "pch">>
     /\ Now(Past(c, 1), m, {c.pc, Wrap(c.pc + 1)}) /\ tmp.address = t
  \/ /\ i = 4 /\ todo = <<"pch">>
     /\ Now(Past(c, 1), m, {c.pc, Wrap(c.pc + 1), t}) /\ tmp.address = t
     /\ tmp.offset = m[t]
  \/ /\ i = 5 /\ todo = <<>>
     /\ Now(WithPC(c, m[t] + Radix * m[u]), m, {c.pc, Wrap(c.pc + 1), t, u})

JmpXTyped(c, m) ==
  LET e == m[c.pc] + Radix * m[Wrap(c.pc + 1)]
      t == Wrap(e + c.x)
      u == Wrap(t + 1)
  IN
  /\ e \in Addr
  /\ m[e] \in Byte
  /\ t \in Addr
  /\ m[t] \in Byte
  /\ u \in Addr
  /\ m[u] \in Byte
  /\ \A n : WithPC(Past(c, 1), n) = WithPC(c, n)
  /\ WithPC(c, m[t] + Radix * m[u]) \in Cpu

LEMMA JmpXTypes ==
  ASSUME NEW c \in Cpu, NEW m \in Memory, form \in OtherForms, form.op = "jmpx"
  PROVE  JmpXTyped(c, m)
<1> DEFINE e == m[c.pc] + Radix * m[Wrap(c.pc + 1)]
           t == Wrap(e + c.x)
           u == Wrap(t + 1)
<1>1. /\ c.pc \in Addr /\ m[c.pc] \in Byte
      /\ Wrap(c.pc + 1) \in Addr /\ m[Wrap(c.pc + 1)] \in Byte
  BY Fetched
<1>2. e \in Addr
  BY <1>1, Fetched, Sums, Words
<1>3. m[e] \in Byte
  BY <1>1, <1>2, Memories
<1>4. t \in Addr
  BY <1>1, <1>2, CpuIs, Sums
<1>5. m[t] \in Byte
  BY <1>1, <1>4, Memories
<1>6. u \in Addr
  BY <1>1, <1>4, Sums
<1>7. m[u] \in Byte
  BY <1>1, <1>6, Memories
<1>8. \A n : WithPC(Past(c, 1), n) = WithPC(c, n)
  BY <1>1, Orders
<1>9. WithPC(c, m[t] + Radix * m[u]) \in Cpu
  BY <1>1, <1>4, <1>5, <1>6, <1>7, StillCpu, Words
<1> QED
  BY <1>2, <1>3, <1>4, <1>5, <1>6, <1>7, <1>8, <1>9
     DEF JmpXTyped

LEMMA JmpXGoes ==
  ASSUME NEW c \in Cpu, NEW m \in Memory, NEW i, JmpXAt(i, c, m), Block,
         form \in OtherForms, form.op = "jmpx"
  PROVE  \E j : JmpXAt(j, c, m)'
<1> DEFINE e == m[c.pc] + Radix * m[Wrap(c.pc + 1)]
           t == Wrap(e + c.x)
           u == Wrap(t + 1)
<1>1. /\ c.pc \in Addr /\ m[c.pc] \in Byte
      /\ Wrap(c.pc + 1) \in Addr /\ m[Wrap(c.pc + 1)] \in Byte
  BY Fetched
<1>t. /\ e \in Addr
      /\ m[e] \in Byte
      /\ t \in Addr
      /\ m[t] \in Byte
      /\ u \in Addr
      /\ m[u] \in Byte
      /\ \A n : WithPC(Past(c, 1), n) = WithPC(c, n)
      /\ WithPC(c, m[t] + Radix * m[u]) \in Cpu
  BY JmpXTypes DEF JmpXTyped
<1>2. Ready
  BY DEF JmpXAt, Now, Ready, OtherForms
<1>3. ASSUME i = 0 PROVE JmpXAt(1, c, m)'
  <2>1. todo = <<"lo", "hi_stay", "+x", "pcl", "pch">>
    BY <1>3 DEF JmpXAt
  <2>2. Head(todo) = "lo" /\ Tail(todo) = <<"hi_stay", "+x", "pcl", "pch">>
    BY <2>1
  <2>3. /\ After(Past(cpu, 1), ram, {cpu.pc}) /\ tmp'.address = ram[cpu.pc]
    BY <1>2, <2>2, LoDoes DEF TmpIs
  <2> QED
    BY <1>1, <1>t, <1>3, <2>2, <2>3, Moves
       DEF JmpXAt, Now, After
<1>4. ASSUME i = 1 PROVE JmpXAt(2, c, m)'
  <2>1. todo = <<"hi_stay", "+x", "pcl", "pch">>
    BY <1>4 DEF JmpXAt
  <2>2. Head(todo) = "hi_stay" /\ Tail(todo) = <<"+x", "pcl", "pch">>
    BY <2>1
  <2>3. /\ After(cpu, ram, {cpu.pc})
        /\ tmp'.address = Wrap(tmp.address + Radix * ram[cpu.pc])
    BY <1>2, <2>2, HiStayDoes DEF TmpIs
  <2> QED
    BY <1>1, <1>t, <1>4, <2>2, <2>3, Moves, Words
       DEF JmpXAt, Now, After
<1>5. ASSUME i = 2 PROVE JmpXAt(3, c, m)'
  <2>1. todo = <<"+x", "pcl", "pch">>
    BY <1>5 DEF JmpXAt
  <2>2. Head(todo) = "+x" /\ Tail(todo) = <<"pcl", "pch">>
    BY <2>1
  <2>3. /\ After(cpu, ram, {}) /\ tmp'.address = Wrap(tmp.address + cpu.x)
    BY <1>2, <2>2, PlusXDoes DEF TmpIs
  <2> QED
    BY <1>1, <1>t, <1>5, <2>2, <2>3, Moves
       DEF JmpXAt, Now, After
<1>6. ASSUME i = 3 PROVE JmpXAt(4, c, m)'
  <2>1. todo = <<"pcl", "pch">>
    BY <1>6 DEF JmpXAt
  <2>2. Head(todo) = "pcl" /\ Tail(todo) = <<"pch">>
    BY <2>1
  <2>3. /\ After(cpu, ram, {tmp.address}) /\ tmp'.address = tmp.address
        /\ tmp'.offset = ram[tmp.address]
    BY <1>2, <2>2, PclDoes DEF TmpIs
  <2> QED
    BY <1>1, <1>t, <1>6, <2>2, <2>3, Moves
       DEF JmpXAt, Now, After
<1>7. ASSUME i = 4 PROVE JmpXAt(5, c, m)'
  <2>1. todo = <<"pch">>
    BY <1>7 DEF JmpXAt
  <2>2. Head(todo) = "pch" /\ Tail(todo) = <<>>
    BY <2>1
  <2>3. /\ After(WithPC(cpu, Wrap(Radix * ram[Wrap(tmp.address + 1)] + tmp.offset)), ram,
            {Wrap(tmp.address + 1)})
    BY <1>2, <2>2, PchDoes
  <2> QED
    BY <1>1, <1>t, <1>7, <2>2, <2>3, Moves, Words
       DEF JmpXAt, Now, After
<1>8. i # 5
  BY BlocksLeft DEF JmpXAt
<1> QED BY <1>3, <1>4, <1>5, <1>6, <1>7, <1>8, SMTT(20) DEF JmpXAt

LEMMA JmpXEnds ==
  ASSUME NEW c \in Cpu, NEW m \in Memory, NEW i, JmpXAt(i, c, m), todo = <<>>,
         form \in OtherForms, form.op = "jmpx"
  PROVE  Machine(cpu, ram) = Special(form, c, m)
<1> DEFINE e == m[c.pc] + Radix * m[Wrap(c.pc + 1)]
           t == Wrap(e + c.x)
           u == Wrap(t + 1)
<1>2. cpu = WithPC(c, m[t] + Radix * m[u]) /\ ram = m
  BY DEF JmpXAt, Now
<1>3. Special(form, c, m) = Machine(WithPC(c, m[t] + Radix * m[u]), m)
  BY DEF Special, WordAt, WithPC
<1> QED BY <1>2, <1>3

LEMMA JmpXBegins ==
  ASSUME NEW c, NEW m, (todo = Others[form.op])', Now(c, m, {})', form'.op = "jmpx"
  PROVE  JmpXAt(0, c, m)'
BY DEF JmpXAt, Others

(* PUSH A, X or Y. *)
PushAt(i, c, m) ==
  LET s0 == StackAt(c.sp)
  IN
  \/ /\ i = 0 /\ todo = <<"stack", "store", "sp--">> /\ Now(c, m, {})
  \/ /\ i = 1 /\ todo = <<"store", "sp--">> /\ Now(c, m, {})
     /\ tmp.address = s0
  \/ /\ i = 2 /\ todo = <<"sp--">> /\ Now(c, Set(m, s0, c[form.reg]), {s0})
  \/ /\ i = 3 /\ todo = <<>>
     /\ Now(WithSP(c, Low(c.sp - 1)), Set(m, s0, c[form.reg]), {s0})

PushTyped(c, m) ==
  LET s0 == StackAt(c.sp)
  IN
  /\ s0 \in Addr
  /\ m[s0] \in Byte
  /\ Set(m, s0, c[form.reg]) \in Memory
  /\ Low(c.sp - 1) \in Byte
  /\ c[form.reg] \in Byte
  /\ WithSP(c, Low(c.sp - 1)) \in Cpu

LEMMA PushTypes ==
  ASSUME NEW c \in Cpu, NEW m \in Memory, form \in OtherForms, form.op = "push"
  PROVE  PushTyped(c, m)
<1> DEFINE s0 == StackAt(c.sp)
<1>1. /\ c.pc \in Addr /\ m[c.pc] \in Byte
      /\ Wrap(c.pc + 1) \in Addr /\ m[Wrap(c.pc + 1)] \in Byte
  BY Fetched
<1>2. s0 \in Addr
  BY <1>1, CpuIs, StackCells
<1>3. m[s0] \in Byte
  BY <1>1, <1>2, Memories
<1>4. Set(m, s0, c[form.reg]) \in Memory
  BY <1>1, <1>2, Memories, Moves DEF OtherForms
<1>5. /\ Low(c.sp - 1) \in Byte
  BY <1>1, CpuIs, Sums
<1>6. c[form.reg] \in Byte
  BY <1>1, Moves DEF OtherForms
<1>7. WithSP(c, Low(c.sp - 1)) \in Cpu
  BY <1>1, <1>5, StillCpu
<1> QED
  BY <1>2, <1>3, <1>4, <1>5, <1>6, <1>7
     DEF PushTyped

LEMMA PushGoes ==
  ASSUME NEW c \in Cpu, NEW m \in Memory, NEW i, PushAt(i, c, m), Block,
         form \in OtherForms, form.op = "push"
  PROVE  \E j : PushAt(j, c, m)'
<1> DEFINE s0 == StackAt(c.sp)
<1>1. /\ c.pc \in Addr /\ m[c.pc] \in Byte
      /\ Wrap(c.pc + 1) \in Addr /\ m[Wrap(c.pc + 1)] \in Byte
  BY Fetched
<1>t. /\ s0 \in Addr
      /\ m[s0] \in Byte
      /\ Set(m, s0, c[form.reg]) \in Memory
      /\ Low(c.sp - 1) \in Byte
      /\ c[form.reg] \in Byte
      /\ WithSP(c, Low(c.sp - 1)) \in Cpu
  BY PushTypes DEF PushTyped
<1>2. Ready
  BY DEF PushAt, Now, Ready, OtherForms
<1>3. ASSUME i = 0 PROVE PushAt(1, c, m)'
  <2>1. todo = <<"stack", "store", "sp--">>
    BY <1>3 DEF PushAt
  <2>2. Head(todo) = "stack" /\ Tail(todo) = <<"store", "sp--">>
    BY <2>1
  <2>3. /\ After(cpu, ram, {}) /\ tmp'.address = StackAt(cpu.sp)
    BY <1>2, <2>2, StackDoes DEF TmpIs
  <2> QED
    BY <1>1, <1>t, <1>3, <2>2, <2>3, Moves
       DEF PushAt, Now, After
<1>4. ASSUME i = 1 PROVE PushAt(2, c, m)'
  <2>1. todo = <<"store", "sp--">>
    BY <1>4 DEF PushAt
  <2>2. Head(todo) = "store" /\ Tail(todo) = <<"sp--">>
    BY <2>1
  <2>3. /\ After(cpu, Set(ram, tmp.address, cpu[form.reg]), {tmp.address})
    BY <1>2, <2>2, StoreDoes
  <2> QED
    BY <1>1, <1>t, <1>4, <2>2, <2>3, Moves
       DEF PushAt, Now, After
<1>5. ASSUME i = 2 PROVE PushAt(3, c, m)'
  <2>1. todo = <<"sp--">>
    BY <1>5 DEF PushAt
  <2>2. Head(todo) = "sp--" /\ Tail(todo) = <<>>
    BY <2>1
  <2>3. /\ After(WithSP(cpu, Low(cpu.sp - 1)), ram, {})
    BY <1>2, <2>2, DecSPDoes
  <2> QED
    BY <1>1, <1>t, <1>5, <2>2, <2>3, Moves
       DEF PushAt, Now, After
<1>6. i # 3
  BY BlocksLeft DEF PushAt
<1> QED BY <1>3, <1>4, <1>5, <1>6 DEF PushAt

LEMMA PushEnds ==
  ASSUME NEW c \in Cpu, NEW m \in Memory, NEW i, PushAt(i, c, m), todo = <<>>,
         form \in OtherForms, form.op = "push"
  PROVE  Machine(cpu, ram) = Special(form, c, m)
<1> DEFINE s0 == StackAt(c.sp)
<1>2. cpu = WithSP(c, Low(c.sp - 1)) /\ ram = Set(m, s0, c[form.reg])
  BY DEF PushAt, Now
<1>3. Special(form, c, m) = Machine(WithSP(c, Low(c.sp - 1)), Set(m, s0, c[form.reg]))
  BY DEF Special, WithSP
<1> QED BY <1>2, <1>3

LEMMA PushBegins ==
  ASSUME NEW c, NEW m, (todo = Others[form.op])', Now(c, m, {})', form'.op = "push"
  PROVE  PushAt(0, c, m)'
BY DEF PushAt, Others

(* PUSH PSW. *)
PushFlagsAt(i, c, m) ==
  LET s0 == StackAt(c.sp)
  IN
  \/ /\ i = 0 /\ todo = <<"stack", "push_psw", "sp--">> /\ Now(c, m, {})
  \/ /\ i = 1 /\ todo = <<"push_psw", "sp--">> /\ Now(c, m, {})
     /\ tmp.address = s0
  \/ /\ i = 2 /\ todo = <<"sp--">> /\ Now(c, Set(m, s0, PSW(c)), {s0})
  \/ /\ i = 3 /\ todo = <<>>
     /\ Now(WithSP(c, Low(c.sp - 1)), Set(m, s0, PSW(c)), {s0})

PushFlagsTyped(c, m) ==
  LET s0 == StackAt(c.sp)
  IN
  /\ s0 \in Addr
  /\ m[s0] \in Byte
  /\ Set(m, s0, PSW(c)) \in Memory
  /\ Low(c.sp - 1) \in Byte
  /\ WithSP(c, Low(c.sp - 1)) \in Cpu

LEMMA PushFlagsTypes ==
  ASSUME NEW c \in Cpu, NEW m \in Memory, form \in OtherForms, form.op = "pushpsw"
  PROVE  PushFlagsTyped(c, m)
<1> DEFINE s0 == StackAt(c.sp)
<1>1. /\ c.pc \in Addr /\ m[c.pc] \in Byte
      /\ Wrap(c.pc + 1) \in Addr /\ m[Wrap(c.pc + 1)] \in Byte
  BY Fetched
<1>2. s0 \in Addr
  BY <1>1, CpuIs, StackCells
<1>3. m[s0] \in Byte
  BY <1>1, <1>2, Memories
<1>4. Set(m, s0, PSW(c)) \in Memory
  BY <1>1, <1>2, Memories, PSWIsByte
<1>5. /\ Low(c.sp - 1) \in Byte
  BY <1>1, CpuIs, Sums
<1>6. WithSP(c, Low(c.sp - 1)) \in Cpu
  BY <1>1, <1>5, StillCpu
<1> QED
  BY <1>2, <1>3, <1>4, <1>5, <1>6
     DEF PushFlagsTyped

LEMMA PushFlagsGoes ==
  ASSUME NEW c \in Cpu, NEW m \in Memory, NEW i, PushFlagsAt(i, c, m), Block,
         form \in OtherForms, form.op = "pushpsw"
  PROVE  \E j : PushFlagsAt(j, c, m)'
<1> DEFINE s0 == StackAt(c.sp)
<1>1. /\ c.pc \in Addr /\ m[c.pc] \in Byte
      /\ Wrap(c.pc + 1) \in Addr /\ m[Wrap(c.pc + 1)] \in Byte
  BY Fetched
<1>t. /\ s0 \in Addr
      /\ m[s0] \in Byte
      /\ Set(m, s0, PSW(c)) \in Memory
      /\ Low(c.sp - 1) \in Byte
      /\ WithSP(c, Low(c.sp - 1)) \in Cpu
  BY PushFlagsTypes DEF PushFlagsTyped
<1>2. Ready
  BY DEF PushFlagsAt, Now, Ready, OtherForms
<1>3. ASSUME i = 0 PROVE PushFlagsAt(1, c, m)'
  <2>1. todo = <<"stack", "push_psw", "sp--">>
    BY <1>3 DEF PushFlagsAt
  <2>2. Head(todo) = "stack" /\ Tail(todo) = <<"push_psw", "sp--">>
    BY <2>1
  <2>3. /\ After(cpu, ram, {}) /\ tmp'.address = StackAt(cpu.sp)
    BY <1>2, <2>2, StackDoes DEF TmpIs
  <2> QED
    BY <1>1, <1>t, <1>3, <2>2, <2>3, Moves
       DEF PushFlagsAt, Now, After
<1>4. ASSUME i = 1 PROVE PushFlagsAt(2, c, m)'
  <2>1. todo = <<"push_psw", "sp--">>
    BY <1>4 DEF PushFlagsAt
  <2>2. Head(todo) = "push_psw" /\ Tail(todo) = <<"sp--">>
    BY <2>1
  <2>3. /\ After(cpu, Set(ram, tmp.address, PSW(cpu)), {tmp.address})
    BY <1>2, <2>2, PushPSWDoes
  <2> QED
    BY <1>1, <1>t, <1>4, <2>2, <2>3, Moves
       DEF PushFlagsAt, Now, After
<1>5. ASSUME i = 2 PROVE PushFlagsAt(3, c, m)'
  <2>1. todo = <<"sp--">>
    BY <1>5 DEF PushFlagsAt
  <2>2. Head(todo) = "sp--" /\ Tail(todo) = <<>>
    BY <2>1
  <2>3. /\ After(WithSP(cpu, Low(cpu.sp - 1)), ram, {})
    BY <1>2, <2>2, DecSPDoes
  <2> QED
    BY <1>1, <1>t, <1>5, <2>2, <2>3, Moves
       DEF PushFlagsAt, Now, After
<1>6. i # 3
  BY BlocksLeft DEF PushFlagsAt
<1> QED BY <1>3, <1>4, <1>5, <1>6 DEF PushFlagsAt

LEMMA PushFlagsEnds ==
  ASSUME NEW c \in Cpu, NEW m \in Memory, NEW i, PushFlagsAt(i, c, m), todo = <<>>,
         form \in OtherForms, form.op = "pushpsw"
  PROVE  Machine(cpu, ram) = Special(form, c, m)
<1> DEFINE s0 == StackAt(c.sp)
<1>2. cpu = WithSP(c, Low(c.sp - 1)) /\ ram = Set(m, s0, PSW(c))
  BY DEF PushFlagsAt, Now
<1>3. Special(form, c, m) = Machine(WithSP(c, Low(c.sp - 1)), Set(m, s0, PSW(c)))
  BY DEF Special, WithSP
<1> QED BY <1>2, <1>3

LEMMA PushFlagsBegins ==
  ASSUME NEW c, NEW m, (todo = Others[form.op])', Now(c, m, {})', form'.op = "pushpsw"
  PROVE  PushFlagsAt(0, c, m)'
BY DEF PushFlagsAt, Others

(* POP A, X or Y. *)
PopAt(i, c, m) ==
  LET t1 == StackAt(Low(c.sp + 1))
  IN
  \/ /\ i = 0 /\ todo = <<"sp++", "stack", "load_r">> /\ Now(c, m, {})
  \/ /\ i = 1 /\ todo = <<"stack", "load_r">>
     /\ Now(WithSP(c, Low(c.sp + 1)), m, {})
  \/ /\ i = 2 /\ todo = <<"load_r">> /\ Now(WithSP(c, Low(c.sp + 1)), m, {})
     /\ tmp.address = t1
  \/ /\ i = 3 /\ todo = <<>>
     /\ Now(Pulled(WithSP(c, Low(c.sp + 1)), form.reg, m[t1]), m, {t1})

PopTyped(c, m) ==
  LET t1 == StackAt(Low(c.sp + 1))
  IN
  /\ t1 \in Addr
  /\ m[t1] \in Byte
  /\ Low(c.sp + 1) \in Byte
  /\ WithSP(c, Low(c.sp + 1)).sp = Low(c.sp + 1)
  /\ form.reg \in Registers
  /\ WithSP(c, Low(c.sp + 1)) \in Cpu
  /\ Pulled(WithSP(c, Low(c.sp + 1)), form.reg, m[t1]) \in Cpu

LEMMA PopTypes ==
  ASSUME NEW c \in Cpu, NEW m \in Memory, form \in OtherForms, form.op = "pop"
  PROVE  PopTyped(c, m)
<1> DEFINE t1 == StackAt(Low(c.sp + 1))
<1>1. /\ c.pc \in Addr /\ m[c.pc] \in Byte
      /\ Wrap(c.pc + 1) \in Addr /\ m[Wrap(c.pc + 1)] \in Byte
  BY Fetched
<1>2. t1 \in Addr
  BY <1>1, CpuIs, Sums, StackCells
<1>3. m[t1] \in Byte
  BY <1>1, <1>2, Memories
<1>4. /\ Low(c.sp + 1) \in Byte
  BY <1>1, CpuIs, Sums
<1>5. WithSP(c, Low(c.sp + 1)).sp = Low(c.sp + 1)
  BY <1>1, <1>4, Untouched
<1>6. form.reg \in Registers
  BY <1>1 DEF OtherForms
<1>7. WithSP(c, Low(c.sp + 1)) \in Cpu
  BY <1>1, <1>4, StillCpu
<1>8. Pulled(WithSP(c, Low(c.sp + 1)), form.reg, m[t1]) \in Cpu
  BY <1>1, <1>2, <1>3, <1>4, <1>6, <1>7, StillCpu DEF OtherForms
<1> QED
  BY <1>2, <1>3, <1>4, <1>5, <1>6, <1>7, <1>8
     DEF PopTyped

LEMMA PopGoes ==
  ASSUME NEW c \in Cpu, NEW m \in Memory, NEW i, PopAt(i, c, m), Block,
         form \in OtherForms, form.op = "pop"
  PROVE  \E j : PopAt(j, c, m)'
<1> DEFINE t1 == StackAt(Low(c.sp + 1))
<1>1. /\ c.pc \in Addr /\ m[c.pc] \in Byte
      /\ Wrap(c.pc + 1) \in Addr /\ m[Wrap(c.pc + 1)] \in Byte
  BY Fetched
<1>t. /\ t1 \in Addr
      /\ m[t1] \in Byte
      /\ Low(c.sp + 1) \in Byte
      /\ WithSP(c, Low(c.sp + 1)).sp = Low(c.sp + 1)
      /\ form.reg \in Registers
      /\ WithSP(c, Low(c.sp + 1)) \in Cpu
      /\ Pulled(WithSP(c, Low(c.sp + 1)), form.reg, m[t1]) \in Cpu
  BY PopTypes DEF PopTyped
<1>2. Ready
  BY DEF PopAt, Now, Ready, OtherForms
<1>3. ASSUME i = 0 PROVE PopAt(1, c, m)'
  <2>1. todo = <<"sp++", "stack", "load_r">>
    BY <1>3 DEF PopAt
  <2>2. Head(todo) = "sp++" /\ Tail(todo) = <<"stack", "load_r">>
    BY <2>1
  <2>3. /\ After(WithSP(cpu, Low(cpu.sp + 1)), ram, {})
    BY <1>2, <2>2, IncSPDoes
  <2> QED
    BY <1>1, <1>t, <1>3, <2>2, <2>3, Moves
       DEF PopAt, Now, After
<1>4. ASSUME i = 1 PROVE PopAt(2, c, m)'
  <2>1. todo = <<"stack", "load_r">>
    BY <1>4 DEF PopAt
  <2>2. Head(todo) = "stack" /\ Tail(todo) = <<"load_r">>
    BY <2>1
  <2>3. /\ After(cpu, ram, {}) /\ tmp'.address = StackAt(cpu.sp)
    BY <1>2, <2>2, StackDoes DEF TmpIs
  <2> QED
    BY <1>1, <1>t, <1>4, <2>2, <2>3, Moves
       DEF PopAt, Now, After
<1>5. ASSUME i = 2 PROVE PopAt(3, c, m)'
  <2>1. todo = <<"load_r">>
    BY <1>5 DEF PopAt
  <2>2. Head(todo) = "load_r" /\ Tail(todo) = <<>>
    BY <2>1
  <2>3. /\ After(Pulled(cpu, form.reg, ram[tmp.address]), ram, {tmp.address})
    BY <1>2, <2>2, LoadRDoes
  <2> QED
    BY <1>1, <1>t, <1>5, <2>2, <2>3, Moves
       DEF PopAt, Now, After
<1>6. i # 3
  BY BlocksLeft DEF PopAt
<1> QED BY <1>3, <1>4, <1>5, <1>6 DEF PopAt

LEMMA PopEnds ==
  ASSUME NEW c \in Cpu, NEW m \in Memory, NEW i, PopAt(i, c, m), todo = <<>>,
         form \in OtherForms, form.op = "pop"
  PROVE  Machine(cpu, ram) = Special(form, c, m)
<1> DEFINE t1 == StackAt(Low(c.sp + 1))
<1>1. /\ c.pc \in Addr /\ m[c.pc] \in Byte
      /\ Wrap(c.pc + 1) \in Addr /\ m[Wrap(c.pc + 1)] \in Byte
  BY Fetched
<1>t. /\ t1 \in Addr
      /\ m[t1] \in Byte
      /\ Low(c.sp + 1) \in Byte
      /\ WithSP(c, Low(c.sp + 1)).sp = Low(c.sp + 1)
      /\ form.reg \in Registers
      /\ WithSP(c, Low(c.sp + 1)) \in Cpu
      /\ Pulled(WithSP(c, Low(c.sp + 1)), form.reg, m[t1]) \in Cpu
  BY PopTypes DEF PopTyped
<1>2. cpu = Pulled(WithSP(c, Low(c.sp + 1)), form.reg, m[t1]) /\ ram = m
  BY DEF PopAt, Now
<1>3. Special(form, c, m) = Machine(Pulled(WithSP(c, Low(c.sp + 1)), form.reg, m[t1]), m)
  BY <1>t, RegisterNames DEF Special, WithSP, Pulled, Popped, Cpu
<1> QED BY <1>2, <1>3

LEMMA PopBegins ==
  ASSUME NEW c, NEW m, (todo = Others[form.op])', Now(c, m, {})', form'.op = "pop"
  PROVE  PopAt(0, c, m)'
BY DEF PopAt, Others

(* POP PSW. *)
PopFlagsAt(i, c, m) ==
  LET t1 == StackAt(Low(c.sp + 1))
  IN
  \/ /\ i = 0 /\ todo = <<"sp++", "stack", "load_psw">> /\ Now(c, m, {})
  \/ /\ i = 1 /\ todo = <<"stack", "load_psw">>
     /\ Now(WithSP(c, Low(c.sp + 1)), m, {})
  \/ /\ i = 2 /\ todo = <<"load_psw">> /\ Now(WithSP(c, Low(c.sp + 1)), m, {})
     /\ tmp.address = t1
  \/ /\ i = 3 /\ todo = <<>>
     /\ Now(Restored(WithSP(c, Low(c.sp + 1)), m[t1]), m, {t1})

PopFlagsTyped(c, m) ==
  LET t1 == StackAt(Low(c.sp + 1))
  IN
  /\ t1 \in Addr
  /\ m[t1] \in Byte
  /\ Low(c.sp + 1) \in Byte
  /\ WithSP(c, Low(c.sp + 1)).sp = Low(c.sp + 1)
  /\ WithSP(c, Low(c.sp + 1)) \in Cpu
  /\ Restored(WithSP(c, Low(c.sp + 1)), m[t1]) \in Cpu

LEMMA PopFlagsTypes ==
  ASSUME NEW c \in Cpu, NEW m \in Memory, form \in OtherForms, form.op = "poppsw"
  PROVE  PopFlagsTyped(c, m)
<1> DEFINE t1 == StackAt(Low(c.sp + 1))
<1>1. /\ c.pc \in Addr /\ m[c.pc] \in Byte
      /\ Wrap(c.pc + 1) \in Addr /\ m[Wrap(c.pc + 1)] \in Byte
  BY Fetched
<1>2. t1 \in Addr
  BY <1>1, CpuIs, Sums, StackCells
<1>3. m[t1] \in Byte
  BY <1>1, <1>2, Memories
<1>4. /\ Low(c.sp + 1) \in Byte
  BY <1>1, CpuIs, Sums
<1>5. WithSP(c, Low(c.sp + 1)).sp = Low(c.sp + 1)
  BY <1>1, <1>4, Untouched
<1>6. WithSP(c, Low(c.sp + 1)) \in Cpu
  BY <1>1, <1>4, StillCpu
<1>7. Restored(WithSP(c, Low(c.sp + 1)), m[t1]) \in Cpu
  BY <1>1, <1>2, <1>3, <1>4, <1>6, StillCpu
<1> QED
  BY <1>2, <1>3, <1>4, <1>5, <1>6, <1>7
     DEF PopFlagsTyped

LEMMA PopFlagsGoes ==
  ASSUME NEW c \in Cpu, NEW m \in Memory, NEW i, PopFlagsAt(i, c, m), Block,
         form \in OtherForms, form.op = "poppsw"
  PROVE  \E j : PopFlagsAt(j, c, m)'
<1> DEFINE t1 == StackAt(Low(c.sp + 1))
<1>1. /\ c.pc \in Addr /\ m[c.pc] \in Byte
      /\ Wrap(c.pc + 1) \in Addr /\ m[Wrap(c.pc + 1)] \in Byte
  BY Fetched
<1>t. /\ t1 \in Addr
      /\ m[t1] \in Byte
      /\ Low(c.sp + 1) \in Byte
      /\ WithSP(c, Low(c.sp + 1)).sp = Low(c.sp + 1)
      /\ WithSP(c, Low(c.sp + 1)) \in Cpu
      /\ Restored(WithSP(c, Low(c.sp + 1)), m[t1]) \in Cpu
  BY PopFlagsTypes DEF PopFlagsTyped
<1>2. Ready
  BY DEF PopFlagsAt, Now, Ready, OtherForms
<1>3. ASSUME i = 0 PROVE PopFlagsAt(1, c, m)'
  <2>1. todo = <<"sp++", "stack", "load_psw">>
    BY <1>3 DEF PopFlagsAt
  <2>2. Head(todo) = "sp++" /\ Tail(todo) = <<"stack", "load_psw">>
    BY <2>1
  <2>3. /\ After(WithSP(cpu, Low(cpu.sp + 1)), ram, {})
    BY <1>2, <2>2, IncSPDoes
  <2> QED
    BY <1>1, <1>t, <1>3, <2>2, <2>3, Moves
       DEF PopFlagsAt, Now, After
<1>4. ASSUME i = 1 PROVE PopFlagsAt(2, c, m)'
  <2>1. todo = <<"stack", "load_psw">>
    BY <1>4 DEF PopFlagsAt
  <2>2. Head(todo) = "stack" /\ Tail(todo) = <<"load_psw">>
    BY <2>1
  <2>3. /\ After(cpu, ram, {}) /\ tmp'.address = StackAt(cpu.sp)
    BY <1>2, <2>2, StackDoes DEF TmpIs
  <2> QED
    BY <1>1, <1>t, <1>4, <2>2, <2>3, Moves
       DEF PopFlagsAt, Now, After
<1>5. ASSUME i = 2 PROVE PopFlagsAt(3, c, m)'
  <2>1. todo = <<"load_psw">>
    BY <1>5 DEF PopFlagsAt
  <2>2. Head(todo) = "load_psw" /\ Tail(todo) = <<>>
    BY <2>1
  <2>3. /\ After(Restored(cpu, ram[tmp.address]), ram, {tmp.address})
    BY <1>2, <2>2, LoadPSWDoes
  <2> QED
    BY <1>1, <1>t, <1>5, <2>2, <2>3, Moves
       DEF PopFlagsAt, Now, After
<1>6. i # 3
  BY BlocksLeft DEF PopFlagsAt
<1> QED BY <1>3, <1>4, <1>5, <1>6 DEF PopFlagsAt

LEMMA PopFlagsEnds ==
  ASSUME NEW c \in Cpu, NEW m \in Memory, NEW i, PopFlagsAt(i, c, m), todo = <<>>,
         form \in OtherForms, form.op = "poppsw"
  PROVE  Machine(cpu, ram) = Special(form, c, m)
<1> DEFINE t1 == StackAt(Low(c.sp + 1))
<1>2. cpu = Restored(WithSP(c, Low(c.sp + 1)), m[t1]) /\ ram = m
  BY DEF PopFlagsAt, Now
<1>3. Special(form, c, m) = Machine(Restored(WithSP(c, Low(c.sp + 1)), m[t1]), m)
  BY DEF Special, WithSP, Restored, Popped, Cpu
<1> QED BY <1>2, <1>3

LEMMA PopFlagsBegins ==
  ASSUME NEW c, NEW m, (todo = Others[form.op])', Now(c, m, {})', form'.op = "poppsw"
  PROVE  PopFlagsAt(0, c, m)'
BY DEF PopFlagsAt, Others

(* CALL !abs. *)
CallAt(i, c, m) ==
  LET e == m[c.pc] + Radix * m[Wrap(c.pc + 1)]
      ret == Wrap(c.pc + 2)
      s0 == StackAt(c.sp)
      s1 == StackAt(Low(c.sp - 1))
  IN
  \/ /\ i = 0
     /\ todo = <<"lo2", "hi2", "stack", "push_pch", "push_pcl", "idle", "jump_2">>
     /\ Now(c, m, {})
  \/ /\ i = 1
     /\ todo = <<"hi2", "stack", "push_pch", "push_pcl", "idle", "jump_2">>
     /\ Now(Past(c, 1), m, {c.pc}) /\ tmp.address2 = m[c.pc]
  \/ /\ i = 2 /\ todo = <<"stack", "push_pch", "push_pcl", "idle", "jump_2">>
     /\ Now(Past(c, 2), m, {c.pc, Wrap(c.pc + 1)}) /\ tmp.address2 = e
  \/ /\ i = 3 /\ todo = <<"push_pch", "push_pcl", "idle", "jump_2">>
     /\ Now(Past(c, 2), m, {c.pc, Wrap(c.pc + 1)}) /\ tmp.address = s0
     /\ tmp.address2 = e
  \/ /\ i = 4 /\ todo = <<"push_pcl", "idle", "jump_2">>
     /\ Now(WithSP(Past(c, 2), Low(c.sp - 1)), Set(m, s0, High(ret)), {c.pc, Wrap(c.pc + 1),
         s0})
     /\ tmp.address = s1 /\ tmp.address2 = e
  \/ /\ i = 5 /\ todo = <<"idle", "jump_2">>
     /\ Now(WithSP(Past(c, 2), Low(c.sp - 2)), Set(Set(m, s0, High(ret)), s1, Low(ret)),
         {c.pc, Wrap(c.pc + 1), s0, s1})
     /\ tmp.address2 = e
  \/ /\ i = 6 /\ todo = <<"jump_2">>
     /\ Now(WithSP(Past(c, 2), Low(c.sp - 2)), Set(Set(m, s0, High(ret)), s1, Low(ret)),
         {c.pc, Wrap(c.pc + 1), s0, s1})
     /\ tmp.address2 = e
  \/ /\ i = 7 /\ todo = <<>>
     /\ Now(WithSP(WithPC(c, e), Low(c.sp - 2)), Set(Set(m, s0, High(ret)), s1, Low(ret)),
         {c.pc, Wrap(c.pc + 1), s0, s1})

CallTyped(c, m) ==
  LET e == m[c.pc] + Radix * m[Wrap(c.pc + 1)]
      ret == Wrap(c.pc + 2)
      s0 == StackAt(c.sp)
      s1 == StackAt(Low(c.sp - 1))
  IN
  /\ e \in Addr
  /\ m[e] \in Byte
  /\ ret \in Addr
  /\ s0 \in Addr
  /\ m[s0] \in Byte
  /\ s1 \in Addr
  /\ m[s1] \in Byte
  /\ Set(m, s0, High(ret)) \in Memory
  /\ Set(Set(m, s0, High(ret)), s1, Low(ret)) \in Memory
  /\ Low(c.sp - 1) \in Byte /\ Low(c.sp - 2) \in Byte
  /\ Low(Low(c.sp - 1) - 1) = Low(c.sp - 2)
  /\ Past(c, 2).pc = ret
  /\ WithSP(Past(c, 2), Low(c.sp - 1)).sp = Low(c.sp - 1)
  /\ WithSP(Past(c, 2), Low(c.sp - 1)).pc = Past(c, 2).pc
  /\ \A n : WithSP(WithSP(Past(c, 2), Low(c.sp - 1)), n) = WithSP(Past(c, 2), n)
  /\ WithSP(Past(c, 2), Low(c.sp - 2)).sp = Low(c.sp - 2)
  /\ WithSP(Past(c, 2), Low(c.sp - 2)).pc = Past(c, 2).pc
  /\ \A n : WithSP(WithSP(Past(c, 2), Low(c.sp - 2)), n) = WithSP(Past(c, 2), n)
  /\ WithPC(WithSP(Past(c, 2), Low(c.sp - 2)), e) =
      WithSP(WithPC(Past(c, 2), e), Low(c.sp - 2))
  /\ WithPC(Past(c, 2), e) = WithPC(c, e)
  /\ WithSP(Past(c, 2), Low(c.sp - 1)) \in Cpu
  /\ WithSP(Past(c, 2), Low(c.sp - 2)) \in Cpu
  /\ WithSP(WithPC(c, e), Low(c.sp - 2)) \in Cpu

LEMMA CallTypes ==
  ASSUME NEW c \in Cpu, NEW m \in Memory, form \in OtherForms, form.op = "call"
  PROVE  CallTyped(c, m)
<1> DEFINE e == m[c.pc] + Radix * m[Wrap(c.pc + 1)]
           ret == Wrap(c.pc + 2)
           s0 == StackAt(c.sp)
           s1 == StackAt(Low(c.sp - 1))
<1>1. /\ c.pc \in Addr /\ m[c.pc] \in Byte
      /\ Wrap(c.pc + 1) \in Addr /\ m[Wrap(c.pc + 1)] \in Byte
  BY Fetched
<1>2. e \in Addr
  BY <1>1, Fetched, Sums, Words
<1>3. m[e] \in Byte
  BY <1>1, <1>2, Memories
<1>4. ret \in Addr
  BY <1>1, Fetched, Sums
<1>5. s0 \in Addr
  BY <1>1, CpuIs, StackCells
<1>6. m[s0] \in Byte
  BY <1>1, <1>5, Memories
<1>7. s1 \in Addr
  BY <1>1, CpuIs, Sums, StackCells
<1>8. m[s1] \in Byte
  BY <1>1, <1>7, Memories
<1>9. Set(m, s0, High(ret)) \in Memory
  BY <1>1, <1>4, <1>5, Memories, Numbers
<1>10. Set(Set(m, s0, High(ret)), s1, Low(ret)) \in Memory
  BY <1>1, <1>4, <1>5, <1>7, <1>9, Memories, Numbers
<1>11. /\ Low(c.sp - 1) \in Byte /\ Low(c.sp - 2) \in Byte
  BY <1>1, CpuIs, Sums
<1>12. Low(Low(c.sp - 1) - 1) = Low(c.sp - 2)
  BY <1>1, <1>11, CpuIs, Sums
<1>13. Past(c, 2).pc = ret
  BY <1>1, <1>4, Moves
<1>14. /\ WithSP(Past(c, 2), Low(c.sp - 1)).sp = Low(c.sp - 1)
       /\ WithSP(Past(c, 2), Low(c.sp - 1)).pc = Past(c, 2).pc
  BY <1>1, <1>11, <1>13, Untouched, Moves
<1>15. \A n : WithSP(WithSP(Past(c, 2), Low(c.sp - 1)), n) = WithSP(Past(c, 2), n)
  BY <1>1, <1>11, <1>14, Orders, Moves
<1>16. /\ WithSP(Past(c, 2), Low(c.sp - 2)).sp = Low(c.sp - 2)
       /\ WithSP(Past(c, 2), Low(c.sp - 2)).pc = Past(c, 2).pc
  BY <1>1, <1>11, <1>13, <1>15, Untouched, Moves
<1>17. \A n : WithSP(WithSP(Past(c, 2), Low(c.sp - 2)), n) = WithSP(Past(c, 2), n)
  BY <1>1, <1>11, <1>15, <1>16, Orders, Moves
<1>18. WithPC(WithSP(Past(c, 2), Low(c.sp - 2)), e) =
    WithSP(WithPC(Past(c, 2), e), Low(c.sp - 2))
  BY <1>1, <1>2, <1>11, <1>15, <1>16, <1>17, Orders, Moves
<1>19. WithPC(Past(c, 2), e) = WithPC(c, e)
  BY <1>1, <1>2, <1>15, <1>17, Orders
<1>20. WithSP(Past(c, 2), Low(c.sp - 1)) \in Cpu
  BY <1>1, <1>11, <1>14, StillCpu, Moves
<1>21. WithSP(Past(c, 2), Low(c.sp - 2)) \in Cpu
  BY <1>1, <1>11, <1>16, StillCpu, Moves
<1>22. WithSP(WithPC(c, e), Low(c.sp - 2)) \in Cpu
  BY <1>1, <1>2, <1>11, StillCpu, SMTT(20)
<1> QED
  BY <1>2, <1>3, <1>4, <1>5, <1>6, <1>7, <1>8, <1>9, <1>10, <1>11, <1>12,
     <1>13, <1>14, <1>15, <1>16, <1>17, <1>18, <1>19, <1>20, <1>21, <1>22
     DEF CallTyped

LEMMA CallGoes ==
  ASSUME NEW c \in Cpu, NEW m \in Memory, NEW i, CallAt(i, c, m), Block,
         form \in OtherForms, form.op = "call"
  PROVE  \E j : CallAt(j, c, m)'
<1> DEFINE e == m[c.pc] + Radix * m[Wrap(c.pc + 1)]
           ret == Wrap(c.pc + 2)
           s0 == StackAt(c.sp)
           s1 == StackAt(Low(c.sp - 1))
<1>1. /\ c.pc \in Addr /\ m[c.pc] \in Byte
      /\ Wrap(c.pc + 1) \in Addr /\ m[Wrap(c.pc + 1)] \in Byte
  BY Fetched
<1>t. /\ e \in Addr
      /\ m[e] \in Byte
      /\ ret \in Addr
      /\ s0 \in Addr
      /\ m[s0] \in Byte
      /\ s1 \in Addr
      /\ m[s1] \in Byte
      /\ Set(m, s0, High(ret)) \in Memory
      /\ Set(Set(m, s0, High(ret)), s1, Low(ret)) \in Memory
      /\ Low(c.sp - 1) \in Byte /\ Low(c.sp - 2) \in Byte
      /\ Low(Low(c.sp - 1) - 1) = Low(c.sp - 2)
      /\ Past(c, 2).pc = ret
      /\ WithSP(Past(c, 2), Low(c.sp - 1)).sp = Low(c.sp - 1)
      /\ WithSP(Past(c, 2), Low(c.sp - 1)).pc = Past(c, 2).pc
      /\ \A n : WithSP(WithSP(Past(c, 2), Low(c.sp - 1)), n) = WithSP(Past(c, 2), n)
      /\ WithSP(Past(c, 2), Low(c.sp - 2)).sp = Low(c.sp - 2)
      /\ WithSP(Past(c, 2), Low(c.sp - 2)).pc = Past(c, 2).pc
      /\ \A n : WithSP(WithSP(Past(c, 2), Low(c.sp - 2)), n) = WithSP(Past(c, 2), n)
      /\ WithPC(WithSP(Past(c, 2), Low(c.sp - 2)), e) =
          WithSP(WithPC(Past(c, 2), e), Low(c.sp - 2))
      /\ WithPC(Past(c, 2), e) = WithPC(c, e)
      /\ WithSP(Past(c, 2), Low(c.sp - 1)) \in Cpu
      /\ WithSP(Past(c, 2), Low(c.sp - 2)) \in Cpu
      /\ WithSP(WithPC(c, e), Low(c.sp - 2)) \in Cpu
  BY CallTypes DEF CallTyped
<1>2. Ready
  BY DEF CallAt, Now, Ready, OtherForms
<1>3. ASSUME i = 0 PROVE CallAt(1, c, m)'
  <2>1. todo = <<"lo2", "hi2", "stack", "push_pch", "push_pcl", "idle", "jump_2">>
    BY <1>3 DEF CallAt
  <2>2. Head(todo) = "lo2" /\ Tail(todo) = <<"hi2", "stack", "push_pch", "push_pcl", "idle",
      "jump_2">>
    BY <2>1
  <2>3. /\ After(Past(cpu, 1), ram, {cpu.pc}) /\ tmp'.address2 = ram[cpu.pc]
    BY <1>2, <2>2, Lo2Does DEF TmpIs
  <2> QED
    BY <1>1, <1>t, <1>3, <2>2, <2>3, Moves
       DEF CallAt, Now, After
<1>4. ASSUME i = 1 PROVE CallAt(2, c, m)'
  <2>1. todo = <<"hi2", "stack", "push_pch", "push_pcl", "idle", "jump_2">>
    BY <1>4 DEF CallAt
  <2>2. Head(todo) = "hi2" /\ Tail(todo) = <<"stack", "push_pch", "push_pcl", "idle",
      "jump_2">>
    BY <2>1
  <2>3. /\ After(Past(cpu, 1), ram, {cpu.pc})
        /\ tmp'.address2 = Wrap(tmp.address2 + Radix * ram[cpu.pc])
    BY <1>2, <2>2, Hi2Does DEF TmpIs
  <2> QED
    BY <1>1, <1>t, <1>4, <2>2, <2>3, Moves, Words
       DEF CallAt, Now, After
<1>5. ASSUME i = 2 PROVE CallAt(3, c, m)'
  <2>1. todo = <<"stack", "push_pch", "push_pcl", "idle", "jump_2">>
    BY <1>5 DEF CallAt
  <2>2. Head(todo) = "stack" /\ Tail(todo) = <<"push_pch", "push_pcl", "idle", "jump_2">>
    BY <2>1
  <2>3. /\ After(cpu, ram, {}) /\ tmp'.address = StackAt(cpu.sp)
        /\ tmp'.address2 = tmp.address2
    BY <1>2, <2>2, StackDoes DEF TmpIs
  <2> QED
    BY <1>1, <1>t, <1>5, <2>2, <2>3, Moves
       DEF CallAt, Now, After
<1>6. ASSUME i = 3 PROVE CallAt(4, c, m)'
  <2>1. todo = <<"push_pch", "push_pcl", "idle", "jump_2">>
    BY <1>6 DEF CallAt
  <2>2. Head(todo) = "push_pch" /\ Tail(todo) = <<"push_pcl", "idle", "jump_2">>
    BY <2>1
  <2>3. /\ After(WithSP(cpu, Low(cpu.sp - 1)), Set(ram, tmp.address, High(cpu.pc)),
            {tmp.address})
        /\ tmp'.address = StackAt(Low(cpu.sp - 1))
        /\ tmp'.address2 = tmp.address2
    BY <1>2, <2>2, PushPchDoes DEF TmpIs
  <2> QED
    BY <1>1, <1>t, <1>6, <2>2, <2>3, Moves
       DEF CallAt, Now, After
<1>7. ASSUME i = 4 PROVE CallAt(5, c, m)'
  <2>1. todo = <<"push_pcl", "idle", "jump_2">>
    BY <1>7 DEF CallAt
  <2>2. Head(todo) = "push_pcl" /\ Tail(todo) = <<"idle", "jump_2">>
    BY <2>1
  <2>3. /\ After(WithSP(cpu, Low(cpu.sp - 1)), Set(ram, tmp.address, Low(cpu.pc)),
            {tmp.address})
        /\ tmp'.address2 = tmp.address2
    BY <1>2, <2>2, PushPclDoes, SMTT(20) DEF TmpIs
  <2> QED
    BY <1>1, <1>t, <1>7, <2>2, <2>3, Moves
       DEF CallAt, Now, After
<1>8. ASSUME i = 5 PROVE CallAt(6, c, m)'
  <2>1. todo = <<"idle", "jump_2">>
    BY <1>8 DEF CallAt
  <2>2. Head(todo) = "idle" /\ Tail(todo) = <<"jump_2">>
    BY <2>1
  <2>3. /\ After(cpu, ram, {}) /\ tmp'.address2 = tmp.address2
    BY <1>2, <2>2, IdleDoes DEF TmpIs
  <2> QED
    BY <1>1, <1>t, <1>8, <2>2, <2>3, Moves
       DEF CallAt, Now, After
<1>9. ASSUME i = 6 PROVE CallAt(7, c, m)'
  <2>1. todo = <<"jump_2">>
    BY <1>9 DEF CallAt
  <2>2. Head(todo) = "jump_2" /\ Tail(todo) = <<>>
    BY <2>1
  <2>3. /\ After(WithPC(cpu, tmp.address2), ram, {})
    BY <1>2, <2>2, Jump2Does
  <2> QED
    BY <1>1, <1>t, <1>9, <2>2, <2>3, Moves
       DEF CallAt, Now, After
<1>10. i # 7
  BY BlocksLeft DEF CallAt
<1> QED BY <1>3, <1>4, <1>5, <1>6, <1>7, <1>8, <1>9, <1>10 DEF CallAt

LEMMA CallEnds ==
  ASSUME NEW c \in Cpu, NEW m \in Memory, NEW i, CallAt(i, c, m), todo = <<>>,
         form \in OtherForms, form.op = "call"
  PROVE  Machine(cpu, ram) = Special(form, c, m)
<1> DEFINE e == m[c.pc] + Radix * m[Wrap(c.pc + 1)]
           ret == Wrap(c.pc + 2)
           s0 == StackAt(c.sp)
           s1 == StackAt(Low(c.sp - 1))
<1>1. /\ c.pc \in Addr /\ m[c.pc] \in Byte
      /\ Wrap(c.pc + 1) \in Addr /\ m[Wrap(c.pc + 1)] \in Byte
  BY Fetched
<1>t. /\ e \in Addr
      /\ m[e] \in Byte
      /\ ret \in Addr
      /\ s0 \in Addr
      /\ m[s0] \in Byte
      /\ s1 \in Addr
      /\ m[s1] \in Byte
      /\ Set(m, s0, High(ret)) \in Memory
      /\ Set(Set(m, s0, High(ret)), s1, Low(ret)) \in Memory
      /\ Low(c.sp - 1) \in Byte /\ Low(c.sp - 2) \in Byte
      /\ Low(Low(c.sp - 1) - 1) = Low(c.sp - 2)
      /\ Past(c, 2).pc = ret
      /\ WithSP(Past(c, 2), Low(c.sp - 1)).sp = Low(c.sp - 1)
      /\ WithSP(Past(c, 2), Low(c.sp - 1)).pc = Past(c, 2).pc
      /\ \A n : WithSP(WithSP(Past(c, 2), Low(c.sp - 1)), n) = WithSP(Past(c, 2), n)
      /\ WithSP(Past(c, 2), Low(c.sp - 2)).sp = Low(c.sp - 2)
      /\ WithSP(Past(c, 2), Low(c.sp - 2)).pc = Past(c, 2).pc
      /\ \A n : WithSP(WithSP(Past(c, 2), Low(c.sp - 2)), n) = WithSP(Past(c, 2), n)
      /\ WithPC(WithSP(Past(c, 2), Low(c.sp - 2)), e) =
          WithSP(WithPC(Past(c, 2), e), Low(c.sp - 2))
      /\ WithPC(Past(c, 2), e) = WithPC(c, e)
      /\ WithSP(Past(c, 2), Low(c.sp - 1)) \in Cpu
      /\ WithSP(Past(c, 2), Low(c.sp - 2)) \in Cpu
      /\ WithSP(WithPC(c, e), Low(c.sp - 2)) \in Cpu
  BY CallTypes DEF CallTyped
<1>2. cpu = WithSP(WithPC(c, e), Low(c.sp - 2)) /\ ram =
    Set(Set(m, s0, High(ret)), s1, Low(ret))
  BY DEF CallAt, Now
<1>3. Special(form, c, m) = Machine(WithSP(WithPC(c, e), Low(c.sp - 2)), Set(Set(m, s0,
    High(ret)), s1, Low(ret)))
  BY <1>t, ZenonT(20) DEF Special, WordAt, Called, Popped, PoppedWord, WithSP, WithPC, Cpu
<1> QED BY <1>2, <1>3

LEMMA CallBegins ==
  ASSUME NEW c, NEW m, (todo = Others[form.op])', Now(c, m, {})', form'.op = "call"
  PROVE  CallAt(0, c, m)'
BY DEF CallAt, Others

(* TCALL n. *)
TCallAt(i, c, m) ==
  LET a == VectorAt(form.n)
      b == Wrap(a + 1)
      e == m[a] + Radix * m[b]
      s0 == StackAt(c.sp)
      s1 == StackAt(Low(c.sp - 1))
  IN
  \/ /\ i = 0
     /\ todo = <<"vec_lo", "vec_hi", "stack", "push_pch", "push_pcl", "idle", "jump_2">>
     /\ Now(c, m, {})
  \/ /\ i = 1
     /\ todo = <<"vec_hi", "stack", "push_pch", "push_pcl", "idle", "jump_2">>
     /\ Now(c, m, {a}) /\ tmp.address = a /\ tmp.address2 = m[a]
  \/ /\ i = 2 /\ todo = <<"stack", "push_pch", "push_pcl", "idle", "jump_2">>
     /\ Now(c, m, {a, b}) /\ tmp.address2 = e
  \/ /\ i = 3 /\ todo = <<"push_pch", "push_pcl", "idle", "jump_2">>
     /\ Now(c, m, {a, b}) /\ tmp.address = s0 /\ tmp.address2 = e
  \/ /\ i = 4 /\ todo = <<"push_pcl", "idle", "jump_2">>
     /\ Now(WithSP(c, Low(c.sp - 1)), Set(m, s0, High(c.pc)), {a, b, s0})
     /\ tmp.address = s1 /\ tmp.address2 = e
  \/ /\ i = 5 /\ todo = <<"idle", "jump_2">>
     /\ Now(WithSP(c, Low(c.sp - 2)), Set(Set(m, s0, High(c.pc)), s1, Low(c.pc)), {a, b, s0,
         s1})
     /\ tmp.address2 = e
  \/ /\ i = 6 /\ todo = <<"jump_2">>
     /\ Now(WithSP(c, Low(c.sp - 2)), Set(Set(m, s0, High(c.pc)), s1, Low(c.pc)), {a, b, s0,
         s1})
     /\ tmp.address2 = e
  \/ /\ i = 7 /\ todo = <<>>
     /\ Now(WithSP(WithPC(c, e), Low(c.sp - 2)), Set(Set(m, s0, High(c.pc)), s1, Low(c.pc)),
         {a, b, s0, s1})

TCallTyped(c, m) ==
  LET a == VectorAt(form.n)
      b == Wrap(a + 1)
      e == m[a] + Radix * m[b]
      s0 == StackAt(c.sp)
      s1 == StackAt(Low(c.sp - 1))
  IN
  /\ a \in Addr
  /\ m[a] \in Byte
  /\ b \in Addr
  /\ m[b] \in Byte
  /\ e \in Addr
  /\ m[e] \in Byte
  /\ s0 \in Addr
  /\ m[s0] \in Byte
  /\ s1 \in Addr
  /\ m[s1] \in Byte
  /\ Set(m, s0, High(c.pc)) \in Memory
  /\ Set(Set(m, s0, High(c.pc)), s1, Low(c.pc)) \in Memory
  /\ Low(c.sp - 1) \in Byte /\ Low(c.sp - 2) \in Byte
  /\ Low(Low(c.sp - 1) - 1) = Low(c.sp - 2)
  /\ WithSP(c, Low(c.sp - 1)).sp = Low(c.sp - 1)
  /\ WithSP(c, Low(c.sp - 1)).pc = c.pc
  /\ \A n : WithSP(WithSP(c, Low(c.sp - 1)), n) = WithSP(c, n)
  /\ WithSP(c, Low(c.sp - 2)).sp = Low(c.sp - 2)
  /\ WithSP(c, Low(c.sp - 2)).pc = c.pc
  /\ \A n : WithSP(WithSP(c, Low(c.sp - 2)), n) = WithSP(c, n)
  /\ WithPC(WithSP(c, Low(c.sp - 2)), e) = WithSP(WithPC(c, e), Low(c.sp - 2))
  /\ WithSP(c, Low(c.sp - 1)) \in Cpu
  /\ WithSP(c, Low(c.sp - 2)) \in Cpu
  /\ WithSP(WithPC(c, e), Low(c.sp - 2)) \in Cpu

LEMMA TCallTypes ==
  ASSUME NEW c \in Cpu, NEW m \in Memory, form \in OtherForms, form.op = "tcall"
  PROVE  TCallTyped(c, m)
<1> DEFINE a == VectorAt(form.n)
           b == Wrap(a + 1)
           e == m[a] + Radix * m[b]
           s0 == StackAt(c.sp)
           s1 == StackAt(Low(c.sp - 1))
<1>1. /\ c.pc \in Addr /\ m[c.pc] \in Byte
      /\ Wrap(c.pc + 1) \in Addr /\ m[Wrap(c.pc + 1)] \in Byte
  BY Fetched
<1>2. a \in Addr
  BY <1>1, VectorCells DEF OtherForms
<1>3. m[a] \in Byte
  BY <1>1, <1>2, Memories
<1>4. b \in Addr
  BY <1>1, <1>2, Sums
<1>5. m[b] \in Byte
  BY <1>1, <1>4, Memories
<1>6. e \in Addr
  BY <1>1, <1>2, <1>3, <1>4, <1>5, Words
<1>7. m[e] \in Byte
  BY <1>1, <1>6, Memories
<1>8. s0 \in Addr
  BY <1>1, CpuIs, StackCells
<1>9. m[s0] \in Byte
  BY <1>1, <1>8, Memories
<1>10. s1 \in Addr
  BY <1>1, CpuIs, Sums, StackCells
<1>11. m[s1] \in Byte
  BY <1>1, <1>10, Memories
<1>12. Set(m, s0, High(c.pc)) \in Memory
  BY <1>1, <1>8, Memories, Numbers
<1>13. Set(Set(m, s0, High(c.pc)), s1, Low(c.pc)) \in Memory
  BY <1>1, <1>8, <1>10, <1>12, Memories, Numbers
<1>14. /\ Low(c.sp - 1) \in Byte /\ Low(c.sp - 2) \in Byte
  BY <1>1, CpuIs, Sums
<1>15. Low(Low(c.sp - 1) - 1) = Low(c.sp - 2)
  BY <1>1, <1>14, CpuIs, Sums
<1>16. /\ WithSP(c, Low(c.sp - 1)).sp = Low(c.sp - 1)
       /\ WithSP(c, Low(c.sp - 1)).pc = c.pc
  BY <1>1, <1>14, Untouched, Moves
<1>17. \A n : WithSP(WithSP(c, Low(c.sp - 1)), n) = WithSP(c, n)
  BY <1>1, <1>14, <1>16, Orders, Moves
<1>18. /\ WithSP(c, Low(c.sp - 2)).sp = Low(c.sp - 2)
       /\ WithSP(c, Low(c.sp - 2)).pc = c.pc
  BY <1>1, <1>14, <1>17, Untouched, Moves
<1>19. \A n : WithSP(WithSP(c, Low(c.sp - 2)), n) = WithSP(c, n)
  BY <1>1, <1>14, <1>17, <1>18, Orders, Moves
<1>20. WithPC(WithSP(c, Low(c.sp - 2)), e) = WithSP(WithPC(c, e), Low(c.sp - 2))
  BY <1>1, <1>6, <1>14, <1>17, <1>18, <1>19, Orders
<1>21. WithSP(c, Low(c.sp - 1)) \in Cpu
  BY <1>1, <1>14, <1>16, StillCpu
<1>22. WithSP(c, Low(c.sp - 2)) \in Cpu
  BY <1>1, <1>14, <1>18, StillCpu
<1>23. WithSP(WithPC(c, e), Low(c.sp - 2)) \in Cpu
  BY <1>1, <1>6, <1>14, StillCpu, SMTT(20)
<1> QED
  BY <1>2, <1>3, <1>4, <1>5, <1>6, <1>7, <1>8, <1>9, <1>10, <1>11, <1>12,
     <1>13, <1>14, <1>15, <1>16, <1>17, <1>18, <1>19, <1>20, <1>21, <1>22,
     <1>23
     DEF TCallTyped

LEMMA TCallGoes ==
  ASSUME NEW c \in Cpu, NEW m \in Memory, NEW i, TCallAt(i, c, m), Block,
         form \in OtherForms, form.op = "tcall"
  PROVE  \E j : TCallAt(j, c, m)'
<1> DEFINE a == VectorAt(form.n)
           b == Wrap(a + 1)
           e == m[a] + Radix * m[b]
           s0 == StackAt(c.sp)
           s1 == StackAt(Low(c.sp - 1))
<1>1. /\ c.pc \in Addr /\ m[c.pc] \in Byte
      /\ Wrap(c.pc + 1) \in Addr /\ m[Wrap(c.pc + 1)] \in Byte
  BY Fetched
<1>t. /\ a \in Addr
      /\ m[a] \in Byte
      /\ b \in Addr
      /\ m[b] \in Byte
      /\ e \in Addr
      /\ m[e] \in Byte
      /\ s0 \in Addr
      /\ m[s0] \in Byte
      /\ s1 \in Addr
      /\ m[s1] \in Byte
      /\ Set(m, s0, High(c.pc)) \in Memory
      /\ Set(Set(m, s0, High(c.pc)), s1, Low(c.pc)) \in Memory
      /\ Low(c.sp - 1) \in Byte /\ Low(c.sp - 2) \in Byte
      /\ Low(Low(c.sp - 1) - 1) = Low(c.sp - 2)
      /\ WithSP(c, Low(c.sp - 1)).sp = Low(c.sp - 1)
      /\ WithSP(c, Low(c.sp - 1)).pc = c.pc
      /\ \A n : WithSP(WithSP(c, Low(c.sp - 1)), n) = WithSP(c, n)
      /\ WithSP(c, Low(c.sp - 2)).sp = Low(c.sp - 2)
      /\ WithSP(c, Low(c.sp - 2)).pc = c.pc
      /\ \A n : WithSP(WithSP(c, Low(c.sp - 2)), n) = WithSP(c, n)
      /\ WithPC(WithSP(c, Low(c.sp - 2)), e) = WithSP(WithPC(c, e), Low(c.sp - 2))
      /\ WithSP(c, Low(c.sp - 1)) \in Cpu
      /\ WithSP(c, Low(c.sp - 2)) \in Cpu
      /\ WithSP(WithPC(c, e), Low(c.sp - 2)) \in Cpu
  BY TCallTypes DEF TCallTyped
<1>2. Ready
  BY DEF TCallAt, Now, Ready, OtherForms
<1>3. ASSUME i = 0 PROVE TCallAt(1, c, m)'
  <2>1. todo = <<"vec_lo", "vec_hi", "stack", "push_pch", "push_pcl", "idle", "jump_2">>
    BY <1>3 DEF TCallAt
  <2>2. Head(todo) = "vec_lo" /\ Tail(todo) =
      <<"vec_hi", "stack", "push_pch", "push_pcl", "idle", "jump_2">>
    BY <2>1
  <2>3. /\ After(cpu, ram, {VectorAt(form.n)})
        /\ tmp'.address = VectorAt(form.n)
        /\ tmp'.address2 = ram[VectorAt(form.n)]
    BY <1>2, <2>2, VecLoDoes DEF TmpIs
  <2> QED
    BY <1>1, <1>t, <1>3, <2>2, <2>3, Moves
       DEF TCallAt, Now, After
<1>4. ASSUME i = 1 PROVE TCallAt(2, c, m)'
  <2>1. todo = <<"vec_hi", "stack", "push_pch", "push_pcl", "idle", "jump_2">>
    BY <1>4 DEF TCallAt
  <2>2. Head(todo) = "vec_hi" /\ Tail(todo) =
      <<"stack", "push_pch", "push_pcl", "idle", "jump_2">>
    BY <2>1
  <2>3. /\ After(cpu, ram, {Wrap(tmp.address + 1)})
        /\ tmp'.address2 = Wrap(tmp.address2 + Radix * ram[Wrap(tmp.address + 1)])
    BY <1>2, <2>2, VecHiDoes DEF TmpIs
  <2> QED
    BY <1>1, <1>t, <1>4, <2>2, <2>3, Moves, Words
       DEF TCallAt, Now, After
<1>5. ASSUME i = 2 PROVE TCallAt(3, c, m)'
  <2>1. todo = <<"stack", "push_pch", "push_pcl", "idle", "jump_2">>
    BY <1>5 DEF TCallAt
  <2>2. Head(todo) = "stack" /\ Tail(todo) = <<"push_pch", "push_pcl", "idle", "jump_2">>
    BY <2>1
  <2>3. /\ After(cpu, ram, {}) /\ tmp'.address = StackAt(cpu.sp)
        /\ tmp'.address2 = tmp.address2
    BY <1>2, <2>2, StackDoes DEF TmpIs
  <2> QED
    BY <1>1, <1>t, <1>5, <2>2, <2>3, Moves
       DEF TCallAt, Now, After
<1>6. ASSUME i = 3 PROVE TCallAt(4, c, m)'
  <2>1. todo = <<"push_pch", "push_pcl", "idle", "jump_2">>
    BY <1>6 DEF TCallAt
  <2>2. Head(todo) = "push_pch" /\ Tail(todo) = <<"push_pcl", "idle", "jump_2">>
    BY <2>1
  <2>3. /\ After(WithSP(cpu, Low(cpu.sp - 1)), Set(ram, tmp.address, High(cpu.pc)),
            {tmp.address})
        /\ tmp'.address = StackAt(Low(cpu.sp - 1))
        /\ tmp'.address2 = tmp.address2
    BY <1>2, <2>2, PushPchDoes DEF TmpIs
  <2> QED
    BY <1>1, <1>t, <1>6, <2>2, <2>3, Moves
       DEF TCallAt, Now, After
<1>7. ASSUME i = 4 PROVE TCallAt(5, c, m)'
  <2>1. todo = <<"push_pcl", "idle", "jump_2">>
    BY <1>7 DEF TCallAt
  <2>2. Head(todo) = "push_pcl" /\ Tail(todo) = <<"idle", "jump_2">>
    BY <2>1
  <2>3. /\ After(WithSP(cpu, Low(cpu.sp - 1)), Set(ram, tmp.address, Low(cpu.pc)),
            {tmp.address})
        /\ tmp'.address2 = tmp.address2
    BY <1>2, <2>2, PushPclDoes DEF TmpIs
  <2> QED
    BY <1>1, <1>t, <1>7, <2>2, <2>3, Moves
       DEF TCallAt, Now, After
<1>8. ASSUME i = 5 PROVE TCallAt(6, c, m)'
  <2>1. todo = <<"idle", "jump_2">>
    BY <1>8 DEF TCallAt
  <2>2. Head(todo) = "idle" /\ Tail(todo) = <<"jump_2">>
    BY <2>1
  <2>3. /\ After(cpu, ram, {}) /\ tmp'.address2 = tmp.address2
    BY <1>2, <2>2, IdleDoes DEF TmpIs
  <2> QED
    BY <1>1, <1>t, <1>8, <2>2, <2>3, Moves
       DEF TCallAt, Now, After
<1>9. ASSUME i = 6 PROVE TCallAt(7, c, m)'
  <2>1. todo = <<"jump_2">>
    BY <1>9 DEF TCallAt
  <2>2. Head(todo) = "jump_2" /\ Tail(todo) = <<>>
    BY <2>1
  <2>3. /\ After(WithPC(cpu, tmp.address2), ram, {})
    BY <1>2, <2>2, Jump2Does
  <2> QED
    BY <1>1, <1>t, <1>9, <2>2, <2>3, Moves
       DEF TCallAt, Now, After
<1>10. i # 7
  BY BlocksLeft DEF TCallAt
<1> QED BY <1>3, <1>4, <1>5, <1>6, <1>7, <1>8, <1>9, <1>10 DEF TCallAt

LEMMA TCallEnds ==
  ASSUME NEW c \in Cpu, NEW m \in Memory, NEW i, TCallAt(i, c, m), todo = <<>>,
         form \in OtherForms, form.op = "tcall"
  PROVE  Machine(cpu, ram) = Special(form, c, m)
<1> DEFINE a == VectorAt(form.n)
           b == Wrap(a + 1)
           e == m[a] + Radix * m[b]
           s0 == StackAt(c.sp)
           s1 == StackAt(Low(c.sp - 1))
<1>1. /\ c.pc \in Addr /\ m[c.pc] \in Byte
      /\ Wrap(c.pc + 1) \in Addr /\ m[Wrap(c.pc + 1)] \in Byte
  BY Fetched
<1>t. /\ a \in Addr
      /\ m[a] \in Byte
      /\ b \in Addr
      /\ m[b] \in Byte
      /\ e \in Addr
      /\ m[e] \in Byte
      /\ s0 \in Addr
      /\ m[s0] \in Byte
      /\ s1 \in Addr
      /\ m[s1] \in Byte
      /\ Set(m, s0, High(c.pc)) \in Memory
      /\ Set(Set(m, s0, High(c.pc)), s1, Low(c.pc)) \in Memory
      /\ Low(c.sp - 1) \in Byte /\ Low(c.sp - 2) \in Byte
      /\ Low(Low(c.sp - 1) - 1) = Low(c.sp - 2)
      /\ WithSP(c, Low(c.sp - 1)).sp = Low(c.sp - 1)
      /\ WithSP(c, Low(c.sp - 1)).pc = c.pc
      /\ \A n : WithSP(WithSP(c, Low(c.sp - 1)), n) = WithSP(c, n)
      /\ WithSP(c, Low(c.sp - 2)).sp = Low(c.sp - 2)
      /\ WithSP(c, Low(c.sp - 2)).pc = c.pc
      /\ \A n : WithSP(WithSP(c, Low(c.sp - 2)), n) = WithSP(c, n)
      /\ WithPC(WithSP(c, Low(c.sp - 2)), e) = WithSP(WithPC(c, e), Low(c.sp - 2))
      /\ WithSP(c, Low(c.sp - 1)) \in Cpu
      /\ WithSP(c, Low(c.sp - 2)) \in Cpu
      /\ WithSP(WithPC(c, e), Low(c.sp - 2)) \in Cpu
  BY TCallTypes DEF TCallTyped
<1>o. Wrap(c.pc + 0) = c.pc
  BY <1>1, Onward
<1>2. cpu = WithSP(WithPC(c, e), Low(c.sp - 2)) /\ ram =
    Set(Set(m, s0, High(c.pc)), s1, Low(c.pc))
  BY DEF TCallAt, Now
<1>3. Special(form, c, m) = Machine(WithSP(WithPC(c, e), Low(c.sp - 2)), Set(Set(m, s0,
    High(c.pc)), s1, Low(c.pc)))
  BY <1>t, <1>o, ZenonT(20) DEF Special, WordAt, Called, WithSP, WithPC, Cpu
<1> QED BY <1>2, <1>3

LEMMA TCallBegins ==
  ASSUME NEW c, NEW m, (todo = Others[form.op])', Now(c, m, {})', form'.op = "tcall"
  PROVE  TCallAt(0, c, m)'
BY DEF TCallAt, Others

(* PCALL upage. *)
PCallAt(i, c, m) ==
  LET e == Radix * (Radix - 1) + m[c.pc]
      ret == Wrap(c.pc + 1)
      s0 == StackAt(c.sp)
      s1 == StackAt(Low(c.sp - 1))
  IN
  \/ /\ i = 0
     /\ todo = <<"upage", "stack", "push_pch", "push_pcl_stay", "jump_2_sp--">>
     /\ Now(c, m, {})
  \/ /\ i = 1
     /\ todo = <<"stack", "push_pch", "push_pcl_stay", "jump_2_sp--">>
     /\ Now(Past(c, 1), m, {c.pc}) /\ tmp.address2 = e
  \/ /\ i = 2 /\ todo = <<"push_pch", "push_pcl_stay", "jump_2_sp--">>
     /\ Now(Past(c, 1), m, {c.pc}) /\ tmp.address = s0 /\ tmp.address2 = e
  \/ /\ i = 3 /\ todo = <<"push_pcl_stay", "jump_2_sp--">>
     /\ Now(WithSP(Past(c, 1), Low(c.sp - 1)), Set(m, s0, High(ret)), {c.pc, s0})
     /\ tmp.address = s1 /\ tmp.address2 = e
  \/ /\ i = 4 /\ todo = <<"jump_2_sp--">>
     /\ Now(WithSP(Past(c, 1), Low(c.sp - 1)), Set(Set(m, s0, High(ret)), s1, Low(ret)),
         {c.pc, s0, s1})
     /\ tmp.address2 = e
  \/ /\ i = 5 /\ todo = <<>>
     /\ Now(WithSP(WithPC(c, e), Low(c.sp - 2)), Set(Set(m, s0, High(ret)), s1, Low(ret)),
         {c.pc, s0, s1})

PCallTyped(c, m) ==
  LET e == Radix * (Radix - 1) + m[c.pc]
      ret == Wrap(c.pc + 1)
      s0 == StackAt(c.sp)
      s1 == StackAt(Low(c.sp - 1))
  IN
  /\ e \in Addr
  /\ m[e] \in Byte
  /\ ret \in Addr
  /\ s0 \in Addr
  /\ m[s0] \in Byte
  /\ s1 \in Addr
  /\ m[s1] \in Byte
  /\ Set(m, s0, High(ret)) \in Memory
  /\ Set(Set(m, s0, High(ret)), s1, Low(ret)) \in Memory
  /\ Low(c.sp - 1) \in Byte /\ Low(c.sp - 2) \in Byte
  /\ Low(Low(c.sp - 1) - 1) = Low(c.sp - 2)
  /\ Past(c, 1).pc = ret
  /\ WithSP(Past(c, 1), Low(c.sp - 1)).sp = Low(c.sp - 1)
  /\ WithSP(Past(c, 1), Low(c.sp - 1)).pc = Past(c, 1).pc
  /\ \A n : WithSP(WithSP(Past(c, 1), Low(c.sp - 1)), n) = WithSP(Past(c, 1), n)
  /\ WithSP(Past(c, 1), Low(c.sp - 2)).sp = Low(c.sp - 2)
  /\ WithSP(Past(c, 1), Low(c.sp - 2)).pc = Past(c, 1).pc
  /\ \A n : WithSP(WithSP(Past(c, 1), Low(c.sp - 2)), n) = WithSP(Past(c, 1), n)
  /\ WithPC(WithSP(Past(c, 1), Low(c.sp - 1)), e) =
      WithSP(WithPC(Past(c, 1), e), Low(c.sp - 1))
  /\ WithPC(Past(c, 1), e) = WithPC(c, e)
  /\ \A s, n : WithSP(WithSP(WithPC(c, e), s), n) = WithSP(WithPC(c, e), n)
  /\ WithSP(Past(c, 1), Low(c.sp - 1)) \in Cpu
  /\ WithSP(WithPC(c, e), Low(c.sp - 2)) \in Cpu

LEMMA PCallTypes ==
  ASSUME NEW c \in Cpu, NEW m \in Memory, form \in OtherForms, form.op = "pcall"
  PROVE  PCallTyped(c, m)
<1> DEFINE e == Radix * (Radix - 1) + m[c.pc]
           ret == Wrap(c.pc + 1)
           s0 == StackAt(c.sp)
           s1 == StackAt(Low(c.sp - 1))
<1>1. /\ c.pc \in Addr /\ m[c.pc] \in Byte
      /\ Wrap(c.pc + 1) \in Addr /\ m[Wrap(c.pc + 1)] \in Byte
  BY Fetched
<1>2. e \in Addr
  BY <1>1, Fetched, UpperPage
<1>3. m[e] \in Byte
  BY <1>1, <1>2, Memories
<1>4. ret \in Addr
  BY <1>1, Fetched, Sums
<1>5. s0 \in Addr
  BY <1>1, CpuIs, StackCells
<1>6. m[s0] \in Byte
  BY <1>1, <1>5, Memories
<1>7. s1 \in Addr
  BY <1>1, CpuIs, Sums, StackCells
<1>8. m[s1] \in Byte
  BY <1>1, <1>7, Memories
<1>9. Set(m, s0, High(ret)) \in Memory
  BY <1>1, <1>4, <1>5, Memories, Numbers
<1>10. Set(Set(m, s0, High(ret)), s1, Low(ret)) \in Memory
  BY <1>1, <1>4, <1>5, <1>7, <1>9, Memories, Numbers
<1>11. /\ Low(c.sp - 1) \in Byte /\ Low(c.sp - 2) \in Byte
  BY <1>1, CpuIs, Sums
<1>12. Low(Low(c.sp - 1) - 1) = Low(c.sp - 2)
  BY <1>1, <1>11, CpuIs, Sums
<1>13. Past(c, 1).pc = ret
  BY <1>1, <1>4, Moves
<1>14. /\ WithSP(Past(c, 1), Low(c.sp - 1)).sp = Low(c.sp - 1)
       /\ WithSP(Past(c, 1), Low(c.sp - 1)).pc = Past(c, 1).pc
  BY <1>1, <1>11, <1>13, Untouched, Moves
<1>15. \A n : WithSP(WithSP(Past(c, 1), Low(c.sp - 1)), n) = WithSP(Past(c, 1), n)
  BY <1>1, <1>11, <1>14, Orders, Moves
<1>16. /\ WithSP(Past(c, 1), Low(c.sp - 2)).sp = Low(c.sp - 2)
       /\ WithSP(Past(c, 1), Low(c.sp - 2)).pc = Past(c, 1).pc
  BY <1>1, <1>11, <1>13, <1>15, Untouched, Moves
<1>17. \A n : WithSP(WithSP(Past(c, 1), Low(c.sp - 2)), n) = WithSP(Past(c, 1), n)
  BY <1>1, <1>11, <1>15, <1>16, Orders, Moves
<1>18. WithPC(WithSP(Past(c, 1), Low(c.sp - 1)), e) =
    WithSP(WithPC(Past(c, 1), e), Low(c.sp - 1))
  BY <1>1, <1>2, <1>11, <1>14, <1>15, <1>17, Orders, Moves
<1>19. WithPC(Past(c, 1), e) = WithPC(c, e)
  BY <1>1, <1>2, <1>15, <1>17, Orders
<1>20. \A s, n : WithSP(WithSP(WithPC(c, e), s), n) = WithSP(WithPC(c, e), n)
  BY <1>1, <1>2, <1>15, <1>17, Orders, StillCpu
<1>21. WithSP(Past(c, 1), Low(c.sp - 1)) \in Cpu
  BY <1>1, <1>11, <1>14, StillCpu, Moves
<1>22. WithSP(WithPC(c, e), Low(c.sp - 2)) \in Cpu
  BY <1>1, <1>2, <1>11, StillCpu
<1> QED
  BY <1>2, <1>3, <1>4, <1>5, <1>6, <1>7, <1>8, <1>9, <1>10, <1>11, <1>12,
     <1>13, <1>14, <1>15, <1>16, <1>17, <1>18, <1>19, <1>20, <1>21, <1>22
     DEF PCallTyped

LEMMA PCallGoes ==
  ASSUME NEW c \in Cpu, NEW m \in Memory, NEW i, PCallAt(i, c, m), Block,
         form \in OtherForms, form.op = "pcall"
  PROVE  \E j : PCallAt(j, c, m)'
<1> DEFINE e == Radix * (Radix - 1) + m[c.pc]
           ret == Wrap(c.pc + 1)
           s0 == StackAt(c.sp)
           s1 == StackAt(Low(c.sp - 1))
<1>1. /\ c.pc \in Addr /\ m[c.pc] \in Byte
      /\ Wrap(c.pc + 1) \in Addr /\ m[Wrap(c.pc + 1)] \in Byte
  BY Fetched
<1>t. /\ e \in Addr
      /\ m[e] \in Byte
      /\ ret \in Addr
      /\ s0 \in Addr
      /\ m[s0] \in Byte
      /\ s1 \in Addr
      /\ m[s1] \in Byte
      /\ Set(m, s0, High(ret)) \in Memory
      /\ Set(Set(m, s0, High(ret)), s1, Low(ret)) \in Memory
      /\ Low(c.sp - 1) \in Byte /\ Low(c.sp - 2) \in Byte
      /\ Low(Low(c.sp - 1) - 1) = Low(c.sp - 2)
      /\ Past(c, 1).pc = ret
      /\ WithSP(Past(c, 1), Low(c.sp - 1)).sp = Low(c.sp - 1)
      /\ WithSP(Past(c, 1), Low(c.sp - 1)).pc = Past(c, 1).pc
      /\ \A n : WithSP(WithSP(Past(c, 1), Low(c.sp - 1)), n) = WithSP(Past(c, 1), n)
      /\ WithSP(Past(c, 1), Low(c.sp - 2)).sp = Low(c.sp - 2)
      /\ WithSP(Past(c, 1), Low(c.sp - 2)).pc = Past(c, 1).pc
      /\ \A n : WithSP(WithSP(Past(c, 1), Low(c.sp - 2)), n) = WithSP(Past(c, 1), n)
      /\ WithPC(WithSP(Past(c, 1), Low(c.sp - 1)), e) =
          WithSP(WithPC(Past(c, 1), e), Low(c.sp - 1))
      /\ WithPC(Past(c, 1), e) = WithPC(c, e)
      /\ \A s, n : WithSP(WithSP(WithPC(c, e), s), n) = WithSP(WithPC(c, e), n)
      /\ WithSP(Past(c, 1), Low(c.sp - 1)) \in Cpu
      /\ WithSP(WithPC(c, e), Low(c.sp - 2)) \in Cpu
  BY PCallTypes DEF PCallTyped
<1>2. Ready
  BY DEF PCallAt, Now, Ready, OtherForms
<1>3. ASSUME i = 0 PROVE PCallAt(1, c, m)'
  <2>1. todo = <<"upage", "stack", "push_pch", "push_pcl_stay", "jump_2_sp--">>
    BY <1>3 DEF PCallAt
  <2>2. Head(todo) = "upage" /\ Tail(todo) = <<"stack", "push_pch", "push_pcl_stay",
      "jump_2_sp--">>
    BY <2>1
  <2>3. /\ After(Past(cpu, 1), ram, {cpu.pc})
        /\ tmp'.address2 = Radix * (Radix - 1) + ram[cpu.pc]
    BY <1>2, <2>2, UpageDoes DEF TmpIs
  <2> QED
    BY <1>1, <1>t, <1>3, <2>2, <2>3, Moves
       DEF PCallAt, Now, After
<1>4. ASSUME i = 1 PROVE PCallAt(2, c, m)'
  <2>1. todo = <<"stack", "push_pch", "push_pcl_stay", "jump_2_sp--">>
    BY <1>4 DEF PCallAt
  <2>2. Head(todo) = "stack" /\ Tail(todo) = <<"push_pch", "push_pcl_stay", "jump_2_sp--">>
    BY <2>1
  <2>3. /\ After(cpu, ram, {}) /\ tmp'.address = StackAt(cpu.sp)
        /\ tmp'.address2 = tmp.address2
    BY <1>2, <2>2, StackDoes DEF TmpIs
  <2> QED
    BY <1>1, <1>t, <1>4, <2>2, <2>3, Moves
       DEF PCallAt, Now, After
<1>5. ASSUME i = 2 PROVE PCallAt(3, c, m)'
  <2>1. todo = <<"push_pch", "push_pcl_stay", "jump_2_sp--">>
    BY <1>5 DEF PCallAt
  <2>2. Head(todo) = "push_pch" /\ Tail(todo) = <<"push_pcl_stay", "jump_2_sp--">>
    BY <2>1
  <2>3. /\ After(WithSP(cpu, Low(cpu.sp - 1)), Set(ram, tmp.address, High(cpu.pc)),
            {tmp.address})
        /\ tmp'.address = StackAt(Low(cpu.sp - 1))
        /\ tmp'.address2 = tmp.address2
    BY <1>2, <2>2, PushPchDoes DEF TmpIs
  <2> QED
    BY <1>1, <1>t, <1>5, <2>2, <2>3, Moves
       DEF PCallAt, Now, After
<1>6. ASSUME i = 3 PROVE PCallAt(4, c, m)'
  <2>1. todo = <<"push_pcl_stay", "jump_2_sp--">>
    BY <1>6 DEF PCallAt
  <2>2. Head(todo) = "push_pcl_stay" /\ Tail(todo) = <<"jump_2_sp--">>
    BY <2>1
  <2>3. /\ After(cpu, Set(ram, tmp.address, Low(cpu.pc)), {tmp.address})
        /\ tmp'.address2 = tmp.address2
    BY <1>2, <2>2, PushPclStayDoes DEF TmpIs
  <2> QED
    BY <1>1, <1>t, <1>6, <2>2, <2>3, Moves
       DEF PCallAt, Now, After
<1>7. ASSUME i = 4 PROVE PCallAt(5, c, m)'
  <2>1. todo = <<"jump_2_sp--">>
    BY <1>7 DEF PCallAt
  <2>2. Head(todo) = "jump_2_sp--" /\ Tail(todo) = <<>>
    BY <2>1
  <2>3. /\ After(WithSP(WithPC(cpu, tmp.address2), Low(cpu.sp - 1)), ram, {})
    BY <1>2, <2>2, Jump2DecDoes
  <2> QED
    BY <1>1, <1>t, <1>7, <2>2, <2>3, Moves
       DEF PCallAt, Now, After
<1>8. i # 5
  BY BlocksLeft DEF PCallAt
<1> QED BY <1>3, <1>4, <1>5, <1>6, <1>7, <1>8 DEF PCallAt

LEMMA PCallEnds ==
  ASSUME NEW c \in Cpu, NEW m \in Memory, NEW i, PCallAt(i, c, m), todo = <<>>,
         form \in OtherForms, form.op = "pcall"
  PROVE  Machine(cpu, ram) = Special(form, c, m)
<1> DEFINE e == Radix * (Radix - 1) + m[c.pc]
           ret == Wrap(c.pc + 1)
           s0 == StackAt(c.sp)
           s1 == StackAt(Low(c.sp - 1))
<1>1. /\ c.pc \in Addr /\ m[c.pc] \in Byte
      /\ Wrap(c.pc + 1) \in Addr /\ m[Wrap(c.pc + 1)] \in Byte
  BY Fetched
<1>t. /\ e \in Addr
      /\ m[e] \in Byte
      /\ ret \in Addr
      /\ s0 \in Addr
      /\ m[s0] \in Byte
      /\ s1 \in Addr
      /\ m[s1] \in Byte
      /\ Set(m, s0, High(ret)) \in Memory
      /\ Set(Set(m, s0, High(ret)), s1, Low(ret)) \in Memory
      /\ Low(c.sp - 1) \in Byte /\ Low(c.sp - 2) \in Byte
      /\ Low(Low(c.sp - 1) - 1) = Low(c.sp - 2)
      /\ Past(c, 1).pc = ret
      /\ WithSP(Past(c, 1), Low(c.sp - 1)).sp = Low(c.sp - 1)
      /\ WithSP(Past(c, 1), Low(c.sp - 1)).pc = Past(c, 1).pc
      /\ \A n : WithSP(WithSP(Past(c, 1), Low(c.sp - 1)), n) = WithSP(Past(c, 1), n)
      /\ WithSP(Past(c, 1), Low(c.sp - 2)).sp = Low(c.sp - 2)
      /\ WithSP(Past(c, 1), Low(c.sp - 2)).pc = Past(c, 1).pc
      /\ \A n : WithSP(WithSP(Past(c, 1), Low(c.sp - 2)), n) = WithSP(Past(c, 1), n)
      /\ WithPC(WithSP(Past(c, 1), Low(c.sp - 1)), e) =
          WithSP(WithPC(Past(c, 1), e), Low(c.sp - 1))
      /\ WithPC(Past(c, 1), e) = WithPC(c, e)
      /\ \A s, n : WithSP(WithSP(WithPC(c, e), s), n) = WithSP(WithPC(c, e), n)
      /\ WithSP(Past(c, 1), Low(c.sp - 1)) \in Cpu
      /\ WithSP(WithPC(c, e), Low(c.sp - 2)) \in Cpu
  BY PCallTypes DEF PCallTyped
<1>2. cpu = WithSP(WithPC(c, e), Low(c.sp - 2)) /\ ram =
    Set(Set(m, s0, High(ret)), s1, Low(ret))
  BY DEF PCallAt, Now
<1>3. Special(form, c, m) = Machine(WithSP(WithPC(c, e), Low(c.sp - 2)), Set(Set(m, s0,
    High(ret)), s1, Low(ret)))
  BY <1>t, ZenonT(20) DEF Special, WordAt, Called, Popped, PoppedWord, WithSP, WithPC, Cpu
<1> QED BY <1>2, <1>3

LEMMA PCallBegins ==
  ASSUME NEW c, NEW m, (todo = Others[form.op])', Now(c, m, {})', form'.op = "pcall"
  PROVE  PCallAt(0, c, m)'
BY DEF PCallAt, Others

(* BRK. *)
BrkAt(i, c, m) ==
  LET a == VectorAt(form.n)
      b == Wrap(a + 1)
      e == m[a] + Radix * m[b]
      s0 == StackAt(c.sp)
      s1 == StackAt(Low(c.sp - 1))
      s2 == StackAt(Low(c.sp - 2))
  IN
  \/ /\ i = 0
     /\ todo = <<"vec_lo", "vec_hi", "stack", "push_pch", "push_pcl", "push_psw",
         "jump_2_sp--">>
     /\ Now(c, m, {})
  \/ /\ i = 1
     /\ todo = <<"vec_hi", "stack", "push_pch", "push_pcl", "push_psw", "jump_2_sp--">>
     /\ Now(c, m, {a}) /\ tmp.address = a /\ tmp.address2 = m[a]
  \/ /\ i = 2
     /\ todo = <<"stack", "push_pch", "push_pcl", "push_psw", "jump_2_sp--">>
     /\ Now(c, m, {a, b}) /\ tmp.address2 = e
  \/ /\ i = 3 /\ todo = <<"push_pch", "push_pcl", "push_psw", "jump_2_sp--">>
     /\ Now(c, m, {a, b}) /\ tmp.address = s0 /\ tmp.address2 = e
  \/ /\ i = 4 /\ todo = <<"push_pcl", "push_psw", "jump_2_sp--">>
     /\ Now(WithSP(c, Low(c.sp - 1)), Set(m, s0, High(c.pc)), {a, b, s0})
     /\ tmp.address = s1 /\ tmp.address2 = e
  \/ /\ i = 5 /\ todo = <<"push_psw", "jump_2_sp--">>
     /\ Now(WithSP(c, Low(c.sp - 2)), Set(Set(m, s0, High(c.pc)), s1, Low(c.pc)), {a, b, s0,
         s1})
     /\ tmp.address = s2 /\ tmp.address2 = e
  \/ /\ i = 6 /\ todo = <<"jump_2_sp--">>
     /\ Now(WithSP(c, Low(c.sp - 2)), Set(Set(Set(m, s0, High(c.pc)), s1, Low(c.pc)), s2,
         PSW(c)), {a, b, s0, s1, s2})
     /\ tmp.address2 = e
  \/ /\ i = 7 /\ todo = <<>>
     /\ Now(WithSP(WithPC(c, e), Low(c.sp - 3)), Set(Set(Set(m, s0, High(c.pc)), s1,
         Low(c.pc)), s2, PSW(c)), {a, b, s0, s1, s2})

BrkTyped(c, m) ==
  LET a == VectorAt(form.n)
      b == Wrap(a + 1)
      e == m[a] + Radix * m[b]
      s0 == StackAt(c.sp)
      s1 == StackAt(Low(c.sp - 1))
      s2 == StackAt(Low(c.sp - 2))
  IN
  /\ a \in Addr
  /\ m[a] \in Byte
  /\ b \in Addr
  /\ m[b] \in Byte
  /\ e \in Addr
  /\ m[e] \in Byte
  /\ s0 \in Addr
  /\ m[s0] \in Byte
  /\ s1 \in Addr
  /\ m[s1] \in Byte
  /\ s2 \in Addr
  /\ m[s2] \in Byte
  /\ Set(m, s0, High(c.pc)) \in Memory
  /\ Set(Set(m, s0, High(c.pc)), s1, Low(c.pc)) \in Memory
  /\ Set(Set(Set(m, s0, High(c.pc)), s1, Low(c.pc)), s2, PSW(c)) \in Memory
  /\ Low(c.sp - 1) \in Byte /\ Low(c.sp - 2) \in Byte
  /\ Low(Low(c.sp - 1) - 1) = Low(c.sp - 2)
  /\ WithSP(c, Low(c.sp - 1)).sp = Low(c.sp - 1)
  /\ WithSP(c, Low(c.sp - 1)).pc = c.pc
  /\ \A n : WithSP(WithSP(c, Low(c.sp - 1)), n) = WithSP(c, n)
  /\ WithSP(c, Low(c.sp - 2)).sp = Low(c.sp - 2)
  /\ WithSP(c, Low(c.sp - 2)).pc = c.pc
  /\ \A n : WithSP(WithSP(c, Low(c.sp - 2)), n) = WithSP(c, n)
  /\ Low(c.sp - 3) \in Byte
  /\ Low(Low(c.sp - 2) - 1) = Low(c.sp - 3)
  /\ WithPC(WithSP(c, Low(c.sp - 2)), e) = WithSP(WithPC(c, e), Low(c.sp - 2))
  /\ PSW(WithSP(c, Low(c.sp - 2))) = PSW(c)
  /\ \A s, n : WithSP(WithSP(WithPC(c, e), s), n) = WithSP(WithPC(c, e), n)
  /\ WithSP(c, Low(c.sp - 1)) \in Cpu
  /\ WithSP(c, Low(c.sp - 2)) \in Cpu
  /\ WithSP(WithPC(c, e), Low(c.sp - 3)) \in Cpu

LEMMA BrkTypes ==
  ASSUME NEW c \in Cpu, NEW m \in Memory, form \in OtherForms, form.op = "brk"
  PROVE  BrkTyped(c, m)
<1> DEFINE a == VectorAt(form.n)
           b == Wrap(a + 1)
           e == m[a] + Radix * m[b]
           s0 == StackAt(c.sp)
           s1 == StackAt(Low(c.sp - 1))
           s2 == StackAt(Low(c.sp - 2))
<1>1. /\ c.pc \in Addr /\ m[c.pc] \in Byte
      /\ Wrap(c.pc + 1) \in Addr /\ m[Wrap(c.pc + 1)] \in Byte
  BY Fetched
<1>2. a \in Addr
  BY <1>1, VectorCells DEF OtherForms
<1>3. m[a] \in Byte
  BY <1>1, <1>2, Memories
<1>4. b \in Addr
  BY <1>1, <1>2, Sums
<1>5. m[b] \in Byte
  BY <1>1, <1>4, Memories
<1>6. e \in Addr
  BY <1>1, <1>2, <1>3, <1>4, <1>5, Words
<1>7. m[e] \in Byte
  BY <1>1, <1>6, Memories
<1>8. s0 \in Addr
  BY <1>1, CpuIs, StackCells
<1>9. m[s0] \in Byte
  BY <1>1, <1>8, Memories
<1>10. s1 \in Addr
  BY <1>1, CpuIs, Sums, StackCells
<1>11. m[s1] \in Byte
  BY <1>1, <1>10, Memories
<1>12. s2 \in Addr
  BY <1>1, CpuIs, Sums, StackCells
<1>13. m[s2] \in Byte
  BY <1>1, <1>12, Memories
<1>14. Set(m, s0, High(c.pc)) \in Memory
  BY <1>1, <1>8, Memories, Numbers
<1>15. Set(Set(m, s0, High(c.pc)), s1, Low(c.pc)) \in Memory
  BY <1>1, <1>8, <1>10, <1>14, Memories, Numbers
<1>16. Set(Set(Set(m, s0, High(c.pc)), s1, Low(c.pc)), s2, PSW(c)) \in Memory
  BY <1>1, <1>8, <1>10, <1>12, <1>14, <1>15, Memories, Numbers, PSWIsByte
<1>17. /\ Low(c.sp - 1) \in Byte /\ Low(c.sp - 2) \in Byte
  BY <1>1, CpuIs, Sums
<1>18. Low(Low(c.sp - 1) - 1) = Low(c.sp - 2)
  BY <1>1, <1>17, CpuIs, Sums
<1>19. /\ WithSP(c, Low(c.sp - 1)).sp = Low(c.sp - 1)
       /\ WithSP(c, Low(c.sp - 1)).pc = c.pc
  BY <1>1, <1>17, Untouched, Moves
<1>20. \A n : WithSP(WithSP(c, Low(c.sp - 1)), n) = WithSP(c, n)
  BY <1>1, <1>17, <1>19, Orders, Moves
<1>21. /\ WithSP(c, Low(c.sp - 2)).sp = Low(c.sp - 2)
       /\ WithSP(c, Low(c.sp - 2)).pc = c.pc
  BY <1>1, <1>17, <1>20, Untouched, Moves
<1>22. \A n : WithSP(WithSP(c, Low(c.sp - 2)), n) = WithSP(c, n)
  BY <1>1, <1>17, <1>20, <1>21, Orders, Moves
<1>23. /\ Low(c.sp - 3) \in Byte
  BY <1>1, CpuIs, Sums
<1>24. Low(Low(c.sp - 2) - 1) = Low(c.sp - 3)
  BY <1>1, <1>17, <1>20, <1>22, <1>23, CpuIs, Sums
<1>25. WithPC(WithSP(c, Low(c.sp - 2)), e) = WithSP(WithPC(c, e), Low(c.sp - 2))
  BY <1>1, <1>6, <1>17, <1>20, <1>21, <1>22, Orders
<1>26. PSW(WithSP(c, Low(c.sp - 2))) = PSW(c)
  BY <1>1, <1>17, <1>20, <1>21, <1>22, Untouched
<1>27. \A s, n : WithSP(WithSP(WithPC(c, e), s), n) = WithSP(WithPC(c, e), n)
  BY <1>1, <1>6, <1>20, <1>22, Orders, StillCpu
<1>28. WithSP(c, Low(c.sp - 1)) \in Cpu
  BY <1>1, <1>17, <1>19, StillCpu
<1>29. WithSP(c, Low(c.sp - 2)) \in Cpu
  BY <1>1, <1>17, <1>21, StillCpu
<1>30. WithSP(WithPC(c, e), Low(c.sp - 3)) \in Cpu
  BY <1>1, <1>6, <1>23, StillCpu, SMTT(20)
<1> QED
  BY <1>2, <1>3, <1>4, <1>5, <1>6, <1>7, <1>8, <1>9, <1>10, <1>11, <1>12,
     <1>13, <1>14, <1>15, <1>16, <1>17, <1>18, <1>19, <1>20, <1>21, <1>22,
     <1>23, <1>24, <1>25, <1>26, <1>27, <1>28, <1>29, <1>30
     DEF BrkTyped

LEMMA BrkGoes ==
  ASSUME NEW c \in Cpu, NEW m \in Memory, NEW i, BrkAt(i, c, m), Block,
         form \in OtherForms, form.op = "brk"
  PROVE  \E j : BrkAt(j, c, m)'
<1> DEFINE a == VectorAt(form.n)
           b == Wrap(a + 1)
           e == m[a] + Radix * m[b]
           s0 == StackAt(c.sp)
           s1 == StackAt(Low(c.sp - 1))
           s2 == StackAt(Low(c.sp - 2))
<1>1. /\ c.pc \in Addr /\ m[c.pc] \in Byte
      /\ Wrap(c.pc + 1) \in Addr /\ m[Wrap(c.pc + 1)] \in Byte
  BY Fetched
<1>t. /\ a \in Addr
      /\ m[a] \in Byte
      /\ b \in Addr
      /\ m[b] \in Byte
      /\ e \in Addr
      /\ m[e] \in Byte
      /\ s0 \in Addr
      /\ m[s0] \in Byte
      /\ s1 \in Addr
      /\ m[s1] \in Byte
      /\ s2 \in Addr
      /\ m[s2] \in Byte
      /\ Set(m, s0, High(c.pc)) \in Memory
      /\ Set(Set(m, s0, High(c.pc)), s1, Low(c.pc)) \in Memory
      /\ Set(Set(Set(m, s0, High(c.pc)), s1, Low(c.pc)), s2, PSW(c)) \in Memory
      /\ Low(c.sp - 1) \in Byte /\ Low(c.sp - 2) \in Byte
      /\ Low(Low(c.sp - 1) - 1) = Low(c.sp - 2)
      /\ WithSP(c, Low(c.sp - 1)).sp = Low(c.sp - 1)
      /\ WithSP(c, Low(c.sp - 1)).pc = c.pc
      /\ \A n : WithSP(WithSP(c, Low(c.sp - 1)), n) = WithSP(c, n)
      /\ WithSP(c, Low(c.sp - 2)).sp = Low(c.sp - 2)
      /\ WithSP(c, Low(c.sp - 2)).pc = c.pc
      /\ \A n : WithSP(WithSP(c, Low(c.sp - 2)), n) = WithSP(c, n)
      /\ Low(c.sp - 3) \in Byte
      /\ Low(Low(c.sp - 2) - 1) = Low(c.sp - 3)
      /\ WithPC(WithSP(c, Low(c.sp - 2)), e) = WithSP(WithPC(c, e), Low(c.sp - 2))
      /\ PSW(WithSP(c, Low(c.sp - 2))) = PSW(c)
      /\ \A s, n : WithSP(WithSP(WithPC(c, e), s), n) = WithSP(WithPC(c, e), n)
      /\ WithSP(c, Low(c.sp - 1)) \in Cpu
      /\ WithSP(c, Low(c.sp - 2)) \in Cpu
      /\ WithSP(WithPC(c, e), Low(c.sp - 3)) \in Cpu
  BY BrkTypes DEF BrkTyped
<1>2. Ready
  BY DEF BrkAt, Now, Ready, OtherForms
<1>3. ASSUME i = 0 PROVE BrkAt(1, c, m)'
  <2>1. todo = <<"vec_lo", "vec_hi", "stack", "push_pch", "push_pcl", "push_psw",
      "jump_2_sp--">>
    BY <1>3 DEF BrkAt
  <2>2. Head(todo) = "vec_lo" /\ Tail(todo) =
      <<"vec_hi", "stack", "push_pch", "push_pcl", "push_psw", "jump_2_sp--">>
    BY <2>1
  <2>3. /\ After(cpu, ram, {VectorAt(form.n)})
        /\ tmp'.address = VectorAt(form.n)
        /\ tmp'.address2 = ram[VectorAt(form.n)]
    BY <1>2, <2>2, VecLoDoes DEF TmpIs
  <2> QED
    BY <1>1, <1>t, <1>3, <2>2, <2>3, Moves
       DEF BrkAt, Now, After
<1>4. ASSUME i = 1 PROVE BrkAt(2, c, m)'
  <2>1. todo = <<"vec_hi", "stack", "push_pch", "push_pcl", "push_psw", "jump_2_sp--">>
    BY <1>4 DEF BrkAt
  <2>2. Head(todo) = "vec_hi" /\ Tail(todo) =
      <<"stack", "push_pch", "push_pcl", "push_psw", "jump_2_sp--">>
    BY <2>1
  <2>3. /\ After(cpu, ram, {Wrap(tmp.address + 1)})
        /\ tmp'.address2 = Wrap(tmp.address2 + Radix * ram[Wrap(tmp.address + 1)])
    BY <1>2, <2>2, VecHiDoes DEF TmpIs
  <2> QED
    BY <1>1, <1>t, <1>4, <2>2, <2>3, Moves, Words
       DEF BrkAt, Now, After
<1>5. ASSUME i = 2 PROVE BrkAt(3, c, m)'
  <2>1. todo = <<"stack", "push_pch", "push_pcl", "push_psw", "jump_2_sp--">>
    BY <1>5 DEF BrkAt
  <2>2. Head(todo) = "stack" /\ Tail(todo) = <<"push_pch", "push_pcl", "push_psw",
      "jump_2_sp--">>
    BY <2>1
  <2>3. /\ After(cpu, ram, {}) /\ tmp'.address = StackAt(cpu.sp)
        /\ tmp'.address2 = tmp.address2
    BY <1>2, <2>2, StackDoes, SMTT(20) DEF TmpIs
  <2> QED
    BY <1>1, <1>t, <1>5, <2>2, <2>3, Moves
       DEF BrkAt, Now, After
<1>6. ASSUME i = 3 PROVE BrkAt(4, c, m)'
  <2>1. todo = <<"push_pch", "push_pcl", "push_psw", "jump_2_sp--">>
    BY <1>6 DEF BrkAt
  <2>2. Head(todo) = "push_pch" /\ Tail(todo) = <<"push_pcl", "push_psw", "jump_2_sp--">>
    BY <2>1
  <2>3. /\ After(WithSP(cpu, Low(cpu.sp - 1)), Set(ram, tmp.address, High(cpu.pc)),
            {tmp.address})
        /\ tmp'.address = StackAt(Low(cpu.sp - 1))
        /\ tmp'.address2 = tmp.address2
    BY <1>2, <2>2, PushPchDoes, SMTT(20) DEF TmpIs
  <2> QED
    BY <1>1, <1>t, <1>6, <2>2, <2>3, Moves
       DEF BrkAt, Now, After
<1>7. ASSUME i = 4 PROVE BrkAt(5, c, m)'
  <2>1. todo = <<"push_pcl", "push_psw", "jump_2_sp--">>
    BY <1>7 DEF BrkAt
  <2>2. Head(todo) = "push_pcl" /\ Tail(todo) = <<"push_psw", "jump_2_sp--">>
    BY <2>1
  <2>3. /\ After(WithSP(cpu, Low(cpu.sp - 1)), Set(ram, tmp.address, Low(cpu.pc)),
            {tmp.address})
        /\ tmp'.address = StackAt(Low(cpu.sp - 1))
        /\ tmp'.address2 = tmp.address2
    BY <1>2, <2>2, PushPclDoes, SMTT(20) DEF TmpIs
  <2> QED
    BY <1>1, <1>t, <1>7, <2>2, <2>3, Moves
       DEF BrkAt, Now, After
<1>8. ASSUME i = 5 PROVE BrkAt(6, c, m)'
  <2>1. todo = <<"push_psw", "jump_2_sp--">>
    BY <1>8 DEF BrkAt
  <2>2. Head(todo) = "push_psw" /\ Tail(todo) = <<"jump_2_sp--">>
    BY <2>1
  <2>3. /\ After(cpu, Set(ram, tmp.address, PSW(cpu)), {tmp.address})
        /\ tmp'.address2 = tmp.address2
    BY <1>2, <2>2, PushPSWDoes, SMTT(20) DEF TmpIs
  <2> QED
    BY <1>1, <1>t, <1>8, <2>2, <2>3, Moves
       DEF BrkAt, Now, After
<1>9. ASSUME i = 6 PROVE BrkAt(7, c, m)'
  <2>1. todo = <<"jump_2_sp--">>
    BY <1>9 DEF BrkAt
  <2>2. Head(todo) = "jump_2_sp--" /\ Tail(todo) = <<>>
    BY <2>1
  <2>3. /\ After(WithSP(WithPC(cpu, tmp.address2), Low(cpu.sp - 1)), ram, {})
    BY <1>2, <2>2, Jump2DecDoes
  <2> QED
    BY <1>1, <1>t, <1>9, <2>2, <2>3, Moves
       DEF BrkAt, Now, After
<1>10. i # 7
  BY BlocksLeft DEF BrkAt
<1> QED BY <1>3, <1>4, <1>5, <1>6, <1>7, <1>8, <1>9, <1>10 DEF BrkAt

LEMMA BrkEnds ==
  ASSUME NEW c \in Cpu, NEW m \in Memory, NEW i, BrkAt(i, c, m), todo = <<>>,
         form \in OtherForms, form.op = "brk"
  PROVE  Machine(cpu, ram) = Special(form, c, m)
<1> DEFINE a == VectorAt(form.n)
           b == Wrap(a + 1)
           e == m[a] + Radix * m[b]
           s0 == StackAt(c.sp)
           s1 == StackAt(Low(c.sp - 1))
           s2 == StackAt(Low(c.sp - 2))
<1>1. /\ c.pc \in Addr /\ m[c.pc] \in Byte
      /\ Wrap(c.pc + 1) \in Addr /\ m[Wrap(c.pc + 1)] \in Byte
  BY Fetched
<1>t. /\ a \in Addr
      /\ m[a] \in Byte
      /\ b \in Addr
      /\ m[b] \in Byte
      /\ e \in Addr
      /\ m[e] \in Byte
      /\ s0 \in Addr
      /\ m[s0] \in Byte
      /\ s1 \in Addr
      /\ m[s1] \in Byte
      /\ s2 \in Addr
      /\ m[s2] \in Byte
      /\ Set(m, s0, High(c.pc)) \in Memory
      /\ Set(Set(m, s0, High(c.pc)), s1, Low(c.pc)) \in Memory
      /\ Set(Set(Set(m, s0, High(c.pc)), s1, Low(c.pc)), s2, PSW(c)) \in Memory
      /\ Low(c.sp - 1) \in Byte /\ Low(c.sp - 2) \in Byte
      /\ Low(Low(c.sp - 1) - 1) = Low(c.sp - 2)
      /\ WithSP(c, Low(c.sp - 1)).sp = Low(c.sp - 1)
      /\ WithSP(c, Low(c.sp - 1)).pc = c.pc
      /\ \A n : WithSP(WithSP(c, Low(c.sp - 1)), n) = WithSP(c, n)
      /\ WithSP(c, Low(c.sp - 2)).sp = Low(c.sp - 2)
      /\ WithSP(c, Low(c.sp - 2)).pc = c.pc
      /\ \A n : WithSP(WithSP(c, Low(c.sp - 2)), n) = WithSP(c, n)
      /\ Low(c.sp - 3) \in Byte
      /\ Low(Low(c.sp - 2) - 1) = Low(c.sp - 3)
      /\ WithPC(WithSP(c, Low(c.sp - 2)), e) = WithSP(WithPC(c, e), Low(c.sp - 2))
      /\ PSW(WithSP(c, Low(c.sp - 2))) = PSW(c)
      /\ \A s, n : WithSP(WithSP(WithPC(c, e), s), n) = WithSP(WithPC(c, e), n)
      /\ WithSP(c, Low(c.sp - 1)) \in Cpu
      /\ WithSP(c, Low(c.sp - 2)) \in Cpu
      /\ WithSP(WithPC(c, e), Low(c.sp - 3)) \in Cpu
  BY BrkTypes DEF BrkTyped
<1>o. Wrap(c.pc + 0) = c.pc
  BY <1>1, Onward
<1>c. Called(c, m, 0, e) =
        Machine(WithSP(WithPC(c, e), Low(c.sp - 2)), Set(Set(m, s0, High(c.pc)), s1,
            Low(c.pc)))
  BY <1>o DEF Called, WithSP, WithPC, Cpu
<1> DEFINE called == Called(c, m, 0, e)
           below == WithSP(WithPC(c, e), Low(c.sp - 2))
           pushed == Set(Set(m, s0, High(c.pc)), s1, Low(c.pc))
<1>s. Special(form, c, m) =
        Machine([called.cpu EXCEPT !.sp = Low(@ - 1)],
                Set(called.ram, StackAt(called.cpu.sp), PSW(c)))
  BY DEF Special, WordAt
<1>k. called.cpu = below /\ called.ram = pushed
  BY <1>c, SMTT(20) DEF Machine
<1>b. below.sp = Low(c.sp - 2)
      /\ [below EXCEPT !.sp = Low(@ - 1)] = WithSP(WithPC(c, e), Low(c.sp - 3))
  BY <1>t, ZenonT(20) DEF WithSP, WithPC, Cpu
<1>2. cpu = WithSP(WithPC(c, e), Low(c.sp - 3)) /\ ram =
    Set(Set(Set(m, s0, High(c.pc)), s1, Low(c.pc)), s2, PSW(c))
  BY SMTT(20) DEF BrkAt, Now
<1>3. Special(form, c, m) = Machine(WithSP(WithPC(c, e), Low(c.sp - 3)), Set(Set(Set(m, s0,
    High(c.pc)), s1, Low(c.pc)), s2, PSW(c)))
  BY <1>s, <1>k, <1>b
<1> QED BY <1>2, <1>3

LEMMA BrkBegins ==
  ASSUME NEW c, NEW m, (todo = Others[form.op])', Now(c, m, {})', form'.op = "brk"
  PROVE  BrkAt(0, c, m)'
BY DEF BrkAt, Others

(* RET. *)
RetAt(i, c, m) ==
  LET t1 == StackAt(Low(c.sp + 1))
      t2 == StackAt(Low(c.sp + 2))
  IN
  \/ /\ i = 0 /\ todo = <<"sp++", "stack", "pop_pcl", "pop_pch">>
     /\ Now(c, m, {})
  \/ /\ i = 1 /\ todo = <<"stack", "pop_pcl", "pop_pch">>
     /\ Now(WithSP(c, Low(c.sp + 1)), m, {})
  \/ /\ i = 2 /\ todo = <<"pop_pcl", "pop_pch">>
     /\ Now(WithSP(c, Low(c.sp + 1)), m, {}) /\ tmp.address = t1
  \/ /\ i = 3 /\ todo = <<"pop_pch">>
     /\ Now(WithSP(c, Low(c.sp + 2)), m, {t1}) /\ tmp.address = t2
     /\ tmp.address2 = m[t1]
  \/ /\ i = 4 /\ todo = <<>>
     /\ Now(WithSP(WithPC(c, m[t1] + Radix * m[t2]), Low(c.sp + 2)), m, {t1, t2})

RetTyped(c, m) ==
  LET t1 == StackAt(Low(c.sp + 1))
      t2 == StackAt(Low(c.sp + 2))
  IN
  /\ t1 \in Addr
  /\ m[t1] \in Byte
  /\ t2 \in Addr
  /\ m[t2] \in Byte
  /\ Low(c.sp + 1) \in Byte /\ Low(c.sp + 2) \in Byte
  /\ Low(Low(c.sp + 1) + 1) = Low(c.sp + 2)
  /\ WithSP(c, Low(c.sp + 1)).sp = Low(c.sp + 1)
  /\ WithSP(c, Low(c.sp + 1)).pc = c.pc
  /\ \A n : WithSP(WithSP(c, Low(c.sp + 1)), n) = WithSP(c, n)
  /\ \A n : WithPC(WithSP(c, Low(c.sp + 2)), n) = WithSP(WithPC(c, n), Low(c.sp + 2))
  /\ WithSP(c, Low(c.sp + 1)) \in Cpu
  /\ WithSP(c, Low(c.sp + 2)) \in Cpu
  /\ WithSP(WithPC(c, m[t1] + Radix * m[t2]), Low(c.sp + 2)) \in Cpu

LEMMA RetTypes ==
  ASSUME NEW c \in Cpu, NEW m \in Memory, form \in OtherForms, form.op = "ret"
  PROVE  RetTyped(c, m)
<1> DEFINE t1 == StackAt(Low(c.sp + 1))
           t2 == StackAt(Low(c.sp + 2))
<1>1. /\ c.pc \in Addr /\ m[c.pc] \in Byte
      /\ Wrap(c.pc + 1) \in Addr /\ m[Wrap(c.pc + 1)] \in Byte
  BY Fetched
<1>2. t1 \in Addr
  BY <1>1, CpuIs, Sums, StackCells
<1>3. m[t1] \in Byte
  BY <1>1, <1>2, Memories
<1>4. t2 \in Addr
  BY <1>1, CpuIs, Sums, StackCells
<1>5. m[t2] \in Byte
  BY <1>1, <1>4, Memories
<1>6. /\ Low(c.sp + 1) \in Byte /\ Low(c.sp + 2) \in Byte
  BY <1>1, CpuIs, Sums
<1>7. Low(Low(c.sp + 1) + 1) = Low(c.sp + 2)
  BY <1>1, <1>6, CpuIs, Sums
<1>8. /\ WithSP(c, Low(c.sp + 1)).sp = Low(c.sp + 1)
      /\ WithSP(c, Low(c.sp + 1)).pc = c.pc
  BY <1>1, <1>6, Untouched, Moves
<1>9. \A n : WithSP(WithSP(c, Low(c.sp + 1)), n) = WithSP(c, n)
  BY <1>1, <1>6, <1>8, Orders, Moves
<1>10. \A n : WithPC(WithSP(c, Low(c.sp + 2)), n) = WithSP(WithPC(c, n), Low(c.sp + 2))
  BY <1>1, <1>6, <1>9, Orders
<1>11. WithSP(c, Low(c.sp + 1)) \in Cpu
  BY <1>1, <1>6, <1>8, StillCpu
<1>12. WithSP(c, Low(c.sp + 2)) \in Cpu
  BY <1>1, <1>6, StillCpu
<1>13. WithSP(WithPC(c, m[t1] + Radix * m[t2]), Low(c.sp + 2)) \in Cpu
  BY <1>1, <1>2, <1>3, <1>4, <1>5, <1>6, StillCpu, Words
<1> QED
  BY <1>2, <1>3, <1>4, <1>5, <1>6, <1>7, <1>8, <1>9, <1>10, <1>11, <1>12,
     <1>13
     DEF RetTyped

LEMMA RetGoes ==
  ASSUME NEW c \in Cpu, NEW m \in Memory, NEW i, RetAt(i, c, m), Block,
         form \in OtherForms, form.op = "ret"
  PROVE  \E j : RetAt(j, c, m)'
<1> DEFINE t1 == StackAt(Low(c.sp + 1))
           t2 == StackAt(Low(c.sp + 2))
<1>1. /\ c.pc \in Addr /\ m[c.pc] \in Byte
      /\ Wrap(c.pc + 1) \in Addr /\ m[Wrap(c.pc + 1)] \in Byte
  BY Fetched
<1>t. /\ t1 \in Addr
      /\ m[t1] \in Byte
      /\ t2 \in Addr
      /\ m[t2] \in Byte
      /\ Low(c.sp + 1) \in Byte /\ Low(c.sp + 2) \in Byte
      /\ Low(Low(c.sp + 1) + 1) = Low(c.sp + 2)
      /\ WithSP(c, Low(c.sp + 1)).sp = Low(c.sp + 1)
      /\ WithSP(c, Low(c.sp + 1)).pc = c.pc
      /\ \A n : WithSP(WithSP(c, Low(c.sp + 1)), n) = WithSP(c, n)
      /\ \A n : WithPC(WithSP(c, Low(c.sp + 2)), n) = WithSP(WithPC(c, n), Low(c.sp + 2))
      /\ WithSP(c, Low(c.sp + 1)) \in Cpu
      /\ WithSP(c, Low(c.sp + 2)) \in Cpu
      /\ WithSP(WithPC(c, m[t1] + Radix * m[t2]), Low(c.sp + 2)) \in Cpu
  BY RetTypes DEF RetTyped
<1>2. Ready
  BY DEF RetAt, Now, Ready, OtherForms
<1>3. ASSUME i = 0 PROVE RetAt(1, c, m)'
  <2>1. todo = <<"sp++", "stack", "pop_pcl", "pop_pch">>
    BY <1>3 DEF RetAt
  <2>2. Head(todo) = "sp++" /\ Tail(todo) = <<"stack", "pop_pcl", "pop_pch">>
    BY <2>1
  <2>3. /\ After(WithSP(cpu, Low(cpu.sp + 1)), ram, {})
    BY <1>2, <2>2, IncSPDoes
  <2> QED
    BY <1>1, <1>t, <1>3, <2>2, <2>3, Moves
       DEF RetAt, Now, After
<1>4. ASSUME i = 1 PROVE RetAt(2, c, m)'
  <2>1. todo = <<"stack", "pop_pcl", "pop_pch">>
    BY <1>4 DEF RetAt
  <2>2. Head(todo) = "stack" /\ Tail(todo) = <<"pop_pcl", "pop_pch">>
    BY <2>1
  <2>3. /\ After(cpu, ram, {}) /\ tmp'.address = StackAt(cpu.sp)
    BY <1>2, <2>2, StackDoes DEF TmpIs
  <2> QED
    BY <1>1, <1>t, <1>4, <2>2, <2>3, Moves
       DEF RetAt, Now, After
<1>5. ASSUME i = 2 PROVE RetAt(3, c, m)'
  <2>1. todo = <<"pop_pcl", "pop_pch">>
    BY <1>5 DEF RetAt
  <2>2. Head(todo) = "pop_pcl" /\ Tail(todo) = <<"pop_pch">>
    BY <2>1
  <2>3. /\ After(WithSP(cpu, Low(cpu.sp + 1)), ram, {tmp.address})
        /\ tmp'.address = StackAt(Low(cpu.sp + 1))
        /\ tmp'.address2 = ram[tmp.address]
    BY <1>2, <2>2, PopPclDoes DEF TmpIs
  <2> QED
    BY <1>1, <1>t, <1>5, <2>2, <2>3, Moves
       DEF RetAt, Now, After
<1>6. ASSUME i = 3 PROVE RetAt(4, c, m)'
  <2>1. todo = <<"pop_pch">>
    BY <1>6 DEF RetAt
  <2>2. Head(todo) = "pop_pch" /\ Tail(todo) = <<>>
    BY <2>1
  <2>3. /\ After(WithPC(cpu, Wrap(Radix * ram[tmp.address] + tmp.address2)), ram,
            {tmp.address})
    BY <1>2, <2>2, PopPchDoes
  <2> QED
    BY <1>1, <1>t, <1>6, <2>2, <2>3, Moves, Words
       DEF RetAt, Now, After
<1>7. i # 4
  BY BlocksLeft DEF RetAt
<1> QED BY <1>3, <1>4, <1>5, <1>6, <1>7 DEF RetAt

LEMMA RetEnds ==
  ASSUME NEW c \in Cpu, NEW m \in Memory, NEW i, RetAt(i, c, m), todo = <<>>,
         form \in OtherForms, form.op = "ret"
  PROVE  Machine(cpu, ram) = Special(form, c, m)
<1> DEFINE t1 == StackAt(Low(c.sp + 1))
           t2 == StackAt(Low(c.sp + 2))
<1>1. /\ c.pc \in Addr /\ m[c.pc] \in Byte
      /\ Wrap(c.pc + 1) \in Addr /\ m[Wrap(c.pc + 1)] \in Byte
  BY Fetched
<1>t. /\ t1 \in Addr
      /\ m[t1] \in Byte
      /\ t2 \in Addr
      /\ m[t2] \in Byte
      /\ Low(c.sp + 1) \in Byte /\ Low(c.sp + 2) \in Byte
      /\ Low(Low(c.sp + 1) + 1) = Low(c.sp + 2)
      /\ WithSP(c, Low(c.sp + 1)).sp = Low(c.sp + 1)
      /\ WithSP(c, Low(c.sp + 1)).pc = c.pc
      /\ \A n : WithSP(WithSP(c, Low(c.sp + 1)), n) = WithSP(c, n)
      /\ \A n : WithPC(WithSP(c, Low(c.sp + 2)), n) = WithSP(WithPC(c, n), Low(c.sp + 2))
      /\ WithSP(c, Low(c.sp + 1)) \in Cpu
      /\ WithSP(c, Low(c.sp + 2)) \in Cpu
      /\ WithSP(WithPC(c, m[t1] + Radix * m[t2]), Low(c.sp + 2)) \in Cpu
  BY RetTypes DEF RetTyped
<1>o. 1 + 1 = 2 /\ 2 + 1 = 3
  OBVIOUS
<1>2. cpu = WithSP(WithPC(c, m[t1] + Radix * m[t2]), Low(c.sp + 2)) /\ ram = m
  BY DEF RetAt, Now
<1>3. Special(form, c, m) = Machine(WithSP(WithPC(c, m[t1] + Radix * m[t2]), Low(c.sp + 2)),
    m)
  BY <1>t, <1>o, ZenonT(20) DEF Special, Popped, PoppedWord, WithSP, WithPC, Restored, Cpu
<1> QED BY <1>2, <1>3

LEMMA RetBegins ==
  ASSUME NEW c, NEW m, (todo = Others[form.op])', Now(c, m, {})', form'.op = "ret"
  PROVE  RetAt(0, c, m)'
BY DEF RetAt, Others

(* RETI. *)
RetIAt(i, c, m) ==
  LET t1 == StackAt(Low(c.sp + 1))
      t2 == StackAt(Low(c.sp + 2))
      t3 == StackAt(Low(c.sp + 3))
      k == Restored(c, m[t1])
  IN
  \/ /\ i = 0 /\ todo = <<"sp++", "stack", "pop_psw", "pop_pcl", "pop_pch">>
     /\ Now(c, m, {})
  \/ /\ i = 1 /\ todo = <<"stack", "pop_psw", "pop_pcl", "pop_pch">>
     /\ Now(WithSP(c, Low(c.sp + 1)), m, {})
  \/ /\ i = 2 /\ todo = <<"pop_psw", "pop_pcl", "pop_pch">>
     /\ Now(WithSP(c, Low(c.sp + 1)), m, {}) /\ tmp.address = t1
  \/ /\ i = 3 /\ todo = <<"pop_pcl", "pop_pch">>
     /\ Now(WithSP(k, Low(c.sp + 2)), m, {t1}) /\ tmp.address = t2
  \/ /\ i = 4 /\ todo = <<"pop_pch">>
     /\ Now(WithSP(k, Low(c.sp + 3)), m, {t1, t2}) /\ tmp.address = t3
     /\ tmp.address2 = m[t2]
  \/ /\ i = 5 /\ todo = <<>>
     /\ Now(WithSP(WithPC(k, m[t2] + Radix * m[t3]), Low(c.sp + 3)), m, {t1, t2, t3})

RetITyped(c, m) ==
  LET t1 == StackAt(Low(c.sp + 1))
      t2 == StackAt(Low(c.sp + 2))
      t3 == StackAt(Low(c.sp + 3))
      k == Restored(c, m[t1])
  IN
  /\ t1 \in Addr
  /\ m[t1] \in Byte
  /\ t2 \in Addr
  /\ m[t2] \in Byte
  /\ t3 \in Addr
  /\ m[t3] \in Byte
  /\ k \in Cpu
  /\ Low(c.sp + 1) \in Byte /\ Low(c.sp + 2) \in Byte /\ Low(c.sp + 3) \in Byte
  /\ Low(Low(c.sp + 1) + 1) = Low(c.sp + 2)
  /\ Low(Low(c.sp + 2) + 1) = Low(c.sp + 3)
  /\ k.sp = c.sp
  /\ WithSP(c, Low(c.sp + 1)).sp = Low(c.sp + 1)
  /\ WithSP(c, Low(c.sp + 1)).pc = c.pc
  /\ \A n : WithSP(WithSP(c, Low(c.sp + 1)), n) = WithSP(c, n)
  /\ WithSP(k, Low(c.sp + 2)).sp = Low(c.sp + 2)
  /\ WithSP(k, Low(c.sp + 2)).pc = k.pc
  /\ \A n : WithSP(WithSP(k, Low(c.sp + 2)), n) = WithSP(k, n)
  /\ Restored(WithSP(c, Low(c.sp + 1)), m[t1]) = WithSP(k, Low(c.sp + 1))
  /\ \A n : WithSP(WithSP(k, Low(c.sp + 1)), n) = WithSP(k, n)
  /\ \A n : WithPC(WithSP(k, Low(c.sp + 3)), n) = WithSP(WithPC(k, n), Low(c.sp + 3))
  /\ WithSP(c, Low(c.sp + 1)) \in Cpu
  /\ WithSP(k, Low(c.sp + 2)) \in Cpu
  /\ WithSP(k, Low(c.sp + 3)) \in Cpu
  /\ WithSP(WithPC(k, m[t2] + Radix * m[t3]), Low(c.sp + 3)) \in Cpu

LEMMA RetITypes ==
  ASSUME NEW c \in Cpu, NEW m \in Memory, form \in OtherForms, form.op = "reti"
  PROVE  RetITyped(c, m)
<1> DEFINE t1 == StackAt(Low(c.sp + 1))
           t2 == StackAt(Low(c.sp + 2))
           t3 == StackAt(Low(c.sp + 3))
           k == Restored(c, m[t1])
<1>1. /\ c.pc \in Addr /\ m[c.pc] \in Byte
      /\ Wrap(c.pc + 1) \in Addr /\ m[Wrap(c.pc + 1)] \in Byte
  BY Fetched
<1>2. t1 \in Addr
  BY <1>1, CpuIs, Sums, StackCells
<1>3. m[t1] \in Byte
  BY <1>1, <1>2, Memories
<1>4. t2 \in Addr
  BY <1>1, CpuIs, Sums, StackCells
<1>5. m[t2] \in Byte
  BY <1>1, <1>4, Memories
<1>6. t3 \in Addr
  BY <1>1, CpuIs, Sums, StackCells
<1>7. m[t3] \in Byte
  BY <1>1, <1>6, Memories
<1>8. k \in Cpu
  BY <1>1, <1>2, <1>3, StillCpu
<1>9. /\ Low(c.sp + 1) \in Byte /\ Low(c.sp + 2) \in Byte /\ Low(c.sp + 3) \in Byte
  BY <1>1, CpuIs, Sums
<1>10. Low(Low(c.sp + 1) + 1) = Low(c.sp + 2)
  BY <1>1, <1>9, CpuIs, Sums
<1>11. Low(Low(c.sp + 2) + 1) = Low(c.sp + 3)
  BY <1>1, <1>9, CpuIs, Sums
<1>12. k.sp = c.sp
  BY <1>1, <1>8, Untouched
<1>13. /\ WithSP(c, Low(c.sp + 1)).sp = Low(c.sp + 1)
       /\ WithSP(c, Low(c.sp + 1)).pc = c.pc
  BY <1>1, <1>9, Untouched, Moves
<1>14. \A n : WithSP(WithSP(c, Low(c.sp + 1)), n) = WithSP(c, n)
  BY <1>1, <1>9, <1>13, Orders, Moves
<1>15. /\ WithSP(k, Low(c.sp + 2)).sp = Low(c.sp + 2)
       /\ WithSP(k, Low(c.sp + 2)).pc = k.pc
  BY <1>1, <1>8, <1>9, <1>14, Untouched, Moves
<1>16. \A n : WithSP(WithSP(k, Low(c.sp + 2)), n) = WithSP(k, n)
  BY <1>1, <1>8, <1>9, <1>14, <1>15, Orders, Moves
<1>17. Restored(WithSP(c, Low(c.sp + 1)), m[t1]) = WithSP(k, Low(c.sp + 1))
  BY <1>1, <1>2, <1>3, <1>8, <1>9, <1>13, <1>14, <1>16, Orders
<1>18. \A n : WithSP(WithSP(k, Low(c.sp + 1)), n) = WithSP(k, n)
  BY <1>1, <1>8, <1>9, <1>14, <1>16, Orders
<1>19. \A n : WithPC(WithSP(k, Low(c.sp + 3)), n) = WithSP(WithPC(k, n), Low(c.sp + 3))
  BY <1>1, <1>8, <1>9, <1>14, <1>16, <1>18, Orders
<1>20. WithSP(c, Low(c.sp + 1)) \in Cpu
  BY <1>1, <1>9, <1>13, StillCpu
<1>21. WithSP(k, Low(c.sp + 2)) \in Cpu
  BY <1>1, <1>8, <1>9, <1>15, StillCpu
<1>22. WithSP(k, Low(c.sp + 3)) \in Cpu
  BY <1>1, <1>8, <1>9, StillCpu
<1>23. WithSP(WithPC(k, m[t2] + Radix * m[t3]), Low(c.sp + 3)) \in Cpu
  BY <1>1, <1>4, <1>5, <1>6, <1>7, <1>8, <1>9, StillCpu, Words
<1> QED
  BY <1>2, <1>3, <1>4, <1>5, <1>6, <1>7, <1>8, <1>9, <1>10, <1>11, <1>12,
     <1>13, <1>14, <1>15, <1>16, <1>17, <1>18, <1>19, <1>20, <1>21, <1>22,
     <1>23
     DEF RetITyped

LEMMA RetIGoes ==
  ASSUME NEW c \in Cpu, NEW m \in Memory, NEW i, RetIAt(i, c, m), Block,
         form \in OtherForms, form.op = "reti"
  PROVE  \E j : RetIAt(j, c, m)'
<1> DEFINE t1 == StackAt(Low(c.sp + 1))
           t2 == StackAt(Low(c.sp + 2))
           t3 == StackAt(Low(c.sp + 3))
           k == Restored(c, m[t1])
<1>1. /\ c.pc \in Addr /\ m[c.pc] \in Byte
      /\ Wrap(c.pc + 1) \in Addr /\ m[Wrap(c.pc + 1)] \in Byte
  BY Fetched
<1>t. /\ t1 \in Addr
      /\ m[t1] \in Byte
      /\ t2 \in Addr
      /\ m[t2] \in Byte
      /\ t3 \in Addr
      /\ m[t3] \in Byte
      /\ k \in Cpu
      /\ Low(c.sp + 1) \in Byte /\ Low(c.sp + 2) \in Byte /\ Low(c.sp + 3) \in Byte
      /\ Low(Low(c.sp + 1) + 1) = Low(c.sp + 2)
      /\ Low(Low(c.sp + 2) + 1) = Low(c.sp + 3)
      /\ k.sp = c.sp
      /\ WithSP(c, Low(c.sp + 1)).sp = Low(c.sp + 1)
      /\ WithSP(c, Low(c.sp + 1)).pc = c.pc
      /\ \A n : WithSP(WithSP(c, Low(c.sp + 1)), n) = WithSP(c, n)
      /\ WithSP(k, Low(c.sp + 2)).sp = Low(c.sp + 2)
      /\ WithSP(k, Low(c.sp + 2)).pc = k.pc
      /\ \A n : WithSP(WithSP(k, Low(c.sp + 2)), n) = WithSP(k, n)
      /\ Restored(WithSP(c, Low(c.sp + 1)), m[t1]) = WithSP(k, Low(c.sp + 1))
      /\ \A n : WithSP(WithSP(k, Low(c.sp + 1)), n) = WithSP(k, n)
      /\ \A n : WithPC(WithSP(k, Low(c.sp + 3)), n) = WithSP(WithPC(k, n), Low(c.sp + 3))
      /\ WithSP(c, Low(c.sp + 1)) \in Cpu
      /\ WithSP(k, Low(c.sp + 2)) \in Cpu
      /\ WithSP(k, Low(c.sp + 3)) \in Cpu
      /\ WithSP(WithPC(k, m[t2] + Radix * m[t3]), Low(c.sp + 3)) \in Cpu
  BY RetITypes DEF RetITyped
<1>2. Ready
  BY DEF RetIAt, Now, Ready, OtherForms
<1>3. ASSUME i = 0 PROVE RetIAt(1, c, m)'
  <2>1. todo = <<"sp++", "stack", "pop_psw", "pop_pcl", "pop_pch">>
    BY <1>3 DEF RetIAt
  <2>2. Head(todo) = "sp++" /\ Tail(todo) = <<"stack", "pop_psw", "pop_pcl", "pop_pch">>
    BY <2>1
  <2>3. /\ After(WithSP(cpu, Low(cpu.sp + 1)), ram, {})
    BY <1>2, <2>2, IncSPDoes
  <2> QED
    BY <1>1, <1>t, <1>3, <2>2, <2>3, Moves
       DEF RetIAt, Now, After
<1>4. ASSUME i = 1 PROVE RetIAt(2, c, m)'
  <2>1. todo = <<"stack", "pop_psw", "pop_pcl", "pop_pch">>
    BY <1>4 DEF RetIAt
  <2>2. Head(todo) = "stack" /\ Tail(todo) = <<"pop_psw", "pop_pcl", "pop_pch">>
    BY <2>1
  <2>3. /\ After(cpu, ram, {}) /\ tmp'.address = StackAt(cpu.sp)
    BY <1>2, <2>2, StackDoes DEF TmpIs
  <2> QED
    BY <1>1, <1>t, <1>4, <2>2, <2>3, Moves
       DEF RetIAt, Now, After
<1>5. ASSUME i = 2 PROVE RetIAt(3, c, m)'
  <2>1. todo = <<"pop_psw", "pop_pcl", "pop_pch">>
    BY <1>5 DEF RetIAt
  <2>2. Head(todo) = "pop_psw" /\ Tail(todo) = <<"pop_pcl", "pop_pch">>
    BY <2>1
  <2>3. /\ After(WithSP(Restored(cpu, ram[tmp.address]), Low(cpu.sp + 1)), ram, {tmp.address})
        /\ tmp'.address = StackAt(Low(cpu.sp + 1))
    BY <1>2, <2>2, PopPSWDoes DEF TmpIs
  <2> QED
    BY <1>1, <1>t, <1>5, <2>2, <2>3, Moves
       DEF RetIAt, Now, After
<1>6. ASSUME i = 3 PROVE RetIAt(4, c, m)'
  <2>1. todo = <<"pop_pcl", "pop_pch">>
    BY <1>6 DEF RetIAt
  <2>2. Head(todo) = "pop_pcl" /\ Tail(todo) = <<"pop_pch">>
    BY <2>1
  <2>3. /\ After(WithSP(cpu, Low(cpu.sp + 1)), ram, {tmp.address})
        /\ tmp'.address = StackAt(Low(cpu.sp + 1))
        /\ tmp'.address2 = ram[tmp.address]
    BY <1>2, <2>2, PopPclDoes, SMTT(20) DEF TmpIs
  <2> QED
    BY <1>1, <1>t, <1>6, <2>2, <2>3, Moves
       DEF RetIAt, Now, After
<1>7. ASSUME i = 4 PROVE RetIAt(5, c, m)'
  <2>1. todo = <<"pop_pch">>
    BY <1>7 DEF RetIAt
  <2>2. Head(todo) = "pop_pch" /\ Tail(todo) = <<>>
    BY <2>1
  <2>3. /\ After(WithPC(cpu, Wrap(Radix * ram[tmp.address] + tmp.address2)), ram,
            {tmp.address})
    BY <1>2, <2>2, PopPchDoes
  <2> QED
    BY <1>1, <1>t, <1>7, <2>2, <2>3, Moves, Words
       DEF RetIAt, Now, After
<1>8. i # 5
  BY BlocksLeft DEF RetIAt
<1> QED BY <1>3, <1>4, <1>5, <1>6, <1>7, <1>8 DEF RetIAt

LEMMA RetIEnds ==
  ASSUME NEW c \in Cpu, NEW m \in Memory, NEW i, RetIAt(i, c, m), todo = <<>>,
         form \in OtherForms, form.op = "reti"
  PROVE  Machine(cpu, ram) = Special(form, c, m)
<1> DEFINE t1 == StackAt(Low(c.sp + 1))
           t2 == StackAt(Low(c.sp + 2))
           t3 == StackAt(Low(c.sp + 3))
           k == Restored(c, m[t1])
<1>1. /\ c.pc \in Addr /\ m[c.pc] \in Byte
      /\ Wrap(c.pc + 1) \in Addr /\ m[Wrap(c.pc + 1)] \in Byte
  BY Fetched
<1>t. /\ t1 \in Addr
      /\ m[t1] \in Byte
      /\ t2 \in Addr
      /\ m[t2] \in Byte
      /\ t3 \in Addr
      /\ m[t3] \in Byte
      /\ k \in Cpu
      /\ Low(c.sp + 1) \in Byte /\ Low(c.sp + 2) \in Byte /\ Low(c.sp + 3) \in Byte
      /\ Low(Low(c.sp + 1) + 1) = Low(c.sp + 2)
      /\ Low(Low(c.sp + 2) + 1) = Low(c.sp + 3)
      /\ k.sp = c.sp
      /\ WithSP(c, Low(c.sp + 1)).sp = Low(c.sp + 1)
      /\ WithSP(c, Low(c.sp + 1)).pc = c.pc
      /\ \A n : WithSP(WithSP(c, Low(c.sp + 1)), n) = WithSP(c, n)
      /\ WithSP(k, Low(c.sp + 2)).sp = Low(c.sp + 2)
      /\ WithSP(k, Low(c.sp + 2)).pc = k.pc
      /\ \A n : WithSP(WithSP(k, Low(c.sp + 2)), n) = WithSP(k, n)
      /\ Restored(WithSP(c, Low(c.sp + 1)), m[t1]) = WithSP(k, Low(c.sp + 1))
      /\ \A n : WithSP(WithSP(k, Low(c.sp + 1)), n) = WithSP(k, n)
      /\ \A n : WithPC(WithSP(k, Low(c.sp + 3)), n) = WithSP(WithPC(k, n), Low(c.sp + 3))
      /\ WithSP(c, Low(c.sp + 1)) \in Cpu
      /\ WithSP(k, Low(c.sp + 2)) \in Cpu
      /\ WithSP(k, Low(c.sp + 3)) \in Cpu
      /\ WithSP(WithPC(k, m[t2] + Radix * m[t3]), Low(c.sp + 3)) \in Cpu
  BY RetITypes DEF RetITyped
<1>o. 1 + 1 = 2 /\ 2 + 1 = 3
  OBVIOUS
<1>2. cpu = WithSP(WithPC(k, m[t2] + Radix * m[t3]), Low(c.sp + 3)) /\ ram = m
  BY DEF RetIAt, Now
<1>3. Special(form, c, m) = Machine(WithSP(WithPC(k, m[t2] + Radix * m[t3]), Low(c.sp + 3)),
    m)
  BY <1>t, <1>o, ZenonT(20) DEF Special, Popped, PoppedWord, WithSP, WithPC, Restored, Cpu
<1> QED BY <1>2, <1>3

LEMMA RetIBegins ==
  ASSUME NEW c, NEW m, (todo = Others[form.op])', Now(c, m, {})', form'.op = "reti"
  PROVE  RetIAt(0, c, m)'
BY DEF RetIAt, Others
==============================================================================
