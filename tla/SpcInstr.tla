------------------------------ MODULE SpcInstr -------------------------------
(***************************************************************************)
(* How an instruction of the SPC700 finds its operands (the OP_ and COND_   *)
(* macros and the opcodes of Execute_SPC written out): a block per cycle,   *)
(* all that a block leaves for the next one being kept in the context.      *)
(* Between any two blocks SPC_START may return, and the DSP mix a sample    *)
(* and write its echo, before the instruction goes on.                      *)
(*                                                                         *)
(* Bytes count Radix values (256), addresses Radix * Radix.  Programs give  *)
(* the instructions; the memory here is all RAM (SpcBus has the registers), *)
(* and what the operations compute is in SpcAlu: one operand is             *)
(* incremented, two are added or compared.  Instructions of two blocks or   *)
(* more that touch no memory (MUL, DIV, DAA, DAS, XCN) are there too.       *)
(***************************************************************************)
EXTENDS SpcBits, Sequences

CONSTANTS
  Radix,         \* values of a byte: 256
  Bits,          \* of a byte: 8
  BitArea,       \* addresses below it are bit addressable: 0x2000
  VectorBase,    \* where the vectors are: 0xFFC0
  Vectors,       \* how many: 16
  Suites,        \* what is run: sets of [progs, images, regs]
  EchoCells,     \* cells the DSP may write to
  Scribbles,     \* samples the DSP may write
  MaxScribbles   \* how many: bounds the state space

Byte == 0 .. Radix - 1
Addr == 0 .. Radix * Radix - 1
Memory == [Addr -> Byte]
Cpu == [pc : Addr, sp : Byte, a : Byte, x : Byte, y : Byte,
        p : BOOLEAN, z : BOOLEAN, c : BOOLEAN]

OffsetToBit(bit) == <<1, 2, 4, 8, 16, 32, 64, 128>>[bit + 1]

ASSUME InstrAssumption ==
  /\ Bits \in 3 .. 8 /\ Radix = 2 * OffsetToBit(Bits - 1)
  /\ BitArea \in Nat \ {0} /\ Bits * BitArea >= Radix * Radix
  /\ Vectors \in Nat \ {0} /\ VectorBase \in Addr
  /\ VectorBase + 2 * Vectors <= Radix * Radix
  /\ EchoCells \subseteq Addr /\ Scribbles \subseteq Byte /\ MaxScribbles \in Nat

VARIABLES
  ram,         \* SPCRAM
  cpu,         \* _PC, _SP, _A, _X, _Y, and of the flags P, Z and C
  tmp,         \* _address, _address2, _data, _data2, _data16, _offset
  form,        \* what _opcode stands for
  todo,        \* its blocks to come: _cycle
  prog,        \* the instructions to come
  start,       \* history: cpu and ram when the opcode had been read, and the
               \*   frame that a return or a pop goes back to
  seen,        \* history: the cells the instruction has accessed
  torn,        \* history: the DSP wrote one of them, or the stack
  frames,      \* history: cpu to go back to, of each call and push
  scribbled    \* samples written so far

mach == <<ram, cpu, tmp>>
history == <<start, torn, frames, scribbled>>
vars == <<mach, form, todo, prog, seen, history>>

Wrap(n) == n % (Radix * Radix)
Low(n) == n % Radix
High(n) == n \div Radix

-----------------------------------------------------------------------------
(* The blocks of the instructions, after the one that reads the opcode. *)
Modes ==
  [dp    |-> <<"dp">>,                           \* dp
   abs   |-> <<"lo", "hi">>,                     \* !abs
   x     |-> <<"at_x">>,                          \* (X)
   dpx   |-> <<"lo", "dp+x">>,                   \* dp+X
   dpy   |-> <<"lo", "dp+y">>,                   \* dp+Y
   absx  |-> <<"lo", "hi", "+x">>,               \* !abs+X
   absy  |-> <<"lo", "hi", "+y">>,               \* !abs+Y
   dpxi  |-> <<"lo2", "dp+x_2", "ptr_lo", "ptr_hi">>,    \* [dp+X]
   dpiy  |-> <<"dp_2", "ptr_lo", "ptr_hi", "+y">>]       \* [dp]+Y

Accesses ==
  [load    |-> <<"load">>,
   compare |-> <<"compare">>,
   store   |-> <<"read", "store">>,      \* for nothing
   modify  |-> <<"old", "modify">>]

Others ==
  [implied |-> <<"implied">>,
   imm     |-> <<"imm">>,                                      \* r,#imm
   loadinc |-> <<"at_x", "load", "x++">>,                       \* A,(X)+
   storeinc |-> <<"at_x", "store", "x++">>,                     \* (X)+,A
   dpdp    |-> <<"dp_2", "dp", "src_2", "combine", "put">>,    \* dp,dp
   cmpdpdp |-> <<"dp_2", "dp", "src_2", "compare_2">>,
   movdpdp |-> <<"dp_2", "dp", "old_2", "put">>,               \* MOV dp,dp
   dpimm   |-> <<"src_imm", "dp", "combine", "put">>,          \* dp,#imm
   cmpdpimm |-> <<"src_imm", "dp", "compare_2">>,
   movdpimm |-> <<"src_imm", "dp", "move", "put">>,
   xy      |-> <<"at_y", "src+at_x", "combine", "put">>,        \* (X),(Y)
   cmpxy   |-> <<"at_y", "src+at_x", "compare_2">>,
   word    |-> <<"dp", "word_lo", "word_hi", "word_load">>,    \* YA,dp
   incw    |-> <<"dp", "word_lo", "word_hi", "word_inc", "word_put">>,
   movw    |-> <<"dp", "read", "store", "store_y">>,           \* dp,YA
   set1    |-> <<"dp", "old", "set1">>,                        \* dp.bit
   clr1    |-> <<"dp", "old", "clr1">>,
   tset1   |-> <<"lo", "hi", "old", "test", "tset1">>,         \* !abs
   tclr1   |-> <<"lo", "hi", "old", "test", "tclr1">>,
   or1     |-> <<"lo", "hi_bit", "old", "or1">>,               \* C,mem.bit
   or1n    |-> <<"lo", "hi_bit", "old", "or1n">>,              \* C,/mem.bit
   and1    |-> <<"lo", "hi_bit", "and1">>,
   and1n   |-> <<"lo", "hi_bit", "and1n">>,
   eor1    |-> <<"lo", "hi_bit", "old", "eor1">>,
   mov1c   |-> <<"lo", "hi_bit", "mov1c">>,
   mov1    |-> <<"lo", "hi_bit", "old", "mov1", "put">>,       \* mem.bit,C
   not1    |-> <<"lo", "hi_bit", "old", "not1">>,
   bra     |-> <<"offset+test", "target", "jump">>,
   bne     |-> <<"offset+test", "target", "jump">>,
   beq     |-> <<"offset+test", "target", "jump">>,
   bcc     |-> <<"offset+test", "target", "jump">>,
   bcs     |-> <<"offset+test", "target", "jump">>,
   bbs     |-> <<"dp", "offset", "old", "bbs", "target", "jump">>,
   bbc     |-> <<"dp", "offset", "old", "bbc", "target", "jump">>,
   cbne    |-> <<"dp", "offset", "old", "cbne", "target", "jump">>,
   cbnex   |-> <<"lo", "offset", "dp+x", "old", "cbne", "target", "jump">>,
   dbnz    |-> <<"dp", "offset", "old", "dbnz", "target", "jump">>,
   dbnzy   |-> <<"offset", "y--", "dbnz_y", "target", "jump">>,
   jmp     |-> <<"lo", "jump_hi">>,
   jmpx    |-> <<"lo", "hi_stay", "+x", "pcl", "pch">>,        \* [!abs+X]
   push    |-> <<"stack", "store", "sp--">>,
   pushpsw |-> <<"stack", "push_psw", "sp--">>,
   pop     |-> <<"sp++", "stack", "load_r">>,
   poppsw  |-> <<"sp++", "stack", "load_psw">>,
   call    |-> <<"lo2", "hi2", "stack", "push_pch", "push_pcl", "idle", "jump_2">>,
   tcall   |-> <<"vec_lo", "vec_hi", "stack", "push_pch", "push_pcl", "idle", "jump_2">>,
   pcall   |-> <<"upage", "stack", "push_pch", "push_pcl_stay", "jump_2_sp--">>,
   brk     |-> <<"vec_lo", "vec_hi", "stack", "push_pch", "push_pcl", "push_psw",
                 "jump_2_sp--">>,
   ret     |-> <<"sp++", "stack", "pop_pcl", "pop_pch">>,
   reti    |-> <<"sp++", "stack", "pop_psw", "pop_pcl", "pop_pch">>]

(* A form is [mode, access, reg], or [op, reg, n] of the others: reg is the
   register they read or write, n a vector or the number of a bit. *)
Registers == {"a", "x", "y"}
ImpliedOps == {"nop", "clrp", "setp", "clrc", "setc", "notc", "inc", "dec",
               "from_a", "to_a", "x_sp", "sp_x"}
ModeForms == [mode : DOMAIN Modes, access : DOMAIN Accesses, reg : Registers]
OtherForms ==
  {f \in [op : DOMAIN Others, reg : Registers, n : Nat, what : STRING] :
     /\ f.op \in {"loadinc", "storeinc", "movw"} => f.reg = "a"
     /\ f.op \in {"set1", "clr1", "bbs", "bbc"} => f.n < Bits
     /\ f.op \in {"tcall", "brk"} => f.n < Vectors
     /\ f.op = "implied" => f.what \in ImpliedOps}
Forms == ModeForms \cup OtherForms

ASSUME SuitesAssumption ==
  \A suite \in Suites :
    /\ suite.progs \subseteq Seq(Forms)
    /\ suite.images \subseteq Memory /\ suite.regs \subseteq Cpu

Blocks(f) ==
  IF "mode" \in DOMAIN f THEN Modes[f.mode] \o Accesses[f.access] ELSE Others[f.op]

Init ==
  \E suite \in Suites : \E r \in suite.regs :
    /\ prog \in suite.progs /\ ram \in suite.images
    /\ cpu = r
    /\ tmp = [address |-> 0, address2 |-> 0, data |-> 0, data2 |-> 0,
              data16 |-> 0, offset |-> 0]
    /\ form = [op |-> "none"] /\ todo = <<>>
    /\ start = [cpu |-> cpu, ram |-> ram, frame |-> <<>>]
    /\ seen = {} /\ torn = FALSE /\ frames = <<>> /\ scribbled = 0

-----------------------------------------------------------------------------
(* What blocks are made of. *)
At(b) ==
  /\ todo # <<>> /\ Head(todo) = b /\ todo' = Tail(todo)
  /\ UNCHANGED <<form, prog, start, torn, frames, scribbled>>
Touch(cells) == seen' = seen \cup cells

NextPC == Wrap(cpu.pc + 1)
Operand == ram[cpu.pc]

(* get_byte_spc(_PC), _PC++ *)
Fetch == cpu' = [cpu EXCEPT !.pc = NextPC] /\ Touch({cpu.pc}) /\ UNCHANGED ram
Address(v) == tmp' = [tmp EXCEPT !.address = v]
Address2(v) == tmp' = [tmp EXCEPT !.address2 = v]
Calculate == UNCHANGED <<ram, cpu, seen>>
ReadAt(cell) == Touch({cell}) /\ UNCHANGED ram
WriteAt(cell, v) == ram' = [ram EXCEPT ![cell] = v] /\ Touch({cell})
Loaded(v) == cpu' = [cpu EXCEPT ![form.reg] = v, !.z = (v = 0)]
Compared(c, d, v) == [c EXCEPT !.z = (d = v), !.c = (d >= v)]

DirectPage == IF cpu.p THEN Radix ELSE 0
\* mutant: an index leaves the direct page
InPage_Out(offset, index) == Wrap(DirectPage + offset + index)
InPage(offset, index) == DirectPage + Low(offset + index)
StackAt(sp) == Radix + sp
Top == ram[tmp.address]
AfterAddress == Wrap(tmp.address + 1)
Signed(v) == IF v >= Radix \div 2 THEN v - Radix ELSE v
Combine(d, s) == Low(d + s)
PSW(c) == (IF c.c THEN 1 ELSE 0) + (IF c.z THEN 2 ELSE 0) + (IF c.p THEN 4 ELSE 0)

(* A bit, and the bytes with it set and cleared. *)
IsSet(v, bit) == HasBit(v, OffsetToBit(bit))
WithBit(v, bit) == IF IsSet(v, bit) THEN v ELSE v + OffsetToBit(bit)
WithoutBit(v, bit) == IF IsSet(v, bit) THEN v - OffsetToBit(bit) ELSE v
Restored(c, psw) ==
  [c EXCEPT !.p = IsSet(psw, 2), !.z = IsSet(psw, 1), !.c = IsSet(psw, 0)]

-----------------------------------------------------------------------------
(* Addresses. *)
Dp == At("dp") /\ Fetch /\ Address(DirectPage + Operand)
Lo == At("lo") /\ Fetch /\ Address(Operand)
Hi == At("hi") /\ Fetch /\ Address(Wrap(tmp.address + Radix * Operand))
HiStay ==
  At("hi_stay") /\ Address(Wrap(tmp.address + Radix * Operand))
  /\ ReadAt(cpu.pc) /\ UNCHANGED cpu
HiBit ==   \* the high bits of the address are the number of a bit
  LET word == Wrap(tmp.address + Radix * Operand) IN
  /\ At("hi_bit") /\ Fetch
  /\ tmp' = [tmp EXCEPT !.address = word % BitArea, !.offset = word \div BitArea]
IndirectX == At("at_x") /\ Address(DirectPage + cpu.x) /\ Calculate
IndirectY == At("at_y") /\ Address(DirectPage + cpu.y) /\ Calculate
DpX == At("dp+x") /\ Address(InPage(tmp.address, cpu.x)) /\ Calculate
DpY == At("dp+y") /\ Address(InPage(tmp.address, cpu.y)) /\ Calculate
PlusX == At("+x") /\ Address(Wrap(tmp.address + cpu.x)) /\ Calculate
PlusY == At("+y") /\ Address(Wrap(tmp.address + cpu.y)) /\ Calculate
Lo2 == At("lo2") /\ Fetch /\ Address2(Operand)
Hi2 == At("hi2") /\ Fetch /\ Address2(Wrap(tmp.address2 + Radix * Operand))
Dp2 == At("dp_2") /\ Fetch /\ Address2(DirectPage + Operand)
DpX2 == At("dp+x_2") /\ Address2(InPage(tmp.address2, cpu.x)) /\ Calculate
PtrLo ==
  At("ptr_lo") /\ Address(ram[tmp.address2]) /\ ReadAt(tmp.address2)
  /\ UNCHANGED cpu
PtrHi ==
  LET cell == Wrap(tmp.address2 + 1) IN
  At("ptr_hi") /\ Address(Wrap(tmp.address + Radix * ram[cell])) /\ ReadAt(cell)
  /\ UNCHANGED cpu

Addressing ==
  \/ Dp \/ Lo \/ Hi \/ HiStay \/ HiBit \/ IndirectX \/ IndirectY \/ DpX \/ DpY
  \/ PlusX \/ PlusY \/ Lo2 \/ Hi2 \/ Dp2 \/ DpX2 \/ PtrLo \/ PtrHi

-----------------------------------------------------------------------------
(* Operands. *)
Data(v) == tmp' = [tmp EXCEPT !.data = v]
Data2(v) == tmp' = [tmp EXCEPT !.data2 = v]

Load == At("load") /\ Data(Top) /\ Loaded(Top) /\ ReadAt(tmp.address)
LoadR ==   \* POP: no flag, no _data
  /\ At("load_r") /\ cpu' = [cpu EXCEPT ![form.reg] = Top]
  /\ ReadAt(tmp.address) /\ UNCHANGED tmp
LoadPSW ==
  At("load_psw") /\ cpu' = Restored(cpu, Top) /\ ReadAt(tmp.address) /\ UNCHANGED tmp
Compare ==
  /\ At("compare") /\ Data(Top) /\ ReadAt(tmp.address)
  /\ cpu' = Compared(cpu, cpu[form.reg], Top)
Imm ==
  /\ At("imm") /\ Data(Operand) /\ ReadAt(cpu.pc)
  /\ cpu' = [cpu EXCEPT !.pc = NextPC, ![form.reg] = Operand, !.z = (Operand = 0)]
Read == At("read") /\ ReadAt(tmp.address) /\ UNCHANGED <<cpu, tmp>>
Old == At("old") /\ Data(Top) /\ ReadAt(tmp.address) /\ UNCHANGED cpu
Old2 == At("old_2") /\ Data(ram[tmp.address2]) /\ ReadAt(tmp.address2) /\ UNCHANGED cpu
Store == At("store") /\ WriteAt(tmp.address, cpu[form.reg]) /\ UNCHANGED <<cpu, tmp>>
StoreY == At("store_y") /\ WriteAt(AfterAddress, cpu.y) /\ UNCHANGED <<cpu, tmp>>
Modify ==
  LET v == Low(tmp.data + 1) IN
  /\ At("modify") /\ Data(v) /\ WriteAt(tmp.address, v)
  /\ cpu' = [cpu EXCEPT !.z = (v = 0)]
XPlus == At("x++") /\ cpu' = [cpu EXCEPT !.x = Low(@ + 1)] /\ UNCHANGED <<ram, tmp, seen>>

SrcImm == At("src_imm") /\ Fetch /\ Data2(Operand)
Src2 == At("src_2") /\ Data2(ram[tmp.address2]) /\ ReadAt(tmp.address2) /\ UNCHANGED cpu
SrcThenX ==
  /\ At("src+at_x") /\ ReadAt(tmp.address) /\ UNCHANGED cpu
  /\ tmp' = [tmp EXCEPT !.data2 = Top, !.address = DirectPage + cpu.x]
CombineBlock ==
  LET v == Combine(Top, tmp.data2) IN
  /\ At("combine") /\ Data(v) /\ ReadAt(tmp.address)
  /\ cpu' = [cpu EXCEPT !.z = (v = 0)]
Compare2 ==
  /\ At("compare_2") /\ Data(Top) /\ ReadAt(tmp.address)
  /\ cpu' = Compared(cpu, Top, tmp.data2)
Move == At("move") /\ Data(tmp.data2) /\ ReadAt(tmp.address) /\ UNCHANGED cpu
Put == At("put") /\ WriteAt(tmp.address, tmp.data) /\ UNCHANGED <<cpu, tmp>>

Word(v) == tmp' = [tmp EXCEPT !.data16 = v]
WordLo == At("word_lo") /\ Word(Top) /\ ReadAt(tmp.address) /\ UNCHANGED cpu
WordHi ==
  /\ At("word_hi") /\ ReadAt(AfterAddress) /\ UNCHANGED cpu
  /\ Word(Wrap(tmp.data16 + Radix * ram[AfterAddress]))
WordLoad ==
  /\ At("word_load") /\ UNCHANGED <<ram, tmp, seen>>
  /\ cpu' = [cpu EXCEPT !.a = Low(tmp.data16), !.y = High(tmp.data16),
                        !.z = (tmp.data16 = 0)]
WordInc ==
  LET v == Wrap(tmp.data16 + 1) IN
  /\ At("word_inc") /\ Word(v) /\ WriteAt(tmp.address, Low(v))
  /\ cpu' = [cpu EXCEPT !.z = (v = 0)]
WordPut == At("word_put") /\ WriteAt(AfterAddress, High(tmp.data16)) /\ UNCHANGED <<cpu, tmp>>

Operands ==
  \/ Load \/ LoadR \/ LoadPSW \/ Compare \/ Imm \/ Read \/ Old \/ Old2
  \/ Store \/ StoreY \/ Modify \/ XPlus
  \/ SrcImm \/ Src2 \/ SrcThenX \/ CombineBlock \/ Compare2 \/ Move \/ Put
  \/ WordLo \/ WordHi \/ WordLoad \/ WordInc \/ WordPut

-----------------------------------------------------------------------------
(* Bits, and what needs no operand. *)
Rewrite(v) == Data(v) /\ WriteAt(tmp.address, v) /\ UNCHANGED cpu
SetsCarry(carry) == cpu' = [cpu EXCEPT !.c = carry]
Addressed(v) == IsSet(v, tmp.offset)

Set1 == At("set1") /\ Rewrite(WithBit(tmp.data, form.n))
Clr1 == At("clr1") /\ Rewrite(WithoutBit(tmp.data, form.n))
Test ==
  At("test") /\ cpu' = [cpu EXCEPT !.z = (BitAnd(tmp.data, cpu.a) = 0)]
  /\ UNCHANGED <<ram, tmp, seen>>
Tset1 == At("tset1") /\ Rewrite(BitOr(tmp.data, cpu.a))
Tclr1 == At("tclr1") /\ Rewrite(tmp.data - BitAnd(tmp.data, cpu.a))

CarryFrom(b, carry) == At(b) /\ SetsCarry(carry) /\ UNCHANGED <<ram, tmp, seen>>
Or1 == CarryFrom("or1", cpu.c \/ Addressed(tmp.data))
Or1Not == CarryFrom("or1n", cpu.c \/ ~Addressed(tmp.data))
Eor1 == CarryFrom("eor1", cpu.c # Addressed(tmp.data))
CarryRead(b, carry) == At(b) /\ SetsCarry(carry) /\ Data(Top) /\ ReadAt(tmp.address)
And1 == CarryRead("and1", cpu.c /\ Addressed(Top))
And1Not == CarryRead("and1n", cpu.c /\ ~Addressed(Top))
Mov1C == CarryRead("mov1c", Addressed(Top))
Mov1 ==
  /\ At("mov1") /\ UNCHANGED <<ram, cpu, seen>>
  /\ Data(IF cpu.c THEN WithBit(tmp.data, tmp.offset) ELSE WithoutBit(tmp.data, tmp.offset))
Not1 ==
  At("not1") /\ Rewrite(IF Addressed(tmp.data) THEN WithoutBit(tmp.data, tmp.offset)
                                               ELSE WithBit(tmp.data, tmp.offset))

Bitwork ==
  \/ Set1 \/ Clr1 \/ Test \/ Tset1 \/ Tclr1 \/ Or1 \/ Or1Not \/ Eor1
  \/ And1 \/ And1Not \/ Mov1C \/ Mov1 \/ Not1

(* Instructions on registers only, named for what they do. *)
Moved(c, to, from) == [c EXCEPT ![to] = c[from], !.z = (c[from] = 0)]
Stepped(c, r, n) == [c EXCEPT ![r] = Low(@ + n), !.z = (Low(c[r] + n) = 0)]
AfterImplied(what, c, r) ==
  CASE what = "nop"   -> c
    [] what = "clrp"  -> [c EXCEPT !.p = FALSE]
    [] what = "setp"  -> [c EXCEPT !.p = TRUE]
    [] what = "clrc"  -> [c EXCEPT !.c = FALSE]
    [] what = "setc"  -> [c EXCEPT !.c = TRUE]
    [] what = "notc"  -> [c EXCEPT !.c = ~@]
    [] what = "inc"   -> Stepped(c, r, 1)
    [] what = "dec"   -> Stepped(c, r, -1)
    [] what = "from_a" -> Moved(c, r, "a")
    [] what = "to_a"  -> Moved(c, "a", r)
    [] what = "x_sp"  -> Moved(c, "x", "sp")
    [] what = "sp_x"  -> [c EXCEPT !.sp = c.x]       \* no flags
Implied ==
  /\ At("implied") /\ cpu' = AfterImplied(form.what, cpu, form.reg)
  /\ UNCHANGED <<ram, tmp, seen>>

-----------------------------------------------------------------------------
(* Branches and jumps.  A branch not taken leaves its last blocks out. *)
TakenOr(b, taken) ==
  /\ todo # <<>> /\ Head(todo) = b
  /\ todo' = IF taken THEN Tail(todo) ELSE <<>>
  /\ UNCHANGED <<form, prog, start, torn, frames, scribbled>>

Taken ==
  CASE form.op = "bra" -> TRUE
    [] form.op = "bne" -> ~cpu.z
    [] form.op = "beq" -> cpu.z
    [] form.op = "bcc" -> ~cpu.c
    [] form.op = "bcs" -> cpu.c
OffsetTest ==
  TakenOr("offset+test", Taken) /\ Fetch /\ tmp' = [tmp EXCEPT !.offset = Operand]
BitTest(b, taken) == TakenOr(b, taken) /\ UNCHANGED <<mach, seen>>
Bbs == BitTest("bbs", IsSet(tmp.data, form.n))
Bbc == BitTest("bbc", ~IsSet(tmp.data, form.n))
Cbne == BitTest("cbne", tmp.data # cpu.a)
YMinus == At("y--") /\ cpu' = [cpu EXCEPT !.y = Low(@ - 1)] /\ UNCHANGED <<ram, tmp, seen>>
DbnzY == BitTest("dbnz_y", cpu.y # 0)
Offset == At("offset") /\ Fetch /\ tmp' = [tmp EXCEPT !.offset = Operand]
Dbnz ==
  LET v == Low(tmp.data - 1) IN
  /\ TakenOr("dbnz", v # 0)
  /\ Data(v) /\ WriteAt(tmp.address, v) /\ UNCHANGED cpu
Target == At("target") /\ Address(Wrap(cpu.pc + Signed(tmp.offset))) /\ Calculate
JumpTo(pc) == cpu' = [cpu EXCEPT !.pc = pc]
Jump == At("jump") /\ JumpTo(tmp.address) /\ UNCHANGED <<ram, tmp, seen>>
JumpHi ==
  At("jump_hi") /\ JumpTo(Wrap(Radix * Operand + tmp.address))
  /\ ReadAt(cpu.pc) /\ UNCHANGED tmp
Pcl == At("pcl") /\ tmp' = [tmp EXCEPT !.offset = Top] /\ ReadAt(tmp.address) /\ UNCHANGED cpu
Pch ==
  At("pch") /\ JumpTo(Wrap(Radix * ram[AfterAddress] + tmp.offset))
  /\ ReadAt(AfterAddress) /\ UNCHANGED tmp

Jumps ==
  \/ OffsetTest \/ Offset \/ Bbs \/ Bbc \/ Cbne \/ YMinus \/ DbnzY \/ Dbnz
  \/ Target \/ Jump \/ JumpHi \/ Pcl \/ Pch

-----------------------------------------------------------------------------
(* The stack. *)
VectorAt(v) == VectorBase + 2 * (Vectors - 1 - v)
VecLo ==
  LET cell == VectorAt(form.n) IN
  /\ At("vec_lo") /\ ReadAt(cell) /\ UNCHANGED cpu
  /\ tmp' = [tmp EXCEPT !.address = cell, !.address2 = ram[cell]]
VecHi ==
  /\ At("vec_hi") /\ ReadAt(AfterAddress) /\ UNCHANGED cpu
  /\ Address2(Wrap(tmp.address2 + Radix * ram[AfterAddress]))
Upage == At("upage") /\ Fetch /\ Address2(Radix * (Radix - 1) + Operand)

Stack == At("stack") /\ Address(StackAt(cpu.sp)) /\ Calculate
SPMinus == Low(cpu.sp - 1)
SPPlus == Low(cpu.sp + 1)
SetSP(sp) == cpu' = [cpu EXCEPT !.sp = sp]
DecSP == At("sp--") /\ SetSP(SPMinus) /\ UNCHANGED <<ram, tmp, seen>>
IncSP == At("sp++") /\ SetSP(SPPlus) /\ UNCHANGED <<ram, tmp, seen>>
Idle == At("idle") /\ UNCHANGED <<mach, seen>>

\* mutant: the pointer is not moved between the two bytes
BelowSP_Same == cpu.sp
BelowSP == SPMinus
Pushed(v) == WriteAt(tmp.address, v) /\ SetSP(BelowSP) /\ Address(StackAt(BelowSP))
PushPch == At("push_pch") /\ Pushed(High(cpu.pc))
PushPcl == At("push_pcl") /\ Pushed(Low(cpu.pc))
PushPclStay == At("push_pcl_stay") /\ WriteAt(tmp.address, Low(cpu.pc)) /\ UNCHANGED <<cpu, tmp>>
PushPSW == At("push_psw") /\ WriteAt(tmp.address, PSW(cpu)) /\ UNCHANGED <<cpu, tmp>>
Jump2 == At("jump_2") /\ JumpTo(tmp.address2) /\ UNCHANGED <<ram, tmp, seen>>
Jump2Dec ==
  /\ At("jump_2_sp--") /\ UNCHANGED <<ram, tmp, seen>>
  /\ cpu' = [cpu EXCEPT !.pc = tmp.address2, !.sp = SPMinus]

PopPcl ==
  /\ At("pop_pcl") /\ SetSP(SPPlus) /\ ReadAt(tmp.address)
  /\ tmp' = [tmp EXCEPT !.address2 = Top, !.address = StackAt(SPPlus)]
PopPch ==
  At("pop_pch") /\ JumpTo(Wrap(Radix * Top + tmp.address2))
  /\ ReadAt(tmp.address) /\ UNCHANGED tmp
PopPSW ==
  /\ At("pop_psw") /\ ReadAt(tmp.address) /\ Address(StackAt(SPPlus))
  /\ cpu' = [Restored(cpu, Top) EXCEPT !.sp = SPPlus]

Stacking ==
  \/ VecLo \/ VecHi \/ Upage \/ Stack \/ DecSP \/ IncSP \/ Idle
  \/ PushPch \/ PushPcl \/ PushPclStay \/ PushPSW \/ Jump2 \/ Jump2Dec
  \/ PopPcl \/ PopPch \/ PopPSW

-----------------------------------------------------------------------------
IsPush(f) ==
  "op" \in DOMAIN f /\ f.op \in {"push", "pushpsw", "call", "tcall", "pcall", "brk"}
IsPop(f) == "op" \in DOMAIN f /\ f.op \in {"pop", "poppsw", "ret", "reti"}
OperandBytes(f) == CASE f.op = "call" -> 2 [] f.op = "pcall" -> 1 [] OTHER -> 0

(* START_CYCLE(1).  The frames are history. *)
ReadOpcode ==
  LET f == Head(prog)
      popped == IF IsPop(f) /\ frames # <<>> THEN <<frames[Len(frames)]>> ELSE <<>>
  IN
  /\ todo = <<>> /\ prog # <<>>
  /\ form' = f /\ todo' = Blocks(f) /\ prog' = Tail(prog)
  /\ cpu' = [cpu EXCEPT !.pc = NextPC]
  /\ seen' = {}
  /\ start' = [cpu |-> cpu', ram |-> ram, frame |-> popped]
  /\ frames' = IF IsPush(f)
                 THEN Append(frames, [cpu EXCEPT !.pc = Wrap(NextPC + OperandBytes(f))])
               ELSE IF IsPop(f) /\ frames # <<>> THEN SubSeq(frames, 1, Len(frames) - 1)
               ELSE frames
  /\ UNCHANGED <<ram, tmp, torn, scribbled>>

Block == Addressing \/ Operands \/ Bitwork \/ Implied \/ Jumps \/ Stacking

(* SPC_START has returned, and DSP_Update writes a sample of the echo. *)
StackPage == Radix .. 2 * Radix - 1
Echo(cell, v) ==
  /\ scribbled < MaxScribbles
  /\ scribbled' = scribbled + 1
  /\ ram' = [ram EXCEPT ![cell] = v]
  /\ start' = IF cell \in seen THEN start ELSE [start EXCEPT !.ram[cell] = v]
  /\ torn' = (torn \/ cell \in seen \cup StackPage)
  /\ UNCHANGED <<cpu, tmp, form, todo, prog, seen, frames>>

Next ==
  \/ ReadOpcode
  \/ Block
  \/ \E cell \in EchoCells, v \in Scribbles : Echo(cell, v)

Spec == Init /\ [][Next]_vars

-----------------------------------------------------------------------------
(* What an instruction does, as one step from c and m, the machine after the
   opcode was read: where its operand is, and what becomes of it. *)
WordAt(m, cell) == m[cell] + Radix * m[Wrap(cell + 1)]
PageOf(c) == IF c.p THEN Radix ELSE 0

EA(mode, c, m) ==
  LET op == m[c.pc] IN
  CASE mode = "dp"   -> PageOf(c) + op
    [] mode = "abs"  -> WordAt(m, c.pc)
    [] mode = "x"    -> PageOf(c) + c.x
    [] mode = "dpx"  -> PageOf(c) + Low(op + c.x)
    [] mode = "dpy"  -> PageOf(c) + Low(op + c.y)
    [] mode = "absx" -> Wrap(WordAt(m, c.pc) + c.x)
    [] mode = "absy" -> Wrap(WordAt(m, c.pc) + c.y)
    [] mode = "dpxi" -> WordAt(m, PageOf(c) + Low(op + c.x))
    [] mode = "dpiy" -> Wrap(WordAt(m, PageOf(c) + op) + c.y)

OperandLength ==
  [dp |-> 1, abs |-> 2, x |-> 0, dpx |-> 1, dpy |-> 1, absx |-> 2, absy |-> 2,
   dpxi |-> 1, dpiy |-> 1]

Machine(c, m) == [cpu |-> c, ram |-> m]
Past(c, n) == [c EXCEPT !.pc = Wrap(@ + n)]
Set(m, cell, v) == [m EXCEPT ![cell] = v]
GetR(c, r, v) == [c EXCEPT ![r] = v, !.z = (v = 0)]
GetZ(c, v) == [c EXCEPT !.z = (v = 0)]
SetWord(m, cell, v) == Set(Set(m, cell, Low(v)), Wrap(cell + 1), High(v))

Accessed(access, r, c, m, ea) ==
  CASE access = "load"   -> Machine(GetR(c, r, m[ea]), m)
    [] access = "compare" -> Machine(Compared(c, c[r], m[ea]), m)
    [] access = "store"  -> Machine(c, Set(m, ea, c[r]))
    [] access = "modify" -> LET v == Low(m[ea] + 1) IN Machine(GetZ(c, v), Set(m, ea, v))

(* A call: the address behind its n bytes of operand, high byte first, and
   for BRK the PSW below it. *)
Called(c, m, n, target) ==
  LET ret == Wrap(c.pc + n)
      below == Set(Set(m, StackAt(c.sp), High(ret)), StackAt(Low(c.sp - 1)), Low(ret))
  IN Machine([c EXCEPT !.pc = target, !.sp = Low(@ - 2)], below)
Popped(c, m, i) == m[StackAt(Low(c.sp + i))]
PoppedWord(c, m, i) == Popped(c, m, i) + Radix * Popped(c, m, i + 1)

Flagged(c, carry) == [c EXCEPT !.c = carry]

Special(f, c, m) ==
  LET op == f.op
      r == f.reg
      op1 == m[c.pc]
      op2 == m[Wrap(c.pc + 1)]
      pg == PageOf(c)
      combined(d, s, n) == LET v == Combine(m[d], s) IN
                           Machine(GetZ(Past(c, n), v), Set(m, d, v))
      word == WordAt(m, Wrap(pg + op1))
      at == WordAt(m, c.pc)
      cell == at % BitArea
      bit == at \div BitArea
      there == IsSet(m[cell], bit)
      carry(v) == Machine(Flagged(Past(c, 2), v), m)
      put(n, d, v) == Machine(Past(c, n), Set(m, d, v))
      tested(v) == Machine([Past(c, 2) EXCEPT !.z = (BitAnd(m[at], c.a) = 0)], Set(m, at, v))
      branch(n, taken, off) ==
        [c EXCEPT !.pc = Wrap(@ + n + (IF taken THEN Signed(off) ELSE 0))]
  IN
  CASE op = "implied"  -> Machine(AfterImplied(f.what, c, r), m)
    [] op = "imm"      -> Machine(GetR(Past(c, 1), r, op1), m)
    [] op = "loadinc"  -> Machine([GetR(c, "a", m[pg + c.x]) EXCEPT !.x = Low(@ + 1)], m)
    [] op = "storeinc" -> Machine([c EXCEPT !.x = Low(@ + 1)], Set(m, pg + c.x, c.a))
    [] op = "dpdp"     -> combined(pg + op2, m[pg + op1], 2)
    [] op = "cmpdpdp"  -> Machine(Compared(Past(c, 2), m[pg + op2], m[pg + op1]), m)
    [] op = "movdpdp"  -> put(2, pg + op2, m[pg + op1])
    [] op = "dpimm"    -> combined(pg + op2, op1, 2)
    [] op = "cmpdpimm" -> Machine(Compared(Past(c, 2), m[pg + op2], op1), m)
    [] op = "movdpimm" -> put(2, pg + op2, op1)
    [] op = "xy"       -> combined(pg + c.x, m[pg + c.y], 0)
    [] op = "cmpxy"    -> Machine(Compared(c, m[pg + c.x], m[pg + c.y]), m)
    [] op = "word"     -> Machine([Past(c, 1) EXCEPT !.a = Low(word), !.y = High(word),
                                                     !.z = (word = 0)], m)
    [] op = "incw"     -> Machine(GetZ(Past(c, 1), Wrap(word + 1)),
                                  SetWord(m, pg + op1, Wrap(word + 1)))
    [] op = "movw"     -> Machine(Past(c, 1), SetWord(m, pg + op1, c.a + Radix * c.y))
    [] op = "set1"     -> put(1, pg + op1, WithBit(m[pg + op1], f.n))
    [] op = "clr1"     -> put(1, pg + op1, WithoutBit(m[pg + op1], f.n))
    [] op = "tset1"    -> tested(BitOr(m[at], c.a))
    [] op = "tclr1"    -> tested(m[at] - BitAnd(m[at], c.a))
    [] op = "or1"      -> carry(c.c \/ there)
    [] op = "or1n"     -> carry(c.c \/ ~there)
    [] op = "and1"     -> carry(c.c /\ there)
    [] op = "and1n"    -> carry(c.c /\ ~there)
    [] op = "eor1"     -> carry(c.c # there)
    [] op = "mov1c"    -> carry(there)
    [] op = "mov1"     -> put(2, cell, IF c.c THEN WithBit(m[cell], bit)
                                              ELSE WithoutBit(m[cell], bit))
    [] op = "not1"     -> put(2, cell, IF there THEN WithoutBit(m[cell], bit)
                                                ELSE WithBit(m[cell], bit))
    [] op = "bra"      -> Machine(branch(1, TRUE, op1), m)
    [] op = "bne"      -> Machine(branch(1, ~c.z, op1), m)
    [] op = "beq"      -> Machine(branch(1, c.z, op1), m)
    [] op = "bcc"      -> Machine(branch(1, ~c.c, op1), m)
    [] op = "bcs"      -> Machine(branch(1, c.c, op1), m)
    [] op = "bbs"      -> Machine(branch(2, IsSet(m[pg + op1], f.n), op2), m)
    [] op = "bbc"      -> Machine(branch(2, ~IsSet(m[pg + op1], f.n), op2), m)
    [] op = "cbne"     -> Machine(branch(2, m[pg + op1] # c.a, op2), m)
    [] op = "cbnex"    -> Machine(branch(2, m[pg + Low(op1 + c.x)] # c.a, op2), m)
    [] op = "dbnzy"    -> Machine([branch(1, Low(c.y - 1) # 0, op1) EXCEPT !.y = Low(@ - 1)], m)
    [] op = "dbnz"     -> LET v == Low(m[pg + op1] - 1) IN
                          Machine(branch(2, v # 0, op2), Set(m, pg + op1, v))
    [] op = "jmp"      -> Machine([c EXCEPT !.pc = WordAt(m, c.pc)], m)
    [] op = "jmpx"     -> Machine([c EXCEPT !.pc = WordAt(m, Wrap(WordAt(m, c.pc) + c.x))], m)
    [] op = "push"     -> Machine([c EXCEPT !.sp = Low(@ - 1)], Set(m, StackAt(c.sp), c[r]))
    [] op = "pushpsw"  -> Machine([c EXCEPT !.sp = Low(@ - 1)], Set(m, StackAt(c.sp), PSW(c)))
    [] op = "pop"      -> Machine([c EXCEPT !.sp = Low(@ + 1), ![r] = Popped(c, m, 1)], m)
    [] op = "poppsw"   -> Machine([Restored(c, Popped(c, m, 1)) EXCEPT !.sp = Low(@ + 1)], m)
    [] op = "call"     -> Called(c, m, 2, WordAt(m, c.pc))
    [] op = "tcall"    -> Called(c, m, 0, WordAt(m, VectorAt(f.n)))
    [] op = "pcall"    -> Called(c, m, 1, Radix * (Radix - 1) + op1)
    [] op = "brk"      -> LET called == Called(c, m, 0, WordAt(m, VectorAt(f.n))) IN
                          Machine([called.cpu EXCEPT !.sp = Low(@ - 1)],
                                  Set(called.ram, StackAt(called.cpu.sp), PSW(c)))
    [] op = "ret"      -> Machine([c EXCEPT !.pc = PoppedWord(c, m, 1), !.sp = Low(@ + 2)], m)
    [] op = "reti"     -> Machine([Restored(c, Popped(c, m, 1)) EXCEPT
                                     !.pc = PoppedWord(c, m, 2), !.sp = Low(@ + 3)], m)

AsOneStep(f, c, m) ==
  IF "mode" \in DOMAIN f
    THEN Accessed(f.access, f.reg, Past(c, OperandLength[f.mode]), m, EA(f.mode, c, m))
    ELSE Special(f, c, m)

(* An instruction interrupted between any two of its blocks is as good as
   one done at once, with every sample the DSP wrote in between written
   before it: unless that sample hit a cell it had accessed already. *)
RunsAsOneStep ==
  todo = <<>> /\ ~torn /\ form # [op |-> "none"] =>
    Machine(cpu, ram) = AsOneStep(form, start.cpu, start.ram)

(* A return goes back behind its call, a pull gets what was pushed, and the
   stack pointer is back, through every nesting the stack has room for and
   around the end of its page. *)
ReturnsToCaller ==
  todo = <<>> /\ ~torn => \A i \in DOMAIN start.frame :
    LET frame == start.frame[i] IN
    /\ cpu.sp = frame.sp
    /\ form.op \in {"ret", "reti"} => cpu.pc = frame.pc
    /\ form.op = "pop" => cpu[form.reg] = frame[form.reg]
    /\ form.op \in {"reti", "poppsw"} => PSW(cpu) = PSW(frame)
=============================================================================
