-------------------------- MODULE SpcInstr_proofs ---------------------------
(***************************************************************************)
(* Every instruction of SpcInstr is one step, for every width of a byte,    *)
(* every program, memory and state of the registers, and every echo:        *)
(* RunsAsOneStep.  SpcInstr_steps follows each instruction through its blocks;*)
(* here a sample of the echo between two of them is shown to leave it where *)
(* it was (XStays), an operand is accessed at the end of every mode, and the*)
(* whole is put together.                                                   *)
(***************************************************************************)
EXTENDS SpcInstr_steps

-----------------------------------------------------------------------------
(* A sample of the echo between two blocks, to a cell not accessed so far, moves
   the instruction to the same place over the memory with the sample in it. *)

(* An operand at dp. *)
LEMMA DpStays ==
  ASSUME NEW c \in Cpu, NEW m \in Memory, NEW i, DpAt(i, c, m),
         NEW cell, NEW echo, Stray(cell, echo), form \in ModeForms, form.mode = "dp"
  PROVE  DpAt(i, c, Set(m, cell, echo))'
<1> DEFINE e == PageOf(c) + m[c.pc]
<1>1. /\ c.pc \in Addr /\ m[c.pc] \in Byte
      /\ Wrap(c.pc + 1) \in Addr /\ m[Wrap(c.pc + 1)] \in Byte
  BY Fetched
<1>t. /\ e \in Addr
      /\ m[e] \in Byte
  BY DpTypes DEF DpTyped
<1> DEFINE n == Set(m, cell, echo)
<1>n. /\ cell \in Addr /\ echo \in Byte /\ n \in Memory
      /\ \A other \in Addr : other # cell => n[other] = m[other]
  BY Memories DEF Stray
<1>2. ram \in Memory
  BY DEF DpAt, Now
<1>r. ram' \in Memory
  BY <1>2, Memories DEF Stray
<1>3. ASSUME i = 0 PROVE DpAt(0, c, n)'
  BY <1>1, <1>t, <1>n, <1>r, <1>3 DEF DpAt, Now, Stray
<1>i. i \in 0 .. 0
  BY DEF DpAt
<1> QED BY <1>i, <1>3

(* An operand at !abs. *)
LEMMA AbsStays ==
  ASSUME NEW c \in Cpu, NEW m \in Memory, NEW i, AbsAt(i, c, m),
         NEW cell, NEW echo, Stray(cell, echo), form \in ModeForms, form.mode = "abs"
  PROVE  AbsAt(i, c, Set(m, cell, echo))'
<1> DEFINE e == m[c.pc] + Radix * m[Wrap(c.pc + 1)]
<1>1. /\ c.pc \in Addr /\ m[c.pc] \in Byte
      /\ Wrap(c.pc + 1) \in Addr /\ m[Wrap(c.pc + 1)] \in Byte
  BY Fetched
<1>t. /\ e \in Addr
      /\ m[e] \in Byte
  BY AbsTypes DEF AbsTyped
<1> DEFINE n == Set(m, cell, echo)
<1>n. /\ cell \in Addr /\ echo \in Byte /\ n \in Memory
      /\ \A other \in Addr : other # cell => n[other] = m[other]
  BY Memories DEF Stray
<1>2. ram \in Memory
  BY DEF AbsAt, Now
<1>r. ram' \in Memory
  BY <1>2, Memories DEF Stray
<1>3. ASSUME i = 0 PROVE AbsAt(0, c, n)'
  BY <1>1, <1>t, <1>n, <1>r, <1>3 DEF AbsAt, Now, Stray
<1>4. ASSUME i = 1 PROVE AbsAt(1, c, n)'
  BY <1>1, <1>t, <1>n, <1>r, <1>4 DEF AbsAt, Now, Stray
<1>i. i \in 0 .. 1
  BY DEF AbsAt
<1> QED BY <1>i, <1>3, <1>4

(* An operand at (X). *)
LEMMA XStays ==
  ASSUME NEW c \in Cpu, NEW m \in Memory, NEW i, XAt(i, c, m),
         NEW cell, NEW echo, Stray(cell, echo), form \in ModeForms, form.mode = "x"
  PROVE  XAt(i, c, Set(m, cell, echo))'
<1> DEFINE e == PageOf(c) + c.x
<1>1. /\ c.pc \in Addr /\ m[c.pc] \in Byte
      /\ Wrap(c.pc + 1) \in Addr /\ m[Wrap(c.pc + 1)] \in Byte
  BY Fetched
<1>t. /\ e \in Addr
      /\ m[e] \in Byte
  BY XTypes DEF XTyped
<1> DEFINE n == Set(m, cell, echo)
<1>n. /\ cell \in Addr /\ echo \in Byte /\ n \in Memory
      /\ \A other \in Addr : other # cell => n[other] = m[other]
  BY Memories DEF Stray
<1>2. ram \in Memory
  BY DEF XAt, Now
<1>r. ram' \in Memory
  BY <1>2, Memories DEF Stray
<1>3. ASSUME i = 0 PROVE XAt(0, c, n)'
  BY <1>1, <1>t, <1>n, <1>r, <1>3 DEF XAt, Now, Stray
<1>i. i \in 0 .. 0
  BY DEF XAt
<1> QED BY <1>i, <1>3

(* An operand at dp+X. *)
LEMMA DpXStays ==
  ASSUME NEW c \in Cpu, NEW m \in Memory, NEW i, DpXAt(i, c, m),
         NEW cell, NEW echo, Stray(cell, echo), form \in ModeForms, form.mode = "dpx"
  PROVE  DpXAt(i, c, Set(m, cell, echo))'
<1> DEFINE e == PageOf(c) + Low(m[c.pc] + c.x)
<1>1. /\ c.pc \in Addr /\ m[c.pc] \in Byte
      /\ Wrap(c.pc + 1) \in Addr /\ m[Wrap(c.pc + 1)] \in Byte
  BY Fetched
<1>t. /\ e \in Addr
      /\ m[e] \in Byte
  BY DpXTypes DEF DpXTyped
<1> DEFINE n == Set(m, cell, echo)
<1>n. /\ cell \in Addr /\ echo \in Byte /\ n \in Memory
      /\ \A other \in Addr : other # cell => n[other] = m[other]
  BY Memories DEF Stray
<1>2. ram \in Memory
  BY DEF DpXAt, Now
<1>r. ram' \in Memory
  BY <1>2, Memories DEF Stray
<1>3. ASSUME i = 0 PROVE DpXAt(0, c, n)'
  BY <1>1, <1>t, <1>n, <1>r, <1>3 DEF DpXAt, Now, Stray
<1>4. ASSUME i = 1 PROVE DpXAt(1, c, n)'
  BY <1>1, <1>t, <1>n, <1>r, <1>4 DEF DpXAt, Now, Stray
<1>i. i \in 0 .. 1
  BY DEF DpXAt
<1> QED BY <1>i, <1>3, <1>4

(* An operand at dp+Y. *)
LEMMA DpYStays ==
  ASSUME NEW c \in Cpu, NEW m \in Memory, NEW i, DpYAt(i, c, m),
         NEW cell, NEW echo, Stray(cell, echo), form \in ModeForms, form.mode = "dpy"
  PROVE  DpYAt(i, c, Set(m, cell, echo))'
<1> DEFINE e == PageOf(c) + Low(m[c.pc] + c.y)
<1>1. /\ c.pc \in Addr /\ m[c.pc] \in Byte
      /\ Wrap(c.pc + 1) \in Addr /\ m[Wrap(c.pc + 1)] \in Byte
  BY Fetched
<1>t. /\ e \in Addr
      /\ m[e] \in Byte
  BY DpYTypes DEF DpYTyped
<1> DEFINE n == Set(m, cell, echo)
<1>n. /\ cell \in Addr /\ echo \in Byte /\ n \in Memory
      /\ \A other \in Addr : other # cell => n[other] = m[other]
  BY Memories DEF Stray
<1>2. ram \in Memory
  BY DEF DpYAt, Now
<1>r. ram' \in Memory
  BY <1>2, Memories DEF Stray
<1>3. ASSUME i = 0 PROVE DpYAt(0, c, n)'
  BY <1>1, <1>t, <1>n, <1>r, <1>3 DEF DpYAt, Now, Stray
<1>4. ASSUME i = 1 PROVE DpYAt(1, c, n)'
  BY <1>1, <1>t, <1>n, <1>r, <1>4 DEF DpYAt, Now, Stray
<1>i. i \in 0 .. 1
  BY DEF DpYAt
<1> QED BY <1>i, <1>3, <1>4

(* An operand at !abs+X. *)
LEMMA AbsXStays ==
  ASSUME NEW c \in Cpu, NEW m \in Memory, NEW i, AbsXAt(i, c, m),
         NEW cell, NEW echo, Stray(cell, echo), form \in ModeForms, form.mode = "absx"
  PROVE  AbsXAt(i, c, Set(m, cell, echo))'
<1> DEFINE u == m[c.pc] + Radix * m[Wrap(c.pc + 1)]
           e == Wrap(u + c.x)
<1>1. /\ c.pc \in Addr /\ m[c.pc] \in Byte
      /\ Wrap(c.pc + 1) \in Addr /\ m[Wrap(c.pc + 1)] \in Byte
  BY Fetched
<1>t. /\ u \in Addr
      /\ m[u] \in Byte
      /\ e \in Addr
      /\ m[e] \in Byte
  BY AbsXTypes DEF AbsXTyped
<1> DEFINE n == Set(m, cell, echo)
<1>n. /\ cell \in Addr /\ echo \in Byte /\ n \in Memory
      /\ \A other \in Addr : other # cell => n[other] = m[other]
  BY Memories DEF Stray
<1>2. ram \in Memory
  BY DEF AbsXAt, Now
<1>r. ram' \in Memory
  BY <1>2, Memories DEF Stray
<1>3. ASSUME i = 0 PROVE AbsXAt(0, c, n)'
  BY <1>1, <1>t, <1>n, <1>r, <1>3 DEF AbsXAt, Now, Stray
<1>4. ASSUME i = 1 PROVE AbsXAt(1, c, n)'
  BY <1>1, <1>t, <1>n, <1>r, <1>4 DEF AbsXAt, Now, Stray
<1>5. ASSUME i = 2 PROVE AbsXAt(2, c, n)'
  BY <1>1, <1>t, <1>n, <1>r, <1>5 DEF AbsXAt, Now, Stray
<1>i. i \in 0 .. 2
  BY DEF AbsXAt
<1> QED BY <1>i, <1>3, <1>4, <1>5

(* An operand at !abs+Y. *)
LEMMA AbsYStays ==
  ASSUME NEW c \in Cpu, NEW m \in Memory, NEW i, AbsYAt(i, c, m),
         NEW cell, NEW echo, Stray(cell, echo), form \in ModeForms, form.mode = "absy"
  PROVE  AbsYAt(i, c, Set(m, cell, echo))'
<1> DEFINE u == m[c.pc] + Radix * m[Wrap(c.pc + 1)]
           e == Wrap(u + c.y)
<1>1. /\ c.pc \in Addr /\ m[c.pc] \in Byte
      /\ Wrap(c.pc + 1) \in Addr /\ m[Wrap(c.pc + 1)] \in Byte
  BY Fetched
<1>t. /\ u \in Addr
      /\ m[u] \in Byte
      /\ e \in Addr
      /\ m[e] \in Byte
  BY AbsYTypes DEF AbsYTyped
<1> DEFINE n == Set(m, cell, echo)
<1>n. /\ cell \in Addr /\ echo \in Byte /\ n \in Memory
      /\ \A other \in Addr : other # cell => n[other] = m[other]
  BY Memories DEF Stray
<1>2. ram \in Memory
  BY DEF AbsYAt, Now
<1>r. ram' \in Memory
  BY <1>2, Memories DEF Stray
<1>3. ASSUME i = 0 PROVE AbsYAt(0, c, n)'
  BY <1>1, <1>t, <1>n, <1>r, <1>3 DEF AbsYAt, Now, Stray
<1>4. ASSUME i = 1 PROVE AbsYAt(1, c, n)'
  BY <1>1, <1>t, <1>n, <1>r, <1>4 DEF AbsYAt, Now, Stray
<1>5. ASSUME i = 2 PROVE AbsYAt(2, c, n)'
  BY <1>1, <1>t, <1>n, <1>r, <1>5 DEF AbsYAt, Now, Stray
<1>i. i \in 0 .. 2
  BY DEF AbsYAt
<1> QED BY <1>i, <1>3, <1>4, <1>5

(* An operand at [dp+X]. *)
LEMMA PtrXStays ==
  ASSUME NEW c \in Cpu, NEW m \in Memory, NEW i, PtrXAt(i, c, m),
         NEW cell, NEW echo, Stray(cell, echo), form \in ModeForms, form.mode = "dpxi"
  PROVE  PtrXAt(i, c, Set(m, cell, echo))'
<1> DEFINE t == PageOf(c) + Low(m[c.pc] + c.x)
           f == Wrap(t + 1)
           e == m[t] + Radix * m[f]
<1>1. /\ c.pc \in Addr /\ m[c.pc] \in Byte
      /\ Wrap(c.pc + 1) \in Addr /\ m[Wrap(c.pc + 1)] \in Byte
  BY Fetched
<1>t. /\ t \in Addr
      /\ m[t] \in Byte
      /\ f \in Addr
      /\ m[f] \in Byte
      /\ e \in Addr
      /\ m[e] \in Byte
  BY PtrXTypes DEF PtrXTyped
<1> DEFINE n == Set(m, cell, echo)
<1>n. /\ cell \in Addr /\ echo \in Byte /\ n \in Memory
      /\ \A other \in Addr : other # cell => n[other] = m[other]
  BY Memories DEF Stray
<1>2. ram \in Memory
  BY DEF PtrXAt, Now
<1>r. ram' \in Memory
  BY <1>2, Memories DEF Stray
<1>3. ASSUME i = 0 PROVE PtrXAt(0, c, n)'
  BY <1>1, <1>t, <1>n, <1>r, <1>3 DEF PtrXAt, Now, Stray
<1>4. ASSUME i = 1 PROVE PtrXAt(1, c, n)'
  BY <1>1, <1>t, <1>n, <1>r, <1>4 DEF PtrXAt, Now, Stray
<1>5. ASSUME i = 2 PROVE PtrXAt(2, c, n)'
  BY <1>1, <1>t, <1>n, <1>r, <1>5 DEF PtrXAt, Now, Stray
<1>6. ASSUME i = 3 PROVE PtrXAt(3, c, n)'
  BY <1>1, <1>t, <1>n, <1>r, <1>6 DEF PtrXAt, Now, Stray
<1>i. i \in 0 .. 3
  BY DEF PtrXAt
<1> QED BY <1>i, <1>3, <1>4, <1>5, <1>6

(* An operand at [dp]+Y. *)
LEMMA PtrYStays ==
  ASSUME NEW c \in Cpu, NEW m \in Memory, NEW i, PtrYAt(i, c, m),
         NEW cell, NEW echo, Stray(cell, echo), form \in ModeForms, form.mode = "dpiy"
  PROVE  PtrYAt(i, c, Set(m, cell, echo))'
<1> DEFINE t == PageOf(c) + m[c.pc]
           f == Wrap(t + 1)
           u == m[t] + Radix * m[f]
           e == Wrap(u + c.y)
<1>1. /\ c.pc \in Addr /\ m[c.pc] \in Byte
      /\ Wrap(c.pc + 1) \in Addr /\ m[Wrap(c.pc + 1)] \in Byte
  BY Fetched
<1>t. /\ t \in Addr
      /\ m[t] \in Byte
      /\ f \in Addr
      /\ m[f] \in Byte
      /\ u \in Addr
      /\ m[u] \in Byte
      /\ e \in Addr
      /\ m[e] \in Byte
  BY PtrYTypes DEF PtrYTyped
<1> DEFINE n == Set(m, cell, echo)
<1>n. /\ cell \in Addr /\ echo \in Byte /\ n \in Memory
      /\ \A other \in Addr : other # cell => n[other] = m[other]
  BY Memories DEF Stray
<1>2. ram \in Memory
  BY DEF PtrYAt, Now
<1>r. ram' \in Memory
  BY <1>2, Memories DEF Stray
<1>3. ASSUME i = 0 PROVE PtrYAt(0, c, n)'
  BY <1>1, <1>t, <1>n, <1>r, <1>3 DEF PtrYAt, Now, Stray
<1>4. ASSUME i = 1 PROVE PtrYAt(1, c, n)'
  BY <1>1, <1>t, <1>n, <1>r, <1>4 DEF PtrYAt, Now, Stray
<1>5. ASSUME i = 2 PROVE PtrYAt(2, c, n)'
  BY <1>1, <1>t, <1>n, <1>r, <1>5 DEF PtrYAt, Now, Stray
<1>6. ASSUME i = 3 PROVE PtrYAt(3, c, n)'
  BY <1>1, <1>t, <1>n, <1>r, <1>6 DEF PtrYAt, Now, Stray
<1>i. i \in 0 .. 3
  BY DEF PtrYAt
<1> QED BY <1>i, <1>3, <1>4, <1>5, <1>6

(* Instructions on registers only, of one block. *)
LEMMA ImpliedStays ==
  ASSUME NEW c \in Cpu, NEW m \in Memory, NEW i, ImpliedAt(i, c, m),
         NEW cell, NEW echo, Stray(cell, echo), form \in OtherForms, form.op = "implied"
  PROVE  ImpliedAt(i, c, Set(m, cell, echo))'
<1>1. /\ c.pc \in Addr /\ m[c.pc] \in Byte
      /\ Wrap(c.pc + 1) \in Addr /\ m[Wrap(c.pc + 1)] \in Byte
  BY Fetched
<1>t. /\ AfterImplied(form.what, c, form.reg) \in Cpu
  BY ImpliedTypes DEF ImpliedTyped
<1> DEFINE n == Set(m, cell, echo)
<1>n. /\ cell \in Addr /\ echo \in Byte /\ n \in Memory
      /\ \A other \in Addr : other # cell => n[other] = m[other]
  BY Memories DEF Stray
<1>2. ram \in Memory
  BY DEF ImpliedAt, Now
<1>r. ram' \in Memory
  BY <1>2, Memories DEF Stray
<1>3. ASSUME i = 0 PROVE ImpliedAt(0, c, n)'
  BY <1>1, <1>t, <1>n, <1>r, <1>3 DEF ImpliedAt, Now, Stray
<1>4. ASSUME i = 1 PROVE ImpliedAt(1, c, n)'
  BY <1>1, <1>t, <1>n, <1>r, <1>4 DEF ImpliedAt, Now, Stray
<1>i. i \in 0 .. 1
  BY DEF ImpliedAt
<1> QED BY <1>i, <1>3, <1>4

(* MOV r,#imm. *)
LEMMA ImmStays ==
  ASSUME NEW c \in Cpu, NEW m \in Memory, NEW i, ImmAt(i, c, m),
         NEW cell, NEW echo, Stray(cell, echo), form \in OtherForms, form.op = "imm"
  PROVE  ImmAt(i, c, Set(m, cell, echo))'
<1>1. /\ c.pc \in Addr /\ m[c.pc] \in Byte
      /\ Wrap(c.pc + 1) \in Addr /\ m[Wrap(c.pc + 1)] \in Byte
  BY Fetched
<1>t. /\ GetR(Past(c, 1), form.reg, m[c.pc]) \in Cpu
  BY ImmTypes DEF ImmTyped
<1> DEFINE n == Set(m, cell, echo)
<1>n. /\ cell \in Addr /\ echo \in Byte /\ n \in Memory
      /\ \A other \in Addr : other # cell => n[other] = m[other]
  BY Memories DEF Stray
<1>2. ram \in Memory
  BY DEF ImmAt, Now
<1>r. ram' \in Memory
  BY <1>2, Memories DEF Stray
<1>3. ASSUME i = 0 PROVE ImmAt(0, c, n)'
  BY <1>1, <1>t, <1>n, <1>r, <1>3 DEF ImmAt, Now, Stray
<1>4. ASSUME i = 1 PROVE ImmAt(1, c, n)'
  BY <1>1, <1>t, <1>n, <1>r, <1>4 DEF ImmAt, Now, Stray
<1>i. i \in 0 .. 1
  BY DEF ImmAt
<1> QED BY <1>i, <1>3, <1>4

(* MOV A,(X)+. *)
LEMMA LoadIncStays ==
  ASSUME NEW c \in Cpu, NEW m \in Memory, NEW i, LoadIncAt(i, c, m),
         NEW cell, NEW echo, Stray(cell, echo), form \in OtherForms, form.op = "loadinc"
  PROVE  LoadIncAt(i, c, Set(m, cell, echo))'
<1> DEFINE e == PageOf(c) + c.x
<1>1. /\ c.pc \in Addr /\ m[c.pc] \in Byte
      /\ Wrap(c.pc + 1) \in Addr /\ m[Wrap(c.pc + 1)] \in Byte
  BY Fetched
<1>t. /\ e \in Addr
      /\ m[e] \in Byte
      /\ form.reg = "a"
      /\ "a" \in Registers
      /\ GetR(c, "a", m[e]).x = c.x
      /\ GetR(c, "a", m[e]) \in Cpu
      /\ WithX(GetR(c, "a", m[e]), Low(c.x + 1)) \in Cpu
  BY LoadIncTypes DEF LoadIncTyped
<1> DEFINE n == Set(m, cell, echo)
<1>n. /\ cell \in Addr /\ echo \in Byte /\ n \in Memory
      /\ \A other \in Addr : other # cell => n[other] = m[other]
  BY Memories DEF Stray
<1>2. ram \in Memory
  BY DEF LoadIncAt, Now
<1>r. ram' \in Memory
  BY <1>2, Memories DEF Stray
<1>3. ASSUME i = 0 PROVE LoadIncAt(0, c, n)'
  BY <1>1, <1>t, <1>n, <1>r, <1>3 DEF LoadIncAt, Now, Stray
<1>4. ASSUME i = 1 PROVE LoadIncAt(1, c, n)'
  BY <1>1, <1>t, <1>n, <1>r, <1>4 DEF LoadIncAt, Now, Stray
<1>5. ASSUME i = 2 PROVE LoadIncAt(2, c, n)'
  BY <1>1, <1>t, <1>n, <1>r, <1>5 DEF LoadIncAt, Now, Stray
<1>6. ASSUME i = 3 PROVE LoadIncAt(3, c, n)'
  BY <1>1, <1>t, <1>n, <1>r, <1>6 DEF LoadIncAt, Now, Stray
<1>i. i \in 0 .. 3
  BY DEF LoadIncAt
<1> QED BY <1>i, <1>3, <1>4, <1>5, <1>6

(* MOV (X)+,A. *)
LEMMA StoreIncStays ==
  ASSUME NEW c \in Cpu, NEW m \in Memory, NEW i, StoreIncAt(i, c, m),
         NEW cell, NEW echo, Stray(cell, echo), form \in OtherForms, form.op = "storeinc"
  PROVE  StoreIncAt(i, c, Set(m, cell, echo))'
<1> DEFINE e == PageOf(c) + c.x
<1>1. /\ c.pc \in Addr /\ m[c.pc] \in Byte
      /\ Wrap(c.pc + 1) \in Addr /\ m[Wrap(c.pc + 1)] \in Byte
  BY Fetched
<1>t. /\ e \in Addr
      /\ m[e] \in Byte
      /\ Set(m, e, c.a) \in Memory
      /\ form.reg = "a"
      /\ WithX(c, Low(c.x + 1)) \in Cpu
  BY StoreIncTypes DEF StoreIncTyped
<1> DEFINE n == Set(m, cell, echo)
<1>n. /\ cell \in Addr /\ echo \in Byte /\ n \in Memory
      /\ \A other \in Addr : other # cell => n[other] = m[other]
  BY Memories DEF Stray
<1>2. ram \in Memory
  BY DEF StoreIncAt, Now
<1>r. ram' \in Memory
  BY <1>2, Memories DEF Stray
<1>w. /\ (cell # e => Set(Set(m, e, c.a), cell, echo) = Set(n, e, c.a))
  BY <1>t, <1>n, Apart
<1>3. ASSUME i = 0 PROVE StoreIncAt(0, c, n)'
  BY <1>1, <1>t, <1>n, <1>r, <1>3 DEF StoreIncAt, Now, Stray
<1>4. ASSUME i = 1 PROVE StoreIncAt(1, c, n)'
  BY <1>1, <1>t, <1>n, <1>r, <1>4 DEF StoreIncAt, Now, Stray
<1>5. ASSUME i = 2 PROVE StoreIncAt(2, c, n)'
  BY <1>1, <1>t, <1>n, <1>r, <1>w, <1>5 DEF StoreIncAt, Now, Stray
<1>6. ASSUME i = 3 PROVE StoreIncAt(3, c, n)'
  BY <1>1, <1>t, <1>n, <1>r, <1>w, <1>6 DEF StoreIncAt, Now, Stray
<1>i. i \in 0 .. 3
  BY DEF StoreIncAt
<1> QED BY <1>i, <1>3, <1>4, <1>5, <1>6

(* OR, AND, EOR, ADC and SBC dp,dp. *)
LEMMA DpDpStays ==
  ASSUME NEW c \in Cpu, NEW m \in Memory, NEW i, DpDpAt(i, c, m),
         NEW cell, NEW echo, Stray(cell, echo), form \in OtherForms, form.op = "dpdp"
  PROVE  DpDpAt(i, c, Set(m, cell, echo))'
<1> DEFINE s == PageOf(c) + m[c.pc]
           d == PageOf(c) + m[Wrap(c.pc + 1)]
           v == Combine(m[d], m[s])
<1>1. /\ c.pc \in Addr /\ m[c.pc] \in Byte
      /\ Wrap(c.pc + 1) \in Addr /\ m[Wrap(c.pc + 1)] \in Byte
  BY Fetched
<1>t. /\ s \in Addr
      /\ m[s] \in Byte
      /\ d \in Addr
      /\ m[d] \in Byte
      /\ v \in Byte
      /\ Set(m, d, v) \in Memory
      /\ GetZ(Past(c, 2), v) \in Cpu
  BY DpDpTypes DEF DpDpTyped
<1> DEFINE n == Set(m, cell, echo)
<1>n. /\ cell \in Addr /\ echo \in Byte /\ n \in Memory
      /\ \A other \in Addr : other # cell => n[other] = m[other]
  BY Memories DEF Stray
<1>2. ram \in Memory
  BY DEF DpDpAt, Now
<1>r. ram' \in Memory
  BY <1>2, Memories DEF Stray
<1>w. /\ (cell # d => Set(Set(m, d, v), cell, echo) = Set(n, d, v))
  BY <1>t, <1>n, Apart
<1>3. ASSUME i = 0 PROVE DpDpAt(0, c, n)'
  BY <1>1, <1>t, <1>n, <1>r, <1>3 DEF DpDpAt, Now, Stray
<1>4. ASSUME i = 1 PROVE DpDpAt(1, c, n)'
  BY <1>1, <1>t, <1>n, <1>r, <1>4 DEF DpDpAt, Now, Stray
<1>5. ASSUME i = 2 PROVE DpDpAt(2, c, n)'
  BY <1>1, <1>t, <1>n, <1>r, <1>5 DEF DpDpAt, Now, Stray
<1>6. ASSUME i = 3 PROVE DpDpAt(3, c, n)'
  BY <1>1, <1>t, <1>n, <1>r, <1>6 DEF DpDpAt, Now, Stray
<1>7. ASSUME i = 4 PROVE DpDpAt(4, c, n)'
  BY <1>1, <1>t, <1>n, <1>r, <1>7 DEF DpDpAt, Now, Stray
<1>8. ASSUME i = 5 PROVE DpDpAt(5, c, n)'
  BY <1>1, <1>t, <1>n, <1>r, <1>w, <1>8 DEF DpDpAt, Now, Stray
<1>i. i \in 0 .. 5
  BY DEF DpDpAt
<1> QED BY <1>i, <1>3, <1>4, <1>5, <1>6, <1>7, <1>8

(* CMP dp,dp. *)
LEMMA CmpDpDpStays ==
  ASSUME NEW c \in Cpu, NEW m \in Memory, NEW i, CmpDpDpAt(i, c, m),
         NEW cell, NEW echo, Stray(cell, echo), form \in OtherForms, form.op = "cmpdpdp"
  PROVE  CmpDpDpAt(i, c, Set(m, cell, echo))'
<1> DEFINE s == PageOf(c) + m[c.pc]
           d == PageOf(c) + m[Wrap(c.pc + 1)]
<1>1. /\ c.pc \in Addr /\ m[c.pc] \in Byte
      /\ Wrap(c.pc + 1) \in Addr /\ m[Wrap(c.pc + 1)] \in Byte
  BY Fetched
<1>t. /\ s \in Addr
      /\ m[s] \in Byte
      /\ d \in Addr
      /\ m[d] \in Byte
      /\ Compared(Past(c, 2), m[d], m[s]) \in Cpu
  BY CmpDpDpTypes DEF CmpDpDpTyped
<1> DEFINE n == Set(m, cell, echo)
<1>n. /\ cell \in Addr /\ echo \in Byte /\ n \in Memory
      /\ \A other \in Addr : other # cell => n[other] = m[other]
  BY Memories DEF Stray
<1>2. ram \in Memory
  BY DEF CmpDpDpAt, Now
<1>r. ram' \in Memory
  BY <1>2, Memories DEF Stray
<1>3. ASSUME i = 0 PROVE CmpDpDpAt(0, c, n)'
  BY <1>1, <1>t, <1>n, <1>r, <1>3 DEF CmpDpDpAt, Now, Stray
<1>4. ASSUME i = 1 PROVE CmpDpDpAt(1, c, n)'
  BY <1>1, <1>t, <1>n, <1>r, <1>4 DEF CmpDpDpAt, Now, Stray
<1>5. ASSUME i = 2 PROVE CmpDpDpAt(2, c, n)'
  BY <1>1, <1>t, <1>n, <1>r, <1>5 DEF CmpDpDpAt, Now, Stray
<1>6. ASSUME i = 3 PROVE CmpDpDpAt(3, c, n)'
  BY <1>1, <1>t, <1>n, <1>r, <1>6 DEF CmpDpDpAt, Now, Stray
<1>7. ASSUME i = 4 PROVE CmpDpDpAt(4, c, n)'
  BY <1>1, <1>t, <1>n, <1>r, <1>7 DEF CmpDpDpAt, Now, Stray
<1>i. i \in 0 .. 4
  BY DEF CmpDpDpAt
<1> QED BY <1>i, <1>3, <1>4, <1>5, <1>6, <1>7

(* MOV dp,dp. *)
LEMMA MovDpDpStays ==
  ASSUME NEW c \in Cpu, NEW m \in Memory, NEW i, MovDpDpAt(i, c, m),
         NEW cell, NEW echo, Stray(cell, echo), form \in OtherForms, form.op = "movdpdp"
  PROVE  MovDpDpAt(i, c, Set(m, cell, echo))'
<1> DEFINE s == PageOf(c) + m[c.pc]
           d == PageOf(c) + m[Wrap(c.pc + 1)]
<1>1. /\ c.pc \in Addr /\ m[c.pc] \in Byte
      /\ Wrap(c.pc + 1) \in Addr /\ m[Wrap(c.pc + 1)] \in Byte
  BY Fetched
<1>t. /\ s \in Addr
      /\ m[s] \in Byte
      /\ d \in Addr
      /\ m[d] \in Byte
      /\ Set(m, d, m[s]) \in Memory
  BY MovDpDpTypes DEF MovDpDpTyped
<1> DEFINE n == Set(m, cell, echo)
<1>n. /\ cell \in Addr /\ echo \in Byte /\ n \in Memory
      /\ \A other \in Addr : other # cell => n[other] = m[other]
  BY Memories DEF Stray
<1>2. ram \in Memory
  BY DEF MovDpDpAt, Now
<1>r. ram' \in Memory
  BY <1>2, Memories DEF Stray
<1>w. /\ (cell # d => Set(Set(m, d, m[s]), cell, echo) = Set(n, d, m[s]))
  BY <1>t, <1>n, Apart
<1>3. ASSUME i = 0 PROVE MovDpDpAt(0, c, n)'
  BY <1>1, <1>t, <1>n, <1>r, <1>3 DEF MovDpDpAt, Now, Stray
<1>4. ASSUME i = 1 PROVE MovDpDpAt(1, c, n)'
  BY <1>1, <1>t, <1>n, <1>r, <1>4 DEF MovDpDpAt, Now, Stray
<1>5. ASSUME i = 2 PROVE MovDpDpAt(2, c, n)'
  BY <1>1, <1>t, <1>n, <1>r, <1>5 DEF MovDpDpAt, Now, Stray
<1>6. ASSUME i = 3 PROVE MovDpDpAt(3, c, n)'
  BY <1>1, <1>t, <1>n, <1>r, <1>6 DEF MovDpDpAt, Now, Stray
<1>7. ASSUME i = 4 PROVE MovDpDpAt(4, c, n)'
  BY <1>1, <1>t, <1>n, <1>r, <1>w, <1>7 DEF MovDpDpAt, Now, Stray
<1>i. i \in 0 .. 4
  BY DEF MovDpDpAt
<1> QED BY <1>i, <1>3, <1>4, <1>5, <1>6, <1>7

(* OR, AND, EOR, ADC and SBC dp,#imm. *)
LEMMA DpImmStays ==
  ASSUME NEW c \in Cpu, NEW m \in Memory, NEW i, DpImmAt(i, c, m),
         NEW cell, NEW echo, Stray(cell, echo), form \in OtherForms, form.op = "dpimm"
  PROVE  DpImmAt(i, c, Set(m, cell, echo))'
<1> DEFINE s == m[c.pc]
           d == PageOf(c) + m[Wrap(c.pc + 1)]
           v == Combine(m[d], s)
<1>1. /\ c.pc \in Addr /\ m[c.pc] \in Byte
      /\ Wrap(c.pc + 1) \in Addr /\ m[Wrap(c.pc + 1)] \in Byte
  BY Fetched
<1>t. /\ s \in Byte
      /\ d \in Addr
      /\ m[d] \in Byte
      /\ v \in Byte
      /\ Set(m, d, v) \in Memory
      /\ GetZ(Past(c, 2), v) \in Cpu
  BY DpImmTypes DEF DpImmTyped
<1> DEFINE n == Set(m, cell, echo)
<1>n. /\ cell \in Addr /\ echo \in Byte /\ n \in Memory
      /\ \A other \in Addr : other # cell => n[other] = m[other]
  BY Memories DEF Stray
<1>2. ram \in Memory
  BY DEF DpImmAt, Now
<1>r. ram' \in Memory
  BY <1>2, Memories DEF Stray
<1>w. /\ (cell # d => Set(Set(m, d, v), cell, echo) = Set(n, d, v))
  BY <1>t, <1>n, Apart
<1>3. ASSUME i = 0 PROVE DpImmAt(0, c, n)'
  BY <1>1, <1>t, <1>n, <1>r, <1>3 DEF DpImmAt, Now, Stray
<1>4. ASSUME i = 1 PROVE DpImmAt(1, c, n)'
  BY <1>1, <1>t, <1>n, <1>r, <1>4 DEF DpImmAt, Now, Stray
<1>5. ASSUME i = 2 PROVE DpImmAt(2, c, n)'
  BY <1>1, <1>t, <1>n, <1>r, <1>5 DEF DpImmAt, Now, Stray
<1>6. ASSUME i = 3 PROVE DpImmAt(3, c, n)'
  BY <1>1, <1>t, <1>n, <1>r, <1>6 DEF DpImmAt, Now, Stray
<1>7. ASSUME i = 4 PROVE DpImmAt(4, c, n)'
  BY <1>1, <1>t, <1>n, <1>r, <1>w, <1>7 DEF DpImmAt, Now, Stray
<1>i. i \in 0 .. 4
  BY DEF DpImmAt
<1> QED BY <1>i, <1>3, <1>4, <1>5, <1>6, <1>7

(* CMP dp,#imm. *)
LEMMA CmpDpImmStays ==
  ASSUME NEW c \in Cpu, NEW m \in Memory, NEW i, CmpDpImmAt(i, c, m),
         NEW cell, NEW echo, Stray(cell, echo), form \in OtherForms, form.op = "cmpdpimm"
  PROVE  CmpDpImmAt(i, c, Set(m, cell, echo))'
<1> DEFINE s == m[c.pc]
           d == PageOf(c) + m[Wrap(c.pc + 1)]
<1>1. /\ c.pc \in Addr /\ m[c.pc] \in Byte
      /\ Wrap(c.pc + 1) \in Addr /\ m[Wrap(c.pc + 1)] \in Byte
  BY Fetched
<1>t. /\ s \in Byte
      /\ d \in Addr
      /\ m[d] \in Byte
      /\ Compared(Past(c, 2), m[d], s) \in Cpu
  BY CmpDpImmTypes DEF CmpDpImmTyped
<1> DEFINE n == Set(m, cell, echo)
<1>n. /\ cell \in Addr /\ echo \in Byte /\ n \in Memory
      /\ \A other \in Addr : other # cell => n[other] = m[other]
  BY Memories DEF Stray
<1>2. ram \in Memory
  BY DEF CmpDpImmAt, Now
<1>r. ram' \in Memory
  BY <1>2, Memories DEF Stray
<1>3. ASSUME i = 0 PROVE CmpDpImmAt(0, c, n)'
  BY <1>1, <1>t, <1>n, <1>r, <1>3 DEF CmpDpImmAt, Now, Stray
<1>4. ASSUME i = 1 PROVE CmpDpImmAt(1, c, n)'
  BY <1>1, <1>t, <1>n, <1>r, <1>4 DEF CmpDpImmAt, Now, Stray
<1>5. ASSUME i = 2 PROVE CmpDpImmAt(2, c, n)'
  BY <1>1, <1>t, <1>n, <1>r, <1>5 DEF CmpDpImmAt, Now, Stray
<1>6. ASSUME i = 3 PROVE CmpDpImmAt(3, c, n)'
  BY <1>1, <1>t, <1>n, <1>r, <1>6 DEF CmpDpImmAt, Now, Stray
<1>i. i \in 0 .. 3
  BY DEF CmpDpImmAt
<1> QED BY <1>i, <1>3, <1>4, <1>5, <1>6

(* MOV dp,#imm. *)
LEMMA MovDpImmStays ==
  ASSUME NEW c \in Cpu, NEW m \in Memory, NEW i, MovDpImmAt(i, c, m),
         NEW cell, NEW echo, Stray(cell, echo), form \in OtherForms, form.op = "movdpimm"
  PROVE  MovDpImmAt(i, c, Set(m, cell, echo))'
<1> DEFINE s == m[c.pc]
           d == PageOf(c) + m[Wrap(c.pc + 1)]
<1>1. /\ c.pc \in Addr /\ m[c.pc] \in Byte
      /\ Wrap(c.pc + 1) \in Addr /\ m[Wrap(c.pc + 1)] \in Byte
  BY Fetched
<1>t. /\ s \in Byte
      /\ d \in Addr
      /\ m[d] \in Byte
      /\ Set(m, d, s) \in Memory
  BY MovDpImmTypes DEF MovDpImmTyped
<1> DEFINE n == Set(m, cell, echo)
<1>n. /\ cell \in Addr /\ echo \in Byte /\ n \in Memory
      /\ \A other \in Addr : other # cell => n[other] = m[other]
  BY Memories DEF Stray
<1>2. ram \in Memory
  BY DEF MovDpImmAt, Now
<1>r. ram' \in Memory
  BY <1>2, Memories DEF Stray
<1>w. /\ (cell # d => Set(Set(m, d, s), cell, echo) = Set(n, d, s))
  BY <1>t, <1>n, Apart
<1>3. ASSUME i = 0 PROVE MovDpImmAt(0, c, n)'
  BY <1>1, <1>t, <1>n, <1>r, <1>3 DEF MovDpImmAt, Now, Stray
<1>4. ASSUME i = 1 PROVE MovDpImmAt(1, c, n)'
  BY <1>1, <1>t, <1>n, <1>r, <1>4 DEF MovDpImmAt, Now, Stray
<1>5. ASSUME i = 2 PROVE MovDpImmAt(2, c, n)'
  BY <1>1, <1>t, <1>n, <1>r, <1>5 DEF MovDpImmAt, Now, Stray
<1>6. ASSUME i = 3 PROVE MovDpImmAt(3, c, n)'
  BY <1>1, <1>t, <1>n, <1>r, <1>6 DEF MovDpImmAt, Now, Stray
<1>7. ASSUME i = 4 PROVE MovDpImmAt(4, c, n)'
  BY <1>1, <1>t, <1>n, <1>r, <1>w, <1>7 DEF MovDpImmAt, Now, Stray
<1>i. i \in 0 .. 4
  BY DEF MovDpImmAt
<1> QED BY <1>i, <1>3, <1>4, <1>5, <1>6, <1>7

(* OR, AND, EOR, ADC and SBC (X),(Y). *)
LEMMA XYStays ==
  ASSUME NEW c \in Cpu, NEW m \in Memory, NEW i, XYAt(i, c, m),
         NEW cell, NEW echo, Stray(cell, echo), form \in OtherForms, form.op = "xy"
  PROVE  XYAt(i, c, Set(m, cell, echo))'
<1> DEFINE s == PageOf(c) + c.y
           d == PageOf(c) + c.x
           v == Combine(m[d], m[s])
<1>1. /\ c.pc \in Addr /\ m[c.pc] \in Byte
      /\ Wrap(c.pc + 1) \in Addr /\ m[Wrap(c.pc + 1)] \in Byte
  BY Fetched
<1>t. /\ s \in Addr
      /\ m[s] \in Byte
      /\ d \in Addr
      /\ m[d] \in Byte
      /\ v \in Byte
      /\ Set(m, d, v) \in Memory
      /\ GetZ(Past(c, 0), v) \in Cpu
  BY XYTypes DEF XYTyped
<1> DEFINE n == Set(m, cell, echo)
<1>n. /\ cell \in Addr /\ echo \in Byte /\ n \in Memory
      /\ \A other \in Addr : other # cell => n[other] = m[other]
  BY Memories DEF Stray
<1>2. ram \in Memory
  BY DEF XYAt, Now
<1>r. ram' \in Memory
  BY <1>2, Memories DEF Stray
<1>w. /\ (cell # d => Set(Set(m, d, v), cell, echo) = Set(n, d, v))
  BY <1>t, <1>n, Apart
<1>3. ASSUME i = 0 PROVE XYAt(0, c, n)'
  BY <1>1, <1>t, <1>n, <1>r, <1>3 DEF XYAt, Now, Stray
<1>4. ASSUME i = 1 PROVE XYAt(1, c, n)'
  BY <1>1, <1>t, <1>n, <1>r, <1>4 DEF XYAt, Now, Stray
<1>5. ASSUME i = 2 PROVE XYAt(2, c, n)'
  BY <1>1, <1>t, <1>n, <1>r, <1>5 DEF XYAt, Now, Stray
<1>6. ASSUME i = 3 PROVE XYAt(3, c, n)'
  BY <1>1, <1>t, <1>n, <1>r, <1>6 DEF XYAt, Now, Stray
<1>7. ASSUME i = 4 PROVE XYAt(4, c, n)'
  BY <1>1, <1>t, <1>n, <1>r, <1>w, <1>7 DEF XYAt, Now, Stray
<1>i. i \in 0 .. 4
  BY DEF XYAt
<1> QED BY <1>i, <1>3, <1>4, <1>5, <1>6, <1>7

(* CMP (X),(Y). *)
LEMMA CmpXYStays ==
  ASSUME NEW c \in Cpu, NEW m \in Memory, NEW i, CmpXYAt(i, c, m),
         NEW cell, NEW echo, Stray(cell, echo), form \in OtherForms, form.op = "cmpxy"
  PROVE  CmpXYAt(i, c, Set(m, cell, echo))'
<1> DEFINE s == PageOf(c) + c.y
           d == PageOf(c) + c.x
<1>1. /\ c.pc \in Addr /\ m[c.pc] \in Byte
      /\ Wrap(c.pc + 1) \in Addr /\ m[Wrap(c.pc + 1)] \in Byte
  BY Fetched
<1>t. /\ s \in Addr
      /\ m[s] \in Byte
      /\ d \in Addr
      /\ m[d] \in Byte
      /\ Compared(c, m[d], m[s]) \in Cpu
  BY CmpXYTypes DEF CmpXYTyped
<1> DEFINE n == Set(m, cell, echo)
<1>n. /\ cell \in Addr /\ echo \in Byte /\ n \in Memory
      /\ \A other \in Addr : other # cell => n[other] = m[other]
  BY Memories DEF Stray
<1>2. ram \in Memory
  BY DEF CmpXYAt, Now
<1>r. ram' \in Memory
  BY <1>2, Memories DEF Stray
<1>3. ASSUME i = 0 PROVE CmpXYAt(0, c, n)'
  BY <1>1, <1>t, <1>n, <1>r, <1>3 DEF CmpXYAt, Now, Stray
<1>4. ASSUME i = 1 PROVE CmpXYAt(1, c, n)'
  BY <1>1, <1>t, <1>n, <1>r, <1>4 DEF CmpXYAt, Now, Stray
<1>5. ASSUME i = 2 PROVE CmpXYAt(2, c, n)'
  BY <1>1, <1>t, <1>n, <1>r, <1>5 DEF CmpXYAt, Now, Stray
<1>6. ASSUME i = 3 PROVE CmpXYAt(3, c, n)'
  BY <1>1, <1>t, <1>n, <1>r, <1>6 DEF CmpXYAt, Now, Stray
<1>i. i \in 0 .. 3
  BY DEF CmpXYAt
<1> QED BY <1>i, <1>3, <1>4, <1>5, <1>6

(* MOVW YA,dp. *)
LEMMA LoadWordStays ==
  ASSUME NEW c \in Cpu, NEW m \in Memory, NEW i, LoadWordAt(i, c, m),
         NEW cell, NEW echo, Stray(cell, echo), form \in OtherForms, form.op = "word"
  PROVE  LoadWordAt(i, c, Set(m, cell, echo))'
<1> DEFINE e == PageOf(c) + m[c.pc]
           f == Wrap(e + 1)
           w == m[e] + Radix * m[f]
<1>1. /\ c.pc \in Addr /\ m[c.pc] \in Byte
      /\ Wrap(c.pc + 1) \in Addr /\ m[Wrap(c.pc + 1)] \in Byte
  BY Fetched
<1>t. /\ e \in Addr
      /\ m[e] \in Byte
      /\ f \in Addr
      /\ m[f] \in Byte
      /\ w \in Addr
      /\ WordIn(Past(c, 1), w) \in Cpu
  BY LoadWordTypes DEF LoadWordTyped
<1> DEFINE n == Set(m, cell, echo)
<1>n. /\ cell \in Addr /\ echo \in Byte /\ n \in Memory
      /\ \A other \in Addr : other # cell => n[other] = m[other]
  BY Memories DEF Stray
<1>2. ram \in Memory
  BY DEF LoadWordAt, Now
<1>r. ram' \in Memory
  BY <1>2, Memories DEF Stray
<1>3. ASSUME i = 0 PROVE LoadWordAt(0, c, n)'
  BY <1>1, <1>t, <1>n, <1>r, <1>3 DEF LoadWordAt, Now, Stray
<1>4. ASSUME i = 1 PROVE LoadWordAt(1, c, n)'
  BY <1>1, <1>t, <1>n, <1>r, <1>4 DEF LoadWordAt, Now, Stray
<1>5. ASSUME i = 2 PROVE LoadWordAt(2, c, n)'
  BY <1>1, <1>t, <1>n, <1>r, <1>5 DEF LoadWordAt, Now, Stray
<1>6. ASSUME i = 3 PROVE LoadWordAt(3, c, n)'
  BY <1>1, <1>t, <1>n, <1>r, <1>6 DEF LoadWordAt, Now, Stray
<1>7. ASSUME i = 4 PROVE LoadWordAt(4, c, n)'
  BY <1>1, <1>t, <1>n, <1>r, <1>7 DEF LoadWordAt, Now, Stray
<1>i. i \in 0 .. 4
  BY DEF LoadWordAt
<1> QED BY <1>i, <1>3, <1>4, <1>5, <1>6, <1>7

(* INCW and DECW dp. *)
LEMMA IncWStays ==
  ASSUME NEW c \in Cpu, NEW m \in Memory, NEW i, IncWAt(i, c, m),
         NEW cell, NEW echo, Stray(cell, echo), form \in OtherForms, form.op = "incw"
  PROVE  IncWAt(i, c, Set(m, cell, echo))'
<1> DEFINE e == PageOf(c) + m[c.pc]
           f == Wrap(e + 1)
           w == m[e] + Radix * m[f]
           v == Wrap(w + 1)
<1>1. /\ c.pc \in Addr /\ m[c.pc] \in Byte
      /\ Wrap(c.pc + 1) \in Addr /\ m[Wrap(c.pc + 1)] \in Byte
  BY Fetched
<1>t. /\ e \in Addr
      /\ m[e] \in Byte
      /\ f \in Addr
      /\ m[f] \in Byte
      /\ w \in Addr
      /\ v \in Addr
      /\ m[v] \in Byte
      /\ Set(m, e, Low(v)) \in Memory
      /\ Set(Set(m, e, Low(v)), f, High(v)) \in Memory
      /\ GetZ(Past(c, 1), v) \in Cpu
  BY IncWTypes DEF IncWTyped
<1> DEFINE n == Set(m, cell, echo)
<1>n. /\ cell \in Addr /\ echo \in Byte /\ n \in Memory
      /\ \A other \in Addr : other # cell => n[other] = m[other]
  BY Memories DEF Stray
<1>2. ram \in Memory
  BY DEF IncWAt, Now
<1>r. ram' \in Memory
  BY <1>2, Memories DEF Stray
<1>w. /\ (cell # e => Set(Set(m, e, Low(v)), cell, echo) = Set(n, e, Low(v)))
      /\ (cell # f /\ cell # e => Set(Set(Set(m, e, Low(v)), f, High(v)), cell, echo) =
          Set(Set(n, e, Low(v)), f, High(v)))
  BY <1>t, <1>n, Apart
<1>3. ASSUME i = 0 PROVE IncWAt(0, c, n)'
  BY <1>1, <1>t, <1>n, <1>r, <1>3, SMTT(20) DEF IncWAt, Now, Stray
<1>4. ASSUME i = 1 PROVE IncWAt(1, c, n)'
  BY <1>1, <1>t, <1>n, <1>r, <1>4, SMTT(20) DEF IncWAt, Now, Stray
<1>5. ASSUME i = 2 PROVE IncWAt(2, c, n)'
  BY <1>1, <1>t, <1>n, <1>r, <1>5, SMTT(20) DEF IncWAt, Now, Stray
<1>6. ASSUME i = 3 PROVE IncWAt(3, c, n)'
  BY <1>1, <1>t, <1>n, <1>r, <1>6, SMTT(20) DEF IncWAt, Now, Stray
<1>7. ASSUME i = 4 PROVE IncWAt(4, c, n)'
  BY <1>1, <1>t, <1>n, <1>r, <1>w, <1>7, SMTT(20) DEF IncWAt, Now, Stray
<1>8. ASSUME i = 5 PROVE IncWAt(5, c, n)'
  BY <1>1, <1>t, <1>n, <1>r, <1>w, <1>8, SMTT(20) DEF IncWAt, Now, Stray
<1>i. i \in 0 .. 5
  BY DEF IncWAt
<1> QED BY <1>i, <1>3, <1>4, <1>5, <1>6, <1>7, <1>8

(* MOVW dp,YA. *)
LEMMA MovWStays ==
  ASSUME NEW c \in Cpu, NEW m \in Memory, NEW i, MovWAt(i, c, m),
         NEW cell, NEW echo, Stray(cell, echo), form \in OtherForms, form.op = "movw"
  PROVE  MovWAt(i, c, Set(m, cell, echo))'
<1> DEFINE e == PageOf(c) + m[c.pc]
           f == Wrap(e + 1)
<1>1. /\ c.pc \in Addr /\ m[c.pc] \in Byte
      /\ Wrap(c.pc + 1) \in Addr /\ m[Wrap(c.pc + 1)] \in Byte
  BY Fetched
<1>t. /\ e \in Addr
      /\ m[e] \in Byte
      /\ f \in Addr
      /\ m[f] \in Byte
      /\ Set(m, e, c.a) \in Memory
      /\ Set(Set(m, e, c.a), f, c.y) \in Memory
      /\ form.reg = "a"
  BY MovWTypes DEF MovWTyped
<1> DEFINE n == Set(m, cell, echo)
<1>n. /\ cell \in Addr /\ echo \in Byte /\ n \in Memory
      /\ \A other \in Addr : other # cell => n[other] = m[other]
  BY Memories DEF Stray
<1>2. ram \in Memory
  BY DEF MovWAt, Now
<1>r. ram' \in Memory
  BY <1>2, Memories DEF Stray
<1>w. /\ (cell # e => Set(Set(m, e, c.a), cell, echo) = Set(n, e, c.a))
      /\ (cell # f /\ cell # e => Set(Set(Set(m, e, c.a), f, c.y), cell, echo) =
          Set(Set(n, e, c.a), f, c.y))
  BY <1>t, <1>n, Apart
<1>3. ASSUME i = 0 PROVE MovWAt(0, c, n)'
  BY <1>1, <1>t, <1>n, <1>r, <1>3 DEF MovWAt, Now, Stray
<1>4. ASSUME i = 1 PROVE MovWAt(1, c, n)'
  BY <1>1, <1>t, <1>n, <1>r, <1>4 DEF MovWAt, Now, Stray
<1>5. ASSUME i = 2 PROVE MovWAt(2, c, n)'
  BY <1>1, <1>t, <1>n, <1>r, <1>5 DEF MovWAt, Now, Stray
<1>6. ASSUME i = 3 PROVE MovWAt(3, c, n)'
  BY <1>1, <1>t, <1>n, <1>r, <1>w, <1>6 DEF MovWAt, Now, Stray
<1>7. ASSUME i = 4 PROVE MovWAt(4, c, n)'
  BY <1>1, <1>t, <1>n, <1>r, <1>w, <1>7 DEF MovWAt, Now, Stray
<1>i. i \in 0 .. 4
  BY DEF MovWAt
<1> QED BY <1>i, <1>3, <1>4, <1>5, <1>6, <1>7

(* SET1 dp.bit. *)
LEMMA SetBitStays ==
  ASSUME NEW c \in Cpu, NEW m \in Memory, NEW i, SetBitAt(i, c, m),
         NEW cell, NEW echo, Stray(cell, echo), form \in OtherForms, form.op = "set1"
  PROVE  SetBitAt(i, c, Set(m, cell, echo))'
<1> DEFINE e == PageOf(c) + m[c.pc]
           v == WithBit(m[e], form.n)
<1>1. /\ c.pc \in Addr /\ m[c.pc] \in Byte
      /\ Wrap(c.pc + 1) \in Addr /\ m[Wrap(c.pc + 1)] \in Byte
  BY Fetched
<1>t. /\ e \in Addr
      /\ m[e] \in Byte
      /\ v \in Byte
      /\ Set(m, e, v) \in Memory
  BY SetBitTypes DEF SetBitTyped
<1> DEFINE n == Set(m, cell, echo)
<1>n. /\ cell \in Addr /\ echo \in Byte /\ n \in Memory
      /\ \A other \in Addr : other # cell => n[other] = m[other]
  BY Memories DEF Stray
<1>2. ram \in Memory
  BY DEF SetBitAt, Now
<1>r. ram' \in Memory
  BY <1>2, Memories DEF Stray
<1>w. /\ (cell # e => Set(Set(m, e, v), cell, echo) = Set(n, e, v))
  BY <1>t, <1>n, Apart
<1>3. ASSUME i = 0 PROVE SetBitAt(0, c, n)'
  BY <1>1, <1>t, <1>n, <1>r, <1>3 DEF SetBitAt, Now, Stray
<1>4. ASSUME i = 1 PROVE SetBitAt(1, c, n)'
  BY <1>1, <1>t, <1>n, <1>r, <1>4 DEF SetBitAt, Now, Stray
<1>5. ASSUME i = 2 PROVE SetBitAt(2, c, n)'
  BY <1>1, <1>t, <1>n, <1>r, <1>5 DEF SetBitAt, Now, Stray
<1>6. ASSUME i = 3 PROVE SetBitAt(3, c, n)'
  BY <1>1, <1>t, <1>n, <1>r, <1>w, <1>6 DEF SetBitAt, Now, Stray
<1>i. i \in 0 .. 3
  BY DEF SetBitAt
<1> QED BY <1>i, <1>3, <1>4, <1>5, <1>6

(* CLR1 dp.bit. *)
LEMMA ClrBitStays ==
  ASSUME NEW c \in Cpu, NEW m \in Memory, NEW i, ClrBitAt(i, c, m),
         NEW cell, NEW echo, Stray(cell, echo), form \in OtherForms, form.op = "clr1"
  PROVE  ClrBitAt(i, c, Set(m, cell, echo))'
<1> DEFINE e == PageOf(c) + m[c.pc]
           v == WithoutBit(m[e], form.n)
<1>1. /\ c.pc \in Addr /\ m[c.pc] \in Byte
      /\ Wrap(c.pc + 1) \in Addr /\ m[Wrap(c.pc + 1)] \in Byte
  BY Fetched
<1>t. /\ e \in Addr
      /\ m[e] \in Byte
      /\ v \in Byte
      /\ Set(m, e, v) \in Memory
  BY ClrBitTypes DEF ClrBitTyped
<1> DEFINE n == Set(m, cell, echo)
<1>n. /\ cell \in Addr /\ echo \in Byte /\ n \in Memory
      /\ \A other \in Addr : other # cell => n[other] = m[other]
  BY Memories DEF Stray
<1>2. ram \in Memory
  BY DEF ClrBitAt, Now
<1>r. ram' \in Memory
  BY <1>2, Memories DEF Stray
<1>w. /\ (cell # e => Set(Set(m, e, v), cell, echo) = Set(n, e, v))
  BY <1>t, <1>n, Apart
<1>3. ASSUME i = 0 PROVE ClrBitAt(0, c, n)'
  BY <1>1, <1>t, <1>n, <1>r, <1>3 DEF ClrBitAt, Now, Stray
<1>4. ASSUME i = 1 PROVE ClrBitAt(1, c, n)'
  BY <1>1, <1>t, <1>n, <1>r, <1>4 DEF ClrBitAt, Now, Stray
<1>5. ASSUME i = 2 PROVE ClrBitAt(2, c, n)'
  BY <1>1, <1>t, <1>n, <1>r, <1>5 DEF ClrBitAt, Now, Stray
<1>6. ASSUME i = 3 PROVE ClrBitAt(3, c, n)'
  BY <1>1, <1>t, <1>n, <1>r, <1>w, <1>6 DEF ClrBitAt, Now, Stray
<1>i. i \in 0 .. 3
  BY DEF ClrBitAt
<1> QED BY <1>i, <1>3, <1>4, <1>5, <1>6

(* TSET1 !abs. *)
LEMMA TestSetStays ==
  ASSUME NEW c \in Cpu, NEW m \in Memory, NEW i, TestSetAt(i, c, m),
         NEW cell, NEW echo, Stray(cell, echo), form \in OtherForms, form.op = "tset1"
  PROVE  TestSetAt(i, c, Set(m, cell, echo))'
<1> DEFINE e == m[c.pc] + Radix * m[Wrap(c.pc + 1)]
           v == BitOr(m[e], c.a)
<1>1. /\ c.pc \in Addr /\ m[c.pc] \in Byte
      /\ Wrap(c.pc + 1) \in Addr /\ m[Wrap(c.pc + 1)] \in Byte
  BY Fetched
<1>t. /\ e \in Addr
      /\ m[e] \in Byte
      /\ v \in Byte
      /\ Set(m, e, v) \in Memory
      /\ WithZ(Past(c, 2), BitAnd(m[e], c.a) = 0).a = c.a
      /\ WithZ(Past(c, 2), BitAnd(m[e], c.a) = 0) \in Cpu
  BY TestSetTypes DEF TestSetTyped
<1> DEFINE n == Set(m, cell, echo)
<1>n. /\ cell \in Addr /\ echo \in Byte /\ n \in Memory
      /\ \A other \in Addr : other # cell => n[other] = m[other]
  BY Memories DEF Stray
<1>2. ram \in Memory
  BY DEF TestSetAt, Now
<1>r. ram' \in Memory
  BY <1>2, Memories DEF Stray
<1>w. /\ (cell # e => Set(Set(m, e, v), cell, echo) = Set(n, e, v))
  BY <1>t, <1>n, Apart
<1>3. ASSUME i = 0 PROVE TestSetAt(0, c, n)'
  BY <1>1, <1>t, <1>n, <1>r, <1>3, SMTT(20) DEF TestSetAt, Now, Stray
<1>4. ASSUME i = 1 PROVE TestSetAt(1, c, n)'
  BY <1>1, <1>t, <1>n, <1>r, <1>4, SMTT(20) DEF TestSetAt, Now, Stray
<1>5. ASSUME i = 2 PROVE TestSetAt(2, c, n)'
  BY <1>1, <1>t, <1>n, <1>r, <1>5, SMTT(20) DEF TestSetAt, Now, Stray
<1>6. ASSUME i = 3 PROVE TestSetAt(3, c, n)'
  BY <1>1, <1>t, <1>n, <1>r, <1>6, SMTT(20) DEF TestSetAt, Now, Stray
<1>7. ASSUME i = 4 PROVE TestSetAt(4, c, n)'
  BY <1>1, <1>t, <1>n, <1>r, <1>7, SMTT(20) DEF TestSetAt, Now, Stray
<1>8. ASSUME i = 5 PROVE TestSetAt(5, c, n)'
  BY <1>1, <1>t, <1>n, <1>r, <1>w, <1>8, SMTT(20) DEF TestSetAt, Now, Stray
<1>i. i \in 0 .. 5
  BY DEF TestSetAt
<1> QED BY <1>i, <1>3, <1>4, <1>5, <1>6, <1>7, <1>8

(* TCLR1 !abs. *)
LEMMA TestClrStays ==
  ASSUME NEW c \in Cpu, NEW m \in Memory, NEW i, TestClrAt(i, c, m),
         NEW cell, NEW echo, Stray(cell, echo), form \in OtherForms, form.op = "tclr1"
  PROVE  TestClrAt(i, c, Set(m, cell, echo))'
<1> DEFINE e == m[c.pc] + Radix * m[Wrap(c.pc + 1)]
           v == m[e] - BitAnd(m[e], c.a)
<1>1. /\ c.pc \in Addr /\ m[c.pc] \in Byte
      /\ Wrap(c.pc + 1) \in Addr /\ m[Wrap(c.pc + 1)] \in Byte
  BY Fetched
<1>t. /\ e \in Addr
      /\ m[e] \in Byte
      /\ v \in Byte
      /\ Set(m, e, v) \in Memory
      /\ WithZ(Past(c, 2), BitAnd(m[e], c.a) = 0).a = c.a
      /\ WithZ(Past(c, 2), BitAnd(m[e], c.a) = 0) \in Cpu
  BY TestClrTypes DEF TestClrTyped
<1> DEFINE n == Set(m, cell, echo)
<1>n. /\ cell \in Addr /\ echo \in Byte /\ n \in Memory
      /\ \A other \in Addr : other # cell => n[other] = m[other]
  BY Memories DEF Stray
<1>2. ram \in Memory
  BY DEF TestClrAt, Now
<1>r. ram' \in Memory
  BY <1>2, Memories DEF Stray
<1>w. /\ (cell # e => Set(Set(m, e, v), cell, echo) = Set(n, e, v))
  BY <1>t, <1>n, Apart
<1>3. ASSUME i = 0 PROVE TestClrAt(0, c, n)'
  BY <1>1, <1>t, <1>n, <1>r, <1>3, SMTT(20) DEF TestClrAt, Now, Stray
<1>4. ASSUME i = 1 PROVE TestClrAt(1, c, n)'
  BY <1>1, <1>t, <1>n, <1>r, <1>4, SMTT(20) DEF TestClrAt, Now, Stray
<1>5. ASSUME i = 2 PROVE TestClrAt(2, c, n)'
  BY <1>1, <1>t, <1>n, <1>r, <1>5, SMTT(20) DEF TestClrAt, Now, Stray
<1>6. ASSUME i = 3 PROVE TestClrAt(3, c, n)'
  BY <1>1, <1>t, <1>n, <1>r, <1>6, SMTT(20) DEF TestClrAt, Now, Stray
<1>7. ASSUME i = 4 PROVE TestClrAt(4, c, n)'
  BY <1>1, <1>t, <1>n, <1>r, <1>7, SMTT(20) DEF TestClrAt, Now, Stray
<1>8. ASSUME i = 5 PROVE TestClrAt(5, c, n)'
  BY <1>1, <1>t, <1>n, <1>r, <1>w, <1>8, SMTT(20) DEF TestClrAt, Now, Stray
<1>i. i \in 0 .. 5
  BY DEF TestClrAt
<1> QED BY <1>i, <1>3, <1>4, <1>5, <1>6, <1>7, <1>8

(* OR1 C,mem.bit. *)
LEMMA OrBitStays ==
  ASSUME NEW c \in Cpu, NEW m \in Memory, NEW i, OrBitAt(i, c, m),
         NEW cell, NEW echo, Stray(cell, echo), form \in OtherForms, form.op = "or1"
  PROVE  OrBitAt(i, c, Set(m, cell, echo))'
<1> DEFINE at == m[c.pc] + Radix * m[Wrap(c.pc + 1)]
           e == at % BitArea
           bit == at \div BitArea
<1>1. /\ c.pc \in Addr /\ m[c.pc] \in Byte
      /\ Wrap(c.pc + 1) \in Addr /\ m[Wrap(c.pc + 1)] \in Byte
  BY Fetched
<1>t. /\ at \in Addr
      /\ e \in Addr
      /\ m[e] \in Byte
      /\ bit \in 0 .. Bits - 1
      /\ Flagged(Past(c, 2), c.c \/ IsSet(m[e], bit)) \in Cpu
  BY OrBitTypes DEF OrBitTyped
<1> DEFINE n == Set(m, cell, echo)
<1>n. /\ cell \in Addr /\ echo \in Byte /\ n \in Memory
      /\ \A other \in Addr : other # cell => n[other] = m[other]
  BY Memories DEF Stray
<1>2. ram \in Memory
  BY DEF OrBitAt, Now
<1>r. ram' \in Memory
  BY <1>2, Memories DEF Stray
<1>3. ASSUME i = 0 PROVE OrBitAt(0, c, n)'
  BY <1>1, <1>t, <1>n, <1>r, <1>3, SMTT(20) DEF OrBitAt, Now, Stray
<1>4. ASSUME i = 1 PROVE OrBitAt(1, c, n)'
  BY <1>1, <1>t, <1>n, <1>r, <1>4, SMTT(20) DEF OrBitAt, Now, Stray
<1>5. ASSUME i = 2 PROVE OrBitAt(2, c, n)'
  BY <1>1, <1>t, <1>n, <1>r, <1>5, SMTT(20) DEF OrBitAt, Now, Stray
<1>6. ASSUME i = 3 PROVE OrBitAt(3, c, n)'
  BY <1>1, <1>t, <1>n, <1>r, <1>6, SMTT(20) DEF OrBitAt, Now, Stray
<1>7. ASSUME i = 4 PROVE OrBitAt(4, c, n)'
  BY <1>1, <1>t, <1>n, <1>r, <1>7, SMTT(20) DEF OrBitAt, Now, Stray
<1>i. i \in 0 .. 4
  BY DEF OrBitAt
<1> QED BY <1>i, <1>3, <1>4, <1>5, <1>6, <1>7

(* OR1 C,/mem.bit. *)
LEMMA OrNotBitStays ==
  ASSUME NEW c \in Cpu, NEW m \in Memory, NEW i, OrNotBitAt(i, c, m),
         NEW cell, NEW echo, Stray(cell, echo), form \in OtherForms, form.op = "or1n"
  PROVE  OrNotBitAt(i, c, Set(m, cell, echo))'
<1> DEFINE at == m[c.pc] + Radix * m[Wrap(c.pc + 1)]
           e == at % BitArea
           bit == at \div BitArea
<1>1. /\ c.pc \in Addr /\ m[c.pc] \in Byte
      /\ Wrap(c.pc + 1) \in Addr /\ m[Wrap(c.pc + 1)] \in Byte
  BY Fetched
<1>t. /\ at \in Addr
      /\ e \in Addr
      /\ m[e] \in Byte
      /\ bit \in 0 .. Bits - 1
      /\ Flagged(Past(c, 2), c.c \/ ~IsSet(m[e], bit)) \in Cpu
  BY OrNotBitTypes DEF OrNotBitTyped
<1> DEFINE n == Set(m, cell, echo)
<1>n. /\ cell \in Addr /\ echo \in Byte /\ n \in Memory
      /\ \A other \in Addr : other # cell => n[other] = m[other]
  BY Memories DEF Stray
<1>2. ram \in Memory
  BY DEF OrNotBitAt, Now
<1>r. ram' \in Memory
  BY <1>2, Memories DEF Stray
<1>3. ASSUME i = 0 PROVE OrNotBitAt(0, c, n)'
  BY <1>1, <1>t, <1>n, <1>r, <1>3, SMTT(20) DEF OrNotBitAt, Now, Stray
<1>4. ASSUME i = 1 PROVE OrNotBitAt(1, c, n)'
  BY <1>1, <1>t, <1>n, <1>r, <1>4, SMTT(20) DEF OrNotBitAt, Now, Stray
<1>5. ASSUME i = 2 PROVE OrNotBitAt(2, c, n)'
  BY <1>1, <1>t, <1>n, <1>r, <1>5, SMTT(20) DEF OrNotBitAt, Now, Stray
<1>6. ASSUME i = 3 PROVE OrNotBitAt(3, c, n)'
  BY <1>1, <1>t, <1>n, <1>r, <1>6, SMTT(20) DEF OrNotBitAt, Now, Stray
<1>7. ASSUME i = 4 PROVE OrNotBitAt(4, c, n)'
  BY <1>1, <1>t, <1>n, <1>r, <1>7, SMTT(20) DEF OrNotBitAt, Now, Stray
<1>i. i \in 0 .. 4
  BY DEF OrNotBitAt
<1> QED BY <1>i, <1>3, <1>4, <1>5, <1>6, <1>7

(* EOR1 C,mem.bit. *)
LEMMA EorBitStays ==
  ASSUME NEW c \in Cpu, NEW m \in Memory, NEW i, EorBitAt(i, c, m),
         NEW cell, NEW echo, Stray(cell, echo), form \in OtherForms, form.op = "eor1"
  PROVE  EorBitAt(i, c, Set(m, cell, echo))'
<1> DEFINE at == m[c.pc] + Radix * m[Wrap(c.pc + 1)]
           e == at % BitArea
           bit == at \div BitArea
<1>1. /\ c.pc \in Addr /\ m[c.pc] \in Byte
      /\ Wrap(c.pc + 1) \in Addr /\ m[Wrap(c.pc + 1)] \in Byte
  BY Fetched
<1>t. /\ at \in Addr
      /\ e \in Addr
      /\ m[e] \in Byte
      /\ bit \in 0 .. Bits - 1
      /\ Flagged(Past(c, 2), c.c # IsSet(m[e], bit)) \in Cpu
  BY EorBitTypes DEF EorBitTyped
<1> DEFINE n == Set(m, cell, echo)
<1>n. /\ cell \in Addr /\ echo \in Byte /\ n \in Memory
      /\ \A other \in Addr : other # cell => n[other] = m[other]
  BY Memories DEF Stray
<1>2. ram \in Memory
  BY DEF EorBitAt, Now
<1>r. ram' \in Memory
  BY <1>2, Memories DEF Stray
<1>3. ASSUME i = 0 PROVE EorBitAt(0, c, n)'
  BY <1>1, <1>t, <1>n, <1>r, <1>3, SMTT(20) DEF EorBitAt, Now, Stray
<1>4. ASSUME i = 1 PROVE EorBitAt(1, c, n)'
  BY <1>1, <1>t, <1>n, <1>r, <1>4, SMTT(20) DEF EorBitAt, Now, Stray
<1>5. ASSUME i = 2 PROVE EorBitAt(2, c, n)'
  BY <1>1, <1>t, <1>n, <1>r, <1>5, SMTT(20) DEF EorBitAt, Now, Stray
<1>6. ASSUME i = 3 PROVE EorBitAt(3, c, n)'
  BY <1>1, <1>t, <1>n, <1>r, <1>6, SMTT(20) DEF EorBitAt, Now, Stray
<1>7. ASSUME i = 4 PROVE EorBitAt(4, c, n)'
  BY <1>1, <1>t, <1>n, <1>r, <1>7, SMTT(20) DEF EorBitAt, Now, Stray
<1>i. i \in 0 .. 4
  BY DEF EorBitAt
<1> QED BY <1>i, <1>3, <1>4, <1>5, <1>6, <1>7

(* AND1 C,mem.bit. *)
LEMMA AndBitStays ==
  ASSUME NEW c \in Cpu, NEW m \in Memory, NEW i, AndBitAt(i, c, m),
         NEW cell, NEW echo, Stray(cell, echo), form \in OtherForms, form.op = "and1"
  PROVE  AndBitAt(i, c, Set(m, cell, echo))'
<1> DEFINE at == m[c.pc] + Radix * m[Wrap(c.pc + 1)]
           e == at % BitArea
           bit == at \div BitArea
<1>1. /\ c.pc \in Addr /\ m[c.pc] \in Byte
      /\ Wrap(c.pc + 1) \in Addr /\ m[Wrap(c.pc + 1)] \in Byte
  BY Fetched
<1>t. /\ at \in Addr
      /\ e \in Addr
      /\ m[e] \in Byte
      /\ bit \in 0 .. Bits - 1
      /\ Flagged(Past(c, 2), c.c /\ IsSet(m[e], bit)) \in Cpu
  BY AndBitTypes DEF AndBitTyped
<1> DEFINE n == Set(m, cell, echo)
<1>n. /\ cell \in Addr /\ echo \in Byte /\ n \in Memory
      /\ \A other \in Addr : other # cell => n[other] = m[other]
  BY Memories DEF Stray
<1>2. ram \in Memory
  BY DEF AndBitAt, Now
<1>r. ram' \in Memory
  BY <1>2, Memories DEF Stray
<1>3. ASSUME i = 0 PROVE AndBitAt(0, c, n)'
  BY <1>1, <1>t, <1>n, <1>r, <1>3, SMTT(20) DEF AndBitAt, Now, Stray
<1>4. ASSUME i = 1 PROVE AndBitAt(1, c, n)'
  BY <1>1, <1>t, <1>n, <1>r, <1>4, SMTT(20) DEF AndBitAt, Now, Stray
<1>5. ASSUME i = 2 PROVE AndBitAt(2, c, n)'
  BY <1>1, <1>t, <1>n, <1>r, <1>5, SMTT(20) DEF AndBitAt, Now, Stray
<1>6. ASSUME i = 3 PROVE AndBitAt(3, c, n)'
  BY <1>1, <1>t, <1>n, <1>r, <1>6, SMTT(20) DEF AndBitAt, Now, Stray
<1>i. i \in 0 .. 3
  BY DEF AndBitAt
<1> QED BY <1>i, <1>3, <1>4, <1>5, <1>6

(* AND1 C,/mem.bit. *)
LEMMA AndNotBitStays ==
  ASSUME NEW c \in Cpu, NEW m \in Memory, NEW i, AndNotBitAt(i, c, m),
         NEW cell, NEW echo, Stray(cell, echo), form \in OtherForms, form.op = "and1n"
  PROVE  AndNotBitAt(i, c, Set(m, cell, echo))'
<1> DEFINE at == m[c.pc] + Radix * m[Wrap(c.pc + 1)]
           e == at % BitArea
           bit == at \div BitArea
<1>1. /\ c.pc \in Addr /\ m[c.pc] \in Byte
      /\ Wrap(c.pc + 1) \in Addr /\ m[Wrap(c.pc + 1)] \in Byte
  BY Fetched
<1>t. /\ at \in Addr
      /\ e \in Addr
      /\ m[e] \in Byte
      /\ bit \in 0 .. Bits - 1
      /\ Flagged(Past(c, 2), c.c /\ ~IsSet(m[e], bit)) \in Cpu
  BY AndNotBitTypes DEF AndNotBitTyped
<1> DEFINE n == Set(m, cell, echo)
<1>n. /\ cell \in Addr /\ echo \in Byte /\ n \in Memory
      /\ \A other \in Addr : other # cell => n[other] = m[other]
  BY Memories DEF Stray
<1>2. ram \in Memory
  BY DEF AndNotBitAt, Now
<1>r. ram' \in Memory
  BY <1>2, Memories DEF Stray
<1>3. ASSUME i = 0 PROVE AndNotBitAt(0, c, n)'
  BY <1>1, <1>t, <1>n, <1>r, <1>3, SMTT(20) DEF AndNotBitAt, Now, Stray
<1>4. ASSUME i = 1 PROVE AndNotBitAt(1, c, n)'
  BY <1>1, <1>t, <1>n, <1>r, <1>4, SMTT(20) DEF AndNotBitAt, Now, Stray
<1>5. ASSUME i = 2 PROVE AndNotBitAt(2, c, n)'
  BY <1>1, <1>t, <1>n, <1>r, <1>5, SMTT(20) DEF AndNotBitAt, Now, Stray
<1>6. ASSUME i = 3 PROVE AndNotBitAt(3, c, n)'
  BY <1>1, <1>t, <1>n, <1>r, <1>6, SMTT(20) DEF AndNotBitAt, Now, Stray
<1>i. i \in 0 .. 3
  BY DEF AndNotBitAt
<1> QED BY <1>i, <1>3, <1>4, <1>5, <1>6

(* MOV1 C,mem.bit. *)
LEMMA LoadBitStays ==
  ASSUME NEW c \in Cpu, NEW m \in Memory, NEW i, LoadBitAt(i, c, m),
         NEW cell, NEW echo, Stray(cell, echo), form \in OtherForms, form.op = "mov1c"
  PROVE  LoadBitAt(i, c, Set(m, cell, echo))'
<1> DEFINE at == m[c.pc] + Radix * m[Wrap(c.pc + 1)]
           e == at % BitArea
           bit == at \div BitArea
<1>1. /\ c.pc \in Addr /\ m[c.pc] \in Byte
      /\ Wrap(c.pc + 1) \in Addr /\ m[Wrap(c.pc + 1)] \in Byte
  BY Fetched
<1>t. /\ at \in Addr
      /\ e \in Addr
      /\ m[e] \in Byte
      /\ bit \in 0 .. Bits - 1
      /\ Flagged(Past(c, 2), IsSet(m[e], bit)) \in Cpu
  BY LoadBitTypes DEF LoadBitTyped
<1> DEFINE n == Set(m, cell, echo)
<1>n. /\ cell \in Addr /\ echo \in Byte /\ n \in Memory
      /\ \A other \in Addr : other # cell => n[other] = m[other]
  BY Memories DEF Stray
<1>2. ram \in Memory
  BY DEF LoadBitAt, Now
<1>r. ram' \in Memory
  BY <1>2, Memories DEF Stray
<1>3. ASSUME i = 0 PROVE LoadBitAt(0, c, n)'
  BY <1>1, <1>t, <1>n, <1>r, <1>3, SMTT(20) DEF LoadBitAt, Now, Stray
<1>4. ASSUME i = 1 PROVE LoadBitAt(1, c, n)'
  BY <1>1, <1>t, <1>n, <1>r, <1>4, SMTT(20) DEF LoadBitAt, Now, Stray
<1>5. ASSUME i = 2 PROVE LoadBitAt(2, c, n)'
  BY <1>1, <1>t, <1>n, <1>r, <1>5, SMTT(20) DEF LoadBitAt, Now, Stray
<1>6. ASSUME i = 3 PROVE LoadBitAt(3, c, n)'
  BY <1>1, <1>t, <1>n, <1>r, <1>6, SMTT(20) DEF LoadBitAt, Now, Stray
<1>i. i \in 0 .. 3
  BY DEF LoadBitAt
<1> QED BY <1>i, <1>3, <1>4, <1>5, <1>6

(* MOV1 mem.bit,C. *)
LEMMA StoreBitStays ==
  ASSUME NEW c \in Cpu, NEW m \in Memory, NEW i, StoreBitAt(i, c, m),
         NEW cell, NEW echo, Stray(cell, echo), form \in OtherForms, form.op = "mov1"
  PROVE  StoreBitAt(i, c, Set(m, cell, echo))'
<1> DEFINE at == m[c.pc] + Radix * m[Wrap(c.pc + 1)]
           e == at % BitArea
           bit == at \div BitArea
           v == Written(m[e], bit, c.c)
<1>1. /\ c.pc \in Addr /\ m[c.pc] \in Byte
      /\ Wrap(c.pc + 1) \in Addr /\ m[Wrap(c.pc + 1)] \in Byte
  BY Fetched
<1>t. /\ at \in Addr
      /\ e \in Addr
      /\ m[e] \in Byte
      /\ bit \in 0 .. Bits - 1
      /\ v \in Byte
      /\ Set(m, e, v) \in Memory
  BY StoreBitTypes DEF StoreBitTyped
<1> DEFINE n == Set(m, cell, echo)
<1>n. /\ cell \in Addr /\ echo \in Byte /\ n \in Memory
      /\ \A other \in Addr : other # cell => n[other] = m[other]
  BY Memories DEF Stray
<1>2. ram \in Memory
  BY DEF StoreBitAt, Now
<1>r. ram' \in Memory
  BY <1>2, Memories DEF Stray
<1>w. /\ (cell # e => Set(Set(m, e, v), cell, echo) = Set(n, e, v))
  BY <1>t, <1>n, Apart
<1>3. ASSUME i = 0 PROVE StoreBitAt(0, c, n)'
  BY <1>1, <1>t, <1>n, <1>r, <1>3, SMTT(20) DEF StoreBitAt, Now, Stray
<1>4. ASSUME i = 1 PROVE StoreBitAt(1, c, n)'
  BY <1>1, <1>t, <1>n, <1>r, <1>4, SMTT(20) DEF StoreBitAt, Now, Stray
<1>5. ASSUME i = 2 PROVE StoreBitAt(2, c, n)'
  BY <1>1, <1>t, <1>n, <1>r, <1>5, SMTT(20) DEF StoreBitAt, Now, Stray
<1>6. ASSUME i = 3 PROVE StoreBitAt(3, c, n)'
  BY <1>1, <1>t, <1>n, <1>r, <1>6, SMTT(20) DEF StoreBitAt, Now, Stray
<1>7. ASSUME i = 4 PROVE StoreBitAt(4, c, n)'
  BY <1>1, <1>t, <1>n, <1>r, <1>7, SMTT(20) DEF StoreBitAt, Now, Stray
<1>8. ASSUME i = 5 PROVE StoreBitAt(5, c, n)'
  <2>1. todo' = todo /\ todo = <<>> /\ Now(Past(c, 2), Set(m, e, v), {c.pc, Wrap(c.pc + 1),
      e})
    BY <1>8 DEF StoreBitAt, Stray
  <2>2. c.pc # cell /\ Wrap(c.pc + 1) # cell /\ e # cell
    BY <2>1 DEF Now, Stray
  <2>3. n[c.pc] = m[c.pc] /\ n[Wrap(c.pc + 1)] = m[Wrap(c.pc + 1)] /\ n[e] = m[e]
    BY <2>2, <1>1, <1>t, <1>n
  <2>4. Now(Past(c, 2), Set(n, e, v), {c.pc, Wrap(c.pc + 1), e})'
    BY <2>1, <2>2, <1>r, <1>w DEF Now, Stray
  <2> QED BY <2>1, <2>3, <2>4, <1>8 DEF StoreBitAt
<1>i. i \in 0 .. 5
  BY DEF StoreBitAt
<1> QED BY <1>i, <1>3, <1>4, <1>5, <1>6, <1>7, <1>8

(* NOT1 mem.bit. *)
LEMMA NotBitStays ==
  ASSUME NEW c \in Cpu, NEW m \in Memory, NEW i, NotBitAt(i, c, m),
         NEW cell, NEW echo, Stray(cell, echo), form \in OtherForms, form.op = "not1"
  PROVE  NotBitAt(i, c, Set(m, cell, echo))'
<1> DEFINE at == m[c.pc] + Radix * m[Wrap(c.pc + 1)]
           e == at % BitArea
           bit == at \div BitArea
           v == Turned(m[e], bit)
<1>1. /\ c.pc \in Addr /\ m[c.pc] \in Byte
      /\ Wrap(c.pc + 1) \in Addr /\ m[Wrap(c.pc + 1)] \in Byte
  BY Fetched
<1>t. /\ at \in Addr
      /\ e \in Addr
      /\ m[e] \in Byte
      /\ bit \in 0 .. Bits - 1
      /\ v \in Byte
      /\ Set(m, e, v) \in Memory
  BY NotBitTypes DEF NotBitTyped
<1> DEFINE n == Set(m, cell, echo)
<1>n. /\ cell \in Addr /\ echo \in Byte /\ n \in Memory
      /\ \A other \in Addr : other # cell => n[other] = m[other]
  BY Memories DEF Stray
<1>2. ram \in Memory
  BY DEF NotBitAt, Now
<1>r. ram' \in Memory
  BY <1>2, Memories DEF Stray
<1>w. /\ (cell # e => Set(Set(m, e, v), cell, echo) = Set(n, e, v))
  BY <1>t, <1>n, Apart
<1>3. ASSUME i = 0 PROVE NotBitAt(0, c, n)'
  BY <1>1, <1>t, <1>n, <1>r, <1>3, SMTT(20) DEF NotBitAt, Now, Stray
<1>4. ASSUME i = 1 PROVE NotBitAt(1, c, n)'
  BY <1>1, <1>t, <1>n, <1>r, <1>4, SMTT(20) DEF NotBitAt, Now, Stray
<1>5. ASSUME i = 2 PROVE NotBitAt(2, c, n)'
  BY <1>1, <1>t, <1>n, <1>r, <1>5, SMTT(20) DEF NotBitAt, Now, Stray
<1>6. ASSUME i = 3 PROVE NotBitAt(3, c, n)'
  BY <1>1, <1>t, <1>n, <1>r, <1>6, SMTT(20) DEF NotBitAt, Now, Stray
<1>7. ASSUME i = 4 PROVE NotBitAt(4, c, n)'
  <2>1. todo' = todo /\ todo = <<>> /\ Now(Past(c, 2), Set(m, e, v), {c.pc, Wrap(c.pc + 1),
      e})
    BY <1>7 DEF NotBitAt, Stray
  <2>2. c.pc # cell /\ Wrap(c.pc + 1) # cell /\ e # cell
    BY <2>1 DEF Now, Stray
  <2>3. n[c.pc] = m[c.pc] /\ n[Wrap(c.pc + 1)] = m[Wrap(c.pc + 1)] /\ n[e] = m[e]
    BY <2>2, <1>1, <1>t, <1>n
  <2>4. Now(Past(c, 2), Set(n, e, v), {c.pc, Wrap(c.pc + 1), e})'
    BY <2>1, <2>2, <1>r, <1>w DEF Now, Stray
  <2> QED BY <2>1, <2>3, <2>4, <1>7 DEF NotBitAt
<1>i. i \in 0 .. 4
  BY DEF NotBitAt
<1> QED BY <1>i, <1>3, <1>4, <1>5, <1>6, <1>7

(* BRA and the branches on a flag. *)
LEMMA BranchStays ==
  ASSUME NEW c \in Cpu, NEW m \in Memory, NEW i, BranchAt(i, c, m),
         NEW cell, NEW echo, Stray(cell, echo), form \in OtherForms, form.op \in {"bra",
             "bne", "beq", "bcc", "bcs"}
  PROVE  BranchAt(i, c, Set(m, cell, echo))'
<1> DEFINE to == Wrap(Wrap(c.pc + 1) + Signed(m[c.pc]))
<1>1. /\ c.pc \in Addr /\ m[c.pc] \in Byte
      /\ Wrap(c.pc + 1) \in Addr /\ m[Wrap(c.pc + 1)] \in Byte
  BY Fetched
<1>t. /\ to \in Addr
      /\ \A n : WithPC(Past(c, 1), n) = WithPC(c, n)
      /\ WithPC(c, Wrap(c.pc + 1)) = Past(c, 1)
      /\ WithPC(c, to) \in Cpu
  BY BranchTypes DEF BranchTyped
<1> DEFINE n == Set(m, cell, echo)
<1>n. /\ cell \in Addr /\ echo \in Byte /\ n \in Memory
      /\ \A other \in Addr : other # cell => n[other] = m[other]
  BY Memories DEF Stray
<1>2. ram \in Memory
  BY DEF BranchAt, Now
<1>r. ram' \in Memory
  BY <1>2, Memories DEF Stray
<1>3. ASSUME i = 0 PROVE BranchAt(0, c, n)'
  BY <1>1, <1>t, <1>n, <1>r, <1>3 DEF BranchAt, Now, Stray
<1>4. ASSUME i = 1 PROVE BranchAt(1, c, n)'
  BY <1>1, <1>t, <1>n, <1>r, <1>4 DEF BranchAt, Now, Stray
<1>5. ASSUME i = 2 PROVE BranchAt(2, c, n)'
  BY <1>1, <1>t, <1>n, <1>r, <1>5 DEF BranchAt, Now, Stray
<1>6. ASSUME i = 3 PROVE BranchAt(3, c, n)'
  BY <1>1, <1>t, <1>n, <1>r, <1>6 DEF BranchAt, Now, Stray
<1>i. i \in 0 .. 3
  BY DEF BranchAt
<1> QED BY <1>i, <1>3, <1>4, <1>5, <1>6

(* BBS dp.bit,rel. *)
LEMMA BranchSetStays ==
  ASSUME NEW c \in Cpu, NEW m \in Memory, NEW i, BranchSetAt(i, c, m),
         NEW cell, NEW echo, Stray(cell, echo), form \in OtherForms, form.op = "bbs"
  PROVE  BranchSetAt(i, c, Set(m, cell, echo))'
<1> DEFINE e == PageOf(c) + m[c.pc]
           to == Wrap(Wrap(c.pc + 2) + Signed(m[Wrap(c.pc + 1)]))
           taken == IsSet(m[e], form.n)
<1>1. /\ c.pc \in Addr /\ m[c.pc] \in Byte
      /\ Wrap(c.pc + 1) \in Addr /\ m[Wrap(c.pc + 1)] \in Byte
  BY Fetched
<1>t. /\ e \in Addr
      /\ m[e] \in Byte
      /\ to \in Addr
      /\ \A n : WithPC(Past(c, 2), n) = WithPC(c, n)
      /\ WithPC(c, Wrap(c.pc + 2)) = Past(c, 2)
      /\ WithPC(c, to) \in Cpu
  BY BranchSetTypes DEF BranchSetTyped
<1> DEFINE n == Set(m, cell, echo)
<1>n. /\ cell \in Addr /\ echo \in Byte /\ n \in Memory
      /\ \A other \in Addr : other # cell => n[other] = m[other]
  BY Memories DEF Stray
<1>2. ram \in Memory
  BY DEF BranchSetAt, Now
<1>r. ram' \in Memory
  BY <1>2, Memories DEF Stray
<1>3. ASSUME i = 0 PROVE BranchSetAt(0, c, n)'
  BY <1>1, <1>t, <1>n, <1>r, <1>3 DEF BranchSetAt, Now, Stray
<1>4. ASSUME i = 1 PROVE BranchSetAt(1, c, n)'
  BY <1>1, <1>t, <1>n, <1>r, <1>4 DEF BranchSetAt, Now, Stray
<1>5. ASSUME i = 2 PROVE BranchSetAt(2, c, n)'
  BY <1>1, <1>t, <1>n, <1>r, <1>5 DEF BranchSetAt, Now, Stray
<1>6. ASSUME i = 3 PROVE BranchSetAt(3, c, n)'
  BY <1>1, <1>t, <1>n, <1>r, <1>6 DEF BranchSetAt, Now, Stray
<1>7. ASSUME i = 4 PROVE BranchSetAt(4, c, n)'
  BY <1>1, <1>t, <1>n, <1>r, <1>7 DEF BranchSetAt, Now, Stray
<1>8. ASSUME i = 5 PROVE BranchSetAt(5, c, n)'
  BY <1>1, <1>t, <1>n, <1>r, <1>8 DEF BranchSetAt, Now, Stray
<1>9. ASSUME i = 6 PROVE BranchSetAt(6, c, n)'
  BY <1>1, <1>t, <1>n, <1>r, <1>9 DEF BranchSetAt, Now, Stray
<1>i. i \in 0 .. 6
  BY DEF BranchSetAt
<1> QED BY <1>i, <1>3, <1>4, <1>5, <1>6, <1>7, <1>8, <1>9

(* BBC dp.bit,rel. *)
LEMMA BranchClrStays ==
  ASSUME NEW c \in Cpu, NEW m \in Memory, NEW i, BranchClrAt(i, c, m),
         NEW cell, NEW echo, Stray(cell, echo), form \in OtherForms, form.op = "bbc"
  PROVE  BranchClrAt(i, c, Set(m, cell, echo))'
<1> DEFINE e == PageOf(c) + m[c.pc]
           to == Wrap(Wrap(c.pc + 2) + Signed(m[Wrap(c.pc + 1)]))
           taken == ~IsSet(m[e], form.n)
<1>1. /\ c.pc \in Addr /\ m[c.pc] \in Byte
      /\ Wrap(c.pc + 1) \in Addr /\ m[Wrap(c.pc + 1)] \in Byte
  BY Fetched
<1>t. /\ e \in Addr
      /\ m[e] \in Byte
      /\ to \in Addr
      /\ \A n : WithPC(Past(c, 2), n) = WithPC(c, n)
      /\ WithPC(c, Wrap(c.pc + 2)) = Past(c, 2)
      /\ WithPC(c, to) \in Cpu
  BY BranchClrTypes DEF BranchClrTyped
<1> DEFINE n == Set(m, cell, echo)
<1>n. /\ cell \in Addr /\ echo \in Byte /\ n \in Memory
      /\ \A other \in Addr : other # cell => n[other] = m[other]
  BY Memories DEF Stray
<1>2. ram \in Memory
  BY DEF BranchClrAt, Now
<1>r. ram' \in Memory
  BY <1>2, Memories DEF Stray
<1>3. ASSUME i = 0 PROVE BranchClrAt(0, c, n)'
  BY <1>1, <1>t, <1>n, <1>r, <1>3 DEF BranchClrAt, Now, Stray
<1>4. ASSUME i = 1 PROVE BranchClrAt(1, c, n)'
  BY <1>1, <1>t, <1>n, <1>r, <1>4 DEF BranchClrAt, Now, Stray
<1>5. ASSUME i = 2 PROVE BranchClrAt(2, c, n)'
  BY <1>1, <1>t, <1>n, <1>r, <1>5 DEF BranchClrAt, Now, Stray
<1>6. ASSUME i = 3 PROVE BranchClrAt(3, c, n)'
  BY <1>1, <1>t, <1>n, <1>r, <1>6 DEF BranchClrAt, Now, Stray
<1>7. ASSUME i = 4 PROVE BranchClrAt(4, c, n)'
  BY <1>1, <1>t, <1>n, <1>r, <1>7 DEF BranchClrAt, Now, Stray
<1>8. ASSUME i = 5 PROVE BranchClrAt(5, c, n)'
  BY <1>1, <1>t, <1>n, <1>r, <1>8 DEF BranchClrAt, Now, Stray
<1>9. ASSUME i = 6 PROVE BranchClrAt(6, c, n)'
  BY <1>1, <1>t, <1>n, <1>r, <1>9 DEF BranchClrAt, Now, Stray
<1>i. i \in 0 .. 6
  BY DEF BranchClrAt
<1> QED BY <1>i, <1>3, <1>4, <1>5, <1>6, <1>7, <1>8, <1>9

(* CBNE dp,rel. *)
LEMMA BranchNeStays ==
  ASSUME NEW c \in Cpu, NEW m \in Memory, NEW i, BranchNeAt(i, c, m),
         NEW cell, NEW echo, Stray(cell, echo), form \in OtherForms, form.op = "cbne"
  PROVE  BranchNeAt(i, c, Set(m, cell, echo))'
<1> DEFINE e == PageOf(c) + m[c.pc]
           to == Wrap(Wrap(c.pc + 2) + Signed(m[Wrap(c.pc + 1)]))
           taken == m[e] # c.a
<1>1. /\ c.pc \in Addr /\ m[c.pc] \in Byte
      /\ Wrap(c.pc + 1) \in Addr /\ m[Wrap(c.pc + 1)] \in Byte
  BY Fetched
<1>t. /\ e \in Addr
      /\ m[e] \in Byte
      /\ to \in Addr
      /\ \A n : WithPC(Past(c, 2), n) = WithPC(c, n)
      /\ WithPC(c, Wrap(c.pc + 2)) = Past(c, 2)
      /\ WithPC(c, to) \in Cpu
  BY BranchNeTypes DEF BranchNeTyped
<1> DEFINE n == Set(m, cell, echo)
<1>n. /\ cell \in Addr /\ echo \in Byte /\ n \in Memory
      /\ \A other \in Addr : other # cell => n[other] = m[other]
  BY Memories DEF Stray
<1>2. ram \in Memory
  BY DEF BranchNeAt, Now
<1>r. ram' \in Memory
  BY <1>2, Memories DEF Stray
<1>3. ASSUME i = 0 PROVE BranchNeAt(0, c, n)'
  BY <1>1, <1>t, <1>n, <1>r, <1>3 DEF BranchNeAt, Now, Stray
<1>4. ASSUME i = 1 PROVE BranchNeAt(1, c, n)'
  BY <1>1, <1>t, <1>n, <1>r, <1>4 DEF BranchNeAt, Now, Stray
<1>5. ASSUME i = 2 PROVE BranchNeAt(2, c, n)'
  BY <1>1, <1>t, <1>n, <1>r, <1>5 DEF BranchNeAt, Now, Stray
<1>6. ASSUME i = 3 PROVE BranchNeAt(3, c, n)'
  BY <1>1, <1>t, <1>n, <1>r, <1>6 DEF BranchNeAt, Now, Stray
<1>7. ASSUME i = 4 PROVE BranchNeAt(4, c, n)'
  BY <1>1, <1>t, <1>n, <1>r, <1>7 DEF BranchNeAt, Now, Stray
<1>8. ASSUME i = 5 PROVE BranchNeAt(5, c, n)'
  BY <1>1, <1>t, <1>n, <1>r, <1>8 DEF BranchNeAt, Now, Stray
<1>9. ASSUME i = 6 PROVE BranchNeAt(6, c, n)'
  BY <1>1, <1>t, <1>n, <1>r, <1>9 DEF BranchNeAt, Now, Stray
<1>i. i \in 0 .. 6
  BY DEF BranchNeAt
<1> QED BY <1>i, <1>3, <1>4, <1>5, <1>6, <1>7, <1>8, <1>9

(* CBNE dp+X,rel. *)
LEMMA BranchNeXStays ==
  ASSUME NEW c \in Cpu, NEW m \in Memory, NEW i, BranchNeXAt(i, c, m),
         NEW cell, NEW echo, Stray(cell, echo), form \in OtherForms, form.op = "cbnex"
  PROVE  BranchNeXAt(i, c, Set(m, cell, echo))'
<1> DEFINE e == PageOf(c) + Low(m[c.pc] + c.x)
           to == Wrap(Wrap(c.pc + 2) + Signed(m[Wrap(c.pc + 1)]))
           taken == m[e] # c.a
<1>1. /\ c.pc \in Addr /\ m[c.pc] \in Byte
      /\ Wrap(c.pc + 1) \in Addr /\ m[Wrap(c.pc + 1)] \in Byte
  BY Fetched
<1>t. /\ e \in Addr
      /\ m[e] \in Byte
      /\ to \in Addr
      /\ \A n : WithPC(Past(c, 2), n) = WithPC(c, n)
      /\ WithPC(c, Wrap(c.pc + 2)) = Past(c, 2)
      /\ WithPC(c, to) \in Cpu
  BY BranchNeXTypes DEF BranchNeXTyped
<1> DEFINE n == Set(m, cell, echo)
<1>n. /\ cell \in Addr /\ echo \in Byte /\ n \in Memory
      /\ \A other \in Addr : other # cell => n[other] = m[other]
  BY Memories DEF Stray
<1>2. ram \in Memory
  BY DEF BranchNeXAt, Now
<1>r. ram' \in Memory
  BY <1>2, Memories DEF Stray
<1>3. ASSUME i = 0 PROVE BranchNeXAt(0, c, n)'
  BY <1>1, <1>t, <1>n, <1>r, <1>3 DEF BranchNeXAt, Now, Stray
<1>4. ASSUME i = 1 PROVE BranchNeXAt(1, c, n)'
  BY <1>1, <1>t, <1>n, <1>r, <1>4 DEF BranchNeXAt, Now, Stray
<1>5. ASSUME i = 2 PROVE BranchNeXAt(2, c, n)'
  BY <1>1, <1>t, <1>n, <1>r, <1>5 DEF BranchNeXAt, Now, Stray
<1>6. ASSUME i = 3 PROVE BranchNeXAt(3, c, n)'
  BY <1>1, <1>t, <1>n, <1>r, <1>6 DEF BranchNeXAt, Now, Stray
<1>7. ASSUME i = 4 PROVE BranchNeXAt(4, c, n)'
  BY <1>1, <1>t, <1>n, <1>r, <1>7 DEF BranchNeXAt, Now, Stray
<1>8. ASSUME i = 5 PROVE BranchNeXAt(5, c, n)'
  BY <1>1, <1>t, <1>n, <1>r, <1>8 DEF BranchNeXAt, Now, Stray
<1>9. ASSUME i = 6 PROVE BranchNeXAt(6, c, n)'
  BY <1>1, <1>t, <1>n, <1>r, <1>9 DEF BranchNeXAt, Now, Stray
<1>10. ASSUME i = 7 PROVE BranchNeXAt(7, c, n)'
  BY <1>1, <1>t, <1>n, <1>r, <1>10 DEF BranchNeXAt, Now, Stray
<1>i. i \in 0 .. 7
  BY DEF BranchNeXAt
<1> QED BY <1>i, <1>3, <1>4, <1>5, <1>6, <1>7, <1>8, <1>9, <1>10

(* DBNZ dp,rel. *)
LEMMA CountDownStays ==
  ASSUME NEW c \in Cpu, NEW m \in Memory, NEW i, CountDownAt(i, c, m),
         NEW cell, NEW echo, Stray(cell, echo), form \in OtherForms, form.op = "dbnz"
  PROVE  CountDownAt(i, c, Set(m, cell, echo))'
<1> DEFINE e == PageOf(c) + m[c.pc]
           to == Wrap(Wrap(c.pc + 2) + Signed(m[Wrap(c.pc + 1)]))
           v == Low(m[e] - 1)
<1>1. /\ c.pc \in Addr /\ m[c.pc] \in Byte
      /\ Wrap(c.pc + 1) \in Addr /\ m[Wrap(c.pc + 1)] \in Byte
  BY Fetched
<1>t. /\ e \in Addr
      /\ m[e] \in Byte
      /\ to \in Addr
      /\ v \in Byte
      /\ Set(m, e, v) \in Memory
      /\ \A n : WithPC(Past(c, 2), n) = WithPC(c, n)
      /\ WithPC(c, Wrap(c.pc + 2)) = Past(c, 2)
      /\ WithPC(c, to) \in Cpu
  BY CountDownTypes DEF CountDownTyped
<1> DEFINE n == Set(m, cell, echo)
<1>n. /\ cell \in Addr /\ echo \in Byte /\ n \in Memory
      /\ \A other \in Addr : other # cell => n[other] = m[other]
  BY Memories DEF Stray
<1>2. ram \in Memory
  BY DEF CountDownAt, Now
<1>r. ram' \in Memory
  BY <1>2, Memories DEF Stray
<1>w. /\ (cell # e => Set(Set(m, e, v), cell, echo) = Set(n, e, v))
  BY <1>t, <1>n, Apart
<1>3. ASSUME i = 0 PROVE CountDownAt(0, c, n)'
  BY <1>1, <1>t, <1>n, <1>r, <1>3 DEF CountDownAt, Now, Stray
<1>4. ASSUME i = 1 PROVE CountDownAt(1, c, n)'
  BY <1>1, <1>t, <1>n, <1>r, <1>4 DEF CountDownAt, Now, Stray
<1>5. ASSUME i = 2 PROVE CountDownAt(2, c, n)'
  BY <1>1, <1>t, <1>n, <1>r, <1>5 DEF CountDownAt, Now, Stray
<1>6. ASSUME i = 3 PROVE CountDownAt(3, c, n)'
  BY <1>1, <1>t, <1>n, <1>r, <1>6 DEF CountDownAt, Now, Stray
<1>7. ASSUME i = 4 PROVE CountDownAt(4, c, n)'
  BY <1>1, <1>t, <1>n, <1>r, <1>w, <1>7 DEF CountDownAt, Now, Stray
<1>8. ASSUME i = 5 PROVE CountDownAt(5, c, n)'
  BY <1>1, <1>t, <1>n, <1>r, <1>w, <1>8 DEF CountDownAt, Now, Stray
<1>9. ASSUME i = 6 PROVE CountDownAt(6, c, n)'
  BY <1>1, <1>t, <1>n, <1>r, <1>w, <1>9 DEF CountDownAt, Now, Stray
<1>i. i \in 0 .. 6
  BY DEF CountDownAt
<1> QED BY <1>i, <1>3, <1>4, <1>5, <1>6, <1>7, <1>8, <1>9

(* DBNZ Y,rel. *)
LEMMA CountDownYStays ==
  ASSUME NEW c \in Cpu, NEW m \in Memory, NEW i, CountDownYAt(i, c, m),
         NEW cell, NEW echo, Stray(cell, echo), form \in OtherForms, form.op = "dbnzy"
  PROVE  CountDownYAt(i, c, Set(m, cell, echo))'
<1> DEFINE to == Wrap(Wrap(c.pc + 1) + Signed(m[c.pc]))
           v == Low(c.y - 1)
<1>1. /\ c.pc \in Addr /\ m[c.pc] \in Byte
      /\ Wrap(c.pc + 1) \in Addr /\ m[Wrap(c.pc + 1)] \in Byte
  BY Fetched
<1>t. /\ to \in Addr
      /\ v \in Byte
      /\ \A n : WithPC(Past(c, 1), n) = WithPC(c, n)
      /\ WithPC(c, Wrap(c.pc + 1)) = Past(c, 1)
      /\ WithPC(c, to) \in Cpu
      /\ \A n : WithPC(WithY(Past(c, 1), v), n) = WithY(WithPC(Past(c, 1), n), v)
      /\ WithY(Past(c, 1), v).y = v
        /\ WithY(Past(c, 1), v).pc = Wrap(c.pc + 1)
      /\ WithY(WithPC(c, to), v) \in Cpu
      /\ WithY(Past(c, 1), v) \in Cpu
  BY CountDownYTypes DEF CountDownYTyped
<1> DEFINE n == Set(m, cell, echo)
<1>n. /\ cell \in Addr /\ echo \in Byte /\ n \in Memory
      /\ \A other \in Addr : other # cell => n[other] = m[other]
  BY Memories DEF Stray
<1>2. ram \in Memory
  BY DEF CountDownYAt, Now
<1>r. ram' \in Memory
  BY <1>2, Memories DEF Stray
<1>3. ASSUME i = 0 PROVE CountDownYAt(0, c, n)'
  BY <1>1, <1>t, <1>n, <1>r, <1>3 DEF CountDownYAt, Now, Stray
<1>4. ASSUME i = 1 PROVE CountDownYAt(1, c, n)'
  BY <1>1, <1>t, <1>n, <1>r, <1>4 DEF CountDownYAt, Now, Stray
<1>5. ASSUME i = 2 PROVE CountDownYAt(2, c, n)'
  BY <1>1, <1>t, <1>n, <1>r, <1>5 DEF CountDownYAt, Now, Stray
<1>6. ASSUME i = 3 PROVE CountDownYAt(3, c, n)'
  BY <1>1, <1>t, <1>n, <1>r, <1>6 DEF CountDownYAt, Now, Stray
<1>7. ASSUME i = 4 PROVE CountDownYAt(4, c, n)'
  BY <1>1, <1>t, <1>n, <1>r, <1>7 DEF CountDownYAt, Now, Stray
<1>8. ASSUME i = 5 PROVE CountDownYAt(5, c, n)'
  BY <1>1, <1>t, <1>n, <1>r, <1>8 DEF CountDownYAt, Now, Stray
<1>i. i \in 0 .. 5
  BY DEF CountDownYAt
<1> QED BY <1>i, <1>3, <1>4, <1>5, <1>6, <1>7, <1>8

(* JMP !abs. *)
LEMMA JmpStays ==
  ASSUME NEW c \in Cpu, NEW m \in Memory, NEW i, JmpAt(i, c, m),
         NEW cell, NEW echo, Stray(cell, echo), form \in OtherForms, form.op = "jmp"
  PROVE  JmpAt(i, c, Set(m, cell, echo))'
<1> DEFINE e == m[c.pc] + Radix * m[Wrap(c.pc + 1)]
<1>1. /\ c.pc \in Addr /\ m[c.pc] \in Byte
      /\ Wrap(c.pc + 1) \in Addr /\ m[Wrap(c.pc + 1)] \in Byte
  BY Fetched
<1>t. /\ e \in Addr
      /\ m[e] \in Byte
      /\ \A n : WithPC(Past(c, 1), n) = WithPC(c, n)
      /\ WithPC(c, e) \in Cpu
  BY JmpTypes DEF JmpTyped
<1> DEFINE n == Set(m, cell, echo)
<1>n. /\ cell \in Addr /\ echo \in Byte /\ n \in Memory
      /\ \A other \in Addr : other # cell => n[other] = m[other]
  BY Memories DEF Stray
<1>2. ram \in Memory
  BY DEF JmpAt, Now
<1>r. ram' \in Memory
  BY <1>2, Memories DEF Stray
<1>3. ASSUME i = 0 PROVE JmpAt(0, c, n)'
  BY <1>1, <1>t, <1>n, <1>r, <1>3 DEF JmpAt, Now, Stray
<1>4. ASSUME i = 1 PROVE JmpAt(1, c, n)'
  BY <1>1, <1>t, <1>n, <1>r, <1>4 DEF JmpAt, Now, Stray
<1>5. ASSUME i = 2 PROVE JmpAt(2, c, n)'
  BY <1>1, <1>t, <1>n, <1>r, <1>5 DEF JmpAt, Now, Stray
<1>i. i \in 0 .. 2
  BY DEF JmpAt
<1> QED BY <1>i, <1>3, <1>4, <1>5

(* JMP [!abs+X]. *)
LEMMA JmpXStays ==
  ASSUME NEW c \in Cpu, NEW m \in Memory, NEW i, JmpXAt(i, c, m),
         NEW cell, NEW echo, Stray(cell, echo), form \in OtherForms, form.op = "jmpx"
  PROVE  JmpXAt(i, c, Set(m, cell, echo))'
<1> DEFINE e == m[c.pc] + Radix * m[Wrap(c.pc + 1)]
           t == Wrap(e + c.x)
           u == Wrap(t + 1)
<1>1. /\ c.pc \in Addr /\ m[c.pc] \in Byte
      /\ Wrap(c.pc + 1) \in Addr /\ m[Wrap(c.pc + 1)] \in Byte
  BY Fetched
<1>t. /\ e \in Addr
      /\ m[e] \in Byte
      /\ t \in Addr
      /\ m[t] \in Byte
      /\ u \in Addr
      /\ m[u] \in Byte
      /\ \A n : WithPC(Past(c, 1), n) = WithPC(c, n)
      /\ WithPC(c, m[t] + Radix * m[u]) \in Cpu
  BY JmpXTypes DEF JmpXTyped
<1> DEFINE n == Set(m, cell, echo)
<1>n. /\ cell \in Addr /\ echo \in Byte /\ n \in Memory
      /\ \A other \in Addr : other # cell => n[other] = m[other]
  BY Memories DEF Stray
<1>2. ram \in Memory
  BY DEF JmpXAt, Now
<1>r. ram' \in Memory
  BY <1>2, Memories DEF Stray
<1>3. ASSUME i = 0 PROVE JmpXAt(0, c, n)'
  BY <1>1, <1>t, <1>n, <1>r, <1>3 DEF JmpXAt, Now, Stray
<1>4. ASSUME i = 1 PROVE JmpXAt(1, c, n)'
  BY <1>1, <1>t, <1>n, <1>r, <1>4 DEF JmpXAt, Now, Stray
<1>5. ASSUME i = 2 PROVE JmpXAt(2, c, n)'
  BY <1>1, <1>t, <1>n, <1>r, <1>5 DEF JmpXAt, Now, Stray
<1>6. ASSUME i = 3 PROVE JmpXAt(3, c, n)'
  BY <1>1, <1>t, <1>n, <1>r, <1>6 DEF JmpXAt, Now, Stray
<1>7. ASSUME i = 4 PROVE JmpXAt(4, c, n)'
  BY <1>1, <1>t, <1>n, <1>r, <1>7 DEF JmpXAt, Now, Stray
<1>8. ASSUME i = 5 PROVE JmpXAt(5, c, n)'
  BY <1>1, <1>t, <1>n, <1>r, <1>8 DEF JmpXAt, Now, Stray
<1>i. i \in 0 .. 5
  BY DEF JmpXAt
<1> QED BY <1>i, <1>3, <1>4, <1>5, <1>6, <1>7, <1>8

(* PUSH A, X or Y. *)
LEMMA PushStays ==
  ASSUME NEW c \in Cpu, NEW m \in Memory, NEW i, PushAt(i, c, m),
         NEW cell, NEW echo, Stray(cell, echo), form \in OtherForms, form.op = "push"
  PROVE  PushAt(i, c, Set(m, cell, echo))'
<1> DEFINE s0 == StackAt(c.sp)
<1>1. /\ c.pc \in Addr /\ m[c.pc] \in Byte
      /\ Wrap(c.pc + 1) \in Addr /\ m[Wrap(c.pc + 1)] \in Byte
  BY Fetched
<1>t. /\ s0 \in Addr
      /\ m[s0] \in Byte
      /\ Set(m, s0, c[form.reg]) \in Memory
      /\ Low(c.sp - 1) \in Byte
      /\ c[form.reg] \in Byte
      /\ WithSP(c, Low(c.sp - 1)) \in Cpu
  BY PushTypes DEF PushTyped
<1> DEFINE n == Set(m, cell, echo)
<1>n. /\ cell \in Addr /\ echo \in Byte /\ n \in Memory
      /\ \A other \in Addr : other # cell => n[other] = m[other]
  BY Memories DEF Stray
<1>2. ram \in Memory
  BY DEF PushAt, Now
<1>r. ram' \in Memory
  BY <1>2, Memories DEF Stray
<1>w. /\ (cell # s0 => Set(Set(m, s0, c[form.reg]), cell, echo) = Set(n, s0, c[form.reg]))
  BY <1>t, <1>n, Apart
<1>3. ASSUME i = 0 PROVE PushAt(0, c, n)'
  BY <1>1, <1>t, <1>n, <1>r, <1>3 DEF PushAt, Now, Stray
<1>4. ASSUME i = 1 PROVE PushAt(1, c, n)'
  BY <1>1, <1>t, <1>n, <1>r, <1>4 DEF PushAt, Now, Stray
<1>5. ASSUME i = 2 PROVE PushAt(2, c, n)'
  BY <1>1, <1>t, <1>n, <1>r, <1>w, <1>5 DEF PushAt, Now, Stray
<1>6. ASSUME i = 3 PROVE PushAt(3, c, n)'
  BY <1>1, <1>t, <1>n, <1>r, <1>w, <1>6 DEF PushAt, Now, Stray
<1>i. i \in 0 .. 3
  BY DEF PushAt
<1> QED BY <1>i, <1>3, <1>4, <1>5, <1>6

(* PUSH PSW. *)
LEMMA PushFlagsStays ==
  ASSUME NEW c \in Cpu, NEW m \in Memory, NEW i, PushFlagsAt(i, c, m),
         NEW cell, NEW echo, Stray(cell, echo), form \in OtherForms, form.op = "pushpsw"
  PROVE  PushFlagsAt(i, c, Set(m, cell, echo))'
<1> DEFINE s0 == StackAt(c.sp)
<1>1. /\ c.pc \in Addr /\ m[c.pc] \in Byte
      /\ Wrap(c.pc + 1) \in Addr /\ m[Wrap(c.pc + 1)] \in Byte
  BY Fetched
<1>t. /\ s0 \in Addr
      /\ m[s0] \in Byte
      /\ Set(m, s0, PSW(c)) \in Memory
      /\ Low(c.sp - 1) \in Byte
      /\ WithSP(c, Low(c.sp - 1)) \in Cpu
  BY PushFlagsTypes DEF PushFlagsTyped
<1> DEFINE n == Set(m, cell, echo)
<1>n. /\ cell \in Addr /\ echo \in Byte /\ n \in Memory
      /\ \A other \in Addr : other # cell => n[other] = m[other]
  BY Memories DEF Stray
<1>2. ram \in Memory
  BY DEF PushFlagsAt, Now
<1>r. ram' \in Memory
  BY <1>2, Memories DEF Stray
<1>w. /\ (cell # s0 => Set(Set(m, s0, PSW(c)), cell, echo) = Set(n, s0, PSW(c)))
  BY <1>t, <1>n, Apart
<1>3. ASSUME i = 0 PROVE PushFlagsAt(0, c, n)'
  BY <1>1, <1>t, <1>n, <1>r, <1>3 DEF PushFlagsAt, Now, Stray
<1>4. ASSUME i = 1 PROVE PushFlagsAt(1, c, n)'
  BY <1>1, <1>t, <1>n, <1>r, <1>4 DEF PushFlagsAt, Now, Stray
<1>5. ASSUME i = 2 PROVE PushFlagsAt(2, c, n)'
  BY <1>1, <1>t, <1>n, <1>r, <1>w, <1>5 DEF PushFlagsAt, Now, Stray
<1>6. ASSUME i = 3 PROVE PushFlagsAt(3, c, n)'
  BY <1>1, <1>t, <1>n, <1>r, <1>w, <1>6 DEF PushFlagsAt, Now, Stray
<1>i. i \in 0 .. 3
  BY DEF PushFlagsAt
<1> QED BY <1>i, <1>3, <1>4, <1>5, <1>6

(* POP A, X or Y. *)
LEMMA PopStays ==
  ASSUME NEW c \in Cpu, NEW m \in Memory, NEW i, PopAt(i, c, m),
         NEW cell, NEW echo, Stray(cell, echo), form \in OtherForms, form.op = "pop"
  PROVE  PopAt(i, c, Set(m, cell, echo))'
<1> DEFINE t1 == StackAt(Low(c.sp + 1))
<1>1. /\ c.pc \in Addr /\ m[c.pc] \in Byte
      /\ Wrap(c.pc + 1) \in Addr /\ m[Wrap(c.pc + 1)] \in Byte
  BY Fetched
<1>t. /\ t1 \in Addr
      /\ m[t1] \in Byte
      /\ Low(c.sp + 1) \in Byte
      /\ WithSP(c, Low(c.sp + 1)).sp = Low(c.sp + 1)
      /\ form.reg \in Registers
      /\ WithSP(c, Low(c.sp + 1)) \in Cpu
      /\ Pulled(WithSP(c, Low(c.sp + 1)), form.reg, m[t1]) \in Cpu
  BY PopTypes DEF PopTyped
<1> DEFINE n == Set(m, cell, echo)
<1>n. /\ cell \in Addr /\ echo \in Byte /\ n \in Memory
      /\ \A other \in Addr : other # cell => n[other] = m[other]
  BY Memories DEF Stray
<1>2. ram \in Memory
  BY DEF PopAt, Now
<1>r. ram' \in Memory
  BY <1>2, Memories DEF Stray
<1>3. ASSUME i = 0 PROVE PopAt(0, c, n)'
  BY <1>1, <1>t, <1>n, <1>r, <1>3 DEF PopAt, Now, Stray
<1>4. ASSUME i = 1 PROVE PopAt(1, c, n)'
  BY <1>1, <1>t, <1>n, <1>r, <1>4 DEF PopAt, Now, Stray
<1>5. ASSUME i = 2 PROVE PopAt(2, c, n)'
  BY <1>1, <1>t, <1>n, <1>r, <1>5 DEF PopAt, Now, Stray
<1>6. ASSUME i = 3 PROVE PopAt(3, c, n)'
  BY <1>1, <1>t, <1>n, <1>r, <1>6 DEF PopAt, Now, Stray
<1>i. i \in 0 .. 3
  BY DEF PopAt
<1> QED BY <1>i, <1>3, <1>4, <1>5, <1>6

(* POP PSW. *)
LEMMA PopFlagsStays ==
  ASSUME NEW c \in Cpu, NEW m \in Memory, NEW i, PopFlagsAt(i, c, m),
         NEW cell, NEW echo, Stray(cell, echo), form \in OtherForms, form.op = "poppsw"
  PROVE  PopFlagsAt(i, c, Set(m, cell, echo))'
<1> DEFINE t1 == StackAt(Low(c.sp + 1))
<1>1. /\ c.pc \in Addr /\ m[c.pc] \in Byte
      /\ Wrap(c.pc + 1) \in Addr /\ m[Wrap(c.pc + 1)] \in Byte
  BY Fetched
<1>t. /\ t1 \in Addr
      /\ m[t1] \in Byte
      /\ Low(c.sp + 1) \in Byte
      /\ WithSP(c, Low(c.sp + 1)).sp = Low(c.sp + 1)
      /\ WithSP(c, Low(c.sp + 1)) \in Cpu
      /\ Restored(WithSP(c, Low(c.sp + 1)), m[t1]) \in Cpu
  BY PopFlagsTypes DEF PopFlagsTyped
<1> DEFINE n == Set(m, cell, echo)
<1>n. /\ cell \in Addr /\ echo \in Byte /\ n \in Memory
      /\ \A other \in Addr : other # cell => n[other] = m[other]
  BY Memories DEF Stray
<1>2. ram \in Memory
  BY DEF PopFlagsAt, Now
<1>r. ram' \in Memory
  BY <1>2, Memories DEF Stray
<1>3. ASSUME i = 0 PROVE PopFlagsAt(0, c, n)'
  BY <1>1, <1>t, <1>n, <1>r, <1>3 DEF PopFlagsAt, Now, Stray
<1>4. ASSUME i = 1 PROVE PopFlagsAt(1, c, n)'
  BY <1>1, <1>t, <1>n, <1>r, <1>4 DEF PopFlagsAt, Now, Stray
<1>5. ASSUME i = 2 PROVE PopFlagsAt(2, c, n)'
  BY <1>1, <1>t, <1>n, <1>r, <1>5 DEF PopFlagsAt, Now, Stray
<1>6. ASSUME i = 3 PROVE PopFlagsAt(3, c, n)'
  BY <1>1, <1>t, <1>n, <1>r, <1>6 DEF PopFlagsAt, Now, Stray
<1>i. i \in 0 .. 3
  BY DEF PopFlagsAt
<1> QED BY <1>i, <1>3, <1>4, <1>5, <1>6

(* CALL !abs. *)
LEMMA CallStays ==
  ASSUME NEW c \in Cpu, NEW m \in Memory, NEW i, CallAt(i, c, m),
         NEW cell, NEW echo, Stray(cell, echo), form \in OtherForms, form.op = "call"
  PROVE  CallAt(i, c, Set(m, cell, echo))'
<1> DEFINE e == m[c.pc] + Radix * m[Wrap(c.pc + 1)]
           ret == Wrap(c.pc + 2)
           s0 == StackAt(c.sp)
           s1 == StackAt(Low(c.sp - 1))
<1>1. /\ c.pc \in Addr /\ m[c.pc] \in Byte
      /\ Wrap(c.pc + 1) \in Addr /\ m[Wrap(c.pc + 1)] \in Byte
  BY Fetched
<1>t. /\ e \in Addr
      /\ m[e] \in Byte
      /\ ret \in Addr
      /\ s0 \in Addr
      /\ m[s0] \in Byte
      /\ s1 \in Addr
      /\ m[s1] \in Byte
      /\ Set(m, s0, High(ret)) \in Memory
      /\ Set(Set(m, s0, High(ret)), s1, Low(ret)) \in Memory
      /\ Low(c.sp - 1) \in Byte /\ Low(c.sp - 2) \in Byte
      /\ Low(Low(c.sp - 1) - 1) = Low(c.sp - 2)
      /\ Past(c, 2).pc = ret
      /\ WithSP(Past(c, 2), Low(c.sp - 1)).sp = Low(c.sp - 1)
      /\ WithSP(Past(c, 2), Low(c.sp - 1)).pc = Past(c, 2).pc
      /\ \A n : WithSP(WithSP(Past(c, 2), Low(c.sp - 1)), n) = WithSP(Past(c, 2), n)
      /\ WithSP(Past(c, 2), Low(c.sp - 2)).sp = Low(c.sp - 2)
      /\ WithSP(Past(c, 2), Low(c.sp - 2)).pc = Past(c, 2).pc
      /\ \A n : WithSP(WithSP(Past(c, 2), Low(c.sp - 2)), n) = WithSP(Past(c, 2), n)
      /\ WithPC(WithSP(Past(c, 2), Low(c.sp - 2)), e) =
          WithSP(WithPC(Past(c, 2), e), Low(c.sp - 2))
      /\ WithPC(Past(c, 2), e) = WithPC(c, e)
      /\ WithSP(Past(c, 2), Low(c.sp - 1)) \in Cpu
      /\ WithSP(Past(c, 2), Low(c.sp - 2)) \in Cpu
      /\ WithSP(WithPC(c, e), Low(c.sp - 2)) \in Cpu
  BY CallTypes DEF CallTyped
<1> DEFINE n == Set(m, cell, echo)
<1>n. /\ cell \in Addr /\ echo \in Byte /\ n \in Memory
      /\ \A other \in Addr : other # cell => n[other] = m[other]
  BY Memories DEF Stray
<1>2. ram \in Memory
  BY DEF CallAt, Now
<1>r. ram' \in Memory
  BY <1>2, Memories DEF Stray
<1>w. /\ (cell # s0 => Set(Set(m, s0, High(ret)), cell, echo) = Set(n, s0, High(ret)))
      /\ (cell # s1 /\ cell # s0 => Set(Set(Set(m, s0, High(ret)), s1, Low(ret)), cell,
          echo) = Set(Set(n, s0, High(ret)), s1, Low(ret)))
  BY <1>t, <1>n, Apart
<1>3. ASSUME i = 0 PROVE CallAt(0, c, n)'
  BY <1>1, <1>t, <1>n, <1>r, <1>3 DEF CallAt, Now, Stray
<1>4. ASSUME i = 1 PROVE CallAt(1, c, n)'
  BY <1>1, <1>t, <1>n, <1>r, <1>4 DEF CallAt, Now, Stray
<1>5. ASSUME i = 2 PROVE CallAt(2, c, n)'
  BY <1>1, <1>t, <1>n, <1>r, <1>5 DEF CallAt, Now, Stray
<1>6. ASSUME i = 3 PROVE CallAt(3, c, n)'
  BY <1>1, <1>t, <1>n, <1>r, <1>6 DEF CallAt, Now, Stray
<1>7. ASSUME i = 4 PROVE CallAt(4, c, n)'
  BY <1>1, <1>t, <1>n, <1>r, <1>w, <1>7 DEF CallAt, Now, Stray
<1>8. ASSUME i = 5 PROVE CallAt(5, c, n)'
  BY <1>1, <1>t, <1>n, <1>r, <1>w, <1>8 DEF CallAt, Now, Stray
<1>9. ASSUME i = 6 PROVE CallAt(6, c, n)'
  BY <1>1, <1>t, <1>n, <1>r, <1>w, <1>9 DEF CallAt, Now, Stray
<1>10. ASSUME i = 7 PROVE CallAt(7, c, n)'
  BY <1>1, <1>t, <1>n, <1>r, <1>w, <1>10 DEF CallAt, Now, Stray
<1>i. i \in 0 .. 7
  BY DEF CallAt
<1> QED BY <1>i, <1>3, <1>4, <1>5, <1>6, <1>7, <1>8, <1>9, <1>10

(* TCALL n. *)
LEMMA TCallStays ==
  ASSUME NEW c \in Cpu, NEW m \in Memory, NEW i, TCallAt(i, c, m),
         NEW cell, NEW echo, Stray(cell, echo), form \in OtherForms, form.op = "tcall"
  PROVE  TCallAt(i, c, Set(m, cell, echo))'
<1> DEFINE a == VectorAt(form.n)
           b == Wrap(a + 1)
           e == m[a] + Radix * m[b]
           s0 == StackAt(c.sp)
           s1 == StackAt(Low(c.sp - 1))
<1>1. /\ c.pc \in Addr /\ m[c.pc] \in Byte
      /\ Wrap(c.pc + 1) \in Addr /\ m[Wrap(c.pc + 1)] \in Byte
  BY Fetched
<1>t. /\ a \in Addr
      /\ m[a] \in Byte
      /\ b \in Addr
      /\ m[b] \in Byte
      /\ e \in Addr
      /\ m[e] \in Byte
      /\ s0 \in Addr
      /\ m[s0] \in Byte
      /\ s1 \in Addr
      /\ m[s1] \in Byte
      /\ Set(m, s0, High(c.pc)) \in Memory
      /\ Set(Set(m, s0, High(c.pc)), s1, Low(c.pc)) \in Memory
      /\ Low(c.sp - 1) \in Byte /\ Low(c.sp - 2) \in Byte
      /\ Low(Low(c.sp - 1) - 1) = Low(c.sp - 2)
      /\ WithSP(c, Low(c.sp - 1)).sp = Low(c.sp - 1)
      /\ WithSP(c, Low(c.sp - 1)).pc = c.pc
      /\ \A n : WithSP(WithSP(c, Low(c.sp - 1)), n) = WithSP(c, n)
      /\ WithSP(c, Low(c.sp - 2)).sp = Low(c.sp - 2)
      /\ WithSP(c, Low(c.sp - 2)).pc = c.pc
      /\ \A n : WithSP(WithSP(c, Low(c.sp - 2)), n) = WithSP(c, n)
      /\ WithPC(WithSP(c, Low(c.sp - 2)), e) = WithSP(WithPC(c, e), Low(c.sp - 2))
      /\ WithSP(c, Low(c.sp - 1)) \in Cpu
      /\ WithSP(c, Low(c.sp - 2)) \in Cpu
      /\ WithSP(WithPC(c, e), Low(c.sp - 2)) \in Cpu
  BY TCallTypes DEF TCallTyped
<1> DEFINE n == Set(m, cell, echo)
<1>n. /\ cell \in Addr /\ echo \in Byte /\ n \in Memory
      /\ \A other \in Addr : other # cell => n[other] = m[other]
  BY Memories DEF Stray
<1>2. ram \in Memory
  BY DEF TCallAt, Now
<1>r. ram' \in Memory
  BY <1>2, Memories DEF Stray
<1>w. /\ (cell # s0 => Set(Set(m, s0, High(c.pc)), cell, echo) = Set(n, s0, High(c.pc)))
      /\ (cell # s1 /\ cell # s0 => Set(Set(Set(m, s0, High(c.pc)), s1, Low(c.pc)), cell,
          echo) = Set(Set(n, s0, High(c.pc)), s1, Low(c.pc)))
  BY <1>t, <1>n, Apart
<1>3. ASSUME i = 0 PROVE TCallAt(0, c, n)'
  BY <1>1, <1>t, <1>n, <1>r, <1>3 DEF TCallAt, Now, Stray
<1>4. ASSUME i = 1 PROVE TCallAt(1, c, n)'
  BY <1>1, <1>t, <1>n, <1>r, <1>4 DEF TCallAt, Now, Stray
<1>5. ASSUME i = 2 PROVE TCallAt(2, c, n)'
  BY <1>1, <1>t, <1>n, <1>r, <1>5 DEF TCallAt, Now, Stray
<1>6. ASSUME i = 3 PROVE TCallAt(3, c, n)'
  BY <1>1, <1>t, <1>n, <1>r, <1>6 DEF TCallAt, Now, Stray
<1>7. ASSUME i = 4 PROVE TCallAt(4, c, n)'
  BY <1>1, <1>t, <1>n, <1>r, <1>w, <1>7 DEF TCallAt, Now, Stray
<1>8. ASSUME i = 5 PROVE TCallAt(5, c, n)'
  BY <1>1, <1>t, <1>n, <1>r, <1>w, <1>8 DEF TCallAt, Now, Stray
<1>9. ASSUME i = 6 PROVE TCallAt(6, c, n)'
  BY <1>1, <1>t, <1>n, <1>r, <1>w, <1>9 DEF TCallAt, Now, Stray
<1>10. ASSUME i = 7 PROVE TCallAt(7, c, n)'
  BY <1>1, <1>t, <1>n, <1>r, <1>w, <1>10 DEF TCallAt, Now, Stray
<1>i. i \in 0 .. 7
  BY DEF TCallAt
<1> QED BY <1>i, <1>3, <1>4, <1>5, <1>6, <1>7, <1>8, <1>9, <1>10

(* PCALL upage. *)
LEMMA PCallStays ==
  ASSUME NEW c \in Cpu, NEW m \in Memory, NEW i, PCallAt(i, c, m),
         NEW cell, NEW echo, Stray(cell, echo), form \in OtherForms, form.op = "pcall"
  PROVE  PCallAt(i, c, Set(m, cell, echo))'
<1> DEFINE e == Radix * (Radix - 1) + m[c.pc]
           ret == Wrap(c.pc + 1)
           s0 == StackAt(c.sp)
           s1 == StackAt(Low(c.sp - 1))
<1>1. /\ c.pc \in Addr /\ m[c.pc] \in Byte
      /\ Wrap(c.pc + 1) \in Addr /\ m[Wrap(c.pc + 1)] \in Byte
  BY Fetched
<1>t. /\ e \in Addr
      /\ m[e] \in Byte
      /\ ret \in Addr
      /\ s0 \in Addr
      /\ m[s0] \in Byte
      /\ s1 \in Addr
      /\ m[s1] \in Byte
      /\ Set(m, s0, High(ret)) \in Memory
      /\ Set(Set(m, s0, High(ret)), s1, Low(ret)) \in Memory
      /\ Low(c.sp - 1) \in Byte /\ Low(c.sp - 2) \in Byte
      /\ Low(Low(c.sp - 1) - 1) = Low(c.sp - 2)
      /\ Past(c, 1).pc = ret
      /\ WithSP(Past(c, 1), Low(c.sp - 1)).sp = Low(c.sp - 1)
      /\ WithSP(Past(c, 1), Low(c.sp - 1)).pc = Past(c, 1).pc
      /\ \A n : WithSP(WithSP(Past(c, 1), Low(c.sp - 1)), n) = WithSP(Past(c, 1), n)
      /\ WithSP(Past(c, 1), Low(c.sp - 2)).sp = Low(c.sp - 2)
      /\ WithSP(Past(c, 1), Low(c.sp - 2)).pc = Past(c, 1).pc
      /\ \A n : WithSP(WithSP(Past(c, 1), Low(c.sp - 2)), n) = WithSP(Past(c, 1), n)
      /\ WithPC(WithSP(Past(c, 1), Low(c.sp - 1)), e) =
          WithSP(WithPC(Past(c, 1), e), Low(c.sp - 1))
      /\ WithPC(Past(c, 1), e) = WithPC(c, e)
      /\ \A s, n : WithSP(WithSP(WithPC(c, e), s), n) = WithSP(WithPC(c, e), n)
      /\ WithSP(Past(c, 1), Low(c.sp - 1)) \in Cpu
      /\ WithSP(WithPC(c, e), Low(c.sp - 2)) \in Cpu
  BY PCallTypes DEF PCallTyped
<1> DEFINE n == Set(m, cell, echo)
<1>n. /\ cell \in Addr /\ echo \in Byte /\ n \in Memory
      /\ \A other \in Addr : other # cell => n[other] = m[other]
  BY Memories DEF Stray
<1>2. ram \in Memory
  BY DEF PCallAt, Now
<1>r. ram' \in Memory
  BY <1>2, Memories DEF Stray
<1>w. /\ (cell # s0 => Set(Set(m, s0, High(ret)), cell, echo) = Set(n, s0, High(ret)))
      /\ (cell # s1 /\ cell # s0 => Set(Set(Set(m, s0, High(ret)), s1, Low(ret)), cell,
          echo) = Set(Set(n, s0, High(ret)), s1, Low(ret)))
  BY <1>t, <1>n, Apart
<1>3. ASSUME i = 0 PROVE PCallAt(0, c, n)'
  BY <1>1, <1>t, <1>n, <1>r, <1>3 DEF PCallAt, Now, Stray
<1>4. ASSUME i = 1 PROVE PCallAt(1, c, n)'
  BY <1>1, <1>t, <1>n, <1>r, <1>4 DEF PCallAt, Now, Stray
<1>5. ASSUME i = 2 PROVE PCallAt(2, c, n)'
  BY <1>1, <1>t, <1>n, <1>r, <1>5 DEF PCallAt, Now, Stray
<1>6. ASSUME i = 3 PROVE PCallAt(3, c, n)'
  BY <1>1, <1>t, <1>n, <1>r, <1>w, <1>6 DEF PCallAt, Now, Stray
<1>7. ASSUME i = 4 PROVE PCallAt(4, c, n)'
  BY <1>1, <1>t, <1>n, <1>r, <1>w, <1>7 DEF PCallAt, Now, Stray
<1>8. ASSUME i = 5 PROVE PCallAt(5, c, n)'
  BY <1>1, <1>t, <1>n, <1>r, <1>w, <1>8 DEF PCallAt, Now, Stray
<1>i. i \in 0 .. 5
  BY DEF PCallAt
<1> QED BY <1>i, <1>3, <1>4, <1>5, <1>6, <1>7, <1>8

(* BRK. *)
LEMMA BrkStays ==
  ASSUME NEW c \in Cpu, NEW m \in Memory, NEW i, BrkAt(i, c, m),
         NEW cell, NEW echo, Stray(cell, echo), form \in OtherForms, form.op = "brk"
  PROVE  BrkAt(i, c, Set(m, cell, echo))'
<1> DEFINE a == VectorAt(form.n)
           b == Wrap(a + 1)
           e == m[a] + Radix * m[b]
           s0 == StackAt(c.sp)
           s1 == StackAt(Low(c.sp - 1))
           s2 == StackAt(Low(c.sp - 2))
<1>1. /\ c.pc \in Addr /\ m[c.pc] \in Byte
      /\ Wrap(c.pc + 1) \in Addr /\ m[Wrap(c.pc + 1)] \in Byte
  BY Fetched
<1>t. /\ a \in Addr
      /\ m[a] \in Byte
      /\ b \in Addr
      /\ m[b] \in Byte
      /\ e \in Addr
      /\ m[e] \in Byte
      /\ s0 \in Addr
      /\ m[s0] \in Byte
      /\ s1 \in Addr
      /\ m[s1] \in Byte
      /\ s2 \in Addr
      /\ m[s2] \in Byte
      /\ Set(m, s0, High(c.pc)) \in Memory
      /\ Set(Set(m, s0, High(c.pc)), s1, Low(c.pc)) \in Memory
      /\ Set(Set(Set(m, s0, High(c.pc)), s1, Low(c.pc)), s2, PSW(c)) \in Memory
      /\ Low(c.sp - 1) \in Byte /\ Low(c.sp - 2) \in Byte
      /\ Low(Low(c.sp - 1) - 1) = Low(c.sp - 2)
      /\ WithSP(c, Low(c.sp - 1)).sp = Low(c.sp - 1)
      /\ WithSP(c, Low(c.sp - 1)).pc = c.pc
      /\ \A n : WithSP(WithSP(c, Low(c.sp - 1)), n) = WithSP(c, n)
      /\ WithSP(c, Low(c.sp - 2)).sp = Low(c.sp - 2)
      /\ WithSP(c, Low(c.sp - 2)).pc = c.pc
      /\ \A n : WithSP(WithSP(c, Low(c.sp - 2)), n) = WithSP(c, n)
      /\ Low(c.sp - 3) \in Byte
      /\ Low(Low(c.sp - 2) - 1) = Low(c.sp - 3)
      /\ WithPC(WithSP(c, Low(c.sp - 2)), e) = WithSP(WithPC(c, e), Low(c.sp - 2))
      /\ PSW(WithSP(c, Low(c.sp - 2))) = PSW(c)
      /\ \A s, n : WithSP(WithSP(WithPC(c, e), s), n) = WithSP(WithPC(c, e), n)
      /\ WithSP(c, Low(c.sp - 1)) \in Cpu
      /\ WithSP(c, Low(c.sp - 2)) \in Cpu
      /\ WithSP(WithPC(c, e), Low(c.sp - 3)) \in Cpu
  BY BrkTypes DEF BrkTyped
<1> DEFINE n == Set(m, cell, echo)
<1>n. /\ cell \in Addr /\ echo \in Byte /\ n \in Memory
      /\ \A other \in Addr : other # cell => n[other] = m[other]
  BY Memories DEF Stray
<1>2. ram \in Memory
  BY DEF BrkAt, Now
<1>r. ram' \in Memory
  BY <1>2, Memories DEF Stray
<1>w. /\ (cell # s0 => Set(Set(m, s0, High(c.pc)), cell, echo) = Set(n, s0, High(c.pc)))
      /\ (cell # s1 /\ cell # s0 => Set(Set(Set(m, s0, High(c.pc)), s1, Low(c.pc)), cell,
          echo) = Set(Set(n, s0, High(c.pc)), s1, Low(c.pc)))
      /\ (cell # s2 /\ cell # s1 /\ cell # s0 =>
          Set(Set(Set(Set(m, s0, High(c.pc)), s1, Low(c.pc)), s2, PSW(c)), cell, echo) =
              Set(Set(Set(n, s0, High(c.pc)), s1, Low(c.pc)), s2, PSW(c)))
  BY <1>t, <1>n, Apart
<1>3. ASSUME i = 0 PROVE BrkAt(0, c, n)'
  BY <1>1, <1>t, <1>n, <1>r, <1>3 DEF BrkAt, Now, Stray
<1>4. ASSUME i = 1 PROVE BrkAt(1, c, n)'
  BY <1>1, <1>t, <1>n, <1>r, <1>4 DEF BrkAt, Now, Stray
<1>5. ASSUME i = 2 PROVE BrkAt(2, c, n)'
  BY <1>1, <1>t, <1>n, <1>r, <1>5 DEF BrkAt, Now, Stray
<1>6. ASSUME i = 3 PROVE BrkAt(3, c, n)'
  BY <1>1, <1>t, <1>n, <1>r, <1>6 DEF BrkAt, Now, Stray
<1>7. ASSUME i = 4 PROVE BrkAt(4, c, n)'
  BY <1>1, <1>t, <1>n, <1>r, <1>w, <1>7 DEF BrkAt, Now, Stray
<1>8. ASSUME i = 5 PROVE BrkAt(5, c, n)'
  BY <1>1, <1>t, <1>n, <1>r, <1>w, <1>8 DEF BrkAt, Now, Stray
<1>9. ASSUME i = 6 PROVE BrkAt(6, c, n)'
  BY <1>1, <1>t, <1>n, <1>r, <1>w, <1>9 DEF BrkAt, Now, Stray
<1>10. ASSUME i = 7 PROVE BrkAt(7, c, n)'
  BY <1>1, <1>t, <1>n, <1>r, <1>w, <1>10 DEF BrkAt, Now, Stray
<1>i. i \in 0 .. 7
  BY DEF BrkAt
<1> QED BY <1>i, <1>3, <1>4, <1>5, <1>6, <1>7, <1>8, <1>9, <1>10

(* RET. *)
LEMMA RetStays ==
  ASSUME NEW c \in Cpu, NEW m \in Memory, NEW i, RetAt(i, c, m),
         NEW cell, NEW echo, Stray(cell, echo), form \in OtherForms, form.op = "ret"
  PROVE  RetAt(i, c, Set(m, cell, echo))'
<1> DEFINE t1 == StackAt(Low(c.sp + 1))
           t2 == StackAt(Low(c.sp + 2))
<1>1. /\ c.pc \in Addr /\ m[c.pc] \in Byte
      /\ Wrap(c.pc + 1) \in Addr /\ m[Wrap(c.pc + 1)] \in Byte
  BY Fetched
<1>t. /\ t1 \in Addr
      /\ m[t1] \in Byte
      /\ t2 \in Addr
      /\ m[t2] \in Byte
      /\ Low(c.sp + 1) \in Byte /\ Low(c.sp + 2) \in Byte
      /\ Low(Low(c.sp + 1) + 1) = Low(c.sp + 2)
      /\ WithSP(c, Low(c.sp + 1)).sp = Low(c.sp + 1)
      /\ WithSP(c, Low(c.sp + 1)).pc = c.pc
      /\ \A n : WithSP(WithSP(c, Low(c.sp + 1)), n) = WithSP(c, n)
      /\ \A n : WithPC(WithSP(c, Low(c.sp + 2)), n) = WithSP(WithPC(c, n), Low(c.sp + 2))
      /\ WithSP(c, Low(c.sp + 1)) \in Cpu
      /\ WithSP(c, Low(c.sp + 2)) \in Cpu
      /\ WithSP(WithPC(c, m[t1] + Radix * m[t2]), Low(c.sp + 2)) \in Cpu
  BY RetTypes DEF RetTyped
<1> DEFINE n == Set(m, cell, echo)
<1>n. /\ cell \in Addr /\ echo \in Byte /\ n \in Memory
      /\ \A other \in Addr : other # cell => n[other] = m[other]
  BY Memories DEF Stray
<1>2. ram \in Memory
  BY DEF RetAt, Now
<1>r. ram' \in Memory
  BY <1>2, Memories DEF Stray
<1>3. ASSUME i = 0 PROVE RetAt(0, c, n)'
  BY <1>1, <1>t, <1>n, <1>r, <1>3 DEF RetAt, Now, Stray
<1>4. ASSUME i = 1 PROVE RetAt(1, c, n)'
  BY <1>1, <1>t, <1>n, <1>r, <1>4 DEF RetAt, Now, Stray
<1>5. ASSUME i = 2 PROVE RetAt(2, c, n)'
  BY <1>1, <1>t, <1>n, <1>r, <1>5 DEF RetAt, Now, Stray
<1>6. ASSUME i = 3 PROVE RetAt(3, c, n)'
  BY <1>1, <1>t, <1>n, <1>r, <1>6 DEF RetAt, Now, Stray
<1>7. ASSUME i = 4 PROVE RetAt(4, c, n)'
  BY <1>1, <1>t, <1>n, <1>r, <1>7 DEF RetAt, Now, Stray
<1>i. i \in 0 .. 4
  BY DEF RetAt
<1> QED BY <1>i, <1>3, <1>4, <1>5, <1>6, <1>7

(* RETI. *)
LEMMA RetIStays ==
  ASSUME NEW c \in Cpu, NEW m \in Memory, NEW i, RetIAt(i, c, m),
         NEW cell, NEW echo, Stray(cell, echo), form \in OtherForms, form.op = "reti"
  PROVE  RetIAt(i, c, Set(m, cell, echo))'
<1> DEFINE t1 == StackAt(Low(c.sp + 1))
           t2 == StackAt(Low(c.sp + 2))
           t3 == StackAt(Low(c.sp + 3))
           k == Restored(c, m[t1])
<1>1. /\ c.pc \in Addr /\ m[c.pc] \in Byte
      /\ Wrap(c.pc + 1) \in Addr /\ m[Wrap(c.pc + 1)] \in Byte
  BY Fetched
<1>t. /\ t1 \in Addr
      /\ m[t1] \in Byte
      /\ t2 \in Addr
      /\ m[t2] \in Byte
      /\ t3 \in Addr
      /\ m[t3] \in Byte
      /\ k \in Cpu
      /\ Low(c.sp + 1) \in Byte /\ Low(c.sp + 2) \in Byte /\ Low(c.sp + 3) \in Byte
      /\ Low(Low(c.sp + 1) + 1) = Low(c.sp + 2)
      /\ Low(Low(c.sp + 2) + 1) = Low(c.sp + 3)
      /\ k.sp = c.sp
      /\ WithSP(c, Low(c.sp + 1)).sp = Low(c.sp + 1)
      /\ WithSP(c, Low(c.sp + 1)).pc = c.pc
      /\ \A n : WithSP(WithSP(c, Low(c.sp + 1)), n) = WithSP(c, n)
      /\ WithSP(k, Low(c.sp + 2)).sp = Low(c.sp + 2)
      /\ WithSP(k, Low(c.sp + 2)).pc = k.pc
      /\ \A n : WithSP(WithSP(k, Low(c.sp + 2)), n) = WithSP(k, n)
      /\ Restored(WithSP(c, Low(c.sp + 1)), m[t1]) = WithSP(k, Low(c.sp + 1))
      /\ \A n : WithSP(WithSP(k, Low(c.sp + 1)), n) = WithSP(k, n)
      /\ \A n : WithPC(WithSP(k, Low(c.sp + 3)), n) = WithSP(WithPC(k, n), Low(c.sp + 3))
      /\ WithSP(c, Low(c.sp + 1)) \in Cpu
      /\ WithSP(k, Low(c.sp + 2)) \in Cpu
      /\ WithSP(k, Low(c.sp + 3)) \in Cpu
      /\ WithSP(WithPC(k, m[t2] + Radix * m[t3]), Low(c.sp + 3)) \in Cpu
  BY RetITypes DEF RetITyped
<1> DEFINE n == Set(m, cell, echo)
<1>n. /\ cell \in Addr /\ echo \in Byte /\ n \in Memory
      /\ \A other \in Addr : other # cell => n[other] = m[other]
  BY Memories DEF Stray
<1>2. ram \in Memory
  BY DEF RetIAt, Now
<1>r. ram' \in Memory
  BY <1>2, Memories DEF Stray
<1>3. ASSUME i = 0 PROVE RetIAt(0, c, n)'
  BY <1>1, <1>t, <1>n, <1>r, <1>3 DEF RetIAt, Now, Stray
<1>4. ASSUME i = 1 PROVE RetIAt(1, c, n)'
  BY <1>1, <1>t, <1>n, <1>r, <1>4 DEF RetIAt, Now, Stray
<1>5. ASSUME i = 2 PROVE RetIAt(2, c, n)'
  BY <1>1, <1>t, <1>n, <1>r, <1>5 DEF RetIAt, Now, Stray
<1>6. ASSUME i = 3 PROVE RetIAt(3, c, n)'
  BY <1>1, <1>t, <1>n, <1>r, <1>6 DEF RetIAt, Now, Stray
<1>7. ASSUME i = 4 PROVE RetIAt(4, c, n)'
  BY <1>1, <1>t, <1>n, <1>r, <1>7 DEF RetIAt, Now, Stray
<1>8. ASSUME i = 5 PROVE RetIAt(5, c, n)'
  BY <1>1, <1>t, <1>n, <1>r, <1>8 DEF RetIAt, Now, Stray
<1>i. i \in 0 .. 5
  BY DEF RetIAt
<1> QED BY <1>i, <1>3, <1>4, <1>5, <1>6, <1>7, <1>8

-----------------------------------------------------------------------------
(* The access at the end of a mode. *)

LEMMA ModeNames ==
  \A mode \in DOMAIN Modes :
    mode \in {"dp", "abs", "x", "dpx", "dpy", "absx", "absy", "dpxi", "dpiy"}
BY DEF Modes

(* Where the operand is found: at an address, through cells with addresses. *)
LEMMA Operated ==
  ASSUME NEW c \in Cpu, NEW m \in Memory, NEW mode \in DOMAIN Modes
  PROVE  /\ EA(mode, c, m) \in Addr /\ ModeCells(mode, c, m) \subseteq Addr
         /\ Past(c, OperandLength[mode]) \in Cpu
<1> DEFINE op == m[c.pc]
           p == PageOf(c) + op
           q == Direct(c, m, c.x)
           t == Direct(c, m, c.y)
           w == WordAt(m, c.pc)
<1>1. /\ c.pc \in Addr /\ op \in Byte /\ Wrap(c.pc + 1) \in Addr /\ p \in Addr
      /\ m[Wrap(c.pc + 1)] \in Byte /\ c.x \in Byte /\ c.y \in Byte
      /\ PageOf(c) + c.x \in Addr
  BY Fetched, CpuIs
<1>2. q \in Addr /\ t \in Addr
  <2>1. Low(op + c.x) \in Byte /\ Low(op + c.y) \in Byte
    BY <1>1, Sums
  <2> QED BY <2>1, Fetched DEF Direct
<1>3. w \in Addr /\ Wrap(w + c.x) \in Addr /\ Wrap(w + c.y) \in Addr
  <2>1. w \in Addr
    BY <1>1, Words DEF WordAt
  <2> QED BY <1>1, <2>1, Sums
<1>4. \A e \in Addr : WordAt(m, e) \in Addr /\ Wrap(e + 1) \in Addr
  <2> SUFFICES ASSUME NEW e \in Addr PROVE WordAt(m, e) \in Addr /\ Wrap(e + 1) \in Addr
    OBVIOUS
  <2>1. Wrap(e + 1) \in Addr
    BY Sums
  <2>2. m[e] \in Byte /\ m[Wrap(e + 1)] \in Byte
    BY <2>1, Memories
  <2> QED BY <2>1, <2>2, Words DEF WordAt
<1>5. WordAt(m, q) \in Addr /\ WordAt(m, p) \in Addr /\ Wrap(WordAt(m, p) + c.y) \in Addr
  <2>1. WordAt(m, q) \in Addr /\ WordAt(m, p) \in Addr
    BY <1>1, <1>2, <1>4
  <2> QED BY <1>1, <2>1, Sums
<1>6. EA(mode, c, m) \in Addr
  <2>1. EA(mode, c, m) \in {p, w, PageOf(c) + c.x, q, t, Wrap(w + c.x), Wrap(w + c.y),
                            WordAt(m, q), Wrap(WordAt(m, p) + c.y)}
    BY ModeNames DEF EA, Direct
  <2> HIDE DEF p, q, t, w
  <2> QED BY <1>1, <1>2, <1>3, <1>5, <2>1
<1>7. ModeCells(mode, c, m) \subseteq Addr
  <2>1. Wrap(p + 1) \in Addr /\ Wrap(q + 1) \in Addr
    BY <1>1, <1>2, <1>4
  <2>2. ModeCells(mode, c, m) \in {{c.pc}, {c.pc, Wrap(c.pc + 1)}, {},
                                   {c.pc, q, Wrap(q + 1)}, {c.pc, p, Wrap(p + 1)}}
    BY ModeNames DEF ModeCells, Pointer, PointerX
  <2> HIDE DEF p, q
  <2> QED BY <1>1, <1>2, <2>1, <2>2
<1>8. OperandLength[mode] \in {0, 1, 2}
  BY ModeNames DEF OperandLength
<1> QED BY <1>6, <1>7, <1>8, Moves

(* A write to none of the cells read on the way leaves the address alone. *)
LEMMA StillOperated ==
  ASSUME NEW c \in Cpu, NEW m \in Memory, NEW mode \in DOMAIN Modes,
         NEW n \in Memory, NEW cell \in Addr, cell \notin ModeCells(mode, c, m),
         \A k \in Addr : k # cell => n[k] = m[k]
  PROVE  EA(mode, c, n) = EA(mode, c, m) /\ ModeCells(mode, c, n) = ModeCells(mode, c, m)
<1>1. /\ c.pc \in Addr /\ Wrap(c.pc + 1) \in Addr /\ m[c.pc] \in Byte
      /\ PageOf(c) + m[c.pc] \in Addr
  BY Fetched
<1>2. CASE mode = "x"
  BY <1>2 DEF EA, ModeCells
<1>3. CASE mode \in {"dp", "dpx", "dpy"}
  <2>1. n[c.pc] = m[c.pc]
    BY <1>1, <1>3 DEF ModeCells
  <2> QED BY <1>3, <2>1 DEF EA, ModeCells
<1>4. CASE mode \in {"abs", "absx", "absy"}
  <2>1. n[c.pc] = m[c.pc] /\ n[Wrap(c.pc + 1)] = m[Wrap(c.pc + 1)]
    BY <1>1, <1>4 DEF ModeCells
  <2> QED BY <1>4, <2>1 DEF EA, ModeCells, WordAt
<1>5. CASE mode = "dpxi"
  <2> DEFINE q == Direct(c, m, c.x)
  <2>1. ModeCells(mode, c, m) = {c.pc, q, Wrap(q + 1)}
    BY <1>5 DEF ModeCells, PointerX
  <2>2. c.x \in Byte /\ Low(m[c.pc] + c.x) \in Byte
    BY <1>1, CpuIs, Sums
  <2>3. q \in Addr
    BY <2>2, Fetched DEF Direct
  <2>4. Wrap(q + 1) \in Addr
    BY <2>3, Sums
  <2> HIDE DEF q
  <2>5. n[c.pc] = m[c.pc] /\ n[q] = m[q] /\ n[Wrap(q + 1)] = m[Wrap(q + 1)]
    BY <1>1, <2>1, <2>3, <2>4
  <2>6. Direct(c, n, c.x) = q
    BY <2>5 DEF q, Direct
  <2>7. EA(mode, c, n) = WordAt(n, q) /\ EA(mode, c, m) = WordAt(m, q)
    BY <1>5, <2>6 DEF EA, q, Direct
  <2>8. WordAt(n, q) = WordAt(m, q)
    BY <2>5 DEF WordAt
  <2>9. ModeCells(mode, c, n) = {c.pc, q, Wrap(q + 1)}
    BY <1>5, <2>6 DEF ModeCells, PointerX
  <2> QED BY <2>1, <2>7, <2>8, <2>9
<1>6. CASE mode = "dpiy"
  <2> DEFINE p == PageOf(c) + m[c.pc]
  <2>1. ModeCells(mode, c, m) = {c.pc, p, Wrap(p + 1)}
    BY <1>6 DEF ModeCells, Pointer
  <2>2. p \in Addr /\ Wrap(p + 1) \in Addr
    BY <1>1, Sums
  <2> HIDE DEF p
  <2>3. n[c.pc] = m[c.pc] /\ n[p] = m[p] /\ n[Wrap(p + 1)] = m[Wrap(p + 1)]
    BY <1>1, <2>1, <2>2
  <2>4. PageOf(c) + n[c.pc] = p
    BY <2>3 DEF p
  <2>5. EA(mode, c, n) = Wrap(WordAt(n, p) + c.y) /\ EA(mode, c, m) = Wrap(WordAt(m, p) + c.y)
    BY <1>6, <2>4 DEF EA, p
  <2>6. WordAt(n, p) = WordAt(m, p)
    BY <2>3 DEF WordAt
  <2>7. ModeCells(mode, c, n) = {c.pc, p, Wrap(p + 1)}
    BY <1>6, <2>4 DEF ModeCells, Pointer
  <2> QED BY <2>1, <2>5, <2>6, <2>7
<1> QED BY <1>2, <1>3, <1>4, <1>5, <1>6, ModeNames

LEMMA ModeFormIs ==
  form \in ModeForms =>
    /\ form.mode \in DOMAIN Modes /\ form.reg \in Registers
    /\ form.access \in DOMAIN Accesses
    /\ form.access \in {"load", "compare", "store", "modify"}
BY DEF ModeForms, Accesses

LEMMA AccessGoes ==
  ASSUME NEW c \in Cpu, NEW m \in Memory, NEW i, AccessAt(i, c, m), Block,
         form \in ModeForms
  PROVE  \E j : AccessAt(j, c, m)'
<1> DEFINE e == EA(form.mode, c, m)
           k == Past(c, OperandLength[form.mode])
           read == ModeCells(form.mode, c, m)
           v == Low(m[e] + 1)
<1>1. e \in Addr /\ read \subseteq Addr /\ k \in Cpu /\ m[e] \in Byte /\ v \in Byte
  <2>1. e \in Addr /\ read \subseteq Addr /\ k \in Cpu
    BY Operated, ModeFormIs
  <2>2. m[e] \in Byte
    BY <2>1, Memories
  <2> HIDE DEF e
  <2> QED BY <2>1, <2>2, Sums
<1>2. Ready
  BY DEF AccessAt, Now, Ready, ModeForms
<1>3. /\ GetR(k, form.reg, m[e]) \in Cpu /\ GetZ(k, v) \in Cpu
      /\ k[form.reg] \in Byte /\ Compared(k, k[form.reg], m[e]) \in Cpu
  <2> HIDE DEF e, k, v
  <2>1. k[form.reg] \in Byte
    BY <1>1, Moves, ModeFormIs
  <2> QED BY <1>1, <2>1, StillCpu, ModeFormIs
<1>4. Set(m, e, k[form.reg]) \in Memory /\ Set(m, e, v) \in Memory
  BY <1>1, <1>3, Memories
<1>5. form' = form => e' = e /\ k' = k /\ read' = read /\ v' = v
  OBVIOUS
<1>6. i \in {0, 3, 5}
  BY BlocksLeft DEF AccessAt
<1>7. /\ i = 0 => /\ todo = Accesses[form.access] /\ Now(k, m, read) /\ tmp.address = e
      /\ i = 3 => /\ form.access = "store" /\ todo = <<"store">>
                  /\ Now(k, m, read \cup {e}) /\ tmp.address = e
      /\ i = 5 => /\ form.access = "modify" /\ todo = <<"modify">>
                  /\ Now(k, m, read \cup {e}) /\ tmp.address = e /\ tmp.data = m[e]
  BY DEF AccessAt
<1>8. ASSUME form' = form,
             \/ form.access = "load" /\ todo' = <<>>
                /\ Now(GetR(k, form.reg, m[e]), m, read \cup {e})'
             \/ form.access = "compare" /\ todo' = <<>>
                /\ Now(Compared(k, k[form.reg], m[e]), m, read \cup {e})'
             \/ form.access = "store" /\ todo' = <<"store">>
                /\ Now(k, m, read \cup {e})' /\ tmp'.address = e
             \/ form.access = "store" /\ todo' = <<>>
                /\ Now(k, Set(m, e, k[form.reg]), read \cup {e})'
             \/ form.access = "modify" /\ todo' = <<"modify">>
                /\ Now(k, m, read \cup {e})' /\ tmp'.address = e /\ tmp'.data = m[e]
             \/ form.access = "modify" /\ todo' = <<>>
                /\ Now(GetZ(k, v), Set(m, e, v), read \cup {e})'
      PROVE  \E j : AccessAt(j, c, m)'
  BY <1>5, <1>8 DEF AccessAt
<1> HIDE DEF e, k, read, v
<1>9. CASE i = 0 /\ form.access = "load"
  <2>1. todo = <<"load">>
    BY <1>7, <1>9 DEF Accesses
  <2>2. Head(todo) = "load" /\ Tail(todo) = <<>>
    BY <2>1
  <2>3. After(GetR(cpu, form.reg, ram[tmp.address]), ram, {tmp.address})
    BY <1>2, <2>2, LoadDoes
  <2>4. todo' = <<>> /\ Now(GetR(k, form.reg, m[e]), m, read \cup {e})'
    BY <1>1, <1>3, <1>4, <1>5, <1>7, <1>9, <2>2, <2>3 DEF Now, After
  <2> QED BY <1>9, <1>8, <2>3, <2>4 DEF After
<1>10. CASE i = 0 /\ form.access = "compare"
  <2>1. todo = <<"compare">>
    BY <1>7, <1>10 DEF Accesses
  <2>2. Head(todo) = "compare" /\ Tail(todo) = <<>>
    BY <2>1
  <2>3. After(Compared(cpu, cpu[form.reg], ram[tmp.address]), ram, {tmp.address})
    BY <1>2, <2>2, CompareDoes
  <2>4. todo' = <<>> /\ Now(Compared(k, k[form.reg], m[e]), m, read \cup {e})'
    BY <1>1, <1>3, <1>4, <1>5, <1>7, <1>10, <2>2, <2>3 DEF Now, After
  <2> QED BY <1>10, <1>8, <2>3, <2>4 DEF After
<1>11. CASE i = 0 /\ form.access = "store"
  <2>1. todo = <<"read", "store">>
    BY <1>7, <1>11 DEF Accesses
  <2>2. Head(todo) = "read" /\ Tail(todo) = <<"store">>
    BY <2>1
  <2>3. /\ After(cpu, ram, {tmp.address})
        /\ tmp'.address = tmp.address
    BY <1>2, <2>2, ReadDoes DEF TmpIs
  <2>4. /\ todo' = <<"store">> /\ Now(k, m, read \cup {e})'
        /\ tmp'.address = e
    BY <1>1, <1>3, <1>4, <1>5, <1>7, <1>11, <2>2, <2>3 DEF Now, After
  <2> QED BY <1>11, <1>8, <2>3, <2>4 DEF After
<1>12. CASE i = 3
  <2>1. todo = <<"store">>
    BY <1>7, <1>12
  <2>2. Head(todo) = "store" /\ Tail(todo) = <<>>
    BY <2>1
  <2>3. After(cpu, Set(ram, tmp.address, cpu[form.reg]), {tmp.address})
    BY <1>2, <2>2, StoreDoes
  <2>4. /\ form.access = "store" /\ todo' = <<>>
        /\ Now(k, Set(m, e, k[form.reg]), read \cup {e})'
    BY <1>1, <1>3, <1>4, <1>5, <1>7, <1>12, <2>2, <2>3 DEF Now, After
  <2> QED BY <1>12, <1>8, <2>3, <2>4 DEF After
<1>13. CASE i = 0 /\ form.access = "modify"
  <2>1. todo = <<"old", "modify">>
    BY <1>7, <1>13 DEF Accesses
  <2>2. Head(todo) = "old" /\ Tail(todo) = <<"modify">>
    BY <2>1
  <2>3. /\ After(cpu, ram, {tmp.address})
        /\ tmp'.address = tmp.address /\ tmp'.data = ram[tmp.address]
    BY <1>2, <2>2, OldDoes DEF TmpIs
  <2>4. /\ todo' = <<"modify">> /\ Now(k, m, read \cup {e})'
        /\ tmp'.address = e /\ tmp'.data = m[e]
    BY <1>1, <1>3, <1>4, <1>5, <1>7, <1>13, <2>2, <2>3 DEF Now, After
  <2> QED BY <1>13, <1>8, <2>3, <2>4 DEF After
<1>14. CASE i = 5
  <2>1. todo = <<"modify">>
    BY <1>7, <1>14
  <2>2. Head(todo) = "modify" /\ Tail(todo) = <<>>
    BY <2>1
  <2>3. After(GetZ(cpu, Low(tmp.data + 1)), Set(ram, tmp.address, Low(tmp.data + 1)),
              {tmp.address})
    BY <1>2, <2>2, ModifyDoes
  <2>4. /\ form.access = "modify" /\ todo' = <<>>
        /\ Now(GetZ(k, v), Set(m, e, v), read \cup {e})'
    BY <1>1, <1>3, <1>4, <1>5, <1>7, <1>14, <2>2, <2>3 DEF Now, After, v
  <2> QED BY <1>14, <1>8, <2>3, <2>4 DEF After
<1> QED BY <1>6, <1>9, <1>10, <1>11, <1>12, <1>13, <1>14, ModeFormIs

LEMMA AccessStays ==
  ASSUME NEW c \in Cpu, NEW m \in Memory, NEW i, AccessAt(i, c, m),
         NEW cell, NEW echo, Stray(cell, echo), form \in ModeForms
  PROVE  AccessAt(i, c, Set(m, cell, echo))'
<1> DEFINE e == EA(form.mode, c, m)
           k == Past(c, OperandLength[form.mode])
           read == ModeCells(form.mode, c, m)
           v == Low(m[e] + 1)
           n == Set(m, cell, echo)
<1>1. e \in Addr /\ read \subseteq Addr /\ k \in Cpu
  BY Operated, ModeFormIs
<1>2. /\ cell \in Addr /\ cell \notin seen /\ echo \in Byte /\ n \in Memory
      /\ \A a \in Addr : a # cell => n[a] = m[a]
  BY Memories DEF Stray
<1>3. ram \in Memory /\ read \subseteq seen /\ i \in 0 .. 6
  BY DEF AccessAt, Now
<1>4. ram' \in Memory
  BY <1>2, <1>3, Memories DEF Stray
<1>5. EA(form.mode, c, n) = e /\ ModeCells(form.mode, c, n) = read
  <2>1. cell \notin read
    BY <1>2, <1>3
  <2> QED BY <1>2, <2>1, StillOperated, ModeFormIs
<1>6. cell # e => /\ n[e] = m[e]
                  /\ \A b : Set(Set(m, e, b), cell, echo) = Set(n, e, b)
  BY <1>1, <1>2, Apart
<1>7. i # 0 => cell # e
  BY <1>2, <1>3 DEF AccessAt, Now
<1> HIDE DEF e, read, n
<1>8. UNCHANGED <<form, todo, tmp, cpu, seen>> /\ ram' = Set(ram, cell, echo)
  BY DEF Stray
<1>9. CASE i = 0
  BY <1>4, <1>5, <1>8, <1>9 DEF AccessAt, Now, e, read, n
<1>10. CASE i = 1
  BY <1>4, <1>5, <1>6, <1>7, <1>8, <1>10 DEF AccessAt, Now, e, k, read, v, n
<1>11. CASE i = 2
  BY <1>4, <1>5, <1>6, <1>7, <1>8, <1>11 DEF AccessAt, Now, e, k, read, v, n
<1>12. CASE i = 3
  BY <1>4, <1>5, <1>6, <1>7, <1>8, <1>12 DEF AccessAt, Now, e, k, read, v, n
<1>13. CASE i = 4
  BY <1>4, <1>5, <1>6, <1>7, <1>8, <1>13 DEF AccessAt, Now, e, k, read, v, n
<1>14. CASE i = 5
  BY <1>4, <1>5, <1>6, <1>7, <1>8, <1>14 DEF AccessAt, Now, e, k, read, v, n
<1>15. CASE i = 6
  BY <1>4, <1>5, <1>6, <1>7, <1>8, <1>15 DEF AccessAt, Now, e, k, read, v, n
<1> QED BY <1>3, <1>9, <1>10, <1>11, <1>12, <1>13, <1>14, <1>15

LEMMA AccessEnds ==
  ASSUME NEW c \in Cpu, NEW m \in Memory, NEW i, AccessAt(i, c, m), todo = <<>>,
         form \in ModeForms
  PROVE  Machine(cpu, ram) = AsOneStep(form, c, m)
<1> DEFINE e == EA(form.mode, c, m)
           k == Past(c, OperandLength[form.mode])
           v == Low(m[e] + 1)
<1>1. "mode" \in DOMAIN form
  BY DEF ModeForms
<1>2. AsOneStep(form, c, m) = Accessed(form.access, form.reg, k, m, e)
  BY <1>1 DEF AsOneStep
<1>3. Accesses[form.access] # <<>>
  BY ModeFormIs DEF Accesses
<1>4. \/ form.access = "load" /\ cpu = GetR(k, form.reg, m[e]) /\ ram = m
      \/ form.access = "compare" /\ cpu = Compared(k, k[form.reg], m[e]) /\ ram = m
      \/ form.access = "store" /\ cpu = k /\ ram = Set(m, e, k[form.reg])
      \/ form.access = "modify" /\ cpu = GetZ(k, v) /\ ram = Set(m, e, v)
  BY <1>3 DEF AccessAt, Now
<1> HIDE DEF e, k
<1> QED BY <1>2, <1>4 DEF Accessed

-----------------------------------------------------------------------------
(* Where any instruction is: the instructions with a mode, and the others. *)

ModeAt(i, c, m) ==
  \/ form.mode = "dp" /\ DpAt(i, c, m)
  \/ form.mode = "abs" /\ AbsAt(i, c, m)
  \/ form.mode = "x" /\ XAt(i, c, m)
  \/ form.mode = "dpx" /\ DpXAt(i, c, m)
  \/ form.mode = "dpy" /\ DpYAt(i, c, m)
  \/ form.mode = "absx" /\ AbsXAt(i, c, m)
  \/ form.mode = "absy" /\ AbsYAt(i, c, m)
  \/ form.mode = "dpxi" /\ PtrXAt(i, c, m)
  \/ form.mode = "dpiy" /\ PtrYAt(i, c, m)
  \/ AccessAt(i, c, m)

OtherAt(i, c, m) ==
  \/ form.op = "implied" /\ ImpliedAt(i, c, m)
  \/ form.op = "imm" /\ ImmAt(i, c, m)
  \/ form.op = "loadinc" /\ LoadIncAt(i, c, m)
  \/ form.op = "storeinc" /\ StoreIncAt(i, c, m)
  \/ form.op = "dpdp" /\ DpDpAt(i, c, m)
  \/ form.op = "cmpdpdp" /\ CmpDpDpAt(i, c, m)
  \/ form.op = "movdpdp" /\ MovDpDpAt(i, c, m)
  \/ form.op = "dpimm" /\ DpImmAt(i, c, m)
  \/ form.op = "cmpdpimm" /\ CmpDpImmAt(i, c, m)
  \/ form.op = "movdpimm" /\ MovDpImmAt(i, c, m)
  \/ form.op = "xy" /\ XYAt(i, c, m)
  \/ form.op = "cmpxy" /\ CmpXYAt(i, c, m)
  \/ form.op = "word" /\ LoadWordAt(i, c, m)
  \/ form.op = "incw" /\ IncWAt(i, c, m)
  \/ form.op = "movw" /\ MovWAt(i, c, m)
  \/ form.op = "set1" /\ SetBitAt(i, c, m)
  \/ form.op = "clr1" /\ ClrBitAt(i, c, m)
  \/ form.op = "tset1" /\ TestSetAt(i, c, m)
  \/ form.op = "tclr1" /\ TestClrAt(i, c, m)
  \/ form.op = "or1" /\ OrBitAt(i, c, m)
  \/ form.op = "or1n" /\ OrNotBitAt(i, c, m)
  \/ form.op = "eor1" /\ EorBitAt(i, c, m)
  \/ form.op = "and1" /\ AndBitAt(i, c, m)
  \/ form.op = "and1n" /\ AndNotBitAt(i, c, m)
  \/ form.op = "mov1c" /\ LoadBitAt(i, c, m)
  \/ form.op = "mov1" /\ StoreBitAt(i, c, m)
  \/ form.op = "not1" /\ NotBitAt(i, c, m)
  \/ form.op \in {"bra", "bne", "beq", "bcc", "bcs"} /\ BranchAt(i, c, m)
  \/ form.op = "bbs" /\ BranchSetAt(i, c, m)
  \/ form.op = "bbc" /\ BranchClrAt(i, c, m)
  \/ form.op = "cbne" /\ BranchNeAt(i, c, m)
  \/ form.op = "cbnex" /\ BranchNeXAt(i, c, m)
  \/ form.op = "dbnz" /\ CountDownAt(i, c, m)
  \/ form.op = "dbnzy" /\ CountDownYAt(i, c, m)
  \/ form.op = "jmp" /\ JmpAt(i, c, m)
  \/ form.op = "jmpx" /\ JmpXAt(i, c, m)
  \/ form.op = "push" /\ PushAt(i, c, m)
  \/ form.op = "pushpsw" /\ PushFlagsAt(i, c, m)
  \/ form.op = "pop" /\ PopAt(i, c, m)
  \/ form.op = "poppsw" /\ PopFlagsAt(i, c, m)
  \/ form.op = "call" /\ CallAt(i, c, m)
  \/ form.op = "tcall" /\ TCallAt(i, c, m)
  \/ form.op = "pcall" /\ PCallAt(i, c, m)
  \/ form.op = "brk" /\ BrkAt(i, c, m)
  \/ form.op = "ret" /\ RetAt(i, c, m)
  \/ form.op = "reti" /\ RetIAt(i, c, m)

Midway(c, m) ==
  \/ form \in ModeForms /\ \E i : ModeAt(i, c, m)
  \/ form \in OtherForms /\ \E i : OtherAt(i, c, m)

(* Every operation is among these. *)
LEMMA OtherNames ==
  \A f \in OtherForms :
    f.op \in {"implied", "imm", "loadinc", "storeinc", "dpdp", "cmpdpdp",
              "movdpdp", "dpimm", "cmpdpimm", "movdpimm", "xy", "cmpxy",
              "word", "incw", "movw", "set1", "clr1", "tset1", "tclr1", "or1",
              "or1n", "eor1", "and1", "and1n", "mov1c", "mov1", "not1", "bra",
              "bne", "beq", "bcc", "bcs", "bbs", "bbc", "cbne", "cbnex",
              "dbnz", "dbnzy", "jmp", "jmpx", "push", "pushpsw", "pop",
              "poppsw", "call", "tcall", "pcall", "brk", "ret", "reti"}
BY DEF OtherForms, Others

(* A block takes an instruction with a mode on. *)
LEMMA ModeGoes ==
  ASSUME NEW c \in Cpu, NEW m \in Memory, NEW i, ModeAt(i, c, m), Block,
         form \in ModeForms
  PROVE  \E j : ModeAt(j, c, m)'
<1>k. form' = form
  BY BlockKeeps DEF Kept
<1>1. ASSUME form.mode = "dp", DpAt(i, c, m) PROVE \E j : ModeAt(j, c, m)'
  <2>1. (\E j : DpAt(j, c, m)') \/ AccessAt(0, c, m)'
    BY <1>1, DpGoes
  <2> QED BY <1>k, <1>1, <2>1 DEF ModeAt, Kept
<1>2. ASSUME form.mode = "abs", AbsAt(i, c, m) PROVE \E j : ModeAt(j, c, m)'
  <2>1. (\E j : AbsAt(j, c, m)') \/ AccessAt(0, c, m)'
    BY <1>2, AbsGoes
  <2> QED BY <1>k, <1>2, <2>1 DEF ModeAt, Kept
<1>3. ASSUME form.mode = "x", XAt(i, c, m) PROVE \E j : ModeAt(j, c, m)'
  <2>1. (\E j : XAt(j, c, m)') \/ AccessAt(0, c, m)'
    BY <1>3, XGoes
  <2> QED BY <1>k, <1>3, <2>1 DEF ModeAt, Kept
<1>4. ASSUME form.mode = "dpx", DpXAt(i, c, m) PROVE \E j : ModeAt(j, c, m)'
  <2>1. (\E j : DpXAt(j, c, m)') \/ AccessAt(0, c, m)'
    BY <1>4, DpXGoes
  <2> QED BY <1>k, <1>4, <2>1 DEF ModeAt, Kept
<1>5. ASSUME form.mode = "dpy", DpYAt(i, c, m) PROVE \E j : ModeAt(j, c, m)'
  <2>1. (\E j : DpYAt(j, c, m)') \/ AccessAt(0, c, m)'
    BY <1>5, DpYGoes
  <2> QED BY <1>k, <1>5, <2>1 DEF ModeAt, Kept
<1>6. ASSUME form.mode = "absx", AbsXAt(i, c, m) PROVE \E j : ModeAt(j, c, m)'
  <2>1. (\E j : AbsXAt(j, c, m)') \/ AccessAt(0, c, m)'
    BY <1>6, AbsXGoes
  <2> QED BY <1>k, <1>6, <2>1 DEF ModeAt, Kept
<1>7. ASSUME form.mode = "absy", AbsYAt(i, c, m) PROVE \E j : ModeAt(j, c, m)'
  <2>1. (\E j : AbsYAt(j, c, m)') \/ AccessAt(0, c, m)'
    BY <1>7, AbsYGoes
  <2> QED BY <1>k, <1>7, <2>1 DEF ModeAt, Kept
<1>8. ASSUME form.mode = "dpxi", PtrXAt(i, c, m) PROVE \E j : ModeAt(j, c, m)'
  <2>1. (\E j : PtrXAt(j, c, m)') \/ AccessAt(0, c, m)'
    BY <1>8, PtrXGoes
  <2> QED BY <1>k, <1>8, <2>1 DEF ModeAt, Kept
<1>9. ASSUME form.mode = "dpiy", PtrYAt(i, c, m) PROVE \E j : ModeAt(j, c, m)'
  <2>1. (\E j : PtrYAt(j, c, m)') \/ AccessAt(0, c, m)'
    BY <1>9, PtrYGoes
  <2> QED BY <1>k, <1>9, <2>1 DEF ModeAt, Kept
<1>10. ASSUME AccessAt(i, c, m) PROVE \E j : ModeAt(j, c, m)'
  <2>1. \E j : AccessAt(j, c, m)'
    BY <1>10, AccessGoes
  <2> QED BY <2>1 DEF ModeAt
<1> QED
  BY <1>1, <1>2, <1>3, <1>4, <1>5, <1>6, <1>7, <1>8, <1>9, <1>10
     DEF ModeAt

(* And any other. *)
LEMMA OtherGoes ==
  ASSUME NEW c \in Cpu, NEW m \in Memory, NEW i, OtherAt(i, c, m), Block,
         form \in OtherForms
  PROVE  \E j : OtherAt(j, c, m)'
<1>k. form' = form
  BY BlockKeeps DEF Kept
<1>1. ASSUME form.op = "implied", ImpliedAt(i, c, m) PROVE \E j : OtherAt(j, c, m)'
  <2>1. \E j : ImpliedAt(j, c, m)'
    BY <1>1, ImpliedGoes
  <2> QED BY <1>k, <1>1, <2>1 DEF OtherAt
<1>2. ASSUME form.op = "imm", ImmAt(i, c, m) PROVE \E j : OtherAt(j, c, m)'
  <2>1. \E j : ImmAt(j, c, m)'
    BY <1>2, ImmGoes
  <2> QED BY <1>k, <1>2, <2>1 DEF OtherAt
<1>3. ASSUME form.op = "loadinc", LoadIncAt(i, c, m) PROVE \E j : OtherAt(j, c, m)'
  <2>1. \E j : LoadIncAt(j, c, m)'
    BY <1>3, LoadIncGoes
  <2> QED BY <1>k, <1>3, <2>1 DEF OtherAt
<1>4. ASSUME form.op = "storeinc", StoreIncAt(i, c, m) PROVE \E j : OtherAt(j, c, m)'
  <2>1. \E j : StoreIncAt(j, c, m)'
    BY <1>4, StoreIncGoes
  <2> QED BY <1>k, <1>4, <2>1 DEF OtherAt
<1>5. ASSUME form.op = "dpdp", DpDpAt(i, c, m) PROVE \E j : OtherAt(j, c, m)'
  <2>1. \E j : DpDpAt(j, c, m)'
    BY <1>5, DpDpGoes
  <2> QED BY <1>k, <1>5, <2>1 DEF OtherAt
<1>6. ASSUME form.op = "cmpdpdp", CmpDpDpAt(i, c, m) PROVE \E j : OtherAt(j, c, m)'
  <2>1. \E j : CmpDpDpAt(j, c, m)'
    BY <1>6, CmpDpDpGoes
  <2> QED BY <1>k, <1>6, <2>1 DEF OtherAt
<1>7. ASSUME form.op = "movdpdp", MovDpDpAt(i, c, m) PROVE \E j : OtherAt(j, c, m)'
  <2>1. \E j : MovDpDpAt(j, c, m)'
    BY <1>7, MovDpDpGoes
  <2> QED BY <1>k, <1>7, <2>1 DEF OtherAt
<1>8. ASSUME form.op = "dpimm", DpImmAt(i, c, m) PROVE \E j : OtherAt(j, c, m)'
  <2>1. \E j : DpImmAt(j, c, m)'
    BY <1>8, DpImmGoes
  <2> QED BY <1>k, <1>8, <2>1 DEF OtherAt
<1>9. ASSUME form.op = "cmpdpimm", CmpDpImmAt(i, c, m) PROVE \E j : OtherAt(j, c, m)'
  <2>1. \E j : CmpDpImmAt(j, c, m)'
    BY <1>9, CmpDpImmGoes
  <2> QED BY <1>k, <1>9, <2>1 DEF OtherAt
<1>10. ASSUME form.op = "movdpimm", MovDpImmAt(i, c, m) PROVE \E j : OtherAt(j, c, m)'
  <2>1. \E j : MovDpImmAt(j, c, m)'
    BY <1>10, MovDpImmGoes
  <2> QED BY <1>k, <1>10, <2>1 DEF OtherAt
<1>11. ASSUME form.op = "xy", XYAt(i, c, m) PROVE \E j : OtherAt(j, c, m)'
  <2>1. \E j : XYAt(j, c, m)'
    BY <1>11, XYGoes
  <2> QED BY <1>k, <1>11, <2>1 DEF OtherAt
<1>12. ASSUME form.op = "cmpxy", CmpXYAt(i, c, m) PROVE \E j : OtherAt(j, c, m)'
  <2>1. \E j : CmpXYAt(j, c, m)'
    BY <1>12, CmpXYGoes
  <2> QED BY <1>k, <1>12, <2>1 DEF OtherAt
<1>13. ASSUME form.op = "word", LoadWordAt(i, c, m) PROVE \E j : OtherAt(j, c, m)'
  <2>1. \E j : LoadWordAt(j, c, m)'
    BY <1>13, LoadWordGoes
  <2> QED BY <1>k, <1>13, <2>1 DEF OtherAt
<1>14. ASSUME form.op = "incw", IncWAt(i, c, m) PROVE \E j : OtherAt(j, c, m)'
  <2>1. \E j : IncWAt(j, c, m)'
    BY <1>14, IncWGoes
  <2> QED BY <1>k, <1>14, <2>1 DEF OtherAt
<1>15. ASSUME form.op = "movw", MovWAt(i, c, m) PROVE \E j : OtherAt(j, c, m)'
  <2>1. \E j : MovWAt(j, c, m)'
    BY <1>15, MovWGoes
  <2> QED BY <1>k, <1>15, <2>1 DEF OtherAt
<1>16. ASSUME form.op = "set1", SetBitAt(i, c, m) PROVE \E j : OtherAt(j, c, m)'
  <2>1. \E j : SetBitAt(j, c, m)'
    BY <1>16, SetBitGoes
  <2> QED BY <1>k, <1>16, <2>1 DEF OtherAt
<1>17. ASSUME form.op = "clr1", ClrBitAt(i, c, m) PROVE \E j : OtherAt(j, c, m)'
  <2>1. \E j : ClrBitAt(j, c, m)'
    BY <1>17, ClrBitGoes
  <2> QED BY <1>k, <1>17, <2>1 DEF OtherAt
<1>18. ASSUME form.op = "tset1", TestSetAt(i, c, m) PROVE \E j : OtherAt(j, c, m)'
  <2>1. \E j : TestSetAt(j, c, m)'
    BY <1>18, TestSetGoes
  <2> QED BY <1>k, <1>18, <2>1 DEF OtherAt
<1>19. ASSUME form.op = "tclr1", TestClrAt(i, c, m) PROVE \E j : OtherAt(j, c, m)'
  <2>1. \E j : TestClrAt(j, c, m)'
    BY <1>19, TestClrGoes
  <2> QED BY <1>k, <1>19, <2>1 DEF OtherAt
<1>20. ASSUME form.op = "or1", OrBitAt(i, c, m) PROVE \E j : OtherAt(j, c, m)'
  <2>1. \E j : OrBitAt(j, c, m)'
    BY <1>20, OrBitGoes
  <2> QED BY <1>k, <1>20, <2>1 DEF OtherAt
<1>21. ASSUME form.op = "or1n", OrNotBitAt(i, c, m) PROVE \E j : OtherAt(j, c, m)'
  <2>1. \E j : OrNotBitAt(j, c, m)'
    BY <1>21, OrNotBitGoes
  <2> QED BY <1>k, <1>21, <2>1 DEF OtherAt
<1>22. ASSUME form.op = "eor1", EorBitAt(i, c, m) PROVE \E j : OtherAt(j, c, m)'
  <2>1. \E j : EorBitAt(j, c, m)'
    BY <1>22, EorBitGoes
  <2> QED BY <1>k, <1>22, <2>1 DEF OtherAt
<1>23. ASSUME form.op = "and1", AndBitAt(i, c, m) PROVE \E j : OtherAt(j, c, m)'
  <2>1. \E j : AndBitAt(j, c, m)'
    BY <1>23, AndBitGoes
  <2> QED BY <1>k, <1>23, <2>1 DEF OtherAt
<1>24. ASSUME form.op = "and1n", AndNotBitAt(i, c, m) PROVE \E j : OtherAt(j, c, m)'
  <2>1. \E j : AndNotBitAt(j, c, m)'
    BY <1>24, AndNotBitGoes
  <2> QED BY <1>k, <1>24, <2>1 DEF OtherAt
<1>25. ASSUME form.op = "mov1c", LoadBitAt(i, c, m) PROVE \E j : OtherAt(j, c, m)'
  <2>1. \E j : LoadBitAt(j, c, m)'
    BY <1>25, LoadBitGoes
  <2> QED BY <1>k, <1>25, <2>1 DEF OtherAt
<1>26. ASSUME form.op = "mov1", StoreBitAt(i, c, m) PROVE \E j : OtherAt(j, c, m)'
  <2>1. \E j : StoreBitAt(j, c, m)'
    BY <1>26, StoreBitGoes
  <2> QED BY <1>k, <1>26, <2>1 DEF OtherAt
<1>27. ASSUME form.op = "not1", NotBitAt(i, c, m) PROVE \E j : OtherAt(j, c, m)'
  <2>1. \E j : NotBitAt(j, c, m)'
    BY <1>27, NotBitGoes
  <2> QED BY <1>k, <1>27, <2>1 DEF OtherAt
<1>28. ASSUME form.op \in {"bra", "bne", "beq", "bcc", "bcs"}, BranchAt(i, c,
    m) PROVE \E j : OtherAt(j, c, m)'
  <2>1. \E j : BranchAt(j, c, m)'
    BY <1>28, BranchGoes
  <2> QED BY <1>k, <1>28, <2>1 DEF OtherAt
<1>29. ASSUME form.op = "bbs", BranchSetAt(i, c, m) PROVE \E j : OtherAt(j, c, m)'
  <2>1. \E j : BranchSetAt(j, c, m)'
    BY <1>29, BranchSetGoes
  <2> QED BY <1>k, <1>29, <2>1 DEF OtherAt
<1>30. ASSUME form.op = "bbc", BranchClrAt(i, c, m) PROVE \E j : OtherAt(j, c, m)'
  <2>1. \E j : BranchClrAt(j, c, m)'
    BY <1>30, BranchClrGoes
  <2> QED BY <1>k, <1>30, <2>1 DEF OtherAt
<1>31. ASSUME form.op = "cbne", BranchNeAt(i, c, m) PROVE \E j : OtherAt(j, c, m)'
  <2>1. \E j : BranchNeAt(j, c, m)'
    BY <1>31, BranchNeGoes
  <2> QED BY <1>k, <1>31, <2>1 DEF OtherAt
<1>32. ASSUME form.op = "cbnex", BranchNeXAt(i, c, m) PROVE \E j : OtherAt(j, c, m)'
  <2>1. \E j : BranchNeXAt(j, c, m)'
    BY <1>32, BranchNeXGoes
  <2> QED BY <1>k, <1>32, <2>1 DEF OtherAt
<1>33. ASSUME form.op = "dbnz", CountDownAt(i, c, m) PROVE \E j : OtherAt(j, c, m)'
  <2>1. \E j : CountDownAt(j, c, m)'
    BY <1>33, CountDownGoes
  <2> QED BY <1>k, <1>33, <2>1 DEF OtherAt
<1>34. ASSUME form.op = "dbnzy", CountDownYAt(i, c, m) PROVE \E j : OtherAt(j, c, m)'
  <2>1. \E j : CountDownYAt(j, c, m)'
    BY <1>34, CountDownYGoes
  <2> QED BY <1>k, <1>34, <2>1 DEF OtherAt
<1>35. ASSUME form.op = "jmp", JmpAt(i, c, m) PROVE \E j : OtherAt(j, c, m)'
  <2>1. \E j : JmpAt(j, c, m)'
    BY <1>35, JmpGoes
  <2> QED BY <1>k, <1>35, <2>1 DEF OtherAt
<1>36. ASSUME form.op = "jmpx", JmpXAt(i, c, m) PROVE \E j : OtherAt(j, c, m)'
  <2>1. \E j : JmpXAt(j, c, m)'
    BY <1>36, JmpXGoes
  <2> QED BY <1>k, <1>36, <2>1 DEF OtherAt
<1>37. ASSUME form.op = "push", PushAt(i, c, m) PROVE \E j : OtherAt(j, c, m)'
  <2>1. \E j : PushAt(j, c, m)'
    BY <1>37, PushGoes
  <2> QED BY <1>k, <1>37, <2>1 DEF OtherAt
<1>38. ASSUME form.op = "pushpsw", PushFlagsAt(i, c, m) PROVE \E j : OtherAt(j, c, m)'
  <2>1. \E j : PushFlagsAt(j, c, m)'
    BY <1>38, PushFlagsGoes
  <2> QED BY <1>k, <1>38, <2>1 DEF OtherAt
<1>39. ASSUME form.op = "pop", PopAt(i, c, m) PROVE \E j : OtherAt(j, c, m)'
  <2>1. \E j : PopAt(j, c, m)'
    BY <1>39, PopGoes
  <2> QED BY <1>k, <1>39, <2>1 DEF OtherAt
<1>40. ASSUME form.op = "poppsw", PopFlagsAt(i, c, m) PROVE \E j : OtherAt(j, c, m)'
  <2>1. \E j : PopFlagsAt(j, c, m)'
    BY <1>40, PopFlagsGoes
  <2> QED BY <1>k, <1>40, <2>1 DEF OtherAt
<1>41. ASSUME form.op = "call", CallAt(i, c, m) PROVE \E j : OtherAt(j, c, m)'
  <2>1. \E j : CallAt(j, c, m)'
    BY <1>41, CallGoes
  <2> QED BY <1>k, <1>41, <2>1 DEF OtherAt
<1>42. ASSUME form.op = "tcall", TCallAt(i, c, m) PROVE \E j : OtherAt(j, c, m)'
  <2>1. \E j : TCallAt(j, c, m)'
    BY <1>42, TCallGoes
  <2> QED BY <1>k, <1>42, <2>1 DEF OtherAt
<1>43. ASSUME form.op = "pcall", PCallAt(i, c, m) PROVE \E j : OtherAt(j, c, m)'
  <2>1. \E j : PCallAt(j, c, m)'
    BY <1>43, PCallGoes
  <2> QED BY <1>k, <1>43, <2>1 DEF OtherAt
<1>44. ASSUME form.op = "brk", BrkAt(i, c, m) PROVE \E j : OtherAt(j, c, m)'
  <2>1. \E j : BrkAt(j, c, m)'
    BY <1>44, BrkGoes
  <2> QED BY <1>k, <1>44, <2>1 DEF OtherAt
<1>45. ASSUME form.op = "ret", RetAt(i, c, m) PROVE \E j : OtherAt(j, c, m)'
  <2>1. \E j : RetAt(j, c, m)'
    BY <1>45, RetGoes
  <2> QED BY <1>k, <1>45, <2>1 DEF OtherAt
<1>46. ASSUME form.op = "reti", RetIAt(i, c, m) PROVE \E j : OtherAt(j, c, m)'
  <2>1. \E j : RetIAt(j, c, m)'
    BY <1>46, RetIGoes
  <2> QED BY <1>k, <1>46, <2>1 DEF OtherAt
<1> QED
  BY <1>1, <1>2, <1>3, <1>4, <1>5, <1>6, <1>7, <1>8, <1>9, <1>10, <1>11,
     <1>12, <1>13, <1>14, <1>15, <1>16, <1>17, <1>18, <1>19, <1>20, <1>21,
     <1>22, <1>23, <1>24, <1>25, <1>26, <1>27, <1>28, <1>29, <1>30, <1>31,
     <1>32, <1>33, <1>34, <1>35, <1>36, <1>37, <1>38, <1>39, <1>40, <1>41,
     <1>42, <1>43, <1>44, <1>45, <1>46, ZenonT(30)
     DEF OtherAt

(* A sample of the echo elsewhere leaves it where it was, over the new memory. *)
LEMMA ModeStays ==
  ASSUME NEW c \in Cpu, NEW m \in Memory, NEW i, ModeAt(i, c, m),
         NEW cell, NEW echo, Stray(cell, echo), form \in ModeForms
  PROVE  ModeAt(i, c, Set(m, cell, echo))'
<1>k. form' = form
  BY DEF Stray
<1>1. ASSUME form.mode = "dp", DpAt(i, c, m)
      PROVE  (form.mode = "dp" /\ DpAt(i, c, Set(m, cell, echo)))'
  BY <1>k, <1>1, DpStays
<1>2. ASSUME form.mode = "abs", AbsAt(i, c, m)
      PROVE  (form.mode = "abs" /\ AbsAt(i, c, Set(m, cell, echo)))'
  BY <1>k, <1>2, AbsStays
<1>3. ASSUME form.mode = "x", XAt(i, c, m)
      PROVE  (form.mode = "x" /\ XAt(i, c, Set(m, cell, echo)))'
  BY <1>k, <1>3, XStays
<1>4. ASSUME form.mode = "dpx", DpXAt(i, c, m)
      PROVE  (form.mode = "dpx" /\ DpXAt(i, c, Set(m, cell, echo)))'
  BY <1>k, <1>4, DpXStays
<1>5. ASSUME form.mode = "dpy", DpYAt(i, c, m)
      PROVE  (form.mode = "dpy" /\ DpYAt(i, c, Set(m, cell, echo)))'
  BY <1>k, <1>5, DpYStays
<1>6. ASSUME form.mode = "absx", AbsXAt(i, c, m)
      PROVE  (form.mode = "absx" /\ AbsXAt(i, c, Set(m, cell, echo)))'
  BY <1>k, <1>6, AbsXStays
<1>7. ASSUME form.mode = "absy", AbsYAt(i, c, m)
      PROVE  (form.mode = "absy" /\ AbsYAt(i, c, Set(m, cell, echo)))'
  BY <1>k, <1>7, AbsYStays
<1>8. ASSUME form.mode = "dpxi", PtrXAt(i, c, m)
      PROVE  (form.mode = "dpxi" /\ PtrXAt(i, c, Set(m, cell, echo)))'
  BY <1>k, <1>8, PtrXStays
<1>9. ASSUME form.mode = "dpiy", PtrYAt(i, c, m)
      PROVE  (form.mode = "dpiy" /\ PtrYAt(i, c, Set(m, cell, echo)))'
  BY <1>k, <1>9, PtrYStays
<1>10. ASSUME AccessAt(i, c, m) PROVE AccessAt(i, c, Set(m, cell, echo))'
  BY <1>10, AccessStays
<1> QED
  BY <1>1, <1>2, <1>3, <1>4, <1>5, <1>6, <1>7, <1>8, <1>9, <1>10
     DEF ModeAt

(* A sample of the echo elsewhere leaves it where it was, over the new memory. *)
LEMMA OtherStays ==
  ASSUME NEW c \in Cpu, NEW m \in Memory, NEW i, OtherAt(i, c, m),
         NEW cell, NEW echo, Stray(cell, echo), form \in OtherForms
  PROVE  OtherAt(i, c, Set(m, cell, echo))'
<1>k. form' = form
  BY DEF Stray
<1>1. ASSUME form.op = "implied", ImpliedAt(i, c, m)
      PROVE  (form.op = "implied" /\ ImpliedAt(i, c, Set(m, cell, echo)))'
  BY <1>k, <1>1, ImpliedStays
<1>2. ASSUME form.op = "imm", ImmAt(i, c, m)
      PROVE  (form.op = "imm" /\ ImmAt(i, c, Set(m, cell, echo)))'
  BY <1>k, <1>2, ImmStays
<1>3. ASSUME form.op = "loadinc", LoadIncAt(i, c, m)
      PROVE  (form.op = "loadinc" /\ LoadIncAt(i, c, Set(m, cell, echo)))'
  BY <1>k, <1>3, LoadIncStays
<1>4. ASSUME form.op = "storeinc", StoreIncAt(i, c, m)
      PROVE  (form.op = "storeinc" /\ StoreIncAt(i, c, Set(m, cell, echo)))'
  BY <1>k, <1>4, StoreIncStays
<1>5. ASSUME form.op = "dpdp", DpDpAt(i, c, m)
      PROVE  (form.op = "dpdp" /\ DpDpAt(i, c, Set(m, cell, echo)))'
  BY <1>k, <1>5, DpDpStays
<1>6. ASSUME form.op = "cmpdpdp", CmpDpDpAt(i, c, m)
      PROVE  (form.op = "cmpdpdp" /\ CmpDpDpAt(i, c, Set(m, cell, echo)))'
  BY <1>k, <1>6, CmpDpDpStays
<1>7. ASSUME form.op = "movdpdp", MovDpDpAt(i, c, m)
      PROVE  (form.op = "movdpdp" /\ MovDpDpAt(i, c, Set(m, cell, echo)))'
  BY <1>k, <1>7, MovDpDpStays
<1>8. ASSUME form.op = "dpimm", DpImmAt(i, c, m)
      PROVE  (form.op = "dpimm" /\ DpImmAt(i, c, Set(m, cell, echo)))'
  BY <1>k, <1>8, DpImmStays
<1>9. ASSUME form.op = "cmpdpimm", CmpDpImmAt(i, c, m)
      PROVE  (form.op = "cmpdpimm" /\ CmpDpImmAt(i, c, Set(m, cell, echo)))'
  BY <1>k, <1>9, CmpDpImmStays
<1>10. ASSUME form.op = "movdpimm", MovDpImmAt(i, c, m)
      PROVE  (form.op = "movdpimm" /\ MovDpImmAt(i, c, Set(m, cell, echo)))'
  BY <1>k, <1>10, MovDpImmStays
<1>11. ASSUME form.op = "xy", XYAt(i, c, m)
      PROVE  (form.op = "xy" /\ XYAt(i, c, Set(m, cell, echo)))'
  BY <1>k, <1>11, XYStays
<1>12. ASSUME form.op = "cmpxy", CmpXYAt(i, c, m)
      PROVE  (form.op = "cmpxy" /\ CmpXYAt(i, c, Set(m, cell, echo)))'
  BY <1>k, <1>12, CmpXYStays
<1>13. ASSUME form.op = "word", LoadWordAt(i, c, m)
      PROVE  (form.op = "word" /\ LoadWordAt(i, c, Set(m, cell, echo)))'
  BY <1>k, <1>13, LoadWordStays
<1>14. ASSUME form.op = "incw", IncWAt(i, c, m)
      PROVE  (form.op = "incw" /\ IncWAt(i, c, Set(m, cell, echo)))'
  BY <1>k, <1>14, IncWStays
<1>15. ASSUME form.op = "movw", MovWAt(i, c, m)
      PROVE  (form.op = "movw" /\ MovWAt(i, c, Set(m, cell, echo)))'
  BY <1>k, <1>15, MovWStays
<1>16. ASSUME form.op = "set1", SetBitAt(i, c, m)
      PROVE  (form.op = "set1" /\ SetBitAt(i, c, Set(m, cell, echo)))'
  BY <1>k, <1>16, SetBitStays
<1>17. ASSUME form.op = "clr1", ClrBitAt(i, c, m)
      PROVE  (form.op = "clr1" /\ ClrBitAt(i, c, Set(m, cell, echo)))'
  BY <1>k, <1>17, ClrBitStays
<1>18. ASSUME form.op = "tset1", TestSetAt(i, c, m)
      PROVE  (form.op = "tset1" /\ TestSetAt(i, c, Set(m, cell, echo)))'
  BY <1>k, <1>18, TestSetStays
<1>19. ASSUME form.op = "tclr1", TestClrAt(i, c, m)
      PROVE  (form.op = "tclr1" /\ TestClrAt(i, c, Set(m, cell, echo)))'
  BY <1>k, <1>19, TestClrStays
<1>20. ASSUME form.op = "or1", OrBitAt(i, c, m)
      PROVE  (form.op = "or1" /\ OrBitAt(i, c, Set(m, cell, echo)))'
  BY <1>k, <1>20, OrBitStays
<1>21. ASSUME form.op = "or1n", OrNotBitAt(i, c, m)
      PROVE  (form.op = "or1n" /\ OrNotBitAt(i, c, Set(m, cell, echo)))'
  BY <1>k, <1>21, OrNotBitStays
<1>22. ASSUME form.op = "eor1", EorBitAt(i, c, m)
      PROVE  (form.op = "eor1" /\ EorBitAt(i, c, Set(m, cell, echo)))'
  BY <1>k, <1>22, EorBitStays
<1>23. ASSUME form.op = "and1", AndBitAt(i, c, m)
      PROVE  (form.op = "and1" /\ AndBitAt(i, c, Set(m, cell, echo)))'
  BY <1>k, <1>23, AndBitStays
<1>24. ASSUME form.op = "and1n", AndNotBitAt(i, c, m)
      PROVE  (form.op = "and1n" /\ AndNotBitAt(i, c, Set(m, cell, echo)))'
  BY <1>k, <1>24, AndNotBitStays
<1>25. ASSUME form.op = "mov1c", LoadBitAt(i, c, m)
      PROVE  (form.op = "mov1c" /\ LoadBitAt(i, c, Set(m, cell, echo)))'
  BY <1>k, <1>25, LoadBitStays
<1>26. ASSUME form.op = "mov1", StoreBitAt(i, c, m)
      PROVE  (form.op = "mov1" /\ StoreBitAt(i, c, Set(m, cell, echo)))'
  BY <1>k, <1>26, StoreBitStays
<1>27. ASSUME form.op = "not1", NotBitAt(i, c, m)
      PROVE  (form.op = "not1" /\ NotBitAt(i, c, Set(m, cell, echo)))'
  BY <1>k, <1>27, NotBitStays
<1>28. ASSUME form.op \in {"bra", "bne", "beq", "bcc", "bcs"}, BranchAt(i, c, m)
      PROVE  (form.op \in {"bra", "bne", "beq", "bcc", "bcs"} /\ BranchAt(i, c, Set(m, cell,
          echo)))'
  BY <1>k, <1>28, BranchStays
<1>29. ASSUME form.op = "bbs", BranchSetAt(i, c, m)
      PROVE  (form.op = "bbs" /\ BranchSetAt(i, c, Set(m, cell, echo)))'
  BY <1>k, <1>29, BranchSetStays
<1>30. ASSUME form.op = "bbc", BranchClrAt(i, c, m)
      PROVE  (form.op = "bbc" /\ BranchClrAt(i, c, Set(m, cell, echo)))'
  BY <1>k, <1>30, BranchClrStays
<1>31. ASSUME form.op = "cbne", BranchNeAt(i, c, m)
      PROVE  (form.op = "cbne" /\ BranchNeAt(i, c, Set(m, cell, echo)))'
  BY <1>k, <1>31, BranchNeStays
<1>32. ASSUME form.op = "cbnex", BranchNeXAt(i, c, m)
      PROVE  (form.op = "cbnex" /\ BranchNeXAt(i, c, Set(m, cell, echo)))'
  BY <1>k, <1>32, BranchNeXStays
<1>33. ASSUME form.op = "dbnz", CountDownAt(i, c, m)
      PROVE  (form.op = "dbnz" /\ CountDownAt(i, c, Set(m, cell, echo)))'
  BY <1>k, <1>33, CountDownStays
<1>34. ASSUME form.op = "dbnzy", CountDownYAt(i, c, m)
      PROVE  (form.op = "dbnzy" /\ CountDownYAt(i, c, Set(m, cell, echo)))'
  BY <1>k, <1>34, CountDownYStays
<1>35. ASSUME form.op = "jmp", JmpAt(i, c, m)
      PROVE  (form.op = "jmp" /\ JmpAt(i, c, Set(m, cell, echo)))'
  BY <1>k, <1>35, JmpStays
<1>36. ASSUME form.op = "jmpx", JmpXAt(i, c, m)
      PROVE  (form.op = "jmpx" /\ JmpXAt(i, c, Set(m, cell, echo)))'
  BY <1>k, <1>36, JmpXStays
<1>37. ASSUME form.op = "push", PushAt(i, c, m)
      PROVE  (form.op = "push" /\ PushAt(i, c, Set(m, cell, echo)))'
  BY <1>k, <1>37, PushStays
<1>38. ASSUME form.op = "pushpsw", PushFlagsAt(i, c, m)
      PROVE  (form.op = "pushpsw" /\ PushFlagsAt(i, c, Set(m, cell, echo)))'
  BY <1>k, <1>38, PushFlagsStays
<1>39. ASSUME form.op = "pop", PopAt(i, c, m)
      PROVE  (form.op = "pop" /\ PopAt(i, c, Set(m, cell, echo)))'
  BY <1>k, <1>39, PopStays
<1>40. ASSUME form.op = "poppsw", PopFlagsAt(i, c, m)
      PROVE  (form.op = "poppsw" /\ PopFlagsAt(i, c, Set(m, cell, echo)))'
  BY <1>k, <1>40, PopFlagsStays
<1>41. ASSUME form.op = "call", CallAt(i, c, m)
      PROVE  (form.op = "call" /\ CallAt(i, c, Set(m, cell, echo)))'
  BY <1>k, <1>41, CallStays
<1>42. ASSUME form.op = "tcall", TCallAt(i, c, m)
      PROVE  (form.op = "tcall" /\ TCallAt(i, c, Set(m, cell, echo)))'
  BY <1>k, <1>42, TCallStays
<1>43. ASSUME form.op = "pcall", PCallAt(i, c, m)
      PROVE  (form.op = "pcall" /\ PCallAt(i, c, Set(m, cell, echo)))'
  BY <1>k, <1>43, PCallStays
<1>44. ASSUME form.op = "brk", BrkAt(i, c, m)
      PROVE  (form.op = "brk" /\ BrkAt(i, c, Set(m, cell, echo)))'
  BY <1>k, <1>44, BrkStays
<1>45. ASSUME form.op = "ret", RetAt(i, c, m)
      PROVE  (form.op = "ret" /\ RetAt(i, c, Set(m, cell, echo)))'
  BY <1>k, <1>45, RetStays
<1>46. ASSUME form.op = "reti", RetIAt(i, c, m)
      PROVE  (form.op = "reti" /\ RetIAt(i, c, Set(m, cell, echo)))'
  BY <1>k, <1>46, RetIStays
<1> QED
  BY <1>1, <1>2, <1>3, <1>4, <1>5, <1>6, <1>7, <1>8, <1>9, <1>10, <1>11,
     <1>12, <1>13, <1>14, <1>15, <1>16, <1>17, <1>18, <1>19, <1>20, <1>21,
     <1>22, <1>23, <1>24, <1>25, <1>26, <1>27, <1>28, <1>29, <1>30, <1>31,
     <1>32, <1>33, <1>34, <1>35, <1>36, <1>37, <1>38, <1>39, <1>40, <1>41,
     <1>42, <1>43, <1>44, <1>45, <1>46
     DEF OtherAt

(* Nothing happens to it when nothing happens. *)
LEMMA ModeWaits ==
  ASSUME NEW c, NEW m, NEW i, ModeAt(i, c, m), UNCHANGED <<cpu, ram, tmp, form, todo, seen>>
  PROVE  ModeAt(i, c, m)'
<1>1. ASSUME form.mode = "dp", DpAt(i, c, m) PROVE (form.mode = "dp" /\ DpAt(i, c, m))'
  BY <1>1 DEF DpAt, Now
<1>2. ASSUME form.mode = "abs", AbsAt(i, c, m) PROVE (form.mode = "abs" /\ AbsAt(i, c, m))'
  BY <1>2 DEF AbsAt, Now
<1>3. ASSUME form.mode = "x", XAt(i, c, m) PROVE (form.mode = "x" /\ XAt(i, c, m))'
  BY <1>3 DEF XAt, Now
<1>4. ASSUME form.mode = "dpx", DpXAt(i, c, m) PROVE (form.mode = "dpx" /\ DpXAt(i, c, m))'
  BY <1>4 DEF DpXAt, Now
<1>5. ASSUME form.mode = "dpy", DpYAt(i, c, m) PROVE (form.mode = "dpy" /\ DpYAt(i, c, m))'
  BY <1>5 DEF DpYAt, Now
<1>6. ASSUME form.mode = "absx", AbsXAt(i, c, m) PROVE (form.mode =
    "absx" /\ AbsXAt(i, c, m))'
  BY <1>6 DEF AbsXAt, Now
<1>7. ASSUME form.mode = "absy", AbsYAt(i, c, m) PROVE (form.mode =
    "absy" /\ AbsYAt(i, c, m))'
  BY <1>7 DEF AbsYAt, Now
<1>8. ASSUME form.mode = "dpxi", PtrXAt(i, c, m) PROVE (form.mode =
    "dpxi" /\ PtrXAt(i, c, m))'
  BY <1>8 DEF PtrXAt, Now
<1>9. ASSUME form.mode = "dpiy", PtrYAt(i, c, m) PROVE (form.mode =
    "dpiy" /\ PtrYAt(i, c, m))'
  BY <1>9 DEF PtrYAt, Now
<1>10. ASSUME AccessAt(i, c, m) PROVE AccessAt(i, c, m)'
  BY <1>10 DEF AccessAt, Now
<1> QED
  BY <1>1, <1>2, <1>3, <1>4, <1>5, <1>6, <1>7, <1>8, <1>9, <1>10
     DEF ModeAt

LEMMA OtherWaits ==
  ASSUME NEW c, NEW m, NEW i, OtherAt(i, c, m), UNCHANGED <<cpu, ram, tmp, form, todo, seen>>
  PROVE  OtherAt(i, c, m)'
<1>1. ASSUME form.op = "implied", ImpliedAt(i, c, m) PROVE (form.op =
    "implied" /\ ImpliedAt(i, c, m))'
  BY <1>1 DEF ImpliedAt, Now
<1>2. ASSUME form.op = "imm", ImmAt(i, c, m) PROVE (form.op = "imm" /\ ImmAt(i, c, m))'
  BY <1>2 DEF ImmAt, Now
<1>3. ASSUME form.op = "loadinc", LoadIncAt(i, c, m) PROVE (form.op =
    "loadinc" /\ LoadIncAt(i, c, m))'
  BY <1>3 DEF LoadIncAt, Now
<1>4. ASSUME form.op = "storeinc", StoreIncAt(i, c, m) PROVE (form.op =
    "storeinc" /\ StoreIncAt(i, c, m))'
  BY <1>4 DEF StoreIncAt, Now
<1>5. ASSUME form.op = "dpdp", DpDpAt(i, c, m) PROVE (form.op = "dpdp" /\ DpDpAt(i, c, m))'
  BY <1>5 DEF DpDpAt, Now
<1>6. ASSUME form.op = "cmpdpdp", CmpDpDpAt(i, c, m) PROVE (form.op =
    "cmpdpdp" /\ CmpDpDpAt(i, c, m))'
  BY <1>6 DEF CmpDpDpAt, Now
<1>7. ASSUME form.op = "movdpdp", MovDpDpAt(i, c, m) PROVE (form.op =
    "movdpdp" /\ MovDpDpAt(i, c, m))'
  BY <1>7 DEF MovDpDpAt, Now
<1>8. ASSUME form.op = "dpimm", DpImmAt(i, c, m) PROVE (form.op =
    "dpimm" /\ DpImmAt(i, c, m))'
  BY <1>8 DEF DpImmAt, Now
<1>9. ASSUME form.op = "cmpdpimm", CmpDpImmAt(i, c, m) PROVE (form.op =
    "cmpdpimm" /\ CmpDpImmAt(i, c, m))'
  BY <1>9 DEF CmpDpImmAt, Now
<1>10. ASSUME form.op = "movdpimm", MovDpImmAt(i, c, m) PROVE (form.op =
    "movdpimm" /\ MovDpImmAt(i, c, m))'
  BY <1>10 DEF MovDpImmAt, Now
<1>11. ASSUME form.op = "xy", XYAt(i, c, m) PROVE (form.op = "xy" /\ XYAt(i, c, m))'
  BY <1>11 DEF XYAt, Now
<1>12. ASSUME form.op = "cmpxy", CmpXYAt(i, c, m) PROVE (form.op =
    "cmpxy" /\ CmpXYAt(i, c, m))'
  BY <1>12 DEF CmpXYAt, Now
<1>13. ASSUME form.op = "word", LoadWordAt(i, c, m) PROVE (form.op =
    "word" /\ LoadWordAt(i, c, m))'
  BY <1>13 DEF LoadWordAt, Now
<1>14. ASSUME form.op = "incw", IncWAt(i, c, m) PROVE (form.op = "incw" /\ IncWAt(i, c, m))'
  BY <1>14 DEF IncWAt, Now
<1>15. ASSUME form.op = "movw", MovWAt(i, c, m) PROVE (form.op = "movw" /\ MovWAt(i, c, m))'
  BY <1>15 DEF MovWAt, Now
<1>16. ASSUME form.op = "set1", SetBitAt(i, c, m) PROVE (form.op =
    "set1" /\ SetBitAt(i, c, m))'
  BY <1>16 DEF SetBitAt, Now
<1>17. ASSUME form.op = "clr1", ClrBitAt(i, c, m) PROVE (form.op =
    "clr1" /\ ClrBitAt(i, c, m))'
  BY <1>17 DEF ClrBitAt, Now
<1>18. ASSUME form.op = "tset1", TestSetAt(i, c, m) PROVE (form.op =
    "tset1" /\ TestSetAt(i, c, m))'
  BY <1>18 DEF TestSetAt, Now
<1>19. ASSUME form.op = "tclr1", TestClrAt(i, c, m) PROVE (form.op =
    "tclr1" /\ TestClrAt(i, c, m))'
  BY <1>19 DEF TestClrAt, Now
<1>20. ASSUME form.op = "or1", OrBitAt(i, c, m) PROVE (form.op = "or1" /\ OrBitAt(i, c, m))'
  BY <1>20 DEF OrBitAt, Now
<1>21. ASSUME form.op = "or1n", OrNotBitAt(i, c, m) PROVE (form.op =
    "or1n" /\ OrNotBitAt(i, c, m))'
  BY <1>21 DEF OrNotBitAt, Now
<1>22. ASSUME form.op = "eor1", EorBitAt(i, c, m) PROVE (form.op =
    "eor1" /\ EorBitAt(i, c, m))'
  BY <1>22 DEF EorBitAt, Now
<1>23. ASSUME form.op = "and1", AndBitAt(i, c, m) PROVE (form.op =
    "and1" /\ AndBitAt(i, c, m))'
  BY <1>23 DEF AndBitAt, Now
<1>24. ASSUME form.op = "and1n", AndNotBitAt(i, c, m) PROVE (form.op =
    "and1n" /\ AndNotBitAt(i, c, m))'
  BY <1>24 DEF AndNotBitAt, Now
<1>25. ASSUME form.op = "mov1c", LoadBitAt(i, c, m) PROVE (form.op =
    "mov1c" /\ LoadBitAt(i, c, m))'
  BY <1>25 DEF LoadBitAt, Now
<1>26. ASSUME form.op = "mov1", StoreBitAt(i, c, m) PROVE (form.op =
    "mov1" /\ StoreBitAt(i, c, m))'
  BY <1>26 DEF StoreBitAt, Now
<1>27. ASSUME form.op = "not1", NotBitAt(i, c, m) PROVE (form.op =
    "not1" /\ NotBitAt(i, c, m))'
  BY <1>27 DEF NotBitAt, Now
<1>28. ASSUME form.op \in {"bra", "bne", "beq", "bcc", "bcs"}, BranchAt(i, c,
    m) PROVE (form.op \in {"bra", "bne", "beq", "bcc", "bcs"} /\ BranchAt(i, c, m))'
  BY <1>28 DEF BranchAt, Now
<1>29. ASSUME form.op = "bbs", BranchSetAt(i, c, m) PROVE (form.op =
    "bbs" /\ BranchSetAt(i, c, m))'
  BY <1>29 DEF BranchSetAt, Now
<1>30. ASSUME form.op = "bbc", BranchClrAt(i, c, m) PROVE (form.op =
    "bbc" /\ BranchClrAt(i, c, m))'
  BY <1>30 DEF BranchClrAt, Now
<1>31. ASSUME form.op = "cbne", BranchNeAt(i, c, m) PROVE (form.op =
    "cbne" /\ BranchNeAt(i, c, m))'
  BY <1>31 DEF BranchNeAt, Now
<1>32. ASSUME form.op = "cbnex", BranchNeXAt(i, c, m) PROVE (form.op =
    "cbnex" /\ BranchNeXAt(i, c, m))'
  BY <1>32 DEF BranchNeXAt, Now
<1>33. ASSUME form.op = "dbnz", CountDownAt(i, c, m) PROVE (form.op =
    "dbnz" /\ CountDownAt(i, c, m))'
  BY <1>33 DEF CountDownAt, Now
<1>34. ASSUME form.op = "dbnzy", CountDownYAt(i, c, m) PROVE (form.op =
    "dbnzy" /\ CountDownYAt(i, c, m))'
  BY <1>34 DEF CountDownYAt, Now
<1>35. ASSUME form.op = "jmp", JmpAt(i, c, m) PROVE (form.op = "jmp" /\ JmpAt(i, c, m))'
  BY <1>35 DEF JmpAt, Now
<1>36. ASSUME form.op = "jmpx", JmpXAt(i, c, m) PROVE (form.op = "jmpx" /\ JmpXAt(i, c, m))'
  BY <1>36 DEF JmpXAt, Now
<1>37. ASSUME form.op = "push", PushAt(i, c, m) PROVE (form.op = "push" /\ PushAt(i, c, m))'
  BY <1>37 DEF PushAt, Now
<1>38. ASSUME form.op = "pushpsw", PushFlagsAt(i, c, m) PROVE (form.op =
    "pushpsw" /\ PushFlagsAt(i, c, m))'
  BY <1>38 DEF PushFlagsAt, Now
<1>39. ASSUME form.op = "pop", PopAt(i, c, m) PROVE (form.op = "pop" /\ PopAt(i, c, m))'
  BY <1>39 DEF PopAt, Now
<1>40. ASSUME form.op = "poppsw", PopFlagsAt(i, c, m) PROVE (form.op =
    "poppsw" /\ PopFlagsAt(i, c, m))'
  BY <1>40 DEF PopFlagsAt, Now
<1>41. ASSUME form.op = "call", CallAt(i, c, m) PROVE (form.op = "call" /\ CallAt(i, c, m))'
  BY <1>41 DEF CallAt, Now
<1>42. ASSUME form.op = "tcall", TCallAt(i, c, m) PROVE (form.op =
    "tcall" /\ TCallAt(i, c, m))'
  BY <1>42 DEF TCallAt, Now
<1>43. ASSUME form.op = "pcall", PCallAt(i, c, m) PROVE (form.op =
    "pcall" /\ PCallAt(i, c, m))'
  BY <1>43 DEF PCallAt, Now
<1>44. ASSUME form.op = "brk", BrkAt(i, c, m) PROVE (form.op = "brk" /\ BrkAt(i, c, m))'
  BY <1>44 DEF BrkAt, Now
<1>45. ASSUME form.op = "ret", RetAt(i, c, m) PROVE (form.op = "ret" /\ RetAt(i, c, m))'
  BY <1>45 DEF RetAt, Now
<1>46. ASSUME form.op = "reti", RetIAt(i, c, m) PROVE (form.op = "reti" /\ RetIAt(i, c, m))'
  BY <1>46 DEF RetIAt, Now
<1> QED
  BY <1>1, <1>2, <1>3, <1>4, <1>5, <1>6, <1>7, <1>8, <1>9, <1>10, <1>11,
     <1>12, <1>13, <1>14, <1>15, <1>16, <1>17, <1>18, <1>19, <1>20, <1>21,
     <1>22, <1>23, <1>24, <1>25, <1>26, <1>27, <1>28, <1>29, <1>30, <1>31,
     <1>32, <1>33, <1>34, <1>35, <1>36, <1>37, <1>38, <1>39, <1>40, <1>41,
     <1>42, <1>43, <1>44, <1>45, <1>46
     DEF OtherAt

LEMMA MoreToDo ==
  ASSUME NEW a \in ModeBlocks, NEW b \in ModeBlocks, NEW c \in ModeBlocks,
         NEW d \in ModeBlocks, NEW s \in Seq(ModeBlocks)
  PROVE  /\ <<a>> \o s # <<>> /\ <<a, b>> \o s # <<>>
         /\ <<a, b, c>> \o s # <<>> /\ <<a, b, c, d>> \o s # <<>>
BY Tuples, Follow

(* Once nothing is left to do, what has become of the machine is what the
   instruction does as one step. *)
LEMMA ModeEnds ==
  ASSUME NEW c \in Cpu, NEW m \in Memory, NEW i, ModeAt(i, c, m), todo = <<>>,
         form \in ModeForms
  PROVE  Machine(cpu, ram) = AsOneStep(form, c, m)
<1>a. Accesses[form.access] \in Seq(ModeBlocks)
  BY ModeFormIs, AccessBlocks
<1>1. ASSUME DpAt(i, c, m) PROVE FALSE
  <2>1. /\ "dp" \in ModeBlocks
    BY DEF ModeBlocks
  <2> QED BY <1>a, <1>1, <2>1, MoreToDo DEF DpAt
<1>2. ASSUME AbsAt(i, c, m) PROVE FALSE
  <2>1. /\ "lo" \in ModeBlocks /\ "hi" \in ModeBlocks
    BY DEF ModeBlocks
  <2> QED BY <1>a, <1>2, <2>1, MoreToDo DEF AbsAt
<1>3. ASSUME XAt(i, c, m) PROVE FALSE
  <2>1. /\ "at_x" \in ModeBlocks
    BY DEF ModeBlocks
  <2> QED BY <1>a, <1>3, <2>1, MoreToDo DEF XAt
<1>4. ASSUME DpXAt(i, c, m) PROVE FALSE
  <2>1. /\ "lo" \in ModeBlocks /\ "dp+x" \in ModeBlocks
    BY DEF ModeBlocks
  <2> QED BY <1>a, <1>4, <2>1, MoreToDo DEF DpXAt
<1>5. ASSUME DpYAt(i, c, m) PROVE FALSE
  <2>1. /\ "lo" \in ModeBlocks /\ "dp+y" \in ModeBlocks
    BY DEF ModeBlocks
  <2> QED BY <1>a, <1>5, <2>1, MoreToDo DEF DpYAt
<1>6. ASSUME AbsXAt(i, c, m) PROVE FALSE
  <2>1. /\ "lo" \in ModeBlocks /\ "hi" \in ModeBlocks /\ "+x" \in ModeBlocks
    BY DEF ModeBlocks
  <2> QED BY <1>a, <1>6, <2>1, MoreToDo DEF AbsXAt
<1>7. ASSUME AbsYAt(i, c, m) PROVE FALSE
  <2>1. /\ "lo" \in ModeBlocks /\ "hi" \in ModeBlocks /\ "+y" \in ModeBlocks
    BY DEF ModeBlocks
  <2> QED BY <1>a, <1>7, <2>1, MoreToDo DEF AbsYAt
<1>8. ASSUME PtrXAt(i, c, m) PROVE FALSE
  <2>1. /\ "lo2" \in ModeBlocks /\ "dp+x_2" \in ModeBlocks
        /\ "ptr_lo" \in ModeBlocks /\ "ptr_hi" \in ModeBlocks
    BY DEF ModeBlocks
  <2> QED BY <1>a, <1>8, <2>1, MoreToDo DEF PtrXAt
<1>9. ASSUME PtrYAt(i, c, m) PROVE FALSE
  <2>1. /\ "dp_2" \in ModeBlocks /\ "ptr_lo" \in ModeBlocks
        /\ "ptr_hi" \in ModeBlocks /\ "+y" \in ModeBlocks
    BY DEF ModeBlocks
  <2> QED BY <1>a, <1>9, <2>1, MoreToDo DEF PtrYAt
<1> QED
  BY <1>1, <1>2, <1>3, <1>4, <1>5, <1>6, <1>7, <1>8, <1>9, AccessEnds
     DEF ModeAt

LEMMA OtherEnds ==
  ASSUME NEW c \in Cpu, NEW m \in Memory, NEW i, OtherAt(i, c, m), todo = <<>>,
         form \in OtherForms
  PROVE  Machine(cpu, ram) = AsOneStep(form, c, m)
<1>0. AsOneStep(form, c, m) = Special(form, c, m)
  BY DEF AsOneStep, OtherForms
<1>1. ASSUME form.op = "implied", ImpliedAt(i, c, m) PROVE Machine(cpu, ram) =
    Special(form, c, m)
  BY <1>1, ImpliedEnds
<1>2. ASSUME form.op = "imm", ImmAt(i, c, m) PROVE Machine(cpu, ram) = Special(form, c, m)
  BY <1>2, ImmEnds
<1>3. ASSUME form.op = "loadinc", LoadIncAt(i, c, m) PROVE Machine(cpu, ram) =
    Special(form, c, m)
  BY <1>3, LoadIncEnds
<1>4. ASSUME form.op = "storeinc", StoreIncAt(i, c, m) PROVE Machine(cpu, ram) =
    Special(form, c, m)
  BY <1>4, StoreIncEnds
<1>5. ASSUME form.op = "dpdp", DpDpAt(i, c, m) PROVE Machine(cpu, ram) = Special(form, c, m)
  BY <1>5, DpDpEnds
<1>6. ASSUME form.op = "cmpdpdp", CmpDpDpAt(i, c, m) PROVE Machine(cpu, ram) =
    Special(form, c, m)
  BY <1>6, CmpDpDpEnds
<1>7. ASSUME form.op = "movdpdp", MovDpDpAt(i, c, m) PROVE Machine(cpu, ram) =
    Special(form, c, m)
  BY <1>7, MovDpDpEnds
<1>8. ASSUME form.op = "dpimm", DpImmAt(i, c, m) PROVE Machine(cpu, ram) = Special(form, c, m)
  BY <1>8, DpImmEnds
<1>9. ASSUME form.op = "cmpdpimm", CmpDpImmAt(i, c, m) PROVE Machine(cpu, ram) =
    Special(form, c, m)
  BY <1>9, CmpDpImmEnds
<1>10. ASSUME form.op = "movdpimm", MovDpImmAt(i, c, m) PROVE Machine(cpu, ram) =
    Special(form, c, m)
  BY <1>10, MovDpImmEnds
<1>11. ASSUME form.op = "xy", XYAt(i, c, m) PROVE Machine(cpu, ram) = Special(form, c, m)
  BY <1>11, XYEnds
<1>12. ASSUME form.op = "cmpxy", CmpXYAt(i, c, m) PROVE Machine(cpu, ram) =
    Special(form, c, m)
  BY <1>12, CmpXYEnds
<1>13. ASSUME form.op = "word", LoadWordAt(i, c, m) PROVE Machine(cpu, ram) =
    Special(form, c, m)
  BY <1>13, LoadWordEnds
<1>14. ASSUME form.op = "incw", IncWAt(i, c, m) PROVE Machine(cpu, ram) = Special(form, c, m)
  BY <1>14, IncWEnds
<1>15. ASSUME form.op = "movw", MovWAt(i, c, m) PROVE Machine(cpu, ram) = Special(form, c, m)
  BY <1>15, MovWEnds
<1>16. ASSUME form.op = "set1", SetBitAt(i, c, m) PROVE Machine(cpu, ram) =
    Special(form, c, m)
  BY <1>16, SetBitEnds
<1>17. ASSUME form.op = "clr1", ClrBitAt(i, c, m) PROVE Machine(cpu, ram) =
    Special(form, c, m)
  BY <1>17, ClrBitEnds
<1>18. ASSUME form.op = "tset1", TestSetAt(i, c, m) PROVE Machine(cpu, ram) =
    Special(form, c, m)
  BY <1>18, TestSetEnds
<1>19. ASSUME form.op = "tclr1", TestClrAt(i, c, m) PROVE Machine(cpu, ram) =
    Special(form, c, m)
  BY <1>19, TestClrEnds
<1>20. ASSUME form.op = "or1", OrBitAt(i, c, m) PROVE Machine(cpu, ram) = Special(form, c, m)
  BY <1>20, OrBitEnds
<1>21. ASSUME form.op = "or1n", OrNotBitAt(i, c, m) PROVE Machine(cpu, ram) =
    Special(form, c, m)
  BY <1>21, OrNotBitEnds
<1>22. ASSUME form.op = "eor1", EorBitAt(i, c, m) PROVE Machine(cpu, ram) =
    Special(form, c, m)
  BY <1>22, EorBitEnds
<1>23. ASSUME form.op = "and1", AndBitAt(i, c, m) PROVE Machine(cpu, ram) =
    Special(form, c, m)
  BY <1>23, AndBitEnds
<1>24. ASSUME form.op = "and1n", AndNotBitAt(i, c, m) PROVE Machine(cpu, ram) =
    Special(form, c, m)
  BY <1>24, AndNotBitEnds
<1>25. ASSUME form.op = "mov1c", LoadBitAt(i, c, m) PROVE Machine(cpu, ram) =
    Special(form, c, m)
  BY <1>25, LoadBitEnds
<1>26. ASSUME form.op = "mov1", StoreBitAt(i, c, m) PROVE Machine(cpu, ram) =
    Special(form, c, m)
  BY <1>26, StoreBitEnds
<1>27. ASSUME form.op = "not1", NotBitAt(i, c, m) PROVE Machine(cpu, ram) =
    Special(form, c, m)
  BY <1>27, NotBitEnds
<1>28. ASSUME form.op \in {"bra", "bne", "beq", "bcc", "bcs"}, BranchAt(i, c,
    m) PROVE Machine(cpu, ram) = Special(form, c, m)
  BY <1>28, BranchEnds
<1>29. ASSUME form.op = "bbs", BranchSetAt(i, c, m) PROVE Machine(cpu, ram) =
    Special(form, c, m)
  BY <1>29, BranchSetEnds
<1>30. ASSUME form.op = "bbc", BranchClrAt(i, c, m) PROVE Machine(cpu, ram) =
    Special(form, c, m)
  BY <1>30, BranchClrEnds
<1>31. ASSUME form.op = "cbne", BranchNeAt(i, c, m) PROVE Machine(cpu, ram) =
    Special(form, c, m)
  BY <1>31, BranchNeEnds
<1>32. ASSUME form.op = "cbnex", BranchNeXAt(i, c, m) PROVE Machine(cpu, ram) =
    Special(form, c, m)
  BY <1>32, BranchNeXEnds
<1>33. ASSUME form.op = "dbnz", CountDownAt(i, c, m) PROVE Machine(cpu, ram) =
    Special(form, c, m)
  BY <1>33, CountDownEnds
<1>34. ASSUME form.op = "dbnzy", CountDownYAt(i, c, m) PROVE Machine(cpu, ram) =
    Special(form, c, m)
  BY <1>34, CountDownYEnds
<1>35. ASSUME form.op = "jmp", JmpAt(i, c, m) PROVE Machine(cpu, ram) = Special(form, c, m)
  BY <1>35, JmpEnds
<1>36. ASSUME form.op = "jmpx", JmpXAt(i, c, m) PROVE Machine(cpu, ram) = Special(form, c, m)
  BY <1>36, JmpXEnds
<1>37. ASSUME form.op = "push", PushAt(i, c, m) PROVE Machine(cpu, ram) = Special(form, c, m)
  BY <1>37, PushEnds
<1>38. ASSUME form.op = "pushpsw", PushFlagsAt(i, c, m) PROVE Machine(cpu, ram) =
    Special(form, c, m)
  BY <1>38, PushFlagsEnds
<1>39. ASSUME form.op = "pop", PopAt(i, c, m) PROVE Machine(cpu, ram) = Special(form, c, m)
  BY <1>39, PopEnds
<1>40. ASSUME form.op = "poppsw", PopFlagsAt(i, c, m) PROVE Machine(cpu, ram) =
    Special(form, c, m)
  BY <1>40, PopFlagsEnds
<1>41. ASSUME form.op = "call", CallAt(i, c, m) PROVE Machine(cpu, ram) = Special(form, c, m)
  BY <1>41, CallEnds
<1>42. ASSUME form.op = "tcall", TCallAt(i, c, m) PROVE Machine(cpu, ram) =
    Special(form, c, m)
  BY <1>42, TCallEnds
<1>43. ASSUME form.op = "pcall", PCallAt(i, c, m) PROVE Machine(cpu, ram) =
    Special(form, c, m)
  BY <1>43, PCallEnds
<1>44. ASSUME form.op = "brk", BrkAt(i, c, m) PROVE Machine(cpu, ram) = Special(form, c, m)
  BY <1>44, BrkEnds
<1>45. ASSUME form.op = "ret", RetAt(i, c, m) PROVE Machine(cpu, ram) = Special(form, c, m)
  BY <1>45, RetEnds
<1>46. ASSUME form.op = "reti", RetIAt(i, c, m) PROVE Machine(cpu, ram) = Special(form, c, m)
  BY <1>46, RetIEnds
<1> QED
  BY <1>0, <1>1, <1>2, <1>3, <1>4, <1>5, <1>6, <1>7, <1>8, <1>9, <1>10, <1>11,
     <1>12, <1>13, <1>14, <1>15, <1>16, <1>17, <1>18, <1>19, <1>20, <1>21,
     <1>22, <1>23, <1>24, <1>25, <1>26, <1>27, <1>28, <1>29, <1>30, <1>31,
     <1>32, <1>33, <1>34, <1>35, <1>36, <1>37, <1>38, <1>39, <1>40, <1>41,
     <1>42, <1>43, <1>44, <1>45, <1>46
     DEF OtherAt

Typed == cpu \in Cpu /\ ram \in Memory /\ IsTmp(tmp)

LEMMA ModeIs ==
  ASSUME NEW c, NEW m, NEW i, ModeAt(i, c, m)'
  PROVE  Typed'
<1>1. DpAt(i, c, m)' => Typed'
  BY DEF DpAt, Now, Typed
<1>2. AbsAt(i, c, m)' => Typed'
  BY DEF AbsAt, Now, Typed
<1>3. XAt(i, c, m)' => Typed'
  BY DEF XAt, Now, Typed
<1>4. DpXAt(i, c, m)' => Typed'
  BY DEF DpXAt, Now, Typed
<1>5. DpYAt(i, c, m)' => Typed'
  BY DEF DpYAt, Now, Typed
<1>6. AbsXAt(i, c, m)' => Typed'
  BY DEF AbsXAt, Now, Typed
<1>7. AbsYAt(i, c, m)' => Typed'
  BY DEF AbsYAt, Now, Typed
<1>8. PtrXAt(i, c, m)' => Typed'
  BY DEF PtrXAt, Now, Typed
<1>9. PtrYAt(i, c, m)' => Typed'
  BY DEF PtrYAt, Now, Typed
<1>10. AccessAt(i, c, m)' => Typed'
  BY DEF AccessAt, Now, Typed
<1> QED
  BY <1>1, <1>2, <1>3, <1>4, <1>5, <1>6, <1>7, <1>8, <1>9, <1>10
     DEF ModeAt

LEMMA OtherIs ==
  ASSUME NEW c, NEW m, NEW i, OtherAt(i, c, m)'
  PROVE  Typed'
<1>1. ImpliedAt(i, c, m)' => Typed'
  BY DEF ImpliedAt, Now, Typed
<1>2. ImmAt(i, c, m)' => Typed'
  BY DEF ImmAt, Now, Typed
<1>3. LoadIncAt(i, c, m)' => Typed'
  BY DEF LoadIncAt, Now, Typed
<1>4. StoreIncAt(i, c, m)' => Typed'
  BY DEF StoreIncAt, Now, Typed
<1>5. DpDpAt(i, c, m)' => Typed'
  BY DEF DpDpAt, Now, Typed
<1>6. CmpDpDpAt(i, c, m)' => Typed'
  BY DEF CmpDpDpAt, Now, Typed
<1>7. MovDpDpAt(i, c, m)' => Typed'
  BY DEF MovDpDpAt, Now, Typed
<1>8. DpImmAt(i, c, m)' => Typed'
  BY DEF DpImmAt, Now, Typed
<1>9. CmpDpImmAt(i, c, m)' => Typed'
  BY DEF CmpDpImmAt, Now, Typed
<1>10. MovDpImmAt(i, c, m)' => Typed'
  BY DEF MovDpImmAt, Now, Typed
<1>11. XYAt(i, c, m)' => Typed'
  BY DEF XYAt, Now, Typed
<1>12. CmpXYAt(i, c, m)' => Typed'
  BY DEF CmpXYAt, Now, Typed
<1>13. LoadWordAt(i, c, m)' => Typed'
  BY DEF LoadWordAt, Now, Typed
<1>14. IncWAt(i, c, m)' => Typed'
  BY DEF IncWAt, Now, Typed
<1>15. MovWAt(i, c, m)' => Typed'
  BY DEF MovWAt, Now, Typed
<1>16. SetBitAt(i, c, m)' => Typed'
  BY DEF SetBitAt, Now, Typed
<1>17. ClrBitAt(i, c, m)' => Typed'
  BY DEF ClrBitAt, Now, Typed
<1>18. TestSetAt(i, c, m)' => Typed'
  BY DEF TestSetAt, Now, Typed
<1>19. TestClrAt(i, c, m)' => Typed'
  BY DEF TestClrAt, Now, Typed
<1>20. OrBitAt(i, c, m)' => Typed'
  BY DEF OrBitAt, Now, Typed
<1>21. OrNotBitAt(i, c, m)' => Typed'
  BY DEF OrNotBitAt, Now, Typed
<1>22. EorBitAt(i, c, m)' => Typed'
  BY DEF EorBitAt, Now, Typed
<1>23. AndBitAt(i, c, m)' => Typed'
  BY DEF AndBitAt, Now, Typed
<1>24. AndNotBitAt(i, c, m)' => Typed'
  BY DEF AndNotBitAt, Now, Typed
<1>25. LoadBitAt(i, c, m)' => Typed'
  BY DEF LoadBitAt, Now, Typed
<1>26. StoreBitAt(i, c, m)' => Typed'
  BY DEF StoreBitAt, Now, Typed
<1>27. NotBitAt(i, c, m)' => Typed'
  BY DEF NotBitAt, Now, Typed
<1>28. BranchAt(i, c, m)' => Typed'
  BY DEF BranchAt, Now, Typed
<1>29. BranchSetAt(i, c, m)' => Typed'
  BY DEF BranchSetAt, Now, Typed
<1>30. BranchClrAt(i, c, m)' => Typed'
  BY DEF BranchClrAt, Now, Typed
<1>31. BranchNeAt(i, c, m)' => Typed'
  BY DEF BranchNeAt, Now, Typed
<1>32. BranchNeXAt(i, c, m)' => Typed'
  BY DEF BranchNeXAt, Now, Typed
<1>33. CountDownAt(i, c, m)' => Typed'
  BY DEF CountDownAt, Now, Typed
<1>34. CountDownYAt(i, c, m)' => Typed'
  BY DEF CountDownYAt, Now, Typed
<1>35. JmpAt(i, c, m)' => Typed'
  BY DEF JmpAt, Now, Typed
<1>36. JmpXAt(i, c, m)' => Typed'
  BY DEF JmpXAt, Now, Typed
<1>37. PushAt(i, c, m)' => Typed'
  BY DEF PushAt, Now, Typed
<1>38. PushFlagsAt(i, c, m)' => Typed'
  BY DEF PushFlagsAt, Now, Typed
<1>39. PopAt(i, c, m)' => Typed'
  BY DEF PopAt, Now, Typed
<1>40. PopFlagsAt(i, c, m)' => Typed'
  BY DEF PopFlagsAt, Now, Typed
<1>41. CallAt(i, c, m)' => Typed'
  BY DEF CallAt, Now, Typed
<1>42. TCallAt(i, c, m)' => Typed'
  BY DEF TCallAt, Now, Typed
<1>43. PCallAt(i, c, m)' => Typed'
  BY DEF PCallAt, Now, Typed
<1>44. BrkAt(i, c, m)' => Typed'
  BY DEF BrkAt, Now, Typed
<1>45. RetAt(i, c, m)' => Typed'
  BY DEF RetAt, Now, Typed
<1>46. RetIAt(i, c, m)' => Typed'
  BY DEF RetIAt, Now, Typed
<1> QED
  BY <1>1, <1>2, <1>3, <1>4, <1>5, <1>6, <1>7, <1>8, <1>9, <1>10, <1>11,
     <1>12, <1>13, <1>14, <1>15, <1>16, <1>17, <1>18, <1>19, <1>20, <1>21,
     <1>22, <1>23, <1>24, <1>25, <1>26, <1>27, <1>28, <1>29, <1>30, <1>31,
     <1>32, <1>33, <1>34, <1>35, <1>36, <1>37, <1>38, <1>39, <1>40, <1>41,
     <1>42, <1>43, <1>44, <1>45, <1>46
     DEF OtherAt

(* And it begins so. *)
LEMMA ModeBegins ==
  ASSUME NEW c, NEW m, (todo = Modes[form.mode] \o Accesses[form.access])', Now(c, m, {})',
         form' \in ModeForms
  PROVE  ModeAt(0, c, m)'
<1>1. ASSUME form'.mode = "dp" PROVE (form.mode = "dp" /\ DpAt(0, c, m))'
  BY <1>1, DpBegins
<1>2. ASSUME form'.mode = "abs" PROVE (form.mode = "abs" /\ AbsAt(0, c, m))'
  BY <1>2, AbsBegins
<1>3. ASSUME form'.mode = "x" PROVE (form.mode = "x" /\ XAt(0, c, m))'
  BY <1>3, XBegins
<1>4. ASSUME form'.mode = "dpx" PROVE (form.mode = "dpx" /\ DpXAt(0, c, m))'
  BY <1>4, DpXBegins
<1>5. ASSUME form'.mode = "dpy" PROVE (form.mode = "dpy" /\ DpYAt(0, c, m))'
  BY <1>5, DpYBegins
<1>6. ASSUME form'.mode = "absx" PROVE (form.mode = "absx" /\ AbsXAt(0, c, m))'
  BY <1>6, AbsXBegins
<1>7. ASSUME form'.mode = "absy" PROVE (form.mode = "absy" /\ AbsYAt(0, c, m))'
  BY <1>7, AbsYBegins
<1>8. ASSUME form'.mode = "dpxi" PROVE (form.mode = "dpxi" /\ PtrXAt(0, c, m))'
  BY <1>8, PtrXBegins
<1>9. ASSUME form'.mode = "dpiy" PROVE (form.mode = "dpiy" /\ PtrYAt(0, c, m))'
  BY <1>9, PtrYBegins
<1>10. form'.mode \in DOMAIN Modes
  BY DEF ModeForms
<1> QED
  BY <1>1, <1>2, <1>3, <1>4, <1>5, <1>6, <1>7, <1>8, <1>9, <1>10, ModeNames
     DEF ModeAt

LEMMA OtherBegins ==
  ASSUME NEW c, NEW m, (todo = Others[form.op])', Now(c, m, {})', form' \in OtherForms
  PROVE  OtherAt(0, c, m)'
<1>1. ASSUME form'.op = "implied" PROVE (form.op = "implied" /\ ImpliedAt(0, c, m))'
  BY <1>1, ImpliedBegins
<1>2. ASSUME form'.op = "imm" PROVE (form.op = "imm" /\ ImmAt(0, c, m))'
  BY <1>2, ImmBegins
<1>3. ASSUME form'.op = "loadinc" PROVE (form.op = "loadinc" /\ LoadIncAt(0, c, m))'
  BY <1>3, LoadIncBegins
<1>4. ASSUME form'.op = "storeinc" PROVE (form.op = "storeinc" /\ StoreIncAt(0, c, m))'
  BY <1>4, StoreIncBegins
<1>5. ASSUME form'.op = "dpdp" PROVE (form.op = "dpdp" /\ DpDpAt(0, c, m))'
  BY <1>5, DpDpBegins
<1>6. ASSUME form'.op = "cmpdpdp" PROVE (form.op = "cmpdpdp" /\ CmpDpDpAt(0, c, m))'
  BY <1>6, CmpDpDpBegins
<1>7. ASSUME form'.op = "movdpdp" PROVE (form.op = "movdpdp" /\ MovDpDpAt(0, c, m))'
  BY <1>7, MovDpDpBegins
<1>8. ASSUME form'.op = "dpimm" PROVE (form.op = "dpimm" /\ DpImmAt(0, c, m))'
  BY <1>8, DpImmBegins
<1>9. ASSUME form'.op = "cmpdpimm" PROVE (form.op = "cmpdpimm" /\ CmpDpImmAt(0, c, m))'
  BY <1>9, CmpDpImmBegins
<1>10. ASSUME form'.op = "movdpimm" PROVE (form.op = "movdpimm" /\ MovDpImmAt(0, c, m))'
  BY <1>10, MovDpImmBegins
<1>11. ASSUME form'.op = "xy" PROVE (form.op = "xy" /\ XYAt(0, c, m))'
  BY <1>11, XYBegins
<1>12. ASSUME form'.op = "cmpxy" PROVE (form.op = "cmpxy" /\ CmpXYAt(0, c, m))'
  BY <1>12, CmpXYBegins
<1>13. ASSUME form'.op = "word" PROVE (form.op = "word" /\ LoadWordAt(0, c, m))'
  BY <1>13, LoadWordBegins
<1>14. ASSUME form'.op = "incw" PROVE (form.op = "incw" /\ IncWAt(0, c, m))'
  BY <1>14, IncWBegins
<1>15. ASSUME form'.op = "movw" PROVE (form.op = "movw" /\ MovWAt(0, c, m))'
  BY <1>15, MovWBegins
<1>16. ASSUME form'.op = "set1" PROVE (form.op = "set1" /\ SetBitAt(0, c, m))'
  BY <1>16, SetBitBegins
<1>17. ASSUME form'.op = "clr1" PROVE (form.op = "clr1" /\ ClrBitAt(0, c, m))'
  BY <1>17, ClrBitBegins
<1>18. ASSUME form'.op = "tset1" PROVE (form.op = "tset1" /\ TestSetAt(0, c, m))'
  BY <1>18, TestSetBegins
<1>19. ASSUME form'.op = "tclr1" PROVE (form.op = "tclr1" /\ TestClrAt(0, c, m))'
  BY <1>19, TestClrBegins
<1>20. ASSUME form'.op = "or1" PROVE (form.op = "or1" /\ OrBitAt(0, c, m))'
  BY <1>20, OrBitBegins
<1>21. ASSUME form'.op = "or1n" PROVE (form.op = "or1n" /\ OrNotBitAt(0, c, m))'
  BY <1>21, OrNotBitBegins
<1>22. ASSUME form'.op = "eor1" PROVE (form.op = "eor1" /\ EorBitAt(0, c, m))'
  BY <1>22, EorBitBegins
<1>23. ASSUME form'.op = "and1" PROVE (form.op = "and1" /\ AndBitAt(0, c, m))'
  BY <1>23, AndBitBegins
<1>24. ASSUME form'.op = "and1n" PROVE (form.op = "and1n" /\ AndNotBitAt(0, c, m))'
  BY <1>24, AndNotBitBegins
<1>25. ASSUME form'.op = "mov1c" PROVE (form.op = "mov1c" /\ LoadBitAt(0, c, m))'
  BY <1>25, LoadBitBegins
<1>26. ASSUME form'.op = "mov1" PROVE (form.op = "mov1" /\ StoreBitAt(0, c, m))'
  BY <1>26, StoreBitBegins
<1>27. ASSUME form'.op = "not1" PROVE (form.op = "not1" /\ NotBitAt(0, c, m))'
  BY <1>27, NotBitBegins
<1>28. ASSUME form'.op \in {"bra", "bne", "beq", "bcc", "bcs"} PROVE (form.op \in {"bra",
    "bne", "beq", "bcc", "bcs"} /\ BranchAt(0, c, m))'
  BY <1>28, BranchBegins
<1>29. ASSUME form'.op = "bbs" PROVE (form.op = "bbs" /\ BranchSetAt(0, c, m))'
  BY <1>29, BranchSetBegins
<1>30. ASSUME form'.op = "bbc" PROVE (form.op = "bbc" /\ BranchClrAt(0, c, m))'
  BY <1>30, BranchClrBegins
<1>31. ASSUME form'.op = "cbne" PROVE (form.op = "cbne" /\ BranchNeAt(0, c, m))'
  BY <1>31, BranchNeBegins
<1>32. ASSUME form'.op = "cbnex" PROVE (form.op = "cbnex" /\ BranchNeXAt(0, c, m))'
  BY <1>32, BranchNeXBegins
<1>33. ASSUME form'.op = "dbnz" PROVE (form.op = "dbnz" /\ CountDownAt(0, c, m))'
  BY <1>33, CountDownBegins
<1>34. ASSUME form'.op = "dbnzy" PROVE (form.op = "dbnzy" /\ CountDownYAt(0, c, m))'
  BY <1>34, CountDownYBegins
<1>35. ASSUME form'.op = "jmp" PROVE (form.op = "jmp" /\ JmpAt(0, c, m))'
  BY <1>35, JmpBegins
<1>36. ASSUME form'.op = "jmpx" PROVE (form.op = "jmpx" /\ JmpXAt(0, c, m))'
  BY <1>36, JmpXBegins
<1>37. ASSUME form'.op = "push" PROVE (form.op = "push" /\ PushAt(0, c, m))'
  BY <1>37, PushBegins
<1>38. ASSUME form'.op = "pushpsw" PROVE (form.op = "pushpsw" /\ PushFlagsAt(0, c, m))'
  BY <1>38, PushFlagsBegins
<1>39. ASSUME form'.op = "pop" PROVE (form.op = "pop" /\ PopAt(0, c, m))'
  BY <1>39, PopBegins
<1>40. ASSUME form'.op = "poppsw" PROVE (form.op = "poppsw" /\ PopFlagsAt(0, c, m))'
  BY <1>40, PopFlagsBegins
<1>41. ASSUME form'.op = "call" PROVE (form.op = "call" /\ CallAt(0, c, m))'
  BY <1>41, CallBegins
<1>42. ASSUME form'.op = "tcall" PROVE (form.op = "tcall" /\ TCallAt(0, c, m))'
  BY <1>42, TCallBegins
<1>43. ASSUME form'.op = "pcall" PROVE (form.op = "pcall" /\ PCallAt(0, c, m))'
  BY <1>43, PCallBegins
<1>44. ASSUME form'.op = "brk" PROVE (form.op = "brk" /\ BrkAt(0, c, m))'
  BY <1>44, BrkBegins
<1>45. ASSUME form'.op = "ret" PROVE (form.op = "ret" /\ RetAt(0, c, m))'
  BY <1>45, RetBegins
<1>46. ASSUME form'.op = "reti" PROVE (form.op = "reti" /\ RetIAt(0, c, m))'
  BY <1>46, RetIBegins
<1> QED
  BY <1>1, <1>2, <1>3, <1>4, <1>5, <1>6, <1>7, <1>8, <1>9, <1>10, <1>11,
     <1>12, <1>13, <1>14, <1>15, <1>16, <1>17, <1>18, <1>19, <1>20, <1>21,
     <1>22, <1>23, <1>24, <1>25, <1>26, <1>27, <1>28, <1>29, <1>30, <1>31,
     <1>32, <1>33, <1>34, <1>35, <1>36, <1>37, <1>38, <1>39, <1>40, <1>41,
     <1>42, <1>43, <1>44, <1>45, <1>46, OtherNames
     DEF OtherAt

-----------------------------------------------------------------------------
(* The inductive invariant.  Until a sample of the echo hits a cell that the
   instruction has accessed, or the stack, the machine is between two
   instructions or midway through one that began at start.cpu, over the memory
   start.ram that has all the samples written since. *)
Idling == form = [op |-> "none"] /\ todo = <<>>
Begun == start = [cpu |-> start.cpu, ram |-> start.ram, frame |-> start.frame]
Steady ==
  /\ prog \in Seq(Forms) /\ Typed /\ Begun
  /\ \/ Idling
     \/ \E c \in Cpu, m \in Memory : start.cpu = c /\ start.ram = m /\ Midway(c, m)
Atomic == ~torn => Steady

LEMMA AtomicInit == Init => Atomic
<1> SUFFICES ASSUME Init PROVE Steady
  BY DEF Atomic
<1>1. PICK suite \in Suites : /\ prog \in suite.progs /\ ram \in suite.images
                              /\ cpu \in suite.regs
  BY DEF Init
<1>2. prog \in Seq(Forms) /\ ram \in Memory /\ cpu \in Cpu
  BY <1>1, SuitesAssumption
<1>3. IsTmp(tmp)
  BY DEF Init, IsTmp, TmpFields
<1>4. /\ start = [cpu |-> cpu, ram |-> ram, frame |-> <<>>] /\ Idling
  BY DEF Init, Idling
<1> QED BY <1>2, <1>3, <1>4 DEF Steady, Typed, Begun

(* The opcode is read: an instruction begins. *)
LEMMA AtomicOpcode == ASSUME Atomic, ReadOpcode PROVE Atomic'
<1> SUFFICES ASSUME ~torn' PROVE Steady'
  BY DEF Atomic
<1>1. /\ prog \in Seq(Forms) /\ prog # <<>> /\ IsTmp(tmp) /\ cpu \in Cpu /\ ram \in Memory
  BY DEF Atomic, ReadOpcode, Steady, Typed
<1>2. /\ form' = Head(prog) /\ prog' = Tail(prog) /\ todo' = Blocks(form')
      /\ cpu' = [cpu EXCEPT !.pc = NextPC] /\ ram' = ram /\ tmp' = tmp /\ seen' = {}
      /\ \E popped : start' = [cpu |-> cpu', ram |-> ram, frame |-> popped]
  BY DEF ReadOpcode
<1>3. form' \in Forms /\ prog' \in Seq(Forms)
  BY <1>1, <1>2
<1>4. cpu' = Past(cpu, 1) /\ cpu' \in Cpu
  <2>1. cpu' = Past(cpu, 1)
    BY <1>2 DEF Past, NextPC
  <2> QED BY <1>1, <2>1, Moves
<1>5. Begun'
  BY <1>2 DEF Begun
<1>6. PICK c \in Cpu, m \in Memory :
        c = cpu' /\ m = ram' /\ start'.cpu = c /\ start'.ram = m
  BY <1>1, <1>2, <1>4
<1>7. Now(c, m, {})'
  BY <1>1, <1>2, <1>6 DEF Now
<1>8. Midway(c, m)'
  <2>1. CASE form' \in ModeForms
    <3>1. "mode" \in DOMAIN form'
      BY <2>1 DEF ModeForms
    <3>2. (todo = Modes[form.mode] \o Accesses[form.access])'
      BY <1>2, <3>1 DEF Blocks
    <3>3. ModeAt(0, c, m)'
      BY <1>7, <2>1, <3>2, ModeBegins
    <3> QED BY <2>1, <3>3 DEF Midway
  <2>2. CASE form' \in OtherForms
    <3>1. "mode" \notin DOMAIN form'
      BY <2>2 DEF OtherForms
    <3>2. (todo = Others[form.op])'
      BY <1>2, <3>1 DEF Blocks
    <3>3. OtherAt(0, c, m)'
      BY <1>7, <2>2, <3>2, OtherBegins
    <3> QED BY <2>2, <3>3 DEF Midway
  <2> QED BY <1>3, <2>1, <2>2 DEF Forms
<1>9. IsTmp(tmp)' /\ (cpu \in Cpu)' /\ (ram \in Memory)'
  BY <1>1, <1>2, <1>4
<1> QED BY <1>3, <1>5, <1>6, <1>8, <1>9 DEF Steady, Typed

(* Wherever it is, the machine has registers and a memory. *)
LEMMA MidwayIs ==
  ASSUME NEW c, NEW m, Midway(c, m)' PROVE Typed'
BY ModeIs, OtherIs DEF Midway

(* One of its blocks is done. *)
LEMMA AtomicBlock == ASSUME Atomic, Block PROVE Atomic'
<1> SUFFICES ASSUME ~torn' PROVE Steady'
  BY DEF Atomic
<1>1. Kept /\ todo # <<>>
  BY BlockKeeps, BlocksLeft
<1>2. Steady /\ ~Idling
  BY <1>1 DEF Kept, Atomic, Idling
<1>3. PICK c \in Cpu, m \in Memory : start.cpu = c /\ start.ram = m /\ Midway(c, m)
  BY <1>2 DEF Steady
<1>4. Midway(c, m)'
  <2>1. CASE form \in ModeForms /\ \E i : ModeAt(i, c, m)
    <3>1. \E j : ModeAt(j, c, m)'
      BY <2>1, ModeGoes
    <3> QED BY <1>1, <2>1, <3>1 DEF Midway, Kept
  <2>2. CASE form \in OtherForms /\ \E i : OtherAt(i, c, m)
    <3>1. \E j : OtherAt(j, c, m)'
      BY <2>2, OtherGoes
    <3> QED BY <1>1, <2>2, <3>1 DEF Midway, Kept
  <2> QED BY <1>3, <2>1, <2>2 DEF Midway
<1>5. Typed'
  BY <1>4, MidwayIs
<1>6. (prog \in Seq(Forms) /\ Begun)' /\ start'.cpu = c /\ start'.ram = m
  BY <1>1, <1>2, <1>3 DEF Steady, Begun, Kept
<1> QED BY <1>4, <1>5, <1>6 DEF Steady

(* A sample is written to a cell the instruction has not accessed, nor the
   stack: as good as before the instruction. *)
LEMMA AtomicEcho ==
  ASSUME Atomic, NEW cell \in EchoCells, NEW v \in Scribbles, Echo(cell, v)
  PROVE  Atomic'
<1> SUFFICES ASSUME ~torn' PROVE Steady'
  BY DEF Atomic
<1>1. /\ Steady /\ cell \notin seen /\ cell \in Addr /\ v \in Byte
      /\ ram' = Set(ram, cell, v) /\ start' = [start EXCEPT !.ram[cell] = v]
      /\ UNCHANGED <<cpu, tmp, form, todo, prog, seen>>
  BY InstrAssumption DEF Atomic, Echo, Set
<1>2. Stray(cell, v)
  BY <1>1 DEF Stray
<1>3. (prog \in Seq(Forms) /\ cpu \in Cpu /\ ram \in Memory /\ IsTmp(tmp))'
  BY <1>1, Memories DEF Steady, Typed
<1>4. /\ Begun' /\ start'.cpu = start.cpu
      /\ \A m \in Memory : start.ram = m => start'.ram = Set(m, cell, v)
  BY <1>1 DEF Steady, Begun, Set
<1>5. CASE Idling
  BY <1>1, <1>3, <1>4, <1>5 DEF Steady, Typed, Idling
<1>6. CASE ~Idling
  <2>1. PICK c \in Cpu, m \in Memory : start.cpu = c /\ start.ram = m /\ Midway(c, m)
    BY <1>1, <1>6 DEF Steady
  <2>2. Midway(c, Set(m, cell, v))'
    <3>1. CASE form \in ModeForms /\ \E i : ModeAt(i, c, m)
      <4>1. \E i : ModeAt(i, c, Set(m, cell, v))'
        BY <1>2, <3>1, ModeStays
      <4> QED BY <1>1, <3>1, <4>1 DEF Midway
    <3>2. CASE form \in OtherForms /\ \E i : OtherAt(i, c, m)
      <4>1. \E i : OtherAt(i, c, Set(m, cell, v))'
        BY <1>2, <3>2, OtherStays
      <4> QED BY <1>1, <3>2, <4>1 DEF Midway
    <3> QED BY <2>1, <3>1, <3>2 DEF Midway
  <2>3. /\ Set(m, cell, v) \in Memory /\ start'.cpu = c
        /\ start'.ram = Set(m, cell, v)
    BY <1>1, <1>4, <2>1, Memories
  <2> QED BY <1>3, <1>4, <2>2, <2>3 DEF Steady, Typed
<1> QED BY <1>5, <1>6

LEMMA AtomicStutter == ASSUME Atomic, UNCHANGED vars PROVE Atomic'
<1> SUFFICES ASSUME ~torn' PROVE Steady'
  BY DEF Atomic
<1>1. Steady /\ UNCHANGED <<cpu, ram, tmp, form, todo, prog, seen, start>>
  BY DEF Atomic, vars, mach, history
<1>2. (prog \in Seq(Forms) /\ Typed /\ Begun)'
  BY <1>1 DEF Steady, Typed, Begun
<1>3. CASE Idling
  BY <1>1, <1>2, <1>3 DEF Steady, Idling
<1>4. CASE ~Idling
  <2>1. PICK c \in Cpu, m \in Memory : start.cpu = c /\ start.ram = m /\ Midway(c, m)
    BY <1>1, <1>4 DEF Steady
  <2>2. Midway(c, m)'
    <3>1. CASE form \in ModeForms /\ \E i : ModeAt(i, c, m)
      <4>1. \E i : ModeAt(i, c, m)'
        BY <1>1, <3>1, ModeWaits
      <4> QED BY <1>1, <3>1, <4>1 DEF Midway
    <3>2. CASE form \in OtherForms /\ \E i : OtherAt(i, c, m)
      <4>1. \E i : OtherAt(i, c, m)'
        BY <1>1, <3>2, OtherWaits
      <4> QED BY <1>1, <3>2, <4>1 DEF Midway
    <3> QED BY <2>1, <3>1, <3>2 DEF Midway
  <2> QED BY <1>1, <1>2, <2>1, <2>2 DEF Steady
<1> QED BY <1>3, <1>4

LEMMA AtomicNext == Atomic /\ [Next]_vars => Atomic'
<1> SUFFICES ASSUME Atomic, [Next]_vars PROVE Atomic'
  OBVIOUS
<1>1. CASE ReadOpcode
  BY <1>1, AtomicOpcode
<1>2. CASE Block
  BY <1>2, AtomicBlock
<1>3. ASSUME NEW cell \in EchoCells, NEW v \in Scribbles, Echo(cell, v) PROVE Atomic'
  BY <1>3, AtomicEcho
<1>4. CASE UNCHANGED vars
  BY <1>4, AtomicStutter
<1> QED BY <1>1, <1>2, <1>3, <1>4 DEF Next

(* Atomic says at the end of an instruction what RunsAsOneStep asks. *)
LEMMA AtomicEnds == Atomic => RunsAsOneStep
<1> SUFFICES ASSUME Atomic, todo = <<>>, ~torn, form # [op |-> "none"]
             PROVE  Machine(cpu, ram) = AsOneStep(form, start.cpu, start.ram)
  BY DEF RunsAsOneStep
<1>1. PICK c \in Cpu, m \in Memory : start.cpu = c /\ start.ram = m /\ Midway(c, m)
  BY DEF Atomic, Steady, Idling
<1>2. Machine(cpu, ram) = AsOneStep(form, c, m)
  BY <1>1, ModeEnds, OtherEnds DEF Midway
<1> QED BY <1>1, <1>2

(* An instruction is one step, of every form, over every memory and from every
   state of the registers, whatever samples the DSP writes between its blocks:
   as good as done at once, with every one of them written before it, unless
   one hit a cell that it had accessed already, or the stack (the OP_ and COND_
   macros, spc700.c:716-3560). *)
THEOREM InstructionsAreAtomic == Spec => []RunsAsOneStep
<1> QED BY AtomicInit, AtomicNext, AtomicEnds, PTL DEF Spec
==============================================================================
