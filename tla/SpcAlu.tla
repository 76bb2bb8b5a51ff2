------------------------------- MODULE SpcAlu -------------------------------
(***************************************************************************)
(* The arithmetic of the SPC700 core: the OP_ macros and the operations     *)
(* written out in the opcode switch of spc700.c, on the registers and on    *)
(* the flags as the core keeps them, a byte each, converted to and from the *)
(* PSW only where a program can see it.                                     *)
(*                                                                         *)
(* A program is a short sequence of operations; m and w are the byte and    *)
(* the word its operations read.                                            *)
(***************************************************************************)
EXTENDS SpcBits, Sequences

CONSTANT Suites   \* what is run: sets of [progs, a, x, y, psw, m, w], each
                  \* field the set of values to be tried

Byte == 0 .. 255
Word == 0 .. 256 * 256 - 1

ASSUME SuitesAreBytes ==
  \A suite \in Suites :
    /\ suite.progs \subseteq Seq(STRING) /\ suite.w \subseteq Word
    /\ suite.a \cup suite.x \cup suite.y \cup suite.psw \cup suite.m \subseteq Byte

VARIABLES
  a, x, y,   \* _A, _X, _Y
  fl,        \* _N_flag .. _C_flag, and _direct_page as dp
  m, w,      \* the operands: _data or _data2, and _data16
  stack,     \* the PSW pushed last
  todo,      \* operations to come
  start,     \* history: the registers at the start
  ran        \* history: operations done

vars == <<a, x, y, fl, m, w, stack, todo, start, ran>>

-----------------------------------------------------------------------------
(* The flags.  N is bit 7 of its byte, Z the byte that is zero, any other
   flag a byte that is not. *)
IsN(f) == f.n >= 128
IsZ(f) == f.z = 0
IsC(f) == f.c # 0
IsH(f) == f.h # 0
IsV(f) == f.v # 0

(* spc_setup_flags *)
SetupFlags(f) ==
  Bit(IsN(f), 128) + Bit(IsV(f), 64) + Bit(f.p # 0, 32) + Bit(f.b # 0, 16)
    + Bit(IsH(f), 8) + Bit(f.i # 0, 4) + Bit(IsZ(f), 2) + One(IsC(f))

\* mutant: Z is restored as it stands in the PSW
RestoredZ_Plain(psw) == Bit(HasBit(psw, 2), 2)
RestoredZ(psw) == Bit(~HasBit(psw, 2), 2)

(* spc_restore_flags, which sets _direct_page with P. *)
RestoreFlags(psw) ==
  [n |-> psw, v |-> Bit(HasBit(psw, 64), 64), p |-> One(HasBit(psw, 32)),
   dp |-> One(HasBit(psw, 32)),
   b |-> Bit(HasBit(psw, 16), 16), h |-> Bit(HasBit(psw, 8), 8),
   i |-> Bit(HasBit(psw, 4), 4), z |-> RestoredZ(psw), c |-> One(HasBit(psw, 1))]

(* set_flag_spc and clr_flag_spc, of the flags instructions set and clear, and
   complement_carry_spc. *)
SetFlag(f, flag) == [f EXCEPT ![flag] = 1]
ClrFlag(f, flag) == [f EXCEPT ![flag] = 0]
SetP(f, value) == [f EXCEPT !.p = value, !.dp = value]
ComplementCarry(f) == [f EXCEPT !.c = One(@ = 0)]

(* store_flags_nz: the argument is a byte. *)
StoreNZ(f, value) == [f EXCEPT !.n = value % 256, !.z = value % 256]

-----------------------------------------------------------------------------
Sign(v) == (v \div 128) % 2

(* OP_ADC: operands, flags -> result, flags. *)
AdcFlags(d, s, f) ==
  LET result == d + s + One(IsC(f)) IN
  [StoreNZ(f, result) EXCEPT
     !.h = One((d % 16) + (s % 16) + One(IsC(f)) > 15),
     !.c = One(result > 255),
     !.v = Bit(Sign(d) = Sign(s) /\ Sign(d) # Sign(result), 128)]
Adc(d, s, f) == (d + s + One(IsC(f))) % 256

\* mutant: the carry is taken as the borrow
Borrow_Carry(f) == One(IsC(f))
Borrow(f) == One(~IsC(f))

(* OP_SBC: the difference wraps, and a borrow shows above the byte. *)
SbcFlags(d, s, f) ==
  LET result == d - s - Borrow(f) IN
  [StoreNZ(f, result) EXCEPT
     !.h = One((d % 16) - (s % 16) - Borrow(f) >= 0),
     !.c = One(result >= 0),
     !.v = Bit(Sign(d) # Sign(s) /\ Sign(d) # Sign(result), 128)]
Sbc(d, s, f) == (d - s - Borrow(f)) % 256

(* OP_CMP *)
CmpFlags(d, s, f) == [StoreNZ(f, d - s) EXCEPT !.c = One(d >= s)]

-----------------------------------------------------------------------------
(* OP_ADDW, OP_SUBW and CMPW on words. *)
StoreNZWord(f, result) ==
  [f EXCEPT !.n = (result \div 256) % 256, !.z = One(result # 0)]
SignWord(v) == (v \div 32768) % 2

AddWord(d, s) == (d + s) % 65536
AddwFlags(d, s, f) ==
  LET carry_low == One((d % 256) + (s % 256) > 255)
      temp_high == (d \div 256) + (s \div 256) + carry_low
      result == AddWord(d, s)
  IN [StoreNZWord(f, result) EXCEPT
        !.h = One(((d \div 256) % 16) + ((s \div 256) % 16) + carry_low > 15),
        !.c = One(temp_high > 255),
        !.v = Bit(SignWord(d) = SignWord(s) /\ SignWord(d) # SignWord(result), 128)]

BorrowLow(d, s) == One(d % 256 < s % 256)

SubWord(d, s) ==
  (((d - s) % 256) + 256 * (((d \div 256) - (s \div 256) - BorrowLow(d, s)) % 256))
    % 65536
SubwFlags(d, s, f) ==
  LET temp_high == (d \div 256) - (s \div 256) - BorrowLow(d, s)
      result == SubWord(d, s)
  IN [StoreNZWord(f, result) EXCEPT
        !.h = One(((d \div 256) % 16) - ((s \div 256) % 16) - BorrowLow(d, s) >= 0),
        !.c = One(temp_high >= 0),
        !.v = Bit(SignWord(d) # SignWord(s) /\ SignWord(d) # SignWord(result), 128)]

CmpwFlags(d, s, f) == [StoreNZWord(f, d - s) EXCEPT !.c = One(d >= s)]

-----------------------------------------------------------------------------
(* OP_ASL, OP_ROL, OP_LSR, OP_ROR *)
Asl(v) == (2 * v) % 256
Rol(v, f) == (2 * v + One(IsC(f))) % 256
Lsr(v) == v \div 2
Ror(v, f) == v \div 2 + Bit(IsC(f), 128)
CarryOut(f, result, out) == [StoreNZ(f, result) EXCEPT !.c = Bit(out, 128)]

(* The 17-bit register of DIV YA,X: nine times a rotation, a bit of the
   quotient and a subtraction.  "Why XOR i don't know, but it's what works." *)
DivBit(yva, work_x) ==
  IF yva >= work_x THEN (IF yva % 2 = 0 THEN yva + 1 ELSE yva - 1) ELSE yva

DivStep(yva, work_x) ==
  LET rolled == ((2 * yva) % 131072) + ((2 * yva) \div 131072)
      flipped == DivBit(rolled, work_x)
  IN IF flipped % 2 = 1 THEN (flipped - work_x) % 131072 ELSE flipped

Thrice(yva, work_x) == DivStep(DivStep(DivStep(yva, work_x), work_x), work_x)

\* mutant: no round for the ninth bit
Divided_Eight(ya, work_x) ==
  DivStep(DivStep(Thrice(Thrice(ya, work_x), work_x), work_x), work_x)
Divided(ya, work_x) == Thrice(Thrice(Thrice(ya, work_x), work_x), work_x)

DivFlags(ya, xx, f) ==
  LET yva == Divided(ya, 512 * xx) IN
  [StoreNZ(f, yva) EXCEPT
     !.h = One(xx % 16 <= (ya \div 256) % 16),
     !.v = One(HasBit(yva, 256))]

-----------------------------------------------------------------------------
Init ==
  \E suite \in Suites : \E psw \in suite.psw :
    /\ a \in suite.a /\ x \in suite.x /\ y \in suite.y
    /\ m \in suite.m /\ w \in suite.w
    /\ fl = RestoreFlags(psw) /\ stack = psw
    /\ todo \in suite.progs /\ ran = <<>>
    /\ start = [a |-> a, y |-> y, psw |-> psw]

YA == 256 * y + a

Turn(op) ==
  /\ todo # <<>> /\ Head(todo) = op
  /\ todo' = Tail(todo) /\ ran' = Append(ran, op)
  /\ UNCHANGED <<m, start>>
Do(op) == Turn(op) /\ UNCHANGED w

ADC == Do("ADC") /\ a' = Adc(a, m, fl) /\ fl' = AdcFlags(a, m, fl)
       /\ UNCHANGED <<x, y, stack>>
SBC == Do("SBC") /\ a' = Sbc(a, m, fl) /\ fl' = SbcFlags(a, m, fl)
       /\ UNCHANGED <<x, y, stack>>
CMP == Do("CMP") /\ fl' = CmpFlags(a, m, fl) /\ UNCHANGED <<a, x, y, stack>>

(* OP_OR, OP_AND, OP_EOR, and the steps by one. *)
Result(v) == a' = v /\ fl' = StoreNZ(fl, v) /\ UNCHANGED <<x, y, stack>>
OR == Do("OR") /\ Result(BitOr(a, m))
AND == Do("AND") /\ Result(BitAnd(a, m))
EOR == Do("EOR") /\ Result(BitXor(a, m))
INC == Do("INC") /\ Result((a + 1) % 256)
DEC == Do("DEC") /\ Result((a - 1) % 256)

(* XCN: the halves are moved apart in _A and in _data, and put together. *)
XCN == Do("XCN") /\ Result(BitOr((16 * a) % 256, a \div 16))

(* TSET1 and TCLR1 test before they set or clear. *)
TEST == Do("TEST") /\ fl' = StoreNZ(fl, BitAnd(m, a)) /\ UNCHANGED <<a, x, y, stack>>

SetYA(v) == a' = v % 256 /\ y' = v \div 256 /\ UNCHANGED <<x, stack>>
ADDW == Do("ADDW") /\ SetYA(AddWord(YA, w)) /\ fl' = AddwFlags(YA, w, fl)
SUBW == Do("SUBW") /\ SetYA(SubWord(YA, w)) /\ fl' = SubwFlags(YA, w, fl)
CMPW == Do("CMPW") /\ fl' = CmpwFlags(YA, w, fl) /\ UNCHANGED <<a, x, y, stack>>

(* OP_INCW, OP_DECW, OP_MOVW_READ: no flag but N and Z. *)
StepWord(v) == w' = v /\ fl' = StoreNZWord(fl, v) /\ UNCHANGED <<a, x, y, stack>>
INCW == Turn("INCW") /\ StepWord((w + 1) % 65536)
DECW == Turn("DECW") /\ StepWord((w - 1) % 65536)
MOVW == Do("MOVW") /\ SetYA(w) /\ fl' = StoreNZWord(fl, w)

(* The flags of a product are those of its high byte. *)
MUL == Do("MUL") /\ SetYA(y * a) /\ fl' = StoreNZ(fl, (y * a) \div 256)

DIV ==
  /\ Do("DIV")
  /\ LET yva == Divided(YA, 512 * x) IN
     a' = yva % 256 /\ y' = (yva \div 512) % 256
  /\ fl' = DivFlags(YA, x, fl)
  /\ UNCHANGED <<x, stack>>

Rotate(v, out) ==
  /\ a' = v /\ fl' = CarryOut(fl, v, out)
  /\ UNCHANGED <<x, y, stack>>
ASL == Do("ASL") /\ Rotate(Asl(a), HasBit(a, 128))
ROL == Do("ROL") /\ Rotate(Rol(a, fl), HasBit(a, 128))
LSR == Do("LSR") /\ Rotate(Lsr(a), HasBit(a, 1))
ROR == Do("ROR") /\ Rotate(Ror(a, fl), HasBit(a, 1))

\* mutant: the digit below ten is adjusted as well
LowDigitOver_Nine(v) == v % 16 >= 9
LowDigitOver(v) == v % 16 > 9

(* DAA tests the value it found, and the carry its first step may set. *)
DAA ==
  LET six == LowDigitOver(a) \/ IsH(fl)
      low == IF six THEN (a + 6) % 256 ELSE a
      carry == IsC(fl) \/ (six /\ low < 6)
      sixty == a > 153 \/ carry
      res == IF sixty THEN (low + 96) % 256 ELSE low
  IN /\ Do("DAA")
     /\ a' = res
     /\ fl' = [StoreNZ(fl, res) EXCEPT !.c = IF sixty \/ carry THEN 1 ELSE fl.c]
     /\ UNCHANGED <<x, y, stack>>

DAS ==
  LET low == IF LowDigitOver(a) \/ ~IsH(fl) THEN (a - 6) % 256 ELSE a
      sixty == a > 153 \/ ~IsC(fl)
      res == IF sixty THEN (low - 96) % 256 ELSE low
  IN /\ Do("DAS")
     /\ a' = res
     /\ fl' = [StoreNZ(fl, res) EXCEPT !.c = IF sixty THEN 0 ELSE fl.c]
     /\ UNCHANGED <<x, y, stack>>

(* CLRV clears H as well. *)
Flags(f) == fl' = f /\ UNCHANGED <<a, x, y, stack>>
CLRC == Do("CLRC") /\ Flags(ClrFlag(fl, "c"))
SETC == Do("SETC") /\ Flags(SetFlag(fl, "c"))
NOTC == Do("NOTC") /\ Flags(ComplementCarry(fl))
CLRV == Do("CLRV") /\ Flags(ClrFlag(ClrFlag(fl, "v"), "h"))
CLRP == Do("CLRP") /\ Flags(SetP(fl, 0))
SETP == Do("SETP") /\ Flags(SetP(fl, 1))
EI == Do("EI") /\ Flags(SetFlag(fl, "i"))
DI == Do("DI") /\ Flags(ClrFlag(fl, "i"))

(* BRK pushes the flags before it changes any. *)
BRK ==
  /\ Do("BRK") /\ stack' = SetupFlags(fl)
  /\ fl' = ClrFlag(SetFlag(fl, "b"), "i") /\ UNCHANGED <<a, x, y>>
PushPSW == Do("PUSH PSW") /\ stack' = SetupFlags(fl) /\ UNCHANGED <<a, x, y, fl>>
PopPSW == Do("POP PSW") /\ fl' = RestoreFlags(stack) /\ UNCHANGED <<a, x, y, stack>>

Next ==
  \/ ADC \/ SBC \/ CMP \/ ADDW \/ SUBW \/ CMPW \/ MUL \/ DIV
  \/ ASL \/ ROL \/ LSR \/ ROR \/ DAA \/ DAS
  \/ OR \/ AND \/ EOR \/ INC \/ DEC \/ XCN \/ TEST \/ INCW \/ DECW \/ MOVW
  \/ CLRC \/ SETC \/ NOTC \/ CLRV \/ CLRP \/ SETP \/ EI \/ DI
  \/ BRK \/ PushPSW \/ PopPSW

Spec == Init /\ [][Next]_vars

-----------------------------------------------------------------------------
StartCarry == HasBit(start.psw, 1)
Signed(v) == IF v >= 128 THEN v - 256 ELSE v
SignedWord(v) == IF v >= 32768 THEN v - 65536 ELSE v
FitsByte(v) == -128 <= v /\ v <= 127
FitsWord(v) == -32768 <= v /\ v <= 32767
StartYA == 256 * start.y + start.a

NZ(v) == (IsN(fl) <=> v >= 128) /\ (IsZ(fl) <=> v = 0)
NZWord(v) == (IsN(fl) <=> v >= 32768) /\ (IsZ(fl) <=> v = 0)

AdcExact ==
  LET sum == start.a + m + One(StartCarry)
      signed == Signed(start.a) + Signed(m) + One(StartCarry)
  IN ran = <<"ADC">> =>
       /\ a + 256 * One(IsC(fl)) = sum /\ NZ(a)
       /\ IsV(fl) <=> ~FitsByte(signed)
       /\ IsH(fl) <=> a % 16 < (start.a % 16) + (m % 16) + One(StartCarry)
SbcExact ==
  LET diff == start.a - m - One(~StartCarry)
      signed == Signed(start.a) - Signed(m) - One(~StartCarry)
  IN ran = <<"SBC">> =>
       /\ a - 256 * One(~IsC(fl)) = diff /\ NZ(a)
       /\ IsV(fl) <=> ~FitsByte(signed)
       /\ IsH(fl) <=> a % 16 = (start.a % 16) - (m % 16) - One(~StartCarry)
AddwExact ==
  ran = <<"ADDW">> =>
    /\ YA + 65536 * One(IsC(fl)) = StartYA + w /\ NZWord(YA)
    /\ IsV(fl) <=> ~FitsWord(SignedWord(StartYA) + SignedWord(w))
    /\ IsH(fl) <=> YA % 4096 < (StartYA % 4096) + (w % 4096)
SubwExact ==
  ran = <<"SUBW">> =>
    /\ YA - 65536 * One(~IsC(fl)) = StartYA - w /\ NZWord(YA)
    /\ IsV(fl) <=> ~FitsWord(SignedWord(StartYA) - SignedWord(w))
    /\ IsH(fl) <=> YA % 4096 = (StartYA % 4096) - (w % 4096)
ComparesOrder ==
  /\ ran = <<"CMP">> => (IsC(fl) <=> start.a >= m) /\ (IsZ(fl) <=> start.a = m)
  /\ ran = <<"CMPW">> => (IsC(fl) <=> StartYA >= w) /\ (IsZ(fl) <=> StartYA = w)
BitsShareTheSum ==
  /\ ran = <<"OR">> => a + BitAnd(start.a, m) = start.a + m /\ NZ(a)
  /\ ran = <<"AND">> => a + BitOr(start.a, m) = start.a + m /\ NZ(a)
  /\ ran = <<"EOR">> => a + 2 * BitAnd(start.a, m) = start.a + m /\ NZ(a)
  /\ ran = <<"TEST">> => (IsZ(fl) <=> BitOr(a, m) = a + m)
ShiftsDouble ==
  /\ ran = <<"ASL">> => a + 256 * One(IsC(fl)) = 2 * start.a /\ NZ(a)
  /\ ran = <<"LSR">> => 2 * a + One(IsC(fl)) = start.a /\ NZ(a)
ThereAndBack ==
  ran \in {<<"ROL", "ROR">>, <<"ROR", "ROL">>, <<"INC", "DEC">>, <<"DEC", "INC">>,
           <<"XCN", "XCN">>} =>
    a = start.a /\ NZ(a) /\ (IsC(fl) <=> StartCarry)
WordSteps ==
  /\ ran \in {<<"INCW">>, <<"DECW">>, <<"MOVW">>} =>
       NZWord(w) /\ (IsC(fl) <=> StartCarry)
  /\ ran = <<"INCW", "ADDW">> => YA = (StartYA + w) % 65536 /\ NZWord(YA)
  /\ ran = <<"DECW", "SUBW">> => YA = (StartYA - w) % 65536 /\ NZWord(YA)

(* ADC and SBC are sum and difference: the carry completes the byte, V tells
   that the signed value does not fit, H that the low digit carried.  So are
   ADDW and SUBW, though their bytes are computed apart, with the carry between
   them and without one at the start.  Comparisons order unsigned numbers;
   OR and AND share the sum of the operands between them, and EOR is what
   they differ by; a shift is a product or a quotient with the carry, and
   rotations undo each other; steps by one go round, and leave the carry alone. *)
SumsAreExact ==
  /\ AdcExact /\ SbcExact /\ AddwExact /\ SubwExact /\ ComparesOrder
  /\ BitsShareTheSum /\ ShiftsDouble /\ ThereAndBack /\ WordSteps

(* Decimal arithmetic: two digits in, two digits and a carry out. *)
IsBcd(v) == v % 16 <= 9 /\ v \div 16 <= 9
Dec(v) == 10 * (v \div 16) + (v % 16)
DecimalAdjusts ==
  IsBcd(start.a) /\ IsBcd(m) =>
    /\ ran = <<"ADC", "DAA">> =>
         IsBcd(a) /\ Dec(a) + 100 * One(IsC(fl))
                      = Dec(start.a) + Dec(m) + One(StartCarry)
    /\ ran = <<"SBC", "DAS">> =>
         IsBcd(a) /\ Dec(a) - 100 * One(~IsC(fl))
                      = Dec(start.a) - Dec(m) - One(~StartCarry)

(* The nine rotations are a division while the quotient has nine bits, the
   ninth being V; and MUL is undone by it. *)
DivDivides ==
  /\ ran = <<"DIV">> /\ start.y < 2 * x =>
       /\ x * (a + 256 * One(IsV(fl))) + y = StartYA /\ y < x
       /\ NZ(a)
  /\ ran = <<"MUL", "DIV">> /\ x = start.y /\ x # 0 =>
       a = start.a /\ y = 0 /\ ~IsV(fl)

(* The PSW a program sees is the one it set, whatever bytes the core keeps
   for it: after any operation, pushing and pulling it changes no flag, also
   the second time and after the flags were changed one at a time; and direct
   page addresses go where P says. *)
PswIsFaithful ==
  LET last == ran[Len(ran)]
  IN
  /\ (fl.dp = 1) <=> HasBit(SetupFlags(fl), 32)
  /\ ran # <<>> /\ last = "PUSH PSW" => SetupFlags(RestoreFlags(stack)) = stack
  /\ ran # <<>> /\ last = "POP PSW" => SetupFlags(fl) = stack
  /\ ran = <<"PUSH PSW">> => stack = start.psw
  /\ ran = <<"BRK">> => stack = start.psw
  /\ ran = <<"BRK", "POP PSW">> => SetupFlags(fl) = start.psw
  /\ ran = <<"NOTC", "NOTC", "PUSH PSW">> => stack = start.psw
  /\ ran = <<"NOTC", "PUSH PSW">> => stack # start.psw /\ stack \div 2 = start.psw \div 2
=============================================================================
