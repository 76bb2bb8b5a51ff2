--------------------------- MODULE SpcAlu_proofs ----------------------------
(***************************************************************************)
(* What SpcAlu says of the arithmetic, proved for every byte and every word, *)
(* and for every program of its operations.                                  *)
(***************************************************************************)
EXTENDS SpcAlu, SequenceTheorems, TLAPS

(* What the core keeps of the flags: bytes, _direct_page among them, which is
   P's. *)
FlagBytes ==
  {f \in [n : Byte, v : Byte, p : {0, 1}, dp : {0, 1}, b : Byte, h : Byte, i : Byte,
          z : Byte, c : Byte] : f.dp = f.p}

Registers ==
  /\ a \in Byte /\ x \in Byte /\ y \in Byte /\ w \in Word
  /\ stack \in Byte /\ fl \in FlagBytes

Types ==
  /\ Registers
  /\ m \in Byte /\ start \in [a : Byte, y : Byte, psw : Byte]
  /\ ran \in Seq(STRING) /\ todo \in Seq(STRING)

-----------------------------------------------------------------------------
(* Bits and bytes. *)

LEMMA OneIs == \A cond : One(cond) \in {0, 1} /\ (One(cond) = 1 <=> cond)
BY DEF One, Bit

(* A byte is the sum of its bits. *)
LEMMA Bits ==
  ASSUME NEW v \in Byte
  PROVE  v = Bit(HasBit(v, 128), 128) + Bit(HasBit(v, 64), 64)
               + Bit(HasBit(v, 32), 32) + Bit(HasBit(v, 16), 16)
               + Bit(HasBit(v, 8), 8) + Bit(HasBit(v, 4), 4)
               + Bit(HasBit(v, 2), 2) + One(HasBit(v, 1))
BY DEF Bit, One, HasBit, Byte

LEMMA FlagsAre ==
  ASSUME NEW f \in FlagBytes
  PROVE  /\ SetupFlags(f) \in Byte
         /\ HasBit(SetupFlags(f), 128) <=> IsN(f)
         /\ HasBit(SetupFlags(f), 64) <=> IsV(f)
         /\ HasBit(SetupFlags(f), 32) <=> f.p # 0
         /\ HasBit(SetupFlags(f), 16) <=> f.b # 0
         /\ HasBit(SetupFlags(f), 8) <=> IsH(f)
         /\ HasBit(SetupFlags(f), 4) <=> f.i # 0
         /\ HasBit(SetupFlags(f), 2) <=> IsZ(f)
         /\ HasBit(SetupFlags(f), 1) <=> IsC(f)
BY DEF SetupFlags, Bit, One, HasBit, Byte

LEMMA RestoreTypes ==
  ASSUME NEW psw \in Byte
  PROVE  RestoreFlags(psw) \in FlagBytes
BY DEF RestoreFlags, FlagBytes, Byte, Bit, One, RestoredZ

(* Every PSW comes back from the bytes it is kept as. *)
LEMMA RoundTrip ==
  ASSUME NEW psw \in Byte
  PROVE  SetupFlags(RestoreFlags(psw)) = psw
<1> DEFINE f == RestoreFlags(psw)
<1>1. /\ IsN(f) <=> HasBit(psw, 128)
      /\ IsV(f) <=> HasBit(psw, 64)
      /\ f.p # 0 <=> HasBit(psw, 32)
      /\ f.b # 0 <=> HasBit(psw, 16)
      /\ IsH(f) <=> HasBit(psw, 8)
      /\ f.i # 0 <=> HasBit(psw, 4)
      /\ IsZ(f) <=> HasBit(psw, 2)
      /\ IsC(f) <=> HasBit(psw, 1)
  BY DEF RestoreFlags, IsN, IsV, IsH, IsZ, IsC, Bit, One, RestoredZ, HasBit, Byte
<1> HIDE DEF f
<1>2. /\ Bit(IsN(f), 128) = Bit(HasBit(psw, 128), 128)
      /\ Bit(IsV(f), 64) = Bit(HasBit(psw, 64), 64)
      /\ Bit(f.p # 0, 32) = Bit(HasBit(psw, 32), 32)
      /\ Bit(f.b # 0, 16) = Bit(HasBit(psw, 16), 16)
      /\ Bit(IsH(f), 8) = Bit(HasBit(psw, 8), 8)
      /\ Bit(f.i # 0, 4) = Bit(HasBit(psw, 4), 4)
      /\ Bit(IsZ(f), 2) = Bit(HasBit(psw, 2), 2)
      /\ One(IsC(f)) = One(HasBit(psw, 1))
  BY <1>1 DEF Bit, One
<1>3. SetupFlags(f) = psw
  BY <1>2, Bits DEF SetupFlags
<1> QED BY <1>3 DEF f

(* Complementing the carry changes that bit of the PSW and no other. *)
LEMMA Complemented ==
  ASSUME NEW f \in FlagBytes
  PROVE  /\ SetupFlags(ComplementCarry(f)) = SetupFlags(f) + (IF IsC(f) THEN -1 ELSE 1)
         /\ SetupFlags(f) \div 2 = SetupFlags(ComplementCarry(f)) \div 2
         /\ IsC(ComplementCarry(f)) <=> ~IsC(f)
<1> DEFINE g == ComplementCarry(f)
           high == Bit(IsN(f), 128) + Bit(IsV(f), 64) + Bit(f.p # 0, 32)
                     + Bit(f.b # 0, 16) + Bit(IsH(f), 8) + Bit(f.i # 0, 4)
                     + Bit(IsZ(f), 2)
<1>1. /\ g.n = f.n /\ g.v = f.v /\ g.p = f.p /\ g.b = f.b /\ g.h = f.h
      /\ g.i = f.i /\ g.z = f.z /\ g.c = One(f.c = 0)
  BY DEF FlagBytes, ComplementCarry
<1>2. IsC(g) <=> ~IsC(f)
  BY <1>1, OneIs DEF IsC, FlagBytes, Byte
<1>3. SetupFlags(g) = high + One(IsC(g)) /\ SetupFlags(f) = high + One(IsC(f))
  BY <1>1 DEF SetupFlags, IsN, IsV, IsH, IsZ
<1>4. high \in Int /\ high % 2 = 0
  BY DEF Bit
<1> QED BY <1>2, <1>3, <1>4 DEF One, Bit

-----------------------------------------------------------------------------
(* The operators on bits. *)

LEMMA BitOperators ==
  ASSUME NEW p \in Byte, NEW q \in Byte
  PROVE  /\ BitOr(p, q) \in Byte /\ BitAnd(p, q) \in Byte /\ BitXor(p, q) \in Byte
         /\ BitOr(p, q) + BitAnd(p, q) = p + q
         /\ BitXor(p, q) + 2 * BitAnd(p, q) = p + q
         /\ BitAnd(q, p) = BitAnd(p, q)
<1> DEFINE P(v) == HasBit(p, v)
           Q(v) == HasBit(q, v)
<1>1. /\ BitOr(p, q) \in Byte /\ BitAnd(p, q) \in Byte /\ BitXor(p, q) \in Byte
  BY DEF BitOr, BitAnd, BitXor, ByteOf, Bit, One, Byte
<1>2. ASSUME NEW v \in Int, NEW k \in Int
      PROVE  /\ Bit(P(v) \/ Q(v), k) \in Int /\ Bit(P(v) /\ Q(v), k) \in Int
             /\ Bit(P(v) # Q(v), k) \in Int /\ Bit(P(v), k) \in Int /\ Bit(Q(v), k) \in Int
             /\ Bit(P(v) \/ Q(v), k) + Bit(P(v) /\ Q(v), k) = Bit(P(v), k) + Bit(Q(v), k)
             /\ Bit(P(v) # Q(v), k) + 2 * Bit(P(v) /\ Q(v), k) = Bit(P(v), k) + Bit(Q(v), k)
  BY DEF Bit, HasBit
<1> DEFINE Total(f) == f[128] + f[64] + f[32] + f[16] + f[8] + f[4] + f[2] + f[1]
           values == {128, 64, 32, 16, 8, 4, 2, 1}
           or == [v \in values |-> Bit(P(v) \/ Q(v), v)]
           and == [v \in values |-> Bit(P(v) /\ Q(v), v)]
           xor == [v \in values |-> Bit(P(v) # Q(v), v)]
           ofp == [v \in values |-> Bit(P(v), v)]
           ofq == [v \in values |-> Bit(Q(v), v)]
<1>3. /\ BitOr(p, q) = Total(or) /\ BitAnd(p, q) = Total(and)
      /\ BitXor(p, q) = Total(xor)
  BY DEF BitOr, BitAnd, BitXor, ByteOf, One
<1>4. p = Total(ofp) /\ q = Total(ofq)
  BY Bits DEF One
<1>5. /\ or \in [values -> Int] /\ and \in [values -> Int] /\ xor \in [values -> Int]
      /\ ofp \in [values -> Int] /\ ofq \in [values -> Int]
      /\ \A v \in values : or[v] + and[v] = ofp[v] + ofq[v]
                          /\ xor[v] + 2 * and[v] = ofp[v] + ofq[v]
  BY <1>2
<1> HIDE DEF or, and, xor, ofp, ofq
<1>6. Total(or) + Total(and) = Total(ofp) + Total(ofq)
  BY <1>5
<1>7. Total(xor) + 2 * Total(and) = Total(ofp) + Total(ofq)
  BY <1>5
<1>8. BitAnd(q, p) = BitAnd(p, q)
  BY DEF BitAnd, ByteOf, Bit, One
<1> QED BY <1>1, <1>3, <1>4, <1>6, <1>7, <1>8

(* XCN exchanges the digits. *)
LEMMA Halves ==
  ASSUME NEW v \in Byte
  PROVE  /\ BitOr((16 * v) % 256, v \div 16) = 16 * (v % 16) + v \div 16
         /\ BitOr((16 * v) % 256, v \div 16) \in Byte
<1> DEFINE p == (16 * v) % 256
           q == v \div 16
<1>1. p = 16 * (v % 16) /\ p \in Byte /\ q \in Byte
  BY DEF Byte
<1>2. /\ ~HasBit(p, 1) /\ ~HasBit(p, 2) /\ ~HasBit(p, 4) /\ ~HasBit(p, 8)
      /\ ~HasBit(q, 16) /\ ~HasBit(q, 32) /\ ~HasBit(q, 64) /\ ~HasBit(q, 128)
  BY DEF HasBit, Byte
<1> HIDE DEF p, q
<1>3. BitAnd(p, q) = 0
  BY <1>2 DEF BitAnd, ByteOf, Bit, One
<1>4. BitOr(p, q) + BitAnd(p, q) = p + q /\ BitOr(p, q) \in Byte
  BY <1>1, BitOperators
<1>5. BitOr(p, q) = p + q
  BY <1>1, <1>3, <1>4 DEF Byte
<1> QED BY <1>1, <1>4, <1>5 DEF p, q

-----------------------------------------------------------------------------
(* Sums and differences. *)

WithNZ(f, n, z) == [f EXCEPT !.n = n, !.z = z]

LEMMA SetNZ ==
  ASSUME NEW f \in FlagBytes, NEW n \in Byte, NEW z \in Byte
  PROVE  LET g == WithNZ(f, n, z)
         IN /\ g \in FlagBytes /\ g.n = n /\ g.z = z
            /\ g.c = f.c /\ g.h = f.h /\ g.dp = f.dp /\ g.p = f.p
<1> DEFINE g == WithNZ(f, n, z)
<1>1. g \in FlagBytes
  BY DEF FlagBytes, WithNZ
<1>2. g.n = n /\ g.z = z
  BY DEF FlagBytes, WithNZ
<1>3. g.c = f.c /\ g.h = f.h /\ g.dp = f.dp /\ g.p = f.p
  BY DEF FlagBytes, WithNZ
<1> QED BY <1>1, <1>2, <1>3

LEMMA StoreTypes ==
  ASSUME NEW f \in FlagBytes, NEW v \in Int
  PROVE  /\ StoreNZ(f, v) \in FlagBytes
         /\ StoreNZ(f, v).c = f.c /\ StoreNZ(f, v).h = f.h
         /\ IsN(StoreNZ(f, v)) <=> v % 256 >= 128
         /\ IsZ(StoreNZ(f, v)) <=> v % 256 = 0
         /\ StoreNZWord(f, v) \in FlagBytes
         /\ StoreNZWord(f, v).c = f.c /\ StoreNZWord(f, v).h = f.h
         /\ IsN(StoreNZWord(f, v)) <=> (v \div 256) % 256 >= 128
         /\ IsZ(StoreNZWord(f, v)) <=> v = 0
<1> DEFINE low == v % 256
           high == (v \div 256) % 256
           zero == One(v # 0)
           g == StoreNZ(f, v)
           k == StoreNZWord(f, v)
<1>1. low \in Byte /\ high \in Byte /\ zero \in Byte
  BY DEF Byte, One, Bit
<1>2. zero = 0 <=> v = 0
  BY OneIs
<1>3. g = WithNZ(f, low, low) /\ k = WithNZ(f, high, zero)
  BY DEF StoreNZ, StoreNZWord, WithNZ
<1> HIDE DEF g, k, low, high, zero
<1>4. g \in FlagBytes /\ g.n = low /\ g.z = low /\ g.c = f.c /\ g.h = f.h
  BY <1>1, <1>3, SetNZ
<1>5. k \in FlagBytes /\ k.n = high /\ k.z = zero /\ k.c = f.c /\ k.h = f.h
  BY <1>1, <1>3, SetNZ
<1>6. /\ IsN(g) <=> low >= 128
      /\ IsZ(g) <=> low = 0
      /\ IsN(k) <=> high >= 128
      /\ IsZ(k) <=> v = 0
  BY <1>2, <1>4, <1>5 DEF IsN, IsZ
<1> QED BY <1>4, <1>5, <1>6 DEF g, k, low, high

(* What the flags say once H, C and V are set as well. *)
SetHCV(f, h, c, v) == [f EXCEPT !.h = h, !.c = c, !.v = v]

LEMMA HCVTypes ==
  ASSUME NEW f \in FlagBytes, NEW h \in Byte, NEW c \in Byte, NEW v \in Byte
  PROVE  /\ SetHCV(f, h, c, v) \in FlagBytes
         /\ IsN(SetHCV(f, h, c, v)) <=> IsN(f)
         /\ IsZ(SetHCV(f, h, c, v)) <=> IsZ(f)
         /\ IsH(SetHCV(f, h, c, v)) <=> h # 0
         /\ IsC(SetHCV(f, h, c, v)) <=> c # 0
         /\ IsV(SetHCV(f, h, c, v)) <=> v # 0
<1> DEFINE g == SetHCV(f, h, c, v)
<1>1. g \in FlagBytes
  BY DEF SetHCV, FlagBytes
<1>2. g.n = f.n /\ g.z = f.z /\ g.h = h /\ g.c = c /\ g.v = v
  BY DEF SetHCV, FlagBytes
<1> HIDE DEF g
<1>3. /\ g \in FlagBytes /\ (IsN(g) <=> IsN(f)) /\ (IsZ(g) <=> IsZ(f))
      /\ (IsH(g) <=> h # 0) /\ (IsC(g) <=> c # 0) /\ (IsV(g) <=> v # 0)
  BY <1>1, <1>2 DEF IsN, IsZ, IsH, IsC, IsV
<1> QED BY <1>3 DEF g

LEMMA FlagValues ==
  /\ \A cond : One(cond) \in Byte /\ (One(cond) # 0 <=> cond)
  /\ \A cond : Bit(cond, 128) \in Byte /\ (Bit(cond, 128) # 0 <=> cond)
<1>1. 0 \in Byte /\ 1 \in Byte /\ 128 \in Byte /\ 1 # 0 /\ 128 # 0
  BY DEF Byte
<1>2. ASSUME NEW cond
      PROVE  One(cond) \in Byte /\ (One(cond) # 0 <=> cond)
  <2>1. CASE cond
    BY <1>1, <2>1 DEF One, Bit
  <2>2. CASE ~cond
    BY <1>1, <2>2 DEF One, Bit
  <2> QED BY <2>1, <2>2
<1>3. ASSUME NEW cond
      PROVE  Bit(cond, 128) \in Byte /\ (Bit(cond, 128) # 0 <=> cond)
  <2>1. CASE cond
    BY <1>1, <2>1 DEF Bit
  <2>2. CASE ~cond
    BY <1>1, <2>2 DEF Bit
  <2> QED BY <2>1, <2>2
<1> QED BY <1>2, <1>3

LEMMA AdcIs ==
  ASSUME NEW d \in Byte, NEW s \in Byte, NEW f \in FlagBytes
  PROVE  LET r == Adc(d, s, f)
             g == AdcFlags(d, s, f)
             c == One(IsC(f))
         IN /\ r \in Byte /\ g \in FlagBytes
            /\ r + 256 * One(IsC(g)) = d + s + c
            /\ (IsN(g) <=> r >= 128) /\ (IsZ(g) <=> r = 0)
            /\ IsV(g) <=> ~FitsByte(Signed(d) + Signed(s) + c)
            /\ IsH(g) <=> r % 16 < (d % 16) + (s % 16) + c
<1> DEFINE c == One(IsC(f))
           result == d + s + c
           r == Adc(d, s, f)
           g == AdcFlags(d, s, f)
           hh == One((d % 16) + (s % 16) + c > 15)
           cc == One(result > 255)
           vv == Bit(Sign(d) = Sign(s) /\ Sign(d) # Sign(result), 128)
<1>1. c \in {0, 1}
  BY OneIs
<1>2. r = result % 256
  BY DEF Adc
<1>3. g = SetHCV(StoreNZ(f, result), hh, cc, vv)
  BY DEF AdcFlags, SetHCV
<1> HIDE DEF g, r, c
<1>4. result \in 0 .. 511
  BY <1>1 DEF Byte
<1>5. hh \in Byte /\ cc \in Byte /\ vv \in Byte
  BY FlagValues
<1>6. cc # 0 <=> result > 255
  BY DEF One, Bit
<1>7. r \in Byte /\ r = (IF result > 255 THEN result - 256 ELSE result)
  <2> HIDE DEF result
  <2> QED BY <1>2, <1>4 DEF Byte
<1>8. hh # 0 <=> r % 16 < (d % 16) + (s % 16) + c
  BY <1>1, <1>7 DEF Byte, One, Bit
<1>9. vv # 0 <=> ~FitsByte(Signed(d) + Signed(s) + c)
  BY <1>1 DEF Byte, Sign, Signed, FitsByte, Bit
<1> HIDE DEF hh, cc, vv, result
<1>10. /\ g \in FlagBytes
       /\ (IsN(g) <=> r >= 128) /\ (IsZ(g) <=> r = 0)
       /\ (IsH(g) <=> hh # 0) /\ (IsC(g) <=> cc # 0) /\ (IsV(g) <=> vv # 0)
  <2> DEFINE k == StoreNZ(f, result)
  <2>1. k \in FlagBytes /\ (IsN(k) <=> r >= 128) /\ (IsZ(k) <=> r = 0)
    BY <1>2, <1>4, StoreTypes
  <2> HIDE DEF k
  <2>2. g = SetHCV(k, hh, cc, vv)
    BY <1>3 DEF k
  <2> QED BY <1>5, <2>1, <2>2, HCVTypes
<1>11. r + 256 * One(IsC(g)) = result
  BY <1>4, <1>6, <1>7, <1>10 DEF One, Bit, Byte
<1> QED BY <1>7, <1>8, <1>9, <1>10, <1>11 DEF g, r, c, result

LEMMA SbcIs ==
  ASSUME NEW d \in Byte, NEW s \in Byte, NEW f \in FlagBytes
  PROVE  LET r == Sbc(d, s, f)
             g == SbcFlags(d, s, f)
             b == One(~IsC(f))
         IN /\ r \in Byte /\ g \in FlagBytes
            /\ r - 256 * One(~IsC(g)) = d - s - b
            /\ (IsN(g) <=> r >= 128) /\ (IsZ(g) <=> r = 0)
            /\ IsV(g) <=> ~FitsByte(Signed(d) - Signed(s) - b)
            /\ IsH(g) <=> r % 16 = (d % 16) - (s % 16) - b
<1> DEFINE b == One(~IsC(f))
           result == d - s - b
           r == Sbc(d, s, f)
           g == SbcFlags(d, s, f)
           hh == One((d % 16) - (s % 16) - b >= 0)
           cc == One(result >= 0)
           vv == Bit(Sign(d) # Sign(s) /\ Sign(d) # Sign(result), 128)
<1>1. b \in {0, 1}
  BY OneIs
<1>2. r = result % 256
  BY DEF Sbc, Borrow
<1>3. g = SetHCV(StoreNZ(f, result), hh, cc, vv)
  BY DEF SbcFlags, SetHCV, Borrow
<1> HIDE DEF g, r, b
<1>4. result \in -256 .. 255
  BY <1>1 DEF Byte
<1>5. hh \in Byte /\ cc \in Byte /\ vv \in Byte
  BY FlagValues
<1>6. cc # 0 <=> result >= 0
  BY DEF One, Bit
<1>7. r \in Byte /\ r = (IF result >= 0 THEN result ELSE result + 256)
  <2> HIDE DEF result
  <2> QED BY <1>2, <1>4 DEF Byte
<1>8. hh # 0 <=> r % 16 = (d % 16) - (s % 16) - b
  BY <1>1, <1>7 DEF Byte, One, Bit
<1>9. vv # 0 <=> ~FitsByte(Signed(d) - Signed(s) - b)
  BY <1>1 DEF Byte, Sign, Signed, FitsByte, Bit
<1> HIDE DEF hh, cc, vv, result
<1>10. /\ g \in FlagBytes
       /\ (IsN(g) <=> r >= 128) /\ (IsZ(g) <=> r = 0)
       /\ (IsH(g) <=> hh # 0) /\ (IsC(g) <=> cc # 0) /\ (IsV(g) <=> vv # 0)
  <2> DEFINE k == StoreNZ(f, result)
  <2>1. k \in FlagBytes /\ (IsN(k) <=> r >= 128) /\ (IsZ(k) <=> r = 0)
    <3>1. result \in Int
      BY <1>4
    <3>2. k \in FlagBytes /\ (IsN(k) <=> result % 256 >= 128)
          /\ (IsZ(k) <=> result % 256 = 0)
      BY <3>1, StoreTypes
    <3> HIDE DEF k
    <3> QED BY <1>2, <3>2
  <2> HIDE DEF k
  <2>2. g = SetHCV(k, hh, cc, vv)
    BY <1>3 DEF k
  <2> QED BY <1>5, <2>1, <2>2, HCVTypes
<1>11. r - 256 * One(~IsC(g)) = result
  BY <1>4, <1>6, <1>7, <1>10 DEF One, Bit, Byte
<1> QED BY <1>7, <1>8, <1>9, <1>10, <1>11 DEF g, r, b, result

(* The carry of a comparison, of words or bytes, and of a shift. *)
WithC(f, c) == [f EXCEPT !.c = c]

LEMMA SetCarry ==
  ASSUME NEW f \in FlagBytes, NEW c \in Byte
  PROVE  LET g == WithC(f, c)
         IN /\ g \in FlagBytes /\ (IsC(g) <=> c # 0) /\ g.h = f.h
            /\ (IsN(g) <=> IsN(f)) /\ (IsZ(g) <=> IsZ(f))
<1> DEFINE g == WithC(f, c)
<1>1. g \in FlagBytes
  BY DEF FlagBytes, WithC
<1>2. g.n = f.n /\ g.z = f.z /\ g.c = c /\ g.h = f.h
  BY DEF FlagBytes, WithC
<1> HIDE DEF g
<1>3. /\ g \in FlagBytes /\ (IsC(g) <=> c # 0) /\ g.h = f.h
      /\ (IsN(g) <=> IsN(f)) /\ (IsZ(g) <=> IsZ(f))
  BY <1>1, <1>2 DEF IsN, IsZ, IsC
<1> QED BY <1>3 DEF g

LEMMA Interval == \A n \in Int : \A v : v \in 0 .. n <=> v \in Int /\ 0 <= v /\ v <= n
OBVIOUS

TopWord == 256 * 256 - 1

LEMMA WordIs == \A v : v \in Word <=> v \in Int /\ 0 <= v /\ v < 65536
<1>1. TopWord \in Int
  BY DEF TopWord
<1>2. Word = 0 .. TopWord
  BY Zenon DEF Word, TopWord
<1>3. \A v : v \in Word <=> v \in Int /\ 0 <= v /\ v <= TopWord
  BY <1>1, <1>2, Interval
<1>4. TopWord = 65535
  BY DEF TopWord
<1> QED BY <1>3, <1>4

LEMMA ByteIs == \A v : v \in Byte <=> v \in Int /\ 0 <= v /\ v < 256
BY DEF Byte

LEMMA CmpIs ==
  ASSUME NEW f \in FlagBytes
  PROVE  /\ \A d, s \in Byte :
              /\ CmpFlags(d, s, f) \in FlagBytes
              /\ IsC(CmpFlags(d, s, f)) <=> d >= s
              /\ IsZ(CmpFlags(d, s, f)) <=> d = s
         /\ \A d, s \in Word :
              /\ CmpwFlags(d, s, f) \in FlagBytes
              /\ IsC(CmpwFlags(d, s, f)) <=> d >= s
              /\ IsZ(CmpwFlags(d, s, f)) <=> d = s
<1>1. ASSUME NEW d \in Byte, NEW s \in Byte
      PROVE  /\ CmpFlags(d, s, f) \in FlagBytes
             /\ IsC(CmpFlags(d, s, f)) <=> d >= s
             /\ IsZ(CmpFlags(d, s, f)) <=> d = s
  <2> DEFINE result == d - s
             k == StoreNZ(f, result)
             c == One(d >= s)
  <2>1. k \in FlagBytes /\ (IsZ(k) <=> result % 256 = 0)
    <3>1. result \in Int
      BY ByteIs
    <3> HIDE DEF result
    <3> QED BY <3>1, StoreTypes
  <2>2. (d - s) % 256 = 0 <=> d = s
    <3>1. d \in Int /\ s \in Int /\ 0 <= d /\ d < 256 /\ 0 <= s /\ s < 256
      BY ByteIs
    <3>2. CASE d >= s
      <4>1. d - s \in Int /\ 0 <= d - s /\ d - s < 256
        BY <3>1, <3>2
      <4>2. (d - s) % 256 = d - s
        BY <4>1
      <4> QED BY <3>1, <4>2
    <3>3. CASE d < s
      <4>1. (d - s) % 256 = d - s + 256
        BY <3>1, <3>3
      <4> QED BY <3>1, <3>3, <4>1
    <3> QED BY <3>1, <3>2, <3>3
  <2>3. c \in Byte /\ (c # 0 <=> d >= s)
    BY DEF One, Bit, Byte
  <2>4. CmpFlags(d, s, f) = WithC(k, c)
    BY DEF CmpFlags, WithC
  <2> HIDE DEF k, c
  <2> QED BY <2>1, <2>2, <2>3, <2>4, SetCarry
<1>2. ASSUME NEW d \in Word, NEW s \in Word
      PROVE  /\ CmpwFlags(d, s, f) \in FlagBytes
             /\ IsC(CmpwFlags(d, s, f)) <=> d >= s
             /\ IsZ(CmpwFlags(d, s, f)) <=> d = s
  <2> DEFINE result == d - s
             k == StoreNZWord(f, result)
             c == One(d >= s)
  <2>1. k \in FlagBytes /\ (IsZ(k) <=> result = 0)
    <3>1. result \in Int
      BY WordIs
    <3> HIDE DEF result
    <3> QED BY <3>1, StoreTypes
  <2>2. d - s = 0 <=> d = s
    <3>1. d \in Int /\ s \in Int
      BY WordIs
    <3> QED BY <3>1
  <2>3. c \in Byte /\ (c # 0 <=> d >= s)
    BY DEF One, Bit, Byte
  <2>4. CmpwFlags(d, s, f) = WithC(k, c)
    BY DEF CmpwFlags, WithC
  <2> HIDE DEF k, c
  <2> QED BY <2>1, <2>2, <2>3, <2>4, SetCarry
<1> QED BY <1>1, <1>2

LEMMA WordParts ==
  ASSUME NEW d \in Word
  PROVE  /\ d \div 256 \in Byte /\ d % 256 \in Byte
         /\ d = 256 * (d \div 256) + (d % 256)
         /\ d % 4096 = 256 * ((d \div 256) % 16) + (d % 256)
         /\ (d \div 256) % 16 \in 0 .. 15
         /\ (d \div 256) % 256 = d \div 256
<1>1. d \in Int /\ 0 <= d /\ d < 65536
  BY WordIs
<1>2. d \div 256 \in Byte /\ d % 256 \in Byte
  BY <1>1 DEF Byte
<1>3. d = 256 * (d \div 256) + (d % 256)
  BY <1>1
<1>4. d % 4096 = 256 * ((d \div 256) % 16) + (d % 256)
  BY <1>1
<1>5. (d \div 256) % 16 \in 0 .. 15 /\ (d \div 256) % 256 = d \div 256
  BY <1>1
<1> QED BY <1>2, <1>3, <1>4, <1>5

LEMMA WordSign ==
  \A v \in Word : SignWord(v) = IF v >= 32768 THEN 1 ELSE 0
BY WordIs DEF SignWord

LEMMA AddwIs ==
  ASSUME NEW d \in Word, NEW s \in Word, NEW f \in FlagBytes
  PROVE  LET r == AddWord(d, s)
             g == AddwFlags(d, s, f)
         IN /\ r \in Word /\ g \in FlagBytes
            /\ r + 65536 * One(IsC(g)) = d + s
            /\ (IsN(g) <=> r >= 32768) /\ (IsZ(g) <=> r = 0)
            /\ IsV(g) <=> ~FitsWord(SignedWord(d) + SignedWord(s))
            /\ IsH(g) <=> r % 4096 < (d % 4096) + (s % 4096)
<1> DEFINE dh == d \div 256
           sh == s \div 256
           dl == d % 256
           sl == s % 256
           low == One(dl + sl > 255)
           temp == dh + sh + low
           r == AddWord(d, s)
           g == AddwFlags(d, s, f)
           hh == One((dh % 16) + (sh % 16) + low > 15)
           cc == One(temp > 255)
           vv == Bit(SignWord(d) = SignWord(s) /\ SignWord(d) # SignWord(r), 128)
<1>1. g = SetHCV(StoreNZWord(f, r), hh, cc, vv)
  BY DEF AddwFlags, SetHCV
<1>2. /\ dh \in Byte /\ sh \in Byte /\ dl \in Byte /\ sl \in Byte
      /\ d = 256 * dh + dl /\ s = 256 * sh + sl
      /\ d % 4096 = 256 * (dh % 16) + dl /\ s % 4096 = 256 * (sh % 16) + sl
      /\ dh % 16 \in 0 .. 15 /\ sh % 16 \in 0 .. 15
  BY WordParts
<1>3. r \in Word /\ r = (IF d + s > 65535 THEN d + s - 65536 ELSE d + s)
  BY WordIs DEF AddWord
<1>4. vv # 0 <=> ~FitsWord(SignedWord(d) + SignedWord(s))
  BY WordIs, WordSign, <1>3 DEF SignedWord, FitsWord, Bit
<1>5. hh \in Byte /\ cc \in Byte /\ vv \in Byte
  BY FlagValues
<1>6. r % 4096 = (IF (d % 4096) + (s % 4096) > 4095
                  THEN (d % 4096) + (s % 4096) - 4096 ELSE (d % 4096) + (s % 4096))
  BY WordIs, <1>3
<1>7. (r \div 256) % 256 >= 128 <=> r >= 32768
  BY WordIs, <1>3
<1> HIDE DEF dh, sh, dl, sl, r, g
<1>8. cc # 0 <=> d + s > 65535
  BY <1>2 DEF Byte, One, Bit
<1>9. hh # 0 <=> (d % 4096) + (s % 4096) > 4095
  BY <1>2 DEF Byte, One, Bit
<1> HIDE DEF hh, cc, vv
<1>10. hh # 0 <=> r % 4096 < (d % 4096) + (s % 4096)
  <2>1. /\ d % 4096 \in Int /\ 0 <= d % 4096 /\ d % 4096 < 4096
        /\ s % 4096 \in Int /\ 0 <= s % 4096 /\ s % 4096 < 4096
    BY WordIs
  <2> QED BY <1>6, <1>9, <2>1
<1>11. /\ g \in FlagBytes
       /\ (IsN(g) <=> r >= 32768) /\ (IsZ(g) <=> r = 0)
       /\ (IsH(g) <=> hh # 0) /\ (IsC(g) <=> cc # 0) /\ (IsV(g) <=> vv # 0)
  <2> DEFINE k == StoreNZWord(f, r)
  <2>1. k \in FlagBytes /\ (IsN(k) <=> (r \div 256) % 256 >= 128) /\ (IsZ(k) <=> r = 0)
    <3>1. r \in Int
      BY WordIs, <1>3
    <3> QED BY <3>1, StoreTypes
  <2> HIDE DEF k
  <2>2. g = SetHCV(k, hh, cc, vv)
    BY <1>1 DEF k
  <2>3. /\ g \in FlagBytes /\ (IsN(g) <=> IsN(k)) /\ (IsZ(g) <=> IsZ(k))
        /\ (IsH(g) <=> hh # 0) /\ (IsC(g) <=> cc # 0) /\ (IsV(g) <=> vv # 0)
    BY <1>5, <2>1, <2>2, HCVTypes
  <2> QED BY <1>7, <2>1, <2>3
<1>12. r + 65536 * One(IsC(g)) = d + s
  BY WordIs, <1>3, <1>8, <1>11 DEF One, Bit
<1> QED BY <1>3, <1>4, <1>10, <1>11, <1>12 DEF r, g

LEMMA SubwIs ==
  ASSUME NEW d \in Word, NEW s \in Word, NEW f \in FlagBytes
  PROVE  LET r == SubWord(d, s)
             g == SubwFlags(d, s, f)
         IN /\ r \in Word /\ g \in FlagBytes
            /\ r - 65536 * One(~IsC(g)) = d - s
            /\ (IsN(g) <=> r >= 32768) /\ (IsZ(g) <=> r = 0)
            /\ IsV(g) <=> ~FitsWord(SignedWord(d) - SignedWord(s))
            /\ IsH(g) <=> r % 4096 = (d % 4096) - (s % 4096)
<1> DEFINE dh == d \div 256
           sh == s \div 256
           dl == d % 256
           sl == s % 256
           low == BorrowLow(d, s)
           temp == dh - sh - low
           r == SubWord(d, s)
           g == SubwFlags(d, s, f)
           hh == One((dh % 16) - (sh % 16) - low >= 0)
           cc == One(temp >= 0)
           vv == Bit(SignWord(d) # SignWord(s) /\ SignWord(d) # SignWord(r), 128)
<1>1. g = SetHCV(StoreNZWord(f, r), hh, cc, vv)
  BY DEF SubwFlags, SetHCV
<1>2. /\ dh \in Byte /\ sh \in Byte /\ dl \in Byte /\ sl \in Byte
      /\ d = 256 * dh + dl /\ s = 256 * sh + sl
      /\ d % 4096 = 256 * (dh % 16) + dl /\ s % 4096 = 256 * (sh % 16) + sl
      /\ dh % 16 \in 0 .. 15 /\ sh % 16 \in 0 .. 15
  BY WordParts
<1>3. low = (IF dl < sl THEN 1 ELSE 0)
  BY DEF BorrowLow, One, Bit
<1>4. r = (((d - s) % 256) + 256 * (temp % 256)) % 65536
  BY DEF SubWord
<1>5. (d - s) % 256 = (IF dl < sl THEN dl - sl + 256 ELSE dl - sl)
  BY WordIs
<1> HIDE DEF dh, sh, dl, sl, low, r, g
<1>6. temp % 256 = (IF temp >= 0 THEN temp ELSE temp + 256)
  <2>1. temp \in -256 .. 255
    BY <1>2, <1>3 DEF Byte
  <2> HIDE DEF temp
  <2> QED BY <2>1
<1>7. temp >= 0 <=> d >= s
  BY <1>2, <1>3 DEF Byte
<1>8. r = (IF d >= s THEN d - s ELSE d - s + 65536) /\ r \in Word
  <2>1. ((d - s) % 256) + 256 * (temp % 256) = (IF d >= s THEN d - s ELSE d - s + 65536)
    BY <1>2, <1>3, <1>5, <1>6, <1>7 DEF Byte
  <2> QED BY WordIs, <1>4, <2>1
<1>9. cc # 0 <=> d >= s
  BY <1>7 DEF One, Bit
<1>10. hh # 0 <=> d % 4096 >= s % 4096
  BY <1>2, <1>3 DEF Byte, One, Bit
<1>11. vv # 0 <=> ~FitsWord(SignedWord(d) - SignedWord(s))
  BY WordIs, WordSign, <1>8 DEF SignedWord, FitsWord, Bit
<1>12. hh \in Byte /\ cc \in Byte /\ vv \in Byte
  BY FlagValues
<1>13. r % 4096 = (IF d % 4096 >= s % 4096
                   THEN (d % 4096) - (s % 4096) ELSE (d % 4096) - (s % 4096) + 4096)
  BY WordIs, <1>8
<1>14. (r \div 256) % 256 >= 128 <=> r >= 32768
  BY WordIs, <1>8
<1> HIDE DEF hh, cc, vv
<1>15. hh # 0 <=> r % 4096 = (d % 4096) - (s % 4096)
  <2>1. /\ d % 4096 \in Int /\ 0 <= d % 4096 /\ d % 4096 < 4096
        /\ s % 4096 \in Int /\ 0 <= s % 4096 /\ s % 4096 < 4096
    BY WordIs
  <2> QED BY <1>10, <1>13, <2>1
<1>16. /\ g \in FlagBytes
       /\ (IsN(g) <=> r >= 32768) /\ (IsZ(g) <=> r = 0)
       /\ (IsH(g) <=> hh # 0) /\ (IsC(g) <=> cc # 0) /\ (IsV(g) <=> vv # 0)
  <2> DEFINE k == StoreNZWord(f, r)
  <2>1. k \in FlagBytes /\ (IsN(k) <=> (r \div 256) % 256 >= 128) /\ (IsZ(k) <=> r = 0)
    <3>1. r \in Int
      BY WordIs, <1>8
    <3> QED BY <3>1, StoreTypes
  <2> HIDE DEF k
  <2>2. g = SetHCV(k, hh, cc, vv)
    BY <1>1 DEF k
  <2>3. /\ g \in FlagBytes /\ (IsN(g) <=> IsN(k)) /\ (IsZ(g) <=> IsZ(k))
        /\ (IsH(g) <=> hh # 0) /\ (IsC(g) <=> cc # 0) /\ (IsV(g) <=> vv # 0)
    BY <1>12, <2>1, <2>2, HCVTypes
  <2> QED BY <1>14, <2>1, <2>3
<1>17. r - 65536 * One(~IsC(g)) = d - s
  BY WordIs, <1>8, <1>9, <1>16 DEF One, Bit
<1> QED BY <1>8, <1>11, <1>15, <1>16, <1>17 DEF r, g

-----------------------------------------------------------------------------
(* Shifts and steps. *)

LEMMA ShiftsAre ==
  ASSUME NEW v \in Byte, NEW f \in FlagBytes
  PROVE  /\ Asl(v) \in Byte /\ Asl(v) + 256 * One(HasBit(v, 128)) = 2 * v
         /\ Lsr(v) \in Byte /\ 2 * Lsr(v) + One(HasBit(v, 1)) = v
         /\ Rol(v, f) \in Byte
         /\ Rol(v, f) + 256 * One(HasBit(v, 128)) = 2 * v + One(IsC(f))
         /\ Ror(v, f) \in Byte
         /\ 2 * Ror(v, f) + One(HasBit(v, 1)) = v + 256 * One(IsC(f))
<1>1. Asl(v) \in Byte /\ Asl(v) + 256 * One(HasBit(v, 128)) = 2 * v
  BY DEF Asl, HasBit, One, Bit, Byte
<1>2. Lsr(v) \in Byte /\ 2 * Lsr(v) + One(HasBit(v, 1)) = v
  BY DEF Lsr, HasBit, One, Bit, Byte
<1>3. /\ Rol(v, f) \in Byte
      /\ Rol(v, f) + 256 * One(HasBit(v, 128)) = 2 * v + One(IsC(f))
  BY DEF Rol, HasBit, One, Bit, Byte
<1>4. /\ Ror(v, f) \in Byte
      /\ 2 * Ror(v, f) + One(HasBit(v, 1)) = v + 256 * One(IsC(f))
  BY DEF Ror, HasBit, One, Bit, Byte
<1> QED BY <1>1, <1>2, <1>3, <1>4

(* The flags of a byte: N and Z tell of it, the others stay. *)
LEMMA ByteFlags ==
  ASSUME NEW f \in FlagBytes, NEW v \in Byte
  PROVE  /\ StoreNZ(f, v) \in FlagBytes
         /\ IsN(StoreNZ(f, v)) <=> v >= 128
         /\ IsZ(StoreNZ(f, v)) <=> v = 0
         /\ IsC(StoreNZ(f, v)) <=> IsC(f)
<1> DEFINE k == StoreNZ(f, v)
<1>0. v \in Int
  BY DEF Byte
<1>1. v % 256 = v
  BY DEF Byte
<1>2. /\ k \in FlagBytes /\ (IsN(k) <=> v % 256 >= 128) /\ (IsZ(k) <=> v % 256 = 0)
      /\ k.c = f.c
  BY <1>0, StoreTypes
<1> HIDE DEF k
<1>3. /\ k \in FlagBytes /\ (IsN(k) <=> v >= 128) /\ (IsZ(k) <=> v = 0)
      /\ (IsC(k) <=> IsC(f))
  BY <1>1, <1>2 DEF IsC
<1> QED BY <1>3 DEF k

LEMMA CarryOutIs ==
  ASSUME NEW f \in FlagBytes, NEW v \in Byte, NEW out \in BOOLEAN
  PROVE  /\ CarryOut(f, v, out) \in FlagBytes
         /\ IsC(CarryOut(f, v, out)) <=> out
         /\ IsN(CarryOut(f, v, out)) <=> v >= 128
         /\ IsZ(CarryOut(f, v, out)) <=> v = 0
<1> DEFINE k == StoreNZ(f, v)
           c == Bit(out, 128)
<1>1. k \in FlagBytes /\ (IsN(k) <=> v >= 128) /\ (IsZ(k) <=> v = 0)
  BY ByteFlags
<1>2. c \in Byte /\ (c # 0 <=> out)
  BY FlagValues
<1>3. CarryOut(f, v, out) = WithC(k, c)
  BY DEF CarryOut, WithC
<1> HIDE DEF k, c
<1> QED BY <1>1, <1>2, <1>3, SetCarry

LEMMA WordFlags ==
  ASSUME NEW f \in FlagBytes, NEW v \in Word
  PROVE  /\ StoreNZWord(f, v) \in FlagBytes
         /\ IsN(StoreNZWord(f, v)) <=> v >= 32768
         /\ IsZ(StoreNZWord(f, v)) <=> v = 0
         /\ IsC(StoreNZWord(f, v)) <=> IsC(f)
<1> DEFINE k == StoreNZWord(f, v)
<1>1. v \in Int /\ ((v \div 256) % 256 >= 128 <=> v >= 32768)
  BY WordIs
<1>2. /\ k \in FlagBytes /\ (IsN(k) <=> (v \div 256) % 256 >= 128) /\ (IsZ(k) <=> v = 0)
      /\ k.c = f.c
  BY <1>1, StoreTypes
<1> HIDE DEF k
<1>3. /\ k \in FlagBytes /\ (IsN(k) <=> v >= 32768) /\ (IsZ(k) <=> v = 0)
      /\ (IsC(k) <=> IsC(f))
  BY <1>1, <1>2 DEF IsC
<1> QED BY <1>3 DEF k

-----------------------------------------------------------------------------
(* Decimal arithmetic. *)

LEMMA Digits ==
  ASSUME NEW v \in Byte, IsBcd(v)
  PROVE  \E hi, lo \in 0 .. 9 : v = 16 * hi + lo /\ Dec(v) = 10 * hi + lo /\ v % 16 = lo
BY DEF IsBcd, Dec, Byte

LEMMA FromDigits ==
  ASSUME NEW hi \in 0 .. 9, NEW lo \in 0 .. 9
  PROVE  IsBcd(16 * hi + lo) /\ Dec(16 * hi + lo) = 10 * hi + lo
BY DEF IsBcd, Dec

(* A step of six, or of sixty in hex, that is taken or not. *)
Stepped(taken, v, by) == IF taken = 1 THEN (v + by) % 256 ELSE v

(* DAA's tests, of the sum v of d and s. *)
DaaTests(d, s, c, v, carry, six, out) ==
  /\ v + 256 * carry = d + s + c
  /\ six = 1 <=> v % 16 > 9 \/ v % 16 < (d % 16) + (s % 16) + c
  /\ out = 1 <=> v > 153 \/ carry = 1 \/ (six = 1 /\ Stepped(six, v, 6) < 6)

LEMMA DaaIs ==
  ASSUME NEW d \in Byte, NEW s \in Byte, NEW c \in {0, 1}, IsBcd(d), IsBcd(s),
         NEW v \in Byte, NEW carry \in {0, 1}, NEW six \in {0, 1}, NEW out \in {0, 1},
         DaaTests(d, s, c, v, carry, six, out)
  PROVE  LET res == Stepped(out, Stepped(six, v, 6), 96)
         IN IsBcd(res) /\ Dec(res) + 100 * out = Dec(d) + Dec(s) + c
<1> DEFINE low == Stepped(six, v, 6)
           res == Stepped(out, low, 96)
<1>0. /\ low = IF six = 1 THEN (v + 6) % 256 ELSE v
      /\ res = IF out = 1 THEN (low + 96) % 256 ELSE low
      /\ out = 1 <=> v > 153 \/ carry = 1 \/ (six = 1 /\ low < 6)
  BY DEF Stepped, DaaTests
<1> SUFFICES IsBcd(res) /\ Dec(res) + 100 * out = Dec(d) + Dec(s) + c
  OBVIOUS
<1> HIDE DEF low, res
<1>00. /\ v + 256 * carry = d + s + c
       /\ six = 1 <=> v % 16 > 9 \/ v % 16 < (d % 16) + (s % 16) + c
  BY DEF DaaTests
<1>1. PICK dh \in 0 .. 9, dl \in 0 .. 9 :
        d = 16 * dh + dl /\ Dec(d) = 10 * dh + dl /\ d % 16 = dl
  BY Digits
<1>2. PICK sh \in 0 .. 9, sl \in 0 .. 9 :
        s = 16 * sh + sl /\ Dec(s) = 10 * sh + sl /\ s % 16 = sl
  BY Digits
<1> DEFINE lo == dl + sl + c
           hi == dh + sh
<1>3. v + 256 * carry = 16 * hi + lo /\ lo \in 0 .. 19 /\ hi \in 0 .. 18
  BY <1>00, <1>1, <1>2 DEF Byte
<1>4. six = 1 <=> lo > 9
  BY <1>00, <1>1, <1>2 DEF Byte
<1> DEFINE lo10 == IF lo > 9 THEN lo - 10 ELSE lo
           hi10 == IF lo > 9 THEN hi + 1 ELSE hi
<1> HIDE DEF lo, hi
<1>5. lo10 \in 0 .. 9 /\ hi10 \in 0 .. 19 /\ 10 * hi10 + lo10 = 10 * hi + lo
  BY <1>3
<1>6. low = (16 * hi10 + lo10) % 256
  BY <1>0, <1>3, <1>4 DEF Byte
<1>7. out = 1 <=> hi10 > 9
  BY <1>0, <1>00, <1>3, <1>4 DEF Byte
<1> HIDE DEF lo10, hi10
<1>8. res = (IF out = 1 THEN 16 * (hi10 - 10) + lo10 ELSE 16 * hi10 + lo10)
  <2> DEFINE total == 16 * hi10 + lo10
  <2>1. total \in 0 .. 313 /\ (hi10 > 9 <=> total >= 160)
    BY <1>5
  <2> HIDE DEF total
  <2>2. res = IF out = 1 THEN total - 160 ELSE total
    BY <1>0, <1>6, <1>7, <2>1 DEF total
  <2> QED BY <1>5, <2>2 DEF total
<1>9. Dec(d) + Dec(s) + c = 10 * hi10 + lo10
  BY <1>1, <1>2, <1>5 DEF lo, hi
<1>10. CASE out = 1
  <2>1. hi10 - 10 \in 0 .. 9 /\ lo10 \in 0 .. 9
    BY <1>5, <1>7, <1>10
  <2>2. IsBcd(res) /\ Dec(res) = 10 * (hi10 - 10) + lo10
    BY <1>8, <1>10, <2>1, FromDigits
  <2> QED BY <1>5, <1>9, <1>10, <2>2
<1>11. CASE out = 0
  <2>1. hi10 \in 0 .. 9 /\ lo10 \in 0 .. 9
    BY <1>5, <1>7, <1>11
  <2>2. res = 16 * hi10 + lo10
    BY <1>8, <1>11
  <2>3. IsBcd(res) /\ Dec(res) = 10 * hi10 + lo10
    BY <2>1, <2>2, FromDigits
  <2> QED BY <1>5, <1>9, <1>11, <2>3
<1> QED BY <1>10, <1>11

(* DAS's tests, of the difference v of d and s. *)
DasTests(d, s, b, v, borrow, six, out) ==
  /\ v - 256 * borrow = d - s - b
  /\ six = 1 <=> v % 16 > 9 \/ v % 16 # (d % 16) - (s % 16) - b
  /\ out = 1 <=> v > 153 \/ borrow = 1

LEMMA DasIs ==
  ASSUME NEW d \in Byte, NEW s \in Byte, NEW b \in {0, 1}, IsBcd(d), IsBcd(s),
         NEW v \in Byte, NEW borrow \in {0, 1}, NEW six \in {0, 1}, NEW out \in {0, 1},
         DasTests(d, s, b, v, borrow, six, out)
  PROVE  LET res == Stepped(out, Stepped(six, v, -6), -96)
         IN IsBcd(res) /\ Dec(res) - 100 * out = Dec(d) - Dec(s) - b
<1> DEFINE low == Stepped(six, v, -6)
           res == Stepped(out, low, -96)
<1>0. /\ low = IF six = 1 THEN (v - 6) % 256 ELSE v
      /\ res = IF out = 1 THEN (low - 96) % 256 ELSE low
  BY DEF Stepped
<1> SUFFICES IsBcd(res) /\ Dec(res) - 100 * out = Dec(d) - Dec(s) - b
  OBVIOUS
<1> HIDE DEF low, res
<1>00. /\ v - 256 * borrow = d - s - b
       /\ six = 1 <=> v % 16 > 9 \/ v % 16 # (d % 16) - (s % 16) - b
       /\ out = 1 <=> v > 153 \/ borrow = 1
  BY DEF DasTests
<1>1. PICK dh \in 0 .. 9, dl \in 0 .. 9 :
        d = 16 * dh + dl /\ Dec(d) = 10 * dh + dl /\ d % 16 = dl
  BY Digits
<1>2. PICK sh \in 0 .. 9, sl \in 0 .. 9 :
        s = 16 * sh + sl /\ Dec(s) = 10 * sh + sl /\ s % 16 = sl
  BY Digits
<1> DEFINE lo == dl - sl - b
           hi == dh - sh
<1>3. v - 256 * borrow = 16 * hi + lo /\ lo \in -10 .. 9 /\ hi \in -9 .. 9
  BY <1>00, <1>1, <1>2 DEF Byte
<1>4. six = 1 <=> lo < 0
  BY <1>00, <1>1, <1>2 DEF Byte
<1> DEFINE lo10 == IF lo < 0 THEN lo + 10 ELSE lo
           hi10 == IF lo < 0 THEN hi - 1 ELSE hi
<1> HIDE DEF lo, hi
<1>5. lo10 \in 0 .. 9 /\ hi10 \in -10 .. 9 /\ 10 * hi10 + lo10 = 10 * hi + lo
  BY <1>3
<1>6. low = (16 * hi10 + lo10) % 256
  BY <1>0, <1>3, <1>4 DEF Byte
<1>7. out = 1 <=> hi10 < 0
  BY <1>0, <1>00, <1>3, <1>4 DEF Byte
<1> HIDE DEF lo10, hi10
<1>8. res = (IF out = 1 THEN 16 * (hi10 + 10) + lo10 ELSE 16 * hi10 + lo10)
  BY <1>0, <1>5, <1>6, <1>7
<1>9. Dec(d) - Dec(s) - b = 10 * hi10 + lo10
  BY <1>1, <1>2, <1>5 DEF lo, hi
<1>10. CASE out = 1
  <2>1. hi10 + 10 \in 0 .. 9 /\ lo10 \in 0 .. 9
    BY <1>5, <1>7, <1>10
  <2>2. IsBcd(res) /\ Dec(res) = 10 * (hi10 + 10) + lo10
    BY <1>8, <1>10, <2>1, FromDigits
  <2> QED BY <1>5, <1>9, <1>10, <2>2
<1>11. CASE out = 0
  <2>1. hi10 \in 0 .. 9 /\ lo10 \in 0 .. 9
    BY <1>5, <1>7, <1>11
  <2>2. res = 16 * hi10 + lo10
    BY <1>8, <1>11
  <2>3. IsBcd(res) /\ Dec(res) = 10 * hi10 + lo10
    BY <2>1, <2>2, FromDigits
  <2> QED BY <1>5, <1>9, <1>11, <2>3
<1> QED BY <1>10, <1>11

-----------------------------------------------------------------------------
(* Division.  Nothing is lost at the register's 17th bit while the value stays
   below the divisor moved up by nine bits, so a round is a step of the division
   by hand: the value doubles, and the divisor goes out of it into a bit. *)
Moved(d) == 512 * d

LEMMA DivStepIs ==
  ASSUME NEW d \in 1 .. 255, NEW v \in Int, 0 <= v, v < Moved(d)
  PROVE  DivStep(v, Moved(d))
           = IF 2 * v >= Moved(d) THEN 2 * v + 1 - Moved(d) ELSE 2 * v
<1> DEFINE work == Moved(d)
           rolled == ((2 * v) % 131072) + ((2 * v) \div 131072)
           flipped == DivBit(rolled, work)
<1>1. work \in Int /\ 512 <= work /\ work <= 130560 /\ work % 2 = 0
  BY DEF Moved
<1>2. v < work
  OBVIOUS
<1>3. DivStep(v, work)
        = IF flipped % 2 = 1 THEN (flipped - work) % 131072 ELSE flipped
  BY DEF DivStep
<1> HIDE DEF work
<1>4. CASE 2 * v < 131072
  <2>1. rolled = 2 * v
    BY <1>4
  <2> HIDE DEF rolled
  <2>2. flipped = IF 2 * v >= work THEN 2 * v + 1 ELSE 2 * v
    BY <2>1 DEF DivBit
  <2> HIDE DEF flipped
  <2> QED BY <1>1, <1>2, <1>3, <1>4, <2>2 DEF work
<1>5. CASE 2 * v >= 131072
  <2>1. rolled = 2 * v - 131071
    BY <1>1, <1>2, <1>5
  <2> HIDE DEF rolled
  <2>2. rolled < work /\ rolled % 2 = 1 /\ rolled \in Int
    BY <1>1, <1>2, <2>1
  <2>3. flipped = rolled
    BY <1>1, <1>2, <2>2 DEF DivBit
  <2> HIDE DEF flipped
  <2>4. DivStep(v, work) = 2 * v + 1 - work
    BY <1>1, <1>2, <1>3, <1>5, <2>1, <2>2, <2>3
  <2> QED BY <1>1, <1>2, <1>5, <2>4 DEF work
<1> QED BY <1>4, <1>5

(* After some rounds, which multiplied by k, with q the quotient so far. *)
Partial(v, k, ya, d) ==
  \E q \in Nat : /\ q < k /\ 0 <= v /\ v < Moved(d)
                 /\ v = k * ya - 512 * (d * q) + q

Twice(k) == 2 * k

LEMMA Round ==
  ASSUME NEW d \in 1 .. 255, NEW v \in Int, NEW k \in Nat, NEW ya \in Int,
         Partial(v, k, ya, d)
  PROVE  DivStep(v, Moved(d)) \in Int /\ Partial(DivStep(v, Moved(d)), Twice(k), ya, d)
<1> DEFINE work == Moved(d)
           next == DivStep(v, work)
<1>1. PICK q \in Nat : /\ q < k /\ 0 <= v /\ v < work
                       /\ v = k * ya - 512 * (d * q) + q
  BY DEF Partial
<1>2. 0 <= v /\ v < work
  BY <1>1
<1>3. next = IF 2 * v >= work THEN 2 * v + 1 - work ELSE 2 * v
  BY <1>2, DivStepIs
<1> HIDE DEF next
<1> DEFINE b == IF 2 * v >= work THEN 1 ELSE 0
           p == k * ya
           e == d * q
           c == d * b
           q2 == 2 * q + b
           k2 == Twice(k)
<1>4. next = 2 * v + b - 512 * c /\ 0 <= next /\ next < work /\ next \in Int
  BY <1>2, <1>3 DEF Moved
<1>5. q2 \in Nat /\ q2 < k2 /\ b \in Int
  BY <1>1 DEF Twice
<1> HIDE DEF b
<1>6. p \in Int /\ e \in Int /\ c \in Int
  BY <1>5
<1>7. k2 * ya = 2 * p /\ k2 \in Nat
  BY DEF Twice
<1>8. d * q2 = 2 * e + c
  BY <1>5
<1>9. v = p - 512 * e + q
  BY <1>1
<1> HIDE DEF p, e, c, k2
<1>10. next = k2 * ya - 512 * (d * q2) + q2
  BY <1>4, <1>5, <1>6, <1>7, <1>8, <1>9
<1> HIDE DEF q2
<1>11. 0 <= next /\ next < Moved(d)
  BY <1>4
<1>12. Partial(next, k2, ya, d)
  BY <1>5, <1>10, <1>11 DEF Partial
<1> QED BY <1>4, <1>12 DEF next, k2

(* The register at the end: the remainder, and the quotient's nine bits. *)
Quotient(q, d, ya) ==
  /\ q < 512 /\ 0 <= ya - d * q /\ ya - d * q < d
  /\ Divided(ya, Moved(d)) = 512 * (ya - d * q) + q

LEMMA DivIs ==
  ASSUME NEW d \in 1 .. 255, NEW ya \in Nat, ya < Moved(d)
  PROVE  \E q \in Nat : Quotient(q, d, ya)
<1> DEFINE s(v) == DivStep(v, Moved(d))
           v1 == s(ya)
           v2 == s(v1)
           v3 == s(v2)
           v4 == s(v3)
           v5 == s(v4)
           v6 == s(v5)
           v7 == s(v6)
           v8 == s(v7)
           v9 == s(v8)
<1>0. Divided(ya, Moved(d)) = v9
  BY DEF Divided, Thrice
<1>a. Partial(ya, 1, ya, d)
  <2>1. ya = 1 * ya - 512 * (d * 0) + 0
    OBVIOUS
  <2> QED BY <2>1 DEF Partial
<1>b. ASSUME NEW v \in Int, NEW k \in Nat, Partial(v, k, ya, d)
      PROVE  s(v) \in Int /\ Partial(s(v), Twice(k), ya, d)
  <2>1. ya \in Int
    OBVIOUS
  <2> QED BY <1>b, <2>1, Round
<1>c. /\ Twice(1) = 2 /\ Twice(2) = 4 /\ Twice(4) = 8 /\ Twice(8) = 16
      /\ Twice(16) = 32 /\ Twice(32) = 64 /\ Twice(64) = 128
      /\ Twice(128) = 256 /\ Twice(256) = 512
  BY DEF Twice
<1> HIDE DEF s
<1>1. v1 \in Int /\ Partial(v1, 2, ya, d)
  BY <1>a, <1>b, <1>c
<1> HIDE DEF v1
<1>2. v2 \in Int /\ Partial(v2, 4, ya, d)
  BY <1>1, <1>b, <1>c
<1> HIDE DEF v2
<1>3. v3 \in Int /\ Partial(v3, 8, ya, d)
  BY <1>2, <1>b, <1>c
<1> HIDE DEF v3
<1>4. v4 \in Int /\ Partial(v4, 16, ya, d)
  BY <1>3, <1>b, <1>c
<1> HIDE DEF v4
<1>5. v5 \in Int /\ Partial(v5, 32, ya, d)
  BY <1>4, <1>b, <1>c
<1> HIDE DEF v5
<1>6. v6 \in Int /\ Partial(v6, 64, ya, d)
  BY <1>5, <1>b, <1>c
<1> HIDE DEF v6
<1>7. v7 \in Int /\ Partial(v7, 128, ya, d)
  BY <1>6, <1>b, <1>c
<1> HIDE DEF v7
<1>8. v8 \in Int /\ Partial(v8, 256, ya, d)
  BY <1>7, <1>b, <1>c
<1> HIDE DEF v8
<1>9. v9 \in Int /\ Partial(v9, 512, ya, d)
  BY <1>8, <1>b, <1>c
<1> HIDE DEF v9
<1>10. PICK q \in Nat : /\ q < 512 /\ 0 <= v9 /\ v9 < Moved(d)
                        /\ v9 = 512 * ya - 512 * (d * q) + q
  BY <1>9 DEF Partial
<1> DEFINE u == ya - d * q
<1>11. u \in Int /\ v9 = 512 * u + q
  BY <1>10
<1> HIDE DEF u
<1>12. 0 <= u /\ u < d
  BY <1>10, <1>11 DEF Moved
<1>13. Quotient(q, d, ya)
  BY <1>0, <1>10, <1>11, <1>12 DEF u, Quotient
<1> QED BY <1>13

(* A quotient and a remainder below the divisor are the only ones. *)
LEMMA OneQuotient ==
  ASSUME NEW d \in Nat, NEW p \in Nat, NEW q \in Nat, NEW r \in Nat,
         d * q + r = d * p, r < d
  PROVE  q = p /\ r = 0
<1>1. CASE q >= p + 1
  <2>1. PICK n \in Nat : q = p + 1 + n
    <3>1. q - p - 1 \in Nat /\ q = p + 1 + (q - p - 1)
      BY <1>1
    <3> QED BY <3>1
  <2>2. d * q = d * p + d + d * n /\ d * n \in Nat /\ d * p \in Nat
    BY <2>1
  <2> QED BY <2>2
<1>2. CASE q + 1 <= p
  <2>1. PICK n \in Nat : p = q + 1 + n
    <3>1. p - q - 1 \in Nat /\ p = q + 1 + (p - q - 1)
      BY <1>2
    <3> QED BY <3>1
  <2>2. d * p = d * q + d + d * n /\ d * n \in Nat /\ d * q \in Nat
    BY <2>1
  <2> QED BY <2>2
<1>3. CASE q = p
  <2>1. d * p \in Nat
    OBVIOUS
  <2> QED BY <1>3, <2>1
<1> QED BY <1>1, <1>2, <1>3

-----------------------------------------------------------------------------
(* Which operation a step is. *)
Did(op) ==
  \/ (op = "ADC" /\ ADC) \/ (op = "SBC" /\ SBC) \/ (op = "CMP" /\ CMP)
  \/ (op = "ADDW" /\ ADDW) \/ (op = "SUBW" /\ SUBW) \/ (op = "CMPW" /\ CMPW)
  \/ (op = "MUL" /\ MUL) \/ (op = "DIV" /\ DIV) \/ (op = "ASL" /\ ASL)
  \/ (op = "ROL" /\ ROL) \/ (op = "LSR" /\ LSR) \/ (op = "ROR" /\ ROR)
  \/ (op = "DAA" /\ DAA) \/ (op = "DAS" /\ DAS) \/ (op = "OR" /\ OR)
  \/ (op = "AND" /\ AND) \/ (op = "EOR" /\ EOR) \/ (op = "INC" /\ INC)
  \/ (op = "DEC" /\ DEC) \/ (op = "XCN" /\ XCN) \/ (op = "TEST" /\ TEST)
  \/ (op = "INCW" /\ INCW) \/ (op = "DECW" /\ DECW) \/ (op = "MOVW" /\ MOVW)
  \/ (op = "CLRC" /\ CLRC) \/ (op = "SETC" /\ SETC) \/ (op = "NOTC" /\ NOTC)
  \/ (op = "CLRV" /\ CLRV) \/ (op = "CLRP" /\ CLRP) \/ (op = "SETP" /\ SETP)
  \/ (op = "EI" /\ EI) \/ (op = "DI" /\ DI) \/ (op = "BRK" /\ BRK)
  \/ (op = "PUSH PSW" /\ PushPSW) \/ (op = "POP PSW" /\ PopPSW)

LEMMA DidIs ==
  /\ (Did("ADC") => ADC) /\ (Did("SBC") => SBC) /\ (Did("CMP") => CMP)
  /\ (Did("ADDW") => ADDW) /\ (Did("SUBW") => SUBW) /\ (Did("CMPW") => CMPW)
  /\ (Did("MUL") => MUL) /\ (Did("DIV") => DIV) /\ (Did("ASL") => ASL)
  /\ (Did("ROL") => ROL) /\ (Did("LSR") => LSR) /\ (Did("ROR") => ROR)
  /\ (Did("DAA") => DAA) /\ (Did("DAS") => DAS) /\ (Did("OR") => OR)
  /\ (Did("AND") => AND) /\ (Did("EOR") => EOR) /\ (Did("INC") => INC)
  /\ (Did("DEC") => DEC) /\ (Did("XCN") => XCN) /\ (Did("TEST") => TEST)
  /\ (Did("INCW") => INCW) /\ (Did("DECW") => DECW) /\ (Did("MOVW") => MOVW)
  /\ (Did("CLRC") => CLRC) /\ (Did("SETC") => SETC) /\ (Did("NOTC") => NOTC)
  /\ (Did("CLRV") => CLRV) /\ (Did("CLRP") => CLRP) /\ (Did("SETP") => SETP)
  /\ (Did("EI") => EI) /\ (Did("DI") => DI) /\ (Did("BRK") => BRK)
  /\ (Did("PUSH PSW") => PushPSW) /\ (Did("POP PSW") => PopPSW)
BY DEF Did

LEMMA Turns == \A op : Did(op) => Turn(op)
<1>1. ADC => Turn("ADC")
  BY DEF ADC, Do
<1>2. SBC => Turn("SBC")
  BY DEF SBC, Do
<1>3. CMP => Turn("CMP")
  BY DEF CMP, Do
<1>4. ADDW => Turn("ADDW")
  BY DEF ADDW, Do
<1>5. SUBW => Turn("SUBW")
  BY DEF SUBW, Do
<1>6. CMPW => Turn("CMPW")
  BY DEF CMPW, Do
<1>7. MUL => Turn("MUL")
  BY DEF MUL, Do
<1>8. DIV => Turn("DIV")
  BY DEF DIV, Do
<1>9. ASL => Turn("ASL")
  BY DEF ASL, Do
<1>10. ROL => Turn("ROL")
  BY DEF ROL, Do
<1>11. LSR => Turn("LSR")
  BY DEF LSR, Do
<1>12. ROR => Turn("ROR")
  BY DEF ROR, Do
<1>13. DAA => Turn("DAA")
  BY DEF DAA, Do
<1>14. DAS => Turn("DAS")
  BY DEF DAS, Do
<1>15. OR => Turn("OR")
  BY DEF OR, Do
<1>16. AND => Turn("AND")
  BY DEF AND, Do
<1>17. EOR => Turn("EOR")
  BY DEF EOR, Do
<1>18. INC => Turn("INC")
  BY DEF INC, Do
<1>19. DEC => Turn("DEC")
  BY DEF DEC, Do
<1>20. XCN => Turn("XCN")
  BY DEF XCN, Do
<1>21. TEST => Turn("TEST")
  BY DEF TEST, Do
<1>22. INCW => Turn("INCW")
  BY DEF INCW, Do
<1>23. DECW => Turn("DECW")
  BY DEF DECW, Do
<1>24. MOVW => Turn("MOVW")
  BY DEF MOVW, Do
<1>25. CLRC => Turn("CLRC")
  BY DEF CLRC, Do
<1>26. SETC => Turn("SETC")
  BY DEF SETC, Do
<1>27. NOTC => Turn("NOTC")
  BY DEF NOTC, Do
<1>28. CLRV => Turn("CLRV")
  BY DEF CLRV, Do
<1>29. CLRP => Turn("CLRP")
  BY DEF CLRP, Do
<1>30. SETP => Turn("SETP")
  BY DEF SETP, Do
<1>31. EI => Turn("EI")
  BY DEF EI, Do
<1>32. DI => Turn("DI")
  BY DEF DI, Do
<1>33. BRK => Turn("BRK")
  BY DEF BRK, Do
<1>34. PushPSW => Turn("PUSH PSW")
  BY DEF PushPSW, Do
<1>35. PopPSW => Turn("POP PSW")
  BY DEF PopPSW, Do
<1> QED BY <1>1, <1>2, <1>3, <1>4, <1>5, <1>6, <1>7, <1>8, <1>9, <1>10,
           <1>11, <1>12, <1>13, <1>14, <1>15, <1>16, <1>17, <1>18, <1>19,
           <1>20, <1>21, <1>22, <1>23, <1>24, <1>25, <1>26, <1>27, <1>28,
           <1>29, <1>30, <1>31, <1>32, <1>33, <1>34, <1>35 DEF Did

LEMMA Names == Next => \E op : Did(op)
<1>1. /\ (ADC => Did("ADC")) /\ (SBC => Did("SBC")) /\ (CMP => Did("CMP"))
      /\ (ADDW => Did("ADDW")) /\ (SUBW => Did("SUBW"))
      /\ (CMPW => Did("CMPW")) /\ (MUL => Did("MUL")) /\ (DIV => Did("DIV"))
      /\ (ASL => Did("ASL")) /\ (ROL => Did("ROL")) /\ (LSR => Did("LSR"))
      /\ (ROR => Did("ROR")) /\ (DAA => Did("DAA")) /\ (DAS => Did("DAS"))
      /\ (OR => Did("OR")) /\ (AND => Did("AND")) /\ (EOR => Did("EOR"))
      /\ (INC => Did("INC")) /\ (DEC => Did("DEC")) /\ (XCN => Did("XCN"))
      /\ (TEST => Did("TEST")) /\ (INCW => Did("INCW"))
      /\ (DECW => Did("DECW")) /\ (MOVW => Did("MOVW"))
      /\ (CLRC => Did("CLRC")) /\ (SETC => Did("SETC"))
      /\ (NOTC => Did("NOTC")) /\ (CLRV => Did("CLRV"))
      /\ (CLRP => Did("CLRP")) /\ (SETP => Did("SETP")) /\ (EI => Did("EI"))
      /\ (DI => Did("DI")) /\ (BRK => Did("BRK"))
      /\ (PushPSW => Did("PUSH PSW")) /\ (PopPSW => Did("POP PSW"))
  BY DEF Did
<1>2. Next => \/ Did("ADC") \/ Did("SBC") \/ Did("CMP") \/ Did("ADDW")
              \/ Did("SUBW") \/ Did("CMPW") \/ Did("MUL") \/ Did("DIV")
              \/ Did("ASL") \/ Did("ROL") \/ Did("LSR") \/ Did("ROR")
              \/ Did("DAA") \/ Did("DAS") \/ Did("OR") \/ Did("AND")
              \/ Did("EOR") \/ Did("INC") \/ Did("DEC") \/ Did("XCN")
              \/ Did("TEST") \/ Did("INCW") \/ Did("DECW") \/ Did("MOVW")
              \/ Did("CLRC") \/ Did("SETC") \/ Did("NOTC") \/ Did("CLRV")
              \/ Did("CLRP") \/ Did("SETP") \/ Did("EI") \/ Did("DI")
              \/ Did("BRK") \/ Did("PUSH PSW") \/ Did("POP PSW")
  BY <1>1 DEF Next
<1> QED BY <1>2

(* What was done before the operation a program has come to. *)
LEMMA LastStep ==
  ASSUME ran \in Seq(STRING), todo \in Seq(STRING), Next
  PROVE  /\ m' = m /\ start' = start
         /\ ran' # <<>>
         /\ ran' \in Seq(STRING) /\ todo' \in Seq(STRING)
         /\ Did(ran'[Len(ran')])
         /\ \A p : ran' = <<p>> => ran = <<>> /\ Did(p)
         /\ \A p, q : ran' = <<p, q>> => ran = <<p>> /\ Did(q)
         /\ \A p, q, r : ran' = <<p, q, r>> => ran = <<p, q>> /\ Did(r)
<1>1. PICK op : Did(op)
  BY Names
<1>2. /\ ran' = Append(ran, op) /\ m' = m /\ start' = start
      /\ todo # <<>> /\ Head(todo) = op /\ todo' = Tail(todo)
  BY <1>1, Turns DEF Turn
<1>a. op \in STRING /\ todo' \in Seq(STRING)
  BY <1>2, HeadTailProperties
<1>b. ran' \in Seq(STRING)
  BY <1>2, <1>a, AppendProperties
<1>3. /\ ran' # <<>> /\ Len(ran) \in Nat /\ Len(ran) = Len(ran') - 1
      /\ ran'[Len(ran')] = op
      /\ \A i \in 1 .. Len(ran) : ran'[i] = ran[i]
  <2> DEFINE t == Append(ran, op)
  <2>1. /\ t # <<>> /\ Len(t) = Len(ran) + 1 /\ t[Len(ran) + 1] = op
        /\ \A i \in 1 .. Len(ran) : t[i] = ran[i]
    <3>1. t # <<>>
      BY <1>a, AppendProperties
    <3>2. Len(t) = Len(ran) + 1
      BY <1>a, AppendProperties
    <3>3. t[Len(ran) + 1] = op
      BY <1>a, AppendProperties
    <3>4. \A i \in 1 .. Len(ran) : t[i] = ran[i]
      BY <1>a, AppendProperties
    <3> QED BY <3>1, <3>2, <3>3, <3>4
  <2>2. Len(ran) \in Nat
    OBVIOUS
  <2>3. t = ran'
    BY <1>2
  <2> HIDE DEF t
  <2> QED BY <2>1, <2>2, <2>3
<1>c. ASSUME NEW p, ran' = <<p>>
      PROVE  ran = <<>> /\ op = p
  <2>1. Len(ran') = 1 /\ ran'[1] = p
    BY <1>c
  <2>2. Len(ran) = 0 /\ op = p
    BY <1>3, <2>1
  <2> QED BY <2>2, EmptySeq
<1>d. ASSUME NEW p, NEW q, ran' = <<p, q>>
      PROVE  ran = <<p>> /\ op = q
  <2>1. Len(ran') = 2 /\ ran'[1] = p /\ ran'[2] = q
    BY <1>d
  <2>2. Len(ran) = 1 /\ op = q
    BY <1>3, <2>1
  <2>3. ran[1] = p
    BY <1>3, <2>1, <2>2
  <2> QED BY <2>2, <2>3
<1>e. ASSUME NEW p, NEW q, NEW r, ran' = <<p, q, r>>
      PROVE  ran = <<p, q>> /\ op = r
  <2>1. Len(ran') = 3 /\ ran'[1] = p /\ ran'[2] = q /\ ran'[3] = r
    BY <1>e
  <2>2. Len(ran) = 2 /\ op = r
    BY <1>3, <2>1
  <2>3. ran[1] = p /\ ran[2] = q
    BY <1>3, <2>1, <2>2
  <2> QED BY <2>2, <2>3
<1>4. /\ Did(ran'[Len(ran')])
      /\ \A p : ran' = <<p>> => ran = <<>> /\ Did(p)
      /\ \A p, q : ran' = <<p, q>> => ran = <<p>> /\ Did(q)
      /\ \A p, q, r : ran' = <<p, q, r>> => ran = <<p, q>> /\ Did(r)
  BY <1>1, <1>3, <1>c, <1>d, <1>e, Zenon
<1> QED BY <1>2, <1>3, <1>4, <1>a, <1>b

-----------------------------------------------------------------------------
(* Types. *)

LEMMA FlagSteps ==
  ASSUME NEW f \in FlagBytes
  PROVE  /\ SetFlag(f, "c") \in FlagBytes /\ SetFlag(f, "i") \in FlagBytes
         /\ ClrFlag(f, "c") \in FlagBytes /\ ClrFlag(f, "i") \in FlagBytes
         /\ ClrFlag(ClrFlag(f, "v"), "h") \in FlagBytes
         /\ ClrFlag(SetFlag(f, "b"), "i") \in FlagBytes
         /\ SetP(f, 0) \in FlagBytes /\ SetP(f, 1) \in FlagBytes
         /\ ComplementCarry(f) \in FlagBytes
<1>1. 0 \in Byte /\ 1 \in Byte /\ One(f.c = 0) \in Byte
  BY DEF Byte, One, Bit
<1>2. SetFlag(f, "c") \in FlagBytes /\ SetFlag(f, "i") \in FlagBytes
  BY <1>1 DEF SetFlag, FlagBytes
<1>3. ClrFlag(f, "c") \in FlagBytes /\ ClrFlag(f, "i") \in FlagBytes
  BY <1>1 DEF ClrFlag, FlagBytes
<1>4. \A g \in FlagBytes : ClrFlag(g, "h") \in FlagBytes /\ ClrFlag(g, "i") \in FlagBytes
  BY <1>1 DEF ClrFlag, FlagBytes
<1>5. ClrFlag(f, "v") \in FlagBytes /\ SetFlag(f, "b") \in FlagBytes
  BY <1>1 DEF ClrFlag, SetFlag, FlagBytes
<1>6. SetP(f, 0) \in FlagBytes /\ SetP(f, 1) \in FlagBytes
  BY DEF SetP, FlagBytes
<1>7. ComplementCarry(f) \in FlagBytes
  BY <1>1 DEF ComplementCarry, FlagBytes
<1> QED BY <1>2, <1>3, <1>4, <1>5, <1>6, <1>7

LEMMA DividedInt ==
  ASSUME NEW v \in Int, NEW work \in Int
  PROVE  Divided(v, work) \in Int
<1>1. \A u \in Int : DivStep(u, work) \in Int
  BY DEF DivStep, DivBit
<1>2. \A u \in Int : Thrice(u, work) \in Int
  BY <1>1 DEF Thrice
<1> QED BY <1>2 DEF Divided

LEMMA DivTypes ==
  ASSUME NEW ya \in Int, NEW d \in Byte, NEW f \in FlagBytes
  PROVE  /\ DivFlags(ya, d, f) \in FlagBytes
         /\ IsN(DivFlags(ya, d, f)) <=> Divided(ya, 512 * d) % 256 >= 128
         /\ IsZ(DivFlags(ya, d, f)) <=> Divided(ya, 512 * d) % 256 = 0
         /\ IsV(DivFlags(ya, d, f)) <=> HasBit(Divided(ya, 512 * d), 256)
<1> DEFINE yva == Divided(ya, 512 * d)
           k == StoreNZ(f, yva)
           h == One(d % 16 <= (ya \div 256) % 16)
           v == One(HasBit(yva, 256))
           g == DivFlags(ya, d, f)
<1>1. yva \in Int
  <2>1. 512 * d \in Int
    BY DEF Byte
  <2> QED BY <2>1, DividedInt
<1>2. h \in Byte /\ v \in Byte /\ (v # 0 <=> HasBit(yva, 256))
  BY FlagValues
<1>3. g = [k EXCEPT !.h = h, !.v = v]
  BY DEF DivFlags
<1> HIDE DEF yva, h, v
<1>4. k \in FlagBytes /\ (IsN(k) <=> yva % 256 >= 128) /\ (IsZ(k) <=> yva % 256 = 0)
  BY <1>1, StoreTypes
<1> HIDE DEF g, k
<1>5. g \in FlagBytes
  BY <1>2, <1>3, <1>4 DEF FlagBytes
<1>6. g.n = k.n /\ g.z = k.z /\ g.v = v
  BY <1>3, <1>4 DEF FlagBytes
<1>7. /\ g \in FlagBytes /\ (IsN(g) <=> yva % 256 >= 128)
      /\ (IsZ(g) <=> yva % 256 = 0) /\ (IsV(g) <=> HasBit(yva, 256))
  BY <1>2, <1>4, <1>5, <1>6 DEF IsN, IsZ, IsV
<1> QED BY <1>7 DEF g, yva

LEMMA Products ==
  ASSUME NEW p \in Byte, NEW q \in Byte
  PROVE  p * q \in Nat /\ p * q <= 65025
<1>1. p \in Nat /\ q \in Nat /\ p <= 255 /\ q <= 255
  BY DEF Byte
<1>2. 255 * q = p * q + (255 - p) * q /\ (255 - p) * q \in Nat
  BY <1>1
<1> QED BY <1>1, <1>2

LEMMA WordBytes ==
  ASSUME NEW v \in Int, 0 <= v, v < 65536
  PROVE  v % 256 \in Byte /\ v \div 256 \in Byte /\ 256 * (v \div 256) + (v % 256) = v
<1>1. v % 256 \in Byte
  BY DEF Byte
<1>2. v \div 256 \in Byte
  BY DEF Byte
<1>3. 256 * (v \div 256) + (v % 256) = v
  OBVIOUS
<1> QED BY <1>1, <1>2, <1>3

LEMMA BytesWord ==
  ASSUME NEW hi \in Byte, NEW lo \in Byte
  PROVE  /\ 256 * hi + lo \in Word /\ 256 * hi + lo \in Int
         /\ 0 <= 256 * hi + lo /\ 256 * hi + lo < 65536
<1>1. /\ 256 * hi + lo \in Int
      /\ 0 <= 256 * hi + lo /\ 256 * hi + lo < 65536
  BY DEF Byte
<1> QED BY <1>1, WordIs

LEMMA SetYATypes ==
  ASSUME NEW v, v \in Word, SetYA(v)
  PROVE  a' \in Byte /\ y' \in Byte /\ YA' = v
<1>1. v \in Int /\ 0 <= v /\ v < 65536
  BY WordIs
<1>2. v % 256 \in Byte /\ v \div 256 \in Byte /\ 256 * (v \div 256) + (v % 256) = v
  BY <1>1, WordBytes
<1>3. a' = v % 256 /\ y' = v \div 256
  BY DEF SetYA
<1>4. YA' = 256 * y' + a'
  BY DEF YA
<1>5. 256 * y' + a' = v
  BY <1>2, <1>3
<1> QED BY <1>2, <1>3, <1>4, <1>5

LEMMA RegisterSteps ==
  ASSUME Registers, m \in Byte, Next
  PROVE  Registers'
<1> USE DEF Registers
<1>1. CASE ADC
  BY <1>1, AdcIs DEF ADC, Do
<1>2. CASE SBC
  BY <1>2, SbcIs DEF SBC, Do
<1>3. CASE CMP
  BY <1>3, CmpIs DEF CMP, Do
<1>4. CASE ADDW
  <2>1. YA \in Word /\ YA \in Int
    BY BytesWord DEF YA
  <2>2. AddWord(YA, w) \in Word /\ AddwFlags(YA, w, fl) \in FlagBytes
    BY <2>1, AddwIs
  <2>3. SetYA(AddWord(YA, w)) /\ fl' = AddwFlags(YA, w, fl) /\ w' = w
    BY <1>4 DEF ADDW, Do
  <2> QED BY <2>2, <2>3, SetYATypes DEF SetYA
<1>5. CASE SUBW
  <2>1. YA \in Word /\ YA \in Int
    BY BytesWord DEF YA
  <2>2. SubWord(YA, w) \in Word /\ SubwFlags(YA, w, fl) \in FlagBytes
    BY <2>1, SubwIs
  <2>3. SetYA(SubWord(YA, w)) /\ fl' = SubwFlags(YA, w, fl) /\ w' = w
    BY <1>5 DEF SUBW, Do
  <2> QED BY <2>2, <2>3, SetYATypes DEF SetYA
<1>6. CASE CMPW
  <2>1. YA \in Word /\ YA \in Int
    BY BytesWord DEF YA
  <2> QED BY <1>6, <2>1, CmpIs DEF CMPW, Do
<1>7. CASE MUL
  <2>1. y * a \in Int /\ 0 <= y * a /\ y * a < 65536 /\ (y * a) \div 256 \in Int
    BY Products
  <2> DEFINE v == y * a
             h == v \div 256
  <2>2. SetYA(v) /\ fl' = StoreNZ(fl, h) /\ w' = w
    BY <1>7 DEF MUL, Do
  <2>3. v \in Word /\ h \in Int
    BY <2>1, WordIs
  <2> HIDE DEF v, h
  <2>4. a' \in Byte /\ y' \in Byte /\ fl' \in FlagBytes
    BY <2>2, <2>3, SetYATypes, StoreTypes
  <2> QED BY <2>2, <2>4 DEF SetYA
<1>8. CASE DIV
  <2>1. YA \in Word /\ YA \in Int
    BY BytesWord DEF YA
  <2> DEFINE yva == Divided(YA, 512 * x)
  <2>2. yva \in Int
    <3>1. 512 * x \in Int
      BY DEF Byte
    <3> QED BY <2>1, <3>1, DividedInt
  <2>3. /\ a' = yva % 256 /\ y' = (yva \div 512) % 256
        /\ fl' = DivFlags(YA, x, fl) /\ x' = x /\ w' = w /\ stack' = stack
    BY <1>8 DEF DIV, Do
  <2> HIDE DEF yva
  <2>4. a' \in Byte /\ y' \in Byte
    BY <2>2, <2>3 DEF Byte
  <2> QED BY <2>1, <2>3, <2>4, DivTypes
<1>9. CASE ASL
  <2>1. Asl(a) \in Byte /\ HasBit(a, 128) \in BOOLEAN
    BY ShiftsAre DEF HasBit
  <2>2. CarryOut(fl, Asl(a), HasBit(a, 128)) \in FlagBytes
    BY <2>1, CarryOutIs
  <2> QED BY <1>9, <2>1, <2>2 DEF ASL, Do, Rotate
<1>10. CASE ROL
  <2>1. Rol(a, fl) \in Byte /\ HasBit(a, 128) \in BOOLEAN
    BY ShiftsAre DEF HasBit
  <2>2. CarryOut(fl, Rol(a, fl), HasBit(a, 128)) \in FlagBytes
    BY <2>1, CarryOutIs
  <2> QED BY <1>10, <2>1, <2>2 DEF ROL, Do, Rotate
<1>11. CASE LSR
  <2>1. Lsr(a) \in Byte /\ HasBit(a, 1) \in BOOLEAN
    BY ShiftsAre DEF HasBit
  <2>2. CarryOut(fl, Lsr(a), HasBit(a, 1)) \in FlagBytes
    BY <2>1, CarryOutIs
  <2> QED BY <1>11, <2>1, <2>2 DEF LSR, Do, Rotate
<1>12. CASE ROR
  <2>1. Ror(a, fl) \in Byte /\ HasBit(a, 1) \in BOOLEAN
    BY ShiftsAre DEF HasBit
  <2>2. CarryOut(fl, Ror(a, fl), HasBit(a, 1)) \in FlagBytes
    BY <2>1, CarryOutIs
  <2> QED BY <1>12, <2>1, <2>2 DEF ROR, Do, Rotate
<1>13. CASE DAA
  <2> DEFINE six == LowDigitOver(a) \/ IsH(fl)
             low == IF six THEN (a + 6) % 256 ELSE a
             carry == IsC(fl) \/ (six /\ low < 6)
             sixty == a > 153 \/ carry
             res == IF sixty THEN (low + 96) % 256 ELSE low
             c == IF sixty \/ carry THEN 1 ELSE fl.c
  <2>1. low \in Byte
    BY DEF Byte
  <2>2. res \in Byte
    BY <2>1 DEF Byte
  <2>3. c \in Byte
    BY DEF Byte, FlagBytes
  <2>4. /\ a' = res /\ fl' = WithC(StoreNZ(fl, res), c)
        /\ UNCHANGED <<x, y, stack, w>>
    BY <1>13 DEF DAA, Do, WithC
  <2> HIDE DEF res, c
  <2>5. StoreNZ(fl, res) \in FlagBytes
    BY <2>2, ByteFlags
  <2> QED BY <2>2, <2>3, <2>4, <2>5, SetCarry
<1>14. CASE DAS
  <2> DEFINE low == IF LowDigitOver(a) \/ ~IsH(fl) THEN (a - 6) % 256 ELSE a
             sixty == a > 153 \/ ~IsC(fl)
             res == IF sixty THEN (low - 96) % 256 ELSE low
             c == IF sixty THEN 0 ELSE fl.c
  <2>1. low \in Byte
    BY DEF Byte
  <2>2. res \in Byte
    BY <2>1 DEF Byte
  <2>3. c \in Byte
    BY DEF Byte, FlagBytes
  <2>4. /\ a' = res /\ fl' = WithC(StoreNZ(fl, res), c)
        /\ UNCHANGED <<x, y, stack, w>>
    BY <1>14 DEF DAS, Do, WithC
  <2> HIDE DEF res, c
  <2>5. StoreNZ(fl, res) \in FlagBytes
    BY <2>2, ByteFlags
  <2> QED BY <2>2, <2>3, <2>4, <2>5, SetCarry
<1>15. CASE OR
  <2>1. BitOr(a, m) \in Byte
    BY BitOperators
  <2> QED BY <1>15, <2>1, ByteFlags DEF OR, Do, Result
<1>16. CASE AND
  <2>1. BitAnd(a, m) \in Byte
    BY BitOperators
  <2> QED BY <1>16, <2>1, ByteFlags DEF AND, Do, Result
<1>17. CASE EOR
  <2>1. BitXor(a, m) \in Byte
    BY BitOperators
  <2> QED BY <1>17, <2>1, ByteFlags DEF EOR, Do, Result
<1>18. CASE INC
  <2> DEFINE v == (a + 1) % 256
  <2>1. v \in Byte
    BY DEF Byte
  <2>2. Result(v) /\ w' = w
    BY <1>18 DEF INC, Do
  <2> HIDE DEF v
  <2> QED BY <2>1, <2>2, ByteFlags DEF Result
<1>19. CASE DEC
  <2> DEFINE v == (a - 1) % 256
  <2>1. v \in Byte
    BY DEF Byte
  <2>2. Result(v) /\ w' = w
    BY <1>19 DEF DEC, Do
  <2> HIDE DEF v
  <2> QED BY <2>1, <2>2, ByteFlags DEF Result
<1>20. CASE XCN
  <2>1. BitOr((16 * a) % 256, a \div 16) \in Byte
    BY Halves
  <2> QED BY <1>20, <2>1, ByteFlags DEF XCN, Do, Result
<1>21. CASE TEST
  <2>1. BitAnd(m, a) \in Byte
    BY BitOperators
  <2> QED BY <1>21, <2>1, ByteFlags DEF TEST, Do
<1>22. CASE INCW
  <2> DEFINE v == (w + 1) % 65536
  <2>1. v \in Word
    BY WordIs
  <2>2. StepWord(v)
    BY <1>22 DEF INCW
  <2> HIDE DEF v
  <2> QED BY <2>1, <2>2, WordFlags DEF StepWord
<1>23. CASE DECW
  <2> DEFINE v == (w - 1) % 65536
  <2>1. v \in Word
    BY WordIs
  <2>2. StepWord(v)
    BY <1>23 DEF DECW
  <2> HIDE DEF v
  <2> QED BY <2>1, <2>2, WordFlags DEF StepWord
<1>24. CASE MOVW
  <2>1. SetYA(w) /\ fl' = StoreNZWord(fl, w) /\ w' = w
    BY <1>24 DEF MOVW, Do
  <2> QED BY <2>1, SetYATypes, WordFlags DEF SetYA
<1>25. CASE CLRC
  BY <1>25, FlagSteps DEF CLRC, Do, Flags
<1>26. CASE SETC
  BY <1>26, FlagSteps DEF SETC, Do, Flags
<1>27. CASE NOTC
  BY <1>27, FlagSteps DEF NOTC, Do, Flags
<1>28. CASE CLRV
  BY <1>28, FlagSteps DEF CLRV, Do, Flags
<1>29. CASE CLRP
  BY <1>29, FlagSteps DEF CLRP, Do, Flags
<1>30. CASE SETP
  BY <1>30, FlagSteps DEF SETP, Do, Flags
<1>31. CASE EI
  BY <1>31, FlagSteps DEF EI, Do, Flags
<1>32. CASE DI
  BY <1>32, FlagSteps DEF DI, Do, Flags
<1>33. CASE BRK
  BY <1>33, FlagSteps, FlagsAre DEF BRK, Do
<1>34. CASE PushPSW
  BY <1>34, FlagsAre DEF PushPSW, Do
<1>35. CASE PopPSW
  BY <1>35, RestoreTypes DEF PopPSW, Do
<1> QED BY <1>1, <1>2, <1>3, <1>4, <1>5, <1>6, <1>7, <1>8, <1>9, <1>10,
           <1>11, <1>12, <1>13, <1>14, <1>15, <1>16, <1>17, <1>18, <1>19,
           <1>20, <1>21, <1>22, <1>23, <1>24, <1>25, <1>26, <1>27, <1>28,
           <1>29, <1>30, <1>31, <1>32, <1>33, <1>34, <1>35 DEF Next

-----------------------------------------------------------------------------
(* The invariant: the properties, and where the first operations of a program
   have left the registers when the others come. *)
Prefixes ==
  /\ ran = <<>> =>
       a = start.a /\ y = start.y /\ fl = RestoreFlags(start.psw) /\ stack = start.psw
  /\ ran = <<"INC">> => a = (start.a + 1) % 256 /\ (IsC(fl) <=> StartCarry)
  /\ ran = <<"DEC">> => a = (start.a - 1) % 256 /\ (IsC(fl) <=> StartCarry)
  /\ ran = <<"XCN">> =>
       a = 16 * (start.a % 16) + (start.a \div 16) /\ (IsC(fl) <=> StartCarry)
  /\ ran = <<"ROL">> => a + 256 * One(IsC(fl)) = 2 * start.a + One(StartCarry)
  /\ ran = <<"ROR">> => 2 * a + One(IsC(fl)) = start.a + 256 * One(StartCarry)
  /\ ran = <<"INCW">> \/ ran = <<"DECW">> => YA = StartYA
  /\ ran = <<"MUL">> => YA = start.y * start.a
  /\ ran = <<"NOTC">> => fl = ComplementCarry(RestoreFlags(start.psw))
  /\ ran = <<"NOTC", "NOTC">> => SetupFlags(fl) = start.psw

AluInv ==
  /\ Types /\ Prefixes
  /\ SumsAreExact /\ DecimalAdjusts /\ DivDivides /\ PswIsFaithful

(* At the first operation the registers are those of the start. *)
LEMMA FirstStep ==
  ASSUME AluInv, Next, NEW op, ran' = <<op>>
  PROVE  /\ Did(op) /\ m' = m /\ start' = start
         /\ a = start.a /\ y = start.y /\ YA = StartYA
         /\ fl = RestoreFlags(start.psw) /\ stack = start.psw
         /\ IsC(fl) <=> StartCarry
         /\ StartCarry' <=> StartCarry
         /\ StartYA' = StartYA
<1>1. Types /\ Prefixes
  BY DEF AluInv
<1>2. ran = <<>> /\ Did(op) /\ m' = m /\ start' = start
  BY <1>1, LastStep DEF Types
<1>3. a = start.a /\ y = start.y /\ fl = RestoreFlags(start.psw) /\ stack = start.psw
  BY <1>1, <1>2 DEF Prefixes
<1>4. IsC(fl) <=> StartCarry
  BY <1>3 DEF IsC, StartCarry, RestoreFlags, One, Bit
<1> QED BY <1>2, <1>3, <1>4 DEF YA, StartYA, StartCarry

LEMMA SecondStep ==
  ASSUME AluInv, Next, NEW first, NEW op, ran' = <<first, op>>
  PROVE  /\ ran = <<first>> /\ Did(op) /\ m' = m /\ start' = start
         /\ StartCarry' <=> StartCarry
         /\ StartYA' = StartYA
<1>1. Types
  BY DEF AluInv
<1>2. ran = <<first>> /\ Did(op) /\ m' = m /\ start' = start
  BY <1>1, LastStep DEF Types
<1> QED BY <1>2 DEF StartYA, StartCarry

LEMMA AluTypes ==
  ASSUME AluInv
  PROVE  /\ a \in Byte /\ x \in Byte /\ y \in Byte /\ m \in Byte /\ w \in Word
         /\ stack \in Byte /\ fl \in FlagBytes
         /\ start.a \in Byte /\ start.y \in Byte /\ start.psw \in Byte
         /\ YA \in Word /\ YA \in Int /\ StartYA \in Word /\ StartYA \in Int
<1>1. /\ a \in Byte /\ x \in Byte /\ y \in Byte /\ m \in Byte /\ w \in Word
      /\ stack \in Byte /\ fl \in FlagBytes
      /\ start.a \in Byte /\ start.y \in Byte /\ start.psw \in Byte
  BY DEF AluInv, Types, Registers
<1> QED BY <1>1, BytesWord DEF YA, StartYA

-----------------------------------------------------------------------------
(* Sums. *)

LEMMA AdcStep ==
  ASSUME AluInv, Next
  PROVE  AdcExact'
<1> SUFFICES ASSUME ran' = <<"ADC">>
             PROVE  AdcExact'
  BY DEF AdcExact
<1>1. Did("ADC") /\ m' = m /\ start' = start /\ a = start.a
      /\ (IsC(fl) <=> StartCarry) /\ (StartCarry' <=> StartCarry)
  BY FirstStep
<1>2. a' = Adc(a, m, fl) /\ fl' = AdcFlags(a, m, fl)
  BY <1>1, DidIs DEF ADC
<1>3. One(IsC(fl)) = One(StartCarry) /\ One(StartCarry') = One(StartCarry)
  BY <1>1 DEF One, Bit
<1>4. /\ a' + 256 * One(IsC(fl')) = a + m + One(IsC(fl))
      /\ (IsN(fl') <=> a' >= 128) /\ (IsZ(fl') <=> a' = 0)
      /\ IsV(fl') <=> ~FitsByte(Signed(a) + Signed(m) + One(IsC(fl)))
      /\ IsH(fl') <=> a' % 16 < (a % 16) + (m % 16) + One(IsC(fl))
  BY <1>2, AluTypes, AdcIs
<1> QED BY <1>1, <1>3, <1>4 DEF AdcExact, NZ

LEMMA SbcStep ==
  ASSUME AluInv, Next
  PROVE  SbcExact'
<1> SUFFICES ASSUME ran' = <<"SBC">>
             PROVE  SbcExact'
  BY DEF SbcExact
<1>1. Did("SBC") /\ m' = m /\ start' = start /\ a = start.a
      /\ (IsC(fl) <=> StartCarry) /\ (StartCarry' <=> StartCarry)
  BY FirstStep
<1>2. a' = Sbc(a, m, fl) /\ fl' = SbcFlags(a, m, fl)
  BY <1>1, DidIs DEF SBC
<1>3. One(~IsC(fl)) = One(~StartCarry) /\ One(~StartCarry') = One(~StartCarry)
  BY <1>1 DEF One, Bit
<1>4. /\ a' - 256 * One(~IsC(fl')) = a - m - One(~IsC(fl))
      /\ (IsN(fl') <=> a' >= 128) /\ (IsZ(fl') <=> a' = 0)
      /\ IsV(fl') <=> ~FitsByte(Signed(a) - Signed(m) - One(~IsC(fl)))
      /\ IsH(fl') <=> a' % 16 = (a % 16) - (m % 16) - One(~IsC(fl))
  BY <1>2, AluTypes, SbcIs
<1> QED BY <1>1, <1>3, <1>4 DEF SbcExact, NZ

LEMMA AddwStep ==
  ASSUME AluInv, Next
  PROVE  AddwExact'
<1> SUFFICES ASSUME ran' = <<"ADDW">>
             PROVE  AddwExact'
  BY DEF AddwExact
<1>1. Did("ADDW") /\ YA = StartYA /\ StartYA' = StartYA
  BY FirstStep
<1>2. SetYA(AddWord(YA, w)) /\ fl' = AddwFlags(YA, w, fl) /\ w' = w
  BY <1>1, DidIs DEF ADDW, Do
<1> DEFINE r == AddWord(YA, w)
           g == AddwFlags(YA, w, fl)
<1>3. /\ r \in Word /\ g \in FlagBytes
      /\ r + 65536 * One(IsC(g)) = YA + w
      /\ (IsN(g) <=> r >= 32768) /\ (IsZ(g) <=> r = 0)
      /\ IsV(g) <=> ~FitsWord(SignedWord(YA) + SignedWord(w))
      /\ IsH(g) <=> r % 4096 < (YA % 4096) + (w % 4096)
  BY AluTypes, AddwIs
<1>4. SetYA(r) /\ fl' = g
  BY <1>2
<1> HIDE DEF r, g
<1>5. YA' = r
  BY <1>3, <1>4, SetYATypes
<1> QED BY <1>1, <1>2, <1>3, <1>4, <1>5 DEF AddwExact, NZWord

LEMMA SubwStep ==
  ASSUME AluInv, Next
  PROVE  SubwExact'
<1> SUFFICES ASSUME ran' = <<"SUBW">>
             PROVE  SubwExact'
  BY DEF SubwExact
<1>1. Did("SUBW") /\ YA = StartYA /\ StartYA' = StartYA
  BY FirstStep
<1>2. SetYA(SubWord(YA, w)) /\ fl' = SubwFlags(YA, w, fl) /\ w' = w
  BY <1>1, DidIs DEF SUBW, Do
<1> DEFINE r == SubWord(YA, w)
           g == SubwFlags(YA, w, fl)
<1>3. /\ r \in Word /\ g \in FlagBytes
      /\ r - 65536 * One(~IsC(g)) = YA - w
      /\ (IsN(g) <=> r >= 32768) /\ (IsZ(g) <=> r = 0)
      /\ IsV(g) <=> ~FitsWord(SignedWord(YA) - SignedWord(w))
      /\ IsH(g) <=> r % 4096 = (YA % 4096) - (w % 4096)
  BY AluTypes, SubwIs
<1>4. SetYA(r) /\ fl' = g
  BY <1>2
<1> HIDE DEF r, g
<1>5. YA' = r
  BY <1>3, <1>4, SetYATypes
<1> QED BY <1>1, <1>2, <1>3, <1>4, <1>5 DEF SubwExact, NZWord

(* Comparisons. *)
LEMMA ComparesStep ==
  ASSUME AluInv, Next
  PROVE  ComparesOrder'
<1>1. ASSUME ran' = <<"CMP">>
      PROVE  ((IsC(fl) <=> start.a >= m) /\ (IsZ(fl) <=> start.a = m))'
  <2>1. Did("CMP") /\ m' = m /\ start' = start /\ a = start.a
    BY <1>1, FirstStep
  <2>2. fl' = CmpFlags(a, m, fl)
    BY <2>1, DidIs DEF CMP
  <2>3. (IsC(fl') <=> a >= m) /\ (IsZ(fl') <=> a = m)
    BY <2>2, AluTypes, CmpIs
  <2> QED BY <2>1, <2>3
<1>2. ASSUME ran' = <<"CMPW">>
      PROVE  ((IsC(fl) <=> StartYA >= w) /\ (IsZ(fl) <=> StartYA = w))'
  <2>1. Did("CMPW") /\ YA = StartYA /\ StartYA' = StartYA
    BY <1>2, FirstStep
  <2>2. fl' = CmpwFlags(YA, w, fl) /\ w' = w
    BY <2>1, DidIs DEF CMPW, Do
  <2>3. (IsC(fl') <=> YA >= w) /\ (IsZ(fl') <=> YA = w)
    BY <2>2, AluTypes, CmpIs
  <2> QED BY <2>1, <2>2, <2>3
<1> QED BY <1>1, <1>2 DEF ComparesOrder

(* An operation on bits leaves its result in A, and says its sign and whether
   it is zero. *)
LEMMA ResultIs ==
  ASSUME AluInv, NEW v \in Byte, Result(v)
  PROVE  /\ a' = v /\ NZ(a)' /\ (IsC(fl') <=> IsC(fl)) /\ fl' \in FlagBytes
<1>1. a' = v /\ fl' = StoreNZ(fl, v)
  BY DEF Result
<1>2. /\ fl' \in FlagBytes
      /\ IsN(fl') <=> v >= 128
      /\ IsZ(fl') <=> v = 0
      /\ IsC(fl') <=> IsC(fl)
  BY <1>1, AluTypes, ByteFlags
<1> QED BY <1>1, <1>2 DEF NZ

LEMMA BitsStep ==
  ASSUME AluInv, Next
  PROVE  BitsShareTheSum'
<1>1. ASSUME ran' = <<"OR">>
      PROVE  (a + BitAnd(start.a, m) = start.a + m /\ NZ(a))'
  <2>1. Did("OR") /\ m' = m /\ start' = start /\ a = start.a
    BY <1>1, FirstStep
  <2>2. BitOr(a, m) \in Byte /\ BitOr(a, m) + BitAnd(a, m) = a + m
    BY AluTypes, BitOperators
  <2>3. Result(BitOr(a, m))
    BY <2>1, DidIs DEF OR
  <2>4. a' = BitOr(a, m) /\ NZ(a)'
    BY <2>2, <2>3, ResultIs
  <2> QED BY <2>1, <2>2, <2>4
<1>2. ASSUME ran' = <<"AND">>
      PROVE  (a + BitOr(start.a, m) = start.a + m /\ NZ(a))'
  <2>1. Did("AND") /\ m' = m /\ start' = start /\ a = start.a
    BY <1>2, FirstStep
  <2>2. /\ BitAnd(a, m) \in Byte /\ BitOr(a, m) \in Byte
        /\ BitOr(a, m) + BitAnd(a, m) = a + m
    BY AluTypes, BitOperators
  <2>3. Result(BitAnd(a, m))
    BY <2>1, DidIs DEF AND
  <2>4. a' = BitAnd(a, m) /\ NZ(a)'
    BY <2>2, <2>3, ResultIs
  <2>5. BitAnd(a, m) + BitOr(a, m) = a + m
    <3> DEFINE p == BitAnd(a, m)
               q == BitOr(a, m)
    <3>1. p \in Int /\ q \in Int /\ q + p = a + m
      BY <2>2 DEF Byte
    <3> HIDE DEF p, q
    <3>2. p + q = a + m
      BY <3>1
    <3> QED BY <3>2 DEF p, q
  <2> QED BY <2>1, <2>4, <2>5
<1>3. ASSUME ran' = <<"EOR">>
      PROVE  (a + 2 * BitAnd(start.a, m) = start.a + m /\ NZ(a))'
  <2>1. Did("EOR") /\ m' = m /\ start' = start /\ a = start.a
    BY <1>3, FirstStep
  <2>2. BitXor(a, m) \in Byte /\ BitXor(a, m) + 2 * BitAnd(a, m) = a + m
    BY AluTypes, BitOperators
  <2>3. Result(BitXor(a, m))
    BY <2>1, DidIs DEF EOR
  <2>4. a' = BitXor(a, m) /\ NZ(a)'
    BY <2>2, <2>3, ResultIs
  <2> QED BY <2>1, <2>2, <2>4
<1>4. ASSUME ran' = <<"TEST">>
      PROVE  (IsZ(fl) <=> BitOr(a, m) = a + m)'
  <2>1. Did("TEST") /\ m' = m
    BY <1>4, FirstStep
  <2>2. fl' = StoreNZ(fl, BitAnd(m, a)) /\ a' = a
    BY <2>1, DidIs DEF TEST
  <2>3. /\ BitAnd(m, a) \in Byte /\ BitOr(a, m) \in Byte
        /\ BitOr(a, m) + BitAnd(m, a) = a + m
    BY AluTypes, BitOperators
  <2>4. IsZ(fl') <=> BitAnd(m, a) = 0
    BY <2>2, <2>3, AluTypes, ByteFlags
  <2>5. BitAnd(m, a) = 0 <=> BitOr(a, m) = a + m
    <3> DEFINE p == BitAnd(m, a)
               q == BitOr(a, m)
    <3>1. p \in Int /\ q \in Int /\ q + p = a + m /\ a \in Int /\ m \in Int
      BY <2>3, AluTypes DEF Byte
    <3> HIDE DEF p, q
    <3>2. p = 0 <=> q = a + m
      BY <3>1
    <3> QED BY <3>2 DEF p, q
  <2> QED BY <2>1, <2>2, <2>4, <2>5
<1> QED BY <1>1, <1>2, <1>3, <1>4 DEF BitsShareTheSum

(* Shifts and rotations. *)
LEMMA RotateIs ==
  ASSUME AluInv, NEW v \in Byte, NEW out \in BOOLEAN, Rotate(v, out)
  PROVE  a' = v /\ NZ(a)' /\ (IsC(fl') <=> out) /\ One(IsC(fl')) = One(out)
<1>1. a' = v /\ fl' = CarryOut(fl, v, out)
  BY DEF Rotate
<1>2. (IsC(fl') <=> out) /\ (IsN(fl') <=> v >= 128) /\ (IsZ(fl') <=> v = 0)
  BY <1>1, AluTypes, CarryOutIs
<1>3. One(IsC(fl')) = One(out)
  BY <1>2 DEF One, Bit
<1> QED BY <1>1, <1>2, <1>3 DEF NZ

LEMMA ShiftsStep ==
  ASSUME AluInv, Next
  PROVE  ShiftsDouble'
<1>0. HasBit(a, 128) \in BOOLEAN /\ HasBit(a, 1) \in BOOLEAN
  BY DEF HasBit
<1>1. ASSUME ran' = <<"ASL">>
      PROVE  (a + 256 * One(IsC(fl)) = 2 * start.a /\ NZ(a))'
  <2>1. Did("ASL") /\ start' = start /\ a = start.a
    BY <1>1, FirstStep
  <2>2. Rotate(Asl(a), HasBit(a, 128))
    BY <2>1, DidIs DEF ASL
  <2>3. Asl(a) \in Byte /\ Asl(a) + 256 * One(HasBit(a, 128)) = 2 * a
    BY AluTypes, ShiftsAre
  <2>4. a' = Asl(a) /\ NZ(a)' /\ One(IsC(fl')) = One(HasBit(a, 128))
    BY <1>0, <2>2, <2>3, RotateIs
  <2> QED BY <2>1, <2>3, <2>4
<1>2. ASSUME ran' = <<"LSR">>
      PROVE  (2 * a + One(IsC(fl)) = start.a /\ NZ(a))'
  <2>1. Did("LSR") /\ start' = start /\ a = start.a
    BY <1>2, FirstStep
  <2>2. Rotate(Lsr(a), HasBit(a, 1))
    BY <2>1, DidIs DEF LSR
  <2>3. Lsr(a) \in Byte /\ 2 * Lsr(a) + One(HasBit(a, 1)) = a
    BY AluTypes, ShiftsAre
  <2>4. a' = Lsr(a) /\ NZ(a)' /\ One(IsC(fl')) = One(HasBit(a, 1))
    BY <1>0, <2>2, <2>3, RotateIs
  <2> QED BY <2>1, <2>3, <2>4
<1> QED BY <1>1, <1>2 DEF ShiftsDouble

(* What the operations of ThereAndBack come back to. *)
Back == a = start.a /\ NZ(a) /\ (IsC(fl) <=> StartCarry)

LEMMA BackStep ==
  ASSUME AluInv, Next
  PROVE  ThereAndBack'
<1>1. Prefixes
  BY DEF AluInv
<1>2. One(StartCarry) \in {0, 1} /\ start.a \in Int /\ a \in Int
      /\ (One(StartCarry) = 1 <=> StartCarry)
  BY AluTypes, OneIs DEF Byte
<1>3. ASSUME ran' = <<"ROL", "ROR">>
      PROVE  Back'
  <2>1. ran = <<"ROL">> /\ Did("ROR") /\ start' = start /\ (StartCarry' <=> StartCarry)
    BY <1>3, SecondStep
  <2>2. Rotate(Ror(a, fl), HasBit(a, 1))
    BY <2>1, DidIs DEF ROR
  <2>3. a + 256 * One(IsC(fl)) = 2 * start.a + One(StartCarry)
    BY <1>1, <2>1 DEF Prefixes
  <2>4. Ror(a, fl) \in Byte /\ 2 * Ror(a, fl) + One(HasBit(a, 1)) = a + 256 * One(IsC(fl))
    BY AluTypes, ShiftsAre
  <2>5. HasBit(a, 1) \in BOOLEAN
    BY DEF HasBit
  <2>6. a' = Ror(a, fl) /\ NZ(a)' /\ (IsC(fl') <=> HasBit(a, 1))
    BY <2>2, <2>4, <2>5, RotateIs
  <2>7. One(HasBit(a, 1)) \in {0, 1} /\ (One(HasBit(a, 1)) = 1 <=> HasBit(a, 1))
    BY OneIs
  <2> DEFINE r == Ror(a, fl)
             out == One(HasBit(a, 1))
  <2>8. r \in Int /\ out \in {0, 1} /\ 2 * r + out = 2 * start.a + One(StartCarry)
    BY <2>3, <2>4, <2>7 DEF Byte
  <2> HIDE DEF r, out
  <2>9. r = start.a /\ out = One(StartCarry)
    BY <1>2, <2>8
  <2>10. a' = start'.a /\ (IsC(fl') <=> StartCarry')
    BY <1>2, <2>1, <2>6, <2>7, <2>9 DEF r, out
  <2> QED BY <2>6, <2>10 DEF Back
<1>4. ASSUME ran' = <<"ROR", "ROL">>
      PROVE  Back'
  <2>1. ran = <<"ROR">> /\ Did("ROL") /\ start' = start /\ (StartCarry' <=> StartCarry)
    BY <1>4, SecondStep
  <2>2. Rotate(Rol(a, fl), HasBit(a, 128))
    BY <2>1, DidIs DEF ROL
  <2>3. 2 * a + One(IsC(fl)) = start.a + 256 * One(StartCarry)
    BY <1>1, <2>1 DEF Prefixes
  <2>4. Rol(a, fl) \in Byte /\ Rol(a, fl) + 256 * One(HasBit(a, 128)) = 2 * a + One(IsC(fl))
    BY AluTypes, ShiftsAre
  <2>5. HasBit(a, 128) \in BOOLEAN
    BY DEF HasBit
  <2>6. a' = Rol(a, fl) /\ NZ(a)' /\ (IsC(fl') <=> HasBit(a, 128))
    BY <2>2, <2>4, <2>5, RotateIs
  <2>7. One(HasBit(a, 128)) \in {0, 1} /\ (One(HasBit(a, 128)) = 1 <=> HasBit(a, 128))
    BY OneIs
  <2> DEFINE r == Rol(a, fl)
             out == One(HasBit(a, 128))
  <2>8. /\ r \in Byte /\ out \in {0, 1} /\ start.a \in Byte
        /\ r + 256 * out = start.a + 256 * One(StartCarry)
    BY <2>3, <2>4, <2>7, AluTypes
  <2> HIDE DEF r, out
  <2>9. r = start.a /\ out = One(StartCarry)
    <3> DEFINE c == One(StartCarry)
               k == start.a
    <3>1. c \in {0, 1} /\ k \in Byte /\ r + 256 * out = k + 256 * c
      BY <1>2, <2>8
    <3> HIDE DEF c, k
    <3>2. r = k /\ out = c
      BY <2>8, <3>1 DEF Byte
    <3> QED BY <3>2 DEF c, k
  <2>10. a' = start'.a /\ (IsC(fl') <=> StartCarry')
    BY <1>2, <2>1, <2>6, <2>7, <2>9 DEF r, out
  <2> QED BY <2>6, <2>10 DEF Back
<1>5. ASSUME ran' = <<"INC", "DEC">>
      PROVE  Back'
  <2>1. ran = <<"INC">> /\ Did("DEC") /\ start' = start /\ (StartCarry' <=> StartCarry)
    BY <1>5, SecondStep
  <2>2. Result((a - 1) % 256)
    BY <2>1, DidIs DEF DEC
  <2>3. a = (start.a + 1) % 256 /\ (IsC(fl) <=> StartCarry)
    BY <1>1, <2>1 DEF Prefixes
  <2>4. (a - 1) % 256 = start.a
    BY <2>3, AluTypes DEF Byte
  <2>5. a' = start.a /\ NZ(a)' /\ (IsC(fl') <=> IsC(fl))
    BY <2>2, <2>4, AluTypes, ResultIs
  <2> QED BY <2>1, <2>3, <2>5 DEF Back
<1>6. ASSUME ran' = <<"DEC", "INC">>
      PROVE  Back'
  <2>1. ran = <<"DEC">> /\ Did("INC") /\ start' = start /\ (StartCarry' <=> StartCarry)
    BY <1>6, SecondStep
  <2>2. Result((a + 1) % 256)
    BY <2>1, DidIs DEF INC
  <2>3. a = (start.a - 1) % 256 /\ (IsC(fl) <=> StartCarry)
    BY <1>1, <2>1 DEF Prefixes
  <2>4. (a + 1) % 256 = start.a
    BY <2>3, AluTypes DEF Byte
  <2>5. a' = start.a /\ NZ(a)' /\ (IsC(fl') <=> IsC(fl))
    BY <2>2, <2>4, AluTypes, ResultIs
  <2> QED BY <2>1, <2>3, <2>5 DEF Back
<1>7. ASSUME ran' = <<"XCN", "XCN">>
      PROVE  Back'
  <2>1. ran = <<"XCN">> /\ Did("XCN") /\ start' = start /\ (StartCarry' <=> StartCarry)
    BY <1>7, SecondStep
  <2>2. Result(BitOr((16 * a) % 256, a \div 16))
    BY <2>1, DidIs DEF XCN
  <2>3. a = 16 * (start.a % 16) + (start.a \div 16) /\ (IsC(fl) <=> StartCarry)
    BY <1>1, <2>1 DEF Prefixes
  <2>4. 16 * (a % 16) + a \div 16 = start.a
    <3> DEFINE lo == start.a % 16
               hi == start.a \div 16
    <3>1. lo \in 0 .. 15 /\ hi \in 0 .. 15 /\ start.a = 16 * hi + lo
      BY AluTypes DEF Byte
    <3> HIDE DEF lo, hi
    <3>2. a % 16 = hi /\ a \div 16 = lo
      BY <2>3, <3>1 DEF lo, hi
    <3> QED BY <3>1, <3>2
  <2>5. BitOr((16 * a) % 256, a \div 16) = start.a
    BY <2>4, AluTypes, Halves
  <2>6. a' = start.a /\ NZ(a)' /\ (IsC(fl') <=> IsC(fl))
    BY <2>2, <2>5, AluTypes, ResultIs
  <2> QED BY <2>1, <2>3, <2>6 DEF Back
<1> QED BY <1>3, <1>4, <1>5, <1>6, <1>7 DEF ThereAndBack, Back

(* Words. *)
LEMMA WordsStep ==
  ASSUME AluInv, Next
  PROVE  WordSteps'
<1>1. Prefixes
  BY DEF AluInv
<1>2. ASSUME NEW v \in Word, StepWord(v)
      PROVE  w' = v /\ NZWord(w)' /\ (IsC(fl') <=> IsC(fl))
  BY <1>2, AluTypes, WordFlags DEF StepWord, NZWord
<1>3. ASSUME ran' = <<"INCW">>
      PROVE  (NZWord(w) /\ (IsC(fl) <=> StartCarry))'
  <2>1. Did("INCW") /\ (IsC(fl) <=> StartCarry) /\ (StartCarry' <=> StartCarry)
    BY <1>3, FirstStep
  <2> DEFINE v == (w + 1) % 65536
  <2>2. v \in Word
    BY AluTypes, WordIs
  <2>3. INCW
    BY <2>1, DidIs
  <2>4. StepWord(v)
    BY <2>3 DEF INCW
  <2> HIDE DEF v
  <2> QED BY <1>2, <2>1, <2>2, <2>4
<1>4. ASSUME ran' = <<"DECW">>
      PROVE  (NZWord(w) /\ (IsC(fl) <=> StartCarry))'
  <2>1. Did("DECW") /\ (IsC(fl) <=> StartCarry) /\ (StartCarry' <=> StartCarry)
    BY <1>4, FirstStep
  <2> DEFINE v == (w - 1) % 65536
  <2>2. v \in Word
    BY AluTypes, WordIs
  <2>3. DECW
    BY <2>1, DidIs
  <2>4. StepWord(v)
    BY <2>3 DEF DECW
  <2> HIDE DEF v
  <2> QED BY <1>2, <2>1, <2>2, <2>4
<1>5. ASSUME ran' = <<"MOVW">>
      PROVE  (NZWord(w) /\ (IsC(fl) <=> StartCarry))'
  <2>1. Did("MOVW") /\ (IsC(fl) <=> StartCarry) /\ (StartCarry' <=> StartCarry)
    BY <1>5, FirstStep
  <2>2. w' = w /\ fl' = StoreNZWord(fl, w)
    BY <2>1, DidIs DEF MOVW, Do
  <2> QED BY <2>1, <2>2, AluTypes, WordFlags DEF NZWord
<1>6. ASSUME ran' = <<"INCW", "ADDW">>
      PROVE  (YA = (StartYA + w) % 65536 /\ NZWord(YA))'
  <2>1. ran = <<"INCW">> /\ Did("ADDW") /\ StartYA' = StartYA
    BY <1>6, SecondStep
  <2>2. YA = StartYA
    BY <1>1, <2>1 DEF Prefixes
  <2>3. SetYA(AddWord(YA, w)) /\ fl' = AddwFlags(YA, w, fl) /\ w' = w
    BY <2>1, DidIs DEF ADDW, Do
  <2> DEFINE r == AddWord(YA, w)
             g == AddwFlags(YA, w, fl)
  <2>4. r \in Word /\ (IsN(g) <=> r >= 32768) /\ (IsZ(g) <=> r = 0)
    BY AluTypes, AddwIs
  <2>5. SetYA(r) /\ fl' = g /\ r = (YA + w) % 65536
    BY <2>3 DEF AddWord
  <2> HIDE DEF r, g
  <2>6. YA' = r
    BY <2>4, <2>5, SetYATypes
  <2> QED BY <2>1, <2>2, <2>3, <2>4, <2>5, <2>6 DEF NZWord
<1>7. ASSUME ran' = <<"DECW", "SUBW">>
      PROVE  (YA = (StartYA - w) % 65536 /\ NZWord(YA))'
  <2>1. ran = <<"DECW">> /\ Did("SUBW") /\ StartYA' = StartYA
    BY <1>7, SecondStep
  <2>2. YA = StartYA
    BY <1>1, <2>1 DEF Prefixes
  <2>3. SetYA(SubWord(YA, w)) /\ fl' = SubwFlags(YA, w, fl) /\ w' = w
    BY <2>1, DidIs DEF SUBW, Do
  <2> DEFINE r == SubWord(YA, w)
             g == SubwFlags(YA, w, fl)
             b == One(~IsC(g))
  <2>4. /\ r \in Word /\ (IsN(g) <=> r >= 32768) /\ (IsZ(g) <=> r = 0)
        /\ r - 65536 * b = YA - w
    BY AluTypes, SubwIs
  <2>5. SetYA(r) /\ fl' = g /\ b \in {0, 1}
    BY <2>3, OneIs
  <2> HIDE DEF r, g, b
  <2>6. YA' = r
    BY <2>4, <2>5, SetYATypes
  <2>7. r = (YA - w) % 65536
    <3>1. r \in Int /\ 0 <= r /\ r < 65536 /\ YA \in Int /\ w \in Int
      BY <2>4, AluTypes, WordIs
    <3> QED BY <2>4, <2>5, <3>1
  <2> QED BY <2>1, <2>2, <2>3, <2>4, <2>5, <2>6, <2>7 DEF NZWord
<1> QED BY <1>3, <1>4, <1>5, <1>6, <1>7 DEF WordSteps

LEMMA SumsStep ==
  ASSUME AluInv, Next
  PROVE  SumsAreExact'
<1>1. AdcExact' /\ SbcExact' /\ AddwExact' /\ SubwExact'
  BY AdcStep, SbcStep, AddwStep, SubwStep
<1>2. ComparesOrder' /\ BitsShareTheSum' /\ ShiftsDouble'
  BY ComparesStep, BitsStep, ShiftsStep
<1>3. ThereAndBack' /\ WordSteps'
  BY BackStep, WordsStep
<1> QED BY <1>1, <1>2, <1>3 DEF SumsAreExact

-----------------------------------------------------------------------------
(* What the first operations leave. *)
LEMMA PrefixStep ==
  ASSUME AluInv, Next
  PROVE  Prefixes'
<1>0. ran' # <<>>
  BY LastStep DEF AluInv, Types
<1>1. ASSUME ran' = <<"INC">>
      PROVE  (a = (start.a + 1) % 256 /\ (IsC(fl) <=> StartCarry))'
  <2>1. Did("INC") /\ start' = start /\ a = start.a
        /\ (IsC(fl) <=> StartCarry) /\ (StartCarry' <=> StartCarry)
    BY <1>1, FirstStep
  <2> DEFINE v == (a + 1) % 256
  <2>2. v \in Byte
    BY AluTypes DEF Byte
  <2>3. INC
    BY <2>1, DidIs
  <2>4. Result(v)
    BY <2>3 DEF INC
  <2> HIDE DEF v
  <2>5. a' = v /\ (IsC(fl') <=> IsC(fl))
    BY <2>2, <2>4, ResultIs
  <2> QED BY <2>1, <2>5 DEF v
<1>2. ASSUME ran' = <<"DEC">>
      PROVE  (a = (start.a - 1) % 256 /\ (IsC(fl) <=> StartCarry))'
  <2>1. Did("DEC") /\ start' = start /\ a = start.a
        /\ (IsC(fl) <=> StartCarry) /\ (StartCarry' <=> StartCarry)
    BY <1>2, FirstStep
  <2> DEFINE v == (a - 1) % 256
  <2>2. v \in Byte
    BY AluTypes DEF Byte
  <2>3. DEC
    BY <2>1, DidIs
  <2>4. Result(v)
    BY <2>3 DEF DEC
  <2> HIDE DEF v
  <2>5. a' = v /\ (IsC(fl') <=> IsC(fl))
    BY <2>2, <2>4, ResultIs
  <2> QED BY <2>1, <2>5 DEF v
<1>3. ASSUME ran' = <<"XCN">>
      PROVE  (/\ a = 16 * (start.a % 16) + (start.a \div 16)
              /\ IsC(fl) <=> StartCarry)'
  <2>1. Did("XCN") /\ start' = start /\ a = start.a
        /\ (IsC(fl) <=> StartCarry) /\ (StartCarry' <=> StartCarry)
    BY <1>3, FirstStep
  <2> DEFINE v == BitOr((16 * a) % 256, a \div 16)
  <2>2. v \in Byte /\ v = 16 * (a % 16) + a \div 16
    BY AluTypes, Halves
  <2>3. XCN
    BY <2>1, DidIs
  <2>4. Result(v)
    BY <2>3 DEF XCN
  <2> HIDE DEF v
  <2>5. a' = v /\ (IsC(fl') <=> IsC(fl))
    BY <2>2, <2>4, ResultIs
  <2> QED BY <2>1, <2>2, <2>5
<1>4. ASSUME ran' = <<"ROL">>
      PROVE  (a + 256 * One(IsC(fl)) = 2 * start.a + One(StartCarry))'
  <2>1. Did("ROL") /\ start' = start /\ a = start.a
        /\ (IsC(fl) <=> StartCarry) /\ (StartCarry' <=> StartCarry)
    BY <1>4, FirstStep
  <2>2. Rotate(Rol(a, fl), HasBit(a, 128))
    BY <2>1, DidIs DEF ROL
  <2>3. /\ Rol(a, fl) \in Byte
        /\ Rol(a, fl) + 256 * One(HasBit(a, 128)) = 2 * a + One(IsC(fl))
    BY AluTypes, ShiftsAre
  <2>4. HasBit(a, 128) \in BOOLEAN
    BY DEF HasBit
  <2>5. a' = Rol(a, fl) /\ One(IsC(fl')) = One(HasBit(a, 128))
    BY <2>2, <2>3, <2>4, RotateIs
  <2>6. One(StartCarry') = One(IsC(fl))
    BY <2>1 DEF One, Bit
  <2> QED BY <2>1, <2>3, <2>5, <2>6
<1>5. ASSUME ran' = <<"ROR">>
      PROVE  (2 * a + One(IsC(fl)) = start.a + 256 * One(StartCarry))'
  <2>1. Did("ROR") /\ start' = start /\ a = start.a
        /\ (IsC(fl) <=> StartCarry) /\ (StartCarry' <=> StartCarry)
    BY <1>5, FirstStep
  <2>2. Rotate(Ror(a, fl), HasBit(a, 1))
    BY <2>1, DidIs DEF ROR
  <2>3. /\ Ror(a, fl) \in Byte
        /\ 2 * Ror(a, fl) + One(HasBit(a, 1)) = a + 256 * One(IsC(fl))
    BY AluTypes, ShiftsAre
  <2>4. HasBit(a, 1) \in BOOLEAN
    BY DEF HasBit
  <2>5. a' = Ror(a, fl) /\ One(IsC(fl')) = One(HasBit(a, 1))
    BY <2>2, <2>3, <2>4, RotateIs
  <2>6. One(StartCarry') = One(IsC(fl))
    BY <2>1 DEF One, Bit
  <2> QED BY <2>1, <2>3, <2>5, <2>6
<1>6. ASSUME ran' = <<"INCW">> \/ ran' = <<"DECW">>
      PROVE  (YA = StartYA)'
  <2>1. (Did("INCW") \/ Did("DECW")) /\ YA = StartYA /\ StartYA' = StartYA
    BY <1>6, FirstStep
  <2>2. INCW \/ DECW
    BY <2>1, DidIs
  <2>3. a' = a /\ y' = y
    BY <2>2 DEF INCW, DECW, StepWord
  <2> QED BY <2>1, <2>3 DEF YA
<1>7. ASSUME ran' = <<"MUL">>
      PROVE  (YA = start.y * start.a)'
  <2>1. Did("MUL") /\ start' = start /\ a = start.a /\ y = start.y
    BY <1>7, FirstStep
  <2> DEFINE v == y * a
  <2>2. v \in Word
    BY AluTypes, Products, WordIs
  <2>3. MUL
    BY <2>1, DidIs
  <2>4. SetYA(v)
    BY <2>3 DEF MUL
  <2> HIDE DEF v
  <2>5. YA' = v
    BY <2>2, <2>4, SetYATypes
  <2> QED BY <2>1, <2>5 DEF v
<1>8. ASSUME ran' = <<"NOTC">>
      PROVE  (fl = ComplementCarry(RestoreFlags(start.psw)))'
  <2>1. Did("NOTC") /\ start' = start /\ fl = RestoreFlags(start.psw)
    BY <1>8, FirstStep
  <2>2. fl' = ComplementCarry(fl)
    BY <2>1, DidIs DEF NOTC, Flags
  <2> QED BY <2>1, <2>2
<1>9. ASSUME ran' = <<"NOTC", "NOTC">>
      PROVE  (SetupFlags(fl) = start.psw)'
  <2>1. ran = <<"NOTC">> /\ Did("NOTC") /\ start' = start
    BY <1>9, SecondStep
  <2>2. fl' = ComplementCarry(fl)
    BY <2>1, DidIs DEF NOTC, Flags
  <2> DEFINE f == RestoreFlags(start.psw)
  <2>3. fl = ComplementCarry(f)
    BY <2>1 DEF AluInv, Prefixes
  <2>4. f \in FlagBytes /\ SetupFlags(f) = start.psw /\ start.psw \in Byte
    BY AluTypes, RestoreTypes, RoundTrip
  <2> HIDE DEF f
  <2>5. /\ SetupFlags(fl) = start.psw + (IF IsC(f) THEN -1 ELSE 1)
        /\ IsC(fl) <=> ~IsC(f)
    BY <2>3, <2>4, Complemented
  <2>6. SetupFlags(fl') = SetupFlags(fl) + (IF IsC(fl) THEN -1 ELSE 1)
    BY <2>2, AluTypes, Complemented
  <2>7. SetupFlags(fl') = start.psw
    BY <2>4, <2>5, <2>6 DEF Byte
  <2> QED BY <2>1, <2>7
<1> QED BY <1>0, <1>1, <1>2, <1>3, <1>4, <1>5, <1>6, <1>7, <1>8, <1>9 DEF Prefixes

-----------------------------------------------------------------------------
(* Decimal arithmetic, after the sum that ADC or SBC left. *)
LEMMA DecimalStep ==
  ASSUME AluInv, Next
  PROVE  DecimalAdjusts'
<1>0. /\ a \in Byte /\ m \in Byte /\ start.a \in Byte /\ fl \in FlagBytes
      /\ SumsAreExact
  BY AluTypes DEF AluInv
<1>1. ASSUME ran' = <<"ADC", "DAA">>, IsBcd(start.a)', IsBcd(m)'
      PROVE  (/\ IsBcd(a)
              /\ Dec(a) + 100 * One(IsC(fl)) = Dec(start.a) + Dec(m) + One(StartCarry))'
  <2>1. /\ ran = <<"ADC">> /\ Did("DAA") /\ m' = m /\ start' = start
        /\ (StartCarry' <=> StartCarry)
    BY <1>1, SecondStep
  <2>2. /\ a + 256 * One(IsC(fl)) = start.a + m + One(StartCarry)
        /\ IsH(fl) <=> a % 16 < (start.a % 16) + (m % 16) + One(StartCarry)
    BY <1>0, <2>1 DEF SumsAreExact, AdcExact
  <2> DEFINE d == start.a
             c == One(StartCarry)
             carry == One(IsC(fl))
             six == One(LowDigitOver(a) \/ IsH(fl))
             low == Stepped(six, a, 6)
             further == IsC(fl) \/ (six = 1 /\ low < 6)
             sixty == a > 153 \/ further
             out == One(sixty)
             res == Stepped(out, low, 96)
             k == IF sixty \/ further THEN 1 ELSE fl.c
  <2>3. /\ c \in {0, 1} /\ carry \in {0, 1} /\ six \in {0, 1} /\ out \in {0, 1}
        /\ (carry = 1 <=> IsC(fl)) /\ (out = 1 <=> sixty)
        /\ (six = 1 <=> LowDigitOver(a) \/ IsH(fl))
    <3>1. c \in {0, 1} /\ carry \in {0, 1} /\ (carry = 1 <=> IsC(fl))
      BY OneIs
    <3>2. six \in {0, 1} /\ (six = 1 <=> LowDigitOver(a) \/ IsH(fl))
      BY OneIs
    <3> HIDE DEF c, carry, six, low, sixty
    <3>3. out \in {0, 1} /\ (out = 1 <=> sixty)
      BY OneIs
    <3> QED BY <3>1, <3>2, <3>3
  <2>4. DAA
    BY <2>1, DidIs
  <2>5. a' = res /\ fl' = WithC(StoreNZ(fl, res), k)
    BY <2>3, <2>4 DEF DAA, Stepped, WithC
  <2>6. k # 0 <=> out = 1
    BY <2>3 DEF IsC
  <2>7. k \in Byte
    BY <1>0 DEF Byte, FlagBytes
  <2>8. low \in Byte
    BY <1>0 DEF Byte, Stepped
  <2>9. res \in Byte
    BY <2>8 DEF Byte, Stepped
  <2>10. /\ IsBcd(d) /\ IsBcd(m) /\ a + 256 * carry = d + m + c
         /\ six = 1 <=> a % 16 > 9 \/ a % 16 < (d % 16) + (m % 16) + c
         /\ out = 1 <=> a > 153 \/ carry = 1 \/ (six = 1 /\ low < 6)
    BY <1>1, <2>1, <2>2, <2>3 DEF LowDigitOver
  <2>11. low = Stepped(six, a, 6) /\ res = Stepped(out, low, 96)
    OBVIOUS
  <2>12. d \in Byte
    BY <1>0
  <2> HIDE DEF d, c, carry, six, low, further, sixty, out, res, k
  <2>a. DaaTests(d, m, c, a, carry, six, out)
    BY <2>10, <2>11 DEF DaaTests
  <2>13. IsBcd(res) /\ Dec(res) + 100 * out = Dec(d) + Dec(m) + c
    BY <1>0, <2>3, <2>10, <2>11, <2>12, <2>a, DaaIs
  <2>14. StoreNZ(fl, res) \in FlagBytes
    BY <1>0, <2>9, ByteFlags
  <2>15. IsC(fl') <=> out = 1
    BY <2>5, <2>6, <2>7, <2>14, SetCarry
  <2>16. One(IsC(fl')) = out /\ One(StartCarry') = c
    BY <2>1, <2>3, <2>15 DEF One, Bit, c
  <2> QED BY <2>1, <2>5, <2>13, <2>16 DEF d
<1>2. ASSUME ran' = <<"SBC", "DAS">>, IsBcd(start.a)', IsBcd(m)'
      PROVE  (/\ IsBcd(a)
              /\ Dec(a) - 100 * One(~IsC(fl)) = Dec(start.a) - Dec(m) - One(~StartCarry))'
  <2>1. /\ ran = <<"SBC">> /\ Did("DAS") /\ m' = m /\ start' = start
        /\ (StartCarry' <=> StartCarry)
    BY <1>2, SecondStep
  <2>2. /\ a - 256 * One(~IsC(fl)) = start.a - m - One(~StartCarry)
        /\ IsH(fl) <=> a % 16 = (start.a % 16) - (m % 16) - One(~StartCarry)
    BY <1>0, <2>1 DEF SumsAreExact, SbcExact
  <2> DEFINE d == start.a
             b == One(~StartCarry)
             borrow == One(~IsC(fl))
             six == One(LowDigitOver(a) \/ ~IsH(fl))
             low == Stepped(six, a, -6)
             sixty == a > 153 \/ ~IsC(fl)
             out == One(sixty)
             res == Stepped(out, low, -96)
             k == IF sixty THEN 0 ELSE fl.c
  <2>3. /\ b \in {0, 1} /\ borrow \in {0, 1} /\ six \in {0, 1} /\ out \in {0, 1}
        /\ (borrow = 1 <=> ~IsC(fl)) /\ (out = 1 <=> sixty)
        /\ (six = 1 <=> LowDigitOver(a) \/ ~IsH(fl))
    BY OneIs
  <2>4. DAS
    BY <2>1, DidIs
  <2>5. a' = res /\ fl' = WithC(StoreNZ(fl, res), k)
    BY <2>3, <2>4 DEF DAS, Stepped, WithC
  <2>6. k # 0 <=> out # 1
    BY <2>3 DEF IsC
  <2>7. k \in Byte
    BY <1>0 DEF Byte, FlagBytes
  <2>8. low \in Byte
    BY <1>0 DEF Byte, Stepped
  <2>9. res \in Byte
    BY <2>8 DEF Byte, Stepped
  <2>10. /\ IsBcd(d) /\ IsBcd(m) /\ a - 256 * borrow = d - m - b
         /\ six = 1 <=> a % 16 > 9 \/ a % 16 # (d % 16) - (m % 16) - b
         /\ out = 1 <=> a > 153 \/ borrow = 1
    BY <1>2, <2>1, <2>2, <2>3 DEF LowDigitOver
  <2>11. low = Stepped(six, a, -6) /\ res = Stepped(out, low, -96)
    OBVIOUS
  <2>12. d \in Byte
    BY <1>0
  <2> HIDE DEF d, b, borrow, six, low, sixty, out, res, k
  <2>a. DasTests(d, m, b, a, borrow, six, out)
    BY <2>10 DEF DasTests
  <2>13. IsBcd(res) /\ Dec(res) - 100 * out = Dec(d) - Dec(m) - b
    BY <1>0, <2>3, <2>10, <2>11, <2>12, <2>a, DasIs
  <2>14. StoreNZ(fl, res) \in FlagBytes
    BY <1>0, <2>9, ByteFlags
  <2>15. ~IsC(fl') <=> out = 1
    BY <2>5, <2>6, <2>7, <2>14, SetCarry
  <2>16. One(~IsC(fl')) = out /\ One(~StartCarry') = b
    BY <2>1, <2>3, <2>15 DEF One, Bit, b
  <2> QED BY <2>1, <2>5, <2>13, <2>16 DEF d
<1> QED BY <1>1, <1>2 DEF DecimalAdjusts

-----------------------------------------------------------------------------
(* Division: what DIV makes of the register of DivIs. *)
LEMMA DivLeaves ==
  ASSUME AluInv, DIV, x # 0, YA < Moved(x)
  PROVE  \E q \in Nat :
           /\ q < 512 /\ 0 <= YA - x * q /\ YA - x * q < x
           /\ y' = YA - x * q /\ x' = x
           /\ a' + 256 * One(IsV(fl')) = q /\ a' \in Byte
           /\ NZ(a)' /\ (IsV(fl') <=> q >= 256)
<1>1. /\ x \in 1 .. 255 /\ YA \in Nat /\ fl \in FlagBytes /\ x \in Byte /\ YA \in Int
  <2>1. x \in Byte /\ y \in Byte /\ a \in Byte /\ fl \in FlagBytes /\ YA \in Int
    BY AluTypes
  <2>2. YA >= 0
    BY <2>1 DEF YA, Byte
  <2>3. YA \in Nat
    BY <2>1, <2>2
  <2> QED BY <2>1, <2>3 DEF Byte
<1>2. PICK q \in Nat :
        /\ q < 512 /\ 0 <= YA - x * q /\ YA - x * q < x
        /\ Divided(YA, Moved(x)) = 512 * (YA - x * q) + q
  <2>1. PICK q \in Nat : Quotient(q, x, YA)
    BY <1>1, DivIs
  <2> QED BY <2>1 DEF Quotient
<1> DEFINE r == YA - x * q
           yva == Divided(YA, 512 * x)
<1>3. /\ a' = yva % 256 /\ y' = (yva \div 512) % 256 /\ x' = x
      /\ fl' = DivFlags(YA, x, fl)
  BY DEF DIV
<1>4. yva = 512 * r + q
  BY <1>2 DEF Moved
<1>5. r \in Int /\ 0 <= r /\ r < x
  BY <1>1, <1>2
<1>6. IsN(fl') <=> yva % 256 >= 128
  BY <1>1, <1>3, DivTypes
<1>7. IsZ(fl') <=> yva % 256 = 0
  BY <1>1, <1>3, DivTypes
<1>8. IsV(fl') <=> HasBit(yva, 256)
  BY <1>1, <1>3, DivTypes
<1> HIDE DEF yva, r
<1>9. r < 255 /\ r \in Nat
  BY <1>1, <1>5
<1>10. yva % 256 = q % 256
  BY <1>2, <1>4, <1>9
<1>11. yva \div 512 = r
  BY <1>2, <1>4, <1>9
<1>12. HasBit(yva, 256) <=> q >= 256
  BY <1>2, <1>4, <1>9 DEF HasBit
<1>13. y' = r
  BY <1>3, <1>9, <1>11
<1>14. a' \in Byte /\ a' + 256 * One(q >= 256) = q
  BY <1>2, <1>3, <1>10 DEF Byte, One, Bit
<1>15. One(IsV(fl')) = One(q >= 256)
  BY <1>8, <1>12 DEF One, Bit
<1>16. NZ(a)'
  BY <1>3, <1>6, <1>7 DEF NZ
<1> QED BY <1>2, <1>3, <1>8, <1>12, <1>13, <1>14, <1>15, <1>16 DEF r

LEMMA DivisionStep ==
  ASSUME AluInv, Next
  PROVE  DivDivides'
<1>0. x \in Byte /\ y \in Byte /\ a \in Byte /\ start.y \in Byte /\ start.a \in Byte
      /\ YA \in Int
  BY AluTypes
<1>1. ASSUME ran' = <<"DIV">>, (start.y < 2 * x)'
      PROVE  (/\ x * (a + 256 * One(IsV(fl))) + y = StartYA /\ y < x
              /\ NZ(a))'
  <2>1. /\ Did("DIV") /\ start' = start /\ y = start.y
        /\ YA = StartYA /\ StartYA' = StartYA
    BY <1>1, FirstStep
  <2>2. DIV
    BY <2>1, DidIs
  <2>3. x' = x
    BY <2>2 DEF DIV
  <2>4. y < 2 * x
    BY <1>1, <2>1, <2>3
  <2>5. x # 0 /\ YA < Moved(x)
    BY <1>0, <2>4 DEF YA, Moved, Byte
  <2>6. PICK q \in Nat :
          /\ q < 512 /\ 0 <= YA - x * q /\ YA - x * q < x
          /\ y' = YA - x * q /\ x' = x
          /\ a' + 256 * One(IsV(fl')) = q /\ a' \in Byte
          /\ NZ(a)' /\ (IsV(fl') <=> q >= 256)
    BY <2>2, <2>5, DivLeaves
  <2>7. x * q + y' = YA
    <3>1. x * q \in Int
      BY <1>0, <2>6 DEF Byte
    <3> QED BY <1>0, <2>6, <3>1
  <2> QED BY <2>1, <2>6, <2>7
<1>2. ASSUME ran' = <<"MUL", "DIV">>, (x = start.y /\ x # 0)'
      PROVE  (a = start.a /\ y = 0 /\ ~IsV(fl))'
  <2>1. ran = <<"MUL">> /\ Did("DIV") /\ start' = start
    BY <1>2, SecondStep
  <2>2. DIV
    BY <2>1, DidIs
  <2>3. x' = x /\ x = start.y /\ x # 0
    BY <1>2, <2>1, <2>2 DEF DIV
  <2>4. YA = x * start.a
    BY <2>1, <2>3 DEF AluInv, Prefixes
  <2>5. YA < Moved(x)
    <3>1. 512 * x = x * start.a + x * (512 - start.a)
      BY <1>0 DEF Byte
    <3> DEFINE p == 512 - start.a
    <3>2. x \in Int /\ x > 0 /\ p \in Int /\ p > 0
      BY <1>0, <2>3 DEF Byte
    <3> HIDE DEF p
    <3>3. x * p \in Int /\ x * p > 0
      BY <3>2
    <3>4. 512 * x = x * start.a + x * p
      BY <3>1 DEF p
    <3>5. x * start.a \in Int
      BY <1>0 DEF Byte
    <3> QED BY <2>4, <3>3, <3>4, <3>5 DEF Moved
  <2>6. PICK q \in Nat :
          /\ q < 512 /\ 0 <= YA - x * q /\ YA - x * q < x
          /\ y' = YA - x * q /\ x' = x
          /\ a' + 256 * One(IsV(fl')) = q /\ a' \in Byte
          /\ NZ(a)' /\ (IsV(fl') <=> q >= 256)
    BY <2>2, <2>3, <2>5, DivLeaves
  <2> DEFINE r == YA - x * q
  <2>7. r \in Nat /\ r < x /\ x * q + r = x * start.a
    <3>1. x * q \in Int
      BY <1>0, <2>6 DEF Byte
    <3> QED BY <1>0, <2>4, <2>6, <3>1
  <2>8. x \in Nat /\ start.a \in Nat
    BY <1>0 DEF Byte
  <2> HIDE DEF r
  <2>9. q = start.a /\ r = 0
    BY <2>6, <2>7, <2>8, OneQuotient
  <2>10. q < 256
    BY <1>0, <2>9 DEF Byte
  <2>11. ~IsV(fl') /\ One(IsV(fl')) = 0
    BY <2>6, <2>10 DEF One, Bit
  <2>12. a' = start.a
    BY <2>6, <2>9, <2>11 DEF Byte
  <2> QED BY <2>1, <2>6, <2>9, <2>11, <2>12 DEF r
<1> QED BY <1>1, <1>2 DEF DivDivides

-----------------------------------------------------------------------------
(* The PSW. *)
LEMMA PushPop ==
  ASSUME AluInv
  PROVE  /\ PushPSW \/ BRK => stack' = SetupFlags(fl) /\ stack' \in Byte
         /\ PopPSW => SetupFlags(fl') = stack /\ stack' = stack
<1>1. ASSUME PushPSW \/ BRK
      PROVE  stack' = SetupFlags(fl) /\ stack' \in Byte
  <2>1. stack' = SetupFlags(fl)
    BY <1>1 DEF PushPSW, BRK
  <2> QED BY <2>1, AluTypes, FlagsAre
<1>2. ASSUME PopPSW
      PROVE  SetupFlags(fl') = stack /\ stack' = stack
  <2>1. fl' = RestoreFlags(stack) /\ stack' = stack
    BY <1>2 DEF PopPSW
  <2> QED BY <2>1, AluTypes, RoundTrip
<1> QED BY <1>1, <1>2

LEMMA PswStep ==
  ASSUME AluInv, Next
  PROVE  PswIsFaithful'
<1> DEFINE last == ran'[Len(ran')]
<1>0. /\ start.psw \in Byte /\ SetupFlags(RestoreFlags(start.psw)) = start.psw
      /\ Prefixes /\ PswIsFaithful
  BY AluTypes, RoundTrip DEF AluInv
<1>1. Did(last) /\ start' = start
  BY LastStep DEF AluInv, Types
<1>2. (fl'.dp = 1) <=> HasBit(SetupFlags(fl'), 32)
  <2>1. fl' \in FlagBytes
    BY RegisterSteps DEF AluInv, Types, Registers
  <2>2. HasBit(SetupFlags(fl'), 32) <=> fl'.p # 0
    BY <2>1, FlagsAre
  <2>3. fl'.dp = fl'.p /\ fl'.p \in {0, 1}
    BY <2>1 DEF FlagBytes
  <2> QED BY <2>2, <2>3
<1>3. ASSUME last = "PUSH PSW"
      PROVE  SetupFlags(RestoreFlags(stack')) = stack'
  <2>1. PushPSW
    BY <1>1, <1>3, DidIs
  <2> QED BY <2>1, PushPop, RoundTrip
<1>4. ASSUME last = "POP PSW"
      PROVE  SetupFlags(fl') = stack'
  <2>1. PopPSW
    BY <1>1, <1>4, DidIs
  <2> QED BY <2>1, PushPop
<1>5. ASSUME ran' = <<"PUSH PSW">>
      PROVE  stack' = start'.psw
  <2>1. Did("PUSH PSW") /\ fl = RestoreFlags(start.psw)
    BY <1>5, FirstStep
  <2>2. PushPSW
    BY <2>1, DidIs
  <2> QED BY <1>0, <1>1, <2>1, <2>2, PushPop
<1>6. ASSUME ran' = <<"BRK">>
      PROVE  stack' = start'.psw
  <2>1. Did("BRK") /\ fl = RestoreFlags(start.psw)
    BY <1>6, FirstStep
  <2>2. BRK
    BY <2>1, DidIs
  <2> QED BY <1>0, <1>1, <2>1, <2>2, PushPop
<1>7. ASSUME ran' = <<"BRK", "POP PSW">>
      PROVE  SetupFlags(fl') = start'.psw
  <2>1. ran = <<"BRK">> /\ Did("POP PSW")
    BY <1>7, SecondStep
  <2>2. PopPSW
    BY <2>1, DidIs
  <2>3. stack = start.psw
    BY <1>0, <2>1 DEF PswIsFaithful
  <2> QED BY <1>1, <2>2, <2>3, PushPop
<1>8. ASSUME ran' = <<"NOTC", "NOTC", "PUSH PSW">>
      PROVE  stack' = start'.psw
  <2>1. ran = <<"NOTC", "NOTC">> /\ Did("PUSH PSW")
    BY <1>8, LastStep DEF AluInv, Types
  <2>2. PushPSW
    BY <2>1, DidIs
  <2>3. SetupFlags(fl) = start.psw
    BY <1>0, <2>1 DEF Prefixes
  <2> QED BY <1>1, <2>2, <2>3, PushPop
<1>9. ASSUME ran' = <<"NOTC", "PUSH PSW">>
      PROVE  stack' # start'.psw /\ stack' \div 2 = start'.psw \div 2
  <2>1. ran = <<"NOTC">> /\ Did("PUSH PSW")
    BY <1>9, SecondStep
  <2>2. PushPSW
    BY <2>1, DidIs
  <2> DEFINE f == RestoreFlags(start.psw)
  <2>3. fl = ComplementCarry(f)
    BY <1>0, <2>1 DEF Prefixes
  <2>4. f \in FlagBytes /\ SetupFlags(f) = start.psw
    BY <1>0, RestoreTypes
  <2> HIDE DEF f
  <2>5. /\ SetupFlags(fl) = start.psw + (IF IsC(f) THEN -1 ELSE 1)
        /\ start.psw \div 2 = SetupFlags(fl) \div 2
    BY <2>3, <2>4, Complemented
  <2>6. SetupFlags(fl) # start.psw
    BY <1>0, <2>5 DEF Byte
  <2> QED BY <1>1, <2>2, <2>5, <2>6, PushPop
<1> HIDE DEF last
<1>10. last = ran[Len(ran)]'
  BY DEF last
<1> QED BY <1>2, <1>3, <1>4, <1>5, <1>6, <1>7, <1>8, <1>9, <1>10 DEF PswIsFaithful

-----------------------------------------------------------------------------
LEMMA AluStart ==
  ASSUME Init
  PROVE  AluInv
<1>1. PICK suite \in Suites : \E psw \in suite.psw :
        /\ a \in suite.a /\ x \in suite.x /\ y \in suite.y
        /\ m \in suite.m /\ w \in suite.w
        /\ fl = RestoreFlags(psw) /\ stack = psw
        /\ todo \in suite.progs /\ ran = <<>>
        /\ start = [a |-> a, y |-> y, psw |-> psw]
  BY DEF Init
<1>2. PICK psw \in suite.psw :
        /\ a \in suite.a /\ x \in suite.x /\ y \in suite.y
        /\ m \in suite.m /\ w \in suite.w
        /\ fl = RestoreFlags(psw) /\ stack = psw
        /\ todo \in suite.progs /\ ran = <<>>
        /\ start = [a |-> a, y |-> y, psw |-> psw]
  BY <1>1
<1>3. /\ a \in Byte /\ x \in Byte /\ y \in Byte /\ m \in Byte /\ psw \in Byte
      /\ w \in Word /\ todo \in Seq(STRING)
  BY <1>2, SuitesAreBytes
<1>4. fl \in FlagBytes /\ SetupFlags(fl) = psw
  BY <1>2, <1>3, RestoreTypes, RoundTrip
<1>5. /\ start \in [a : Byte, y : Byte, psw : Byte]
      /\ a = start.a /\ y = start.y /\ psw = start.psw
  BY <1>2, <1>3
<1>6. Types
  <2>1. ran \in Seq(STRING)
    BY <1>2
  <2> QED BY <1>2, <1>3, <1>4, <1>5, <2>1 DEF Types, Registers
<1>7. Prefixes
  BY <1>2, <1>5 DEF Prefixes
<1>8. SumsAreExact
  BY <1>2 DEF SumsAreExact, AdcExact, SbcExact, AddwExact, SubwExact, ComparesOrder,
              BitsShareTheSum, ShiftsDouble, ThereAndBack, WordSteps
<1>9. DecimalAdjusts /\ DivDivides
  BY <1>2 DEF DecimalAdjusts, DivDivides
<1>10. PswIsFaithful
  <2>1. HasBit(SetupFlags(fl), 32) <=> fl.p # 0
    BY <1>4, FlagsAre
  <2>2. fl.dp = fl.p /\ fl.p \in {0, 1}
    BY <1>4 DEF FlagBytes
  <2>3. (fl.dp = 1) <=> HasBit(SetupFlags(fl), 32)
    BY <2>1, <2>2
  <2> QED BY <1>2, <2>3 DEF PswIsFaithful
<1> QED BY <1>6, <1>7, <1>8, <1>9, <1>10 DEF AluInv

LEMMA AluStep ==
  ASSUME AluInv, Next
  PROVE  AluInv'
<1>1. Types'
  <2>1. Registers'
    BY RegisterSteps DEF AluInv, Types
  <2>2. m' = m /\ start' = start /\ ran' \in Seq(STRING) /\ todo' \in Seq(STRING)
    BY LastStep DEF AluInv, Types
  <2> QED BY <2>1, <2>2 DEF Types, AluInv
<1> QED BY <1>1, PrefixStep, SumsStep, DecimalStep, DivisionStep, PswStep DEF AluInv

LEMMA AluStutter ==
  ASSUME AluInv, UNCHANGED vars
  PROVE  AluInv'
<1>1. /\ a' = a /\ x' = x /\ y' = y /\ fl' = fl /\ m' = m /\ w' = w
      /\ stack' = stack /\ todo' = todo /\ start' = start /\ ran' = ran
  BY DEF vars
<1>4. Types' /\ Prefixes'
  BY <1>1 DEF AluInv, Types, Registers, Prefixes, YA, StartYA, StartCarry
<1>5. SumsAreExact'
  BY <1>1 DEF AluInv, SumsAreExact, AdcExact, SbcExact, AddwExact, SubwExact,
              ComparesOrder, BitsShareTheSum, ShiftsDouble, ThereAndBack, WordSteps,
              NZ, NZWord, YA, StartYA, StartCarry
<1>6. DecimalAdjusts'
  BY <1>1 DEF AluInv, DecimalAdjusts, StartCarry
<1>7. DivDivides'
  BY <1>1 DEF AluInv, DivDivides, NZ, StartYA
<1>8. PswIsFaithful'
  BY <1>1 DEF AluInv, PswIsFaithful
<1> QED BY <1>4, <1>5, <1>6, <1>7, <1>8 DEF AluInv

LEMMA AluAlways == Spec => []AluInv
<1>1. Init => AluInv
  BY AluStart
<1>2. AluInv /\ [Next]_vars => AluInv'
  BY AluStep, AluStutter
<1> QED BY <1>1, <1>2, PTL DEF Spec

(* The registers are bytes, the operand a word, and each flag the byte the core
   keeps for it, _direct_page following P, after every operation of every
   program on bytes and words: no operation of the opcode switch leaves a
   register outside its width. *)
THEOREM AluTypeCorrect == Spec => []Types
<1>1. AluInv => Types
  BY DEF AluInv
<1> QED BY <1>1, AluAlways, PTL

(* OP_ADC, OP_SBC, OP_ADDW, OP_SUBW, the comparisons, the operations on bits,
   shifts and steps by one compute what they are named for, their flags
   included, of every two bytes or words and every PSW. *)
THEOREM SumsExact == Spec => []SumsAreExact
<1>1. AluInv => SumsAreExact
  BY DEF AluInv
<1> QED BY <1>1, AluAlways, PTL

(* DAA after ADC and DAS after SBC, as the opcode switch writes them out, give
   the decimal sum or difference of every two decimal bytes, with its carry. *)
THEOREM DecimalExact == Spec => []DecimalAdjusts
<1>1. AluInv => DecimalAdjusts
  BY DEF AluInv
<1> QED BY <1>1, AluAlways, PTL

(* The nine rotations, exclusive ors and subtractions of DIV YA,X divide, of
   every dividend whose quotient has nine bits, and undo MUL. *)
THEOREM DivisionExact == Spec => []DivDivides
<1>1. AluInv => DivDivides
  BY DEF AluInv
<1> QED BY <1>1, AluAlways, PTL

(* spc_setup_flags and spc_restore_flags lose no flag of any PSW, whatever
   operations come between. *)
THEOREM PswFaithful == Spec => []PswIsFaithful
<1>1. AluInv => PswIsFaithful
  BY DEF AluInv
<1> QED BY <1>1, AluAlways, PTL
=============================================================================
