--------------------------- MODULE SpcTimer_proofs --------------------------
(***************************************************************************)
(* Proofs about SpcTimer for words, ticks, targets and counters of every    *)
(* size: the timer that is brought up to date when a program looks at it is *)
(* the timer that counts every cycle.                                       *)
(***************************************************************************)
EXTENDS SpcTimer, TLAPS

-----------------------------------------------------------------------------
(* Quotients and remainders. *)

LEMMA MulGrows ==
  ASSUME NEW t \in Int, t > 0, NEW k \in Int, k >= 1
  PROVE  t * k >= t
<1>1. PICK j \in Nat : k = j + 1
  <2>1. k - 1 \in Nat /\ k = (k - 1) + 1
    OBVIOUS
  <2> QED BY <2>1
<1>2. t * (j + 1) = t * j + t /\ t * j \in Nat
  OBVIOUS
<1> QED BY <1>1, <1>2

LEMMA Quotient ==
  ASSUME NEW t \in Int, t > 0, NEW a \in Int
  PROVE  \E q \in Int : a - (a % t) = t * q
<1>1. a \div t \in Int
  OBVIOUS
<1>2. a = t * (a \div t) + (a % t)
  BY SMTT(20)
<1>3. \A r, p \in Int : a = p + r => a - r = p
  OBVIOUS
<1>4. a % t \in Int /\ t * (a \div t) \in Int
  BY <1>1
<1>5. a - (a % t) = t * (a \div t)
  BY <1>2, <1>3, <1>4
<1> QED BY <1>1, <1>5

LEMMA Remainder ==
  ASSUME NEW t \in Int, t > 0, NEW a \in Int
  PROVE  a % t \in Int /\ 0 <= a % t /\ a % t < t
  OBVIOUS

LEMMA ModUnique ==
  ASSUME NEW t \in Int, t > 0, NEW q \in Int, NEW r \in Int, 0 <= r, r < t,
         NEW a \in Int, a - r = t * q
  PROVE  a % t = r
<1> DEFINE s == a % t
<1>1. s \in Int /\ 0 <= s /\ s < t
  BY Remainder
<1>2. PICK p \in Int : a - s = t * p
  BY Quotient
<1> HIDE DEF s
<1>3. t * (q - p) = t * q - t * p /\ t * (p - q) = t * p - t * q
  OBVIOUS
<1>4. t * (q - p) = s - r /\ t * (p - q) = r - s
  BY <1>1, <1>2, <1>3
<1>5. ~(q - p >= 1)
  BY <1>1, <1>4, MulGrows
<1>6. ~(p - q >= 1)
  BY <1>1, <1>4, MulGrows
<1>7. p = q
  BY <1>5, <1>6
<1> QED BY <1>1, <1>2, <1>7 DEF s

LEMMA ModAdd ==
  ASSUME NEW t \in Int, t > 0, NEW x \in Int, NEW y \in Int
  PROVE  ((x % t) + y) % t = (x + y) % t
<1> DEFINE r == x % t
           u == r + y
           s == u % t
<1>1. r \in Int /\ u \in Int /\ u = r + y
  BY Remainder
<1>2. PICK q \in Int : x - r = t * q
  BY Quotient
<1> HIDE DEF r, u
<1>3. s \in Int /\ 0 <= s /\ s < t
  BY <1>1, Remainder
<1>4. PICK p \in Int : u - s = t * p
  BY <1>1, Quotient
<1> HIDE DEF s
<1>5. t * (q + p) = t * q + t * p /\ q + p \in Int
  OBVIOUS
<1>6. x + y - s = t * (q + p)
  BY <1>1, <1>2, <1>3, <1>4, <1>5
<1>7. (x + y) % t = s
  <2> DEFINE a == x + y
             k == q + p
  <2>1. a \in Int /\ k \in Int
    BY <1>5
  <2>2. a - s = t * k
    BY <1>3, <1>6
  <2> HIDE DEF a, k
  <2>3. a % t = s
    BY <2>1, <2>2, <1>3, ModUnique
  <2> QED BY <2>3 DEF a
<1> QED BY <1>7 DEF r, u, s

LEMMA ModPeriod ==
  ASSUME NEW t \in Int, t > 0, NEW x \in Int, NEW w \in Int, w % t = 0
  PROVE  (x + w) % t = x % t /\ (x - w) % t = x % t
<1> DEFINE r == x % t
<1>1. PICK k \in Int : w - (w % t) = t * k
  BY Quotient
<1>2. PICK q \in Int : x - r = t * q
  BY Quotient
<1>3. r \in Int /\ 0 <= r /\ r < t
  BY Remainder
<1> HIDE DEF r
<1>4. /\ t * (q + k) = t * q + t * k /\ t * (q - k) = t * q - t * k
      /\ q + k \in Int /\ q - k \in Int
  OBVIOUS
<1>5. w = t * k
  BY <1>1
<1>6. x + w - r = t * (q + k) /\ x - w - r = t * (q - k)
  BY <1>2, <1>3, <1>4, <1>5
<1>7. (x + w) % t = r
  <2> DEFINE a == x + w
             m == q + k
  <2>1. a \in Int /\ m \in Int /\ a - r = t * m
    BY <1>3, <1>4, <1>6
  <2> HIDE DEF a, m
  <2>2. a % t = r
    BY <2>1, <1>3, ModUnique
  <2> QED BY <2>2 DEF a
<1>8. (x - w) % t = r
  <2> DEFINE a == x - w
             m == q - k
  <2>1. a \in Int /\ m \in Int /\ a - r = t * m
    BY <1>3, <1>4, <1>6
  <2> HIDE DEF a, m
  <2>2. a % t = r
    BY <2>1, <1>3, ModUnique
  <2> QED BY <2>2 DEF a
<1> QED BY <1>7, <1>8 DEF r

(* A number is what its quotient and its remainder say, and of no other two. *)
LEMMA DivMod ==
  ASSUME NEW t \in Int, t > 0, NEW a \in Int
  PROVE  /\ a \div t \in Int /\ a % t \in Int
         /\ a = t * (a \div t) + (a % t)
         /\ 0 <= a % t /\ a % t < t
<1>1. a \div t \in Int
  OBVIOUS
<1>2. a = t * (a \div t) + (a % t)
  BY SMTT(20)
<1> QED BY <1>1, <1>2, Remainder

LEMMA DivUnique ==
  ASSUME NEW t \in Int, t > 0, NEW q \in Int, NEW r \in Int, 0 <= r, r < t,
         NEW a \in Int, a = t * q + r
  PROVE  a % t = r /\ a \div t = q
<1>1. t * q \in Int /\ a - r = t * q
  OBVIOUS
<1>2. a % t = r
  BY <1>1, ModUnique
<1> DEFINE p == a \div t
<1>3. p \in Int /\ a = t * p + r
  BY <1>2, DivMod
<1> HIDE DEF p
<1>4. t * p = t * q
  BY <1>1, <1>3
<1>5. t * (q - p) = t * q - t * p /\ t * (p - q) = t * p - t * q
  BY <1>3
<1>6. ~(q - p >= 1) /\ ~(p - q >= 1)
  BY <1>1, <1>3, <1>4, <1>5, MulGrows
<1>7. p = q
  BY <1>3, <1>6
<1> QED BY <1>2, <1>7 DEF p

LEMMA DivNat ==
  ASSUME NEW t \in Int, t > 0, NEW a \in Int, a >= 0
  PROVE  a \div t >= 0 /\ t * (a \div t) >= 0
<1> DEFINE q == a \div t
           r == a % t
<1>1. q \in Int /\ r \in Int /\ a = t * q + r /\ 0 <= r /\ r < t
  BY DivMod
<1> HIDE DEF q, r
<1>2. ASSUME ~(q >= 0) PROVE FALSE
  <2>1. -q >= 1 /\ -q \in Int
    BY <1>1, <1>2
  <2>2. t * (-q) >= t
    BY <2>1, MulGrows
  <2>3. t * (-q) = -(t * q) /\ t * q \in Int
    BY <1>1
  <2> QED BY <1>1, <2>2, <2>3
<1>3. q >= 0
  BY <1>2
<1>4. t * q >= 0
  <2>1. q = 0 => t * q = 0
    BY <1>1
  <2>2. q >= 1 => t * q >= t
    BY <1>1, MulGrows
  <2> QED BY <1>1, <1>3, <2>1, <2>2
<1> QED BY <1>3, <1>4 DEF q

(* Counting on by one: the remainder goes round when it is full. *)
LEMMA DivNext ==
  ASSUME NEW t \in Int, t > 0, NEW a \in Int
  PROVE  /\ (a % t) + 1 = t => (a + 1) % t = 0 /\ (a + 1) \div t = a \div t + 1
         /\ (a % t) + 1 # t => (a + 1) % t = (a % t) + 1 /\ (a + 1) \div t = a \div t
<1> DEFINE q == a \div t
           r == a % t
           b == a + 1
<1>1. q \in Int /\ r \in Int /\ a = t * q + r /\ 0 <= r /\ r < t /\ b \in Int /\ b = a + 1
  BY DivMod
<1> HIDE DEF q, r, b
<1>2. ASSUME r + 1 = t PROVE b % t = 0 /\ b \div t = q + 1
  <2>1. t * (q + 1) = t * q + t
    BY <1>1
  <2>2. b = t * (q + 1) + 0 /\ q + 1 \in Int
    BY <1>1, <1>2, <2>1
  <2> QED BY <1>1, <2>2, DivUnique
<1>3. ASSUME r + 1 # t PROVE b % t = r + 1 /\ b \div t = q
  <2>1. b = t * q + (r + 1) /\ 0 <= r + 1 /\ r + 1 < t /\ r + 1 \in Int
    BY <1>1, <1>3
  <2> QED BY <1>1, <2>1, DivUnique
<1> QED BY <1>2, <1>3 DEF q, r, b

-----------------------------------------------------------------------------
(* The words of the timer. *)

LEMMA Constants ==
  /\ Word \in Nat /\ Half \in Nat /\ Word = 2 * Half /\ Word > 0
  /\ Word \in Int /\ WrapBy \in Int
  /\ Tick \in Int /\ Tick > 0 /\ Word % Tick = 0
  /\ WrapBy \in 0 .. Word - 1 /\ WrapBy % Tick = 0
  /\ TargetMax \in Nat /\ TargetMax > 0
  /\ CounterMod \in Int /\ CounterMod > 0
  /\ ResetCycles \in Nat /\ ResetCycles < Tick
  /\ NoRead \notin 0 .. CounterMod - 1
  BY TimerAssumption DEF TimerAssumption

LEMMA WordMod ==
  ASSUME NEW x \in Int
  PROVE  ToWord(x) \in Int /\ ToWord(x) % Tick = x % Tick
<1>1. (x + Word) % Tick = x % Tick /\ (x - Word) % Tick = x % Tick
  BY Constants, ModPeriod
<1> QED BY <1>1, Constants DEF ToWord

LEMMA WordIn ==
  ASSUME NEW x \in Int, -Word <= x, x < 2 * Word
  PROVE  ToWord(x) \in 0 .. Word - 1
  BY Constants DEF ToWord

LEMMA WrapMod ==
  ASSUME NEW x \in Int
  PROVE  ToWord(x - WrapBy) % Tick = x % Tick
<1>1. (x - WrapBy) % Tick = x % Tick
  BY Constants, ModPeriod
<1> QED BY <1>1, WordMod, Constants

(* The cycles since the latch, in whole ticks and what is left. *)
LEMMA Elapsed ==
  ASSUME TypeOK
  PROVE  /\ Cycles \in 0 .. Word - 1
         /\ Ticks \in Nat
         /\ Cycles = Tick * Ticks + (Cycles % Tick)
         /\ Cycles % Tick = total % Tick
         /\ total % Tick \in 0 .. Tick - 1
<1>1. total \in 0 .. Word - 1 /\ latch \in 0 .. Word - 1 /\ latch % Tick = 0
  BY DEF TypeOK
<1>2. total - latch \in Int /\ -Word <= total - latch /\ total - latch < 2 * Word
  BY <1>1, Constants
<1>3. Cycles \in 0 .. Word - 1
  BY <1>2, WordIn DEF Cycles
<1>4. Cycles % Tick = (total - latch) % Tick
  BY <1>2, WordMod DEF Cycles
<1>5. (total - latch) % Tick = total % Tick
  <2>1. total \in Int /\ latch \in Int
    BY <1>1, Constants
  <2> QED BY <1>1, <2>1, Constants, ModPeriod
<1>6. Cycles \in Int /\ Cycles >= 0
  BY <1>3, Constants
<1>7. /\ Ticks \in Int /\ Cycles = Tick * Ticks + (Cycles % Tick)
      /\ Cycles % Tick \in Int /\ 0 <= Cycles % Tick /\ Cycles % Tick < Tick
  BY <1>6, Constants, DivMod DEF Ticks
<1>8. Ticks >= 0
  BY <1>6, Constants, DivNat DEF Ticks
<1> QED BY <1>3, <1>4, <1>5, <1>7, <1>8, Constants

(* What is due has been counted from where the last access left off. *)
LEMMA DueIs ==
  ASSUME TypeOK
  PROVE  /\ Due \in Int
         /\ on => Due \in Nat /\ Due = position + Ticks
         /\ ~on => Due = position /\ Due < target
<1>1. Ticks \in Nat
  BY Elapsed
<1> QED BY <1>1, Constants DEF TypeOK, Due

LEMMA SmallCounter ==
  ASSUME NEW c \in 0 .. CounterMod - 1
  PROVE  c % CounterMod = c /\ (c + 0) % CounterMod = c
<1>1. c \in Int /\ 0 <= c /\ c < CounterMod /\ c = CounterMod * 0 + c
  BY Constants
<1>2. c % CounterMod = c
  BY <1>1, Constants, DivUnique
<1> QED BY <1>1, <1>2

LEMMA OnDue ==
  ASSUME TypeOK, on
  PROVE  /\ DuePosition = Due % target
         /\ DueCounter = (counter + Due \div target) % CounterMod
         /\ Due \div target \in Int
         /\ DuePosition \in 0 .. target - 1
<1>1. Due \in Nat /\ target \in Int /\ target > 0 /\ counter \in 0 .. CounterMod - 1
  BY DueIs DEF TypeOK
<1>2. /\ Due \div target \in Int /\ Due % target \in Int
      /\ 0 <= Due % target /\ Due % target < target
  BY <1>1, DivMod
<1>3. CASE Due < target
  <2>1. Due = target * 0 + Due
    BY <1>1
  <2>2. Due % target = Due /\ Due \div target = 0
    BY <1>1, <1>3, <2>1, DivUnique
  <2> QED BY <1>1, <1>2, <1>3, <2>2, SmallCounter DEF DuePosition, DueCounter
<1>4. CASE ~(Due < target)
  BY <1>1, <1>2, <1>4 DEF DuePosition, DueCounter
<1> QED BY <1>3, <1>4

LEMMA OffDue ==
  ASSUME TypeOK, ~on
  PROVE  DuePosition = position /\ DueCounter = counter
  BY DueIs DEF DuePosition, DueCounter

LEMMA CounterIn ==
  ASSUME TypeOK
  PROVE  DueCounter \in 0 .. CounterMod - 1
<1>1. CASE on
  <2>1. counter + Due \div target \in Int
    BY <1>1, OnDue, Constants DEF TypeOK
  <2> QED BY <1>1, <2>1, OnDue, Remainder, Constants
<1>2. CASE ~on
  BY <1>2, OffDue DEF TypeOK
<1> QED BY <1>1, <1>2 DEF TypeOK

(* Update_SPC_Timer brings a timer to where counting every cycle has. *)
LEMMA UpdatedIs ==
  ASSUME TypeOK
  PROVE  Updated.position = DuePosition /\ Updated.counter = DueCounter
<1>1. CASE on
  <2>1. Due \in Nat /\ Due = position + Ticks
    BY <1>1, DueIs
  <2>2. Unsigned(position + Ticks) = Due
    BY <2>1 DEF Unsigned
  <2> QED BY <1>1, <2>1, <2>2 DEF Updated, DuePosition, DueCounter, Raise
<1>2. CASE ~on
  BY <1>2, OffDue DEF Updated
<1> QED BY <1>1, <1>2 DEF TypeOK

(* An access leaves less than a tick since the latch. *)
LEMMA Accessed ==
  ASSUME TypeOK, latch' = Latched, UNCHANGED total
  PROVE  latch' \in 0 .. Word - 1 /\ latch' % Tick = 0 /\ Ticks' = 0
<1> DEFINE n == Ticks * Tick
           r == Cycles % Tick
           d == Cycles'
<1>1. /\ total \in Int /\ total >= 0 /\ total < Word
      /\ latch \in Int /\ latch >= 0 /\ latch < Word /\ latch % Tick = 0
  BY Constants DEF TypeOK
<1>2. /\ Cycles \in Int /\ Ticks \in Int /\ n \in Int /\ n = Tick * Ticks
      /\ Cycles >= 0 /\ Cycles < Word
      /\ r \in Int /\ 0 <= r /\ r < Tick
      /\ Cycles = n + r /\ n >= 0
  <2>1. Cycles \in Int /\ Ticks \in Int /\ Cycles >= 0 /\ Cycles < Word
    BY Elapsed, Constants
  <2>2. n = Tick * Ticks /\ n \in Int
    BY <2>1, Constants
  <2>3. r \in Int /\ 0 <= r /\ r < Tick /\ Cycles = n + r
    BY <2>2, Elapsed, Constants
  <2>4. n >= 0
    BY <2>1, <2>2, Constants, DivNat DEF Ticks
  <2> QED BY <2>1, <2>2, <2>3, <2>4
<1>3. latch' = ToWord(latch + n)
  BY DEF Latched
<1>4. Cycles = ToWord(total - latch) /\ d = ToWord(total - latch')
  BY DEF Cycles
<1> HIDE DEF n, r, d
<1>5. latch' \in 0 .. Word - 1
  BY <1>1, <1>2, <1>3, Constants, WordIn
<1>6. latch' % Tick = 0
  <2>1. n % Tick = 0
    BY <1>2, Constants, DivUnique
  <2>2. latch \in Int /\ n \in Int /\ Tick \in Int /\ Tick > 0
    BY <1>1, <1>2, Constants
  <2>3. (latch + n) % Tick = latch % Tick
    BY <2>1, <2>2, ModPeriod
  <2>4. latch + n \in Int
    BY <2>2
  <2>5. ToWord(latch + n) % Tick = (latch + n) % Tick
    BY <2>4, WordMod
  <2> QED BY <1>1, <1>3, <2>3, <2>5
<1>7. d = r
  BY <1>1, <1>2, <1>3, <1>4, Constants DEF ToWord
<1>8. Ticks' = 0
  <2>1. r = Tick * 0 + r
    BY <1>2, Constants
  <2>2. r \div Tick = 0
    BY <1>2, <2>1, Constants, DivUnique
  <2> QED BY <1>7, <2>2 DEF Ticks, d
<1> QED BY <1>5, <1>6, <1>8

(* A timer that starts has its ticks where the prescaler has them. *)
LEMMA Started ==
  ASSUME TypeOK, latch' = StartLatch, UNCHANGED total
  PROVE  latch' \in 0 .. Word - 1 /\ latch' % Tick = 0 /\ Ticks' = 0
<1> DEFINE r == total % Tick
           n == Tick * (total \div Tick)
<1>1. total \in Int /\ total >= 0 /\ total < Word
  BY Constants DEF TypeOK
<1>2. /\ r \in Int /\ 0 <= r /\ r < Tick /\ n \in Int /\ n >= 0
      /\ total = n + r /\ total \div Tick \in Int
  BY <1>1, Constants, DivMod, DivNat
<1>3. latch' = n
  BY <1>1, <1>2 DEF StartLatch
<1>4. Cycles' = ToWord(total - latch')
  BY DEF Cycles
<1>5. n = Tick * (total \div Tick) + 0
  BY <1>2
<1> HIDE DEF r, n
<1>6. n % Tick = 0
  BY <1>2, <1>5, Constants, DivUnique
<1>7. Cycles' = r
  BY <1>1, <1>2, <1>3, <1>4, Constants DEF ToWord
<1>8. Ticks' = 0
  <2>1. r = Tick * 0 + r
    BY <1>2, Constants
  <2>2. r \div Tick = 0
    BY <1>2, <2>1, Constants, DivUnique
  <2> QED BY <1>7, <2>2 DEF Ticks
<1> QED BY <1>1, <1>2, <1>3, <1>6, <1>8, Constants

-----------------------------------------------------------------------------
LEMMA InitType == Init => TypeOK
<1>1. 0 % Tick = 0
  BY Constants, DivUnique
<1>2. ASSUME Init PROVE ResetCycles < Word
  <2>1. Word % Tick = 0 /\ Word > 0
    BY Constants
  <2>2. ASSUME ~(ResetCycles < Word) PROVE FALSE
    <3>1. Word = Tick * 0 + Word /\ Word < Tick
      BY <2>2, Constants
    <3> QED BY <2>1, <3>1, Constants, DivUnique
  <2> QED BY <2>2, Constants
<1> QED BY <1>1, <1>2, Constants DEF Init, TypeOK

LEMMA TargetIn ==
  ASSUME NEW data \in 0 .. TargetMax - 1
  PROVE  TargetOf(data) \in 1 .. TargetMax
  BY Constants DEF TargetOf

LEMMA TypeStep ==
  ASSUME ~LowerTargets, TypeOK, [Next]_vars
  PROVE  TypeOK'
<1>1. CASE Advance
  <2>1. total' \in 0 .. Word - 1
    BY <1>1, Constants DEF Advance, TypeOK, ToWord
  <2> QED BY <1>1, <2>1 DEF Advance, TypeOK
<1>2. CASE Wrap
  <2>1. total' \in 0 .. Word - 1 /\ latch' \in 0 .. Word - 1
    BY <1>2, Constants DEF Wrap, LatchWrapped, TypeOK, ToWord
  <2>2. latch' % Tick = 0
    BY <1>2, Constants, WrapMod DEF Wrap, LatchWrapped, TypeOK
  <2> QED BY <1>2, <2>1, <2>2 DEF Wrap, TypeOK
<1>3. CASE ReadCounter
  <2>1. latch' \in 0 .. Word - 1 /\ latch' % Tick = 0
    BY <1>3, Accessed DEF ReadCounter
  <2>2. position' = DuePosition /\ out' = DueCounter
    BY <1>3, UpdatedIs DEF ReadCounter
  <2>3. out' \in 0 .. CounterMod - 1
    BY <2>2, CounterIn
  <2>4. position' \in -TargetMax .. target - 1 /\ (on => position' >= 0)
    <3>1. CASE on
      BY <2>2, <3>1, OnDue, Constants DEF TypeOK
    <3>2. CASE ~on
      BY <2>2, <3>2, OffDue DEF TypeOK
    <3> QED BY <3>1, <3>2 DEF TypeOK
  <2>5. counter' \in 0 .. CounterMod - 1
    BY <1>3, Constants DEF ReadCounter
  <2> QED BY <1>3, <2>1, <2>3, <2>4, <2>5 DEF ReadCounter, TypeOK
<1>4. ASSUME NEW bit \in BOOLEAN, WriteCtrl(bit) PROVE TypeOK'
  <2>1. CASE ~on /\ bit
    <3>1. latch' \in 0 .. Word - 1 /\ latch' % Tick = 0
      BY <1>4, <2>1, Started DEF WriteCtrl
    <3> QED BY <1>4, <2>1, <3>1, Constants DEF WriteCtrl, TypeOK
  <2>2. CASE ~(~on /\ bit)
    BY <1>4, <2>2 DEF WriteCtrl, TypeOK
  <2> QED BY <2>1, <2>2
<1>5. ASSUME NEW data \in 0 .. TargetMax - 1, WriteSameTarget(data) PROVE TypeOK'
  BY <1>5 DEF WriteSameTarget, TypeOK
<1>6. ASSUME NEW data \in 0 .. TargetMax - 1, WriteTarget(data) PROVE TypeOK'
  <2>1. latch' \in 0 .. Word - 1 /\ latch' % Tick = 0
    BY <1>6, Accessed DEF WriteTarget
  <2> DEFINE t == TargetOf(data)
  <2>2. t \in 1 .. TargetMax
    BY TargetIn
  <2>3. /\ position' = Lowered(t, DuePosition) /\ counter' = DueCounter
        /\ target' = t
    BY <1>6, UpdatedIs DEF WriteTarget
  <2> HIDE DEF t
  <2>4. counter' \in 0 .. CounterMod - 1
    BY <2>3, CounterIn
  <2>5. DuePosition \in -TargetMax .. target - 1
    <3>1. CASE on
      BY <3>1, OnDue, Constants DEF TypeOK
    <3>2. CASE ~on
      BY <3>2, OffDue DEF TypeOK
    <3> QED BY <3>1, <3>2 DEF TypeOK
  <2>6. position' \in -TargetMax .. t - 1
    BY <2>2, <2>3, <2>5, Constants DEF Lowered, TypeOK
  <2>7. on => position' >= 0
    <3> SUFFICES ASSUME on PROVE position' >= 0
      OBVIOUS
    <3>1. t > DuePosition
      BY <1>6, UpdatedIs DEF WriteTarget, t
    <3>2. DuePosition \in 0 .. target - 1
      BY OnDue
    <3> QED BY <2>2, <2>3, <3>1, <3>2, Constants DEF Lowered, TypeOK
  <2> QED BY <1>6, <2>1, <2>2, <2>3, <2>4, <2>6, <2>7 DEF WriteTarget, TypeOK
<1>7. CASE UNCHANGED vars
  BY <1>7 DEF vars, TypeOK
<1> QED BY <1>1, <1>2, <1>3, <1>4, <1>5, <1>6, <1>7 DEF Next

-----------------------------------------------------------------------------
(* What is due when nothing has been counted since the last access is what
   that access left. *)
LEMMA Fresh ==
  ASSUME TypeOK', Ticks' = 0
  PROVE  DuePosition' = position' /\ DueCounter' = counter'
<1>1. position' \in -TargetMax .. target' - 1 /\ target' \in 1 .. TargetMax
  BY DEF TypeOK
<1> DEFINE p == position'
           t == target'
<1>2. p \in -TargetMax .. t - 1 /\ t \in 1 .. TargetMax
  BY <1>1
<1> HIDE DEF p, t
<1>3. p \in Int /\ t \in Int /\ p < t
  BY <1>2, Constants
<1>4. p + 0 = p /\ p < t
  BY <1>3
<1>5. Due' = position' + (IF on' THEN Ticks' ELSE 0)
  BY DEF Due
<1>6. Due' = position'
  BY <1>4, <1>5 DEF p
<1> QED BY <1>4, <1>6 DEF DuePosition, DueCounter, p, t

(* A timer that is on counts round its target. *)
LEMMA Rounds ==
  ASSUME NEW d \in Nat, NEW t \in Int, t > 0, NEW c \in 0 .. CounterMod - 1
  PROVE  /\ d < t => d % t = d /\ c = (c + d \div t) % CounterMod
         /\ d \div t \in Int /\ d % t \in Int /\ 0 <= d % t /\ d % t < t
<1>1. d < t => d % t = d /\ d \div t = 0
  <2>1. d = t * 0 + d
    OBVIOUS
  <2> QED BY <2>1, DivUnique
<1>2. d \div t \in Int /\ d % t \in Int /\ 0 <= d % t /\ d % t < t
  BY DivMod
<1> QED BY <1>1, <1>2, SmallCounter

LEMMA CycleStep ==
  ASSUME TypeOK, Advance
  PROVE  Hw!Cycle
<1> DEFINE k == Cycles
           c == total % Tick
<1>1. /\ total \in Int /\ latch \in Int
      /\ 0 <= total /\ total < Word /\ 0 <= latch /\ latch < Word
      /\ Cycles \in 0 .. Word - 1 /\ Ticks \in Nat /\ Cycles % Tick = c
      /\ c \in 0 .. Tick - 1
  <2>1. /\ total \in Int /\ latch \in Int
        /\ 0 <= total /\ total < Word /\ 0 <= latch /\ latch < Word
    BY Constants DEF TypeOK
  <2>2. /\ Cycles \in 0 .. Word - 1 /\ Ticks \in Nat /\ Cycles % Tick = c
        /\ c \in 0 .. Tick - 1
    BY Elapsed
  <2> QED BY <2>1, <2>2
<1>2. /\ total' = ToWord(total + 1) /\ Cycles < Word - 1 /\ out' = NoRead
      /\ UNCHANGED <<on, latch, position, target, counter>>
  BY DEF Advance, IdleBound
<1>3. Cycles' = Cycles + 1
  <2>1. Cycles = ToWord(total - latch) /\ Cycles' = ToWord(total' - latch')
    BY DEF Cycles
  <2> QED BY <1>1, <1>2, <2>1, Constants DEF ToWord
<1>4. c' = (c + 1) % Tick
  <2>1. total + 1 \in Int /\ 1 \in Int
    BY <1>1
  <2>2. c' = (total + 1) % Tick
    BY <1>2, <2>1, WordMod
  <2>3. ((total % Tick) + 1) % Tick = (total + 1) % Tick
    <3>1. total \in Int /\ Tick \in Int /\ Tick > 0
      BY <1>1, Constants
    <3>2. \A y \in Int : ((total % Tick) + y) % Tick = (total + y) % Tick
      BY <3>1, ModAdd
    <3> QED BY <2>1, <3>2
  <2> QED BY <2>2, <2>3
<1>5. /\ Ticks = Cycles \div Tick /\ Ticks' = Cycles' \div Tick
  BY DEF Ticks
<1>6. /\ c + 1 = Tick => c' = 0 /\ Ticks' = Ticks + 1
      /\ c + 1 # Tick => c' # 0 /\ Ticks' = Ticks
  <2>1. Cycles \in Int
    BY <1>1
  <2>2. /\ (Cycles % Tick) + 1 = Tick
             => (Cycles + 1) % Tick = 0 /\ (Cycles + 1) \div Tick = Cycles \div Tick + 1
        /\ (Cycles % Tick) + 1 # Tick
             => (Cycles + 1) \div Tick = Cycles \div Tick
    BY <2>1, Constants, DivNext
  <2>3. c \in Int /\ 0 <= c /\ c < Tick
    BY <1>1, Constants
  <2>4. /\ c + 1 = Tick => (c + 1) % Tick = 0
        /\ c + 1 # Tick => (c + 1) % Tick = c + 1
    <3>1. c + 1 = Tick => c + 1 = Tick * 1 + 0
      BY <2>3, Constants
    <3>2. c + 1 = Tick * 0 + (c + 1)
      BY <2>3, Constants
    <3>3. c + 1 = Tick => (c + 1) % Tick = 0
      BY <2>3, <3>1, Constants, DivUnique
    <3>4. c + 1 # Tick => (c + 1) % Tick = c + 1
      BY <2>3, <3>2, Constants, DivUnique
    <3> QED BY <3>3, <3>4
  <2> QED BY <1>1, <1>3, <1>4, <1>5, <2>2, <2>3, <2>4
<1> HIDE DEF c
<1>7. CASE on /\ c' = 0
  <2>1. Ticks' = Ticks + 1
    BY <1>6, <1>7
  <2>2. Due \in Nat /\ Due' = Due + 1
    BY <1>1, <1>2, <1>7, <2>1, DueIs, Constants DEF Due, TypeOK
  <2> DEFINE q == Due \div target
             r == Due % target
  <2>3. target \in Int /\ target > 0 /\ counter \in 0 .. CounterMod - 1 /\ counter \in Int
    BY Constants DEF TypeOK
  <2>4. DuePosition = r /\ DueCounter = (counter + q) % CounterMod /\ q \in Int
    BY <1>7, OnDue
  <2>5. DuePosition' = (Due + 1) % target /\ DueCounter' = (counter + (Due + 1) \div target) % CounterMod
    <3> DEFINE d == Due + 1
    <3>1. d \in Nat /\ Due' = d
      BY <2>2
    <3> HIDE DEF d
    <3>2. d < target => d % target = d /\ counter = (counter + d \div target) % CounterMod
      BY <3>1, <2>3, Rounds
    <3> QED BY <1>2, <3>1, <3>2 DEF DuePosition, DueCounter, d
  <2>6. /\ r + 1 = target => (Due + 1) % target = 0 /\ (Due + 1) \div target = q + 1
        /\ r + 1 # target => (Due + 1) % target = r + 1 /\ (Due + 1) \div target = q
    BY <2>2, <2>3, DivNext
  <2>7. (counter + (q + 1)) % CounterMod = (DueCounter + 1) % CounterMod
    <3>1. counter + q \in Int /\ 1 \in Int /\ counter + (q + 1) = (counter + q) + 1
      BY <2>3, <2>4
    <3>2. (((counter + q) % CounterMod) + 1) % CounterMod = ((counter + q) + 1) % CounterMod
      BY <3>1, Constants, ModAdd
    <3> QED BY <2>4, <3>1, <3>2
  <2> HIDE DEF q, r
  <2>8. IF DuePosition + 1 = target
          THEN DuePosition' = 0 /\ DueCounter' = (DueCounter + 1) % CounterMod
          ELSE DuePosition' = DuePosition + 1 /\ UNCHANGED DueCounter
    BY <2>4, <2>5, <2>6, <2>7
  <2> QED BY <1>2, <1>4, <1>7, <2>8 DEF Hw!Cycle, c
<1>8. CASE ~(on /\ c' = 0)
  <2>1. Due' = Due
    BY <1>1, <1>2, <1>6, <1>8, Constants DEF Due, c
  <2>2. UNCHANGED <<DuePosition, DueCounter>>
    BY <1>2, <2>1 DEF DuePosition, DueCounter
  <2> QED BY <1>2, <1>4, <1>8, <2>2 DEF Hw!Cycle, c
<1> QED BY <1>7, <1>8

LEMMA WrapStep ==
  ASSUME TypeOK, Wrap
  PROVE  Hw!Nothing
<1>1. /\ total \in Int /\ latch \in Int
      /\ 0 <= total /\ total < Word /\ 0 <= latch /\ latch < Word
      /\ total >= Half
  BY Constants DEF TypeOK, Wrap
<1>2. /\ total' = ToWord(total - WrapBy) /\ latch' = ToWord(latch - WrapBy)
      /\ out' = NoRead /\ UNCHANGED <<on, position, target, counter>>
  BY DEF Wrap, LatchWrapped
<1>3. total' % Tick = total % Tick
  BY <1>1, <1>2, WrapMod
<1>4. Cycles' = Cycles
  <2>1. Cycles = ToWord(total - latch) /\ Cycles' = ToWord(total' - latch')
    BY DEF Cycles
  <2> QED BY <1>1, <1>2, <2>1, Constants DEF ToWord
<1>5. Due' = Due
  BY <1>2, <1>4 DEF Due, Ticks
<1>6. UNCHANGED <<DuePosition, DueCounter>>
  BY <1>2, <1>5 DEF DuePosition, DueCounter
<1> QED BY <1>2, <1>3, <1>6 DEF Hw!Nothing

LEMMA ReadStep ==
  ASSUME TypeOK, TypeOK', ReadCounter
  PROVE  Hw!Read
<1>1. Ticks' = 0
  BY Accessed DEF ReadCounter
<1>2. DuePosition' = position' /\ DueCounter' = counter'
  BY <1>1, Fresh
<1> QED BY <1>2, UpdatedIs DEF ReadCounter, Hw!Read

LEMMA ControlStep ==
  ASSUME TypeOK, TypeOK', NEW bit \in BOOLEAN, WriteCtrl(bit)
  PROVE  Hw!StartTimer \/ Hw!StopTimer \/ Hw!Nothing
<1>1. on \in BOOLEAN
  BY DEF TypeOK
<1>2. CASE ~on /\ bit
  <2>1. Ticks' = 0
    BY <1>2, Started DEF WriteCtrl
  <2>2. DuePosition' = position' /\ DueCounter' = counter'
    BY <2>1, Fresh
  <2> QED BY <1>2, <2>2 DEF WriteCtrl, Hw!StartTimer
<1>3. CASE on /\ ~bit
  <2>1. on' = FALSE /\ UNCHANGED <<total, latch, position, target, counter>>
    BY <1>3 DEF WriteCtrl
  <2>2. Due' = position' /\ position' < target'
    BY <2>1, Constants DEF Due, TypeOK
  <2>3. DuePosition' = position /\ DueCounter' = counter
    BY <2>1, <2>2 DEF DuePosition, DueCounter
  <2> QED BY <1>3, <2>1, <2>3 DEF WriteCtrl, Hw!StopTimer
<1>4. CASE on = bit
  <2>1. UNCHANGED <<total, on, latch, position, target, counter>> /\ out' = NoRead
    BY <1>4 DEF WriteCtrl
  <2>2. UNCHANGED <<DuePosition, DueCounter>>
    BY <2>1 DEF DuePosition, DueCounter, Due, Ticks, Cycles
  <2> QED BY <2>1, <2>2 DEF Hw!Nothing
<1> QED BY <1>1, <1>2, <1>3, <1>4

LEMMA SameTargetStep ==
  ASSUME TypeOK, NEW data, WriteSameTarget(data)
  PROVE  Hw!Nothing
<1>1. UNCHANGED <<total, on, latch, position, target, counter>> /\ out' = NoRead
  BY DEF WriteSameTarget
<1>2. UNCHANGED <<DuePosition, DueCounter>>
  BY <1>1 DEF DuePosition, DueCounter, Due, Ticks, Cycles
<1> QED BY <1>1, <1>2 DEF Hw!Nothing

LEMMA TargetStep ==
  ASSUME TypeOK, TypeOK', NEW data \in 0 .. TargetMax - 1, WriteTarget(data)
  PROVE  \E t \in 1 .. TargetMax : Hw!SetTarget(t)
<1>1. Ticks' = 0
  BY Accessed DEF WriteTarget
<1>2. DuePosition' = position' /\ DueCounter' = counter'
  BY <1>1, Fresh
<1>3. Hw!SetTarget(TargetOf(data))
  BY <1>2, UpdatedIs DEF WriteTarget, Lowered, Hw!SetTarget
<1> QED BY <1>3, TargetIn

LEMMA InitHw == Init => Hw!Init
<1> SUFFICES ASSUME Init PROVE Hw!Init
  OBVIOUS
<1>1. TypeOK /\ total = ResetCycles /\ latch = 0 /\ position = 0
  BY InitType DEF Init
<1>2. Cycles = ResetCycles
  BY <1>1, Constants DEF Cycles, ToWord, TypeOK
<1>3. Ticks = 0
  <2>1. ResetCycles = Tick * 0 + ResetCycles /\ ResetCycles \in Int /\ 0 <= ResetCycles
    BY Constants
  <2> QED BY <1>2, <2>1, Constants, DivUnique DEF Ticks
<1>4. Due = 0 /\ 0 < target
  BY <1>1, <1>3, Constants DEF Due, TypeOK
<1>5. DuePosition = 0 /\ DueCounter = counter
  BY <1>4 DEF DuePosition, DueCounter
<1>6. total % Tick \in 0 .. Tick - 1
  BY <1>1, Elapsed
<1> QED BY <1>1, <1>5, <1>6 DEF Init, Hw!Init

-----------------------------------------------------------------------------
(* Update_SPC_Timer, spc_start_timer, Wrap_SPC_Cyclecounter: the latch stays
   on a tick through every update and every wrap of the cycle counter, and no
   running timer stands at or above its target. *)
THEOREM TimerTypeCorrect ==
  ASSUME ~LowerTargets
  PROVE  Spec => []TypeOK
<1>1. Init => TypeOK
  BY InitType
<1>2. TypeOK /\ [Next]_vars => TypeOK'
  BY TypeStep
<1> QED BY <1>1, <1>2, PTL DEF Spec

(* A timer brought up to date only when the program accesses it is the timer
   that counts every cycle, as long as the program sets no target at or below
   the position: every count the program reads, for words, ticks and targets
   of every size. *)
THEOREM TimerLikeHardware ==
  ASSUME ~LowerTargets
  PROVE  Spec => LikeHardware
<1>1. Init => Hw!Init
  BY InitHw
<1>2. ASSUME TypeOK, TypeOK', [Next]_vars PROVE [Hw!Next]_(Hw!hwvars)
  <2>1. ASSUME Next PROVE Hw!Next
    BY <1>2, <2>1, CycleStep, WrapStep, ReadStep, ControlStep, SameTargetStep, TargetStep
       DEF Next, Hw!Next
  <2>2. ASSUME UNCHANGED vars PROVE UNCHANGED Hw!hwvars
    BY <2>2 DEF vars, Hw!hwvars, DuePosition, DueCounter, Due, Ticks, Cycles
  <2> QED BY <1>2, <2>1, <2>2
<1>3. TypeOK /\ TypeOK' /\ [Next]_vars => [Hw!Next]_(Hw!hwvars)
  BY <1>2
<1> QED BY <1>1, <1>3, TimerTypeCorrect, PTL DEF Spec, LikeHardware, Hw!Spec
=============================================================================
