--------------------------- MODULE SpcBus_proofs ----------------------------
(***************************************************************************)
(* Theorems of SpcBus, for any addresses, inputs, files and echo regions.   *)
(* The invariant adds to ControlHolds what was there before a song was      *)
(* loaded: SetState clears the ROM's bit but never sets it, which is right  *)
(* only because it is called once, on the state that Reset_SPC left.        *)
(***************************************************************************)
EXTENDS SpcBus, TLAPS

LEMMA BusConstants ==
  /\ CTRL \in Addresses /\ DSPADDR \in Addresses
  /\ \A a \in Addresses : Inputs[a] \subseteq Byte
  /\ DspIndexes \subseteq Byte /\ DspValues \subseteq Byte
  /\ Counts \subseteq 0 .. 15
  /\ \A img \in Images : img \in [Addresses -> Byte]
<1>1. CTRL \in Addresses /\ DSPADDR \in Addresses
  BY BusAssumption DEF BusAssumption, CTRL, DSPADDR
<1>2. /\ Inputs \in [Addresses -> SUBSET Byte]
      /\ Images \subseteq [Addresses -> Byte]
  BY BusAssumption, Zenon DEF BusAssumption
<1>3. \A a \in Addresses : Inputs[a] \subseteq Byte
  BY <1>2
<1>4. \A img \in Images : img \in [Addresses -> Byte]
  BY <1>2, Zenon
<1>5. /\ DspIndexes \subseteq Byte /\ DspValues \subseteq Byte
      /\ Counts \subseteq 0 .. 15
  BY BusAssumption DEF BusAssumption
<1> QED BY <1>1, <1>3, <1>4, <1>5

LEMMA ByteFacts ==
  /\ 0 \in Byte /\ 1 \in Byte /\ 128 \in Byte
  /\ \A x \in Byte : TargetOf(x) \in 1 .. 256 /\ x % 16 \in 0 .. 15
BY DEF Byte, TargetOf

LEMMA RegisterType ==
  ASSUME NEW img \in [Addresses -> Byte], NEW a
  PROVE  Register(img, a) \in Byte
BY ByteFacts DEF Register

(* The bits at the start: the ROM on, the timers off. *)
LEMMA StartBits ==
  /\ HasBit(128, 7)
  /\ \A i \in Timers : ~HasBit(128, i)
<1>1. HasBit(128, 7)
  BY DEF HasBit, BitValues
<1>2. ~HasBit(128, 0) /\ ~HasBit(128, 1) /\ ~HasBit(128, 2)
  BY DEF HasBit, BitValues
<1>3. \A i \in Timers : i = 0 \/ i = 1 \/ i = 2
  BY DEF Timers
<1> QED BY <1>1, <1>2, <1>3

BusInv ==
  /\ TypeOK
  /\ ControlHolds
  /\ ~loaded => rom

LEMMA BusInitInv == Init => BusInv
<1> SUFFICES ASSUME Init PROVE BusInv
  OBVIOUS
<1>1. TypeOK
  <2>1. PICK d \in DspValues : dsp = [r \in DspIndexes |-> d]
    BY DEF Init
  <2>2. dsp \in [DspIndexes -> Byte]
    BY <2>1, BusConstants
  <2>3. ram \in [Addresses -> Byte]
    <3>1. [c \in Addresses |-> 0] \in [Addresses -> Byte]
      BY ByteFacts
    <3>2. ram = [[c \in Addresses |-> 0] EXCEPT ![CTRL] = 128]
      BY DEF Init
    <3> QED BY <3>1, <3>2, ByteFacts
  <2>4. portR \in [Ports -> Byte] /\ portW \in [Ports -> Byte]
    BY ByteFacts DEF Init
  <2>5. target \in [Timers -> 1 .. 256] /\ counter \in [Timers -> 0 .. 15]
    BY DEF Init
  <2>6. rom \in BOOLEAN /\ loaded \in BOOLEAN /\ ctl \in Byte /\ hit \in BOOLEAN
    BY ByteFacts DEF Init
  <2> QED BY <2>2, <2>3, <2>4, <2>5, <2>6 DEF TypeOK
<1>2. ControlHolds
  <2>1. ram[CTRL] = 128 /\ ctl = 128 /\ rom = TRUE
    BY BusConstants DEF Init
  <2> QED BY <2>1, StartBits DEF ControlHolds
<1>3. rom
  BY DEF Init
<1> QED BY <1>1, <1>2, <1>3 DEF BusInv

LEMMA BusNextInv == BusInv /\ [Next]_vars => BusInv'
<1> SUFFICES ASSUME BusInv, [Next]_vars PROVE BusInv'
  OBVIOUS
<1>t. /\ ram \in [Addresses -> Byte] /\ rom \in BOOLEAN
      /\ portR \in [Ports -> Byte] /\ portW \in [Ports -> Byte]
      /\ dsp \in [DspIndexes -> Byte]
      /\ target \in [Timers -> 1 .. 256] /\ counter \in [Timers -> 0 .. 15]
      /\ loaded \in BOOLEAN /\ ctl \in Byte /\ hit \in BOOLEAN
  BY DEF BusInv, TypeOK
<1>c. /\ rom <=> HasBit(ctl, 7)
      /\ ~hit => \A i \in Timers : HasBit(ram[CTRL], i) <=> HasBit(ctl, i)
      /\ ~loaded => rom
  BY DEF BusInv, ControlHolds
<1>1. CASE LoadFails
  BY <1>1, <1>t, <1>c DEF LoadFails, BusInv, TypeOK, ControlHolds
<1>2. ASSUME NEW img \in Images, NEW erased \in Erasures, NEW d \in DspValues,
             NEW saved \in {128, 256}, Load(img, erased, d, saved)
      PROVE  BusInv'
  <2>1. img \in [Addresses -> Byte] /\ img[CTRL] \in Byte
    BY BusConstants
  <2>2. TypeOK'
    <3>1. ram' \in [Addresses -> Byte]
      BY <1>2, <2>1, ByteFacts DEF Load
    <3>2. rom' \in BOOLEAN
      BY <1>2 DEF Load
    <3>3. target' \in [Timers -> 1 .. 256]
      BY <1>2, <2>1, RegisterType, ByteFacts DEF Load
    <3>4. counter' \in [Timers -> 0 .. 15]
      BY <1>2, <2>1, RegisterType, ByteFacts DEF Load
    <3>5. portR' \in [Ports -> Byte]
      BY <1>2, <2>1, RegisterType DEF Load
    <3>6. dsp' \in [DspIndexes -> Byte]
      BY <1>2, <1>t, BusConstants DEF Load
    <3>7. hit' \in BOOLEAN
      BY <1>2 DEF Load
    <3> QED BY <1>2, <1>t, <2>1, <3>1, <3>2, <3>3, <3>4, <3>5, <3>6, <3>7
            DEF Load, TypeOK
  <2>3. ControlHolds'
    <3>1. rom' <=> HasBit(ctl', 7)
      <4>1. rom /\ rom' = (rom /\ HasBit(img[CTRL], 7)) /\ ctl' = img[CTRL]
        BY <1>2, <1>c DEF Load
      <4> QED BY <4>1, Zenon
    <3>2. ~hit' => ram'[CTRL] = ctl'
      <4>1. CTRL \in Registers
        BY DEF CTRL, Registers
      <4>2. /\ hit' = (erased \cap Registers # {}) /\ ctl' = img[CTRL]
            /\ ram' = [c \in Addresses |-> IF c \in erased THEN 0 ELSE img[c]]
        BY <1>2 DEF Load
      <4>3. ASSUME ~hit' PROVE CTRL \notin erased
        BY <4>1, <4>2, <4>3
      <4> QED BY <4>2, <4>3, BusConstants
    <3> QED BY <3>1, <3>2 DEF ControlHolds
  <2>4. loaded'
    BY <1>2 DEF Load
  <2> QED BY <2>2, <2>3, <2>4 DEF BusInv
<1>3. ASSUME NEW a \in Addresses, NEW v \in Inputs[a], SetByte(a, v), loaded
      PROVE  BusInv'
  <2>1. v \in Byte
    BY BusConstants
  <2>2. CASE WriteRam(a, v)
    <3>1. a # CTRL
      BY <2>2 DEF WriteRam, CTRL, Registers, RamReads, CounterReads
    <3>2. ram' \in [Addresses -> Byte] /\ ram'[CTRL] = ram[CTRL]
      BY <2>1, <2>2, <3>1, <1>t, BusConstants DEF WriteRam, Written
    <3> QED BY <2>2, <3>2, <1>t, <1>c DEF WriteRam, BusInv, TypeOK, ControlHolds
  <2>3. CASE a = CTRL /\ WriteCtrl(v)
    <3>1. ram' \in [Addresses -> Byte] /\ ram'[CTRL] = v
      BY <2>1, <2>3, <1>t, BusConstants DEF WriteCtrl, Written
    <3>2. portR' \in [Ports -> Byte] /\ counter' \in [Timers -> 0 .. 15]
      BY <2>3, <1>t, ByteFacts DEF WriteCtrl
    <3>3. rom' = HasBit(v, 7) /\ rom' \in BOOLEAN /\ ctl' = v
      BY <2>3 DEF WriteCtrl, RomAfter, HasBit
    <3>4. TypeOK'
      BY <2>1, <2>3, <3>1, <3>2, <3>3, <1>t DEF WriteCtrl, TypeOK
    <3>5. ControlHolds'
      BY <3>1, <3>3, Zenon DEF ControlHolds
    <3>6. loaded' = loaded
      BY <2>3 DEF WriteCtrl
    <3> QED BY <1>3, <3>4, <3>5, <3>6 DEF BusInv
  <2>4. CASE a = DSPDATA /\ WriteDsp(v)
    <3>1. dsp' \in [DspIndexes -> Byte]
      BY <2>1, <2>4, <1>t, ByteFacts DEF WriteDsp
    <3> QED BY <2>4, <3>1, <1>t, <1>c DEF WriteDsp, BusInv, TypeOK, ControlHolds
  <2>5. CASE a \in 244 .. 247 /\ WritePortW(a - 244, v)
    <3>1. portW' \in [Ports -> Byte]
      BY <2>1, <2>5, <1>t DEF WritePortW
    <3> QED BY <2>5, <3>1, <1>t, <1>c DEF WritePortW, BusInv, TypeOK, ControlHolds
  <2>6. CASE a \in 250 .. 252 /\ WriteTimer(a - 250, v)
    <3>1. a - 250 \in Timers
      BY <2>6 DEF Timers
    <3>2. target' \in [Timers -> 1 .. 256]
      BY <2>1, <2>6, <1>t, ByteFacts DEF WriteTimer
    <3>3. counter' \in [Timers -> 0 .. 15]
      <4>1. PICK count \in Counts \cup {counter[a - 250]} :
              counter' = [counter EXCEPT ![a - 250] = count]
        BY <2>6 DEF WriteTimer
      <4>2. count \in 0 .. 15
        BY <4>1, <3>1, <1>t, BusConstants
      <4> QED BY <4>1, <4>2, <1>t
    <3> QED BY <2>6, <3>2, <3>3, <1>t, <1>c DEF WriteTimer, BusInv, TypeOK, ControlHolds
  <2> QED BY <1>3, <2>2, <2>3, <2>4, <2>5, <2>6 DEF SetByte
<1>4. ASSUME NEW a \in Addresses, ReadCounter(a)
      PROVE  BusInv'
  <2>1. counter' \in [Timers -> 0 .. 15]
    <3>1. counter' = [counter EXCEPT ![a - 253] = 0]
      BY <1>4 DEF ReadCounter
    <3>2. 0 \in 0 .. 15
      OBVIOUS
    <3> QED BY <3>1, <3>2, <1>t
  <2> QED BY <1>4, <2>1, <1>t, <1>c DEF ReadCounter, BusInv, TypeOK, ControlHolds
<1>5. ASSUME NEW a \in Addresses, NEW v \in Inputs[a], HostWrites(a - 244, v)
      PROVE  BusInv'
  <2>1. portR' \in [Ports -> Byte]
    BY <1>5, <1>t, BusConstants DEF HostWrites
  <2> QED BY <1>5, <2>1, <1>t, <1>c DEF HostWrites, BusInv, TypeOK, ControlHolds
<1>6. ASSUME NEW r \in DspIndexes, NEW v \in DspValues, DspSets(r, v)
      PROVE  BusInv'
  <2>1. dsp' \in [DspIndexes -> Byte]
    BY <1>6, <1>t, BusConstants DEF DspSets
  <2> QED BY <1>6, <2>1, <1>t, <1>c DEF DspSets, BusInv, TypeOK, ControlHolds
<1>7. ASSUME NEW a \in EchoCells, Echo(a, 1)
      PROVE  BusInv'
  <2>1. ram' \in [Addresses -> Byte] /\ hit' \in BOOLEAN
    BY <1>7, <1>t, ByteFacts DEF Echo, Written
  <2>2. ~hit' => ~hit /\ ram'[CTRL] = ram[CTRL]
    <3>1. CTRL \in Registers
      BY DEF CTRL, Registers
    <3> QED BY <1>7, <3>1, <1>t, BusConstants DEF Echo, Written
  <2> QED BY <1>7, <2>1, <2>2, <1>t, <1>c DEF Echo, BusInv, TypeOK, ControlHolds
<1>8. CASE UNCHANGED vars
  BY <1>8, <1>t, <1>c DEF vars, BusInv, TypeOK, ControlHolds
<1> QED
  BY <1>1, <1>2, <1>3, <1>4, <1>5, <1>6, <1>7, <1>8 DEF Next, Turn

(* Bytes stay bytes, targets 1 .. 256 and counters four bits, whoever writes
   (spc700.c:482-645). *)
THEOREM BusTypeCorrect == Spec => []TypeOK
<1>1. BusInv => TypeOK
  BY DEF BusInv
<1> QED BY BusInitInv, BusNextInv, <1>1, PTL DEF Spec

(* The ROM is where the control register says that was set last, and so are
   the timers' bits until the echo is written over them (spc700.c:507-577). *)
THEOREM ControlAlwaysHolds == Spec => []ControlHolds
<1>1. BusInv => ControlHolds
  BY DEF BusInv
<1> QED BY BusInitInv, BusNextInv, <1>1, PTL DEF Spec

-----------------------------------------------------------------------------
(* What a read finds: one of five things, each at addresses of its own. *)
LEMMA ReadsFrom ==
  ASSUME NEW b \in Seen
  PROVE  \/ /\ b >= IplStart
            /\ GetByte(b) = IF rom THEN Rom ELSE ram[b]
            /\ GetByte(b)' = IF rom' THEN Rom ELSE ram'[b]
         \/ b < IplStart /\ GetByte(b) = ram[b] /\ GetByte(b)' = ram'[b]
         \/ GetByte(b) = 0 /\ GetByte(b)' = 0
         \/ /\ b = DSPDATA
            /\ GetByte(b) = dsp[ReadIndex(ram[DSPADDR])]
            /\ GetByte(b)' = dsp'[ReadIndex(ram'[DSPADDR])]
         \/ /\ b \in 244 .. 247
            /\ GetByte(b) = portR[b - 244] /\ GetByte(b)' = portR'[b - 244]
<1> USE DEF IplStart, Registers, RamReads, InvalidReads, DSPDATA
<1>1. b \in Int /\ b \notin CounterReads
  BY BusAssumption DEF BusAssumption, Memory, Seen
<1>2. CASE b >= IplStart
  BY <1>1, <1>2 DEF GetByte
<1>3. CASE b < IplStart /\ b \notin Registers
  BY <1>1, <1>3 DEF GetByte
<1>4. CASE b \in RamReads
  BY <1>1, <1>4 DEF GetByte
<1>5. CASE b \in InvalidReads
  BY <1>1, <1>5 DEF GetByte
<1>6. CASE b = DSPDATA
  BY <1>1, <1>6 DEF GetByte
<1>7. CASE b \in 244 .. 247
  BY <1>1, <1>7 DEF GetByte
<1> QED BY <1>1, <1>2, <1>3, <1>4, <1>5, <1>6, <1>7 DEF CounterReads

(* What a write may show elsewhere. *)
LEMMA WriteShows ==
  ASSUME TypeOK, NEW a \in Addresses, NEW v \in Inputs[a], SetByte(a, v),
         NEW b \in Seen \ {a}, ~(a = DSPADDR /\ b = DSPDATA),
         ~(a = CTRL /\ (b \in 244 .. 247 \/ b >= IplStart))
  PROVE  GetByte(b)' = GetByte(b)
<1>1. ram \in [Addresses -> Byte] /\ b \in Addresses /\ b # a /\ b \in Seen
  BY DEF TypeOK, Seen
<1>2. DSPADDR \in Addresses
  BY BusConstants
<1>3. CASE WriteRam(a, v)
  <2>1. ram'[b] = ram[b] /\ rom' = rom /\ portR' = portR /\ dsp' = dsp
    BY <1>1, <1>3 DEF WriteRam, Written
  <2>2. a # DSPADDR => ram'[DSPADDR] = ram[DSPADDR]
    BY <1>1, <1>2, <1>3 DEF WriteRam, Written
  <2> QED BY <1>1, <2>1, <2>2, ReadsFrom
<1>4. CASE a = CTRL /\ WriteCtrl(v)
  <2>1. ram'[b] = ram[b] /\ dsp' = dsp
    BY <1>1, <1>4 DEF WriteCtrl, Written
  <2>2. ram'[DSPADDR] = ram[DSPADDR]
    BY <1>1, <1>2, <1>4 DEF WriteCtrl, Written, CTRL, DSPADDR
  <2> QED BY <1>1, <1>4, <2>1, <2>2, ReadsFrom
<1>5. CASE a = DSPDATA /\ WriteDsp(v)
  BY <1>1, <1>5, ReadsFrom DEF WriteDsp
<1>6. CASE a \in 244 .. 247 /\ WritePortW(a - 244, v)
  BY <1>1, <1>6, ReadsFrom DEF WritePortW
<1>7. CASE a \in 250 .. 252 /\ WriteTimer(a - 250, v)
  BY <1>1, <1>7, ReadsFrom DEF WriteTimer
<1> QED BY <1>3, <1>4, <1>5, <1>6, <1>7 DEF SetByte

(* Only a write to the data register changes the DSP's, and no write sets a
   bit of ENDX. *)
LEMMA WriteToDsp ==
  ASSUME TypeOK, NEW a \in Addresses, NEW v \in Inputs[a], SetByte(a, v)
  PROVE  /\ a = DSPDATA /\ ram[DSPADDR] >= 128 =>
              \A r \in DspIndexes : r < 128 => dsp'[r] = dsp[r]
         /\ dsp'[ENDX] \in {0, dsp[ENDX]}
<1>1. dsp \in [DspIndexes -> Byte] /\ ENDX \in DspIndexes
  BY BusAssumption DEF TypeOK, BusAssumption, ENDX
<1>2. ram[DSPADDR] \in Int /\ \A r \in DspIndexes : r \in Int
  <2>1. ram[DSPADDR] \in Byte /\ \A r \in DspIndexes : r \in Byte
    BY BusConstants DEF TypeOK
  <2>2. \A x \in Byte : x \in Int
    BY DEF Byte
  <2> QED BY <2>1, <2>2
<1>3. CASE a = DSPDATA /\ WriteDsp(v)
  <2> DEFINE addr == ram[DSPADDR]
  <2>1. dsp' = [dsp EXCEPT ![addr] = IF addr = ENDX THEN 0 ELSE v]
    BY <1>3 DEF WriteDsp, WriteIndex
  <2> HIDE DEF addr
  <2>2. \A r \in DspIndexes : r # addr => dsp'[r] = dsp[r]
    BY <1>1, <2>1
  <2>3. addr = ENDX => dsp'[ENDX] = 0
    BY <1>1, <2>1
  <2> QED BY <1>1, <1>2, <2>2, <2>3 DEF addr
<1>4. CASE dsp' = dsp
  BY <1>4
<1> QED BY <1>3, <1>4 DEF SetByte, WriteRam, WriteCtrl, WritePortW, WriteTimer

(* A write shows at its own address and nowhere else, but for what the control
   register clears or uncovers and what the DSP's address selects; the upper
   half of the DSP's addresses reaches no register that is read, and no write
   turns a bit of ENDX on (spc700.c:507-645). *)
THEOREM WritesStayLocal == Spec => WritesAreLocal
<1> DEFINE Local ==
      \A a \in Addresses : \A v \in Inputs[a] : SetByte(a, v) =>
        /\ \A b \in Seen \ {a} : GetByte(b)' # GetByte(b) =>
             \/ a = DSPADDR /\ b = DSPDATA
             \/ a = CTRL /\ (b \in 244 .. 247 \/ b >= IplStart)
        /\ a = DSPDATA /\ ram[DSPADDR] >= 128 =>
             \A r \in DspIndexes : r < 128 => dsp'[r] = dsp[r]
        /\ dsp'[ENDX] \in {0, dsp[ENDX]}
<1>1. BusInv /\ [Next]_vars => [Local]_vars
  <2> SUFFICES ASSUME BusInv, NEW a \in Addresses, NEW v \in Inputs[a], SetByte(a, v)
               PROVE  /\ \A b \in Seen \ {a} : GetByte(b)' # GetByte(b) =>
                           \/ a = DSPADDR /\ b = DSPDATA
                           \/ a = CTRL /\ (b \in 244 .. 247 \/ b >= IplStart)
                      /\ a = DSPDATA /\ ram[DSPADDR] >= 128 =>
                           \A r \in DspIndexes : r < 128 => dsp'[r] = dsp[r]
                      /\ dsp'[ENDX] \in {0, dsp[ENDX]}
    OBVIOUS
  <2>1. TypeOK
    BY DEF BusInv
  <2>2. \A b \in Seen \ {a} : GetByte(b)' # GetByte(b) =>
          \/ a = DSPADDR /\ b = DSPDATA
          \/ a = CTRL /\ (b \in 244 .. 247 \/ b >= IplStart)
    BY <2>1, WriteShows
  <2> QED BY <2>1, <2>2, WriteToDsp
<1> HIDE DEF Local
<1>2. Spec => [][Local]_vars
  BY BusInitInv, BusNextInv, <1>1, PTL DEF Spec
<1> QED BY <1>2 DEF Local, WritesAreLocal
=============================================================================
