------------------------------- MODULE SpcBus -------------------------------
(***************************************************************************)
(* What the SPC700 finds at its addresses, and who else gets there: the     *)
(* memory, the IPL ROM laid over its end, and the registers at 0xF0 - 0xFF  *)
(* (control, DSP, ports to the host, timers) of spc700.c, between the       *)
(* program, the host, the DSP and the echo, which takes turns with it.      *)
(* The control register and the DSP's address register are kept in the RAM  *)
(* under them.                                                              *)
(***************************************************************************)
EXTENDS Integers

CONSTANTS
  Addresses,   \* the addresses in use
  Inputs,      \* what may be written at each: a function to sets of bytes
  DspIndexes,  \* the registers of DSPregs[256] in use
  DspValues,   \* what the DSP puts into its registers
  Counts,      \* what a timer may have counted to
  Images,      \* memory of the files that may be loaded
  Erasures,    \* cells that clear_echo may zero
  EchoCells    \* cells the echo may be written to

Byte == 0 .. 255
Memory == 0 .. 65535
Rom == 256     \* what stands in the ROM, unlike any byte of the RAM

ASSUME BusAssumption ==
  /\ Addresses \subseteq Memory /\ {241, 242} \subseteq Addresses
  /\ Inputs \in [Addresses -> SUBSET Byte]
  /\ DspIndexes \subseteq Byte /\ 124 \in DspIndexes /\ DspValues \subseteq Byte
  /\ Counts \subseteq 0 .. 15
  /\ \A v \in Inputs[242] : v \in DspIndexes /\ v % 128 \in DspIndexes
  /\ EchoCells \subseteq Addresses
  /\ Images \subseteq [Addresses -> Byte]
  /\ \A img \in Images : img[242] \in DspIndexes /\ img[242] % 128 \in DspIndexes

VARIABLES
  ram,        \* SPCRAM
  rom,        \* _FFC0_Address is that of the ROM
  portR,      \* _PORT_R: from the host
  portW,      \* _PORT_W: to the host
  dsp,        \* DSPregs
  target, counter,  \* of the timers
  loaded,     \* Load has been called
  ctl,        \* history: the control register as the program, or the file, set it
  hit         \* history: echo or clear_echo has hit the cells of the registers

vars == <<ram, rom, portR, portW, dsp, target, counter, loaded, ctl, hit>>

CTRL == 241       \* 0xF1
DSPADDR == 242    \* 0xF2
DSPDATA == 243    \* 0xF3
ENDX == 124       \* 0x7C
Registers == 240 .. 255
IplStart == 65472 \* 0xFFC0
Ports == 0 .. 3
Timers == 0 .. 2

(* Bit n, counted from 0. *)
BitValues == <<1, 2, 4, 8, 16, 32, 64, 128>>
HasBit(v, n) == (v \div BitValues[n + 1]) % 2 = 1

(* Reset_SPC, on memory zeroed; the DSP's registers are an earlier song's. *)
Init ==
  /\ ram = [[a \in Addresses |-> 0] EXCEPT ![CTRL] = 128]
  /\ rom = TRUE
  /\ portR = [i \in Ports |-> 0] /\ portW = [i \in Ports |-> 0]
  /\ dsp \in {[r \in DspIndexes |-> v] : v \in DspValues}
  /\ target = [i \in Timers |-> 256] /\ counter = [i \in Timers |-> 0]
  /\ loaded = FALSE
  /\ ctl = 128 /\ hit = FALSE

-----------------------------------------------------------------------------
(* Load, which OSPC_Init calls once: SetState, the registers of the DSP (the
   lower half of them from a .spc file), and the echo region zeroed. *)
TargetOf(data) == IF data = 0 THEN 256 ELSE data
Register(img, a) == IF a \in Addresses THEN img[a] ELSE 0

Load(img, erased, d, saved) ==
  /\ ~loaded /\ loaded' = TRUE
  /\ ram' = [a \in Addresses |-> IF a \in erased THEN 0 ELSE img[a]]
  /\ rom' = (rom /\ HasBit(img[CTRL], 7))
  /\ target' = [i \in Timers |-> TargetOf(Register(img, 250 + i))]
  /\ counter' = [i \in Timers |-> Register(img, 253 + i) % 16]
  /\ portR' = [i \in Ports |-> Register(img, 244 + i)]
  /\ dsp' = [r \in DspIndexes |-> IF r < saved THEN d ELSE dsp[r]]
  /\ ctl' = img[CTRL] /\ hit' = (erased \cap Registers # {})
  /\ UNCHANGED portW

LoadFails ==
  /\ ~loaded /\ loaded' = TRUE
  /\ UNCHANGED <<ram, rom, portR, portW, dsp, target, counter, ctl, hit>>

-----------------------------------------------------------------------------
(* get_byte_spc, where it changes nothing: Read_Func_Map. *)
ReadIndex(addr) == addr % 128

RamReads == {242, 248, 249}
InvalidReads == {240, 241, 250, 251, 252}
CounterReads == {253, 254, 255}

GetByte(a) ==
  CASE a >= IplStart        -> IF rom THEN Rom ELSE ram[a]
    [] a \notin Registers /\ a < IplStart -> ram[a]
    [] a \in RamReads       -> ram[a]
    [] a \in InvalidReads   -> 0
    [] a = DSPDATA          -> dsp[ReadIndex(ram[DSPADDR])]
    [] a \in 244 .. 247     -> portR[a - 244]

(* Update_SPC_Timer: a timer that runs may have counted. *)
Updated(i, count) == HasBit(ram[CTRL], i) \/ count = counter[i]

ReadCounter(a) ==
  /\ a \in CounterReads
  /\ counter' = [counter EXCEPT ![a - 253] = 0]
  /\ UNCHANGED <<ram, rom, portR, portW, dsp, target, loaded, ctl, hit>>

-----------------------------------------------------------------------------
(* set_byte_spc: Write_Func_Map. *)
Written(a, v) == ram' = [ram EXCEPT ![a] = v]

WriteRam(a, v) ==
  /\ a \notin Registers \/ a \in RamReads \cup CounterReads
  /\ Written(a, v)
  /\ UNCHANGED <<rom, portR, portW, dsp, target, counter, loaded, ctl, hit>>

Starts(i, v) == ~HasBit(ram[CTRL], i) /\ HasBit(v, i)

ClearsPort(i, v) == IF i < 2 THEN HasBit(v, 4) ELSE HasBit(v, 5)

\* mutant: the ROM is never laid over the memory again
RomAfter_Once(v) == rom /\ HasBit(v, 7)
RomAfter(v) == HasBit(v, 7)

WriteCtrl(v) ==
  /\ rom' = RomAfter(v)
  /\ portR' = [i \in Ports |-> IF ClearsPort(i, v) THEN 0 ELSE portR[i]]
  /\ counter' = [i \in Timers |-> IF Starts(i, v) THEN 0 ELSE counter[i]]
  /\ Written(CTRL, v)
  /\ ctl' = v
  /\ UNCHANGED <<portW, dsp, target, loaded, hit>>

\* mutant: bit 7 of the DSP's address is ignored in writes as well
WriteIndex_Low(addr) == addr % 128
WriteIndex(addr) == addr

(* SPC_WRITE_DSP goes by all eight bits of the address, SPC_READ_DSP_DATA by
   seven: the upper half can be written, but nobody looks at it. *)
WriteDsp(v) ==
  LET addr == WriteIndex(ram[DSPADDR]) IN
  /\ dsp' = [dsp EXCEPT ![addr] = IF addr = ENDX THEN 0 ELSE v]
  /\ UNCHANGED <<ram, rom, portR, portW, target, counter, loaded, ctl, hit>>

WritePortW(i, v) ==
  /\ portW' = [portW EXCEPT ![i] = v]
  /\ UNCHANGED <<ram, rom, portR, dsp, target, counter, loaded, ctl, hit>>

WriteTimer(i, v) ==
  /\ target[i] % 256 # v
  /\ target' = [target EXCEPT ![i] = TargetOf(v)]
  /\ \E count \in Counts \cup {counter[i]} :
       Updated(i, count) /\ counter' = [counter EXCEPT ![i] = count]
  /\ UNCHANGED <<ram, rom, portR, portW, dsp, loaded, ctl, hit>>

SetByte(a, v) ==
  \/ WriteRam(a, v)
  \/ a = CTRL /\ WriteCtrl(v)
  \/ a = DSPDATA /\ WriteDsp(v)
  \/ a \in 244 .. 247 /\ WritePortW(a - 244, v)
  \/ a \in 250 .. 252 /\ WriteTimer(a - 250, v)

-----------------------------------------------------------------------------
(* Between the program's turns. *)
HostWrites(i, v) ==
  /\ portR' = [portR EXCEPT ![i] = v]
  /\ UNCHANGED <<ram, rom, portW, dsp, target, counter, loaded, ctl, hit>>

DspSets(r, v) ==
  /\ r < 128
  /\ r % 16 \in {8, 9} \/ r \in {76, 92, 108, ENDX}   \* ENVX, OUTX, KON, KOFF, FLG
  /\ dsp' = [dsp EXCEPT ![r] = v]
  /\ UNCHANGED <<ram, rom, portR, portW, target, counter, loaded, ctl, hit>>

Echo(a, v) ==
  /\ Written(a, v) /\ hit' = (hit \/ a \in Registers)
  /\ UNCHANGED <<rom, portR, portW, dsp, target, counter, loaded, ctl>>

Turn ==
  \/ \E a \in Addresses : \E v \in Inputs[a] : SetByte(a, v)
  \/ \E a \in Addresses : ReadCounter(a)
  \/ \E a \in Addresses \cap (244 .. 247) : \E v \in Inputs[a] : HostWrites(a - 244, v)
  \/ \E r \in DspIndexes, v \in DspValues : DspSets(r, v)
  \/ \E a \in EchoCells : Echo(a, 1)

Next ==
  \/ LoadFails
  \/ \E img \in Images, erased \in Erasures, d \in DspValues, saved \in {128, 256} :
       Load(img, erased, d, saved)
  \/ loaded /\ Turn

Spec == Init /\ [][Next]_vars

-----------------------------------------------------------------------------
(* Bytes stay bytes, targets 1 .. 256 and counters four bits. *)
TypeOK ==
  /\ ram \in [Addresses -> Byte] /\ rom \in BOOLEAN
  /\ portR \in [Ports -> Byte] /\ portW \in [Ports -> Byte]
  /\ dsp \in [DspIndexes -> Byte]
  /\ target \in [Timers -> 1 .. 256] /\ counter \in [Timers -> 0 .. 15]
  /\ loaded \in BOOLEAN /\ ctl \in Byte /\ hit \in BOOLEAN

(* What the control register turns on, kept in two places, is what the
   program, or the file, turned on last: the ROM always, the timers as long
   as no echo was written over the register's cell. *)
ControlHolds ==
  /\ rom <=> HasBit(ctl, 7)
  /\ ~hit => \A i \in Timers : HasBit(ram[CTRL], i) <=> HasBit(ctl, i)

(* A write shows at its own address and nowhere else, but for what the control
   register clears or uncovers and the register that the DSP's address selects;
   and no write turns a bit of ENDX on. *)
Seen == Addresses \ CounterReads
WritesAreLocal ==
  [][\A a \in Addresses : \A v \in Inputs[a] : SetByte(a, v) =>
       /\ \A b \in Seen \ {a} : GetByte(b)' # GetByte(b) =>
            \/ a = DSPADDR /\ b = DSPDATA
            \/ a = CTRL /\ (b \in 244 .. 247 \/ b >= IplStart)
       /\ a = DSPDATA /\ ram[DSPADDR] >= 128 =>
            \A r \in DspIndexes : r < 128 => dsp'[r] = dsp[r]
       /\ dsp'[ENDX] \in {0, dsp[ENDX]}]_vars
=============================================================================
