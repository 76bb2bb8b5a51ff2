# A TLA+ model of libopenspc

libopenspc plays the music of SNES games: it emulates the sound unit of the
console, an SPC700 CPU with 64 KB of memory and a DSP that mixes eight voices,
and gives the samples to a host program.  This directory specifies it in TLA+,
checks the specifications with TLC and proves theorems about them with TLAPS.
`PROJECT.json` lists the runs, the mutants each property was tried on, which
lines every definition stands for, the hazards and the theorems.

## The system

    host -- OSPC_Init, OSPC_Run, OSPC_WritePort/ReadPort
      |
    run loop (main.cc)  ---- grants cycles ---->  CPU (SNEeSe/spc700.c)
      |                                             |        |      |
      |  one DSP_Update per 32 cycles               |      timers   ports
      v                                             v
    DSP (dsp.c)  <---- DSPregs: SPC_WRITE_DSP ------+
      |   voices, envelopes, BRR decoding, mixing
      +-- echo: reads and writes ----> SPC memory <---- the program

Everything runs in one thread.  What makes it hard is that three clocks share
it: the host stops the emulation anywhere, the CPU stops in the middle of an
instruction, and between two blocks of an instruction the DSP makes a sample,
rewrites registers and writes its echo to memory.  Timers are lazy, brought up
to date when a program looks at them, with words that wrap around.  All state
is global, and some of it outlives a song.

| component | state | operations | what makes it correct |
|---|---|---|---|
| run loop, `main.cc` | `mix_left_`, the limits of a call | `OSPC_Run` | the buffer is respected, cycles are neither lost nor run twice, a sample every 32 cycles, every call returns |
| CPU cycles, `spc700.c` | `_Cycles`, `_TotalCycles`, `_WorkCycles`, `_cycle`, `_opcode` | `SPC_START`, `Execute_SPC`, `Wrap_SPC_Cyclecounter` | each block of an instruction runs once, in order, at its time, however the cycles are granted |
| CPU instructions, `spc700.c` | registers, `_address`, `_data`, `_offset`, ... | the opcodes: moves, memory operands, bits, branches, jumps, stack | an instruction in pieces is as good as a whole one; calls return |
| CPU arithmetic, `spc700.c` | the flags, each in a byte of its own | `OP_` macros, DAA, DAS, MUL, DIV | what arithmetic says, flags too |
| bus and loading, `spc700.c`, `spc_cpu.cc`, `main.cc` | memory, `FFC0_Address`, ports, `DSPregs` | `get_byte_spc`, `set_byte_spc`, their handlers, `Load`, `Reset_SPC` | writes are local; the ROM and the timers follow the control register |
| timers, `spc700.c` | `cycle_latch`, `position`, `target`, `counter` | counter, target and control registers | as if counted in every cycle |
| DSP voices, `dsp.c` | `voice_state[8]`, `keys`, KON, KOFF, ENDX, FLG | `DSP_Update`, `DSP_Reset`, writes to registers | key-off wins, interpolation sees the right samples |
| DSP envelope, `dsp.c` | `envx`, `envcnt`, `envstate` | `AdvanceEnvelope` | in range, falls to silence, never rises after its peak |
| DSP echo, `dsp.c`, `main.cc` | `echo_ptr`, the FIR ring, memory | `DSP_Update`, `Load` with `clear_echo` | a delay line that leaves other memory alone |
| DSP decoder arithmetic, mixer, noise, `dsp.c`, `gauss.h` | `smp1`, `smp2`, `sampbuf`, the sums, `noise_lev` | `DSP_Update` | every number fits its width; filters and interpolation are as accurate as their tables; a note forgets the one before; the noise goes through all its values |
| Python wrapper, examples, regression test | none of the emulation's | | |

## The modules

Each module `M` has a module `MC_M` for TLC; `M_proofs` holds the proofs, those
of SpcRun and SpcCycles being with SpcSystem's, which composes the two, those
of DspEnvelope, DspEcho and DspSound in Dsp_proofs, and the longest, SpcInstr's,
in two: SpcInstr_steps and SpcInstr_proofs.  Two small modules hold what others
share: **SpcBits** the bits of a byte (SpcAlu, SpcInstr), **DspRates** the
counter that times envelopes and noise, and the table of its rates
(DspEnvelope, DspNoise).
Operators named `X_Something` are mutants: what a plausible slip would make of
`X`, for checking that a property notices it.

**SpcRun** (refines **SampleClock**).  `SpcContext::Run`: `Call` makes the
decision of lines 92-118, and the steps `LeadIn`, `Mix`, `RunWhole`, `RunPart`,
`Return` follow the code's two loops, one CPU grant or DSP update each.  `phase`
is a history variable, the true time since the last sample.  SampleClock says:
a sample exactly every `TsCyc` cycles.

**SpcCycles** (refines **CpuStream**).  `SPC_START` with its three cases
(nothing due, wrapped, execute), the loop of `Execute_SPC`, and the blocks of
instructions given by the table `Cost`; words wrap at `Word`.  `lag` is the
true number of cycles beyond those granted.  CpuStream is the program's view:
blocks in order, each at its time, no calls.  Its initial state, next-state
relation and specification are `CpuInit`, `CpuNext` and `CpuSpec`, so that the
next module can extend both.

**SpcSystem** (refines **Interleaving**).  SpcRun and SpcCycles composed: where
the run loop grants n cycles it calls `SPC_START(n)` and waits for it to come
back.  Interleaving is the machine as a song sees it, a CPU and a sample clock
without any host: a block of an instruction comes next exactly while the CPU is
behind the next sample, and else the sample does.  That SpcSystem implements it
(`HostIndependent`) is what makes the library usable: neither the kind of the
calls nor their lengths can be heard.

**SpcInstr**.  What is in the blocks: the addressing modes, byte and word
operations, moves between registers, operations on single bits (of a register
of the direct page, or of the bit addressable part of memory, into and out of
the carry), branches on flags, bits, comparisons and counters, jumps, calls and
returns, one action for each kind of block, and the temporaries of the context
between them.  `Echo` may write a cell of memory between any two blocks.
`AsOneStep` is the reference: the instruction as a function of the machine.
Flags other than P, Z and C, and what the byte operations compute, are in
SpcAlu; registers in memory are in SpcBus.

**SpcAlu**.  ADC to DAS, word arithmetic and word steps, logical operations,
INC, DEC, XCN, TSET's test, rotations, MUL, DIV as its nine rotations, the
unpacked flags, the PSW, the instructions on single flags, and the direct page
that is kept beside P.  Programs run on given operands; C's bit operators are
defined by the bits of their operands.

**SpcBus**.  The memory map between program, host, DSP, echo and loader.  The
control register and the DSP's address register live in the memory under them,
where the echo can reach them; the ROM overlay lives elsewhere.  `ctl` and
`hit` are history variables.

**SpcTimer** (refines **TimerHw**).  One timer, with the arithmetic of unsigned
words of the code; TimerHw counts every cycle, and forgets when it is stopped,
as the code does, the ticks since the last access.

**DspVoice**.  One voice; an update goes through the stages in the order of the
code, decoding one sample at a time.  A sample is its number in its note, so
that "the right sample" can be told.  A program may write to any register,
ENVX included, and a file brings its own: `envxShown` says whose value is in it.

**DspEnvelope**.  `AdvanceEnvelope` with the real numbers, registers rewritten
between any two updates; `shown` is what it puts in ENVX.

**DspEcho** (refines **EchoLine**).  Memory, pointer, FIR ring, registers,
loading.  EchoLine is a delay line followed by a window on the last samples.

**DspSound** puts together three modules with the numbers of the code, in its
widths.  **DspDecoder** turns half bytes into samples: ranges, the four
filters, clipping, and the interpolation of the last four, by the table of
**GaussTable**; a second history, the *ghost*, is decoded alongside, to tell
whether what was played before can be heard.  **DspNoise** is the counter and
the shift register behind the noise.  **DspMixer** adds up the voices with
envelopes, volumes and pitch modulation, filters the echo, and makes the
output and the echo to be written; where the C code multiplies beyond 32 bits
(`dsp.c:640`) it keeps the low ones, as the build does.  The parts hand each
other one number, a sample, which each of them takes to be any; so a behaviour
of DspSound follows one of them and lets the others rest.

Components meet through what they abstract of each other: the grants of SpcRun
are the arguments of SpcCycles, which SpcSystem composes; the blocks there are
the steps of SpcInstr; the block's bus accesses are SpcBus's, whose timers are
SpcTimer's; SpcBus's writes to `DSPregs` are the register writes of the DSP
modules, and DspEcho's writes are the `Echo` of SpcInstr and SpcBus.  DspVoice
settles which samples are decoded and interpolated and DspDecoder what they
are; DspVoice takes any level from the envelope, and DspMixer any sample and
any level.

## The runs

| run | what it asks | bounds |
|---|---|---|
| SpcSystem | buffer and cycles of a call, the sample clock, the CPU's stream of blocks, independence of the host, calls return, songs go on | a sample of 3 cycles for 32; limits of -1, within, at and beyond one and two samples; buffers of no whole, one and two samples; words that wrap at 24, so every few instructions; instructions short, long, and with a last block longer than a sample |
| SpcRun_Exact | finding, see below | a sample of 4 cycles |
| SpcInstr | instruction as one step, calls return | bytes of 3 bits, 8 pages, 22 cells with addressable bits; every form from all the registers and flags that matter to it, with operands at the ends of pages and of memory, on memories without equal neighbours; one echo write |
| SpcAlu | arithmetic and flags | bytes of 8 bits: those next to an edge, all pairs of decimal digits, words with such bytes, all 256 PSWs |
| SpcBus | locality, ROM and timer bits | an address of each kind, a port of each pair, DSP registers of both halves |
| SpcTimer | the lazy timer is a timer | words of 5 bits, a tick of 4 cycles, targets to 4, a counter of 2 bits |
| SpcTimer_Lower | finding | the same, targets lowered too |
| DspVoice | key-on, key-off, ENVX, decoding | delay 3 (8), blocks of 2 bytes (8), pitches 0, below and above a block's end |
| DspEnvelope | range, fall, release | none on the numbers; registers for every branch, with rates 0 and the fastest |
| DspEcho | delay line, locality | 6 cells, pages of 2, three lengths, a ring of 3 |
| DspEcho_Clear | finding | the same |
| DspSound | widths, accuracy, history, period | the real widths and table; inputs at their limits, notes of 5 samples in blocks of 2 (16), 3 voices (8), all 8 taps, all 32767 values of the noise |

SpcSystem's state contains SpcRun's and SpcCycles', and its next-state relation
every step of both (theorems `SystemRunsHost` and `SystemRunsCpu`), so their
properties are checked there.

Why small bounds are enough: the code's constants enter these modules as
periods and moduli, and what can go wrong happens at their ends (on the last
cycle, at the wrap, at a full ring), which the small instances reach in all
combinations.  The bounds by name:

* `MaxScribbles`: the samples written in an SpcInstr behaviour, one; programs
  there and in SpcAlu are finite, so that those systems end and deadlock is not
  checked.
* `PhaseCap` and `WrittenCap` in SpcRun stop history variables from growing in
  broken variants, one past what can be right; that correct calls never reach
  the second is a lemma (`MixCounts`).
* `IdleBound` in SpcTimer: no timer is left alone for 2^32 cycles, over an hour
  of music; the code cannot tell such times apart.
* `MaxLevel` in DspVoice stands for the 256 updates of a release.
* `MaxAge` and `MaxDue` in DspDecoder: the samples of a note, and of an update;
  the theorems hold for any.

### What fails

* **SpcRun_Exact**: a call limited by cycles that ends exactly when a sample is
  due, after a lead-in, leaves `mix_left_` as it was, though it is documented
  as the time to the next sample (`main.cc:248`): those cycles run twice
  before the next sample.  SpcSystem excludes that case (`ExactEnds = FALSE`),
  and the theorems that need it excluded assume so.
* **SpcTimer_Lower**: a target lowered to or below the position makes the
  position negative "to handle 'delay'" (`spc700.c:619`), but the next update
  reads it as unsigned and counts about 2^32 / target targets at once.
  SpcTimer excludes it (`LowerTargets = FALSE`).
* **DspEcho_Clear**: `clear_echo` does not clear what the DSP uses as the echo
  region (`main.cc:55`): nothing with EDL 0, nothing past the end of memory,
  and far too much if EDL has one of its four unused bits set, up to the rest of
  the song's memory.

One limit is not a disagreement with anything written down, but worth knowing:
the filter's sum times a volume (`dsp.c:640`) fits 32 bits as long as the sizes
of the eight coefficients add up to 511 at most (theorem `EchoFits`).  From 512
on there are echoes for which it does not: a signed overflow in C, for which the
build wraps around.

## Fairness

Safety needs none.  SpcSystem's liveness assumes `WF_sysVars(SysInCall)`: a
call is sequential code, run loop and CPU together, that nothing else can hold
up, so its next step is taken; and `WF_sysVars(SysCall)`: the host keeps
calling, without which no sample is asked for.  `CallsReturn` needs the first
only.  `SongGoesOn` is conditional on calls that grant cycles: a host that asks
for none, or gives no room for a sample, gets none.  DspVoice assumes
`WF_vars(UpdateStep)`: samples are made while the host runs the library, an
update is straight code, and a program that writes registers cannot keep it
from coming since the run loop calls it every 32 cycles.  The CPU's writes have
no fairness: `KeyOffSilences` is about a song that leaves KOFF set, and
`KeyOnSounds` about one that sets neither KON nor KOFF nor resets the DSP until
the note has begun.

## The proofs

For all values of the constants that the `ASSUME`s allow; TLC evaluates these
on every run.

* **SpcSystem_proofs**, of the run loop: types (`mix_left_` stays below a
  period), `BufferSafe`, `CyclesAccounted`, and, with `ExactEnds` false,
  `MixLeftExact` and `ImplementsClock`, the refinement of SampleClock.  The
  inductive invariants relate room and samples written, the limit and the
  cycles granted, and the phase of the sample clock and what is still owed, for
  each step of the call: none of them holds of `mixLeft` alone, which is stale
  during a call.
* of the CPU's cycles: `CpuNotBehind` and `CpuNeverAhead` follow from an
  invariant that ties the wrapping words to the true lag (`CountersMeasureLag`)
  and bounds the lag; the modulus drops out since the lag stays below half of
  it.  With it each step is shown to be one of CpuStream's or a stutter
  (`CpuRunsStream`).
* of both together: each step of the system is a step of the run loop and
  one of the CPU, or leaves one of them alone (`SystemRunsHost`,
  `SystemRunsCpu`), so that both modules' invariants hold of it; the run loop
  never grants more than the CPU's counters can take.  With these invariants
  every step is one of Interleaving or a stutter (`RunsLikeMachine`, with
  `ExactEnds` false): that a sample is made only when the CPU is not behind it
  is the run loop's phase and the CPU's lag together, neither of which says it
  alone.
* **SpcTimer_proofs**: `TimerTypeCorrect` and `TimerLikeHardware`, the
  refinement of TimerHw, both with `LowerTargets` false, since the run
  SpcTimer_Lower shows the refinement wrong without.  The invariant is the type
  invariant, which says that the position of a running timer is below its
  target and its latch on a tick.  TimerHw's counter is the one an access would
  find now (`DuePosition`, `DueCounter`); a cycle that completes a tick moves it
  by one and no other cycle does, through the wrap of `_TotalCycles`, and an
  access that brings the timer up to date moves it not at all.  That takes
  lemmas on quotients and remainders by a divisor that is not a numeral, which
  the module proves first.
* **SpcAlu_proofs**: for every two bytes, every two words, every PSW and every
  program, not the edges only: `SumsExact`, `DecimalExact`, `DivisionExact` and
  `PswFaithful`.  The lemmas state what each operator computes in terms of
  quotients and remainders: sums of bytes, words put together from their bytes
  with a carry, a byte as the sum of its bits.  DIV's nine rounds are written
  out, so that they need no induction: while the register is below the divisor
  moved up by nine bits, a round is a step of the division by hand (`Round`),
  and its partial quotient and remainder are the invariant carried through the
  nine.  The inductive invariant of the programs adds to the properties what
  the first operation leaves for the second (`Prefixes`), for instance the
  rotated byte and the bit that went to the carry.
* **SpcInstr_steps** and **SpcInstr_proofs**: `InstructionsAreAtomic`, that
  `RunsAsOneStep` holds for bytes of 3 to 8 bits, every program, memory, state
  of the registers and echo.  For each instruction X, or addressing mode with
  its access, `XAt(i, c, m)` says where it can be: after i blocks, the blocks
  still to come, and the machine and the temporaries as functions of the
  machine c, m that it began with.  Four lemmas follow it: it begins at place
  0 (`XBegins`), a block takes it from one place to the next (`XGoes`), a sample
  of the echo in a cell not accessed so far leaves it at its place, over the
  memory with the sample in it (`XStays`), and at the last place the machine is
  what `AsOneStep` says (`XEnds`).  The inductive invariant, `Atomic`, is that as
  long as no sample hit a cell already accessed or the stack, the program is
  between instructions or at a place of the one it began.  `RunsAsOneStep` alone
  is not inductive: it says nothing of an instruction that has not ended, and it
  is the temporaries that decide what the next block does.
* **SpcBus_proofs**: types, `ControlHolds` and `WritesStayLocal`: a write
  changes what its address names.  The control register's invariant needs
  strengthening by what holds before the first song: the ROM is on until one is
  loaded.
* **DspVoice_proofs**: types, key-off, that ENVX tells between two updates
  whether a voice is on (`EnvxTellsVoice`), the range of the interpolation's
  index, and the alignment of blocks, by stage: the invariant says what holds
  in each stage of an update.  `WindowIsLastFour` needs more: while a note has
  fewer than four samples, which of them are still to come (`Beginning`), and
  that a new sample moves the window on by one or completes it (`WindowMoves`).
* **Dsp_proofs**, of the envelope: range, release within 256 updates (the
  counter of a released voice and its level bound each other), and the two
  action properties that it never rises and that it falls to zero.
* of the echo: types, `PointerInRegion`, and `RestUntouched`: memory
  outside the region is never written.  `EchoIsDelayLine` is the refinement of
  EchoLine: the region, read from the pointer on and around, is the line, and
  the ring, read back from its pointer, what the filter weighs.
* of the amplitudes: for all samples, headers, volumes and histories, not the
  ends of their ranges only: every number fits its width (`SoundTypeCorrect`;
  the sums are bounded by the number of voices and by the sizes of the taps so
  far, which is the inductive part), a note forgets the past
  (`NoteForgetsThePast`), the filters are accurate (`FiltersAreAccurate`), the
  interpolation stays between its samples (`InterpolationStaysBetween`, for any
  table with the sums that TLC finds of the real one), and the echo's product
  is exact up to 511 (`EchoFits`).

What the proofs assume of the constants is what the modules' `ASSUME`s say: the
operands of SpcAlu are bytes and words (`SuitesAreBytes`), the programs of
SpcInstr lists of its forms over memories and registers of bytes
(`SuitesAssumption`), its byte a power of two of at least 8 values and its
vectors within memory (`InstrAssumption`), those of SpcTimer and the other
modules positive periods and moduli in the order the code has them.

Only model-checked: liveness (`CallsReturn`, `SongGoesOn`, `KeyOffSilences`,
`KeyOnSounds`), which TLAPS cannot prove here; SpcInstr's `ReturnsToCaller`,
which is a fact about the programs of the run as well (a program whose calls do
not balance, or which stores to its stack, does not return) and so no theorem
about every program; and `NoiseFullPeriod`, which says how long an orbit is and
would be an induction over its 32767 steps, but TLC goes through all of them.
That the noise never becomes 0 is in `SoundTypeCorrect`.

## Not modelled

* The right side of the sound: it is computed like the left one, from volumes
  and echo samples of its own (DspMixer), and is absent from the echo's cells.
* SLEEP and STOP: the code ends the process (`InvalidSPCOpcode`).
* Which opcode stands for which form: SpcInstr names the forms of the big
  `switch` and not the 256 numbers; a swapped pair of them would not be seen.
* One bus access at a time in SpcBus, without the instruction around it; the
  composition of SpcInstr with SpcBus, where a block may read a register that
  changes by being read, has more states than TLC can visit at a size where
  anything interesting happens.
* The samples shown in OUTX, which SpcBus lets the DSP set to any value, and
  the debugging output of the DSP.
* `openspc.py` and the example programs, which only call the library; the
  regression test, which compares checksums of whole songs; the register dumps
  of `sneese_spc.c`.

## The plan

Done: the core, in the order of what depends on it: SpcRun and its clock,
SpcCycles, the DSP's voice, envelope and echo, timers, arithmetic,
instructions, bus; then the composition of run loop and CPU, the sound
(decoder, noise, mixer), the rest of the instructions, and proofs of the
refinements of CpuStream and Interleaving, of the sound and of the bus.  Then
proofs of the timer's and the delay line's refinements, of the interpolation's
window, of the locality of writes, of all of the arithmetic, and of the
instructions as one step.

Next: SpcInstr over the memory map of SpcBus, where an access may change what
the next one finds: the places of the proof would stay what they are, and
`XGoes` would have to follow the registers.
