------------------------------ MODULE DspEcho -------------------------------
(***************************************************************************)
(* The echo unit of DSP_Update (dsp.c:573-687): each update reads the cell  *)
(* of SPC RAM under echo_ptr into the FIR filter's ring and, unless writing *)
(* is off, replaces it by the new echo.  The song rewrites the registers    *)
(* and the memory between any two updates.                                  *)
(*                                                                         *)
(* A cell is the four bytes of a stereo sample.  Addresses count cells: the *)
(* code's are multiples of four.  What the mixer computes is any sample.    *)
(***************************************************************************)
EXTENDS Integers

CONSTANTS
  Sample, Zero,   \* the values of a cell; Zero is silence
  Cells,          \* cells of RAM: 0x10000 / 4
  PageCells,      \* cells between two values of ESA: 0x100 / 4
  StepCells,      \* cells between two values of EDL: 0x800 / 4
  Steps,          \* EDL counts modulo this: & 0xF
  EdlValues,      \* values of the EDL register
  RingTaps,       \* places of the FIR ring: 8
  Images          \* memory images a song may be loaded with

Cell == 0 .. Cells - 1
EsaValues == {e \in Cell : e * PageCells < Cells}

ASSUME EchoAssumption ==
  /\ Zero \in Sample
  /\ Cells \in Nat \ {0} /\ PageCells \in Nat \ {0}
  /\ StepCells \in Nat \ {0} /\ Steps \in Nat \ {0}
  /\ (Steps - 1) * StepCells <= Cells
  /\ EdlValues \subseteq Nat
  /\ RingTaps \in Nat \ {0}
  /\ Images \subseteq [Cell -> Sample]

VARIABLES
  ram,       \* SPC_RAM
  esa, edl,  \* DSPregs[0x6D], DSPregs[0x7D]
  reset,     \* bit 7 of FLG (DSPregs[0x6C])
  frozen,    \* bit 5 of FLG: no echo is written
  echo_ptr,  \* echo_ptr
  fir,       \* FIRlbuf, FIRrbuf
  firptr,    \* FIRptr
  since      \* history: "new" (context made, load to come), "resized" (EDL
             \*   written after the last update) or "steady"

regs == <<esa, edl, reset, frozen>>
vars == <<ram, regs, echo_ptr, fir, firptr, since>>

NoEcho == [i \in 0 .. RingTaps - 1 |-> Zero]

(* A new context: the registers as an earlier song left them, and what
   DSP_Reset sets. *)
Init ==
  /\ ram \in Images
  /\ esa \in EsaValues /\ edl \in EdlValues
  /\ reset = TRUE /\ frozen = TRUE
  /\ echo_ptr = 0 /\ fir = NoEcho /\ firptr = 0
  /\ since = "new"

-----------------------------------------------------------------------------
(* echo_base: where echo_ptr stands in RAM. *)
CellAt(base, ptr) == (base * PageCells + ptr) % Cells

\* mutant: EDL is not masked
EchoLen_Unmasked(d) == d * StepCells
(* The cells that EDL asks for. *)
EchoLen(d) == (d % Steps) * StepCells

\* mutant: the comparison is strict
NextPtr_Late(ptr) == IF ptr + 1 > EchoLen(edl) THEN 0 ELSE ptr + 1
NextPtr(ptr) == IF ptr + 1 >= EchoLen(edl) THEN 0 ELSE ptr + 1

\* mutant: the ring's pointer is not masked
AfterTaps_Unmasked(p) == p + (RingTaps - 1)
\* mutant: the filter walks the whole ring
AfterTaps_WholeTurn(p) == (p + RingTaps) % RingTaps
(* The filter walks the ring from the newest sample and stops one place
   short of a whole turn: at the oldest one. *)
AfterTaps(p) == (p + (RingTaps - 1)) % RingTaps

(* The reset bit makes an update start with DSP_Reset. *)
PtrSeen == IF reset THEN 0 ELSE echo_ptr
FirSeen == IF reset THEN NoEcho ELSE fir
FirPtrSeen == IF reset THEN 0 ELSE firptr

Update(s) ==
  LET at == CellAt(esa, PtrSeen) IN
  /\ fir' = [FirSeen EXCEPT ![FirPtrSeen] = ram[at]]
  /\ firptr' = AfterTaps(FirPtrSeen)
  /\ frozen' = (frozen \/ reset)
  /\ ram' = IF frozen' THEN ram ELSE [ram EXCEPT ![at] = s]
  /\ echo_ptr' = NextPtr(PtrSeen)
  /\ since' = "steady"
  /\ UNCHANGED <<esa, edl, reset>>

-----------------------------------------------------------------------------
(* The song, between two updates. *)
WriteEsa(e) ==
  /\ esa' = e
  /\ UNCHANGED <<ram, edl, reset, frozen, echo_ptr, fir, firptr, since>>

WriteEdl(d) ==
  /\ edl' = d /\ since' = "resized"
  /\ UNCHANGED <<ram, esa, reset, frozen, echo_ptr, fir, firptr>>

WriteFlg(r, f) ==
  /\ reset' = r /\ frozen' = f
  /\ UNCHANGED <<ram, esa, edl, echo_ptr, fir, firptr, since>>

WriteRam(c, s) ==
  /\ ram' = [ram EXCEPT ![c] = s]
  /\ UNCHANGED <<regs, echo_ptr, fir, firptr, since>>

(* Load: the length is not masked, and stops at the end of RAM. *)
ClearEnd(e, d) ==
  LET end == e * PageCells + d * StepCells IN IF end > Cells THEN Cells ELSE end

Cleared(img, e, d) ==
  [c \in Cell |-> IF e * PageCells <= c /\ c < ClearEnd(e, d) THEN Zero
                                                             ELSE img[c]]

(* A context is loaded once: registers and memory are the file's.  When the
   load fails, they stay. *)
LoadSong(img, e, d, clear_echo) ==
  /\ since = "new"
  /\ esa' = e /\ edl' = d
  /\ reset' \in BOOLEAN /\ frozen' \in BOOLEAN
  /\ ram' = IF clear_echo THEN Cleared(img, e, d) ELSE img
  /\ since' = "steady"
  /\ UNCHANGED <<echo_ptr, fir, firptr>>

LoadFails ==
  /\ since = "new" /\ since' = "steady"
  /\ UNCHANGED <<ram, regs, echo_ptr, fir, firptr>>

Load ==
  \E img \in Images, e \in EsaValues, d \in EdlValues, c \in BOOLEAN :
    LoadSong(img, e, d, c)

Write ==
  \/ \E e \in EsaValues : WriteEsa(e)
  \/ \E d \in EdlValues : WriteEdl(d)
  \/ \E r, f \in BOOLEAN : WriteFlg(r, f)
  \/ \E c \in Cell, s \in Sample : WriteRam(c, s)

Next ==
  \/ Load
  \/ LoadFails
  \/ since # "new" /\ Write
  \/ since # "new" /\ \E s \in Sample : Update(s)

Spec == Init /\ [][Next]_vars

-----------------------------------------------------------------------------
(* The region the registers describe: EDL steps, or one cell when EDL is 0
   (the pointer is set back after each update), around the end of RAM. *)
PeriodOf(d) == IF d % Steps = 0 THEN 1 ELSE (d % Steps) * StepCells
Period == PeriodOf(edl)
Region == {CellAt(esa, p) : p \in 0 .. Period - 1}

(* The echo pointer is within any region EDL can ask for, and the ring's
   pointer within the ring. *)
TypeOK ==
  /\ ram \in [Cell -> Sample]
  /\ esa \in EsaValues /\ edl \in EdlValues
  /\ reset \in BOOLEAN /\ frozen \in BOOLEAN
  /\ echo_ptr \in Cell
  /\ fir \in [0 .. RingTaps - 1 -> Sample] /\ firptr \in 0 .. RingTaps - 1
  /\ since \in {"new", "resized", "steady"}

(* Outside its region the pointer stands only when EDL was shrunk under it,
   and one update brings it back: nothing else makes the echo go astray. *)
PtrInRegion == since # "resized" => echo_ptr < Period

(* An update leaves the song's memory alone, but for the region. *)
OnlyRegionWritten ==
  [][since # "resized" =>
       \A c \in Cell \ Region :
         (\E s \in Sample : Update(s)) => ram'[c] = ram[c]]_vars

(* The echo is a delay line of Period samples, one sample of another place
   being heard after a change of EDL at most, and the filter weighs the
   samples heard last in their order: "FIRptr is left in the position of the
   oldest sample, the one that will be replaced next update" (dsp.c:638). *)
Start == IF echo_ptr < Period THEN echo_ptr ELSE 0
Line == INSTANCE EchoLine WITH
  line <- [i \in 1 .. Period |-> ram[CellAt(esa, (Start + i - 1) % Period)]],
  taps <- [i \in 1 .. RingTaps |-> fir[(firptr + i) % RingTaps]],
  Taps <- RingTaps,
  astray <- echo_ptr >= Period
DelayLine == Line!Spec

(* "If true, the echo region in SPC RAM will be cleared after state loading"
   (main.cc:55): what the unit is about to hear of a song just loaded with
   clear_echo is silence, and the rest of its memory is as in the file. *)
LoadClearsEcho ==
  [][\A img \in Images : LoadSong(img, esa', edl', TRUE) =>
       \A c \in Cell : ram'[c] = IF c \in Region' THEN Zero ELSE img[c]]_vars
=============================================================================
