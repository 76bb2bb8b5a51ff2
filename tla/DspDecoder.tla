----------------------------- MODULE DspDecoder -----------------------------
(***************************************************************************)
(* How a voice gets its sample: the decoding of the compressed (BRR)        *)
(* samples and the interpolation between the last four of them              *)
(* (dsp.c:316-531), with the numbers of the code.  DspVoice has the control *)
(* around it: when a note starts, which block follows which, how many       *)
(* samples are due.  Here a note is any sequence of headers and half bytes. *)
(*                                                                         *)
(* A second voice, the ghost, plays the same note after another past: the   *)
(* history of the filters is reset neither by a key-on nor by a load.       *)
(***************************************************************************)
EXTENDS Integers

CONSTANTS
  Gauss,         \* the table gauss[] of gauss.h
  Headers,       \* [range, filter]: headers of blocks
  BlockSamples,  \* samples of a block: 16
  Nibbles,       \* half bytes of a block, as signed numbers
  Histories,     \* [smp1, smp2]: what notes played before may leave
  Positions,     \* mixfrac >> 4 when a sample is interpolated
  MaxDue,        \* samples an update moves on by, at most: 8
  MaxAge         \* bound: samples decoded

Min16 == -32768
Max16 == 32767
Bits16 == Min16 .. Max16

Turn == 256                  \* positions from one sample to the next
Position == -Turn .. -1

(* The weights of the four samples of the window, oldest first, at position
   pos: G4[-vl], G3[-vl], G2[vl] and G1[vl] of vl = pos. *)
Weights(pos) ==
  <<Gauss[-1 - pos], Gauss[255 - pos], Gauss[512 + pos], Gauss[256 + pos]>>

WeightSum(pos) ==
  Weights(pos)[1] + Weights(pos)[2] + Weights(pos)[3] + Weights(pos)[4]

ASSUME GaussAssumption ==
  /\ Gauss \in [0 .. 2 * Turn - 1 -> Nat]
  /\ \A pos \in Position : WeightSum(pos) \in 2047 .. 2049

ASSUME DecoderAssumption ==
  /\ Headers \subseteq [range : 0 .. 15, filter : 0 .. 3]
  /\ BlockSamples \in Nat \ {0}
  /\ Nibbles \subseteq -8 .. 7
  /\ \A h \in Histories :
       /\ h \in [smp1 : Bits16, smp2 : Bits16]
       /\ h.smp1 % 2 = 0 /\ h.smp2 % 2 = 0
  /\ Positions \subseteq Position
  /\ MaxDue \in Nat /\ MaxAge \in Nat

VARIABLES
  step,     \* where the update is: "start", "decode", "mix"
  on,       \* the voice's bit of keys
  header,   \* range, filter
  left,     \* samples of the block to come: header_cnt and half
  hist,     \* smp1, smp2
  window,   \* sampbuf from sampptr on: the last four samples, oldest first
  due,      \* samples to decode in this update: what mixfrac asks for
  outx,     \* outx after the interpolation
  ghost,    \* history: smp1, smp2 of the ghost
  known,    \* history: how many of them the note alone has determined, to 2
  age       \* history: samples decoded

decVars == <<step, on, header, left, hist, window, due, outx, ghost, known, age>>

Window == 1 .. 4

DecInit ==
  /\ step = "start" /\ on = FALSE
  /\ header = [range |-> 0, filter |-> 0] /\ left = 0
  /\ hist \in Histories /\ ghost \in Histories
  /\ window = [k \in Window |-> 0]
  /\ due = 0 /\ outx = 0 /\ known = 0 /\ age = 0

-----------------------------------------------------------------------------
(* Integers of C, and its shifts: an arithmetic shift to the right is a
   division that rounds down. *)
Wrap16(x) == ((x + 32768) % 65536) - 32768
Clip16(x) == IF x < Min16 THEN Min16 ELSE IF x > Max16 THEN Max16 ELSE x

(* 1 << range *)
Power == <<1, 2, 4, 8, 16, 32, 64, 128, 256, 512, 1024, 2048, 4096>>

(* The half byte as a difference of half the size: "shifted right once to do
   the filters properly".  Ranges 13 to 15 leave its sign only. *)
Delta(n, range) ==
  IF range <= 12 THEN (n * Power[range + 1]) \div 2 ELSE IF n < 0 THEN -2048 ELSE 0

\* mutant: the sample is shifted before it is negated
Filter1_NegatesLate(p1) == p1 \div 2 - p1 \div 32
Filter1(p1) == p1 \div 2 + (-p1) \div 32
Filter2(p1, p2) ==
  p1 + (-(p1 + p1 \div 2)) \div 32 - p2 \div 2 + p2 \div 32
Filter3(p1, p2) ==
  p1 + (-(13 * p1)) \div 128 - p2 \div 2 + (p2 + p2 \div 2) \div 16

(* What the samples before add to the next one, at half the size. *)
Filter(f, p1, p2) == <<0, Filter1(p1), Filter2(p1, p2), Filter3(p1, p2)>>[f + 1]

\* mutant: the older sample is kept
Decoded_Kept(n, hd, h) ==
  [smp1 |-> Wrap16(2 * Clip16(Delta(n, hd.range)
                              + Filter(hd.filter, h.smp1, h.smp2))),
   smp2 |-> h.smp2]
(* The history after the next sample, which is its smp1: clipped at half the
   size, and doubled without a look at what that makes of it. *)
Decoded(n, hd, h) ==
  [smp1 |-> Wrap16(2 * Clip16(Delta(n, hd.range)
                              + Filter(hd.filter, h.smp1, h.smp2))),
   smp2 |-> h.smp1]

(* The samples a filter looks back to; known samples stay known when it looks
   no further. *)
LooksBack(f) == IF f <= 1 THEN f ELSE 2
KnownAfter(f) ==
  IF LooksBack(f) > known THEN 0 ELSE IF known = 2 THEN 2 ELSE known + 1

Shifted(s) == [k \in Window |-> IF k = 4 THEN s ELSE window[k + 1]]

-----------------------------------------------------------------------------
(* The beginning of an update: a note starts, or one goes on. *)
KeyOn ==
  /\ step = "start" /\ age + 4 <= MaxAge
  /\ step' = "decode" /\ on' = TRUE
  /\ left' = 0 /\ due' = 4
  /\ ghost' \in Histories /\ known' = 0
  /\ UNCHANGED <<header, hist, window, outx, age>>

NextUpdate ==
  /\ step = "start" /\ on
  /\ step' = "decode"
  /\ UNCHANGED <<on, header, left, hist, window, due, outx, ghost, known, age>>

(* A voice that is off: nothing is decoded, and its sample is 0. *)
SilentUpdate ==
  /\ step = "start" /\ ~on
  /\ outx' = 0
  /\ UNCHANGED <<step, on, header, left, hist, window, due, ghost, known, age>>

(* A header is read when a sample of its block is due. *)
ReadHeader(hd) ==
  /\ step = "decode" /\ due > 0 /\ left = 0
  /\ header' = hd /\ left' = BlockSamples
  /\ UNCHANGED <<step, on, hist, window, due, outx, ghost, known, age>>

Decode(n) ==
  /\ step = "decode" /\ due > 0 /\ left > 0
  /\ hist' = Decoded(n, header, hist)
  /\ ghost' = Decoded(n, header, ghost)
  /\ known' = KnownAfter(header.filter)
  /\ window' = Shifted(hist'.smp1)
  /\ left' = left - 1 /\ due' = due - 1 /\ age' = age + 1
  /\ UNCHANGED <<step, on, header, outx>>

(* The sample ends: zeroes for all that is still due. *)
EndOfSample ==
  /\ step = "decode" /\ due > 0 /\ left = 0
  /\ on' = FALSE
  /\ window' = [k \in Window |-> IF k + due <= 4 THEN window[k + due] ELSE 0]
  /\ due' = 0
  /\ UNCHANGED <<step, header, left, hist, outx, ghost, known, age>>

DecodeDone ==
  /\ step = "decode" /\ due = 0
  /\ step' = "mix"
  /\ UNCHANGED <<on, header, left, hist, window, due, outx, ghost, known, age>>

Term(k, pos) == 2 * ((Weights(pos)[k] * window[k]) \div 4096)

\* mutant: G3 starts where G1 does
Interpolated_Skewed(pos) ==
  Clip16(Wrap16(Term(1, pos)
                + 2 * ((Gauss[256 + pos] * window[2]) \div 4096)
                + Term(3, pos))
         + Term(4, pos))
(* "Clipping is done only if it is the fourth addition that would cause a
   wrap.  If it has already wrapped before, it is not clipped." *)
Interpolated(pos) ==
  Clip16(Wrap16(Term(1, pos) + Term(2, pos) + Term(3, pos)) + Term(4, pos))

Interpolate(pos, d) ==
  /\ step = "mix" /\ step' = "start"
  /\ age + d <= MaxAge
  /\ outx' = Interpolated(pos)
  /\ due' = d
  /\ UNCHANGED <<on, header, left, hist, window, ghost, known, age>>

DecNext ==
  \/ KeyOn \/ NextUpdate \/ SilentUpdate
  \/ \E hd \in Headers : ReadHeader(hd)
  \/ \E n \in Nibbles : Decode(n)
  \/ EndOfSample \/ DecodeDone
  \/ \E pos \in Positions, d \in 0 .. MaxDue : Interpolate(pos, d)

DecSpec == DecInit /\ [][DecNext]_decVars

-----------------------------------------------------------------------------
(* Samples have 16 bits, the last of them 0 in those of the decoder, whatever
   the header says and however many are due. *)
DecTypeOK ==
  /\ step \in {"start", "decode", "mix"} /\ on \in BOOLEAN
  /\ header \in [range : 0 .. 15, filter : 0 .. 3]
  /\ left \in 0 .. BlockSamples
  /\ hist \in [smp1 : Bits16, smp2 : Bits16]
  /\ hist.smp1 % 2 = 0 /\ hist.smp2 % 2 = 0
  /\ ghost \in [smp1 : Bits16, smp2 : Bits16]
  /\ ghost.smp1 % 2 = 0 /\ ghost.smp2 % 2 = 0
  /\ window \in [Window -> Bits16]
  /\ due \in Nat
  /\ outx \in Bits16
  /\ known \in 0 .. 2 /\ age \in Nat

(* A note does not sound of the one before for longer than its own filters
   look back to it: once a block without a filter has been decoded, the
   history that no key-on resets (dsp.c:250) has no part in it. *)
HistoryForgotten ==
  /\ known >= 1 => hist.smp1 = ghost.smp1
  /\ known = 2 => hist = ghost

(* 128 times what a filter should add: the coefficients the shifts are made
   of, 15/16, 61/32 and -15/16, 115/64 and -13/16, halved as the samples. *)
Ideal(f, p1, p2) == <<0, 60 * p1, 122 * p1 - 60 * p2, 115 * p1 - 52 * p2>>[f + 1]

(* Shifts of negative numbers, negated sums and all, each filter adds its
   coefficients' worth rounded down by less than two (dsp.c:437-459). *)
FilterAccurate ==
  \A f \in 0 .. 3 :
    Ideal(f, hist.smp1, hist.smp2) - 128 * Filter(f, hist.smp1, hist.smp2)
      \in 0 .. 255

(* When nothing wraps: samples up to this size. *)
Loud == 32000

(* The weights of the table do not add up to the same at every position, and
   every product is cut to an even number; still the sample heard is none
   that the four samples around it do not enclose, but for 24 (dsp.c:509-531).
   Nor does the table's largest sum wrap before the last addition. *)
EnclosedBy(x) ==
  /\ \E k \in Window : x <= window[k] + 24
  /\ \E k \in Window : x >= window[k] - 24
WithinWindow ==
  step = "mix" /\ (\A k \in Window : window[k] \in -Loud .. Loud)
    => \A pos \in Positions : EnclosedBy(Interpolated(pos))
=============================================================================
