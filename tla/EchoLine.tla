------------------------------ MODULE EchoLine ------------------------------
(***************************************************************************)
(* What the echo unit promises to those who listen: a delay line.  Each     *)
(* update hears the sample at its head and enters one at its tail, and the  *)
(* filter sees the samples heard last, newest first.  Whoever moves the     *)
(* line (the song writes a register or its memory) may leave one stray      *)
(* sample to be heard before the line proper.                               *)
(***************************************************************************)
EXTENDS Sequences, Naturals

CONSTANTS Sample, Zero, Taps

VARIABLES
  line,    \* the samples to be heard, the next one first
  taps,    \* the samples the filter weighs, newest first
  astray   \* the next sample heard is not one of the line

Silence == [i \in 1 .. Taps |-> Zero]
Lines == Seq(Sample) \ {<<>>}

Init ==
  /\ line \in Lines
  /\ taps = Silence
  /\ astray = FALSE

Shift(s) == taps' = <<s>> \o SubSeq(taps, 1, Taps - 1)

Hear(s) ==
  /\ ~astray
  /\ Shift(Head(line))
  /\ line' = Append(Tail(line), s)
  /\ UNCHANGED astray

(* Writing is off: what was heard stays. *)
HearAgain == Hear(Head(line))

HearStray ==
  /\ astray
  /\ \E s \in Sample : Shift(s)
  /\ astray' = FALSE
  /\ UNCHANGED line

Move ==
  /\ line' \in Lines
  /\ astray' \in BOOLEAN
  /\ UNCHANGED taps

(* The unit is reset: it forgets what it heard. *)
Restart ==
  /\ line' \in Lines
  /\ astray' = FALSE
  /\ taps' = Silence \/ \E s \in Sample : taps' = [Silence EXCEPT ![1] = s]

Next ==
  \/ \E s \in Sample : Hear(s)
  \/ HearAgain \/ HearStray \/ Move \/ Restart

Spec == Init /\ [][Next]_<<line, taps, astray>>
=============================================================================
