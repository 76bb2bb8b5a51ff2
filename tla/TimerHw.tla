------------------------------ MODULE TimerHw ------------------------------
(***************************************************************************)
(* One of the three timers of the SPC700 as the program on the CPU sees it. *)
(* A prescaler ticks every Tick cycles; a running timer counts its ticks up *)
(* to the target and then raises a counter of few bits, which reading       *)
(* resets.  Time is counted cycle by cycle here, and nothing is lazy.       *)
(***************************************************************************)
EXTENDS Integers

CONSTANTS
  Tick,        \* cycles per tick: 128, or 16 for timer 2
  TargetMax,   \* 256
  CounterMod,  \* 16
  NoRead       \* what out holds when the last step was not a read

VARIABLES
  phase,       \* the prescaler
  on,          \* the timer's bit of the control register
  pos, target, cnt,
  pos0, cnt0,  \* pos and cnt as the last access to the timer left them
  out          \* the value read by the last step

hwvars == <<phase, on, pos, target, cnt, pos0, cnt0, out>>

Init ==
  /\ phase \in 0 .. Tick - 1
  /\ on \in BOOLEAN /\ target \in 1 .. TargetMax
  /\ pos = 0 /\ pos0 = 0
  /\ cnt \in 0 .. CounterMod - 1 /\ cnt0 = cnt
  /\ out = NoRead

Cycle ==
  /\ phase' = (phase + 1) % Tick
  /\ IF on /\ phase' = 0
       THEN IF pos + 1 = target
              THEN pos' = 0 /\ cnt' = (cnt + 1) % CounterMod
              ELSE pos' = pos + 1 /\ UNCHANGED cnt
       ELSE UNCHANGED <<pos, cnt>>
  /\ out' = NoRead
  /\ UNCHANGED <<on, target, pos0, cnt0>>

Read ==
  /\ out' = cnt
  /\ cnt' = 0 /\ cnt0' = 0
  /\ pos0' = pos
  /\ UNCHANGED <<phase, on, pos, target>>

(* Starting resets the counts, not the prescaler. *)
StartTimer ==
  /\ ~on /\ on' = TRUE
  /\ pos' = 0 /\ cnt' = 0 /\ pos0' = 0 /\ cnt0' = 0
  /\ out' = NoRead
  /\ UNCHANGED <<phase, target>>

(* Stopping forgets the ticks since the last access. *)
StopTimer ==
  /\ on /\ on' = FALSE
  /\ pos' = pos0 /\ cnt' = cnt0
  /\ out' = NoRead
  /\ UNCHANGED <<phase, target, pos0, cnt0>>

(* A target at or below the position is reached after a turn of TargetMax. *)
SetTarget(t) ==
  /\ target' = t
  /\ pos' = IF t <= pos THEN pos - TargetMax ELSE pos
  /\ pos0' = pos' /\ cnt0' = cnt
  /\ out' = NoRead
  /\ UNCHANGED <<phase, on, cnt>>

Nothing == out' = NoRead /\ UNCHANGED <<phase, on, pos, target, cnt, pos0, cnt0>>

Next == \/ Cycle \/ Read \/ StartTimer \/ StopTimer \/ Nothing
        \/ \E t \in 1 .. TargetMax : SetTarget(t)

Spec == Init /\ [][Next]_hwvars
=============================================================================
