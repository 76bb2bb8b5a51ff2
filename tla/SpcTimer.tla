------------------------------ MODULE SpcTimer ------------------------------
(***************************************************************************)
(* A timer of the SPC700 core (spc700.c): it is brought up to date only     *)
(* when the program accesses it (Update_SPC_Timer), from the cycle counter  *)
(* and the latch that says up to when it has been counted, in arithmetic of *)
(* unsigned words.                                                          *)
(***************************************************************************)
EXTENDS Integers

CONSTANTS
  Word,          \* 2^32
  Half,          \* 2^31
  WrapBy,        \* 0xF0000000
  Tick,          \* BIT(shift): 128, or 16 for timer 2
  TargetMax,     \* 256
  CounterMod,    \* 16
  ResetCycles,   \* _TotalCycles after Reset_SPC
  NoRead,
  LowerTargets   \* may the program set a target at or below the position?

ASSUME TimerAssumption ==
  /\ Half \in Nat /\ Word = 2 * Half /\ WrapBy \in 0 .. Word - 1
  /\ Tick \in Nat \ {0} /\ Word % Tick = 0 /\ WrapBy % Tick = 0
  /\ TargetMax \in Nat \ {0} /\ CounterMod \in Nat \ {0}
  /\ 2 * TargetMax < Word /\ Word % CounterMod = 0
  /\ ResetCycles \in 0 .. Tick - 1
  /\ NoRead \notin 0 .. CounterMod - 1
  /\ LowerTargets \in BOOLEAN

VARIABLES
  total,      \* _TotalCycles at the current access
  on,         \* the timer's bit of SPC_CTRL
  latch,      \* cycle_latch
  position,   \* position, a signed 16 bit number
  target,     \* target, 1 .. 256
  counter,    \* counter
  out         \* history: the counter read by the last step

vars == <<total, on, latch, position, target, counter, out>>

ToWord(x) == IF x < 0 THEN x + Word ELSE IF x >= Word THEN x - Word ELSE x

(* Reset_SPC, then SetState with what the loaded image says was active. *)
Init ==
  /\ total = ResetCycles /\ latch = 0
  /\ on \in BOOLEAN
  /\ position = 0
  /\ target \in 1 .. TargetMax
  /\ counter \in 0 .. CounterMod - 1
  /\ out = NoRead

-----------------------------------------------------------------------------
(* Update_SPC_Timer.  p is unsigned; a stored position is below the target,
   so that it fits in its 16 bits. *)
Cycles == ToWord(total - latch)
Ticks == Cycles \div Tick

Latched == ToWord(latch + Ticks * Tick)

Unsigned(x) == IF x < 0 THEN x + Word ELSE x

(* uint8_t += and then & 0x0F *)
Raise(c, n) == (c + n) % CounterMod

Updated ==
  LET p == Unsigned(position + Ticks)
  IN  IF on
        THEN IF p < target
               THEN [position |-> p, counter |-> counter]
               ELSE [position |-> p % target,
                     counter |-> Raise(counter, p \div target)]
        ELSE [position |-> position, counter |-> counter]

-----------------------------------------------------------------------------
(* The program leaves no timer unused for as long as the cycle counter needs
   to wrap around (2^32 cycles, over an hour): IdleBound. *)
IdleBound == Cycles < Word - 1

Advance ==
  /\ IdleBound
  /\ total' = ToWord(total + 1)
  /\ out' = NoRead
  /\ UNCHANGED <<on, latch, position, target, counter>>

\* mutant: the latch is not moved back with the counter
LatchWrapped_Kept == latch
LatchWrapped == ToWord(latch - WrapBy)

(* Wrap_SPC_Cyclecounter *)
Wrap ==
  /\ total >= Half
  /\ total' = ToWord(total - WrapBy)
  /\ latch' = LatchWrapped
  /\ out' = NoRead
  /\ UNCHANGED <<on, position, target, counter>>

(* SPC_READ_COUNTER *)
ReadCounter ==
  /\ latch' = Latched
  /\ position' = Updated.position
  /\ out' = Updated.counter
  /\ counter' = 0
  /\ UNCHANGED <<total, on, target>>

(* spc_start_timer: total & mask *)
StartLatch == total - (total % Tick)

(* SPC_WRITE_CTRL: a timer starts when its bit is raised; when it is cleared
   the timer is not brought up to date first. *)
WriteCtrl(bit) ==
  /\ IF ~on /\ bit
       THEN latch' = StartLatch /\ position' = 0 /\ counter' = 0
       ELSE UNCHANGED <<latch, position, counter>>
  /\ on' = bit
  /\ out' = NoRead
  /\ UNCHANGED <<total, target>>

(* SPC_WRITE_TIMER *)
TargetOf(data) == IF data = 0 THEN TargetMax ELSE data

WriteSameTarget(data) ==
  /\ target % TargetMax = data
  /\ out' = NoRead
  /\ UNCHANGED <<total, on, latch, position, target, counter>>

Lowered(t, p) == IF t <= p THEN p - TargetMax ELSE p

WriteTarget(data) ==
  /\ target % TargetMax # data
  /\ on /\ ~LowerTargets => TargetOf(data) > Updated.position
  /\ target' = TargetOf(data)
  /\ latch' = Latched
  /\ counter' = Updated.counter
  /\ position' = Lowered(TargetOf(data), Updated.position)
  /\ out' = NoRead
  /\ UNCHANGED <<total, on>>

Next ==
  \/ Advance \/ Wrap \/ ReadCounter
  \/ \E bit \in BOOLEAN : WriteCtrl(bit)
  \/ \E data \in 0 .. TargetMax - 1 : WriteSameTarget(data) \/ WriteTarget(data)

Spec == Init /\ [][Next]_vars

-----------------------------------------------------------------------------
(* The latch is always on a tick, and a running timer's position is below its
   target; one that is off may have been set back by a turn. *)
TypeOK ==
  /\ total \in 0 .. Word - 1
  /\ latch \in 0 .. Word - 1 /\ latch % Tick = 0
  /\ on \in BOOLEAN
  /\ target \in 1 .. TargetMax
  /\ position \in -TargetMax .. target - 1
  /\ on => position >= 0
  /\ counter \in 0 .. CounterMod - 1
  /\ out \in {NoRead} \cup 0 .. CounterMod - 1

(* The lazy timer is the timer that counts every cycle: whenever the program
   reads the counter or moves the target, it finds what has been counted, in
   spite of the wraps, of the unfinished ticks carried over by the latch and
   of several targets passed at once.  position and counter are what the last
   access left; what a timer that counts every cycle would hold is: *)
Due == position + (IF on THEN Ticks ELSE 0)
DuePosition == IF Due < target THEN Due ELSE Due % target
DueCounter ==
  IF Due < target THEN counter ELSE (counter + Due \div target) % CounterMod
Hw == INSTANCE TimerHw WITH
        phase <- total % Tick,
        pos <- DuePosition, cnt <- DueCounter,
        pos0 <- position, cnt0 <- counter
LikeHardware == Hw!Spec
=============================================================================
