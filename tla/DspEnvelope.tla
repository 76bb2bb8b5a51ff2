---------------------------- MODULE DspEnvelope ----------------------------
(***************************************************************************)
(* The envelope of a voice: AdvanceEnvelope (dsp.c:739-1056), once per      *)
(* sample while the voice is keyed, with the numbers of the code.  The CPU  *)
(* may rewrite the ADSR and GAIN registers between any two updates, and key *)
(* the voice off or on again in any state.                                  *)
(***************************************************************************)
EXTENDS DspRates

CONSTANT Settings   \* values of the registers: [adsr1, adsr2, gain], bytes

Byte == 0 .. 255

ASSUME SettingsAssumption ==
  Settings \subseteq [adsr1 : Byte, adsr2 : Byte, gain : Byte]

EnvMax == 2047                  \* 0x7FF

VARIABLES
  set,       \* the voice's ADSR and GAIN registers
  keyed,     \* the voice's bit of keys
  envstate,  \* "ATTACK", "DECAY", "SUSTAIN" or "RELEASE"
  envx,      \* envx
  envcnt,    \* envcnt
  shown,     \* what AdvanceEnvelope has last put in the ENVX register
  since_off  \* history: updates since the voice was keyed off

envVars == <<set, keyed, envstate, envx, envcnt, shown, since_off>>

EnvInit ==
  /\ set \in Settings
  /\ keyed = FALSE /\ envstate = "ATTACK"
  /\ envx = 0 /\ envcnt = CntInit /\ shown = 0
  /\ since_off = 0

-----------------------------------------------------------------------------
(* The fields of the registers. *)
AdsrMode == set.adsr1 >= 128
AttackRate == set.adsr1 % 16
DecayRate == (set.adsr1 \div 16) % 8
SustainLevel == set.adsr2 \div 32           \* SL
SustainRate == set.adsr2 % 32               \* SR
GainMode == set.gain \div 32
GainRate == set.gain % 32

(* Between two updates. *)
WriteRegs(s) ==
  /\ set' = s
  /\ UNCHANGED <<keyed, envstate, envx, envcnt, shown, since_off>>

KeyedOn ==
  /\ keyed' = TRUE /\ envstate' = "ATTACK"
  /\ envx' = 0 /\ envcnt' = CntInit
  /\ since_off' = 0
  /\ UNCHANGED <<set, shown>>

KeyedOff ==
  /\ keyed /\ envstate # "RELEASE"
  /\ envstate' = "RELEASE"
  /\ UNCHANGED <<set, keyed, envx, envcnt, shown, since_off>>

-----------------------------------------------------------------------------
(* RELEASE is handled first, whatever the mode. *)
InRelease == envstate = "RELEASE"

\* mutant: half the step of a release
ReleaseTo_Slow == envx - 4
ReleaseTo == envx - 8

Release ==
  /\ keyed /\ InRelease
  /\ IF ReleaseTo <= 0
       THEN keyed' = FALSE /\ UNCHANGED <<envx, shown>>
       ELSE envx' = ReleaseTo /\ shown' = ReleaseTo \div 256 /\ UNCHANGED keyed
  /\ since_off' = since_off + 1
  /\ UNCHANGED <<set, envstate, envcnt>>

(* The other branches end with the counter stored and ENVX shown. *)
Advance == keyed /\ ~InRelease
Show == shown' = envx' \div 16 /\ UNCHANGED <<set, keyed, since_off>>

(* Counted by envcnt at rate r: due once it has run out. *)
IsDue(r) == envcnt - Rate(r) <= 0
Count(r) == envcnt' = IF IsDue(r) THEN CntInit ELSE envcnt - Rate(r)

\* mutant: off by one in the clipping
ClipUp_Over(x) == IF x > EnvMax + 1 THEN EnvMax ELSE x
ClipUp(x) == IF x > EnvMax THEN EnvMax ELSE x
ClipDown(x) == IF x < 0 THEN 0 ELSE x

\* mutant: the exponential step without its last one
ExpDown_Plain == envx - ((envx - 1) \div 256)
(* envx -= ((envx - 1) >> 8) + 1 *)
ExpDown == envx - ((envx - 1) \div 256 + 1)

(* envx rises by that much, and at the top the attack is over. *)
Rise(up) ==
  /\ envx' = ClipUp(envx + up)
  /\ envstate' = IF envx + up > EnvMax THEN "DECAY" ELSE "ATTACK"

AttackAtOnce ==
  /\ Advance /\ AdsrMode /\ envstate = "ATTACK" /\ AttackRate = 15
  /\ Rise(1024)
  /\ UNCHANGED envcnt
  /\ Show

Attack ==
  /\ Advance /\ AdsrMode /\ envstate = "ATTACK" /\ AttackRate < 15
  /\ Count(2 * AttackRate + 1)
  /\ IF IsDue(2 * AttackRate + 1) THEN Rise(32) ELSE UNCHANGED <<envx, envstate>>
  /\ Show

\* mutant: the fall ends on the sustain level, which may have been raised
DecayTo_Clamped ==
  IF ExpDown < 256 * (SustainLevel + 1) THEN 256 * (SustainLevel + 1) - 1 ELSE ExpDown
DecayTo == ExpDown

Decay ==
  /\ Advance /\ AdsrMode /\ envstate = "DECAY"
  /\ Count(2 * DecayRate + 16)
  /\ envx' = IF IsDue(2 * DecayRate + 16) THEN DecayTo ELSE envx
  /\ envstate' = IF envx' <= 256 * (SustainLevel + 1) THEN "SUSTAIN" ELSE "DECAY"
  /\ Show

Sustain ==
  /\ Advance /\ AdsrMode /\ envstate = "SUSTAIN"
  /\ Count(SustainRate)
  /\ envx' = IF IsDue(SustainRate) THEN ExpDown ELSE envx
  /\ UNCHANGED envstate
  /\ Show

GainDirect ==
  /\ Advance /\ ~AdsrMode /\ set.gain < 128
  /\ envx' = set.gain * 16
  /\ UNCHANGED <<envcnt, envstate>>
  /\ Show

(* The four moving GAIN modes: down by 1/64, down exponentially, up by 1/64,
   and up along a bent line. *)
GainTo ==
  CASE GainMode = 4 -> ClipDown(envx - 32)
    [] GainMode = 5 -> ExpDown
    [] GainMode = 6 -> ClipUp(envx + 32)
    [] OTHER        -> ClipUp(envx + (IF envx < 1536 THEN 32 ELSE 8))

GainMoving ==
  /\ Advance /\ ~AdsrMode /\ set.gain >= 128
  /\ Count(GainRate)
  /\ envx' = IF IsDue(GainRate) THEN GainTo ELSE envx
  /\ UNCHANGED envstate
  /\ Show

AdvanceEnvelope ==
  \/ Release \/ AttackAtOnce \/ Attack \/ Decay \/ Sustain
  \/ GainDirect \/ GainMoving

EnvNext ==
  \/ AdvanceEnvelope \/ KeyedOn \/ KeyedOff
  \/ \E s \in Settings : WriteRegs(s)

EnvSpec == EnvInit /\ [][EnvNext]_envVars

-----------------------------------------------------------------------------
(* The envelope stays in its 11 bits, its counter above 0 and ENVX in its 7
   bits, whichever branch is taken with whichever registers. *)
EnvTypeOK ==
  /\ set \in Settings
  /\ keyed \in BOOLEAN
  /\ envstate \in {"ATTACK", "DECAY", "SUSTAIN", "RELEASE"}
  /\ envx \in 0 .. EnvMax
  /\ envcnt \in 1 .. CntInit
  /\ shown \in 0 .. 127
  /\ since_off \in Nat

(* After the attack an envelope only falls, unless GAIN moves it; a released
   one falls whatever GAIN says ("Handled earlier to prevent GAIN mode from
   stopping KEY OFF events", dsp.c:903-905). *)
NeverRises ==
  [][(envstate \in {"DECAY", "SUSTAIN"} /\ AdsrMode) \/ envstate = "RELEASE"
        => envx' <= envx]_envVars

(* A voice keyed off is silent within 256 updates: 1/256 of the full level
   each (dsp.c:755-761). *)
ReleaseBounded == keyed => since_off <= 255

(* The exponential fall does not stop short of silence, though its step is a
   fraction of the level: every step that is due takes something off the
   envelope until it is 0, and the arithmetic shift of -1 keeps it there. *)
FallsToZero ==
  [][Sustain /\ IsDue(SustainRate) =>
       envx' < envx \/ (envx = 0 /\ envx' = 0)]_envVars
=============================================================================
