------------------------------- MODULE FeedbackPI -------------------------------
(***************************************************************************)
(* The asynchronous-feedback regulator of src/uac2_audio_dma.c: the pump   *)
(* measures the level of the ring, low-passes it, and turns its distance   *)
(* from the target into the rate asked of the host.                        *)
(*                                                                         *)
(* Integers only, as in the code; C's division truncates toward zero.  The *)
(* level is the environment's: anything the ring can hold, at any moment.  *)
(* Time is the number of milliseconds since the last update, up to the     *)
(* clamp of the code; it goes on while the engine is stopped.              *)
(***************************************************************************)
EXTENDS Integers

CONSTANTS
  RingSize,      \* bytes the ring holds
  Levels,        \* ring levels (bytes) the run tries
  Waits,         \* milliseconds between two wake-ups of the pump
  Target,        \* UAC2_FB_TARGET_B
  Deadband,      \* UAC2_FB_DEADBAND_B
  Clamp,         \* UAC2_FB_CLAMP_LSB
  IDiv,          \* byte*ms per unit of rate (32768)
  IOut,          \* most the integrator contributes (4096)
  PDiv,          \* bytes per unit of rate (4)
  FDiv,          \* time constant of the low-pass, ms (16)
  DtMax,         \* clamp of the measured time, ms (50)
  MaxLate        \* bound: updates in a run that come later than FDiv

ASSUME FeedbackAssumption ==
  /\ RingSize \in Nat /\ Levels \subseteq 0..RingSize /\ Waits \subseteq Nat
  /\ Target \in Nat /\ Deadband \in Nat \ {0}
  /\ Clamp \in Nat /\ IOut < Clamp          \* 4096 and 8192
  /\ IDiv \in Nat \ {0} /\ IOut \in Nat /\ PDiv \in Nat \ {0} /\ FDiv \in Nat \ {0}
  /\ DtMax \in Nat \ {0} /\ MaxLate \in Nat

VARIABLES
  playing,       \* is_playing
  timed,         \* fb_last_valid
  since,         \* milliseconds since fb_last, clamped
  level,         \* what the ring holds
  lvl_filt, istate,
  rate,          \* g_fb_last_ff, relative to nominal
  late           \* updates so far that came later than FDiv

vars == <<playing, timed, since, level, lvl_filt, istate, rate, late>>

Init ==
  /\ playing = FALSE /\ timed = FALSE /\ since = 0
  /\ level = 0 /\ lvl_filt = 0 /\ istate = 0 /\ rate = 0 /\ late = 0

--------------------------------------------------------------------------------
(* C arithmetic.                                                            *)
Quot(a, b) == IF a >= 0 THEN a \div b ELSE -((-a) \div b)
Within(x, lo, hi) == IF x > hi THEN hi ELSE IF x < lo THEN lo ELSE x

I_MAX == IOut * IDiv

(* Deviant: the step of the low-pass is rounded away from zero.             *)
Filtered_RoundsUp(l, dt) ==
  lvl_filt + (IF l >= lvl_filt THEN Quot((l - lvl_filt) * dt, FDiv) + 1
              ELSE Quot((l - lvl_filt) * dt, FDiv) - 1)
Filtered(l, dt) == lvl_filt + Quot((l - lvl_filt) * dt, FDiv)

(* Deviant: the sign of the error is swapped.                               *)
Error_Swapped(f) == IF f - Target \in (1 - Deadband)..(Deadband - 1) THEN 0 ELSE f - Target
Error(f) == IF Target - f \in (1 - Deadband)..(Deadband - 1) THEN 0 ELSE Target - f

OpenLoop(e, i) == Quot(e, PDiv) + Quot(i, IDiv)

(* Deviant: the integrator never stops.                                     *)
Frozen_Never(e) == FALSE
(* The integrator stops while the output is on the rail the error pushes to.*)
Frozen(e) ==
  \/ OpenLoop(e, istate) >= Clamp /\ e > 0
  \/ OpenLoop(e, istate) <= -Clamp /\ e < 0

(* Deviant: the integrator has no limit of its own.                         *)
Integrated_NoLimit(e, dt) == IF Frozen(e) THEN istate ELSE istate + e * dt
Integrated(e, dt) ==
  IF Frozen(e) THEN istate ELSE Within(istate + e * dt, -I_MAX, I_MAX)

(* Deviant: the sum is not limited to the authority of the loop.            *)
Limited_Not(x) == x
Limited(x) == Within(x, -Clamp, Clamp)

--------------------------------------------------------------------------------
Fresh(dt) == IF dt > FDiv THEN late < MaxLate /\ late' = late + 1 ELSE UNCHANGED late

Update(dt) ==
  LET f == Filtered(level, dt)
      e == Error(f)
      i == Integrated(e, dt)
  IN /\ Fresh(dt)
     /\ lvl_filt' = f /\ istate' = i
     /\ rate' = Limited(OpenLoop(e, i))

(* One wake-up of the pump, w milliseconds after the one before.            *)
Measured(w) == IF timed THEN Within(since + w, 0, DtMax) ELSE 0

WakePlaying(w) ==
  /\ playing
  /\ timed' = TRUE
  /\ IF Measured(w) >= 1
     THEN Update(Measured(w)) /\ since' = 0
     ELSE UNCHANGED <<lvl_filt, istate, rate, late>> /\ since' = Measured(w)
  /\ UNCHANGED <<playing, level>>

WakeIdle(w) ==
  /\ ~playing
  /\ lvl_filt' = 0 /\ istate' = 0 /\ rate' = 0
  /\ since' = Measured(w)
  /\ UNCHANGED <<playing, timed, level, late>>

Wake == \E w \in Waits : WakePlaying(w) \/ WakeIdle(w)

(* uac2_audio_start and uac2_audio_stop of the main task.  The first update *)
(* after a start may be a late one: the bound is kept here.                 *)
StartStop ==
  /\ playing \/ late < MaxLate
  /\ playing' = ~playing
  /\ UNCHANGED <<timed, since, level, lvl_filt, istate, rate, late>>

TimelyWake == \E w \in Waits \intersect 1..FDiv : WakePlaying(w) \/ WakeIdle(w)

(* The host writes and the engine reads, at their own pace.                 *)
RingMoves ==
  /\ level' \in Levels
  /\ UNCHANGED <<playing, timed, since, lvl_filt, istate, rate, late>>

Next == Wake \/ RingMoves \/ StartStop

Spec == Init /\ [][Next]_vars

(* The pump wakes for ever, by its 2 ms time-out if by nothing else.        *)
FairSpec == Spec /\ WF_vars(TimelyWake)

--------------------------------------------------------------------------------
(* As long as no update came late, the filtered level is one that the ring  *)
(* can hold.                                                                *)
TypeOK ==
  /\ playing \in BOOLEAN /\ timed \in BOOLEAN
  /\ since \in 0..DtMax /\ level \in 0..RingSize /\ late \in 0..MaxLate
  /\ lvl_filt \in Int /\ (late = 0 => lvl_filt \in 0..RingSize)
  /\ istate \in -I_MAX..I_MAX /\ rate \in -Clamp..Clamp

(* No wind-up: the output is on a rail only while the filtered level is so  *)
(* far off the target that the proportional part alone fills what the       *)
(* integrator cannot; it never stays there on the integrator's account.     *)
RailMeansError ==
  /\ rate = Clamp => Target - lvl_filt >= PDiv * (Clamp - IOut)
  /\ rate = -Clamp => lvl_filt - Target >= PDiv * (Clamp - IOut)

(* Conditional integration: while the output is on a rail and the filtered  *)
(* level comes no nearer to the target, the integrator stands still, so     *)
(* that the time spent on the rail is not owed back afterwards.             *)
HoldsOnRail ==
  [][playing =>
       /\ (rate = Clamp /\ lvl_filt' <= lvl_filt) => UNCHANGED istate
       /\ (rate = -Clamp /\ lvl_filt' >= lvl_filt) => UNCHANGED istate]_vars

(* An update that comes in time moves the filtered level toward the level   *)
(* and never past it.  (A late one overshoots: dt goes up to 50 and the     *)
(* time constant is 16.)                                                    *)
FilterNoOvershoot ==
  [][(playing /\ playing' /\ UNCHANGED late) =>
       \/ lvl_filt <= lvl_filt' /\ lvl_filt' <= level
       \/ level <= lvl_filt' /\ lvl_filt' <= lvl_filt
       \/ UNCHANGED lvl_filt]_vars

(* A ring that stays short of the target ends up asking the host for at     *)
(* least what the integrator can give, and one that stays beyond it for     *)
(* that much less.  (The division leaves the filter up to FDiv - 1 bytes    *)
(* short of the level.)                                                     *)
Low  == playing /\ level <= Target - Deadband - FDiv
High == playing /\ level >= Target + Deadband + FDiv
Corrects ==
  /\ <>[]Low  => <>[](rate >= IOut)
  /\ <>[]High => <>[](rate <= -IOut)
================================================================================
