---------------------------- MODULE CostBreaker ----------------------------
(***************************************************************************)
(* The brake on the cost of the models (llm_gateway.breaker.CostBreaker, its  *)
(* daily use in main.cost_breaker_daily) and the pauses of the clock it and   *)
(* the fault probe ask for (audit.probe).  The ratio of the cost of a         *)
(* simulated day to the baseline is one of four bands.  All state is lost     *)
(* when the kernel is restarted, except the clock's pause, which the start    *)
(* lifts.                                                                    *)
(***************************************************************************)
EXTENDS Integers

CONSTANTS LastNight, MaxStarts  \* bounds: nightly batches, restarts of the kernel

ASSUME CostAssumption == {LastNight, MaxStarts} \subseteq Nat

\* Under recover_ratio, under alarm_ratio, under throttle_ratio, over it.
Bands == <<"calm", "normal", "dear", "ruinous">>
Levels == {"normal", "alarm", "throttle"}
Unset == -1

VARIABLES
  night,        \* batches so far; a day lies between two of them
  level,        \* ThrottleState.level
  alarmSince, throttleSince,  \* _band_since
  long,         \* _throttle_since_real lies 24 real hours back: "unset", "no" or "yes"
  wantsPause,   \* needs_clock_pause
  fired,        \* _cost_pause_fired
  stopped,      \* the clock: "no", or who paused it
  holding,      \* FatalProbe.paused
  lastBand,     \* the band of the night before
  costPauses,   \* alerts cost.throttle_24h since the level was last below throttle
  starts

costVars == <<night, level, alarmSince, throttleSince, long, wantsPause, fired, stopped, holding,
              lastBand, costPauses, starts>>
brake == <<level, alarmSince, throttleSince, long, wantsPause, fired>>

FreshBrake ==
  /\ level' = "normal" /\ alarmSince' = Unset /\ throttleSince' = Unset /\ long' = "unset"
  /\ wantsPause' = FALSE /\ fired' = FALSE

CostInit ==
  /\ night = 0 /\ level = "normal" /\ alarmSince = Unset /\ throttleSince = Unset /\ long = "unset"
  /\ wantsPause = FALSE /\ fired = FALSE
  /\ stopped = "no" /\ holding = FALSE /\ lastBand = "calm"
  /\ costPauses = 0 /\ starts = 0

Since(entry) == IF entry = Unset THEN night' ELSE entry
Persisted(entry) == night' - Since(entry) >= 1   \* a simulated day

\* Mutant: the dear band leaves the ruinous one's entry standing.
BandsStanding(band) ==
  CASE band = "ruinous" -> throttleSince' = Since(throttleSince) /\ UNCHANGED alarmSince
    [] band = "dear"    -> alarmSince' = Since(alarmSince) /\ UNCHANGED throttleSince
    [] OTHER            -> throttleSince' = Unset /\ alarmSince' = Unset

\* _band_since after a night's ratio.
BandsEntered(band) ==
  CASE band = "ruinous" -> throttleSince' = Since(throttleSince) /\ UNCHANGED alarmSince
    [] band = "dear"    -> alarmSince' = Since(alarmSince) /\ throttleSince' = Unset
    [] OTHER            -> throttleSince' = Unset /\ alarmSince' = Unset

\* _transition: the level after it; every evaluation that gets here leaves an event.
Target(band) ==
  CASE band = "ruinous" /\ Persisted(throttleSince) -> "throttle"
    [] band = "dear" /\ Persisted(alarmSince) -> "alarm"
    [] band = "calm" /\ level # "normal" -> "recover"
    [] OTHER -> "none"

LevelAfter(target) ==
  CASE target = "throttle" -> "throttle"
    [] target = "alarm" -> IF level = "normal" THEN "alarm" ELSE level
    [] target = "recover" -> IF level = "throttle" THEN "alarm" ELSE "normal"
    [] OTHER -> level

\* 24 real hours on the brake, over its line: the flag; off it, both are reset.
Escalates(band) ==
  IF level' = "throttle"
  THEN /\ long' = IF long = "unset" THEN "no" ELSE long
       /\ wantsPause' = (wantsPause \/ (long = "yes" /\ band = "ruinous"))
  ELSE long' = "unset" /\ wantsPause' = FALSE

\* consume_throttle_escalation, once while the brake is on.
Pauses ==
  IF wantsPause' /\ ~fired
  THEN /\ stopped' = IF stopped = "no" THEN "cost" ELSE stopped
       /\ fired' = TRUE /\ costPauses' = costPauses + 1
  ELSE /\ fired' = (fired /\ level' = "throttle") /\ UNCHANGED stopped
       /\ costPauses' = IF level' = "throttle" THEN costPauses ELSE 0

\* cost_breaker_daily, among the hooks of the nightly batch, while the clock runs.
Evaluate ==
  /\ stopped = "no" /\ night < LastNight /\ night' = night + 1
  /\ \E i \in 1..4 :
       LET band == Bands[i]
       IN /\ BandsEntered(band) /\ level' = LevelAfter(Target(band)) /\ lastBand' = band
          /\ Escalates(band) /\ Pauses
  /\ UNCHANGED <<holding, starts>>

HoursPass == long = "no" /\ long' = "yes"
  /\ UNCHANGED <<night, level, alarmSince, throttleSince, wantsPause, fired, stopped, holding,
                 lastBand, costPauses, starts>>

\* FatalProbe.check_once: a pause for the first fault, a resume when all are gone.
FaultSeen ==
  /\ ~holding /\ holding' = TRUE /\ stopped' = IF stopped = "no" THEN "fault" ELSE stopped
  /\ UNCHANGED <<night, brake, lastBand, costPauses, starts>>
FaultGone ==
  /\ holding /\ holding' = FALSE /\ stopped' = "no"
  /\ UNCHANGED <<night, brake, lastBand, costPauses, starts>>

\* The kernel is started anew; _restart_recovery resumes the clock.
Restart ==
  /\ starts < MaxStarts /\ starts' = starts + 1
  /\ FreshBrake /\ stopped' = "no" /\ holding' = FALSE /\ lastBand' = "calm" /\ costPauses' = 0
  /\ UNCHANGED night

CostNext == Evaluate \/ HoursPass \/ FaultSeen \/ FaultGone \/ Restart
CostSpec == CostInit /\ [][CostNext]_costVars

-----------------------------------------------------------------------------
\* Every variable keeps its type, and nothing asks for a pause while the brake is off.
CostTypeOK ==
  /\ level \in Levels /\ alarmSince \in Unset..night /\ throttleSince \in Unset..night
  /\ long \in {"unset", "no", "yes"} /\ stopped \in {"no", "cost", "fault"}
  /\ (wantsPause \/ fired => level = "throttle")

\* The brake is put on only when the cost was over its line for a whole day: in the
\* night before as well (breaker.py:291), however it went up and down between.
BrakeIsEarned ==
  [][level # "throttle" /\ level' = "throttle" =>
       lastBand = "ruinous" /\ lastBand' = "ruinous"]_costVars

\* While the brake is on, the clock is paused for the cost at most once, whatever
\* others lift the pause (main.py, _cost_pause_fired).
PausedOnce == costPauses <= 1

\* A pause for the cost stays until a person lifts it: the fault probe lifts it.
CostPauseHolds == [][stopped = "cost" => stopped' = "cost" \/ starts' # starts]_costVars
=============================================================================
