------------------------------- MODULE Goals --------------------------------
(***************************************************************************)
(* The goals of the week (relations/goals.py) and the hook of the nightly    *)
(* batch that drives them (main.py, kernel_calendar_hook): what was reached  *)
(* is closed, what was not adds to the frustration and is abandoned, and new *)
(* goals are drawn.  The hook compares the day and the week at the two ends  *)
(* of the hours the batch leaps over; the hours in between two batches are   *)
(* lived through and seen by no hook.                                        *)
(*                                                                           *)
(* Every statement of the hook is committed alone; an exception or a crash   *)
(* drops the rest of it.  Which goals have been reached, and which can be    *)
(* drawn by whom, is left open.  Nothing in the kernel calls record_block or *)
(* a_level_recovery: goals are never blocked.                                *)
(***************************************************************************)
EXTENDS Integers, SequencesExt

CONSTANTS
  Folk,             \* in the order of their ids: a sequence
  Library,          \* the texts of the goals
  PerTier,          \* goals a person may have (active_per_tier)
  DayHours, WeekDays,
  HoursAwake, HoursAsleep,  \* hours between two batches, hours of a batch (speed_table.yaml)
  IdleGain, RentGain, Recovery,  \* weekly_fail_idle_gain, frustration_delta, daily_recovery
  Replan, Abandon, ResetTo,      \* thresholds; abandon_reset_to
  LastHour, MaxRents, MaxFailed  \* bounds: hours, notices to tenants, hooks cut short

ASSUME GoalsAssumption ==
  /\ Folk \in Seq(Range(Folk)) /\ Folk # <<>>
  /\ {DayHours, WeekDays, HoursAwake, HoursAsleep, PerTier} \subseteq Nat \ {0}
  /\ {IdleGain, RentGain, Recovery, Replan, Abandon, ResetTo, LastHour, MaxRents, MaxFailed}
       \subseteq Nat

VARIABLES
  hour, rested,   \* simulated time; the batch of the night is over
  goals,          \* the rows of goals, in the order of their ids
  turnOf, duty,   \* refresh_weekly: whose turn it is, 0 for nobody; and for what
  todo,           \* ids to close, or texts to draw
  closing,        \* frustration of the row being abandoned, before and after; <<>> for none
  refreshed,      \* history: the last week refresh_weekly has begun for
  blamed,         \* history: how often a row was charged with its failure
  rents, failed

goalVars == <<hour, rested, goals, turnOf, duty, todo, closing, refreshed, blamed, rents, failed>>
hook == <<turnOf, duty, todo, closing>>

DayOfHour(h) == h \div DayHours
WeekOf(h) == 1 + DayOfHour(h) \div WeekDays

Goal(who, week, text) ==
  [who |-> who, week |-> week, text |-> text, frustration |-> 0, status |-> "active",
   replanned |-> FALSE]

Rows == DOMAIN goals
ActiveOf(who) == {i \in Rows : goals[i].who = who /\ goals[i].status = "active"}

\* seed.py: everybody begins with goals of the first week.
GoalsInit ==
  /\ hour = 0 /\ rested = FALSE
  /\ \E text \in Library : goals = [i \in 1..Len(Folk) |-> Goal(Folk[i], 1, text)]
  /\ turnOf = 0 /\ duty = "none" /\ todo = {} /\ closing = <<>>
  /\ refreshed = 1 /\ blamed = [i \in 1..Len(Folk) |-> 0] /\ rents = 0 /\ failed = 0

-----------------------------------------------------------------------------
\* Time goes on until the next batch, the first time from any hour.
Live ==
  /\ turnOf = 0 /\ (rested \/ hour = 0)
  /\ \E h \in IF hour = 0 THEN 1..HoursAwake ELSE {HoursAwake} :
       hour + h <= LastHour /\ hour' = hour + h
  /\ rested' = FALSE
  /\ UNCHANGED <<goals, hook, refreshed, blamed, rents, failed>>

\* A tenant in arrears gets his notice.
Notice(who) ==
  /\ turnOf = 0 /\ rents < MaxRents /\ rents' = rents + 1
  /\ goals' = [i \in Rows |-> IF i \in ActiveOf(who)
                               THEN [goals[i] EXCEPT !.frustration = @ + RentGain] ELSE goals[i]]
  /\ UNCHANGED <<hour, rested, hook, refreshed, blamed, failed>>

Eased(g) ==
  IF g.status = "active" THEN [g EXCEPT !.frustration = Max({0, @ - Recovery})] ELSE g

NewDay(before, now) == DayOfHour(now) # DayOfHour(before)
NewWeek(before, now) == WeekOf(now) # WeekOf(before)

\* kernel_calendar_hook, unless a hook before it has failed.
Night ==
  /\ turnOf = 0 /\ ~rested /\ hour > 0 /\ hour + HoursAsleep <= LastHour
  /\ hour' = hour + HoursAsleep /\ rested' = TRUE
  /\ \/ /\ goals' = IF NewDay(hour, hour') THEN [i \in Rows |-> Eased(goals[i])] ELSE goals
        /\ IF NewWeek(hour, hour')
           THEN turnOf' = 1 /\ duty' = "check" /\ refreshed' = WeekOf(hour')
           ELSE UNCHANGED <<turnOf, duty, refreshed>>
        /\ UNCHANGED failed
     \/ /\ failed < MaxFailed /\ failed' = failed + 1
        /\ UNCHANGED <<goals, turnOf, duty, refreshed>>
  /\ UNCHANGED <<todo, closing, blamed, rents>>

-----------------------------------------------------------------------------
(* refresh_weekly, for one person after the other.                           *)

Who == Folk[turnOf]

\* check_completions: what has been reached is marked done, one by one.
Check ==
  /\ duty = "check" /\ \E S \in SUBSET {i \in ActiveOf(Who) : ~goals[i].replanned} : todo' = S
  /\ duty' = "done"
  /\ UNCHANGED <<hour, rested, goals, turnOf, closing, refreshed, blamed, rents, failed>>

MarkDone ==
  /\ duty = "done" /\ todo # {}
  /\ LET i == Min(todo)
     IN goals' = [goals EXCEPT ![i].status = "done"] /\ todo' = todo \ {i}
  /\ UNCHANGED <<hour, rested, turnOf, duty, closing, refreshed, blamed, rents, failed>>

Overdue(i) == goals[i].week < WeekOf(hour)

\* _settle_week_failures reads what is still active of the weeks before.
Failures ==
  /\ duty = "done" /\ todo = {}
  /\ todo' = {i \in ActiveOf(Who) : Overdue(i)} /\ duty' = "fail"
  /\ UNCHANGED <<hour, rested, goals, turnOf, closing, refreshed, blamed, rents, failed>>

\* Mutant: the row is closed with the effects, not with the gain.
BlameFirst(g) == [g EXCEPT !.frustration = @ + IdleGain]

Blame(g) == [g EXCEPT !.frustration = @ + IdleGain, !.status = "abandoned"]

\* The gain and the closing of a row are one statement ...
Fail ==
  /\ duty = "fail" /\ closing = <<>> /\ todo # {}
  /\ LET i == Min(todo)
     IN /\ goals' = [goals EXCEPT ![i] = Blame(@)]
        /\ closing' = <<goals[i].frustration, goals[i].frustration + IdleGain>>
        /\ blamed' = [blamed EXCEPT ![i] = @ + 1]
  /\ UNCHANGED <<hour, rested, turnOf, duty, todo, refreshed, rents, failed>>

Crosses(limit) == closing[1] < limit /\ limit <= closing[2]

\* ... what it leads to comes after (_apply_frustration_effects; there is no blocker).
Effects ==
  /\ duty = "fail" /\ closing # <<>>
  /\ LET i == Min(todo)
     IN /\ goals' = [goals EXCEPT ![i].replanned = @ \/ Crosses(Replan),
                                  ![i].frustration = IF Crosses(Abandon) THEN ResetTo ELSE @,
                                  ![i].status = IF Crosses(Abandon) THEN "abandoned" ELSE @]
        /\ todo' = todo \ {i}
  /\ closing' = <<>>
  /\ UNCHANGED <<hour, rested, turnOf, duty, refreshed, blamed, rents, failed>>

\* _draw: nothing for a person who has a goal of this week.
Draw ==
  /\ duty = "fail" /\ todo = {} /\ duty' = "draw"
  /\ IF \E i \in ActiveOf(Who) : goals[i].week = WeekOf(hour)
     THEN todo' = {}
     ELSE \E S \in SUBSET Library : Cardinality(S) <= PerTier /\ todo' = S
  /\ UNCHANGED <<hour, rested, goals, turnOf, closing, refreshed, blamed, rents, failed>>

Insert ==
  /\ duty = "draw" /\ todo # {}
  /\ \E text \in todo :
       goals' = Append(goals, Goal(Who, WeekOf(hour), text)) /\ todo' = todo \ {text}
  /\ blamed' = Append(blamed, 0)
  /\ UNCHANGED <<hour, rested, turnOf, duty, closing, refreshed, rents, failed>>

NextOne ==
  /\ duty = "draw" /\ todo = {}
  /\ IF turnOf < Len(Folk) THEN turnOf' = turnOf + 1 /\ duty' = "check"
     ELSE turnOf' = 0 /\ duty' = "none"
  /\ UNCHANGED <<hour, rested, goals, todo, closing, refreshed, blamed, rents, failed>>

\* The hook is cut short by an exception or a crash; it is not repeated.
CutHook ==
  /\ turnOf > 0 /\ failed < MaxFailed /\ failed' = failed + 1
  /\ turnOf' = 0 /\ duty' = "none" /\ todo' = {} /\ closing' = <<>>
  /\ UNCHANGED <<hour, rested, goals, refreshed, blamed, rents>>

GoalsNext ==
  \/ Live \/ Night \/ \E i \in DOMAIN Folk : Notice(Folk[i])
  \/ Check \/ MarkDone \/ Failures \/ Fail \/ Effects \/ Draw \/ Insert \/ NextOne \/ CutHook

GoalsSpec == GoalsInit /\ [][GoalsNext]_goalVars

-----------------------------------------------------------------------------
GoalsTypeOK ==
  /\ hour \in 0..LastHour /\ turnOf \in 0..Len(Folk)
  /\ duty \in {"none", "check", "done", "fail", "draw"} /\ (duty = "none") = (turnOf = 0)
  /\ \A i \in Rows :
       /\ goals[i].frustration \in Nat /\ goals[i].week \in 1..WeekOf(hour)
       /\ goals[i].status \in {"active", "done", "abandoned"}
  /\ duty \in {"done", "fail"} => todo \subseteq Rows
  /\ duty = "draw" => todo \subseteq Library

\* Wherever a refresh was cut short by an exception or a crash, and taken up again in
\* whichever batch spans the next boundary: nobody has goals of two weeks at once, and
\* a goal that was missed is charged once (goals.py:90, :120).
WeekSettledOnce ==
  /\ \A i, j \in Rows :
       (goals[i].who = goals[j].who /\ goals[i].status = "active" /\ goals[j].status = "active")
         => goals[i].week = goals[j].week
  /\ \A i \in Rows : blamed[i] <= 1

\* The goals are refreshed every week (docs/design/01, section 3.3; main.py:487).
RefreshedWeekly == turnOf = 0 => WeekOf(hour) - refreshed <= 1
=============================================================================
