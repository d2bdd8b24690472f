------------------------------ MODULE Director ------------------------------
(***************************************************************************)
(* The director (world_agent/director): the story arcs and their state        *)
(* machine (arcs.ArcEngine), the interventions their hooks ask for            *)
(* (intervene.InterventionFramework), the daily review of grades              *)
(* (review.ReviewEngine), and the daily job of the calendar that runs the     *)
(* review and starts a dormant arc (main.director_daily).                     *)
(*                                                                           *)
(* All of it runs in the adjudication coroutine, in after_tick: first the     *)
(* calendar's span, then the arcs, in the order in which they were started.   *)
(* An exception ends the tick; a span whose job raised is settled again in    *)
(* the next one.  The state is in world_state, key by key, so a crash (a      *)
(* "cut") may come between two writes of one operation.  Which conditions of  *)
(* a stage hold, and whether the rate of interventions is over its cap, is    *)
(* a choice.                                                                  *)
(***************************************************************************)
EXTENDS Integers, SequencesExt

CONSTANTS
  Arcs,      \* templates of arcs.yaml, numbered in its order
  Stages,    \* stages of a template
  Degrade,   \* fail_forward: where a stage degrades to, 0 for done, Never for nowhere
  Hooked,    \* stages whose entry has a hook
  Quota,     \* intervention_budget
  MinDays, MaxDays,   \* setup_days
  Slots, CoolDays,    \* concurrency_cap, cooldown_days
  UpCap,     \* daily_up_cap
  TicksADay, LastDay, MaxCuts  \* bounds

Never == -1

ASSUME DirectorAssumption ==
  /\ Arcs \subseteq Nat /\ Stages \in Nat \ {0, 1} /\ Degrade \in [1..Stages -> Never..Stages]
  /\ Hooked \subseteq 1..Stages
  /\ {Quota, MinDays, MaxDays, CoolDays, UpCap, LastDay, MaxCuts} \subseteq Nat
  /\ {Slots, TicksADay} \subseteq Nat \ {0}

VARIABLES
  day, ticks,   \* the day, and how many ticks it has had
  phase, round, \* what the tick does next; the arcs it still has to look at
  settledDay,   \* the calendar's cursor: the last day whose job went through
  arc,          \* arc.inst.<arc_id>: stage, start and status; NoArc before its first start
  active,       \* arcs.active
  coolUntil,    \* arc.cooldown.<arc_id>
  used,         \* budget_used
  ended, torn,  \* days the arcs last ended on; arcs whose completion was cut short
  ups, pending, \* upward revisions by day reviewed; review.pending
  dirCuts

dirVars == <<day, ticks, phase, round, settledDay, arc, active, coolUntil, used, ended, torn, ups,
             pending, dirCuts>>
clockwork == <<day, ticks, phase, round, settledDay>>
story == <<arc, active, coolUntil, used, ended, torn, dirCuts>>

NoArc == [stage |-> 0, since |-> 0, progress |-> 0, status |-> "none"]

DirInit ==
  /\ day = 1 /\ ticks = 0 /\ phase = "calendar" /\ round = <<>> /\ settledDay = 0
  /\ arc = [a \in Arcs |-> NoArc] /\ active = <<>> /\ coolUntil = [a \in Arcs |-> 0]
  /\ used = [a \in Arcs |-> 0] /\ ended = [a \in Arcs |-> Never] /\ torn = {}
  /\ ups = [d \in 1..LastDay |-> 0] /\ pending = {} /\ dirCuts = 0

\* The tick is over, as it should be or with an exception.
EndTick == phase' = "calendar" /\ round' = <<>> /\ ticks' = ticks + 1
Listed(a) == a \in ToSet(active)

-----------------------------------------------------------------------------
(* Interventions (intervene): the rate, the budget, the event.               *)

\* A hook goes through, or raises: the rate is over its cap, the budget is spent,
\* or what it asks for cannot be done, by which time the budget has been charged.
HookOf(a, stage, budget, raised) ==
  \/ stage \notin Hooked /\ ~raised /\ used' = [used EXCEPT ![a] = budget]
  \/ stage \in Hooked /\ raised /\ used' = [used EXCEPT ![a] = budget]
  \/ stage \in Hooked /\ budget < Quota /\ used' = [used EXCEPT ![a] = budget + 1]

-----------------------------------------------------------------------------
(* The daily job: review, then a dormant arc.                                *)

\* run_daily_review: the model's revisions up to the cap, or a note for later.
Review ==
  /\ phase = "calendar" /\ settledDay < day /\ ticks < TicksADay /\ phase' = "check"
  /\ \/ pending' = pending \union {day} /\ UNCHANGED ups
     \/ /\ \E n \in 0..UpCap : ups' = [ups EXCEPT ![day] = @ + n]
        /\ pending' = pending \ {day}
  /\ UNCHANGED <<day, ticks, round, settledDay, story>>

Cooled(a) == coolUntil[a] <= day
Dormant(a) == ~Listed(a) /\ Cooled(a)

\* The dormant arc that has not moved for longest, the first of them in the file.
Longest(a) ==
  /\ Dormant(a)
  /\ \A b \in Arcs : Dormant(b) =>
       \/ arc[a].progress < arc[b].progress
       \/ arc[a].progress = arc[b].progress /\ a <= b

\* The span is settled; the arcs of the list are next.
Settles(list) ==
  phase' = "arcs" /\ round' = list /\ settledDay' = day /\ UNCHANGED <<day, ticks>>

\* daily_check: no drought, no candidate, or no slot.
NoneStarts ==
  /\ phase = "check"
  /\ Settles(active) /\ UNCHANGED <<story, ups, pending>>

\* start_arc: the instance, the list, the hook of the first stage.  The kernel may
\* die after the first.
StartArc(a) ==
  /\ phase = "check" /\ Longest(a) /\ Len(active) < Slots
  /\ arc' = [arc EXCEPT ![a] = [stage |-> 1, since |-> day, progress |-> day, status |-> "active"]]
  /\ \/ /\ active' = Append(active, a) /\ UNCHANGED dirCuts
        /\ \E raised \in BOOLEAN :
             /\ HookOf(a, 1, 0, raised)
             /\ IF raised THEN EndTick /\ UNCHANGED <<day, settledDay>> ELSE Settles(active')
     \/ /\ dirCuts < MaxCuts /\ dirCuts' = dirCuts + 1 /\ used' = [used EXCEPT ![a] = 0]
        /\ EndTick /\ UNCHANGED <<active, day, settledDay>>
  /\ UNCHANGED <<coolUntil, ended, torn, ups, pending>>

-----------------------------------------------------------------------------
(* The arcs (tick, _eval_instance).                                          *)

EvaluateArcs ==
  /\ phase = "calendar" /\ settledDay = day /\ ticks < TicksADay
  /\ phase' = "arcs" /\ round' = active
  /\ UNCHANGED <<day, ticks, settledDay, story, ups, pending>>

ArcsDone ==
  /\ phase = "arcs" /\ round = <<>> /\ EndTick
  /\ UNCHANGED <<day, settledDay, story, ups, pending>>

\* The arc a tick looks at next.
Current(a) == phase = "arcs" /\ round # <<>> /\ Head(round) = a
Passes == round' = Tail(round) /\ UNCHANGED <<day, ticks, phase, settledDay>>
Raises == EndTick /\ UNCHANGED <<day, settledDay>>

Age(a) == day - arc[a].since

\* Mutant: the days since it last moved.
OverdueByProgress(a) == day - arc[a].progress > MaxDays

Overdue(a) == Age(a) > MaxDays

\* Nothing to do: the entry is not active (left by a cut), or the stage stays.
Stays(a) ==
  /\ Current(a) /\ (arc[a].status = "active" => ~Overdue(a)) /\ Passes
  /\ UNCHANGED <<story, ups, pending>>

\* Mutant: the cooldown of the template is not written.
CompletedFreely(a, stage, progress) ==
  /\ arc' = [arc EXCEPT ![a] = [@ EXCEPT !.stage = stage, !.progress = progress, !.status = "done"]]
  /\ active' = RemoveFirst(active, a)
  /\ ended' = [ended EXCEPT ![a] = day] /\ Passes /\ UNCHANGED <<torn, dirCuts, coolUntil>>

\* _complete, in three writes; the kernel may die between them.  An arc is listed once.
Completed(a, stage, progress) ==
  /\ arc' = [arc EXCEPT ![a] = [@ EXCEPT !.stage = stage, !.progress = progress, !.status = "done"]]
  /\ ended' = [ended EXCEPT ![a] = day]
  /\ \/ /\ active' = RemoveFirst(active, a)
        /\ coolUntil' = [coolUntil EXCEPT ![a] = day + CoolDays]
        /\ Passes /\ UNCHANGED <<torn, dirCuts>>
     \/ /\ dirCuts < MaxCuts /\ dirCuts' = dirCuts + 1 /\ torn' = torn \union {a}
        /\ active' \in {active, RemoveFirst(active, a)}
        /\ Raises /\ UNCHANGED coolUntil

Finishes(a) == Completed(a, arc[a].stage, arc[a].progress) /\ UNCHANGED used

\* _jump to a stage: the instance, then the hook.
Jumps(a, stage) ==
  /\ arc' = [arc EXCEPT ![a].stage = stage, ![a].progress = day]
  /\ \E raised \in BOOLEAN :
       HookOf(a, stage, used[a], raised) /\ IF raised THEN Raises ELSE Passes
  /\ UNCHANGED <<active, coolUntil, ended, torn, dirCuts>>

\* The exit condition of the stage holds.  The last stage is entered only after
\* MinDays.
Advances(a) ==
  /\ Current(a) /\ arc[a].status = "active" /\ ~Overdue(a)
  /\ \/ arc[a].stage = Stages /\ Finishes(a)
     \/ arc[a].stage < Stages /\ (Age(a) >= MinDays \/ arc[a].stage < Stages - 1)
        /\ Jumps(a, arc[a].stage + 1)
  /\ UNCHANGED <<ups, pending>>

\* The stage is blocked and has somewhere to degrade to.
FailsForward(a) ==
  /\ Current(a) /\ arc[a].status = "active" /\ ~Overdue(a) /\ Degrade[arc[a].stage] # Never
  /\ IF Degrade[arc[a].stage] = 0 THEN Finishes(a) ELSE Jumps(a, Degrade[arc[a].stage])
  /\ UNCHANGED <<ups, pending>>

\* _force_close: past MaxDays the arc degrades once and is completed, unless the
\* hook of the stage it degrades to raises.
ForceClosed(a) ==
  LET to == Degrade[arc[a].stage]
  IN /\ Current(a) /\ arc[a].status = "active" /\ Overdue(a)
     /\ IF to \in {Never, 0} THEN Finishes(a)
        ELSE \/ Completed(a, to, day) /\ HookOf(a, to, used[a], FALSE)
             \/ /\ HookOf(a, to, used[a], TRUE) /\ Raises
                /\ arc' = [arc EXCEPT ![a] = [@ EXCEPT !.stage = to, !.progress = day]]
                /\ UNCHANGED <<active, coolUntil, ended, torn, dirCuts>>
     /\ UNCHANGED <<ups, pending>>

NextDay ==
  /\ phase = "calendar" /\ ticks = TicksADay /\ day < LastDay
  /\ day' = day + 1 /\ ticks' = 0
  /\ UNCHANGED <<phase, round, settledDay, story, ups, pending>>

DirNext ==
  \/ Review \/ NoneStarts \/ EvaluateArcs \/ ArcsDone \/ NextDay
  \/ \E a \in Arcs : StartArc(a) \/ Stays(a) \/ Advances(a) \/ FailsForward(a) \/ ForceClosed(a)

DirSpec == DirInit /\ [][DirNext]_dirVars

-----------------------------------------------------------------------------
DirTypeOK ==
  /\ Len(active) <= Slots /\ IsInjective(active) /\ ToSet(round) \subseteq Arcs
  /\ used \in [Arcs -> 0..Quota] /\ settledDay \in 0..day
  /\ \A a \in Arcs : arc[a].stage \in 0..Stages /\ arc[a].status \in {"none", "active", "done"}

\* An arc that is listed comes to its end the day after its time is up, also when
\* the hooks of this one or another raise (arcs.py: "no deadlock"); an arc whose
\* completion was cut short may be listed for ever.
OverdueIsClosed ==
  \A a \in Arcs : Listed(a) /\ a \notin torn => Age(a) <= MaxDays + 1

\* A template is not played again within its cooldown, whichever way its last arc
\* ended, unless its completion was cut short.
CooldownKept ==
  [][\A a \in Arcs : Listed(a)' /\ ~Listed(a) /\ a \notin torn /\ ended[a] # Never
                       => day >= ended[a] + CoolDays]_dirVars

\* At most UpCap events are revised upwards for a day (docs/design/04, 6.6).
FewUpgrades == \A d \in 1..LastDay : ups[d] <= UpCap

\* A review put off is made later (docs/design/04, 8.1).
PendingIsReviewed == \A d \in 1..LastDay : d \in pending => day <= d + 1
=============================================================================
