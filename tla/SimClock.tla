------------------------------ MODULE SimClock ------------------------------
(***************************************************************************)
(* The simulated clock and the coroutines that move it:                    *)
(*                                                                         *)
(*   main    start-up with its crash recovery, then TimeEngine.run;        *)
(*   adj     the adjudication loop: clock ticks and batch segments;        *)
(*   probe   FatalProbe: pauses the clock on a fault, resumes it after;    *)
(*                                                                         *)
(* and the anchor row in the database from which a restart continues.  A   *)
(* step is what runs between two awaits; an anchor is changed in memory    *)
(* first, and its row is written by a later step of the database.          *)
(* wall counts hours of real time, scaled down; sim hours of simulated time.*)
(***************************************************************************)
EXTENDS Integers, FiniteSets

CONSTANTS
  Day,          \* the speed table: a segment for each unit of a real day
  TickLen,      \* simulated units per tick                 (TICK_SIM_SECONDS)
  MaxRatio,     \* cap of the catch-up ratio               (max_catchup_ratio)
  LongPause,    \* downtime from which catch-up is a batch (2 real hours)
  DriftLimit,   \* age of the anchor that betrays a crash  (60 s)
  AuditStops,   \* TRUE: the daily audit may pause the clock
  FaultKinds,   \* faults the probe sees: "db" also fails every write
  MaxWall,      \* bound on real time
  MaxLate,      \* units of real time by which a coroutine or a write may be late
  MaxFaults, MaxCrashes  \* bounds on faults and on crashes or stops

None == -1

(***************************************************************************)
(* The speed table: each unit of the day belongs to a segment.             *)
(***************************************************************************)
Segment(w) == Day[w % Cardinality(DOMAIN Day)]
Continuous(seg) == seg.mode = "continuous"

ASSUME DayAssumption ==
  /\ IsFiniteSet(DOMAIN Day) /\ 0 \in DOMAIN Day
  /\ DOMAIN Day = 0..(Cardinality(DOMAIN Day) - 1)
  /\ \A u \in DOMAIN Day :
       \/ /\ Day[u].mode = "continuous"
          /\ Day[u].id \in Nat /\ Day[u].ratio \in Nat \ {0}
       \/ /\ Day[u].mode = "batch" /\ Day[u].id \in Nat
          /\ Day[u].hours \in Nat \ {0} /\ Day[u].minutes \in Nat \ {0}

ASSUME ClockAssumption ==
  /\ {TickLen, MaxRatio, LongPause} \subseteq Nat \ {0}
  /\ {DriftLimit, MaxWall, MaxLate, MaxFaults, MaxCrashes} \subseteq Nat
  /\ AuditStops \in BOOLEAN /\ FaultKinds \subseteq {"db", "other"}

VARIABLES
  wall,      \* real time
  late,      \* how long something that is due has been waiting
  up,        \* "up", "down", or "dead": ended by an exception of its own
  anchor,    \* TimeEngine._a
  inBatch,   \* TimeEngine._batch_mode
  saved,     \* the row clock.anchor
  write,     \* the write of that row each coroutine is waiting for
  main,      \* where the main coroutine stands
  goal,      \* the tick TimeEngine.run is sleeping for
  plan,      \* the catch-up plan of start-up
  lastSeg, signalled, \* local variables of TimeEngine.run
  queue,     \* AdjudicationQueue
  adj, work, \* where the adjudication loop stands, and what it has popped
  probing,   \* FatalProbe.paused
  fault,     \* what the probe would find
  ran,       \* history: last tick handed out or summarised by a batch
  entered,   \* history: batches of the current segment
  settled,   \* history: the hooks have run for the last batch
  audited,   \* history: the audit holds the clock
  owed,      \* history: the planned position of the last resume
  faults, crashes

clockVars == <<anchor, inBatch, saved, write>>
mainVars == <<main, goal, plan, lastSeg, signalled>>
adjVars == <<queue, adj, work>>
probeVars == <<probing, fault>>
historyVars == <<ran, entered, settled, audited, owed>>
envVars == <<up, faults, crashes>>
timeVars == <<wall, late>>
vars == <<timeVars, clockVars, mainVars, adjVars, probeVars, historyVars, envVars>>

Procs == {"main", "adj", "probe"}
NoWrite == [sim |-> 0, wall |-> None, ratio |-> 1, paused |-> None, tick |-> 0]
NoWork == [batches |-> {}, tick |-> 0, turns |-> FALSE]
NoPlan == [downtime |-> 0, to |-> 0]

(***************************************************************************)
(* Conversions.                                                            *)
(***************************************************************************)
\* Mutant: simulated time flows on from the anchor during a pause.
SimAtWall(a, w) == a.sim + (w - a.wall) * a.ratio

SimAt(a, w) == a.sim + ((IF a.paused # None THEN a.paused ELSE w) - a.wall) * a.ratio

NowSim == SimAt(anchor, wall)
TickOf(sim) == sim \div TickLen
SimOfTick(n) == n * TickLen
CurrentTick == TickOf(NowSim)
Paused == anchor.paused # None

\* What an hour of real time at w (the unit of wall) is worth in the plan: the
\* hours of a batch segment are spread over its minutes, divided by 3600.
PlannedRate(w) ==
  IF Continuous(Segment(w)) THEN Segment(w).ratio
  ELSE (3600 * Segment(w).hours) \div Segment(w).minutes

\* What the plan has gained by w since time 0.
Gained[w \in Nat] == IF w = 0 THEN 0 ELSE Gained[w - 1] + PlannedRate(w - 1)

PlannedGain(w0, w1) == Gained[w1] - Gained[w0]

(***************************************************************************)
(* Changes of the anchor, each followed by a write of its row.             *)
(***************************************************************************)
Persist(p, a) ==
  /\ anchor' = a
  /\ write' = [write EXCEPT ![p] = [sim |-> a.sim, wall |-> a.wall, ratio |-> a.ratio,
                                    paused |-> a.paused, tick |-> TickOf(SimAt(a, wall))]]

SetRatio(p, r) ==
  Persist(p, [anchor EXCEPT !.sim = NowSim, !.ratio = r,
                            !.wall = IF Paused THEN anchor.paused ELSE wall])

Pause(p) ==
  IF Paused THEN UNCHANGED <<anchor, write>>
  ELSE Persist(p, [anchor EXCEPT !.sim = NowSim, !.wall = wall, !.paused = wall])

\* Mutant: a batch segment has no ratio, and none is kept.
RatioOrNone(r) == IF Continuous(Segment(wall)) THEN Segment(wall).ratio ELSE None

RatioOr(r) == IF Continuous(Segment(wall)) THEN Segment(wall).ratio ELSE r

Resume(p) ==
  Persist(p, [anchor EXCEPT !.wall = wall, !.paused = None, !.ratio = RatioOr(anchor.ratio)])

PlannedSim == NowSim + PlannedGain(anchor.paused, wall)

EnterBatch(p, hours) ==
  /\ inBatch' = TRUE
  /\ Persist(p, [anchor EXCEPT !.sim = NowSim + hours, !.wall = wall])

ExitBatch(p) ==
  /\ inBatch' = FALSE
  /\ Persist(p, [anchor EXCEPT !.sim = NowSim, !.wall = wall])

\* _advance_to
AdvanceTo(p, sim) == Persist(p, [anchor EXCEPT !.sim = sim, !.wall = wall])

\* The items of the queue that have come due.
DueItems == {i \in queue : i.tick <= CurrentTick}

\* The coroutines of the main loop exist.
Running == main \in {"top", "aim", "sleep", "deliver"}

\* The adjudication loop waits for an item only while its queue is empty: with a
\* wake-up for a tick that a pause keeps from coming it goes round without an
\* await, and nothing else on the event loop runs.  (Of a clock that runs the
\* tick comes, and the others have been late by a tick at most.)
Spinning == Running /\ adj = "idle" /\ Paused /\ queue # {} /\ DueItems = {}

\* The coroutine p has its answer from the database and gets its turn.
Ready(p) == up = "up" /\ write[p] = NoWrite /\ ~Spinning

Init ==
  /\ wall = 0 /\ late = 0 /\ up = "down"
  /\ saved = [sim |-> 0, wall |-> 0, ratio |-> 1, paused |-> None, tick |-> 0]
  /\ anchor = [sim |-> 0, wall |-> 0, ratio |-> 1, paused |-> None]
  /\ inBatch = FALSE /\ write = [p \in Procs |-> NoWrite]
  /\ main = "load" /\ goal = 0 /\ plan = NoPlan /\ lastSeg = None /\ signalled = FALSE
  /\ queue = {} /\ adj = "idle" /\ work = NoWork
  /\ probing = FALSE /\ fault = "none"
  /\ ran = 0 /\ entered = 0 /\ settled = TRUE /\ audited = FALSE /\ owed = 0
  /\ faults = 0 /\ crashes = 0

(***************************************************************************)
(* Start-up: the anchor is read (and re-anchored while it is the seed's    *)
(* placeholder), then _restart_recovery runs before any other coroutine.   *)
(***************************************************************************)
Load ==
  /\ main = "load" /\ fault # "db"
  /\ up' = "up" /\ main' = "recover"
  /\ LET row == [sim |-> saved.sim, wall |-> saved.wall,
                 ratio |-> saved.ratio, paused |-> saved.paused] IN
       IF saved.tick = 0
         THEN Persist("main", [row EXCEPT !.wall = wall, !.ratio = RatioOr(row.ratio)])
         ELSE anchor' = row /\ UNCHANGED write
  /\ UNCHANGED <<timeVars, inBatch, saved, goal, plan, lastSeg, signalled, adjVars,
                 probeVars, historyVars, faults, crashes>>

\* A clean start, or a pause written late for the crash that was noticed.
Recover ==
  /\ main = "recover" /\ Ready("main")
  /\ IF Paused THEN main' = "resume" /\ UNCHANGED <<anchor, write>>
     ELSE IF wall - anchor.wall <= DriftLimit THEN main' = "top" /\ UNCHANGED <<anchor, write>>
     ELSE main' = "resume" /\ Pause("main")
  /\ UNCHANGED <<timeVars, inBatch, saved, goal, plan, lastSeg, signalled, adjVars,
                 probeVars, historyVars, envVars>>

RecoverResume ==
  /\ main = "resume" /\ Ready("main")
  /\ plan' = [downtime |-> wall - anchor.paused, to |-> PlannedSim]
  /\ Resume("main")
  /\ main' = "plan" /\ audited' = FALSE /\ owed' = PlannedSim
  /\ UNCHANGED <<timeVars, inBatch, saved, goal, lastSeg, signalled, adjVars, probeVars,
                 ran, entered, settled, envVars>>

\* plan_catchup and begin_catchup: run fast, or one batch for all of the lag.
\* The batch hooks are registered only after _restart_recovery.
BeginCatchup ==
  /\ main = "plan" /\ Ready("main")
  /\ IF plan.downtime < LongPause
       THEN /\ SetRatio("main", IF 2 * anchor.ratio < MaxRatio THEN 2 * anchor.ratio ELSE MaxRatio)
            /\ main' = "drive"
            /\ UNCHANGED <<inBatch, ran, settled>>
       ELSE /\ EnterBatch("main", IF plan.to > NowSim THEN plan.to - NowSim ELSE 0)
            /\ main' = "exit" /\ settled' = FALSE
            /\ ran' = TickOf(SimAt(anchor', wall))
  /\ UNCHANGED <<timeVars, saved, goal, plan, lastSeg, signalled, adjVars, probeVars,
                 entered, audited, owed, envVars>>

ExitCatchupBatch ==
  /\ main = "exit" /\ Ready("main")
  /\ ExitBatch("main") /\ main' = "top"
  /\ UNCHANGED <<timeVars, saved, goal, plan, lastSeg, signalled, adjVars, probeVars,
                 historyVars, envVars>>

\* Mutant: the catch-up ends without waiting for the planned position.
FinishCatchupEarly ==
  /\ main = "drive" /\ Ready("main")
  /\ SetRatio("main", RatioOr(anchor.ratio)) /\ main' = "top"
  /\ UNCHANGED <<timeVars, inBatch, saved, goal, plan, lastSeg, signalled, adjVars, probeVars,
                 historyVars, envVars>>

FinishCatchup ==
  /\ main = "drive" /\ Ready("main") /\ NowSim >= plan.to
  /\ SetRatio("main", RatioOr(anchor.ratio)) /\ main' = "top"
  /\ UNCHANGED <<timeVars, inBatch, saved, goal, plan, lastSeg, signalled, adjVars, probeVars,
                 historyVars, envVars>>

(***************************************************************************)
(* TimeEngine.run, one pass: the segment, the next tick, the wait for it.  *)
(***************************************************************************)
SegmentChanged == lastSeg # None /\ Segment(wall).id # lastSeg
Signalled == signalled /\ ~SegmentChanged

SignalBatch ==
  /\ main = "top" /\ Ready("main") /\ ~Paused /\ ~inBatch
  /\ ~Continuous(Segment(wall)) /\ ~Signalled
  /\ queue' = queue \cup {[kind |-> "batch", tick |-> CurrentTick, hours |-> Segment(wall).hours]}
  /\ lastSeg' = Segment(wall).id /\ signalled' = TRUE
  /\ UNCHANGED <<timeVars, clockVars, main, goal, plan, adj, work, probeVars,
                 historyVars, envVars>>

\* Mutant: only the pause holds the pass back, not the batch mode.
StartPassInBatch ==
  /\ main = "top" /\ Ready("main") /\ ~Paused /\ Continuous(Segment(wall))
  /\ IF SegmentChanged \/ Segment(wall).ratio # anchor.ratio
       THEN SetRatio("main", Segment(wall).ratio) ELSE UNCHANGED <<anchor, write>>
  /\ lastSeg' = Segment(wall).id /\ signalled' = Signalled
  /\ main' = "aim"
  /\ UNCHANGED <<timeVars, inBatch, saved, goal, plan, adjVars, probeVars,
                 historyVars, envVars>>

StartPass ==
  /\ main = "top" /\ Ready("main") /\ ~Paused /\ ~inBatch /\ Continuous(Segment(wall))
  /\ IF SegmentChanged \/ Segment(wall).ratio # anchor.ratio
       THEN SetRatio("main", Segment(wall).ratio) ELSE UNCHANGED <<anchor, write>>
  /\ lastSeg' = Segment(wall).id /\ signalled' = Signalled
  /\ main' = "aim"
  /\ UNCHANGED <<timeVars, inBatch, saved, goal, plan, adjVars, probeVars,
                 historyVars, envVars>>

Aim ==
  /\ main = "aim" /\ Ready("main")
  /\ goal' = CurrentTick + 1 /\ main' = "sleep"
  /\ UNCHANGED <<timeVars, clockVars, plan, lastSeg, signalled, adjVars, probeVars,
                 historyVars, envVars>>

GoalReached == NowSim >= SimOfTick(goal)

Pin ==
  /\ main = "sleep" /\ Ready("main") /\ GoalReached
  /\ AdvanceTo("main", SimOfTick(goal)) /\ main' = "deliver"
  /\ UNCHANGED <<timeVars, inBatch, saved, goal, plan, lastSeg, signalled, adjVars,
                 probeVars, historyVars, envVars>>

\* Mutant: the tick is handed out before the pinned anchor is in the database.
DeliverUnsaved ==
  /\ main = "deliver" /\ up = "up"
  /\ queue' = queue \cup {[kind |-> "tick", tick |-> goal, hours |-> 0]}
  /\ ran' = goal /\ main' = "top"
  /\ UNCHANGED <<timeVars, clockVars, goal, plan, lastSeg, signalled, adj, work, probeVars,
                 entered, settled, audited, owed, envVars>>

\* on_tick.  Only a trial run waits here for the beat to end (drain_event is None
\* otherwise, main.py): a kernel that serves goes on to its next pass at once, and
\* ticks that come due during a long beat wait in the queue.
Deliver ==
  /\ main = "deliver" /\ Ready("main")
  /\ queue' = queue \cup {[kind |-> "tick", tick |-> goal, hours |-> 0]}
  /\ ran' = goal /\ main' = "top"
  /\ UNCHANGED <<timeVars, clockVars, goal, plan, lastSeg, signalled, adj, work, probeVars,
                 entered, settled, audited, owed, envVars>>

(***************************************************************************)
(* The adjudication loop: all items due are popped at once; each batch is  *)
(* gone through, then the tick is adjudicated.  Whom a turn addresses is   *)
(* woken at the tick after the one the pass began at.                      *)
(***************************************************************************)
AdjReady == Running /\ Ready("adj")

PopDue ==
  /\ AdjReady /\ adj = "idle" /\ DueItems # {}
  /\ queue' = queue \ DueItems
  /\ work' = [batches |-> {i \in DueItems : i.kind = "batch"}, tick |-> CurrentTick,
              turns |-> \E i \in DueItems : i.kind # "batch"]
  /\ adj' = "work"
  /\ UNCHANGED <<timeVars, clockVars, mainVars, probeVars, historyVars, envVars>>

\* batch_advance up to its first await; what the batch jumps over counts as run.
BeginBatch(i) ==
  /\ AdjReady /\ adj = "work"
  /\ i \in work.batches /\ \A j \in work.batches : i.tick <= j.tick
  /\ EnterBatch("adj", i.hours)
  /\ work' = [work EXCEPT !.batches = @ \ {i}] /\ adj' = "hooks"
  /\ entered' = entered + 1 /\ settled' = FALSE
  /\ ran' = TickOf(SimAt(anchor', wall))
  /\ UNCHANGED <<timeVars, saved, mainVars, queue, probeVars, audited, owed, envVars>>

\* Summaries and hooks; the audit hook may pause the clock.
RunHooks ==
  /\ AdjReady /\ adj = "hooks"
  /\ settled' = TRUE /\ adj' = "exit"
  /\ \/ UNCHANGED <<anchor, write, audited>>
     \/ AuditStops /\ Pause("adj") /\ audited' = TRUE
  /\ UNCHANGED <<timeVars, inBatch, saved, mainVars, queue, work, probeVars, ran, entered,
                 owed, envVars>>

\* A summary or a hook fails: the exception passes through the finally clause,
\* and ends the beat unless it says that the LLM chain is exhausted.
SummaryFails ==
  /\ AdjReady /\ adj = "hooks" /\ adj' = "exit"
  /\ work' \in {work, NoWork}
  /\ UNCHANGED <<timeVars, clockVars, mainVars, queue, probeVars, historyVars, envVars>>

EndBatch ==
  /\ AdjReady /\ adj = "exit"
  /\ ExitBatch("adj") /\ adj' = "work"
  /\ UNCHANGED <<timeVars, saved, mainVars, queue, work, probeVars, historyVars, envVars>>

Adjudicate ==
  /\ AdjReady /\ adj = "work" /\ work.batches = {}
  /\ adj' = "idle" /\ work' = NoWork
  /\ \/ UNCHANGED queue
     \/ /\ work.turns
        /\ queue' = queue \cup {[kind |-> "wakeup", tick |-> work.tick + 1, hours |-> 0]}
  /\ UNCHANGED <<timeVars, clockVars, mainVars, probeVars, historyVars, envVars>>

(***************************************************************************)
(* FatalProbe.check_once.                                                  *)
(***************************************************************************)
ProbePause ==
  /\ Running /\ Ready("probe") /\ fault # "none" /\ ~probing
  /\ probing' = TRUE /\ Pause("probe")
  /\ UNCHANGED <<timeVars, inBatch, saved, mainVars, adjVars, fault, historyVars, envVars>>

\* Mutant: the resume is tried only when the probe's own flag is down.
ProbeNeverResumes ==
  /\ Running /\ Ready("probe") /\ fault = "none" /\ probing
  /\ probing' = FALSE
  /\ UNCHANGED <<timeVars, clockVars, mainVars, adjVars, fault, historyVars, envVars>>

\* The callback takes the planned position from resume and drops it.
ProbeResume ==
  /\ Running /\ Ready("probe") /\ fault = "none" /\ probing
  /\ probing' = FALSE
  /\ IF Paused
       THEN Resume("probe") /\ owed' = PlannedSim
       ELSE UNCHANGED <<anchor, write, owed>>
  /\ UNCHANGED <<timeVars, inBatch, saved, mainVars, adjVars, fault, ran, entered, settled,
                 audited, envVars>>

(***************************************************************************)
(* The database, faults, the end of the process, and time.                 *)
(***************************************************************************)
Commit(p) ==
  /\ up = "up" /\ write[p] # NoWrite /\ fault # "db"
  /\ saved' = write[p] /\ write' = [write EXCEPT ![p] = NoWrite]
  /\ UNCHANGED <<timeVars, anchor, inBatch, mainVars, adjVars, probeVars, historyVars, envVars>>

Forget ==
  /\ inBatch' = FALSE /\ write' = [p \in Procs |-> NoWrite]
  /\ main' = "load" /\ goal' = 0 /\ plan' = NoPlan /\ lastSeg' = None /\ signalled' = FALSE
  /\ queue' = {} /\ adj' = "idle" /\ work' = NoWork /\ probing' = FALSE

\* The write raises.  In the main coroutine nothing catches it and the task
\* group ends; the adjudication loop skips the rest of its beat, after the
\* finally clause when it is inside batch_advance's try; the probe logs it.
MainWriteFails ==
  /\ up = "up" /\ write["main"] # NoWrite /\ fault = "db" /\ ~Spinning
  /\ up' = "dead" /\ Forget
  /\ UNCHANGED <<timeVars, anchor, saved, fault, historyVars, faults, crashes>>

AdjWriteFails ==
  /\ up = "up" /\ write["adj"] # NoWrite /\ fault = "db" /\ ~Spinning
  /\ write' = [write EXCEPT !["adj"] = NoWrite]
  /\ adj' = IF adj = "exit" THEN "exit" ELSE "idle"
  /\ work' = NoWork
  /\ settled' = IF adj = "exit" THEN FALSE ELSE settled
  /\ UNCHANGED <<timeVars, anchor, inBatch, saved, mainVars, queue, probeVars, ran, entered,
                 audited, owed, envVars>>

ProbeWriteFails ==
  /\ up = "up" /\ write["probe"] # NoWrite /\ fault = "db" /\ ~Spinning
  /\ write' = [write EXCEPT !["probe"] = NoWrite]
  /\ UNCHANGED <<timeVars, anchor, inBatch, saved, mainVars, adjVars, probeVars, historyVars,
                 envVars>>

FaultBegins(k) ==
  /\ faults < MaxFaults /\ faults' = faults + 1
  /\ fault = "none" /\ fault' = k
  /\ UNCHANGED <<timeVars, clockVars, mainVars, adjVars, probing, historyVars, up, crashes>>

FaultEnds ==
  /\ fault # "none" /\ fault' = "none"
  /\ UNCHANGED <<timeVars, clockVars, mainVars, adjVars, probing, historyVars, envVars>>

Crash ==
  /\ crashes < MaxCrashes /\ crashes' = crashes + 1
  /\ up = "up" /\ up' = "down" /\ Forget
  /\ UNCHANGED <<timeVars, anchor, saved, fault, historyVars, faults>>

\* SIGTERM: the wait for the tick ends early, the clock is pinned to the tick
\* all the same, and the adjudication loop leaves without adjudicating it.
Stop ==
  /\ crashes < MaxCrashes /\ crashes' = crashes + 1
  /\ up = "up" /\ up' = "down" /\ main \in {"top", "sleep"} /\ fault # "db"
  /\ adj = "idle" /\ \A p \in Procs : Ready(p)
  /\ anchor' = IF main = "sleep" THEN [anchor EXCEPT !.sim = SimOfTick(goal), !.wall = wall]
               ELSE anchor
  /\ saved' = [sim |-> anchor'.sim, wall |-> anchor'.wall, ratio |-> anchor'.ratio,
               paused |-> anchor'.paused, tick |-> TickOf(SimAt(anchor', wall))]
  /\ Forget
  /\ UNCHANGED <<timeVars, fault, historyVars, faults>>

\* Something that would run at once if nothing held it up.
MainDue ==
  \/ main \in {"recover", "resume", "plan", "exit", "aim", "deliver"}
  \/ main = "drive" /\ NowSim >= plan.to
  \/ main = "top" /\ ~Paused /\ ~inBatch /\ (Continuous(Segment(wall)) \/ ~Signalled)
  \/ main = "sleep" /\ GoalReached
Due ==
  /\ up = "up" /\ ~Spinning
  /\ \/ MainDue
     \/ \E p \in Procs : write[p] # NoWrite
     \/ Running /\ (work.batches # {} \/ (adj # "hooks" /\ DueItems # {}))

WallPasses ==
  /\ wall < MaxWall /\ (Due => late < MaxLate)
  /\ wall' = wall + 1 /\ late' = IF Due THEN late + 1 ELSE 0
  /\ entered' = IF Segment(wall').id = Segment(wall).id THEN entered ELSE 0
  /\ UNCHANGED <<clockVars, mainVars, adjVars, probeVars, ran, settled, audited, owed, envVars>>

-----------------------------------------------------------------------------
Main ==
  \/ Load \/ Recover \/ RecoverResume \/ BeginCatchup \/ ExitCatchupBatch \/ FinishCatchup
  \/ SignalBatch \/ StartPass \/ Aim \/ Pin \/ Deliver

Adj ==
  \/ PopDue \/ \E i \in work.batches : BeginBatch(i)
  \/ RunHooks \/ SummaryFails \/ EndBatch \/ Adjudicate

Probe == ProbePause \/ ProbeResume

Writes ==
  \/ \E p \in Procs : Commit(p)
  \/ MainWriteFails \/ AdjWriteFails \/ ProbeWriteFails

Next ==
  \/ Main \/ Adj \/ Probe \/ Writes \/ WallPasses
  \/ (\E k \in FaultKinds : FaultBegins(k)) \/ FaultEnds \/ Crash \/ Stop

Spec == Init /\ [][Next]_vars

\* asyncio runs what is ready (Ready: while no coroutine spins), the database
\* answers, time passes.
Fairness ==
  /\ WF_vars(Main) /\ WF_vars(Adj) /\ WF_vars(Probe) /\ WF_vars(WallPasses)
  /\ \A p \in Procs : WF_vars(Commit(p))
  /\ WF_vars(MainWriteFails) /\ WF_vars(AdjWriteFails) /\ WF_vars(ProbeWriteFails)
  /\ WF_vars(FaultEnds)

FairSpec == Spec /\ Fairness

-----------------------------------------------------------------------------
(***************************************************************************)
(* Properties.                                                             *)
(***************************************************************************)
Anchor == [sim : Int, wall : Int, ratio : Nat, paused : Int]
Row == [sim : Int, wall : Int, ratio : Nat, paused : Int, tick : Int]
Item == [kind : {"tick", "batch", "wakeup"}, tick : Int, hours : Nat]

TypeOK ==
  /\ wall \in 0..MaxWall /\ late \in 0..MaxLate
  /\ up \in {"up", "down", "dead"}
  /\ anchor \in Anchor /\ saved \in Row /\ write \in [Procs -> Row] /\ inBatch \in BOOLEAN
  /\ main \in {"load", "recover", "resume", "plan", "exit", "drive"} \cup
              {"top", "aim", "sleep", "deliver"}
  /\ goal \in Int /\ plan \in [downtime : Int, to : Int]
  /\ lastSeg \in Int /\ signalled \in BOOLEAN
  /\ queue \subseteq Item /\ work \in [batches : SUBSET Item, tick : Int, turns : BOOLEAN]
  /\ adj \in {"idle", "work", "hooks", "exit"}
  /\ probing \in BOOLEAN /\ fault \in FaultKinds \cup {"none"}
  /\ ran \in Int /\ entered \in Nat /\ owed \in Int
  /\ {settled, audited} \subseteq BOOLEAN
  /\ faults \in 0..MaxFaults /\ crashes \in 0..MaxCrashes

\* No tick is handed to adjudication twice, over restarts too: its number is
\* the seed of the dice and the tick of the events (adjudication_loop).  A batch
\* that a crash cuts off starts over, and a write that a fault holds up may
\* bring back an older anchor.
NoTickTwice ==
  [][main = "deliver" /\ main' = "top" /\ settled /\ faults = 0 => ran' > ran]_vars

\* However real time goes, with segments, changes of ratio, pauses and resumes: the
\* tick, all that adjudication sees of time, stands still in a pause and never falls
\* back, and every tick is handed to adjudication (now_sim, set_ratio, pause, resume).
TicksInOrder ==
  [][/\ up = "up" /\ up' = "up" /\ Paused /\ Paused' => CurrentTick' = CurrentTick
     /\ up = "up" /\ up' = "up" => CurrentTick' >= CurrentTick
     /\ main = "deliver" /\ main' = "top" => ran' <= ran + 1]_vars

\* No tick is handed out while a batch advances the world: the summaries of the
\* batch stand for the cognition of that time (TimeEngine.run, batch_advance).
NoTickInBatch == [][main = "deliver" /\ main' = "top" => ~inBatch]_vars

\* A restart is at the planned position when its catch-up ends, by fast running
\* or by a batch (run_catchup: the pause may have lasted over a crash).
CaughtUp == [][main' = "top" /\ main \in {"drive", "exit"} => NowSim' >= plan.to]_vars

\* The world enters one batch for a batch segment: the signal of a segment is
\* given once (TimeEngine.run).  A restart inside the segment gives it again.
OneBatchPerSegment == entered <= 1

\* The catch-up of a restart starts where the world had stopped, not where the
\* real time that passed meanwhile has carried the anchor (_restart_recovery).
CatchupStartsWhereItStopped == main = "plan" => CurrentTick <= ran + 1

\* When the last fault is over the clock runs again, unless the pause has caught
\* the adjudication loop with a wake-up for a later tick: that loop then keeps the
\* event loop to itself, the probe with it (FatalProbe.check_once, adjudication_loop).
ClockRunsAgain == <>[](up = "up" /\ ~Paused /\ ~inBatch) \/ <>[]Spinning

=============================================================================
