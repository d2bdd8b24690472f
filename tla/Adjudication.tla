---------------------------- MODULE Adjudication ----------------------------
(***************************************************************************)
(* The adjudication coroutine of the kernel: the queue it consumes           *)
(* (adjudicator/queue.py), its main loop and the six-step pipeline           *)
(* (adjudicator/pipeline.py), the general rules of step 4 and the effects of *)
(* step 5 on places and occupation (adjudicator/validators.py), the fallback *)
(* schedule (scheduler/lod.py) and the dwelling rule for people who live     *)
(* outside (scheduler/residence.py).                                         *)
(*                                                                           *)
(* Ticks are counted from the tick of the current pass: `lag` is how far the *)
(* wall clock has carried current_tick since, `due` and `busy` are the ticks *)
(* that remain.  The loop asks for the wake-ups of tick + 1 only, so one     *)
(* bucket `wakes` holds them.  All coroutines share one event loop: another  *)
(* coroutine runs only while this one awaits (Yields).                       *)
(***************************************************************************)
EXTENDS Integers, Sequences, FiniteSets, SequencesExt

CONSTANTS
  Tenants,    \* agents with a room of their own (agents.room_no)
  Npcs,       \* agents without one: they live outside (room_no IS NULL)
  Dozers,     \* the background tier: no fallback schedule
  Weary,      \* bound: those whose energy may fall below 10
  Slots,      \* decisions in flight at once (WSIM_DECISION_CONCURRENCY)
  Every,      \* ticks between two fallback turns (STAR_INTERVAL)
  MaxBusy,    \* bound: ticks an action can occupy its agent (SIM_COST_RANGE)
  MaxLag      \* bound: ticks since the pass are counted up to here

Agents == Tenants \union Npcs

ASSUME AdjAssumption ==
  /\ Agents \subseteq Nat /\ IsFiniteSet(Agents) /\ Tenants \intersect Npcs = {}
  /\ Dozers \subseteq Agents /\ Weary \subseteq Agents
  /\ {Slots, Every, MaxBusy, MaxLag} \subseteq Nat \ {0}

VARIABLES
  pc,       \* where the loop is: "look", "wait", "pass", "think", "turn", "after"
  lag,      \* current_tick minus the tick of the pass
  owed,     \* clock.run has not yet put the CLOCK_TICK of current_tick
  ticked,   \* a CLOCK_TICK item is queued and due
  batch,    \* an enter_batch world event is queued
  wakes,    \* the WAKEUP bucket of the tick after the pass, in order
  turn,     \* agents_due of the pass, those not settled yet
  mind,     \* per agent of the pass: the decision, or how far it has come
  due,      \* ticks to next_due_sim
  pos,      \* agents.position
  low,      \* needs.energy < 10
  busy,     \* ticks to the end of the running action (_busy)
  work,     \* working hours (TRUE) or the dwelling window
  paused    \* the clock is paused

loop  == <<pc, turn, mind>>
queue == <<lag, owed, ticked, batch, wakes>>
city  == <<pos, low, busy>>
vars  == <<loop, queue, city, due, work, paused>>

Places == {"own", "lobby", "dept", "hall", "home"}
InFlat(p) == p \in {"own", "lobby"}
InCorp(p) == p \in {"dept", "hall"}

\* What a decision may ask for.  "deed" stands for work, eat, shop and
\* trade_stock, "meet" for the nine actions with a partner in the same place,
\* "write" for send_message and invite, whose target may be anywhere.
Wishes ==
  ({"think", "deed", "rest"} \X {"-"}) \union ({"move"} \X (Places \ {"home"}))
    \union ({"meet", "write"} \X Agents)

Degraded == <<"think", "-">>
Minds == {"idle", "ask", "retry", "answered", "degraded"}

\* What an answer asks for matters only when it is settled: it is chosen there.
Wanted(m) == IF m = "degraded" THEN {Degraded} ELSE Wishes
Pick(f, v, D) == [x \in DOMAIN f |-> IF x \in D THEN v ELSE f[x]]

\* Mutant: the remaining ticks never run out.
AfterStanding(f, n) == f

\* What is left of the ticks in f when n have passed.
After(f, n) == [x \in DOMAIN f |-> IF f[x] > n THEN f[x] - n ELSE 0]

TypeOK ==
  /\ pc \in {"look", "wait", "pass", "think", "turn", "after"}
  /\ lag \in 0..MaxLag /\ {owed, ticked, batch, work, paused} \subseteq BOOLEAN
  /\ wakes \in Seq(Agents) /\ IsInjective(wakes)
  /\ turn \in Seq(Agents) /\ IsInjective(turn)
  /\ mind \in [Agents -> Minds]
  /\ due \in [Agents -> 0..Every] /\ busy \in [Agents -> 0..MaxBusy]
  /\ pos \in [Agents -> Places] /\ low \in [Agents -> BOOLEAN]

Init ==
  /\ pc = "look" /\ lag = 0 /\ owed = FALSE /\ ticked = FALSE /\ batch = FALSE /\ wakes = <<>>
  /\ turn = <<>> /\ mind = [a \in Agents |-> "idle"]
  /\ due = [a \in Agents |-> 0] /\ busy = [a \in Agents |-> 0]
  /\ pos = [a \in Agents |-> IF a \in Tenants THEN "lobby" ELSE "dept"]
  /\ low = [a \in Agents |-> FALSE]
  /\ work = TRUE /\ paused = FALSE

-----------------------------------------------------------------------------
(* The other coroutines of the event loop, and the wall clock.              *)

\* The loop is at an await, so other coroutines can run.  On the way round
\* from "look" to "look" there is none.
Yields == pc # "look"

\* current_tick follows the wall clock whatever the coroutines do.
WallTick ==
  /\ ~paused /\ (lag < MaxLag \/ ~owed)
  /\ lag' = (IF lag < MaxLag THEN lag + 1 ELSE lag) /\ owed' = TRUE /\ work' \in BOOLEAN
  /\ UNCHANGED <<loop, ticked, batch, wakes, city, due, paused>>

\* clock.run: the fallback item of a tick that has come, perhaps after a
\* wake-up of the same tick has already started a pass.
PutClockTick ==
  /\ Yields /\ ~paused /\ owed
  /\ ticked' = TRUE /\ owed' = FALSE
  /\ UNCHANGED <<loop, lag, batch, wakes, city, due, work, paused>>

\* clock.run reaches the batch segment: on_enter_batch, due at once.
PutEnterBatch ==
  /\ Yields /\ ~paused /\ ~batch
  /\ batch' = TRUE
  /\ UNCHANGED <<loop, lag, owed, ticked, wakes, city, due, work, paused>>

\* The probe pauses the clock, and resumes it when it finds things well.
Probe ==
  /\ Yields
  /\ paused' = ~paused
  /\ UNCHANGED <<loop, queue, city, due, work>>

-----------------------------------------------------------------------------
(* The main loop.                                                           *)

Nothing == ~ticked /\ ~batch /\ wakes = <<>>
WakesDue == lag > 0 /\ wakes # <<>>

\* An empty queue is waited for: until a put, or half a second.
Rest ==
  /\ pc = "look" /\ Nothing /\ pc' = "wait"
  /\ UNCHANGED <<turn, mind, queue, city, due, work, paused>>

WakeUp ==
  /\ pc = "wait" /\ pc' = "look"
  /\ UNCHANGED <<turn, mind, queue, city, due, work, paused>>

\* Only items of later ticks: nothing to do and nothing awaited.
Spin ==
  /\ pc = "look" /\ ~Nothing /\ ~ticked /\ ~batch /\ ~WakesDue
  /\ UNCHANGED vars

\* The wake-ups a pop leaves in the queue: those of a tick that has not come.
Kept == IF lag > 0 THEN <<>> ELSE wakes

\* The members of S in ascending order (ORDER BY id).
Ascending(S) == [i \in 1..Cardinality(S) |-> CHOOSE x \in S : Cardinality({y \in S : y < x}) = i - 1]

\* Mutant: an agent both woken and due gets two turns.
InTurnTwice(woken, timed) == woken \o Ascending(timed)

\* The order of a pass: those woken, then those the fallback schedule adds.
InTurn(woken, timed) == woken \o Ascending(timed \ ToSet(woken))

\* collect_due: whom the fallback schedule has due, the background tier never.
Timed(left) == {a \in Agents \ Dozers : ticked /\ left[a] = 0}

\* pop_due: the pass begins at current_tick.  Its wake-ups come first; the
\* fallback schedule adds whoever else is due and sets the next time.
Pop ==
  /\ pc = "look" /\ (ticked \/ batch \/ WakesDue)
  /\ pc' = IF batch THEN "pass" ELSE "think"
  /\ LET left   == After(due, lag)
         woken  == IF lag > 0 THEN wakes ELSE <<>>
         timed  == Timed(left)
     IN /\ turn' = InTurn(woken, timed)
        /\ due' = Pick(left, Every, timed)
        /\ mind' = [a \in Agents |-> "idle"]
        /\ wakes' = Kept
  /\ busy' = After(busy, lag)
  /\ lag' = 0 /\ ticked' = FALSE /\ batch' = FALSE
  /\ UNCHANGED <<owed, pos, low, work, paused>>

\* batch_advance carries the clock hours ahead; the pass keeps its old tick.
\* The audit among its hooks may pause the clock.
Batch ==
  /\ pc = "pass" /\ pc' = "think"
  /\ lag' = MaxLag
  /\ work' \in BOOLEAN /\ paused' \in BOOLEAN
  /\ UNCHANGED <<turn, mind, owed, ticked, batch, wakes, city, due>>

-----------------------------------------------------------------------------
(* Steps 1 to 3: decisions are asked for concurrently, nothing is written.   *)

Asking == {a \in Agents : mind[a] \in {"ask", "retry"}}

Ask(a) ==
  /\ pc = "think" /\ a \in ToSet(turn) /\ mind[a] = "idle"
  /\ Cardinality(Asking) < Slots
  /\ mind' = [mind EXCEPT ![a] = "ask"]
  /\ UNCHANGED <<pc, turn, queue, city, due, work, paused>>

\* The model answers with an action that parses.
Answer(a) ==
  /\ pc = "think" /\ a \in Asking
  /\ mind' = [mind EXCEPT ![a] = "answered"]
  /\ UNCHANGED <<pc, turn, queue, city, due, work, paused>>

\* An answer that does not parse is asked for once more, then given up.
Garbled(a) ==
  /\ pc = "think" /\ a \in Asking
  /\ mind' = [mind EXCEPT ![a] = IF @ = "ask" THEN "retry" ELSE "degraded"]
  /\ UNCHANGED <<pc, turn, queue, city, due, work, paused>>

\* The provider chain is exhausted: degraded at once.
Unreachable(a) ==
  /\ pc = "think" /\ a \in Asking
  /\ mind' = [mind EXCEPT ![a] = "degraded"]
  /\ UNCHANGED <<pc, turn, queue, city, due, work, paused>>

Gathered ==
  /\ pc = "think" /\ \A a \in ToSet(turn) : mind[a] \in {"answered", "degraded"}
  /\ pc' = "turn"
  /\ UNCHANGED <<turn, mind, queue, city, due, work, paused>>

-----------------------------------------------------------------------------
(* Steps 4 and 5: one agent after the other, on the state as it is now.      *)

Exits(a) ==
  CASE InFlat(pos[a]) -> {"lobby"} \union (IF work THEN {"dept"} ELSE {})
                           \union (IF a \in Tenants THEN {"own"} ELSE {})
    [] InCorp(pos[a]) -> {"hall"}
    [] OTHER -> {}

\* The rooms called "own" and "home" are each agent's own.  Nothing keeps a
\* decision from naming its own author as the partner.
Together(a, b) == pos[a] = pos[b] /\ (pos[a] \in {"own", "home"} => a = b)
Selfish(a, w) == w[1] \in {"meet", "write"} /\ w[2] = a

Reachable(a, w) ==
  CASE w[1] = "move" -> w[2] \in Exits(a) \ {pos[a]}
    [] w[1] = "meet" -> Together(a, w[2])
    [] w[1] = "rest" -> a \in Tenants /\ pos[a] = "own"
    [] OTHER -> TRUE

Exhausted(a, w) == low[a] /\ w[1] # "rest" /\ w # <<"move", "own">>

\* Mutant: the running action is not looked at.
AllowedWhileBusy(a, w) == ~Exhausted(a, w) /\ Reachable(a, w)

Allowed(a, w) == ~Exhausted(a, w) /\ Reachable(a, w) /\ busy[a] = 0

\* What settling w does to the places, the energy and the occupation of a.
Effect(a, w) ==
  /\ pos' = IF w[1] = "move" THEN [pos EXCEPT ![a] = w[2]] ELSE pos
  /\ low' = IF w[1] = "rest" THEN [low EXCEPT ![a] = FALSE] ELSE low
  /\ \E n \in 1..MaxBusy : busy' = [busy EXCEPT ![a] = n]

\* The partner decides at the next tick; two wake-ups of one agent merge.
Woken(w) ==
  IF w[1] \in {"meet", "write"} /\ w[2] \notin ToSet(wakes) THEN Append(wakes, w[2])
  ELSE wakes

Mover == Head(turn)
Served ==
  /\ turn' = Tail(turn) /\ mind' = [mind EXCEPT ![Mover] = "idle"]
  /\ pc' = IF Len(turn) = 1 THEN "after" ELSE "turn"

Settle(w) ==
  /\ pc = "turn" /\ turn # <<>> /\ w \in Wanted(mind[Mover])
  /\ Allowed(Mover, w) /\ ~Selfish(Mover, w)
  /\ Effect(Mover, w)
  /\ wakes' \in IF w[1] = "write" THEN {wakes, Woken(w)} ELSE {Woken(w)}
  /\ Served
  /\ UNCHANGED <<lag, owed, ticked, batch, due, work, paused>>

\* Exhausted inside the flat: sent home, or to bed, whatever was decided.
Forced(a, w) == a \in Tenants /\ Exhausted(a, w) /\ InFlat(pos[a])
Bedwards(a) == IF pos[a] = "own" THEN <<"rest", "-">> ELSE <<"move", "own">>

\* Refused by a general rule, or by a rule of the action itself: hunger, a
\* cooldown, an appointment, money or an argument may refuse anything.
Refuse(w) ==
  /\ pc = "turn" /\ turn # <<>> /\ w \in Wanted(mind[Mover])
  /\ ~Forced(Mover, w)
  /\ Served
  /\ UNCHANGED <<queue, city, due, work, paused>>

\* The settlement of the forced action does not ask what the agent is
\* occupied with.
Redirect(w) ==
  /\ pc = "turn" /\ turn # <<>> /\ w \in Wanted(mind[Mover])
  /\ Forced(Mover, w) /\ Effect(Mover, Bedwards(Mover))
  /\ Served
  /\ UNCHANGED <<queue, due, work, paused>>

\* A statement of step 5 or 6 fails, after the agent was marked occupied or
\* even after the action took effect: the rest of the pass is dropped.  Only
\* an exhausted chain still lets the end of the pass run.
Break(w) ==
  /\ pc = "turn" /\ turn # <<>> /\ w \in Wanted(mind[Mover])
  /\ \/ UNCHANGED city
     \/ Allowed(Mover, w) /\ (Effect(Mover, w) \/ Effect(Mover, Degraded))
     \/ Forced(Mover, w) /\ (Effect(Mover, Bedwards(Mover)) \/ Effect(Mover, Degraded))
  /\ turn' = <<>> /\ mind' = [a \in Agents |-> "idle"]
  /\ pc' \in {"look", "after"}
  /\ UNCHANGED <<queue, due, work, paused>>

\* A partner who is the agent itself: the relation edge from A to A raises
\* after the event is written, and the pass ends there.
Trip(w) ==
  /\ pc = "turn" /\ turn # <<>> /\ w \in Wanted(mind[Mover])
  /\ Allowed(Mover, w) /\ Selfish(Mover, w)
  /\ Effect(Mover, w)
  /\ turn' = <<>> /\ mind' = [a \in Agents |-> "idle"] /\ pc' = "look"
  /\ UNCHANGED <<queue, due, work, paused>>

\* An exception while observing, in the batch or in after_tick: the pass is
\* logged and dropped.
Fail ==
  /\ pc \in {"pass", "think", "after"} /\ pc' = "look"
  /\ turn' = <<>> /\ mind' = [a \in Agents |-> "idle"]
  /\ UNCHANGED <<queue, city, due, work, paused>>

EmptyPass ==
  /\ pc = "turn" /\ turn = <<>> /\ pc' = "after"
  /\ UNCHANGED <<turn, mind, queue, city, due, work, paused>>

\* after_tick: whoever lives outside is put where the hour wants them, unless
\* an overtime or team evening keeps them; needs decay and recover.
AfterTick ==
  /\ pc = "after" /\ pc' = "look"
  /\ \E kept \in SUBSET Npcs :
       pos' = Pick(pos, IF work THEN "dept" ELSE "home", Npcs \ kept)
  /\ \E tired \in SUBSET Weary : low' = [a \in Agents |-> a \in tired]
  /\ UNCHANGED <<turn, mind, queue, busy, due, work, paused>>

-----------------------------------------------------------------------------
Turns ==
  \/ Rest \/ WakeUp \/ Pop \/ Batch \/ Gathered
  \/ \E a \in Agents : Ask(a) \/ Answer(a) \/ Garbled(a) \/ Unreachable(a)
  \/ \E w \in Wishes : Settle(w) \/ Refuse(w) \/ Redirect(w) \/ Trip(w)
  \/ EmptyPass \/ AfterTick

Others == WallTick \/ PutClockTick \/ PutEnterBatch \/ Probe

Next == Turns \/ Spin \/ (\E w \in Wishes : Break(w)) \/ Fail \/ Others

Spec == Init /\ [][Next]_vars

\* The loop runs whenever it can, the wall clock goes on, and the event loop
\* is a queue: clock.run gets its turn at one of the awaits it waits for.  No
\* answer, pause or fault is owed.
FairSpec ==
  /\ Spec
  /\ WF_vars(Turns) /\ SF_vars(WallTick) /\ SF_vars(PutClockTick)

-----------------------------------------------------------------------------
\* The pipeline keeps the rules of the city: however the answers arrive, each
\* is judged on the state its turn finds, so people act one at a time, along
\* open doors, and not twice without time passing in between (pipeline.py
\* step 4, validators.check).
Rules ==
  INSTANCE City WITH where <- pos, tired <- low, hours <- work,
    occupied <- {a \in Agents : busy[a] > 0}
CityRules == Rules!Spec

\* Unless the clock is paused: everybody with a fallback schedule gets a turn again
\* and again, whoever interrupts the passes (lod.py, collect_due); and the background
\* tier, which has no turn but the one it is addressed for, gets that one
\* (queue.py, put_wakeup).
EverybodyIsHeard ==
  /\ \A a \in Agents \ Dozers : []<>(a \in ToSet(turn)) \/ <>[]paused
  /\ \A a \in Dozers : (a \in ToSet(wakes)) ~> (a \in ToSet(turn) \/ paused)

\* The loop never keeps the other coroutines from running for good: it waits
\* when it has nothing to do (pipeline.py, adjudication_loop).
OthersRun == []<>Yields
=============================================================================
