# WorldSim verification project

WorldSim (CitySim) simulates a small society around the clock.  A **kernel** process advances
simulated time, lets agents decide with the help of LLMs, adjudicates what they do and appends
everything that happens to an `events` table.  An **ingest** process in the cloud keeps a read-only
**replica** of that table; **observers** (a REST and WebSocket server, a web client, a stream screen)
read the replica.  This directory holds TLA+ models of the parts of the kernel and the ingest side
where order, crashes and time decide whether the program is right, the TLC runs that check them and
the TLAPS proofs of what holds for every size of the model.

Paths below are relative to `src/server/worldsim/` unless they say otherwise.

## 1. Inventory

| Component | State it keeps | Operations | Talks to | Hard part | What makes it correct |
|---|---|---|---|---|---|
| Event replication: `sync/outbox.py`, `sync/ws_client.py`, `ingest/ws.py`, `ingest/batch.py` | `events`, `sync_state` (kernel); cursor and send buffer (memory); reorder buffer (memory); replica's `events` | append, connect, batch, catch up, submit, ack, nack, rebuild | WebSocket frames | reordering, resends, lost connections, crashes on both sides, a reseeded world, a restored replica | no holes, nothing acknowledged that is not stored, one world at a time, convergence |
| Clock, tick loop, batch advance: `time_engine/*`, `adjudicator/queue.py`, `audit/probe.py`, start-up in `main.py` | anchor (memory and `world_state` row), batch mode, queue, pause | set ratio, pause, resume, tick, batch, catch-up, probe | adjudication queue, database, probe callbacks | three coroutines move one anchor, each write of it is an await; restart after a crash | time never falls back, each tick once, one batch per night, catch-up reaches the plan |
| Adjudication: `adjudicator/pipeline.py`, `validators.py`, `state_events.py`, `dialogue.py`, `grade.py` | observation snapshots, decision tickets, need/relation caches and their buffered changes | plan, re-read, validate, settle, degrade, flush | events, memory, LLM gateway | decisions run concurrently, settlement serially; several statements per settlement | proposals see current state; caches match events |
| World agent: `world_agent/calendar.py`, `economy.py`, `disturb.py` | `calendar.last_settled`, balances, `overdue.*`, stocks, disturbance budgets | settle a span of hours, payroll, bills, overdue, disturb | events, balances | a span is many statements, interrupted anywhere | every job once, money conserved |
| Director: `world_agent/director/*` | arcs, quota of interventions, grade revisions | open, advance, close arcs; intervene | events | daily jobs against concurrent events | quota, arc states |
| Invitations: `invite/*` | open invitations as events | send, respond, counter, accept, cancel, remind, stood-up | events, relations, needs | an invitation is answered, cancelled, missed concurrently | one outcome per invitation |
| Cast rotation: `scheduler/*` | tier of each agent, hysteresis counters, residence | promote, demote, rotate | agents, LLM budget | several promoters, one cap; an exchange is many statements and may be cut short | caps, churn, star seats |
| LLM gateway: `llm_gateway/*` | failover breaker, cost ladder, ledger | call, retry, repair, fall back | providers | late answers of a failed provider | state follows outcomes, levels do not flap |
| Relations, needs, goals, topics: `relations/*` | need and relation caches, goals, topics | decay, apply, advance, spread | events | caches against events | clamping, cache equals fold of events |
| Memory: `memory/*` | memories, reflection counters | store, reflect, prune, retrieve | LLM gateway | weekly cap, threshold | caps |
| Other streams: `sync/digest.py`, `sync/snapshot.py`, `sync/https_fallback.py`, `ingest/digest.py` | positions of memories, snapshots and latest state; daily digests | send, compare, re-project | HTTP, WebSocket | one reset, several positions | convergence after a reset |
| Derived tasks: `ingest/derived/*` | `derived_tasks` | claim, run, retry, sweep | replica | a worker dies, two workers claim | each task done, or given up after its attempts |
| Audit, probe, metrics: `audit/*` | fault and pause flags | check, pause, alert | clock | two owners of one pause | (in the clock's model) |
| Snapshots: `snapshot/*` | files | dump | - | pure serialisation | canonical form |
| Observer: `observe/*`; clients: `src/web`, `src/stream` | subscriptions, timelines, playback | subscribe, resume, merge | replica | resume over a rebuild | no event missed or shown twice |
| Safety, cleaning, scripts, wiring | - | - | - | text, one-shot tools | - |

`PROJECT.json` lists the same components with their status, and under `hazards` each place where the
code is hard to test.

## 2. Modules

| Module | Role |
|---|---|
| `EventSync` | the event stream, kernel to replica |
| `LogCopy` | what the stream promises: the abstract specification `EventSync` implements |
| `SimClock` | the clock and the coroutines that move it |
| `Adjudication` | the queue, the loop, deciding and settling, the dwelling rule |
| `City` | what the rules of the city promise: the abstract specification `Adjudication` implements |
| `Economy` | the calendar and the money it moves |
| `Relations` | needs and relations, the aggregator that records and flushes them, cooldowns |
| `Invite` | invitations and appointments |
| `Cast` | the three tiers of attention |
| `Office` | attendance, leave, stock, rumours, reviews, overtime, team building |
| `Goals` | goals of the week, frustration |
| `Talk` | topics of conversations |
| `Gateway` | calls to the language models and the failover breaker |
| `CostBreaker` | the brake on the models' cost, and who pauses the clock |
| `Memory` | entries, reflection, merging, archiving |
| `Director` | story arcs, interventions, the review of grades |
| `Replica` | what the replica derives, and its other two streams |
| `Screen` | the observer's WebSocket and the viewer at its other end |
| `Audit` | the nightly audit and its alerts |
| `MCEventSync`, `MCSimClock`, `MCAdjudication`, `MCEconomy`, `MCGoals`, `MCScreen` | instances of one module each for TLC |
| `MCTown` | `Relations`, `Invite`, `Cast`, `Office`, `Goals`, `Talk` for TLC |
| `MCMachine` | `Gateway`, `CostBreaker`, `Memory`, `Director`, `Replica`, `Screen`, `Audit` for TLC |
| `EventSyncProofs`, `SimClockProofs`, `AdjudicationProofs`, `EconomyProofs` | theorems about the module of that name |
| `OfficeProofs` | theorems about `Office` and `Goals` |
| `TownProofs` | theorems about `Relations`, `Invite`, `Cast`, `Talk` |
| `ReplicaProofs` | theorems about `Replica` and `Screen` |
| `MachineProofs` | theorems about `Gateway`, `CostBreaker`, `Memory`, `Director`, `Audit` |

`MCTown` and `MCMachine` run several modules *one at a time*: a constant variable `part` says whose
behaviour it is.  The parts share no variable, so this checks what a run of each would.  It is a sum
of the parts, not a composition: where one component waits for another, the other appears inside
the module as a choice (a batch, a pause, an event that others write).

Operators marked `Mutant:` are plausible slips of a programmer in the action below them; no
specification uses them.  They show that a property is able to fail.

### EventSync

| State | Code |
|---|---|
| `row[s]` | what `events` holds under number `s`: none, an INSERT that has taken its number, a row to send, a row that never leaves the machine (`BLOCKED_EVENT_TYPES`), a number lost to a rollback |
| `gen` | which world the kernel runs; a reseed starts the next, with numbers from 1 |
| `acked` | `sync_state.last_acked_seq` |
| `cursor`, `buffer` | `SyncClient._cursor_seq`, `_pending_events` |
| `phase`, `inFlight`, `budget` | the position inside `run_forever`, `sync_once`, `_catchup` and the latter's locals |
| `toCloud`, `toKernel` | frames on the one WebSocket, in order, lost when it closes |
| `replica[s]` | the replica's row under `s`, as the world that wrote it |
| `pending`, `job` | `BatchBuffer._pending` and the `submit` call in progress |

A row is its number and its world.  Two rows with one number from different worlds differ in
content, which is what the fingerprint comparison in `batch.py` detects, so content needs no further
model.  `sim_time` is the number plus the world's origin.  `submit` is several transactions and is
several actions here (`ReceiveBatch`, `Flush`, `SendAck`, `Rebuild*`); its connection may be gone
before the last, in which case `job.live` is false and the reply goes nowhere.  `Backlog` counts rows
that will not be sent as well, as the code's query does.

`LogCopy` has a log, a copy and a position: the log grows at its end, the copy is always a beginning
of it and is shortened only by a loss, of which there are `MaxLosses`; the position moves to what the
copy holds, and backwards only after a loss.  `EventSync` refines it with `log` as the rows to send
in the order of their numbers, `copy` as the highest row of the replica, `safe` as `acked` and the
restores of the replica as the losses (`CopiesTheLog`).  Frames, buffers, windows, resends and
crashes are all inside a step or a stutter of that.

Not in the module: several submit handlers at once, the schema nack, the HTTPS fallback (`main.py`
does not wire it).  The memory and snapshot streams and `mode="reproject"` are in `Replica`.

### SimClock

A step is what runs between two awaits.  Every operation on the anchor changes it in memory at once
and then awaits a connection and an UPDATE; `write[p]` is the value coroutine `p` has on its way and
`Commit(p)` is its arrival in the row `saved`.  `main` walks through start-up, recovery, catch-up and
the passes of `TimeEngine.run`; `adj` and `work` are the adjudication loop and the `batch_advance` it
runs; `probing` and `fault` are `FatalProbe`.  `ran`, `entered`, `settled`, `audited`, `owed` are
history variables for the properties.

`wall` counts coarse units of real time.  `WallPasses` waits for whatever is due, up to `MaxLate`
units: an event loop that is never more than that behind.  Adjudication, summaries and hooks may
take any time.  Ratios, tick lengths and thresholds are scaled down; the order among them is kept
(a tick is several units, catch-up doubles the ratio up to a cap, a pause may be shorter or longer
than the threshold).

`Deliver` does not wait for the beat to end.  `TimeEngine.run` does so where it is given a
`drain_event` (`clock.py:402`), and `main.py:156` gives it one in a trial run only (`drained =
asyncio.Event() if trial else None`).  A kernel that serves puts the tick into the queue and goes on to
its next pass; ticks that come due during a long beat wait in the queue (`queue`), each with its number.

`Spinning` is the adjudication loop with a wake-up for a later tick in its queue while a pause keeps that
tick from coming: it goes round without an await, and no other coroutine has a turn (`Ready`), the
fault probe, which would lift the pause, included.  `turns_spin` finds this; here it limits what is
said of the others.  Under a clock that runs the spin ends with the tick, and all it does is make the
others late by a tick at most, which `MaxLate = 0` leaves out.

Not in the module: the SIGHUP reload of the table, trial and unthrottled modes, what a tick adjudicates.

### Economy

The calendar, its jobs and the actions of agents run on the adjudication coroutine, one after the
other, so nothing interleaves with a settlement; but a settlement is several statements, each its
own transaction, and may be cut short at any of them.  `todo` is what is left of the settlement in
progress, `span` what is left of `settle_span`, and each statement is an action (`DoEvent`,
`DoCharge`, ...).  `Fail` is an exception, which ends the beat (`adjudication_loop` catches it and
goes on); `Crash` also forgets `CalendarEngine._last_settled`.

| State | Code |
|---|---|
| `saved`, `last` | the row `calendar.last_settled`, `_last_settled` |
| `balance`, `room` | `agents.balance_cents`, `room_no` |
| `booked[a][k]` | the sum of `amount_cents` over the events of `a` of kind `k` |
| `loan[l][b]` | the open rows of `debts`, what is left of each |
| `owed`, `months` | `world_state` `overdue.<a>`: `owed_cents` by kind, `periods` of the rent entry |

Times, months and jobs come from the constant `Schedule`, in the order in which `settle_span` sorts
them; amounts are small numbers of cents, chosen below and above each other.  `billed`, `lent`,
`noticed`, `done`, `first`, `off` are history.  Not in the module: needs, relations, memories,
shares and their prices, lucky finds, the charge of a team building, the director's answer to a tenant whom
no room is found for (none of them changes what is modelled, except that sales, finds and team
buildings move money in the same two statements).

### Adjudication and City

| State | Code |
|---|---|
| `pc` | where `adjudication_loop` is: looking at the queue, waiting, in a pass, thinking, settling a turn, in `after_tick` |
| `ticked`, `batch`, `wakes` | the items of `EventQueue`: the clock's tick, `enter_batch`, the wake-ups of the next tick |
| `lag`, `owed` | how far `current_tick` has left the pass behind; a tick that `clock.run` has not put yet |
| `turn`, `mind` | `agents_due` and what each of their deciding coroutines has come to |
| `due` | ticks to `next_due_sim` of the fallback schedule (`scheduler/lod.py`) |
| `pos`, `low`, `busy` | `agents.position`, energy below 10, `_busy` |
| `work`, `paused` | working hours or the dwelling window; the clock's pause |

Deciding is concurrent and limited by `Slots`; settling is serial, re-reads the position first and is
several steps: validation, downgrade to a forced `rest`, effects, the events, `after_tick`.  An
exception ends the pass and drops what was popped.  `Yields` says where the coroutine awaits; nobody
else moves elsewhere, which is what the run `turns_spin` is about.

`City` says where people are, who is exhausted and who is occupied, and knows nothing of queues,
snapshots or answers: somebody free does one thing, through a door that is open, exhausted people
only go home or to bed, or break off on the way, time frees the occupied, the evening moves those who
live outside.  `CityRules` is `City!Spec` with `where`, `tired`, `hours` mapped to `pos`, `low`, `work`,
and `occupied` to those whose `busy` is above 0.  What the rules of single actions refuse (hunger,
cooldowns, appointments, money, arguments) is the choice of `Refuse`.

### Relations

| State | Code |
|---|---|
| `need`, `edge` | the columns `agents.needs`, `relations` |
| `needBuf`, `edgeBuf` | the aggregator of the tick (`state_events.py`) |
| `needLog`, `edgeLog` | what `needs.changed` and `relation.changed` events add up to |
| `until` | the table `intent_cooldown` |
| `script` | the statements that are left of the action being settled |

Each handler of `validators.py` and `dialogue.settle_chat` is a list of statements (`ScriptOf`) that
commit one by one.  `CacheIsReplay` relates cache, buffer and log between all of them: a crash may
lose a buffered change from the log, and then only then.

### Invite

There is no table of appointments; `invites`, `appts`, `reminded`, `stoodUp`, `cancelled`, `seen`
and `charged` are the events and memories that `state_machine.py` looks up.  `driven` and `leapt`
say whether `drive_invite_due` saw each quarter of an hour.  Answers have no caller in the kernel yet
and are taken as `test_invite*.py` uses them: one final answer for an invitation.  `cancel` does not
ask whether the appointment is off already, so it may be called again and charges again; `cancelled`
and `charged` count, and `MaxCancels` bounds the calls.

### Cast

| State | Code |
|---|---|
| `tier`, `over`, `under`, `lastSeen` | `agents.cognition_tier`, `consecutive_over`, `consecutive_under`, the last event with the agent |
| `byEvent` | whether the last `agent.promoted` event of the agent has the reason `event_driven` |
| `targets`, `raised` | the local variables of `on_event`, and the place in it |
| `rotation`, `score`, `fall`, `rise`, `churn`, `pair`, `forgotten` | the local variables of `demote_inactive` and `rotation_tick`, and the place in them |

Everything here runs on the adjudication coroutine: a tick's events, then `after_tick`, or the hooks of a
batch.  So one job is finished, or broken off (`CutShort`), before another begins (`Free`); only the
director may nominate between the two hooks of a batch.  `CutShort` is an exception or a crash between
any two statements of a job: within the counting of the days, between two rows, between the update of
a tier and its event.  The job is not resumed; the next day levels what it finds.

### Office

`clock`, `settledTo`, `to`, `at`, `stmts` are the span and its position as in `Economy`; the rest are
the keys of `world_state` it writes (`off` is `leave.*`, `marks` `attendance.*`, `shock`
`stock.shock`, `consumed` `layoff_rumor.consumed`, `streak` `perf_review.streak_c`, `pool`
`layoff_pool`, `extra` `schedule.overtime.extra`, `fired` `calendar.fired.*`).  A break ends a span
at any statement; the span then runs again.

### Goals

The hook of the batch compares day and week at the two ends of the hours it leaps over.
`turnOf`, `duty`, `todo`, `closing` are the position inside `refresh_weekly`; `goals` is the table.

### Talk

`rests` is `topic_cooldowns` in `agents.mood`; `chat` is the chat between its three calls of the model
and its end, `told` the `dialogue.chat` events.  The free choice takes a topic that rests with
nobody; fallback and forced conflict take the one whose rests end first.

### Gateway and CostBreaker

`step`, `hop`, `tries`, `turned`, `letIn`, `fellFrom` are the local variables of `_chat_routed` and
`call_tracked`, for each of several calls at once; `walls`, `tripped`, `degraded` are the
`FailoverBreaker` they share.  `CostBreaker` has the fields of the class of that name, and the three
who move the clock's pause: the brake, the fault probe and the restart.

### Memory

`entries` is the table in the order of its ids; `acc`, `accAt`, `reflAt`, `fellBack` are the keys of
`agents.mood` that `Reflector` keeps.  A lapse is a statement that fails or a crash, between any two
writes.  The archiving job runs beside the reflection.

### Director

`arc`, `active`, `coolUntil`, `used`, `pending` are the keys of `world_state` of the arc engine and
the review; `phase`, `round` the position in `after_tick`; a cut comes between any two writes.

### Replica

| State | Code |
|---|---|
| `memAcked`, `snapAcked`, `disk` | `sync_state`, the snapshot files |
| `arrived`, `memStored`, `snaps` | `events`, `memory_projection`, `world_state_snapshot` |
| `tasks`, `claimed` | `derived_task`; what the worker has claimed |
| `changes`, `grades`, `ripples`, `daily` | `relation_change_log`, `event_grade_view`, `ripple_edge`, `relation_daily` |
| `voided`, `applied` | history |

Rows arrive in order, with one task each in the same transaction.  `DerivedOrOwed`: each derived row
exists, or a task owes it, or has failed its last attempt, or was voided when the day under it was
deleted.

### Screen

`serve`, `knownMax`, `cursor` are `ws_endpoint`, `_resume` and `_poll_loop` at their awaits; `held`,
`latestSeq`, `shown` the stores of the web client; `wire`, `ask` the frames under way.  `since` is
history: the viewer is owed every event after it.  The watchdog closes a silent connection.
Connections break and pushes fail (`PollFails`: the poll's exception handler goes on behind the event
whose push raised), `MaxBreaks` times together; `skipped` are the events lost so.

The timeline holds `Capacity` events (`TIMELINE_CAPACITY` is 3000) and lets its oldest go (`Taken`).
Opened while it is empty, the map page fills it with a page of the newest (`Backfill`), and from then on
the viewer is owed what comes after that page.  The answer to that request is taken to arrive while the
timeline is empty still.  One that came later, and more than a page ahead of the socket, would leave a
hole between the two if the connection broke just then.

### Audit

Six checks are two kinds: `balance`, which compares with an anchor and is silenced when a new world
writes one, and `moves`, which never heals.  `reports` are the files the count of bad nights reads;
`unwritten`, `lines` are `alerts.py`.

## 3. Runs

| Run | Question | Bounds, and why they suffice |
|---|---|---|
| `sync_one` | one world, order and crash hazards: are rows stored without holes (`NoHoles`), and is the whole pipeline a copy of a log (`CopiesTheLog`)? | 5 numbers, frames of 2 and catch-up frames of 3, reorder window 1, 2 faults, one restore of the replica, rows that stay behind and numbers that stay void: frames overlap, overtake, exceed the window and are resent |
| `sync_reseed` | a world is started over while the old one is being sent: does the replica never mix two worlds (`OneTimeline`), and does it end with the new one (`ReplicaConverges`)? | 4 numbers, 2 worlds, lag 2, so that short overlaps conflict and long ones regress; no fault, because one breaks it (case `cursor`) |
| `sync_gap` (violation) | ... does it converge when numbers are missing? | 3 numbers, one row that stays behind: the least gap |
| `clock_steady` | two ratios, two faults, in-flight writes: the tick stands still in a pause, never retreats, none is skipped (`TicksInOrder`), the clock runs on unless the adjudication loop spins for ever (`ClockRunsAgain`) | a day of 4 units, two and a half days, ticks of 4 units: both segment changes fall before, in and after a pause |
| `clock_restart` | a night that is a batch, failing summaries, an audit that pauses, a fault of either kind and a crash or stop: is no tick handed out twice (`NoTickTwice`) or inside a batch (`NoTickInBatch`), and does catch-up reach its plan (`CaughtUp`)? | `ShortNight`, 8 units: long and short downtimes, inside and outside the night; a database fault may fail the pending write of any coroutine |
| `economy_money` | wages, bills, arrears, notices, a move, a loan, with a fault anywhere: is money conserved agent by agent (`BooksAgree`), every bill paid or owed and not both (`BillsAccounted`), no job left out or, without a fault, repeated, nobody overdrawn by the calendar or moved unwarned? | a poor tenant and a rich agent without a room; three rent days; beats of 1 and 3 units, so that a span holds one job or several; one action of an agent, one fault |
| `turns` | does the loop keep the rules of `City` (`CityRules`), and is everybody heard (`EverybodyIsHeard`)? | one tenant who may be exhausted, one outsider without a schedule of their own, one decision in flight at a time, actions and intervals of one tick: wake-ups, ticks, batches, pauses, broken answers and exceptions meet between any two steps; two people are enough for one to be addressed, stale or in the other's way |
| `turns_spin` (violation) | do the other coroutines always run again (`OthersRun`)? | the same |
| `town` | caches agree with the log (`CacheIsReplay`); reminders and blame (`OnceEach`), wages, charges, overtime and rumours (`NothingTwice`) come at most once; star seats are not oversold (`SeatsNotOversold`); the layoff pool is earned (`PoolIsEarned`); a week is settled once (`WeekSettledOnce`); topics rest (`TopicsRest`) | two or three people each, one exception or crash (any number in the cast); two actions, two invitations with one counter-offer (`MaxRounds` is 1, the code's is 2: each round is one more step like the first), two cancellations, two chats; three days of the cast with one seat, a cap of one and a churn of two, so that an exchange is just allowed and each of its statements may be the last; four days of the office with a day off between reviews; three weeks of goals; so that the second of everything meets the first cut short |
| `machine` | failovers are told (`FailoverIsTold`); memories weighed once (`WeighedOnce`) and archived behind a summary (`ArchivedIsCovered`); arcs closed in time (`OverdueIsClosed`) and cooled down (`CooldownKept`); derived rows done or owed (`DerivedOrOwed`), revisions in order (`LatestRevisionWins`); a timeline without holes (`TimelineIsWhole`); brake and stop earned (`BrakeIsEarned`, `StopIsEarned`) | two concurrent calls over two endpoints, three calls and one cooldown in all; seven nights of cost and a restart; four entries and a lapse; two arcs for one slot over four days of six ticks and a cut; two worlds of three and two rows with two attempts; six events, a ring of two, a timeline of three and a page of two, so that the oldest go while a gap is resumed, two breaks or failed pushes; five audits |
| `weeks` (violation) | are the goals refreshed every week (`RefreshedWeekly`)? | the hours of `speed_table.yaml`: 37 awake, 8 asleep, 400 hours |
| `screen` (violation) | does a viewer that fell behind the ring go live again (`ViewerGoesLive`)? | 4 events, a ring of 1, a timeline of 2, one break |

`CHECK_DEADLOCK FALSE` is set in the cfgs because the bounds end every behaviour (all numbers used,
`MaxWall`, `MaxNow`, `LastDay` reached).  In `turns` it is set because a loop that spins with the
clock paused lets nothing else happen.  Counters of faults, crashes, restores, lapses, breaks and
actions (`MaxFaults`, `MaxCuts`, `MaxBreaks`, ...) only bound; they are no guard of the code.  The
largest runs are `clock_restart` (1.8 million states), `town` (1.5 million) and `machine` (1.0 million).

**Fairness.**

- `EventSync`, `SimClock`: weak fairness of what the event loop schedules: the sync coroutine and the
  ingest handlers are `while True` loops that retry after any exception, so an enabled step of theirs
  is taken; a started INSERT ends; the database answers; the probe runs each 30 seconds; time passes.
  Faults are finite in a run, never required.  While the adjudication loop spins (`Spinning`) none of
  the clock's steps is enabled, the probe's neither, and no fairness helps: `ClockRunsAgain` says so.
  `Hold` (waiting in the send buffer) has no fairness:
  the two-second window of normal mode makes `SendBatch` the fair one.
- `Adjudication`: weak fairness of the loop as a whole (`Turns`), strong fairness of the wall clock and
  of `clock.run` putting its tick: they are enabled at each of the loop's awaits only, and asyncio's
  ready queue is first in, first out, so a coroutine that is ready at one await gets one of the next.
  No answer of a model, no end of a pause and no fault is owed; `EverybodyIsHeard` says "unless the
  clock stays paused" for that reason.  The spin disables the fair steps, and `turns_spin` shows it.
- `Screen`: weak fairness of each end, which polls every half second and reconnects by a timer.
- `Gateway` (beside the runs): the fault probe's check.

## 4. Proofs

`EventSyncProofs` proves, for every value of the constants that satisfies the module's assumptions:

- `TypeCorrect`: `Spec => []TypeOK`.
- `NoHolesOnOneTimeline`: with one world (`MaxGen = 1`) and rows becoming visible in the order of
  their numbers (`SingleWriter`), `Spec => []NoHoles`, restores and any number of faults included.
- `StreamCopiesTheLog`: if moreover a resent frame never lies further behind what is stored than the lag
  (`FramesAdvance`, below), `Spec /\ []FramesAdvance => CopiesTheLog`: the refinement of `LogCopy`,
  restores included, for a world of any length.  Only how far the stream reaches back is limited, not how
  long the world runs.
- `AckedOnOneTimeline`: if moreover the replica is never restored,
  `Spec /\ []FramesAdvance => []AckedIsStored`.
- `WorldsDoNotMix`: with any number of worlds, faults and restores, serialised INSERTs and no number
  left out (`GapKinds = {}`), `Spec /\ []FramesAdvance /\ []StartsAfresh => []OneTimeline`.
- `ReseedsStartAfresh`: without faults and restores, and with `sync_state` cleared by a reseed, the
  second premise holds by itself; `ShortWorldsDoNotMix`: so does the first, if `MaxSeq <= Lag + 1`.

`NoHoles` is not inductive: whether a flush opens a hole depends on which frames are on the wire or
in the reorder buffer.  `SyncInv` says that every batch anywhere is an interval of the rows to send
(`IntervalsTravel`), that the stored rows are a prefix of them (`StoredIsPrefix`), and, so that a new
row cannot fall into an interval, that numbers are taken and committed in order (`NumbersInOrder`).
A flush then adds an interval that touches the prefix.  `AckInv` adds that each position on its way
back is 0 or a stored row, and `AcksInOrder` that these positions ascend and that none asks for a
reset.  What the two say of the position already recorded by the kernel (that it is stored, and not
beyond those on their way) holds only before the first restore, and the abstract step `Learn` asks
for no more.  The step lemma of the refinement (each action is a `Write`, `Copy`, `Learn`, `Lose` or
a stutter) rests on the three.  Several connections that commit out of order, or a
second world, break these properties: see `pool` and `cursor` below.

That two worlds are never mixed depends on the first frame of the new one.  If it begins with row 1, it
conflicts with whatever is stored of another world, or regresses behind it, and either empties the
reorder buffer with the table (`ForeignIsFirst`, `ForeignIntoNothing`).  `WorldInv` says that the table
is a beginning of one world's numbers and what waits for it is of that world, except the batch being
stored (`PendingFits`), and that as long as nothing of the kernel's world has come through (`Fresh`),
nothing was acknowledged and the next batch on its way begins with row 1 (`FirstRowFirst`).  The two
premises are what the code does not ensure, and both are needed:

- `StartsAfresh`: a connection made before anything of a new world has come through sends it from its
  first row.  A cursor that outlives a connection breaks it (case `cursor`).
- `FramesAdvance`: a resent frame of the world that is stored does not lie further behind than the lag,
  the premise of the constant's comment (`ingest/batch.py:35`).  Where it does, the replica is emptied
  for the wrong reason and a later batch of that world may wait in the reorder buffer for row 1 of the
  next one (case `lag`).  `StreamCopiesTheLog` and `AckedOnOneTimeline` need it as well: a replica emptied
  for that reason has lost acknowledged rows without a restore (case `stale`).  The lag is 12 hours of
  simulated time.  A resend of what is in flight stays well within it; rows kept in the send buffer and
  repeated after a catch-up has overtaken them may lie any distance behind.

TLC has checked `WorldInv` with the settings of `sync_reseed`, where it also finds both premises to be
invariants, and, under the premises, with a fault, a restore and either fate of `sync_state`.

`SimClockProofs` proves, for every speed table and all bounds:

- `ClockTypeCorrect`: `Spec => []TypeOK`.  The planned position is a sum over the table (`Gained`); that
  it is a number is proved by induction (`Induction`, from the well-founded order of the numbers).
  `PastInv`: no anchor, in memory, in its row or on the way there, lies in the future.
- `RestartCatchesUp`: `Spec => CaughtUp`.  `StartInv`: until the main loop runs, nothing else does, and
  the clock is not paused between the resume and the end of the catch-up.
- `NoTickInsideABatch`: with `MaxLate = 0`, `Spec => NoTickInBatch`.  `BatchInv` follows a batch from
  its signal: there is one at a time, it is due at once, it belongs to the segment of this moment, and
  until it is left the main loop waits at the top of its pass with nothing of its own to be written.
- `NoTickRunsTwice`: with `MaxLate = 0`, `Spec => NoTickTwice`, for any number of crashes and stops.
  `QuietInv` relates the four places an anchor can come from: memory, the row and the values on their
  way to it hold what has run (`RanIsHeld`), once a batch has come as far as its hooks (`JumpIsSaved`);
  before a tick is handed out its pinned anchor is in the row or the only one on its way there
  (`PinIsSaved`).  That a pause cannot fall into this is `QuietPauses`.
- `TicksComeInOrder`: with `MaxLate = 0`, no crash, no database fault and a day without batches whose
  ratios are worth a tick at most (`SteadyDay`), `Spec => TicksInOrder`.  `SteadyInv`: the main loop aims
  at most one tick beyond what has run, and a clock that is paused was anchored at its pause.

`MaxLate = 0` says that whatever is due runs in its unit of real time.  A unit is coarse, as long as the
shortest segment, and the hypothesis is needed: with `MaxLate 1` a batch may be signalled at the end of
its segment and begun in the next, after a tick was aimed at (section 5).  Faults end `NoTickTwice` for a
similar reason, and batches and crashes `TicksInOrder`; each has its case there.  TLC has checked the
invariants on the settings of `clock_restart` and, `SteadyInv`, of `clock_steady`.

`AdjudicationProofs` proves, for any number of tenants and outsiders:

- `LoopTypeCorrect`: `Spec => []TypeOK`, which includes that nobody waits twice to be woken and nobody
  has two turns in one pass.  A pass is those woken, then in ascending order those due who are not
  among them; `AscendingFacts` shows, by counting ranks, that this order repeats and omits nobody.
- `LoopKeepsTheRules`: `Spec => CityRules`, the refinement of `City`.

The refinement needs no invariant beyond the types, and that is what it shows: an answer given on what
somebody saw ticks ago does no harm, because its turn judges it on the state it finds.  `AllowedIsAct`
says that what passes the checks is something a free person may do, `ExitsAreDoors` that the exits
offered are doors of the city, `ForcedIsSent` that a forced redirect takes nobody but an exhausted
tenant in the flat, `BrokenIsAct` that a settlement cut short leaves nothing but an occupied person.

`EconomyProofs` proves, for every town, every schedule and any number of faults and actions:

- `TypeCorrect`: `Spec => []TypeOK`.
- `NothingMissed` and `NothingTwice`: `Spec => []NoJobMissed`, `Spec => []NoJobTwice`.
- `MoneyConserved`: `Spec => []BooksAgree`.

They assume `MoneyAssumption` and `CalendarAssumption`: no amount is negative, the schedule is a
finite sequence in the order of its times and nothing in it lies at time 0.

Which jobs have been run is not to be read off the saved position alone.  `CalendarInv` ties it to
three places: a span begins at the position in memory, which is the saved one wherever there is one
(`PositionsAgree`); what is behind the saved position has been run, and so have the jobs of the open
span that are not left (`DoneBehind`); without a fault nothing ahead of either has been run
(`NotDoneAhead`).  That `settle_span` runs the jobs of a span in order is not needed for it.

`BooksAgree` speaks of agents at rest and says nothing between two statements of a settlement.
`BooksInv` says that what is left of it (`Pending`, the effects of the statements in `todo`) closes
the gap between an agent's balance and its books, and that an agent whose books are to agree is not
in the red: otherwise `Bill` would begin a settlement that does not balance.  Each statement moves
balance or books and `Pending` by the same amount; each settlement begins with a sum of 0.
`Pending` is a sum of five terms, not a fold, since no settlement is longer (`TodoFits` in
`TypeInv`).  `TypeInv` also has that a statement that pays a loan back comes first in its
settlement, so that the check of the loan by `Repay` still holds when it runs.

`BillsAccounted` is proved likewise: `BillsInv` says that what is left of a settlement closes the gap
between the bills charged, those booked and those owed; arrears are written or cleared by the last
statement, so that nothing after it counts on what they were.  For `BillsNeverOverdraw` a second
invariant, `MoneyIsThere`, has that in a span the statements left take no more than there is.

`WarnedBeforeMoved` (`MovedAfterNotice`) needs two hypotheses about the schedule.  `WarnedBetweenRents`:
between two rents lies an escalation; `MonthsInOrder`: a later escalation is of a later month.  Both
hold of the program, which registers the two jobs for the same days, 08:55 and 09:00
(`register_overdue_jobs`), and of the schedule of the run.  Without the first it fails: the code counts
months listed, not notices, so two shortfalls in a row look like a warning, and TLC finds a tenant
moved by the first escalation (`rent`, `rent`, `escalation`).  `MonthsTell` is the invariant at
rest: who owes rent has a month listed; with one listed no escalation has been since the shortfall;
with more there was a notice, of the month of an escalation that was run.  In a settlement it is
`ClosingFits` that holds of its last statement, which alone changes arrears and rooms (`Closes`).  What
has been settled with an agent (`Settled`) is told by the jobs run and the one under way, and that
these have no gap is `RunsInOrder` with `CalendarInv`.

`OfficeProofs`, the office:

- `NothingSettledTwice` (`NothingTwice`), `OfficeTypeCorrect`.  A span that was broken off runs again,
  so each of the three kinds of job needs to know what it has left behind: `RumorInv` that whoever is
  hurt by a day's rumour is hurt after the day is consumed, `MarketInv` that a shock moves the price
  only while it is pending or has just been cleared, `EveningInv` that a wished overtime is either
  still wished, under way or held.
- `ThePoolIsEarned` (`PoolIsEarned`).  A review reads two tables and writes them back one after the
  other.  `CareerInv` follows it (`NoReview`, `BeforeRaises`, `BeforeStreak`, `BeforePool`): the
  streaks and the pool are each those of the reviews up to the last one, or up to the one before.
  That a review which saved nothing may run again and one that did may not is `NothingSaved`.

`OfficeProofs`, the goals: `GoalsOfOneWeekChargedOnce` (`WeekSettledOnce`), `GoalsTypeCorrect`.
`FailInv` says of a refresh in progress which of the overdue rows it still has to close, `DrawInv` that
once it draws, what is left active is of this week; `BlameInv` that a row is charged as it is closed.

`TownProofs`:

- `CacheRebuildsFromTheLog` (`CacheIsReplay`), `RelationsTypeCorrect`.  Rebuilding is a fold of the
  log's changes, clamped one by one; `BufferInv` has the logs and buffers as sequences of changes, so
  that a replay of log and buffer grows by one change at a time and a flush only moves the border
  between them.  `ScriptInv` says that a chat in progress was within the day's cap when it began.
- `RemindedAndChargedOnce` (`OnceEach`), `NoBlameForAKeptAppointment` (`KeptIsNotBlamed`),
  `InviteTypeCorrect`.  `RemindInv` says who must have been reminded by now, given that every tick was
  driven; `ChargeInv` that without cuts an appointment has been charged once for its verdict and once
  for each call that cancelled it, and that none has both;
  `JudgedInv` that a verdict once right stays right, since later events are outside its window.
- `SeatsAreNotOversold` (`SeatsNotOversold`).  The number of stars alone is not inductive: between the
  two halves of an exchange one seat is promised.  `SeatForAll` counts the stars and the successor under
  way (`Awaited`) against the seats and nominations; a cut takes the promise back and frees the seat.
  `LeavesOnce` has that who leaves is a star, so that a leaving star frees a seat; for that sorting must
  have a first element (`LowestIsOne`).
- `CastTypeCorrect`.  That the day's churn stays under its cap is not a matter of one guard, because an
  exchange is two statements: `ChurnSuffices` keeps, as long as one is under way, as much of the cap as
  it has steps left.  `CountsInTime` says that the days outside the band are no more than those that
  were counted, `SeenInTime` that nobody was seen on a day to come.
- `TopicsAreRested` (`TopicsRest`).  The notes are written one person after the other and after the
  event: `NotedRests` has that the topics of an event rest with those who have noted them,
  `LastIsNoted` that what is being noted is what was told last, `ChosenIsOpen` that what was chosen
  freely and is not told yet rests with neither of the two.
- `TalkTypeCorrect`.  A rest ends at most `RestHours` after the last hour of chats only if there is such
  an hour: `LastChatHour` is at least 1, which the proof showed to be missing from `TalkAssumption`.
  `TalkSized` has that no more chats are told than may begin.
- `EachPartLives`, `TownTypeCorrect` (`TypeOK` of `MCTown`), for the six parts together.

`ReplicaProofs`:

- `RowsDerivedOrOwed` (`DerivedOrOwed`), `LastRevisionStays` (`LatestRevisionWins`),
  `ReplicaTypeCorrect`.  `ClaimsRun`: what the worker holds of this world is running, and what waits
  has an attempt left, so that a failure is the last one or is retried.  `TasksTell`: each event that
  arrived has a task, and a task that is done has left its rows.  `GradesTell`: a grade is a revision
  that was worked off, and none worked off is later.
- `TimelineHasNoHole` (`TimelineIsWhole`).  A frame on the wire is as good as held only if no frame
  before it skips anything: `WireFollows` says so of each prefix of the wire, with `CursorFollows` for
  what the server will send next and `NoneAhead` for what nobody may have seen yet.  What a full
  timeline lets go is `Retained` from then on, because what is older than all of a full timeline stays so.
- `ScreenTypeCorrect`.  `ScreenSized` orders the numbers: the cursor, the newest the server knows of and
  the state shown are no further than the table.

`MachineProofs`:

- `FailoversAreTold` (`FailoverIsTold`), for any number of calls, endpoints and retries.  `OutIsTold`
  and `ToldInPlace`: whoever has tripped an endpoint stays at it until it has written the event.
  `RemembersFirst`: `fallback_from` is the least of the endpoints that turned the call away, and a
  probe counts among them until it is answered.
- `GatewayTypeCorrect`.  `InBounds` says that an endpoint that is in has failed less often in a row than
  trips it, although the calls that fail there count one after the other, and that only a call still
  looking for an endpoint is beyond the end of the chain.
- `BrakeEarned` (`BrakeIsEarned`), `PausesOnce` (`PausedOnce`), `CostTypeCorrect`.  The brake goes on
  when its band was entered a day before, and the breaker remembers only when that was; `EntryStands`
  says that as long as it does, the night before was in that band.  `FiredOnce` ties the number of
  pauses to `_cost_pause_fired` and both to the brake.
- `ArchivedStaysCovered` (`ArchivedIsCovered`) and `SumIsRight` (`WeighedOnce`).  `Bounded` says that
  only what the cursor has passed is in `importance_acc` or used up, so that what is weighed next is
  new; `NoneWeighsTwice` that nothing is both.  The sum is a recursive function over the table;
  `SumOverApart` (the sums of sets that share nothing add up) and `SumOverLonger` (a row written later
  does not count) rest on `Induction` over a set of numbers, and `Weighed` says that nobody rewrites a
  weight.
- `MemoryTypeCorrect`.  `MemSized` has that both cursors, and what they have marked, are entries that
  exist, and that no fallback is of a day to come.
- `OverdueAreClosed` (`OverdueIsClosed`), under two hypotheses about the templates and the day.
  `FallsForward`: a stage degrades to a later stage, to the end or not at all, as in all six templates
  of `arcs.yaml`; a template that fell back could fall overdue again each tick.  `TicksSuffice`: a day
  has more ticks than there are pairs of an arc and a hooked stage, plus cuts.  One tick resumes one
  hook only (`PENDING_HOOK` holds one), so an overdue arc behind hooks of others waits; with two slots,
  two hooked stages and a day of two or three ticks TLC finds the arc open the next day.  In the
  program a day has 288 ticks and the templates one hooked stage.  `DueInv` is the inductive invariant.  It is a
  potential: `ToRaise`, the pairs of an arc and a hooked stage still ahead of it, and the cuts left are
  together less than the ticks left in the day, as long as an arc is late (`InRound`, `Beat`); each
  tick that leaves an arc late has raised a hook, which takes a pair away, or was cut.
- `CooldownsAreKept` (`CooldownKept`), `DirectorTypeCorrect`.  `CooldownIsWritten`: an arc that ended,
  and whose ending was not cut, has the cooldown of the day it ended on; `RunningIsStaged`: an arc that
  runs is in a stage.  The types have that the list of running arcs is injective and within the slots.
- `StopsAreEarned` (`StopIsEarned`), `AuditTypeCorrect`.  `FilesTell`: every audited day has its file,
  and a red file is that of a day an audit met something wrong on.
- `EachPartBehaves`, `MachineTypeCorrect` (`TypeOK` of `MCMachine`), for the seven parts together.

The assumptions of these modules are those stated in the modules' `ASSUME`; TLC evaluates them in the
runs that extend the modules.  The state of one part is proved about under that part's own
specification (`RelSpec`, `InvSpec`, ...).  `EachPartLives` and `EachPartBehaves` say why that suffices:
a behaviour of `MCTown` or `MCMachine` is one of each of its parts (of the observer socket of its
initial states and steps; its specification also states fairness), so each theorem about a part holds
of the composition that the runs check.

Model-checked only:

- liveness (`ReplicaConverges`, `ClockRunsAgain`, `EverybodyIsHeard`): the prover does not reach fairness.

## 5. Divergences

### Reported as runs

| Run | What the text says | What the code does |
|---|---|---|
| `sync_gap` | `src/docs/tasks/07-同步与副本库.md` D3, T-SYN-02: a blocked row stays behind and the stream goes on | the frame after a blocked row starts at `max(seq)+2`, is never contiguous, waits in the buffer and is resent for ever |
| `turns_spin` | `adjudicator/queue.py:137`: the coroutine waits, a put wakes it | with a wake-up for the next tick queued the loop `continue`s without an await until the wall clock gets there, and for ever if the clock is paused |
| `weeks` | `main.py:487`, `docs/design/01` lines 378, 431: goals are refreshed weekly, frustration recovers daily | the hook looks at the two ends of the batch only, and most boundaries fall into the 37 hours between two batches: 2 refreshes in the first 15 weeks of the seed's calendar, recovery on 14 of 105 days |
| `screen` | `observe/ws.py:185`, `docs/design/03` line 641: a viewer told to resync rebuilds, says hello again and goes live | no welcome follows `resync_required`, and without one the clients neither subscribe nor move their position: closed after 90 s, told to resync again, for ever |

### Kept beside the runs

TLC finds each of these with the given settings.  They are statements the code's comments or the
design documents suggest, or a reader would expect; hazards in `PROJECT.json` refer to them by name.
The definition is in the component's module unless `MC...` is named.

`EventSync` (`MaxSeq 3, MaxGen 1, BatchSize 2, CatchupBatch 3, CatchupWindow 1, Window 1, Lag 5`, one
world start for all, `SingleWriter`, `SurvivalModes` cleared, no gaps, faults or restores unless said):

| Case | Property | Settings | Behaviour |
|---|---|---|---|
| pool | `AckedIsStored` | `SingleWriter FALSE` | a row that commits after a later number has been acknowledged is never fetched (`sync/outbox.py:40`) |
| cursor | `OneTimeline` | `MaxGen 2, BatchSize 1, CatchupBatch 1, MaxFaults 1`; or those of `sync_reseed` with `MaxRestores 1` | the in-memory cursor is ahead of the acknowledgements and outlives the connection (`sync/ws_client.py:324`) |
| lag | `OneTimeline` | `MaxSeq 5, MaxGen 3, BatchSize 1, CatchupBatch 1, CatchupWindow 2, Window 2, Lag 0`, no fault | a resent frame of the same world regresses by more than the lag, the replica is emptied, and a batch from the middle of that world waits in the reorder buffer, which the next world's first row then lets in (`ingest/batch.py:201`, `ingest/batch.py:213`) |
| stale | `ReplicaKeepsRows` (`MCEventSync`) | `MaxSeq 5, CatchupBatch 2, CatchupWindow 2, Window 2, Lag 1, MaxFaults 1` | rows kept in the send buffer are repeated after a catch-up overtook them; the repetition looks like a new world (`ingest/batch.py:247`) |
| kept | `ReplicaConverges` under `FairSpec` | `MaxGen 2, BatchSize 1, CatchupBatch 1`, `SurvivalModes` kept | `sync_state` survives a reseed, and `connect` compares it with the local maximum only and goes on in the middle of the new world (`sync/ws_client.py:138`), although `ingest/batch.py:259` says that no old timeline survives |

`ReplicaConverges` holds with a fault and a restore in one world, and `RebuildConflictFree` with the
settings of `sync_reseed`.

`SimClock` (`TickLen 4, MaxRatio 3, LongPause 3, DriftLimit 2, MaxWall 9, MaxLate 0`, the rest 0,
empty or false unless said; definitions in `MCSimClock`, the last five in `SimClock`):

| Property | Settings | Behaviour |
|---|---|---|
| `FrozenWhilePaused` | `ShortNight, AuditStops` | leaving a batch re-anchors a clock that was paused inside it (`clock.py:314`) |
| `AuditHolds` | `ShortNight, AuditStops, OtherFaults, MaxFaults 1` | the probe lifts the audit's pause (`audit/probe.py:196`) |
| `BatchEnds` | `FairSpec, ShortNight, DbFaults, MaxFaults 1, MaxWall 5` | a failing write in `enter_batch_mode` is outside the `try` (`batch.py:43`) |
| `OutageIsSurvived` | `PlainDay, DbFaults, MaxFaults 1` | a database error in the clock loop ends the task group before the probe acts (`clock.py:413`) |
| `PlanWithinTable` | `ShortNight, OtherFaults, MaxFaults 1` | `_planned_sim` divides minutes by 3600 (`clock.py:242`) |
| `LagIsCaughtUp` | `PlainDay, OtherFaults, MaxFaults 1` | the probe's callback drops the plan of `resume` (`main.py:632`) |
| `HooksFollowBatch` | `ShortNight` | one failing summary skips the hooks of the batch (`batch.py:46`) |
| `PauseIsDurable` | `PlainDay, OtherFaults, MaxFaults 1` | an anchor row read before a pause is written after it (`clock.py:136`) |
| `TicksInOrder`, case `night` | `LongNight, LongPause 4` | a batch segment stands for its 8 hours, but the anchor flows on at the last ratio as well, and the morning skips those ticks (`clock.py:387`) |
| `OneBatchPerSegment` | `LongNight, LongPause 4, MaxCrashes 1` | whether the batch was signalled is a local variable of `run` (`clock.py:363`); without a crash it holds |
| `CatchupStartsWhereItStopped` | `PlainDay, MaxCrashes 1, MaxWall 14` | the anchor of a crash has no `paused_at`, so the downtime is already in `now_sim` and nothing is left to catch up (`main.py:382` calls it "like a pause") |
| `NoTickTwice` without its `faults = 0` | `PlainDay, AllFaults, MaxFaults 1, MaxLate 1, MaxCrashes 1, MaxWall 10` | a late write brings an older anchor back, and a crash before the next one reads it |
| `NoTickInBatch`, `NoTickTwice`, with `MaxLate 1` | `ShortNight, MaxLate 1` | a batch signalled in the last moment of its segment and begun in the next meets a tick that is already aimed at (`clock.py:381`, `pipeline.py:663`) |

`Economy` (the constants of `MCEconomy_money.cfg`, with `MaxActs 0` unless said; definitions in
`MCEconomy`):

| Property | Settings | Behaviour |
|---|---|---|
| `JobsRunOnce` | - | the position is saved at the end of a span only; after a fault the span's earlier jobs run again, and wages are paid, bills taken, twice (`world_agent/calendar.py:300`; line 8 says `重启不重不漏`) |
| `AuditGreen` | `MaxActs 1, MaxFaults 0` | an event of a loan carries its amount although the sum of the balances does not change, and a refused loan carries it as well (`adjudicator/validators.py:740`): the balance audit (`audit/sql/01_balance_conservation.sql`) reports red without a fault |
| `AlwaysWarnedBefore` | - | before the first position is saved a crash leaves jobs out (`calendar.py:240`); two shortfalls without the escalation between them then count as two unpaid months, and the tenant is moved without a notice |

`BooksAgree` excepts agents whose settlement was cut short, who are in the red or whose loan was
refused.  The exception for the red is needed because a meal is not checked against the balance
(`validators.py:456`), and a bill that finds a negative balance books a positive amount without
touching the balance (`economy.py:200`).

With the constants of `MCTown_town.cfg`:

| Property | Behaviour |
|---|---|
| `SecondaryCapHolds` (`Cast`) | a character promoted with an invitation is not followed by `enforce_cap` (`rotation.py:10` gives the cap), nor is one whose `on_event` is cut short |
| `CooldownsHold` (`Relations`) | the cooldown is an upsert: a later, shorter one shortens a longer one (`cooldown.py:68`; `docs/design/01` section 3.4).  `LatestCooldownHolds` holds |

`KeptIsNotBlamed` (`Invite`) holds.  With the constants of `MCMachine_machine.cfg` unless said:

| Property | Settings | Behaviour |
|---|---|---|
| `OneRecoveryPerTrip` (`Gateway`) | - | two calls probe one endpoint at a time and each writes a recovery (`llm_gateway/__init__.py:248`) |
| `OutageIsNoticed` (`Gateway`) | `GwFairSpec`, one caller, `Chain 1, Retries 1, TripAt 2, MaxCalls 2, MaxCooldowns 1` | `main.py:638` looks for `"zhipu"` among tripped endpoints, whose names are `provider/model`: the clock is never paused for an outage of the models (`docs/design/04` lines 206, 826) |
| `CostPauseHolds` (`CostBreaker`) | - | the fault probe lifts a pause for the cost (`audit/probe.py:196`) |
| `EverythingWeighs` (`Memory`) | - | the cursor of `importance_acc` passes memories it did not weigh (`reflect.py:98`) |
| `FewUpgrades` (`Director`) | `UpCap 1` | a review that is run again after a break starts its count at 0 |
| `PendingIsReviewed` (`Director`) | - | nothing reads `review.pending` |
| `GradesAreThisWorlds` (`Replica`) | - | `_RESET_TABLES` lacks `event_grade_view` (`ingest/batch.py:251`, against the comments at 250 and 259) |
| `ScreenIsCurrent` (`Screen`) | - | of two polls that end in one tick the client drops the second difference (`merge.ts:18`), and a resumed gap has none |

`ThreeBadNightsStop` (`Audit`) holds, but only without audits by hand: `audit_run.py --only` writes its
single check over the full report of the day.

### Read, not run

What the modules keep as the code has it, and a reader of the documents would not expect:

- Adjudication: an exhausted tenant who answers `rest` anywhere but in bed is refused; the forced
  redirect to bed ignores `_busy`; there is no way out of the office for tenants; oneself as a target
  raises after the event is inserted; after `enter_batch` the pass goes on with the old tick; what was
  popped is lost with an exception; an NPC's own moves are undone by each `after_tick`.
- Settlement: it has no transaction; eating does not check the balance; the cooldown of gifts is never
  written and that of gossip is written under another key than it is read; `seed.py` writes relations
  that `rebuild_relation` cannot rebuild, as it starts from 0.
- Invitations: no retry; `respond` and `cancel` have no caller; a second `cancel` charges again; accepting a counter-offer ignores its
  time; reminders are told apart by time and participants only.
- Cast: what a job cut short has left is not made up for: a seat stays empty until the next day's rotation,
  a character whose promotion has no event is not let fall when forgotten.
- Goals and topics: `record_block` and `a_level_recovery` have no caller; the text of a replanned goal
  does not match the library; fallback and forced conflict rank expired rests too, so the "oldest" topic may
  be one of an hour ago; a chat cut off after its event leaves its topics unmarked.
- Office: the list of fired disturbances is overwritten by each span, so the check for missing ones
  alerts falsely; a shorter illness later shortens a longer leave (`disturb.py:41`); the charge of a team
  building and the raises of a review are repeated after a break; overtime that was struck off before a
  break is lost, one wished for a day off stays for ever; a rumour broken off hurts some only.
- Gateway: the throttle event is written on every evaluation.  Director: a hook that fails loses the
  other arcs' turn of that tick; a crash in `_complete` leaks the slot.
- Replica: a nack of memories or snapshots rewinds the cursor of the events; nothing in the kernel
  resends a day after its deletion; a task open while its day is deleted ends without an effect; a
  ripple worked off before the memory it cites is not worked off again; the sweep takes wall dates for
  simulated days; a snapshot acknowledged after start-up is overwritten at the day's end, and the
  digests differ;
  memories are not resent after a reset if `sync_state` survives.
- Screen: the ring is written and never read; `_resume` sends what was inserted between its two queries
  once more; a cursor beyond the maximum, after a reset, is silent; a push that raises loses its event, since the next poll goes on behind it (`ws.py:154`).
- Audit: reports outlive a reseed; anchors take earlier drift for normal; the audit runs in the batch hook
  only, and an earlier hook that fails takes the night's audit with it; warnings wait in memory for the
  next error and are lost in a restart.

## 6. Plan

Done: the event stream, the clock, the economy, adjudication, the town's six parts, the machinery's
seven parts, two abstract specifications, eight proof modules.  What would come next:

1. The composition of `Adjudication` with `Relations` and `Economy`: scripts of statements in place of
   the single step in which a turn takes effect.

## 7. Not modelled

- Of modelled parts: the argument checks of single actions and the building of observations
  (`validators.py`, pure functions of one read); what an intervention does in the town
  (`director/intervene.py`: single calls of Office, Cast and Economy); the predicates of arc stages;
  scores of retrieval, willingness and rotation (numbers, here choices of bands); the token bucket;
  embeddings; the SIGHUP reload; trial and unthrottled modes; the latest-state stream, which each frame
  overwrites; the HTTPS fallback and `push_loop`, which nothing starts; `DecisionSilentProbe`, which only
  raises an alert; the parts of the calendar that are one event each (weather, complaints,
  announcements).
- Parts: text matching (`safety`, `sanitize.py`), prompts and the parsing of answers, canonical
  serialisation of snapshots, SQL aggregates of metrics, REST handlers, pages, playback and the stream
  screen's drawing, one-shot scripts.  Nothing in them has the order of steps as its difficulty.

The database, the WebSocket and the LLM providers are modelled by what the code sees of them:
statements that commit or fail, frames in order until the connection closes, answers at any time.
