------------------------------ MODULE Replica ------------------------------
(***************************************************************************)
(* What the replica derives from the rows it receives, and its other two     *)
(* streams.  A row of the event log arrives together with a task             *)
(* (ingest/batch._insert_events); the worker claims tasks and works them off *)
(* with retries (ingest/derived); a daily sweep repeats some; memories and   *)
(* snapshots come by themselves, each with its own position; a mismatch of   *)
(* digests empties a day (ingest/digest), which the operations drill sends   *)
(* again.  Which rows arrive, and when a new world is noticed, is EventSync; *)
(* here they arrive in order.                                                *)
(*                                                                           *)
(* A relation change counts 1 on a single edge; relation_daily stands for    *)
(* health_daily too.  The sweep takes the wall clock's date for a simulated  *)
(* day, so it may be about any day.                                          *)
(***************************************************************************)
EXTENDS Integers, SequencesExt

CONSTANTS
  Worlds,      \* the logs of the worlds that follow each other: [kind, day, about] per row
  Sources,     \* the memories, in the order of their numbers: the event each is about
  Attempts,    \* MAX_ATTEMPTS
  HopMax,      \* HOP_MAX
  Lag,         \* WINDOW_LAG
  Today,       \* bound: the last day
  MaxTurns     \* bound: exceptions, crashes, lost replies and sweeps

Kinds == {"plain", "change", "gossip", "graded", "revise"}

\* A world begins on its first day.
ASSUME ReplicaAssumption ==
  /\ Worlds \in Seq(Seq([kind : Kinds, day : 1..Today, about : Nat])) /\ Worlds # <<>>
  /\ Sources \in Seq(Nat)
  /\ \A w \in 1..Len(Worlds) : Worlds[w] # <<>> /\ Worlds[w][1].day = 1
  /\ \A w \in 1..Len(Worlds) : \A s \in 1..Len(Worlds[w]) :
       /\ s > 1 => Worlds[w][s - 1].day <= Worlds[w][s].day
       /\ Worlds[w][s].kind = "revise" => Worlds[w][s].about \in 1..(s - 1)
       /\ Worlds[w][s].kind = "gossip" => Worlds[w][s].about \in 1..Len(Sources)
  /\ {Attempts, HopMax, Today} \subseteq Nat \ {0} /\ {Lag, MaxTurns} \subseteq Nat

VARIABLES
  world, simDay,
  memAcked, snapAcked,    \* sync_state: last_acked_memory_id, last_acked_snapshot_day
  disk,                   \* var/snapshot: per day what the file was written from
  arrived, memStored,     \* the replica's events and memory_projection
  snaps,                  \* world_state_snapshot: relation value per day
  tasks,                  \* derived_task: status and attempts per dedupe_key
  claimed,                \* tasks the worker has claimed and not worked off: world and key
  changes,                \* relation_change_log
  grades,                 \* event_grade_view: per event its revised_by_seq, 0 for the baseline
  ripples,                \* ripple_edge: hop per root and event
  daily,                  \* relation_daily
  applied,                \* revisions worked off in this world
  voided,                 \* rows deleted while a task of theirs was open
  turns

repVars == <<world, simDay, memAcked, snapAcked, disk, arrived, memStored, snaps,
             tasks, claimed, changes, grades, ripples, daily, applied, voided, turns>>
kernel == <<world, simDay, disk>>
positions == <<memAcked, snapAcked>>
rows == <<arrived, memStored, snaps>>
derived == <<changes, grades, ripples, daily, applied>>
queue == <<tasks, claimed>>

Log == Worlds[world]
Empty == [x \in {} |-> 0]
\* f with v at k: INSERT ... ON CONFLICT DO UPDATE.
With(f, k, v) == [x \in DOMAIN f \union {k} |-> IF x = k THEN v ELSE f[x]]
\* What the kernel has written by the end of the day under way.
Occurred == {s \in 1..Len(Log) : Log[s].day <= simDay}
Remembered == {m \in 1..Len(Sources) : Sources[m] \in Occurred}
OnDay(d) == {s \in Occurred : Log[s].day = d}
MemoriesOn(d) == {m \in Remembered : Log[Sources[m]].day = d}
ChangesUpTo(d) == Cardinality({s \in Occurred : Log[s].day <= d /\ Log[s].kind = "change"})

\* What the snapshot file of a day says; the file, if there is one.
Dumped(d) == IF disk[d] = "boot" THEN 0 ELSE ChangesUpTo(d)
OnDisk(d) == IF disk[d] = "none" THEN Empty ELSE With(Empty, d, Dumped(d))

RepInit ==
  /\ world = 1 /\ simDay = 1 /\ memAcked = 0 /\ snapAcked = 0
  /\ disk = [d \in 1..Today |-> IF d = 1 THEN "boot" ELSE "none"]
  /\ arrived = {} /\ memStored = {} /\ snaps = Empty /\ tasks = Empty /\ claimed = {}
  /\ changes = {} /\ grades = Empty /\ ripples = Empty /\ daily = Empty
  /\ applied = {} /\ voided = {} /\ turns = 0

Turn == turns < MaxTurns /\ turns' = turns + 1

-----------------------------------------------------------------------------
(* The kernel writes.                                                        *)

\* dump_snapshot at the end of a day; the first start wrote one for the first day.
DayEnds ==
  /\ simDay < Today
  /\ simDay' = simDay + 1 /\ disk' = [disk EXCEPT ![simDay] = "end"]
  /\ UNCHANGED <<world, positions, rows, queue, derived, voided, turns>>

-----------------------------------------------------------------------------
(* Rows and their tasks.                                                     *)

Open(k) == k \in DOMAIN tasks /\ tasks[k].status # "done"
Owed(s) == \E source \in {"event", "sweep"} : Open(<<source, s>>)

\* INSERT ... ON CONFLICT (dedupe_key) DO NOTHING.
Enqueued(queued, keys) ==
  [k \in DOMAIN queued \union keys |->
     IF k \in DOMAIN queued THEN queued[k] ELSE [status |-> "pending", tries |-> 0]]

KeysOf(source, S) == {<<source, s>> : s \in {x \in S : Log[x].kind # "plain"}}

\* One transaction: the row and its task.
Arrive ==
  /\ LET s == Max(arrived \union {0}) + 1
     IN /\ s \in Occurred
        /\ arrived' = arrived \union {s}
        /\ tasks' = Enqueued(tasks, KeysOf("event", {s}))
  /\ UNCHANGED <<kernel, positions, memStored, snaps, claimed, derived, voided, turns>>

\* Another world is noticed with its first row: reset_replica, then the row.
\* sync_state may or may not have been reset with the kernel's database.
Rebuild ==
  /\ world < Len(Worlds) /\ world' = world + 1
  /\ simDay' = 1
  /\ memAcked' \in {0, memAcked} /\ snapAcked' = IF memAcked' = 0 THEN 0 ELSE snapAcked
  /\ disk' = [d \in 1..Today |-> IF d = 1 THEN "boot" ELSE "none"]
  /\ arrived' = {1} /\ memStored' = {} /\ snaps' = Empty
  /\ tasks' = [k \in {<<"event", s>> : s \in {x \in {1} : Worlds[world'][x].kind # "plain"}} |->
                 [status |-> "pending", tries |-> 0]]
  /\ changes' = {} /\ ripples' = Empty /\ daily' = Empty
  /\ applied' = {} /\ voided' = {} /\ UNCHANGED <<grades, claimed, turns>>

-----------------------------------------------------------------------------
(* Memories and snapshots.                                                   *)

\* ingest_memories: what is there already stays as it is.
IngestMemories(M) == memStored' = memStored \union M

\* The memories behind the position; the reply, max(memory_id), may be lost.
SendMemories ==
  /\ \E m \in Remembered : m > memAcked
  /\ IngestMemories({m \in Remembered : m > memAcked})
  /\ \/ memAcked' = Max(memStored') /\ UNCHANGED turns
     \/ Turn /\ UNCHANGED memAcked
  /\ UNCHANGED <<kernel, snapAcked, arrived, snaps, queue, derived, voided>>

Pending == {d \in (snapAcked + 1)..Today : disk[d] # "none"}

\* ingest_snapshot: a day's snapshot replaces the former one, and the day before it is
\* to be closed.
IngestSnapshot(d, queued) ==
  /\ snaps' = IF disk[d] = "none" THEN snaps ELSE With(snaps, d, Dumped(d))
  /\ tasks' = Enqueued(queued, IF disk[d] = "none" THEN {} ELSE {<<"daily", d - 1>>})

\* send_snapshots_pending on a new connection, the earliest first.
SendSnapshot ==
  /\ Pending # {}
  /\ LET d == Min(Pending)
     IN /\ IngestSnapshot(d, tasks)
        /\ \/ snapAcked' = d /\ UNCHANGED turns
           \/ Turn /\ UNCHANGED snapAcked
  /\ UNCHANGED <<kernel, memAcked, arrived, memStored, claimed, derived, voided>>

-----------------------------------------------------------------------------
(* The worker.                                                               *)

Due == {k \in DOMAIN tasks : tasks[k].status = "pending"}
Marked(keys, status) == [k \in DOMAIN tasks |->
  IF k \in keys THEN [tasks[k] EXCEPT !.status = status] ELSE tasks[k]]

\* Mutant: a task counts as done from its claim on.
ClaimDone ==
  /\ claimed = {} /\ Due # {} /\ claimed' = {world} \X Due
  /\ tasks' = [k \in DOMAIN tasks |->
       IF k \in Due THEN [status |-> "done", tries |-> tasks[k].tries + 1] ELSE tasks[k]]
  /\ UNCHANGED <<kernel, positions, rows, derived, voided, turns>>

\* claim_tasks: everything that is due.
Claim ==
  /\ claimed = {} /\ Due # {} /\ claimed' = {world} \X Due
  /\ tasks' = [k \in DOMAIN tasks |->
       IF k \in Due THEN [status |-> "running", tries |-> tasks[k].tries + 1] ELSE tasks[k]]
  /\ UNCHANGED <<kernel, positions, rows, derived, voided, turns>>

\* Mutant: the revision worked off last stays.
NewerAlways(s, t) == TRUE

\* The later revision stays, in whatever order they are worked off.
Newer(s, t) == t \notin DOMAIN grades \/ grades[t] < s

\* materialize: the baseline, or a revision.
Grade(s) ==
  LET t == Log[s].about
  IN /\ grades' = CASE Log[s].kind = "graded" /\ s \notin DOMAIN grades -> With(grades, s, 0)
                    [] Log[s].kind = "revise" /\ Newer(s, t) -> With(grades, t, s)
                    [] OTHER -> grades
     /\ applied' = IF Log[s].kind = "revise" THEN applied \union {s} ELSE applied

\* compute: the roots of what the cited memory is about, one hop further; nothing
\* if the memory has not arrived.
RootsOf(s) ==
  LET m == Log[s].about
      source == Sources[m]
  IN IF m \notin memStored THEN {}
     ELSE IF source \in arrived /\ Log[source].kind = "gossip"
     THEN {<<e[1], ripples[e] + 1>> : e \in {x \in DOMAIN ripples : x[2] = source}}
     ELSE {<<source, 1>>}

Ripple(s) ==
  LET new == {r \in RootsOf(s) : r[2] <= HopMax /\ <<r[1], s>> \notin DOMAIN ripples}
  IN ripples' = [e \in DOMAIN ripples \union {<<r[1], s>> : r \in new} |->
       IF e \in DOMAIN ripples THEN ripples[e] ELSE (CHOOSE r \in new : r[1] = e[1])[2]]

\* compute_day: the day before and the changes of the day; the first one starts from
\* the latest snapshot up to the day.
Closed(d) ==
  LET upTo == {e \in DOMAIN snaps : e <= d}
      base == CASE d - 1 \in DOMAIN daily -> daily[d - 1]
                [] \E e \in DOMAIN daily : e < d -> 0
                [] upTo # {} -> snaps[Max(upTo)]
                [] OTHER -> 0
  IN base + Cardinality({s \in changes : Log[s].day = d})

\* refresh: a day is closed as often as a task asks for it.
Refresh(d) == daily' = With(daily, d, Closed(d))

Project(s) == changes' = changes \union {s}

\* run_task: what the task is about may be gone again.
Effect(k) ==
  IF k[1] \in {"daily", "sweptDay", "again"}
  THEN Refresh(k[2]) /\ UNCHANGED <<changes, grades, ripples, applied>>
  ELSE IF k[2] \notin arrived THEN UNCHANGED derived
  ELSE CASE Log[k[2]].kind = "change" ->
              Project(k[2]) /\ UNCHANGED <<grades, ripples, daily, applied>>
         [] Log[k[2]].kind = "gossip" ->
              Ripple(k[2]) /\ UNCHANGED <<changes, grades, daily, applied>>
         [] OTHER -> Grade(k[2]) /\ UNCHANGED <<changes, ripples, daily>>

TypeOf(w, s) == IF Worlds[w][s].kind \in {"graded", "revise"} THEN "grade" ELSE Worlds[w][s].kind

\* Whether a claimed task still finds what it is about; a row of another world may
\* bear its number.
Concerns(c) ==
  \/ c[1] = world \/ c[2][1] \notin {"event", "sweep"}
  \/ c[2][2] \in 1..Len(Log) /\ TypeOf(c[1], c[2][2]) = TypeOf(world, c[2][2])

\* One of the claimed, in no particular order; its effect and its end commit
\* together.  The task's own row is gone after a reset.
Work(c) ==
  /\ c \in claimed /\ claimed' = claimed \ {c}
  /\ tasks' = IF c[1] = world THEN Marked({c[2]}, "done") ELSE tasks
  /\ IF Concerns(c) THEN Effect(c[2]) ELSE UNCHANGED derived
  /\ UNCHANGED <<kernel, positions, rows, voided, turns>>

Fail(c) ==
  /\ c \in claimed /\ claimed' = claimed \ {c} /\ Turn
  /\ tasks' = IF c[1] # world THEN tasks
              ELSE Marked({c[2]}, IF tasks[c[2]].tries >= Attempts THEN "failed" ELSE "waiting")
  /\ UNCHANGED <<kernel, positions, rows, derived, voided>>

\* The delay after a failure is over.
Again(k) ==
  /\ k \in DOMAIN tasks /\ tasks[k].status = "waiting" /\ tasks' = Marked({k}, "pending")
  /\ UNCHANGED <<kernel, positions, rows, claimed, derived, voided, turns>>

WorkerDies ==
  /\ claimed # {} /\ Turn /\ claimed' = {}
  /\ UNCHANGED <<kernel, positions, rows, tasks, derived, voided>>

\* enqueue_daily_sweep for one of its days, under keys of its own, once each.
Sweep(d) ==
  /\ Turn
  /\ tasks' = Enqueued(tasks, KeysOf("sweep", {s \in arrived : Log[s].day = d})
                                \union {<<"sweptDay", d>>})
  /\ UNCHANGED <<kernel, positions, rows, claimed, derived, voided>>

-----------------------------------------------------------------------------
(* Digests.                                                                  *)

HeldOn(d) == {s \in arrived : Log[s].day = d}

Differs(d) ==
  \/ OnDay(d) # HeldOn(d)
  \/ MemoriesOn(d) # memStored \intersect MemoriesOn(d)
  \/ disk[d] # "none" /\ OnDisk(d) # [e \in DOMAIN snaps \intersect {d} |-> snaps[e]]

\* reproject_day: the day's rows go, the tasks they had stay.
Reproject(d) ==
  /\ arrived' = arrived \ HeldOn(d) /\ memStored' = memStored \ MemoriesOn(d)
  /\ voided' = voided \union {s \in HeldOn(d) : Owed(s)}
  /\ snaps' = [e \in DOMAIN snaps \ {d} |-> snaps[e]]
  /\ tasks' = Enqueued(tasks, {<<"again", d>>})

\* Days are pushed and compared up to Lag days before the last one.
InCompareWindow(d) == \E s \in arrived : d <= Log[s].day - Lag

\* push_digest.
Mismatch(d) ==
  /\ InCompareWindow(d) /\ Differs(d) /\ Reproject(d)
  /\ UNCHANGED <<kernel, positions, claimed, derived, turns>>

\* The drill sends the day again, mode "reproject", with its memories and snapshot.
Resend(d) ==
  /\ \E s \in OnDay(d) : s \notin arrived /\ \E t \in arrived : t > s
  /\ arrived' = arrived \union OnDay(d) /\ IngestMemories(MemoriesOn(d))
  /\ IngestSnapshot(d, Enqueued(tasks, KeysOf("event", OnDay(d) \ arrived)))
  /\ UNCHANGED <<kernel, positions, claimed, derived, voided, turns>>

-----------------------------------------------------------------------------
RepNext ==
  \/ DayEnds \/ Arrive \/ Rebuild \/ SendMemories \/ SendSnapshot
  \/ Claim \/ WorkerDies
  \/ \E c \in claimed : Work(c) \/ Fail(c)
  \/ \E k \in DOMAIN tasks : Again(k)
  \/ \E d \in 1..Today : Sweep(d) \/ Mismatch(d) \/ Resend(d)

RepSpec == RepInit /\ [][RepNext]_repVars

-----------------------------------------------------------------------------
RepTypeOK ==
  /\ arrived \subseteq Occurred /\ memStored \subseteq Remembered
  /\ \A k \in DOMAIN tasks :
       /\ tasks[k].status \in {"pending", "running", "done", "waiting", "failed"}
       /\ tasks[k].tries \in 0..Attempts
  /\ DOMAIN snaps \subseteq 1..Today /\ changes \subseteq Occurred

\* Whatever is retried, swept, crashed or reset: an event the replica holds has its
\* derived rows, or a task that is not done (derived_task) still owes them, unless the
\* event was deleted by a mismatch while it was owed.
DerivedOrOwed ==
  \A s \in arrived \ voided :
    \/ Owed(s)
    \/ /\ Log[s].kind = "change" => s \in changes
       /\ Log[s].kind = "graded" => s \in DOMAIN grades
       /\ Log[s].kind = "revise" =>
            Log[s].about \in DOMAIN grades /\ grades[Log[s].about] >= s

\* Of the revisions worked off, the one with the highest number stays, in whatever
\* order retries, sweeps and crashes let them be worked off (event_grade_view).  Said
\* of the first world only: a later one finds the grades of the former in its place.
LatestRevisionWins ==
  world = 1 =>
    \A t \in DOMAIN grades :
      grades[t] = Max({0} \union {s \in applied : Log[s].about = t})

\* After a reset nothing of the former world is left: a grade is that of a row of
\* this world (batch.py:259).
GradesAreThisWorlds ==
  \A t \in DOMAIN grades : t \in Occurred /\ (grades[t] > 0 => grades[t] \in applied)
=============================================================================
