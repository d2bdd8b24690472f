--------------------------- MODULE ReplicaProofs ----------------------------
(*****************************************************************************)
(* Proofs about the replica's derived tasks and about the observer's         *)
(* timeline, for any worlds, days, attempts and sources, any ring and any    *)
(* number of events and breaks.                                              *)
(*****************************************************************************)
EXTENDS Replica, Screen, FiniteSetTheorems, WellFoundedInduction, SequenceTheorems, TLAPS

-----------------------------------------------------------------------------
(*****************************************************************************)
(* Replica: what arrived is derived or owed, and the last revision stays.    *)
(*****************************************************************************)
\* The states of a task, its row and its key.
Statuses == {"pending", "running", "done", "waiting", "failed"}

TaskRows == [status : Statuses, tries : 0..Attempts]

TaskKeys == {"event", "sweep", "daily", "sweptDay", "again"} \X Int

\* The types of what came, of the tasks and of what they derived.
RepTypes ==
  /\ world \in 1..Len(Worlds) /\ simDay \in 1..Today /\ snapAcked \in Nat
  /\ disk \in [1..Today -> {"none", "boot", "end"}]
  /\ tasks \in [DOMAIN tasks -> TaskRows] /\ DOMAIN tasks \subseteq TaskKeys
  /\ claimed \subseteq (1..world) \X TaskKeys
  /\ arrived \subseteq Occurred /\ memStored \subseteq Remembered
  /\ DOMAIN snaps \subseteq 1..Today /\ changes \subseteq Occurred
  /\ grades \in [DOMAIN grades -> Nat]

\* What the worker holds of this world is running, and what may run again has an
\* attempt left.
ClaimsRun ==
  /\ \A c \in claimed :
       c[1] = world => c[2] \in DOMAIN tasks /\ tasks[c[2]].status = "running"
  /\ \A k \in DOMAIN tasks : tasks[k].status \in {"pending", "waiting"} => tasks[k].tries < Attempts

\* What the row s of the log makes of the derived tables.
HasRows(s) ==
  /\ Log[s].kind = "change" => s \in changes
  /\ Log[s].kind = "graded" => s \in DOMAIN grades
  /\ Log[s].kind = "revise" =>
       Log[s].about \in DOMAIN grades /\ grades[Log[s].about] >= s

\* Every event that arrived has a task of its own; a task that is done has left its rows,
\* unless the event was gone when it was worked off.
TasksTell ==
  /\ \A s \in arrived : Log[s].kind # "plain" => <<"event", s>> \in DOMAIN tasks
  /\ \A s \in Int : <<"event", s>> \in DOMAIN tasks => Owed(s) \/ HasRows(s) \/ s \in voided
  /\ \A s \in Int : Owed(s) => s \in arrived \/ s \in voided

\* In the first world a grade is a revision worked off, and no other is later.
GradesTell ==
  world = 1 =>
    /\ applied \subseteq 1..Len(Log)
    /\ \A s \in applied : Log[s].about \in DOMAIN grades /\ s <= grades[Log[s].about]
    /\ \A t \in DOMAIN grades :
         grades[t] = 0 \/ (grades[t] \in applied /\ Log[grades[t]].about = t)

\* The inductive invariant of the derived tasks.
RepInv == RepTypes /\ ClaimsRun /\ TasksTell /\ GradesTell

\* A set of natural numbers that is not empty has a least.
LEMMA LeastOfNats ==
  ASSUME NEW S \in SUBSET Nat, S # {}
  PROVE  Min(S) \in S /\ \A k \in S : Min(S) <= k
<1>1. S \subseteq Nat
  OBVIOUS
<1>2. PICK m \in S : \A k \in S : ~ (<<k, m>> \in OpToRel(<, Nat))
  BY <1>1, NatLessThanWellFounded, WFMin
<1>3. \A k \in S : ~ (k < m)
  BY <1>1, <1>2 DEF OpToRel
<1>4. \A k \in S : m <= k
  BY <1>1, <1>3
<1> QED BY <1>4 DEF Min

\* Of those up to n as well.
LEMMA MinIsLeast ==
  ASSUME NEW n \in Nat, NEW S \in SUBSET (1..n), S # {}
  PROVE  Min(S) \in S /\ \A k \in S : Min(S) <= k
<1>1. S \in SUBSET Nat
  OBVIOUS
<1> QED BY <1>1, LeastOfNats

\* What the worlds' rows are.
LEMMA RowFacts ==
  ASSUME world \in 1..Len(Worlds)
  PROVE  /\ Len(Worlds) \in Nat /\ Len(Log) \in Nat /\ Len(Log) >= 1 /\ Log[1].day = 1
         /\ \A s \in 1..Len(Log) :
              /\ Log[s].kind \in Kinds /\ Log[s].day \in 1..Today /\ Log[s].about \in Nat
              /\ Log[s].kind = "revise" => Log[s].about \in 1..(s - 1)
<1>1. Worlds \in Seq(Seq([kind : Kinds, day : 1..Today, about : Nat]))
  BY ReplicaAssumption
<1>2. Log \in Seq([kind : Kinds, day : 1..Today, about : Nat]) /\ Len(Worlds) \in Nat
  BY <1>1 DEF Log
<1>3. Log # <<>> /\ Log[1].day = 1
  BY ReplicaAssumption DEF Log
<1>4. \A s \in 1..Len(Log) : Log[s].kind = "revise" => Log[s].about \in 1..(s - 1)
  BY ReplicaAssumption DEF Log
<1> HIDE DEF Log
<1>5. \A s \in 1..Len(Log) : Log[s] \in [kind : Kinds, day : 1..Today, about : Nat]
  <2>1. PICK l : l = Log
    OBVIOUS
  <2>2. ASSUME NEW R, l \in Seq(R) PROVE \A s \in 1..Len(l) : l[s] \in R
    BY <2>2
  <2> QED BY <1>2, <2>1, <2>2
<1>6. \A s \in 1..Len(Log) : Log[s].kind \in Kinds /\ Log[s].day \in 1..Today /\ Log[s].about \in Nat
  BY <1>5
<1>7. Len(Log) \in Nat /\ Len(Log) >= 1
  BY <1>2, <1>3
<1> QED BY <1>2, <1>3, <1>4, <1>6, <1>7

\* A world has a row on its first day.
LEMMA FirstRow ==
  ASSUME NEW w \in 1..Len(Worlds)
  PROVE  1 \in 1..Len(Worlds[w]) /\ Worlds[w][1].day = 1
<1>1. Worlds \in Seq(Seq([kind : Kinds, day : 1..Today, about : Nat]))
  BY ReplicaAssumption
<1>2. Worlds[w] \in Seq([kind : Kinds, day : 1..Today, about : Nat])
  BY <1>1
<1> QED BY <1>2, ReplicaAssumption

\* Enqueueing adds pending tasks and leaves those there are.
LEMMA EnqueuedFacts ==
  ASSUME NEW Q, Q \in [DOMAIN Q -> TaskRows], NEW keys
  PROVE  /\ Enqueued(Q, keys) \in [DOMAIN Q \union keys -> TaskRows]
         /\ DOMAIN Enqueued(Q, keys) = DOMAIN Q \union keys
         /\ \A k \in DOMAIN Q : Enqueued(Q, keys)[k] = Q[k]
         /\ \A k \in keys : k \notin DOMAIN Q =>
              Enqueued(Q, keys)[k].status = "pending" /\ Enqueued(Q, keys)[k].tries = 0
<1>1. [status |-> "pending", tries |-> 0] \in TaskRows
  BY ReplicaAssumption DEF TaskRows, Statuses
<1>2. Enqueued(Q, keys) =
        [k \in DOMAIN Q \union keys |->
              IF k \in DOMAIN Q THEN Q[k] ELSE [status |-> "pending", tries |-> 0]]
  BY DEF Enqueued
<1> QED BY <1>1, <1>2

\* A claim stays on its running task.
LEMMA EnqueuedKeepsClaims ==
  ASSUME ClaimsRun, tasks \in [DOMAIN tasks -> TaskRows],
         NEW keys, tasks' = Enqueued(tasks, keys),
         claimed' = claimed, world' = world
  PROVE  ClaimsRun'
<1>1. Attempts \in Nat /\ Attempts > 0
  BY ReplicaAssumption
<1>2. /\ DOMAIN tasks' = DOMAIN tasks \union keys
      /\ \A k \in DOMAIN tasks : tasks'[k] = tasks[k]
      /\ \A k \in keys : k \notin DOMAIN tasks => tasks'[k].status = "pending" /\ tasks'[k].tries = 0
  BY DEF Enqueued
<1>3. ASSUME NEW c \in claimed, c[1] = world
      PROVE  c[2] \in DOMAIN tasks' /\ tasks'[c[2]].status = "running"
  BY <1>2, <1>3 DEF ClaimsRun
<1>4. ASSUME NEW k \in DOMAIN tasks', tasks'[k].status \in {"pending", "waiting"}
      PROVE  tasks'[k].tries < Attempts
  BY <1>1, <1>2, <1>4 DEF ClaimsRun
<1> QED BY <1>3, <1>4 DEF ClaimsRun

\* What is enqueued takes no task away and opens those that are new.
LEMMA EnqueuedOwes ==
  ASSUME tasks \in [DOMAIN tasks -> TaskRows], NEW keys, tasks' = Enqueued(tasks, keys),
         NEW s
  PROVE  /\ Owed(s) => Owed(s)'
         /\ <<"event", s>> \in keys /\ <<"event", s>> \notin DOMAIN tasks => Owed(s)'
         /\ Owed(s)' => Owed(s) \/ \E source \in {"event", "sweep"} : <<source, s>> \in keys
         /\ <<"event", s>> \in DOMAIN tasks' => <<"event", s>> \in DOMAIN tasks \union keys
         /\ DOMAIN tasks' = DOMAIN tasks \union keys
<1>2. /\ DOMAIN tasks' = DOMAIN tasks \union keys
      /\ \A k \in DOMAIN tasks : tasks'[k] = tasks[k]
      /\ \A k \in keys : k \notin DOMAIN tasks => tasks'[k].status = "pending" /\ tasks'[k].tries = 0
  BY DEF Enqueued
<1> QED BY <1>2 DEF Owed, Open

\* What a step must leave alone for GradesTell, and for HasRows to last.
LEMMA GradesLast ==
  ASSUME GradesTell, UNCHANGED <<world, applied, grades>>
  PROVE  GradesTell'
BY DEF GradesTell, Log

\* What a row made lasts.
LEMMA RowsLast ==
  ASSUME UNCHANGED world, changes \subseteq changes', NEW s,
         grades \in [DOMAIN grades -> Nat], grades' \in [DOMAIN grades' -> Nat],
         DOMAIN grades \subseteq DOMAIN grades', \A t \in DOMAIN grades : grades[t] <= grades'[t],
         s \in Int, HasRows(s)
  PROVE  HasRows(s)'
<1>1. Log' = Log
  BY DEF Log
<1>2. Log[s].kind = "revise" => Log[s].about \in DOMAIN grades' /\ grades'[Log[s].about] >= s
  <2> SUFFICES ASSUME Log[s].kind = "revise"
               PROVE  Log[s].about \in DOMAIN grades' /\ grades'[Log[s].about] >= s
    OBVIOUS
  <2>1. PICK t : t = Log[s].about
    OBVIOUS
  <2>2. t \in DOMAIN grades /\ grades[t] >= s
    BY <2>1 DEF HasRows
  <2>3. grades[t] \in Nat /\ grades'[t] \in Nat
    BY <2>2
  <2>4. grades'[t] >= s
    BY <2>2, <2>3
  <2> QED BY <2>1, <2>2, <2>4
<1>3. (Log[s].kind = "change" => s \in changes') /\ (Log[s].kind = "graded" => s \in DOMAIN grades')
  BY DEF HasRows
<1> QED BY <1>1, <1>2, <1>3 DEF HasRows

\* Enqueueing for what arrives keeps what the tasks tell.
LEMMA EnqueueTells ==
  ASSUME RepTypes, TasksTell, UNCHANGED <<world, changes, grades>>,
         NEW keys, tasks' = Enqueued(tasks, keys), voided \subseteq voided',
         \A s \in arrived' : Log[s].kind # "plain" => s \in arrived \/ <<"event", s>> \in keys,
         \A s \in Int : <<"event", s>> \in keys \/ <<"sweep", s>> \in keys => s \in arrived',
         \A s \in arrived : s \in arrived' \/ s \in voided' \/ ~ Owed(s)
  PROVE  TasksTell'
<1>0. tasks \in [DOMAIN tasks -> TaskRows] /\ Log' = Log
  BY DEF RepTypes, Log
<1>1. ASSUME NEW s \in arrived', Log[s].kind # "plain" PROVE <<"event", s>> \in DOMAIN tasks'
  <2>1. DOMAIN tasks' = DOMAIN tasks \union keys
    BY <1>0, EnqueuedOwes
  <2> QED BY <1>1, <2>1 DEF TasksTell
<1>2. ASSUME NEW s \in Int, <<"event", s>> \in DOMAIN tasks'
      PROVE  Owed(s)' \/ HasRows(s)' \/ s \in voided'
  <2>1. CASE <<"event", s>> \in DOMAIN tasks
    <3>1. Owed(s) \/ HasRows(s) \/ s \in voided
      BY <2>1 DEF TasksTell
    <3>2. Owed(s) => Owed(s)'
      BY <1>0, EnqueuedOwes
    <3>3. HasRows(s) => HasRows(s)'
      BY <1>0 DEF HasRows
    <3> QED BY <3>1, <3>2, <3>3
  <2>2. CASE <<"event", s>> \notin DOMAIN tasks
    <3>1. <<"event", s>> \in keys
      BY <1>0, <1>2, <2>2, EnqueuedOwes
    <3> QED BY <1>0, <3>1, <2>2, EnqueuedOwes
  <2> QED BY <2>1, <2>2
<1>3. ASSUME NEW s \in Int, Owed(s)' PROVE s \in arrived' \/ s \in voided'
  <2>1. Owed(s) \/ \E source \in {"event", "sweep"} : <<source, s>> \in keys
    BY <1>0, <1>3, EnqueuedOwes
  <2>2. Owed(s) => s \in arrived \/ s \in voided
    BY DEF TasksTell
  <2>3. (\E source \in {"event", "sweep"} : <<source, s>> \in keys) => s \in arrived'
    OBVIOUS
  <2> QED BY <2>1, <2>2, <2>3
<1> QED BY <1>0, <1>1, <1>2, <1>3 DEF TasksTell

\* Where tasks only change between open states, nothing is owed less.
LEMMA OpenTells ==
  ASSUME RepTypes, TasksTell, UNCHANGED <<world, changes, grades, arrived, voided>>,
         DOMAIN tasks' = DOMAIN tasks,
         \A k \in DOMAIN tasks : tasks'[k].status # "done" <=> tasks[k].status # "done"
  PROVE  TasksTell'
<1>1. Log' = Log /\ \A s : Owed(s)' <=> Owed(s)
  BY DEF Log, Owed, Open
<1>2. \A s : HasRows(s)' <=> HasRows(s)
  BY <1>1 DEF HasRows
<1> QED BY <1>1, <1>2 DEF TasksTell

\* Nothing has come at the beginning.
LEMMA InitHolds == RepInit => RepInv
<1> SUFFICES ASSUME RepInit PROVE RepInv
  OBVIOUS
<1>1. Today \in Nat /\ Today > 0 /\ Worlds # <<>> /\ Worlds \in Seq(Seq([kind : Kinds, day : 1..Today, about : Nat]))
  BY ReplicaAssumption
<1>2. Len(Worlds) \in Nat /\ Len(Worlds) > 0
  BY <1>1
<1>3. RepTypes
  BY <1>1, <1>2 DEF RepInit, RepTypes, Empty, TaskRows
<1>4. ClaimsRun /\ TasksTell /\ GradesTell
  BY DEF RepInit, ClaimsRun, TasksTell, GradesTell, Empty, Owed, Open
<1> QED BY <1>3, <1>4 DEF RepInv

\* Days that end add to what has occurred.
LEMMA OccurredGrows ==
  ASSUME RepTypes, world' = world, simDay' \in Nat, simDay <= simDay'
  PROVE  Occurred \subseteq Occurred' /\ Remembered \subseteq Remembered'
<1>1. Log' = Log /\ \A s \in 1..Len(Log) : Log[s].day \in Nat
  BY RowFacts DEF Log, RepTypes
<1>2. simDay \in Nat
  BY DEF RepTypes
<1>3. Occurred \subseteq Occurred'
  BY <1>1, <1>2 DEF Occurred
<1> QED BY <1>3 DEF Remembered

\* While no day ends, it stays.
LEMMA OccurredStays ==
  ASSUME UNCHANGED <<world, simDay>>
  PROVE  Occurred = Occurred' /\ Remembered = Remembered' /\ Log' = Log
BY DEF Occurred, Remembered, Log

\* A day ends in the kernel.
LEMMA DayEndsStep == RepInv /\ DayEnds => RepInv'
<1> SUFFICES ASSUME RepInv, DayEnds PROVE RepInv'
  OBVIOUS
<1> USE DEF RepInv
<1>1. simDay' = simDay + 1 /\ world' = world /\ simDay \in 1..Today /\ Today \in Nat
  BY ReplicaAssumption DEF DayEnds, RepTypes
<1>2. Occurred \subseteq Occurred' /\ Remembered \subseteq Remembered'
  BY <1>1, OccurredGrows
<1>3. UNCHANGED <<snapAcked, arrived, memStored, snaps, tasks, claimed, changes, grades, applied, voided>>
  BY DEF DayEnds, positions, rows, queue, derived
<1>4. simDay' \in 1..Today
  BY <1>1 DEF DayEnds
<1>5. disk' \in [1..Today -> {"none", "boot", "end"}]
  BY DEF DayEnds, RepTypes
<1>6. RepTypes'
  BY <1>1, <1>2, <1>3, <1>4, <1>5 DEF RepTypes
<1>7. ClaimsRun'
  BY <1>1, <1>3 DEF ClaimsRun
<1>8. TasksTell'
  BY <1>1, <1>3, OpenTells
<1>9. GradesTell'
  BY <1>1, <1>3, GradesLast
<1> QED BY <1>6, <1>7, <1>8, <1>9

\* The kernel sends the memories of its days.
LEMMA SendMemoriesStep == RepInv /\ SendMemories => RepInv'
<1> SUFFICES ASSUME RepInv, SendMemories PROVE RepInv'
  OBVIOUS
<1> USE DEF RepInv
<1>1. UNCHANGED <<world, simDay, disk, snapAcked, arrived, snaps, tasks, claimed, changes, grades, applied, voided>>
  BY DEF SendMemories, kernel, queue, derived
<1>2. Occurred = Occurred' /\ Remembered = Remembered'
  BY <1>1, OccurredStays
<1>3. memStored' \subseteq Remembered
  BY DEF SendMemories, IngestMemories, RepTypes
<1>4. RepTypes'
  BY <1>1, <1>2, <1>3 DEF RepTypes
<1>5. ClaimsRun'
  BY <1>1 DEF ClaimsRun
<1>6. TasksTell'
  BY <1>1, OpenTells
<1>7. GradesTell'
  BY <1>1, GradesLast
<1> QED BY <1>4, <1>5, <1>6, <1>7

\* The keys of tasks for events.
LEMMA EventKeys ==
  ASSUME NEW S, S \subseteq Int, NEW source \in {"event", "sweep"}
  PROVE  /\ KeysOf(source, S) \subseteq TaskKeys
         /\ \A s : <<source, s>> \in KeysOf(source, S) <=> s \in S /\ Log[s].kind # "plain"
         /\ \A other, s : <<other, s>> \in KeysOf(source, S) => other = source
<1>1. KeysOf(source, S) = {<<source, s>> : s \in {x \in S : Log[x].kind # "plain"}}
  BY DEF KeysOf
<1>2. ASSUME NEW k \in KeysOf(source, S)
      PROVE  \E s \in S : k = <<source, s>> /\ Log[s].kind # "plain"
  BY <1>1
<1>3. KeysOf(source, S) \subseteq TaskKeys
  BY <1>2 DEF TaskKeys
<1>4. ASSUME NEW other, NEW s, <<other, s>> \in KeysOf(source, S)
      PROVE  other = source /\ s \in S /\ Log[s].kind # "plain"
  BY <1>2, <1>4
<1>5. ASSUME NEW s \in S, Log[s].kind # "plain" PROVE <<source, s>> \in KeysOf(source, S)
  BY <1>1, <1>5
<1> QED BY <1>3, <1>4, <1>5

\* The types after tasks are enqueued.
LEMMA EnqueueTypes ==
  ASSUME RepTypes, NEW keys \in SUBSET TaskKeys, tasks' = Enqueued(tasks, keys)
  PROVE  tasks' \in [DOMAIN tasks' -> TaskRows] /\ DOMAIN tasks' \subseteq TaskKeys
<1>1. tasks \in [DOMAIN tasks -> TaskRows] /\ DOMAIN tasks \subseteq TaskKeys
  BY DEF RepTypes
<1>2. [status |-> "pending", tries |-> 0] \in TaskRows
  BY ReplicaAssumption DEF TaskRows, Statuses
<1>3. tasks' = [k \in DOMAIN tasks \union keys |->
                  IF k \in DOMAIN tasks THEN tasks[k] ELSE [status |-> "pending", tries |-> 0]]
  BY DEF Enqueued
<1>4. DOMAIN tasks' = DOMAIN tasks \union keys
  BY <1>3
<1>5. tasks' \in [DOMAIN tasks \union keys -> TaskRows]
  BY <1>1, <1>2, <1>3
<1> QED BY <1>1, <1>4, <1>5

\* Events arrive and are enqueued in one transaction.
LEMMA ArriveStep == RepInv /\ Arrive => RepInv'
<1> SUFFICES ASSUME RepInv, Arrive PROVE RepInv'
  OBVIOUS
<1> USE DEF RepInv
<1>1. PICK s : /\ s \in Occurred /\ arrived' = arrived \union {s}
               /\ tasks' = Enqueued(tasks, KeysOf("event", {s}))
  BY DEF Arrive
<1>2. UNCHANGED <<world, simDay, disk, snapAcked, memStored, snaps, claimed, changes, grades, applied, voided>>
  BY DEF Arrive, kernel, positions, derived
<1>3. Occurred = Occurred' /\ Remembered = Remembered'
  BY <1>2, OccurredStays
<1>4. s \in Int
  BY <1>1 DEF Occurred
<1>5. PICK keys \in SUBSET TaskKeys :
        /\ keys = KeysOf("event", {s})
        /\ \A n : <<"event", n>> \in keys <=> n \in {s} /\ Log[n].kind # "plain"
        /\ \A other, n : <<other, n>> \in keys => other = "event"
  BY <1>4, EventKeys
<1>6. tasks' = Enqueued(tasks, keys)
  BY <1>1, <1>5
<1>7. RepTypes'
  BY <1>1, <1>2, <1>3, <1>6, EnqueueTypes DEF RepTypes
<1>8. ClaimsRun'
  BY <1>2, <1>6, EnqueuedKeepsClaims DEF RepTypes
<1>9. TasksTell'
  <2>1. \A n \in arrived' : Log[n].kind # "plain" => n \in arrived \/ <<"event", n>> \in keys
    BY <1>1, <1>5
  <2>2. \A n \in Int : <<"event", n>> \in keys \/ <<"sweep", n>> \in keys => n \in arrived'
    BY <1>1, <1>5
  <2> QED BY <1>1, <1>2, <1>6, <2>1, <2>2, EnqueueTells
<1>10. GradesTell'
  BY <1>2, GradesLast
<1> QED BY <1>7, <1>8, <1>9, <1>10

\* A snapshot arrives.
LEMMA SendSnapshotStep == RepInv /\ SendSnapshot => RepInv'
<1> SUFFICES ASSUME RepInv, SendSnapshot PROVE RepInv'
  OBVIOUS
<1> USE DEF RepInv
<1>1. PICK d : /\ d = Min(Pending) /\ IngestSnapshot(d, tasks) /\ snapAcked' \in {d, snapAcked}
  BY DEF SendSnapshot
<1>2. UNCHANGED <<world, simDay, disk, arrived, memStored, claimed, changes, grades, applied, voided>>
  BY DEF SendSnapshot, kernel, derived
<1>3. Occurred = Occurred' /\ Remembered = Remembered'
  BY <1>2, OccurredStays
<1>4. d \in 1..Today
  <2>1. Pending \in SUBSET (1..Today) /\ Pending # {} /\ Today \in Nat
    BY SMTT(30), ReplicaAssumption DEF Pending, RepTypes, SendSnapshot
  <2>2. Min(Pending) \in Pending
    BY <2>1, MinIsLeast
  <2> QED BY <1>1, <2>1, <2>2
<1>5. PICK keys \in SUBSET ({"daily"} \X Int) : tasks' = Enqueued(tasks, keys)
  <2>1. (IF disk[d] = "none" THEN {} ELSE {<<"daily", d - 1>>}) \in SUBSET ({"daily"} \X Int)
    BY <1>4
  <2> QED BY <1>1, <2>1 DEF IngestSnapshot
<1>6. keys \in SUBSET TaskKeys
  BY <1>5 DEF TaskKeys
<1>7. DOMAIN snaps' \subseteq 1..Today
  BY <1>1, <1>4 DEF IngestSnapshot, With, RepTypes
<1>8. RepTypes'
  <2>1. snapAcked' \in Nat
    BY <1>1, <1>4 DEF RepTypes
  <2> QED BY <1>2, <1>3, <1>5, <1>6, <1>7, <2>1, EnqueueTypes DEF RepTypes
<1>9. ClaimsRun'
  BY <1>2, <1>5, EnqueuedKeepsClaims DEF RepTypes
<1>10. TasksTell'
  <2>2. \A n \in Int : ~ (<<"event", n>> \in keys \/ <<"sweep", n>> \in keys)
    BY <1>5
  <2> QED BY <1>2, <1>5, <2>2, EnqueueTells
<1>11. GradesTell'
  BY <1>2, GradesLast
<1> QED BY <1>8, <1>9, <1>10, <1>11

\* A sweep enqueues what a day's events lack.
LEMMA SweepStep == ASSUME NEW d \in 1..Today, RepInv, Sweep(d) PROVE RepInv'
<1> USE DEF RepInv
<1>1. UNCHANGED <<world, simDay, disk, snapAcked, arrived, memStored, snaps, claimed, changes, grades, applied, voided>>
  BY DEF Sweep, kernel, positions, rows, derived
<1>2. Occurred = Occurred' /\ Remembered = Remembered'
  BY <1>1, OccurredStays
<1>3. {s \in arrived : Log[s].day = d} \subseteq Int
  BY DEF RepTypes, Occurred
<1>4. PICK own \in SUBSET TaskKeys :
        /\ own = KeysOf("sweep", {s \in arrived : Log[s].day = d})
        /\ \A n : <<"sweep", n>> \in own <=> n \in {s \in arrived : Log[s].day = d} /\ Log[n].kind # "plain"
        /\ \A other, n : <<other, n>> \in own => other = "sweep"
  BY <1>3, EventKeys
<1>5. PICK keys : keys = own \union {<<"sweptDay", d>>}
  OBVIOUS
<1>6. tasks' = Enqueued(tasks, keys)
  BY <1>4, <1>5 DEF Sweep
<1>7. keys \in SUBSET TaskKeys
  BY <1>5 DEF TaskKeys
<1>8. RepTypes'
  BY <1>1, <1>2, <1>6, <1>7, EnqueueTypes DEF RepTypes
<1>9. ClaimsRun'
  BY <1>1, <1>6, EnqueuedKeepsClaims DEF RepTypes
<1>10. TasksTell'
  <2>1. \A n \in Int : <<"event", n>> \in keys \/ <<"sweep", n>> \in keys => n \in arrived'
    BY <1>1, <1>4, <1>5
  <2> QED BY <1>1, <1>6, <2>1, EnqueueTells
<1>11. GradesTell'
  BY <1>1, GradesLast
<1> QED BY <1>8, <1>9, <1>10, <1>11

\* A day whose counts differ is swept for.
LEMMA MismatchStep == ASSUME NEW d \in 1..Today, RepInv, Mismatch(d) PROVE RepInv'
<1> USE DEF RepInv
<1>1. UNCHANGED <<world, simDay, disk, snapAcked, claimed, changes, grades, applied>>
  BY DEF Mismatch, kernel, positions, derived
<1>2. Occurred = Occurred' /\ Remembered = Remembered'
  BY <1>1, OccurredStays
<1>3. PICK keys \in SUBSET TaskKeys : keys = {<<"again", d>>}
  <2>1. {<<"again", d>>} \in SUBSET TaskKeys
    BY DEF TaskKeys
  <2> QED BY <2>1
<1>4. tasks' = Enqueued(tasks, keys)
  BY <1>3 DEF Mismatch, Reproject
<1>5. /\ arrived' \subseteq arrived /\ memStored' \subseteq memStored
      /\ DOMAIN snaps' \subseteq DOMAIN snaps /\ voided \subseteq voided'
      /\ \A s \in arrived : s \in arrived' \/ s \in voided' \/ ~ Owed(s)
  BY DEF Mismatch, Reproject
<1>6. RepTypes'
  BY <1>1, <1>2, <1>4, <1>5, EnqueueTypes DEF RepTypes
<1>7. ClaimsRun'
  BY <1>1, <1>4, EnqueuedKeepsClaims DEF RepTypes
<1>8. TasksTell'
  <2>1. \A n \in Int : ~ (<<"event", n>> \in keys \/ <<"sweep", n>> \in keys)
    BY <1>3
  <2> QED BY <1>1, <1>4, <1>5, <2>1, EnqueueTells
<1>9. GradesTell'
  BY <1>1, GradesLast
<1> QED BY <1>6, <1>7, <1>8, <1>9

\* A day is sent again.
LEMMA ResendStep == ASSUME NEW d \in 1..Today, RepInv, Resend(d) PROVE RepInv'
<1> USE DEF RepInv
<1>1. UNCHANGED <<world, simDay, disk, snapAcked, claimed, changes, grades, applied, voided>>
  BY DEF Resend, kernel, positions, derived
<1>2. Occurred = Occurred' /\ Remembered = Remembered'
  BY <1>1, OccurredStays
<1>3. OnDay(d) \ arrived \subseteq Int
  BY DEF OnDay, Occurred
<1>4. PICK own \in SUBSET TaskKeys :
        /\ own = KeysOf("event", OnDay(d) \ arrived)
        /\ \A n : <<"event", n>> \in own <=> n \in OnDay(d) \ arrived /\ Log[n].kind # "plain"
        /\ \A other, n : <<other, n>> \in own => other = "event"
  BY <1>3, EventKeys
<1>5. PICK more \in SUBSET TaskKeys :
        /\ tasks' = Enqueued(Enqueued(tasks, own), more)
        /\ \A n : <<"event", n>> \notin more /\ <<"sweep", n>> \notin more
  <2>1. PICK more \in SUBSET TaskKeys : /\ more = (IF disk[d] = "none" THEN {} ELSE {<<"daily", d - 1>>})
                                        /\ \A n : <<"event", n>> \notin more /\ <<"sweep", n>> \notin more
    <3>1. {<<"daily", d - 1>>} \in SUBSET TaskKeys /\ {} \in SUBSET TaskKeys
      BY DEF TaskKeys
    <3>2. \A n : /\ <<"event", n>> \notin {<<"daily", d - 1>>} /\ <<"sweep", n>> \notin {<<"daily", d - 1>>}
                 /\ <<"event", n>> \notin {} /\ <<"sweep", n>> \notin {}
      OBVIOUS
    <3>3. CASE disk[d] = "none"
      <4>1. {} = (IF disk[d] = "none" THEN {} ELSE {<<"daily", d - 1>>})
        BY <3>3
      <4> QED BY <3>1, <3>2, <4>1, Zenon
    <3>4. CASE disk[d] # "none"
      <4>1. {<<"daily", d - 1>>} = (IF disk[d] = "none" THEN {} ELSE {<<"daily", d - 1>>})
        BY <3>4
      <4> QED BY <3>1, <3>2, <4>1, Zenon
    <3> QED BY <3>3, <3>4
  <2> QED BY <1>4, <2>1 DEF Resend, IngestSnapshot
<1>6. tasks' = Enqueued(tasks, own \union more)
  BY <1>5 DEF Enqueued
<1>7. PICK keys \in SUBSET TaskKeys : keys = own \union more
  OBVIOUS
<1>8. /\ arrived' = arrived \union OnDay(d) /\ memStored' \subseteq Remembered
      /\ DOMAIN snaps' \subseteq 1..Today
  BY DEF Resend, IngestMemories, IngestSnapshot, With, MemoriesOn, RepTypes
<1>9. RepTypes'
  <2>1. arrived' \subseteq Occurred
    BY <1>8 DEF OnDay, RepTypes
  <2> QED BY <1>1, <1>2, <1>6, <1>7, <1>8, <2>1, EnqueueTypes DEF RepTypes
<1>10. ClaimsRun'
  BY <1>1, <1>6, EnqueuedKeepsClaims DEF RepTypes
<1>11. TasksTell'
  <2>1. \A n \in Int : <<"event", n>> \in keys \/ <<"sweep", n>> \in keys => n \in arrived'
    BY <1>4, <1>5, <1>7, <1>8
  <2>2. \A n \in arrived' : Log[n].kind # "plain" => n \in arrived \/ <<"event", n>> \in keys
    BY <1>4, <1>7, <1>8
  <2> QED BY <1>1, <1>6, <1>7, <1>8, <2>1, <2>2, EnqueueTells
<1>12. GradesTell'
  BY <1>1, GradesLast
<1> QED BY <1>9, <1>10, <1>11, <1>12

\* The worker takes a task.
LEMMA ClaimStep == ASSUME RepInv, Claim PROVE RepInv'
<1> USE DEF RepInv
<1>1. /\ UNCHANGED <<world, simDay, disk, snapAcked, arrived, memStored, snaps, changes, grades, applied, voided>>
      /\ claimed' = {world} \X Due
      /\ tasks' = [k \in DOMAIN tasks |->
           IF k \in Due THEN [status |-> "running", tries |-> tasks[k].tries + 1] ELSE tasks[k]]
  BY DEF Claim, kernel, positions, rows, derived
<1>2. Occurred = Occurred' /\ Remembered = Remembered'
  BY <1>1, OccurredStays
<1>3. \A k \in DOMAIN tasks : tasks[k] \in TaskRows
  BY DEF RepTypes
<1>4. \A k \in Due : [status |-> "running", tries |-> tasks[k].tries + 1] \in TaskRows
  BY <1>3, ReplicaAssumption DEF Due, ClaimsRun, TaskRows, Statuses
<1>5. tasks' \in [DOMAIN tasks -> TaskRows]
  BY <1>1, <1>3, <1>4
<1>6. DOMAIN tasks' = DOMAIN tasks
  BY <1>1
<1>7. claimed' \subseteq (1..world) \X TaskKeys
  BY <1>1 DEF Due, RepTypes
<1>8. RepTypes'
  BY <1>1, <1>2, <1>5, <1>6, <1>7 DEF RepTypes
<1>9. ClaimsRun'
  BY <1>1 DEF ClaimsRun, Due
<1>10. TasksTell'
  BY <1>1, OpenTells DEF Due
<1>11. GradesTell'
  BY <1>1, GradesLast
<1> QED BY <1>8, <1>9, <1>10, <1>11

\* The worker dies with its tasks running.
LEMMA WorkerDiesStep == ASSUME RepInv, WorkerDies PROVE RepInv'
<1> USE DEF RepInv
<1>1. /\ UNCHANGED <<world, simDay, disk, snapAcked, arrived, memStored, snaps, tasks, changes, grades, applied, voided>>
      /\ claimed' = {}
  BY DEF WorkerDies, kernel, positions, rows, derived
<1>2. Occurred = Occurred' /\ Remembered = Remembered'
  BY <1>1, OccurredStays
<1>3. RepTypes' /\ ClaimsRun'
  BY <1>1, <1>2 DEF RepTypes, ClaimsRun
<1>4. TasksTell'
  BY <1>1, OpenTells
<1>5. GradesTell'
  BY <1>1, GradesLast
<1> QED BY <1>3, <1>4, <1>5

\* What Marked does to the queue.
LEMMA MarkedTypes ==
  ASSUME RepTypes, NEW keys, NEW status \in Statuses, tasks' = Marked(keys, status)
  PROVE  /\ tasks' \in [DOMAIN tasks' -> TaskRows] /\ DOMAIN tasks' = DOMAIN tasks
         /\ \A k \in DOMAIN tasks :
              /\ tasks'[k].tries = tasks[k].tries
              /\ k \in keys => tasks'[k].status = status
              /\ k \notin keys => tasks'[k] = tasks[k]
<1>1. \A k \in DOMAIN tasks : tasks[k] \in TaskRows
  BY DEF RepTypes
<1>2. \A k \in DOMAIN tasks : [tasks[k] EXCEPT !.status = status] \in TaskRows
  BY <1>1 DEF TaskRows
<1>3. tasks' = [k \in DOMAIN tasks |-> IF k \in keys THEN [tasks[k] EXCEPT !.status = status] ELSE tasks[k]]
  BY DEF Marked
<1>4. DOMAIN tasks' = DOMAIN tasks /\ tasks' \in [DOMAIN tasks -> TaskRows]
  BY <1>1, <1>2, <1>3
<1>5. ASSUME NEW k \in DOMAIN tasks
      PROVE  /\ tasks'[k].tries = tasks[k].tries
             /\ k \in keys => tasks'[k].status = status
             /\ k \notin keys => tasks'[k] = tasks[k]
  BY <1>1, <1>3 DEF TaskRows
<1> QED BY <1>4, <1>5

\* A task that was lost is pending again.
LEMMA AgainStep == ASSUME NEW k \in DOMAIN tasks, RepInv, Again(k) PROVE RepInv'
<1> USE DEF RepInv
<1>1. /\ UNCHANGED <<world, simDay, disk, snapAcked, arrived, memStored, snaps, claimed, changes, grades, applied, voided>>
      /\ tasks[k].status = "waiting" /\ tasks' = Marked({k}, "pending")
  BY DEF Again, kernel, positions, rows, derived
<1>2. Occurred = Occurred' /\ Remembered = Remembered'
  BY <1>1, OccurredStays
<1>3. /\ tasks' \in [DOMAIN tasks' -> TaskRows] /\ DOMAIN tasks' = DOMAIN tasks
      /\ \A n \in DOMAIN tasks :
              /\ tasks'[n].tries = tasks[n].tries
              /\ n \in {k} => tasks'[n].status = "pending"
              /\ n \notin {k} => tasks'[n] = tasks[n]
  <2>1. "pending" \in Statuses
    BY DEF Statuses
  <2> QED BY <1>1, <2>1, MarkedTypes
<1>4. RepTypes'
  BY <1>1, <1>2, <1>3 DEF RepTypes
<1>5. ClaimsRun'
  BY <1>1, <1>3 DEF ClaimsRun
<1>6. TasksTell'
  BY <1>1, <1>3, OpenTells
<1>7. GradesTell'
  BY <1>1, GradesLast
<1> QED BY <1>4, <1>5, <1>6, <1>7

\* A task fails.
LEMMA FailStep == ASSUME NEW c \in claimed, RepInv, Fail(c) PROVE RepInv'
<1> USE DEF RepInv
<1>1. /\ UNCHANGED <<world, simDay, disk, snapAcked, arrived, memStored, snaps, changes, grades, applied, voided>>
      /\ claimed' = claimed \ {c}
  BY DEF Fail, kernel, positions, rows, derived
<1>2. Occurred = Occurred' /\ Remembered = Remembered'
  BY <1>1, OccurredStays
<1>3. CASE c[1] # world
  <2>1. tasks' = tasks
    BY <1>3 DEF Fail
  <2>2. RepTypes' /\ ClaimsRun'
    BY <1>1, <1>2, <2>1 DEF RepTypes, ClaimsRun
  <2>3. TasksTell'
    BY <1>1, <2>1, OpenTells
  <2>4. GradesTell'
    BY <1>1, GradesLast
  <2> QED BY <2>2, <2>3, <2>4
<1>4. CASE c[1] = world
  <2>1. PICK k, status : /\ k = c[2] /\ status = (IF tasks[k].tries >= Attempts THEN "failed" ELSE "waiting")
                         /\ tasks' = Marked({k}, status)
    BY <1>4 DEF Fail
  <2>2. k \in DOMAIN tasks /\ tasks[k].status = "running" /\ tasks[k] \in TaskRows
    BY <1>4, <2>1 DEF ClaimsRun, RepTypes
  <2>3. status \in Statuses /\ status # "done"
    BY <2>1 DEF Statuses
  <2>4. /\ tasks' \in [DOMAIN tasks' -> TaskRows] /\ DOMAIN tasks' = DOMAIN tasks
        /\ \A n \in DOMAIN tasks :
              /\ tasks'[n].tries = tasks[n].tries
              /\ n \in {k} => tasks'[n].status = status
              /\ n \notin {k} => tasks'[n] = tasks[n]
    <3>1. tasks' = Marked({k}, status) /\ status \in Statuses /\ RepTypes
      BY <2>1, <2>3
    <3>2. PICK keys : keys = {k}
      OBVIOUS
    <3>3. tasks' = Marked(keys, status)
      BY <3>1, <3>2
    <3> HIDE DEF RepInv
    <3> QED BY <3>1, <3>2, <3>3, MarkedTypes
  <2>5. RepTypes'
    BY <1>1, <1>2, <2>4 DEF RepTypes
  <2>6. ASSUME NEW e \in claimed', e[1] = world'
        PROVE  e[2] \in DOMAIN tasks' /\ tasks'[e[2]].status = "running"
    <3>1. e \in claimed /\ e # c /\ e[1] = c[1]
      BY <1>1, <1>4, <2>6
    <3>2. e[2] # k
      BY <3>1, <2>1 DEF RepTypes
    <3> QED BY <1>1, <2>4, <2>6, <3>1, <3>2 DEF ClaimsRun
  <2>7. ASSUME NEW n \in DOMAIN tasks', tasks'[n].status \in {"pending", "waiting"}
        PROVE  tasks'[n].tries < Attempts
    <3>1. CASE n = k
      <4>1. tasks[k].tries \in Nat /\ Attempts \in Nat
        BY <2>2, ReplicaAssumption DEF TaskRows
      <4>2. tasks'[k].status = status /\ tasks'[k].tries = tasks[k].tries
        BY <2>2, <2>4
      <4>3. status = "waiting"
        BY <2>1, <2>7, <3>1, <4>2
      <4>4. ~ (tasks[k].tries >= Attempts)
        BY <2>1, <4>3
      <4> QED BY <3>1, <4>1, <4>2, <4>4
    <3>2. CASE n # k
      BY <2>4, <2>7, <3>2 DEF ClaimsRun
    <3> QED BY <3>1, <3>2
  <2>8. TasksTell'
    BY <1>1, <2>2, <2>3, <2>4, OpenTells
  <2>9. GradesTell'
    BY <1>1, GradesLast
  <2> QED BY <2>5, <2>6, <2>7, <2>8, <2>9 DEF ClaimsRun
<1> QED BY <1>3, <1>4

\* What Grade does to the grades.
LEMMA GradeCases ==
  ASSUME RepTypes, NEW s \in arrived, Grade(s), world' = world
  PROVE  /\ s \in 1..Len(Log) /\ s \in Nat /\ Log' = Log
         /\ applied' = IF Log[s].kind = "revise" THEN applied \union {s} ELSE applied
         /\ \/ Log[s].kind = "graded" /\ s \notin DOMAIN grades /\ grades' = With(grades, s, 0)
            \/ Log[s].kind = "graded" /\ s \in DOMAIN grades /\ grades' = grades
            \/ Log[s].kind = "revise" /\ Newer(s, Log[s].about) /\ grades' = With(grades, Log[s].about, s)
            \/ Log[s].kind = "revise" /\ ~ Newer(s, Log[s].about) /\ grades' = grades
            \/ Log[s].kind \notin {"graded", "revise"} /\ grades' = grades
<1>1. s \in 1..Len(Log) /\ Len(Log) \in Nat
  BY RowFacts DEF RepTypes, Occurred
<1>2. Log' = Log
  BY DEF Log
<1> QED BY <1>1, <1>2 DEF Grade

\* A grading never takes a later revision back.
LEMMA GradeGrows ==
  ASSUME RepTypes, NEW s \in arrived, Grade(s), world' = world, changes' = changes,
         Log[s].kind # "change"
  PROVE  /\ grades' \in [DOMAIN grades' -> Nat] /\ DOMAIN grades \subseteq DOMAIN grades'
         /\ \A t \in DOMAIN grades : grades[t] <= grades'[t]
         /\ HasRows(s)'
<1> DEFINE t == Log[s].about
<1>1. /\ s \in 1..Len(Log) /\ s \in Nat /\ Log' = Log
      /\ \/ Log[s].kind = "graded" /\ s \notin DOMAIN grades /\ grades' = With(grades, s, 0)
         \/ Log[s].kind = "graded" /\ s \in DOMAIN grades /\ grades' = grades
         \/ Log[s].kind = "revise" /\ Newer(s, t) /\ grades' = With(grades, t, s)
         \/ Log[s].kind = "revise" /\ ~ Newer(s, t) /\ grades' = grades
         \/ Log[s].kind \notin {"graded", "revise"} /\ grades' = grades
  BY GradeCases
<1>2. grades \in [DOMAIN grades -> Nat] /\ \A x \in DOMAIN grades : grades[x] \in Nat
  BY DEF RepTypes
<1>3. CASE Log[s].kind = "graded" /\ s \notin DOMAIN grades /\ grades' = With(grades, s, 0)
  <2>1. /\ grades' \in [DOMAIN grades' -> Nat]
        /\ DOMAIN grades' = DOMAIN grades \union {s} /\ grades'[s] = 0
        /\ \A x \in DOMAIN grades : x # s => grades'[x] = grades[x]
    BY <1>2, <1>3 DEF With
  <2> QED BY <1>1, <1>2, <1>3, <2>1 DEF HasRows
<1>4. CASE grades' = grades /\ (Log[s].kind = "graded" => s \in DOMAIN grades)
           /\ Log[s].kind # "revise"
  BY <1>1, <1>2, <1>4 DEF HasRows
<1>5. CASE Log[s].kind = "revise" /\ ~ Newer(s, t) /\ grades' = grades
  <2>1. t \in DOMAIN grades /\ ~ (grades[t] < s)
    BY <1>5 DEF Newer
  <2>2. PICK g \in Nat : g = grades[t]
    BY <1>2, <2>1
  <2>3. g >= s
    BY <1>1, <2>1, <2>2
  <2>4. HasRows(s)'
    BY <1>1, <1>5, <2>1, <2>2, <2>3 DEF HasRows
  <2> QED BY <1>2, <1>5, <2>4
<1>6. CASE Log[s].kind = "revise" /\ Newer(s, t) /\ grades' = With(grades, t, s)
  <2>0. PICK u : u = t
    OBVIOUS
  <2>1. /\ grades' \in [DOMAIN grades' -> Nat]
        /\ DOMAIN grades' = DOMAIN grades \union {u} /\ grades'[u] = s
        /\ \A x \in DOMAIN grades : x # u => grades'[x] = grades[x]
    BY <1>1, <1>2, <1>6, <2>0 DEF With
  <2>2. u \in DOMAIN grades => grades[u] < s
    BY <1>6, <2>0 DEF Newer
  <2>3. \A x \in DOMAIN grades : grades[x] <= grades'[x]
    BY <1>1, <1>2, <2>1, <2>2
  <2>4. HasRows(s)'
    BY <1>1, <1>6, <2>0, <2>1 DEF HasRows
  <2> QED BY <2>1, <2>3, <2>4
<1> QED BY <1>1, <1>3, <1>4, <1>5, <1>6

\* A grading keeps what the grades tell.
LEMMA GradeTells ==
  ASSUME RepTypes, GradesTell, NEW s \in arrived, Grade(s), world' = world
  PROVE  GradesTell'
<1> DEFINE t == Log[s].about
<1>1. /\ s \in 1..Len(Log) /\ s \in Nat /\ Log' = Log
      /\ applied' = IF Log[s].kind = "revise" THEN applied \union {s} ELSE applied
      /\ \/ Log[s].kind = "graded" /\ s \notin DOMAIN grades /\ grades' = With(grades, s, 0)
         \/ Log[s].kind = "graded" /\ s \in DOMAIN grades /\ grades' = grades
         \/ Log[s].kind = "revise" /\ Newer(s, t) /\ grades' = With(grades, t, s)
         \/ Log[s].kind = "revise" /\ ~ Newer(s, t) /\ grades' = grades
         \/ Log[s].kind \notin {"graded", "revise"} /\ grades' = grades
  BY GradeCases
<1>2. grades \in [DOMAIN grades -> Nat] /\ \A x \in DOMAIN grades : grades[x] \in Nat
  BY DEF RepTypes
<1> SUFFICES ASSUME world = 1 PROVE GradesTell'
  BY DEF GradesTell
<1>3. /\ applied \subseteq 1..Len(Log)
      /\ \A r \in applied : Log[r].about \in DOMAIN grades /\ r <= grades[Log[r].about]
      /\ \A x \in DOMAIN grades :
           grades[x] = 0 \/ (grades[x] \in applied /\ Log[grades[x]].about = x)
  BY DEF GradesTell
<1>4. CASE Log[s].kind = "graded" /\ s \notin DOMAIN grades /\ grades' = With(grades, s, 0)
  <2>1. /\ DOMAIN grades' = DOMAIN grades \union {s} /\ grades'[s] = 0
        /\ \A x \in DOMAIN grades : grades'[x] = grades[x]
    BY <1>2, <1>4 DEF With
  <2>2. applied' = applied
    BY <1>1, <1>4
  <2>3. \A r \in applied : Log[r].about \in DOMAIN grades' /\ r <= grades'[Log[r].about]
    BY <1>3, <2>1
  <2>4. \A x \in DOMAIN grades' :
           grades'[x] = 0 \/ (grades'[x] \in applied /\ Log[grades'[x]].about = x)
    BY <1>3, <2>1
  <2> QED BY <1>1, <1>3, <2>2, <2>3, <2>4 DEF GradesTell
<1>5. CASE grades' = grades /\ Log[s].kind # "revise"
  BY <1>1, <1>3, <1>5 DEF GradesTell
<1>6. CASE Log[s].kind = "revise" /\ ~ Newer(s, t) /\ grades' = grades
  <2>0. PICK u : u = t
    OBVIOUS
  <2>1. u \in DOMAIN grades /\ ~ (grades[u] < s)
    BY <1>6, <2>0 DEF Newer
  <2>2. s <= grades[u]
    BY <1>1, <1>2, <2>1
  <2>3. applied' = applied \union {s}
    BY <1>1, <1>6
  <2>4. \A r \in applied' : Log[r].about \in DOMAIN grades /\ r <= grades[Log[r].about]
    BY <1>3, <2>0, <2>1, <2>2, <2>3
  <2> QED BY <1>1, <1>3, <1>6, <2>3, <2>4 DEF GradesTell
<1>7. CASE Log[s].kind = "revise" /\ Newer(s, t) /\ grades' = With(grades, t, s)
  <2>0. PICK u : u = t
    OBVIOUS
  <2>1. /\ DOMAIN grades' = DOMAIN grades \union {u} /\ grades'[u] = s
        /\ \A x \in DOMAIN grades : x # u => grades'[x] = grades[x]
    BY <1>1, <1>2, <1>7, <2>0 DEF With
  <2>2. u \in DOMAIN grades => grades[u] < s
    BY <1>7, <2>0 DEF Newer
  <2>3. applied' = applied \union {s}
    BY <1>1, <1>7
  <2>4. ASSUME NEW r \in applied' PROVE Log[r].about \in DOMAIN grades' /\ r <= grades'[Log[r].about]
    <3>1. CASE r = s
      BY <1>1, <2>0, <2>1, <3>1
    <3>2. CASE r # s
      <4>1. PICK v : v = Log[r].about
        OBVIOUS
      <4>2. r \in applied /\ v \in DOMAIN grades /\ r <= grades[v] /\ r \in Nat
        BY <1>3, <2>3, <3>2, <4>1
      <4>3. r <= grades'[v]
        BY <1>1, <1>2, <2>1, <2>2, <4>2
      <4> QED BY <2>1, <4>1, <4>2, <4>3
    <3> QED BY <3>1, <3>2
  <2>5. ASSUME NEW x \in DOMAIN grades'
        PROVE  grades'[x] = 0 \/ (grades'[x] \in applied' /\ Log[grades'[x]].about = x)
    BY <1>3, <2>0, <2>1, <2>3
  <2> QED BY <1>1, <1>3, <2>3, <2>4, <2>5 DEF GradesTell
<1> QED BY <1>1, <1>4, <1>5, <1>6, <1>7

\* Working a task off never takes a row away, and leaves the rows of what it is about.
LEMMA EffectGrows ==
  ASSUME RepTypes, GradesTell, NEW k \in TaskKeys, Effect(k), world' = world
  PROVE  /\ changes \subseteq changes' /\ changes' \subseteq changes \union arrived
         /\ grades' \in [DOMAIN grades' -> Nat] /\ DOMAIN grades \subseteq DOMAIN grades'
         /\ \A t \in DOMAIN grades : grades[t] <= grades'[t]
         /\ k[1] \in {"event", "sweep"} /\ k[2] \in arrived => HasRows(k[2])'
         /\ GradesTell'
<1>1. /\ grades \in [DOMAIN grades -> Nat] /\ Log' = Log
      /\ grades' = grades => \A t \in DOMAIN grades : grades[t] <= grades'[t]
  BY DEF RepTypes, Log
<1>2. CASE k[1] \in {"daily", "sweptDay", "again"}
  <2>1. UNCHANGED <<changes, grades, applied>>
    BY <1>2 DEF Effect
  <2>2. GradesTell'
    BY <2>1, GradesLast
  <2> QED BY <1>1, <1>2, <2>1, <2>2
<1>3. CASE k[1] \notin {"daily", "sweptDay", "again"} /\ k[2] \notin arrived
  <2>1. UNCHANGED <<changes, grades, applied>>
    BY <1>3 DEF Effect, derived
  <2>2. GradesTell'
    BY <2>1, GradesLast
  <2> QED BY <1>1, <1>3, <2>1, <2>2
<1>4. CASE k[1] \notin {"daily", "sweptDay", "again"} /\ k[2] \in arrived
  <2>1. CASE Log[k[2]].kind = "change"
    <3>1. changes' = changes \union {k[2]} /\ UNCHANGED <<grades, applied>>
      BY <1>4, <2>1 DEF Effect, Project
    <3>2. GradesTell'
      BY <3>1, GradesLast
    <3>3. HasRows(k[2])'
      BY <1>1, <2>1, <3>1 DEF HasRows
    <3> QED BY <1>1, <1>4, <3>1, <3>2, <3>3
  <2>2. CASE Log[k[2]].kind = "gossip"
    <3>1. UNCHANGED <<changes, grades, applied>>
      BY <1>4, <2>2 DEF Effect
    <3>2. GradesTell'
      BY <3>1, GradesLast
    <3>3. HasRows(k[2])'
      BY <1>1, <2>2 DEF HasRows
    <3> QED BY <1>1, <1>4, <3>1, <3>2, <3>3
  <2>3. CASE Log[k[2]].kind \notin {"change", "gossip"}
    <3>1. Grade(k[2]) /\ changes' = changes
      BY <1>4, <2>3 DEF Effect
    <3> QED BY <1>4, <2>3, <3>1, GradeGrows, GradeTells
  <2> QED BY <2>1, <2>2, <2>3
<1> QED BY <1>2, <1>3, <1>4

\* A task is done, and what it derived is written.
LEMMA WorkStep == ASSUME NEW c \in claimed, RepInv, Work(c) PROVE RepInv'
<1> USE DEF RepInv
<1>1. /\ UNCHANGED <<world, simDay, disk, snapAcked, arrived, memStored, snaps, voided>>
      /\ claimed' = claimed \ {c} /\ c[2] \in TaskKeys
      /\ tasks' = IF c[1] = world THEN Marked({c[2]}, "done") ELSE tasks
  BY DEF Work, kernel, positions, rows, RepTypes
<1>2. Occurred = Occurred' /\ Remembered = Remembered' /\ Log' = Log
  BY <1>1, OccurredStays
<1>3. PICK k \in TaskKeys : k = c[2]
  BY <1>1
<1>4. /\ changes \subseteq changes' /\ changes' \subseteq changes \union arrived
      /\ grades' \in [DOMAIN grades' -> Nat] /\ DOMAIN grades \subseteq DOMAIN grades'
      /\ \A t \in DOMAIN grades : grades[t] <= grades'[t]
      /\ GradesTell'
      /\ Concerns(c) /\ k[1] \in {"event", "sweep"} /\ k[2] \in arrived => HasRows(k[2])'
  <2>1. CASE Concerns(c)
    <3>1. Effect(k)
      BY <1>3, <2>1 DEF Work
    <3> QED BY <1>1, <2>1, <3>1, EffectGrows
  <2>2. CASE ~ Concerns(c)
    <3>1. UNCHANGED <<changes, grades, applied>>
      BY <2>2 DEF Work, derived
    <3>2. GradesTell'
      BY <1>1, <3>1, GradesLast
    <3>3. \A t \in DOMAIN grades : grades[t] \in Nat
      BY DEF RepTypes
    <3> QED BY <2>2, <3>1, <3>2, <3>3 DEF RepTypes
  <2> QED BY <2>1, <2>2
<1>5. changes' \subseteq Occurred
  BY <1>4 DEF RepTypes
<1>6. \A s \in Int : HasRows(s) => HasRows(s)'
  BY <1>1, <1>4, RowsLast DEF RepTypes
<1>7. CASE c[1] # world
  <2>1. tasks' = tasks
    BY <1>1, <1>7
  <2>2. RepTypes' /\ ClaimsRun'
    BY <1>1, <1>2, <1>4, <1>5, <2>1 DEF RepTypes, ClaimsRun
  <2>3. \A s : Owed(s)' <=> Owed(s)
    BY <2>1 DEF Owed, Open
  <2>4. TasksTell'
    BY <1>1, <1>2, <1>6, <2>1, <2>3 DEF TasksTell
  <2> QED BY <1>4, <2>2, <2>4
<1>8. CASE c[1] = world
  <2>1. k \in DOMAIN tasks /\ tasks[k].status = "running" /\ Concerns(c)
    BY <1>3, <1>8 DEF ClaimsRun, Concerns
  <2>2. /\ tasks' \in [DOMAIN tasks' -> TaskRows] /\ DOMAIN tasks' = DOMAIN tasks
        /\ \A n \in DOMAIN tasks :
              /\ tasks'[n].tries = tasks[n].tries
              /\ n \in {k} => tasks'[n].status = "done"
              /\ n \notin {k} => tasks'[n] = tasks[n]
    <3>1. tasks' = Marked({k}, "done") /\ "done" \in Statuses
      BY <1>1, <1>3, <1>8 DEF Statuses
    <3> QED BY <3>1, MarkedTypes
  <2>3. RepTypes'
    BY <1>1, <1>2, <1>4, <1>5, <2>2 DEF RepTypes
  <2>4. ASSUME NEW e \in claimed', e[1] = world'
        PROVE  e[2] \in DOMAIN tasks' /\ tasks'[e[2]].status = "running"
    <3>1. e \in claimed /\ e # c /\ e[1] = c[1]
      BY <1>1, <1>8, <2>4
    <3>2. e[2] # k
      BY <3>1, <1>3 DEF RepTypes
    <3>3. e[2] \in DOMAIN tasks /\ tasks[e[2]].status = "running"
      BY <1>1, <2>4, <3>1 DEF ClaimsRun
    <3> QED BY <2>2, <3>2, <3>3
  <2>5. ASSUME NEW n \in DOMAIN tasks', tasks'[n].status \in {"pending", "waiting"}
        PROVE  tasks'[n].tries < Attempts
    <3>1. n # k
      BY <2>1, <2>2, <2>5
    <3> QED BY <2>2, <2>5, <3>1 DEF ClaimsRun
  <2>6. ClaimsRun'
    BY <2>4, <2>5 DEF ClaimsRun
  <2>7. ASSUME NEW s \in Int
        PROVE  /\ Owed(s)' => Owed(s)
               /\ Owed(s) => Owed(s)' \/ (k[1] \in {"event", "sweep"} /\ k[2] = s)
    <3>1. \A source \in {"event", "sweep"} :
            /\ Open(<<source, s>>)' => Open(<<source, s>>)
            /\ Open(<<source, s>>) => Open(<<source, s>>)' \/ k = <<source, s>>
      BY <2>1, <2>2 DEF Open
    <3> QED BY <3>1 DEF Owed
  <2>8. k[1] \in {"event", "sweep"} => k[2] \in arrived \/ k[2] \in voided
    <3>1. k[1] \in {"event", "sweep"} => k = <<k[1], k[2]>> /\ k[2] \in Int
      BY DEF TaskKeys
    <3>2. k[1] \in {"event", "sweep"} => Owed(k[2])
      BY <2>1, <3>1 DEF Owed, Open
    <3> QED BY <3>1, <3>2 DEF TasksTell
  <2>9. ASSUME NEW s \in Int, <<"event", s>> \in DOMAIN tasks'
        PROVE  Owed(s)' \/ HasRows(s)' \/ s \in voided'
    <3>1. Owed(s) \/ HasRows(s) \/ s \in voided
      BY <2>2, <2>9 DEF TasksTell
    <3> QED BY <1>1, <1>4, <1>6, <2>1, <2>7, <2>8, <3>1
  <2>10. TasksTell'
    BY <1>1, <1>2, <2>2, <2>7, <2>9 DEF TasksTell
  <2> QED BY <1>4, <2>3, <2>6, <2>10
<1> QED BY <1>7, <1>8

\* The replica is reset for another world.
LEMMA RebuildStep == ASSUME RepInv, Rebuild PROVE RepInv'
<1> USE DEF RepInv
<1>1. /\ world' = world + 1 /\ world' \in 1..Len(Worlds) /\ simDay' = 1
      /\ arrived' = {1} /\ memStored' = {} /\ snaps' = Empty /\ changes' = {}
      /\ grades' = grades /\ claimed' = claimed /\ snapAcked' \in {0, snapAcked}
  BY RowFacts DEF Rebuild, RepTypes
<1>2. Log' = Worlds[world'] /\ 1 \in 1..Len(Worlds[world']) /\ Worlds[world'][1].day = 1
  BY <1>1, FirstRow DEF Log
<1>3. Today \in Nat /\ Today > 0
  BY ReplicaAssumption
<1>4. 1 \in Occurred'
  BY <1>1, <1>2 DEF Occurred
<1>5. PICK keys \in SUBSET TaskKeys :
        /\ tasks' = [k \in keys |-> [status |-> "pending", tries |-> 0]]
        /\ \A n : <<"event", n>> \in keys <=> n = 1 /\ Log'[n].kind # "plain"
        /\ \A other, n : <<other, n>> \in keys => other = "event"
  <2>1. PICK S \in SUBSET {1} : S = {x \in {1} : Worlds[world'][x].kind # "plain"}
    OBVIOUS
  <2>2. {<<"event", s>> : s \in S} \in SUBSET TaskKeys
    BY DEF TaskKeys
  <2>3. \A other, n : <<other, n>> \in {<<"event", s>> : s \in S} <=> other = "event" /\ n \in S
    OBVIOUS
  <2>4. \A n : n \in S <=> n = 1 /\ Log'[n].kind # "plain"
    BY <1>2, <2>1
  <2>5. tasks' = [k \in {<<"event", s>> : s \in S} |-> [status |-> "pending", tries |-> 0]]
    BY <2>1 DEF Rebuild
  <2>6. PICK keys \in SUBSET TaskKeys : keys = {<<"event", s>> : s \in S}
    BY <2>2
  <2> QED BY <2>3, <2>4, <2>5, <2>6
<1>6. [status |-> "pending", tries |-> 0] \in TaskRows /\ Attempts > 0
  BY ReplicaAssumption DEF TaskRows, Statuses
<1>7. DOMAIN tasks' = keys /\ tasks' \in [DOMAIN tasks' -> TaskRows]
  BY <1>5, <1>6
<1>8. disk' \in [1..Today -> {"none", "boot", "end"}]
  BY DEF Rebuild
<1>9. RepTypes'
  <2>1. snapAcked' \in Nat /\ simDay' \in 1..Today
    BY <1>1, <1>3 DEF RepTypes
  <2>2. claimed' \subseteq (1..world') \X TaskKeys
    BY <1>1 DEF RepTypes
  <2>3. grades' \in [DOMAIN grades' -> Nat]
    BY <1>1 DEF RepTypes
  <2> QED BY <1>1, <1>4, <1>5, <1>7, <1>8, <2>1, <2>2, <2>3 DEF RepTypes, Empty
<1>10. ClaimsRun'
  <2>1. \A c \in claimed' : c[1] # world'
    BY <1>1 DEF RepTypes
  <2> QED BY <1>5, <1>6, <2>1 DEF ClaimsRun
<1>11. TasksTell'
  <2>1. \A s \in Int : <<"event", s>> \in keys => Owed(s)'
    BY <1>5, <1>7 DEF Owed, Open
  <2>2. \A s \in Int : Owed(s)' => s = 1
    BY <1>5, <1>7 DEF Owed, Open
  <2>3. <<"event", 1>> \in keys <=> Log'[1].kind # "plain"
    BY <1>5
  <2> QED BY <1>1, <1>7, <2>1, <2>2, <2>3 DEF TasksTell
<1>12. GradesTell'
  BY <1>1 DEF GradesTell, RepTypes
<1> QED BY <1>9, <1>10, <1>11, <1>12

\* Nothing happens.
LEMMA StutterStep == RepInv /\ UNCHANGED repVars => RepInv'
<1> SUFFICES ASSUME RepInv, UNCHANGED repVars PROVE RepInv'
  OBVIOUS
<1> USE DEF RepInv
<1>1. UNCHANGED <<world, simDay, disk, snapAcked, arrived, memStored, snaps, tasks, claimed, changes, grades, applied, voided>>
  BY DEF repVars
<1>2. Occurred = Occurred' /\ Remembered = Remembered'
  BY <1>1, OccurredStays
<1>3. RepTypes' /\ ClaimsRun'
  BY <1>1, <1>2 DEF RepTypes, ClaimsRun
<1>4. TasksTell'
  BY <1>1, OpenTells
<1>5. GradesTell'
  BY <1>1, GradesLast
<1> QED BY <1>3, <1>4, <1>5

\* An event that arrived has a task; a task that is done has left its rows, and of the
\* revisions worked off none is later than the grade (the inductive invariant, kept by
\* every step of worker, sweep and reset).
THEOREM NothingOwedIsForgotten == RepSpec => []RepInv
<1>1. RepInv /\ [RepNext]_repVars => RepInv'
  <2> SUFFICES ASSUME RepInv, [RepNext]_repVars PROVE RepInv'
    OBVIOUS
  <2>1. CASE UNCHANGED repVars
    BY <2>1, StutterStep
  <2>2. CASE \E c \in claimed : Work(c) \/ Fail(c)
    BY <2>2, WorkStep, FailStep
  <2>3. CASE \E k \in DOMAIN tasks : Again(k)
    BY <2>3, AgainStep
  <2>4. CASE \E d \in 1..Today : Sweep(d) \/ Mismatch(d) \/ Resend(d)
    BY <2>4, SweepStep, MismatchStep, ResendStep
  <2>5. CASE DayEnds \/ Arrive \/ Rebuild \/ SendMemories \/ SendSnapshot \/ Claim \/ WorkerDies
    BY <2>5, DayEndsStep, ArriveStep, RebuildStep, SendMemoriesStep, SendSnapshotStep, ClaimStep, WorkerDiesStep
  <2> QED BY <2>1, <2>2, <2>3, <2>4, <2>5 DEF RepNext
<1> QED BY <1>1, InitHolds, PTL DEF RepSpec

\* Whatever is retried, swept, crashed or reset: an event the replica holds has its
\* derived rows, or a task that is not done still owes them, unless the event was
\* deleted by a mismatch while it was owed (derived_task).
THEOREM RowsDerivedOrOwed == RepSpec => []DerivedOrOwed
<1>1. ASSUME RepInv, NEW s \in arrived \ voided
      PROVE  Owed(s) \/ HasRows(s)
  <2>1. s \in Int
    BY <1>1 DEF RepInv, RepTypes, Occurred
  <2>2. CASE Log[s].kind = "plain"
    BY <2>2 DEF HasRows
  <2>3. CASE Log[s].kind # "plain"
    BY <1>1, <2>1, <2>3 DEF RepInv, TasksTell
  <2> QED BY <2>2, <2>3
<1>2. RepInv => DerivedOrOwed
  BY <1>1 DEF DerivedOrOwed, HasRows
<1> QED BY <1>2, NothingOwedIsForgotten, PTL

\* Of the revisions worked off, the one with the highest number stays, in whatever order
\* retries, sweeps and crashes let them be worked off (event_grade_view), in the first
\* world.
THEOREM LastRevisionStays == RepSpec => []LatestRevisionWins
<1>1. ASSUME RepInv, world = 1, NEW t \in DOMAIN grades
      PROVE  grades[t] = Max({0} \union {s \in applied : Log[s].about = t})
  <2>0. PICK g \in Nat : g = grades[t]
    BY <1>1 DEF RepInv, RepTypes
  <2>1. PICK S : S = {0} \union {s \in applied : Log[s].about = t} /\ g = grades[t]
    BY <2>0
  <2>2. S \subseteq Nat /\ g \in S
    BY <1>1, <2>1, RowFacts DEF RepInv, RepTypes, GradesTell
  <2>3. \A s \in S : s <= g
    BY <1>1, <2>1 DEF RepInv, GradesTell
  <2>4. Max(S) = g
    <3>1. \A x \in S : (\A y \in S : x >= y) => x = g
      BY <2>2, <2>3
    <3>2. \A y \in S : g >= y
      BY <2>2, <2>3
    <3> QED BY <2>2, <3>1, <3>2 DEF Max
  <2> QED BY <2>1, <2>4
<1>2. RepInv => LatestRevisionWins
  BY <1>1 DEF LatestRevisionWins
<1> QED BY <1>2, NothingOwedIsForgotten, PTL

\* Every variable of the replica keeps its type.
THEOREM ReplicaTypeCorrect == RepSpec => []RepTypeOK
<1>1. RepInv => RepTypeOK
  BY DEF RepInv, RepTypes, RepTypeOK, TaskRows, Statuses
<1> QED BY <1>1, NothingOwedIsForgotten, PTL

-----------------------------------------------------------------------------
(*****************************************************************************)
(* Screen: the timeline has no hole, wherever a connection breaks.           *)
(*****************************************************************************)
Frames == [op : {"event", "state_diff", "welcome", "resync_required"}, seq : Nat]

Connected == {"accepted", "resuming", "welcomed", "polling"}

ScreenTypes ==
  /\ {stored, knownMax, cursor, latestSeq, since} \subseteq Nat
  /\ serve \in ServerSteps /\ wire \in Seq(Frames)
  /\ held \subseteq Nat /\ IsFiniteSet(held) /\ Cardinality(held) <= Capacity

\* Nobody is ahead of the table, and latestSeq leads what is held.
NoneAhead ==
  /\ latestSeq <= stored /\ \A h \in held : h <= latestSeq
  /\ \A i \in 1..Len(wire) : wire[i].seq <= stored
  /\ serve \in Connected => cursor <= stored
  /\ serve = "resuming" => knownMax <= stored /\ knownMax - cursor <= RingCap
  /\ serve \in {"none", "accepted", "resuming"} => wire = <<>>

OnWire(s, n) == \E j \in 1..n : wire[j] = Event(s)

Unshown(s) == s > since

\* What an event on the wire follows upon is kept or on the wire before it.
WireFollows ==
  \A i \in 1..Len(wire) : wire[i].op = "event" =>
    \A s \in 1..(wire[i].seq - 1) : Unshown(s) => Retained(s) \/ OnWire(s, i - 1)

\* What the connection goes on behind is kept or on the wire.
CursorFollows ==
  serve \in Connected =>
    \A s \in 1..cursor : Unshown(s) => Retained(s) \/ OnWire(s, Len(wire))

ScreenInv == ScreenTypes /\ NoneAhead /\ WireFollows /\ CursorFollows /\ TimelineIsWhole

\* While the timeline stays, so does what it keeps.
LEMMA KeptStays ==
  ASSUME held' = held, skipped \subseteq skipped', NEW s, Retained(s)
  PROVE  Retained(s)'
BY DEF Retained

LEMMA KeptSame ==
  ASSUME UNCHANGED <<held, skipped>>
  PROVE  \A s : Retained(s)' <=> Retained(s)
BY DEF Retained

\* A bounded set of numbers that is not empty has a greatest one.
LEMMA GreatestExists ==
  ASSUME NEW n \in Nat, NEW S, S \subseteq 0..n, S # {}
  PROVE  \E m \in S : \A k \in S : k <= m
<1> DEFINE T == {m..n : m \in S}
<1>1. IsWellFoundedOn(StrictSubsetOrdering(Nat), FiniteSubsetsOf(Nat))
  BY FS_StrictSubsetOrderingWellFounded
<1>2. T \subseteq FiniteSubsetsOf(Nat) /\ T # {}
  <2>1. ASSUME NEW m \in S PROVE m..n \in FiniteSubsetsOf(Nat)
    <3>1. m \in Int /\ m..n \subseteq Nat
      OBVIOUS
    <3>2. IsFiniteSet(m..n)
      BY <3>1, FS_Interval
    <3> QED BY <3>1, <3>2 DEF FiniteSubsetsOf
  <2> QED BY <2>1
<1>3. PICK x \in T : \A y \in T : ~ (<<y, x>> \in StrictSubsetOrdering(Nat))
  <2> HIDE DEF T
  <2> QED BY <1>1, <1>2, WFMin
<1>4. PICK m \in S : x = m..n
  OBVIOUS
<1>5. ASSUME NEW k \in S PROVE k <= m
  <2>1. ~ (<<k..n, m..n>> \in StrictSubsetOrdering(Nat))
    BY <1>3, <1>4
  <2>2. ~ (k..n \subseteq m..n /\ k..n # m..n)
    BY <2>1 DEF StrictSubsetOrdering
  <2> QED BY <2>2
<1> QED BY <1>5

\* Max of such a set is its greatest element.
LEMMA MaxIsGreatest ==
  ASSUME NEW n \in Nat, NEW S, S \subseteq 0..n, S # {}
  PROVE  Max(S) \in S /\ \A k \in S : k <= Max(S)
<1>1. PICK m \in S : \A k \in S : k <= m
  BY GreatestExists
<1>2. \A k \in S : m >= k
  BY <1>1
<1>3. Max(S) \in S /\ \A k \in S : Max(S) >= k
  BY <1>1, <1>2 DEF Max
<1> QED BY <1>3

\* What a query returns: the rows after a number, up to a limit or to the last one.
LEMMA Fetched ==
  ASSUME NEW limit \in Nat, stored \in Nat, cursor \in Nat, cursor <= stored
  PROVE  \E n \in Nat :
           /\ n = (IF stored < cursor + limit THEN stored - cursor ELSE limit)
           /\ FetchEventsAfter(cursor, limit) \in Seq(Frames)
           /\ Len(FetchEventsAfter(cursor, limit)) = n
           /\ \A i \in 1..n : FetchEventsAfter(cursor, limit)[i] = Event(cursor + i)
           /\ cursor + n <= stored
<1> DEFINE n == IF stored < cursor + limit THEN stored - cursor ELSE limit
           f == [i \in 1..n |-> Event(cursor + i)]
<1>1. n \in Nat /\ cursor + n <= stored
  OBVIOUS
<1>2. FetchEventsAfter(cursor, limit) = f
  BY DEF FetchEventsAfter
<1>3. \A i \in 1..n : Event(cursor + i) \in Frames
  BY <1>1 DEF Event, Frames
<1> HIDE DEF n
<1>4. f \in Seq(Frames) /\ Len(f) = n /\ \A i \in 1..n : f[i] = Event(cursor + i)
  <2> HIDE DEF Frames, Event
  <2> QED BY <1>1, <1>3
<1> QED BY <1>1, <1>2, <1>4 DEF n

\* Two sequences joined: the second comes behind the first, each in its order.
LEMMA Joined ==
  ASSUME NEW A, NEW x \in Seq(A), NEW y \in Seq(A)
  PROVE  /\ x \o y \in Seq(A) /\ Len(x \o y) = Len(x) + Len(y)
         /\ \A i \in 1..Len(x) : (x \o y)[i] = x[i]
         /\ \A i \in 1..Len(y) : (x \o y)[Len(x) + i] = y[i]
<1> DEFINE xy == x \o y
<1>1. Len(x) \in Nat /\ Len(y) \in Nat
  OBVIOUS
<1>2. xy \in Seq(A) /\ Len(xy) = Len(x) + Len(y)
  OBVIOUS
<1>3. \A i \in 1..Len(x) : xy[i] = x[i]
  OBVIOUS
<1>4. ASSUME NEW i \in 1..Len(y) PROVE xy[Len(x) + i] = y[i]
  <2>1. Len(x) + i \in 1..(Len(x) + Len(y)) /\ ~(Len(x) + i <= Len(x))
    BY <1>1
  <2>2. (Len(x) + i) - Len(x) = i
    BY <1>1
  <2> QED BY <2>1, <2>2
<1> QED BY <1>2, <1>3, <1>4

\* Rows fetched behind the cursor and put on the wire v: each follows upon what is kept or
\* before it, and so does whatever comes after the last of them.
Following(v, limit) ==
  /\ v \in Seq(Frames)
  /\ \A i \in 1..Len(v) : v[i].seq <= stored
  /\ \A i \in 1..Len(v) : v[i].op = "event" =>
       \A s \in 1..(v[i].seq - 1) :
         s > since => Retained(s) \/ \E j \in 1..(i - 1) : v[j] = Event(s)
  /\ \A s \in 1..(IF stored < cursor + limit THEN stored ELSE cursor + limit) :
       s > since => Retained(s) \/ \E j \in 1..Len(v) : v[j] = Event(s)

LEMMA RowsFollow ==
  ASSUME ScreenInv, serve \in Connected, NEW limit \in Nat,
         NEW v, v = wire \o FetchEventsAfter(cursor, limit)
  PROVE  Following(v, limit)
<1> DEFINE batch == FetchEventsAfter(cursor, limit)
           w == Len(wire)
<1>1. stored \in Nat /\ cursor \in Nat /\ cursor <= stored /\ wire \in Seq(Frames) /\ w \in Nat
  BY DEF ScreenInv, ScreenTypes, NoneAhead
<1>2. PICK n \in Nat :
        /\ n = (IF stored < cursor + limit THEN stored - cursor ELSE limit)
        /\ batch \in Seq(Frames) /\ Len(batch) = n
        /\ \A i \in 1..n : batch[i] = Event(cursor + i)
        /\ cursor + n <= stored
  BY <1>1, Fetched
<1> HIDE DEF batch
<1>3. v = wire \o batch
  BY DEF batch
<1>4. /\ v \in Seq(Frames) /\ Len(v) = w + n
      /\ \A i \in 1..w : v[i] = wire[i]
      /\ \A i \in 1..n : v[w + i] = Event(cursor + i)
  <2>1. /\ wire \o batch \in Seq(Frames) /\ Len(wire \o batch) = Len(wire) + Len(batch)
        /\ \A i \in 1..Len(wire) : (wire \o batch)[i] = wire[i]
        /\ \A i \in 1..Len(batch) : (wire \o batch)[Len(wire) + i] = batch[i]
    <3>1. wire \in Seq(Frames) /\ batch \in Seq(Frames)
      BY <1>1, <1>2
    <3>2. wire \o batch \in Seq(Frames) /\ Len(wire \o batch) = Len(wire) + Len(batch)
      BY <3>1, Joined
    <3>3. \A i \in 1..Len(wire) : (wire \o batch)[i] = wire[i]
      BY <3>1, Joined
    <3>4. \A i \in 1..Len(batch) : (wire \o batch)[Len(wire) + i] = batch[i]
      BY <3>1, Joined
    <3> QED BY <3>2, <3>3, <3>4
  <2> QED BY <1>2, <1>3, <2>1 DEF w
<1> HIDE DEF w
<1>5. \A i \in 1..(w + n) : i \in 1..w \/ (\E k \in 1..n : i = w + k)
  <2>1. ASSUME NEW i \in 1..(w + n), i \notin 1..w
        PROVE  \E k \in 1..n : i = w + k
    <3>1. i - w \in 1..n /\ i = w + (i - w)
      BY <1>1, <1>2, <2>1
    <3> QED BY <3>1
  <2> QED BY <2>1
<1>6. \A i \in 1..Len(v) : v[i].seq <= stored
  <2>1. \A k \in 1..n : Event(cursor + k).seq <= stored
    BY <1>1, <1>2 DEF Event
  <2>2. \A i \in 1..w : wire[i].seq <= stored
    BY DEF ScreenInv, NoneAhead, w
  <2>3. ASSUME NEW i \in 1..(w + n) PROVE v[i].seq <= stored
    <3>1. CASE i \in 1..w
      BY <1>4, <2>2, <3>1
    <3>2. ASSUME NEW k \in 1..n, i = w + k PROVE v[i].seq <= stored
      BY <1>4, <2>1, <3>2
    <3> QED BY <1>5, <3>1, <3>2
  <2> QED BY <1>4, <2>3
<1>7. \A s \in 1..cursor : s > since => Retained(s) \/ \E j \in 1..w : v[j] = Event(s)
  BY <1>4 DEF ScreenInv, CursorFollows, Unshown, OnWire, w
<1>8. \A s \in (cursor + 1)..(cursor + n) :
        \E k \in 1..n : s = cursor + k /\ v[w + k] = Event(s)
  <2>1. ASSUME NEW s \in (cursor + 1)..(cursor + n)
        PROVE  \E k \in 1..n : s = cursor + k /\ v[w + k] = Event(s)
    <3>1. s - cursor \in 1..n /\ s = cursor + (s - cursor)
      BY <1>1, <1>2, <2>1
    <3>2. v[w + (s - cursor)] = Event(s)
      BY <1>4, <3>1
    <3> QED BY <3>1, <3>2
  <2> QED BY <2>1
<1>9. ASSUME NEW i \in 1..(w + n), v[i].op = "event", NEW s \in 1..(v[i].seq - 1), s > since
      PROVE  Retained(s) \/ \E j \in 1..(i - 1) : v[j] = Event(s)
  <2>1. CASE i \in 1..w
    <3>1. Retained(s) \/ \E j \in 1..(i - 1) : wire[j] = Event(s)
      BY <1>4, <1>9, <2>1 DEF ScreenInv, WireFollows, Unshown, OnWire, w
    <3>2. \A j \in 1..(i - 1) : j \in 1..w
      BY <1>1, <2>1
    <3> QED BY <1>4, <3>1, <3>2
  <2>2. ASSUME NEW k \in 1..n, i = w + k
        PROVE  Retained(s) \/ \E j \in 1..(i - 1) : v[j] = Event(s)
    <3>1. s \in 1..(cursor + k - 1)
      <4>1. v[i].seq = cursor + k
        <5>1. v[i] = Event(cursor + k)
          BY <1>4, <2>2
        <5> QED BY <5>1 DEF Event
      <4> QED BY <1>1, <1>2, <1>9, <4>1
    <3>2. CASE s <= cursor
      <4>1. s \in 1..cursor
        BY <1>1, <3>1, <3>2
      <4>2. \A j \in 1..w : j \in 1..(i - 1)
        BY <1>1, <1>2, <2>2
      <4> QED BY <1>7, <1>9, <4>1, <4>2
    <3>3. CASE s > cursor
      <4>1. s \in (cursor + 1)..(cursor + n)
        BY <1>1, <1>2, <2>2, <3>1, <3>3
      <4>2. PICK m \in 1..n : s = cursor + m /\ v[w + m] = Event(s)
        BY <1>8, <4>1
      <4>3. w + m \in 1..(i - 1)
        BY <1>1, <1>2, <2>2, <3>1, <4>2
      <4> QED BY <4>2, <4>3
    <3>4. s <= cursor \/ s > cursor
      BY <1>1, <3>1
    <3> QED BY <3>2, <3>3, <3>4
  <2> QED BY <1>5, <1>9, <2>1, <2>2
<1>10. ASSUME NEW s \in 1..(cursor + n), s > since
       PROVE  Retained(s) \/ \E j \in 1..(w + n) : v[j] = Event(s)
  <2>1. CASE s <= cursor
    <3>1. s \in 1..cursor /\ \A j \in 1..w : j \in 1..(w + n)
      BY <1>1, <1>2, <2>1
    <3> QED BY <1>7, <1>10, <3>1
  <2>2. CASE s > cursor
    <3>1. s \in (cursor + 1)..(cursor + n)
      BY <1>1, <1>2, <2>2
    <3>2. PICK k \in 1..n : v[w + k] = Event(s)
      BY <1>8, <3>1
    <3>3. w + k \in 1..(w + n)
      BY <1>1, <1>2
    <3> QED BY <3>2, <3>3
  <2>3. s <= cursor \/ s > cursor
    BY <1>1
  <2> QED BY <2>1, <2>2, <2>3
<1>11. (IF stored < cursor + limit THEN stored ELSE cursor + limit) = cursor + n
  BY <1>1, <1>2
<1> QED BY <1>4, <1>6, <1>9, <1>10, <1>11 DEF Following

\* Pushing fetched rows and a last frame keeps what the wire follows upon; up to the last
\* row pushed everything is kept or on the wire.
LEMMA Pushes ==
  ASSUME ScreenInv, serve \in Connected, NEW limit \in Nat, NEW last \in Frames,
         last.op # "event", last.seq <= stored,
         wire' = Append(wire \o FetchEventsAfter(cursor, limit), last),
         UNCHANGED <<stored, held, skipped, since>>
  PROVE  /\ wire' \in Seq(Frames) /\ WireFollows'
         /\ \A i \in 1..Len(wire') : wire'[i].seq <= stored
         /\ \A s \in 1..(IF stored < cursor + limit THEN stored ELSE cursor + limit) :
              Unshown(s)' => Retained(s)' \/ OnWire(s, Len(wire))'
<1>1. PICK v : v = wire \o FetchEventsAfter(cursor, limit)
  OBVIOUS
<1>2. /\ v \in Seq(Frames)
      /\ \A i \in 1..Len(v) : v[i].seq <= stored
      /\ \A i \in 1..Len(v) : v[i].op = "event" =>
           \A s \in 1..(v[i].seq - 1) :
             s > since => Retained(s) \/ \E j \in 1..(i - 1) : v[j] = Event(s)
      /\ \A s \in 1..(IF stored < cursor + limit THEN stored ELSE cursor + limit) :
           s > since => Retained(s) \/ \E j \in 1..Len(v) : v[j] = Event(s)
  <2>1. Following(v, limit)
    BY <1>1, RowsFollow
  <2> QED BY <2>1 DEF Following
<1>3. wire' = Append(v, last)
  BY <1>1
<1>4. PICK n \in Nat : n = Len(v)
  BY <1>2
<1>5. /\ wire' \in Seq(Frames) /\ Len(wire') = n + 1 /\ wire'[n + 1] = last
      /\ \A i \in 1..n : wire'[i] = v[i]
  BY <1>2, <1>3, <1>4
<1>6. \A s : Retained(s)' <=> Retained(s)
  BY KeptSame
<1>7. \A i \in 1..Len(wire') : wire'[i].seq <= stored
  BY <1>2, <1>4, <1>5
<1>8. WireFollows'
  <2>1. ASSUME NEW i \in 1..(n + 1), wire'[i].op = "event",
               NEW s \in 1..(wire'[i].seq - 1), s > since
        PROVE  Retained(s) \/ \E j \in 1..(i - 1) : wire'[j] = Event(s)
    <3>1. i \in 1..n /\ wire'[i] = v[i]
      BY <1>5, <2>1
    <3>2. Retained(s) \/ \E j \in 1..(i - 1) : v[j] = Event(s)
      BY <1>2, <1>4, <2>1, <3>1
    <3>3. \A j \in 1..(i - 1) : j \in 1..n
      BY <3>1
    <3>4. \A j \in 1..(i - 1) : wire'[j] = v[j]
      BY <1>5, <3>3, Zenon
    <3> QED BY <3>2, <3>4
  <2> QED BY <1>5, <1>6, <2>1 DEF WireFollows, Unshown, OnWire
<1>9. ASSUME NEW s \in 1..(IF stored < cursor + limit THEN stored ELSE cursor + limit),
             s > since
      PROVE  Retained(s) \/ \E j \in 1..(n + 1) : wire'[j] = Event(s)
  <2>1. Retained(s) \/ \E j \in 1..n : v[j] = Event(s)
    BY <1>2, <1>4, <1>9
  <2>2. \A j \in 1..n : j \in 1..(n + 1) /\ wire'[j] = v[j]
    BY <1>5
  <2> QED BY <2>1, <2>2
<1> QED BY <1>5, <1>6, <1>7, <1>8, <1>9 DEF Unshown, OnWire

\* The invariant holds as the page is opened.
LEMMA ScreenInvInit == ScreenInit => ScreenInv
<1> SUFFICES ASSUME ScreenInit PROVE ScreenInv
  OBVIOUS
<1>1. IsFiniteSet({}) /\ Cardinality({}) = 0 /\ 0 <= Capacity
  BY FS_EmptySet, ScreenAssumption
<1>2. ScreenTypes
  BY <1>1 DEF ScreenInit, ScreenTypes, ServerSteps, Frames
<1>3. NoneAhead /\ WireFollows /\ CursorFollows /\ TimelineIsWhole
  BY DEF ScreenInit, NoneAhead, WireFollows, CursorFollows, Connected, TimelineIsWhole
<1> QED BY <1>2, <1>3 DEF ScreenInv

\* A first welcome owes the viewer nothing that is stored already.
LEMMA HelloFreshInv == ScreenInv /\ HelloFresh => ScreenInv'
<1> SUFFICES ASSUME ScreenInv, HelloFresh PROVE ScreenInv'
  OBVIOUS
<1>1. wire = <<>> /\ stored \in Nat /\ latestSeq \in Nat /\ latestSeq <= stored
  BY DEF HelloFresh, ScreenInv, ScreenTypes, NoneAhead
<1>2. wire' = <<Welcome>>
  BY <1>1 DEF HelloFresh
<1>3. wire' \in Seq(Frames) /\ Len(wire') = 1 /\ wire'[1] = Welcome
  BY <1>2 DEF Welcome, Frames
<1>4. ScreenTypes'
  BY <1>3 DEF HelloFresh, ScreenInv, ScreenTypes, ServerSteps
<1>5. NoneAhead'
  BY <1>1, <1>3 DEF HelloFresh, ScreenInv, NoneAhead, Welcome, Connected
<1>6. WireFollows'
  BY <1>3 DEF WireFollows, Welcome
<1>7. CursorFollows'
  BY <1>1 DEF HelloFresh, CursorFollows, Unshown
<1>8. TimelineIsWhole'
  BY <1>1 DEF HelloFresh, TimelineIsWhole
<1> QED BY <1>4, <1>5, <1>6, <1>7, <1>8 DEF ScreenInv

\* A resuming viewer holds everything up to the seq it names.
LEMMA HelloResumeInv == ScreenInv /\ HelloResume => ScreenInv'
<1> SUFFICES ASSUME ScreenInv, HelloResume PROVE ScreenInv'
  OBVIOUS
<1>1. wire = <<>> /\ stored \in Nat /\ cursor \in Nat /\ cursor <= stored
  BY DEF HelloResume, ScreenInv, ScreenTypes, NoneAhead, Connected
<1>0. \A s : Retained(s)' <=> Retained(s)
  BY KeptSame DEF HelloResume
<1>2. CASE stored - cursor > RingCap
  <2>1. wire' = <<Resync>> /\ serve' = "unwelcome"
    BY <1>1, <1>2 DEF HelloResume
  <2>2. wire' \in Seq(Frames) /\ Len(wire') = 1 /\ wire'[1] = Resync
    BY <2>1 DEF Resync, Frames
  <2>3. ScreenTypes'
    BY <2>1, <2>2 DEF HelloResume, ScreenInv, ScreenTypes, ServerSteps
  <2>4. NoneAhead'
    BY <1>1, <2>1, <2>2 DEF HelloResume, ScreenInv, NoneAhead, Resync, Connected
  <2>5. WireFollows' /\ CursorFollows'
    BY <2>1, <2>2 DEF WireFollows, CursorFollows, Resync, Connected
  <2> QED BY <1>0, <2>3, <2>4, <2>5 DEF ScreenInv, HelloResume, TimelineIsWhole
<1>3. CASE ~(stored - cursor > RingCap)
  <2>1. wire' = <<>> /\ serve' = "resuming"
    BY <1>1, <1>3 DEF HelloResume
  <2>2. ScreenTypes'
    BY <2>1 DEF HelloResume, ScreenInv, ScreenTypes, ServerSteps
  <2>3. NoneAhead'
    BY <1>1, <1>3, <2>1, ScreenAssumption DEF HelloResume, ScreenInv, NoneAhead
  <2>4. WireFollows'
    BY <2>1 DEF WireFollows
  <2>5. CursorFollows'
    BY <1>0, <1>1, <2>1 DEF HelloResume, ScreenInv, CursorFollows, Unshown, OnWire, Connected
  <2> QED BY <1>0, <2>2, <2>3, <2>4, <2>5 DEF ScreenInv, HelloResume, TimelineIsWhole
<1> QED BY <1>2, <1>3

\* The replay reaches the maximum that was read before it, though not the end of the table.
LEMMA SendGapInv == ScreenInv /\ SendGap => ScreenInv'
<1> SUFFICES ASSUME ScreenInv, SendGap PROVE ScreenInv'
  OBVIOUS
<1>1. /\ stored \in Nat /\ cursor \in Nat /\ knownMax \in Nat /\ RingCap \in Nat \ {0}
      /\ serve \in Connected /\ cursor <= stored /\ knownMax <= stored
      /\ knownMax <= cursor + RingCap
  BY ScreenAssumption DEF SendGap, ScreenInv, ScreenTypes, NoneAhead, Connected
<1>2. Welcome \in Frames /\ Welcome.op # "event" /\ Welcome.seq <= stored
  BY <1>1 DEF Welcome, Frames
<1>3. /\ wire' = Append(wire \o FetchEventsAfter(cursor, RingCap), Welcome)
      /\ UNCHANGED <<stored, held, skipped, since, latestSeq, knownMax>>
      /\ serve' = "welcomed" /\ cursor' = ResumedFrom
  BY DEF SendGap
<1>4. /\ wire' \in Seq(Frames) /\ WireFollows'
      /\ \A i \in 1..Len(wire') : wire'[i].seq <= stored
      /\ \A s \in 1..(IF stored < cursor + RingCap THEN stored ELSE cursor + RingCap) :
           Unshown(s)' => Retained(s)' \/ OnWire(s, Len(wire))'
  BY <1>1, <1>2, <1>3, Pushes
<1>5. cursor' \in Nat /\ cursor' <= stored /\ cursor' <= cursor + RingCap
  BY <1>1, <1>3 DEF ResumedFrom
<1>6. ScreenTypes'
  BY <1>3, <1>4, <1>5 DEF ScreenInv, ScreenTypes, ServerSteps
<1>7. NoneAhead'
  BY <1>3, <1>4, <1>5 DEF ScreenInv, NoneAhead
<1>8. CursorFollows'
  <2>1. \A s \in 1..cursor' :
          s \in 1..(IF stored < cursor + RingCap THEN stored ELSE cursor + RingCap)
    BY <1>1, <1>5
  <2> QED BY <1>4, <2>1 DEF CursorFollows
<1>9. \A s : Retained(s)' <=> Retained(s)
  BY <1>3, KeptSame
<1> QED BY <1>3, <1>4, <1>6, <1>7, <1>8, <1>9 DEF ScreenInv, TimelineIsWhole

\* A poll goes on behind the last row it pushed.
LEMMA PollInv == ScreenInv /\ Poll => ScreenInv'
<1> SUFFICES ASSUME ScreenInv, Poll PROVE ScreenInv'
  OBVIOUS
<1> DEFINE batch == FetchEventsAfter(cursor, PollBatch)
           end == Diff(Last(batch).seq)
<1>1. /\ stored \in Nat /\ cursor \in Nat /\ PollBatch \in Nat \ {0}
      /\ serve \in Connected /\ cursor <= stored
  BY ScreenAssumption DEF Poll, ScreenInv, ScreenTypes, NoneAhead, Connected
<1>2. PICK n \in Nat :
        /\ n = (IF stored < cursor + PollBatch THEN stored - cursor ELSE PollBatch)
        /\ batch \in Seq(Frames) /\ Len(batch) = n
        /\ \A i \in 1..n : batch[i] = Event(cursor + i)
        /\ cursor + n <= stored
  BY <1>1, Fetched
<1>3. /\ wire' = Append(wire \o batch, end) /\ batch # <<>>
      /\ UNCHANGED <<stored, held, skipped, since, latestSeq, knownMax, serve>>
      /\ cursor' = Last(batch).seq /\ serve = "polling"
  BY DEF Poll, PolledTo
<1> HIDE DEF batch
<1>4. Last(batch).seq = cursor + n
  <2>1. n \in 1..n
    BY <1>2, <1>3
  <2>2. batch[n] = Event(cursor + n)
    BY <1>2, <2>1
  <2> QED BY <1>2, <2>2 DEF Last, Event
<1>5. end \in Frames /\ end.op # "event" /\ end.seq <= stored
  BY <1>1, <1>2, <1>4 DEF Diff, Frames
<1> HIDE DEF end
<1>6. /\ wire' \in Seq(Frames) /\ WireFollows'
      /\ \A i \in 1..Len(wire') : wire'[i].seq <= stored
      /\ \A s \in 1..(IF stored < cursor + PollBatch THEN stored ELSE cursor + PollBatch) :
           Unshown(s)' => Retained(s)' \/ OnWire(s, Len(wire))'
  BY <1>1, <1>3, <1>5, Pushes DEF batch
<1>7. cursor' \in Nat /\ cursor' <= stored /\ cursor' <= cursor + PollBatch
  BY <1>1, <1>2, <1>3, <1>4
<1>8. ScreenTypes'
  BY <1>3, <1>6, <1>7 DEF ScreenInv, ScreenTypes
<1>9. NoneAhead'
  BY <1>3, <1>6, <1>7 DEF ScreenInv, NoneAhead
<1>10. CursorFollows'
  <2>1. \A s \in 1..cursor' :
          s \in 1..(IF stored < cursor + PollBatch THEN stored ELSE cursor + PollBatch)
    BY <1>1, <1>7
  <2> QED BY <1>6, <2>1 DEF CursorFollows
<1>11. \A s : Retained(s)' <=> Retained(s)
  BY <1>3, KeptSame
<1> QED BY <1>3, <1>6, <1>8, <1>9, <1>10, <1>11 DEF ScreenInv, TimelineIsWhole

\* A push that fails leaves out its own event and no other.
LEMMA PollFailsInv == ScreenInv /\ PollFails => ScreenInv'
<1> SUFFICES ASSUME ScreenInv, PollFails PROVE ScreenInv'
  OBVIOUS
<1>1. PICK n \in 0..(PollBatch - 1) :
        /\ cursor + n < stored
        /\ wire' = wire \o FetchEventsAfter(cursor, n)
        /\ cursor' = cursor + n + 1 /\ skipped' = skipped \cup {cursor + n + 1}
  BY DEF PollFails
<1>2. /\ serve = "polling" /\ serve \in Connected
      /\ UNCHANGED <<stored, serve, knownMax, held, latestSeq, since>>
  BY DEF PollFails, Connected
<1>3. n \in Nat /\ cursor \in Nat /\ stored \in Nat
  BY ScreenAssumption DEF ScreenInv, ScreenTypes
<1>4. PICK v : v = wire'
  OBVIOUS
<1>5. /\ v \in Seq(Frames)
      /\ \A i \in 1..Len(v) : v[i].seq <= stored
      /\ \A i \in 1..Len(v) : v[i].op = "event" =>
           \A s \in 1..(v[i].seq - 1) :
             s > since => Retained(s) \/ \E j \in 1..(i - 1) : v[j] = Event(s)
      /\ \A s \in 1..(IF stored < cursor + n THEN stored ELSE cursor + n) :
           s > since => Retained(s) \/ \E j \in 1..Len(v) : v[j] = Event(s)
  <2>1. Following(v, n)
    BY <1>1, <1>2, <1>3, <1>4, RowsFollow
  <2> QED BY <2>1 DEF Following
<1>6. \A s : Retained(s) => Retained(s)'
  BY <1>1, <1>2, KeptStays
<1>7. ScreenTypes'
  BY <1>1, <1>2, <1>3, <1>4, <1>5 DEF ScreenInv, ScreenTypes
<1>8. NoneAhead'
  BY <1>1, <1>2, <1>3, <1>4, <1>5 DEF ScreenInv, NoneAhead
<1>9. WireFollows'
  BY <1>2, <1>4, <1>5, <1>6 DEF WireFollows, Unshown, OnWire
<1>10. CursorFollows'
  <2>1. ASSUME NEW s \in 1..(cursor + n + 1), s > since
        PROVE  Retained(s)' \/ \E j \in 1..Len(v) : v[j] = Event(s)
    <3>1. CASE s = cursor + n + 1
      BY <1>1, <3>1 DEF Retained
    <3>2. CASE s # cursor + n + 1
      <4>1. s \in 1..(IF stored < cursor + n THEN stored ELSE cursor + n)
        BY <1>1, <1>3, <3>2
      <4> QED BY <1>5, <1>6, <2>1, <4>1
    <3> QED BY <3>1, <3>2
  <2> QED BY <1>1, <1>2, <1>4, <2>1 DEF CursorFollows, Unshown, OnWire
<1> QED BY <1>2, <1>6, <1>7, <1>8, <1>9, <1>10 DEF ScreenInv, TimelineIsWhole

\* Every frame under way names a row of the table, or 0.
LEMMA WireSeqs ==
  ASSUME ScreenInv, NEW i \in 1..Len(wire)
  PROVE  wire[i] \in Frames /\ wire[i].seq \in Nat /\ wire[i].seq <= stored
<1>1. wire[i] \in Frames
  BY DEF ScreenInv, ScreenTypes
<1>2. wire[i].seq \in Nat
  BY <1>1 DEF Frames
<1>3. wire[i].seq <= stored
  BY DEF ScreenInv, NoneAhead
<1> QED BY <1>1, <1>2, <1>3

\* Steps that say nothing, or lose what is under way, keep the invariant.
LEMMA QuietInv ==
  ScreenInv /\ (Subscribe \/ Watchdog \/ Break) => ScreenInv'
<1> SUFFICES ASSUME ScreenInv, Subscribe \/ Watchdog \/ Break PROVE ScreenInv'
  OBVIOUS
<1>1. /\ UNCHANGED <<stored, held, skipped, since, latestSeq, knownMax, cursor>>
      /\ (wire' = wire \/ wire' = <<>>)
      /\ serve' \in ServerSteps
      /\ (serve' \in Connected => serve \in Connected /\ wire' = wire)
      /\ serve' # "resuming"
      /\ (serve' \in {"none", "accepted"} => wire' = <<>>)
  <2>1. CASE Subscribe
    BY <2>1 DEF Subscribe, ServerSteps, Connected
  <2>2. CASE Watchdog
    BY <2>2 DEF Watchdog, ServerSteps, Connected
  <2>3. CASE Break
    BY <2>3 DEF Break, ServerSteps, Connected
  <2> QED BY <2>1, <2>2, <2>3
<1>2. ScreenTypes'
  <2>1. wire' \in Seq(Frames)
    <3>1. wire \in Seq(Frames) /\ <<>> \in Seq(Frames)
      BY DEF ScreenInv, ScreenTypes
    <3> QED BY <1>1, <3>1
  <2>2. {stored, knownMax, cursor, latestSeq, since}' \subseteq Nat
    BY <1>1 DEF ScreenInv, ScreenTypes
  <2> QED BY <1>1, <2>1, <2>2 DEF ScreenInv, ScreenTypes
<1>3. NoneAhead'
  BY <1>1 DEF ScreenInv, NoneAhead
<1>4. \A s : Retained(s)' <=> Retained(s)
  BY <1>1, KeptSame
<1>5. WireFollows' /\ CursorFollows'
  BY <1>1, <1>4 DEF ScreenInv, WireFollows, CursorFollows, Unshown, OnWire
<1> QED BY <1>1, <1>2, <1>3, <1>4, <1>5 DEF ScreenInv, TimelineIsWhole

\* A hello names the newest event the viewer shows, behind which it has everything.
LEMMA ConnectInv == ScreenInv /\ Connect => ScreenInv'
<1> SUFFICES ASSUME ScreenInv, Connect PROVE ScreenInv'
  OBVIOUS
<1>1. /\ serve = "none" /\ serve' = "accepted" /\ cursor' = latestSeq
      /\ UNCHANGED <<stored, knownMax, wire, held, latestSeq, since, skipped>>
  BY DEF Connect
<1>2. \A s : Retained(s)' <=> Retained(s)
  BY <1>1, KeptSame
<1>3. ScreenTypes'
  BY <1>1 DEF ScreenInv, ScreenTypes, ServerSteps
<1>4. NoneAhead'
  BY <1>1 DEF ScreenInv, NoneAhead
<1>5. WireFollows'
  BY <1>1, <1>2 DEF ScreenInv, WireFollows, Unshown, OnWire
<1>6. CursorFollows'
  BY <1>1, <1>2 DEF ScreenInv, CursorFollows, TimelineIsWhole, Unshown
<1> QED BY <1>1, <1>2, <1>3, <1>4, <1>5, <1>6 DEF ScreenInv, TimelineIsWhole

\* The map page's filling has everything the viewer is owed from then on.
LEMMA BackfillInv == ScreenInv /\ Backfill => ScreenInv'
<1> SUFFICES ASSUME ScreenInv, Backfill PROVE ScreenInv'
  OBVIOUS
<1> DEFINE first == IF stored > Page THEN stored - Page ELSE 0
<1>1. /\ held' = (first + 1)..stored /\ latestSeq' = stored
      /\ since' = IF first > since THEN first ELSE since
      /\ UNCHANGED <<stored, serve, knownMax, cursor, wire, skipped>>
  BY DEF Backfill
<1>2. /\ stored \in Nat /\ since \in Nat /\ cursor \in Nat /\ Page \in Nat \ {0}
      /\ Capacity \in Nat /\ Page <= Capacity
  BY ScreenAssumption DEF ScreenInv, ScreenTypes
<1>3. first \in Nat /\ first <= stored /\ stored - first <= Page
  BY <1>2
<1> HIDE DEF first
<1>4. held' \subseteq Nat /\ IsFiniteSet(held') /\ Cardinality(held') <= Capacity
  <2>1. first + 1 \in Int /\ stored \in Int
    BY <1>2, <1>3
  <2>2. IsFiniteSet(held') /\ Cardinality(held') = IF first + 1 > stored THEN 0 ELSE stored - (first + 1) + 1
    BY <1>1, <2>1, FS_Interval
  <2> QED BY <1>1, <1>2, <1>3, <2>2
<1>5. \A s \in Nat : s <= stored /\ s > since' => Retained(s)'
  <2> SUFFICES ASSUME NEW s \in Nat, s <= stored, s > since' PROVE s \in held'
    BY DEF Retained
  <2>1. s > first
    BY <1>1, <1>2, <1>3
  <2> QED BY <1>1, <1>2, <1>3, <2>1
<1>6. ScreenTypes'
  BY <1>1, <1>2, <1>3, <1>4 DEF ScreenInv, ScreenTypes
<1>7. NoneAhead'
  <2>1. \A h \in held' : h <= stored
    BY <1>1, <1>2, <1>3
  <2> QED BY <1>1, <1>2, <2>1 DEF ScreenInv, NoneAhead
<1>8. WireFollows'
  <2>1. ASSUME NEW i \in 1..Len(wire), NEW s \in 1..(wire[i].seq - 1)
        PROVE  s \in Nat /\ s <= stored
    BY <1>2, <2>1, WireSeqs
  <2> QED BY <1>1, <1>5, <2>1 DEF WireFollows, Unshown
<1>9. CursorFollows'
  BY <1>1, <1>2, <1>5 DEF ScreenInv, NoneAhead, CursorFollows, Unshown
<1>10. TimelineIsWhole'
  BY <1>1, <1>2, <1>5 DEF TimelineIsWhole
<1> QED BY <1>6, <1>7, <1>8, <1>9, <1>10 DEF ScreenInv

\* A new row is behind everything that travels.
LEMMA StoreInv == ScreenInv /\ Store => ScreenInv'
<1> SUFFICES ASSUME ScreenInv, Store PROVE ScreenInv'
  OBVIOUS
<1>1. /\ stored \in Nat /\ stored' = stored + 1 /\ wire \in Seq(Frames)
      /\ UNCHANGED <<serve, knownMax, cursor, wire, held, latestSeq, since, skipped>>
      /\ {latestSeq, knownMax, cursor} \subseteq Nat
  BY DEF Store, ScreenInv, ScreenTypes
<1>2. ScreenTypes'
  BY <1>1 DEF ScreenInv, ScreenTypes
<1>3. NoneAhead'
  <2>1. \A i \in 1..Len(wire) : wire[i].seq \in Nat /\ wire[i].seq <= stored
    BY WireSeqs
  <2>2. \A i \in 1..Len(wire') : wire'[i].seq <= stored'
    BY <1>1, <2>1
  <2>3. latestSeq' <= stored' /\ (serve' \in Connected => cursor' <= stored')
    BY <1>1 DEF ScreenInv, NoneAhead
  <2>4. serve' = "resuming" => knownMax' <= stored' /\ knownMax' - cursor' <= RingCap
    BY <1>1 DEF ScreenInv, NoneAhead
  <2> QED BY <1>1, <2>2, <2>3, <2>4 DEF ScreenInv, NoneAhead
<1>4. \A s : Retained(s)' <=> Retained(s)
  BY <1>1, KeptSame
<1>5. WireFollows' /\ CursorFollows'
  BY <1>1, <1>4 DEF ScreenInv, WireFollows, CursorFollows, Unshown, OnWire
<1> QED BY <1>1, <1>2, <1>3, <1>4, <1>5 DEF ScreenInv, TimelineIsWhole

\* One event more in the timeline: it fits, or the oldest goes, which is older than all that
\* the full timeline then holds.
LEMMA TakenKeeps ==
  ASSUME held \subseteq Nat, IsFiniteSet(held), Cardinality(held) <= Capacity,
         NEW frame, frame.seq \in Nat, NEW new, new = Taken(frame)
  PROVE  /\ new \subseteq held \cup {frame.seq} /\ new # {}
         /\ IsFiniteSet(new) /\ Cardinality(new) <= Capacity
         /\ \A s \in Nat :
              (s \in held \cup {frame.seq} \/ (Cardinality(held) = Capacity /\ \A h \in held : h > s))
              => s \in new \/ (Cardinality(new) = Capacity /\ \A h \in new : h > s)
<1>1. PICK merged, f : merged = held \cup {f} /\ f = frame.seq /\ f \in Nat
  OBVIOUS
<1>2. PICK n, c : n = Cardinality(held) /\ c = Capacity /\ n \in Nat /\ c \in Nat \ {0} /\ n <= c
  BY FS_CardinalityType, ScreenAssumption
<1>3. /\ IsFiniteSet(merged) /\ merged \in SUBSET Nat /\ merged # {}
      /\ Cardinality(merged) = IF f \in held THEN n ELSE n + 1
  BY <1>1, <1>2, FS_AddElement
<1>4. new = IF Cardinality(merged) > c THEN merged \ {Min(merged)} ELSE merged
  BY <1>1, <1>2 DEF Taken
<1>5. CASE Cardinality(merged) > c
  <2>1. f \notin held /\ n = c /\ Cardinality(merged) = c + 1
    BY <1>2, <1>3, <1>5
  <2>2. PICK m \in merged : m = Min(merged) /\ \A k \in merged : m <= k
    BY <1>3, LeastOfNats
  <2>3. new = merged \ {m}
    BY <1>4, <1>5, <2>2
  <2>4. IsFiniteSet(new) /\ Cardinality(new) = c
    <3>1. IsFiniteSet(merged \ {m}) /\ Cardinality(merged \ {m}) = Cardinality(merged) - 1
      BY <1>3, <2>2, FS_RemoveElement
    <3> QED BY <1>2, <2>1, <2>3, <3>1
  <2>5. new # {}
    BY <1>2, <2>4, FS_EmptySet
  <2>6. \A h \in new : h \in Nat /\ h > m
    BY <1>3, <2>2, <2>3
  <2>7. ASSUME NEW s \in Nat, \A h \in held : h > s, s \notin new
        PROVE  \A h \in new : h > s
    <3>1. CASE m \in held
      <4>1. m > s /\ m \in Nat
        BY <1>3, <2>2, <2>7, <3>1
      <4> QED BY <2>6, <4>1
    <3>2. CASE m \notin held
      BY <1>1, <2>2, <2>3, <2>7, <3>2
    <3> QED BY <3>1, <3>2
  <2>8. ASSUME NEW s \in merged, s \notin new PROVE \A h \in new : h > s
    BY <2>3, <2>6, <2>8
  <2> QED BY <1>1, <1>2, <2>3, <2>4, <2>5, <2>7, <2>8
<1>6. CASE ~(Cardinality(merged) > c)
  <2>1. new = merged /\ Cardinality(merged) <= c
    BY <1>2, <1>3, <1>4, <1>6
  <2>2. n = c => merged = held
    BY <1>1, <1>2, <1>3, <2>1
  <2> QED BY <1>1, <1>2, <1>3, <2>1, <2>2
<1> QED BY <1>5, <1>6

\* What arrives follows upon what is held; a rebuilding owes nothing that is stored.
LEMMA ReceiveInv == ScreenInv /\ Receive => ScreenInv'
<1> SUFFICES ASSUME ScreenInv, Receive PROVE ScreenInv'
  OBVIOUS
<1> DEFINE frame == Head(wire)
           w == Len(wire)
<1>1. /\ wire \in Seq(Frames) /\ wire # <<>> /\ w \in Nat \ {0} /\ frame = wire[1]
      /\ {stored, latestSeq, since, cursor} \subseteq Nat /\ held \subseteq Nat
      /\ IsFiniteSet(held) /\ Cardinality(held) <= Capacity
  BY DEF Receive, ScreenInv, ScreenTypes
<1>2. frame \in Frames /\ frame.seq \in Nat /\ frame.seq <= stored
  <2>1. 1 \in 1..Len(wire)
    BY <1>1
  <2> HIDE DEF frame
  <2> QED BY <1>1, <2>1, WireSeqs
<1>3. /\ wire' = Tail(wire) /\ UNCHANGED <<stored, serve, knownMax, cursor, skipped>>
      /\ held' = CASE frame.op = "event" -> Taken(frame)
                   [] frame.op = "resync_required" -> Truncated
                   [] OTHER -> held
      /\ latestSeq' = IF frame.op = "event" THEN Max(Taken(frame)) ELSE latestSeq
      /\ since' = IF frame.op = "resync_required" THEN stored ELSE since
  BY DEF Receive
<1>4. /\ wire' \in Seq(Frames) /\ Len(wire') = w - 1
      /\ \A i \in 1..(w - 1) : i + 1 \in 1..w /\ wire'[i] = wire[i + 1]
  BY <1>1, <1>3
<1> HIDE DEF frame, w
<1>5. \A j \in 2..w : \E i \in 1..(w - 1) : j = i + 1 /\ wire'[i] = wire[j]
  <2>1. ASSUME NEW j \in 2..w PROVE \E i \in 1..(w - 1) : j = i + 1 /\ wire'[i] = wire[j]
    <3>1. j - 1 \in 1..(w - 1) /\ j = (j - 1) + 1
      BY <1>1, <2>1
    <3>2. wire'[j - 1] = wire[j]
      BY <1>4, <3>1
    <3> QED BY <3>1, <3>2
  <2> QED BY <2>1
<1>6. serve \notin {"none", "accepted", "resuming"}
  BY <1>1 DEF ScreenInv, NoneAhead
<1>7. /\ held' \subseteq Nat /\ IsFiniteSet(held') /\ Cardinality(held') <= Capacity
      /\ latestSeq' \in Nat /\ since' \in Nat /\ latestSeq' <= stored
      /\ (\A h \in held' : h <= latestSeq') /\ TimelineIsWhole'
      /\ \A s \in Nat : s > since' /\ s <= stored =>
           since' = since /\ (Retained(s) \/ wire[1] = Event(s) => Retained(s)')
  <2>1. CASE frame.op = "event"
    <3>1. held' = Taken(frame) /\ latestSeq' = Max(held') /\ since' = since /\ skipped' = skipped
      BY <1>3, <2>1
    <3>2. PICK new : new = held'
      OBVIOUS
    <3>3. /\ new \subseteq held \cup {frame.seq} /\ new # {}
          /\ IsFiniteSet(new) /\ Cardinality(new) <= Capacity
          /\ \A s \in Nat :
               (s \in held \cup {frame.seq} \/ (Cardinality(held) = Capacity /\ \A h \in held : h > s))
               => s \in new \/ (Cardinality(new) = Capacity /\ \A h \in new : h > s)
      BY <1>1, <1>2, <3>1, <3>2, TakenKeeps
    <3>4. \A s \in Nat : Retained(s) \/ s = frame.seq => Retained(s)'
      BY <3>1, <3>2, <3>3 DEF Retained
    <3>5. held' \subseteq 0..stored /\ held' # {}
      <4>1. latestSeq <= stored /\ \A h \in held : h \in Nat /\ h <= latestSeq
        BY <1>1 DEF ScreenInv, NoneAhead
      <4>2. \A h \in held : h \in 0..stored
        BY <1>1, <4>1
      <4>3. frame.seq \in 0..stored
        BY <1>1, <1>2
      <4> QED BY <3>2, <3>3, <4>2, <4>3
    <3>6. latestSeq' \in held' /\ \A h \in held' : h <= latestSeq'
      BY <1>1, <3>1, <3>5, MaxIsGreatest
    <3>7. ASSUME NEW s \in 1..latestSeq', s > since' PROVE Retained(s)'
      <4>0. s \in Nat
        OBVIOUS
      <4>1. CASE s \in 1..latestSeq
        BY <3>1, <3>4, <3>7, <4>0, <4>1 DEF ScreenInv, TimelineIsWhole
      <4>2. CASE s \in 1..(frame.seq - 1)
        <5>1. 1 \in 1..Len(wire) /\ wire[1].op = "event" /\ s \in 1..(wire[1].seq - 1)
          BY <1>1, <2>1, <4>2 DEF w
        <5>2. Retained(s) \/ OnWire(s, 1 - 1)
          BY <3>1, <3>7, <5>1 DEF ScreenInv, WireFollows, Unshown
        <5> QED BY <3>4, <4>0, <5>2 DEF OnWire
      <4>3. CASE s = frame.seq
        BY <3>4, <4>0, <4>3
      <4>4. latestSeq' = frame.seq \/ latestSeq' <= latestSeq
        BY <3>2, <3>3, <3>6 DEF ScreenInv, NoneAhead
      <4>5. s \in 1..latestSeq \/ s \in 1..(frame.seq - 1) \/ s = frame.seq
        BY <1>1, <1>2, <3>5, <3>6, <4>4
      <4> QED BY <4>1, <4>2, <4>3, <4>5
    <3>8. \A s : wire[1] = Event(s) => s = frame.seq
      BY <1>1 DEF Event
    <3>9. held' \subseteq Nat /\ latestSeq' \in Nat /\ latestSeq' <= stored
      BY <1>1, <3>5, <3>6
    <3>10. TimelineIsWhole'
      BY <3>7 DEF TimelineIsWhole
    <3>11. \A s \in Nat : Retained(s) \/ wire[1] = Event(s) => Retained(s)'
      BY <3>4, <3>8
    <3>12. IsFiniteSet(held') /\ Cardinality(held') <= Capacity /\ since' \in Nat
      BY <1>1, <3>1, <3>2, <3>3
    <3> QED BY <3>1, <3>6, <3>9, <3>10, <3>11, <3>12
  <2>2. CASE frame.op = "resync_required"
    <3>1. held' \subseteq held /\ latestSeq' = latestSeq /\ since' = stored
      BY <1>3, <2>2 DEF Truncated
    <3>2. latestSeq <= stored /\ \A h \in held : h <= latestSeq
      BY DEF ScreenInv, NoneAhead
    <3>3. /\ IsFiniteSet(held') /\ Cardinality(held') <= Cardinality(held)
          /\ Cardinality(held') \in Nat /\ Cardinality(held) \in Nat
      BY <1>1, <3>1, FS_Subset, FS_CardinalityType
    <3>4. Cardinality(held') <= Capacity
      BY <1>1, <3>3, ScreenAssumption
    <3>5. TimelineIsWhole'
      BY <1>1, <3>1, <3>2 DEF TimelineIsWhole
    <3> QED BY <1>1, <3>1, <3>2, <3>3, <3>4, <3>5
  <2>3. CASE frame.op \notin {"event", "resync_required"}
    <3>1. held' = held /\ latestSeq' = latestSeq /\ since' = since /\ skipped' = skipped
      BY <1>3, <2>3
    <3>2. \A s : wire[1] # Event(s)
      BY <1>1, <2>3 DEF Event
    <3>3. \A s : Retained(s)' <=> Retained(s)
      BY <3>1, KeptSame
    <3>4. TimelineIsWhole'
      BY <3>1, <3>3 DEF ScreenInv, TimelineIsWhole
    <3> QED BY <1>1, <3>1, <3>2, <3>3, <3>4 DEF ScreenInv, NoneAhead
  <2> QED BY <2>1, <2>2, <2>3
<1>8. ScreenTypes'
  BY <1>3, <1>4, <1>7 DEF ScreenInv, ScreenTypes
<1>9. NoneAhead'
  <2>1. \A i \in 1..Len(wire') : wire'[i].seq <= stored'
    BY <1>3, <1>4 DEF ScreenInv, NoneAhead, w
  <2> QED BY <1>3, <1>6, <1>7, <2>1 DEF ScreenInv, NoneAhead
<1>10. ASSUME NEW s \in Nat, s > since', s <= stored, NEW j \in 1..w, wire[j] = Event(s)
       PROVE  Retained(s)' \/ \E i \in 1..(j - 1) : i \in 1..(w - 1) /\ wire'[i] = Event(s)
  <2>1. CASE j = 1
    BY <1>7, <1>10, <2>1
  <2>2. CASE j # 1
    <3>1. j \in 2..w
      BY <1>1, <2>2
    <3>2. PICK i \in 1..(w - 1) : j = i + 1 /\ wire'[i] = wire[j]
      BY <1>5, <3>1
    <3>3. i \in 1..(j - 1)
      BY <1>1, <3>1, <3>2
    <3> QED BY <1>10, <3>2, <3>3
  <2> QED BY <2>1, <2>2
<1>11. WireFollows'
  <2>1. ASSUME NEW i \in 1..(w - 1), wire'[i].op = "event",
               NEW s \in 1..(wire'[i].seq - 1), s > since'
        PROVE  Retained(s)' \/ \E j \in 1..(i - 1) : wire'[j] = Event(s)
    <3>1. i + 1 \in 1..w /\ wire'[i] = wire[i + 1] /\ i \in Int
      BY <1>4, <2>1
    <3>2. wire[i + 1].seq \in Nat /\ wire[i + 1].seq <= stored
      BY <3>1, WireSeqs DEF w
    <3>3. s \in Nat /\ s <= stored
      BY <1>1, <2>1, <3>1, <3>2
    <3>4. since' = since
      BY <1>7, <2>1, <3>3
    <3>5. Retained(s) \/ \E j \in 1..((i + 1) - 1) : wire[j] = Event(s)
      BY <2>1, <3>1, <3>4 DEF ScreenInv, WireFollows, Unshown, OnWire, w
    <3>6. CASE Retained(s)
      BY <1>7, <2>1, <3>3, <3>6
    <3>7. ASSUME NEW j \in 1..((i + 1) - 1), wire[j] = Event(s)
          PROVE  Retained(s)' \/ \E k \in 1..(i - 1) : wire'[k] = Event(s)
      <4>1. j \in 1..w
        BY <1>1, <3>1, <3>7
      <4>2. Retained(s)' \/ \E k \in 1..(j - 1) : k \in 1..(w - 1) /\ wire'[k] = Event(s)
        BY <1>10, <2>1, <3>3, <3>7, <4>1
      <4>3. \A k \in 1..(j - 1) : k \in 1..(i - 1)
        BY <3>1, <3>7
      <4> QED BY <4>2, <4>3
    <3> QED BY <3>5, <3>6, <3>7
  <2> QED BY <1>4, <2>1 DEF WireFollows, Unshown, OnWire
<1>12. CursorFollows'
  <2>1. ASSUME serve \in Connected, NEW s \in 1..cursor, s > since'
        PROVE  Retained(s)' \/ \E j \in 1..(w - 1) : wire'[j] = Event(s)
    <3>1. s \in Nat /\ s <= stored
      BY <1>1, <2>1 DEF ScreenInv, NoneAhead
    <3>2. since' = since
      BY <1>7, <2>1, <3>1
    <3>3. Retained(s) \/ \E j \in 1..w : wire[j] = Event(s)
      BY <2>1, <3>2 DEF ScreenInv, CursorFollows, Unshown, OnWire, w
    <3> QED BY <1>7, <1>10, <2>1, <3>1, <3>3
  <2> QED BY <1>3, <1>4, <2>1 DEF CursorFollows, Unshown, OnWire
<1> QED BY <1>7, <1>8, <1>9, <1>11, <1>12 DEF ScreenInv

\* Every step keeps the invariant.
LEMMA ScreenStepInv == ScreenInv /\ [ScreenNext]_screenVars => ScreenInv'
<1> SUFFICES ASSUME ScreenInv, [ScreenNext]_screenVars PROVE ScreenInv'
  OBVIOUS
<1>1. CASE ScreenNext
  BY <1>1, HelloFreshInv, HelloResumeInv, SendGapInv, PollInv, PollFailsInv, QuietInv, ConnectInv,
     BackfillInv, StoreInv, ReceiveInv
  DEF ScreenNext, ScreenServer, ScreenViewer
<1>2. CASE UNCHANGED screenVars
  BY <1>2 DEF screenVars, ScreenInv, ScreenTypes, NoneAhead, WireFollows, CursorFollows,
     TimelineIsWhole, Retained, Unshown, OnWire
<1> QED BY <1>1, <1>2

\* Whatever breaks, fails, is replayed, cut short or polled between the two queries of a
\* resumption, the viewer's timeline has every event from its first welcome, its last
\* rebuilding or the map page's filling to its newest, but for those whose own push failed and
\* those a full timeline let go for newer ones (ws_endpoint, _resume, poll_loop; manager.ts,
\* merge.ts).
THEOREM TimelineHasNoHole == ScreenSpec => []TimelineIsWhole
<1>1. ScreenInv => TimelineIsWhole
  BY DEF ScreenInv
<1> QED BY <1>1, ScreenInvInit, ScreenStepInv, PTL DEF ScreenSpec

\* The observer's numbers stay behind the table's end, the table's behind its bound.
ScreenSized ==
  /\ stored <= MaxStored /\ knownMax <= stored /\ cursor <= stored /\ since <= stored
  /\ breaks \in 0..MaxBreaks /\ ask \in {"none", "hello", "subscribe"}
  /\ skipped \subseteq 0..stored
  /\ shown.move \in 0..stored /\ shown.tick = TickOf(shown.move)

\* The first snapshot shows the empty table.
LEMMA ScreenSizedInit == ScreenInit => ScreenSized
<1> SUFFICES ASSUME ScreenInit PROVE ScreenSized
  OBVIOUS
<1>1. TickOf(0) = 0
  BY ScreenAssumption DEF TickOf
<1>2. MaxStored \in Nat /\ MaxBreaks \in Nat
  BY ScreenAssumption
<1> QED BY <1>1, <1>2 DEF ScreenInit, ScreenSized

\* Every step; the step invariant says where a poll or a replay leaves the cursor.
LEMMA ScreenSizedStep == ScreenInv /\ ScreenSized /\ [ScreenNext]_screenVars => ScreenSized'
<1> SUFFICES ASSUME ScreenInv, ScreenSized, [ScreenNext]_screenVars PROVE ScreenSized'
  OBVIOUS
<1>c. /\ {stored, knownMax, cursor, latestSeq, since, MaxStored, MaxBreaks} \subseteq Nat
      /\ latestSeq <= stored
  BY ScreenAssumption DEF ScreenInv, ScreenTypes, NoneAhead
<1>1. CASE HelloFresh \/ HelloResume \/ Subscribe \/ Watchdog \/ Connect
  <2>1. /\ UNCHANGED <<stored, skipped, breaks, shown>> /\ ask' \in {"none", "hello", "subscribe"}
        /\ knownMax' \in {knownMax, stored} /\ cursor' \in {cursor, stored, latestSeq}
        /\ since' \in {since, stored}
    <3>1. CASE HelloFresh
      BY <3>1 DEF HelloFresh
    <3>2. CASE HelloResume
      BY <3>2 DEF HelloResume
    <3>3. CASE Subscribe \/ Watchdog
      BY <3>3 DEF Subscribe, Watchdog, ScreenSized
    <3>4. CASE Connect
      BY <3>4 DEF Connect
    <3> QED BY <1>1, <3>1, <3>2, <3>3, <3>4
  <2> QED BY <1>c, <2>1 DEF ScreenSized
<1>2. CASE SendGap \/ Poll
  <2>1. /\ UNCHANGED <<stored, knownMax, since, skipped, breaks, ask, shown>>
        /\ ScreenInv'
    BY <1>2, SendGapInv, PollInv DEF SendGap, Poll
  <2>2. cursor' <= stored'
    BY <1>2, <2>1 DEF ScreenInv, NoneAhead, SendGap, Poll, Connected
  <2> QED BY <2>1, <2>2 DEF ScreenSized
<1>3. CASE Receive
  <2> DEFINE frame == Head(wire)
  <2>1. frame.seq \in Nat /\ frame.seq <= stored
    <3>1. wire \in Seq(Frames) /\ wire # <<>>
      BY <1>3 DEF Receive, ScreenInv, ScreenTypes
    <3>2. 1 \in 1..Len(wire) /\ frame = wire[1]
      BY <3>1
    <3> QED BY <3>2, WireSeqs
  <2>2. /\ UNCHANGED <<stored, knownMax, cursor, skipped, breaks>>
        /\ since' = IF frame.op = "resync_required" THEN stored ELSE since
        /\ ask' = IF frame.op = "welcome" THEN "subscribe" ELSE ask
        /\ \/ shown' = shown
           \/ shown' = [move |-> frame.seq, tick |-> TickOf(frame.seq)]
           \/ shown' = [move |-> stored, tick |-> TickOf(stored)]
    <3>1. shown' = CASE frame.op = "state_diff" -> Applied(frame)
                     [] frame.op = "resync_required" -> [move |-> stored, tick |-> TickOf(stored)]
                     [] OTHER -> shown
      BY <1>3 DEF Receive
    <3>2. Applied(frame) = shown \/ Applied(frame) = [move |-> frame.seq, tick |-> TickOf(frame.seq)]
      BY DEF Applied
    <3>3. \/ shown' = shown \/ shown' = Applied(frame)
          \/ shown' = [move |-> stored, tick |-> TickOf(stored)]
      BY <3>1
    <3> QED BY <1>3, <3>2, <3>3 DEF Receive
  <2> HIDE DEF frame
  <2>3. shown'.move \in 0..stored /\ shown'.tick = TickOf(shown'.move)
    BY <1>c, <2>1, <2>2 DEF ScreenSized
  <2> QED BY <1>c, <2>2, <2>3 DEF ScreenSized
<1>4. CASE Store
  <2>1. /\ stored' = stored + 1 /\ stored < MaxStored
        /\ UNCHANGED <<knownMax, cursor, since, skipped, breaks, ask, shown>>
    BY <1>4 DEF Store
  <2>2. skipped' \subseteq 0..stored' /\ shown'.move \in 0..stored'
    BY <1>c, <2>1 DEF ScreenSized
  <2> QED BY <1>c, <2>1, <2>2 DEF ScreenSized
<1>8. CASE Break
  BY <1>8, <1>c DEF Break, ScreenSized
<1>5. CASE PollFails
  <2>1. PICK n \in 0..(PollBatch - 1) :
          /\ cursor + n < stored /\ cursor' = cursor + n + 1
          /\ skipped' = skipped \cup {cursor + n + 1}
    BY <1>5 DEF PollFails
  <2>2. /\ UNCHANGED <<stored, knownMax, since, ask, shown>>
        /\ breaks' = breaks + 1 /\ breaks < MaxBreaks
    BY <1>5 DEF PollFails
  <2>3. n \in Nat
    BY ScreenAssumption
  <2>4. cursor + n + 1 \in 0..stored /\ cursor' <= stored
    BY <1>c, <2>1, <2>3
  <2>5. skipped' \subseteq 0..stored
    BY <2>1, <2>4 DEF ScreenSized
  <2>6. breaks' \in 0..MaxBreaks
    BY <1>c, <2>2 DEF ScreenSized
  <2> QED BY <2>2, <2>4, <2>5, <2>6 DEF ScreenSized
<1>6. CASE Backfill
  <2>1. /\ UNCHANGED <<stored, knownMax, cursor, skipped, breaks, ask, shown>>
        /\ since' = since \/ since' = stored - Page \/ since' = 0
    BY <1>6 DEF Backfill
  <2>2. Page \in Nat /\ since <= stored
    BY ScreenAssumption DEF ScreenSized
  <2>3. since' <= stored
    BY <1>c, <2>1, <2>2
  <2> QED BY <2>1, <2>3 DEF ScreenSized
<1>7. CASE UNCHANGED screenVars
  BY <1>7 DEF screenVars, ScreenSized
<1> QED BY <1>1, <1>2, <1>3, <1>4, <1>5, <1>6, <1>7, <1>8 DEF ScreenNext, ScreenServer, ScreenViewer

\* The types of Screen.
LEMMA ScreenSizes == ScreenInv /\ ScreenSized => ScreenTypeOK
<1> SUFFICES ASSUME ScreenInv, ScreenSized PROVE ScreenTypeOK
  OBVIOUS
<1>1. /\ {stored, knownMax, cursor, latestSeq, since, MaxStored, MaxBreaks} \subseteq Nat
      /\ latestSeq <= stored /\ stored <= MaxStored
      /\ held \subseteq Nat /\ \A h \in held : h <= latestSeq
  BY ScreenAssumption DEF ScreenInv, ScreenTypes, NoneAhead, ScreenSized
<1>2. {stored, knownMax, cursor, latestSeq, since} \subseteq 0..MaxStored
  <2>1. knownMax <= stored /\ cursor <= stored /\ since <= stored
    BY DEF ScreenSized
  <2>2. stored \in 0..MaxStored /\ knownMax \in 0..MaxStored /\ cursor \in 0..MaxStored
    BY <1>1, <2>1
  <2>3. latestSeq \in 0..MaxStored /\ since \in 0..MaxStored
    BY <1>1, <2>1
  <2> QED BY <2>2, <2>3
<1>3. \A h \in held : h \in 0..MaxStored
  <2>1. latestSeq \in Nat /\ latestSeq <= MaxStored /\ MaxStored \in Nat
    BY <1>1
  <2>2. ASSUME NEW h \in held PROVE h \in 0..MaxStored
    <3>1. h \in Nat /\ h <= latestSeq
      BY <1>1
    <3> QED BY <2>1, <3>1
  <2> QED BY <2>2
<1>4. ASSUME NEW i \in DOMAIN wire
      PROVE  /\ wire[i].op \in {"event", "state_diff", "welcome", "resync_required"}
             /\ wire[i].seq \in 0..MaxStored
  <2>1. i \in 1..Len(wire)
    BY DEF ScreenInv, ScreenTypes
  <2>2. wire[i] \in Frames /\ wire[i].seq \in Nat /\ wire[i].seq <= stored
    BY <2>1, WireSeqs
  <2> QED BY <1>1, <2>2 DEF Frames
<1>5. shown.move \in 0..MaxStored
  BY <1>1 DEF ScreenSized
<1>6. \A s \in skipped : s \in 0..MaxStored
  BY <1>1 DEF ScreenSized
<1> QED BY <1>2, <1>3, <1>4, <1>5, <1>6 DEF ScreenTypeOK, ScreenSized, ScreenInv, ScreenTypes

\* Every variable of the observer keeps its type.
THEOREM ScreenTypeCorrect == ScreenSpec => []ScreenTypeOK
BY ScreenInvInit, ScreenStepInv, ScreenSizedInit, ScreenSizedStep, ScreenSizes, PTL DEF ScreenSpec
=============================================================================
