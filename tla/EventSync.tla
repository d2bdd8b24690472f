------------------------------ MODULE EventSync ------------------------------
(***************************************************************************)
(* The event stream from the kernel's database to the cloud replica:       *)
(*                                                                         *)
(*   kernel    appends rows to `events`; the table itself is the outbox;   *)
(*   client    the sync coroutine (sync/ws_client.py), one WebSocket;      *)
(*   ingest    the cloud side (ingest/ws.py, ingest/batch.py): a reorder   *)
(*             buffer in memory in front of the replica's `events` table.  *)
(*                                                                         *)
(* A row is its sequence number and the timeline (gen) that wrote it: two  *)
(* rows with one number and different timelines differ in content, which   *)
(* is all that the ingest side's fingerprint comparison looks at.          *)
(***************************************************************************)
EXTENDS Integers, Sequences, FiniteSets

CONSTANTS
  MaxSeq,        \* the identity column of `events` hands out 1..MaxSeq
  MaxGen,        \* timelines: 1 plus the number of times the world is reseeded
  BatchSize,     \* rows per frame in normal mode           (BATCH_SIZE)
  CatchupBatch,  \* rows per frame in catch-up mode         (CATCHUP_BATCH)
  CatchupWindow, \* unacknowledged frames in catch-up mode  (CATCHUP_WINDOW)
  Window,        \* how far ahead of max(seq)+1 the ingest side buffers
  Lag,           \* a sim_time regression beyond this is a new timeline
  Origin,        \* sim_time at which each timeline starts
  GapKinds,      \* what may become of a number besides a row that is sent
  SingleWriter,  \* TRUE: rows become visible in the order of their numbers
  SurvivalModes, \* {FALSE}: a reseed clears sync_state, {TRUE}: it stays
  MaxFaults,     \* bound on disconnects, kernel crashes, ingest restarts
  MaxRestores    \* bound on restores of the replica from an older backup

ASSUME BoundsAssumption ==
  /\ {MaxSeq, MaxGen, BatchSize, CatchupBatch, CatchupWindow} \subseteq Nat \ {0}
  /\ {Window, Lag, MaxFaults, MaxRestores} \subseteq Nat
  /\ Origin \in [1..MaxGen -> Nat]

ASSUME ChoicesAssumption ==
  /\ GapKinds \subseteq {"blocked", "void"}
  /\ SingleWriter \in BOOLEAN
  /\ SurvivalModes \in (SUBSET BOOLEAN) \ {{}}

VARIABLES
  gen,      \* the kernel's current timeline
  row,      \* row[s]: what the kernel's table holds under number s
  acked,    \* sync_state.last_acked_seq, persistent
  phase,    \* where the sync coroutine stands
  cursor,   \* SyncClient._cursor_seq, lost in a crash
  buffer,   \* SyncClient._pending_events, lost in a crash
  inFlight, \* _catchup: last numbers of the frames not acknowledged yet
  budget,   \* _catchup: backlog - sent
  toCloud,  \* frames on the WebSocket, client to ingest
  toKernel, \* frames on the WebSocket, ingest to client
  replica,  \* replica[s]: timeline of the row stored under s, 0 if none
  pending,  \* BatchBuffer._pending
  job,      \* the BatchBuffer.submit call being executed
  faults, restores   \* how many faults and restores there have been

kernelVars == <<gen, row>>
clientVars == <<acked, phase, cursor, buffer, inFlight, budget>>
cloudVars  == <<replica, pending, job>>
faultVars  == <<faults, restores>>
vars == <<kernelVars, clientVars, toCloud, toKernel, cloudVars, faultVars>>

Seqs == 1..MaxSeq
Gens == 1..MaxGen

(***************************************************************************)
(* Rows and batches.                                                       *)
(***************************************************************************)
\* "open": number taken by an INSERT that has not committed; "out": committed,
\* to be sent; "blocked": committed, never sent; "void": the INSERT failed.
RowState == {"none", "open", "out", "blocked", "void"}

\* COALESCE(max(seq), 0)
Top(S) == IF \E m \in S : \A n \in S : n <= m
            THEN CHOOSE m \in S : \A n \in S : n <= m
            ELSE 0

Batch == [rows : (SUBSET Seqs) \ {{}}, gen : Gens]
NoBatch == [rows |-> {}, gen |-> 0]
From(b) == CHOOSE m \in b.rows : \A n \in b.rows : m <= n

Out == {s \in Seqs : row[s] = "out"}
Committed == {s \in Seqs : row[s] \in {"out", "blocked"}}

\* fetch_events_after: the first `limit` rows to send with seq > after
FetchAfter(after, limit) ==
  {s \in Out : s > after /\ Cardinality({t \in Out : after < t /\ t < s}) < limit}

Stored == {s \in Seqs : replica[s] # 0}
MaxStored == Top(Stored)

\* fs <= max(seq) + 1, said of the batch's rows: the first one is that low
\* when some row is.
Contiguous(b) == \E r \in b.rows : r = 1 \/ \E s \in Stored : r <= s + 1

SimTime(g, s) == Origin[g] + s
SimTimeRegressed(b) ==
  \E s \in Stored : SimTime(b.gen, Top(b.rows)) < SimTime(replica[s], s) - Lag

Conflicts(b) == \E s \in b.rows : replica[s] \notin {0, b.gen}

(***************************************************************************)
(* Frames and the cloud's reply to the connection it came from.            *)
(***************************************************************************)
Hello == [frame |-> "hello"]
BatchFrame(b) == [frame |-> "batch", batch |-> b]
HelloAck(max) == [frame |-> "hello_ack", max |-> max]
Ack(upto, reset) == [frame |-> "ack", upto |-> upto, reset |-> reset]
Nack(expected) == [frame |-> "nack", expected |-> expected]

Frames == {Hello} \cup [frame : {"batch"}, batch : Batch]
Replies == [frame : {"hello_ack"}, max : 0..MaxSeq]
             \cup [frame : {"ack"}, upto : 0..MaxSeq, reset : BOOLEAN]
             \cup [frame : {"nack"}, expected : 1..(MaxSeq + 1)]

IdleJob == [busy |-> FALSE, batch |-> NoBatch, reset |-> FALSE, live |-> FALSE]
Reply(msg) == toKernel' = IF job.busy => job.live THEN Append(toKernel, msg) ELSE toKernel

TypeOK ==
  /\ gen \in Gens
  /\ row \in [Seqs -> RowState]
  /\ acked \in 0..MaxSeq
  /\ phase \in {"down", "hello", "idle", "normal", "wait", "catchup"}
  /\ cursor \in 0..MaxSeq
  /\ buffer \in SUBSET Seqs
  /\ inFlight \in SUBSET Seqs
  /\ budget \in Int
  /\ toCloud \in Seq(Frames)
  /\ toKernel \in Seq(Replies)
  /\ replica \in [Seqs -> 0..MaxGen]
  /\ pending \in SUBSET Batch
  /\ job \in [busy : BOOLEAN, batch : Batch \cup {NoBatch}, reset : BOOLEAN, live : BOOLEAN]
  /\ job.busy => job.batch \in Batch
  /\ faults \in 0..MaxFaults /\ restores \in 0..MaxRestores

Init ==
  /\ gen = 1 /\ row = [s \in Seqs |-> "none"]
  /\ acked = 0 /\ phase = "down" /\ cursor = 0 /\ buffer = {}
  /\ inFlight = {} /\ budget = 0
  /\ toCloud = <<>> /\ toKernel = <<>>
  /\ replica = [s \in Seqs |-> 0] /\ pending = {} /\ job = IdleJob
  /\ faults = 0 /\ restores = 0

(***************************************************************************)
(* The kernel's coroutines append events: an INSERT takes the next number, *)
(* then commits (or not).  With SingleWriter one INSERT runs at a time;    *)
(* otherwise two connections of the pool may commit in either order.       *)
(***************************************************************************)
TakeNumber(s) ==
  /\ row[s] = "none" /\ \A t \in Seqs : t < s => row[t] # "none"
  /\ SingleWriter => \A t \in Seqs : row[t] # "open"
  /\ row' = [row EXCEPT ![s] = "open"]
  /\ UNCHANGED <<gen, clientVars, toCloud, toKernel, cloudVars, faultVars>>

FinishInsert(s, kind) ==
  /\ row[s] = "open" /\ kind \in {"out"} \cup GapKinds
  /\ row' = [row EXCEPT ![s] = kind]
  /\ UNCHANGED <<gen, clientVars, toCloud, toKernel, cloudVars, faultVars>>

(***************************************************************************)
(* The sync coroutine: connecting.                                         *)
(***************************************************************************)
\* connect() before the socket is opened: max of memory and sync_state, or 0
\* when that is ahead of the kernel's own table.
ResumePoint ==
  LET c == IF cursor >= acked THEN cursor ELSE acked
  IN  IF c > Top(Committed) THEN 0 ELSE c

Connect ==
  /\ phase = "down"
  /\ cursor' = ResumePoint
  /\ phase' = "hello" /\ toCloud' = <<Hello>> /\ toKernel' = <<>>
  /\ UNCHANGED <<kernelVars, acked, buffer, inFlight, budget, cloudVars, faultVars>>

ConnectFails ==
  /\ phase = "down" /\ cursor' = ResumePoint
  /\ UNCHANGED <<kernelVars, acked, phase, buffer, inFlight, budget, toCloud, toKernel,
                 cloudVars, faultVars>>

ReceiveHelloAck ==
  /\ phase = "hello" /\ toKernel # <<>> /\ Head(toKernel).frame = "hello_ack"
  /\ cursor' = IF Head(toKernel).max < cursor THEN Head(toKernel).max ELSE cursor
  /\ phase' = "idle" /\ toKernel' = Tail(toKernel)
  /\ UNCHANGED <<kernelVars, acked, buffer, inFlight, budget, toCloud, cloudVars, faultVars>>

(***************************************************************************)
(* sync_once: the backlog picks catch-up mode or the batching of normal    *)
(* mode, where rows wait in the buffer until it is full or its window of   *)
(* two seconds has passed.                                                 *)
(***************************************************************************)
Backlog == Cardinality({s \in Committed : s > cursor})

\* Mutant: the buffer is topped up from one number too far.
BufferedSkipping ==
  buffer \cup FetchAfter(IF buffer = {} THEN cursor ELSE Top(buffer) + 1,
                         BatchSize - Cardinality(buffer))

Buffered ==
  buffer \cup FetchAfter(IF buffer = {} THEN cursor ELSE Top(buffer),
                         BatchSize - Cardinality(buffer))

\* The backlog is read once, before the first batch of a cycle.
NormalMode == phase = "normal" \/ (phase = "idle" /\ Backlog <= CatchupBatch)

Hold ==
  /\ NormalMode /\ Cardinality(Buffered) < BatchSize
  /\ buffer' = Buffered /\ phase' = "idle"
  /\ UNCHANGED <<kernelVars, acked, cursor, inFlight, budget, toCloud, toKernel,
                 cloudVars, faultVars>>

SendBatch ==
  /\ NormalMode /\ Buffered # {}
  /\ toCloud' = Append(toCloud, BatchFrame([rows |-> Buffered, gen |-> gen]))
  /\ buffer' = {} /\ phase' = "wait"
  /\ UNCHANGED <<kernelVars, acked, cursor, inFlight, budget, toKernel, cloudVars, faultVars>>

\* _handle_reply
HandleAck(r) ==
  IF r.reset
    THEN cursor' = 0 /\ acked' = 0
    ELSE /\ cursor' = IF r.upto > cursor THEN r.upto ELSE cursor
         /\ acked' = r.upto

\* Mutant: one number too far back, and not clamped at 0.
HandleNackTooFar(r) ==
  /\ cursor' = IF r.expected - 2 < cursor THEN r.expected - 2 ELSE cursor
  /\ acked' = acked

HandleNack(r) ==
  /\ cursor' = IF r.expected - 1 < cursor THEN r.expected - 1 ELSE cursor
  /\ acked' = acked

ReceiveReply ==
  /\ phase = "wait" /\ toKernel # <<>>
  /\ \/ Head(toKernel).frame = "ack" /\ HandleAck(Head(toKernel)) /\ phase' = "normal"
     \/ Head(toKernel).frame = "nack" /\ HandleNack(Head(toKernel)) /\ phase' = "idle"
  /\ toKernel' = Tail(toKernel)
  /\ UNCHANGED <<kernelVars, buffer, inFlight, budget, toCloud, cloudVars, faultVars>>

(***************************************************************************)
(* _catchup: the window is filled, then one reply is read.                 *)
(***************************************************************************)
StartCatchup ==
  /\ phase = "idle" /\ Backlog > CatchupBatch
  /\ phase' = "catchup" /\ budget' = Backlog /\ inFlight' = {}
  /\ UNCHANGED <<kernelVars, acked, cursor, buffer, toCloud, toKernel, cloudVars, faultVars>>

NextCatchupRows == FetchAfter(cursor, CatchupBatch)
CanSend ==
  budget > 0 /\ Cardinality(inFlight) < CatchupWindow /\ NextCatchupRows # {}

CatchupSend ==
  /\ phase = "catchup" /\ CanSend
  /\ toCloud' = Append(toCloud, BatchFrame([rows |-> NextCatchupRows, gen |-> gen]))
  /\ inFlight' = inFlight \cup {Top(NextCatchupRows)}
  /\ cursor' = Top(NextCatchupRows)
  /\ budget' = budget - Cardinality(NextCatchupRows)
  /\ UNCHANGED <<kernelVars, acked, phase, buffer, toKernel, cloudVars, faultVars>>

CatchupReceive ==
  /\ phase = "catchup" /\ ~CanSend /\ inFlight # {} /\ toKernel # <<>>
  /\ LET r == Head(toKernel) IN
       \/ /\ r.frame = "ack" /\ HandleAck(r)
          /\ inFlight' = IF r.reset THEN {} ELSE {to \in inFlight : to > r.upto}
          /\ phase' = phase
       \/ /\ r.frame = "nack" /\ HandleNack(r)
          /\ inFlight' = {} /\ phase' = "idle"
  /\ toKernel' = Tail(toKernel)
  /\ UNCHANGED <<kernelVars, buffer, budget, toCloud, cloudVars, faultVars>>

EndCatchup ==
  /\ phase = "catchup" /\ ~CanSend /\ inFlight = {}
  /\ phase' = "idle"
  /\ UNCHANGED <<kernelVars, acked, cursor, buffer, inFlight, budget, toCloud, toKernel,
                 cloudVars, faultVars>>

\* run_forever's except branch: the socket is closed, what was on it is lost;
\* a submit() in progress on the ingest side runs to its end unheard.
CloseConnection ==
  /\ phase' = "down" /\ toCloud' = <<>> /\ toKernel' = <<>>
  /\ inFlight' = {} /\ budget' = 0

\* _recv times out: every reply has been read and a frame is still in flight.
ReceiveTimeout ==
  /\ phase = "catchup" /\ ~CanSend /\ inFlight # {}
  /\ toKernel = <<>> /\ toCloud = <<>> /\ ~job.busy
  /\ CloseConnection
  /\ UNCHANGED <<kernelVars, acked, cursor, buffer, cloudVars, faultVars>>

(***************************************************************************)
(* The ingest side.  submit() is several transactions: each step below is  *)
(* one of them, and its connection may be gone before the last.            *)
(***************************************************************************)
AnswerHello ==
  /\ ~job.busy /\ toCloud # <<>> /\ Head(toCloud).frame = "hello"
  /\ toCloud' = Tail(toCloud) /\ Reply(HelloAck(MaxStored))
  /\ UNCHANGED <<kernelVars, clientVars, cloudVars, faultVars>>

\* self._pending[from_seq] = ...: a batch replaces the one with its number
PutPending(b) == {p \in pending : From(p) # From(b)} \cup {b}

BeyondWindow(b, expected) == From(b) > expected + Window

\* The first half of submit: order check, then into the buffer.
ReceiveBatch ==
  /\ ~job.busy /\ toCloud # <<>> /\ Head(toCloud).frame = "batch"
  /\ LET b == Head(toCloud).batch IN
       /\ ~SimTimeRegressed(b)
       /\ \/ /\ BeyondWindow(b, MaxStored + 1)
             /\ Reply(Nack(MaxStored + 1))
             /\ UNCHANGED <<pending, job>>
          \/ /\ ~BeyondWindow(b, MaxStored + 1)
             /\ pending' = PutPending(b)
             /\ job' = [busy |-> TRUE, batch |-> b, reset |-> FALSE, live |-> TRUE]
             /\ UNCHANGED toKernel
  /\ toCloud' = Tail(toCloud)
  /\ UNCHANGED <<kernelVars, clientVars, replica, faultVars>>

\* The batch the flush loop takes next: the lowest one that is contiguous.
Flushable(b) ==
  /\ b \in pending /\ Contiguous(b)
  /\ \A p \in pending : From(b) <= From(p)

\* Mutant: ON CONFLICT DO NOTHING without the comparison of contents.
FlushDoNothing(b) ==
  /\ job.busy /\ Flushable(b)
  /\ replica' = [s \in Seqs |-> IF s \in b.rows /\ replica[s] = 0 THEN b.gen ELSE replica[s]]
  /\ pending' = pending \ {b}
  /\ UNCHANGED <<kernelVars, clientVars, toCloud, toKernel, job, faultVars>>

Flush(b) ==
  /\ job.busy /\ Flushable(b) /\ ~Conflicts(b)
  /\ replica' = [s \in Seqs |-> IF s \in b.rows THEN b.gen ELSE replica[s]]
  /\ pending' = pending \ {b}
  /\ UNCHANGED <<kernelVars, clientVars, toCloud, toKernel, job, faultVars>>

\* Mutant: the frame is acknowledged, not what the replica holds.
SendAckOfFrame ==
  /\ job.busy /\ \A b \in pending : ~Flushable(b)
  /\ Reply(Ack(Top(job.batch.rows), job.reset)) /\ job' = IdleJob
  /\ UNCHANGED <<kernelVars, clientVars, toCloud, replica, pending, faultVars>>

SendAck ==
  /\ job.busy /\ \A b \in pending : ~Flushable(b)
  /\ Reply(Ack(MaxStored, job.reset)) /\ job' = IdleJob
  /\ UNCHANGED <<kernelVars, clientVars, toCloud, replica, pending, faultVars>>

\* except TimelineDiverged: the replica and the buffer are emptied and batch b
\* is submitted again, against an empty table (expected = 1).
Rebuild(b, live) ==
  /\ replica' = [s \in Seqs |-> 0]
  /\ IF BeyondWindow(b, 1)
       THEN pending' = {} /\ job' = IdleJob /\ Reply(Nack(1))
       ELSE /\ pending' = {b} /\ UNCHANGED toKernel
            /\ job' = [busy |-> TRUE, batch |-> b, reset |-> TRUE, live |-> live]

RebuildOnConflict ==
  /\ job.busy /\ \E b \in pending : Flushable(b) /\ Conflicts(b)
  /\ Rebuild(job.batch, job.live)
  /\ UNCHANGED <<kernelVars, clientVars, toCloud, faultVars>>

RebuildOnRegression ==
  /\ ~job.busy /\ toCloud # <<>> /\ Head(toCloud).frame = "batch"
  /\ SimTimeRegressed(Head(toCloud).batch)
  /\ Rebuild(Head(toCloud).batch, TRUE)
  /\ toCloud' = Tail(toCloud)
  /\ UNCHANGED <<kernelVars, clientVars, faultVars>>

(***************************************************************************)
(* Faults.                                                                 *)
(***************************************************************************)
Orphan == job' = [job EXCEPT !.live = FALSE]

Disconnect ==
  /\ faults < MaxFaults /\ phase # "down"
  /\ faults' = faults + 1 /\ CloseConnection /\ Orphan
  /\ UNCHANGED <<kernelVars, acked, cursor, buffer, replica, pending, restores>>

\* The kernel process dies and is started again: what SyncClient keeps in
\* memory is gone; an INSERT in progress is rolled back, its number stays void.
ForgetMemory == cursor' = 0 /\ buffer' = {}

KernelCrash ==
  /\ faults < MaxFaults /\ faults' = faults + 1
  /\ (\E s \in Seqs : row[s] = "open") => "void" \in GapKinds
  /\ CloseConnection /\ Orphan /\ ForgetMemory
  /\ row' = [s \in Seqs |-> IF row[s] = "open" THEN "void" ELSE row[s]]
  /\ UNCHANGED <<gen, acked, replica, pending, restores>>

IngestRestart ==
  /\ faults < MaxFaults /\ faults' = faults + 1
  /\ CloseConnection /\ pending' = {} /\ job' = IdleJob
  /\ UNCHANGED <<kernelVars, acked, cursor, buffer, replica, restores>>

\* The replica comes back from a backup taken when it ended at row s.
ReplicaRestore(s) ==
  /\ restores < MaxRestores /\ restores' = restores + 1 /\ s < MaxStored
  /\ CloseConnection /\ pending' = {} /\ job' = IdleJob
  /\ replica' = [t \in Seqs |-> IF t <= s THEN replica[t] ELSE 0]
  /\ UNCHANGED <<kernelVars, acked, cursor, buffer, faults>>

\* The world is started over while the kernel is stopped: numbers restart at
\* 1, and sync_state is cleared or left behind.
Reseed(survives) ==
  /\ gen < MaxGen /\ gen' = gen + 1
  /\ row' = [s \in Seqs |-> "none"]
  /\ acked' = IF survives THEN acked ELSE 0
  /\ CloseConnection /\ Orphan /\ ForgetMemory
  /\ UNCHANGED <<replica, pending, faultVars>>

-----------------------------------------------------------------------------
Kernel == \E s \in Seqs : TakeNumber(s) \/ \E k \in RowState : FinishInsert(s, k)

Client ==
  \/ Connect \/ ConnectFails \/ ReceiveHelloAck
  \/ Hold \/ SendBatch \/ ReceiveReply
  \/ StartCatchup \/ CatchupSend \/ CatchupReceive \/ EndCatchup \/ ReceiveTimeout

Ingest ==
  \/ AnswerHello \/ ReceiveBatch \/ SendAck
  \/ \E b \in pending : Flush(b)
  \/ RebuildOnConflict \/ RebuildOnRegression

Environment ==
  \/ Disconnect \/ KernelCrash \/ IngestRestart
  \/ \E s \in 0..MaxSeq : ReplicaRestore(s)
  \/ \E survives \in SurvivalModes : Reseed(survives)

Next == Kernel \/ Client \/ Ingest \/ Environment

Spec == Init /\ [][Next]_vars

\* The coroutine and the ingest handlers never stop for good while there is
\* something to do; an INSERT ends; the network comes back (faults are finite).
Fairness ==
  /\ \A s \in Seqs : WF_vars(\E k \in RowState : FinishInsert(s, k))
  /\ WF_vars(Connect) /\ WF_vars(ReceiveHelloAck)
  /\ WF_vars(SendBatch) /\ WF_vars(ReceiveReply)
  /\ WF_vars(StartCatchup) /\ WF_vars(CatchupSend) /\ WF_vars(CatchupReceive)
  /\ WF_vars(EndCatchup) /\ WF_vars(ReceiveTimeout)
  /\ WF_vars(Ingest)

FairSpec == Spec /\ Fairness

-----------------------------------------------------------------------------
(***************************************************************************)
(* Properties.                                                             *)
(***************************************************************************)

\* Readers of the replica never see a row while an earlier row that was to be
\* sent is absent: the reorder buffer, overlapping resends and pipelined
\* catch-up may repeat or delay rows but open no hole (BatchBuffer.submit).
NoHoles ==
  \A s, t \in Seqs :
    (s < t /\ s \in Out /\ replica[t] = gen) => replica[s] # 0

\* The position the kernel has written to sync_state stands for rows that the
\* replica has committed: nothing at or below it is ever fetched again.
AckedIsStored == \A s \in Out : s <= acked => replica[s] # 0

\* On one timeline all of this machinery copies a log: rows are appended, the
\* replica is always a beginning of the log and loses rows only by a restore,
\* the persistent position moves only to rows that are stored, and while no
\* restore lost any, no acknowledgement of a resent or overtaken frame moves
\* it back (SyncClient, BatchBuffer).
Log == INSTANCE LogCopy WITH
  Numbers <- Seqs, MaxLosses <- MaxRestores,
  log <- Out, copy <- Stored, safe <- acked, lost <- restores
CopiesTheLog == Log!LogSpec

\* The replica never shows two worlds at once.
OneTimeline == \A s, t \in Stored : replica[s] = replica[t]

\* After a rebuild the ingest side has nothing left to conflict with: the
\* second submit of the same batch cannot diverge again (the code would raise).
RebuildConflictFree ==
  job.busy /\ job.reset => \A b \in pending : ~Conflicts(b)

\* In the end the replica holds every row that was to be sent, as this world
\* wrote it, whatever was lost, restarted or restored on the way.
ReplicaConverges ==
  <>[](\A s \in Seqs : row[s] = "out" => replica[s] = gen)

(***************************************************************************)
(* What one timeline keeps to while rows become visible in order.          *)
(***************************************************************************)
\* A set of rows of the table with none of the table missing in between.
Interval(R, table) ==
  /\ R \subseteq table
  /\ \A s, t \in R, u \in table : s < u /\ u < t => u \in R

NumbersInOrder ==
  \A s, t \in Seqs : s < t /\ row[s] \in {"none", "open"} => row[t] = "none"

IntervalsTravel ==
  /\ Interval(buffer, Out)
  /\ \A i \in DOMAIN toCloud :
       toCloud[i].frame = "batch" => Interval(toCloud[i].batch.rows, Out)
  /\ \A b \in pending : Interval(b.rows, Out)
  /\ job.busy => Interval(job.batch.rows, Out)

StoredIsPrefix ==
  Stored \subseteq Out /\ \A s \in Out, t \in Stored : s < t => s \in Stored

\* Batches travel, wait and are stored as intervals of the table, and what is
\* stored is a prefix of it: the inductive form of NoHoles.
SyncInv == NumbersInOrder /\ IntervalsTravel /\ StoredIsPrefix

\* Every position on its way to the kernel, and while the replica was never
\* restored the one recorded, is 0 or a row stored: the inductive form of
\* AckedIsStored.
AckInv ==
  /\ restores = 0 => acked \in {0} \cup Stored
  /\ \A i \in DOMAIN toKernel :
       toKernel[i].frame = "ack" => toKernel[i].upto \in {0} \cup Stored

\* The acknowledgements on the connection ascend, before any restore from the
\* position recorded, and none of them tells of a reset: the inductive form of CopiesTheLog.
AcksInOrder ==
  /\ ~job.reset
  /\ \A i \in DOMAIN toKernel :
       toKernel[i].frame = "ack" =>
         /\ ~toKernel[i].reset /\ (restores = 0 => acked <= toKernel[i].upto)
         /\ \A j \in DOMAIN toKernel :
              i < j /\ toKernel[j].frame = "ack" => toKernel[i].upto <= toKernel[j].upto

(***************************************************************************)
(* What several worlds keep to while rows become visible in order and none *)
(* is missing.                                                             *)
(***************************************************************************)
\* The ingest side is storing a batch of the kernel's world.
AtWork == job.busy /\ job.batch.gen = gen

\* Nothing of the kernel's world has come through yet.
Fresh == ~AtWork /\ \A s \in Seqs : replica[s] # gen

\* A frame of the world that is stored is not taken for one of another (batch.py, 247).
FramesAdvance ==
  toCloud # <<>> /\ Head(toCloud).frame = "batch" =>
    LET b == Head(toCloud).batch
    IN  \A s \in Stored : replica[s] = b.gen => s <= Top(b.rows) + Lag

\* While nothing of a world has come through, a new connection sends it from its first row on.
StartsAfresh ==
  phase = "down" /\ Fresh => ResumePoint = 0 /\ (buffer = {} \/ 1 \in buffer)

OutIsPrefix == NumbersInOrder /\ \A s \in Seqs : row[s] \in {"none", "open", "out"}
StoredIsBeginning == \A t \in Stored, s \in Seqs : s < t => s \in Stored

\* Batches are runs of numbers, those on the socket of the kernel's world.
RunsTravel ==
  /\ Interval(buffer, Out)
  /\ \A i \in DOMAIN toCloud : toCloud[i].frame = "batch" =>
       Interval(toCloud[i].batch.rows, Seqs) /\ toCloud[i].batch.gen = gen
  /\ \A b \in pending : Interval(b.rows, Seqs)
  /\ job.busy => Interval(job.batch.rows, Seqs)

\* What is stored is no younger than what is being stored, nor that than the kernel's world.
Ages ==
  /\ \A s \in Seqs : replica[s] <= gen
  /\ job.busy => /\ job.batch.gen <= gen /\ (job.live => job.batch.gen = gen)
                 /\ \A s \in Seqs : replica[s] <= job.batch.gen

\* Only the batch being stored may be of another world than the rows stored, and then it
\* begins with the first row.
OfStored(b) == Stored # {} /\ \A s \in Stored : replica[s] = b.gen
PendingFits == \A b \in pending : OfStored(b) \/ (job.busy /\ b = job.batch /\ 1 \in b.rows)
JobIsPending == job.busy => job.batch \in pending \/ OfStored(job.batch)

\* While nothing of the kernel's world has come through, nothing was acknowledged, and the
\* first batch on the socket, or the next to be sent, begins with the first row.
NoBatchBefore(i) == \A j \in DOMAIN toCloud : j < i => toCloud[j].frame # "batch"
BeginsWithFirst ==
  /\ \A i \in DOMAIN toKernel : toKernel[i].frame = "hello_ack"
  /\ \A i \in DOMAIN toCloud :
       toCloud[i].frame = "batch" /\ NoBatchBefore(i) => 1 \in toCloud[i].batch.rows
  /\ phase # "down" /\ (\A i \in DOMAIN toCloud : toCloud[i].frame # "batch") =>
       cursor = 0 /\ (buffer = {} \/ 1 \in buffer)
FirstRowFirst == (phase = "down" => toCloud = <<>>) /\ (Fresh => BeginsWithFirst)

\* The inductive form of OneTimeline.
WorldInv ==
  /\ OutIsPrefix /\ StoredIsBeginning /\ RunsTravel /\ Ages /\ OneTimeline
  /\ PendingFits /\ JobIsPending /\ FirstRowFirst

=============================================================================
