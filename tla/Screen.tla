------------------------------- MODULE Screen -------------------------------
(***************************************************************************)
(* The observer's WebSocket, /ws (observe/ws.py, observe/state_diff.py),   *)
(* and the viewer at its other end (web/src/ws/manager.ts with its stores; *)
(* stream/js/lib/ws-client.js behaves the same where it matters here).     *)
(*                                                                         *)
(* A viewer says hello, with the highest seq it holds if it holds one.     *)
(* The server replays what it lacks, welcomes it, and once it subscribes   *)
(* polls the events every half second and pushes them, with a difference   *)
(* of the world's state derived from each batch.  A viewer further behind  *)
(* than the ring is told to rebuild from a snapshot instead.               *)
(*                                                                         *)
(* Every event here is a move of one resident, so the place shown is named *)
(* by the move that led there.  The table of events belongs to the         *)
(* replica's ingestion (EventSync, Replica); here it only grows, in the    *)
(* order of seq.  Frames on one connection keep their order; a connection  *)
(* that breaks loses those under way.  The ring of events itself is        *)
(* written and never read: its capacity alone decides.                     *)
(***************************************************************************)
EXTENDS Integers, Sequences, SequencesExt, FiniteSetsExt

CONSTANTS MaxStored,    \* bound on the events stored
          PerTick,      \* events to a tick of the simulation
          RingCap,      \* RING_CAPACITY: the longest gap that is replayed
          PollBatch,    \* BATCH_LIMIT: the most events one poll pushes
          Capacity,     \* TIMELINE_CAPACITY: the most events the timeline holds
          Page,         \* events the map page asks for when the timeline is empty
          MaxBreaks     \* bound on the connections that break and the pushes that fail

ASSUME ScreenAssumption ==
  /\ {MaxStored, MaxBreaks} \subseteq Nat
  /\ {PerTick, RingCap, PollBatch, Capacity, Page} \subseteq Nat \ {0}
  /\ Page <= Capacity

VARIABLES
  stored,    \* the highest seq of obs.events
  serve,     \* what the server's handler of the connection is at
  knownMax,  \* max(seq) as _resume read it
  cursor,    \* last_seq of the connection; of its hello, until that is handled
  ask,       \* the client frame under way
  wire,      \* the server frames under way, in order
  held,      \* the seqs in the viewer's timeline
  latestSeq, \* the viewer's latestSeq
  shown,     \* the viewer's world: the move it shows, and its tick
  since,     \* ghost: the viewer is owed every event after this one
  skipped,   \* ghost: the events whose push failed
  breaks     \* connections broken and pushes failed so far

screenVars ==
  <<stored, serve, knownMax, cursor, ask, wire, held, latestSeq, shown, since, skipped, breaks>>

ServerSteps == {"none", "accepted", "resuming", "unwelcome", "welcomed", "polling"}

TickOf(seq) == (seq + PerTick - 1) \div PerTick

Event(seq) == [op |-> "event", seq |-> seq]
Welcome == [op |-> "welcome", seq |-> 0]
Resync == [op |-> "resync_required", seq |-> 0]

\* derive_state_diff on a batch: the latest move of it, under the tick of its last event.
Diff(to) == [op |-> "state_diff", seq |-> to]

FetchEventsAfter(last, limit) ==
  LET to == IF stored < last + limit THEN stored ELSE last + limit
  IN [i \in 1..(IF to > last THEN to - last ELSE 0) |-> Event(last + i)]

-----------------------------------------------------------------------------
(* The server's end.                                                       *)

\* A hello without last_seq starts at the end of the table.
HelloFresh ==
  /\ serve = "accepted" /\ ask = "hello" /\ cursor = 0
  /\ cursor' = stored /\ since' = stored
  /\ wire' = Append(wire, Welcome)
  /\ serve' = "welcomed" /\ ask' = "none"
  /\ UNCHANGED <<stored, knownMax, held, latestSeq, shown, skipped, breaks>>

\* _resume up to its first answer from the database.  Behind by more than the ring,
\* the viewer is told so and the handler goes back to waiting for a frame.
HelloResume ==
  /\ serve = "accepted" /\ ask = "hello" /\ cursor > 0
  /\ ask' = "none" /\ knownMax' = stored
  /\ IF stored - cursor > RingCap
       THEN serve' = "unwelcome" /\ wire' = Append(wire, Resync)
       ELSE serve' = "resuming" /\ wire' = wire
  /\ UNCHANGED <<stored, cursor, held, latestSeq, shown, since, skipped, breaks>>

\* The rest of _resume: the rows are fetched anew, without an upper bound, and the
\* connection goes on from the maximum read before.
ResumedFrom == IF knownMax > cursor THEN knownMax ELSE cursor

SendGap ==
  /\ serve = "resuming"
  /\ wire' = Append(wire \o FetchEventsAfter(cursor, RingCap), Welcome)
  /\ cursor' = ResumedFrom
  /\ serve' = "welcomed"
  /\ UNCHANGED <<stored, knownMax, ask, held, latestSeq, shown, since, skipped, breaks>>

Subscribe ==
  /\ serve = "welcomed" /\ ask = "subscribe"
  /\ serve' = "polling" /\ ask' = "none"
  /\ UNCHANGED <<stored, knownMax, cursor, wire, held, latestSeq, shown, since, skipped, breaks>>

\* Mutant: the poll goes on from the end of the table and not of its batch.
PolledToTheEnd(batch) == stored

PolledTo(batch) == Last(batch).seq

\* One turn of poll_loop that finds something.
Poll ==
  LET batch == FetchEventsAfter(cursor, PollBatch)
  IN /\ serve = "polling" /\ batch # <<>>
     /\ wire' = Append(wire \o batch, Diff(Last(batch).seq))
     /\ cursor' = PolledTo(batch)
     /\ UNCHANGED <<stored, serve, knownMax, ask, held, latestSeq, shown, since, skipped, breaks>>

\* A push that fails ends the turn.  Its event is behind the cursor, and the next turn goes
\* on after it.
PollFails ==
  /\ serve = "polling" /\ breaks < MaxBreaks
  /\ \E n \in 0..(PollBatch - 1) :
       /\ cursor + n < stored
       /\ wire' = wire \o FetchEventsAfter(cursor, n)
       /\ cursor' = cursor + n + 1 /\ skipped' = skipped \cup {cursor + n + 1}
  /\ breaks' = breaks + 1
  /\ UNCHANGED <<stored, serve, knownMax, ask, held, latestSeq, shown, since>>

\* The watchdog closes a connection that has been silent for 90 seconds: the viewer
\* pings only once welcomed, and by then every frame under way has long arrived.
Watchdog ==
  /\ serve = "unwelcome" /\ wire = <<>>
  /\ serve' = "none"
  /\ UNCHANGED <<stored, knownMax, cursor, ask, wire, held, latestSeq, shown, since, skipped, breaks>>

-----------------------------------------------------------------------------
(* The viewer's end.                                                       *)

\* connect, after the backoff, and the hello its onopen sends.
Connect ==
  /\ serve = "none"
  /\ serve' = "accepted" /\ ask' = "hello" /\ cursor' = latestSeq
  /\ UNCHANGED <<stored, knownMax, wire, held, latestSeq, shown, since, skipped, breaks>>

\* insertEventsBySeq of one event: over the capacity the oldest goes, the new one if need be.
Taken(frame) ==
  LET merged == held \cup {frame.seq}
  IN IF Cardinality(merged) > Capacity THEN merged \ {Min(merged)} ELSE merged

\* The map page, opened on an empty timeline, asks for the newest events over REST.  From
\* then on the viewer is owed what comes after the page.
Backfill ==
  LET first == IF stored > Page THEN stored - Page ELSE 0
  IN /\ held = {} /\ stored > 0
     /\ held' = (first + 1)..stored /\ latestSeq' = stored
     /\ since' = IF first > since THEN first ELSE since
     /\ UNCHANGED <<stored, serve, knownMax, cursor, ask, wire, shown, skipped, breaks>>

\* applyStateDiffToAgents: a difference not newer than the tick shown is dropped.
Applied(frame) ==
  IF TickOf(frame.seq) > shown.tick
    THEN [move |-> frame.seq, tick |-> TickOf(frame.seq)]
    ELSE shown

\* truncateTimelineForSnapshot: what is older than the snapshot's tick goes.
Truncated == {h \in held : TickOf(h) >= TickOf(stored)}

\* handle: one frame.  A welcome is answered by subscribing; resync_required rebuilds
\* the world from a snapshot and touches neither latestSeq nor the connection.
Receive ==
  /\ wire # <<>>
  /\ wire' = Tail(wire)
  /\ LET frame == Head(wire)
     IN /\ held' = CASE frame.op = "event" -> Taken(frame)
                     [] frame.op = "resync_required" -> Truncated
                     [] OTHER -> held
        /\ latestSeq' = IF frame.op = "event" THEN Max(Taken(frame)) ELSE latestSeq
        /\ since' = IF frame.op = "resync_required" THEN stored ELSE since
        /\ ask' = IF frame.op = "welcome" THEN "subscribe" ELSE ask
        /\ shown' = CASE frame.op = "state_diff" -> Applied(frame)
                      [] frame.op = "resync_required" ->
                           [move |-> stored, tick |-> TickOf(stored)]
                      [] OTHER -> shown
  /\ UNCHANGED <<stored, serve, knownMax, cursor, skipped, breaks>>

-----------------------------------------------------------------------------
\* The replica stores the next event.
Store ==
  /\ stored < MaxStored
  /\ stored' = stored + 1
  /\ UNCHANGED <<serve, knownMax, cursor, ask, wire, held, latestSeq, shown, since, skipped, breaks>>

\* The connection breaks; what is under way is lost.
Break ==
  /\ serve # "none" /\ breaks < MaxBreaks
  /\ breaks' = breaks + 1
  /\ serve' = "none" /\ ask' = "none" /\ wire' = <<>>
  /\ UNCHANGED <<stored, knownMax, cursor, held, latestSeq, shown, since, skipped>>

\* The page is opened: a snapshot, then the connection.
ScreenInit ==
  /\ stored = 0 /\ serve = "none" /\ knownMax = 0 /\ cursor = 0
  /\ ask = "none" /\ wire = <<>> /\ held = {} /\ latestSeq = 0 /\ since = 0
  /\ skipped = {} /\ breaks = 0
  /\ shown = [move |-> 0, tick |-> 0]

ScreenServer == HelloFresh \/ HelloResume \/ SendGap \/ Subscribe \/ Poll \/ Watchdog

ScreenViewer == Connect \/ Receive

ScreenNext == ScreenServer \/ ScreenViewer \/ Backfill \/ PollFails \/ Store \/ Break

\* Both ends keep running; events come, connections break and pushes fail as they like.
ScreenSpec ==
  /\ ScreenInit /\ [][ScreenNext]_screenVars
  /\ WF_screenVars(ScreenServer) /\ WF_screenVars(ScreenViewer)

-----------------------------------------------------------------------------
\* Every variable of the observer keeps its type.
ScreenTypeOK ==
  /\ {stored, knownMax, cursor, latestSeq, since} \cup held \cup skipped \subseteq 0..MaxStored
  /\ Cardinality(held) <= Capacity
  /\ breaks \in 0..MaxBreaks
  /\ serve \in ServerSteps
  /\ ask \in {"none", "hello", "subscribe"}
  /\ \A i \in DOMAIN wire :
       /\ wire[i].op \in {"event", "state_diff", "welcome", "resync_required"}
       /\ wire[i].seq \in 0..MaxStored
  /\ shown.move \in 0..MaxStored /\ shown.tick = TickOf(shown.move)

\* An event that is not shown has failed in its push, or is older than all of a full timeline.
Retained(s) ==
  \/ s \in held \/ s \in skipped
  \/ Cardinality(held) = Capacity /\ \A h \in held : h > s

\* Resuming loses nothing: whatever broke and was replayed since the viewer's first
\* welcome (or rebuilding, or the map page's filling), its timeline holds every event from
\* there to its newest, but for those a full timeline let go and those whose own push failed.
\* Rows that arrive while _resume is between its two queries, a replay cut short and polls
\* that follow on a replay must all meet at the same seq.
TimelineIsWhole == \A s \in 1..latestSeq : s > since => Retained(s)

\* docs/design/03 9.1: after a long break the viewer rebuilds and is live again.  (The
\* comment in ws_endpoint waits for it to rebuild and say hello once more.)
ViewerGoesLive == []<>(serve = "polling")

\* The screen agrees with the town whenever nothing is under way.
ScreenIsCurrent ==
  serve = "polling" /\ wire = <<>> /\ cursor = stored => shown.move = stored

=============================================================================
