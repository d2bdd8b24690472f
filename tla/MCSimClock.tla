----------------------------- MODULE MCSimClock -----------------------------
(* Instances of SimClock for TLC: small days of a few units. *)
EXTENDS SimClock, FiniteSetsExt

Cont(i, r) == [mode |-> "continuous", id |-> i, ratio |-> r]
Night(i, h, n) == [mode |-> "batch", id |-> i, hours |-> h, minutes |-> 60 * n]

\* Two continuous segments of different ratio.
PlainDay == [u \in 0..3 |-> IF u < 2 THEN Cont(0, 1) ELSE Cont(1, 2)]

\* A continuous segment, a batch segment, a continuous segment.
ShortNight == [u \in 0..3 |-> IF u = 1 THEN Night(1, 8, 1) ELSE Cont(IF u = 0 THEN 0 ELSE 2, 1)]
LongNight == [u \in 0..5 |-> IF u = 0 THEN Cont(0, 2)
                             ELSE IF u < 4 THEN Night(1, 6, 3) ELSE Cont(2, 1)]

NoFaults == {}
OtherFaults == {"other"}
AllFaults == {"db", "other"}
DbFaults == {"db"}

(* What the documents say and the code does not keep; README names, for each,
   the settings under which TLC finds its counterexample. *)

\* Simulated time stands still while the clock is paused, whatever is done to
\* the anchor in the meantime (TimeEngine.pause, now_sim).
FrozenWhilePaused == [][up = "up" /\ up' = "up" /\ Paused /\ Paused' => NowSim' = NowSim]_vars

\* Once its write is through, a pause is in the row a restart reads.
PauseIsDurable ==
  (up = "up" /\ Paused /\ \A p \in Procs : write[p] = NoWrite) => saved.paused # None

\* The hooks of a batch (calendar, audit, snapshot) have run when it is over.
HooksFollowBatch == (up = "up" /\ main = "top" /\ adj = "idle" /\ ~inBatch) => settled

\* What was planned for a downtime is no more than the table gives it.
PlanWithinTable ==
  (up = "up" /\ Paused) =>
    PlannedGain(anchor.paused, wall) <=
      MapThenSumSet(LAMBDA w : IF Continuous(Segment(w)) THEN Segment(w).ratio
                               ELSE (60 * Segment(w).hours) \div Segment(w).minutes,
                    anchor.paused..(wall - 1))

\* A pause of the audit lasts until a person restarts the kernel.
AuditHolds == (up = "up" /\ audited) => Paused

\* An outage of the database pauses the running kernel and does not end it.
OutageIsSurvived == [][Running /\ up = "up" => up' # "dead"]_vars

\* A batch is left again, whatever fails in it.
BatchEnds == inBatch ~> ~inBatch

\* While the world is behind its plan the clock runs faster than the table.
LagIsCaughtUp ==
  (main = "sleep" /\ Ready("main") /\ Ready("probe") /\ ~Paused /\ ~inBatch /\ late = 0) =>
    (NowSim >= owed \/ anchor.ratio > RatioOr(0))

=============================================================================
