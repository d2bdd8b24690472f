------------------------------- MODULE Office -------------------------------
(***************************************************************************)
(* The office calendar and the day's disturbances: illness and leave, the    *)
(* morning's attendance, the stock price, the rumour after a bad day, the    *)
(* month's review with its raises and the pool of those to be laid off,      *)
(* overtime by rule or by the director's wish, team building, and the list   *)
(* of what was fired (world_agent/calendar.py, disturb.py, economy.py).      *)
(*                                                                           *)
(* As in Economy, a span of the calendar is settled job by job, statement by *)
(* statement, each committed alone; whatever breaks it off, the span is      *)
(* settled again from its beginning, for the position is saved at its end.   *)
(* Money is Economy's; here a raise and a charge are counted.  The company   *)
(* is one department.                                                        *)
(***************************************************************************)
EXTENDS Integers, SequencesExt

CONSTANTS
  Staff,             \* in the order of their ids: a sequence
  Days,              \* the days that are modelled
  Weekend, Holiday,  \* days off; a holiday closes the market and stops work events
  LastFriday, SecondSaturday,  \* days of the review and of the team building
  RuleDays,          \* days of overtime by rule (overtime_schedule)
  PoolAfter,         \* consecutive_c_for_pool
  Steps,             \* how far the clock moves from span to span, in jobs
  MaxWishes, MaxBreaks  \* bounds: illnesses, shocks and extra overtimes; breaks

\* In the order of their times and, at one time, of their registration.
JobsOfADay == <<"disturb", "checkin", "stock", "rumor", "review", "overtime", "team">>

ASSUME OfficeAssumption ==
  /\ {Days, MaxWishes, MaxBreaks} \subseteq Nat /\ PoolAfter \in Nat \ {0}
  /\ Weekend \union Holiday \union LastFriday \union SecondSaturday \union RuleDays \subseteq 1..Days
  /\ Steps \subseteq Nat \ {0}
  /\ Staff \in Seq(Range(Staff)) /\ IsInjective(Staff)

VARIABLES
  clock,             \* how many jobs' times have come
  settledTo,           \* calendar.last_settled
  to, at,            \* the span under way, 0 for none; the job reached
  stmts,             \* the statements left of it
  off,               \* leave.<agent>: the last day of it
  marks,             \* attendance.<day>: who is present
  shock, shocked,    \* stock.shock: what is pending; shocks in the price so far
  fell,              \* days whose last stock tick broke the threshold
  consumed,          \* layoff_rumor.consumed: day of the tick
  hurt,              \* history: how often a rumour of that day's tick has hurt someone
  verdict,           \* what a review will find
  raises, streak, pool,  \* economy.salary (in raises), perf_review.streak_c, layoff_pool
  torn,              \* history: a review is "saving", or was "torn" apart while it was
  extra, held,       \* schedule.overtime.extra; history: extra overtimes held by day
  levied,            \* charges of team building
  fired,             \* calendar.fired.<day>
  wished, breaks     \* wishes by kind; breaks

offVars == <<clock, settledTo, to, at, stmts, off, marks, shock, shocked, fell, consumed, hurt,
             verdict, raises, streak, pool, torn, extra, held, levied, fired,
             wished, breaks>>
position == <<clock, settledTo, to, at>>
health == <<off, marks>>
market == <<shock, shocked, fell, consumed, hurt>>
career == <<raises, streak, pool>>
evening == <<extra, held, levied>>

Names == Range(Staff)
PerDay == Len(JobsOfADay)
DayOf(s) == ((s - 1) \div PerDay) + 1
JobAt(s) == JobsOfADay[((s - 1) % PerDay) + 1]

\* is_workday, holiday_flags and the predicates the jobs are registered with.
IsWorkday(d) == d \notin Weekend \union Holiday
Suspended(d) == d \in Holiday
MarketOpen(d) == IsWorkday(d)
ReviewDay(d) == d \in LastFriday /\ ~Suspended(d)
OvertimeDay(d) == IsWorkday(d) /\ ~Suspended(d)
TeamDay(d) == d \in SecondSaturday /\ ~Suspended(d)

On(s) ==
  LET d == DayOf(s)
  IN CASE JobAt(s) \in {"disturb", "rumor"} -> TRUE
       [] JobAt(s) = "checkin" -> IsWorkday(d)
       [] JobAt(s) = "stock" -> MarketOpen(d)
       [] JobAt(s) = "review" -> ReviewDay(d)
       [] JobAt(s) = "overtime" -> OvertimeDay(d)
       [] JobAt(s) = "team" -> TeamDay(d)

\* _compute_perf_grades: attendance and work are compared with the department's; a review
\* that is repeated finds the same.
Verdicts == [Names \X LastFriday -> {"A", "C"}]

OffInit ==
  /\ clock = 0 /\ settledTo = 0 /\ to = 0 /\ at = 0 /\ stmts = <<>>
  /\ off = [a \in Names |-> 0] /\ marks = [d \in {} |-> {}]
  /\ shock = 0 /\ shocked = 0 /\ fell = {} /\ consumed = 0
  /\ hurt = [a \in Names |-> [d \in 1..Days |-> 0]]
  /\ verdict \in Verdicts
  /\ raises = [a \in Names |-> 0] /\ streak = [a \in Names |-> 0] /\ pool = {} /\ torn = "no"
  /\ extra = {} /\ held = [d \in 1..Days |-> 0] /\ levied = [a \in Names |-> 0]
  /\ fired = [d \in 1..Days |-> {}]
  /\ wished = [k \in {"ill", "shock", "extra"} |-> 0] /\ breaks = 0

-----------------------------------------------------------------------------
(* Spans.                                                                    *)

Wishes == wished["ill"] + wished["shock"] + wished["extra"]
Wish(k) == Wishes < MaxWishes /\ wished' = [wished EXCEPT ![k] = @ + 1]

\* tick, run_batch_calendar: the jobs since the saved position.
BeginSpan ==
  /\ to = 0
  /\ \E j \in Steps : clock + j <= Days * PerDay /\ clock' = clock + j
  /\ to' = clock' /\ at' = settledTo
  /\ UNCHANGED <<settledTo, stmts, health, market, verdict, career, torn, evening, fired,
                 wished, breaks>>

Left == {s \in (at + 1)..to : On(s)}

\* settle_span at its end: the day's list is written anew, then the position.
EndSpan ==
  /\ to > 0 /\ Left = {} /\ stmts = <<>>
  /\ LET ran(d) == {JobAt(s) : s \in {t \in (settledTo + 1)..to : On(t) /\ DayOf(t) = d}}
     IN fired' = [d \in 1..Days |-> IF ran(d) = {} THEN fired[d] ELSE ran(d)]
  /\ settledTo' = to /\ to' = 0 /\ at' = 0
  /\ torn' = IF torn = "saving" THEN "no" ELSE torn
  /\ UNCHANGED <<clock, stmts, health, market, verdict, career, evening, wished, breaks>>

\* A crash, or an exception on its way to the loop: the rest is dropped.
BreakOff ==
  /\ to > 0 /\ breaks < MaxBreaks /\ breaks' = breaks + 1
  /\ to' = 0 /\ at' = 0 /\ stmts' = <<>>
  /\ torn' = IF torn = "saving" THEN "torn" ELSE torn
  /\ UNCHANGED <<clock, settledTo, health, market, verdict, career, evening, fired, wished>>

-----------------------------------------------------------------------------
(* What a job does: its statements.                                          *)

Stmt(op, who, what) == [op |-> op, who |-> who, what |-> what]
ForAll(names, op, what) == [i \in 1..Len(names) |-> Stmt(op, names[i], what)]
OnLeave(a, d) == off[a] >= d
AtWork(d) == {a \in Names : ~OnLeave(a, d)}

\* roll_daily_disturb: somebody may fall ill, until the day d or the one after.
Disturb(d) ==
  \/ stmts' = <<>> /\ UNCHANGED wished
  \/ /\ Wish("ill")
     /\ \E a \in Names, until \in {d, d + 1} : stmts' = <<Stmt("leave", a, until)>>

\* Mutant: what is pending is cleared last.
TickedThenCleared(d, falls) ==
  <<Stmt(IF falls THEN "fall" ELSE "rise", "firm", d), Stmt("price", "firm", shock)>>
    \o (IF shock > 0 THEN <<Stmt("clear", "firm", d)>> ELSE <<>>)

\* settle_stock_tick: what is pending is cleared, then the event, then the price.
\* Whether the price falls below the threshold is left open.
Ticked(d, falls) ==
  (IF shock > 0 THEN <<Stmt("clear", "firm", d)>> ELSE <<>>)
    \o <<Stmt(IF falls THEN "fall" ELSE "rise", "firm", d), Stmt("price", "firm", shock)>>

\* settle_layoff_rumor, about the last tick before: it is consumed before anybody is hurt.
Rumored(d) ==
  LET before == {e \in 1..(d - 1) : MarketOpen(e)}
      e == IF before = {} THEN 0 ELSE Max(before)
  IN IF e = 0 \/ consumed >= e \/ e \notin fell THEN <<>>
     ELSE <<Stmt("consume", "firm", e)>> \o ForAll(Staff, "hurt", e)

StreakAfter(d) == [a \in Names |-> IF verdict[a, d] = "C" THEN streak[a] + 1 ELSE 0]

\* Mutant: the count is compared as if it still lacked this review.
PooledEarly(d) ==
  LET raised == [a \in Names |-> IF verdict[a, d] = "A" THEN raises[a] + 1 ELSE raises[a]]
      after == StreakAfter(d)
  IN <<Stmt("raises", "firm", raised), Stmt("streak", "firm", after),
       Stmt("pool", "firm", pool \union {a \in Names : verdict[a, d] = "C" /\ after[a] + 1 >= PoolAfter})>>

\* settle_perf_review: the tables read at its start are written back at its end, one by
\* one; the events before them are not modelled.
Reviewed(d) ==
  LET raised == [a \in Names |-> IF verdict[a, d] = "A" THEN raises[a] + 1 ELSE raises[a]]
      after == StreakAfter(d)
  IN <<Stmt("raises", "firm", raised), Stmt("streak", "firm", after),
       Stmt("pool", "firm", pool \union {a \in Names : verdict[a, d] = "C" /\ after[a] >= PoolAfter})>>

\* overtime_schedule.
ByRule(d) == d \in RuleDays

\* settle_evening_overtime: the wish is struck off before the overtime is held, for
\* those who are not on leave.
Overtime(d) ==
  (IF d \in extra THEN <<Stmt("strike", "firm", d)>> ELSE <<>>)
    \o (IF (d \in extra \/ ByRule(d)) /\ AtWork(d) # {}
        THEN <<Stmt(IF d \in extra THEN "extra" ELSE "rule", "firm", d)>> ELSE <<>>)

StatementsOf(job, d) ==
  CASE job = "checkin" -> <<Stmt("mark", "firm", d)>>
    [] job = "rumor" -> Rumored(d)
    [] job = "review" -> Reviewed(d)
    [] job = "overtime" -> Overtime(d)
    [] job = "team" -> ForAll(Staff, "charge", d)

StartJob ==
  /\ to > 0 /\ stmts = <<>> /\ Left # {}
  /\ LET s == Min(Left)
         d == DayOf(s)
     IN /\ at' = s
        /\ CASE JobAt(s) = "disturb" -> Disturb(d)
             [] JobAt(s) = "stock" ->
                  /\ \E falls \in BOOLEAN : stmts' = Ticked(d, falls)
                  /\ UNCHANGED wished
             [] OTHER -> stmts' = StatementsOf(JobAt(s), d) /\ UNCHANGED wished
  /\ UNCHANGED <<clock, settledTo, to, health, market, verdict, career, torn, evening, fired, breaks>>

-----------------------------------------------------------------------------
(* The statements.                                                           *)

\* fire_illness writes the leave anew, _settle_checkin the attendance.
Health(s) ==
  CASE s.op = "leave" -> off' = [off EXCEPT ![s.who] = s.what] /\ UNCHANGED marks
    [] s.op = "mark" ->
         /\ marks' = [d \in DOMAIN marks \union {s.what} |-> IF d = s.what THEN AtWork(d) ELSE marks[d]]
         /\ UNCHANGED off

Market(s) ==
  CASE s.op = "clear" -> shock' = 0 /\ UNCHANGED <<shocked, fell, consumed, hurt>>
    [] s.op = "fall" -> fell' = fell \union {s.what} /\ UNCHANGED <<shock, shocked, consumed, hurt>>
    [] s.op = "rise" -> fell' = fell \ {s.what} /\ UNCHANGED <<shock, shocked, consumed, hurt>>
    [] s.op = "price" -> shocked' = shocked + s.what /\ UNCHANGED <<shock, fell, consumed, hurt>>
    [] s.op = "consume" -> consumed' = s.what /\ UNCHANGED <<shock, shocked, fell, hurt>>
    [] s.op = "hurt" -> /\ hurt' = [hurt EXCEPT ![s.who][s.what] = @ + 1]
                        /\ UNCHANGED <<shock, shocked, fell, consumed>>

Career(s) ==
  /\ torn' = IF torn = "no" THEN "saving" ELSE torn
  /\ CASE s.op = "raises" -> raises' = s.what /\ UNCHANGED <<streak, pool>>
       [] s.op = "streak" -> streak' = s.what /\ UNCHANGED <<raises, pool>>
       [] s.op = "pool" -> pool' = s.what /\ UNCHANGED <<raises, streak>>

Evening(s) ==
  CASE s.op = "strike" -> extra' = extra \ {s.what} /\ UNCHANGED <<held, levied>>
    [] s.op = "extra" -> held' = [held EXCEPT ![s.what] = @ + 1] /\ UNCHANGED <<extra, levied>>
    [] s.op = "rule" -> UNCHANGED evening
    [] s.op = "charge" -> levied' = [levied EXCEPT ![s.who] = @ + 1] /\ UNCHANGED <<extra, held>>

Execute ==
  /\ stmts # <<>> /\ stmts' = Tail(stmts)
  /\ LET s == Head(stmts)
     IN \/ /\ s.op \in {"leave", "mark"} /\ Health(s)
           /\ UNCHANGED <<market, career, torn, evening>>
        \/ /\ s.op \in {"clear", "fall", "rise", "price", "consume", "hurt"} /\ Market(s)
           /\ UNCHANGED <<health, career, torn, evening>>
        \/ /\ s.op \in {"raises", "streak", "pool"} /\ Career(s)
           /\ UNCHANGED <<health, market, evening>>
        \/ /\ s.op \in {"strike", "extra", "rule", "charge"} /\ Evening(s)
           /\ UNCHANGED <<health, market, career, torn>>
  /\ UNCHANGED <<position, verdict, fired, wished, breaks>>

-----------------------------------------------------------------------------
(* Wishes, between two spans.                                                *)

\* queue_stock_shock.
QueueShock ==
  /\ to = 0 /\ Wish("shock") /\ shock' = shock + 1
  /\ UNCHANGED <<position, stmts, health, shocked, fell, consumed, hurt, verdict, career, torn,
                 evening, fired, breaks>>

\* queue_extra_overtime, for today or a later day.
QueueExtra ==
  /\ to = 0 /\ Wish("extra")
  /\ \E d \in 1..Days : d * PerDay > settledTo /\ d \notin extra /\ extra' = extra \union {d}
  /\ UNCHANGED <<position, stmts, health, market, verdict, career, torn, held, levied, fired,
                 breaks>>

OffNext ==
  \/ BeginSpan \/ EndSpan \/ BreakOff \/ StartJob \/ Execute \/ QueueShock \/ QueueExtra

OffSpec == OffInit /\ [][OffNext]_offVars

-----------------------------------------------------------------------------
OffTypeOK ==
  /\ clock \in 0..(Days * PerDay) /\ settledTo \in 0..clock /\ at <= to
  /\ to \in 0..clock /\ DOMAIN marks \subseteq 1..Days /\ pool \subseteq Names
  /\ shock \in Nat /\ fell \subseteq 1..Days /\ extra \subseteq 1..Days
  /\ \A a \in Names : off[a] \in 0..(Days + 1) /\ streak[a] \in Nat /\ raises[a] \in Nat

\* However often a span is repeated: a rumour hurts nobody twice, a shock moves the price
\* once, and a wished overtime is held once (calendar.py:415, economy.py:460).
NothingTwice ==
  /\ \A a \in Names, d \in 1..Days : hurt[a][d] <= 1
  /\ shocked <= wished["shock"]
  /\ \A d \in 1..Days : held[d] <= wished["extra"]

Reviews == {d \in LastFriday : On((d - 1) * PerDay + 5) /\ (d - 1) * PerDay + 5 <= clock}

\* Whoever is in the pool of those to be laid off has had as many reviews in a row with a
\* C as that takes, unless a review that had begun to save was broken off.
PoolIsEarned ==
  torn # "torn" =>
    \A a \in pool : \E d \in Reviews :
      LET run == {e \in Reviews : e <= d}
      IN /\ Cardinality(run) >= PoolAfter
         /\ \A e \in run : Cardinality({f \in run : f > e}) < PoolAfter => verdict[a, e] = "C"
=============================================================================
