---------------------------- MODULE EconomyProofs ----------------------------
(***************************************************************************)
(* The calendar leaves no job out and, without a fault, repeats none, and  *)
(* no money comes from nowhere or gets lost: for every schedule, every     *)
(* length of a beat, every town and any number of faults.  Nobody is moved *)
(* without a warning.                                                      *)
(***************************************************************************)
EXTENDS Economy, FiniteSetTheorems, SequenceTheorems, WellFoundedInduction, TLAPS

(***************************************************************************)
(* Which jobs have been run follows from the position that the calendar    *)
(* has saved, the one it has in memory and the span it is in.              *)
(***************************************************************************)
At(k) == Schedule[k].at

CalendarTypes ==
  /\ now \in Nat /\ saved \in Nat \cup {None} /\ last \in Nat \cup {None}
  /\ span \in [active : BOOLEAN, from : Nat, to : Nat,
               jobs : SUBSET Positions, left : SUBSET Agents]
  /\ done \in [Positions -> Nat] /\ first \in Nat \cup {None} /\ faults \in Nat

\* The position in memory is the saved one, unless nothing is saved yet; a span
\* begins there.
PositionsAgree ==
  /\ (first = None) <=> (saved = None)
  /\ saved # None => last \in {None, saved}
  /\ span.active => last # None /\ span.from = last /\ span.from < span.to

\* The jobs of the span that are not left have been run, and so have all
\* before the saved position.
DoneBehind ==
  /\ span.active => \A k \in Positions :
       span.from < At(k) /\ At(k) <= span.to => k \in span.jobs \/ done[k] > 0
  /\ saved # None => \A k \in Positions : first < At(k) /\ At(k) <= saved => done[k] > 0

\* Without a fault, what has been run once lies behind the position, and what
\* is left of the span before it.
NotDoneAhead ==
  faults = 0 =>
    /\ \A k \in Positions :
         /\ done[k] <= 1
         /\ done[k] > 0 => /\ last # None
                           /\ \/ At(k) <= last
                              \/ span.active /\ At(k) <= span.to /\ k \notin span.jobs
    /\ span.active => \A k \in span.jobs : last < At(k) /\ At(k) <= span.to

CalendarInv == CalendarTypes /\ PositionsAgree /\ DoneBehind /\ NotDoneAhead

-----------------------------------------------------------------------------
\* Among the jobs left there is one that comes first.
LEMMA FirstExists ==
  ASSUME NEW n \in Nat, NEW J, J \subseteq 1..n, J # {}
  PROVE  \E k \in J : \A j \in J : k <= j
<1> DEFINE T == {1..k : k \in J}
<1>1. IsWellFoundedOn(StrictSubsetOrdering(Nat), FiniteSubsetsOf(Nat))
  BY FS_StrictSubsetOrderingWellFounded
<1>2. T \subseteq FiniteSubsetsOf(Nat) /\ T # {}
  <2>1. ASSUME NEW k \in J PROVE 1..k \in FiniteSubsetsOf(Nat)
    <3>1. k \in Int /\ 1..k \subseteq Nat
      OBVIOUS
    <3>2. IsFiniteSet(1..k)
      BY <3>1, FS_Interval
    <3> QED BY <3>1, <3>2 DEF FiniteSubsetsOf
  <2> QED BY <2>1
<1>3. PICK x \in T : \A y \in T : ~ (<<y, x>> \in StrictSubsetOrdering(Nat))
  <2> HIDE DEF T
  <2> QED BY <1>1, <1>2, WFMin
<1>4. PICK k \in J : x = 1..k
  OBVIOUS
<1>5. ASSUME NEW j \in J PROVE k <= j
  <2>1. ~ (<<1..j, 1..k>> \in StrictSubsetOrdering(Nat))
    BY <1>3, <1>4
  <2>2. ~ (1..j \subseteq 1..k /\ 1..j # 1..k)
    BY <2>1 DEF StrictSubsetOrdering
  <2> QED BY <2>2
<1> QED BY <1>5

\* There are finitely many jobs, all of them after the world begins.
LEMMA ScheduleType ==
  Len(Schedule) \in Nat /\ \A k \in Positions : At(k) \in Nat /\ At(k) > 0
<1> DEFINE R == [at : Nat \ {0}, job : Jobs, month : Nat \ {0}]
<1>1. Schedule \in Seq(R)
  BY CalendarAssumption
<1> HIDE DEF R
<1>2. Len(Schedule) \in Nat
  BY <1>1
<1>3. ASSUME NEW k \in Positions PROVE Schedule[k] \in R
  BY <1>1, <1>2, <1>3 DEF Positions
<1>4. ASSUME NEW r \in R PROVE r.at \in Nat /\ r.at > 0
  BY <1>4 DEF R
<1> QED BY <1>2, <1>3, <1>4 DEF At

\* The job that is run next is one of those left.
LEMMA CurrentIsLeft ==
  ASSUME span.jobs \subseteq Positions, span.jobs # {}
  PROVE  CurrentJob \in span.jobs
<1>1. \E k \in span.jobs : \A j \in span.jobs : k <= j
  BY FirstExists, ScheduleType DEF Positions
<1> QED BY <1>1 DEF CurrentJob

-----------------------------------------------------------------------------
\* Nothing has been run and no position is saved as the world begins.
LEMMA CalendarInit == Init => CalendarInv
<1> SUFFICES ASSUME Init PROVE CalendarInv
  OBVIOUS
<1> USE DEF Init, NoSpan
<1>1. CalendarTypes
  BY DEF CalendarTypes
<1>2. PositionsAgree
  BY DEF PositionsAgree
<1>3. DoneBehind
  BY DEF DoneBehind
<1>4. NotDoneAhead
  BY DEF NotDoneAhead
<1> QED BY <1>1, <1>2, <1>3, <1>4 DEF CalendarInv

\* A span begins at the position and holds every job up to now.
LEMMA StartSpanKeeps ==
  ASSUME CalendarInv, StartSpan
  PROVE  CalendarInv'
<1> USE ScheduleType DEF CalendarInv, countVars, jobVars
<1>1. From \in Nat /\ (last # None => From = last)
  BY DEF CalendarTypes, From
<1>2. ~span.active /\ last' = From /\ UNCHANGED <<now, saved, done, first, faults>>
  BY DEF StartSpan, Idle
<1>3. CASE now <= From
  <2>1. span' = NoSpan
    BY <1>3 DEF StartSpan
  <2>2. CalendarTypes'
    BY <1>1, <1>2, <2>1 DEF CalendarTypes, NoSpan
  <2>3. PositionsAgree'
    BY <1>1, <1>2, <2>1 DEF PositionsAgree, CalendarTypes, NoSpan, From
  <2>4. DoneBehind'
    BY <1>2, <2>1 DEF DoneBehind, NoSpan
  <2>5. NotDoneAhead'
    BY <1>1, <1>2, <2>1 DEF NotDoneAhead, CalendarTypes, NoSpan
  <2> QED BY <2>2, <2>3, <2>4, <2>5
<1>4. CASE ~ (now <= From)
  <2>1. span' = [active |-> TRUE, from |-> From, to |-> now,
                 jobs |-> DueJobs(From, now), left |-> Agents]
    BY <1>4 DEF StartSpan
  <2>2. CalendarTypes'
    BY <1>1, <1>2, <2>1 DEF CalendarTypes, DueJobs
  <2>3. PositionsAgree'
    BY <1>1, <1>2, <1>4, <2>1 DEF PositionsAgree, CalendarTypes, From, None
  <2>4. DoneBehind'
    BY <1>2, <2>1 DEF DoneBehind, DueJobs, At
  <2>5. NotDoneAhead'
    BY <1>1, <1>2, <2>1 DEF NotDoneAhead, CalendarTypes, DueJobs, At, None
  <2> QED BY <2>2, <2>3, <2>4, <2>5
<1> QED BY <1>3, <1>4

\* A job that ends is the first of those left.
LEMMA EndJobKeeps ==
  ASSUME CalendarInv, EndJob
  PROVE  CalendarInv'
<1> DEFINE c == CurrentJob
<1> USE ScheduleType DEF CalendarInv
<1>1. c \in span.jobs /\ c \in Positions /\ span.active
  BY CurrentIsLeft DEF EndJob, InJob, CalendarTypes
<1>2. /\ done' = [done EXCEPT ![c] = @ + 1]
      /\ span' = [span EXCEPT !.jobs = @ \ {c}, !.left = Agents]
      /\ UNCHANGED <<now, saved, last, first, faults>>
  BY DEF EndJob, countVars
<1> HIDE DEF c
<1>3. /\ span'.active = span.active /\ span'.from = span.from /\ span'.to = span.to
      /\ span'.jobs = span.jobs \ {c}
      /\ \A k \in Positions : done'[k] = IF k = c THEN done[k] + 1 ELSE done[k]
  BY <1>1, <1>2 DEF CalendarTypes
<1>4. CalendarTypes'
  <2>1. done' \in [Positions -> Nat]
    BY <1>1, <1>2 DEF CalendarTypes
  <2>2. span' \in [active : BOOLEAN, from : Nat, to : Nat,
                   jobs : SUBSET Positions, left : SUBSET Agents]
    BY <1>1, <1>2 DEF CalendarTypes
  <2> QED BY <1>2, <2>1, <2>2 DEF CalendarTypes
<1>5. PositionsAgree'
  BY <1>2, <1>3 DEF PositionsAgree
<1>6. DoneBehind'
  BY <1>1, <1>2, <1>3 DEF DoneBehind, CalendarTypes, At
<1>7. NotDoneAhead'
  <2> SUFFICES ASSUME faults = 0 PROVE NotDoneAhead'
    BY <1>2 DEF NotDoneAhead
  <2>1. last \in Nat /\ last < At(c) /\ At(c) <= span.to /\ done[c] = 0
    BY <1>1 DEF NotDoneAhead, PositionsAgree, CalendarTypes
  <2> QED BY <1>1, <1>2, <1>3, <2>1 DEF NotDoneAhead, CalendarTypes, At, None
<1> QED BY <1>4, <1>5, <1>6, <1>7

\* The position is saved when no job of the span is left.
LEMMA EndSpanKeeps ==
  ASSUME CalendarInv, EndSpan
  PROVE  CalendarInv'
<1> USE ScheduleType DEF CalendarInv
<1>1. /\ span.active /\ span.jobs = {} /\ span' = NoSpan
      /\ saved' = span.to /\ last' = span.to
      /\ first' = IF first = None THEN span.from ELSE first
      /\ UNCHANGED <<now, done, faults>>
  BY DEF EndSpan, countVars
<1>2. /\ span.from \in Nat /\ span.to \in Nat /\ span.from < span.to /\ span.from = last
      /\ saved # None => saved = last
  BY <1>1 DEF CalendarTypes, PositionsAgree
<1>3. CalendarTypes'
  BY <1>1, <1>2 DEF CalendarTypes, NoSpan
<1>4. PositionsAgree'
  BY <1>1, <1>2 DEF PositionsAgree, NoSpan, None
<1>5. DoneBehind'
  <2> SUFFICES ASSUME NEW k \in Positions, first' < At(k), At(k) <= span.to
               PROVE  done[k] > 0
    BY <1>1 DEF DoneBehind, NoSpan, At
  <2>1. CASE span.from < At(k)
    BY <1>1, <2>1 DEF DoneBehind
  <2>2. CASE At(k) <= span.from
    <3>1. first # None
      BY <1>1, <1>2, <2>2
    <3>2. saved # None /\ saved = span.from
      BY <1>2, <3>1 DEF PositionsAgree
    <3> QED BY <1>1, <2>2, <3>1, <3>2 DEF DoneBehind
  <2> QED BY <1>2, <2>1, <2>2
<1>6. NotDoneAhead'
  <2> SUFFICES ASSUME faults = 0, NEW k \in Positions
               PROVE  done[k] <= 1 /\ (done[k] > 0 => At(k) <= span.to)
    BY <1>1, <1>2 DEF NotDoneAhead, NoSpan, At, None
  <2> QED BY <1>1, <1>2 DEF NotDoneAhead
<1> QED BY <1>3, <1>4, <1>5, <1>6

\* An exception and a crash give up the span; what is saved stays.
LEMMA DropKeeps ==
  ASSUME CalendarInv, Fail \/ Crash
  PROVE  CalendarInv'
<1> USE DEF CalendarInv
<1>1. /\ span' = NoSpan /\ faults' = faults + 1 /\ last' \in {last, None}
      /\ UNCHANGED <<now, saved, done, first>>
  BY DEF Fail, Crash, Drop, jobVars
<1>2. CalendarTypes'
  BY <1>1 DEF CalendarTypes, NoSpan
<1>3. PositionsAgree'
  BY <1>1 DEF PositionsAgree, NoSpan
<1>4. DoneBehind'
  BY <1>1 DEF DoneBehind, NoSpan
<1>5. NotDoneAhead'
  BY <1>1 DEF NotDoneAhead, CalendarTypes
<1> QED BY <1>2, <1>3, <1>4, <1>5

\* The rest of what happens does not touch the calendar.
LEMMA OthersKeep ==
  ASSUME CalendarInv, UNCHANGED <<calendarVars, jobVars, faults>>
  PROVE  CalendarInv'
BY DEF CalendarInv, CalendarTypes, PositionsAgree, DoneBehind, NotDoneAhead, At,
       calendarVars, jobVars

\* A statement touches none of the calendar's variables.
LEMMA StatementsLeaveCalendar ==
  Statements => UNCHANGED <<calendarVars, jobVars, faults>>
BY DEF Statements, DoEvent, DoCharge, DoLend, DoPayBack, DoOwe, DoClear, DoNotice,
       DoAddMonth, DoMove, countVars

\* Nor does what an agent does.
LEMMA ActionsLeaveCalendar ==
  Actions => UNCHANGED <<calendarVars, jobVars, faults>>
BY DEF Actions, Eat, Spend, Borrow, Repay, Act

\* Every step keeps the calendar's invariant.
LEMMA CalendarStep == CalendarInv /\ [Next]_vars => CalendarInv'
<1> SUFFICES ASSUME CalendarInv, [Next]_vars PROVE CalendarInv'
  OBVIOUS
<1>1. CASE StartSpan
  BY <1>1, StartSpanKeeps
<1>2. ASSUME NEW a \in Agents, SettleAgent(a) PROVE CalendarInv'
  <2>1. /\ span' = [span EXCEPT !.left = @ \ {a}]
        /\ UNCHANGED <<now, saved, last, jobVars, faults>>
    BY <1>2 DEF SettleAgent, countVars
  <2> QED BY <2>1 DEF CalendarInv, CalendarTypes, PositionsAgree, DoneBehind, NotDoneAhead,
                      At, jobVars
<1>3. CASE EndJob
  BY <1>3, EndJobKeeps
<1>4. CASE EndSpan
  BY <1>4, EndSpanKeeps
<1>5. CASE Statements
  BY <1>5, StatementsLeaveCalendar, OthersKeep
<1>6. CASE Actions
  BY <1>6, ActionsLeaveCalendar, OthersKeep
<1>7. CASE Fail \/ Crash
  BY <1>7, DropKeeps
<1>8. ASSUME NEW d \in Jumps, TimePasses(d) PROVE CalendarInv'
  <2>1. now' = now + d /\ d \in Nat /\ UNCHANGED <<saved, last, span, jobVars, faults>>
    BY <1>8, CalendarAssumption DEF TimePasses, countVars
  <2> QED BY <2>1 DEF CalendarInv, CalendarTypes, PositionsAgree, DoneBehind, NotDoneAhead,
                      At, jobVars
<1>9. CASE UNCHANGED vars
  BY <1>9, OthersKeep DEF vars, countVars
<1> QED BY <1>1, <1>2, <1>3, <1>4, <1>5, <1>6, <1>7, <1>8, <1>9 DEF Next, Calendar

\* The saved position, the one in memory and the open span always tell which
\* jobs have been run (CalendarEngine's _last_settled and its row).
THEOREM CalendarInvariant == Spec => []CalendarInv
BY CalendarInit, CalendarStep, PTL DEF Spec

\* From the first saved position on no job is left out, whatever crashes or
\* fails (settle_span saves its position last).
THEOREM NothingMissed == Spec => []NoJobMissed
<1>1. CalendarInv => NoJobMissed
  BY DEF CalendarInv, PositionsAgree, DoneBehind, NoJobMissed, At
<1> QED BY <1>1, CalendarInvariant, PTL

\* Without a fault no job is run twice (settle_span's span is open below).
THEOREM NothingTwice == Spec => []NoJobTwice
<1>1. CalendarInv => NoJobTwice
  BY DEF CalendarInv, NotDoneAhead, NoJobTwice
<1> QED BY <1>1, CalendarInvariant, PTL
-----------------------------------------------------------------------------
(***************************************************************************)
(* Money.  A settlement in progress accounts for the difference between a  *)
(* balance and the books: Pending(todo, a) is what its statements will add *)
(* to the balance of a beyond what they add to its events and loans.       *)
(***************************************************************************)
Eff(s, b) ==
  IF s.who # b THEN 0
  ELSE IF s.op \in {"event", "payback"} THEN -s.cents
  ELSE IF s.op \in {"charge", "lend"} THEN s.cents
  ELSE 0

\* No settlement has more than five statements.
Term(q, i, b) == IF i <= Len(q) THEN Eff(q[i], b) ELSE 0
Pending(q, b) == Term(q, 1, b) + Term(q, 2, b) + Term(q, 3, b) + Term(q, 4, b) + Term(q, 5, b)

MoneyTypes ==
  /\ todo \in Seq(Statement)
  /\ balance \in [Agents -> Int] /\ booked \in [Agents -> [Kinds -> Int]]
  /\ loan \in [Agents -> [Agents -> Seq(Nat \ {0})]] /\ lent \in [Agents -> Int]
  /\ owed \in [Agents -> [Bills -> Nat]] /\ months \in [Agents -> Seq(Months)]
  /\ room \in [Agents -> 0..Rooms]
  /\ billed \in [Agents -> [Bills -> Nat]] /\ noticed \in [Agents -> Nat]
  /\ off \subseteq Agents /\ acts \in Nat

\* Only the first statement of a settlement pays a loan back, no more than is
\* left of it.
LoanLeft(s) == loan[s.who][s.to] # <<>> /\ s.cents <= Head(loan[s.who][s.to])
TodoFits ==
  /\ Len(todo) <= 5
  /\ \A i \in 1..Len(todo) : todo[i].op = "payback" => i = 1 /\ LoanLeft(todo[i])

TypeInv == MoneyTypes /\ TodoFits

Short(q) == q \in Seq(Statement) /\ Len(q) <= 5 /\ \A i \in 1..Len(q) : q[i].op # "payback"

-----------------------------------------------------------------------------
\* What each constructor makes is a statement: an event.
LEMMA EventType ==
  ASSUME NEW a \in Agents, NEW k \in Kinds, NEW x \in Int
  PROVE  Event(a, k, x) \in Statement
BY DEF Event, Statement

\* A charge.
LEMMA ChargeType ==
  ASSUME NEW a \in Agents, NEW x \in Int
  PROVE  Charge(a, x) \in Statement
BY DEF Charge, Statement

\* A row of arrears.
LEMMA OweType ==
  ASSUME NEW a \in Agents, NEW k \in Bills, NEW x \in Nat, NEW m \in Months
  PROVE  Owe(a, k, x, m) \in Statement
BY DEF Owe, Statement

\* Arrears cleared.
LEMMA ClearType ==
  ASSUME NEW a \in Agents, NEW K \in SUBSET Bills
  PROVE  Clear(a, K) \in Statement
BY DEF Clear, Statement

\* A notice and the month it adds.
LEMMA WarnType ==
  ASSUME NEW a \in Agents, NEW m \in Months
  PROVE  Notice(a, m) \in Statement /\ AddMonth(a, m) \in Statement
BY DEF Notice, AddMonth, Statement

\* A move.
LEMMA MoveType ==
  ASSUME NEW a \in Agents, NEW r \in 1..Rooms
  PROVE  Move(a, r) \in Statement
BY DEF Move, Statement

\* A loan made and one paid back.
LEMMA LoanType ==
  ASSUME NEW l \in Agents, NEW b \in Agents, NEW x \in Nat \ {0}
  PROVE  Lend(l, b, x) \in Statement /\ PayBack(l, b, x) \in Statement
BY DEF Lend, PayBack, Statement

\* An event and the change of the balance it stands for.
LEMMA PairShort ==
  ASSUME NEW a \in Agents, NEW k \in Kinds, NEW x \in Int
  PROVE  Short(<<Event(a, k, x), Charge(a, x)>>) /\ Short(<<Charge(a, x), Event(a, k, x)>>)
BY EventType, ChargeType DEF Short, Event, Charge

\* Together they leave nothing pending.
LEMMA PairBalances ==
  ASSUME NEW a \in Agents, NEW k \in Kinds, NEW x \in Int, NEW b \in Agents
  PROVE  /\ Pending(<<Event(a, k, x), Charge(a, x)>>, b) = 0
         /\ Pending(<<Charge(a, x), Event(a, k, x)>>, b) = 0
BY DEF Pending, Term, Eff, Event, Charge

\* Where no statement is left nothing is pending.
LEMMA NothingPends == Short(<<>>) /\ \A b \in Agents : Pending(<<>>, b) = 0
BY DEF Short, Pending, Term

-----------------------------------------------------------------------------
\* Each job's statements fit and, for one who is not in the red, balance: a
\* bill is at most three statements.
LEMMA BillShort ==
  ASSUME MoneyTypes, NEW a \in Agents, NEW k \in Bills, NEW due \in Nat, NEW m \in Months
  PROVE  Short(Bill(a, k, due, m))
<1>1. balance[a] \in Int /\ k \in Kinds
  BY DEF MoneyTypes, Kinds
<1>2. CASE balance[a] >= due
  <2>1. Bill(a, k, due, m) = <<Event(a, k, -due), Charge(a, -due)>> /\ -due \in Int
    BY <1>2 DEF Bill
  <2> QED BY <1>1, <2>1, PairShort
<1>3. CASE balance[a] < due
  <2>1. due - balance[a] \in Nat
    BY <1>1, <1>3
  <2>2. /\ Event(a, k, -balance[a]) \in Statement /\ Charge(a, -balance[a]) \in Statement
        /\ Owe(a, k, due - balance[a], m) \in Statement
    BY <1>1, <2>1, EventType, ChargeType, OweType
  <2> QED BY <1>1, <1>3, <2>2 DEF Bill, Short, Event, Charge, Owe
<1> QED BY <1>1, <1>2, <1>3

\* A bill books what it takes, except from one who is in the red.
LEMMA BillBalances ==
  ASSUME MoneyTypes, NEW a \in Agents, NEW k \in Bills, NEW due \in Nat, NEW m \in Months,
         NEW b \in Agents, balance[b] >= 0
  PROVE  Pending(Bill(a, k, due, m), b) = 0
<1>1. balance[a] \in Int /\ k \in Kinds
  BY DEF MoneyTypes, Kinds
<1>2. CASE balance[a] >= due
  <2>1. Bill(a, k, due, m) = <<Event(a, k, -due), Charge(a, -due)>> /\ -due \in Int
    BY <1>2 DEF Bill
  <2> QED BY <1>1, <2>1, PairBalances, ZenonT(30)
<1>3. CASE balance[a] < due /\ balance[a] > 0
  <2>1. Bill(a, k, due, m) = <<Event(a, k, -balance[a]), Charge(a, -balance[a]),
                               Owe(a, k, due - balance[a], m)>>
    BY <1>1, <1>3 DEF Bill
  <2> QED BY <1>1, <2>1 DEF Pending, Term, Eff, Event, Charge, Owe
<1>4. CASE balance[a] < due /\ ~ (balance[a] > 0)
  BY <1>1, <1>4 DEF Bill, Pending, Term, Eff, Event, Owe
<1> QED BY <1>1, <1>2, <1>3, <1>4

\* Paying arrears is at most five statements.
LEMMA ScanShort ==
  ASSUME MoneyTypes, NEW a \in Agents
  PROVE  Short(Scan(a))
<1>1. \A k \in Bills : /\ PayEvent(a, k) \in Statement /\ PayEvent(a, k).op = "event"
                      /\ PayCharge(a, k) \in Statement /\ PayCharge(a, k).op = "charge"
  <2> SUFFICES ASSUME NEW k \in Bills
               PROVE  /\ PayEvent(a, k) \in Statement /\ PayEvent(a, k).op = "event"
                      /\ PayCharge(a, k) \in Statement /\ PayCharge(a, k).op = "charge"
    OBVIOUS
  <2>1. -owed[a][k] \in Int /\ k \in Kinds
    BY DEF MoneyTypes, Kinds
  <2>2. Event(a, k, -owed[a][k]) \in Statement /\ Charge(a, -owed[a][k]) \in Statement
    BY <2>1, EventType, ChargeType
  <2> QED BY <2>2 DEF PayEvent, PayCharge, Event, Charge
<1>2. \A K \in SUBSET Bills : Clear(a, K) \in Statement /\ Clear(a, K).op = "clear"
  BY ClearType DEF Clear
<1>3. "rent" \in Bills /\ "utility" \in Bills
  BY DEF Bills
<1> QED BY <1>1, <1>2, <1>3, NothingPends DEF Scan, Short

\* Paying arrears books what it takes.
LEMMA ScanBalances ==
  ASSUME MoneyTypes, NEW a \in Agents, NEW b \in Agents
  PROVE  Pending(Scan(a), b) = 0
<1>1. owed[a]["rent"] \in Nat /\ owed[a]["utility"] \in Nat
  <2>1. owed \in [Agents -> [Bills -> Nat]]
    BY Zenon DEF MoneyTypes
  <2> QED BY <2>1 DEF Bills
<1> USE DEF Pending, Term, Eff, PayEvent, PayCharge, Event, Charge, Clear
<1>2. CASE PaysRent(a) /\ PaysUtility(a)
  <2>1. Scan(a) = <<PayEvent(a, "rent"), PayCharge(a, "rent"),
                    PayEvent(a, "utility"), PayCharge(a, "utility"), Clear(a, Bills)>>
    BY <1>2, Zenon DEF Scan
  <2> QED BY <1>1, <2>1
<1>3. CASE PaysRent(a) /\ ~ PaysUtility(a)
  <2>1. Scan(a) = <<PayEvent(a, "rent"), PayCharge(a, "rent"), Clear(a, {"rent"})>>
    BY <1>3, Zenon DEF Scan
  <2> QED BY <1>1, <2>1
<1>4. CASE ~ PaysRent(a) /\ PaysUtility(a)
  <2>1. Scan(a) = <<PayEvent(a, "utility"), PayCharge(a, "utility"), Clear(a, {"utility"})>>
    BY <1>4, Zenon DEF Scan
  <2> QED BY <1>1, <2>1
<1>5. CASE ~ PaysRent(a) /\ ~ PaysUtility(a)
  <2>1. Scan(a) = <<>>
    BY <1>5, Zenon DEF Scan
  <2> QED BY <2>1, NothingPends
<1> QED BY <1>2, <1>3, <1>4, <1>5

\* A notice and a move touch no money.
LEMMA EscalationSound ==
  ASSUME MoneyTypes, NEW a \in Agents, NEW m \in Months
  PROVE  Short(Escalation(a, m)) /\ \A b \in Agents : Pending(Escalation(a, m), b) = 0
<1>1. Notice(a, m) \in Statement /\ AddMonth(a, m) \in Statement
  BY WarnType
<1>2. Vacant # {} => Move(a, Cheapest(Vacant)) \in Statement
  <2> SUFFICES ASSUME Vacant # {} PROVE Move(a, Cheapest(Vacant)) \in Statement
    OBVIOUS
  <2>1. Rooms \in Nat /\ Vacant \subseteq 1..Rooms
    BY MoneyAssumption DEF Vacant
  <2>2. \E r \in Vacant : \A s \in Vacant : r <= s
    BY <2>1, FirstExists
  <2>3. Cheapest(Vacant) \in 1..Rooms
    BY <2>1, <2>2 DEF Cheapest
  <2> QED BY <2>3, MoveType
<1>3. Short(Escalation(a, m))
  BY <1>1, <1>2 DEF Escalation, Short, Notice, AddMonth, Move
<1>4. ASSUME NEW b \in Agents PROVE Pending(Escalation(a, m), b) = 0
  BY DEF Escalation, Pending, Term, Eff, Notice, AddMonth, Move
<1> QED BY <1>3, <1>4

\* Each position of the schedule names a job and a month.
LEMMA ScheduleEntries ==
  \A k \in Positions : JobOf(k) \in Jobs /\ Schedule[k].month \in Months
<1> DEFINE R == [at : Nat \ {0}, job : Jobs, month : Nat \ {0}]
<1>1. Schedule \in Seq(R)
  BY CalendarAssumption
<1> HIDE DEF R
<1>2. ASSUME NEW k \in Positions PROVE Schedule[k] \in R
  BY <1>1, <1>2 DEF Positions
<1>3. ASSUME NEW r \in R PROVE r.job \in Jobs /\ r.month \in Months
  BY <1>3 DEF R, Months
<1> QED BY <1>2, <1>3 DEF JobOf

\* Bills and wages are no negative amounts.
LEMMA DueTypes ==
  ASSUME MoneyTypes, NEW a \in Agents
  PROVE  Utility \in Nat /\ Net[a] \in Nat /\ (room[a] # 0 => Rent[room[a]] \in Nat)
BY MoneyAssumption DEF MoneyTypes

\* So for every job the calendar runs (settle_span's branches).
LEMMA SettlementSound ==
  ASSUME MoneyTypes, NEW k \in Positions, NEW a \in Agents
  PROVE  /\ Short(Settlement(k, a))
         /\ \A b \in Agents : balance[b] >= 0 => Pending(Settlement(k, a), b) = 0
<1>1. JobOf(k) \in Jobs /\ Schedule[k].month \in Months
  BY ScheduleEntries
<1>2. "rent" \in Bills /\ "utility" \in Bills /\ "other" \in Kinds
  BY DEF Bills, Kinds
<1>3. CASE JobOf(k) = "payroll"
  <2>1. Settlement(k, a) = <<Event(a, "other", Net[a]), Charge(a, Net[a])>>
    BY <1>3 DEF Settlement, Payroll
  <2>2. Net[a] \in Int
    BY DueTypes
  <2> QED BY <1>2, <2>1, <2>2, PairShort, PairBalances
<1>4. CASE JobOf(k) = "rent"
  <2>1. Settlement(k, a) = RentBill(a, Schedule[k].month)
    BY <1>4 DEF Settlement
  <2>2. CASE room[a] = 0
    BY <2>1, <2>2, NothingPends DEF RentBill
  <2>3. CASE room[a] # 0
    <3>1. Settlement(k, a) = Bill(a, "rent", Rent[room[a]], Schedule[k].month)
      BY <2>1, <2>3 DEF RentBill
    <3>2. Rent[room[a]] \in Nat
      BY <2>3, DueTypes
    <3> QED BY <1>1, <1>2, <3>1, <3>2, BillShort, BillBalances
  <2> QED BY <2>2, <2>3
<1>5. CASE JobOf(k) = "utility"
  <2>1. Settlement(k, a) = Bill(a, "utility", Utility, Schedule[k].month)
    BY <1>5 DEF Settlement
  <2>2. Utility \in Nat
    BY DueTypes
  <2> QED BY <1>1, <1>2, <2>1, <2>2, BillShort, BillBalances
<1>6. CASE JobOf(k) = "scan"
  <2>1. Settlement(k, a) = Scan(a)
    BY <1>6 DEF Settlement
  <2> QED BY <2>1, ScanShort, ScanBalances
<1>7. CASE JobOf(k) = "escalation"
  <2>1. Settlement(k, a) = Escalation(a, Schedule[k].month)
    BY <1>7 DEF Settlement
  <2> QED BY <1>1, <2>1, EscalationSound
<1> QED BY <1>1, <1>3, <1>4, <1>5, <1>6, <1>7 DEF Jobs
-----------------------------------------------------------------------------
\* Running one statement.
\* A sequence without its first element.
LEMMA TailFacts ==
  ASSUME NEW q \in Seq(Statement), q # <<>>, Len(q) <= 5
  PROVE  /\ Head(q) \in Statement /\ Len(q) \in 1..5
         /\ Tail(q) \in Seq(Statement) /\ Len(Tail(q)) = Len(q) - 1 /\ Len(Tail(q)) <= 5
         /\ \A i \in 1..Len(Tail(q)) : i + 1 \in 1..Len(q) /\ i + 1 # 1 /\ Tail(q)[i] = q[i + 1]
<1>1. Len(q) \in Nat /\ Len(q) # 0
  OBVIOUS
<1>2. Head(q) = q[1] /\ Head(q) \in Statement
  BY <1>1
<1>3. Tail(q) \in Seq(Statement) /\ Len(Tail(q)) = Len(q) - 1
  BY <1>1
<1>4. \A i \in 1..Len(Tail(q)) : i + 1 \in 1..Len(q) /\ i + 1 # 1 /\ Tail(q)[i] = q[i + 1]
  BY <1>1, <1>3
<1>5. ASSUME NEW n \in Nat, n # 0, n <= 5 PROVE n \in 1..5 /\ n - 1 <= 5
  BY <1>5
<1>6. Len(q) \in 1..5 /\ Len(q) - 1 <= 5
  BY <1>1, <1>5, Zenon
<1>7. Len(Tail(q)) <= 5
  BY <1>3, <1>6, Zenon
<1> QED BY <1>2, <1>3, <1>4, <1>6, <1>7, Zenon

\* What is left after the first statement fits as well.
LEMMA TailFits ==
  ASSUME TypeInv, todo # <<>>, todo' = Tail(todo)
  PROVE  /\ Head(todo) \in Statement /\ Len(todo) \in 1..5
         /\ todo' \in Seq(Statement) /\ TodoFits'
         /\ Len(todo') = Len(todo) - 1
         /\ \A i \in 1..Len(todo') : todo'[i] = todo[i + 1]
<1>1. todo \in Seq(Statement) /\ Len(todo) <= 5
  BY DEF TypeInv, MoneyTypes, TodoFits
<1>2. /\ Head(todo) \in Statement /\ Len(todo) \in 1..5
      /\ todo' \in Seq(Statement) /\ Len(todo') = Len(todo) - 1 /\ Len(todo') <= 5
      /\ \A i \in 1..Len(todo') :
           i + 1 \in 1..Len(todo) /\ i + 1 # 1 /\ todo'[i] = todo[i + 1]
  BY <1>1, TailFacts, Zenon
<1>3. \A i \in 1..Len(todo') : todo'[i].op # "payback"
  BY <1>2, Zenon DEF TypeInv, TodoFits
<1>4. TodoFits'
  BY <1>2, <1>3, Zenon DEF TodoFits
<1> QED BY <1>2, <1>4, Zenon

\* Each kind of statement has the fields its action reads.
LEMMA StatementFields ==
  ASSUME NEW s \in Statement
  PROVE  /\ s.who \in Agents
         /\ s.op = "event" => s.kind \in Kinds /\ s.cents \in Int
         /\ s.op = "charge" => s.cents \in Int
         /\ s.op \in {"lend", "payback"} => s.to \in Agents /\ s.cents \in Nat \ {0}
         /\ s.op = "owe" => s.kind \in Bills /\ s.cents \in Nat /\ s.month \in Months
         /\ s.op \in {"notice", "month"} => s.month \in Months
         /\ s.op = "move" => s.room \in 1..Rooms
BY DEF Statement

\* A statement's effect is a number.
LEMMA EffInt == ASSUME NEW s \in Statement, NEW b \in Agents PROVE Eff(s, b) \in Int
BY StatementFields DEF Eff

\* A sum without its first term.
LEMMA SumStep ==
  ASSUME NEW v \in Int, NEW w \in Int, NEW x \in Int, NEW y \in Int, NEW z \in Int,
         NEW p, NEW q, p = v + w + x + y + z, q = w + x + y + z + 0
  PROVE  q = p - v /\ q \in Int /\ p \in Int
OBVIOUS

\* Running the first statement takes its effect off what is pending.
LEMMA PendingStep ==
  ASSUME TypeInv, todo # <<>>, todo' = Tail(todo), NEW b \in Agents
  PROVE  /\ Pending(todo', b) = Pending(todo, b) - Eff(Head(todo), b)
         /\ Pending(todo', b) \in Int /\ Pending(todo, b) \in Int
<1>1. /\ Len(todo) \in 1..5 /\ Len(todo') = Len(todo) - 1
      /\ \A i \in 1..Len(todo') : todo'[i] = todo[i + 1]
  BY TailFits
<1>2. \A i \in 1..5 : Term(todo, i, b) \in Int
  <2> SUFFICES ASSUME NEW i \in 1..5 PROVE Term(todo, i, b) \in Int
    OBVIOUS
  <2>1. i <= Len(todo) => todo[i] \in Statement
    BY <1>1 DEF TypeInv, MoneyTypes
  <2> QED BY <2>1, EffInt DEF Term
<1>3. \A i \in 1..4 : Term(todo', i, b) = Term(todo, i + 1, b)
  BY <1>1 DEF Term
<1>4. Term(todo', 5, b) = 0
  <2>1. ~ (5 <= Len(todo'))
    BY <1>1
  <2> QED BY <2>1, Zenon DEF Term
<1>5. Term(todo, 1, b) = Eff(Head(todo), b)
  BY <1>1 DEF Term, TypeInv, MoneyTypes
<1>6. /\ Term(todo', 1, b) = Term(todo, 2, b) /\ Term(todo', 2, b) = Term(todo, 3, b)
      /\ Term(todo', 3, b) = Term(todo, 4, b) /\ Term(todo', 4, b) = Term(todo, 5, b)
  BY <1>3
<1>7. /\ Term(todo, 1, b) \in Int /\ Term(todo, 2, b) \in Int /\ Term(todo, 3, b) \in Int
      /\ Term(todo, 4, b) \in Int /\ Term(todo, 5, b) \in Int
  BY <1>2
<1>8. Pending(todo', b) = Term(todo, 2, b) + Term(todo, 3, b) + Term(todo, 4, b)
                            + Term(todo, 5, b) + 0
  BY <1>4, <1>6, Zenon DEF Pending
<1>9. Pending(todo, b) = Term(todo, 1, b) + Term(todo, 2, b) + Term(todo, 3, b)
                            + Term(todo, 4, b) + Term(todo, 5, b)
  BY Zenon DEF Pending
<1> QED BY <1>5, <1>7, <1>8, <1>9, SumStep, SMTT(30)

-----------------------------------------------------------------------------
\* The world begins well typed.
LEMMA TypeInit == Init => TypeInv
BY MoneyAssumption DEF Init, TypeInv, MoneyTypes, TodoFits, Kinds, Bills

\* A job's settlement consists of statements.
LEMMA SettleTypes ==
  ASSUME TypeInv, CalendarInv, NEW a \in Agents, SettleAgent(a)
  PROVE  TypeInv'
<1> USE DEF TypeInv
<1>1. CurrentJob \in Positions
  BY CurrentIsLeft DEF SettleAgent, InJob, CalendarInv, CalendarTypes
<1>2. Short(todo')
  BY <1>1, SettlementSound DEF SettleAgent
<1>3. DueBill(CurrentJob, a) \in [Bills -> Nat]
  BY DueTypes DEF DueBill, Bills
<1>4. billed' \in [Agents -> [Bills -> Nat]]
  <2> DEFINE d == DueBill(CurrentJob, a)
  <2>1. billed' = [billed EXCEPT ![a] = [k \in Bills |-> @[k] + d[k]]]
    BY DEF SettleAgent
  <2>2. billed[a] \in [Bills -> Nat] /\ d \in [Bills -> Nat]
    BY <1>3 DEF MoneyTypes
  <2> HIDE DEF d
  <2>3. [k \in Bills |-> billed[a][k] + d[k]] \in [Bills -> Nat]
    BY <2>2
  <2> QED BY <2>1, <2>3 DEF MoneyTypes
<1>5. UNCHANGED <<balance, booked, loan, lent, owed, months, room, noticed, off, acts>>
  BY DEF SettleAgent, moneyVars, arrearsVars, countVars
<1> QED BY <1>2, <1>4, <1>5 DEF MoneyTypes, Short, TodoFits

\* What is left of the first loan, and the loans after it.
LEMMA FirstReduced ==
  ASSUME NEW q \in Seq(Nat \ {0}), q # <<>>, NEW x \in Nat \ {0}, x <= Head(q)
  PROVE  (IF Head(q) - x = 0 THEN Tail(q) ELSE <<Head(q) - x>> \o Tail(q)) \in Seq(Nat \ {0})
<1>1. Head(q) \in Nat \ {0} /\ Tail(q) \in Seq(Nat \ {0})
  OBVIOUS
<1>2. ASSUME Head(q) - x # 0 PROVE <<Head(q) - x>> \o Tail(q) \in Seq(Nat \ {0})
  <2>1. Head(q) - x \in Nat \ {0}
    BY <1>1, <1>2
  <2>2. <<Head(q) - x>> \in Seq(Nat \ {0})
    BY <2>1
  <2> QED BY <1>1, <2>2, ConcatProperties
<1> QED BY <1>1, <1>2, Zenon

\* A function that is changed in one place keeps its type.
LEMMA Update ==
  ASSUME NEW A, NEW T, NEW f \in [A -> T], NEW x \in A, NEW v \in T
  PROVE  f[x] \in T /\ [f EXCEPT ![x] = v] \in [A -> T]
OBVIOUS

\* A statement keeps the types.
LEMMA StatementTypes ==
  ASSUME TypeInv, Statements
  PROVE  TypeInv'
<1> DEFINE s == Head(todo)
<1> USE DEF TypeInv
<1>1. todo # <<>> /\ todo' = Tail(todo)
  BY DEF Statements, DoEvent, DoCharge, DoLend, DoPayBack, DoOwe, DoClear, DoNotice,
         DoAddMonth, DoMove, Next1
<1>2. s \in Statement /\ todo' \in Seq(Statement) /\ TodoFits'
  BY <1>1, TailFits
<1>3. /\ s.who \in Agents
      /\ s.op = "event" => s.kind \in Kinds /\ s.cents \in Int
      /\ s.op = "charge" => s.cents \in Int
      /\ s.op \in {"lend", "payback"} => s.to \in Agents /\ s.cents \in Nat \ {0}
      /\ s.op = "owe" => s.kind \in Bills /\ s.cents \in Nat /\ s.month \in Months
      /\ s.op \in {"notice", "month"} => s.month \in Months
      /\ s.op = "move" => s.room \in 1..Rooms
  BY <1>2, StatementFields
<1>4. s.op = "payback" => LoanLeft(s)
  <2>1. 1 \in 1..Len(todo) /\ s = todo[1]
    BY <1>1 DEF MoneyTypes
  <2> QED BY <2>1 DEF TodoFits
<1> USE DEF Next1, S, countVars, moneyVars, arrearsVars, billVars
<1> HIDE DEF TodoFits
<1>5. CASE DoEvent
  <2>1. s.op = "event" /\ booked' = [booked EXCEPT ![s.who][s.kind] = @ + s.cents]
    BY <1>5 DEF DoEvent
  <2> HIDE DEF s
  <2>2. booked' \in [Agents -> [Kinds -> Int]]
    <3>1. s.who \in Agents /\ s.kind \in Kinds /\ s.cents \in Int
      BY <1>3, <2>1
    <3>2. booked \in [Agents -> [Kinds -> Int]]
      BY Zenon DEF MoneyTypes
    <3>3. booked[s.who] \in [Kinds -> Int] /\ booked[s.who][s.kind] + s.cents \in Int
      BY <3>1, <3>2
    <3>4. [booked[s.who] EXCEPT ![s.kind] = booked[s.who][s.kind] + s.cents] \in [Kinds -> Int]
      BY <3>1, <3>3, Update, Zenon
    <3>5. booked' = [booked EXCEPT ![s.who] =
                       [booked[s.who] EXCEPT ![s.kind] = booked[s.who][s.kind] + s.cents]]
      BY <2>1
    <3> QED BY <3>1, <3>2, <3>4, <3>5, Update, Zenon
  <2> QED BY <1>2, <1>5, <2>2 DEF DoEvent, MoneyTypes
<1>6. CASE DoCharge
  <2>1. s.op = "charge" /\ balance' = [balance EXCEPT ![s.who] = @ + s.cents]
        /\ off' \subseteq off \cup {s.who}
    BY <1>6 DEF DoCharge
  <2> HIDE DEF s
  <2>2. balance' \in [Agents -> Int] /\ off' \subseteq Agents
    BY <1>3, <2>1 DEF MoneyTypes
  <2> QED BY <1>2, <1>6, <2>2 DEF DoCharge, MoneyTypes
<1>7. CASE DoLend
  <2>1. /\ s.op = "lend" /\ loan' = [loan EXCEPT ![s.who][s.to] = Append(@, s.cents)]
        /\ lent' = [lent EXCEPT ![s.who] = @ + s.cents]
    BY <1>7 DEF DoLend
  <2> HIDE DEF s
  <2>2. Append(loan[s.who][s.to], s.cents) \in Seq(Nat \ {0})
    BY <1>3, <2>1 DEF MoneyTypes
  <2>3. loan' \in [Agents -> [Agents -> Seq(Nat \ {0})]] /\ lent' \in [Agents -> Int]
    <3>1. [loan[s.who] EXCEPT ![s.to] = Append(@, s.cents)] \in [Agents -> Seq(Nat \ {0})]
      BY <1>3, <2>1, <2>2 DEF MoneyTypes
    <3>2. loan' = [loan EXCEPT ![s.who] = [loan[s.who] EXCEPT ![s.to] = Append(@, s.cents)]]
      BY <2>1
    <3>3. loan' \in [Agents -> [Agents -> Seq(Nat \ {0})]]
      BY <1>3, <3>1, <3>2 DEF MoneyTypes
    <3>4. lent' \in [Agents -> Int]
      <4>1. s.who \in Agents /\ s.cents \in Int /\ lent \in [Agents -> Int]
        BY <1>3, <2>1 DEF MoneyTypes
      <4>2. lent' = [lent EXCEPT ![s.who] = @ + s.cents]
        BY <2>1
      <4> QED BY <4>1, <4>2
    <3> QED BY <3>3, <3>4
  <2> QED BY <1>2, <1>7, <2>3 DEF DoLend, MoneyTypes
<1>8. CASE DoPayBack
  <2> DEFINE rows == loan[s.who][s.to]
             new == IF Head(rows) - s.cents = 0 THEN Tail(rows)
                    ELSE <<Head(rows) - s.cents>> \o Tail(rows)
  <2>1. /\ s.op = "payback" /\ loan' = [loan EXCEPT ![s.who][s.to] = new]
        /\ lent' = [lent EXCEPT ![s.who] = @ - s.cents]
    BY <1>8 DEF DoPayBack
  <2>2. rows # <<>> /\ s.cents <= Head(rows)
    BY <1>4, <2>1, Zenon DEF LoanLeft
  <2>3. s.who \in Agents /\ s.to \in Agents /\ s.cents \in Nat \ {0}
    BY <1>3, <2>1
  <2>4. loan \in [Agents -> [Agents -> Seq(Nat \ {0})]] /\ lent \in [Agents -> Int]
    BY Zenon DEF MoneyTypes
  <2>5. rows \in Seq(Nat \ {0})
    <3>1. loan[s.who] \in [Agents -> Seq(Nat \ {0})]
      BY <2>3, <2>4
    <3> QED BY <2>3, <3>1
  <2>6. new \in Seq(Nat \ {0})
    BY <2>2, <2>3, <2>5, FirstReduced, Zenon
  <2> HIDE DEF s, new
  <2>7. loan' \in [Agents -> [Agents -> Seq(Nat \ {0})]]
    <3>1. [loan[s.who] EXCEPT ![s.to] = new] \in [Agents -> Seq(Nat \ {0})]
      BY <2>3, <2>4, <2>6, Update, ZenonT(30)
    <3>2. loan' = [loan EXCEPT ![s.who] = [loan[s.who] EXCEPT ![s.to] = new]]
      BY <2>1
    <3> QED BY <2>3, <2>4, <3>1, <3>2, Update, Zenon
  <2>8. lent' \in [Agents -> Int]
    <3>1. lent' = [lent EXCEPT ![s.who] = lent[s.who] - s.cents]
      BY <2>1
    <3>2. lent[s.who] - s.cents \in Int
      BY <2>3, <2>4
    <3> QED BY <2>3, <2>4, <3>1, <3>2, Update, Zenon
  <2> QED BY <1>2, <1>8, <2>7, <2>8 DEF DoPayBack, MoneyTypes
<1>9. CASE DoOwe
  <2>1. /\ s.op = "owe" /\ owed' = [owed EXCEPT ![s.who][s.kind] = @ + s.cents]
        /\ months' \in {months, [months EXCEPT ![s.who] = Append(@, s.month)]}
    BY <1>9 DEF DoOwe
  <2>2. s.who \in Agents /\ s.kind \in Bills /\ s.cents \in Nat /\ s.month \in Months
    BY <1>3, <2>1
  <2>3. owed \in [Agents -> [Bills -> Nat]] /\ months \in [Agents -> Seq(Months)]
    BY DEF MoneyTypes
  <2> HIDE DEF s
  <2>4. owed' \in [Agents -> [Bills -> Nat]]
    <3>1. owed[s.who] \in [Bills -> Nat] /\ owed[s.who][s.kind] \in Nat
      BY <2>2, <2>3
    <3>2. owed[s.who][s.kind] + s.cents \in Nat
      BY <2>2, <3>1
    <3>3. [owed[s.who] EXCEPT ![s.kind] = @ + s.cents] \in [Bills -> Nat]
      BY <2>2, <3>1, <3>2
    <3>4. owed' = [owed EXCEPT ![s.who] = [owed[s.who] EXCEPT ![s.kind] = @ + s.cents]]
      BY <2>1
    <3> QED BY <2>2, <2>3, <3>3, <3>4, Update
  <2>5. months' \in [Agents -> Seq(Months)]
    <3>1. Append(months[s.who], s.month) \in Seq(Months)
      BY <2>2, <2>3
    <3>2. [months EXCEPT ![s.who] = Append(@, s.month)] \in [Agents -> Seq(Months)]
      BY <2>2, <2>3, <3>1
    <3> QED BY <2>1, <2>3, <3>2, Zenon
  <2> QED BY <1>2, <1>9, <2>4, <2>5 DEF DoOwe, MoneyTypes
<1>10. CASE DoClear
  <2>1. /\ owed' = [owed EXCEPT ![s.who] =
                    [k \in Bills |-> IF k \in s.kinds THEN 0 ELSE owed[s.who][k]]]
        /\ months' \in {months, [months EXCEPT ![s.who] = <<>>]}
    BY <1>10 DEF DoClear
  <2> HIDE DEF s
  <2>2. [k \in Bills |-> IF k \in s.kinds THEN 0 ELSE owed[s.who][k]] \in [Bills -> Nat]
    BY <1>3 DEF MoneyTypes
  <2>3. owed' \in [Agents -> [Bills -> Nat]]
    BY <1>3, <2>1, <2>2 DEF MoneyTypes
  <2>4. months' \in [Agents -> Seq(Months)]
    <3>1. months \in [Agents -> Seq(Months)] /\ <<>> \in Seq(Months)
      BY DEF MoneyTypes
    <3>2. [months EXCEPT ![s.who] = <<>>] \in [Agents -> Seq(Months)]
      BY <1>3, <3>1
    <3> QED BY <2>1, <3>1, <3>2
  <2> QED BY <1>2, <1>10, <2>3, <2>4 DEF DoClear, MoneyTypes
<1>11. CASE DoNotice
  <2>1. s.op = "notice" /\ noticed' = [noticed EXCEPT ![s.who] = s.month]
    BY <1>11 DEF DoNotice
  <2> HIDE DEF s
  <2>2. noticed' \in [Agents -> Nat]
    BY <1>3, <2>1 DEF MoneyTypes, Months
  <2> QED BY <1>2, <1>11, <2>2 DEF DoNotice, MoneyTypes
<1>12. CASE DoAddMonth
  <2>1. s.op = "month" /\ months' = [months EXCEPT ![s.who] = Append(@, s.month)]
    BY <1>12 DEF DoAddMonth
  <2> HIDE DEF s
  <2>2. s.who \in Agents /\ s.month \in Months /\ months \in [Agents -> Seq(Months)]
    BY <1>3, <2>1 DEF MoneyTypes
  <2>3. months' \in [Agents -> Seq(Months)]
    <3>1. Append(months[s.who], s.month) \in Seq(Months)
      BY <2>2
    <3> QED BY <2>1, <2>2, <3>1
  <2> QED BY <1>2, <1>12, <2>3 DEF DoAddMonth, MoneyTypes
<1>13. CASE DoMove
  <2>1. s.op = "move" /\ room' = [room EXCEPT ![s.who] = s.room]
    BY <1>13 DEF DoMove
  <2> HIDE DEF s
  <2>2. room' \in [Agents -> 0..Rooms]
    <3>1. room \in [Agents -> 0..Rooms] /\ s.who \in Agents
      BY <1>3, Zenon DEF MoneyTypes
    <3>2. s.room \in 0..Rooms
      BY <1>3, <2>1, MoneyAssumption
    <3> QED BY <2>1, <3>1, <3>2, Update, Zenon
  <2> QED BY <1>2, <1>13, <2>2 DEF DoMove, MoneyTypes
<1> QED BY <1>5, <1>6, <1>7, <1>8, <1>9, <1>10, <1>11, <1>12, <1>13 DEF Statements

\* What an agent does consists of statements, and a loan that is paid back
\* was open.
LEMMA ActTypes ==
  ASSUME TypeInv, Actions
  PROVE  TypeInv'
<1> USE DEF TypeInv
<1>1. /\ UNCHANGED <<balance, booked, loan, lent, owed, months, room, billed, noticed>>
      /\ acts' = acts + 1
  BY DEF Actions, Spend, Eat, Repay, Borrow, Act, moneyVars, arrearsVars, billVars
<1>2. "other" \in Kinds
  BY DEF Kinds
<1>3. Meal \in Nat /\ Prices \subseteq Nat \ {0}
  BY MoneyAssumption
<1>4. PICK a \in Agents :
        \/ Eat(a)
        \/ \E x \in Prices :
             \/ Spend(a, x)
             \/ \E l \in Agents : Repay(a, l, x) \/ \E r \in Results : Borrow(a, l, x, r)
  BY DEF Actions
<1>5. todo' \in Seq(Statement) /\ TodoFits' /\ off' \subseteq Agents
  <2>1. CASE Eat(a)
    <3>1. todo' = <<Charge(a, -Meal), Event(a, "other", -Meal)>> /\ off' = off /\ -Meal \in Int
      BY <1>3, <2>1 DEF Eat, Act
    <3>2. Short(todo')
      BY <1>2, <3>1, PairShort
    <3> QED BY <3>1, <3>2 DEF Short, TodoFits, MoneyTypes
  <2>2. ASSUME NEW x \in Prices, Spend(a, x)
        PROVE  todo' \in Seq(Statement) /\ TodoFits' /\ off' \subseteq Agents
    <3>1. todo' = <<Charge(a, -x), Event(a, "other", -x)>> /\ off' = off /\ -x \in Int
      BY <1>3, <2>2 DEF Spend, Act
    <3>2. Short(todo')
      BY <1>2, <3>1, PairShort
    <3> QED BY <3>1, <3>2 DEF Short, TodoFits, MoneyTypes
  <2>3. ASSUME NEW x \in Prices, NEW l \in Agents, Repay(a, l, x)
        PROVE  todo' \in Seq(Statement) /\ TodoFits' /\ off' \subseteq Agents
    <3>1. /\ todo' = <<PayBack(l, a, x), Charge(a, -x), Charge(l, x), Event(a, "other", -x)>>
          /\ off' = off /\ x \in Nat \ {0} /\ -x \in Int /\ x \in Int
          /\ loan[l][a] # <<>> /\ x <= Head(loan[l][a])
      BY <1>3, <2>3 DEF Repay, Act
    <3>2. /\ PayBack(l, a, x) \in Statement /\ Charge(a, -x) \in Statement
          /\ Charge(l, x) \in Statement /\ Event(a, "other", -x) \in Statement
      BY <1>2, <3>1, LoanType, ChargeType, EventType
    <3>3. todo' \in Seq(Statement) /\ Len(todo') = 4
      BY <3>1, <3>2
    <3>4. TodoFits'
      BY <1>1, <3>1, <3>3 DEF TodoFits, LoanLeft, PayBack, Charge, Event
    <3> QED BY <3>1, <3>3, <3>4 DEF MoneyTypes
  <2>4. ASSUME NEW x \in Prices, NEW l \in Agents, NEW r \in Results, Borrow(a, l, x, r)
        PROVE  todo' \in Seq(Statement) /\ TodoFits' /\ off' \subseteq Agents
    <3>1. x \in Nat \ {0} /\ -x \in Int /\ x \in Int
      BY <1>3
    <3>2. /\ Event(a, "other", x) \in Statement /\ Lend(l, a, x) \in Statement
          /\ Charge(l, -x) \in Statement /\ Charge(a, x) \in Statement
      BY <1>2, <3>1, LoanType, ChargeType, EventType
    <3>3. \/ todo' = <<Event(a, "other", x), Lend(l, a, x), Charge(l, -x), Charge(a, x)>>
          \/ todo' = <<Event(a, "other", x)>>
      BY <2>4 DEF Borrow, Act
    <3>4. off' \subseteq Agents
      BY <2>4 DEF Borrow, MoneyTypes
    <3>5. Short(todo')
      <4>1. /\ Event(a, "other", x).op = "event" /\ Lend(l, a, x).op = "lend"
            /\ Charge(l, -x).op = "charge" /\ Charge(a, x).op = "charge"
        BY DEF Event, Lend, Charge
      <4>2. CASE todo' = <<Event(a, "other", x), Lend(l, a, x), Charge(l, -x), Charge(a, x)>>
        <5> DEFINE e1 == Event(a, "other", x) e2 == Lend(l, a, x)
                   e3 == Charge(l, -x) e4 == Charge(a, x)
        <5>1. /\ e1 \in Statement /\ e2 \in Statement /\ e3 \in Statement /\ e4 \in Statement
              /\ e1.op = "event" /\ e2.op = "lend" /\ e3.op = "charge" /\ e4.op = "charge"
              /\ todo' = <<e1, e2, e3, e4>>
          BY <3>2, <4>1, <4>2
        <5> HIDE DEF e1, e2, e3, e4
        <5> QED BY <5>1 DEF Short
      <4>3. CASE todo' = <<Event(a, "other", x)>>
        BY <3>2, <4>1, <4>3 DEF Short
      <4> QED BY <3>3, <4>2, <4>3
    <3> QED BY <3>4, <3>5 DEF Short, TodoFits
  <2> QED BY <1>4, <2>1, <2>2, <2>3, <2>4
<1> QED BY <1>1, <1>5 DEF MoneyTypes

\* Every step keeps the types.
LEMMA TypeStep == TypeInv /\ CalendarInv /\ [Next]_vars => TypeInv'
<1> SUFFICES ASSUME TypeInv, CalendarInv, [Next]_vars PROVE TypeInv'
  OBVIOUS
<1> USE DEF moneyVars, arrearsVars, billVars, countVars
<1>1. ASSUME UNCHANGED <<todo, moneyVars, arrearsVars, billVars, lent, off, acts>>
      PROVE  TypeInv'
  BY <1>1 DEF TypeInv, MoneyTypes, TodoFits, LoanLeft
<1>2. CASE StartSpan \/ EndJob \/ EndSpan \/ UNCHANGED vars
  BY <1>1, <1>2 DEF StartSpan, EndJob, EndSpan, vars
<1>3. ASSUME NEW a \in Agents, SettleAgent(a) PROVE TypeInv'
  BY <1>3, SettleTypes
<1>4. CASE Statements
  BY <1>4, StatementTypes
<1>5. CASE Actions
  BY <1>5, ActTypes
<1>6. CASE Fail \/ Crash
  <2>1. /\ todo' = <<>> /\ off' = off \cup {todo[i].who : i \in DOMAIN todo}
        /\ UNCHANGED <<moneyVars, arrearsVars, billVars, lent, acts>>
    BY <1>6 DEF Fail, Crash, Drop
  <2>2. \A i \in DOMAIN todo : todo[i].who \in Agents
    <3>1. \A i \in DOMAIN todo : todo[i] \in Statement
      BY DEF TypeInv, MoneyTypes
    <3> QED BY <3>1, StatementFields
  <2> QED BY <2>1, <2>2 DEF TypeInv, MoneyTypes, TodoFits
<1>7. ASSUME NEW d \in Jumps, TimePasses(d) PROVE TypeInv'
  BY <1>1, <1>7 DEF TimePasses
<1> QED BY <1>2, <1>3, <1>4, <1>5, <1>6, <1>7 DEF Next, Calendar

\* The money is always well typed and the statements left of a settlement fit
\* it: at most five, and no more is paid back than is left of the loan (repay).
THEOREM TypeInvariant == Spec => []TypeInv
<1>1. Spec => []CalendarInv
  BY CalendarInvariant
<1> QED BY <1>1, TypeInit, TypeStep, PTL DEF Spec

\* Every variable keeps its type: no bill is owed a negative amount, no open
\* loan is paid back already, nobody lives where there is no room.
THEOREM TypeCorrect == Spec => []TypeOK
<1>1. CalendarInv /\ TypeInv => TypeOK
  BY DEF CalendarInv, CalendarTypes, TypeInv, MoneyTypes, TypeOK
<1> QED BY <1>1, CalendarInvariant, TypeInvariant, PTL
-----------------------------------------------------------------------------
\* What is left to be done closes the gap between balance and books, and nobody
\* whose books are to agree is in the red.
BooksInv ==
  \A a \in Agents \ off :
    /\ balance[a] >= 0
    /\ balance[a] + Pending(todo, a) = StartBalance[a] + Booked(a) - lent[a]

\* Balances and sums of events are numbers.
LEMMA BooksTypes ==
  ASSUME MoneyTypes, NEW a \in Agents
  PROVE  /\ balance[a] \in Int /\ Booked(a) \in Int /\ lent[a] \in Int
         /\ StartBalance[a] \in Nat
<1>1. balance[a] \in Int /\ lent[a] \in Int /\ StartBalance[a] \in Nat
  BY MoneyAssumption DEF MoneyTypes
<1>2. booked[a] \in [Kinds -> Int]
  BY DEF MoneyTypes
<1>3. Booked(a) \in Int
  BY <1>2 DEF Booked, Kinds, Bills
<1> QED BY <1>1, <1>3

\* The books are empty as the world begins.
LEMMA BooksInit == Init => BooksInv
<1> SUFFICES ASSUME Init PROVE BooksInv
  OBVIOUS
<1>1. \A a \in Agents : StartBalance[a] \in Nat
  BY MoneyAssumption
<1>2. \A a \in Agents : Booked(a) = 0 /\ lent[a] = 0 /\ balance[a] = StartBalance[a]
  BY DEF Init, Booked, Kinds, Bills
<1>3. \A a \in Agents : Pending(todo, a) = 0
  BY NothingPends DEF Init
<1> QED BY <1>1, <1>2, <1>3 DEF BooksInv

\* A statement moves the balance, the books and what is pending together.
LEMMA StatementBooks ==
  ASSUME TypeInv, BooksInv, Statements
  PROVE  BooksInv'
<1> DEFINE s == Head(todo)
<1>1. todo # <<>> /\ todo' = Tail(todo)
  BY DEF Statements, DoEvent, DoCharge, DoLend, DoPayBack, DoOwe, DoClear, DoNotice,
         DoAddMonth, DoMove, Next1
<1>2. s \in Statement
  BY <1>1, TailFits
<1>3. /\ s.who \in Agents
      /\ s.op = "event" => s.kind \in Kinds /\ s.cents \in Int
      /\ s.op = "charge" => s.cents \in Int
      /\ s.op \in {"lend", "payback"} => s.to \in Agents /\ s.cents \in Nat \ {0}
  BY <1>2, StatementFields
<1>4. off \subseteq off'
  BY DEF Statements, DoEvent, DoCharge, DoLend, DoPayBack, DoOwe, DoClear, DoNotice,
         DoAddMonth, DoMove
<1> SUFFICES ASSUME NEW a \in Agents \ off'
             PROVE  /\ balance'[a] >= 0
                    /\ balance'[a] + Pending(todo', a)
                          = StartBalance[a] + Booked(a)' - lent'[a]
  BY DEF BooksInv, Booked
<1>5. /\ balance[a] >= 0
      /\ balance[a] + Pending(todo, a) = StartBalance[a] + Booked(a) - lent[a]
      /\ balance[a] \in Int /\ Booked(a) \in Int /\ lent[a] \in Int /\ StartBalance[a] \in Int
      /\ Pending(todo', a) = Pending(todo, a) - Eff(s, a)
      /\ Pending(todo', a) \in Int /\ Pending(todo, a) \in Int
  BY <1>1, <1>4, BooksTypes, PendingStep DEF BooksInv, TypeInv
<1>6. CASE s.op = "event"
  <2>1. /\ booked' = [booked EXCEPT ![s.who][s.kind] = @ + s.cents]
        /\ UNCHANGED <<balance, lent>>
    BY <1>6 DEF Statements, DoEvent, DoCharge, DoLend, DoPayBack, DoOwe, DoClear, DoNotice,
                DoAddMonth, DoMove, Next1, S
  <2> HIDE DEF s
  <2>2. CASE s.who = a
    <3>1. booked[a] \in [Kinds -> Int] /\ s.kind \in Kinds /\ s.cents \in Int
      BY <1>3, <1>6 DEF TypeInv, MoneyTypes
    <3>2. booked'[a] = [booked[a] EXCEPT ![s.kind] = @ + s.cents]
      BY <2>1, <2>2 DEF TypeInv, MoneyTypes
    <3>3. Booked(a)' = Booked(a) + s.cents
      BY <3>1, <3>2 DEF Booked, Kinds, Bills
    <3>4. Eff(s, a) = -s.cents
      BY <1>6, <2>2 DEF Eff
    <3> QED BY <1>5, <2>1, <3>1, <3>3, <3>4
  <2>3. CASE s.who # a
    <3>1. Booked(a)' = Booked(a) /\ Eff(s, a) = 0
      BY <1>3, <2>1, <2>3 DEF Booked, Eff, TypeInv, MoneyTypes
    <3> QED BY <1>5, <2>1, <3>1
  <2> QED BY <2>2, <2>3
<1>7. CASE s.op = "charge"
  <2>1. /\ balance' = [balance EXCEPT ![s.who] = @ + s.cents]
        /\ off' = IF balance[s.who] + s.cents < 0 THEN off \cup {s.who} ELSE off
        /\ UNCHANGED <<booked, lent>>
    BY <1>7 DEF Statements, DoEvent, DoCharge, DoLend, DoPayBack, DoOwe, DoClear, DoNotice,
                DoAddMonth, DoMove, Next1, S
  <2> HIDE DEF s
  <2>2. Booked(a)' = Booked(a)
    BY <2>1 DEF Booked
  <2>3. CASE s.who = a
    <3>1. balance'[a] = balance[a] + s.cents /\ s.cents \in Int /\ Eff(s, a) = s.cents
      BY <1>3, <1>7, <2>1, <2>3 DEF Eff, TypeInv, MoneyTypes
    <3>2. balance'[a] >= 0
      BY <1>5, <2>1, <2>3, <3>1
    <3> QED BY <1>5, <2>1, <2>2, <3>1, <3>2
  <2>4. CASE s.who # a
    <3>1. balance'[a] = balance[a] /\ Eff(s, a) = 0
      BY <1>3, <2>1, <2>4 DEF Eff, TypeInv, MoneyTypes
    <3> QED BY <1>5, <2>1, <2>2, <3>1
  <2> QED BY <2>3, <2>4
<1>8. CASE s.op \in {"lend", "payback"}
  <2> DEFINE x == IF s.op = "lend" THEN s.cents ELSE -s.cents
  <2>1. lent' = [lent EXCEPT ![s.who] = @ + x] /\ UNCHANGED <<balance, booked>>
    <3>1. /\ UNCHANGED <<balance, booked>>
          /\ s.op = "lend" => lent' = [lent EXCEPT ![s.who] = @ + s.cents]
          /\ s.op = "payback" => lent' = [lent EXCEPT ![s.who] = @ - s.cents]
      BY <1>8 DEF Statements, DoEvent, DoCharge, DoLend, DoPayBack, DoOwe, DoClear, DoNotice,
                  DoAddMonth, DoMove, Next1, S
    <3> HIDE DEF s
    <3>2. s.cents \in Int
      BY <1>3, <1>8
    <3>3. lent[s.who] \in Int
      BY <1>3 DEF TypeInv, MoneyTypes
    <3> QED BY <1>8, <3>1, <3>2, <3>3
  <2> HIDE DEF s
  <2>2. Booked(a)' = Booked(a)
    BY <2>1 DEF Booked
  <2>3. x \in Int
    BY <1>3, <1>8
  <2>4. CASE s.who = a
    <3>1. lent'[a] = lent[a] + x /\ Eff(s, a) = x
      BY <1>3, <1>8, <2>1, <2>4 DEF Eff, TypeInv, MoneyTypes
    <3> HIDE DEF x
    <3> QED BY <1>5, <2>1, <2>2, <2>3, <3>1
  <2>5. CASE s.who # a
    <3>1. lent'[a] = lent[a] /\ Eff(s, a) = 0
      BY <1>3, <2>1, <2>5 DEF Eff, TypeInv, MoneyTypes
    <3> QED BY <1>5, <2>1, <2>2, <3>1
  <2> QED BY <2>4, <2>5
<1>9. CASE s.op \notin {"event", "charge", "lend", "payback"}
  <2>1. UNCHANGED <<balance, booked, lent>>
    BY <1>9 DEF Statements, DoEvent, DoCharge, DoLend, DoPayBack, DoOwe, DoClear, DoNotice,
                DoAddMonth, DoMove, Next1, S, moneyVars
  <2>2. Eff(s, a) = 0 /\ Booked(a)' = Booked(a)
    BY <1>9, <2>1 DEF Eff, Booked
  <2> QED BY <1>5, <2>1, <2>2
<1> QED BY <1>6, <1>7, <1>8, <1>9

\* What an agent does begins a settlement that balances.
LEMMA ActBooks ==
  ASSUME TypeInv, BooksInv, Actions
  PROVE  BooksInv'
<1>1. /\ UNCHANGED <<balance, booked, lent>> /\ todo = <<>>
  BY DEF Actions, Spend, Eat, Repay, Borrow, Act, Idle, moneyVars
<1>2. "other" \in Kinds
  BY DEF Kinds
<1>3. Meal \in Nat /\ Prices \subseteq Nat \ {0}
  BY MoneyAssumption
<1>4. off \subseteq off' /\ \A b \in Agents \ off' : Pending(todo', b) = 0
  <2>1. PICK a \in Agents :
          \/ Eat(a)
          \/ \E x \in Prices :
               \/ Spend(a, x)
               \/ \E l \in Agents : Repay(a, l, x) \/ \E r \in Results : Borrow(a, l, x, r)
    BY DEF Actions
  <2>2. CASE Eat(a)
    <3>1. todo' = <<Charge(a, -Meal), Event(a, "other", -Meal)>> /\ off' = off /\ -Meal \in Int
      BY <1>3, <2>2 DEF Eat, Act
    <3> QED BY <1>2, <3>1, PairBalances
  <2>3. ASSUME NEW x \in Prices, Spend(a, x)
        PROVE  off \subseteq off' /\ \A b \in Agents \ off' : Pending(todo', b) = 0
    <3>1. todo' = <<Charge(a, -x), Event(a, "other", -x)>> /\ off' = off /\ -x \in Int
      BY <1>3, <2>3 DEF Spend, Act
    <3> QED BY <1>2, <3>1, PairBalances
  <2>4. ASSUME NEW x \in Prices, NEW l \in Agents, Repay(a, l, x)
        PROVE  off \subseteq off' /\ \A b \in Agents \ off' : Pending(todo', b) = 0
    <3>1. /\ todo' = <<PayBack(l, a, x), Charge(a, -x), Charge(l, x), Event(a, "other", -x)>>
          /\ off' = off /\ x \in Int /\ a # l
      BY <1>3, <2>4 DEF Repay, Act
    <3>2. ASSUME NEW b \in Agents PROVE Pending(todo', b) = 0
      BY <3>1 DEF Pending, Term, Eff, PayBack, Charge, Event
    <3> QED BY <3>1, <3>2
  <2>5. ASSUME NEW x \in Prices, NEW l \in Agents, NEW r \in Results, Borrow(a, l, x, r)
        PROVE  off \subseteq off' /\ \A b \in Agents \ off' : Pending(todo', b) = 0
    <3>1. CASE r = "accepted"
      <4>1. /\ todo' = <<Event(a, "other", x), Lend(l, a, x), Charge(l, -x), Charge(a, x)>>
            /\ off' = off /\ x \in Int /\ a # l
        BY <1>3, <2>5, <3>1 DEF Borrow, Act
      <4>2. ASSUME NEW b \in Agents PROVE Pending(todo', b) = 0
        BY <4>1 DEF Pending, Term, Eff, Lend, Charge, Event
      <4> QED BY <4>1, <4>2
    <3>2. CASE r # "accepted"
      <4>1. todo' = <<Event(a, "other", x)>> /\ off' = off \cup {a}
        BY <2>5, <3>2 DEF Borrow, Act
      <4>2. ASSUME NEW b \in Agents, b # a PROVE Pending(todo', b) = 0
        BY <4>1, <4>2 DEF Pending, Term, Eff, Event
      <4> QED BY <4>1, <4>2
    <3> QED BY <3>1, <3>2
  <2> QED BY <2>1, <2>2, <2>3, <2>4, <2>5
<1>5. \A b \in Agents : Pending(todo, b) = 0
  BY <1>1, NothingPends
<1> QED BY <1>1, <1>4, <1>5 DEF BooksInv, Booked

\* Every step keeps balance, books and what is pending together.
LEMMA BooksStep == TypeInv /\ CalendarInv /\ BooksInv /\ [Next]_vars => BooksInv'
<1> SUFFICES ASSUME TypeInv, CalendarInv, BooksInv, [Next]_vars PROVE BooksInv'
  OBVIOUS
<1>1. ASSUME UNCHANGED <<todo, moneyVars, lent, off>> PROVE BooksInv'
  BY <1>1 DEF BooksInv, Booked, Pending, Term, Eff, moneyVars
<1>2. CASE StartSpan \/ EndJob \/ EndSpan \/ UNCHANGED vars
  BY <1>1, <1>2 DEF StartSpan, EndJob, EndSpan, vars
<1>3. ASSUME NEW a \in Agents, SettleAgent(a) PROVE BooksInv'
  <2>1. CurrentJob \in Positions
    BY <1>3, CurrentIsLeft DEF SettleAgent, InJob, CalendarInv, CalendarTypes
  <2>2. /\ todo = <<>> /\ todo' = Settlement(CurrentJob, a)
        /\ UNCHANGED <<balance, booked, lent, off>>
    BY <1>3 DEF SettleAgent, InJob, moneyVars
  <2>3. \A b \in Agents \ off : Pending(todo', b) = 0 /\ Pending(todo, b) = 0
    BY <2>1, <2>2, SettlementSound, NothingPends DEF BooksInv, TypeInv
  <2> QED BY <2>2, <2>3 DEF BooksInv, Booked
<1>4. CASE Statements
  BY <1>4, StatementBooks
<1>5. CASE Actions
  BY <1>5, ActBooks
<1>6. CASE Fail \/ Crash
  <2>1. /\ todo' = <<>> /\ off' = off \cup {todo[i].who : i \in DOMAIN todo}
        /\ UNCHANGED <<balance, booked, lent>>
    BY <1>6 DEF Fail, Crash, Drop, moneyVars
  <2>2. ASSUME NEW b \in Agents \ off' PROVE Pending(todo, b) = 0
    <3>1. \A i \in 1..Len(todo) : todo[i].who # b
      BY <2>1 DEF TypeInv, MoneyTypes
    <3>2. Len(todo) \in Nat
      BY DEF TypeInv, MoneyTypes
    <3>3. \A i \in 1..5 : Term(todo, i, b) = 0
      BY <3>1, <3>2 DEF Term, Eff
    <3> QED BY <3>3 DEF Pending
  <2>3. \A b \in Agents : Pending(todo', b) = 0
    BY <2>1, NothingPends
  <2> QED BY <2>1, <2>2, <2>3 DEF BooksInv, Booked
<1>7. ASSUME NEW d \in Jumps, TimePasses(d) PROVE BooksInv'
  BY <1>1, <1>7 DEF TimePasses
<1> QED BY <1>2, <1>3, <1>4, <1>5, <1>6, <1>7 DEF Next, Calendar

\* At rest each balance is what its agent began with plus the events, less what
\* is lent (the audit's sum, agent by agent), for everyone whose settlements
\* ran to their ends, who never was in the red and was refused no loan.
THEOREM MoneyConserved == Spec => []BooksAgree
<1>1. TypeInv /\ BooksInv => BooksAgree
  <2> SUFFICES ASSUME TypeInv, BooksInv, todo = <<>>, NEW a \in Agents \ off
               PROVE  balance[a] = StartBalance[a] + Booked(a) - lent[a]
    BY DEF BooksAgree
  <2>1. Pending(todo, a) = 0
    BY NothingPends
  <2> QED BY <2>1, BooksTypes DEF BooksInv, TypeInv
<1>2. Spec => []BooksInv
  BY BooksInit, BooksStep, CalendarInvariant, TypeInvariant, PTL DEF Spec
<1> QED BY <1>1, <1>2, TypeInvariant, PTL
-----------------------------------------------------------------------------
(***************************************************************************)
(* Bills.  A settlement in progress accounts for the difference between    *)
(* what has been charged, what was booked and what is owed, and in a span  *)
(* the money it still takes is there.                                      *)
(***************************************************************************)
Slots == 1..5
SumOf(v) == v[1] + v[2] + v[3] + v[4] + v[5]

\* What a statement adds to the books of a kind of bill less what is owed of it.
BillEff(s, a, k) ==
  IF s.who # a THEN 0
  ELSE IF s.op = "event" /\ s.kind = k THEN s.cents
  ELSE IF s.op = "owe" /\ s.kind = k THEN -s.cents
  ELSE IF s.op = "clear" /\ k \in s.kinds THEN owed[a][k]
  ELSE 0

BillTerms(q, a, k) == [i \in Slots |-> IF i <= Len(q) THEN BillEff(q[i], a, k) ELSE 0]

\* What a statement takes from a balance.
Takes(s, a) == IF s.who = a /\ s.op = "charge" /\ s.cents < 0 THEN s.cents ELSE 0
TakeTerms(q, a) == [i \in Slots |-> IF i <= Len(q) THEN Takes(q[i], a) ELSE 0]

\* Arrears are written down, or cleared, by the last statement of a settlement.
ClosesLast ==
  \A i \in 1..Len(todo) : todo[i].op \in {"owe", "clear"} => i = Len(todo)

BillsBalance ==
  \A a \in Agents \ off, k \in Bills :
    billed[a][k] + booked[a][k] + SumOf(BillTerms(todo, a, k)) = owed[a][k]

BillsInv == ClosesLast /\ BillsBalance

\* In a span the statements left take no more than there is.
MoneyIsThere ==
  span.active => \A a \in Agents :
    SumOf(TakeTerms(todo, a)) < 0 => balance[a] + SumOf(TakeTerms(todo, a)) >= 0

-----------------------------------------------------------------------------
\* A sum without its first term.
LEMMA SumShifts ==
  ASSUME NEW v \in [Slots -> Int], NEW w \in [Slots -> Int],
         \A i \in 1..4 : w[i] = v[i + 1], w[5] = 0
  PROVE  SumOf(v) \in Int /\ SumOf(w) = SumOf(v) - v[1]
<1>1. /\ v[1] \in Int /\ v[2] \in Int /\ v[3] \in Int /\ v[4] \in Int /\ v[5] \in Int
      /\ w[1] = v[2] /\ w[2] = v[3] /\ w[3] = v[4] /\ w[4] = v[5] /\ w[5] = 0
  BY DEF Slots
<1> QED BY <1>1 DEF SumOf

\* A statement's effect on the bills is a number, and so is what it takes.
LEMMA BillEffInt ==
  ASSUME MoneyTypes, NEW s \in Statement, NEW a \in Agents, NEW k \in Bills
  PROVE  BillEff(s, a, k) \in Int /\ Takes(s, a) \in Int /\ Takes(s, a) <= 0
<1>1. owed[a][k] \in Int
  <2>1. owed \in [Agents -> [Bills -> Nat]]
    BY Zenon DEF MoneyTypes
  <2> QED BY <2>1
<1> QED BY <1>1, StatementFields DEF BillEff, Takes

\* The terms of a settlement are numbers.
LEMMA TermTypes ==
  ASSUME MoneyTypes, NEW q \in Seq(Statement), NEW a \in Agents, NEW k \in Bills
  PROVE  /\ BillTerms(q, a, k) \in [Slots -> Int]
         /\ TakeTerms(q, a) \in [Slots -> Int]
         /\ \A i \in Slots : TakeTerms(q, a)[i] <= 0
<1>1. ASSUME NEW i \in Slots, i <= Len(q) PROVE q[i] \in Statement
  BY <1>1 DEF Slots
<1> QED BY <1>1, BillEffInt DEF BillTerms, TakeTerms

\* Where no statement is left there is nothing to pay.
LEMMA NothingLeftToPay ==
  ASSUME NEW a, NEW k
  PROVE  SumOf(BillTerms(<<>>, a, k)) = 0 /\ SumOf(TakeTerms(<<>>, a)) = 0
BY DEF BillTerms, TakeTerms, SumOf, Slots

\* Running the first statement takes its effect off both sums.
LEMMA TermsStep ==
  ASSUME TypeInv, todo # <<>>, todo' = Tail(todo), NEW a \in Agents, NEW k \in Bills
  PROVE  /\ SumOf(BillTerms(Tail(todo), a, k))
              = SumOf(BillTerms(todo, a, k)) - BillEff(Head(todo), a, k)
         /\ SumOf(TakeTerms(Tail(todo), a)) = SumOf(TakeTerms(todo, a)) - Takes(Head(todo), a)
         /\ SumOf(BillTerms(todo, a, k)) \in Int /\ SumOf(TakeTerms(todo, a)) \in Int
<1> DEFINE q == Tail(todo)
<1>1. /\ Len(todo) \in 1..5 /\ Len(q) = Len(todo) - 1 /\ q \in Seq(Statement)
      /\ \A i \in 1..Len(q) : q[i] = todo[i + 1]
      /\ todo[1] = Head(todo) /\ todo \in Seq(Statement) /\ MoneyTypes
  BY TailFits DEF TypeInv, MoneyTypes
<1>2. /\ BillTerms(todo, a, k) \in [Slots -> Int] /\ BillTerms(q, a, k) \in [Slots -> Int]
      /\ TakeTerms(todo, a) \in [Slots -> Int] /\ TakeTerms(q, a) \in [Slots -> Int]
  BY <1>1, TermTypes
<1> HIDE DEF q
<1>3. /\ \A i \in 1..4 : BillTerms(q, a, k)[i] = BillTerms(todo, a, k)[i + 1]
      /\ BillTerms(q, a, k)[5] = 0 /\ BillTerms(todo, a, k)[1] = BillEff(Head(todo), a, k)
  BY <1>1 DEF BillTerms, Slots
<1>4. /\ \A i \in 1..4 : TakeTerms(q, a)[i] = TakeTerms(todo, a)[i + 1]
      /\ TakeTerms(q, a)[5] = 0 /\ TakeTerms(todo, a)[1] = Takes(Head(todo), a)
  BY <1>1 DEF TakeTerms, Slots
<1> QED BY <1>2, <1>3, <1>4, SumShifts DEF q

-----------------------------------------------------------------------------
\* A bill is booked or owed, whatever the balance is.
LEMMA BillIsAccounted ==
  ASSUME MoneyTypes, NEW a \in Agents, NEW kind \in Bills, NEW due \in Nat, NEW m \in Months,
         NEW b \in Agents, NEW k \in Bills
  PROVE  SumOf(BillTerms(Bill(a, kind, due, m), b, k)) = IF a = b /\ kind = k THEN -due ELSE 0
<1>1. balance[a] \in Int
  BY DEF MoneyTypes
<1> USE DEF SumOf, BillTerms, BillEff, Slots, Event, Charge, Owe
<1>2. CASE balance[a] >= due
  <2>1. Bill(a, kind, due, m) = <<Event(a, kind, -due), Charge(a, -due)>>
    BY <1>2 DEF Bill
  <2> QED BY <2>1
<1>3. CASE balance[a] < due /\ balance[a] > 0
  <2>1. Bill(a, kind, due, m) = <<Event(a, kind, -balance[a]), Charge(a, -balance[a]),
                                  Owe(a, kind, due - balance[a], m)>>
    BY <1>1, <1>3 DEF Bill
  <2> QED BY <1>1, <2>1
<1>4. CASE balance[a] < due /\ ~ (balance[a] > 0)
  <2>1. Bill(a, kind, due, m) = <<Event(a, kind, -balance[a]),
                                  Owe(a, kind, due - balance[a], m)>>
    BY <1>1, <1>4 DEF Bill
  <2> QED BY <1>1, <2>1
<1> QED BY <1>1, <1>2, <1>3, <1>4

\* A bill takes no more than there is.
LEMMA BillIsCovered ==
  ASSUME MoneyTypes, NEW a \in Agents, NEW kind \in Bills, NEW due \in Nat, NEW m \in Months,
         NEW b \in Agents
  PROVE  LET t == SumOf(TakeTerms(Bill(a, kind, due, m), b)) IN t < 0 => balance[b] + t >= 0
<1>1. balance[a] \in Int
  BY DEF MoneyTypes
<1> USE DEF SumOf, TakeTerms, Takes, Slots, Event, Charge, Owe
<1>2. CASE balance[a] >= due
  <2>1. Bill(a, kind, due, m) = <<Event(a, kind, -due), Charge(a, -due)>>
    BY <1>2 DEF Bill
  <2> QED BY <1>1, <1>2, <2>1
<1>3. CASE balance[a] < due /\ balance[a] > 0
  <2>1. Bill(a, kind, due, m) = <<Event(a, kind, -balance[a]), Charge(a, -balance[a]),
                                  Owe(a, kind, due - balance[a], m)>>
    BY <1>1, <1>3 DEF Bill
  <2> QED BY <1>1, <1>3, <2>1
<1>4. CASE balance[a] < due /\ ~ (balance[a] > 0)
  <2>1. Bill(a, kind, due, m) = <<Event(a, kind, -balance[a]),
                                  Owe(a, kind, due - balance[a], m)>>
    BY <1>1, <1>4 DEF Bill
  <2> QED BY <2>1
<1> QED BY <1>1, <1>2, <1>3, <1>4

\* Arrears paid are booked and cleared, and paid only out of what there is.
LEMMA ScanIsAccounted ==
  ASSUME MoneyTypes, NEW a \in Agents, NEW b \in Agents, NEW k \in Bills
  PROVE  /\ SumOf(BillTerms(Scan(a), b, k)) = 0
         /\ LET t == SumOf(TakeTerms(Scan(a), b)) IN t < 0 => balance[b] + t >= 0
<1>1. /\ owed[a]["rent"] \in Nat /\ owed[a]["utility"] \in Nat /\ owed[b][k] \in Nat
      /\ balance[a] \in Int
  <2>1. owed \in [Agents -> [Bills -> Nat]] /\ balance \in [Agents -> Int]
    BY Zenon DEF MoneyTypes
  <2> QED BY <2>1 DEF Bills
<1> USE DEF SumOf, BillTerms, BillEff, TakeTerms, Takes, Slots, PayEvent, PayCharge, Event,
            Charge, Clear
<1>2. CASE PaysRent(a) /\ PaysUtility(a)
  <2>1. Scan(a) = <<PayEvent(a, "rent"), PayCharge(a, "rent"),
                    PayEvent(a, "utility"), PayCharge(a, "utility"), Clear(a, Bills)>>
    BY <1>2, Zenon DEF Scan
  <2>2. SumOf(BillTerms(Scan(a), b, k)) = 0
    BY <1>1, <2>1 DEF Bills
  <2>3. balance[a] - owed[a]["rent"] - owed[a]["utility"] >= 0
    BY <1>1, <1>2 DEF PaysRent, PaysUtility, LeftAfterRent
  <2>4. SumOf(TakeTerms(Scan(a), b))
          = IF a = b THEN -owed[a]["rent"] - owed[a]["utility"] ELSE 0
    <3>1. owed[a]["rent"] > 0 /\ owed[a]["utility"] > 0
      BY <1>2 DEF PaysRent, PaysUtility
    <3> QED BY <1>1, <2>1, <3>1
  <2> QED BY <1>1, <2>2, <2>3, <2>4
<1>3. CASE PaysRent(a) /\ ~ PaysUtility(a)
  <2>1. Scan(a) = <<PayEvent(a, "rent"), PayCharge(a, "rent"), Clear(a, {"rent"})>>
    BY <1>3, Zenon DEF Scan
  <2> QED BY <1>1, <1>3, <2>1 DEF PaysRent
<1>4. CASE ~ PaysRent(a) /\ PaysUtility(a)
  <2>1. Scan(a) = <<PayEvent(a, "utility"), PayCharge(a, "utility"), Clear(a, {"utility"})>>
    BY <1>4, Zenon DEF Scan
  <2>2. balance[a] >= owed[a]["utility"]
    BY <1>4, Zenon DEF PaysUtility, LeftAfterRent
  <2> QED BY <1>1, <2>1, <2>2
<1>5. CASE ~ PaysRent(a) /\ ~ PaysUtility(a)
  <2>1. Scan(a) = <<>>
    BY <1>5, Zenon DEF Scan
  <2> QED BY <2>1, NothingLeftToPay
<1> QED BY <1>2, <1>3, <1>4, <1>5

\* In every settlement arrears are what comes last, what is due of a bill is
\* booked or owed, and no more is taken than there is.
LEMMA SettlementBills ==
  ASSUME MoneyTypes, NEW j \in Positions, NEW a \in Agents
  PROVE  LET q == Settlement(j, a)
         IN  /\ \A i \in 1..Len(q) : q[i].op \in {"owe", "clear"} => i = Len(q)
             /\ \A b \in Agents, k \in Bills :
                  SumOf(BillTerms(q, b, k)) = IF a = b THEN -DueBill(j, a)[k] ELSE 0
             /\ \A b \in Agents : SumOf(TakeTerms(q, b)) < 0
                                     => balance[b] + SumOf(TakeTerms(q, b)) >= 0
<1> DEFINE q == Settlement(j, a)
           Last(r) == \A i \in 1..Len(r) : r[i].op \in {"owe", "clear"} => i = Len(r)
           Good == /\ Last(q)
                   /\ \A b \in Agents, k \in Bills :
                        SumOf(BillTerms(q, b, k)) = IF a = b THEN -DueBill(j, a)[k] ELSE 0
                   /\ \A b \in Agents : SumOf(TakeTerms(q, b)) < 0
                                           => balance[b] + SumOf(TakeTerms(q, b)) >= 0
<1> SUFFICES Good
  OBVIOUS
<1>1. JobOf(j) \in Jobs /\ Schedule[j].month \in Months
  BY ScheduleEntries
<1>2. "rent" \in Bills /\ "utility" \in Bills /\ \A k \in Bills : k = "rent" \/ k = "utility"
  BY DEF Bills
<1>3. \A k \in Bills, due \in Nat, m \in Months : Last(Bill(a, k, due, m))
  BY DEF Bill, Event, Charge, Owe
<1>4. CASE JobOf(j) = "payroll"
  <2>1. q = <<Event(a, "other", Net[a]), Charge(a, Net[a])>> /\ Net[a] \in Nat
    BY <1>4, DueTypes DEF Settlement, Payroll
  <2>2. \A k \in Bills : DueBill(j, a)[k] = 0
    BY <1>2, <1>4 DEF DueBill
  <2>3. \A b \in Agents, k \in Bills : SumOf(BillTerms(q, b, k)) = 0
    BY <1>2, <2>1 DEF SumOf, BillTerms, BillEff, Slots, Event, Charge
  <2>4. \A b \in Agents : SumOf(TakeTerms(q, b)) = 0
    BY <2>1 DEF SumOf, TakeTerms, Takes, Slots, Event, Charge
  <2> QED BY <2>1, <2>2, <2>3, <2>4 DEF Event, Charge
<1>5. CASE JobOf(j) = "rent"
  <2>1. q = RentBill(a, Schedule[j].month)
    BY <1>5 DEF Settlement
  <2>2. CASE room[a] = 0
    <3>1. q = <<>> /\ \A k \in Bills : DueBill(j, a)[k] = 0
      BY <1>2, <1>5, <2>1, <2>2 DEF RentBill, DueBill
    <3> QED BY <3>1, NothingLeftToPay
  <2>3. CASE room[a] # 0
    <3>1. q = Bill(a, "rent", Rent[room[a]], Schedule[j].month) /\ Rent[room[a]] \in Nat
      BY <2>1, <2>3, DueTypes DEF RentBill
    <3>2. DueBill(j, a)["rent"] = Rent[room[a]] /\ DueBill(j, a)["utility"] = 0
      BY <1>5, <2>3 DEF DueBill
    <3> QED BY <1>1, <1>2, <1>3, <3>1, <3>2, BillIsAccounted, BillIsCovered
  <2> QED BY <2>2, <2>3
<1>6. CASE JobOf(j) = "utility"
  <2>1. q = Bill(a, "utility", Utility, Schedule[j].month) /\ Utility \in Nat
    BY <1>6, DueTypes DEF Settlement
  <2>2. DueBill(j, a)["utility"] = Utility /\ DueBill(j, a)["rent"] = 0
    BY <1>6 DEF DueBill
  <2> QED BY <1>1, <1>2, <1>3, <2>1, <2>2, BillIsAccounted, BillIsCovered
<1>7. CASE JobOf(j) = "scan"
  <2>1. q = Scan(a) /\ \A k \in Bills : DueBill(j, a)[k] = 0
    BY <1>2, <1>7 DEF Settlement, DueBill
  <2>2. Last(Scan(a))
    BY DEF Scan, PayEvent, PayCharge, Event, Charge, Clear
  <2>3. \A b \in Agents, k \in Bills :
          /\ SumOf(BillTerms(q, b, k)) = 0
          /\ SumOf(TakeTerms(q, b)) < 0 => balance[b] + SumOf(TakeTerms(q, b)) >= 0
    BY <2>1, ScanIsAccounted, Zenon
  <2>4. Last(q)
    BY <2>1, <2>2, Zenon
  <2> HIDE DEF q, Last
  <2> QED BY <1>2, <2>1, <2>3, <2>4
<1>8. CASE JobOf(j) = "escalation"
  <2>1. q = Escalation(a, Schedule[j].month) /\ \A k \in Bills : DueBill(j, a)[k] = 0
    BY <1>2, <1>8 DEF Settlement, DueBill
  <2>2. Last(q)
    BY <2>1 DEF Escalation, Notice, AddMonth, Move
  <2>3. \A b \in Agents, k \in Bills :
          SumOf(BillTerms(q, b, k)) = 0 /\ SumOf(TakeTerms(q, b)) = 0
    BY <2>1 DEF Escalation, Notice, AddMonth, Move, SumOf, BillTerms, BillEff, TakeTerms,
                Takes, Slots
  <2> QED BY <1>2, <2>1, <2>2, <2>3
<1>9. \/ JobOf(j) = "payroll" \/ JobOf(j) = "rent" \/ JobOf(j) = "utility"
      \/ JobOf(j) = "escalation" \/ JobOf(j) = "scan"
  BY <1>1 DEF Jobs
<1> HIDE DEF Good
<1> QED BY <1>4, <1>5, <1>6, <1>7, <1>8, <1>9

-----------------------------------------------------------------------------
\* A statement moves what is booked, owed and left of the settlement together.
LEMMA StatementBills ==
  ASSUME TypeInv, BillsInv, Statements
  PROVE  BillsInv'
<1> DEFINE s == Head(todo)
<1>1. todo # <<>> /\ todo' = Tail(todo) /\ off \subseteq off' /\ UNCHANGED billed
  BY DEF Statements, DoEvent, DoCharge, DoLend, DoPayBack, DoOwe, DoClear, DoNotice,
         DoAddMonth, DoMove, Next1, billVars
<1>2. /\ s \in Statement /\ s = todo[1] /\ Len(todo) \in 1..5 /\ Len(todo') = Len(todo) - 1
      /\ todo' \in Seq(Statement) /\ \A i \in 1..Len(todo') : todo'[i] = todo[i + 1]
  BY <1>1, TailFits DEF TypeInv, MoneyTypes
<1>3. ClosesLast'
  BY <1>2 DEF ClosesLast, BillsInv
<1>4. s.op \in {"owe", "clear"} => todo' = <<>>
  BY <1>2 DEF ClosesLast, BillsInv
<1>5. ASSUME NEW a \in Agents \ off', NEW k \in Bills
      PROVE  (billed[a][k] + booked[a][k] + SumOf(BillTerms(todo, a, k)) = owed[a][k])'
  <2>1. /\ billed[a][k] + booked[a][k] + SumOf(BillTerms(todo, a, k)) = owed[a][k]
        /\ SumOf(BillTerms(Tail(todo), a, k)) = SumOf(BillTerms(todo, a, k)) - BillEff(s, a, k)
        /\ SumOf(BillTerms(todo, a, k)) \in Int
    BY <1>1, TermsStep DEF BillsInv, BillsBalance
  <2>2. /\ owed \in [Agents -> [Bills -> Nat]] /\ booked \in [Agents -> [Kinds -> Int]]
        /\ billed \in [Agents -> [Bills -> Nat]] /\ k \in Kinds
    BY DEF TypeInv, MoneyTypes, Kinds
  <2>3. /\ owed[a] \in [Bills -> Nat] /\ booked[a] \in [Kinds -> Int]
        /\ owed[a][k] \in Int /\ booked[a][k] \in Int /\ billed[a][k] \in Int
    BY <2>2
  <2>4. /\ s.who \in Agents
        /\ s.op = "event" => s.kind \in Kinds /\ s.cents \in Int
        /\ s.op = "owe" => s.kind \in Bills /\ s.cents \in Nat
    BY <1>2, StatementFields
  <2> HIDE DEF s
  <2> USE DEF BillEff
  <2>5. CASE s.op = "event"
    <3>1. booked' = [booked EXCEPT ![s.who][s.kind] = @ + s.cents] /\ owed' = owed
      BY <2>5 DEF s, Statements, DoEvent, DoCharge, DoLend, DoPayBack, DoOwe, DoClear,
                  DoNotice, DoAddMonth, DoMove, Next1, S, arrearsVars
    <3>2. booked'[a][k] = booked[a][k] + (IF s.who = a /\ s.kind = k THEN s.cents ELSE 0)
      BY <2>2, <2>3, <2>4, <2>5, <3>1
    <3>3. BillTerms(todo, a, k)' = BillTerms(Tail(todo), a, k)
      BY <1>1, <3>1 DEF BillTerms
    <3>4. BillEff(s, a, k) = IF s.who = a /\ s.kind = k THEN s.cents ELSE 0
      BY <2>5
    <3>5. (SumOf(BillTerms(todo, a, k)))' = SumOf(BillTerms(Tail(todo), a, k))
      BY <3>3, Zenon DEF SumOf
    <3> HIDE DEF BillEff
    <3> QED BY <1>1, <2>1, <2>3, <2>4, <2>5, <3>1, <3>2, <3>4, <3>5
  <2>6. CASE s.op = "owe"
    <3>1. owed' = [owed EXCEPT ![s.who][s.kind] = @ + s.cents] /\ booked' = booked
      BY <2>6 DEF s, Statements, DoEvent, DoCharge, DoLend, DoPayBack, DoOwe, DoClear,
                  DoNotice, DoAddMonth, DoMove, Next1, S, moneyVars
    <3>2. owed'[a][k] = owed[a][k] - BillEff(s, a, k) /\ BillEff(s, a, k) \in Int
      BY <2>2, <2>3, <2>4, <2>6, <3>1
    <3> HIDE DEF BillEff
    <3>3. SumOf(BillTerms(todo, a, k)) = BillEff(s, a, k)
      <4>1. SumOf(BillTerms(Tail(todo), a, k)) = 0
        BY <1>1, <1>4, <2>6, NothingLeftToPay
      <4> QED BY <2>1, <3>2, <4>1
    <3>4. (SumOf(BillTerms(todo, a, k)))' = 0
      BY <1>4, <2>6 DEF SumOf, BillTerms, Slots
    <3> QED BY <1>1, <2>1, <2>3, <3>1, <3>2, <3>3, <3>4
  <2>7. CASE s.op = "clear"
    <3>1. /\ owed' = [owed EXCEPT ![s.who] = [j \in Bills |-> IF j \in s.kinds THEN 0 ELSE @[j]]]
          /\ booked' = booked
      BY <2>7 DEF s, Statements, DoEvent, DoCharge, DoLend, DoPayBack, DoOwe, DoClear,
                  DoNotice, DoAddMonth, DoMove, Next1, S, moneyVars
    <3>2. owed'[a][k] = owed[a][k] - BillEff(s, a, k) /\ BillEff(s, a, k) \in Int
      BY <2>2, <2>3, <2>4, <2>7, <3>1
    <3> HIDE DEF BillEff
    <3>3. SumOf(BillTerms(todo, a, k)) = BillEff(s, a, k)
      <4>1. SumOf(BillTerms(Tail(todo), a, k)) = 0
        BY <1>1, <1>4, <2>7, NothingLeftToPay
      <4> QED BY <2>1, <3>2, <4>1
    <3>4. (SumOf(BillTerms(todo, a, k)))' = 0
      BY <1>4, <2>7 DEF SumOf, BillTerms, Slots
    <3> QED BY <1>1, <2>1, <2>3, <3>1, <3>2, <3>3, <3>4
  <2>8. CASE s.op \notin {"event", "owe", "clear"}
    <3>1. owed' = owed /\ booked' = booked
      BY <2>8 DEF s, Statements, DoEvent, DoCharge, DoLend, DoPayBack, DoOwe, DoClear,
                  DoNotice, DoAddMonth, DoMove, Next1, S, moneyVars, arrearsVars
    <3>2. BillEff(s, a, k) = 0
      BY <2>8
    <3>3. (SumOf(BillTerms(todo, a, k)))' = SumOf(BillTerms(Tail(todo), a, k))
      BY <1>1, <3>1 DEF BillTerms, SumOf
    <3> HIDE DEF BillEff
    <3> QED BY <1>1, <2>1, <3>1, <3>2, <3>3
  <2> QED BY <2>5, <2>6, <2>7, <2>8
<1> QED BY <1>3, <1>5 DEF BillsInv, BillsBalance

\* What an agent does concerns no bill.
LEMMA ActBills ==
  ASSUME TypeInv, BillsInv, Actions
  PROVE  BillsInv'
<1>1. todo = <<>> /\ off \subseteq off' /\ UNCHANGED <<booked, owed, billed>>
  BY DEF Actions, Spend, Eat, Repay, Borrow, Act, Idle, moneyVars, arrearsVars, billVars
<1>2. /\ \A i \in 1..Len(todo') : todo'[i].op \notin {"owe", "clear"}
      /\ \A i \in 1..Len(todo') : todo'[i].op = "event" => todo'[i].kind = "other"
  <2>1. PICK a \in Agents :
          \/ Eat(a)
          \/ \E x \in Prices :
               \/ Spend(a, x)
               \/ \E l \in Agents : Repay(a, l, x) \/ \E r \in Results : Borrow(a, l, x, r)
    BY DEF Actions
  <2> USE DEF Act, Event, Charge, Lend, PayBack
  <2>2. CASE Eat(a)
    BY <2>2 DEF Eat
  <2>3. ASSUME NEW x \in Prices, Spend(a, x)
        PROVE  /\ \A i \in 1..Len(todo') : todo'[i].op \notin {"owe", "clear"}
               /\ \A i \in 1..Len(todo') : todo'[i].op = "event" => todo'[i].kind = "other"
    BY <2>3 DEF Spend
  <2>4. ASSUME NEW x \in Prices, NEW l \in Agents, Repay(a, l, x)
        PROVE  /\ \A i \in 1..Len(todo') : todo'[i].op \notin {"owe", "clear"}
               /\ \A i \in 1..Len(todo') : todo'[i].op = "event" => todo'[i].kind = "other"
    <3>1. todo' = <<PayBack(l, a, x), Charge(a, -x), Charge(l, x), Event(a, "other", -x)>>
      BY <2>4 DEF Repay
    <3> QED BY <3>1
  <2>5. ASSUME NEW x \in Prices, NEW l \in Agents, NEW r \in Results, Borrow(a, l, x, r)
        PROVE  /\ \A i \in 1..Len(todo') : todo'[i].op \notin {"owe", "clear"}
               /\ \A i \in 1..Len(todo') : todo'[i].op = "event" => todo'[i].kind = "other"
    <3>1. \/ todo' = <<Event(a, "other", x), Lend(l, a, x), Charge(l, -x), Charge(a, x)>>
          \/ todo' = <<Event(a, "other", x)>>
      BY <2>5 DEF Borrow
    <3> QED BY <3>1
  <2> QED BY <2>1, <2>2, <2>3, <2>4, <2>5
<1>3. ASSUME NEW a \in Agents, NEW k \in Bills PROVE (SumOf(BillTerms(todo, a, k)))' = 0
  <2>1. k # "other"
    BY DEF Bills
  <2>2. Len(todo') \in Nat
    <3>1. todo' \in Seq(Statement)
      BY ActTypes DEF TypeInv, MoneyTypes
    <3> QED BY <3>1
  <2>3. \A i \in Slots : (BillTerms(todo, a, k))'[i] = 0
    BY <1>2, <2>1, <2>2 DEF BillTerms, BillEff, Slots
  <2> QED BY <2>3 DEF SumOf, Slots
<1>4. \A a \in Agents, k \in Bills : SumOf(BillTerms(todo, a, k)) = 0
  BY <1>1, NothingLeftToPay
<1> QED BY <1>1, <1>2, <1>3, <1>4 DEF BillsInv, ClosesLast, BillsBalance

\* Nothing is charged or owed as the world begins.
LEMMA BillsInit == Init => BillsInv
<1> SUFFICES ASSUME Init PROVE BillsInv
  OBVIOUS
<1>1. todo = <<>>
  BY DEF Init
<1>2. \A a \in Agents, k \in Bills : billed[a][k] = 0 /\ booked[a][k] = 0 /\ owed[a][k] = 0
  BY DEF Init, Kinds
<1> QED BY <1>1, <1>2, NothingLeftToPay DEF BillsInv, ClosesLast, BillsBalance

\* Every step keeps the bills and what is left of them together.
LEMMA BillsStep == TypeInv /\ CalendarInv /\ BillsInv /\ [Next]_vars => BillsInv'
<1> SUFFICES ASSUME TypeInv, CalendarInv, BillsInv, [Next]_vars PROVE BillsInv'
  OBVIOUS
<1> USE DEF moneyVars, arrearsVars, billVars
<1>1. ASSUME UNCHANGED <<todo, booked, owed, billed, off>> PROVE BillsInv'
  BY <1>1 DEF BillsInv, ClosesLast, BillsBalance, BillTerms, BillEff
<1>2. CASE StartSpan \/ EndJob \/ EndSpan \/ UNCHANGED vars
  BY <1>1, <1>2 DEF StartSpan, EndJob, EndSpan, vars
<1>3. ASSUME NEW a \in Agents, SettleAgent(a) PROVE BillsInv'
  <2> DEFINE d == DueBill(CurrentJob, a)
             q == Settlement(CurrentJob, a)
  <2>1. CurrentJob \in Positions
    BY <1>3, CurrentIsLeft DEF SettleAgent, InJob, CalendarInv, CalendarTypes
  <2>2. /\ todo = <<>> /\ todo' = q /\ UNCHANGED <<booked, owed, off>>
        /\ billed' = [billed EXCEPT ![a] = [k \in Bills |-> @[k] + d[k]]]
    BY <1>3 DEF SettleAgent, InJob
  <2>3. /\ \A i \in 1..Len(q) : q[i].op \in {"owe", "clear"} => i = Len(q)
        /\ \A b \in Agents, k \in Bills :
             SumOf(BillTerms(q, b, k)) = IF a = b THEN -d[k] ELSE 0
    BY <2>1, SettlementBills DEF TypeInv
  <2>4. d \in [Bills -> Nat]
    BY <2>1, DueTypes DEF TypeInv, DueBill, Bills
  <2>5. \A b \in Agents, k \in Bills : SumOf(BillTerms(todo, b, k)) = 0
    BY <2>2, NothingLeftToPay
  <2> HIDE DEF d, q
  <2>6. ASSUME NEW b \in Agents \ off', NEW k \in Bills
        PROVE  (billed[b][k] + booked[b][k] + SumOf(BillTerms(todo, b, k)) = owed[b][k])'
    <3>1. billed[b][k] + booked[b][k] = owed[b][k]
      <4>1. billed[b][k] + booked[b][k] + 0 = owed[b][k]
        BY <2>2, <2>5 DEF BillsInv, BillsBalance
      <4>2. billed[b][k] \in Int /\ booked[b][k] \in Int
        BY DEF TypeInv, MoneyTypes, Kinds
      <4> QED BY <4>1, <4>2
    <3>2. billed'[b][k] = billed[b][k] + (IF a = b THEN d[k] ELSE 0)
      <4>1. billed \in [Agents -> [Bills -> Nat]]
        BY Zenon DEF TypeInv, MoneyTypes
      <4> QED BY <2>2, <2>4, <4>1
    <3>3. (SumOf(BillTerms(todo, b, k)))' = SumOf(BillTerms(q, b, k))
      BY <2>2 DEF BillTerms, BillEff, SumOf
    <3>4. billed[b][k] \in Int /\ booked[b][k] \in Int /\ d[k] \in Int
      BY <2>4 DEF TypeInv, MoneyTypes, Kinds
    <3> QED BY <2>2, <2>3, <3>1, <3>2, <3>3, <3>4
  <2>7. ClosesLast'
    BY <2>2, <2>3 DEF ClosesLast
  <2> QED BY <2>6, <2>7 DEF BillsInv, BillsBalance
<1>4. CASE Statements
  BY <1>4, StatementBills
<1>5. CASE Actions
  BY <1>5, ActBills
<1>6. CASE Fail \/ Crash
  <2>1. /\ todo' = <<>> /\ off' = off \cup {todo[i].who : i \in DOMAIN todo}
        /\ UNCHANGED <<booked, owed, billed>>
    BY <1>6 DEF Fail, Crash, Drop
  <2>2. ASSUME NEW b \in Agents \ off', NEW k \in Bills PROVE SumOf(BillTerms(todo, b, k)) = 0
    <3>1. \A i \in 1..Len(todo) : todo[i].who # b
      BY <2>1 DEF TypeInv, MoneyTypes
    <3>2. Len(todo) \in Nat
      BY DEF TypeInv, MoneyTypes
    <3>3. \A i \in Slots : BillTerms(todo, b, k)[i] = 0
      BY <3>1, <3>2 DEF BillTerms, BillEff, Slots
    <3> QED BY <3>3 DEF SumOf, Slots
  <2>3. \A b \in Agents, k \in Bills : (SumOf(BillTerms(todo, b, k)))' = 0
    BY <2>1 DEF BillTerms, SumOf, Slots
  <2>4. \A b \in Agents \ off', k \in Bills : (billed[b][k] + booked[b][k] = owed[b][k])'
    <3> SUFFICES ASSUME NEW b \in Agents \ off', NEW k \in Bills
                 PROVE  billed[b][k] + booked[b][k] = owed[b][k]
      BY <2>1
    <3>1. billed[b][k] \in Int /\ booked[b][k] \in Int
      BY DEF TypeInv, MoneyTypes, Kinds
    <3> QED BY <2>1, <2>2, <3>1 DEF BillsInv, BillsBalance
  <2>5. \A b \in Agents, k \in Bills : (billed[b][k] \in Int /\ booked[b][k] \in Int)'
    BY <2>1 DEF TypeInv, MoneyTypes, Kinds
  <2>6. ClosesLast'
    BY <2>1 DEF ClosesLast
  <2> QED BY <2>3, <2>4, <2>5, <2>6 DEF BillsInv, BillsBalance
<1>7. ASSUME NEW d \in Jumps, TimePasses(d) PROVE BillsInv'
  BY <1>1, <1>7 DEF TimePasses
<1> QED BY <1>2, <1>3, <1>4, <1>5, <1>6, <1>7 DEF Next, Calendar

\* Whatever is charged is paid by events of its kind or owed, and not both, for
\* everyone whose settlements ran to their ends (settle_bill and its shortfall,
\* try_settle_overdue).
THEOREM BillsAreAccounted == Spec => []BillsAccounted
<1>1. TypeInv /\ BillsInv => BillsAccounted
  <2> SUFFICES ASSUME TypeInv, BillsInv, todo = <<>>, NEW a \in Agents \ off, NEW k \in Bills
               PROVE  billed[a][k] + booked[a][k] = owed[a][k]
    BY DEF BillsAccounted
  <2>1. billed[a][k] \in Int /\ booked[a][k] \in Int
    BY DEF TypeInv, MoneyTypes, Kinds
  <2> QED BY <2>1, NothingLeftToPay DEF BillsInv, BillsBalance
<1>2. Spec => []BillsInv
  BY BillsInit, BillsStep, CalendarInvariant, TypeInvariant, PTL DEF Spec
<1> QED BY <1>1, <1>2, TypeInvariant, PTL

-----------------------------------------------------------------------------
\* A statement of a span takes what is there and leaves enough for the rest.
LEMMA StatementTakes ==
  ASSUME TypeInv, MoneyIsThere, Statements, span.active
  PROVE  /\ MoneyIsThere'
         /\ \A a \in Agents : balance'[a] < balance[a] => balance'[a] >= 0
<1> DEFINE s == Head(todo)
<1>1. todo # <<>> /\ todo' = Tail(todo) /\ UNCHANGED span
  BY DEF Statements, DoEvent, DoCharge, DoLend, DoPayBack, DoOwe, DoClear, DoNotice,
         DoAddMonth, DoMove, Next1, calendarVars
<1>2. s \in Statement /\ Tail(todo) \in Seq(Statement)
  BY <1>1, TailFits
<1>3. s.who \in Agents /\ (s.op = "charge" => s.cents \in Int)
  BY <1>2, StatementFields
<1>4. /\ s.op = "charge" => balance' = [balance EXCEPT ![s.who] = @ + s.cents]
      /\ s.op # "charge" => balance' = balance
  BY DEF Statements, DoEvent, DoCharge, DoLend, DoPayBack, DoOwe, DoClear, DoNotice,
         DoAddMonth, DoMove, Next1, S, moneyVars
<1>5. ASSUME NEW a \in Agents
      PROVE  /\ balance'[a] < balance[a] => balance'[a] >= 0
             /\ LET t == SumOf(TakeTerms(Tail(todo), a)) IN t < 0 => balance'[a] + t >= 0
  <2> DEFINE t == SumOf(TakeTerms(todo, a))
             u == SumOf(TakeTerms(Tail(todo), a))
  <2>1. "rent" \in Bills
    BY DEF Bills
  <2>2. u = t - Takes(s, a) /\ t \in Int
    BY <1>1, <2>1, TermsStep
  <2>3. Takes(s, a) \in Int
    BY <1>2, <2>1, BillEffInt DEF TypeInv
  <2>4. u \in Int /\ u <= 0
    <3>1. /\ TakeTerms(Tail(todo), a) \in [Slots -> Int]
          /\ \A i \in Slots : TakeTerms(Tail(todo), a)[i] <= 0
      BY <1>2, <2>1, TermTypes DEF TypeInv
    <3> QED BY <3>1 DEF SumOf, Slots
  <2>5. t < 0 => balance[a] + t >= 0
    BY DEF MoneyIsThere
  <2>6. balance \in [Agents -> Int] /\ balance[a] \in Int
    BY DEF TypeInv, MoneyTypes
  <2> HIDE DEF s, t, u
  <2>7. CASE s.op = "charge" /\ s.who = a
    <3>1. balance'[a] = balance[a] + s.cents /\ s.cents \in Int
      BY <1>3, <1>4, <2>6, <2>7
    <3>2. Takes(s, a) = IF s.cents < 0 THEN s.cents ELSE 0
      BY <2>7 DEF Takes
    <3> QED BY <2>2, <2>3, <2>4, <2>5, <2>6, <3>1, <3>2 DEF u
  <2>8. CASE ~ (s.op = "charge" /\ s.who = a)
    <3>1. balance'[a] = balance[a]
      BY <1>3, <1>4, <2>6, <2>8
    <3>2. Takes(s, a) = 0
      BY <2>8 DEF Takes
    <3> QED BY <2>2, <2>3, <2>5, <2>6, <3>1, <3>2 DEF u
  <2> QED BY <2>7, <2>8
<1> QED BY <1>1, <1>5 DEF MoneyIsThere, TakeTerms, SumOf

\* Every step of the calendar takes only what is there.
LEMMA TakesStep ==
  TypeInv /\ CalendarInv /\ MoneyIsThere /\ [Next]_vars =>
    /\ MoneyIsThere'
    /\ span.active /\ span'.active => \A a \in Agents :
         balance'[a] < balance[a] => balance'[a] >= 0
<1> SUFFICES ASSUME TypeInv, CalendarInv, MoneyIsThere, [Next]_vars
             PROVE  /\ MoneyIsThere'
                    /\ span.active /\ span'.active => \A a \in Agents :
                         balance'[a] < balance[a] => balance'[a] >= 0
  OBVIOUS
<1> USE DEF moneyVars
<1>0. \A a \in Agents : balance[a] \in Int
  BY DEF TypeInv, MoneyTypes
<1>1. ASSUME UNCHANGED balance, todo' = <<>>
      PROVE  MoneyIsThere' /\ \A a \in Agents : ~ (balance'[a] < balance[a])
  <2>1. \A a \in Agents : (SumOf(TakeTerms(todo, a)))' = 0
    BY <1>1 DEF TakeTerms, SumOf, Slots
  <2> QED BY <1>0, <1>1, <2>1 DEF MoneyIsThere
<1>2. CASE StartSpan \/ EndJob \/ EndSpan
  BY <1>1, <1>2 DEF StartSpan, EndJob, EndSpan, Idle, InJob
<1>3. ASSUME NEW a \in Agents, SettleAgent(a)
      PROVE  MoneyIsThere' /\ \A b \in Agents : ~ (balance'[b] < balance[b])
  <2>1. CurrentJob \in Positions
    BY <1>3, CurrentIsLeft DEF SettleAgent, InJob, CalendarInv, CalendarTypes
  <2>2. todo' = Settlement(CurrentJob, a) /\ UNCHANGED balance
    BY <1>3 DEF SettleAgent
  <2>3. \A b \in Agents : SumOf(TakeTerms(Settlement(CurrentJob, a), b)) < 0
                             => balance[b] + SumOf(TakeTerms(Settlement(CurrentJob, a), b)) >= 0
    BY <2>1, SettlementBills DEF TypeInv
  <2> QED BY <1>0, <2>2, <2>3 DEF MoneyIsThere, TakeTerms, SumOf
<1>4. CASE Statements
  <2>1. CASE span.active
    BY <1>4, <2>1, StatementTakes
  <2>2. CASE ~ span.active
    <3>1. UNCHANGED span
      BY <1>4, StatementsLeaveCalendar DEF calendarVars
    <3> QED BY <2>2, <3>1 DEF MoneyIsThere
  <2> QED BY <2>1, <2>2
<1>5. CASE Actions
  <2>1. ~ span.active /\ UNCHANGED span
    BY <1>5 DEF Actions, Spend, Eat, Repay, Borrow, Act, Idle, calendarVars
  <2> QED BY <2>1 DEF MoneyIsThere
<1>6. CASE Fail \/ Crash
  BY <1>1, <1>6 DEF Fail, Crash, Drop
<1>7. ASSUME NEW d \in Jumps, TimePasses(d)
      PROVE  MoneyIsThere' /\ \A a \in Agents : ~ (balance'[a] < balance[a])
  <2>1. ~ span.active /\ UNCHANGED <<span, balance>>
    BY <1>7 DEF TimePasses, Idle
  <2> QED BY <1>0, <2>1 DEF MoneyIsThere
<1>8. CASE UNCHANGED vars
  <2>1. UNCHANGED <<span, balance, todo>>
    BY <1>8 DEF vars, calendarVars
  <2> QED BY <1>0, <2>1 DEF MoneyIsThere, TakeTerms, SumOf
<1> QED BY <1>2, <1>3, <1>4, <1>5, <1>6, <1>7, <1>8 DEF Next, Calendar

\* The calendar takes only money that is there, for every town and any number of
\* faults (settle_bill, settle_bill_shortfall, try_settle_overdue).
THEOREM CalendarTakesWhatIsThere == Spec => BillsNeverOverdraw
<1>1. Init => MoneyIsThere
  BY DEF Init, NoSpan, MoneyIsThere
<1>2. Spec => []MoneyIsThere
  BY <1>1, TakesStep, CalendarInvariant, TypeInvariant, PTL DEF Spec
<1> QED BY <1>2, TakesStep, CalendarInvariant, TypeInvariant, PTL DEF Spec, BillsNeverOverdraw

-----------------------------------------------------------------------------
(***************************************************************************)
(* The warning before a move.  The calendar keeps a notice and the month   *)
(* it belongs to in two statements, a shortfall and its month in one, and  *)
(* nobody looks at a notice again: what says that a tenant was warned is   *)
(* how many months are listed.                                             *)
(***************************************************************************)
\* The schedule of calendar.py and economy.py: on the day of a rent an
\* escalation comes five minutes before it, and months follow each other.
WarnedBetweenRents ==
  \A i, j \in Positions : i < j /\ JobOf(i) = "rent" /\ JobOf(j) = "rent"
    => \E e \in Positions : i < e /\ e < j /\ JobOf(e) = "escalation"

MonthsInOrder ==
  \A d, e \in Positions : d < e /\ JobOf(d) = "escalation" /\ JobOf(e) = "escalation"
    => Schedule[d].month < Schedule[e].month

\* Without a fault the jobs are run one after the other, from the first span on.
RunsInOrder ==
  /\ first # None => saved # None /\ first <= saved
  /\ faults = 0 => \A k \in Positions : done[k] > 0 =>
       /\ IF first = None THEN span.active /\ span.from < At(k) ELSE first < At(k)
       /\ span.active => \A j \in span.jobs : k < j

\* The jobs whose settlement with a is made, if not yet run to its end.
Current(k) == span.active /\ k \in span.jobs /\ \A j \in span.jobs : k <= j
Settled(a) == {k \in Positions : done[k] > 0 \/ (Current(k) /\ a \notin span.left)}
UnderWay(a, job) ==
  \E k \in Settled(a) : Current(k) /\ JobOf(k) = job

\* What changes the arrears or the room comes last in a settlement, and a notice
\* right before the month it adds.
Closes(q) ==
  \A i \in 1..Len(q) :
    /\ q[i].op \in {"owe", "clear", "month", "move"} => i = Len(q)
    /\ q[i].op = "notice" => i = 1 /\ Len(q) = 2 /\ q[2].op = "month" /\ q[2].who = q[1].who

Closing == todo[Len(todo)]
Adds(a) == todo # <<>> /\ Closing.op = "month" /\ Closing.who = a
IsWarned(a) == \E e \in Settled(a) : JobOf(e) = "escalation" /\ noticed[a] = Schedule[e].month

\* A settlement was made for the state that it will find.
ClosingFits ==
  todo # <<>> =>
    LET s == Closing
        a == s.who
    IN  /\ s.op = "owe" /\ s.kind = "rent" =>
             s.cents > 0 /\ Len(months[a]) # 1 /\ UnderWay(a, "rent")
        /\ s.op = "month" =>
             /\ months[a] # <<>>
             /\ IF todo[1].op = "notice"
                  THEN \E k \in Settled(a) : Current(k) /\ JobOf(k) = "escalation"
                                             /\ todo[1].month = Schedule[k].month
                  ELSE IsWarned(a)
        /\ s.op = "move" =>
             /\ owed[a]["rent"] > 0
             /\ \E k \in Settled(a) : Current(k) /\ 0 < noticed[a]
                                      /\ noticed[a] < Schedule[k].month

\* Whoever owes rent has a month listed.  With one month there was no escalation
\* since; with more a notice was given.
MonthsTell ==
  \A a \in Agents :
    /\ owed[a]["rent"] = 0 <=> months[a] = <<>>
    /\ Len(months[a]) = 1 /\ ~Adds(a) =>
         \E i \in Settled(a) : /\ JobOf(i) = "rent"
                               /\ \A e \in Settled(a) : i < e => JobOf(e) # "escalation"
    /\ Len(months[a]) > 1 => IsWarned(a)

MoveInv == Closes(todo) /\ (faults = 0 => ClosingFits /\ MonthsTell)

-----------------------------------------------------------------------------
\* A job whose time is later stands later in the schedule.
LEMMA LaterStandsLater ==
  ASSUME NEW i \in Positions, NEW j \in Positions
  PROVE  /\ i \in Nat /\ j \in Nat /\ At(i) \in Nat /\ At(j) \in Nat
         /\ At(i) < At(j) => i < j
         /\ i < j => At(i) <= At(j)
<1>1. i \in Nat /\ j \in Nat /\ At(i) \in Nat /\ At(j) \in Nat
  BY ScheduleType DEF Positions
<1>2. \A k, l \in Positions : k < l => At(k) <= At(l)
  BY CalendarAssumption DEF At
<1>3. CASE i = j
  BY <1>1, <1>3
<1>4. CASE i < j
  BY <1>1, <1>2, <1>4
<1>5. CASE j < i
  BY <1>1, <1>2, <1>5
<1> QED BY <1>1, <1>3, <1>4, <1>5

\* The one job under way is the one that is run next.
LEMMA CurrentIsOne ==
  ASSUME span.jobs \subseteq Positions
  PROVE  /\ \A k : Current(k) => k = CurrentJob /\ k \in Positions
         /\ span.active /\ span.jobs # {} => Current(CurrentJob)
<1>1. span.jobs \subseteq Nat
  BY ScheduleType DEF Positions
<1>2. ASSUME NEW k, Current(k) PROVE k = CurrentJob /\ k \in Positions
  BY <1>1, <1>2 DEF Current, CurrentJob
<1>3. ASSUME span.active, span.jobs # {} PROVE Current(CurrentJob)
  <2>1. \E k \in span.jobs : \A j \in span.jobs : k <= j
    BY <1>3, FirstExists, ScheduleType DEF Positions
  <2> QED BY <1>3, <2>1 DEF Current, CurrentJob
<1> QED BY <1>2, <1>3

\* What touches neither the calendar nor what has been run.
LEMMA RunsUntouched ==
  ASSUME RunsInOrder, UNCHANGED <<saved, span, done, first, faults>>
  PROVE  RunsInOrder'
BY DEF RunsInOrder, At

\* Every step keeps the order of the jobs.
LEMMA RunsStep == CalendarInv /\ RunsInOrder /\ [Next]_vars => RunsInOrder'
<1> SUFFICES ASSUME CalendarInv, RunsInOrder, [Next]_vars PROVE RunsInOrder'
  OBVIOUS
<1>1. CASE StartSpan
  <2>1. /\ ~span.active /\ last' = From /\ UNCHANGED <<saved, done, first, faults>>
        /\ span' = NoSpan \/ (span'.jobs = DueJobs(From, now))
    BY <1>1 DEF StartSpan, Idle, jobVars, countVars
  <2>2. ASSUME faults = 0, NEW k \in Positions, done[k] > 0
        PROVE  first # None /\ first < At(k)
    BY <2>1, <2>2 DEF RunsInOrder
  <2>3. ASSUME faults = 0, NEW k \in Positions, done[k] > 0, NEW j \in span'.jobs, span'.active
        PROVE  k < j
    <3>1. last # None /\ At(k) <= last /\ From = last
      BY <2>1, <2>3 DEF CalendarInv, NotDoneAhead, From
    <3>2. j \in Positions /\ last < At(j)
      BY <2>1, <2>3, <3>1 DEF NoSpan, DueJobs, At
    <3>3. last \in Nat
      BY <3>1 DEF CalendarInv, CalendarTypes
    <3> QED BY <3>1, <3>2, <3>3, LaterStandsLater
  <2> QED BY <2>1, <2>2, <2>3 DEF RunsInOrder, At
<1>2. ASSUME NEW a \in Agents, SettleAgent(a) PROVE RunsInOrder'
  <2>1. /\ span' = [span EXCEPT !.left = @ \ {a}] /\ UNCHANGED <<saved, done, first, faults>>
    BY <1>2 DEF SettleAgent, jobVars, countVars
  <2>2. /\ span'.active = span.active /\ span'.from = span.from /\ span'.jobs = span.jobs
    BY <2>1 DEF CalendarInv, CalendarTypes
  <2> QED BY <2>1, <2>2 DEF RunsInOrder, At
<1>3. CASE EndJob
  <2> DEFINE c == CurrentJob
  <2>1. c \in span.jobs /\ c \in Positions /\ span.active /\ \A j \in span.jobs : c <= j
    <3>1. span.active /\ span.jobs # {} /\ span.jobs \subseteq Positions
      BY <1>3 DEF EndJob, InJob, CalendarInv, CalendarTypes
    <3> QED BY <3>1, CurrentIsOne DEF Current
  <2>2. /\ done' = [done EXCEPT ![c] = @ + 1]
        /\ span' = [span EXCEPT !.jobs = @ \ {c}, !.left = Agents]
        /\ UNCHANGED <<saved, first, faults>>
    BY <1>3 DEF EndJob, countVars
  <2> HIDE DEF c
  <2>3. /\ span'.active = span.active /\ span'.from = span.from
        /\ span'.jobs = span.jobs \ {c}
        /\ \A k \in Positions : k # c => done'[k] = done[k]
    BY <2>1, <2>2 DEF CalendarInv, CalendarTypes
  <2>4. ASSUME faults = 0
        PROVE  /\ IF first = None THEN span.from < At(c) ELSE first < At(c)
               /\ \A j \in span'.jobs : c < j
    <3>1. last < At(c) /\ span.from = last /\ last \in Nat /\ At(c) \in Nat
      BY <2>1, <2>4, ScheduleType DEF CalendarInv, NotDoneAhead, PositionsAgree, CalendarTypes
    <3>2. first # None => saved = last /\ first <= saved /\ first \in Nat
      BY <3>1, <2>1 DEF CalendarInv, PositionsAgree, CalendarTypes, RunsInOrder
    <3>3. \A j \in span.jobs : j \in Nat /\ c \in Nat
      BY <2>1, ScheduleType DEF CalendarInv, CalendarTypes, Positions
    <3> QED BY <2>1, <2>3, <3>1, <3>2, <3>3
  <2> QED BY <2>1, <2>2, <2>3, <2>4 DEF RunsInOrder, At
<1>4. CASE EndSpan
  <2>1. /\ span.active /\ span' = NoSpan /\ saved' = span.to
        /\ first' = IF first = None THEN span.from ELSE first
        /\ UNCHANGED <<done, faults>>
    BY <1>4 DEF EndSpan, countVars
  <2>2. /\ span.from \in Nat /\ span.to \in Nat /\ span.from < span.to /\ span.from = last
        /\ saved # None => saved = last
        /\ first \in Nat \cup {None}
    BY <2>1 DEF CalendarInv, CalendarTypes, PositionsAgree
  <2>3. saved' # None /\ first' <= saved' /\ first' # None
    BY <2>1, <2>2 DEF RunsInOrder, None
  <2>4. ASSUME faults = 0, NEW k \in Positions, done[k] > 0
        PROVE  first' < At(k)
    BY <2>1, <2>4 DEF RunsInOrder
  <2> QED BY <2>1, <2>3, <2>4 DEF RunsInOrder, NoSpan, At
<1>5. CASE Statements
  BY <1>5, StatementsLeaveCalendar, RunsUntouched DEF calendarVars, jobVars
<1>6. CASE Actions
  BY <1>6, ActionsLeaveCalendar, RunsUntouched DEF calendarVars, jobVars
<1>7. CASE Fail \/ Crash
  <2>1. faults' = faults + 1 /\ UNCHANGED <<saved, first>> /\ faults \in Nat
    BY <1>7 DEF Fail, Crash, Drop, jobVars, CalendarInv, CalendarTypes
  <2> QED BY <2>1 DEF RunsInOrder
<1>8. ASSUME NEW d \in Jumps, TimePasses(d) PROVE RunsInOrder'
  BY <1>8, RunsUntouched DEF TimePasses, jobVars, countVars
<1>9. CASE UNCHANGED vars
  BY <1>9, RunsUntouched DEF vars, calendarVars, jobVars, countVars
<1> QED BY <1>1, <1>2, <1>3, <1>4, <1>5, <1>6, <1>7, <1>8, <1>9 DEF Next, Calendar

-----------------------------------------------------------------------------
\* The job under way is the last that was settled.
LEMMA NoneAbove ==
  ASSUME CalendarInv, RunsInOrder, faults = 0, NEW a \in Agents, NEW k, Current(k),
         NEW e \in Settled(a)
  PROVE  k \in Nat /\ e \in Nat /\ e <= k
<1>1. span.active /\ k \in span.jobs /\ span.jobs \subseteq Positions /\ e \in Positions
  BY DEF Current, CalendarInv, CalendarTypes, Settled
<1>2. k \in Nat /\ e \in Nat
  BY <1>1, ScheduleType DEF Positions
<1>3. CASE done[e] > 0
  BY <1>1, <1>2, <1>3 DEF RunsInOrder
<1>4. CASE Current(e)
  BY <1>1, <1>4, CurrentIsOne, <1>2
<1> QED BY <1>2, <1>3, <1>4 DEF Settled

\* A settlement begins after all earlier ones, and none in between was left out.
LEMMA SettlesNext ==
  ASSUME CalendarInv, RunsInOrder, faults = 0, NEW a \in Agents, SettleAgent(a)
  PROVE  LET c == CurrentJob
         IN  /\ c \in Positions /\ Current(c) /\ c \in Nat
             /\ \A k \in Settled(a) : k \in Nat /\ k < c
             /\ \A k \in Settled(a), e \in Positions : k < e /\ e < c => e \in Settled(a)
<1> DEFINE c == CurrentJob
<1>1. /\ span.active /\ span.jobs # {} /\ span.jobs \subseteq Positions /\ a \in span.left
  BY DEF SettleAgent, InJob, CalendarInv, CalendarTypes
<1>2. c \in span.jobs /\ c \in Positions /\ Current(c) /\ \A j \in span.jobs : c <= j
  BY <1>1, CurrentIsOne DEF Current
<1> HIDE DEF c
<1>3. Settled(a) = {k \in Positions : done[k] > 0}
  BY <1>1 DEF Settled
<1>4. c \in Nat /\ \A k \in Positions : k \in Nat
  BY <1>2, ScheduleType DEF Positions
<1>5. ASSUME NEW k \in Settled(a) PROVE k \in Nat /\ k < c
  BY <1>1, <1>2, <1>3, <1>4 DEF RunsInOrder
<1>6. ASSUME NEW k \in Settled(a), NEW e \in Positions, k < e, e < c PROVE done[e] > 0
  <2>1. k \in Positions /\ done[k] > 0 /\ At(k) <= At(e) /\ At(e) <= At(c)
    BY <1>2, <1>3, <1>6, LaterStandsLater
  <2>2. /\ At(k) \in Nat /\ At(e) \in Nat /\ At(c) \in Nat /\ span.from \in Nat
        /\ span.to \in Nat /\ At(c) <= span.to
    BY <1>1, <1>2, LaterStandsLater, <2>1 DEF CalendarInv, CalendarTypes, NotDoneAhead
  <2>3. e \notin span.jobs
    BY <1>2, <1>4, <1>6
  <2>4. CASE span.from < At(e)
    BY <1>1, <2>1, <2>2, <2>3, <2>4 DEF CalendarInv, DoneBehind
  <2>5. CASE At(e) <= span.from
    <3>1. first # None
      BY <2>1, <2>2, <2>5 DEF RunsInOrder
    <3>2. first \in Nat /\ first < At(k) /\ saved # None /\ saved = span.from
      BY <1>1, <2>1, <3>1 DEF RunsInOrder, CalendarInv, CalendarTypes, PositionsAgree
    <3> QED BY <2>1, <2>2, <2>5, <3>2 DEF CalendarInv, DoneBehind
  <2> QED BY <2>2, <2>4, <2>5
<1> QED BY <1>2, <1>3, <1>4, <1>5, <1>6 DEF c

\* Which settlements are made changes with nothing but making one, as long as there is
\* no fault.
LEMMA SettledStays ==
  ASSUME CalendarInv, StartSpan \/ EndJob \/ EndSpan \/ UNCHANGED <<span, done>>
  PROVE  \A a \in Agents : Settled(a)' = Settled(a)
<1>1. CASE UNCHANGED <<span, done>>
  BY <1>1 DEF Settled, Current
<1>2. CASE StartSpan
  <2>1. ~span.active /\ UNCHANGED done /\ (span' = NoSpan \/ span'.left = Agents)
    BY <1>2 DEF StartSpan, Idle, jobVars
  <2> QED BY <2>1 DEF Settled, Current, NoSpan
<1>3. CASE EndSpan
  <2>1. span.jobs = {} /\ UNCHANGED done /\ span' = NoSpan
    BY <1>3 DEF EndSpan
  <2> QED BY <2>1 DEF Settled, Current, NoSpan
<1>4. CASE EndJob
  <2> DEFINE c == CurrentJob
  <2>1. span.active /\ span.jobs # {} /\ span.jobs \subseteq Positions /\ span.left = {}
    BY <1>4 DEF EndJob, InJob, CalendarInv, CalendarTypes
  <2>2. c \in Positions /\ \A k : Current(k) <=> k = c
    BY <2>1, CurrentIsOne
  <2>3. done' = [done EXCEPT ![c] = @ + 1]
        /\ span' = [span EXCEPT !.jobs = @ \ {c}, !.left = Agents]
    BY <1>4 DEF EndJob
  <2> HIDE DEF c
  <2>4. span'.left = Agents /\ done \in [Positions -> Nat]
    BY <2>3 DEF CalendarInv, CalendarTypes
  <2>5. \A k \in Positions : done'[k] > 0 <=> done[k] > 0 \/ k = c
    BY <2>2, <2>3, <2>4
  <2> QED BY <2>1, <2>2, <2>4, <2>5 DEF Settled
<1> QED BY <1>1, <1>2, <1>3, <1>4

\* A settlement adds the job under way for the one it is of.
LEMMA SettledGrows ==
  ASSUME CalendarInv, NEW a \in Agents, SettleAgent(a), NEW b \in Agents
  PROVE  /\ Settled(b)' = IF b = a THEN Settled(b) \cup {CurrentJob} ELSE Settled(b)
         /\ \A k : Current(k)' <=> Current(k)
<1> DEFINE c == CurrentJob
<1>1. span.active /\ span.jobs # {} /\ span.jobs \subseteq Positions /\ a \in span.left
      /\ span' = [span EXCEPT !.left = @ \ {a}] /\ UNCHANGED done
  BY DEF SettleAgent, InJob, CalendarInv, CalendarTypes, jobVars
<1>2. c \in Positions /\ \A k : Current(k) <=> k = c
  BY <1>1, CurrentIsOne
<1>3. span'.active = span.active /\ span'.jobs = span.jobs /\ span'.left = span.left \ {a}
  BY <1>1 DEF CalendarInv, CalendarTypes
<1>4. \A k : Current(k)' <=> Current(k)
  BY <1>3 DEF Current
<1> HIDE DEF c
<1>5. Settled(b)' = {k \in Positions : done[k] > 0 \/ (k = c /\ b \notin (span.left \ {a}))}
  BY <1>1, <1>2, <1>3, <1>4 DEF Settled
<1>6. Settled(b) = {k \in Positions : done[k] > 0 \/ (k = c /\ b \notin span.left)}
  BY <1>2 DEF Settled
<1>7. Settled(b)' = IF b = a THEN Settled(b) \cup {c} ELSE Settled(b)
  <2>1. CASE b = a
    BY <1>1, <1>2, <1>5, <1>6, <2>1
  <2>2. CASE b # a
    BY <1>5, <1>6, <2>2
  <2> QED BY <2>1, <2>2, Zenon
<1> QED BY <1>4, <1>7 DEF c

-----------------------------------------------------------------------------
\* What the settlement of a job does to the arrears and the room it does last, for the
\* one it is of and as its job is.
LEMMA SettlementCloses ==
  ASSUME MoneyTypes, NEW j \in Positions, NEW a \in Agents
  PROVE  LET q == Settlement(j, a)
             s == q[Len(q)]
         IN  /\ Closes(q) /\ \A i \in 1..Len(q) : q[i].who = a
             /\ q # <<>> => /\ s.op = "owe" /\ s.kind = "rent" => JobOf(j) = "rent" /\ s.cents > 0
                            /\ s.op = "month" => JobOf(j) = "escalation" /\ owed[a]["rent"] # 0
                                 /\ q[1].op = "notice" /\ q[1].month = Schedule[j].month
                            /\ s.op = "move" => JobOf(j) = "escalation" /\ owed[a]["rent"] # 0
                                                /\ ~ (Len(months[a]) < 2)
             /\ JobOf(j) = "escalation" /\ owed[a]["rent"] # 0 /\ Len(months[a]) < 2
                  => q # <<>> /\ s.op = "month"
<1> DEFINE q == Settlement(j, a)
           Good(r) ==
             /\ Closes(r) /\ \A i \in 1..Len(r) : r[i].who = a
             /\ r # <<>> =>
                  /\ r[Len(r)].op = "owe" /\ r[Len(r)].kind = "rent"
                       => JobOf(j) = "rent" /\ r[Len(r)].cents > 0
                  /\ r[Len(r)].op = "month" => JobOf(j) = "escalation" /\ owed[a]["rent"] # 0
                       /\ r[1].op = "notice" /\ r[1].month = Schedule[j].month
                  /\ r[Len(r)].op = "move" => JobOf(j) = "escalation" /\ owed[a]["rent"] # 0
                                              /\ ~ (Len(months[a]) < 2)
             /\ JobOf(j) = "escalation" /\ owed[a]["rent"] # 0 /\ Len(months[a]) < 2
                  => r # <<>> /\ r[Len(r)].op = "month"
<1> SUFFICES Good(q)
  OBVIOUS
<1>1. JobOf(j) \in Jobs
  BY ScheduleEntries
<1>2. balance[a] \in Int
  BY DEF MoneyTypes
<1>3. ASSUME NEW due \in Nat, NEW k \in Bills, NEW m, JobOf(j) = k
      PROVE  Good(Bill(a, k, due, m))
  <2>1. k # "escalation" /\ (k = "rent" => JobOf(j) = "rent")
    BY <1>3 DEF Bills
  <2>2. CASE balance[a] >= due
    <3>1. Bill(a, k, due, m) = <<Event(a, k, -due), Charge(a, -due)>>
      BY <2>2 DEF Bill
    <3> QED BY <1>3, <2>1, <3>1 DEF Closes, Event, Charge
  <2>3. CASE balance[a] < due /\ balance[a] > 0
    <3>1. /\ Bill(a, k, due, m) = <<Event(a, k, -balance[a]), Charge(a, -balance[a]),
                                    Owe(a, k, due - balance[a], m)>>
          /\ due - balance[a] > 0
      BY <1>2, <2>3 DEF Bill
    <3> QED BY <1>3, <2>1, <3>1 DEF Closes, Event, Charge, Owe
  <2>4. CASE balance[a] < due /\ ~ (balance[a] > 0)
    <3>1. /\ Bill(a, k, due, m) = <<Event(a, k, -balance[a]), Owe(a, k, due - balance[a], m)>>
          /\ due - balance[a] > 0
      BY <1>2, <2>4 DEF Bill
    <3> QED BY <1>3, <2>1, <3>1 DEF Closes, Event, Owe
  <2> QED BY <1>2, <2>2, <2>3, <2>4
<1>4. ASSUME JobOf(j) # "escalation" PROVE Good(<<>>)
  BY <1>4 DEF Closes
<1>5. CASE JobOf(j) = "payroll"
  <2>1. q = <<Event(a, "other", Net[a]), Charge(a, Net[a])>>
    BY <1>5 DEF Settlement, Payroll
  <2> QED BY <1>5, <2>1 DEF Closes, Event, Charge
<1>6. CASE JobOf(j) = "rent"
  <2>1. q = RentBill(a, Schedule[j].month)
    BY <1>6 DEF Settlement
  <2>2. CASE room[a] = 0
    <3>1. q = <<>>
      BY <2>1, <2>2 DEF RentBill
    <3> HIDE DEF q, Good
    <3> QED BY <1>4, <1>6, <3>1
  <2>3. CASE room[a] # 0
    <3>1. q = Bill(a, "rent", Rent[room[a]], Schedule[j].month) /\ Rent[room[a]] \in Nat
      BY <2>1, <2>3, DueTypes DEF RentBill
    <3>2. "rent" \in Bills
      BY DEF Bills
    <3> HIDE DEF q, Good
    <3> QED BY <1>3, <1>6, <3>1, <3>2
  <2> QED BY <2>2, <2>3
<1>7. CASE JobOf(j) = "utility"
  <2>1. q = Bill(a, "utility", Utility, Schedule[j].month) /\ Utility \in Nat
    BY <1>7, DueTypes DEF Settlement
  <2>2. "utility" \in Bills
    BY DEF Bills
  <2> HIDE DEF q, Good
  <2> QED BY <1>3, <1>7, <2>1, <2>2
<1>8. CASE JobOf(j) = "scan"
  <2>1. q = Scan(a)
    BY <1>8 DEF Settlement
  <2>2. \/ q = <<>>
        \/ \E K : q = <<PayEvent(a, "rent"), PayCharge(a, "rent"),
                        PayEvent(a, "utility"), PayCharge(a, "utility"), Clear(a, K)>>
        \/ \E k, K : q = <<PayEvent(a, k), PayCharge(a, k), Clear(a, K)>>
    BY <2>1, Zenon DEF Scan
  <2> HIDE DEF q
  <2>3. ASSUME NEW K, q = <<PayEvent(a, "rent"), PayCharge(a, "rent"),
                            PayEvent(a, "utility"), PayCharge(a, "utility"), Clear(a, K)>>
        PROVE  Good(q)
    BY <1>8, <2>3 DEF Closes, PayEvent, PayCharge, Event, Charge, Clear
  <2>4. ASSUME NEW k, NEW K, q = <<PayEvent(a, k), PayCharge(a, k), Clear(a, K)>>
        PROVE  Good(q)
    BY <1>8, <2>4 DEF Closes, PayEvent, PayCharge, Event, Charge, Clear
  <2> HIDE DEF Good
  <2> QED BY <1>4, <1>8, <2>2, <2>3, <2>4
<1>9. CASE JobOf(j) = "escalation"
  <2>1. q = Escalation(a, Schedule[j].month)
    BY <1>9 DEF Settlement
  <2> HIDE DEF q
  <2>2. CASE owed[a]["rent"] = 0
    <3>1. q = <<>>
      BY <2>1, <2>2 DEF Escalation
    <3> QED BY <2>2, <3>1 DEF Closes
  <2>3. CASE owed[a]["rent"] # 0 /\ Len(months[a]) < 2
    <3>1. q = <<Notice(a, Schedule[j].month), AddMonth(a, Schedule[j].month)>>
      BY <2>1, <2>3 DEF Escalation
    <3> QED BY <1>9, <2>3, <3>1 DEF Closes, Notice, AddMonth
  <2>4. CASE owed[a]["rent"] # 0 /\ ~ (Len(months[a]) < 2)
    <3>1. q = <<>> \/ \E r : q = <<Move(a, r)>>
      BY <2>1, <2>4, Zenon DEF Escalation
    <3> QED BY <1>9, <2>4, <3>1 DEF Closes, Move
  <2> QED BY <2>2, <2>3, <2>4
<1> QED BY <1>1, <1>5, <1>6, <1>7, <1>8, <1>9 DEF Jobs

-----------------------------------------------------------------------------
\* Nobody owes rent, and nothing is under way, as the world begins.
LEMMA MoveInit == Init => RunsInOrder /\ MoveInv
<1> SUFFICES ASSUME Init PROVE RunsInOrder /\ MoveInv
  OBVIOUS
<1>1. RunsInOrder
  BY DEF Init, RunsInOrder
<1>2. Closes(todo) /\ ClosingFits
  BY DEF Init, Closes, ClosingFits
<1>3. MonthsTell
  <2>1. \A a \in Agents : owed[a]["rent"] = 0 /\ months[a] = <<>>
    BY DEF Init, Bills
  <2> QED BY <2>1 DEF MonthsTell
<1> QED BY <1>1, <1>2, <1>3 DEF MoveInv

\* A settlement is made for the state it finds.
LEMMA SettleMoves ==
  ASSUME WarnedBetweenRents, MonthsInOrder, TypeInv, CalendarInv, RunsInOrder, MoveInv,
         NEW a \in Agents, SettleAgent(a)
  PROVE  MoveInv'
<1>0. PICK c : c = CurrentJob
  OBVIOUS
<1> DEFINE q == Settlement(c, a)
<1>1. todo = <<>> /\ todo' = q /\ UNCHANGED <<owed, months, room, noticed, faults>>
  BY <1>0 DEF SettleAgent, InJob, arrearsVars, countVars
<1>2. c \in Positions /\ Current(c)
  <2>1. span.active /\ span.jobs # {} /\ span.jobs \subseteq Positions
    BY DEF SettleAgent, InJob, CalendarInv, CalendarTypes
  <2> QED BY <1>0, <2>1, CurrentIsOne
<1>3. /\ Closes(q) /\ \A i \in 1..Len(q) : q[i].who = a
      /\ q # <<>> =>
           /\ q[Len(q)].op = "owe" /\ q[Len(q)].kind = "rent"
                => JobOf(c) = "rent" /\ q[Len(q)].cents > 0
           /\ q[Len(q)].op = "month" => JobOf(c) = "escalation" /\ owed[a]["rent"] # 0
                /\ q[1].op = "notice" /\ q[1].month = Schedule[c].month
           /\ q[Len(q)].op = "move" => JobOf(c) = "escalation" /\ owed[a]["rent"] # 0
                                       /\ ~ (Len(months[a]) < 2)
      /\ JobOf(c) = "escalation" /\ owed[a]["rent"] # 0 /\ Len(months[a]) < 2
           => q # <<>> /\ q[Len(q)].op = "month"
  BY <1>2, SettlementCloses DEF TypeInv
<1>4. /\ q \in Seq(Statement)
      /\ q # <<>> => Len(q) \in 1..Len(q) /\ q[Len(q)].who = a
  <2>1. q \in Seq(Statement)
    BY <1>2, SettlementSound DEF TypeInv, Short
  <2> HIDE DEF q
  <2> QED BY <1>3, <2>1
<1>5. SUFFICES ASSUME faults = 0 PROVE ClosingFits' /\ MonthsTell'
  BY <1>1, <1>3 DEF MoveInv
<1>6. /\ c \in Nat /\ \A k \in Settled(a) : k \in Nat /\ k < c
      /\ \A k \in Settled(a), e \in Positions : k < e /\ e < c => e \in Settled(a)
  BY <1>0, <1>5, SettlesNext
<1>7. /\ Settled(a)' = Settled(a) \cup {c}
      /\ \A b \in Agents : b # a => Settled(b)' = Settled(b)
      /\ \A k : Current(k)' <=> Current(k)
  BY <1>0, SettledGrows
<1> HIDE DEF q
<1>8. ClosingFits /\ MonthsTell /\ \A b \in Agents : ~Adds(b)
  BY <1>1, <1>5 DEF MoveInv, Adds
<1>9. \A b \in Agents : /\ owed[b]["rent"] \in Nat
                        /\ Len(months[b]) \in Nat /\ (Len(months[b]) = 0 <=> months[b] = <<>>)
  <2> SUFFICES ASSUME NEW b \in Agents
               PROVE  /\ owed[b]["rent"] \in Nat /\ Len(months[b]) \in Nat
                      /\ (Len(months[b]) = 0 <=> months[b] = <<>>)
    OBVIOUS
  <2>1. months[b] \in Seq(Months) /\ owed[b] \in [Bills -> Nat] /\ "rent" \in Bills
    BY DEF TypeInv, MoneyTypes, Bills
  <2> QED BY <2>1
<1>10. Settled(a) \subseteq Positions
  BY DEF Settled
<1>11. ClosingFits'
  <2> DEFINE s == q[Len(q)]
  <2>0. SUFFICES ASSUME q # <<>>
                 PROVE  /\ s.op = "owe" /\ s.kind = "rent" =>
                             s.cents > 0 /\ Len(months[a]) # 1 /\ UnderWay(a, "rent")'
                        /\ s.op = "month" =>
                             /\ months[a] # <<>>
                             /\ q[1].op = "notice"
                             /\ \E k \in Settled(a)' : Current(k)' /\ JobOf(k) = "escalation"
                                                       /\ q[1].month = Schedule[k].month
                        /\ s.op = "move" =>
                             /\ owed[a]["rent"] > 0
                             /\ \E k \in Settled(a)' : Current(k)' /\ 0 < noticed[a]
                                                      /\ noticed[a] < Schedule[k].month
    BY <1>1, <1>4 DEF ClosingFits, Closing, UnderWay
  <2>1. c \in Settled(a)' /\ Current(c)'
    BY <1>2, <1>7
  <2>2. ASSUME s.op = "owe" /\ s.kind = "rent"
        PROVE  s.cents > 0 /\ Len(months[a]) # 1 /\ UnderWay(a, "rent")'
    <3>1. JobOf(c) = "rent" /\ s.cents > 0
      BY <1>3, <2>0, <2>2
    <3>2. ASSUME Len(months[a]) = 1 PROVE FALSE
      <4>1. PICK i \in Settled(a) : /\ JobOf(i) = "rent"
                                    /\ \A e \in Settled(a) : i < e => JobOf(e) # "escalation"
        BY <1>8, <3>2 DEF MonthsTell
      <4>2. PICK e \in Positions : i < e /\ e < c /\ JobOf(e) = "escalation"
        BY <1>2, <1>6, <1>10, <3>1, <4>1 DEF WarnedBetweenRents
      <4> QED BY <1>6, <4>1, <4>2
    <3>3. UnderWay(a, "rent")'
      BY <2>1, <3>1 DEF UnderWay, JobOf
    <3> QED BY <3>1, <3>2, <3>3
  <2>3. ASSUME s.op = "month"
        PROVE  /\ months[a] # <<>>
               /\ q[1].op = "notice"
               /\ \E k \in Settled(a)' : Current(k)' /\ JobOf(k) = "escalation"
                                         /\ q[1].month = Schedule[k].month
    <3>1. JobOf(c) = "escalation" /\ owed[a]["rent"] # 0
          /\ q[1].op = "notice" /\ q[1].month = Schedule[c].month
      BY <1>3, <2>0, <2>3
    <3>2. months[a] # <<>>
      BY <1>8, <3>1 DEF MonthsTell
    <3> QED BY <2>1, <3>1, <3>2
  <2>4. ASSUME s.op = "move"
        PROVE  /\ owed[a]["rent"] > 0
               /\ \E k \in Settled(a)' : Current(k)' /\ 0 < noticed[a]
                                         /\ noticed[a] < Schedule[k].month
    <3>1. JobOf(c) = "escalation" /\ owed[a]["rent"] # 0 /\ ~ (Len(months[a]) < 2)
      BY <1>3, <2>0, <2>4
    <3>2. PICK e \in Settled(a) : JobOf(e) = "escalation" /\ noticed[a] = Schedule[e].month
      BY <1>8, <1>9, <3>1 DEF MonthsTell, IsWarned
    <3>3. Schedule[e].month < Schedule[c].month
      BY <1>2, <1>6, <1>10, <3>1, <3>2 DEF MonthsInOrder
    <3>4. Schedule[e].month \in Nat /\ Schedule[e].month > 0
      BY <1>10, ScheduleEntries DEF Months
    <3> QED BY <1>9, <2>1, <3>1, <3>2, <3>3, <3>4
  <2> QED BY <2>2, <2>3, <2>4
<1>12. MonthsTell'
  <2> SUFFICES ASSUME NEW b \in Agents
               PROVE  /\ owed[b]["rent"] = 0 <=> months[b] = <<>>
                      /\ Len(months[b]) = 1 /\ ~Adds(b)' =>
                           \E i \in Settled(b)' :
                              /\ JobOf(i) = "rent"
                              /\ \A e \in Settled(b)' : i < e => JobOf(e) # "escalation"
                      /\ Len(months[b]) > 1 => IsWarned(b)'
    BY <1>1 DEF MonthsTell, JobOf
  <2>1. owed[b]["rent"] = 0 <=> months[b] = <<>>
    BY <1>8 DEF MonthsTell
  <2>2. Settled(b) \subseteq Settled(b)'
    BY <1>7
  <2>3. Len(months[b]) > 1 => IsWarned(b)'
    BY <1>1, <1>8, <2>2 DEF MonthsTell, IsWarned, JobOf
  <2>4. ASSUME Len(months[b]) = 1, ~Adds(b)'
        PROVE  \E i \in Settled(b)' :
                  /\ JobOf(i) = "rent"
                  /\ \A e \in Settled(b)' : i < e => JobOf(e) # "escalation"
    <3>1. PICK i \in Settled(b) : /\ JobOf(i) = "rent"
                                  /\ \A e \in Settled(b) : i < e => JobOf(e) # "escalation"
      BY <1>8, <2>4 DEF MonthsTell
    <3>2. CASE b # a
      BY <1>7, <3>1, <3>2
    <3>3. CASE b = a
      <4>1. JobOf(c) # "escalation"
        <5> SUFFICES ASSUME JobOf(c) = "escalation" PROVE Adds(a)'
          BY <2>4, <3>3
        <5>1. owed[a]["rent"] # 0 /\ Len(months[a]) < 2
          <6>1. Len(months[a]) = 1 /\ (owed[a]["rent"] = 0 <=> months[a] = <<>>)
            BY <2>1, <2>4, <3>3
          <6>2. Len(months[a]) = 0 <=> months[a] = <<>>
            BY <1>9, Zenon
          <6> QED BY <6>1, <6>2
        <5>2. q # <<>> /\ q[Len(q)].op = "month" /\ q[Len(q)].who = a
          BY <1>3, <1>4, <5>1
        <5> QED BY <1>1, <5>2 DEF Adds, Closing
      <4> QED BY <1>7, <3>1, <3>3, <4>1
    <3> QED BY <3>2, <3>3
  <2> QED BY <2>1, <2>3, <2>4
<1> QED BY <1>11, <1>12

\* The last statement is somebody's.
LEMMA ClosingType ==
  ASSUME TypeInv, todo # <<>>
  PROVE  /\ Closing \in Statement /\ Closing.who \in Agents
         /\ Len(todo) \in 1..5 /\ Len(todo) \in 1..Len(todo)
<1>1. todo \in Seq(Statement) /\ Len(todo) \in 1..5
  BY TailFacts DEF TypeInv, MoneyTypes, TodoFits
<1>2. Closing \in Statement
  BY <1>1 DEF Closing
<1> QED BY <1>1, <1>2, StatementFields

\* What changes neither the settlement in progress nor what it is about.
LEMMA MoveUntouched ==
  ASSUME TypeInv, MoveInv, UNCHANGED <<todo, owed, months, noticed, faults>>,
         \A a \in Agents : Settled(a)' = Settled(a),
         todo = <<>> \/ UNCHANGED span
  PROVE  MoveInv'
<1>0. todo' = todo
  OBVIOUS
<1>1. /\ Closes(todo)' /\ Closing' = Closing
      /\ \A a \in Agents : Adds(a)' <=> Adds(a)
  BY <1>0 DEF MoveInv, Closes, Closing, Adds
<1>2. SUFFICES ASSUME faults = 0 PROVE ClosingFits' /\ MonthsTell'
  BY <1>1 DEF MoveInv
<1>3. MonthsTell'
  BY <1>1, <1>2 DEF MoveInv, MonthsTell, IsWarned, JobOf
<1>4. CASE todo = <<>>
  BY <1>0, <1>3, <1>4 DEF ClosingFits
<1>5. CASE todo # <<>>
  <2>1. \A k : Current(k)' <=> Current(k)
    BY <1>5 DEF Current
  <2>2. Closing.who \in Agents
    BY <1>5, ClosingType
  <2>3. /\ Settled(Closing.who)' = Settled(Closing.who)
        /\ UnderWay(Closing.who, "rent")' <=> UnderWay(Closing.who, "rent")
    BY <1>1, <2>1, <2>2 DEF UnderWay, JobOf
  <2> QED BY <1>0, <1>1, <1>2, <1>3, <1>5, <2>1, <2>2, <2>3
          DEF MoveInv, ClosingFits, IsWarned, JobOf
<1> QED BY <1>4, <1>5

\* A statement keeps them.
LEMMA StatementMoves ==
  ASSUME TypeInv, CalendarInv, RunsInOrder, MoveInv, Statements
  PROVE  MoveInv'
<1>0. PICK s : s = Head(todo)
  OBVIOUS
<1> USE <1>0
<1>1. todo # <<>> /\ todo' = Tail(todo) /\ UNCHANGED <<span, done, faults>>
  BY StatementsLeaveCalendar
     DEF Statements, DoEvent, DoCharge, DoLend, DoPayBack, DoOwe, DoClear, DoNotice, DoAddMonth,
         DoMove, Next1, calendarVars, jobVars
<1>2. /\ s \in Statement /\ s = todo[1] /\ s.who \in Agents
      /\ Len(todo) \in 1..5 /\ Len(todo') = Len(todo) - 1
      /\ \A i \in 1..Len(todo') : todo'[i] = todo[i + 1]
  BY <1>1, TailFits, StatementFields DEF TypeInv, MoneyTypes
<1>3. /\ s.op \notin {"owe", "clear", "month"} => UNCHANGED <<owed, months>>
      /\ s.op # "notice" => UNCHANGED noticed
      /\ s.op = "notice" => noticed' = [noticed EXCEPT ![s.who] = s.month]
  BY DEF Statements, DoEvent, DoCharge, DoLend, DoPayBack, DoOwe, DoClear, DoNotice, DoAddMonth,
         DoMove, Next1, S, arrearsVars, billVars
<1>4. /\ s.op = "owe" =>
           /\ owed' = [owed EXCEPT ![s.who][s.kind] = @ + s.cents]
           /\ months' = IF s.kind = "rent" /\ s.month \notin Range(months[s.who])
                          THEN [months EXCEPT ![s.who] = Append(@, s.month)] ELSE months
      /\ s.op = "clear" =>
           /\ owed' = [owed EXCEPT ![s.who] = [k \in Bills |-> IF k \in s.kinds THEN 0 ELSE @[k]]]
           /\ months' = IF "rent" \in s.kinds THEN [months EXCEPT ![s.who] = <<>>] ELSE months
      /\ s.op = "month" =>
           /\ owed' = owed /\ months' = [months EXCEPT ![s.who] = Append(@, s.month)]
  BY DEF Statements, DoEvent, DoCharge, DoLend, DoPayBack, DoOwe, DoClear, DoNotice, DoAddMonth,
         DoMove, Next1, S
<1>5. /\ \A a \in Agents : Settled(a)' = Settled(a)
      /\ \A k : Current(k)' <=> Current(k)
  BY <1>1, SettledStays DEF Current
<1>6. Closes(todo) /\ Closes(todo)'
  <2>1. ASSUME NEW i \in 1..Len(todo')
        PROVE  /\ i + 1 \in 1..Len(todo) /\ i + 1 # 1 /\ todo'[i] = todo[i + 1]
               /\ i + 1 = Len(todo) => i = Len(todo')
    BY <1>2
  <2> QED BY <2>1 DEF MoveInv, Closes
<1>7. SUFFICES ASSUME faults = 0 PROVE ClosingFits' /\ MonthsTell'
  BY <1>1, <1>6 DEF MoveInv
<1>8. ClosingFits /\ MonthsTell
  BY <1>7 DEF MoveInv
<1>9. \A a \in Agents : /\ owed[a] \in [Bills -> Nat] /\ owed[a]["rent"] \in Nat
                        /\ months[a] \in Seq(Months) /\ Len(months[a]) \in Nat
                        /\ Len(months[a]) = 0 <=> months[a] = <<>>
  <2> SUFFICES ASSUME NEW a \in Agents
               PROVE  /\ owed[a] \in [Bills -> Nat] /\ owed[a]["rent"] \in Nat
                      /\ months[a] \in Seq(Months) /\ Len(months[a]) \in Nat
                      /\ Len(months[a]) = 0 <=> months[a] = <<>>
    OBVIOUS
  <2>1. months[a] \in Seq(Months) /\ owed[a] \in [Bills -> Nat] /\ "rent" \in Bills
    BY DEF TypeInv, MoneyTypes, Bills
  <2> QED BY <2>1
<1>10. CASE Len(todo) = 1
  <2>1. todo' = <<>> /\ Closing = s
    <3>1. Len(todo') = 0 /\ todo' \in Seq(Statement)
      BY <1>1, <1>2, <1>10, TailFits
    <3> QED BY <1>2, <1>10, <3>1 DEF Closing
  <2>2. ClosingFits' /\ \A a \in Agents : ~Adds(a)'
    BY <2>1 DEF ClosingFits, Adds
  <2>3. s.op # "notice" /\ UNCHANGED noticed
    <3>1. s.op # "notice"
      BY <1>2, <1>6, <1>10 DEF Closes
    <3> QED BY <1>3, <3>1
  <2>4. SUFFICES ASSUME NEW a \in Agents
                 PROVE  /\ owed'[a]["rent"] = 0 <=> months'[a] = <<>>
                        /\ Len(months'[a]) = 1 =>
                             \E i \in Settled(a) :
                                /\ JobOf(i) = "rent"
                                /\ \A e \in Settled(a) : i < e => JobOf(e) # "escalation"
                        /\ Len(months'[a]) > 1 => IsWarned(a)
    BY <1>5, <2>2, <2>3 DEF MonthsTell, IsWarned, JobOf
  <2>5. /\ owed[a]["rent"] = 0 <=> months[a] = <<>>
        /\ Len(months[a]) = 1 /\ ~Adds(a) =>
             \E i \in Settled(a) :
                /\ JobOf(i) = "rent"
                /\ \A e \in Settled(a) : i < e => JobOf(e) # "escalation"
        /\ Len(months[a]) > 1 => IsWarned(a)
    BY <1>8 DEF MonthsTell
  <2>6. Adds(a) <=> s.op = "month" /\ s.who = a
    BY <1>1, <2>1 DEF Adds
  <2>7. CASE s.who # a \/ s.op \notin {"owe", "clear", "month"}
    <3>1. owed'[a] = owed[a] /\ months'[a] = months[a]
      <4>1. owed \in [Agents -> [Bills -> Nat]] /\ months \in [Agents -> Seq(Months)]
        BY DEF TypeInv, MoneyTypes
      <4>2. CASE s.op \notin {"owe", "clear", "month"}
        BY <1>3, <4>2
      <4>3. CASE s.who # a /\ s.op \in {"owe", "clear", "month"}
        BY <1>2, <1>4, <4>1, <4>3
      <4> QED BY <2>7, <4>2, <4>3
    <3>2. ~Adds(a)
      BY <2>6, <2>7
    <3> QED BY <2>5, <3>1, <3>2
  <2>8. CASE s.who = a /\ s.op = "owe" /\ s.kind = "rent"
    <3>1. s.cents > 0 /\ Len(months[a]) # 1 /\ UnderWay(a, "rent") /\ s.cents \in Nat
          /\ s.month \in Months
      BY <1>1, <1>2, <1>8, <2>1, <2>8, StatementFields DEF ClosingFits
    <3>2. owed'[a]["rent"] > 0
      <4>1. owed' = [owed EXCEPT ![a]["rent"] = @ + s.cents] /\ "rent" \in Bills
        BY <1>4, <2>8 DEF Bills
      <4>2. owed \in [Agents -> [Bills -> Nat]]
        BY DEF TypeInv, MoneyTypes
      <4>3. owed'[a]["rent"] = owed[a]["rent"] + s.cents
        BY <4>1, <4>2
      <4> QED BY <1>9, <3>1, <4>3
    <3>3. months'[a] = Append(months[a], s.month) \/ (months'[a] = months[a] /\ months[a] # <<>>)
      <4>1. months \in [Agents -> Seq(Months)]
        BY DEF TypeInv, MoneyTypes
      <4>2. months[a] = <<>> => Range(months[a]) = {}
        BY DEF Range
      <4> QED BY <1>4, <2>8, <4>1, <4>2
    <3>4. CASE months[a] = <<>>
      <4>1. months'[a] = <<s.month>>
        BY <3>3, <3>4
      <4>2. PICK i \in Settled(a) : Current(i) /\ JobOf(i) = "rent"
        BY <3>1 DEF UnderWay
      <4>3. \A e \in Settled(a) : ~ (i < e)
        <5> SUFFICES ASSUME NEW e \in Settled(a) PROVE ~ (i < e)
          OBVIOUS
        <5>1. i \in Nat /\ e \in Nat /\ e <= i
          BY <1>7, <4>2, NoneAbove
        <5> QED BY <5>1
      <4>4. months'[a] # <<>> /\ Len(months'[a]) = 1
        BY <4>1
      <4> QED BY <3>2, <4>2, <4>3, <4>4
    <3>5. CASE months[a] # <<>>
      <4>1. Len(months[a]) > 1
        <5>1. Len(months[a]) \in Nat /\ Len(months[a]) # 0 /\ Len(months[a]) # 1
          BY <1>9, <3>1, <3>5, Zenon
        <5>2. \A n \in Nat : n # 0 /\ n # 1 => n > 1
          OBVIOUS
        <5> QED BY <5>1, <5>2, Zenon
      <4>2. Len(months'[a]) > 1 /\ Len(months'[a]) # 1 /\ months'[a] # <<>>
        <5>1. months[a] \in Seq(Months)
          BY <1>9
        <5> QED BY <3>1, <3>3, <4>1, <5>1
      <4>3. IsWarned(a)
        BY <2>5, <4>1, Zenon
      <4>4. owed'[a]["rent"] # 0
        BY <3>2
      <4> QED BY <4>2, <4>3, <4>4, Zenon
    <3> QED BY <3>4, <3>5
  <2>9. CASE s.who = a /\ s.op = "owe" /\ s.kind # "rent"
    <3>1. months'[a] = months[a]
      BY <1>4, <2>9
    <3>2. owed'[a]["rent"] = owed[a]["rent"]
      <4>1. owed' = [owed EXCEPT ![a][s.kind] = @ + s.cents] /\ "rent" \in Bills
        BY <1>4, <2>9 DEF Bills
      <4>2. owed \in [Agents -> [Bills -> Nat]]
        BY DEF TypeInv, MoneyTypes
      <4> QED BY <2>9, <4>1, <4>2
    <3> QED BY <2>5, <2>6, <2>9, <3>1, <3>2
  <2>10. CASE s.who = a /\ s.op = "clear"
    <3>1. "rent" \in Bills /\ owed \in [Agents -> [Bills -> Nat]]
          /\ months \in [Agents -> Seq(Months)]
      BY DEF Bills, TypeInv, MoneyTypes
    <3>2. owed'[a]["rent"] = IF "rent" \in s.kinds THEN 0 ELSE owed[a]["rent"]
      BY <1>4, <2>10, <3>1
    <3>3. months'[a] = IF "rent" \in s.kinds THEN <<>> ELSE months[a]
      BY <1>4, <2>10, <3>1
    <3>4. CASE "rent" \in s.kinds
      <4>1. owed'[a]["rent"] = 0 /\ months'[a] = <<>>
        BY <3>2, <3>3, <3>4
      <4> QED BY <4>1
    <3>5. CASE "rent" \notin s.kinds
      <4>1. owed'[a]["rent"] = owed[a]["rent"] /\ months'[a] = months[a]
        BY <3>2, <3>3, <3>5
      <4> QED BY <2>5, <2>6, <2>10, <4>1
    <3> QED BY <3>4, <3>5
  <2>11. CASE s.who = a /\ s.op = "month"
    <3>1. months[a] # <<>> /\ IsWarned(a)
      BY <1>1, <1>2, <1>8, <2>1, <2>3, <2>11 DEF ClosingFits
    <3>2. owed'[a] = owed[a] /\ months'[a] = Append(months[a], s.month) /\ s.month \in Months
      <4>1. months \in [Agents -> Seq(Months)]
        BY DEF TypeInv, MoneyTypes
      <4> QED BY <1>2, <1>4, <2>11, <4>1, StatementFields
    <3>3. Len(months[a]) \in Nat /\ Len(months[a]) # 0 /\ months[a] \in Seq(Months)
      BY <1>9, <3>1, Zenon
    <3>4. Len(months'[a]) > 1 /\ months'[a] # <<>>
      BY <3>2, <3>3
    <3> QED BY <2>5, <3>1, <3>2, <3>4
  <2> QED BY <2>7, <2>8, <2>9, <2>10, <2>11
<1>11. CASE Len(todo) > 1
  <2>1. /\ todo' # <<>> /\ Closing' = Closing /\ Closing.who \in Agents
        /\ todo'[1] = todo[2]
    <3>1. Len(todo') \in Nat /\ Len(todo') # 0 /\ Len(todo') \in 1..Len(todo')
          /\ 1 \in 1..Len(todo') /\ Len(todo') + 1 = Len(todo) /\ todo' \in Seq(Statement)
      BY <1>1, <1>2, <1>11, TailFits
    <3> QED BY <1>1, <1>2, <3>1, ClosingType DEF Closing
  <2>2. \A a \in Agents : Adds(a)' <=> Adds(a)
    BY <1>1, <2>1 DEF Adds
  <2>3. /\ s.op \notin {"owe", "clear", "month"} /\ UNCHANGED <<owed, months>>
        /\ todo'[1].op # "notice"
    <3>1. 1 \in 1..Len(todo) /\ 1 # Len(todo) /\ 2 \in 1..Len(todo) /\ 2 # 1
      BY <1>2, <1>11
    <3> QED BY <1>2, <1>3, <1>6, <2>1, <3>1 DEF Closes
  <2>4. CASE s.op = "notice"
    <3>1. Len(todo) = 2 /\ Closing.op = "month" /\ Closing.who = s.who
      BY <1>2, <1>6, <2>4 DEF Closes, Closing
    <3>2. PICK k \in Settled(s.who) : JobOf(k) = "escalation" /\ s.month = Schedule[k].month
      BY <1>1, <1>2, <1>8, <2>4, <3>1 DEF ClosingFits
    <3>3. /\ noticed'[s.who] = s.month
          /\ \A a \in Agents : a # s.who => noticed'[a] = noticed[a]
      <4>1. noticed \in [Agents -> Nat]
        BY DEF TypeInv, MoneyTypes
      <4> QED BY <1>2, <1>3, <2>4, <4>1
    <3>4. IsWarned(s.who)'
      BY <1>2, <1>5, <3>2, <3>3 DEF IsWarned, JobOf
    <3>5. \A a \in Agents : IsWarned(a) => IsWarned(a)'
      BY <1>5, <3>3, <3>4 DEF IsWarned, JobOf
    <3>6. MonthsTell'
      BY <1>5, <1>8, <2>2, <2>3, <3>5 DEF MonthsTell, JobOf
    <3>7. ClosingFits'
      <4>1. months'[s.who] # <<>> /\ Closing'.op = "month" /\ Closing'.who = s.who
        BY <1>1, <1>8, <2>1, <2>3, <3>1 DEF ClosingFits
      <4> QED BY <2>3, <3>4, <4>1 DEF ClosingFits
    <3> QED BY <3>6, <3>7
  <2>5. CASE s.op # "notice"
    <3>1. UNCHANGED noticed /\ todo[1].op # "notice"
      BY <1>2, <1>3, <2>5
    <3>2. \A a \in Agents : IsWarned(a)' <=> IsWarned(a)
      BY <1>5, <3>1 DEF IsWarned, JobOf
    <3>3. \A a \in Agents : UnderWay(a, "rent")' <=> UnderWay(a, "rent")
      BY <1>5 DEF UnderWay, JobOf
    <3>4. MonthsTell'
      BY <1>5, <1>8, <2>2, <2>3, <3>2 DEF MonthsTell, JobOf
    <3>5. Settled(Closing.who)' = Settled(Closing.who)
      BY <1>5, <2>1
    <3>6. ClosingFits'
      BY <1>1, <1>5, <1>8, <2>1, <2>3, <3>1, <3>2, <3>3, <3>5 DEF ClosingFits
    <3> QED BY <3>4, <3>6
  <2> QED BY <2>4, <2>5
<1> QED BY <1>2, <1>10, <1>11

\* What agents do has nothing to do with rooms and arrears.
LEMMA ActsAlone ==
  ASSUME TypeInv, Actions
  PROVE  /\ todo = <<>> /\ UNCHANGED <<owed, months, noticed, faults, span, done>>
         /\ todo' \in Seq(Statement)
         /\ \A i \in 1..Len(todo') : todo'[i].op \in {"event", "charge", "lend", "payback"}
<1>1. todo' \in Seq(Statement)
  BY ActTypes DEF TypeInv, MoneyTypes
<1>2. todo = <<>> /\ UNCHANGED <<owed, months, noticed, faults, span, done>>
  BY DEF Actions, Spend, Eat, Repay, Borrow, Act, Idle, calendarVars, arrearsVars, billVars,
         jobVars
<1>3. \A a, k, x : Event(a, k, x).op = "event"
  BY DEF Event
<1>4. \A a, x : Charge(a, x).op = "charge"
  BY DEF Charge
<1>5. \A l, b, x : Lend(l, b, x).op = "lend" /\ PayBack(l, b, x).op = "payback"
  BY DEF Lend, PayBack
<1>6. \E e1, e2, e3, e4 :
        /\ {e1.op, e2.op, e3.op, e4.op} \subseteq {"event", "charge", "lend", "payback"}
        /\ todo' \in {<<e1>>, <<e1, e2>>, <<e1, e2, e3, e4>>}
  <2>1. PICK a \in Agents :
          \/ Eat(a)
          \/ \E x \in Prices :
               \/ Spend(a, x)
               \/ \E l \in Agents : Repay(a, l, x) \/ \E r \in Results : Borrow(a, l, x, r)
    BY DEF Actions
  <2>2. \/ \E x : todo' = <<Charge(a, x), Event(a, "other", x)>>
        \/ \E x, l : todo' = <<PayBack(l, a, x), Charge(a, -x), Charge(l, x),
                                Event(a, "other", -x)>>
        \/ \E x, l : todo' = <<Event(a, "other", x), Lend(l, a, x), Charge(l, -x), Charge(a, x)>>
        \/ \E x : todo' = <<Event(a, "other", x)>>
    BY <2>1, Zenon DEF Eat, Spend, Repay, Borrow, Act
  <2> QED BY <1>3, <1>4, <1>5, <2>2
<1> QED BY <1>1, <1>2, <1>6

-----------------------------------------------------------------------------
\* So does every other step.
LEMMA MoveStep ==
  ASSUME WarnedBetweenRents, MonthsInOrder
  PROVE  TypeInv /\ CalendarInv /\ RunsInOrder /\ MoveInv /\ [Next]_vars => MoveInv'
<1> SUFFICES ASSUME TypeInv, CalendarInv, RunsInOrder, MoveInv, [Next]_vars PROVE MoveInv'
  OBVIOUS
<1>1. CASE StartSpan \/ EndJob \/ EndSpan
  <2>1. todo = <<>> /\ UNCHANGED <<todo, owed, months, noticed, faults>>
    BY <1>1 DEF StartSpan, EndJob, EndSpan, Idle, InJob, arrearsVars, billVars, countVars
  <2> QED BY <1>1, <2>1, SettledStays, MoveUntouched
<1>2. ASSUME NEW a \in Agents, SettleAgent(a) PROVE MoveInv'
  BY <1>2, SettleMoves
<1>3. CASE Statements
  BY <1>3, StatementMoves
<1>4. CASE Actions
  <2>1. PICK q : q = todo'
    OBVIOUS
  <2>2. /\ todo = <<>> /\ UNCHANGED <<owed, months, noticed, faults, span, done>>
        /\ q \in Seq(Statement)
        /\ \A i \in 1..Len(q) : q[i].op \in {"event", "charge", "lend", "payback"}
    BY <1>4, <2>1, ActsAlone
  <2>3. \A a \in Agents : Settled(a)' = Settled(a)
    BY <2>2, SettledStays
  <2>4. Closes(todo)'
    BY <2>1, <2>2 DEF Closes
  <2>5. q # <<>> => q[Len(q)].op \in {"event", "charge", "lend", "payback"}
    BY <2>2
  <2>6. ClosingFits' /\ \A a \in Agents : ~Adds(a)' /\ ~Adds(a)
    BY <2>1, <2>2, <2>5 DEF ClosingFits, Adds, Closing
  <2>7. MonthsTell => MonthsTell'
    BY <2>2, <2>3, <2>6 DEF MonthsTell, IsWarned, JobOf
  <2> QED BY <2>2, <2>4, <2>6, <2>7 DEF MoveInv
<1>5. CASE Fail \/ Crash
  <2>1. todo' = <<>> /\ faults' # 0
    BY <1>5 DEF Fail, Crash, Drop, CalendarInv, CalendarTypes
  <2> QED BY <2>1 DEF MoveInv, Closes
<1>6. ASSUME NEW d \in Jumps, TimePasses(d) PROVE MoveInv'
  <2>1. todo = <<>> /\ UNCHANGED <<todo, span, done, owed, months, noticed, faults>>
    BY <1>6 DEF TimePasses, Idle, arrearsVars, billVars, jobVars, countVars
  <2> QED BY <2>1, SettledStays, MoveUntouched
<1>7. CASE UNCHANGED vars
  <2>1. UNCHANGED <<todo, span, done, owed, months, noticed, faults>>
    BY <1>7 DEF vars, calendarVars, arrearsVars, billVars, jobVars, countVars
  <2> QED BY <2>1, SettledStays, MoveUntouched
<1> QED BY <1>1, <1>2, <1>3, <1>4, <1>5, <1>6, <1>7 DEF Next, Calendar

\* A room changes with a move only, and a move was settled by an escalation.
LEMMA MovesAreWarned ==
  TypeInv /\ CalendarInv /\ RunsInOrder /\ MoveInv /\ [Next]_vars =>
    (faults = 0 => \A a \in Agents :
       room'[a] # room[a] =>
         /\ noticed[a] > 0 /\ noticed[a] < Schedule[CurrentJob].month
         /\ owed[a]["rent"] > 0)
<1> SUFFICES ASSUME TypeInv, CalendarInv, RunsInOrder, MoveInv, [Next]_vars, faults = 0,
                    NEW a \in Agents, room'[a] # room[a]
             PROVE  /\ noticed[a] > 0 /\ noticed[a] < Schedule[CurrentJob].month
                    /\ owed[a]["rent"] > 0
  OBVIOUS
<1>1. DoMove
  BY DEF Next, Calendar, StartSpan, SettleAgent, EndJob, EndSpan, Statements, DoEvent, DoCharge,
         DoLend, DoPayBack, DoOwe, DoClear, DoNotice, DoAddMonth, Actions, Spend, Eat, Borrow,
         Repay, Act, Fail, Crash, Drop, TimePasses, arrearsVars, vars
<1>2. PICK s : s = Head(todo)
  OBVIOUS
<1>3. todo # <<>> /\ s.op = "move" /\ room' = [room EXCEPT ![s.who] = s.room]
  BY <1>1, <1>2 DEF DoMove, Next1, S
<1>4. s = todo[1] /\ 1 \in 1..Len(todo)
  BY <1>2, <1>3, ClosingType DEF TypeInv, MoneyTypes
<1>5. Closing = s
  BY <1>3, <1>4 DEF MoveInv, Closes, Closing
<1>6. s.who = a
  <2>1. room \in [Agents -> 0..Rooms]
    BY DEF TypeInv, MoneyTypes
  <2> QED BY <1>3, <2>1
<1>7. owed[a]["rent"] > 0 /\ \E k \in Settled(a) : Current(k) /\ 0 < noticed[a]
                                                 /\ noticed[a] < Schedule[k].month
  BY <1>3, <1>5, <1>6 DEF MoveInv, ClosingFits
<1>8. span.jobs \subseteq Positions
  BY DEF CalendarInv, CalendarTypes
<1>9. PICK k \in Settled(a) : Current(k) /\ 0 < noticed[a] /\ noticed[a] < Schedule[k].month
  BY <1>7
<1>10. k = CurrentJob
  BY <1>8, <1>9, CurrentIsOne
<1>11. noticed[a] \in Nat
  BY DEF TypeInv, MoneyTypes
<1> QED BY <1>7, <1>9, <1>10, <1>11

\* Without a fault nobody is moved out of a room who has not had a notice in an earlier
\* month and still owes rent, in a schedule in which each rent is preceded by an escalation
\* of its own month (settle_overdue_escalation, register_overdue_jobs).
THEOREM WarnedBeforeMoved ==
  ASSUME WarnedBetweenRents, MonthsInOrder
  PROVE  Spec => MovedAfterNotice
<1>1. TypeInv /\ CalendarInv /\ RunsInOrder /\ MoveInv /\ [Next]_vars => MoveInv'
  BY MoveStep
<1>2. Spec => [](RunsInOrder /\ MoveInv)
  BY <1>1, MoveInit, RunsStep, CalendarInvariant, TypeInvariant, PTL DEF Spec
<1>3. TypeInv /\ CalendarInv /\ RunsInOrder /\ MoveInv /\ [Next]_vars =>
        [faults = 0 => \A a \in Agents :
           room'[a] # room[a] =>
             /\ noticed[a] > 0 /\ noticed[a] < Schedule[CurrentJob].month
             /\ owed[a]["rent"] > 0]_vars
  BY MovesAreWarned
<1> QED BY <1>2, <1>3, CalendarInvariant, TypeInvariant, PTL DEF Spec, MovedAfterNotice
=============================================================================
