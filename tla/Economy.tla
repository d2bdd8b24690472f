------------------------------- MODULE Economy -------------------------------
(***************************************************************************)
(* Money and the calendar that moves it.                                   *)
(*                                                                         *)
(*   calendar  world_agent/calendar.py settles, at each beat, every job    *)
(*             whose time has come since the last position it has saved;   *)
(*   jobs      world_agent/economy.py: wages, rent, utilities, arrears;    *)
(*   actions   adjudicator/validators.py: what agents spend, lend, repay.  *)
(*                                                                         *)
(* All of them run on the adjudication coroutine, one at a time, but each  *)
(* is several statements, committed one by one: an event in the log, a     *)
(* change of a balance, a row of arrears.  A settlement is the sequence of *)
(* its statements; a crash or an exception drops the rest.                 *)
(***************************************************************************)
EXTENDS Integers, Sequences, Functions

CONSTANTS
  NumAgents,    \* agents are numbered in the order of their ids
  Rooms,        \* numbered in the order find_vacant_room tries them
  Home,         \* Home[a]: the room of a, 0 for one who lives elsewhere
  StartBalance, \* StartBalance[a]
  Net,          \* Net[a]: the month's wage less the commuting pass
  Rent,         \* Rent[r]: by the floor of room r
  Utility,      \* the month's utility bill
  Meal,         \* what a meal costs
  Prices,       \* what a shop, a gift or a share may cost; what may be lent
  Results,      \* answers to a request for a loan
  Schedule,     \* the jobs in the order of their times: [at, job, month]
  StartLoan,    \* StartLoan[l][b]: the loans b has from l as the world begins
  Jumps,        \* how far time moves from beat to beat: a tick, a batch
  MaxNow, MaxActs, MaxFaults  \* bounds

None == -1
Agents == 1..NumAgents
Bills == {"rent", "utility"}
Kinds == Bills \cup {"other"}
Jobs == {"payroll", "rent", "utility", "escalation", "scan"}
Positions == 1..Len(Schedule)

ASSUME MoneyAssumption ==
  /\ NumAgents \in Nat /\ Rooms \in Nat
  /\ Home \in [Agents -> 0..Rooms] /\ StartBalance \in [Agents -> Nat]
  /\ Net \in [Agents -> Nat] /\ Rent \in [1..Rooms -> Nat \ {0}]
  /\ {Utility, Meal} \subseteq Nat \ {0} /\ Prices \subseteq Nat \ {0}
  /\ StartLoan \in [Agents -> [Agents -> Seq(Nat \ {0})]]
  /\ Results \subseteq {"accepted", "rejected"}

ASSUME CalendarAssumption ==
  /\ Schedule \in Seq([at : Nat \ {0}, job : Jobs, month : Nat \ {0}])
  /\ \A i, j \in Positions : i < j => Schedule[i].at <= Schedule[j].at
  /\ {MaxNow, MaxActs, MaxFaults} \subseteq Nat /\ Jumps \subseteq Nat \ {0}

VARIABLES
  now,      \* simulated time
  saved,    \* the row calendar.last_settled, None before the first
  last,     \* CalendarEngine._last_settled
  span,     \* settle_span: [from, to], the jobs and agents left
  todo,     \* the statements left of the settlement in progress
  balance,  \* agents.balance_cents
  booked,   \* booked[a][k]: sum of amount_cents over the events of a and kind
  loan,     \* debts, by lender and borrower: what is left of each open row
  owed,     \* world_state overdue.<a>: owed_cents of each kind of bill
  months,   \* ... and the months its rent entry lists as unpaid, in order
  room,     \* agents.room_no
  billed,   \* history: what has been charged, paid or not
  lent,     \* history: loans made less loans repaid, by lender
  noticed,  \* history: month of the last notice
  done,     \* history: how often each job has been run to its end
  first,    \* history: where the first span that was saved began
  off,      \* history: agents whose settlement was cut short, who were in
            \* the red or whose request for a loan was refused
  acts, faults

calendarVars == <<now, saved, last, span>>
moneyVars == <<balance, booked, loan>>
arrearsVars == <<owed, months, room>>
billVars == <<billed, noticed>>
jobVars == <<done, first>>
countVars == <<acts, faults>>
vars == <<calendarVars, todo, moneyVars, arrearsVars, billVars, jobVars, lent, off, countVars>>

NoSpan == [active |-> FALSE, from |-> 0, to |-> 0, jobs |-> {}, left |-> {}]
Idle == ~span.active /\ todo = <<>>

(***************************************************************************)
(* Statements.                                                             *)
(***************************************************************************)
Event(a, kind, cents) == [op |-> "event", who |-> a, kind |-> kind, cents |-> cents]
Charge(a, cents) == [op |-> "charge", who |-> a, cents |-> cents]
Lend(l, b, cents) == [op |-> "lend", who |-> l, to |-> b, cents |-> cents]
PayBack(l, b, cents) == [op |-> "payback", who |-> l, to |-> b, cents |-> cents]
Owe(a, kind, cents, month) ==
  [op |-> "owe", who |-> a, kind |-> kind, cents |-> cents, month |-> month]
Clear(a, kinds) == [op |-> "clear", who |-> a, kinds |-> kinds]
Notice(a, month) == [op |-> "notice", who |-> a, month |-> month]
AddMonth(a, month) == [op |-> "month", who |-> a, month |-> month]
Move(a, r) == [op |-> "move", who |-> a, room |-> r]

Months == Nat \ {0}
Statement ==
  [op : {"event"}, who : Agents, kind : Kinds, cents : Int]
    \cup [op : {"charge"}, who : Agents, cents : Int]
    \cup [op : {"lend", "payback"}, who : Agents, to : Agents, cents : Nat \ {0}]
    \cup [op : {"owe"}, who : Agents, kind : Bills, cents : Nat, month : Months]
    \cup [op : {"clear"}, who : Agents, kinds : SUBSET Bills]
    \cup [op : {"notice", "month"}, who : Agents, month : Months]
    \cup [op : {"move"}, who : Agents, room : 1..Rooms]

(***************************************************************************)
(* What each job does to an agent.                                         *)
(***************************************************************************)
Payroll(a) == <<Event(a, "other", Net[a]), Charge(a, Net[a])>>

\* Mutant: what is taken and what is owed are confused.
BillOwesAll(a, kind, due, month) ==
  IF balance[a] >= due THEN <<Event(a, kind, -due), Charge(a, -due)>>
  ELSE <<Event(a, kind, -balance[a]), Charge(a, -balance[a]), Owe(a, kind, due, month)>>

\* Mutant: the event of a shortfall carries the whole bill.
BillBooksAll(a, kind, due, month) ==
  IF balance[a] >= due THEN <<Event(a, kind, -due), Charge(a, -due)>>
  ELSE <<Event(a, kind, -due), Charge(a, -balance[a]), Owe(a, kind, due - balance[a], month)>>

\* settle_bill; without the money for it, settle_bill_shortfall: the balance
\* goes to 0 and the rest is written down, the event carries what was taken.
Bill(a, kind, due, month) ==
  IF balance[a] >= due THEN <<Event(a, kind, -due), Charge(a, -due)>>
  ELSE IF balance[a] > 0
    THEN <<Event(a, kind, -balance[a]), Charge(a, -balance[a]),
           Owe(a, kind, due - balance[a], month)>>
    ELSE <<Event(a, kind, -balance[a]), Owe(a, kind, due - balance[a], month)>>

RentBill(a, month) == IF room[a] = 0 THEN <<>> ELSE Bill(a, "rent", Rent[room[a]], month)

\* Mutant: the second bill is compared with the balance before the first.
LeftUntouched(a) == balance[a]

\* try_settle_overdue: what can be paid in full is paid, rent first.
PaysRent(a) == owed[a]["rent"] > 0 /\ balance[a] >= owed[a]["rent"]
LeftAfterRent(a) == IF PaysRent(a) THEN balance[a] - owed[a]["rent"] ELSE balance[a]

PaysUtility(a) == owed[a]["utility"] > 0 /\ LeftAfterRent(a) >= owed[a]["utility"]
PayEvent(a, kind) == Event(a, kind, -owed[a][kind])
PayCharge(a, kind) == Charge(a, -owed[a][kind])

Scan(a) ==
  IF PaysRent(a) THEN
    IF PaysUtility(a)
      THEN <<PayEvent(a, "rent"), PayCharge(a, "rent"),
             PayEvent(a, "utility"), PayCharge(a, "utility"), Clear(a, Bills)>>
      ELSE <<PayEvent(a, "rent"), PayCharge(a, "rent"), Clear(a, {"rent"})>>
  ELSE IF PaysUtility(a)
    THEN <<PayEvent(a, "utility"), PayCharge(a, "utility"), Clear(a, {"utility"})>>
  ELSE <<>>

\* settle_overdue_escalation: a notice in the second month, a move in the
\* third and after, to the first room nobody lives in (without one the
\* director is told, who touches nothing here).
Vacant == {r \in 1..Rooms : \A a \in Agents : room[a] # r}
Cheapest(R) == CHOOSE r \in R : \A s \in R : r <= s

\* Mutant: the month of the first shortfall counts as the warning.
EscalationEarly(a, month) ==
  IF owed[a]["rent"] = 0 THEN <<>>
  ELSE IF Vacant # {} THEN <<Move(a, Cheapest(Vacant))>> ELSE <<>>

Escalation(a, month) ==
  IF owed[a]["rent"] = 0 THEN <<>>
  ELSE IF Len(months[a]) < 2 THEN <<Notice(a, month), AddMonth(a, month)>>
  ELSE IF Vacant # {} THEN <<Move(a, Cheapest(Vacant))>> ELSE <<>>

JobOf(k) == Schedule[k].job
Settlement(k, a) ==
  CASE JobOf(k) = "payroll" -> Payroll(a)
    [] JobOf(k) = "rent" -> RentBill(a, Schedule[k].month)
    [] JobOf(k) = "utility" -> Bill(a, "utility", Utility, Schedule[k].month)
    [] JobOf(k) = "scan" -> Scan(a)
    [] JobOf(k) = "escalation" -> Escalation(a, Schedule[k].month)

DueBill(k, a) ==
  CASE JobOf(k) = "rent" /\ room[a] # 0 -> [rent |-> Rent[room[a]], utility |-> 0]
    [] JobOf(k) = "utility" -> [rent |-> 0, utility |-> Utility]
    [] OTHER -> [rent |-> 0, utility |-> 0]

Init ==
  /\ now = 0 /\ saved = None /\ last = None /\ span = NoSpan /\ todo = <<>>
  /\ balance = StartBalance /\ booked = [a \in Agents |-> [k \in Kinds |-> 0]]
  /\ loan = StartLoan
  /\ owed = [a \in Agents |-> [k \in Bills |-> 0]] /\ months = [a \in Agents |-> <<>>]
  /\ room = Home
  /\ billed = [a \in Agents |-> [k \in Bills |-> 0]] /\ lent = [a \in Agents |-> 0]
  /\ noticed = [a \in Agents |-> 0]
  /\ done = [k \in Positions |-> 0] /\ first = None /\ off = {}
  /\ acts = 0 /\ faults = 0

(***************************************************************************)
(* CalendarEngine: tick and run_batch_calendar both settle (_last, now].   *)
(***************************************************************************)
From == IF last # None THEN last ELSE IF saved # None THEN saved ELSE now

\* Mutant: the span is closed on both sides.
DueJobsClosed(from, to) == {k \in Positions : from <= Schedule[k].at /\ Schedule[k].at <= to}

DueJobs(from, to) == {k \in Positions : from < Schedule[k].at /\ Schedule[k].at <= to}

StartSpan ==
  /\ Idle /\ last' = From
  /\ span' = IF now <= From THEN NoSpan
             ELSE [active |-> TRUE, from |-> From, to |-> now,
                   jobs |-> DueJobs(From, now), left |-> Agents]
  /\ UNCHANGED <<now, saved, todo, moneyVars, arrearsVars, billVars, jobVars, lent, off,
                 countVars>>

CurrentJob == CHOOSE k \in span.jobs : \A j \in span.jobs : k <= j
InJob == span.active /\ span.jobs # {} /\ todo = <<>>

SettleAgent(a) ==
  /\ InJob /\ a \in span.left /\ \A b \in span.left : a <= b
  /\ todo' = Settlement(CurrentJob, a)
  /\ billed' = [billed EXCEPT ![a] = [k \in Bills |-> @[k] + DueBill(CurrentJob, a)[k]]]
  /\ span' = [span EXCEPT !.left = @ \ {a}]
  /\ UNCHANGED <<now, saved, last, moneyVars, arrearsVars, noticed, jobVars, lent, off,
                 countVars>>

\* Mutant: the position is saved as each job ends, at the end of its span.
EndJobSaving ==
  /\ InJob /\ span.left = {}
  /\ done' = [done EXCEPT ![CurrentJob] = @ + 1]
  /\ span' = [span EXCEPT !.jobs = @ \ {CurrentJob}, !.left = Agents]
  /\ saved' = span.to /\ last' = span.to
  /\ first' = IF first = None THEN span.from ELSE first
  /\ UNCHANGED <<now, todo, moneyVars, arrearsVars, billVars, lent, off, countVars>>

EndJob ==
  /\ InJob /\ span.left = {}
  /\ done' = [done EXCEPT ![CurrentJob] = @ + 1]
  /\ span' = [span EXCEPT !.jobs = @ \ {CurrentJob}, !.left = Agents]
  /\ UNCHANGED <<now, saved, last, todo, moneyVars, arrearsVars, billVars, first, lent, off,
                 countVars>>

EndSpan ==
  /\ span.active /\ span.jobs = {} /\ todo = <<>>
  /\ saved' = span.to /\ last' = span.to /\ span' = NoSpan
  /\ first' = IF first = None THEN span.from ELSE first
  /\ UNCHANGED <<now, todo, moneyVars, arrearsVars, billVars, done, lent, off, countVars>>

(***************************************************************************)
(* What agents do.  Each decision is checked against the state read just   *)
(* before its settlement (_settle_one).                                    *)
(***************************************************************************)
Act(statements) ==
  /\ Idle /\ acts < MaxActs /\ acts' = acts + 1
  /\ todo' = statements
  /\ UNCHANGED <<calendarVars, moneyVars, arrearsVars, billVars, jobVars, lent, faults>>

\* shop, give_gift, trade_stock (buying)
Spend(a, x) ==
  /\ balance[a] >= x /\ UNCHANGED off
  /\ Act(<<Charge(a, -x), Event(a, "other", -x)>>)

\* eat is not checked against the balance.
Eat(a) == UNCHANGED off /\ Act(<<Charge(a, -Meal), Event(a, "other", -Meal)>>)

Borrow(b, l, x, result) ==
  /\ b # l /\ balance[l] >= x
  /\ IF result = "accepted"
       THEN /\ Act(<<Event(b, "other", x), Lend(l, b, x), Charge(l, -x), Charge(b, x)>>)
            /\ UNCHANGED off
       ELSE Act(<<Event(b, "other", x)>>) /\ off' = off \cup {b}

Repay(b, l, x) ==
  /\ b # l /\ balance[b] >= x /\ loan[l][b] # <<>> /\ x <= Head(loan[l][b]) /\ UNCHANGED off
  /\ Act(<<PayBack(l, b, x), Charge(b, -x), Charge(l, x), Event(b, "other", -x)>>)

(***************************************************************************)
(* The statements, one at a time.                                          *)
(***************************************************************************)
Next1(op) == todo # <<>> /\ Head(todo).op = op /\ todo' = Tail(todo)
S == Head(todo)

DoEvent ==
  /\ Next1("event")
  /\ booked' = [booked EXCEPT ![S.who][S.kind] = @ + S.cents]
  /\ UNCHANGED <<calendarVars, balance, loan, arrearsVars, billVars, jobVars, lent, off,
                 countVars>>

DoCharge ==
  /\ Next1("charge")
  /\ balance' = [balance EXCEPT ![S.who] = @ + S.cents]
  /\ off' = IF balance[S.who] + S.cents < 0 THEN off \cup {S.who} ELSE off
  /\ UNCHANGED <<calendarVars, booked, loan, arrearsVars, billVars, jobVars, lent, countVars>>

DoLend ==
  /\ Next1("lend")
  /\ loan' = [loan EXCEPT ![S.who][S.to] = Append(@, S.cents)]
  /\ lent' = [lent EXCEPT ![S.who] = @ + S.cents]
  /\ UNCHANGED <<calendarVars, balance, booked, arrearsVars, billVars, jobVars, off, countVars>>

\* Mutant: a loan paid back in full stays among the open ones.
DoPayBackKeeping ==
  /\ Next1("payback")
  /\ loan' = [loan EXCEPT ![S.who][S.to] = <<Head(@) - S.cents>> \o Tail(@)]
  /\ lent' = [lent EXCEPT ![S.who] = @ - S.cents]
  /\ UNCHANGED <<calendarVars, balance, booked, arrearsVars, billVars, jobVars, off, countVars>>

DoPayBack ==
  /\ Next1("payback")
  /\ LET rows == loan[S.who][S.to]
         left == Head(rows) - S.cents
     IN  loan' = [loan EXCEPT ![S.who][S.to] =
                    IF left = 0 THEN Tail(rows) ELSE <<left>> \o Tail(rows)]
  /\ lent' = [lent EXCEPT ![S.who] = @ - S.cents]
  /\ UNCHANGED <<calendarVars, balance, booked, arrearsVars, billVars, jobVars, off, countVars>>

DoOwe ==
  /\ Next1("owe")
  /\ owed' = [owed EXCEPT ![S.who][S.kind] = @ + S.cents]
  /\ months' = IF S.kind = "rent" /\ S.month \notin Range(months[S.who])
                 THEN [months EXCEPT ![S.who] = Append(@, S.month)] ELSE months
  /\ UNCHANGED <<calendarVars, moneyVars, room, billVars, jobVars, lent, off, countVars>>

DoClear ==
  /\ Next1("clear")
  /\ owed' = [owed EXCEPT ![S.who] = [k \in Bills |-> IF k \in S.kinds THEN 0 ELSE @[k]]]
  /\ months' = IF "rent" \in S.kinds THEN [months EXCEPT ![S.who] = <<>>] ELSE months
  /\ UNCHANGED <<calendarVars, moneyVars, room, billVars, jobVars, lent, off, countVars>>

DoNotice ==
  /\ Next1("notice")
  /\ noticed' = [noticed EXCEPT ![S.who] = S.month]
  /\ UNCHANGED <<calendarVars, moneyVars, arrearsVars, billed, jobVars, lent, off, countVars>>

DoAddMonth ==
  /\ Next1("month")
  /\ months' = [months EXCEPT ![S.who] = Append(@, S.month)]
  /\ UNCHANGED <<calendarVars, moneyVars, owed, room, billVars, jobVars, lent, off, countVars>>

DoMove ==
  /\ Next1("move")
  /\ room' = [room EXCEPT ![S.who] = S.room]
  /\ UNCHANGED <<calendarVars, moneyVars, owed, months, billVars, jobVars, lent, off, countVars>>

(***************************************************************************)
(* Faults and time.                                                        *)
(***************************************************************************)
Drop ==
  /\ faults < MaxFaults /\ faults' = faults + 1
  /\ span' = NoSpan /\ todo' = <<>>
  /\ off' = off \cup {todo[i].who : i \in DOMAIN todo}
  /\ UNCHANGED <<now, saved, moneyVars, arrearsVars, billVars, jobVars, lent, acts>>

\* An exception (the database, the LLM chain) ends the beat.
Fail == ~Idle /\ Drop /\ UNCHANGED last

\* The process ends; the next one reads its position from the row.
Crash == Drop /\ last' = None

\* A span ends at the time at which it began; what passes during it belongs to
\* the next one.
TimePasses(d) ==
  /\ Idle /\ now + d <= MaxNow /\ now' = now + d
  /\ UNCHANGED <<saved, last, span, todo, moneyVars, arrearsVars, billVars, jobVars, lent, off,
                 countVars>>

-----------------------------------------------------------------------------
Calendar == StartSpan \/ (\E a \in Agents : SettleAgent(a)) \/ EndJob \/ EndSpan

Statements ==
  DoEvent \/ DoCharge \/ DoLend \/ DoPayBack \/ DoOwe \/ DoClear \/ DoNotice \/ DoAddMonth \/ DoMove

Actions ==
  \E a \in Agents :
    \/ Eat(a)
    \/ \E x \in Prices :
         \/ Spend(a, x)
         \/ \E l \in Agents : Repay(a, l, x) \/ \E r \in Results : Borrow(a, l, x, r)

Next ==
  Calendar \/ Statements \/ Actions \/ Fail \/ Crash \/ \E d \in Jumps : TimePasses(d)

Spec == Init /\ [][Next]_vars

-----------------------------------------------------------------------------
(***************************************************************************)
(* Properties.                                                             *)
(***************************************************************************)
TypeOK ==
  /\ now \in Nat /\ saved \in Nat \cup {None} /\ last \in Nat \cup {None}
  /\ span \in [active : BOOLEAN, from : Nat, to : Nat,
               jobs : SUBSET Positions, left : SUBSET Agents]
  /\ todo \in Seq(Statement)
  /\ balance \in [Agents -> Int] /\ booked \in [Agents -> [Kinds -> Int]]
  /\ loan \in [Agents -> [Agents -> Seq(Nat \ {0})]] /\ lent \in [Agents -> Int]
  /\ owed \in [Agents -> [Bills -> Nat]] /\ months \in [Agents -> Seq(Months)]
  /\ room \in [Agents -> 0..Rooms]
  /\ billed \in [Agents -> [Bills -> Nat]] /\ noticed \in [Agents -> Nat]
  /\ done \in [Positions -> Nat] /\ first \in Nat \cup {None} /\ off \subseteq Agents
  /\ acts \in Nat /\ faults \in Nat

Booked(a) == booked[a]["rent"] + booked[a]["utility"] + booked[a]["other"]

\* The sum the audit takes (01_balance_conservation.sql), agent by agent: at
\* rest a balance is what the agent began with, plus the events, less what it
\* has lent since and not got back.  Only a settlement cut short, a balance in
\* the red or a loan refused puts an agent's books out.
BooksAgree ==
  todo = <<>> =>
    \A a \in Agents \ off : balance[a] = StartBalance[a] + Booked(a) - lent[a]

\* Every bill is paid, by events of its kind, or owed, and never both: over
\* shortfalls, late payments, jobs run again after a fault.
BillsAccounted ==
  todo = <<>> =>
    \A a \in Agents \ off, k \in Bills : billed[a][k] + booked[a][k] = owed[a][k]

\* The calendar takes only money that is there (settle_bill, try_settle_overdue).
BillsNeverOverdraw ==
  [][span.active /\ span'.active =>
       \A a \in Agents : balance'[a] < balance[a] => balance'[a] >= 0]_vars

\* From the first position saved on, each job at or before the saved position
\* has been run to its end, whatever was interrupted (calendar.py, "no repeat,
\* no omission": the second half).
NoJobMissed ==
  \A k \in Positions :
    first # None /\ first < Schedule[k].at /\ Schedule[k].at <= saved => done[k] > 0

\* Without a fault no job is run twice, by ticks and batches of any length.
NoJobTwice == faults = 0 => \A k \in Positions : done[k] <= 1

\* Without a fault nobody is moved who has not been warned in an earlier month
\* and still owes rent (settle_overdue_escalation).
MovedAfterNotice ==
  [][faults = 0 => \A a \in Agents :
       room'[a] # room[a] =>
         /\ noticed[a] > 0 /\ noticed[a] < Schedule[CurrentJob].month
         /\ owed[a]["rent"] > 0]_vars

=============================================================================
