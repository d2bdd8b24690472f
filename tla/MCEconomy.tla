----------------------------- MODULE MCEconomy -----------------------------
(* Instances of Economy for TLC: a poor tenant and a rich one. *)
EXTENDS Economy, FiniteSetsExt

PoorAndRich == [a \in 1..2 |-> IF a = 1 THEN 2 ELSE 4]
Wages == [a \in 1..2 |-> IF a = 1 THEN 1 ELSE 4]
Homes == [a \in 1..2 |-> IF a = 1 THEN 2 ELSE 0]
Rents == [r \in 1..2 |-> r + 1]
OneLoan == [l \in 1..2 |-> [b \in 1..2 |-> IF l = 2 /\ b = 1 THEN <<1>> ELSE <<>>]]
TickAndBatch == {1, 3}
Small == {1}
Nothing == {}
Either == {"accepted", "rejected"}

J(t, j, m) == [at |-> t, job |-> j, month |-> m]
\* Three months of rent days (8:55, 9:00), wages and one scan between them.
ThreeMonths ==
  <<J(1, "escalation", 1), J(2, "rent", 1), J(2, "utility", 1), J(3, "payroll", 1),
    J(4, "scan", 1), J(5, "escalation", 2), J(6, "rent", 2), J(7, "payroll", 2),
    J(8, "escalation", 3)>>

(* What the documents say and the code does not keep; README names, for each,
   the settings under which TLC finds its counterexample. *)

\* No job is run twice, whatever is interrupted (calendar.py:8).
JobsRunOnce == \A k \in Positions : done[k] <= 1

\* Without a fault the audit's one sum over all agents is right.
AuditGreen ==
  faults = 0 /\ todo = <<>> =>
    MapThenSumSet(LAMBDA a : balance[a] - Booked(a), Agents)
      = MapThenSumSet(LAMBDA a : StartBalance[a], Agents)

\* A move follows a notice of an earlier month, after a fault too.
AlwaysWarnedBefore ==
  [][\A a \in Agents :
       room'[a] # room[a] => noticed[a] > 0 /\ noticed[a] < Schedule[CurrentJob].month]_vars
=============================================================================
