------------------------------ MODULE MCMachine ------------------------------
(***************************************************************************)
(* Instances of the machinery for TLC: Gateway, CostBreaker, Memory,       *)
(* Director, Replica, Screen and Audit.  They share no state, so one run   *)
(* takes them one at a time: part says whose behaviour this is, the others *)
(* stand still at their beginning.                                         *)
(***************************************************************************)
EXTENDS Gateway, CostBreaker, Memory, Director, Replica, Screen, Audit

VARIABLE part

Two == {"ann", "bob"}
One == {"ann"}
Light == {1, 3}
TwoArcs == 1..2
FirstTwo == {1, 2}

\* The first stage degrades to the second, the last is the end.
Downhill == <<2, Never, 0>>

Row(kind, d, about) == [kind |-> kind, day |-> d, about |-> about]

\* A graded event revised on two days, then, after a reset, a change of relation and
\* a rumour about it.
TwoWorlds ==
  << <<Row("graded", 1, 0), Row("revise", 1, 1), Row("revise", 2, 1)>>,
     <<Row("change", 1, 0), Row("gossip", 1, 1)>> >>
OneMemory == <<1>>

Init ==
  /\ part \in {"gateway", "cost", "memory", "director", "replica", "screen", "audit"}
  /\ GwInit /\ CostInit /\ MemInit /\ DirInit /\ RepInit /\ ScreenInit /\ AuditInit

Next ==
  /\ part' = part
  /\ \/ /\ part = "gateway" /\ GwNext
        /\ UNCHANGED <<costVars, memVars, dirVars, repVars, screenVars, auditVars>>
     \/ /\ part = "cost" /\ CostNext
        /\ UNCHANGED <<gwVars, memVars, dirVars, repVars, screenVars, auditVars>>
     \/ /\ part = "memory" /\ MemNext
        /\ UNCHANGED <<gwVars, costVars, dirVars, repVars, screenVars, auditVars>>
     \/ /\ part = "director" /\ DirNext
        /\ UNCHANGED <<gwVars, costVars, memVars, repVars, screenVars, auditVars>>
     \/ /\ part = "replica" /\ RepNext
        /\ UNCHANGED <<gwVars, costVars, memVars, dirVars, screenVars, auditVars>>
     \/ /\ part = "screen" /\ ScreenNext
        /\ UNCHANGED <<gwVars, costVars, memVars, dirVars, repVars, auditVars>>
     \/ /\ part = "audit" /\ AuditNext
        /\ UNCHANGED <<gwVars, costVars, memVars, dirVars, repVars, screenVars>>

Spec ==
  Init /\ [][Next]_<<part, gwVars, costVars, memVars, dirVars,
                     repVars, screenVars, auditVars>>

\* Every variable of the seven parts keeps its type.
TypeOK ==
  /\ GwTypeOK /\ CostTypeOK /\ MemTypeOK /\ DirTypeOK /\ RepTypeOK
  /\ ScreenTypeOK /\ AuditTypeOK

=============================================================================
