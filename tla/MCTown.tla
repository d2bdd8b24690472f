------------------------------- MODULE MCTown -------------------------------
(***************************************************************************)
(* Instances of six parts of the town's life for TLC: Relations, Invite,   *)
(* Cast, Office, Goals and Talk.  They share no state, so one run takes    *)
(* them one at a time: part says whose behaviour this is, the others stand *)
(* still at their beginning.                                               *)
(***************************************************************************)
EXTENDS Relations, Invite, Cast, Office, Goals, Talk

VARIABLE part

Pair == {1, 2}
Trio == 1..3
Friends == {"ann", "bob"}
NightTime == {1}
Noon == {2}

\* An argument keeps two people apart for an hour, everything else for two.
Hours == [k \in Triggers |-> IF k = "argue_reapproach" THEN 1 ELSE 2]

\* Two people in the office; a day off between two reviews; spans over parts of two days.
AnnBob == <<"ann", "bob">>
DayOff == {2}
ReviewDays == {1, 3, 4}
RuleDay == {1}
NoDay == {}
NineJobs == {9}

\* One person with up to two goals; a batch every five hours, weeks of four.
JustAnn == <<"ann">>
TwoWishes == {"rest", "save"}

\* Three topics; the throttle may leave one chat a day.
SmallTalk == [t \in {"food", "love", "money"} |->
                CASE t = "food" -> "daily" [] t = "love" -> "deep" [] t = "money" -> "conflict"]
OneOrThree == {1, 3}

\* Only ann's reviews may be bad, and only in the office.
FirstVerdicts ==
  \A v \in DOMAIN verdict : verdict[v] = "C" => part = "office" /\ v[1] = "ann"

Init ==
  /\ part \in {"relations", "invite", "cast", "office", "goals", "talk"}
  /\ RelInit /\ InvInit /\ CastInit /\ OffInit /\ FirstVerdicts /\ GoalsInit /\ TalkInit
  /\ part # "relations" => \A p \in Pairs : edge[p] = 0
  /\ part # "goals" => goals[1].text = "rest"
  /\ Stars = {1} /\ Secondary = {2}

Next ==
  /\ part' = part
  /\ \/ part = "relations" /\ RelNext
        /\ UNCHANGED <<invVars, castVars, offVars, goalVars, talkVars>>
     \/ part = "invite" /\ InvNext /\ UNCHANGED <<relVars, castVars, offVars, goalVars, talkVars>>
     \/ part = "cast" /\ CastNext /\ UNCHANGED <<relVars, invVars, offVars, goalVars, talkVars>>
     \/ part = "office" /\ OffNext /\ UNCHANGED <<relVars, invVars, castVars, goalVars, talkVars>>
     \/ part = "goals" /\ GoalsNext /\ UNCHANGED <<relVars, invVars, castVars, offVars, talkVars>>
     \/ part = "talk" /\ TalkNext
        /\ UNCHANGED <<relVars, invVars, castVars, offVars, goalVars>>

Spec == Init /\ [][Next]_<<part, relVars, invVars, castVars, offVars, goalVars, talkVars>>

\* Every variable of the six parts keeps its type.
TypeOK ==
  RelTypeOK /\ InvTypeOK /\ CastTypeOK /\ OffTypeOK /\ GoalsTypeOK /\ TalkTypeOK

=============================================================================
