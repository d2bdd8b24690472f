-------------------------------- MODULE City --------------------------------
(***************************************************************************)
(* What the rules of the simulated city promise about where people are, who  *)
(* is exhausted and who is occupied, whatever the language models answer and *)
(* however the coroutines interleave: one person acts at a time, along the   *)
(* doors that are open, and not again before time has passed.  Adjudication  *)
(* implements it.                                                            *)
(***************************************************************************)
EXTENDS Integers

CONSTANTS
  Tenants,  \* people with a room in the flat
  Npcs      \* people who live outside

VARIABLES
  where,    \* the place each person is at
  tired,    \* who is exhausted
  occupied, \* the set of those who are carrying out an action
  hours     \* TRUE in working hours

People == Tenants \union Npcs
state == <<where, tired, occupied, hours>>

\* The doors a person can choose to go through: there is one way into the
\* office, in working hours, and none out of it.
Doors(p) ==
  {<<"own", "lobby">>, <<"dept", "hall">>}
    \union (IF p \in Tenants THEN {<<"lobby", "own">>} ELSE {})
    \union (IF hours THEN {<<"own", "dept">>, <<"lobby", "dept">>} ELSE {})

Init ==
  /\ where = [p \in People |-> IF p \in Tenants THEN "lobby" ELSE "dept"]
  /\ tired = [p \in People |-> FALSE] /\ occupied = {}
  /\ hours = TRUE

\* A free person does something: stays, goes through a door, or recovers in
\* bed.  Somebody exhausted can only go home or to bed.
Act(p) ==
  /\ p \notin occupied /\ occupied' = occupied \union {p}
  /\ \/ ~tired[p] /\ UNCHANGED <<where, tired>>
     \/ \E place \in {"own", "lobby", "dept", "hall"} :
          /\ <<where[p], place>> \in Doors(p)
          /\ tired[p] => place = "own"
          /\ where' = [where EXCEPT ![p] = place] /\ UNCHANGED tired
     \/ /\ where[p] = "own" /\ p \in Tenants
        /\ tired' = [tired EXCEPT ![p] = FALSE] /\ UNCHANGED where
  /\ UNCHANGED hours

\* An exhausted tenant in the flat is taken home, then to bed, even in the
\* middle of an action; what breaks off on the way leaves them where they are.
SentToBed(p) ==
  /\ p \in Tenants /\ tired[p] /\ where[p] \in {"own", "lobby"}
  /\ occupied' = occupied \union {p}
  /\ \/ /\ where' = [where EXCEPT ![p] = "own"]
        /\ tired' = [tired EXCEPT ![p] = where[p] # "own"]
     \/ UNCHANGED <<where, tired>>
  /\ UNCHANGED hours

\* Time passes: actions end.
Elapse ==
  /\ occupied' \subseteq occupied
  /\ UNCHANGED <<where, tired, hours>>

TurnOfHour == hours' \in BOOLEAN /\ UNCHANGED <<where, tired, occupied>>

\* Those who live outside are at work or at home as the hour wants, or kept
\* where they are; needs move on for everybody.
Evening ==
  /\ where' \in [People -> {"own", "lobby", "dept", "hall", "home"}]
  /\ \A p \in People :
       \/ where'[p] = where[p]
       \/ p \in Npcs /\ where'[p] = IF hours THEN "dept" ELSE "home"
  /\ tired' \in [People -> BOOLEAN]
  /\ UNCHANGED <<occupied, hours>>

Next ==
  \/ \E p \in People : Act(p) \/ SentToBed(p)
  \/ Elapse \/ TurnOfHour \/ Evening

Spec == Init /\ [][Next]_state
=============================================================================
