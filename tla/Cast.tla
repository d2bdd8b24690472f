-------------------------------- MODULE Cast --------------------------------
(***************************************************************************)
(* The three tiers of attention (scheduler/rotation.py): promotion by events  *)
(* with the eviction of whoever was seen least recently; the fall of the      *)
(* forgotten and the daily rotation of the stars in the hooks of a batch; the *)
(* director's nomination and the promotion of an invited background           *)
(* character by invite/state_machine.py.                                      *)
(*                                                                           *)
(* All of it runs on the adjudication coroutine, so nothing comes between the *)
(* statements of one job but an exception or the end of the process, after    *)
(* which the job is not taken up again (CutShort).  Scores are three levels:  *)
(* below the band, within it and above it; ties go by the character's number. *)
(***************************************************************************)
EXTENDS Integers, FiniteSetsExt

CONSTANTS
  Roles,       \* the characters, numbered
  Seats,       \* star_count
  Cap,         \* secondary_cap
  ChurnCap,    \* daily_churn_cap
  NeedOver, NeedUnder,  \* days above and below the band (consecutive_over, _under)
  ForgetAfter, \* cooldown_demote_sim_days
  LastDay, MaxScenes, MaxNamed  \* bounds: days, events with characters, nominations

ASSUME CastAssumption ==
  /\ Roles \subseteq Nat /\ IsFiniteSet(Roles)
  /\ {Seats, Cap, ChurnCap, LastDay, MaxScenes, MaxNamed} \subseteq Nat
  /\ {NeedOver, NeedUnder, ForgetAfter} \subseteq Nat \ {0}

Tiers == {"star", "secondary", "background"}
Nobody == -1

VARIABLES
  tier,            \* agents.cognition_tier
  over, under,     \* agents.consecutive_over, consecutive_under
  lastSeen,        \* day of the last event with the character among its actors
  byEvent,         \* the last agent.promoted event says event_driven
  stageDay,
  scenes, named,
  targets,         \* on_event: those it has yet to look at
  raised,          \* on_event has promoted somebody
  rotation,        \* the place in the batch's two hooks
  score, fall, rise, churn,  \* rotation_tick's local variables
  pair,            \* the exchange under way: who leaves, who comes
  forgotten        \* demote_inactive: the rows read and not yet worked off

castVars == <<tier, over, under, lastSeen, byEvent, stageDay, scenes, named, targets, raised,
              rotation, score, fall, rise, churn, pair, forgotten>>
table == <<tier, over, under, lastSeen, byEvent>>
bands == <<over, under>>
local == <<score, fall, rise, churn, pair, forgotten>>
scene == <<targets, raised>>
tally == <<stageDay, scenes, named>>

In(t, f) == {a \in Roles : f[a] = t}
Stars == In("star", tier)
Secondary == In("secondary", tier)
Others == Roles \ Stars
\* Sorting by score, then by number.
Lowest(A)  == CHOOSE a \in A : \A b \in A : score[a] < score[b] \/ (score[a] = score[b] /\ a <= b)
Highest(A) == CHOOSE a \in A : \A b \in A : score[a] > score[b] \/ (score[a] = score[b] /\ a <= b)

CastInit ==
  /\ tier \in [Roles -> Tiers] /\ Cardinality(Stars) = Seats /\ Cardinality(Secondary) <= Cap
  /\ over = [a \in Roles |-> 0] /\ under = over
  /\ lastSeen = [a \in Roles |-> 0] /\ byEvent = [a \in Roles |-> FALSE]
  /\ stageDay = 1 /\ scenes = 0 /\ named = 0
  /\ targets = {} /\ raised = FALSE
  /\ rotation = "off" /\ score = over /\ fall = {} /\ rise = {} /\ churn = 0
  /\ pair = [out |-> Nobody, in |-> Nobody] /\ forgotten = {}

\* An update of a tier and its event, which names the character.
Becomes(a, t) ==
  /\ tier' = [tier EXCEPT ![a] = t]
  /\ lastSeen' = [lastSeen EXCEPT ![a] = stageDay]

-----------------------------------------------------------------------------
(* Events, while a tick is settled.                                          *)

\* The coroutine is in no job of the cast.
Free == targets = {} /\ ~raised /\ rotation = "off"

\* after_settle: an event is settled; its targets are those it concerns besides
\* its author (extract_targets).  A silent one promotes nobody.
Scene(who, others) ==
  /\ Free /\ scenes < MaxScenes /\ scenes' = scenes + 1
  /\ lastSeen' = [a \in Roles |-> IF a \in others \union {who} THEN stageDay ELSE lastSeen[a]]
  /\ targets' = others
  /\ UNCHANGED <<tier, bands, byEvent, stageDay, named, raised, rotation, local>>

\* on_event, in the order of the numbers: only the background is promoted.
OnEvent ==
  /\ targets # {}
  /\ LET a == Min(targets)
     IN /\ targets' = targets \ {a}
        /\ IF tier[a] = "background"
           THEN /\ Becomes(a, "secondary") /\ raised' = TRUE
                /\ byEvent' = [byEvent EXCEPT ![a] = TRUE]
           ELSE UNCHANGED <<tier, lastSeen, byEvent, raised>>
  /\ UNCHANGED <<bands, tally, rotation, local>>

\* InviteMachine._promote_background: the invited character is promoted with
\* the invitation, which names both, and on_event then finds nothing to do.  An
\* exception may come before the event of the promotion.
Invited(by, a) ==
  /\ Free /\ scenes < MaxScenes /\ scenes' = scenes + 1
  /\ tier[a] = "background" /\ tier' = [tier EXCEPT ![a] = "secondary"]
  /\ lastSeen' = [lastSeen EXCEPT ![a] = stageDay, ![by] = stageDay]
  /\ byEvent' \in {[byEvent EXCEPT ![a] = TRUE], byEvent}
  /\ UNCHANGED <<bands, stageDay, named, scene, rotation, local>>

Oldest(a, A) == \A b \in A : lastSeen[a] < lastSeen[b] \/ (lastSeen[a] = lastSeen[b] /\ a <= b)

\* enforce_cap, as long as there are too many: the one seen least recently falls.
Evict ==
  /\ Cardinality(Secondary) > Cap
  /\ \E a \in Secondary : Oldest(a, Secondary) /\ Becomes(a, "background")

WithinCap == Cardinality(Secondary) <= Cap

EventEvicts ==
  /\ targets = {} /\ raised /\ Evict /\ UNCHANGED <<bands, byEvent, tally, scene, rotation, local>>

EventDone ==
  /\ targets = {} /\ raised /\ WithinCap /\ raised' = FALSE
  /\ UNCHANGED <<table, tally, targets, rotation, local>>

\* nominate, by a director's script; its event may be missing likewise.  The hook
\* of the calendar, where an arc may begin, comes between the two of this module.
Nominate(a) ==
  /\ Free \/ (rotation = "forget" /\ forgotten = {})
  /\ tier[a] # "star" /\ named < MaxNamed /\ named' = named + 1
  /\ tier' = [tier EXCEPT ![a] = "star"]
  /\ \/ lastSeen' = [lastSeen EXCEPT ![a] = stageDay] /\ byEvent' = [byEvent EXCEPT ![a] = FALSE]
     \/ UNCHANGED <<lastSeen, byEvent>>
  /\ UNCHANGED <<bands, stageDay, scenes, scene, rotation, local>>

-----------------------------------------------------------------------------
(* The batch of a night: first the forgotten, then the rotation.             *)

\* demote_inactive reads the secondary tier and when each was last seen.
Morning ==
  /\ Free /\ stageDay < LastDay /\ stageDay' = stageDay + 1
  /\ rotation' = "forget"
  /\ forgotten' = {a \in Secondary : lastSeen[a] < stageDay' - ForgetAfter}
  /\ UNCHANGED <<table, scenes, named, scene, score, fall, rise, churn, pair>>

\* Row by row; who was not promoted by an event stays.
Forget ==
  /\ rotation = "forget" /\ forgotten # {}
  /\ LET a == Min(forgotten)
     IN /\ forgotten' = forgotten \ {a}
        /\ IF byEvent[a] THEN Becomes(a, "background") ELSE UNCHANGED <<tier, lastSeen>>
  /\ UNCHANGED <<bands, byEvent, tally, scene, rotation, score, fall, rise, churn,
                 pair>>

\* The days outside the band are counted row by row: those of A.
CountDays(points, A) ==
  /\ over' = [a \in Roles |->
               IF a \notin A THEN over[a] ELSE IF points[a] > 0 THEN over[a] + 1 ELSE 0]
  /\ under' = [a \in Roles |->
                IF a \notin A THEN under[a] ELSE IF points[a] < 0 THEN under[a] + 1 ELSE 0]

\* rotation_tick: scores, the rows, the counts.
Rotate ==
  /\ rotation = "forget" /\ forgotten = {} /\ rotation' = "pairs"
  /\ score' \in [Roles -> {-1, 0, 1}]
  /\ CountDays(score', Roles)
  /\ fall' = {a \in Stars : under'[a] >= NeedUnder}
  /\ rise' = {a \in Roles \ Stars : over'[a] >= NeedOver}
  /\ churn' = 0
  /\ UNCHANGED <<tier, lastSeen, byEvent, tally, scene, pair, forgotten>>

Best == IF rise # {} THEN {Highest(rise)}
        ELSE IF Others # {} THEN {Highest(Others)} ELSE {}

\* A star below the band changes places with the best of the others.
Exchange ==
  /\ rotation = "pairs" /\ fall # {}
  /\ LET a == Lowest(fall)
     IN /\ fall' = fall \ {a}
        /\ IF Best = {} \/ churn + 2 > ChurnCap
           THEN UNCHANGED <<rotation, pair>>
           ELSE \E b \in Best : rotation' = "leaves" /\ pair' = [out |-> a, in |-> b]
  /\ UNCHANGED <<table, tally, scene, score, rise, churn, forgotten>>

\* Mutant: the seats are filled one too far.
TooFewOrEqual == Cardinality(Stars) <= Seats

TooMany == Cardinality(Stars) > Seats

TooFew == Cardinality(Stars) < Seats

\* Then, within the day's churn, too many stars lose one and too few gain one.
Level ==
  /\ rotation = "pairs" /\ fall = {} /\ churn < ChurnCap
  /\ \/ /\ TooMany /\ rotation' = "leaves"
        /\ pair' = [out |-> Lowest(Stars), in |-> Nobody]
     \/ /\ TooFew /\ rotation' = "comes"
        /\ \E b \in Best : pair' = [out |-> Nobody, in |-> b]
  /\ UNCHANGED <<table, tally, scene, score, fall, rise, churn, forgotten>>

RotationEvicts ==
  /\ rotation = "leaves" /\ Evict /\ UNCHANGED <<bands, byEvent, tally, scene, rotation, local>>

\* _demote_path1: first the cap is enforced, then one more is added.
Leave ==
  /\ rotation = "leaves" /\ WithinCap
  /\ Becomes(pair.out, "secondary")
  /\ over' = [over EXCEPT ![pair.out] = 0] /\ under' = [under EXCEPT ![pair.out] = 0]
  /\ churn' = churn + 1
  /\ IF pair.in = Nobody
     THEN rotation' = "pairs" /\ pair' = [out |-> Nobody, in |-> Nobody] /\ UNCHANGED rise
     ELSE rotation' = "comes" /\ rise' = rise \ {pair.in} /\ UNCHANGED pair
  /\ UNCHANGED <<byEvent, tally, scene, score, fall, forgotten>>

\* _promote_path1.
Come ==
  /\ rotation = "comes"
  /\ Becomes(pair.in, "star")
  /\ over' = [over EXCEPT ![pair.in] = 0] /\ under' = [under EXCEPT ![pair.in] = 0]
  /\ byEvent' = [byEvent EXCEPT ![pair.in] = FALSE]
  /\ rise' = rise \ {pair.in}
  /\ churn' = churn + 1 /\ rotation' = "pairs" /\ pair' = [out |-> Nobody, in |-> Nobody]
  /\ UNCHANGED <<tally, scene, score, fall, forgotten>>

Settled == churn >= ChurnCap \/ (~TooMany /\ (~TooFew \/ Best = {}))

\* The local variables of rotation_tick and demote_inactive are gone.
Returned ==
  /\ rotation' = "off" /\ score' = [a \in Roles |-> 0]
  /\ fall' = {} /\ rise' = {} /\ churn' = 0 /\ forgotten' = {}
  /\ pair' = [out |-> Nobody, in |-> Nobody]

RotationDone ==
  /\ rotation = "pairs" /\ fall = {} /\ Settled
  /\ Returned
  /\ UNCHANGED <<table, tally, scene>>

-----------------------------------------------------------------------------
\* The tier the next statement of the job under way would write, if any.
NextWrite ==
  {w \in Roles \X Tiers :
     \/ targets # {} /\ w = <<Min(targets), "secondary">> /\ tier[w[1]] = "background"
     \/ /\ (targets = {} /\ raised) \/ rotation = "leaves"
        /\ ~WithinCap /\ w[1] \in Secondary /\ Oldest(w[1], Secondary) /\ w[2] = "background"
     \/ /\ rotation = "forget" /\ forgotten # {} /\ w = <<Min(forgotten), "background">>
        /\ byEvent[w[1]]
     \/ rotation = "leaves" /\ WithinCap /\ w = <<pair.out, "secondary">>
     \/ rotation = "comes" /\ w = <<pair.in, "star">>}

\* An exception ends the job, and the tick or the batch with it, or the process ends:
\* between two statements, or between the update of a tier and its event.
CutShort ==
  /\ ~Free
  /\ \/ UNCHANGED <<tier, over, under>>
     \/ /\ rotation = "forget" /\ forgotten = {} /\ UNCHANGED tier
        /\ \E n \in Roles :
             LET counted == {a \in Roles : a < n}
             IN  \E points \in [counted -> {-1, 0, 1}] : CountDays(points, counted)
     \/ \E w \in NextWrite :
          /\ tier' = [tier EXCEPT ![w[1]] = w[2]]
          /\ IF rotation \in {"leaves", "comes"} /\ w[1] \in {pair.out, pair.in}
             THEN over' = [over EXCEPT ![w[1]] = 0] /\ under' = [under EXCEPT ![w[1]] = 0]
             ELSE UNCHANGED <<over, under>>
  /\ targets' = {} /\ raised' = FALSE /\ Returned
  /\ UNCHANGED <<lastSeen, byEvent, tally>>

-----------------------------------------------------------------------------
CastNext ==
  \/ \E who \in Roles : \E others \in SUBSET (Roles \ {who}) : Scene(who, others)
  \/ \E by, a \in Roles : by # a /\ Invited(by, a)
  \/ \E a \in Roles : Nominate(a)
  \/ OnEvent \/ EventEvicts \/ EventDone
  \/ Morning \/ Forget \/ Rotate \/ Exchange \/ Level \/ RotationEvicts \/ Leave \/ Come
  \/ RotationDone \/ CutShort

CastSpec == CastInit /\ [][CastNext]_castVars

-----------------------------------------------------------------------------
CastTypeOK ==
  /\ tier \in [Roles -> Tiers]
  /\ over \in [Roles -> 0..LastDay] /\ under \in [Roles -> 0..LastDay]
  /\ lastSeen \in [Roles -> 0..stageDay]
  /\ targets \subseteq Roles /\ forgotten \subseteq Roles /\ churn \in 0..ChurnCap

\* Wherever a rotation is cut short, whatever the next one levels: it never seats more
\* stars than there are seats, but for those a director has nominated.
SeatsNotOversold == Cardinality(Stars) <= Seats + named

\* The secondary tier never holds more than its cap, except while on_event or
\* the rotation is at work (rotation.py:10, docs/design/04 section 4.2).
SecondaryCapHolds == Free => Cardinality(Secondary) <= Cap
=============================================================================
