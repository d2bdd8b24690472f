--------------------------- MODULE MachineProofs ----------------------------
(*****************************************************************************)
(* Proofs about the machinery: Gateway, CostBreaker, Memory, Director and    *)
(* Audit; with ReplicaProofs, about all seven parts that MCMachine puts      *)
(* side by side. None of them uses an instance's values: the constants are   *)
(* any that the parts' assumptions allow.                                    *)
(*****************************************************************************)
EXTENDS MCMachine, ReplicaProofs, FiniteSetTheorems, WellFoundedInduction,
        SequenceTheorems, TLAPS

\* What holds at 0 and is handed on holds for every number.
LEMMA Induction ==
  ASSUME NEW S, 0 \in S, \A n \in Nat : n \in S => n + 1 \in S
  PROVE  Nat \subseteq S
<1> DEFINE T == {n \in Nat : n \notin S}
           R == {ss \in Nat \X Nat : ss[1] < ss[2]}
<1>1. IsWellFoundedOn(R, Nat)
  BY NatLessThanWellFounded DEF OpToRel
<1>2. T = {}
  <2> SUFFICES ASSUME T # {} PROVE FALSE
    OBVIOUS
  <2>1. PICK x \in T : \A y \in T : <<y, x>> \notin R
    <3>1. T \subseteq Nat
      OBVIOUS
    <3> HIDE DEF T, R
    <3> QED BY <1>1, <3>1, WFMin
  <2>2. x # 0 /\ x \in Nat
    OBVIOUS
  <2>3. x - 1 \in Nat /\ <<x - 1, x>> \in R
    BY <2>2
  <2>4. x - 1 \in S
    BY <2>1, <2>3
  <2> QED BY <2>2, <2>3, <2>4
<1> QED BY <1>2

-----------------------------------------------------------------------------
(*****************************************************************************)
(* Gateway: failovers are told, for any callers and any chain.               *)
(*****************************************************************************)
GwTypes ==
  /\ step \in [Callers -> {"idle", "chain", "probe", "request", "walled", "answered", "recorded"}]
  /\ hop \in [Callers -> Nat \ {0}] /\ fellFrom \in [Callers -> Nat]
  /\ reason \in [Callers -> BOOLEAN] /\ letIn \in [Callers -> BOOLEAN]
  /\ turned \in [Callers -> SUBSET (Nat \ {0})]
  /\ tripped \in [Endpoints -> {"no", "cooling", "due"}]

\* An endpoint that is out has been announced, or a call at it is to do so.
OutIsTold ==
  \A e \in Endpoints :
    tripped[e] # "no" /\ e \notin told => \E c \in Callers : reason[c] /\ hop[c] = e

\* A call that is to announce stays where it is until it has.
ToldInPlace == \A c \in Callers : reason[c] => step[c] \in {"walled", "answered", "recorded"}

\* What a call that none has let in knows of its way: it has passed those that turned
\* it away, and remembers the first; a probe counts as turned away until it is answered.
RemembersFirst(c) ==
  step[c] # "idle" /\ ~letIn[c] =>
    /\ \A y \in turned[c] : y < hop[c]
    /\ IF turned[c] = {} THEN fellFrom[c] = IF step[c] = "probe" THEN hop[c] ELSE None
       ELSE fellFrom[c] \in turned[c] /\ \A y \in turned[c] : fellFrom[c] <= y

GwInv == GwTypes /\ OutIsTold /\ ToldInPlace /\ \A c \in Callers : RemembersFirst(c)

\* Nothing is out at the beginning, and nobody calls.
LEMMA GwInitInv == GwInit => GwInv
<1> SUFFICES ASSUME GwInit PROVE GwInv
  OBVIOUS
<1>1. GwTypes
  BY DEF GwInit, GwTypes, None
<1>2. OutIsTold /\ ToldInPlace
  BY DEF GwInit, OutIsTold, ToldInPlace
<1>3. \A c \in Callers : RemembersFirst(c)
  BY DEF GwInit, RemembersFirst
<1> QED BY <1>1, <1>2, <1>3 DEF GwInv

\* A step of one call that leaves the breaker and its announcements alone, and the call where
\* it is if it has something to announce.
LEMMA WalkInv ==
  ASSUME GwInv, NEW c \in Callers, GwTypes', UNCHANGED <<reason, told>>,
         \A e \in Endpoints : tripped'[e] # "no" => tripped[e] # "no",
         \A d \in Callers \ {c} : UNCHANGED <<step[d], hop[d], fellFrom[d], letIn[d], turned[d]>>,
         reason[c] => FALSE,
         RemembersFirst(c)'
  PROVE  GwInv'
<1>1. OutIsTold'
  BY DEF GwInv, GwTypes, OutIsTold
<1>2. ToldInPlace'
  BY DEF GwInv, GwTypes, ToldInPlace
<1>3. ASSUME NEW d \in Callers PROVE RemembersFirst(d)'
  BY DEF GwInv, RemembersFirst
<1> QED BY <1>1, <1>2, <1>3 DEF GwInv

\* Being turned away is remembered.
LEMMA TurnedAwayRemembers ==
  ASSUME GwInv, NEW c \in Callers, TurnedAway(c), letIn' = letIn, step[c] # "idle"
  PROVE  /\ RemembersFirst(c)'
         /\ step' \in [Callers -> {"idle", "chain", "probe", "request", "walled", "answered",
                                   "recorded"}]
         /\ hop' \in [Callers -> Nat \ {0}] /\ fellFrom' \in [Callers -> Nat]
         /\ turned' \in [Callers -> SUBSET (Nat \ {0})]
         /\ \A d \in Callers \ {c} : UNCHANGED <<step[d], hop[d], fellFrom[d], turned[d]>>
<1>1. /\ fellFrom' = [fellFrom EXCEPT ![c] = First(c)]
      /\ turned' = [turned EXCEPT ![c] = @ \union {hop[c]}]
      /\ hop' = [hop EXCEPT ![c] = @ + 1] /\ step' = [step EXCEPT ![c] = "chain"]
  BY DEF TurnedAway, Goes
<1>2. /\ First(c) \in Nat /\ hop[c] \in Nat \ {0} /\ fellFrom[c] \in Nat
      /\ turned[c] \in SUBSET (Nat \ {0})
  BY DEF GwInv, GwTypes, First
<1>3. /\ step' \in [Callers -> {"idle", "chain", "probe", "request", "walled", "answered",
                                "recorded"}]
      /\ hop' \in [Callers -> Nat \ {0}] /\ fellFrom' \in [Callers -> Nat]
      /\ turned' \in [Callers -> SUBSET (Nat \ {0})]
  BY <1>1, <1>2 DEF GwInv, GwTypes
<1>4. \A d \in Callers \ {c} : UNCHANGED <<step[d], hop[d], fellFrom[d], turned[d]>>
  BY <1>1 DEF GwInv, GwTypes
<1>5. ASSUME ~letIn'[c] PROVE RemembersFirst(c)'
  <2>1. /\ \A y \in turned[c] : y < hop[c]
        /\ IF turned[c] = {} THEN fellFrom[c] = IF step[c] = "probe" THEN hop[c] ELSE None
           ELSE fellFrom[c] \in turned[c] /\ \A y \in turned[c] : fellFrom[c] <= y
    BY <1>5 DEF GwInv, RemembersFirst
  <2>2. /\ turned'[c] = turned[c] \union {hop[c]} /\ hop'[c] = hop[c] + 1
        /\ fellFrom'[c] = First(c)
    BY <1>1 DEF GwInv, GwTypes
  <2>3. \A y \in turned'[c] : y < hop'[c]
    BY <1>2, <2>1, <2>2
  <2>4. CASE turned[c] = {}
    <3>1. First(c) = hop[c]
      BY <2>1, <2>4 DEF First
    <3> QED BY <1>2, <2>2, <2>3, <2>4, <3>1 DEF RemembersFirst
  <2>5. CASE turned[c] # {}
    <3>1. fellFrom[c] \in turned[c] /\ \A y \in turned[c] : fellFrom[c] <= y
      BY <2>1, <2>5
    <3>2. First(c) = fellFrom[c]
      BY <1>2, <3>1 DEF First, None
    <3> QED BY <1>2, <2>1, <2>2, <2>3, <3>1, <3>2 DEF RemembersFirst
  <2> QED BY <2>4, <2>5
<1>6. ASSUME letIn'[c] PROVE RemembersFirst(c)'
  BY <1>6 DEF RemembersFirst
<1> QED BY <1>3, <1>4, <1>5, <1>6

\* The breaker hears of an attempt: what goes out by it waits to be told by this call.
LEMMA TellInv ==
  ASSUME GwInv, NEW c \in Callers, NEW count, NEW slow \in BOOLEAN, Tell(c, count, slow),
         step[c] \in {"walled", "answered"},
         step' \in [Callers -> {"idle", "chain", "probe", "request", "walled", "answered",
                                "recorded"}],
         step'[c] \in {"walled", "answered", "recorded"},
         \A d \in Callers \ {c} : step'[d] = step[d],
         UNCHANGED <<hop, fellFrom, turned, letIn>>
  PROVE  GwInv'
<1>1. \A e \in Endpoints : e # hop[c] => tripped'[e] = tripped[e]
  BY DEF Tell, breaker, GwInv, GwTypes
<1>2. \/ UNCHANGED <<tripped, told, reason>>
      \/ reason' = [reason EXCEPT ![c] = TRUE] /\ told' = told \ {hop[c]}
         /\ tripped' = [tripped EXCEPT ![hop[c]] = "cooling"]
  BY DEF Tell, breaker
<1>3. GwTypes'
  BY <1>2 DEF GwInv, GwTypes
<1>4. OutIsTold'
  <2>1. CASE UNCHANGED <<tripped, told, reason>>
    BY <2>1 DEF GwInv, OutIsTold
  <2>2. CASE reason' = [reason EXCEPT ![c] = TRUE] /\ told' = told \ {hop[c]}
    <3>1. reason'[c] /\ hop'[c] = hop[c] /\ \A d \in Callers : reason[d] => reason'[d]
      BY <2>2 DEF GwInv, GwTypes
    <3>2. ASSUME NEW e \in Endpoints, tripped'[e] # "no", e \notin told'
          PROVE \E d \in Callers : reason'[d] /\ hop'[d] = e
      <4>1. CASE e = hop[c]
        BY <3>1, <4>1
      <4>2. CASE e # hop[c]
        BY <1>1, <2>2, <3>1, <3>2, <4>2 DEF GwInv, OutIsTold
      <4> QED BY <4>1, <4>2
    <3> QED BY <3>2 DEF OutIsTold
  <2> QED BY <1>2, <2>1, <2>2
<1>5. ToldInPlace'
  BY <1>2 DEF GwInv, GwTypes, ToldInPlace
<1>6. ASSUME NEW d \in Callers PROVE RemembersFirst(d)'
  <2>1. step[d] # "probe" \/ d # c
    OBVIOUS
  <2>2. step'[d] = step[d] \/ d = c
    OBVIOUS
  <2> QED BY <2>1, <2>2 DEF GwInv, RemembersFirst
<1> QED BY <1>3, <1>4, <1>5, <1>6 DEF GwInv

\* A call that announces what it has tripped, and moves on, owes nothing any more.
LEMMA AnnounceInv ==
  ASSUME GwInv, NEW c \in Callers, Announce(c), UNCHANGED <<tripped, letIn>>,
         step' \in [Callers -> {"idle", "chain", "probe", "request", "walled", "answered",
                                "recorded"}],
         hop' \in [Callers -> Nat \ {0}], fellFrom' \in [Callers -> Nat],
         turned' \in [Callers -> SUBSET (Nat \ {0})],
         \A d \in Callers \ {c} : UNCHANGED <<step[d], hop[d], fellFrom[d], turned[d]>>,
         RemembersFirst(c)'
  PROVE  GwInv'
<1>1. \/ reason[c] /\ told' = told \union {hop[c]} /\ reason' = [reason EXCEPT ![c] = FALSE]
      \/ ~reason[c] /\ UNCHANGED <<told, reason>>
  BY DEF Announce
<1>2. GwTypes'
  BY <1>1 DEF GwInv, GwTypes
<1>3. ~reason'[c] /\ \A d \in Callers \ {c} : reason'[d] = reason[d]
  BY <1>1 DEF GwInv, GwTypes
<1>4. OutIsTold'
  <2>1. ASSUME NEW e \in Endpoints, tripped'[e] # "no", e \notin told'
        PROVE \E d \in Callers : reason'[d] /\ hop'[d] = e
    <3>1. e \notin told
      BY <1>1, <2>1
    <3>2. PICK d \in Callers : reason[d] /\ hop[d] = e
      BY <2>1, <3>1 DEF GwInv, OutIsTold
    <3>3. d # c
      BY <1>1, <2>1, <3>2
    <3> QED BY <1>3, <3>2, <3>3
  <2> QED BY <2>1 DEF OutIsTold
<1>5. ToldInPlace'
  BY <1>3 DEF GwInv, ToldInPlace
<1>6. ASSUME NEW d \in Callers PROVE RemembersFirst(d)'
  BY DEF GwInv, RemembersFirst
<1> QED BY <1>2, <1>4, <1>5, <1>6 DEF GwInv

\* What one call does.
Calls(c) ==
  \/ Begin(c) \/ Exhausted(c) \/ PassOver(c) \/ Sound(c) \/ Sounded(c) \/ ProbeFails(c)
  \/ Ask(c) \/ RequestFails(c) \/ RequestAnswered(c) \/ Rejected(c)
  \/ TellFailure(c) \/ TellAnswer(c) \/ FallOver(c) \/ Return(c)

\* A call's step keeps the invariant.
LEMMA CallsInv == ASSUME GwInv, NEW c \in Callers, Calls(c) PROVE GwInv'
<1> USE DEF At, Goes
<1>0. /\ step \in [Callers -> {"idle", "chain", "probe", "request", "walled", "answered",
                               "recorded"}]
      /\ hop \in [Callers -> Nat \ {0}] /\ fellFrom \in [Callers -> Nat]
      /\ reason \in [Callers -> BOOLEAN] /\ letIn \in [Callers -> BOOLEAN]
      /\ turned \in [Callers -> SUBSET (Nat \ {0})]
      /\ tripped \in [Endpoints -> {"no", "cooling", "due"}]
  BY DEF GwInv, GwTypes
<1>r. step[c] \notin {"walled", "answered", "recorded"} => ~reason[c]
  BY DEF GwInv, ToldInPlace
<1>f. RemembersFirst(c)
  BY DEF GwInv
<1>1. CASE Begin(c)
  <2>1. GwTypes' /\ RemembersFirst(c)'
    BY <1>0, <1>1 DEF Begin, GwTypes, RemembersFirst, breaker, None
  <2> QED BY <1>0, <1>1, <1>r, <2>1, WalkInv DEF Begin, breaker, events
<1>2. CASE Exhausted(c)
  <2>1. GwTypes' /\ RemembersFirst(c)'
    BY <1>0, <1>2 DEF Exhausted, GwTypes, RemembersFirst, breaker
  <2> QED BY <1>0, <1>2, <1>r, <2>1, WalkInv DEF Exhausted, breaker, events
<1>3. CASE PassOver(c) \/ ProbeFails(c)
  <2>1. TurnedAway(c) /\ UNCHANGED <<letIn, reason, told>> /\ step[c] \in {"chain", "probe"}
    BY <1>3 DEF PassOver, ProbeFails, events
  <2>2. /\ tripped' \in [Endpoints -> {"no", "cooling", "due"}]
        /\ \A e \in Endpoints : tripped'[e] # "no" => tripped[e] # "no"
    BY <1>0, <1>3 DEF PassOver, ProbeFails, breaker
  <2>3. GwTypes' /\ RemembersFirst(c)'
    BY <1>0, <2>1, <2>2, TurnedAwayRemembers DEF GwTypes
  <2> QED BY <1>r, <2>1, <2>2, <2>3, TurnedAwayRemembers, WalkInv
<1>4. CASE Sound(c)
  <2>1. GwTypes' /\ RemembersFirst(c)'
    <3>1. First(c) \in Nat
      BY <1>0 DEF First
    <3>2. GwTypes'
      BY <1>0, <1>4, <3>1 DEF Sound, GwTypes, breaker
    <3>3. RemembersFirst(c)'
      BY <1>0, <1>4, <1>f DEF Sound, RemembersFirst, First, None
    <3> QED BY <3>2, <3>3
  <2> QED BY <1>0, <1>4, <1>r, <2>1, WalkInv DEF Sound, breaker, events
<1>5. CASE Sounded(c)
  <2>1. GwTypes' /\ RemembersFirst(c)'
    BY <1>0, <1>5 DEF Sounded, GwTypes, RemembersFirst, breaker, None
  <2>2. \A e \in Endpoints : tripped'[e] # "no" => tripped[e] # "no"
    BY <1>0, <1>5 DEF Sounded, breaker
  <2> QED BY <1>0, <1>5, <1>r, <2>1, <2>2, WalkInv DEF Sounded
<1>6. CASE Ask(c) \/ RequestFails(c) \/ RequestAnswered(c) \/ Rejected(c)
  <2>1. /\ UNCHANGED <<fellFrom, reason, turned, letIn, tripped, told>>
        /\ \A d \in Callers \ {c} : UNCHANGED <<step[d], hop[d]>>
        /\ step[c] \in {"chain", "request"}
    BY <1>0, <1>6 DEF Ask, RequestFails, RequestAnswered, Rejected, breaker, events
  <2>2. /\ step'[c] # "probe"
        /\ step'[c] = "idle" \/ hop' = hop
        /\ hop' \in [Callers -> Nat \ {0}]
        /\ step' \in [Callers -> {"idle", "chain", "probe", "request", "walled", "answered",
                                  "recorded"}]
    BY <1>0, <1>6 DEF Ask, RequestFails, RequestAnswered, Rejected
  <2>3. GwTypes'
    BY <1>0, <2>1, <2>2 DEF GwTypes
  <2>4. RemembersFirst(c)'
    BY <1>f, <2>1, <2>2 DEF RemembersFirst
  <2> QED BY <1>r, <2>1, <2>3, <2>4, WalkInv
<1>7. CASE TellFailure(c)
  <2>1. PICK slow \in BOOLEAN : Tell(c, walls[hop[c]] + 1, slow)
    BY <1>7 DEF TellFailure
  <2> QED BY <1>0, <1>7, <2>1, TellInv DEF TellFailure
<1>8. CASE TellAnswer(c)
  <2>1. PICK slow \in BOOLEAN : Tell(c, 0, slow)
    BY <1>8 DEF TellAnswer
  <2> QED BY <1>0, <1>8, <2>1, TellInv DEF TellAnswer
<1>9. CASE FallOver(c)
  <2>1. /\ TurnedAway(c) /\ Announce(c) /\ UNCHANGED <<tripped, letIn>>
        /\ step[c] # "idle"
    BY <1>9 DEF FallOver, breaker
  <2> QED BY <2>1, TurnedAwayRemembers, AnnounceInv
<1>10. CASE Return(c)
  <2>1. /\ Announce(c) /\ UNCHANGED <<tripped, letIn, fellFrom, turned>>
        /\ step' = [step EXCEPT ![c] = "idle"] /\ hop' = [hop EXCEPT ![c] = 1]
    BY <1>10 DEF Return, breaker
  <2>2. RemembersFirst(c)'
    BY <1>0, <2>1 DEF RemembersFirst
  <2> QED BY <1>0, <2>1, <2>2, AnnounceInv
<1> QED BY <1>1, <1>2, <1>3, <1>4, <1>5, <1>6, <1>7, <1>8, <1>9, <1>10 DEF Calls

\* Neither a cooldown nor the fault probe brings an endpoint in or out.
LEMMA GwStepInv == GwInv /\ [GwNext]_gwVars => GwInv'
<1> SUFFICES ASSUME GwInv, [GwNext]_gwVars PROVE GwInv'
  OBVIOUS
<1>1. ASSUME NEW c \in Callers, Calls(c) PROVE GwInv'
  BY <1>1, CallsInv
<1>2. CASE /\ UNCHANGED <<step, hop, fellFrom, reason, turned, letIn, told>>
           /\ tripped' \in [Endpoints -> {"no", "cooling", "due"}]
           /\ \A e \in Endpoints : tripped'[e] # "no" => tripped[e] # "no"
  BY <1>2 DEF GwInv, GwTypes, OutIsTold, ToldInPlace, RemembersFirst
<1>3. ASSUME NEW e \in Endpoints, CoolDown(e) PROVE GwInv'
  BY <1>2, <1>3 DEF CoolDown, events, GwInv, GwTypes
<1>4. ASSUME NEW failing \in BOOLEAN, FatalCheck(failing) PROVE GwInv'
  BY <1>2, <1>4 DEF FatalCheck, breaker, events, GwInv, GwTypes
<1>5. CASE UNCHANGED gwVars
  BY <1>2, <1>5 DEF gwVars, GwInv, GwTypes
<1> QED BY <1>1, <1>3, <1>4, <1>5 DEF GwNext, Calls

\* However calls, retries and probes interleave: an endpoint that goes out is announced or
\* about to be, and an answer names the first endpoint its call fell back from
\* (breaker.py, record_attempt and emit_failover; _chat_routed).
THEOREM FailoversAreTold == GwSpec => []FailoverIsTold
<1>1. GwInv => FailoverIsTold
  <2> SUFFICES ASSUME GwInv PROVE FailoverIsTold
    OBVIOUS
  <2>1. ASSUME NEW c \in Callers, At(c, "recorded"), ~letIn[c]
        PROVE fellFrom[c] = IF turned[c] = {} THEN None ELSE Min(turned[c])
    <3>1. IF turned[c] = {} THEN fellFrom[c] = None
          ELSE fellFrom[c] \in turned[c] /\ \A y \in turned[c] : fellFrom[c] <= y
      BY <2>1 DEF GwInv, RemembersFirst, At
    <3>2. \A y \in turned[c] : y \in Nat
      BY DEF GwInv, GwTypes
    <3>3. CASE turned[c] # {}
      <4>1. Min(turned[c]) \in turned[c] /\ \A y \in turned[c] : Min(turned[c]) <= y
        BY <3>1, <3>3 DEF Min
      <4> QED BY <3>1, <3>2, <3>3, <4>1
    <3> QED BY <3>1, <3>3
  <2> QED BY <2>1 DEF GwInv, OutIsTold, FailoverIsTold
<1> QED BY <1>1, GwInitInv, GwStepInv, PTL DEF GwSpec

\* The calls' counters and the endpoints'.
GwSized ==
  /\ step \in [Callers -> {"idle", "chain", "probe", "request", "walled", "answered", "recorded"}]
  /\ hop \in [Callers -> 1..(Chain + 1)] /\ fellFrom \in [Callers -> 0..Chain]
  /\ tries \in [Callers -> 0..(Retries + 1)] /\ walls \in [Endpoints -> 0..TripAt]
  /\ tripped \in [Endpoints -> {"no", "cooling", "due"}]

\* Only a call in the chain is beyond its end, and an endpoint that is in has failed less
\* often than it takes to trip it.
InBounds ==
  /\ \A c \in Callers : step[c] \notin {"idle", "chain"} => hop[c] <= Chain
  /\ \A e \in Endpoints : tripped[e] = "no" => walls[e] < TripAt

\* The constants are numbers.
LEMMA GwConstants == Chain \in Nat \ {0} /\ Retries \in Nat \ {0} /\ TripAt \in Nat \ {0}
BY GatewayAssumption

\* The breaker is told.
LEMMA TellSized ==
  ASSUME GwSized, InBounds, NEW c \in Callers, hop[c] <= Chain, NEW count, NEW slow,
         Tell(c, count, slow), count = 0 \/ count = walls[hop[c]] + 1
  PROVE  /\ walls' \in [Endpoints -> 0..TripAt]
         /\ tripped' \in [Endpoints -> {"no", "cooling", "due"}]
         /\ \A e \in Endpoints : tripped'[e] = "no" => walls'[e] < TripAt
<1> DEFINE e == hop[c]
<1>1. e \in Endpoints /\ walls[e] \in 0..TripAt
  BY GwConstants DEF GwSized, Endpoints
<1>2. CASE tripped[e] # "no"
  BY <1>2 DEF Tell, GwSized, InBounds, breaker
<1>3. CASE tripped[e] = "no"
  <2>1. count \in 0..TripAt
    BY <1>1, <1>3, GwConstants DEF InBounds
  <2>2. walls' = [walls EXCEPT ![e] = count]
    BY <1>3 DEF Tell
  <2>3. CASE Trips(c, count, slow)
    <3>1. tripped' = [tripped EXCEPT ![e] = "cooling"]
      BY <1>3, <2>3 DEF Tell
    <3> HIDE DEF e
    <3> QED BY <1>1, <2>1, <2>2, <3>1 DEF GwSized, InBounds
  <2>4. CASE ~Trips(c, count, slow)
    <3>1. tripped' = tripped /\ count < TripAt
      BY <1>3, <2>1, <2>4, GwConstants DEF Tell, Trips
    <3> HIDE DEF e
    <3> QED BY <1>1, <2>1, <2>2, <3>1 DEF GwSized, InBounds
  <2> QED BY <2>3, <2>4
<1> QED BY <1>2, <1>3

\* A call that is turned away.
LEMMA AwaySized ==
  ASSUME GwSized, InBounds, NEW c \in Callers, TurnedAway(c), hop[c] <= Chain
  PROVE  /\ step' \in [Callers -> {"idle", "chain", "probe", "request", "walled", "answered",
                                   "recorded"}]
         /\ hop' \in [Callers -> 1..(Chain + 1)] /\ fellFrom' \in [Callers -> 0..Chain]
         /\ \A d \in Callers : step'[d] \notin {"idle", "chain"} => hop'[d] <= Chain
<1>1. /\ fellFrom' = [fellFrom EXCEPT ![c] = First(c)]
      /\ hop' = [hop EXCEPT ![c] = hop[c] + 1] /\ step' = [step EXCEPT ![c] = "chain"]
  BY DEF TurnedAway, Goes
<1>2. hop[c] + 1 \in 1..(Chain + 1) /\ First(c) \in 0..Chain
  BY GwConstants DEF GwSized, First
<1>3. \A d \in Callers : step'[d] \notin {"idle", "chain"} => d # c
  BY <1>1 DEF GwSized
<1> QED BY <1>1, <1>2, <1>3 DEF GwSized, InBounds

\* A step of a call.
LEMMA CallsSized ==
  ASSUME GwSized, InBounds, NEW c \in Callers, Calls(c)
  PROVE  GwSized' /\ InBounds'
<1> USE DEF At, Goes, breaker
<1>0. /\ step \in [Callers -> {"idle", "chain", "probe", "request", "walled", "answered",
                               "recorded"}]
      /\ hop \in [Callers -> 1..(Chain + 1)] /\ fellFrom \in [Callers -> 0..Chain]
      /\ tries \in [Callers -> 0..(Retries + 1)] /\ walls \in [Endpoints -> 0..TripAt]
      /\ tripped \in [Endpoints -> {"no", "cooling", "due"}]
      /\ \A d \in Callers : step[d] \notin {"idle", "chain"} => hop[d] <= Chain
      /\ \A e \in Endpoints : tripped[e] = "no" => walls[e] < TripAt
  BY DEF GwSized, InBounds
<1>c. /\ Chain \in Nat \ {0} /\ Retries \in Nat \ {0} /\ TripAt \in Nat \ {0}
      /\ 1 \in 1..(Chain + 1) /\ 0 \in 0..(Retries + 1) /\ 0 \in 0..Chain
  BY GwConstants
<1>1. CASE Begin(c) \/ Exhausted(c)
  <2>1. GwSized'
    BY <1>0, <1>1, <1>c DEF Begin, Exhausted, GwSized, None
  <2>2. InBounds'
    BY <1>0, <1>1 DEF Begin, Exhausted, InBounds
  <2> QED BY <2>1, <2>2
<1>2. CASE PassOver(c) \/ FallOver(c)
  <2>1. TurnedAway(c) /\ hop[c] <= Chain /\ UNCHANGED <<tries, walls, tripped>>
    BY <1>0, <1>2 DEF PassOver, FallOver
  <2>2. /\ step' \in [Callers -> {"idle", "chain", "probe", "request", "walled", "answered",
                                  "recorded"}]
        /\ hop' \in [Callers -> 1..(Chain + 1)] /\ fellFrom' \in [Callers -> 0..Chain]
        /\ \A d \in Callers : step'[d] \notin {"idle", "chain"} => hop'[d] <= Chain
    BY <2>1, AwaySized
  <2> QED BY <1>0, <2>1, <2>2 DEF GwSized, InBounds
<1>3. CASE ProbeFails(c)
  <2>1. TurnedAway(c) /\ hop[c] <= Chain /\ UNCHANGED <<tries, walls>>
    BY <1>0, <1>3 DEF ProbeFails
  <2>2. /\ step' \in [Callers -> {"idle", "chain", "probe", "request", "walled", "answered",
                                  "recorded"}]
        /\ hop' \in [Callers -> 1..(Chain + 1)] /\ fellFrom' \in [Callers -> 0..Chain]
        /\ \A d \in Callers : step'[d] \notin {"idle", "chain"} => hop'[d] <= Chain
    BY <2>1, AwaySized
  <2>3. /\ tripped' \in [Endpoints -> {"no", "cooling", "due"}]
        /\ \A e \in Endpoints : tripped'[e] = "no" => tripped[e] = "no"
    BY <1>0, <1>3 DEF ProbeFails
  <2> QED BY <1>0, <2>1, <2>2, <2>3 DEF GwSized, InBounds
<1>4. CASE Sound(c)
  <2>1. First(c) \in 0..Chain
    BY <1>0, <1>4, <1>c DEF Sound, First
  <2>2. GwSized'
    BY <1>0, <1>4, <2>1 DEF Sound, GwSized
  <2>3. InBounds'
    BY <1>0, <1>4 DEF Sound, InBounds
  <2> QED BY <2>2, <2>3
<1>5. CASE Sounded(c)
  <2>1. /\ walls' \in [Endpoints -> 0..TripAt] /\ tripped' \in [Endpoints -> {"no", "cooling", "due"}]
        /\ \A e \in Endpoints : tripped'[e] = "no" => walls'[e] < TripAt
    BY <1>0, <1>5, <1>c DEF Sounded
  <2>2. GwSized'
    BY <1>0, <1>5, <1>c, <2>1 DEF Sounded, GwSized, None
  <2>3. InBounds'
    BY <1>0, <1>5, <2>1 DEF Sounded, InBounds
  <2> QED BY <2>2, <2>3
<1>6. CASE Ask(c) \/ RequestAnswered(c) \/ Rejected(c)
  <2>1. GwSized'
    BY <1>0, <1>6, <1>c DEF Ask, RequestAnswered, Rejected, GwSized
  <2>2. InBounds'
    BY <1>0, <1>6 DEF Ask, RequestAnswered, Rejected, InBounds
  <2> QED BY <2>1, <2>2
<1>7. CASE RequestFails(c)
  <2>1. tries[c] + 1 \in 0..(Retries + 1)
    BY <1>0, <1>7, <1>c DEF RequestFails
  <2>2. GwSized'
    BY <1>0, <1>7, <2>1 DEF RequestFails, GwSized
  <2>3. InBounds'
    BY <1>0, <1>7 DEF RequestFails, InBounds
  <2> QED BY <2>2, <2>3
<1>8. CASE TellFailure(c)
  <2>1. PICK slow \in BOOLEAN : Tell(c, walls[hop[c]] + 1, slow)
    BY <1>8 DEF TellFailure
  <2>2. hop[c] <= Chain /\ tries[c] - 1 \in 0..(Retries + 1)
    BY <1>0, <1>8, <1>c DEF TellFailure
  <2>3. /\ walls' \in [Endpoints -> 0..TripAt] /\ tripped' \in [Endpoints -> {"no", "cooling", "due"}]
        /\ \A e \in Endpoints : tripped'[e] = "no" => walls'[e] < TripAt
    BY <2>1, <2>2, TellSized
  <2> QED BY <1>0, <1>8, <2>2, <2>3 DEF TellFailure, GwSized, InBounds
<1>9. CASE TellAnswer(c)
  <2>1. PICK slow \in BOOLEAN : Tell(c, 0, slow)
    BY <1>9 DEF TellAnswer
  <2>2. hop[c] <= Chain
    BY <1>0, <1>9 DEF TellAnswer
  <2>3. /\ walls' \in [Endpoints -> 0..TripAt] /\ tripped' \in [Endpoints -> {"no", "cooling", "due"}]
        /\ \A e \in Endpoints : tripped'[e] = "no" => walls'[e] < TripAt
    BY <2>1, <2>2, TellSized
  <2> QED BY <1>0, <1>9, <2>3 DEF TellAnswer, GwSized, InBounds
<1>10. CASE Return(c)
  <2>1. GwSized'
    BY <1>0, <1>10, <1>c DEF Return, GwSized
  <2>2. InBounds'
    BY <1>0, <1>10 DEF Return, InBounds
  <2> QED BY <2>1, <2>2
<1> QED BY <1>1, <1>2, <1>3, <1>4, <1>5, <1>6, <1>7, <1>8, <1>9, <1>10 DEF Calls

\* Every step of the calls, of the cooling down and of the check leaves them so.
LEMMA SizedStep == GwSized /\ InBounds /\ [GwNext]_gwVars => GwSized' /\ InBounds'
<1> SUFFICES ASSUME GwSized, InBounds, [GwNext]_gwVars PROVE GwSized' /\ InBounds'
  OBVIOUS
<1>1. ASSUME NEW e \in Endpoints, CoolDown(e) PROVE GwSized' /\ InBounds'
  BY <1>1 DEF CoolDown, GwSized, InBounds
<1>2. ASSUME NEW failing \in BOOLEAN, FatalCheck(failing) PROVE GwSized' /\ InBounds'
  BY <1>2 DEF FatalCheck, breaker, GwSized, InBounds
<1>3. CASE UNCHANGED gwVars
  BY <1>3 DEF gwVars, GwSized, InBounds
<1> QED BY <1>1, <1>2, <1>3, CallsSized DEF GwNext, Calls

\* Nobody is calling at the beginning.
LEMMA SizedInit == GwInit => GwSized /\ InBounds
BY GwConstants DEF GwInit, GwSized, InBounds, None, Endpoints

\* The calls' counters stay within their bounds.
THEOREM GatewayTypeCorrect == GwSpec => []GwTypeOK
<1>1. GwSized => GwTypeOK
  BY DEF GwSized, GwTypeOK
<1> QED BY <1>1, SizedInit, SizedStep, PTL DEF GwSpec

-----------------------------------------------------------------------------
(*****************************************************************************)
(* CostBreaker: it pauses once, and for a reason.                            *)
(*****************************************************************************)
CostTypes ==
  /\ night \in Nat /\ level \in Levels /\ wantsPause \in BOOLEAN /\ fired \in BOOLEAN
  /\ alarmSince \in Int /\ throttleSince \in Int /\ costPauses \in Nat
  /\ Unset <= alarmSince /\ alarmSince <= night
  /\ Unset <= throttleSince /\ throttleSince <= night
  /\ long \in {"unset", "no", "yes"} /\ stopped \in {"no", "cost", "fault"}

\* A standing entry into the highest band speaks of the night before.
EntryStands == throttleSince # Unset => lastBand = "ruinous"

\* What pauses the clock is reset when the brake is let go, not when the pause is lifted.
FiredOnce ==
  /\ wantsPause \/ fired => level = "throttle"
  /\ costPauses = IF fired THEN 1 ELSE 0

CostInv == CostTypes /\ EntryStands /\ FiredOnce

\* The kernel starts unbraked.
LEMMA CostInitInv == CostInit => CostInv
<1> SUFFICES ASSUME CostInit PROVE CostInv
  OBVIOUS
<1>1. CostTypes
  <2>1. /\ night \in Nat /\ alarmSince \in Int /\ throttleSince \in Int /\ costPauses \in Nat
        /\ Unset <= alarmSince /\ alarmSince <= night
        /\ Unset <= throttleSince /\ throttleSince <= night
    BY DEF CostInit, Unset
  <2>2. /\ level \in Levels /\ wantsPause \in BOOLEAN /\ fired \in BOOLEAN
        /\ long \in {"unset", "no", "yes"} /\ stopped \in {"no", "cost", "fault"}
    BY DEF CostInit, Levels
  <2> QED BY <2>1, <2>2 DEF CostTypes
<1>2. FiredOnce
  BY DEF CostInit, FiredOnce
<1>3. EntryStands
  BY DEF CostInit, EntryStands
<1> QED BY <1>1, <1>2, <1>3 DEF CostInv

\* A nightly evaluation keeps the invariant: the entry stands only in the highest band.
LEMMA EvaluateInv == CostInv /\ Evaluate => CostInv'
<1> SUFFICES ASSUME CostInv, Evaluate PROVE CostInv'
  OBVIOUS
<1> USE DEF CostInv, Unset
<1>1. PICK i \in 1..4 :
        /\ BandsEntered(Bands[i]) /\ level' = LevelAfter(Target(Bands[i]))
        /\ lastBand' = Bands[i] /\ Escalates(Bands[i]) /\ Pauses
  BY DEF Evaluate
<1> DEFINE band == Bands[i]
<1>2. band \in {"calm", "normal", "dear", "ruinous"}
  BY DEF Bands
<1> HIDE DEF band
<1>3. night' \in Nat /\ night' = night + 1
  BY DEF Evaluate, CostTypes
<1>4. /\ alarmSince' \in Int /\ Unset <= alarmSince' /\ alarmSince' <= night'
      /\ throttleSince' \in Int /\ Unset <= throttleSince' /\ throttleSince' <= night'
      /\ throttleSince' # Unset => band = "ruinous"
  BY <1>1, <1>2, <1>3 DEF BandsEntered, Since, CostTypes, band
<1>5. level' \in Levels
  BY <1>1, <1>2 DEF LevelAfter, Target, Levels, CostTypes, band
<1>6. /\ long' \in {"unset", "no", "yes"} /\ wantsPause' \in BOOLEAN
      /\ wantsPause' => level' = "throttle"
  BY <1>1 DEF Escalates, CostTypes
<1>7. /\ stopped' \in {"no", "cost", "fault"} /\ fired' \in BOOLEAN /\ costPauses' \in Nat
      /\ fired' => level' = "throttle"
      /\ costPauses' = IF fired' THEN 1 ELSE 0
  <2>1. /\ stopped \in {"no", "cost", "fault"} /\ fired \in BOOLEAN /\ level' \in Levels
        /\ costPauses = IF fired THEN 1 ELSE 0
    BY <1>5 DEF CostTypes, FiredOnce
  <2>2. CASE wantsPause' /\ ~fired
    BY <1>1, <1>6, <2>1, <2>2 DEF Pauses
  <2>3. CASE ~(wantsPause' /\ ~fired) /\ level' = "throttle"
    <3>1. fired' = fired /\ costPauses' = costPauses /\ stopped' = stopped
      BY <1>1, <2>1, <2>3 DEF Pauses
    <3> QED BY <2>1, <2>3, <3>1
  <2>4. CASE ~(wantsPause' /\ ~fired) /\ level' # "throttle"
    <3>1. fired' = FALSE /\ costPauses' = 0 /\ stopped' = stopped
      BY <1>1, <2>1, <2>4 DEF Pauses
    <3> QED BY <2>1, <3>1
  <2> QED BY <2>2, <2>3, <2>4
<1> QED BY <1>1, <1>3, <1>4, <1>5, <1>6, <1>7 DEF CostTypes, EntryStands, FiredOnce, band

\* So does every other step.
LEMMA CostStepInv == CostInv /\ [CostNext]_costVars => CostInv'
<1> SUFFICES ASSUME CostInv, [CostNext]_costVars PROVE CostInv'
  OBVIOUS
<1> USE DEF CostInv, CostTypes, EntryStands, FiredOnce
<1>1. CASE Evaluate
  BY <1>1, EvaluateInv DEF CostInv, CostTypes, EntryStands, FiredOnce
<1>2. CASE HoursPass
  BY <1>2 DEF HoursPass
<1>3. CASE FaultSeen
  BY <1>3 DEF FaultSeen, brake
<1>4. CASE FaultGone
  BY <1>4 DEF FaultGone, brake
<1>5. CASE Restart
  <2>1. CostTypes'
    <3>1. wantsPause' \in BOOLEAN /\ fired' \in BOOLEAN
      BY <1>5 DEF Restart, FreshBrake
    <3>2. /\ night' \in Nat /\ alarmSince' \in Int /\ throttleSince' \in Int
          /\ costPauses' \in Nat /\ Unset <= alarmSince' /\ alarmSince' <= night'
          /\ Unset <= throttleSince' /\ throttleSince' <= night'
      BY <1>5 DEF Restart, FreshBrake, Unset
    <3>3. /\ level' \in Levels /\ long' \in {"unset", "no", "yes"}
          /\ stopped' \in {"no", "cost", "fault"}
      BY <1>5 DEF Restart, FreshBrake, Levels
    <3> QED BY <3>1, <3>2, <3>3
  <2>2. EntryStands' /\ FiredOnce'
    BY <1>5 DEF Restart, FreshBrake
  <2> QED BY <2>1, <2>2
<1>6. CASE UNCHANGED costVars
  BY <1>6 DEF costVars
<1> QED BY <1>1, <1>2, <1>3, <1>4, <1>5, <1>6 DEF CostNext

\* The invariant holds throughout.
LEMMA CostAlways == CostSpec => []CostInv
BY CostInitInv, CostStepInv, PTL DEF CostSpec

\* Every variable keeps its type, and nothing asks for a pause while the brake is off.
THEOREM CostTypeCorrect == CostSpec => []CostTypeOK
<1>1. CostInv => CostTypeOK
  BY DEF CostInv, CostTypes, FiredOnce, CostTypeOK, Unset
<1> QED BY <1>1, CostAlways, PTL

\* For any number of nights, restarts and lifted pauses, one stay on the brake pauses
\* the clock for the cost at most once (main.py, _cost_pause_fired).
THEOREM PausesOnce == CostSpec => []PausedOnce
<1>1. CostInv => PausedOnce
  BY DEF CostInv, CostTypes, FiredOnce, PausedOnce
<1> QED BY <1>1, CostAlways, PTL

\* The brake is put on only after a whole day over its line, however the cost went up and
\* down, the kernel was restarted and pauses were lifted before (breaker.py:291).
THEOREM BrakeEarned == CostSpec => BrakeIsEarned
<1>1. ASSUME CostInv, [CostNext]_costVars, level # "throttle", level' = "throttle"
      PROVE  lastBand = "ruinous" /\ lastBand' = "ruinous"
  <2>1. CASE Evaluate
    <3>1. PICK i \in 1..4 :
            level' = LevelAfter(Target(Bands[i])) /\ lastBand' = Bands[i]
      BY <2>1 DEF Evaluate
    <3>2. Target(Bands[i]) = "throttle"
      BY <1>1, <3>1 DEF LevelAfter, CostInv, CostTypes, Levels
    <3>3. Bands[i] = "ruinous" /\ Persisted(throttleSince)
      BY <3>2 DEF Target
    <3>4. throttleSince # Unset
      BY <1>1, <2>1, <3>3 DEF Persisted, Since, Evaluate, CostInv, CostTypes, Unset
    <3> QED BY <1>1, <3>1, <3>3, <3>4 DEF CostInv, EntryStands
  <2>2. CASE HoursPass
    BY <1>1, <2>2 DEF HoursPass
  <2>3. CASE FaultSeen
    BY <1>1, <2>3 DEF FaultSeen, brake
  <2>4. CASE FaultGone
    BY <1>1, <2>4 DEF FaultGone, brake
  <2>5. CASE Restart
    BY <1>1, <2>5 DEF Restart, FreshBrake
  <2>6. CASE UNCHANGED costVars
    BY <1>1, <2>6 DEF costVars
  <2> QED BY <1>1, <2>1, <2>2, <2>3, <2>4, <2>5, <2>6 DEF CostNext
<1>2. CostInv /\ [CostNext]_costVars
        => [level # "throttle" /\ level' = "throttle"
             => lastBand = "ruinous" /\ lastBand' = "ruinous"]_costVars
  BY <1>1
<1> QED BY <1>2, CostAlways, PTL DEF CostSpec, BrakeIsEarned

-----------------------------------------------------------------------------
(*****************************************************************************)
(* Memory: what is archived stays covered, and the sum is right.             *)
(*****************************************************************************)
KindsKept == {"event", "projection", "reflection", "summary"}

Kept == [kind : KindsKept, weight : Nat, date : Nat]

MemTypes ==
  /\ date \in Nat /\ entries \in [Owners -> Seq(Kept)]
  /\ archived \in [Owners -> SUBSET Nat] /\ covered \in [Owners -> SUBSET Nat]
  /\ inAcc \in [Owners -> SUBSET Nat] /\ spent \in [Owners -> SUBSET Nat]
  /\ accAt \in [Owners -> Nat]

\* Only what exists is archived, and only what the cursor has passed has been weighed.
Bounded ==
  \A o \in Owners :
    /\ archived[o] \subseteq Ids(o) /\ accAt[o] <= Len(entries[o])
    /\ inAcc[o] \subseteq 1..accAt[o] /\ spent[o] \subseteq 1..accAt[o]

\* No entry is in the sum again whose weight an earlier reflection has used up.
NoneWeighsTwice == \A o \in Owners : inAcc[o] \intersect spent[o] = {}

MemInv == MemTypes /\ Bounded /\ NoneWeighsTwice /\ ArchivedIsCovered

\* Nobody remembers anything at the beginning.
LEMMA MemInitInv == MemInit => MemInv
<1> SUFFICES ASSUME MemInit PROVE MemInv
  OBVIOUS
<1>1. MemTypes
  BY DEF MemInit, MemTypes
<1>2. Bounded /\ NoneWeighsTwice /\ ArchivedIsCovered
  BY DEF MemInit, Bounded, NoneWeighsTwice, ArchivedIsCovered, Ids
<1> QED BY <1>1, <1>2 DEF MemInv

\* What is written comes behind what is there.
LEMMA WrittenKeeps ==
  ASSUME MemTypes, NEW o \in Owners, NEW news \in Seq(Kept), Written(o, news)
  PROVE  /\ entries' \in [Owners -> Seq(Kept)]
         /\ \A q \in Owners : Len(entries[q]) \in Nat /\ Len(entries'[q]) \in Nat
                              /\ Len(entries'[q]) >= Len(entries[q])
         /\ \A q \in Owners : \A i \in Ids(q) : entries'[q][i] = entries[q][i]
         /\ \A q \in Owners : q # o => entries'[q] = entries[q]
<1>1. entries[o] \o news \in Seq(Kept) /\ Len(entries[o] \o news) = Len(entries[o]) + Len(news)
  BY ConcatProperties DEF MemTypes
<1>2. \A i \in 1..Len(entries[o]) : (entries[o] \o news)[i] = entries[o][i]
  BY ConcatProperties DEF MemTypes
<1>3. entries' = [entries EXCEPT ![o] = entries[o] \o news]
  BY DEF Written
<1>4. /\ entries' \in [Owners -> Seq(Kept)] /\ entries'[o] = entries[o] \o news
      /\ \A q \in Owners : q # o => entries'[q] = entries[q]
  BY <1>1, <1>3 DEF MemTypes
<1>5. Len(news) \in Nat /\ \A q \in Owners : Len(entries[q]) \in Nat /\ Len(entries'[q]) \in Nat
  BY <1>4 DEF MemTypes
<1>6. ASSUME NEW q \in Owners PROVE Len(entries'[q]) >= Len(entries[q])
  <2>1. CASE q = o
    <3>1. Len(entries'[q]) = Len(entries[q]) + Len(news)
      BY <1>1, <1>4, <2>1
    <3> QED BY <1>5, <3>1
  <2>2. CASE q # o
    <3>1. entries'[q] = entries[q]
      BY <1>4, <2>2
    <3> QED BY <1>5, <3>1
  <2> QED BY <2>1, <2>2
<1>7. ASSUME NEW q \in Owners, NEW i \in Ids(q) PROVE entries'[q][i] = entries[q][i]
  BY <1>2, <1>4 DEF Ids
<1> QED BY <1>4, <1>5, <1>6, <1>7

\* What makes an entry: a kind, a weight, a day.
LEMMA EntryIsKept ==
  ASSUME MemTypes, NEW k \in KindsKept, NEW w \in Nat
  PROVE  Entry(k, w) \in Kept /\ <<Entry(k, w)>> \in Seq(Kept)
<1>1. Entry(k, w) \in Kept
  BY DEF Entry, Kept, MemTypes
<1> HIDE DEF Entry, Kept
<1> QED BY <1>1

\* An operation that writes entries, archives nothing and either leaves the cursor or
\* moves it behind them, weighing at most what lay beyond it, keeps the invariant.
LEMMA WritingInv ==
  ASSUME MemInv, NEW o \in Owners, NEW news \in Seq(Kept), Written(o, news),
         UNCHANGED <<date, tidying>>,
         \/ UNCHANGED <<accAt, inAcc, spent>>
         \/ /\ accAt' = [accAt EXCEPT ![o] = Len(entries'[o])]
            /\ \/ UNCHANGED <<inAcc, spent>>
               \/ UNCHANGED spent /\ inAcc' = [inAcc EXCEPT ![o] = inAcc[o] \union Unweighed(o)]
               \/ /\ inAcc' = [inAcc EXCEPT ![o] = {}]
                  /\ spent' = [spent EXCEPT ![o] = spent[o] \union inAcc[o] \union Unweighed(o)]
  PROVE  MemInv'
<1>1. /\ entries' \in [Owners -> Seq(Kept)]
      /\ \A q \in Owners : Len(entries[q]) \in Nat /\ Len(entries'[q]) \in Nat
                           /\ Len(entries'[q]) >= Len(entries[q])
      /\ \A q \in Owners : \A i \in Ids(q) : entries'[q][i] = entries[q][i]
      /\ \A q \in Owners : q # o => entries'[q] = entries[q]
  BY WrittenKeeps DEF MemInv
<1>2. archived' = archived /\ covered' = covered /\ date' = date
  BY DEF tidying
<1>3. Unweighed(o) \subseteq Ids(o) /\ \A i \in Unweighed(o) : i > accAt[o]
  BY DEF Unweighed
<1>4. /\ accAt' \in [Owners -> Nat] /\ inAcc' \in [Owners -> SUBSET Nat]
      /\ spent' \in [Owners -> SUBSET Nat]
      /\ \A q \in Owners : q # o =>
           accAt'[q] = accAt[q] /\ inAcc'[q] = inAcc[q] /\ spent'[q] = spent[q]
  <2>1. Unweighed(o) \subseteq Nat /\ Len(entries'[o]) \in Nat
    BY <1>1, <1>3 DEF Ids
  <2>2. /\ accAt \in [Owners -> Nat] /\ inAcc \in [Owners -> SUBSET Nat]
        /\ spent \in [Owners -> SUBSET Nat]
    BY DEF MemInv, MemTypes
  <2>3. /\ inAcc[o] \union Unweighed(o) \in SUBSET Nat
        /\ spent[o] \union inAcc[o] \union Unweighed(o) \in SUBSET Nat
    BY <2>1, <2>2
  <2>4. /\ accAt' \in [Owners -> Nat]
        /\ \A q \in Owners : q # o => accAt'[q] = accAt[q]
    BY <2>1, <2>2
  <2>5. /\ inAcc' \in [Owners -> SUBSET Nat] /\ spent' \in [Owners -> SUBSET Nat]
        /\ \A q \in Owners : q # o => inAcc'[q] = inAcc[q] /\ spent'[q] = spent[q]
    BY <2>2, <2>3
  <2> QED BY <2>4, <2>5
<1>5. MemTypes'
  BY <1>1, <1>2, <1>4 DEF MemInv, MemTypes
<1>6. ASSUME NEW q \in Owners
      PROVE  /\ archived'[q] \subseteq Ids(q)' /\ accAt'[q] <= Len(entries'[q])
             /\ inAcc'[q] \subseteq 1..accAt'[q] /\ spent'[q] \subseteq 1..accAt'[q]
             /\ inAcc'[q] \intersect spent'[q] = {}
  <2>1. /\ archived[q] \subseteq Ids(q) /\ accAt[q] <= Len(entries[q]) /\ accAt[q] \in Nat
        /\ inAcc[q] \subseteq 1..accAt[q] /\ spent[q] \subseteq 1..accAt[q]
        /\ inAcc[q] \intersect spent[q] = {}
    BY DEF MemInv, MemTypes, Bounded, NoneWeighsTwice
  <2>2. archived'[q] \subseteq Ids(q)'
    BY <1>1, <1>2, <2>1 DEF Ids
  <2>3. CASE q # o
    BY <1>1, <1>4, <2>1, <2>2, <2>3
  <2>4. CASE q = o /\ UNCHANGED <<accAt, inAcc, spent>>
    BY <1>1, <2>1, <2>2, <2>4
  <2>5. CASE q = o /\ accAt' = [accAt EXCEPT ![o] = Len(entries'[o])]
    <3>1. accAt'[q] = Len(entries'[q]) /\ Ids(q) \subseteq 1..accAt'[q]
      BY <1>1, <2>5 DEF Ids, MemInv, MemTypes
    <3>2. inAcc[q] \subseteq 1..accAt'[q] /\ spent[q] \subseteq 1..accAt'[q]
      BY <1>1, <2>1, <3>1
    <3>3. CASE UNCHANGED <<inAcc, spent>>
      BY <1>1, <2>1, <2>2, <3>1, <3>2, <3>3
    <3>4. CASE UNCHANGED spent /\ inAcc' = [inAcc EXCEPT ![o] = inAcc[o] \union Unweighed(o)]
      <4>1. inAcc'[q] = inAcc[q] \union Unweighed(q) /\ spent'[q] = spent[q]
        BY <2>5, <3>4 DEF MemInv, MemTypes
      <4>2. Unweighed(q) \subseteq 1..accAt'[q] /\ Unweighed(q) \intersect spent[q] = {}
        BY <1>3, <2>1, <2>5, <3>1
      <4> QED BY <1>1, <2>1, <2>2, <3>1, <3>2, <4>1, <4>2
    <3>5. CASE /\ inAcc' = [inAcc EXCEPT ![o] = {}]
               /\ spent' = [spent EXCEPT ![o] = spent[o] \union inAcc[o] \union Unweighed(o)]
      <4>1. inAcc'[q] = {} /\ spent'[q] = spent[q] \union inAcc[q] \union Unweighed(q)
        BY <2>5, <3>5 DEF MemInv, MemTypes
      <4>2. Unweighed(q) \subseteq 1..accAt'[q]
        BY <1>3, <2>5, <3>1
      <4> QED BY <1>1, <2>2, <3>1, <3>2, <4>1, <4>2
    <3>6. \/ UNCHANGED <<accAt, inAcc, spent>> \/ UNCHANGED <<inAcc, spent>>
          \/ UNCHANGED spent /\ inAcc' = [inAcc EXCEPT ![o] = inAcc[o] \union Unweighed(o)]
          \/ /\ inAcc' = [inAcc EXCEPT ![o] = {}]
             /\ spent' = [spent EXCEPT ![o] = spent[o] \union inAcc[o] \union Unweighed(o)]
      OBVIOUS
    <3> QED BY <2>4, <2>5, <3>3, <3>4, <3>5, <3>6
  <2> QED BY <2>3, <2>4, <2>5
<1>7. ArchivedIsCovered'
  BY <1>1, <1>2 DEF MemInv, ArchivedIsCovered, Bounded
<1> QED BY <1>5, <1>6, <1>7 DEF MemInv, Bounded, NoneWeighsTwice

\* Weighing moves the cursor to the end and takes in what lay beyond it.
LEMMA WeighInInv == ASSUME MemInv, NEW o \in Owners, WeighIn(o) PROVE MemInv'
<1>1. /\ UNCHANGED <<date, entries, tidying, spent>>
      /\ accAt' = [accAt EXCEPT ![o] = Len(entries[o])]
      /\ inAcc' = [inAcc EXCEPT ![o] = inAcc[o] \union Unweighed(o)]
  BY DEF WeighIn, TakesIn
<1>2. entries[o] \o <<>> = entries[o] /\ <<>> \in Seq(Kept) /\ entries[o] \in Seq(Kept)
  BY ConcatEmptySeq DEF MemInv, MemTypes
<1>3. Written(o, <<>>)
  BY <1>1, <1>2 DEF Written, MemInv, MemTypes
<1>4. accAt' = [accAt EXCEPT ![o] = Len(entries'[o])]
  BY <1>1
<1> QED BY <1>1, <1>2, <1>3, <1>4, WritingInv

\* A reflection writes its insights, moves the cursors and resets the sum, or stops short.
LEMMA ReflectInv == ASSUME MemInv, NEW o \in Owners, Reflect(o) PROVE MemInv'
<1>1. PICK n \in Insights :
        /\ Written(o, [i \in 1..n |-> Entry("reflection", 7)])
        /\ \/ UNCHANGED mood
           \/ /\ accAt' = [accAt EXCEPT ![o] = Len(entries'[o])]
              /\ \/ TakesIn(o) /\ UNCHANGED spent
                 \/ /\ inAcc' = [inAcc EXCEPT ![o] = {}]
                    /\ spent' = [spent EXCEPT ![o] = @ \union inAcc[o] \union Unweighed(o)]
  BY DEF Reflect
<1>2. UNCHANGED <<date, tidying>>
  BY DEF Reflect
<1> DEFINE news == [i \in 1..n |-> Entry("reflection", 7)]
<1>3. Entry("reflection", 7) \in Kept
  BY EntryIsKept DEF MemInv, KindsKept
<1>4. news \in Seq(Kept)
  BY <1>3 DEF Insights
<1> HIDE DEF news
<1>5. Written(o, news)
  BY <1>1 DEF news
<1>6. \/ UNCHANGED <<accAt, inAcc, spent>>
      \/ /\ accAt' = [accAt EXCEPT ![o] = Len(entries'[o])]
         /\ \/ UNCHANGED spent /\ inAcc' = [inAcc EXCEPT ![o] = inAcc[o] \union Unweighed(o)]
            \/ /\ inAcc' = [inAcc EXCEPT ![o] = {}]
               /\ spent' = [spent EXCEPT ![o] = spent[o] \union inAcc[o] \union Unweighed(o)]
  BY <1>1 DEF mood, TakesIn
<1> QED BY <1>2, <1>4, <1>5, <1>6, WritingInv

\* A reflection outside the hook writes one entry and moves the cursors past it.
LEMMA OutsideInv == ASSUME MemInv, NEW o \in Owners, FallBack(o) \/ Generated(o) PROVE MemInv'
<1>1. UNCHANGED <<date, tidying>>
  BY DEF FallBack, Generated
<1>2. PICK w \in {4, 8} : Written(o, <<Entry("reflection", w)>>)
  BY DEF FallBack, Generated
<1>3. \/ UNCHANGED <<accAt, inAcc, spent>>
      \/ accAt' = [accAt EXCEPT ![o] = Len(entries'[o])] /\ UNCHANGED <<inAcc, spent>>
  BY DEF FallBack, Generated, PassCursors, mood
<1>4. <<Entry("reflection", w)>> \in Seq(Kept)
  BY EntryIsKept DEF MemInv, KindsKept
<1> QED BY <1>1, <1>2, <1>3, <1>4, WritingInv

\* Merging covers what it archives.
LEMMA MergeInv == ASSUME MemInv, NEW o \in Owners, Merge(o) PROVE MemInv'
<1>1. /\ Written(o, <<Entry("summary", 4)>>) /\ UNCHANGED <<date, mood>>
      /\ covered' = [covered EXCEPT ![o] = covered[o] \union Mergeable(o)]
      /\ \/ UNCHANGED archived
         \/ archived' = [archived EXCEPT ![o] = archived[o] \union Mergeable(o)]
  BY DEF Merge
<1>2. <<Entry("summary", 4)>> \in Seq(Kept)
  BY EntryIsKept DEF MemInv, KindsKept
<1>3. /\ entries' \in [Owners -> Seq(Kept)]
      /\ \A q \in Owners : Len(entries[q]) \in Nat /\ Len(entries'[q]) \in Nat
                           /\ Len(entries'[q]) >= Len(entries[q])
      /\ \A q \in Owners : \A i \in Ids(q) : entries'[q][i] = entries[q][i]
  BY <1>1, <1>2, WrittenKeeps DEF MemInv
<1>4. Mergeable(o) \subseteq Ids(o) /\ Ids(o) \subseteq Nat
  BY DEF Mergeable, Ids
<1>5. accAt' = accAt /\ inAcc' = inAcc /\ spent' = spent /\ date' = date
  BY <1>1 DEF mood
<1>6. /\ covered' \in [Owners -> SUBSET Nat] /\ archived' \in [Owners -> SUBSET Nat]
      /\ \A q \in Owners : /\ covered[q] \subseteq covered'[q]
                           /\ \/ archived'[q] = archived[q]
                              \/ q = o /\ archived'[q] = archived[q] \union Mergeable(o)
                                 /\ covered'[q] = covered[q] \union Mergeable(o)
  BY <1>1, <1>4 DEF MemInv, MemTypes
<1>7. MemTypes'
  BY <1>3, <1>5, <1>6 DEF MemInv, MemTypes
<1>8. \A q \in Owners : archived'[q] \subseteq Ids(q) /\ Ids(q) \subseteq Ids(q)'
  <2>1. ASSUME NEW q \in Owners PROVE archived'[q] \subseteq Ids(q)
    <3>1. archived[q] \subseteq Ids(q)
      BY DEF MemInv, Bounded
    <3> QED BY <1>4, <1>6, <3>1
  <2>2. \A q \in Owners : Ids(q) \subseteq Ids(q)'
    BY <1>3 DEF Ids
  <2> QED BY <2>1, <2>2
<1>9. Bounded' /\ NoneWeighsTwice'
  <2>1. ASSUME NEW q \in Owners
        PROVE  /\ archived'[q] \subseteq Ids(q)' /\ accAt'[q] <= Len(entries'[q])
               /\ inAcc'[q] \subseteq 1..accAt'[q] /\ spent'[q] \subseteq 1..accAt'[q]
               /\ inAcc'[q] \intersect spent'[q] = {}
    BY <1>3, <1>5, <1>8 DEF MemInv, MemTypes, Bounded, NoneWeighsTwice
  <2> QED BY <2>1 DEF Bounded, NoneWeighsTwice
<1>10. ArchivedIsCovered'
  BY <1>3, <1>6, <1>8 DEF MemInv, ArchivedIsCovered
<1> QED BY <1>7, <1>9, <1>10 DEF MemInv

\* Archiving what is old touches nothing that weighs much.
LEMMA ArchiveOldInv == ASSUME MemInv, ArchiveOld PROVE MemInv'
<1> DEFINE Old(o) ==
      {i \in Ids(o) : entries[o][i].weight <= ArchiveMax /\ entries[o][i].date < date - ArchiveAge}
<1>1. /\ archived' = [o \in Owners |-> archived[o] \union Old(o)]
      /\ UNCHANGED <<date, entries, covered, accAt, inAcc, spent>>
  BY DEF ArchiveOld, mood
<1>2. \A o \in Owners : Old(o) \subseteq Ids(o) /\ Ids(o) \subseteq Nat
  BY DEF Ids
<1>3. MemTypes' /\ Bounded' /\ NoneWeighsTwice'
  BY <1>1, <1>2 DEF MemInv, MemTypes, Bounded, NoneWeighsTwice, Ids
<1>4. ASSUME NEW o \in Owners, NEW i \in archived'[o], entries'[o][i].weight > ArchiveMax
      PROVE  i \in covered'[o]
  <2>1. CASE i \in archived[o]
    BY <1>1, <1>4, <2>1 DEF MemInv, ArchivedIsCovered
  <2>2. CASE i \in Old(o)
    <3>1. entries[o][i] \in Kept
      BY <2>2 DEF MemInv, MemTypes, Ids
    <3> QED BY <1>1, <1>4, <2>2, <3>1, MemoryAssumption DEF Kept
  <2> QED BY <1>1, <1>4, <2>1, <2>2
<1> QED BY <1>3, <1>4 DEF MemInv, ArchivedIsCovered

\* Every step keeps the invariant.
LEMMA MemStepInv == MemInv /\ [MemNext]_memVars => MemInv'
<1> SUFFICES ASSUME MemInv, [MemNext]_memVars PROVE MemInv'
  OBVIOUS
<1>1. ASSUME NEW o \in Owners, Lives(o) PROVE MemInv'
  <2>1. PICK k \in {"event", "projection", "reflection"}, w \in Weights :
          Written(o, <<Entry(k, w)>>)
    BY <1>1 DEF Lives
  <2>2. <<Entry(k, w)>> \in Seq(Kept)
    BY EntryIsKept, MemoryAssumption DEF MemInv, KindsKept
  <2>3. UNCHANGED <<date, tidying>> /\ UNCHANGED <<accAt, inAcc, spent>>
    BY <1>1 DEF Lives, mood
  <2> QED BY <2>1, <2>2, <2>3, WritingInv
<1>2. CASE Evening \/ UNCHANGED memVars
  BY <1>2 DEF Evening, memVars, tidying, mood, MemInv, MemTypes, Bounded, NoneWeighsTwice,
              ArchivedIsCovered, Ids
<1>3. CASE Midnight
  BY <1>3 DEF Midnight, tidying, mood, MemInv, MemTypes, Bounded, NoneWeighsTwice,
              ArchivedIsCovered, Ids
<1> QED BY <1>1, <1>2, <1>3, WeighInInv, ReflectInv, OutsideInv, MergeInv, ArchiveOldInv DEF MemNext

\* Whatever lapses and in whichever order the two coroutines tidy up: what weighs more than
\* the archive takes has a summary in its place (hygiene.py: merge, then archive).
THEOREM ArchivedStaysCovered == MemSpec => []ArchivedIsCovered
<1>1. MemInv => ArchivedIsCovered
  BY DEF MemInv
<1> QED BY <1>1, MemInitInv, MemStepInv, PTL DEF MemSpec

-----------------------------------------------------------------------------
\* The weights of the entries in a set, summed up to each of them.
SumsOf(es, ids) ==
  {g \in [0..Len(es) -> Nat] :
     g[0] = 0 /\ \A n \in 1..Len(es) : g[n] = g[n - 1] + IF n \in ids THEN es[n].weight ELSE 0}

\* There is such a sum, and it is what SumOver takes.
LEMMA SumOverFacts ==
  ASSUME NEW es \in Seq(Kept), NEW ids
  PROVE  \E g \in SumsOf(es, ids) : SumOver(es, ids) = g[Len(es)]
<1> DEFINE w(n) == IF n \in ids THEN es[n].weight ELSE 0
           m == Len(es)
           Upto(n) == {g \in [0..n -> Nat] : g[0] = 0 /\ \A i \in 1..n : g[i] = g[i - 1] + w(i)}
           T == {n \in Nat : n <= m => Upto(n) # {}}
<1>1. m \in Nat /\ \A n \in 1..m : w(n) \in Nat
  <2>1. \A n \in 1..m : es[n] \in Kept
    OBVIOUS
  <2> QED BY <2>1 DEF Kept
<1> HIDE DEF w, m, Upto
<1>2. 0 \in T
  <2>1. [i \in 0..0 |-> 0] \in Upto(0)
    BY DEF Upto
  <2> QED BY <2>1
<1>3. ASSUME NEW n \in Nat, n \in T PROVE n + 1 \in T
  <2> SUFFICES ASSUME n + 1 <= m PROVE Upto(n + 1) # {}
    OBVIOUS
  <2>1. PICK g : g \in Upto(n)
    BY <1>1, <1>3
  <2> DEFINE h == [i \in 0..(n + 1) |-> IF i = n + 1 THEN g[n] + w(n + 1) ELSE g[i]]
  <2>2. g \in [0..n -> Nat] /\ g[0] = 0 /\ \A i \in 1..n : g[i] = g[i - 1] + w(i)
    BY <2>1 DEF Upto
  <2>3. w(n + 1) \in Nat
    BY <1>1
  <2>4. h \in [0..(n + 1) -> Nat] /\ h[0] = 0
    BY <2>2, <2>3
  <2>5. ASSUME NEW i \in 1..(n + 1) PROVE h[i] = h[i - 1] + w(i)
    <3>1. CASE i = n + 1
      BY <3>1
    <3>2. CASE i # n + 1
      BY <2>2, <3>2
    <3> QED BY <3>1, <3>2
  <2>6. h \in Upto(n + 1)
    <3> HIDE DEF h
    <3> QED BY <2>4, <2>5 DEF Upto
  <2> QED BY <2>6
<1> HIDE DEF T
<1>4. Nat \subseteq T
  BY <1>2, <1>3, Induction
<1>5. PICK g : g \in Upto(m)
  <2>1. m \in T /\ m <= m
    BY <1>1, <1>4
  <2>2. Upto(m) # {}
    BY <2>1 DEF T
  <2> QED BY <2>2
<1>6. g = [n \in 0..m |-> IF n = 0 THEN 0 ELSE g[n - 1] + w(n)]
  <2>1. g \in [0..m -> Nat] /\ g[0] = 0 /\ \A i \in 1..m : g[i] = g[i - 1] + w(i)
    BY <1>5 DEF Upto
  <2>2. \A n \in 0..m : g[n] = IF n = 0 THEN 0 ELSE g[n - 1] + w(n)
    BY <1>1, <2>1
  <2> QED BY <2>1, <2>2
<1> DEFINE f == CHOOSE h : h = [n \in 0..m |-> IF n = 0 THEN 0 ELSE h[n - 1] + w(n)]
<1>7. f = [n \in 0..m |-> IF n = 0 THEN 0 ELSE f[n - 1] + w(n)]
  BY <1>6, Zenon
<1>8. SumOver(es, ids) = f[m]
  BY Zenon DEF SumOver, w, m
<1> HIDE DEF f
<1>9. f[0] = 0 /\ \A n \in 1..m : f[n] = f[n - 1] + w(n)
  BY <1>1, <1>7
<1> DEFINE V == {n \in Nat : n <= m => f[n] \in Nat}
<1>10. 0 \in V
  BY <1>9
<1>11. ASSUME NEW n \in Nat, n \in V PROVE n + 1 \in V
  <2>1. CASE n + 1 <= m
    BY <1>1, <1>9, <1>11, <2>1
  <2> QED BY <1>1, <2>1
<1> HIDE DEF V
<1>12. Nat \subseteq V
  BY <1>10, <1>11, Induction
<1>13. \A n \in 0..m : f[n] \in Nat
  BY <1>1, <1>12 DEF V
<1>14. f \in [0..m -> Nat]
  BY <1>7, <1>13
<1>15. f \in SumsOf(es, ids)
  BY <1>9, <1>14 DEF SumsOf, w, m
<1> QED BY <1>8, <1>15 DEF m

\* It is a number.
LEMMA SumOverNat == ASSUME NEW es \in Seq(Kept), NEW ids PROVE SumOver(es, ids) \in Nat
<1>1. PICK g \in SumsOf(es, ids) : SumOver(es, ids) = g[Len(es)]
  BY SumOverFacts
<1>2. Len(es) \in Nat /\ g \in [0..Len(es) -> Nat]
  BY DEF SumsOf
<1> QED BY <1>1, <1>2

\* Nothing weighs nothing.
LEMMA SumOverNone == ASSUME NEW es \in Seq(Kept) PROVE SumOver(es, {}) = 0
<1>1. PICK g \in SumsOf(es, {}) : SumOver(es, {}) = g[Len(es)]
  BY SumOverFacts
<1>2. Len(es) \in Nat /\ g[0] = 0 /\ \A n \in 1..Len(es) : g[n] = g[n - 1] + 0
  BY DEF SumsOf
<1> DEFINE T == {n \in Nat : n <= Len(es) => g[n] = 0}
<1>3. 0 \in T
  BY <1>2
<1>4. ASSUME NEW n \in Nat, n \in T PROVE n + 1 \in T
  BY <1>2, <1>4
<1> HIDE DEF T
<1>5. Nat \subseteq T
  BY <1>3, <1>4, Induction
<1> QED BY <1>1, <1>2, <1>5 DEF T

\* Entries apart weigh what each part weighs.
LEMMA SumOverApart ==
  ASSUME NEW es \in Seq(Kept), NEW A, NEW B, A \intersect B = {}
  PROVE  SumOver(es, A \union B) = SumOver(es, A) + SumOver(es, B)
<1>1. PICK a \in SumsOf(es, A) : SumOver(es, A) = a[Len(es)]
  BY SumOverFacts
<1>2. PICK b \in SumsOf(es, B) : SumOver(es, B) = b[Len(es)]
  BY SumOverFacts
<1>3. PICK c \in SumsOf(es, A \union B) : SumOver(es, A \union B) = c[Len(es)]
  BY SumOverFacts
<1> DEFINE m == Len(es)
           T == {n \in Nat : n <= m => c[n] = a[n] + b[n]}
<1>4. /\ a \in [0..m -> Nat] /\ b \in [0..m -> Nat] /\ c \in [0..m -> Nat] /\ m \in Nat
      /\ a[0] = 0 /\ b[0] = 0 /\ c[0] = 0
      /\ \A n \in 1..m : /\ a[n] = a[n - 1] + IF n \in A THEN es[n].weight ELSE 0
                         /\ b[n] = b[n - 1] + IF n \in B THEN es[n].weight ELSE 0
                         /\ c[n] = c[n - 1] + IF n \in A \union B THEN es[n].weight ELSE 0
                         /\ es[n].weight \in Nat
  <2>1. \A n \in 1..m : es[n] \in Kept
    OBVIOUS
  <2>2. \A n \in 1..m : es[n].weight \in Nat
    BY <2>1 DEF Kept
  <2> QED BY <2>2 DEF SumsOf
<1> HIDE DEF m
<1>5. 0 \in T
  BY <1>4
<1>6. ASSUME NEW n \in Nat, n \in T PROVE n + 1 \in T
  <2> SUFFICES ASSUME n + 1 <= m PROVE c[n + 1] = a[n + 1] + b[n + 1]
    OBVIOUS
  <2>1. c[n] = a[n] + b[n] /\ n \in 0..m /\ n + 1 \in 1..m
    BY <1>4, <1>6
  <2>2. a[n] \in Nat /\ b[n] \in Nat /\ es[n + 1].weight \in Nat
    BY <1>4, <2>1
  <2>3. /\ a[n + 1] = a[n] + IF n + 1 \in A THEN es[n + 1].weight ELSE 0
        /\ b[n + 1] = b[n] + IF n + 1 \in B THEN es[n + 1].weight ELSE 0
        /\ c[n + 1] = c[n] + IF n + 1 \in A \union B THEN es[n + 1].weight ELSE 0
    <3>1. (n + 1) - 1 = n
      OBVIOUS
    <3> QED BY <1>4, <2>1, <3>1
  <2>4. CASE n + 1 \in A
    BY <2>1, <2>2, <2>3, <2>4
  <2>5. CASE n + 1 \in B
    BY <2>1, <2>2, <2>3, <2>5
  <2>6. CASE n + 1 \notin A \union B
    BY <2>1, <2>2, <2>3, <2>6
  <2> QED BY <2>4, <2>5, <2>6
<1> HIDE DEF T
<1>7. Nat \subseteq T
  BY <1>5, <1>6, Induction
<1>8. c[m] = a[m] + b[m]
  BY <1>4, <1>7 DEF T
<1> QED BY <1>1, <1>2, <1>3, <1>8 DEF m

\* What is written behind the entries of a set does not change what they weigh.
LEMMA SumOverLonger ==
  ASSUME NEW es \in Seq(Kept), NEW fs \in Seq(Kept), Len(es) <= Len(fs),
         \A i \in 1..Len(es) : fs[i] = es[i], NEW A \in SUBSET (1..Len(es))
  PROVE  SumOver(fs, A) = SumOver(es, A)
<1>1. PICK a \in SumsOf(es, A) : SumOver(es, A) = a[Len(es)]
  BY SumOverFacts
<1>2. PICK b \in SumsOf(fs, A) : SumOver(fs, A) = b[Len(fs)]
  BY SumOverFacts
<1> DEFINE m == Len(es)
           l == Len(fs)
           T == {n \in Nat : n <= l => b[n] = a[IF n <= m THEN n ELSE m]}
<1>3. /\ a \in [0..m -> Nat] /\ b \in [0..l -> Nat] /\ m \in Nat /\ l \in Nat /\ m <= l
      /\ a[0] = 0 /\ b[0] = 0
      /\ \A n \in 1..m : a[n] = a[n - 1] + IF n \in A THEN es[n].weight ELSE 0
      /\ \A n \in 1..l : b[n] = b[n - 1] + IF n \in A THEN fs[n].weight ELSE 0
      /\ \A n \in 1..m : fs[n] = es[n]
      /\ \A n \in A : n \in 1..m
  BY DEF SumsOf
<1> HIDE DEF m, l
<1>4. 0 \in T
  BY <1>3
<1>5. ASSUME NEW n \in Nat, n \in T PROVE n + 1 \in T
  <2> SUFFICES ASSUME n + 1 <= l PROVE b[n + 1] = a[IF n + 1 <= m THEN n + 1 ELSE m]
    OBVIOUS
  <2>1. /\ b[n] = a[IF n <= m THEN n ELSE m] /\ (n + 1) - 1 = n
        /\ n + 1 \in 1..l /\ n \in 0..l /\ b[n] \in Nat
    BY <1>3, <1>5
  <2>2. b[n + 1] = b[n] + IF n + 1 \in A THEN fs[n + 1].weight ELSE 0
    BY <1>3, <2>1
  <2>3. CASE n + 1 <= m
    <3>1. n + 1 \in 1..m /\ n <= m
      BY <1>3, <2>3
    <3>2. a[n + 1] = a[n] + IF n + 1 \in A THEN es[n + 1].weight ELSE 0
      BY <1>3, <2>1, <3>1
    <3>3. b[n] = a[n] /\ fs[n + 1] = es[n + 1]
      BY <1>3, <2>1, <3>1
    <3> QED BY <2>2, <2>3, <3>2, <3>3
  <2>4. CASE ~(n + 1 <= m)
    <3>1. n + 1 \notin A
      BY <1>3, <2>4
    <3>2. b[n + 1] = b[n]
      BY <2>1, <2>2, <3>1
    <3>3. (IF n <= m THEN n ELSE m) = m
      BY <1>3, <2>4
    <3> QED BY <2>1, <2>4, <3>2, <3>3
  <2> QED BY <2>3, <2>4
<1> HIDE DEF T
<1>6. Nat \subseteq T
  BY <1>4, <1>5, Induction
<1>7. b[l] = a[m]
  <2>1. b[l] = a[IF l <= m THEN l ELSE m]
    BY <1>3, <1>6 DEF T
  <2> QED BY <1>3, <2>1
<1> QED BY <1>1, <1>2, <1>7 DEF m, l

\* Every sum is a number, and the weight of what it counts.
Weighed == acc \in [Owners -> Nat] /\ \A o \in Owners : acc[o] = WeightOf(o, inAcc[o])

\* Unweighed entries are written, and none of them is in the sum.
LEMMA UnweighedFacts ==
  ASSUME MemInv, NEW o \in Owners
  PROVE  /\ Unweighed(o) \subseteq Ids(o) /\ inAcc[o] \subseteq Ids(o)
         /\ inAcc[o] \intersect Unweighed(o) = {}
<1>1. /\ accAt[o] \in Nat /\ accAt[o] <= Len(entries[o]) /\ inAcc[o] \subseteq 1..accAt[o]
      /\ Len(entries[o]) \in Nat
  BY DEF MemInv, MemTypes, Bounded
<1> QED BY <1>1 DEF Unweighed, Ids

\* A step that writes at most and leaves the sum, takes in what is unweighed or resets the
\* sum keeps it right.
LEMMA SummingWeighed ==
  ASSUME MemInv, Weighed, NEW o \in Owners, NEW news \in Seq(Kept), Written(o, news),
         \/ UNCHANGED <<acc, inAcc>>
         \/ TakesIn(o)
         \/ acc' = [acc EXCEPT ![o] = 0] /\ inAcc' = [inAcc EXCEPT ![o] = {}]
  PROVE  Weighed'
<1>1. /\ entries' \in [Owners -> Seq(Kept)]
      /\ \A q \in Owners : Len(entries[q]) \in Nat /\ Len(entries'[q]) \in Nat
                           /\ Len(entries'[q]) >= Len(entries[q])
      /\ \A q \in Owners : \A i \in Ids(q) : entries'[q][i] = entries[q][i]
  BY WrittenKeeps DEF MemInv
<1>2. /\ acc \in [Owners -> Nat] /\ \A q \in Owners : acc[q] = WeightOf(q, inAcc[q])
      /\ inAcc \in [Owners -> SUBSET Nat] /\ entries \in [Owners -> Seq(Kept)]
  BY DEF Weighed, MemInv, MemTypes
<1>3. \A q \in Owners : \A A \in SUBSET Ids(q) :
        SumOver(entries'[q], A) = SumOver(entries[q], A)
  <2> SUFFICES ASSUME NEW q \in Owners, NEW A \in SUBSET Ids(q)
               PROVE  SumOver(entries'[q], A) = SumOver(entries[q], A)
    OBVIOUS
  <2>1. entries'[q] \in Seq(Kept) /\ entries[q] \in Seq(Kept) /\ Len(entries[q]) <= Len(entries'[q])
    BY <1>1, <1>2
  <2>2. \A i \in 1..Len(entries[q]) : entries'[q][i] = entries[q][i]
    BY <1>1 DEF Ids
  <2>3. A \in SUBSET (1..Len(entries[q]))
    BY DEF Ids
  <2> QED BY <2>1, <2>2, <2>3, SumOverLonger
<1>4. \A q \in Owners : /\ Unweighed(q) \subseteq Ids(q) /\ inAcc[q] \subseteq Ids(q)
                        /\ inAcc[q] \intersect Unweighed(q) = {}
  BY UnweighedFacts
<1>5. PICK s \in Nat : s = WeightOf(o, Unweighed(o))
  BY <1>2, SumOverNat DEF WeightOf
<1>6. acc' \in [Owners -> Nat]
  <2>1. TakesIn(o) => acc' = [acc EXCEPT ![o] = acc[o] + s]
    BY <1>5 DEF TakesIn
  <2>2. acc[o] + s \in Nat
    BY <1>2, <1>5
  <2> QED BY <1>2, <2>1, <2>2
<1>7. ASSUME NEW q \in Owners PROVE acc'[q] = SumOver(entries'[q], inAcc'[q])
  <2>1. CASE acc'[q] = acc[q] /\ inAcc'[q] = inAcc[q]
    BY <1>2, <1>3, <1>4, <2>1 DEF WeightOf
  <2>2. CASE q = o /\ TakesIn(o)
    <3>1. acc'[o] = acc[o] + s /\ inAcc'[o] = inAcc[o] \union Unweighed(o)
      BY <1>2, <1>5, <2>2 DEF TakesIn
    <3>2. SumOver(entries[o], inAcc[o] \union Unweighed(o))
            = SumOver(entries[o], inAcc[o]) + SumOver(entries[o], Unweighed(o))
      BY <1>2, <1>4, SumOverApart
    <3>3. inAcc[o] \union Unweighed(o) \in SUBSET Ids(o)
      BY <1>4
    <3> QED BY <1>2, <1>3, <1>5, <2>2, <3>1, <3>2, <3>3 DEF WeightOf
  <2>3. CASE q = o /\ acc' = [acc EXCEPT ![o] = 0] /\ inAcc' = [inAcc EXCEPT ![o] = {}]
    <3>1. acc'[q] = 0 /\ inAcc'[q] = {}
      BY <1>2, <2>3
    <3> QED BY <1>1, <3>1, SumOverNone
  <2>4. q # o => acc'[q] = acc[q] /\ inAcc'[q] = inAcc[q]
    BY <1>2 DEF TakesIn
  <2> QED BY <2>1, <2>2, <2>3, <2>4
<1> QED BY <1>6, <1>7 DEF Weighed, WeightOf

\* Whoever writes nothing writes an empty sequence.
LEMMA WritesNothing ==
  ASSUME MemTypes, NEW o \in Owners, UNCHANGED entries PROVE Written(o, <<>>) /\ <<>> \in Seq(Kept)
<1>1. entries[o] \o <<>> = entries[o] /\ entries[o] \in Seq(Kept) /\ <<>> \in Seq(Kept)
  BY ConcatEmptySeq DEF MemTypes
<1> QED BY <1>1 DEF Written, MemTypes

\* Every step keeps the sums.
LEMMA WeighedStep == MemInv /\ Weighed /\ [MemNext]_memVars => Weighed'
<1> SUFFICES ASSUME MemInv, Weighed, [MemNext]_memVars PROVE Weighed'
  OBVIOUS
<1>1. ASSUME NEW o \in Owners, Lives(o) PROVE Weighed'
  <2>1. PICK k \in {"event", "projection", "reflection"}, w \in Weights :
          Written(o, <<Entry(k, w)>>)
    BY <1>1 DEF Lives
  <2>2. <<Entry(k, w)>> \in Seq(Kept)
    BY EntryIsKept, MemoryAssumption DEF MemInv, KindsKept
  <2>3. UNCHANGED <<acc, inAcc>>
    BY <1>1 DEF Lives, mood
  <2> QED BY <2>1, <2>2, <2>3, SummingWeighed
<1>2. ASSUME NEW o \in Owners, WeighIn(o) PROVE Weighed'
  <2>1. Written(o, <<>>) /\ <<>> \in Seq(Kept)
    BY <1>2, WritesNothing DEF WeighIn, MemInv
  <2>2. TakesIn(o)
    BY <1>2 DEF WeighIn
  <2> QED BY <2>1, <2>2, SummingWeighed
<1>3. ASSUME NEW o \in Owners, Reflect(o) PROVE Weighed'
  <2>1. PICK n \in Insights :
          /\ Written(o, [i \in 1..n |-> Entry("reflection", 7)])
          /\ \/ UNCHANGED mood
             \/ TakesIn(o)
             \/ acc' = [acc EXCEPT ![o] = 0] /\ inAcc' = [inAcc EXCEPT ![o] = {}]
    BY <1>3 DEF Reflect
  <2> DEFINE news == [i \in 1..n |-> Entry("reflection", 7)]
  <2>2. Entry("reflection", 7) \in Kept
    BY EntryIsKept DEF MemInv, KindsKept
  <2>3. news \in Seq(Kept)
    BY <2>2 DEF Insights
  <2> HIDE DEF news
  <2>4. Written(o, news)
    BY <2>1 DEF news
  <2> QED BY <2>1, <2>3, <2>4, SummingWeighed DEF mood
<1>4. ASSUME NEW o \in Owners, FallBack(o) \/ Generated(o) PROVE Weighed'
  <2>1. PICK w \in {4, 8} : Written(o, <<Entry("reflection", w)>>)
    BY <1>4 DEF FallBack, Generated
  <2>2. UNCHANGED <<acc, inAcc>>
    BY <1>4 DEF FallBack, Generated, PassCursors, mood
  <2>3. <<Entry("reflection", w)>> \in Seq(Kept)
    BY EntryIsKept DEF MemInv, KindsKept
  <2> QED BY <2>1, <2>2, <2>3, SummingWeighed
<1>5. ASSUME NEW o \in Owners, Merge(o) PROVE Weighed'
  <2>1. Written(o, <<Entry("summary", 4)>>) /\ UNCHANGED <<acc, inAcc>>
    BY <1>5 DEF Merge, mood
  <2>2. <<Entry("summary", 4)>> \in Seq(Kept)
    BY EntryIsKept DEF MemInv, KindsKept
  <2> QED BY <2>1, <2>2, SummingWeighed
<1>6. CASE UNCHANGED <<entries, mood>>
  BY <1>6 DEF mood, Weighed, WeightOf
<1>7. ArchiveOld \/ Evening \/ Midnight \/ UNCHANGED memVars => UNCHANGED <<entries, mood>>
  BY DEF ArchiveOld, Evening, Midnight, memVars, mood
<1> QED BY <1>1, <1>2, <1>3, <1>4, <1>5, <1>6, <1>7 DEF MemNext

\* The sum that decides when a person reflects is the weight of what happened since the last
\* reflection, each entry once, wherever an operation was cut short (reflect.py:98-146).
THEOREM SumIsRight == MemSpec => []WeighedOnce
<1>1. MemInit => Weighed
  <2> SUFFICES ASSUME MemInit PROVE Weighed
    OBVIOUS
  <2>1. /\ acc = [o \in Owners |-> 0] /\ inAcc = [o \in Owners |-> {}]
        /\ entries = [o \in Owners |-> <<>>]
    BY DEF MemInit
  <2>2. <<>> \in Seq(Kept)
    OBVIOUS
  <2>3. SumOver(<<>>, {}) = 0
    BY <2>2, SumOverNone
  <2> QED BY <2>1, <2>3 DEF Weighed, WeightOf
<1>2. MemInv /\ Weighed => WeighedOnce
  BY DEF MemInv, Weighed, NoneWeighsTwice, WeighedOnce
<1> QED BY <1>1, <1>2, MemInitInv, MemStepInv, WeighedStep, PTL DEF MemSpec

\* Both cursors and both marks stay among the entries, and no fallback is of a day to come.
MemSized ==
  /\ covered \in [Owners -> SUBSET Nat] /\ reflAt \in [Owners -> Nat]
  /\ fellBack \in [Owners -> Int]
  /\ \A o \in Owners :
       /\ covered[o] \subseteq Ids(o) /\ reflAt[o] <= Len(entries[o])
       /\ fellBack[o] \in -1..date

\* Nothing is merged and nobody has fallen back at the beginning.
LEMMA MemSizedInit == MemInit => MemSized
BY DEF MemInit, MemSized

\* An operation that writes entries, with whatever it does to the second cursor, to the
\* summaries and to the day of the last fallback.
LEMMA WritingSized ==
  ASSUME MemInv, MemSized, NEW o \in Owners, NEW news \in Seq(Kept), Written(o, news), date' = date,
         \/ covered' = covered
         \/ covered' = [covered EXCEPT ![o] = covered[o] \union Mergeable(o)],
         reflAt' = reflAt \/ reflAt' = [reflAt EXCEPT ![o] = Len(entries'[o])],
         fellBack' = fellBack \/ fellBack' = [fellBack EXCEPT ![o] = date]
  PROVE  MemSized'
<1>1. \A q \in Owners : Len(entries[q]) \in Nat /\ Len(entries'[q]) \in Nat
                        /\ Len(entries'[q]) >= Len(entries[q])
  BY WrittenKeeps DEF MemInv
<1>2. date \in Nat /\ Mergeable(o) \subseteq Ids(o) /\ Ids(o) \subseteq Nat
  BY DEF MemInv, MemTypes, Mergeable, Ids
<1>3. \A q \in Owners : Ids(q) \subseteq Ids(q)'
  BY <1>1 DEF Ids
<1>4. covered' \in [Owners -> SUBSET Nat] /\ \A q \in Owners : covered'[q] \subseteq Ids(q)'
  BY <1>2, <1>3 DEF MemSized
<1>5. reflAt' \in [Owners -> Nat] /\ \A q \in Owners : reflAt'[q] <= Len(entries'[q])
  <2>1. CASE reflAt' = reflAt
    <3>1. \A q \in Owners : reflAt[q] \in Nat /\ reflAt[q] <= Len(entries[q])
      BY DEF MemSized
    <3>2. \A q \in Owners : reflAt'[q] <= Len(entries'[q])
      BY <1>1, <2>1, <3>1
    <3> QED BY <2>1, <3>2 DEF MemSized
  <2>2. CASE reflAt' = [reflAt EXCEPT ![o] = Len(entries'[o])]
    <3>1. \A q \in Owners : reflAt'[q] = IF q = o THEN Len(entries'[q]) ELSE reflAt[q]
      BY <2>2 DEF MemSized
    <3>2. reflAt' \in [Owners -> Nat]
      BY <1>1, <2>2 DEF MemSized
    <3>3. \A q \in Owners : reflAt[q] \in Nat /\ reflAt[q] <= Len(entries[q])
      BY DEF MemSized
    <3> QED BY <1>1, <3>1, <3>2, <3>3
  <2> QED BY <2>1, <2>2
<1>6. fellBack' \in [Owners -> Int] /\ \A q \in Owners : fellBack'[q] \in -1..date'
  <2>1. CASE fellBack' = fellBack
    BY <2>1 DEF MemSized
  <2>2. CASE fellBack' = [fellBack EXCEPT ![o] = date]
    BY <1>2, <2>2 DEF MemSized
  <2> QED BY <2>1, <2>2
<1> QED BY <1>4, <1>5, <1>6 DEF MemSized

\* So does every step: those of one owner write, those of the calendar do not.
LEMMA MemSizedStep == MemInv /\ MemSized /\ [MemNext]_memVars => MemSized'
<1> SUFFICES ASSUME MemInv, MemSized, [MemNext]_memVars PROVE MemSized'
  OBVIOUS
<1>1. ASSUME NEW o \in Owners, Lives(o) PROVE MemSized'
  <2>1. PICK k \in {"event", "projection", "reflection"}, w \in Weights :
          Written(o, <<Entry(k, w)>>)
    BY <1>1 DEF Lives
  <2>2. <<Entry(k, w)>> \in Seq(Kept)
    BY EntryIsKept, MemoryAssumption DEF MemInv, KindsKept
  <2>3. UNCHANGED <<date, covered, reflAt, fellBack>>
    BY <1>1 DEF Lives, mood, tidying
  <2> QED BY <2>1, <2>2, <2>3, WritingSized
<1>2. ASSUME NEW o \in Owners, Reflect(o) PROVE MemSized'
  <2>1. PICK n \in Insights : Written(o, [i \in 1..n |-> Entry("reflection", 7)])
    BY <1>2 DEF Reflect
  <2> DEFINE news == [i \in 1..n |-> Entry("reflection", 7)]
  <2>2. Entry("reflection", 7) \in Kept
    BY EntryIsKept DEF MemInv, KindsKept
  <2>3. news \in Seq(Kept)
    BY <2>2 DEF Insights
  <2> HIDE DEF news
  <2>4. Written(o, news)
    BY <2>1 DEF news
  <2>5. /\ UNCHANGED <<date, covered, fellBack>>
        /\ reflAt' = reflAt \/ reflAt' = [reflAt EXCEPT ![o] = Len(entries'[o])]
    BY <1>2 DEF Reflect, mood, tidying
  <2> QED BY <2>3, <2>4, <2>5, WritingSized
<1>3. ASSUME NEW o \in Owners, FallBack(o) \/ Generated(o) PROVE MemSized'
  <2>1. PICK w \in {4, 8} : Written(o, <<Entry("reflection", w)>>)
    BY <1>3 DEF FallBack, Generated
  <2>2. <<Entry("reflection", w)>> \in Seq(Kept)
    BY EntryIsKept DEF MemInv, KindsKept
  <2>3. /\ UNCHANGED <<date, covered>>
        /\ reflAt' = reflAt \/ reflAt' = [reflAt EXCEPT ![o] = Len(entries'[o])]
        /\ fellBack' = fellBack \/ fellBack' = [fellBack EXCEPT ![o] = date]
    BY <1>3 DEF FallBack, Generated, PassCursors, mood, tidying
  <2> QED BY <2>1, <2>2, <2>3, WritingSized
<1>4. ASSUME NEW o \in Owners, Merge(o) PROVE MemSized'
  <2>1. /\ Written(o, <<Entry("summary", 4)>>) /\ UNCHANGED <<date, reflAt, fellBack>>
        /\ covered' = [covered EXCEPT ![o] = covered[o] \union Mergeable(o)]
    BY <1>4 DEF Merge, mood
  <2>2. <<Entry("summary", 4)>> \in Seq(Kept)
    BY EntryIsKept DEF MemInv, KindsKept
  <2> QED BY <2>1, <2>2, WritingSized
<1>5. CASE UNCHANGED <<entries, covered, reflAt, fellBack>> /\ (date' = date \/ date' = date + 1)
  <2>1. date \in Nat /\ \A o \in Owners : fellBack[o] \in -1..date
    BY DEF MemInv, MemTypes, MemSized
  <2>2. \A o \in Owners : fellBack'[o] \in -1..date'
    BY <1>5, <2>1
  <2> QED BY <1>5, <2>2 DEF MemSized, Ids
<1>6. \/ \E o \in Owners : WeighIn(o)
      \/ ArchiveOld \/ Evening \/ Midnight \/ UNCHANGED memVars
      => UNCHANGED <<entries, covered, reflAt, fellBack>> /\ (date' = date \/ date' = date + 1)
  BY DEF WeighIn, ArchiveOld, Evening, Midnight, memVars, mood, tidying
<1> QED BY <1>1, <1>2, <1>3, <1>4, <1>5, <1>6 DEF MemNext

\* The types of Memory.
LEMMA MemSizes == MemInv /\ MemSized => MemTypeOK
<1> SUFFICES ASSUME MemInv, MemSized, NEW o \in Owners
             PROVE  /\ accAt[o] \in 0..Len(entries[o]) /\ reflAt[o] \in 0..Len(entries[o])
                    /\ archived[o] \subseteq Ids(o) /\ covered[o] \subseteq Ids(o)
                    /\ fellBack[o] \in -1..date
  BY DEF MemTypeOK
<1>1. Len(entries[o]) \in Nat /\ accAt[o] \in Nat /\ reflAt[o] \in Nat
  BY DEF MemInv, MemTypes, MemSized
<1> QED BY <1>1 DEF MemInv, Bounded, MemSized

\* Whatever a person writes, merges, archives or leaves half done, the cursors and the marks
\* speak of entries there are.
THEOREM MemoryTypeCorrect == MemSpec => []MemTypeOK
BY MemInitInv, MemStepInv, MemSizedInit, MemSizedStep, MemSizes, PTL DEF MemSpec

-----------------------------------------------------------------------------
(*****************************************************************************)
(* Director: an arc rests before it is played again.                         *)
(*****************************************************************************)
\* An arc's state and story.
ArcStates == [stage : 0..Stages, since : Nat, progress : Nat,
              status : {"none", "active", "done"}]

\* The types; an arc is listed once, and no more than there are slots.
DirTypes ==
  /\ day \in Nat /\ settledDay \in 0..day
  /\ arc \in [Arcs -> ArcStates] /\ round \in Seq(Arcs)
  /\ active \in Seq(Arcs) /\ Len(active) <= Slots /\ IsInjective(active)
  /\ coolUntil \in [Arcs -> Nat] /\ used \in [Arcs -> 0..Quota]
  /\ ended \in [Arcs -> Nat \union {Never}] /\ torn \subseteq Arcs

\* An arc that runs is in one of its stages.
RunningIsStaged == \A a \in Arcs : arc[a].status = "active" => arc[a].stage # 0

\* The cooldown is written for the day an arc ended on.
CooldownIsWritten ==
  \A a \in Arcs \ torn : ended[a] # Never => coolUntil[a] = ended[a] + CoolDays

\* The inductive invariant of the director.
DirInv == DirTypes /\ RunningIsStaged /\ CooldownIsWritten

\* What the constants are.
LEMMA DirConstants ==
  /\ Arcs \subseteq Nat /\ Stages \in Nat /\ Stages > 1 /\ Degrade \in [1..Stages -> Never..Stages]
  /\ Quota \in Nat /\ CoolDays \in Nat /\ Slots \in Nat /\ Slots > 0
BY SMTT(30), DirectorAssumption

\* Taking an arc off the list.
LEMMA RemovedFacts ==
  ASSUME NEW T, NEW s \in Seq(T), IsInjective(s), NEW a, NEW r, r = RemoveFirst(s, a)
  PROVE  r \in Seq(T) /\ Len(r) <= Len(s) /\ IsInjective(r) /\ ToSet(r) = ToSet(s) \ {a}
<1>1. Len(s) \in Nat /\ DOMAIN s = 1..Len(s)
  OBVIOUS
<1>2. CASE ~ \E i \in 1..Len(s) : s[i] = a
  <2>1. r = s
    BY <1>2 DEF RemoveFirst
  <2>2. a \notin ToSet(s)
    BY <1>1, <1>2 DEF ToSet
  <2> QED BY <1>1, <2>1, <2>2
<1>3. CASE \E i \in 1..Len(s) : s[i] = a
  <2>1. PICK I \in SUBSET (1..Len(s)) : I = {i \in 1..Len(s) : s[i] = a} /\ I # {}
    BY <1>3
  <2>2. PICK i \in 1..Len(s) : i = Min(I)
    BY <1>1, <2>1, MinIsLeast
  <2>3. r = RemoveAt(s, i)
    BY <1>3, <2>1, <2>2 DEF RemoveFirst, SelectInSeq
  <2>4. PICK u, v : u = SubSeq(s, 1, i - 1) /\ v = SubSeq(s, i + 1, Len(s)) /\ r = u \o v
    BY <2>3 DEF RemoveAt
  <2>5. /\ u \in Seq(T) /\ Len(u) = i - 1 /\ \A j \in 1..(i - 1) : u[j] = s[j]
    BY SMTT(30), <1>1, <2>4
  <2>6. /\ v \in Seq(T) /\ Len(v) = Len(s) - i /\ \A j \in 1..(Len(s) - i) : v[j] = s[j + i]
    <3>0. i + 1 \in Int /\ Len(s) \in Int
      BY <1>1
    <3>1. PICK m \in Int, n \in Int : m = i + 1 /\ n = Len(s)
      BY <3>0, Zenon
    <3>2. \A j \in m..n : s[j] \in T
      BY <1>1, <3>1
    <3>3. /\ SubSeq(s, m, n) \in Seq(T)
          /\ Len(SubSeq(s, m, n)) = IF m <= n THEN n - m + 1 ELSE 0
          /\ \A j \in 1..(n - m + 1) : SubSeq(s, m, n)[j] = s[m + j - 1]
      BY <3>2, SubSeqProperties
    <3>4. v = SubSeq(s, m, n)
      BY <2>4, <3>1
    <3>5. Len(v) = Len(s) - i
      <4>1. Len(v) = IF m <= n THEN n - m + 1 ELSE 0
        BY <3>3, <3>4
      <4>2. PICK l \in Nat : l = Len(s)
        BY <1>1
      <4> QED BY <3>1, <4>1, <4>2
    <3>6. ASSUME NEW j \in 1..(Len(s) - i) PROVE v[j] = s[j + i]
      <4>1. v[j] = s[m + j - 1] /\ m + j - 1 = j + i
        BY <1>1, <3>1, <3>3, <3>4
      <4> QED BY <4>1
    <3> QED BY <3>3, <3>4, <3>5, <3>6
  <2>c. /\ r \in Seq(T) /\ Len(r) = Len(u) + Len(v)
        /\ \A j \in 1..(Len(u) + Len(v)) : r[j] = IF j <= Len(u) THEN u[j] ELSE v[j - Len(u)]
    <3>1. /\ u \o v \in Seq(T) /\ Len(u \o v) = Len(u) + Len(v)
          /\ \A j \in 1..(Len(u) + Len(v)) : (u \o v)[j] = IF j <= Len(u) THEN u[j] ELSE v[j - Len(u)]
      BY <2>5, <2>6, ConcatProperties
    <3> QED BY <2>4, <3>1
  <2>7. r \in Seq(T) /\ Len(r) = Len(s) - 1
    BY <1>1, <2>5, <2>6, <2>c
  <2>8. \A j \in 1..Len(r) : r[j] = IF j < i THEN s[j] ELSE s[j + 1]
    <3> SUFFICES ASSUME NEW j \in 1..Len(r) PROVE r[j] = IF j < i THEN s[j] ELSE s[j + 1]
      OBVIOUS
    <3>1. CASE j < i
      <4>1. j <= Len(u) /\ j \in 1..(Len(u) + Len(v))
        BY <1>1, <2>5, <2>6, <2>7, <3>1
      <4> QED BY <2>5, <2>c, <3>1, <4>1
    <3>2. CASE ~ (j < i)
      <4>1. r[j] = v[j - Len(u)]
        <5>1. j \in 1..(Len(u) + Len(v)) /\ ~ (j <= Len(u))
          BY <1>1, <2>5, <2>6, <2>7, <3>2
        <5> QED BY <2>c, <5>1
      <4>2. v[j - Len(u)] = s[j - Len(u) + i]
        BY <1>1, <2>5, <2>6, <2>7, <3>2
      <4> QED BY <1>1, <2>5, <3>2, <4>1, <4>2
    <3> QED BY <3>1, <3>2
  <2>9. DOMAIN r = 1..Len(r)
    BY <2>7
  <2>10. \A j \in 1..Len(r) : \E n \in 1..Len(s) : r[j] = s[n] /\ n = IF j < i THEN j ELSE j + 1
    <3>1. PICK l \in Nat : l = Len(s) /\ Len(r) = l - 1
      BY <1>1, <2>7
    <3>2. ASSUME NEW j \in 1..Len(r), j < i
          PROVE  \E n \in 1..Len(s) : r[j] = s[n] /\ n = IF j < i THEN j ELSE j + 1
      <4>1. j \in 1..Len(s) /\ r[j] = s[j]
        BY <2>8, <3>1, <3>2
      <4> QED BY <3>2, <4>1
    <3>3. ASSUME NEW j \in 1..Len(r), ~ (j < i)
          PROVE  \E n \in 1..Len(s) : r[j] = s[n] /\ n = IF j < i THEN j ELSE j + 1
      <4>1. j + 1 \in 1..Len(s) /\ r[j] = s[j + 1]
        BY <2>8, <3>1, <3>3
      <4> QED BY <3>3, <4>1
    <3> QED BY SMTT(30), <3>2, <3>3
  <2>d. s[i] = a
    BY <2>1, <2>2, MinIsLeast, <1>1
  <2>11. ToSet(r) = ToSet(s) \ {a}
    <3>1. ASSUME NEW x \in ToSet(r) PROVE x \in ToSet(s) \ {a}
      <4>1. PICK j \in 1..Len(r) : x = r[j]
        BY <2>9, <3>1 DEF ToSet
      <4>2. PICK n \in 1..Len(s) : x = s[n] /\ n = IF j < i THEN j ELSE j + 1
        BY <2>10, <4>1
      <4>3. DOMAIN s = 1..Len(s) /\ n # i
        BY <1>1, <2>7, <4>1, <4>2
      <4>4. x # a
        BY <2>d, <4>2, <4>3 DEF IsInjective
      <4> QED BY <4>2, <4>3, <4>4 DEF ToSet
    <3>2. ASSUME NEW x \in ToSet(s), x # a PROVE x \in ToSet(r)
      <4>1. PICK n \in 1..Len(s) : x = s[n] /\ n # i
        BY <1>1, <2>d, <3>2 DEF ToSet
      <4>2. CASE n < i
        <5>1. n \in 1..Len(r) /\ r[n] = x
          BY <1>1, <2>7, <2>8, <4>1, <4>2
        <5> QED BY <2>9, <5>1 DEF ToSet
      <4>3. CASE n > i
        <5>1. n - 1 \in 1..Len(r) /\ ~(n - 1 < i) /\ (n - 1) + 1 = n
          BY <1>1, <2>7, <4>1, <4>3
        <5>2. r[n - 1] = s[(n - 1) + 1]
          BY <2>8, <5>1
        <5>3. r[n - 1] = x
          BY <4>1, <5>1, <5>2
        <5> QED BY <2>9, <5>1, <5>3 DEF ToSet
      <4> QED BY <1>1, <4>1, <4>2, <4>3
    <3> QED BY <3>1, <3>2
  <2>12. IsInjective(r)
    <3> SUFFICES ASSUME NEW x \in 1..Len(r), NEW y \in 1..Len(r), r[x] = r[y] PROVE x = y
      BY <2>9 DEF IsInjective
    <3>1. PICK n \in 1..Len(s) : r[x] = s[n] /\ n = IF x < i THEN x ELSE x + 1
      BY <2>10
    <3>2. PICK m \in 1..Len(s) : r[y] = s[m] /\ m = IF y < i THEN y ELSE y + 1
      BY <2>10
    <3>3. n = m
      BY <1>1, <3>1, <3>2 DEF IsInjective
    <3> QED BY <1>1, <2>7, <3>1, <3>2, <3>3
  <2> QED BY <1>1, <2>7, <2>11, <2>12
<1> QED BY <1>2, <1>3

\* Putting an arc on the list.
LEMMA AppendedFacts ==
  ASSUME NEW T, NEW s \in Seq(T), IsInjective(s), NEW a \in T, a \notin ToSet(s)
  PROVE  /\ Append(s, a) \in Seq(T) /\ Len(Append(s, a)) = Len(s) + 1
         /\ IsInjective(Append(s, a)) /\ ToSet(Append(s, a)) = ToSet(s) \union {a}
<1>1. PICK r : r = Append(s, a)
  OBVIOUS
<1>2. /\ r \in Seq(T) /\ Len(r) = Len(s) + 1 /\ DOMAIN r = 1..(Len(s) + 1) /\ DOMAIN s = 1..Len(s)
      /\ Len(s) \in Nat /\ r[Len(s) + 1] = a /\ \A j \in 1..Len(s) : r[j] = s[j]
  BY <1>1
<1>3. \A j \in 1..Len(s) : s[j] # a
  BY <1>2 DEF ToSet
<1>4. IsInjective(r)
  BY <1>2, <1>3 DEF IsInjective
<1>5. ToSet(r) = ToSet(s) \union {a}
  BY <1>2 DEF ToSet
<1> QED BY <1>1, <1>2, <1>4, <1>5

\* A hook leaves the budgets within their bounds.
LEMMA HookBudget ==
  ASSUME used \in [Arcs -> 0..Quota], NEW a \in Arcs, NEW stage, NEW budget \in 0..Quota,
         NEW raised \in BOOLEAN, HookOf(a, stage, budget, raised)
  PROVE  used' \in [Arcs -> 0..Quota]
<1>1. PICK b \in 0..Quota : used' = [used EXCEPT ![a] = b]
  BY DirConstants DEF HookOf
<1> QED BY <1>1

\* No arc runs at the beginning.
LEMMA DirInitHolds == DirInit => DirInv
<1> SUFFICES ASSUME DirInit PROVE DirInv
  OBVIOUS
<1>1. NoArc \in ArcStates
  BY DirConstants DEF NoArc, ArcStates
<1>2. DirTypes
  BY <1>1, DirConstants DEF DirInit, DirTypes, IsInjective, Never
<1> QED BY <1>2 DEF DirInit, DirInv, RunningIsStaged, CooldownIsWritten, NoArc, Never

\* Steps that leave the arcs, their list and their cooldowns alone.
LEMMA StoryStays ==
  ASSUME DirInv, UNCHANGED <<arc, active, coolUntil, used, ended, torn>>,
         day' \in Nat, settledDay' \in 0..day', round' \in Seq(Arcs)
  PROVE  DirInv'
BY DEF DirInv, DirTypes, RunningIsStaged, CooldownIsWritten

\* An arc that moves to a stage, its cooldown and its end untouched.
LEMMA ArcMoves ==
  ASSUME DirInv, UNCHANGED <<coolUntil, ended, torn, day>>, NEW a \in Arcs, NEW entry \in ArcStates,
         arc' = [arc EXCEPT ![a] = entry], entry.stage # 0,
         used' \in [Arcs -> 0..Quota], settledDay' \in 0..day, round' \in Seq(Arcs),
         active' \in Seq(Arcs), Len(active') <= Slots, IsInjective(active')
  PROVE  DirInv'
<1>1. DirTypes'
  BY DEF DirInv, DirTypes
<1>2. RunningIsStaged' /\ CooldownIsWritten'
  BY DEF DirInv, DirTypes, RunningIsStaged, CooldownIsWritten
<1> QED BY <1>1, <1>2 DEF DirInv

\* The arc whose turn it is.
LEMMA CurrentFacts ==
  ASSUME DirInv, NEW a, Current(a)
  PROVE  a \in Arcs /\ Tail(round) \in Seq(Arcs) /\ <<>> \in Seq(Arcs) /\ arc[a] \in ArcStates
<1>1. round \in Seq(Arcs) /\ round # <<>> /\ a = Head(round)
  BY DEF DirInv, DirTypes, Current
<1>2. a \in Arcs /\ Tail(round) \in Seq(Arcs)
  BY <1>1, HeadTailProperties
<1> QED BY <1>2 DEF DirInv, DirTypes

\* However an arc comes to its end, its cooldown is written or its end was cut short.
LEMMA CompletedStep ==
  ASSUME DirInv, NEW a \in Arcs, Current(a), NEW stage \in 0..Stages, NEW progress \in Nat,
         Completed(a, stage, progress), used' \in [Arcs -> 0..Quota]
  PROVE  DirInv'
<1>0. /\ day \in Nat /\ settledDay \in 0..day /\ arc[a] \in ArcStates /\ CoolDays \in Nat
      /\ Tail(round) \in Seq(Arcs) /\ <<>> \in Seq(Arcs)
  BY CurrentFacts, DirConstants DEF DirInv, DirTypes
<1>1. PICK entry \in ArcStates : entry = [arc[a] EXCEPT !.stage = stage, !.progress = progress, !.status = "done"]
  BY <1>0 DEF ArcStates
<1>2. arc' = [arc EXCEPT ![a] = entry] /\ ended' = [ended EXCEPT ![a] = day] /\ entry.status = "done"
  BY <1>0, <1>1 DEF Completed, ArcStates
<1>3. arc' \in [Arcs -> ArcStates] /\ ended' \in [Arcs -> Nat \union {Never}]
  BY <1>0, <1>2 DEF DirInv, DirTypes
<1>4. active' \in Seq(Arcs) /\ Len(active') <= Slots /\ IsInjective(active')
  <2>1. PICK r : r = RemoveFirst(active, a)
    OBVIOUS
  <2>2. active \in Seq(Arcs) /\ IsInjective(active) /\ Len(active) <= Slots /\ Slots \in Nat
    BY DirConstants DEF DirInv, DirTypes
  <2>3. r \in Seq(Arcs) /\ Len(r) <= Len(active) /\ IsInjective(r)
    BY <2>1, <2>2, RemovedFacts
  <2>4. active' = r \/ active' = active
    BY <2>1 DEF Completed
  <2>5. Len(r) \in Nat /\ Len(active) \in Nat
    BY <2>2, <2>3
  <2> QED BY <2>2, <2>3, <2>4, <2>5
<1>5. day' = day /\ settledDay' \in 0..day /\ round' \in Seq(Arcs)
  BY <1>0 DEF Completed, Passes, Raises, EndTick
<1>6. RunningIsStaged'
  BY <1>2 DEF RunningIsStaged, DirInv, DirTypes
<1>7. coolUntil' \in [Arcs -> Nat] /\ torn' \subseteq Arcs
  <2>1. coolUntil \in [Arcs -> Nat] /\ torn \subseteq Arcs
    BY DEF DirInv, DirTypes
  <2>2. day + CoolDays \in Nat
    BY <1>0
  <2>3. CASE coolUntil' = [coolUntil EXCEPT ![a] = day + CoolDays] /\ torn' = torn
    BY <2>1, <2>2, <2>3
  <2>4. CASE coolUntil' = coolUntil /\ torn' = torn \union {a}
    BY <2>1, <2>4
  <2> QED BY <2>3, <2>4 DEF Completed
<1>8. CooldownIsWritten'
  <2>1. CASE coolUntil' = [coolUntil EXCEPT ![a] = day + CoolDays] /\ torn' = torn
    BY <1>0, <1>2, <2>1 DEF CooldownIsWritten, DirInv, DirTypes
  <2>2. CASE coolUntil' = coolUntil /\ torn' = torn \union {a}
    BY <1>0, <1>2, <2>2 DEF CooldownIsWritten, DirInv, DirTypes
  <2> QED BY <2>1, <2>2 DEF Completed
<1> QED BY <1>3, <1>4, <1>5, <1>6, <1>7, <1>8 DEF DirInv, DirTypes

\* What a jump does to the arc.
LEMMA JumpedEntry ==
  ASSUME DirInv, NEW a \in Arcs, Current(a), NEW stage \in 1..Stages, Jumps(a, stage)
  PROVE  \E entry \in ArcStates :
           /\ arc' = [arc EXCEPT ![a] = entry] /\ entry.stage = stage
           /\ entry.since = arc[a].since /\ entry.status = arc[a].status
<1>0. /\ day \in Nat /\ settledDay \in 0..day /\ arc[a] \in ArcStates
      /\ Tail(round) \in Seq(Arcs) /\ <<>> \in Seq(Arcs) /\ Stages \in Nat
  BY CurrentFacts, DirConstants DEF DirInv, DirTypes
<1>1. PICK entry \in ArcStates : entry = [arc[a] EXCEPT !.stage = stage, !.progress = day]
  <2>1. stage \in 0..Stages
    BY <1>0
  <2> QED BY <1>0, <2>1 DEF ArcStates
<1>2. arc' = [arc EXCEPT ![a] = entry] /\ entry.stage = stage
  <2>1. arc \in [Arcs -> ArcStates]
    BY DEF DirInv, DirTypes
  <2>2. PICK f : f = [arc EXCEPT ![a].stage = stage]
    OBVIOUS
  <2>3. f = [arc EXCEPT ![a] = [arc[a] EXCEPT !.stage = stage]]
    BY <2>1, <2>2
  <2>4. arc' = [f EXCEPT ![a].progress = day]
    BY <2>2 DEF Jumps
  <2>5. f \in [Arcs -> [stage : 0..Stages, since : Nat, progress : Nat, status : {"none", "active", "done"}]]
    <3>1. stage \in 0..Stages
      BY <1>0
    <3>2. [arc[a] EXCEPT !.stage = stage] \in ArcStates
      BY <1>0, <3>1 DEF ArcStates
    <3> QED BY <2>1, <2>3, <3>2 DEF ArcStates
  <2>6. arc' = [f EXCEPT ![a] = [f[a] EXCEPT !.progress = day]]
    BY <2>4, <2>5
  <2>7. f[a] = [arc[a] EXCEPT !.stage = stage]
    BY <2>1, <2>3
  <2>8. [f[a] EXCEPT !.progress = day] = entry
    BY <1>1, <2>7
  <2>9. arc' = [arc EXCEPT ![a] = entry]
    BY <2>1, <2>3, <2>6, <2>8
  <2>10. entry.stage = stage
    BY <1>0, <1>1 DEF ArcStates
  <2> QED BY <2>9, <2>10
<1>3. entry.since = arc[a].since /\ entry.status = arc[a].status
  BY <1>0, <1>1 DEF ArcStates
<1> QED BY <1>2, <1>3

\* An arc goes to another stage.
LEMMA JumpsStep ==
  ASSUME DirInv, NEW a \in Arcs, Current(a), NEW stage \in 1..Stages, Jumps(a, stage)
  PROVE  DirInv'
<1>0. day \in Nat /\ settledDay \in 0..day /\ Tail(round) \in Seq(Arcs) /\ <<>> \in Seq(Arcs)
  BY CurrentFacts DEF DirInv, DirTypes
<1>2. PICK entry \in ArcStates : arc' = [arc EXCEPT ![a] = entry] /\ entry.stage # 0
  <2>1. PICK entry \in ArcStates : arc' = [arc EXCEPT ![a] = entry] /\ entry.stage = stage
    BY JumpedEntry
  <2>2. entry.stage # 0
    BY <2>1, DirConstants
  <2> QED BY <2>1, <2>2
<1>3. used' \in [Arcs -> 0..Quota]
  <2>1. used[a] \in 0..Quota /\ used \in [Arcs -> 0..Quota]
    BY DEF DirInv, DirTypes
  <2>2. PICK raised \in BOOLEAN : HookOf(a, stage, used[a], raised)
    BY DEF Jumps
  <2> QED BY <2>1, <2>2, HookBudget
<1>4. /\ UNCHANGED <<day, active, coolUntil, ended, torn>> /\ settledDay' \in 0..day /\ round' \in Seq(Arcs)
  BY <1>0 DEF Jumps, Passes, Raises, EndTick
<1>5. active' \in Seq(Arcs) /\ Len(active') <= Slots /\ IsInjective(active')
  BY <1>4 DEF DirInv, DirTypes
<1> QED BY <1>2, <1>3, <1>4, <1>5, ArcMoves

\* An arc is begun.
LEMMA StartArcStep == ASSUME DirInv, NEW a \in Arcs, StartArc(a) PROVE DirInv'
<1>0. /\ day \in Nat /\ settledDay \in 0..day /\ active \in Seq(Arcs) /\ IsInjective(active)
      /\ <<>> \in Seq(Arcs) /\ Stages \in Nat /\ Stages > 1 /\ Slots \in Nat /\ Quota \in Nat
  BY DirConstants DEF DirInv, DirTypes
<1>1. PICK entry \in ArcStates :
        entry = [stage |-> 1, since |-> day, progress |-> day, status |-> "active"]
  <2>1. 1 \in 0..Stages
    BY <1>0
  <2> QED BY <1>0, <2>1 DEF ArcStates
<1>2. arc' = [arc EXCEPT ![a] = entry] /\ entry.stage # 0 /\ Len(active) < Slots /\ a \notin ToSet(active)
  BY <1>1 DEF StartArc, Longest, Dormant, Listed
<1>3. UNCHANGED <<coolUntil, ended, torn, day>>
  BY DEF StartArc, Settles
<1>4. CASE active' = Append(active, a) /\ \E raised \in BOOLEAN :
             /\ HookOf(a, 1, 0, raised)
             /\ IF raised THEN EndTick /\ UNCHANGED <<day, settledDay>> ELSE Settles(active')
  <2>1. active' \in Seq(Arcs) /\ Len(active') = Len(active) + 1 /\ IsInjective(active')
    BY <1>0, <1>2, <1>4, AppendedFacts
  <2>2. Len(active') <= Slots
    BY <1>0, <1>2, <2>1
  <2>3. used' \in [Arcs -> 0..Quota]
    BY <1>0, <1>4, HookBudget DEF DirInv, DirTypes
  <2>4. settledDay' \in 0..day /\ round' \in Seq(Arcs)
    <3>1. (EndTick /\ UNCHANGED settledDay) \/ Settles(active')
      BY <1>4
    <3>2. CASE EndTick /\ UNCHANGED settledDay
      BY <1>0, <3>2 DEF EndTick
    <3>3. CASE Settles(active')
      BY <1>0, <2>1, <3>3 DEF Settles
    <3> QED BY <3>1, <3>2, <3>3
  <2> QED BY <1>2, <1>3, <2>1, <2>2, <2>3, <2>4, ArcMoves
<1>5. CASE used' = [used EXCEPT ![a] = 0] /\ EndTick /\ UNCHANGED <<active, settledDay>>
  <2>1. used' \in [Arcs -> 0..Quota]
    BY <1>0, <1>5 DEF DirInv, DirTypes
  <2>2. settledDay' \in 0..day /\ round' \in Seq(Arcs)
    BY <1>0, <1>5 DEF EndTick
  <2>3. active' \in Seq(Arcs) /\ Len(active') <= Slots /\ IsInjective(active')
    BY <1>5 DEF DirInv, DirTypes
  <2> QED BY <1>2, <1>3, <2>1, <2>2, <2>3, ArcMoves
<1> QED BY <1>4, <1>5 DEF StartArc

\* Any step of the arc whose turn it is.
LEMMA ArcStep ==
  ASSUME DirInv, NEW a \in Arcs, Stays(a) \/ Advances(a) \/ FailsForward(a) \/ ForceClosed(a)
  PROVE  DirInv'
<1>0. Current(a)
  BY DEF Stays, Advances, FailsForward, ForceClosed
<1>1. /\ arc[a] \in ArcStates /\ Tail(round) \in Seq(Arcs) /\ <<>> \in Seq(Arcs)
      /\ day \in Nat /\ settledDay \in 0..day /\ used \in [Arcs -> 0..Quota]
      /\ arc[a].stage \in 0..Stages /\ arc[a].progress \in Nat /\ Stages \in Nat
  BY <1>0, CurrentFacts, DirConstants DEF DirInv, DirTypes, ArcStates
<1>2. arc[a].status = "active" => arc[a].stage \in 1..Stages /\ Degrade[arc[a].stage] \in Never..Stages
  BY SMTT(30), <1>1, DirConstants DEF DirInv, RunningIsStaged
<1>3. CASE Stays(a)
  <2>1. UNCHANGED <<arc, active, coolUntil, used, ended, torn, day, settledDay>> /\ round' = Tail(round)
    BY <1>3 DEF Stays, Passes, story
  <2> QED BY <1>1, <2>1, StoryStays
<1>4. ASSUME Finishes(a) PROVE DirInv'
  <2>1. Completed(a, arc[a].stage, arc[a].progress) /\ used' \in [Arcs -> 0..Quota]
    BY <1>1, <1>4 DEF Finishes
  <2> QED BY <1>0, <1>1, <2>1, CompletedStep
<1>5. CASE Advances(a)
  <2>1. CASE Finishes(a)
    BY <1>4, <2>1
  <2>2. CASE arc[a].stage < Stages /\ Jumps(a, arc[a].stage + 1)
    <3>1. PICK s \in 1..Stages : s = arc[a].stage + 1
      BY SMTT(30), <1>1, <2>2
    <3> QED BY <1>0, <2>2, <3>1, JumpsStep
  <2> QED BY <1>5, <2>1, <2>2 DEF Advances
<1>6. CASE FailsForward(a)
  <2>1. CASE Finishes(a)
    BY <1>4, <2>1
  <2>2. CASE Degrade[arc[a].stage] # 0 /\ Jumps(a, Degrade[arc[a].stage])
    <3>1. PICK s \in 1..Stages : s = Degrade[arc[a].stage]
      <4>1. Degrade[arc[a].stage] \in Never..Stages /\ Degrade[arc[a].stage] # Never
        BY <1>2, <1>6 DEF FailsForward
      <4>2. PICK d \in Never..Stages : d = Degrade[arc[a].stage] /\ d # Never /\ d # 0
        BY <2>2, <4>1
      <4>3. d \in 1..Stages
        BY SMTT(30), <1>1, <4>2 DEF Never
      <4> QED BY <4>2, <4>3
    <3> QED BY <1>0, <2>2, <3>1, JumpsStep
  <2> QED BY <1>6, <2>1, <2>2 DEF FailsForward
<1>7. CASE ForceClosed(a)
  <2>1. CASE Finishes(a)
    BY <1>4, <2>1
  <2>2. CASE Degrade[arc[a].stage] \notin {Never, 0}
    <3>1. PICK s \in 1..Stages : s = Degrade[arc[a].stage]
      BY SMTT(30), <1>1, <1>2, <1>7, <2>2 DEF ForceClosed, Never
    <3>2. PICK raised \in BOOLEAN : HookOf(a, s, used[a], raised)
      BY <1>7, <2>2, <3>1 DEF ForceClosed
    <3>3. used' \in [Arcs -> 0..Quota]
      <4>1. used[a] \in 0..Quota
        BY <1>1
      <4> QED BY <1>1, <3>2, <4>1, HookBudget
    <3>4. CASE Completed(a, s, day)
      <4>1. s \in 0..Stages
        BY <1>1
      <4> QED BY <1>0, <1>1, <3>3, <3>4, <4>1, CompletedStep
    <3>5. CASE /\ Raises /\ arc' = [arc EXCEPT ![a] = [@ EXCEPT !.stage = s, !.progress = day]]
               /\ UNCHANGED <<active, coolUntil, ended, torn, dirCuts>>
      <4>1. PICK entry \in ArcStates : entry = [arc[a] EXCEPT !.stage = s, !.progress = day]
        <5>1. s \in 0..Stages
          BY <1>1
        <5> QED BY <1>1, <5>1 DEF ArcStates
      <4>2. arc' = [arc EXCEPT ![a] = entry] /\ entry.stage # 0
        BY <1>1, <3>5, <4>1 DEF ArcStates, DirInv, DirTypes
      <4>3. UNCHANGED <<day, settledDay>> /\ round' = <<>>
        BY <3>5 DEF Raises, EndTick
      <4>4. active' \in Seq(Arcs) /\ Len(active') <= Slots /\ IsInjective(active')
        BY <3>5 DEF DirInv, DirTypes
      <4> QED BY <1>1, <3>3, <3>5, <4>2, <4>3, <4>4, ArcMoves
    <3> QED BY <1>7, <2>2, <3>1, <3>4, <3>5 DEF ForceClosed
  <2> QED BY <1>7, <2>1, <2>2 DEF ForceClosed
<1> QED BY <1>3, <1>5, <1>6, <1>7

\* The calendar's steps of a tick.
LEMMA DayStep ==
  ASSUME DirInv, Review \/ NoneStarts \/ EvaluateArcs \/ ArcsDone \/ NextDay
  PROVE  DirInv'
<1>1. UNCHANGED <<arc, active, coolUntil, used, ended, torn>>
  BY DEF Review, NoneStarts, EvaluateArcs, ArcsDone, NextDay, story
<1>2. day \in Nat /\ settledDay \in 0..day /\ round \in Seq(Arcs) /\ active \in Seq(Arcs) /\ <<>> \in Seq(Arcs)
  BY DEF DirInv, DirTypes
<1>3. day' \in Nat /\ settledDay' \in 0..day' /\ round' \in Seq(Arcs)
  BY <1>2 DEF Review, NoneStarts, EvaluateArcs, ArcsDone, NextDay, Settles, EndTick
<1> QED BY <1>1, <1>3, StoryStays

\* The cooldown in world_state is that of the day an arc ended on, unless its completion
\* was cut short (arcs.py).
THEOREM CooldownsAreWritten == DirSpec => []DirInv
<1>1. DirInv /\ [DirNext]_dirVars => DirInv'
  <2> SUFFICES ASSUME DirInv, [DirNext]_dirVars PROVE DirInv'
    OBVIOUS
  <2>1. CASE UNCHANGED dirVars
    <3>1. UNCHANGED <<arc, active, coolUntil, used, ended, torn, day, settledDay, round>>
      BY <2>1 DEF dirVars
    <3> QED BY <3>1, StoryStays DEF DirInv, DirTypes
  <2>2. CASE \E a \in Arcs : StartArc(a) \/ Stays(a) \/ Advances(a) \/ FailsForward(a) \/ ForceClosed(a)
    BY <2>2, StartArcStep, ArcStep
  <2>3. CASE Review \/ NoneStarts \/ EvaluateArcs \/ ArcsDone \/ NextDay
    BY <2>3, DayStep
  <2> QED BY <2>1, <2>2, <2>3 DEF DirNext
<1> QED BY <1>1, DirInitHolds, PTL DEF DirSpec

\* Whichever step lists an arc that was not listed starts it.
LEMMA OnlyStartLists ==
  ASSUME DirInv, [DirNext]_dirVars, NEW a \in Arcs, Listed(a)', ~ Listed(a)
  PROVE  StartArc(a)
<1>1. CASE active' = active
  BY <1>1 DEF Listed
<1>2. ASSUME NEW b \in Arcs, active' = RemoveFirst(active, b) PROVE FALSE
  <2>1. ToSet(active') \subseteq ToSet(active)
    BY <1>2, RemovedFacts DEF DirInv, DirTypes
  <2> QED BY <2>1 DEF Listed
<1>3. ASSUME NEW b \in Arcs, StartArc(b), active' # active PROVE b = a
  <2>1. active' = Append(active, b) /\ b \notin ToSet(active)
    BY <1>3 DEF StartArc, Longest, Dormant, Listed
  <2>2. ToSet(active') = ToSet(active) \union {b}
    BY <2>1, AppendedFacts DEF DirInv, DirTypes
  <2> QED BY <2>2 DEF Listed
<1>4. ASSUME NEW b \in Arcs, Stays(b) \/ Advances(b) \/ FailsForward(b) \/ ForceClosed(b)
      PROVE  active' = active \/ active' = RemoveFirst(active, b)
  BY <1>4 DEF Stays, Advances, FailsForward, ForceClosed, Finishes, Completed, Jumps, story
<1>5. Review \/ NoneStarts \/ EvaluateArcs \/ ArcsDone \/ NextDay \/ UNCHANGED dirVars => active' = active
  BY DEF Review, NoneStarts, EvaluateArcs, ArcsDone, NextDay, story, dirVars
<1> QED BY <1>1, <1>2, <1>3, <1>4, <1>5 DEF DirNext

\* A template is not played again within its cooldown, whichever way its last arc ended,
\* unless its completion was cut short.
THEOREM CooldownsAreKept == DirSpec => CooldownKept
<1>1. ASSUME DirInv, [DirNext]_dirVars, NEW a \in Arcs,
             Listed(a)', ~ Listed(a), a \notin torn, ended[a] # Never
      PROVE  day >= ended[a] + CoolDays
  <2>1. coolUntil[a] <= day
    BY <1>1, OnlyStartLists DEF StartArc, Longest, Dormant, Cooled
  <2>2. coolUntil[a] = ended[a] + CoolDays /\ ended[a] \in Nat /\ day \in Nat /\ CoolDays \in Nat
    BY <1>1, DirConstants DEF DirInv, DirTypes, CooldownIsWritten
  <2> QED BY <2>1, <2>2
<1>2. DirInv /\ [DirNext]_dirVars
        => [\A a \in Arcs : Listed(a)' /\ ~Listed(a) /\ a \notin torn /\ ended[a] # Never
                              => day >= ended[a] + CoolDays]_dirVars
  BY <1>1
<1> QED BY <1>2, CooldownsAreWritten, PTL DEF DirSpec, CooldownKept

\* Every variable of the director keeps its type.
THEOREM DirectorTypeCorrect == DirSpec => []DirTypeOK
<1>1. DirInv => DirTypeOK
  <2> SUFFICES ASSUME DirInv PROVE DirTypeOK
    OBVIOUS
  <2>1. ToSet(round) \subseteq Arcs
    BY DEF DirInv, DirTypes, ToSet
  <2>2. \A a \in Arcs : arc[a] \in ArcStates
    BY DEF DirInv, DirTypes
  <2> QED BY <2>1, <2>2 DEF DirInv, DirTypes, DirTypeOK, ArcStates
<1> QED BY <1>1, CooldownsAreWritten, PTL

\* A stage degrades to a later one, if to any (as in arcs.yaml).
FallsForward == \A s \in 1..Stages : Degrade[s] \in {Never, 0} \/ Degrade[s] > s

\* A day has more ticks than there are hooks to raise and deaths of the kernel.
TicksSuffice == IsFiniteSet(Arcs) /\ Cardinality(Arcs \X Hooked) + MaxCuts < TicksADay

\* An arc whose time is up.
Late(a) == Listed(a) /\ a \notin torn /\ Overdue(a)

\* The hooks that may still raise today: each arc goes on to later stages only, and one that
\* is not listed starts no more once the calendar's span is settled.
ToRaise ==
  {p \in Arcs \X Hooked : IF Listed(p[1]) THEN p[2] > arc[p[1]].stage ELSE settledDay # day}

\* Where a tick is.
Beat ==
  /\ ticks \in 0..TicksADay /\ dirCuts \in 0..MaxCuts
  /\ phase \in {"calendar", "check", "arcs"} /\ (phase # "calendar" => ticks < TicksADay)
  /\ (phase = "check" => settledDay # day) /\ (phase = "arcs" => settledDay = day)
  /\ IsInjective(round)

\* Nothing but a cut completion leaves an arc listed that does not run, and a tick does not
\* pass by an arc whose time is up.
InRound ==
  /\ \A a \in Arcs : Listed(a) /\ a \notin torn => arc[a].status = "active"
  /\ phase = "arcs" => /\ ToSet(round) \subseteq ToSet(active)
                       /\ \A a \in Arcs : Late(a) => a \in ToSet(round)

\* While the time of an arc is up, the day has a tick more than can go wrong in it.
Reached ==
  (\E a \in Arcs : Late(a)) => ((Cardinality(ToRaise) + MaxCuts) - dirCuts) + ticks < TicksADay

DueInv == DirInv /\ Beat /\ InRound /\ OverdueIsClosed /\ Reached

\* The bounds.
LEMMA DueConstants ==
  /\ MaxCuts \in Nat /\ TicksADay \in Nat /\ TicksADay > 0 /\ MaxDays \in Nat
  /\ Hooked \subseteq 1..Stages /\ Stages \in Nat
BY SMTT(30), DirectorAssumption

\* The hooks that may raise are finitely many; without one of them they are fewer.
LEMMA FewerHooks ==
  ASSUME TicksSuffice, NEW S \in SUBSET (Arcs \X Hooked), NEW T \in SUBSET S
  PROVE  /\ Cardinality(S) \in Nat /\ Cardinality(T) \in Nat /\ Cardinality(T) <= Cardinality(S)
         /\ T # S => Cardinality(T) < Cardinality(S)
         /\ Cardinality(S) <= Cardinality(Arcs \X Hooked) /\ Cardinality(Arcs \X Hooked) \in Nat
<1>1. IsFiniteSet(Hooked)
  <2>1. IsFiniteSet(1..Stages)
    BY DueConstants, FS_Interval
  <2> QED BY <2>1, DueConstants, FS_Subset
<1>2. IsFiniteSet(Arcs \X Hooked)
  BY <1>1, FS_Product DEF TicksSuffice
<1>3. IsFiniteSet(S) /\ Cardinality(S) <= Cardinality(Arcs \X Hooked)
  BY <1>2, FS_Subset
<1>4. IsFiniteSet(T) /\ Cardinality(T) <= Cardinality(S) /\ (Cardinality(S) = Cardinality(T) => S = T)
  BY <1>3, FS_Subset
<1>5. Cardinality(S) \in Nat /\ Cardinality(T) \in Nat /\ Cardinality(Arcs \X Hooked) \in Nat
  BY <1>2, <1>3, <1>4, FS_CardinalityType
<1> QED BY <1>3, <1>4, <1>5

\* A step within a day on which no arc grows late and no hook is wound up: it ends no tick,
\* or a hook is spent or a cut, or no arc is late after it.
LEMMA WithinDay ==
  ASSUME TicksSuffice, DueInv, Beat', UNCHANGED day,
         \A b \in Arcs : Listed(b)' /\ b \notin torn' =>
           \/ Listed(b) /\ b \notin torn /\ arc'[b].since = arc[b].since
           \/ arc'[b].since = day,
         ToRaise' \subseteq ToRaise,
         \/ ticks' = ticks /\ dirCuts' = dirCuts
         \/ ticks' = ticks + 1 /\ dirCuts' = dirCuts + 1
         \/ ticks' = ticks + 1 /\ dirCuts' = dirCuts /\ ToRaise' # ToRaise
         \/ \A b \in Arcs : ~ Late(b)
  PROVE  /\ OverdueIsClosed' /\ Reached'
         /\ \A b \in Arcs : Late(b)' => Late(b)
<1>1. day \in Nat /\ MaxDays \in Nat /\ MaxCuts \in Nat /\ TicksADay \in Nat
  BY DueConstants DEF DueInv, DirInv, DirTypes
<1>2. \A b \in Arcs : Late(b)' => Late(b)
  <2> SUFFICES ASSUME NEW b \in Arcs, Late(b)' PROVE Late(b)
    OBVIOUS
  <2>1. Listed(b)' /\ b \notin torn' /\ day - arc'[b].since > MaxDays
    BY DEF Late, Overdue, Age
  <2>2. arc'[b].since # day
    BY <1>1, <2>1
  <2> QED BY <2>1, <2>2 DEF Late, Overdue, Age
<1>3. OverdueIsClosed'
  <2> SUFFICES ASSUME NEW b \in Arcs, Listed(b)', b \notin torn'
               PROVE  day - arc'[b].since <= MaxDays + 1
    BY DEF OverdueIsClosed, Age
  <2>1. CASE Listed(b) /\ b \notin torn /\ arc'[b].since = arc[b].since
    BY <2>1 DEF DueInv, OverdueIsClosed, Age
  <2>2. CASE arc'[b].since = day
    BY <1>1, <2>2
  <2> QED BY <2>1, <2>2
<1>4. Reached'
  <2> SUFFICES ASSUME NEW b \in Arcs, Late(b)'
               PROVE  ((Cardinality(ToRaise') + MaxCuts) - dirCuts') + ticks' < TicksADay
    BY DEF Reached
  <2>1. ((Cardinality(ToRaise) + MaxCuts) - dirCuts) + ticks < TicksADay
    BY <1>2 DEF DueInv, Reached
  <2>2. ToRaise \in SUBSET (Arcs \X Hooked)
    BY DEF ToRaise
  <2>3. PICK n \in Nat, m \in Nat :
          /\ n = Cardinality(ToRaise) /\ m = Cardinality(ToRaise') /\ m <= n
          /\ ToRaise' # ToRaise => m < n
    BY <2>2, FewerHooks
  <2>4. ticks \in Nat /\ dirCuts \in Nat
    BY <1>1 DEF DueInv, Beat
  <2>5. ((n + MaxCuts) - dirCuts) + ticks < TicksADay
    BY <2>1, <2>3
  <2>6. ((m + MaxCuts) - dirCuts') + ticks' < TicksADay
    <3>1. CASE ticks' = ticks /\ dirCuts' = dirCuts
      BY <1>1, <2>3, <2>4, <2>5, <3>1
    <3>2. CASE ticks' = ticks + 1 /\ dirCuts' = dirCuts + 1
      BY <1>1, <2>3, <2>4, <2>5, <3>2
    <3>3. CASE ticks' = ticks + 1 /\ dirCuts' = dirCuts /\ ToRaise' # ToRaise
      BY <1>1, <2>3, <2>4, <2>5, <3>3
    <3> QED BY <1>2, <3>1, <3>2, <3>3
  <2> QED BY <2>3, <2>6
<1> QED BY <1>2, <1>3, <1>4

\* What is left of a round behind its first arc.
LEMMA RestFacts ==
  ASSUME NEW s \in Seq(Arcs), s # <<>>, IsInjective(s)
  PROVE  IsInjective(Tail(s)) /\ ToSet(Tail(s)) = ToSet(s) \ {Head(s)}
<1>1. PICK r : r = Tail(s)
  OBVIOUS
<1>2. PICK n \in Nat : n = Len(s) /\ n > 0 /\ DOMAIN s = 1..n
  OBVIOUS
<1>3. /\ DOMAIN r = 1..(n - 1) /\ Head(s) = s[1] /\ \A i \in 1..(n - 1) : r[i] = s[i + 1]
  BY <1>1, <1>2, HeadTailProperties
<1>4. IsInjective(r)
  BY <1>2, <1>3 DEF IsInjective
<1>5. ASSUME NEW x \in ToSet(r) PROVE x \in ToSet(s) /\ x # s[1]
  <2>1. PICK i \in 1..(n - 1) : x = s[i + 1]
    BY <1>3, <1>5 DEF ToSet
  <2>2. i + 1 \in DOMAIN s /\ 1 \in DOMAIN s /\ i + 1 # 1
    BY <1>2
  <2> QED BY <2>1, <2>2 DEF ToSet, IsInjective
<1>6. ASSUME NEW x \in ToSet(s), x # s[1] PROVE x \in ToSet(r)
  <2>1. PICK i \in 1..n : x = s[i] /\ i # 1
    BY <1>2, <1>6 DEF ToSet
  <2>2. i - 1 \in 1..(n - 1) /\ (i - 1) + 1 = i
    BY <1>2, <2>1
  <2>3. r[i - 1] = x
    BY <1>3, <2>1, <2>2
  <2> QED BY <1>3, <2>2, <2>3 DEF ToSet
<1> QED BY <1>1, <1>3, <1>4, <1>5, <1>6

\* The arc whose turn it is runs on this list, in a tick that is not yet over.
LEMMA TurnFacts ==
  ASSUME DueInv, NEW a \in Arcs, Current(a)
  PROVE  /\ round \in Seq(Arcs) /\ round # <<>> /\ Head(round) = a /\ phase = "arcs"
         /\ Listed(a) /\ settledDay = day /\ ticks < TicksADay /\ ticks \in Nat
         /\ IsInjective(Tail(round)) /\ ToSet(Tail(round)) = ToSet(round) \ {a}
         /\ ToSet(round) \subseteq ToSet(active)
         /\ arc[a] \in ArcStates /\ day \in Nat
<1>1. /\ round \in Seq(Arcs) /\ round # <<>> /\ Head(round) = a /\ phase = "arcs" /\ day \in Nat
      /\ IsInjective(round) /\ settledDay = day /\ ticks < TicksADay /\ ticks \in Nat
      /\ ToSet(round) \subseteq ToSet(active) /\ arc[a] \in ArcStates
  BY DueConstants DEF Current, DueInv, DirInv, DirTypes, Beat, InRound
<1>2. IsInjective(Tail(round)) /\ ToSet(Tail(round)) = ToSet(round) \ {a}
  BY <1>1, RestFacts
<1>3. a \in ToSet(round)
  <2>1. 1 \in DOMAIN round /\ round[1] = a
    BY <1>1
  <2> QED BY <2>1 DEF ToSet
<1> QED BY <1>1, <1>2, <1>3 DEF Listed

\* A tick goes on to the next arc, or is over.
LEMMA TurnBeat ==
  ASSUME DueInv, NEW a \in Arcs, Current(a),
         (Passes /\ dirCuts' = dirCuts) \/ (Raises /\ dirCuts' \in 0..MaxCuts)
  PROVE  Beat' /\ UNCHANGED <<day, settledDay>>
<1>1. /\ phase = "arcs" /\ settledDay = day /\ ticks < TicksADay /\ ticks \in Nat
      /\ IsInjective(Tail(round))
  BY TurnFacts
<1>2. CASE Passes /\ dirCuts' = dirCuts
  BY <1>1, <1>2 DEF Passes, DueInv, Beat
<1>3. CASE Raises /\ dirCuts' \in 0..MaxCuts
  <2>1. /\ phase' = "calendar" /\ round' = <<>> /\ ticks' = ticks + 1
        /\ day' = day /\ settledDay' = settledDay
    BY <1>3 DEF Raises, EndTick
  <2>2. ticks' \in 0..TicksADay
    BY <1>1, <2>1, DueConstants
  <2>3. IsInjective(round')
    BY <2>1 DEF IsInjective
  <2> QED BY <1>3, <2>1, <2>2, <2>3 DEF Beat
<1> QED BY <1>2, <1>3

\* An arc that is not late, or not listed after its turn, moves on: what is in the round stays.
LEMMA TurnRound ==
  ASSUME DueInv, NEW a \in Arcs, Current(a), Passes \/ Raises,
         \A b \in Arcs : Late(b)' => Late(b) /\ b # a,
         \A b \in Arcs \ {a} : Listed(b)' <=> Listed(b),
         \A b \in Arcs : Listed(b)' /\ b \notin torn' => arc'[b].status = "active"
  PROVE  InRound'
<1>1. /\ phase = "arcs" /\ ToSet(Tail(round)) = ToSet(round) \ {a}
      /\ ToSet(round) \subseteq ToSet(active) /\ round \in Seq(Arcs)
  BY TurnFacts
<1>2. phase' = "arcs" => round' = Tail(round)
  BY DEF Passes, Raises, EndTick
<1>3. ASSUME phase' = "arcs" PROVE ToSet(round') \subseteq ToSet(active')
  <2>1. ASSUME NEW x \in ToSet(round') PROVE x \in ToSet(active')
    <3>1. x \in ToSet(round) /\ x # a
      BY <1>1, <1>2, <1>3, <2>1
    <3>2. x \in Arcs
      BY <1>1, <3>1 DEF ToSet
    <3>3. x \in ToSet(active)
      BY <1>1, <3>1
    <3> QED BY <3>1, <3>2, <3>3 DEF Listed
  <2> QED BY <2>1
<1>4. ASSUME phase' = "arcs", NEW b \in Arcs, Late(b)' PROVE b \in ToSet(round')
  <2>1. Late(b) /\ b # a
    BY <1>4
  <2>2. b \in ToSet(round)
    BY <1>1, <2>1 DEF DueInv, InRound
  <2> QED BY <1>1, <1>2, <1>4, <2>1, <2>2
<1> QED BY <1>3, <1>4 DEF InRound

\* An arc that comes to its end: it leaves the list, or its completion was cut short.
LEMMA CompletedInTime ==
  ASSUME TicksSuffice, DueInv, DirInv', NEW a \in Arcs, Current(a), NEW stage \in 0..Stages,
         stage >= arc[a].stage, NEW progress \in Nat, Completed(a, stage, progress)
  PROVE  DueInv'
<1>1. /\ Listed(a) /\ settledDay = day /\ arc[a] \in ArcStates /\ day \in Nat /\ Stages \in Nat
      /\ arc \in [Arcs -> ArcStates]
  BY TurnFacts, DueConstants DEF DueInv, DirInv, DirTypes
<1>2. PICK entry \in ArcStates :
        entry = [arc[a] EXCEPT !.stage = stage, !.progress = progress, !.status = "done"]
  BY <1>1 DEF ArcStates
<1>3. /\ arc' = [arc EXCEPT ![a] = entry] /\ entry.stage = stage /\ entry.since = arc[a].since
  BY <1>1, <1>2 DEF Completed, ArcStates
<1>4. arc'[a] = entry /\ \A b \in Arcs \ {a} : arc'[b] = arc[b]
  BY <1>1, <1>3
<1>5. dirCuts \in 0..MaxCuts /\ MaxCuts \in Nat
  BY DueConstants DEF DueInv, Beat
<1>6. Beat' /\ UNCHANGED <<day, settledDay>>
  <2>1. (Passes /\ dirCuts' = dirCuts) \/ (Raises /\ dirCuts < MaxCuts /\ dirCuts' = dirCuts + 1)
    BY DEF Completed
  <2>2. (Passes /\ dirCuts' = dirCuts) \/ (Raises /\ dirCuts' \in 0..MaxCuts)
    BY <1>5, <2>1
  <2> QED BY <2>2, TurnBeat
<1>7. PICK r : r = RemoveFirst(active, a)
  OBVIOUS
<1>8. ToSet(r) = ToSet(active) \ {a}
  <2>1. active \in Seq(Arcs) /\ IsInjective(active)
    BY DEF DueInv, DirInv, DirTypes
  <2> QED BY <1>7, <2>1, RemovedFacts
<1>9. (active' = r /\ torn' = torn) \/ (torn' = torn \union {a} /\ active' \in {active, r})
  BY <1>7 DEF Completed
<1>10. /\ \A b \in Arcs \ {a} : (Listed(b)' <=> Listed(b)) /\ (b \in torn' <=> b \in torn)
       /\ Listed(a)' => a \in torn'
  BY <1>8, <1>9 DEF Listed
<1>11. ToRaise' \subseteq ToRaise
  <2> SUFFICES ASSUME NEW p \in ToRaise' PROVE p \in ToRaise
    OBVIOUS
  <2>1. PICK b \in Arcs, h \in Hooked : p = <<b, h>>
    BY DEF ToRaise
  <2>2. Listed(b)' /\ h > arc'[b].stage
    BY <1>1, <1>6, <2>1 DEF ToRaise
  <2>3. Listed(b)
    BY <1>1, <1>10, <2>2
  <2>4. h > arc[b].stage
    <3>1. CASE b = a
      <4>1. h > stage /\ h \in Int /\ arc[a].stage \in Int
        BY <1>1, <1>3, <1>4, <2>2, <3>1, DueConstants DEF ArcStates
      <4> QED BY <3>1, <4>1
    <3> QED BY <1>4, <2>2, <3>1
  <2> QED BY <2>1, <2>3, <2>4 DEF ToRaise
<1>12. \A b \in Arcs : Listed(b)' /\ b \notin torn' =>
         b # a /\ Listed(b) /\ b \notin torn /\ arc'[b] = arc[b]
  BY <1>4, <1>10
<1>13. \/ ticks' = ticks /\ dirCuts' = dirCuts
       \/ ticks' = ticks + 1 /\ dirCuts' = dirCuts + 1
  BY DEF Completed, Passes, Raises, EndTick
<1>14. OverdueIsClosed' /\ Reached' /\ \A b \in Arcs : Late(b)' => Late(b)
  BY <1>6, <1>11, <1>12, <1>13, WithinDay
<1>15. InRound'
  <2>1. \A b \in Arcs : Late(b)' => Late(b) /\ b # a
    BY <1>12, <1>14 DEF Late
  <2>2. \A b \in Arcs : Listed(b)' /\ b \notin torn' => arc'[b].status = "active"
    BY <1>12 DEF DueInv, InRound
  <2>3. Passes \/ Raises
    BY DEF Completed
  <2> QED BY <1>10, <2>1, <2>2, <2>3, TurnRound
<1> QED BY <1>6, <1>14, <1>15 DEF DueInv

\* An arc goes on to a later stage: the hook that raises is one that was left.
LEMMA MovesInTime ==
  ASSUME TicksSuffice, DueInv, DirInv', NEW a \in Arcs, Current(a), NEW stage \in 1..Stages,
         stage > arc[a].stage, NEW entry \in ArcStates, arc' = [arc EXCEPT ![a] = entry],
         entry.stage = stage, entry.since = arc[a].since, entry.status = arc[a].status,
         UNCHANGED <<active, torn, dirCuts>>,
         \/ Passes /\ ~ Late(a)
         \/ Raises /\ stage \in Hooked
  PROVE  DueInv'
<1>1. /\ Listed(a) /\ settledDay = day /\ arc[a] \in ArcStates /\ day \in Nat /\ Stages \in Nat
      /\ arc \in [Arcs -> ArcStates] /\ ToSet(round) \subseteq ToSet(active)
      /\ ToSet(Tail(round)) = ToSet(round) \ {a} /\ phase = "arcs"
  BY TurnFacts, DueConstants DEF DueInv, DirInv, DirTypes
<1>2. arc'[a] = entry /\ \A b \in Arcs \ {a} : arc'[b] = arc[b]
  BY <1>1
<1>3. \A b \in Arcs : Listed(b)' <=> Listed(b)
  BY DEF Listed
<1>4. Beat' /\ UNCHANGED <<day, settledDay>>
  <2>1. dirCuts' = dirCuts /\ dirCuts \in 0..MaxCuts
    BY DEF DueInv, Beat
  <2> QED BY <2>1, TurnBeat
<1>5. arc[a].stage \in Int /\ Hooked \subseteq Int
  BY <1>1, DueConstants DEF ArcStates
<1>6. ToRaise' \subseteq ToRaise
  <2> SUFFICES ASSUME NEW p \in ToRaise' PROVE p \in ToRaise
    OBVIOUS
  <2>1. PICK b \in Arcs, h \in Hooked : p = <<b, h>>
    BY DEF ToRaise
  <2>2. Listed(b) /\ h > arc'[b].stage
    BY <1>1, <1>3, <1>4, <2>1 DEF ToRaise
  <2>3. h > arc[b].stage
    BY <1>1, <1>2, <1>5, <2>2
  <2> QED BY <2>1, <2>2, <2>3 DEF ToRaise
<1>7. stage \in Hooked => ToRaise' # ToRaise
  <2> SUFFICES ASSUME stage \in Hooked PROVE <<a, stage>> \in ToRaise /\ <<a, stage>> \notin ToRaise'
    OBVIOUS
  <2>1. <<a, stage>> \in ToRaise
    BY <1>1 DEF ToRaise
  <2>2. ~ (stage > arc'[a].stage)
    BY <1>1, <1>2
  <2> QED BY <1>1, <1>3, <2>1, <2>2 DEF ToRaise
<1>8. \A b \in Arcs : arc'[b].since = arc[b].since /\ arc'[b].status = arc[b].status
  BY <1>2
<1>9. \/ ticks' = ticks /\ dirCuts' = dirCuts
      \/ ticks' = ticks + 1 /\ dirCuts' = dirCuts /\ ToRaise' # ToRaise
  BY <1>7 DEF Passes, Raises, EndTick
<1>10. OverdueIsClosed' /\ Reached' /\ \A b \in Arcs : Late(b)' => Late(b)
  BY <1>3, <1>4, <1>6, <1>8, <1>9, WithinDay
<1>11. InRound'
  <2>1. \A b \in Arcs : Listed(b)' /\ b \notin torn' => arc'[b].status = "active"
    BY <1>3, <1>8 DEF DueInv, InRound
  <2>2. CASE Raises
    <3>1. phase' # "arcs"
      BY <2>2 DEF Raises, EndTick
    <3> QED BY <2>1, <3>1 DEF InRound
  <2>3. CASE Passes /\ ~ Late(a)
    <3>1. \A b \in Arcs : Late(b)' => Late(b) /\ b # a
      BY <1>10, <2>3
    <3>2. \A b \in Arcs \ {a} : Listed(b)' <=> Listed(b)
      BY <1>3
    <3> QED BY <2>1, <2>3, <3>1, <3>2, TurnRound
  <2> QED BY <2>2, <2>3
<1> QED BY <1>4, <1>10, <1>11 DEF DueInv

\* Jumps to a later stage.
LEMMA JumpsInTime ==
  ASSUME TicksSuffice, DueInv, DirInv', NEW a \in Arcs, Current(a), ~ Overdue(a),
         NEW stage \in 1..Stages, stage > arc[a].stage, Jumps(a, stage)
  PROVE  DueInv'
<1>1. PICK entry \in ArcStates :
        /\ arc' = [arc EXCEPT ![a] = entry] /\ entry.stage = stage
        /\ entry.since = arc[a].since /\ entry.status = arc[a].status
  BY JumpedEntry DEF DueInv
<1>2. UNCHANGED <<active, torn, dirCuts>>
  BY DEF Jumps
<1>3. Passes \/ (Raises /\ stage \in Hooked)
  BY DEF Jumps, HookOf
<1>4. ~ Late(a)
  BY DEF Late
<1> QED BY <1>1, <1>2, <1>3, <1>4, MovesInTime

\* Any step of the arc whose turn it is.
LEMMA TurnInTime ==
  ASSUME FallsForward, TicksSuffice, DueInv, DirInv', NEW a \in Arcs,
         Stays(a) \/ Advances(a) \/ FailsForward(a) \/ ForceClosed(a)
  PROVE  DueInv'
<1>0. Current(a)
  BY DEF Stays, Advances, FailsForward, ForceClosed
<1>1. /\ arc[a] \in ArcStates /\ arc \in [Arcs -> ArcStates] /\ day \in Nat /\ Stages \in Nat
      /\ arc[a].stage \in 0..Stages /\ arc[a].progress \in Nat /\ Listed(a)
  BY <1>0, TurnFacts, DueConstants DEF DueInv, DirInv, DirTypes, ArcStates
<1>2. ASSUME arc[a].status = "active", Degrade[arc[a].stage] \notin {Never, 0}
      PROVE  Degrade[arc[a].stage] \in 1..Stages /\ Degrade[arc[a].stage] > arc[a].stage
  <2>1. arc[a].stage \in 1..Stages
    BY <1>1, <1>2 DEF DueInv, DirInv, RunningIsStaged
  <2>2. PICK d \in Never..Stages : d = Degrade[arc[a].stage] /\ d # Never /\ d # 0
    BY <1>2, <2>1, DirConstants
  <2>3. d > arc[a].stage
    BY <1>2, <2>1, <2>2 DEF FallsForward
  <2>4. d \in 1..Stages
    BY SMTT(30), <1>1, <2>2 DEF Never
  <2> QED BY <2>2, <2>3, <2>4
<1>3. ASSUME Finishes(a) PROVE DueInv'
  <2>1. arc[a].stage >= arc[a].stage
    BY <1>1
  <2> QED BY <1>0, <1>1, <1>3, <2>1, CompletedInTime DEF Finishes
<1>4. CASE Stays(a)
  <2>1. /\ UNCHANGED <<arc, active, torn, dirCuts, day, ticks, settledDay>> /\ Passes
        /\ arc[a].status = "active" => ~ Overdue(a)
    BY <1>4 DEF Stays, Passes, story
  <2>2. ~ Late(a)
    BY <1>1, <2>1 DEF Late, DueInv, InRound
  <2>3. Beat'
    BY <1>0, <2>1, TurnBeat
  <2>4. ToRaise' = ToRaise /\ \A b \in Arcs : Listed(b)' <=> Listed(b)
    BY <2>1 DEF ToRaise, Listed
  <2>5. OverdueIsClosed' /\ Reached' /\ \A b \in Arcs : Late(b)' => Late(b)
    BY <2>1, <2>3, <2>4, WithinDay
  <2>6. InRound'
    <3>1. \A b \in Arcs : Listed(b)' /\ b \notin torn' => arc'[b].status = "active"
      BY <2>1, <2>4 DEF DueInv, InRound
    <3>2. \A b \in Arcs : Late(b)' => Late(b) /\ b # a
      BY <2>2, <2>5
    <3> QED BY <1>0, <2>1, <2>4, <3>1, <3>2, TurnRound
  <2> QED BY <2>3, <2>5, <2>6 DEF DueInv
<1>5. CASE Advances(a)
  <2>1. CASE Finishes(a)
    BY <1>3, <2>1
  <2>2. CASE arc[a].stage < Stages /\ Jumps(a, arc[a].stage + 1)
    <3>1. PICK s \in 1..Stages : s = arc[a].stage + 1 /\ s > arc[a].stage
      BY SMTT(30), <1>1, <2>2
    <3>2. ~ Overdue(a)
      BY <1>5 DEF Advances
    <3> QED BY <1>0, <2>2, <3>1, <3>2, JumpsInTime
  <2> QED BY <1>5, <2>1, <2>2 DEF Advances
<1>6. CASE FailsForward(a)
  <2>1. CASE Finishes(a)
    BY <1>3, <2>1
  <2>2. CASE Degrade[arc[a].stage] # 0 /\ Jumps(a, Degrade[arc[a].stage])
    <3>1. arc[a].status = "active" /\ ~ Overdue(a) /\ Degrade[arc[a].stage] \notin {Never, 0}
      BY <1>6, <2>2 DEF FailsForward
    <3>2. PICK s \in 1..Stages : s = Degrade[arc[a].stage] /\ s > arc[a].stage
      BY <1>2, <3>1
    <3> QED BY <1>0, <2>2, <3>1, <3>2, JumpsInTime
  <2> QED BY <1>6, <2>1, <2>2 DEF FailsForward
<1>7. CASE ForceClosed(a)
  <2>1. CASE Finishes(a)
    BY <1>3, <2>1
  <2>2. CASE Degrade[arc[a].stage] \notin {Never, 0}
    <3>1. PICK s \in 1..Stages : s = Degrade[arc[a].stage] /\ s > arc[a].stage
      BY <1>2, <1>7, <2>2 DEF ForceClosed
    <3>2. CASE Completed(a, s, day)
      <4>1. s \in 0..Stages /\ s >= arc[a].stage
        BY <1>1, <3>1
      <4> QED BY <1>0, <1>1, <3>2, <4>1, CompletedInTime
    <3>3. CASE /\ HookOf(a, s, used[a], TRUE) /\ Raises
               /\ arc' = [arc EXCEPT ![a] = [@ EXCEPT !.stage = s, !.progress = day]]
               /\ UNCHANGED <<active, coolUntil, ended, torn, dirCuts>>
      <4>1. PICK entry \in ArcStates : entry = [arc[a] EXCEPT !.stage = s, !.progress = day]
        <5>1. s \in 0..Stages
          BY <1>1
        <5> QED BY <1>1, <5>1 DEF ArcStates
      <4>2. /\ arc' = [arc EXCEPT ![a] = entry] /\ entry.stage = s
            /\ entry.since = arc[a].since /\ entry.status = arc[a].status
        BY <1>1, <3>3, <4>1 DEF ArcStates
      <4>3. s \in Hooked
        BY <3>3 DEF HookOf
      <4> QED BY <1>0, <3>1, <3>3, <4>2, <4>3, MovesInTime
    <3> QED BY <1>7, <2>2, <3>1, <3>2, <3>3 DEF ForceClosed
  <2> QED BY <1>7, <2>1, <2>2 DEF ForceClosed
<1> QED BY <1>4, <1>5, <1>6, <1>7

\* An arc that starts is not late, and its first hook is spent.
LEMMA StartInTime ==
  ASSUME TicksSuffice, DueInv, DirInv', NEW a \in Arcs, StartArc(a)
  PROVE  DueInv'
<1>0. /\ day \in Nat /\ settledDay \in 0..day /\ active \in Seq(Arcs) /\ IsInjective(active)
      /\ arc \in [Arcs -> ArcStates] /\ Stages \in Nat /\ Stages > 1 /\ phase = "check"
      /\ settledDay # day /\ ticks < TicksADay /\ ticks \in Nat /\ dirCuts \in 0..MaxCuts
      /\ MaxCuts \in Nat /\ TicksADay \in Nat /\ Hooked \subseteq 1..Stages
  <2>1. /\ day \in Nat /\ settledDay \in 0..day /\ active \in Seq(Arcs) /\ IsInjective(active)
        /\ arc \in [Arcs -> ArcStates]
    BY DEF DueInv, DirInv, DirTypes
  <2>2. /\ phase = "check" /\ settledDay # day /\ ticks < TicksADay /\ ticks \in Nat
        /\ dirCuts \in 0..MaxCuts
    BY DueConstants DEF DueInv, Beat, StartArc
  <2> QED BY <2>1, <2>2, DirConstants, DueConstants
<1>1. PICK entry : entry = [stage |-> 1, since |-> day, progress |-> day, status |-> "active"]
  OBVIOUS
<1>2. /\ arc' = [arc EXCEPT ![a] = entry] /\ ~ Listed(a) /\ a \notin ToSet(active)
      /\ UNCHANGED <<day, torn>>
  BY <1>1 DEF StartArc, Longest, Dormant, Listed, Settles
<1>3. /\ arc'[a].since = day /\ arc'[a].stage = 1 /\ arc'[a].status = "active"
      /\ \A b \in Arcs \ {a} : arc'[b] = arc[b]
  BY <1>0, <1>1, <1>2
<1>5. CASE active' = Append(active, a) /\ UNCHANGED dirCuts /\ \E raised \in BOOLEAN :
             /\ HookOf(a, 1, 0, raised)
             /\ IF raised THEN EndTick /\ UNCHANGED <<day, settledDay>> ELSE Settles(active')
  <2>1. active' \in Seq(Arcs) /\ IsInjective(active') /\ ToSet(active') = ToSet(active) \union {a}
    BY <1>0, <1>2, <1>5, AppendedFacts
  <2>2. \A b \in Arcs : Listed(b)' <=> Listed(b) \/ b = a
    BY <2>1 DEF Listed
  <2>3. \/ EndTick /\ settledDay' = settledDay /\ 1 \in Hooked
        \/ Settles(active')
    BY <1>5 DEF HookOf
  <2>4. Beat'
    <3>1. CASE EndTick /\ settledDay' = settledDay
      <4>1. phase' = "calendar" /\ round' = <<>> /\ ticks' = ticks + 1
        BY <3>1 DEF EndTick
      <4>2. ticks' \in 0..TicksADay /\ IsInjective(round')
        BY <1>0, <4>1 DEF IsInjective
      <4> QED BY <1>0, <1>5, <4>1, <4>2 DEF Beat
    <3>2. CASE Settles(active')
      BY <1>0, <1>5, <2>1, <3>2 DEF Settles, Beat
    <3> QED BY <2>3, <3>1, <3>2
  <2>5. ToRaise' \subseteq ToRaise
    <3> SUFFICES ASSUME NEW p \in ToRaise' PROVE p \in ToRaise
      OBVIOUS
    <3>1. PICK b \in Arcs, h \in Hooked : p = <<b, h>>
      BY DEF ToRaise
    <3>2. CASE b = a
      BY <1>0, <1>2, <3>1, <3>2 DEF ToRaise
    <3>3. CASE b # a /\ Listed(b)
      BY <1>3, <2>2, <3>1, <3>3 DEF ToRaise
    <3>4. CASE b # a /\ ~ Listed(b)
      BY <1>0, <3>1, <3>4 DEF ToRaise
    <3> QED BY <3>2, <3>3, <3>4
  <2>6. \/ ticks' = ticks /\ dirCuts' = dirCuts
        \/ ticks' = ticks + 1 /\ dirCuts' = dirCuts /\ ToRaise' # ToRaise
    <3>1. CASE EndTick /\ 1 \in Hooked
      <4>1. <<a, 1>> \in ToRaise
        BY <1>0, <1>2, <3>1 DEF ToRaise
      <4>2. <<a, 1>> \notin ToRaise'
        BY <1>3, <2>2 DEF ToRaise
      <4> QED BY <1>5, <3>1, <4>1, <4>2 DEF EndTick
    <3>2. CASE Settles(active')
      BY <1>5, <3>2 DEF Settles
    <3> QED BY <2>3, <3>1, <3>2
  <2>7. \A b \in Arcs : Listed(b)' /\ b \notin torn' =>
          \/ Listed(b) /\ b \notin torn /\ arc'[b].since = arc[b].since
          \/ arc'[b].since = day
    BY <1>2, <1>3, <2>2
  <2>8. OverdueIsClosed' /\ Reached' /\ \A b \in Arcs : Late(b)' => Late(b)
    BY <1>2, <2>4, <2>5, <2>6, <2>7, WithinDay
  <2>9. InRound'
    <3>1. \A b \in Arcs : Listed(b)' /\ b \notin torn' => arc'[b].status = "active"
      BY <1>2, <1>3, <2>2 DEF DueInv, InRound
    <3>2. phase' = "arcs" => round' = active'
      BY <2>3 DEF EndTick, Settles
    <3>3. \A b \in Arcs : Late(b)' => b \in ToSet(active')
      BY DEF Late, Listed
    <3> QED BY <3>1, <3>2, <3>3 DEF InRound
  <2> QED BY <2>4, <2>8, <2>9 DEF DueInv
<1>6. CASE /\ dirCuts < MaxCuts /\ dirCuts' = dirCuts + 1
           /\ EndTick /\ UNCHANGED <<active, settledDay>>
  <2>1. phase' = "calendar" /\ round' = <<>> /\ ticks' = ticks + 1
    BY <1>6 DEF EndTick
  <2>2. Beat'
    <3>1. ticks' \in 0..TicksADay /\ dirCuts' \in 0..MaxCuts /\ IsInjective(round')
      BY <1>0, <1>6, <2>1 DEF IsInjective
    <3> QED BY <2>1, <3>1 DEF Beat
  <2>3. \A b \in Arcs : (Listed(b)' <=> Listed(b)) /\ (Listed(b) => b # a /\ arc'[b] = arc[b])
    BY <1>2, <1>3, <1>6 DEF Listed
  <2>4. ToRaise' \subseteq ToRaise
    <3> SUFFICES ASSUME NEW p \in ToRaise' PROVE p \in ToRaise
      OBVIOUS
    <3>1. PICK b \in Arcs, h \in Hooked : p = <<b, h>>
      BY DEF ToRaise
    <3>2. CASE Listed(b)
      BY <2>3, <3>1, <3>2 DEF ToRaise
    <3>3. CASE ~ Listed(b)
      BY <1>0, <3>1, <3>3 DEF ToRaise
    <3> QED BY <3>2, <3>3
  <2>5. \A b \in Arcs : Listed(b)' /\ b \notin torn' =>
          Listed(b) /\ b \notin torn /\ arc'[b].since = arc[b].since
    BY <1>2, <2>3
  <2>6. OverdueIsClosed' /\ Reached'
    BY <1>2, <1>6, <2>1, <2>2, <2>4, <2>5, WithinDay
  <2>7. InRound'
    BY <1>2, <2>1, <2>3 DEF DueInv, InRound
  <2> QED BY <2>2, <2>6, <2>7 DEF DueInv
<1> QED BY <1>5, <1>6 DEF StartArc

\* The calendar's span and the start of the arcs' round; a round that went through leaves
\* nothing late.
LEMMA SpanInTime ==
  ASSUME TicksSuffice, DueInv, DirInv', Review \/ NoneStarts \/ EvaluateArcs \/ ArcsDone
  PROVE  DueInv'
<1>0. /\ day \in Nat /\ settledDay \in 0..day /\ active \in Seq(Arcs) /\ IsInjective(active)
      /\ TicksADay \in Nat /\ ticks \in 0..TicksADay
  BY DueConstants DEF DueInv, DirInv, DirTypes, Beat
<1>1. UNCHANGED <<arc, active, torn, dirCuts, day>>
  BY DEF Review, NoneStarts, EvaluateArcs, ArcsDone, Settles, story
<1>2. settledDay' = settledDay \/ settledDay' = day
  BY DEF Review, NoneStarts, EvaluateArcs, ArcsDone, Settles
<1>3. ToRaise' \subseteq ToRaise
  BY <1>1, <1>2 DEF ToRaise, Listed
<1>4. \A b \in Arcs : Late(b)' <=> Late(b)
  BY <1>1 DEF Late, Listed, Overdue, Age
<1>5. \A b \in Arcs : Listed(b)' /\ b \notin torn' =>
        Listed(b) /\ b \notin torn /\ arc'[b].since = arc[b].since
  BY <1>1 DEF Listed
<1>6. ASSUME Beat',
             (ticks' = ticks) \/ (\A b \in Arcs : ~ Late(b)),
             phase' = "arcs" => round' = active
      PROVE  DueInv'
  <2>1. OverdueIsClosed' /\ Reached'
    BY <1>1, <1>3, <1>5, <1>6, WithinDay DEF ArcsDone
  <2>2. InRound'
    <3>1. \A b \in Arcs : Listed(b)' /\ b \notin torn' => arc'[b].status = "active"
      BY <1>1, <1>5 DEF DueInv, InRound
    <3>2. \A b \in Arcs : Late(b)' => b \in ToSet(active')
      BY DEF Late, Listed
    <3> QED BY <1>1, <1>6, <3>1, <3>2 DEF InRound
  <2> QED BY <1>6, <2>1, <2>2 DEF DueInv
<1>7. CASE Review
  <2>1. Beat'
    BY <1>0, <1>7 DEF Review, story, DueInv, Beat
  <2> QED BY <1>6, <1>7, <2>1 DEF Review
<1>8. CASE NoneStarts
  <2>1. Beat'
    BY <1>0, <1>1, <1>8 DEF NoneStarts, Settles, DueInv, Beat
  <2> QED BY <1>6, <1>8, <2>1 DEF NoneStarts, Settles
<1>9. CASE EvaluateArcs
  <2>1. Beat'
    BY <1>0, <1>1, <1>9 DEF EvaluateArcs, DueInv, Beat
  <2> QED BY <1>6, <1>9, <2>1 DEF EvaluateArcs
<1>10. CASE ArcsDone
  <2>1. phase' = "calendar" /\ round' = <<>> /\ ticks' = ticks + 1 /\ ticks < TicksADay
    BY <1>10 DEF ArcsDone, EndTick, DueInv, Beat
  <2>2. Beat'
    <3>1. ticks' \in 0..TicksADay /\ IsInjective(round')
      BY <1>0, <2>1 DEF IsInjective
    <3> QED BY <1>1, <2>1, <3>1 DEF DueInv, Beat
  <2>3. \A b \in Arcs : ~ Late(b)
    BY <1>10 DEF ArcsDone, DueInv, InRound, ToSet
  <2> QED BY <1>6, <2>1, <2>2, <2>3
<1> QED BY <1>7, <1>8, <1>9, <1>10

\* When the day ends nothing is late, so what grows late is late by a day.
LEMMA MidnightInTime ==
  ASSUME TicksSuffice, DueInv, DirInv', NextDay
  PROVE  DueInv'
<1>0. /\ day \in Nat /\ settledDay \in 0..day /\ MaxDays \in Nat /\ MaxCuts \in Nat
      /\ TicksADay \in Nat /\ TicksADay > 0 /\ arc \in [Arcs -> ArcStates] /\ dirCuts \in 0..MaxCuts
  BY DueConstants DEF DueInv, DirInv, DirTypes, Beat
<1>1. /\ phase = "calendar" /\ ticks = TicksADay /\ day' = day + 1 /\ ticks' = 0
      /\ UNCHANGED <<phase, round, settledDay, arc, active, torn, dirCuts>>
  BY DEF NextDay, story
<1>2. \A b \in Arcs : ~ Late(b)
  <2> SUFFICES ASSUME NEW b \in Arcs, Late(b) PROVE FALSE
    OBVIOUS
  <2>1. ((Cardinality(ToRaise) + MaxCuts) - dirCuts) + ticks < TicksADay
    BY DEF DueInv, Reached
  <2>2. Cardinality(ToRaise) \in Nat
    BY FewerHooks DEF ToRaise
  <2> QED BY <1>0, <1>1, <2>1, <2>2
<1>3. Beat'
  BY <1>0, <1>1 DEF DueInv, Beat
<1>4. InRound'
  BY <1>1 DEF DueInv, InRound, Listed
<1>5. OverdueIsClosed'
  <2> SUFFICES ASSUME NEW b \in Arcs, Listed(b)', b \notin torn'
               PROVE  day' - arc'[b].since <= MaxDays + 1
    BY DEF OverdueIsClosed, Age
  <2>1. ~ (day - arc[b].since > MaxDays)
    BY <1>1, <1>2 DEF Late, Listed, Overdue, Age
  <2>2. arc[b].since \in Nat
    BY <1>0 DEF ArcStates
  <2> QED BY <1>0, <1>1, <2>1, <2>2
<1>6. Reached'
  <2>1. PICK m \in Nat, n \in Nat :
          m = Cardinality(ToRaise') /\ n = Cardinality(Arcs \X Hooked) /\ m <= n
    BY FewerHooks DEF ToRaise
  <2>2. n + MaxCuts < TicksADay
    BY <2>1 DEF TicksSuffice
  <2>3. ((m + MaxCuts) - dirCuts') + ticks' < TicksADay
    BY <1>0, <1>1, <2>1, <2>2
  <2> QED BY <2>1, <2>3 DEF Reached
<1> QED BY <1>3, <1>4, <1>5, <1>6 DEF DueInv

\* An arc comes to its end the day after its time is up, whichever hooks raise and wherever
\* the kernel dies on that day, if stages only degrade to later ones and the day is long enough
\* for the hooks there are; an arc whose completion was cut short excepted (arcs.py: "no
\* deadlock").
THEOREM OverdueAreClosed ==
  ASSUME FallsForward, TicksSuffice PROVE DirSpec => []OverdueIsClosed
<1>1. DirInit => Beat /\ InRound /\ OverdueIsClosed /\ Reached
  <2> SUFFICES ASSUME DirInit PROVE Beat /\ InRound /\ OverdueIsClosed /\ Reached
    OBVIOUS
  <2>1. \A a \in Arcs : ~ Listed(a)
    BY DEF DirInit, Listed, ToSet
  <2>2. Beat
    BY DueConstants DEF DirInit, Beat, IsInjective
  <2> QED BY <2>1, <2>2 DEF DirInit, InRound, OverdueIsClosed, Reached, Late
<1>2. ASSUME DueInv, DirInv', [DirNext]_dirVars PROVE DueInv'
  <2>1. CASE UNCHANGED dirVars
    BY <1>2, <2>1 DEF dirVars, DueInv, Beat, InRound, OverdueIsClosed, Reached, ToRaise, Late,
                      Listed, Overdue, Age
  <2>2. CASE \E a \in Arcs : StartArc(a) \/ Stays(a) \/ Advances(a) \/ FailsForward(a) \/ ForceClosed(a)
    BY <1>2, <2>2, StartInTime, TurnInTime
  <2>3. CASE Review \/ NoneStarts \/ EvaluateArcs \/ ArcsDone
    BY <1>2, <2>3, SpanInTime
  <2>4. CASE NextDay
    BY <1>2, <2>4, MidnightInTime
  <2> QED BY <1>2, <2>1, <2>2, <2>3, <2>4 DEF DirNext
<1>3. DirInv => (Beat /\ InRound /\ OverdueIsClosed /\ Reached => DueInv)
  BY DEF DueInv
<1>4. DueInv => OverdueIsClosed
  BY DEF DueInv
<1> QED BY <1>1, <1>2, <1>3, <1>4, CooldownsAreWritten, PTL DEF DirSpec

-----------------------------------------------------------------------------
(*****************************************************************************)
(* Audit: files tell the days, and the clock is stopped for a reason.        *)
(*****************************************************************************)
\* A warning that is not yet written.
Warnings == [check : Checks, number : Nat]

\* The types of the files, of the alerts and of what is written of them.
AuditTypes ==
  /\ today \in 1..LastAudit /\ drift \in {0, 1} /\ twice \in BOOLEAN
  /\ anchor \in {NoAnchor, 0, 1} /\ frozen \in BOOLEAN
  /\ reports \in [DOMAIN reports -> BOOLEAN] /\ DOMAIN reports \subseteq 1..LastAudit
  /\ alerts \in 0..MaxAlerts /\ slips \in 0..MaxSlips /\ byHand \in 0..MaxByHand
  /\ lines \in Seq(Nat) /\ unwritten \in Seq(Warnings)

\* Every audited day has its file, and a red file is that of a day on which an audit
\* met something wrong.
FilesTell ==
  /\ audited = DOMAIN reports /\ sick \subseteq audited
  /\ \A d \in DOMAIN reports : reports[d] => d \in sick

\* A number is given to one alert that was raised.
NumbersAreRaised ==
  /\ \A i \in 1..Len(lines) : lines[i] \in 1..alerts
  /\ \A i \in 1..Len(unwritten) : unwritten[i].number \in 1..alerts

\* The inductive invariant of the audit.
AuditInv == AuditTypes /\ FilesTell /\ NumbersAreRaised

\* What the constants are.
LEMMA AuditConstants ==
  LastAudit \in Nat /\ LastAudit > 0 /\ MaxSlips \in Nat /\ MaxByHand \in Nat /\ MaxAlerts \in Nat
BY AuditAssumption

\* What an audit finds is finite.
LEMMA FoundIsFinite ==
  ASSUME NEW asked \in SUBSET Checks, NEW S \in SUBSET Found(asked)
  PROVE  IsFiniteSet(S) /\ IsFiniteSet(Found(asked))
         /\ Cardinality(S) \in Nat /\ Cardinality(Found(asked)) \in Nat
         /\ Cardinality(S) <= Cardinality(Found(asked)) /\ Found(asked) \subseteq Checks
<1>1. IsFiniteSet({"balance"}) /\ IsFiniteSet({"balance"} \union {"moves"})
  BY FS_Singleton, FS_AddElement
<1>2. IsFiniteSet(Checks)
  <2>1. Checks = {"balance"} \union {"moves"}
    BY DEF Checks
  <2> QED BY <1>1, <2>1
<1>3. Found(asked) \in SUBSET Checks
  BY DEF Found
<1>4. IsFiniteSet(Found(asked))
  BY <1>2, <1>3, FS_Subset
<1>5. IsFiniteSet(S) /\ Cardinality(S) <= Cardinality(Found(asked))
  BY <1>4, FS_Subset
<1> QED BY <1>3, <1>4, <1>5, FS_CardinalityType

\* The elements of a finite set, in a sequence.
LEMMA SequenceOf ==
  ASSUME NEW S, IsFiniteSet(S), Cardinality(S) \in Nat
  PROVE  SetToSeq(S) \in [1..Cardinality(S) -> S]
<1>1. ExistsBijection(1..Cardinality(S), S)
  BY FS_CardinalityType
<1>2. PICK f : f \in Bijection(1..Cardinality(S), S)
  BY <1>1 DEF ExistsBijection
<1>3. f \in [1..Cardinality(S) -> S] /\ IsInjective(f)
  BY <1>2 DEF Bijection, Injection, Surjection, IsInjective
<1> QED BY <1>3 DEF SetToSeq

\* What a sequence put together of two holds, one of the two holds.
LEMMA OfOneOrOther ==
  ASSUME NEW m \in Nat, NEW n \in Nat, NEW a, NEW b, NEW c,
         \A i \in 1..(m + n) : c[i] = IF i <= m THEN a[i] ELSE b[i - m]
  PROVE  \A i \in 1..(m + n) : (\E j \in 1..m : c[i] = a[j]) \/ (\E j \in 1..n : c[i] = b[j])
<1>1. ASSUME NEW i \in 1..(m + n), ~ (i <= m) PROVE \E j \in 1..n : c[i] = b[j]
  <2>1. i - m \in 1..n /\ c[i] = b[i - m]
    BY <1>1
  <2> QED BY <2>1
<1>2. ASSUME NEW i \in 1..(m + n), i <= m PROVE \E j \in 1..m : c[i] = a[j]
  BY <1>2
<1> QED BY <1>1, <1>2

\* The same for sequences.
LEMMA JoinedHold ==
  ASSUME NEW T, NEW a \in Seq(T), NEW b \in Seq(T), NEW c, c = a \o b
  PROVE  /\ c \in Seq(T)
         /\ \A i \in 1..Len(c) : \/ \E j \in 1..Len(a) : c[i] = a[j]
                                \/ \E j \in 1..Len(b) : c[i] = b[j]
<1>1. /\ c \in Seq(T) /\ Len(c) = Len(a) + Len(b)
      /\ \A i \in 1..(Len(a) + Len(b)) : c[i] = IF i <= Len(a) THEN a[i] ELSE b[i - Len(a)]
  BY ConcatProperties
<1>2. Len(a) \in Nat /\ Len(b) \in Nat
  OBVIOUS
<1> QED BY <1>1, <1>2, OfOneOrOther

\* The same for sequences of numbers.
LEMMA NumbersJoined ==
  ASSUME NEW a \in Seq(Nat), NEW b \in Seq(Nat), NEW c, c = a \o b
  PROVE  /\ c \in Seq(Nat)
         /\ \A i \in 1..Len(c) : \/ \E j \in 1..Len(a) : c[i] = a[j]
                                \/ \E j \in 1..Len(b) : c[i] = b[j]
<1>1. /\ c \in Seq(Nat) /\ Len(c) = Len(a) + Len(b)
      /\ \A i \in 1..(Len(a) + Len(b)) : c[i] = IF i <= Len(a) THEN a[i] ELSE b[i - Len(a)]
  BY ConcatProperties
<1>2. Len(a) \in Nat /\ Len(b) \in Nat
  OBVIOUS
<1> QED BY <1>1, <1>2, OfOneOrOther

\* No file, no alert at the beginning.
LEMMA AuditInitHolds == AuditInit => AuditInv
<1> SUFFICES ASSUME AuditInit PROVE AuditInv
  OBVIOUS
<1>1. reports = [d \in {} |-> FALSE] /\ DOMAIN reports = {} /\ lines = <<>> /\ unwritten = <<>>
  BY DEF AuditInit
<1>2. reports \in [DOMAIN reports -> BOOLEAN]
  BY <1>1
<1>3. AuditTypes
  <2>1. today \in 1..LastAudit /\ drift \in {0, 1} /\ twice \in BOOLEAN /\ anchor \in {NoAnchor, 0, 1}
        /\ frozen \in BOOLEAN
    <3>1. today \in 1..LastAudit
      BY AuditConstants DEF AuditInit
    <3> QED BY <3>1, Zenon DEF AuditInit
  <2>2. alerts \in 0..MaxAlerts /\ slips \in 0..MaxSlips /\ byHand \in 0..MaxByHand
    BY AuditConstants DEF AuditInit
  <2> QED BY <1>1, <1>2, <2>1, <2>2 DEF AuditTypes
<1>4. FilesTell /\ NumbersAreRaised
  BY <1>1 DEF AuditInit, FilesTell, NumbersAreRaised
<1> QED BY <1>3, <1>4 DEF AuditInv

\* What an audit of the day today' does to the files, the anchor and the count of alerts.
LEMMA AuditRuns ==
  ASSUME AuditInv, NEW asked \in SUBSET Checks, today' \in 1..LastAudit, RunDailyAudit(asked)
  PROVE  /\ anchor' \in {NoAnchor, 0, 1} /\ alerts' \in 0..MaxAlerts
         /\ reports' \in [DOMAIN reports' -> BOOLEAN] /\ DOMAIN reports' \subseteq 1..LastAudit
         /\ FilesTell' /\ alerts' = alerts + Cardinality(Found(asked))
<1>1. Cardinality(Found(asked)) \in Nat
  BY FoundIsFinite
<1>2. anchor' \in {NoAnchor, 0, 1}
  BY DEF RunDailyAudit, AnchorAfter, AuditInv, AuditTypes
<1>3. alerts' \in 0..MaxAlerts /\ alerts' = alerts + Cardinality(Found(asked))
  BY <1>1, AuditConstants DEF RunDailyAudit, AuditInv, AuditTypes
<1>4. PICK red \in BOOLEAN : red = (Found(asked) # {})
  OBVIOUS
<1>5. reports' = [d \in DOMAIN reports \cup {today'} |-> IF d = today' THEN red ELSE reports[d]]
  BY <1>4 DEF RunDailyAudit, Filed
<1>6. DOMAIN reports' = DOMAIN reports \cup {today'} /\ reports'[today'] = red
      /\ \A d \in DOMAIN reports : d # today' => reports'[d] = reports[d]
  BY <1>5
<1>7. \A d \in DOMAIN reports' : reports'[d] \in BOOLEAN
  BY <1>6 DEF AuditInv, AuditTypes
<1>8. reports' \in [DOMAIN reports' -> BOOLEAN]
  BY <1>5, <1>7
<1>9. audited' = audited \cup {today'} /\ sick' = IF red THEN sick \cup {today'} ELSE sick
  BY <1>4 DEF RunDailyAudit
<1>10. FilesTell'
  <2>1. audited' = DOMAIN reports' /\ sick' \subseteq audited'
    BY <1>6, <1>9 DEF AuditInv, FilesTell
  <2>2. ASSUME NEW d \in DOMAIN reports', reports'[d] PROVE d \in sick'
    <3>1. CASE d = today'
      BY <1>6, <1>9, <2>2, <3>1
    <3>2. CASE d # today'
      BY <1>6, <1>9, <2>2, <3>2 DEF AuditInv, FilesTell
    <3> QED BY <3>1, <3>2
  <2> QED BY <2>1, <2>2 DEF FilesTell
<1>11. DOMAIN reports' \subseteq 1..LastAudit
  BY <1>6 DEF AuditInv, AuditTypes
<1> QED BY <1>2, <1>3, <1>8, <1>10, <1>11

\* New warnings bear numbers of this audit's alerts.
LEMMA WarningsAreRaised ==
  ASSUME AuditInv, NEW w, w = Warned(Found(Checks))
  PROVE  /\ w \in Seq(Warnings)
         /\ \A i \in 1..Len(w) : w[i].number \in 1..(alerts + Cardinality(Found(Checks)))
<1>1. PICK S \in SUBSET Found(Checks) :
        S = {c \in Found(Checks) : \A i \in DOMAIN unwritten : unwritten[i].check # c}
  OBVIOUS
<1>2. /\ IsFiniteSet(S) /\ Cardinality(S) \in Nat /\ Cardinality(Found(Checks)) \in Nat
      /\ Cardinality(S) <= Cardinality(Found(Checks)) /\ S \subseteq Checks
  BY FoundIsFinite
<1>3. PICK n \in Nat, m \in Nat : n = Cardinality(S) /\ m = Cardinality(Found(Checks)) /\ n <= m
  BY <1>2
<1>4. PICK new : new = SetToSeq(S) /\ new \in [1..n -> S]
  BY <1>2, <1>3, SequenceOf
<1>5. PICK v : v = [i \in DOMAIN new |-> [check |-> new[i], number |-> alerts + i]]
  OBVIOUS
<1>6. alerts \in Nat
  BY AuditConstants DEF AuditInv, AuditTypes
<1>7. v \in Seq(Warnings) /\ Len(v) = n /\ \A i \in 1..n : v[i].number = alerts + i
  <2>1. DOMAIN v = 1..n /\ \A i \in 1..n : v[i] = [check |-> new[i], number |-> alerts + i]
    BY <1>4, <1>5
  <2>2. \A i \in 1..n : v[i] \in Warnings
    BY <1>2, <1>4, <1>6, <2>1 DEF Warnings
  <2>3. v \in [1..n -> Warnings]
    BY <1>4, <1>5, <2>1, <2>2
  <2> QED BY <1>3, <2>1, <2>3
<1>8. w = unwritten \o v
  BY <1>1, <1>4, <1>5 DEF Warned
<1>9. unwritten \in Seq(Warnings) /\ Len(unwritten) \in Nat
  BY DEF AuditInv, AuditTypes
<1>10. /\ w \in Seq(Warnings)
       /\ \A i \in 1..Len(w) : \/ \E j \in 1..Len(unwritten) : w[i] = unwritten[j]
                              \/ \E j \in 1..Len(v) : w[i] = v[j]
  BY <1>7, <1>8, <1>9, JoinedHold
<1>11. ASSUME NEW i \in 1..Len(w) PROVE w[i].number \in 1..(alerts + m)
  <2>1. \A j \in 1..Len(unwritten) : unwritten[j].number \in 1..(alerts + m)
    BY <1>3, <1>6 DEF AuditInv, NumbersAreRaised
  <2>2. \A j \in 1..Len(v) : v[j].number \in 1..(alerts + m)
    BY <1>3, <1>6, <1>7
  <2> QED BY <1>10, <2>1, <2>2
<1> QED BY <1>3, <1>10, <1>11

\* The nightly audit.
LEMMA NightStep == ASSUME AuditInv, Night PROVE AuditInv'
<1>1. /\ today' \in 1..LastAudit /\ RunDailyAudit(Checks) /\ unwritten' = Warned(Found(Checks))
      /\ UNCHANGED <<drift, twice, lines, slips, byHand>> /\ frozen' \in BOOLEAN
  BY AuditConstants DEF Night, AuditInv, AuditTypes
<1>2. /\ anchor' \in {NoAnchor, 0, 1} /\ alerts' \in 0..MaxAlerts
      /\ reports' \in [DOMAIN reports' -> BOOLEAN] /\ DOMAIN reports' \subseteq 1..LastAudit
      /\ FilesTell' /\ alerts' = alerts + Cardinality(Found(Checks))
  BY <1>1, AuditRuns
<1>3. PICK w : w = Warned(Found(Checks)) /\ unwritten' = w
  BY <1>1
<1>4. /\ w \in Seq(Warnings)
      /\ \A i \in 1..Len(w) : w[i].number \in 1..(alerts + Cardinality(Found(Checks)))
  BY <1>3, WarningsAreRaised
<1>5. AuditTypes'
  BY <1>1, <1>2, <1>3, <1>4 DEF AuditInv, AuditTypes
<1>6. \A i \in 1..Len(lines) : lines'[i] \in 1..alerts'
  <2>1. Cardinality(Found(Checks)) \in Nat /\ alerts \in Nat
    BY FoundIsFinite, AuditConstants DEF AuditInv, AuditTypes
  <2>2. \A i \in 1..Len(lines) : lines[i] \in 1..alerts
    BY DEF AuditInv, NumbersAreRaised
  <2> QED BY <1>1, <1>2, <2>1, <2>2
<1>7. NumbersAreRaised'
  BY <1>1, <1>2, <1>3, <1>4, <1>6 DEF NumbersAreRaised
<1> QED BY <1>2, <1>5, <1>7 DEF AuditInv

\* An audit by hand.
LEMMA ByHandStep == ASSUME AuditInv, ByHand PROVE AuditInv'
<1>1. /\ byHand' \in 0..MaxByHand /\ today' = today /\ today' \in 1..LastAudit
      /\ UNCHANGED <<drift, twice, frozen, unwritten, slips>>
  BY AuditConstants DEF ByHand, AuditInv, AuditTypes
<1>2. PICK asked \in SUBSET Checks :
        /\ RunDailyAudit(asked)
        /\ lines' = lines \o [i \in 1..Cardinality(Found(asked)) |-> alerts + i]
  <2>1. \A asked \in {Checks} \cup {{c} : c \in Checks} : asked \in SUBSET Checks
    OBVIOUS
  <2> QED BY <2>1 DEF ByHand
<1>3. /\ anchor' \in {NoAnchor, 0, 1} /\ alerts' \in 0..MaxAlerts
      /\ reports' \in [DOMAIN reports' -> BOOLEAN] /\ DOMAIN reports' \subseteq 1..LastAudit
      /\ FilesTell' /\ alerts' = alerts + Cardinality(Found(asked))
  BY <1>1, <1>2, AuditRuns
<1>4. PICK n \in Nat : n = Cardinality(Found(asked))
  BY FoundIsFinite
<1>5. PICK v : v = [i \in 1..n |-> alerts + i]
  OBVIOUS
<1>6. alerts \in Nat /\ lines \in Seq(Nat) /\ Len(lines) \in Nat
  BY AuditConstants DEF AuditInv, AuditTypes
<1>7. v \in Seq(Nat) /\ Len(v) = n /\ \A i \in 1..n : v[i] = alerts + i
  <2>1. v \in [1..n -> Nat]
    BY <1>5, <1>6
  <2> QED BY <1>4, <1>5, <2>1
<1>8. /\ lines' \in Seq(Nat)
      /\ \A i \in 1..Len(lines') : \/ \E j \in 1..Len(lines) : lines'[i] = lines[j]
                                   \/ \E j \in 1..Len(v) : lines'[i] = v[j]
  <2>1. PICK c : c = lines \o v /\ lines' = c
    BY <1>2, <1>4, <1>5
  <2>2. /\ c \in Seq(Nat)
        /\ \A i \in 1..Len(c) : \/ \E j \in 1..Len(lines) : c[i] = lines[j]
                               \/ \E j \in 1..Len(v) : c[i] = v[j]
    <3>1. PICK a \in Seq(Nat), b \in Seq(Nat) : a = lines /\ b = v
      BY <1>6, <1>7
    <3>2. c = a \o b
      BY <2>1, <3>1
    <3>3. /\ c \in Seq(Nat)
          /\ \A i \in 1..Len(c) : \/ \E j \in 1..Len(a) : c[i] = a[j]
                                 \/ \E j \in 1..Len(b) : c[i] = b[j]
      BY <3>2, NumbersJoined
    <3> QED BY <3>1, <3>3, Zenon
  <2> QED BY <2>1, <2>2, Zenon
<1>9. ASSUME NEW i \in 1..Len(lines') PROVE lines'[i] \in 1..alerts'
  <2>1. \A j \in 1..Len(lines) : lines[j] \in 1..alerts'
    BY <1>3, <1>4, <1>6 DEF AuditInv, NumbersAreRaised
  <2>2. \A j \in 1..Len(v) : v[j] \in 1..alerts'
    BY SMTT(30), <1>3, <1>4, <1>6, <1>7
  <2> QED BY <1>8, <2>1, <2>2
<1>10. \A i \in 1..Len(unwritten') : unwritten'[i].number \in 1..alerts'
  <2>1. \A i \in 1..Len(unwritten) : unwritten[i].number \in 1..alerts
    BY DEF AuditInv, NumbersAreRaised
  <2> QED BY <1>1, <1>3, <1>4, <1>6, <2>1
<1>11. AuditTypes'
  BY <1>1, <1>3, <1>8 DEF AuditInv, AuditTypes
<1> QED BY <1>3, <1>9, <1>10, <1>11 DEF AuditInv, NumbersAreRaised

\* An error writes the warnings that wait.
LEMMA ErrorStep == ASSUME AuditInv, Error PROVE AuditInv'
<1>1. /\ alerts' = alerts + 1 /\ alerts' \in 0..MaxAlerts /\ unwritten' = <<>>
      /\ lines' = WrittenUpTo(alerts + 1) /\ alerts \in Nat
      /\ UNCHANGED <<today, drift, twice, anchor, reports, frozen, sick, audited, slips, byHand>>
  BY AuditConstants DEF Error, AuditInv, AuditTypes
<1>2. PICK v : v = Numbers(unwritten)
  OBVIOUS
<1>3. PICK n \in Nat : n = Len(unwritten)
  BY DEF AuditInv, AuditTypes
<1>4. v \in Seq(Nat) /\ Len(v) = n /\ \A i \in 1..n : v[i] \in 1..alerts
  <2>1. DOMAIN unwritten = 1..n /\ \A i \in 1..n : unwritten[i].number \in 1..alerts
    BY <1>3 DEF AuditInv, AuditTypes, NumbersAreRaised
  <2>2. v = [i \in 1..n |-> unwritten[i].number]
    BY <1>2, <2>1 DEF Numbers
  <2>3. v \in [1..n -> Nat]
    BY <1>1, <2>1, <2>2
  <2> QED BY <1>3, <2>1, <2>2, <2>3
<1>5. PICK u : u = Append(v, alerts + 1)
  OBVIOUS
<1>6. u \in Seq(Nat) /\ Len(u) = n + 1 /\ \A i \in 1..(n + 1) : u[i] \in 1..(alerts + 1)
  <2>1. u \in Seq(Nat) /\ Len(u) = n + 1 /\ u[n + 1] = alerts + 1 /\ \A i \in 1..n : u[i] = v[i]
    BY <1>1, <1>3, <1>4, <1>5
  <2>2. ASSUME NEW i \in 1..(n + 1) PROVE u[i] \in 1..(alerts + 1)
    <3>1. i \in 1..n \/ i = n + 1
      BY <1>3
    <3> QED BY <1>1, <1>4, <2>1, <3>1
  <2> QED BY <2>1, <2>2
<1>7. lines' = lines \o u /\ lines \in Seq(Nat) /\ Len(lines) \in Nat
  BY <1>1, <1>2, <1>5 DEF WrittenUpTo, AuditInv, AuditTypes
<1>8. /\ lines' \in Seq(Nat)
      /\ \A i \in 1..Len(lines') : \/ \E j \in 1..Len(lines) : lines'[i] = lines[j]
                                   \/ \E j \in 1..Len(u) : lines'[i] = u[j]
  <2>1. PICK c : c = lines \o u /\ lines' = c
    BY <1>7
  <2>2. /\ c \in Seq(Nat)
        /\ \A i \in 1..Len(c) : \/ \E j \in 1..Len(lines) : c[i] = lines[j]
                               \/ \E j \in 1..Len(u) : c[i] = u[j]
    <3>1. PICK a \in Seq(Nat), b \in Seq(Nat) : a = lines /\ b = u
      BY <1>6, <1>7
    <3>2. c = a \o b
      BY <2>1, <3>1
    <3>3. /\ c \in Seq(Nat)
          /\ \A i \in 1..Len(c) : \/ \E j \in 1..Len(a) : c[i] = a[j]
                                 \/ \E j \in 1..Len(b) : c[i] = b[j]
      BY <3>2, NumbersJoined
    <3> QED BY <3>1, <3>3, Zenon
  <2> QED BY <2>1, <2>2, Zenon
<1>9. ASSUME NEW i \in 1..Len(lines') PROVE lines'[i] \in 1..alerts'
  <2>1. \A j \in 1..Len(lines) : lines[j] \in 1..alerts'
    BY <1>1 DEF AuditInv, NumbersAreRaised
  <2>2. \A j \in 1..Len(u) : u[j] \in 1..alerts'
    BY <1>1, <1>3, <1>6
  <2> QED BY <1>8, <2>1, <2>2
<1>10. AuditTypes'
  BY <1>1, <1>8 DEF AuditInv, AuditTypes
<1>11. FilesTell'
  BY <1>1 DEF AuditInv, FilesTell
<1> QED BY <1>1, <1>9, <1>10, <1>11 DEF AuditInv, NumbersAreRaised

\* Steps that leave the files, the alerts and what was written alone.
LEMMA OtherSteps ==
  ASSUME AuditInv, NightLost \/ Slip \/ ResumeClock \/ RestartKernel \/ UNCHANGED auditVars
  PROVE  AuditInv'
<1>1. UNCHANGED <<anchor, reports, lines, alerts, sick, audited, byHand>>
  BY DEF NightLost, Slip, ResumeClock, RestartKernel, auditVars
<1>2. unwritten' = unwritten \/ unwritten' = <<>>
  BY DEF NightLost, Slip, ResumeClock, RestartKernel, auditVars
<1>3. today' \in 1..LastAudit
  BY AuditConstants DEF NightLost, Slip, ResumeClock, RestartKernel, auditVars, AuditInv, AuditTypes
<1>4. drift' \in {0, 1} /\ twice' \in BOOLEAN /\ frozen' \in BOOLEAN /\ slips' \in 0..MaxSlips
  <2>1. drift \in {0, 1} /\ twice \in BOOLEAN /\ frozen \in BOOLEAN /\ slips \in 0..MaxSlips
    BY DEF AuditInv, AuditTypes
  <2>2. CASE Slip
    <3>1. slips' \in 0..MaxSlips
      BY <2>1, <2>2, AuditConstants DEF Slip
    <3>2. drift' \in {0, 1} /\ twice' \in BOOLEAN /\ frozen' \in BOOLEAN
      BY <2>1, <2>2 DEF Slip
    <3> QED BY <3>1, <3>2
  <2>3. CASE NightLost \/ ResumeClock \/ RestartKernel \/ UNCHANGED auditVars
    BY <2>1, <2>3 DEF NightLost, ResumeClock, RestartKernel, auditVars
  <2> QED BY <2>2, <2>3
<1>5. AuditTypes'
  <2>1. unwritten' \in Seq(Warnings)
    <3>1. unwritten \in Seq(Warnings) /\ <<>> \in Seq(Warnings)
      BY DEF AuditInv, AuditTypes
    <3> QED BY <1>2, <3>1, Zenon
  <2> QED BY <1>1, <1>3, <1>4, <2>1 DEF AuditInv, AuditTypes
<1>6. FilesTell'
  BY <1>1 DEF AuditInv, FilesTell
<1>7. NumbersAreRaised'
  BY <1>1, <1>2 DEF AuditInv, NumbersAreRaised
<1> QED BY <1>5, <1>6, <1>7 DEF AuditInv

\* Any step.
LEMMA AuditStep == AuditInv /\ [AuditNext]_auditVars => AuditInv'
BY NightStep, ByHandStep, ErrorStep, OtherSteps DEF AuditNext

\* Every audited day has its file, and a red file is that of a day on which an audit met
\* something wrong, whoever ran it.
THEOREM FilesTellTheDays == AuditSpec => []AuditInv
BY AuditStep, AuditInitHolds, PTL DEF AuditSpec

\* Every variable of the audit keeps its type, and no line names an alert that was not
\* raised.
THEOREM AuditTypeCorrect == AuditSpec => []AuditTypeOK
<1>1. ASSUME AuditInv PROVE AuditTypeOK
  <2>1. \A n \in Range(lines) : n \in 1..alerts
    <3>1. DOMAIN lines = 1..Len(lines)
      BY <1>1 DEF AuditInv, AuditTypes
    <3> QED BY <1>1, <3>1 DEF Range, AuditInv, NumbersAreRaised
  <2>2. \A n \in Range(Numbers(unwritten)) : n \in 1..alerts
    <3>1. DOMAIN unwritten = 1..Len(unwritten)
      BY <1>1 DEF AuditInv, AuditTypes
    <3> QED BY <1>1, <3>1 DEF Range, Numbers, AuditInv, NumbersAreRaised
  <2>3. sick \cup audited \subseteq DOMAIN reports
    BY <1>1 DEF AuditInv, FilesTell
  <2>4. alerts <= MaxAlerts /\ slips <= MaxSlips /\ byHand <= MaxByHand
    BY <1>1, AuditConstants DEF AuditInv, AuditTypes
  <2> QED BY <1>1, <2>1, <2>2, <2>3, <2>4 DEF AuditInv, AuditTypes, AuditTypeOK
<1> QED BY <1>1, FilesTellTheDays, PTL

\* Three red files at the end of the list of files are those of the latest three days.
LEMMA LatestAreRed ==
  ASSUME NEW n \in Nat, NEW files, DOMAIN files \in SUBSET (1..n), ConsecutiveRedDays(files) >= 3
  PROVE  /\ Cardinality(DOMAIN files) >= 3
         /\ \A d \in DOMAIN files : Cardinality({e \in DOMAIN files : e >= d}) <= 3 => files[d]
<1>1. IsFiniteSet(1..n)
  BY FS_Interval
<1>2. PICK D : D = DOMAIN files /\ IsFiniteSet(D) /\ Cardinality(D) \in Nat /\ D \subseteq Nat
  BY <1>1, FS_Subset, FS_CardinalityType
<1>3. PICK R \in SUBSET D : R = {d \in D : \A e \in D : e >= d => files[e]}
  OBVIOUS
<1>4. IsFiniteSet(R) /\ Cardinality(R) \in Nat /\ Cardinality(R) <= Cardinality(D) /\ Cardinality(R) >= 3
  BY <1>2, <1>3, FS_Subset, FS_CardinalityType DEF ConsecutiveRedDays
<1>5. ASSUME NEW d \in D, Cardinality({e \in D : e >= d}) <= 3, ~ files[d] PROVE FALSE
  <2>1. PICK U \in SUBSET D : U = {e \in D : e >= d}
    OBVIOUS
  <2>2. d \notin R /\ \A r \in R : r >= d
    BY <1>2, <1>3, <1>5
  <2>3. R \union {d} \in SUBSET U
    BY <1>2, <1>3, <2>1, <2>2
  <2>4. Cardinality(R \union {d}) = Cardinality(R) + 1
    BY <1>4, <2>2, FS_AddElement
  <2>5. IsFiniteSet(U) /\ Cardinality(U) \in Nat /\ Cardinality(R \union {d}) <= Cardinality(U)
    <3>1. IsFiniteSet(U)
      BY <1>2, FS_Subset
    <3> QED BY <2>3, <3>1, FS_Subset, FS_CardinalityType
  <2> QED BY <1>4, <1>5, <2>1, <2>4, <2>5
<1> QED BY <1>2, <1>4, <1>5

\* The clock is frozen for a reason: on each of the last three audited days an audit met
\* something wrong, over nights skipped or lost and audits by hand that write a day's
\* file over.
THEOREM StopsAreEarned == AuditSpec => StopIsEarned
<1>1. ASSUME AuditInv, AuditInv', [AuditNext]_auditVars, ~ frozen, frozen'
      PROVE  Cardinality(audited') >= 3 /\ LatestAudited(3)' \subseteq sick'
  <2>1. Night
    BY <1>1 DEF AuditNext, NightLost, ByHand, Error, Slip, ResumeClock, RestartKernel, auditVars
  <2>2. PICK files : files = reports' /\ ConsecutiveRedDays(files) >= 3
    BY <1>1, <2>1 DEF Night
  <2>3. DOMAIN files \in SUBSET (1..LastAudit)
    BY <1>1, <2>2 DEF AuditInv, AuditTypes
  <2>4. /\ Cardinality(DOMAIN files) >= 3
        /\ \A d \in DOMAIN files : Cardinality({e \in DOMAIN files : e >= d}) <= 3 => files[d]
    BY <2>2, <2>3, LatestAreRed, AuditConstants
  <2>5. audited' = DOMAIN files /\ \A d \in DOMAIN files : files[d] => d \in sick'
    BY <1>1, <2>2 DEF AuditInv, FilesTell
  <2> QED BY <2>4, <2>5 DEF LatestAudited
<1>2. AuditInv /\ AuditInv' /\ [AuditNext]_auditVars
        => [~frozen /\ frozen'
              => Cardinality(audited') >= 3 /\ LatestAudited(3)' \subseteq sick']_auditVars
  BY <1>1
<1> QED BY <1>2, FilesTellTheDays, PTL DEF AuditSpec, StopIsEarned

-----------------------------------------------------------------------------
(*****************************************************************************)
(* The parts together.                                                       *)
(*****************************************************************************)
\* Taken one at a time, each part behaves as it does alone: what is proved of a part
\* holds of it in the machine.
THEOREM EachPartBehaves ==
  Spec => /\ GwSpec /\ CostSpec /\ MemSpec /\ DirSpec /\ RepSpec /\ AuditSpec
          /\ ScreenInit /\ [][ScreenNext]_screenVars
<1>1. Init => /\ GwInit /\ CostInit /\ MemInit /\ DirInit /\ RepInit /\ ScreenInit
              /\ AuditInit
  BY DEF Init
<1>2. [Next]_<<part, gwVars, costVars, memVars, dirVars, repVars, screenVars, auditVars>>
        => /\ [GwNext]_gwVars /\ [CostNext]_costVars /\ [MemNext]_memVars
           /\ [DirNext]_dirVars /\ [RepNext]_repVars /\ [AuditNext]_auditVars
           /\ [ScreenNext]_screenVars
  BY DEF Next
<1> QED BY <1>1, <1>2, PTL DEF Spec, GwSpec, CostSpec, MemSpec, DirSpec, RepSpec, AuditSpec

\* Every variable of the machinery keeps its type.
THEOREM MachineTypeCorrect == Spec => []TypeOK
<1>1. ScreenInit /\ [][ScreenNext]_screenVars => []ScreenTypeOK
  BY ScreenInvInit, ScreenStepInv, ScreenSizedInit, ScreenSizedStep, ScreenSizes, PTL
<1>2. GwTypeOK /\ CostTypeOK /\ MemTypeOK /\ DirTypeOK /\ RepTypeOK /\ ScreenTypeOK
        /\ AuditTypeOK => TypeOK
  BY DEF TypeOK
<1> QED BY <1>1, <1>2, EachPartBehaves, GatewayTypeCorrect, CostTypeCorrect, MemoryTypeCorrect,
           DirectorTypeCorrect, ReplicaTypeCorrect, AuditTypeCorrect, PTL
=============================================================================
