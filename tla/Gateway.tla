------------------------------ MODULE Gateway ------------------------------
(***************************************************************************)
(* Calls to the language models (llm_gateway): the chain of endpoints a call  *)
(* walks (_chat_routed), the retries of one endpoint (clients.call_tracked),  *)
(* and the breaker shared by all calls that takes an endpoint out after       *)
(* consecutive failures and lets it back in after a probe                     *)
(* (breaker.FailoverBreaker).  Several calls are under way at once; each      *)
(* request and each row written is a point where another call may go on.      *)
(*                                                                           *)
(* All task types share one chain of endpoints, numbered in order; after the  *)
(* last comes the special action (ChainExhausted).  The conditions on the     *)
(* rate and the latency of a window are one choice, "slow".  Waiting for the  *)
(* token bucket only delays a request.                                       *)
(***************************************************************************)
EXTENDS Integers, FiniteSetsExt

CONSTANTS
  Callers,
  Chain,     \* number of endpoints
  Retries,   \* MAX_RETRIES
  TripAt,    \* TRIP_CONSECUTIVE_ERRORS
  MaxCalls, MaxCooldowns  \* bounds: calls, cooldowns that pass

ASSUME GatewayAssumption ==
  /\ {Chain, Retries, TripAt} \subseteq Nat \ {0} /\ {MaxCalls, MaxCooldowns} \subseteq Nat

Endpoints == 1..Chain
None == 0

VARIABLES
  step,      \* where each call is
  hop,       \* the endpoint it is at
  fellFrom,  \* fallback_from
  tries,     \* failed attempts at the endpoint; then those the breaker is still to be told of
  reason,    \* the breaker has tripped on what this call told it
  turned,    \* endpoints that turned the call away, and whether it let one back in
  letIn,
  walls,     \* _consec_wall
  tripped,   \* _tripped_at: "no", "cooling" or "due" for a probe
  degraded,  \* _degraded_to, by task type: the caller's
  told,      \* endpoints whose last trip has its failover event
  trips, recovered,  \* how often an endpoint went out, and how often an event says it came back
  halted,    \* the fault probe has paused the clock
  calls, cooldowns

gwVars == <<step, hop, fellFrom, tries, reason, turned, letIn, walls, tripped, degraded, told,
            trips, recovered, halted, calls, cooldowns>>
breaker == <<walls, tripped>>
events == <<told, recovered>>

GwInit ==
  /\ step = [c \in Callers |-> "idle"] /\ hop = [c \in Callers |-> 1]
  /\ fellFrom = [c \in Callers |-> None] /\ tries = [c \in Callers |-> 0]
  /\ reason = [c \in Callers |-> FALSE] /\ turned = [c \in Callers |-> {}]
  /\ letIn = [c \in Callers |-> FALSE]
  /\ walls = [e \in Endpoints |-> 0] /\ tripped = [e \in Endpoints |-> "no"]
  /\ degraded = {}
  /\ told = {} /\ trips = walls /\ recovered = walls /\ halted = FALSE
  /\ calls = 0 /\ cooldowns = 0

At(c, s) == step[c] = s
Goes(c, s) == step' = [step EXCEPT ![c] = s]
First(c) == IF fellFrom[c] = None THEN hop[c] ELSE fellFrom[c]

\* On to the next endpoint of the chain.
TurnedAway(c) ==
  /\ fellFrom' = [fellFrom EXCEPT ![c] = First(c)]
  /\ turned' = [turned EXCEPT ![c] = @ \union {hop[c]}]
  /\ hop' = [hop EXCEPT ![c] = @ + 1] /\ Goes(c, "chain")

-----------------------------------------------------------------------------
(* A call walks the chain.                                                   *)

Begin(c) ==
  /\ At(c, "idle") /\ calls < MaxCalls /\ calls' = calls + 1
  /\ Goes(c, "chain") /\ hop' = [hop EXCEPT ![c] = 1]
  /\ fellFrom' = [fellFrom EXCEPT ![c] = None] /\ tries' = [tries EXCEPT ![c] = 0]
  /\ turned' = [turned EXCEPT ![c] = {}] /\ letIn' = [letIn EXCEPT ![c] = FALSE]
  /\ UNCHANGED <<reason, breaker, degraded, trips, events, cooldowns, halted>>

\* The end of the chain: ChainExhausted is raised.
Exhausted(c) ==
  /\ At(c, "chain") /\ hop[c] > Chain /\ Goes(c, "idle") /\ hop' = [hop EXCEPT ![c] = 1]
  /\ UNCHANGED <<fellFrom, tries, reason, turned, letIn, breaker, degraded, trips, events, calls,
                 cooldowns, halted>>

\* A tripped endpoint is passed over while it cools down.
PassOver(c) ==
  /\ At(c, "chain") /\ hop[c] <= Chain /\ tripped[hop[c]] = "cooling"
  /\ TurnedAway(c)
  /\ UNCHANGED <<tries, reason, letIn, breaker, degraded, trips, events, calls, cooldowns, halted>>

\* Cooled down: this call probes it.  Nothing keeps others from doing so too.
Sound(c) ==
  /\ At(c, "chain") /\ hop[c] <= Chain /\ tripped[hop[c]] = "due"
  /\ Goes(c, "probe") /\ fellFrom' = [fellFrom EXCEPT ![c] = First(c)]
  /\ UNCHANGED <<hop, tries, reason, turned, letIn, breaker, degraded, trips, events, calls,
                 cooldowns, halted>>

\* probe_result does nothing when another probe has let the endpoint in; the
\* call takes its own answer for the result and announces a recovery.
Sounded(c) ==
  /\ At(c, "probe") /\ Goes(c, "request")
  /\ IF tripped[hop[c]] = "no" THEN UNCHANGED breaker
     ELSE /\ tripped' = [tripped EXCEPT ![hop[c]] = "no"]
          /\ walls' = [walls EXCEPT ![hop[c]] = 0]
  /\ recovered' = [recovered EXCEPT ![hop[c]] = @ + 1]
  /\ fellFrom' = [fellFrom EXCEPT ![c] = None] /\ letIn' = [letIn EXCEPT ![c] = TRUE]
  /\ degraded' = degraded \ {c} /\ tries' = [tries EXCEPT ![c] = 0]
  /\ UNCHANGED <<hop, reason, turned, trips, told, calls, cooldowns, halted>>

ProbeFails(c) ==
  /\ At(c, "probe")
  /\ tripped' = [tripped EXCEPT ![hop[c]] = IF @ = "no" THEN "no" ELSE "cooling"]
  /\ TurnedAway(c)
  /\ UNCHANGED <<tries, reason, letIn, walls, degraded, trips, events, calls, cooldowns, halted>>

Ask(c) ==
  /\ At(c, "chain") /\ hop[c] <= Chain /\ tripped[hop[c]] = "no"
  /\ Goes(c, "request") /\ tries' = [tries EXCEPT ![c] = 0]
  /\ UNCHANGED <<hop, fellFrom, reason, turned, letIn, breaker, degraded, trips, events, calls,
                 cooldowns, halted>>

-----------------------------------------------------------------------------
(* The requests to one endpoint.                                             *)

\* 429, a server error or a broken connection; retried up to Retries times.
RequestFails(c) ==
  /\ At(c, "request") /\ tries[c] <= Retries
  /\ tries' = [tries EXCEPT ![c] = @ + 1]
  /\ Goes(c, IF tries[c] = Retries THEN "walled" ELSE "request")
  /\ UNCHANGED <<hop, fellFrom, reason, turned, letIn, breaker, degraded, trips, events, calls,
                 cooldowns, halted>>

RequestAnswered(c) ==
  /\ At(c, "request") /\ Goes(c, "answered")
  /\ UNCHANGED <<hop, fellFrom, tries, reason, turned, letIn, breaker, degraded, trips, events,
                 calls, cooldowns, halted>>

\* A client error is raised at once: nothing is recorded, the breaker hears
\* nothing of the attempts before it.
Rejected(c) ==
  /\ At(c, "request") /\ Goes(c, "idle") /\ hop' = [hop EXCEPT ![c] = 1]
  /\ UNCHANGED <<fellFrom, tries, reason, turned, letIn, breaker, degraded, trips, events, calls,
                 cooldowns, halted>>

-----------------------------------------------------------------------------
(* The breaker is told, one attempt after the other.                         *)

\* _check_trip: the failures in a row, or the window.
Trips(c, count, slow) == count >= TripAt \/ slow

\* Mutant: a tripped endpoint goes on counting.
TellAlways(c, count, slow) ==
  LET e == hop[c]
  IN /\ walls' = [walls EXCEPT ![e] = count]
     /\ IF tripped[e] = "no" /\ Trips(c, count, slow)
        THEN /\ tripped' = [tripped EXCEPT ![e] = "cooling"]
             /\ trips' = [trips EXCEPT ![e] = @ + 1] /\ told' = told \ {e}
             /\ reason' = [reason EXCEPT ![c] = TRUE]
        ELSE UNCHANGED <<tripped, trips, told, reason>>

\* record_attempt: a tripped endpoint takes no notice.
Tell(c, count, slow) ==
  LET e == hop[c]
  IN IF tripped[e] # "no" THEN UNCHANGED <<breaker, trips, told, reason>>
     ELSE /\ walls' = [walls EXCEPT ![e] = count]
          /\ IF Trips(c, count, slow)
             THEN /\ tripped' = [tripped EXCEPT ![e] = "cooling"]
                  /\ trips' = [trips EXCEPT ![e] = @ + 1] /\ told' = told \ {e}
                  /\ reason' = [reason EXCEPT ![c] = TRUE]
             ELSE UNCHANGED <<tripped, trips, told, reason>>

\* Mutant: the reason is that of the last attempt.
TellFailureLast(c) ==
  /\ step[c] \in {"walled", "answered"} /\ tries[c] > 0
  /\ tries' = [tries EXCEPT ![c] = @ - 1]
  /\ \E slow \in BOOLEAN :
       IF tripped[hop[c]] # "no"
       THEN reason' = [reason EXCEPT ![c] = FALSE] /\ UNCHANGED <<breaker, trips, told>>
       ELSE Tell(c, walls[hop[c]] + 1, slow)
  /\ UNCHANGED <<step, hop, fellFrom, turned, letIn, degraded, recovered, calls, cooldowns, halted>>

TellFailure(c) ==
  /\ step[c] \in {"walled", "answered"} /\ tries[c] > 0
  /\ tries' = [tries EXCEPT ![c] = @ - 1]
  /\ \E slow \in BOOLEAN : Tell(c, walls[hop[c]] + 1, slow)
  /\ UNCHANGED <<step, hop, fellFrom, turned, letIn, degraded, recovered, calls, cooldowns, halted>>

TellAnswer(c) ==
  /\ At(c, "answered") /\ tries[c] = 0 /\ Goes(c, "recorded")
  /\ \E slow \in BOOLEAN : Tell(c, 0, slow)
  /\ UNCHANGED <<hop, fellFrom, tries, turned, letIn, degraded, recovered, calls, cooldowns,
                 halted>>

\* emit_failover, if this call tripped the breaker; then the next endpoint, or
\* the answer is returned.
Announce(c) ==
  IF reason[c] THEN /\ told' = told \union {hop[c]}
                    /\ degraded' = degraded \union {c} /\ reason' = [reason EXCEPT ![c] = FALSE]
               ELSE UNCHANGED <<told, degraded, reason>>

FallOver(c) ==
  /\ At(c, "walled") /\ tries[c] = 0 /\ Announce(c) /\ TurnedAway(c)
  /\ UNCHANGED <<tries, letIn, breaker, trips, recovered, calls, cooldowns, halted>>

Return(c) ==
  /\ At(c, "recorded") /\ Announce(c) /\ Goes(c, "idle") /\ hop' = [hop EXCEPT ![c] = 1]
  /\ UNCHANGED <<fellFrom, tries, turned, letIn, breaker, trips, recovered, calls, cooldowns,
                 halted>>

\* Half an hour after the trip or the last failed probe.  No call takes that
\* long to record its attempts.
CoolDown(e) ==
  /\ \A c \in Callers : step[c] \notin {"walled", "answered", "recorded"}
  /\ tripped[e] = "cooling" /\ cooldowns < MaxCooldowns /\ cooldowns' = cooldowns + 1
  /\ tripped' = [tripped EXCEPT ![e] = "due"]
  /\ UNCHANGED <<step, hop, fellFrom, tries, reason, turned, letIn, walls, degraded, trips, events,
                 calls, halted>>

\* FatalProbe, every half minute: the clock is paused while the database or the
\* disk fails, or the provider is among the tripped ones; the breaker's keys are
\* endpoints, provider/model.
Key(e) == <<"zhipu", e>>
TrippedProviders == {Key(e) : e \in {x \in Endpoints : tripped[x] # "no"}}
ProvidersOk == <<"zhipu">> \notin TrippedProviders

FatalCheck(failing) ==
  /\ halted' = (failing \/ ~ProvidersOk)
  /\ UNCHANGED <<step, hop, fellFrom, tries, reason, turned, letIn, breaker, degraded, trips,
                 events,
                 calls, cooldowns>>

GwNext ==
  \/ \E c \in Callers :
       \/ Begin(c) \/ Exhausted(c) \/ PassOver(c) \/ Sound(c) \/ Sounded(c) \/ ProbeFails(c)
       \/ Ask(c) \/ RequestFails(c) \/ RequestAnswered(c) \/ Rejected(c)
       \/ TellFailure(c) \/ TellAnswer(c) \/ FallOver(c) \/ Return(c)
  \/ \E e \in Endpoints : CoolDown(e)
  \/ \E failing \in BOOLEAN : FatalCheck(failing)

GwSpec == GwInit /\ [][GwNext]_gwVars
GwFairSpec == GwSpec /\ WF_gwVars(FatalCheck(FALSE))

-----------------------------------------------------------------------------
GwTypeOK ==
  /\ hop \in [Callers -> 1..(Chain + 1)] /\ fellFrom \in [Callers -> 0..Chain]
  /\ tries \in [Callers -> 0..(Retries + 1)] /\ walls \in [Endpoints -> 0..TripAt]
  /\ tripped \in [Endpoints -> {"no", "cooling", "due"}]

\* However the feeds and the probes of several calls interleave: an endpoint that is
\* out has been announced with a failover event since it went out
\* (system.llm.failover), or the call that tripped it is still to announce it; and
\* an answer that is recorded names the first endpoint that turned its call away,
\* or none (llm_calls.fallback_from), unless the call let one back in.
FailoverIsTold ==
  /\ \A e \in Endpoints :
       tripped[e] # "no" /\ e \notin told => \E c \in Callers : reason[c] /\ hop[c] = e
  /\ \A c \in Callers :
       At(c, "recorded") /\ ~letIn[c] =>
         fellFrom[c] = IF turned[c] = {} THEN None ELSE Min(turned[c])

\* An endpoint is let back in by a single probe: it recovers once for a trip
\* (__init__.py:248, breaker.py:134).
OneRecoveryPerTrip == \A e \in Endpoints : recovered[e] <= trips[e]

\* While no endpoint is left, the clock is paused (docs/design/04, 3.2).
OutageIsNoticed ==
  LET out == \A e \in Endpoints : tripped[e] # "no" IN out ~> (halted \/ ~out)
=============================================================================
