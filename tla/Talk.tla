-------------------------------- MODULE Talk --------------------------------
(***************************************************************************)
(* What a conversation is about: the choice of topics and the rest each      *)
(* topic gets afterwards (relations/topics.py), inside the settlement of a   *)
(* chat (adjudicator/dialogue.py).  A chat asks the language model up to     *)
(* three times, inserts one dialogue.chat event and only at its end, one     *)
(* participant after the other, notes the topics in agents.mood.  What a     *)
(* chat does to feelings, needs and memories is in Relations and Memory.     *)
(*                                                                           *)
(* Chats are settled by the adjudication coroutine, one at a time, and each  *)
(* has the hour of its tick.  Feelings and what the lines say are chosen.    *)
(***************************************************************************)
EXTENDS Integers, Sequences, SequencesExt, FiniteSetsExt

CONSTANTS
  Talkers,
  Themes,       \* the library: topic -> kind (topics.yaml)
  RestHours,    \* rules.cooldown_hours
  Fewest, Most, \* meta.per_dialogue
  Caps,         \* chats a day: by default, and when the throttle lowers it
  ChatDay,      \* hours of a day
  LastChatHour, \* bound
  MaxTalks      \* bound: chats

Topics == DOMAIN Themes
Kinds == {"daily", "work", "gossip", "deep", "secret", "conflict"}
Of(kind) == {t \in Topics : Themes[t] = kind}

\* The kernel does not start with a library that has a topic of another kind or
\* none for every day (load_topics; its counts per kind are left out).
Loads == (\A t \in Topics : Themes[t] \in Kinds) /\ Of("daily") # {}

ASSUME TalkAssumption ==
  /\ Loads
  /\ {RestHours, Fewest, Most, ChatDay, LastChatHour} \subseteq Nat \ {0} /\ Fewest <= Most
  /\ Caps \subseteq Nat /\ MaxTalks \in Nat

VARIABLES
  atHour,    \* the hour of the tick; the first one is 1
  rests,   \* agents.mood, topic_cooldowns: until when per agent and topic, 0 for no entry
  chat,    \* the chat being settled
  told     \* the dialogue.chat events; `noted' is whose mood has their topics

talkVars == <<atHour, rests, chat, told>>

NoChat == [stage |-> "none", pair |-> <<>>, topics |-> {}, how |-> "select", asked |-> 0]

TalkInit ==
  /\ atHour = 1 /\ rests = [p \in Talkers |-> [t \in Topics |-> 0]]
  /\ chat = NoChat /\ told = <<>>

-----------------------------------------------------------------------------
\* Mutant: only the cooldowns of whoever begins are looked at.
RestingForOne(a, b) == {t \in Topics : rests[a][t] > atHour}

\* The topics one of the two has talked about too recently (_cooled_ids).
Resting(a, b) == {t \in Topics : rests[a][t] > atHour \/ rests[b][t] > atHour}

\* The kinds that the larger of the two affinities opens; a chat always has
\* somebody who began it (eligible).
Opened(affinity) ==
  {"daily", "work", "gossip", "conflict"}
    \union (IF affinity # "low" THEN {"deep"} ELSE {})
    \union (IF affinity = "close" THEN {"secret"} ELSE {})

\* What select may return: as many as it drew, or all there are.
Draws(open) ==
  {s \in SUBSET open : \E n \in Fewest..Most : Cardinality(s) = Min({n, Cardinality(open)})}

\* When the topic was noted first: by either, whether or not it is over.
Noted(a, b, t) ==
  LET known == {rests[a][t], rests[b][t]} \ {0} IN IF known = {} THEN 0 ELSE Min(known)
RestedLongest(a, b, among) == {t \in among : \A s \in among : Noted(a, b, t) <= Noted(a, b, s)}

\* A sore point was touched: a conflict topic that is not resting, otherwise
\* the one noted first (forced_conflict_topic).
Forced(a, b) ==
  LET open == Of("conflict") \ Resting(a, b)
  IN IF open # {} THEN open ELSE RestedLongest(a, b, Of("conflict"))

\* dialogue.chat events of the day of this tick (_chats_today).
ChatsToday == {i \in DOMAIN told : told[i].at \div ChatDay = atHour \div ChatDay}

-----------------------------------------------------------------------------
\* settle_chat under the day's cap: select, or the fallback when nothing is
\* open.  Above the cap the initiator only remembers that it was enough.
Begin(a, b) ==
  /\ chat.stage = "none" /\ a # b /\ Len(told) < MaxTalks
  /\ \E cap \in Caps : Cardinality(ChatsToday) < cap
  /\ \E affinity \in {"low", "warm", "close"} :
       LET open == {t \in Topics \ Resting(a, b) : Themes[t] \in Opened(affinity)}
       IN \E s \in IF open # {} THEN Draws(open)
                   ELSE {{t} : t \in RestedLongest(a, b, Of("daily"))} :
            chat' = [stage |-> "ask", pair |-> <<a, b>>, topics |-> s,
                     how |-> IF open # {} THEN "select" ELSE "fallback", asked |-> 0]
  /\ UNCHANGED <<atHour, rests, told>>

\* The model's dialogue: a wrong opening or a word the speaker avoids is asked
\* for once more; the second answer is taken as it is.
Generate ==
  /\ chat.stage = "ask"
  /\ \/ chat.asked = 0 /\ chat' = [chat EXCEPT !.asked = 1]
     \/ chat' = [chat EXCEPT !.stage = "heard"]
  /\ UNCHANGED <<atHour, rests, told>>

\* A line touches a sore point: the topics give way to one conflict and the
\* dialogue is generated anew.
Touched ==
  /\ chat.stage = "heard" /\ chat.how # "forced"
  /\ \E t \in Forced(chat.pair[1], chat.pair[2]) :
       chat' = [chat EXCEPT !.topics = {t}, !.how = "forced"]
  /\ UNCHANGED <<atHour, rests, told>>

\* The event is inserted; relations, needs and memories follow.
Say ==
  /\ chat.stage = "heard"
  /\ told' = Append(told, [at |-> atHour, pair |-> ToSet(chat.pair), topics |-> chat.topics,
                           how |-> chat.how, noted |-> {}])
  /\ chat' = [chat EXCEPT !.stage = "said"]
  /\ UNCHANGED <<atHour, rests>>

\* mark_used, one participant after the other.
MarkUsed ==
  /\ chat.stage \in {"said", "half"}
  /\ LET p == chat.pair[IF chat.stage = "said" THEN 1 ELSE 2]
     IN /\ rests' = [rests EXCEPT ![p] = [t \in Topics |->
                       IF t \in chat.topics THEN atHour + RestHours ELSE @[t]]]
        /\ told' = [told EXCEPT ![Len(told)].noted = @ \union {p}]
  /\ chat' = IF chat.stage = "said" THEN [chat EXCEPT !.stage = "half"] ELSE NoChat
  /\ UNCHANGED atHour

\* Providers exhausted, a failing statement, or the end of the process: what
\* has been written stays.
CutOff ==
  /\ chat.stage # "none" /\ chat' = NoChat
  /\ UNCHANGED <<atHour, rests, told>>

HourPasses ==
  /\ chat.stage = "none" /\ atHour < LastChatHour /\ atHour' = atHour + 1
  /\ UNCHANGED <<rests, chat, told>>

TalkNext ==
  \/ \E a, b \in Talkers : Begin(a, b)
  \/ Generate \/ Touched \/ Say \/ MarkUsed \/ CutOff \/ HourPasses

TalkSpec == TalkInit /\ [][TalkNext]_talkVars

-----------------------------------------------------------------------------
TalkTypeOK ==
  /\ atHour \in 1..LastChatHour
  /\ rests \in [Talkers -> [Topics -> 0..(LastChatHour + RestHours)]]
  /\ chat.stage \in {"none", "ask", "heard", "said", "half"}
  /\ chat.how \in {"select", "fallback", "forced"} /\ chat.topics \subseteq Topics
  /\ chat.asked \in 0..1
  /\ Len(told) <= MaxTalks

\* A topic that was chosen freely is one that neither of the two has talked
\* about in the last 72 hours, whoever they talked to then and however the
\* chats in between were chosen or broken off (topics.py, select and
\* mark_used).  The fallback and a forced conflict set the rest aside.
TopicsRest ==
  \A i, j \in DOMAIN told :
    (/\ i < j /\ told[j].how = "select"
     /\ told[i].noted \intersect told[j].pair # {}
     /\ told[i].topics \intersect told[j].topics # {})
    => told[j].at - told[i].at >= RestHours

=============================================================================
