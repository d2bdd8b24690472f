----------------------------- MODULE Relations -----------------------------
(***************************************************************************)
(* What a settled action does to people: the cached needs and relation       *)
(* edges, the per-tick aggregator that records every change and flushes it   *)
(* into the event log (adjudicator/state_events.py), and the cooldown table  *)
(* (relations/cooldown.py).  The handlers of adjudicator/validators.py and   *)
(* dialogue.settle_chat are the lists of statements they execute; each       *)
(* statement commits by itself.  Money is in Economy.                        *)
(*                                                                           *)
(* One need and one relation value stand for the six needs and for affinity, *)
(* tension and labels.  Hours are counted in steps of the cooldown table.    *)
(***************************************************************************)
EXTENDS Integers, SequencesExt

CONSTANTS
  People,
  Top,        \* needs are in 0..Top, relations in -Top..Top
  Hold,       \* hours per trigger kind (relations.yaml, cooldown_hours)
  ChatCap,    \* dialogues a day (dialogue_daily_cap)
  MaxSettled, \* bound: settled actions
  MaxMishaps  \* bound: exceptions and crashes

Triggers == {"invite_refused", "invite_stood_up", "chat_perfunctory", "argue_reapproach",
             "gossip_same_target", "confess_rejected", "borrow_refused", "apologize_refused",
             "give_gift_same_target"}
Cooled == {"chat", "invite", "argue", "gossip", "confess", "borrow", "apologize", "gift"}

ASSUME RelAssumption ==
  /\ Top \in Nat \ {0} /\ Hold \in [Triggers -> Nat \ {0}]
  /\ {ChatCap, MaxSettled, MaxMishaps} \subseteq Nat

VARIABLES
  need, edge,         \* agents.needs and relations, the cached columns
  needBuf, edgeBuf,   \* the aggregator's buffers
  needLog, edgeLog,   \* what the events in the log add up to
  flushing,           \* "no", "needs": the needs event is to be written, "edges": the relations event
  until,              \* intent_cooldown: hours left per agent, action and target
  owing, latest,      \* hours for which 01 section 3.4 still rules an action out: by any
                      \* outcome so far, and by the latest one
  script,             \* statements left of the action being settled
  chats,              \* dialogue.chat events of the day
  settled, mishaps

cache   == <<need, edge>>
buffers == <<needBuf, edgeBuf>>
log     == <<needLog, edgeLog>>
hours   == <<owing, latest>>
counts  == <<settled, mishaps>>
relVars == <<cache, buffers, log, flushing, until, hours, script, chats, counts>>

Pairs == {p \in People \X People : p[1] # p[2]}
Keys == People \X Cooled \X People

\* Mutant: nothing stops a relation from going below its lower end.
WithinAbove(v, lo) == IF v > Top THEN Top ELSE v

Within(v, lo) == IF v > Top THEN Top ELSE IF v < lo THEN lo ELSE v

\* The actions a trigger cools down, in the order of their rows (TRIGGER_MAP).
TriggerMap(kind) ==
  CASE kind \in {"invite_refused", "invite_stood_up"} -> <<"invite">>
    [] kind = "chat_perfunctory" -> <<"chat">>
    [] kind = "argue_reapproach" -> <<"chat", "invite", "argue", "gossip">>
    [] kind = "gossip_same_target" -> <<"gossip">>
    [] kind = "confess_rejected" -> <<"confess">>
    [] kind = "borrow_refused" -> <<"borrow">>
    [] kind = "apologize_refused" -> <<"apologize">>

\* What the table of 01 section 3.4 rules out after an action with outcome
\* `kind'; gossip is left aside, whose "same target" the table does not define.
RuledOut(kind) ==
  CASE kind = "argue_reapproach" -> {"chat", "invite", "argue", "gossip"}
    [] kind \in {"invite_refused", "invite_stood_up"} -> {"invite"}
    [] kind = "chat_perfunctory" -> {"chat"}
    [] kind = "confess_rejected" -> {"confess"}
    [] kind = "borrow_refused" -> {"borrow"}
    [] kind = "apologize_refused" -> {"apologize"}
    [] kind = "give_gift_same_target" -> {"gift"}
    [] OTHER -> {}

\* The statements a handler is made of.
Event(a, act, b, kind) == <<[op |-> "event", who |-> a, act |-> act, to |-> b, kind |-> kind]>>
Need(a, d)    == <<[op |-> "need", who |-> a, by |-> d]>>
Edge(a, b, d) == <<[op |-> "edge", who |-> a, to |-> b, by |-> d]>>
Both(a, b, d) == Edge(a, b, d) \o Edge(b, a, d)
Cool(a, b, kind) ==
  [i \in DOMAIN TriggerMap(kind) |->
     [op |-> "cool", who |-> a, act |-> TriggerMap(kind)[i], to |-> b, kind |-> kind]]

Idle == script = <<>> /\ flushing = "no"

\* The seed gives people feelings for each other; the log starts from them.
RelInit ==
  /\ need = [a \in People |-> Top] /\ edge \in [Pairs -> -Top..Top]
  /\ needLog = need /\ edgeLog = edge
  /\ needBuf = <<>> /\ edgeBuf = <<>> /\ flushing = "no"
  /\ until = [k \in Keys |-> 0] /\ owing = until /\ latest = until
  /\ script = <<>> /\ chats = 0 /\ settled = 0 /\ mishaps = 0

-----------------------------------------------------------------------------
(* The handlers.  check has passed, in particular the cooldown of the key    *)
(* (action, target); the handler's event is inserted and its other           *)
(* statements follow one by one.  `kind' is the row of 01 section 3.4 that   *)
(* the outcome falls under, if any.                                          *)

\* What an action asks of the two: tension or a low mood, close feelings, some
\* liking by the lender, somebody in need.  Places, hours and money are left
\* to Adjudication and Economy.
Fits(a, act, b) ==
  CASE act = "argue"     -> edge[<<a, b>>] < 0 \/ need[a] = 0
    [] act = "apologize" -> edge[<<a, b>>] < 0
    [] act = "confess"   -> edge[<<a, b>>] = Top
    [] act = "borrow"    -> edge[<<b, a>>] > 0
    [] act = "help"      -> need[b] < Top
    [] OTHER             -> TRUE

Settles(a, act, b, kind, statements) ==
  /\ Idle /\ settled < MaxSettled /\ settled' = settled + 1
  /\ Fits(a, act, b)
  /\ act \in Cooled => until[<<a, act, b>>] = 0
  /\ script' = Event(a, act, b, kind) \o statements
  /\ UNCHANGED <<cache, buffers, log, flushing, until, hours, chats, mishaps>>

\* RelationEngine.settle_chat: enjoyable and flat chats move both edges (from the
\* third of a day by half, which is left out), perfunctory ones neither.
Moves(a, b, bored) == IF bored THEN <<>> ELSE Both(a, b, 1)

\* settle_chat of the dialogue: perfunctory ones cool down.
Chat(a, b, bored) ==
  /\ chats < ChatCap
  /\ Settles(a, "chat", b, IF bored THEN "chat_perfunctory" ELSE "none",
       Moves(a, b, bored) \o (IF bored THEN Cool(a, b, "chat_perfunctory") ELSE <<>>)
         \o Need(a, 1) \o Need(b, 1))

Argue(a, b) ==
  Settles(a, "argue", b, "argue_reapproach", Both(a, b, -1) \o Cool(a, b, "argue_reapproach"))

\* The cooldown is written for the person spoken about; check looks at the
\* listener.
Gossip(a, b, about) ==
  Settles(a, "gossip", b, "gossip_same_target",
    Edge(b, a, 1) \o Cool(a, about, "gossip_same_target"))

Confess(a, b) == Settles(a, "confess", b, "none", Both(a, b, 2))
Rejected(a, b) ==
  Settles(a, "confess", b, "confess_rejected", Edge(a, b, -1) \o Cool(a, b, "confess_rejected"))

Apologize(a, b) == Settles(a, "apologize", b, "none", Edge(a, b, 1))
Unforgiven(a, b) ==
  Settles(a, "apologize", b, "apologize_refused", Edge(a, b, -1) \o Cool(a, b, "apologize_refused"))

\* borrow_money turned down; an accepted loan is in Economy.
BorrowRefused(a, b) ==
  Settles(a, "borrow", b, "borrow_refused", Edge(a, b, -1) \o Cool(a, b, "borrow_refused"))

\* give_gift writes no cooldown.
Gift(a, b) == Settles(a, "gift", b, "give_gift_same_target", Both(a, b, 1) \o Need(a, -1))

\* check has passed and InviteMachine.send delivers; the answer comes later.
Ask(a, b) == Settles(a, "invite", b, "none", <<>>)
\* InviteMachine.respond, refused, and due_stood_ups: b refuses a, b lets a down.
Turned(a, b) ==
  Settles(a, "turned", b, "invite_refused", Edge(a, b, -1) \o Cool(a, b, "invite_refused"))
LetDown(a, b) ==
  Settles(a, "let_down", b, "invite_stood_up",
    Edge(a, b, -2) \o Need(a, -1) \o Cool(a, b, "invite_stood_up"))

Message(a, b) == Settles(a, "message", b, "none", Both(a, b, 1) \o Need(a, 1))
Help(a, b)    == Settles(a, "help", b, "none", Edge(b, a, 2) \o Need(a, 1))
Refuse(a, b)  == Settles(a, "refuse", b, "none", Edge(b, a, -1))
Repaid(a, b)  == Settles(a, "repay", b, "none", Edge(b, a, 2))
\* think, rest, work, eat, shop: one need of one's own.
Alone(a, d)   == Settles(a, "alone", a, "none", Need(a, d))

-----------------------------------------------------------------------------
(* The statements.                                                           *)

S == Head(script)
Runs(op) == flushing = "no" /\ script # <<>> /\ S.op = op /\ script' = Tail(script)

\* Mutant: a change that the clamp cuts short is not recorded.
RecordedWhole(buf, change, asked) == IF change.by = asked THEN Append(buf, change) ELSE buf

\* Only the part of a change that the clamp leaves is recorded, if any.
Recorded(buf, change, asked) == IF change.by = 0 THEN buf ELSE Append(buf, change)

DoEvent ==
  /\ Runs("event")
  /\ chats' = IF S.act = "chat" THEN chats + 1 ELSE chats
  /\ LET hit == {k \in Keys : k[1] = S.who /\ k[3] = S.to /\ k[2] \in RuledOut(S.kind)}
     IN /\ latest' = [k \in Keys |-> IF k \in hit THEN Hold[S.kind] ELSE latest[k]]
        /\ owing' = [k \in Keys |-> IF k \in hit THEN Max({owing[k], Hold[S.kind]}) ELSE owing[k]]
  /\ UNCHANGED <<cache, buffers, log, flushing, until, counts>>

DoNeed ==
  /\ Runs("need")
  /\ LET new == Within(need[S.who] + S.by, 0)
     IN /\ need' = [need EXCEPT ![S.who] = new]
        /\ needBuf' = Recorded(needBuf, [key |-> S.who, by |-> new - need[S.who]], S.by)
  /\ UNCHANGED <<edge, edgeBuf, log, flushing, until, hours, chats, counts>>

DoEdge ==
  /\ Runs("edge")
  /\ LET pair == <<S.who, S.to>>
         new  == Within(edge[pair] + S.by, -Top)
     IN /\ edge' = [edge EXCEPT ![pair] = new]
        /\ edgeBuf' = Recorded(edgeBuf, [key |-> pair, by |-> new - edge[pair]], S.by)
  /\ UNCHANGED <<need, needBuf, log, flushing, until, hours, chats, counts>>

DoCool ==
  /\ Runs("cool")
  /\ until' = [until EXCEPT ![<<S.who, S.act, S.to>>] = Hold[S.kind]]
  /\ UNCHANGED <<cache, buffers, log, flushing, hours, chats, counts>>

-----------------------------------------------------------------------------
(* The end of a tick, and time.                                              *)

\* rebuild_needs and rebuild_relation: the changes of an event, in order.
Replay(f, changes, lo) ==
  FoldLeft(LAMBDA g, c : [g EXCEPT ![c.key] = Within(@ + c.by, lo)], f, changes)

\* after_tick: needs decay, recover at meals and in sleep, then the flush.
Decay ==
  /\ Idle /\ settled < MaxSettled /\ settled' = settled + 1
  /\ \E a \in People, d \in {-1, 1} : script' = Need(a, d)
  /\ UNCHANGED <<cache, buffers, log, flushing, until, hours, chats, mishaps>>

Flush ==
  /\ Idle /\ (needBuf # <<>> \/ edgeBuf # <<>>) /\ flushing' = "needs"
  /\ UNCHANGED <<cache, buffers, log, until, hours, script, chats, counts>>

FlushNeeds ==
  /\ flushing = "needs" /\ flushing' = "edges"
  /\ needLog' = Replay(needLog, needBuf, 0)
  /\ UNCHANGED <<cache, buffers, edgeLog, until, hours, script, chats, counts>>

\* The buffers are cleared after the second event only.
FlushEdges ==
  /\ flushing = "edges" /\ flushing' = "no"
  /\ edgeLog' = Replay(edgeLog, edgeBuf, -Top)
  /\ needBuf' = <<>> /\ edgeBuf' = <<>>
  /\ UNCHANGED <<cache, needLog, until, hours, script, chats, counts>>

Later(f) == [k \in Keys |-> IF f[k] > 0 THEN f[k] - 1 ELSE 0]

Hour ==
  /\ Idle /\ \E k \in Keys : until[k] > 0 \/ owing[k] > 0
  /\ until' = Later(until) /\ owing' = Later(owing) /\ latest' = Later(latest)
  /\ chats' \in {chats, 0}
  /\ UNCHANGED <<cache, buffers, log, flushing, script, counts>>

\* weekly_regression: every edge moves towards zero.
Week ==
  /\ Idle /\ settled < MaxSettled /\ settled' = settled + 1
  /\ \E p \in Pairs : edge[p] # 0 /\ script' = Edge(p[1], p[2], IF edge[p] > 0 THEN -1 ELSE 1)
  /\ UNCHANGED <<cache, buffers, log, flushing, until, hours, chats, mishaps>>

\* A statement fails: the rest of the action, or of the flush, is dropped.
Mishap ==
  /\ ~Idle /\ mishaps < MaxMishaps /\ mishaps' = mishaps + 1
  /\ script' = <<>> /\ flushing' = "no"
  /\ UNCHANGED <<cache, buffers, log, until, hours, chats, settled>>

\* The process ends: the aggregator's buffers go with it.
Crash ==
  /\ mishaps < MaxMishaps /\ mishaps' = mishaps + 1
  /\ script' = <<>> /\ flushing' = "no" /\ needBuf' = <<>> /\ edgeBuf' = <<>>
  /\ UNCHANGED <<cache, log, until, hours, chats, settled>>

-----------------------------------------------------------------------------
Actions ==
  \E a \in People :
    \/ \E d \in {-1, 1} : Alone(a, d)
    \/ \E b \in People \ {a} :
         \/ \E bored \in BOOLEAN : Chat(a, b, bored)
         \/ Argue(a, b) \/ Confess(a, b) \/ Rejected(a, b) \/ Apologize(a, b) \/ Unforgiven(a, b)
         \/ BorrowRefused(a, b) \/ Gift(a, b) \/ Message(a, b) \/ Help(a, b) \/ Refuse(a, b)
         \/ Repaid(a, b) \/ Ask(a, b) \/ Turned(a, b) \/ LetDown(a, b)
         \/ \E about \in People : Gossip(a, b, about)

Statements == DoEvent \/ DoNeed \/ DoEdge \/ DoCool

RelNext ==
  Actions \/ Statements \/ Decay \/ Flush \/ FlushNeeds \/ FlushEdges \/ Hour \/ Week
    \/ Mishap \/ Crash

RelSpec == RelInit /\ [][RelNext]_relVars

-----------------------------------------------------------------------------
RelTypeOK ==
  /\ need \in [People -> 0..Top] /\ needLog \in [People -> 0..Top]
  /\ edge \in [Pairs -> -Top..Top] /\ edgeLog \in [Pairs -> -Top..Top]
  /\ flushing \in {"no", "needs", "edges"} /\ chats \in 0..ChatCap
  /\ {until, owing, latest} \subseteq [Keys -> Nat]

\* The cached columns are what the log and the changes still buffered rebuild
\* (state_events.rebuild_needs, rebuild_relation), as long as no statement has
\* failed and no process has ended with changes buffered.
CacheIsReplay ==
  mishaps = 0 =>
    /\ need = IF flushing = "edges" THEN needLog ELSE Replay(needLog, needBuf, 0)
    /\ edge = Replay(edgeLog, edgeBuf, -Top)

Begins(acts) == Runs("event") /\ S.act \in acts

\* An action is not begun towards somebody for as long as the latest outcome
\* that rules it out says (01 section 3.4), gifts apart, unless a failed
\* statement kept the cooldown from being written.
LatestCooldownHolds ==
  [][mishaps = 0 /\ Begins(Cooled \ {"gift"}) => latest[<<S.who, S.act, S.to>>] = 0]_relVars

\* An action is not begun towards somebody while any outcome in the table of
\* 01 section 3.4 still rules it out: an invitation refused is not repeated
\* for 24 hours, and nobody who stood one up is invited for 48.
CooldownsHold == [][Begins({"invite"}) => owing[<<S.who, S.act, S.to>>] = 0]_relVars
=============================================================================
