----------------------------- MODULE TownProofs -----------------------------
(*****************************************************************************)
(* Proofs about the parts of the town's life: Relations, Invite, Cast and    *)
(* Talk; with OfficeProofs, about all six that MCTown puts side by side.     *)
(* None of them uses an instance's values: the constants are any that the    *)
(* parts' assumptions allow.                                                 *)
(*****************************************************************************)
EXTENDS MCTown, OfficeProofs, FiniteSetTheorems, WellFoundedInduction, SequenceTheorems,
        TLAPS

-----------------------------------------------------------------------------
(*****************************************************************************)
(* Relations: the cached columns are what the log and the buffers rebuild.   *)
(*****************************************************************************)
\* The cache once one change of the log is applied.
Applied(g, c, lo) == [g EXCEPT ![c.key] = Within(@ + c.by, lo)]

\* What a replay is by its definition: a function on subsets of the log's places.
LEMMA ReplayUnfolds ==
  ASSUME NEW f, NEW changes, NEW lo
  PROVE Replay(f, changes, lo) = 
   (CHOOSE iter : iter = [s \in SUBSET DOMAIN changes |->
      IF s = {} THEN f ELSE Applied(iter[s \ {Max(s)}], changes[Max(s)], lo)])[DOMAIN changes]
BY DEF Replay, FoldLeft, MapThenFoldSet, Applied

\* One step of that function for the first k places.
Unfolded(h, f, c, lo, k) == [s \in SUBSET (1..k) |->
      IF s = {} THEN f ELSE Applied(h[s \ {Max(s)}], c[Max(s)], lo)]

\* The last place of a prefix is its greatest.
LEMMA GreatestOf ==
  ASSUME NEW k \in Nat, NEW s \in SUBSET (1..(k + 1)), k + 1 \in s
  PROVE  Max(s) = k + 1
<1>1. \E x \in s : \A y \in s : x >= y
  OBVIOUS
<1>2. Max(s) \in s /\ \A y \in s : Max(s) >= y
  BY <1>1, Zenon DEF Max
<1>3. Max(s) \in 1..(k + 1) /\ Max(s) >= k + 1
  BY <1>2
<1> QED BY <1>3

\* The function exists, whatever the log, by induction on its length.
LEMMA UnfoldingExists ==
  ASSUME NEW f, NEW c, NEW lo, NEW k \in Nat
  PROVE  \E h : h = Unfolded(h, f, c, lo, k)
<1> DEFINE T == {n \in Nat : \E h : h = Unfolded(h, f, c, lo, n)}
<1>1. 0 \in T
  <2> DEFINE h == [s \in SUBSET (1..0) |-> f]
  <2>1. h = Unfolded(h, f, c, lo, 0)
    BY DEF Unfolded
  <2> QED BY <2>1
<1>2. ASSUME NEW n \in Nat, n \in T PROVE n + 1 \in T
  <2>1. PICK h : h = Unfolded(h, f, c, lo, n)
    BY <1>2
  <2> DEFINE g == [s \in SUBSET (1..(n + 1)) |->
                    IF n + 1 \in s THEN Applied(h[s \ {n + 1}], c[n + 1], lo) ELSE h[s]]
  <2>2. ASSUME NEW s \in SUBSET (1..(n + 1))
        PROVE  g[s] = IF s = {} THEN f ELSE Applied(g[s \ {Max(s)}], c[Max(s)], lo)
    <3>1. CASE n + 1 \in s
      <4>1. Max(s) = n + 1 /\ s # {}
        BY <3>1, GreatestOf
      <4>2. s \ {n + 1} \in SUBSET (1..(n + 1)) /\ n + 1 \notin s \ {n + 1}
        OBVIOUS
      <4>3. g[s \ {n + 1}] = h[s \ {n + 1}]
        BY <4>2
      <4>4. g[s] = Applied(h[s \ {n + 1}], c[n + 1], lo)
        BY <3>1
      <4> QED BY <4>1, <4>3, <4>4, Zenon
    <3>2. CASE n + 1 \notin s
      <4>1. s \in SUBSET (1..n)
        BY <3>2
      <4>2. g[s] = h[s] /\ h[s] = Unfolded(h, f, c, lo, n)[s]
        BY <2>1, <3>2
      <4>3. h[s] = IF s = {} THEN f ELSE Applied(h[s \ {Max(s)}], c[Max(s)], lo)
        BY <4>1, <4>2, Zenon DEF Unfolded
      <4>4. s \ {Max(s)} \in SUBSET (1..(n + 1)) /\ n + 1 \notin s \ {Max(s)}
        BY <3>2
      <4>5. g[s \ {Max(s)}] = h[s \ {Max(s)}]
        BY <4>4
      <4> QED BY <4>2, <4>3, <4>5, Zenon
    <3> QED BY <3>1, <3>2
  <2>3. g = [s \in SUBSET (1..(n + 1)) |-> g[s]]
    OBVIOUS
  <2> HIDE DEF g
  <2>4. g = Unfolded(g, f, c, lo, n + 1)
    BY <2>2, <2>3, Zenon DEF Unfolded
  <2> QED BY <2>4
<1>3. Nat \subseteq T
  <2> HIDE DEF T
  <2> QED BY <1>1, <1>2, SetInduction
<1> QED BY <1>3

\* The function is its own step.
Unfolds(h, f, c, lo, k) == h = Unfolded(h, f, c, lo, k)

\* Two functions agree on a set.
SameOn(h, g, D) == \A s \in D : h[s] = g[s]

\* Two logs that agree up to k replay their first k changes alike.
LEMMA UnfoldingsAgree ==
  ASSUME NEW f, NEW c, NEW d, NEW lo, NEW k \in Nat, NEW h, NEW g,
         Unfolds(h, f, c, lo, k), Unfolds(g, f, d, lo, k + 1), SameOn(c, d, 1..k)
  PROVE  SameOn(h, g, SUBSET (1..k))
<1> USE DEF SameOn
<1> DEFINE T == {j \in Nat : j <= k => \A s \in SUBSET (1..j) : h[s] = g[s]}
<1>0. ASSUME NEW s \in SUBSET (1..k)
      PROVE  /\ h[s] = IF s = {} THEN f ELSE Applied(h[s \ {Max(s)}], c[Max(s)], lo)
             /\ g[s] = IF s = {} THEN f ELSE Applied(g[s \ {Max(s)}], d[Max(s)], lo)
  <2>1. s \in SUBSET (1..k) /\ s \in SUBSET (1..(k + 1))
    OBVIOUS
  <2>2. h[s] = Unfolded(h, f, c, lo, k)[s] /\ g[s] = Unfolded(g, f, d, lo, k + 1)[s]
    BY Zenon DEF Unfolds
  <2> QED BY <2>1, <2>2, Zenon DEF Unfolded
<1>1. 0 \in T
  <2>1. \A s \in SUBSET (1..0) : s = {} /\ s \in SUBSET (1..k)
    OBVIOUS
  <2> QED BY <1>0, <2>1
<1>2. ASSUME NEW j \in Nat, j \in T PROVE j + 1 \in T
  <2> SUFFICES ASSUME j + 1 <= k, NEW s \in SUBSET (1..(j + 1)) PROVE h[s] = g[s]
    OBVIOUS
  <2>1. s \in SUBSET (1..k) /\ j <= k
    OBVIOUS
  <2>2. CASE j + 1 \in s
    <3>1. Max(s) = j + 1 /\ j + 1 \in 1..k
      BY <2>2, GreatestOf
    <3>2. s \ {j + 1} \in SUBSET (1..j)
      OBVIOUS
    <3>3. h[s \ {j + 1}] = g[s \ {j + 1}]
      BY <1>2, <2>1, <3>2
    <3> QED BY <1>0, <2>1, <2>2, <3>1, <3>3, ZenonT(40)
  <2>3. CASE j + 1 \notin s
    <3>1. s \in SUBSET (1..j)
      BY <2>3
    <3> QED BY <1>2, <2>1, <3>1
  <2> QED BY <2>2, <2>3
<1>3. k \in T
  <2> HIDE DEF T
  <2> QED BY <1>1, <1>2, SetInduction
<1> QED BY <1>3

\* A replay is that function's value at all places.
LEMMA ReplayHasUnfolding ==
  ASSUME NEW f, NEW lo, NEW V, NEW q \in Seq(V)
  PROVE  \E h : h = Unfolded(h, f, q, lo, Len(q)) /\ Replay(f, q, lo) = h[1..Len(q)]
<1>1. Len(q) \in Nat /\ DOMAIN q = 1..Len(q)
  OBVIOUS
<1> DEFINE h == CHOOSE iter : iter = Unfolded(iter, f, q, lo, Len(q))
<1>2. h = Unfolded(h, f, q, lo, Len(q))
  <2>1. \E iter : iter = Unfolded(iter, f, q, lo, Len(q))
    BY <1>1, UnfoldingExists
  <2> QED BY <2>1, Zenon
<1>3. Replay(f, q, lo) = h[1..Len(q)]
  BY <1>1, ReplayUnfolds, Zenon DEF Unfolded
<1> QED BY <1>2, <1>3

\* An empty log leaves what was loaded.
LEMMA ReplayEmpty == ASSUME NEW f, NEW lo PROVE Replay(f, <<>>, lo) = f
<1>1. PICK h : h = Unfolded(h, f, <<>>, lo, Len(<<>>)) /\ Replay(f, <<>>, lo) = h[1..Len(<<>>)]
  <2>1. <<>> \in Seq({})
    OBVIOUS
  <2> QED BY ZenonT(40), <2>1, ReplayHasUnfolding
<1>2. 1..Len(<<>>) = {}
  OBVIOUS
<1>3. h[{}] = Unfolded(h, f, <<>>, lo, Len(<<>>))[{}]
  BY <1>1
<1>4. Unfolded(h, f, <<>>, lo, Len(<<>>))[{}] = f
  BY DEF Unfolded
<1> QED BY <1>1, <1>2, <1>3, <1>4

\* A change more in the log is a change more in the cache: the lemma the buffers rest
\* on.
LEMMA ReplayAppend ==
  ASSUME NEW f, NEW lo, NEW V, NEW q \in Seq(V), NEW c \in V
  PROVE  Replay(f, Append(q, c), lo) = Applied(Replay(f, q, lo), c, lo)
<1> DEFINE n == Len(q)
           r == Append(q, c)
<1>1. n \in Nat /\ r \in Seq(V) /\ Len(r) = n + 1 /\ r[n + 1] = c
      /\ \A i \in 1..n : q[i] = r[i]
  OBVIOUS
<1>2. PICK h : h = Unfolded(h, f, q, lo, n) /\ Replay(f, q, lo) = h[1..n]
  BY ReplayHasUnfolding
<1>3. PICK g : g = Unfolded(g, f, r, lo, n + 1) /\ Replay(f, r, lo) = g[1..(n + 1)]
  <2> HIDE DEF r
  <2>1. \E g : g = Unfolded(g, f, r, lo, Len(r)) /\ Replay(f, r, lo) = g[1..Len(r)]
    BY <1>1, ReplayHasUnfolding
  <2> QED BY <1>1, <2>1
<1> HIDE DEF r, n
<1>4. h[1..n] = g[1..n]
  <2>1. n \in Nat /\ SameOn(q, r, 1..n)
    BY <1>1, Zenon DEF SameOn
  <2>2. Unfolds(h, f, q, lo, n) /\ Unfolds(g, f, r, lo, n + 1)
    BY <1>2, <1>3, Zenon DEF Unfolds
  <2>3. SameOn(h, g, SUBSET (1..n))
    BY <2>1, <2>2, UnfoldingsAgree, Zenon
  <2> QED BY <2>3 DEF SameOn
<1>5. /\ 1..(n + 1) \in SUBSET (1..(n + 1)) /\ n + 1 \in 1..(n + 1)
      /\ (1..(n + 1)) \ {n + 1} = 1..n
  BY <1>1
<1>6. Max(1..(n + 1)) = n + 1 /\ 1..(n + 1) # {}
  BY <1>1, <1>5, GreatestOf
<1>7. g[1..(n + 1)] = Unfolded(g, f, r, lo, n + 1)[1..(n + 1)]
  BY <1>3
<1>8. Unfolded(g, f, r, lo, n + 1)[1..(n + 1)] = Applied(g[1..n], r[n + 1], lo)
  BY <1>5, <1>6, Zenon DEF Unfolded
<1> QED BY <1>1, <1>2, <1>3, <1>4, <1>7, <1>8 DEF r

LEMMA ReplayStays ==
  ASSUME NEW lo, NEW V, NEW R, NEW f \in R, NEW q \in Seq(V),
         \A g \in R, c \in V : Applied(g, c, lo) \in R
  PROVE  Replay(f, q, lo) \in R
<1> DEFINE T == {n \in Nat : \A p \in Seq(V) : Len(p) = n => Replay(f, p, lo) \in R}
<1>1. 0 \in T
  <2>1. \A p \in Seq(V) : Len(p) = 0 => p = <<>>
    OBVIOUS
  <2> QED BY <2>1, ReplayEmpty
<1>2. ASSUME NEW n \in Nat, n \in T PROVE n + 1 \in T
  <2> SUFFICES ASSUME NEW p \in Seq(V), Len(p) = n + 1 PROVE Replay(f, p, lo) \in R
    OBVIOUS
  <2> DEFINE front == SubSeq(p, 1, n)
             last  == p[n + 1]
  <2>1. front \in Seq(V) /\ Len(front) = n /\ last \in V /\ p = Append(front, last)
    OBVIOUS
  <2> HIDE DEF front, last
  <2>2. Replay(f, front, lo) \in R
    BY <1>2, <2>1
  <2>3. Replay(f, p, lo) = Applied(Replay(f, front, lo), last, lo)
    BY <2>1, ReplayAppend
  <2> QED BY <2>1, <2>2, <2>3
<1>3. Nat \subseteq T
  <2> HIDE DEF T
  <2> QED BY <1>1, <1>2, SetInduction
<1>4. Len(q) \in Nat
  OBVIOUS
<1> QED BY <1>3, <1>4

Deeds == Cooled \cup {"turned", "let_down", "message", "help", "refuse", "repay", "alone"}

\* The first statement of what people do, and the statements that follow it.
Happenings == [op : {"event"}, who : People, act : Deeds, to : People, kind : Triggers \cup {"none"}]

ScriptEffects == [op : {"need"}, who : People, by : Int]
             \cup {e \in [op : {"edge"}, who : People, to : People, by : Int] : e.who # e.to}
             \cup [op : {"cool"}, who : People, act : Deeds, to : People, kind : Triggers]

\* The changes that wait in the two buffers to be written.
NeedChanges == [key : People, by : Int]

\* The changes of relations that wait.
EdgeChanges == [key : Pairs, by : Int]

\* The event comes first, and only if the chats of the day are not used up; a flush
\* waits for no statement.
ScriptInv ==
  /\ \/ script \in Seq(ScriptEffects)
     \/ \E e \in Happenings, rest \in Seq(ScriptEffects) :
          script = <<e>> \o rest /\ (e.act = "chat" => chats < ChatCap)
  /\ flushing # "no" => script = <<>>

\* The cache is what the stored rows and the buffered changes make of it.
BufferInv ==
  /\ needBuf \in Seq(NeedChanges) /\ edgeBuf \in Seq(EdgeChanges)
  /\ mishaps \in Nat /\ settled \in Nat
  /\ CacheIsReplay

\* The inductive invariant of the relations and needs.
RelInv == RelTypeOK /\ ScriptInv /\ BufferInv

\* Clamping yields a value in range.
LEMMA WithinRange ==
  ASSUME NEW v \in Int, NEW lo \in Int, lo <= Top PROVE Within(v, lo) \in lo..Top
BY RelAssumption DEF Within

\* Replaying the changes of needs stays within their range.
LEMMA NeedReplayType ==
  ASSUME NEW f \in [People -> 0..Top], NEW q \in Seq(NeedChanges)
  PROVE  Replay(f, q, 0) \in [People -> 0..Top]
<1>1. ASSUME NEW g \in [People -> 0..Top], NEW c \in NeedChanges
      PROVE  Applied(g, c, 0) \in [People -> 0..Top]
  <2>1. g[c.key] + c.by \in Int
    BY RelAssumption DEF NeedChanges
  <2>2. Within(g[c.key] + c.by, 0) \in 0..Top
    BY <2>1, WithinRange, RelAssumption
  <2> QED BY <2>2 DEF Applied
<1> QED BY <1>1, ReplayStays

\* Replaying the changes of relations stays within their range.
LEMMA EdgeReplayType ==
  ASSUME NEW f \in [Pairs -> -Top..Top], NEW q \in Seq(EdgeChanges)
  PROVE  Replay(f, q, -Top) \in [Pairs -> -Top..Top]
<1>1. ASSUME NEW g \in [Pairs -> -Top..Top], NEW c \in EdgeChanges
      PROVE  Applied(g, c, -Top) \in [Pairs -> -Top..Top]
  <2>1. g[c.key] + c.by \in Int
    BY RelAssumption DEF EdgeChanges
  <2>2. -Top \in Int /\ -Top <= Top
    BY RelAssumption
  <2>3. Within(g[c.key] + c.by, -Top) \in -Top..Top
    BY <2>1, <2>2, WithinRange
  <2> QED BY <2>3 DEF Applied
<1> QED BY <1>1, ReplayStays

\* The statements an act makes are statements.
LEMMA NeedIsEffect == ASSUME NEW a \in People, NEW d \in Int PROVE Need(a, d) \in Seq(ScriptEffects)
BY DEF Need, ScriptEffects

\* The same for one side of a relation.
LEMMA EdgeIsEffect ==
  ASSUME NEW a \in People, NEW b \in People, a # b, NEW d \in Int PROVE Edge(a, b, d) \in Seq(ScriptEffects)
BY DEF Edge, ScriptEffects

\* The same for both sides.
LEMMA BothAreEffects ==
  ASSUME NEW a \in People, NEW b \in People, a # b, NEW d \in Int PROVE Both(a, b, d) \in Seq(ScriptEffects)
BY EdgeIsEffect, ConcatProperties DEF Both

\* The same for a cooldown.
LEMMA CoolIsEffect ==
  ASSUME NEW a \in People, NEW b \in People, NEW kind \in Triggers, kind # "give_gift_same_target"
  PROVE  Cool(a, b, kind) \in Seq(ScriptEffects)
<1>1. TriggerMap(kind) \in Seq(Deeds)
  <2>1. CASE kind = "invite_refused"
    <3>1. TriggerMap(kind) = <<"invite">>
      BY <2>1 DEF TriggerMap
    <3> QED BY <3>1 DEF Deeds, Cooled
  <2>2. CASE kind = "invite_stood_up"
    <3>1. TriggerMap(kind) = <<"invite">>
      BY <2>2 DEF TriggerMap
    <3> QED BY <3>1 DEF Deeds, Cooled
  <2>3. CASE kind = "chat_perfunctory"
    <3>1. TriggerMap(kind) = <<"chat">>
      BY <2>3 DEF TriggerMap
    <3> QED BY <3>1 DEF Deeds, Cooled
  <2>4. CASE kind = "argue_reapproach"
    <3>1. TriggerMap(kind) = <<"chat", "invite", "argue", "gossip">>
      BY <2>4 DEF TriggerMap
    <3> QED BY <3>1 DEF Deeds, Cooled
  <2>5. CASE kind = "gossip_same_target"
    <3>1. TriggerMap(kind) = <<"gossip">>
      BY <2>5 DEF TriggerMap
    <3> QED BY <3>1 DEF Deeds, Cooled
  <2>6. CASE kind = "confess_rejected"
    <3>1. TriggerMap(kind) = <<"confess">>
      BY <2>6 DEF TriggerMap
    <3> QED BY <3>1 DEF Deeds, Cooled
  <2>7. CASE kind = "borrow_refused"
    <3>1. TriggerMap(kind) = <<"borrow">>
      BY <2>7 DEF TriggerMap
    <3> QED BY <3>1 DEF Deeds, Cooled
  <2>8. CASE kind = "apologize_refused"
    <3>1. TriggerMap(kind) = <<"apologize">>
      BY <2>8 DEF TriggerMap
    <3> QED BY <3>1 DEF Deeds, Cooled
  <2> QED BY <2>1, <2>2, <2>3, <2>4, <2>5, <2>6, <2>7, <2>8 DEF Triggers
<1>2. ASSUME NEW i \in 1..Len(TriggerMap(kind))
      PROVE  [op |-> "cool", who |-> a, act |-> TriggerMap(kind)[i], to |-> b, kind |-> kind] \in ScriptEffects
  <2>1. TriggerMap(kind)[i] \in Deeds
    BY <1>1
  <2> QED BY <2>1 DEF ScriptEffects
<1>3. DOMAIN TriggerMap(kind) = 1..Len(TriggerMap(kind)) /\ Len(TriggerMap(kind)) \in Nat
  BY <1>1
<1> QED BY <1>2, <1>3 DEF Cool

LEMMA SettlesKeeps ==
  ASSUME RelInv, NEW a \in People, NEW act \in Deeds, NEW b \in People,
         NEW kind \in Triggers \cup {"none"}, NEW statements \in Seq(ScriptEffects),
         act = "chat" => chats < ChatCap, Settles(a, act, b, kind, statements)
  PROVE  RelInv'
<1> USE DEF RelInv
<1>1. UNCHANGED <<cache, buffers, log, flushing, until, hours, chats, mishaps>>
  BY DEF Settles
<1>2. RelTypeOK'
  BY <1>1 DEF RelTypeOK, cache, log, hours
<1>3. ScriptInv'
  <2>1. flushing = "no" /\ flushing' = "no"
    BY <1>1 DEF Settles, Idle
  <2>2. PICK e : e = [op |-> "event", who |-> a, act |-> act, to |-> b, kind |-> kind]
    OBVIOUS
  <2>3. e \in Happenings /\ (e.act = "chat" => chats' < ChatCap)
    BY <2>2, <1>1 DEF Happenings
  <2>4. script' = <<e>> \o statements
    BY <2>2 DEF Settles, Event
  <2> QED BY <2>1, <2>3, <2>4 DEF ScriptInv
<1>4. BufferInv'
  <2>1. settled' \in Nat
    BY DEF Settles, BufferInv
  <2>2. CacheIsReplay'
    BY <1>1 DEF BufferInv, CacheIsReplay, cache, log, buffers
  <2> QED BY <1>1, <2>1, <2>2 DEF BufferInv, buffers
<1> QED BY <1>2, <1>3, <1>4

\* An act of one person or two writes its script, and changes nothing else.
LEMMA ActionsKeep ==
  ASSUME RelInv, Actions PROVE RelInv'
<1>1. PICK a \in People :
    \/ \E d \in {-1, 1} : Alone(a, d)
    \/ \E b \in People \ {a} :
         \/ \E bored \in BOOLEAN : Chat(a, b, bored)
         \/ Argue(a, b) \/ Confess(a, b) \/ Rejected(a, b) \/ Apologize(a, b) \/ Unforgiven(a, b)
         \/ BorrowRefused(a, b) \/ Gift(a, b) \/ Message(a, b) \/ Help(a, b) \/ Refuse(a, b)
         \/ Repaid(a, b) \/ Ask(a, b) \/ Turned(a, b) \/ LetDown(a, b)
         \/ \E about \in People : Gossip(a, b, about)
  BY Zenon DEF Actions
<1>2. CASE \E d \in {-1, 1} : Alone(a, d)
  <2>1. PICK d \in {-1, 1} : Alone(a, d)
    BY <1>2
  <2>2. Need(a, d) \in Seq(ScriptEffects)
    BY NeedIsEffect
  <2>3. Settles(a, "alone", a, "none", Need(a, d))
    BY <2>1, Zenon DEF Alone
  <2> QED BY <2>2, <2>3, SettlesKeeps DEF Deeds
<1>3. ASSUME NEW b \in People \ {a},
         \/ \E bored \in BOOLEAN : Chat(a, b, bored)
         \/ Argue(a, b) \/ Confess(a, b) \/ Rejected(a, b) \/ Apologize(a, b) \/ Unforgiven(a, b)
         \/ BorrowRefused(a, b) \/ Gift(a, b) \/ Message(a, b) \/ Help(a, b) \/ Refuse(a, b)
         \/ Repaid(a, b) \/ Ask(a, b) \/ Turned(a, b) \/ LetDown(a, b)
         \/ \E about \in People : Gossip(a, b, about)
      PROVE  RelInv'
  <2>1. \A d \in Int : /\ Need(a, d) \in Seq(ScriptEffects) /\ Need(b, d) \in Seq(ScriptEffects)
                       /\ Edge(a, b, d) \in Seq(ScriptEffects) /\ Edge(b, a, d) \in Seq(ScriptEffects)
                       /\ Both(a, b, d) \in Seq(ScriptEffects)
    BY NeedIsEffect, EdgeIsEffect, BothAreEffects
  <2>2. \A kind \in Triggers \ {"give_gift_same_target"}, c \in People :
          Cool(a, c, kind) \in Seq(ScriptEffects)
    BY CoolIsEffect
  <2>3. \A p, q \in Seq(ScriptEffects) : p \o q \in Seq(ScriptEffects)
    BY ConcatProperties
  <2>4. b \in People /\ <<>> \in Seq(ScriptEffects)
    OBVIOUS
  <2>5. CASE \E bored \in BOOLEAN : Chat(a, b, bored)
    <3>1. PICK bored \in BOOLEAN : Chat(a, b, bored)
      BY <2>5
    <3> DEFINE kind == IF bored THEN "chat_perfunctory" ELSE "none"
               statements == Moves(a, b, bored)
                 \o (IF bored THEN Cool(a, b, "chat_perfunctory") ELSE <<>>)
                 \o Need(a, 1) \o Need(b, 1)
    <3>2. kind \in Triggers \cup {"none"}
      BY DEF Triggers
    <3>3. Moves(a, b, bored) \in Seq(ScriptEffects)
          /\ (IF bored THEN Cool(a, b, "chat_perfunctory") ELSE <<>>) \in Seq(ScriptEffects)
      BY <2>1, <2>2, <2>4 DEF Moves, Triggers
    <3>4. statements \in Seq(ScriptEffects)
      BY <2>1, <2>3, <3>3
    <3>5. chats < ChatCap /\ Settles(a, "chat", b, kind, statements)
      BY <3>1, Zenon DEF Chat
    <3> HIDE DEF kind, statements
    <3> QED BY <2>4, <3>2, <3>4, <3>5, SettlesKeeps DEF Deeds, Cooled
  <2>6. CASE Argue(a, b)
    <3>1. Settles(a, "argue", b, "argue_reapproach", Both(a, b, -1) \o Cool(a, b, "argue_reapproach"))
      BY <2>6, Zenon DEF Argue
    <3>2. Both(a, b, -1) \o Cool(a, b, "argue_reapproach") \in Seq(ScriptEffects)
      BY <2>1, <2>2, <2>3 DEF Triggers
    <3>3. "argue" \in Deeds /\ "argue" # "chat" /\ "argue_reapproach" \in Triggers \cup {"none"}
      BY DEF Deeds, Cooled, Triggers
    <3> QED BY <2>4, <3>1, <3>2, <3>3, SettlesKeeps, Zenon
  <2>7. CASE Confess(a, b)
    <3>1. Settles(a, "confess", b, "none", Both(a, b, 2))
      BY <2>7, Zenon DEF Confess
    <3>2. Both(a, b, 2) \in Seq(ScriptEffects)
      BY <2>1, <2>3
    <3>3. "confess" \in Deeds /\ "confess" # "chat" /\ "none" \in Triggers \cup {"none"}
      BY DEF Deeds, Cooled, Triggers
    <3> QED BY <2>4, <3>1, <3>2, <3>3, SettlesKeeps, Zenon
  <2>8. CASE Rejected(a, b)
    <3>1. Settles(a, "confess", b, "confess_rejected", Edge(a, b, -1) \o Cool(a, b, "confess_rejected"))
      BY <2>8, Zenon DEF Rejected
    <3>2. Edge(a, b, -1) \o Cool(a, b, "confess_rejected") \in Seq(ScriptEffects)
      BY <2>1, <2>2, <2>3 DEF Triggers
    <3>3. "confess" \in Deeds /\ "confess" # "chat" /\ "confess_rejected" \in Triggers \cup {"none"}
      BY DEF Deeds, Cooled, Triggers
    <3> QED BY <2>4, <3>1, <3>2, <3>3, SettlesKeeps, Zenon
  <2>9. CASE Apologize(a, b)
    <3>1. Settles(a, "apologize", b, "none", Edge(a, b, 1))
      BY <2>9, Zenon DEF Apologize
    <3>2. Edge(a, b, 1) \in Seq(ScriptEffects)
      BY <2>1, <2>3
    <3>3. "apologize" \in Deeds /\ "apologize" # "chat" /\ "none" \in Triggers \cup {"none"}
      BY DEF Deeds, Cooled, Triggers
    <3> QED BY <2>4, <3>1, <3>2, <3>3, SettlesKeeps, Zenon
  <2>10. CASE Unforgiven(a, b)
    <3>1. Settles(a, "apologize", b, "apologize_refused", Edge(a, b, -1) \o Cool(a, b, "apologize_refused"))
      BY <2>10, Zenon DEF Unforgiven
    <3>2. Edge(a, b, -1) \o Cool(a, b, "apologize_refused") \in Seq(ScriptEffects)
      BY <2>1, <2>2, <2>3 DEF Triggers
    <3>3. "apologize" \in Deeds /\ "apologize" # "chat" /\ "apologize_refused" \in Triggers \cup {"none"}
      BY DEF Deeds, Cooled, Triggers
    <3> QED BY <2>4, <3>1, <3>2, <3>3, SettlesKeeps, Zenon
  <2>11. CASE BorrowRefused(a, b)
    <3>1. Settles(a, "borrow", b, "borrow_refused", Edge(a, b, -1) \o Cool(a, b, "borrow_refused"))
      BY <2>11, Zenon DEF BorrowRefused
    <3>2. Edge(a, b, -1) \o Cool(a, b, "borrow_refused") \in Seq(ScriptEffects)
      BY <2>1, <2>2, <2>3 DEF Triggers
    <3>3. "borrow" \in Deeds /\ "borrow" # "chat" /\ "borrow_refused" \in Triggers \cup {"none"}
      BY DEF Deeds, Cooled, Triggers
    <3> QED BY <2>4, <3>1, <3>2, <3>3, SettlesKeeps, Zenon
  <2>12. CASE Gift(a, b)
    <3>1. Settles(a, "gift", b, "give_gift_same_target", Both(a, b, 1) \o Need(a, -1))
      BY <2>12, Zenon DEF Gift
    <3>2. Both(a, b, 1) \o Need(a, -1) \in Seq(ScriptEffects)
      BY <2>1, <2>3
    <3>3. "gift" \in Deeds /\ "gift" # "chat" /\ "give_gift_same_target" \in Triggers \cup {"none"}
      BY DEF Deeds, Cooled, Triggers
    <3> QED BY <2>4, <3>1, <3>2, <3>3, SettlesKeeps, Zenon
  <2>13. CASE Message(a, b)
    <3>1. Settles(a, "message", b, "none", Both(a, b, 1) \o Need(a, 1))
      BY <2>13, Zenon DEF Message
    <3>2. Both(a, b, 1) \o Need(a, 1) \in Seq(ScriptEffects)
      BY <2>1, <2>3
    <3>3. "message" \in Deeds /\ "message" # "chat" /\ "none" \in Triggers \cup {"none"}
      BY DEF Deeds, Cooled, Triggers
    <3> QED BY <2>4, <3>1, <3>2, <3>3, SettlesKeeps, Zenon
  <2>14. CASE Help(a, b)
    <3>1. Settles(a, "help", b, "none", Edge(b, a, 2) \o Need(a, 1))
      BY <2>14, Zenon DEF Help
    <3>2. Edge(b, a, 2) \o Need(a, 1) \in Seq(ScriptEffects)
      BY <2>1, <2>3
    <3>3. "help" \in Deeds /\ "help" # "chat" /\ "none" \in Triggers \cup {"none"}
      BY DEF Deeds, Cooled, Triggers
    <3> QED BY <2>4, <3>1, <3>2, <3>3, SettlesKeeps, Zenon
  <2>15. CASE Refuse(a, b)
    <3>1. Settles(a, "refuse", b, "none", Edge(b, a, -1))
      BY <2>15, Zenon DEF Refuse
    <3>2. Edge(b, a, -1) \in Seq(ScriptEffects)
      BY <2>1, <2>3
    <3>3. "refuse" \in Deeds /\ "refuse" # "chat" /\ "none" \in Triggers \cup {"none"}
      BY DEF Deeds, Cooled, Triggers
    <3> QED BY <2>4, <3>1, <3>2, <3>3, SettlesKeeps, Zenon
  <2>16. CASE Repaid(a, b)
    <3>1. Settles(a, "repay", b, "none", Edge(b, a, 2))
      BY <2>16, Zenon DEF Repaid
    <3>2. Edge(b, a, 2) \in Seq(ScriptEffects)
      BY <2>1, <2>3
    <3>3. "repay" \in Deeds /\ "repay" # "chat" /\ "none" \in Triggers \cup {"none"}
      BY DEF Deeds, Cooled, Triggers
    <3> QED BY <2>4, <3>1, <3>2, <3>3, SettlesKeeps, Zenon
  <2>17. CASE Ask(a, b)
    <3>1. Settles(a, "invite", b, "none", <<>>)
      BY <2>17, Zenon DEF Ask
    <3>2. <<>> \in Seq(ScriptEffects)
      BY <2>4
    <3>3. "invite" \in Deeds /\ "invite" # "chat" /\ "none" \in Triggers \cup {"none"}
      BY DEF Deeds, Cooled, Triggers
    <3> QED BY <2>4, <3>1, <3>2, <3>3, SettlesKeeps, Zenon
  <2>18. CASE Turned(a, b)
    <3>1. Settles(a, "turned", b, "invite_refused", Edge(a, b, -1) \o Cool(a, b, "invite_refused"))
      BY <2>18, Zenon DEF Turned
    <3>2. Edge(a, b, -1) \o Cool(a, b, "invite_refused") \in Seq(ScriptEffects)
      BY <2>1, <2>2, <2>3 DEF Triggers
    <3>3. "turned" \in Deeds /\ "turned" # "chat" /\ "invite_refused" \in Triggers \cup {"none"}
      BY DEF Deeds, Cooled, Triggers
    <3> QED BY <2>4, <3>1, <3>2, <3>3, SettlesKeeps, Zenon
  <2>19. CASE LetDown(a, b)
    <3>1. Settles(a, "let_down", b, "invite_stood_up", Edge(a, b, -2) \o Need(a, -1) \o Cool(a, b, "invite_stood_up"))
      BY <2>19, Zenon DEF LetDown
    <3>2. Edge(a, b, -2) \o Need(a, -1) \o Cool(a, b, "invite_stood_up") \in Seq(ScriptEffects)
      <4>1. Cool(a, b, "invite_stood_up") \in Seq(ScriptEffects)
        BY <2>2, <2>4 DEF Triggers
      <4>2. Edge(a, b, -2) \o Need(a, -1) \in Seq(ScriptEffects)
        BY <2>1, <2>3
      <4> QED BY <2>3, <4>1, <4>2, Zenon
    <3>3. "let_down" \in Deeds /\ "let_down" # "chat" /\ "invite_stood_up" \in Triggers \cup {"none"}
      BY DEF Deeds, Cooled, Triggers
    <3> QED BY <2>4, <3>1, <3>2, <3>3, SettlesKeeps, Zenon
  <2>20. CASE \E about \in People : Gossip(a, b, about)
    <3>1. PICK about \in People : Gossip(a, b, about)
      BY <2>20
    <3>2. Settles(a, "gossip", b, "gossip_same_target",
            Edge(b, a, 1) \o Cool(a, about, "gossip_same_target"))
      BY <3>1, Zenon DEF Gossip
    <3>3. Edge(b, a, 1) \o Cool(a, about, "gossip_same_target") \in Seq(ScriptEffects)
      BY <2>1, <2>2, <2>3 DEF Triggers
    <3>4. "gossip" \in Deeds /\ "gossip" # "chat" /\ "gossip_same_target" \in Triggers \cup {"none"}
      BY DEF Deeds, Cooled, Triggers
    <3> QED BY <2>4, <3>2, <3>3, <3>4, SettlesKeeps, Zenon
  <2> QED BY <1>3, <2>5, <2>6, <2>7, <2>8, <2>9, <2>10, <2>11, <2>12, <2>13, <2>14, <2>15, <2>16, <2>17, <2>18, <2>19, <2>20
<1> QED BY <1>1, <1>2, <1>3

\* What a statement after the event finds.
LEMMA StatementRuns ==
  ASSUME RelInv, NEW op, Runs(op), op # "event"
  PROVE  S \in ScriptEffects /\ S.op = op /\ script' \in Seq(ScriptEffects) /\ flushing = "no"
<1>1. script # <<>> /\ S.op = op /\ script' = Tail(script) /\ flushing = "no"
  BY DEF Runs
<1>2. script \in Seq(ScriptEffects)
  <2>1. ASSUME NEW e \in Happenings, NEW rest \in Seq(ScriptEffects), script = <<e>> \o rest PROVE FALSE
    <3>1. S = e
      BY <2>1 DEF S
    <3> QED BY <1>1, <3>1 DEF Happenings
  <2> QED BY <2>1 DEF RelInv, ScriptInv
<1> QED BY <1>1, <1>2 DEF S

\* What the event's statement finds.
LEMMA EventRuns ==
  ASSUME RelInv, Runs("event")
  PROVE  /\ S \in Happenings /\ script' \in Seq(ScriptEffects) /\ flushing = "no"
         /\ S.act = "chat" => chats < ChatCap
<1>1. script # <<>> /\ S.op = "event" /\ script' = Tail(script) /\ flushing = "no"
  BY DEF Runs
<1>2. ~ (script \in Seq(ScriptEffects))
  <2> SUFFICES ASSUME script \in Seq(ScriptEffects) PROVE FALSE
    OBVIOUS
  <2>1. S \in ScriptEffects
    BY <1>1 DEF S
  <2> QED BY <1>1, <2>1 DEF ScriptEffects
<1>3. PICK e \in Happenings, rest \in Seq(ScriptEffects) :
        script = <<e>> \o rest /\ (e.act = "chat" => chats < ChatCap)
  BY <1>2 DEF RelInv, ScriptInv
<1>4. Head(script) = e /\ Tail(script) = rest
  BY <1>3
<1> QED BY <1>1, <1>3, <1>4 DEF S

\* The event is written, with the chats counted.
LEMMA DoEventKeeps == ASSUME RelInv, DoEvent PROVE RelInv'
<1>1. Runs("event")
  BY DEF DoEvent
<1>2. /\ S \in Happenings /\ script' \in Seq(ScriptEffects) /\ flushing = "no"
      /\ S.act = "chat" => chats < ChatCap
  BY <1>1, EventRuns
<1>3. UNCHANGED <<cache, buffers, log, flushing, until, counts>>
  BY DEF DoEvent
<1>4. RelTypeOK'
  <2> DEFINE hit == {k \in Keys : k[1] = S.who /\ k[3] = S.to /\ k[2] \in RuledOut(S.kind)}
  <2>1. /\ latest' = [k \in Keys |-> IF k \in hit THEN Hold[S.kind] ELSE latest[k]]
        /\ owing' = [k \in Keys |-> IF k \in hit THEN Max({owing[k], Hold[S.kind]}) ELSE owing[k]]
    BY DEF DoEvent
  <2>2. owing \in [Keys -> Nat] /\ latest \in [Keys -> Nat]
    BY DEF RelInv, RelTypeOK
  <2>3. ASSUME NEW k \in hit PROVE Hold[S.kind] \in Nat
    <3>1. S.kind \in Triggers
      <4>1. S.kind # "none"
        BY DEF RuledOut
      <4> QED BY <1>2, <4>1 DEF Happenings
    <3> QED BY <3>1, RelAssumption
  <2>4. ASSUME NEW k \in hit PROVE Max({owing[k], Hold[S.kind]}) \in Nat
    <3>1. owing[k] \in Nat /\ Hold[S.kind] \in Nat
      BY <2>2, <2>3
    <3>2. \E x \in {owing[k], Hold[S.kind]} : \A y \in {owing[k], Hold[S.kind]} : x >= y
      BY <3>1
    <3> QED BY <3>1, <3>2 DEF Max
  <2>5. owing' \in [Keys -> Nat] /\ latest' \in [Keys -> Nat]
    <3> HIDE DEF hit
    <3> QED BY <2>1, <2>2, <2>3, <2>4
  <2>6. chats' \in 0..ChatCap
    BY <1>2, RelAssumption DEF DoEvent, RelInv, RelTypeOK
  <2> QED BY <1>3, <2>5, <2>6 DEF RelInv, RelTypeOK, cache, log
<1>5. ScriptInv'
  BY <1>2, <1>3 DEF ScriptInv
<1>6. BufferInv'
  BY <1>3 DEF RelInv, BufferInv, CacheIsReplay, cache, log, buffers, counts
<1> QED BY <1>4, <1>5, <1>6 DEF RelInv

\* A need moves in the cache and in the buffer alike.
LEMMA DoNeedKeeps == ASSUME RelInv, DoNeed PROVE RelInv'
<1>1. S \in ScriptEffects /\ S.op = "need" /\ script' \in Seq(ScriptEffects) /\ flushing = "no"
  BY StatementRuns DEF DoNeed
<1>2. S.who \in People /\ S.by \in Int
  BY <1>1 DEF ScriptEffects
<1>3. PICK a, d, new, c : /\ a = S.who /\ d = S.by /\ new = Within(need[a] + d, 0)
                          /\ c = [key |-> a, by |-> new - need[a]]
  OBVIOUS
<1>4. /\ need' = [need EXCEPT ![a] = new] /\ needBuf' = Recorded(needBuf, c, d)
      /\ UNCHANGED <<edge, edgeBuf, log, flushing, until, hours, chats, counts>>
  BY <1>3 DEF DoNeed
<1>5. a \in People /\ need[a] \in 0..Top /\ new \in 0..Top /\ c \in NeedChanges /\ Top \in Nat
  <2>1. a \in People /\ d \in Int /\ need[a] \in 0..Top /\ Top \in Nat
    BY <1>2, <1>3, RelAssumption DEF RelInv, RelTypeOK
  <2>2. need[a] + d \in Int
    BY <2>1
  <2>3. new \in 0..Top
    BY <1>3, <2>1, <2>2, WithinRange
  <2> QED BY <1>3, <2>1, <2>3 DEF NeedChanges
<1>6. RelTypeOK'
  BY <1>4, <1>5 DEF RelInv, RelTypeOK, log, hours
<1>7. ScriptInv'
  BY <1>1, <1>4 DEF ScriptInv
<1>8. needBuf' \in Seq(NeedChanges)
  BY <1>4, <1>5 DEF RelInv, BufferInv, Recorded
<1>9. CacheIsReplay'
  <2> SUFFICES ASSUME mishaps' = 0 PROVE CacheIsReplay'
    BY DEF CacheIsReplay
  <2>1. need = Replay(needLog, needBuf, 0) /\ edge = Replay(edgeLog, edgeBuf, -Top)
    BY <1>1, <1>4 DEF RelInv, BufferInv, CacheIsReplay, counts
  <2>2. need' = Replay(needLog, needBuf', 0)
    <3>1. CASE c.by = 0
      <4>1. new = need[a]
        BY <1>3, <1>5, <3>1
      <4>2. need' = need
        BY <1>4, <1>5, <4>1 DEF RelInv, RelTypeOK
      <4> QED BY <1>4, <2>1, <3>1, <4>2 DEF Recorded
    <3>2. CASE c.by # 0
      <4>1. needBuf' = Append(needBuf, c)
        BY <1>4, <3>2 DEF Recorded
      <4>2. Replay(needLog, Append(needBuf, c), 0) = Applied(need, c, 0)
        BY <1>5, <2>1, ReplayAppend DEF RelInv, BufferInv
      <4>3. Within(need[a] + (new - need[a]), 0) = new
        BY <1>5 DEF Within
      <4>4. Applied(need, c, 0) = need'
        BY <1>3, <1>4, <4>3 DEF Applied
      <4> QED BY <4>1, <4>2, <4>4
    <3> QED BY <3>1, <3>2
  <2> QED BY <1>1, <1>4, <2>1, <2>2 DEF CacheIsReplay, log
<1>10. BufferInv'
  BY <1>4, <1>8, <1>9 DEF RelInv, BufferInv, counts
<1> QED BY <1>6, <1>7, <1>10 DEF RelInv

\* A relation moves in the cache and in the buffer alike.
LEMMA DoEdgeKeeps == ASSUME RelInv, DoEdge PROVE RelInv'
<1>1. S \in ScriptEffects /\ S.op = "edge" /\ script' \in Seq(ScriptEffects) /\ flushing = "no"
  BY StatementRuns DEF DoEdge
<1>2. <<S.who, S.to>> \in Pairs /\ S.by \in Int
  BY <1>1 DEF ScriptEffects, Pairs
<1>3. PICK p, d, new, c : /\ p = <<S.who, S.to>> /\ d = S.by /\ new = Within(edge[p] + d, -Top)
                          /\ c = [key |-> p, by |-> new - edge[p]]
  OBVIOUS
<1>4. /\ edge' = [edge EXCEPT ![p] = new] /\ edgeBuf' = Recorded(edgeBuf, c, d)
      /\ UNCHANGED <<need, needBuf, log, flushing, until, hours, chats, counts>>
  BY <1>3 DEF DoEdge
<1>5. p \in Pairs /\ edge[p] \in -Top..Top /\ new \in -Top..Top /\ c \in EdgeChanges /\ Top \in Nat
  <2>1. p \in Pairs /\ d \in Int /\ edge[p] \in -Top..Top /\ Top \in Nat
    BY <1>2, <1>3, RelAssumption DEF RelInv, RelTypeOK
  <2>2. edge[p] + d \in Int /\ -Top \in Int /\ -Top <= Top
    BY <2>1
  <2>3. new \in -Top..Top
    BY <1>3, <2>2, WithinRange
  <2> QED BY <1>3, <2>1, <2>3 DEF EdgeChanges
<1>6. RelTypeOK'
  BY <1>4, <1>5 DEF RelInv, RelTypeOK, log, hours
<1>7. ScriptInv'
  BY <1>1, <1>4 DEF ScriptInv
<1>8. edgeBuf' \in Seq(EdgeChanges)
  BY <1>4, <1>5 DEF RelInv, BufferInv, Recorded
<1>9. CacheIsReplay'
  <2> SUFFICES ASSUME mishaps' = 0 PROVE CacheIsReplay'
    BY DEF CacheIsReplay
  <2>1. need = Replay(needLog, needBuf, 0) /\ edge = Replay(edgeLog, edgeBuf, -Top)
    BY <1>1, <1>4 DEF RelInv, BufferInv, CacheIsReplay, counts
  <2>2. edge' = Replay(edgeLog, edgeBuf', -Top)
    <3>1. CASE c.by = 0
      <4>1. new = edge[p]
        BY <1>3, <1>5, <3>1
      <4>2. edge' = edge
        BY <1>4, <1>5, <4>1 DEF RelInv, RelTypeOK
      <4> QED BY <1>4, <2>1, <3>1, <4>2 DEF Recorded
    <3>2. CASE c.by # 0
      <4>1. edgeBuf' = Append(edgeBuf, c)
        BY <1>4, <3>2 DEF Recorded
      <4>2. Replay(edgeLog, Append(edgeBuf, c), -Top) = Applied(edge, c, -Top)
        BY <1>5, <2>1, ReplayAppend DEF RelInv, BufferInv
      <4>3. Within(edge[p] + (new - edge[p]), -Top) = new
        BY <1>5 DEF Within
      <4>4. Applied(edge, c, -Top) = edge'
        BY <1>3, <1>4, <4>3 DEF Applied
      <4> QED BY <4>1, <4>2, <4>4
    <3> QED BY <3>1, <3>2
  <2> QED BY <1>1, <1>4, <2>1, <2>2 DEF CacheIsReplay, log
<1>10. BufferInv'
  BY <1>4, <1>8, <1>9 DEF RelInv, BufferInv, counts
<1> QED BY <1>6, <1>7, <1>10 DEF RelInv

\* A cooldown moves neither.
LEMMA DoCoolKeeps == ASSUME RelInv, DoCool PROVE RelInv'
<1>1. S \in ScriptEffects /\ S.op = "cool" /\ script' \in Seq(ScriptEffects) /\ flushing = "no"
  BY StatementRuns DEF DoCool
<1>2. UNCHANGED <<cache, buffers, log, flushing, hours, chats, counts>>
  BY DEF DoCool
<1>3. until' \in [Keys -> Nat]
  <2>1. S.kind \in Triggers
    BY <1>1 DEF ScriptEffects
  <2>2. Hold[S.kind] \in Nat
    BY <2>1, RelAssumption
  <2> QED BY <2>2 DEF DoCool, RelInv, RelTypeOK
<1>4. RelTypeOK'
  BY <1>2, <1>3 DEF RelInv, RelTypeOK, cache, log, hours
<1>5. ScriptInv'
  BY <1>1, <1>2 DEF ScriptInv
<1>6. BufferInv'
  BY <1>2 DEF RelInv, BufferInv, CacheIsReplay, cache, log, buffers, counts
<1> QED BY <1>4, <1>5, <1>6 DEF RelInv

\* A flush moves the buffer into the stored rows.
LEMMA FlushKeeps == ASSUME RelInv, Flush \/ FlushNeeds \/ FlushEdges PROVE RelInv'
<1> USE DEF RelInv, cache, buffers, log, hours, counts
<1>1. CASE Flush
  BY <1>1 DEF Flush, Idle, RelTypeOK, ScriptInv, BufferInv, CacheIsReplay
<1>2. CASE FlushNeeds
  <2>1. needLog' \in [People -> 0..Top]
    BY <1>2, NeedReplayType DEF FlushNeeds, RelTypeOK, BufferInv
  <2>2. RelTypeOK' /\ ScriptInv'
    BY <1>2, <2>1 DEF FlushNeeds, RelTypeOK, ScriptInv
  <2> QED BY <1>2, <2>2 DEF FlushNeeds, BufferInv, CacheIsReplay
<1>3. CASE FlushEdges
  <2>1. edgeLog' \in [Pairs -> -Top..Top]
    BY <1>3, EdgeReplayType DEF FlushEdges, RelTypeOK, BufferInv
  <2>2. RelTypeOK' /\ ScriptInv'
    BY <1>3, <2>1 DEF FlushEdges, RelTypeOK, ScriptInv
  <2>3. CacheIsReplay'
    BY <1>3, ReplayEmpty DEF FlushEdges, BufferInv, CacheIsReplay
  <2> QED BY <1>3, <2>2, <2>3 DEF FlushEdges, BufferInv
<1> QED BY <1>1, <1>2, <1>3

\* Hours and weeks leave the rows; a week's decay is buffered like any change.
LEMMA TimeKeeps == ASSUME RelInv, Hour \/ Week \/ Decay PROVE RelInv'
<1> USE DEF RelInv, cache, buffers, log, hours, counts
<1>1. CASE Hour
  <2>1. \A f \in [Keys -> Nat] : Later(f) \in [Keys -> Nat]
    BY DEF Later
  <2>2. RelTypeOK'
    BY <1>1, <2>1, RelAssumption DEF Hour, RelTypeOK
  <2>3. ScriptInv'
    <3>1. script' = <<>> /\ flushing' = flushing
      BY <1>1 DEF Hour, Idle
    <3> QED BY <3>1 DEF ScriptInv
  <2> QED BY <1>1, <2>2, <2>3 DEF Hour, BufferInv, CacheIsReplay
<1>2. CASE Week \/ Decay
  <2>1. script' \in Seq(ScriptEffects)
    <3>1. CASE Week
      <4>1. PICK p \in Pairs : script' = Edge(p[1], p[2], IF edge[p] > 0 THEN -1 ELSE 1)
        BY <3>1 DEF Week
      <4>2. p[1] \in People /\ p[2] \in People /\ p[1] # p[2]
        BY DEF Pairs
      <4>3. (IF edge[p] > 0 THEN -1 ELSE 1) \in Int
        OBVIOUS
      <4> QED BY <4>1, <4>2, <4>3, EdgeIsEffect
    <3>2. CASE Decay
      BY <3>2, NeedIsEffect DEF Decay
    <3> QED BY <1>2, <3>1, <3>2
  <2>2. /\ flushing = "no" /\ settled' = settled + 1
        /\ UNCHANGED <<cache, buffers, log, flushing, until, hours, chats, mishaps>>
    BY <1>2 DEF Week, Decay, Idle
  <2>3. RelTypeOK' /\ ScriptInv'
    BY <2>1, <2>2 DEF RelTypeOK, ScriptInv
  <2> QED BY <2>2, <2>3 DEF BufferInv, CacheIsReplay
<1> QED BY <1>1, <1>2

\* A statement that fails or a process that ends with changes buffered is counted as a
\* mishap.
LEMMA BreaksKeep == ASSUME RelInv, Mishap \/ Crash PROVE RelInv'
<1> USE DEF RelInv, cache, buffers, log, hours, counts
<1>1. script' = <<>> /\ flushing' = "no" /\ mishaps' = mishaps + 1
  BY DEF Mishap, Crash
<1>2. mishaps' \in Nat /\ mishaps' # 0
  BY <1>1 DEF BufferInv
<1>3. RelTypeOK' /\ ScriptInv'
  BY <1>1 DEF Mishap, Crash, RelTypeOK, ScriptInv
<1>4. needBuf' \in Seq(NeedChanges) /\ edgeBuf' \in Seq(EdgeChanges) /\ settled' \in Nat
  <2>1. <<>> \in Seq(NeedChanges) /\ <<>> \in Seq(EdgeChanges)
    OBVIOUS
  <2> QED BY <2>1 DEF Mishap, Crash, BufferInv
<1>5. CacheIsReplay'
  BY <1>2 DEF CacheIsReplay
<1> QED BY <1>2, <1>3, <1>4, <1>5 DEF BufferInv

\* At the beginning the cache is what was stored.
LEMMA RelInvInit == RelInit => RelInv
<1> SUFFICES ASSUME RelInit PROVE RelInv
  OBVIOUS
<1>1. RelTypeOK
  BY RelAssumption DEF RelInit, RelTypeOK
<1>2. ScriptInv
  BY DEF RelInit, ScriptInv
<1>3. BufferInv
  BY ReplayEmpty DEF RelInit, BufferInv, CacheIsReplay
<1> QED BY <1>1, <1>2, <1>3 DEF RelInv

\* Rows, buffers and cached columns tell one story through every statement and every
\* flush (state_events.py: buffer_need, flush_to_db, rebuild_needs).
THEOREM PeopleRememberWhatTheLogSays == RelSpec => []RelInv
<1>1. RelInv /\ [RelNext]_relVars => RelInv'
  <2> SUFFICES ASSUME RelInv, [RelNext]_relVars PROVE RelInv'
    OBVIOUS
  <2>1. CASE Statements
    BY <2>1, DoEventKeeps, DoNeedKeeps, DoEdgeKeeps, DoCoolKeeps DEF Statements
  <2>2. CASE UNCHANGED relVars
    BY <2>2 DEF relVars, cache, buffers, log, hours, counts, RelInv, RelTypeOK, ScriptInv,
                BufferInv, CacheIsReplay
  <2> QED BY <2>1, <2>2, ActionsKeep, FlushKeeps, TimeKeeps, BreaksKeep DEF RelNext
<1> QED BY <1>1, RelInvInit, PTL DEF RelSpec

\* The cached columns are what the log and the changes still buffered rebuild
\* (state_events.rebuild_needs, rebuild_relation), for any number of people, any range
\* and any script cut off anywhere, as long as no statement has failed and no process
\* has ended with changes buffered.
THEOREM CacheRebuildsFromTheLog == RelSpec => []CacheIsReplay
<1>1. RelInv => CacheIsReplay
  BY DEF RelInv, BufferInv
<1> QED BY <1>1, PeopleRememberWhatTheLogSays, PTL

\* Every variable of the relations and needs keeps its type.
THEOREM RelationsTypeCorrect == RelSpec => []RelTypeOK
<1>1. RelInv => RelTypeOK
  BY DEF RelInv
<1> QED BY <1>1, PeopleRememberWhatTheLogSays, PTL

-----------------------------------------------------------------------------
(*****************************************************************************)
(* Invitations: one reminder and one verdict for each appointment.           *)
(*****************************************************************************)
\* The rows of the invitations and of the appointments.
Invitations == [by : Guests, to : Guests, at : Int, rounds : 0..MaxRounds, open : BOOLEAN]

Appointments == [who : SUBSET Guests, at : Int, made : Int]

\* The types of the rows, and one entry of each ledger for every appointment.
InvTypes ==
  /\ quarter \in 0..LastQuarter /\ driven \in BOOLEAN /\ leapt \in BOOLEAN
  /\ chatted \in [Guests -> -Window..LastQuarter]
  /\ invites \in Seq(Invitations) /\ appts \in Seq(Appointments)
  /\ charged \in Seq(Nat) /\ Len(charged) = Len(appts)
  /\ reminded \in Seq({0, 1}) /\ Len(reminded) = Len(appts)
  /\ cancelled \in Seq(Nat) /\ Len(cancelled) = Len(appts)
  /\ stoodUp \subseteq Indices
  /\ cuts \in Nat

\* An appointment of the same key has been reminded of.
HasReminder(i) == \E j \in Indices : KeyOf(appts[j]) = KeyOf(appts[i]) /\ reminded[j] = 1

\* In a run whose every tick was driven: who has to be reminded by now, has been.
RemindInv ==
  ~leapt =>
    \A i \in Indices :
      /\ ~Off(i) /\ appts[i].made < appts[i].at
      /\ IF driven THEN appts[i].at - Before <= quarter ELSE appts[i].at <= quarter
      => HasReminder(i)

\* What an appointment owes for its verdict.
ForVerdict(i) == IF i \in stoodUp THEN 1 ELSE 0

\* Every charge is that of a cancellation or of the verdict, and no appointment has both.
ChargeInv ==
  /\ \A i \in stoodUp : appts[i].at + Grace <= quarter /\ cancelled[i] = 0
  /\ cuts = 0 => \A i \in Indices : charged[i] = cancelled[i] + ForVerdict(i)

\* Whom the judge found to have stood somebody up was not there.
JudgedInv == \A i \in stoodUp : ~Met(i)

\* The inductive invariant of the invitations.
InvInv == InvTypes /\ RemindInv /\ ChargeInv /\ JudgedInv

\* What the types say of one row.
LEMMA InvTypeFacts ==
  ASSUME InvTypes
  PROVE  /\ quarter \in Int /\ LastQuarter \in Nat
         /\ \A i \in Indices : /\ appts[i] \in Appointments
                               /\ appts[i].at \in Int /\ appts[i].made \in Int
                               /\ reminded[i] \in {0, 1} /\ charged[i] \in Nat
                               /\ cancelled[i] \in Nat
         /\ \A i \in 1..Len(invites) : invites[i] \in Invitations
<1>1. LastQuarter \in Nat
  BY InviteAssumption
<1>2. quarter \in Int
  BY <1>1 DEF InvTypes
<1>3. ASSUME NEW i \in Indices
      PROVE  /\ appts[i] \in Appointments /\ reminded[i] \in {0, 1} /\ charged[i] \in Nat
             /\ cancelled[i] \in Nat
  <2>1. /\ appts \in Seq(Appointments) /\ reminded \in Seq({0, 1}) /\ charged \in Seq(Nat)
        /\ cancelled \in Seq(Nat)
        /\ i \in 1..Len(appts) /\ i \in 1..Len(reminded) /\ i \in 1..Len(charged)
        /\ i \in 1..Len(cancelled)
    BY DEF InvTypes, Indices
  <2> QED BY <2>1
<1>4. \A a \in Appointments : a.at \in Int /\ a.made \in Int
  BY DEF Appointments
<1>5. \A i \in 1..Len(invites) : invites[i] \in Invitations
  BY DEF InvTypes
<1> QED BY <1>1, <1>2, <1>3, <1>4, <1>5

\* No invitation, no appointment at the beginning.
LEMMA InvInvInit == InvInit => InvInv
<1> SUFFICES ASSUME InvInit PROVE InvInv
  OBVIOUS
<1> USE DEF InvInit
<1>1. InvTypes
  <2>1. LastQuarter \in Nat /\ <<>> \in Seq(Invitations) /\ <<>> \in Seq(Appointments)
    BY InviteAssumption
  <2>2. -Window \in -Window..LastQuarter
    BY <2>1 DEF Window
  <2> HIDE DEF Window
  <2>3. chatted \in [Guests -> -Window..LastQuarter] /\ quarter \in 0..LastQuarter
    BY <2>1, <2>2
  <2>4. /\ driven \in BOOLEAN /\ leapt \in BOOLEAN /\ cuts \in Nat
        /\ stoodUp \subseteq Indices
    OBVIOUS
  <2>5. /\ invites \in Seq(Invitations) /\ appts \in Seq(Appointments)
        /\ charged \in Seq(Nat) /\ Len(charged) = Len(appts)
        /\ reminded \in Seq({0, 1}) /\ Len(reminded) = Len(appts)
        /\ cancelled \in Seq(Nat) /\ Len(cancelled) = Len(appts)
    BY <2>1
  <2> QED BY <2>3, <2>4, <2>5 DEF InvTypes
<1>2. Indices = {} 
  BY DEF Indices
<1>3. RemindInv /\ ChargeInv /\ JudgedInv
  BY <1>2 DEF RemindInv, ChargeInv, JudgedInv
<1> QED BY <1>1, <1>3 DEF InvInv

\* An invitation more.
LEMMA SendKeeps ==
  ASSUME InvInv, NEW a \in Guests, NEW b \in Guests, NEW time \in Times, NEW place,
         Send(a, b, time, place)
  PROVE  InvInv'
<1> USE DEF InvInv
<1>1. /\ invites' = Append(invites, [by |-> a, to |-> b, at |-> time, rounds |-> 0, open |-> TRUE])
      /\ UNCHANGED <<quarter, driven, leapt, chatted, appts, seen, reminded, stoodUp, cancelled,
                     charged, cuts>>
  BY DEF Send
<1>2. [by |-> a, to |-> b, at |-> time, rounds |-> 0, open |-> TRUE] \in Invitations
  BY InviteAssumption DEF Invitations
<1>3. InvTypes'
  BY <1>1, <1>2 DEF InvTypes, Indices
<1>4. RemindInv' /\ ChargeInv' /\ JudgedInv'
  BY <1>1 DEF RemindInv, ChargeInv, ForVerdict, JudgedInv, HasReminder, Off, Indices, Met, During
<1> QED BY <1>3, <1>4

\* A counter or a refusal closes the invitation or moves it.
LEMMA AnswerKeeps ==
  ASSUME InvInv, NEW i \in 1..Len(invites), Counter(i) \/ Decline(i)
  PROVE  InvInv'
<1> USE DEF InvInv
<1>1. UNCHANGED <<quarter, driven, leapt, chatted, appts, seen, reminded, stoodUp, cancelled,
                     charged, cuts>>
  BY DEF Counter, Decline
<1>2. invites' \in Seq(Invitations)
  <2>1. invites \in Seq(Invitations) /\ invites[i] \in Invitations
    BY DEF InvTypes
  <2>2. CASE Counter(i)
    <3>1. [invites[i] EXCEPT !.rounds = @ + 1] \in Invitations
      <4>1. MaxRounds \in Nat
        BY InviteAssumption
      <4>2. invites[i].rounds \in 0..MaxRounds /\ invites[i].rounds < MaxRounds
        BY <2>1, <2>2 DEF Counter, Invitations
      <4>3. invites[i].rounds + 1 \in 0..MaxRounds
        BY <4>1, <4>2
      <4> QED BY SMTT(30), <2>1, <4>3 DEF Invitations
    <3>2. invites' = [invites EXCEPT ![i] = [invites[i] EXCEPT !.rounds = @ + 1]]
      BY <2>2 DEF Counter
    <3> QED BY <2>1, <3>1, <3>2
  <2>3. CASE Decline(i)
    <3>1. [invites[i] EXCEPT !.open = FALSE] \in Invitations
      BY <2>1, <2>3 DEF Invitations
    <3>2. invites' = [invites EXCEPT ![i] = [invites[i] EXCEPT !.open = FALSE]]
      BY <2>3 DEF Decline
    <3> QED BY <2>1, <3>1, <3>2
  <2> QED BY <2>2, <2>3
<1>3. InvTypes'
  BY <1>1, <1>2 DEF InvTypes, Indices
<1>4. RemindInv' /\ ChargeInv' /\ JudgedInv'
  BY <1>1 DEF RemindInv, ChargeInv, ForVerdict, JudgedInv, HasReminder, Off, Indices, Met, During
<1> QED BY <1>3, <1>4

\* An acceptance appends an appointment, without a reminder or a charge.
LEMMA AcceptKeeps ==
  ASSUME InvInv, ~driven, NEW i \in 1..Len(invites), Accept(i)
  PROVE  InvInv'
<1> USE DEF InvInv
<1>1. PICK a : a = [who |-> {invites[i].by, invites[i].to}, at |-> invites[i].at, made |-> quarter]
  OBVIOUS
<1>2. /\ invites' = [invites EXCEPT ![i].open = FALSE]
      /\ appts' = Append(appts, a) /\ charged' = Append(charged, 0) /\ reminded' = Append(reminded, 0)
      /\ cancelled' = Append(cancelled, 0)
      /\ UNCHANGED <<quarter, driven, leapt, chatted, seen, stoodUp, cuts>>
  BY <1>1 DEF Accept
<1>3. invites[i] \in Invitations /\ a \in Appointments
  <2>1. invites[i] \in Invitations /\ quarter \in Int
    BY InvTypeFacts
  <2>2. /\ invites[i].by \in Guests /\ invites[i].to \in Guests /\ invites[i].at \in Int
    BY <2>1 DEF Invitations
  <2>3. {invites[i].by, invites[i].to} \in SUBSET Guests
    BY <2>2
  <2> QED BY <1>1, <2>1, <2>2, <2>3 DEF Appointments
<1>4. invites' \in Seq(Invitations)
  <2>1. [invites[i] EXCEPT !.open = FALSE] \in Invitations
    BY <1>3 DEF Invitations
  <2>2. invites' = [invites EXCEPT ![i] = [invites[i] EXCEPT !.open = FALSE]]
    BY <1>2
  <2> QED BY <2>1, <2>2 DEF InvTypes
<1>5. PICK n \in Nat : n = Len(appts)
  BY DEF InvTypes
<1>6. /\ Indices = 1..n /\ Indices' = 1..(n + 1)
      /\ \A j \in 1..n : appts'[j] = appts[j] /\ charged'[j] = charged[j] /\ reminded'[j] = reminded[j]
      /\ appts'[n + 1] = a /\ charged'[n + 1] = 0 /\ reminded'[n + 1] = 0
  BY <1>2, <1>3, <1>5 DEF InvTypes, Indices
<1>7. /\ cancelled' \in Seq(Nat) /\ Len(cancelled') = n + 1
       /\ cancelled'[n + 1] = 0 /\ \A j \in 1..n : cancelled'[j] = cancelled[j]
  <2>1. /\ cancelled \in Seq(Nat) /\ Len(cancelled) = n /\ 0 \in Nat
        /\ cancelled' = Append(cancelled, 0)
    BY <1>2, <1>5, InviteAssumption DEF InvTypes
  <2> QED BY <2>1
<1>8. InvTypes'
  <2>1. appts' \in Seq(Appointments) /\ charged' \in Seq(Nat) /\ reminded' \in Seq({0, 1})
        /\ Len(appts') = n + 1 /\ Len(charged') = n + 1 /\ Len(reminded') = n + 1
    BY <1>2, <1>3, <1>5 DEF InvTypes
  <2>2. stoodUp' \subseteq Indices'
    BY <1>2, <1>5, <1>6 DEF InvTypes
  <2> QED BY <1>2, <1>4, <1>7, <2>1, <2>2 DEF InvTypes
<1>9. RemindInv'
  <2> SUFFICES ASSUME ~leapt', NEW j \in Indices', ~Off(j)',
                      appts'[j].made < appts'[j].at, appts'[j].at <= quarter'
               PROVE  HasReminder(j)'
    BY <1>2 DEF RemindInv
  <2>1. j # n + 1
    <3>1. a.made = quarter /\ quarter \in Int /\ a.at \in Int
      BY <1>1, <1>3, InvTypeFacts DEF Appointments
    <3>2. SUFFICES ASSUME j = n + 1 PROVE FALSE
      OBVIOUS
    <3>3. appts'[j] = a
      BY <1>6, <3>2, Zenon
    <3>4. a.made < a.at /\ a.at <= quarter
      BY <1>2, <3>3, Zenon
    <3> QED BY <3>1, <3>4
  <2>2. j \in 1..n
    BY <1>5, <1>6, <2>1
  <2>3. HasReminder(j)
    BY <1>2, <1>6, <1>7, <2>2 DEF RemindInv, Off
  <2>4. PICK k \in 1..n : KeyOf(appts[k]) = KeyOf(appts[j]) /\ reminded[k] = 1
    BY <1>6, <2>3 DEF HasReminder
  <2> QED BY <1>5, <1>6, <2>2, <2>4 DEF HasReminder, KeyOf
<1>10. ChargeInv'
  <2>1. n + 1 \notin stoodUp
    BY <1>5, <1>6 DEF InvTypes
  <2>2. \A j \in stoodUp : j \in 1..n
    BY <1>6 DEF InvTypes
  <2>3. \A j \in stoodUp' : appts'[j].at + Grace <= quarter' /\ cancelled'[j] = 0
    BY <1>2, <1>6, <1>7, <2>2 DEF ChargeInv
  <2>4. cuts' = 0 => \A j \in Indices' : charged'[j] = cancelled'[j] + ForVerdict(j)'
    <3> SUFFICES ASSUME cuts' = 0, NEW j \in 1..(n + 1)
                 PROVE  charged'[j] = cancelled'[j] + ForVerdict(j)'
      BY <1>6
    <3>1. CASE j = n + 1
      <4>1. ForVerdict(j)' = 0
        BY <1>2, <2>1, <3>1 DEF ForVerdict
      <4>2. charged'[j] = 0 /\ cancelled'[j] = 0
        BY <1>6, <1>7, <3>1, Zenon
      <4> QED BY <4>1, <4>2
    <3>2. CASE j \in 1..n
      BY <1>2, <1>6, <1>7, <3>2 DEF ChargeInv, ForVerdict
    <3> QED BY <1>5, <3>1, <3>2
  <2> QED BY <2>3, <2>4 DEF ChargeInv
<1>11. JudgedInv'
  <2> SUFFICES ASSUME NEW j \in stoodUp' PROVE ~Met(j)'
    BY DEF JudgedInv
  <2>1. j \in stoodUp /\ j \in 1..n
    BY <1>2, <1>6 DEF InvTypes
  <2> QED BY <1>2, <1>6, <2>1 DEF JudgedInv, Met, During
<1> QED BY <1>8, <1>9, <1>10, <1>11

\* A cancelled appointment stays as it was reminded, and is charged for its cancellation.
LEMMA CancelKeeps ==
  ASSUME InvInv, NEW i \in Indices, Cancel(i)
  PROVE  InvInv'
<1> USE DEF InvInv
<1>1. /\ charged' = [charged EXCEPT ![i] = @ + 1]
      /\ quarter <= appts[i].at - Before
      /\ \/ cancelled' = [cancelled EXCEPT ![i] = @ + 1] /\ cuts' = cuts
         \/ cuts' = cuts + 1 /\ cancelled' = cancelled
      /\ UNCHANGED <<quarter, driven, leapt, chatted, invites, appts, seen, reminded, stoodUp>>
  BY DEF Cancel, Cancellable
<1>2. /\ i \in DOMAIN charged /\ i \in DOMAIN cancelled /\ cancelled[i] \in Nat
      /\ Indices' = Indices /\ Indices = DOMAIN cancelled
  BY <1>1, InvTypeFacts DEF InvTypes, Indices
<1>3. InvTypes'
  <2>1. charged' \in Seq(Nat) /\ Len(charged') = Len(charged)
    BY <1>1 DEF InvTypes, Indices
  <2>2. cancelled \in Seq(Nat)
    BY DEF InvTypes
  <2>3. cancelled' \in Seq(Nat) /\ Len(cancelled') = Len(cancelled)
    <3>1. [cancelled EXCEPT ![i] = @ + 1] \in Seq(Nat)
          /\ Len([cancelled EXCEPT ![i] = @ + 1]) = Len(cancelled)
      BY <1>2, <2>2
    <3> QED BY <1>1, <2>2, <3>1, Zenon
  <2>4. stoodUp' \subseteq Indices' /\ cuts' \in Nat
    BY <1>1, <1>2 DEF InvTypes
  <2> QED BY <1>1, <2>1, <2>3, <2>4 DEF InvTypes
<1>4. ASSUME NEW j \in Indices, ~Off(j)' PROVE ~Off(j)
  <2>1. /\ cancelled[j] \in Nat /\ j \in DOMAIN cancelled
        /\ cancelled'[j] = cancelled[j] \/ cancelled'[j] = cancelled[j] + 1
    BY <1>1, <1>2, InvTypeFacts
  <2> QED BY <1>4, <2>1 DEF Off
<1>5. RemindInv' /\ JudgedInv'
  BY <1>1, <1>2, <1>4 DEF RemindInv, JudgedInv, HasReminder, Met, During
<1>6. i \notin stoodUp
  <2>1. appts[i].at \in Int /\ quarter \in Int
    BY InvTypeFacts
  <2> QED BY <1>1, <2>1 DEF ChargeInv, Before, Grace
<1>7. ChargeInv'
  <2>1. \A j \in stoodUp' : appts'[j].at + Grace <= quarter' /\ cancelled'[j] = 0
    <3> SUFFICES ASSUME NEW j \in stoodUp PROVE cancelled'[j] = 0
      BY <1>1 DEF ChargeInv
    <3>1. j # i /\ j \in DOMAIN cancelled /\ cancelled[j] = 0
      BY <1>2, <1>6 DEF ChargeInv, InvTypes
    <3> QED BY <1>1, <3>1
  <2>2. ASSUME cuts' = 0, NEW j \in Indices
        PROVE  charged'[j] = cancelled'[j] + ForVerdict(j)'
    <3>1. cuts = 0 /\ cancelled' = [cancelled EXCEPT ![i] = @ + 1]
      BY <1>1, <2>2 DEF InvTypes
    <3>2. charged[j] = cancelled[j] + ForVerdict(j) /\ ForVerdict(j)' = ForVerdict(j)
      BY <1>1, <3>1 DEF ChargeInv, ForVerdict
    <3>3. /\ j \in DOMAIN charged /\ j \in DOMAIN cancelled
          /\ charged[j] \in Nat /\ cancelled[j] \in Nat
      <4>1. j \in DOMAIN charged
        BY DEF InvTypes, Indices
      <4> QED BY <1>2, <4>1, InvTypeFacts
    <3>6. j = i => ForVerdict(j) = 0
      BY <1>6 DEF ForVerdict
    <3>4. CASE j = i
      BY <1>1, <3>1, <3>2, <3>3, <3>6, <3>4
    <3>5. CASE j # i
      BY <1>1, <3>1, <3>2, <3>3, <3>5
    <3> QED BY <3>4, <3>5
  <2> QED BY <1>1, <1>2, <2>1, <2>2 DEF ChargeInv
<1> QED BY <1>3, <1>5, <1>7

\* People meet or talk.
LEMMA HappensKeeps ==
  ASSUME InvInv, NEW who \in SUBSET Guests, NEW talk \in BOOLEAN, Happens(who, talk)
  PROVE  InvInv'
<1> USE DEF InvInv
<1>1. /\ seen' = seen \union {<<who, quarter>>}
      /\ chatted' = IF talk THEN [g \in Guests |-> IF g \in who THEN quarter ELSE chatted[g]] ELSE chatted
      /\ UNCHANGED <<quarter, driven, leapt, invites, appts, reminded, stoodUp, cancelled, charged, cuts>>
  BY DEF Happens
<1>2. InvTypes'
  <2>1. chatted' \in [Guests -> -Window..LastQuarter]
    BY <1>1, InviteAssumption DEF InvTypes, Window
  <2> QED BY <1>1, <2>1 DEF InvTypes, Indices
<1>3. RemindInv' /\ ChargeInv'
  BY <1>1 DEF RemindInv, ChargeInv, ForVerdict, HasReminder, Off, Indices
<1>4. JudgedInv'
  <2> SUFFICES ASSUME NEW i \in stoodUp PROVE During(i)' = During(i)
    BY <1>1 DEF JudgedInv, Met
  <2>1. appts[i].at + Grace <= quarter /\ appts[i].at \in Int /\ quarter \in Int
    <3>1. i \in Indices
      BY DEF InvTypes
    <3> QED BY <3>1, InvTypeFacts DEF ChargeInv
  <2>2. ~ (quarter < appts[i].at + Grace)
    BY <2>1 DEF Grace
  <2> QED BY <1>1, <2>2 DEF During
<1> QED BY <1>2, <1>3, <1>4

\* The driver reminds of an appointment once and judges it once.
LEMMA DriveKeeps == ASSUME InvInv, Drive PROVE InvInv'
<1> USE DEF InvInv
<1> DEFINE absent == {i \in Indices : VerdictDue(i) /\ ~Met(i)}
<1>1. /\ ~driven /\ driven' = TRUE
      /\ reminded' = [i \in Indices |-> reminded[i] + (IF ReminderDue(i) THEN 1 ELSE 0)]
      /\ stoodUp' = stoodUp \union absent
      /\ charged' = [i \in Indices |-> charged[i] + (IF i \in absent THEN 1 ELSE 0)]
      /\ UNCHANGED <<quarter, leapt, chatted, invites, appts, seen, cancelled, cuts>>
  BY DEF Drive
<1>2. PICK n \in Nat : n = Len(appts) /\ Indices = 1..n /\ Indices' = 1..n
  BY <1>1 DEF InvTypes, Indices
<1>3. \A i \in 1..n : reminded[i] \in {0, 1} /\ charged[i] \in Nat /\ appts[i] \in Appointments
  BY <1>2 DEF InvTypes
<1>4. ASSUME NEW i \in 1..n, ReminderDue(i) PROVE reminded[i] = 0
  BY <1>2, <1>3, <1>4 DEF ReminderDue
<1>5. /\ reminded' \in Seq({0, 1}) /\ Len(reminded') = n
      /\ \A i \in 1..n : reminded[i] = 1 => reminded'[i] = 1
      /\ \A i \in 1..n : ReminderDue(i) => reminded'[i] = 1
  <2>1. \A i \in 1..n : reminded'[i] \in {0, 1}
    BY <1>1, <1>2, <1>3, <1>4
  <2> QED BY <1>1, <1>2, <1>3, <1>4, <2>1
<1>6. charged' \in Seq(Nat) /\ Len(charged') = n
      /\ \A i \in 1..n : charged'[i] = charged[i] + (IF i \in absent THEN 1 ELSE 0)
  <2> HIDE DEF absent
  <2> QED BY <1>1, <1>2, <1>3
<1>7. InvTypes'
  BY <1>1, <1>2, <1>5, <1>6 DEF InvTypes
<1>8. RemindInv'
  <2> SUFFICES ASSUME ~leapt, NEW i \in 1..n, ~Off(i),
                      appts[i].made < appts[i].at, appts[i].at - Before <= quarter
               PROVE  HasReminder(i)'
    BY <1>1, <1>2 DEF RemindInv, Off
  <2>1. ASSUME NEW j \in 1..n, KeyOf(appts[j]) = KeyOf(appts[i]), reminded[j] > 0
        PROVE  HasReminder(i)'
    <3>1. reminded'[j] = 1
      BY <1>3, <1>5, <2>1
    <3> QED BY <1>1, <1>2, <2>1, <3>1 DEF HasReminder, KeyOf
  <2>2. CASE appts[i].at <= quarter
    <3>1. HasReminder(i)
      BY <1>1, <1>2, <2>2 DEF RemindInv
    <3> QED BY <1>2, <2>1, <3>1 DEF HasReminder
  <2>3. CASE ~ (appts[i].at <= quarter)
    <3>1. quarter < appts[i].at
      BY <1>3, <2>3 DEF InvTypes, Appointments
    <3>2. CASE ReminderDue(i)
      BY <1>1, <1>2, <1>5, <3>2 DEF HasReminder, KeyOf
    <3>3. CASE ~ReminderDue(i)
      BY <1>2, <2>1, <3>1, <3>3 DEF ReminderDue
    <3> QED BY <3>2, <3>3
  <2> QED BY <2>2, <2>3
<1>9. \A i \in absent : /\ i \in 1..n /\ cancelled[i] = 0 /\ i \notin stoodUp
                        /\ appts[i].at + Grace <= quarter /\ ~Met(i)
  BY <1>2, InvTypeFacts DEF VerdictDue, Off
<1>10. ChargeInv' /\ JudgedInv'
  <2> HIDE DEF absent
  <2>1. \A i \in stoodUp' : appts'[i].at + Grace <= quarter' /\ cancelled'[i] = 0
    BY <1>1, <1>9 DEF ChargeInv
  <2>2. cuts' = 0 => \A i \in 1..n : charged'[i] = cancelled'[i] + ForVerdict(i)'
    <3> SUFFICES ASSUME cuts = 0, NEW i \in 1..n
                 PROVE  charged'[i] = cancelled[i] + (IF i \in stoodUp \union absent THEN 1 ELSE 0)
      BY <1>1 DEF ForVerdict
    <3>1. charged[i] = cancelled[i] + (IF i \in stoodUp THEN 1 ELSE 0)
      BY <1>2 DEF ChargeInv, ForVerdict
    <3> QED BY <1>2, <1>6, <1>9, <3>1, InvTypeFacts
  <2>3. \A i : Met(i)' <=> Met(i)
    BY <1>1 DEF Met, During
  <2> QED BY <1>1, <1>2, <1>9, <2>1, <2>2, <2>3 DEF ChargeInv, JudgedInv
<1> QED BY <1>7, <1>8, <1>10

\* A tick or a quarter of an hour, with or without its driver.
LEMMA TimePassesKeeps == ASSUME InvInv, NextTick \/ Quarter PROVE InvInv'
<1> USE DEF InvInv
<1>1. UNCHANGED <<chatted, invites, appts, seen, reminded, stoodUp, cancelled, charged, cuts>>
      /\ driven' = FALSE
  BY DEF NextTick, Quarter
<1>2. quarter \in Int /\ \A i \in Indices : appts[i].at \in Int
  BY InvTypeFacts
<1>3. Indices' = Indices /\ stoodUp \subseteq Indices
  BY <1>1 DEF Indices, InvTypes
<1>4. CASE NextTick
  <2>1. driven /\ UNCHANGED <<quarter, leapt>>
    BY <1>4 DEF NextTick
  <2>2. InvTypes'
    BY <1>1, <1>3, <2>1 DEF InvTypes
  <2>3. RemindInv'
    <3> SUFFICES ASSUME ~leapt, NEW i \in Indices, ~Off(i), appts[i].made < appts[i].at,
                        appts[i].at <= quarter
                 PROVE  HasReminder(i)'
      BY <1>1, <1>3, <2>1 DEF RemindInv, Off
    <3>1. appts[i].at - Before <= quarter
      BY <1>2 DEF Before
    <3>2. HasReminder(i)
      BY <2>1, <3>1 DEF RemindInv
    <3> QED BY <1>1, <1>3, <3>2 DEF HasReminder
  <2>4. ChargeInv' /\ JudgedInv'
    BY <1>1, <1>3, <2>1 DEF ChargeInv, ForVerdict, JudgedInv, Met, During
  <2> QED BY <2>2, <2>3, <2>4
<1>5. CASE Quarter
  <2>1. quarter < LastQuarter /\ quarter' = quarter + 1 /\ leapt' = (leapt \/ ~driven)
    BY <1>5 DEF Quarter
  <2>2. InvTypes'
    <3>1. quarter' \in 0..LastQuarter
      BY <2>1, InvTypeFacts DEF InvTypes
    <3>2. leapt' \in BOOLEAN
      BY <2>1
    <3> QED BY <1>1, <1>3, <3>1, <3>2 DEF InvTypes
  <2>3. RemindInv'
    <3> SUFFICES ASSUME ~leapt, driven, NEW i \in Indices, ~Off(i), appts[i].made < appts[i].at,
                        appts[i].at <= quarter + 1
                 PROVE  HasReminder(i)'
      BY <1>1, <1>3, <2>1 DEF RemindInv, Off
    <3>1. appts[i].at - Before <= quarter
      BY <1>2 DEF Before
    <3>2. HasReminder(i)
      BY <3>1 DEF RemindInv
    <3> QED BY <1>1, <1>3, <3>2 DEF HasReminder
  <2>4. \A i \in stoodUp : appts[i].at + Grace <= quarter + 1
    BY <1>2, <1>3 DEF ChargeInv, Grace
  <2>5. ChargeInv' /\ JudgedInv'
    BY <1>1, <1>3, <2>1, <2>4 DEF ChargeInv, ForVerdict, JudgedInv, Met, During
  <2> QED BY <2>2, <2>3, <2>5
<1> QED BY <1>4, <1>5

\* Of an appointment that is due it is on record that it was reminded of, cancelled,
\* judged and charged, in whatever batches the driver runs (state_machine.drive_due).
THEOREM InvitationsAreSettled == InvSpec => []InvInv
<1>1. InvInv /\ [InvNext]_invVars => InvInv'
  <2> SUFFICES ASSUME InvInv, [InvNext]_invVars PROVE InvInv'
    OBVIOUS
  <2>1. CASE Settling
    BY <2>1, SendKeeps, AnswerKeeps, AcceptKeeps, CancelKeeps, HappensKeeps DEF Settling
  <2>2. CASE UNCHANGED invVars
    BY <2>2 DEF invVars, InvInv, InvTypes, RemindInv, ChargeInv, ForVerdict, JudgedInv, HasReminder,
                Off, Indices, Met, During
  <2> QED BY <2>1, <2>2, DriveKeeps, TimePassesKeeps DEF InvNext
<1> QED BY <1>1, InvInvInit, PTL DEF InvSpec

\* The invariant says what the runs check.
LEMMA SettledMeansOnceEach == ASSUME InvInv PROVE OnceEach /\ KeptIsNotBlamed /\ InvTypeOK
<1> USE DEF InvInv
<1>1. \A i \in Indices : reminded[i] \in {0, 1} /\ appts[i].at \in Int /\ quarter \in Int
  BY InvTypeFacts
<1>2. RemindedOnce
  <2> SUFFICES ASSUME ~leapt, NEW i \in Indices, appts[i].made < appts[i].at,
                      appts[i].at <= quarter, ~Off(i)
               PROVE  HasReminder(i)
    BY <1>1 DEF RemindedOnce, HasReminder
  <2>1. appts[i].at - Before <= quarter
    BY <1>1 DEF Before
  <2> QED BY <2>1 DEF RemindInv
<1>3. ChargedOnce
  <2> SUFFICES ASSUME cuts = 0, NEW i \in Indices
               PROVE  charged[i] <= 1 \/ charged[i] <= cancelled[i]
    BY DEF ChargedOnce
  <2>1. /\ charged[i] = cancelled[i] + ForVerdict(i) /\ cancelled[i] \in Nat
        /\ (i \in stoodUp => cancelled[i] = 0)
    BY InvTypeFacts DEF ChargeInv
  <2> QED BY <2>1 DEF ForVerdict
<1>4. InvTypeOK
  <2>1. \A i \in DOMAIN invites : invites[i].rounds \in 0..MaxRounds
    <3>1. \A v \in Invitations : v.rounds \in 0..MaxRounds
      BY DEF Invitations
    <3>2. DOMAIN invites = 1..Len(invites)
      BY DEF InvTypes
    <3> QED BY <3>1, <3>2, InvTypeFacts
  <2> QED BY <2>1, InvTypeFacts DEF InvTypeOK, InvTypes
<1> QED BY <1>2, <1>3, <1>4 DEF OnceEach, KeptIsNotBlamed, JudgedInv

\* However batches leap past quarters: an appointment is reminded of once, and ends in
\* one verdict unless an exception cut a cancellation short (state_machine.py,
\* drive_due).
THEOREM RemindedAndChargedOnce == InvSpec => []OnceEach
BY InvitationsAreSettled, SettledMeansOnceEach, PTL

\* No verdict on an appointment that was kept: both took part in an event within the
\* grace.
THEOREM NoBlameForAKeptAppointment == InvSpec => []KeptIsNotBlamed
BY InvitationsAreSettled, SettledMeansOnceEach, PTL

\* Every variable of the invitations keeps its type.
THEOREM InviteTypeCorrect == InvSpec => []InvTypeOK
BY InvitationsAreSettled, SettledMeansOnceEach, PTL

-----------------------------------------------------------------------------
(*****************************************************************************)
(* Cast: seats are not oversold, for any cast, any number of seats and any   *)
(* scores.                                                                   *)
(*****************************************************************************)
CastTypes ==
  /\ tier \in [Roles -> Tiers] /\ score \in [Roles -> {-1, 0, 1}]
  /\ named \in Nat

\* While the rotation changes tiers, who is to leave is a star, and leaves once.
LeavesOnce ==
  rotation \notin {"off", "forget"} =>
    /\ fall \subseteq Stars
    /\ rotation = "leaves" => pair.out \in Stars \ fall

\* Who is awaited: the successor of somebody who has left, or who fills a free seat.
Awaited == IF rotation = "comes" THEN 1 ELSE 0

\* There is a seat for every star and for whoever is awaited.
SeatForAll == Cardinality(Stars) + Awaited <= Seats + named

CastInv == CastTypes /\ LeavesOnce /\ SeatForAll

\* A set of characters has a first number.
LEMMA FirstExists ==
  ASSUME NEW A, A \subseteq Roles, A # {}
  PROVE  \E m \in A : \A n \in A : m <= n
<1> DEFINE T == {0..n : n \in A}
<1>1. IsWellFoundedOn(StrictSubsetOrdering(Nat), FiniteSubsetsOf(Nat))
  BY FS_StrictSubsetOrderingWellFounded
<1>2. T \subseteq FiniteSubsetsOf(Nat) /\ T # {}
  <2>1. ASSUME NEW n \in A PROVE 0..n \in FiniteSubsetsOf(Nat)
    <3>1. 0 \in Int /\ n \in Int /\ 0..n \subseteq Nat
      BY CastAssumption
    <3>2. IsFiniteSet(0..n)
      BY <3>1, FS_Interval
    <3> QED BY <3>1, <3>2 DEF FiniteSubsetsOf
  <2> QED BY <2>1
<1>3. PICK x \in T : \A y \in T : ~ (<<y, x>> \in StrictSubsetOrdering(Nat))
  <2> HIDE DEF T
  <2> QED BY <1>1, <1>2, WFMin
<1>4. PICK m \in A : x = 0..m
  OBVIOUS
<1>5. ASSUME NEW n \in A PROVE m <= n
  <2>1. ~ (<<0..n, 0..m>> \in StrictSubsetOrdering(Nat))
    BY <1>3, <1>4
  <2>2. m \in Nat /\ n \in Nat
    BY CastAssumption
  <2>3. 0..n \in SUBSET Nat /\ 0..m \in SUBSET Nat
    BY <2>2
  <2>4. ~ (0..n \subseteq 0..m /\ 0..n # 0..m)
    BY <2>1, <2>3 DEF StrictSubsetOrdering
  <2> QED BY <2>2, <2>4
<1> QED BY <1>5

\* Sorting by score, then by number, has a first.
LEMMA LowestIsOne ==
  ASSUME CastTypes, NEW A, A \subseteq Roles, A # {}
  PROVE  Lowest(A) \in A
<1> DEFINE Scoring(v) == {a \in A : score[a] = v}
<1>1. \A a \in A : score[a] \in {-1, 0, 1} /\ a \in Nat
  BY CastAssumption DEF CastTypes
<1>2. PICK v \in {-1, 0, 1} : Scoring(v) # {} /\ \A w \in {-1, 0, 1} : w < v => Scoring(w) = {}
  <2>1. CASE Scoring(-1) # {}
    BY <2>1
  <2>2. CASE Scoring(-1) = {} /\ Scoring(0) # {}
    BY <2>2
  <2>3. CASE Scoring(-1) = {} /\ Scoring(0) = {}
    <3>1. Scoring(1) # {}
      BY <2>3, <1>1
    <3> QED BY <2>3, <3>1
  <2> QED BY <2>1, <2>2, <2>3
<1>3. PICK m \in Scoring(v) : \A n \in Scoring(v) : m <= n
  BY <1>2, FirstExists
<1>4. ASSUME NEW b \in A PROVE score[m] < score[b] \/ (score[m] = score[b] /\ m <= b)
  <2>1. score[m] = v /\ score[b] \in {-1, 0, 1}
    BY <1>1, <1>3
  <2>2. ~ (score[b] < v)
    BY <1>2, <2>1
  <2> QED BY <2>1, <2>2, <1>3
<1>5. m \in A
  BY <1>3
<1> HIDE DEF Scoring
<1> QED BY <1>4, <1>5 DEF Lowest

\* Fewer people are no more, one more is at most one more.
LEMMA Counting ==
  ASSUME NEW A, A \subseteq Roles, NEW T, T \subseteq Roles
  PROVE  /\ IsFiniteSet(A) /\ Cardinality(A) \in Nat
         /\ T \subseteq A => Cardinality(T) <= Cardinality(A)
         /\ \A x : T \subseteq A \union {x} => Cardinality(T) <= Cardinality(A) + 1
         /\ \A x \in A : T \subseteq A \ {x} => Cardinality(T) <= Cardinality(A) - 1
<1>1. IsFiniteSet(A) /\ IsFiniteSet(T)
  BY CastAssumption, FS_Subset
<1>2. Cardinality(A) \in Nat /\ Cardinality(T) \in Nat
  BY <1>1, FS_CardinalityType
<1>3. T \subseteq A => Cardinality(T) <= Cardinality(A)
  BY <1>1, FS_Subset
<1>4. ASSUME NEW x, T \subseteq A \union {x} PROVE Cardinality(T) <= Cardinality(A) + 1
  <2>1. /\ IsFiniteSet(A \union {x})
        /\ Cardinality(A \union {x}) = IF x \in A THEN Cardinality(A) ELSE Cardinality(A) + 1
    BY <1>1, FS_AddElement
  <2>2. Cardinality(T) <= Cardinality(A \union {x})
    BY <1>4, <2>1, FS_Subset
  <2> QED BY <1>2, <2>1, <2>2
<1>5. ASSUME NEW x \in A, T \subseteq A \ {x} PROVE Cardinality(T) <= Cardinality(A) - 1
  <2>1. IsFiniteSet(A \ {x}) /\ Cardinality(A \ {x}) = Cardinality(A) - 1
    BY <1>1, FS_RemoveElement
  <2>2. Cardinality(T) <= Cardinality(A \ {x})
    BY <1>5, <2>1, FS_Subset
  <2> QED BY <1>2, <2>1, <2>2
<1> QED BY <1>1, <1>2, <1>3, <1>4, <1>5

\* What SeatForAll counts.
LEMMA Counted ==
  ASSUME CastTypes
  PROVE  /\ Stars \subseteq Roles /\ Cardinality(Stars) \in Nat
         /\ named \in Nat /\ Seats \in Nat /\ Awaited \in {0, 1}
<1>1. Stars \subseteq Roles
  BY DEF Stars, In
<1> QED BY <1>1, Counting, CastAssumption DEF CastTypes, Awaited

\* The rotation begins with its seats taken.
LEMMA CastInitInv == CastInit => CastInv
<1> SUFFICES ASSUME CastInit PROVE CastInv
  OBVIOUS
<1>1. CastTypes /\ LeavesOnce
  BY DEF CastInit, CastTypes, LeavesOnce
<1>2. Awaited = 0 /\ Cardinality(Stars) = Seats /\ named = 0 /\ Seats \in Nat
  BY CastAssumption DEF CastInit, Awaited
<1> QED BY <1>1, <1>2 DEF CastInv, SeatForAll

\* Whoever moves others than into or out of the star tier disturbs nothing: events,
\* invitations, evictions.
LEMMA ElsewhereInv ==
  ASSUME CastInv, tier' \in [Roles -> Tiers], Stars' = Stars,
         UNCHANGED <<named, score, fall, pair>>,
         rotation' = rotation \/ rotation' \in {"off", "forget"}
  PROVE  CastInv'
<1>1. CastTypes'
  BY DEF CastInv, CastTypes
<1>2. LeavesOnce'
  BY DEF CastInv, LeavesOnce
<1>3. Awaited' \in {0, Awaited}
  BY DEF Awaited
<1> QED BY <1>1, <1>2, <1>3, Counted DEF CastInv, SeatForAll

\* With the rotation over, or not begun, only the number of the stars matters.
LEMMA ReturnedInv ==
  ASSUME CastInv, tier' \in [Roles -> Tiers], score' \in [Roles -> {-1, 0, 1}], named' = named,
         rotation' \in {"off", "forget"},
         Stars' \subseteq Stars \/ (rotation = "comes" /\ \E x : Stars' \subseteq Stars \union {x})
  PROVE  CastInv'
<1>1. CastTypes' /\ LeavesOnce' /\ Awaited' = 0
  BY DEF CastInv, CastTypes, LeavesOnce, Awaited
<1>2. Stars' \subseteq Roles
  BY DEF Stars, In
<1>3. Cardinality(Stars') \in Nat
  BY <1>2, Counting
<1>4. CASE Stars' \subseteq Stars
  <2>1. Cardinality(Stars') <= Cardinality(Stars)
    BY <1>2, <1>4, Counted, Counting DEF CastInv
  <2> QED BY <1>1, <1>3, <2>1, Counted DEF CastInv, SeatForAll
<1>5. ASSUME rotation = "comes", NEW x, Stars' \subseteq Stars \union {x} PROVE CastInv'
  <2>1. Cardinality(Stars') <= Cardinality(Stars) + 1
    BY <1>2, <1>5, Counted, Counting DEF CastInv
  <2>2. Awaited = 1
    BY <1>5 DEF Awaited
  <2> QED BY <1>1, <1>3, <2>1, <2>2, Counted DEF CastInv, SeatForAll
<1> QED BY <1>4, <1>5

\* A nomination takes a seat of its own.
LEMMA NominateInv ==
  ASSUME CastInv, NEW a \in Roles, Nominate(a)
  PROVE  CastInv'
<1>1. CastTypes'
  BY DEF CastInv, CastTypes, Nominate, Tiers, local
<1>2. Stars' = Stars \union {a} /\ named' = named + 1
  BY DEF CastInv, CastTypes, Nominate, Stars, In
<1>3. UNCHANGED <<rotation, fall, pair>> /\ rotation \in {"off", "forget"}
  BY DEF Nominate, local, Free
<1>4. LeavesOnce'
  BY <1>3 DEF LeavesOnce
<1>5. Stars' \subseteq Roles
  BY DEF Stars, In
<1>6. Cardinality(Stars') <= Cardinality(Stars) + 1 /\ Cardinality(Stars') \in Nat
  BY <1>2, <1>5, Counted, Counting DEF CastInv
<1>7. Awaited' = Awaited
  BY <1>3 DEF Awaited
<1> QED BY <1>1, <1>2, <1>4, <1>6, <1>7, Counted DEF CastInv, SeatForAll

\* The rotation reads the rows: who is to fall is a star.
LEMMA RotateInv ==
  ASSUME CastInv, Rotate
  PROVE  CastInv'
<1>1. CastTypes' /\ UNCHANGED <<tier, named>>
  BY DEF CastInv, CastTypes, Rotate, tally
<1>2. Stars' = Stars /\ rotation' = "pairs"
  BY DEF Rotate, Stars, In
<1>3. LeavesOnce'
  BY <1>2 DEF LeavesOnce, Rotate
<1>4. Awaited' = 0
  BY <1>2 DEF Awaited
<1> QED BY <1>1, <1>2, <1>3, <1>4, Counted DEF CastInv, SeatForAll

\* Choosing who leaves and who comes changes no tier; only a seat that is free is filled
\* without anybody leaving.
LEMMA ChooseInv ==
  ASSUME CastInv, Exchange \/ Level
  PROVE  CastInv'
<1>1. UNCHANGED <<tier, named, score>> /\ rotation = "pairs"
  BY DEF Exchange, Level, table, tally
<1>2. CastTypes' /\ Stars' = Stars /\ fall \subseteq Stars
  BY <1>1 DEF CastInv, CastTypes, Stars, In, LeavesOnce
<1>3. /\ LeavesOnce'
      /\ rotation' = "comes" => Cardinality(Stars) < Seats
  <2>1. CASE Exchange
    <3>1. Lowest(fall) \in fall
      <4>1. fall # {} /\ fall \subseteq Roles
        BY <1>2, <2>1, Counted DEF Exchange, CastInv
      <4> QED BY <4>1, LowestIsOne DEF CastInv
    <3>2. /\ fall' = fall \ {Lowest(fall)}
          /\ \/ rotation' = "pairs"
             \/ rotation' = "leaves" /\ pair'.out = Lowest(fall)
      BY <1>1, <2>1 DEF Exchange
    <3> QED BY <3>1, <3>2, <1>2 DEF LeavesOnce
  <2>2. CASE Level /\ TooMany
    <3>1. Stars # {}
      <4>1. Cardinality(Stars) > Seats /\ Seats \in Nat
        BY <2>2, CastAssumption DEF TooMany
      <4>2. Cardinality({}) = 0
        BY FS_EmptySet
      <4> QED BY <4>1, <4>2
    <3>2. Lowest(Stars) \in Stars
      BY <3>1, Counted, LowestIsOne DEF CastInv
    <3>3. rotation' = "leaves" /\ pair'.out = Lowest(Stars) /\ fall' = fall /\ fall = {}
      <4>1. ~TooFew
        BY <2>2, Counted DEF TooMany, TooFew, CastInv
      <4> QED BY <4>1, <2>2 DEF Level
    <3> QED BY <3>2, <3>3, <1>2 DEF LeavesOnce
  <2>3. CASE Level /\ ~TooMany
    <3>1. TooFew /\ rotation' = "comes" /\ fall' = fall
      BY <2>3 DEF Level
    <3> QED BY <3>1, <1>2 DEF LeavesOnce, TooFew
  <2> QED BY <2>1, <2>2, <2>3
<1>4. /\ Awaited = 0 /\ Awaited' \in {0, 1}
      /\ Awaited' = 1 => Cardinality(Stars) < Seats
  BY <1>1, <1>3 DEF Awaited
<1> QED BY <1>1, <1>2, <1>3, <1>4, Counted DEF CastInv, SeatForAll

\* A star leaves, and its seat is kept for the successor.
LEMMA LeaveInv ==
  ASSUME CastInv, Leave
  PROVE  CastInv'
<1> DEFINE a == pair.out
<1>1. a \in Stars /\ a \notin fall /\ fall \subseteq Stars /\ rotation = "leaves"
  BY DEF Leave, CastInv, LeavesOnce
<1>2. CastTypes' /\ UNCHANGED <<named, fall>>
  BY DEF CastInv, CastTypes, Leave, Becomes, Tiers, tally
<1>3. Stars' = Stars \ {a}
  <2>1. tier' = [tier EXCEPT ![a] = "secondary"]
    BY DEF Leave, Becomes
  <2> QED BY <1>1, <2>1 DEF CastInv, CastTypes, Stars, In
<1>4. rotation' \in {"pairs", "comes"}
  BY DEF Leave
<1>5. LeavesOnce'
  BY <1>1, <1>2, <1>3, <1>4 DEF LeavesOnce
<1>6. Stars' \subseteq Roles
  BY <1>3, Counted DEF CastInv
<1>7. Cardinality(Stars') <= Cardinality(Stars) - 1 /\ Cardinality(Stars') \in Nat
  BY <1>1, <1>3, <1>6, Counted, Counting DEF CastInv
<1>8. Awaited' \in {0, 1} /\ Awaited = 0
  BY <1>1 DEF Awaited
<1> QED BY <1>2, <1>5, <1>7, <1>8, Counted DEF CastInv, SeatForAll

\* The successor takes the seat kept, or the one that is free.
LEMMA ComeInv ==
  ASSUME CastInv, Come
  PROVE  CastInv'
<1> DEFINE b == pair.in
<1>1. /\ rotation = "comes" /\ rotation' = "pairs" /\ UNCHANGED <<named, fall, score>>
      /\ fall \subseteq Stars
  BY DEF Come, tally, CastInv, LeavesOnce
<1>2. tier' = [tier EXCEPT ![b] = "star"]
  BY DEF Come, Becomes
<1>3. CastTypes'
  BY <1>1, <1>2 DEF CastInv, CastTypes, Tiers
<1>4. Stars \subseteq Stars' /\ Stars' \subseteq Stars \union {b}
  BY <1>2 DEF CastInv, CastTypes, Stars, In
<1>5. LeavesOnce'
  BY <1>1, <1>4 DEF LeavesOnce
<1>6. Stars' \subseteq Roles
  BY DEF Stars, In
<1>7. Cardinality(Stars') <= Cardinality(Stars) + 1 /\ Cardinality(Stars') \in Nat
  BY <1>4, <1>6, Counted, Counting DEF CastInv
<1>8. Awaited' = 0 /\ Awaited = 1
  BY <1>1 DEF Awaited
<1> QED BY <1>1, <1>3, <1>5, <1>7, <1>8, Counted DEF CastInv, SeatForAll

\* What an exception leaves: at most the one tier written without its event.
LEMMA CutInv ==
  ASSUME CastInv, CutShort
  PROVE  CastInv'
<1>0. tier \in [Roles -> Tiers]
  BY DEF CastInv, CastTypes
<1>1. rotation' = "off" /\ named' = named /\ score' \in [Roles -> {-1, 0, 1}]
  BY DEF CutShort, Returned, tally
<1>2. CASE tier' = tier
  <2>1. Stars' = Stars
    BY <1>2 DEF Stars, In
  <2> QED BY <1>0, <1>1, <1>2, <2>1, ReturnedInv
<1>3. ASSUME NEW w \in NextWrite, tier' = [tier EXCEPT ![w[1]] = w[2]]
      PROVE  CastInv'
  <2>1. w \in Roles \X Tiers /\ w[1] \in Roles /\ w[2] \in Tiers
    BY DEF NextWrite
  <2>2. tier' \in [Roles -> Tiers]
    BY <1>0, <1>3, <2>1
  <2>3. CASE w[2] = "star"
    <3>1. rotation = "comes"
      BY <2>3 DEF NextWrite
    <3>2. Stars' \subseteq Stars \union {w[1]}
      BY <1>0, <1>3, <2>1 DEF Stars, In
    <3> QED BY <1>1, <2>2, <3>1, <3>2, ReturnedInv
  <2>4. CASE w[2] # "star"
    <3>1. Stars' \subseteq Stars
      BY <1>0, <1>3, <2>1, <2>4 DEF Stars, In
    <3> QED BY <1>1, <2>2, <3>1, ReturnedInv
  <2> QED BY <2>3, <2>4
<1> QED BY <1>2, <1>3 DEF CutShort

\* Every step keeps the invariant.
LEMMA CastStepInv == CastInv /\ [CastNext]_castVars => CastInv'
<1> SUFFICES ASSUME CastInv, [CastNext]_castVars PROVE CastInv'
  OBVIOUS
<1>0. tier \in [Roles -> Tiers] /\ score \in [Roles -> {-1, 0, 1}]
  BY DEF CastInv, CastTypes
<1>2. ASSUME NEW x, NEW t \in Tiers \ {"star"}, Becomes(x, t), x \in Roles => tier[x] # "star"
      PROVE tier' \in [Roles -> Tiers] /\ Stars' = Stars
  BY <1>0, <1>2 DEF Becomes, Stars, In
<1>3. CASE tier' = tier /\ UNCHANGED <<named, score, fall, pair>>
           /\ (rotation' = rotation \/ rotation' \in {"off", "forget"})
  <2>1. Stars' = Stars
    BY <1>3 DEF Stars, In
  <2> QED BY <1>0, <1>3, <2>1, ElsewhereInv
<1>4. ASSUME NEW who \in Roles, NEW others \in SUBSET (Roles \ {who}), Scene(who, others)
      PROVE CastInv'
  BY <1>3, <1>4 DEF Scene, local
<1>5. ASSUME NEW by \in Roles, NEW a \in Roles, Invited(by, a) PROVE CastInv'
  <2>1. tier' \in [Roles -> Tiers] /\ Stars' = Stars
    BY <1>0, <1>5 DEF Invited, Stars, In, Tiers
  <2> QED BY <1>5, <2>1, ElsewhereInv DEF Invited, local
<1>6. ASSUME NEW a \in Roles, Nominate(a) PROVE CastInv'
  BY <1>6, NominateInv
<1>7. CASE OnEvent
  <2>1. UNCHANGED <<named, score, fall, pair, rotation>>
    BY <1>7 DEF OnEvent, tally, local
  <2>2. CASE tier' = tier
    BY <1>3, <2>1, <2>2
  <2>3. CASE tier[Min(targets)] = "background" /\ Becomes(Min(targets), "secondary")
    <3>1. tier' \in [Roles -> Tiers] /\ Stars' = Stars
      BY <1>2, <2>3 DEF Tiers
    <3> QED BY <2>1, <3>1, ElsewhereInv
  <2> QED BY <1>7, <2>2, <2>3 DEF OnEvent
<1>8. CASE EventEvicts \/ RotationEvicts
  <2>1. UNCHANGED <<named, score, fall, pair, rotation>>
    BY <1>8 DEF EventEvicts, RotationEvicts, tally, local
  <2>2. PICK a \in Secondary : Becomes(a, "background")
    BY <1>8 DEF EventEvicts, RotationEvicts, Evict
  <2>3. tier[a] # "star"
    BY DEF Secondary, In
  <2>4. tier' \in [Roles -> Tiers] /\ Stars' = Stars
    BY <1>2, <2>2, <2>3 DEF Tiers
  <2> QED BY <2>1, <2>4, ElsewhereInv
<1>10. CASE Forget
  <2>1. UNCHANGED <<named, score, fall, pair, rotation>> /\ rotation = "forget"
    BY <1>10 DEF Forget, tally
  <2>2. CASE tier' = tier
    BY <1>3, <2>1, <2>2
  <2>3. CASE Becomes(Min(forgotten), "background")
    <3>1. tier' \in [Roles -> Tiers] /\ Stars' \subseteq Stars
      BY <1>0, <2>3 DEF Becomes, Stars, In, Tiers
    <3> QED BY <1>0, <2>1, <3>1, ReturnedInv
  <2> QED BY <1>10, <2>2, <2>3 DEF Forget
<1>11. CASE EventDone \/ Morning
  BY <1>3, <1>11 DEF EventDone, Morning, table, tally, local
<1>12. CASE Rotate
  BY <1>12, RotateInv
<1>13. CASE Exchange \/ Level
  BY <1>13, ChooseInv
<1>14. CASE Leave
  BY <1>14, LeaveInv
<1>15. CASE Come
  BY <1>15, ComeInv
<1>16. CASE UNCHANGED castVars
  BY <1>3, <1>16 DEF castVars
<1>17. CASE RotationDone
  <2>1. Stars' = Stars /\ tier' = tier
    BY <1>17 DEF RotationDone, table, Stars, In
  <2>2. rotation' = "off" /\ score' \in [Roles -> {-1, 0, 1}] /\ named' = named
    BY <1>17 DEF RotationDone, Returned, tally
  <2> QED BY <1>0, <2>1, <2>2, ReturnedInv
<1>18. CASE CutShort
  BY <1>18, CutInv
<1> QED
  BY <1>4, <1>5, <1>6, <1>7, <1>8, <1>10, <1>11, <1>12, <1>13, <1>14, <1>15, <1>16, <1>17, <1>18
  DEF CastNext

\* Wherever an exception cuts a promotion or the nightly rotation short, the stars are no
\* more than the seats and those nominated (rotation.py, rotation_tick).
THEOREM SeatsAreNotOversold == CastSpec => []SeatsNotOversold
<1>1. CastInv => SeatsNotOversold
  BY Counted DEF CastInv, SeatForAll, SeatsNotOversold
<1> QED BY <1>1, CastInitInv, CastStepInv, PTL DEF CastSpec

\* How many days a character can have been counted outside the band: the day itself is
\* counted by its rotation.
DaysCounted == IF rotation = "forget" THEN stageDay - 2 ELSE stageDay - 1

\* What the day's churn still allows is enough for the exchange under way.
ChurnSuffices ==
  /\ churn \in Nat /\ churn <= ChurnCap
  /\ rotation = "comes" => churn + 1 <= ChurnCap
  /\ rotation = "leaves" => churn + 1 <= ChurnCap /\ (pair.in # Nobody => churn + 2 <= ChurnCap)

\* Nobody is seen on a day to come, and the counts do not run ahead of the days.
SeenInTime == lastSeen \in [Roles -> Nat] /\ \A a \in Roles : lastSeen[a] <= stageDay

CountsInTime ==
  /\ over \in [Roles -> Nat] /\ under \in [Roles -> Nat]
  /\ stageDay \in Nat \ {0} /\ (stageDay = 1 \/ stageDay <= LastDay)
  /\ rotation = "forget" => stageDay # 1
  /\ \A a \in Roles : over[a] <= DaysCounted /\ under[a] <= DaysCounted

CastSized == ChurnSuffices /\ SeenInTime /\ CountsInTime /\ targets \subseteq Roles /\ forgotten \subseteq Roles

\* The constants are numbers.
LEMMA CastConstants == ChurnCap \in Nat /\ LastDay \in Nat
BY CastAssumption

\* No day has been counted at the beginning.
LEMMA CastSizedInit == CastInit => CastSized
<1> SUFFICES ASSUME CastInit PROVE CastSized
  OBVIOUS
<1>1. ChurnSuffices
  BY CastConstants DEF CastInit, ChurnSuffices
<1>2. SeenInTime
  BY DEF CastInit, SeenInTime
<1>3. CountsInTime
  BY DEF CastInit, CountsInTime, DaysCounted
<1> QED BY <1>1, <1>2, <1>3 DEF CastSized, CastInit

\* A step that leaves day, counts and rotation alone, whoever changes tier.
LEMMA SceneSized ==
  ASSUME CastSized, UNCHANGED <<over, under, stageDay, churn, rotation, pair>>,
         lastSeen' \in [Roles -> Nat], \A a \in Roles : lastSeen'[a] = lastSeen[a] \/ lastSeen'[a] = stageDay,
         targets' \subseteq Roles, forgotten' \subseteq Roles
  PROVE  CastSized'
<1>1. ChurnSuffices'
  BY DEF CastSized, ChurnSuffices
<1>2. SeenInTime'
  BY DEF CastSized, SeenInTime, CountsInTime
<1>3. CountsInTime'
  BY DEF CastSized, CountsInTime, DaysCounted
<1> QED BY <1>1, <1>2, <1>3 DEF CastSized

\* Whoever changes tier is seen today.
LEMMA BecomesSeen ==
  ASSUME CastSized, NEW x, NEW t, Becomes(x, t)
  PROVE  /\ lastSeen' \in [Roles -> Nat]
         /\ \A a \in Roles : lastSeen'[a] = lastSeen[a] \/ lastSeen'[a] = stageDay
<1>1. stageDay \in Nat /\ lastSeen \in [Roles -> Nat]
  BY DEF CastSized, CountsInTime, SeenInTime
<1> QED BY <1>1 DEF Becomes

\* Events, invitations, nominations, evictions and the forgotten.
LEMMA ElsewhereSized ==
  ASSUME CastSized,
         \/ \E who \in Roles : \E others \in SUBSET (Roles \ {who}) : Scene(who, others)
         \/ \E by, a \in Roles : Invited(by, a)
         \/ \E a \in Roles : Nominate(a)
         \/ OnEvent \/ EventEvicts \/ EventDone \/ Forget \/ RotationEvicts
  PROVE  CastSized'
<1>0. /\ stageDay \in Nat /\ lastSeen \in [Roles -> Nat] /\ targets \subseteq Roles
      /\ forgotten \subseteq Roles
  BY DEF CastSized, CountsInTime, SeenInTime
<1>1. UNCHANGED <<over, under, stageDay, churn, rotation, pair>>
  BY DEF Scene, Invited, Nominate, OnEvent, EventEvicts, EventDone, Forget,
         RotationEvicts, table, bands, tally, local
<1>2. targets' \subseteq Roles /\ forgotten' \subseteq Roles
  BY <1>0 DEF Scene, Invited, Nominate, OnEvent, EventEvicts, EventDone, Forget,
         RotationEvicts, scene, local
<1>3. /\ lastSeen' \in [Roles -> Nat]
      /\ \A a \in Roles : lastSeen'[a] = lastSeen[a] \/ lastSeen'[a] = stageDay
  <2>1. CASE lastSeen' = lastSeen
    BY <1>0, <2>1
  <2>2. ASSUME NEW x, NEW t, Becomes(x, t)
        PROVE  /\ lastSeen' \in [Roles -> Nat]
               /\ \A a \in Roles : lastSeen'[a] = lastSeen[a] \/ lastSeen'[a] = stageDay
    BY <2>2, BecomesSeen
  <2>3. ASSUME NEW who \in Roles, NEW others \in SUBSET (Roles \ {who}), Scene(who, others)
        PROVE  /\ lastSeen' \in [Roles -> Nat]
               /\ \A a \in Roles : lastSeen'[a] = lastSeen[a] \/ lastSeen'[a] = stageDay
    BY <1>0, <2>3 DEF Scene
  <2>4. ASSUME NEW by \in Roles, NEW a \in Roles, Invited(by, a)
        PROVE  /\ lastSeen' \in [Roles -> Nat]
               /\ \A b \in Roles : lastSeen'[b] = lastSeen[b] \/ lastSeen'[b] = stageDay
    BY <1>0, <2>4 DEF Invited
  <2>6. ASSUME NEW a, lastSeen' = [lastSeen EXCEPT ![a] = stageDay]
        PROVE  /\ lastSeen' \in [Roles -> Nat]
               /\ \A b \in Roles : lastSeen'[b] = lastSeen[b] \/ lastSeen'[b] = stageDay
    BY <1>0, <2>6
  <2>5. \/ lastSeen' = lastSeen \/ \E x, t : Becomes(x, t)
        \/ \E a : lastSeen' = [lastSeen EXCEPT ![a] = stageDay]
        \/ \E who \in Roles : \E others \in SUBSET (Roles \ {who}) : Scene(who, others)
        \/ \E by, a \in Roles : Invited(by, a)
    BY DEF Nominate, OnEvent, EventEvicts, EventDone, Forget, RotationEvicts, Evict, table
  <2> QED BY <2>1, <2>2, <2>3, <2>4, <2>5, <2>6
<1> QED BY <1>1, <1>2, <1>3, SceneSized

\* A new day: what is forgotten is read, and the day's rotation is yet to count it.
LEMMA MorningSized == ASSUME CastSized, Morning PROVE CastSized'
<1>1. /\ stageDay \in Nat \ {0} /\ stageDay' = stageDay + 1 /\ stageDay < LastDay /\ LastDay \in Nat
      /\ rotation' = "forget"
      /\ UNCHANGED <<over, under, lastSeen, churn, targets, pair>>
  BY CastConstants DEF Morning, table, bands, scene, CastSized, CountsInTime
<1>2. forgotten' \subseteq Roles
  BY DEF Morning, Secondary, In
<1>3. ChurnSuffices'
  BY <1>1 DEF CastSized, ChurnSuffices
<1>4. SeenInTime'
  <2>1. \A a \in Roles : lastSeen[a] \in Nat /\ lastSeen[a] <= stageDay
    BY DEF CastSized, SeenInTime
  <2>2. \A a \in Roles : lastSeen'[a] <= stageDay'
    BY <1>1, <2>1
  <2> QED BY <1>1, <2>2 DEF CastSized, SeenInTime
<1>5. CountsInTime'
  <2>1. DaysCounted = stageDay - 1 /\ DaysCounted' = stageDay - 1
    BY <1>1 DEF DaysCounted, Morning, Free
  <2> QED BY <1>1, <2>1 DEF CastSized, CountsInTime
<1> QED BY <1>1, <1>2, <1>3, <1>4, <1>5 DEF CastSized

\* The day is counted once.
LEMMA RotateSized == ASSUME CastSized, Rotate PROVE CastSized'
<1>1. /\ rotation = "forget" /\ rotation' = "pairs" /\ churn' = 0
      /\ UNCHANGED <<lastSeen, stageDay, targets, forgotten>>
      /\ \E s : /\ over' = [a \in Roles |-> IF s[a] > 0 THEN over[a] + 1 ELSE 0]
                /\ under' = [a \in Roles |-> IF s[a] < 0 THEN under[a] + 1 ELSE 0]
  BY DEF Rotate, CountDays, tally, scene
<1>2. ChurnSuffices'
  BY <1>1, CastConstants DEF ChurnSuffices
<1>3. SeenInTime'
  BY <1>1 DEF CastSized, SeenInTime
<1>4. CountsInTime'
  <2>1. /\ stageDay \in Nat \ {0, 1} /\ DaysCounted = stageDay - 2 /\ DaysCounted' = stageDay - 1
        /\ \A a \in Roles : over[a] \in Nat /\ under[a] \in Nat /\ over[a] <= stageDay - 2
                            /\ under[a] <= stageDay - 2
    BY <1>1 DEF DaysCounted, CastSized, CountsInTime
  <2>2. \A a \in Roles : /\ over'[a] \in Nat /\ over'[a] <= stageDay - 1
                         /\ under'[a] \in Nat /\ under'[a] <= stageDay - 1
    BY <1>1, <2>1
  <2>3. over' \in [Roles -> Nat] /\ under' \in [Roles -> Nat]
    BY <1>1, <2>1
  <2> QED BY <1>1, <2>1, <2>2, <2>3 DEF CastSized, CountsInTime
<1> QED BY <1>1, <1>2, <1>3, <1>4 DEF CastSized

\* An exchange begins only if the churn allows both of its steps; each step counts.
LEMMA ExchangeSized ==
  ASSUME CastSized, Exchange \/ Level \/ Leave \/ Come
  PROVE  CastSized'
<1>0. churn \in Nat /\ ChurnCap \in Nat /\ churn <= ChurnCap
  BY CastConstants DEF CastSized, ChurnSuffices
<1>1. rotation # "forget" /\ rotation' # "forget" /\ UNCHANGED <<stageDay, targets, forgotten>>
  BY DEF Exchange, Level, Leave, Come, tally, scene, local
<1>2. ChurnSuffices'
  <2>1. CASE Exchange
    BY <1>0, <2>1 DEF Exchange, ChurnSuffices
  <2>2. CASE Level
    BY <1>0, <2>2 DEF Level, local, ChurnSuffices
  <2>3. CASE Leave
    <3>1. rotation = "leaves" /\ churn' = churn + 1
          /\ (rotation' = "pairs" \/ (rotation' = "comes" /\ pair.in # Nobody))
      BY <2>3 DEF Leave
    <3>2. churn + 1 <= ChurnCap /\ (pair.in # Nobody => churn + 2 <= ChurnCap)
      BY <3>1 DEF CastSized, ChurnSuffices
    <3> QED BY <1>0, <3>1, <3>2 DEF ChurnSuffices
  <2>4. CASE Come
    <3>1. rotation = "comes" /\ churn' = churn + 1 /\ rotation' = "pairs"
      BY <2>4 DEF Come
    <3>2. churn + 1 <= ChurnCap
      BY <3>1 DEF CastSized, ChurnSuffices
    <3> QED BY <1>0, <3>1, <3>2 DEF ChurnSuffices
  <2> QED BY <2>1, <2>2, <2>3, <2>4
<1>3. SeenInTime'
  <2>1. CASE lastSeen' = lastSeen
    BY <1>1, <2>1 DEF CastSized, SeenInTime
  <2>2. ASSUME NEW x, NEW t, Becomes(x, t) PROVE SeenInTime'
    BY <1>1, <2>2, BecomesSeen DEF CastSized, SeenInTime, CountsInTime
  <2>3. lastSeen' = lastSeen \/ \E x, t : Becomes(x, t)
    BY DEF Exchange, Level, Leave, Come, table
  <2> QED BY <2>1, <2>2, <2>3
<1>4. CountsInTime'
  <2>1. DaysCounted = stageDay - 1 /\ DaysCounted' = stageDay - 1 /\ stageDay \in Nat \ {0}
    BY <1>1 DEF DaysCounted, CastSized, CountsInTime
  <2>2. over \in [Roles -> Nat] /\ under \in [Roles -> Nat]
        /\ \A a \in Roles : over[a] <= stageDay - 1 /\ under[a] <= stageDay - 1
    BY <2>1 DEF CastSized, CountsInTime
  <2>3. \/ over' = over /\ under' = under
        \/ \E x : over' = [over EXCEPT ![x] = 0] /\ under' = [under EXCEPT ![x] = 0]
    BY DEF Exchange, Level, Leave, Come, table
  <2>4. /\ over' \in [Roles -> Nat] /\ under' \in [Roles -> Nat]
        /\ \A a \in Roles : over'[a] <= stageDay - 1 /\ under'[a] <= stageDay - 1
    BY <2>1, <2>2, <2>3
  <2> QED BY <1>1, <2>1, <2>4 DEF CastSized, CountsInTime
<1> QED BY <1>1, <1>2, <1>3, <1>4 DEF CastSized

\* The rotation is over, or cut short: perhaps within the counting of the day.
LEMMA ReturnedSized ==
  ASSUME CastSized, RotationDone \/ CutShort
  PROVE  CastSized'
<1>1. /\ rotation' = "off" /\ churn' = 0 /\ UNCHANGED <<stageDay, lastSeen>>
      /\ targets' \subseteq Roles /\ forgotten' \subseteq Roles
  BY DEF RotationDone, CutShort, Returned, table, tally, scene, CastSized
<1>2. ChurnSuffices' /\ SeenInTime'
  BY <1>1, CastConstants DEF CastSized, ChurnSuffices, SeenInTime
<1>3. CountsInTime'
  <2>1. /\ stageDay \in Nat \ {0} /\ DaysCounted' = stageDay - 1
        /\ rotation # "forget" => DaysCounted = stageDay - 1
        /\ rotation = "forget" => stageDay # 1 /\ DaysCounted = stageDay - 2
    BY <1>1 DEF DaysCounted, CastSized, CountsInTime
  <2>2. \A a \in Roles : /\ over[a] \in Nat /\ over[a] <= DaysCounted
                         /\ under[a] \in Nat /\ under[a] <= DaysCounted
    BY DEF CastSized, CountsInTime
  <2>3. over \in [Roles -> Nat] /\ under \in [Roles -> Nat]
    BY DEF CastSized, CountsInTime
  <2>4. /\ over' \in [Roles -> Nat] /\ under' \in [Roles -> Nat]
        /\ \A a \in Roles : over'[a] <= stageDay - 1 /\ under'[a] <= stageDay - 1
    <3>1. CASE over' = over /\ under' = under
      BY <2>1, <2>2, <2>3, <3>1
    <3>2. ASSUME NEW x, over' = [over EXCEPT ![x] = 0], under' = [under EXCEPT ![x] = 0]
          PROVE  /\ over' \in [Roles -> Nat] /\ under' \in [Roles -> Nat]
                 /\ \A a \in Roles : over'[a] <= stageDay - 1 /\ under'[a] <= stageDay - 1
      <4>1. \A a \in Roles : /\ over'[a] = over[a] \/ over'[a] = 0
                             /\ under'[a] = under[a] \/ under'[a] = 0
        BY <2>3, <3>2
      <4>2. DaysCounted <= stageDay - 1 /\ stageDay - 1 \in Nat /\ DaysCounted \in Int
        BY <2>1
      <4>3. \A a \in Roles : over'[a] <= stageDay - 1 /\ under'[a] <= stageDay - 1
        BY <2>2, <4>1, <4>2
      <4>4. over' \in [Roles -> Nat] /\ under' \in [Roles -> Nat]
        BY <2>3, <3>2
      <4> QED BY <4>3, <4>4
    <3>3. ASSUME NEW points, NEW A, CountDays(points, A), rotation = "forget"
          PROVE  /\ over' \in [Roles -> Nat] /\ under' \in [Roles -> Nat]
                 /\ \A a \in Roles : over'[a] <= stageDay - 1 /\ under'[a] <= stageDay - 1
      <4>1. \A a \in Roles : /\ over'[a] = over[a] \/ over'[a] = over[a] + 1 \/ over'[a] = 0
                             /\ under'[a] = under[a] \/ under'[a] = under[a] + 1 \/ under'[a] = 0
        BY <3>3 DEF CountDays
      <4>2. stageDay \in Nat \ {0, 1} /\ DaysCounted = stageDay - 2
        BY <2>1, <3>3
      <4>3. \A a \in Roles : /\ over'[a] \in Nat /\ over'[a] <= stageDay - 1
                             /\ under'[a] \in Nat /\ under'[a] <= stageDay - 1
        BY <2>2, <4>1, <4>2
      <4>4. over' \in [Roles -> Nat]
        <5>1. over' = [a \in Roles |->
                        IF a \notin A THEN over[a] ELSE IF points[a] > 0 THEN over[a] + 1 ELSE 0]
          BY <3>3 DEF CountDays
        <5> QED BY <4>3, <5>1
      <4>5. under' \in [Roles -> Nat]
        <5>1. under' = [a \in Roles |->
                         IF a \notin A THEN under[a] ELSE IF points[a] < 0 THEN under[a] + 1 ELSE 0]
          BY <3>3 DEF CountDays
        <5> QED BY <4>3, <5>1
      <4> QED BY <4>3, <4>4, <4>5
    <3>4. \/ over' = over /\ under' = under
          \/ \E x : over' = [over EXCEPT ![x] = 0] /\ under' = [under EXCEPT ![x] = 0]
          \/ rotation = "forget" /\ \E points, A : CountDays(points, A)
      BY DEF RotationDone, CutShort, table, bands
    <3> QED BY <3>1, <3>2, <3>3, <3>4
  <2> QED BY <1>1, <2>1, <2>4 DEF CastSized, CountsInTime
<1> QED BY <1>1, <1>2, <1>3 DEF CastSized

\* Every step.
LEMMA CastSizedStep == CastSized /\ [CastNext]_castVars => CastSized'
<1> SUFFICES ASSUME CastSized, [CastNext]_castVars PROVE CastSized'
  OBVIOUS
<1>1. CASE UNCHANGED castVars
  BY <1>1 DEF castVars, CastSized, ChurnSuffices, SeenInTime, CountsInTime, DaysCounted
<1> QED BY <1>1, ElsewhereSized, MorningSized, RotateSized, ExchangeSized, ReturnedSized DEF CastNext

\* The counts of days outside the band, the days somebody was seen on and the day's churn
\* stay within their bounds, wherever a rotation is cut short (rotation.py,
\* daily_churn_cap).
THEOREM CastTypeCorrect == CastSpec => []CastTypeOK
<1>1. ASSUME CastInv, CastSized PROVE CastTypeOK
  <2>1. /\ stageDay \in Nat \ {0} /\ LastDay \in Nat /\ (stageDay = 1 \/ stageDay <= LastDay)
        /\ DaysCounted \in Int /\ DaysCounted <= stageDay - 1
    BY <1>1, CastConstants DEF CastSized, CountsInTime, DaysCounted
  <2>2. \A a \in Roles : over[a] \in 0..LastDay /\ under[a] \in 0..LastDay
    <3>1. \A a \in Roles : /\ over[a] \in Nat /\ over[a] <= DaysCounted
                           /\ under[a] \in Nat /\ under[a] <= DaysCounted
      BY <1>1 DEF CastSized, CountsInTime
    <3> QED BY <2>1, <3>1
  <2>3. over \in [Roles -> 0..LastDay] /\ under \in [Roles -> 0..LastDay]
    BY <1>1, <2>2 DEF CastSized, CountsInTime
  <2>4. lastSeen \in [Roles -> 0..stageDay]
    BY <1>1, <2>1 DEF CastSized, SeenInTime
  <2>5. churn \in 0..ChurnCap
    BY <1>1, CastConstants DEF CastSized, ChurnSuffices
  <2> QED BY <1>1, <2>3, <2>4, <2>5 DEF CastInv, CastTypes, CastSized, CastTypeOK
<1> QED BY <1>1, CastInitInv, CastStepInv, CastSizedInit, CastSizedStep, PTL DEF CastSpec

-----------------------------------------------------------------------------
(*****************************************************************************)
(* Talk: topics rest, for any number of people, topics and chats and any     *)
(* length of the rest.                                                       *)
(*****************************************************************************)
Events == [at : Nat, pair : SUBSET Talkers, topics : SUBSET Topics,
           how : {"select", "fallback", "forced"}, noted : SUBSET Talkers]

Chats == [stage : {"ask", "heard", "said", "half"}, pair : Talkers \X Talkers,
          topics : SUBSET Topics, how : {"select", "fallback", "forced"}, asked : 0..1]

TalkTypes ==
  /\ atHour \in Nat /\ rests \in [Talkers -> [Topics -> Nat]] /\ told \in Seq(Events)
  /\ chat.stage # "none" => chat \in Chats

\* Whoever has noted a topic rests it for as long, counted from the chat on or later; nobody
\* rests longer than from this hour on.
NotedRests ==
  /\ \A i \in DOMAIN told : \A p \in told[i].noted : \A t \in told[i].topics :
       rests[p][t] >= told[i].at + RestHours
  /\ \A i \in DOMAIN told : told[i].at <= atHour
  /\ \A p \in Talkers, t \in Topics : rests[p][t] <= atHour + RestHours

\* Until it is told, a freely chosen topic rests with neither of the two.
ChosenIsOpen ==
  chat.stage \in {"ask", "heard"} /\ chat.how = "select" =>
    \A t \in chat.topics : rests[chat.pair[1]][t] <= atHour /\ rests[chat.pair[2]][t] <= atHour

\* What is being noted is what was told last.
LastIsNoted ==
  chat.stage \in {"said", "half"} =>
    /\ Len(told) > 0 /\ told[Len(told)].at = atHour /\ told[Len(told)].topics = chat.topics

TalkInv == TalkTypes /\ NotedRests /\ ChosenIsOpen /\ LastIsNoted /\ TopicsRest

\* Nothing has been told at the beginning.
LEMMA TalkInitInv == TalkInit => TalkInv
BY TalkAssumption
   DEF TalkInit, TalkInv, TalkTypes, NotedRests, ChosenIsOpen, LastIsNoted, TopicsRest, NoChat

\* A chat begins with topics that neither of the two rests.
LEMMA BeginInv == ASSUME TalkInv, NEW a \in Talkers, NEW b \in Talkers, Begin(a, b) PROVE TalkInv'
<1>1. /\ chat.stage = "none" /\ UNCHANGED <<atHour, rests, told>>
      /\ chat'.stage = "ask" /\ chat'.pair = <<a, b>>
  BY DEF Begin
<1>2. /\ chat' \in Chats
      /\ chat'.how = "select" => chat'.topics \subseteq Topics \ Resting(a, b)
  BY DEF Begin, Draws, RestedLongest, Of, Chats
<1>3. chat'.how = "select" =>
        \A t \in chat'.topics : rests[a][t] <= atHour /\ rests[b][t] <= atHour
  BY <1>2 DEF Resting, TalkInv, TalkTypes
<1>4. TalkTypes' /\ LastIsNoted'
  BY <1>1, <1>2 DEF TalkInv, TalkTypes, LastIsNoted
<1>5. ChosenIsOpen'
  BY <1>1, <1>3 DEF ChosenIsOpen
<1>6. NotedRests' /\ TopicsRest'
  BY <1>1 DEF TalkInv, NotedRests, TopicsRest
<1> QED BY <1>4, <1>5, <1>6 DEF TalkInv

\* Generating anew, or giving way to a conflict, frees no topic that rests.
LEMMA GenerateInv == TalkInv /\ (Generate \/ Touched) => TalkInv'
<1> SUFFICES ASSUME TalkInv, Generate \/ Touched PROVE TalkInv'
  OBVIOUS
<1>1. UNCHANGED <<atHour, rests, told>>
  BY DEF Generate, Touched
<1>2. CASE Generate
  <2>1. /\ chat.stage = "ask" /\ chat'.stage \in {"ask", "heard"} /\ chat'.how = chat.how
        /\ chat'.topics = chat.topics /\ chat'.pair = chat.pair
        /\ chat' \in Chats
    <3>1. chat.stage = "ask" /\ chat \in Chats
      BY <1>2 DEF Generate, TalkInv, TalkTypes
    <3>2. \/ chat' = [chat EXCEPT !.asked = 1] \/ chat' = [chat EXCEPT !.stage = "heard"]
      BY <1>2 DEF Generate
    <3> QED BY <3>1, <3>2 DEF Chats
  <2> QED BY <1>1, <2>1
          DEF TalkInv, TalkTypes, NotedRests, ChosenIsOpen, LastIsNoted, TopicsRest
<1>3. CASE Touched
  <2>1. PICK t \in Forced(chat.pair[1], chat.pair[2]) :
          chat' = [chat EXCEPT !.topics = {t}, !.how = "forced"]
    BY <1>3 DEF Touched
  <2>2. t \in Topics /\ chat.stage = "heard"
    BY <1>3 DEF Forced, RestedLongest, Of, Touched
  <2>3. /\ chat'.stage = "heard" /\ chat'.how = "forced"
        /\ chat' \in Chats
    BY <2>1, <2>2 DEF TalkInv, TalkTypes, Chats
  <2> QED BY <1>1, <2>3
          DEF TalkInv, TalkTypes, NotedRests, ChosenIsOpen, LastIsNoted, TopicsRest
<1> QED BY <1>2, <1>3

\* When a chat is told, all that was noted earlier of its topics is over.
LEMMA SayInv == TalkInv /\ Say => TalkInv'
<1> SUFFICES ASSUME TalkInv, Say PROVE TalkInv'
  OBVIOUS
<1> DEFINE e == [at |-> atHour, pair |-> ToSet(chat.pair), topics |-> chat.topics,
                 how |-> chat.how, noted |-> {}]
           n == Len(told)
<1>1. /\ chat.stage = "heard" /\ told' = Append(told, e) /\ chat' = [chat EXCEPT !.stage = "said"]
      /\ UNCHANGED <<atHour, rests>>
  BY DEF Say
<1>2. /\ chat.pair \in Talkers \X Talkers /\ chat.topics \subseteq Topics
      /\ chat.how \in {"select", "fallback", "forced"}
      /\ n \in Nat /\ told \in Seq(Events) /\ atHour \in Nat
  BY <1>1 DEF TalkInv, TalkTypes, Chats
<1>3. ToSet(chat.pair) = {chat.pair[1], chat.pair[2]}
  BY <1>2 DEF ToSet
<1>4. e \in Events
  BY <1>2, <1>3 DEF Events
<1> HIDE DEF e, n
<1>5. /\ told' \in Seq(Events) /\ DOMAIN told' = 1..(n + 1) /\ DOMAIN told = 1..n
      /\ told'[n + 1] = e /\ Len(told') = n + 1
      /\ \A i \in 1..n : told'[i] = told[i]
  BY <1>1, <1>2, <1>4 DEF n
<1>6. TalkTypes'
  BY <1>1, <1>5 DEF TalkInv, TalkTypes, Chats
<1>7. NotedRests'
  <2>1. e.noted = {} /\ e.at = atHour
    BY DEF e
  <2> QED BY <1>1, <1>2, <1>5, <2>1 DEF TalkInv, NotedRests
<1>8. ChosenIsOpen' /\ LastIsNoted'
  <2>1. chat'.stage = "said" /\ chat'.topics = chat.topics
    BY <1>1 DEF TalkInv, TalkTypes, Chats
  <2>2. e.at = atHour /\ e.topics = chat.topics
    BY DEF e
  <2> QED BY <1>1, <1>2, <1>5, <2>1, <2>2 DEF ChosenIsOpen, LastIsNoted
<1>9. TopicsRest'
  <2> SUFFICES ASSUME NEW i \in DOMAIN told', NEW j \in DOMAIN told', i < j,
                      told'[j].how = "select",
                      told'[i].noted \intersect told'[j].pair # {},
                      told'[i].topics \intersect told'[j].topics # {}
               PROVE  told'[j].at - told'[i].at >= RestHours
    BY DEF TopicsRest
  <2>1. i \in 1..n /\ told'[i] = told[i]
    BY <1>2, <1>5
  <2>2. CASE j \in 1..n
    BY <1>5, <2>1, <2>2 DEF TalkInv, TopicsRest
  <2>3. CASE j = n + 1
    <3>1. /\ e.how = chat.how /\ e.topics = chat.topics /\ e.at = atHour
          /\ e.pair = {chat.pair[1], chat.pair[2]}
      BY <1>3 DEF e
    <3>2. PICK p \in told[i].noted, t \in told[i].topics : p \in e.pair /\ t \in chat.topics
      BY <1>5, <2>1, <2>3, <3>1
    <3>3. chat.how = "select" /\ p \in {chat.pair[1], chat.pair[2]}
      BY <1>5, <2>3, <3>1, <3>2
    <3>4. rests[p][t] <= atHour
      BY <1>1, <3>2, <3>3 DEF TalkInv, ChosenIsOpen
    <3>5. rests[p][t] >= told[i].at + RestHours
      BY <1>5, <2>1, <3>2 DEF TalkInv, NotedRests
    <3>6. rests[p][t] \in Nat /\ told[i].at \in Nat /\ RestHours \in Nat
      <4>1. p \in Talkers /\ t \in Topics
        BY <1>2, <3>2, <3>3
      <4>2. told[i] \in Events
        BY <1>2, <1>5, <2>1
      <4> QED BY <4>1, <4>2, TalkAssumption DEF TalkInv, TalkTypes, Events
    <3>7. told'[j].at = atHour
      BY <1>5, <2>3, <3>1
    <3> QED BY <1>2, <2>1, <3>4, <3>5, <3>6, <3>7
  <2> QED BY <1>2, <1>5, <2>2, <2>3
<1> QED BY <1>6, <1>7, <1>8, <1>9 DEF TalkInv

\* Noting the topics of the last chat lengthens rests and nothing else.
LEMMA MarkUsedInv == TalkInv /\ MarkUsed => TalkInv'
<1> SUFFICES ASSUME TalkInv, MarkUsed PROVE TalkInv'
  OBVIOUS
<1> DEFINE p == chat.pair[IF chat.stage = "said" THEN 1 ELSE 2]
           n == Len(told)
<1>1. /\ chat.stage \in {"said", "half"} /\ UNCHANGED atHour
      /\ rests' = [rests EXCEPT ![p] = [t \in Topics |->
                     IF t \in chat.topics THEN atHour + RestHours ELSE rests[p][t]]]
      /\ told' = [told EXCEPT ![n].noted = @ \union {p}]
      /\ chat' = IF chat.stage = "said" THEN [chat EXCEPT !.stage = "half"] ELSE NoChat
  BY DEF MarkUsed
<1>2. /\ chat.pair \in Talkers \X Talkers /\ chat.topics \subseteq Topics
      /\ n \in Nat /\ told \in Seq(Events) /\ atHour \in Nat /\ DOMAIN told = 1..n
      /\ rests \in [Talkers -> [Topics -> Nat]]
  BY <1>1 DEF TalkInv, TalkTypes, Chats
<1>3. p \in Talkers
  BY <1>2
<1>4. n \in DOMAIN told /\ told[n].at = atHour /\ told[n].topics = chat.topics
  BY <1>1, <1>2 DEF TalkInv, LastIsNoted
<1> HIDE DEF p, n
<1>5. told[n] \in Events
  BY <1>2, <1>4
<1>6. /\ told' \in Seq(Events) /\ Len(told') = n /\ DOMAIN told' = 1..n
      /\ \A i \in 1..n : /\ told'[i].at = told[i].at /\ told'[i].topics = told[i].topics
                         /\ told'[i].how = told[i].how /\ told'[i].pair = told[i].pair
      /\ \A i \in 1..n : i # n => told'[i] = told[i]
      /\ told'[n].noted = told[n].noted \union {p}
  <2>1. [told[n] EXCEPT !.noted = @ \union {p}] \in Events
    BY <1>3, <1>5 DEF Events
  <2>2. told' = [told EXCEPT ![n] = [told[n] EXCEPT !.noted = @ \union {p}]]
    BY <1>1
  <2> DEFINE last == [told[n] EXCEPT !.noted = @ \union {p}]
  <2>3. /\ last.at = told[n].at /\ last.topics = told[n].topics /\ last.how = told[n].how
        /\ last.pair = told[n].pair /\ last.noted = told[n].noted \union {p}
    BY <1>5 DEF Events
  <2> HIDE DEF last
  <2>4. told' = [told EXCEPT ![n] = last] /\ last \in Events
    BY <2>1, <2>2 DEF last
  <2>5. told' \in Seq(Events) /\ Len(told') = n /\ DOMAIN told' = 1..n
    BY <1>2, <1>4, <2>4 DEF n
  <2>6. told'[n] = last /\ \A i \in 1..n : i # n => told'[i] = told[i]
    BY <1>2, <1>4, <2>4
  <2>7. ASSUME NEW i \in 1..n
        PROVE  /\ told'[i].at = told[i].at /\ told'[i].topics = told[i].topics
               /\ told'[i].how = told[i].how /\ told'[i].pair = told[i].pair
    BY <2>3, <2>6
  <2> QED BY <2>3, <2>5, <2>6, <2>7
<1>7. /\ rests' \in [Talkers -> [Topics -> Nat]]
      /\ \A q \in Talkers, t \in Topics :
           /\ rests'[q][t] >= rests[q][t] /\ rests'[q][t] <= atHour + RestHours
           /\ q = p /\ t \in chat.topics => rests'[q][t] = atHour + RestHours
  <2>1. \A q \in Talkers, t \in Topics :
          rests'[q][t] = IF q = p /\ t \in chat.topics THEN atHour + RestHours ELSE rests[q][t]
    BY <1>1, <1>2, <1>3
  <2>2. rests' \in [Talkers -> [Topics -> Nat]]
    BY <1>1, <1>2, <1>3, TalkAssumption
  <2>3. \A q \in Talkers, t \in Topics :
          rests[q][t] \in Nat /\ rests[q][t] <= atHour + RestHours
    BY <1>2 DEF TalkInv, NotedRests
  <2> QED BY SMTT(30), <1>2, <2>1, <2>2, <2>3, TalkAssumption
<1>8. TalkTypes'
  BY <1>1, <1>2, <1>6, <1>7 DEF TalkInv, TalkTypes, NoChat, Chats
<1>9. NotedRests'
  <2>1. ASSUME NEW i \in 1..n, NEW q \in told'[i].noted, NEW t \in told'[i].topics
        PROVE  rests'[q][t] >= told'[i].at + RestHours
    <3>1. /\ told[i].at \in Nat /\ q \in Talkers /\ t \in Topics /\ t \in told[i].topics
          /\ rests[q][t] \in Nat /\ rests'[q][t] \in Nat
      <4>1. told[i] \in Events /\ told'[i] \in Events
        BY <1>2, <1>6, <2>1
      <4>2. told[i].at \in Nat /\ q \in Talkers /\ t \in Topics
        BY <4>1, <2>1 DEF Events
      <4> QED BY <1>2, <1>6, <1>7, <2>1, <4>2
    <3>2. CASE q \in told[i].noted
      <4>1. rests[q][t] >= told[i].at + RestHours
        BY <1>2, <2>1, <3>1, <3>2 DEF TalkInv, NotedRests
      <4>2. told'[i].at = told[i].at /\ rests'[q][t] >= rests[q][t]
        BY <1>6, <1>7, <2>1, <3>1
      <4> QED BY <3>1, <4>1, <4>2, TalkAssumption
    <3>3. CASE q \notin told[i].noted
      <4>1. i = n /\ q = p
        BY <1>6, <2>1, <3>3
      <4>2. told'[i].at = atHour /\ t \in chat.topics
        BY <1>4, <1>6, <2>1, <3>1, <4>1
      <4>3. rests'[q][t] = atHour + RestHours
        BY <1>7, <3>1, <4>1, <4>2
      <4> QED BY <1>2, <4>2, <4>3, TalkAssumption
    <3> QED BY <3>2, <3>3
  <2>2. \A i \in 1..n : told'[i].at <= atHour'
    BY <1>1, <1>2, <1>6 DEF TalkInv, NotedRests
  <2>3. \A q \in Talkers, t \in Topics : rests'[q][t] <= atHour' + RestHours
    BY <1>1, <1>7
  <2> QED BY <1>6, <2>1, <2>2, <2>3 DEF NotedRests
<1>10. ChosenIsOpen' /\ LastIsNoted'
  <2>1. chat'.stage \in {"none", "half"} /\ (chat'.stage = "half" => chat'.topics = chat.topics)
    BY <1>1 DEF TalkInv, TalkTypes, NoChat, Chats
  <2> QED BY <1>1, <1>2, <1>4, <1>6, <2>1 DEF ChosenIsOpen, LastIsNoted
<1>11. TopicsRest'
  BY <1>2, <1>6 DEF TalkInv, TopicsRest
<1> QED BY <1>8, <1>9, <1>10, <1>11 DEF TalkInv

\* Every step keeps the invariant.
LEMMA TalkStepInv == TalkInv /\ [TalkNext]_talkVars => TalkInv'
<1> SUFFICES ASSUME TalkInv, [TalkNext]_talkVars PROVE TalkInv'
  OBVIOUS
<1>1. CASE CutOff
  BY <1>1 DEF CutOff, NoChat, TalkInv, TalkTypes, NotedRests, ChosenIsOpen, LastIsNoted, TopicsRest
<1>2. CASE HourPasses
  <2>1. /\ atHour' = atHour + 1 /\ UNCHANGED <<rests, chat, told>> /\ chat.stage = "none"
        /\ atHour \in Nat /\ RestHours \in Nat
    BY <1>2, TalkAssumption DEF HourPasses, TalkInv, TalkTypes
  <2>2. TalkTypes' /\ ChosenIsOpen' /\ LastIsNoted' /\ TopicsRest'
    BY <2>1 DEF TalkInv, TalkTypes, ChosenIsOpen, LastIsNoted, TopicsRest
  <2>3. \A i \in DOMAIN told : told[i].at \in Nat
    <3>1. \A i \in DOMAIN told : told[i] \in Events
      BY DEF TalkInv, TalkTypes
    <3> QED BY <3>1 DEF Events
  <2>4. \A p \in Talkers, t \in Topics : rests[p][t] \in Nat
    BY DEF TalkInv, TalkTypes
  <2>5. NotedRests'
    BY <2>1, <2>3, <2>4 DEF TalkInv, NotedRests
  <2> QED BY <2>2, <2>5 DEF TalkInv
<1>3. CASE UNCHANGED talkVars
  BY <1>3 DEF talkVars, TalkInv, TalkTypes, NotedRests, ChosenIsOpen, LastIsNoted, TopicsRest
<1> QED BY <1>1, <1>2, <1>3, BeginInv, GenerateInv, SayInv, MarkUsedInv DEF TalkNext

\* However the chats of several people follow each other, are cut off or give way to a
\* conflict: a freely chosen topic has rested with both for RestHours (topics.py, select
\* and mark_used).
THEOREM TopicsAreRested == TalkSpec => []TopicsRest
<1>1. TalkInv => TopicsRest
  BY DEF TalkInv
<1> QED BY <1>1, TalkInitInv, TalkStepInv, PTL DEF TalkSpec

\* No more chats are told than begin, and where none is under way there is none.
TalkSized ==
  /\ atHour \in 1..LastChatHour /\ Len(told) <= MaxTalks
  /\ chat.stage = "none" => chat = NoChat
  /\ chat.stage \in {"ask", "heard"} => Len(told) + 1 <= MaxTalks

\* The constants are numbers.
LEMMA TalkConstants == LastChatHour \in Nat \ {0} /\ MaxTalks \in Nat /\ RestHours \in Nat
BY TalkAssumption

\* The first hour is the first.
LEMMA TalkSizedInit == TalkInit => TalkSized
BY TalkConstants DEF TalkInit, TalkSized, NoChat

\* A chat is told once, between its asking and its end.
LEMMA TalkSizedStep == TalkInv /\ TalkSized /\ [TalkNext]_talkVars => TalkSized'
<1> SUFFICES ASSUME TalkInv, TalkSized, [TalkNext]_talkVars PROVE TalkSized'
  OBVIOUS
<1>0. Len(told) \in Nat /\ told \in Seq(Events)
  BY DEF TalkInv, TalkTypes
<1>1. ASSUME NEW a \in Talkers, NEW b \in Talkers, Begin(a, b) PROVE TalkSized'
  BY <1>0, <1>1, TalkConstants DEF Begin, TalkSized
<1>2. CASE Generate \/ Touched
  <2>1. chat \in Chats /\ chat.stage \in {"ask", "heard"} /\ UNCHANGED <<atHour, told>>
    BY <1>2 DEF Generate, Touched, TalkInv, TalkTypes
  <2>2. chat'.stage \in {"ask", "heard"}
    BY <1>2, <2>1 DEF Generate, Touched, Chats
  <2> QED BY <2>1, <2>2 DEF TalkSized
<1>3. CASE Say
  <2>1. chat \in Chats /\ chat.stage = "heard" /\ chat'.stage = "said" /\ atHour' = atHour
    BY <1>3 DEF Say, TalkInv, TalkTypes, Chats
  <2>2. Len(told') = Len(told) + 1
    BY <1>0, <1>3 DEF Say
  <2> QED BY <1>0, <2>1, <2>2 DEF TalkSized
<1>4. CASE MarkUsed
  <2>1. chat \in Chats /\ chat.stage \in {"said", "half"} /\ atHour' = atHour
    BY <1>4 DEF MarkUsed, TalkInv, TalkTypes
  <2>2. chat'.stage = "half" \/ chat' = NoChat
    BY <1>4, <2>1 DEF MarkUsed, Chats
  <2>3. Len(told') = Len(told)
    BY <1>0, <1>4 DEF MarkUsed
  <2>4. NoChat.stage = "none"
    BY DEF NoChat
  <2> QED BY <2>1, <2>2, <2>3, <2>4 DEF TalkSized
<1>5. CASE CutOff
  BY <1>5 DEF CutOff, TalkSized, NoChat
<1>6. CASE HourPasses
  BY <1>6, TalkConstants DEF HourPasses, TalkSized
<1>7. CASE UNCHANGED talkVars
  BY <1>7 DEF talkVars, TalkSized
<1> QED BY <1>1, <1>2, <1>3, <1>4, <1>5, <1>6, <1>7 DEF TalkNext

\* Every variable of the conversations keeps its type.
THEOREM TalkTypeCorrect == TalkSpec => []TalkTypeOK
<1>1. ASSUME TalkInv, TalkSized PROVE TalkTypeOK
  <2>1. atHour \in Nat /\ atHour <= LastChatHour /\ LastChatHour \in Nat /\ RestHours \in Nat
    BY <1>1, TalkConstants DEF TalkSized
  <2>2. \A p \in Talkers, t \in Topics : rests[p][t] \in 0..(LastChatHour + RestHours)
    <3>1. \A p \in Talkers, t \in Topics : rests[p][t] \in Nat /\ rests[p][t] <= atHour + RestHours
      BY <1>1 DEF TalkInv, TalkTypes, NotedRests
    <3> QED BY <2>1, <3>1
  <2>3. rests \in [Talkers -> [Topics -> 0..(LastChatHour + RestHours)]]
    BY <1>1, <2>2 DEF TalkInv, TalkTypes
  <2>4. /\ chat.stage \in {"none", "ask", "heard", "said", "half"}
        /\ chat.how \in {"select", "fallback", "forced"} /\ chat.topics \subseteq Topics
        /\ chat.asked \in 0..1
    <3>1. CASE chat.stage = "none"
      BY <1>1, <3>1 DEF TalkSized, NoChat
    <3>2. CASE chat.stage # "none"
      BY <1>1, <3>2 DEF TalkInv, TalkTypes, Chats
    <3> QED BY <3>1, <3>2
  <2> QED BY <1>1, <2>3, <2>4 DEF TalkSized, TalkTypeOK
<1> QED BY <1>1, TalkInitInv, TalkStepInv, TalkSizedInit, TalkSizedStep, PTL DEF TalkSpec

-----------------------------------------------------------------------------
(*****************************************************************************)
(* The parts together.                                                       *)
(*****************************************************************************)
\* Taken one at a time, each part of the town behaves as it does alone: what is proved of a
\* part holds of it in the town.
THEOREM EachPartLives ==
  Spec => RelSpec /\ InvSpec /\ CastSpec /\ OffSpec /\ GoalsSpec /\ TalkSpec
<1>1. Init => RelInit /\ InvInit /\ CastInit /\ OffInit /\ GoalsInit /\ TalkInit
  BY DEF Init
<1>2. [Next]_<<part, relVars, invVars, castVars, offVars, goalVars, talkVars>>
        => /\ [RelNext]_relVars /\ [InvNext]_invVars /\ [CastNext]_castVars
           /\ [OffNext]_offVars /\ [GoalsNext]_goalVars /\ [TalkNext]_talkVars
  BY DEF Next
<1> QED BY <1>1, <1>2, PTL DEF Spec, RelSpec, InvSpec, CastSpec, OffSpec, GoalsSpec, TalkSpec

\* Every variable of the town keeps its type, whichever of its parts acts.
THEOREM TownTypeCorrect == Spec => []TypeOK
<1>1. RelTypeOK /\ InvTypeOK /\ CastTypeOK /\ OffTypeOK /\ GoalsTypeOK /\ TalkTypeOK => TypeOK
  BY DEF TypeOK
<1> QED BY <1>1, EachPartLives, RelationsTypeCorrect, InviteTypeCorrect, CastTypeCorrect,
           OfficeTypeCorrect, GoalsTypeCorrect, TalkTypeCorrect, PTL
=============================================================================
