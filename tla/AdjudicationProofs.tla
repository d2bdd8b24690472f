------------------------- MODULE AdjudicationProofs -------------------------
(*****************************************************************************)
(* The adjudication loop keeps its types, and implements the rules of City:  *)
(* every step of the loop and of its surroundings is a step of the city or   *)
(* none.                                                                     *)
(*****************************************************************************)
EXTENDS Adjudication, FiniteSetTheorems, SequenceTheorems, TLAPS

\* What the constants are.
LEMMA AdjConstants ==
  /\ Agents \subseteq Nat /\ IsFiniteSet(Agents) /\ Tenants \intersect Npcs = {}
  /\ Agents = Tenants \union Npcs /\ Dozers \subseteq Agents /\ Weary \subseteq Agents
  /\ Slots \in Nat /\ Every \in Nat /\ MaxBusy \in Nat /\ MaxLag \in Nat
  /\ Slots > 0 /\ Every > 0 /\ MaxBusy > 0 /\ MaxLag > 0
BY SMTT(30), AdjAssumption DEF Agents

-----------------------------------------------------------------------------
(* Lemmas about the operators of the model.                                  *)

\* How many members of S are below x.
Below(S, x) == {y \in S : y < x}

\* The members of a set of agents in ascending order: each once.
LEMMA AscendingFacts ==
  ASSUME NEW S \in SUBSET Agents
  PROVE  /\ Ascending(S) \in Seq(S) /\ DOMAIN Ascending(S) = 1..Cardinality(S)
         /\ Len(Ascending(S)) = Cardinality(S) /\ IsInjective(Ascending(S))
<1>1. S \subseteq Nat /\ IsFiniteSet(S)
  BY AdjConstants, FS_Subset
<1>2. PICK n \in Nat : n = Cardinality(S)
  BY <1>1, FS_CardinalityType
<1>3. \A x \in S : IsFiniteSet(Below(S, x)) /\ Cardinality(Below(S, x)) \in Nat
  <2>1. \A x \in S : Below(S, x) \subseteq S
    BY DEF Below
  <2> QED BY <1>1, <2>1, FS_Subset, FS_CardinalityType
<1>4. ASSUME NEW x \in S, NEW T \in SUBSET S, Below(S, x) \subseteq T, x \in T
      PROVE  Cardinality(Below(S, x)) + 1 <= Cardinality(T)
  <2>1. x \notin Below(S, x) /\ Below(S, x) \union {x} \subseteq T
    BY <1>1, <1>4 DEF Below
  <2>2. Cardinality(Below(S, x) \union {x}) = Cardinality(Below(S, x)) + 1
    BY <1>3, <2>1, FS_AddElement
  <2>3. IsFiniteSet(T)
    BY <1>1, FS_Subset
  <2> QED BY <2>1, <2>2, <2>3, FS_Subset
<1>5. \A x, y \in S : x < y => Cardinality(Below(S, x)) < Cardinality(Below(S, y))
  <2>1. ASSUME NEW x \in S, NEW y \in S, x < y
        PROVE  Cardinality(Below(S, x)) < Cardinality(Below(S, y))
    <3>1. Below(S, x) \subseteq Below(S, y) /\ x \in Below(S, y) /\ Below(S, y) \in SUBSET S
      <4>1. x \in Nat /\ y \in Nat /\ \A z \in S : z \in Nat /\ (z < x => z < y)
        BY <1>1, <2>1
      <4> QED BY <2>1, <4>1, Zenon DEF Below
    <3>2. Cardinality(Below(S, x)) + 1 <= Cardinality(Below(S, y))
      BY <1>4, <3>1
    <3> QED BY <1>3, <3>2
  <2> QED BY <2>1
<1>6. \A x \in S : Cardinality(Below(S, x)) \in 0..(n - 1)
  <2>1. ASSUME NEW x \in S PROVE Cardinality(Below(S, x)) \in 0..(n - 1)
    <3>1. Below(S, x) \subseteq S
      BY DEF Below
    <3>2. Cardinality(Below(S, x)) + 1 <= n
      BY <1>2, <1>4, <3>1
    <3> QED BY <1>3, <3>2
  <2> QED BY <2>1
<1>7. PICK rank \in [S -> 0..(n - 1)] : \A x \in S : rank[x] = Cardinality(Below(S, x))
  <2>1. [x \in S |-> Cardinality(Below(S, x))] \in [S -> 0..(n - 1)]
    BY <1>6
  <2> QED BY <2>1
<1>8. rank \in Injection(S, 0..(n - 1))
  <2>1. \A x, y \in S : rank[x] = rank[y] => x = y
    BY <1>1, <1>5, <1>6, <1>7
  <2> QED BY <2>1 DEF Injection, IsInjective
<1>9. \A i \in 0..(n - 1) : \E x \in S : rank[x] = i
  <2>1. IsFiniteSet(0..(n - 1)) /\ Cardinality(0..(n - 1)) = n
    BY FS_Interval
  <2>2. rank \in Surjection(S, 0..(n - 1))
    BY <1>2, <1>8, <2>1, FS_Injection
  <2> QED BY <2>2 DEF Surjection
<1>10. \A i \in 1..n : Ascending(S)[i] \in S /\ Cardinality(Below(S, Ascending(S)[i])) = i - 1
  <2>1. ASSUME NEW i \in 1..n
        PROVE  Ascending(S)[i] \in S /\ Cardinality(Below(S, Ascending(S)[i])) = i - 1
    <3>1. \E x \in S : Cardinality(Below(S, x)) = i - 1
      BY <1>7, <1>9
    <3>2. Ascending(S)[i] = CHOOSE x \in S : Cardinality(Below(S, x)) = i - 1
      BY <1>2 DEF Ascending, Below
    <3> QED BY <3>1, <3>2
  <2> QED BY <2>1
<1>11. DOMAIN Ascending(S) = 1..n
  BY <1>2, Zenon DEF Ascending
<1>12. Ascending(S) \in [1..n -> S]
  <2> DEFINE e(i) == CHOOSE x \in S : Cardinality({y \in S : y < x}) = i - 1
  <2>1. Ascending(S) = [i \in 1..n |-> e(i)]
    BY <1>2, Zenon DEF Ascending
  <2>2. \A i \in 1..n : e(i) \in S
    <3>1. \A i \in 1..n : Ascending(S)[i] = e(i)
      BY <2>1, Zenon
    <3> QED BY <1>10, <3>1, Zenon
  <2> HIDE DEF e
  <2> QED BY <2>1, <2>2
<1>13. IsInjective(Ascending(S))
  BY <1>10, <1>11 DEF IsInjective
<1> QED BY <1>2, <1>11, <1>12, <1>13

\* Nobody is there twice where nobody is.
LEMMA NobodyTwice == <<>> \in Seq(Agents) /\ IsInjective(<<>>)
<1>1. DOMAIN <<>> = {}
  OBVIOUS
<1> QED BY <1>1 DEF IsInjective

\* The order of a pass: everybody woken, then everybody due, each once.
LEMMA InTurnFacts ==
  ASSUME NEW s \in Seq(Agents), IsInjective(s), NEW D \in SUBSET Agents
  PROVE  InTurn(s, D) \in Seq(Agents) /\ IsInjective(InTurn(s, D))
<1>1. PICK R \in SUBSET Agents : R = D \ ToSet(s)
  OBVIOUS
<1>2. PICK t : t = Ascending(R)
  OBVIOUS
<1>3. t \in Seq(R) /\ IsInjective(t) /\ DOMAIN t = 1..Len(t) /\ Len(t) \in Nat
  BY <1>2, AscendingFacts
<1>4. t \in Seq(Agents) /\ \A i \in 1..Len(t) : t[i] \in R
  BY <1>3
<1>5. PICK c : c = s \o t
  OBVIOUS
<1>6. /\ c \in Seq(Agents) /\ Len(c) = Len(s) + Len(t) /\ DOMAIN c = 1..(Len(s) + Len(t))
      /\ Len(s) \in Nat /\ DOMAIN s = 1..Len(s)
      /\ \A i \in 1..(Len(s) + Len(t)) : c[i] = IF i <= Len(s) THEN s[i] ELSE t[i - Len(s)]
  BY <1>4, <1>5, ConcatProperties
<1>7. \A i \in 1..Len(s), j \in 1..Len(t) : s[i] # t[j]
  BY <1>1, <1>4, <1>6 DEF ToSet
<1>8. ASSUME NEW i \in 1..(Len(s) + Len(t)), NEW j \in 1..(Len(s) + Len(t)), c[i] = c[j]
      PROVE  i = j
  <2>1. CASE i <= Len(s) /\ j <= Len(s)
    BY <1>6, <1>8, <2>1 DEF IsInjective
  <2>2. CASE i <= Len(s) /\ ~ (j <= Len(s))
    <3>1. j - Len(s) \in 1..Len(t)
      BY <1>3, <1>6, <2>2
    <3>2. c[i] = s[i] /\ c[j] = t[j - Len(s)] /\ i \in 1..Len(s)
      BY <1>6, <2>2
    <3> QED BY <1>7, <1>8, <3>1, <3>2
  <2>3. CASE ~ (i <= Len(s)) /\ j <= Len(s)
    <3>1. i - Len(s) \in 1..Len(t)
      BY <1>3, <1>6, <2>3
    <3>2. c[j] = s[j] /\ c[i] = t[i - Len(s)] /\ j \in 1..Len(s)
      BY <1>6, <2>3
    <3> QED BY <1>7, <1>8, <3>1, <3>2
  <2>4. CASE ~ (i <= Len(s)) /\ ~ (j <= Len(s))
    <3>1. i - Len(s) \in 1..Len(t) /\ j - Len(s) \in 1..Len(t)
      BY <1>3, <1>6, <2>4
    <3>2. t[i - Len(s)] = t[j - Len(s)]
      BY <1>6, <1>8, <2>4
    <3> QED BY <1>3, <3>1, <3>2 DEF IsInjective
  <2> QED BY <2>1, <2>2, <2>3, <2>4
<1>9. IsInjective(c)
  BY <1>6, <1>8 DEF IsInjective
<1>10. InTurn(s, D) = c
  BY <1>1, <1>2, <1>5 DEF InTurn
<1> QED BY <1>6, <1>9, <1>10

\* Whoever is put behind the others, and is not among them, is there once.
LEMMA AppendedOnce ==
  ASSUME NEW s \in Seq(Agents), IsInjective(s), NEW a \in Agents, a \notin ToSet(s)
  PROVE  Append(s, a) \in Seq(Agents) /\ IsInjective(Append(s, a))
<1>1. PICK r : r = Append(s, a)
  OBVIOUS
<1>2. /\ r \in Seq(Agents) /\ DOMAIN r = 1..(Len(s) + 1) /\ DOMAIN s = 1..Len(s)
      /\ Len(s) \in Nat /\ r[Len(s) + 1] = a /\ \A j \in 1..Len(s) : r[j] = s[j]
  BY <1>1
<1>3. \A j \in 1..Len(s) : s[j] # a
  BY <1>2 DEF ToSet
<1>4. IsInjective(r)
  BY <1>2, <1>3 DEF IsInjective
<1> QED BY <1>1, <1>2, <1>4

\* What remains of a turn names nobody twice either.
LEMMA TailOnce ==
  ASSUME NEW s \in Seq(Agents), IsInjective(s), s # <<>>
  PROVE  Tail(s) \in Seq(Agents) /\ IsInjective(Tail(s)) /\ Head(s) \in Agents
<1>1. PICK r : r = Tail(s)
  OBVIOUS
<1>2. /\ r \in Seq(Agents) /\ DOMAIN r = 1..(Len(s) - 1) /\ DOMAIN s = 1..Len(s)
      /\ Len(s) \in Nat \ {0} /\ \A j \in 1..(Len(s) - 1) : r[j] = s[j + 1]
  BY <1>1
<1>3. IsInjective(r)
  <2>1. ASSUME NEW i \in 1..(Len(s) - 1), NEW j \in 1..(Len(s) - 1), r[i] = r[j] PROVE i = j
    <3>1. i + 1 \in 1..Len(s) /\ j + 1 \in 1..Len(s) /\ s[i + 1] = s[j + 1]
      BY <1>2, <2>1
    <3>2. i + 1 = j + 1
      BY <1>2, <3>1 DEF IsInjective
    <3> QED BY <3>2
  <2> QED BY <1>2, <2>1 DEF IsInjective
<1> QED BY <1>1, <1>2, <1>3

\* Ticks that pass leave no more than there were.
LEMMA AfterFacts ==
  ASSUME NEW k \in Nat, NEW f \in [Agents -> 0..k], NEW n \in Nat
  PROVE  After(f, n) \in [Agents -> 0..k] /\ \A a \in Agents : After(f, n)[a] > 0 => f[a] > 0
<1>1. \A a \in Agents : f[a] \in 0..k
  OBVIOUS
<1> QED BY <1>1 DEF After

\* What a wish is made of.
LEMMA WishFacts ==
  ASSUME NEW w \in Wishes
  PROVE  /\ w[1] \in {"think", "deed", "rest", "move", "meet", "write"}
         /\ w[1] = "move" => w[2] \in {"own", "lobby", "dept", "hall"} /\ w = <<"move", w[2]>>
         /\ w[1] \in {"meet", "write"} => w[2] \in Agents
BY DEF Wishes, Places

\* Whatever an answer comes to is a wish, and so is what exhaustion forces.
LEMMA MadeWishes ==
  /\ Degraded \in Wishes /\ Degraded[1] = "think"
  /\ \A m : Wanted(m) \subseteq Wishes
  /\ \A a : Bedwards(a) \in Wishes
  /\ \A a : pos[a] = "own" => Bedwards(a)[1] = "rest"
  /\ \A a : pos[a] # "own" => Bedwards(a)[1] = "move" /\ Bedwards(a)[2] = "own"
<1>1. <<"think", "-">> \in Wishes /\ <<"rest", "-">> \in Wishes /\ <<"move", "own">> \in Wishes
  BY DEF Wishes, Places
<1> QED BY <1>1 DEF Degraded, Wanted, Bedwards

-----------------------------------------------------------------------------
(* The types.                                                                *)

\* What the settlement of a wish leaves of the city: one agent is occupied, and no other
\* moves or recovers.
LEMMA EffectFacts ==
  ASSUME TypeOK, NEW a \in Agents, NEW w \in Wishes, Effect(a, w)
  PROVE  /\ pos' = (IF w[1] = "move" THEN [pos EXCEPT ![a] = w[2]] ELSE pos)
         /\ low' = (IF w[1] = "rest" THEN [low EXCEPT ![a] = FALSE] ELSE low)
         /\ \E n \in 1..MaxBusy : busy' = [busy EXCEPT ![a] = n]
         /\ pos' \in [Agents -> Places] /\ low' \in [Agents -> BOOLEAN]
         /\ busy' \in [Agents -> 0..MaxBusy]
<1>1. /\ pos' = (IF w[1] = "move" THEN [pos EXCEPT ![a] = w[2]] ELSE pos)
      /\ low' = (IF w[1] = "rest" THEN [low EXCEPT ![a] = FALSE] ELSE low)
  BY DEF Effect
<1>2. PICK n \in 1..MaxBusy : busy' = [busy EXCEPT ![a] = n]
  BY DEF Effect
<1>3. busy' \in [Agents -> 0..MaxBusy]
  BY <1>2, AdjConstants DEF TypeOK
<1>4. pos' \in [Agents -> Places]
  BY <1>1, WishFacts DEF TypeOK, Places
<1>5. low' \in [Agents -> BOOLEAN]
  BY <1>1, Zenon DEF TypeOK
<1> QED BY <1>1, <1>2, <1>3, <1>4, <1>5

\* The other coroutines change the queue and the clock.
LEMMA OthersTypes == ASSUME TypeOK, Others PROVE TypeOK'
<1>1. UNCHANGED <<pc, turn, mind, wakes, pos, low, busy, due>>
  BY DEF Others, WallTick, PutClockTick, PutEnterBatch, Probe, loop, queue, city
<1>2. lag' \in 0..MaxLag
  <2>1. lag \in 0..MaxLag /\ (lag' = lag \/ (lag < MaxLag /\ lag' = lag + 1))
    BY DEF TypeOK, Others, WallTick, PutClockTick, PutEnterBatch, Probe, queue
  <2> QED BY <2>1, AdjConstants
<1>3. owed' \in BOOLEAN /\ ticked' \in BOOLEAN /\ batch' \in BOOLEAN /\ work' \in BOOLEAN
      /\ paused' \in BOOLEAN
  BY DEF TypeOK, Others, WallTick, PutClockTick, PutEnterBatch, Probe, queue
<1> QED BY <1>1, <1>2, <1>3 DEF TypeOK

\* A pass begins.
LEMMA PopTypes == ASSUME TypeOK, Pop PROVE TypeOK'
<1>1. PICK left \in [Agents -> 0..Every], ring \in [Agents -> 0..MaxBusy] :
        left = After(due, lag) /\ ring = After(busy, lag)
  <2>1. lag \in Nat /\ due \in [Agents -> 0..Every] /\ busy \in [Agents -> 0..MaxBusy]
    BY AdjConstants DEF TypeOK
  <2> QED BY <2>1, AfterFacts, AdjConstants
<1>2. PICK woken \in Seq(Agents) : woken = (IF lag > 0 THEN wakes ELSE <<>>) /\ IsInjective(woken)
  BY NobodyTwice DEF TypeOK
<1>3. PICK timed \in SUBSET Agents : timed = Timed(left)
  BY DEF Timed
<1>4. turn' = InTurn(woken, timed) /\ due' = Pick(left, Every, timed) /\ busy' = ring
      /\ mind' = [a \in Agents |-> "idle"] /\ wakes' = Kept /\ lag' = 0 /\ pc' \in {"pass", "think"}
      /\ ticked' = FALSE /\ batch' = FALSE /\ UNCHANGED <<owed, pos, low, work, paused>>
  BY <1>1, <1>2, <1>3 DEF Pop
<1>5. turn' \in Seq(Agents) /\ IsInjective(turn')
  BY <1>2, <1>4, InTurnFacts
<1>6. due' \in [Agents -> 0..Every]
  BY <1>1, <1>4, AdjConstants DEF Pick
<1>7. wakes' \in Seq(Agents) /\ IsInjective(wakes')
  <2>1. wakes' = <<>> \/ wakes' = wakes
    BY <1>4 DEF Kept
  <2> QED BY <2>1, NobodyTwice DEF TypeOK
<1>8. mind' \in [Agents -> Minds]
  BY <1>4 DEF Minds
<1>9. /\ {owed, ticked, batch, work, paused}' \subseteq BOOLEAN /\ lag' \in 0..MaxLag
      /\ pos' \in [Agents -> Places] /\ low' \in [Agents -> BOOLEAN]
      /\ busy' \in [Agents -> 0..MaxBusy]
  <2>1. lag' \in 0..MaxLag
    BY <1>4, AdjConstants
  <2>2. /\ owed \in BOOLEAN /\ work \in BOOLEAN /\ paused \in BOOLEAN
        /\ pos \in [Agents -> Places] /\ low \in [Agents -> BOOLEAN]
    BY DEF TypeOK
  <2> QED BY <1>1, <1>4, <2>1, <2>2
<1> QED BY <1>4, <1>5, <1>6, <1>7, <1>8, <1>9 DEF TypeOK

\* Whoever has had a turn leaves the pass.
LEMMA ServedTypes ==
  ASSUME TypeOK, turn # <<>>, Served
  PROVE  /\ Mover \in Agents /\ turn' \in Seq(Agents) /\ IsInjective(turn')
         /\ mind' \in [Agents -> Minds] /\ pc' \in {"after", "turn"}
<1>1. turn \in Seq(Agents) /\ IsInjective(turn) /\ mind \in [Agents -> Minds]
  BY DEF TypeOK
<1> QED BY <1>1, TailOnce DEF Served, Mover, Minds

\* The next of a pass.
LEMMA MoverIsThere == ASSUME TypeOK, turn # <<>> PROVE Mover \in Agents
BY TailOnce DEF TypeOK, Mover

\* A turn is settled.
LEMMA SettleTypes == ASSUME TypeOK, NEW w \in Wishes, Settle(w) PROVE TypeOK'
<1>1. /\ Mover \in Agents /\ turn' \in Seq(Agents) /\ IsInjective(turn')
      /\ mind' \in [Agents -> Minds] /\ pc' \in {"after", "turn"}
  BY ServedTypes DEF Settle
<1>2. pos' \in [Agents -> Places] /\ low' \in [Agents -> BOOLEAN] /\ busy' \in [Agents -> 0..MaxBusy]
  BY <1>1, EffectFacts DEF Settle
<1>3. wakes' \in Seq(Agents) /\ IsInjective(wakes')
  <2>1. wakes' = wakes \/ wakes' = Woken(w)
    BY DEF Settle
  <2>2. wakes \in Seq(Agents) /\ IsInjective(wakes)
    BY DEF TypeOK
  <2>3. CASE w[1] \in {"meet", "write"} /\ w[2] \notin ToSet(wakes)
    <3>1. w[2] \in Agents
      BY <2>3, WishFacts
    <3>2. Woken(w) = Append(wakes, w[2])
      BY <2>3 DEF Woken
    <3>3. PICK x \in Agents : x = w[2]
      BY <3>1
    <3> QED BY <2>1, <2>2, <2>3, <3>2, <3>3, AppendedOnce
  <2>4. CASE ~ (w[1] \in {"meet", "write"} /\ w[2] \notin ToSet(wakes))
    BY <2>1, <2>2, <2>4 DEF Woken
  <2> QED BY <2>3, <2>4
<1> QED BY <1>1, <1>2, <1>3 DEF Settle, TypeOK

\* A turn is refused, or the exhausted are sent to bed.
LEMMA RefuseTypes ==
  ASSUME TypeOK, NEW w \in Wishes, Refuse(w) \/ Redirect(w)
  PROVE  TypeOK'
<1>1. /\ Mover \in Agents /\ turn' \in Seq(Agents) /\ IsInjective(turn')
      /\ mind' \in [Agents -> Minds] /\ pc' \in {"after", "turn"}
  BY ServedTypes DEF Refuse, Redirect
<1>2. pos' \in [Agents -> Places] /\ low' \in [Agents -> BOOLEAN] /\ busy' \in [Agents -> 0..MaxBusy]
  <2>1. CASE Redirect(w)
    BY <1>1, <2>1, EffectFacts, MadeWishes DEF Redirect
  <2>2. CASE Refuse(w)
    BY <2>2 DEF Refuse, city, TypeOK
  <2> QED BY <2>1, <2>2
<1>3. UNCHANGED <<lag, owed, ticked, batch, wakes, due, work, paused>>
  BY DEF Refuse, Redirect, queue
<1> QED BY <1>1, <1>2, <1>3 DEF TypeOK

\* The rest of a pass is dropped.
LEMMA BreakTypes ==
  ASSUME TypeOK, NEW w \in Wishes, Break(w) \/ Trip(w)
  PROVE  TypeOK'
<1>1. Mover \in Agents
  BY MoverIsThere DEF Break, Trip
<1>2. pos' \in [Agents -> Places] /\ low' \in [Agents -> BOOLEAN] /\ busy' \in [Agents -> 0..MaxBusy]
  <2>1. CASE UNCHANGED city
    BY <2>1 DEF city, TypeOK
  <2>2. CASE Effect(Mover, w)
    BY <1>1, <2>2, EffectFacts
  <2>3. CASE Effect(Mover, Degraded)
    BY <1>1, <2>3, EffectFacts, MadeWishes
  <2>4. CASE Effect(Mover, Bedwards(Mover))
    BY <1>1, <2>4, EffectFacts, MadeWishes
  <2> QED BY <2>1, <2>2, <2>3, <2>4 DEF Break, Trip
<1>3. /\ UNCHANGED <<lag, owed, ticked, batch, wakes, due, work, paused>>
      /\ turn' = <<>> /\ mind' = [a \in Agents |-> "idle"] /\ pc' \in {"look", "after"}
  BY DEF Break, Trip, queue
<1>4. turn' \in Seq(Agents) /\ IsInjective(turn') /\ mind' \in [Agents -> Minds]
  BY <1>3 DEF IsInjective, Minds
<1> QED BY <1>2, <1>3, <1>4 DEF TypeOK

\* An answer comes, or does not.
LEMMA ThinkTypes ==
  ASSUME TypeOK, NEW a \in Agents, Ask(a) \/ Answer(a) \/ Garbled(a) \/ Unreachable(a)
  PROVE  TypeOK'
<1>1. UNCHANGED <<pc, turn, queue, city, due, work, paused>>
  BY DEF Ask, Answer, Garbled, Unreachable
<1>2. \E m \in Minds : mind' = [mind EXCEPT ![a] = m]
  BY DEF Ask, Answer, Garbled, Unreachable, Minds
<1>3. mind' \in [Agents -> Minds]
  BY <1>2 DEF TypeOK
<1> QED BY <1>1, <1>3 DEF TypeOK, queue, city

\* The end of a pass puts those who live outside where they belong.
LEMMA AfterTickTypes == ASSUME TypeOK, AfterTick PROVE TypeOK'
<1>1. pos' \in [Agents -> Places]
  <2>1. PICK kept \in SUBSET Npcs :
          pos' = Pick(pos, IF work THEN "dept" ELSE "home", Npcs \ kept)
    BY DEF AfterTick
  <2> QED BY <2>1 DEF Pick, TypeOK, Places
<1>2. low' \in [Agents -> BOOLEAN]
  BY DEF AfterTick
<1>3. UNCHANGED <<turn, mind, lag, owed, ticked, batch, wakes, busy, due, work, paused>> /\ pc' = "look"
  BY DEF AfterTick, queue
<1> QED BY <1>1, <1>2, <1>3 DEF TypeOK

\* The loop goes on to its next await.
LEMMA LoopTypes ==
  ASSUME TypeOK, Rest \/ WakeUp \/ Batch \/ Gathered \/ EmptyPass \/ Spin \/ Fail
  PROVE  TypeOK'
<1>1. UNCHANGED <<pos, low, busy, due, wakes, owed, ticked, batch>>
  BY DEF Rest, WakeUp, Batch, Gathered, EmptyPass, Spin, Fail, queue, city, vars
<1>2. /\ lag' \in 0..MaxLag /\ work' \in BOOLEAN /\ paused' \in BOOLEAN
      /\ pc' \in {"look", "wait", "pass", "think", "turn", "after"}
  BY AdjConstants DEF TypeOK, Rest, WakeUp, Batch, Gathered, EmptyPass, Spin, Fail, queue, vars, loop
<1>3. turn' \in Seq(Agents) /\ IsInjective(turn') /\ mind' \in [Agents -> Minds]
  <2>1. (turn' = turn /\ mind' = mind) \/ (turn' = <<>> /\ mind' = [a \in Agents |-> "idle"])
    BY DEF Rest, WakeUp, Batch, Gathered, EmptyPass, Spin, Fail, vars, loop
  <2>2. [a \in Agents |-> "idle"] \in [Agents -> Minds]
    BY DEF Minds
  <2> QED BY <2>1, <2>2, NobodyTwice DEF TypeOK
<1> QED BY <1>1, <1>2, <1>3 DEF TypeOK

\* Every step keeps the types.
LEMMA TypeStep == ASSUME TypeOK, [Next]_vars PROVE TypeOK'
<1>1. CASE Next
  BY <1>1, OthersTypes, PopTypes, SettleTypes, RefuseTypes, BreakTypes, ThinkTypes,
     AfterTickTypes, LoopTypes DEF Next, Turns
<1>2. CASE UNCHANGED vars
  BY <1>2 DEF TypeOK, vars, loop, queue, city
<1> QED BY <1>1, <1>2

\* The kernel starts with nothing queued.
LEMMA TypeInit == Init => TypeOK
<1> SUFFICES ASSUME Init PROVE TypeOK
  OBVIOUS
<1>1. /\ pc \in {"look", "wait", "pass", "think", "turn", "after"} /\ lag \in 0..MaxLag
      /\ {owed, ticked, batch, work, paused} \subseteq BOOLEAN
  <2>1. lag \in 0..MaxLag
    BY AdjConstants DEF Init
  <2> QED BY <2>1 DEF Init
<1>2. wakes \in Seq(Agents) /\ IsInjective(wakes) /\ turn \in Seq(Agents) /\ IsInjective(turn)
  BY NobodyTwice DEF Init
<1>3. /\ mind \in [Agents -> Minds] /\ due \in [Agents -> 0..Every]
      /\ busy \in [Agents -> 0..MaxBusy]
  BY AdjConstants DEF Init, Minds
<1>4. pos \in [Agents -> Places] /\ low \in [Agents -> BOOLEAN]
  BY DEF Init, Places
<1> QED BY <1>1, <1>2, <1>3, <1>4 DEF TypeOK

\* Every variable of the loop keeps its type; nobody waits twice to be woken, and nobody
\* has two turns in one pass (put_wakeup, adjudication_loop).
THEOREM LoopTypeCorrect == Spec => []TypeOK
BY TypeInit, TypeStep, PTL DEF Spec

-----------------------------------------------------------------------------
(* The rules of the city.  Who is occupied is who has ticks left.            *)

Occupied == {a \in Agents : busy[a] > 0}

\* Who is marked busy becomes occupied, and nobody else does.
LEMMA BusyFacts ==
  ASSUME TypeOK, NEW a \in Agents, NEW w \in Wishes, Effect(a, w)
  PROVE  Occupied' = Occupied \union {a}
<1>1. PICK n \in 1..MaxBusy : busy' = [busy EXCEPT ![a] = n]
  BY EffectFacts
<1>2. n > 0 /\ busy \in [Agents -> 0..MaxBusy]
  BY AdjConstants DEF TypeOK
<1>3. \A x \in Agents : busy'[x] > 0 <=> (x = a \/ busy[x] > 0)
  BY <1>1, <1>2
<1> QED BY <1>3 DEF Occupied

\* A way that is open to a decision is a door of the city.
LEMMA ExitsAreDoors ==
  ASSUME TypeOK, NEW a \in Agents, NEW x \in Exits(a), x # pos[a]
  PROVE  /\ <<pos[a], x>> \in Rules!Doors(a) /\ x \in {"own", "lobby", "dept", "hall"}
<1>1. pos[a] \in {"own", "lobby", "dept", "hall", "home"}
  BY DEF TypeOK, Places
<1>2. CASE InFlat(pos[a])
  <2>0. Exits(a) = {"lobby"} \union (IF work THEN {"dept"} ELSE {})
                     \union (IF a \in Tenants THEN {"own"} ELSE {})
    <3>1. ~InCorp(pos[a])
      BY <1>2 DEF InFlat, InCorp
    <3> QED BY <1>2, <3>1 DEF Exits
  <2>1. CASE pos[a] = "own"
    <3>1. x = "lobby" \/ (work /\ x = "dept")
      BY <2>0, <2>1
    <3> QED BY <2>1, <3>1 DEF Rules!Doors
  <2>2. CASE pos[a] = "lobby"
    <3>1. (work /\ x = "dept") \/ (a \in Tenants /\ x = "own")
      BY <2>0, <2>2
    <3> QED BY <2>2, <3>1 DEF Rules!Doors
  <2> QED BY <1>2, <2>1, <2>2 DEF InFlat
<1>3. CASE ~InFlat(pos[a]) /\ InCorp(pos[a])
  BY <1>1, <1>3 DEF Exits, InFlat, InCorp, Rules!Doors
<1>4. CASE ~InFlat(pos[a]) /\ ~InCorp(pos[a])
  BY <1>4 DEF Exits
<1> QED BY <1>2, <1>3, <1>4

\* What is allowed is what somebody free may do in the city.
LEMMA AllowedIsAct ==
  ASSUME TypeOK, NEW a \in Agents, NEW w \in Wishes, Allowed(a, w), Effect(a, w), work' = work
  PROVE  Rules!Act(a)
<1>1. a \notin Occupied /\ Occupied' = Occupied \union {a}
  <2>1. a \notin Occupied
    BY AdjConstants DEF Allowed, Occupied, TypeOK
  <2> QED BY <2>1, BusyFacts
<1>2. ~Exhausted(a, w) /\ Reachable(a, w)
  BY DEF Allowed
<1>3. /\ pos' = (IF w[1] = "move" THEN [pos EXCEPT ![a] = w[2]] ELSE pos)
      /\ low' = (IF w[1] = "rest" THEN [low EXCEPT ![a] = FALSE] ELSE low)
  BY EffectFacts
<1>4. CASE w[1] = "move"
  <2>1. PICK x : x = w[2] /\ w = <<"move", x>>
    BY <1>4, WishFacts
  <2>2. x \in Exits(a) /\ x # pos[a]
    BY <1>2, <1>4, <2>1 DEF Reachable
  <2>3. <<pos[a], x>> \in Rules!Doors(a) /\ x \in {"own", "lobby", "dept", "hall"}
    BY <2>2, ExitsAreDoors
  <2>4. low[a] => x = "own"
    BY <1>2, <2>1, <1>4 DEF Exhausted
  <2>5. pos' = [pos EXCEPT ![a] = x] /\ low' = low
    BY <1>3, <1>4, <2>1
  <2> QED BY <1>1, <2>3, <2>4, <2>5 DEF Rules!Act, Occupied
<1>5. CASE w[1] = "rest"
  <2>1. a \in Tenants /\ pos[a] = "own"
    BY <1>2, <1>5 DEF Reachable
  <2>2. pos' = pos /\ low' = [low EXCEPT ![a] = FALSE]
    BY <1>3, <1>5
  <2> QED BY <1>1, <2>1, <2>2 DEF Rules!Act, Occupied
<1>6. CASE w[1] \notin {"move", "rest"}
  <2>1. ~low[a]
    BY <1>2, <1>6 DEF Exhausted
  <2>2. pos' = pos /\ low' = low
    BY <1>3, <1>6
  <2> QED BY <1>1, <2>1, <2>2 DEF Rules!Act, Occupied
<1> QED BY <1>4, <1>5, <1>6

\* An action broken off leaves somebody free occupied where they are, or somebody
\* exhausted on the way to bed.
LEMMA BrokenIsAct ==
  ASSUME TypeOK, NEW a \in Agents, NEW w \in Wishes, Allowed(a, w), Effect(a, Degraded),
         work' = work
  PROVE  Rules!Act(a) \/ Rules!SentToBed(a)
<1>1. a \notin Occupied /\ Occupied' = Occupied \union {a}
  <2>1. a \notin Occupied
    BY AdjConstants DEF Allowed, Occupied, TypeOK
  <2> QED BY <2>1, BusyFacts, MadeWishes
<1>2. pos' = pos /\ low' = low
  BY EffectFacts, MadeWishes
<1>3. CASE ~low[a]
  BY <1>1, <1>2, <1>3 DEF Rules!Act, Occupied
<1>4. CASE low[a]
  <2>1. a \in Tenants /\ pos[a] \in {"own", "lobby"}
    <3>1. Reachable(a, w) /\ (w[1] = "rest" \/ w = <<"move", "own">>)
      BY <1>4 DEF Allowed, Exhausted
    <3>2. CASE w[1] = "rest"
      BY <3>1, <3>2 DEF Reachable
    <3>3. CASE w = <<"move", "own">>
      <4>1. "own" \in Exits(a)
        BY <3>1, <3>3 DEF Reachable
      <4> QED BY <4>1 DEF Exits, InFlat, InCorp
    <3> QED BY <3>1, <3>2, <3>3
  <2> QED BY <1>1, <1>2, <1>4, <2>1 DEF Rules!SentToBed, Occupied
<1> QED BY <1>3, <1>4

\* Who is exhausted in the flat goes home or to bed, or breaks off on the way.
LEMMA ForcedIsSent ==
  ASSUME TypeOK, NEW a \in Agents, NEW w \in Wishes, Forced(a, w),
         Effect(a, Bedwards(a)) \/ Effect(a, Degraded), work' = work
  PROVE  Rules!SentToBed(a)
<1>1. a \in Tenants /\ low[a] /\ pos[a] \in {"own", "lobby"}
  BY DEF Forced, Exhausted, InFlat
<1>2. CASE Effect(a, Degraded)
  <2>1. pos' = pos /\ low' = low
    BY <1>2, EffectFacts, MadeWishes
  <2>2. Occupied' = Occupied \union {a}
    BY <1>2, BusyFacts, MadeWishes
  <2> QED BY <1>1, <2>1, <2>2 DEF Rules!SentToBed, Occupied
<1>3. CASE Effect(a, Bedwards(a))
  <2>1. Occupied' = Occupied \union {a}
    BY <1>3, BusyFacts, MadeWishes
  <2>2. pos' = [pos EXCEPT ![a] = "own"] /\ low' = [low EXCEPT ![a] = pos[a] # "own"]
    <3>1. pos \in [Agents -> Places] /\ low \in [Agents -> BOOLEAN]
      BY DEF TypeOK
    <3>2. CASE pos[a] = "own"
      <4>1. pos' = pos /\ low' = [low EXCEPT ![a] = FALSE]
        BY <1>3, <3>2, EffectFacts, MadeWishes
      <4> QED BY <3>1, <3>2, <4>1
    <3>3. CASE pos[a] # "own"
      <4>1. pos' = [pos EXCEPT ![a] = "own"] /\ low' = low
        BY <1>3, <3>3, EffectFacts, MadeWishes
      <4>2. low = [low EXCEPT ![a] = TRUE]
        BY <1>1, <3>1
      <4> QED BY <3>3, <4>1, <4>2
    <3> QED BY <3>2, <3>3
  <2> QED BY <1>1, <2>1, <2>2 DEF Rules!SentToBed, Occupied
<1> QED BY <1>2, <1>3

\* The kernel starts as the city does.
LEMMA CityBegins == Init => Rules!Init
<1> SUFFICES ASSUME Init PROVE Rules!Init
  OBVIOUS
<1>1. {a \in Agents : busy[a] > 0} = {}
  BY DEF Init
<1> QED BY <1>1 DEF Init, Rules!Init, Rules!People, Agents

\* Every step of the loop and of its surroundings is a step of the city or none.
LEMMA CityStep == ASSUME TypeOK, TypeOK', [Next]_vars PROVE [Rules!Next]_(Rules!state)
<1> DEFINE Stutter == UNCHANGED <<pos, low, busy, work>>
<1>0. Stutter => UNCHANGED Rules!state
  BY DEF Rules!state
<1>1. ASSUME NEW a \in Agents, Rules!Act(a) \/ Rules!SentToBed(a) PROVE Rules!Next
  BY <1>1 DEF Rules!Next, Rules!People, Agents
<1>2. CASE UNCHANGED vars
  BY <1>0, <1>2 DEF vars, city
<1>3. CASE Others
  <2>1. UNCHANGED <<pos, low, busy>> /\ work' \in BOOLEAN
    BY <1>3 DEF Others, WallTick, PutClockTick, PutEnterBatch, Probe, city, TypeOK
  <2> QED BY <2>1 DEF Rules!Next, Rules!TurnOfHour
<1>4. CASE Pop
  <2>1. UNCHANGED <<pos, low, work>> /\ busy' = After(busy, lag)
    BY <1>4 DEF Pop
  <2>2. \A a \in Agents : busy'[a] > 0 => busy[a] > 0
    <3>1. lag \in Nat /\ busy \in [Agents -> 0..MaxBusy]
      BY AdjConstants DEF TypeOK
    <3> QED BY <2>1, <3>1, AfterFacts, AdjConstants
  <2>3. Occupied' \subseteq Occupied
    BY <2>2 DEF Occupied
  <2>4. Rules!Elapse
    BY <2>1, <2>3 DEF Rules!Elapse, Rules!People, Occupied, Agents
  <2> QED BY <2>4 DEF Rules!Next
<1>5. CASE Batch
  <2>1. UNCHANGED <<pos, low, busy>> /\ work' \in BOOLEAN
    BY <1>5 DEF Batch, city
  <2> QED BY <2>1 DEF Rules!Next, Rules!TurnOfHour
<1>6. CASE AfterTick
  <2>1. PICK kept \in SUBSET Npcs :
          pos' = Pick(pos, IF work THEN "dept" ELSE "home", Npcs \ kept)
    BY <1>6 DEF AfterTick
  <2>2. UNCHANGED <<busy, work>> /\ low' \in [Agents -> BOOLEAN] /\ pos' \in [Agents -> Places]
        /\ pos \in [Agents -> Places]
    BY <1>6 DEF AfterTick, TypeOK
  <2>3. \A p \in Agents : pos'[p] = pos[p] \/ (p \in Npcs /\ pos'[p] = IF work THEN "dept" ELSE "home")
    BY <2>1, <2>2 DEF Pick
  <2>4. Rules!Evening
    BY <2>2, <2>3 DEF Rules!Evening, Rules!People, Places, Agents
  <2> QED BY <2>4 DEF Rules!Next
<1>7. ASSUME NEW w \in Wishes, Settle(w) \/ Trip(w) PROVE Rules!Next
  <2>1. Mover \in Agents /\ Allowed(Mover, w) /\ Effect(Mover, w) /\ work' = work
    BY <1>7, MoverIsThere DEF Settle, Trip
  <2> QED BY <1>1, <2>1, AllowedIsAct
<1>8. ASSUME NEW w \in Wishes, Redirect(w) PROVE Rules!Next
  <2>1. Mover \in Agents /\ Forced(Mover, w) /\ Effect(Mover, Bedwards(Mover)) /\ work' = work
    BY <1>8, MoverIsThere DEF Redirect
  <2> QED BY <1>1, <2>1, ForcedIsSent
<1>9. ASSUME NEW w \in Wishes, Break(w) PROVE Rules!Next \/ Stutter
  <2>1. Mover \in Agents /\ work' = work
    BY <1>9, MoverIsThere DEF Break
  <2>2. CASE UNCHANGED city
    BY <2>1, <2>2 DEF city
  <2>3. CASE Allowed(Mover, w) /\ (Effect(Mover, w) \/ Effect(Mover, Degraded))
    BY <1>1, <2>1, <2>3, AllowedIsAct, BrokenIsAct
  <2>4. CASE Forced(Mover, w) /\ (Effect(Mover, Bedwards(Mover)) \/ Effect(Mover, Degraded))
    BY <1>1, <2>1, <2>4, ForcedIsSent
  <2> QED BY <1>9, <2>2, <2>3, <2>4 DEF Break
<1>10. ASSUME NEW w \in Wishes, Refuse(w) PROVE Stutter
  BY <1>10 DEF Refuse, city
<1>11. ASSUME NEW a \in Agents, Ask(a) \/ Answer(a) \/ Garbled(a) \/ Unreachable(a) PROVE Stutter
  BY <1>11 DEF Ask, Answer, Garbled, Unreachable, city
<1>12. CASE Rest \/ WakeUp \/ Gathered \/ EmptyPass \/ Spin \/ Fail
  BY <1>0, <1>12 DEF Rest, WakeUp, Gathered, EmptyPass, Spin, Fail, city, vars
<1> QED BY <1>0, <1>2, <1>3, <1>4, <1>5, <1>6, <1>7, <1>8, <1>9, <1>10, <1>11, <1>12
        DEF Next, Turns

\* However the answers arrive and whatever is interrupted, the loop implements City: people
\* act one at a time, along open doors, not again before time has passed, and the exhausted
\* only go home or to bed (pipeline.py step 4, validators.check).
THEOREM LoopKeepsTheRules == Spec => CityRules
<1>1. TypeOK /\ TypeOK' /\ [Next]_vars => [Rules!Next]_(Rules!state)
  BY CityStep
<1> QED BY <1>1, CityBegins, LoopTypeCorrect, PTL DEF Spec, CityRules, Rules!Spec
=============================================================================
