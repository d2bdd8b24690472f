---------------------------- MODULE OfficeProofs ----------------------------
(*****************************************************************************)
(* Proofs about the office's calendar and the weekly goals, for any staff,   *)
(* calendar and reviews, any library of goals and any lengths of weeks.      *)
(*****************************************************************************)
EXTENDS Office, Goals, FiniteSetTheorems, WellFoundedInduction, SequenceTheorems, TLAPS

-----------------------------------------------------------------------------
(*****************************************************************************)
(* Office: what is queued for a place of the calendar is settled once, and   *)
(* the pool of those to be laid off is earned, wherever a span is cut        *)
(* short and repeated.                                                       *)
(*****************************************************************************)
\* What a statement of a job writes, for whom, and what.
Operations ==
  {"leave", "mark", "clear", "fall", "rise", "price", "consume", "hurt",
   "raises", "streak", "pool", "strike", "extra", "rule", "charge"}

Whom == Names \union {"firm"}

\* A number, a number for each, or a set of people.
Contents == Nat \union [Names -> Nat] \union SUBSET Names

JobStatements == [op : Operations, who : Whom, what : Contents]

\* The types of the rows, and of where the calendar stands.
OfficeTypes ==
  /\ clock \in Nat /\ clock <= Days * PerDay /\ settledTo \in Nat /\ settledTo <= clock
  /\ to \in {0, clock} /\ at \in Nat /\ at <= to /\ (to > 0 => settledTo <= at)
  /\ stmts \in Seq(JobStatements) /\ (stmts # <<>> => settledTo < at)
  /\ off \in [Names -> 0..(Days + 1)] /\ DOMAIN marks \subseteq 1..Days
  /\ shock \in Nat /\ shocked \in Nat /\ fell \subseteq 1..Days /\ consumed \in Nat
  /\ hurt \in [Names -> [1..Days -> Nat]] /\ verdict \in Verdicts
  /\ raises \in [Names -> Nat] /\ streak \in [Names -> Nat] /\ pool \subseteq Names
  /\ torn \in {"no", "saving", "torn"} /\ extra \subseteq 1..Days /\ held \in [1..Days -> Nat]
  /\ wished \in [{"ill", "shock", "extra"} -> Nat]

\* What a statement is about, by what it does.
Sound(s) ==
  /\ s.op = "leave" => s.who \in Names /\ s.what \in 0..(Days + 1)
  /\ s.op \in {"mark", "clear", "fall", "rise", "consume", "strike", "extra", "rule"} =>
       s.what \in 1..Days
  /\ s.op = "price" => s.what \in Nat
  /\ s.op = "hurt" => s.who \in Names /\ s.what \in 1..Days
  /\ s.op \in {"raises", "streak"} => s.what \in [Names -> Nat]
  /\ s.op = "pool" => s.what \subseteq Names

\* Every statement that waits is one its job makes.
StmtInv == \A i \in DOMAIN stmts : Sound(stmts[i])

\* Whoever a day's rumour has hurt, that day is consumed; a rumour under way consumes a
\* day that nobody has been hurt by, or has consumed it, and hurts everybody once.
RumorInv ==
  /\ \A a \in Names, d \in 1..Days : hurt[a][d] = 0 \/ (hurt[a][d] = 1 /\ d <= consumed)
  /\ \A i \in DOMAIN stmts :
       stmts[i].op = "consume" => i = 1 /\ consumed < stmts[i].what
  /\ \A i \in DOMAIN stmts : stmts[i].op = "hurt" =>
       /\ hurt[stmts[i].who][stmts[i].what] = 0
       /\ stmts[i].what <= consumed \/ (stmts[1].op = "consume" /\ stmts[1].what = stmts[i].what)
  /\ \A i, j \in DOMAIN stmts :
       stmts[i].op = "hurt" /\ stmts[j].op = "hurt" /\ stmts[i].who = stmts[j].who => i = j

\* A shock that was wished is pending, on its way into the price, or in it.
MarketInv ==
  /\ shocked + shock <= wished["shock"]
  /\ \A i \in DOMAIN stmts : stmts[i].op = "clear" => i = 1
  /\ \A i \in DOMAIN stmts : stmts[i].op = "price" =>
       /\ i = Len(stmts)
       /\ IF stmts[1].op = "clear" THEN stmts[i].what = shock
          ELSE shocked + shock + stmts[i].what <= wished["shock"]

\* The overtime that a day has and no evening has struck.
Waiting(d) == IF d \in extra THEN 1 ELSE 0

\* An overtime that was wished is on the list, about to be held, or held.
EveningInv ==
  /\ \A d \in 1..Days : held[d] + Waiting(d) <= wished["extra"]
  /\ \A i \in DOMAIN stmts : stmts[i].op = "strike" => i = 1 /\ stmts[i].what \in extra
  /\ \A i \in DOMAIN stmts : stmts[i].op = "extra" =>
       /\ i = Len(stmts)
       /\ IF stmts[1].op = "strike" THEN stmts[1].what = stmts[i].what
          ELSE held[stmts[i].what] + Waiting(stmts[i].what) + 1 <= wished["extra"]

LEMMA SetInduction ==
  ASSUME NEW T, 0 \in T, \A n \in Nat : n \in T => n + 1 \in T
  PROVE  Nat \subseteq T
<1> SUFFICES ASSUME Nat \ T # {} PROVE FALSE
  OBVIOUS
<1>1. PICK m \in Nat \ T : \A n \in Nat \ T : ~ (<<n, m>> \in OpToRel(<, Nat))
  BY NatLessThanWellFounded, WFMin
<1>2. \A n \in Nat \ T : ~ (n < m)
  BY <1>1 DEF OpToRel
<1>3. m \in Nat /\ m \notin T
  BY <1>1, Zenon
<1>4. m - 1 \in Nat /\ m - 1 < m /\ (m - 1) + 1 = m
  <2>1. m # 0
    BY <1>3
  <2> QED BY <1>3, <2>1
<1> QED BY <1>2, <1>3, <1>4

\* A set of numbers up to k that is not empty has a greatest.
LEMMA HasGreatest ==
  ASSUME NEW k \in Nat, NEW s \in SUBSET (1..k), s # {}
  PROVE  Max(s) \in s /\ \A j \in s : j <= Max(s)
<1> DEFINE T == {n \in Nat : \A r \in SUBSET (1..n) : r # {} => \E m \in r : \A j \in r : m >= j}
<1>1. 0 \in T
  <2>1. \A r \in SUBSET (1..0) : r = {}
    OBVIOUS
  <2> QED BY <2>1
<1>2. ASSUME NEW n \in Nat, n \in T PROVE n + 1 \in T
  <2> SUFFICES ASSUME NEW r \in SUBSET (1..(n + 1)), r # {} PROVE \E m \in r : \A j \in r : m >= j
    OBVIOUS
  <2>1. CASE n + 1 \in r
    BY <2>1
  <2>2. CASE n + 1 \notin r
    <3>1. r \in SUBSET (1..n)
      BY <2>2
    <3> QED BY <1>2, <3>1
  <2> QED BY <2>1, <2>2
<1>3. k \in T
  <2> HIDE DEF T
  <2> QED BY <1>1, <1>2, SetInduction
<1>4. \E m \in s : \A j \in s : m >= j
  BY <1>3
<1>5. Max(s) \in s /\ \A j \in s : Max(s) >= j
  BY <1>4 DEF Max
<1> QED BY <1>5

\* A set of numbers up to n that is not empty has a least.
LEMMA MinIsLeast ==
  ASSUME NEW n \in Nat, NEW S \in SUBSET (1..n), S # {}
  PROVE  Min(S) \in S /\ \A k \in S : Min(S) <= k
<1>1. S \subseteq Nat
  OBVIOUS
<1>2. PICK m \in S : \A k \in S : ~ (<<k, m>> \in OpToRel(<, Nat))
  BY <1>1, NatLessThanWellFounded, WFMin
<1>3. \A k \in S : ~ (k < m)
  BY <1>1, <1>2 DEF OpToRel
<1>4. \A k \in S : m <= k
  BY <1>1, <1>3
<1> QED BY <1>4 DEF Min

\* What the constants are.
LEMMA OfficeConstants ==
  /\ Days \in Nat /\ PoolAfter \in Nat \ {0} /\ LastFriday \subseteq 1..Days
  /\ Steps \subseteq Nat \ {0} /\ PerDay = 7 /\ Staff \in Seq(Names)
  /\ \A i \in 1..Len(Staff) : Staff[i] \in Names
  /\ \A i, j \in 1..Len(Staff) : Staff[i] = Staff[j] => i = j
<1>1. Days \in Nat /\ PoolAfter \in Nat \ {0} /\ LastFriday \subseteq 1..Days
  BY OfficeAssumption
<1>2. PerDay = 7
  BY DEF PerDay, JobsOfADay
<1>3. Staff \in Seq(Names)
  BY OfficeAssumption DEF Names
<1>4. \A i \in 1..Len(Staff) : Staff[i] \in Names
  BY <1>3
<1>5. DOMAIN Staff = 1..Len(Staff)
  BY <1>3
<1>6. \A i, j \in 1..Len(Staff) : Staff[i] = Staff[j] => i = j
  BY <1>5, OfficeAssumption DEF IsInjective
<1> QED BY <1>1, <1>2, <1>3, <1>4, <1>6, OfficeAssumption

\* What is left once the first statement has run.
LEMMA TailFacts ==
  ASSUME stmts \in Seq(JobStatements), stmts # <<>>, stmts' = Tail(stmts)
  PROVE  /\ Len(stmts) \in Nat \ {0} /\ DOMAIN stmts = 1..Len(stmts)
         /\ stmts' \in Seq(JobStatements) /\ Len(stmts') = Len(stmts) - 1
         /\ DOMAIN stmts' = 1..(Len(stmts) - 1)
         /\ \A i \in DOMAIN stmts' : i + 1 \in DOMAIN stmts /\ stmts'[i] = stmts[i + 1]
         /\ Head(stmts) = stmts[1] /\ 1 \in DOMAIN stmts /\ stmts[1] \in JobStatements
OBVIOUS

\* Sound statements stay sound.
LEMMA SoundTail ==
  ASSUME stmts \in Seq(JobStatements), stmts # <<>>, stmts' = Tail(stmts), StmtInv
  PROVE  StmtInv'
BY TailFacts DEF StmtInv, Sound

\* What a statement of another kind leaves behind.
LEMMA RumorTail ==
  ASSUME stmts \in Seq(JobStatements), stmts # <<>>, stmts' = Tail(stmts), RumorInv,
         stmts[1].op # "consume", UNCHANGED <<hurt, consumed>>
  PROVE  RumorInv'
BY TailFacts DEF RumorInv

\* A statement that does not clear the shock leaves the market's count.
LEMMA MarketTail ==
  ASSUME stmts \in Seq(JobStatements), stmts # <<>>, stmts' = Tail(stmts), MarketInv,
         stmts[1].op # "clear", UNCHANGED <<shock, shocked, wished>>
  PROVE  MarketInv'
BY TailFacts DEF MarketInv

\* A statement that strikes nobody leaves the evening's count.
LEMMA EveningTail ==
  ASSUME stmts \in Seq(JobStatements), stmts # <<>>, stmts' = Tail(stmts), EveningInv,
         stmts[1].op # "strike", UNCHANGED <<extra, held, wished>>
  PROVE  EveningInv'
BY TailFacts DEF EveningInv, Waiting

\* The inductive invariant of what is settled once.
SettledInv == OfficeTypes /\ StmtInv /\ RumorInv /\ MarketInv /\ EveningInv

\* Running a statement takes it from the job and leaves the calendar.
LEMMA ExecuteFrame ==
  ASSUME OfficeTypes, StmtInv, Execute
  PROVE  /\ stmts # <<>> /\ stmts' = Tail(stmts) /\ stmts \in Seq(JobStatements)
         /\ StmtInv' /\ Sound(stmts[1]) /\ Head(stmts) = stmts[1]
         /\ UNCHANGED <<clock, settledTo, to, at, verdict, wished>>
         /\ stmts' \in Seq(JobStatements)
<1>1. /\ stmts # <<>> /\ stmts' = Tail(stmts) /\ stmts \in Seq(JobStatements)
      /\ UNCHANGED <<clock, settledTo, to, at, verdict, wished>>
  BY DEF OfficeTypes, Execute, position
<1>2. StmtInv' /\ Head(stmts) = stmts[1] /\ 1 \in DOMAIN stmts /\ stmts' \in Seq(JobStatements)
  BY <1>1, SoundTail, TailFacts
<1> QED BY <1>1, <1>2 DEF StmtInv

\* The statements of illness.
LEMMA HealthKeeps ==
  ASSUME SettledInv, Execute, stmts[1].op \in {"leave", "mark"}
  PROVE  SettledInv'
<1> USE DEF SettledInv
<1>1. Health(stmts[1]) /\ UNCHANGED <<market, career, torn, evening>>
  BY ExecuteFrame DEF Execute
<1>2. UNCHANGED <<shock, shocked, fell, consumed, hurt, raises, streak, pool, torn, extra, held>>
  BY <1>1 DEF market, career, evening
<1>3. off' \in [Names -> 0..(Days + 1)] /\ DOMAIN marks' \subseteq 1..Days
  <2>1. CASE stmts[1].op = "leave"
    <3>1. off' = [off EXCEPT ![stmts[1].who] = stmts[1].what] /\ marks' = marks
      BY <1>1, <2>1 DEF Health
    <3> QED BY <2>1, <3>1, ExecuteFrame DEF OfficeTypes, Sound
  <2>2. CASE stmts[1].op = "mark"
    <3>1. off' = off /\ DOMAIN marks' = DOMAIN marks \union {stmts[1].what}
      BY <1>1, <2>2 DEF Health
    <3> QED BY <2>2, <3>1, ExecuteFrame DEF OfficeTypes, Sound
  <2> QED BY <2>1, <2>2
<1>4. OfficeTypes'
  BY <1>2, <1>3, ExecuteFrame DEF OfficeTypes
<1>5. RumorInv' /\ MarketInv' /\ EveningInv'
  BY <1>2, ExecuteFrame, RumorTail, MarketTail, EveningTail
<1> QED BY <1>4, <1>5, ExecuteFrame

\* The statements of the market and of the rumour.
LEMMA MarketKeeps ==
  ASSUME SettledInv, Execute,
         stmts[1].op \in {"clear", "fall", "rise", "price", "consume", "hurt"}
  PROVE  SettledInv'
<1> USE DEF SettledInv
<1>1. Market(stmts[1]) /\ UNCHANGED <<health, career, torn, evening>>
  BY ExecuteFrame DEF Execute
<1>2. UNCHANGED <<off, marks, raises, streak, pool, torn, extra, held>>
  BY <1>1 DEF health, career, evening
<1>3. EveningInv'
  BY <1>2, ExecuteFrame, EveningTail
<1>4. CASE stmts[1].op \in {"fall", "rise"}
  <2>1. UNCHANGED <<shock, shocked, consumed, hurt>> /\ fell' \subseteq 1..Days
    BY <1>1, <1>4, ExecuteFrame DEF Market, Sound, OfficeTypes
  <2>2. OfficeTypes'
    BY <1>2, <2>1, ExecuteFrame DEF OfficeTypes
  <2>3. RumorInv' /\ MarketInv'
    BY <1>4, <2>1, ExecuteFrame, RumorTail, MarketTail
  <2> QED BY <1>3, <2>2, <2>3, ExecuteFrame
<1>5. CASE stmts[1].op = "clear"
  <2>1. shock' = 0 /\ UNCHANGED <<shocked, fell, consumed, hurt>>
    BY <1>1, <1>5 DEF Market
  <2>2. OfficeTypes'
    BY <1>2, <2>1, ExecuteFrame DEF OfficeTypes
  <2>3. RumorInv'
    BY <1>5, <2>1, ExecuteFrame, RumorTail
  <2>4. MarketInv'
    <3>1. shocked' + shock' <= wished'["shock"]
      <4>1. shocked \in Nat /\ shock \in Nat /\ wished["shock"] \in Nat
        BY DEF OfficeTypes
      <4>2. shocked + shock <= wished["shock"]
        BY DEF MarketInv
      <4> QED BY <2>1, <4>1, <4>2, ExecuteFrame
    <3>2. \A i \in DOMAIN stmts' : stmts'[i].op # "clear"
      BY ExecuteFrame, TailFacts DEF MarketInv
    <3>3. \A i \in DOMAIN stmts' : stmts'[i].op = "price" =>
             /\ i = Len(stmts') /\ stmts'[1].op # "clear"
             /\ shocked' + shock' + stmts'[i].what <= wished'["shock"]
      <4> TAKE i \in DOMAIN stmts'
      <4> HAVE stmts'[i].op = "price"
      <4>1. /\ i + 1 \in DOMAIN stmts /\ stmts'[i] = stmts[i + 1] /\ Len(stmts') = Len(stmts) - 1
            /\ i \in Nat /\ Len(stmts) \in Nat /\ 1 \in DOMAIN stmts'
        BY ExecuteFrame, TailFacts
      <4>2. i + 1 = Len(stmts) /\ stmts[i + 1].what = shock
        BY <1>5, <4>1 DEF MarketInv
      <4>3. shocked + 0 + shock <= wished["shock"] /\ shock \in Nat /\ shocked \in Nat
        BY DEF MarketInv, OfficeTypes
      <4> QED BY <2>1, <3>2, <4>1, <4>2, <4>3, ExecuteFrame
    <3> QED BY <3>1, <3>2, <3>3 DEF MarketInv
  <2> QED BY <1>3, <2>2, <2>3, <2>4, ExecuteFrame
<1>6. CASE stmts[1].op = "price"
  <2>1. shocked' = shocked + stmts[1].what /\ UNCHANGED <<shock, fell, consumed, hurt>>
    BY <1>1, <1>6 DEF Market
  <2>2. stmts[1].what \in Nat
    BY <1>6, ExecuteFrame DEF Sound
  <2>3. OfficeTypes'
    <3>1. shocked' \in Nat
      BY SMTT(30), <2>1, <2>2 DEF OfficeTypes
    <3> QED BY <1>2, <2>1, <3>1, ExecuteFrame DEF OfficeTypes
  <2>4. RumorInv'
    BY <1>6, <2>1, ExecuteFrame, RumorTail
  <2>5. Len(stmts) = 1 /\ shocked + shock + stmts[1].what <= wished["shock"]
    BY <1>6, ExecuteFrame, TailFacts DEF MarketInv
  <2>6. MarketInv'
    <3>1. DOMAIN stmts' = {}
      BY <2>5, ExecuteFrame, TailFacts
    <3>2. shocked' + shock' <= wished'["shock"]
      <4>1. PICK v \in Nat : stmts[1].what = v
        BY <2>2
      <4>2. shocked \in Nat /\ shock \in Nat
        BY DEF OfficeTypes
      <4>3. shocked' = shocked + v /\ shock' = shock /\ wished' = wished
        BY <2>1, <4>1, ExecuteFrame
      <4>4. shocked + shock + v <= wished["shock"] /\ wished["shock"] \in Nat
        BY <2>5, <4>1 DEF OfficeTypes
      <4> QED BY <4>2, <4>3, <4>4
    <3> QED BY <3>1, <3>2 DEF MarketInv
  <2> QED BY <1>3, <2>3, <2>4, <2>6, ExecuteFrame
<1>7. CASE stmts[1].op = "consume"
  <2>1. consumed' = stmts[1].what /\ UNCHANGED <<shock, shocked, fell, hurt>>
    BY <1>1, <1>7 DEF Market
  <2>2. stmts[1].what \in Nat
    BY <1>7, ExecuteFrame, OfficeConstants DEF Sound
  <2>3. OfficeTypes'
    BY <1>2, <2>1, <2>2, ExecuteFrame DEF OfficeTypes
  <2>4. MarketInv'
    BY <1>7, <2>1, ExecuteFrame, MarketTail
  <2>5. consumed < stmts[1].what
    BY <1>7, ExecuteFrame, TailFacts DEF RumorInv
  <2>6. RumorInv'
    <3>1. \A a \in Names, d \in 1..Days : hurt'[a][d] = 0 \/ (hurt'[a][d] = 1 /\ d <= consumed')
      <4> TAKE a \in Names, d \in 1..Days
      <4>1. PICK v \in Nat : stmts[1].what = v
        BY <2>2
      <4>2. consumed \in Nat /\ consumed < v /\ consumed' = v /\ hurt' = hurt
        BY <2>1, <2>5, <4>1 DEF OfficeTypes
      <4>3. hurt[a][d] = 0 \/ (hurt[a][d] = 1 /\ d <= consumed)
        BY DEF RumorInv
      <4> QED BY <4>2, <4>3, OfficeConstants
    <3>2. \A i \in DOMAIN stmts' : stmts'[i].op # "consume"
      BY ExecuteFrame, TailFacts DEF RumorInv
    <3>3. \A i \in DOMAIN stmts' : stmts'[i].op = "hurt" =>
             /\ stmts'[i].what \in 1..Days /\ hurt'[stmts'[i].who][stmts'[i].what] = 0
             /\ stmts'[i].what <= consumed'
      <4> TAKE i \in DOMAIN stmts'
      <4> HAVE stmts'[i].op = "hurt"
      <4>1. i + 1 \in DOMAIN stmts /\ stmts'[i] = stmts[i + 1]
        BY ExecuteFrame, TailFacts
      <4>2. stmts[i + 1].what \in 1..Days
        BY <4>1 DEF StmtInv, Sound
      <4>3. /\ hurt[stmts[i + 1].who][stmts[i + 1].what] = 0
            /\ stmts[i + 1].what <= consumed \/ stmts[1].what = stmts[i + 1].what
        BY <4>1 DEF RumorInv
      <4>4. stmts[i + 1].what <= consumed'
        <5>1. PICK v \in Nat, x \in Nat : stmts[1].what = v /\ stmts[i + 1].what = x
          BY <2>2, <4>2, OfficeConstants
        <5>2. consumed \in Nat /\ consumed < v /\ consumed' = v
          BY <2>1, <2>5, <5>1 DEF OfficeTypes
        <5>3. x <= consumed \/ v = x
          BY <4>3, <5>1
        <5> QED BY <5>1, <5>2, <5>3
      <4> QED BY <2>1, <4>1, <4>2, <4>3, <4>4
    <3>4. \A i, j \in DOMAIN stmts' :
            stmts'[i].op = "hurt" /\ stmts'[j].op = "hurt" /\ stmts'[i].who = stmts'[j].who => i = j
      BY SMTT(30), ExecuteFrame, TailFacts DEF RumorInv
    <3> QED BY <3>1, <3>2, <3>3, <3>4 DEF RumorInv
  <2> QED BY <1>3, <2>3, <2>4, <2>6, ExecuteFrame
<1>8. CASE stmts[1].op = "hurt"
  <2> DEFINE w == stmts[1].who
             e == stmts[1].what
  <2>1. hurt' = [hurt EXCEPT ![w][e] = @ + 1] /\ UNCHANGED <<shock, shocked, fell, consumed>>
    BY <1>1, <1>8 DEF Market
  <2>2. w \in Names /\ e \in 1..Days /\ hurt[w][e] = 0 /\ e <= consumed
    <3>1. w \in Names /\ e \in 1..Days
      BY <1>8, ExecuteFrame DEF Sound
    <3>2. hurt[w][e] = 0 /\ e <= consumed
      BY <1>8, ExecuteFrame, TailFacts DEF RumorInv
    <3> QED BY <3>1, <3>2
  <2>3. /\ hurt' \in [Names -> [1..Days -> Nat]] /\ hurt'[w][e] = 1
        /\ \A a \in Names, d \in 1..Days : a # w \/ d # e => hurt'[a][d] = hurt[a][d]
    <3>1. PICK n \in Names, k \in 1..Days : w = n /\ e = k
      BY <2>2
    <3>2. hurt \in [Names -> [1..Days -> Nat]] /\ hurt[n][k] = 0
      BY <2>2, <3>1 DEF OfficeTypes
    <3>3. hurt' = [hurt EXCEPT ![n] = [hurt[n] EXCEPT ![k] = hurt[n][k] + 1]]
      BY <2>1, <3>1, <3>2
    <3>4. [hurt[n] EXCEPT ![k] = hurt[n][k] + 1] \in [1..Days -> Nat]
      BY <3>2
    <3>5. hurt' \in [Names -> [1..Days -> Nat]]
      BY <3>2, <3>3, <3>4
    <3>6. hurt'[n][k] = 1
      <4>1. hurt'[n] = [hurt[n] EXCEPT ![k] = hurt[n][k] + 1]
        BY <3>2, <3>3
      <4>2. hurt'[n][k] = hurt[n][k] + 1
        BY <3>2, <4>1
      <4> QED BY <3>2, <4>2
    <3>7. \A a \in Names, d \in 1..Days : a # n \/ d # k => hurt'[a][d] = hurt[a][d]
      BY <3>2, <3>3
    <3> QED BY <3>1, <3>5, <3>6, <3>7
  <2>4. OfficeTypes'
    BY <1>2, <2>1, <2>3, ExecuteFrame DEF OfficeTypes
  <2>5. MarketInv'
    BY <1>8, <2>1, ExecuteFrame, MarketTail
  <2>6. /\ hurt'[w][e] = 1
        /\ \A a \in Names, d \in 1..Days : a # w \/ d # e => hurt'[a][d] = hurt[a][d]
    BY <2>3
  <2>7. \A a \in Names, d \in 1..Days : hurt'[a][d] = 0 \/ (hurt'[a][d] = 1 /\ d <= consumed')
    BY <2>1, <2>2, <2>6 DEF RumorInv
  <2>8. \A i \in DOMAIN stmts' : stmts'[i].op # "consume"
    BY ExecuteFrame, TailFacts DEF RumorInv
  <2>9. \A i \in DOMAIN stmts' : stmts'[i].op = "hurt" =>
           /\ hurt'[stmts'[i].who][stmts'[i].what] = 0
           /\ stmts'[i].what <= consumed'
    <3> TAKE i \in DOMAIN stmts'
    <3> HAVE stmts'[i].op = "hurt"
    <3>1. i + 1 \in DOMAIN stmts /\ stmts'[i] = stmts[i + 1] /\ 1 \in DOMAIN stmts /\ i + 1 # 1
      BY ExecuteFrame, TailFacts
    <3>2. stmts[i + 1].who \in Names /\ stmts[i + 1].what \in 1..Days
      BY <3>1 DEF StmtInv, Sound
    <3>3. stmts[i + 1].who # w
      BY <1>8, <3>1 DEF RumorInv
    <3>4. hurt[stmts[i + 1].who][stmts[i + 1].what] = 0 /\ stmts[i + 1].what <= consumed
      BY <1>8, <3>1 DEF RumorInv
    <3> QED BY <2>1, <2>6, <3>1, <3>2, <3>3, <3>4
  <2>10. \A i, j \in DOMAIN stmts' :
          stmts'[i].op = "hurt" /\ stmts'[j].op = "hurt" /\ stmts'[i].who = stmts'[j].who => i = j
    BY ExecuteFrame, TailFacts DEF RumorInv
  <2>11. RumorInv'
    BY <2>7, <2>8, <2>9, <2>10 DEF RumorInv
  <2> QED BY <1>3, <2>4, <2>5, <2>11, ExecuteFrame
<1> QED BY <1>4, <1>5, <1>6, <1>7, <1>8

\* The statements of a review.
LEMMA CareerKeepsSettled ==
  ASSUME SettledInv, Execute, stmts[1].op \in {"raises", "streak", "pool"}
  PROVE  SettledInv'
<1> USE DEF SettledInv
<1>1. Career(stmts[1]) /\ UNCHANGED <<health, market, evening>>
  BY ExecuteFrame DEF Execute
<1>2. UNCHANGED <<off, marks, shock, shocked, fell, consumed, hurt, extra, held>>
  BY <1>1 DEF health, market, evening
<1>3. /\ raises' \in [Names -> Nat] /\ streak' \in [Names -> Nat] /\ pool' \subseteq Names
      /\ torn' \in {"no", "saving", "torn"}
  BY <1>1, ExecuteFrame DEF Career, OfficeTypes, Sound
<1>4. OfficeTypes'
  BY <1>2, <1>3, ExecuteFrame DEF OfficeTypes
<1>5. RumorInv' /\ MarketInv' /\ EveningInv'
  BY <1>2, ExecuteFrame, RumorTail, MarketTail, EveningTail
<1> QED BY <1>4, <1>5, ExecuteFrame

\* The statements of overtime and of the team's dinner.
LEMMA EveningKeeps ==
  ASSUME SettledInv, Execute, stmts[1].op \in {"strike", "extra", "rule", "charge"}
  PROVE  SettledInv'
<1> USE DEF SettledInv
<1>1. Evening(stmts[1]) /\ UNCHANGED <<health, market, career, torn>>
  BY ExecuteFrame DEF Execute
<1>2. UNCHANGED <<off, marks, raises, streak, pool, torn, shock, shocked, fell, consumed, hurt>>
  BY <1>1 DEF health, career, market
<1>3. RumorInv' /\ MarketInv'
  BY <1>2, ExecuteFrame, RumorTail, MarketTail
<1>4. CASE stmts[1].op \in {"rule", "charge"}
  <2>1. UNCHANGED <<extra, held>>
    BY <1>1, <1>4 DEF Evening, evening
  <2>2. OfficeTypes'
    BY <1>2, <2>1, ExecuteFrame DEF OfficeTypes
  <2>3. EveningInv'
    BY <1>4, <2>1, ExecuteFrame, EveningTail
  <2> QED BY <1>3, <2>2, <2>3, ExecuteFrame
<1>5. CASE stmts[1].op = "strike"
  <2> DEFINE e == stmts[1].what
  <2>1. extra' = extra \ {e} /\ held' = held
    BY <1>1, <1>5 DEF Evening
  <2>2. e \in 1..Days /\ e \in extra
    BY <1>5, ExecuteFrame, TailFacts DEF Sound, EveningInv
  <2>3. OfficeTypes'
    BY <1>2, <2>1, ExecuteFrame DEF OfficeTypes
  <2>4. \A d \in 1..Days : held'[d] + Waiting(d)' <= wished'["extra"]
    <3> TAKE d \in 1..Days
    <3>1. held[d] \in Nat /\ held[d] + Waiting(d) <= wished["extra"] /\ wished["extra"] \in Nat
      BY DEF EveningInv, OfficeTypes
    <3>2. Waiting(d)' <= Waiting(d) /\ Waiting(d) \in 0..1 /\ Waiting(d)' \in 0..1
      BY <2>1 DEF Waiting
    <3> QED BY <2>1, <3>1, <3>2, ExecuteFrame
  <2>5. \A i \in DOMAIN stmts' : stmts'[i].op # "strike"
    BY ExecuteFrame, TailFacts DEF EveningInv
  <2>6. \A i \in DOMAIN stmts' : stmts'[i].op = "extra" =>
          /\ i = Len(stmts') /\ stmts'[i].what \notin extra'
          /\ held'[stmts'[i].what] + 0 + 1 <= wished'["extra"]
    <3> TAKE i \in DOMAIN stmts'
    <3> HAVE stmts'[i].op = "extra"
    <3>1. i + 1 \in DOMAIN stmts /\ stmts'[i] = stmts[i + 1] /\ Len(stmts') = Len(stmts) - 1
      BY ExecuteFrame, TailFacts
    <3>2. i + 1 = Len(stmts) /\ stmts[i + 1].what = e
      BY <1>5, <3>1 DEF EveningInv
    <3>3. Len(stmts) \in Nat /\ i \in Nat
      BY ExecuteFrame, TailFacts
    <3>4. held[e] + 1 <= wished["extra"] /\ held[e] \in Nat
      BY <2>2 DEF EveningInv, Waiting, OfficeTypes
    <3>5. e \notin extra' /\ held' = held /\ stmts'[i].what = e
      BY <2>1, <3>1, <3>2
    <3> QED BY <3>1, <3>2, <3>3, <3>4, <3>5, ExecuteFrame
  <2>7. EveningInv'
    <3>1. \A i \in DOMAIN stmts' : stmts'[1].op # "strike"
      BY <2>5, ExecuteFrame, TailFacts
    <3> QED BY <2>4, <2>5, <2>6, <3>1 DEF EveningInv, Waiting
  <2> QED BY <1>3, <2>3, <2>7, ExecuteFrame
<1>6. CASE stmts[1].op = "extra"
  <2> DEFINE e == stmts[1].what
  <2>1. held' = [held EXCEPT ![e] = @ + 1] /\ extra' = extra
    BY <1>1, <1>6 DEF Evening
  <2>2. /\ e \in 1..Days /\ Len(stmts) = 1
        /\ held[e] + Waiting(e) + 1 <= wished["extra"]
    <3>1. 1 \in DOMAIN stmts /\ stmts[1].op = "extra" /\ stmts[1].op # "strike"
      BY <1>6, ExecuteFrame, TailFacts
    <3>2. 1 = Len(stmts) /\ held[e] + Waiting(e) + 1 <= wished["extra"]
      BY <3>1 DEF EveningInv
    <3>3. e \in 1..Days
      BY <3>1, ExecuteFrame DEF Sound
    <3> QED BY <3>2, <3>3
  <2>3. OfficeTypes'
    <3>1. PICK k \in 1..Days : e = k
      BY <2>2
    <3>2. held \in [1..Days -> Nat] /\ held' = [held EXCEPT ![k] = held[k] + 1]
      BY <2>1, <3>1 DEF OfficeTypes
    <3>3. held' \in [1..Days -> Nat]
      BY <3>2
    <3> QED BY <1>2, <2>1, <3>3, ExecuteFrame DEF OfficeTypes
  <2>4. DOMAIN stmts' = {}
    BY <2>2, ExecuteFrame, TailFacts
  <2>5. \A d \in 1..Days : held'[d] + Waiting(d)' <= wished'["extra"]
    <3> TAKE d \in 1..Days
    <3>1. held[d] \in Nat /\ held[d] + Waiting(d) <= wished["extra"] /\ wished["extra"] \in Nat
      BY DEF EveningInv, OfficeTypes
    <3>2. Waiting(d)' = Waiting(d) /\ Waiting(d) \in 0..1
      BY <2>1 DEF Waiting
    <3>3. held'[d] = IF d = e THEN held[d] + 1 ELSE held[d]
      BY <2>1, <2>2 DEF OfficeTypes
    <3> QED BY <2>2, <3>1, <3>2, <3>3, ExecuteFrame
  <2>6. EveningInv'
    BY <2>4, <2>5 DEF EveningInv
  <2> QED BY <1>3, <2>3, <2>6, ExecuteFrame
<1> QED BY <1>4, <1>5, <1>6

\* A statement of any job.
LEMMA ExecuteKeepsSettled == ASSUME SettledInv, Execute PROVE SettledInv'
<1>1. stmts[1].op \in Operations
  BY ExecuteFrame, TailFacts DEF SettledInv, JobStatements
<1> QED BY <1>1, HealthKeeps, MarketKeeps, CareerKeepsSettled, EveningKeeps DEF Operations

\* The place of a job in its day: the day and the job of it.
LEMMA JobPlaces ==
  ASSUME NEW s \in Nat, s >= 1, s <= Days * PerDay
  PROVE  /\ DayOf(s) \in 1..Days /\ JobAt(s) \in Range(JobsOfADay)
         /\ (DayOf(s) - 1) * 7 + 1 <= s /\ s <= DayOf(s) * 7
         /\ JobAt(s) = JobsOfADay[s - (DayOf(s) - 1) * 7]
<1>1. Days \in Nat /\ PerDay = 7
  BY OfficeConstants
<1>2. s <= Days * 7
  BY <1>1
<1>3. DayOf(s) = ((s - 1) \div 7) + 1 /\ JobAt(s) = JobsOfADay[((s - 1) % 7) + 1]
  BY <1>1 DEF DayOf, JobAt
<1>4. ASSUME NEW q, NEW r, q = (s - 1) \div 7, r = (s - 1) % 7
      PROVE  q \in Nat /\ r \in 0..6 /\ s - 1 = q * 7 + r
  BY <1>4
<1>5. PICK q, r : q = (s - 1) \div 7 /\ r = (s - 1) % 7
  OBVIOUS
<1>6. q \in Nat /\ r \in 0..6 /\ s - 1 = q * 7 + r
  BY <1>4, <1>5
<1>7. q + 1 \in 1..Days
  BY <1>1, <1>2, <1>6
<1>8. DayOf(s) = q + 1 /\ JobAt(s) = JobsOfADay[r + 1]
  BY <1>3, <1>5
<1>9. r + 1 = s - (DayOf(s) - 1) * 7 /\ r + 1 \in 1..7
  BY <1>6, <1>8
<1>10. 1..7 = DOMAIN JobsOfADay
  BY DEF JobsOfADay
<1>11. JobAt(s) \in Range(JobsOfADay)
  BY <1>8, <1>9, <1>10 DEF Range
<1> QED BY <1>6, <1>7, <1>8, <1>9, <1>11

\* The jobs of a day.
LEMMA Jobs == Range(JobsOfADay) = {"disturb", "checkin", "stock", "rumor", "review", "overtime", "team"}
<1>1. DOMAIN JobsOfADay = {1, 2, 3, 4, 5, 6, 7}
  BY DEF JobsOfADay
<1> QED BY <1>1 DEF Range, JobsOfADay

\* A job starts at the least place left, with no statement waiting.
LEMMA StartFrame ==
  ASSUME OfficeTypes, StartJob
  PROVE  /\ to > 0 /\ stmts = <<>> /\ at' = Min(Left) /\ at' \in Left
         /\ at' \in Nat /\ at < at' /\ at' <= to /\ to = clock /\ On(at')
         /\ DayOf(at') \in 1..Days /\ JobAt(at') \in Range(JobsOfADay)
         /\ UNCHANGED <<clock, settledTo, to, off, marks, shock, shocked, fell, consumed, hurt,
                        verdict, raises, streak, pool, torn, extra, held>>
<1>1. /\ to > 0 /\ stmts = <<>> /\ Left # {} /\ at' = Min(Left)
      /\ UNCHANGED <<clock, settledTo, to, health, market, verdict, career, torn, evening>>
  BY DEF StartJob
<1>2. to = clock /\ clock \in Nat /\ at \in Nat /\ clock <= Days * PerDay
  BY <1>1 DEF OfficeTypes
<1>3. Left \in SUBSET (1..to)
  BY <1>2 DEF Left
<1>4. Min(Left) \in Left
  BY <1>1, <1>2, <1>3, MinIsLeast
<1>5. at' \in Nat /\ at < at' /\ at' <= to /\ On(at')
  BY <1>1, <1>2, <1>4 DEF Left
<1>6. DayOf(at') \in 1..Days /\ JobAt(at') \in Range(JobsOfADay)
  <2>1. at' >= 1 /\ at' <= Days * PerDay
    BY <1>2, <1>5, OfficeConstants
  <2> QED BY <1>5, <2>1, JobPlaces
<1>7. /\ off' = off /\ marks' = marks /\ shock' = shock /\ shocked' = shocked /\ fell' = fell
      /\ consumed' = consumed /\ hurt' = hurt /\ raises' = raises /\ streak' = streak
      /\ pool' = pool /\ extra' = extra /\ held' = held
  BY <1>1 DEF health, market, career, evening
<1>8. /\ stmts = <<>> /\ clock' = clock /\ settledTo' = settledTo /\ to' = to
      /\ verdict' = verdict /\ torn' = torn
  BY DEF StartJob
<1>9. at' \in Left
  BY <1>1, <1>4
<1>10. UNCHANGED <<clock, settledTo, to, off, marks, shock, shocked, fell, consumed, hurt,
                   verdict, raises, streak, pool, torn, extra, held>>
  BY <1>7, <1>8
<1>11. to > 0 /\ at' = Min(Left)
  BY <1>1
<1>12. to = clock
  BY <1>2
<1> QED BY <1>5, <1>6, <1>8, <1>9, <1>10, <1>11, <1>12

\* A job that starts only makes statements and counts wishes.
LEMMA StartTypes ==
  ASSUME OfficeTypes, StartJob, stmts' \in Seq(JobStatements),
         wished' \in [{"ill", "shock", "extra"} -> Nat]
  PROVE  OfficeTypes'
<1>1. /\ UNCHANGED <<clock, settledTo, to, off, marks, shock, shocked, fell, consumed, hurt,
                     verdict, raises, streak, pool, torn, extra, held>>
      /\ to > 0 /\ at' \in Nat /\ at < at' /\ at' <= to
  BY StartFrame
<1>2. /\ clock' \in Nat /\ clock' <= Days * PerDay /\ settledTo' \in Nat /\ settledTo' <= clock'
      /\ to' \in {0, clock'} /\ at' \in Nat /\ at' <= to' /\ settledTo' < at'
      /\ settledTo' <= at'
  BY <1>1 DEF OfficeTypes
<1>3. /\ off' \in [Names -> 0..(Days + 1)] /\ DOMAIN marks' \subseteq 1..Days
      /\ shock' \in Nat /\ shocked' \in Nat /\ fell' \subseteq 1..Days /\ consumed' \in Nat
      /\ hurt' \in [Names -> [1..Days -> Nat]] /\ verdict' \in Verdicts
      /\ raises' \in [Names -> Nat] /\ streak' \in [Names -> Nat] /\ pool' \subseteq Names
      /\ torn' \in {"no", "saving", "torn"} /\ extra' \subseteq 1..Days /\ held' \in [1..Days -> Nat]
  BY <1>1 DEF OfficeTypes
<1> QED BY <1>2, <1>3, Zenon DEF OfficeTypes

\* A statement has what it was made of.
LEMMA StatementMade ==
  ASSUME NEW o \in Operations, NEW w \in Whom, NEW x \in Contents
  PROVE  /\ Stmt(o, w, x) \in JobStatements
         /\ Stmt(o, w, x).op = o /\ Stmt(o, w, x).who = w /\ Stmt(o, w, x).what = x
BY DEF Stmt, JobStatements

\* Joining short sequences.
LEMMA Joined == \A a, b, c : <<a>> \o <<b, c>> = <<a, b, c>> /\ <<>> \o <<b, c>> = <<b, c>>
<1> TAKE a, b, c
<1> DEFINE S == {a, b, c}
<1>1. <<a>> \in Seq(S) /\ <<b, c>> \in Seq(S) /\ <<a, b, c>> \in Seq(S) /\ <<>> \in Seq(S)
  OBVIOUS
<1>2. Len(<<a>>) = 1 /\ Len(<<b, c>>) = 2 /\ Len(<<a, b, c>>) = 3
  OBVIOUS
<1>3. \A s, t \in Seq(S) :
        /\ s \o t \in Seq(S) /\ Len(s \o t) = Len(s) + Len(t)
        /\ \A i \in 1..Len(s) : (s \o t)[i] = s[i]
        /\ \A i \in 1..Len(t) : (s \o t)[Len(s) + i] = t[i]
  <2> HIDE DEF S
  <2> QED OBVIOUS
<1>4. \A s, t \in Seq(S) : Len(s) = Len(t) /\ (\A i \in 1..Len(s) : s[i] = t[i]) => s = t
  <2> HIDE DEF S
  <2> QED BY SeqEqual
<1>5. <<a>> \o <<b, c>> = <<a, b, c>>
  <2> DEFINE j == <<a>> \o <<b, c>>
  <2>1. j \in Seq(S) /\ Len(j) = 3
    BY <1>1, <1>2, <1>3
  <2>2. j[1] = a /\ j[2] = b /\ j[3] = c
    BY <1>1, <1>2, <1>3
  <2>3. \A i \in 1..3 : j[i] = <<a, b, c>>[i]
    BY <2>2
  <2> QED BY <1>1, <1>2, <1>4, <2>1, <2>3
<1>6. <<>> \o <<b, c>> = <<b, c>>
  OBVIOUS
<1> QED BY <1>5, <1>6

\* One statement for everybody.
LEMMA ForEverybody ==
  ASSUME NEW op \in Operations, NEW what \in Nat
  PROVE  /\ ForAll(Staff, op, what) \in Seq(JobStatements)
         /\ Len(ForAll(Staff, op, what)) = Len(Staff)
         /\ \A i \in 1..Len(Staff) :
              /\ ForAll(Staff, op, what)[i].op = op /\ ForAll(Staff, op, what)[i].what = what
              /\ ForAll(Staff, op, what)[i].who = Staff[i]
<1>1. Len(Staff) \in Nat /\ \A i \in 1..Len(Staff) : Staff[i] \in Names
  BY OfficeConstants
<1>2. \A i \in 1..Len(Staff) :
        /\ Stmt(op, Staff[i], what) \in JobStatements /\ Stmt(op, Staff[i], what).op = op
        /\ Stmt(op, Staff[i], what).who = Staff[i] /\ Stmt(op, Staff[i], what).what = what
  <2> TAKE i \in 1..Len(Staff)
  <2>1. Staff[i] \in Whom /\ what \in Contents
    BY <1>1 DEF Whom, Contents
  <2> QED BY <2>1, SMT DEF Stmt, JobStatements
<1>3. ForAll(Staff, op, what) = [i \in 1..Len(Staff) |-> Stmt(op, Staff[i], what)]
  BY DEF ForAll
<1> QED BY <1>1, <1>2, <1>3

\* The statements of another job are none of a family's.
LEMMA RumorElse ==
  ASSUME RumorInv, UNCHANGED <<hurt, consumed>>,
         \A i \in DOMAIN stmts' : stmts'[i].op \notin {"consume", "hurt"}
  PROVE  RumorInv'
BY DEF RumorInv

\* A job that neither clears nor prices leaves the market's count.
LEMMA MarketElse ==
  ASSUME MarketInv, OfficeTypes, UNCHANGED <<shock, shocked>>, wished'["shock"] >= wished["shock"],
         wished'["shock"] \in Nat,
         \A i \in DOMAIN stmts' : stmts'[i].op \notin {"clear", "price"}
  PROVE  MarketInv'
<1>1. shocked' + shock' <= wished'["shock"]
  BY DEF MarketInv, OfficeTypes
<1> QED BY <1>1 DEF MarketInv

\* A job that strikes nobody leaves the evening's count.
LEMMA EveningElse ==
  ASSUME EveningInv, OfficeTypes, UNCHANGED <<extra, held>>, wished'["extra"] >= wished["extra"],
         wished'["extra"] \in Nat,
         \A i \in DOMAIN stmts' : stmts'[i].op \notin {"strike", "extra"}
  PROVE  EveningInv'
<1>1. \A d \in 1..Days : held'[d] + (IF d \in extra' THEN 1 ELSE 0) <= wished'["extra"]
  <2> TAKE d \in 1..Days
  <2>1. held[d] \in Nat /\ held[d] + Waiting(d) <= wished["extra"] /\ wished["extra"] \in Nat
    BY DEF EveningInv, OfficeTypes
  <2> QED BY <2>1 DEF Waiting
<1> QED BY <1>1 DEF EveningInv, Waiting

\* A wish is counted, the others stay.
LEMMA WishCounted ==
  ASSUME OfficeTypes, NEW k \in {"ill", "shock", "extra"}, Wish(k)
  PROVE  /\ wished' \in [{"ill", "shock", "extra"} -> Nat]
         /\ wished'[k] = wished[k] + 1
         /\ \A j \in {"ill", "shock", "extra"} : j # k => wished'[j] = wished[j]
BY DEF Wish, OfficeTypes

\* illness: at most one statement.
LEMMA DisturbKeeps ==
  ASSUME SettledInv, StartJob, JobAt(at') = "disturb"
  PROVE  SettledInv' /\ \A i \in DOMAIN stmts' : stmts'[i].op = "leave"
<1> USE DEF SettledInv
<1>1. PICK d \in 1..Days : d = DayOf(at')
  BY StartFrame
<1>2. Disturb(d)
  BY <1>1, StartFrame DEF StartJob
<1>3. /\ stmts' \in Seq(JobStatements) /\ StmtInv' /\ \A i \in DOMAIN stmts' : stmts'[i].op = "leave"
      /\ wished' \in [{"ill", "shock", "extra"} -> Nat]
      /\ wished'["shock"] = wished["shock"] /\ wished'["extra"] = wished["extra"]
  <2>1. CASE stmts' = <<>> /\ UNCHANGED wished
    BY <2>1 DEF OfficeTypes, StmtInv
  <2>2. CASE /\ Wish("ill")
             /\ \E a \in Names, until \in {d, d + 1} : stmts' = <<Stmt("leave", a, until)>>
    <3>1. PICK a \in Names, until \in {d, d + 1} : stmts' = <<Stmt("leave", a, until)>>
      BY <2>2
    <3>2. until \in 0..(Days + 1) /\ until \in Nat
      BY OfficeConstants
    <3>3. /\ Stmt("leave", a, until) \in JobStatements /\ Stmt("leave", a, until).op = "leave"
          /\ Stmt("leave", a, until).who = a /\ Stmt("leave", a, until).what = until
      <4>1. "leave" \in Operations /\ a \in Whom /\ until \in Contents
        BY <3>2 DEF Operations, Whom, Contents
      <4> QED BY <4>1, SMT DEF Stmt, JobStatements
    <3>4. Sound(Stmt("leave", a, until))
      BY <3>2, <3>3 DEF Sound
    <3>5. stmts' \in Seq(JobStatements) /\ DOMAIN stmts' = {1} /\ stmts'[1] = Stmt("leave", a, until)
      BY <3>1, <3>3
    <3> QED BY <2>2, <3>3, <3>4, <3>5, WishCounted DEF StmtInv
  <2> QED BY <1>2, <2>1, <2>2 DEF Disturb
<1>4. OfficeTypes'
  BY <1>3, StartTypes
<1>5. UNCHANGED <<hurt, consumed, shock, shocked, extra, held>>
  BY StartFrame
<1>6. wished["shock"] \in Nat /\ wished["extra"] \in Nat
  BY DEF OfficeTypes
<1>7. RumorInv' /\ MarketInv' /\ EveningInv'
  BY <1>3, <1>5, <1>6, RumorElse, MarketElse, EveningElse
<1> QED BY <1>3, <1>4, <1>7

\* A job of one's own statements that counts no wish.
LEMMA OtherJob ==
  ASSUME SettledInv, StartJob, JobAt(at') \notin {"disturb", "stock"}
  PROVE  /\ stmts' = StatementsOf(JobAt(at'), DayOf(at')) /\ wished' = wished
         /\ wished' \in [{"ill", "shock", "extra"} -> Nat]
         /\ wished'["shock"] \in Nat /\ wished'["extra"] \in Nat
<1>1. stmts' = StatementsOf(JobAt(at'), DayOf(at')) /\ wished' = wished
  BY StartFrame DEF StartJob, SettledInv
<1> QED BY <1>1 DEF SettledInv, OfficeTypes

\* The market's job.
LEMMA StockKeeps ==
  ASSUME SettledInv, StartJob, JobAt(at') = "stock"
  PROVE  SettledInv' /\ \A i \in DOMAIN stmts' : stmts'[i].op \in {"clear", "fall", "rise", "price"}
<1> USE DEF SettledInv
<1>1. PICK d \in 1..Days : d = DayOf(at')
  BY StartFrame
<1>2. PICK falls \in BOOLEAN : stmts' = Ticked(d, falls) /\ wished' = wished
  BY <1>1, StartFrame DEF StartJob
<1>3. PICK op \in {"fall", "rise"} : op = IF falls THEN "fall" ELSE "rise"
  OBVIOUS
<1> DEFINE c == Stmt("clear", "firm", d)
           f == Stmt(op, "firm", d)
           p == Stmt("price", "firm", shock)
<1>4. /\ c \in JobStatements /\ f \in JobStatements /\ p \in JobStatements
      /\ c.op = "clear" /\ f.op = op /\ p.op = "price" /\ c.what = d /\ f.what = d /\ p.what = shock
  <2>1. /\ "clear" \in Operations /\ op \in Operations /\ "price" \in Operations
        /\ "firm" \in Whom /\ d \in Contents /\ shock \in Contents
    BY OfficeConstants DEF Operations, OfficeTypes, Whom, Contents
  <2>2. c \in JobStatements /\ c.op = "clear" /\ c.what = d
    BY <2>1, SMT DEF Stmt, JobStatements
  <2>3. f \in JobStatements /\ f.op = op /\ f.what = d
    BY <2>1, SMT DEF Stmt, JobStatements
  <2>4. p \in JobStatements /\ p.op = "price" /\ p.what = shock
    BY <2>1, SMT DEF Stmt, JobStatements
  <2> HIDE DEF c, f, p
  <2> QED BY <2>2, <2>3, <2>4
<1>5. Sound(c) /\ Sound(f) /\ Sound(p)
  BY <1>4 DEF Sound, OfficeTypes
<1>6. UNCHANGED <<hurt, consumed, shock, shocked, extra, held>>
  BY StartFrame
<1>7. shock \in Nat /\ shocked \in Nat /\ wished["shock"] \in Nat /\ wished["extra"] \in Nat
      /\ shocked + shock <= wished["shock"] /\ wished \in [{"ill", "shock", "extra"} -> Nat]
  BY DEF OfficeTypes, MarketInv
<1> HIDE DEF c, f, p
<1>8. /\ stmts' \in Seq(JobStatements) /\ \A i \in DOMAIN stmts' : stmts'[i] \in {c, f, p}
      /\ MarketInv'
  <2>1. CASE shock > 0
    <3>1. stmts' = <<c, f, p>>
      <4>1. Ticked(d, falls) = <<c>> \o <<f, p>>
        BY <1>3, <2>1, Zenon DEF Ticked, c, f, p
      <4> QED BY <1>2, <4>1, Joined, Zenon
    <3>2. Len(stmts') = 3 /\ DOMAIN stmts' = {1, 2, 3}
      BY <3>1
    <3>3. MarketInv'
      BY <1>2, <1>4, <1>6, <1>7, <3>1, <3>2 DEF MarketInv
    <3> QED BY <1>4, <3>1, <3>2, <3>3
  <2>2. CASE shock = 0
    <3>1. stmts' = <<f, p>>
      <4>1. ~ (shock > 0)
        BY <2>2
      <4>2. Ticked(d, falls) = <<>> \o <<f, p>>
        BY <1>3, <4>1, Zenon DEF Ticked, f, p
      <4> QED BY <1>2, <4>2, Joined, Zenon
    <3>2. Len(stmts') = 2 /\ DOMAIN stmts' = {1, 2}
      BY <3>1
    <3>3. MarketInv'
      BY <1>2, <1>4, <1>6, <1>7, <2>2, <3>1, <3>2 DEF MarketInv
    <3> QED BY <1>4, <3>1, <3>2, <3>3
  <2> QED BY <1>7, <2>1, <2>2
<1>9. StmtInv' /\ \A i \in DOMAIN stmts' : stmts'[i].op \in {"clear", "fall", "rise", "price"}
  BY <1>4, <1>5, <1>8 DEF StmtInv
<1>10. OfficeTypes'
  BY <1>2, <1>7, <1>8, StartTypes
<1>11. RumorInv' /\ EveningInv'
  BY <1>2, <1>6, <1>7, <1>9, RumorElse, EveningElse
<1> QED BY <1>8, <1>9, <1>10, <1>11

\* the morning's attendance, the review and the team building: none of what a family
\* relates.
LEMMA PlainJobKeeps ==
  ASSUME SettledInv, StartJob, JobAt(at') \notin {"disturb", "stock"},
         stmts' \in Seq(JobStatements), StmtInv',
         \A i \in DOMAIN stmts' : stmts'[i].op \in {"mark", "charge", "raises", "streak", "pool"}
  PROVE  SettledInv'
<1> USE DEF SettledInv
<1>1. /\ wished' \in [{"ill", "shock", "extra"} -> Nat] /\ wished' = wished
      /\ wished'["shock"] \in Nat /\ wished'["extra"] \in Nat
  BY OtherJob
<1>2. UNCHANGED <<hurt, consumed, shock, shocked, extra, held>>
  BY StartFrame
<1>3. OfficeTypes'
  BY <1>1, StartTypes
<1>4. RumorInv'
  BY <1>2, RumorElse
<1>5. MarketInv'
  BY <1>1, <1>2, MarketElse
<1>6. EveningInv'
  BY <1>1, <1>2, EveningElse
<1> QED BY <1>3, <1>4, <1>5, <1>6

\* The morning's job.
LEMMA CheckinKeeps ==
  ASSUME SettledInv, StartJob, JobAt(at') = "checkin"
  PROVE  SettledInv' /\ \A i \in DOMAIN stmts' : stmts'[i].op = "mark"
<1>1. PICK d \in 1..Days : d = DayOf(at')
  BY StartFrame DEF SettledInv
<1>2. stmts' = <<Stmt("mark", "firm", d)>>
  BY <1>1, OtherJob DEF StatementsOf
<1>3. "mark" \in Operations /\ "firm" \in Whom /\ d \in Contents
  BY OfficeConstants DEF Operations, Whom, Contents
<1>4. /\ Stmt("mark", "firm", d) \in JobStatements /\ Stmt("mark", "firm", d).op = "mark"
      /\ Stmt("mark", "firm", d).what = d
  BY <1>3, SMT DEF Stmt, JobStatements
<1>5. Sound(Stmt("mark", "firm", d))
  BY <1>4 DEF Sound
<1>6. stmts' \in Seq(JobStatements) /\ DOMAIN stmts' = {1} /\ stmts'[1] = Stmt("mark", "firm", d)
  BY <1>2, <1>4
<1>7. StmtInv' /\ \A i \in DOMAIN stmts' : stmts'[i].op = "mark"
  BY <1>4, <1>5, <1>6 DEF StmtInv
<1> QED BY <1>6, <1>7, PlainJobKeeps

\* The team's dinner.
LEMMA TeamKeeps ==
  ASSUME SettledInv, StartJob, JobAt(at') = "team"
  PROVE  SettledInv' /\ \A i \in DOMAIN stmts' : stmts'[i].op = "charge"
<1>1. PICK d \in 1..Days : d = DayOf(at')
  BY StartFrame DEF SettledInv
<1>2. stmts' = ForAll(Staff, "charge", d)
  BY <1>1, OtherJob DEF StatementsOf
<1>3. "charge" \in Operations /\ d \in Nat /\ Len(Staff) \in Nat
  BY OfficeConstants DEF Operations
<1>4. /\ stmts' \in Seq(JobStatements) /\ Len(stmts') = Len(Staff)
      /\ \A i \in 1..Len(Staff) : stmts'[i].op = "charge" /\ stmts'[i].who = Staff[i]
  BY <1>2, <1>3, ForEverybody
<1>5. DOMAIN stmts' = 1..Len(Staff)
  BY <1>4
<1>6. StmtInv' /\ \A i \in DOMAIN stmts' : stmts'[i].op = "charge"
  BY <1>4, <1>5 DEF StmtInv, Sound
<1> QED BY <1>4, <1>6, PlainJobKeeps

\* The streaks after a review.
LEMMA StreakTypes ==
  ASSUME OfficeTypes, NEW d \in LastFriday
  PROVE  /\ StreakAfter(d) \in [Names -> Nat]
         /\ \A a \in Names : verdict[a, d] \in {"A", "C"}
         /\ \A a \in Names : StreakAfter(d)[a] = IF verdict[a, d] = "C" THEN streak[a] + 1 ELSE 0
<1>1. verdict \in [Names \X LastFriday -> {"A", "C"}] /\ streak \in [Names -> Nat]
  BY DEF OfficeTypes, Verdicts
<1>2. \A a \in Names : verdict[a, d] \in {"A", "C"} /\ streak[a] \in Nat
  BY <1>1
<1>3. \A a \in Names : (IF verdict[a, d] = "C" THEN streak[a] + 1 ELSE 0) \in Nat
  <2> TAKE a \in Names
  <2>1. PICK n \in Nat : streak[a] = n
    BY <1>1
  <2>2. n + 1 \in Nat /\ 0 \in Nat
    OBVIOUS
  <2> QED BY <2>1, <2>2, Zenon
<1> QED BY <1>2, <1>3, Zenon DEF StreakAfter

\* Who comes to the pool by the review of a day.
ToPool(d) == {a \in Names : verdict[a, d] = "C" /\ StreakAfter(d)[a] >= PoolAfter}

\* The review makes its three statements.
LEMMA ReviewKeeps ==
  ASSUME SettledInv, StartJob, JobAt(at') = "review", DayOf(at') \in LastFriday
  PROVE  /\ SettledInv' /\ Len(stmts') = 3
         /\ stmts'[1].op = "raises" /\ stmts'[2].op = "streak" /\ stmts'[3].op = "pool"
         /\ stmts'[2].what = StreakAfter(DayOf(at'))
         /\ stmts'[3].what = pool \union ToPool(DayOf(at'))
<1> USE DEF SettledInv
<1>1. PICK d \in LastFriday : d = DayOf(at')
  OBVIOUS
<1> DEFINE raised == [a \in Names |-> IF verdict[a, d] = "A" THEN raises[a] + 1 ELSE raises[a]]
           r == Stmt("raises", "firm", raised)
           s == Stmt("streak", "firm", StreakAfter(d))
           p == Stmt("pool", "firm", pool \union ToPool(d))
<1>2. stmts' = <<r, s, p>>
  BY <1>1, OtherJob, Zenon DEF StatementsOf, Reviewed, ToPool
<1>3. raised \in [Names -> Nat]
  <2>1. raises \in [Names -> Nat]
    BY DEF OfficeTypes
  <2>2. \A a \in Names : (IF verdict[a, d] = "A" THEN raises[a] + 1 ELSE raises[a]) \in Nat
    <3> TAKE a \in Names
    <3>1. raises[a] + 1 \in Nat /\ raises[a] \in Nat
      BY <2>1
    <3> QED BY <3>1, Zenon
  <2> QED BY <2>2, Zenon
<1>4. StreakAfter(d) \in [Names -> Nat] /\ pool \union ToPool(d) \subseteq Names
  BY StreakTypes DEF ToPool, OfficeTypes
<1> HIDE DEF raised
<1>5. /\ "raises" \in Operations /\ "streak" \in Operations /\ "pool" \in Operations
      /\ "firm" \in Whom /\ raised \in Contents /\ StreakAfter(d) \in Contents
      /\ pool \union ToPool(d) \in Contents
  BY <1>3, <1>4 DEF Operations, Whom, Contents
<1>6. r \in JobStatements /\ r.op = "raises" /\ r.what = raised
  BY <1>5, SMT DEF Stmt, JobStatements
<1>7. s \in JobStatements /\ s.op = "streak" /\ s.what = StreakAfter(d)
  BY <1>5, SMT DEF Stmt, JobStatements
<1>8. p \in JobStatements /\ p.op = "pool" /\ p.what = pool \union ToPool(d)
  BY <1>5, SMT DEF Stmt, JobStatements
<1> HIDE DEF r, s, p
<1>9. Sound(r) /\ Sound(s) /\ Sound(p)
  BY <1>3, <1>4, <1>6, <1>7, <1>8 DEF Sound
<1>10. /\ stmts' \in Seq(JobStatements) /\ DOMAIN stmts' = {1, 2, 3} /\ Len(stmts') = 3
       /\ stmts'[1] = r /\ stmts'[2] = s /\ stmts'[3] = p
  BY <1>2, <1>6, <1>7, <1>8
<1>11. StmtInv' /\ \A i \in DOMAIN stmts' : stmts'[i].op \in {"raises", "streak", "pool"}
  BY <1>6, <1>7, <1>8, <1>9, <1>10 DEF StmtInv
<1>12. SettledInv'
  BY <1>10, <1>11, PlainJobKeeps
<1> QED BY <1>1, <1>6, <1>7, <1>8, <1>10, <1>12

\* A statement of the firm.
LEMMA Kind ==
  ASSUME NEW o \in Operations, NEW x \in Contents
  PROVE  /\ Stmt(o, "firm", x) \in JobStatements /\ Stmt(o, "firm", x).op = o
         /\ Stmt(o, "firm", x).what = x
BY DEF Stmt, JobStatements, Whom

\* The evening's job.
LEMMA OvertimeKeeps ==
  ASSUME SettledInv, StartJob, JobAt(at') = "overtime"
  PROVE  SettledInv' /\ \A i \in DOMAIN stmts' : stmts'[i].op \in {"strike", "extra", "rule"}
<1> USE DEF SettledInv
<1>1. PICK d \in 1..Days : d = DayOf(at')
  BY StartFrame
<1>2. stmts' = Overtime(d)
  BY <1>1, OtherJob DEF StatementsOf
<1>3. PICK op \in {"extra", "rule"} : op = IF d \in extra THEN "extra" ELSE "rule"
  OBVIOUS
<1> DEFINE s == Stmt("strike", "firm", d)
           h == Stmt(op, "firm", d)
<1>4. /\ s \in JobStatements /\ s.op = "strike" /\ s.what = d
      /\ h \in JobStatements /\ h.op = op /\ h.what = d
  <2>1. "strike" \in Operations /\ op \in Operations /\ d \in Contents
    BY OfficeConstants DEF Operations, Contents
  <2> QED BY <2>1, Kind
<1> HIDE DEF s, h
<1>5. Sound(s) /\ Sound(h)
  BY <1>4 DEF Sound
<1>6. /\ wished' \in [{"ill", "shock", "extra"} -> Nat] /\ wished' = wished
      /\ wished'["shock"] \in Nat /\ wished'["extra"] \in Nat
  BY OtherJob
<1>7. UNCHANGED <<hurt, consumed, shock, shocked, extra, held>>
  BY StartFrame
<1>8. \A e \in 1..Days : held'[e] + (IF e \in extra' THEN 1 ELSE 0) <= wished'["extra"]
  BY <1>6, <1>7 DEF EveningInv, Waiting
<1> DEFINE holds == (d \in extra \/ ByRule(d)) /\ AtWork(d) # {}
<1>9. stmts' = (IF d \in extra THEN <<s>> ELSE <<>>) \o (IF holds THEN <<h>> ELSE <<>>)
  BY <1>2, <1>3, Zenon DEF Overtime, s, h
<1>10. /\ stmts' \in Seq(JobStatements) /\ \A i \in DOMAIN stmts' : stmts'[i] \in {s, h}
       /\ EveningInv'
  <2> HIDE DEF holds
  <2>1. CASE d \in extra /\ holds
    <3>1. stmts' = <<s, h>>
      <4>1. stmts' = <<s>> \o <<h>>
        BY <1>9, <2>1
      <4>2. <<s>> \in Seq(JobStatements) /\ <<h>> \in Seq(JobStatements)
        BY <1>4
      <4>3. stmts' \in Seq(JobStatements) /\ Len(stmts') = 2 /\ stmts'[1] = s /\ stmts'[2] = h
        BY <4>1, <4>2
      <4> QED BY <4>3
    <3>2. Len(stmts') = 2 /\ DOMAIN stmts' = {1, 2} /\ stmts'[1] = s /\ stmts'[2] = h
      BY <3>1
    <3>3. op = "extra"
      BY <1>3, <2>1
    <3>4. EveningInv'
      BY <1>4, <1>7, <1>8, <2>1, <3>2, <3>3 DEF EveningInv, Waiting
    <3> QED BY <1>4, <3>1, <3>2, <3>4
  <2>2. CASE d \in extra /\ ~holds
    <3>1. stmts' = <<s>>
      BY <1>9, <2>2, <1>4
    <3>2. Len(stmts') = 1 /\ DOMAIN stmts' = {1} /\ stmts'[1] = s
      BY <3>1
    <3>3. EveningInv'
      BY <1>4, <1>7, <1>8, <2>2, <3>2 DEF EveningInv, Waiting
    <3> QED BY <1>4, <3>1, <3>2, <3>3
  <2>3. CASE d \notin extra /\ holds
    <3>1. stmts' = <<h>>
      BY <1>9, <2>3, <1>4
    <3>2. Len(stmts') = 1 /\ DOMAIN stmts' = {1} /\ stmts'[1] = h
      BY <3>1
    <3>3. op = "rule"
      BY <1>3, <2>3
    <3>4. EveningInv'
      BY <1>4, <1>7, <1>8, <3>2, <3>3 DEF EveningInv, Waiting
    <3> QED BY <1>4, <3>1, <3>2, <3>4
  <2>4. CASE d \notin extra /\ ~holds
    <3>1. stmts' = <<>>
      BY <1>9, <2>4
    <3>2. DOMAIN stmts' = {}
      BY <3>1
    <3>3. EveningInv'
      BY <1>8, <3>2 DEF EveningInv, Waiting
    <3> QED BY <3>1, <3>2, <3>3
  <2> QED BY <2>1, <2>2, <2>3, <2>4
<1>11. StmtInv' /\ \A i \in DOMAIN stmts' : stmts'[i].op \in {"strike", "extra", "rule"}
  BY <1>3, <1>4, <1>5, <1>10 DEF StmtInv
<1>12. OfficeTypes'
  BY <1>6, <1>10, StartTypes
<1>13. RumorInv' /\ MarketInv'
  BY <1>6, <1>7, <1>11, RumorElse, MarketElse
<1> QED BY <1>10, <1>11, <1>12, <1>13

\* The rumour's job.
LEMMA RumorJobKeeps ==
  ASSUME SettledInv, StartJob, JobAt(at') = "rumor"
  PROVE  SettledInv' /\ \A i \in DOMAIN stmts' : stmts'[i].op \in {"consume", "hurt"}
<1> USE DEF SettledInv
<1>1. PICK d \in 1..Days : d = DayOf(at')
  BY StartFrame
<1>2. stmts' = Rumored(d)
  BY <1>1, OtherJob DEF StatementsOf
<1>3. /\ wished' \in [{"ill", "shock", "extra"} -> Nat] /\ wished' = wished
      /\ wished'["shock"] \in Nat /\ wished'["extra"] \in Nat
  BY OtherJob
<1>4. UNCHANGED <<hurt, consumed, shock, shocked, extra, held>>
  BY StartFrame
<1>5. \A a \in Names, x \in 1..Days : hurt'[a][x] = 0 \/ (hurt'[a][x] = 1 /\ x <= consumed')
  BY <1>4 DEF RumorInv
<1> DEFINE before == {x \in 1..(d - 1) : MarketOpen(x)}
<1>6. PICK e : e = IF before = {} THEN 0 ELSE Max(before)
  OBVIOUS
<1>7. stmts' = IF e = 0 \/ consumed >= e \/ e \notin fell THEN <<>>
               ELSE <<Stmt("consume", "firm", e)>> \o ForAll(Staff, "hurt", e)
  BY <1>2, <1>6, Zenon DEF Rumored
<1>8. e = 0 \/ e \in 1..Days
  <2>1. CASE before = {}
    BY <1>6, <2>1
  <2>2. CASE before # {}
    <3>1. d - 1 \in Nat /\ before \in SUBSET (1..(d - 1))
      BY OfficeConstants
    <3>2. Max(before) \in before
      <4> HIDE DEF before
      <4> QED BY <2>2, <3>1, HasGreatest
    <3> QED BY <1>6, <2>2, <3>1, <3>2, OfficeConstants
  <2> QED BY <2>1, <2>2
<1>9. CASE e = 0 \/ consumed >= e \/ e \notin fell
  <2>1. stmts' = <<>> /\ DOMAIN stmts' = {} /\ stmts' \in Seq(JobStatements)
    BY <1>7, <1>9
  <2>2. OfficeTypes'
    BY <1>3, <2>1, StartTypes
  <2>3. StmtInv'
    BY <2>1 DEF StmtInv
  <2>4. RumorInv' /\ MarketInv' /\ EveningInv'
    BY <1>3, <1>4, <2>1, RumorElse, MarketElse, EveningElse
  <2> QED BY <2>1, <2>2, <2>3, <2>4
<1>10. CASE ~(e = 0 \/ consumed >= e \/ e \notin fell)
  <2> DEFINE c == Stmt("consume", "firm", e)
             f == ForAll(Staff, "hurt", e)
  <2>1. e \in 1..Days /\ e \in Nat /\ e \in Contents /\ consumed \in Nat /\ consumed < e
    BY <1>8, <1>10, OfficeConstants DEF OfficeTypes, Contents
  <2>2. c \in JobStatements /\ c.op = "consume" /\ c.what = e
    BY <2>1, Kind DEF Operations
  <2>3. /\ f \in Seq(JobStatements) /\ Len(f) = Len(Staff) /\ Len(Staff) \in Nat
        /\ \A i \in 1..Len(Staff) :
             f[i].op = "hurt" /\ f[i].what = e /\ f[i].who = Staff[i] /\ Staff[i] \in Names
    <3>1. "hurt" \in Operations
      BY DEF Operations
    <3>2. Len(Staff) \in Nat /\ \A i \in 1..Len(Staff) : Staff[i] \in Names
      BY OfficeConstants
    <3>3. /\ f \in Seq(JobStatements) /\ Len(f) = Len(Staff)
          /\ \A i \in 1..Len(Staff) : f[i].op = "hurt" /\ f[i].what = e /\ f[i].who = Staff[i]
      BY <2>1, <3>1, ForEverybody
    <3> QED BY <3>2, <3>3, Zenon
  <2>4. \A i, j \in 1..Len(Staff) : Staff[i] = Staff[j] => i = j
    BY OfficeConstants
  <2>5. stmts' = <<c>> \o f
    BY <1>7, <1>10
  <2> HIDE DEF c, f
  <2>6. /\ stmts' \in Seq(JobStatements) /\ Len(stmts') = Len(Staff) + 1
        /\ DOMAIN stmts' = 1..(Len(Staff) + 1) /\ stmts'[1] = c
        /\ \A i \in 2..(Len(Staff) + 1) : stmts'[i] = f[i - 1]
    BY <2>2, <2>3, <2>5
  <2>7. /\ stmts'[1].op = "consume" /\ stmts'[1].what = e
        /\ \A i \in DOMAIN stmts' : i = 1 \/ (i - 1 \in 1..Len(Staff) /\ stmts'[i] = f[i - 1])
    BY <2>2, <2>3, <2>6
  <2>8. \A i \in DOMAIN stmts' : i # 1 =>
          /\ i - 1 \in 1..Len(Staff) /\ stmts'[i].op = "hurt" /\ stmts'[i].what = e
          /\ stmts'[i].who = Staff[i - 1] /\ stmts'[i].who \in Names
    BY <2>3, <2>7
  <2>9. StmtInv' /\ \A i \in DOMAIN stmts' : stmts'[i].op \in {"consume", "hurt"}
    BY <2>1, <2>7, <2>8 DEF StmtInv, Sound
  <2>10. \A a \in Names : hurt'[a][e] = 0
    BY <1>4, <1>5, <2>1
  <2>11. RumorInv'
    <3>1. \A i \in DOMAIN stmts' :
            stmts'[i].op = "consume" => i = 1 /\ consumed' < stmts'[i].what
      BY <1>4, <2>1, <2>7, <2>8
    <3>2. \A i \in DOMAIN stmts' : stmts'[i].op = "hurt" =>
            /\ hurt'[stmts'[i].who][stmts'[i].what] = 0
            /\ stmts'[1].op = "consume" /\ stmts'[1].what = stmts'[i].what
      BY <2>7, <2>8, <2>10
    <3>3. \A i, j \in DOMAIN stmts' :
            stmts'[i].op = "hurt" /\ stmts'[j].op = "hurt" /\ stmts'[i].who = stmts'[j].who => i = j
      <4> TAKE i, j \in DOMAIN stmts'
      <4> HAVE stmts'[i].op = "hurt" /\ stmts'[j].op = "hurt" /\ stmts'[i].who = stmts'[j].who
      <4>1. i # 1 /\ j # 1 /\ i \in Nat /\ j \in Nat
        BY <2>6, <2>7
      <4>2. i - 1 \in 1..Len(Staff) /\ j - 1 \in 1..Len(Staff) /\ Staff[i - 1] = Staff[j - 1]
        BY <2>8, <4>1
      <4>3. i - 1 = j - 1
        BY <2>4, <4>2
      <4> QED BY <4>1, <4>3
    <3> QED BY <1>5, <3>1, <3>2, <3>3 DEF RumorInv
  <2>12. OfficeTypes'
    BY <1>3, <2>6, StartTypes
  <2>13. MarketInv' /\ EveningInv'
    BY <1>3, <1>4, <2>9, MarketElse, EveningElse
  <2> QED BY <2>9, <2>11, <2>12, <2>13
<1> QED BY <1>9, <1>10

\* Any job that starts.
LEMMA StartKeepsSettled == ASSUME SettledInv, StartJob PROVE SettledInv'
<1>1. /\ JobAt(at') \in {"disturb", "checkin", "stock", "rumor", "review", "overtime", "team"}
      /\ On(at')
  BY StartFrame, Jobs DEF SettledInv
<1>2. JobAt(at') = "review" => DayOf(at') \in LastFriday
  BY <1>1 DEF On, ReviewDay
<1> QED BY <1>1, <1>2, DisturbKeeps, CheckinKeeps, StockKeeps, RumorJobKeeps, ReviewKeeps,
           OvertimeKeeps, TeamKeeps

\* Nothing is settled at the beginning.
LEMMA SettledInvInit == OffInit => SettledInv
<1> SUFFICES ASSUME OffInit PROVE SettledInv
  OBVIOUS
<1> USE DEF OffInit
<1>1. \A S : <<>> \in Seq(S)
  OBVIOUS
<1>2. OfficeTypes
  <2>1. /\ clock = 0 /\ settledTo = 0 /\ to = 0 /\ at = 0 /\ stmts = <<>> /\ DOMAIN marks = {}
        /\ clock <= Days * PerDay
    BY OfficeConstants
  <2>2. 0 \in 0..(Days + 1)
    BY OfficeConstants
  <2>3. off \in [Names -> 0..(Days + 1)]
    BY <2>2
  <2> QED BY <1>1, <2>1, <2>3 DEF OfficeTypes
<1>3. StmtInv /\ RumorInv
  BY DEF StmtInv, RumorInv
<1>4. MarketInv /\ EveningInv
  BY DEF MarketInv, EveningInv, Waiting
<1> QED BY <1>2, <1>3, <1>4 DEF SettledInv

\* A span begins, ends or is broken off, or a wish is made: there are no statements then.
LEMMA SpansKeepSettled ==
  ASSUME SettledInv, BeginSpan \/ EndSpan \/ BreakOff
  PROVE  SettledInv'
<1> USE DEF SettledInv
<1>1. /\ UNCHANGED <<health, market, career, evening, verdict, wished>> /\ stmts' = <<>>
  BY DEF BeginSpan, EndSpan, BreakOff, OfficeTypes
<1>2. UNCHANGED <<off, marks, shock, shocked, fell, consumed, hurt, raises, streak, pool, extra, held>>
  BY <1>1 DEF health, market, career, evening
<1>3. /\ clock' \in Nat /\ clock' <= Days * PerDay /\ settledTo' \in Nat /\ settledTo' <= clock'
      /\ to' \in {0, clock'} /\ at' \in Nat /\ at' <= to' /\ (to' > 0 => settledTo' <= at')
      /\ torn' \in {"no", "saving", "torn"}
  <2>1. CASE BeginSpan
    <3>1. PICK j \in Steps : clock + j <= Days * PerDay /\ clock' = clock + j
      BY <2>1 DEF BeginSpan
    <3>2. j \in Nat \ {0}
      BY OfficeConstants
    <3> QED BY <2>1, <3>1, <3>2 DEF BeginSpan, OfficeTypes
  <2>2. CASE EndSpan
    BY <2>2 DEF EndSpan, OfficeTypes
  <2>3. CASE BreakOff
    BY <2>3 DEF BreakOff, OfficeTypes
  <2> QED BY <2>1, <2>2, <2>3
<1>4. stmts' \in Seq(JobStatements) /\ DOMAIN stmts' = {}
  BY <1>1
<1>5. OfficeTypes'
  BY <1>1, <1>2, <1>3, <1>4 DEF OfficeTypes
<1>6. StmtInv' /\ RumorInv'
  BY <1>2, <1>4 DEF StmtInv, RumorInv
<1>7. MarketInv' /\ EveningInv'
  BY <1>1, <1>2, <1>4 DEF MarketInv, EveningInv, Waiting
<1> QED BY <1>5, <1>6, <1>7

\* What is queued by hand is counted.
LEMMA WishesKeepSettled ==
  ASSUME SettledInv, QueueShock \/ QueueExtra
  PROVE  SettledInv'
<1> USE DEF SettledInv
<1>1. /\ to = 0 /\ UNCHANGED <<position, stmts, health, fell, consumed, hurt, verdict, career, torn,
                               shocked, held>>
  <2>1. CASE QueueShock
    BY <2>1 DEF QueueShock, evening
  <2>2. CASE QueueExtra
    BY <2>2 DEF QueueExtra, market
  <2> QED BY <2>1, <2>2
<1>2. /\ UNCHANGED <<clock, settledTo, to, at, off, marks, fell, consumed, hurt, raises, streak, pool>>
      /\ UNCHANGED <<stmts, verdict, torn, shocked, held>>
  BY <1>1 DEF position, health, career
<1>3. stmts = <<>> /\ DOMAIN stmts' = {}
  BY <1>1, <1>2 DEF OfficeTypes
<1>4. /\ shocked \in Nat /\ shock \in Nat /\ wished["shock"] \in Nat /\ wished["extra"] \in Nat
      /\ shocked + shock <= wished["shock"]
      /\ \A d \in 1..Days : held[d] \in Nat /\ held[d] + (IF d \in extra THEN 1 ELSE 0) <= wished["extra"]
  BY DEF OfficeTypes, MarketInv, EveningInv, Waiting
<1>5. CASE QueueShock
  <2>1. Wish("shock") /\ shock' = shock + 1 /\ extra' = extra
    BY <1>5 DEF QueueShock, evening
  <2>2. /\ wished' \in [{"ill", "shock", "extra"} -> Nat] /\ wished'["shock"] = wished["shock"] + 1
        /\ wished'["extra"] = wished["extra"]
    BY <2>1, WishCounted
  <2>3. OfficeTypes'
    BY <1>2, <2>1, <2>2 DEF OfficeTypes
  <2>4. MarketInv'
    BY <1>2, <1>3, <1>4, <2>1, <2>2 DEF MarketInv
  <2>5. EveningInv' /\ RumorInv' /\ StmtInv'
    BY <1>2, <1>3, <2>1, <2>2 DEF EveningInv, RumorInv, StmtInv, Waiting
  <2> QED BY <2>3, <2>4, <2>5
<1>6. CASE QueueExtra
  <2>1. PICK d \in 1..Days : extra' = extra \union {d}
    BY <1>6 DEF QueueExtra
  <2>2. Wish("extra") /\ shock' = shock
    BY <1>6 DEF QueueExtra, market
  <2>3. /\ wished' \in [{"ill", "shock", "extra"} -> Nat] /\ wished'["extra"] = wished["extra"] + 1
        /\ wished'["shock"] = wished["shock"]
    BY <2>2, WishCounted
  <2>4. OfficeTypes'
    BY <1>2, <2>1, <2>2, <2>3 DEF OfficeTypes
  <2>5. EveningInv'
    <3>1. \A x \in 1..Days : held'[x] + (IF x \in extra' THEN 1 ELSE 0) <= wished'["extra"]
      BY <1>2, <1>4, <2>1, <2>3
    <3> QED BY <1>3, <3>1 DEF EveningInv, Waiting
  <2>6. MarketInv' /\ RumorInv' /\ StmtInv'
    BY <1>2, <1>3, <2>2, <2>3 DEF MarketInv, RumorInv, StmtInv
  <2> QED BY <2>4, <2>5, <2>6
<1> QED BY <1>5, <1>6

\* What a place of the calendar queued is settled once, however often its span is
\* repeated (calendar.py, economy.py).
THEOREM OfficeIsSettled == OffSpec => []SettledInv
<1>1. SettledInv /\ [OffNext]_offVars => SettledInv'
  <2> SUFFICES ASSUME SettledInv, [OffNext]_offVars PROVE SettledInv'
    OBVIOUS
  <2>1. CASE OffNext
    BY <2>1, SpansKeepSettled, StartKeepsSettled, ExecuteKeepsSettled, WishesKeepSettled DEF OffNext
  <2>2. CASE UNCHANGED offVars
    <3>1. UNCHANGED <<clock, settledTo, to, at, stmts, off, marks, shock, shocked, fell, consumed, hurt,
             verdict, raises, streak, pool, torn, extra, held, wished>>
      BY <2>2 DEF offVars
    <3>2. OfficeTypes'
      BY <3>1 DEF SettledInv, OfficeTypes
    <3>3. StmtInv' /\ RumorInv'
      BY <3>1 DEF SettledInv, StmtInv, RumorInv
    <3>4. MarketInv' /\ EveningInv'
      BY <3>1 DEF SettledInv, MarketInv, EveningInv, Waiting
    <3> QED BY <3>2, <3>3, <3>4 DEF SettledInv
  <2> QED BY <2>1, <2>2
<1> QED BY SettledInvInit, <1>1, PTL DEF OffSpec

\* However often a span is repeated: a rumour hurts nobody twice, a shock moves the
\* price once, and a wished overtime is held once (calendar.py:415, economy.py:460).
THEOREM NothingSettledTwice == OffSpec => []NothingTwice
<1>1. SettledInv => NothingTwice
  <2> SUFFICES ASSUME SettledInv PROVE NothingTwice
    OBVIOUS
  <2> USE DEF SettledInv
  <2>1. \A a \in Names, d \in 1..Days : hurt[a][d] <= 1
    BY DEF RumorInv
  <2>2. shocked <= wished["shock"]
    BY DEF MarketInv, OfficeTypes
  <2>3. \A d \in 1..Days : held[d] <= wished["extra"]
    <3> TAKE d \in 1..Days
    <3>1. held[d] \in Nat /\ wished["extra"] \in Nat /\ held[d] + Waiting(d) <= wished["extra"]
      BY DEF EveningInv, OfficeTypes
    <3> QED BY <3>1 DEF Waiting
  <2> QED BY <2>1, <2>2, <2>3 DEF NothingTwice
<1> QED BY OfficeIsSettled, <1>1, PTL

\* Every variable of the office keeps its type.
THEOREM OfficeTypeCorrect == OffSpec => []OffTypeOK
<1>1. SettledInv => OffTypeOK
  <2> SUFFICES ASSUME SettledInv PROVE OffTypeOK
    OBVIOUS
  <2>1. /\ clock \in 0..(Days * PerDay) /\ settledTo \in 0..clock /\ at <= to /\ to \in 0..clock
    BY OfficeConstants DEF SettledInv, OfficeTypes
  <2>2. \A a \in Names : off[a] \in 0..(Days + 1) /\ streak[a] \in Nat /\ raises[a] \in Nat
    BY DEF SettledInv, OfficeTypes
  <2> QED BY <2>1, <2>2 DEF OffTypeOK, SettledInv, OfficeTypes
<1> QED BY OfficeIsSettled, <1>1, PTL

(* The pool of those to be laid off.                                         *)

DaysOfReview == LastFriday \ Holiday

\* The place of a review in the calendar.
Place(d) == (d - 1) * 7 + 5

\* The place the calendar has come to.
Reached == IF to > 0 THEN at ELSE settledTo

\* The reviews held, and those before the last place.
Done == {d \in DaysOfReview : Place(d) <= Reached}

Earlier == {d \in Done : Place(d) < Reached}

\* A streak is no longer than the reviews, and the last of them were Cs.
Streaked(D, f) ==
  \A a \in Names :
    /\ f[a] <= Cardinality(D)
    /\ \A e \in D : Cardinality({x \in D : x > e}) < f[a] => verdict[a, e] = "C"

\* The latest reviews up to a day, as many as the pool asks for, were all bad.
EarnedUpTo(D, a, d) ==
  LET run == {e \in D : e <= d}
  IN /\ Cardinality(run) >= PoolAfter
     /\ \A e \in run : Cardinality({f \in run : f > e}) < PoolAfter => verdict[a, e] = "C"

\* Everybody in the pool has come there by such reviews.
EarnedBy(D, p) == \A a \in p : \E d \in D : EarnedUpTo(D, a, d)

\* How far a review has saved, if one is under way.
NoReview ==
  /\ \A i \in DOMAIN stmts : stmts[i].op \notin {"raises", "streak", "pool"}
  /\ Streaked(Done, streak) /\ EarnedBy(Done, pool)

\* The review has made its three statements.
BeforeRaises ==
  /\ Len(stmts) = 3 /\ stmts[1].op = "raises" /\ stmts[2].op = "streak" /\ stmts[3].op = "pool"
  /\ Streaked(Earlier, streak) /\ Streaked(Done, stmts[2].what)
  /\ EarnedBy(Earlier, pool) /\ EarnedBy(Done, stmts[3].what)

\* The raises are written, the streaks are not.
BeforeStreak ==
  /\ Len(stmts) = 2 /\ stmts[1].op = "streak" /\ stmts[2].op = "pool"
  /\ Streaked(Earlier, streak) /\ Streaked(Done, stmts[1].what)
  /\ EarnedBy(Earlier, pool) /\ EarnedBy(Done, stmts[2].what)

\* The streaks are written, the pool is not.
BeforePool ==
  /\ Len(stmts) = 1 /\ stmts[1].op = "pool"
  /\ Streaked(Done, streak) /\ EarnedBy(Earlier, pool) /\ EarnedBy(Done, stmts[1].what)

\* What a review has saved it saves again only from the reviews before it, unless it was
\* broken off while saving.
NothingSaved ==
  torn = "no" =>
    \A d \in Done :
      \/ Place(d) <= settledTo
      \/ Place(d) = at /\ stmts # <<>> /\ stmts[1].op = "raises"

\* The streaks and the pool are those of the reviews done, unless a review was cut
\* between its statements.
CareerInv ==
  torn # "torn" =>
    /\ torn = "saving" => to > 0
    /\ NothingSaved
    /\ NoReview \/ BeforeRaises \/ BeforeStreak \/ BeforePool

\* Sets of days are finite.
LEMMA DaysAreFinite ==
  ASSUME NEW D \in SUBSET DaysOfReview
  PROVE  /\ IsFiniteSet(D) /\ D \subseteq Nat /\ D \subseteq LastFriday
         /\ \A P \in SUBSET D : IsFiniteSet(P) /\ Cardinality(P) \in Nat
<1>1. D \subseteq 1..Days /\ D \subseteq LastFriday /\ Days \in Nat
  BY OfficeConstants DEF DaysOfReview
<1>2. IsFiniteSet(1..Days)
  BY <1>1, FS_Interval
<1>3. \A P \in SUBSET D : IsFiniteSet(P)
  BY <1>1, <1>2, FS_Subset
<1>4. \A P \in SUBSET D : Cardinality(P) \in Nat
  BY <1>3, FS_CardinalityType
<1> QED BY <1>1, <1>3, <1>4

\* What reviews have earned, no later review takes away.
LEMMA EarnedGrows ==
  ASSUME NEW D \in SUBSET DaysOfReview, NEW R \in SUBSET DaysOfReview, D \subseteq R,
         \A d \in D, e \in R \ D : d < e, NEW p, EarnedBy(D, p)
  PROVE  EarnedBy(R, p)
<1> SUFFICES ASSUME NEW a \in p PROVE \E d \in R : EarnedUpTo(R, a, d)
  BY DEF EarnedBy
<1>1. PICK d \in D : EarnedUpTo(D, a, d)
  BY DEF EarnedBy
<1>2. {e \in R : e <= d} = {e \in D : e <= d}
  BY DaysAreFinite
<1>3. EarnedUpTo(R, a, d)
  BY <1>1, <1>2, Zenon DEF EarnedUpTo
<1> QED BY <1>3

\* A review more makes the streak of the reviews so far.
LEMMA StreakGrows ==
  ASSUME OfficeTypes, NEW D \in SUBSET DaysOfReview, NEW d \in DaysOfReview,
         \A e \in D : e < d, Streaked(D, streak)
  PROVE  Streaked(D \union {d}, StreakAfter(d))
<1> DEFINE R == D \union {d}
<1>1. R \in SUBSET DaysOfReview /\ d \notin D /\ d \in LastFriday /\ d \in Nat
  BY DaysAreFinite, OfficeConstants DEF DaysOfReview
<1>2. IsFiniteSet(D) /\ Cardinality(D) \in Nat /\ Cardinality(R) = Cardinality(D) + 1
  <2>1. IsFiniteSet(D) /\ Cardinality(D) \in Nat
    BY DaysAreFinite
  <2> QED BY <1>1, <2>1, FS_AddElement
<1> SUFFICES ASSUME NEW a \in Names
             PROVE  /\ StreakAfter(d)[a] <= Cardinality(R)
                    /\ \A e \in R : Cardinality({x \in R : x > e}) < StreakAfter(d)[a]
                                      => verdict[a, e] = "C"
  BY DEF Streaked
<1>3. PICK n \in Nat : streak[a] = n
  BY DEF OfficeTypes
<1>4. /\ n <= Cardinality(D)
      /\ \A e \in D : Cardinality({x \in D : x > e}) < n => verdict[a, e] = "C"
  BY <1>3 DEF Streaked
<1>5. StreakAfter(d)[a] = IF verdict[a, d] = "C" THEN n + 1 ELSE 0
  BY <1>1, <1>3, StreakTypes
<1>6. CASE verdict[a, d] # "C"
  <2>1. StreakAfter(d)[a] = 0
    BY <1>5, <1>6
  <2>2. \A e \in R : Cardinality({x \in R : x > e}) \in Nat
    BY <1>1, DaysAreFinite
  <2>3. \A e \in R : ~ (Cardinality({x \in R : x > e}) < 0)
    <3> TAKE e \in R
    <3>1. PICK k \in Nat : Cardinality({x \in R : x > e}) = k
      BY <2>2
    <3> QED BY <3>1
  <2>4. 0 <= Cardinality(R)
    BY <1>2
  <2> HIDE DEF R
  <2> QED BY <2>1, <2>3, <2>4
<1>7. CASE verdict[a, d] = "C"
  <2>1. StreakAfter(d)[a] = n + 1
    BY <1>5, <1>7
  <2>2. ASSUME NEW e \in D PROVE Cardinality({x \in R : x > e}) = Cardinality({x \in D : x > e}) + 1
    <3>1. {x \in R : x > e} = {x \in D : x > e} \union {d} /\ d \notin {x \in D : x > e}
      BY <1>1, DaysAreFinite
    <3>2. IsFiniteSet({x \in D : x > e})
      BY DaysAreFinite
    <3> QED BY <3>1, <3>2, FS_AddElement
  <2>3. ASSUME NEW e \in D, Cardinality({x \in R : x > e}) < n + 1 PROVE verdict[a, e] = "C"
    <3>1. Cardinality({x \in D : x > e}) \in Nat
      BY DaysAreFinite
    <3>2. Cardinality({x \in D : x > e}) < n
      BY <2>2, <2>3, <3>1
    <3> QED BY <1>4, <3>2
  <2>4. \A e \in R : Cardinality({x \in R : x > e}) < n + 1 => verdict[a, e] = "C"
    BY <1>7, <2>3
  <2>5. n + 1 <= Cardinality(R)
    <3>1. PICK k \in Nat : Cardinality(D) = k
      BY <1>2
    <3>2. n <= k /\ Cardinality(R) = k + 1
      BY <1>2, <1>4, <3>1
    <3> HIDE DEF R
    <3> QED BY <3>1, <3>2
  <2> HIDE DEF R
  <2> QED BY <2>1, <2>4, <2>5
<1> QED BY <1>6, <1>7

\* Who a review brings to the pool has earned it.
LEMMA PoolGrows ==
  ASSUME OfficeTypes, NEW D \in SUBSET DaysOfReview, NEW d \in DaysOfReview,
         \A e \in D : e < d, Streaked(D, streak), EarnedBy(D, pool)
  PROVE  EarnedBy(D \union {d}, pool \union ToPool(d))
<1> DEFINE R == D \union {d}
<1>1. R \in SUBSET DaysOfReview /\ D \subseteq R /\ \A x \in D, e \in R \ D : x < e
  OBVIOUS
<1>2. EarnedBy(R, pool)
  BY <1>1, EarnedGrows
<1>3. ASSUME NEW a \in ToPool(d) PROVE EarnedUpTo(R, a, d)
  <2>1. a \in Names /\ StreakAfter(d)[a] >= PoolAfter
    BY DEF ToPool
  <2>2. Streaked(R, StreakAfter(d))
    BY StreakGrows
  <2>3. {e \in R : e <= d} = R
    BY <1>1, DaysAreFinite
  <2>4. PICK n \in Nat : StreakAfter(d)[a] = n
    BY <2>1, StreakTypes DEF DaysOfReview
  <2>5. /\ n <= Cardinality(R) /\ n >= PoolAfter
        /\ \A e \in R : Cardinality({x \in R : x > e}) < n => verdict[a, e] = "C"
    BY <2>1, <2>2, <2>4 DEF Streaked
  <2>6. /\ Cardinality(R) \in Nat /\ PoolAfter \in Nat
        /\ \A e \in R : Cardinality({x \in R : x > e}) \in Nat
    BY <1>1, DaysAreFinite, OfficeConstants
  <2>7. Cardinality(R) >= PoolAfter
    <3> HIDE DEF R
    <3>1. PICK k \in Nat : Cardinality(R) = k
      BY <2>6
    <3>2. n <= k /\ n >= PoolAfter /\ PoolAfter \in Nat
      BY <2>5, <2>6, <3>1
    <3>3. k >= PoolAfter
      BY <3>2
    <3> QED BY <3>1, <3>3
  <2>8. \A e \in R : Cardinality({x \in R : x > e}) < PoolAfter => verdict[a, e] = "C"
    <3> TAKE e \in R
    <3>1. PICK k \in Nat : Cardinality({x \in R : x > e}) = k
      BY <2>6
    <3>2. k < n => verdict[a, e] = "C"
      BY <2>5, <3>1
    <3>3. n >= PoolAfter /\ PoolAfter \in Nat
      BY <2>5, <2>6
    <3>4. k < PoolAfter => verdict[a, e] = "C"
      <4> HIDE DEF R
      <4>1. k < PoolAfter => k < n
        BY <3>1, <3>3
      <4> QED BY <3>2, <4>1, Zenon
    <3> QED BY <3>1, <3>4
  <2> HIDE DEF R
  <2> QED BY <2>3, <2>7, <2>8, Zenon DEF EarnedUpTo
<1> QED BY <1>2, <1>3 DEF EarnedBy

\* The place of a review, and the review at a place.
LEMMA ReviewPlaces ==
  /\ \A e \in DaysOfReview : Place(e) \in Nat \ {0} /\ Place(e) <= Days * PerDay /\ On(Place(e))
  /\ \A s \in 1..(Days * PerDay) :
       JobAt(s) = "review" /\ On(s) => DayOf(s) \in DaysOfReview /\ s = Place(DayOf(s))
<1>1. Days \in Nat /\ PerDay = 7 /\ LastFriday \subseteq 1..Days
  BY OfficeConstants
<1>2. \A k \in 1..7 : (JobsOfADay[k] = "review") = (k = 5)
  <2>1. 1..7 = {1, 2, 3, 4, 5, 6, 7}
    OBVIOUS
  <2> QED BY <2>1 DEF JobsOfADay
<1>3. ASSUME NEW e \in DaysOfReview
      PROVE  Place(e) \in Nat \ {0} /\ Place(e) <= Days * PerDay /\ On(Place(e))
  <2>1. e \in 1..Days /\ e \in LastFriday /\ e \notin Holiday
    BY <1>1 DEF DaysOfReview
  <2>2. Place(e) = (e - 1) * 7 + 5 /\ Place(e) \in Nat \ {0} /\ Place(e) <= Days * 7
    BY <1>1, <2>1 DEF Place
  <2>3. /\ DayOf(Place(e)) \in 1..Days
        /\ (DayOf(Place(e)) - 1) * 7 + 1 <= Place(e) /\ Place(e) <= DayOf(Place(e)) * 7
        /\ JobAt(Place(e)) = JobsOfADay[Place(e) - (DayOf(Place(e)) - 1) * 7]
    <3>1. Place(e) \in Nat /\ Place(e) >= 1 /\ Place(e) <= Days * PerDay
      BY <1>1, <2>2
    <3> HIDE DEF Place
    <3> QED BY <3>1, JobPlaces, Zenon
  <2>4. DayOf(Place(e)) = e
    BY <1>1, <2>1, <2>2, <2>3
  <2>5. Place(e) - (e - 1) * 7 = 5
    BY <1>1, <2>1, <2>2
  <2>6. JobAt(Place(e)) = "review"
    BY <1>2, <2>3, <2>4, <2>5
  <2>7. On(Place(e)) = ReviewDay(e)
    BY <2>4, <2>6 DEF On
  <2> QED BY <1>1, <2>1, <2>2, <2>7 DEF ReviewDay, Suspended
<1>4. ASSUME NEW s \in 1..(Days * PerDay), JobAt(s) = "review", On(s)
      PROVE  DayOf(s) \in DaysOfReview /\ s = Place(DayOf(s))
  <2>1. s \in Nat /\ s >= 1 /\ s <= Days * PerDay
    BY <1>1
  <2>2. /\ DayOf(s) \in 1..Days /\ (DayOf(s) - 1) * 7 + 1 <= s /\ s <= DayOf(s) * 7
        /\ JobsOfADay[s - (DayOf(s) - 1) * 7] = "review"
    BY <1>4, <2>1, JobPlaces
  <2>3. s - (DayOf(s) - 1) * 7 = 5
    <3>1. PICK k \in Int : k = s - (DayOf(s) - 1) * 7
      BY <1>1, <2>1, <2>2
    <3>2. k \in 1..7
      BY <1>1, <2>1, <2>2, <3>1
    <3> QED BY <1>2, <2>2, <3>1, <3>2
  <2>4. On(s) = ReviewDay(DayOf(s))
    BY <1>4 DEF On
  <2>5. DayOf(s) \in DaysOfReview
    BY <1>4, <2>4 DEF ReviewDay, Suspended, DaysOfReview
  <2>6. s = (DayOf(s) - 1) * 7 + 5
    BY <1>1, <2>1, <2>2, <2>3
  <2> QED BY <2>5, <2>6 DEF Place
<1> QED BY <1>3, <1>4

\* The reviews come in the order of their days.
LEMMA ReviewsAreDays ==
  /\ Done \in SUBSET DaysOfReview /\ Earlier \in SUBSET Done
  /\ \A e \in DaysOfReview : e \in Nat /\ Place(e) \in Nat \ {0}
  /\ \A e, f \in DaysOfReview : Place(e) < Place(f) => e < f
<1>1. \A e \in DaysOfReview : e \in Nat /\ Place(e) = (e - 1) * 7 + 5 /\ Place(e) \in Nat \ {0}
  BY ReviewPlaces, OfficeConstants DEF DaysOfReview, Place
<1>2. \A e, f \in DaysOfReview : Place(e) < Place(f) => e < f
  BY <1>1
<1> QED BY <1>1, <1>2 DEF Done, Earlier

\* What a calendar that was not torn looks like.
LEMMA FormOf ==
  ASSUME OfficeTypes, CareerInv, torn # "torn"
  PROVE  /\ NoReview \/ BeforeRaises \/ BeforeStreak \/ BeforePool
         /\ torn = "saving" => to > 0
         /\ NothingSaved
         /\ stmts = <<>> => NoReview
<1>1. stmts = <<>> => Len(stmts) = 0
  OBVIOUS
<1> QED BY <1>1 DEF CareerInv, BeforeRaises, BeforeStreak, BeforePool

\* A statement of another kind.
LEMMA ElseKeepsCareer ==
  ASSUME OfficeTypes, CareerInv, Execute, stmts[1].op \notin {"raises", "streak", "pool"},
         UNCHANGED <<to, at, settledTo, streak, pool, torn, verdict>>
  PROVE  CareerInv'
<1> SUFFICES ASSUME torn # "torn" PROVE CareerInv'
  BY DEF CareerInv
<1>1. NoReview /\ NothingSaved /\ (torn = "saving" => to > 0)
  BY FormOf DEF BeforeRaises, BeforeStreak, BeforePool
<1>2. Done' = Done
  BY DEF Done, Reached
<1>3. stmts # <<>> /\ stmts' = Tail(stmts) /\ stmts \in Seq(JobStatements)
  BY DEF Execute, OfficeTypes
<1>4. NoReview'
  <2>1. \A i \in DOMAIN stmts' : stmts'[i].op \notin {"raises", "streak", "pool"}
    BY <1>1, <1>3, TailFacts DEF NoReview
  <2>2. Streaked(Done, streak)' /\ EarnedBy(Done, pool)'
    BY <1>1, <1>2 DEF NoReview, Streaked, EarnedBy, EarnedUpTo
  <2> QED BY <2>1, <2>2 DEF NoReview
<1>5. NothingSaved'
  BY <1>1, <1>2 DEF NothingSaved
<1> QED BY <1>1, <1>4, <1>5 DEF CareerInv

\* A statement of the review brings it one statement on.
LEMMA SavingKeepsCareer ==
  ASSUME OfficeTypes, StmtInv, CareerInv, Execute, stmts[1].op \in {"raises", "streak", "pool"}
  PROVE  CareerInv'
<1>1. /\ Career(stmts[1]) /\ UNCHANGED <<to, at, settledTo, verdict>> /\ stmts # <<>>
      /\ stmts' = Tail(stmts) /\ stmts \in Seq(JobStatements)
  BY ExecuteFrame DEF Execute
<1> SUFFICES ASSUME torn' # "torn" PROVE CareerInv'
  BY DEF CareerInv
<1>2. torn # "torn" /\ torn' = "saving" /\ to' > 0
  BY <1>1 DEF Career, OfficeTypes
<1>3. Done' = Done /\ Earlier' = Earlier
  BY <1>1 DEF Done, Earlier, Reached
<1>4. /\ Len(stmts) \in Nat \ {0} /\ Len(stmts') = Len(stmts) - 1 /\ DOMAIN stmts' = 1..(Len(stmts) - 1)
      /\ \A i \in DOMAIN stmts' : stmts'[i] = stmts[i + 1]
      /\ 1 \in DOMAIN stmts
  BY <1>1, TailFacts
<1>5. BeforeRaises \/ BeforeStreak \/ BeforePool
  BY <1>2, <1>4, FormOf DEF NoReview
<1>6. NothingSaved'
  BY <1>2 DEF NothingSaved
<1>7. CASE BeforeRaises
  <2>1. Len(stmts') = 2 /\ stmts'[1] = stmts[2] /\ stmts'[2] = stmts[3]
    BY <1>4, <1>7 DEF BeforeRaises
  <2>2. UNCHANGED <<streak, pool>>
    BY <1>1, <1>7 DEF Career, BeforeRaises
  <2>3. BeforeStreak'
    <3>1. Streaked(Earlier, streak)' /\ EarnedBy(Earlier, pool)'
      BY <1>1, <1>3, <1>7, <2>2 DEF BeforeRaises, Streaked, EarnedBy, EarnedUpTo
    <3>2. Streaked(Done, stmts[1].what)' /\ EarnedBy(Done, stmts[2].what)'
      BY <1>1, <1>3, <1>7, <2>1 DEF BeforeRaises, Streaked, EarnedBy, EarnedUpTo
    <3> QED BY <1>7, <2>1, <3>1, <3>2 DEF BeforeRaises, BeforeStreak
  <2> QED BY <1>2, <1>6, <2>3 DEF CareerInv
<1>8. CASE BeforeStreak
  <2>1. Len(stmts') = 1 /\ stmts'[1] = stmts[2]
    BY <1>4, <1>8 DEF BeforeStreak
  <2>2. streak' = stmts[1].what /\ pool' = pool
    BY <1>1, <1>8 DEF Career, BeforeStreak
  <2>3. BeforePool'
    <3>1. Streaked(Done, streak)' /\ EarnedBy(Earlier, pool)'
      BY <1>1, <1>3, <1>8, <2>2 DEF BeforeStreak, Streaked, EarnedBy, EarnedUpTo
    <3>2. EarnedBy(Done, stmts[1].what)'
      BY <1>1, <1>3, <1>8, <2>1 DEF BeforeStreak, EarnedBy, EarnedUpTo
    <3> QED BY <1>8, <2>1, <3>1, <3>2 DEF BeforeStreak, BeforePool
  <2> QED BY <1>2, <1>6, <2>3 DEF CareerInv
<1>9. CASE BeforePool
  <2>1. DOMAIN stmts' = {}
    BY <1>4, <1>9 DEF BeforePool
  <2>2. pool' = stmts[1].what /\ streak' = streak
    BY <1>1, <1>9 DEF Career, BeforePool
  <2>3. NoReview'
    <3>1. Streaked(Done, streak)' /\ EarnedBy(Done, pool)'
      BY <1>1, <1>3, <1>9, <2>2 DEF BeforePool, Streaked, EarnedBy, EarnedUpTo
    <3> QED BY <2>1, <3>1 DEF NoReview
  <2> QED BY <1>2, <1>6, <2>3 DEF CareerInv
<1> QED BY <1>5, <1>7, <1>8, <1>9

\* Any statement.
LEMMA ExecuteKeepsCareer ==
  ASSUME OfficeTypes, StmtInv, CareerInv, Execute
  PROVE  CareerInv'
<1>1. CASE stmts[1].op \in {"raises", "streak", "pool"}
  BY <1>1, SavingKeepsCareer
<1>2. CASE stmts[1].op \notin {"raises", "streak", "pool"}
  <2>1. UNCHANGED <<career, torn>> /\ UNCHANGED <<to, at, settledTo, verdict>>
    <3>1. Head(stmts) = stmts[1] /\ UNCHANGED <<to, at, settledTo, verdict>>
      BY ExecuteFrame
    <3> QED BY <1>2, <3>1 DEF Execute
  <2>2. UNCHANGED <<to, at, settledTo, streak, pool, torn, verdict>>
    BY <2>1 DEF career
  <2> QED BY <1>2, <2>2, ElseKeepsCareer
<1> QED BY <1>1, <1>2

\* The reviews after a job has begun: the same, or one more.
LEMMA ReviewsAfterStart ==
  ASSUME OfficeTypes, StartJob
  PROVE  /\ JobAt(at') = "review" =>
              /\ DayOf(at') \in DaysOfReview /\ at' = Place(DayOf(at'))
              /\ Done' = Done \union {DayOf(at')} /\ Earlier' = Done
              /\ \A e \in Done : e < DayOf(at')
         /\ JobAt(at') # "review" => Done' = Done
<1>1. /\ to > 0 /\ at' = Min(Left) /\ at' \in Left /\ at' \in Nat /\ at < at' /\ at' <= to
      /\ to = clock /\ On(at') /\ to' = to
  BY StartFrame
<1>2. at \in Nat /\ to \in Nat /\ to <= Days * PerDay
  BY <1>1 DEF OfficeTypes
<1>3. Reached = at /\ Reached' = at'
  BY <1>1 DEF Reached
<1>4. \A k \in Left : at' <= k
  <2>1. Left \in SUBSET (1..to) /\ Left # {}
    BY <1>1, <1>2 DEF Left
  <2> QED BY <1>1, <1>2, <2>1, MinIsLeast
<1>5. ASSUME NEW e \in DaysOfReview, at < Place(e), Place(e) <= at' PROVE Place(e) = at'
  <2>1. Place(e) \in Nat \ {0} /\ On(Place(e))
    BY ReviewPlaces
  <2>2. Place(e) \in Left
    BY <1>1, <1>2, <1>5, <2>1 DEF Left
  <2> QED BY <1>1, <1>4, <1>5, <2>1, <2>2
<1>6. \A e \in DaysOfReview : Place(e) \in Nat
  BY ReviewPlaces
<1>7. \A e \in Done : Place(e) < at' /\ e \in DaysOfReview
  BY <1>1, <1>2, <1>3, <1>6 DEF Done
<1>8. at' \in 1..(Days * PerDay)
  BY <1>1, <1>2, OfficeConstants
<1>9. Done' = {e \in DaysOfReview : Place(e) <= at'} /\ Earlier' = {e \in Done' : Place(e) < at'}
  BY <1>3 DEF Done, Earlier
<1>10. CASE JobAt(at') = "review"
  <2>1. DayOf(at') \in DaysOfReview /\ at' = Place(DayOf(at'))
    BY <1>1, <1>8, <1>10, ReviewPlaces
  <2>2. PICK d \in DaysOfReview : d = DayOf(at') /\ at' = Place(d)
    BY <2>1
  <2>3. \A e \in DaysOfReview : Place(e) <= at' <=> (e \in Done \/ e = d)
    <3> TAKE e \in DaysOfReview
    <3>1. e \in Done => Place(e) <= at'
      BY <1>1, <1>6, <1>7
    <3>2. e = d => Place(e) <= at'
      <4>1. e = d => Place(e) = at'
        BY <2>2, Zenon
      <4> QED BY <1>1, <1>6, <4>1
    <3>3. ASSUME Place(e) <= at', e \notin Done PROVE e = d
      <4>1. at < Place(e)
        BY <1>2, <1>3, <1>6, <3>3 DEF Done
      <4>2. Place(e) = at'
        BY <1>5, <3>3, <4>1
      <4>3. Place(e) = (e - 1) * 7 + 5 /\ Place(d) = (d - 1) * 7 + 5 /\ e \in Nat /\ d \in Nat
        BY ReviewsAreDays DEF Place
      <4> QED BY <2>2, <4>2, <4>3
    <3> QED BY <3>1, <3>2, <3>3
  <2>4. Done' = Done \union {d}
    BY <1>7, <1>9, <2>3
  <2>5. Earlier' = Done
    <3>1. ~ (Place(d) < at')
      <4>1. PICK n \in Nat : at' = n
        BY <1>1
      <4>2. Place(d) = n
        BY <2>2, <4>1
      <4> QED BY <4>1, <4>2
    <3>2. \A e : e \in Earlier' <=> (e \in Done \/ e = d) /\ Place(e) < at'
      BY <1>9, <2>4
    <3> QED BY <1>7, <3>1, <3>2
  <2>6. \A e \in Done : e < d
    BY <1>7, <2>2, ReviewsAreDays
  <2> QED BY <1>10, <2>2, <2>4, <2>5, <2>6
<1>11. CASE JobAt(at') # "review"
  <2>1. ASSUME NEW e \in DaysOfReview, Place(e) <= at', e \notin Done PROVE FALSE
    <3>1. at < Place(e)
      BY <1>2, <1>3, <1>6, <2>1 DEF Done
    <3>2. Place(e) = at'
      BY <1>5, <2>1, <3>1
    <3>3. JobAt(Place(e)) = "review"
      <4>1. e \in 1..Days /\ Place(e) = (e - 1) * 7 + 5 /\ Days \in Nat
        BY OfficeConstants DEF DaysOfReview, Place
      <4>2. /\ (DayOf(at') - 1) * 7 + 1 <= at' /\ at' <= DayOf(at') * 7 /\ DayOf(at') \in 1..Days
            /\ JobAt(at') = JobsOfADay[at' - (DayOf(at') - 1) * 7]
        BY <1>1, <1>8, JobPlaces, OfficeConstants
      <4>3. DayOf(at') = e
        BY <3>2, <4>1, <4>2
      <4>4. at' - (DayOf(at') - 1) * 7 = 5
        BY <3>2, <4>1, <4>3
      <4> QED BY <3>2, <4>2, <4>4 DEF JobsOfADay
    <3> QED BY <1>11, <3>2, <3>3
  <2>2. Done' = Done
    BY <1>1, <1>6, <1>7, <1>9, <2>1 DEF Done
  <2> QED BY <1>11, <2>2
<1> QED BY <1>10, <1>11

\* A job that starts.
LEMMA StartKeepsCareer ==
  ASSUME SettledInv, CareerInv, StartJob
  PROVE  CareerInv'
<1> USE DEF SettledInv
<1>1. /\ to > 0 /\ stmts = <<>> /\ at' \in Nat /\ at < at' /\ to' = to
      /\ UNCHANGED <<settledTo, streak, pool, torn, verdict>>
  BY StartFrame
<1> SUFFICES ASSUME torn # "torn" PROVE CareerInv'
  BY <1>1 DEF CareerInv
<1>2. NoReview /\ NothingSaved
  BY <1>1, FormOf
<1>3. torn' = "saving" => to' > 0
  BY <1>1
<1>4. torn = "no" => \A d \in Done : Place(d) <= settledTo
  BY <1>1, <1>2 DEF NothingSaved
<1>5. CASE JobAt(at') = "review"
  <2>1. PICK d \in DaysOfReview : d = DayOf(at') /\ at' = Place(d)
    BY <1>5, ReviewsAfterStart
  <2>2. Done' = Done \union {d} /\ Earlier' = Done /\ \A e \in Done : e < d
    BY <1>5, <2>1, ReviewsAfterStart
  <2>3. /\ Len(stmts') = 3 /\ stmts'[1].op = "raises" /\ stmts'[2].op = "streak" /\ stmts'[3].op = "pool"
        /\ stmts'[2].what = StreakAfter(d) /\ stmts'[3].what = pool \union ToPool(d)
    <3>1. DayOf(at') \in LastFriday
      BY <2>1 DEF DaysOfReview
    <3> QED BY <1>5, <2>1, <3>1, ReviewKeeps
  <2>4. Streaked(Done, streak) /\ EarnedBy(Done, pool) /\ Done \in SUBSET DaysOfReview
    BY <1>2, ReviewsAreDays DEF NoReview
  <2>5. Streaked(Done \union {d}, StreakAfter(d)) /\ EarnedBy(Done \union {d}, pool \union ToPool(d))
    BY <2>2, <2>4, StreakGrows, PoolGrows
  <2>6. BeforeRaises'
    <3>1. Streaked(Earlier, streak)' /\ EarnedBy(Earlier, pool)'
      BY <1>1, <2>2, <2>4 DEF Streaked, EarnedBy, EarnedUpTo
    <3>2. Streaked(Done, stmts[2].what)'
      BY <1>1, <2>2, <2>3, <2>5 DEF Streaked
    <3>3. EarnedBy(Done, stmts[3].what)'
      BY <1>1, <2>2, <2>3, <2>5 DEF EarnedBy, EarnedUpTo
    <3> QED BY <2>3, <3>1, <3>2, <3>3 DEF BeforeRaises
  <2>7. NothingSaved'
    <3>1. stmts' = <<>> => Len(stmts') = 0
      OBVIOUS
    <3>2. stmts' # <<>>
      <4>1. Len(stmts') = 3
        BY <2>3
      <4> QED BY <3>1, <4>1
    <3> QED BY <1>1, <1>4, <2>1, <2>2, <2>3, <3>2 DEF NothingSaved
  <2> QED BY <1>3, <2>6, <2>7 DEF CareerInv
<1>6. CASE JobAt(at') # "review"
  <2>1. Done' = Done
    BY <1>6, ReviewsAfterStart
  <2>2. \A i \in DOMAIN stmts' : stmts'[i].op \notin {"raises", "streak", "pool"}
    <3>1. JobAt(at') \in {"disturb", "checkin", "stock", "rumor", "overtime", "team"}
      BY <1>6, StartFrame, Jobs
    <3>2. CASE JobAt(at') = "disturb"
      BY <3>2, DisturbKeeps
    <3>3. CASE JobAt(at') = "checkin"
      BY <3>3, CheckinKeeps
    <3>4. CASE JobAt(at') = "stock"
      BY <3>4, StockKeeps
    <3>5. CASE JobAt(at') = "rumor"
      BY <3>5, RumorJobKeeps
    <3>6. CASE JobAt(at') = "overtime"
      BY <3>6, OvertimeKeeps
    <3>7. CASE JobAt(at') = "team"
      BY <3>7, TeamKeeps
    <3> QED BY <3>1, <3>2, <3>3, <3>4, <3>5, <3>6, <3>7
  <2>3. NoReview'
    <3>1. Streaked(Done, streak)' /\ EarnedBy(Done, pool)'
      BY <1>1, <1>2, <2>1 DEF NoReview, Streaked, EarnedBy, EarnedUpTo
    <3> QED BY <2>2, <3>1 DEF NoReview
  <2>4. NothingSaved'
    BY <1>1, <1>4, <2>1 DEF NothingSaved
  <2> QED BY <1>3, <2>3, <2>4 DEF CareerInv
<1> QED BY <1>5, <1>6

\* A span begins, ends or is broken off.
LEMMA SpansKeepCareer ==
  ASSUME SettledInv, CareerInv, BeginSpan \/ EndSpan \/ BreakOff
  PROVE  CareerInv'
<1> USE DEF SettledInv
<1>1. UNCHANGED <<streak, pool, verdict>> /\ stmts' = <<>> /\ DOMAIN stmts' = {}
  <2>1. UNCHANGED career /\ UNCHANGED verdict /\ stmts' = <<>>
    BY DEF BeginSpan, EndSpan, BreakOff, OfficeTypes
  <2> QED BY <2>1 DEF career
<1>2. ASSUME Done' = Done, NoReview PROVE NoReview'
  <2>1. Streaked(Done, streak)' /\ EarnedBy(Done, pool)'
    BY <1>1, <1>2 DEF NoReview, Streaked, EarnedBy, EarnedUpTo
  <2> QED BY <1>1, <2>1 DEF NoReview
<1>3. \A e \in DaysOfReview : Place(e) \in Nat
  BY ReviewPlaces
<1>4. to \in Nat /\ at \in Nat /\ settledTo \in Nat /\ (to > 0 => settledTo <= at)
  BY DEF OfficeTypes
<1>5. CASE BeginSpan
  <2> SUFFICES ASSUME torn # "torn" PROVE CareerInv'
    BY <1>5 DEF CareerInv, BeginSpan
  <2>1. to = 0 /\ at' = settledTo /\ settledTo' = settledTo /\ torn' = torn /\ stmts = <<>>
    BY <1>5 DEF BeginSpan, OfficeTypes
  <2>2. to' > 0
    <3>1. PICK j \in Steps : clock' = clock + j /\ to' = clock'
      BY <1>5 DEF BeginSpan
    <3>2. j \in Nat \ {0} /\ clock \in Nat
      BY OfficeConstants DEF OfficeTypes
    <3> QED BY <3>1, <3>2
  <2>3. Done' = Done /\ Reached = settledTo /\ Reached' = settledTo
    BY <1>4, <2>1, <2>2 DEF Done, Reached
  <2>4. NoReview'
    BY <1>2, <2>1, <2>3, FormOf
  <2>5. NothingSaved'
    BY <2>1, <2>3 DEF NothingSaved, Done
  <2> QED BY <2>2, <2>4, <2>5 DEF CareerInv
<1>6. CASE EndSpan
  <2> SUFFICES ASSUME torn' # "torn" PROVE CareerInv'
    BY DEF CareerInv
  <2>1. /\ to > 0 /\ Left = {} /\ stmts = <<>> /\ settledTo' = to /\ to' = 0
        /\ torn # "torn" /\ torn' # "saving"
    BY <1>6 DEF EndSpan, OfficeTypes
  <2>2. Reached = at /\ Reached' = to /\ at <= to /\ to = clock
    BY <1>4, <2>1 DEF Reached, OfficeTypes
  <2>3. Done' = Done
    <3>1. ASSUME NEW e \in DaysOfReview, Place(e) <= to, ~ (Place(e) <= at) PROVE FALSE
      <4>1. On(Place(e)) /\ Place(e) \in (at + 1)..to
        BY <1>3, <1>4, <3>1, ReviewPlaces
      <4> QED BY <2>1, <4>1 DEF Left
    <3>2. \A e \in DaysOfReview : Place(e) <= at => Place(e) <= to
      BY <1>3, <1>4, <2>2
    <3>3. Done = {e \in DaysOfReview : Place(e) <= at} /\ Done' = {e \in DaysOfReview : Place(e) <= to}
      BY <2>2 DEF Done
    <3> QED BY <3>1, <3>2, <3>3
  <2>4. NoReview'
    BY <1>2, <2>1, <2>3, FormOf
  <2>5. NothingSaved'
    BY <2>1, <2>2 DEF NothingSaved, Done
  <2> QED BY <2>1, <2>4, <2>5 DEF CareerInv
<1>7. CASE BreakOff
  <2> SUFFICES ASSUME torn' # "torn" PROVE CareerInv'
    BY DEF CareerInv
  <2>1. to > 0 /\ to' = 0 /\ settledTo' = settledTo /\ torn = "no" /\ torn' = "no"
    BY <1>7 DEF BreakOff, OfficeTypes
  <2>2. Reached = at /\ Reached' = settledTo
    BY <1>4, <2>1 DEF Reached
  <2>3. /\ NoReview \/ BeforeRaises \/ BeforeStreak \/ BeforePool
        /\ \A d \in Done :
             \/ Place(d) <= settledTo
             \/ Place(d) = at /\ stmts # <<>> /\ stmts[1].op = "raises"
    BY <2>1, FormOf DEF NothingSaved
  <2>4. Done' = {e \in Done : Place(e) <= settledTo}
    BY <1>3, <1>4, <2>1, <2>2 DEF Done
  <2>5. stmts # <<>> => settledTo < at
    BY DEF OfficeTypes
  <2>6. stmts # <<>> => Earlier = Done'
    <3> SUFFICES ASSUME stmts # <<>> PROVE Earlier = Done'
      OBVIOUS
    <3>1. settledTo < at /\ Earlier = {e \in Done : Place(e) < at}
      BY <2>2, <2>5 DEF Earlier
    <3>2. \A e \in Done : Place(e) <= settledTo <=> Place(e) < at
      BY <1>3, <1>4, <2>3, <3>1 DEF Done
    <3> QED BY <2>4, <3>1, <3>2
  <2>7. stmts = <<>> \/ stmts[1].op # "raises" => Done = Done'
    BY <2>3, <2>4
  <2>8. Streaked(Done', streak) /\ EarnedBy(Done', pool)
    <3>1. CASE NoReview
      <4>1. stmts = <<>> \/ stmts[1].op # "raises"
        <5>1. stmts # <<>> => 1 \in DOMAIN stmts
          BY DEF OfficeTypes
        <5> QED BY <3>1, <5>1 DEF NoReview
      <4> QED BY <2>7, <3>1, <4>1 DEF NoReview
    <3>2. CASE BeforeRaises \/ BeforeStreak
      <4>1. Len(<<>>) = 0
        OBVIOUS
      <4>2. stmts # <<>>
        BY <3>2, <4>1 DEF BeforeRaises, BeforeStreak
      <4> QED BY <2>6, <3>2, <4>2 DEF BeforeRaises, BeforeStreak
    <3>3. CASE BeforePool
      <4>1. Len(<<>>) = 0
        OBVIOUS
      <4>2. stmts # <<>> /\ stmts[1].op # "raises"
        BY <3>3, <4>1 DEF BeforePool
      <4> QED BY <2>6, <2>7, <3>3, <4>2 DEF BeforePool
    <3> QED BY <2>3, <3>1, <3>2, <3>3
  <2>9. NoReview'
    <3>1. Streaked(Done, streak)' /\ EarnedBy(Done, pool)'
      BY <1>1, <2>8 DEF Streaked, EarnedBy, EarnedUpTo
    <3> QED BY <1>1, <3>1 DEF NoReview
  <2>10. NothingSaved'
    BY <2>1, <2>2 DEF NothingSaved, Done
  <2> QED BY <2>1, <2>9, <2>10 DEF CareerInv
<1> QED BY <1>5, <1>6, <1>7

\* What leaves calendar and reviews alone.
LEMMA CareerUnchanged ==
  ASSUME CareerInv, UNCHANGED <<to, at, settledTo, stmts, streak, pool, torn, verdict>>
  PROVE  CareerInv'
<1>1. Done' = Done /\ Earlier' = Earlier
  BY DEF Done, Earlier, Reached
<1>2. NoReview => NoReview'
  BY <1>1 DEF NoReview, Streaked, EarnedBy, EarnedUpTo
<1>3. BeforeRaises => BeforeRaises'
  BY <1>1 DEF BeforeRaises, Streaked, EarnedBy, EarnedUpTo
<1>4. BeforeStreak => BeforeStreak'
  BY <1>1 DEF BeforeStreak, Streaked, EarnedBy, EarnedUpTo
<1>5. BeforePool => BeforePool'
  BY <1>1 DEF BeforePool, Streaked, EarnedBy, EarnedUpTo
<1>6. NothingSaved => NothingSaved'
  BY <1>1 DEF NothingSaved
<1> QED BY <1>2, <1>3, <1>4, <1>5, <1>6 DEF CareerInv

\* No review at the beginning.
LEMMA CareerInvInit == OffInit => CareerInv
<1> SUFFICES ASSUME OffInit PROVE CareerInv
  OBVIOUS
<1> USE DEF OffInit
<1>1. Done = {}
  <2>1. \A e \in DaysOfReview : Place(e) \in Nat \ {0}
    BY ReviewPlaces
  <2> QED BY <2>1 DEF Done, Reached
<1>2. Streaked(Done, streak) /\ EarnedBy(Done, pool)
  BY <1>1, FS_EmptySet DEF Streaked, EarnedBy
<1> QED BY <1>1, <1>2 DEF CareerInv, NoReview, NothingSaved

\* The pool holds only whom the reviews before have put there, and the streaks count them.
THEOREM ReviewsAreKept == OffSpec => [](SettledInv /\ CareerInv)
<1>1. OffInit => SettledInv /\ CareerInv
  BY SettledInvInit, CareerInvInit
<1>2. SettledInv /\ SettledInv' /\ CareerInv /\ [OffNext]_offVars => CareerInv'
  <2> SUFFICES ASSUME SettledInv, SettledInv', CareerInv, [OffNext]_offVars PROVE CareerInv'
    OBVIOUS
  <2>1. CASE BeginSpan \/ EndSpan \/ BreakOff
    BY <2>1, SpansKeepCareer
  <2>2. CASE StartJob
    BY <2>2, StartKeepsCareer
  <2>3. CASE Execute
    BY <2>3, ExecuteKeepsCareer DEF SettledInv
  <2>4. CASE QueueShock \/ QueueExtra
    <3>1. UNCHANGED <<to, at, settledTo, stmts, streak, pool, torn, verdict>>
      BY <2>4 DEF QueueShock, QueueExtra, position, career
    <3> QED BY <3>1, CareerUnchanged
  <2>5. CASE UNCHANGED offVars
    BY <2>5, CareerUnchanged DEF offVars
  <2> QED BY <2>1, <2>2, <2>3, <2>4, <2>5 DEF OffNext
<1> QED BY <1>1, <1>2, OfficeIsSettled, PTL DEF OffSpec

\* Whoever is in the pool of those to be laid off has had as many reviews in a row with
\* a C as that takes, unless a review that had begun to save was broken off.
THEOREM ThePoolIsEarned == OffSpec => []PoolIsEarned
<1>1. SettledInv /\ CareerInv => PoolIsEarned
  <2> SUFFICES ASSUME SettledInv, CareerInv, torn # "torn"
               PROVE  \A a \in pool : \E d \in Reviews : EarnedUpTo(Reviews, a, d)
    BY DEF PoolIsEarned, EarnedUpTo
  <2>1. EarnedBy(Done, pool) \/ EarnedBy(Earlier, pool)
    BY DEF CareerInv, NoReview, BeforeRaises, BeforeStreak, BeforePool
  <2>2. PICK D \in SUBSET DaysOfReview : EarnedBy(D, pool) /\ (D = Done \/ D = Earlier)
    BY <2>1, ReviewsAreDays
  <2>3. PerDay = 7 /\ clock \in Nat /\ Reached \in Nat /\ Reached <= clock
    BY OfficeConstants DEF SettledInv, OfficeTypes, Reached
  <2>4. Reviews = {d \in DaysOfReview : Place(d) <= clock}
    <3>1. ASSUME NEW d \in LastFriday PROVE On(Place(d)) <=> d \notin Holiday
      <4>1. d \in 1..Days /\ Days \in Nat /\ PerDay = 7
        BY OfficeConstants
      <4>2. Place(d) = (d - 1) * 7 + 5 /\ Place(d) \in Nat /\ Place(d) >= 1 /\ Place(d) <= Days * PerDay
        BY <4>1 DEF Place
      <4>3. /\ DayOf(Place(d)) \in 1..Days
            /\ (DayOf(Place(d)) - 1) * 7 + 1 <= Place(d) /\ Place(d) <= DayOf(Place(d)) * 7
            /\ JobAt(Place(d)) = JobsOfADay[Place(d) - (DayOf(Place(d)) - 1) * 7]
        <5> HIDE DEF Place
        <5> QED BY <4>2, JobPlaces, Zenon
      <4>4. DayOf(Place(d)) = d
        BY <4>1, <4>2, <4>3
      <4>5. Place(d) - (d - 1) * 7 = 5
        BY <4>1, <4>2
      <4>6. JobAt(Place(d)) = "review"
        BY <4>3, <4>4, <4>5 DEF JobsOfADay
      <4> QED BY <4>4, <4>6 DEF On, ReviewDay, Suspended
    <3>2. Reviews = {d \in LastFriday : On(Place(d)) /\ Place(d) <= clock}
      BY <2>3 DEF Reviews, Place
    <3> QED BY <3>1, <3>2 DEF DaysOfReview
  <2>5. \A e \in DaysOfReview : Place(e) \in Nat
    BY ReviewPlaces
  <2>6. D \subseteq Reviews /\ Reviews \in SUBSET DaysOfReview
    BY <2>2, <2>3, <2>4, <2>5 DEF Done, Earlier
  <2>7. \A d \in D, e \in Reviews \ D : d < e
    <3> SUFFICES ASSUME NEW d \in D, NEW e \in Reviews \ D PROVE d < e
      OBVIOUS
    <3>1. d \in DaysOfReview /\ e \in DaysOfReview /\ Place(d) \in Nat /\ Place(e) \in Nat
      BY <2>2, <2>5, <2>6
    <3>2. Place(d) < Place(e)
      BY <2>2, <2>3, <3>1 DEF Done, Earlier
    <3> QED BY <3>1, <3>2, ReviewsAreDays
  <2>8. EarnedBy(Reviews, pool)
    BY <2>2, <2>6, <2>7, EarnedGrows
  <2> QED BY <2>8 DEF EarnedBy
<1> QED BY ReviewsAreKept, <1>1, PTL

-----------------------------------------------------------------------------
(*****************************************************************************)
(* Goals: those of one week are charged once, wherever a refresh is cut      *)
(* short and taken up again.                                                 *)
(*****************************************************************************)
\* The rows of the goals.
GoalRows == [who : Range(Folk), week : Nat, text : Library, frustration : Nat,
             status : {"active", "done", "abandoned"}, replanned : BOOLEAN]

\* The types of the rows, and of what the weekly hook still has to do.
GoalsTypes ==
  /\ hour \in 0..LastHour /\ rested \in BOOLEAN
  /\ goals \in Seq(GoalRows) /\ blamed \in Seq(Nat) /\ Len(blamed) = Len(goals)
  /\ turnOf \in 0..Len(Folk) /\ (duty = "none") = (turnOf = 0)
  /\ duty \in {"none", "check", "done", "fail", "draw"}
  /\ closing = <<>> \/ closing \in Nat \X Nat
  /\ duty \in {"done", "fail"} => todo \subseteq 1..Len(goals)
  /\ duty = "draw" => todo \subseteq Library
  /\ closing # <<>> => duty = "fail" /\ todo # {}

\* A goal that is pursued.
IsActive(i) == goals[i].status = "active"

\* Rows are of the weeks up to now; a person's active ones are of one week.
WeekInv ==
  /\ \A i \in 1..Len(goals) : goals[i].week \in 1..WeekOf(hour)
  /\ \A i, j \in 1..Len(goals) :
       goals[i].who = goals[j].who /\ IsActive(i) /\ IsActive(j) => goals[i].week = goals[j].week

\* A row is charged when it is closed, and never again.
BlameInv == \A i \in 1..Len(goals) : blamed[i] = 0 \/ (blamed[i] = 1 /\ ~IsActive(i))

\* While failures are settled: what is left to close is open but for the row in hand,
\* and every open row of the person that is overdue is left to close.
FailInv ==
  duty = "fail" =>
    /\ \A i \in todo : IsActive(i) \/ (closing # <<>> /\ i = Min(todo))
    /\ closing # <<>> => ~IsActive(Min(todo))
    /\ \A i \in 1..Len(goals) : IsActive(i) /\ goals[i].who = Who /\ Overdue(i) => i \in todo

\* While goals are drawn for a person, the open ones are of this week.
DrawInv ==
  duty = "draw" /\ todo # {} =>
    \A i \in 1..Len(goals) : IsActive(i) /\ goals[i].who = Who => goals[i].week = WeekOf(hour)

\* The inductive invariant of the goals.
GoalsInv == GoalsTypes /\ WeekInv /\ BlameInv /\ FailInv /\ DrawInv

\* A later hour is of no earlier day, a later day of no earlier week.
LEMMA DivMonotone ==
  ASSUME NEW a \in Nat, NEW b \in Nat, NEW d \in Nat \ {0}, a <= b
  PROVE  a \div d \in Nat /\ a \div d <= b \div d
OBVIOUS

\* What the constants are.
LEMMA GoalsConstants ==
  /\ DayHours \in Nat \ {0} /\ WeekDays \in Nat \ {0}
  /\ IdleGain \in Nat /\ RentGain \in Nat /\ Recovery \in Nat /\ ResetTo \in Nat
  /\ LastHour \in Nat /\ HoursAwake \in Nat /\ HoursAsleep \in Nat
  /\ Len(Folk) \in Nat \ {0} /\ \A i \in 1..Len(Folk) : Folk[i] \in Range(Folk)
<1>1. Folk \in Seq(Range(Folk)) /\ Folk # <<>>
  BY GoalsAssumption
<1>2. Len(Folk) \in Nat \ {0} /\ \A i \in 1..Len(Folk) : Folk[i] \in Range(Folk)
  BY <1>1
<1> QED BY <1>2, GoalsAssumption

\* Weeks do not run back.
LEMMA WeekMonotone ==
  ASSUME NEW h \in Nat, NEW k \in Nat, h <= k
  PROVE  WeekOf(h) \in Nat \ {0} /\ WeekOf(h) <= WeekOf(k)
<1>1. DayOfHour(h) \in Nat /\ DayOfHour(k) \in Nat /\ DayOfHour(h) <= DayOfHour(k)
  BY DivMonotone, GoalsConstants DEF DayOfHour
<1>2. /\ DayOfHour(h) \div WeekDays \in Nat /\ DayOfHour(k) \div WeekDays \in Nat
      /\ DayOfHour(h) \div WeekDays <= DayOfHour(k) \div WeekDays
  BY <1>1, DivMonotone, GoalsConstants
<1> QED BY <1>2 DEF WeekOf

\* The week is the hour's.
LEMMA SameWeek == ASSUME hour' = hour PROVE WeekOf(hour)' = WeekOf(hour)
BY DEF WeekOf, DayOfHour

\* What the types say of one row.
LEMMA RowFacts ==
  ASSUME GoalsTypes
  PROVE  /\ DOMAIN goals = 1..Len(goals) /\ Rows = 1..Len(goals) /\ Len(goals) \in Nat
         /\ \A i \in 1..Len(goals) : goals[i] \in GoalRows /\ blamed[i] \in Nat
         /\ hour \in Nat /\ WeekOf(hour) \in Nat \ {0}
<1>1. hour \in Nat
  BY GoalsConstants DEF GoalsTypes
<1>2. WeekOf(hour) \in Nat \ {0}
  BY <1>1, WeekMonotone
<1> QED BY <1>1, <1>2 DEF GoalsTypes, Rows

\* A step that leaves people and weeks of the rows alone and opens none.
LEMMA RowsKept ==
  ASSUME GoalsTypes, WeekInv, WeekOf(hour)' \in Nat, WeekOf(hour) <= WeekOf(hour)',
         Len(goals') = Len(goals),
         \A i \in 1..Len(goals) :
           /\ goals'[i].who = goals[i].who /\ goals'[i].week = goals[i].week
           /\ IsActive(i)' => IsActive(i)
  PROVE  WeekInv'
<1>1. \A i \in 1..Len(goals) : goals'[i].week \in 1..WeekOf(hour)'
  BY RowFacts DEF WeekInv
<1>2. \A i, j \in 1..Len(goals) :
        goals'[i].who = goals'[j].who /\ IsActive(i)' /\ IsActive(j)'
          => goals'[i].week = goals'[j].week
  BY DEF WeekInv
<1> QED BY <1>1, <1>2 DEF WeekInv

\* While no hour passes, the week stays.
LEMMA SameWeekFacts ==
  ASSUME GoalsTypes, hour' = hour
  PROVE  WeekOf(hour)' \in Nat /\ WeekOf(hour) <= WeekOf(hour)' /\ WeekOf(hour)' = WeekOf(hour)
BY SameWeek, RowFacts

\* One goal of the first week, nobody blamed.
LEMMA GoalsInvInit == GoalsInit => GoalsInv
<1> SUFFICES ASSUME GoalsInit PROVE GoalsInv
  OBVIOUS
<1> USE DEF GoalsInit
<1>1. PICK text \in Library : goals = [i \in 1..Len(Folk) |-> Goal(Folk[i], 1, text)]
  OBVIOUS
<1>2. Len(Folk) \in Nat /\ \A i \in 1..Len(Folk) : Folk[i] \in Range(Folk)
  BY GoalsConstants
<1>3. /\ goals \in Seq(GoalRows) /\ Len(goals) = Len(Folk)
      /\ \A i \in 1..Len(goals) : goals[i].week = 1
  <2>1. \A i \in 1..Len(Folk) : Goal(Folk[i], 1, text) \in GoalRows /\ Goal(Folk[i], 1, text).week = 1
    BY <1>2 DEF Goal, GoalRows
  <2> QED BY <1>1, <1>2, <2>1
<1>4. blamed \in Seq(Nat) /\ Len(blamed) = Len(Folk) /\ \A i \in 1..Len(Folk) : blamed[i] = 0
  BY <1>2
<1>5. WeekOf(hour) \in Nat \ {0} /\ hour \in 0..LastHour
  BY WeekMonotone, GoalsConstants
<1>6. GoalsTypes
  <2>1. turnOf \in 0..Len(Folk) /\ (duty = "none") = (turnOf = 0)
    BY <1>2
  <2> QED BY <1>3, <1>4, <1>5, <2>1 DEF GoalsTypes
<1>7. WeekInv
  <2>1. 1 \in 1..WeekOf(hour)
    BY <1>5
  <2> QED BY <1>3, <2>1 DEF WeekInv
<1>8. BlameInv
  BY <1>3, <1>4 DEF BlameInv
<1>9. FailInv /\ DrawInv
  BY DEF FailInv, DrawInv
<1> QED BY <1>6, <1>7, <1>8, <1>9 DEF GoalsInv

\* An hour passes.
LEMMA LiveKeeps == ASSUME GoalsInv, Live PROVE GoalsInv'
<1> USE DEF GoalsInv
<1>1. /\ turnOf = 0 /\ rested' = FALSE
      /\ UNCHANGED <<goals, hook, refreshed, blamed, rents, failed>>
  BY DEF Live
<1>2. hour' \in Nat /\ hour <= hour' /\ hour' <= LastHour
  BY RowFacts, GoalsConstants DEF Live
<1>3. GoalsTypes'
  <2>1. hour' \in 0..LastHour
    BY <1>2, GoalsConstants
  <2>2. UNCHANGED <<turnOf, duty, todo, closing>> /\ rested' \in BOOLEAN
    BY <1>1 DEF hook
  <2> QED BY <1>1, <2>1, <2>2 DEF GoalsTypes
<1>4. WeekOf(hour') \in Nat /\ WeekOf(hour) <= WeekOf(hour')
  BY <1>2, RowFacts, WeekMonotone
<1>5. WeekInv'
  <2>1. WeekOf(hour)' = WeekOf(hour')
    BY DEF WeekOf, DayOfHour
  <2> QED BY <1>1, <1>4, <2>1, RowFacts DEF WeekInv, IsActive
<1>6. BlameInv' /\ FailInv' /\ DrawInv'
  BY <1>1 DEF BlameInv, FailInv, DrawInv, GoalsTypes, hook, IsActive
<1> QED BY <1>3, <1>5, <1>6

\* Frustration grows while a goal is seen to stand still.
LEMMA NoticeKeeps == ASSUME GoalsInv, NEW who, Notice(who) PROVE GoalsInv'
<1> USE DEF GoalsInv
<1>1. /\ turnOf = 0 /\ UNCHANGED <<hour, rested, hook, refreshed, blamed, failed>>
      /\ goals' = [i \in Rows |-> IF i \in ActiveOf(who)
                                   THEN [goals[i] EXCEPT !.frustration = @ + RentGain] ELSE goals[i]]
  BY DEF Notice
<1>2. \A i \in 1..Len(goals) : goals'[i] \in GoalRows
  <2> TAKE i \in 1..Len(goals)
  <2>1. goals[i] \in GoalRows /\ RentGain \in Nat
    BY RowFacts, GoalsConstants
  <2>2. [goals[i] EXCEPT !.frustration = @ + RentGain] \in GoalRows
    BY <2>1 DEF GoalRows
  <2> QED BY <1>1, <2>1, <2>2, RowFacts
<1>3. goals' \in Seq(GoalRows) /\ Len(goals') = Len(goals)
  BY <1>1, <1>2, RowFacts
<1>4. \A i \in 1..Len(goals) :
        /\ goals'[i].who = goals[i].who /\ goals'[i].week = goals[i].week
        /\ goals'[i].status = goals[i].status
  BY <1>1, RowFacts DEF GoalRows
<1>5. GoalsTypes'
  BY <1>1, <1>3 DEF GoalsTypes, hook
<1>6. WeekInv' /\ BlameInv'
  <2>1. WeekInv'
    BY <1>1, <1>3, <1>4, SameWeekFacts, RowsKept DEF IsActive
  <2>2. BlameInv'
    BY <1>1, <1>3, <1>4 DEF BlameInv, IsActive
  <2> QED BY SMTT(30), <2>1, <2>2
<1>7. FailInv' /\ DrawInv'
  BY <1>1 DEF FailInv, DrawInv, GoalsTypes, hook
<1> QED BY <1>5, <1>6, <1>7

\* The night hook begins with somebody's turn.
LEMMA NightKeeps == ASSUME GoalsInv, Night PROVE GoalsInv'
<1> USE DEF GoalsInv
<1>1. /\ turnOf = 0 /\ duty = "none" /\ hour' = hour + HoursAsleep /\ hour' <= LastHour
      /\ rested' = TRUE /\ UNCHANGED <<todo, closing, blamed, rents>>
  BY DEF Night, GoalsTypes
<1>2. hour' \in Nat /\ hour <= hour'
  BY <1>1, RowFacts, GoalsConstants
<1>3. goals' = goals \/ goals' = [i \in Rows |-> Eased(goals[i])]
  BY DEF Night
<1>4. \A g \in GoalRows :
        /\ Eased(g) \in GoalRows /\ Eased(g).who = g.who /\ Eased(g).week = g.week
        /\ Eased(g).status = g.status
  <2> TAKE g \in GoalRows
  <2>1. g.frustration - Recovery \in Int
    BY GoalsConstants DEF GoalRows
  <2>2. \A x \in Int : Max({0, x}) \in Nat
    <3> TAKE x \in Int
    <3>1. \E m \in {0, x} : \A y \in {0, x} : m >= y
      OBVIOUS
    <3>2. Max({0, x}) \in {0, x} /\ Max({0, x}) >= 0
      BY <3>1 DEF Max
    <3> QED BY <3>2
  <2>3. PICK v \in Nat : v = Max({0, g.frustration - Recovery})
    BY <2>1, <2>2
  <2>4. Eased(g) = IF g.status = "active" THEN [g EXCEPT !.frustration = v] ELSE g
    BY <2>3 DEF Eased
  <2> QED BY <2>4 DEF GoalRows
<1>5. /\ goals' \in Seq(GoalRows) /\ Len(goals') = Len(goals)
      /\ \A i \in 1..Len(goals) :
           /\ goals'[i].who = goals[i].who /\ goals'[i].week = goals[i].week
           /\ goals'[i].status = goals[i].status
  <2>1. CASE goals' = goals
    BY <2>1 DEF GoalsTypes
  <2>2. CASE goals' = [i \in Rows |-> Eased(goals[i])]
    BY <1>4, <2>2, RowFacts
  <2> QED BY <1>3, <2>1, <2>2
<1>6. (turnOf' = 1 /\ duty' = "check") \/ UNCHANGED <<turnOf, duty>>
  BY DEF Night
<1>7. turnOf' \in 0..Len(Folk)
  BY <1>6, GoalsConstants DEF GoalsTypes
<1>8. GoalsTypes'
  BY <1>1, <1>2, <1>5, <1>6, <1>7, GoalsConstants DEF GoalsTypes
<1>9. WeekOf(hour') \in Nat /\ WeekOf(hour) <= WeekOf(hour')
  BY <1>2, RowFacts, WeekMonotone
<1>10. WeekInv'
  <2>1. WeekOf(hour)' = WeekOf(hour')
    BY DEF WeekOf, DayOfHour
  <2> QED BY <1>5, <1>9, <2>1, RowsKept DEF IsActive
<1>11. BlameInv' /\ FailInv' /\ DrawInv'
  BY <1>1, <1>5, <1>6, SameWeek DEF BlameInv, FailInv, DrawInv, IsActive
<1> QED BY <1>8, <1>10, <1>11

\* The hook reads what to close and what to draw.
LEMMA ReadingKeeps == ASSUME GoalsInv, Check \/ Failures \/ Draw PROVE GoalsInv'
<1> USE DEF GoalsInv
<1>1. UNCHANGED <<hour, rested, goals, turnOf, closing, blamed>> /\ turnOf # 0
  BY DEF Check, Failures, Draw, GoalsTypes
<1>2. WeekInv' /\ BlameInv'
  BY <1>1, SameWeek DEF WeekInv, BlameInv, IsActive
<1>3. Rows = 1..Len(goals)
  BY RowFacts
<1>4. CASE Check
  <2>1. duty' = "done" /\ todo' \subseteq 1..Len(goals) /\ closing = <<>>
    BY <1>3, <1>4 DEF Check, ActiveOf, GoalsTypes
  <2>2. GoalsTypes'
    BY <1>1, <2>1 DEF GoalsTypes
  <2> QED BY <1>2, <2>1, <2>2 DEF FailInv, DrawInv
<1>5. CASE Failures
  <2>1. duty' = "fail" /\ todo' = {i \in ActiveOf(Who) : Overdue(i)} /\ closing = <<>>
    BY <1>5 DEF Failures, GoalsTypes
  <2>2. todo' \subseteq 1..Len(goals)
    BY <1>3, <2>1 DEF ActiveOf
  <2>3. GoalsTypes'
    BY <1>1, <2>1, <2>2 DEF GoalsTypes
  <2>4. FailInv'
    BY <1>1, <1>3, <2>1 DEF FailInv, ActiveOf, IsActive, Who, Overdue
  <2> QED BY <1>2, <2>1, <2>3, <2>4, SameWeek DEF DrawInv
<1>6. CASE Draw
  <2>1. duty = "fail" /\ todo = {} /\ duty' = "draw" /\ closing = <<>>
    BY <1>6 DEF Draw, GoalsTypes
  <2>2. todo' \subseteq Library
    BY <1>6 DEF Draw
  <2>3. GoalsTypes'
    BY <1>1, <2>1, <2>2 DEF GoalsTypes
  <2>4. \A i \in 1..Len(goals) : IsActive(i) /\ goals[i].who = Who => goals[i].week = WeekOf(hour)
    BY <2>1, RowFacts DEF FailInv, Overdue, WeekInv
  <2>5. DrawInv'
    BY <1>1, <2>4, SameWeek DEF DrawInv, IsActive, Who
  <2> QED BY <1>2, <2>1, <2>3, <2>5 DEF FailInv
<1> QED BY <1>4, <1>5, <1>6

\* A goal reached is closed.
LEMMA MarkDoneKeeps == ASSUME GoalsInv, MarkDone PROVE GoalsInv'
<1> USE DEF GoalsInv
<1>1. PICK i : i = Min(todo)
  OBVIOUS
<1>2. /\ duty = "done" /\ todo # {} /\ goals' = [goals EXCEPT ![i].status = "done"]
      /\ todo' = todo \ {i}
      /\ UNCHANGED <<hour, rested, turnOf, duty, closing, refreshed, blamed, rents, failed>>
  BY <1>1 DEF MarkDone
<1>3. i \in 1..Len(goals) /\ goals[i] \in GoalRows
  BY <1>1, <1>2, MinIsLeast, RowFacts DEF GoalsTypes
<1>4. PICK g : g = [goals[i] EXCEPT !.status = "done"]
  OBVIOUS
<1>5. g \in GoalRows /\ g.who = goals[i].who /\ g.week = goals[i].week /\ g.status = "done"
  BY <1>3, <1>4 DEF GoalRows
<1>6. goals' = [goals EXCEPT ![i] = g]
  BY <1>2, <1>4
<1>7. /\ goals' \in Seq(GoalRows) /\ Len(goals') = Len(goals)
      /\ goals'[i] = g /\ \A j \in 1..Len(goals) : j # i => goals'[j] = goals[j]
  BY <1>3, <1>5, <1>6, RowFacts DEF GoalsTypes
<1>8. GoalsTypes'
  BY <1>2, <1>7 DEF GoalsTypes
<1>9. WeekInv' /\ BlameInv'
  <2>1. WeekInv'
    BY <1>2, <1>3, <1>5, <1>7, SameWeekFacts, RowsKept DEF IsActive
  <2>2. BlameInv'
    BY <1>2, <1>3, <1>5, <1>7 DEF BlameInv, IsActive
  <2> QED BY <2>1, <2>2
<1> QED BY <1>2, <1>8, <1>9 DEF FailInv, DrawInv

\* A goal missed is closed, and its owner is to be charged for it.
LEMMA FailKeeps == ASSUME GoalsInv, Fail PROVE GoalsInv'
<1> USE DEF GoalsInv
<1>1. PICK i : i = Min(todo)
  OBVIOUS
<1>2. /\ duty = "fail" /\ closing = <<>> /\ todo # {}
      /\ goals' = [goals EXCEPT ![i] = Blame(goals[i])]
      /\ closing' = <<goals[i].frustration, goals[i].frustration + IdleGain>>
      /\ blamed' = [blamed EXCEPT ![i] = @ + 1]
      /\ UNCHANGED <<hour, rested, turnOf, duty, todo, refreshed, rents, failed>>
  BY <1>1 DEF Fail
<1>3. i \in todo /\ i \in 1..Len(goals) /\ goals[i] \in GoalRows
  BY <1>1, <1>2, MinIsLeast, RowFacts DEF GoalsTypes
<1>4. IsActive(i) /\ blamed[i] = 0
  BY <1>2, <1>3 DEF FailInv, BlameInv
<1>5. PICK g : g = Blame(goals[i])
  OBVIOUS
<1>6. /\ g \in GoalRows /\ g.who = goals[i].who /\ g.week = goals[i].week /\ g.status = "abandoned"
      /\ closing' \in Nat \X Nat /\ closing' # <<>>
  <2>1. goals[i].frustration \in Nat /\ goals[i].frustration + IdleGain \in Nat
    BY <1>3, GoalsConstants DEF GoalRows
  <2>2. closing' \in Nat \X Nat /\ closing' # <<>>
    BY <1>2, <2>1
  <2>3. g = [goals[i] EXCEPT !.frustration = @ + IdleGain, !.status = "abandoned"]
    BY <1>5 DEF Blame
  <2> QED BY <1>3, <2>1, <2>2, <2>3 DEF GoalRows
<1>7. /\ goals' \in Seq(GoalRows) /\ Len(goals') = Len(goals)
      /\ goals'[i] = g /\ \A j \in 1..Len(goals) : j # i => goals'[j] = goals[j]
  BY <1>2, <1>3, <1>5, <1>6, RowFacts DEF GoalsTypes
<1>8. /\ blamed' \in Seq(Nat) /\ Len(blamed') = Len(goals) /\ blamed'[i] = 1
      /\ \A j \in 1..Len(goals) : j # i => blamed'[j] = blamed[j]
  BY <1>2, <1>3, <1>4 DEF GoalsTypes
<1>9. GoalsTypes'
  BY <1>2, <1>6, <1>7, <1>8 DEF GoalsTypes
<1>10. WeekInv' /\ BlameInv'
  <2>1. WeekInv'
    BY <1>2, <1>3, <1>6, <1>7, SameWeekFacts, RowsKept DEF IsActive
  <2>2. BlameInv'
    BY <1>3, <1>6, <1>7, <1>8 DEF BlameInv, IsActive
  <2> QED BY <2>1, <2>2
<1>11. FailInv'
  <2>1. ASSUME NEW j \in todo PROVE IsActive(j)' \/ j = i
    BY <1>2, <1>7, <2>1 DEF FailInv, IsActive, GoalsTypes
  <2>2. Min(todo)' = i /\ ~IsActive(i)'
    BY <1>1, <1>2, <1>6, <1>7 DEF IsActive
  <2>3. \A j \in 1..Len(goals) : IsActive(j)' /\ goals'[j].who = Who' /\ Overdue(j)' => j \in todo
    BY <1>2, <1>3, <1>6, <1>7 DEF FailInv, IsActive, Who, Overdue
  <2> QED BY <1>2, <1>6, <1>7, <2>1, <2>2, <2>3 DEF FailInv
<1>12. DrawInv'
  BY <1>2, SameWeek DEF DrawInv
<1> QED BY <1>9, <1>10, <1>11, <1>12

\* The charge for the goal just closed.
LEMMA EffectsKeep == ASSUME GoalsInv, Effects PROVE GoalsInv'
<1> USE DEF GoalsInv
<1>1. PICK i, r, a : i = Min(todo) /\ r = Crosses(Replan) /\ a = Crosses(Abandon)
  OBVIOUS
<1>2. /\ duty = "fail" /\ closing # <<>> /\ closing' = <<>> /\ todo' = todo \ {i}
      /\ goals' = [goals EXCEPT ![i].replanned = @ \/ r,
                                ![i].frustration = IF a THEN ResetTo ELSE @,
                                ![i].status = IF a THEN "abandoned" ELSE @]
      /\ UNCHANGED <<hour, rested, turnOf, duty, refreshed, blamed, rents, failed>>
  BY <1>1 DEF Effects
<1>3. i \in todo /\ i \in 1..Len(goals) /\ goals[i] \in GoalRows
  BY <1>1, <1>2, MinIsLeast, RowFacts DEF GoalsTypes
<1>4. PICK g : g = [goals[i] EXCEPT !.replanned = @ \/ r,
                                    !.frustration = IF a THEN ResetTo ELSE @,
                                    !.status = IF a THEN "abandoned" ELSE @]
  OBVIOUS
<1>5. /\ g \in GoalRows /\ g.who = goals[i].who /\ g.week = goals[i].week
      /\ g.status \in {goals[i].status, "abandoned"}
  <2>1. r \in BOOLEAN /\ a \in BOOLEAN
    BY <1>1, Zenon DEF Crosses
  <2> QED BY <1>3, <1>4, <2>1, GoalsConstants DEF GoalRows
<1>6. /\ goals' \in Seq(GoalRows) /\ Len(goals') = Len(goals)
      /\ goals'[i] = g /\ \A j \in 1..Len(goals) : j # i => goals'[j] = goals[j]
  <2>1. DOMAIN goals = 1..Len(goals)
    BY RowFacts
  <2>2. goals' = [goals EXCEPT ![i] = g]
    BY <1>2, <1>3, <1>4, <2>1
  <2> QED BY <1>3, <1>5, <2>2 DEF GoalsTypes
<1>7. GoalsTypes'
  BY <1>2, <1>6 DEF GoalsTypes
<1>8. WeekInv' /\ BlameInv'
  <2>1. WeekInv'
    BY <1>2, <1>3, <1>5, <1>6, SameWeekFacts, RowsKept DEF IsActive
  <2>2. BlameInv'
    BY <1>2, <1>3, <1>5, <1>6 DEF BlameInv, IsActive
  <2> QED BY <2>1, <2>2
<1>9. FailInv'
  <2>1. ~IsActive(i)
    BY <1>1, <1>2 DEF FailInv
  <2>2. ASSUME NEW j \in todo' PROVE IsActive(j)'
    BY <1>1, <1>2, <1>6, <2>2 DEF FailInv, IsActive, GoalsTypes
  <2>3. \A j \in 1..Len(goals) : IsActive(j)' /\ goals'[j].who = Who' /\ Overdue(j)' => j \in todo'
    BY <1>2, <1>3, <1>5, <1>6, <2>1 DEF FailInv, IsActive, Who, Overdue
  <2> QED BY <1>2, <1>6, <2>2, <2>3 DEF FailInv
<1>10. DrawInv'
  BY <1>2, SameWeek DEF DrawInv
<1> QED BY <1>7, <1>8, <1>9, <1>10

\* A new goal of this week.
LEMMA InsertKeeps == ASSUME GoalsInv, Insert PROVE GoalsInv'
<1> USE DEF GoalsInv
<1>1. PICK text, g : /\ text \in todo /\ g = Goal(Who, WeekOf(hour), text)
                     /\ goals' = Append(goals, g) /\ todo' = todo \ {text}
  BY DEF Insert
<1>2. /\ duty = "draw" /\ todo # {} /\ blamed' = Append(blamed, 0) /\ closing = <<>>
      /\ UNCHANGED <<hour, rested, turnOf, duty, closing, refreshed, rents, failed>>
  BY SMTT(30) DEF Insert, GoalsTypes
<1>3. PICK n \in Nat : n = Len(goals)
  BY RowFacts
<1>4. /\ g \in GoalRows /\ g.who = Who /\ g.week = WeekOf(hour) /\ g.status = "active"
  <2>1. Who \in Range(Folk)
    BY <1>2, GoalsConstants DEF Who, GoalsTypes
  <2>2. text \in Library /\ WeekOf(hour) \in Nat
    BY <1>1, <1>2, RowFacts DEF GoalsTypes
  <2> QED BY <1>1, <2>1, <2>2 DEF Goal, GoalRows
<1>5. /\ goals' \in Seq(GoalRows) /\ Len(goals') = n + 1 /\ goals'[n + 1] = g
      /\ blamed' \in Seq(Nat) /\ Len(blamed') = n + 1 /\ blamed'[n + 1] = 0
      /\ \A j \in 1..n : goals'[j] = goals[j] /\ blamed'[j] = blamed[j]
  BY <1>1, <1>2, <1>3, <1>4 DEF GoalsTypes
<1>6. GoalsTypes'
  BY <1>1, <1>2, <1>5 DEF GoalsTypes
<1>7. BlameInv'
  BY <1>3, <1>5 DEF BlameInv, IsActive
<1>8. \A i \in 1..n : IsActive(i) /\ goals[i].who = Who => goals[i].week = WeekOf(hour)
  BY <1>2, <1>3, SameWeek DEF DrawInv
<1>9. WeekInv'
  <2>1. \A i \in 1..(n + 1) : goals'[i].week \in 1..WeekOf(hour)'
    BY SMTT(30), <1>2, <1>3, <1>4, <1>5, RowFacts, SameWeek DEF WeekInv
  <2>2. ASSUME NEW i \in 1..(n + 1), NEW j \in 1..(n + 1), goals'[i].who = goals'[j].who,
               IsActive(i)', IsActive(j)'
        PROVE  goals'[i].week = goals'[j].week
    <3>1. CASE i \in 1..n /\ j \in 1..n
      BY <1>3, <1>5, <2>2, <3>1, SameWeek DEF WeekInv, IsActive
    <3>2. CASE i \in 1..n /\ j = n + 1
      BY <1>4, <1>5, <1>8, <2>2, <3>2 DEF IsActive
    <3>3. CASE i = n + 1 /\ j \in 1..n
      BY <1>4, <1>5, <1>8, <2>2, <3>3 DEF IsActive
    <3> QED BY <1>3, <3>1, <3>2, <3>3
  <2> QED BY <1>5, <2>1, <2>2, SameWeek DEF WeekInv
<1>10. DrawInv'
  BY <1>2, <1>3, <1>4, <1>5, <1>8, SameWeek DEF DrawInv, IsActive, Who
<1> QED BY <1>2, <1>6, <1>7, <1>9, <1>10 DEF FailInv

\* The next person's turn, or a hook cut short.
LEMMA EndsKeep == ASSUME GoalsInv, NextOne \/ CutHook PROVE GoalsInv'
<1> USE DEF GoalsInv
<1>1. UNCHANGED <<hour, rested, goals, blamed>> /\ todo' = {} /\ closing' = <<>>
      /\ duty' \in {"none", "check"} /\ turnOf' \in 0..Len(Folk) /\ (duty' = "none") = (turnOf' = 0)
  BY GoalsConstants DEF NextOne, CutHook, GoalsTypes
<1>2. GoalsTypes'
  BY <1>1 DEF GoalsTypes
<1>3. WeekInv' /\ BlameInv'
  BY <1>1, SameWeek DEF WeekInv, BlameInv, IsActive
<1> QED BY <1>1, <1>2, <1>3 DEF FailInv, DrawInv

\* A goal is charged for once it is closed, and what a refresh has left to close or draw
\* is what its rows say (goals.py, refresh_weekly and settle).
THEOREM GoalsAreSettled == GoalsSpec => []GoalsInv
<1>1. GoalsInv /\ [GoalsNext]_goalVars => GoalsInv'
  <2> SUFFICES ASSUME GoalsInv, [GoalsNext]_goalVars PROVE GoalsInv'
    OBVIOUS
  <2>1. CASE UNCHANGED goalVars
    BY <2>1, SameWeek DEF goalVars, hook, GoalsInv, GoalsTypes, WeekInv, BlameInv, FailInv, DrawInv, IsActive,
                Who, Overdue
  <2> QED BY <2>1, LiveKeeps, NoticeKeeps, NightKeeps, ReadingKeeps, MarkDoneKeeps, FailKeeps,
             EffectsKeep, InsertKeeps, EndsKeep DEF GoalsNext
<1> QED BY <1>1, GoalsInvInit, PTL DEF GoalsSpec

\* Wherever a refresh was cut short and taken up again: nobody has goals of two weeks at
\* once, and a goal that was missed is charged once (goals.py:90, :120).
THEOREM GoalsOfOneWeekChargedOnce == GoalsSpec => []WeekSettledOnce
<1>1. GoalsInv => WeekSettledOnce
  <2> SUFFICES ASSUME GoalsInv PROVE WeekSettledOnce
    OBVIOUS
  <2>1. Rows = 1..Len(goals)
    BY RowFacts DEF GoalsInv
  <2> QED BY <2>1, SameWeek DEF GoalsInv, WeekInv, BlameInv, IsActive, WeekSettledOnce
<1> QED BY <1>1, GoalsAreSettled, PTL

\* Every variable of the goals keeps its type.
THEOREM GoalsTypeCorrect == GoalsSpec => []GoalsTypeOK
<1>1. GoalsInv => GoalsTypeOK
  <2> SUFFICES ASSUME GoalsInv PROVE GoalsTypeOK
    OBVIOUS
  <2>1. \A i \in 1..Len(goals) : goals[i].frustration \in Nat
                                 /\ goals[i].status \in {"active", "done", "abandoned"}
    BY RowFacts DEF GoalsInv, GoalRows
  <2> QED BY <2>1, RowFacts, SameWeek DEF GoalsInv, GoalsTypes, WeekInv, GoalsTypeOK
<1> QED BY <1>1, GoalsAreSettled, PTL
=============================================================================
