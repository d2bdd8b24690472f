---------------------------- MODULE SimClockProofs ----------------------------
(***************************************************************************)
(* Theorems about the clock: its types, the planned position, and, where    *)
(* nothing that is due waits for real time to pass (MaxLate = 0), that no   *)
(* tick runs twice and none inside a batch, and that ticks come in order.   *)
(***************************************************************************)
EXTENDS SimClock, FiniteSetTheorems, WellFoundedInduction, TLAPS

-----------------------------------------------------------------------------
(* The invariants.                                                          *)

\* An anchor lies in the past, and the pause it is in before it.
Past(a) ==
  /\ a.wall \in 0..wall /\ (a.paused # None => a.paused \in 0..a.wall)

PastInv ==
  /\ Past(anchor) /\ Past(saved)
  /\ \A p \in Procs : write[p] # NoWrite => Past(write[p])

\* The types, and that start-up only ever resumes a pause.
ClockTypes == TypeOK /\ PastInv /\ (main = "resume" => Paused)

\* Nothing else runs before the main loop does, and nothing in a dead process.
StartInv ==
  /\ main # "load" => up = "up"
  /\ ~Running => /\ queue = {} /\ work = NoWork /\ adj = "idle" /\ ~probing
                 /\ write["adj"] = NoWrite /\ write["probe"] = NoWrite
  /\ main \in {"plan", "exit", "drive"} => ~Paused
  /\ main = "exit" => NowSim >= plan.to

ClockInv == ClockTypes /\ StartInv

\* The batches signalled and not begun.
Signals == {i \in queue : i.kind = "batch"}
Pending == Signals \union work.batches

\* While nothing is late: a batch is begun in the unit of time it is signalled in, and
\* until then and until it is left the main loop waits at the top of its pass.
BatchInv ==
  /\ inBatch => main = "exit" \/ (main = "top" /\ write["main"] = NoWrite)
  /\ Pending # {} =>
       /\ main = "top" /\ write["main"] = NoWrite /\ ~inBatch
       /\ signalled /\ lastSeg = Segment(wall).id /\ ~Continuous(Segment(wall))
  /\ \A i \in Signals : i.tick <= CurrentTick
  /\ \A i, j \in Pending : i = j
  /\ Signals = {} \/ work.batches = {}
  /\ \A i \in work.batches : i.kind = "batch"
  /\ adj \in {"hooks", "exit"} => inBatch /\ main = "top"
  /\ adj = "idle" => work.batches = {}

\* Everything an anchor can come from holds all that has run.
Holds(a) == a.sim >= SimOfTick(ran)

QuietPauses ==
  /\ Paused => main \in {"load", "recover", "resume", "top"}
  /\ Pending # {} \/ adj = "hooks" => ~Paused
  /\ adj = "exit" /\ Paused => anchor.wall = anchor.paused

RanIsHeld ==
  /\ Holds(anchor) /\ Holds(saved) /\ \A p \in Procs : write[p] # NoWrite => Holds(write[p])

GoalIsNew == main \in {"sleep", "deliver"} => goal > ran

PinIsSaved ==
  /\ main = "sleep" /\ write["adj"] # NoWrite => ~GoalReached
  /\ main = "deliver" => /\ write["adj"] = NoWrite /\ anchor.sim = SimOfTick(goal)
                         /\ IF write["main"] # NoWrite THEN write["main"].sim = SimOfTick(goal)
                            ELSE saved.sim = SimOfTick(goal)

JumpIsSaved ==
  adj = "hooks" =>
    /\ Holds(anchor)
    /\ IF write["adj"] # NoWrite THEN Holds(write["adj"]) ELSE Holds(saved)

NoFault == fault = "none" /\ ~probing /\ write["probe"] = NoWrite

QuietInv ==
  faults = 0 =>
    /\ NoFault /\ QuietPauses /\ PinIsSaved /\ JumpIsSaved
    /\ settled => RanIsHeld /\ GoalIsNew

TickInv == ClockInv /\ BatchInv /\ QuietInv

\* A kernel that is not ended, on a day without batches: the main loop is never more than
\* one tick ahead of what has run.
SteadyInv ==
  /\ main \in {"load", "recover", "top", "aim", "sleep", "deliver"}
  /\ ~inBatch /\ Pending = {} /\ adj \notin {"hooks", "exit"}
  /\ main = "load" => /\ up = "down" /\ ran = 0
                      /\ saved.sim = 0 /\ saved.tick = 0 /\ saved.paused = None
  /\ main = "recover" => ~Paused /\ anchor.wall = wall
  /\ anchor.ratio <= TickLen
  /\ Paused => anchor.wall = anchor.paused
  /\ main \in {"recover", "top", "aim"} => CurrentTick <= ran
  /\ main \in {"sleep", "deliver"} => goal <= ran + 1 /\ NowSim < SimOfTick(goal + 1)
  /\ main = "sleep" /\ Paused /\ GoalReached => anchor.paused = wall \/ Spinning

-----------------------------------------------------------------------------
(* The planned position: sums over the units of a day, by induction.         *)

\* What holds at 0 and is handed on holds for every number.
LEMMA Induction ==
  ASSUME NEW S, 0 \in S, \A n \in Nat : n \in S => n + 1 \in S
  PROVE  Nat \subseteq S
<1> DEFINE T == {n \in Nat : n \notin S}
           R == {ss \in Nat \X Nat : ss[1] < ss[2]}
<1>1. IsWellFoundedOn(R, Nat)
  BY NatLessThanWellFounded DEF OpToRel
<1>2. T = {}
  <2> SUFFICES ASSUME T # {} PROVE FALSE
    OBVIOUS
  <2>1. PICK x \in T : \A y \in T : <<y, x>> \notin R
    <3>1. T \subseteq Nat
      OBVIOUS
    <3> HIDE DEF T, R
    <3> QED BY <1>1, <3>1, WFMin
  <2>2. x # 0 /\ x \in Nat
    OBVIOUS
  <2>3. x - 1 \in Nat /\ <<x - 1, x>> \in R
    BY <2>2
  <2>4. x - 1 \in S
    BY <2>1, <2>3
  <2> QED BY <2>2, <2>3, <2>4
<1> QED BY <1>2

\* The constants, as far as the proofs need them.
LEMMA ClockConstants ==
  /\ TickLen \in Nat /\ TickLen > 0 /\ MaxRatio \in Nat /\ MaxRatio > 0 /\ LongPause \in Nat
  /\ DriftLimit \in Nat /\ MaxWall \in Nat /\ MaxLate \in Nat /\ MaxFaults \in Nat
  /\ MaxCrashes \in Nat /\ FaultKinds \subseteq {"db", "other"}
BY ClockAssumption

\* Every unit of time lies in a segment of the speed table.
LEMMA SegmentInDay == ASSUME NEW w \in Nat PROVE \E u \in DOMAIN Day : Segment(w) = Day[u]
<1>1. PICK n : n = Cardinality(DOMAIN Day)
  OBVIOUS
<1>2. n \in Nat /\ DOMAIN Day = 0..(n - 1) /\ 0 \in DOMAIN Day
  BY <1>1, DayAssumption, FS_CardinalityType
<1>3. w % n \in DOMAIN Day
  BY <1>2
<1> QED BY <1>1, <1>3 DEF Segment

\* What the table says of it.
LEMMA SegmentFacts ==
  ASSUME NEW w \in Nat
  PROVE  /\ Segment(w).id \in Nat
         /\ Continuous(Segment(w)) => Segment(w).ratio \in Nat \ {0}
         /\ ~Continuous(Segment(w)) =>
              Segment(w).hours \in Nat \ {0} /\ Segment(w).minutes \in Nat \ {0}
BY SegmentInDay, DayAssumption DEF Continuous

LEMMA RateFacts == \A w \in Nat : PlannedRate(w) \in Int
<1> SUFFICES ASSUME NEW w \in Nat PROVE PlannedRate(w) \in Int
  OBVIOUS
<1>1. CASE Continuous(Segment(w))
  BY <1>1, SegmentFacts DEF PlannedRate
<1>2. CASE ~Continuous(Segment(w))
  <2>1. PICK h \in Nat, m \in Nat \ {0} : h = Segment(w).hours /\ m = Segment(w).minutes
    BY <1>2, SegmentFacts
  <2>2. (3600 * h) \div m \in Int
    BY <2>1
  <2> QED BY <1>2, <2>1, <2>2 DEF PlannedRate
<1> QED BY <1>1, <1>2

\* The sums up to n, as a finite function.
Sums(n) ==
  {g \in [0..n -> Int] : g[0] = 0 /\ \A i \in 1..n : g[i] = g[i - 1] + PlannedRate(i - 1)}

\* Two of them agree as far as both go.
LEMMA SumsAgree ==
  ASSUME NEW m \in Nat, NEW n \in Nat, m <= n, NEW g \in Sums(m), NEW h \in Sums(n)
  PROVE  g[m] = h[m]
<1> DEFINE T == {i \in Nat : i \in 0..m => g[i] = h[i]}
<1>1. 0 \in T
  BY DEF Sums
<1>2. ASSUME NEW i \in Nat, i \in T PROVE i + 1 \in T
  <2>1. CASE i + 1 \in 1..m
    <3>1. g[i + 1] = g[i] + PlannedRate(i) /\ h[i + 1] = h[i] + PlannedRate(i)
      BY <2>1 DEF Sums
    <3> QED BY <1>2, <2>1, <3>1
  <2> QED BY <2>1
<1> HIDE DEF T
<1>3. Nat \subseteq T
  BY <1>1, <1>2, Induction
<1> QED BY <1>3 DEF T

\* There is one for every number.
LEMMA SumsExist == \A n \in Nat : Sums(n) # {}
<1> DEFINE T == {n \in Nat : Sums(n) # {}}
<1>1. 0 \in T
  <2>1. [i \in 0..0 |-> 0] \in Sums(0)
    BY DEF Sums
  <2> QED BY <2>1
<1>2. ASSUME NEW n \in Nat, n \in T PROVE n + 1 \in T
  <2>1. PICK g : g \in Sums(n)
    BY <1>2
  <2> DEFINE h == [i \in 0..(n + 1) |-> IF i = n + 1 THEN g[n] + PlannedRate(n) ELSE g[i]]
  <2>2. g \in [0..n -> Int] /\ g[0] = 0 /\ \A i \in 1..n : g[i] = g[i - 1] + PlannedRate(i - 1)
    BY <2>1 DEF Sums
  <2>3. h \in [0..(n + 1) -> Int]
    BY <2>2, RateFacts
  <2>4. h[0] = 0
    BY <2>2
  <2>5. ASSUME NEW i \in 1..(n + 1) PROVE h[i] = h[i - 1] + PlannedRate(i - 1)
    <3>1. CASE i = n + 1
      BY <3>1
    <3>2. CASE i # n + 1
      BY <2>2, <3>2
    <3> QED BY <3>1, <3>2
  <2>6. h \in Sums(n + 1)
    <3> HIDE DEF h
    <3> QED BY <2>3, <2>4, <2>5 DEF Sums
  <2> QED BY <2>6
<1> HIDE DEF T
<1>3. Nat \subseteq T
  BY <1>1, <1>2, Induction
<1> QED BY <1>3 DEF T

\* What is gained follows its recursion, and is a number.
LEMMA GainedFacts ==
  /\ Gained \in [Nat -> Int] /\ Gained[0] = 0
  /\ \A n \in Nat : Gained[n + 1] = Gained[n] + PlannedRate(n)
<1> DEFINE s(n) == CHOOSE g : g \in Sums(n)
           G == [n \in Nat |-> s(n)[n]]
<1>1. \A n \in Nat : s(n) \in Sums(n)
  BY SumsExist
<1> HIDE DEF s
<1>2. G[0] = 0 /\ G \in [Nat -> Int]
  BY <1>1 DEF Sums
<1>3. ASSUME NEW n \in Nat, n # 0 PROVE G[n] = G[n - 1] + PlannedRate(n - 1)
  <2>1. s(n)[n] = s(n)[n - 1] + PlannedRate(n - 1)
    BY <1>1, <1>3 DEF Sums
  <2>2. n - 1 \in Nat /\ n - 1 <= n /\ s(n - 1) \in Sums(n - 1) /\ s(n) \in Sums(n)
    BY <1>1, <1>3
  <2>3. s(n - 1)[n - 1] = s(n)[n - 1]
    BY <2>2, SumsAgree
  <2> QED BY <2>1, <2>2, <2>3
<1>4. G = [n \in Nat |-> IF n = 0 THEN 0 ELSE G[n - 1] + PlannedRate(n - 1)]
  <2> HIDE DEF G
  <2>1. \A n \in Nat : G[n] = IF n = 0 THEN 0 ELSE G[n - 1] + PlannedRate(n - 1)
    BY <1>2, <1>3
  <2> QED BY <1>2, <2>1
<1> HIDE DEF G
<1>5. Gained = [n \in Nat |-> IF n = 0 THEN 0 ELSE Gained[n - 1] + PlannedRate(n - 1)]
  BY <1>4, Zenon DEF Gained
<1>6. Gained[0] = 0 /\ \A n \in Nat : Gained[n + 1] = Gained[n] + PlannedRate(n)
  BY <1>5
<1> DEFINE T == {i \in Nat : Gained[i] \in Int}
<1>7. 0 \in T
  BY <1>6
<1>8. ASSUME NEW i \in Nat, i \in T PROVE i + 1 \in T
  BY <1>6, <1>8, RateFacts
<1> HIDE DEF T
<1>9. Nat \subseteq T
  BY <1>7, <1>8, Induction
<1>10. \A i \in Nat : Gained[i] \in Int
  BY <1>9 DEF T
<1> QED BY <1>5, <1>6, <1>10


-----------------------------------------------------------------------------
(* Conversions.                                                             *)

\* The tick of a time is the last one that begins no later.
LEMMA TickFacts ==
  ASSUME NEW s \in Int
  PROVE  /\ TickOf(s) \in Int /\ SimOfTick(TickOf(s)) <= s /\ s < SimOfTick(TickOf(s) + 1)
<1>1. PICK l \in Nat \ {0} : l = TickLen
  BY ClockConstants
<1>2. PICK q \in Int : q = s \div l
  BY <1>1
<1>3. q * l <= s /\ s < (q + 1) * l
  BY <1>1, <1>2
<1> QED BY <1>1, <1>2, <1>3 DEF TickOf, SimOfTick

\* Ticks are in the order of their times.
LEMMA TickOrder ==
  ASSUME NEW m \in Int, NEW n \in Int
  PROVE  /\ SimOfTick(n) \in Int /\ (m < n <=> SimOfTick(m) < SimOfTick(n))
         /\ (m <= n <=> SimOfTick(m) <= SimOfTick(n))
<1>1. PICK l \in Nat \ {0} : l = TickLen
  BY ClockConstants
<1>2. m * l \in Int /\ n * l \in Int /\ (m < n <=> m * l < n * l) /\ (m <= n <=> m * l <= n * l)
  BY <1>1
<1> QED BY <1>1, <1>2 DEF SimOfTick

LEMMA LaterTick == ASSUME NEW s \in Int, NEW t \in Int, s <= t PROVE TickOf(s) <= TickOf(t)
<1>1. /\ TickOf(s) \in Int /\ SimOfTick(TickOf(s)) <= s /\ TickOf(t) \in Int
      /\ t < SimOfTick(TickOf(t) + 1)
  BY TickFacts
<1>2. PICK m \in Int, n \in Int : m = TickOf(s) /\ n = TickOf(t)
  BY <1>1
<1>3. SimOfTick(m) \in Int /\ SimOfTick(n + 1) \in Int
  BY TickOrder, <1>2
<1>4. SimOfTick(m) < SimOfTick(n + 1)
  BY <1>1, <1>2, <1>3
<1>5. m < n + 1
  BY <1>4, TickOrder
<1> QED BY <1>2, <1>5

LEMMA RunningAt ==
  ASSUME NEW a, NEW w, a.paused = None PROVE SimAt(a, w) = a.sim + (w - a.wall) * a.ratio
<1>1. PICK x : x = IF a.paused # None THEN a.paused ELSE w
  OBVIOUS
<1>2. x = w
  BY <1>1
<1>3. SimAt(a, w) = a.sim + (x - a.wall) * a.ratio
  BY <1>1, Zenon DEF SimAt
<1> QED BY <1>2, <1>3, Zenon

\* What an anchor makes of a time: it flows on from it, or stands where it was paused.
LEMMA SimAtFacts ==
  ASSUME NEW w \in Nat, NEW a, a.sim \in Int, a.ratio \in Nat, a.wall \in 0..w,
         a.paused # None => a.paused \in 0..a.wall
  PROVE  /\ SimAt(a, w) \in Int
         /\ a.paused = None => a.sim <= SimAt(a, w)
         /\ a.paused # None => SimAt(a, w) <= a.sim
         /\ a.paused = a.wall \/ (a.wall = w /\ a.paused = None) => SimAt(a, w) = a.sim
<1>1. PICK s \in Int, r \in Nat, b \in 0..w : s = a.sim /\ r = a.ratio /\ b = a.wall
  OBVIOUS
<1>2. CASE a.paused = None
  <2>1. (w - b) * r \in Nat /\ (b = w => (w - b) * r = 0)
    BY <1>1
  <2>2. SimAt(a, w) = s + (w - b) * r /\ a.paused # a.wall
    BY <1>1, <1>2 DEF SimAt, None
  <2> QED BY <1>1, <1>2, <2>1, <2>2
<1>3. CASE a.paused # None
  <2>1. PICK p \in 0..b : p = a.paused
    BY <1>1, <1>3
  <2>2. (b - p) * r \in Nat /\ (p - b) * r = 0 - (b - p) * r /\ (p = b => (p - b) * r = 0)
    BY <1>1, <2>1
  <2>3. SimAt(a, w) = s + (p - b) * r
    BY <1>1, <1>3, <2>1 DEF SimAt
  <2> QED BY <1>1, <1>3, <2>1, <2>2, <2>3
<1> QED BY <1>2, <1>3

-----------------------------------------------------------------------------
(* Changes of the anchor.                                                   *)

\* What the clock says lies in its types.
LEMMA NowFacts ==
  ASSUME ClockTypes
  PROVE  /\ wall \in Nat /\ NowSim \in Int /\ CurrentTick \in Int /\ anchor \in Anchor
         /\ anchor.sim \in Int /\ anchor.ratio \in Nat /\ anchor.wall \in 0..wall
         /\ (Paused => anchor.paused \in 0..anchor.wall)
         /\ (~Paused => anchor.sim <= NowSim) /\ (Paused => NowSim <= anchor.sim)
         /\ (Paused /\ anchor.wall = anchor.paused => NowSim = anchor.sim)
<1>1. /\ wall \in Nat /\ anchor \in Anchor /\ anchor.wall \in 0..wall
      /\ (anchor.paused # None => anchor.paused \in 0..anchor.wall)
  BY ClockConstants DEF ClockTypes, TypeOK, PastInv, Past
<1>2. anchor.sim \in Int /\ anchor.ratio \in Nat
  BY <1>1 DEF Anchor
<1>3. /\ NowSim \in Int
      /\ (~Paused => anchor.sim <= NowSim) /\ (Paused => NowSim <= anchor.sim)
      /\ (Paused /\ anchor.wall = anchor.paused => NowSim = anchor.sim)
  BY <1>1, <1>2, SimAtFacts DEF NowSim, Paused
<1>4. CurrentTick \in Int
  BY <1>3, TickFacts DEF CurrentTick
<1> QED BY <1>1, <1>2, <1>3, <1>4 DEF Paused

LEMMA NowFactsNext == ASSUME ClockTypes' PROVE NowSim' \in Int /\ CurrentTick' \in Int
<1>1. /\ wall' \in Nat /\ anchor' \in Anchor /\ anchor'.wall \in 0..wall'
      /\ (anchor'.paused # None => anchor'.paused \in 0..anchor'.wall)
  BY ClockConstants DEF ClockTypes, TypeOK, PastInv, Past
<1>2. PICK a : a = anchor'
  OBVIOUS
<1>3. PICK w \in Nat : w = wall'
  BY <1>1
<1>4. a.sim \in Int /\ a.ratio \in Nat /\ a.wall \in 0..w
      /\ (a.paused # None => a.paused \in 0..a.wall)
  BY <1>1, <1>2, <1>3 DEF Anchor
<1>5. SimAt(a, w) \in Int /\ SimAt(a, w) = NowSim'
  BY <1>2, <1>3, <1>4, SimAtFacts DEF NowSim
<1> QED BY <1>5, TickFacts DEF CurrentTick

\* A change of the anchor by p, and the write p then waits for.
Written(p) ==
  /\ anchor' \in Anchor /\ Past(anchor)' /\ write' \in [Procs -> Row]
  /\ write'[p] # NoWrite /\ write'[p].sim = anchor'.sim /\ Past(write[p])'
  /\ \A q \in Procs \ {p} : write'[q] = write[q]

LEMMA PersistFacts ==
  ASSUME ClockTypes, wall' = wall, NEW p \in Procs, NEW a \in Anchor, Past(a), Persist(p, a)
  PROVE  anchor' = a /\ Written(p)
<1>1. /\ a.sim \in Int /\ a.ratio \in Nat /\ a.wall \in 0..wall /\ a.paused \in Int
      /\ (a.paused # None => a.paused \in 0..a.wall) /\ wall \in Nat
  BY ClockConstants DEF Anchor, Past, ClockTypes, TypeOK
<1>2. TickOf(SimAt(a, wall)) \in Int
  BY <1>1, SimAtFacts, TickFacts
<1>3. PICK row : row = [sim |-> a.sim, wall |-> a.wall, ratio |-> a.ratio, paused |-> a.paused,
                        tick |-> TickOf(SimAt(a, wall))]
  OBVIOUS
<1>4. row \in Row /\ row.sim = a.sim /\ row.wall = a.wall /\ row.paused = a.paused
  BY <1>1, <1>2, <1>3 DEF Row
<1>5. row # NoWrite
  <2>1. NoWrite.wall = None
    BY DEF NoWrite
  <2> QED BY <1>1, <1>4, <2>1 DEF None
<1>6. anchor' = a /\ write' = [write EXCEPT ![p] = row] /\ write \in [Procs -> Row]
  BY <1>3 DEF Persist, ClockTypes, TypeOK
<1>7. write' \in [Procs -> Row] /\ write'[p] = row /\ \A q \in Procs \ {p} : write'[q] = write[q]
  BY <1>4, <1>6
<1> QED BY <1>1, <1>4, <1>5, <1>6, <1>7 DEF Written, Past

\* A new ratio: the time goes on from where it is.
LEMMA RatioFacts ==
  ASSUME ClockTypes, wall' = wall, NEW p \in Procs, NEW r \in Nat, SetRatio(p, r)
  PROVE  /\ Written(p) /\ anchor'.sim = NowSim /\ NowSim' = NowSim
         /\ anchor'.paused = anchor.paused /\ anchor'.ratio = r
         /\ anchor'.wall = (IF Paused THEN anchor.paused ELSE wall)
<1>1. PICK a : a = [anchor EXCEPT !.sim = NowSim, !.ratio = r,
                                  !.wall = IF Paused THEN anchor.paused ELSE wall]
  OBVIOUS
<1>2. /\ a \in Anchor /\ a.sim = NowSim /\ a.ratio = r /\ a.paused = anchor.paused
      /\ a.wall = (IF Paused THEN anchor.paused ELSE wall)
  <2>1. PICK s \in Int, w \in Int : s = NowSim /\ w = IF Paused THEN anchor.paused ELSE wall
    BY NowFacts
  <2>2. a = [anchor EXCEPT !.sim = s, !.ratio = r, !.wall = w] /\ anchor \in Anchor
    BY <1>1, <2>1, NowFacts
  <2>3. a \in Anchor /\ a.sim = s /\ a.ratio = r /\ a.wall = w /\ a.paused = anchor.paused
    BY <2>2 DEF Anchor
  <2> QED BY <2>1, <2>3
<1>3. Past(a)
  BY <1>2, NowFacts DEF Past, Paused
<1>4. anchor' = a /\ Written(p)
  BY <1>1, <1>2, <1>3, PersistFacts DEF SetRatio
<1>5. SimAt(a, wall) = NowSim
  BY <1>2, <1>3, NowFacts, SimAtFacts DEF Past, Paused
<1> QED BY <1>2, <1>4, <1>5 DEF NowSim

\* A pause holds the time where it is.
LEMMA PauseFacts ==
  ASSUME ClockTypes, wall' = wall, NEW p \in Procs, Pause(p)
  PROVE  /\ Paused' /\ NowSim' = NowSim
         /\ Paused => UNCHANGED <<anchor, write>>
         /\ ~Paused => /\ Written(p) /\ anchor'.sim = NowSim
                       /\ anchor'.wall = wall /\ anchor'.paused = wall
<1>1. CASE Paused
  BY <1>1 DEF Pause, Paused, NowSim
<1>2. CASE ~Paused
  <2>1. PICK a : a = [anchor EXCEPT !.sim = NowSim, !.wall = wall, !.paused = wall]
    OBVIOUS
  <2>2. a \in Anchor /\ a.sim = NowSim /\ a.wall = wall /\ a.paused = wall /\ a.ratio \in Nat
    <3>1. PICK s \in Int, w \in Int : s = NowSim /\ w = wall
      BY NowFacts
    <3>2. a = [anchor EXCEPT !.sim = s, !.wall = w, !.paused = w] /\ anchor \in Anchor
      BY <2>1, <3>1, NowFacts
    <3>3. a \in Anchor /\ a.sim = s /\ a.wall = w /\ a.paused = w /\ a.ratio \in Nat
      BY <3>2 DEF Anchor
    <3> QED BY <3>1, <3>3
  <2>3. Past(a) /\ a.paused # None
    BY <2>2, NowFacts DEF Past, None
  <2>4. anchor' = a /\ Written(p)
    BY <1>2, <2>1, <2>2, <2>3, PersistFacts DEF Pause
  <2>5. SimAt(a, wall) = NowSim
    BY <2>2, <2>3, NowFacts, SimAtFacts DEF Past
  <2> QED BY <1>2, <2>2, <2>3, <2>4, <2>5 DEF NowSim, Paused
<1> QED BY <1>1, <1>2

\* The end of a pause: the time goes on, never from an earlier point.
LEMMA ResumeFacts ==
  ASSUME ClockTypes, wall' = wall, NEW p \in Procs, Paused, Resume(p)
  PROVE  /\ Written(p) /\ ~Paused' /\ anchor'.sim = anchor.sim /\ anchor'.wall = wall
         /\ anchor'.ratio = RatioOr(anchor.ratio) /\ NowSim' = anchor.sim /\ NowSim <= NowSim'
<1>1. PICK r \in Nat : r = RatioOr(anchor.ratio)
  BY NowFacts, SegmentFacts DEF RatioOr
<1>2. PICK a : a = [anchor EXCEPT !.wall = wall, !.paused = None, !.ratio = r]
  OBVIOUS
<1>3. /\ a \in Anchor /\ a.sim = anchor.sim /\ a.wall = wall /\ a.paused = None /\ a.ratio = r
  <2>1. wall \in Int /\ anchor \in Anchor /\ None \in Int
    BY NowFacts DEF None
  <2> QED BY <1>2, <2>1 DEF Anchor
<1>4. Past(a)
  BY <1>3, NowFacts DEF Past
<1>5. anchor' = a /\ Written(p)
  BY <1>1, <1>2, <1>3, <1>4, PersistFacts DEF Resume
<1>6. SimAt(a, wall) = anchor.sim
  BY <1>3, NowFacts, SimAtFacts
<1>7. NowSim' = anchor.sim
  BY <1>5, <1>6 DEF NowSim
<1> QED BY <1>1, <1>3, <1>5, <1>7, NowFacts DEF Paused

\* A jump, and the end of a batch.
LEMMA JumpFacts ==
  ASSUME ClockTypes, wall' = wall, NEW p \in Procs, NEW s \in Int,
         Persist(p, [anchor EXCEPT !.sim = s, !.wall = wall])
  PROVE  /\ Written(p) /\ anchor'.sim = s /\ anchor'.wall = wall
         /\ anchor'.paused = anchor.paused /\ anchor'.ratio = anchor.ratio /\ Paused' = Paused
         /\ NowSim' <= s /\ (~Paused => NowSim' = s)
         /\ (Paused /\ anchor.paused = wall => NowSim' = s)
<1>1. PICK a : a = [anchor EXCEPT !.sim = s, !.wall = wall]
  OBVIOUS
<1>2. /\ a \in Anchor /\ a.sim = s /\ a.wall = wall /\ a.paused = anchor.paused
      /\ a.ratio = anchor.ratio
  <2>1. wall \in Int /\ anchor \in Anchor
    BY NowFacts
  <2> QED BY <1>1, <2>1 DEF Anchor
<1>3. Past(a)
  BY <1>2, NowFacts DEF Past, Paused
<1>4. anchor' = a /\ Written(p)
  BY <1>1, <1>2, <1>3, PersistFacts
<1>5. /\ SimAt(a, wall) <= s /\ (~Paused => SimAt(a, wall) = s)
      /\ (Paused /\ anchor.paused = wall => SimAt(a, wall) = s)
  BY <1>2, <1>3, NowFacts, SimAtFacts DEF Past, Paused
<1> QED BY <1>2, <1>4, <1>5 DEF NowSim, Paused

LEMMA EnterFacts ==
  ASSUME ClockTypes, wall' = wall, NEW p \in Procs, NEW h \in Int, EnterBatch(p, h)
  PROVE  /\ Written(p) /\ anchor'.sim = NowSim + h /\ inBatch' = TRUE /\ Paused' = Paused
         /\ anchor'.paused = anchor.paused
         /\ NowSim' <= NowSim + h /\ (~Paused => NowSim' = NowSim + h)
<1>1. PICK s \in Int : s = NowSim + h
  BY NowFacts
<1>2. Persist(p, [anchor EXCEPT !.sim = s, !.wall = wall]) /\ inBatch' = TRUE
  BY <1>1 DEF EnterBatch
<1> QED BY <1>1, <1>2, JumpFacts

LEMMA ExitFacts ==
  ASSUME ClockTypes, wall' = wall, NEW p \in Procs, ExitBatch(p)
  PROVE  /\ Written(p) /\ anchor'.sim = NowSim /\ inBatch' = FALSE /\ Paused' = Paused
         /\ anchor'.wall = wall /\ anchor'.paused = anchor.paused
         /\ NowSim' <= NowSim /\ (~Paused => NowSim' = NowSim)
<1>1. PICK s \in Int : s = NowSim
  BY NowFacts
<1>2. Persist(p, [anchor EXCEPT !.sim = s, !.wall = wall]) /\ inBatch' = FALSE
  BY <1>1 DEF ExitBatch
<1> QED BY <1>1, <1>2, JumpFacts

\* Real time that passes moves the time on, but not in a pause.
LEMMA FlowFacts ==
  ASSUME ClockTypes, wall' = wall + 1, anchor' = anchor
  PROVE  /\ Paused' = Paused /\ NowSim <= NowSim' /\ (Paused => NowSim' = NowSim)
         /\ ~Paused => NowSim' = NowSim + anchor.ratio
<1>1. CASE Paused
  BY <1>1, NowFacts DEF NowSim, SimAt, Paused
<1>2. CASE ~Paused
  <2>1. PICK s \in Int, r \in Nat, b \in 0..wall : s = anchor.sim /\ r = anchor.ratio /\ b = anchor.wall
    BY NowFacts
  <2>2. NowSim = s + (wall - b) * r /\ NowSim' = s + ((wall + 1) - b) * r
    <3>1. anchor.paused = None /\ anchor'.paused = None /\ wall' = wall + 1
      BY <1>2 DEF Paused
    <3>2. NowSim = anchor.sim + (wall - anchor.wall) * anchor.ratio
      BY <3>1 DEF NowSim, SimAt
    <3>3. NowSim' = SimAt(anchor, wall + 1)
      BY <3>1 DEF NowSim
    <3>4. SimAt(anchor, wall + 1) = anchor.sim + ((wall + 1) - anchor.wall) * anchor.ratio
      BY <3>1, RunningAt, Zenon
    <3> QED BY <2>1, <3>2, <3>3, <3>4
  <2>3. \A x \in Nat : ((x + 1) - b) * r = (x - b) * r + r /\ (x - b) * r \in Int
    BY <2>1
  <2>4. wall \in Nat /\ Paused' = Paused
    BY NowFacts DEF Paused
  <2>5. ((wall + 1) - b) * r = (wall - b) * r + r /\ (wall - b) * r \in Int
    BY <2>3, <2>4
  <2>6. NowSim' = NowSim + r /\ NowSim <= NowSim'
    BY <2>1, <2>2, <2>5
  <2> QED BY <1>2, <2>1, <2>4, <2>6
<1> QED BY <1>1, <1>2

-----------------------------------------------------------------------------
(* The types.                                                               *)

LEMMA WrittenPast ==
  ASSUME ClockTypes, wall' = wall, saved' = saved, NEW p \in Procs, Written(p)
  PROVE  PastInv' /\ anchor' \in Anchor /\ write' \in [Procs -> Row] /\ saved' \in Row
<1>1. ASSUME NEW q \in Procs, write'[q] # NoWrite PROVE Past(write[q])'
  <2>1. CASE q = p
    BY <2>1 DEF Written
  <2>2. CASE q # p
    BY <1>1, <2>2 DEF Written, ClockTypes, PastInv, Past
  <2> QED BY <2>1, <2>2
<1> QED BY <1>1 DEF Written, ClockTypes, PastInv, Past, TypeOK

\* The tick of an anchor that was just set.
LEMMA WrittenTick ==
  ASSUME ClockTypes, wall' = wall, NEW p \in Procs, Written(p)
  PROVE  TickOf(SimAt(anchor', wall)) \in Int /\ SimAt(anchor', wall) = NowSim'
<1>1. PICK a : a = anchor'
  OBVIOUS
<1>2. /\ a.sim \in Int /\ a.ratio \in Nat /\ a.wall \in 0..wall
      /\ (a.paused # None => a.paused \in 0..a.wall) /\ wall \in Nat
  BY <1>1, NowFacts DEF Written, Past, Anchor
<1>3. SimAt(a, wall) \in Int
  BY <1>2, SimAtFacts
<1> QED BY <1>1, <1>3, TickFacts DEF NowSim

LEMMA UnwrittenPast ==
  ASSUME ClockTypes, wall' = wall, UNCHANGED <<anchor, saved, write>>
  PROVE  PastInv' /\ anchor' \in Anchor /\ write' \in [Procs -> Row] /\ saved' \in Row
BY DEF ClockTypes, PastInv, Past, TypeOK

LEMMA Coroutines == "main" \in Procs /\ "adj" \in Procs /\ "probe" \in Procs
BY DEF Procs

\* What the table gives in a pause, and what is planned.
LEMMA PlanFacts ==
  ASSUME ClockTypes
  PROVE  /\ Segment(wall).id \in Nat
         /\ Continuous(Segment(wall)) => Segment(wall).ratio \in Nat
         /\ ~Continuous(Segment(wall)) => Segment(wall).hours \in Nat
         /\ RatioOr(anchor.ratio) \in Nat /\ RatioOr(saved.ratio) \in Nat
         /\ Paused => PlannedSim \in Int
<1>1. saved.ratio \in Nat /\ wall \in Nat
  BY NowFacts DEF ClockTypes, TypeOK, Row
<1>2. ASSUME Paused PROVE PlannedSim \in Int
  <2>1. Gained[wall] \in Int /\ Gained[anchor.paused] \in Int
    BY <1>1, <1>2, NowFacts, GainedFacts
  <2> QED BY <2>1, NowFacts DEF PlannedSim, PlannedGain
<1> QED BY <1>1, <1>2, NowFacts, SegmentFacts DEF RatioOr

LEMMA LoadTypes == ASSUME ClockTypes, Load PROVE ClockTypes'
<1>1. wall' = wall /\ saved' = saved /\ UNCHANGED <<timeVars, inBatch, goal, plan, lastSeg, signalled,
        adjVars, probeVars, historyVars, faults, crashes>>
  BY DEF Load, timeVars
<1>2. PICK row : row = [sim |-> saved.sim, wall |-> saved.wall, ratio |-> saved.ratio,
                        paused |-> saved.paused]
  OBVIOUS
<1>3. /\ saved \in Row /\ Past(saved) /\ wall \in Nat
      /\ row \in Anchor /\ row.sim = saved.sim /\ row.wall = saved.wall
      /\ row.ratio = saved.ratio /\ row.paused = saved.paused
  BY <1>2, NowFacts DEF ClockTypes, PastInv, TypeOK, Row, Anchor
<1>4. PastInv' /\ anchor' \in Anchor /\ write' \in [Procs -> Row] /\ saved' \in Row
  <2>1. CASE saved.tick = 0
    <3>1. PICK a : a = [row EXCEPT !.wall = wall, !.ratio = RatioOr(row.ratio)]
      OBVIOUS
    <3>2. a \in Anchor /\ a.wall = wall /\ a.paused = row.paused
      <4>1. RatioOr(row.ratio) \in Nat /\ wall \in Int
        BY <1>3, PlanFacts
      <4> QED BY <1>3, <3>1, <4>1 DEF Anchor
    <3>3. Past(a)
      BY <1>3, <3>2 DEF Past
    <3>4. Persist("main", a)
      BY <1>2, <2>1, <3>1 DEF Load
    <3> QED BY <1>1, <3>2, <3>3, <3>4, PersistFacts, WrittenPast, Coroutines
  <2>2. CASE saved.tick # 0
    <3>1. anchor' = row /\ write' = write
      BY <1>2, <2>2 DEF Load
    <3> QED BY <1>1, <1>3, <3>1 DEF ClockTypes, PastInv, Past, TypeOK
  <2> QED BY <2>1, <2>2
<1>5. main' = "recover" /\ up' = "up"
  BY DEF Load
<1> QED BY <1>1, <1>4, <1>5 DEF ClockTypes, TypeOK, timeVars, adjVars, probeVars, historyVars

LEMMA StartTypes ==
  ASSUME ClockTypes, Recover \/ RecoverResume \/ BeginCatchup \/ ExitCatchupBatch \/ FinishCatchup
  PROVE  ClockTypes'
<1>1. /\ UNCHANGED <<timeVars, saved, goal, lastSeg, signalled, adjVars, probeVars, entered, envVars>>
      /\ wall' = wall
  BY DEF Recover, RecoverResume, BeginCatchup, ExitCatchupBatch, FinishCatchup, historyVars, timeVars
<1>2. /\ main' \in {"top", "resume", "plan", "exit", "drive"}
      /\ settled' \in BOOLEAN /\ audited' \in BOOLEAN /\ inBatch' \in BOOLEAN
  BY DEF Recover, RecoverResume, BeginCatchup, ExitCatchupBatch, FinishCatchup, historyVars,
         ExitBatch, EnterBatch, ClockTypes, TypeOK
<1>3. /\ PastInv' /\ anchor' \in Anchor /\ write' \in [Procs -> Row] /\ saved' \in Row
      /\ plan' \in [downtime : Int, to : Int] /\ ran' \in Int /\ owed' \in Int
  <2>0. plan \in [downtime : Int, to : Int] /\ ran \in Int /\ owed \in Int /\ saved' = saved
    BY <1>1 DEF ClockTypes, TypeOK
  <2>1. CASE Recover
    <3>1. UNCHANGED <<plan, ran, owed>> /\ (UNCHANGED <<anchor, write>> \/ Pause("main"))
      BY <2>1 DEF Recover, historyVars
    <3>2. UNCHANGED <<anchor, write>> \/ Written("main")
      BY <1>1, <3>1, PauseFacts, Coroutines
    <3> QED BY <1>1, <2>0, <3>1, <3>2, WrittenPast, UnwrittenPast, Coroutines
  <2>2. CASE RecoverResume
    <3>1. Paused /\ Resume("main") /\ ran' = ran /\ owed' = PlannedSim
          /\ plan' = [downtime |-> wall - anchor.paused, to |-> PlannedSim]
      BY <2>2 DEF RecoverResume, ClockTypes
    <3>2. Written("main")
      BY <1>1, <3>1, ResumeFacts, Coroutines
    <3>3. PlannedSim \in Int /\ wall - anchor.paused \in Int
      BY <3>1, PlanFacts, NowFacts
    <3> QED BY <1>1, <2>0, <3>1, <3>2, <3>3, WrittenPast, Coroutines
  <2>3. CASE BeginCatchup
    <3>1. UNCHANGED <<plan, owed>>
      BY <2>3 DEF BeginCatchup
    <3>2. CASE plan.downtime < LongPause
      <4>1. PICK r \in Nat : r = IF 2 * anchor.ratio < MaxRatio THEN 2 * anchor.ratio ELSE MaxRatio
        BY NowFacts, ClockConstants
      <4>2. SetRatio("main", r) /\ ran' = ran
        BY <2>3, <3>2, <4>1 DEF BeginCatchup
      <4> QED BY <1>1, <2>0, <3>1, <4>2, RatioFacts, WrittenPast, Coroutines
    <3>3. CASE ~(plan.downtime < LongPause)
      <4>1. PICK h \in Int : h = IF plan.to > NowSim THEN plan.to - NowSim ELSE 0
        BY <2>0, NowFacts
      <4>2. EnterBatch("main", h) /\ ran' = TickOf(SimAt(anchor', wall))
        BY <2>3, <3>3, <4>1 DEF BeginCatchup
      <4>3. Written("main")
        BY <1>1, <4>2, EnterFacts, Coroutines
      <4>4. ran' \in Int
        BY <1>1, <4>2, <4>3, WrittenTick, Coroutines
      <4> QED BY <1>1, <2>0, <3>1, <4>3, <4>4, WrittenPast, Coroutines
    <3> QED BY <3>2, <3>3
  <2>4. CASE ExitCatchupBatch
    <3>1. UNCHANGED <<plan, ran, owed>> /\ ExitBatch("main")
      BY <2>4 DEF ExitCatchupBatch, historyVars
    <3> QED BY <1>1, <2>0, <3>1, ExitFacts, WrittenPast, Coroutines
  <2>5. CASE FinishCatchup
    <3>1. UNCHANGED <<plan, ran, owed>> /\ SetRatio("main", RatioOr(anchor.ratio))
      BY <2>5 DEF FinishCatchup, historyVars
    <3> QED BY <1>1, <2>0, <3>1, PlanFacts, RatioFacts, WrittenPast, Coroutines
  <2> QED BY <2>1, <2>2, <2>3, <2>4, <2>5
<1>4. main' = "resume" => Paused'
  <2>1. CASE Recover
    <3>1. main' = "resume" => (Paused /\ anchor' = anchor) \/ Pause("main")
      BY <2>1 DEF Recover
    <3>2. Paused /\ anchor' = anchor => Paused'
      BY DEF Paused
    <3> QED BY <1>1, <3>1, <3>2, PauseFacts, Coroutines
  <2> QED BY <2>1 DEF RecoverResume, BeginCatchup, ExitCatchupBatch, FinishCatchup
<1> QED BY <1>1, <1>2, <1>3, <1>4
        DEF ClockTypes, TypeOK, timeVars, adjVars, probeVars, envVars

LEMMA PassTypes ==
  ASSUME ClockTypes, SignalBatch \/ StartPass \/ Aim \/ Pin \/ Deliver PROVE ClockTypes'
<1>1. /\ UNCHANGED <<timeVars, saved, inBatch, plan, adj, work, probeVars, entered, settled, audited,
                     owed, envVars>>
      /\ wall' = wall
  BY DEF SignalBatch, StartPass, Aim, Pin, Deliver, clockVars, adjVars, timeVars, historyVars
<1>2. main' \in {"top", "aim", "sleep", "deliver"}
  BY DEF SignalBatch, StartPass, Aim, Pin, Deliver
<1>3. PastInv' /\ anchor' \in Anchor /\ write' \in [Procs -> Row] /\ saved' \in Row
  <2>1. \/ UNCHANGED <<anchor, write>>
        \/ ~Paused /\ Continuous(Segment(wall)) /\ SetRatio("main", Segment(wall).ratio)
        \/ AdvanceTo("main", SimOfTick(goal))
    BY DEF SignalBatch, StartPass, Aim, Pin, Deliver, clockVars
  <2>2. CASE UNCHANGED <<anchor, write>>
    BY <1>1, <2>2, UnwrittenPast
  <2>3. CASE Continuous(Segment(wall)) /\ SetRatio("main", Segment(wall).ratio)
    BY <1>1, <2>3, PlanFacts, RatioFacts, WrittenPast, Coroutines
  <2>4. CASE AdvanceTo("main", SimOfTick(goal))
    <3>1. SimOfTick(goal) \in Int
      BY TickOrder DEF ClockTypes, TypeOK
    <3> QED BY <1>1, <2>4, <3>1, JumpFacts, WrittenPast, Coroutines DEF AdvanceTo
  <2> QED BY <2>1, <2>2, <2>3, <2>4
<1>4. goal' \in Int /\ ran' \in Int
  <2>1. goal \in Int /\ ran \in Int /\ goal' \in {goal, CurrentTick + 1} /\ ran' \in {ran, goal}
    BY DEF SignalBatch, StartPass, Aim, Pin, Deliver, ClockTypes, TypeOK, historyVars
  <2> QED BY <2>1, NowFacts
<1>5. lastSeg' \in Int /\ signalled' \in BOOLEAN
  <2>1. lastSeg' = lastSeg \/ lastSeg' = Segment(wall).id
    BY DEF SignalBatch, StartPass, Aim, Pin, Deliver, clockVars
  <2>2. signalled' = signalled \/ signalled' = TRUE \/ signalled' = Signalled
    BY Zenon DEF SignalBatch, StartPass, Aim, Pin, Deliver, clockVars
  <2>3. Signalled \in BOOLEAN
    BY DEF Signalled
  <2>4. signalled' \in BOOLEAN
    BY <2>2, <2>3, Zenon DEF ClockTypes, TypeOK
  <2>5. lastSeg \in Int /\ Segment(wall).id \in Nat
    BY PlanFacts DEF ClockTypes, TypeOK
  <2> QED BY <2>1, <2>4, <2>5
<1>6. queue' \subseteq Item
  <2>1. CASE queue' = queue
    BY <2>1 DEF ClockTypes, TypeOK
  <2>2. CASE queue' # queue
    <3>1. PICK i : /\ queue' = queue \union {i}
                   /\ \/ /\ i = [kind |-> "batch", tick |-> CurrentTick, hours |-> Segment(wall).hours]
                         /\ ~Continuous(Segment(wall))
                      \/ i = [kind |-> "tick", tick |-> goal, hours |-> 0]
      BY <2>2 DEF SignalBatch, StartPass, Aim, Pin, Deliver, adjVars
    <3>2. i \in Item
      <4>1. goal \in Int /\ (~Continuous(Segment(wall)) => Segment(wall).hours \in Nat)
            /\ CurrentTick \in Int
        BY NowFacts, PlanFacts DEF ClockTypes, TypeOK
      <4> QED BY <3>1, <4>1 DEF Item
    <3> QED BY <3>1, <3>2 DEF ClockTypes, TypeOK
  <2> QED BY <2>1, <2>2
<1> QED BY <1>1, <1>2, <1>3, <1>4, <1>5, <1>6 DEF ClockTypes, TypeOK, timeVars, probeVars, envVars

LEMMA AdjTypes == ASSUME ClockTypes, Adj PROVE ClockTypes'
<1>1. /\ UNCHANGED <<timeVars, saved, mainVars, probeVars, owed, envVars>> /\ Running
      /\ wall' = wall
  BY DEF Adj, PopDue, BeginBatch, RunHooks, SummaryFails, EndBatch, Adjudicate, clockVars, timeVars,
         historyVars, AdjReady
<1>2. /\ adj' \in {"idle", "work", "hooks", "exit"} /\ settled' \in BOOLEAN
      /\ audited' \in BOOLEAN /\ inBatch' \in BOOLEAN /\ entered' \in Nat
  <2>0. settled \in BOOLEAN /\ audited \in BOOLEAN /\ inBatch \in BOOLEAN /\ entered \in Nat
    BY DEF ClockTypes, TypeOK
  <2>1. CASE PopDue \/ SummaryFails \/ Adjudicate
    BY <2>0, <2>1 DEF PopDue, SummaryFails, Adjudicate, clockVars, historyVars
  <2>2. ASSUME NEW i \in work.batches, BeginBatch(i)
        PROVE  /\ adj' \in {"idle", "work", "hooks", "exit"} /\ settled' \in BOOLEAN
               /\ audited' \in BOOLEAN /\ inBatch' \in BOOLEAN /\ entered' \in Nat
    <3>1. adj' = "hooks" /\ settled' = FALSE /\ audited' = audited /\ inBatch' = TRUE
          /\ entered' = entered + 1
      BY <2>2 DEF BeginBatch, EnterBatch
    <3>2. entered' \in Nat
      BY <2>0, <3>1
    <3> QED BY <2>0, <3>1, <3>2, Zenon
  <2>3. CASE RunHooks
    BY <2>0, <2>3 DEF RunHooks
  <2>4. CASE EndBatch
    BY <2>0, <2>4 DEF EndBatch, ExitBatch, historyVars
  <2> QED BY <2>1, <2>2, <2>3, <2>4 DEF Adj
<1>3. queue' \subseteq Item /\ work' \in [batches : SUBSET Item, tick : Int, turns : BOOLEAN]
  <2>0. /\ queue \subseteq Item /\ work \in [batches : SUBSET Item, tick : Int, turns : BOOLEAN]
        /\ NoWork \in [batches : SUBSET Item, tick : Int, turns : BOOLEAN] /\ CurrentTick \in Int
    BY NowFacts DEF ClockTypes, TypeOK, NoWork
  <2>1. CASE PopDue
    <3>1. PICK t \in BOOLEAN : t = \E i \in DueItems : i.kind # "batch"
      OBVIOUS
    <3>2. PICK b \in SUBSET Item : b = {i \in DueItems : i.kind = "batch"}
      BY <2>0 DEF DueItems
    <3>3. work' = [batches |-> b, tick |-> CurrentTick, turns |-> t] /\ queue' \subseteq queue
      BY <2>1, <3>1, <3>2, Zenon DEF PopDue
    <3> QED BY <2>0, <3>3
  <2>2. ASSUME NEW i \in work.batches, BeginBatch(i)
        PROVE  queue' \subseteq Item /\ work' \in [batches : SUBSET Item, tick : Int, turns : BOOLEAN]
    BY <2>0, <2>2 DEF BeginBatch
  <2>3. CASE RunHooks \/ SummaryFails \/ EndBatch
    BY <2>0, <2>3 DEF RunHooks, SummaryFails, EndBatch, adjVars
  <2>4. CASE Adjudicate
    <3>1. PICK n \in Int : n = work.tick + 1
      BY <2>0
    <3>2. /\ queue' = queue \/ queue' = queue \union {[kind |-> "wakeup", tick |-> n, hours |-> 0]}
          /\ work' = NoWork
      BY <2>4, <3>1 DEF Adjudicate
    <3>3. [kind |-> "wakeup", tick |-> n, hours |-> 0] \in Item
      BY DEF Item
    <3> QED BY <2>0, <3>2, <3>3
  <2> QED BY <2>1, <2>2, <2>3, <2>4 DEF Adj
<1>4. PastInv' /\ anchor' \in Anchor /\ write' \in [Procs -> Row] /\ saved' \in Row /\ ran' \in Int
  <2>0. ran \in Int
    BY DEF ClockTypes, TypeOK
  <2>1. CASE PopDue \/ SummaryFails \/ Adjudicate
    <3>1. UNCHANGED <<anchor, saved, write, ran>>
      BY <2>1 DEF PopDue, SummaryFails, Adjudicate, clockVars, historyVars
    <3> QED BY <1>1, <2>0, <3>1, UnwrittenPast
  <2>2. ASSUME NEW i \in work.batches, BeginBatch(i)
        PROVE  PastInv' /\ anchor' \in Anchor /\ write' \in [Procs -> Row] /\ saved' \in Row
               /\ ran' \in Int
    <3>1. PICK h \in Int : h = i.hours
      BY <2>2 DEF ClockTypes, TypeOK, Item
    <3>2. EnterBatch("adj", h) /\ ran' = TickOf(SimAt(anchor', wall))
      BY <2>2, <3>1 DEF BeginBatch
    <3>3. Written("adj")
      BY <1>1, <3>2, EnterFacts, Coroutines
    <3> QED BY <1>1, <3>2, <3>3, WrittenTick, WrittenPast, Coroutines
  <2>3. CASE RunHooks
    <3>1. (UNCHANGED <<anchor, write>> \/ Pause("adj")) /\ ran' = ran
      BY <2>3 DEF RunHooks
    <3>2. UNCHANGED <<anchor, write>> \/ Written("adj")
      BY <1>1, <3>1, PauseFacts, Coroutines
    <3> QED BY <1>1, <2>0, <3>1, <3>2, WrittenPast, UnwrittenPast, Coroutines
  <2>4. CASE EndBatch
    <3>1. ExitBatch("adj") /\ ran' = ran
      BY <2>4 DEF EndBatch, historyVars
    <3> QED BY <1>1, <2>0, <3>1, ExitFacts, WrittenPast, Coroutines
  <2> QED BY <2>1, <2>2, <2>3, <2>4 DEF Adj
<1>5. main' = main /\ main # "resume"
  BY <1>1 DEF mainVars, Running
<1> QED BY <1>1, <1>2, <1>3, <1>4, <1>5
        DEF ClockTypes, TypeOK, timeVars, mainVars, probeVars, envVars

LEMMA ProbeTypes == ASSUME ClockTypes, Probe PROVE ClockTypes'
<1>1. /\ UNCHANGED <<timeVars, saved, inBatch, mainVars, adjVars, fault, ran, entered, settled, audited,
                     envVars>>
      /\ wall' = wall /\ Running /\ probing' \in BOOLEAN
  BY DEF Probe, ProbePause, ProbeResume, timeVars, historyVars
<1>2. PastInv' /\ anchor' \in Anchor /\ write' \in [Procs -> Row] /\ saved' \in Row /\ owed' \in Int
  <2>0. owed \in Int
    BY DEF ClockTypes, TypeOK
  <2>1. CASE ProbePause
    <3>1. Pause("probe") /\ owed' = owed
      BY <2>1 DEF ProbePause, historyVars
    <3>2. UNCHANGED <<anchor, write>> \/ Written("probe")
      BY <1>1, <3>1, PauseFacts, Coroutines
    <3> QED BY <1>1, <2>0, <3>1, <3>2, WrittenPast, UnwrittenPast, Coroutines
  <2>2. CASE ProbeResume
    <3>1. (Paused /\ Resume("probe") /\ owed' = PlannedSim) \/ UNCHANGED <<anchor, write, owed>>
      BY <2>2 DEF ProbeResume
    <3> QED BY <1>1, <2>0, <3>1, PlanFacts, ResumeFacts, WrittenPast, UnwrittenPast, Coroutines
  <2> QED BY <2>1, <2>2 DEF Probe
<1>3. main' = main /\ main # "resume"
  BY <1>1 DEF mainVars, Running
<1> QED BY <1>1, <1>2, <1>3 DEF ClockTypes, TypeOK, timeVars, mainVars, adjVars, envVars

LEMMA ForgetTypes ==
  ASSUME ClockTypes, Forget
  PROVE  /\ inBatch' = FALSE /\ write' \in [Procs -> Row] /\ \A p \in Procs : write'[p] = NoWrite
         /\ main' = "load" /\ goal' \in Int /\ plan' \in [downtime : Int, to : Int]
         /\ lastSeg' \in Int /\ signalled' = FALSE /\ queue' = {} /\ adj' = "idle"
         /\ work' = NoWork /\ work' \in [batches : SUBSET Item, tick : Int, turns : BOOLEAN]
         /\ probing' = FALSE
BY DEF Forget, NoWrite, Row, NoPlan, NoWork, None

LEMMA WriteTypes == ASSUME ClockTypes, Writes PROVE ClockTypes'
<1>1. wall' = wall /\ UNCHANGED <<timeVars, fault, faults, crashes, anchor>>
  BY DEF Writes, Commit, MainWriteFails, AdjWriteFails, ProbeWriteFails, timeVars, probeVars, envVars
<1>2. CASE MainWriteFails
  <2>1. Forget /\ up' = "dead" /\ UNCHANGED <<saved, historyVars>>
    BY <1>2 DEF MainWriteFails
  <2>2. PastInv'
    BY <1>1, <2>1, ForgetTypes DEF ClockTypes, PastInv, Past
  <2> QED BY <1>1, <2>1, <2>2, ForgetTypes DEF ClockTypes, TypeOK, timeVars, historyVars
<1>3. CASE AdjWriteFails \/ ProbeWriteFails
  <2>1. PICK p \in Procs : write' = [write EXCEPT ![p] = NoWrite]
    BY <1>3, Coroutines DEF AdjWriteFails, ProbeWriteFails
  <2>2. UNCHANGED <<up, inBatch, saved, mainVars, queue, probeVars, ran, entered, audited, owed>>
    BY <1>3 DEF AdjWriteFails, ProbeWriteFails, adjVars, historyVars, envVars
  <2>3. settled' \in BOOLEAN /\ adj' \in {"idle", "work", "hooks", "exit"}
        /\ work' \in {work, NoWork}
    BY <1>3 DEF AdjWriteFails, ProbeWriteFails, adjVars, historyVars, ClockTypes, TypeOK
  <2>4. NoWork \in [batches : SUBSET Item, tick : Int, turns : BOOLEAN] /\ NoWrite \in Row
    BY DEF NoWork, NoWrite, Row, None
  <2>5. write' \in [Procs -> Row] /\ \A q \in Procs : write'[q] \in {write[q], NoWrite}
    BY <2>1, <2>4 DEF ClockTypes, TypeOK
  <2>6. PastInv' /\ Paused' = Paused
    BY <1>1, <2>2, <2>5 DEF ClockTypes, PastInv, Past, Paused
  <2> QED BY <1>1, <2>2, <2>3, <2>4, <2>5, <2>6
          DEF ClockTypes, TypeOK, timeVars, mainVars, probeVars
<1>4. ASSUME NEW p \in Procs, Commit(p) PROVE ClockTypes'
  <2>1. /\ saved' = write[p] /\ write[p] # NoWrite /\ write' = [write EXCEPT ![p] = NoWrite]
        /\ UNCHANGED <<up, inBatch, mainVars, adjVars, probeVars, historyVars>>
    BY <1>4 DEF Commit, envVars
  <2>2. NoWrite \in Row
    BY DEF NoWrite, Row, None
  <2>3. write' \in [Procs -> Row] /\ (\A q \in Procs : write'[q] \in {write[q], NoWrite})
        /\ saved' \in Row
    BY <2>1, <2>2 DEF ClockTypes, TypeOK
  <2>4. PastInv' /\ Paused' = Paused
    BY <1>1, <2>1, <2>3 DEF ClockTypes, PastInv, Past, Paused
  <2> QED BY <1>1, <2>1, <2>3, <2>4
          DEF ClockTypes, TypeOK, timeVars, mainVars, adjVars, probeVars, historyVars
<1> QED BY <1>2, <1>3, <1>4 DEF Writes

LEMMA EndTypes ==
  ASSUME ClockTypes, Crash \/ Stop \/ FaultEnds \/ (\E k \in FaultKinds : FaultBegins(k))
  PROVE  ClockTypes'
<1>1. CASE Crash
  <2>1. Forget /\ up' = "down" /\ UNCHANGED <<timeVars, anchor, saved, fault, historyVars, faults>>
        /\ crashes' = crashes + 1 /\ crashes < MaxCrashes /\ wall' = wall
    BY <1>1 DEF Crash, timeVars
  <2>2. PastInv'
    BY <2>1, ForgetTypes DEF ClockTypes, PastInv, Past
  <2>3. crashes' \in 0..MaxCrashes
    BY <2>1, ClockConstants DEF ClockTypes, TypeOK
  <2> QED BY <2>1, <2>2, <2>3, ForgetTypes DEF ClockTypes, TypeOK, timeVars, historyVars
<1>2. CASE Stop
  <2>1. Forget /\ up' = "down" /\ UNCHANGED <<timeVars, fault, historyVars, faults>>
        /\ crashes' = crashes + 1 /\ crashes < MaxCrashes /\ wall' = wall
    BY <1>2 DEF Stop, timeVars
  <2>2. anchor' \in Anchor /\ Past(anchor)'
    <3>1. CASE main = "sleep"
      <4>1. PICK s \in Int, w \in Nat : s = SimOfTick(goal) /\ w = wall
        BY TickOrder, NowFacts DEF ClockTypes, TypeOK
      <4>2. anchor' = [anchor EXCEPT !.sim = s, !.wall = w] /\ anchor \in Anchor
        BY <1>2, <3>1, <4>1, NowFacts DEF Stop
      <4>3. anchor' \in Anchor /\ anchor'.wall = w /\ anchor'.paused = anchor.paused
        <5>1. w \in Int
          BY <4>1
        <5> QED BY <4>1, <4>2, <5>1 DEF Anchor
      <4> QED BY <2>1, <4>1, <4>3, NowFacts DEF Past, Paused
    <3>2. CASE main # "sleep"
      BY <1>2, <2>1, <3>2 DEF Stop, ClockTypes, TypeOK, PastInv, Past
    <3> QED BY <3>1, <3>2
  <2>3. saved' \in Row /\ Past(saved)' /\ saved'.sim = anchor'.sim
    <3>1. PICK a : a = anchor'
      OBVIOUS
    <3>2. /\ a.sim \in Int /\ a.ratio \in Nat /\ a.wall \in 0..wall /\ a.paused \in Int
          /\ (a.paused # None => a.paused \in 0..a.wall) /\ wall \in Nat
      BY <2>1, <2>2, <3>1, NowFacts DEF Past, Anchor
    <3>3. SimAt(a, wall) \in Int /\ TickOf(SimAt(a, wall)) \in Int
      BY <3>2, SimAtFacts, TickFacts
    <3>4. saved' = [sim |-> a.sim, wall |-> a.wall, ratio |-> a.ratio, paused |-> a.paused,
                    tick |-> TickOf(SimAt(a, wall))]
      BY <1>2, <3>1 DEF Stop
    <3>5. saved' \in Row /\ saved'.sim = a.sim /\ saved'.wall = a.wall /\ saved'.paused = a.paused
      BY <3>2, <3>3, <3>4 DEF Row
    <3> QED BY <2>1, <3>1, <3>2, <3>5 DEF Past
  <2>4. crashes' \in 0..MaxCrashes
    BY <2>1, ClockConstants DEF ClockTypes, TypeOK
  <2>5. PastInv'
    BY <2>2, <2>3, <2>1, ForgetTypes DEF PastInv
  <2> QED BY <2>1, <2>2, <2>3, <2>4, <2>5, ForgetTypes
          DEF ClockTypes, TypeOK, timeVars, historyVars
<1>3. CASE FaultEnds \/ \E k \in FaultKinds : FaultBegins(k)
  <2>1. /\ UNCHANGED <<timeVars, clockVars, mainVars, adjVars, probing, historyVars, up, crashes>>
        /\ fault' \in FaultKinds \union {"none"} /\ faults' \in 0..MaxFaults
    BY <1>3, ClockConstants DEF FaultEnds, FaultBegins, envVars, ClockTypes, TypeOK
  <2>2. PastInv' /\ Paused' = Paused
    BY <2>1 DEF ClockTypes, PastInv, Past, Paused, timeVars, clockVars
  <2> QED BY <2>1, <2>2
          DEF ClockTypes, TypeOK, timeVars, clockVars, mainVars, adjVars, historyVars
<1> QED BY <1>1, <1>2, <1>3

LEMMA WallTypes == ASSUME ClockTypes, WallPasses PROVE ClockTypes'
<1>1. /\ wall' = wall + 1 /\ wall' \in 0..MaxWall /\ late' \in 0..MaxLate /\ entered' \in Nat
      /\ UNCHANGED <<clockVars, mainVars, adjVars, probeVars, ran, settled, audited, owed, envVars>>
  BY ClockConstants DEF WallPasses, ClockTypes, TypeOK
<1>2. PastInv' /\ Paused' = Paused
  <2>1. \A a : Past(a) => a.wall \in 0..wall' /\ (a.paused # None => a.paused \in 0..a.wall)
    BY <1>1, NowFacts DEF Past
  <2> QED BY <1>1, <2>1 DEF ClockTypes, PastInv, Past, Paused, clockVars
<1> QED BY <1>1, <1>2 DEF ClockTypes, TypeOK, clockVars, mainVars, adjVars, probeVars, envVars

LEMMA TypeInit == Init => ClockTypes
<1> SUFFICES ASSUME Init PROVE ClockTypes
  OBVIOUS
<1>1. anchor \in Anchor /\ saved \in Row /\ NoWrite \in Row
  BY DEF Init, Anchor, Row, NoWrite, None
<1>2. PastInv
  BY DEF Init, PastInv, Past, None
<1>3. plan \in [downtime : Int, to : Int] /\ queue \subseteq Item
      /\ work \in [batches : SUBSET Item, tick : Int, turns : BOOLEAN] /\ write \in [Procs -> Row]
  BY <1>1 DEF Init, NoPlan, NoWork
<1>4. wall \in 0..MaxWall /\ late \in 0..MaxLate /\ faults \in 0..MaxFaults
      /\ crashes \in 0..MaxCrashes
  BY ClockConstants DEF Init
<1>5. goal \in Int /\ lastSeg \in Int /\ ran \in Int /\ entered \in Nat /\ owed \in Int
  BY DEF Init, None
<1>6. main = "load" /\ adj = "idle" /\ up = "down" /\ fault = "none"
      /\ {settled, audited, inBatch, signalled, probing} \subseteq BOOLEAN
  BY DEF Init
<1> QED BY <1>1, <1>2, <1>3, <1>4, <1>5, <1>6 DEF ClockTypes, TypeOK

\* Every step keeps the types.
LEMMA TypeStep == ASSUME ClockTypes, [Next]_vars PROVE ClockTypes'
<1>1. CASE UNCHANGED vars
  BY <1>1 DEF ClockTypes, TypeOK, PastInv, Past, Paused, vars, timeVars, clockVars, mainVars, adjVars,
              probeVars, historyVars, envVars
<1>2. CASE Next
  BY <1>2, LoadTypes, StartTypes, PassTypes, AdjTypes, ProbeTypes, WriteTypes, EndTypes, WallTypes
     DEF Next, Main
<1> QED BY <1>1, <1>2

\* Every variable of the clock keeps its type, and so does the planned position, a sum over
\* the speed table; no anchor, in memory, in its row or on the way there, lies in the future
\* (_persist_anchor, _planned_sim).
THEOREM ClockTypeCorrect == Spec => []TypeOK
<1>1. Spec => []ClockTypes
  BY TypeInit, TypeStep, PTL DEF Spec
<1>2. ClockTypes => TypeOK
  BY DEF ClockTypes
<1> QED BY <1>1, <1>2, PTL

-----------------------------------------------------------------------------
(* Start-up.                                                                *)

\* A dead process has nothing to do.
LEMMA ForgetStarts == ASSUME ClockTypes, Forget PROVE StartInv'
<1>1. /\ main' = "load" /\ queue' = {} /\ work' = NoWork /\ adj' = "idle" /\ probing' = FALSE
      /\ write'["adj"] = NoWrite /\ write'["probe"] = NoWrite
  BY ForgetTypes, Coroutines
<1> QED BY <1>1 DEF StartInv

\* While the main loop runs, and goes on running, there is nothing to show.
LEMMA RunningStarts ==
  ASSUME ClockTypes, StartInv, Running, Running', up' = up PROVE StartInv'
BY DEF StartInv, Running

\* The catch-up begins with a ratio or with a batch that reaches the plan.
LEMMA BegunFacts ==
  ASSUME ClockTypes, StartInv, BeginCatchup
  PROVE  /\ Written("main") /\ ~Paused' /\ (main' = "exit" => NowSim' >= plan'.to)
         /\ anchor'.sim >= anchor.sim /\ (main' = "exit" => ran' = TickOf(anchor'.sim))
<1>0. /\ wall' = wall /\ plan' = plan /\ ~Paused /\ "main" \in Procs
      /\ plan.to \in Int /\ plan.downtime \in Int
  BY Coroutines DEF BeginCatchup, StartInv, timeVars, ClockTypes, TypeOK
<1>1. CASE plan.downtime < LongPause
  <2>1. PICK r \in Nat : r = IF 2 * anchor.ratio < MaxRatio THEN 2 * anchor.ratio ELSE MaxRatio
    BY NowFacts, ClockConstants
  <2>2. SetRatio("main", r) /\ main' = "drive"
    BY <1>1, <2>1 DEF BeginCatchup
  <2> QED BY <1>0, <2>2, RatioFacts, NowFacts DEF Paused
<1>2. CASE ~(plan.downtime < LongPause)
  <2>1. PICK h \in Nat : h = (IF plan.to > NowSim THEN plan.to - NowSim ELSE 0) /\ NowSim + h >= plan.to
    BY <1>0, NowFacts
  <2>2. EnterBatch("main", h) /\ main' = "exit" /\ ran' = TickOf(SimAt(anchor', wall))
    BY <1>2, <2>1 DEF BeginCatchup
  <2>3. Written("main") /\ anchor'.sim = NowSim + h /\ ~Paused' /\ NowSim' = NowSim + h
    <3>1. h \in Int
      OBVIOUS
    <3>2. Written("main") /\ anchor'.sim = NowSim + h /\ Paused' = Paused
          /\ (~Paused => NowSim' = NowSim + h)
      BY <1>0, <2>2, <3>1, EnterFacts
    <3> QED BY <1>0, <3>2
  <2>4. SimAt(anchor', wall) = NowSim'
    BY <1>0, <2>3, WrittenTick
  <2> QED BY <1>0, <2>1, <2>2, <2>3, <2>4, NowFacts
<1> QED BY <1>1, <1>2

\* Start-up: its steps wait for the row they write, and never set the world back, but for
\* the one that reads where it stood.
LEMMA StartMoves ==
  ASSUME ClockTypes, StartInv, wall' = wall,
         Load \/ Recover \/ RecoverResume \/ BeginCatchup \/ ExitCatchupBatch \/ FinishCatchup
  PROVE  /\ UNCHANGED write \/ Written("main")
         /\ anchor'.sim >= anchor.sim \/ anchor'.sim = saved.sim
<1>0. "main" \in Procs /\ anchor.sim \in Int
  BY Coroutines, NowFacts
<1>1. CASE Load
  <2>1. PICK row : row = [sim |-> saved.sim, wall |-> saved.wall, ratio |-> saved.ratio,
                          paused |-> saved.paused]
    OBVIOUS
  <2>2. CASE saved.tick = 0
    <3>1. PICK a : a = [row EXCEPT !.wall = wall, !.ratio = RatioOr(row.ratio)]
      OBVIOUS
    <3>2. Persist("main", a)
      BY <1>1, <2>1, <2>2, <3>1 DEF Load
    <3>3. saved \in Row /\ Past(saved) /\ wall \in Int /\ RatioOr(saved.ratio) \in Nat
      BY NowFacts, PlanFacts DEF ClockTypes, TypeOK, PastInv
    <3>4. /\ row \in Anchor /\ row.wall = saved.wall /\ row.paused = saved.paused
          /\ row.ratio = saved.ratio /\ row.sim = saved.sim
      BY <2>1, <3>3 DEF Row, Anchor
    <3>5. a \in Anchor /\ a.wall = wall /\ a.paused = saved.paused /\ a.sim = saved.sim
      BY <3>1, <3>3, <3>4 DEF Anchor
    <3>6. Past(a)
      BY <3>3, <3>5, NowFacts DEF Past
    <3> QED BY <1>0, <3>2, <3>5, <3>6, PersistFacts
  <2>3. CASE saved.tick # 0
    BY <1>1, <2>1, <2>3 DEF Load
  <2> QED BY <2>2, <2>3
<1>2. CASE Recover
  <2>1. UNCHANGED <<anchor, write>> \/ (~Paused /\ Pause("main"))
    BY <1>2 DEF Recover
  <2> QED BY <1>0, <2>1, PauseFacts, NowFacts
<1>3. CASE RecoverResume
  BY <1>0, <1>3, ResumeFacts DEF RecoverResume, ClockTypes
<1>4. CASE BeginCatchup
  BY <1>0, <1>4, BegunFacts
<1>5. CASE ExitCatchupBatch
  <2>1. ExitBatch("main") /\ ~Paused
    BY <1>5 DEF ExitCatchupBatch, StartInv
  <2> QED BY <1>0, <2>1, ExitFacts, NowFacts
<1>6. CASE FinishCatchup
  <2>1. SetRatio("main", RatioOr(anchor.ratio)) /\ ~Paused
    BY <1>6 DEF FinishCatchup, StartInv
  <2> QED BY <1>0, <2>1, RatioFacts, PlanFacts, NowFacts
<1> QED BY <1>1, <1>2, <1>3, <1>4, <1>5, <1>6

LEMMA MainStarts == ASSUME ClockTypes, StartInv, Main PROVE StartInv'
<1>0. /\ "main" \in Procs /\ "adj" \in Procs \ {"main"} /\ "probe" \in Procs \ {"main"}
  BY DEF Procs
<1>1. CASE SignalBatch \/ StartPass \/ Aim \/ Pin \/ Deliver
  <2>1. Running /\ Running' /\ up' = up
    BY <1>1 DEF SignalBatch, StartPass, Aim, Pin, Deliver, Running, envVars
  <2> QED BY <2>1, RunningStarts
<1>2. ASSUME Load \/ Recover \/ RecoverResume \/ BeginCatchup \/ ExitCatchupBatch \/ FinishCatchup
      PROVE  /\ ~Running /\ wall' = wall /\ UNCHANGED <<queue, work, adj, probing>>
             /\ up' = "up" /\ main' # "load"
  BY <1>2 DEF Load, Recover, RecoverResume, BeginCatchup, ExitCatchupBatch, FinishCatchup, Running,
              timeVars, adjVars, probeVars, envVars, StartInv
<1>3. ASSUME Load \/ Recover \/ RecoverResume \/ BeginCatchup \/ ExitCatchupBatch \/ FinishCatchup
      PROVE  UNCHANGED write \/ Written("main")
  BY <1>2, <1>3, StartMoves
<1>4. ASSUME Load \/ Recover \/ RecoverResume \/ BeginCatchup \/ ExitCatchupBatch \/ FinishCatchup
      PROVE  /\ main' \in {"plan", "exit", "drive"} => ~Paused'
             /\ main' = "exit" => NowSim' >= plan'.to
  <2>1. wall' = wall
    BY <1>2, <1>4
  <2>2. CASE Load \/ Recover \/ ExitCatchupBatch \/ FinishCatchup
    BY <2>2 DEF Load, Recover, ExitCatchupBatch, FinishCatchup
  <2>3. CASE RecoverResume
    BY <1>0, <2>1, <2>3, ResumeFacts DEF RecoverResume, ClockTypes
  <2>4. CASE BeginCatchup
    BY <1>0, <2>1, <2>4, BegunFacts
  <2> QED BY <1>4, <2>2, <2>3, <2>4
<1>5. ASSUME Load \/ Recover \/ RecoverResume \/ BeginCatchup \/ ExitCatchupBatch \/ FinishCatchup
      PROVE  StartInv'
  <2>1. write'["adj"] = NoWrite /\ write'["probe"] = NoWrite
    BY <1>0, <1>2, <1>3, <1>5 DEF Written, StartInv
  <2> QED BY <1>2, <1>4, <1>5, <2>1 DEF StartInv
<1> QED BY <1>1, <1>5 DEF Main

LEMMA StartStep == ASSUME ClockTypes, StartInv, [Next]_vars PROVE StartInv'
<1>1. CASE Main
  BY <1>1, MainStarts
<1>2. CASE Adj \/ Probe
  <2>1. Running /\ Running' /\ up' = up
    BY <1>2 DEF Adj, PopDue, BeginBatch, RunHooks, SummaryFails, EndBatch, Adjudicate, AdjReady,
                Probe, ProbePause, ProbeResume, mainVars, envVars, Running
  <2> QED BY <2>1, RunningStarts
<1>3. CASE MainWriteFails \/ Crash \/ Stop
  BY <1>3, ForgetStarts DEF MainWriteFails, Crash, Stop
<1>4. CASE AdjWriteFails \/ ProbeWriteFails
  <2>1. Running /\ Running' /\ up' = up
    BY <1>4 DEF AdjWriteFails, ProbeWriteFails, StartInv, mainVars, envVars, Running
  <2> QED BY <2>1, RunningStarts
<1>5. ASSUME NEW p \in Procs, Commit(p) PROVE StartInv'
  <2>1. /\ UNCHANGED <<wall, anchor, main, plan, up, queue, work, adj, probing>>
        /\ write' = [write EXCEPT ![p] = NoWrite] /\ write \in [Procs -> Row]
    BY <1>5 DEF Commit, timeVars, mainVars, adjVars, probeVars, envVars, ClockTypes, TypeOK
  <2>2. \A q \in Procs : write[q] = NoWrite => write'[q] = NoWrite
    BY <2>1
  <2>3. Paused' = Paused /\ NowSim' = NowSim /\ Running' = Running
    BY <2>1 DEF Paused, NowSim, Running
  <2> QED BY <2>1, <2>2, <2>3, Coroutines DEF StartInv
<1>6. CASE WallPasses
  <2>1. UNCHANGED <<anchor, write, main, plan, up, queue, work, adj, probing>> /\ wall' = wall + 1
    BY <1>6 DEF WallPasses, clockVars, mainVars, adjVars, probeVars, envVars
  <2>2. Running' = Running /\ Paused' = Paused /\ NowSim' >= NowSim
    BY <2>1, FlowFacts DEF Running
  <2>3. plan.to \in Int /\ NowSim \in Int /\ NowSim' \in Int
    BY <1>6, WallTypes, NowFacts, NowFactsNext DEF ClockTypes, TypeOK
  <2> QED BY <2>1, <2>2, <2>3 DEF StartInv
<1>7. CASE FaultEnds \/ (\E k \in FaultKinds : FaultBegins(k)) \/ UNCHANGED vars
  <2>1. UNCHANGED <<wall, anchor, write, main, plan, up, queue, work, adj, probing>>
    BY <1>7 DEF FaultEnds, FaultBegins, vars, timeVars, clockVars, mainVars, adjVars, probeVars,
                envVars
  <2>2. Running' = Running /\ Paused' = Paused /\ NowSim' = NowSim
    BY <2>1 DEF Running, Paused, NowSim
  <2> QED BY <2>1, <2>2 DEF StartInv
<1> QED BY <1>1, <1>2, <1>3, <1>4, <1>5, <1>6, <1>7 DEF Next, Writes

\* Types and start-up together.
LEMMA ClockStep == ASSUME ClockInv, [Next]_vars PROVE ClockInv'
BY TypeStep, StartStep DEF ClockInv

LEMMA ClockInit == Init => ClockInv
<1>1. Init => StartInv
  BY DEF Init, StartInv, Running, Procs
<1> QED BY <1>1, TypeInit DEF ClockInv

\* A restart is at the planned position when its catch-up ends, by fast running or by a
\* batch, whatever fails on the way (run_catchup).
THEOREM RestartCatchesUp == Spec => CaughtUp
<1>1. ClockInv /\ [Next]_vars => [main' = "top" /\ main \in {"drive", "exit"} => NowSim' >= plan.to]_vars
  <2> SUFFICES ASSUME ClockInv, Next, main' = "top", main \in {"drive", "exit"}
               PROVE  NowSim' >= plan.to
    BY Zenon
  <2>1. ExitCatchupBatch \/ FinishCatchup
    BY DEF Next, Main, Load, Recover, RecoverResume, BeginCatchup, SignalBatch, StartPass, Aim, Pin,
           Deliver, Adj, PopDue, BeginBatch, RunHooks, SummaryFails, EndBatch, Adjudicate, AdjReady,
           Running, Probe, ProbePause, ProbeResume, Writes, Commit, MainWriteFails, AdjWriteFails,
           ProbeWriteFails, Forget, FaultBegins, FaultEnds, Crash, Stop, WallPasses, mainVars
  <2>2. wall' = wall /\ "main" \in Procs
    BY <2>1, Coroutines DEF ExitCatchupBatch, FinishCatchup, timeVars
  <2>3. CASE ExitCatchupBatch
    <3>1. ExitBatch("main") /\ ~Paused /\ NowSim >= plan.to
      BY <2>3 DEF ExitCatchupBatch, ClockInv, StartInv
    <3> QED BY <2>2, <3>1, ExitFacts DEF ClockInv
  <2>4. CASE FinishCatchup
    <3>1. SetRatio("main", RatioOr(anchor.ratio)) /\ NowSim >= plan.to
      BY <2>4 DEF FinishCatchup
    <3> QED BY <2>2, <3>1, RatioFacts, PlanFacts DEF ClockInv
  <2> QED BY <2>1, <2>3, <2>4
<1> QED BY <1>1, ClockInit, ClockStep, PTL DEF Spec, CaughtUp

-----------------------------------------------------------------------------
(* Batches, while nothing that is due waits for real time to pass.           *)

LEMMA BatchInit == Init => BatchInv
BY DEF Init, BatchInv, Pending, Signals, NoWork

\* With no batch signalled there is little to show.
LEMMA NonePending ==
  ASSUME Pending' = {},
         inBatch' => main' = "exit" \/ (main' = "top" /\ write'["main"] = NoWrite),
         adj' \in {"hooks", "exit"} => inBatch' /\ main' = "top"
  PROVE  BatchInv'
BY DEF BatchInv, Pending, Signals

\* Nor where the main loop stands still, no batch is added, and the time goes on.
LEMMA StillPending ==
  ASSUME ClockTypes, ClockTypes', BatchInv, NowSim <= NowSim',
         UNCHANGED <<wall, inBatch, main, lastSeg, signalled>>,
         write["main"] = NoWrite => write'["main"] = NoWrite,
         Pending' \subseteq Pending, Signals' \subseteq Signals, Signals' = {} \/ work'.batches = {},
         adj' \in {"hooks", "exit"} => adj \in {"hooks", "exit"},
         adj' = "idle" => work'.batches = {}
  PROVE  BatchInv'
<1>1. CurrentTick <= CurrentTick' /\ CurrentTick \in Int /\ CurrentTick' \in Int
  BY NowFacts, NowFactsNext, LaterTick DEF CurrentTick
<1>2. ASSUME NEW i \in Signals' PROVE i.tick <= CurrentTick'
  <2>1. i \in Signals /\ i \in queue
    BY <1>2 DEF Signals
  <2>2. i.tick \in Int
    BY <2>1 DEF ClockTypes, TypeOK, Item
  <2> QED BY <1>1, <2>1, <2>2 DEF BatchInv
<1>3. \A i \in Pending : i.kind = "batch"
  BY DEF BatchInv, Pending, Signals
<1>4. \A i \in work'.batches : i.kind = "batch"
  BY <1>3 DEF Pending
<1>5. Pending' # {} =>
       /\ main' = "top" /\ write'["main"] = NoWrite /\ ~inBatch'
       /\ signalled' /\ lastSeg' = Segment(wall').id /\ ~Continuous(Segment(wall'))
  BY DEF BatchInv
<1>6. \A i, j \in Pending' : i = j
  BY DEF BatchInv
<1>7. /\ inBatch' => main' = "exit" \/ (main' = "top" /\ write'["main"] = NoWrite)
      /\ adj' \in {"hooks", "exit"} => inBatch' /\ main' = "top"
  BY DEF BatchInv
<1> QED BY <1>2, <1>4, <1>5, <1>6, <1>7 DEF BatchInv

LEMMA StartBatches ==
  ASSUME ClockInv, ClockInv', BatchInv,
         Load \/ Recover \/ RecoverResume \/ BeginCatchup \/ ExitCatchupBatch \/ FinishCatchup
  PROVE  BatchInv'
<1>1. ~Running /\ wall' = wall /\ UNCHANGED <<queue, work, adj>>
  BY DEF Load, Recover, RecoverResume, BeginCatchup, ExitCatchupBatch, FinishCatchup, Running,
         timeVars, adjVars
<1>2. Pending' = {} /\ adj' = "idle"
  BY <1>1 DEF Pending, Signals, NoWork, ClockInv, StartInv
<1>3. inBatch' => main' = "exit"
  <2>1. CASE Load \/ Recover \/ RecoverResume \/ FinishCatchup
    BY <2>1 DEF Load, Recover, RecoverResume, FinishCatchup, BatchInv
  <2>2. CASE BeginCatchup
    BY <2>2 DEF BeginCatchup, BatchInv
  <2>3. CASE ExitCatchupBatch
    BY <2>3 DEF ExitCatchupBatch, ExitBatch
  <2> QED BY <2>1, <2>2, <2>3
<1> QED BY <1>2, <1>3, NonePending

LEMMA MainBatches ==
  ASSUME ClockInv, ClockInv', BatchInv, SignalBatch \/ StartPass \/ Aim \/ Pin \/ Deliver
  PROVE  BatchInv'
<1>0. ClockTypes /\ ClockTypes'
  BY DEF ClockInv
<1>1. CASE SignalBatch
  <2>1. PICK x : x = [kind |-> "batch", tick |-> CurrentTick, hours |-> Segment(wall).hours]
    OBVIOUS
  <2>2. /\ queue' = queue \union {x} /\ lastSeg' = Segment(wall).id /\ signalled'
        /\ main = "top" /\ write["main"] = NoWrite /\ ~inBatch /\ ~Continuous(Segment(wall))
        /\ UNCHANGED <<wall, anchor, main, work, adj, inBatch, write>> /\ ~Signalled
    BY <1>1, <2>1 DEF SignalBatch, Ready, timeVars, clockVars
  <2>3. Pending = {}
    BY <2>2 DEF BatchInv, Signalled, SegmentChanged
  <2>4. Signals' = {x} /\ Pending' = {x} /\ work'.batches = {} /\ x.tick = CurrentTick
    BY <2>1, <2>2, <2>3 DEF Pending, Signals
  <2>5. CurrentTick' = CurrentTick /\ CurrentTick \in Int
    BY <1>0, <2>2, NowFacts DEF CurrentTick, NowSim
  <2>6. adj \notin {"hooks", "exit"}
    BY <2>2 DEF BatchInv
  <2>7. \A i \in Signals' : i.tick <= CurrentTick'
    BY <2>4, <2>5
  <2> QED BY <2>2, <2>4, <2>6, <2>7 DEF BatchInv
<1>2. CASE StartPass
  <2>1. /\ ~inBatch /\ UNCHANGED <<queue, work, adj, inBatch>> /\ Continuous(Segment(wall))
    BY <1>2 DEF StartPass, adjVars
  <2>2. Pending = {} /\ adj \notin {"hooks", "exit"}
    BY <2>1 DEF BatchInv
  <2>3. Pending' = {}
    BY <2>1, <2>2 DEF Pending, Signals
  <2> QED BY <2>1, <2>2, <2>3, NonePending
<1>3. CASE Aim \/ Pin \/ Deliver
  <2>1. /\ main \in {"aim", "sleep", "deliver"}
        /\ UNCHANGED <<work, adj, inBatch>>
        /\ queue' = queue \/ queue' = queue \union {[kind |-> "tick", tick |-> goal, hours |-> 0]}
    BY <1>3 DEF Aim, Pin, Deliver, clockVars, adjVars
  <2>2. Pending = {} /\ adj \notin {"hooks", "exit"} /\ ~inBatch
    BY <2>1 DEF BatchInv
  <2>3. Pending' = {}
    BY <2>1, <2>2 DEF Pending, Signals
  <2> QED BY <2>1, <2>2, <2>3, NonePending
<1> QED BY <1>1, <1>2, <1>3

LEMMA AdjBatches == ASSUME ClockInv, ClockInv', BatchInv, Adj PROVE BatchInv'
<1>0. /\ ClockTypes /\ ClockTypes' /\ "adj" \in Procs /\ "main" \in Procs \ {"adj"}
      /\ wall' = wall /\ UNCHANGED mainVars /\ Running
  BY DEF ClockInv, Adj, PopDue, BeginBatch, RunHooks, SummaryFails, EndBatch, Adjudicate, timeVars,
         AdjReady, Procs
<1>1. CASE PopDue
  <2>1. /\ UNCHANGED clockVars /\ queue' = queue \ DueItems /\ adj' = "work"
        /\ work'.batches = {i \in DueItems : i.kind = "batch"}
    BY <1>1 DEF PopDue
  <2>2. Signals' = {} /\ work'.batches \subseteq Signals
    BY <2>1 DEF BatchInv, Signals, DueItems
  <2>3. NowSim' = NowSim /\ NowSim \in Int
    BY <1>0, <2>1, NowFacts DEF NowSim, clockVars
  <2>4. Pending' \subseteq Pending /\ Signals' \subseteq Signals
    BY <2>2 DEF Pending
  <2> QED BY <1>0, <2>1, <2>2, <2>3, <2>4, StillPending DEF clockVars, mainVars
<1>2. ASSUME NEW i \in work.batches, BeginBatch(i) PROVE BatchInv'
  <2>1. /\ inBatch' = TRUE /\ adj' = "hooks" /\ work' = [work EXCEPT !.batches = @ \ {i}]
        /\ queue' = queue /\ EnterBatch("adj", i.hours)
    BY <1>2 DEF BeginBatch, EnterBatch
  <2>2. i \in Item /\ i.hours \in Int
    BY <1>0 DEF ClockTypes, TypeOK, Item
  <2>3. write'["main"] = write["main"]
    BY <1>0, <2>1, <2>2, EnterFacts DEF Written
  <2>4. Pending # {} /\ Signals = {} /\ work.batches = {i}
    BY <1>2 DEF BatchInv, Pending
  <2>5. work'.batches = {}
    BY <1>0, <2>1, <2>4 DEF ClockTypes, TypeOK
  <2>6. Pending' = {}
    BY <2>1, <2>4, <2>5 DEF Pending, Signals
  <2>7. main = "top" /\ write["main"] = NoWrite
    BY <2>4 DEF BatchInv
  <2> QED BY <1>0, <2>1, <2>3, <2>6, <2>7, NonePending DEF mainVars
<1>3. CASE RunHooks \/ SummaryFails
  <2>1. /\ adj = "hooks" /\ adj' = "exit" /\ inBatch' = inBatch /\ queue' = queue
        /\ work' \in {work, NoWork}
    BY <1>3 DEF RunHooks, SummaryFails, clockVars
  <2>2. inBatch /\ main = "top" /\ write["main"] = NoWrite /\ Pending = {}
    BY <2>1 DEF BatchInv
  <2>3. write'["main"] = write["main"]
    <3>1. UNCHANGED write \/ Pause("adj")
      BY <1>3 DEF RunHooks, SummaryFails, clockVars
    <3> QED BY <1>0, <3>1, PauseFacts DEF Written
  <2>4. Pending' = {}
    BY <2>1, <2>2 DEF Pending, Signals, NoWork
  <2> QED BY <1>0, <2>1, <2>2, <2>3, <2>4, NonePending DEF mainVars
<1>4. CASE EndBatch
  <2>1. /\ adj = "exit" /\ adj' = "work" /\ UNCHANGED <<queue, work>> /\ inBatch' = FALSE
    BY <1>4 DEF EndBatch, ExitBatch
  <2>2. Pending = {}
    BY <2>1 DEF BatchInv
  <2>3. Pending' = {}
    BY <2>1, <2>2 DEF Pending, Signals
  <2> QED BY <2>1, <2>3, NonePending
<1>5. CASE Adjudicate
  <2>1. /\ UNCHANGED clockVars /\ work' = NoWork /\ adj' = "idle" /\ work.batches = {}
        /\ \/ queue' = queue
           \/ queue' = queue \union {[kind |-> "wakeup", tick |-> work.tick + 1, hours |-> 0]}
    BY <1>5 DEF Adjudicate
  <2>2. Pending' = Pending /\ Signals' = Signals /\ work'.batches = {}
    BY <2>1 DEF Pending, Signals, NoWork
  <2>3. NowSim' = NowSim /\ NowSim \in Int
    BY <1>0, <2>1, NowFacts DEF NowSim, clockVars
  <2> QED BY <1>0, <2>1, <2>2, <2>3, StillPending DEF clockVars, mainVars
<1> QED BY <1>1, <1>2, <1>3, <1>4, <1>5 DEF Adj

LEMMA OtherBatches ==
  ASSUME ClockInv, ClockInv', BatchInv,
         \/ Probe \/ AdjWriteFails \/ ProbeWriteFails \/ \E p \in Procs : Commit(p)
         \/ FaultEnds \/ (\E k \in FaultKinds : FaultBegins(k)) \/ UNCHANGED vars
  PROVE  BatchInv'
<1>0. /\ ClockTypes /\ ClockTypes' /\ "probe" \in Procs /\ "main" \in Procs \ {"probe"}
      /\ wall' = wall /\ UNCHANGED mainVars /\ inBatch' = inBatch /\ queue' = queue
  BY DEF ClockInv, Probe, ProbePause, ProbeResume, AdjWriteFails, ProbeWriteFails, Commit, FaultEnds,
         FaultBegins, vars, timeVars, adjVars, clockVars, Procs
<1>1. (work' = work /\ adj' = adj) \/ (work' = NoWork /\ adj' \in {"idle", adj})
  BY DEF Probe, ProbePause, ProbeResume, AdjWriteFails, ProbeWriteFails, Commit, FaultEnds,
         FaultBegins, vars, adjVars
<1>2. Pending' \subseteq Pending /\ Signals' = Signals /\ (work'.batches = work.batches \/ work'.batches = {})
  BY <1>0, <1>1 DEF Pending, Signals, NoWork
<1>3. NowSim <= NowSim' /\ (write["main"] = NoWrite => write'["main"] = NoWrite)
  <2>1. CASE Probe
    <3>1. \/ UNCHANGED <<anchor, write>> \/ Pause("probe") \/ (Paused /\ Resume("probe"))
      BY <2>1 DEF Probe, ProbePause, ProbeResume
    <3>2. CASE UNCHANGED <<anchor, write>>
      BY <1>0, <3>2, NowFacts DEF NowSim
    <3>3. CASE Pause("probe")
      BY <1>0, <3>3, PauseFacts, NowFacts DEF Written
    <3>4. CASE Paused /\ Resume("probe")
      BY <1>0, <3>4, ResumeFacts DEF Written
    <3> QED BY <3>1, <3>2, <3>3, <3>4
  <2>2. CASE ~Probe
    <3>1. /\ anchor' = anchor /\ write \in [Procs -> Row]
          /\ write' = write \/ \E p \in Procs : write' = [write EXCEPT ![p] = NoWrite]
      BY <1>0, <2>2, Coroutines DEF AdjWriteFails, ProbeWriteFails, Commit, FaultEnds, FaultBegins, vars,
         clockVars, ClockTypes, TypeOK
    <3> QED BY <1>0, <3>1, NowFacts DEF NowSim
  <2> QED BY <2>1, <2>2
<1>4. adj' = "idle" => work'.batches = {}
  BY <1>1 DEF BatchInv, NoWork
<1>5. /\ Signals' = {} \/ work'.batches = {}
      /\ adj' \in {"hooks", "exit"} => adj \in {"hooks", "exit"}
  BY <1>1, <1>2 DEF BatchInv
<1> QED BY <1>0, <1>2, <1>3, <1>4, <1>5, StillPending DEF mainVars

LEMMA WallBatches == ASSUME ClockInv, BatchInv, MaxLate = 0, WallPasses PROVE BatchInv'
<1>1. ~Due /\ UNCHANGED <<inBatch, main, write, adj, queue, work>>
  BY DEF ClockInv, ClockTypes, TypeOK, WallPasses, clockVars, mainVars, adjVars
<1>2. ASSUME Pending # {} PROVE FALSE
  <2>1. main = "top" /\ ~inBatch
    BY <1>2 DEF BatchInv
  <2>2. Running /\ up = "up" /\ adj # "hooks"
    BY <2>1 DEF Running, ClockInv, StartInv, BatchInv
  <2>3. work.batches # {} \/ DueItems # {}
    BY <1>2 DEF Pending, Signals, DueItems, BatchInv
  <2>4. adj = "idle" => work.batches = {}
    BY DEF BatchInv
  <2>5. ~Spinning
    BY <2>3, <2>4 DEF Spinning
  <2> QED BY <1>1, <2>2, <2>3, <2>5 DEF Due
<1>3. Pending' = {}
  BY <1>1, <1>2 DEF Pending, Signals
<1> QED BY <1>1, <1>3, NonePending DEF BatchInv

LEMMA BatchStep ==
  ASSUME ClockInv, ClockInv', BatchInv, MaxLate = 0, [Next]_vars PROVE BatchInv'
<1>1. CASE MainWriteFails \/ Crash \/ Stop
  <2>1. Forget
    BY <1>1 DEF MainWriteFails, Crash, Stop
  <2> QED BY <2>1, NonePending DEF Forget, Pending, Signals, NoWork
<1> QED BY <1>1, StartBatches, MainBatches, AdjBatches, OtherBatches, WallBatches DEF Next, Main, Writes

\* Where nothing that is due waits for real time to pass, no tick is handed out while a
\* batch advances the world, through faults, restarts and failing batches: a batch is begun
\* in the unit of time it is signalled in, and until it is left the main loop waits at the
\* top of its pass (TimeEngine.run, batch_advance).
THEOREM NoTickInsideABatch == ASSUME MaxLate = 0 PROVE Spec => NoTickInBatch
<1>1. ClockInv /\ BatchInv /\ [Next]_vars => ClockInv' /\ BatchInv'
  BY ClockStep, BatchStep
<1>2. ClockInv /\ BatchInv => (main = "deliver" => ~inBatch)
  BY DEF BatchInv
<1>3. Init => ClockInv /\ BatchInv
  BY ClockInit, BatchInit
<1>4. (main = "deliver" => ~inBatch) /\ [Next]_vars => [main = "deliver" /\ main' = "top" => ~inBatch]_vars
  OBVIOUS
<1> QED BY <1>1, <1>2, <1>3, <1>4, PTL DEF Spec, NoTickInBatch

-----------------------------------------------------------------------------
(* Ticks, while no fault has begun and nothing waits for real time to pass.  *)

LEMMA QuietInit == Init => QuietInv
BY ClockConstants DEF Init, QuietInv, NoFault, QuietPauses, RanIsHeld, GoalIsNew, Holds, PinIsSaved,
   JumpIsSaved, Paused, Pending, Signals, NoWork, Procs, SimOfTick

\* What has run is held still where an anchor is changed and is not set back.
LEMMA HeldStep ==
  ASSUME ClockTypes, ClockTypes', RanIsHeld, NEW p \in Procs, UNCHANGED write \/ Written(p),
         anchor'.sim >= anchor.sim \/ anchor'.sim = saved.sim, saved' = saved, ran' = ran
  PROVE  RanIsHeld'
<1>1. PICK s \in Int : s = SimOfTick(ran)
  BY TickOrder DEF ClockTypes, TypeOK
<1>2. SimOfTick(ran') = s
  BY <1>1
<1>3. anchor'.sim \in Int /\ anchor.sim \in Int
  BY DEF ClockTypes, TypeOK, Anchor
<1>4. Holds(anchor)' /\ Holds(saved)'
  BY <1>1, <1>2, <1>3 DEF RanIsHeld, Holds
<1>5. ASSUME NEW q \in Procs, write'[q] # NoWrite PROVE Holds(write[q])'
  <2>1. CASE write'[q] = write[q]
    BY <1>1, <1>2, <1>5, <2>1 DEF RanIsHeld, Holds
  <2>2. CASE write'[q] # write[q]
    BY <1>4, <2>2 DEF Written, Holds
  <2> QED BY <2>1, <2>2
<1> QED BY <1>4, <1>5 DEF RanIsHeld

LEMMA StartQuiet ==
  ASSUME TickInv, ClockInv', QuietInv, faults = 0,
         Load \/ Recover \/ RecoverResume \/ BeginCatchup \/ ExitCatchupBatch \/ FinishCatchup
  PROVE  NoFault' /\ QuietPauses' /\ PinIsSaved' /\ JumpIsSaved' /\ (settled' => RanIsHeld' /\ GoalIsNew')
<1>0. ClockTypes /\ ClockTypes' /\ StartInv /\ StartInv' /\ "main" \in Procs /\ "probe" \in Procs \ {"main"}
  BY DEF TickInv, ClockInv, Procs
<1>1. /\ ~Running /\ UNCHANGED <<wall, saved, queue, work, adj, fault, probing>>
      /\ main' \in {"recover", "resume", "plan", "exit", "drive", "top"}
      /\ settled' => settled /\ ran' = ran
  BY DEF Load, Recover, RecoverResume, BeginCatchup, ExitCatchupBatch, FinishCatchup, Running,
         timeVars, adjVars, probeVars, historyVars
<1>2. Pending' = {} /\ adj' = "idle"
  BY <1>0, <1>1 DEF Pending, Signals, NoWork, StartInv
<1>3. /\ UNCHANGED write \/ Written("main")
      /\ anchor'.sim >= anchor.sim \/ anchor'.sim = saved.sim
  BY <1>0, <1>1, StartMoves
<1>4. NoFault'
  <2>1. NoFault
    BY DEF QuietInv
  <2> QED BY <1>0, <1>1, <1>3, <2>1 DEF NoFault, Written
<1>5. QuietPauses'
  BY <1>0, <1>1, <1>2 DEF QuietPauses, StartInv
<1>6. PinIsSaved' /\ JumpIsSaved' /\ GoalIsNew'
  BY <1>1, <1>2 DEF PinIsSaved, JumpIsSaved, GoalIsNew
<1>7. ASSUME settled' PROVE RanIsHeld'
  BY <1>0, <1>1, <1>3, <1>7, HeldStep DEF QuietInv
<1> QED BY <1>4, <1>5, <1>6, <1>7

\* The main loop goes on from a running clock, outside any batch.
LEMMA PassQuiet ==
  ASSUME TickInv, ClockInv', QuietInv, faults = 0, SignalBatch \/ StartPass \/ Aim \/ Pin \/ Deliver
  PROVE  NoFault' /\ QuietPauses' /\ PinIsSaved' /\ JumpIsSaved' /\ (settled' => RanIsHeld' /\ GoalIsNew')
<1>0. /\ ClockTypes /\ ClockTypes' /\ BatchInv /\ "main" \in Procs /\ "probe" \in Procs \ {"main"}
      /\ "adj" \in Procs \ {"main"}
      /\ NoFault /\ QuietPauses /\ PinIsSaved /\ (settled => RanIsHeld /\ GoalIsNew)
  BY DEF TickInv, ClockInv, Procs, QuietInv
<1>1. /\ main \in {"top", "aim", "sleep", "deliver"} /\ write["main"] = NoWrite /\ ~inBatch /\ ~Paused
      /\ UNCHANGED <<wall, saved, adj, fault, probing, settled>>
      /\ main' \in {"top", "aim", "sleep", "deliver"}
  BY <1>0 DEF SignalBatch, StartPass, Aim, Pin, Deliver, Ready, BatchInv, QuietPauses,
         timeVars, clockVars, adjVars, probeVars, historyVars
<1>2. adj' \notin {"hooks", "exit"}
  BY <1>0, <1>1 DEF BatchInv
<1>3. CASE SignalBatch
  <2>1. UNCHANGED <<anchor, write, main, goal, ran>> /\ main = "top"
    BY <1>3 DEF SignalBatch, clockVars, historyVars
  <2> QED BY <1>0, <1>1, <1>2, <2>1
        DEF NoFault, QuietPauses, PinIsSaved, JumpIsSaved, RanIsHeld, GoalIsNew, Holds, Paused
<1>4. CASE StartPass
  <2>1. /\ UNCHANGED <<anchor, write>> \/ SetRatio("main", Segment(wall).ratio)
        /\ ran' = ran /\ main' = "aim" /\ Continuous(Segment(wall))
    BY <1>4 DEF StartPass, historyVars
  <2>2. /\ UNCHANGED write \/ Written("main")
        /\ anchor'.sim >= anchor.sim /\ ~Paused'
    <3>1. CASE UNCHANGED <<anchor, write>>
      BY <1>0, <1>1, <3>1, NowFacts DEF Paused
    <3>2. CASE SetRatio("main", Segment(wall).ratio)
      BY <1>0, <1>1, <2>1, <3>2, RatioFacts, PlanFacts, NowFacts DEF Paused
    <3> QED BY <2>1, <3>1, <3>2
  <2>3. NoFault'
    BY <1>0, <1>1, <2>2 DEF NoFault, Written
  <2>4. settled' => RanIsHeld'
    BY <1>0, <1>1, <2>1, <2>2, HeldStep
  <2> QED BY <1>2, <2>1, <2>2, <2>3, <2>4 DEF QuietPauses, PinIsSaved, JumpIsSaved, GoalIsNew
<1>5. CASE Aim
  <2>1. UNCHANGED <<wall, anchor, write, ran, settled>> /\ goal' = CurrentTick + 1 /\ main' = "sleep"
    BY <1>5 DEF Aim, clockVars, historyVars, timeVars
  <2>2. NowSim' = NowSim /\ NowSim < SimOfTick(goal') /\ CurrentTick \in Int /\ NowSim \in Int
    BY <1>0, <2>1, NowFacts, TickFacts DEF NowSim, CurrentTick
  <2>3. ~GoalReached'
    <3>1. SimOfTick(goal') \in Int
      BY <2>1, <2>2, TickOrder
    <3> QED BY <2>2, <3>1 DEF GoalReached, SimOfTick
  <2>4. ASSUME settled' PROVE RanIsHeld' /\ goal' > ran'
    <3>1. RanIsHeld
      BY <1>0, <1>1, <2>4
    <3>2. PICK r \in Int, g \in Int : r = ran /\ g = goal'
      BY <1>0, <2>1, <2>2 DEF ClockTypes, TypeOK
    <3>3. SimOfTick(r) \in Int /\ SimOfTick(g) \in Int /\ anchor.sim \in Int
      BY <1>0, TickOrder, NowFacts
    <3>4. SimOfTick(r) <= anchor.sim /\ anchor.sim <= NowSim
      BY <1>0, <1>1, <3>1, <3>2, <3>3, NowFacts DEF RanIsHeld, Holds
    <3>5. SimOfTick(r) < SimOfTick(g)
      BY <2>2, <3>2, <3>3, <3>4
    <3>6. r < g
      BY <3>5, TickOrder
    <3> QED BY <2>1, <3>1, <3>2, <3>6, <1>1 DEF RanIsHeld, Holds
  <2> QED BY <1>0, <1>1, <1>2, <2>1, <2>3, <2>4
        DEF NoFault, QuietPauses, PinIsSaved, JumpIsSaved, GoalIsNew, Paused
<1>6. CASE Pin
  <2>1. /\ main = "sleep" /\ main' = "deliver" /\ ran' = ran /\ goal' = goal /\ GoalReached
        /\ Persist("main", [anchor EXCEPT !.sim = SimOfTick(goal), !.wall = wall])
    BY <1>6 DEF Pin, AdvanceTo, historyVars
  <2>2. PICK s \in Int : s = SimOfTick(goal)
    BY <1>0, TickOrder DEF ClockTypes, TypeOK
  <2>3. Persist("main", [anchor EXCEPT !.sim = s, !.wall = wall])
    BY <2>1, <2>2
  <2>4. Written("main") /\ anchor'.sim = s /\ ~Paused'
    BY <1>0, <1>1, <2>3, JumpFacts
  <2>5. NoFault' /\ write'["adj"] = NoWrite
    BY <1>0, <1>1, <2>1, <2>4 DEF NoFault, Written, PinIsSaved
  <2>6. SimOfTick(goal') = s
    BY <2>1, <2>2
  <2>7. write'["main"] # NoWrite /\ write'["main"].sim = s
    BY <2>4 DEF Written
  <2>8. ASSUME settled' PROVE RanIsHeld'
    <3>1. RanIsHeld /\ goal > ran
      BY <1>0, <1>1, <2>1, <2>8 DEF GoalIsNew
    <3>2. SimOfTick(ran) < s /\ SimOfTick(ran) \in Int
      <4>1. PICK r \in Int, g \in Int : r = ran /\ g = goal
        BY <1>0 DEF ClockTypes, TypeOK
      <4> QED BY <2>2, <3>1, <4>1, TickOrder
    <3>3. SimOfTick(ran') = SimOfTick(ran)
      BY <2>1
    <3>4. \A q \in Procs : write'[q] # NoWrite => q = "main"
      BY <1>0, <1>1, <2>5 DEF NoFault, Procs
    <3>5. Holds(anchor)' /\ Holds(saved)' /\ Holds(write["main"])'
      BY <1>1, <2>4, <2>7, <3>1, <3>2, <3>3 DEF RanIsHeld, Holds
    <3> QED BY <3>4, <3>5 DEF RanIsHeld
  <2> QED BY <1>0, <1>1, <1>2, <2>1, <2>4, <2>5, <2>6, <2>7, <2>8
        DEF QuietPauses, PinIsSaved, JumpIsSaved, GoalIsNew
<1>7. CASE Deliver
  <2>1. UNCHANGED <<anchor, write, goal>> /\ ran' = goal /\ main' = "top" /\ main = "deliver"
    BY <1>7 DEF Deliver, clockVars
  <2>2. /\ saved.sim = SimOfTick(goal) /\ anchor.sim = SimOfTick(goal)
        /\ write["adj"] = NoWrite /\ write["probe"] = NoWrite
    BY <1>0, <1>1, <2>1 DEF PinIsSaved, NoFault
  <2>3. SimOfTick(ran') = SimOfTick(goal) /\ SimOfTick(goal) \in Int
    BY <1>0, <2>1, TickOrder DEF ClockTypes, TypeOK
  <2>4. RanIsHeld'
    BY <1>1, <2>1, <2>2, <2>3 DEF RanIsHeld, Holds, Procs
  <2> QED BY <1>0, <1>1, <1>2, <2>1, <2>4
        DEF NoFault, QuietPauses, PinIsSaved, JumpIsSaved, GoalIsNew, Paused
<1> QED BY <1>3, <1>4, <1>5, <1>6, <1>7

\* A batch jumps over ticks and holds them; its end, and a pause in it, keep the time.
LEMMA AdjQuiet ==
  ASSUME TickInv, ClockInv', QuietInv, faults = 0, Adj
  PROVE  NoFault' /\ QuietPauses' /\ PinIsSaved' /\ JumpIsSaved' /\ (settled' => RanIsHeld' /\ GoalIsNew')
<1>0. /\ ClockTypes /\ ClockTypes' /\ BatchInv /\ "adj" \in Procs /\ "probe" \in Procs \ {"adj"}
      /\ "main" \in Procs \ {"adj"} /\ wall' = wall /\ saved' = saved
      /\ UNCHANGED mainVars /\ UNCHANGED probeVars /\ Running
      /\ NoFault /\ QuietPauses /\ PinIsSaved /\ JumpIsSaved /\ (settled => RanIsHeld /\ GoalIsNew)
  BY DEF TickInv, ClockInv, QuietInv, Adj, PopDue, BeginBatch, RunHooks, SummaryFails, EndBatch,
         Adjudicate, timeVars, clockVars, AdjReady, Procs
<1>1. CASE PopDue \/ Adjudicate
  <2>1. /\ UNCHANGED <<anchor, write, ran, settled>> /\ adj' \in {"work", "idle"}
        /\ GoalReached' = GoalReached
    BY <1>0, <1>1 DEF PopDue, Adjudicate, clockVars, historyVars, mainVars, GoalReached, NowSim
  <2>2. Pending' \subseteq Pending
    BY <1>1 DEF PopDue, Adjudicate, Pending, Signals, DueItems, NoWork
  <2>3. NoFault' /\ PinIsSaved' /\ JumpIsSaved'
    BY <1>0, <2>1 DEF NoFault, PinIsSaved, JumpIsSaved, probeVars, mainVars
  <2>4. QuietPauses'
    BY <1>0, <2>1, <2>2 DEF QuietPauses, Paused, mainVars
  <2>5. settled' => RanIsHeld' /\ GoalIsNew'
    BY <1>0, <2>1 DEF RanIsHeld, Holds, GoalIsNew, mainVars
  <2> QED BY <2>3, <2>4, <2>5
<1>2. ASSUME NEW i \in work.batches, BeginBatch(i)
      PROVE  NoFault' /\ QuietPauses' /\ PinIsSaved' /\ JumpIsSaved' /\ ~settled'
  <2>1. /\ adj' = "hooks" /\ settled' = FALSE /\ EnterBatch("adj", i.hours)
        /\ ran' = TickOf(SimAt(anchor', wall)) /\ queue' = queue
        /\ work' = [work EXCEPT !.batches = @ \ {i}]
    BY <1>2 DEF BeginBatch
  <2>2. i \in Item /\ i.hours \in Int
    BY <1>0 DEF ClockTypes, TypeOK, Item
  <2>3. /\ Pending # {} /\ main = "top" /\ ~Paused
    BY <1>0, <1>2 DEF BatchInv, Pending, QuietPauses
  <2>4. Written("adj") /\ ~Paused' /\ NowSim' = anchor'.sim
    BY <1>0, <2>1, <2>2, <2>3, EnterFacts
  <2>5. ran' = TickOf(anchor'.sim) /\ anchor'.sim \in Int
    BY <1>0, <2>1, <2>4, WrittenTick DEF ClockTypes, TypeOK, Anchor
  <2>6. Holds(anchor)' /\ Holds(write["adj"])'
    <3>1. PICK s \in Int : s = anchor'.sim
      BY <2>5
    <3>2. SimOfTick(TickOf(s)) <= s
      BY TickFacts
    <3>3. SimOfTick(ran') \in Int /\ SimOfTick(ran') <= s
      BY <2>5, <3>1, <3>2, TickFacts, TickOrder
    <3> QED BY <2>4, <3>1, <3>3 DEF Holds, Written, SimOfTick
  <2>7. NoFault'
    BY <1>0, <2>4 DEF NoFault, Written, probeVars
  <2>8. main' = "top"
    BY <1>0, <2>3 DEF mainVars
  <2> QED BY <2>1, <2>4, <2>6, <2>7, <2>8 DEF QuietPauses, PinIsSaved, JumpIsSaved, Written
<1>3. CASE RunHooks \/ SummaryFails
  <2>1. /\ adj = "hooks" /\ adj' = "exit" /\ queue' = queue /\ work' \in {work, NoWork} /\ ran' = ran
        /\ write["adj"] = NoWrite
        /\ settled' => settled \/ RunHooks
        /\ UNCHANGED <<anchor, write>> \/ Pause("adj")
    BY <1>3 DEF RunHooks, SummaryFails, clockVars, historyVars, AdjReady, Ready
  <2>2. /\ inBatch /\ main = "top" /\ write["main"] = NoWrite /\ Pending = {} /\ ~Paused
    BY <1>0, <2>1 DEF BatchInv, QuietPauses
  <2>3. Holds(anchor) /\ Holds(saved) /\ \A q \in Procs : write[q] = NoWrite
    BY <1>0, <2>1, <2>2 DEF JumpIsSaved, NoFault, Procs
  <2>4. RanIsHeld
    BY <2>3 DEF RanIsHeld
  <2>5. /\ UNCHANGED write \/ Written("adj")
        /\ anchor'.sim >= anchor.sim
        /\ Paused' => anchor'.wall = anchor'.paused
    <3>1. CASE UNCHANGED <<anchor, write>>
      BY <1>0, <2>2, <3>1, NowFacts DEF Paused
    <3>2. CASE Pause("adj")
      BY <1>0, <2>2, <3>2, PauseFacts, NowFacts
    <3> QED BY <2>1, <3>1, <3>2
  <2>6. RanIsHeld'
    BY <1>0, <2>1, <2>4, <2>5, HeldStep
  <2>7. Pending' = {} /\ main' = "top"
    BY <1>0, <2>1, <2>2 DEF Pending, Signals, NoWork, mainVars
  <2>8. NoFault'
    BY <1>0, <2>5 DEF NoFault, Written, probeVars
  <2> QED BY <2>1, <2>5, <2>6, <2>7, <2>8 DEF QuietPauses, PinIsSaved, JumpIsSaved, GoalIsNew
<1>4. CASE EndBatch
  <2>1. /\ adj = "exit" /\ adj' = "work" /\ UNCHANGED <<queue, work, ran, settled>> /\ ExitBatch("adj")
    BY <1>4 DEF EndBatch, historyVars
  <2>2. main = "top" /\ Pending = {}
    BY <1>0, <2>1 DEF BatchInv
  <2>3. NowSim >= anchor.sim
    BY <1>0, <2>1, NowFacts DEF QuietPauses
  <2>4. Written("adj") /\ anchor'.sim >= anchor.sim /\ Paused' = Paused
    BY <1>0, <2>1, <2>3, ExitFacts
  <2>5. settled' => RanIsHeld'
    BY <1>0, <2>1, <2>4, HeldStep
  <2>6. Pending' = {} /\ main' = "top"
    BY <1>0, <2>1, <2>2 DEF Pending, Signals, mainVars
  <2>7. NoFault'
    BY <1>0, <2>4 DEF NoFault, Written, probeVars
  <2> QED BY <2>1, <2>5, <2>6, <2>7 DEF QuietPauses, PinIsSaved, JumpIsSaved, GoalIsNew
<1> QED BY <1>1, <1>2, <1>3, <1>4 DEF Adj

LEMMA CommitQuiet ==
  ASSUME TickInv, ClockInv', QuietInv, faults = 0, NEW p \in Procs, Commit(p)
  PROVE  NoFault' /\ QuietPauses' /\ PinIsSaved' /\ JumpIsSaved' /\ (settled' => RanIsHeld' /\ GoalIsNew')
<1>0. /\ BatchInv /\ NoFault /\ QuietPauses /\ PinIsSaved /\ JumpIsSaved
      /\ (settled => RanIsHeld /\ GoalIsNew)
  BY DEF TickInv, QuietInv
<1>1. /\ UNCHANGED <<wall, anchor, inBatch, main, goal, adj, queue, work, fault, probing, ran, settled>>
      /\ write[p] # NoWrite /\ saved' = write[p]
      /\ write' = [write EXCEPT ![p] = NoWrite] /\ write \in [Procs -> Row]
  BY DEF Commit, timeVars, mainVars, adjVars, probeVars, historyVars, TickInv, ClockInv, ClockTypes, TypeOK
<1>2. write'[p] = NoWrite /\ \A q \in Procs : write'[q] = NoWrite \/ write'[q] = write[q]
  BY <1>1
<1>3. NoFault'
  BY <1>0, <1>1, <1>2, Coroutines DEF NoFault
<1>4. QuietPauses'
  BY <1>0, <1>1 DEF QuietPauses, Paused, Pending, Signals
<1>5. PinIsSaved'
  <2>1. GoalReached' = GoalReached
    BY <1>1 DEF GoalReached, NowSim
  <2>2. ASSUME main = "deliver" PROVE p = "main"
    BY <1>0, <1>1, <2>2 DEF PinIsSaved, NoFault, Procs
  <2> QED BY <1>0, <1>1, <1>2, <2>1, <2>2, Coroutines DEF PinIsSaved
<1>6. JumpIsSaved'
  <2>1. ASSUME adj = "hooks" PROVE p = "adj"
    BY <1>0, <1>1, <2>1 DEF BatchInv, NoFault, Procs
  <2> QED BY <1>0, <1>1, <1>2, <2>1 DEF JumpIsSaved, Holds
<1>7. settled' => RanIsHeld' /\ GoalIsNew'
  BY <1>0, <1>1, <1>2 DEF RanIsHeld, Holds, GoalIsNew
<1> QED BY <1>3, <1>4, <1>5, <1>6, <1>7

\* A stop pins the clock to the tick it was waiting for, without running it.
LEMMA EndQuiet ==
  ASSUME TickInv, ClockInv', QuietInv, faults = 0, Crash \/ Stop
  PROVE  NoFault' /\ QuietPauses' /\ PinIsSaved' /\ JumpIsSaved' /\ (settled' => RanIsHeld' /\ GoalIsNew')
<1>0. NoFault /\ (settled => RanIsHeld /\ GoalIsNew) /\ ClockTypes
  BY DEF TickInv, QuietInv, ClockInv
<1>1. Forget /\ UNCHANGED <<fault, ran, settled>>
  BY DEF Crash, Stop, historyVars
<1>2. /\ main' = "load" /\ adj' = "idle" /\ Pending' = {} /\ ~probing' /\ \A q \in Procs : write'[q] = NoWrite
  BY <1>1 DEF Forget, Pending, Signals, NoWork
<1>3. NoFault' /\ QuietPauses' /\ PinIsSaved' /\ JumpIsSaved' /\ GoalIsNew'
  BY <1>0, <1>1, <1>2, Coroutines DEF NoFault, QuietPauses, PinIsSaved, JumpIsSaved, GoalIsNew
<1>4. ASSUME settled' PROVE RanIsHeld'
  <2>1. RanIsHeld /\ GoalIsNew
    BY <1>0, <1>1, <1>4
  <2>2. CASE Crash
    BY <1>1, <1>2, <2>1, <2>2 DEF Crash, RanIsHeld, Holds
  <2>3. CASE Stop
    <3>1. saved'.sim = anchor'.sim
      BY <2>3 DEF Stop
    <3>2. CASE main = "sleep"
      <4>1. PICK s \in Int, r \in Int, g \in Int : s = SimOfTick(g) /\ r = ran /\ g = goal
        BY <1>0, TickOrder DEF ClockTypes, TypeOK
      <4>2. anchor'.sim = s
        <5>1. anchor' = [anchor EXCEPT !.sim = s, !.wall = wall]
          BY <2>3, <3>2, <4>1 DEF Stop
        <5> QED BY <1>0, <5>1, NowFacts DEF Anchor
      <4>3. SimOfTick(r) < s /\ SimOfTick(r) \in Int
        BY <2>1, <3>2, <4>1, TickOrder DEF GoalIsNew
      <4>4. SimOfTick(ran') = SimOfTick(r)
        BY <1>1, <4>1
      <4> QED BY <1>2, <3>1, <4>2, <4>3, <4>4 DEF RanIsHeld, Holds
    <3>3. CASE main # "sleep"
      <4>1. anchor' = anchor
        BY <2>3, <3>3 DEF Stop
      <4> QED BY <1>1, <1>2, <2>1, <3>1, <4>1 DEF RanIsHeld, Holds
    <3> QED BY <3>2, <3>3
  <2> QED BY <2>2, <2>3
<1> QED BY <1>3, <1>4

LEMMA WallQuiet ==
  ASSUME TickInv, ClockInv', QuietInv, faults = 0, MaxLate = 0, WallPasses
  PROVE  NoFault' /\ QuietPauses' /\ PinIsSaved' /\ JumpIsSaved' /\ (settled' => RanIsHeld' /\ GoalIsNew')
<1>0. /\ NoFault /\ QuietPauses /\ PinIsSaved /\ JumpIsSaved /\ (settled => RanIsHeld /\ GoalIsNew)
      /\ ClockTypes /\ StartInv
  BY DEF TickInv, QuietInv, ClockInv
<1>1. /\ ~Due /\ UNCHANGED <<anchor, saved, write, main, goal, adj, queue, work, fault, probing, ran, settled>>
  BY <1>0 DEF ClockTypes, TypeOK, WallPasses, clockVars, mainVars, adjVars, probeVars
<1>2. Pending' = Pending /\ Paused' = Paused
  BY <1>1 DEF Pending, Signals, Paused
<1>3. PinIsSaved'
  <2>1. ASSUME main \in {"sleep", "deliver"} PROVE up = "up"
    BY <1>0, <2>1 DEF StartInv
  <2>2. main # "deliver" /\ (main = "sleep" => write["adj"] = NoWrite)
    <3>1. main \in {"sleep", "deliver"} => ~Spinning
      BY <1>0 DEF Spinning, QuietPauses
    <3> QED BY <1>1, <2>1, <3>1, Coroutines DEF Due, MainDue
  <2> QED BY <1>1, <2>2 DEF PinIsSaved
<1> QED BY <1>0, <1>1, <1>2, <1>3
     DEF NoFault, QuietPauses, JumpIsSaved, RanIsHeld, Holds, GoalIsNew

LEMMA QuietStep ==
  ASSUME TickInv, ClockInv', MaxLate = 0, [Next]_vars PROVE QuietInv'
<1> SUFFICES ASSUME faults' = 0
             PROVE  NoFault' /\ QuietPauses' /\ PinIsSaved' /\ JumpIsSaved'
                    /\ (settled' => RanIsHeld' /\ GoalIsNew')
  BY DEF QuietInv
<1>1. faults \in Nat /\ QuietInv
  BY ClockConstants DEF TickInv, ClockInv, ClockTypes, TypeOK
<1>2. CASE UNCHANGED vars
  <2>1. faults = 0 /\ GoalReached' = GoalReached
    BY <1>2 DEF vars, envVars, GoalReached, NowSim, clockVars, mainVars, timeVars
  <2>2. Pending' = Pending /\ Paused' = Paused
    BY <1>2 DEF vars, Pending, Signals, Paused, adjVars, clockVars
  <2> QED BY <1>1, <1>2, <2>1, <2>2
        DEF QuietInv, vars, clockVars, mainVars, adjVars, probeVars, historyVars, NoFault, QuietPauses,
            PinIsSaved, JumpIsSaved, RanIsHeld, Holds, GoalIsNew
<1>3. ASSUME \E k \in FaultKinds : FaultBegins(k) PROVE FALSE
  <2>1. faults' = faults + 1
    BY <1>3 DEF FaultBegins
  <2> QED BY <1>1, <2>1
<1>4. CASE Next
  <2>1. faults = 0
    BY <1>3, <1>4 DEF Next, Main, Load, Recover, RecoverResume, BeginCatchup, ExitCatchupBatch,
           FinishCatchup, SignalBatch, StartPass, Aim, Pin, Deliver, Adj, PopDue, BeginBatch, RunHooks,
           SummaryFails, EndBatch, Adjudicate, Probe, ProbePause, ProbeResume, Writes, Commit,
           MainWriteFails, AdjWriteFails, ProbeWriteFails, FaultEnds, Crash, Stop, WallPasses, envVars
  <2>2. ~(Probe \/ MainWriteFails \/ AdjWriteFails \/ ProbeWriteFails \/ FaultEnds)
    BY <1>1, <2>1 DEF QuietInv, NoFault, Probe, ProbePause, ProbeResume, MainWriteFails, AdjWriteFails,
                      ProbeWriteFails, FaultEnds
  <2> QED BY <1>1, <1>3, <1>4, <2>1, <2>2, StartQuiet, PassQuiet, AdjQuiet, CommitQuiet, EndQuiet, WallQuiet
        DEF Next, Main, Writes
<1> QED BY <1>2, <1>4

\* Where nothing that is due waits for real time to pass, and up to the first fault, no tick is
\* handed to adjudication twice, over crashes, stops, catch-ups and batches: the row a restart
\* reads holds every tick that has run, because a tick is pinned, and a jump written, before
\* anything acts on it (_advance_to, enter_batch_mode).
THEOREM NoTickRunsTwice == ASSUME MaxLate = 0 PROVE Spec => NoTickTwice
<1>1. TickInv /\ [Next]_vars => TickInv'
  <2>1. TickInv /\ [Next]_vars => ClockInv' /\ BatchInv'
    BY ClockStep, BatchStep DEF TickInv
  <2> QED BY <2>1, QuietStep DEF TickInv
<1>2. Init => TickInv
  BY ClockInit, BatchInit, QuietInit DEF TickInv
<1>3. TickInv /\ [Next]_vars => [main = "deliver" /\ main' = "top" /\ settled /\ faults = 0 => ran' > ran]_vars
  <2> SUFFICES ASSUME TickInv, Next, main = "deliver", main' = "top", settled, faults = 0
               PROVE  ran' > ran
    BY Zenon
  <2>1. Deliver
    BY DEF Next, Main, Load, Recover, RecoverResume, BeginCatchup, SignalBatch, StartPass, Aim, Pin,
           ExitCatchupBatch, FinishCatchup,
           Adj, PopDue, BeginBatch, RunHooks, SummaryFails, EndBatch, Adjudicate, AdjReady,
           Running, Probe, ProbePause, ProbeResume, Writes, Commit, MainWriteFails, AdjWriteFails,
           ProbeWriteFails, Forget, FaultBegins, FaultEnds, Crash, Stop, WallPasses, mainVars
  <2>2. goal > ran /\ ran' = goal
    BY <2>1 DEF Deliver, TickInv, QuietInv, GoalIsNew
  <2> QED BY <2>2
<1> QED BY <1>1, <1>2, <1>3, PTL DEF Spec, NoTickTwice

-----------------------------------------------------------------------------
(* The order of the ticks.                                                   *)

LEMMA NextTick == ASSUME NEW n \in Int PROVE SimOfTick(n + 1) = SimOfTick(n) + TickLen
<1>1. PICK l \in Nat : l = TickLen
  BY ClockConstants
<1>2. (n + 1) * l = n * l + l
  BY <1>1
<1> QED BY <1>1, <1>2 DEF SimOfTick

\* The tick of the time at which a tick begins.
LEMMA TickAtStart == ASSUME NEW n \in Int PROVE TickOf(SimOfTick(n)) = n
<1>1. PICK l \in Nat \ {0}, s \in Int : l = TickLen /\ s = n * l
  BY ClockConstants
<1>2. s \div l = n
  BY <1>1
<1> QED BY <1>1, <1>2 DEF SimOfTick, TickOf

\* The kernel is not ended, on a day without batches whose hours are worth a tick at most.
SteadyDay == \A u \in DOMAIN Day : Continuous(Day[u]) /\ Day[u].ratio <= TickLen

LEMMA SteadySegments ==
  ASSUME SteadyDay, NEW w \in Nat
  PROVE  Continuous(Segment(w)) /\ Segment(w).ratio \in Nat /\ Segment(w).ratio <= TickLen
BY SegmentInDay, SegmentFacts DEF SteadyDay

LEMMA SteadyInit == Init => SteadyInv
<1> SUFFICES ASSUME Init PROVE SteadyInv
  OBVIOUS
<1>1. Pending = {}
  BY DEF Init, Pending, Signals, NoWork
<1>2. anchor.ratio = 1 /\ ~Paused /\ 1 <= TickLen
  BY ClockConstants DEF Init, Paused
<1>3. /\ main = "load" /\ up = "down" /\ ~inBatch /\ adj = "idle" /\ ran = 0
      /\ saved.sim = 0 /\ saved.tick = 0 /\ saved.paused = None
  BY DEF Init
<1> QED BY <1>1, <1>2, <1>3 DEF SteadyInv

\* A step of the order of the ticks.
OrderStep ==
  /\ up = "up" /\ up' = "up" /\ Paused /\ Paused' => CurrentTick' = CurrentTick
  /\ up = "up" /\ up' = "up" => CurrentTick' >= CurrentTick
  /\ main = "deliver" /\ main' = "top" => ran' <= ran + 1

\* A step that leaves the time where it is, and the main loop.
LEMMA SteadyKept ==
  ASSUME ClockTypes, SteadyInv, wall' = wall, NowSim' = NowSim,
         UNCHANGED <<main, goal, ran, saved, up, inBatch>> \/
           (UNCHANGED <<main, goal, ran, up, inBatch>> /\ main # "load"),
         Pending' = {}, adj' \notin {"hooks", "exit"}, anchor'.ratio <= TickLen,
         anchor' = anchor \/ (main # "recover" /\ ~Paused') \/
           (main # "recover" /\ anchor'.paused = wall /\ anchor'.wall = wall),
         Spinning => Spinning'
  PROVE  SteadyInv' /\ OrderStep
<1>1. CurrentTick' = CurrentTick /\ CurrentTick \in Int
  BY NowFacts DEF CurrentTick
<1>2. SimOfTick(goal' + 1) = SimOfTick(goal + 1) /\ GoalReached' = GoalReached
  BY DEF GoalReached
<1>3. Paused' => anchor'.wall = anchor'.paused
  BY DEF SteadyInv, Paused
<1>4. main' = "sleep" /\ Paused' /\ GoalReached' => anchor'.paused = wall' \/ Spinning'
  BY <1>2 DEF SteadyInv, Paused
<1>5. main' = "recover" => ~Paused' /\ anchor'.wall = wall'
  BY DEF SteadyInv, Paused
<1>6. SteadyInv'
  BY <1>1, <1>2, <1>3, <1>4, <1>5 DEF SteadyInv
<1>7. OrderStep
  BY <1>1 DEF OrderStep
<1> QED BY <1>6, <1>7

LEMMA SteadyMain ==
  ASSUME ClockTypes, ClockTypes', StartInv, SteadyInv, SteadyDay, Main
  PROVE  SteadyInv' /\ OrderStep
<1>0. "main" \in Procs /\ wall \in Nat /\ CurrentTick \in Int /\ NowSim \in Int /\ ran \in Int
      /\ goal \in Int /\ anchor.ratio \in Nat
  BY Coroutines, NowFacts DEF ClockTypes, TypeOK
<1>1. CASE Load
  <2>1. /\ main = "load" /\ up = "down" /\ ran = 0 /\ saved.sim = 0 /\ saved.tick = 0 /\ saved.paused = None
        /\ main' = "recover" /\ UNCHANGED <<wall, ran, inBatch, queue, work, adj>>
    BY <1>1 DEF Load, SteadyInv, timeVars, historyVars, adjVars
  <2>2. PICK row : row = [sim |-> saved.sim, wall |-> saved.wall, ratio |-> saved.ratio,
                          paused |-> saved.paused]
    OBVIOUS
  <2>3. PICK r \in Nat : r = RatioOr(row.ratio) /\ r <= TickLen
    BY <1>0, SteadySegments DEF RatioOr
  <2>4. PICK a : a = [row EXCEPT !.wall = wall, !.ratio = r]
    OBVIOUS
  <2>5. anchor' = a
    BY <1>1, <2>1, <2>2, <2>3, <2>4 DEF Load, Persist
  <2>6. saved \in Row
    BY DEF ClockTypes, TypeOK
  <2>7. a.wall = wall /\ a.ratio = r /\ a.sim = 0 /\ a.paused = None
    BY <2>1, <2>2, <2>4, <2>6 DEF Row
  <2>8. NowSim' = 0
    <3>1. SimAt(a, wall) = a.sim
      BY <1>0, <2>7, SimAtFacts
    <3> QED BY <2>1, <2>5, <2>7, <3>1 DEF NowSim
  <2>9. CurrentTick' = 0
    <3>1. SimOfTick(0) = 0
      BY ClockConstants DEF SimOfTick
    <3>2. TickOf(0) = 0
      BY <3>1, TickAtStart
    <3> QED BY <2>8, <3>2 DEF CurrentTick
  <2>10. Pending' = {} /\ adj' = "idle"
    BY <2>1 DEF Pending, Signals, NoWork, StartInv, Running
  <2>11. ~Paused' /\ anchor'.wall = wall' /\ anchor'.ratio <= TickLen
    BY <2>1, <2>3, <2>5, <2>7 DEF Paused
  <2>12. SteadyInv'
    BY <2>1, <2>9, <2>10, <2>11 DEF SteadyInv
  <2> QED BY <2>1, <2>12 DEF OrderStep
<1>2. CASE Recover
  <2>1. /\ main = "recover" /\ UNCHANGED <<wall, ran, inBatch, queue, work, adj>>
        /\ ~Paused /\ wall - anchor.wall <= DriftLimit
    BY <1>0, <1>2, ClockConstants DEF Recover, SteadyInv, timeVars, historyVars, adjVars
  <2>2. main' = "top" /\ UNCHANGED <<anchor, write>>
    BY <1>2, <2>1 DEF Recover
  <2>3. Pending' = {} /\ Paused' = Paused /\ CurrentTick' = CurrentTick
    BY <2>1, <2>2 DEF Pending, Signals, SteadyInv, Paused, CurrentTick, NowSim
  <2> QED BY <1>0, <2>1, <2>2, <2>3 DEF SteadyInv, OrderStep
<1>3. CASE RecoverResume \/ BeginCatchup \/ ExitCatchupBatch \/ FinishCatchup
  BY <1>3 DEF RecoverResume, BeginCatchup, ExitCatchupBatch, FinishCatchup, SteadyInv
<1>4. CASE SignalBatch
  BY <1>0, <1>4, SteadySegments DEF SignalBatch
<1>5. CASE StartPass
  <2>1. /\ main = "top" /\ main' = "aim" /\ ~Paused
        /\ UNCHANGED <<wall, ran, inBatch, queue, work, adj>>
        /\ UNCHANGED <<anchor, write>> \/ SetRatio("main", Segment(wall).ratio)
    BY <1>5 DEF StartPass, timeVars, historyVars, adjVars
  <2>2. NowSim' = NowSim /\ ~Paused' /\ anchor'.ratio <= TickLen
    <3>1. CASE UNCHANGED <<anchor, write>>
      BY <2>1, <3>1 DEF NowSim, Paused, SteadyInv
    <3>2. CASE SetRatio("main", Segment(wall).ratio)
      BY <1>0, <2>1, <3>2, SteadySegments, RatioFacts DEF Paused
    <3> QED BY <2>1, <3>1, <3>2
  <2>3. Pending' = {} /\ CurrentTick' = CurrentTick
    BY <2>1, <2>2 DEF Pending, Signals, SteadyInv, CurrentTick
  <2> QED BY <1>0, <2>1, <2>2, <2>3 DEF SteadyInv, OrderStep
<1>6. CASE Aim
  <2>1. /\ main = "aim" /\ main' = "sleep" /\ goal' = CurrentTick + 1
        /\ UNCHANGED <<wall, anchor, ran, inBatch, queue, work, adj>>
    BY <1>6 DEF Aim, timeVars, clockVars, historyVars, adjVars
  <2>2. NowSim' = NowSim /\ Paused' = Paused /\ CurrentTick' = CurrentTick /\ Pending' = {}
    BY <2>1 DEF NowSim, Paused, CurrentTick, Pending, Signals, SteadyInv
  <2>3. PICK g \in Int : g = goal' /\ g <= ran + 1 /\ NowSim < SimOfTick(g)
    BY <1>0, <2>1, TickFacts DEF SteadyInv, CurrentTick
  <2>4. SimOfTick(g) \in Int /\ SimOfTick(g + 1) \in Int /\ SimOfTick(g) < SimOfTick(g + 1)
    BY TickOrder
  <2>5. ~GoalReached' /\ NowSim' < SimOfTick(goal' + 1)
    BY <1>0, <2>2, <2>3, <2>4 DEF GoalReached
  <2> QED BY <1>0, <2>1, <2>2, <2>3, <2>5 DEF SteadyInv, OrderStep
<1>7. CASE Pin
  <2>1. /\ main = "sleep" /\ main' = "deliver" /\ GoalReached
        /\ UNCHANGED <<wall, ran, goal, inBatch, queue, work, adj>>
        /\ Persist("main", [anchor EXCEPT !.sim = SimOfTick(goal), !.wall = wall])
    BY <1>7 DEF Pin, AdvanceTo, timeVars, historyVars, adjVars
  <2>2. PICK g \in Int : g = goal
    BY <1>0
  <2>3. PICK s \in Int : s = SimOfTick(g)
    BY TickOrder
  <2>4. Persist("main", [anchor EXCEPT !.sim = s, !.wall = wall])
    BY <2>1, <2>2, <2>3
  <2>5. Paused => anchor.paused = wall
    BY <1>7, <2>1 DEF SteadyInv, Pin, Ready
  <2>6. /\ anchor'.wall = wall /\ anchor'.paused = anchor.paused /\ anchor'.ratio = anchor.ratio
        /\ Paused' = Paused /\ NowSim' = s
    BY <1>0, <2>1, <2>4, <2>5, JumpFacts
  <2>7. CurrentTick' = g
    BY <2>3, <2>6, TickAtStart DEF CurrentTick
  <2>8. CurrentTick = g
    <3>1. PICK c \in Int, d \in Int : c = CurrentTick /\ d = g + 1
      BY <1>0
    <3>2. SimOfTick(c) <= NowSim /\ NowSim < SimOfTick(c + 1)
      BY <1>0, <3>1, TickFacts DEF CurrentTick
    <3>3. s <= NowSim /\ NowSim < SimOfTick(d)
      BY <2>1, <2>2, <2>3, <3>1 DEF SteadyInv, GoalReached
    <3>4. SimOfTick(c) \in Int /\ SimOfTick(c + 1) \in Int /\ SimOfTick(d) \in Int /\ c + 1 \in Int
      BY <3>1, TickOrder
    <3>5. SimOfTick(c) < SimOfTick(d) /\ SimOfTick(g) < SimOfTick(c + 1)
      BY <1>0, <2>3, <3>2, <3>3, <3>4
    <3>6. c < d /\ g < c + 1
      BY <3>4, <3>5, TickOrder
    <3> QED BY <3>1, <3>6
  <2>9. NowSim' < SimOfTick(goal' + 1)
    BY <2>1, <2>2, <2>3, <2>6, TickOrder
  <2>10. Pending' = {}
    BY <2>1 DEF Pending, Signals, SteadyInv
  <2>11. Paused' => anchor'.wall = anchor'.paused
    BY <2>5, <2>6
  <2> QED BY <1>0, <2>1, <2>6, <2>7, <2>8, <2>9, <2>10, <2>11 DEF SteadyInv, OrderStep
<1>8. CASE Deliver
  <2>1. /\ main = "deliver" /\ main' = "top" /\ ran' = goal
        /\ queue' = queue \union {[kind |-> "tick", tick |-> goal, hours |-> 0]}
        /\ UNCHANGED <<wall, anchor, goal, inBatch, work, adj>>
    BY <1>8 DEF Deliver, timeVars, clockVars, adjVars
  <2>2. NowSim' = NowSim /\ Paused' = Paused /\ CurrentTick' = CurrentTick /\ Pending' = {}
    BY <2>1 DEF NowSim, Paused, CurrentTick, Pending, Signals, SteadyInv
  <2>3. CurrentTick <= goal
    <3>1. PICK c \in Int, d \in Int : c = CurrentTick /\ d = goal + 1
      BY <1>0
    <3>2. SimOfTick(c) <= NowSim /\ NowSim < SimOfTick(d)
      BY <1>0, <2>1, <3>1, TickFacts DEF CurrentTick, SteadyInv
    <3>3. SimOfTick(c) \in Int /\ SimOfTick(d) \in Int
      BY TickOrder
    <3>4. SimOfTick(c) < SimOfTick(d)
      BY <1>0, <3>2, <3>3
    <3>5. c < d
      BY <3>4, TickOrder
    <3> QED BY <1>0, <3>1, <3>5
  <2> QED BY <1>0, <2>1, <2>2, <2>3 DEF SteadyInv, OrderStep
<1> QED BY <1>1, <1>2, <1>3, <1>4, <1>5, <1>6, <1>7, <1>8 DEF Main

\* The other coroutines and the database leave the time where it is.
LEMMA SteadyOthers ==
  ASSUME ClockTypes, StartInv, SteadyInv, SteadyDay,
         \/ Adj \/ Probe \/ \E p \in Procs : Commit(p)
         \/ FaultEnds \/ (\E k \in FaultKinds : FaultBegins(k)) \/ UNCHANGED vars
  PROVE  SteadyInv' /\ OrderStep
<1>0. /\ wall' = wall /\ UNCHANGED mainVars /\ UNCHANGED <<ran, up>> /\ "probe" \in Procs
      /\ wall \in Nat /\ anchor.ratio <= TickLen
  BY NowFacts, Coroutines
     DEF Adj, PopDue, BeginBatch, RunHooks, SummaryFails, EndBatch, Adjudicate, Probe, ProbePause,
         ProbeResume, Commit, FaultEnds, FaultBegins, vars, timeVars, historyVars, envVars,
         SteadyInv, Pending
<1>1. CASE Adj
  <2>1. /\ PopDue \/ Adjudicate
        /\ UNCHANGED <<anchor, saved, inBatch>> /\ adj' \in {"work", "idle"}
    BY <1>1 DEF Adj, PopDue, BeginBatch, RunHooks, SummaryFails, EndBatch, Adjudicate, clockVars,
                SteadyInv, Pending
  <2>2. Pending' = {}
    BY <2>1 DEF PopDue, Adjudicate, Pending, Signals, DueItems, NoWork, SteadyInv
  <2>3. ~Spinning
    BY <2>1 DEF PopDue, Adjudicate, AdjReady, Ready
  <2> QED BY <1>0, <2>1, <2>2, <2>3, SteadyKept DEF NowSim, mainVars
<1>2. CASE Probe
  <2>1. /\ main \notin {"load", "recover"} /\ UNCHANGED <<saved, inBatch, queue, work, adj>>
        /\ UNCHANGED <<anchor, write>> \/ Pause("probe") \/ (Paused /\ Resume("probe"))
        /\ ~Spinning
    BY <1>2 DEF Probe, ProbePause, ProbeResume, Running, adjVars, Ready
  <2>2. Pending' = {} /\ adj' \notin {"hooks", "exit"}
    BY <2>1 DEF Pending, Signals, SteadyInv
  <2>3. CASE UNCHANGED <<anchor, write>>
    BY <1>0, <2>1, <2>2, <2>3, SteadyKept DEF NowSim, mainVars
  <2>4. CASE Pause("probe") /\ ~UNCHANGED <<anchor, write>>
    <3>1. /\ ~Paused /\ NowSim' = NowSim /\ anchor'.wall = wall /\ anchor'.paused = wall
      BY <1>0, <2>4, PauseFacts
    <3>2. anchor'.ratio = anchor.ratio
      <4>1. PICK s \in Int, w \in Int : s = NowSim /\ w = wall
        BY NowFacts
      <4>2. anchor' = [anchor EXCEPT !.sim = s, !.wall = w, !.paused = w]
        BY <2>4, <3>1, <4>1 DEF Pause, Persist
      <4> QED BY <4>2, NowFacts DEF Anchor
    <3> QED BY <1>0, <2>1, <2>2, <3>1, <3>2, SteadyKept DEF mainVars
  <2>5. CASE Paused /\ Resume("probe")
    <3>1. ~Paused' /\ NowSim' = anchor.sim /\ anchor'.ratio = RatioOr(anchor.ratio)
      BY <1>0, <2>5, ResumeFacts
    <3>2. NowSim = anchor.sim /\ anchor'.ratio <= TickLen
      BY <1>0, <2>5, <3>1, NowFacts, SteadySegments DEF SteadyInv, RatioOr
    <3> QED BY <1>0, <2>1, <2>2, <3>1, <3>2, SteadyKept DEF mainVars
  <2> QED BY <2>1, <2>3, <2>4, <2>5
<1>3. CASE (\E p \in Procs : Commit(p)) \/ FaultEnds \/ (\E k \in FaultKinds : FaultBegins(k))
           \/ UNCHANGED vars
  <2>1. /\ UNCHANGED <<anchor, inBatch, queue, work, adj>>
        /\ saved' = saved \/ up = "up"
    BY <1>3 DEF Commit, FaultEnds, FaultBegins, vars, clockVars, adjVars
  <2>2. main = "load" => saved' = saved
    BY <2>1 DEF SteadyInv
  <2>3. Pending' = {} /\ adj' \notin {"hooks", "exit"}
    BY <2>1 DEF Pending, Signals, SteadyInv
  <2>4. Spinning' = Spinning
    BY <1>0, <2>1 DEF Spinning, Running, Paused, DueItems, CurrentTick, NowSim, mainVars
  <2> QED BY <1>0, <2>1, <2>2, <2>3, <2>4, SteadyKept DEF NowSim, mainVars
<1> QED BY <1>1, <1>2, <1>3

LEMMA SteadyWall ==
  ASSUME ClockTypes, StartInv, SteadyInv, SteadyDay, MaxLate = 0, WallPasses
  PROVE  SteadyInv' /\ OrderStep
<1>0. /\ wall \in Nat /\ NowSim \in Int /\ CurrentTick \in Int /\ anchor.ratio \in Nat /\ goal \in Int
      /\ ran \in Int
  BY NowFacts DEF ClockTypes, TypeOK
<1>1. /\ ~Due /\ UNCHANGED <<anchor, inBatch, saved, main, goal, adj, queue, work, ran, up>> /\ wall' = wall + 1
  BY DEF ClockTypes, TypeOK, WallPasses, clockVars, mainVars, adjVars, envVars
<1>2. Pending' = {} /\ Paused' = Paused
  BY <1>1 DEF Pending, Signals, SteadyInv, Paused
<1>3. main # "load" /\ ~Spinning =>
         /\ main \in {"top", "sleep"}
         /\ main = "top" => Paused
         /\ main = "sleep" => ~GoalReached
  BY <1>0, <1>1, SteadySegments DEF SteadyInv, StartInv, Due, MainDue
<1>4. CASE main = "load"
  BY <1>1, <1>2, <1>4 DEF SteadyInv, OrderStep
<1>5. CASE Paused /\ main # "load"
  <2>1. NowSim' = NowSim
    BY <1>1, <1>5, FlowFacts
  <2>2. CurrentTick' = CurrentTick /\ GoalReached' = GoalReached
    BY <1>1, <2>1 DEF CurrentTick, GoalReached
  <2>3. Spinning' = Spinning
    BY <1>1, <1>2, <2>2 DEF Spinning, Running, DueItems
  <2>4. main # "recover"
    BY <1>3, <1>5 DEF Spinning, Running
  <2>5. main' = "sleep" /\ GoalReached' => Spinning'
    BY <1>1, <1>3, <1>5, <2>2, <2>3
  <2> QED BY <1>0, <1>1, <1>2, <1>5, <2>1, <2>2, <2>4, <2>5 DEF SteadyInv, OrderStep
<1>6. ~Paused => ~Spinning
  BY DEF Spinning
<1>7. CASE main = "sleep" /\ ~Paused
  <2>1. PICK g \in Int : g = goal
    BY <1>0
  <2>2. NowSim' = NowSim + anchor.ratio /\ NowSim < SimOfTick(g)
    <3>1. SimOfTick(g) \in Int
      BY TickOrder
    <3>2. ~GoalReached
      BY <1>3, <1>6, <1>7
    <3> QED BY <1>0, <1>1, <1>7, <2>1, <3>1, <3>2, FlowFacts DEF GoalReached
  <2>3. NowSim' < SimOfTick(g + 1)
    <3>1. SimOfTick(g) \in Int /\ SimOfTick(g + 1) = SimOfTick(g) + TickLen /\ TickLen \in Nat
      BY TickOrder, NextTick, ClockConstants
    <3> QED BY <1>0, <2>2, <3>1 DEF SteadyInv
  <2>4. CurrentTick' >= CurrentTick
    <3>1. NowSim' \in Int /\ NowSim <= NowSim'
      BY <1>0, <2>2
    <3>2. TickOf(NowSim) <= TickOf(NowSim')
      BY <1>0, <3>1, LaterTick
    <3>3. TickOf(NowSim') \in Int /\ CurrentTick' = TickOf(NowSim')
      BY <3>1, TickFacts DEF CurrentTick
    <3> QED BY <1>0, <3>2, <3>3 DEF CurrentTick
  <2>5. SimOfTick(goal' + 1) = SimOfTick(g + 1)
    BY <1>1, <2>1
  <2> QED BY <1>0, <1>1, <1>2, <1>7, <2>3, <2>4, <2>5 DEF SteadyInv, OrderStep
<1> QED BY <1>3, <1>4, <1>5, <1>6, <1>7

\* On a day without batches whose hours are worth a tick at most, in a kernel that is not ended,
\* and where nothing that is due waits for real time to pass: however segments, changes of ratio,
\* pauses and resumes follow each other, the tick stands still in a pause and never falls back,
\* and every tick is handed to adjudication (now_sim, set_ratio, pause, resume).
THEOREM TicksComeInOrder ==
  ASSUME MaxLate = 0, MaxCrashes = 0, "db" \notin FaultKinds, SteadyDay
  PROVE  Spec => TicksInOrder
<1>1. ClockInv /\ SteadyInv /\ [Next]_vars => ClockInv' /\ SteadyInv' /\ OrderStep
  <2> SUFFICES ASSUME ClockInv, SteadyInv, [Next]_vars PROVE ClockInv' /\ SteadyInv' /\ OrderStep
    OBVIOUS
  <2>1. ClockInv' /\ ClockTypes /\ ClockTypes' /\ StartInv
    BY ClockStep DEF ClockInv
  <2>2. ~(MainWriteFails \/ AdjWriteFails \/ ProbeWriteFails)
    BY <2>1 DEF MainWriteFails, AdjWriteFails, ProbeWriteFails, ClockTypes, TypeOK
  <2>3. ~(Crash \/ Stop)
    <3>1. ~(crashes < MaxCrashes)
      BY <2>1 DEF ClockTypes, TypeOK
    <3> QED BY <3>1 DEF Crash, Stop
  <2> QED BY <2>1, <2>2, <2>3, SteadyMain, SteadyOthers, SteadyWall DEF Next, Writes
<1>2. Init => ClockInv /\ SteadyInv
  BY ClockInit, SteadyInit
<1>3. OrderStep => [/\ up = "up" /\ up' = "up" /\ Paused /\ Paused' => CurrentTick' = CurrentTick
                    /\ up = "up" /\ up' = "up" => CurrentTick' >= CurrentTick
                    /\ main = "deliver" /\ main' = "top" => ran' <= ran + 1]_vars
  BY DEF OrderStep
<1> QED BY <1>1, <1>2, <1>3, PTL DEF Spec, TicksInOrder
=============================================================================
