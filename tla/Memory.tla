------------------------------- MODULE Memory -------------------------------
(***************************************************************************)
(* What a person remembers (memory): the entries written as things happen     *)
(* (store), the reflection that sets in when enough has happened              *)
(* (reflect.Reflector), the daily reflection at 23:00, and the merging and    *)
(* archiving of old entries (hygiene.MemoryHygiene).                          *)
(*                                                                           *)
(* Entries are numbered as they are written.  Two cursors in agents.mood say  *)
(* which of them have been weighed and reflected upon.  Everything but the    *)
(* archiving runs in one coroutine, one operation after the other; a failed   *)
(* statement or a crash (a "lapse") ends an operation between two writes.     *)
(* Contents, embeddings and the models' answers are left out.                 *)
(***************************************************************************)
EXTENDS Integers, SequencesExt

CONSTANTS
  Owners,
  Weights,               \* importance of what happens
  Threshold,             \* of importance_acc
  MergeMax, MergeAge,    \* MERGE_MAX_IMPORTANCE, MERGE_AGE_DAYS
  ArchiveMax, ArchiveAge,
  MaxEntries, LastDate, MaxLapses  \* bounds

ASSUME MemoryAssumption ==
  /\ Weights \subseteq Nat \ {0} /\ {MaxEntries, LastDate, MaxLapses} \subseteq Nat
  /\ {Threshold, MergeMax, MergeAge, ArchiveMax, ArchiveAge} \subseteq Nat

VARIABLES
  date, evening,     \* the simulated day, and whether it is past 23:00
  entries,           \* memories: kind, importance and day, in the order of their ids
  archived,
  covered,           \* entries merged into a summary
  acc, accAt, reflAt, fellBack,  \* agents.mood: importance_acc, acc_cursor, reflect_cursor, day
  inAcc, spent,      \* entries whose weight is in importance_acc, or was when it was reset
  lapses

memVars == <<date, evening, entries, archived, covered, acc, accAt, reflAt, fellBack, inAcc, spent,
             lapses>>
mood == <<acc, accAt, reflAt, fellBack, inAcc, spent>>
tidying == <<archived, covered>>

MemInit ==
  /\ date = 0 /\ evening = FALSE
  /\ entries = [o \in Owners |-> <<>>]
  /\ archived = [o \in Owners |-> {}] /\ covered = archived /\ inAcc = archived /\ spent = archived
  /\ acc = [o \in Owners |-> 0] /\ accAt = acc /\ reflAt = acc
  /\ fellBack = [o \in Owners |-> -1] /\ lapses = 0

Ids(o) == 1..Len(entries[o])
Entry(kind, weight) == [kind |-> kind, weight |-> weight, date |-> date]
Room(o, n) == Len(entries[o]) + n <= MaxEntries
Written(o, news) == entries' = [entries EXCEPT ![o] = @ \o news]
Lapse == lapses < MaxLapses /\ lapses' = lapses + 1

\* insert_memory: what a person did or heard, or saw as a bystander; a thought is a
\* reflection that weighs little.
Lives(o) ==
  /\ Room(o, 1) /\ \E k \in {"event", "projection", "reflection"}, w \in Weights :
       Written(o, <<Entry(k, w)>>)
  /\ UNCHANGED <<date, evening, tidying, mood, lapses>>

-----------------------------------------------------------------------------
(* Reflection (Reflector).                                                   *)

\* ACC_KINDS: what a reflection or a summary says does not weigh again.
Weighs(o, i) == entries[o][i].kind \in {"event", "projection"}
Unweighed(o) == {i \in Ids(o) : i > accAt[o] /\ Weighs(o, i)}
SumOver(es, ids) ==
  LET sum[n \in 0..Len(es)] ==
        IF n = 0 THEN 0 ELSE sum[n - 1] + IF n \in ids THEN es[n].weight ELSE 0
  IN  sum[Len(es)]
WeightOf(o, ids) == SumOver(entries[o], ids)

\* importance_acc takes in the new entries.
TakesIn(o) ==
  /\ acc' = [acc EXCEPT ![o] = @ + WeightOf(o, Unweighed(o))]
  /\ inAcc' = [inAcc EXCEPT ![o] = @ \union Unweighed(o)]

Enough(o) ==
  Unweighed(o) # {} /\ acc[o] + WeightOf(o, Unweighed(o)) >= Threshold

\* Mutant: the cursor stays where it was.
WeighInAgain(o) ==
  /\ Len(entries[o]) > accAt[o] /\ ~Enough(o)
  /\ TakesIn(o)
  /\ UNCHANGED <<date, evening, entries, tidying, reflAt, fellBack, accAt, spent, lapses>>

\* hook, short of the threshold.
WeighIn(o) ==
  /\ Len(entries[o]) > accAt[o] /\ ~Enough(o)
  /\ TakesIn(o) /\ accAt' = [accAt EXCEPT ![o] = Len(entries[o])]
  /\ UNCHANGED <<date, evening, entries, tidying, reflAt, fellBack, spent, lapses>>

\* An answer yields up to three insights; one that does not parse yields a sentence
\* of its own, so it is never none (_parse_insights).
Insights == 1..3

\* hook and deep_reflect: the insights, the cursors, and last the reset.
Reflect(o) ==
  /\ Len(entries[o]) > accAt[o] /\ Enough(o)
  /\ \E n \in Insights :
       /\ Room(o, n) /\ Written(o, [i \in 1..n |-> Entry("reflection", 7)])
       /\ \/ Lapse /\ UNCHANGED mood                  \* before the cursors are written
          \/ /\ accAt' = [accAt EXCEPT ![o] = Len(entries'[o])]
             /\ reflAt' = [reflAt EXCEPT ![o] = Len(entries'[o])]
             /\ UNCHANGED fellBack
             /\ \/ Lapse /\ TakesIn(o) /\ UNCHANGED spent   \* before the reset
                \/ /\ acc' = [acc EXCEPT ![o] = 0] /\ inAcc' = [inAcc EXCEPT ![o] = {}]
                   /\ spent' = [spent EXCEPT ![o] = @ \union inAcc[o] \union Unweighed(o)]
                   /\ UNCHANGED lapses
  /\ UNCHANGED <<date, evening, tidying>>

\* A reflection outside the hook: one entry, then both cursors past it.
PassCursors(o) ==
  /\ accAt' = [accAt EXCEPT ![o] = Len(entries'[o])]
  /\ reflAt' = [reflAt EXCEPT ![o] = Len(entries'[o])]
  /\ UNCHANGED <<acc, inAcc, spent>>

\* run_due_daily_fallbacks.
FallBack(o) ==
  /\ evening /\ fellBack[o] # date /\ Room(o, 1) /\ Written(o, <<Entry("reflection", 4)>>)
  /\ \/ Lapse /\ UNCHANGED mood
     \/ PassCursors(o) /\ fellBack' = [fellBack EXCEPT ![o] = date] /\ UNCHANGED lapses
  /\ UNCHANGED <<date, evening, tidying>>

\* write_generated_reflection: a goal changed or given up, a person new among the
\* stars.
Generated(o) ==
  /\ Room(o, 1) /\ Written(o, <<Entry("reflection", 8)>>)
  /\ \/ Lapse /\ UNCHANGED mood
     \/ PassCursors(o) /\ UNCHANGED <<fellBack, lapses>>
  /\ UNCHANGED <<date, evening, tidying>>

-----------------------------------------------------------------------------
(* Hygiene.                                                                  *)

Mergeable(o) ==
  {i \in Ids(o) \ archived[o] :
     /\ entries[o][i].kind = "event" /\ entries[o][i].weight <= MergeMax
     /\ entries[o][i].date < date - MergeAge}

\* Mutant: the entries are archived before their summary is written.
MergeArchiving(o) ==
  /\ Cardinality(Mergeable(o)) >= 2 /\ Room(o, 1)
  /\ archived' = [archived EXCEPT ![o] = @ \union Mergeable(o)]
  /\ \/ Lapse /\ UNCHANGED <<covered, entries>>
     \/ /\ covered' = [covered EXCEPT ![o] = @ \union Mergeable(o)]
        /\ Written(o, <<Entry("summary", 4)>>) /\ UNCHANGED lapses
  /\ UNCHANGED <<date, evening, mood>>

\* merge_summaries, in the nightly batch: the summary, then the archive marks.
Merge(o) ==
  /\ Cardinality(Mergeable(o)) >= 2 /\ Room(o, 1)
  /\ Written(o, <<Entry("summary", 4)>>)
  /\ covered' = [covered EXCEPT ![o] = @ \union Mergeable(o)]
  /\ \/ Lapse /\ UNCHANGED archived
     \/ archived' = [archived EXCEPT ![o] = @ \union Mergeable(o)] /\ UNCHANGED lapses
  /\ UNCHANGED <<date, evening, mood>>

\* archive_old, in a coroutine of its own, when the day has changed.
ArchiveOld ==
  /\ archived' = [o \in Owners |-> archived[o] \union
       {i \in Ids(o) : entries[o][i].weight <= ArchiveMax /\ entries[o][i].date < date - ArchiveAge}]
  /\ UNCHANGED <<date, evening, entries, covered, mood, lapses>>

Evening == ~evening /\ evening' = TRUE /\ UNCHANGED <<date, entries, tidying, mood, lapses>>
Midnight ==
  /\ date < LastDate /\ date' = date + 1 /\ evening' = FALSE
  /\ UNCHANGED <<entries, tidying, mood, lapses>>

MemNext ==
  \/ \E o \in Owners :
       Lives(o) \/ WeighIn(o) \/ Reflect(o) \/ FallBack(o) \/ Generated(o) \/ Merge(o)
  \/ ArchiveOld \/ Evening \/ Midnight

MemSpec == MemInit /\ [][MemNext]_memVars

-----------------------------------------------------------------------------
MemTypeOK ==
  \A o \in Owners :
    /\ accAt[o] \in 0..Len(entries[o]) /\ reflAt[o] \in 0..Len(entries[o])
    /\ archived[o] \subseteq Ids(o) /\ covered[o] \subseteq Ids(o) /\ fellBack[o] \in -1..date

\* importance_acc is the weight of entries weighed since it was last reset, each of
\* them once, wherever an earlier reflection was cut short.
WeighedOnce ==
  \A o \in Owners : acc[o] = WeightOf(o, inAcc[o]) /\ inAcc[o] \cap spent[o] = {}

\* An entry too important to be forgotten is archived only when a summary has taken
\* its place (hygiene.py: merge, then archive), wherever the merge was cut short.
ArchivedIsCovered ==
  \A o \in Owners : \A i \in archived[o] : entries[o][i].weight > ArchiveMax => i \in covered[o]

\* Whatever happens to a person counts towards the next reflection
\* (docs/design/04, 6.1, step 6).
EverythingWeighs ==
  \A o \in Owners : \A i \in 1..accAt[o] : Weighs(o, i) => i \in inAcc[o] \union spent[o]
=============================================================================
