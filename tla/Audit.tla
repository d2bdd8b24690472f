------------------------------- MODULE Audit --------------------------------
(***************************************************************************)
(* The nightly audit (audit/daily.py) and the alerts it raises             *)
(* (audit/alerts.py).                                                      *)
(*                                                                         *)
(* The batch that leaps over a night runs the audit as its last but two    *)
(* hooks.  Six checks each ask the database for rows that should not       *)
(* exist; two of them compare with an anchor that the first audit of a     *)
(* world writes.  The verdict is a file named by the simulated day, and    *)
(* three red files in a row stop the clock until someone resumes it.  The  *)
(* same audit can be run by hand, whole or a single check of it.           *)
(*                                                                         *)
(* Of the checks two kinds are kept: "balance" compares the books with     *)
(* the events since the anchor, "moves" looks for a resident in two        *)
(* places, and history being kept for ever it never heals.  What goes      *)
(* wrong in the town is left open.  The reports are files and outlive a    *)
(* town that is begun anew; that is left out.                              *)
(***************************************************************************)
EXTENDS Integers, Sequences, SequencesExt, FiniteSetsExt

CONSTANTS LastAudit,    \* bound on the simulated days
          MaxSlips,     \* bound on the changes of what is wrong
          MaxByHand,    \* bound on the audits run by hand
          MaxAlerts     \* bound on the alerts raised

ASSUME AuditAssumption ==
  LastAudit \in Nat \ {0} /\ {MaxSlips, MaxByHand, MaxAlerts} \subseteq Nat

Checks == {"balance", "moves"}
NoAnchor == -1

VARIABLES
  today,     \* the simulated day
  drift,     \* balances minus what the events account for
  twice,      \* a resident has been in two places
  anchor,    \* the drift taken for normal
  reports,   \* the files: red or not, by day
  frozen,   \* the clock was frozen by the audit
  unwritten,   \* the process's warnings not written yet, by check
  lines,     \* alerts.log: the alerts' numbers
  alerts,    \* alerts raised so far
  sick,      \* ghost: the days on which an audit met something wrong
  audited,   \* ghost: the days with an audit
  slips, byHand

auditVars == <<today, drift, twice, anchor, reports, frozen, unwritten, lines, alerts, sick,
               audited, slips, byHand>>

-----------------------------------------------------------------------------
\* ensure_anchors: written by the first audit of the town, never moved.
AnchorAfter == IF anchor = NoAnchor THEN drift ELSE anchor

\* run_item for each check asked for: the ones that find rows.
Found(asked) ==
  {c \in asked : \/ c = "balance" /\ drift # AnchorAfter
                 \/ c = "moves" /\ twice}

\* _write_report: the file of the day is written over, whatever it covered.
Filed(asked) ==
  [d \in DOMAIN reports \cup {today'} |->
     IF d = today' THEN Found(asked) # {} ELSE reports[d]]

\* Mutant: a green day does not end the streak.
StreakOfAll(files) == Cardinality({d \in DOMAIN files : files[d]})

\* consecutive_red_days: back from the file with the latest name to the first green one.
ConsecutiveRedDays(files) ==
  Cardinality({d \in DOMAIN files : \A e \in DOMAIN files : e >= d => files[e]})

\* alert("WARN"): one entry per check, dated by its first; it is not written yet.
Warned(found) ==
  LET new == SetToSeq({c \in found : \A i \in DOMAIN unwritten : unwritten[i].check # c})
  IN unwritten \o [i \in DOMAIN new |-> [check |-> new[i], number |-> alerts + i]]

Numbers(warnings) == [i \in DOMAIN warnings |-> warnings[i].number]

\* run_daily_audit on the day today'.
RunDailyAudit(asked) ==
  /\ anchor' = AnchorAfter
  /\ reports' = Filed(asked)
  /\ audited' = audited \cup {today'}
  /\ sick' = IF Found(asked) # {} THEN sick \cup {today'} ELSE sick
  /\ alerts + Cardinality(Found(asked)) <= MaxAlerts
  /\ alerts' = alerts + Cardinality(Found(asked))

\* kernel_audit_hook, in the batch over a night; batches are 45 hours apart, so one or
\* two midnights pass.
Night ==
  /\ ~frozen
  /\ \E d \in {1, 2} : today + d <= LastAudit /\ today' = today + d
  /\ RunDailyAudit(Checks)
  /\ unwritten' = Warned(Found(Checks))
  /\ frozen' = (ConsecutiveRedDays(reports') >= 3)
  /\ UNCHANGED <<drift, twice, lines, slips, byHand>>

\* A hook registered before the audit fails, or the audit itself, and the batch ends
\* without it.
NightLost ==
  /\ ~frozen
  /\ \E d \in {1, 2} : today + d <= LastAudit /\ today' = today + d
  /\ UNCHANGED <<drift, twice, anchor, reports, frozen, unwritten, lines, alerts, sick, audited,
                 slips, byHand>>

\* audit_run.py, whole or --only one check, in a process of its own that writes its
\* warnings before it ends.
ByHand ==
  /\ byHand < MaxByHand
  /\ byHand' = byHand + 1 /\ today' = today
  /\ \E asked \in {Checks} \cup {{c} : c \in Checks} :
       /\ RunDailyAudit(asked)
       /\ LET n == Cardinality(Found(asked))
          IN lines' = lines \o [i \in 1..n |-> alerts + i]
  /\ UNCHANGED <<drift, twice, frozen, unwritten, slips>>

\* alert("ERROR"): what is pending is written before it.
WrittenUpTo(number) == lines \o Append(Numbers(unwritten), number)

\* An error from anywhere else in the kernel: a probe, the cost breaker.
Error ==
  /\ alerts < MaxAlerts
  /\ alerts' = alerts + 1
  /\ lines' = WrittenUpTo(alerts + 1) /\ unwritten' = <<>>
  /\ UNCHANGED <<today, drift, twice, anchor, reports, frozen, sick, audited, slips, byHand>>

-----------------------------------------------------------------------------
\* Something goes wrong, or a wrong balance right again.
Slip ==
  /\ slips < MaxSlips
  /\ slips' = slips + 1
  /\ \/ drift' \in {0, 1} \ {drift} /\ twice' = twice
     \/ ~twice /\ twice' = TRUE /\ drift' = drift
  /\ UNCHANGED <<today, anchor, reports, frozen, unwritten, lines, alerts, sick, audited,
                 byHand>>

\* Someone looks into it and resumes the clock.
ResumeClock ==
  /\ frozen /\ frozen' = FALSE
  /\ UNCHANGED <<today, drift, twice, anchor, reports, unwritten, lines, alerts, sick, audited,
                 slips, byHand>>

\* The kernel stops and starts; the town itself goes on.
RestartKernel ==
  /\ unwritten # <<>> /\ unwritten' = <<>>
  /\ UNCHANGED <<today, drift, twice, anchor, reports, frozen, lines, alerts, sick, audited,
                 slips, byHand>>

AuditInit ==
  /\ today = 1 /\ drift = 0 /\ twice = FALSE /\ anchor = NoAnchor /\ frozen = FALSE
  /\ reports = [d \in {} |-> FALSE]
  /\ unwritten = <<>> /\ lines = <<>> /\ alerts = 0 /\ sick = {} /\ audited = {}
  /\ slips = 0 /\ byHand = 0

AuditNext ==
  \/ Night \/ NightLost \/ ByHand \/ Error
  \/ Slip \/ ResumeClock \/ RestartKernel

AuditSpec == AuditInit /\ [][AuditNext]_auditVars

-----------------------------------------------------------------------------
\* Every variable of the audit keeps its type.
AuditTypeOK ==
  /\ today \in 1..LastAudit /\ drift \in {0, 1} /\ twice \in BOOLEAN
  /\ anchor \in {NoAnchor, 0, 1} /\ frozen \in BOOLEAN
  /\ DOMAIN reports \subseteq 1..LastAudit /\ sick \cup audited \subseteq DOMAIN reports
  /\ Range(lines) \cup Range(Numbers(unwritten)) \subseteq 1..alerts
  /\ alerts <= MaxAlerts /\ slips <= MaxSlips /\ byHand <= MaxByHand

\* The latest n days with an audit.
LatestAudited(n) == {d \in audited : Cardinality({e \in audited : e >= d}) <= n}

\* The clock is frozen for a reason: on each of the last three audited days an audit met
\* something wrong.  Reports are one file a day, written over by every audit of that day;
\* nights are skipped, lost and audited by hand, and the count goes by the files' names
\* alone.
StopIsEarned ==
  [][~frozen /\ frozen'
     => Cardinality(audited') >= 3 /\ LatestAudited(3)' \subseteq sick']_auditVars

\* Three audited nights in a row that met something wrong stop the clock.  (With an audit
\* by hand this fails: one check alone can write a red day green.)
ThreeBadNightsStop ==
  [][/\ byHand = 0
     /\ Cardinality(audited') > Cardinality(audited) /\ Cardinality(audited') >= 3
     => (byHand' = 0 /\ LatestAudited(3)' \subseteq sick' => frozen')]_auditVars

=============================================================================
