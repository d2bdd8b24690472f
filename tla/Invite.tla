------------------------------- MODULE Invite -------------------------------
(***************************************************************************)
(* The invitation protocol (invite/state_machine.py): sending, answering,     *)
(* putting off, cancelling; and what after_tick drives every tick: the        *)
(* reminder half an hour before an appointment and the verdict a quarter of   *)
(* an hour after it.  There is no table of appointments: everything is        *)
(* looked up in the events, reminders and verdicts by the pair and the time   *)
(* of the appointment, cancellations by a memory linked to it.                *)
(*                                                                           *)
(* Time is counted in quarters of an hour.  Answers, postponements and        *)
(* cancellations are operations without a caller in the kernel yet; they are  *)
(* taken as its tests use them: one final answer for an invitation; but an    *)
(* appointment may be cancelled again, which nothing refuses.                 *)
(***************************************************************************)
EXTENDS Integers, SequencesExt

CONSTANTS
  Guests,
  Times,       \* the quarters people make appointments for
  Asleep,      \* quarters of the night (0:30 to 6:30)
  MaxRounds,   \* counter-offers to an invitation (respond)
  LastQuarter, \* bound: length of the run
  MaxInvites,  \* bound: invitations
  MaxMeetings, \* bound: other events of the guests
  MaxCancels,  \* bound: calls that cancel
  MaxCuts      \* bound: calls cut short by an exception

ASSUME InviteAssumption ==
  /\ {MaxRounds, LastQuarter, MaxInvites, MaxMeetings, MaxCancels, MaxCuts} \subseteq Nat
  /\ Asleep \subseteq 0..LastQuarter /\ Times \subseteq 0..LastQuarter

Before == 2  \* REMIND_BEFORE_MIN
Grace  == 1  \* GRACE_MIN
Window == 3  \* BUSY_DIALOGUE_WINDOW_MIN

VARIABLES
  quarter,    \* sim time
  driven,     \* drive_invite_due has run in this tick
  leapt,      \* some tick was not driven: a batch, catching up, a failing pass
  chatted,    \* quarter of a guest's last dialogue, -Window if none
  invites,    \* social.invite events: [by, to, at, rounds, open]
  appts,      \* social.appointment.created events: [who, at, made]
  seen,       \* other events: <<actors, quarter>>
  reminded,   \* social.appointment.remind events: [who, at], counted
  stoodUp,    \* social.appointment.stood_up events, by appointment judged
  cancelled,  \* cancellation memories linked to an appointment, counted by cancellation
  charged,    \* relation changes for an appointment: how often each was charged
  cuts

invVars == <<quarter, driven, leapt, chatted, invites, appts, seen, reminded, stoodUp, cancelled,
             charged, cuts>>
Indices == 1..Len(appts)
KeyOf(a) == [who |-> a.who, at |-> a.at]

InvInit ==
  /\ quarter = 0 /\ driven = TRUE /\ leapt = FALSE
  /\ chatted = [g \in Guests |-> -Window]
  /\ invites = <<>> /\ appts = <<>> /\ seen = {}
  /\ reminded = <<>> /\ stoodUp = {} /\ cancelled = <<>> /\ charged = <<>> /\ cuts = 0

-----------------------------------------------------------------------------
(* Sending.                                                                  *)

\* In a dialogue within the last 45 minutes, or an appointment is taking
\* place: cancelled ones count as well.
Busy(g) ==
  \/ chatted[g] > quarter - Window
  \/ \E i \in Indices : g \in appts[i].who /\ appts[i].at <= quarter /\ quarter < appts[i].at + Grace

\* reach: asleep and busy come before the places, which belong to Adjudication.
Reach(b, place) ==
  IF quarter \in Asleep THEN "sleeping" ELSE IF Busy(b) THEN "busy" ELSE place

\* send from the same node or building.  From afar a message is left instead;
\* asleep, a memory; busy, nothing at all: nobody takes up the retry.
Send(a, b, at, place) ==
  /\ Len(invites) < MaxInvites
  /\ Reach(b, place) \in {"same_node", "same_building"}
  /\ invites' = Append(invites, [by |-> a, to |-> b, at |-> at, rounds |-> 0, open |-> TRUE])
  /\ UNCHANGED <<quarter, driven, leapt, chatted, appts, seen, reminded, stoodUp, cancelled,
                 charged, cuts>>

-----------------------------------------------------------------------------
(* Answering.                                                                *)

\* At most MaxRounds postponements; the new time stays in the counter's event.
Counter(i) ==
  /\ invites[i].open /\ invites[i].rounds < MaxRounds
  /\ invites' = [invites EXCEPT ![i].rounds = @ + 1]
  /\ UNCHANGED <<quarter, driven, leapt, chatted, appts, seen, reminded, stoodUp, cancelled,
                 charged, cuts>>

\* The appointment is for the time of the invitation, postponed or not.
Accept(i) ==
  /\ invites[i].open
  /\ invites' = [invites EXCEPT ![i].open = FALSE]
  /\ appts' = Append(appts, [who |-> {invites[i].by, invites[i].to}, at |-> invites[i].at,
                             made |-> quarter])
  /\ charged' = Append(charged, 0) /\ reminded' = Append(reminded, 0)
  /\ cancelled' = Append(cancelled, 0)
  /\ UNCHANGED <<quarter, driven, leapt, chatted, seen, stoodUp, cuts>>

Decline(i) ==
  /\ invites[i].open
  /\ invites' = [invites EXCEPT ![i].open = FALSE]
  /\ UNCHANGED <<quarter, driven, leapt, chatted, appts, seen, reminded, stoodUp, cancelled,
                 charged, cuts>>

-----------------------------------------------------------------------------
(* Cancelling: the relation is charged, then both memories are written.  An   *)
(* exception in between leaves the charge without the memory.  Whether it is  *)
(* cancelled already is not asked.                                            *)

Off(i) == cancelled[i] > 0
Cancellable(i) == quarter <= appts[i].at - Before

Cancel(i) ==
  /\ Cancellable(i) /\ SumFunction(cancelled) + cuts < MaxCancels
  /\ charged' = [charged EXCEPT ![i] = @ + 1]
  /\ \/ cancelled' = [cancelled EXCEPT ![i] = @ + 1] /\ UNCHANGED cuts
     \/ cuts < MaxCuts /\ cuts' = cuts + 1 /\ UNCHANGED cancelled
  /\ UNCHANGED <<quarter, driven, leapt, chatted, invites, appts, seen, reminded, stoodUp>>

-----------------------------------------------------------------------------
(* What after_tick drives.                                                   *)

\* Mutant: reminds exactly half an hour ahead.
ReminderDueOnTheDot(i) ==
  /\ quarter = appts[i].at - Before
  /\ ~Off(i)
  /\ \A j \in Indices : reminded[j] > 0 => KeyOf(appts[j]) # KeyOf(appts[i])

\* due_reminders: from half an hour before until the appointment, unless there
\* is a reminder of the same people and time or a cancellation.
ReminderDue(i) ==
  /\ appts[i].at - Before <= quarter /\ quarter < appts[i].at
  /\ ~Off(i)
  /\ \A j \in Indices : reminded[j] > 0 => KeyOf(appts[j]) # KeyOf(appts[i])

\* The events of the execution window that concern the appointment.
During(i) == {e \in seen : e[2] >= appts[i].at /\ e[2] < appts[i].at + Grace
                           /\ e[1] \intersect appts[i].who # {}}

\* _detect_no_show: one event with both of them counts as kept.
Met(i) == \E e \in During(i) : appts[i].who \subseteq e[1]

\* due_stood_ups: the grace is over, and there is no verdict on the same people
\* and time and no cancellation.
VerdictDue(i) ==
  /\ appts[i].at + Grace <= quarter
  /\ ~Off(i)
  /\ \A j \in stoodUp : KeyOf(appts[j]) # KeyOf(appts[i])

\* drive_invite_due.  Both queries are read before their rows are worked off.
Drive ==
  /\ ~driven /\ driven' = TRUE
  /\ reminded' = [i \in Indices |-> reminded[i] + (IF ReminderDue(i) THEN 1 ELSE 0)]
  /\ LET blamed == {i \in Indices : VerdictDue(i) /\ ~Met(i)}
     IN /\ stoodUp' = stoodUp \union blamed
        /\ charged' = [i \in Indices |-> charged[i] + (IF i \in blamed THEN 1 ELSE 0)]
  /\ UNCHANGED <<quarter, leapt, chatted, invites, appts, seen, cancelled, cuts>>

-----------------------------------------------------------------------------
(* Around it.                                                                *)

\* The next tick, of several within a quarter.
NextTick ==
  /\ driven /\ driven' = FALSE
  /\ UNCHANGED <<quarter, leapt, chatted, invites, appts, seen, reminded, stoodUp, cancelled,
                 charged, cuts>>

Quarter ==
  /\ quarter < LastQuarter /\ quarter' = quarter + 1 /\ driven' = FALSE
  /\ leapt' = (leapt \/ ~driven)
  /\ UNCHANGED <<chatted, invites, appts, seen, reminded, stoodUp, cancelled, charged, cuts>>

\* Any other settled action: of one guest or of several, a dialogue or not.
Happens(who, talk) ==
  /\ Cardinality(seen) < MaxMeetings
  /\ seen' = seen \union {<<who, quarter>>}
  /\ chatted' = IF talk THEN [g \in Guests |-> IF g \in who THEN quarter ELSE chatted[g]] ELSE chatted
  /\ UNCHANGED <<quarter, driven, leapt, invites, appts, reminded, stoodUp, cancelled, charged, cuts>>

\* A tick settles what was decided, and then drives the appointments.
Settling ==
  /\ ~driven
  /\ \/ \E a, b \in Guests, at \in Times, place \in {"same_node", "same_building", "remote"} :
          a # b /\ Send(a, b, at, place)
     \/ \E i \in 1..Len(invites) : Counter(i) \/ Accept(i) \/ Decline(i)
     \/ \E i \in Indices : Cancel(i)
     \/ \E who \in SUBSET Guests \ {{}}, talk \in BOOLEAN : Happens(who, talk)

InvNext == Settling \/ Drive \/ NextTick \/ Quarter

InvSpec == InvInit /\ [][InvNext]_invVars

-----------------------------------------------------------------------------
InvTypeOK ==
  /\ quarter \in 0..LastQuarter /\ driven \in BOOLEAN /\ leapt \in BOOLEAN
  /\ chatted \in [Guests -> -Window..LastQuarter]
  /\ \A i \in DOMAIN invites : invites[i].rounds \in 0..MaxRounds
  /\ Len(reminded) = Len(appts) /\ Len(charged) = Len(appts) /\ Len(cancelled) = Len(appts)
  /\ cancelled \in Seq(Nat)
  /\ stoodUp \subseteq Indices

\* Whoever has an appointment made before its time, and has not cancelled it, is
\* reminded of it exactly once; two appointments of the same people for the same
\* time may share one reminder.  As long as every tick is driven.
RemindedOnce ==
  ~leapt =>
    \A i \in Indices :
      /\ reminded[i] <= 1
      /\ appts[i].made < appts[i].at /\ appts[i].at <= quarter /\ ~Off(i) =>
           \E j \in Indices : KeyOf(appts[j]) = KeyOf(appts[i]) /\ reminded[j] = 1

\* An appointment costs its people one charge, that of its verdict or that of its
\* cancellation, and never both; only a call that cancels it once more charges them
\* once more.  Unless an exception cut a cancellation short.
ChargedOnce ==
  cuts = 0 => \A i \in Indices : charged[i] <= 1 \/ charged[i] <= cancelled[i]

\* Both, over batches that leap past quarters, cancellations and exceptions
\* (state_machine.py, drive_due).
OnceEach == RemindedOnce /\ ChargedOnce

\* No verdict on an appointment that was kept: both took part in an event
\* within the grace.
KeptIsNotBlamed == \A i \in stoodUp : ~Met(i)
=============================================================================
