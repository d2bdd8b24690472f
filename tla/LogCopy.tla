------------------------------- MODULE LogCopy -------------------------------
(***************************************************************************)
(* What the event stream promises, with nothing said of how: a log that    *)
(* only grows at its end, a copy that is at all times the beginning of the *)
(* log and only shrinks when its holder loses rows, and a position up to   *)
(* which the writer may forget, moved back only when the copy lost it.     *)
(***************************************************************************)
EXTENDS Integers

CONSTANTS
  Numbers,   \* numbers a row of the log may have
  MaxLosses  \* how often the holder of the copy may lose rows

VARIABLES
  log,   \* numbers of the rows written
  copy,  \* numbers of the rows copied
  safe,  \* the last row known to be copied, 0 before the first
  lost   \* times the copy was cut short

logVars == <<log, copy, safe, lost>>

\* The beginning of the log, gaps between its numbers included.
Beginning(C, L) == C \subseteq L /\ \A s \in L, t \in C : s < t => s \in C

LogInit == log = {} /\ copy = {} /\ safe = 0 /\ lost = 0

Write ==
  \E s \in Numbers \ log :
    /\ \A t \in log : t < s
    /\ log' = log \cup {s}
    /\ UNCHANGED <<copy, safe, lost>>

Copy ==
  /\ copy \subseteq copy' /\ Beginning(copy', log)
  /\ UNCHANGED <<log, safe, lost>>

Learn ==
  /\ safe' \in copy \cup {0} /\ (safe < safe' \/ lost > 0)
  /\ UNCHANGED <<log, copy, lost>>

Lose ==
  /\ lost < MaxLosses /\ lost' = lost + 1
  /\ copy' \subseteq copy /\ Beginning(copy', log)
  /\ UNCHANGED <<log, safe>>

LogNext == Write \/ Copy \/ Learn \/ Lose

LogSpec == LogInit /\ [][LogNext]_logVars

=============================================================================
