---------------------------- MODULE MCEventSync ----------------------------
(* Instances of EventSync for TLC. *)
EXTENDS EventSync

\* Every timeline starts at the same sim_time, the seed's world start.
SameOrigin == [g \in 1..MaxGen |-> 0]
NoGaps == {}
Blocked == {"blocked"}
BothGaps == {"blocked", "void"}
Cleared == {FALSE}
Kept == {TRUE}
EitherWay == {FALSE, TRUE}

(* README names the settings under which this is violated. *)

\* A frame that repeats rows of the same world is skipped over: it never makes
\* the ingest side throw away what it has (batch.py, module docstring).
ReplicaKeepsRows == [][\A s \in Seqs : replica[s] # 0 => replica'[s] # 0]_vars
=============================================================================
