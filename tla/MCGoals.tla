------------------------------ MODULE MCGoals -------------------------------
(* An instance of Goals for TLC with the hours of speed_table.yaml: 37 hours *)
(* are lived through between two batches of eight.                           *)
EXTENDS Goals

Someone == <<"ann">>
Wishes == {"rest"}
=============================================================================
