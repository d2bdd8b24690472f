------------------------------ MODULE MCScreen ------------------------------
(* The observer's connection for TLC.                                      *)
EXTENDS Screen
=============================================================================
