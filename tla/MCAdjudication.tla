--------------------------- MODULE MCAdjudication ---------------------------
(* Instances of Adjudication for TLC. *)
EXTENDS Adjudication

OneTenant == {1}
OneNpc == {3}
=============================================================================
