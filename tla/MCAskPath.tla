------------------------------ MODULE MCAskPath ------------------------------
(* AskPath for TLC. *)
EXTENDS AskPath, TLC
=============================================================================
