------------------------------- MODULE MCChat -------------------------------
(* Instances of ChatHistory for TLC. *)
EXTENDS ChatHistory
=============================================================================
