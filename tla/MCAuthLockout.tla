--------------------------- MODULE MCAuthLockout ---------------------------
(* Instances of AuthLockout for TLC. *)
EXTENDS AuthLockout
=============================================================================
