---------------------------- MODULE MCRateLimits ----------------------------
(* Instances of RateLimits for TLC. *)
EXTENDS RateLimits

MCUses == [single |-> {"upload"}, browser |-> {"upload", "search"}]
MCLimits == [upload |-> 2, search |-> 3]
MCMaxExports == [analyst |-> 2]
=============================================================================
