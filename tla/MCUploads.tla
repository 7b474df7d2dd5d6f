----------------------------- MODULE MCUploads -----------------------------
(* Instances of Uploads for TLC: two single uploads of a file, which is also *)
(* in a batch and in a folder of the same tenant.                            *)
EXTENDS Uploads, TLC

CONSTANTS first, second, batch, folder

MCRoute == [r \in Requests |-> IF r = batch THEN "files"
                               ELSE IF r = folder THEN "folder" ELSE "single"]
MCTenant == [r \in Requests |-> "tenant"]
MCFiles == [r \in Requests |->
    IF r = batch THEN <<"plan", "report">>
    ELSE IF r = folder THEN <<"report", "plan">> ELSE <<"report">>]

Symmetry == Permutations({first, second})
=============================================================================
