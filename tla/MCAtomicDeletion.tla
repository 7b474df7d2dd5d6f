-------------------------- MODULE MCAtomicDeletion --------------------------
(* Instances of AtomicDeletion for TLC. *)
EXTENDS AtomicDeletion, TLC

CONSTANT memo  \* a text document the scanner passes

MCVerdicts == [d \in Documents |-> {"clean"}]

Symmetry == Permutations(Deleters)
=============================================================================
