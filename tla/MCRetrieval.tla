---------------------------- MODULE MCRetrieval ----------------------------
(* Instances of Retrieval for TLC. *)
EXTENDS Retrieval

\* A short document, one with few characters for its tokens and a long one.
MCTokens == [d \in Docs |-> CASE d = "memo" -> 1 [] d = "plan" -> 4 [] OTHER -> 5]
MCHeaded == [d \in Docs |-> MCTokens[d] + 1]
MCChars == [d \in Docs |-> CASE d = "memo" -> 5 [] d = "plan" -> 6 [] OTHER -> 20]

\* Statistics, two messages and metadata; or no message yet.
MCOthers == {<<1, 2, 1, 3>>, <<1, 3>>}
=============================================================================
