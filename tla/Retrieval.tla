----------------------------- MODULE Retrieval -----------------------------
(***************************************************************************)
(* How a question of the chat finds its context: the documents the user    *)
(* may see, SearchService.hybrid_search over both engines, the content of  *)
(* what was found, and ContextManager.optimize_context, which shares the   *)
(* token budget of the model among it.  Access changes in the meantime.    *)
(* A question about documents selected by hand does not search.            *)
(*                                                                         *)
(* Scores are small numbers instead of floats, and texts are their lengths *)
(* in tokens, which are counted, and in characters, which are cut.         *)
(***************************************************************************)
EXTENDS Integers, Sequences, FiniteSets, FiniteSetsExt, Functions

CONSTANTS
    Docs,
    Tokens, Headed, Chars,  \* of each document: tokens, tokens with the header
                            \* in front, characters with the header
    Scores,        \* scores of the engines
    KeywordWeight, VectorWeight,  \* alpha and 1 - alpha
    Limit,         \* results wanted
    Budgets,       \* of the models and roles of the instance
    Questions,     \* lengths of questions
    Others         \* lengths of what else may go into the context, in order:
                   \* statistics, earlier messages, metadata

ASSUME RetrievalAssumption ==
    /\ IsFiniteSet(Docs)
    /\ Tokens \in [Docs -> Nat \ {0}] /\ Headed \in [Docs -> Nat \ {0}]
    /\ Chars \in [Docs -> Nat \ {0}]
    /\ Scores \subseteq Nat \ {0} /\ Limit \in Nat \ {0}
    /\ KeywordWeight \in Nat \ {0} /\ VectorWeight \in Nat \ {0}
    /\ Budgets \subseteq Nat /\ Questions \subseteq Nat
    /\ \A s \in Others : s \in Seq(Nat)

VARIABLES
    permitted,  \* documents there are and the user may see
    ask         \* the question under way

retrievalVars == <<permitted, ask>>

\* An engine knows nothing of users; it returns three times what is wanted.
Hits == UNION {[S -> Scores] : S \in {T \in SUBSET Docs : Cardinality(T) <= 3 * Limit}}

NoHits == [d \in {} |-> 0]
NoContext == [given |-> NoHits, counted |-> 0]

\* scope: what was permitted when the question was asked; keyword and vector:
\* hits of Elasticsearch and Qdrant; context: characters given of each document
\* and its header, and the tokens counted for all.
NoQuestion ==
    [pc |-> "idle", scope |-> {}, keyword |-> NoHits, vector |-> NoHits,
     results |-> <<>>, docs |-> <<>>, budget |-> 0, length |-> 0,
     context |-> NoContext]

\* Nothing is given but parts of the documents; with a question above the budget
\* the count may end below zero.
Portions == UNION {0..Chars[d] : d \in Docs}
Contexts == [given : UNION {[S -> Portions] : S \in SUBSET Docs}, counted : Int]

Ask ==
    [pc : {"idle", "scoped", "searched", "found", "ranked", "loaded", "packed"},
     scope : SUBSET Docs, keyword : Hits, vector : Hits,
     results : Seq(Docs), docs : Seq(Docs), budget : Nat, length : Nat,
     context : Contexts]

RetrievalTypeOK ==
    /\ permitted \subseteq Docs /\ ask \in Ask
    \* No document twice, and no more than were wanted.
    /\ IsInjective(ask.results) /\ Len(ask.results) <= Limit
    /\ IsInjective(ask.docs)
    /\ DOMAIN ask.context.given \subseteq Range(ask.docs)

RetrievalInit == permitted \in SUBSET Docs /\ ask = NoQuestion

-----------------------------------------------------------------------------
(* Search                                                                  *)

At(pc) == ask.pc = pc

\* Grants, revocations, uploads and deletions.
ChangeAccess == permitted' \in SUBSET Docs /\ UNCHANGED ask

\* Nobody to search for: no document at all, and the engines are not asked.
Scope ==
    /\ At("idle")
    /\ ask' = [NoQuestion EXCEPT
                 !.pc = IF permitted = {} THEN "ranked" ELSE "scoped",
                 !.scope = permitted]
    /\ UNCHANGED permitted

\* An engine that fails has found nothing.
KeywordLeg ==
    /\ At("scoped")
    /\ \E hits \in Hits :
          ask' = [ask EXCEPT !.pc = "searched", !.keyword = hits]
    /\ UNCHANGED permitted

VectorLeg ==
    /\ At("searched")
    /\ \E hits \in Hits :
          ask' = [ask EXCEPT !.pc = "found", !.vector = hits]
    /\ UNCHANGED permitted

Keyword == Restrict(ask.keyword, ask.scope \cap DOMAIN ask.keyword)
Vector == Restrict(ask.vector, ask.scope \cap DOMAIN ask.vector)

\* Scores are normalised to between 0 and 1, as fractions part over whole; when
\* all are equal they are 1, and what was not found has 0.
Whole(hits) ==
    LET range == Range(hits)
    IN  IF Cardinality(range) < 2 THEN 1 ELSE Max(range) - Min(range)
Part(hits, d) ==
    LET range == Range(hits)
    IN  IF d \notin DOMAIN hits THEN 0
        ELSE IF Cardinality(range) = 1 THEN 1 ELSE hits[d] - Min(range)

\* Mutant: the vector score counts only without a keyword score.
FusedEither(d) ==
    IF d \in DOMAIN Keyword
    THEN KeywordWeight * Part(Keyword, d) * Whole(Vector)
    ELSE VectorWeight * Part(Vector, d) * Whole(Keyword)

\* The weighted sum, over the common denominator.
Fused(d) == KeywordWeight * Part(Keyword, d) * Whole(Vector)
              + VectorWeight * Part(Vector, d) * Whole(Keyword)

Found == DOMAIN Keyword \cup DOMAIN Vector

Arrangements(S) == {s \in [1..Cardinality(S) -> S] : IsInjective(s)}

\* Equal scores come in any order.
Sorted(s) == \A i, j \in DOMAIN s : i < j => Fused(s[i]) >= Fused(s[j])

\* Mutant: the cut is one result late.
CutLate(s) == SubSeq(s, 1, Min({Len(s), Limit + 1}))

Cut(s) == SubSeq(s, 1, Min({Len(s), Limit}))

\* Mutant: the search in the database forgets whom it is for.
MatchingAny == SUBSET Docs

\* Which documents the last resort finds: whatever matches, in no order.
Matching == SUBSET ask.scope

Rank ==
    /\ At("found")
    /\ \E s \in IF Found # {} THEN {t \in Arrangements(Found) : Sorted(t)}
                              ELSE UNION {Arrangements(S) : S \in Matching} :
          ask' = [ask EXCEPT !.pc = "ranked", !.results = Cut(s)]
    /\ UNCHANGED permitted

-----------------------------------------------------------------------------
(* Context                                                                 *)

\* Cached contents first, then those of the database in no order; a document
\* without text, or gone in the meantime, is left out.
Load ==
    /\ At("ranked")
    /\ \E S \in SUBSET Range(ask.results), budget \in Budgets, length \in Questions :
          \E docs \in Arrangements(S) :
             ask' = [ask EXCEPT !.pc = "loaded", !.docs = docs, !.budget = budget,
                                !.length = length, !.keyword = NoHits,
                                !.vector = NoHits]
    /\ UNCHANGED permitted

\* Mutant: the question is not subtracted.
ShareOfAll == ask.budget \div Len(ask.docs)

\* Negative when the question alone exceeds the budget.
Share == (ask.budget - ask.length) \div Len(ask.docs)

\* A text is given whole when it is short enough as counted, without or with
\* its header, or as estimated from its characters.
Uncut(d) == Tokens[d] <= Share \/ Headed[d] <= Share \/ Chars[d] <= 4 * Share

\* What may be left of a text: all of it, or four characters for each token of
\* the share, or less where a sentence ends behind 70 % of them.  A negative
\* share is taken from the end instead, and then "no sentence found", which is
\* -1, passes for such an end and leaves nothing.  (A cut text gets a marker,
\* which neither counts nor is counted here.)
Remains(d) ==
    LET target == 4 * Share
    IN  IF Uncut(d) THEN {Chars[d]}
        ELSE IF target >= 0
        THEN {target} \cup {n \in 1..target - 1 : 10 * (n - 1) > 7 * target}
        ELSE {0} \cup 1..Chars[d] + target - 1

Remnants == {kept \in [Range(ask.docs) -> Portions] :
               \A d \in Range(ask.docs) : kept[d] \in Remains(d)}

\* Counted is the text without its header, or the share, whatever is left.
Add(d, kept, context) ==
    LET cost == IF Tokens[d] <= Share THEN Tokens[d] ELSE Share
    IN  IF context.counted + cost > ask.budget THEN context
        ELSE [given |-> [e \in DOMAIN context.given \cup {d} |->
                           IF e # d THEN context.given[e] ELSE kept[d]],
              counted |-> context.counted + cost]

Asked == [NoContext EXCEPT !.counted = ask.length]

\* One document after the other.
Packed(kept) ==
    LET packed[n \in 0..Len(ask.docs)] ==
          IF n = 0 THEN Asked ELSE Add(ask.docs[n], kept, packed[n - 1])
    IN  packed[Len(ask.docs)]

\* Documents leave no room for anything else.
PackDocuments ==
    /\ At("loaded") /\ ask.docs # <<>>
    /\ \E kept \in Remnants :
          ask' = [ask EXCEPT !.pc = "packed", !.context = Packed(kept)]
    /\ UNCHANGED permitted

\* Of the first n.
Sum(s, n) ==
    LET sum[k \in 0..n] == IF k = 0 THEN 0 ELSE sum[k - 1] + s[k]
    IN  sum[n]

\* Without documents the rest goes in until something does not fit.
PackOthers ==
    /\ At("loaded") /\ ask.docs = <<>>
    /\ \E others \in Others :
          LET fit == {n \in 0..Len(others) :
                        ask.length + Sum(others, n) <= ask.budget}
          IN  ask' = [ask EXCEPT !.pc = "packed",
                        !.context.counted = ask.length
                                              + Sum(others, Max(fit \cup {0}))]
    /\ UNCHANGED permitted

\* The model is asked, or the client has gone away; the next question follows.
Leave ==
    /\ ~At("idle") /\ ask' = NoQuestion
    /\ UNCHANGED permitted

RetrievalNext ==
    \/ ChangeAccess \/ Scope \/ KeywordLeg \/ VectorLeg \/ Rank
    \/ Load \/ PackDocuments \/ PackOthers \/ Leave

RetrievalSpec == RetrievalInit /\ [][RetrievalNext]_retrievalVars

-----------------------------------------------------------------------------
(* Safety                                                                  *)

\* Engines and the last resort find what they like: the results, and what is
\* put into the context, were permitted when the question was asked.
ResultsInScope ==
    Range(ask.results) \cup DOMAIN ask.context.given \subseteq ask.scope

\* d is better in one engine, both having been found there, and not worse in
\* the other.
BetterIn(hits, d, e) ==
    d \in DOMAIN hits /\ e \in DOMAIN hits /\ hits[d] > hits[e]
NotWorseIn(hits, d, e) ==
    e \in DOMAIN hits => d \in DOMAIN hits /\ hits[d] >= hits[e]
Better(d, e) ==
    /\ NotWorseIn(Keyword, d, e) /\ NotWorseIn(Vector, d, e)
    /\ BetterIn(Keyword, d, e) \/ BetterIn(Vector, d, e)

\* Normalising and weighing keep what the engines agree on: a document that is
\* better in one and not worse in the other comes first, and is not cut off
\* for the other, whatever else was found or filtered out.
BetterHitsRankFirst ==
    At("ranked") => \A d \in Found, i \in DOMAIN ask.results :
        Better(d, ask.results[i]) => \E j \in 1..i - 1 : ask.results[j] = d

\* When the question fits the budget, so does what is counted, and no document
\* is left out or cut for those before it: one that counts no more than its
\* equal share is given whole, and what is left of a cut one is at most four
\* characters for each token of the share and at least 70 % of that.
SharedFairly ==
    At("packed") /\ ask.length <= ask.budget =>
        /\ ask.context.counted <= ask.budget
        /\ \A d \in Range(ask.docs) :
              LET share == (ask.budget - ask.length) \div Len(ask.docs)
                  given == ask.context.given[d]
              IN  /\ d \in DOMAIN ask.context.given
                  /\ Tokens[d] <= share => given = Chars[d]
                  /\ \/ given = Chars[d]
                     \/ given <= 4 * share /\ 10 * given >= 28 * share

-----------------------------------------------------------------------------
(* What a docstring says                                                   *)

\* context_manager.py:187: "Optimize context to fit within token budget".  The
\* documents given whole, as they are given, have room beside the question.
ContextFits ==
    At("packed") /\ ask.length <= ask.budget =>
        LET given == ask.context.given
            whole == {d \in DOMAIN given : given[d] = Chars[d]}
        IN  MapThenSumSet(LAMBDA d : Headed[d], whole) <= ask.budget - ask.length
=============================================================================
