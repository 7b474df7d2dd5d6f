------------------------------ MODULE LlmChain ------------------------------
(***************************************************************************)
(* LLMService.generate_response: one question goes to the response cache,  *)
(* the primary local model, the other local models and the cloud, in that  *)
(* order, until one of them answers; when none does, the caller gets a     *)
(* text that says so.  Callers share the cache.                            *)
(*                                                                         *)
(* What is asked and by whom is left to the modules that extend this one.  *)
(***************************************************************************)
EXTENDS Naturals, Sequences, FiniteSets, Functions, Subsequences

CONSTANTS
    Callers,     \* who asks; a caller waits for one answer at a time
    Installed,   \* the local chat models, smallest first
    Quick,       \* those whose name says that they are small
    Configured,  \* OLLAMA_MODEL
    Fallbacks,   \* OLLAMA_FALLBACK_MODELS
    Stem,        \* of each name the part before the colon
    CloudKey,    \* is there an OPENAI_API_KEY
    Cloud,       \* the model of OpenAI
    Degraded,    \* the text that tells of an outage
    NoText,
    MaxCached    \* bound: answers the cache takes in; then a write fails

ASSUME ChainAssumption ==
    /\ Installed \in Seq(Range(Installed)) /\ Fallbacks \in Seq(Range(Fallbacks))
    /\ IsInjective(Installed) /\ IsInjective(Fallbacks)
    /\ CloudKey \in BOOLEAN /\ MaxCached \in Nat
    /\ Cloud \notin Range(Installed) \cup Range(Fallbacks) \cup {Configured}

Models == Range(Installed) \cup Range(Fallbacks) \cup {Configured}

ASSUME StemAssumption == DOMAIN Stem = Models

VARIABLES
    call,   \* the question each caller waits for
    cache   \* answers by prompt and name, as Redis holds them

chainVars == <<call, cache>>

\* todo: fallback models not yet tried; tried: history, by attempt.
NoCall == [pc |-> "idle", prompt |-> <<>>, raw |-> FALSE,
           todo |-> <<>>, tried |-> <<>>, answer |-> NoText]

ChainTypeOK ==
    \A c \in Callers :
        /\ call[c].pc \in {"idle", "lookup", "primary", "retry", "list",
                           "fallback", "answered"}
        /\ call[c].todo \in Seq(Models)
        /\ call[c].tried \in Seq(Models \cup {Cloud})
        /\ call[c].pc = "answered" <=> call[c].answer # NoText

ChainInit ==
    /\ call = [c \in Callers |-> NoCall]
    /\ cache = {}

-----------------------------------------------------------------------------
(* Names of models                                                         *)

\* A small model when there is one, else the first.
PickFallback(available) ==
    LET quick == Kept(available, Quick)
    IN  IF quick # <<>> THEN Head(quick) ELSE Head(available)

\* The installed models a name stands for, of which the first is taken: the one
\* of that name, or those of the same stem.
Matching(name, available) ==
    IF name \in Range(available) THEN <<name>>
    ELSE Kept(available, {m \in Range(available) : Stem[m] = Stem[name]})

Stands(name, available) == Matching(name, available) # <<>>

\* The requested model, the configured one, or what there is; with no list of
\* models the requested one is tried on trust.
Resolve(model, available) ==
    IF available = <<>> THEN model
    ELSE IF Stands(model, available) THEN Head(Matching(model, available))
    ELSE IF Stands(Configured, available) THEN Head(Matching(Configured, available))
    ELSE PickFallback(available)

\* Those of the configured fallbacks that stand for an installed model other
\* than the one in skip, each model once, and the models they stand for.
Alternatives(available, skip) ==
    LET Name(i) == Head(Matching(Fallbacks[i], available))
        usable == {i \in DOMAIN Fallbacks :
                      Stands(Fallbacks[i], available) /\ Name(i) # skip}
        first == {i \in usable : \A j \in usable : Name(j) = Name(i) => i <= j}
        names == Kept(Fallbacks, {Fallbacks[i] : i \in first})
    IN  [n \in DOMAIN names |-> Head(Matching(names[n], available))]

\* Mutant: the configured name is left out instead of the model it stands for.
FallbackModelsByName(available) ==
    LET here == Alternatives(available, Configured)
        rest == Kept(available, Range(available) \ {Configured})
    IN  IF here # <<>> \/ rest = <<>> THEN here ELSE <<Head(rest)>>

\* Without an alternative to the primary, one other installed model.
FallbackModels(available) ==
    LET primary == Resolve(Configured, available)
        here == Alternatives(available, primary)
        rest == Kept(available, Range(available) \ {primary})
    IN  IF available = <<>> THEN <<>>
        ELSE IF here # <<>> \/ rest = <<>> THEN here ELSE <<Head(rest)>>

\* The list of models is asked for anew each time, and is empty when that fails.
Listings == {<<>>, Installed}

-----------------------------------------------------------------------------
(* The chain                                                               *)

At(c, pc) == call[c].pc = pc

Question(prompt, raw) ==
    [NoCall EXCEPT !.pc = "lookup", !.prompt = prompt, !.raw = raw]

\* No caller asks for a model by name.
LookupKey(c) == IF call[c].raw THEN "raw" ELSE "any"
StoreKey(c, provider) == IF call[c].raw THEN "raw" ELSE provider

Hits(c) == {e \in cache : e.prompt = call[c].prompt /\ e.key = LookupKey(c)}

LookupHit(c) ==
    /\ At(c, "lookup")
    /\ \E e \in Hits(c) :
          call' = [call EXCEPT ![c] = [@ EXCEPT !.pc = "answered", !.answer = e.text]]
    /\ UNCHANGED cache

\* Also when the entry has expired or Redis does not answer.
LookupMiss(c) ==
    /\ At(c, "lookup")
    /\ call' = [call EXCEPT ![c].pc = "primary"]
    /\ UNCHANGED cache

\* Replaces an older answer; a failed write is ignored.
Store(c, key, text) ==
    LET old == {e \in cache : e.prompt = call[c].prompt /\ e.key = key}
        new == [prompt |-> call[c].prompt, key |-> key, text |-> text]
    IN  cache' = IF Cardinality(cache) < MaxCached
                 THEN (cache \ old) \cup {new} ELSE cache

\* An attempt with a model.  It asks the same model again when the completion is
\* empty, and once more with a reminder when a question that is not raw is
\* answered with a request for documents: up to three requests, which are one
\* step here and one entry of tried.
\*
\* The model answers with one of the texts in says, and the answer is cached.
Answers(c, model, key, says) ==
    /\ model \in Range(Installed) \cup {Cloud}
    /\ \E text \in says :
          /\ call' = [call EXCEPT ![c] = [call[c] EXCEPT
                        !.pc = "answered", !.answer = text,
                        !.todo = <<>>, !.tried = Append(@, model)]]
          /\ Store(c, key, text)

\* An error of any of the requests, or no text in the end.
Fails(c, model, next, todo) ==
    /\ call' = [call EXCEPT ![c] = [call[c] EXCEPT
                  !.pc = next, !.todo = todo, !.tried = Append(@, model)]]
    /\ UNCHANGED cache

\* Only a timeout is worth a second attempt.
TryPrimary(c, says) ==
    /\ At(c, "primary")
    /\ \E available \in Listings :
          LET model == Resolve(Configured, available)
          IN  \/ Answers(c, model, StoreKey(c, "ollama"), says)
              \/ \E next \in {"retry", "list"} : Fails(c, model, next, <<>>)

RetryPrimary(c, says) ==
    /\ At(c, "retry")
    /\ \E available \in Listings :
          LET model == Resolve(Configured, available)
          IN  \/ Answers(c, model, StoreKey(c, "ollama"), says)
              \/ Fails(c, model, "list", <<>>)

ListFallbacks(c) ==
    /\ At(c, "list")
    /\ \E available \in Listings :
          call' = [call EXCEPT ![c] = [@ EXCEPT
                     !.pc = "fallback", !.todo = FallbackModels(available)]]
    /\ UNCHANGED cache

\* Cached under the name of the fallback, which nobody looks up.
TryFallback(c, says) ==
    /\ At(c, "fallback") /\ call[c].todo # <<>>
    /\ \E available \in Listings :
          LET model == Resolve(Head(call[c].todo), available)
          IN  \/ Answers(c, model, Head(call[c].todo), says)
              \/ Fails(c, model, "fallback", Tail(call[c].todo))

TryCloud(c, says) ==
    /\ At(c, "fallback") /\ call[c].todo = <<>> /\ CloudKey
    /\ Answers(c, Cloud, StoreKey(c, "openai"), says)

\* Mutant: the text is cached like an answer.
DegradeCached(c) ==
    /\ At(c, "fallback") /\ call[c].todo = <<>>
    /\ call' = [call EXCEPT ![c] = [@ EXCEPT !.pc = "answered", !.answer = Degraded]]
    /\ Store(c, StoreKey(c, "openai"), Degraded)

\* There is no cloud or it fails too: the caller gets a text, and no error.
Degrade(c) ==
    /\ At(c, "fallback") /\ call[c].todo = <<>>
    /\ call' = [call EXCEPT ![c] = [@ EXCEPT !.pc = "answered", !.answer = Degraded]]
    /\ UNCHANGED cache

ChainStep(c, says) ==
    \/ LookupHit(c) \/ LookupMiss(c)
    \/ TryPrimary(c, says) \/ RetryPrimary(c, says)
    \/ ListFallbacks(c) \/ TryFallback(c, says)
    \/ TryCloud(c, says) \/ Degrade(c)

-----------------------------------------------------------------------------
(* Safety                                                                  *)

\* An outage is not remembered: whatever failed while an answer was looked
\* for, the cache holds only what a model has said, so the next caller is not
\* told of an outage that is over.
CacheHoldsAnswers == \A e \in cache : e.text # Degraded

\* A model with which an attempt has failed is not tried again for the same
\* question, under whatever name it comes up: the primary is tried at most twice,
\* in a row (after a timeout), every other once.  (An attempt is up to three
\* requests.)
NoModelTriedAgain ==
    \A c \in Callers : \A i, j \in DOMAIN call[c].tried :
        i < j /\ call[c].tried[i] = call[c].tried[j] => i = 1 /\ j = 2
=============================================================================
