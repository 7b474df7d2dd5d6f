--------------------------- MODULE AgentLoopProofs ---------------------------
(***************************************************************************)
(* Theorems about LlmChain and AgentLoop, for any models, installed or     *)
(* configured, any tools and budgets, and any number of callers.           *)
(***************************************************************************)
EXTENDS AgentLoop, SubsequenceLemmas, FiniteSetTheorems, TLAPS

-----------------------------------------------------------------------------
(* Types                                                                   *)

\* What a model may say to any prompt.
Said == Actions \cup {"finish", "prose", "malformed", "text"}

Entry == [action : Actions, how : {"ran", "repeated", "blocked"}]

Call == [pc : {"idle", "lookup", "primary", "retry", "list", "fallback", "answered"},
         prompt : (({"plan", "replan", "synthesize"} \X Seq(Entry))
                    \cup ({"tool"} \X Actions)) \cup {<<>>},
         raw : BOOLEAN, todo : Seq(Models), tried : Seq(Models \cup {Cloud}),
         answer : Said \cup {Degraded, NoText}]

Run == [pc : Waits \cup {"idle", "act"}, budget : Nat \ {0}, pad : Seq(Entry),
        action : Actions \cup {"none"},
        out : {"none", "final", "outage", "broken", "abandoned"},
        reason : {"completed", "planning_failed", "max_steps_reached"},
        answer : Said \cup {NoText}, calls : Nat]

\* The cache holds only what models have said.
Typed ==
    /\ call \in [Callers -> Call] /\ run \in [Callers -> Run]
    /\ \A e \in cache : e.text \in Said
    /\ \A c \in Callers : call[c].pc = "answered" <=> call[c].answer # NoText
    /\ \A c \in Callers : run[c].pc \in Waits <=> call[c].pc # "idle"

-----------------------------------------------------------------------------
(* The chain: which models have been asked                                 *)

\* What the primary is taken for, with and without a list of the models.
Primaries == {Configured, Resolve(Configured, Installed)}

\* Only the first two are the same model.
OnlyRetried(tried) ==
    \A i, j \in DOMAIN tried : i < j /\ tried[i] = tried[j] => i = 1 /\ j = 2

\* Before the fallbacks only the primary has been asked; those left to ask are
\* installed, different from each other and from all that were asked.
Fresh(c) ==
    LET tried == call[c].tried
        todo == call[c].todo
    IN  CASE call[c].pc \in {"idle", "lookup", "primary"} -> tried = <<>>
          [] call[c].pc = "retry" -> Len(tried) = 1 /\ Range(tried) \subseteq Primaries
          [] call[c].pc = "list" -> Len(tried) \in {1, 2} /\ Range(tried) \subseteq Primaries
          [] call[c].pc = "fallback" ->
               /\ OnlyRetried(tried) /\ IsInjective(todo)
               /\ Range(todo) \subseteq Range(Installed)
               /\ Range(todo) \cap Range(tried) = {} /\ Cloud \notin Range(tried)
          [] OTHER -> OnlyRetried(tried)

\* What a name stands for is installed, and an installed name stands for itself.
LEMMA MatchingInstalled ==
    ASSUME NEW name
    PROVE  /\ Matching(name, Installed) \in Seq(Range(Installed))
           /\ Stands(name, Installed) => Head(Matching(name, Installed)) \in Range(Installed)
           /\ name \in Range(Installed) =>
                Stands(name, Installed) /\ Head(Matching(name, Installed)) = name
<1>1. Installed \in Seq(Range(Installed))
  BY ChainAssumption
<1>2. Matching(name, Installed) \in Seq(Range(Installed))
  <2>1. CASE name \in Range(Installed)
    BY <2>1 DEF Matching
  <2>2. CASE name \notin Range(Installed)
    BY <1>1, <2>2, KeptInSeq DEF Matching
  <2> QED
    BY <2>1, <2>2
<1>3. Stands(name, Installed) => Head(Matching(name, Installed)) \in Range(Installed)
  BY <1>2, HeadTailProperties DEF Stands
<1>4. ASSUME name \in Range(Installed)
      PROVE  Stands(name, Installed) /\ Head(Matching(name, Installed)) = name
  <2>1. Matching(name, Installed) = <<name>>
    BY <1>4 DEF Matching
  <2>2. <<name>> # <<>> /\ Head(<<name>>) = name
    OBVIOUS
  <2> QED
    BY <2>1, <2>2 DEF Stands
<1> QED
  BY <1>2, <1>3, <1>4

\* A list of models is resolved to one of them, or to the name asked for.
LEMMA ResolvePrimary ==
    ASSUME NEW available \in Listings
    PROVE  /\ Resolve(Configured, available) \in Primaries
           /\ Primaries \subseteq Models
<1>1. Installed \in Seq(Range(Installed))
  BY ChainAssumption
<1>2. Installed # <<>> => PickFallback(Installed) \in Range(Installed)
  <2> DEFINE quick == Kept(Installed, Quick)
  <2>1. quick \in Seq(Range(Installed))
    BY <1>1, KeptInSeq
  <2>2. quick # <<>> => Head(quick) \in Range(Installed)
    BY <2>1, HeadTailProperties
  <2>3. Installed # <<>> => Head(Installed) \in Range(Installed)
    BY <1>1, HeadTailProperties
  <2> QED
    BY <2>2, <2>3 DEF PickFallback
<1>3. Resolve(Configured, Installed) \in Models
  BY <1>2, MatchingInstalled DEF Resolve, Models
<1>4. Resolve(Configured, <<>>) = Configured
  BY DEF Resolve
<1>5. Configured \in Models
  BY DEF Models
<1> QED
  BY <1>3, <1>4, <1>5 DEF Primaries, Listings

\* The alternatives to a model are installed, different from it and each other:
\* of the names that stand for one model only the first is kept.
LEMMA AlternativesDiffer ==
    ASSUME NEW skip
    PROVE  /\ Alternatives(Installed, skip) \in Seq(Models)
           /\ IsInjective(Alternatives(Installed, skip))
           /\ Range(Alternatives(Installed, skip)) \subseteq Range(Installed) \ {skip}
<1> DEFINE Name(i) == Head(Matching(Fallbacks[i], Installed))
           usable == {i \in DOMAIN Fallbacks :
                         Stands(Fallbacks[i], Installed) /\ Name(i) # skip}
           first == {i \in usable : \A j \in usable : Name(j) = Name(i) => i <= j}
           chosen == {Fallbacks[i] : i \in first}
           names == Kept(Fallbacks, chosen)
           here == [n \in DOMAIN names |-> Head(Matching(names[n], Installed))]
<1>1. Alternatives(Installed, skip) = here
  BY DEF Alternatives
<1>2. /\ Fallbacks \in Seq(Range(Fallbacks)) /\ IsInjective(Fallbacks)
      /\ DOMAIN Fallbacks = 1..Len(Fallbacks) /\ Len(Fallbacks) \in Nat
  BY ChainAssumption, LenProperties
<1>3. /\ names \in Seq(Range(Fallbacks)) /\ IsInjective(names)
      /\ Range(names) \subseteq chosen
  <2>1. names \in Seq(Range(Fallbacks))
    BY <1>2, KeptInSeq
  <2>2. IsInjective(names)
    BY <1>2, KeptInjective
  <2>3. Range(names) = Range(Fallbacks) \cap chosen
    BY <1>2, KeptRange
  <2> QED
    BY <2>1, <2>2, <2>3
<1>4. DOMAIN names = 1..Len(names) /\ Len(names) \in Nat
  BY <1>3, LenProperties
<1>5. ASSUME NEW n \in DOMAIN names
      PROVE  \E i \in first : names[n] = Fallbacks[i] /\ here[n] = Name(i)
  <2>1. names[n] \in chosen
    <3>1. names[n] \in Range(names)
      BY DEF Range
    <3> QED
      BY <3>1, <1>3
  <2> QED
    BY <2>1
<1>6. \A i \in first : /\ i \in 1..Len(Fallbacks) /\ i \in usable
                       /\ Name(i) \in Range(Installed) /\ Name(i) # skip
  BY <1>2, MatchingInstalled
<1>7. \A i, j \in first : Name(i) = Name(j) => i = j
  <2> SUFFICES ASSUME NEW i \in first, NEW j \in first, Name(i) = Name(j)
               PROVE  i = j
    OBVIOUS
  <2>1. i <= j /\ j <= i
    BY <1>6
  <2>2. i \in Nat /\ j \in Nat
    BY <1>6
  <2> QED
    BY <2>1, <2>2
<1> HIDE DEF Name, first, names
<1>8. \A n \in DOMAIN names : here[n] \in Range(Installed) \ {skip}
  BY <1>5, <1>6
<1>9. here \in Seq(Models)
  <2>1. here \in [1..Len(names) -> Models]
    <3>1. DOMAIN here = 1..Len(names) /\ here = [n \in 1..Len(names) |-> here[n]]
      BY <1>4
    <3>2. \A n \in 1..Len(names) : here[n] \in Models
      BY <1>4, <1>8 DEF Models
    <3> HIDE DEF here
    <3> QED
      BY <3>1, <3>2
  <2> HIDE DEF here
  <2> QED
    BY <2>1, <1>4, SeqDef
<1>10. Range(here) \subseteq Range(Installed) \ {skip}
  <2>1. DOMAIN here = DOMAIN names
    OBVIOUS
  <2> HIDE DEF here
  <2> QED
    BY <2>1, <1>8 DEF Range
<1>11. IsInjective(here)
  <2>1. DOMAIN here = DOMAIN names
    OBVIOUS
  <2>2. ASSUME NEW m \in DOMAIN names, NEW n \in DOMAIN names, here[m] = here[n]
        PROVE  m = n
    <3> HIDE DEF here
    <3>1. names[m] = names[n]
      BY <1>5, <1>7, <2>2
    <3> QED
      BY <3>1, <1>3 DEF IsInjective
  <2> HIDE DEF here
  <2> QED
    BY <2>1, <2>2 DEF IsInjective
<1> HIDE DEF here
<1> QED
  BY <1>1, <1>9, <1>10, <1>11

\* The fallbacks are installed and neither name of the primary.
LEMMA FallbackModelsFresh ==
    ASSUME NEW available \in Listings
    PROVE  /\ FallbackModels(available) \in Seq(Models)
           /\ IsInjective(FallbackModels(available))
           /\ Range(FallbackModels(available)) \subseteq Range(Installed) \ Primaries
<1> DEFINE primary == Resolve(Configured, Installed)
           here == Alternatives(Installed, primary)
           rest == Kept(Installed, Range(Installed) \ {primary})
<1>1. CASE available = <<>>
  <2>1. FallbackModels(available) = <<>>
    BY <1>1 DEF FallbackModels
  <2>2. <<>> \in Seq(Models) /\ DOMAIN <<>> = {}
    BY EmptySeq, LenProperties
  <2> QED
    BY <2>1, <2>2 DEF Range, IsInjective
<1>2. CASE available # <<>>
  <2>1. available = Installed
    BY <1>2 DEF Listings
  <2>2. Range(Installed) \ {primary} \subseteq Range(Installed) \ Primaries
    <3>1. Configured \in Range(Installed) => primary = Configured
      BY <1>2, <2>1, MatchingInstalled DEF Resolve
    <3> QED
      BY <3>1 DEF Primaries
  <2>3. CASE here # <<>> \/ rest = <<>>
    <3>1. FallbackModels(available) = here
      BY <1>2, <2>1, <2>3 DEF FallbackModels
    <3> QED
      BY <2>2, <3>1, AlternativesDiffer
  <2>4. CASE ~(here # <<>> \/ rest = <<>>)
    <3>1. FallbackModels(available) = <<Head(rest)>>
      BY <1>2, <2>1, <2>4 DEF FallbackModels
    <3>2. rest \in Seq(Range(Installed) \cap (Range(Installed) \ {primary}))
      BY ChainAssumption, KeptInSeq
    <3>3. Head(rest) \in Range(Installed) \ {primary}
      BY <2>4, <3>2, HeadTailProperties
    <3>4. Head(rest) \in Models
      BY <3>3 DEF Models
    <3>5. <<Head(rest)>> \in Seq(Models) /\ Range(<<Head(rest)>>) = {Head(rest)}
          /\ IsInjective(<<Head(rest)>>)
      BY <3>4 DEF Range, IsInjective
    <3> QED
      BY <2>2, <3>1, <3>3, <3>5
  <2> QED
    BY <2>3, <2>4
<1> QED
  BY <1>1, <1>2

LEMMA NobodyTried == OnlyRetried(<<>>) /\ Range(<<>>) = {}
<1>1. DOMAIN <<>> = {}
  BY EmptySeq, LenProperties
<1> QED
  BY <1>1 DEF OnlyRetried, Range

\* A model that was not asked yet may be asked.
LEMMA TryNew ==
    ASSUME NEW T, NEW tried \in Seq(T), NEW m \in T,
           OnlyRetried(tried), m \notin Range(tried) \/ Len(tried) <= 1
    PROVE  OnlyRetried(Append(tried, m))
<1>1. /\ DOMAIN tried = 1..Len(tried) /\ DOMAIN Append(tried, m) = 1..Len(tried) + 1
      /\ \A i \in 1..Len(tried) : Append(tried, m)[i] = tried[i]
      /\ Append(tried, m)[Len(tried) + 1] = m /\ Len(tried) \in Nat
  BY LenProperties, AppendProperties
<1> QED
  BY <1>1 DEF OnlyRetried, Range

-----------------------------------------------------------------------------
(* The chain: its steps                                                    *)

ChainInv == Typed /\ \A c \in Callers : Fresh(c)

\* What any step of the chain does: one question goes on, in a record r of the
\* right type, and the cache takes in what was said.
LEMMA QuestionGoesOn ==
    ASSUME ChainInv, NEW c \in Callers, NEW r \in Call,
           call' = [call EXCEPT ![c] = r], UNCHANGED run,
           call[c].pc # "idle", r.pc # "idle",
           r.pc = "answered" <=> r.answer # NoText,
           \A e \in cache' : e.text \in Said,
           Fresh(c)'
    PROVE  ChainInv'
<1> USE DEF ChainInv
<1>1. /\ call \in [Callers -> Call] /\ call'[c] = r /\ call' \in [Callers -> Call]
      /\ \A x \in Callers \ {c} : call'[x] = call[x]
  BY DEF Typed
<1>2. Typed'
  BY <1>1 DEF Typed
<1>3. ASSUME NEW x \in Callers
      PROVE  Fresh(x)'
  <2>1. CASE x = c
    BY <2>1
  <2>2. CASE x # c
    BY <1>1, <2>2 DEF Fresh
  <2> QED
    BY <2>1, <2>2
<1> QED
  BY <1>2, <1>3

\* The answer of a model ends the question; what was said is put into the cache.
LEMMA AnswersKeepsInv ==
    ASSUME ChainInv, NEW c \in Callers, NEW says \in SUBSET Said, NEW key,
           NEW model \in Models \cup {Cloud}, call[c].pc \notin {"idle", "answered"},
           OnlyRetried(Append(call[c].tried, model)), Answers(c, model, key, says),
           UNCHANGED run
    PROVE  ChainInv'
<1>1. PICK text \in says :
        /\ call' = [call EXCEPT ![c] = [call[c] EXCEPT
                      !.pc = "answered", !.answer = text,
                      !.todo = <<>>, !.tried = Append(@, model)]]
        /\ Store(c, key, text)
  BY DEF Answers
<1> DEFINE r == [call[c] EXCEPT !.pc = "answered", !.answer = text, !.todo = <<>>,
                                !.tried = Append(call[c].tried, model)]
<1>2. call[c] \in Call /\ call \in [Callers -> Call]
  BY DEF ChainInv, Typed
<1>3. /\ Append(call[c].tried, model) \in Seq(Models \cup {Cloud})
      /\ <<>> \in Seq(Models)
  BY <1>2, AppendProperties, EmptySeq DEF Call
<1>4. /\ r \in Call /\ r.pc = "answered" /\ r.answer = text
      /\ r.tried = Append(call[c].tried, model)
  BY <1>2, <1>3 DEF Call
<1>5. call' = [call EXCEPT ![c] = r] /\ call'[c] = r
  BY <1>1, <1>2
<1>6. text # NoText
  BY AgentAssumption DEF Said
<1>7. \A e \in cache' : e.text \in Said
  BY <1>1 DEF Store, ChainInv, Typed
<1>8. Fresh(c)'
  BY <1>4, <1>5, ZenonT(40) DEF Fresh
<1> HIDE DEF r
<1> QED
  BY <1>4, <1>5, <1>6, <1>7, <1>8, QuestionGoesOn

\* With which models asked, and left to ask, a question goes on at next.
MayFail(next, tried, todo) ==
    /\ next = "retry" => Len(tried) = 1 /\ Range(tried) \subseteq Primaries
    /\ next = "list" => Len(tried) \in {1, 2} /\ Range(tried) \subseteq Primaries
    /\ next = "fallback" =>
         /\ OnlyRetried(tried) /\ IsInjective(todo)
         /\ Range(todo) \subseteq Range(Installed)
         /\ Range(todo) \cap Range(tried) = {} /\ Cloud \notin Range(tried)

\* A model has failed, and the question goes on at next with todo.
LEMMA FailsKeepsInv ==
    ASSUME ChainInv, NEW c \in Callers, NEW model \in Models, NEW todo \in Seq(Models),
           NEW next \in {"retry", "list", "fallback"},
           call[c].pc \notin {"idle", "answered"}, Fails(c, model, next, todo),
           MayFail(next, Append(call[c].tried, model), todo), UNCHANGED run
    PROVE  ChainInv'
<1> DEFINE r == [call[c] EXCEPT !.pc = next, !.todo = todo,
                                !.tried = Append(call[c].tried, model)]
<1>1. call[c] \in Call /\ call \in [Callers -> Call]
  BY DEF ChainInv, Typed
<1>2. Append(call[c].tried, model) \in Seq(Models \cup {Cloud})
  BY <1>1, AppendProperties DEF Call
<1>3. /\ r \in Call /\ r.pc = next /\ r.answer = call[c].answer
      /\ r.tried = Append(call[c].tried, model) /\ r.todo = todo
  BY <1>1, <1>2 DEF Call
<1>4. call' = [call EXCEPT ![c] = r] /\ call'[c] = r
  BY <1>1 DEF Fails
<1>5. r.pc # "answered" /\ r.answer = NoText
  BY <1>3 DEF ChainInv, Typed
<1>6. \A e \in cache' : e.text \in Said
  BY DEF Fails, ChainInv, Typed
<1>7. Fresh(c)'
  BY <1>3, <1>4, ZenonT(40) DEF Fresh, MayFail
<1> HIDE DEF r
<1> QED
  BY <1>3, <1>4, <1>5, <1>6, <1>7, QuestionGoesOn

\* The steps that ask nobody: a hit or miss in the cache, the list of fallbacks,
\* and the text of an outage.
LEMMA TryNobodyKeepsInv ==
    ASSUME ChainInv, NEW c \in Callers, UNCHANGED run,
           LookupHit(c) \/ LookupMiss(c) \/ ListFallbacks(c) \/ Degrade(c)
    PROVE  ChainInv'
<1>1. /\ call[c] \in Call /\ call \in [Callers -> Call] /\ <<>> \in Seq(Models)
      /\ \A e \in cache : e.text \in Said
      /\ Fresh(c) /\ (call[c].pc = "answered" <=> call[c].answer # NoText)
  BY DEF ChainInv, Typed, Call
<1>2. CASE LookupHit(c)
  <2>1. PICK e \in cache : call' = [call EXCEPT ![c] =
           [call[c] EXCEPT !.pc = "answered", !.answer = e.text]]
    BY <1>2 DEF LookupHit, Hits
  <2> DEFINE r == [call[c] EXCEPT !.pc = "answered", !.answer = e.text]
  <2>2. e.text \in Said /\ e.text # NoText
    BY <1>1, AgentAssumption DEF Said
  <2>3. r \in Call /\ r.pc = "answered" /\ r.answer = e.text /\ r.tried = <<>>
    BY <1>1, <1>2, <2>2 DEF Call, LookupHit, At, Fresh
  <2>4. call' = [call EXCEPT ![c] = r] /\ call'[c] = r
    BY <1>1, <2>1
  <2>5. Fresh(c)'
    BY <2>3, <2>4, NobodyTried DEF Fresh
  <2>6. call[c].pc # "idle" /\ UNCHANGED cache
    BY <1>2 DEF LookupHit, At
  <2> HIDE DEF r
  <2> QED
    BY <1>1, <2>2, <2>3, <2>4, <2>5, <2>6, QuestionGoesOn
<1>3. CASE LookupMiss(c)
  <2> DEFINE r == [call[c] EXCEPT !.pc = "primary"]
  <2>1. /\ r \in Call /\ r.pc = "primary" /\ r.answer = call[c].answer
        /\ r.tried = <<>>
    BY <1>1, <1>3 DEF Call, LookupMiss, At, Fresh
  <2>2. call' = [call EXCEPT ![c] = r] /\ call'[c] = r /\ UNCHANGED cache
    BY <1>1, <1>3 DEF LookupMiss
  <2>3. Fresh(c)'
    BY <2>1, <2>2 DEF Fresh
  <2>4. call[c].pc = "lookup"
    BY <1>3 DEF LookupMiss, At
  <2>5. call[c].answer = NoText
    BY <1>1, <2>4
  <2> HIDE DEF r
  <2> QED
    BY <1>1, <2>1, <2>2, <2>3, <2>4, <2>5, QuestionGoesOn
<1>4. CASE ListFallbacks(c)
  <2>1. PICK available \in Listings : call' = [call EXCEPT ![c] =
           [call[c] EXCEPT !.pc = "fallback", !.todo = FallbackModels(available)]]
    BY <1>4 DEF ListFallbacks
  <2> DEFINE r == [call[c] EXCEPT !.pc = "fallback", !.todo = FallbackModels(available)]
  <2>2. /\ r \in Call /\ r.pc = "fallback" /\ r.answer = call[c].answer
        /\ r.tried = call[c].tried /\ r.todo = FallbackModels(available)
    BY <1>1, FallbackModelsFresh DEF Call
  <2>3. call' = [call EXCEPT ![c] = r] /\ call'[c] = r /\ UNCHANGED cache
    BY <1>1, <1>4, <2>1 DEF ListFallbacks
  <2>4. call[c].pc = "list"
    BY <1>4 DEF ListFallbacks, At
  <2>5. /\ Len(call[c].tried) \in {1, 2} /\ Range(call[c].tried) \subseteq Primaries
        /\ DOMAIN call[c].tried = 1..Len(call[c].tried)
    BY <1>1, <2>4 DEF Fresh, Call
  <2>6. OnlyRetried(call[c].tried)
    BY <2>5 DEF OnlyRetried
  <2>7. Cloud \notin Range(call[c].tried)
    <3>1. Primaries \subseteq Models
      BY <2>1, ResolvePrimary
    <3> QED
      BY <2>5, <3>1, ChainAssumption DEF Models
  <2> DEFINE todo == FallbackModels(available)
  <2>10. /\ todo \in Seq(Models) /\ IsInjective(todo)
         /\ Range(todo) \subseteq Range(Installed) \ Primaries
    BY FallbackModelsFresh
  <2> HIDE DEF todo
  <2>8. Fresh(c)'
    <3> HIDE DEF r
    <3> QED
      BY <2>2, <2>3, <2>5, <2>6, <2>7, <2>10 DEF Fresh, todo
  <2>9. call[c].answer = NoText
    BY <1>1, <2>4
  <2> HIDE DEF r
  <2> QED
    BY <1>1, <2>2, <2>3, <2>4, <2>8, <2>9, QuestionGoesOn
<1>5. CASE Degrade(c)
  <2> DEFINE r == [call[c] EXCEPT !.pc = "answered", !.answer = Degraded]
  <2>1. /\ r \in Call /\ r.pc = "answered" /\ r.answer = Degraded
        /\ r.tried = call[c].tried
    BY <1>1 DEF Call
  <2>2. call' = [call EXCEPT ![c] = r] /\ call'[c] = r /\ UNCHANGED cache
    BY <1>1, <1>5 DEF Degrade
  <2>3. call[c].pc = "fallback"
    BY <1>5 DEF Degrade, At
  <2>4. Fresh(c)'
    BY <1>1, <2>1, <2>2, <2>3 DEF Fresh
  <2> HIDE DEF r
  <2> QED
    BY <1>1, <2>1, <2>2, <2>3, <2>4, AgentAssumption, QuestionGoesOn
<1> QED
  BY <1>2, <1>3, <1>4, <1>5

\* The primary, first or after a timeout: at most two are asked before the list.
LEMMA TryPrimaryKeepsInv ==
    ASSUME ChainInv, NEW c \in Callers, NEW says \in SUBSET Said, UNCHANGED run,
           TryPrimary(c, says) \/ RetryPrimary(c, says)
    PROVE  ChainInv'
<1> DEFINE tried == call[c].tried
<1>1. tried \in Seq(Models \cup {Cloud}) /\ Fresh(c)
  BY DEF ChainInv, Typed, Call
<1>2. \/ call[c].pc = "primary" /\ tried = <<>> /\ TryPrimary(c, says)
      \/ /\ call[c].pc = "retry" /\ RetryPrimary(c, says)
         /\ Len(tried) = 1 /\ Range(tried) \subseteq Primaries
  BY <1>1 DEF TryPrimary, RetryPrimary, At, Fresh
<1>3. PICK available \in Listings :
        LET model == Resolve(Configured, available)
        IN  \/ Answers(c, model, StoreKey(c, "ollama"), says)
            \/ call[c].pc = "primary" /\ Fails(c, model, "retry", <<>>)
            \/ Fails(c, model, "list", <<>>)
  BY <1>2 DEF TryPrimary, RetryPrimary
<1> DEFINE model == Resolve(Configured, available)
<1>4. model \in Primaries /\ model \in Models
  BY ResolvePrimary
<1>5. /\ Len(tried) <= 1 /\ OnlyRetried(tried) /\ Range(tried) \subseteq Primaries
      /\ call[c].pc \notin {"idle", "answered"}
      /\ call[c].pc = "primary" => Len(tried) = 0
  <2>1. CASE call[c].pc = "primary" /\ tried = <<>>
    <3>1. Len(tried) = 0
      BY <2>1, EmptySeq
    <3> QED
      BY <2>1, <3>1, NobodyTried
  <2>2. CASE call[c].pc = "retry" /\ Len(tried) = 1 /\ Range(tried) \subseteq Primaries
    <3>1. DOMAIN tried = 1..1
      BY <1>1, <2>2, LenProperties
    <3>2. OnlyRetried(tried)
      BY <3>1 DEF OnlyRetried
    <3> QED
      BY <2>2, <3>2
  <2> QED
    BY <1>2, <2>1, <2>2
<1>6. Len(Append(tried, model)) = Len(tried) + 1 /\ Len(tried) \in Nat
  BY <1>1, <1>4, LenProperties, AppendProperties
<1>7. Range(Append(tried, model)) \subseteq Primaries
  BY <1>1, <1>4, <1>5, AppendRange
<1>8. OnlyRetried(Append(tried, model))
  BY <1>1, <1>4, <1>5, TryNew
<1>9. <<>> \in Seq(Models)
  BY EmptySeq
<1> HIDE DEF model
<1>10. CASE Answers(c, model, StoreKey(c, "ollama"), says)
  BY <1>4, <1>5, <1>8, <1>10, AnswersKeepsInv
<1>11. CASE call[c].pc = "primary" /\ Fails(c, model, "retry", <<>>)
  <2>1. MayFail("retry", Append(tried, model), <<>>)
    BY <1>5, <1>6, <1>7, <1>11 DEF MayFail
  <2> QED
    BY <1>4, <1>5, <1>9, <1>11, <2>1, FailsKeepsInv
<1>12. CASE Fails(c, model, "list", <<>>)
  <2>1. MayFail("list", Append(tried, model), <<>>)
    BY <1>5, <1>6, <1>7 DEF MayFail
  <2> QED
    BY <1>4, <1>5, <1>9, <1>12, <2>1, FailsKeepsInv
<1> QED
  BY <1>3, <1>10, <1>11, <1>12 DEF model

\* A fallback is asked under its own name, and is then not left to ask.
LEMMA TryFallbackKeepsInv ==
    ASSUME ChainInv, NEW c \in Callers, NEW says \in SUBSET Said, UNCHANGED run,
           TryFallback(c, says)
    PROVE  ChainInv'
<1> DEFINE tried == call[c].tried
           todo == call[c].todo
           model == Head(todo)
<1>1. /\ tried \in Seq(Models \cup {Cloud}) /\ todo \in Seq(Models) /\ Fresh(c)
      /\ call[c].pc = "fallback" /\ todo # <<>>
  BY DEF ChainInv, Typed, Call, TryFallback, At
<1>2. /\ OnlyRetried(tried) /\ IsInjective(todo)
      /\ Range(todo) \subseteq Range(Installed)
      /\ Range(todo) \cap Range(tried) = {} /\ Cloud \notin Range(tried)
  BY <1>1 DEF Fresh
<1>3. /\ model \in Range(todo) /\ Tail(todo) \in Seq(Models)
      /\ IsInjective(Tail(todo)) /\ Range(Tail(todo)) \subseteq Range(todo) \ {model}
  <2>1. /\ DOMAIN todo = 1..Len(todo) /\ Len(todo) \in Nat \ {0} /\ model = todo[1]
        /\ Tail(todo) \in Seq(Models) /\ DOMAIN Tail(todo) = 1..Len(todo) - 1
        /\ \A i \in 1..Len(todo) - 1 : Tail(todo)[i] = todo[i + 1]
    BY <1>1, LenProperties, HeadTailProperties, EmptySeq
  <2>2. model \in Range(todo)
    BY <2>1 DEF Range
  <2>3. ASSUME NEW i \in 1..Len(todo) - 1, NEW j \in 1..Len(todo) - 1,
               Tail(todo)[i] = Tail(todo)[j]
        PROVE  i = j
    <3>1. todo[i + 1] = todo[j + 1] /\ i + 1 \in DOMAIN todo /\ j + 1 \in DOMAIN todo
      BY <2>1, <2>3
    <3>2. i + 1 = j + 1
      BY <1>2, <3>1 DEF IsInjective
    <3> QED
      BY <3>2
  <2>4. ASSUME NEW i \in 1..Len(todo) - 1
        PROVE  Tail(todo)[i] \in Range(todo) /\ Tail(todo)[i] # todo[1]
    BY <1>2, <2>1 DEF IsInjective, Range
  <2>5. Range(Tail(todo)) \subseteq Range(todo) \ {model}
    BY <2>1, <2>4 DEF Range
  <2>6. IsInjective(Tail(todo))
    BY <2>1, <2>3 DEF IsInjective
  <2> QED
    BY <2>1, <2>2, <2>5, <2>6
<1>4. /\ model \in Models /\ model \in Range(Installed) /\ model \notin Range(tried)
      /\ model # Cloud
  BY <1>2, <1>3, ChainAssumption DEF Models
<1>5. PICK available \in Listings :
        \/ Answers(c, Resolve(model, available), model, says)
        \/ Fails(c, Resolve(model, available), "fallback", Tail(todo))
  BY DEF TryFallback
<1>6. Resolve(model, available) = model
  BY <1>4, MatchingInstalled DEF Resolve, Listings
<1>7. OnlyRetried(Append(tried, model))
  BY <1>1, <1>2, <1>4, TryNew
<1>8. Range(Append(tried, model)) = Range(tried) \cup {model}
  BY <1>1, <1>4, AppendRange
<1> HIDE DEF model
<1>9. CASE Answers(c, model, model, says)
  BY <1>1, <1>4, <1>7, <1>9, AnswersKeepsInv
<1>10. CASE Fails(c, model, "fallback", Tail(todo))
  <2>1. MayFail("fallback", Append(tried, model), Tail(todo))
    BY <1>2, <1>3, <1>4, <1>7, <1>8 DEF MayFail
  <2> QED
    BY <1>1, <1>3, <1>4, <1>10, <2>1, FailsKeepsInv
<1> QED
  BY <1>5, <1>6, <1>9, <1>10

\* The cloud is asked when no fallback is left, once.
LEMMA TryCloudKeepsInv ==
    ASSUME ChainInv, NEW c \in Callers, NEW says \in SUBSET Said, UNCHANGED run,
           TryCloud(c, says)
    PROVE  ChainInv'
<1>1. /\ call[c].tried \in Seq(Models \cup {Cloud}) /\ Fresh(c)
      /\ call[c].pc = "fallback" /\ Answers(c, Cloud, StoreKey(c, "openai"), says)
  BY DEF ChainInv, Typed, Call, TryCloud, At
<1>2. OnlyRetried(call[c].tried) /\ Cloud \notin Range(call[c].tried)
  BY <1>1 DEF Fresh
<1>3. OnlyRetried(Append(call[c].tried, Cloud))
  BY <1>1, <1>2, TryNew
<1> QED
  BY <1>1, <1>3, AnswersKeepsInv

\* Every step of the chain; the question under way stays under way.
LEMMA ChainStepKeepsInv ==
    ASSUME ChainInv, NEW c \in Callers, NEW says \in SUBSET Said, UNCHANGED run,
           ChainStep(c, says)
    PROVE  ChainInv'
  BY TryNobodyKeepsInv, TryPrimaryKeepsInv, TryFallbackKeepsInv, TryCloudKeepsInv
  DEF ChainStep

-----------------------------------------------------------------------------
(* The loop: the inductive invariant                                       *)

\* The questions are counted per step: at most two for its plan and one for its
\* tool, and one for the answer.
Paid(r) ==
    /\ Len(r.pad) <= r.budget /\ r.calls <= MaxCalls(r)
    /\ r.pc \in {"plan", "replan", "act", "tool", "compose"} => Len(r.pad) < r.budget
    /\ r.pc = "plan" => r.calls <= 3 * Len(r.pad) + 1
    /\ r.pc \in {"replan", "act"} => r.calls <= 3 * Len(r.pad) + 2
    /\ r.pc \in {"tool", "compose"} => r.calls <= 3 * Len(r.pad) + 3

Once(pad) ==
    \A i, j \in DOMAIN pad :
        /\ pad[i].how = "ran" /\ pad[j].how = "ran"
        /\ pad[i].action = pad[j].action
        => i = j

\* The steps that name a deep dive, and those that made one.
Named(pad) == {i \in DOMAIN pad : pad[i].action \in DeepDives}
Dived(pad) == {i \in DOMAIN pad : pad[i].how = "ran" /\ pad[i].action \in DeepDives}

\* What is about to be executed has not been, and is below the cap: between the
\* decision and the entry in the scratchpad nothing is checked again.
Pending(r) ==
    r.pc \in {"act", "tool"} =>
        /\ r.action \in Actions
        /\ ~\E i \in DOMAIN r.pad : r.pad[i] = [action |-> r.action, how |-> "ran"]
        /\ r.action \in DeepDives => Cardinality(Named(r.pad)) < MaxDeepDives

Sound(r) ==
    Paid(r) /\ Once(r.pad) /\ Cardinality(Dived(r.pad)) <= MaxDeepDives /\ Pending(r)

LoopInv == ChainInv /\ \A a \in Callers : Sound(run[a])

-----------------------------------------------------------------------------
(* The loop: the scratchpad                                                *)

\* What one more entry does to the counts.
LEMMA PadGrows ==
    ASSUME NEW pad \in Seq(Entry), NEW e \in Entry
    PROVE  /\ Append(pad, e) \in Seq(Entry) /\ Len(Append(pad, e)) = Len(pad) + 1
           /\ Len(pad) \in Nat
           /\ Cardinality(Named(pad)) \in Nat /\ Cardinality(Dived(pad)) \in Nat
           /\ Cardinality(Dived(pad)) <= Cardinality(Named(pad))
           /\ Cardinality(Dived(Append(pad, e))) =
                IF e.how = "ran" /\ e.action \in DeepDives
                THEN Cardinality(Dived(pad)) + 1 ELSE Cardinality(Dived(pad))
<1> DEFINE n == Len(pad)
           more == Append(pad, e)
<1>1. /\ DOMAIN pad = 1..n /\ n \in Nat
      /\ more \in Seq(Entry) /\ DOMAIN more = 1..n + 1 /\ Len(more) = n + 1
      /\ \A i \in 1..n : more[i] = pad[i]
      /\ more[n + 1] = e
  BY LenProperties, AppendProperties
<1>2. IsFiniteSet(1..n)
  <2>1. 1 \in Int /\ n \in Int
    BY <1>1
  <2> QED
    BY <2>1, FS_Interval
<1>3. /\ Named(pad) \subseteq 1..n /\ Dived(pad) \subseteq Named(pad)
  BY <1>1 DEF Named, Dived
<1>4. /\ IsFiniteSet(Named(pad)) /\ IsFiniteSet(Dived(pad))
      /\ Cardinality(Dived(pad)) <= Cardinality(Named(pad))
  BY <1>2, <1>3, FS_Subset
<1>5. Cardinality(Named(pad)) \in Nat /\ Cardinality(Dived(pad)) \in Nat
  BY <1>4, FS_CardinalityType
<1>6. n + 1 \notin Dived(pad)
  BY <1>1, <1>3
<1>7. Dived(more) = IF e.how = "ran" /\ e.action \in DeepDives
                    THEN Dived(pad) \cup {n + 1} ELSE Dived(pad)
  <2> HIDE DEF more, n
  <2> QED
    BY <1>1 DEF Dived
<1>8. Cardinality(Dived(pad) \cup {n + 1}) = Cardinality(Dived(pad)) + 1
  BY <1>4, <1>6, FS_AddElement
<1> QED
  BY <1>1, <1>4, <1>5, <1>7, <1>8

\* An entry repeats no execution unless it is one itself, of the same action.
LEMMA PadStaysOnce ==
    ASSUME NEW pad \in Seq(Entry), NEW e \in Entry, Once(pad),
           e.how = "ran" => ~\E i \in DOMAIN pad : pad[i] = [action |-> e.action, how |-> "ran"]
    PROVE  Once(Append(pad, e))
<1> DEFINE n == Len(pad)
           more == Append(pad, e)
<1>1. /\ DOMAIN pad = 1..n /\ n \in Nat /\ DOMAIN more = 1..n + 1
      /\ \A i \in 1..n : more[i] = pad[i] /\ pad[i] \in Entry
      /\ more[n + 1] = e
  BY LenProperties, AppendProperties
<1>2. ASSUME NEW i \in 1..n, pad[i].how = "ran", pad[i].action = e.action, e.how = "ran"
      PROVE  FALSE
  <2>1. pad[i] = [action |-> e.action, how |-> "ran"]
    BY <1>1, <1>2 DEF Entry
  <2> QED
    BY <1>1, <1>2, <2>1
<1> HIDE DEF more, n
<1>3. ASSUME NEW i \in 1..n + 1, NEW j \in 1..n + 1,
             more[i].how = "ran", more[j].how = "ran", more[i].action = more[j].action
      PROVE  i = j
  <2>1. CASE i \in 1..n /\ j \in 1..n
    BY <1>1, <1>3, <2>1 DEF Once
  <2>2. CASE i = n + 1 /\ j \in 1..n
    BY <1>1, <1>2, <1>3, <2>2
  <2>3. CASE i \in 1..n /\ j = n + 1
    BY <1>1, <1>2, <1>3, <2>3
  <2> QED
    BY <1>1, <2>1, <2>2, <2>3
<1>4. Once(more)
  BY <1>1, <1>3 DEF Once
<1> QED
  BY <1>4 DEF more

-----------------------------------------------------------------------------
(* The loop: its steps                                                     *)

\* A run goes on, or ends, in a record r that is sound, with a new question, or
\* without one.
LEMMA RunGoesOn ==
    ASSUME LoopInv, NEW a \in Callers, NEW r \in Run, NEW q \in Call,
           run' = [run EXCEPT ![a] = r], call' = [call EXCEPT ![a] = q],
           UNCHANGED cache, Sound(r), q.pc \in {"idle", "lookup"},
           r.pc \in Waits <=> q.pc # "idle", q.answer = NoText, q.tried = <<>>
    PROVE  LoopInv'
<1> USE DEF LoopInv, ChainInv
<1>1. /\ call \in [Callers -> Call] /\ call'[a] = q /\ call' \in [Callers -> Call]
      /\ \A x \in Callers \ {a} : call'[x] = call[x]
      /\ run \in [Callers -> Run] /\ run'[a] = r /\ run' \in [Callers -> Run]
      /\ \A x \in Callers \ {a} : run'[x] = run[x]
  BY DEF Typed
<1>2. Typed'
  BY <1>1 DEF Typed
<1>3. ASSUME NEW x \in Callers
      PROVE  Fresh(x)'
  <2>1. CASE x = a
    BY <1>1, <2>1 DEF Fresh
  <2>2. CASE x # a
    BY <1>1, <2>2 DEF Fresh
  <2> QED
    BY <2>1, <2>2
<1>4. ASSUME NEW x \in Callers
      PROVE  Sound(run'[x])
  BY <1>1
<1> QED
  BY <1>2, <1>3, <1>4

\* A question in the form in which every one is begun.
LEMMA QuestionIsCall ==
    ASSUME NEW prompt \in (({"plan", "replan", "synthesize"} \X Seq(Entry))
                              \cup ({"tool"} \X Actions)),
           NEW raw \in BOOLEAN
    PROVE  /\ Question(prompt, raw) \in Call /\ Question(prompt, raw).pc = "lookup"
           /\ Question(prompt, raw).answer = NoText
           /\ Question(prompt, raw).tried = <<>>
<1>1. <<>> \in Seq(Models) /\ <<>> \in Seq(Models \cup {Cloud})
  BY EmptySeq
<1> QED
  BY <1>1 DEF Question, NoCall, Call

LEMMA NoCallIsCall == NoCall \in Call
<1>1. <<>> \in Seq(Models) /\ <<>> \in Seq(Models \cup {Cloud})
  BY EmptySeq
<1> QED
  BY <1>1 DEF NoCall, Call

\* The run asks: its record is r with the step it waits in and one more question.
LEMMA AsksKeepsInv ==
    ASSUME LoopInv, NEW a \in Callers, NEW r \in Run, NEW pc \in Waits,
           NEW prompt \in (({"plan", "replan", "synthesize"} \X Seq(Entry))
                              \cup ({"tool"} \X Actions)),
           NEW raw \in BOOLEAN, Asks(a, r, pc, prompt, raw), r.calls <= MaxCalls(r),
           Sound([r EXCEPT !.pc = pc, !.calls = r.calls + 1])
    PROVE  LoopInv'
<1> DEFINE s == [r EXCEPT !.pc = pc, !.calls = r.calls + 1]
           q == Question(prompt, raw)
<1>1. r.calls \in Nat /\ r.budget \in Nat
  BY DEF Run
<1>2. MaxCalls(r) \in Nat
  BY <1>1 DEF MaxCalls
<1>3. ~(r.calls > MaxCalls(r))
  BY <1>1, <1>2
<1>4. run' = [run EXCEPT ![a] = s] /\ call' = [call EXCEPT ![a] = q] /\ UNCHANGED cache
  BY <1>3 DEF Asks
<1>5. s \in Run /\ s.pc = pc
  <2>1. r.calls + 1 \in Nat
    BY <1>1
  <2> QED
    BY <2>1 DEF Run, Waits
<1>6. q \in Call /\ q.pc = "lookup" /\ q.answer = NoText /\ q.tried = <<>>
  BY QuestionIsCall
<1> HIDE DEF s, q
<1> QED
  BY <1>4, <1>5, <1>6, RunGoesOn DEF s

\* Whatever the run was at, it may end.
LEMMA EndsKeepsInv ==
    ASSUME LoopInv, NEW a \in Callers,
           NEW out \in {"final", "outage", "broken", "abandoned"},
           NEW reason \in {"completed", "planning_failed", "max_steps_reached"},
           NEW answer \in Said \cup {NoText}, Ends(a, out, reason, answer)
    PROVE  LoopInv'
<1> DEFINE r == [run[a] EXCEPT !.pc = "idle", !.out = out, !.reason = reason,
                               !.answer = answer]
<1>1. run[a] \in Run /\ Sound(run[a])
  BY DEF LoopInv, ChainInv, Typed
<1>2. /\ r \in Run /\ r.pc = "idle" /\ r.pad = run[a].pad /\ r.calls = run[a].calls
      /\ r.budget = run[a].budget
  BY <1>1, ZenonT(40) DEF Run
<1>3. run' = [run EXCEPT ![a] = r] /\ call' = [call EXCEPT ![a] = NoCall]
      /\ UNCHANGED cache
  BY DEF Ends
<1> HIDE DEF r
<1>4. Sound(r)
  BY <1>1, <1>2 DEF Sound, Paid, Pending, MaxCalls
<1>5. r.pc \notin Waits /\ NoCall.pc = "idle" /\ NoCall.answer = NoText /\ NoCall.tried = <<>>
  BY <1>2 DEF Waits, NoCall
<1> QED
  BY <1>2, <1>3, <1>4, <1>5, NoCallIsCall, RunGoesOn

\* The step is written down and the run asks for the next plan or the answer.
LEMMA NextStepKeepsInv ==
    ASSUME LoopInv, NEW a \in Callers, NEW action \in Actions,
           NEW how \in {"ran", "repeated", "blocked"}, NextStep(a, action, how),
           run[a].pc \in {"plan", "replan", "act", "tool"},
           how = "ran" => run[a].pc \in {"act", "tool"} /\ action = run[a].action
    PROVE  LoopInv'
<1> DEFINE e == [action |-> action, how |-> how]
           pad == Append(run[a].pad, e)
           r == [run[a] EXCEPT !.pad = pad, !.action = "none"]
<1>1. run[a] \in Run /\ Sound(run[a])
  BY DEF LoopInv, ChainInv, Typed
<1>2. /\ e \in Entry /\ e.how = how /\ e.action = action /\ run[a].pad \in Seq(Entry)
      /\ run[a].calls \in Nat /\ run[a].budget \in Nat
  BY <1>1 DEF Entry, Run
<1>3. /\ pad \in Seq(Entry) /\ Len(pad) = Len(run[a].pad) + 1 /\ Len(run[a].pad) \in Nat
      /\ Cardinality(Named(run[a].pad)) \in Nat /\ Cardinality(Dived(run[a].pad)) \in Nat
      /\ Cardinality(Dived(run[a].pad)) <= Cardinality(Named(run[a].pad))
      /\ Cardinality(Dived(pad)) =
           IF how = "ran" /\ action \in DeepDives
           THEN Cardinality(Dived(run[a].pad)) + 1 ELSE Cardinality(Dived(run[a].pad))
  BY <1>2, PadGrows
<1>4. Once(pad)
  <2>1. Once(run[a].pad) /\ Pending(run[a])
    BY <1>1 DEF Sound
  <2>2. how = "ran" => ~\E i \in DOMAIN run[a].pad :
                           run[a].pad[i] = [action |-> action, how |-> "ran"]
    BY <2>1 DEF Pending
  <2> HIDE DEF e
  <2> QED
    BY <1>2, <2>1, <2>2, PadStaysOnce
<1>5. Cardinality(Dived(pad)) <= MaxDeepDives
  BY <1>1, <1>3, AgentAssumption DEF Sound, Pending
<1> HIDE DEF e, pad
<1>6. /\ r \in Run /\ r.pad = pad /\ r.budget = run[a].budget /\ r.calls = run[a].calls
  BY <1>1, <1>3 DEF Run
<1>7. /\ Len(run[a].pad) < run[a].budget /\ run[a].calls <= 3 * Len(run[a].pad) + 3
      /\ run[a].calls <= 3 * run[a].budget + 1
  <2>1. Paid(run[a])
    BY <1>1 DEF Sound
  <2>2. run[a].calls <= 3 * run[a].budget + 1
    BY <2>1 DEF Paid, MaxCalls
  <2> QED
    BY <1>1, <1>2, <1>3, <2>1, <2>2, SMTT(30) DEF Paid
<1>8. ASSUME NEW pc \in {"plan", "synthesize"},
             pc = "plan" => Len(pad) # run[a].budget
      PROVE  Sound([r EXCEPT !.pc = pc, !.calls = r.calls + 1])
  <2> DEFINE s == [r EXCEPT !.pc = pc, !.calls = r.calls + 1]
  <2>1. /\ s.pc = pc /\ s.pad = pad /\ s.budget = run[a].budget
        /\ s.calls = run[a].calls + 1
    BY <1>6 DEF Run
  <2> HIDE DEF s
  <2>2. /\ Len(pad) <= run[a].budget
        /\ run[a].calls + 1 <= 3 * Len(pad) + 1
        /\ run[a].calls + 1 <= 3 * run[a].budget + 1
    <3> DEFINE m == Len(run[a].pad)
               n == Len(pad)
               c == run[a].calls
               b == run[a].budget
    <3>1. m \in Nat /\ n = m + 1 /\ c \in Nat /\ b \in Nat /\ m < b /\ c <= 3 * m + 3
      BY <1>2, <1>3, <1>7
    <3> HIDE DEF m, n, c, b
    <3> QED
      BY <3>1, SMTT(30) DEF n, c, b
  <2>3. pc = "plan" => Len(pad) < run[a].budget
    BY <1>2, <1>3, <1>8, <2>2
  <2>4. Paid(s)
    BY <1>8, <2>1, <2>2, <2>3 DEF Paid, MaxCalls
  <2>5. Pending(s)
    BY <2>1 DEF Pending
  <2>6. Sound(s)
    BY <1>4, <1>5, <2>1, <2>4, <2>5 DEF Sound
  <2> QED
    BY <2>6 DEF s
<1>9. r.calls <= MaxCalls(r)
  BY <1>6, <1>7 DEF MaxCalls
<1>10. \/ Len(pad) = run[a].budget /\ Asks(a, r, "synthesize", <<"synthesize", pad>>, TRUE)
       \/ Len(pad) # run[a].budget /\ Asks(a, r, "plan", <<"plan", pad>>, TRUE)
  BY <1>6 DEF NextStep, pad, e
<1> HIDE DEF r
<1> QED
  BY <1>3, <1>6, <1>8, <1>9, <1>10, AsksKeepsInv DEF Waits

\* A question that leaves the scratchpad as it is.
LEMMA AsksAgainKeepsInv ==
    ASSUME LoopInv, NEW a \in Callers, NEW pc \in Waits,
           NEW prompt \in (({"plan", "replan", "synthesize"} \X Seq(Entry))
                              \cup ({"tool"} \X Actions)),
           NEW raw \in BOOLEAN, Asks(a, run[a], pc, prompt, raw),
           \/ pc = "replan" /\ run[a].pc = "plan"
           \/ pc = "compose" /\ run[a].pc = "replan"
           \/ pc = "tool" /\ run[a].pc = "act"
    PROVE  LoopInv'
<1> DEFINE r == [run[a] EXCEPT !.pc = pc, !.calls = run[a].calls + 1]
<1>1. run[a] \in Run /\ Sound(run[a])
  BY DEF LoopInv, ChainInv, Typed
<1>2. /\ r.pc = pc /\ r.pad = run[a].pad /\ r.budget = run[a].budget
      /\ r.calls = run[a].calls + 1 /\ r.action = run[a].action
  BY <1>1 DEF Run
<1>3. /\ run[a].pad \in Seq(Entry) /\ Len(run[a].pad) \in Nat
      /\ run[a].calls \in Nat /\ run[a].budget \in Nat
  BY <1>1, LenProperties DEF Run
<1> HIDE DEF r
<1>4. Paid(r) /\ run[a].calls <= MaxCalls(run[a])
  <2> DEFINE n == Len(run[a].pad)
             c == run[a].calls
             b == run[a].budget
  <2>1. /\ n \in Nat /\ c \in Nat /\ b \in Nat /\ n < b /\ c <= 3 * b + 1
        /\ pc \in {"replan", "compose", "tool"}
        /\ pc = "replan" => c <= 3 * n + 1
        /\ pc \in {"compose", "tool"} => c <= 3 * n + 2
    BY <1>1, <1>3 DEF Sound, Paid, MaxCalls
  <2> HIDE DEF n, c, b
  <2>2. /\ c + 1 <= 3 * b + 1
        /\ pc = "replan" => c + 1 <= 3 * n + 2
        /\ pc \in {"compose", "tool"} => c + 1 <= 3 * n + 3
    BY <2>1
  <2> QED
    BY <1>1, <1>2, <2>1, <2>2 DEF Paid, MaxCalls, n, c, b
<1>5. Pending(r)
  BY <1>1, <1>2 DEF Sound, Pending
<1>6. Sound(r)
  BY <1>1, <1>2, <1>4, <1>5 DEF Sound
<1> QED
  BY <1>1, <1>4, <1>6, AsksKeepsInv DEF r

\* A new action is chosen when it has not been executed and the cap allows it.
LEMMA ChosenKeepsInv ==
    ASSUME LoopInv, NEW a \in Callers, Chosen(a)
    PROVE  LoopInv'
<1> DEFINE r == [run[a] EXCEPT !.pc = "act", !.action = Reply(a)]
<1>1. run[a] \in Run /\ Sound(run[a]) /\ Reply(a) \in Actions
  BY DEF LoopInv, ChainInv, Typed, Chosen
<1>2. /\ r \in Run /\ r.pc = "act" /\ r.pad = run[a].pad /\ r.budget = run[a].budget
      /\ r.calls = run[a].calls /\ r.action = Reply(a)
  BY <1>1 DEF Run
<1>3. /\ run' = [run EXCEPT ![a] = r] /\ call' = [call EXCEPT ![a] = NoCall]
      /\ UNCHANGED cache
  BY DEF Chosen
<1> HIDE DEF r
<1>4. run[a].pc \in {"plan", "replan"}
  BY DEF Chosen, Planned, Replied, Step
<1>5. Paid(r)
  <2>1. run[a].pad \in Seq(Entry) /\ Len(run[a].pad) \in Nat /\ run[a].calls \in Nat
    BY <1>1, LenProperties DEF Run
  <2> QED
    BY <1>1, <1>2, <1>4, <2>1 DEF Sound, Paid, MaxCalls
<1>6. Pending(r)
  BY <1>1, <1>2 DEF Pending, Chosen, Did, DeepDivesUsed, Named
<1>7. Sound(r)
  BY <1>1, <1>2, <1>5, <1>6 DEF Sound
<1>8. r.pc \notin Waits /\ NoCall.pc = "idle" /\ NoCall.answer = NoText /\ NoCall.tried = <<>>
  BY <1>2 DEF Waits, NoCall
<1> QED
  BY <1>2, <1>3, <1>7, <1>8, NoCallIsCall, RunGoesOn

LEMMA NoRunIsRun ==
    /\ NoRun \in Run /\ NoRun.pc = "idle" /\ NoRun.pad = <<>>
    /\ NoRun.calls = 0 /\ NoRun.budget = 1
<1>1. <<>> \in Seq(Entry)
  BY EmptySeq
<1> QED
  BY <1>1 DEF NoRun, Run

\* A run that has done nothing yet.
LEMMA NewRunIsSound ==
    ASSUME NEW r, r.pad = <<>>, r.budget \in Nat \ {0}, r.calls \in {0, 1},
           r.pc \in {"idle", "plan"}
    PROVE  Sound(r)
<1>1. Len(<<>>) = 0 /\ DOMAIN <<>> = {}
  BY EmptySeq, LenProperties
<1>2. Dived(<<>>) = {} /\ Once(<<>>)
  BY <1>1 DEF Dived, Once
<1>3. Cardinality({}) = 0
  BY FS_EmptySet
<1>4. 0 <= MaxDeepDives
  BY AgentAssumption
<1>5. Paid(r)
  BY <1>1 DEF Paid, MaxCalls
<1>6. Pending(r)
  BY DEF Pending
<1> QED
  BY <1>2, <1>3, <1>4, <1>5, <1>6 DEF Sound

\* A run starts with a question for its plan and an empty scratchpad.
LEMMA StartKeepsInv ==
    ASSUME LoopInv, NEW a \in Callers, Start(a)
    PROVE  LoopInv'
<1>1. PICK n \in Requested :
        run' = [run EXCEPT ![a] = [NoRun EXCEPT !.pc = "plan", !.budget = n, !.calls = 1]]
  BY DEF Start
<1> DEFINE r == [NoRun EXCEPT !.pc = "plan", !.budget = n, !.calls = 1]
           q == Question(<<"plan", <<>>>>, TRUE)
<1>2. n \in Nat /\ n > 0
  BY <1>1, AgentAssumption
<1>3. <<>> \in Seq(Entry)
  BY EmptySeq
<1>4. /\ r \in Run /\ r.pc = "plan" /\ r.budget = n /\ r.calls = 1 /\ r.pad = <<>>
  <2>1. n \in Nat \ {0} /\ "plan" \in Waits
    BY <1>2 DEF Waits
  <2>2. NoRun \in Run /\ NoRun.pad = <<>>
    BY NoRunIsRun
  <2> QED
    BY <2>1, <2>2 DEF Run
<1>5. <<"plan", <<>>>> \in {"plan", "replan", "synthesize"} \X Seq(Entry)
  BY <1>3
<1>6. q \in Call /\ q.pc = "lookup" /\ q.answer = NoText /\ q.tried = <<>>
  BY <1>5, QuestionIsCall
<1>7. /\ run' = [run EXCEPT ![a] = r] /\ call' = [call EXCEPT ![a] = q]
      /\ UNCHANGED cache
  BY <1>1 DEF Start
<1> HIDE DEF r, q
<1>8. Sound(r)
  BY <1>2, <1>4, NewRunIsSound
<1>9. r.pc \in Waits
  BY <1>4 DEF Waits
<1> QED
  BY <1>4, <1>6, <1>7, <1>8, <1>9, RunGoesOn

-----------------------------------------------------------------------------
(* Invariance                                                              *)

LEMMA LoopStepKeepsInv ==
    ASSUME LoopInv, NEW a \in Callers, LoopStep(a)
    PROVE  LoopInv'
<1>1. /\ run[a] \in Run /\ call[a] \in Call /\ Sound(run[a])
      /\ run[a].pad \in Seq(Entry)
  BY DEF LoopInv, ChainInv, Typed, Run
<1>2. CASE Repeated(a)
  BY <1>2, NextStepKeepsInv DEF Repeated, Planned, Replied, Step
<1>3. CASE Blocked(a)
  BY <1>3, NextStepKeepsInv, AgentAssumption DEF Blocked, Planned, Replied, Step
<1>4. CASE Chosen(a)
  BY <1>4, ChosenKeepsInv
<1>5. CASE RunTool(a)
  <2>1. run[a].pc = "act" /\ run[a].action \in Actions
    BY <1>1, <1>5 DEF RunTool, Step, Sound, Pending
  <2>2. CASE NextStep(a, run[a].action, "ran")
    BY <2>1, <2>2, NextStepKeepsInv
  <2>3. CASE Asks(a, run[a], "tool", <<"tool", run[a].action>>, FALSE)
    <3>1. <<"tool", run[a].action>> \in {"tool"} \X Actions
      BY <2>1
    <3> QED
      BY <2>1, <2>3, <3>1, AsksAgainKeepsInv DEF Waits
  <2> QED
    BY <1>5, <2>2, <2>3 DEF RunTool
<1>6. CASE ToolAnswered(a)
  <2>1. run[a].pc = "tool" /\ run[a].action \in Actions
    BY <1>1, <1>6 DEF ToolAnswered, Replied, Step, Sound, Pending
  <2> QED
    BY <1>6, <2>1, NextStepKeepsInv DEF ToolAnswered
<1>7. CASE Finish(a)
  BY <1>7, EndsKeepsInv DEF Finish, Said
<1>8. CASE Malformed(a)
  BY <1>8, EndsKeepsInv DEF Malformed
<1>9. CASE Replan(a)
  <2>1. run[a].pc = "plan" /\ Asks(a, run[a], "replan", <<"replan", run[a].pad>>, TRUE)
    BY <1>9 DEF Replan, Replied, Step
  <2> QED
    BY <1>1, <2>1, AsksAgainKeepsInv DEF Waits
<1>10. CASE GiveUpPlanning(a)
  <2>1. CASE Asks(a, run[a], "compose", <<"synthesize", run[a].pad>>, TRUE)
    <3>1. run[a].pc = "replan"
      BY <1>10 DEF GiveUpPlanning, Replied, Step
    <3> QED
      BY <1>1, <2>1, <3>1, AsksAgainKeepsInv DEF Waits
  <2>2. CASE Ends(a, "final", "planning_failed", "text")
    BY <2>2, EndsKeepsInv DEF Said
  <2> QED
    BY <1>10, <2>1, <2>2 DEF GiveUpPlanning
<1>11. CASE LlmUnavailable(a)
  BY <1>11, EndsKeepsInv DEF LlmUnavailable
<1>12. CASE Composed(a) \/ Synthesized(a)
  <2>1. Reply(a) \in Said \cup {NoText}
    BY <1>1, <1>12 DEF Composed, Synthesized, Reply, Call
  <2> QED
    BY <1>12, <2>1, EndsKeepsInv DEF Composed, Synthesized
<1> QED
  BY <1>2, <1>3, <1>4, <1>5, <1>6, <1>7, <1>8, <1>9, <1>10, <1>11, <1>12 DEF LoopStep

LEMMA AgentStarts == AgentInit => LoopInv
<1> SUFFICES ASSUME AgentInit PROVE LoopInv
  OBVIOUS
<1>1. Sound(NoRun)
  BY NoRunIsRun, NewRunIsSound
<1>2. NoCall.pc = "idle" /\ NoCall.answer = NoText /\ NoCall.tried = <<>>
  BY DEF NoCall
<1>3. \A c \in Callers : run[c] = NoRun /\ call[c] = NoCall
  BY DEF AgentInit, ChainInit
<1>4. Typed
  BY <1>2, <1>3, NoRunIsRun, NoCallIsCall DEF AgentInit, ChainInit, Typed, Waits
<1>5. \A c \in Callers : Fresh(c)
  BY <1>2, <1>3 DEF Fresh
<1> QED
  BY <1>1, <1>3, <1>4, <1>5 DEF LoopInv, ChainInv

LEMMA AgentGoesOn == LoopInv /\ [AgentNext]_agentVars => LoopInv'
<1> SUFFICES ASSUME LoopInv, [AgentNext]_agentVars PROVE LoopInv'
  OBVIOUS
<1>1. ASSUME NEW a \in Callers, ChainStep(a, Says(call[a].prompt)), UNCHANGED <<run, runs>>
      PROVE  LoopInv'
  <2>1. Says(call[a].prompt) \in SUBSET Said
    BY DEF Says, Said
  <2>2. ChainInv'
    BY <1>1, <2>1, ChainStepKeepsInv DEF LoopInv
  <2> QED
    BY <1>1, <2>2 DEF LoopInv
<1>2. ASSUME NEW a \in Callers, Abandon(a)
      PROVE  LoopInv'
  BY <1>2, EndsKeepsInv DEF Abandon
<1>3. ASSUME UNCHANGED agentVars
      PROVE  LoopInv'
  BY <1>3 DEF agentVars, chainVars, LoopInv, ChainInv, Typed, Fresh
<1> QED
  BY <1>1, <1>2, <1>3, StartKeepsInv, LoopStepKeepsInv DEF AgentNext, RunStep, Quiet

LEMMA AgentInvariance == AgentSpec => []LoopInv
  BY AgentStarts, AgentGoesOn, PTL DEF AgentSpec

-----------------------------------------------------------------------------
(* Theorems                                                                *)

\* Runs and questions keep their types, a run waits exactly for the question it
\* has asked, and never has more steps than its budget.
THEOREM AgentTypeCorrect == AgentSpec => []AgentTypeOK
<1>1. LoopInv => AgentTypeOK
  <2> SUFFICES ASSUME LoopInv PROVE AgentTypeOK
    OBVIOUS
  <2>1. ChainTypeOK
    BY DEF LoopInv, ChainInv, Typed, Call, ChainTypeOK
  <2>2. \A a \in Callers : run[a] \in Run /\ Sound(run[a])
    BY DEF LoopInv, ChainInv, Typed
  <2> QED
    BY <2>1, <2>2 DEF LoopInv, ChainInv, Typed, Run, Sound, Paid, AgentTypeOK
<1> QED
  BY <1>1, AgentInvariance, PTL

\* The outage text is never the answer of a run, whatever failed and when.
THEOREM OutageNeverBrief == AgentSpec => []OutageIsNoBrief
<1>1. LoopInv => OutageIsNoBrief
  BY AgentAssumption DEF LoopInv, ChainInv, Typed, Run, Said, OutageIsNoBrief
<1> QED
  BY <1>1, AgentInvariance, PTL

\* The cache holds what models have said, in every interleaving of the callers.
THEOREM CacheNeverDegraded == AgentSpec => []CacheHoldsAnswers
<1>1. LoopInv => CacheHoldsAnswers
  BY AgentAssumption DEF LoopInv, ChainInv, Typed, Said, CacheHoldsAnswers
<1> QED
  BY <1>1, AgentInvariance, PTL

\* Whatever is installed, configured and listed at each moment, no model is
\* tried again for a question but the primary after a timeout; an attempt is up to
\* three requests of the model (llm_service.py:334-363).
THEOREM NoModelTwice == AgentSpec => []NoModelTriedAgain
<1>1. LoopInv => NoModelTriedAgain
  <2> SUFFICES ASSUME LoopInv, NEW c \in Callers PROVE OnlyRetried(call[c].tried)
    BY DEF NoModelTriedAgain, OnlyRetried
  <2>1. /\ call[c].tried \in Seq(Models \cup {Cloud}) /\ Fresh(c)
        /\ call[c].pc \in {"idle", "lookup", "primary", "retry", "list", "fallback",
                           "answered"}
    BY DEF LoopInv, ChainInv, Typed, Call
  <2>2. CASE call[c].pc \in {"idle", "lookup", "primary"}
    BY <2>1, <2>2, NobodyTried DEF Fresh
  <2>3. CASE call[c].pc \in {"retry", "list"}
    <3>1. Len(call[c].tried) \in {1, 2} /\ DOMAIN call[c].tried = 1..Len(call[c].tried)
      BY <2>1, <2>3, LenProperties DEF Fresh
    <3> QED
      BY <3>1 DEF OnlyRetried
  <2>4. CASE call[c].pc \in {"fallback", "answered"}
    BY <2>1, <2>4 DEF Fresh
  <2> QED
    BY <2>1, <2>2, <2>3, <2>4
<1> QED
  BY <1>1, AgentInvariance, PTL

\* No tool call is executed twice in a run.
THEOREM ActionsOnce == AgentSpec => []NoActionTwice
<1>1. LoopInv => NoActionTwice
  BY DEF LoopInv, Sound, Once, NoActionTwice
<1> QED
  BY <1>1, AgentInvariance, PTL

\* Of the calls that read one document no more than the cap are executed.
THEOREM DeepDivesAreCapped == AgentSpec => []DeepDivesCapped
<1>1. LoopInv => DeepDivesCapped
  BY DEF LoopInv, Sound, Dived, DeepDivesCapped
<1> QED
  BY <1>1, AgentInvariance, PTL

\* A run of n steps asks no more than 3n + 1 questions.
THEOREM CallsAreBounded == AgentSpec => []CallsBounded
<1>1. LoopInv => CallsBounded
  BY DEF LoopInv, Sound, Paid, CallsBounded
<1> QED
  BY <1>1, AgentInvariance, PTL
=============================================================================
