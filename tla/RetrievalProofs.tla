-------------------------- MODULE RetrievalProofs --------------------------
(***************************************************************************)
(* Theorems about Retrieval, for any documents, engines, weights, budgets  *)
(* and questions.  Normalisation and weights are shown to keep the order   *)
(* the engines agree on, and the packing of documents is followed one      *)
(* document at a time.                                                     *)
(***************************************************************************)
EXTENDS Retrieval, SubsequenceLemmas, TLAPS

-----------------------------------------------------------------------------
(* The inductive invariant                                                 *)

DocsInScope == Range(ask.docs) \subseteq ask.scope

\* What is loaded replaces the documents, so nothing may have been given of them.
NothingGivenYet == ~At("packed") => DOMAIN ask.context.given = {}

RetrievalInv ==
    /\ RetrievalTypeOK /\ ResultsInScope /\ DocsInScope /\ NothingGivenYet
    /\ BetterHitsRankFirst /\ SharedFairly

-----------------------------------------------------------------------------
(* Normalised scores                                                       *)

\* A normalised score is a number, and the order of the scores is kept.
LEMMA PartFacts ==
    ASSUME NEW S \in SUBSET Docs, NEW h \in [S -> Scores]
    PROVE  /\ Whole(h) \in Nat \ {0}
           /\ \A d : Part(h, d) \in Nat
           /\ \A d, e : NotWorseIn(h, d, e) => Part(h, d) >= Part(h, e)
           /\ \A d, e : BetterIn(h, d, e) => Part(h, d) > Part(h, e)
<1> DEFINE R == Range(h)
           n == Cardinality(R)
           least == Min(R)
<1>1. DOMAIN h = S /\ R \in SUBSET Nat /\ \A d \in S : h[d] \in R /\ h[d] \in Nat
  BY RetrievalAssumption DEF Range
<1>2. IsFiniteSet(R) /\ n \in Nat
  <2>1. IsFiniteSet(S)
    BY RetrievalAssumption, FS_Subset
  <2>2. h \in Surjection(S, R)
    BY <1>1 DEF Surjection, Range
  <2> HIDE DEF R
  <2>3. IsFiniteSet(R)
    BY <2>1, <2>2, FS_Surjection
  <2> QED
    BY <2>3, FS_CardinalityType
<1>3. /\ Whole(h) = IF n < 2 THEN 1 ELSE Max(R) - least
      /\ \A d : Part(h, d) = IF d \notin S THEN 0
                             ELSE IF n = 1 THEN 1 ELSE h[d] - least
  BY <1>1 DEF Whole, Part
<1>4. (n = 0 => R = {}) /\ (n = 1 <=> \E x : R = {x})
  BY <1>2, FS_EmptySet, FS_Singleton
<1>5. R # {} => least \in R /\ \A y \in R : least <= y
  BY <1>1, LeastMember
<1>6. R # {} => Max(R) \in R /\ \A y \in R : Max(R) >= y
  BY <1>1, <1>2, GreatestMember
<1> HIDE DEF R, n, least
<1>7. Whole(h) \in Nat \ {0}
  <2>1. CASE n < 2
    BY <1>3, <2>1
  <2>2. CASE ~(n < 2)
    <3>1. R # {}
      BY <1>1, <1>2, <2>2, FS_EmptySet DEF n
    <3>2. Max(R) # least
      <4> SUFFICES ASSUME Max(R) = least PROVE FALSE
        OBVIOUS
      <4>1. ASSUME NEW y \in R PROVE y = least
        <5>1. y \in Nat /\ least \in Nat
          BY <1>1, <1>5, <3>1
        <5>2. least <= y /\ y <= least
          BY <1>5, <1>6, <3>1, <5>1
        <5> QED
          BY <5>1, <5>2
      <4>2. R = {least}
        BY <4>1, <1>5, <3>1
      <4> QED
        BY <4>2, <1>4, <2>2
    <3>3. Max(R) \in Nat /\ least \in Nat /\ Max(R) >= least
      BY <1>1, <1>5, <1>6, <3>1
    <3> QED
      BY <1>3, <2>2, <3>2, <3>3
  <2> QED
    BY <2>1, <2>2
<1>8. ASSUME NEW d \in S PROVE least \in Nat /\ least <= h[d] /\ h[d] \in Nat
  BY <1>1, <1>5
<1>9. ASSUME NEW d PROVE Part(h, d) \in Nat
  BY <1>3, <1>8
<1>10. ASSUME NEW d, NEW e, NotWorseIn(h, d, e)
       PROVE  Part(h, d) >= Part(h, e)
  <2>1. CASE e \in S
    <3>1. d \in S /\ h[d] >= h[e]
      BY <1>1, <1>10, <2>1 DEF NotWorseIn
    <3> QED
      BY <3>1, <2>1, <1>3, <1>8
  <2>2. CASE e \notin S
    BY <2>2, <1>3, <1>9
  <2> QED
    BY <2>1, <2>2
<1>11. ASSUME NEW d, NEW e, BetterIn(h, d, e)
       PROVE  Part(h, d) > Part(h, e)
  <2>1. d \in S /\ e \in S /\ h[d] > h[e]
    BY <1>1, <1>11 DEF BetterIn
  <2>2. h[d] \in R /\ h[e] \in R /\ h[d] # h[e]
    BY <1>1, <2>1
  <2>3. n # 1
    BY <1>4, <2>2
  <2> QED
    BY <2>1, <2>3, <1>3, <1>8
<1> QED
  BY <1>7, <1>9, <1>10, <1>11

LEMMA Weighted ==
    ASSUME NEW k \in Nat \ {0}, NEW w \in Nat \ {0}, NEW a \in Nat, NEW b \in Nat
    PROVE  /\ k * a * w \in Nat /\ k * b * w \in Nat
           /\ a >= b => k * a * w >= k * b * w
           /\ a > b => k * a * w > k * b * w
<1> DEFINE p == k * a
           q == k * b
<1>1. p \in Nat /\ q \in Nat /\ (a >= b => p >= q) /\ (a > b => p > q)
  OBVIOUS
<1> HIDE DEF p, q
<1>2. /\ p * w \in Nat /\ q * w \in Nat
      /\ p >= q => p * w >= q * w
      /\ p > q => p * w > q * w
  BY <1>1
<1> QED
  BY <1>1, <1>2 DEF p, q

\* What is left of the hits are scores of documents in scope.
LEMMA LegTypes ==
    ASSUME RetrievalTypeOK
    PROVE  /\ Keyword \in [DOMAIN Keyword -> Scores] /\ DOMAIN Keyword \subseteq ask.scope
           /\ Vector \in [DOMAIN Vector -> Scores] /\ DOMAIN Vector \subseteq ask.scope
           /\ ask.scope \subseteq Docs
<1>1. ask.keyword \in Hits /\ ask.vector \in Hits /\ ask.scope \subseteq Docs
  BY DEF RetrievalTypeOK, Ask
<1>2. ASSUME NEW h \in Hits
      PROVE  LET r == Restrict(h, ask.scope \cap DOMAIN h)
             IN  r \in [DOMAIN r -> Scores] /\ DOMAIN r \subseteq ask.scope
  BY DEF Hits, Restrict
<1> QED
  BY <1>1, <1>2 DEF Keyword, Vector

\* A document better in one engine and not worse in the other gets more.
LEMMA BetterFused ==
    ASSUME RetrievalTypeOK, NEW d, NEW e, Better(d, e)
    PROVE  Fused(d) \in Nat /\ Fused(e) \in Nat /\ Fused(d) > Fused(e)
<1> DEFINE kw == KeywordWeight * Part(Keyword, d) * Whole(Vector)
           ke == KeywordWeight * Part(Keyword, e) * Whole(Vector)
           vd == VectorWeight * Part(Vector, d) * Whole(Keyword)
           ve == VectorWeight * Part(Vector, e) * Whole(Keyword)
<1>1. /\ DOMAIN Keyword \in SUBSET Docs /\ Keyword \in [DOMAIN Keyword -> Scores]
      /\ DOMAIN Vector \in SUBSET Docs /\ Vector \in [DOMAIN Vector -> Scores]
  BY LegTypes
<1>2. /\ Whole(Keyword) \in Nat \ {0}
      /\ Part(Keyword, d) \in Nat /\ Part(Keyword, e) \in Nat
      /\ NotWorseIn(Keyword, d, e) => Part(Keyword, d) >= Part(Keyword, e)
      /\ BetterIn(Keyword, d, e) => Part(Keyword, d) > Part(Keyword, e)
  BY <1>1, PartFacts
<1>3. /\ Whole(Vector) \in Nat \ {0}
      /\ Part(Vector, d) \in Nat /\ Part(Vector, e) \in Nat
      /\ NotWorseIn(Vector, d, e) => Part(Vector, d) >= Part(Vector, e)
      /\ BetterIn(Vector, d, e) => Part(Vector, d) > Part(Vector, e)
  BY <1>1, PartFacts
<1>4. KeywordWeight \in Nat \ {0} /\ VectorWeight \in Nat \ {0}
  BY RetrievalAssumption
<1>5. /\ kw \in Nat /\ ke \in Nat
      /\ Part(Keyword, d) >= Part(Keyword, e) => kw >= ke
      /\ Part(Keyword, d) > Part(Keyword, e) => kw > ke
  BY <1>2, <1>3, <1>4, Weighted
<1>6. /\ vd \in Nat /\ ve \in Nat
      /\ Part(Vector, d) >= Part(Vector, e) => vd >= ve
      /\ Part(Vector, d) > Part(Vector, e) => vd > ve
  BY <1>2, <1>3, <1>4, Weighted
<1>7. Fused(d) = kw + vd /\ Fused(e) = ke + ve
  BY DEF Fused
<1> HIDE DEF kw, ke, vd, ve
<1>8. kw >= ke /\ vd >= ve /\ (kw > ke \/ vd > ve)
  BY <1>2, <1>3, <1>5, <1>6 DEF Better
<1> QED
  BY <1>5, <1>6, <1>7, <1>8

-----------------------------------------------------------------------------
(* Results                                                                 *)

\* An arrangement has every member once.
LEMMA Arranged ==
    ASSUME NEW S, IsFiniteSet(S), NEW s \in Arrangements(S)
    PROVE  s \in Seq(S) /\ IsInjective(s) /\ Range(s) = S
<1> DEFINE n == Cardinality(S)
<1>1. n \in Nat /\ s \in [1..n -> S] /\ IsInjective(s)
  BY FS_CardinalityType DEF Arrangements
<1> HIDE DEF n
<1>2. s \in Seq(S)
  BY <1>1, SeqDef
<1>3. s \in Injection(1..n, S)
  BY <1>1 DEF Injection, IsInjective
<1>4. Cardinality(1..n) = n
  <2>1. 1 \in Int /\ n \in Int
    BY <1>1
  <2>2. Cardinality(1..n) = IF 1 > n THEN 0 ELSE n - 1 + 1
    BY <2>1, FS_Interval
  <2> QED
    BY <1>1, <2>2
<1>5. s \in Surjection(1..n, S)
  <2> DEFINE I == 1..n
  <2>1. s \in Injection(I, S) /\ Cardinality(I) = Cardinality(S)
    BY <1>3, <1>4 DEF n
  <2> HIDE DEF I
  <2>2. s \in Surjection(I, S)
    BY <2>1, FS_Injection
  <2> QED
    BY <2>2 DEF I
<1>6. Range(s) = S
  BY <1>1, <1>5 DEF Surjection, Range
<1> QED
  BY <1>1, <1>2, <1>6

\* The first results, and no more than are wanted.
LEMMA FirstResults ==
    ASSUME NEW S, NEW s \in Seq(S)
    PROVE  /\ Cut(s) \in Seq(S) /\ Len(Cut(s)) <= Limit /\ Len(Cut(s)) <= Len(s)
           /\ \A i \in 1..Len(Cut(s)) : Cut(s)[i] = s[i]
           /\ IsInjective(s) => IsInjective(Cut(s))
           /\ Range(Cut(s)) \subseteq Range(s)
<1> DEFINE n == Min({Len(s), Limit})
           r == Cut(s)
<1>1. /\ Len(s) \in Nat /\ Limit \in Nat /\ DOMAIN s = 1..Len(s)
      /\ \A i \in 1..Len(s) : s[i] \in S
  BY LenProperties, ElementOfSeq, RetrievalAssumption
<1>2. n = IF Len(s) <= Limit THEN Len(s) ELSE Limit
  BY <1>1, MinOfTwo
<1> HIDE DEF n
<1>3. n \in Nat /\ n <= Len(s) /\ n <= Limit /\ \A i \in 1..n : s[i] \in S
  BY <1>1, <1>2
<1>4. r = SubSeq(s, 1, n)
  BY DEF Cut, n
<1> HIDE DEF r
<1>5. /\ r \in Seq(S) /\ Len(r) = n /\ \A i \in 1..n : r[i] = s[i]
  <2>1. 1 \in Int /\ n \in Int
    BY <1>3
  <2>2. /\ SubSeq(s, 1, n) \in Seq(S)
        /\ Len(SubSeq(s, 1, n)) = (IF 1 <= n THEN n - 1 + 1 ELSE 0)
        /\ \A i \in 1..n - 1 + 1 : SubSeq(s, 1, n)[i] = s[1 + i - 1]
    BY <2>1, <1>3, SubSeqProperties
  <2> QED
    BY <1>3, <1>4, <2>2
<1>6. DOMAIN r = 1..n
  BY <1>5, LenProperties
<1>7. IsInjective(s) => IsInjective(r)
  BY <1>1, <1>3, <1>5, <1>6 DEF IsInjective
<1>8. Range(r) \subseteq Range(s)
  BY <1>1, <1>3, <1>5, <1>6 DEF Range
<1> QED
  BY <1>1, <1>3, <1>5, <1>7, <1>8 DEF r

-----------------------------------------------------------------------------
(* What is counted                                                         *)

Sums(f, s, n) == f = [k \in 0..n |-> IF k = 0 THEN 0 ELSE f[k - 1] + s[k]]

LEMMA SumFacts ==
    ASSUME NEW s \in Seq(Nat), NEW n \in 0..Len(s)
    PROVE  Sum(s, n) \in Nat /\ Sum(s, 0) = 0
<1> DEFINE step == [p \in Nat \X (1..n) |-> p[1] + s[p[2]]]
<1>1. n \in Nat /\ \A k \in 1..n : s[k] \in Nat
  BY LenProperties, ElementOfSeq
<1>2. step \in [Nat \X (1..n) -> Nat]
  BY <1>1
<1>3. \A x \in Nat, k \in 1..n : step[<<x, k>>] = x + s[k]
  OBVIOUS
<1> HIDE DEF step
<1>4. PICK g \in [0..n -> Nat] : Steps(g, step, 0, n)
  BY <1>1, <1>2, StepsExist
<1>5. Sums(g, s, n)
  <2>1. ASSUME NEW k \in 1..n PROVE g[k] = g[k - 1] + s[k]
    <3>1. k - 1 \in 0..n
      BY <1>1
    <3>2. g[k - 1] \in Nat /\ g[k] = step[<<g[k - 1], k>>]
      BY <1>4, <3>1 DEF Steps
    <3> QED
      BY <1>3, <3>2
  <2>2. g[0] = 0
    BY <1>4 DEF Steps
  <2>3. \A k \in 0..n : k = 0 \/ k \in 1..n
    BY <1>1
  <2>4. \A k \in 0..n : g[k] = IF k = 0 THEN 0 ELSE g[k - 1] + s[k]
    BY <2>1, <2>2, <2>3
  <2> QED
    BY <1>4, <2>4 DEF Sums
<1>6. \E f : Sums(f, s, n) /\ Sum(s, n) = f[n]
  BY <1>5 DEF Sums, Sum
<1>7. PICK f : Sums(f, s, n) /\ Sum(s, n) = f[n]
  BY <1>6
<1>8. f[0] = 0 /\ \A k \in 1..n : f[k] = f[k - 1] + s[k]
  <2>1. \A k \in 0..n : f[k] = IF k = 0 THEN 0 ELSE f[k - 1] + s[k]
    BY <1>7 DEF Sums
  <2>2. 0 \in 0..n /\ \A k \in 1..n : k \in 0..n /\ k # 0
    BY <1>1
  <2> QED
    BY <2>1, <2>2
<1>9. ASSUME NEW k \in 1..n, f[k - 1] \in Nat
      PROVE  f[k] = step[<<f[k - 1], k>>]
  <2>1. f[k] = f[k - 1] + s[k]
    BY <1>8
  <2>2. step[<<f[k - 1], k>>] = f[k - 1] + s[k]
    BY <1>3, <1>9
  <2> QED
    BY <2>1, <2>2
<1>10. f[n] = g[n]
  <2>1. StepsWithin(Nat, f, step, 0, n)
    BY <1>8, <1>9 DEF StepsWithin
  <2> QED
    BY <1>1, <1>4, <2>1, StepsUnique
<1>11. Sum(s, 0) = 0
  <2> DEFINE z == [k \in 0..0 |-> 0]
  <2>1. Sums(z, s, 0)
    BY DEF Sums
  <2>2. \E h : Sums(h, s, 0) /\ Sum(s, 0) = h[0]
    BY <2>1 DEF Sums, Sum
  <2> QED
    BY <2>2 DEF Sums
<1> QED
  BY <1>1, <1>4, <1>7, <1>10, <1>11

\* Equal shares rounded down fit.
LEMMA SharesFit ==
    ASSUME NEW a \in Nat, NEW n \in Nat \ {0}
    PROVE  /\ a \div n \in Nat
           /\ \A k \in 0..n : k * (a \div n) \in Nat /\ k * (a \div n) <= a
           /\ \A k \in Nat : (k + 1) * (a \div n) = k * (a \div n) + (a \div n)
<1> DEFINE q == a \div n
<1>1. q \in Nat /\ n * q <= a
  OBVIOUS
<1> HIDE DEF q
<1>2. \A k \in 0..n : k * q \in Nat /\ k * q <= n * q
  BY <1>1
<1>3. \A k \in Nat : (k + 1) * q = k * q + q
  BY <1>1
<1>4. n * q \in Nat
  BY <1>2
<1>5. \A k \in 0..n : k * q \in Nat /\ k * q <= a
  BY <1>1, <1>2, <1>4
<1> QED
  BY <1>1, <1>3, <1>5 DEF q

\* A document more in the context.
LEMMA AddType ==
    ASSUME NEW d \in Docs, NEW kept, kept[d] \in Portions, NEW c \in Contexts,
           ask.budget \in Int, Share \in Int
    PROVE  /\ Add(d, kept, c) \in Contexts
           /\ DOMAIN Add(d, kept, c).given \subseteq DOMAIN c.given \cup {d}
<1> DEFINE portion == kept[d]
           cost == IF Tokens[d] <= Share THEN Tokens[d] ELSE Share
           given == [e \in DOMAIN c.given \cup {d} |->
                       IF e # d THEN c.given[e] ELSE portion]
<1>1. Tokens[d] \in Nat
  BY RetrievalAssumption
<1>3. portion \in Portions
  OBVIOUS
<1>4. cost \in Int
  BY <1>1
<1>5. PICK S \in SUBSET Docs : c.given \in [S -> Portions]
  BY DEF Contexts
<1>6. c.counted \in Int
  BY DEF Contexts
<1>7. Add(d, kept, c) = IF c.counted + cost > ask.budget THEN c
                        ELSE [given |-> given, counted |-> c.counted + cost]
  BY DEF Add
<1> HIDE DEF portion, cost
<1>8. given \in [S \cup {d} -> Portions] /\ DOMAIN c.given = S
  BY <1>3, <1>5
<1>9. given \in UNION {[T -> Portions] : T \in SUBSET Docs} /\ DOMAIN given = S \cup {d}
  <2> HIDE DEF given
  <2>1. S \cup {d} \in SUBSET Docs /\ given \in [S \cup {d} -> Portions]
    BY <1>5, <1>8
  <2> QED
    BY <2>1
<1>10. c.counted + cost \in Int
  BY <1>4, <1>6
<1> HIDE DEF given
<1> QED
  BY <1>7, <1>8, <1>9, <1>10 DEF Contexts

Packs(f, kept, n) ==
    f = [k \in 0..n |-> IF k = 0 THEN Asked ELSE Add(ask.docs[k], kept, f[k - 1])]

\* The contexts after each document.
LEMMA PackedFollows ==
    ASSUME RetrievalTypeOK, ask.docs # <<>>,
           NEW kept \in [Range(ask.docs) -> Portions]
    PROVE  \E g \in [0..Len(ask.docs) ->
                       {c \in Contexts : DOMAIN c.given \subseteq Range(ask.docs)}] :
             /\ g[0] = Asked /\ Packed(kept) = g[Len(ask.docs)]
             /\ \A k \in 1..Len(ask.docs) : g[k] = Add(ask.docs[k], kept, g[k - 1])
<1> DEFINE n == Len(ask.docs)
           X == {c \in Contexts : DOMAIN c.given \subseteq Range(ask.docs)}
           step == [p \in X \X (1..n) |-> Add(ask.docs[p[2]], kept, p[1])]
<1>1. /\ ask.docs \in Seq(Docs) /\ ask.budget \in Nat /\ ask.length \in Nat
  BY DEF RetrievalTypeOK, Ask
<1>2. /\ n \in Nat \ {0} /\ DOMAIN ask.docs = 1..n
      /\ \A k \in 1..n : ask.docs[k] \in Docs /\ ask.docs[k] \in Range(ask.docs)
  BY <1>1, LenProperties, ElementOfSeq, EmptySeq DEF Range
<1>3. Share \in Int
  BY <1>1, <1>2 DEF Share
<1>4. Asked \in X
  <2>1. NoHits \in [{} -> Portions] /\ DOMAIN NoHits = {}
    BY DEF NoHits
  <2>2. Asked = [given |-> NoHits, counted |-> ask.length]
    BY DEF Asked, NoContext
  <2>3. NoHits \in UNION {[S -> Portions] : S \in SUBSET Docs}
    BY <2>1
  <2>4. ask.length \in Int
    BY <1>1
  <2>5. Asked \in Contexts
    <3> HIDE DEF Asked, NoHits
    <3> QED
      BY <2>2, <2>3, <2>4 DEF Contexts
  <2>6. DOMAIN Asked.given = {}
    BY <2>1, <2>2
  <2> QED
    BY <2>5, <2>6
<1>5. \A x \in X, k \in 1..n : Add(ask.docs[k], kept, x) \in X
  <2>1. \A k \in 1..n : kept[ask.docs[k]] \in Portions
    BY <1>2
  <2> QED
    BY <1>1, <1>2, <1>3, <2>1, AddType
<1>6. step \in [X \X (1..n) -> X]
  BY <1>5
<1>7. \A x \in X, k \in 1..n : step[<<x, k>>] = Add(ask.docs[k], kept, x)
  OBVIOUS
<1> HIDE DEF step, X, n
<1>8. PICK g \in [0..n -> X] : Steps(g, step, Asked, n)
  BY <1>2, <1>4, <1>6, StepsExist
<1>9. /\ g[0] = Asked
      /\ \A k \in 1..n : g[k] = Add(ask.docs[k], kept, g[k - 1])
      /\ Packs(g, kept, n)
  <2>1. ASSUME NEW k \in 1..n PROVE g[k] = Add(ask.docs[k], kept, g[k - 1])
    <3>1. k - 1 \in 0..n
      BY <1>2
    <3>2. g[k - 1] \in X /\ g[k] = step[<<g[k - 1], k>>]
      BY <1>8, <3>1 DEF Steps
    <3> QED
      BY <1>7, <3>2
  <2>2. g[0] = Asked
    BY <1>8 DEF Steps
  <2>3. \A k \in 0..n : k = 0 \/ k \in 1..n
    BY <1>2
  <2>4. \A k \in 0..n : g[k] = IF k = 0 THEN Asked ELSE Add(ask.docs[k], kept, g[k - 1])
    BY <2>1, <2>2, <2>3
  <2> QED
    BY <1>8, <2>1, <2>2, <2>4 DEF Packs
<1>10. \E f : Packs(f, kept, n) /\ Packed(kept) = f[n]
  BY <1>9 DEF Packs, Packed, n
<1>11. PICK f : Packs(f, kept, n) /\ Packed(kept) = f[n]
  BY <1>10
<1>12. f[0] = Asked /\ \A k \in 1..n : f[k] = Add(ask.docs[k], kept, f[k - 1])
  <2>1. f = [k \in 0..n |-> IF k = 0 THEN Asked ELSE Add(ask.docs[k], kept, f[k - 1])]
    BY <1>11 DEF Packs
  <2>2. 0 \in 0..n /\ \A k \in 1..n : k \in 0..n /\ k # 0
    BY <1>2
  <2>3. \A k \in 0..n : f[k] = IF k = 0 THEN Asked ELSE Add(ask.docs[k], kept, f[k - 1])
    BY <2>1
  <2> QED
    BY <2>2, <2>3
<1>13. ASSUME NEW k \in 1..n, f[k - 1] \in X
       PROVE  f[k] = step[<<f[k - 1], k>>]
  BY <1>7, <1>12, <1>13
<1>14. f[n] = g[n]
  <2>1. n \in Nat /\ StepsWithin(X, f, step, Asked, n)
    BY <1>2, <1>12, <1>13 DEF StepsWithin
  <2> QED
    BY <1>8, <2>1, StepsUnique
<1> QED
  BY <1>8, <1>9, <1>11, <1>14 DEF n, X

\* With a question within the budget no document is left out.
LEMMA PackedFairly ==
    ASSUME RetrievalTypeOK, ask.docs # <<>>, ask.length <= ask.budget,
           NEW kept \in [Range(ask.docs) -> Portions]
    PROVE  /\ Share \in Nat /\ Packed(kept).counted <= ask.budget
           /\ \A d \in Range(ask.docs) :
                 d \in DOMAIN Packed(kept).given /\ Packed(kept).given[d] = kept[d]
<1> DEFINE n == Len(ask.docs)
           X == {c \in Contexts : DOMAIN c.given \subseteq Range(ask.docs)}
<1>1. /\ ask.docs \in Seq(Docs) /\ ask.budget \in Nat /\ ask.length \in Nat
  BY DEF RetrievalTypeOK, Ask
<1>2. /\ n \in Nat \ {0} /\ DOMAIN ask.docs = 1..n
      /\ \A k \in 1..n : ask.docs[k] \in Docs /\ Tokens[ask.docs[k]] \in Nat
  BY <1>1, LenProperties, ElementOfSeq, EmptySeq, RetrievalAssumption
<1>3. PICK g \in [0..n -> X] :
        /\ g[0] = Asked /\ Packed(kept) = g[n]
        /\ \A k \in 1..n : g[k] = Add(ask.docs[k], kept, g[k - 1])
  BY PackedFollows
<1>4. \A k \in 0..n : g[k].counted \in Int
  BY <1>3 DEF Contexts
<1> HIDE DEF n, X
<1>5. /\ Share \in Nat
      /\ \A k \in 0..n : k * Share \in Nat /\ ask.length + k * Share <= ask.budget
      /\ \A k \in Nat : (k + 1) * Share = k * Share + Share
  <2> DEFINE a == ask.budget - ask.length
  <2>1. a \in Nat /\ ask.length + a = ask.budget /\ Share = a \div n
    BY <1>1 DEF Share, n
  <2> HIDE DEF a
  <2>2. /\ a \div n \in Nat
        /\ \A k \in 0..n : k * (a \div n) \in Nat /\ k * (a \div n) <= a
        /\ \A k \in Nat : (k + 1) * (a \div n) = k * (a \div n) + (a \div n)
    BY <1>2, <2>1, SharesFit
  <2>3. /\ Share \in Nat
        /\ \A k \in 0..n : k * Share \in Nat /\ k * Share <= a
        /\ \A k \in Nat : (k + 1) * Share = k * Share + Share
    BY <2>1, <2>2
  <2>4. ASSUME NEW k \in 0..n
        PROVE  k * Share \in Nat /\ ask.length + k * Share <= ask.budget
    <3> DEFINE u == k * Share
    <3>1. u \in Nat /\ u <= a
      BY <2>3
    <3> HIDE DEF u
    <3>2. u \in Nat /\ ask.length + u <= ask.budget
      BY <1>1, <2>1, <3>1
    <3> QED
      BY <3>2 DEF u
  <2> QED
    BY <2>3, <2>4
<1> DEFINE Fair(k) == /\ g[k].counted <= ask.length + k * Share
                      /\ \A i \in 1..k : /\ ask.docs[i] \in DOMAIN g[k].given
                                         /\ g[k].given[ask.docs[i]] = kept[ask.docs[i]]
           N == {k \in Nat : k <= n => Fair(k)}
<1>6. 0 \in N
  <2>1. g[0].counted = ask.length
    BY <1>3 DEF Asked, NoContext
  <2>2. 0 * Share = 0
    BY <1>5
  <2>3. Fair(0)
    BY <1>1, <2>1, <2>2
  <2> QED
    BY <2>3
<1>7. ASSUME NEW k \in Nat, k \in N
      PROVE  k + 1 \in N
  <2> SUFFICES ASSUME k + 1 <= n PROVE Fair(k + 1)
    OBVIOUS
  <2> DEFINE m == k + 1
             d == ask.docs[m]
             c == g[k]
             cost == IF Tokens[d] <= Share THEN Tokens[d] ELSE Share
  <2>1. /\ m \in 1..n /\ m - 1 = k /\ k \in 0..n /\ m \in 0..n
        /\ \A i \in 1..m : i \in 1..k \/ i = m
    BY <1>2
  <2> HIDE DEF m
  <2>2. /\ c.counted \in Int /\ c.counted <= ask.length + k * Share
        /\ \A i \in 1..k : /\ ask.docs[i] \in DOMAIN c.given
                           /\ c.given[ask.docs[i]] = kept[ask.docs[i]]
    BY <1>4, <1>7, <2>1
  <2>3. m * Share = k * Share + Share /\ k * Share \in Nat /\ m * Share \in Nat
        /\ ask.length + m * Share <= ask.budget
    BY <1>5, <2>1 DEF m
  <2>4. cost \in Nat /\ cost <= Share
    BY <1>2, <1>5, <2>1
  <2>5. c.counted + cost <= ask.length + m * Share /\ ~(c.counted + cost > ask.budget)
    <3> DEFINE u == k * Share
               v == m * Share
               w == c.counted
    <3>1. /\ w \in Int /\ w <= ask.length + u /\ v = u + Share /\ Share \in Nat
          /\ u \in Nat /\ v \in Nat /\ ask.length + v <= ask.budget
      BY <1>5, <2>2, <2>3
    <3>2. cost \in Nat /\ cost <= Share /\ ask.length \in Nat /\ ask.budget \in Nat
      BY <1>1, <2>4
    <3> HIDE DEF u, v, w, c, cost
    <3>3. w + cost <= ask.length + u + Share
      BY <3>1, <3>2
    <3>4. w + cost <= ask.length + v /\ w + cost \in Int
      BY <3>1, <3>2, <3>3
    <3>5. ~(w + cost > ask.budget)
      BY <3>1, <3>2, <3>4
    <3> QED
      BY <3>4, <3>5 DEF v, w
  <2>6. g[m] = Add(d, kept, c)
    BY <1>3, <2>1
  <2>8. g[m] = [given |-> [e \in DOMAIN c.given \cup {d} |->
                             IF e # d THEN c.given[e] ELSE kept[d]],
                counted |-> c.counted + cost]
    BY <2>5, <2>6 DEF Add
  <2> HIDE DEF c, d, cost
  <2>9. /\ g[m].counted = c.counted + cost
        /\ DOMAIN g[m].given = DOMAIN c.given \cup {d}
        /\ \A e \in DOMAIN c.given \cup {d} :
              g[m].given[e] = IF e # d THEN c.given[e] ELSE kept[d]
    BY <2>8
  <2>10. ASSUME NEW i \in 1..m
         PROVE  /\ ask.docs[i] \in DOMAIN g[m].given
                /\ g[m].given[ask.docs[i]] = kept[ask.docs[i]]
    <3>1. CASE ask.docs[i] = d
      BY <3>1, <2>4, <2>9
    <3>2. CASE ask.docs[i] # d
      <4>1. i \in 1..k
        BY <3>2, <2>1 DEF d
      <4> QED
        BY <3>2, <4>1, <2>2, <2>9
    <3> QED
      BY <3>1, <3>2
  <2>11. g[m].counted <= ask.length + m * Share
    BY <2>5, <2>9
  <2> QED
    BY <2>10, <2>11 DEF m
<1>8. Nat \subseteq N
  <2> HIDE DEF N
  <2> QED
    BY <1>6, <1>7, Counting
<1>9. Fair(n)
  BY <1>2, <1>8
<1>10. Packed(kept).counted <= ask.budget
  <2>1. n \in 0..n
    BY <1>2
  <2>2. /\ g[n].counted \in Int /\ n * Share \in Nat
        /\ ask.length + n * Share <= ask.budget
    BY <1>4, <1>5, <2>1
  <2> QED
    BY <1>1, <1>3, <1>9, <2>2
<1>11. ASSUME NEW d \in Range(ask.docs)
       PROVE  d \in DOMAIN Packed(kept).given /\ Packed(kept).given[d] = kept[d]
  <2>1. PICK i \in 1..n : d = ask.docs[i]
    BY <1>2 DEF Range
  <2> QED
    BY <1>3, <1>9, <2>1
<1> QED
  BY <1>5, <1>10, <1>11

\* What is left of a text: all of it, or between 70 % and all of what its share
\* allows.
LEMMA RemainsFair ==
    ASSUME NEW d \in Docs, Share \in Nat, NEW k \in Remains(d)
    PROVE  /\ Tokens[d] <= Share => k = Chars[d]
           /\ k = Chars[d] \/ (k <= 4 * Share /\ 10 * k >= 28 * Share)
<1> DEFINE target == 4 * Share
<1>1. CASE Uncut(d)
  BY <1>1 DEF Remains
<1>2. CASE ~Uncut(d)
  <2>1. target \in Nat /\ 7 * target = 28 * Share /\ 10 * target = 40 * Share
    OBVIOUS
  <2>2. k \in {target} \cup {n \in 1..target - 1 : 10 * (n - 1) > 7 * target}
    BY <1>2, <2>1 DEF Remains
  <2> HIDE DEF target
  <2>3. k <= target /\ 10 * k >= 7 * target
    BY <2>1, <2>2
  <2>4. ~(Tokens[d] <= Share)
    BY <1>2 DEF Uncut
  <2> QED
    BY <2>1, <2>3, <2>4 DEF target
<1> QED
  BY <1>1, <1>2

-----------------------------------------------------------------------------
(* The invariant is inductive                                              *)

\* Before anything is searched or given.
Blank(q) ==
    /\ q \in Ask /\ q.pc \in {"idle", "scoped", "ranked"}
    /\ Len(q.results) = 0 /\ DOMAIN q.results = {} /\ Range(q.results) = {}
    /\ IsInjective(q.results)
    /\ Range(q.docs) = {} /\ IsInjective(q.docs)
    /\ DOMAIN q.context.given = {}

LEMMA NothingAsked ==
    ASSUME NEW p \in {"idle", "scoped", "ranked"}, NEW scope \in SUBSET Docs
    PROVE  Blank(NoQuestion) /\ Blank([NoQuestion EXCEPT !.pc = p, !.scope = scope])
<1> DEFINE q == NoQuestion
           r == [q EXCEPT !.pc = p, !.scope = scope]
<1>1. NoHits \in Hits /\ DOMAIN NoHits = {}
  <2>1. {} \in {T \in SUBSET Docs : Cardinality(T) <= 3 * Limit}
    <3>1. Cardinality({}) = 0
      BY FS_EmptySet
    <3> QED
      BY <3>1, RetrievalAssumption
  <2>2. NoHits \in [{} -> Scores] /\ DOMAIN NoHits = {}
    BY DEF NoHits
  <2> HIDE DEF NoHits
  <2> QED
    BY <2>1, <2>2 DEF Hits
<1>2. NoContext \in Contexts /\ NoContext.given = NoHits
  <2>1. NoHits \in [{} -> Portions]
    BY DEF NoHits
  <2>2. NoHits \in UNION {[S -> Portions] : S \in SUBSET Docs}
    BY <2>1
  <2> HIDE DEF NoHits
  <2> QED
    BY <2>2 DEF NoContext, Contexts
<1>3. /\ <<>> \in Seq(Docs) /\ Len(<<>>) = 0 /\ DOMAIN <<>> = {}
      /\ IsInjective(<<>>) /\ Range(<<>>) = {}
  <2>1. <<>> \in Seq(Docs) /\ Len(<<>>) = 0 /\ DOMAIN <<>> = {}
    BY EmptySeq, LenProperties
  <2> QED
    BY <2>1 DEF IsInjective, Range
<1>4. /\ q.pc = "idle" /\ q.results = <<>> /\ q.docs = <<>> /\ q.context = NoContext
  BY DEF NoQuestion
<1>5. q \in Ask
  BY <1>1, <1>2, <1>3 DEF Ask, NoQuestion
<1> HIDE DEF q
<1>6. Blank(q)
  BY <1>1, <1>2, <1>3, <1>4, <1>5 DEF Blank
<1>7. /\ r.pc = p /\ r.results = q.results /\ r.docs = q.docs
      /\ r.context = q.context /\ r \in Ask
  BY <1>5 DEF Ask
<1>8. Blank(r)
  BY <1>6, <1>7 DEF Blank
<1> QED
  BY <1>6, <1>8 DEF q

LEMMA InitInv == RetrievalInit => RetrievalInv
<1> SUFFICES ASSUME RetrievalInit PROVE RetrievalInv
  OBVIOUS
<1>1. ask = NoQuestion /\ permitted \subseteq Docs
  BY DEF RetrievalInit
<1>2. Blank(ask)
  BY <1>1, NothingAsked
<1>3. ask.pc = "idle"
  BY DEF RetrievalInit, NoQuestion
<1>4. RetrievalTypeOK
  BY <1>1, <1>2, RetrievalAssumption DEF RetrievalTypeOK, Blank
<1>5. ResultsInScope /\ DocsInScope /\ NothingGivenYet
  BY <1>2 DEF Blank, ResultsInScope, DocsInScope, NothingGivenYet
<1>6. BetterHitsRankFirst /\ SharedFairly
  BY <1>3 DEF BetterHitsRankFirst, SharedFairly, At
<1> QED
  BY <1>4, <1>5, <1>6 DEF RetrievalInv

\* A question is asked, and afterwards there is none.
LEMMA BlankInv ==
    ASSUME Scope \/ Leave, RetrievalInv
    PROVE  RetrievalInv'
<1>1. permitted \subseteq Docs /\ permitted' = permitted
  BY DEF RetrievalInv, RetrievalTypeOK, Scope, Leave
<1>2. Blank(ask')
  <2>1. CASE Scope
    <3> DEFINE p == IF permitted = {} THEN "ranked" ELSE "scoped"
    <3>1. p \in {"idle", "scoped", "ranked"}
      OBVIOUS
    <3>2. ask' = [NoQuestion EXCEPT !.pc = p, !.scope = permitted]
      BY <2>1 DEF Scope
    <3> HIDE DEF p
    <3> QED
      BY <1>1, <3>1, <3>2, NothingAsked
  <2>2. CASE Leave
    BY <1>1, <2>2, NothingAsked DEF Leave
  <2> QED
    BY <2>1, <2>2
<1>3. RetrievalTypeOK'
  BY <1>1, <1>2, RetrievalAssumption DEF RetrievalTypeOK, Blank
<1>4. ResultsInScope' /\ DocsInScope' /\ NothingGivenYet'
  BY <1>2 DEF Blank, ResultsInScope, DocsInScope, NothingGivenYet
<1>5. BetterHitsRankFirst' /\ SharedFairly'
  BY <1>2 DEF Blank, BetterHitsRankFirst, SharedFairly, At
<1> QED
  BY <1>3, <1>4, <1>5 DEF RetrievalInv

LEMMA ChangeAccessInv ==
    ASSUME ChangeAccess \/ UNCHANGED retrievalVars, RetrievalInv
    PROVE  RetrievalInv'
<1>1. ask' = ask /\ permitted' \subseteq Docs
  BY DEF ChangeAccess, retrievalVars, RetrievalInv, RetrievalTypeOK
<1>2. RetrievalTypeOK'
  BY <1>1 DEF RetrievalInv, RetrievalTypeOK
<1>3. ResultsInScope' /\ DocsInScope' /\ NothingGivenYet'
  BY <1>1 DEF RetrievalInv, ResultsInScope, DocsInScope, NothingGivenYet, At
<1>4. BetterHitsRankFirst'
  <2>1. Keyword' = Keyword /\ Vector' = Vector
    BY <1>1 DEF Keyword, Vector
  <2>2. Found' = Found
    BY <2>1 DEF Found
  <2>3. ASSUME NEW d, NEW e PROVE Better(d, e)' <=> Better(d, e)
    BY <2>1 DEF Better, BetterIn, NotWorseIn
  <2> QED
    BY <1>1, <2>2, <2>3 DEF RetrievalInv, BetterHitsRankFirst, At
<1>5. SharedFairly'
  BY <1>1 DEF RetrievalInv, SharedFairly, At
<1> QED
  BY <1>2, <1>3, <1>4, <1>5 DEF RetrievalInv

\* An engine answers.
LEMMA LegInv ==
    ASSUME KeywordLeg \/ VectorLeg, RetrievalInv
    PROVE  RetrievalInv'
<1>1. /\ ask'.pc \in {"searched", "found"} /\ permitted' = permitted
      /\ ask'.scope = ask.scope /\ ask'.results = ask.results
      /\ ask'.docs = ask.docs /\ ask'.context = ask.context /\ ask' \in Ask
  BY DEF RetrievalInv, RetrievalTypeOK, Ask, KeywordLeg, VectorLeg
<1>2. RetrievalTypeOK'
  BY <1>1 DEF RetrievalInv, RetrievalTypeOK
<1>3. ResultsInScope' /\ DocsInScope' /\ NothingGivenYet'
  <2>1. ~At("packed")
    BY DEF At, KeywordLeg, VectorLeg
  <2> QED
    BY <1>1, <2>1 DEF RetrievalInv, ResultsInScope, DocsInScope, NothingGivenYet
<1>4. BetterHitsRankFirst' /\ SharedFairly'
  BY <1>1 DEF BetterHitsRankFirst, SharedFairly, At
<1> QED
  BY <1>2, <1>3, <1>4 DEF RetrievalInv

\* What is found is in scope, and comes in the order of the weighted sums.
LEMMA RankInv ==
    ASSUME Rank, RetrievalInv
    PROVE  RetrievalInv'
<1>1. /\ RetrievalTypeOK /\ ask \in Ask /\ ask.scope \subseteq Docs
      /\ Found \subseteq ask.scope /\ IsFiniteSet(ask.scope)
  <2>1. RetrievalTypeOK
    BY DEF RetrievalInv
  <2>2. ask \in Ask /\ ask.scope \subseteq Docs
    BY <2>1 DEF RetrievalTypeOK, Ask
  <2>3. Found \subseteq ask.scope
    BY <2>1, LegTypes DEF Found
  <2> QED
    BY <2>1, <2>2, <2>3, RetrievalAssumption, FS_Subset
<1>2. PICK s, S :
        /\ S \subseteq ask.scope /\ s \in Arrangements(S)
        /\ Found # {} => S = Found /\ Sorted(s)
        /\ ask' = [ask EXCEPT !.pc = "ranked", !.results = Cut(s)]
  <2>1. PICK s \in IF Found # {} THEN {t \in Arrangements(Found) : Sorted(t)}
                                 ELSE UNION {Arrangements(S) : S \in Matching} :
          ask' = [ask EXCEPT !.pc = "ranked", !.results = Cut(s)]
    BY DEF Rank
  <2>2. \E S \in SUBSET ask.scope :
          s \in Arrangements(S) /\ (Found # {} => S = Found /\ Sorted(s))
    BY <1>1, <2>1 DEF Matching
  <2> QED
    BY <2>1, <2>2
<1>3. s \in Seq(S) /\ IsInjective(s) /\ Range(s) = S
  BY <1>1, <1>2, FS_Subset, Arranged
<1> DEFINE r == Cut(s)
<1>4. /\ r \in Seq(S) /\ Len(r) <= Limit /\ Len(r) <= Len(s)
      /\ \A i \in 1..Len(r) : r[i] = s[i]
      /\ IsInjective(r) /\ Range(r) \subseteq S
  BY <1>3, FirstResults
<1>5. r \in Seq(Docs)
  BY <1>1, <1>2, <1>4, SeqMonotonic
<1>6. /\ ask'.pc = "ranked" /\ ask'.results = r /\ ask'.scope = ask.scope
      /\ ask'.keyword = ask.keyword /\ ask'.vector = ask.vector
      /\ ask'.docs = ask.docs /\ ask'.context = ask.context /\ permitted' = permitted
  BY <1>1, <1>2 DEF Ask, Rank
<1> HIDE DEF r
<1>7. ask' \in Ask
  BY <1>1, <1>2, <1>5 DEF Ask, r
<1>8. RetrievalTypeOK'
  BY <1>4, <1>6, <1>7 DEF RetrievalInv, RetrievalTypeOK
<1>9. ResultsInScope' /\ DocsInScope' /\ NothingGivenYet'
  <2>1. ~At("packed")
    BY DEF At, Rank
  <2> QED
    BY <1>2, <1>4, <1>6, <2>1
    DEF RetrievalInv, ResultsInScope, DocsInScope, NothingGivenYet
<1>10. SharedFairly'
  BY <1>6 DEF SharedFairly, At
<1>11. Found' = Found /\ \A d, e : Better(d, e)' <=> Better(d, e)
  BY <1>6 DEF Found, Better, Keyword, Vector, NotWorseIn, BetterIn
<1>12. ASSUME NEW d \in Found, NEW i \in DOMAIN r, Better(d, r[i])
       PROVE  \E j \in 1..i - 1 : r[j] = d
  <2>1. S = Found /\ Sorted(s)
    BY <1>2
  <2>2. /\ Len(s) \in Nat /\ Len(r) \in Nat /\ DOMAIN s = 1..Len(s)
        /\ DOMAIN r = 1..Len(r)
    BY <1>3, <1>4, LenProperties
  <2>3. PICK j \in 1..Len(s) : s[j] = d
    BY <1>3, <2>1, <2>2 DEF Range
  <2>4. i \in 1..Len(r) /\ i \in 1..Len(s) /\ r[i] = s[i]
    BY <1>4, <2>2
  <2>5. /\ Fused(d) \in Nat /\ Fused(s[i]) \in Nat /\ Fused(d) > Fused(s[i])
    BY <1>1, <1>12, <2>4, BetterFused
  <2>6. ~(i < j) /\ i # j
    <3>1. i < j => Fused(s[i]) >= Fused(s[j])
      BY <2>1, <2>2, <2>4 DEF Sorted
    <3> QED
      BY <2>3, <2>5, <3>1
  <2>7. j \in 1..i - 1 /\ j \in 1..Len(r)
    BY <2>2, <2>3, <2>4, <2>6
  <2> QED
    BY <1>4, <2>3, <2>7
<1>13. BetterHitsRankFirst'
  BY <1>6, <1>11, <1>12 DEF BetterHitsRankFirst
<1> QED
  BY <1>8, <1>9, <1>10, <1>13 DEF RetrievalInv

\* Documents of the results are loaded.
LEMMA LoadInv ==
    ASSUME Load, RetrievalInv
    PROVE  RetrievalInv'
<1>1. /\ ask \in Ask /\ ask.scope \subseteq Docs /\ Range(ask.results) \subseteq ask.scope
      /\ DOMAIN ask.context.given = {}
  BY DEF RetrievalInv, RetrievalTypeOK, ResultsInScope, NothingGivenYet, At, Load, Ask
<1>2. PICK S \in SUBSET Range(ask.results), budget \in Budgets, length \in Questions :
        \E docs \in Arrangements(S) :
           ask' = [ask EXCEPT !.pc = "loaded", !.docs = docs, !.budget = budget,
                              !.length = length, !.keyword = NoHits,
                              !.vector = NoHits]
  BY DEF Load
<1>3. PICK docs \in Arrangements(S) :
        ask' = [ask EXCEPT !.pc = "loaded", !.docs = docs, !.budget = budget,
                           !.length = length, !.keyword = NoHits, !.vector = NoHits]
  BY <1>2
<1>4. S \subseteq Docs /\ IsFiniteSet(S) /\ S \subseteq ask.scope
  BY <1>1, RetrievalAssumption, FS_Subset
<1>5. docs \in Seq(S) /\ IsInjective(docs) /\ Range(docs) = S
  BY <1>4, Arranged
<1>6. docs \in Seq(Docs) /\ budget \in Nat /\ length \in Nat
  BY <1>4, <1>5, SeqMonotonic, RetrievalAssumption
<1>7. NoHits \in Hits
  <2>1. NoQuestion \in Ask
    BY NothingAsked DEF Blank
  <2>2. NoQuestion.keyword = NoHits
    BY DEF NoQuestion
  <2> HIDE DEF NoQuestion, NoHits
  <2> QED
    BY <2>1, <2>2 DEF Ask
<1>8. /\ ask'.pc = "loaded" /\ ask'.results = ask.results /\ ask'.scope = ask.scope
      /\ ask'.docs = docs /\ ask'.context = ask.context /\ permitted' = permitted
  BY <1>1, <1>3 DEF Ask, Load
<1>9. ask' \in Ask
  BY <1>1, <1>3, <1>6, <1>7 DEF Ask
<1>10. RetrievalTypeOK'
  BY <1>1, <1>5, <1>8, <1>9 DEF RetrievalInv, RetrievalTypeOK
<1>11. ResultsInScope' /\ DocsInScope' /\ NothingGivenYet'
  BY <1>1, <1>4, <1>5, <1>8 DEF ResultsInScope, DocsInScope, NothingGivenYet
<1>12. BetterHitsRankFirst' /\ SharedFairly'
  BY <1>8 DEF BetterHitsRankFirst, SharedFairly, At
<1> QED
  BY <1>10, <1>11, <1>12 DEF RetrievalInv

\* Whatever is packed: documents, or the rest without documents.
LEMMA PackedInv ==
    ASSUME RetrievalInv, NEW context \in Contexts,
           DOMAIN context.given \subseteq Range(ask.docs),
           ask' = [ask EXCEPT !.pc = "packed", !.context = context],
           permitted' = permitted,
           ask.length <= ask.budget =>
              /\ context.counted <= ask.budget
              /\ \A d \in Range(ask.docs) :
                    /\ d \in DOMAIN context.given
                    /\ Tokens[d] <= Share => context.given[d] = Chars[d]
                    /\ \/ context.given[d] = Chars[d]
                       \/ context.given[d] <= 4 * Share
                          /\ 10 * context.given[d] >= 28 * Share
    PROVE  RetrievalInv'
<1>1. ask \in Ask
  BY DEF RetrievalInv, RetrievalTypeOK
<1>2. /\ ask'.pc = "packed" /\ ask'.results = ask.results /\ ask'.scope = ask.scope
      /\ ask'.docs = ask.docs /\ ask'.context = context
      /\ ask'.budget = ask.budget /\ ask'.length = ask.length
  BY <1>1 DEF Ask
<1>3. ask' \in Ask
  BY <1>1 DEF Ask
<1>4. RetrievalTypeOK'
  BY <1>2, <1>3 DEF RetrievalInv, RetrievalTypeOK
<1>5. ResultsInScope' /\ DocsInScope'
  BY <1>2 DEF RetrievalInv, ResultsInScope, DocsInScope
<1>6. BetterHitsRankFirst' /\ NothingGivenYet'
  BY <1>2 DEF BetterHitsRankFirst, NothingGivenYet, At
<1>7. SharedFairly'
  BY <1>2 DEF SharedFairly, Share
<1> QED
  BY <1>4, <1>5, <1>6, <1>7 DEF RetrievalInv

LEMMA PackDocumentsInv ==
    ASSUME PackDocuments, RetrievalInv
    PROVE  RetrievalInv'
<1>1. PICK kept \in Remnants :
        /\ RetrievalTypeOK /\ ask.docs # <<>> /\ permitted' = permitted
        /\ ask' = [ask EXCEPT !.pc = "packed", !.context = Packed(kept)]
  BY DEF RetrievalInv, PackDocuments
<1>2. /\ kept \in [Range(ask.docs) -> Portions]
      /\ \A d \in Range(ask.docs) : kept[d] \in Remains(d)
  BY DEF Remnants
<1> DEFINE context == Packed(kept)
<1>3. ask.docs \in Seq(Docs) /\ Len(ask.docs) \in Nat /\ Range(ask.docs) \subseteq Docs
  <2>1. ask.docs \in Seq(Docs)
    BY <1>1 DEF RetrievalTypeOK, Ask
  <2> QED
    BY <2>1, LenProperties, ElementOfSeq DEF Range
<1>4. context \in Contexts /\ DOMAIN context.given \subseteq Range(ask.docs)
  <2> HIDE DEF context
  <2> QED
    BY <1>1, <1>2, <1>3, PackedFollows DEF context
<1>5. ASSUME ask.length <= ask.budget
      PROVE  /\ Share \in Nat /\ context.counted <= ask.budget
             /\ \A d \in Range(ask.docs) :
                   d \in DOMAIN context.given /\ context.given[d] = kept[d]
  BY <1>1, <1>2, <1>5, PackedFairly
<1> HIDE DEF context
<1>6. ASSUME ask.length <= ask.budget, NEW d \in Range(ask.docs)
      PROVE  /\ d \in DOMAIN context.given
             /\ Tokens[d] <= Share => context.given[d] = Chars[d]
             /\ \/ context.given[d] = Chars[d]
                \/ context.given[d] <= 4 * Share /\ 10 * context.given[d] >= 28 * Share
  BY <1>2, <1>3, <1>5, <1>6, RemainsFair
<1>7. ask' = [ask EXCEPT !.pc = "packed", !.context = context] /\ permitted' = permitted
  BY <1>1 DEF context
<1> QED
  BY <1>4, <1>5, <1>6, <1>7, PackedInv

\* What fits is counted, and with nothing that fits only the question.
LEMMA PackOthersInv ==
    ASSUME PackOthers, RetrievalInv
    PROVE  RetrievalInv'
<1>1. /\ RetrievalTypeOK /\ ask \in Ask /\ ask.docs = <<>> /\ permitted' = permitted
      /\ ask.length \in Nat /\ ask.budget \in Nat /\ ask.context \in Contexts
  BY DEF RetrievalInv, PackOthers, RetrievalTypeOK, Ask
<1> DEFINE fit(s) == {n \in 0..Len(s) : ask.length + Sum(s, n) <= ask.budget}
           last(s) == Max(fit(s) \cup {0})
<1>2. PICK s \in Others :
        ask' = [ask EXCEPT !.pc = "packed",
                           !.context.counted = ask.length + Sum(s, last(s))]
  BY DEF PackOthers
<1> DEFINE F == fit(s) \cup {0}
           sum == Sum(s, Max(F))
<1>3. s \in Seq(Nat) /\ Len(s) \in Nat
  BY RetrievalAssumption, LenProperties
<1>4. F \subseteq 0..Len(s) /\ 0 \in F /\ F \subseteq Int
  BY <1>3
<1>5. IsFiniteSet(F)
  <2>1. 0 \in Int /\ Len(s) \in Int
    BY <1>3
  <2>2. IsFiniteSet(0..Len(s))
    BY <2>1, FS_Interval
  <2> HIDE DEF F
  <2> QED
    BY <1>4, <2>2, FS_Subset
<1>6. Max(F) \in F
  <2> HIDE DEF F
  <2> QED
    BY <1>4, <1>5, GreatestMember
<1>7. sum \in Nat /\ Sum(s, 0) = 0
  <2> DEFINE m == Max(F)
  <2>1. m \in 0..Len(s)
    BY <1>4, <1>6
  <2> HIDE DEF m
  <2>2. Sum(s, m) \in Nat /\ Sum(s, 0) = 0
    BY <1>3, <2>1, SumFacts
  <2> QED
    BY <2>2 DEF m
<1>8. ask.length <= ask.budget => ask.length + sum <= ask.budget
  <2> DEFINE m == Max(F)
  <2>1. m \in fit(s) \/ m = 0
    BY <1>6
  <2> HIDE DEF m
  <2>2. m \in fit(s) => ask.length + Sum(s, m) <= ask.budget
    OBVIOUS
  <2>3. m = 0 => ask.length + Sum(s, m) = ask.length
    BY <1>1, <1>7
  <2>4. sum = Sum(s, m)
    BY DEF m
  <2> HIDE DEF sum
  <2> QED
    BY <2>1, <2>2, <2>3, <2>4
<1> DEFINE context == [ask.context EXCEPT !.counted = ask.length + sum]
<1>9. ask' = [ask EXCEPT !.pc = "packed", !.context = context]
  BY <1>2
<1> HIDE DEF sum
<1>10. /\ context \in Contexts /\ context.given = ask.context.given
       /\ context.counted = ask.length + sum
  BY <1>1, <1>7 DEF Contexts
<1>11. Range(ask.docs) = {}
  BY <1>1 DEF Range
<1>12. DOMAIN context.given \subseteq Range(ask.docs)
  BY <1>1, <1>10 DEF RetrievalTypeOK
<1> HIDE DEF context
<1> QED
  BY <1>1, <1>8, <1>9, <1>10, <1>11, <1>12, PackedInv

LEMMA Invariance == RetrievalSpec => []RetrievalInv
<1>1. RetrievalInit => RetrievalInv
  BY InitInv
<1>2. RetrievalInv /\ [RetrievalNext]_retrievalVars => RetrievalInv'
  <2> SUFFICES ASSUME RetrievalInv, [RetrievalNext]_retrievalVars
               PROVE  RetrievalInv'
    OBVIOUS
  <2>1. CASE ChangeAccess
    BY <2>1, ChangeAccessInv
  <2>2. CASE Scope
    BY <2>2, BlankInv
  <2>3. CASE KeywordLeg
    BY <2>3, LegInv
  <2>4. CASE VectorLeg
    BY <2>4, LegInv
  <2>5. CASE Rank
    BY <2>5, RankInv
  <2>6. CASE Load
    BY <2>6, LoadInv
  <2>7. CASE PackDocuments
    BY <2>7, PackDocumentsInv
  <2>8. CASE PackOthers
    BY <2>8, PackOthersInv
  <2>9. CASE Leave
    BY <2>9, BlankInv
  <2>10. CASE UNCHANGED retrievalVars
    BY <2>10, ChangeAccessInv
  <2> QED
    BY <2>1, <2>2, <2>3, <2>4, <2>5, <2>6, <2>7, <2>8, <2>9, <2>10 DEF RetrievalNext
<1> QED
  BY <1>1, <1>2, PTL DEF RetrievalSpec

-----------------------------------------------------------------------------
(* Theorems                                                                *)

\* Every question keeps its types, and no document comes twice among the
\* results or the documents put into the context.
THEOREM RetrievalTypeCorrect == RetrievalSpec => []RetrievalTypeOK
<1>1. RetrievalInv => RetrievalTypeOK
  BY DEF RetrievalInv
<1> QED
  BY <1>1, Invariance, PTL

\* Whatever the engines and the search in the database return, and whoever
\* changes access in the meantime, results and context stay within what the
\* user was permitted to see when the question was asked.
THEOREM ResultsStayInScope == RetrievalSpec => []ResultsInScope
<1>1. RetrievalInv => ResultsInScope
  BY DEF RetrievalInv
<1> QED
  BY <1>1, Invariance, PTL

\* For all scores and weights: normalising, weighing, sorting and cutting keep
\* a document that is better in one engine and not worse in the other ahead.
THEOREM RankingKeepsOrder == RetrievalSpec => []BetterHitsRankFirst
<1>1. RetrievalInv => BetterHitsRankFirst
  BY DEF RetrievalInv
<1> QED
  BY <1>1, Invariance, PTL

\* For all budgets, questions and documents, and wherever sentences end: with a
\* question within the budget no loaded document is left out, one that counts no
\* more than its equal share is whole, one that is cut keeps 70 to 100 % of four
\* characters a token, and what is counted stays within the budget.  Of the
\* tokens in the context, headers included, nothing is claimed.
THEOREM ContextIsShared == RetrievalSpec => []SharedFairly
<1>1. RetrievalInv => SharedFairly
  BY DEF RetrievalInv
<1> QED
  BY <1>1, Invariance, PTL
=============================================================================
