------------------------- MODULE SubsequenceLemmas -------------------------
(***************************************************************************)
(* Lemmas about Subsequences, about the least and the greatest member of a *)
(* set, and about lists handled element by element.  The induction they    *)
(* rest on is stated for sets instead of predicates, from the fact that    *)
(* every set of natural numbers has a least member.                        *)
(***************************************************************************)
EXTENDS Subsequences, Integers, FiniteSetsExt, SequenceTheorems, FiniteSetTheorems,
        WellFoundedInduction, TLAPS

-----------------------------------------------------------------------------
(* Induction                                                               *)

\* A set of numbers with 0 and with each number's successor has them all.
LEMMA Counting ==
    ASSUME NEW X, 0 \in X, \A n \in Nat : n \in X => n + 1 \in X
    PROVE  Nat \subseteq X
<1> SUFFICES ASSUME Nat \ X # {} PROVE FALSE
  OBVIOUS
<1>1. PICK x \in Nat \ X : \A y \in Nat \ X : ~(<<y, x>> \in OpToRel(<, Nat))
  <2> Nat \ X \subseteq Nat
    OBVIOUS
  <2> QED
    BY NatLessThanWellFounded, WFMin
<1>2. x # 0
  OBVIOUS
<1>3. x - 1 \in Nat /\ x - 1 < x
  BY <1>2
<1>4. <<x - 1, x>> \in OpToRel(<, Nat)
  BY <1>3 DEF OpToRel
<1>5. x - 1 \in X
  BY <1>1, <1>3, <1>4
<1> QED
  BY <1>3, <1>5

\* A set of sequences with the empty one and closed under Append has them all.
LEMMA Appending ==
    ASSUME NEW T, NEW X, <<>> \in X,
           \A s \in Seq(T), x \in T : s \in X => Append(s, x) \in X
    PROVE  Seq(T) \subseteq X
<1> DEFINE N == {n \in Nat : \A s \in Seq(T) : Len(s) = n => s \in X}
<1>1. 0 \in N
  BY EmptySeq
<1>2. ASSUME NEW n \in Nat, n \in N
      PROVE  n + 1 \in N
  <2> SUFFICES ASSUME NEW s \in Seq(T), Len(s) = n + 1 PROVE s \in X
    OBVIOUS
  <2>1. PICK r \in Seq(T), x \in T : s = Append(r, x)
    BY SequenceEmptyOrAppend, EmptySeq
  <2>2. Len(r) = n
    BY <2>1, AppendProperties, LenProperties
  <2> QED
    BY <1>2, <2>1, <2>2
<1>3. Nat \subseteq N
  <2> HIDE DEF N
  <2> QED
    BY <1>1, <1>2, Counting
<1> QED
  BY <1>3, LenProperties

-----------------------------------------------------------------------------
(* Append                                                                  *)

LEMMA AppendRange ==
    ASSUME NEW T, NEW s \in Seq(T), NEW x \in T
    PROVE  Range(Append(s, x)) = Range(s) \cup {x}
<1>1. /\ DOMAIN s = 1..Len(s) /\ DOMAIN Append(s, x) = 1..Len(s) + 1
      /\ \A i \in 1..Len(s) : Append(s, x)[i] = s[i]
      /\ Append(s, x)[Len(s) + 1] = x /\ Len(s) \in Nat
  BY LenProperties, AppendProperties
<1> QED
  BY <1>1 DEF Range

LEMMA AppendInjection ==
    ASSUME NEW T, NEW s \in Seq(T), NEW x \in T
    PROVE  IsInjective(Append(s, x)) <=> IsInjective(s) /\ x \notin Range(s)
<1>1. /\ DOMAIN s = 1..Len(s) /\ DOMAIN Append(s, x) = 1..Len(s) + 1
      /\ \A i \in 1..Len(s) : Append(s, x)[i] = s[i]
      /\ Append(s, x)[Len(s) + 1] = x /\ Len(s) \in Nat
  BY LenProperties, AppendProperties
<1> QED
  BY <1>1 DEF Range, IsInjective

-----------------------------------------------------------------------------
(* What Kept computes                                                      *)

KeptAt(g, s, S, n) ==
    IF n = 0 THEN <<>>
    ELSE IF s[n] \in S THEN Append(g[n - 1], s[n]) ELSE g[n - 1]

\* g is the function of Kept up to n.
Solves(g, s, S, n) == g = [i \in 0..n |-> KeptAt(g, s, S, i)]
Follows(g, s, S, n) == \A i \in 0..n : g[i] = KeptAt(g, s, S, i)

\* The recursion of Kept has a solution for every length.
LEMMA SolvesExists ==
    ASSUME NEW s, NEW S, NEW n \in Nat
    PROVE  \E g : Solves(g, s, S, n)
<1> DEFINE N == {k \in Nat : \E g : Solves(g, s, S, k)}
<1>1. 0 \in N
  <2> DEFINE g == [i \in 0..0 |-> <<>>]
  <2>1. \A i \in 0..0 : KeptAt(g, s, S, i) = <<>>
    BY DEF KeptAt
  <2>2. Solves(g, s, S, 0)
    BY <2>1 DEF Solves
  <2> QED
    BY <2>2
<1>2. ASSUME NEW k \in Nat, k \in N
      PROVE  k + 1 \in N
  <2>1. PICK g : Solves(g, s, S, k)
    BY <1>2
  <2> DEFINE h == [i \in 0..k + 1 |-> IF i <= k THEN g[i] ELSE KeptAt(g, s, S, i)]
  <2>2. \A i \in 0..k : h[i] = g[i]
    OBVIOUS
  <2>3. \A i \in 0..k + 1 : KeptAt(h, s, S, i) = KeptAt(g, s, S, i)
    <3> TAKE i \in 0..k + 1
    <3>1. i # 0 => h[i - 1] = g[i - 1]
      BY <2>2
    <3> HIDE DEF h
    <3> QED
      BY <3>1 DEF KeptAt
  <2>4. \A i \in 0..k + 1 : h[i] = KeptAt(g, s, S, i)
    BY <2>1 DEF Solves
  <2>5. h = [i \in 0..k + 1 |-> KeptAt(h, s, S, i)]
    <3>1. h = [i \in 0..k + 1 |-> h[i]]
      OBVIOUS
    <3> HIDE DEF h
    <3> QED
      BY <3>1, <2>3, <2>4
  <2> HIDE DEF h
  <2> QED
    BY <2>5 DEF Solves
<1>3. Nat \subseteq N
  <2> HIDE DEF N
  <2> QED
    BY <1>1, <1>2, Counting
<1> QED
  BY <1>3

\* The solution is unique.
LEMMA FollowsUnique ==
    ASSUME NEW s, NEW S, NEW n \in Nat, NEW g, NEW h,
           Follows(g, s, S, n), Follows(h, s, S, n)
    PROVE  g[n] = h[n]
<1> DEFINE N == {k \in Nat : k <= n => g[k] = h[k]}
<1>1. 0 \in N
  BY DEF Follows, KeptAt
<1>2. ASSUME NEW k \in Nat, k \in N
      PROVE  k + 1 \in N
  <2> SUFFICES ASSUME k + 1 <= n PROVE g[k + 1] = h[k + 1]
    OBVIOUS
  <2>1. k + 1 \in 0..n /\ k + 1 # 0 /\ k + 1 - 1 = k /\ g[k] = h[k]
    BY <1>2
  <2> QED
    BY <2>1 DEF Follows, KeptAt
<1>3. Nat \subseteq N
  <2> HIDE DEF N
  <2> QED
    BY <1>1, <1>2, Counting
<1> QED
  BY <1>3

LEMMA KeptFollows ==
    ASSUME NEW s, NEW S, Len(s) \in Nat
    PROVE  \E g : Follows(g, s, S, Len(s)) /\ Kept(s, S) = g[Len(s)]
<1> DEFINE kept == CHOOSE g : Solves(g, s, S, Len(s))
<1>1. Solves(kept, s, S, Len(s))
  BY SolvesExists
<1>2. Kept(s, S) = kept[Len(s)]
  BY DEF Kept, Solves, KeptAt
<1>3. Follows(kept, s, S, Len(s))
  <2> HIDE DEF kept
  <2> QED
    BY <1>1 DEF Follows, Solves
<1> QED
  BY <1>2, <1>3

LEMMA KeptEmpty ==
    ASSUME NEW S
    PROVE  Kept(<<>>, S) = <<>>
  BY KeptFollows DEF Follows, KeptAt

LEMMA KeptAppend ==
    ASSUME NEW T, NEW s \in Seq(T), NEW x \in T, NEW S
    PROVE  Kept(Append(s, x), S) =
             IF x \in S THEN Append(Kept(s, S), x) ELSE Kept(s, S)
<1> DEFINE n == Len(s)
           t == Append(s, x)
<1>1. /\ n \in Nat /\ Len(t) = n + 1 /\ t[n + 1] = x
      /\ \A i \in 1..n : t[i] = s[i]
  BY LenProperties, AppendProperties
<1>2. PICK g : Follows(g, s, S, n) /\ Kept(s, S) = g[n]
  BY <1>1, KeptFollows
<1> HIDE DEF n, t
<1>3. PICK h : Follows(h, t, S, n + 1) /\ Kept(t, S) = h[n + 1]
  <2>1. Len(t) \in Nat
    BY <1>1
  <2>2. PICK h : Follows(h, t, S, Len(t)) /\ Kept(t, S) = h[Len(t)]
    BY <2>1, KeptFollows
  <2> QED
    BY <2>2, <1>1
<1>4. Follows(h, s, S, n)
  <2>1. ASSUME NEW i \in 0..n
        PROVE  h[i] = KeptAt(h, s, S, i)
    <3>1. i \in 0..n + 1 /\ (i # 0 => t[i] = s[i])
      BY <1>1
    <3> QED
      BY <3>1, <1>3 DEF Follows, KeptAt
  <2> QED
    BY <2>1 DEF Follows
<1>5. g[n] = h[n]
  BY <1>1, <1>2, <1>4, FollowsUnique
<1>6. h[n + 1] = IF t[n + 1] \in S THEN Append(h[n], t[n + 1]) ELSE h[n]
  BY <1>1, <1>3 DEF Follows, KeptAt
<1> QED
  BY <1>1, <1>2, <1>3, <1>5, <1>6 DEF t

-----------------------------------------------------------------------------
(* Properties of Kept                                                      *)

\* It is a sequence of elements of s that are in S.
LEMMA KeptInSeq ==
    ASSUME NEW T, NEW s \in Seq(T), NEW S
    PROVE  Kept(s, S) \in Seq(T \cap S) /\ Kept(s, S) \in Seq(T)
<1> DEFINE X == {r \in Seq(T) : Kept(r, S) \in Seq(T \cap S)}
<1>1. <<>> \in X
  <2>1. <<>> \in Seq(T) /\ <<>> \in Seq(T \cap S)
    BY EmptySeq
  <2> QED
    BY <2>1, KeptEmpty
<1>2. ASSUME NEW r \in Seq(T), NEW x \in T, r \in X
      PROVE  Append(r, x) \in X
  <2>1. Append(r, x) \in Seq(T)
    BY AppendProperties
  <2>2. CASE x \in S
    <3>1. x \in T \cap S /\ Kept(r, S) \in Seq(T \cap S)
      BY <1>2, <2>2
    <3>2. Append(Kept(r, S), x) \in Seq(T \cap S)
      BY <3>1, AppendProperties
    <3>3. Kept(Append(r, x), S) = Append(Kept(r, S), x)
      BY <2>2, KeptAppend
    <3> QED
      BY <2>1, <3>2, <3>3
  <2>3. CASE x \notin S
    <3>1. Kept(Append(r, x), S) = Kept(r, S)
      BY <2>3, KeptAppend
    <3> QED
      BY <1>2, <2>1, <3>1
  <2> QED
    BY <2>2, <2>3
<1>3. Seq(T) \subseteq X
  <2> HIDE DEF X
  <2> QED
    BY <1>1, <1>2, Appending
<1>4. Kept(s, S) \in Seq(T \cap S)
  BY <1>3
<1> QED
  BY <1>4, SeqMonotonic

LEMMA KeptRange ==
    ASSUME NEW T, NEW s \in Seq(T), NEW S
    PROVE  Range(Kept(s, S)) = Range(s) \cap S
<1> DEFINE X == {r \in Seq(T) : Range(Kept(r, S)) = Range(r) \cap S}
<1>1. <<>> \in X
  BY KeptEmpty DEF Range
<1>2. ASSUME NEW r \in Seq(T), NEW x \in T, r \in X
      PROVE  Append(r, x) \in X
  <2>1. Range(Append(r, x)) = Range(r) \cup {x}
    BY AppendRange
  <2>2. Range(Append(Kept(r, S), x)) = Range(Kept(r, S)) \cup {x}
    <3>1. Kept(r, S) \in Seq(T)
      BY KeptInSeq
    <3> QED
      BY <3>1, AppendRange
  <2>3. Append(r, x) \in Seq(T)
    BY AppendProperties
  <2>4. Kept(Append(r, x), S) = IF x \in S THEN Append(Kept(r, S), x) ELSE Kept(r, S)
    BY KeptAppend
  <2>5. Range(Kept(r, S)) = Range(r) \cap S
    BY <1>2
  <2>6. Range(Kept(Append(r, x), S)) = Range(Append(r, x)) \cap S
    <3>1. CASE x \in S
      BY <3>1, <2>1, <2>2, <2>4, <2>5
    <3>2. CASE x \notin S
      BY <3>2, <2>1, <2>4, <2>5
    <3> QED
      BY <3>1, <3>2
  <2> QED
    BY <2>3, <2>6
<1>3. Seq(T) \subseteq X
  <2> HIDE DEF X
  <2> QED
    BY <1>1, <1>2, Appending
<1> QED
  BY <1>3

LEMMA KeptInjective ==
    ASSUME NEW T, NEW s \in Seq(T), NEW S, IsInjective(s)
    PROVE  IsInjective(Kept(s, S))
<1> DEFINE X == {r \in Seq(T) : IsInjective(r) => IsInjective(Kept(r, S))}
<1>1. <<>> \in X
  BY KeptEmpty
<1>2. ASSUME NEW r \in Seq(T), NEW x \in T, r \in X
      PROVE  Append(r, x) \in X
  <2> SUFFICES ASSUME IsInjective(Append(r, x))
               PROVE  IsInjective(Kept(Append(r, x), S))
    BY AppendProperties
  <2>1. IsInjective(r) /\ x \notin Range(r)
    BY AppendInjection
  <2>2. IsInjective(Kept(r, S)) /\ x \notin Range(Kept(r, S))
    BY <1>2, <2>1, KeptRange
  <2>3. IsInjective(Append(Kept(r, S), x))
    BY <2>2, AppendInjection, KeptInSeq
  <2> QED
    BY <2>2, <2>3, KeptAppend
<1>3. Seq(T) \subseteq X
  <2> HIDE DEF X
  <2> QED
    BY <1>1, <1>2, Appending
<1> QED
  BY <1>3

\* What is kept of what was kept.
LEMMA KeptTwice ==
    ASSUME NEW T, NEW s \in Seq(T), NEW A, NEW B
    PROVE  Kept(Kept(s, A), B) = Kept(s, A \cap B)
<1> DEFINE X == {r \in Seq(T) : Kept(Kept(r, A), B) = Kept(r, A \cap B)}
<1>1. <<>> \in X
  BY KeptEmpty, EmptySeq
<1>2. ASSUME NEW r \in Seq(T), NEW x \in T, r \in X
      PROVE  Append(r, x) \in X
  <2>1. Append(r, x) \in Seq(T) /\ Kept(r, A) \in Seq(T)
    BY AppendProperties, KeptInSeq
  <2>2. Kept(Append(r, x), A) = IF x \in A THEN Append(Kept(r, A), x) ELSE Kept(r, A)
    BY KeptAppend
  <2>3. Kept(Append(Kept(r, A), x), B) =
          IF x \in B THEN Append(Kept(Kept(r, A), B), x) ELSE Kept(Kept(r, A), B)
    BY <2>1, KeptAppend
  <2>4. Kept(Append(r, x), A \cap B) =
          IF x \in A \cap B THEN Append(Kept(r, A \cap B), x) ELSE Kept(r, A \cap B)
    BY KeptAppend
  <2>5. Kept(Kept(r, A), B) = Kept(r, A \cap B)
    BY <1>2
  <2>6. Kept(Kept(Append(r, x), A), B) = Kept(Append(r, x), A \cap B)
    <3>1. CASE x \in A
      <4>1. Kept(Append(r, x), A) = Append(Kept(r, A), x)
        BY <3>1, <2>2
      <4>2. x \in A \cap B <=> x \in B
        BY <3>1
      <4>3. Kept(Append(r, x), A \cap B) =
              IF x \in B THEN Append(Kept(Kept(r, A), B), x) ELSE Kept(Kept(r, A), B)
        BY <2>4, <2>5, <4>2
      <4> QED
        BY <4>1, <4>3, <2>3
    <3>2. CASE x \notin A
      <4>1. x \notin A \cap B
        BY <3>2
      <4> QED
        BY <3>2, <4>1, <2>2, <2>4, <2>5
    <3> QED
      BY <3>1, <3>2
  <2> QED
    BY <2>1, <2>6
<1>3. Seq(T) \subseteq X
  <2> HIDE DEF X
  <2> QED
    BY <1>1, <1>2, Appending
<1> QED
  BY <1>3

\* Sets that agree on the elements of s keep the same.
LEMMA KeptSame ==
    ASSUME NEW T, NEW s \in Seq(T), NEW A, NEW B,
           \A x \in Range(s) : x \in A <=> x \in B
    PROVE  Kept(s, A) = Kept(s, B)
<1> DEFINE X == {r \in Seq(T) : (\A x \in Range(r) : x \in A <=> x \in B)
                                   => Kept(r, A) = Kept(r, B)}
<1>1. <<>> \in X
  BY KeptEmpty, EmptySeq
<1>2. ASSUME NEW r \in Seq(T), NEW x \in T, r \in X
      PROVE  Append(r, x) \in X
  <2>1. Append(r, x) \in Seq(T) /\ Range(Append(r, x)) = Range(r) \cup {x}
    BY AppendProperties, AppendRange
  <2>2. Kept(Append(r, x), A) = IF x \in A THEN Append(Kept(r, A), x) ELSE Kept(r, A)
    BY KeptAppend
  <2>3. Kept(Append(r, x), B) = IF x \in B THEN Append(Kept(r, B), x) ELSE Kept(r, B)
    BY KeptAppend
  <2> SUFFICES ASSUME \A y \in Range(Append(r, x)) : y \in A <=> y \in B
               PROVE  Kept(Append(r, x), A) = Kept(Append(r, x), B)
    BY <2>1
  <2>4. (x \in A <=> x \in B) /\ Kept(r, A) = Kept(r, B)
    BY <1>2, <2>1
  <2>5. CASE x \in A
    BY <2>2, <2>3, <2>4, <2>5
  <2>6. CASE x \notin A
    BY <2>2, <2>3, <2>4, <2>6
  <2> QED
    BY <2>5, <2>6
<1>3. Seq(T) \subseteq X
  <2> HIDE DEF X
  <2> QED
    BY <1>1, <1>2, Appending
<1> QED
  BY <1>3

\* A set that has all elements of s keeps them all.
LEMMA KeptAll ==
    ASSUME NEW T, NEW s \in Seq(T), NEW S, Range(s) \subseteq S
    PROVE  Kept(s, S) = s
<1> DEFINE X == {r \in Seq(T) : Range(r) \subseteq S => Kept(r, S) = r}
<1>1. <<>> \in X
  BY KeptEmpty, EmptySeq
<1>2. ASSUME NEW r \in Seq(T), NEW x \in T, r \in X
      PROVE  Append(r, x) \in X
  <2>1. Append(r, x) \in Seq(T) /\ Range(Append(r, x)) = Range(r) \cup {x}
    BY AppendProperties, AppendRange
  <2>2. Kept(Append(r, x), S) = IF x \in S THEN Append(Kept(r, S), x) ELSE Kept(r, S)
    BY KeptAppend
  <2> QED
    BY <1>2, <2>1, <2>2
<1>3. Seq(T) \subseteq X
  <2> HIDE DEF X
  <2> QED
    BY <1>1, <1>2, Appending
<1> QED
  BY <1>3

LEMMA KeptNone ==
    ASSUME NEW T, NEW s \in Seq(T), NEW S, Range(s) \cap S = {}
    PROVE  Kept(s, S) = <<>>
<1>1. Kept(s, S) = Kept(s, {})
  BY KeptSame
<1>2. Kept(s, {}) \in Seq({})
  <2>1. Kept(s, {}) \in Seq(T \cap {})
    BY KeptInSeq
  <2> QED
    BY <2>1
<1> QED
  BY <1>1, <1>2, LenProperties, EmptySeq

\* When nothing after an element that is not kept is, the first ones are kept.
LEMMA KeptPrefix ==
    ASSUME NEW T, NEW s \in Seq(T), NEW S,
           \A i, j \in 1..Len(s) : i < j /\ s[j] \in S => s[i] \in S
    PROVE  /\ Len(Kept(s, S)) \in 0..Len(s)
           /\ \A i \in 1..Len(Kept(s, S)) : Kept(s, S)[i] = s[i]
           /\ \A i \in 1..Len(s) : s[i] \in S <=> i <= Len(Kept(s, S))
<1> DEFINE Firsts(r) ==
             /\ Len(Kept(r, S)) \in 0..Len(r)
             /\ \A i \in 1..Len(Kept(r, S)) : Kept(r, S)[i] = r[i]
             /\ \A i \in 1..Len(r) : r[i] \in S <=> i <= Len(Kept(r, S))
           Closed(r) == \A i, j \in 1..Len(r) : i < j /\ r[j] \in S => r[i] \in S
           X == {r \in Seq(T) : Closed(r) => Firsts(r)}
<1>1. <<>> \in X
  BY KeptEmpty, EmptySeq
<1>2. ASSUME NEW r \in Seq(T), NEW x \in T, r \in X
      PROVE  Append(r, x) \in X
  <2> DEFINE n == Len(r)
             more == Append(r, x)
  <2>1. /\ n \in Nat /\ more \in Seq(T) /\ Len(more) = n + 1 /\ more[n + 1] = x
        /\ \A i \in 1..n : more[i] = r[i]
    BY LenProperties, AppendProperties
  <2>2. Kept(more, S) = IF x \in S THEN Append(Kept(r, S), x) ELSE Kept(r, S)
    BY KeptAppend
  <2>3. Kept(r, S) \in Seq(T)
    BY KeptInSeq
  <2> HIDE DEF n, more
  <2> SUFFICES ASSUME Closed(more) PROVE Firsts(more)
    BY <2>1 DEF more
  <2>4. Closed(r)
    BY <2>1 DEF n
  <2>5. Firsts(r)
    BY <1>2, <2>4
  <2>6. CASE x \notin S
    <3>1. Kept(more, S) = Kept(r, S)
      BY <2>2, <2>6
    <3> QED
      BY <3>1, <2>1, <2>5, <2>6, SMTT(30) DEF n
  <2>7. CASE x \in S
    <3>1. \A i \in 1..n : r[i] \in S
      BY <2>1, <2>7
    <3>2. Len(Kept(r, S)) = n
      BY <3>1, <2>1, <2>5 DEF n
    <3>3. /\ Len(Kept(more, S)) = n + 1 /\ Kept(more, S)[n + 1] = x
          /\ \A i \in 1..n : Kept(more, S)[i] = Kept(r, S)[i]
      BY <2>2, <2>3, <2>7, <3>2, AppendProperties
    <3> QED
      BY <2>1, <2>5, <2>7, <3>1, <3>2, <3>3 DEF n
  <2> QED
    BY <2>6, <2>7
<1>3. Seq(T) \subseteq X
  <2> HIDE DEF X
  <2> QED
    BY <1>1, <1>2, Appending
<1> QED
  BY <1>3

\* It is no longer than the list.
LEMMA KeptLen ==
    ASSUME NEW T, NEW s \in Seq(T), NEW S
    PROVE  Len(Kept(s, S)) \in 0..Len(s)
<1> DEFINE X == {r \in Seq(T) : Len(Kept(r, S)) \in 0..Len(r)}
<1>1. <<>> \in X
  BY KeptEmpty, EmptySeq
<1>2. ASSUME NEW r \in Seq(T), NEW x \in T, r \in X
      PROVE  Append(r, x) \in X
  <2>1. Append(r, x) \in Seq(T) /\ Len(Append(r, x)) = Len(r) + 1 /\ Len(r) \in Nat
    BY AppendProperties, LenProperties
  <2>2. Kept(Append(r, x), S) = IF x \in S THEN Append(Kept(r, S), x) ELSE Kept(r, S)
    BY KeptAppend
  <2>3. Kept(r, S) \in Seq(T)
    BY KeptInSeq
  <2>4. Len(Append(Kept(r, S), x)) = Len(Kept(r, S)) + 1
    BY <2>3, AppendProperties
  <2> QED
    BY <1>2, <2>1, <2>2, <2>4
<1>3. Seq(T) \subseteq X
  <2> HIDE DEF X
  <2> QED
    BY <1>1, <1>2, Appending
<1> QED
  BY <1>3

-----------------------------------------------------------------------------
(* Ages, which time increases by one                                       *)

Ticked(ages) == [i \in DOMAIN ages |-> ages[i] + 1]

LEMMA TickedAppend ==
    ASSUME NEW s \in Seq(Nat), NEW x \in Nat
    PROVE  /\ Ticked(s) \in Seq(Nat) /\ Len(Ticked(s)) = Len(s)
           /\ Ticked(Append(s, x)) = Append(Ticked(s), x + 1)
<1> DEFINE n == Len(s)
           more == Append(s, x)
<1>1. /\ more \in Seq(Nat) /\ Len(more) = n + 1 /\ more[n + 1] = x /\ n \in Nat
      /\ \A i \in 1..n : more[i] = s[i] /\ s[i] \in Nat
      /\ DOMAIN s = 1..n /\ DOMAIN more = 1..n + 1
  BY AppendProperties, LenProperties, ElementOfSeq
<1> HIDE DEF more, n
<1>2. /\ Ticked(s) \in Seq(Nat) /\ Len(Ticked(s)) = n
      /\ Ticked(more) \in Seq(Nat) /\ Len(Ticked(more)) = n + 1
  BY <1>1 DEF Ticked
<1>3. /\ \A i \in 1..n : Ticked(s)[i] = s[i] + 1 /\ Ticked(more)[i] = s[i] + 1
      /\ Ticked(more)[n + 1] = x + 1
  BY <1>1 DEF Ticked
<1>4. Ticked(more) = Append(Ticked(s), x + 1)
  <2> DEFINE r == Append(Ticked(s), x + 1)
  <2>1. /\ r \in Seq(Nat) /\ Len(r) = n + 1 /\ r[n + 1] = x + 1
        /\ \A i \in 1..n : r[i] = Ticked(s)[i]
    BY <1>2, AppendProperties
  <2> HIDE DEF r
  <2>2. \A i \in 1..n + 1 : Ticked(more)[i] = r[i]
    BY <1>1, <1>3, <2>1
  <2>3. Ticked(more) = r
    BY <1>2, <2>1, <2>2, SeqEqual
  <2> QED
    BY <2>3 DEF r
<1> QED
  BY <1>2, <1>4 DEF more, n

\* What is kept of the older ages are the kept ones, older.
LEMMA KeptTicked ==
    ASSUME NEW s \in Seq(Nat), NEW A, NEW B,
           \A x \in Nat : x \in A <=> x + 1 \in B
    PROVE  Kept(Ticked(s), B) = Ticked(Kept(s, A))
<1> DEFINE X == {r \in Seq(Nat) : Kept(Ticked(r), B) = Ticked(Kept(r, A))}
<1>1. <<>> \in X
  <2>1. Ticked(<<>>) = <<>> /\ <<>> \in Seq(Nat)
    BY EmptySeq DEF Ticked
  <2> QED
    BY <2>1, KeptEmpty
<1>2. ASSUME NEW r \in Seq(Nat), NEW x \in Nat, r \in X
      PROVE  Append(r, x) \in X
  <2>0. Kept(Ticked(r), B) = Ticked(Kept(r, A))
    BY <1>2
  <2> HIDE DEF X
  <2>1. /\ Append(r, x) \in Seq(Nat) /\ Ticked(r) \in Seq(Nat) /\ x + 1 \in Nat
        /\ Ticked(Append(r, x)) = Append(Ticked(r), x + 1)
    <3>1. Append(r, x) \in Seq(Nat)
      BY AppendProperties
    <3>0. x + 1 \in Nat
      OBVIOUS
    <3>2. Ticked(r) \in Seq(Nat) /\ Ticked(Append(r, x)) = Append(Ticked(r), x + 1)
      BY TickedAppend
    <3> QED
      BY <3>0, <3>1, <3>2
  <2>2. Kept(Append(r, x), A) = IF x \in A THEN Append(Kept(r, A), x) ELSE Kept(r, A)
    BY KeptAppend
  <2>3. Kept(Append(Ticked(r), x + 1), B) =
          IF x + 1 \in B THEN Append(Kept(Ticked(r), B), x + 1) ELSE Kept(Ticked(r), B)
    <3> DEFINE y == x + 1
    <3>1. y \in Nat
      OBVIOUS
    <3> HIDE DEF y
    <3>2. Kept(Append(Ticked(r), y), B) =
            IF y \in B THEN Append(Kept(Ticked(r), B), y) ELSE Kept(Ticked(r), B)
      BY <2>1, <3>1, KeptAppend
    <3> QED
      BY <3>2 DEF y
  <2>4. Ticked(Append(Kept(r, A), x)) = Append(Ticked(Kept(r, A)), x + 1)
    <3>1. Kept(r, A) \in Seq(Nat)
      BY KeptInSeq
    <3> QED
      BY <3>1, TickedAppend
  <2>5. x \in A <=> x + 1 \in B
    OBVIOUS
  <2>6. Kept(Ticked(Append(r, x)), B) = Ticked(Kept(Append(r, x), A))
    BY <2>0, <2>1, <2>2, <2>3, <2>4, <2>5
  <2> QED
    BY <2>1, <2>6 DEF X
<1>3. Seq(Nat) \subseteq X
  <2> HIDE DEF X
  <2> QED
    BY <1>1, <1>2, Appending
<1> QED
  BY <1>3

-----------------------------------------------------------------------------
(* Least and greatest                                                      *)

LEMMA MinOfTwo ==
    ASSUME NEW a \in Int, NEW b \in Int
    PROVE  Min({a, b}) = IF a <= b THEN a ELSE b
<1> DEFINE m == IF a <= b THEN a ELSE b
<1>1. m \in {a, b} /\ \A y \in {a, b} : m <= y
  OBVIOUS
<1>2. ASSUME NEW x \in {a, b}, \A y \in {a, b} : x <= y PROVE x = m
  BY <1>2
<1> HIDE DEF m
<1>3. Min({a, b}) = m
  BY <1>1, <1>2 DEF Min
<1> QED
  BY <1>3 DEF m

LEMMA LeastMember ==
    ASSUME NEW S \in SUBSET Nat, S # {}
    PROVE  Min(S) \in S /\ \A y \in S : Min(S) <= y
<1>1. PICK x \in S : \A y \in S : ~(<<y, x>> \in OpToRel(<, Nat))
  BY NatLessThanWellFounded, WFMin
<1>2. ASSUME NEW y \in S PROVE x <= y
  <2>1. y < x => <<y, x>> \in OpToRel(<, Nat)
    BY DEF OpToRel
  <2>2. ~(y < x)
    BY <1>1, <2>1
  <2> QED
    BY <2>2
<1> QED
  BY <1>2 DEF Min

LEMMA GreatestMember ==
    ASSUME NEW S \in SUBSET Nat, S # {}, IsFiniteSet(S)
    PROVE  Max(S) \in S /\ \A y \in S : Max(S) >= y
<1> DEFINE N == {n \in Nat : \A T \in SUBSET Nat :
                   IsFiniteSet(T) /\ Cardinality(T) = n /\ T # {}
                     => \E m \in T : \A y \in T : m >= y}
<1>1. 0 \in N
  BY FS_EmptySet
<1>2. ASSUME NEW n \in Nat, n \in N
      PROVE  n + 1 \in N
  <2> SUFFICES ASSUME NEW T \in SUBSET Nat, IsFiniteSet(T), Cardinality(T) = n + 1, T # {}
               PROVE  \E m \in T : \A y \in T : m >= y
    OBVIOUS
  <2>1. PICK x \in T : TRUE
    OBVIOUS
  <2> DEFINE U == T \ {x}
  <2>2. U \in SUBSET Nat /\ IsFiniteSet(U) /\ Cardinality(U) = n
    <3>1. IsFiniteSet(U) /\ Cardinality(U) = Cardinality(T) - 1
      BY <2>1, FS_RemoveElement
    <3> QED
      BY <3>1
  <2>3. CASE U = {}
    BY <2>3
  <2>4. CASE U # {}
    <3>1. PICK m \in U : \A y \in U : m >= y
      <4> HIDE DEF U
      <4> QED
        BY <1>2, <2>2, <2>4
    <3>2. CASE x >= m
      BY <3>1, <3>2
    <3>3. CASE ~(x >= m)
      BY <3>1, <3>3
    <3> QED
      BY <3>2, <3>3
  <2> QED
    BY <2>3, <2>4
<1>3. Nat \subseteq N
  <2> HIDE DEF N
  <2> QED
    BY <1>1, <1>2, Counting
<1>4. Cardinality(S) \in Nat
  BY FS_CardinalityType
<1>5. \E m \in S : \A y \in S : m >= y
  BY <1>3, <1>4
<1> QED
  BY <1>5 DEF Max

-----------------------------------------------------------------------------
(* Step by step                                                            *)

\* What a function of the previous value and the number of the step makes of
\* base in n steps.
Steps(g, step, base, n) ==
    g[0] = base /\ \A k \in 1..n : g[k] = step[<<g[k - 1], k>>]

\* The same of an f of which it is not known that its values are in X.
StepsWithin(X, f, step, base, n) ==
    /\ f[0] = base
    /\ \A k \in 1..n : f[k - 1] \in X => f[k] = step[<<f[k - 1], k>>]

LEMMA StepsExist ==
    ASSUME NEW X, NEW base \in X, NEW n \in Nat, NEW step \in [X \X (1..n) -> X]
    PROVE  \E g \in [0..n -> X] : Steps(g, step, base, n)
<1> DEFINE N == {m \in Nat : m <= n => \E g \in [0..m -> X] : Steps(g, step, base, m)}
<1>1. 0 \in N
  <2> DEFINE g == [k \in 0..0 |-> base]
  <2>1. g \in [0..0 -> X] /\ Steps(g, step, base, 0)
    BY DEF Steps
  <2> QED
    BY <2>1
<1>2. ASSUME NEW m \in Nat, m \in N
      PROVE  m + 1 \in N
  <2> SUFFICES ASSUME m + 1 <= n
               PROVE  \E g \in [0..m + 1 -> X] : Steps(g, step, base, m + 1)
    OBVIOUS
  <2>1. PICK g \in [0..m -> X] : Steps(g, step, base, m)
    BY <1>2
  <2> DEFINE x == step[<<g[m], m + 1>>]
             h == [k \in 0..m + 1 |-> IF k <= m THEN g[k] ELSE x]
  <2>2. x \in X
    BY <2>1
  <2> HIDE DEF x
  <2>3. h \in [0..m + 1 -> X]
    BY <2>1, <2>2
  <2>4. /\ h[0] = base
        /\ \A k \in 1..m : h[k] = g[k] /\ h[k - 1] = g[k - 1]
        /\ h[m] = g[m] /\ h[m + 1] = x
    BY <2>1 DEF Steps
  <2>5. \A k \in 1..m + 1 : h[k] = step[<<h[k - 1], k>>]
    <3> SUFFICES ASSUME NEW k \in 1..m + 1 PROVE h[k] = step[<<h[k - 1], k>>]
      OBVIOUS
    <3> HIDE DEF h
    <3>1. CASE k \in 1..m
      BY <3>1, <2>1, <2>4 DEF Steps
    <3>2. CASE k = m + 1
      <4>1. k - 1 = m
        BY <3>2
      <4> QED
        BY <3>2, <4>1, <2>4 DEF x
    <3> QED
      BY <3>1, <3>2
  <2>6. Steps(h, step, base, m + 1)
    <3> HIDE DEF h
    <3> QED
      BY <2>4, <2>5 DEF Steps
  <2> HIDE DEF h
  <2> QED
    BY <2>3, <2>6
<1>3. Nat \subseteq N
  <2> HIDE DEF N
  <2> QED
    BY <1>1, <1>2, Counting
<1> QED
  BY <1>3

LEMMA StepsUnique ==
    ASSUME NEW X, NEW base, NEW n \in Nat, NEW step,
           NEW g \in [0..n -> X], Steps(g, step, base, n),
           NEW f, StepsWithin(X, f, step, base, n)
    PROVE  f[n] = g[n]
<1> DEFINE N == {m \in Nat : m <= n => f[m] = g[m]}
<1>1. 0 \in N
  BY DEF Steps, StepsWithin
<1>2. ASSUME NEW m \in Nat, m \in N
      PROVE  m + 1 \in N
  <2> SUFFICES ASSUME m + 1 <= n PROVE f[m + 1] = g[m + 1]
    OBVIOUS
  <2> DEFINE k == m + 1
  <2>1. k \in 1..n /\ k - 1 = m /\ m \in 0..n
    OBVIOUS
  <2>2. f[m] = g[m] /\ g[m] \in X
    BY <1>2, <2>1
  <2> HIDE DEF k
  <2>3. f[k] = step[<<f[k - 1], k>>] /\ g[k] = step[<<g[k - 1], k>>]
    BY <2>1, <2>2 DEF Steps, StepsWithin
  <2>4. f[k] = g[k]
    BY <2>1, <2>2, <2>3
  <2> QED
    BY <2>4 DEF k
<1>3. Nat \subseteq N
  <2> HIDE DEF N
  <2> QED
    BY <1>1, <1>2, Counting
<1> QED
  BY <1>3
=============================================================================
