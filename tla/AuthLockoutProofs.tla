------------------------- MODULE AuthLockoutProofs -------------------------
(***************************************************************************)
(* Theorems about AuthLockout, for any logins, limits, windows and backoff.*)
(*                                                                         *)
(* TriesBounded needs that a failure which no longer counts, because an    *)
(* earlier lock has used it up, leaves the window before that lock ends,   *)
(* and that each login still under way during a lock took one of the       *)
(* places left.  The locks escalate because the last one is known from     *)
(* their count.                                                            *)
(***************************************************************************)
EXTENDS AuthLockout, SubsequenceLemmas, TLAPS

-----------------------------------------------------------------------------
(* The inductive invariant                                                 *)

Checked == {l \in Logins : login[l] = "checked"}

\* The ages that stay in the window until the lock has ended.
Outlasting(left) == 0..Window - 1 - left

\* Of the failures that will still be in the window when the lock ends all
\* count; during a lock, what the logins under way can add is accounted for.
OthersWaited ==
    /\ Kept(wrong, Outlasting(lock)) = Kept(attempts, Outlasting(lock))
    /\ lock > 0 => Len(wrong) + Cardinality(Checked)
                     <= MaxAttempts + Cardinality(Logins) - 1

\* The last lock, from the count of locks.
LockHistory ==
    /\ lock <= lastLock
    /\ count = 0 => lastLock = 0
    /\ count > 0 => \/ lastLock = Duration(count - 1)
                    \/ count = MaxCount /\ lastLock = Duration(count)

LockInv == LockTypeOK /\ OthersWaited /\ LockHistory

-----------------------------------------------------------------------------
(* The backoff                                                             *)

\* As many as the sets of n things.
LEMMA PowerOfTwo ==
    ASSUME NEW n \in Nat
    PROVE  2 ^ n \in Nat /\ 2 ^ n >= 1 /\ 2 ^ n < 2 ^ (n + 1)
<1> DEFINE S == 1..n
           T == 1..n + 1
           p == 2 ^ n
           q == 2 ^ (n + 1)
<1>1. IsFiniteSet(S) /\ Cardinality(S) = n
  <2>1. 1 \in Int /\ n \in Int
    OBVIOUS
  <2> QED
    BY <2>1, FS_Interval
<1>2. IsFiniteSet(T) /\ Cardinality(T) = n + 1
  <2> DEFINE m == n + 1
  <2>1. 1 \in Int /\ m \in Int /\ m >= 1
    OBVIOUS
  <2> HIDE DEF m
  <2>2. IsFiniteSet(1..m) /\ Cardinality(1..m) = IF 1 > m THEN 0 ELSE m - 1 + 1
    BY <2>1, FS_Interval
  <2>3. IsFiniteSet(1..m) /\ Cardinality(1..m) = m
    BY <2>1, <2>2
  <2> QED
    BY <2>3 DEF m
<1>3. S \subseteq T /\ n + 1 \in T /\ n + 1 \notin S
  OBVIOUS
<1> HIDE DEF S, T
<1>4. IsFiniteSet(SUBSET S) /\ Cardinality(SUBSET S) = p
  <2>1. IsFiniteSet(SUBSET S) /\ Cardinality(SUBSET S) = 2 ^ Cardinality(S)
    BY <1>1, FS_SUBSET
  <2> QED
    BY <1>1, <2>1
<1>5. IsFiniteSet(SUBSET T) /\ Cardinality(SUBSET T) = q
  <2>1. IsFiniteSet(SUBSET T) /\ Cardinality(SUBSET T) = 2 ^ Cardinality(T)
    BY <1>2, FS_SUBSET
  <2> QED
    BY <1>2, <2>1
<1> HIDE DEF p, q
<1>6. p \in Nat /\ q \in Nat
  BY <1>4, <1>5, FS_CardinalityType
<1>7. SUBSET S \subseteq SUBSET T /\ T \in SUBSET T /\ T \notin SUBSET S
  BY <1>3
<1>8. p <= q /\ p # q
  <2>1. SUBSET S \in SUBSET (SUBSET T)
    BY <1>7
  <2>2. p <= q /\ (q = p => SUBSET T = SUBSET S)
    BY <2>1, <1>4, <1>5, FS_Subset
  <2> QED
    BY <2>2, <1>7
<1>9. p # 0
  <2>1. SUBSET S # {}
    OBVIOUS
  <2> QED
    BY <2>1, <1>4, FS_EmptySet
<1> QED
  BY <1>6, <1>8, <1>9 DEF p, q

Factor(n) == Min({2 ^ n, MaxFactor})

LEMMA FactorGrows ==
    ASSUME NEW n \in Nat
    PROVE  /\ Factor(n) \in 1..MaxFactor
           /\ Factor(n) <= Factor(n + 1)
           /\ Factor(n) < Factor(n + 1) \/ Factor(n + 1) = MaxFactor
<1> DEFINE p == 2 ^ n
           q == 2 ^ (n + 1)
<1>1. p \in Nat /\ p >= 1 /\ p < q
  BY PowerOfTwo
<1>2. q \in Nat
  <2>1. n + 1 \in Nat
    OBVIOUS
  <2> DEFINE k == n + 1
  <2> HIDE DEF k
  <2>2. k \in Nat => 2 ^ k \in Nat
    BY PowerOfTwo
  <2> QED
    BY <2>1, <2>2 DEF k
<1>3. Factor(n) = (IF p <= MaxFactor THEN p ELSE MaxFactor)
      /\ Factor(n + 1) = (IF q <= MaxFactor THEN q ELSE MaxFactor)
  <2> HIDE DEF p, q
  <2>1. Min({p, MaxFactor}) = IF p <= MaxFactor THEN p ELSE MaxFactor
    BY <1>1, LockoutAssumption, MinOfTwo
  <2>2. Min({q, MaxFactor}) = IF q <= MaxFactor THEN q ELSE MaxFactor
    BY <1>2, LockoutAssumption, MinOfTwo
  <2> QED
    BY <2>1, <2>2 DEF p, q, Factor
<1> HIDE DEF p, q
<1> QED
  BY <1>1, <1>2, <1>3, LockoutAssumption

\* A larger factor never gives a shorter time, and a longer one when there is
\* a lock at all.
LEMMA Scaled ==
    ASSUME NEW a \in Nat, NEW b \in Nat, a <= b, NEW k \in Nat
    PROVE  /\ k * a \in Nat /\ k * b \in Nat /\ k * a <= k * b
           /\ a < b /\ k > 0 => k * a < k * b
           /\ a >= 1 => k * a >= k
  OBVIOUS

Capped(f) == Min({Lockout * f, MaxLockout})

LEMMA CappedGrows ==
    ASSUME NEW a \in 1..MaxFactor, NEW b \in 1..MaxFactor, a <= b
    PROVE  /\ Capped(a) \in Window..MaxLockout
           /\ Capped(a) <= Capped(b)
           /\ a < b => Capped(a) < Capped(b) \/ Capped(b) = MaxLockout
<1> DEFINE p == Lockout * a
           q == Lockout * b
<1>1. /\ a \in Nat /\ b \in Nat /\ a >= 1 /\ Lockout \in Nat /\ Lockout > 0
      /\ MaxLockout \in Nat /\ MaxLockout >= Lockout /\ Lockout >= Window
      /\ Window \in Nat
  BY LockoutAssumption
<1>2. /\ p \in Nat /\ q \in Nat /\ p <= q /\ (a < b => p < q) /\ p >= Lockout
  BY <1>1, Scaled
<1> HIDE DEF p, q
<1>3. Min({p, MaxLockout}) = IF p <= MaxLockout THEN p ELSE MaxLockout
  BY <1>1, <1>2, MinOfTwo
<1>4. Min({q, MaxLockout}) = IF q <= MaxLockout THEN q ELSE MaxLockout
  BY <1>1, <1>2, MinOfTwo
<1>5. /\ Capped(a) = IF p <= MaxLockout THEN p ELSE MaxLockout
      /\ Capped(b) = IF q <= MaxLockout THEN q ELSE MaxLockout
  BY <1>3, <1>4 DEF Capped, p, q
<1> QED
  BY <1>1, <1>2, <1>5

\* The next lock is longer than this one, or none is.
LEMMA DurationGrows ==
    ASSUME NEW n \in Nat
    PROVE  /\ Duration(n) \in Window..MaxLockout
           /\ Duration(n) <= Duration(n + 1)
           /\ \/ Duration(n) < Duration(n + 1)
              \/ Duration(n + 1) = Duration(MaxCount)
<1> DEFINE a == Factor(n)
           b == Factor(n + 1)
           c == Factor(MaxCount)
<1>1. a \in 1..MaxFactor /\ a <= b /\ (a < b \/ b = MaxFactor)
  BY FactorGrows
<1>2. b \in 1..MaxFactor
  <2> DEFINE k == n + 1
  <2>1. k \in Nat
    OBVIOUS
  <2> HIDE DEF k
  <2>2. Factor(k) \in 1..MaxFactor
    BY <2>1, FactorGrows
  <2> QED
    BY <2>2 DEF k
<1>3. c = MaxFactor /\ MaxFactor \in 1..MaxFactor
  <2> DEFINE p == 2 ^ MaxCount
  <2>1. p \in Nat /\ p >= MaxFactor
    BY PowerOfTwo, LockoutAssumption
  <2> HIDE DEF p
  <2>2. Min({p, MaxFactor}) = IF p <= MaxFactor THEN p ELSE MaxFactor
    BY <2>1, LockoutAssumption, MinOfTwo
  <2> QED
    BY <2>1, <2>2, LockoutAssumption DEF Factor, p
<1>4. Duration(n) = Capped(a) /\ Duration(n + 1) = Capped(b)
      /\ Duration(MaxCount) = Capped(c)
  BY DEF Duration, Factor, Capped
<1> HIDE DEF a, b, c
<1>5. /\ Capped(a) \in Window..MaxLockout /\ Capped(a) <= Capped(b)
      /\ (a < b => Capped(a) < Capped(b) \/ Capped(b) = MaxLockout)
  BY <1>1, <1>2, CappedGrows
<1>6. Capped(b) \in Window..MaxLockout /\ Capped(b) <= Capped(c)
      /\ Capped(c) \in Window..MaxLockout
  <2>1. b <= c
    BY <1>2, <1>3
  <2> QED
    BY <2>1, <1>2, <1>3, CappedGrows
<1>7. MaxLockout \in Nat /\ Window \in Nat
  BY LockoutAssumption
<1>8. CASE a < b
  BY <1>4, <1>5, <1>6, <1>7, <1>8
<1>9. CASE b = MaxFactor
  BY <1>3, <1>4, <1>5, <1>6, <1>7, <1>9
<1> QED
  BY <1>1, <1>8, <1>9

-----------------------------------------------------------------------------
(* The ages                                                                *)

LEMMA OlderAges ==
    ASSUME NEW s \in Seq(0..Window - 1)
    PROVE  Older(s) \in Seq(0..Window - 1) /\ Len(Older(s)) \in 0..Len(s)
<1> DEFINE S == 0..Window - 1
<1>1. s \in Seq(Nat)
  <2>1. 0..Window - 1 \subseteq Nat
    BY LockoutAssumption
  <2> QED
    BY <2>1, SeqMonotonic
<1>2. Ticked(s) \in Seq(Nat) /\ Len(Ticked(s)) = Len(s)
  BY <1>1, TickedAppend
<1>3. Older(s) = Kept(Ticked(s), S)
  BY DEF Older, Ticked
<1> HIDE DEF S
<1>4. Kept(Ticked(s), S) \in Seq(Nat \cap S) /\ Len(Kept(Ticked(s), S)) \in 0..Len(s)
  BY <1>2, KeptInSeq, KeptLen
<1>5. Seq(Nat \cap S) \subseteq Seq(S)
  BY SeqMonotonic
<1> QED
  BY <1>3, <1>4, <1>5 DEF S

LEMMA OlderOutlasting ==
    ASSUME NEW s \in Seq(0..Window - 1), NEW left \in Nat
    PROVE  Kept(Older(s), Outlasting(left)) = Ticked(Kept(s, Outlasting(left + 1)))
<1> DEFINE S == 0..Window - 1
           A == Outlasting(left + 1)
           B == Outlasting(left)
<1>1. s \in Seq(Nat) /\ Window \in Nat
  <2>1. 0..Window - 1 \subseteq Nat
    BY LockoutAssumption
  <2> QED
    BY <2>1, SeqMonotonic, LockoutAssumption
<1>2. Ticked(s) \in Seq(Nat)
  BY <1>1, TickedAppend
<1>3. S \cap B = B
  BY <1>1 DEF Outlasting
<1>4. \A x \in Nat : x \in A <=> x + 1 \in B
  BY <1>1 DEF Outlasting
<1>5. Older(s) = Kept(Ticked(s), S)
  BY DEF Older, Ticked
<1> HIDE DEF S, A, B
<1>6. Kept(Kept(Ticked(s), S), B) = Kept(Ticked(s), S \cap B)
  BY <1>2, KeptTwice
<1>7. Kept(Ticked(s), B) = Ticked(Kept(s, A))
  BY <1>1, <1>4, KeptTicked
<1> QED
  BY <1>3, <1>5, <1>6, <1>7 DEF A, B

\* A failure of this moment.
LEMMA FailureAppended ==
    ASSUME NEW s \in Seq(0..Window - 1), NEW S
    PROVE  /\ Append(s, 0) \in Seq(0..Window - 1) /\ Len(Append(s, 0)) = Len(s) + 1
           /\ Kept(Append(s, 0), S) = IF 0 \in S THEN Append(Kept(s, S), 0) ELSE Kept(s, S)
<1> DEFINE T == 0..Window - 1
<1>1. 0 \in T
  BY LockoutAssumption
<1> HIDE DEF T
<1>2. s \in Seq(T)
  BY DEF T
<1>3. /\ Append(s, 0) \in Seq(T) /\ Len(Append(s, 0)) = Len(s) + 1
      /\ Kept(Append(s, 0), S) = IF 0 \in S THEN Append(Kept(s, S), 0) ELSE Kept(s, S)
  BY <1>1, <1>2, AppendProperties, KeptAppend
<1> QED
  BY <1>3 DEF T

\* Without a lock all failures in the window count.
LEMMA AllCount ==
    ASSUME LockInv, lock = 0
    PROVE  wrong = attempts
<1> DEFINE S == 0..Window - 1
<1>1. wrong \in Seq(S) /\ attempts \in Seq(S)
  BY DEF LockInv, LockTypeOK
<1>2. Outlasting(lock) = S
  BY LockoutAssumption DEF Outlasting
<1> HIDE DEF S
<1>3. Range(wrong) \subseteq S /\ Range(attempts) \subseteq S
  BY <1>1, ElementOfSeq, LenProperties DEF Range
<1>4. Kept(wrong, S) = wrong /\ Kept(attempts, S) = attempts
  BY <1>1, <1>3, KeptAll
<1> QED
  BY <1>2, <1>4 DEF LockInv, OthersWaited

\* A lock as long as the window outlasts every failure.
LEMMA NoneOutlasts ==
    ASSUME NEW s \in Seq(0..Window - 1), NEW left \in Nat, left >= Window
    PROVE  Kept(s, Outlasting(left)) = <<>>
<1> DEFINE S == 0..Window - 1
<1>1. Outlasting(left) = {}
  BY LockoutAssumption DEF Outlasting
<1>2. Range(s) \cap {} = {}
  OBVIOUS
<1> HIDE DEF S
<1>3. Kept(s, {}) = <<>>
  BY <1>2, KeptNone DEF S
<1> QED
  BY <1>1, <1>3

-----------------------------------------------------------------------------
(* The logins under way                                                    *)

LEMMA CheckedFinite ==
    /\ IsFiniteSet(Checked) /\ Cardinality(Checked) \in Nat
    /\ Cardinality(Checked) <= Cardinality(Logins) /\ Cardinality(Logins) \in Nat
<1>1. Checked \in SUBSET Logins
  BY DEF Checked
<1> QED
  BY <1>1, LockoutAssumption, FS_Subset, FS_CardinalityType

LEMMA OneLess ==
    ASSUME LockTypeOK, NEW l \in Logins, Done(l)
    PROVE  /\ login' \in [Logins -> {"idle", "checked"}]
           /\ Cardinality(Checked)' = Cardinality(Checked) - 1
           /\ Cardinality(Checked) <= Cardinality(Logins)
           /\ Cardinality(Checked) \in Nat /\ Cardinality(Logins) \in Nat
<1>1. login' \in [Logins -> {"idle", "checked"}]
  BY DEF LockTypeOK, Done
<1>2. Checked' = Checked \ {l} /\ l \in Checked
  BY DEF LockTypeOK, Done, Checked
<1>3. Cardinality(Checked \ {l}) = Cardinality(Checked) - 1
  BY <1>2, CheckedFinite, FS_RemoveElement
<1> QED
  BY <1>1, <1>2, <1>3, CheckedFinite

-----------------------------------------------------------------------------
(* The steps                                                               *)

RunsOut == lock' < lock => lock' = lock - 1 \/ lastLock' = 0

Escalates == lock' > lock => lock' > lastLock \/ lock' = Duration(MaxCount)

LEMMA CheckInv ==
    ASSUME LockInv, NEW l \in Logins, Check(l)
    PROVE  LockInv' /\ RunsOut /\ Escalates
<1>1. LockTypeOK'
  BY DEF Check, LockInv, LockTypeOK
<1>2. OthersWaited'
  BY DEF Check, LockInv, LockTypeOK, OthersWaited, Outlasting
<1>3. LockHistory'
  BY DEF Check, LockInv, LockTypeOK, LockHistory, Duration
<1>4. RunsOut /\ Escalates
  BY DEF Check, LockInv, LockTypeOK, RunsOut, Escalates
<1> QED
  BY <1>1, <1>2, <1>3, <1>4 DEF LockInv

LEMMA OnlyCountedInv ==
    ASSUME LockInv, NEW l \in Logins, WrongPassword(l), ~Locks(Len(attempts) + 1)
    PROVE  LockInv' /\ RunsOut /\ Escalates
<1> DEFINE S == Outlasting(lock)
<1>1. /\ Done(l) /\ wrong' = Append(wrong, 0) /\ attempts' = Append(attempts, 0)
      /\ UNCHANGED <<lock, count, lastLock>>
  BY DEF WrongPassword, OnlyCounted
<1>2. /\ LockTypeOK /\ wrong \in Seq(0..Window - 1) /\ attempts \in Seq(0..Window - 1)
      /\ Len(wrong) \in Nat /\ Len(attempts) \in Nat
  BY LenProperties DEF LockInv, LockTypeOK
<1>3. /\ login' \in [Logins -> {"idle", "checked"}]
      /\ Cardinality(Checked)' = Cardinality(Checked) - 1
      /\ Cardinality(Checked) \in Nat /\ Cardinality(Logins) \in Nat
  BY <1>1, <1>2, OneLess
<1> HIDE DEF S
<1>4. /\ wrong' \in Seq(0..Window - 1) /\ attempts' \in Seq(0..Window - 1)
      /\ Len(wrong') = Len(wrong) + 1 /\ Len(attempts') = Len(attempts) + 1
      /\ Kept(wrong', S) = IF 0 \in S THEN Append(Kept(wrong, S), 0) ELSE Kept(wrong, S)
      /\ Kept(attempts', S) =
           IF 0 \in S THEN Append(Kept(attempts, S), 0) ELSE Kept(attempts, S)
  BY <1>1, <1>2, FailureAppended
<1>5. LockTypeOK'
  BY <1>1, <1>2, <1>3, <1>4, LockoutAssumption DEF LockTypeOK, Locks
<1>6. OthersWaited'
  <2>1. Kept(wrong', S) = Kept(attempts', S)
    BY <1>4 DEF LockInv, OthersWaited, S
  <2>2. S = Outlasting(lock')
    BY <1>1 DEF S
  <2>3. lock' > 0 => Len(wrong') + Cardinality(Checked)'
                       <= MaxAttempts + Cardinality(Logins) - 1
    BY <1>1, <1>2, <1>3, <1>4, LockoutAssumption DEF LockInv, OthersWaited
  <2> QED
    BY <2>1, <2>2, <2>3 DEF OthersWaited, Outlasting
<1>7. LockHistory'
  BY <1>1 DEF LockInv, LockHistory, Duration
<1>8. RunsOut /\ Escalates
  BY <1>1, <1>2 DEF LockTypeOK, RunsOut, Escalates
<1> QED
  BY <1>5, <1>6, <1>7, <1>8 DEF LockInv

LEMMA LockAccountInv ==
    ASSUME LockInv, NEW l \in Logins, WrongPassword(l), Locks(Len(attempts) + 1)
    PROVE  LockInv' /\ RunsOut /\ Escalates
<1> DEFINE d == Duration(count)
<1>1. /\ Done(l) /\ wrong' = Append(wrong, 0) /\ attempts' = <<>>
      /\ lock' = d /\ lastLock' = d /\ count' = Min({count + 1, MaxCount})
  BY DEF WrongPassword, LockAccount
<1>2. /\ LockTypeOK /\ wrong \in Seq(0..Window - 1) /\ attempts \in Seq(0..Window - 1)
      /\ Len(wrong) \in Nat /\ Len(attempts) \in Nat
  BY LenProperties DEF LockInv, LockTypeOK
<1>3. /\ login' \in [Logins -> {"idle", "checked"}]
      /\ Cardinality(Checked)' = Cardinality(Checked) - 1
      /\ Cardinality(Checked) <= Cardinality(Logins)
      /\ Cardinality(Checked) \in Nat /\ Cardinality(Logins) \in Nat
  BY <1>1, <1>2, OneLess
<1>4. /\ count \in 0..MaxCount /\ MaxCount \in Nat \ {0} /\ Window \in Nat \ {0}
      /\ MaxLockout \in Nat /\ lock \in 0..MaxLockout /\ lastLock \in 0..MaxLockout
      /\ MaxAttempts \in Nat
  BY <1>2, LockoutAssumption DEF LockTypeOK
<1> HIDE DEF d
<1>5. d \in Window..MaxLockout /\ d \in Nat
  <2>1. count \in Nat
    BY <1>4
  <2>2. Duration(count) \in Window..MaxLockout
    BY <2>1, DurationGrows
  <2> QED
    BY <1>4, <2>2 DEF d
<1>6. count' = IF count + 1 <= MaxCount THEN count + 1 ELSE MaxCount
  BY <1>1, <1>4, MinOfTwo
<1>7. /\ wrong' \in Seq(0..Window - 1) /\ Len(wrong') = Len(wrong) + 1
      /\ attempts' \in Seq(0..Window - 1) /\ Len(attempts') = 0
  BY <1>1, <1>2, FailureAppended, EmptySeq
<1>8. LockTypeOK'
  BY <1>1, <1>3, <1>4, <1>5, <1>6, <1>7, LockoutAssumption DEF LockTypeOK
<1>9. OthersWaited'
  <2>1. Kept(wrong', Outlasting(d)) = Kept(attempts', Outlasting(d))
    <3>1. d >= Window
      BY <1>4, <1>5
    <3> QED
      BY <3>1, <1>5, <1>7, NoneOutlasts
  <2>2. Len(wrong') + Cardinality(Checked)' <= MaxAttempts + Cardinality(Logins) - 1
    <3>1. CASE lock = 0
      <4>1. Len(wrong) < MaxAttempts
        BY <1>2, <3>1, AllCount DEF LockTypeOK
      <4> QED
        BY <4>1, <1>2, <1>3, <1>4, <1>7
    <3>2. CASE lock > 0
      BY <3>2, <1>2, <1>3, <1>4, <1>7 DEF LockInv, OthersWaited
    <3> QED
      BY <3>1, <3>2, <1>4
  <2> QED
    BY <1>1, <2>1, <2>2 DEF OthersWaited, Outlasting
<1>10. /\ d <= Duration(count + 1)
       /\ d < Duration(count + 1) \/ Duration(count + 1) = Duration(MaxCount)
       /\ count > 0 => /\ Duration(count - 1) <= d
                       /\ Duration(count - 1) < d \/ d = Duration(MaxCount)
  <2>1. /\ d <= Duration(count + 1)
        /\ d < Duration(count + 1) \/ Duration(count + 1) = Duration(MaxCount)
    <3>1. count \in Nat
      BY <1>4
    <3> QED
      BY <3>1, DurationGrows DEF d
  <2>2. ASSUME count > 0
        PROVE  /\ Duration(count - 1) <= d
               /\ Duration(count - 1) < d \/ d = Duration(MaxCount)
    <3> DEFINE n == count - 1
    <3>1. n \in Nat /\ n + 1 = count
      BY <1>4, <2>2
    <3> HIDE DEF n
    <3>2. /\ Duration(n) <= Duration(n + 1)
          /\ Duration(n) < Duration(n + 1) \/ Duration(n + 1) = Duration(MaxCount)
      BY <3>1, DurationGrows
    <3> QED
      BY <3>1, <3>2 DEF n, d
  <2> QED
    BY <2>1, <2>2
<1>11. LockHistory'
  <2>1. LockHistory' <=>
          /\ lock' <= lastLock'
          /\ count' = 0 => lastLock' = 0
          /\ count' > 0 => \/ lastLock' = Duration(count' - 1)
                           \/ count' = MaxCount /\ lastLock' = Duration(count')
    BY DEF LockHistory, Duration
  <2>2. count' > 0
    BY <1>4, <1>6
  <2>3. CASE count < MaxCount
    <3>1. count' = count + 1 /\ count' - 1 = count
      BY <2>3, <1>4, <1>6
    <3> QED
      BY <3>1, <2>1, <2>2, <1>1, <1>5 DEF d
  <2>4. CASE count = MaxCount
    <3>1. count' = count /\ count' = MaxCount
      BY <2>4, <1>4, <1>6
    <3>2. lastLock' = Duration(count') /\ lock' = lastLock'
      BY <3>1, <1>1 DEF d
    <3>3. lastLock' \in Nat
      BY <1>1, <1>5
    <3> QED
      BY <3>1, <3>2, <3>3, <2>1, <2>2
  <2> QED
    BY <2>3, <2>4, <1>4
<1>12. RunsOut /\ Escalates
  <2>1. lock <= lastLock /\ (count = 0 => lastLock = 0)
        /\ (count > 0 => \/ lastLock = Duration(count - 1)
                         \/ count = MaxCount /\ lastLock = d)
    BY DEF LockInv, LockHistory, d
  <2>2. CASE count = 0
    BY <2>1, <2>2, <1>1, <1>4, <1>5 DEF RunsOut, Escalates
  <2>3. CASE count > 0 /\ lastLock = Duration(count - 1)
    BY <2>1, <2>3, <1>1, <1>4, <1>5, <1>10 DEF RunsOut, Escalates
  <2>4. CASE count = MaxCount /\ lastLock = d
    BY <2>1, <2>4, <1>1, <1>4, <1>5 DEF RunsOut, Escalates, d
  <2> QED
    BY <2>1, <2>2, <2>3, <2>4, <1>4
<1> QED
  BY <1>8, <1>9, <1>11, <1>12 DEF LockInv

LEMMA RightPasswordInv ==
    ASSUME LockInv, NEW l \in Logins, RightPassword(l)
    PROVE  LockInv' /\ RunsOut /\ Escalates
<1>1. /\ Done(l) /\ attempts' = <<>> /\ lock' = 0 /\ count' = 0
      /\ wrong' = <<>> /\ lastLock' = 0
  BY DEF RightPassword
<1>2. login' \in [Logins -> {"idle", "checked"}]
  BY <1>1, OneLess DEF LockInv
<1>3. LockTypeOK'
  BY <1>1, <1>2, EmptySeq, LockoutAssumption DEF LockTypeOK
<1>4. OthersWaited'
  BY <1>1 DEF OthersWaited, Outlasting
<1>5. LockHistory'
  BY <1>1 DEF LockHistory
<1>6. RunsOut /\ Escalates
  BY <1>1 DEF LockInv, LockTypeOK, RunsOut, Escalates
<1> QED
  BY <1>3, <1>4, <1>5, <1>6 DEF LockInv

LEMMA NotCountedInv ==
    ASSUME LockInv, NEW l \in Logins, NotCounted(l)
    PROVE  LockInv' /\ RunsOut /\ Escalates
<1>1. Done(l) /\ UNCHANGED <<attempts, lock, count, wrong, lastLock>>
  BY DEF NotCounted
<1>2. /\ login' \in [Logins -> {"idle", "checked"}]
      /\ Cardinality(Checked)' = Cardinality(Checked) - 1
      /\ Cardinality(Checked) \in Nat /\ Cardinality(Logins) \in Nat
  BY <1>1, OneLess DEF LockInv
<1>3. LockTypeOK'
  BY <1>1, <1>2 DEF LockInv, LockTypeOK
<1>4. OthersWaited'
  <2>1. Len(wrong) \in Nat
    BY LenProperties DEF LockInv, LockTypeOK
  <2>2. lock' > 0 => Len(wrong') + Cardinality(Checked)'
                       <= MaxAttempts + Cardinality(Logins) - 1
    BY <1>1, <1>2, <2>1, LockoutAssumption DEF LockInv, OthersWaited
  <2> QED
    BY <1>1, <2>2 DEF LockInv, OthersWaited, Outlasting
<1>5. LockHistory'
  BY <1>1 DEF LockInv, LockHistory, Duration
<1>6. RunsOut /\ Escalates
  BY <1>1 DEF LockInv, LockTypeOK, RunsOut, Escalates
<1> QED
  BY <1>3, <1>4, <1>5, <1>6 DEF LockInv

LEMMA TickInv ==
    ASSUME LockInv, Tick
    PROVE  LockInv' /\ RunsOut /\ Escalates
<1>1. /\ attempts' = Older(attempts) /\ wrong' = Older(wrong)
      /\ lock' = (IF lock > 0 THEN lock - 1 ELSE 0)
      /\ UNCHANGED <<login, count, lastLock>>
  BY DEF Tick
<1>2. /\ LockTypeOK /\ wrong \in Seq(0..Window - 1) /\ attempts \in Seq(0..Window - 1)
      /\ Len(wrong) \in Nat /\ Len(attempts) \in Nat
      /\ lock \in 0..MaxLockout /\ lastLock \in 0..MaxLockout
      /\ MaxLockout \in Nat /\ MaxAttempts \in Nat
  BY LenProperties, LockoutAssumption DEF LockInv, LockTypeOK
<1>3. /\ attempts' \in Seq(0..Window - 1) /\ Len(attempts') \in 0..Len(attempts)
      /\ wrong' \in Seq(0..Window - 1) /\ Len(wrong') \in 0..Len(wrong)
  BY <1>1, <1>2, OlderAges
<1>4. LockTypeOK'
  BY <1>1, <1>2, <1>3 DEF LockTypeOK
<1>5. OthersWaited'
  <2>1. Kept(wrong', Outlasting(lock')) = Kept(attempts', Outlasting(lock'))
    <3>1. CASE lock = 0
      BY <3>1, <1>1, AllCount
    <3>2. CASE lock > 0
      <4> DEFINE left == lock - 1
      <4>1. left \in Nat /\ left + 1 = lock /\ lock' = left
        BY <3>2, <1>1, <1>2
      <4> HIDE DEF left
      <4>2. Kept(wrong', Outlasting(left)) = Ticked(Kept(wrong, Outlasting(lock)))
        BY <4>1, <1>1, <1>2, OlderOutlasting
      <4>3. Kept(attempts', Outlasting(left)) = Ticked(Kept(attempts, Outlasting(lock)))
        BY <4>1, <1>1, <1>2, OlderOutlasting
      <4> QED
        BY <4>1, <4>2, <4>3 DEF LockInv, OthersWaited
    <3> QED
      BY <3>1, <3>2, <1>2
  <2>2. Checked' = Checked
    BY <1>1 DEF Checked
  <2>3. lock' > 0 => Len(wrong') + Cardinality(Checked)
                       <= MaxAttempts + Cardinality(Logins) - 1
    BY <1>1, <1>2, <1>3, CheckedFinite DEF LockInv, OthersWaited
  <2> QED
    BY <2>1, <2>2, <2>3 DEF OthersWaited, Outlasting
<1>6. LockHistory'
  BY <1>1, <1>2 DEF LockInv, LockHistory, Duration
<1>7. RunsOut /\ Escalates
  BY <1>1, <1>2 DEF RunsOut, Escalates
<1> QED
  BY <1>4, <1>5, <1>6, <1>7 DEF LockInv

-----------------------------------------------------------------------------
(* The theorems                                                            *)

LEMMA LockInvInit == LockInit => LockInv
<1> SUFFICES ASSUME LockInit PROVE LockInv
  OBVIOUS
<1>1. LockTypeOK
  BY EmptySeq, LockoutAssumption DEF LockInit, LockTypeOK
<1>2. OthersWaited /\ LockHistory
  BY DEF LockInit, OthersWaited, LockHistory
<1> QED
  BY <1>1, <1>2 DEF LockInv

LEMMA LockInvNext == LockInv /\ [LockNext]_lockVars => LockInv' /\ RunsOut /\ Escalates
<1> SUFFICES ASSUME LockInv, [LockNext]_lockVars
             PROVE  LockInv' /\ RunsOut /\ Escalates
  OBVIOUS
<1>1. CASE Tick
  BY <1>1, TickInv
<1>2. ASSUME NEW l \in Logins, LoginStep(l)
      PROVE  LockInv' /\ RunsOut /\ Escalates
  <2>1. CASE Check(l)
    BY <2>1, CheckInv
  <2>2. CASE WrongPassword(l) /\ Locks(Len(attempts) + 1)
    BY <2>2, LockAccountInv
  <2>3. CASE WrongPassword(l) /\ ~Locks(Len(attempts) + 1)
    BY <2>3, OnlyCountedInv
  <2>4. CASE RightPassword(l)
    BY <2>4, RightPasswordInv
  <2>5. CASE NotCounted(l)
    BY <2>5, NotCountedInv
  <2> QED
    BY <1>2, <2>1, <2>2, <2>3, <2>4, <2>5 DEF LoginStep
<1>3. CASE UNCHANGED lockVars
  <2>1. UNCHANGED <<login, attempts, lock, count, wrong, lastLock>>
    BY <1>3 DEF lockVars
  <2>2. LockTypeOK' /\ OthersWaited' /\ LockHistory'
    BY <2>1 DEF LockInv, LockTypeOK, OthersWaited, Outlasting, Checked,
                LockHistory, Duration
  <2>3. RunsOut /\ Escalates
    BY <2>1 DEF LockInv, LockTypeOK, RunsOut, Escalates
  <2> QED
    BY <2>2, <2>3 DEF LockInv
<1> QED
  BY <1>1, <1>2, <1>3 DEF LockNext

LEMMA LockInvariance == LockSpec => []LockInv
  BY LockInvInit, LockInvNext, PTL DEF LockSpec

\* The counters of AuthLockoutManager stay in their ranges; fewer attempts
\* than the limit are on record, and a lock has been counted.
THEOREM LockTypeCorrect == LockSpec => []LockTypeOK
<1>1. LockInv => LockTypeOK
  BY DEF LockInv
<1> QED
  BY <1>1, LockInvariance, PTL

\* Between two successes no more passwords are tried in a window than the
\* limit and the logins that had passed the check before the lock.
THEOREM TriesAreBounded == LockSpec => []TriesBounded
<1>1. ASSUME LockInv PROVE TriesBounded
  <2>1. /\ Len(attempts) < MaxAttempts /\ lock \in Nat /\ MaxAttempts \in Nat
        /\ Len(wrong) \in Nat /\ Len(attempts) \in Nat
    BY <1>1, LenProperties, LockoutAssumption DEF LockInv, LockTypeOK
  <2>2. CASE lock = 0
    BY <1>1, <2>1, <2>2, AllCount, CheckedFinite DEF TriesBounded
  <2>3. CASE lock > 0
    BY <1>1, <2>1, <2>3, CheckedFinite DEF LockInv, OthersWaited, TriesBounded
  <2> QED
    BY <2>1, <2>2, <2>3
<1> QED
  BY <1>1, LockInvariance, PTL

\* A login that was checked before never shortens the lock set meanwhile.
THEOREM LocksRunOut == LockSpec => LockRunsItsTime
<1>1. LockInv /\ [LockNext]_lockVars
        => [lock' < lock => lock' = lock - 1 \/ lastLock' = 0]_lockVars
  BY LockInvNext DEF RunsOut
<1> QED
  BY <1>1, LockInvariance, PTL DEF LockSpec, LockRunsItsTime

\* Every repeated lock is longer, up to the cap of the backoff.
THEOREM LocksGrow == LockSpec => LocksEscalate
<1>1. LockInv /\ [LockNext]_lockVars
        => [lock' > lock => lock' > lastLock \/ lock' = Duration(MaxCount)]_lockVars
  BY LockInvNext DEF Escalates
<1> QED
  BY <1>1, LockInvariance, PTL DEF LockSpec, LocksEscalate
=============================================================================
