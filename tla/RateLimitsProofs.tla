-------------------------- MODULE RateLimitsProofs --------------------------
(***************************************************************************)
(* Theorems about RateLimits, for any clients, endpoints, users, limits    *)
(* and windows: both limiters implement SlidingWindow.                     *)
(*                                                                         *)
(* The list that all endpoints share is compared with the calls of one     *)
(* endpoint by how many of either are younger than any age.                *)
(***************************************************************************)
EXTENDS RateLimits, SubsequenceLemmas, TLAPS

-----------------------------------------------------------------------------
(* Ages                                                                    *)

Younger(ages, w) == Len(Recent(ages, w))

OldestFirst(ages) == \A i, j \in DOMAIN ages : i < j => ages[i] >= ages[j]

LEMMA RecentAges ==
    ASSUME NEW T, NEW s \in Seq(T), NEW w
    PROVE  Recent(s, w) \in Seq(T) /\ Recent(s, w) \in Seq(T \cap 0..w - 1)
           /\ Recent(s, w) \in Seq(0..w - 1)
<1> DEFINE S == 0..w - 1
<1>1. Recent(s, w) \in Seq(T \cap S) /\ Recent(s, w) \in Seq(T)
  BY KeptInSeq DEF Recent
<1> HIDE DEF S
<1>2. T \cap S \subseteq S
  OBVIOUS
<1>3. Recent(s, w) \in Seq(S)
  BY <1>1, <1>2, SeqMonotonic
<1> QED
  BY <1>1, <1>3 DEF S

\* The recent of the recent.
LEMMA RecentTwice ==
    ASSUME NEW T, NEW s \in Seq(T), NEW v \in Nat, NEW w \in 0..v
    PROVE  Recent(Recent(s, v), w) = Recent(s, w)
<1>1. (0..v - 1) \cap (0..w - 1) = 0..w - 1
  OBVIOUS
<1>2. Kept(Kept(s, 0..v - 1), 0..w - 1) = Kept(s, (0..v - 1) \cap (0..w - 1))
  BY KeptTwice
<1> QED
  BY <1>1, <1>2 DEF Recent

LEMMA NoneYounger ==
    ASSUME NEW T, NEW s \in Seq(T)
    PROVE  Recent(s, 0) = <<>> /\ Younger(s, 0) = 0
<1>1. 0..0 - 1 = {}
  OBVIOUS
<1>2. Kept(s, {}) = <<>>
  BY KeptNone
<1> QED
  BY <1>1, <1>2 DEF Recent, Younger

LEMMA YoungerAppend ==
    ASSUME NEW T, NEW s \in Seq(T), 0 \in T, NEW w \in Nat \ {0}
    PROVE  /\ Recent(Append(s, 0), w) = Append(Recent(s, w), 0)
           /\ Younger(Append(s, 0), w) = Younger(s, w) + 1
<1>1. 0 \in 0..w - 1
  OBVIOUS
<1>2. Recent(Append(s, 0), w) = Append(Recent(s, w), 0)
  BY <1>1, KeptAppend DEF Recent
<1>3. Recent(s, w) \in Seq(T)
  BY RecentAges
<1> QED
  BY <1>2, <1>3, AppendProperties DEF Younger

LEMMA MapAppend ==
    ASSUME NEW s \in Seq(Nat), NEW x \in Nat, NEW h \in Nat
    PROVE  Older(Append(s, x), h) = Append(Older(s, h), IF x < h THEN x + 1 ELSE h)
<1> DEFINE n == Len(s)
           more == Append(s, x)
           y == IF x < h THEN x + 1 ELSE h
<1>1. /\ more \in Seq(Nat) /\ Len(more) = n + 1 /\ more[n + 1] = x /\ n \in Nat
      /\ \A i \in 1..n : more[i] = s[i] /\ s[i] \in Nat
      /\ DOMAIN s = 1..n /\ DOMAIN more = 1..n + 1
  BY AppendProperties, LenProperties, ElementOfSeq
<1> HIDE DEF more, n
<1>2. /\ Older(s, h) \in Seq(Nat) /\ Len(Older(s, h)) = n
      /\ Older(more, h) \in Seq(Nat) /\ Len(Older(more, h)) = n + 1
  <2>1. Older(s, h) \in Seq(Nat) /\ Len(Older(s, h)) = n
    BY <1>1 DEF Older
  <2>2. Older(more, h) \in Seq(Nat) /\ Len(Older(more, h)) = n + 1
    BY <1>1 DEF Older
  <2> QED
    BY <2>1, <2>2
<1>3. /\ \A i \in 1..n : Older(more, h)[i] = Older(s, h)[i]
      /\ Older(more, h)[n + 1] = y
  BY <1>1 DEF Older
<1>4. y \in Nat
  OBVIOUS
<1> HIDE DEF y
<1>5. Older(more, h) = Append(Older(s, h), y)
  <2> DEFINE r == Append(Older(s, h), y)
  <2>1. /\ r \in Seq(Nat) /\ Len(r) = n + 1 /\ r[n + 1] = y
        /\ \A i \in 1..n : r[i] = Older(s, h)[i]
    BY <1>2, <1>4, AppendProperties
  <2> HIDE DEF r
  <2>2. ASSUME NEW i \in 1..n + 1 PROVE Older(more, h)[i] = r[i]
    <3>1. CASE i \in 1..n
      BY <1>3, <2>1, <3>1
    <3>2. CASE i = n + 1
      BY <1>3, <2>1, <3>2
    <3> QED
      BY <1>1, <3>1, <3>2
  <2>3. Older(more, h) = r
    BY <1>2, <2>1, <2>2, SeqEqual
  <2> QED
    BY <2>3 DEF r
<1> QED
  BY <1>5 DEF more, y

LEMMA MapTypes ==
    ASSUME NEW h \in Nat, NEW s \in Seq(0..h)
    PROVE  /\ Older(s, h) \in Seq(0..h) /\ Ticked(s) \in Seq(Nat)
           /\ Len(Ticked(s)) = Len(s)
<1>1. Len(s) \in Nat /\ DOMAIN s = 1..Len(s) /\ \A i \in 1..Len(s) : s[i] \in 0..h
  BY LenProperties, ElementOfSeq
<1>2. \A i \in 1..Len(s) : (IF s[i] < h THEN s[i] + 1 ELSE h) \in 0..h
  BY <1>1
<1> QED
  BY <1>1, <1>2 DEF Older, Ticked

\* After a tick the calls younger than w are those that were younger than w - 1.
LEMMA RecentOlder ==
    ASSUME NEW s \in Seq(Nat), NEW h \in Nat, NEW w \in 1..h
    PROVE  Recent(Older(s, h), w) = Ticked(Recent(s, w - 1))
<1> DEFINE X == {r \in Seq(Nat) : Recent(Older(r, h), w) = Ticked(Recent(r, w - 1))}
<1>1. <<>> \in X
  <2>1. <<>> \in Seq(Nat) /\ Older(<<>>, h) = <<>> /\ Ticked(<<>>) = <<>>
    BY EmptySeq DEF Older, Ticked
  <2> QED
    BY <2>1, KeptEmpty DEF Recent
<1>2. ASSUME NEW r \in Seq(Nat), NEW x \in Nat, r \in X
      PROVE  Append(r, x) \in X
  <2> DEFINE y == IF x < h THEN x + 1 ELSE h
             young == x < w - 1
  <2>1. y \in Nat /\ (y \in 0..w - 1 <=> young) /\ (x \in 0..(w - 1) - 1 <=> young)
        /\ (young => y = x + 1)
    OBVIOUS
  <2> HIDE DEF y, young
  <2>2. Older(r, h) \in Seq(Nat)
    <3>1. Len(r) \in Nat /\ DOMAIN r = 1..Len(r) /\ \A i \in 1..Len(r) : r[i] \in Nat
      BY LenProperties, ElementOfSeq
    <3> QED
      BY <3>1 DEF Older
  <2>3. Older(Append(r, x), h) = Append(Older(r, h), y)
    BY MapAppend DEF y
  <2>4. Recent(Append(Older(r, h), y), w) =
          IF young THEN Append(Recent(Older(r, h), w), y) ELSE Recent(Older(r, h), w)
    <3> DEFINE S == 0..w - 1
    <3>1. y \in Nat
      BY <2>1
    <3> HIDE DEF S
    <3>2. Kept(Append(Older(r, h), y), S) =
            IF y \in S THEN Append(Kept(Older(r, h), S), y) ELSE Kept(Older(r, h), S)
      BY <3>1, <2>2, KeptAppend
    <3> QED
      BY <2>1, <3>2 DEF Recent, S
  <2>5. Recent(Append(r, x), w - 1) =
          IF young THEN Append(Recent(r, w - 1), x) ELSE Recent(r, w - 1)
    <3> DEFINE S == 0..(w - 1) - 1
    <3> HIDE DEF S
    <3>1. Kept(Append(r, x), S) = IF x \in S THEN Append(Kept(r, S), x) ELSE Kept(r, S)
      BY KeptAppend
    <3> QED
      BY <2>1, <3>1 DEF Recent, S
  <2>6. Recent(r, w - 1) \in Seq(Nat)
    BY RecentAges
  <2>7. Ticked(Append(Recent(r, w - 1), x)) = Append(Ticked(Recent(r, w - 1)), x + 1)
    BY <2>6, TickedAppend
  <2>8. Recent(Older(r, h), w) = Ticked(Recent(r, w - 1))
    BY <1>2
  <2>9. Recent(Older(Append(r, x), h), w) = Ticked(Recent(Append(r, x), w - 1))
    <3>1. CASE young
      BY <3>1, <2>1, <2>3, <2>4, <2>5, <2>7, <2>8
    <3>2. CASE ~young
      BY <3>2, <2>3, <2>4, <2>5, <2>8
    <3> QED
      BY <3>1, <3>2
  <2> QED
    BY <2>9, AppendProperties
<1>3. Seq(Nat) \subseteq X
  <2> HIDE DEF X
  <2> QED
    BY <1>1, <1>2, Appending
<1> QED
  BY <1>3

\* A sorted list stays sorted when time passes, when a new call comes last and
\* when calls are taken out.
LEMMA OrderAppend ==
    ASSUME NEW s \in Seq(Nat), NEW x \in Nat
    PROVE  OldestFirst(Append(s, x)) <=>
             OldestFirst(s) /\ \A y \in Range(s) : y >= x
<1> DEFINE n == Len(s)
           more == Append(s, x)
<1>1. /\ more \in Seq(Nat) /\ Len(more) = n + 1 /\ more[n + 1] = x /\ n \in Nat
      /\ \A i \in 1..n : more[i] = s[i] /\ s[i] \in Nat
      /\ DOMAIN s = 1..n /\ DOMAIN more = 1..n + 1
  BY AppendProperties, LenProperties, ElementOfSeq
<1>2. (\A y \in Range(s) : y >= x) <=> \A i \in 1..n : s[i] >= x
  BY <1>1 DEF Range
<1> HIDE DEF more, n
<1>3. ASSUME OldestFirst(more)
      PROVE  OldestFirst(s) /\ \A i \in 1..n : s[i] >= x
  <2>1. \A i \in 1..n : i \in 1..n + 1 /\ n + 1 \in 1..n + 1 /\ i < n + 1
    BY <1>1
  <2>2. \A i, j \in 1..n + 1 : i < j => more[i] >= more[j]
    BY <1>1, <1>3 DEF OldestFirst
  <2>3. \A i \in 1..n : s[i] >= x
    BY <1>1, <2>1, <2>2
  <2>4. \A i, j \in 1..n : i < j => s[i] >= s[j]
    BY <1>1, <2>1, <2>2
  <2> QED
    BY <1>1, <2>3, <2>4 DEF OldestFirst
<1>4. ASSUME OldestFirst(s), \A i \in 1..n : s[i] >= x
      PROVE  OldestFirst(more)
  <2> SUFFICES ASSUME NEW i \in 1..n + 1, NEW j \in 1..n + 1, i < j
               PROVE  more[i] >= more[j]
    BY <1>1 DEF OldestFirst
  <2>1. i \in 1..n /\ more[i] = s[i]
    BY <1>1
  <2>2. CASE j = n + 1
    BY <1>1, <1>4, <2>1, <2>2
  <2>3. CASE j \in 1..n
    BY <1>1, <1>4, <2>1, <2>3 DEF OldestFirst
  <2> QED
    BY <2>2, <2>3, <1>1
<1> QED
  BY <1>2, <1>3, <1>4 DEF more

LEMMA OrderRecent ==
    ASSUME NEW s \in Seq(Nat), NEW w, OldestFirst(s)
    PROVE  OldestFirst(Recent(s, w))
<1> DEFINE S == 0..w - 1
           X == {r \in Seq(Nat) : OldestFirst(r) => OldestFirst(Kept(r, S))}
<1>1. <<>> \in X
  BY KeptEmpty, EmptySeq DEF OldestFirst
<1>2. ASSUME NEW r \in Seq(Nat), NEW x \in Nat, r \in X
      PROVE  Append(r, x) \in X
  <2> HIDE DEF S
  <2> SUFFICES ASSUME OldestFirst(Append(r, x))
               PROVE  OldestFirst(Kept(Append(r, x), S))
    BY AppendProperties
  <2>1. OldestFirst(r) /\ \A y \in Range(r) : y >= x
    BY OrderAppend
  <2>2. Kept(r, S) \in Seq(Nat) /\ Range(Kept(r, S)) \subseteq Range(r)
    BY KeptInSeq, KeptRange
  <2>3. OldestFirst(Kept(r, S)) /\ \A y \in Range(Kept(r, S)) : y >= x
    BY <1>2, <2>1, <2>2
  <2>4. OldestFirst(Append(Kept(r, S), x))
    BY <2>2, <2>3, OrderAppend
  <2>5. Kept(Append(r, x), S) = IF x \in S THEN Append(Kept(r, S), x) ELSE Kept(r, S)
    BY KeptAppend
  <2> QED
    BY <2>3, <2>4, <2>5
<1>3. Seq(Nat) \subseteq X
  <2> HIDE DEF X
  <2> QED
    BY <1>1, <1>2, Appending
<1> QED
  BY <1>3 DEF Recent

LEMMA OrderOlder ==
    ASSUME NEW s \in Seq(Nat), NEW h \in Nat, OldestFirst(s)
    PROVE  OldestFirst(Older(s, h))
<1>1. DOMAIN s = 1..Len(s) /\ \A i \in 1..Len(s) : s[i] \in Nat
  BY LenProperties, ElementOfSeq
<1> SUFFICES ASSUME NEW i \in 1..Len(s), NEW j \in 1..Len(s), i < j
             PROVE  Older(s, h)[i] >= Older(s, h)[j]
  BY <1>1 DEF OldestFirst, Older
<1>2. s[i] \in Nat /\ s[j] \in Nat /\ s[i] >= s[j]
  BY <1>1 DEF OldestFirst
<1> QED
  BY <1>1, <1>2 DEF Older

-----------------------------------------------------------------------------
(* The invariant                                                           *)

\* Of the calls of an endpoint younger than any age there are at most as many
\* as in the shared list, and for a client that calls no other the two lists
\* are the same.
Shared(c, e) ==
    /\ served[c][e] \in Seq(0..Window - 1)
    /\ \A w \in 0..Window : Younger(served[c][e], w) <= Younger(deque[c], w)
    /\ Uses[c] = {e} => served[c][e] = Recent(deque[c], Window)

LimitsInv ==
    /\ LimitsTypeOK
    /\ \A c \in Clients, e \in Endpoints : Shared(c, e)

LEMMA Windows == Window \in 1..CleanupAge /\ CleanupAge \in Nat /\ Window \in Nat
  BY LimitsAssumption

\* Numbers is what the lemmas about ages speak of.
LEMMA Numbers ==
    ASSUME NEW h \in Int, NEW s \in Seq(0..h)
    PROVE  s \in Seq(Nat)
<1>1. 0..h \subseteq Nat
  OBVIOUS
<1> QED
  BY <1>1, SeqMonotonic

\* All that was served is in the window.
LEMMA AllInWindow ==
    ASSUME NEW q \in Seq(0..Window - 1)
    PROVE  Recent(q, Window) = q /\ Younger(q, Window) = Len(q)
<1> DEFINE S == 0..Window - 1
<1>1. q \in Seq(S)
  OBVIOUS
<1> HIDE DEF S
<1>2. Range(q) \subseteq S
  BY <1>1, LenProperties, ElementOfSeq DEF Range
<1>3. Kept(q, S) = q
  BY <1>1, <1>2, KeptAll
<1> QED
  BY <1>3 DEF Recent, Younger, S

LEMMA YoungerIsNat ==
    ASSUME NEW s \in Seq(Nat), NEW w
    PROVE  Younger(s, w) \in Nat
  BY RecentAges, LenProperties DEF Younger

\* What a call leaves of the list when it is refused, and when it is served.
LEMMA ListAfterCall ==
    ASSUME NEW d \in Seq(Nat), NEW mine, mine = Recent(d, Window)
    PROVE  /\ mine \in Seq(Nat) /\ Append(mine, 0) \in Seq(Nat)
           /\ \A w \in 0..Window : Recent(mine, w) = Recent(d, w)
           /\ \A w \in 1..Window :
                /\ Recent(Append(mine, 0), w) = Append(Recent(d, w), 0)
                /\ Younger(Append(mine, 0), w) = Younger(d, w) + 1
<1>1. mine \in Seq(Nat) /\ Append(mine, 0) \in Seq(Nat)
  BY RecentAges, AppendProperties
<1>2. \A w \in 0..Window : Recent(mine, w) = Recent(d, w)
  BY Windows, RecentTwice
<1>3. ASSUME NEW w \in 1..Window
      PROVE  /\ Recent(Append(mine, 0), w) = Append(Recent(d, w), 0)
             /\ Younger(Append(mine, 0), w) = Younger(d, w) + 1
  <2>1. w \in Nat \ {0} /\ w \in 0..Window
    BY Windows
  <2>2. /\ Recent(Append(mine, 0), w) = Append(Recent(mine, w), 0)
        /\ Younger(Append(mine, 0), w) = Younger(mine, w) + 1
    BY <1>1, <2>1, YoungerAppend
  <2> QED
    BY <1>2, <2>1, <2>2 DEF Younger
<1> QED
  BY <1>1, <1>2, <1>3

LEMMA CleanedLists ==
    ASSUME LimitsInv, NEW cleaned \in Cleanups
    PROVE  /\ cleaned \in [Clients -> Ages(CleanupAge)]
           /\ \A c \in Clients : OldestFirst(cleaned[c])
           /\ \A c \in Clients, w \in 0..Window : Recent(cleaned[c], w) = Recent(deque[c], w)
<1>1. \A c \in Clients : deque[c] \in Seq(0..CleanupAge) /\ OldestFirst(deque[c])
  BY DEF LimitsInv, LimitsTypeOK, Ages, OldestFirst
<1>2. deque \in [Clients -> Ages(CleanupAge)]
  BY DEF LimitsInv, LimitsTypeOK
<1>3. CASE cleaned = deque
  BY <1>1, <1>2, <1>3
<1>4. CASE cleaned = [c \in Clients |-> Recent(deque[c], CleanupAge)]
  <2>1. \A c \in Clients : cleaned[c] = Recent(deque[c], CleanupAge)
    BY <1>4
  <2>2. \A c \in Clients : cleaned[c] \in Seq(0..CleanupAge)
    BY <1>1, <2>1, RecentAges
  <2>3. \A c \in Clients : OldestFirst(cleaned[c])
    <3> TAKE c \in Clients
    <3>1. deque[c] \in Seq(Nat) /\ OldestFirst(deque[c])
      BY <1>1, Windows, Numbers
    <3> QED
      BY <2>1, <3>1, OrderRecent
  <2>4. ASSUME NEW c \in Clients, NEW w \in 0..Window
        PROVE  Recent(cleaned[c], w) = Recent(deque[c], w)
    <3>1. w \in 0..CleanupAge /\ CleanupAge \in Nat
      BY Windows
    <3> QED
      BY <1>1, <2>1, <3>1, RecentTwice
  <2> QED
    BY <1>4, <2>2, <2>3, <2>4 DEF Ages
<1> QED
  BY <1>3, <1>4 DEF Cleanups

\* A request of client c to endpoint e, with what the cleanup has left.
LEMMA Requested ==
    ASSUME LimitsInv, NEW c \in Clients, NEW e \in Endpoints, Request(c, e)
    PROVE  \E cleaned \in Cleanups, mine \in {Recent(deque[c], Window)} :
             /\ mine = Recent(cleaned[c], Window) /\ mine = Recent(deque[c], Window)
             /\ e \in Uses[c] /\ UNCHANGED <<exports, exported>>
             /\ \/ /\ Len(mine) < Limits[e]
                   /\ deque' = [cleaned EXCEPT ![c] = Append(mine, 0)]
                   /\ served' = [served EXCEPT ![c][e] = Append(served[c][e], 0)]
                   /\ answered' = [answered EXCEPT ![c][e] = "served"]
                \/ /\ ~(Len(mine) < Limits[e])
                   /\ deque' = [cleaned EXCEPT ![c] = mine]
                   /\ served' = served
                   /\ answered' = [answered EXCEPT ![c][e] = "refused"]
<1>1. PICK cleaned \in Cleanups :
        LET mine == Recent(cleaned[c], Window)
        IN  IF Allowed(c, e, mine)
            THEN /\ deque' = [cleaned EXCEPT ![c] = Remembered(mine)]
                 /\ served' = [served EXCEPT ![c][e] = Append(@, 0)]
                 /\ answered' = [answered EXCEPT ![c][e] = "served"]
            ELSE /\ deque' = [cleaned EXCEPT ![c] = mine]
                 /\ answered' = [answered EXCEPT ![c][e] = "refused"]
                 /\ UNCHANGED served
  BY DEF Request
<1>2. Recent(cleaned[c], Window) = Recent(deque[c], Window)
  BY Windows, CleanedLists
<1>3. e \in Uses[c] /\ UNCHANGED <<exports, exported>>
  BY DEF Request
<1> WITNESS cleaned \in Cleanups, Recent(deque[c], Window) \in {Recent(deque[c], Window)}
<1> QED
  BY <1>1, <1>2, <1>3 DEF Allowed, Remembered

-----------------------------------------------------------------------------
(* The invariant is kept                                                   *)

LEMMA LimitsInitially == ASSUME LimitsInit PROVE LimitsInv
<1>1. LimitsTypeOK
  BY EmptySeq DEF LimitsInit, LimitsTypeOK, Ages, Answers
<1>2. ASSUME NEW c \in Clients, NEW e \in Endpoints PROVE Shared(c, e)
  <2>1. served[c][e] = <<>> /\ deque[c] = <<>>
    BY DEF LimitsInit
  <2>2. \A w : Recent(<<>>, w) = <<>>
    BY KeptEmpty DEF Recent
  <2>3. <<>> \in Seq(0..Window - 1)
    BY EmptySeq
  <2> QED
    BY <2>1, <2>2, <2>3 DEF Shared, Younger
<1> QED
  BY <1>1, <1>2 DEF LimitsInv

LEMMA RequestStep ==
    ASSUME LimitsInv, NEW c \in Clients, NEW e \in Endpoints, Request(c, e)
    PROVE  LimitsInv'
<1>1. PICK cleaned \in Cleanups, mine \in {Recent(deque[c], Window)} :
        /\ mine = Recent(cleaned[c], Window) /\ mine = Recent(deque[c], Window)
        /\ e \in Uses[c] /\ UNCHANGED <<exports, exported>>
        /\ \/ /\ Len(mine) < Limits[e]
              /\ deque' = [cleaned EXCEPT ![c] = Append(mine, 0)]
              /\ served' = [served EXCEPT ![c][e] = Append(served[c][e], 0)]
              /\ answered' = [answered EXCEPT ![c][e] = "served"]
           \/ /\ ~(Len(mine) < Limits[e])
              /\ deque' = [cleaned EXCEPT ![c] = mine]
              /\ served' = served
              /\ answered' = [answered EXCEPT ![c][e] = "refused"]
  BY Requested
<1>2. /\ cleaned \in [Clients -> Ages(CleanupAge)]
      /\ \A x \in Clients : OldestFirst(cleaned[x])
      /\ \A x \in Clients, w \in 0..Window : Recent(cleaned[x], w) = Recent(deque[x], w)
  BY CleanedLists
<1>3. LimitsTypeOK /\ \A x \in Clients, f \in Endpoints : Shared(x, f)
  BY DEF LimitsInv
<1>4. /\ cleaned[c] \in Seq(0..CleanupAge) /\ deque[c] \in Seq(0..CleanupAge)
      /\ cleaned[c] \in Seq(Nat) /\ deque[c] \in Seq(Nat)
  BY <1>2, <1>3, Windows, Numbers DEF LimitsTypeOK, Ages
<1>5. /\ mine \in Seq(0..CleanupAge) /\ Append(mine, 0) \in Seq(0..CleanupAge)
      /\ OldestFirst(mine) /\ OldestFirst(Append(mine, 0))
  <2>1. mine \in Seq(0..CleanupAge) /\ mine \in Seq(Nat) /\ OldestFirst(mine)
    <3>1. OldestFirst(cleaned[c]) /\ mine = Recent(cleaned[c], Window)
      BY <1>1, <1>2
    <3>2. mine \in Seq(0..CleanupAge) /\ mine \in Seq(Nat)
      BY <1>4, <3>1, RecentAges
    <3> QED
      BY <1>4, <3>1, <3>2, OrderRecent
  <2>2. 0 \in 0..CleanupAge /\ 0 \in Nat
    BY Windows
  <2>3. \A y \in Range(mine) : y >= 0
    BY <2>1, LenProperties, ElementOfSeq DEF Range
  <2> QED
    BY <2>1, <2>2, <2>3, AppendProperties, OrderAppend
<1>6. /\ served[c][e] \in Seq(0..Window - 1) /\ served[c][e] \in Seq(Nat)
      /\ Append(served[c][e], 0) \in Seq(0..Window - 1)
      /\ Append(served[c][e], 0) \in Seq(0..Window)
  <2>1. served[c][e] \in Seq(0..Window - 1) /\ 0 \in 0..Window - 1 /\ Window - 1 \in Int
        /\ 0..Window - 1 \subseteq 0..Window
    BY <1>3, Windows DEF Shared
  <2>2. Append(served[c][e], 0) \in Seq(0..Window - 1)
    BY <2>1, AppendProperties
  <2> QED
    BY <2>1, <2>2, Numbers, SeqMonotonic
<1>7. /\ \A w \in 0..Window : Recent(mine, w) = Recent(deque[c], w)
      /\ \A w \in 1..Window :
           /\ Recent(Append(mine, 0), w) = Append(Recent(deque[c], w), 0)
           /\ Younger(Append(mine, 0), w) = Younger(deque[c], w) + 1
      /\ mine \in Seq(Nat) /\ Append(mine, 0) \in Seq(Nat)
  BY <1>1, <1>4, ListAfterCall
<1>8. /\ \A x \in Clients \ {c} : deque'[x] = cleaned[x] /\ served'[x] = served[x]
      /\ \A f \in Endpoints \ {e} : served'[c][f] = served[c][f]
      /\ \/ deque'[c] = Append(mine, 0) /\ served'[c][e] = Append(served[c][e], 0)
         \/ deque'[c] = mine /\ served'[c][e] = served[c][e]
  BY <1>1, <1>2, <1>3 DEF LimitsTypeOK
<1>9. LimitsTypeOK'
  <2>1. /\ deque' \in [Clients -> Ages(CleanupAge)]
        /\ served' \in [Clients -> [Endpoints -> Ages(Window)]]
        /\ answered' \in [Clients -> [Endpoints -> Answers]]
    <3>1. deque' \in [Clients -> Ages(CleanupAge)]
      BY <1>1, <1>2, <1>5 DEF Ages
    <3>2. answered' \in [Clients -> [Endpoints -> Answers]]
      <4>1. "served" \in Answers /\ "refused" \in Answers
        BY DEF Answers
      <4>2. answered \in [Clients -> [Endpoints -> Answers]]
        BY <1>3 DEF LimitsTypeOK
      <4>3. [answered EXCEPT ![c][e] = "served"] \in [Clients -> [Endpoints -> Answers]]
        BY <4>1, <4>2
      <4>4. [answered EXCEPT ![c][e] = "refused"] \in [Clients -> [Endpoints -> Answers]]
        BY <4>1, <4>2
      <4> QED
        BY <1>1, <4>3, <4>4
    <3>3. served' \in [Clients -> [Endpoints -> Ages(Window)]]
      <4>1. served \in [Clients -> [Endpoints -> Ages(Window)]]
        BY <1>3 DEF LimitsTypeOK
      <4>2. Append(served[c][e], 0) \in Ages(Window)
        BY <1>6 DEF Ages
      <4>3. [served EXCEPT ![c][e] = Append(served[c][e], 0)]
              \in [Clients -> [Endpoints -> Ages(Window)]]
        BY <4>1, <4>2
      <4> QED
        BY <1>1, <4>1, <4>3
    <3> QED
      BY <3>1, <3>2, <3>3
  <2>2. \A x \in Clients : OldestFirst(deque'[x])
    BY <1>2, <1>5, <1>8
  <2> QED
    BY <1>1, <1>3, <2>1, <2>2 DEF LimitsTypeOK, OldestFirst
<1>10. ASSUME NEW x \in Clients, NEW f \in Endpoints PROVE Shared(x, f)'
  <2>1. Shared(x, f)
    BY <1>3
  <2>2. CASE x # c
    <3>1. deque'[x] = cleaned[x] /\ served'[x] = served[x] /\ Window \in 0..Window
      BY <1>8, <2>2, Windows
    <3>2. \A w \in 0..Window : Recent(deque'[x], w) = Recent(deque[x], w)
      BY <1>2, <3>1
    <3> QED
      BY <2>1, <3>1, <3>2 DEF Shared, Younger
  <2>3. CASE x = c /\ deque'[c] = mine /\ served'[c][e] = served[c][e]
    <3>1. Window \in 0..Window /\ served'[c][f] = served[c][f]
      BY <1>8, <2>3, Windows
    <3> QED
      BY <1>7, <2>1, <2>3, <3>1 DEF Shared, Younger
  <2>4. CASE x = c /\ deque'[c] = Append(mine, 0) /\ served'[c][e] = Append(served[c][e], 0)
    <3> DEFINE q == served[c][f]
    <3>1. /\ q \in Seq(Nat) /\ \A w \in 0..Window : Younger(q, w) <= Younger(deque[c], w)
          /\ served'[c][f] = q \/ (f = e /\ served'[c][f] = Append(q, 0))
      <4>1. q \in Seq(0..Window - 1) /\ Window - 1 \in Int
        BY <2>1, <2>4, Windows DEF Shared
      <4> QED
        BY <4>1, <1>8, <2>1, <2>4, Numbers DEF Shared
    <3>2. served'[c][f] \in Seq(0..Window - 1)
      BY <1>6, <2>1, <2>4, <3>1 DEF Shared
    <3>3. ASSUME NEW w \in 0..Window
          PROVE  Younger(served'[c][f], w) <= Younger(deque'[c], w)
      <4>1. CASE w = 0
        <5>1. Younger(served'[c][f], 0) = 0 /\ Younger(deque'[c], 0) = 0
          BY <1>7, <2>4, <3>2, NoneYounger
        <5> QED
          BY <4>1, <5>1
      <4>2. CASE w # 0
        <5>1. w \in 1..Window /\ w \in Nat \ {0}
          BY <4>2, Windows
        <5>2. Younger(deque'[c], w) = Younger(deque[c], w) + 1
          BY <1>7, <2>4, <5>1
        <5>3. Younger(Append(q, 0), w) = Younger(q, w) + 1
          BY <3>1, <5>1, YoungerAppend
        <5>4. Younger(q, w) \in Nat /\ Younger(deque[c], w) \in Nat
          BY <1>4, <3>1, YoungerIsNat
        <5>5. Younger(q, w) <= Younger(deque[c], w)
          BY <3>1
        <5>6. Younger(served'[c][f], w) \in {Younger(q, w), Younger(q, w) + 1}
          BY <3>1, <5>3
        <5> QED
          BY <5>2, <5>4, <5>5, <5>6
      <4> QED
        BY <4>1, <4>2
    <3>4. ASSUME Uses[c] = {f} PROVE served'[c][f] = Recent(deque'[c], Window)
      <4>1. f = e /\ Window \in 1..Window
        BY <1>1, <3>4, Windows
      <4>2. q = Recent(deque[c], Window)
        BY <2>1, <2>4, <3>4 DEF Shared
      <4> QED
        BY <1>7, <2>4, <4>1, <4>2
    <3> QED
      BY <2>4, <3>2, <3>3, <3>4 DEF Shared
  <2> QED
    BY <1>8, <2>2, <2>3, <2>4
<1> QED
  BY <1>9, <1>10 DEF LimitsInv

LEMMA ExportStep ==
    ASSUME LimitsInv, NEW u \in Users, Export(u)
    PROVE  LimitsInv'
<1> DEFINE mine == Recent(exports[u], ExportWindow)
<1>1. LimitsTypeOK /\ \A x \in Clients, f \in Endpoints : Shared(x, f)
  BY DEF LimitsInv
<1>2. Append(mine, 0) \in Ages(ExportWindow)
  <2>1. exports[u] \in Seq(0..ExportWindow) /\ 0 \in 0..ExportWindow
    BY <1>1, LimitsAssumption DEF LimitsTypeOK, Ages
  <2>2. mine \in Seq(0..ExportWindow)
    BY <2>1, RecentAges
  <2> QED
    BY <2>1, <2>2, AppendProperties DEF Ages
<1>3. LimitsTypeOK'
  BY <1>1, <1>2 DEF Export, LimitsTypeOK, Answers
<1>4. ASSUME NEW x \in Clients, NEW f \in Endpoints PROVE Shared(x, f)'
  BY <1>1 DEF Export, Shared, Younger
<1> QED
  BY <1>3, <1>4 DEF LimitsInv

\* What a tick does to a shared list and to the calls served.
LEMMA ListAfterTick ==
    ASSUME NEW s \in Seq(Nat), NEW h \in Nat, NEW w \in 1..h
    PROVE  /\ Recent(Older(s, h), w) = Ticked(Recent(s, w - 1))
           /\ Younger(Older(s, h), w) = Younger(s, w - 1)
<1>1. Recent(Older(s, h), w) = Ticked(Recent(s, w - 1))
  BY RecentOlder
<1>2. Len(Recent(s, w - 1)) \in Nat /\ DOMAIN Recent(s, w - 1) = 1..Len(Recent(s, w - 1))
      /\ Recent(s, w - 1) \in Seq(Nat)
  BY RecentAges, LenProperties
<1>3. Len(Ticked(Recent(s, w - 1))) = Len(Recent(s, w - 1))
  BY <1>2 DEF Ticked
<1> QED
  BY <1>1, <1>3 DEF Younger

LEMMA TickStep ==
    ASSUME LimitsInv, Tick
    PROVE  LimitsInv'
<1>1. LimitsTypeOK /\ \A c \in Clients, e \in Endpoints : Shared(c, e)
  BY DEF LimitsInv
<1>2. ASSUME NEW c \in Clients
      PROVE  /\ deque'[c] = Older(deque[c], CleanupAge) /\ deque'[c] \in Ages(CleanupAge)
             /\ deque[c] \in Seq(Nat) /\ deque'[c] \in Seq(Nat) /\ OldestFirst(deque'[c])
  <2>1. deque[c] \in Seq(0..CleanupAge) /\ OldestFirst(deque[c]) /\ CleanupAge \in Nat
    BY <1>1, Windows DEF LimitsTypeOK, Ages, OldestFirst
  <2>2. deque'[c] = Older(deque[c], CleanupAge)
    BY DEF Tick
  <2>3. deque[c] \in Seq(Nat) /\ deque'[c] \in Seq(0..CleanupAge)
    BY <2>1, <2>2, Numbers, MapTypes
  <2>4. deque'[c] \in Seq(Nat)
    BY <2>1, <2>3, Numbers
  <2> QED
    BY <2>1, <2>2, <2>3, <2>4, OrderOlder DEF Ages
<1>3. ASSUME NEW c \in Clients, NEW e \in Endpoints
      PROVE  /\ served'[c][e] = Recent(Older(served[c][e], Window), Window)
             /\ served'[c][e] \in Seq(0..Window - 1) /\ served'[c][e] \in Ages(Window)
             /\ served[c][e] \in Seq(Nat) /\ Older(served[c][e], Window) \in Seq(Nat)
  <2>1. served[c][e] \in Seq(0..Window) /\ Window \in Nat
    BY <1>1, Windows DEF LimitsTypeOK, Ages
  <2>2. Older(served[c][e], Window) \in Seq(0..Window)
    BY <2>1, MapTypes
  <2>3. served'[c][e] = Recent(Older(served[c][e], Window), Window)
    BY DEF Tick
  <2>4. served'[c][e] \in Seq(0..Window) /\ served'[c][e] \in Seq(0..Window - 1)
    BY <2>2, <2>3, RecentAges
  <2> QED
    BY <2>1, <2>2, <2>3, <2>4, Numbers DEF Ages
<1>4. LimitsTypeOK'
  <2>1. deque' \in [Clients -> Ages(CleanupAge)]
    BY <1>2 DEF Tick
  <2>2. served' \in [Clients -> [Endpoints -> Ages(Window)]]
    BY <1>3 DEF Tick
  <2>3. exports' \in [Users -> Ages(ExportWindow)]
    BY <1>1, LimitsAssumption, MapTypes DEF LimitsTypeOK, Ages, Tick
  <2>4. answered' \in [Clients -> [Endpoints -> Answers]] /\ exported' \in [Users -> Answers]
    BY DEF Tick, Answers
  <2> QED
    BY <1>2, <2>1, <2>2, <2>3, <2>4 DEF LimitsTypeOK, OldestFirst
<1>5. ASSUME NEW c \in Clients, NEW e \in Endpoints PROVE Shared(c, e)'
  <2> DEFINE q == served[c][e]
             d == deque[c]
  <2>1. /\ Shared(c, e) /\ q \in Seq(Nat) /\ d \in Seq(Nat)
        /\ Older(q, Window) \in Seq(Nat) /\ deque'[c] \in Seq(Nat)
        /\ served'[c][e] \in Seq(0..Window - 1)
        /\ served'[c][e] = Recent(Older(q, Window), Window)
        /\ deque'[c] = Older(d, CleanupAge)
    BY <1>1, <1>2, <1>3
  <2> HIDE DEF q, d
  <2>2. ASSUME NEW w \in 0..Window
        PROVE  Younger(served'[c][e], w) <= Younger(deque'[c], w)
    <3>1. Younger(served'[c][e], w) = Younger(Older(q, Window), w)
      BY <2>1, Windows, RecentTwice DEF Younger
    <3>2. CASE w = 0
      BY <2>1, <3>1, <3>2, NoneYounger
    <3>3. CASE w # 0
      <4>1. w \in 1..Window /\ w \in 1..CleanupAge /\ w - 1 \in 0..Window
        BY <3>3, Windows
      <4>2. Younger(Older(q, Window), w) = Younger(q, w - 1)
        BY <2>1, <4>1, Windows, ListAfterTick
      <4>3. Younger(deque'[c], w) = Younger(d, w - 1)
        BY <2>1, <4>1, Windows, ListAfterTick
      <4>4. Younger(q, w - 1) <= Younger(d, w - 1)
        BY <2>1, <4>1 DEF Shared, q, d
      <4> QED
        BY <3>1, <4>2, <4>3, <4>4
    <3> QED
      BY <3>2, <3>3
  <2>3. ASSUME Uses[c] = {e} PROVE served'[c][e] = Recent(deque'[c], Window)
    <3>1. Window \in 1..Window /\ Window \in 1..CleanupAge /\ Window - 1 \in 0..Window
          /\ Window \in Nat /\ CleanupAge \in Nat
      BY Windows
    <3>2. q = Recent(d, Window)
      BY <2>1, <2>3 DEF Shared, q, d
    <3>3. Recent(q, Window - 1) = Recent(d, Window - 1)
      BY <2>1, <3>1, <3>2, RecentTwice
    <3>4. Recent(Older(q, Window), Window) = Ticked(Recent(q, Window - 1))
      BY <2>1, <3>1, ListAfterTick
    <3>5. Recent(Older(d, CleanupAge), Window) = Ticked(Recent(d, Window - 1))
      BY <2>1, <3>1, ListAfterTick
    <3> QED
      BY <2>1, <3>3, <3>4, <3>5
  <2> QED
    BY <2>1, <2>2, <2>3 DEF Shared
<1> QED
  BY <1>4, <1>5 DEF LimitsInv

LEMMA LimitsInvariant == LimitsSpec => []LimitsInv
<1>1. LimitsInit => LimitsInv
  BY LimitsInitially
<1>2. LimitsInv /\ [LimitsNext]_limitVars => LimitsInv'
  <2> SUFFICES ASSUME LimitsInv, [LimitsNext]_limitVars PROVE LimitsInv'
    OBVIOUS
  <2>1. CASE UNCHANGED limitVars
    BY <2>1 DEF limitVars, LimitsInv, LimitsTypeOK, Shared, Younger
  <2> QED
    BY <2>1, RequestStep, ExportStep, TickStep DEF LimitsNext
<1> QED
  BY <1>1, <1>2, PTL DEF LimitsSpec

-----------------------------------------------------------------------------
(* Refinement                                                              *)

LEMMA SameKept ==
    /\ \A s, S : PerEndpoint!Kept(s, S) = Kept(s, S)
    /\ \A s, S : PerUser!Kept(s, S) = Kept(s, S)
  BY DEF PerEndpoint!Kept, PerUser!Kept, Kept

\* Time passes for the calls in a window as it does in SlidingWindow.
LEMMA WindowPasses ==
    ASSUME NEW s \in Seq(Nat), NEW w \in Nat \ {0}
    PROVE  Kept(Ticked(Recent(s, w)), 0..w - 1) = Recent(Older(s, w), w)
<1> DEFINE q == Recent(s, w)
<1>1. q \in Seq(Nat) /\ q \in Seq(0..w - 1) /\ DOMAIN q = 1..Len(q) /\ Len(q) \in Nat
  BY RecentAges, LenProperties
<1>2. \A i \in 1..Len(q) : q[i] \in 0..w - 1
  BY <1>1, ElementOfSeq
<1> HIDE DEF q
<1>3. Older(q, w) = Ticked(q)
  BY <1>1, <1>2 DEF Older, Ticked
<1>4. Recent(Older(q, w), w) = Ticked(Recent(q, w - 1))
  BY <1>1, RecentOlder
<1>5. Recent(Older(s, w), w) = Ticked(Recent(s, w - 1))
  BY RecentOlder
<1>6. Recent(q, w - 1) = Recent(s, w - 1)
  BY RecentTwice DEF q
<1> QED
  BY <1>3, <1>4, <1>5, <1>6 DEF Recent, q

\* A step of the limiters is for the exports a step of the window, or none.
LEMMA ExportRefines ==
    ASSUME LimitsInv, [LimitsNext]_limitVars
    PROVE  [PerUser!WindowNext]_(PerUser!windowVars)
<1> DEFINE mine(u) == Recent(exports[u], ExportWindow)
<1>1. /\ exports \in [Users -> Ages(ExportWindow)] /\ exported \in [Users -> Answers]
      /\ ExportWindow \in Nat \ {0}
  BY LimitsAssumption DEF LimitsInv, LimitsTypeOK
<1>2. \A u \in Users : exports[u] \in Seq(0..ExportWindow) /\ exports[u] \in Seq(Nat)
  BY <1>1, Numbers DEF Ages
<1>3. ASSUME NEW u \in Users, Export(u) PROVE PerUser!Serve(u) \/ PerUser!Refuse(u)
  <2>1. CASE Len(mine(u)) < MaxExports[u]
    <3>1. /\ exports' = [exports EXCEPT ![u] = Append(mine(u), 0)]
          /\ exported' = [exported EXCEPT ![u] = "served"]
      BY <1>3, <2>1 DEF Export
    <3>2. Recent(Append(mine(u), 0), ExportWindow) = Append(mine(u), 0)
      <4>1. ExportWindow \in 0..ExportWindow /\ 0 \in Nat
        BY <1>1
      <4>2. mine(u) \in Seq(Nat) /\ Recent(mine(u), ExportWindow) = mine(u)
        BY <1>1, <1>2, <4>1, RecentAges, RecentTwice
      <4> HIDE DEF mine
      <4> QED
        BY <1>1, <4>1, <4>2, YoungerAppend
    <3>3. [x \in Users |-> Recent(exports'[x], ExportWindow)]
            = [[x \in Users |-> mine(x)] EXCEPT ![u] = Append(mine(u), 0)]
      <4>1. \A x \in Users : exports'[x] = IF x = u THEN Append(mine(u), 0) ELSE exports[x]
        BY <1>1, <3>1
      <4>2. \A x \in Users : Recent(exports'[x], ExportWindow)
                                = IF x = u THEN Append(mine(u), 0) ELSE mine(x)
        BY <4>1, <3>2
      <4> HIDE DEF mine
      <4> QED
        BY <4>2
    <3> QED
      BY <2>1, <3>1, <3>3 DEF PerUser!Serve
  <2>2. CASE ~(Len(mine(u)) < MaxExports[u])
    <3>1. exports' = exports /\ exported' = [exported EXCEPT ![u] = "refused"]
      BY <1>3, <2>2 DEF Export
    <3>2. Len(mine(u)) >= MaxExports[u]
      BY <1>2, <2>2, LimitsAssumption, RecentAges, LenProperties
    <3> QED
      BY <3>1, <3>2 DEF PerUser!Refuse
  <2> QED
    BY <2>1, <2>2
<1>4. ASSUME Tick PROVE PerUser!Pass
  <2>1. ASSUME NEW u \in Users
        PROVE  Recent(exports'[u], ExportWindow) = PerUser!InWindow(mine(u))
    <3>1. exports'[u] = Older(exports[u], ExportWindow)
      BY <1>4 DEF Tick
    <3>2. Kept(Ticked(mine(u)), 0..ExportWindow - 1) = Recent(exports'[u], ExportWindow)
      BY <1>1, <1>2, <3>1, WindowPasses
    <3> QED
      BY <3>2, SameKept DEF PerUser!InWindow, Ticked
  <2>2. exported' = [u \in Users |-> "none"]
    BY <1>4 DEF Tick
  <2>3. [u \in Users |-> Recent(exports'[u], ExportWindow)]
          = [u \in Users |-> PerUser!InWindow([x \in Users |-> mine(x)][u])]
    BY <2>1
  <2> QED
    BY <2>2, <2>3 DEF PerUser!Pass
<1>5. ASSUME exports' = exports, exported' = exported
      PROVE  UNCHANGED PerUser!windowVars
  BY <1>5 DEF PerUser!windowVars
<1>6. ASSUME NEW c \in Clients, NEW e \in Endpoints, Request(c, e)
      PROVE  exports' = exports /\ exported' = exported
  BY <1>6 DEF Request
<1>7. UNCHANGED limitVars => exports' = exports /\ exported' = exported
  BY DEF limitVars
<1> QED
  BY <1>3, <1>4, <1>5, <1>6, <1>7 DEF LimitsNext, PerUser!WindowNext

LEMMA RequestRefines ==
    ASSUME LimitsInv, [LimitsNext]_limitVars
    PROVE  [PerEndpoint!WindowNext]_(PerEndpoint!windowVars)
<1>1. /\ \A c \in Clients, e \in Endpoints : Shared(c, e)
      /\ served \in [Clients -> [Endpoints -> Ages(Window)]]
      /\ answered \in [Clients -> [Endpoints -> Answers]]
      /\ Used \subseteq Clients \X Endpoints
  BY DEF LimitsInv, LimitsTypeOK, Used
<1>2. ASSUME NEW c \in Clients, NEW e \in Endpoints, Request(c, e)
      PROVE  \E k \in Used : PerEndpoint!Serve(k) \/ PerEndpoint!Refuse(k)
  <2> DEFINE q == served[c][e]
  <2>1. PICK cleaned \in Cleanups, mine \in {Recent(deque[c], Window)} :
          /\ mine = Recent(cleaned[c], Window) /\ mine = Recent(deque[c], Window)
          /\ e \in Uses[c] /\ UNCHANGED <<exports, exported>>
          /\ \/ /\ Len(mine) < Limits[e]
                /\ deque' = [cleaned EXCEPT ![c] = Append(mine, 0)]
                /\ served' = [served EXCEPT ![c][e] = Append(served[c][e], 0)]
                /\ answered' = [answered EXCEPT ![c][e] = "served"]
             \/ /\ ~(Len(mine) < Limits[e])
                /\ deque' = [cleaned EXCEPT ![c] = mine]
                /\ served' = served
                /\ answered' = [answered EXCEPT ![c][e] = "refused"]
    BY <1>2, Requested
  <2>2. <<c, e>> \in Used /\ <<c, e>>[1] = c /\ <<c, e>>[2] = e
    BY <2>1 DEF Used
  <2>3. /\ Len(q) \in Nat /\ Len(mine) \in Nat /\ Limits[e] \in Nat
        /\ Len(q) <= Len(mine) /\ (Uses[c] = {e} => q = mine)
    <3>1. /\ q \in Seq(0..Window - 1) /\ Younger(q, Window) <= Younger(deque[c], Window)
          /\ (Uses[c] = {e} => q = mine)
      BY <1>1, <2>1, Windows DEF Shared
    <3>2. Younger(q, Window) = Len(q) /\ Younger(deque[c], Window) = Len(mine)
      BY <2>1, <3>1, AllInWindow DEF Younger
    <3>3. deque[c] \in Seq(0..CleanupAge)
      BY DEF LimitsInv, LimitsTypeOK, Ages
    <3>4. mine \in Seq(0..CleanupAge)
      <4>1. mine = Recent(deque[c], Window)
        BY <2>1
      <4> QED
        BY <3>3, <4>1, RecentAges
    <3> QED
      BY <3>1, <3>2, <3>4, LenProperties, LimitsAssumption
  <2>4. CASE Len(mine) < Limits[e]
    <3>1. /\ served' = [served EXCEPT ![c][e] = Append(q, 0)]
          /\ answered' = [answered EXCEPT ![c][e] = "served"]
      BY <2>1, <2>4
    <3>2. \A k \in Used : /\ served'[k[1]][k[2]] =
                               IF k = <<c, e>> THEN Append(q, 0) ELSE served[k[1]][k[2]]
                          /\ answered'[k[1]][k[2]] =
                               IF k = <<c, e>> THEN "served" ELSE answered[k[1]][k[2]]
      BY <1>1, <3>1
    <3>3. /\ [k \in Used |-> served'[k[1]][k[2]]]
               = [[k \in Used |-> served[k[1]][k[2]]] EXCEPT ![<<c, e>>] = Append(@, 0)]
          /\ [k \in Used |-> answered'[k[1]][k[2]]]
               = [[k \in Used |-> answered[k[1]][k[2]]] EXCEPT ![<<c, e>>] = "served"]
      BY <2>2, <3>2
    <3>4. Len(q) < Limits[e]
      BY <2>3, <2>4
    <3>5. PerEndpoint!Serve(<<c, e>>)
      BY <2>2, <3>3, <3>4 DEF PerEndpoint!Serve
    <3> QED
      BY <2>2, <3>5
  <2>5. CASE ~(Len(mine) < Limits[e])
    <3>1. served' = served /\ answered' = [answered EXCEPT ![c][e] = "refused"]
      BY <2>1, <2>5
    <3>2. \A k \in Used : answered'[k[1]][k[2]] =
                             IF k = <<c, e>> THEN "refused" ELSE answered[k[1]][k[2]]
      BY <1>1, <3>1
    <3>3. [k \in Used |-> answered'[k[1]][k[2]]]
            = [[k \in Used |-> answered[k[1]][k[2]]] EXCEPT ![<<c, e>>] = "refused"]
      BY <2>2, <3>2
    <3>4. Uses[c] = {e} => Len(q) >= Limits[e]
      BY <2>3, <2>5
    <3>5. PerEndpoint!Refuse(<<c, e>>)
      BY <2>2, <3>1, <3>3, <3>4 DEF PerEndpoint!Refuse
    <3> QED
      BY <2>2, <3>5
  <2> QED
    BY <2>4, <2>5
<1>3. ASSUME Tick PROVE PerEndpoint!Pass
  <2>1. ASSUME NEW c \in Clients, NEW e \in Endpoints
        PROVE  served'[c][e] = PerEndpoint!InWindow(served[c][e])
    <3>1. served'[c][e] = Recent(Older(served[c][e], Window), Window)
      BY <1>3 DEF Tick
    <3>2. served[c][e] \in Seq(0..Window - 1) /\ Window - 1 \in Int /\ Window \in Nat \ {0}
      BY <1>1, Windows DEF Shared
    <3>3. served[c][e] \in Seq(Nat) /\ Recent(served[c][e], Window) = served[c][e]
      BY <3>2, Numbers, AllInWindow
    <3>4. Kept(Ticked(served[c][e]), 0..Window - 1) = served'[c][e]
      BY <3>1, <3>2, <3>3, WindowPasses
    <3> QED
      BY <3>4, SameKept DEF PerEndpoint!InWindow, Ticked
  <2>2. \A k \in Used : /\ served'[k[1]][k[2]] = PerEndpoint!InWindow(served[k[1]][k[2]])
                        /\ answered'[k[1]][k[2]] = "none"
    BY <1>1, <1>3, <2>1 DEF Tick
  <2>3. /\ [k \in Used |-> served'[k[1]][k[2]]]
             = [k \in Used |->
                  PerEndpoint!InWindow([x \in Used |-> served[x[1]][x[2]]][k])]
        /\ [k \in Used |-> answered'[k[1]][k[2]]] = [k \in Used |-> "none"]
    BY <2>2
  <2> QED
    BY <2>3 DEF PerEndpoint!Pass
<1>4. ASSUME served' = served, answered' = answered
      PROVE  UNCHANGED PerEndpoint!windowVars
  BY <1>4 DEF PerEndpoint!windowVars
<1>5. ASSUME NEW u \in Users, Export(u)
      PROVE  served' = served /\ answered' = answered
  BY <1>5 DEF Export
<1>6. UNCHANGED limitVars => served' = served /\ answered' = answered
  BY DEF limitVars
<1> QED
  BY <1>2, <1>3, <1>4, <1>5, <1>6 DEF LimitsNext, PerEndpoint!WindowNext

LEMMA RefinesInitially ==
    ASSUME LimitsInit PROVE PerEndpoint!WindowInit /\ PerUser!WindowInit
<1>1. \A w : Recent(<<>>, w) = <<>>
  BY KeptEmpty DEF Recent
<1>2. \A k \in Used : k[1] \in Clients /\ k[2] \in Endpoints
  BY DEF Used
<1>3. PerEndpoint!WindowInit
  BY <1>2 DEF LimitsInit, PerEndpoint!WindowInit
<1>4. PerUser!WindowInit
  BY <1>1 DEF LimitsInit, PerUser!WindowInit
<1> QED
  BY <1>3, <1>4

-----------------------------------------------------------------------------
(* Theorems                                                                *)

\* The lists of both limiters, the calls served and the answers keep their
\* types; a client's list is oldest first, which RateLimiter.is_allowed relies
\* on when it pops from the left.
THEOREM LimitsTypeCorrect == LimitsSpec => []LimitsTypeOK
<1>1. LimitsInv => LimitsTypeOK
  BY DEF LimitsInv
<1> QED
  BY <1>1, LimitsInvariant, PTL

\* RateLimitMiddleware implements a sliding window for every endpoint a client
\* uses, although one list serves them all and the cleanup trims it at any
\* time: never more calls of an endpoint in a window than its limit, and no
\* refusal before the limit for a client that uses one endpoint only.
THEOREM RequestsImplementWindow == LimitsSpec => EndpointsAreLimited
<1>1. LimitsInit => PerEndpoint!WindowInit
  BY RefinesInitially
<1>2. LimitsInv /\ [LimitsNext]_limitVars
        => [PerEndpoint!WindowNext]_(PerEndpoint!windowVars)
  BY RequestRefines
<1> QED
  BY <1>1, <1>2, LimitsInvariant, PTL
     DEF LimitsSpec, EndpointsAreLimited, PerEndpoint!WindowSpec

\* ExportLimiter.check_export_limit implements a sliding window for every user,
\* although a refused export leaves the expired ones in the list.
THEOREM ExportsImplementWindow == LimitsSpec => ExportsAreLimited
<1>1. LimitsInit => PerUser!WindowInit
  BY RefinesInitially
<1>2. LimitsInv /\ [LimitsNext]_limitVars
        => [PerUser!WindowNext]_(PerUser!windowVars)
  BY ExportRefines
<1> QED
  BY <1>1, <1>2, LimitsInvariant, PTL
     DEF LimitsSpec, ExportsAreLimited, PerUser!WindowSpec

====
