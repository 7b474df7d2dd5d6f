---------------------------- MODULE AuthLockout ----------------------------
(***************************************************************************)
(* POST /auth/login and AuthLockoutManager for one identifier, the user    *)
(* name with the address it comes from.  A login checks the lock, waits    *)
(* for the database and only then counts: any number of logins can be in   *)
(* between.                                                                *)
(*                                                                         *)
(* Ages and remaining times instead of time stamps keep the state finite.  *)
(* The manager's cleanup, statistics and manual unlock have no caller.     *)
(***************************************************************************)
EXTENDS Naturals, Sequences, FiniteSets, FiniteSetsExt, Subsequences

CONSTANTS
    Logins,       \* requests that can be under way at the same time
    MaxAttempts, Window, Lockout,  \* LockoutConfig
    MaxFactor,    \* of the backoff
    MaxLockout,   \* 24 hours
    MaxCount      \* bound: locks counted; by then the backoff has reached its cap

ASSUME LockoutAssumption ==
    /\ IsFiniteSet(Logins)
    /\ MaxAttempts \in Nat \ {0} /\ Window \in Nat \ {0}
    /\ Lockout \in Nat /\ Lockout >= Window
    /\ MaxFactor \in Nat \ {0} /\ MaxLockout \in Nat /\ MaxLockout >= Lockout
    /\ MaxCount \in Nat \ {0} /\ 2 ^ MaxCount >= MaxFactor

VARIABLES
    login,     \* where each request is
    attempts,  \* ages of the failed attempts that count
    lock,      \* ticks until the lock ends; 0 when there is none
    count,     \* locks since the last success
    wrong,     \* history: ages of the wrong passwords since the last success
    lastLock   \* history: duration of the last lock since the last success

lockVars == <<login, attempts, lock, count, wrong, lastLock>>

LockTypeOK ==
    /\ login \in [Logins -> {"idle", "checked"}]
    /\ attempts \in Seq(0..Window - 1) /\ Len(attempts) < MaxAttempts
    /\ lock \in 0..MaxLockout /\ count \in 0..MaxCount
    /\ lock > 0 => count > 0
    /\ wrong \in Seq(0..Window - 1)
    /\ lastLock \in 0..MaxLockout

LockInit ==
    /\ login = [l \in Logins |-> "idle"]
    /\ attempts = <<>> /\ wrong = <<>>
    /\ lock = 0 /\ count = 0 /\ lastLock = 0

-----------------------------------------------------------------------------
Done(l) == login[l] = "checked" /\ login' = [login EXCEPT ![l] = "idle"]

\* Mutant: the lock is not looked at.
CheckUnlocked(l) ==
    /\ login[l] = "idle" /\ login' = [login EXCEPT ![l] = "checked"]
    /\ UNCHANGED <<attempts, lock, count, wrong, lastLock>>

\* While the lock lasts the request is answered 429 and nothing changes.
Check(l) ==
    /\ login[l] = "idle" /\ lock = 0
    /\ login' = [login EXCEPT ![l] = "checked"]
    /\ UNCHANGED <<attempts, lock, count, wrong, lastLock>>

\* The n-th repeated lock.
Duration(n) == Min({Lockout * Min({2 ^ n, MaxFactor}), MaxLockout})

\* Mutant: the attempt that reaches the limit does not lock yet.
LocksLater(n) == n > MaxAttempts
Locks(n) == n >= MaxAttempts

LockAccount ==
    /\ lock' = Duration(count) /\ lastLock' = Duration(count)
    /\ count' = Min({count + 1, MaxCount})
    /\ attempts' = <<>>

\* Mutant: the entry of the lock is written for every failure.
OnlyCountedUnlocking ==
    /\ attempts' = Append(attempts, 0) /\ lock' = 0
    /\ UNCHANGED <<count, lastLock>>

OnlyCounted ==
    /\ attempts' = Append(attempts, 0)
    /\ UNCHANGED <<lock, count, lastLock>>

\* No such user, or not the password.  Also when the account has been locked
\* since the check: the attempt counts towards the next lock.
WrongPassword(l) ==
    /\ Done(l)
    /\ wrong' = Append(wrong, 0)
    /\ IF Locks(Len(attempts) + 1) THEN LockAccount ELSE OnlyCounted

\* All counters are reset, a lock set since the check included.
RightPassword(l) ==
    /\ Done(l)
    /\ attempts' = <<>> /\ lock' = 0 /\ count' = 0
    /\ wrong' = <<>> /\ lastLock' = 0

\* The password is right, but the user inactive or a second factor due; or the
\* request fails: nothing is counted or reset.
NotCounted(l) ==
    Done(l) /\ UNCHANGED <<attempts, lock, count, wrong, lastLock>>

Older(ages) == Kept([i \in DOMAIN ages |-> ages[i] + 1], 0..Window - 1)

\* Mutant: with the lock its count is forgotten.
TickForgetting ==
    /\ attempts' = Older(attempts) /\ wrong' = Older(wrong)
    /\ lock' = IF lock > 0 THEN lock - 1 ELSE 0
    /\ count' = IF lock = 1 THEN 0 ELSE count
    /\ UNCHANGED <<login, lastLock>>

\* Time passes.  Attempts that leave the window are removed by the next one,
\* an ended lock by the next check; until then nothing looks at them.
Tick ==
    /\ attempts' = Older(attempts) /\ wrong' = Older(wrong)
    /\ lock' = IF lock > 0 THEN lock - 1 ELSE 0
    /\ UNCHANGED <<login, count, lastLock>>

LoginStep(l) ==
    Check(l) \/ WrongPassword(l) \/ RightPassword(l) \/ NotCounted(l)

LockNext == Tick \/ \E l \in Logins : LoginStep(l)

LockSpec == LockInit /\ [][LockNext]_lockVars

\* Time passes and the database answers.
LockFairSpec ==
    /\ LockSpec /\ WF_lockVars(Tick)
    /\ \A l \in Logins : WF_lockVars(login[l] = "checked" /\ LoginStep(l))

-----------------------------------------------------------------------------
(* Safety                                                                  *)

\* However many logins are checked before one of them locks the account, and
\* whenever the database answers them: without a success in between no more
\* passwords are tried in a window than the limit and the others then under
\* way.
TriesBounded == Len(wrong) <= MaxAttempts + Cardinality(Logins) - 1

\* A lock is never shortened: it runs its time out unless a login succeeds.
LockRunsItsTime ==
    [][lock' < lock => lock' = lock - 1 \/ lastLock' = 0]_lockVars

\* A repeated lock is longer than the one before or as long as locks get, also
\* when that one has ended or has not, until a login succeeds.
LocksEscalate ==
    [][lock' > lock => lock' > lastLock \/ lock' = Duration(MaxCount)]_lockVars

(* Liveness                                                                *)

\* A lock ends, although logins that were checked before it may extend it.
LockEnds == lock > 0 ~> lock = 0
=============================================================================
