----------------------------- MODULE RateLimits -----------------------------
(***************************************************************************)
(* The two limiters of the API: RateLimitMiddleware, which keeps one list  *)
(* of calls per client for all endpoints, and ExportLimiter, which counts  *)
(* the exports of a user.  Both are shown to implement SlidingWindow.      *)
(*                                                                         *)
(* Ages instead of time stamps keep the state finite without a last tick.  *)
(***************************************************************************)
EXTENDS Naturals, Sequences, FiniteSets, Subsequences

CONSTANTS
    Clients, Endpoints,
    Uses,          \* the endpoints a client calls
    Limits,        \* calls in a window, by endpoint
    Window,        \* of every endpoint that has a route and is not skipped
    CleanupAge,    \* cleanup forgets calls of this age
    Users,
    MaxExports,    \* get_max_exports_per_hour
    ExportWindow

ASSUME LimitsAssumption ==
    /\ Uses \in [Clients -> SUBSET Endpoints]
    /\ Limits \in [Endpoints -> Nat \ {0}]
    /\ MaxExports \in [Users -> Nat]
    /\ Window \in Nat \ {0} /\ ExportWindow \in Nat \ {0}
    /\ CleanupAge \in Nat /\ CleanupAge >= Window

VARIABLES
    deque,     \* per client: ages of the calls the limiter remembers
    exports,   \* per user: ages of the exports remembered
    served,    \* history: ages of the calls served in the window, by endpoint
    answered,  \* how the last call of this tick was answered
    exported   \* how the last export of this tick was answered

limitVars == <<deque, exports, served, answered, exported>>

Ages(horizon) == Seq(0..horizon)
Answers == {"none", "served", "refused"}

LimitsTypeOK ==
    /\ deque \in [Clients -> Ages(CleanupAge)]
    /\ exports \in [Users -> Ages(ExportWindow)]
    /\ served \in [Clients -> [Endpoints -> Ages(Window)]]
    /\ answered \in [Clients -> [Endpoints -> Answers]]
    /\ exported \in [Users -> Answers]
    \* Oldest first, which is what popping from the left relies on.
    /\ \A c \in Clients : \A i, j \in DOMAIN deque[c] :
          i < j => deque[c][i] >= deque[c][j]

LimitsInit ==
    /\ deque = [c \in Clients |-> <<>>]
    /\ exports = [u \in Users |-> <<>>]
    /\ served = [c \in Clients |-> [e \in Endpoints |-> <<>>]]
    /\ answered = [c \in Clients |-> [e \in Endpoints |-> "none"]]
    /\ exported = [u \in Users |-> "none"]

-----------------------------------------------------------------------------
Recent(ages, window) == Kept(ages, 0..window - 1)

\* On the way of a call the cleanup, due every five minutes, visits everybody.
Cleanups == {deque, [c \in Clients |-> Recent(deque[c], CleanupAge)]}

\* Mutant: the list is limited as if the newest call were not in it yet.
AllowedOneMore(c, e, mine) == Len(mine) <= Limits[e]

\* The calls of all endpoints count against the limit of this one.
Allowed(c, e, mine) == Len(mine) < Limits[e]

\* Mutant: the newest call comes first.
RememberedFirst(mine) == <<0>> \o mine
Remembered(mine) == Append(mine, 0)

\* RateLimitMiddleware.dispatch with is_allowed.  A refused call is not
\* remembered.
Request(c, e) ==
    /\ e \in Uses[c]
    /\ \E cleaned \in Cleanups :
          LET mine == Recent(cleaned[c], Window)
          IN  IF Allowed(c, e, mine)
              THEN /\ deque' = [cleaned EXCEPT ![c] = Remembered(mine)]
                   /\ served' = [served EXCEPT ![c][e] = Append(@, 0)]
                   /\ answered' = [answered EXCEPT ![c][e] = "served"]
              ELSE /\ deque' = [cleaned EXCEPT ![c] = mine]
                   /\ answered' = [answered EXCEPT ![c][e] = "refused"]
                   /\ UNCHANGED served
    /\ UNCHANGED <<exports, exported>>

\* Mutant: exports outside the window are not removed.
ExportUntrimmed(u) ==
    /\ IF Len(exports[u]) < MaxExports[u]
       THEN /\ exports' = [exports EXCEPT ![u] = Append(@, 0)]
            /\ exported' = [exported EXCEPT ![u] = "served"]
       ELSE /\ exported' = [exported EXCEPT ![u] = "refused"]
            /\ UNCHANGED exports
    /\ UNCHANGED <<deque, served, answered>>

\* ExportLimiter.check_export_limit: the trimmed list is kept only when the
\* export is allowed.
Export(u) ==
    /\ LET mine == Recent(exports[u], ExportWindow)
       IN  IF Len(mine) < MaxExports[u]
           THEN /\ exports' = [exports EXCEPT ![u] = Append(mine, 0)]
                /\ exported' = [exported EXCEPT ![u] = "served"]
           ELSE /\ exported' = [exported EXCEPT ![u] = "refused"]
                /\ UNCHANGED exports
    /\ UNCHANGED <<deque, served, answered>>

\* An age past every window is as good as any other.
Older(ages, horizon) ==
    [i \in DOMAIN ages |-> IF ages[i] < horizon THEN ages[i] + 1 ELSE horizon]

\* One tick.  What it does to deque and exports is only the passing of time.
Tick ==
    /\ deque' = [c \in Clients |-> Older(deque[c], CleanupAge)]
    /\ exports' = [u \in Users |-> Older(exports[u], ExportWindow)]
    /\ served' = [c \in Clients |-> [e \in Endpoints |->
                    Recent(Older(served[c][e], Window), Window)]]
    /\ answered' = [c \in Clients |-> [e \in Endpoints |-> "none"]]
    /\ exported' = [u \in Users |-> "none"]

LimitsNext ==
    \/ \E c \in Clients, e \in Endpoints : Request(c, e)
    \/ \E u \in Users : Export(u)
    \/ Tick

LimitsSpec == LimitsInit /\ [][LimitsNext]_limitVars

-----------------------------------------------------------------------------
(* Refinement                                                              *)

Used == {k \in Clients \X Endpoints : k[2] \in Uses[k[1]]}

PerEndpoint ==
    INSTANCE SlidingWindow WITH
        Keys <- Used,
        calls <- [k \in Used |-> served[k[1]][k[2]]],
        last <- [k \in Used |-> answered[k[1]][k[2]]],
        Limit <- [k \in Used |-> Limits[k[2]]],
        Strict <- {k \in Used : Uses[k[1]] = {k[2]}}

\* One list for all endpoints still keeps every endpoint within its own limit
\* in every window; and a client that calls only one endpoint is refused only
\* when it has used that limit up.
EndpointsAreLimited == PerEndpoint!WindowSpec

PerUser ==
    INSTANCE SlidingWindow WITH
        Keys <- Users,
        calls <- [u \in Users |-> Recent(exports[u], ExportWindow)],
        last <- exported, Limit <- MaxExports, Window <- ExportWindow,
        Strict <- Users

\* The exports of a user are exactly a sliding window, although the list is
\* trimmed only now and then.
ExportsAreLimited == PerUser!WindowSpec

-----------------------------------------------------------------------------
(* What a comment says                                                     *)

\* middleware/rate_limiting.py:84: ten uploads per minute; the call that is
\* refused comes after that many of its kind.
RefusedOverItsLimit ==
    \A c \in Clients, e \in Endpoints :
        answered[c][e] = "refused" => Len(served[c][e]) >= Limits[e]
=============================================================================
