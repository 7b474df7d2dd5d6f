---------------------------- MODULE SlidingWindow ----------------------------
(***************************************************************************)
(* What a limit on calls in a sliding window promises.  Time is the age of *)
(* the calls served: a call of age Window has left the window.             *)
(***************************************************************************)
EXTENDS Naturals, Sequences, Subsequences

CONSTANTS
    Keys,    \* what has a window of its own
    Limit,   \* calls in a window, by key
    Window,
    Strict   \* keys whose calls are refused only when the limit is reached

VARIABLES
    calls,  \* per key: ages of the calls served within the window
    last    \* per key: how the last call of this tick was answered

windowVars == <<calls, last>>

WindowInit ==
    /\ calls = [k \in Keys |-> <<>>]
    /\ last = [k \in Keys |-> "none"]

Serve(k) ==
    /\ Len(calls[k]) < Limit[k]
    /\ calls' = [calls EXCEPT ![k] = Append(@, 0)]
    /\ last' = [last EXCEPT ![k] = "served"]

Refuse(k) ==
    /\ k \in Strict => Len(calls[k]) >= Limit[k]
    /\ last' = [last EXCEPT ![k] = "refused"]
    /\ UNCHANGED calls

InWindow(ages) == Kept([i \in DOMAIN ages |-> ages[i] + 1], 0..Window - 1)

Pass ==
    /\ calls' = [k \in Keys |-> InWindow(calls[k])]
    /\ last' = [k \in Keys |-> "none"]

WindowNext == Pass \/ \E k \in Keys : Serve(k) \/ Refuse(k)

WindowSpec == WindowInit /\ [][WindowNext]_windowVars
==============================================================================
