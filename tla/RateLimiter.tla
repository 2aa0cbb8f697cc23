---------------------------- MODULE RateLimiter -----------------------------
(***************************************************************************)
(* The sliding-window limiter in front of POST /auth/device                *)
(* (pkg/middleware/security.go, RateLimiter).  Allow and one pass of the   *)
(* cleanup goroutine each run under the limiter's mutex, so each is one    *)
(* step; what is hard is that both throw stamps away, on their own         *)
(* schedules, while the limit is about every window there ever was.        *)
(***************************************************************************)
EXTENDS Integers, FiniteSets

CONSTANTS
    Keys,        \* client addresses
    Calls,       \* the calls of Allow, each with an identity of its own
    Window,      \* AuthRateLimitWindow
    Limit,       \* AuthRateLimitMax
    MaxTime      \* bound: the clock stops here

ASSUME LimiterAssumption ==
    /\ Window \in Nat \ {0}
    /\ Limit \in Nat
    /\ MaxTime \in Nat

VARIABLES
    clock,       \* time.Now()
    requests,    \* the stamps kept for each key, none if the key is not in the map
    tracked,     \* the keys of the map
    running,     \* whether the cleanup goroutine still runs
    granted      \* history: every stamp that was ever granted

vars == <<clock, requests, tracked, running, granted>>

\* The time at which a call was granted.  The identity of the call tells apart
\* the equal times that the code's slices may hold.
Stamp == [call : Calls, at : Nat]

TypeOK ==
    /\ clock \in Nat
    /\ requests \in [Keys -> SUBSET Stamp]
    /\ tracked \in SUBSET Keys
    /\ running \in BOOLEAN
    /\ granted \in [Keys -> SUBSET Stamp]

\* NewRateLimiter.
Init ==
    /\ clock = 0
    /\ requests = [k \in Keys |-> {}]
    /\ tracked = {}
    /\ running = TRUE
    /\ granted = [k \in Keys |-> {}]

\* Mutant: a stamp at the cutoff still counts.
ValidAtCutoff(S) == {s \in S : s.at >= clock - Window}

\* The stamps that are after the cutoff.
Valid(S) == {s \in S : s.at > clock - Window}

Fresh(c) == \A k \in Keys : \A s \in granted[k] : s.call # c

\* Mutant: one call too many.
GrantAtLimit(k, c) ==
    /\ Fresh(c)
    /\ Cardinality(Valid(requests[k])) <= Limit
    /\ LET stamp == [call |-> c, at |-> clock]
       IN  /\ requests' = [requests EXCEPT ![k] = Valid(@) \cup {stamp}]
           /\ granted' = [granted EXCEPT ![k] = @ \cup {stamp}]
    /\ tracked' = tracked \cup {k}
    /\ UNCHANGED <<clock, running>>

Grant(k, c) ==
    /\ Fresh(c)
    /\ Cardinality(Valid(requests[k])) < Limit
    /\ LET stamp == [call |-> c, at |-> clock]
       IN  /\ requests' = [requests EXCEPT ![k] = Valid(@) \cup {stamp}]
           /\ granted' = [granted EXCEPT ![k] = @ \cup {stamp}]
    /\ tracked' = tracked \cup {k}
    /\ UNCHANGED <<clock, running>>

\* Mutant: refused calls are recorded like granted ones.
RefuseRecorded(k) ==
    /\ Cardinality(Valid(requests[k])) >= Limit
    /\ \E c \in Calls :
         requests' = [requests EXCEPT
                        ![k] = Valid(@) \cup {[call |-> c, at |-> clock]}]
    /\ tracked' = tracked \cup {k}
    /\ UNCHANGED <<clock, running, granted>>

Refuse(k) ==
    /\ Cardinality(Valid(requests[k])) >= Limit
    /\ requests' = [requests EXCEPT ![k] = Valid(@)]
    /\ tracked' = tracked \cup {k}
    /\ UNCHANGED <<clock, running, granted>>

Allow(k) == (\E c \in Calls : Grant(k, c)) \/ Refuse(k)

\* Mutant: expired stamps are dropped but their keys stay.
CleanupKeepsKeys ==
    /\ running
    /\ requests' = [k \in Keys |-> Valid(requests[k])]
    /\ UNCHANGED <<clock, tracked, running, granted>>

\* One tick of the cleanup goroutine.
Cleanup ==
    /\ running
    /\ requests' = [k \in Keys |-> Valid(requests[k])]
    /\ tracked' = {k \in tracked : Valid(requests[k]) # {}}
    /\ UNCHANGED <<clock, running, granted>>

Close ==
    /\ running
    /\ running' = FALSE
    /\ UNCHANGED <<clock, requests, tracked, granted>>

Tick ==
    /\ clock < MaxTime
    /\ clock' = clock + 1
    /\ UNCHANGED <<requests, tracked, running, granted>>

Next ==
    \/ Tick
    \/ Cleanup
    \/ Close
    \/ \E k \in Keys : Allow(k)

Spec == Init /\ [][Next]_vars

\* The ticker of the cleanup goroutine fires until Close.
FairSpec == Spec /\ WF_vars(Cleanup)

-----------------------------------------------------------------------------
(* Properties                                                              *)

Within(S, from, to) == {s \in S : from < s.at /\ s.at <= to}

\* In no window that ever was, whether or not the limiter still remembers it,
\* were more than Limit calls of a key granted (security.go:219).
WindowLimit ==
    \A k \in Keys : \A t \in 0 .. clock :
        Cardinality(Within(granted[k], t - Window, t)) <= Limit

\* What Allow and cleanup forget never changes an answer: the stamps that
\* count are exactly those of the whole history in the current window
\* (security.go:210-217 and 240-253).
PruningIsInvisible ==
    \A k \in Keys :
        Valid(requests[k]) = Within(granted[k], clock - Window, clock)

\* No key ever holds more than Limit stamps, however often it is refused.
MemoryBound == \A k \in Keys : Cardinality(requests[k]) <= Limit

\* A key whose stamps have all expired leaves the map, unless it is used again
\* or the limiter is closed: the map does not grow with every address ever
\* seen (security.go:248-249).
IdleKeysAreForgotten ==
    \A k \in Keys :
        (k \in tracked /\ Valid(requests[k]) = {})
            ~> (k \notin tracked \/ Valid(requests[k]) # {} \/ ~ running)

=============================================================================
