------------------------- MODULE RateLimiterProofs --------------------------
(***************************************************************************)
(* The limiter keeps its limit in every window, for any keys, any calls    *)
(* and every Window, Limit and MaxTime.                                    *)
(***************************************************************************)
EXTENDS RateLimiter, FiniteSetTheorems, TLAPS

LEMMA TypeStep == TypeOK /\ [Next]_vars => TypeOK'
<1> SUFFICES ASSUME TypeOK, [Next]_vars PROVE TypeOK'
  OBVIOUS
<1>1. CASE Tick
  BY <1>1 DEF TypeOK, Tick
<1>2. CASE Cleanup
  BY <1>2 DEF TypeOK, Cleanup, Valid
<1>3. CASE Close
  BY <1>3 DEF TypeOK, Close
<1>4. ASSUME NEW k \in Keys, NEW c \in Calls, Grant(k, c) PROVE TypeOK'
  <2>1. [call |-> c, at |-> clock] \in Stamp
    BY DEF TypeOK, Stamp
  <2> QED
    BY <1>4, <2>1 DEF TypeOK, Grant, Valid
<1>5. ASSUME NEW k \in Keys, Refuse(k) PROVE TypeOK'
  BY <1>5 DEF TypeOK, Refuse, Valid
<1>6. CASE UNCHANGED vars
  BY <1>6 DEF TypeOK, vars
<1> QED
  BY <1>1, <1>2, <1>3, <1>4, <1>5, <1>6 DEF Next, Allow

\* The limiter's state is well typed in every reachable state.
THEOREM TypeCorrect == Spec => []TypeOK
<1>1. Init => TypeOK
  BY DEF Init, TypeOK
<1> QED
  BY <1>1, TypeStep, PTL DEF Spec

-----------------------------------------------------------------------------
(* The inductive invariant                                                 *)

\* The stamps kept lie between those that still count and all there were.
KeyInv(k) ==
    /\ IsFiniteSet(granted[k])
    /\ requests[k] \subseteq granted[k]
    /\ Valid(granted[k]) \subseteq requests[k]
    /\ \A s \in granted[k] : s.at <= clock
    /\ Cardinality(requests[k]) <= Limit
    /\ \A t \in 0 .. clock :
         Cardinality(Within(granted[k], t - Window, t)) <= Limit

IInv == TypeOK /\ \A k \in Keys : KeyInv(k)

\* A subset of a finite set is finite and no larger.
LEMMA Smaller ==
    ASSUME NEW S, IsFiniteSet(S), NEW T, T \subseteq S
    PROVE  /\ IsFiniteSet(T)
           /\ Cardinality(T) \in Nat
           /\ Cardinality(S) \in Nat
           /\ Cardinality(T) <= Cardinality(S)
BY FS_Subset, FS_CardinalityType

LEMMA InitInv == Init => IInv
<1> SUFFICES ASSUME Init PROVE IInv
  OBVIOUS
<1>1. TypeOK
  BY DEF Init, TypeOK
<1>2. ASSUME NEW k \in Keys PROVE KeyInv(k)
  <2>1. granted[k] = {} /\ requests[k] = {}
    BY DEF Init
  <2>2. IsFiniteSet({}) /\ Cardinality({}) = 0
    BY FS_EmptySet
  <2>3. \A from, to : Within({}, from, to) = {}
    BY DEF Within
  <2> QED
    BY <2>1, <2>2, <2>3, LimiterAssumption DEF KeyInv, Valid
<1> QED
  BY <1>1, <1>2 DEF IInv

\* Throwing away expired stamps, and nothing else, keeps a key's invariant.
LEMMA PruneInv ==
    ASSUME IInv, NEW k \in Keys,
           clock' = clock, granted'[k] = granted[k],
           requests'[k] \in {requests[k], Valid(requests[k])}
    PROVE  KeyInv(k)'
<1>1. KeyInv(k) /\ TypeOK
  BY DEF IInv
<1>2. requests'[k] \subseteq requests[k]
  BY DEF Valid
<1>3. IsFiniteSet(requests[k])
  BY <1>1, Smaller DEF KeyInv
<1>4. Cardinality(requests'[k]) <= Limit
  BY <1>1, <1>2, <1>3, Smaller, LimiterAssumption DEF KeyInv
<1>5. Valid(granted[k])' = Valid(granted[k])
  BY DEF Valid
<1>6. Valid(granted[k]) \subseteq requests'[k]
  BY <1>1 DEF KeyInv, Valid
<1>7. \A from, to :
         Within(granted[k], from, to)' = Within(granted[k], from, to)
  BY DEF Within
<1> QED
  BY <1>1, <1>2, <1>4, <1>5, <1>6, <1>7 DEF KeyInv

\* A granted call is counted in the current window only, where there was room.
LEMMA GrantInv ==
    ASSUME IInv, NEW k \in Keys, NEW c \in Calls, Grant(k, c)
    PROVE  KeyInv(k)'
<1> DEFINE stamp == [call |-> c, at |-> clock]
           valid == Valid(requests[k])
<1> USE LimiterAssumption
<1>1. KeyInv(k) /\ TypeOK
  BY DEF IInv
<1>2. /\ clock' = clock /\ clock \in Nat
      /\ requests'[k] = valid \cup {stamp}
      /\ granted'[k] = granted[k] \cup {stamp}
      /\ Cardinality(valid) < Limit
      /\ stamp \notin granted[k]
  BY <1>1 DEF Grant, Fresh, TypeOK
<1>3. IsFiniteSet(requests[k]) /\ IsFiniteSet(valid)
  BY <1>1, Smaller DEF KeyInv, Valid
<1>4. /\ IsFiniteSet(valid \cup {stamp})
      /\ Cardinality(valid \cup {stamp}) <= Limit
  <2>1. Cardinality(valid) \in Nat
    BY <1>3, FS_CardinalityType
  <2>2. stamp \notin valid
    BY <1>1, <1>2 DEF KeyInv, Valid
  <2> HIDE DEF valid, stamp
  <2>3. /\ IsFiniteSet(valid \cup {stamp})
        /\ Cardinality(valid \cup {stamp}) = Cardinality(valid) + 1
    BY <1>3, <2>2, FS_AddElement
  <2> QED
    BY <1>2, <2>1, <2>3
<1>5. IsFiniteSet(granted'[k])
  BY <1>1, <1>2, FS_AddElement DEF KeyInv
<1>6. requests'[k] \subseteq granted'[k]
  BY <1>1, <1>2 DEF KeyInv, Valid
<1>7. Valid(granted[k])' \subseteq requests'[k]
  BY <1>1, <1>2 DEF KeyInv, Valid
<1>8. \A s \in granted'[k] : s.at <= clock'
  BY <1>1, <1>2 DEF KeyInv
<1>9. ASSUME NEW t \in 0 .. clock
      PROVE  Cardinality(Within(granted[k], t - Window, t)') <= Limit
  <2>1. CASE t = clock
    <3>1. Within(granted[k], t - Window, t)' = valid \cup {stamp}
      <4>1. stamp.at = clock
        OBVIOUS
      <4>2. \A s \in granted[k] : s.at \in Nat
        BY <1>1 DEF TypeOK, Stamp
      <4> QED
        BY <1>1, <1>2, <2>1, <4>1, <4>2 DEF Within, Valid, KeyInv
    <3> QED
      BY <1>4, <3>1
  <2>2. CASE t < clock
    <3>1. Within(granted[k], t - Window, t)' = Within(granted[k], t - Window, t)
      BY <1>2, <2>2 DEF Within
    <3> QED
      BY <1>1, <3>1 DEF KeyInv
  <2> QED
    BY <1>2, <2>1, <2>2
<1> QED
  BY <1>2, <1>4, <1>5, <1>6, <1>7, <1>8, <1>9 DEF KeyInv

\* The next window holds no stamp that the current one does not hold.
LEMMA TickInv ==
    ASSUME IInv, Tick, NEW k \in Keys
    PROVE  KeyInv(k)'
<1> USE LimiterAssumption
<1>1. KeyInv(k) /\ TypeOK
  BY DEF IInv
<1>2. clock \in Nat /\ clock' = clock + 1 /\ UNCHANGED <<requests, granted>>
  BY <1>1 DEF Tick, TypeOK
<1>3. \A s \in granted[k] : s.at \in Nat /\ s.at <= clock
  BY <1>1 DEF TypeOK, Stamp, KeyInv
<1>4. Valid(granted[k])' \subseteq Valid(granted[k])
  BY <1>2, <1>3 DEF Valid
<1>5. ASSUME NEW t \in 0 .. clock + 1
      PROVE  Cardinality(Within(granted[k], t - Window, t)) <= Limit
  <2>1. CASE t \in 0 .. clock
    BY <1>1, <2>1 DEF KeyInv
  <2>2. CASE t = clock + 1
    <3> DEFINE now  == Within(granted[k], clock - Window, clock)
               next == Within(granted[k], t - Window, t)
    <3>1. next \subseteq now
      BY <1>2, <1>3, <2>2 DEF Within
    <3>2. IsFiniteSet(now)
      BY <1>1, Smaller DEF KeyInv, Within
    <3>3. Cardinality(now) <= Limit
      BY <1>1, <1>2 DEF KeyInv
    <3> HIDE DEF now, next
    <3>4. Cardinality(next) <= Limit
      BY <3>1, <3>2, <3>3, Smaller
    <3> QED
      BY <3>4 DEF next
  <2> QED
    BY <1>2, <2>1, <2>2
<1>6. \A from, to :
         Within(granted[k], from, to)' = Within(granted[k], from, to)
  BY <1>2 DEF Within
<1>7. \A s \in granted[k] : s.at <= clock + 1
  BY <1>2, <1>3
<1> QED
  BY <1>1, <1>2, <1>4, <1>5, <1>6, <1>7 DEF KeyInv

LEMMA NextInv == IInv /\ [Next]_vars => IInv'
<1> SUFFICES ASSUME IInv, [Next]_vars PROVE IInv'
  OBVIOUS
<1>1. TypeOK /\ TypeOK'
  BY TypeStep DEF IInv
<1>2. ASSUME NEW k \in Keys PROVE KeyInv(k)'
  <2>1. CASE Tick
    BY <2>1, TickInv
  <2>2. CASE Cleanup
    BY <1>1, <2>2, PruneInv DEF Cleanup
  <2>3. ASSUME NEW j \in Keys, NEW c \in Calls, Grant(j, c) PROVE KeyInv(k)'
    <3>1. CASE j = k
      BY <2>3, <3>1, GrantInv
    <3>2. CASE j # k
      BY <1>1, <2>3, <3>2, PruneInv DEF Grant, TypeOK
    <3> QED
      BY <3>1, <3>2
  <2>4. ASSUME NEW j \in Keys, Refuse(j) PROVE KeyInv(k)'
    BY <1>1, <2>4, PruneInv DEF Refuse, TypeOK
  <2>5. CASE Close \/ UNCHANGED vars
    BY <2>5, PruneInv DEF Close, vars
  <2> QED
    BY <2>1, <2>2, <2>3, <2>4, <2>5 DEF Next, Allow
<1> QED
  BY <1>1, <1>2 DEF IInv

LEMMA Inductive == Spec => []IInv
BY InitInv, NextInv, PTL DEF Spec

-----------------------------------------------------------------------------
(* The theorems                                                            *)

\* At most Limit calls of a key are granted in any window of length Window.
THEOREM LimitHolds == Spec => []WindowLimit
<1>1. IInv => WindowLimit
  BY DEF IInv, KeyInv, WindowLimit
<1> QED
  BY <1>1, Inductive, PTL

\* Allow answers as if nothing had ever been forgotten.
THEOREM NothingForgottenCounts == Spec => []PruningIsInvisible
<1>1. IInv => PruningIsInvisible
  <2> SUFFICES ASSUME IInv, NEW k \in Keys
               PROVE  Valid(requests[k])
                        = Within(granted[k], clock - Window, clock)
    BY DEF PruningIsInvisible
  <2> QED
    BY DEF IInv, KeyInv, Valid, Within
<1> QED
  BY <1>1, Inductive, PTL

\* A key never costs more than Limit stamps.
THEOREM MemoryIsBounded == Spec => []MemoryBound
<1>1. IInv => MemoryBound
  BY DEF IInv, KeyInv, MemoryBound
<1> QED
  BY <1>1, Inductive, PTL

=============================================================================
