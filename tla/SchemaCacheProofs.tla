-------------------------- MODULE SchemaCacheProofs -------------------------
(***************************************************************************)
(* What the schema cache promises, proved for any keys, instances and      *)
(* requests and for every SchemaTTL, Lag and bound.                        *)
(***************************************************************************)
EXTENDS SchemaCache, TLAPS

-----------------------------------------------------------------------------
(* Types                                                                   *)

LEMMA InFlightType ==
    ASSUME TypeOK, NEW r \in Requests, req[r].pc # "idle"
    PROVE  req[r] \in InFlight
BY DEF TypeOK, Idle

LEMMA NoEntryType == NoEntry \in Entry
BY DEF NoEntry, Entry

LEMMA AccessedType ==
    ASSUME TypeOK, NEW r \in Requests, req[r].pc # "idle",
           NEW step \in {"fill", "set"}, NEW v \in Revisions \cup {0},
           Accessed(r, step, v)
    PROVE  /\ req' \in [Requests -> InFlight \cup {Idle}]
           /\ req'[r].pc = step
           /\ req'[r].rev = v
           /\ req'[r].at = clock
           /\ req'[r].key = req[r].key
           /\ \A x \in Requests \ {r} : req'[x] = req[x]
<1> DEFINE next == [req[r] EXCEPT !.pc = step, !.rev = v, !.at = clock]
<1>1. req[r] \in InFlight
  BY InFlightType
<1>2. next \in InFlight
  BY <1>1 DEF InFlight, TypeOK
<1>3. req' = [req EXCEPT ![r] = next]
  BY DEF Accessed
<1>4. /\ next.pc = step /\ next.rev = v /\ next.at = clock
      /\ next.key = req[r].key
  BY <1>1 DEF InFlight
<1> HIDE DEF next
<1> QED
  BY <1>2, <1>3, <1>4 DEF TypeOK

LEMMA PutType ==
    ASSUME TypeOK, NEW r \in Requests, req[r].pc # "idle", Put(r)
    PROVE  /\ cache' \in [Instances -> [Keys -> Entry]]
           /\ \A i \in Instances, k \in Keys :
                cache'[i][k] = IF i = req[r].inst /\ k = req[r].key
                               THEN Filled(req[r].rev) ELSE cache[i][k]
<1>1. req[r] \in InFlight
  BY InFlightType
<1>2. Filled(req[r].rev) \in Entry
  BY <1>1, CacheAssumption DEF Filled, Entry, InFlight, TypeOK
<1>3. req[r].inst \in Instances /\ req[r].key \in Keys
  BY <1>1 DEF InFlight
<1> HIDE DEF Filled
<1> QED
  BY <1>2, <1>3 DEF Put, TypeOK

LEMMA WriteType ==
    ASSUME TypeOK, NEW k \in Keys, Write(k)
    PROVE  /\ store' \in [Keys -> Revisions \cup {0}]
           /\ replacedAt' \in [Keys -> [Revisions -> Nat]]
           /\ store[k] + 1 \in Revisions
           /\ \A j \in Keys :
                store'[j] = IF j = k THEN store[j] + 1 ELSE store[j]
           /\ \A j \in Keys, v \in Revisions :
                replacedAt'[j][v] = IF j = k /\ v = store[k]
                                    THEN clock ELSE replacedAt[j][v]
<1>1. store[k] \in Revisions \cup {0} /\ store[k] < MaxUploads
  BY DEF TypeOK, Write
<1>2. store[k] + 1 \in Revisions
  BY <1>1, CacheAssumption DEF Revisions
<1>3. /\ store' \in [Keys -> Revisions \cup {0}]
      /\ \A j \in Keys : store'[j] = IF j = k THEN store[j] + 1 ELSE store[j]
  BY <1>2 DEF Write, TypeOK
<1>4. CASE store[k] = 0
  BY <1>2, <1>3, <1>4 DEF Write, TypeOK, Revisions
<1>5. CASE store[k] # 0
  <2>1. replacedAt' = [replacedAt EXCEPT ![k][store[k]] = clock]
    BY <1>5 DEF Write
  <2>2. store[k] \in Revisions
    BY <1>1, <1>5
  <2> QED
    BY <1>2, <1>3, <2>1, <2>2 DEF TypeOK
<1> QED
  BY <1>4, <1>5

-----------------------------------------------------------------------------
(* The invariant                                                           *)

\* A revision that has been in the store and, if it is no longer there, was
\* replaced at t or later.
ReplacedSince(k, v, t) ==
    /\ v \in Revisions
    /\ v <= store[k]
    /\ v # store[k] => t <= replacedAt[k][v]

\* What is still to be cached was read or written at most Lag ago, and was
\* current then.
RequestInv(r) ==
    Pending(r) =>
        /\ req[r].at <= clock
        /\ clock <= req[r].at + Lag
        /\ ReplacedSince(req[r].key, req[r].rev, req[r].at)

\* An entry was cached at most Lag after its revision was current.
EntryInv(i, k) ==
    LET e == cache[i][k]
    IN  e = NoEntry \/ /\ e.expiresAt <= clock + SchemaTTL
                       /\ e.rev \in Revisions
                       /\ e.rev <= store[k]
                       /\ e.rev # store[k] =>
                            e.expiresAt <= replacedAt[k][e.rev] + SchemaTTL + Lag

IInv ==
    /\ TypeOK
    /\ \A k \in Keys, v \in Revisions : replacedAt[k][v] <= clock
    /\ \A r \in Requests : RequestInv(r)
    /\ \A i \in Instances, k \in Keys : EntryInv(i, k)

-----------------------------------------------------------------------------
(* Steps                                                                   *)

\* Requests that finish, or start, have nothing to cache.
LEMMA QuietStep ==
    ASSUME IInv, NEW r \in Requests,
           UNCHANGED <<clock, store, cache, replacedAt>>,
           req' \in [Requests -> InFlight \cup {Idle}],
           \A x \in Requests \ {r} : req'[x] = req[x],
           req'[r].pc \notin {"fill", "set"}
    PROVE  IInv'
<1>1. ASSUME NEW x \in Requests PROVE RequestInv(x)'
  BY <1>1 DEF IInv, RequestInv, Pending, ReplacedSince
<1> QED
  BY <1>1 DEF IInv, EntryInv, TypeOK

LEMMA FinishWrites ==
    ASSUME TypeOK, NEW r \in Requests, Finish(r)
    PROVE  /\ req' \in [Requests -> InFlight \cup {Idle}]
           /\ \A x \in Requests \ {r} : req'[x] = req[x]
           /\ req'[r].pc = "idle"
BY DEF Finish, TypeOK, Idle

LEMMA LoadStep == ASSUME IInv, NEW r \in Requests, Load(r) PROVE IInv'
<1>1. /\ req[r] \in InFlight
      /\ req[r].key \in Keys
      /\ store[req[r].key] \in Revisions
      /\ UNCHANGED <<clock, store, cache, replacedAt>>
  BY InFlightType DEF Load, IInv, InFlight, TypeOK
<1>2. /\ req' \in [Requests -> InFlight \cup {Idle}]
      /\ req'[r].rev = store[req[r].key]
      /\ req'[r].at = clock
      /\ req'[r].key = req[r].key
      /\ \A x \in Requests \ {r} : req'[x] = req[x]
  BY <1>1, AccessedType DEF Load, IInv
<1>3. ASSUME NEW x \in Requests PROVE RequestInv(x)'
  <2>1. CASE x = r
    BY <1>1, <1>2, <2>1, CacheAssumption
       DEF RequestInv, ReplacedSince, IInv, TypeOK, Revisions
  <2>2. CASE x # r
    BY <1>1, <1>2, <2>2 DEF IInv, RequestInv, Pending, ReplacedSince
  <2> QED
    BY <2>1, <2>2
<1> QED
  BY <1>1, <1>2, <1>3 DEF IInv, EntryInv, TypeOK

\* What enters the cache was current at most Lag ago.
LEMMA PutStep ==
    ASSUME IInv, NEW r \in Requests, Pending(r), Put(r), Finish(r),
           UNCHANGED <<clock, store, replacedAt>>
    PROVE  IInv'
<1>1. req[r] \in InFlight
  BY InFlightType DEF IInv, Pending
<1>2. ASSUME NEW x \in Requests PROVE RequestInv(x)'
  BY FinishWrites DEF IInv, RequestInv, Pending, ReplacedSince
<1>3. ASSUME NEW i \in Instances, NEW k \in Keys PROVE EntryInv(i, k)'
  <2>1. CASE i = req[r].inst /\ k = req[r].key
    <3>1. /\ cache'[i][k].rev = req[r].rev
          /\ cache'[i][k].expiresAt = clock + SchemaTTL
      <4>1. TypeOK /\ req[r].pc # "idle"
        BY DEF Pending, IInv
      <4>2. cache'[i][k] = Filled(req[r].rev)
        BY <2>1, <4>1, PutType
      <4> QED
        BY <4>2 DEF Filled
    <3>2. /\ ReplacedSince(k, req[r].rev, req[r].at)
          /\ clock <= req[r].at + Lag
      BY <2>1 DEF IInv, RequestInv
    <3>3. /\ clock \in Nat
          /\ req[r].at \in Nat
          /\ req[r].rev \in Revisions /\ replacedAt[k][req[r].rev] \in Nat
      BY <1>1, <3>2 DEF IInv, TypeOK, InFlight, ReplacedSince
    <3> QED
      BY <3>1, <3>2, <3>3, CacheAssumption DEF EntryInv, ReplacedSince
  <2>2. CASE ~ (i = req[r].inst /\ k = req[r].key)
    <3>1. cache'[i][k] = cache[i][k]
      BY <2>2, PutType DEF Pending, IInv
    <3> QED
      BY <3>1 DEF IInv, EntryInv
  <2> QED
    BY <2>1, <2>2
<1>4. TypeOK'
  BY PutType, FinishWrites DEF Pending, IInv, TypeOK
<1> QED
  BY <1>2, <1>3, <1>4 DEF IInv

\* An upload replaces what was current until now.
LEMMA WriteKeeps ==
    ASSUME IInv, NEW k \in Keys, Write(k), UNCHANGED clock
    PROVE  /\ \A j \in Keys, v \in Revisions : replacedAt'[j][v] <= clock
           /\ \A j \in Keys, v \in Revisions, t \in Nat :
                t <= clock /\ ReplacedSince(j, v, t) => ReplacedSince(j, v, t)'
           /\ \A i \in Instances, j \in Keys :
                cache'[i][j] = cache[i][j] => EntryInv(i, j)'
<1>1. /\ \A j \in Keys :
           /\ store[j] \in Nat
           /\ store'[j] = IF j = k THEN store[j] + 1 ELSE store[j]
      /\ \A j \in Keys, v \in Revisions :
           /\ replacedAt[j][v] \in Nat
           /\ replacedAt[j][v] <= clock
           /\ replacedAt'[j][v] = IF j = k /\ v = store[k]
                                  THEN clock ELSE replacedAt[j][v]
      /\ clock \in Nat
      /\ Revisions \subseteq Nat
  <2>1. TypeOK
    BY DEF IInv
  <2>2. /\ \A j \in Keys :
             store'[j] = IF j = k THEN store[j] + 1 ELSE store[j]
        /\ \A j \in Keys, v \in Revisions :
             replacedAt'[j][v] = IF j = k /\ v = store[k]
                                 THEN clock ELSE replacedAt[j][v]
    BY <2>1, WriteType
  <2>3. Revisions \subseteq Nat
    BY DEF Revisions
  <2>4. /\ \A j \in Keys : store[j] \in Nat
        /\ \A j \in Keys, v \in Revisions :
             replacedAt[j][v] \in Nat /\ replacedAt[j][v] <= clock
        /\ clock \in Nat
    <3>1. \A j \in Keys : store[j] \in Nat
      BY <2>1 DEF TypeOK, Revisions
    <3>2. \A j \in Keys, v \in Revisions : replacedAt[j][v] \in Nat
      BY <2>1 DEF TypeOK
    <3>3. \A j \in Keys, v \in Revisions : replacedAt[j][v] <= clock
      BY DEF IInv
    <3>4. clock \in Nat
      BY <2>1 DEF TypeOK
    <3> QED
      BY <3>1, <3>2, <3>3, <3>4
  <2> QED
    BY <2>2, <2>3, <2>4
<1>2. ASSUME NEW j \in Keys, NEW v \in Revisions
      PROVE  replacedAt'[j][v] <= clock
  BY <1>1
<1>3. ASSUME NEW j \in Keys, NEW v \in Revisions, NEW t \in Nat,
             t <= clock, ReplacedSince(j, v, t)
      PROVE  ReplacedSince(j, v, t)'
  BY <1>1, <1>3 DEF ReplacedSince
<1>4. ASSUME NEW i \in Instances, NEW j \in Keys, cache'[i][j] = cache[i][j]
      PROVE  EntryInv(i, j)'
  <2>1. CASE cache[i][j] = NoEntry
    BY <1>4, <2>1 DEF EntryInv
  <2>2. CASE cache[i][j] # NoEntry
    <3>1. cache[i][j] \in Entry /\ EntryInv(i, j)
      BY DEF IInv, TypeOK
    <3>2. cache[i][j].rev \in Revisions /\ cache[i][j].expiresAt \in Nat
      BY <2>2, <3>1 DEF EntryInv, Entry
    <3>3. CASE j = k /\ cache[i][j].rev = store[k]
      BY <1>1, <1>4, <2>2, <3>1, <3>2, <3>3, CacheAssumption DEF EntryInv
    <3>4. CASE ~ (j = k /\ cache[i][j].rev = store[k])
      <4>1. replacedAt'[j][cache[i][j].rev] = replacedAt[j][cache[i][j].rev]
        BY <1>1, <3>2, <3>4
      <4>2. cache[i][j].rev <= store'[j]
        <5>1. cache[i][j].rev <= store[j] /\ cache[i][j].rev \in Nat
          BY <1>1, <2>2, <3>1, <3>2 DEF EntryInv
        <5> QED
          BY <1>1, <5>1
      <4>3. cache[i][j].rev # store'[j] => cache[i][j].rev # store[j]
        BY <1>1, <2>2, <3>1, <3>2, <3>4 DEF EntryInv
      <4> QED
        BY <1>4, <2>2, <3>1, <4>1, <4>2, <4>3 DEF EntryInv
    <3> QED
      BY <3>3, <3>4
  <2> QED
    BY <2>1, <2>2
<1> QED
  BY <1>2, <1>3, <1>4

\* What Write keeps for the requests that wait to cache what they have.
LEMMA WriteKeepsRequests ==
    ASSUME IInv, NEW k \in Keys, Write(k), UNCHANGED clock,
           NEW x \in Requests, req'[x] = req[x]
    PROVE  RequestInv(x)'
<1> SUFFICES ASSUME Pending(x)
             PROVE  /\ req[x].at <= clock
                    /\ clock <= req[x].at + Lag
                    /\ ReplacedSince(req[x].key, req[x].rev, req[x].at)'
  BY DEF RequestInv, Pending, ReplacedSince
<1>1. req[x] \in InFlight
  BY InFlightType DEF Pending, IInv
<1>2. RequestInv(x)
  BY DEF IInv
<1>3. /\ req[x].key \in Keys
      /\ req[x].at \in Nat
      /\ req[x].rev \in Revisions
  BY <1>1, <1>2 DEF InFlight, RequestInv, ReplacedSince
<1> QED
  BY <1>2, <1>3, WriteKeeps DEF RequestInv

LEMMA SaveStoredStep ==
    ASSUME IInv, NEW r \in Requests, SaveStored(r) PROVE IInv'
<1>1. /\ req[r] \in InFlight
      /\ req[r].key \in Keys
      /\ TypeOK
      /\ req[r].pc # "idle"
      /\ Write(req[r].key)
      /\ UNCHANGED <<clock, cache>>
  BY InFlightType DEF SaveStored, IInv, InFlight
<1>2. store'[req[r].key] = store[req[r].key] + 1
      /\ store[req[r].key] + 1 \in Revisions
  BY <1>1, WriteType
<1>3. /\ req' \in [Requests -> InFlight \cup {Idle}]
      /\ req'[r].rev = store[req[r].key] + 1
      /\ req'[r].at = clock
      /\ req'[r].key = req[r].key
      /\ \A x \in Requests \ {r} : req'[x] = req[x]
  BY <1>1, <1>2, AccessedType DEF SaveStored
<1>4. ASSUME NEW x \in Requests PROVE RequestInv(x)'
  <2>1. CASE x = r
    BY <1>1, <1>2, <1>3, <2>1, CacheAssumption
       DEF RequestInv, ReplacedSince, TypeOK, Revisions
  <2>2. CASE x # r
    BY <1>1, <1>3, <2>2, WriteKeepsRequests
  <2> QED
    BY <2>1, <2>2
<1>5. TypeOK'
  BY <1>1, <1>3, WriteType DEF TypeOK
<1>6. /\ \A k \in Keys, v \in Revisions : replacedAt'[k][v] <= clock'
      /\ \A i \in Instances, k \in Keys : EntryInv(i, k)'
  BY <1>1, WriteKeeps
<1> QED
  BY <1>4, <1>5, <1>6 DEF IInv

LEMMA SaveReplyLostStep ==
    ASSUME IInv, NEW r \in Requests, SaveReplyLost(r) PROVE IInv'
<1>1. /\ req[r] \in InFlight
      /\ req[r].key \in Keys
      /\ TypeOK
      /\ Write(req[r].key)
      /\ UNCHANGED <<clock, cache>>
  BY InFlightType DEF SaveReplyLost, IInv, InFlight
<1>2. /\ req' \in [Requests -> InFlight \cup {Idle}]
      /\ \A x \in Requests \ {r} : req'[x] = req[x]
      /\ req'[r].pc = "idle"
  BY <1>1, FinishWrites DEF SaveReplyLost
<1>3. ASSUME NEW x \in Requests PROVE RequestInv(x)'
  <2>1. CASE x = r
    BY <1>2, <2>1 DEF RequestInv, Pending
  <2>2. CASE x # r
    BY <1>1, <1>2, <2>2, WriteKeepsRequests
  <2> QED
    BY <2>1, <2>2
<1>4. TypeOK'
  BY <1>1, <1>2, WriteType DEF TypeOK
<1>5. /\ \A k \in Keys, v \in Revisions : replacedAt'[k][v] <= clock'
      /\ \A i \in Instances, k \in Keys : EntryInv(i, k)'
  BY <1>1, WriteKeeps
<1> QED
  BY <1>3, <1>4, <1>5 DEF IInv

\* Time passes only while all that waits to be cached may still wait.
LEMMA TickStep == IInv /\ Tick => IInv'
<1> SUFFICES ASSUME IInv, Tick PROVE IInv'
  OBVIOUS
<1>1. clock \in Nat /\ clock' = clock + 1
      /\ UNCHANGED <<store, cache, req, replacedAt>>
  BY DEF Tick, IInv, TypeOK
<1>2. TypeOK'
  BY <1>1 DEF IInv, TypeOK
<1>3. ASSUME NEW k \in Keys, NEW v \in Revisions
      PROVE  replacedAt[k][v] <= clock'
  BY <1>1 DEF IInv, TypeOK
<1>4. ASSUME NEW r \in Requests PROVE RequestInv(r)'
  <2> SUFFICES ASSUME Pending(r)
               PROVE  /\ req[r].at <= clock'
                      /\ clock' <= req[r].at + Lag
                      /\ ReplacedSince(req[r].key, req[r].rev, req[r].at)
    BY <1>1 DEF RequestInv, Pending, ReplacedSince
  <2>1. req[r].at \in Nat
    BY InFlightType DEF Pending, IInv, InFlight
  <2>2. clock < req[r].at + Lag
    BY DEF Tick
  <2> QED
    BY <1>1, <2>1, <2>2, CacheAssumption DEF IInv, RequestInv
<1>5. ASSUME NEW i \in Instances, NEW k \in Keys PROVE EntryInv(i, k)'
  <2>1. cache[i][k].expiresAt \in Nat
    BY DEF IInv, TypeOK, Entry
  <2> QED
    BY <1>1, <2>1, CacheAssumption DEF IInv, EntryInv
<1> QED
  BY <1>1, <1>2, <1>3, <1>4, <1>5 DEF IInv

LEMMA RestartStep ==
    ASSUME IInv, NEW i \in Instances, Restart(i) PROVE IInv'
<1>1. /\ UNCHANGED <<clock, store, replacedAt>>
      /\ \A r \in Requests : req'[r] = req[r] \/ req'[r] = Idle
  BY DEF Restart
<1>2. \A j \in Instances, k \in Keys :
        cache'[j][k] = cache[j][k] \/ cache'[j][k] = NoEntry
  BY DEF Restart, IInv, TypeOK
<1>3. TypeOK'
  BY NoEntryType DEF Restart, IInv, TypeOK
<1>4. ASSUME NEW r \in Requests PROVE RequestInv(r)'
  BY <1>1 DEF IInv, RequestInv, Pending, ReplacedSince, Idle
<1>5. ASSUME NEW j \in Instances, NEW k \in Keys PROVE EntryInv(j, k)'
  BY <1>1, <1>2 DEF IInv, EntryInv
<1> QED
  BY <1>1, <1>3, <1>4, <1>5 DEF IInv

LEMMA ReceiveStep ==
    ASSUME IInv, NEW r \in Requests, NEW step \in {"get", "save"},
           NEW i \in Instances, NEW k \in Keys, Receive(r, step, i, k)
    PROVE  IInv'
<1> DEFINE next == [pc |-> step, inst |-> i, key |-> k, rev |-> 0, at |-> 0]
<1>1. next \in InFlight /\ next.pc = step
  BY DEF InFlight
<1>2. req' = [req EXCEPT ![r] = next]
  BY DEF Receive
<1> HIDE DEF next
<1>3. /\ req' \in [Requests -> InFlight \cup {Idle}]
      /\ \A x \in Requests \ {r} : req'[x] = req[x]
      /\ req'[r].pc \notin {"fill", "set"}
  BY <1>1, <1>2 DEF IInv, TypeOK
<1> QED
  BY <1>3, QuietStep DEF Receive

LEMMA GetMissStep == ASSUME IInv, NEW r \in Requests, GetMiss(r) PROVE IInv'
<1> DEFINE next == [req[r] EXCEPT !.pc = "load"]
<1>1. next \in InFlight /\ next.pc = "load"
  BY InFlightType DEF GetMiss, IInv, InFlight
<1>2. req' = [req EXCEPT ![r] = next]
  BY DEF GetMiss
<1> HIDE DEF next
<1>3. /\ req' \in [Requests -> InFlight \cup {Idle}]
      /\ \A x \in Requests \ {r} : req'[x] = req[x]
      /\ req'[r].pc \notin {"fill", "set"}
  BY <1>1, <1>2 DEF IInv, TypeOK
<1> QED
  BY <1>3, QuietStep DEF GetMiss

LEMMA FinishStep ==
    ASSUME IInv, NEW r \in Requests, Finish(r),
           UNCHANGED <<clock, store, cache, replacedAt>>
    PROVE  IInv'
<1>1. TypeOK
  BY DEF IInv
<1> QED
  BY <1>1, FinishWrites, QuietStep

-----------------------------------------------------------------------------
(* Theorems                                                                *)

LEMMA InvInitially == Init => IInv
<1> SUFFICES ASSUME Init PROVE IInv
  OBVIOUS
<1>1. TypeOK
  BY NoEntryType DEF Init, TypeOK
<1>2. \A r \in Requests : RequestInv(r)
  BY DEF Init, RequestInv, Pending, Idle
<1>3. \A i \in Instances, k \in Keys : EntryInv(i, k)
  BY DEF Init, EntryInv
<1> QED
  BY <1>1, <1>2, <1>3 DEF Init, IInv

LEMMA InvPreserved == IInv /\ [Next]_vars => IInv'
<1> SUFFICES ASSUME IInv, [Next]_vars PROVE IInv'
  OBVIOUS
<1>1. CASE Tick
  BY <1>1, TickStep
<1>2. ASSUME NEW i \in Instances, Restart(i) PROVE IInv'
  BY <1>2, RestartStep
<1>3. ASSUME NEW r \in Requests, NEW step \in {"get", "save"},
             NEW i \in Instances, NEW k \in Keys, Receive(r, step, i, k)
      PROVE  IInv'
  BY <1>3, ReceiveStep
<1>4. ASSUME NEW r \in Requests,
             GetHit(r) \/ LoadFailed(r) \/ SaveFailed(r)
      PROVE  IInv'
  BY <1>4, FinishStep DEF GetHit, LoadFailed, SaveFailed
<1>5. ASSUME NEW r \in Requests, Fill(r) \/ Set(r) PROVE IInv'
  BY <1>5, PutStep DEF Fill, Set, Pending
<1>6. ASSUME NEW r \in Requests,
             GetMiss(r) \/ Load(r) \/ SaveStored(r) \/ SaveReplyLost(r)
      PROVE  IInv'
  BY <1>6, GetMissStep, LoadStep, SaveStoredStep, SaveReplyLostStep
<1>7. CASE UNCHANGED vars
  BY <1>7
     DEF vars, IInv, TypeOK, RequestInv, Pending, ReplacedSince, EntryInv
<1> QED
  BY <1>1, <1>2, <1>3, <1>4, <1>5, <1>6, <1>7 DEF Next

LEMMA Inductive == Spec => []IInv
BY InvInitially, InvPreserved, PTL DEF Spec

\* The states of the schema cache keep their types.
THEOREM TypeCorrect == Spec => []TypeOK
<1>1. IInv => TypeOK
  BY DEF IInv
<1> QED
  BY <1>1, Inductive, PTL

\* A replaced schema is served for less than SchemaTTL + Lag, by any number of
\* instances and under any overlap of Gets and Saves (cache.go:45-53).
THEOREM StalenessIsBounded == Spec => []StalenessBound
<1>1. IInv => StalenessBound
  <2> SUFFICES ASSUME IInv, NEW i \in Instances, NEW k \in Keys,
                      Fresh(cache[i][k]), cache[i][k].rev # store[k]
               PROVE  clock < replacedAt[k][cache[i][k].rev] + SchemaTTL + Lag
    BY DEF StalenessBound
  <2>1. cache[i][k] \in Entry /\ clock \in Nat
    BY DEF IInv, TypeOK
  <2>2. cache[i][k] # NoEntry
    BY <2>1 DEF Fresh, NoEntry
  <2>3. /\ cache[i][k].rev \in Revisions
        /\ cache[i][k].expiresAt
             <= replacedAt[k][cache[i][k].rev] + SchemaTTL + Lag
    BY <2>2 DEF IInv, EntryInv
  <2>4. replacedAt[k][cache[i][k].rev] \in Nat
    BY <2>3 DEF IInv, TypeOK
  <2> QED
    BY <2>1, <2>3, <2>4, CacheAssumption DEF Fresh, Entry
<1> QED
  BY <1>1, Inductive, PTL

\* Only schemas that have been in the store are ever served from a cache
\* (cache.go:46-48).
THEOREM CachedWasStored == Spec => []OnlyStoredSchemas
<1>1. IInv => OnlyStoredSchemas
  <2> SUFFICES ASSUME IInv, NEW i \in Instances, NEW k \in Keys,
                      cache[i][k] # NoEntry
               PROVE  cache[i][k].rev \in 1 .. store[k]
    BY DEF OnlyStoredSchemas
  <2>1. cache[i][k].rev \in Revisions /\ cache[i][k].rev <= store[k]
    BY DEF IInv, EntryInv
  <2>2. store[k] \in Revisions \cup {0}
    BY DEF IInv, TypeOK
  <2> QED
    BY <2>1, <2>2 DEF Revisions
<1> QED
  BY <1>1, Inductive, PTL

=============================================================================
