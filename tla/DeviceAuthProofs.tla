-------------------------- MODULE DeviceAuthProofs --------------------------
(***************************************************************************)
(* What DeviceAuth promises, proved for any number of devices, instances   *)
(* and requests and for every StatusTTL, TokenTTL, Lag and MaxTime.        *)
(***************************************************************************)
EXTENDS DeviceAuth, TLAPS

-----------------------------------------------------------------------------
(* Types                                                                   *)

\* Every step of a request keeps the slot well typed.
LEMMA InFlightType ==
    ASSUME TypeOK, NEW r \in Requests, req[r].pc # "idle"
    PROVE  req[r] \in InFlight
BY DEF TypeOK, Idle

LEMMA GotoType ==
    ASSUME TypeOK, NEW r \in Requests, req[r].pc # "idle",
           NEW step \in Steps, Goto(r, step)
    PROVE  req' \in [Requests -> InFlight \cup {Idle}]
<1> DEFINE next == [req[r] EXCEPT !.pc = step, !.at = 0]
<1>1. next \in InFlight
  BY InFlightType DEF InFlight
<1>2. req' = [req EXCEPT ![r] = next]
  BY DEF Goto
<1> QED
  BY <1>1, <1>2 DEF TypeOK

LEMMA ReadType ==
    ASSUME TypeOK, NEW r \in Requests, req[r].pc # "idle",
           NEW step \in Steps, NEW v \in BOOLEAN, Read(r, step, v)
    PROVE  req' \in [Requests -> InFlight \cup {Idle}]
<1> DEFINE next == [req[r] EXCEPT !.pc = step, !.at = clock, !.value = v]
<1>1. next \in InFlight
  BY InFlightType DEF InFlight, TypeOK
<1>2. req' = [req EXCEPT ![r] = next]
  BY DEF Read
<1> QED
  BY <1>1, <1>2 DEF TypeOK

LEMMA FinishType ==
    ASSUME TypeOK, NEW r \in Requests, Finish(r)
    PROVE  req' \in [Requests -> InFlight \cup {Idle}]
BY DEF Finish, TypeOK

\* Whatever the verdict, the request that gets it stays well typed.
LEMMA DecideType ==
    ASSUME TypeOK, NEW r \in Requests, req[r].pc # "idle", NEW v, Decide(r, v)
    PROVE  /\ req' \in [Requests -> InFlight \cup {Idle}]
           /\ lastAdmit' \in [Devices -> Nat]
<1>1. req' \in [Requests -> InFlight \cup {Idle}]
  BY GotoType, FinishType DEF Decide, AfterAdmit, Steps
<1>2. lastAdmit' \in [Devices -> Nat]
  BY DEF Decide, TypeOK
<1> QED
  BY <1>1, <1>2

LEMMA NoEntryType == NoEntry \in Entry
BY DEF NoEntry, Entry

LEMMA InitType == Init => TypeOK
BY NoEntryType DEF Init, TypeOK, Statuses

LEMMA NextType == TypeOK /\ [Next]_vars => TypeOK'
<1> SUFFICES ASSUME TypeOK, [Next]_vars PROVE TypeOK'
  OBVIOUS
<1> USE TimingAssumption
<1>1. CASE Tick
  BY <1>1 DEF Tick, TypeOK, history
<1>2. ASSUME NEW i \in Instances, Restart(i) PROVE TypeOK'
  BY <1>2, NoEntryType DEF Restart, TypeOK, history
<1>3. ASSUME NEW d \in Devices, Register(d) PROVE TypeOK'
  BY <1>3 DEF Register, TypeOK, history, Statuses
<1>4. ASSUME NEW r \in Requests, NEW op \in Ops, NEW i \in Instances,
             NEW d \in Devices, Receive(r, op, i, d)
      PROVE  TypeOK'
  BY <1>4 DEF Receive, TypeOK, history, InFlight, Ops, Steps, FirstStep
<1>5. ASSUME NEW r \in Requests, Middleware(r) PROVE TypeOK'
  <2>1. CASE VerifyToken(r)
    BY <2>1, GotoType, FinishType DEF VerifyToken, TypeOK, history, Steps
  <2>2. CASE StatusHit(r)
    BY <2>2, DecideType DEF StatusHit, TypeOK
  <2>3. CASE StatusMiss(r)
    BY <2>3, GotoType DEF StatusMiss, TypeOK, history, Steps
  <2>4. CASE LoadStatus(r)
    BY <2>4, ReadType DEF LoadStatus, RevokedAnswer, TypeOK, history, Steps
  <2>5. CASE LoadFault(r)
    <3>1. req' \in [Requests -> InFlight \cup {Idle}]
      BY <2>5, ReadType DEF LoadFault, Steps
    <3>2. clock + Lag + StatusTTL \in Nat
      BY DEF TypeOK
    <3> QED
      BY <2>5, <3>1, <3>2 DEF LoadFault, TypeOK
  <2>6. CASE StoreStatus(r)
    <3>1. req[r] \in InFlight
      BY <2>6, InFlightType DEF StoreStatus
    <3>2. Filled(req[r].value) \in Entry
      BY <3>1 DEF Filled, Entry, InFlight, TypeOK
    <3>3. cache' \in [Instances -> [Devices -> Entry]]
      BY <2>6, <3>1, <3>2 DEF StoreStatus, TypeOK, InFlight
    <3> QED
      BY <2>6, <3>3, DecideType DEF StoreStatus, TypeOK
  <2> QED
    BY <1>5, <2>1, <2>2, <2>3, <2>4, <2>5, <2>6 DEF Middleware
<1>6. ASSUME NEW r \in Requests, Issuing(r) PROVE TypeOK'
  <2>1. CASE LookupActive(r)
    BY <2>1, ReadType DEF LookupActive, TypeOK, history, Steps
  <2>2. CASE IssueToken(r)
    <3>1. req' \in [Requests -> InFlight \cup {Idle}]
      BY <2>2, GotoType DEF IssueToken, Steps
    <3>2. clock + TokenTTL \in Nat
      BY DEF TypeOK
    <3> QED
      BY <2>2, <3>1, <3>2 DEF IssueToken, TypeOK, history
  <2>3. CASE LookupRefused(r) \/ IssueFault(r) \/ TouchDevice(r)
    BY <2>3, FinishType
       DEF LookupRefused, IssueFault, TouchDevice, TypeOK, history
  <2> QED
    BY <1>6, <2>1, <2>2, <2>3 DEF Issuing
<1>7. ASSUME NEW r \in Requests, Revoking(r) PROVE TypeOK'
  <2>1. ASSUME RevokeStored(r) \/ RevokeReplyLost(r) PROVE TypeOK'
    <3>1. req' \in [Requests -> InFlight \cup {Idle}]
      BY <2>1, GotoType, FinishType DEF RevokeStored, RevokeReplyLost, Steps
    <3>2. /\ device' \in [Devices -> Statuses]
          /\ revokedAt' \in [Devices -> Nat]
      BY <2>1
         DEF RevokeStored, RevokeReplyLost, SetRevoked, TypeOK, Statuses
    <3> QED
      BY <2>1, <3>1, <3>2 DEF RevokeStored, RevokeReplyLost, TypeOK
  <2>2. CASE RevokeFailed(r)
    BY <2>2, FinishType DEF RevokeFailed, TypeOK, history
  <2>3. CASE Invalidate(r)
    BY <2>3, FinishType, NoEntryType DEF Invalidate, TypeOK
  <2> QED
    BY <1>7, <2>1, <2>2, <2>3 DEF Revoking
<1>8. CASE UNCHANGED vars
  BY <1>8 DEF vars, TypeOK
<1> QED
  BY <1>1, <1>2, <1>3, <1>4, <1>5, <1>6, <1>7, <1>8 DEF Next

\* The state of the instances, the store and the requests is well typed in
\* every reachable state.
THEOREM TypeCorrect == Spec => []TypeOK
BY InitType, NextType, PTL DEF Spec

-----------------------------------------------------------------------------
(* The inductive invariant                                                 *)

\* What a request in flight has read is at most Lag old, and it was read
\* before the revocation if it says otherwise.
RequestInv(r) ==
    LET q == req[r]
    IN  /\ q.pc # "idle" /\ q.late => device[q.dev] = "revoked"
        /\ q.pc \in {"status", "load", "store", "issue"} =>
             device[q.dev] # "absent"
        /\ q.pc \in {"status", "load", "store"} => tokenExp[q.dev] > 0
        /\ q.pc \in {"store", "issue"} => q.at <= clock /\ clock <= q.at + Lag
        /\ q.pc = "store" /\ ~ q.value /\ device[q.dev] = "revoked" =>
             q.at <= revokedAt[q.dev]
        /\ q.pc = "store" /\ q.value /\ device[q.dev] = "active" =>
             q.at + Lag + StatusTTL <= faultUntil[q.dev]
        /\ q.pc = "issue" => ~ q.late
        /\ q.pc = "issue" /\ device[q.dev] = "revoked" =>
             q.at <= revokedAt[q.dev]

DeviceInv(d) ==
    /\ lastAdmit[d] <= clock
    /\ tokenExp[d] <= clock + TokenTTL
    /\ device[d] = "absent" => tokenExp[d] = 0
    /\ device[d] = "revoked" =>
         /\ revokedAt[d] <= clock
         /\ lastAdmit[d] < revokedAt[d] + StatusTTL + Lag
         /\ tokenExp[d] <= revokedAt[d] + Lag + TokenTTL

\* A "not revoked" entry that survives a revocation was stored by a fill that
\* had read the store before, so at most Lag after the revocation.
EntryInv(i, d) ==
    LET e == cache[i][d]
    IN  /\ e.expiresAt <= clock + StatusTTL
        /\ e.value => device[d] # "absent"
        /\ device[d] = "revoked" /\ ~ e.value =>
             e.expiresAt <= revokedAt[d] + Lag + StatusTTL
        /\ device[d] = "active" /\ e.value => e.expiresAt <= faultUntil[d]

IInv ==
    /\ TypeOK
    /\ \A r \in Requests : RequestInv(r)
    /\ \A d \in Devices : DeviceInv(d)
    /\ \A i \in Instances, d \in Devices : EntryInv(i, d)

LEMMA InitInv == Init => IInv
<1> SUFFICES ASSUME Init PROVE IInv
  OBVIOUS
<1>1. \A r \in Requests : RequestInv(r)
  BY DEF Init, RequestInv, Idle
<1>2. \A d \in Devices : DeviceInv(d)
  <2> TAKE d \in Devices
  <2>1. device[d] = "absent" /\ lastAdmit[d] = 0 /\ tokenExp[d] = 0 /\ clock = 0
    BY DEF Init
  <2> QED
    BY <2>1, TimingAssumption DEF DeviceInv
<1>3. \A i \in Instances, d \in Devices : EntryInv(i, d)
  <2> TAKE i \in Instances, d \in Devices
  <2>1. /\ device[d] = "absent" /\ clock = 0
        /\ ~ cache[i][d].value /\ cache[i][d].expiresAt = 0
    BY DEF Init, NoEntry
  <2> QED
    BY <2>1, TimingAssumption DEF EntryInv
<1> QED
  BY <1>1, <1>2, <1>3, InitType DEF IInv

-----------------------------------------------------------------------------
(* What the steps of a request do to its slot                              *)

LEMMA GotoEffect ==
    ASSUME TypeOK, NEW r \in Requests, req[r].pc # "idle", NEW step,
           Goto(r, step)
    PROVE  /\ \A s \in Requests \ {r} : req'[s] = req[s]
           /\ req'[r].pc = step
           /\ req'[r].dev = req[r].dev
           /\ req'[r].late = req[r].late
<1>1. req[r] \in InFlight
  BY InFlightType
<1>2. req'[r] = [req[r] EXCEPT !.pc = step, !.at = 0]
  BY DEF Goto, TypeOK
<1>3. \A s \in Requests \ {r} : req'[s] = req[s]
  BY DEF Goto, TypeOK
<1> QED
  BY <1>1, <1>2, <1>3 DEF InFlight

LEMMA ReadEffect ==
    ASSUME TypeOK, NEW r \in Requests, req[r].pc # "idle", NEW step, NEW v,
           Read(r, step, v)
    PROVE  /\ \A s \in Requests \ {r} : req'[s] = req[s]
           /\ req'[r].pc = step
           /\ req'[r].at = clock
           /\ req'[r].value = v
           /\ req'[r].dev = req[r].dev
           /\ req'[r].late = req[r].late
<1>1. req[r] \in InFlight
  BY InFlightType
<1>2. req'[r] = [req[r] EXCEPT !.pc = step, !.at = clock, !.value = v]
  BY DEF Read, TypeOK
<1>3. \A s \in Requests \ {r} : req'[s] = req[s]
  BY DEF Read, TypeOK
<1> QED
  BY <1>1, <1>2, <1>3 DEF InFlight

LEMMA FinishEffect ==
    ASSUME TypeOK, NEW r \in Requests, Finish(r)
    PROVE  /\ \A s \in Requests \ {r} : req'[s] = req[s]
           /\ req'[r].pc = "idle"
BY DEF Finish, TypeOK, Idle

\* The verdict leaves a slot that is waiting for nothing it has read.
LEMMA DecideEffect ==
    ASSUME TypeOK, NEW r \in Requests, req[r].pc # "idle", NEW v, Decide(r, v)
    PROVE  /\ \A s \in Requests \ {r} : req'[s] = req[s]
           /\ req'[r].pc \in {"idle", "lookup", "touch"}
           /\ req'[r].pc # "idle" =>
                /\ req'[r].dev = req[r].dev
                /\ req'[r].late = req[r].late
           /\ lastAdmit' = IF v THEN lastAdmit
                           ELSE [lastAdmit EXCEPT ![req[r].dev] = clock]
BY GotoEffect, FinishEffect DEF Decide, AfterAdmit

\* A step that only moves one request keeps the invariant if that request
\* keeps its part of it.
LEMMA RequestStep ==
    ASSUME IInv, TypeOK', NEW r \in Requests,
           UNCHANGED <<clock, device, cache, tokenExp, history>>,
           \A s \in Requests \ {r} : req'[s] = req[s],
           RequestInv(r)'
    PROVE  IInv'
<1>1. \A s \in Requests : RequestInv(s)'
  <2> TAKE s \in Requests
  <2>1. CASE s = r
    BY <2>1
  <2>2. CASE s # r
    BY <2>2 DEF IInv, RequestInv, history
  <2> QED
    BY <2>1, <2>2
<1>2. \A d \in Devices : DeviceInv(d)'
  BY DEF IInv, DeviceInv, history
<1>3. \A i \in Instances, d \in Devices : EntryInv(i, d)'
  BY DEF IInv, EntryInv, history
<1> QED
  BY <1>1, <1>2, <1>3 DEF IInv

-----------------------------------------------------------------------------
(* The steps that matter, one lemma each                                   *)

LEMMA TickInv == IInv /\ TypeOK' /\ Tick => IInv'
<1> SUFFICES ASSUME IInv, TypeOK', Tick PROVE IInv'
  OBVIOUS
<1> USE TimingAssumption
<1>1. /\ TypeOK
      /\ clock' = clock + 1
      /\ UNCHANGED <<device, cache, tokenExp, req,
                     revokedAt, lastAdmit, faultUntil>>
  BY DEF Tick, history, IInv
<1>2. ASSUME NEW r \in Requests PROVE RequestInv(r)'
  <2>1. RequestInv(r)
    BY DEF IInv
  <2>2. CASE req[r].pc = "idle"
    BY <1>1, <2>2 DEF RequestInv
  <2>3. CASE req[r].pc # "idle"
    <3>1. req[r].at \in Nat
      BY <1>1, <2>3, InFlightType DEF InFlight
    <3>2. Pending(r) => clock + 1 <= req[r].at + Lag
      BY <1>1, <3>1 DEF Tick, TypeOK
    <3> QED
      BY <1>1, <2>1, <3>1, <3>2 DEF RequestInv, Pending, TypeOK
  <2> QED
    BY <2>2, <2>3
<1>3. ASSUME NEW d \in Devices PROVE DeviceInv(d)'
  <2>1. DeviceInv(d)
    BY DEF IInv
  <2> QED
    BY <1>1, <2>1 DEF DeviceInv, TypeOK
<1>4. ASSUME NEW i \in Instances, NEW d \in Devices PROVE EntryInv(i, d)'
  <2>1. EntryInv(i, d)
    BY DEF IInv
  <2>2. cache[i][d].expiresAt \in Nat
    BY <1>1 DEF TypeOK, Entry
  <2> QED
    BY <1>1, <2>1, <2>2 DEF EntryInv, TypeOK
<1> QED
  BY <1>2, <1>3, <1>4 DEF IInv

LEMMA RestartInv ==
    ASSUME IInv, TypeOK', NEW i \in Instances, Restart(i) PROVE IInv'
<1> USE TimingAssumption
<1>1. /\ TypeOK
      /\ UNCHANGED <<clock, device, tokenExp,
                     revokedAt, lastAdmit, faultUntil>>
  BY DEF Restart, history, IInv
<1>2. ASSUME NEW r \in Requests PROVE RequestInv(r)'
  <2>1. req'[r] = Idle \/ req'[r] = req[r]
    BY DEF Restart
  <2>2. CASE req'[r] = Idle
    BY <2>2 DEF RequestInv, Idle
  <2>3. CASE req'[r] = req[r]
    BY <1>1, <2>3 DEF IInv, RequestInv
  <2> QED
    BY <2>1, <2>2, <2>3
<1>3. ASSUME NEW d \in Devices PROVE DeviceInv(d)'
  BY <1>1 DEF IInv, DeviceInv
<1>4. ASSUME NEW j \in Instances, NEW d \in Devices PROVE EntryInv(j, d)'
  <2>1. EntryInv(j, d)
    BY DEF IInv
  <2>2. CASE j = i
    <3>1. cache'[j][d] = NoEntry
      BY <2>2, <1>1 DEF Restart, TypeOK
    <3>2. cache'[j][d].expiresAt = 0 /\ ~ cache'[j][d].value
      BY <3>1 DEF NoEntry
    <3> QED
      BY <1>1, <3>2 DEF EntryInv, TypeOK
  <2>3. CASE j # i
    <3>1. cache'[j] = cache[j]
      BY <2>3, <1>1 DEF Restart, TypeOK
    <3> QED
      BY <1>1, <2>1, <3>1 DEF EntryInv
  <2> QED
    BY <2>2, <2>3
<1> QED
  BY <1>2, <1>3, <1>4 DEF IInv

\* A device that is registered was absent: it has no token, and nothing about
\* it is cached as revoked or under way.
LEMMA RegisterInv ==
    ASSUME IInv, TypeOK', NEW d \in Devices, Register(d) PROVE IInv'
<1>1. /\ TypeOK
      /\ UNCHANGED <<clock, cache, tokenExp, req,
                     revokedAt, lastAdmit, faultUntil>>
      /\ device[d] = "absent"
      /\ device'[d] = "active"
      /\ \A x \in Devices \ {d} : device'[x] = device[x]
  BY DEF Register, history, IInv, TypeOK
<1>2. ASSUME NEW r \in Requests PROVE RequestInv(r)'
  <2>1. RequestInv(r)
    BY DEF IInv
  <2>2. CASE req[r].pc = "idle"
    BY <1>1, <2>2 DEF RequestInv
  <2>3. CASE req[r].pc # "idle"
    <3>1. req[r].dev \in Devices
      BY <1>1, <2>3, InFlightType DEF InFlight
    <3> QED
      BY <1>1, <2>1, <3>1 DEF RequestInv
  <2> QED
    BY <2>2, <2>3
<1>3. ASSUME NEW x \in Devices PROVE DeviceInv(x)'
  BY <1>1 DEF IInv, DeviceInv
<1>4. ASSUME NEW i \in Instances, NEW x \in Devices PROVE EntryInv(i, x)'
  BY <1>1 DEF IInv, EntryInv
<1> QED
  BY <1>2, <1>3, <1>4 DEF IInv

\* Steps that change nothing but the request that takes them.
LEMMA QuietInv ==
    ASSUME IInv, TypeOK', NEW r \in Requests,
           \/ VerifyToken(r) \/ StatusMiss(r) \/ LoadStatus(r)
           \/ LookupActive(r) \/ LookupRefused(r) \/ IssueFault(r)
           \/ TouchDevice(r) \/ RevokeFailed(r)
    PROVE  IInv'
<1> USE TimingAssumption
<1>1. TypeOK /\ RequestInv(r)
  BY DEF IInv
<1>2. req[r].pc # "idle"
  BY DEF VerifyToken, StatusMiss, LoadStatus, LookupActive, LookupRefused,
         IssueFault, TouchDevice, RevokeFailed
<1>3. UNCHANGED <<clock, device, cache, tokenExp, history>>
  BY DEF VerifyToken, StatusMiss, LoadStatus, LookupActive, LookupRefused,
         IssueFault, TouchDevice, RevokeFailed
<1>4. req[r].dev \in Devices
  BY <1>1, <1>2, InFlightType DEF InFlight
<1>5. CASE VerifyToken(r)
  <2>1. CASE Goto(r, "status")
    <3>1. 0 < tokenExp[req[r].dev]
      BY <1>1, <1>2, <1>4, <1>5, <2>1, GotoEffect
         DEF VerifyToken, TypeOK, Finish, Idle
    <3>2. device[req[r].dev] # "absent"
      BY <1>4, <3>1 DEF IInv, DeviceInv
    <3> QED
      BY <1>1, <1>2, <1>3, <2>1, <3>1, <3>2, GotoEffect, RequestStep
         DEF RequestInv, history
  <2>2. CASE Finish(r)
    BY <1>1, <1>3, <2>2, FinishEffect, RequestStep DEF RequestInv
  <2> QED
    BY <1>5, <2>1, <2>2 DEF VerifyToken
<1>6. CASE StatusMiss(r)
  BY <1>1, <1>2, <1>3, <1>6, GotoEffect, RequestStep
     DEF StatusMiss, RequestInv, history
<1>7. CASE LoadStatus(r)
  <2>1. /\ req'[r].pc = "store"
        /\ req'[r].at = clock
        /\ req'[r].value = (device[req[r].dev] # "active")
        /\ req'[r].dev = req[r].dev
        /\ req'[r].late = req[r].late
        /\ \A s \in Requests \ {r} : req'[s] = req[s]
    BY <1>1, <1>2, <1>7, ReadEffect DEF LoadStatus, RevokedAnswer
  <2>2. /\ device[req[r].dev] = "revoked" => req'[r].value
        /\ device[req[r].dev] = "active" => ~ req'[r].value
    BY <2>1
  <2>3. clock <= clock + Lag
    BY <1>1 DEF TypeOK
  <2>4. /\ clock' = clock /\ device' = device /\ tokenExp' = tokenExp
        /\ req[r].pc = "load"
    BY <1>3, <1>7 DEF LoadStatus
  <2>5. clock <= clock
    BY <1>1 DEF TypeOK
  <2>6. RequestInv(r)'
    BY <1>1, <2>1, <2>2, <2>3, <2>4, <2>5 DEF RequestInv
  <2> QED
    BY <1>3, <2>1, <2>6, RequestStep
<1>8. CASE LookupActive(r)
  <2>1. /\ req'[r].pc = "issue"
        /\ req'[r].at = clock
        /\ req'[r].dev = req[r].dev
        /\ req'[r].late = req[r].late
        /\ \A s \in Requests \ {r} : req'[s] = req[s]
    BY <1>1, <1>2, <1>8, ReadEffect DEF LookupActive
  <2>2. RequestInv(r)'
    BY <1>1, <1>3, <1>8, <2>1 DEF LookupActive, RequestInv, TypeOK, history
  <2> QED
    BY <1>3, <2>1, <2>2, RequestStep
<1>9. CASE Finish(r)
  BY <1>1, <1>3, <1>9, FinishEffect, RequestStep DEF RequestInv
<1> QED
  BY <1>5, <1>6, <1>7, <1>8, <1>9
     DEF LookupRefused, IssueFault, TouchDevice, RevokeFailed

LEMMA ReceiveInv ==
    ASSUME IInv, TypeOK', NEW r \in Requests, NEW op \in Ops,
           NEW i \in Instances, NEW d \in Devices, Receive(r, op, i, d)
    PROVE  IInv'
<1>1. TypeOK
  BY DEF IInv
<1>2. /\ UNCHANGED <<clock, device, cache, tokenExp, history>>
      /\ \A s \in Requests \ {r} : req'[s] = req[s]
      /\ req'[r].pc \in {"lookup", "revoke", "verify"}
      /\ req'[r].dev = d
      /\ req'[r].late = (device[d] = "revoked")
  BY <1>1 DEF Receive, FirstStep, TypeOK
<1>3. RequestInv(r)'
  BY <1>2 DEF RequestInv
<1> QED
  BY <1>2, <1>3, RequestStep

\* The verdict from a cache entry or from a load: the device is let in only if
\* the answer cannot have outlived the revocation by StatusTTL + Lag.
LEMMA AdmitInv ==
    ASSUME IInv, TypeOK', NEW r \in Requests, NEW v \in BOOLEAN,
           req[r].pc \in {"status", "store"}, Decide(r, v),
           UNCHANGED <<clock, device, tokenExp, revokedAt, faultUntil>>,
           ~ v /\ device[req[r].dev] = "revoked" =>
              clock < revokedAt[req[r].dev] + StatusTTL + Lag
    PROVE  /\ \A s \in Requests : RequestInv(s)'
           /\ \A d \in Devices : DeviceInv(d)'
<1> USE TimingAssumption
<1>1. TypeOK /\ RequestInv(r) /\ req[r] \in InFlight
  BY InFlightType DEF IInv
<1>2. /\ \A s \in Requests \ {r} : req'[s] = req[s]
      /\ req'[r].pc \in {"idle", "lookup", "touch"}
      /\ req'[r].pc # "idle" =>
           /\ req'[r].dev = req[r].dev
           /\ req'[r].late = req[r].late
      /\ lastAdmit' = IF v THEN lastAdmit
                      ELSE [lastAdmit EXCEPT ![req[r].dev] = clock]
  BY <1>1, DecideEffect
<1>3. ASSUME NEW s \in Requests PROVE RequestInv(s)'
  <2>1. CASE s = r
    BY <1>1, <1>2, <2>1 DEF RequestInv
  <2>2. CASE s # r
    BY <1>2, <2>2 DEF IInv, RequestInv
  <2> QED
    BY <2>1, <2>2
<1>4. ASSUME NEW d \in Devices PROVE DeviceInv(d)'
  <2>1. DeviceInv(d)
    BY DEF IInv
  <2>2. CASE lastAdmit'[d] = lastAdmit[d]
    BY <2>1, <2>2 DEF DeviceInv
  <2>3. CASE lastAdmit'[d] # lastAdmit[d]
    <3>1. ~ v /\ d = req[r].dev /\ lastAdmit'[d] = clock
      BY <1>1, <1>2, <2>3 DEF TypeOK
    <3> QED
      BY <1>1, <2>1, <3>1 DEF DeviceInv, TypeOK
  <2> QED
    BY <2>2, <2>3
<1> QED
  BY <1>3, <1>4

LEMMA StatusHitInv ==
    ASSUME IInv, TypeOK', NEW r \in Requests, StatusHit(r) PROVE IInv'
<1> USE TimingAssumption
<1> DEFINE q == req[r]
           e == cache[q.inst][q.dev]
<1>1. TypeOK /\ q \in InFlight
  BY InFlightType DEF IInv, StatusHit
<1>2. /\ q.pc = "status"
      /\ clock < e.expiresAt
      /\ Decide(r, e.value)
      /\ UNCHANGED <<clock, device, cache, tokenExp, revokedAt, faultUntil>>
  BY DEF StatusHit, Fresh
<1>3. e \in Entry /\ EntryInv(q.inst, q.dev)
  BY <1>1 DEF IInv, TypeOK, InFlight
<1>4. ~ e.value /\ device[q.dev] = "revoked" =>
         clock < revokedAt[q.dev] + StatusTTL + Lag
  BY <1>1, <1>2, <1>3 DEF EntryInv, Entry, TypeOK, InFlight
<1>5. e.value \in BOOLEAN
  BY <1>3 DEF Entry
<1>6. /\ \A s \in Requests : RequestInv(s)'
      /\ \A d \in Devices : DeviceInv(d)'
  BY <1>2, <1>4, <1>5, AdmitInv
<1>7. \A i \in Instances, d \in Devices : EntryInv(i, d)'
  BY <1>2 DEF IInv, EntryInv
<1> QED
  BY <1>6, <1>7 DEF IInv

\* The entry lives from the moment it is stored, so what is known of the
\* moment its value was read has to be carried over by Lag.
LEMMA StoreStatusInv ==
    ASSUME IInv, TypeOK', NEW r \in Requests, StoreStatus(r) PROVE IInv'
<1> USE TimingAssumption
<1> DEFINE q == req[r]
<1>1. TypeOK /\ q \in InFlight /\ RequestInv(r)
  BY InFlightType DEF IInv, StoreStatus
<1>2. /\ q.pc = "store"
      /\ cache' = [cache EXCEPT ![q.inst][q.dev] = Filled(q.value)]
      /\ Decide(r, q.value)
      /\ UNCHANGED <<clock, device, tokenExp, revokedAt, faultUntil>>
  BY DEF StoreStatus
<1>3. /\ q.dev \in Devices /\ q.inst \in Instances /\ q.at \in Nat
      /\ q.value \in BOOLEAN /\ clock \in Nat
      /\ revokedAt[q.dev] \in Nat /\ faultUntil[q.dev] \in Nat
  BY <1>1 DEF InFlight, TypeOK
<1>4. ~ q.value /\ device[q.dev] = "revoked" =>
         clock <= revokedAt[q.dev] + Lag
  BY <1>1, <1>2, <1>3 DEF RequestInv
<1>5. q.value /\ device[q.dev] = "active" =>
         clock + StatusTTL <= faultUntil[q.dev]
  BY <1>1, <1>2, <1>3 DEF RequestInv
<1>6. ~ q.value /\ device[q.dev] = "revoked" =>
         clock < revokedAt[q.dev] + StatusTTL + Lag
  BY <1>3, <1>4
<1>7. /\ \A s \in Requests : RequestInv(s)'
      /\ \A d \in Devices : DeviceInv(d)'
  BY <1>2, <1>3, <1>6, AdmitInv
<1>8. ASSUME NEW i \in Instances, NEW d \in Devices PROVE EntryInv(i, d)'
  <2>1. CASE i = q.inst /\ d = q.dev
    <3>1. /\ cache'[i][d].value = q.value
          /\ cache'[i][d].expiresAt = clock + StatusTTL
      BY <1>1, <1>2, <1>3, <2>1 DEF TypeOK, Filled
    <3>2. device[d] # "absent"
      BY <1>1, <1>2, <2>1 DEF RequestInv
    <3>3. ~ q.value /\ device[d] = "revoked" =>
             clock + StatusTTL <= revokedAt[d] + Lag + StatusTTL
      BY <1>3, <1>4, <2>1
    <3>4. clock + StatusTTL <= clock + StatusTTL
      BY <1>3
    <3> QED
      BY <1>2, <1>5, <2>1, <3>1, <3>2, <3>3, <3>4 DEF EntryInv
  <2>2. CASE ~ (i = q.inst /\ d = q.dev)
    <3>1. cache'[i][d] = cache[i][d]
      BY <1>1, <1>2, <1>3, <2>2 DEF TypeOK
    <3> QED
      BY <1>2, <3>1 DEF IInv, EntryInv
  <2> QED
    BY <2>1, <2>2
<1> QED
  BY <1>7, <1>8 DEF IInv

LEMMA LoadFaultInv ==
    ASSUME IInv, TypeOK', NEW r \in Requests, LoadFault(r) PROVE IInv'
<1> USE TimingAssumption
<1> DEFINE dev == req[r].dev
<1>1. TypeOK /\ RequestInv(r) /\ req[r] \in InFlight
  BY InFlightType DEF IInv, LoadFault
<1>2. /\ req[r].pc = "load"
      /\ faultUntil' = [faultUntil EXCEPT ![dev] = clock + Lag + StatusTTL]
      /\ UNCHANGED <<clock, device, cache, tokenExp, revokedAt, lastAdmit>>
  BY DEF LoadFault
<1>3. /\ req'[r].pc = "store" /\ req'[r].at = clock /\ req'[r].value
      /\ req'[r].dev = dev /\ req'[r].late = req[r].late
      /\ \A s \in Requests \ {r} : req'[s] = req[s]
  BY <1>1, ReadEffect DEF LoadFault
<1>4. dev \in Devices /\ clock \in Nat
  BY <1>1 DEF InFlight, TypeOK
<1>5. faultUntil'[dev] = clock + Lag + StatusTTL
  BY <1>1, <1>2, <1>4 DEF TypeOK
<1>6. \A d \in Devices \ {dev} : faultUntil'[d] = faultUntil[d]
  BY <1>1, <1>2 DEF TypeOK
<1>7. ASSUME NEW s \in Requests PROVE RequestInv(s)'
  <2>1. CASE s = r
    BY <1>1, <1>2, <1>3, <1>4, <1>5, <2>1 DEF RequestInv
  <2>2. CASE s # r
    <3>1. RequestInv(s) /\ req'[s] = req[s]
      BY <1>3, <2>2 DEF IInv
    <3>2. CASE req[s].pc = "store"
      <4>1. req[s] \in InFlight
        BY <1>1, <3>2, InFlightType
      <4>2. req[s].dev \in Devices /\ req[s].at \in Nat
        BY <4>1 DEF InFlight
      <4>3. req[s].at <= clock
        BY <3>1, <3>2 DEF RequestInv
      <4>4. req[s].value /\ device[req[s].dev] = "active" =>
               req[s].at + Lag + StatusTTL <= faultUntil'[req[s].dev]
        BY <1>4, <1>5, <1>6, <3>1, <3>2, <4>2, <4>3 DEF RequestInv
      <4> QED
        BY <1>2, <3>1, <3>2, <4>4 DEF RequestInv
    <3>3. CASE req[s].pc # "store"
      BY <1>2, <3>1, <3>3 DEF RequestInv
    <3> QED
      BY <3>2, <3>3
  <2> QED
    BY <2>1, <2>2
<1>8. \A d \in Devices : DeviceInv(d)'
  BY <1>2 DEF IInv, DeviceInv
<1>9. ASSUME NEW i \in Instances, NEW d \in Devices PROVE EntryInv(i, d)'
  <2>1. EntryInv(i, d)
    BY DEF IInv
  <2>2. CASE d = dev
    <3>1. cache[i][d].expiresAt \in Nat
      BY <1>1 DEF TypeOK, Entry
    <3>2. cache[i][d].expiresAt <= faultUntil'[d]
      BY <1>4, <1>5, <2>1, <2>2, <3>1 DEF EntryInv
    <3> QED
      BY <1>2, <2>1, <3>2 DEF EntryInv
  <2>3. CASE d # dev
    BY <1>2, <1>6, <2>1, <2>3 DEF EntryInv
  <2> QED
    BY <2>2, <2>3
<1> QED
  BY <1>7, <1>8, <1>9 DEF IInv

\* The lookup is at most Lag old, so a token issued after the revocation was
\* decided on at most Lag after it.
LEMMA IssueTokenInv ==
    ASSUME IInv, TypeOK', NEW r \in Requests, IssueToken(r) PROVE IInv'
<1> USE TimingAssumption
<1> DEFINE dev == req[r].dev
<1>1. TypeOK /\ RequestInv(r) /\ req[r] \in InFlight
  BY InFlightType DEF IInv, IssueToken
<1>2. /\ req[r].pc = "issue"
      /\ tokenExp' = [tokenExp EXCEPT ![dev] = clock + TokenTTL]
      /\ UNCHANGED <<clock, device, cache, revokedAt, lastAdmit, faultUntil>>
  BY DEF IssueToken, history
<1>3. /\ req'[r].pc = "touch" /\ req'[r].dev = dev
      /\ req'[r].late = req[r].late
      /\ \A s \in Requests \ {r} : req'[s] = req[s]
  BY <1>1, <1>2, GotoEffect DEF IssueToken
<1>4. dev \in Devices /\ clock \in Nat /\ req[r].at \in Nat
      /\ revokedAt[dev] \in Nat
  BY <1>1 DEF InFlight, TypeOK
<1>5. device[dev] = "revoked" => clock <= revokedAt[dev] + Lag
  BY <1>1, <1>2, <1>4 DEF RequestInv
<1>6. ASSUME NEW s \in Requests PROVE RequestInv(s)'
  <2>1. CASE s = r
    BY <1>1, <1>2, <1>3, <2>1 DEF RequestInv
  <2>2. CASE s # r
    <3>1. RequestInv(s) /\ req'[s] = req[s]
      BY <1>3, <2>2 DEF IInv
    <3>2. CASE req[s].pc = "idle"
      BY <1>2, <3>1, <3>2 DEF RequestInv
    <3>3. CASE req[s].pc # "idle"
      <4>1. req[s].dev \in Devices
        BY <1>1, <3>3, InFlightType DEF InFlight
      <4>2. tokenExp[req[s].dev] > 0 => tokenExp'[req[s].dev] > 0
        BY <1>1, <1>2, <1>4, <4>1 DEF TypeOK
      <4> QED
        BY <1>2, <3>1, <4>2 DEF RequestInv
    <3> QED
      BY <3>2, <3>3
  <2> QED
    BY <2>1, <2>2
<1>7. ASSUME NEW d \in Devices PROVE DeviceInv(d)'
  <2>1. DeviceInv(d)
    BY DEF IInv
  <2>2. CASE d = dev
    <3>1. tokenExp'[d] = clock + TokenTTL
      BY <1>1, <1>2, <1>4, <2>2 DEF TypeOK
    <3>2. device[d] # "absent"
      BY <1>1, <1>2, <2>2 DEF RequestInv
    <3>3. device[d] = "revoked" =>
             clock + TokenTTL <= revokedAt[d] + Lag + TokenTTL
      BY <1>4, <1>5, <2>2
    <3> QED
      BY <1>2, <1>4, <2>1, <3>1, <3>2, <3>3 DEF DeviceInv
  <2>3. CASE d # dev
    <3>1. tokenExp'[d] = tokenExp[d]
      BY <1>1, <1>2, <2>3 DEF TypeOK
    <3> QED
      BY <1>2, <2>1, <3>1 DEF DeviceInv
  <2> QED
    BY <2>2, <2>3
<1>8. \A i \in Instances, d \in Devices : EntryInv(i, d)'
  BY <1>2 DEF IInv, EntryInv
<1> QED
  BY <1>6, <1>7, <1>8 DEF IInv

\* When a device is revoked, everything that was read or cached about it until
\* then is old enough: only the slot of the revoking request moves.
LEMMA RevokeInv ==
    ASSUME IInv, TypeOK', NEW r \in Requests,
           RevokeStored(r) \/ RevokeReplyLost(r)
    PROVE  IInv'
<1> USE TimingAssumption
<1> DEFINE dev == req[r].dev
<1>1. TypeOK /\ RequestInv(r)
  BY DEF IInv
<1>2. /\ req[r].pc = "revoke"
      /\ SetRevoked(dev)
      /\ Goto(r, "invalidate") \/ Finish(r)
      /\ UNCHANGED <<clock, cache, tokenExp, lastAdmit, faultUntil>>
  BY DEF RevokeStored, RevokeReplyLost
<1>3. dev \in Devices /\ clock \in Nat
  BY <1>1, <1>2, InFlightType DEF InFlight, TypeOK
<1>4. /\ \A s \in Requests \ {r} : req'[s] = req[s]
      /\ req'[r].pc \in {"invalidate", "idle"}
      /\ req'[r].pc # "idle" =>
           req'[r].dev = dev /\ req'[r].late = req[r].late
  BY <1>1, <1>2, GotoEffect, FinishEffect
<1>5. /\ device[dev] # "absent"
      /\ device'[dev] = "revoked"
      /\ device[dev] = "active" => revokedAt'[dev] = clock
      /\ device[dev] = "revoked" => revokedAt'[dev] = revokedAt[dev]
      /\ \A d \in Devices \ {dev} :
           device'[d] = device[d] /\ revokedAt'[d] = revokedAt[d]
  BY <1>1, <1>2, <1>3 DEF SetRevoked, TypeOK
<1>6. device[dev] \in {"active", "revoked"}
  BY <1>1, <1>3, <1>5 DEF TypeOK, Statuses
<1>7. ASSUME NEW s \in Requests PROVE RequestInv(s)'
  <2>1. CASE s = r
    BY <1>1, <1>2, <1>4, <1>5, <2>1 DEF RequestInv
  <2>2. CASE s # r
    <3>1. RequestInv(s) /\ req'[s] = req[s]
      BY <1>4, <2>2 DEF IInv
    <3>2. CASE req[s].pc = "idle"
      BY <1>2, <3>1, <3>2 DEF RequestInv
    <3>3. CASE req[s].pc # "idle"
      <4>1. req[s].dev \in Devices /\ req[s].at \in Nat
        BY <1>1, <3>3, InFlightType DEF InFlight
      <4>2. CASE req[s].dev = dev
        BY <1>2, <1>5, <1>6, <3>1, <4>1, <4>2 DEF RequestInv
      <4>3. CASE req[s].dev # dev
        BY <1>2, <1>5, <3>1, <4>1, <4>3 DEF RequestInv
      <4> QED
        BY <4>2, <4>3
    <3> QED
      BY <3>2, <3>3
  <2> QED
    BY <2>1, <2>2
<1>8. ASSUME NEW d \in Devices PROVE DeviceInv(d)'
  <2>1. DeviceInv(d) /\ lastAdmit[d] \in Nat /\ tokenExp[d] \in Nat
    BY <1>1 DEF IInv, TypeOK
  <2>2. CASE d = dev /\ device[d] = "active"
    BY <1>2, <1>3, <1>5, <2>1, <2>2 DEF DeviceInv
  <2>3. CASE d = dev /\ device[d] = "revoked"
    BY <1>2, <1>5, <2>1, <2>3 DEF DeviceInv
  <2>4. CASE d # dev
    BY <1>2, <1>5, <2>1, <2>4 DEF DeviceInv
  <2> QED
    BY <1>6, <2>2, <2>3, <2>4
<1>9. ASSUME NEW i \in Instances, NEW d \in Devices PROVE EntryInv(i, d)'
  <2>1. EntryInv(i, d) /\ cache[i][d].expiresAt \in Nat
    BY <1>1 DEF IInv, TypeOK, Entry
  <2>2. CASE d = dev /\ device[d] = "active"
    BY <1>2, <1>3, <1>5, <2>1, <2>2 DEF EntryInv
  <2>3. CASE d = dev /\ device[d] = "revoked"
    BY <1>2, <1>5, <2>1, <2>3 DEF EntryInv
  <2>4. CASE d # dev
    BY <1>2, <1>5, <2>1, <2>4 DEF EntryInv
  <2> QED
    BY <1>6, <2>2, <2>3, <2>4
<1> QED
  BY <1>7, <1>8, <1>9 DEF IInv

LEMMA InvalidateInv ==
    ASSUME IInv, TypeOK', NEW r \in Requests, Invalidate(r) PROVE IInv'
<1> USE TimingAssumption
<1>1. TypeOK /\ req[r] \in InFlight
  BY InFlightType DEF IInv, Invalidate
<1>2. /\ cache' = [cache EXCEPT ![req[r].inst][req[r].dev] = NoEntry]
      /\ UNCHANGED <<clock, device, tokenExp,
                     revokedAt, lastAdmit, faultUntil>>
      /\ req'[r].pc = "idle"
      /\ \A s \in Requests \ {r} : req'[s] = req[s]
  BY <1>1, FinishEffect DEF Invalidate
<1>3. ASSUME NEW s \in Requests PROVE RequestInv(s)'
  <2>1. CASE s = r
    BY <1>2, <2>1 DEF RequestInv
  <2>2. CASE s # r
    BY <1>2, <2>2 DEF IInv, RequestInv
  <2> QED
    BY <2>1, <2>2
<1>4. \A d \in Devices : DeviceInv(d)'
  BY <1>2 DEF IInv, DeviceInv
<1>5. ASSUME NEW i \in Instances, NEW d \in Devices PROVE EntryInv(i, d)'
  <2>1. cache'[i][d] \in {NoEntry, cache[i][d]}
    BY <1>1, <1>2 DEF TypeOK, InFlight
  <2>2. CASE cache'[i][d] = NoEntry
    <3>1. cache'[i][d].expiresAt = 0 /\ ~ cache'[i][d].value
      BY <2>2 DEF NoEntry
    <3> QED
      BY <1>1, <1>2, <3>1 DEF EntryInv, TypeOK
  <2>3. CASE cache'[i][d] = cache[i][d]
    BY <1>2, <2>3 DEF IInv, EntryInv
  <2> QED
    BY <2>1, <2>2, <2>3
<1> QED
  BY <1>3, <1>4, <1>5 DEF IInv

LEMMA NextInv == IInv /\ [Next]_vars => IInv'
<1> SUFFICES ASSUME IInv, [Next]_vars PROVE IInv'
  OBVIOUS
<1>1. TypeOK'
  BY NextType DEF IInv
<1>2. CASE Tick
  BY <1>1, <1>2, TickInv
<1>3. ASSUME NEW i \in Instances, Restart(i) PROVE IInv'
  BY <1>1, <1>3, RestartInv
<1>4. ASSUME NEW d \in Devices, Register(d) PROVE IInv'
  BY <1>1, <1>4, RegisterInv
<1>5. ASSUME NEW r \in Requests, NEW op \in Ops, NEW i \in Instances,
             NEW d \in Devices, Receive(r, op, i, d)
      PROVE  IInv'
  BY <1>1, <1>5, ReceiveInv
<1>6. ASSUME NEW r \in Requests, Middleware(r) PROVE IInv'
  BY <1>1, <1>6, QuietInv, StatusHitInv, LoadFaultInv, StoreStatusInv
     DEF Middleware
<1>7. ASSUME NEW r \in Requests, Issuing(r) PROVE IInv'
  BY <1>1, <1>7, QuietInv, IssueTokenInv DEF Issuing
<1>8. ASSUME NEW r \in Requests, Revoking(r) PROVE IInv'
  BY <1>1, <1>8, QuietInv, RevokeInv, InvalidateInv DEF Revoking
<1>9. CASE UNCHANGED vars
  BY <1>9 DEF vars, IInv, TypeOK, RequestInv, DeviceInv, EntryInv
<1> QED
  BY <1>2, <1>3, <1>4, <1>5, <1>6, <1>7, <1>8, <1>9 DEF Next

LEMMA Inductive == Spec => []IInv
BY InitInv, NextInv, PTL DEF Spec

-----------------------------------------------------------------------------
(* The theorems                                                            *)

\* However long the status caches and the fills in flight keep a stale answer,
\* a revoked device is let in for less than StatusTTL + Lag.
THEOREM RevocationIsBounded == Spec => []RevocationBound
<1>1. IInv => RevocationBound
  BY DEF IInv, DeviceInv, RevocationBound
<1> QED
  BY <1>1, Inductive, PTL

\* The bound that the comments of auth.go and handlers.go promise holds where
\* what is read is used at once, whatever the number of instances: only the
\* delay between the load of a status and its store breaks it.
THEOREM DelayWithoutLag ==
    ASSUME Lag = 0
    PROVE  Spec => []DocumentedDelay
<1>1. TypeOK /\ RevocationBound => DocumentedDelay
  BY TimingAssumption DEF TypeOK, RevocationBound, DocumentedDelay
<1> QED
  BY <1>1, TypeCorrect, RevocationIsBounded, PTL

\* AuthDevice and RefreshToken never extend the session of a revoked device
\* past the lifetime of a token they were about to issue at the revocation.
THEOREM SessionIsBounded == Spec => []SessionBound
<1>1. IInv => SessionBound
  BY DEF IInv, DeviceInv, SessionBound
<1> QED
  BY <1>1, Inductive, PTL

\* A request that arrives after the revocation is never issued a token.
THEOREM LateRequestsGetNoToken == Spec => []NoTokenForLateRequest
<1>1. IInv => NoTokenForLateRequest
  BY DEF IInv, RequestInv, NoTokenForLateRequest
<1> QED
  BY <1>1, Inductive, PTL

\* A device in good standing is locked out only by a failed read, and for at
\* most Lag + StatusTTL.
THEOREM LockoutIsBounded == Spec => []LockoutBound
<1>1. IInv => LockoutBound
  <2> SUFFICES ASSUME IInv, NEW d \in Devices, device[d] = "active"
               PROVE  /\ \A i \in Instances :
                           Fresh(cache[i][d]) /\ cache[i][d].value
                             => clock < faultUntil[d]
                      /\ \A r \in Requests :
                           req[r].pc = "store" /\ req[r].dev = d
                             /\ req[r].value => clock < faultUntil[d]
    BY DEF LockoutBound
  <2>1. TypeOK
    BY DEF IInv
  <2>2. ASSUME NEW i \in Instances, Fresh(cache[i][d]), cache[i][d].value
        PROVE  clock < faultUntil[d]
    BY <2>1, <2>2 DEF IInv, EntryInv, Fresh, TypeOK, Entry
  <2>3. ASSUME NEW r \in Requests, req[r].pc = "store", req[r].dev = d,
               req[r].value
        PROVE  clock < faultUntil[d]
    <3>1. RequestInv(r) /\ req[r].at \in Nat
      BY <2>1, <2>3, InFlightType DEF IInv, InFlight
    <3> QED
      BY <2>1, <2>3, <3>1, TimingAssumption DEF RequestInv, TypeOK
  <2> QED
    BY <2>2, <2>3
<1> QED
  BY <1>1, Inductive, PTL

-----------------------------------------------------------------------------
(* DeviceAuth implements AccessPolicy                                      *)

\* A verdict is an Admit of the policy, or a step it does not see.
LEMMA DecideRefines ==
    ASSUME IInv, NEW r \in Requests, NEW v \in BOOLEAN,
           req[r].pc \in {"status", "store"}, Decide(r, v),
           UNCHANGED <<clock, device, tokenExp, revokedAt>>,
           ~ v /\ device[req[r].dev] = "revoked" =>
              clock < revokedAt[req[r].dev] + StatusTTL + Lag
    PROVE  [Policy!Next]_(Policy!vars)
<1> DEFINE dev == req[r].dev
<1>1. TypeOK /\ RequestInv(r) /\ req[r] \in InFlight
  BY InFlightType DEF IInv
<1>2. dev \in Devices /\ device[dev] # "absent"
  BY <1>1 DEF RequestInv, InFlight
<1>3. CASE v
  BY <1>3 DEF Decide, Policy!vars
<1>4. CASE ~ v
  <2>1. lastAdmit' = [lastAdmit EXCEPT ![dev] = clock]
    BY <1>4 DEF Decide
  <2>2. device[dev] = "revoked" => clock < revokedAt[dev] + (StatusTTL + Lag)
    BY <1>1, <1>2, <1>4, TimingAssumption DEF TypeOK
  <2>3. tokenExp[dev] > 0
    BY <1>1 DEF RequestInv
  <2> QED
    BY <1>2, <2>1, <2>2, <2>3 DEF Policy!Admit, Policy!Next
<1> QED
  BY <1>3, <1>4

LEMMA InitRefines == Init => Policy!Init
BY DEF Init, Policy!Init

LEMMA StepRefines == IInv /\ [Next]_vars => [Policy!Next]_(Policy!vars)
<1> SUFFICES ASSUME IInv, [Next]_vars PROVE [Policy!Next]_(Policy!vars)
  OBVIOUS
<1> USE TimingAssumption
<1>1. TypeOK
  BY DEF IInv
<1>2. CASE Tick
  BY <1>2 DEF Tick, history, Policy!Tick, Policy!Next
<1>3. ASSUME NEW i \in Instances, Restart(i) PROVE UNCHANGED Policy!vars
  BY <1>3 DEF Restart, history, Policy!vars
<1>4. ASSUME NEW d \in Devices, Register(d)
      PROVE  [Policy!Next]_(Policy!vars)
  BY <1>4 DEF Register, history, Policy!Enrol, Policy!Next
<1>5. ASSUME NEW r \in Requests, NEW op \in Ops, NEW i \in Instances,
             NEW d \in Devices, Receive(r, op, i, d)
      PROVE  UNCHANGED Policy!vars
  BY <1>5 DEF Receive, history, Policy!vars
<1>6. ASSUME NEW r \in Requests, Middleware(r)
      PROVE  [Policy!Next]_(Policy!vars)
  <2>1. CASE StatusHit(r)
    <3> DEFINE e == cache[req[r].inst][req[r].dev]
    <3>1. req[r] \in InFlight
      BY <1>1, <2>1, InFlightType DEF StatusHit
    <3>2. e \in Entry /\ EntryInv(req[r].inst, req[r].dev)
      BY <1>1, <3>1 DEF IInv, TypeOK, InFlight
    <3>3. ~ e.value /\ device[req[r].dev] = "revoked" =>
             clock < revokedAt[req[r].dev] + StatusTTL + Lag
      BY <1>1, <2>1, <3>1, <3>2
         DEF StatusHit, Fresh, EntryInv, Entry, TypeOK, InFlight
    <3>4. e.value \in BOOLEAN
      BY <3>2 DEF Entry
    <3> QED
      BY <2>1, <3>3, <3>4, DecideRefines DEF StatusHit
  <2>2. CASE StoreStatus(r)
    <3>1. req[r] \in InFlight /\ RequestInv(r)
      BY <1>1, <2>2, InFlightType DEF StoreStatus, IInv
    <3>2. req[r].value \in BOOLEAN /\ req[r].at \in Nat
          /\ revokedAt[req[r].dev] \in Nat
      BY <1>1, <3>1 DEF InFlight, TypeOK
    <3>3. ~ req[r].value /\ device[req[r].dev] = "revoked" =>
             clock < revokedAt[req[r].dev] + StatusTTL + Lag
      BY <1>1, <2>2, <3>1, <3>2 DEF StoreStatus, RequestInv, TypeOK
    <3> QED
      BY <2>2, <3>2, <3>3, DecideRefines DEF StoreStatus
  <2>3. CASE VerifyToken(r) \/ StatusMiss(r) \/ LoadStatus(r) \/ LoadFault(r)
    BY <2>3
       DEF VerifyToken, StatusMiss, LoadStatus, LoadFault, history, Policy!vars
  <2> QED
    BY <1>6, <2>1, <2>2, <2>3 DEF Middleware
<1>7. ASSUME NEW r \in Requests, Issuing(r)
      PROVE  [Policy!Next]_(Policy!vars)
  <2>1. CASE IssueToken(r)
    <3> DEFINE dev == req[r].dev
    <3>1. req[r] \in InFlight /\ RequestInv(r)
      BY <1>1, <2>1, InFlightType DEF IssueToken, IInv
    <3>2. dev \in Devices /\ req[r].at \in Nat /\ revokedAt[dev] \in Nat
      BY <1>1, <3>1 DEF InFlight, TypeOK
    <3>3. /\ device[dev] # "absent"
          /\ device[dev] = "revoked" => clock <= revokedAt[dev] + Lag
      BY <1>1, <2>1, <3>1, <3>2 DEF IssueToken, RequestInv, TypeOK
    <3> QED
      BY <2>1, <3>2, <3>3 DEF IssueToken, history, Policy!Renew, Policy!Next
  <2>2. CASE LookupActive(r) \/ LookupRefused(r) \/ IssueFault(r)
               \/ TouchDevice(r)
    BY <2>2
       DEF LookupActive, LookupRefused, IssueFault, TouchDevice, history,
           Policy!vars
  <2> QED
    BY <1>7, <2>1, <2>2 DEF Issuing
<1>8. ASSUME NEW r \in Requests, Revoking(r)
      PROVE  [Policy!Next]_(Policy!vars)
  <2>1. ASSUME RevokeStored(r) \/ RevokeReplyLost(r)
        PROVE  [Policy!Next]_(Policy!vars)
    <3> DEFINE dev == req[r].dev
    <3>1. /\ SetRevoked(dev)
          /\ UNCHANGED <<clock, tokenExp, lastAdmit>>
      BY <2>1 DEF RevokeStored, RevokeReplyLost
    <3>2. dev \in Devices
      BY <1>1, <2>1, InFlightType DEF RevokeStored, RevokeReplyLost, InFlight
    <3>3. CASE device[dev] = "active"
      BY <3>1, <3>2, <3>3 DEF SetRevoked, Policy!Revoke, Policy!Next
    <3>4. CASE device[dev] # "active"
      <4>1. device[dev] = "revoked"
        BY <1>1, <3>1, <3>2, <3>4 DEF SetRevoked, TypeOK, Statuses
      <4> QED
        BY <1>1, <3>1, <3>2, <4>1 DEF SetRevoked, TypeOK, Policy!vars
    <3> QED
      BY <3>3, <3>4
  <2>2. CASE RevokeFailed(r) \/ Invalidate(r)
    BY <2>2 DEF RevokeFailed, Invalidate, history, Policy!vars
  <2> QED
    BY <1>8, <2>1, <2>2 DEF Revoking
<1>9. CASE UNCHANGED vars
  BY <1>9 DEF vars, Policy!vars
<1> QED
  BY <1>2, <1>3, <1>4, <1>5, <1>6, <1>7, <1>8, <1>9 DEF Next

\* Every behaviour of the instances, the store and the requests is one that
\* the access policy allows: revocations are final, and admission and renewal
\* end within their grace periods.
THEOREM ImplementsPolicy == Spec => PolicySpec
<1>1. Spec => Policy!Init
  BY InitRefines, PTL DEF Spec
<1>2. Spec => [][Policy!Next]_(Policy!vars)
  BY Inductive, StepRefines, PTL DEF Spec
<1> QED
  BY <1>1, <1>2 DEF PolicySpec, Policy!Spec

=============================================================================
