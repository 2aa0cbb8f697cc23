------------------------- MODULE ProvisioningProofs -------------------------
(***************************************************************************)
(* What provisioning promises, proved for any addresses, identities and    *)
(* requests.                                                               *)
(***************************************************************************)
EXTENDS Provisioning, FiniteSetTheorems, TLAPS

-----------------------------------------------------------------------------
(* Types                                                                   *)

LEMMA PendingType ==
    ASSUME TypeOK, NEW r \in Requests
    PROVE  /\ req[r].pc \in {"check", "register"} => req[r] \in InFlight
           /\ req[r].pc = "reply" => req[r] \in Replying
BY DEF TypeOK, Idle, InFlight, Replying

\* What a request writes that only its own slot sees.
LEMMA FinishWrites ==
    ASSUME TypeOK, NEW r \in Requests, Finish(r)
    PROVE  /\ req' \in [Requests -> InFlight \cup Replying \cup {Idle}]
           /\ req'[r].pc = "idle"
           /\ \A x \in Requests \ {r} : req'[x] = req[x]
BY DEF Finish, TypeOK, Idle

LEMMA ReceiveWrites ==
    ASSUME TypeOK, NEW r \in Requests, NEW s \in Spellings, Receive(r, s)
    PROVE  /\ req' \in [Requests -> InFlight \cup Replying \cup {Idle}]
           /\ req'[r].pc = "check"
           /\ \A x \in Requests \ {r} : req'[x] = req[x]
<1> DEFINE next == [pc |-> "check", mac |-> Normalize[s],
                    before |-> {}, failed |-> FALSE]
<1>1. Normalize[s] \in MACs
  BY DEF Receive, MACs
<1>2. next \in InFlight /\ next.pc = "check"
  BY <1>1 DEF InFlight
<1>3. req' = [req EXCEPT ![r] = next]
  BY DEF Receive
<1> HIDE DEF next
<1> QED
  BY <1>2, <1>3 DEF TypeOK

LEMMA CheckWrites ==
    ASSUME TypeOK, NEW r \in Requests, CheckPassed(r)
    PROVE  /\ req' \in [Requests -> InFlight \cup Replying \cup {Idle}]
           /\ req'[r].pc = "register"
           /\ req'[r].mac = req[r].mac
           /\ req'[r].before = Registered
           /\ req'[r].failed \/ ~ HasMAC(req[r].mac)
           /\ \A x \in Requests \ {r} : req'[x] = req[x]
<1>1. PICK failed \in BOOLEAN :
        /\ failed \/ ~ HasMAC(req[r].mac)
        /\ req' = [req EXCEPT ![r] =
                     [@ EXCEPT !.pc = "register", !.before = Registered,
                               !.failed = failed]]
  BY DEF CheckPassed
<1> DEFINE next == [req[r] EXCEPT !.pc = "register", !.before = Registered,
                                  !.failed = failed]
<1>2. req[r] \in InFlight
  BY PendingType DEF CheckPassed
<1>3. next \in InFlight
  BY <1>2 DEF InFlight, TypeOK
<1>4. /\ next.pc = "register" /\ next.mac = req[r].mac
      /\ next.before = Registered /\ next.failed = failed
  BY <1>2 DEF InFlight
<1>5. req' = [req EXCEPT ![r] = next]
  BY <1>1
<1> HIDE DEF next
<1>6. /\ req' \in [Requests -> InFlight \cup Replying \cup {Idle}]
      /\ req'[r] = next
      /\ \A x \in Requests \ {r} : req'[x] = req[x]
  BY <1>3, <1>5 DEF TypeOK
<1>7. req'[r].failed = failed
  BY <1>4, <1>6
<1> QED
  BY <1>1, <1>4, <1>6, <1>7

LEMMA StoredWrites ==
    ASSUME TypeOK, NEW r \in Requests, NEW b \in UUIDs, Stored(r, b)
    PROVE  /\ Registered' = Registered \cup {b}
           /\ docs' \in [Registered' -> MACs]
           /\ docs'[b] = req[r].mac
           /\ \A x \in Registered : docs'[x] = docs[x]
           /\ known' \in [UUIDs -> SUBSET UUIDs]
           /\ known'[b] = req[r].before
           /\ \A x \in UUIDs \ {b} : known'[x] = known[x]
           /\ unchecked' = unchecked \cup (IF req[r].failed THEN {b} ELSE {})
<1>1. req[r] \in InFlight
  BY PendingType DEF Stored
<1>2. req[r].mac \in MACs /\ req[r].before \in SUBSET UUIDs
  BY <1>1 DEF InFlight
<1> QED
  BY <1>2 DEF Stored, TypeOK, Registered

LEMMA GotoReplyWrites ==
    ASSUME TypeOK, NEW r \in Requests, NEW b \in UUIDs, Stored(r, b),
           GotoReply(r, b)
    PROVE  /\ req' \in [Requests -> InFlight \cup Replying \cup {Idle}]
           /\ req'[r] = [pc |-> "reply", mac |-> req[r].mac, dev |-> b]
           /\ \A x \in Requests \ {r} : req'[x] = req[x]
<1> DEFINE next == [pc |-> "reply", mac |-> req[r].mac, dev |-> b]
<1>1. req[r] \in InFlight
  BY PendingType DEF Stored
<1>2. next \in Replying
  BY <1>1 DEF InFlight, Replying
<1> HIDE DEF next
<1>3. req' = [req EXCEPT ![r] = next]
  BY DEF GotoReply, next
<1>4. /\ req' \in [Requests -> InFlight \cup Replying \cup {Idle}]
      /\ req'[r] = next
      /\ \A x \in Requests \ {r} : req'[x] = req[x]
  BY <1>2, <1>3 DEF TypeOK
<1> QED
  BY <1>4 DEF next

-----------------------------------------------------------------------------
(* The invariant                                                           *)

\* What a check saw is registered, and is of other addresses if it was
\* answered.
RequestInv(r) ==
    /\ req[r].pc = "register" =>
         /\ req[r].before \subseteq Registered
         /\ ~ req[r].failed => \A a \in req[r].before : docs[a] # req[r].mac
    /\ req[r].pc = "reply" =>
         req[r].dev \in Registered /\ docs[req[r].dev] = req[r].mac

DeviceInv ==
    \A b \in Registered :
        /\ known[b] \subseteq Registered
        /\ b \notin unchecked => \A a \in known[b] : docs[a] # docs[b]

IInv ==
    /\ TypeOK
    /\ DeviceInv
    /\ SecretsWork
    /\ \A r \in Requests : RequestInv(r)

\* Requests that leave the devices alone.
LEMMA QuietStep ==
    ASSUME IInv, NEW r \in Requests, UNCHANGED <<docs, known, unchecked>>,
           req' \in [Requests -> InFlight \cup Replying \cup {Idle}],
           \A x \in Requests \ {r} : req'[x] = req[x],
           RequestInv(r)',
           handed' \subseteq [dev : UUIDs, mac : MACs],
           \A h \in handed' : h.dev \in Registered /\ docs[h.dev] = h.mac
    PROVE  IInv'
<1>1. TypeOK'
  BY DEF IInv, TypeOK, Registered
<1>2. ASSUME NEW x \in Requests PROVE RequestInv(x)'
  BY DEF IInv, RequestInv, Registered
<1>3. DeviceInv' /\ SecretsWork'
  BY DEF IInv, DeviceInv, SecretsWork, Registered
<1> QED
  BY <1>1, <1>2, <1>3 DEF IInv

\* A registration adds a device and leaves the others as they are.
LEMMA StoredStep ==
    ASSUME IInv, NEW r \in Requests, NEW b \in UUIDs, Stored(r, b),
           req' \in [Requests -> InFlight \cup Replying \cup {Idle}],
           \A x \in Requests \ {r} : req'[x] = req[x],
           \/ req'[r].pc = "idle"
           \/ req'[r] = [pc |-> "reply", mac |-> req[r].mac, dev |-> b]
    PROVE  IInv'
<1>1. /\ Registered' = Registered \cup {b}
      /\ docs'[b] = req[r].mac
      /\ \A x \in Registered : docs'[x] = docs[x]
      /\ known'[b] = req[r].before
      /\ \A x \in UUIDs \ {b} : known'[x] = known[x]
      /\ unchecked' = unchecked \cup (IF req[r].failed THEN {b} ELSE {})
      /\ b \notin Registered /\ handed' = handed
      /\ req[r].pc = "register"
      /\ Registered \subseteq UUIDs
  BY StoredWrites DEF IInv, Stored, TypeOK
<1>2. TypeOK'
  BY <1>1, StoredWrites DEF IInv, TypeOK
<1>3. ASSUME NEW x \in Requests PROVE RequestInv(x)'
  <2>1. CASE x = r
    BY <1>1, <2>1 DEF RequestInv
  <2>2. CASE x # r
    BY <1>1, <2>2 DEF IInv, RequestInv
  <2> QED
    BY <2>1, <2>2
<1>4. DeviceInv'
  <2>1. ASSUME NEW x \in Registered
        PROVE  /\ known'[x] \subseteq Registered'
               /\ x \notin unchecked' => \A a \in known'[x] : docs'[a] # docs'[x]
    <3>1. known'[x] = known[x] /\ known[x] \subseteq Registered
      BY <1>1 DEF IInv, DeviceInv
    <3> QED
      BY <1>1, <3>1 DEF IInv, DeviceInv
  <2>2. /\ known'[b] \subseteq Registered'
        /\ b \notin unchecked' => \A a \in known'[b] : docs'[a] # docs'[b]
    BY <1>1 DEF IInv, RequestInv
  <2> QED
    BY <1>1, <2>1, <2>2 DEF DeviceInv
<1>5. SecretsWork'
  BY <1>1 DEF IInv, SecretsWork
<1> QED
  BY <1>2, <1>3, <1>4, <1>5 DEF IInv

LEMMA InvInitially == Init => IInv
<1> SUFFICES ASSUME Init PROVE IInv
  OBVIOUS
<1>1. Registered = {} /\ docs \in [{} -> MACs]
  BY DEF Init, Registered
<1>2. TypeOK
  BY <1>1 DEF Init, TypeOK
<1> QED
  BY <1>1, <1>2 DEF Init, IInv, DeviceInv, SecretsWork, RequestInv, Idle

LEMMA InvPreserved == IInv /\ [Next]_vars => IInv'
<1> SUFFICES ASSUME IInv, [Next]_vars PROVE IInv'
  OBVIOUS
<1>1. TypeOK /\ handed \subseteq [dev : UUIDs, mac : MACs]
      /\ \A h \in handed : h.dev \in Registered /\ docs[h.dev] = h.mac
  BY DEF IInv, TypeOK, SecretsWork
<1>2. ASSUME NEW r \in Requests, Finish(r),
             UNCHANGED <<docs, handed, known, unchecked>>
      PROVE  IInv'
  <2>1. RequestInv(r)'
    BY <1>1, <1>2, FinishWrites DEF RequestInv
  <2> QED
    BY <1>1, <1>2, <2>1, FinishWrites, QuietStep
<1>3. ASSUME NEW r \in Requests, NEW s \in Spellings, Receive(r, s)
      PROVE  IInv'
  <2>1. RequestInv(r)'
    BY <1>1, <1>3, ReceiveWrites DEF RequestInv
  <2> QED
    BY <1>1, <1>3, <2>1, ReceiveWrites, QuietStep DEF Receive
<1>4. ASSUME NEW r \in Requests, CheckPassed(r) PROVE IInv'
  <2>1. UNCHANGED <<docs, handed, known, unchecked>>
    BY <1>4 DEF CheckPassed
  <2>2. RequestInv(r)'
    BY <1>1, <1>4, <2>1, CheckWrites DEF RequestInv, HasMAC, Registered
  <2> QED
    BY <1>1, <1>4, <2>1, <2>2, CheckWrites, QuietStep
<1>5. ASSUME NEW r \in Requests, NEW b \in UUIDs,
             Register(r, b) \/ RegisterReplyLost(r, b)
      PROVE  IInv'
  BY <1>1, <1>5, FinishWrites, GotoReplyWrites, StoredStep
     DEF Register, RegisterReplyLost
<1>6. ASSUME NEW r \in Requests, Reply(r) PROVE IInv'
  <2>1. req[r] \in Replying
    BY <1>1, <1>6, PendingType DEF Reply
  <2>2. req[r].dev \in Registered /\ docs[req[r].dev] = req[r].mac
    BY <1>6 DEF IInv, RequestInv, Reply
  <2>3. handed' \subseteq [dev : UUIDs, mac : MACs]
        /\ \A h \in handed' : h.dev \in Registered /\ docs[h.dev] = h.mac
    BY <1>1, <1>6, <2>1, <2>2 DEF Reply, Replying
  <2>4. RequestInv(r)'
    BY <1>1, <1>6, FinishWrites DEF RequestInv, Reply
  <2> QED
    BY <1>1, <1>6, <2>3, <2>4, FinishWrites, QuietStep DEF Reply
<1>7. CASE UNCHANGED vars
  BY <1>7
     DEF vars, IInv, TypeOK, DeviceInv, SecretsWork, RequestInv, Registered
<1> QED
  BY <1>2, <1>3, <1>4, <1>5, <1>6, <1>7 DEF Next, Conflict, Abort

LEMMA Inductive == Spec => []IInv
BY InvInitially, InvPreserved, PTL DEF Spec

-----------------------------------------------------------------------------
(* Counting                                                                *)

\* The devices of an address whose check was answered, and the requests that
\* are about to register one more.
Devices(m) == {b \in Registered \ unchecked : docs[b] = m}

Registering(m) ==
    {r \in Requests :
       req[r].pc = "register" /\ req[r].mac = m /\ ~ req[r].failed}

\* Every device has taken the place of a request that was let in with it.
CountInv ==
    \A m \in MACs :
        /\ IsFiniteSet(Devices(m))
        /\ Cardinality(Devices(m)) + Cardinality(Registering(m))
             <= Cardinality(Requests)

LEMMA RegisteringFinite ==
    ASSUME NEW m
    PROVE  /\ IsFiniteSet(Registering(m))
           /\ Cardinality(Registering(m)) \in Nat
           /\ Cardinality(Registering(m)) <= Cardinality(Requests)
           /\ Cardinality(Requests) \in Nat
<1>1. Registering(m) \in SUBSET Requests
  BY DEF Registering
<1> QED
  BY <1>1, SlotAssumption, FS_Subset, FS_CardinalityType

\* The requests that register may only get fewer.
LEMMA FewerRequests ==
    ASSUME CountInv, NEW m \in MACs, Devices(m)' = Devices(m),
           Registering(m)' \subseteq Registering(m)
    PROVE  /\ IsFiniteSet(Devices(m))'
           /\ Cardinality(Devices(m)') + Cardinality(Registering(m)')
                <= Cardinality(Requests)
<1> DEFINE P == Registering(m)
           Q == Registering(m)'
           n == Cardinality(Devices(m))
<1>1. IsFiniteSet(P) /\ Cardinality(P) \in Nat /\ Cardinality(Requests) \in Nat
  BY RegisteringFinite
<1>2. Q \in SUBSET P
  OBVIOUS
<1>3. n \in Nat /\ n + Cardinality(P) <= Cardinality(Requests)
  BY FS_CardinalityType DEF CountInv
<1> HIDE DEF P, Q, n
<1>4. Cardinality(Q) <= Cardinality(P) /\ Cardinality(Q) \in Nat
  BY <1>1, <1>2, FS_Subset, FS_CardinalityType
<1>5. n + Cardinality(Q) <= Cardinality(Requests)
  BY <1>1, <1>3, <1>4
<1> QED
  BY <1>5 DEF CountInv, Q, n

\* A step that leaves the devices alone and lets no request register.
LEMMA CountQuiet ==
    ASSUME IInv, CountInv, NEW r \in Requests, UNCHANGED <<docs, unchecked>>,
           \A x \in Requests \ {r} : req'[x] = req[x],
           req'[r].pc # "register"
    PROVE  CountInv'
<1>1. ASSUME NEW m \in MACs
      PROVE  /\ Devices(m)' = Devices(m)
             /\ Registering(m)' \subseteq Registering(m)
  BY DEF Devices, Registering, Registered
<1> QED
  BY <1>1, FewerRequests DEF CountInv

\* A check that was answered finds no device of its address.
LEMMA CountCheck ==
    ASSUME IInv, CountInv, NEW r \in Requests, CheckPassed(r)
    PROVE  CountInv'
<1>1. /\ req'[r].pc = "register"
      /\ req'[r].mac = req[r].mac
      /\ req'[r].failed \/ ~ HasMAC(req[r].mac)
      /\ \A x \in Requests \ {r} : req'[x] = req[x]
      /\ UNCHANGED <<docs, unchecked>>
  BY CheckWrites DEF IInv, CheckPassed
<1>2. \A m \in MACs : Devices(m)' = Devices(m)
  BY <1>1 DEF Devices, Registered
<1>3. ASSUME NEW m \in MACs, req'[r].failed \/ req[r].mac # m
      PROVE  /\ IsFiniteSet(Devices(m))'
             /\ Cardinality(Devices(m)') + Cardinality(Registering(m)')
                  <= Cardinality(Requests)
  <2>1. Registering(m)' \subseteq Registering(m)
    BY <1>1, <1>3 DEF Registering
  <2> QED
    BY <1>2, <2>1, FewerRequests
<1>4. ASSUME NEW m \in MACs, ~ req'[r].failed, req[r].mac = m
      PROVE  /\ IsFiniteSet(Devices(m))'
             /\ Cardinality(Devices(m)') + Cardinality(Registering(m)')
                  <= Cardinality(Requests)
  <2>1. Devices(m)' = {}
    BY <1>1, <1>2, <1>4 DEF Devices, HasMAC
  <2> DEFINE Q == Registering(m)'
  <2>2. Q \in SUBSET Requests
    BY DEF Registering
  <2> HIDE DEF Q
  <2>3. Cardinality(Q) \in Nat /\ Cardinality(Q) <= Cardinality(Requests)
    BY <2>2, SlotAssumption, FS_Subset, FS_CardinalityType
  <2>4. IsFiniteSet({}) /\ Cardinality({}) + Cardinality(Q) <= Cardinality(Requests)
    BY <2>3, FS_EmptySet
  <2> QED
    BY <2>1, <2>4 DEF Q
<1> QED
  BY <1>3, <1>4 DEF CountInv

\* A device that is registered takes the place of its request.
LEMMA CountStored ==
    ASSUME IInv, CountInv, NEW r \in Requests, NEW b \in UUIDs, Stored(r, b),
           \A x \in Requests \ {r} : req'[x] = req[x],
           req'[r].pc # "register"
    PROVE  CountInv'
<1>1. /\ Registered' = Registered \cup {b}
      /\ docs'[b] = req[r].mac
      /\ \A x \in Registered : docs'[x] = docs[x]
      /\ unchecked' = unchecked \cup (IF req[r].failed THEN {b} ELSE {})
      /\ b \notin Registered
      /\ unchecked \subseteq Registered
      /\ req[r].pc = "register"
  BY StoredWrites DEF IInv, Stored, TypeOK
<1>2. ASSUME NEW m \in MACs, req[r].failed \/ req[r].mac # m
      PROVE  /\ IsFiniteSet(Devices(m))'
             /\ Cardinality(Devices(m)') + Cardinality(Registering(m)')
                  <= Cardinality(Requests)
  <2>1. Devices(m)' = Devices(m)
    BY <1>1, <1>2 DEF Devices
  <2>2. Registering(m)' \subseteq Registering(m)
    BY DEF Registering
  <2> QED
    BY <2>1, <2>2, FewerRequests
<1>3. ASSUME NEW m \in MACs, ~ req[r].failed, req[r].mac = m
      PROVE  /\ IsFiniteSet(Devices(m))'
             /\ Cardinality(Devices(m)') + Cardinality(Registering(m)')
                  <= Cardinality(Requests)
  <2> DEFINE D == Devices(m)
             P == Registering(m)
             Q == Registering(m)'
  <2>1. Devices(m)' = D \cup {b} /\ b \notin D
    BY <1>1, <1>3 DEF Devices
  <2>2. r \in P /\ Q \in SUBSET (P \ {r})
    BY <1>1, <1>3 DEF Registering
  <2>3. /\ IsFiniteSet(D)
        /\ Cardinality(D) + Cardinality(P) <= Cardinality(Requests)
    BY DEF CountInv
  <2>4. IsFiniteSet(P) /\ Cardinality(P) \in Nat /\ Cardinality(Requests) \in Nat
    BY RegisteringFinite
  <2> HIDE DEF D, P, Q
  <2>5. IsFiniteSet(P \ {r}) /\ Cardinality(P \ {r}) = Cardinality(P) - 1
    BY <2>2, <2>4, FS_RemoveElement
  <2>6. Cardinality(Q) <= Cardinality(P) - 1 /\ Cardinality(Q) \in Nat
    BY <2>2, <2>5, FS_Subset, FS_CardinalityType
  <2>7. /\ IsFiniteSet(D \cup {b})
        /\ Cardinality(D \cup {b}) = Cardinality(D) + 1
        /\ Cardinality(D) \in Nat
    BY <2>1, <2>3, FS_AddElement, FS_CardinalityType
  <2>8. Cardinality(D \cup {b}) + Cardinality(Q) <= Cardinality(Requests)
    BY <2>3, <2>4, <2>6, <2>7
  <2> QED
    BY <2>1, <2>7, <2>8 DEF Q
<1> QED
  BY <1>2, <1>3 DEF CountInv

LEMMA CountInitially == Init => CountInv
<1> SUFFICES ASSUME Init, NEW m \in MACs
             PROVE  /\ IsFiniteSet(Devices(m))
                    /\ Cardinality(Devices(m)) + Cardinality(Registering(m))
                         <= Cardinality(Requests)
  BY DEF CountInv
<1>1. Devices(m) = {} /\ Registering(m) = {}
  BY DEF Init, Devices, Registering, Registered, Idle
<1> QED
  BY <1>1, FS_EmptySet, FS_CardinalityType, SlotAssumption

LEMMA CountPreserved == IInv /\ CountInv /\ [Next]_vars => CountInv'
<1> SUFFICES ASSUME IInv, CountInv, [Next]_vars PROVE CountInv'
  OBVIOUS
<1>1. TypeOK
  BY DEF IInv
<1>2. ASSUME NEW r \in Requests, Finish(r), UNCHANGED <<docs, unchecked>>
      PROVE  CountInv'
  BY <1>1, <1>2, FinishWrites, CountQuiet
<1>3. ASSUME NEW r \in Requests, NEW s \in Spellings, Receive(r, s)
      PROVE  CountInv'
  BY <1>1, <1>3, ReceiveWrites, CountQuiet DEF Receive
<1>4. ASSUME NEW r \in Requests, CheckPassed(r) PROVE CountInv'
  BY <1>4, CountCheck
<1>5. ASSUME NEW r \in Requests, NEW b \in UUIDs,
             Register(r, b) \/ RegisterReplyLost(r, b)
      PROVE  CountInv'
  <2>1. CASE Register(r, b)
    <3>1. req'[r].pc = "reply" /\ \A x \in Requests \ {r} : req'[x] = req[x]
      <4>1. Stored(r, b) /\ GotoReply(r, b)
        BY <2>1 DEF Register
      <4>2. /\ req'[r] = [pc |-> "reply", mac |-> req[r].mac, dev |-> b]
            /\ \A x \in Requests \ {r} : req'[x] = req[x]
        BY <1>1, <4>1, GotoReplyWrites
      <4> QED
        BY <4>2
    <3> QED
      BY <2>1, <3>1, CountStored DEF Register
  <2>2. CASE RegisterReplyLost(r, b)
    BY <1>1, <2>2, FinishWrites, CountStored DEF RegisterReplyLost
  <2> QED
    BY <1>5, <2>1, <2>2
<1>6. CASE UNCHANGED vars
  BY <1>6 DEF vars, CountInv, Devices, Registering, Registered
<1> QED
  BY <1>2, <1>3, <1>4, <1>5, <1>6 DEF Next, Conflict, Reply, Abort

-----------------------------------------------------------------------------
(* Theorems                                                                *)

\* The states of provisioning keep their types.
THEOREM TypeCorrect == Spec => []TypeOK
<1>1. IInv => TypeOK
  BY DEF IInv
<1> QED
  BY <1>1, Inductive, PTL

\* Only checks that overlapped, or failed, let two devices have one address
\* (auth.go:405-417).
THEOREM OnlyOverlapsDuplicate == Spec => []DuplicatesOverlapped
<1>1. IInv => DuplicatesOverlapped
  BY DEF IInv, DeviceInv, DuplicatesOverlapped, SameMAC
<1> QED
  BY <1>1, Inductive, PTL

\* What a provisioner holds is registered under its address (auth.go:454-479).
THEOREM HandedSecretsWork == Spec => []SecretsWork
<1>1. IInv => SecretsWork
  BY DEF IInv
<1> QED
  BY <1>1, Inductive, PTL

\* However often an address is provisioned, it has at most as many devices as
\* there are requests at a time, not counting those let in by failed checks
\* (auth.go:408-417).
THEOREM DuplicatesAreBounded == Spec => []DuplicatesBounded
<1>1. Spec => []CountInv
  BY CountInitially, CountPreserved, Inductive, PTL DEF Spec
<1>2. CountInv => DuplicatesBounded
  <2> SUFFICES ASSUME CountInv, NEW m \in MACs
               PROVE  Cardinality(Devices(m)) <= Cardinality(Requests)
    BY DEF DuplicatesBounded, Devices
  <2>1. /\ IsFiniteSet(Devices(m))
        /\ Cardinality(Devices(m)) + Cardinality(Registering(m))
             <= Cardinality(Requests)
    BY DEF CountInv
  <2>2. /\ Cardinality(Devices(m)) \in Nat
        /\ Cardinality(Registering(m)) \in Nat
        /\ Cardinality(Requests) \in Nat
    BY <2>1, RegisteringFinite, FS_CardinalityType
  <2> QED
    BY <2>1, <2>2
<1> QED
  BY <1>1, <1>2, PTL

=============================================================================
