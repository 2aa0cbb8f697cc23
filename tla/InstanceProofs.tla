--------------------------- MODULE InstanceProofs ---------------------------
(***************************************************************************)
(* The safety properties of the key cache, proved for any keys and         *)
(* requests and for every KeyTTL, Lag and MaxTime, and of the instance     *)
(* around it: an instance does to its keys and requests what KeyCache      *)
(* says, so what is proved of KeyCache holds of the service with its       *)
(* start-up, its shutdown and its crashes.                                 *)
(*                                                                         *)
(* A request that looks into a map of keys has taken a reply of its own    *)
(* before, so what it finds there is at least as new as that.  Suits says  *)
(* what this gives; it has to hold of the map for every request that is    *)
(* about to look again, of the reply that a request is about to install,   *)
(* and, since that will replace the map, of such a reply for the others.   *)
(***************************************************************************)
EXTENDS Instance, TLAPS

-----------------------------------------------------------------------------
(* The key cache                                                           *)

Pending == {"look", "wait", "fetch", "install", "again", "refuse"}

\* No key in S was withdrawn before the reply of r was served.
Recent(r, S) ==
    \A k \in S : endpoint[k] = "withdrawn" => req[r].at <= withdrawnAt[k]

\* S has the key of r, unless r is excused or the key is not published.
Complete(r, S) ==
    ~ req[r].excused /\ endpoint[req[r].kid] = "published" => req[r].kid \in S

Suits(r, S) == Recent(r, S) /\ Complete(r, S)

RequestInv(r) ==
    /\ req[r].pc \in {"fetch", "install"} <=> writer = r
    /\ req[r].pc \in {"install", "again"} =>
         req[r].at <= clock /\ clock <= req[r].at + Lag
    /\ req[r].pc \in Pending =>
         req[r].excused \/ endpoint[req[r].kid] # "new"
    /\ req[r].pc = "install" => Suits(r, req[r].reply)
    /\ req[r].pc = "again" => Suits(r, keys)
    /\ req[r].pc = "refuse" => Complete(r, {})

PairInv(w, r) ==
    req[w].pc = "install" /\ req[r].pc = "again" => Suits(r, req[w].reply)

MapInv ==
    /\ expiry <= clock + KeyTTL
    /\ \A k \in Kids : withdrawnAt[k] <= clock
    /\ \A k \in keys :
         endpoint[k] = "withdrawn" => expiry <= withdrawnAt[k] + KeyTTL + Lag

IInv ==
    /\ KeysTypeOK
    /\ MapInv
    /\ \A r \in Requests : RequestInv(r)
    /\ \A w, r \in Requests : PairInv(w, r)

-----------------------------------------------------------------------------
(* Types                                                                   *)

\* A request that goes through getPublicKey has a key and a time of its own.
LEMMA PendingType ==
    ASSUME KeysTypeOK, NEW r \in Requests, req[r].pc \in Pending
    PROVE  req[r] \in InFlight
BY DEF KeysTypeOK, Pending, Idle, Handling

\* Going on to another step keeps the types of requests.
LEMMA GotoType ==
    ASSUME KeysTypeOK, NEW r \in Requests, req[r].pc \in Pending,
           NEW step \in Pending, Goto(r, step)
    PROVE  req' \in [Requests -> InFlight \cup {Idle, Handling}]
<1> DEFINE next == [req[r] EXCEPT !.pc = step]
<1>1. next \in InFlight
  BY PendingType DEF InFlight, Pending
<1>2. req' = [req EXCEPT ![r] = next]
  BY DEF Goto
<1> QED
  BY <1>1, <1>2 DEF KeysTypeOK

\* What a reply does to its request, and to the others that are excused.
LEMMA ServeType ==
    ASSUME KeysTypeOK, NEW r \in Requests, NEW usable \in SUBSET Kids,
           Serve(r, usable)
    PROVE  req' \in [Requests -> InFlight \cup {Idle, Handling}]
<1> DEFINE next == [req[r] EXCEPT !.pc = "install", !.at = clock,
                                  !.reply = usable]
           arrived == [req EXCEPT ![r] = next]
           answer(x) == IF x \in Deprived(r, usable)
                        THEN [arrived[x] EXCEPT !.excused = TRUE]
                        ELSE arrived[x]
<1>1. req[r] \in InFlight
  BY PendingType DEF Serve, Pending
<1>2. next \in InFlight
  BY <1>1 DEF InFlight, KeysTypeOK
<1>3. ASSUME NEW x \in Requests
      PROVE  answer(x) \in InFlight \cup {Idle, Handling}
  <2>1. CASE x \in Deprived(r, usable)
    <3>1. arrived[x] \in InFlight
      <4>1. CASE x = r
        BY <1>2, <4>1 DEF KeysTypeOK
      <4>2. CASE x # r
        <5>1. req[x] \in InFlight
          BY <2>1, <4>2, PendingType DEF Deprived, Pending
        <5> QED
          BY <4>2, <5>1 DEF KeysTypeOK
      <4> QED
        BY <4>1, <4>2
    <3>2. [arrived[x] EXCEPT !.excused = TRUE] \in InFlight
      BY <3>1 DEF InFlight
    <3> QED
      BY <2>1, <3>2
  <2>2. CASE x \notin Deprived(r, usable)
    BY <2>2, <1>2 DEF KeysTypeOK
  <2> QED
    BY <2>1, <2>2
<1>4. req' = [x \in Requests |-> answer(x)]
  BY DEF Serve
<1> HIDE DEF answer
<1> QED
  BY <1>3, <1>4

\* Installing a reply keeps the types.
LEMMA InstallType ==
    ASSUME KeysTypeOK, NEW r \in Requests, Install(r)
    PROVE  KeysTypeOK'
<1> DEFINE next == [req[r] EXCEPT
                      !.pc = IF req[r].reply = {} THEN "refuse" ELSE "again",
                      !.reply = {}]
<1>1. req[r] \in InFlight
  BY PendingType DEF Install, Pending
<1>2. next \in InFlight
  BY <1>1 DEF InFlight
<1>3. req' = [req EXCEPT ![r] = next]
  BY DEF Install
<1>4. req' \in [Requests -> InFlight \cup {Idle, Handling}]
  BY <1>2, <1>3 DEF KeysTypeOK
<1>5. keys' \subseteq Kids
  BY <1>1 DEF Install, InFlight
<1>6. expiry' \in Nat
  BY KeyAssumption DEF Install, KeysTypeOK
<1> QED
  BY <1>4, <1>5, <1>6 DEF Install, KeysTypeOK

\* A failed fetch keeps the types.
LEMMA FetchFailedType ==
    ASSUME KeysTypeOK, NEW r \in Requests, FetchFailed(r)
    PROVE  KeysTypeOK'
<1> DEFINE next == [req[r] EXCEPT !.pc = "refuse", !.excused = TRUE]
<1>1. req[r] \in InFlight
  BY PendingType DEF FetchFailed, Pending
<1>2. next \in InFlight
  BY <1>1 DEF InFlight
<1>3. req' = [req EXCEPT ![r] = next]
  BY DEF FetchFailed
<1> QED
  BY <1>2, <1>3 DEF FetchFailed, KeysTypeOK

\* Every step of the key cache keeps the types.
LEMMA KeysNextType == KeysTypeOK /\ [KeysNext]_kvars => KeysTypeOK'
<1> SUFFICES ASSUME KeysTypeOK, [KeysNext]_kvars PROVE KeysTypeOK'
  OBVIOUS
<1>1. CASE Environment
  BY <1>1 DEF Environment, Tick, Publish, Withdraw, KeysTypeOK
<1>2. CASE Restart
  BY <1>2 DEF Restart, KeysTypeOK
<1>3. ASSUME NEW r \in Requests, NEW k \in TokenKids, Receive(r, k)
      PROVE  KeysTypeOK'
  <2> DEFINE next == [pc |-> "look", kid |-> k, reply |-> {}, at |-> 0,
                      excused |-> endpoint[k] # "published"]
  <2>1. next \in InFlight
    BY DEF InFlight
  <2>2. req' = [req EXCEPT ![r] = next]
    BY <1>3 DEF Receive
  <2> HIDE DEF next
  <2> QED
    BY <1>3, <2>1, <2>2 DEF Receive, KeysTypeOK
<1>4. ASSUME NEW r \in Requests, Verifying(r) PROVE KeysTypeOK'
  <2>1. ASSUME Verified(r)
        PROVE  req' \in [Requests -> InFlight \cup {Idle, Handling}]
    BY <2>1 DEF Verified, KeysTypeOK
  <2>2. CASE Look(r)
    BY <2>2, <2>1, GotoType DEF Look, KeysTypeOK, Pending
  <2>3. CASE LookAgain(r)
    BY <2>3, <2>1, GotoType DEF LookAgain, KeysTypeOK, Pending
  <2>4. CASE Lock(r)
    BY <2>4, GotoType DEF Lock, KeysTypeOK, Pending
  <2>5. ASSUME NEW usable \in SUBSET Kids, Serve(r, usable)
        PROVE  KeysTypeOK'
    BY <2>5, ServeType DEF Serve, KeysTypeOK
  <2>6. CASE FetchFailed(r)
    BY <2>6, FetchFailedType
  <2>7. CASE Install(r)
    BY <2>7, InstallType
  <2>8. CASE Answer(r)
    BY <2>8 DEF Answer, KeysTypeOK
  <2> QED
    BY <1>4, <2>2, <2>3, <2>4, <2>5, <2>6, <2>7, <2>8
       DEF Verifying, Acquire, Fetch
<1>5. CASE UNCHANGED kvars
  BY <1>5 DEF kvars, KeysTypeOK
<1> QED
  BY <1>1, <1>2, <1>3, <1>4, <1>5 DEF KeysNext

-----------------------------------------------------------------------------
(* The invariant                                                           *)

\* What the invariant says apart from types.
Inv ==
    /\ MapInv
    /\ \A r \in Requests : RequestInv(r)
    /\ \A w, r \in Requests : PairInv(w, r)

\* While time, the endpoint and the map stand still, a request that gets
\* neither a reply nor to its second look can only spoil its own part.
LEMMA QuietStep ==
    ASSUME IInv, NEW r \in Requests,
           UNCHANGED <<clock, endpoint, keys, expiry, withdrawnAt>>,
           \A x \in Requests \ {r} :
               req'[x] = req[x] /\ (writer' = x <=> writer = x),
           req'[r].pc \notin {"install", "again"},
           RequestInv(r)'
    PROVE  Inv'
<1>1. MapInv'
  BY DEF IInv, MapInv
<1>2. ASSUME NEW x \in Requests PROVE RequestInv(x)'
  <2>1. CASE x = r
    BY <2>1
  <2>2. CASE x # r
    BY <2>2 DEF IInv, RequestInv, Suits, Recent, Complete
  <2> QED
    BY <2>1, <2>2
<1>3. ASSUME NEW w \in Requests, NEW x \in Requests PROVE PairInv(w, x)'
  BY <1>3 DEF IInv, PairInv, Suits, Recent, Complete
<1> QED
  BY <1>1, <1>2, <1>3 DEF Inv

\* No step of the environment takes a key out of anybody's reach, or makes a
\* withdrawal older.
LEMMA EnvironmentKeeps ==
    ASSUME IInv, Environment, NEW r \in Requests, req[r].pc \in Pending,
           NEW S \in SUBSET Kids
    PROVE  /\ Complete(r, S) => Complete(r, S)'
           /\ req[r].pc \in {"install", "again"} /\ Recent(r, S) => Recent(r, S)'
           /\ req[r].excused \/ endpoint'[req[r].kid] # "new"
<1>1. req[r].kid \in Kids /\ (req[r].excused \/ endpoint[req[r].kid] # "new")
  BY PendingType, KeyAssumption DEF IInv, RequestInv, InFlight
<1>2. CASE Tick
  BY <1>1, <1>2 DEF Tick, Complete, Recent
<1>3. ASSUME NEW k \in Kids, Publish(k) \/ Withdraw(k)
      PROVE  /\ Complete(r, S) => Complete(r, S)'
             /\ req[r].pc \in {"install", "again"} /\ Recent(r, S)
                  => Recent(r, S)'
             /\ req[r].excused \/ endpoint'[req[r].kid] # "new"
  <2>1. CASE Publish(k)
    <3>1. \A j \in Kids :
            endpoint'[j] = IF j = k THEN "published" ELSE endpoint[j]
      BY <2>1 DEF Publish, IInv, KeysTypeOK
    <3> QED
      BY <1>1, <2>1, <3>1 DEF Publish, Complete, Recent
  <2>2. CASE Withdraw(k)
    <3>1. \A j \in Kids :
            /\ endpoint'[j] = IF j = k THEN "withdrawn" ELSE endpoint[j]
            /\ withdrawnAt'[j] = IF j = k THEN clock ELSE withdrawnAt[j]
      BY <2>2 DEF Withdraw, IInv, KeysTypeOK
    <3>2. req[r].pc \in {"install", "again"} => req[r].at <= clock
      BY DEF IInv, RequestInv
    <3> QED
      BY <1>1, <2>2, <3>1, <3>2 DEF Withdraw, Complete, Recent
  <2> QED
    BY <1>3, <2>1, <2>2
<1> QED
  BY <1>2, <1>3 DEF Environment

\* Keys that Google publishes or withdraws, and time, keep the invariant.
LEMMA EnvironmentStep == IInv /\ Environment => Inv'
<1> SUFFICES ASSUME IInv, Environment PROVE Inv'
  OBVIOUS
<1>1. UNCHANGED <<keys, expiry, writer, req>>
  BY DEF Environment, Tick, Publish, Withdraw
<1>2. MapInv'
  <2>1. CASE Tick
    BY <2>1, KeyAssumption DEF Tick, IInv, MapInv, KeysTypeOK
  <2>2. ASSUME NEW k \in Kids, Publish(k) PROVE MapInv'
    BY <2>2 DEF Publish, IInv, MapInv, KeysTypeOK
  <2>3. ASSUME NEW k \in Kids, Withdraw(k) PROVE MapInv'
    <3>1. \A j \in Kids :
            /\ endpoint'[j] = IF j = k THEN "withdrawn" ELSE endpoint[j]
            /\ withdrawnAt'[j] = IF j = k THEN clock ELSE withdrawnAt[j]
      BY <2>3 DEF Withdraw, IInv, KeysTypeOK
    <3>2. keys \subseteq Kids /\ expiry <= clock + KeyTTL + Lag
      BY KeyAssumption DEF IInv, MapInv, KeysTypeOK
    <3> QED
      BY <2>3, <3>1, <3>2 DEF Withdraw, IInv, MapInv, KeysTypeOK
  <2> QED
    BY <2>1, <2>2, <2>3 DEF Environment
<1>3. keys \in SUBSET Kids
  BY DEF IInv, KeysTypeOK
<1>4. ASSUME NEW r \in Requests PROVE RequestInv(r)'
  <2>1. req[r].pc \in {"install", "again"} =>
          req[r].at <= clock' /\ clock' <= req[r].at + Lag
    <3>1. req[r].pc \in {"install", "again"} => req[r].at \in Nat
      BY PendingType DEF IInv, InFlight, Pending
    <3> QED
      BY <3>1, KeyAssumption
         DEF Environment, Tick, Publish, Withdraw, IInv, RequestInv, KeysTypeOK
  <2>2. req[r].pc = "install" => Suits(r, req[r].reply)'
    <3>1. req[r].pc = "install" => req[r].reply \in SUBSET Kids
      BY PendingType DEF IInv, InFlight, Pending
    <3> QED
      BY <1>1, <3>1, EnvironmentKeeps
         DEF IInv, RequestInv, Suits, Pending, Recent, Complete
  <2>3. req[r].pc = "again" => Suits(r, keys)'
    BY <1>1, <1>3, EnvironmentKeeps
       DEF IInv, RequestInv, Suits, Pending, Recent, Complete
  <2>4. req[r].pc = "refuse" => Complete(r, {})'
    BY EnvironmentKeeps DEF IInv, RequestInv, Pending
  <2>5. req[r].pc \in Pending =>
          req[r].excused \/ endpoint'[req[r].kid] # "new"
    BY EnvironmentKeeps
  <2> QED
    BY <1>1, <2>1, <2>2, <2>3, <2>4, <2>5 DEF IInv, RequestInv
<1>5. ASSUME NEW w \in Requests, NEW r \in Requests PROVE PairInv(w, r)'
  <2>1. req[w].pc = "install" => req[w].reply \in SUBSET Kids
    BY PendingType DEF IInv, InFlight, Pending
  <2> QED
    BY <1>1, <2>1, EnvironmentKeeps
       DEF IInv, PairInv, Suits, Pending, Recent, Complete
<1> QED
  BY <1>2, <1>4, <1>5 DEF Inv

\* So does an instance that is lost with its requests and its keys.
LEMMA RestartStep == IInv /\ Restart => Inv'
<1> SUFFICES ASSUME IInv, Restart PROVE Inv'
  OBVIOUS
<1>1. \A r \in Requests : req'[r].pc = "idle"
  BY DEF Restart, Idle
<1>2. MapInv'
  BY KeyAssumption DEF Restart, IInv, MapInv, KeysTypeOK
<1>3. ASSUME NEW r \in Requests PROVE RequestInv(r)'
  BY <1>1, KeyAssumption DEF Restart, RequestInv, Pending
<1>4. ASSUME NEW w \in Requests, NEW r \in Requests PROVE PairInv(w, r)'
  BY <1>1 DEF PairInv
<1> QED
  BY <1>2, <1>3, <1>4 DEF Inv

\* A request whose key was not published when it arrived is excused.
LEMMA ReceiveStep ==
    ASSUME IInv, NEW r \in Requests, NEW k \in TokenKids, Receive(r, k)
    PROVE  Inv'
<1> DEFINE next == [pc |-> "look", kid |-> k, reply |-> {}, at |-> 0,
                    excused |-> endpoint[k] # "published"]
<1>1. req'[r] = next /\ \A x \in Requests \ {r} : req'[x] = req[x]
  BY DEF Receive, IInv, KeysTypeOK
<1>2. writer # r
  BY DEF Receive, IInv, RequestInv, Idle
<1>3. /\ req'[r].pc = "look"
      /\ req'[r].kid = k
      /\ req'[r].excused = (endpoint[k] # "published")
  BY <1>1
<1>4. req'[r].excused \/ endpoint[k] # "new"
  BY <1>3, Zenon
<1>5. RequestInv(r)'
  BY <1>2, <1>3, <1>4 DEF Receive, RequestInv, Pending
<1> HIDE DEF next
<1> QED
  BY <1>1, <1>3, <1>5, QuietStep DEF Receive

\* A request that moves on without a reply keeps what it is excused for.
LEMMA GotoStep ==
    ASSUME IInv, NEW r \in Requests, req[r].pc \in {"look", "wait", "again"},
           NEW step \in {"wait", "fetch", "refuse"}, Goto(r, step),
           UNCHANGED <<clock, endpoint, keys, expiry, withdrawnAt>>,
           writer' = IF step = "fetch" THEN r ELSE writer,
           Unlocked,
           step = "refuse" => Complete(r, {})
    PROVE  Inv'
<1>1. req[r] \in InFlight
  BY PendingType DEF IInv, Pending
<1>2. req'[r] = [req[r] EXCEPT !.pc = step]
      /\ \A x \in Requests \ {r} : req'[x] = req[x]
  BY DEF Goto, IInv, KeysTypeOK
<1>3. /\ req'[r].pc = step
      /\ req'[r].kid = req[r].kid
      /\ req'[r].excused = req[r].excused
  BY <1>1, <1>2 DEF InFlight
<1>4. writer' = r <=> step = "fetch"
  BY KeyAssumption DEF Unlocked
<1>5. RequestInv(r)'
  BY <1>3, <1>4 DEF IInv, RequestInv, Complete, Pending
<1>6. \A x \in Requests \ {r} : writer' = x <=> writer = x
  BY KeyAssumption DEF Unlocked
<1> QED
  BY <1>2, <1>3, <1>5, <1>6, QuietStep

\* A request that leaves getPublicKey is of no concern any more.
LEMMA LeaveStep ==
    ASSUME IInv, NEW r \in Requests, writer # r,
           req' = [req EXCEPT ![r] = Idle] \/ Verified(r),
           UNCHANGED <<clock, endpoint, keys, expiry, writer, withdrawnAt>>
    PROVE  Inv'
<1>1. \A x \in Requests \ {r} : req'[x] = req[x]
  BY DEF Verified, IInv, KeysTypeOK
<1>2. req'[r].pc \in {"idle", "handle"}
  BY DEF Verified, Idle, Handling, IInv, KeysTypeOK
<1>3. RequestInv(r)'
  BY <1>2 DEF RequestInv, Pending
<1> QED
  BY <1>1, <1>2, <1>3, QuietStep

\* A request that arrives, or takes the lock, keeps it.
LEMMA AcquireStep ==
    ASSUME IInv, NEW r \in Requests, Acquire(r) PROVE Inv'
<1>1. Unlocked /\ writer # r
  BY KeyAssumption DEF Acquire, Look, Lock, LookAgain, Unlocked
<1>2. CASE Look(r)
  BY <1>1, <1>2, LeaveStep, GotoStep DEF Look
<1>3. CASE Lock(r)
  BY <1>1, <1>3, GotoStep DEF Lock
<1>4. CASE LookAgain(r)
  <2>1. req[r].kid \notin keys => Complete(r, {})
    BY <1>4 DEF LookAgain, IInv, RequestInv, Suits, Complete
  <2> QED
    BY <1>1, <1>4, <2>1, LeaveStep, GotoStep DEF LookAgain
<1> QED
  BY <1>2, <1>3, <1>4 DEF Acquire

\* A request that ends keeps it.
LEMMA AnswerStep ==
    ASSUME IInv, NEW r \in Requests, Answer(r) PROVE Inv'
<1>1. writer # r
  BY DEF Answer, IInv, RequestInv
<1> QED
  BY <1>1, LeaveStep DEF Answer

\* A fetch that fails excuses the refusal of its own request only.
LEMMA FetchFailedStep ==
    ASSUME IInv, NEW r \in Requests, FetchFailed(r) PROVE Inv'
<1>1. req[r] \in InFlight
  BY PendingType DEF IInv, Pending, FetchFailed
<1>2. req'[r] = [req[r] EXCEPT !.pc = "refuse", !.excused = TRUE]
      /\ \A x \in Requests \ {r} : req'[x] = req[x]
  BY DEF FetchFailed, IInv, KeysTypeOK
<1>3. req'[r].pc = "refuse" /\ req'[r].excused
  BY <1>1, <1>2 DEF InFlight
<1>4. writer = r /\ writer' = NoRequest
  BY DEF FetchFailed, IInv, RequestInv
<1>5. RequestInv(r)'
  BY <1>3, <1>4, KeyAssumption DEF RequestInv, Complete
<1>6. \A x \in Requests \ {r} : writer' = x <=> writer = x
  BY <1>4, KeyAssumption
<1> QED
  BY <1>2, <1>3, <1>5, <1>6, QuietStep DEF FetchFailed

\* What a reply writes: its request gets it, some requests get an excuse.
LEMMA ServeWrites ==
    ASSUME KeysTypeOK, NEW r \in Requests, NEW usable \in SUBSET Kids,
           Serve(r, usable), NEW x \in Requests
    PROVE  /\ x = r => /\ req'[x].pc = "install"
                       /\ req'[x].at = clock
                       /\ req'[x].reply = usable
           /\ x # r => /\ req'[x].pc = req[x].pc
                       /\ req[x].pc \in Pending => req'[x].at = req[x].at
           /\ x = r \/ req[x].pc \in Pending =>
                /\ req'[x].kid = req[x].kid
                /\ req[x].excused => req'[x].excused
           /\ x \in Deprived(r, usable) => req'[x].excused
<1> DEFINE next == [req[r] EXCEPT !.pc = "install", !.at = clock,
                                  !.reply = usable]
           old == IF x = r THEN next ELSE req[x]
<1>1. x = r \/ req[x].pc \in Pending => req[x] \in InFlight
  BY PendingType DEF Serve, Pending
<1>2. req'[x] = IF x \in Deprived(r, usable)
                THEN [old EXCEPT !.excused = TRUE] ELSE old
  BY DEF Serve, KeysTypeOK
<1>3. x = r \/ req[x].pc \in Pending => old \in InFlight
  BY <1>1 DEF InFlight, KeysTypeOK
<1>4. x \in Deprived(r, usable) => x = r \/ req[x].pc \in Pending
  BY DEF Deprived, Pending
<1>5. x = r => /\ old.pc = "install" /\ old.at = clock /\ old.reply = usable
               /\ old.kid = req[x].kid /\ old.excused = req[x].excused
  BY <1>1 DEF InFlight
<1>6. x # r => old = req[x]
  OBVIOUS
<1> HIDE DEF old
<1>7. CASE x \in Deprived(r, usable)
  <2>1. /\ req'[x].pc = old.pc
        /\ req'[x].at = old.at
        /\ req'[x].reply = old.reply
        /\ req'[x].kid = old.kid
        /\ req'[x].excused
    BY <1>2, <1>3, <1>4, <1>7 DEF InFlight
  <2> QED
    BY <1>5, <1>6, <2>1
<1>8. CASE x \notin Deprived(r, usable)
  <2>1. req'[x] = old
    BY <1>2, <1>8
  <2> QED
    BY <1>5, <1>6, <1>8, <2>1
<1> QED
  BY <1>7, <1>8

\* A reply suits the request that fetches it and all that are to look again.
LEMMA ServeStep ==
    ASSUME IInv, NEW r \in Requests, NEW usable \in SUBSET Kids,
           Serve(r, usable)
    PROVE  Inv'
<1>1. /\ UNCHANGED <<clock, endpoint, keys, expiry, writer, withdrawnAt>>
      /\ writer = r
      /\ usable \subseteq Published
  BY DEF Serve, IInv, RequestInv
<1>2. MapInv'
  BY <1>1 DEF IInv, MapInv
<1>3. ASSUME NEW x \in Requests, x = r \/ req[x].pc = "again"
      PROVE  Suits(x, usable)'
  <2>1. Recent(x, usable)'
    BY <1>1 DEF Recent, Published
  <2>2. req[x].kid \in Published \ usable => req'[x].excused
    BY <1>3, ServeWrites DEF Deprived, IInv
  <2>3. req[x].kid \in Kids /\ req'[x].kid = req[x].kid
    <3>1. req[x].pc \in Pending
      BY <1>3 DEF Serve, Pending
    <3>2. req[x] \in InFlight
      BY <3>1, PendingType DEF IInv
    <3> QED
      BY <3>1, <3>2, ServeWrites, KeyAssumption DEF IInv, InFlight
  <2>4. Complete(x, usable)'
    BY <1>1, <2>2, <2>3 DEF Complete, Published
  <2> QED
    BY <2>1, <2>4 DEF Suits
<1>4. ASSUME NEW x \in Requests PROVE RequestInv(x)'
  <2>1. CASE x = r
    <3>1. /\ req'[x].pc = "install"
          /\ req'[x].at = clock
          /\ req'[x].reply = usable
          /\ req'[x].excused \/ endpoint[req'[x].kid] # "new"
      <4>1. req[r].excused \/ endpoint[req[r].kid] # "new"
        BY DEF IInv, RequestInv, Serve, Pending
      <4>2. /\ req'[r].pc = "install"
            /\ req'[r].at = clock
            /\ req'[r].reply = usable
            /\ req'[r].kid = req[r].kid
            /\ req[r].excused => req'[r].excused
        BY ServeWrites DEF IInv
      <4> QED
        BY <2>1, <4>1, <4>2
    <3>2. Suits(x, req[x].reply)'
      BY <1>3, <2>1, <3>1 DEF Suits, Recent, Complete
    <3> QED
      BY <1>1, <2>1, <3>1, <3>2, KeyAssumption
         DEF IInv, RequestInv, KeysTypeOK
  <2>2. CASE x # r
    <3>1. /\ req'[x].pc = req[x].pc
          /\ req[x].pc \in Pending =>
               /\ req'[x].at = req[x].at
               /\ req'[x].kid = req[x].kid
               /\ req[x].excused => req'[x].excused
      BY <2>2, ServeWrites DEF IInv
    <3>2. req[x].pc # "install"
      BY <1>1, <2>2 DEF IInv, RequestInv
    <3> QED
      BY <1>1, <3>1, <3>2
         DEF IInv, RequestInv, Suits, Recent, Complete, Pending
  <2> QED
    BY <2>1, <2>2
<1>5. ASSUME NEW w \in Requests, NEW x \in Requests PROVE PairInv(w, x)'
  <2>1. req'[w].pc = "install" => w = r
    BY <1>1, ServeWrites DEF IInv, RequestInv
  <2>2. req'[r].reply = usable /\ req'[r].pc = "install"
    BY ServeWrites DEF IInv
  <2>3. req'[x].pc = "again" => req[x].pc = "again"
    BY ServeWrites DEF IInv
  <2> QED
    BY <1>3, <2>1, <2>2, <2>3 DEF PairInv, Suits, Recent, Complete
<1> QED
  BY <1>2, <1>4, <1>5 DEF Inv

\* The keys that a reply brings suit all who will look for theirs.
LEMMA InstallStep ==
    ASSUME IInv, NEW r \in Requests, Install(r) PROVE Inv'
<1>1. /\ req[r] \in InFlight
      /\ req[r].reply \in SUBSET Kids
      /\ req[r].at \in Nat
  BY PendingType DEF IInv, Install, Pending, InFlight
<1>2. /\ UNCHANGED <<clock, endpoint, withdrawnAt>>
      /\ keys' = req[r].reply
      /\ writer = r /\ writer' = NoRequest
      /\ Suits(r, req[r].reply)
      /\ req[r].at <= clock /\ clock <= req[r].at + Lag
      /\ req[r].excused \/ endpoint[req[r].kid] # "new"
  BY DEF Install, IInv, RequestInv, Pending
<1>3. /\ req'[r].pc = IF req[r].reply = {} THEN "refuse" ELSE "again"
      /\ req'[r].at = req[r].at
      /\ req'[r].kid = req[r].kid
      /\ req'[r].excused = req[r].excused
      /\ \A x \in Requests \ {r} : req'[x] = req[x]
  <2> DEFINE next == [req[r] EXCEPT
                        !.pc = IF req[r].reply = {} THEN "refuse" ELSE "again",
                        !.reply = {}]
  <2>1. req'[r] = next /\ \A x \in Requests \ {r} : req'[x] = req[x]
    BY DEF Install, IInv, KeysTypeOK
  <2> QED
    BY <1>1, <2>1 DEF InFlight
<1>4. MapInv'
  <2>1. expiry' = IF req[r].reply = {} THEN expiry ELSE clock + KeyTTL
    BY DEF Install
  <2>2. \A k \in Kids : withdrawnAt[k] \in Nat
    BY DEF IInv, KeysTypeOK
  <2>3. \A k \in req[r].reply :
          endpoint[k] = "withdrawn" =>
            clock + KeyTTL <= withdrawnAt[k] + KeyTTL + Lag
    BY <1>1, <1>2, <2>2, KeyAssumption DEF Suits, Recent, IInv, KeysTypeOK
  <2> QED
    BY <1>2, <2>1, <2>3, KeyAssumption DEF IInv, MapInv, KeysTypeOK
<1>5. ASSUME NEW x \in Requests PROVE RequestInv(x)'
  <2>1. CASE x = r
    BY <1>2, <1>3, <2>1, KeyAssumption
       DEF RequestInv, Suits, Recent, Complete
  <2>2. CASE x # r
    <3>1. req[x].pc # "install" /\ req[x].pc # "fetch"
      BY <1>2, <2>2 DEF IInv, RequestInv
    <3>2. req[x].pc = "again" => Suits(x, req[r].reply)
      BY DEF IInv, PairInv, Install
    <3> QED
      BY <1>2, <1>3, <2>2, <3>1, <3>2, KeyAssumption
         DEF IInv, RequestInv, Suits, Recent, Complete
  <2> QED
    BY <2>1, <2>2
<1>6. ASSUME NEW w \in Requests, NEW x \in Requests PROVE PairInv(w, x)'
  BY <1>2, <1>3 DEF IInv, RequestInv, PairInv
<1> QED
  BY <1>4, <1>5, <1>6 DEF Inv

-----------------------------------------------------------------------------
(* Theorems                                                                *)

\* The invariant holds in the beginning.
LEMMA InvInitially == KeysInit => IInv
<1> SUFFICES ASSUME KeysInit PROVE IInv
  OBVIOUS
<1>1. \A r \in Requests : req[r].pc = "idle"
  BY DEF KeysInit, Idle
<1>2. KeysTypeOK
  BY DEF KeysInit, KeysTypeOK
<1>3. MapInv
  BY KeyAssumption DEF KeysInit, MapInv
<1>4. ASSUME NEW r \in Requests PROVE RequestInv(r)
  BY <1>1, KeyAssumption DEF KeysInit, RequestInv, Pending
<1> QED
  BY <1>1, <1>2, <1>3, <1>4 DEF IInv, PairInv

\* Every step of the key cache keeps the invariant.
LEMMA InvPreserved == IInv /\ [KeysNext]_kvars => IInv'
<1> SUFFICES ASSUME IInv, [KeysNext]_kvars PROVE IInv'
  OBVIOUS
<1>1. KeysTypeOK'
  BY KeysNextType DEF IInv
<1>2. CASE Environment
  BY <1>1, <1>2, EnvironmentStep DEF IInv, Inv
<1>3. CASE Restart
  BY <1>1, <1>3, RestartStep DEF IInv, Inv
<1>4. ASSUME NEW r \in Requests, NEW k \in TokenKids, Receive(r, k)
      PROVE  IInv'
  BY <1>1, <1>4, ReceiveStep DEF IInv, Inv
<1>5. ASSUME NEW r \in Requests, Verifying(r) PROVE IInv'
  <2>1. Inv'
    BY <1>5, AcquireStep, ServeStep, FetchFailedStep, InstallStep, AnswerStep
       DEF Verifying, Fetch
  <2> QED
    BY <1>1, <2>1 DEF IInv, Inv
<1>6. CASE UNCHANGED kvars
  BY <1>1, <1>6
     DEF IInv, kvars, MapInv, RequestInv, PairInv, Suits, Recent, Complete
<1> QED
  BY <1>2, <1>3, <1>4, <1>5, <1>6 DEF KeysNext

\* The map a request is about to look into, and the reply it is about to
\* install, suit it at any time (auth_jwt.go:178-249).
THEOREM KeysInvariant == KeysSpec => []IInv
<1> QED
  BY InvInitially, InvPreserved, PTL DEF KeysSpec

\* Whatever the replies and their order, a token whose key is published is
\* refused only because a fetch has lost that key or failed
\* (auth_jwt.go:189-198 and 233-245).
THEOREM RefusalsHaveCauses == KeysSpec => []RefusalHasCause
<1>1. IInv => RefusalHasCause
  BY DEF IInv, RequestInv, Complete, RefusalHasCause
<1> QED
  BY <1>1, KeysInvariant, PTL

\* A request is verified by a look of its own.
LEMMA OnlyLooksVerify ==
    ASSUME IInv, KeysNext, NEW r \in Requests, Verifies(r)
    PROVE  \/ req[r].pc = "look" /\ Cached(req[r].kid)
           \/ req[r].pc = "again" /\ req[r].kid \in keys
<1>1. req[r].pc \in {"look", "again"} /\ req'[r].pc = "handle"
  BY DEF Verifies, Handling
<1>2. CASE Environment
  BY <1>1, <1>2 DEF Environment, Tick, Publish, Withdraw
<1>3. CASE Restart
  BY <1>1, <1>3 DEF Restart, Idle
<1>4. ASSUME NEW x \in Requests, NEW k \in TokenKids, Receive(x, k)
      PROVE  FALSE
  BY <1>1, <1>4 DEF Receive, Idle, IInv, KeysTypeOK
<1>5. ASSUME NEW x \in Requests, x # r, Verifying(x) PROVE FALSE
  <2>1. ASSUME NEW usable \in SUBSET Kids, Serve(x, usable) PROVE FALSE
    BY <1>1, <1>5, <2>1, ServeWrites DEF IInv
  <2> QED
    BY <1>1, <1>5, <2>1
       DEF Verifying, Acquire, Fetch, Look, Lock, LookAgain, Goto, Verified,
           FetchFailed, Install, Answer, IInv, KeysTypeOK
<1>6. CASE Verifying(r)
  <2>1. CASE Look(r)
    <3>1. req'[r].pc # "wait"
      BY <1>1
    <3>2. ~ Goto(r, "wait")
      <4>1. SUFFICES ASSUME Goto(r, "wait") PROVE FALSE
        OBVIOUS
      <4>2. req[r] \in InFlight
        BY <1>1, PendingType DEF IInv, Pending
      <4>3. req'[r] = [req[r] EXCEPT !.pc = "wait"]
        BY <4>1 DEF Goto, IInv, KeysTypeOK
      <4> QED
        BY <3>1, <4>2, <4>3 DEF InFlight
    <3> QED
      BY <2>1, <3>2 DEF Look
  <2>2. CASE LookAgain(r)
    <3>1. ~ Goto(r, "refuse")
      <4>1. SUFFICES ASSUME Goto(r, "refuse") PROVE FALSE
        OBVIOUS
      <4>2. req[r] \in InFlight
        BY <1>1, PendingType DEF IInv, Pending
      <4>3. req'[r] = [req[r] EXCEPT !.pc = "refuse"]
        BY <4>1 DEF Goto, IInv, KeysTypeOK
      <4> QED
        BY <1>1, <4>2, <4>3 DEF InFlight
    <3> QED
      BY <2>2, <3>1 DEF LookAgain
  <2> QED
    BY <1>1, <1>6, <2>1, <2>2
       DEF Verifying, Acquire, Fetch, Lock, Serve, FetchFailed, Install, Answer
<1> QED
  BY <1>2, <1>3, <1>4, <1>5, <1>6 DEF KeysNext

\* A withdrawn key that a look finds is in a map that has not expired, or the
\* request has taken a reply of its own before the key was withdrawn.
LEMMA VerifiesInTime ==
    ASSUME IInv, KeysNext, NEW r \in Requests, Verifies(r),
           endpoint[req[r].kid] = "withdrawn"
    PROVE  clock < withdrawnAt[req[r].kid] + KeyTTL + Lag
<1>1. req[r] \in InFlight
  BY PendingType DEF IInv, Verifies, Pending
<1>2. req[r].kid \in Kids /\ req[r].at \in Nat
  BY <1>1, KeyAssumption DEF InFlight
<1>3. /\ withdrawnAt[req[r].kid] \in Nat
      /\ expiry \in Nat
      /\ clock \in Nat
  BY <1>2 DEF IInv, KeysTypeOK
<1>4. CASE req[r].pc = "look" /\ Cached(req[r].kid)
  BY <1>3, <1>4, KeyAssumption DEF Cached, IInv, MapInv
<1>5. CASE req[r].pc = "again" /\ req[r].kid \in keys
  <2>1. /\ clock <= req[r].at + Lag
        /\ req[r].at <= withdrawnAt[req[r].kid]
    BY <1>5 DEF IInv, RequestInv, Suits, Recent
  <2> QED
    BY <1>2, <1>3, <2>1, KeyAssumption
<1> QED
  BY <1>4, <1>5, OnlyLooksVerify

\* A withdrawn key verifies tokens for less than KeyTTL + Lag after that,
\* whatever the order in which replies are served and installed
\* (auth_jwt.go:181-198 and 233-248).
THEOREM WithdrawnKeysExpire == KeysSpec => WithdrawnKeysFade
<1>1. IInv /\ [KeysNext]_kvars =>
        [\A r \in Requests :
           Verifies(r) /\ endpoint[req[r].kid] = "withdrawn" =>
             clock < withdrawnAt[req[r].kid] + KeyTTL + Lag]_kvars
  BY VerifiesInTime
<1> QED
  BY <1>1, KeysInvariant, PTL DEF KeysSpec, WithdrawnKeysFade

-----------------------------------------------------------------------------
(* The instance                                                            *)

\* Whatever happens to an instance, its requests and keys see a step of
\* KeyCache, a restart of the cache, or nothing.
LEMMA StepIsKeysStep == [Next]_vars => [KeysNext]_kvars
<1> SUFFICES ASSUME [Next]_vars PROVE [KeysNext]_kvars
  OBVIOUS
<1>1. CASE Shutdown
  BY <1>1 DEF Shutdown
<1>2. CASE Return \/ Crash
  BY <1>2 DEF Return, Crash, Replaced, KeysNext
<1>3. CASE Serving
  BY <1>3 DEF Serving, KeysNext
<1>4. ASSUME NEW r \in Requests, NEW k \in TokenKids, Accept(r, k)
      PROVE  [KeysNext]_kvars
  BY <1>4 DEF Accept, KeysNext
<1>5. CASE UNCHANGED vars
  BY <1>5 DEF vars
<1> QED
  BY <1>1, <1>2, <1>3, <1>4, <1>5 DEF Next

\* Every behaviour of an instance is one of its key cache
\* (main.go:166-190 around auth_jwt.go:178-249).
THEOREM InstanceImplementsKeys == Spec => KeysSpec
BY StepIsKeysStep, PTL DEF Spec, Init, KeysSpec

\* main and the time at which it closed the listener keep their types.
LEMMA MainType ==
    (main \in {"serving", "closing"} /\ closedAt \in Nat) /\ KeysTypeOK
      /\ [Next]_vars
        => (main \in {"serving", "closing"} /\ closedAt \in Nat)'
<1> SUFFICES ASSUME main \in {"serving", "closing"}, closedAt \in Nat,
                    KeysTypeOK, [Next]_vars
             PROVE  (main \in {"serving", "closing"} /\ closedAt \in Nat)'
  OBVIOUS
<1> QED
  BY DEF Next, vars, Shutdown, Return, Crash, Replaced, Serving, Accept,
         KeysTypeOK

\* The states of an instance and of its keys keep their types.
THEOREM TypeCorrect == Spec => []TypeOK
<1>1. Init => TypeOK
  BY InvInitially DEF Init, TypeOK, IInv
<1>2. TypeOK /\ [Next]_vars => TypeOK'
  BY MainType, StepIsKeysStep, KeysNextType DEF TypeOK
<1> QED
  BY <1>1, <1>2, PTL DEF Spec

\* An instance refuses a token whose key is published only because a fetch
\* has lost that key or failed (auth_jwt.go:189-198 and 233-245).
THEOREM RefusalIsCaused == Spec => []RefusalHasCause
BY InstanceImplementsKeys, RefusalsHaveCauses, PTL

\* An instance admits tokens of a withdrawn key for less than KeyTTL + Lag
\* (auth_jwt.go:181-198 and 233-248).
THEOREM WithdrawnKeysStop == Spec => WithdrawnKeysFade
BY InstanceImplementsKeys, WithdrawnKeysExpire, PTL

=============================================================================
