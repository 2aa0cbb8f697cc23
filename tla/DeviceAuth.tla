----------------------------- MODULE DeviceAuth -----------------------------
(***************************************************************************)
(* Device access across the instances of the telemetry API                 *)
(* (handlers/auth.go, handlers/handlers.go, pkg/cache/ttl.go).             *)
(*                                                                         *)
(* The devices collection of Firestore is shared; each instance keeps its  *)
(* own cache of "is this device revoked?" in front of it.  A request is a  *)
(* process that takes the steps of its handler one store or cache access   *)
(* at a time, so requests overtake each other between any two of them:     *)
(* the cache is unlocked while the loader reads the store, and a token is  *)
(* issued some time after the device was looked up (bcrypt, remote         *)
(* signing).                                                               *)
(*                                                                         *)
(*   operation    handler           steps                                  *)
(*   "auth"       AuthDevice        lookup, issue, touch                   *)
(*   "refresh"    RefreshToken      verify .. store, lookup, issue, touch  *)
(*   "info"       UpdateDeviceInfo  verify .. store, touch                 *)
(*   "use"        other protected   verify .. store                        *)
(*   "revoke"     RevokeDevice      revoke, invalidate                     *)
(***************************************************************************)
EXTENDS Naturals

CONSTANTS
    Devices,     \* device identities (UUIDs)
    Instances,   \* running instances of the service, each with its own cache
    Requests,    \* slots for the requests in flight
    StatusTTL,   \* DeviceStatusCacheTTL
    TokenTTL,    \* lifetime of a token
    Lag,         \* longest time from a request's read of the store to its use
    MaxTime      \* bound: the clock stops here

ASSUME TimingAssumption ==
    /\ StatusTTL \in Nat \ {0}
    /\ TokenTTL \in Nat \ {0}
    /\ Lag \in Nat
    /\ MaxTime \in Nat

VARIABLES
    clock,       \* the common real-time clock
    device,      \* the device documents: "absent", "active" or "revoked"
    cache,       \* deviceStatusCache of each instance
    tokenExp,    \* expiry of the newest token of each device, 0 for none
    req,         \* what each slot is doing
    \* History variables: no action reads them.
    revokedAt,   \* when the device was revoked
    lastAdmit,   \* when AuthMiddleware last called next for the device
    faultUntil   \* until when a failed status load of the device may be felt

vars == <<clock, device, cache, tokenExp, req,
          revokedAt, lastAdmit, faultUntil>>

history == <<revokedAt, lastAdmit, faultUntil>>

-----------------------------------------------------------------------------

Statuses == {"absent", "active", "revoked"}

Ops == {"auth", "refresh", "info", "use", "revoke"}

Steps == {"verify", "status", "load", "store", "lookup", "issue", "touch",
          "revoke", "invalidate"}

\* A cached answer to "is the device revoked?".
Entry == [value : BOOLEAN, expiresAt : Nat]

\* A missing entry is one that has always been expired.
NoEntry == [value |-> FALSE, expiresAt |-> 0]

\* A request in flight.  value is what its status load returned and at the
\* time of the read of the store it is about to use, 0 if there is none; late
\* tells whether the device had already been revoked when it arrived.
InFlight == [op : Ops, pc : Steps, inst : Instances, dev : Devices,
             value : BOOLEAN, at : Nat, late : BOOLEAN]

Idle == [pc |-> "idle"]

TypeOK ==
    /\ clock \in Nat
    /\ device \in [Devices -> Statuses]
    /\ cache \in [Instances -> [Devices -> Entry]]
    /\ tokenExp \in [Devices -> Nat]
    /\ req \in [Requests -> InFlight \cup {Idle}]
    /\ revokedAt \in [Devices -> Nat]
    /\ lastAdmit \in [Devices -> Nat]
    /\ faultUntil \in [Devices -> Nat]

Init ==
    /\ clock = 0
    /\ device = [d \in Devices |-> "absent"]
    /\ cache = [i \in Instances |-> [d \in Devices |-> NoEntry]]
    /\ tokenExp = [d \in Devices |-> 0]
    /\ req = [r \in Requests |-> Idle]
    /\ revokedAt = [d \in Devices |-> 0]
    /\ lastAdmit = [d \in Devices |-> 0]
    /\ faultUntil = [d \in Devices |-> 0]

-----------------------------------------------------------------------------
(* Helpers                                                                 *)

\* Mutant: an entry is still used at the moment it expires.
FreshAtExpiry(e) == clock <= e.expiresAt

\* cache.Get answers from the entry while time.Now().Before(e.expiresAt).
Fresh(e) == clock < e.expiresAt

\* The answer of the status loader: anything but a device that was read and
\* is not revoked counts as revoked.
RevokedAnswer(d) == device[d] # "active"

\* Mutant: the entry lives longer than the TTL.
FilledTooLong(v) == [value |-> v, expiresAt |-> clock + StatusTTL + 1]

\* The entry that cache.Get stores: it lives for the TTL from now on, not
\* from the read of the store.
Filled(v) == [value |-> v, expiresAt |-> clock + StatusTTL]

FirstStep(op) ==
    CASE op = "auth"   -> "lookup"
      [] op = "revoke" -> "revoke"
      [] OTHER         -> "verify"

Goto(r, step) ==
    req' = [req EXCEPT ![r] = [@ EXCEPT !.pc = step, !.at = 0]]

\* The request has read the store and is about to use what it read.
Read(r, step, v) ==
    req' = [req EXCEPT ![r] =
              [@ EXCEPT !.pc = step, !.at = clock, !.value = v]]

\* The handler has written its response.
Finish(r) == req' = [req EXCEPT ![r] = Idle]

\* Reads of the store whose result is still to be used.
Pending(r) == req[r].pc \in {"store", "issue"}

-----------------------------------------------------------------------------
(* Requests arrive, time passes, instances come and go                     *)

Receive(r, op, i, d) ==
    /\ req[r] = Idle
    /\ req' = [req EXCEPT ![r] =
                 [op |-> op, pc |-> FirstStep(op), inst |-> i, dev |-> d,
                  value |-> FALSE, at |-> 0,
                  late |-> device[d] = "revoked"]]
    /\ UNCHANGED <<clock, device, cache, tokenExp, history>>

\* Time passes, but no result of a read outlives Lag before it is used.
Tick ==
    /\ clock < MaxTime
    /\ \A r \in Requests : Pending(r) => clock < req[r].at + Lag
    /\ clock' = clock + 1
    /\ UNCHANGED <<device, cache, tokenExp, req, history>>

\* An instance is stopped and another takes its place: the cache is empty
\* and the requests it was serving are gone, wherever they were.
Restart(i) ==
    /\ cache' = [cache EXCEPT ![i] = [d \in Devices |-> NoEntry]]
    /\ req' = [r \in Requests |->
                 IF req[r] # Idle /\ req[r].inst = i THEN Idle ELSE req[r]]
    /\ UNCHANGED <<clock, device, tokenExp, history>>

\* ProvisionDevice stores a device under a fresh UUID.
Register(d) ==
    /\ device[d] = "absent"
    /\ device' = [device EXCEPT ![d] = "active"]
    /\ UNCHANGED <<clock, cache, tokenExp, req, history>>

-----------------------------------------------------------------------------
(* AuthMiddleware: verify the token, then ask the status cache             *)

\* Mutant: RefreshToken trusts the middleware and does not look again.
AfterAdmitTrusting(r) ==
    CASE req[r].op = "refresh" -> Goto(r, "issue")
      [] req[r].op = "info"    -> Goto(r, "touch")
      [] OTHER                 -> Finish(r)

\* Where an admitted request goes on.
AfterAdmit(r) ==
    CASE req[r].op = "refresh" -> Goto(r, "lookup")
      [] req[r].op = "info"    -> Goto(r, "touch")
      [] OTHER                 -> Finish(r)

\* The middleware's verdict: revoked is refused, anything else is admitted.
Decide(r, revoked) ==
    IF revoked
    THEN Finish(r) /\ UNCHANGED lastAdmit
    ELSE /\ AfterAdmit(r)
         /\ lastAdmit' = [lastAdmit EXCEPT ![req[r].dev] = clock]

VerifyToken(r) ==
    /\ req[r].pc = "verify"
    /\ IF clock < tokenExp[req[r].dev] THEN Goto(r, "status") ELSE Finish(r)
    /\ UNCHANGED <<clock, device, cache, tokenExp, history>>

StatusHit(r) ==
    /\ req[r].pc = "status"
    /\ LET e == cache[req[r].inst][req[r].dev]
       IN  Fresh(e) /\ Decide(r, e.value)
    /\ UNCHANGED <<clock, device, cache, tokenExp, revokedAt, faultUntil>>

\* The read lock is released before the loader runs.
StatusMiss(r) ==
    /\ req[r].pc = "status"
    /\ ~ Fresh(cache[req[r].inst][req[r].dev])
    /\ Goto(r, "load")
    /\ UNCHANGED <<clock, device, cache, tokenExp, history>>

LoadStatus(r) ==
    /\ req[r].pc = "load"
    /\ Read(r, "store", RevokedAnswer(req[r].dev))
    /\ UNCHANGED <<clock, device, cache, tokenExp, history>>

\* The read fails: the loader answers "revoked" instead of an error, so the
\* answer is cached like any other.
LoadFault(r) ==
    /\ req[r].pc = "load"
    /\ Read(r, "store", TRUE)
    /\ faultUntil' = [faultUntil EXCEPT ![req[r].dev] = clock + Lag + StatusTTL]
    /\ UNCHANGED <<clock, device, cache, tokenExp, revokedAt, lastAdmit>>

StoreStatus(r) ==
    /\ req[r].pc = "store"
    /\ cache' = [cache EXCEPT ![req[r].inst][req[r].dev] = Filled(req[r].value)]
    /\ Decide(r, req[r].value)
    /\ UNCHANGED <<clock, device, tokenExp, revokedAt, faultUntil>>

-----------------------------------------------------------------------------
(* AuthDevice and RefreshToken: look the device up, then issue a token     *)

\* Mutant: Revoked is not looked at.
LookupKnown(r) ==
    /\ req[r].pc = "lookup"
    /\ device[req[r].dev] # "absent"
    /\ Read(r, "issue", FALSE)
    /\ UNCHANGED <<clock, device, cache, tokenExp, history>>

LookupActive(r) ==
    /\ req[r].pc = "lookup"
    /\ device[req[r].dev] = "active"
    /\ Read(r, "issue", FALSE)
    /\ UNCHANGED <<clock, device, cache, tokenExp, history>>

\* Unknown or revoked device, failed read or wrong secret.
LookupRefused(r) ==
    /\ req[r].pc = "lookup"
    /\ Finish(r)
    /\ UNCHANGED <<clock, device, cache, tokenExp, history>>

IssueToken(r) ==
    /\ req[r].pc = "issue"
    /\ tokenExp' = [tokenExp EXCEPT ![req[r].dev] = clock + TokenTTL]
    /\ Goto(r, "touch")
    /\ UNCHANGED <<clock, device, cache, history>>

IssueFault(r) ==
    /\ req[r].pc = "issue"
    /\ Finish(r)
    /\ UNCHANGED <<clock, device, cache, tokenExp, history>>

\* Mutant: the whole document is written back as it was read.
TouchWholeDevice(r) ==
    /\ req[r].pc = "touch"
    /\ device' = [device EXCEPT ![req[r].dev] = "active"]
    /\ Finish(r)
    /\ UNCHANGED <<clock, cache, tokenExp, history>>

\* UpdateLastSeen and UpdateAppInfo name the fields they write: the rest of
\* the document, revoked included, is left as it is.
TouchDevice(r) ==
    /\ req[r].pc = "touch"
    /\ Finish(r)
    /\ UNCHANGED <<clock, device, cache, tokenExp, history>>

-----------------------------------------------------------------------------
(* RevokeDevice: write the store, then drop this instance's cache entry    *)

SetRevoked(d) ==
    /\ device[d] # "absent"
    /\ device' = [device EXCEPT ![d] = "revoked"]
    /\ revokedAt' = IF device[d] = "active"
                    THEN [revokedAt EXCEPT ![d] = clock]
                    ELSE revokedAt

RevokeStored(r) ==
    /\ req[r].pc = "revoke"
    /\ SetRevoked(req[r].dev)
    /\ Goto(r, "invalidate")
    /\ UNCHANGED <<clock, cache, tokenExp, lastAdmit, faultUntil>>

\* The write is applied but its reply is an error: the cache is not touched.
RevokeReplyLost(r) ==
    /\ req[r].pc = "revoke"
    /\ SetRevoked(req[r].dev)
    /\ Finish(r)
    /\ UNCHANGED <<clock, cache, tokenExp, lastAdmit, faultUntil>>

\* No such device, or the write is not applied.
RevokeFailed(r) ==
    /\ req[r].pc = "revoke"
    /\ Finish(r)
    /\ UNCHANGED <<clock, device, cache, tokenExp, history>>

Invalidate(r) ==
    /\ req[r].pc = "invalidate"
    /\ cache' = [cache EXCEPT ![req[r].inst][req[r].dev] = NoEntry]
    /\ Finish(r)
    /\ UNCHANGED <<clock, device, tokenExp, revokedAt, lastAdmit, faultUntil>>

-----------------------------------------------------------------------------

Middleware(r) ==
    \/ VerifyToken(r)
    \/ StatusHit(r)
    \/ StatusMiss(r)
    \/ LoadStatus(r)
    \/ LoadFault(r)
    \/ StoreStatus(r)

Issuing(r) ==
    \/ LookupActive(r)
    \/ LookupRefused(r)
    \/ IssueToken(r)
    \/ IssueFault(r)
    \/ TouchDevice(r)

Revoking(r) ==
    \/ RevokeStored(r)
    \/ RevokeReplyLost(r)
    \/ RevokeFailed(r)
    \/ Invalidate(r)

Next ==
    \/ Tick
    \/ \E i \in Instances : Restart(i)
    \/ \E d \in Devices : Register(d)
    \/ \E r \in Requests, op \in Ops, i \in Instances, d \in Devices :
         Receive(r, op, i, d)
    \/ \E r \in Requests : Middleware(r) \/ Issuing(r) \/ Revoking(r)

Spec == Init /\ [][Next]_vars

-----------------------------------------------------------------------------
(* Properties                                                              *)

\* A revoked device is let in for less than StatusTTL + Lag after its
\* revocation, on every instance, whatever fills of the status caches were
\* under way when it was revoked and whether or not Invalidate ran
\* (auth.go:183-203 over the entries that ttl.go:57-60 stores).
RevocationBound ==
    \A d \in Devices :
        device[d] = "revoked" => lastAdmit[d] < revokedAt[d] + StatusTTL + Lag

\* No token of a revoked device outlives the revocation by more than a token
\* lifetime and the handler's own delay, although AuthDevice and RefreshToken
\* issue the token long after they checked Revoked, and RefreshToken is
\* reached through a cache that may still admit the device.
SessionBound ==
    \A d \in Devices :
        device[d] = "revoked" => tokenExp[d] <= revokedAt[d] + Lag + TokenTTL

\* A request that arrived after the revocation gets no token, even if a stale
\* cache entry carried it through the middleware: RefreshToken looks the
\* device up again (auth.go:269-287).
NoTokenForLateRequest ==
    \A r \in Requests : req[r].pc = "issue" => ~ req[r].late

\* A device that is not revoked is refused as revoked only after a failed
\* read of its status, and no longer than Lag + StatusTTL after it: the
\* loader turns an error into a cached "revoked" (handlers.go:80-83).
LockoutBound ==
    \A d \in Devices : device[d] = "active" =>
        /\ \A i \in Instances :
             Fresh(cache[i][d]) /\ cache[i][d].value => clock < faultUntil[d]
        /\ \A r \in Requests :
             req[r].pc = "store" /\ req[r].dev = d /\ req[r].value
                => clock < faultUntil[d]

\* Everything the instances do together is what AccessPolicy allows.
Policy == INSTANCE AccessPolicy
              WITH AdmitGrace <- StatusTTL + Lag,
                   RenewGrace <- Lag,
                   Session <- TokenTTL

PolicySpec == Policy!Spec

\* "Check if device is revoked (cached, max 5 min delay)" (auth.go:182) and
\* "controls max revocation delay" (handlers.go:19): a revoked device is not
\* let in once DeviceStatusCacheTTL has passed.
DocumentedDelay ==
    \A d \in Devices :
        device[d] = "revoked" => lastAdmit[d] < revokedAt[d] + StatusTTL

=============================================================================
