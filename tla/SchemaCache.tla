---------------------------- MODULE SchemaCache -----------------------------
(***************************************************************************)
(* Measurement schemas behind the per-instance cache (handlers/cache.go    *)
(* and schemas.go over pkg/cache/ttl.go).  Save writes the store and then  *)
(* the instance's cache, Get fills the cache from the store, and neither   *)
(* holds a lock over both, so a cache may end up with a schema that the    *)
(* store has already replaced.  An upload under an existing name and       *)
(* version replaces the schema; the schemas of one key are numbered in the *)
(* order in which they reach the store.                                    *)
(***************************************************************************)
EXTENDS Naturals

CONSTANTS
    Keys,        \* schema keys: pairs of an app name and a version
    Instances,   \* running instances of the service, each with its own cache
    Requests,    \* slots for the requests in flight
    SchemaTTL,   \* SchemaCacheTTL
    Lag,         \* longest time between a request's store access and its fill
    MaxUploads,  \* bound: uploads of one key that reach the store
    MaxTime      \* bound: the clock stops here

ASSUME CacheAssumption ==
    /\ SchemaTTL \in Nat \ {0}
    /\ Lag \in Nat
    /\ MaxUploads \in Nat
    /\ MaxTime \in Nat

VARIABLES
    clock,       \* the common real-time clock
    store,       \* the revision in the schemas collection, 0 for none
    cache,       \* the TTL cache of each instance
    req,         \* what each slot is doing
    \* History variable: no action reads it.
    replacedAt   \* when each revision was replaced in the store

vars == <<clock, store, cache, req, replacedAt>>

Revisions == 1 .. MaxUploads

Entry == [rev : Revisions \cup {0}, expiresAt : Nat]

\* A missing entry is one that has always been expired.
NoEntry == [rev |-> 0, expiresAt |-> 0]

\* at is the time of the store access whose outcome is still to be cached,
\* rev the revision that it read or wrote.
InFlight == [pc : {"get", "load", "fill", "save", "set"}, inst : Instances,
             key : Keys, rev : Revisions \cup {0}, at : Nat]

Idle == [pc |-> "idle"]

TypeOK ==
    /\ clock \in Nat
    /\ store \in [Keys -> Revisions \cup {0}]
    /\ cache \in [Instances -> [Keys -> Entry]]
    /\ req \in [Requests -> InFlight \cup {Idle}]
    /\ replacedAt \in [Keys -> [Revisions -> Nat]]

Init ==
    /\ clock = 0
    /\ store = [k \in Keys |-> 0]
    /\ cache = [i \in Instances |-> [k \in Keys |-> NoEntry]]
    /\ req = [r \in Requests |-> Idle]
    /\ replacedAt = [k \in Keys |-> [v \in Revisions |-> 0]]

-----------------------------------------------------------------------------
(* Helpers                                                                 *)

Fresh(e) == clock < e.expiresAt

\* Mutant: an entry lives longer than the TTL.
FilledTooLong(v) == [rev |-> v, expiresAt |-> clock + SchemaTTL + 1]

Filled(v) == [rev |-> v, expiresAt |-> clock + SchemaTTL]

\* The request has accessed the store and is about to write the cache.
Accessed(r, step, v) ==
    req' = [req EXCEPT ![r] = [@ EXCEPT !.pc = step, !.rev = v, !.at = clock]]

Finish(r) == req' = [req EXCEPT ![r] = Idle]

\* The cache takes the request's revision, for a whole TTL from now on.
Put(r) ==
    cache' = [cache EXCEPT ![req[r].inst][req[r].key] = Filled(req[r].rev)]

Pending(r) == req[r].pc \in {"fill", "set"}

-----------------------------------------------------------------------------

\* GetSchema and HandleTelemetryProto start with "get", UploadSchema with
\* "save".
Receive(r, step, i, k) ==
    /\ req[r] = Idle
    /\ req' = [req EXCEPT ![r] =
                 [pc |-> step, inst |-> i, key |-> k, rev |-> 0, at |-> 0]]
    /\ UNCHANGED <<clock, store, cache, replacedAt>>

\* Time passes, but nothing waits longer than Lag to be cached.
Tick ==
    /\ clock < MaxTime
    /\ \A r \in Requests : Pending(r) => clock < req[r].at + Lag
    /\ clock' = clock + 1
    /\ UNCHANGED <<store, cache, req, replacedAt>>

\* An instance is replaced: its cache and its requests are gone.
Restart(i) ==
    /\ cache' = [cache EXCEPT ![i] = [k \in Keys |-> NoEntry]]
    /\ req' = [r \in Requests |->
                 IF req[r] # Idle /\ req[r].inst = i THEN Idle ELSE req[r]]
    /\ UNCHANGED <<clock, store, replacedAt>>

-----------------------------------------------------------------------------
(* SchemaCache.Get                                                         *)

GetHit(r) ==
    /\ req[r].pc = "get"
    /\ Fresh(cache[req[r].inst][req[r].key])
    /\ Finish(r)
    /\ UNCHANGED <<clock, store, cache, replacedAt>>

GetMiss(r) ==
    /\ req[r].pc = "get"
    /\ ~ Fresh(cache[req[r].inst][req[r].key])
    /\ req' = [req EXCEPT ![r].pc = "load"]
    /\ UNCHANGED <<clock, store, cache, replacedAt>>

Load(r) ==
    /\ req[r].pc = "load"
    /\ store[req[r].key] # 0
    /\ Accessed(r, "fill", store[req[r].key])
    /\ UNCHANGED <<clock, store, cache, replacedAt>>

\* No such schema, or the read fails: an error is never cached.
LoadFailed(r) ==
    /\ req[r].pc = "load"
    /\ Finish(r)
    /\ UNCHANGED <<clock, store, cache, replacedAt>>

Fill(r) ==
    /\ req[r].pc = "fill"
    /\ Put(r)
    /\ Finish(r)
    /\ UNCHANGED <<clock, store, replacedAt>>

-----------------------------------------------------------------------------
(* SchemaCache.Save                                                        *)

Write(k) ==
    /\ store[k] < MaxUploads
    /\ store' = [store EXCEPT ![k] = @ + 1]
    /\ replacedAt' = IF store[k] = 0
                     THEN replacedAt
                     ELSE [replacedAt EXCEPT ![k][store[k]] = clock]

SaveStored(r) ==
    /\ req[r].pc = "save"
    /\ Write(req[r].key)
    /\ Accessed(r, "set", store[req[r].key] + 1)
    /\ UNCHANGED <<clock, cache>>

\* The write is applied but its reply is an error: the cache is not touched.
SaveReplyLost(r) ==
    /\ req[r].pc = "save"
    /\ Write(req[r].key)
    /\ Finish(r)
    /\ UNCHANGED <<clock, cache>>

\* Mutant: the cache is set although the write failed.
SaveFailedCached(r) ==
    /\ req[r].pc = "save"
    /\ store[req[r].key] < MaxUploads
    /\ Accessed(r, "set", store[req[r].key] + 1)
    /\ UNCHANGED <<clock, store, cache, replacedAt>>

\* The write is not applied.
SaveFailed(r) ==
    /\ req[r].pc = "save"
    /\ Finish(r)
    /\ UNCHANGED <<clock, store, cache, replacedAt>>

Set(r) ==
    /\ req[r].pc = "set"
    /\ Put(r)
    /\ Finish(r)
    /\ UNCHANGED <<clock, store, replacedAt>>

-----------------------------------------------------------------------------

Next ==
    \/ Tick
    \/ \E i \in Instances : Restart(i)
    \/ \E r \in Requests, step \in {"get", "save"}, i \in Instances, k \in Keys :
         Receive(r, step, i, k)
    \/ \E r \in Requests :
         \/ GetHit(r) \/ GetMiss(r) \/ Load(r) \/ LoadFailed(r) \/ Fill(r)
         \/ SaveStored(r) \/ SaveReplyLost(r) \/ SaveFailed(r) \/ Set(r)

Spec == Init /\ [][Next]_vars

-----------------------------------------------------------------------------
(* Properties                                                              *)

\* Whatever Gets and Saves overtake each other, on one instance or on several,
\* a schema that the store has replaced is served for less than SchemaTTL +
\* Lag after that (cache.go:45-53 over ttl.go:56-60 and 68-75).
StalenessBound ==
    \A i \in Instances, k \in Keys :
        LET e == cache[i][k]
        IN  Fresh(e) /\ e.rev # store[k] =>
                clock < replacedAt[k][e.rev] + SchemaTTL + Lag

\* Every schema that a Get may serve has been in the store: a Save that failed
\* leaves nothing in the cache, and "no such schema" is not cached, so that a
\* schema can be used as soon as it is uploaded (cache.go:46-48,
\* ttl.go:50-53).
OnlyStoredSchemas ==
    \A i \in Instances, k \in Keys :
        cache[i][k] # NoEntry => cache[i][k].rev \in 1 .. store[k]

=============================================================================
