# Verification of the telemetry API

TLA+ models of `services/telemetry-api` (Go, on Cloud Run, over Firestore and
Pub/Sub), checked with TLC and, where said so, proved with TLAPS.

## The system

Several instances of one HTTP service run at a time (`terraform/modules/cloud-run/main.tf:58-61`
allows 0 to 10, each serving up to 80 requests at once). They share the
Firestore collections and the Pub/Sub topic; everything else is per instance.
Firestore operations on one document are atomic; no handler uses a transaction,
so every handler is a sequence of separate accesses between which anything can
happen.

| Component | State | Operations | What makes it hard | What makes it correct | Module |
|---|---|---|---|---|---|
| Device sessions and revocation (`handlers/auth.go`, `handlers.go`, `pkg/cache/ttl.go`, `devices.go`) | `devices` collection; status cache of each instance; tokens held by devices | AuthDevice, AuthMiddleware, RefreshToken, UpdateDeviceInfo, RevokeDevice | cache unlocked while loading, caches of other instances, token issued after a check, replies lost, restarts | a revoked device is out after a bounded time; a healthy one is not locked out longer than a bounded time | `DeviceAuth`, `AccessPolicy` |
| Rate limiter of `POST /auth/device` (`pkg/middleware/security.go`) | stamps of granted calls per address | Allow, cleanup goroutine, Close | two places forget stamps on their own schedules | the limit holds of every window, memory is bounded | `RateLimiter` |
| Provisioning (`handlers/auth.go`) | `devices` collection | ProvisionDevice | check and registration are separate, the reply alone carries the secret | duplicates only of overlapping requests, and every secret handed out works | `Provisioning` |
| Schemas (`handlers/schemas.go`, `cache.go`, `pkg/cache/ttl.go`) | `schemas` collection; schema cache of each instance | UploadSchema, GetSchema, lookup by HandleTelemetryProto | store and cache written in two steps | replaced schemas are served for a bounded time, phantom ones never | `SchemaCache` |
| Commands (`handlers/commands.go`) | `commands` collection | CreateCommand, GetCommands, AckCommand, DeleteCommand | lookups and updates interleave | a command moves forward only, its owner alone acknowledges it | `Commands` |
| Telemetry (`handlers/telemetry.go`, `telemetry_proto.go`, `store_pubsub.go`) | `telemetry` collection, topic | HandleTelemetry, HandleTelemetryBatch, HandleTelemetryProto | partial failures, retries, topic created on demand | events and counts speak of stored data, every missing event has a cause | `Telemetry` |
| Protobuf telemetry (`pkg/proto/decoder.go`, `handlers/telemetry_proto.go`) | none | Decode, DecodeRepeated, HandleTelemetryProto | widths and lengths at the boundary, truncated bodies, schemas with repeated ids, replaced schemas | what is stored is what was sent, under the name of its id | `ProtoDecoder`, `ProtoIngest` |
| Keys of the token signer (`handlers/auth_jwt.go`) | cached public keys of each instance | VerifyToken, getPublicKey, refreshPublicKeys | refresh under the write lock without a timeout, map emptied first, keys rotate | withdrawn keys fade, a good token is refused only for a fault of a fetch | `KeyCache` |
| Start-up and shutdown (`main.go`) | listener, requests in flight | main, signal goroutine | main returns when Shutdown starts | requests in flight get the time they were promised, and the middleware decides on each | `Instance` |
| API keys, validators, HTTP middleware, read-only queries | none | | | | not modelled, or only where a module needs them: stateless |
| Test doubles, Firebase alternative, Terraform, scripts | | | | | not modelled |

Interactions: AuthMiddleware runs in front of every device endpoint (telemetry,
commands, info, refresh); the limiter in front of `/auth/device` only; the admin
endpoints (provision, revoke, commands, schemas) write the collections that the
device endpoints read; HandleTelemetryProto reads the device and the schema
cache before it saves; every device request first needs the signer's public key,
which it may have to fetch while others wait, and any of them ends with its
instance. `hazards` in `PROJECT.json` lists what is hard to test,
line by line, with the properties aimed at it.

## How the modules correspond to the code

In all modules a request in flight is a *slot* in `Requests` whose `pc` names the
next store or cache access of its handler; a step of a model is one such access,
or one section under a mutex, with what follows it up to the next access. A
slot becomes idle when the handler has answered. Errors of the store are of both
kinds: not applied, and applied but answered with an error. History variables
(named as such) are written by actions and read by properties only.
Definitions whose comment begins with "Mutant:" are wrong on purpose: they are
the bugs that the properties have been shown to find. No specification uses
them.

**DeviceAuth.** `device` is the document's `revoked` flag ("absent" before
registration), `cache` the `deviceStatusCache` of each instance, `tokenExp` the
expiry of the newest token of each device (a device uses its newest). The
middleware is `VerifyToken`, then `StatusHit`, or `StatusMiss`, `LoadStatus` or
`LoadFault`, and `StoreStatus`: the steps of `TTL.Get` with the loader of
`handlers.go:78-85`. AuthDevice and RefreshToken are `LookupActive` (the check of
`Revoked`), `IssueToken`, `TouchDevice`; RevokeDevice is `RevokeStored`, then
`Invalidate`. `Restart` is the loss of an instance with its cache and its
requests. Time is one clock, which all instances share. *Lag* is the longest
time from a request's read of the store to the use of what it read. Nothing in
the code bounds it (the loader uses `context.Background()`); Cloud Run ends
requests after 300 s (`terraform/modules/cloud-run/main.tf:130`), which is what
justifies a finite one. All bounds below are stated with Lag as a parameter,
and Lag = 0 is allowed. The wrong secret, the missing device and the failed read
are all `LookupRefused`, which is always possible.

**AccessPolicy** is the abstract specification: a clock, the devices, when each
was revoked, when it was last let in and until when it holds a token. It has no
caches, instances or requests: a device that was revoked may be let in for
`AdmitGrace` longer and may get a token for `RenewGrace` longer. `DeviceAuth`
implements it with `AdmitGrace = StatusTTL + Lag`, `RenewGrace = Lag` and
`Session = TokenTTL` (`PolicySpec`).

**RateLimiter.** `requests[k]` is the set of stamps of address `k`; each granted
call has an identity, so that a set can stand for the slice. Allow (`Grant`,
`Refuse`) and a pass of the cleanup goroutine (`Cleanup`) hold the mutex from
beginning to end and are one step each. `granted` is the whole history, which the
code forgets.

**Provisioning.** `docs` maps the registered UUIDs to their MAC addresses,
`Normalize` is the function of `pkg/mac` on the spellings that are valid
addresses. `CheckPassed` covers both "not found" and a failed query, as the
condition `err == nil && existingDevice != nil` does. `Stored` is what the
registration does to the store; `Register` goes on to the `Reply`, `RegisterReplyLost`
is a registration that was applied but answered with an error, and a request that
ends before its reply leaves a device whose secret nobody has: `handed` is what
provisioners hold.

**SchemaCache.** The schemas of one key are numbered in the order in which they
reach the store. Get is `GetHit`, or `GetMiss`, `Load` or `LoadFailed`, `Fill`;
Save is `SaveStored` and `Set`. Lag bounds the time from the store access to the
cache write, as above. Save's comment says "Update cache immediately"
(`cache.go:50`); another Save, or the fill of a Get, that touched the store earlier may
write the cache later, so that what holds of a saved schema is `StalenessBound`.

**Commands.** A deleted command keeps its place with status "deleted" so that
properties can speak of it. `StoreIds` are the ids the store hands out and
`UUIDs` those that `validate.UUID` accepts: for Firestore's `Add` they are
disjoint (see the findings), so `Commands.cfg` takes the ids of the unit tests,
which put UUIDs into the store by hand, to exercise what is behind the check.
The commands of the API always have an expiry (24 h by default).

**Telemetry.** A JSON request works through its readings: save, look for the
topic, create it if it is missing, publish. A protobuf request saves them all
and publishes one digest. `Skip` is an invalid reading or a failed save. The
single-reading handler is a batch of one. `topic` may or may not exist at the
beginning. Four history variables keep the accounts: `due` counts the documents that
JSON requests stored, each of which should have an event; `faults` the events given
up because a call was answered with an error or because the request ended (`Abort`)
between the save and the publish; `races` those, digests too, given up because another request had
just created the topic, which Pub/Sub answers with an error, too; `sent` how often each
reading was sent. `Held` are the requests that still have to publish a reading they
saved. The retries of the Pub/Sub client, which may put a message into the topic
twice, belong to Pub/Sub and are left out, as its subscribers are.

**ProtoDecoder** is `pkg/proto` and `decodeMeasurementBatch` as functions over
sequences of bytes. The widths are constants: `WordBits` for `uint64` and `int`,
`GroupBits` for the payload of a varint's byte; every other boundary (the half
width of `uint32`, the bytes of a fixed value, the longest varint) derives from
them. `Signed` is the conversion to two's complement. Reading a value ends in a
value, an error, or a panic, which is what slicing with a length that has
overflowed gives. A `float` or `double` stays the bit pattern it is. Loops are
recursive functions; `Power` and `Selected` are written out because the provers
know nothing of `^` and of the library's recursive operators.

**ProtoIngest** is HandleTelemetryProto with the uploads that change its schema:
`Receive` takes the schema, `ReadBody` decodes and builds `idToMeta` (of a repeated
id any name may stay, as Go ranges over a map in any order), `BodyFailed` is a body that
breaks off, `FindStamp` is the
pass that looks for the timestamp, `Skip`, `Save` and `SaveFailed` work through the
measurements, `Answer` ends the request. `Encode` is the reference: proto3 as the devices
speak it, written independently of `Decode`. `BodyAssumption` says what is sent: batches of
measurements whose values are within their types, strings of bytes, and no body that is
longer than an `int` can say, which holds of every slice in Go.

**KeyCache.** A slot goes through getPublicKey: `Look` under the read lock, `Lock`
for the write lock, then `Serve` or `FetchFailed` for the HTTP request that is made
with the lock held, `Install` for the rest of refreshPublicKeys, `LookAgain`. Google
publishes and withdraws keys (`Publish`, `Withdraw`); a reply may lose any of the
published ones, since certificates that do not parse are dropped. A reply without a
usable key empties the map and leaves its expiry alone, as the code does. `Lag`
bounds the time from a reply to the second look. A fetch may never end, and then holds
the lock for as long.

**Instance** puts a listener around `KeyCache`: `Accept` while it is open, `Shutdown`
closes it, `Return` is main, which returns as soon as the listener is closed and
takes the requests in flight with it, `Crash` the other ways to end. The next
instance starts with an empty cache.

## Runs

| Run | Bounds | Shows |
|---|---|---|
| `DeviceAuthOverlap.cfg` | 1 device, 1 instance, 2 requests at once, StatusTTL 1, TokenTTL 3, Lag 1, time to 4 | `RevocationBound`, `SessionBound`, `NoTokenForLateRequest`, `LockoutBound`, and the refinement `PolicySpec`, under every overlap of two requests |
| `DeviceAuthDelay.cfg` | 1 instance, 2 requests | **violated**: `DocumentedDelay` |
| `RateLimiter.cfg` | 2 addresses, 4 calls, window 2, limit 2, time to 5 | `WindowLimit`, `PruningIsInvisible`, `MemoryBound`, `IdleKeysAreForgotten` |
| `Provisioning.cfg` | 2 addresses in 3 spellings, 4 UUIDs, 2 requests | `DuplicatesOverlapped`, `DuplicatesBounded`, `SecretsWork` |
| `ProvisioningUnique.cfg` | same | **violated**: `UniqueMAC` |
| `SchemaCache.cfg` | 1 key, 2 instances, 2 requests, 3 uploads, TTL 2, Lag 1, time to 4 | `StalenessBound`, `OnlyStoredSchemas` |
| `Commands.cfg` | 2 devices, 2 commands, 1 malformed id, 2 requests, time to 2 | `Forward`, `AckHolds`, `ShownIsCurrent` |
| `CommandsIds.cfg` | the store's ids are not UUIDs | **violated**: `StoredIdsAccepted` |
| `Telemetry.cfg` | 2 valid readings and 1 invalid, bodies of 1 or 3, each reading sent at most twice, 3 requests | `StoredFirst`, `CountsAreStored`, `LossHasCause`, `RacesBounded` |
| `ProtoIngest.cfg` | words of 16 bits, bytes of 7 + 1 bits, float64 exact to 13 bits; batches of up to 3 measurements at the boundaries of every type, all strings of up to 4 bytes over 9 telling ones; uploads with a repeated id, with a zero id, empty | `DecodeIsCompositional`, `BatchesAreRead`, `PanicNeedsHugeLength`, `StoredUnderItsId`, `OneNamePerId`, `BatchIsServed`, and that everything decoded and stored is within its type (`TypeOK`) |
| `Instance.cfg` | 2 keys, tokens of 1, 2 requests, KeyTTL 1, Lag 1, time to 2, Grace 1 | `RefusalHasCause`, `WithdrawnKeysFade`, `VerificationEnds` |
| `InstanceGraceful.cfg` | same | **violated**: `Graceful` |

Why the bounds are enough. Devices (and schema keys) do not share any state, so
one is enough where a property is about one. A race needs two requests; an
instance's cache can go stale behind its back with two instances. The token
lifetime is longer than the status TTL and the lag together, as in the code (an
hour against five minutes), so that `RevocationBound` does not follow from the
expiry of tokens; the last times (`MaxTime`) leave room for a device to be
registered, to get a token and to be revoked and for all its graces to run out.
The topic can be raced for by all requests at once; three of them can lose two events
to it, which is what `RacesBounded` allows and no more.
What small instances cannot show, any number of devices, instances, requests and
commands, any batches, bodies and widths, and any values of the times, is proved:
every safety property that a run finds to hold has a theorem. Two overlapping requests over two instances do not fit into TLC's five
minutes; the proofs cover them.

For `ProtoIngest` the width of the words does not matter to the control of the
decoder, only how it compares with lengths and positions; 16 bits keep bytes of
8 bits and still have varints that overflow (three bytes hold 21), lengths that
are negative as an `int`, numbers that are negative in half a word, and integers
that a float does not hold exactly. Four bytes are enough for a batch with a whole
embedded field, and for each way to be cut short. For `Instance`, `KeyTTL + Lag`
is within the time, so a withdrawn key's grace runs out; the second key only keeps
the map from being empty, which is why no token needs to carry it.

The limiter and the telemetry run do not check deadlock: the limiter has nothing
left to do when its calls and its time are used up and it is closed, and telemetry
when every reading has been sent as often as it may be.

Fairness. There are two liveness properties. `IdleKeysAreForgotten` assumes weak
fairness of `Cleanup`: the ticker of the goroutine fires every window until Close.
`VerificationEnds` assumes, for each request, strong fairness of the steps that take
the mutex, because `sync.RWMutex` lets the waiting readers in when a writer leaves and
its mutex hands over to a writer that has waited for long, so nobody is passed over
for ever; and weak fairness of `Install`, which is the request's own computation on a
reply that is there. Nothing is assumed of the HTTP request: `http.DefaultClient` has no
timeout (`auth_jwt.go:215`), the context has no deadline, and the server's `WriteTimeout`
does not cancel it. So a fetch that hangs holds the write lock for ever, and every
verification of the instance waits for it; the property says that this is the *only* way
for one to wait for ever: if no fetch hangs, the middleware decides on every request,
even if it must wait for the fetches of all the others, if all of them fail, or if
handlers never return. Nor is any request assumed to arrive, any handler to answer, main
to return, or a fetch to succeed.

## Where the code and its comments disagree

* `DocumentedDelay`: "max 5 min delay" (`auth.go:182`), "controls max revocation
  delay" (`handlers.go:19`). A status load that read the store before a
  revocation may store "not revoked" after the Invalidate, and its TTL counts from
  then on. The bound that holds is `RevocationBound`. The same trace contradicts
  "for immediate effect" (`auth.go:344`) on the instance that revoked the device.
* `UniqueMAC`: "Check if MAC is already registered" (`auth.go:408`). Two
  overlapping checks both pass. The property leaves out devices whose check failed,
  which the code lets in as well.
* `StoredIdsAccepted`: "device acknowledges a command" (`commands.go:151`),
  "Acknowledge command" (`README.md:90`). The ids of stored commands are not UUIDs,
  the handlers accept UUIDs only.
* `Graceful`: "Graceful shutdown" with 30 seconds for it (`main.go:166-173`). Shutdown
  runs in a goroutine that nobody waits for: main returns under the requests it
  was to wait for, and closes their clients.

## What is proved

`DeviceAuthProofs` proves for every value of the constants that satisfies
`TimingAssumption`: `TypeCorrect`, `RevocationIsBounded`, `SessionIsBounded`,
`LateRequestsGetNoToken`, `LockoutIsBounded` and `ImplementsPolicy`, and
`DelayWithoutLag`: the documented delay, which fails in `DeviceAuthDelay.cfg`, holds
if nothing passes between a read of the store and its use. None of the
properties is inductive. The invariant `IInv` adds to the types:

* for requests (`RequestInv`): what a request has read is at most Lag old (that is
  what `Tick` guards), a pending "not revoked" of a device that is revoked now was
  read before the revocation, a pending "revoked" of a device that is not was a
  failed read, and a request about to issue a token that is late cannot exist;
* for devices (`DeviceInv`): the bounds themselves, with `revokedAt` in the past;
* for cache entries (`EntryInv`): an entry "not revoked" of a revoked device
  expires before `revokedAt + StatusTTL + Lag`, an entry "revoked" of a healthy one
  before `faultUntil`.

Each action is a lemma. The helpers that write `req` (`Goto`, `Read`, `Finish`,
`Decide`) have lemmas of their own that say what they leave alone, and
`RequestStep` says that a step which changes one request only preserves the part
of `IInv` about the others. The refinement takes the same invariant: an admission
maps to `Admit` because of the bound on the entry or the read it comes from, an
`IssueToken` to `Renew`, everything else to the policy's own step or a stutter.

`RateLimiterProofs` proves `TypeCorrect`, `LimitHolds`, `NothingForgottenCounts`
and `MemoryIsBounded` for every set of keys and calls, every window and limit.
The key is that stamps are never in the future and that `Valid(requests[k])` and
the granted stamps of the current window are the same set; a window that ended in
the past can then no longer change.

`InstanceProofs` proves the inductive invariant of the key cache, `KeysInvariant`,
that an instance implements it (`InstanceImplementsKeys`: accepting,
shutting down, stopping and being replaced are steps of `KeysSpec` or leave its
variables alone), and from both `RefusalIsCaused` and `WithdrawnKeysStop`. The
invariant says that the map a request is about to look into, or the reply it is about
to install, suits it (`RequestInv`): its own key is there unless a fetch was at fault,
and no key in it was withdrawn before the request's reply was served. The writer's
reply must also suit a request that is at its second look, since the map may
change under it (`PairInv`), and a withdrawn key in the map expires within KeyTTL + Lag
of its withdrawal (`MapInv`).

`SchemaCacheProofs` proves `StalenessIsBounded` and `CachedWasStored`. What is about to
be cached was current at most Lag ago (`RequestInv`), so an entry expires within
SchemaTTL + Lag of the replacement of its revision (`EntryInv`); a revision
that is not the stored one was replaced once and for all, because uploads only go up.

`ProvisioningProofs` proves `OnlyOverlapsDuplicate`, `HandedSecretsWork` and, with
`SlotAssumption` (finitely many requests at a time), `DuplicatesAreBounded`. The last
counts: devices of an address plus the requests that are about to register one more
never exceed the requests, since an answered check finds no device at all, and each
registration takes one request's place (`CountInv`).

`CommandsProofs` proves `NeverBack`, `AcksHold` and `PollsAreCurrent`. The handlers act
on what they looked up before; the invariant says what of it outlives every
interleaving: a command keeps its document's place, its owner and its expiry
(`Keeps`), so a request about to update has the owner's right to do so, even when the
document is gone by then.

`TelemetryProofs` proves `EventsFollowDocuments`, `CountsAreTrue`, `LossIsCaused` and,
with `SlotAssumption` (some finite number of requests at a time), `RacesAreBounded`.
The invariant `CountInv` counts for each reading: events and the requests that hold
it stored but unpublished (`Held`) are at most its documents; documents and the places
of batches that still have it (`Pending`) are at most the times it was sent.
Places are counted from the end of a batch, where they do not move when the request
goes on. `Good` says of a request that what it saved it stored and that what it holds
is there. `LossHasCause` is inductive on top of these: a step that ends a hold
publishes the event or counts a fault (`HeldDropped`), and only a save begins one. For the races,
`RaceInv` counts the requests about to create the topic: none is lost while it does not
exist, and from then on the races and those requests together stay below the number of
requests, because the one that created it has left and nobody joins.

`ProtoIngestProofs` proves all that the run checks of the decoder and of the handler, from
`WidthAssumption`, `IngestAssumption` and `BodyAssumption`: `IngestTypes`, `DecodingComposes`, `BatchesRead`,
`PanicsOnHugeLengths`, `IdsAreNamedOnce`, `DocumentsAreOfTheSchema`, `BatchesAreServed`.

* Recursion. The provers cannot unfold a recursive function, nor use an induction theorem
  that takes an operator. `Iteration` shows that a function whose steps are given exists; each
  recursive function has a lemma that it is such a function and what its steps give
  (`VarintValueIs`, `DecodeIs`, `SelectedIs`, ...); and what holds of all of its values is
  shown by `SetInduction`, induction over the set of places up to which it holds.
* The decoder. A field takes at least one byte and stays within the data, and
  whether and how it is read depends on its own bytes only; so reading goes on
  at a cut as it would begin there (`DecodeComposes`). A read panics only at a huge
  length, in the body or in an embedded message, which is a part of it
  (`RepeatedPanics`).
* The round trip. What `Encode` writes for a number, a field, a measurement and a
  batch is read as it was written, each from the one before (`BatchRoundTrip`);
  the lengths in between fit because the body does, and `Signed` undoes the
  two's complement within the range of each type.
* Rounding. The unit that `Rounded` chooses exists and is the only one, so an
  integer below 2^MantissaBits is kept and any other is off by one part in
  2^MantissaBits at most (`RoundedIs`).
* The request. `IngestInvariant` is inductive; the properties are not. `SchemasAccepted` keeps
  the schema in use one that UploadSchema lets in (no id of zero) when it is replaced
  meanwhile; `BodyRead` and `AllIsTodo` tie the measurements to what was sent, by the
  round trip; `NamesRead` fixes the name of each id for the rest of the request,
  which is why a repeated id gets one name; `PanicDecoded` keeps that a panic came
  from the body; `NothingYet` and `Progress` count: after `k` measurements, the
  documents and failures together are those of the first `k` that are to be kept,
  and without failures they are the same ones in the same order; `DocumentsRight`
  says of each document that it holds a measurement of the batch.

The types of the states are proved in every proof module. TLC checks `TypeOK` only where it
says something of the code (`Provisioning.cfg`, `Commands.cfg`, `ProtoIngest.cfg`).

Only model-checked: the liveness properties `IdleKeysAreForgotten` and `VerificationEnds`, because
liveness under fairness is out of the prover's reach, and the four disagreements above,
which are counterexamples. The proofs of the decoder are about the model's
unbounded sequences and integers with explicit widths; that TLC evaluates the same
definitions on whole alphabets of bytes is the check that they say what was meant.

## What is not modelled

* Contents of documents that no property tells apart (names, payloads, units),
  secrets and signatures (a valid token is one the service issued or the signer
  signed), headers and logging.
* `AsSint32`, `AsSint64`, `AsString` and `AsMessage` of the decoder, which no handler
  calls.
* The API key checks, the validators but for what a module needs of them (UUIDs in
  `Commands`, addresses in `Provisioning`), the middleware but for the limiter and
  Recovery, and the read-only queries: each is a function of one request.
* The Firebase alternative to `auth_jwt.go`, which `handlers.go:62` does not use; the
  test doubles; Terraform, scripts and the deployment.
* Clocks of different instances are taken to agree. Firestore is linearizable per
  document and Pub/Sub keeps what it acknowledged; the retries of its client, which
  may duplicate an event, are not modelled.

## Plan

1. Done: every component with state of its own has a module; every safety and action
   property of a state machine that a run finds to hold, and the refinement of
   `AccessPolicy`, has a theorem.
2. An abstract specification of a cache with a TTL (what is served was current
   at most so long ago) that the status, schema and key caches implement, which would state
   once what three invariants say in their own terms.
3. An abstract specification of `ProtoIngest` in one step: a batch in, its documents out.
4. The proto digest and the JSON events read by one consumer, if the repository
   gets one.
