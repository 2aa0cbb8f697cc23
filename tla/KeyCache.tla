------------------------------ MODULE KeyCache ------------------------------
(***************************************************************************)
(* The public keys with which an instance verifies tokens                  *)
(* (getPublicKey and refreshPublicKeys, handlers/auth_jwt.go).             *)
(*                                                                         *)
(* Google publishes the keys of the service account and rotates them; the  *)
(* instance keeps the last reply for an hour.  A request whose key is not  *)
(* in the cache fetches the keys itself, with the write lock held over the *)
(* HTTP request, then looks again.  Between any two of its steps other     *)
(* requests do the same, and one request's reply replaces the keys that    *)
(* another has just fetched.                                               *)
(*                                                                         *)
(*   look --> wait --> fetch --> install --> again --> handle              *)
(*    `-> handle         `-> refuse `-> refuse `-> refuse                  *)
(***************************************************************************)
EXTENDS Naturals

CONSTANTS
    Kids,        \* ids of keys
    TokenKids,   \* ids that the tokens of devices carry
    Requests,    \* slots for the requests in flight
    NoRequest,   \* no slot: nobody holds the write lock
    KeyTTL,      \* lifetime of a reply: one hour
    Lag,         \* longest time from a request's reply to its second look
    MaxTime      \* bound: the clock stops here

ASSUME KeyAssumption ==
    /\ TokenKids \subseteq Kids
    /\ NoRequest \notin Requests
    /\ KeyTTL \in Nat \ {0}
    /\ Lag \in Nat
    /\ MaxTime \in Nat

VARIABLES
    clock,       \* real time
    endpoint,    \* external: each key is "new", then "published", then "withdrawn"
    keys,        \* publicKeys: the ids of the keys in the map
    expiry,      \* keysExpiry
    writer,      \* the holder of keysMu as a writer
    req,         \* what each slot is doing
    \* History variable: no action reads it.
    withdrawnAt  \* when the key was withdrawn

kvars == <<clock, endpoint, keys, expiry, writer, req, withdrawnAt>>

Published == {k \in Kids : endpoint[k] = "published"}

\* A request whose token is signed by key kid.  reply and at are the usable
\* keys of the reply it got and when it was served.  excused is history:
\* whether the key was not published on arrival or a fault has kept it from
\* the request.
InFlight ==
    [pc : {"look", "wait", "fetch", "install", "again", "refuse"},
     kid : TokenKids, reply : SUBSET Kids, at : Nat,
     excused : BOOLEAN]

Idle == [pc |-> "idle"]

\* A request that is past the middleware.
Handling == [pc |-> "handle"]

KeysTypeOK ==
    /\ clock \in Nat
    /\ endpoint \in [Kids -> {"new", "published", "withdrawn"}]
    /\ keys \subseteq Kids
    /\ expiry \in Nat
    /\ writer \in Requests \cup {NoRequest}
    /\ req \in [Requests -> InFlight \cup {Idle, Handling}]
    /\ withdrawnAt \in [Kids -> Nat]

KeysInit ==
    /\ clock = 0
    /\ endpoint = [k \in Kids |-> "new"]
    /\ keys = {}
    /\ expiry = 0
    /\ writer = NoRequest
    /\ req = [r \in Requests |-> Idle]
    /\ withdrawnAt = [k \in Kids |-> 0]

-----------------------------------------------------------------------------
(* The environment                                                         *)

Publish(k) ==
    /\ endpoint[k] = "new"
    /\ endpoint' = [endpoint EXCEPT ![k] = "published"]
    /\ UNCHANGED <<clock, keys, expiry, writer, req, withdrawnAt>>

Withdraw(k) ==
    /\ endpoint[k] = "published"
    /\ endpoint' = [endpoint EXCEPT ![k] = "withdrawn"]
    /\ withdrawnAt' = [withdrawnAt EXCEPT ![k] = clock]
    /\ UNCHANGED <<clock, keys, expiry, writer, req>>

\* Time passes, but no request takes longer than Lag from its reply to its
\* second look.
Tick ==
    /\ clock < MaxTime
    /\ \A r \in Requests :
         req[r].pc \in {"install", "again"} => clock < req[r].at + Lag
    /\ clock' = clock + 1
    /\ UNCHANGED <<endpoint, keys, expiry, writer, req, withdrawnAt>>

\* The process ends, with its requests and its keys; another takes its place.
Restart ==
    /\ keys' = {}
    /\ expiry' = 0
    /\ writer' = NoRequest
    /\ req' = [r \in Requests |-> Idle]
    /\ UNCHANGED <<clock, endpoint, withdrawnAt>>

-----------------------------------------------------------------------------
(* getPublicKey                                                            *)

Goto(r, step) == req' = [req EXCEPT ![r].pc = step]

\* The key is found and the token's signature is good.
Verified(r) == req' = [req EXCEPT ![r] = Handling]

Receive(r, k) ==
    /\ req[r] = Idle
    /\ req' = [req EXCEPT ![r] =
                 [pc |-> "look", kid |-> k, reply |-> {}, at |-> 0,
                  excused |-> endpoint[k] # "published"]]
    /\ UNCHANGED <<clock, endpoint, keys, expiry, writer, withdrawnAt>>

\* A reader gets in when no writer holds the lock.
Unlocked == writer = NoRequest

Cached(k) == clock < expiry /\ k \in keys

\* Mutant: a key that the cache lacks is taken for unknown until it expires.
LookTrusting(r) ==
    /\ req[r].pc = "look"
    /\ Unlocked
    /\ CASE Cached(req[r].kid) -> Verified(r)
         [] clock < expiry /\ keys # {} /\ ~ Cached(req[r].kid) ->
              Goto(r, "refuse")
         [] OTHER -> Goto(r, "wait")
    /\ UNCHANGED <<clock, endpoint, keys, expiry, writer, withdrawnAt>>

\* The first look.  The read lock is released before the refresh.
Look(r) ==
    /\ req[r].pc = "look"
    /\ Unlocked
    /\ IF Cached(req[r].kid)
       THEN Verified(r)
       ELSE Goto(r, "wait")
    /\ UNCHANGED <<clock, endpoint, keys, expiry, writer, withdrawnAt>>

\* The second look, after a refresh: the expiry is not asked again.
LookAgain(r) ==
    /\ req[r].pc = "again"
    /\ Unlocked
    /\ IF req[r].kid \in keys
       THEN Verified(r)
       ELSE Goto(r, "refuse")
    /\ UNCHANGED <<clock, endpoint, keys, expiry, writer, withdrawnAt>>

-----------------------------------------------------------------------------
(* refreshPublicKeys                                                       *)

\* A request that waited fetches the keys even if another has just done so.
Lock(r) ==
    /\ req[r].pc = "wait"
    /\ Unlocked
    /\ writer' = r
    /\ Goto(r, "fetch")
    /\ UNCHANGED <<clock, endpoint, keys, expiry, withdrawnAt>>

\* Those who will look for a key that is published and not among these.
Deprived(r, usable) ==
    {x \in Requests : /\ x = r \/ req[x].pc = "again"
                      /\ req[x].kid \in Published \ usable}

\* The endpoint serves the keys that are published; the certificates that do
\* not parse are dropped.
Serve(r, usable) ==
    /\ req[r].pc = "fetch"
    /\ usable \subseteq Published
    /\ LET arrived == [req EXCEPT ![r] =
                          [@ EXCEPT !.pc = "install", !.at = clock,
                                    !.reply = usable]]
       IN  req' = [x \in Requests |->
                     IF x \in Deprived(r, usable)
                     THEN [arrived[x] EXCEPT !.excused = TRUE]
                     ELSE arrived[x]]
    /\ UNCHANGED <<clock, endpoint, keys, expiry, writer, withdrawnAt>>

\* Mutant: the lock stays locked.
FetchFailedLocked(r) ==
    /\ req[r].pc = "fetch"
    /\ req' = [req EXCEPT ![r] = [@ EXCEPT !.pc = "refuse", !.excused = TRUE]]
    /\ UNCHANGED <<clock, endpoint, keys, expiry, writer, withdrawnAt>>

\* No reply, another status than 200, no JSON, or the caller has gone away:
\* the cache stays as it is.
FetchFailed(r) ==
    /\ req[r].pc = "fetch"
    /\ writer' = NoRequest
    /\ req' = [req EXCEPT ![r] = [@ EXCEPT !.pc = "refuse", !.excused = TRUE]]
    /\ UNCHANGED <<clock, endpoint, keys, expiry, withdrawnAt>>

\* Mutant: the reply is added to the keys that are there.
InstallMerging(r) ==
    /\ req[r].pc = "install"
    /\ keys' = keys \cup req[r].reply
    /\ writer' = NoRequest
    /\ expiry' = clock + KeyTTL
    /\ req' = [req EXCEPT ![r] = [@ EXCEPT !.pc = "again", !.reply = {}]]
    /\ UNCHANGED <<clock, endpoint, withdrawnAt>>

\* The reply replaces the map.  Without a usable key the map stays empty, its
\* expiry stays what it was, and the request fails.
Install(r) ==
    /\ req[r].pc = "install"
    /\ keys' = req[r].reply
    /\ writer' = NoRequest
    /\ expiry' = IF req[r].reply = {} THEN expiry ELSE clock + KeyTTL
    /\ req' = [req EXCEPT ![r] =
                 [@ EXCEPT !.pc = IF req[r].reply = {} THEN "refuse" ELSE "again",
                           !.reply = {}]]
    /\ UNCHANGED <<clock, endpoint, withdrawnAt>>

\* The handler behind the middleware has answered, or the request was refused
\* with 401.
Answer(r) ==
    /\ req[r].pc \in {"handle", "refuse"}
    /\ req' = [req EXCEPT ![r] = Idle]
    /\ UNCHANGED <<clock, endpoint, keys, expiry, writer, withdrawnAt>>

-----------------------------------------------------------------------------

Environment == Tick \/ \E k \in Kids : Publish(k) \/ Withdraw(k)

\* The steps that wait for the mutex.
Acquire(r) == Look(r) \/ Lock(r) \/ LookAgain(r)

\* The steps that end the HTTP request.
Fetch(r) == FetchFailed(r) \/ \E usable \in SUBSET Kids : Serve(r, usable)

Verifying(r) == Acquire(r) \/ Fetch(r) \/ Install(r) \/ Answer(r)

KeysNext ==
    \/ Environment
    \/ Restart
    \/ \E r \in Requests : Verifying(r) \/ \E k \in TokenKids : Receive(r, k)

KeysSpec == KeysInit /\ [][KeysNext]_kvars

\* The locks are fair: sync.RWMutex lets the readers that wait in when a
\* writer leaves, and hands over to a writer that has waited for long.  A reply
\* that is there is installed by the request's own goroutine.  Nothing ends the
\* fetch or the handler: http.DefaultClient has no timeout, the context has no
\* deadline and WriteTimeout does not cancel it.
KeysFairness ==
    \A r \in Requests : SF_kvars(Acquire(r)) /\ WF_kvars(Install(r))

-----------------------------------------------------------------------------
(* Properties                                                              *)

Verifies(r) ==
    req[r].pc \in {"look", "again"} /\ req'[r] = Handling

\* The middleware has not decided on the request yet.
Undecided(r) == req[r].pc \in {"look", "wait", "fetch", "install", "again"}

\* The middleware decides on every request, or its instance ends, although
\* each may have to wait for the fetches of all the others one after another,
\* and whatever else the handlers do: only a fetch that hangs for ever with the
\* write lock held stops it (auth_jwt.go:181-204 and 215).
VerificationEnds ==
    \/ \E w \in Requests : <>[](req[w].pc = "fetch")
    \/ \A r \in Requests : Undecided(r) ~> ~ Undecided(r)

\* A key that Google has withdrawn verifies tokens for less than KeyTTL + Lag
\* after that, although the second look does not ask for the expiry, a reply
\* without a usable key leaves the expiry alone, and replies are installed in
\* any order of their requests (auth_jwt.go:181-198 and 233-248).
WithdrawnKeysFade ==
    [][\A r \in Requests :
         Verifies(r) /\ endpoint[req[r].kid] = "withdrawn" =>
             clock < withdrawnAt[req[r].kid] + KeyTTL + Lag]_kvars

\* A token whose key was published when it arrived, and still is, is refused
\* only because its own fetch failed or because a reply installed after its
\* own fetch lost the key: neither a map that an earlier reply has emptied nor
\* a reply that is older than the key is ever the reason
\* (auth_jwt.go:189-198 and 233-245).
RefusalHasCause ==
    \A r \in Requests :
        req[r].pc = "refuse" /\ endpoint[req[r].kid] = "published"
            => req[r].excused

=============================================================================
