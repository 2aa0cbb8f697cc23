---------------------------- MODULE Provisioning ----------------------------
(***************************************************************************)
(* ProvisionDevice (handlers/auth.go) over the devices collection.  The    *)
(* handler asks whether the MAC address is registered, then generates and  *)
(* hashes a secret, then writes the device under a fresh UUID: nothing     *)
(* ties the answer to the write, and the write cannot conflict.  The reply *)
(* is the only moment at which the secret leaves the server.               *)
(***************************************************************************)
EXTENDS Naturals, FiniteSets

CONSTANTS
    Spellings,   \* the ways MAC addresses are written in requests
    Normalize,   \* mac.Normalize: each valid spelling's canonical address
    UUIDs,       \* device identities that uuid.New may produce
    Requests     \* slots for the requests in flight

MACs == {Normalize[s] : s \in DOMAIN Normalize}

\* Spellings outside the domain of Normalize are not valid addresses.
ASSUME SpellingAssumption == DOMAIN Normalize \subseteq Spellings

ASSUME SlotAssumption == IsFiniteSet(Requests)

VARIABLES
    docs,        \* the devices collection: the MAC of each registered device
    req,         \* what each slot is doing
    handed,      \* external: the identities, with secrets, of provisioners
    \* History variables: no action reads them.
    known,       \* known[b]: the devices registered before b's MAC was checked
    unchecked    \* the devices registered although the check had failed

vars == <<docs, req, handed, known, unchecked>>

\* before and failed record what the request's check saw.
InFlight == [pc : {"check", "register"}, mac : MACs,
             before : SUBSET UUIDs, failed : BOOLEAN]

Replying == [pc : {"reply"}, mac : MACs, dev : UUIDs]

Idle == [pc |-> "idle"]

Registered == DOMAIN docs

TypeOK ==
    /\ Registered \subseteq UUIDs
    /\ docs \in [Registered -> MACs]
    /\ req \in [Requests -> InFlight \cup Replying \cup {Idle}]
    /\ handed \subseteq [dev : UUIDs, mac : MACs]
    /\ known \in [UUIDs -> SUBSET UUIDs]
    /\ unchecked \subseteq Registered

Init ==
    /\ docs = <<>>
    /\ req = [r \in Requests |-> Idle]
    /\ handed = {}
    /\ known = [b \in UUIDs |-> {}]
    /\ unchecked = {}

-----------------------------------------------------------------------------

\* The handler has answered, or its instance is gone.
Finish(r) == req' = [req EXCEPT ![r] = Idle]

\* Mutant: the address is used as it was written.
ReceiveRaw(r, s) ==
    /\ req[r] = Idle
    /\ s \in DOMAIN Normalize
    /\ req' = [req EXCEPT ![r] =
                 [pc |-> "check", mac |-> s, before |-> {}, failed |-> FALSE]]
    /\ UNCHANGED <<docs, handed, known, unchecked>>

\* A request with a valid address; the others are answered with 400.
Receive(r, s) ==
    /\ req[r] = Idle
    /\ s \in DOMAIN Normalize
    /\ req' = [req EXCEPT ![r] =
                 [pc |-> "check", mac |-> Normalize[s],
                  before |-> {}, failed |-> FALSE]]
    /\ UNCHANGED <<docs, handed, known, unchecked>>

\* Mutant: the query does not match what is stored.
HasMACNever(m) == FALSE

HasMAC(m) == \E b \in Registered : docs[b] = m

\* A device with this MAC is found: 409.
Conflict(r) ==
    /\ req[r].pc = "check"
    /\ HasMAC(req[r].mac)
    /\ Finish(r)
    /\ UNCHANGED <<docs, handed, known, unchecked>>

\* Mutant: the answer of the query is not looked at.
CheckIgnored(r) ==
    /\ req[r].pc = "check"
    /\ req' = [req EXCEPT ![r] =
                 [@ EXCEPT !.pc = "register", !.before = Registered]]
    /\ UNCHANGED <<docs, handed, known, unchecked>>

\* Only a device that was found stops the request: a query that fails counts
\* like one that finds nothing.
CheckPassed(r) ==
    /\ req[r].pc = "check"
    /\ \E failed \in BOOLEAN :
         /\ failed \/ ~ HasMAC(req[r].mac)
         /\ req' = [req EXCEPT ![r] =
                      [@ EXCEPT !.pc = "register", !.before = Registered,
                                !.failed = failed]]
    /\ UNCHANGED <<docs, handed, known, unchecked>>

\* Register sets the document of a fresh identity.
Stored(r, b) ==
    /\ req[r].pc = "register"
    /\ b \notin Registered
    /\ docs' = [x \in Registered \cup {b} |->
                  IF x = b THEN req[r].mac ELSE docs[x]]
    /\ known' = [known EXCEPT ![b] = req[r].before]
    /\ unchecked' = IF req[r].failed THEN unchecked \cup {b} ELSE unchecked
    /\ UNCHANGED handed

GotoReply(r, b) ==
    req' = [req EXCEPT ![r] = [pc |-> "reply", mac |-> req[r].mac, dev |-> b]]

\* Mutant: the error of the write is not looked at.
RegisterAnyway(r, b) ==
    \/ Stored(r, b) /\ GotoReply(r, b)
    \/ /\ req[r].pc = "register"
       /\ b \notin Registered
       /\ GotoReply(r, b)
       /\ UNCHANGED <<docs, handed, known, unchecked>>

Register(r, b) ==
    /\ Stored(r, b)
    /\ GotoReply(r, b)

\* The document is set but the store answers with an error: so does the
\* handler, and the secret is lost with it.
RegisterReplyLost(r, b) ==
    /\ Stored(r, b)
    /\ Finish(r)

\* The provisioner receives the identity, the secret and the address.
Reply(r) ==
    /\ req[r].pc = "reply"
    /\ handed' = handed \cup {[dev |-> req[r].dev, mac |-> req[r].mac]}
    /\ Finish(r)
    /\ UNCHANGED <<docs, known, unchecked>>

\* The request dies where it is: the write fails, the caller goes away with
\* the reply unread, or the instance stops.
Abort(r) ==
    /\ req[r] # Idle
    /\ Finish(r)
    /\ UNCHANGED <<docs, handed, known, unchecked>>

Next ==
    \E r \in Requests :
        \/ \E s \in Spellings : Receive(r, s)
        \/ Conflict(r)
        \/ CheckPassed(r)
        \/ \E b \in UUIDs : Register(r, b) \/ RegisterReplyLost(r, b)
        \/ Reply(r)
        \/ Abort(r)

Spec == Init /\ [][Next]_vars

-----------------------------------------------------------------------------
(* Properties                                                              *)

SameMAC(a, b) == a # b /\ docs[a] = docs[b]

\* Two devices share a MAC only if both were checked before either was
\* registered, or if one of the checks failed: nothing else lets a duplicate
\* in, in particular no other spelling of the address (auth.go:405-417).
DuplicatesOverlapped ==
    \A a, b \in Registered :
        SameMAC(a, b) =>
            \/ a \in unchecked \/ b \in unchecked
            \/ a \notin known[b] /\ b \notin known[a]

\* A MAC never has more devices, other than those let in by a failed check,
\* than there are requests at a time: the duplicates of a race do not breed.
DuplicatesBounded ==
    \A m \in MACs :
        Cardinality({b \in Registered \ unchecked : docs[b] = m})
            <= Cardinality(Requests)

\* An identity that was handed out is registered, under the address that came
\* with it, whatever failed on the way; what is lost is only ever the secret of
\* a registered device (auth.go:454-479).
SecretsWork ==
    \A h \in handed : h.dev \in Registered /\ docs[h.dev] = h.mac

\* "Check if MAC is already registered" (auth.go:408) and "mac_address already
\* registered" (auth.go:415): of the devices whose check was answered, no two
\* have the same MAC.
UniqueMAC == \A a, b \in Registered \ unchecked : ~ SameMAC(a, b)

=============================================================================
