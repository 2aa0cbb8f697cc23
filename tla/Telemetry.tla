----------------------------- MODULE Telemetry ------------------------------
(***************************************************************************)
(* Ingestion of telemetry (handlers/telemetry.go, telemetry_proto.go and   *)
(* store_pubsub.go).  A request saves its readings one by one; the JSON    *)
(* handlers publish an event after each saved reading, the protobuf        *)
(* handler one digest at the end.  Each save and each publish may fail on  *)
(* its own, before or after it took effect, and the handler goes on with   *)
(* the next; a publish first looks for the topic and may create it.        *)
(* HandleTelemetry is a batch of one reading.                              *)
(***************************************************************************)
EXTENDS Naturals, Sequences, FiniteSets

CONSTANTS
    Readings,    \* the readings devices send
    Valid,       \* those whose type is known and well formed
    Batches,     \* the bodies of requests: sequences of readings
    Requests,    \* slots for the requests in flight
    MaxSends     \* bound: times a reading is sent, retries included

ASSUME TelemetryAssumption ==
    /\ Valid \subseteq Readings
    /\ Batches \subseteq Seq(Readings)
    /\ MaxSends \in Nat

\* The service handles some finite number of requests at a time.
ASSUME SlotAssumption == IsFiniteSet(Requests) /\ Requests # {}

VARIABLES
    stored,      \* documents in the telemetry collection, by reading
    events,      \* per-reading events in the topic
    topic,       \* whether the topic exists
    req,         \* what each slot is doing
    \* History variables: no action reads them.
    sent,        \* how often each reading was sent
    due,         \* the documents JSON requests stored: an event for each
    faults,      \* the events given up: a call failed or the request ended
    races,       \* the events, digests too, given up for a topic that is there
    claims       \* the counts that answers and digests reported

vars == <<stored, events, topic, req, sent, due, faults, races, claims>>

losses == <<faults, races>>

history == <<sent, due, losses, claims>>

\* saved is the count of the answer.  docs and size are history: the documents
\* the request stored and the readings it carried.
InFlight == [kind : {"json", "proto"}, todo : Seq(Readings),
             pc : {"save", "exists", "create", "publish"}, saved : Nat,
             docs : Nat, size : Nat]

Idle == [pc |-> "idle"]

TypeOK ==
    /\ stored \in [Readings -> Nat]
    /\ events \in [Readings -> Nat]
    /\ topic \in BOOLEAN
    /\ req \in [Requests -> InFlight \cup {Idle}]
    /\ sent \in [Readings -> Nat]
    /\ due \in [Readings -> Nat]
    /\ faults \in [Readings -> Nat]
    /\ races \in Nat
    /\ claims \subseteq [count : Nat, docs : Nat, size : Nat]

Init ==
    /\ stored = [x \in Readings |-> 0]
    /\ events = [x \in Readings |-> 0]
    /\ topic \in BOOLEAN
    /\ req = [r \in Requests |-> Idle]
    /\ sent = [x \in Readings |-> 0]
    /\ due = [x \in Readings |-> 0]
    /\ faults = [x \in Readings |-> 0]
    /\ races = 0
    /\ claims = {}

-----------------------------------------------------------------------------
(* Helpers                                                                 *)

Copies(b, x) == Cardinality({n \in DOMAIN b : b[n] = x})

Current(r) == Head(req[r].todo)

Goto(r, step) == req' = [req EXCEPT ![r].pc = step]

\* On to the next reading, whatever became of this one.
Continue(r) ==
    req' = [req EXCEPT ![r].pc = "save", ![r].todo = Tail(@)]

\* The request's current reading was stored.  The handler that is told so
\* counts it, and publishes it if it is a JSON one.
Counted(r) ==
    [req[r] EXCEPT
        !.docs = @ + 1,
        !.saved = @ + 1,
        !.pc = IF req[r].kind = "json" THEN "exists" ELSE "save",
        !.todo = IF req[r].kind = "json" THEN @ ELSE Tail(@)]

\* Mutant: a save that was answered with an error is tried again at once.
UncountedRetried(r) == [req[r] EXCEPT !.docs = @ + 1]

Uncounted(r) == [req[r] EXCEPT !.docs = @ + 1, !.todo = Tail(@)]

\* The first reading of a JSON request is stored and not yet published.
InHand(s) == s.pc \in {"exists", "create", "publish"} /\ s.kind = "json"

Held(x) == {r \in Requests : InHand(req[r]) /\ Head(req[r].todo) = x}

OneFor(f, r) == [f EXCEPT ![Current(r)] = @ + 1]

\* The event in hand, if there is one, will not be published.
Fault(r) == faults' = IF InHand(req[r]) THEN OneFor(faults, r) ELSE faults

Claim(r) ==
    [count |-> req[r].saved, docs |-> req[r].docs, size |-> req[r].size]

\* The response: what was saved out of what was received.
Answer(r) ==
    /\ req' = [req EXCEPT ![r] = Idle]
    /\ claims' = claims \cup {Claim(r)}

\* After an attempt to publish: a failure is logged and nothing else.
AfterPublish(r) ==
    IF req[r].kind = "json"
    THEN Continue(r) /\ UNCHANGED claims
    ELSE Answer(r)

\* The event is given up: it is not tried again.
GiveUp(r) == Fault(r) /\ AfterPublish(r)

-----------------------------------------------------------------------------

\* A request arrives; a retry is another request with the same body.
Receive(r, kind, b) ==
    /\ req[r] = Idle
    /\ \A x \in Readings : sent[x] + Copies(b, x) <= MaxSends
    /\ req' = [req EXCEPT ![r] =
                 [kind |-> kind, todo |-> b, pc |-> "save", saved |-> 0,
                  docs |-> 0, size |-> Len(b)]]
    /\ sent' = [x \in Readings |-> sent[x] + Copies(b, x)]
    /\ UNCHANGED <<stored, events, topic, due, losses, claims>>

\* The instance stops or the handler dies: nobody gets an answer.
Abort(r) ==
    /\ req[r] # Idle
    /\ req' = [req EXCEPT ![r] = Idle]
    /\ Fault(r)
    /\ UNCHANGED <<stored, events, topic, sent, due, races, claims>>

-----------------------------------------------------------------------------
(* Saving                                                                  *)

\* Mutant: a reading is counted before its save is known to have worked.
SkipCounted(r) ==
    /\ req[r].pc = "save"
    /\ req[r].todo # <<>>
    /\ req' = [req EXCEPT ![r] =
                 [@ EXCEPT !.saved = @ + 1, !.todo = Tail(@)]]
    /\ UNCHANGED <<stored, events, topic, history>>

\* A reading that is not valid is skipped; so is one whose save has failed.
Skip(r) ==
    /\ req[r].pc = "save"
    /\ req[r].todo # <<>>
    /\ Continue(r)
    /\ UNCHANGED <<stored, events, topic, history>>

\* The store may apply a save and still answer with an error.
Save(r) ==
    /\ req[r].pc = "save"
    /\ req[r].todo # <<>>
    /\ Current(r) \in Valid
    /\ stored' = OneFor(stored, r)
    /\ due' = IF req[r].kind = "json" THEN OneFor(due, r) ELSE due
    /\ \/ /\ req' = [req EXCEPT ![r] = Counted(r)]
          /\ UNCHANGED faults
       \/ /\ req' = [req EXCEPT ![r] = Uncounted(r)]
          /\ faults' = IF req[r].kind = "json" THEN OneFor(faults, r) ELSE faults
    /\ UNCHANGED <<events, topic, sent, races, claims>>

\* All readings are done: the JSON handlers answer, the protobuf handler
\* touches the device and publishes its digest, even of nothing.
Saved(r) ==
    /\ req[r].pc = "save"
    /\ req[r].todo = <<>>
    /\ IF req[r].kind = "json"
       THEN Answer(r)
       ELSE Goto(r, "exists") /\ UNCHANGED claims
    /\ UNCHANGED <<stored, events, topic, sent, due, losses>>

-----------------------------------------------------------------------------
(* Publishing                                                              *)

TopicExists(r) ==
    /\ req[r].pc = "exists"
    /\ topic
    /\ Goto(r, "publish")
    /\ UNCHANGED <<stored, events, topic, history>>

\* Mutant: the topic is created without looking for it.
TopicUnchecked(r) ==
    /\ req[r].pc = "exists"
    /\ Goto(r, "create")
    /\ UNCHANGED <<stored, events, topic, history>>

\* Mutant: without a topic there is nothing to publish to, which is no error.
TopicMissingQuiet(r) ==
    /\ req[r].pc = "exists"
    /\ ~ topic
    /\ AfterPublish(r)
    /\ UNCHANGED <<stored, events, topic, sent, due, losses>>

TopicMissing(r) ==
    /\ req[r].pc = "exists"
    /\ ~ topic
    /\ Goto(r, "create")
    /\ UNCHANGED <<stored, events, topic, history>>

CreateTopic(r) ==
    /\ req[r].pc = "create"
    /\ ~ topic
    /\ topic' = TRUE
    /\ Goto(r, "publish")
    /\ UNCHANGED <<stored, events, history>>

\* Another request has created the topic in between: that is an error too.
CreateRaced(r) ==
    /\ req[r].pc = "create"
    /\ topic
    /\ races' = races + 1
    /\ GiveUp(r)
    /\ UNCHANGED <<stored, events, topic, sent, due>>

\* A call to Pub/Sub fails, or takes effect and is answered with an error.
CallFailed(r) ==
    /\ req[r].pc \in {"exists", "create", "publish"}
    /\ topic' \in IF req[r].pc = "create" THEN {topic, TRUE} ELSE {topic}
    /\ GiveUp(r)
    /\ UNCHANGED <<stored, events, sent, due, races>>

\* The message is in the topic, whether or not its sender is told.
Publish(r) ==
    /\ req[r].pc = "publish"
    /\ AfterPublish(r)
    /\ events' = IF req[r].kind = "json" THEN OneFor(events, r) ELSE events
    /\ UNCHANGED <<stored, topic, sent, due, losses>>

-----------------------------------------------------------------------------

Next ==
    \E r \in Requests :
        \/ \E kind \in {"json", "proto"}, b \in Batches : Receive(r, kind, b)
        \/ Abort(r)
        \/ Skip(r) \/ Save(r) \/ Saved(r)
        \/ TopicExists(r) \/ TopicMissing(r) \/ CreateTopic(r) \/ CreateRaced(r)
        \/ CallFailed(r) \/ Publish(r)

Spec == Init /\ [][Next]_vars

-----------------------------------------------------------------------------
(* Properties                                                              *)

\* Whatever fails and is retried, there are never more events of a reading
\* than documents, nor more documents than times it was sent: an event speaks
\* of data that is stored, and no handler repeats a save by itself
\* (telemetry.go:54-68 and 129-143).
StoredFirst ==
    \A x \in Readings : events[x] <= stored[x] /\ stored[x] <= sent[x]

\* No answer or digest counts a reading that the request did not store
\* (telemetry.go:140 and 151-154, telemetry_proto.go:189-192).
CountsAreStored ==
    \A c \in claims : c.count <= c.docs /\ c.docs <= c.size

\* Every document that a JSON request stored has its event in the topic, has
\* it still to come from a request that holds it, or has been given up for a
\* cause: a call to Pub/Sub that was answered with an error, a save that was,
\* or the end of the request between its save and its publish
\* (telemetry.go:54-68 and 129-143, store_pubsub.go:19-36).
LossHasCause ==
    \A x \in Readings : due[x] = events[x] + Cardinality(Held(x)) + faults[x]

\* What is lost to a topic that another request has just created is lost once
\* and for all: at most one event for each other request in flight at that
\* time, and never any after it (store_pubsub.go:20-30).
RacesBounded == races < Cardinality(Requests)

=============================================================================
