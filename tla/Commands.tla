------------------------------ MODULE Commands ------------------------------
(***************************************************************************)
(* Commands for devices (handlers/commands.go over the commands            *)
(* collection).  An admin creates and deletes commands, a device polls and *)
(* acknowledges its own; every handler looks first and acts later, so      *)
(* acknowledgement, deletion and polling of one command interleave.        *)
(***************************************************************************)
EXTENDS Naturals

CONSTANTS
    Devices,     \* device identities
    Ids,         \* command ids that occur in request paths
    StoreIds,    \* the ids among them that the store hands out
    UUIDs,       \* the ids among them that validate.UUID accepts
    Requests,    \* slots for the requests in flight
    Expiries,    \* expiry times of commands, explicit or the default
    MaxTime      \* bound: the clock stops here

ASSUME CommandAssumption ==
    /\ StoreIds \subseteq Ids
    /\ UUIDs \subseteq Ids
    /\ Expiries \subseteq Nat
    /\ MaxTime \in Nat

VARIABLES
    clock,       \* time.Now()
    cmd,         \* the command of each id
    req,         \* what each slot is doing
    \* History variables: no action reads them.
    acks,        \* <<id, device>> of each acknowledgement answered with 200
    shown,       \* the commands of the latest answer to a poll
    rejected     \* the stored commands whose id AckCommand refused as malformed

vars == <<clock, cmd, req, acks, shown, rejected>>

history == <<acks, shown, rejected>>

\* The code knows two more, "completed" and "failed", but never writes them.
Live == {"pending", "acknowledged"}

\* A deleted document keeps its place, so that history can speak of it.
Command == [dev : Devices, status : Live \cup {"deleted"}, expiresAt : Expiries]

NoCommand == [status |-> "none"]

InFlight ==
    [pc : {"query", "filter"}, dev : Devices, want : Live, found : SUBSET Ids]
        \cup [pc : {"lookup", "update"}, dev : Devices, id : Ids]
        \cup [pc : {"find", "remove"}, id : Ids]

Idle == [pc |-> "idle"]

TypeOK ==
    /\ clock \in Nat
    /\ cmd \in [Ids -> Command \cup {NoCommand}]
    /\ req \in [Requests -> InFlight \cup {Idle}]
    /\ acks \subseteq Ids \X Devices
    /\ shown \subseteq [dev : Devices, id : Ids, at : Nat]
    /\ rejected \subseteq Ids

Init ==
    /\ clock = 0
    /\ cmd = [c \in Ids |-> NoCommand]
    /\ req = [r \in Requests |-> Idle]
    /\ acks = {}
    /\ shown = {}
    /\ rejected = {}

-----------------------------------------------------------------------------

Exists(c) == cmd[c].status \in Live

Goto(r, step) == req' = [req EXCEPT ![r].pc = step]

Finish(r) == req' = [req EXCEPT ![r] = Idle]

\* Mutant: the document is replaced by its new status.
SetStatusOnly(c, status) == cmd' = [cmd EXCEPT ![c] = [status |-> status]]

SetStatus(c, status) == cmd' = [cmd EXCEPT ![c].status = status]

Tick ==
    /\ clock < MaxTime
    /\ clock' = clock + 1
    /\ UNCHANGED <<cmd, req, history>>

\* Any handler may fail before its next access to the store, and its instance
\* may stop.
Abort(r) ==
    /\ req[r] # Idle
    /\ Finish(r)
    /\ UNCHANGED <<clock, cmd, history>>

-----------------------------------------------------------------------------

\* CreateCommand: the store adds the command under an id of its own.
Create(c, d, e) ==
    /\ c \in StoreIds
    /\ cmd[c] = NoCommand
    /\ cmd' = [cmd EXCEPT ![c] =
                 [dev |-> d, status |-> "pending", expiresAt |-> e]]
    /\ UNCHANGED <<clock, req, history>>

-----------------------------------------------------------------------------
(* GetCommands: query the store, then drop what has expired by now         *)

ReceivePoll(r, d, want) ==
    /\ req[r] = Idle
    /\ req' = [req EXCEPT ![r] =
                 [pc |-> "query", dev |-> d, want |-> want, found |-> {}]]
    /\ UNCHANGED <<clock, cmd, history>>

Query(r) ==
    /\ req[r].pc = "query"
    /\ LET found == {c \in Ids : /\ Exists(c)
                                 /\ cmd[c].dev = req[r].dev
                                 /\ cmd[c].status = req[r].want}
       IN  req' = [req EXCEPT ![r] =
                     [@ EXCEPT !.pc = "filter", !.found = found]]
    /\ UNCHANGED <<clock, cmd, history>>

\* Mutant: expired commands are not dropped.
AnswerPollAll(r) ==
    /\ req[r].pc = "filter"
    /\ shown' = {[dev |-> req[r].dev, id |-> c, at |-> clock] :
                   c \in req[r].found}
    /\ Finish(r)
    /\ UNCHANGED <<clock, cmd, acks, rejected>>

AnswerPoll(r) ==
    /\ req[r].pc = "filter"
    /\ LET valid == {c \in req[r].found : cmd[c].expiresAt > clock}
       IN  shown' = {[dev |-> req[r].dev, id |-> c, at |-> clock] : c \in valid}
    /\ Finish(r)
    /\ UNCHANGED <<clock, cmd, acks, rejected>>

-----------------------------------------------------------------------------
(* AckCommand: check the id and the owner, then update the status          *)

ReceiveAck(r, d, c) ==
    /\ req[r] = Idle
    /\ IF c \in UUIDs
       THEN /\ req' = [req EXCEPT ![r] = [pc |-> "lookup", dev |-> d, id |-> c]]
            /\ UNCHANGED rejected
       ELSE /\ rejected' = IF Exists(c) THEN rejected \cup {c} ELSE rejected
            /\ UNCHANGED req
    /\ UNCHANGED <<clock, cmd, acks, shown>>

\* Mutant: the owner is not compared.
AckLookupAnyone(r) ==
    /\ req[r].pc = "lookup"
    /\ IF Exists(req[r].id) THEN Goto(r, "update") ELSE Finish(r)
    /\ UNCHANGED <<clock, cmd, history>>

\* A missing command and another device's command are both "not found".
AckLookup(r) ==
    /\ req[r].pc = "lookup"
    /\ IF Exists(req[r].id) /\ cmd[req[r].id].dev = req[r].dev
       THEN Goto(r, "update")
       ELSE Finish(r)
    /\ UNCHANGED <<clock, cmd, history>>

\* Mutant: the update creates a document that is not there.
AckUpsert(r) ==
    /\ req[r].pc = "update"
    /\ SetStatus(req[r].id, "acknowledged")
    /\ acks' \in {acks, acks \cup {<<req[r].id, req[r].dev>>}}
    /\ Finish(r)
    /\ UNCHANGED <<clock, shown, rejected>>

\* Update fails on a document that is not there.  An update that is applied
\* may still be answered with an error.
AckUpdate(r) ==
    /\ req[r].pc = "update"
    /\ Exists(req[r].id)
    /\ SetStatus(req[r].id, "acknowledged")
    /\ acks' \in {acks, acks \cup {<<req[r].id, req[r].dev>>}}
    /\ Finish(r)
    /\ UNCHANGED <<clock, shown, rejected>>

-----------------------------------------------------------------------------
(* DeleteCommand: check that the command exists, then delete it            *)

ReceiveDelete(r, c) ==
    /\ req[r] = Idle
    /\ c \in UUIDs
    /\ req' = [req EXCEPT ![r] = [pc |-> "find", id |-> c]]
    /\ UNCHANGED <<clock, cmd, history>>

DeleteLookup(r) ==
    /\ req[r].pc = "find"
    /\ IF Exists(req[r].id) THEN Goto(r, "remove") ELSE Finish(r)
    /\ UNCHANGED <<clock, cmd, history>>

\* Deleting a document that is already gone succeeds too.
Delete(r) ==
    /\ req[r].pc = "remove"
    /\ SetStatus(req[r].id, "deleted")
    /\ Finish(r)
    /\ UNCHANGED <<clock, history>>

-----------------------------------------------------------------------------

Next ==
    \/ Tick
    \/ \E c \in Ids, d \in Devices, e \in Expiries : Create(c, d, e)
    \/ \E r \in Requests :
         \/ \E d \in Devices, want \in Live : ReceivePoll(r, d, want)
         \/ Query(r)
         \/ AnswerPoll(r)
         \/ \E d \in Devices, c \in Ids : ReceiveAck(r, d, c)
         \/ AckLookup(r)
         \/ AckUpdate(r)
         \/ \E c \in Ids : ReceiveDelete(r, c)
         \/ DeleteLookup(r)
         \/ Delete(r)
         \/ Abort(r)

Spec == Init /\ [][Next]_vars

-----------------------------------------------------------------------------
(* Properties                                                              *)

\* A command moves only forward, pending to acknowledged to deleted: an
\* acknowledgement that was checked before a deletion and written after it
\* does not bring the command back (commands.go:176-200 against 243).
Forward ==
    [][\A c \in Ids :
         /\ cmd[c].status = "deleted" => cmd'[c].status = "deleted"
         /\ cmd[c].status = "acknowledged" =>
              cmd'[c].status \in {"acknowledged", "deleted"}]_vars

\* A device that was told that it acknowledged a command owns the command, and
\* the command is never pending again, whatever deletions and repeated
\* acknowledgements of it were under way (commands.go:176-215).
AckHolds ==
    \A a \in acks : LET c == cmd[a[1]]
                    IN  c.dev = a[2] /\ c.status \in {"acknowledged", "deleted"}

\* A poll is answered with commands of the polling device that have not
\* expired when the answer is made, however long ago the store was asked
\* (commands.go:42-60).
ShownIsCurrent ==
    \A s \in shown : cmd[s.id].dev = s.dev /\ cmd[s.id].expiresAt > s.at

\* "device acknowledges a command" (commands.go:151) and "Acknowledge command"
\* (README.md:90): AckCommand does not refuse the id of a stored command as
\* malformed.
StoredIdsAccepted == rejected = {}

=============================================================================
