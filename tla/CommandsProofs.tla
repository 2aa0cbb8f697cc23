--------------------------- MODULE CommandsProofs ---------------------------
(***************************************************************************)
(* What the handlers of commands promise, proved for any devices, ids and  *)
(* requests in flight.                                                     *)
(***************************************************************************)
EXTENDS Commands, TLAPS

-----------------------------------------------------------------------------
(* Types                                                                   *)

Slots == [Requests -> InFlight \cup {Idle}]

LEMMA SlotType ==
    ASSUME TypeOK, NEW r \in Requests
    PROVE  /\ req[r].pc \in {"query", "filter"} =>
                req[r] \in [pc : {"query", "filter"}, dev : Devices,
                            want : Live, found : SUBSET Ids]
           /\ req[r].pc \in {"lookup", "update"} =>
                req[r] \in [pc : {"lookup", "update"}, dev : Devices, id : Ids]
           /\ req[r].pc \in {"find", "remove"} =>
                req[r] \in [pc : {"find", "remove"}, id : Ids]
BY DEF TypeOK, InFlight, Idle

LEMMA FinishWrites ==
    ASSUME TypeOK, NEW r \in Requests, Finish(r)
    PROVE  /\ req' \in Slots
           /\ req'[r].pc = "idle"
           /\ \A x \in Requests \ {r} : req'[x] = req[x]
BY DEF Finish, TypeOK, Idle, Slots

LEMMA LookupWrites ==
    ASSUME TypeOK, NEW r \in Requests, req[r].pc = "lookup", Goto(r, "update")
    PROVE  /\ req' \in Slots
           /\ req'[r].pc = "update"
           /\ req'[r].id = req[r].id /\ req'[r].dev = req[r].dev
           /\ \A x \in Requests \ {r} : req'[x] = req[x]
<1> DEFINE next == [req[r] EXCEPT !.pc = "update"]
<1>1. req[r] \in [pc : {"lookup", "update"}, dev : Devices, id : Ids]
  BY SlotType
<1>2. /\ next \in InFlight
      /\ next.pc = "update" /\ next.id = req[r].id /\ next.dev = req[r].dev
  BY <1>1 DEF InFlight
<1>3. req' = [req EXCEPT ![r] = next]
  BY DEF Goto
<1> HIDE DEF next
<1> QED
  BY <1>2, <1>3 DEF TypeOK, Slots

LEMMA FindWrites ==
    ASSUME TypeOK, NEW r \in Requests, req[r].pc = "find", Goto(r, "remove")
    PROVE  /\ req' \in Slots
           /\ req'[r].pc = "remove"
           /\ req'[r].id = req[r].id
           /\ \A x \in Requests \ {r} : req'[x] = req[x]
<1> DEFINE next == [req[r] EXCEPT !.pc = "remove"]
<1>1. req[r] \in [pc : {"find", "remove"}, id : Ids]
  BY SlotType
<1>2. next \in InFlight /\ next.pc = "remove" /\ next.id = req[r].id
  BY <1>1 DEF InFlight
<1>3. req' = [req EXCEPT ![r] = next]
  BY DEF Goto
<1> HIDE DEF next
<1> QED
  BY <1>2, <1>3 DEF TypeOK, Slots

LEMMA QueryWrites ==
    ASSUME TypeOK, NEW r \in Requests, Query(r)
    PROVE  /\ req' \in Slots
           /\ req'[r].pc = "filter"
           /\ req'[r].dev = req[r].dev
           /\ \A c \in req'[r].found : c \in Ids /\ Exists(c)
                                       /\ cmd[c].dev = req[r].dev
           /\ \A x \in Requests \ {r} : req'[x] = req[x]
<1> DEFINE found == {c \in Ids : /\ Exists(c)
                                 /\ cmd[c].dev = req[r].dev
                                 /\ cmd[c].status = req[r].want}
           next == [req[r] EXCEPT !.pc = "filter", !.found = found]
<1>1. req[r] \in [pc : {"query", "filter"}, dev : Devices,
                  want : Live, found : SUBSET Ids]
  BY SlotType DEF Query
<1>2. found \in SUBSET Ids
      /\ \A c \in found : Exists(c) /\ cmd[c].dev = req[r].dev
  OBVIOUS
<1>3. req' = [req EXCEPT ![r] = next]
  BY DEF Query
<1> HIDE DEF found
<1>4. /\ next \in InFlight
      /\ next.pc = "filter" /\ next.dev = req[r].dev /\ next.found = found
  BY <1>1, <1>2 DEF InFlight
<1> HIDE DEF next
<1>5. /\ req' \in Slots /\ req'[r] = next
      /\ \A x \in Requests \ {r} : req'[x] = req[x]
  BY <1>3, <1>4 DEF TypeOK, Slots
<1> QED
  BY <1>2, <1>4, <1>5

LEMMA ReceiveWrites ==
    ASSUME TypeOK, NEW r \in Requests, NEW next \in InFlight,
           req' = [req EXCEPT ![r] = next]
    PROVE  /\ req' \in Slots
           /\ req'[r] = next
           /\ \A x \in Requests \ {r} : req'[x] = req[x]
BY DEF TypeOK, Slots

-----------------------------------------------------------------------------
(* The invariant                                                           *)

\* A command that is in the store or was deleted from it.
Created(c) == cmd[c] # NoCommand

\* What a handler found still holds but for the status: a command keeps its
\* place, its owner and its expiry.
RequestInv(r) ==
    /\ req[r].pc = "filter" =>
         \A c \in req[r].found : Created(c) /\ cmd[c].dev = req[r].dev
    /\ req[r].pc = "update" =>
         Created(req[r].id) /\ cmd[req[r].id].dev = req[r].dev
    /\ req[r].pc = "remove" => Created(req[r].id)

IInv ==
    /\ TypeOK
    /\ \A r \in Requests : RequestInv(r)
    /\ AckHolds
    /\ \A s \in shown : Created(s.id)
    /\ ShownIsCurrent

\* What a step may do to a command that was created.
Keeps(c) ==
    /\ cmd'[c] \in Command
    /\ cmd'[c].dev = cmd[c].dev
    /\ cmd'[c].expiresAt = cmd[c].expiresAt
    /\ cmd[c].status = "deleted" => cmd'[c].status = "deleted"
    /\ cmd[c].status = "acknowledged" =>
         cmd'[c].status \in {"acknowledged", "deleted"}

LEMMA CreatedType ==
    ASSUME TypeOK, NEW c \in Ids
    PROVE  /\ Created(c) <=> cmd[c] \in Command
           /\ Exists(c) => Created(c)
           /\ cmd[c].status \in Live \cup {"deleted", "none"}
BY DEF TypeOK, Created, NoCommand, Command, Exists, Live

\* Every step of the store is a creation or keeps what was created.
LEMMA StatusKeeps ==
    ASSUME TypeOK, NEW c \in Ids, Created(c), NEW status,
           \/ status = "deleted"
           \/ status = "acknowledged" /\ Exists(c),
           SetStatus(c, status)
    PROVE  /\ cmd' \in [Ids -> Command \cup {NoCommand}]
           /\ \A x \in Ids : Created(x) => Keeps(x)
           /\ cmd'[c].status = status
<1> DEFINE next == [cmd[c] EXCEPT !.status = status]
<1>1. cmd[c] \in Command
  BY CreatedType
<1>2. /\ next \in Command
      /\ next.dev = cmd[c].dev /\ next.expiresAt = cmd[c].expiresAt
      /\ next.status = status
  BY <1>1 DEF Command, Live
<1>3. cmd' = [cmd EXCEPT ![c] = next]
  BY DEF SetStatus
<1> HIDE DEF next
<1>4. /\ cmd' \in [Ids -> Command \cup {NoCommand}]
      /\ cmd'[c] = next
      /\ \A x \in Ids \ {c} : cmd'[x] = cmd[x]
  BY <1>2, <1>3 DEF TypeOK
<1>5. cmd[c].status = "deleted" => status = "deleted"
  BY DEF Exists, Live
<1>6. \A x \in Ids \ {c} : Created(x) => Keeps(x)
  BY <1>4, CreatedType DEF Keeps
<1>7. Keeps(c)
  BY <1>2, <1>4, <1>5 DEF Keeps
<1> QED
  BY <1>2, <1>4, <1>6, <1>7

LEMMA StayKeeps ==
    ASSUME TypeOK, cmd' = cmd
    PROVE  /\ cmd' \in [Ids -> Command \cup {NoCommand}]
           /\ \A x \in Ids : Created(x) => Keeps(x)
BY CreatedType DEF Keeps, TypeOK

LEMMA CreateKeeps ==
    ASSUME TypeOK, NEW c \in Ids, NEW d \in Devices, NEW e \in Expiries,
           Create(c, d, e)
    PROVE  /\ cmd' \in [Ids -> Command \cup {NoCommand}]
           /\ \A x \in Ids : Created(x) => Keeps(x)
<1> DEFINE new == [dev |-> d, status |-> "pending", expiresAt |-> e]
<1>1. new \in Command
  BY DEF Command, Live
<1>2. cmd' = [cmd EXCEPT ![c] = new] /\ cmd[c] = NoCommand
  BY DEF Create
<1> HIDE DEF new
<1>3. /\ cmd' \in [Ids -> Command \cup {NoCommand}]
      /\ \A x \in Ids \ {c} : cmd'[x] = cmd[x]
  BY <1>1, <1>2 DEF TypeOK
<1> QED
  BY <1>2, <1>3, CreatedType DEF Keeps, Created

\* What was found, acknowledged and shown stays true where commands are kept.
LEMMA KeptRequest ==
    ASSUME TypeOK, NEW x \in Requests, RequestInv(x), req'[x] = req[x],
           \A c \in Ids : Created(c) => Keeps(c)
    PROVE  RequestInv(x)'
<1>1. \A c \in Ids : Created(c) => Created(c)' /\ cmd'[c].dev = cmd[c].dev
  BY DEF Keeps, Created, Command, NoCommand
<1>2. CASE req[x].pc = "filter"
  <2>1. req[x].found \subseteq Ids
    BY <1>2, SlotType
  <2>2. \A c \in req[x].found : Created(c)' /\ cmd'[c].dev = req[x].dev
    BY <1>1, <1>2, <2>1 DEF RequestInv
  <2> QED
    BY <1>2, <2>2 DEF RequestInv
<1>3. CASE req[x].pc \in {"update", "remove"}
  <2>1. req[x].id \in Ids
    BY <1>3, SlotType
  <2> QED
    BY <1>1, <1>3, <2>1 DEF RequestInv
<1> QED
  BY <1>2, <1>3 DEF RequestInv

LEMMA KeptHistory ==
    ASSUME IInv, \A c \in Ids : Created(c) => Keeps(c),
           \A a \in acks' : \/ a \in acks
                            \/ /\ cmd'[a[1]].dev = a[2]
                               /\ cmd'[a[1]].status = "acknowledged",
           \A s \in shown' : \/ s \in shown
                             \/ /\ s.id \in Ids
                                /\ Created(s.id)
                                /\ cmd[s.id].dev = s.dev
                                /\ cmd[s.id].expiresAt > s.at
    PROVE  /\ AckHolds'
           /\ ShownIsCurrent'
           /\ \A s \in shown' : Created(s.id)'
<1>1. \A c \in Ids : Created(c) => Created(c)'
  BY DEF Keeps, Created, Command, NoCommand
<1>2. ASSUME NEW a \in acks'
      PROVE  /\ cmd'[a[1]].dev = a[2]
             /\ cmd'[a[1]].status \in {"acknowledged", "deleted"}
  <2>1. CASE a \in acks
    <3>1. /\ a[1] \in Ids
          /\ cmd[a[1]].dev = a[2]
          /\ cmd[a[1]].status \in {"acknowledged", "deleted"}
      BY <2>1 DEF IInv, AckHolds, TypeOK
    <3>2. Created(a[1])
      BY <3>1 DEF Created, NoCommand
    <3> QED
      BY <3>1, <3>2 DEF Keeps
  <2> QED
    BY <2>1
<1>3. ASSUME NEW s \in shown'
      PROVE  /\ Created(s.id)' /\ cmd'[s.id].dev = s.dev
             /\ cmd'[s.id].expiresAt > s.at
  <2>1. /\ s.id \in Ids /\ Created(s.id) /\ cmd[s.id].dev = s.dev
        /\ cmd[s.id].expiresAt > s.at
    BY DEF IInv, ShownIsCurrent, TypeOK
  <2> QED
    BY <1>1, <2>1 DEF Keeps
<1> QED
  BY <1>2, <1>3 DEF AckHolds, ShownIsCurrent

\* A step of a request that keeps what was created.
LEMMA KeepingStep ==
    ASSUME IInv, NEW r \in Requests,
           cmd' \in [Ids -> Command \cup {NoCommand}],
           \A c \in Ids : Created(c) => Keeps(c),
           req' \in Slots,
           \A x \in Requests \ {r} : req'[x] = req[x],
           RequestInv(r)',
           clock' \in Nat, rejected' \subseteq Ids,
           acks' \subseteq Ids \X Devices,
           \A a \in acks' : \/ a \in acks
                            \/ /\ cmd'[a[1]].dev = a[2]
                               /\ cmd'[a[1]].status = "acknowledged",
           shown' \subseteq [dev : Devices, id : Ids, at : Nat],
           \A s \in shown' : \/ s \in shown
                             \/ /\ Created(s.id)
                                /\ cmd[s.id].dev = s.dev
                                /\ cmd[s.id].expiresAt > s.at
    PROVE  IInv'
<1>1. TypeOK /\ TypeOK'
  BY DEF IInv, TypeOK, Slots
<1>2. ASSUME NEW x \in Requests PROVE RequestInv(x)'
  BY <1>1, KeptRequest DEF IInv
<1>3. \A s \in shown' : s.id \in Ids
  OBVIOUS
<1> QED
  BY <1>1, <1>2, <1>3, KeptHistory DEF IInv

LEMMA InvInitially == Init => IInv
BY DEF Init, IInv, TypeOK, RequestInv, AckHolds, ShownIsCurrent, Idle

LEMMA NextStep == IInv /\ Next => IInv' /\ \A x \in Ids : Created(x) => Keeps(x)
<1> SUFFICES ASSUME IInv, Next
             PROVE  IInv' /\ \A x \in Ids : Created(x) => Keeps(x)
  OBVIOUS
<1> DEFINE Goal == IInv' /\ \A x \in Ids : Created(x) => Keeps(x)
<1>1. /\ TypeOK /\ req \in Slots /\ clock \in Nat /\ rejected \subseteq Ids
      /\ acks \subseteq Ids \X Devices
      /\ shown \subseteq [dev : Devices, id : Ids, at : Nat]
      /\ \A r \in Requests : RequestInv(r)
  BY DEF IInv, TypeOK, Slots
<1>2. ASSUME Tick PROVE Goal
  <2>1. UNCHANGED <<cmd, req, acks, shown, rejected>> /\ clock' \in Nat
    BY <1>1, <1>2 DEF Tick, history
  <2>2. \A x \in Ids : Created(x) => Keeps(x)
    BY <1>1, <2>1, StayKeeps
  <2> QED
    BY <2>1, <2>2
       DEF IInv, TypeOK, RequestInv, AckHolds, ShownIsCurrent, Created
<1>3. ASSUME NEW c \in Ids, NEW d \in Devices, NEW e \in Expiries,
             Create(c, d, e)
      PROVE  Goal
  <2>1. UNCHANGED <<clock, req, acks, shown, rejected>>
    BY <1>3 DEF Create, history
  <2>2. /\ cmd' \in [Ids -> Command \cup {NoCommand}]
        /\ \A x \in Ids : Created(x) => Keeps(x)
    BY <1>1, <1>3, CreateKeeps
  <2>3. ASSUME NEW r \in Requests PROVE RequestInv(r)'
    BY <1>1, <2>1, <2>2, KeptRequest
  <2>4. TypeOK'
    BY <1>1, <2>1, <2>2 DEF TypeOK
  <2> QED
    BY <2>1, <2>2, <2>3, <2>4, KeptHistory DEF IInv
<1>4. ASSUME NEW r \in Requests, Finish(r),
             UNCHANGED <<clock, cmd, acks, shown, rejected>>
      PROVE  Goal
  <2>1. RequestInv(r)'
    BY <1>1, <1>4, FinishWrites DEF RequestInv
  <2> QED
    BY <1>1, <1>4, <2>1, FinishWrites, StayKeeps, KeepingStep
<1>5. ASSUME NEW r \in Requests, NEW next \in InFlight,
             next.pc \in {"query", "lookup", "find"},
             req' = [req EXCEPT ![r] = next],
             UNCHANGED <<clock, cmd, acks, shown, rejected>>
      PROVE  Goal
  <2>1. RequestInv(r)'
    BY <1>1, <1>5, ReceiveWrites DEF RequestInv
  <2> QED
    BY <1>1, <1>5, <2>1, ReceiveWrites, StayKeeps, KeepingStep
<1>6. ASSUME NEW r \in Requests, NEW d \in Devices, NEW want \in Live,
             ReceivePoll(r, d, want)
      PROVE  Goal
  <2>1. [pc |-> "query", dev |-> d, want |-> want, found |-> {}] \in InFlight
    BY DEF InFlight
  <2> QED
    BY <1>5, <1>6, <2>1 DEF ReceivePoll, history
<1>7. ASSUME NEW r \in Requests, Query(r) PROVE Goal
  <2>1. RequestInv(r)'
    BY <1>1, <1>7, QueryWrites, CreatedType DEF RequestInv, Query, Created
  <2> QED
    BY <1>1, <1>7, <2>1, QueryWrites, StayKeeps, KeepingStep DEF Query, history
<1>8. ASSUME NEW r \in Requests, AnswerPoll(r) PROVE Goal
  <2>1. req[r] \in [pc : {"query", "filter"}, dev : Devices,
                    want : Live, found : SUBSET Ids]
    BY <1>1, <1>8, SlotType DEF AnswerPoll
  <2>2. \A c \in req[r].found : Created(c) /\ cmd[c].dev = req[r].dev
    BY <1>1, <1>8 DEF AnswerPoll, RequestInv
  <2>3. /\ shown' \subseteq [dev : Devices, id : Ids, at : Nat]
        /\ \A s \in shown' : /\ Created(s.id)
                             /\ cmd[s.id].dev = s.dev
                             /\ cmd[s.id].expiresAt > s.at
    BY <1>1, <1>8, <2>1, <2>2 DEF AnswerPoll
  <2>4. RequestInv(r)' /\ clock' = clock
    BY <1>1, <1>8, FinishWrites DEF RequestInv, AnswerPoll
  <2> QED
    BY <1>1, <1>8, <2>3, <2>4, FinishWrites, StayKeeps, KeepingStep
       DEF AnswerPoll
<1>9. ASSUME NEW r \in Requests, NEW d \in Devices, NEW c \in Ids,
             ReceiveAck(r, d, c)
      PROVE  Goal
  <2>1. CASE c \in UUIDs
    <3>1. [pc |-> "lookup", dev |-> d, id |-> c] \in InFlight
      BY DEF InFlight
    <3> QED
      BY <1>5, <1>9, <2>1, <3>1 DEF ReceiveAck
  <2>2. CASE c \notin UUIDs
    <3>1. /\ UNCHANGED <<clock, cmd, req, acks, shown>>
          /\ rejected' \subseteq Ids
      BY <1>1, <1>9, <2>2 DEF ReceiveAck
    <3>2. RequestInv(r)'
      BY <1>1, <3>1 DEF RequestInv, Created
    <3> QED
      BY <1>1, <3>1, <3>2, StayKeeps, KeepingStep
  <2> QED
    BY <2>1, <2>2
<1>10. ASSUME NEW r \in Requests, AckLookup(r) PROVE Goal
  <2>1. UNCHANGED <<clock, cmd, acks, shown, rejected>>
    BY <1>10 DEF AckLookup, history
  <2>2. CASE Finish(r)
    BY <1>4, <2>1, <2>2
  <2>3. CASE ~ Finish(r)
    <3>1. /\ req[r].pc = "lookup" /\ Goto(r, "update")
          /\ Exists(req[r].id) /\ cmd[req[r].id].dev = req[r].dev
      BY <1>10, <2>3 DEF AckLookup
    <3>2. req[r].id \in Ids
      BY <1>1, <3>1, SlotType
    <3>3. RequestInv(r)'
      BY <1>1, <2>1, <3>1, <3>2, LookupWrites, CreatedType
         DEF RequestInv, Created
    <3> QED
      BY <1>1, <2>1, <3>1, <3>3, LookupWrites, StayKeeps, KeepingStep
  <2> QED
    BY <2>2, <2>3
<1>11. ASSUME NEW r \in Requests, AckUpdate(r) PROVE Goal
  <2> DEFINE c == req[r].id
  <2>1. c \in Ids /\ req[r].dev \in Devices
    BY <1>1, <1>11, SlotType DEF AckUpdate
  <2>2. Created(c) /\ cmd[c].dev = req[r].dev
    BY <1>1, <1>11 DEF AckUpdate, RequestInv
  <2>3. /\ cmd' \in [Ids -> Command \cup {NoCommand}]
        /\ \A x \in Ids : Created(x) => Keeps(x)
        /\ cmd'[c].status = "acknowledged"
    BY <1>1, <1>11, <2>1, <2>2, StatusKeeps DEF AckUpdate
  <2>4. cmd'[c].dev = req[r].dev
    BY <2>1, <2>2, <2>3 DEF Keeps
  <2>5. /\ acks' \subseteq Ids \X Devices
        /\ \A a \in acks' : \/ a \in acks
                            \/ /\ cmd'[a[1]].dev = a[2]
                               /\ cmd'[a[1]].status = "acknowledged"
    BY <1>1, <1>11, <2>1, <2>3, <2>4 DEF AckUpdate
  <2>6. RequestInv(r)' /\ UNCHANGED <<clock, shown, rejected>> /\ Finish(r)
    BY <1>1, <1>11, FinishWrites DEF RequestInv, AckUpdate
  <2> QED
    BY <1>1, <2>3, <2>5, <2>6, FinishWrites, KeepingStep
<1>12. ASSUME NEW r \in Requests, NEW c \in Ids, ReceiveDelete(r, c)
       PROVE  Goal
  <2>1. [pc |-> "find", id |-> c] \in InFlight
    BY DEF InFlight
  <2> QED
    BY <1>5, <1>12, <2>1 DEF ReceiveDelete, history
<1>13. ASSUME NEW r \in Requests, DeleteLookup(r) PROVE Goal
  <2>1. UNCHANGED <<clock, cmd, acks, shown, rejected>>
    BY <1>13 DEF DeleteLookup, history
  <2>2. CASE Finish(r)
    BY <1>4, <2>1, <2>2
  <2>3. CASE ~ Finish(r)
    <3>1. req[r].pc = "find" /\ Goto(r, "remove") /\ Exists(req[r].id)
      BY <1>13, <2>3 DEF DeleteLookup
    <3>2. req[r].id \in Ids
      BY <1>1, <3>1, SlotType
    <3>3. RequestInv(r)'
      BY <1>1, <2>1, <3>1, <3>2, FindWrites, CreatedType DEF RequestInv, Created
    <3> QED
      BY <1>1, <2>1, <3>1, <3>3, FindWrites, StayKeeps, KeepingStep
  <2> QED
    BY <2>2, <2>3
<1>14. ASSUME NEW r \in Requests, Delete(r) PROVE Goal
  <2> DEFINE c == req[r].id
  <2>1. c \in Ids /\ Created(c)
    BY <1>1, <1>14, SlotType DEF Delete, RequestInv
  <2>2. /\ cmd' \in [Ids -> Command \cup {NoCommand}]
        /\ \A x \in Ids : Created(x) => Keeps(x)
    BY <1>1, <1>14, <2>1, StatusKeeps DEF Delete
  <2>3. /\ RequestInv(r)' /\ Finish(r)
        /\ UNCHANGED <<clock, acks, shown, rejected>>
    BY <1>1, <1>14, FinishWrites DEF RequestInv, Delete, history
  <2> QED
    BY <1>1, <2>2, <2>3, FinishWrites, KeepingStep
<1>15. ASSUME NEW r \in Requests, Abort(r) PROVE Goal
  BY <1>4, <1>15 DEF Abort, history
<1> HIDE DEF Goal
<1>16. Goal
  BY <1>2, <1>3, <1>6, <1>7, <1>8, <1>9, <1>10, <1>11, <1>12, <1>13, <1>14,
     <1>15 DEF Next
<1> QED
  BY <1>16 DEF Goal

LEMMA InvPreserved == IInv /\ [Next]_vars => IInv'
<1>1. CASE UNCHANGED vars
  BY <1>1
     DEF vars, IInv, TypeOK, RequestInv, AckHolds, ShownIsCurrent, Created
<1> QED
  BY <1>1, NextStep

LEMMA Inductive == Spec => []IInv
BY InvInitially, InvPreserved, PTL DEF Spec

-----------------------------------------------------------------------------
(* Theorems                                                                *)

\* The states of the command handlers keep their types.
THEOREM TypeCorrect == Spec => []TypeOK
<1>1. IInv => TypeOK
  BY DEF IInv
<1> QED
  BY <1>1, Inductive, PTL

\* A device that was told that it acknowledged a command owns it, and the
\* command is never pending again (commands.go:176-215).
THEOREM AcksHold == Spec => []AckHolds
<1>1. IInv => AckHolds
  BY DEF IInv
<1> QED
  BY <1>1, Inductive, PTL

\* A poll is answered with the device's own commands, none of them expired
\* (commands.go:42-60).
THEOREM PollsAreCurrent == Spec => []ShownIsCurrent
<1>1. IInv => ShownIsCurrent
  BY DEF IInv
<1> QED
  BY <1>1, Inductive, PTL

\* No interleaving of acknowledgements and deletions moves a command back
\* (commands.go:176-200 and 243).
THEOREM NeverBack == Spec => Forward
<1> DEFINE ForwardStep ==
      \A c \in Ids :
         /\ cmd[c].status = "deleted" => cmd'[c].status = "deleted"
         /\ cmd[c].status = "acknowledged" =>
              cmd'[c].status \in {"acknowledged", "deleted"}
<1>1. IInv /\ [Next]_vars => [ForwardStep]_vars
  <2> SUFFICES ASSUME IInv, Next, NEW c \in Ids
               PROVE  /\ cmd[c].status = "deleted" => cmd'[c].status = "deleted"
                      /\ cmd[c].status = "acknowledged" =>
                           cmd'[c].status \in {"acknowledged", "deleted"}
    OBVIOUS
  <2>1. CASE Created(c)
    BY <2>1, NextStep DEF Keeps
  <2>2. CASE ~ Created(c)
    BY <2>2 DEF Created, NoCommand
  <2> QED
    BY <2>1, <2>2
<1> HIDE DEF ForwardStep
<1>2. Spec => [][ForwardStep]_vars
  BY <1>1, Inductive, PTL DEF Spec
<1> QED
  BY <1>2 DEF Forward, ForwardStep

=============================================================================
