-------------------------- MODULE TelemetryProofs ---------------------------
(***************************************************************************)
(* What the ingestion of telemetry promises, proved for any readings,      *)
(* batches and requests in flight.                                         *)
(***************************************************************************)
EXTENDS Telemetry, FiniteSetTheorems, TLAPS

-----------------------------------------------------------------------------
(* What a request has still to do                                          *)

Slots == [Requests -> InFlight \cup {Idle}]

\* The readings that are still to be saved are the last of the batch: their
\* places, counted from the end, stay the same while the request goes on.
Left(s) == IF s.pc = "idle" THEN 0
           ELSE IF InHand(s) THEN Len(s.todo) - 1 ELSE Len(s.todo)

Unsaved(s, x) == {k \in 1 .. Left(s) : s.todo[Len(s.todo) - k + 1] = x}

Pending(x) == {p \in Requests \X Nat : p[2] \in Unsaved(req[p[1]], x)}

\* What holds of a request at any time.
Good(s) ==
    s.pc # "idle" =>
        /\ s.saved <= s.docs
        /\ s.docs + Left(s) <= s.size
        /\ InHand(s) => s.todo # <<>>

\* The types of the history variables about losses.
LossTypes ==
    due \in [Readings -> Nat] /\ faults \in [Readings -> Nat] /\ races \in Nat

LEMMA SlotType ==
    ASSUME TypeOK, NEW r \in Requests, req[r].pc # "idle"
    PROVE  req[r] \in InFlight
BY DEF TypeOK, Idle

LEMMA TailKeepsPlaces ==
    ASSUME NEW q \in Seq(Readings), q # <<>>
    PROVE  /\ Tail(q) \in Seq(Readings)
           /\ Len(q) \in Nat \ {0}
           /\ Len(Tail(q)) = Len(q) - 1
           /\ Head(q) = q[1] /\ Head(q) \in Readings
           /\ \A k \in 1 .. Len(q) - 1 :
                Tail(q)[Len(Tail(q)) - k + 1] = q[Len(q) - k + 1]
OBVIOUS

\* A request moves on without touching its batch.
LEMMA GotoSlot ==
    ASSUME NEW s \in InFlight, NEW p \in {"save", "exists", "create", "publish"}
    PROVE  LET t == [s EXCEPT !.pc = p]
           IN  /\ t \in InFlight /\ t.pc = p
               /\ t.kind = s.kind /\ t.todo = s.todo /\ t.saved = s.saved
               /\ t.docs = s.docs /\ t.size = s.size
BY DEF InFlight

LEMMA NextReading ==
    ASSUME NEW s \in InFlight, s.todo # <<>>
    PROVE  LET t == [s EXCEPT !.pc = "save", !.todo = Tail(s.todo)]
           IN  /\ t \in InFlight /\ t.pc = "save"
               /\ t.kind = s.kind /\ t.todo = Tail(s.todo) /\ t.saved = s.saved
               /\ t.docs = s.docs /\ t.size = s.size
BY TailKeepsPlaces DEF InFlight

LEMMA CountedSlot ==
    ASSUME TypeOK, NEW r \in Requests, req[r] \in InFlight, req[r].todo # <<>>
    PROVE  /\ Counted(r) \in InFlight
           /\ Counted(r).kind = req[r].kind
           /\ Counted(r).saved = req[r].saved + 1
           /\ Counted(r).docs = req[r].docs + 1
           /\ Counted(r).size = req[r].size
           /\ req[r].kind = "json" =>
                Counted(r).pc = "exists" /\ Counted(r).todo = req[r].todo
           /\ req[r].kind = "proto" =>
                Counted(r).pc = "save" /\ Counted(r).todo = Tail(req[r].todo)
<1> DEFINE step == IF req[r].kind = "json" THEN "exists" ELSE "save"
           rest == IF req[r].kind = "json" THEN req[r].todo ELSE Tail(req[r].todo)
<1>1. /\ req[r].todo \in Seq(Readings) /\ req[r].kind \in {"json", "proto"}
      /\ req[r].docs + 1 \in Nat /\ req[r].saved + 1 \in Nat
  BY DEF InFlight
<1>2. Tail(req[r].todo) \in Seq(Readings)
  BY <1>1, TailKeepsPlaces
<1>3. rest \in Seq(Readings) /\ step \in {"save", "exists", "create", "publish"}
  BY <1>1, <1>2
<1>4. /\ req[r].kind = "json" => step = "exists" /\ rest = req[r].todo
      /\ req[r].kind = "proto" => step = "save" /\ rest = Tail(req[r].todo)
  OBVIOUS
<1>5. Counted(r) = [req[r] EXCEPT !.docs = req[r].docs + 1,
                                  !.saved = req[r].saved + 1,
                                  !.pc = step, !.todo = rest]
  BY DEF Counted
<1> HIDE DEF step, rest
<1>6. /\ Counted(r) \in InFlight
      /\ Counted(r).kind = req[r].kind
      /\ Counted(r).saved = req[r].saved + 1
      /\ Counted(r).docs = req[r].docs + 1
      /\ Counted(r).size = req[r].size
      /\ Counted(r).pc = step /\ Counted(r).todo = rest
  BY <1>1, <1>3, <1>5 DEF InFlight
<1> QED
  BY <1>4, <1>6

LEMMA UncountedSlot ==
    ASSUME TypeOK, NEW r \in Requests, req[r] \in InFlight, req[r].todo # <<>>
    PROVE  /\ Uncounted(r) \in InFlight
           /\ Uncounted(r).pc = req[r].pc
           /\ Uncounted(r).todo = Tail(req[r].todo)
           /\ Uncounted(r).kind = req[r].kind
           /\ Uncounted(r).saved = req[r].saved
           /\ Uncounted(r).docs = req[r].docs + 1
           /\ Uncounted(r).size = req[r].size
<1>1. req[r].todo \in Seq(Readings) /\ req[r].docs + 1 \in Nat
  BY DEF InFlight
<1>2. Tail(req[r].todo) \in Seq(Readings)
  BY <1>1, TailKeepsPlaces
<1> QED
  BY <1>1, <1>2 DEF Uncounted, InFlight

\* One more for the current reading of a request.
LEMMA OneForAdds ==
    ASSUME NEW f \in [Readings -> Nat], NEW r
    PROVE  /\ OneFor(f, r) \in [Readings -> Nat]
           /\ \A x \in Readings :
                OneFor(f, r)[x] = IF x = Current(r) THEN f[x] + 1 ELSE f[x]
<1> DEFINE c == Current(r)
<1>1. OneFor(f, r) = [f EXCEPT ![c] = f[c] + 1]
  BY DEF OneFor
<1> HIDE DEF c
<1>2. /\ OneFor(f, r) \in [Readings -> Nat]
      /\ \A x \in Readings : OneFor(f, r)[x] = IF x = c THEN f[x] + 1 ELSE f[x]
  <2>1. CASE c \in Readings
    BY <1>1, <2>1
  <2>2. CASE c \notin Readings
    <3>1. OneFor(f, r) = f
      BY <1>1, <2>2
    <3> QED
      BY <2>2, <3>1
  <2> QED
    BY <2>1, <2>2
<1> QED
  BY <1>2 DEF c

LEMMA FaultType ==
    ASSUME TypeOK, NEW r, Fault(r)
    PROVE  faults' \in [Readings -> Nat]
BY OneForAdds DEF Fault, TypeOK

LEMMA SlotWritten ==
    ASSUME TypeOK, NEW r \in Requests, NEW next \in InFlight \cup {Idle},
           req' = [req EXCEPT ![r] = next]
    PROVE  /\ req' \in Slots
           /\ req'[r] = next
           /\ \A x \in Requests \ {r} : req'[x] = req[x]
BY DEF TypeOK, Slots

LEMMA IdleSlot ==
    /\ Idle.pc = "idle" /\ ~ InHand(Idle) /\ Left(Idle) = 0
    /\ \A x : Unsaved(Idle, x) = {}
    /\ Good(Idle)
<1>1. Idle.pc = "idle" /\ ~ InHand(Idle) /\ Left(Idle) = 0
  BY DEF Idle, InHand, Left
<1>2. \A k \in 1 .. 0 : FALSE
  OBVIOUS
<1> QED
  BY <1>1, <1>2 DEF Unsaved, Good

-----------------------------------------------------------------------------
(* The invariant                                                           *)

IInv ==
    /\ TypeOK
    /\ \A r \in Requests : Good(req[r])
    /\ CountsAreStored

\* Every event stands for a stored reading that is no longer held, and every
\* document for a sent reading that is no longer pending.
CountInv ==
    \A x \in Readings :
        /\ IsFiniteSet(Held(x)) /\ IsFiniteSet(Pending(x))
        /\ events[x] + Cardinality(Held(x)) <= stored[x]
        /\ stored[x] + Cardinality(Pending(x)) <= sent[x]

\* What a step must show besides its counts.
LEMMA SlotStep ==
    ASSUME IInv, NEW r \in Requests,
           req' \in Slots,
           \A x \in Requests \ {r} : req'[x] = req[x],
           topic' \in BOOLEAN, Good(req'[r]),
           stored' \in [Readings -> Nat], events' \in [Readings -> Nat],
           sent' \in [Readings -> Nat],
           LossTypes',
           claims' \subseteq [count : Nat, docs : Nat, size : Nat],
           CountsAreStored'
    PROVE  IInv'
<1>1. TypeOK'
  BY DEF TypeOK, LossTypes, Slots
<1>2. ASSUME NEW x \in Requests PROVE Good(req'[x])
  BY DEF IInv, Good
<1> QED
  BY <1>1, <1>2 DEF IInv

LEMMA FewerPending ==
    ASSUME TypeOK, NEW r \in Requests, NEW x,
           \A y \in Requests \ {r} : req'[y] = req[y],
           Unsaved(req'[r], x) \subseteq Unsaved(req[r], x)
    PROVE  Pending(x)' \subseteq Pending(x)
<1> SUFFICES ASSUME NEW p \in Pending(x)' PROVE p \in Pending(x)
  OBVIOUS
<1>1. p \in Requests \X Nat /\ p[2] \in Unsaved(req'[p[1]], x)
  BY DEF Pending, Unsaved, Left, InHand
<1>2. p[2] \in Unsaved(req[p[1]], x)
  BY <1>1
<1> QED
  BY <1>1, <1>2 DEF Pending

LEMMA FewerHeld ==
    ASSUME TypeOK, NEW r \in Requests, NEW x,
           \A y \in Requests \ {r} : req'[y] = req[y],
           InHand(req'[r]) => InHand(req[r]) /\ Head(req'[r].todo) = Head(req[r].todo)
    PROVE  Held(x)' \subseteq Held(x)
BY DEF Held, InHand

LEMMA SmallerSets ==
    ASSUME NEW S, NEW T, IsFiniteSet(T), S \subseteq T
    PROVE  /\ IsFiniteSet(S) /\ Cardinality(S) \in Nat /\ Cardinality(T) \in Nat
           /\ Cardinality(S) <= Cardinality(T)
BY FS_Subset, FS_CardinalityType

LEMMA OneMore ==
    ASSUME NEW S, IsFiniteSet(S), NEW e
    PROVE  /\ IsFiniteSet(S \cup {e})
           /\ Cardinality(S \cup {e}) <= Cardinality(S) + 1
<1>1. Cardinality(S) \in Nat
  BY FS_CardinalityType
<1>2. IsFiniteSet(S \cup {e})
  BY FS_AddElement
<1>3. CASE e \in S
  <2>1. S \cup {e} = S
    BY <1>3
  <2>2. Cardinality(S) <= Cardinality(S) + 1
    BY <1>1
  <2> QED
    BY <1>2, <2>1, <2>2
<1>4. CASE e \notin S
  <2>1. Cardinality(S \cup {e}) = Cardinality(S) + 1
    BY <1>4, FS_AddElement
  <2> QED
    BY <1>1, <1>2, <2>1
<1> QED
  BY <1>3, <1>4

\* A step that neither stores nor publishes.
LEMMA QuietCounts ==
    ASSUME TypeOK, CountInv, NEW r \in Requests,
           \A y \in Requests \ {r} : req'[y] = req[y],
           UNCHANGED <<stored, events, sent>>,
           \A x \in Readings : Unsaved(req'[r], x) \subseteq Unsaved(req[r], x),
           InHand(req'[r]) => InHand(req[r]) /\ Head(req'[r].todo) = Head(req[r].todo)
    PROVE  CountInv'
<1> SUFFICES ASSUME NEW x \in Readings
             PROVE  /\ IsFiniteSet(Held(x))' /\ IsFiniteSet(Pending(x))'
                    /\ events[x] + Cardinality(Held(x)') <= stored[x]
                    /\ stored[x] + Cardinality(Pending(x)') <= sent[x]
  BY DEF CountInv
<1> DEFINE H == Held(x)
           G == Held(x)'
           P == Pending(x)
           Q == Pending(x)'
<1>1. /\ G \subseteq H /\ Q \subseteq P
      /\ IsFiniteSet(H) /\ IsFiniteSet(P)
      /\ events[x] + Cardinality(H) <= stored[x]
      /\ stored[x] + Cardinality(P) <= sent[x]
      /\ events[x] \in Nat /\ stored[x] \in Nat /\ sent[x] \in Nat
  BY FewerPending, FewerHeld DEF CountInv, TypeOK
<1> HIDE DEF H, G, P, Q
<1>2. /\ IsFiniteSet(G) /\ Cardinality(G) <= Cardinality(H)
      /\ IsFiniteSet(Q) /\ Cardinality(Q) <= Cardinality(P)
      /\ Cardinality(G) \in Nat /\ Cardinality(H) \in Nat
      /\ Cardinality(Q) \in Nat /\ Cardinality(P) \in Nat
  BY <1>1, SmallerSets
<1>3. /\ IsFiniteSet(G) /\ IsFiniteSet(Q)
      /\ events[x] + Cardinality(G) <= stored[x]
      /\ stored[x] + Cardinality(Q) <= sent[x]
  BY <1>1, <1>2
<1> QED
  BY <1>3 DEF G, Q

-----------------------------------------------------------------------------
(* Moving on                                                               *)

\* The request is over.
LEMMA FinishStep ==
    ASSUME IInv, CountInv, NEW r \in Requests, req' = [req EXCEPT ![r] = Idle],
           UNCHANGED <<stored, events, sent>>,
           topic' \in BOOLEAN,
           LossTypes',
           claims' \subseteq [count : Nat, docs : Nat, size : Nat],
           CountsAreStored'
    PROVE  IInv' /\ CountInv'
<1>1. /\ req' \in Slots /\ req'[r] = Idle
      /\ \A x \in Requests \ {r} : req'[x] = req[x]
  BY SlotWritten DEF IInv
<1>2. Good(req'[r]) /\ ~ InHand(req'[r])
      /\ \A x : Unsaved(req'[r], x) = {}
  BY <1>1, IdleSlot
<1>3. IInv'
  BY <1>1, <1>2, SlotStep DEF IInv, TypeOK
<1>4. CountInv'
  BY <1>1, <1>2, QuietCounts DEF IInv
<1> QED
  BY <1>3, <1>4

\* The request goes from one step to another with the same batch.
LEMMA GotoStep ==
    ASSUME IInv, CountInv, NEW r \in Requests, req[r].pc # "idle",
           NEW p \in {"save", "exists", "create", "publish"}, Goto(r, p),
           InHand(req[r]) <=> p # "save" /\ req[r].kind = "json",
           UNCHANGED <<stored, events, sent, due, losses, claims>>,
           topic' \in BOOLEAN
    PROVE  IInv' /\ CountInv'
<1> DEFINE next == [req[r] EXCEPT !.pc = p]
<1>1. TypeOK /\ req[r] \in InFlight /\ Good(req[r])
  BY SlotType DEF IInv
<1>2. /\ next \in InFlight /\ next.pc = p
      /\ next.kind = req[r].kind /\ next.todo = req[r].todo
      /\ next.saved = req[r].saved /\ next.docs = req[r].docs
      /\ next.size = req[r].size
  BY <1>1, GotoSlot
<1>3. req' = [req EXCEPT ![r] = next]
  BY DEF Goto
<1> HIDE DEF next
<1>4. /\ req' \in Slots /\ req'[r] = next
      /\ \A x \in Requests \ {r} : req'[x] = req[x]
  BY <1>1, <1>2, <1>3, SlotWritten
<1>5. InHand(next) <=> InHand(req[r])
  BY <1>2 DEF InHand
<1>6. Left(next) = Left(req[r])
  BY <1>2, <1>5 DEF Left
<1>7. \A x : Unsaved(next, x) = Unsaved(req[r], x)
  BY <1>2, <1>6 DEF Unsaved
<1>8. Good(next)
  BY <1>1, <1>2, <1>5, <1>6 DEF Good
<1>9. CountsAreStored' /\ LossTypes'
  BY DEF IInv, CountsAreStored, LossTypes, losses, TypeOK
<1>10. IInv'
  BY <1>1, <1>4, <1>8, <1>9, SlotStep DEF TypeOK
<1>11. CountInv'
  BY <1>1, <1>2, <1>4, <1>5, <1>7, QuietCounts
<1> QED
  BY <1>10, <1>11

\* What Continue writes; a reading in hand was no longer to be saved.
LEMMA ContinueWrites ==
    ASSUME IInv, NEW r \in Requests, req[r].pc # "idle", req[r].todo # <<>>,
           req[r].pc = "save" \/ InHand(req[r]), Continue(r)
    PROVE  /\ req' \in Slots
           /\ \A x \in Requests \ {r} : req'[x] = req[x]
           /\ Good(req'[r])
           /\ ~ InHand(req'[r])
           /\ \A x : Unsaved(req'[r], x) \subseteq Unsaved(req[r], x)
<1> DEFINE next == [req[r] EXCEPT !.pc = "save", !.todo = Tail(req[r].todo)]
<1>1. TypeOK /\ req[r] \in InFlight /\ Good(req[r])
  BY SlotType DEF IInv
<1>2. /\ next \in InFlight /\ next.pc = "save" /\ next.kind = req[r].kind
      /\ next.todo = Tail(req[r].todo)
      /\ next.saved = req[r].saved /\ next.docs = req[r].docs
      /\ next.size = req[r].size
  BY <1>1, NextReading
<1>3. req' = [req EXCEPT ![r] = next]
  BY <1>1 DEF Continue, TypeOK, InFlight
<1> HIDE DEF next
<1>4. /\ req' \in Slots /\ req'[r] = next
      /\ \A x \in Requests \ {r} : req'[x] = req[x]
  BY <1>1, <1>2, <1>3, SlotWritten
<1>5. req[r].todo \in Seq(Readings) /\ req[r].docs \in Nat /\ req[r].size \in Nat
  BY <1>1 DEF InFlight
<1>6. /\ Len(req[r].todo) \in Nat \ {0}
      /\ Len(next.todo) = Len(req[r].todo) - 1
      /\ \A k \in 1 .. Len(req[r].todo) - 1 :
           next.todo[Len(next.todo) - k + 1]
             = req[r].todo[Len(req[r].todo) - k + 1]
  BY <1>2, <1>5, TailKeepsPlaces
<1>7. ~ InHand(next) /\ Left(next) = Len(req[r].todo) - 1
  BY <1>2, <1>6 DEF InHand, Left
<1>8. Left(req[r]) \in {Len(req[r].todo), Len(req[r].todo) - 1}
  BY DEF Left
<1>9. ASSUME NEW x PROVE Unsaved(next, x) \subseteq Unsaved(req[r], x)
  <2>1. 1 .. Left(next) \subseteq 1 .. Left(req[r])
    BY <1>6, <1>7, <1>8
  <2> QED
    BY <1>6, <1>7, <2>1 DEF Unsaved
<1>10. next.docs + Left(next) <= next.size
  BY <1>1, <1>2, <1>5, <1>6, <1>7, <1>8 DEF Good
<1>11. Good(next)
  BY <1>1, <1>2, <1>7, <1>10 DEF Good
<1> QED
  BY <1>4, <1>7, <1>9, <1>11

\* On to the next reading, without a document or an event.
LEMMA ContinueStep ==
    ASSUME IInv, CountInv, NEW r \in Requests, req[r].pc # "idle",
           req[r].todo # <<>>,
           req[r].pc = "save" \/ InHand(req[r]), Continue(r),
           UNCHANGED <<stored, events, sent, claims>>,
           topic' \in BOOLEAN,
           LossTypes'
    PROVE  IInv' /\ CountInv'
<1>1. /\ req' \in Slots
      /\ \A x \in Requests \ {r} : req'[x] = req[x]
      /\ Good(req'[r])
      /\ ~ InHand(req'[r])
      /\ \A x : Unsaved(req'[r], x) \subseteq Unsaved(req[r], x)
  BY ContinueWrites
<1>2. CountsAreStored'
  BY DEF IInv, CountsAreStored
<1>3. IInv'
  BY <1>1, <1>2, SlotStep DEF IInv, TypeOK
<1>4. CountInv'
  BY <1>1, QuietCounts DEF IInv
<1> QED
  BY <1>3, <1>4

-----------------------------------------------------------------------------
(* Steps that change the counts                                            *)

\* The reading that is stored is no longer pending.
LEMMA SaveWrites ==
    ASSUME IInv, NEW r \in Requests, Save(r), NEW next,
           next = Counted(r) \/ next = Uncounted(r),
           req' = [req EXCEPT ![r] = next]
    PROVE  /\ req' \in Slots
           /\ \A x \in Requests \ {r} : req'[x] = req[x]
           /\ Good(req'[r])
           /\ InHand(req'[r]) => Head(req'[r].todo) = Current(r)
           /\ \A x : Unsaved(req'[r], x) \subseteq Unsaved(req[r], x)
           /\ Len(req[r].todo) \in Unsaved(req[r], Current(r))
           /\ Len(req[r].todo) \notin Unsaved(req'[r], Current(r))
           /\ ~ InHand(req[r])
<1>1. /\ TypeOK /\ req[r] \in InFlight /\ Good(req[r])
      /\ req[r].pc = "save" /\ req[r].todo # <<>>
  BY SlotType DEF IInv, Save
<1> DEFINE q == req[r].todo
<1>2. /\ q \in Seq(Readings) /\ req[r].docs \in Nat /\ req[r].saved \in Nat
      /\ req[r].size \in Nat /\ req[r].kind \in {"json", "proto"}
  BY <1>1 DEF InFlight
<1>3. /\ next \in InFlight /\ next.docs = req[r].docs + 1
      /\ next.saved \in {req[r].saved, req[r].saved + 1}
      /\ next.size = req[r].size
      /\ \/ next.pc = "exists" /\ next.kind = "json" /\ next.todo = q
         \/ next.pc = "save" /\ next.todo = Tail(q)
  BY <1>1, <1>2, CountedSlot, UncountedSlot
<1>4. /\ req' \in Slots /\ req'[r] = next
      /\ \A x \in Requests \ {r} : req'[x] = req[x]
  BY <1>1, <1>3, SlotWritten
<1>5. /\ Len(q) \in Nat \ {0}
      /\ Len(Tail(q)) = Len(q) - 1
      /\ q[1] = Head(q)
      /\ \A k \in 1 .. Len(q) - 1 :
           Tail(q)[Len(Tail(q)) - k + 1] = q[Len(q) - k + 1]
  BY <1>1, <1>2, TailKeepsPlaces
<1>6. ~ InHand(req[r]) /\ Left(req[r]) = Len(q)
  BY <1>1 DEF InHand, Left
<1>7. /\ Left(next) = Len(q) - 1
      /\ InHand(next) => next.todo = q
      /\ \A k \in 1 .. Len(q) - 1 :
           next.todo[Len(next.todo) - k + 1] = q[Len(q) - k + 1]
  <2>1. CASE next.pc = "exists" /\ next.kind = "json" /\ next.todo = q
    BY <1>5, <2>1 DEF InHand, Left
  <2>2. CASE next.pc = "save" /\ next.todo = Tail(q)
    <3>1. ~ InHand(next) /\ Left(next) = Len(Tail(q))
      BY <2>2 DEF InHand, Left
    <3> QED
      BY <1>5, <2>2, <3>1
  <2> QED
    BY <1>3, <2>1, <2>2
<1>8. ASSUME NEW x PROVE Unsaved(next, x) \subseteq Unsaved(req[r], x)
  <2>1. 1 .. Len(q) - 1 \subseteq 1 .. Len(q)
    BY <1>5
  <2> QED
    BY <1>6, <1>7, <2>1 DEF Unsaved
<1>9. Len(q) \in Unsaved(req[r], Current(r))
  <2>1. Len(q) \in 1 .. Len(q) /\ Len(q) - Len(q) + 1 = 1
    BY <1>5
  <2> QED
    BY <1>5, <1>6, <2>1 DEF Unsaved, Current
<1>10. Len(q) \notin Unsaved(next, Current(r))
  <2>1. Len(q) \notin 1 .. Len(q) - 1
    BY <1>5
  <2> QED
    BY <1>7, <2>1 DEF Unsaved
<1>11. next.saved <= next.docs /\ next.docs + Left(next) <= next.size
  BY <1>1, <1>2, <1>3, <1>5, <1>6, <1>7 DEF Good
<1>12. Good(next)
  BY <1>1, <1>3, <1>7, <1>11 DEF Good
<1> HIDE DEF q
<1> QED
  BY <1>4, <1>6, <1>7, <1>8, <1>9, <1>10, <1>12 DEF q, Current

LEMMA SaveStep ==
    ASSUME IInv, CountInv, NEW r \in Requests, Save(r)
    PROVE  IInv' /\ CountInv'
<1> DEFINE c == Current(r)
<1>1. PICK next \in {Counted(r), Uncounted(r)} : req' = [req EXCEPT ![r] = next]
  BY DEF Save
<1>2. /\ req' \in Slots
      /\ \A x \in Requests \ {r} : req'[x] = req[x]
      /\ Good(req'[r])
      /\ InHand(req'[r]) => Head(req'[r].todo) = c
      /\ \A x : Unsaved(req'[r], x) \subseteq Unsaved(req[r], x)
      /\ Len(req[r].todo) \in Unsaved(req[r], c)
      /\ Len(req[r].todo) \notin Unsaved(req'[r], c)
      /\ ~ InHand(req[r])
  BY <1>1, SaveWrites
<1>3. /\ TypeOK /\ c \in Readings /\ stored' = [stored EXCEPT ![c] = @ + 1]
      /\ UNCHANGED <<events, topic, sent, races, claims>>
  BY TelemetryAssumption DEF IInv, Save, OneFor
<1>4. stored' \in [Readings -> Nat]
  BY <1>3 DEF TypeOK
<1>5. IInv'
  <2>1. CountsAreStored'
    BY <1>3 DEF IInv, CountsAreStored
  <2>2. due' \in [Readings -> Nat] /\ faults' \in [Readings -> Nat]
    <3>1. /\ due' \in {due, OneFor(due, r)}
          /\ faults' \in {faults, OneFor(faults, r)}
      BY DEF Save
    <3>2. due \in [Readings -> Nat] /\ faults \in [Readings -> Nat]
      BY <1>3 DEF TypeOK
    <3> QED
      BY <3>1, <3>2, OneForAdds
  <2>3. LossTypes'
    BY <1>3, <2>2 DEF LossTypes, TypeOK
  <2> QED
    BY <1>2, <1>3, <1>4, <2>1, <2>3, SlotStep DEF TypeOK
<1>6. ASSUME NEW x \in Readings
      PROVE  /\ IsFiniteSet(Held(x))' /\ IsFiniteSet(Pending(x))'
             /\ events'[x] + Cardinality(Held(x)') <= stored'[x]
             /\ stored'[x] + Cardinality(Pending(x)') <= sent'[x]
  <2> DEFINE H == Held(x)
             G == Held(x)'
             P == Pending(x)
             Q == Pending(x)'
             p == <<r, Len(req[r].todo)>>
  <2>1. /\ IsFiniteSet(H) /\ IsFiniteSet(P)
        /\ events[x] + Cardinality(H) <= stored[x]
        /\ stored[x] + Cardinality(P) <= sent[x]
        /\ events[x] \in Nat /\ stored[x] \in Nat /\ sent[x] \in Nat
        /\ events'[x] = events[x] /\ sent'[x] = sent[x]
    BY <1>3 DEF CountInv, TypeOK
  <2>2. Q \subseteq P
    BY <1>2, <1>3, FewerPending
  <2>3. CASE x = c
    <3>1. stored'[x] = stored[x] + 1
      BY <1>3, <2>3 DEF TypeOK
    <3>2. p \in P
      BY <1>2, <2>3 DEF Pending, Unsaved
    <3>3. p \notin Q
      <4>1. Unsaved(req[p[1]], x)' = Unsaved(req'[r], x)
        BY DEF Unsaved, Left, InHand
      <4> QED
        BY <1>2, <2>3, <4>1 DEF Pending
    <3>4. G \subseteq H \cup {r}
      BY <1>2 DEF Held, InHand
    <3> HIDE DEF G, H, P, Q, p
    <3>5. IsFiniteSet(P \ {p}) /\ Cardinality(P \ {p}) = Cardinality(P) - 1
      BY <2>1, <3>2, FS_RemoveElement
    <3>6. Q \subseteq P \ {p}
      BY <2>2, <3>3
    <3>7. /\ IsFiniteSet(Q) /\ Cardinality(Q) \in Nat
          /\ Cardinality(Q) <= Cardinality(P) - 1
      BY <3>5, <3>6, SmallerSets
    <3>8. /\ IsFiniteSet(H \cup {r})
          /\ Cardinality(H \cup {r}) <= Cardinality(H) + 1
      BY <2>1, OneMore
    <3>9. /\ IsFiniteSet(G) /\ Cardinality(G) \in Nat
          /\ Cardinality(G) <= Cardinality(H \cup {r})
          /\ Cardinality(H \cup {r}) \in Nat
      BY <3>4, <3>8, SmallerSets
    <3>10. Cardinality(H) \in Nat /\ Cardinality(P) \in Nat
      BY <2>1, FS_CardinalityType
    <3>11. /\ events'[x] + Cardinality(G) <= stored'[x]
           /\ stored'[x] + Cardinality(Q) <= sent'[x]
      BY <2>1, <3>1, <3>7, <3>8, <3>9, <3>10
    <3> QED
      BY <3>7, <3>9, <3>11 DEF G, Q
  <2>4. CASE x # c
    <3>1. stored'[x] = stored[x]
      BY <1>3, <2>4 DEF TypeOK
    <3>2. G \subseteq H
      BY <1>2, <2>4 DEF Held, InHand
    <3> HIDE DEF G, H, P, Q
    <3>3. /\ IsFiniteSet(G) /\ Cardinality(G) <= Cardinality(H)
          /\ IsFiniteSet(Q) /\ Cardinality(Q) <= Cardinality(P)
          /\ Cardinality(G) \in Nat /\ Cardinality(H) \in Nat
          /\ Cardinality(Q) \in Nat /\ Cardinality(P) \in Nat
      BY <2>1, <2>2, <3>2, SmallerSets
    <3>4. /\ events'[x] + Cardinality(G) <= stored'[x]
          /\ stored'[x] + Cardinality(Q) <= sent'[x]
      BY <2>1, <3>1, <3>3
    <3> QED
      BY <3>3, <3>4 DEF G, Q
  <2> QED
    BY <2>3, <2>4
<1>7. CountInv'
  BY <1>6 DEF CountInv
<1> QED
  BY <1>5, <1>7

\* The reading that is published is no longer held.
LEMMA PublishStep ==
    ASSUME IInv, CountInv, NEW r \in Requests, Publish(r), req[r].kind = "json"
    PROVE  IInv' /\ CountInv'
<1> DEFINE c == Current(r)
<1>1. /\ TypeOK /\ req[r] \in InFlight /\ InHand(req[r]) /\ req[r].todo # <<>>
      /\ Continue(r) /\ events' = [events EXCEPT ![c] = @ + 1]
      /\ UNCHANGED <<stored, topic, sent, due, losses, claims>>
      /\ req[r].pc = "publish"
  BY SlotType DEF IInv, Publish, InHand, Good, AfterPublish, OneFor
<1>2. c \in Readings
  <2>1. req[r].todo \in Seq(Readings)
    BY <1>1 DEF InFlight
  <2> QED
    BY <1>1, <2>1, TailKeepsPlaces DEF Current
<1>3. /\ req' \in Slots
      /\ \A x \in Requests \ {r} : req'[x] = req[x]
      /\ Good(req'[r])
      /\ ~ InHand(req'[r])
      /\ \A x : Unsaved(req'[r], x) \subseteq Unsaved(req[r], x)
  BY <1>1, ContinueWrites DEF TypeOK
<1>4. events' \in [Readings -> Nat]
  BY <1>1, <1>2 DEF TypeOK
<1>5. IInv'
  <2>1. CountsAreStored' /\ LossTypes'
    BY <1>1 DEF IInv, CountsAreStored, LossTypes, losses, TypeOK
  <2> QED
    BY <1>1, <1>3, <1>4, <2>1, SlotStep DEF TypeOK
<1>6. ASSUME NEW x \in Readings
      PROVE  /\ IsFiniteSet(Held(x))' /\ IsFiniteSet(Pending(x))'
             /\ events'[x] + Cardinality(Held(x)') <= stored'[x]
             /\ stored'[x] + Cardinality(Pending(x)') <= sent'[x]
  <2> DEFINE H == Held(x)
             G == Held(x)'
             P == Pending(x)
             Q == Pending(x)'
  <2>1. /\ IsFiniteSet(H) /\ IsFiniteSet(P)
        /\ events[x] + Cardinality(H) <= stored[x]
        /\ stored[x] + Cardinality(P) <= sent[x]
        /\ events[x] \in Nat /\ stored[x] \in Nat /\ sent[x] \in Nat
        /\ stored'[x] = stored[x] /\ sent'[x] = sent[x]
    BY <1>1 DEF CountInv, TypeOK
  <2>2. Q \subseteq P /\ G \subseteq H
    BY <1>1, <1>3, FewerPending, FewerHeld
  <2>3. r \notin G /\ (x = c => r \in H)
    BY <1>1, <1>3 DEF Held, InHand, Current
  <2>4. events'[x] = IF x = c THEN events[x] + 1 ELSE events[x]
    BY <1>1 DEF TypeOK
  <2> HIDE DEF G, H, P, Q
  <2>5. /\ IsFiniteSet(Q) /\ Cardinality(Q) <= Cardinality(P)
        /\ Cardinality(H) \in Nat
        /\ Cardinality(Q) \in Nat /\ Cardinality(P) \in Nat
    BY <2>1, <2>2, SmallerSets, FS_CardinalityType
  <2>6. /\ IsFiniteSet(G) /\ Cardinality(G) \in Nat
        /\ events'[x] + Cardinality(G) <= stored[x]
    <3>1. CASE x = c
      <4>1. IsFiniteSet(H \ {r}) /\ Cardinality(H \ {r}) = Cardinality(H) - 1
        BY <2>1, <2>3, <3>1, FS_RemoveElement
      <4>2. G \subseteq H \ {r}
        BY <2>2, <2>3
      <4>3. /\ IsFiniteSet(G) /\ Cardinality(G) \in Nat
            /\ Cardinality(G) <= Cardinality(H) - 1
        BY <4>1, <4>2, SmallerSets
      <4> QED
        BY <2>1, <2>4, <2>5, <3>1, <4>3
    <3>2. CASE x # c
      <4>1. /\ IsFiniteSet(G) /\ Cardinality(G) \in Nat
            /\ Cardinality(G) <= Cardinality(H)
        BY <2>1, <2>2, SmallerSets
      <4> QED
        BY <2>1, <2>4, <2>5, <3>2, <4>1
    <3> QED
      BY <3>1, <3>2
  <2>7. stored'[x] + Cardinality(Q) <= sent'[x]
    BY <2>1, <2>5
  <2> QED
    BY <2>1, <2>5, <2>6, <2>7 DEF G, Q
<1>7. CountInv'
  BY <1>6 DEF CountInv
<1> QED
  BY <1>5, <1>7

\* A batch adds as many places to be saved as it has copies of a reading.
LEMMA ReceivedPlaces ==
    ASSUME NEW r \in Requests, NEW b \in Seq(Readings), NEW x,
           NEW s, s.pc = "save", s.todo = b
    PROVE  /\ IsFiniteSet({r} \X Unsaved(s, x))
           /\ Cardinality({r} \X Unsaved(s, x)) \in Nat
           /\ Copies(b, x) \in Nat
           /\ Cardinality({r} \X Unsaved(s, x)) <= Copies(b, x)
<1> DEFINE C == {n \in DOMAIN b : b[n] = x}
           T == {r} \X Unsaved(s, x)
           f == [n \in C |-> <<r, Len(b) - n + 1>>]
<1>1. Len(b) \in Nat /\ DOMAIN b = 1 .. Len(b) /\ Left(s) = Len(b)
  BY DEF Left, InHand
<1>2. IsFiniteSet(C)
  <2>1. IsFiniteSet(1 .. Len(b)) /\ C \subseteq 1 .. Len(b)
    BY <1>1, FS_Interval
  <2> QED
    BY <2>1, FS_Subset
<1>3. f \in Surjection(C, T)
  <2>1. ASSUME NEW n \in C PROVE f[n] \in T
    <3>1. /\ n \in 1 .. Len(b) /\ b[n] = x
          /\ Len(b) - n + 1 \in 1 .. Len(b)
          /\ Len(b) - (Len(b) - n + 1) + 1 = n
      BY <1>1
    <3>2. Len(b) - n + 1 \in Unsaved(s, x)
      BY <1>1, <3>1 DEF Unsaved
    <3> QED
      BY <3>2
  <2>2. ASSUME NEW t \in T PROVE \E n \in C : f[n] = t
    <3>1. PICK k \in Unsaved(s, x) : t = <<r, k>>
      OBVIOUS
    <3>2. k \in 1 .. Len(b) /\ b[Len(b) - k + 1] = x
      BY <1>1, <3>1 DEF Unsaved
    <3>3. /\ Len(b) - k + 1 \in 1 .. Len(b)
          /\ Len(b) - (Len(b) - k + 1) + 1 = k
      BY <1>1, <3>2
    <3>4. Len(b) - k + 1 \in C
      BY <1>1, <3>2, <3>3
    <3> WITNESS Len(b) - k + 1 \in C
    <3> QED
      BY <3>1, <3>3, <3>4
  <2> HIDE DEF T, C
  <2>3. f \in [C -> T]
    BY <2>1
  <2> HIDE DEF f
  <2> QED
    BY <2>2, <2>3 DEF Surjection
<1> HIDE DEF C, T, f
<1>4. IsFiniteSet(T) /\ Cardinality(T) <= Cardinality(C)
  BY <1>2, <1>3, FS_Surjection
<1>5. Cardinality(T) \in Nat /\ Cardinality(C) \in Nat
  BY <1>2, <1>4, FS_CardinalityType
<1> QED
  BY <1>4, <1>5 DEF T, C, Copies

LEMMA ReceiveStep ==
    ASSUME IInv, CountInv, NEW r \in Requests, NEW kind \in {"json", "proto"},
           NEW b \in Batches, Receive(r, kind, b)
    PROVE  IInv' /\ CountInv'
<1> DEFINE next == [kind |-> kind, todo |-> b, pc |-> "save", saved |-> 0,
                    docs |-> 0, size |-> Len(b)]
<1>1. /\ TypeOK /\ b \in Seq(Readings) /\ Len(b) \in Nat
      /\ UNCHANGED <<stored, events, topic, due, losses, claims>>
      /\ sent' = [x \in Readings |-> sent[x] + Copies(b, x)]
      /\ req[r] = Idle
  BY TelemetryAssumption DEF IInv, Receive
<1>2. next \in InFlight
  BY <1>1 DEF InFlight, TypeOK
<1>3. /\ next.pc = "save" /\ next.todo = b /\ next.saved = 0 /\ next.docs = 0
      /\ next.size = Len(b)
  OBVIOUS
<1>4. req' = [req EXCEPT ![r] = next]
  BY DEF Receive
<1> HIDE DEF next
<1>5. /\ req' \in Slots /\ req'[r] = next
      /\ \A x \in Requests \ {r} : req'[x] = req[x]
  BY <1>1, <1>2, <1>4, SlotWritten
<1>6. ~ InHand(next) /\ Left(next) = Len(b)
  BY <1>3 DEF InHand, Left
<1>7. Good(next)
  BY <1>1, <1>3, <1>6 DEF Good
<1>8. \A x \in Readings : Copies(b, x) \in Nat
  BY <1>1, <1>3, ReceivedPlaces
<1>9. sent' \in [Readings -> Nat]
  BY <1>1, <1>8 DEF TypeOK
<1>10. IInv'
  <2>1. CountsAreStored' /\ LossTypes'
    BY <1>1 DEF IInv, CountsAreStored, LossTypes, losses, TypeOK
  <2> QED
    BY <1>1, <1>5, <1>7, <1>9, <2>1, SlotStep DEF TypeOK
<1>11. ASSUME NEW x \in Readings
       PROVE  /\ IsFiniteSet(Held(x))' /\ IsFiniteSet(Pending(x))'
              /\ events'[x] + Cardinality(Held(x)') <= stored'[x]
              /\ stored'[x] + Cardinality(Pending(x)') <= sent'[x]
  <2> DEFINE H == Held(x)
             G == Held(x)'
             P == Pending(x)
             Q == Pending(x)'
             T == {r} \X Unsaved(next, x)
  <2>1. /\ IsFiniteSet(H) /\ IsFiniteSet(P)
        /\ events[x] + Cardinality(H) <= stored[x]
        /\ stored[x] + Cardinality(P) <= sent[x]
        /\ events[x] \in Nat /\ stored[x] \in Nat /\ sent[x] \in Nat
        /\ stored'[x] = stored[x] /\ events'[x] = events[x]
        /\ sent'[x] = sent[x] + Copies(b, x)
    BY <1>1 DEF CountInv, TypeOK
  <2>2. G \subseteq H
    BY <1>1, <1>5, <1>6, FewerHeld
  <2>3. Q \subseteq P \cup T
    <3> SUFFICES ASSUME NEW p \in Q PROVE p \in P \cup T
      OBVIOUS
    <3>1. p \in Requests \X Nat /\ p[2] \in Unsaved(req'[p[1]], x)
      BY DEF Pending, Unsaved, Left, InHand
    <3>2. CASE p[1] = r
      BY <1>5, <3>1, <3>2
    <3>3. CASE p[1] # r
      BY <1>5, <3>1, <3>3 DEF Pending
    <3> QED
      BY <3>2, <3>3
  <2>4. /\ IsFiniteSet(T) /\ Cardinality(T) \in Nat
        /\ Copies(b, x) \in Nat
        /\ Cardinality(T) <= Copies(b, x)
    BY <1>1, <1>3, ReceivedPlaces
  <2> HIDE DEF G, H, P, Q, T
  <2>5. /\ IsFiniteSet(G) /\ Cardinality(G) <= Cardinality(H)
        /\ Cardinality(G) \in Nat /\ Cardinality(H) \in Nat
    BY <2>1, <2>2, SmallerSets
  <2>6. /\ IsFiniteSet(P \cup T)
        /\ Cardinality(P \cup T) <= Cardinality(P) + Cardinality(T)
        /\ Cardinality(P) \in Nat
    <3>1. /\ IsFiniteSet(P \cup T) /\ IsFiniteSet(P \cap T)
          /\ Cardinality(P \cup T)
               = Cardinality(P) + Cardinality(T) - Cardinality(P \cap T)
      BY <2>1, <2>4, FS_Union, FS_Intersection
    <3> QED
      BY <2>1, <2>4, <3>1, FS_CardinalityType
  <2>7. /\ IsFiniteSet(Q) /\ Cardinality(Q) \in Nat
        /\ Cardinality(P \cup T) \in Nat
        /\ Cardinality(Q) <= Cardinality(P \cup T)
    BY <2>3, <2>6, SmallerSets
  <2>8. /\ events'[x] + Cardinality(G) <= stored'[x]
        /\ stored'[x] + Cardinality(Q) <= sent'[x]
    BY <2>1, <2>4, <2>5, <2>6, <2>7
  <2> QED
    BY <2>5, <2>7, <2>8 DEF G, Q
<1>12. CountInv'
  BY <1>11 DEF CountInv
<1> QED
  BY <1>10, <1>12

-----------------------------------------------------------------------------
(* Every step                                                              *)

LEMMA AnswerStep ==
    ASSUME IInv, CountInv, NEW r \in Requests, req[r].pc # "idle", Answer(r),
           UNCHANGED <<stored, events, sent>>,
           topic' \in BOOLEAN,
           LossTypes'
    PROVE  IInv' /\ CountInv'
<1>1. TypeOK /\ req[r] \in InFlight /\ Good(req[r])
  BY SlotType DEF IInv
<1>2. /\ req[r].saved \in Nat /\ req[r].docs \in Nat /\ req[r].size \in Nat
      /\ req[r].todo \in Seq(Readings) /\ req[r].saved <= req[r].docs
      /\ req[r].docs + Left(req[r]) <= req[r].size
      /\ InHand(req[r]) => req[r].todo # <<>>
  BY <1>1 DEF InFlight, Good
<1>3. Left(req[r]) \in Nat
  <2>1. InHand(req[r]) => Len(req[r].todo) \in Nat \ {0}
    BY <1>2, TailKeepsPlaces
  <2> QED
    BY <1>2, <2>1 DEF Left
<1>4. req[r].docs <= req[r].size
  BY <1>2, <1>3
<1>5. /\ claims' \subseteq [count : Nat, docs : Nat, size : Nat]
      /\ CountsAreStored'
  BY <1>1, <1>2, <1>4 DEF Answer, Claim, IInv, TypeOK, CountsAreStored
<1> QED
  BY <1>5, FinishStep DEF Answer

\* An event is given up.
LEMMA GiveUpStep ==
    ASSUME IInv, CountInv, NEW r \in Requests,
           req[r].pc \in {"exists", "create", "publish"}, GiveUp(r),
           UNCHANGED <<stored, events, sent, due>>,
           topic' \in BOOLEAN, races' \in Nat
    PROVE  IInv' /\ CountInv'
<1>1. TypeOK /\ req[r] \in InFlight /\ Good(req[r]) /\ req[r].pc # "idle"
  BY SlotType DEF IInv
<1>2. LossTypes'
  BY <1>1, FaultType DEF GiveUp, LossTypes, TypeOK
<1>3. CASE req[r].kind = "json"
  <2>1. InHand(req[r]) /\ req[r].todo # <<>>
    BY <1>1, <1>3 DEF InHand, Good
  <2> QED
    BY <1>1, <1>2, <1>3, <2>1, ContinueStep DEF GiveUp, AfterPublish
<1>4. CASE req[r].kind # "json"
  BY <1>1, <1>2, <1>4, AnswerStep DEF GiveUp, AfterPublish
<1> QED
  BY <1>3, <1>4

LEMMA InvInitially == Init => IInv /\ CountInv
<1> SUFFICES ASSUME Init PROVE IInv /\ CountInv
  OBVIOUS
<1>1. TypeOK /\ CountsAreStored
  BY DEF Init, TypeOK, CountsAreStored
<1>2. \A r \in Requests : req[r] = Idle
  BY DEF Init
<1>3. IInv
  BY <1>1, <1>2, IdleSlot DEF IInv
<1>4. ASSUME NEW x \in Readings PROVE Held(x) = {} /\ Pending(x) = {}
  BY <1>2, IdleSlot DEF Held, Pending
<1>5. /\ IsFiniteSet({}) /\ Cardinality({}) = 0
  BY FS_EmptySet
<1>6. CountInv
  BY <1>4, <1>5 DEF CountInv, Init
<1> QED
  BY <1>3, <1>6

LEMMA InvPreserved == IInv /\ CountInv /\ [Next]_vars => IInv' /\ CountInv'
<1> SUFFICES ASSUME IInv, CountInv, [Next]_vars PROVE IInv' /\ CountInv'
  OBVIOUS
<1> DEFINE Goal == IInv' /\ CountInv'
<1>1. /\ TypeOK /\ CountsAreStored /\ LossTypes
      /\ claims \subseteq [count : Nat, docs : Nat, size : Nat]
      /\ topic \in BOOLEAN
  BY DEF IInv, TypeOK, LossTypes
<1>2. UNCHANGED <<due, losses>> => LossTypes'
  BY <1>1 DEF LossTypes, losses
<1>3. claims' = claims => CountsAreStored'
  BY <1>1 DEF CountsAreStored
<1>4. ASSUME NEW r \in Requests, NEW kind \in {"json", "proto"},
             NEW b \in Batches, Receive(r, kind, b)
      PROVE  Goal
  BY <1>4, ReceiveStep
<1>5. ASSUME NEW r \in Requests, Abort(r) PROVE Goal
  <2>1. LossTypes'
    BY <1>1, <1>5, FaultType DEF Abort, LossTypes
  <2> QED
    BY <1>1, <1>3, <1>5, <2>1, FinishStep DEF Abort
<1>6. ASSUME NEW r \in Requests, Skip(r) PROVE Goal
  BY <1>1, <1>2, <1>6, ContinueStep DEF Skip, history
<1>7. ASSUME NEW r \in Requests, Save(r) PROVE Goal
  BY <1>7, SaveStep
<1>8. ASSUME NEW r \in Requests, Saved(r) PROVE Goal
  <2>1. /\ req[r].pc = "save" /\ ~ InHand(req[r])
        /\ UNCHANGED <<stored, events, topic, sent, due, losses>>
    BY <1>8 DEF Saved, InHand
  <2>2. CASE req[r].kind = "json"
    BY <1>1, <1>2, <1>8, <2>1, <2>2, AnswerStep DEF Saved
  <2>3. CASE req[r].kind # "json"
    BY <1>1, <1>8, <2>1, <2>3, GotoStep DEF Saved
  <2> QED
    BY <2>2, <2>3
<1>9. ASSUME NEW r \in Requests, TopicExists(r) PROVE Goal
  BY <1>1, <1>9, GotoStep DEF TopicExists, InHand, history
<1>10. ASSUME NEW r \in Requests, TopicMissing(r) PROVE Goal
  BY <1>1, <1>10, GotoStep DEF TopicMissing, InHand, history
<1>11. ASSUME NEW r \in Requests, CreateTopic(r) PROVE Goal
  BY <1>1, <1>11, GotoStep DEF CreateTopic, InHand, history
<1>12. ASSUME NEW r \in Requests, CreateRaced(r) PROVE Goal
  BY <1>1, <1>12, GiveUpStep DEF CreateRaced, LossTypes
<1>13. ASSUME NEW r \in Requests, CallFailed(r) PROVE Goal
  <2>1. topic' \in BOOLEAN /\ races' \in Nat
    BY <1>1, <1>13 DEF CallFailed, LossTypes
  <2> QED
    BY <1>13, <2>1, GiveUpStep DEF CallFailed
<1>14. ASSUME NEW r \in Requests, Publish(r) PROVE Goal
  <2>1. CASE req[r].kind = "json"
    BY <1>14, <2>1, PublishStep
  <2>2. CASE req[r].kind # "json"
    BY <1>1, <1>2, <1>14, <2>2, AnswerStep DEF Publish, AfterPublish
  <2> QED
    BY <2>1, <2>2
<1>15. ASSUME UNCHANGED vars PROVE Goal
  <2>1. IInv'
    BY <1>1, <1>15 DEF vars, IInv, TypeOK, CountsAreStored
  <2>2. CountInv'
    BY <1>15 DEF vars, CountInv, Held, Pending
  <2> QED
    BY <2>1, <2>2
<1> HIDE DEF Goal
<1>16. Goal
  BY <1>4, <1>5, <1>6, <1>7, <1>8, <1>9, <1>10, <1>11, <1>12, <1>13, <1>14,
     <1>15 DEF Next
<1> QED
  BY <1>16 DEF Goal

LEMMA Inductive == Spec => [](IInv /\ CountInv)
<1> DEFINE Inv == IInv /\ CountInv
<1>1. Init => Inv
  BY InvInitially
<1>2. Inv /\ [Next]_vars => Inv'
  BY InvPreserved
<1> HIDE DEF Inv
<1>3. Spec => []Inv
  BY <1>1, <1>2, PTL DEF Spec
<1> QED
  BY <1>3 DEF Inv

-----------------------------------------------------------------------------
(* Where the events of stored readings are                                 *)

LEMMA InHandReading ==
    ASSUME IInv, NEW r \in Requests, InHand(req[r])
    PROVE  req[r] \in InFlight /\ req[r].todo # <<>> /\ Current(r) \in Readings
<1>1. req[r] \in InFlight /\ req[r].todo # <<>> /\ req[r].todo \in Seq(Readings)
  BY SlotType DEF IInv, InHand, Good, InFlight
<1> QED
  BY <1>1, TailKeepsPlaces DEF Current

\* A step that leaves in hand what is in hand.
LEMMA HeldKept ==
    ASSUME LossHasCause, NEW r \in Requests,
           \A y \in Requests \ {r} : req'[y] = req[y],
           InHand(req'[r]) <=> InHand(req[r]),
           InHand(req[r]) => Head(req'[r].todo) = Head(req[r].todo),
           UNCHANGED <<events, due, faults>>
    PROVE  LossHasCause'
<1>1. ASSUME NEW x \in Readings PROVE Held(x)' = Held(x)
  BY DEF Held, InHand
<1> QED
  BY <1>1 DEF LossHasCause

\* The event in hand, if any, is published or given up.
LEMMA HeldDropped ==
    ASSUME TypeOK, CountInv, LossHasCause, NEW r \in Requests,
           \A y \in Requests \ {r} : req'[y] = req[y],
           ~ InHand(req'[r]), due' = due,
           events' \in [Readings -> Nat], faults' \in [Readings -> Nat],
           \A x \in Readings :
               events'[x] + faults'[x]
                 = IF r \in Held(x) THEN events[x] + faults[x] + 1
                                    ELSE events[x] + faults[x]
    PROVE  LossHasCause'
<1> SUFFICES ASSUME NEW x \in Readings
             PROVE  due'[x] = events'[x] + Cardinality(Held(x)') + faults'[x]
  BY DEF LossHasCause
<1> DEFINE H == Held(x)
           G == Held(x)'
<1>1. /\ IsFiniteSet(H) /\ due[x] = events[x] + Cardinality(H) + faults[x]
      /\ events[x] \in Nat /\ faults[x] \in Nat /\ due[x] \in Nat
      /\ events'[x] \in Nat /\ faults'[x] \in Nat /\ due'[x] = due[x]
      /\ events'[x] + faults'[x] = IF r \in H THEN events[x] + faults[x] + 1
                                              ELSE events[x] + faults[x]
  BY DEF LossHasCause, CountInv, TypeOK
<1>2. G = H \ {r}
  BY DEF Held, InHand
<1> HIDE DEF G, H
<1>3. Cardinality(H) \in Nat
  BY <1>1, FS_CardinalityType
<1>4. CASE r \in H
  <2>1. Cardinality(G) = Cardinality(H) - 1
    BY <1>1, <1>2, <1>4, FS_RemoveElement
  <2>2. due'[x] = events'[x] + Cardinality(G) + faults'[x]
    BY <1>1, <1>3, <1>4, <2>1
  <2> QED
    BY <2>2 DEF G
<1>5. CASE r \notin H
  <2>1. G = H
    BY <1>2, <1>5
  <2>2. due'[x] = events'[x] + Cardinality(G) + faults'[x]
    BY <1>1, <1>3, <1>5, <2>1
  <2> QED
    BY <2>2 DEF G
<1> QED
  BY <1>4, <1>5

\* One more of the reading in hand, for each place that is counted.
LEMMA OneForHeld ==
    ASSUME NEW f \in [Readings -> Nat], NEW r \in Requests, InHand(req[r])
    PROVE  \A x \in Readings :
               OneFor(f, r)[x] = IF r \in Held(x) THEN f[x] + 1 ELSE f[x]
BY OneForAdds DEF Held, Current

\* The event in hand is given up.
LEMMA FaultDrops ==
    ASSUME IInv, CountInv, LossHasCause, NEW r \in Requests, Fault(r),
           \A y \in Requests \ {r} : req'[y] = req[y],
           ~ InHand(req'[r]), UNCHANGED <<events, due>>
    PROVE  LossHasCause'
<1>1. /\ TypeOK /\ events \in [Readings -> Nat] /\ faults \in [Readings -> Nat]
      /\ faults' \in [Readings -> Nat]
  BY FaultType DEF IInv, TypeOK
<1>2. ASSUME NEW x \in Readings
      PROVE  faults'[x] = IF r \in Held(x) THEN faults[x] + 1 ELSE faults[x]
  <2>1. CASE InHand(req[r])
    BY <1>1, <2>1, OneForHeld DEF Fault
  <2>2. CASE ~ InHand(req[r])
    BY <2>2 DEF Fault, Held
  <2> QED
    BY <2>1, <2>2
<1>3. ASSUME NEW x \in Readings
      PROVE  events'[x] + faults'[x]
               = IF r \in Held(x) THEN events[x] + faults[x] + 1
                                  ELSE events[x] + faults[x]
  <2> DEFINE e == events[x]
             f == faults[x]
  <2>1. e \in Nat /\ f \in Nat /\ events'[x] = e
    BY <1>1
  <2>2. faults'[x] = IF r \in Held(x) THEN f + 1 ELSE f
    BY <1>2
  <2> HIDE DEF e, f
  <2>3. events'[x] + faults'[x] = IF r \in Held(x) THEN e + f + 1 ELSE e + f
    BY <2>1, <2>2
  <2> QED
    BY <2>3 DEF e, f
<1> QED
  BY <1>1, <1>3, HeldDropped

\* What AfterPublish leaves in the slot.
LEMMA AfterPublishWrites ==
    ASSUME IInv, NEW r \in Requests,
           req[r].pc \in {"exists", "create", "publish"}, AfterPublish(r)
    PROVE  /\ \A y \in Requests \ {r} : req'[y] = req[y]
           /\ ~ InHand(req'[r]) /\ req'[r].pc # "create"
<1>1. TypeOK /\ req[r] \in InFlight /\ req[r].pc # "idle"
  BY SlotType DEF IInv
<1>2. CASE req[r].kind = "json"
  <2>1. InHand(req[r]) /\ Continue(r)
    BY <1>2 DEF InHand, AfterPublish
  <2>2. req[r].todo # <<>>
    BY <2>1, InHandReading
  <2>3. req'[r].pc = "save"
    BY <1>1, <2>1 DEF Continue, TypeOK, InFlight
  <2> QED
    BY <1>1, <2>1, <2>2, <2>3, ContinueWrites
<1>3. CASE req[r].kind # "json"
  <2>1. req' = [req EXCEPT ![r] = Idle]
    BY <1>3 DEF AfterPublish, Answer
  <2> QED
    BY <1>1, <2>1, SlotWritten, IdleSlot
<1> QED
  BY <1>2, <1>3

\* What Goto leaves in the slot.
LEMMA GotoWrites ==
    ASSUME IInv, NEW r \in Requests, req[r].pc # "idle",
           NEW p \in {"save", "exists", "create", "publish"}, Goto(r, p)
    PROVE  /\ \A y \in Requests \ {r} : req'[y] = req[y]
           /\ req'[r].pc = p /\ req'[r].kind = req[r].kind
           /\ req'[r].todo = req[r].todo
<1>1. TypeOK /\ req[r] \in InFlight
  BY SlotType DEF IInv
<1> DEFINE next == [req[r] EXCEPT !.pc = p]
<1>2. req' = [req EXCEPT ![r] = next]
  BY DEF Goto
<1>3. /\ next \in InFlight /\ next.pc = p
      /\ next.kind = req[r].kind /\ next.todo = req[r].todo
  BY <1>1, GotoSlot
<1> HIDE DEF next
<1>4. req'[r] = next /\ \A y \in Requests \ {r} : req'[y] = req[y]
  BY <1>1, <1>2, <1>3, SlotWritten
<1> QED
  BY <1>3, <1>4

\* The document just stored has its event in hand, or the save has failed.
LEMMA SaveKeepsCause ==
    ASSUME IInv, CountInv, LossHasCause, NEW r \in Requests, Save(r)
    PROVE  LossHasCause'
<1> DEFINE c == Current(r)
<1>1. /\ TypeOK /\ req[r] \in InFlight /\ req[r].pc = "save"
      /\ req[r].todo # <<>> /\ ~ InHand(req[r]) /\ events' = events
      /\ req[r].kind \in {"json", "proto"}
  BY SlotType DEF IInv, Save, InHand, InFlight
<1>2. PICK next \in {Counted(r), Uncounted(r)} :
        /\ req' = [req EXCEPT ![r] = next]
        /\ req[r].kind = "proto" => UNCHANGED <<due, faults>>
        /\ req[r].kind = "json" =>
             /\ due' = OneFor(due, r)
             /\ \/ next = Counted(r) /\ faults' = faults
                \/ next = Uncounted(r) /\ faults' = OneFor(faults, r)
  BY DEF Save
<1>3. next \in InFlight
  BY <1>1, CountedSlot, UncountedSlot
<1>4. req'[r] = next /\ \A y \in Requests \ {r} : req'[y] = req[y]
  BY <1>1, <1>2, <1>3, SlotWritten
<1>5. CASE req[r].kind = "proto"
  <2>1. ~ InHand(next)
    BY <1>1, <1>5, CountedSlot, UncountedSlot DEF InHand
  <2> QED
    BY <1>1, <1>2, <1>4, <1>5, <2>1, HeldKept
<1>6. CASE req[r].kind = "json"
  <2> SUFFICES ASSUME NEW x \in Readings
               PROVE  due'[x] = events'[x] + Cardinality(Held(x)') + faults'[x]
    BY DEF LossHasCause
  <2> DEFINE H == Held(x)
             G == Held(x)'
  <2>1. /\ IsFiniteSet(H) /\ due[x] = events[x] + Cardinality(H) + faults[x]
        /\ events[x] \in Nat /\ faults[x] \in Nat /\ due[x] \in Nat
        /\ events'[x] = events[x]
    BY <1>1 DEF LossHasCause, CountInv, TypeOK
  <2>2. /\ r \notin H
        /\ G = IF InHand(next) /\ Head(next.todo) = x THEN H \cup {r} ELSE H
    BY <1>1, <1>4 DEF Held, InHand
  <2>3. due'[x] = IF x = c THEN due[x] + 1 ELSE due[x]
    BY <1>1, <1>2, <1>6, OneForAdds DEF TypeOK
  <2>4. Cardinality(H) \in Nat
    BY <2>1, FS_CardinalityType
  <2>5. CASE next = Counted(r) /\ faults' = faults
    <3>1. InHand(next) /\ Head(next.todo) = c
      BY <1>1, <1>6, <2>5, CountedSlot DEF InHand, Current
    <3>2. G = IF x = c THEN H \cup {r} ELSE H
      BY <2>2, <3>1
    <3> HIDE DEF G, H, c
    <3>3. Cardinality(G) = IF x = c THEN Cardinality(H) + 1 ELSE Cardinality(H)
      BY <2>1, <2>2, <3>2, FS_AddElement
    <3>4. due'[x] = events'[x] + Cardinality(G) + faults'[x]
      BY <2>1, <2>3, <2>4, <2>5, <3>3
    <3> QED
      BY <3>4 DEF G
  <2>6. CASE next = Uncounted(r) /\ faults' = OneFor(faults, r)
    <3>1. ~ InHand(next)
      BY <1>1, <2>6, UncountedSlot DEF InHand
    <3>2. G = H
      BY <2>2, <3>1
    <3>3. faults'[x] = IF x = c THEN faults[x] + 1 ELSE faults[x]
      BY <1>1, <2>6, OneForAdds DEF TypeOK
    <3> HIDE DEF G, H, c
    <3>4. due'[x] = events'[x] + Cardinality(G) + faults'[x]
      BY <2>1, <2>3, <2>4, <3>2, <3>3
    <3> QED
      BY <3>4 DEF G
  <2> QED
    BY <1>2, <1>6, <2>5, <2>6
<1> QED
  BY <1>1, <1>5, <1>6

\* The event that is published is no longer in hand.
LEMMA PublishKeepsCause ==
    ASSUME IInv, CountInv, LossHasCause, NEW r \in Requests, Publish(r)
    PROVE  LossHasCause'
<1>1. /\ TypeOK /\ UNCHANGED <<due, faults>>
      /\ req[r].pc = "publish" /\ AfterPublish(r)
  BY DEF IInv, Publish, losses
<1>2. ~ InHand(req'[r]) /\ \A y \in Requests \ {r} : req'[y] = req[y]
  BY <1>1, AfterPublishWrites
<1>3. events \in [Readings -> Nat] /\ faults \in [Readings -> Nat]
  BY <1>1 DEF TypeOK
<1>4. CASE req[r].kind = "json"
  <2>1. InHand(req[r]) /\ events' = OneFor(events, r)
    BY <1>1, <1>4 DEF InHand, Publish
  <2>2. events' \in [Readings -> Nat]
    BY <1>3, <2>1, OneForAdds
  <2>3. ASSUME NEW x \in Readings
        PROVE  events'[x] + faults'[x]
                 = IF r \in Held(x) THEN events[x] + faults[x] + 1
                                    ELSE events[x] + faults[x]
    <3> DEFINE e == events[x]
               f == faults[x]
    <3>1. e \in Nat /\ f \in Nat /\ faults'[x] = f
      BY <1>1, <1>3
    <3>2. events'[x] = IF r \in Held(x) THEN e + 1 ELSE e
      BY <1>3, <2>1, OneForHeld
    <3> HIDE DEF e, f
    <3>3. events'[x] + faults'[x] = IF r \in Held(x) THEN e + f + 1 ELSE e + f
      BY <3>1, <3>2
    <3> QED
      BY <3>3 DEF e, f
  <2> QED
    BY <1>1, <1>2, <1>3, <2>2, <2>3, HeldDropped
<1>5. CASE req[r].kind # "json"
  <2>1. ~ InHand(req[r]) /\ events' = events
    BY <1>5 DEF InHand, Publish
  <2> QED
    BY <1>1, <1>2, <2>1, HeldKept
<1> QED
  BY <1>4, <1>5

LEMMA CausePreserved ==
    IInv /\ CountInv /\ LossHasCause /\ [Next]_vars => LossHasCause'
<1> SUFFICES ASSUME IInv, CountInv, LossHasCause, [Next]_vars
             PROVE  LossHasCause'
  OBVIOUS
<1>1. TypeOK
  BY DEF IInv
<1>2. ASSUME NEW r \in Requests, NEW kind \in {"json", "proto"},
             NEW b \in Batches, Receive(r, kind, b)
      PROVE  LossHasCause'
  <2>1. /\ req[r] = Idle /\ UNCHANGED <<events, due, faults>>
        /\ req'[r].pc = "save" /\ \A y \in Requests \ {r} : req'[y] = req[y]
    BY <1>1, <1>2 DEF Receive, TypeOK, losses
  <2> QED
    BY <2>1, IdleSlot, HeldKept DEF InHand
<1>3. ASSUME NEW r \in Requests, Abort(r) PROVE LossHasCause'
  <2>1. /\ req' = [req EXCEPT ![r] = Idle]
        /\ Fault(r) /\ UNCHANGED <<events, due>>
    BY <1>3 DEF Abort
  <2>2. req'[r] = Idle /\ \A y \in Requests \ {r} : req'[y] = req[y]
    BY <1>1, <2>1, SlotWritten
  <2> QED
    BY <2>1, <2>2, IdleSlot, FaultDrops
<1>4. ASSUME NEW r \in Requests, Skip(r) PROVE LossHasCause'
  <2>1. /\ req[r].pc = "save" /\ req[r].todo # <<>> /\ Continue(r)
        /\ UNCHANGED <<events, due, faults>> /\ ~ InHand(req[r])
    BY <1>4 DEF Skip, history, losses, InHand
  <2>2. ~ InHand(req'[r]) /\ \A y \in Requests \ {r} : req'[y] = req[y]
    BY <2>1, ContinueWrites
  <2> QED
    BY <2>1, <2>2, HeldKept
<1>5. ASSUME NEW r \in Requests, Save(r) PROVE LossHasCause'
  BY <1>5, SaveKeepsCause
<1>6. ASSUME NEW r \in Requests, Saved(r) PROVE LossHasCause'
  <2>1. /\ req[r].pc = "save" /\ ~ InHand(req[r])
        /\ UNCHANGED <<events, due, faults>>
    BY <1>6 DEF Saved, InHand, losses
  <2>2. CASE req[r].kind = "json"
    <3>1. req' = [req EXCEPT ![r] = Idle]
      BY <1>6, <2>2 DEF Saved, Answer
    <3> QED
      BY <1>1, <2>1, <3>1, SlotWritten, IdleSlot, HeldKept
  <2>3. CASE req[r].kind # "json"
    <3>1. Goto(r, "exists")
      BY <1>6, <2>3 DEF Saved
    <3> QED
      BY <2>1, <2>3, <3>1, GotoWrites, HeldKept DEF InHand
  <2> QED
    BY <2>2, <2>3
<1>7. ASSUME NEW r \in Requests, TopicExists(r) PROVE LossHasCause'
  BY <1>7, GotoWrites, HeldKept DEF TopicExists, InHand, history, losses
<1>8. ASSUME NEW r \in Requests, TopicMissing(r) PROVE LossHasCause'
  BY <1>8, GotoWrites, HeldKept DEF TopicMissing, InHand, history, losses
<1>9. ASSUME NEW r \in Requests, CreateTopic(r) PROVE LossHasCause'
  BY <1>9, GotoWrites, HeldKept DEF CreateTopic, InHand, history, losses
<1>10. ASSUME NEW r \in Requests, CreateRaced(r) PROVE LossHasCause'
  BY <1>10, AfterPublishWrites, FaultDrops DEF CreateRaced, GiveUp
<1>11. ASSUME NEW r \in Requests, CallFailed(r) PROVE LossHasCause'
  BY <1>11, AfterPublishWrites, FaultDrops DEF CallFailed, GiveUp
<1>12. ASSUME NEW r \in Requests, Publish(r) PROVE LossHasCause'
  BY <1>12, PublishKeepsCause
<1>13. CASE UNCHANGED vars
  BY <1>13 DEF vars, LossHasCause, Held
<1> QED
  BY <1>2, <1>3, <1>4, <1>5, <1>6, <1>7, <1>8, <1>9, <1>10, <1>11, <1>12,
     <1>13 DEF Next

-----------------------------------------------------------------------------
(* The creation of the topic                                               *)

Creators == {r \in Requests : req[r].pc = "create"}

\* Until the topic exists nothing is lost to its existence; afterwards nobody
\* sets out to create it any more, and its creator has left already.
RaceInv ==
    /\ ~ topic => races = 0
    /\ topic => races + Cardinality(Creators) < Cardinality(Requests)

LEMMA FewerCreators ==
    ASSUME NEW S \in SUBSET Requests
    PROVE  /\ IsFiniteSet(S) /\ Cardinality(S) \in Nat
           /\ Cardinality(Requests) \in Nat \ {0}
           /\ Cardinality(S) <= Cardinality(Requests)
<1>1. IsFiniteSet(Requests) /\ Requests # {}
  BY SlotAssumption
<1>2. Cardinality(Requests) \in Nat /\ Cardinality(Requests) # 0
  BY <1>1, FS_EmptySet, FS_CardinalityType
<1> QED
  BY <1>1, <1>2, SmallerSets

\* A step of a request that is not about to create the topic.
LEMMA CreatorsKept ==
    ASSUME TypeOK, RaceInv, topic => Creators' \subseteq Creators,
           UNCHANGED <<topic, races>>
    PROVE  RaceInv'
<1> DEFINE C == Creators
           D == Creators'
<1>1. C \in SUBSET Requests /\ D \in SUBSET Requests
  BY DEF Creators
<1>2. /\ ~ topic => races = 0
      /\ topic => races + Cardinality(C) < Cardinality(Requests)
      /\ races \in Nat
      /\ topic => D \subseteq C
  BY DEF RaceInv, TypeOK
<1> HIDE DEF C, D
<1>3. topic => races + Cardinality(D) < Cardinality(Requests)
  <2>1. /\ Cardinality(C) \in Nat /\ Cardinality(D) \in Nat
        /\ Cardinality(Requests) \in Nat /\ IsFiniteSet(C)
    BY <1>1, FewerCreators
  <2>2. ASSUME topic PROVE races + Cardinality(D) < Cardinality(Requests)
    <3>1. D \subseteq C /\ races + Cardinality(C) < Cardinality(Requests)
      BY <1>2, <2>2
    <3>2. Cardinality(D) <= Cardinality(C)
      BY <2>1, <3>1, SmallerSets
    <3> QED
      BY <1>2, <2>1, <3>1, <3>2
  <2> QED
    BY <2>2
<1> QED
  BY <1>2, <1>3 DEF RaceInv, D

\* A request that was about to create the topic goes on to something else.
LEMMA CreatorLeaves ==
    ASSUME TypeOK, RaceInv, NEW r \in Requests, req[r].pc = "create",
           \A y \in Requests \ {r} : req'[y] = req[y], req'[r].pc # "create",
           topic' \in {topic, TRUE},
           races' = races \/ (topic /\ races' = races + 1)
    PROVE  RaceInv'
<1> DEFINE C == Creators
           D == Creators'
<1>1. /\ C \in SUBSET Requests /\ r \in C /\ D = C \ {r}
  BY DEF Creators
<1>2. /\ ~ topic => races = 0
      /\ topic => races + Cardinality(C) < Cardinality(Requests)
      /\ races \in Nat /\ topic \in BOOLEAN
  BY DEF RaceInv, TypeOK
<1> HIDE DEF C, D
<1>3. /\ Cardinality(C) \in Nat /\ Cardinality(C) <= Cardinality(Requests)
      /\ Cardinality(Requests) \in Nat /\ Cardinality(D) = Cardinality(C) - 1
  BY <1>1, FewerCreators, FS_RemoveElement
<1>4. ~ topic' => races' = 0
  BY <1>2
<1>5. topic' => races' + Cardinality(D) < Cardinality(Requests)
  BY <1>2, <1>3
<1> QED
  BY <1>4, <1>5 DEF RaceInv, D

LEMMA RacePreserved == IInv /\ RaceInv /\ [Next]_vars => RaceInv'
<1> SUFFICES ASSUME IInv, RaceInv, [Next]_vars PROVE RaceInv'
  OBVIOUS
<1>1. TypeOK
  BY DEF IInv
<1>2. ASSUME NEW r \in Requests, UNCHANGED <<topic, races>>,
             \A y \in Requests \ {r} : req'[y] = req[y],
             topic => req'[r].pc # "create"
      PROVE  RaceInv'
  <2>1. topic => Creators' \subseteq Creators
    BY <1>2 DEF Creators
  <2> QED
    BY <1>1, <1>2, <2>1, CreatorsKept
<1>3. ASSUME NEW r \in Requests, NEW kind \in {"json", "proto"},
             NEW b \in Batches, Receive(r, kind, b)
      PROVE  RaceInv'
  <2>1. /\ UNCHANGED <<topic, races>> /\ req'[r].pc = "save"
        /\ \A y \in Requests \ {r} : req'[y] = req[y]
    BY <1>1, <1>3 DEF Receive, TypeOK, losses
  <2> QED
    BY <1>2, <2>1
<1>4. ASSUME NEW r \in Requests, req' = [req EXCEPT ![r] = Idle],
             UNCHANGED <<topic, races>>
      PROVE  RaceInv'
  <2>1. req'[r] = Idle /\ \A y \in Requests \ {r} : req'[y] = req[y]
    BY <1>1, <1>4, SlotWritten
  <2> QED
    BY <1>2, <1>4, <2>1, IdleSlot
<1>5. ASSUME NEW r \in Requests, Abort(r) PROVE RaceInv'
  BY <1>4, <1>5 DEF Abort
<1>6. ASSUME NEW r \in Requests, Skip(r) PROVE RaceInv'
  <2>1. /\ req[r].pc = "save" /\ req[r].todo # <<>> /\ Continue(r)
        /\ UNCHANGED <<topic, races>> /\ req[r].pc # "idle"
    BY <1>6 DEF Skip, history, losses
  <2>2. req[r] \in InFlight
    BY <1>1, <2>1, SlotType
  <2>3. req'[r].pc = "save" /\ \A y \in Requests \ {r} : req'[y] = req[y]
    BY <1>1, <2>1, <2>2, ContinueWrites DEF Continue, TypeOK, InFlight
  <2> QED
    BY <1>2, <2>1, <2>3
<1>7. ASSUME NEW r \in Requests, Save(r) PROVE RaceInv'
  <2>1. /\ req[r] \in InFlight /\ req[r].todo # <<>> /\ req[r].pc = "save"
        /\ UNCHANGED <<topic, races>> /\ req[r].kind \in {"json", "proto"}
    BY <1>1, <1>7, SlotType DEF Save, InFlight
  <2>2. PICK next \in {Counted(r), Uncounted(r)} :
          req' = [req EXCEPT ![r] = next]
    BY <1>7 DEF Save
  <2>3. next \in InFlight /\ next.pc # "create"
    BY <1>1, <2>1, CountedSlot, UncountedSlot
  <2>4. req'[r] = next /\ \A y \in Requests \ {r} : req'[y] = req[y]
    BY <1>1, <2>2, <2>3, SlotWritten
  <2> QED
    BY <1>2, <2>1, <2>3, <2>4
<1>8. ASSUME NEW r \in Requests, Saved(r) PROVE RaceInv'
  <2>1. req[r].pc = "save" /\ UNCHANGED <<topic, races>>
    BY <1>8 DEF Saved, losses
  <2>2. CASE req[r].kind = "json"
    BY <1>4, <1>8, <2>1, <2>2 DEF Saved, Answer
  <2>3. CASE req[r].kind # "json"
    <3>1. Goto(r, "exists")
      BY <1>8, <2>3 DEF Saved
    <3> QED
      BY <1>2, <2>1, <3>1, GotoWrites
  <2> QED
    BY <2>2, <2>3
<1>9. ASSUME NEW r \in Requests, TopicExists(r) PROVE RaceInv'
  BY <1>2, <1>9, GotoWrites DEF TopicExists, history, losses
<1>10. ASSUME NEW r \in Requests, TopicMissing(r) PROVE RaceInv'
  BY <1>2, <1>10, GotoWrites DEF TopicMissing, history, losses
<1>11. ASSUME NEW r \in Requests, CreateTopic(r) PROVE RaceInv'
  <2>1. /\ req[r].pc = "create" /\ Goto(r, "publish")
        /\ topic' = TRUE /\ races' = races
    BY <1>11 DEF CreateTopic, history, losses
  <2>2. req'[r].pc = "publish" /\ \A y \in Requests \ {r} : req'[y] = req[y]
    BY <2>1, GotoWrites
  <2> QED
    BY <1>1, <2>1, <2>2, CreatorLeaves
<1>12. ASSUME NEW r \in Requests, CreateRaced(r) PROVE RaceInv'
  <2>1. /\ req[r].pc = "create" /\ topic /\ topic' = topic
        /\ races' = races + 1 /\ AfterPublish(r)
    BY <1>12 DEF CreateRaced, GiveUp
  <2>2. req'[r].pc # "create" /\ \A y \in Requests \ {r} : req'[y] = req[y]
    BY <2>1, AfterPublishWrites
  <2> QED
    BY <1>1, <2>1, <2>2, CreatorLeaves
<1>13. ASSUME NEW r \in Requests, CallFailed(r) PROVE RaceInv'
  <2>1. /\ req[r].pc \in {"exists", "create", "publish"} /\ AfterPublish(r)
        /\ races' = races
        /\ topic' \in IF req[r].pc = "create" THEN {topic, TRUE} ELSE {topic}
    BY <1>13 DEF CallFailed, GiveUp
  <2>2. CASE req[r].pc = "create"
    BY <1>1, <2>1, <2>2, AfterPublishWrites, CreatorLeaves
  <2>3. CASE req[r].pc # "create"
    BY <1>2, <2>1, <2>3, AfterPublishWrites
  <2> QED
    BY <2>2, <2>3
<1>14. ASSUME NEW r \in Requests, Publish(r) PROVE RaceInv'
  <2>1. /\ req[r].pc = "publish" /\ AfterPublish(r)
        /\ UNCHANGED <<topic, races>>
    BY <1>14 DEF Publish, losses
  <2> QED
    BY <1>2, <2>1, AfterPublishWrites
<1>15. CASE UNCHANGED vars
  BY <1>15 DEF vars, RaceInv, Creators
<1> QED
  BY <1>3, <1>5, <1>6, <1>7, <1>8, <1>9, <1>10, <1>11, <1>12, <1>13, <1>14,
     <1>15 DEF Next

-----------------------------------------------------------------------------
(* Theorems                                                                *)

\* The states of the ingestion keep their types.
THEOREM TypeCorrect == Spec => []TypeOK
<1>1. IInv => TypeOK
  BY DEF IInv
<1> QED
  BY <1>1, Inductive, PTL

\* Events never outnumber documents, nor documents the times a reading was
\* sent, for any batches (telemetry.go:54-68 and 129-143).
THEOREM EventsFollowDocuments == Spec => []StoredFirst
<1>1. IInv /\ CountInv => StoredFirst
  <2> SUFFICES ASSUME IInv, CountInv, NEW x \in Readings
               PROVE  events[x] <= stored[x] /\ stored[x] <= sent[x]
    BY DEF StoredFirst
  <2>1. /\ events[x] + Cardinality(Held(x)) <= stored[x]
        /\ stored[x] + Cardinality(Pending(x)) <= sent[x]
        /\ Cardinality(Held(x)) \in Nat /\ Cardinality(Pending(x)) \in Nat
        /\ events[x] \in Nat /\ stored[x] \in Nat /\ sent[x] \in Nat
    BY FS_CardinalityType DEF CountInv, IInv, TypeOK
  <2> QED
    BY <2>1
<1> QED
  BY <1>1, Inductive, PTL

\* No answer or digest counts a reading that was not stored
\* (telemetry.go:140, telemetry_proto.go:189-192).
THEOREM CountsAreTrue == Spec => []CountsAreStored
<1>1. IInv => CountsAreStored
  BY DEF IInv
<1> QED
  BY <1>1, Inductive, PTL

\* The event of every document a JSON request stored is in the topic, in hand,
\* or given up to a failing call or to the end of the request
\* (telemetry.go:54-68 and 129-143, store_pubsub.go:19-35).
THEOREM LossIsCaused == Spec => []LossHasCause
<1>1. Init => LossHasCause
  <2> SUFFICES ASSUME Init, NEW x \in Readings
               PROVE  due[x] = events[x] + Cardinality(Held(x)) + faults[x]
    BY DEF LossHasCause
  <2>1. Held(x) = {}
    BY IdleSlot DEF Init, Held
  <2> QED
    BY <2>1, FS_EmptySet DEF Init
<1>2. IInv /\ CountInv /\ LossHasCause /\ [Next]_vars => LossHasCause'
  BY CausePreserved
<1> QED
  BY <1>1, <1>2, Inductive, PTL DEF Spec

\* The creation of the topic costs less than one event or digest per request
\* that is served at a time, once and for all (store_pubsub.go:20-30).
THEOREM RacesAreBounded == Spec => []RacesBounded
<1>1. Init => RaceInv
  <2> SUFFICES ASSUME Init PROVE RaceInv
    OBVIOUS
  <2>1. Creators = {} /\ races = 0
    BY IdleSlot DEF Init, Creators
  <2>2. Cardinality(Creators) = 0 /\ Cardinality(Requests) \in Nat \ {0}
    BY <2>1, FS_EmptySet, FewerCreators
  <2> QED
    BY <2>1, <2>2 DEF RaceInv
<1>2. IInv /\ RaceInv /\ [Next]_vars => RaceInv'
  BY RacePreserved
<1>3. IInv /\ RaceInv => RacesBounded
  <2> SUFFICES ASSUME IInv, RaceInv PROVE RacesBounded
    OBVIOUS
  <2>1. Creators \in SUBSET Requests /\ races \in Nat /\ topic \in BOOLEAN
    BY DEF Creators, IInv, TypeOK
  <2>2. /\ Cardinality(Creators) \in Nat
        /\ Cardinality(Requests) \in Nat \ {0}
    BY <2>1, FewerCreators
  <2> QED
    BY <2>1, <2>2 DEF RaceInv, RacesBounded
<1> QED
  BY <1>1, <1>2, <1>3, Inductive, PTL DEF Spec

=============================================================================
