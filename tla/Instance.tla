------------------------------ MODULE Instance ------------------------------
(***************************************************************************)
(* One instance from its start to its exit (main.go), with the requests it *)
(* serves: each verifies its token as in KeyCache and then runs its        *)
(* handler.                                                                *)
(*                                                                         *)
(* On a signal a goroutine calls Shutdown, which closes the listener and   *)
(* then waits up to Grace for the requests in flight.  ListenAndServe      *)
(* returns as soon as the listener is closed, main returns behind it, its  *)
(* deferred calls close the clients of Firestore and Pub/Sub, and the      *)
(* process exits.                                                          *)
(***************************************************************************)
EXTENDS KeyCache

CONSTANT
    Grace        \* what Shutdown waits for the requests in flight: 30 s

ASSUME GraceAssumption == Grace \in Nat

VARIABLES
    main,        \* "serving", or "closing" once the listener is closed
    \* History variable: no action reads it.
    closedAt     \* when the listener was closed, 0 while it is open

vars == <<kvars, main, closedAt>>

TypeOK ==
    /\ KeysTypeOK
    /\ main \in {"serving", "closing"}
    /\ closedAt \in Nat

Init ==
    /\ KeysInit
    /\ main = "serving"
    /\ closedAt = 0

-----------------------------------------------------------------------------

\* SIGINT or SIGTERM wakes the goroutine; Shutdown closes the listener before
\* anything else.
Shutdown ==
    /\ main = "serving"
    /\ main' = "closing"
    /\ closedAt' = clock
    /\ UNCHANGED kvars

\* The process is gone with the requests that were in flight, and another
\* instance takes its place.
Replaced ==
    /\ Restart
    /\ main' = "serving"
    /\ closedAt' = 0

\* ListenAndServe returns ErrServerClosed and main returns, whether or not
\* Shutdown is still waiting: the deferred calls stop the limiter and close
\* the clients, and the process exits.
Return ==
    /\ main = "closing"
    /\ Replaced

\* ListenAndServe fails, which ends the process at once, or the process is
\* killed; with the listener closed this does no more than Return.
Crash ==
    /\ main = "serving"
    /\ Replaced

\* Connections are accepted until the listener is closed.
Accept(r, k) ==
    /\ main = "serving"
    /\ Receive(r, k)
    /\ UNCHANGED <<main, closedAt>>

Serving ==
    /\ Environment \/ \E r \in Requests : Verifying(r)
    /\ UNCHANGED <<main, closedAt>>

Next ==
    \/ Shutdown
    \/ Return
    \/ Crash
    \/ Serving
    \/ \E r \in Requests, k \in TokenKids : Accept(r, k)

Spec == Init /\ [][Next]_vars /\ KeysFairness

-----------------------------------------------------------------------------
(* Properties                                                              *)

\* "Graceful shutdown" (main.go:166), "context.WithTimeout(..., 30*time.Second)"
\* (main.go:173): main returns, and closes the clients, under a request that
\* is in flight only after it had Grace to finish.
Graceful ==
    [][Return => \/ \A r \in Requests : req[r] = Idle
                 \/ clock >= closedAt + Grace]_vars

=============================================================================
