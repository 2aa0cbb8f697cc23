---------------------------- MODULE AccessPolicy ----------------------------
(***************************************************************************)
(* What the telemetry API promises about a device's access, whatever       *)
(* caches and however many instances stand between the device and the      *)
(* store: a revocation is final, and after it the device is let in for at  *)
(* most AdmitGrace and its session is renewed for at most RenewGrace.      *)
(* DeviceAuth implements this specification.                               *)
(***************************************************************************)
EXTENDS Naturals

CONSTANTS
    Devices,     \* the device identities an administrator may provision
    AdmitGrace,  \* how long after a revocation a request is still let in
    RenewGrace,  \* how long after a revocation a token is still issued
    Session      \* the lifetime of a token

VARIABLES
    clock,       \* real time
    device,      \* "absent", then "active", then "revoked"
    revokedAt,   \* when the device was revoked
    lastAdmit,   \* when the device was last let in
    tokenExp     \* when the last of the device's tokens expires

vars == <<clock, device, revokedAt, lastAdmit, tokenExp>>

Init ==
    /\ clock = 0
    /\ device = [d \in Devices |-> "absent"]
    /\ revokedAt = [d \in Devices |-> 0]
    /\ lastAdmit = [d \in Devices |-> 0]
    /\ tokenExp = [d \in Devices |-> 0]

Tick ==
    /\ clock' = clock + 1
    /\ UNCHANGED <<device, revokedAt, lastAdmit, tokenExp>>

Enrol(d) ==
    /\ device[d] = "absent"
    /\ device' = [device EXCEPT ![d] = "active"]
    /\ UNCHANGED <<clock, revokedAt, lastAdmit, tokenExp>>

Revoke(d) ==
    /\ device[d] = "active"
    /\ device' = [device EXCEPT ![d] = "revoked"]
    /\ revokedAt' = [revokedAt EXCEPT ![d] = clock]
    /\ UNCHANGED <<clock, lastAdmit, tokenExp>>

\* A request of d is let in only once d was issued a token, and after a
\* revocation only within the grace period.
Admit(d) ==
    /\ device[d] # "absent"
    /\ tokenExp[d] > 0
    /\ device[d] = "revoked" => clock < revokedAt[d] + AdmitGrace
    /\ lastAdmit' = [lastAdmit EXCEPT ![d] = clock]
    /\ UNCHANGED <<clock, device, revokedAt, tokenExp>>

Renew(d) ==
    /\ device[d] # "absent"
    /\ device[d] = "revoked" => clock <= revokedAt[d] + RenewGrace
    /\ tokenExp' = [tokenExp EXCEPT ![d] = clock + Session]
    /\ UNCHANGED <<clock, device, revokedAt, lastAdmit>>

Next ==
    \/ Tick
    \/ \E d \in Devices : Enrol(d) \/ Revoke(d) \/ Admit(d) \/ Renew(d)

Spec == Init /\ [][Next]_vars

=============================================================================
