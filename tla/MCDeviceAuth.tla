---------------------------- MODULE MCDeviceAuth ----------------------------
(* Small instances of DeviceAuth for TLC.                                  *)
EXTENDS DeviceAuth, TLC

\* Instances and request slots are interchangeable.
Interchangeable == Permutations(Instances) \cup Permutations(Requests)

=============================================================================
