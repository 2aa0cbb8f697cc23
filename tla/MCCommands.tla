---------------------------- MODULE MCCommands ------------------------------
(* Small instances of Commands for TLC.                                    *)
EXTENDS Commands, TLC

\* Request slots, devices and the ids of one kind are interchangeable.
Interchangeable ==
    Permutations(Requests) \cup Permutations(Devices) \cup Permutations(StoreIds)

=============================================================================
