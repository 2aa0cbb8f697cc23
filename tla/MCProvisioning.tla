--------------------------- MODULE MCProvisioning ---------------------------
(* A small instance of Provisioning: one address in two spellings, another *)
(* address, and a spelling that is no address.                             *)
EXTENDS Provisioning, TLC

CONSTANTS m1, m2

SpellingsOf == {"aa:bb", "AA-BB", "cc:dd", "zz"}

NormalizeOf == [s \in {"aa:bb", "AA-BB", "cc:dd"} |->
                  IF s = "cc:dd" THEN m2 ELSE m1]

Interchangeable == Permutations(UUIDs) \cup Permutations(Requests)

=============================================================================
