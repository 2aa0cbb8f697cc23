--------------------------- MODULE MCSchemaCache ----------------------------
(* Small instances of SchemaCache for TLC.                                 *)
EXTENDS SchemaCache, TLC

\* Instances and request slots are interchangeable.
Interchangeable == Permutations(Instances) \cup Permutations(Requests)

=============================================================================
