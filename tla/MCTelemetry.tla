---------------------------- MODULE MCTelemetry -----------------------------
(* A small instance of Telemetry: two valid readings and an invalid one, in *)
(* bodies of one or three readings.                                         *)
EXTENDS Telemetry, TLC

CONSTANTS x, y, bad

BatchesOf == {<<x>>, <<y>>, <<y, bad, x>>}

Interchangeable == Permutations(Requests)

=============================================================================
