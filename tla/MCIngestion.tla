---------------------------- MODULE MCIngestion -----------------------------
(* Small instances of Ingestion. *)
EXTENDS Ingestion

CONSTANTS i1, i2, i3, k1, k2, k3, r1, r2

OwnKeys == [i \in Items |-> CASE i = i1 -> k1 [] i = i2 -> k2 [] i = i3 -> k3]

(* i1's country has a centroid, i2's is missing. *)
Known == [i \in Items |-> "JP"]
SecondMissing == [i \in Items |-> IF i = i2 THEN NoCountry ELSE "JP"]
=============================================================================
