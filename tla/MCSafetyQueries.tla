--------------------------- MODULE MCSafetyQueries --------------------------
(* A small instance of SafetyQueries: two countries, one of them with two   *)
(* notices, and one notice without a country name.                          *)
EXTENDS SafetyQueries

CONSTANTS i1, i2, i3, i4

MCCountry == (i1 :> "JP") @@ (i2 :> "JP") @@ (i3 :> "FR") @@ (i4 :> "FR")

MCDistance == (i1 :> 3) @@ (i2 :> 1) @@ (i3 :> 2) @@ (i4 :> 9)
=============================================================================
