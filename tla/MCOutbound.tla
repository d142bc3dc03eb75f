----------------------------- MODULE MCOutbound -----------------------------
(* A small instance of Outbound: two workers, and buckets of two tokens that *)
(* are refilled at different rates.                                          *)
EXTENDS Outbound, TLC

CONSTANTS w1, w2

Rates == ("llm" :> 2) @@ ("mapbox" :> 1)

Symmetry == Permutations(Workers)
=============================================================================
