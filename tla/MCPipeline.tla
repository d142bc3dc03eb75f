----------------------------- MODULE MCPipeline ------------------------------
(* One notice whose country is missing from the feed, so that Mapbox may    *)
(* place it in either of two countries or in none, one run at a time, and a *)
(* user who follows one of the countries.                                   *)
EXTENDS Pipeline, TLC

CONSTANTS i1, k1, r1, u1, t1, h1, h2

OwnKey == i1 :> k1
Missing == i1 :> NoCountry
Danger == i1 :> "danger"

Follower == u1 :> [enabled |-> TRUE, countries |-> {"JP"}, types |-> {"danger"}]
Device == t1 :> u1
=============================================================================
