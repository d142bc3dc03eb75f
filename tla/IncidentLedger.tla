--------------------------- MODULE IncidentLedger ---------------------------
(***************************************************************************)
(* What the ingestion job promises about one notice, without saying how:   *)
(* it is registered in the CMS once, and announced on the topic at most    *)
(* once, after it was registered.  It may stay unannounced for ever (a     *)
(* publish that fails is not repeated).                                    *)
(*                                                                         *)
(* NFR-ING-REL-01 ("the same XML processed N times registers one item").   *)
(* Ingestion implements it as long as its runs do not overlap.             *)
(***************************************************************************)
EXTENDS Naturals

CONSTANT Keys    (* the key_cd values *)

VARIABLES registered,  (* [Keys -> number of CMS items]    *)
          announced    (* [Keys -> number of messages]     *)

vars == <<registered, announced>>

Init ==
  /\ registered = [k \in Keys |-> 0]
  /\ announced = [k \in Keys |-> 0]

Register(k) ==
  /\ registered[k] = 0
  /\ registered' = [registered EXCEPT ![k] = 1]
  /\ UNCHANGED announced

Announce(k) ==
  /\ registered[k] = 1
  /\ announced[k] = 0
  /\ announced' = [announced EXCEPT ![k] = 1]
  /\ UNCHANGED registered

Next == \E k \in Keys : Register(k) \/ Announce(k)

Spec == Init /\ [][Next]_vars
=============================================================================
