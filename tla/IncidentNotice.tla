--------------------------- MODULE IncidentNotice ----------------------------
(***************************************************************************)
(* What the ingestion job and the notifier promise together: an incident   *)
(* is registered once and for all, and only then is anybody told of it,    *)
(* each user once, until the record of who was told is dropped.            *)
(***************************************************************************)
EXTENDS Naturals

CONSTANTS Keys, Users

VARIABLES
  stored,  (* the incidents of the CMS                                       *)
  told     (* [Keys -> [Users -> how often, as far as is on record]]         *)

vars == <<stored, told>>

Nobody == [u \in Users |-> 0]

Init ==
  /\ stored = {}
  /\ told = [k \in Keys |-> Nobody]

Store(k) ==
  /\ stored' = stored \cup {k}
  /\ UNCHANGED told

Tell(k, u) ==
  /\ k \in stored
  /\ told[k][u] = 0
  /\ told' = [told EXCEPT ![k][u] = 1]
  /\ UNCHANGED stored

Drop(k) ==
  /\ told' = [told EXCEPT ![k] = Nobody]
  /\ UNCHANGED stored

Next ==
  \E k \in Keys : Store(k) \/ Drop(k) \/ \E u \in Users : Tell(k, u)

Spec == Init /\ [][Next]_vars
=============================================================================
