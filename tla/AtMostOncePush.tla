--------------------------- MODULE AtMostOncePush ---------------------------
(***************************************************************************)
(* What the notifier promises about one event, without saying how: an      *)
(* event (identified by its key_cd) is claimed by one execution, a user is *)
(* handed to FCM for a claimed event at most once, and nothing is pushed   *)
(* for an event nobody has claimed.  A claim expires with the 24h TTL of   *)
(* its marker, after which the same key_cd counts as a new event.          *)
(*                                                                         *)
(* This is the contract of the Dedup port and of NFR-NTF-REL-01; Notifier  *)
(* implements it under the substitution given at its end.                  *)
(***************************************************************************)
EXTENDS Naturals

CONSTANTS Keys,   (* the key_cd values of the published events *)
          Users   (* the documents of the users collection     *)

VARIABLES claimed,  (* claimed[k]: some execution owns the delivery of k      *)
          pushes    (* pushes[k][u]: multicasts to u for k under this claim   *)

vars == <<claimed, pushes>>

Init ==
  /\ claimed = [k \in Keys |-> FALSE]
  /\ pushes = [k \in Keys |-> [u \in Users |-> 0]]

Claim(k) ==
  /\ ~claimed[k]
  /\ claimed' = [claimed EXCEPT ![k] = TRUE]
  /\ UNCHANGED pushes

Push(k, u) ==
  /\ claimed[k]
  /\ pushes[k][u] = 0
  /\ pushes' = [pushes EXCEPT ![k][u] = 1]
  /\ UNCHANGED claimed

Expire(k) ==
  /\ claimed[k]
  /\ claimed' = [claimed EXCEPT ![k] = FALSE]
  /\ pushes' = [pushes EXCEPT ![k] = [u \in Users |-> 0]]

Next ==
  \E k \in Keys :
    \/ Claim(k)
    \/ \E u \in Users : Push(k, u)
    \/ Expire(k)

Spec == Init /\ [][Next]_vars
=============================================================================
