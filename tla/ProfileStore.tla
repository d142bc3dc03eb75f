---------------------------- MODULE ProfileStore ----------------------------
(***************************************************************************)
(* What the users collection promises to its readers (the app and the      *)
(* notifier): a profile starts empty, and every later write changes one    *)
(* field of one user, one country or token at a time; nothing but an       *)
(* erasure takes anything else away.                                       *)
(*                                                                         *)
(* UserProfile implements it although its calls are several round trips.   *)
(***************************************************************************)
EXTENDS Naturals

CONSTANTS Users, Countries, Tokens,
          Dead,        (* the tokens of uninstalled apps         *)
          Prefs,       (* the preference objects users save      *)
          NoPref,      (* the preference of an empty profile     *)
          Missing      (* no document                            *)

VARIABLE profile

Empty == [favorites |-> {}, pref |-> NoPref, tokens |-> {}]

Init == profile = [u \in Users |-> Missing]

Write(u, document) == profile' = [profile EXCEPT ![u] = document]

Bootstrap(u) == profile[u] = Missing /\ Write(u, Empty)

Favor(u, c) ==
  /\ profile[u] # Missing
  /\ \/ Write(u, [profile[u] EXCEPT !.favorites = @ \cup {c}])
     \/ Write(u, [profile[u] EXCEPT !.favorites = @ \ {c}])

Prefer(u, p) == profile[u] # Missing /\ Write(u, [profile[u] EXCEPT !.pref = p])

Register(u, t) == profile[u] # Missing /\ Write(u, [profile[u] EXCEPT !.tokens = @ \cup {t}])

Prune(u, dead) == profile[u] # Missing /\ Write(u, [profile[u] EXCEPT !.tokens = @ \ dead])

Erase(u) == Write(u, Missing)

Next ==
  \E u \in Users :
    \/ Bootstrap(u)
    \/ \E c \in Countries : Favor(u, c)
    \/ \E p \in Prefs : Prefer(u, p)
    \/ \E t \in Tokens : Register(u, t)
    \/ \E dead \in SUBSET Dead : Prune(u, dead)
    \/ Erase(u)

Spec == Init /\ [][Next]_profile
=============================================================================
