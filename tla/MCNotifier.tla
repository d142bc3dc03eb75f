----------------------------- MODULE MCNotifier -----------------------------
(* Small instances of Notifier: two users, the first with two devices.      *)
EXTENDS Notifier, TLC

CONSTANTS m1, m2, k1, k2, u1, u2, t1, t2, t3, h1, h2

(* One message, or two of two events. *)
OneEvent == m1 :> k1
TwoEvents == (m1 :> k1) @@ (m2 :> k2)

CountryOf == [m \in Messages |-> "JP"]
TypeOf == [m \in Messages |-> "danger"]

(* u1 wants every type, u2 only the type of the event. *)
Preferences ==
  (u1 :> [enabled |-> TRUE, countries |-> {"JP"}, types |-> {}]) @@
  (u2 :> [enabled |-> TRUE, countries |-> {"JP"}, types |-> {"danger"}])

Devices == [t \in Tokens |-> IF t = t3 THEN u2 ELSE u1]
=============================================================================
