----------------------------- MODULE IngestRow ------------------------------
(***************************************************************************)
(* A row of the ingestion job, call by call, as Ingestion takes it: a call *)
(* is made, is answered once, and decides whether the next one is made.    *)
(* What a call costs is hidden, except for the write, which is not         *)
(* idempotent: whatever becomes of its answer, it is sent once at most.    *)
(***************************************************************************)
EXTENDS Naturals

CONSTANTS
  Workers,
  Failures  (* the answers other than ok                                     *)

VARIABLES
  call,    (* [Workers -> the call the row is at, or none]                   *)
  outcome, (* [Workers -> its answer, or none yet]                           *)
  writes   (* [Workers -> the requests that write the row]                   *)

vars == <<call, outcome, writes>>

Following ==
  [ lookup   |-> "complete",
    complete |-> "geocode",
    geocode  |-> "search",
    search   |-> "write" ]

Init ==
  /\ call = [w \in Workers |-> "none"]
  /\ outcome = [w \in Workers |-> "none"]
  /\ writes = [w \in Workers |-> 0]

Make(w, c) ==
  /\ call' = [call EXCEPT ![w] = c]
  /\ outcome' = [outcome EXCEPT ![w] = "none"]
  /\ writes' = [writes EXCEPT ![w] = 0]

Take(w) == call[w] = "none" /\ Make(w, "lookup")

Write(w) ==
  /\ call[w] = "write"
  /\ outcome[w] = "none"
  /\ writes[w] = 0
  /\ writes' = [writes EXCEPT ![w] = 1]
  /\ UNCHANGED <<call, outcome>>

(* The answer comes.  A row is never taken for written that was not sent. *)
Return(w) ==
  /\ call[w] # "none"
  /\ outcome[w] = "none"
  /\ outcome'[w] # "none"
  /\ \E a \in {"ok"} \cup Failures :
       /\ a = "ok" /\ call[w] = "write" => writes[w] = 1
       /\ outcome' = [outcome EXCEPT ![w] = a]
  /\ UNCHANGED <<call, writes>>

(* Only a geocoder that fails is passed over. *)
Proceed(w) ==
  /\ \/ outcome[w] = "ok"
     \/ outcome[w] \in Failures /\ call[w] = "geocode"
  /\ call[w] \in DOMAIN Following
  /\ Make(w, Following[call[w]])

(* The row is written, known already, impossible to place, or has failed. *)
Leave(w) ==
  /\ outcome[w] # "none"
  /\ outcome[w] = "ok" => call[w] \in {"lookup", "geocode", "write"}
  /\ Make(w, "none")

Next ==
  \E w \in Workers : Take(w) \/ Write(w) \/ Return(w) \/ Proceed(w) \/ Leave(w)

Spec == Init /\ [][Next]_vars
=============================================================================
