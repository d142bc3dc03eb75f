------------------------------ MODULE Pipeline -------------------------------
(***************************************************************************)
(* The way of a notice from MOFA to the phones: the ingestion job and the  *)
(* notifier service, joined by the topic safety-incident.new-arrival.  The *)
(* job is Ingestion itself, the service an instance of Notifier; they      *)
(* share nothing but the messages, and every step is a step of one of      *)
(* them, except for the publish, which is a step of both.                  *)
(***************************************************************************)
EXTENDS Ingestion

CONSTANTS
  Ids,             (* what tells two messages of the same content apart     *)
  InfoType,        (* [Items -> info types]                                 *)
  Users, PrefOf, Tokens, Owner, InitTokens, Handlers, MaxAttempts, None,
  FcmConcurrency,  (* Notifier's Concurrency                                *)
  ServiceFaults    (* Notifier's Faults                                     *)

(* What a message carries, of all that the event holds. *)
Messages ==
  [key : Keys, country : Countries, type : {InfoType[i] : i \in Items}, id : Ids]

VARIABLES
  status, attempts, pc, job, waiting, code, task, snap, batch, seen, mark,
  tokens, alive, pushes, fate, audience,
  delivered,       (* Notifier's res                                        *)
  unreached        (* Notifier's lost                                       *)

Service == INSTANCE Notifier WITH
             malformed <- {},
             KeyOf <- [m \in Messages |-> m.key],
             Country <- [m \in Messages |-> m.country],
             InfoType <- [m \in Messages |-> m.type],
             Concurrency <- FcmConcurrency,
             Faults <- ServiceFaults,
             res <- delivered,
             lost <- unreached

ASSUME PipelineAssumption ==
  /\ Owner \in [Tokens -> Users]
  /\ InitTokens \subseteq Tokens
  /\ IsFiniteSet(Tokens)
  /\ FcmConcurrency \in Nat \ {0}
  /\ MaxAttempts \in Nat \ {0}
  /\ ServiceFaults \subseteq Service!FaultKinds
  /\ None \notin Messages

serviceVars ==
  <<status, attempts, pc, job, waiting, code, task, snap, batch, seen, delivered,
    mark, tokens, alive, pushes, fate, audience, unreached>>
pipelineVars == <<vars, serviceVars>>

PipelineInit == Init /\ Service!Init

-----------------------------------------------------------------------------
(* Variant: the event keeps the country of the feed. *)
EventOfFeed(m, r, i) ==
  m.key = KeyOf[i] /\ m.country = Country[i] /\ m.type = InfoType[i]

(* The event of an incident: its key_cd, the country it was built with and  *)
(* the notice's type.                                                       *)
EventOf(m, r, i) ==
  m.key = KeyOf[i] /\ m.country = doc[r][i].country /\ m.type = InfoType[i]

(* A row's publish reaches the topic, whatever the job gets to hear of it.  *)
Announce(r, i) ==
  /\ Publish(r, i)
  /\ events' # events
  /\ \E m \in Messages : EventOf(m, r, i) /\ Service!Publish(m)

(* Every other step of a run leaves the topic alone. *)
JobStep(r) ==
  \/ RunStep(r) /\ UNCHANGED <<events, serviceVars>>
  \/ \E i \in Items : Announce(r, i)

(* The notifier and its subscription. *)
HandlerStep(h) == Service!HandlerStep(h) /\ UNCHANGED vars
SubscriptionStep == Service!SubscriptionStep /\ UNCHANGED vars

(* The Pub/Sub client repeats a publish whose answer was late, and the      *)
(* topic takes it for another message (external).                           *)
Repeat(m) ==
  /\ status[m] # "unpublished"
  /\ \E id \in Ids : Service!Publish([m EXCEPT !.id = id])
  /\ UNCHANGED vars

(* What happens around the job: the scheduler, signals, the feeds. *)
JobEnvironment ==
  /\ \/ \E r \in Runs : Start(r) \/ Sigterm(r) \/ Kill(r)
     \/ \E i \in Items : Appear(i) \/ Withdraw(i)
  /\ UNCHANGED serviceVars

(* What happens around the notifier: crashes, late answers, devices, TTL. *)
ServiceEnvironment ==
  /\ \/ \E h \in Handlers : Service!Kill(h) \/ Service!AckDeadline(h)
     \/ \E t \in Tokens : Service!Uninstall(t) \/ Service!RegisterFcmToken(t)
     \/ \E k \in Keys : Service!Reap(k)
  /\ UNCHANGED vars

PipelineNext ==
  \/ \E r \in Runs : JobStep(r)
  \/ \E h \in Handlers : HandlerStep(h)
  \/ SubscriptionStep
  \/ \E m \in Messages : Repeat(m)
  \/ JobEnvironment
  \/ ServiceEnvironment

PipelineSpec == PipelineInit /\ [][PipelineNext]_pipelineVars

(* A run under way, a handler under way and the subscription make progress. *)
PipelineFairness ==
  /\ \A r \in Runs : WF_pipelineVars(JobStep(r))
  /\ \A h \in Handlers : WF_pipelineVars(HandlerStep(h))
  /\ WF_pipelineVars(SubscriptionStep)

FairPipelineSpec == PipelineSpec /\ PipelineFairness

-----------------------------------------------------------------------------
(* A message of the event of k is on the topic, or was. *)
Announced(k) == \E m \in Messages : m.key = k /\ status[m] # "unpublished"

(* Whoever is notified and opens the app finds the incident: nobody is      *)
(* pushed an event that is not in the CMS.                                  *)
PushedIsStored ==
  \A k \in Keys, u \in Users : pushes[k][u] > 0 => cms[k] # <<>>

(* However runs overlap and messages are repeated, the two together tell    *)
(* each user once, of incidents that are registered for good.               *)
Notice == INSTANCE IncidentNotice WITH
            stored <- {k \in Keys : cms[k] # <<>>},
            told <- pushes
ImplementsNotice == Notice!Spec

(* u wants to hear of the incident as the CMS has it. *)
Wants(u, k) ==
  \A i \in Items, n \in DOMAIN cms[k] : KeyOf[i] = k =>
    Service!Covers(u, cms[k][n].country, InfoType[i])

(* Runs in turn: a user is pushed only what he wants, as the CMS shows it   *)
(* (a position the geocoder attributed to another country is not announced  *)
(* under the old one).                                                      *)
PushedIsWanted ==
  \A k \in Keys, u \in Users : pushes[k][u] > 0 => Wants(u, k)

(* The work that is left for the event of k, or the failure that ended it.  *)
Underway(k) ==
  \/ \E r \in Runs, i \in Items : KeyOf[i] = k /\ work[r][i] = "publish"
  \/ \E m \in Messages : m.key = k /\ status[m] = "outstanding"
  \/ \E h \in Handlers : Service!Claimant(h, k)

GivenUp(k, u) ==
  \/ lost[k] # {}
  \/ unreached[k]
  \/ fate[k][u] = "failed"
  \/ \E m \in Messages : m.key = k /\ status[m] = "dead"

(* Runs in turn: an incident of the CMS has reached a device of everyone    *)
(* who wants it and can be reached, or it is on its way, or one of the      *)
(* recorded failures stopped it.  (The marker's expiry ends the account.)   *)
StoredIsDelivered ==
  \A k \in Keys, u \in Users :
    cms[k] # <<>> /\ mark[k] # "reaped" /\ Service!Reachable(u) /\ Wants(u, k) =>
      Underway(k) \/ fate[k][u] = "reached" \/ GivenUp(k, u)

(* And what is on its way arrives. *)
StoredIsDeliveredInTheEnd ==
  \A k \in Keys, u \in Users :
    cms[k] # <<>> /\ mark[k] # "reaped" /\ Service!Reachable(u) /\ Wants(u, k) ~>
      fate[k][u] = "reached" \/ GivenUp(k, u) \/ ~Service!Reachable(u)
=============================================================================
