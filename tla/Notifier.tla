------------------------------ MODULE Notifier ------------------------------
(***************************************************************************)
(* The notifier service: a Pub/Sub push subscription delivers each message *)
(* to an HTTP handler, which decodes it, claims its key_cd in Firestore    *)
(* (dedup), resolves the subscribers, sends one FCM multicast per user in  *)
(* parallel, strips the tokens FCM declared dead, and answers 200, 400 or  *)
(* 500.  Several requests run at once, on one instance or on several: the  *)
(* model has one process per request slot, and one step per call that      *)
(* leaves the process, so that everything else may happen in between.      *)
(*                                                                         *)
(* Pub/Sub is external: at-least-once, a push is repeated when the answer  *)
(* is not 200, is late or is lost, until MaxAttempts, then dead-lettered.  *)
(***************************************************************************)
EXTENDS Naturals, FiniteSets

CONSTANTS
  Messages,      (* Pub/Sub messages; two of them may carry the same event  *)
  Keys,          (* key_cd values                                           *)
  KeyOf,         (* [Messages -> Keys]                                      *)
  Country,       (* [Messages -> country codes]                             *)
  InfoType,      (* [Messages -> info types]                                *)
  Users,         (* uids                                                    *)
  PrefOf,        (* [Users -> notification_preference]                      *)
  Tokens,        (* FCM registration tokens                                 *)
  Owner,         (* [Tokens -> Users], the account the device is logged in  *)
  InitTokens,    (* the tokens registered in Firestore at the start         *)
  Handlers,      (* request slots, over all instances                       *)
  Concurrency,   (* NOTIFIER_FCM_CONCURRENCY, the errgroup limit            *)
  MaxAttempts,   (* dead_letter_policy.max_delivery_attempts                *)
  Faults,        (* the failures that may happen                            *)
  None           (* no message                                              *)

FaultKinds ==
  { "malformed",  (* a message the decoder rejects is published             *)
    "read",       (* the request body cannot be read                        *)
    "mark",       (* the dedup transaction fails and is rolled back         *)
    "commit",     (* the dedup transaction commits and its answer is lost   *)
    "resolve",    (* the subscriber query fails                             *)
    "send",       (* a whole multicast call fails                           *)
    "transient",  (* FCM refuses one token for a transient reason           *)
    "cleanup",    (* the ArrayRemove of dead tokens fails                   *)
    "kill",       (* the instance dies, or shuts down past its grace period *)
    "deadline",   (* the 60s ack deadline passes before the answer          *)
    "ackloss",    (* Pub/Sub does not see a 200                             *)
    "duplicate" } (* a message is pushed again before its push is answered  *)

ASSUME NotifierAssumption ==
  /\ KeyOf \in [Messages -> Keys]
  /\ Owner \in [Tokens -> Users]
  /\ InitTokens \subseteq Tokens
  /\ IsFiniteSet(Tokens)
  /\ Concurrency \in Nat \ {0}
  /\ MaxAttempts \in Nat \ {0}
  /\ Faults \subseteq FaultKinds
  /\ None \notin Messages

VARIABLES
  (* Pub/Sub *)
  status,    (* [Messages -> unpublished, outstanding, acked, dead]         *)
  attempts,  (* [Messages -> number of pushes so far]                       *)
  malformed, (* the published messages that the decoder rejects             *)
  (* one request per handler *)
  pc,        (* where the handler is                                        *)
  job,       (* the message it was pushed                                   *)
  waiting,   (* Pub/Sub still waits for its answer                          *)
  code,      (* the HTTP status it will answer                              *)
  task,      (* the errgroup goroutine of each user                         *)
  snap,      (* the token list read for each user                           *)
  batch,     (* the outcome of each user, from FCM's answer to the cleanup  *)
  seen,      (* the DeliverResult as the goroutine of a user has read it    *)
  res,       (* the DeliverResult under aggregation                         *)
  (* Firestore and FCM *)
  mark,      (* [Keys -> absent, present, reaped]: notifier_dedup documents *)
  tokens,    (* [Users -> fcm_tokens]                                       *)
  alive,     (* the tokens FCM still accepts                                *)
  (* history *)
  pushes,    (* [Keys -> [Users -> calls of SendMulticast since the marker]] *)
  fate,      (* [Keys -> [Users -> what came of that call]], FateKinds      *)
  audience,  (* [Keys -> the subscribers the claimant resolved]             *)
  lost       (* [Keys -> the claimant failed before it reached them all]    *)

pubsub   == <<status, attempts, malformed>>
request  == <<pc, job, waiting, code>>
delivery == <<task, snap, batch, seen, res>>
history  == <<pushes, fate, audience, lost>>
vars == <<pubsub, request, delivery, mark, tokens, alive, history>>

(* Not called yet; FCM accepted one of the user's devices; it accepted none *)
(* and the whole call, or a refused device, could have been retried; it     *)
(* declared all of them dead.                                               *)
FateKinds == {"none", "reached", "failed", "gone"}

NoBatch == [success |-> 0, failure |-> 0, invalid |-> {}, removed |-> 0]
NoResult == [success |-> 0, failed |-> 0, invalidated |-> 0]

Init ==
  /\ status = [m \in Messages |-> "unpublished"]
  /\ attempts = [m \in Messages |-> 0]
  /\ malformed = {}
  /\ pc = [h \in Handlers |-> "idle"]
  /\ job = [h \in Handlers |-> None]
  /\ waiting = [h \in Handlers |-> FALSE]
  /\ code = [h \in Handlers |-> 0]
  /\ task = [h \in Handlers |-> [u \in Users |-> "none"]]
  /\ snap = [h \in Handlers |-> [u \in Users |-> {}]]
  /\ batch = [h \in Handlers |-> [u \in Users |-> NoBatch]]
  /\ seen = [h \in Handlers |-> [u \in Users |-> NoResult]]
  /\ res = [h \in Handlers |-> NoResult]
  /\ mark = [k \in Keys |-> "absent"]
  /\ tokens = [u \in Users |-> {t \in InitTokens : Owner[t] = u}]
  /\ alive = Tokens
  /\ pushes = [k \in Keys |-> [u \in Users |-> 0]]
  /\ fate = [k \in Keys |-> [u \in Users |-> "none"]]
  /\ audience = [k \in Keys |-> {}]
  /\ lost = [k \in Keys |-> FALSE]

Key(h) == KeyOf[job[h]]
Goto(h, label) == pc' = [pc EXCEPT ![h] = label]

(* Variant: the error is logged and the push acknowledged. *)
ErrorStatusIgnored == 200

(* Push's answer when Execute, or reading the body, returned an error. *)
ErrorStatus == 500

(* A call of the handler may fail.  The calls use the request's context,    *)
(* which is cancelled when Pub/Sub gives up on the request.                 *)
Fails(h, call) == call \in Faults \/ ~waiting[h]

(* The handler has decided its HTTP status. *)
Reply(h, c) ==
  /\ Goto(h, "reply")
  /\ code' = [code EXCEPT ![h] = c]

(* The request is over: everything it held in memory is gone. *)
Release(h) ==
  /\ Goto(h, "idle")
  /\ job' = [job EXCEPT ![h] = None]
  /\ waiting' = [waiting EXCEPT ![h] = FALSE]
  /\ code' = [code EXCEPT ![h] = 0]
  /\ task' = [task EXCEPT ![h] = [u \in Users |-> "none"]]
  /\ snap' = [snap EXCEPT ![h] = [u \in Users |-> {}]]
  /\ batch' = [batch EXCEPT ![h] = [u \in Users |-> NoBatch]]
  /\ seen' = [seen EXCEPT ![h] = [u \in Users |-> NoResult]]
  /\ res' = [res EXCEPT ![h] = NoResult]

-----------------------------------------------------------------------------
(* The push subscription (external). *)

InFlight(m) == \E h \in Handlers : job[h] = m /\ waiting[h]

Publish(m) ==
  /\ status[m] = "unpublished"
  /\ status' = [status EXCEPT ![m] = "outstanding"]
  /\ \/ UNCHANGED malformed
     \/ "malformed" \in Faults /\ malformed' = malformed \cup {m}
  /\ UNCHANGED <<attempts, request, delivery, mark, tokens, alive, history>>

Deliver(m, h) ==
  /\ status[m] = "outstanding"
  /\ attempts[m] < MaxAttempts
  /\ InFlight(m) => "duplicate" \in Faults
  /\ pc[h] = "idle"
  /\ attempts' = [attempts EXCEPT ![m] = @ + 1]
  /\ Goto(h, "push")
  /\ job' = [job EXCEPT ![h] = m]
  /\ waiting' = [waiting EXCEPT ![h] = TRUE]
  /\ UNCHANGED <<status, malformed, code, delivery, mark, tokens, alive, history>>

(* The handler runs on, but its answer will be ignored and its context is   *)
(* cancelled.                                                               *)
AckDeadline(h) ==
  /\ "deadline" \in Faults
  /\ waiting[h]
  /\ waiting' = [waiting EXCEPT ![h] = FALSE]
  /\ UNCHANGED <<pubsub, pc, job, code, delivery, mark, tokens, alive, history>>

DeadLetter(m) ==
  /\ status[m] = "outstanding"
  /\ attempts[m] = MaxAttempts
  /\ ~InFlight(m)
  /\ status' = [status EXCEPT ![m] = "dead"]
  /\ UNCHANGED <<attempts, malformed, request, delivery, mark, tokens, alive, history>>

-----------------------------------------------------------------------------
(* The request handler. *)

(* NotifierHandler.Push up to Execute: read the body, decode the envelope. *)
Push(h) ==
  /\ pc[h] = "push"
  /\ \/ Fails(h, "read") /\ Reply(h, ErrorStatus)
     \/ job[h] \in malformed /\ Reply(h, 400)
     \/ job[h] \notin malformed /\ Goto(h, "dedup") /\ UNCHANGED code
  /\ UNCHANGED <<pubsub, job, waiting, delivery, mark, tokens, alive, history>>

(* Variant: the check does not see the marker of a delivery under way. *)
AlreadySeenUnlocked(k) ==
  mark[k] = "present" /\ \A h \in Handlers : pc[h] \notin {"resolve", "deliver"}

(* A marker document exists; its expireAt is never looked at. *)
AlreadySeen(k) == mark[k] = "present"

(* Variant: the transaction reads and forgets to write. *)
MarkedNever(k) == mark

Marked(k) == [mark EXCEPT ![k] = "present"]

(* FirestoreDedup.CheckAndMark, one Firestore transaction, and the branch   *)
(* Execute takes on its outcome.                                            *)
CheckAndMark(h) ==
  LET k == Key(h) IN
  /\ pc[h] = "dedup"
  /\ \/ /\ AlreadySeen(k)
        /\ Reply(h, 200)
        /\ UNCHANGED <<mark, lost>>
     \/ /\ ~AlreadySeen(k)
        /\ mark' = Marked(k)
        /\ Goto(h, "resolve")
        /\ UNCHANGED <<code, lost>>
     \/ /\ Fails(h, "mark")
        /\ Reply(h, ErrorStatus)
        /\ UNCHANGED <<mark, lost>>
     \/ /\ Fails(h, "commit")
        /\ ~AlreadySeen(k)
        /\ mark' = Marked(k)
        /\ lost' = [lost EXCEPT ![k] = TRUE]
        /\ Reply(h, ErrorStatus)
  /\ UNCHANGED <<pubsub, job, waiting, delivery, tokens, alive, pushes, fate, audience>>

(* Variant: an empty list means no type. *)
WantsListedType(pref, type) == type \in pref.types

(* An empty info_types list means every type. *)
WantsInfoType(pref, type) == pref.types = {} \/ type \in pref.types

(* Variant: the query forgets the country. *)
FindSubscribersAnywhere(m) ==
  {u \in Users : /\ PrefOf[u].enabled
                 /\ WantsInfoType(PrefOf[u], InfoType[m])
                 /\ tokens[u] # {}}

(* Users without a token are skipped. *)
FindSubscribers(m) ==
  {u \in Users : /\ PrefOf[u].enabled
                 /\ Country[m] \in PrefOf[u].countries
                 /\ WantsInfoType(PrefOf[u], InfoType[m])
                 /\ tokens[u] # {}}

ResolveSubscribers(h) ==
  LET k == Key(h)
      subs == FindSubscribers(job[h])
  IN
  /\ pc[h] = "resolve"
  /\ \/ /\ Fails(h, "resolve")
        /\ lost' = [lost EXCEPT ![k] = TRUE]
        /\ Reply(h, ErrorStatus)
        /\ UNCHANGED <<task, snap, audience>>
     \/ /\ subs = {}
        /\ Reply(h, 200)
        /\ UNCHANGED <<task, snap, audience, lost>>
     \/ /\ subs # {}
        /\ task' = [task EXCEPT ![h] = [u \in Users |->
                      IF u \in subs THEN "queued" ELSE "none"]]
        /\ snap' = [snap EXCEPT ![h] = [u \in Users |->
                      IF u \in subs THEN tokens[u] ELSE {}]]
        /\ audience' = [audience EXCEPT ![k] = subs]
        /\ Goto(h, "deliver")
        /\ UNCHANGED <<code, lost>>
  /\ UNCHANGED <<pubsub, job, waiting, batch, seen, res, mark, tokens, alive, pushes, fate>>

(* The goroutines that hold one of the errgroup's slots between two steps. *)
Running(h) == {u \in Users : task[h][u] \in {"cleanup", "count", "add"}}

(* BatchResult.FailureCount: the tokens refused for either reason. *)
FailureCount(refused, invalid) == Cardinality(refused \cup invalid)

FateOf(accepted, refused) ==
  IF accepted # {} THEN "reached" ELSE IF refused # {} THEN "failed" ELSE "gone"

(* deliverToUser up to FCM's answer.  The call as a whole fails, or is made *)
(* under a cancelled context and never leaves the process; or FCM answers:  *)
(* it may refuse any token for a transient reason, and of the others it     *)
(* accepts the live ones and declares the dead ones invalid.                *)
SendMulticast(h, u) ==
  LET list == snap[h][u]
      Outcome(success, failure, invalid) ==
        batch' = [batch EXCEPT ![h][u] =
          [success |-> success, failure |-> failure, invalid |-> invalid, removed |-> 0]]
  IN
  /\ pc[h] = "deliver"
  /\ task[h][u] = "queued"
  /\ Cardinality(Running(h)) < Concurrency
  /\ pushes' = [pushes EXCEPT ![Key(h)][u] = @ + 1]
  /\ \/ /\ Fails(h, "send")
        /\ fate' = [fate EXCEPT ![Key(h)][u] = "failed"]
        /\ Outcome(0, Cardinality(list), {})
        /\ task' = [task EXCEPT ![h][u] = "count"]
     \/ \E refused \in SUBSET list :
        LET invalid == (list \ alive) \ refused
            failure == FailureCount(refused, invalid)
        IN
        /\ refused # {} => Fails(h, "transient")
        /\ fate' = [fate EXCEPT ![Key(h)][u] =
                      FateOf((list \cap alive) \ refused, refused)]
        /\ Outcome(Cardinality(list) - failure, failure, invalid)
        /\ task' = [task EXCEPT ![h][u] = IF invalid = {} THEN "count" ELSE "cleanup"]
  /\ UNCHANGED <<pubsub, request, snap, seen, res, mark, tokens, alive, audience, lost>>

(* Variant: the array read by the query is written back without the values. *)
ArrayOverwrite(h, u) == snap[h][u] \ batch[h][u].invalid

(* Firestore ArrayRemove: the listed values leave the array as it is now. *)
ArrayRemove(h, u) == tokens[u] \ batch[h][u].invalid

(* The rest of deliverToUser; a failed removal is logged and not counted.  *)
RemoveInvalidTokens(h, u) ==
  /\ pc[h] = "deliver"
  /\ task[h][u] = "cleanup"
  /\ task' = [task EXCEPT ![h][u] = "count"]
  /\ \/ Fails(h, "cleanup") /\ UNCHANGED <<batch, tokens>>
     \/ /\ tokens' = [tokens EXCEPT ![u] = ArrayRemove(h, u)]
        /\ batch' = [batch EXCEPT ![h][u].removed = Cardinality(batch[h][u].invalid)]
  /\ UNCHANGED <<pubsub, request, snap, seen, res, mark, alive, history>>

(* Variant: the goroutines share the result without a mutex. *)
MutexMissing(h) == TRUE

(* Variant: the goroutine returns without mu.Unlock. *)
MutexKept(h) == \A u \in Users : task[h][u] \notin {"add", "done"}

(* No goroutine of the push is between mu.Lock and mu.Unlock. *)
MutexFree(h) == \A u \in Users : task[h][u] # "add"

(* deliverToUser has returned: mu.Lock, and the three += read the result.  *)
LockResult(h, u) ==
  /\ pc[h] = "deliver"
  /\ task[h][u] = "count"
  /\ MutexFree(h)
  /\ task' = [task EXCEPT ![h][u] = "add"]
  /\ seen' = [seen EXCEPT ![h][u] = res[h]]
  /\ UNCHANGED <<pubsub, request, snap, batch, res, mark, tokens, alive, history>>

(* The three += write what they read and the outcome; mu.Unlock; the        *)
(* goroutine ends and its locals are gone.                                  *)
AddOutcome(h, u) ==
  LET b == batch[h][u] IN
  /\ pc[h] = "deliver"
  /\ task[h][u] = "add"
  /\ res' = [res EXCEPT ![h] =
       [success     |-> seen[h][u].success + b.success,
        failed      |-> seen[h][u].failed + b.failure,
        invalidated |-> seen[h][u].invalidated + b.removed]]
  /\ task' = [task EXCEPT ![h][u] = "done"]
  /\ batch' = [batch EXCEPT ![h][u] = NoBatch]
  /\ seen' = [seen EXCEPT ![h][u] = NoResult]
  /\ UNCHANGED <<pubsub, request, snap, mark, tokens, alive, history>>

AllDone(h) == \A u \in Users : task[h][u] \in {"none", "done"}

(* errgroup.Wait returns; no failure of a user reaches the answer. *)
WaitAll(h) ==
  /\ pc[h] = "deliver"
  /\ AllDone(h)
  /\ Reply(h, 200)
  /\ UNCHANGED <<pubsub, job, waiting, delivery, mark, tokens, alive, history>>

(* The answer leaves the handler; Pub/Sub acks on a 200 it still waits for. *)
Respond(h) ==
  /\ pc[h] = "reply"
  /\ \/ /\ code[h] = 200
        /\ waiting[h]
        /\ status' = [status EXCEPT ![job[h]] = "acked"]
     \/ /\ code[h] # 200 \/ ~waiting[h] \/ "ackloss" \in Faults
        /\ UNCHANGED status
  /\ Release(h)
  /\ UNCHANGED <<attempts, malformed, mark, tokens, alive, history>>

(* The claimant of a key has work left that no other request will do. *)
Unfinished(h) ==
  \/ pc[h] = "resolve"
  \/ pc[h] = "deliver" /\ \E u \in Users : task[h][u] = "queued"

(* The process goes away under the request, which Pub/Sub sees as a failure. *)
Kill(h) ==
  /\ "kill" \in Faults
  /\ pc[h] # "idle"
  /\ lost' = IF Unfinished(h) THEN [lost EXCEPT ![Key(h)] = TRUE] ELSE lost
  /\ Release(h)
  /\ UNCHANGED <<pubsub, mark, tokens, alive, pushes, fate, audience>>

-----------------------------------------------------------------------------
(* The environment. *)

(* The app is removed from the device: FCM will not accept the token again. *)
Uninstall(t) ==
  /\ t \in alive
  /\ alive' = alive \ {t}
  /\ UNCHANGED <<pubsub, request, delivery, mark, tokens, history>>

(* The BFF's RegisterFcmToken: an ArrayUnion by another process. *)
RegisterFcmToken(t) ==
  /\ t \in alive
  /\ t \notin tokens[Owner[t]]
  /\ tokens' = [tokens EXCEPT ![Owner[t]] = @ \cup {t}]
  /\ UNCHANGED <<pubsub, request, delivery, mark, alive, history>>

(* Firestore's TTL policy deletes the marker.  24h exceed the life of a     *)
(* message (MaxAttempts pushes of at most 60s, 600s apart), so no push of   *)
(* the event is under way.                                                  *)
Reap(k) ==
  /\ mark[k] = "present"
  /\ \A m \in Messages : KeyOf[m] = k => status[m] # "outstanding"
  /\ \A h \in Handlers : job[h] # None => Key(h) # k
  /\ mark' = [mark EXCEPT ![k] = "reaped"]
  /\ pushes' = [pushes EXCEPT ![k] = [u \in Users |-> 0]]
  /\ fate' = [fate EXCEPT ![k] = [u \in Users |-> "none"]]
  /\ audience' = [audience EXCEPT ![k] = {}]
  /\ lost' = [lost EXCEPT ![k] = FALSE]
  /\ UNCHANGED <<pubsub, request, delivery, tokens, alive>>

-----------------------------------------------------------------------------
HandlerStep(h) ==
  \/ Push(h)
  \/ CheckAndMark(h)
  \/ ResolveSubscribers(h)
  \/ \E u \in Users : \/ SendMulticast(h, u)
                     \/ RemoveInvalidTokens(h, u)
                     \/ LockResult(h, u)
                     \/ AddOutcome(h, u)
  \/ WaitAll(h)
  \/ Respond(h)

SubscriptionStep ==
  \E m \in Messages : DeadLetter(m) \/ \E h \in Handlers : Deliver(m, h)

Next ==
  \/ \E h \in Handlers : HandlerStep(h) \/ Kill(h) \/ AckDeadline(h)
  \/ SubscriptionStep
  \/ \E m \in Messages : Publish(m)
  \/ \E t \in Tokens : Uninstall(t) \/ RegisterFcmToken(t)
  \/ \E k \in Keys : Reap(k)

Spec == Init /\ [][Next]_vars

(* A handler that runs makes progress, and Pub/Sub pushes what it holds.    *)
(* Publishing, crashes, late answers, devices and the TTL are not fair.     *)
Fairness ==
  /\ \A h \in Handlers : WF_vars(HandlerStep(h))
  /\ WF_vars(SubscriptionStep)

FairSpec == Spec /\ Fairness

-----------------------------------------------------------------------------
PubSubTypeOK ==
  /\ status \in [Messages -> {"unpublished", "outstanding", "acked", "dead"}]
  /\ attempts \in [Messages -> 0..MaxAttempts]
  /\ malformed \in SUBSET Messages

RequestTypeOK ==
  /\ pc \in [Handlers -> {"idle", "push", "dedup", "resolve", "deliver", "reply"}]
  /\ job \in [Handlers -> Messages \cup {None}]
  /\ waiting \in [Handlers -> BOOLEAN]
  /\ code \in [Handlers -> {0, 200, 400, 500}]

DeliveryTypeOK ==
  /\ task \in [Handlers -> [Users -> {"none", "queued", "cleanup", "count", "add", "done"}]]
  /\ snap \in [Handlers -> [Users -> SUBSET Tokens]]
  /\ batch \in [Handlers -> [Users ->
       [success : Nat, failure : Nat, invalid : SUBSET Tokens, removed : Nat]]]
  /\ seen \in [Handlers -> [Users ->
       [success : Nat, failed : Nat, invalidated : Nat]]]
  /\ res \in [Handlers -> [success : Nat, failed : Nat, invalidated : Nat]]

StoreTypeOK ==
  /\ mark \in [Keys -> {"absent", "present", "reaped"}]
  /\ tokens \in [Users -> SUBSET Tokens]
  /\ alive \in SUBSET Tokens

HistoryTypeOK ==
  /\ pushes \in [Keys -> [Users -> Nat]]
  /\ fate \in [Keys -> [Users -> FateKinds]]
  /\ audience \in [Keys -> SUBSET Users]
  /\ lost \in [Keys -> BOOLEAN]

(* Every variable stays within its type; in particular no count goes        *)
(* negative (DeliverResult, BatchResult).                                   *)
TypeOK ==
  /\ PubSubTypeOK
  /\ RequestTypeOK
  /\ DeliveryTypeOK
  /\ StoreTypeOK
  /\ HistoryTypeOK

(* Between the commit of the marker and the end of the deliveries. *)
Claimant(h, k) ==
  /\ pc[h] \in {"resolve", "deliver"}
  /\ Key(h) = k

(* NFR-NTF-REL-01: however often the message is pushed, to however many     *)
(* requests at once, FCM is called at most once for a user and an event     *)
(* while its marker lives, calls that fail included.                        *)
NoDoublePush == \A k \in Keys, u \in Users : pushes[k][u] <= 1

(* The preference of u covers an event of this country and type. *)
Covers(u, country, type) ==
  /\ PrefOf[u].enabled
  /\ country \in PrefOf[u].countries
  /\ PrefOf[u].types # {} => type \in PrefOf[u].types

(* u has had, since before anything was published, a token FCM accepts. *)
Reachable(u) == \E t \in InitTokens \cap alive : Owner[t] = u

(* u asked for the event of k, whichever of its messages is read. *)
Expects(u, k) ==
  /\ Reachable(u)
  /\ \A m \in Messages : KeyOf[m] = k /\ status[m] # "unpublished" =>
       Covers(u, Country[m], InfoType[m])

(* A 200 that ends a well-formed message is honest unless the claimant of   *)
(* its key failed: the event was claimed, and its claimant is still at work *)
(* or has called FCM for every subscriber it resolved and everyone who      *)
(* expects the event.  Of the latter it reached a device, or the send       *)
(* failed: nothing retries such a send, also when it failed because the ack *)
(* deadline had passed in mid-delivery.  (The marker is written before the  *)
(* work is done, so a duplicate may be acked early.)                        *)
AckedAccountedFor ==
  \A m \in Messages \ malformed :
    LET k == KeyOf[m] IN
    status[m] = "acked" /\ mark[k] # "reaped" =>
      /\ mark[k] = "present"
      /\ \/ lost[k]
         \/ \E h \in Handlers : Claimant(h, k)
         \/ \A u \in Users :
              /\ u \in audience[k] => fate[k][u] # "none"
              /\ Expects(u, k) => fate[k][u] \in {"reached", "failed"}

(* The counters aggregated by the concurrent goroutines add up when the     *)
(* handler answers: every token of every recipient is counted once, and a   *)
(* delivery that was not complete shows it in its failures, since the 200   *)
(* does not ("FCM partial failures are recorded but the overall call still  *)
(* returns nil").                                                           *)
ResultAccounts ==
  \A h \in Handlers : pc[h] = "reply" /\ code[h] = 200 =>
    /\ res[h].success + res[h].failed = Cardinality(UNION {snap[h][u] : u \in Users})
    /\ res[h].invalidated <= res[h].failed
    /\ res[h].failed = 0 =>
         \A u \in Users : snap[h][u] # {} => fate[Key(h)][u] = "reached"

(* Removing dead tokens never costs a user a token FCM still accepts, even  *)
(* one the BFF registers between the query and the removal ("concurrent     *)
(* writes from U-BFF (adding new tokens) are safe").                        *)
LiveTokensKept == [][\A u \in Users : (tokens[u] \ tokens'[u]) \cap alive = {}]_tokens

(* The notifier implements the abstract contract. *)
Contract == INSTANCE AtMostOncePush WITH
              claimed <- [k \in Keys |-> mark[k] = "present"]
ImplementsContract == Contract!Spec

(* Every published message is acknowledged or dead-lettered in the end. *)
MessagesSettle ==
  \A m \in Messages :
    status[m] = "outstanding" ~> status[m] \in {"acked", "dead"}

(* An event reaches a device of everyone who expects it, or is              *)
(* dead-lettered, unless the one request that claimed it failed before it   *)
(* had sent to all, or its send to that user failed.                        *)
ReachesSubscribers ==
  \A m \in Messages, u \in Users :
    LET k == KeyOf[m] IN
    status[m] = "outstanding" /\ m \notin malformed /\ Expects(u, k)
      ~> \/ fate[k][u] = "reached"
         \/ fate[k][u] = "failed" \/ lost[k] \/ status[m] = "dead"
         \/ ~Expects(u, k)

-----------------------------------------------------------------------------
(* What the documentation says and the code does not do. *)

(* "Transient error (dedup/users SDK failure) -> 500, Pub/Sub retries": a   *)
(* message is not acknowledged when the one request that claimed its event  *)
(* met such an error and left the work undone.                              *)
TransientFailureIsRetried ==
  \A m \in Messages \ malformed : status[m] = "acked" => ~lost[KeyOf[m]]
=============================================================================
