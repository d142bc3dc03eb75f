--------------------------- MODULE PipelineProofs ----------------------------
(***************************************************************************)
(* The pipeline, for any rows, runs, handlers, users and messages: it does *)
(* only what its two parts do (the projections), whoever is pushed finds   *)
(* the incident in the CMS, and, when runs take turns and the feed lists a *)
(* key_cd once, users are pushed what they asked for as the CMS has it,    *)
(* and nothing that was registered is forgotten on its way to them.        *)
(*                                                                         *)
(* The argument.  What is proved of the job and of the notifier holds here *)
(* because of the projections.  Two invariants join their states: an event *)
(* is on the topic if and only if the job announced it (Topic), and every  *)
(* message carries the country and the type of the incident as it is       *)
(* stored (AsStored), which is where runs in turn are needed: a second     *)
(* run's geocoding could overwrite what the first one announced.           *)
(*                                                                         *)
(* Notifier is instantiated twice with the same substitution, as Service   *)
(* and, with its theorems, as Proved; the first section says that the two  *)
(* are one.                                                                *)
(***************************************************************************)
EXTENDS Pipeline, IngestionProofs

Proved == INSTANCE NotifierProofs WITH
            malformed <- {},
            KeyOf <- [m \in Messages |-> m.key],
            Country <- [m \in Messages |-> m.country],
            InfoType <- [m \in Messages |-> m.type],
            Concurrency <- FcmConcurrency,
            Faults <- ServiceFaults,
            res <- delivered,
            lost <- unreached

-----------------------------------------------------------------------------
(* Service and Proved are the same notifier. *)

(* What the notifier assumes of its constants is assumed of the pipeline's. *)
LEMMA ServiceAssumed == Proved!NotifierAssumption
<1>1. [m \in Messages |-> m.key] \in [Messages -> Keys]
  BY DEF Messages
<1>2. Proved!IsFiniteSet(Tokens)
  BY PipelineAssumption DEF IsFiniteSet, Proved!IsFiniteSet
<1>3. ServiceFaults \subseteq Proved!FaultKinds
  BY PipelineAssumption DEF Service!FaultKinds, Proved!FaultKinds
<1> QED
  BY <1>1, <1>2, <1>3, PipelineAssumption DEF Proved!NotifierAssumption

LEMMA SameInit == Service!Init => Proved!Init
BY DEF Service!Init, Proved!Init, Service!NoBatch, Proved!NoBatch,
       Service!NoResult, Proved!NoResult

LEMMA SameStep == [Service!Next]_(Service!vars) => [Proved!Next]_(Proved!vars)
<1> USE DEF Service!pubsub, Proved!pubsub, Service!request, Proved!request,
            Service!delivery, Proved!delivery, Service!history, Proved!history,
            Service!Key, Proved!Key, Service!Goto, Proved!Goto, Service!Reply, Proved!Reply,
            Service!Release, Proved!Release, Service!NoBatch, Proved!NoBatch,
            Service!NoResult, Proved!NoResult, Service!Fails, Proved!Fails
<1>1. ASSUME NEW m \in Messages, Service!Publish(m) PROVE Proved!Publish(m)
  BY <1>1 DEF Service!Publish, Proved!Publish
<1>2. ASSUME NEW m \in Messages, NEW h \in Handlers, Service!Deliver(m, h)
      PROVE  Proved!Deliver(m, h)
  BY <1>2 DEF Service!Deliver, Proved!Deliver, Service!InFlight, Proved!InFlight
<1>3. ASSUME NEW m \in Messages, Service!DeadLetter(m) PROVE Proved!DeadLetter(m)
  BY <1>3 DEF Service!DeadLetter, Proved!DeadLetter, Service!InFlight, Proved!InFlight
<1>4. ASSUME NEW h \in Handlers, Service!AckDeadline(h) PROVE Proved!AckDeadline(h)
  BY <1>4 DEF Service!AckDeadline, Proved!AckDeadline
<1>5. ASSUME NEW h \in Handlers, Service!Push(h) PROVE Proved!Push(h)
  BY <1>5 DEF Service!Push, Proved!Push, Service!ErrorStatus, Proved!ErrorStatus
<1>6. ASSUME NEW h \in Handlers, Service!CheckAndMark(h) PROVE Proved!CheckAndMark(h)
  BY <1>6 DEF Service!CheckAndMark, Proved!CheckAndMark, Service!AlreadySeen,
              Proved!AlreadySeen, Service!Marked, Proved!Marked,
              Service!ErrorStatus, Proved!ErrorStatus
<1>7. ASSUME NEW h \in Handlers, Service!ResolveSubscribers(h)
      PROVE  Proved!ResolveSubscribers(h)
  BY <1>7 DEF Service!ResolveSubscribers, Proved!ResolveSubscribers,
              Service!FindSubscribers, Proved!FindSubscribers, Service!WantsInfoType,
              Proved!WantsInfoType, Service!ErrorStatus, Proved!ErrorStatus
<1>8. ASSUME NEW h \in Handlers, NEW u \in Users, Service!SendMulticast(h, u)
      PROVE  Proved!SendMulticast(h, u)
  BY <1>8 DEF Service!SendMulticast, Proved!SendMulticast, Service!Running, Proved!Running,
              Service!FailureCount, Proved!FailureCount, Service!FateOf, Proved!FateOf,
              Service!Cardinality, Proved!Cardinality
<1>9. ASSUME NEW h \in Handlers, NEW u \in Users, Service!RemoveInvalidTokens(h, u)
      PROVE  Proved!RemoveInvalidTokens(h, u)
  BY <1>9 DEF Service!RemoveInvalidTokens, Proved!RemoveInvalidTokens,
              Service!ArrayRemove, Proved!ArrayRemove,
              Service!Cardinality, Proved!Cardinality
<1>9a. ASSUME NEW h \in Handlers, NEW u \in Users, Service!LockResult(h, u)
       PROVE  Proved!LockResult(h, u)
  BY <1>9a DEF Service!LockResult, Proved!LockResult, Service!MutexFree, Proved!MutexFree
<1>9b. ASSUME NEW h \in Handlers, NEW u \in Users, Service!AddOutcome(h, u)
       PROVE  Proved!AddOutcome(h, u)
  BY <1>9b DEF Service!AddOutcome, Proved!AddOutcome
<1>10. ASSUME NEW h \in Handlers, Service!WaitAll(h) PROVE Proved!WaitAll(h)
  BY <1>10 DEF Service!WaitAll, Proved!WaitAll, Service!AllDone, Proved!AllDone
<1>11. ASSUME NEW h \in Handlers, Service!Respond(h) PROVE Proved!Respond(h)
  BY <1>11 DEF Service!Respond, Proved!Respond
<1>12. ASSUME NEW h \in Handlers, Service!Kill(h) PROVE Proved!Kill(h)
  BY <1>12 DEF Service!Kill, Proved!Kill, Service!Unfinished, Proved!Unfinished
<1>13. ASSUME NEW t \in Tokens, Service!Uninstall(t) PROVE Proved!Uninstall(t)
  BY <1>13 DEF Service!Uninstall, Proved!Uninstall
<1>14. ASSUME NEW t \in Tokens, Service!RegisterFcmToken(t) PROVE Proved!RegisterFcmToken(t)
  BY <1>14 DEF Service!RegisterFcmToken, Proved!RegisterFcmToken
<1>15. ASSUME NEW k \in Keys, Service!Reap(k) PROVE Proved!Reap(k)
  BY <1>15 DEF Service!Reap, Proved!Reap
<1>16. ASSUME NEW h \in Handlers, Service!HandlerStep(h) PROVE Proved!HandlerStep(h)
  BY <1>5, <1>6, <1>7, <1>8, <1>9, <1>9a, <1>9b, <1>10, <1>11, <1>16
     DEF Service!HandlerStep, Proved!HandlerStep
<1>17. Service!SubscriptionStep => Proved!SubscriptionStep
  BY <1>2, <1>3 DEF Service!SubscriptionStep, Proved!SubscriptionStep
<1>18. Service!Next => Proved!Next
  BY <1>1, <1>4, <1>12, <1>13, <1>14, <1>15, <1>16, <1>17 DEF Service!Next, Proved!Next
<1> QED
  BY <1>18 DEF Service!vars, Proved!vars

-----------------------------------------------------------------------------
(* The projections: the pipeline does what its two parts do. *)

LEMMA RepeatIsPublish ==
  ASSUME NEW m \in Messages, Repeat(m)
  PROVE  \E n \in Messages :
           /\ n.key = m.key /\ n.country = m.country /\ n.type = m.type
           /\ Service!Publish(n)
<1>1. PICK id \in Ids : Service!Publish([m EXCEPT !.id = id])
  BY DEF Repeat
<1>2. [m EXCEPT !.id = id] \in Messages
  BY DEF Messages
<1> QED
  BY <1>1, <1>2 DEF Messages

(* A step of the pipeline is a publish the notifier sees too, or a step of  *)
(* one of the parts while the other one rests.                              *)
LEMMA Interleaved ==
  ASSUME [PipelineNext]_pipelineVars
  PROVE  \/ \E r \in Runs, i \in Items : Announce(r, i)
         \/ [Next]_vars /\ UNCHANGED <<events, serviceVars>>
         \/ \E m \in Messages : Repeat(m)
         \/ /\ UNCHANGED vars
            /\ \/ \E h \in Handlers : \/ Service!HandlerStep(h)
                                       \/ Service!Kill(h)
                                       \/ Service!AckDeadline(h)
               \/ Service!SubscriptionStep
               \/ \E t \in Tokens : Service!Uninstall(t) \/ Service!RegisterFcmToken(t)
               \/ \E k \in Keys : Service!Reap(k)
<1>1. CASE UNCHANGED pipelineVars
  BY <1>1 DEF pipelineVars, vars, outside
<1>2. ASSUME NEW r \in Runs, JobStep(r)
      PROVE  \/ \E i \in Items : Announce(r, i)
             \/ Next /\ UNCHANGED <<events, serviceVars>>
  BY <1>2 DEF JobStep, Next
<1>3. CASE JobEnvironment
  BY <1>3 DEF JobEnvironment, Next, Start, Sigterm, Kill, Appear, Withdraw, outside
<1>4. CASE ServiceEnvironment
  BY <1>4 DEF ServiceEnvironment
<1> QED
  BY <1>1, <1>2, <1>3, <1>4 DEF PipelineNext, HandlerStep, SubscriptionStep

LEMMA JobPartStep == [PipelineNext]_pipelineVars => [Next]_vars
<1> SUFFICES ASSUME [PipelineNext]_pipelineVars PROVE [Next]_vars
  OBVIOUS
<1>1. ASSUME NEW r \in Runs, NEW i \in Items, Announce(r, i) PROVE Next
  BY <1>1 DEF Announce, Next, RunStep, RowStep
<1>2. ASSUME NEW m \in Messages, Repeat(m) PROVE UNCHANGED vars
  BY <1>2 DEF Repeat
<1> QED
  BY <1>1, <1>2, Interleaved

LEMMA ServicePartStep == [PipelineNext]_pipelineVars => [Service!Next]_(Service!vars)
<1> SUFFICES ASSUME [PipelineNext]_pipelineVars PROVE [Service!Next]_(Service!vars)
  OBVIOUS
<1>1. ASSUME NEW m \in Messages, Service!Publish(m) PROVE Service!Next
  BY <1>1 DEF Service!Next
<1>2. UNCHANGED serviceVars => UNCHANGED Service!vars
  BY DEF serviceVars, Service!vars, Service!pubsub, Service!request, Service!delivery,
         Service!history
<1>3. ASSUME NEW r \in Runs, NEW i \in Items, Announce(r, i) PROVE Service!Next
  BY <1>1, <1>3 DEF Announce
<1>4. ASSUME NEW m \in Messages, Repeat(m) PROVE Service!Next
  BY <1>1, <1>4, RepeatIsPublish
<1> QED
  BY <1>2, <1>3, <1>4, Interleaved DEF Service!Next

(* Joined to the notifier, the job still is the job.                        *)
THEOREM JobPart == PipelineSpec => Spec
BY JobPartStep, PTL DEF PipelineSpec, PipelineInit, Spec

(* Fed by the job, the notifier still is the notifier.                      *)
THEOREM ServicePart == PipelineSpec => Service!Spec
BY ServicePartStep, PTL DEF PipelineSpec, PipelineInit, Service!Spec

LEMMA ProvedPart == PipelineSpec => Proved!Spec
<1>1. PipelineInit => Proved!Init
  BY SameInit DEF PipelineInit
<1>2. [PipelineNext]_pipelineVars => [Proved!Next]_(Proved!vars)
  BY ServicePartStep, SameStep
<1> QED
  BY <1>1, <1>2, PTL DEF PipelineSpec, Proved!Spec

(* However often runs overlap and a notice is announced, whatever Pub/Sub   *)
(* repeats: one push per incident and user while the marker lives.          *)
THEOREM OnePushPerIncident == PipelineSpec => []Service!NoDoublePush
<1>1. Proved!Spec => []Proved!NoDoublePush
  BY ServiceAssumed, Proved!AtMostOnce
<1>2. Proved!NoDoublePush => Service!NoDoublePush
  BY DEF Proved!NoDoublePush, Service!NoDoublePush
<1> QED
  BY <1>1, <1>2, ProvedPart, PTL

-----------------------------------------------------------------------------
(* What joins the two. *)

(* What is proved of each part. *)
Ingesting == TypeOK /\ Announcing
Notifying == Proved!TypeOK /\ Proved!Busy /\ Proved!Claims /\ Proved!Reach

(* The topic has a message of an event if and only if the job announced it. *)
Topic == \A k \in Keys : Announced(k) <=> events[k] > 0

LEMMA KeysOfMessages == \A m \in Messages : m.key \in Keys
BY DEF Messages

LEMMA StatusTyped ==
  ASSUME Notifying
  PROVE  status \in [Messages -> {"unpublished", "outstanding", "acked", "dead"}]
BY DEF Notifying, Proved!TypeOK, Proved!PubSubTypeOK

(* What a publish leaves on the topic. *)
LEMMA Published ==
  ASSUME Notifying, NEW m \in Messages, Service!Publish(m)
  PROVE  \A n \in Messages :
           status'[n] # "unpublished" <=> status[n] # "unpublished" \/ n = m
BY StatusTyped DEF Service!Publish

(* Nothing else puts a message on the topic or takes one off. *)
LEMMA TopicKept ==
  ASSUME Notifying,
         \/ UNCHANGED serviceVars
         \/ \E h \in Handlers : \/ Service!HandlerStep(h)
                               \/ Service!Kill(h)
                               \/ Service!AckDeadline(h)
         \/ Service!SubscriptionStep
         \/ \E t \in Tokens : Service!Uninstall(t) \/ Service!RegisterFcmToken(t)
         \/ \E k \in Keys : Service!Reap(k)
  PROVE  \A n \in Messages : status'[n] # "unpublished" <=> status[n] # "unpublished"
<1>1. CASE UNCHANGED status
  BY <1>1
<1>2. ASSUME NEW h \in Handlers, Service!Respond(h),
             status' = [status EXCEPT ![job[h]] = "acked"], NEW n \in Messages
      PROVE  status'[n] # "unpublished" <=> status[n] # "unpublished"
  <2>1. pc[h] # "idle"
    BY <1>2 DEF Service!Respond
  <2>2. status[job[h]] # "unpublished"
    BY <2>1 DEF Notifying, Proved!Reach, Proved!JobPublished
  <2> QED
    BY <1>2, <2>2, StatusTyped
<1>3. ASSUME NEW m \in Messages, Service!DeadLetter(m), NEW n \in Messages
      PROVE  status'[n] # "unpublished" <=> status[n] # "unpublished"
  BY <1>3, StatusTyped DEF Service!DeadLetter
<1>4. \/ UNCHANGED status
      \/ \E h \in Handlers : /\ Service!Respond(h)
                            /\ status' = [status EXCEPT ![job[h]] = "acked"]
      \/ \E m \in Messages : Service!DeadLetter(m)
  BY DEF serviceVars, Service!pubsub, Service!HandlerStep, Service!SubscriptionStep,
         Service!Kill, Service!AckDeadline, Service!Uninstall, Service!RegisterFcmToken,
         Service!Reap, Service!Push, Service!CheckAndMark, Service!ResolveSubscribers,
         Service!SendMulticast, Service!RemoveInvalidTokens, Service!LockResult,
         Service!AddOutcome, Service!WaitAll, Service!Respond, Service!Deliver
<1> QED
  BY <1>1, <1>2, <1>3, <1>4

(* An announcement raises the count of its event by one. *)
LEMMA AnnounceCounts ==
  ASSUME TypeOK, NEW r \in Runs, NEW i \in Items, Announce(r, i)
  PROVE  /\ work[r][i] = "publish"
         /\ events' = [events EXCEPT ![KeyOf[i]] = @ + 1]
         /\ UNCHANGED cms
BY DEF Announce, Publish, At

LEMMA TopicStep ==
  ASSUME TypeOK, Notifying, Topic, [PipelineNext]_pipelineVars
  PROVE  Topic'
<1> SUFFICES ASSUME NEW k \in Keys PROVE Announced(k)' <=> events'[k] > 0
  BY DEF Topic
<1>1. Announced(k) <=> events[k] > 0
  BY DEF Topic
<1>2. ASSUME NEW r \in Runs, NEW i \in Items, Announce(r, i)
      PROVE  Announced(k)' <=> events'[k] > 0
  <2>1. PICK m \in Messages : m.key = KeyOf[i] /\ Service!Publish(m)
    BY <1>2 DEF Announce, EventOf
  <2>2. Announced(k)' <=> Announced(k) \/ k = KeyOf[i]
    BY <2>1, Published DEF Announced
  <2>3. events' = [events EXCEPT ![KeyOf[i]] = @ + 1] /\ events \in [Keys -> Nat]
    BY <1>2, AnnounceCounts DEF TypeOK, OutsideTypeOK
  <2> QED
    BY <1>1, <2>2, <2>3
<1>3. ASSUME NEW m \in Messages, Repeat(m)
      PROVE  Announced(k)' <=> events'[k] > 0
  <2>1. PICK n \in Messages : n.key = m.key /\ Service!Publish(n)
    BY <1>3, RepeatIsPublish
  <2>2. Announced(k)' <=> Announced(k)
    BY <1>3, <2>1, Published DEF Announced, Repeat
  <2>3. UNCHANGED events
    BY <1>3 DEF Repeat, vars, outside
  <2> QED
    BY <1>1, <2>2, <2>3
<1>4. CASE /\ UNCHANGED events
           /\ \A n \in Messages : status'[n] # "unpublished" <=> status[n] # "unpublished"
  BY <1>1, <1>4 DEF Announced
<1>5. CASE UNCHANGED <<events, serviceVars>>
  BY <1>4, <1>5, TopicKept
<1>6. CASE /\ UNCHANGED vars
           /\ \/ \E h \in Handlers : \/ Service!HandlerStep(h)
                                    \/ Service!Kill(h)
                                    \/ Service!AckDeadline(h)
              \/ Service!SubscriptionStep
              \/ \E t \in Tokens : Service!Uninstall(t) \/ Service!RegisterFcmToken(t)
              \/ \E q \in Keys : Service!Reap(q)
  <2>1. UNCHANGED events
    BY <1>6 DEF vars, outside
  <2> QED
    BY <1>4, <1>6, <2>1, TopicKept
<1> QED
  BY <1>2, <1>3, <1>5, <1>6, Interleaved

LEMMA InductiveTopic == PipelineSpec => [](Ingesting /\ Notifying /\ Topic)
<1>1. PipelineInit => Topic
  BY DEF PipelineInit, Init, Service!Init, Topic, Announced
<1>2. Ingesting /\ Notifying /\ Topic /\ [PipelineNext]_pipelineVars => Topic'
  BY TopicStep DEF Ingesting
<1>3. PipelineSpec => []Ingesting
  BY JobPart, Inductive, PTL DEF Ingesting
<1>4. Proved!Spec => []Notifying
  BY ServiceAssumed, Proved!InductiveReach DEF Notifying
<1>5. PipelineSpec => []Notifying
  BY <1>4, ProvedPart, PTL
<1> QED
  BY <1>1, <1>2, <1>3, <1>5, PTL DEF PipelineSpec

(* However runs overlap and messages are repeated: whoever is pushed an     *)
(* event finds its incident in the CMS.                                     *)
THEOREM WhatIsPushedIsStored == PipelineSpec => []PushedIsStored
<1>1. Ingesting /\ Notifying /\ Topic => PushedIsStored
  <2> SUFFICES ASSUME Ingesting, Notifying, Topic, NEW k \in Keys, NEW u \in Users,
                      pushes[k][u] > 0
               PROVE  cms[k] # <<>>
    BY DEF PushedIsStored
  <2>1. Announced(k)
    BY DEF Notifying, Proved!Reach, Proved!PushedCovered, Announced
  <2> QED
    BY <2>1 DEF Topic, Ingesting, Announcing, AnnouncedIsStored
<1> QED
  BY <1>1, InductiveTopic, PTL

-----------------------------------------------------------------------------
(* The contract of the two together. *)

(* A step pushes one user for the first time, who finds the incident in the *)
(* CMS, or drops a record, or pushes nobody.                                *)
LEMMA PushesStep ==
  ASSUME Ingesting, Notifying, Topic, [PipelineNext]_pipelineVars
  PROVE  \/ UNCHANGED pushes
         \/ /\ UNCHANGED vars
            /\ \E k \in Keys :
                 \/ \E u \in Users : /\ cms[k] # <<>>
                                    /\ pushes[k][u] = 0
                                    /\ pushes' = [pushes EXCEPT ![k][u] = 1]
                 \/ pushes' = [pushes EXCEPT ![k] = [u \in Users |-> 0]]
<1>1. ASSUME NEW h \in Handlers, NEW u \in Users, Service!SendMulticast(h, u)
      PROVE  \E k \in Keys : /\ cms[k] # <<>>
                             /\ pushes[k][u] = 0
                             /\ pushes' = [pushes EXCEPT ![k][u] = 1]
  <2> DEFINE k == job[h].key
  <2>1. pc[h] = "deliver" /\ task[h][u] = "queued"
    BY <1>1 DEF Service!SendMulticast
  <2>2. job[h] \in Messages /\ status[job[h]] # "unpublished"
    BY <2>1 DEF Notifying, Proved!Busy, Proved!Reach, Proved!JobPublished
  <2>3. k \in Keys /\ cms[k] # <<>>
    BY <2>2, KeysOfMessages DEF Topic, Announced, Ingesting, Announcing, AnnouncedIsStored
  <2>4. pushes[k][u] = 0
    BY <2>1, <2>2 DEF Notifying, Proved!Claims, Proved!TaskMatchesPushes, Proved!Key
  <2>5. pushes' = [pushes EXCEPT ![k][u] = @ + 1]
    BY <1>1, <2>2 DEF Service!SendMulticast, Service!Key
  <2>6. pushes \in [Keys -> [Users -> Nat]]
    BY DEF Notifying, Proved!TypeOK, Proved!HistoryTypeOK
  <2>7. pushes' = [pushes EXCEPT ![k][u] = 1]
    BY <2>3, <2>4, <2>5, <2>6
  <2> QED
    BY <2>3, <2>4, <2>7
<1>2. ASSUME NEW k \in Keys, Service!Reap(k)
      PROVE  pushes' = [pushes EXCEPT ![k] = [u \in Users |-> 0]]
  BY <1>2 DEF Service!Reap
<1>3. ASSUME NEW m \in Messages, Service!Publish(m) PROVE UNCHANGED pushes
  BY <1>3 DEF Service!Publish, Service!history
<1>4. ASSUME NEW r \in Runs, NEW i \in Items, Announce(r, i) PROVE UNCHANGED pushes
  BY <1>3, <1>4 DEF Announce
<1>5. ASSUME NEW m \in Messages, Repeat(m) PROVE UNCHANGED pushes
  BY <1>3, <1>5, RepeatIsPublish
<1>6. CASE UNCHANGED serviceVars
  BY <1>6 DEF serviceVars
<1>7. CASE /\ UNCHANGED vars
           /\ \/ \E h \in Handlers : \/ Service!HandlerStep(h)
                                    \/ Service!Kill(h)
                                    \/ Service!AckDeadline(h)
              \/ Service!SubscriptionStep
              \/ \E t \in Tokens : Service!Uninstall(t) \/ Service!RegisterFcmToken(t)
              \/ \E q \in Keys : Service!Reap(q)
  <2>1. \/ UNCHANGED pushes
        \/ \E h \in Handlers, u \in Users : Service!SendMulticast(h, u)
        \/ \E k \in Keys : Service!Reap(k)
    BY <1>7 DEF Service!HandlerStep, Service!SubscriptionStep, Service!history,
                Service!Kill, Service!AckDeadline, Service!Uninstall,
                Service!RegisterFcmToken, Service!Push, Service!CheckAndMark,
                Service!ResolveSubscribers, Service!RemoveInvalidTokens,
                Service!LockResult, Service!AddOutcome, Service!WaitAll, Service!Respond,
                Service!Deliver, Service!DeadLetter
  <2> QED
    BY <1>1, <1>2, <1>7, <2>1
<1> QED
  BY <1>4, <1>5, <1>6, <1>7, Interleaved

(* What is in the CMS stays there, and one incident enters at a time.       *)
LEMMA StoredStep ==
  ASSUME Ingesting, [Next]_vars
  PROVE  \/ {k \in Keys : cms'[k] # <<>>} = {k \in Keys : cms[k] # <<>>}
         \/ \E q \in Keys :
              {k \in Keys : cms'[k] # <<>>} = {k \in Keys : cms[k] # <<>>} \cup {q}
<1>1. cms \in [Keys -> Seq(Docs)] /\ \A i \in Items : KeyOf[i] \in Keys
  BY IngestionAssumption DEF Ingesting, TypeOK, OutsideTypeOK
<1>2. ASSUME NEW r \in Runs, NEW i \in Items, Create(r, i), cms' # cms
      PROVE  {k \in Keys : cms'[k] # <<>>} = {k \in Keys : cms[k] # <<>>} \cup {KeyOf[i]}
  <2>1. cms' = [cms EXCEPT ![KeyOf[i]] = Append(@, doc[r][i])]
    BY <1>2 DEF Create
  <2>2. cms'[KeyOf[i]] # <<>>
    <3>1. /\ cms[KeyOf[i]] \in Seq(Docs)
          /\ cms'[KeyOf[i]] = Append(cms[KeyOf[i]], doc[r][i])
      BY <1>1, <2>1
    <3>2. Len(cms'[KeyOf[i]]) = Len(cms[KeyOf[i]]) + 1 /\ Len(cms[KeyOf[i]]) \in Nat
      BY <3>1
    <3> QED
      BY <3>2, EmptySeq
  <2> QED
    BY <1>1, <2>1, <2>2
<1>3. ASSUME NEW r \in Runs, NEW i \in Items, Update(r, i), cms' # cms
      PROVE  {k \in Keys : cms'[k] # <<>>} = {k \in Keys : cms[k] # <<>>}
  <2>1. PICK n \in DOMAIN cms[KeyOf[i]] :
          cms' = [cms EXCEPT ![KeyOf[i]][n] = Patched(@, doc[r][i])]
    BY <1>3 DEF Update
  <2>2. doc[r][i] \in Docs
    BY <1>3 DEF Update, At, Ingesting, TypeOK, Located
  <2>3. \A q \in Keys : Len(cms'[q]) = Len(cms[q]) /\ cms'[q] \in Seq(Docs)
    BY <1>1, <2>1, <2>2, PatchedItems DEF Ingesting
  <2>4. \A q \in Keys : cms'[q] = <<>> <=> cms[q] = <<>>
    BY <1>1, <2>3, EmptySeq
  <2> QED
    BY <2>4
<1>4. \/ UNCHANGED cms
      \/ \E r \in Runs, i \in Items : Create(r, i) \/ Update(r, i)
  <2>1. ASSUME NEW r \in Runs, NEW i \in Items, RowStep(r, i)
        PROVE  UNCHANGED cms \/ Create(r, i) \/ Update(r, i)
    BY <2>1 DEF RowStep, Lookup, Extract, Geocode, Find, Publish, outside
  <2>2. ASSUME NEW r \in Runs, Start(r) \/ Fetch(r) \/ Exit(r) \/ Sigterm(r) \/ Kill(r)
        PROVE  UNCHANGED cms
    BY <2>2 DEF Start, Fetch, Exit, Sigterm, Kill, outside
  <2> QED
    BY <2>1, <2>2 DEF Next, RunStep, Appear, Withdraw, vars, outside
<1> QED
  BY <1>1, <1>2, <1>3, <1>4

(* However runs overlap, whatever fails and whatever Pub/Sub repeats: the   *)
(* job and the notifier together implement IncidentNotice.                  *)
THEOREM NoticeRefinement == PipelineSpec => ImplementsNotice
<1>1. PipelineInit => Notice!Init
  BY DEF PipelineInit, Init, Service!Init, Notice!Init, Notice!Nobody
<1>2. Ingesting /\ Notifying /\ Topic /\ [PipelineNext]_pipelineVars
        => [Notice!Next]_(Notice!vars)
  <2> SUFFICES ASSUME Ingesting, Notifying, Topic, [PipelineNext]_pipelineVars
               PROVE  [Notice!Next]_(Notice!vars)
    OBVIOUS
  <2> DEFINE S == {k \in Keys : cms[k] # <<>>}
  <2>1. CASE UNCHANGED pushes
    <3>1. S' = S \/ \E q \in Keys : S' = S \cup {q}
      BY JobPartStep, StoredStep
    <3> QED
      BY <2>1, <3>1 DEF Notice!Next, Notice!Store, Notice!vars
  <2>2. ASSUME UNCHANGED vars, NEW k \in Keys, NEW u \in Users, cms[k] # <<>>,
               pushes[k][u] = 0, pushes' = [pushes EXCEPT ![k][u] = 1]
        PROVE  Notice!Next
    <3>1. k \in S /\ S' = S
      BY <2>2 DEF vars, outside
    <3> QED
      BY <2>2, <3>1 DEF Notice!Next, Notice!Tell
  <2>3. ASSUME UNCHANGED vars, NEW k \in Keys,
               pushes' = [pushes EXCEPT ![k] = [u \in Users |-> 0]]
        PROVE  Notice!Next
    <3>1. S' = S
      BY <2>3 DEF vars, outside
    <3> QED
      BY <2>3, <3>1 DEF Notice!Next, Notice!Drop, Notice!Nobody
  <2> QED
    BY <2>1, <2>2, <2>3, PushesStep
<1> QED
  BY <1>1, <1>2, InductiveTopic, PTL DEF PipelineSpec, ImplementsNotice, Notice!Spec

-----------------------------------------------------------------------------
(* Runs in turn: what the messages say is what the CMS says. *)

(* A message on the topic is of a row, and carries its type and the country *)
(* of what is stored of it.                                                 *)
AsStored ==
  \A m \in Messages : status[m] # "unpublished" =>
    /\ \E i \in Items : KeyOf[i] = m.key /\ InfoType[i] = m.type
    /\ \A n \in DOMAIN cms[m.key] : cms[m.key][n].country = m.country

InOrder == Ingesting /\ Sequential /\ AnnouncesStored

LEMMA AsStoredStep ==
  ASSUME InTurn, InOrder, Notifying, Topic, AsStored, [PipelineNext]_pipelineVars
  PROVE  AsStored'
<1> SUFFICES ASSUME NEW m \in Messages, status'[m] # "unpublished"
             PROVE  /\ \E i \in Items : KeyOf[i] = m.key /\ InfoType[i] = m.type
                    /\ \A n \in DOMAIN cms'[m.key] : cms'[m.key][n].country = m.country
  BY DEF AsStored
<1>1. ASSUME status[m] # "unpublished"
      PROVE  cms'[m.key] = cms[m.key]
  <2>1. cms[m.key] # <<>>
    BY <1>1, KeysOfMessages
       DEF Topic, Announced, InOrder, Ingesting, Announcing, AnnouncedIsStored
  <2> QED
    BY <2>1, KeysOfMessages, JobPartStep, FinalStep DEF InOrder, Ingesting
<1>2. CASE status[m] # "unpublished"
  BY <1>1, <1>2 DEF AsStored
<1>3. ASSUME NEW r \in Runs, NEW i \in Items, Announce(r, i), status[m] = "unpublished"
      PROVE  /\ KeyOf[i] = m.key /\ InfoType[i] = m.type
             /\ \A n \in DOMAIN cms'[m.key] : cms'[m.key][n].country = m.country
  <2>1. PICK p \in Messages : EventOf(p, r, i) /\ Service!Publish(p)
    BY <1>3 DEF Announce
  <2>2. p = m
    BY <1>3, <2>1, Published
  <2>3. work[r][i] = "publish" /\ UNCHANGED cms
    BY <1>3, AnnounceCounts DEF InOrder, Ingesting
  <2> QED
    BY <2>1, <2>2, <2>3 DEF EventOf, InOrder, AnnouncesStored
<1>4. ASSUME NEW p \in Messages, Repeat(p), status[m] = "unpublished"
      PROVE  /\ \E i \in Items : KeyOf[i] = m.key /\ InfoType[i] = m.type
             /\ \A n \in DOMAIN cms'[m.key] : cms'[m.key][n].country = m.country
  <2>1. PICK n \in Messages :
          /\ n.key = p.key /\ n.country = p.country /\ n.type = p.type
          /\ Service!Publish(n)
    BY <1>4, RepeatIsPublish
  <2>2. n = m
    BY <1>4, <2>1, Published
  <2>3. status[p] # "unpublished" /\ UNCHANGED cms
    BY <1>4 DEF Repeat, vars, outside
  <2> QED
    BY <2>1, <2>2, <2>3 DEF AsStored
<1>5. ASSUME status[m] = "unpublished"
      PROVE  \/ \E r \in Runs, i \in Items : Announce(r, i)
             \/ \E p \in Messages : Repeat(p)
  BY <1>5, TopicKept, Interleaved
<1> QED
  BY <1>2, <1>3, <1>4, <1>5

LEMMA InductiveAsStored ==
  ASSUME InTurn
  PROVE  PipelineSpec => [](InOrder /\ Notifying /\ Topic /\ AsStored)
<1>1. PipelineInit => AsStored
  BY DEF PipelineInit, Service!Init, AsStored
<1>2. InOrder /\ Notifying /\ Topic /\ AsStored /\ [PipelineNext]_pipelineVars => AsStored'
  BY AsStoredStep
<1>3. PipelineSpec => []InOrder
  BY JobPart, InductiveAnnounces, PTL DEF InOrder, Ingesting
<1> QED
  BY <1>1, <1>2, <1>3, InductiveTopic, PTL DEF PipelineSpec

(* A preference covers what is stored if and only if it covers a message of *)
(* the event.                                                               *)
LEMMA WantsMessage ==
  ASSUME InTurn, InOrder, Topic, AsStored,
         NEW m \in Messages, status[m] # "unpublished", NEW u \in Users
  PROVE  Wants(u, m.key) <=> Service!Covers(u, m.country, m.type)
<1>1. cms[m.key] # <<>>
  BY KeysOfMessages
     DEF Topic, Announced, InOrder, Ingesting, Announcing, AnnouncedIsStored
<1>2. 1 \in DOMAIN cms[m.key]
  <2>1. cms[m.key] \in Seq(Docs)
    BY KeysOfMessages DEF InOrder, Ingesting, TypeOK, OutsideTypeOK
  <2> QED
    BY <1>1, <2>1, EmptySeq
<1>3. PICK i \in Items : KeyOf[i] = m.key /\ InfoType[i] = m.type
  BY DEF AsStored
<1>4. \A j \in Items : KeyOf[j] = m.key => j = i
  BY <1>3 DEF InTurn
<1>5. \A n \in DOMAIN cms[m.key] : cms[m.key][n].country = m.country
  BY DEF AsStored
<1> QED
  BY <1>2, <1>3, <1>4, <1>5 DEF Wants

(* If runs take turns and the feed lists a key_cd once, then nobody is      *)
(* pushed an incident that, as the CMS has it, he did not ask for.          *)
THEOREM WhatIsPushedIsWanted ==
  ASSUME InTurn
  PROVE  PipelineSpec => []PushedIsWanted
<1>1. InOrder /\ Notifying /\ Topic /\ AsStored => PushedIsWanted
  <2> SUFFICES ASSUME InOrder, Notifying, Topic, AsStored,
                      NEW k \in Keys, NEW u \in Users, pushes[k][u] > 0
               PROVE  Wants(u, k)
    BY DEF PushedIsWanted
  <2>1. PICK m \in Messages : /\ m.key = k
                              /\ status[m] # "unpublished"
                              /\ Proved!Covers(u, m.country, m.type)
    BY DEF Notifying, Proved!Reach, Proved!PushedCovered, Proved!CoversMessage
  <2>2. Service!Covers(u, m.country, m.type)
    BY <2>1 DEF Proved!Covers, Service!Covers
  <2> QED
    BY <2>1, <2>2, WantsMessage
<1> QED
  BY <1>1, InductiveAsStored, PTL

(* If runs take turns and the feed lists a key_cd once, then an incident of *)
(* the CMS has reached a device of everyone who wants it and can be         *)
(* reached, or is on its way, or was stopped by a failure on record: a      *)
(* send that failed, also because the ack deadline had passed, is one.      *)
THEOREM WhatIsStoredIsDelivered ==
  ASSUME InTurn
  PROVE  PipelineSpec => []StoredIsDelivered
<1>1. Proved!Spec => []Proved!AckedAccountedFor
  BY ServiceAssumed, Proved!Accounted
<1>2. /\ InOrder /\ Notifying /\ Topic /\ AsStored
      /\ Proved!AckedAccountedFor
      => StoredIsDelivered
  <2> SUFFICES ASSUME InOrder, Notifying, Topic, AsStored, Proved!AckedAccountedFor,
                      NEW k \in Keys, cms[k] # <<>>, mark[k] # "reaped",
                      NEW u \in Users, Service!Reachable(u), Wants(u, k),
                      ~Underway(k), ~GivenUp(k, u)
               PROVE  fate[k][u] = "reached"
    BY DEF StoredIsDelivered
  <2>1. events[k] # 0
    BY DEF InOrder, Ingesting, Announcing, StoredAccountedFor, Underway, GivenUp
  <2>2. PICK m \in Messages : m.key = k /\ status[m] # "unpublished"
    BY <2>1 DEF Topic, Announced, InOrder, Ingesting, TypeOK, OutsideTypeOK
  <2>3. status[m] = "acked"
    BY <2>2, StatusTyped DEF Underway, GivenUp
  <2>4. \/ \E h \in Handlers : Proved!Claimant(h, k)
        \/ Proved!Expects(u, k) => fate[k][u] \in {"reached", "failed"}
    BY <2>2, <2>3 DEF Proved!AckedAccountedFor, GivenUp
  <2>5. ~\E h \in Handlers : Proved!Claimant(h, k)
    BY DEF Underway, Service!Claimant, Proved!Claimant, Service!Key, Proved!Key
  <2>6. Proved!Expects(u, k)
    <3>1. ASSUME NEW n \in Messages, n.key = k, status[n] # "unpublished"
          PROVE  Proved!Covers(u, n.country, n.type)
      BY <3>1, WantsMessage DEF Proved!Covers, Service!Covers
    <3> QED
      BY <3>1 DEF Proved!Expects, Proved!Reachable, Service!Reachable
  <2> QED
    BY <2>4, <2>5, <2>6 DEF GivenUp
<1> QED
  BY <1>1, <1>2, InductiveAsStored, ProvedPart, PTL
=============================================================================
