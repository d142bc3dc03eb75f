--------------------------- MODULE NotifierProofs ---------------------------
(***************************************************************************)
(* Notifier, for any number of messages, handlers, users and tokens: type  *)
(* correctness, at most one push per user and event, the accounting of     *)
(* acknowledged messages, who is reached and who is not, the safety of     *)
(* token removal, the refinement of AtMostOncePush, and the counters of a  *)
(* delivery.                                                               *)
(*                                                                         *)
(* The argument.  The marker of a key works as a lock that is never given  *)
(* back: whoever writes it is the only claimant of the key (OneClaimant),  *)
(* starts with no push made (MarkerFirst, FreshClaim), and its per-user    *)
(* goroutines record exactly the pushes made so far (TaskMatchesPushes).   *)
(* When no claimant is left, either one failed or all were reached         *)
(* (ClaimSettled); a 200 is only ever given for a key that has a marker    *)
(* (OkMeansMarked).  Messages are never unpublished and a token that FCM   *)
(* accepts is never removed (LiveListed), so that whoever expects an event *)
(* to the end was among its subscribers when it was resolved (Reach).      *)
(***************************************************************************)
EXTENDS Notifier, FiniteSetTheorems, TLAPS

OneClaimant ==
  \A h1, h2 \in Handlers :
    pc[h1] \in {"resolve", "deliver"} /\ pc[h2] \in {"resolve", "deliver"}
      /\ Key(h1) = Key(h2) => h1 = h2

Busy == \A h \in Handlers : pc[h] # "idle" => job[h] \in Messages

ClaimMarked ==
  \A h \in Handlers : pc[h] \in {"resolve", "deliver"} => mark[Key(h)] = "present"

MarkerFirst ==
  \A k \in Keys : mark[k] # "present" =>
    audience[k] = {} /\ \A u \in Users : pushes[k][u] = 0

FreshClaim ==
  \A h \in Handlers : pc[h] = "resolve" =>
    audience[Key(h)] = {} /\ \A u \in Users : pushes[Key(h)][u] = 0

TaskMatchesPushes ==
  \A h \in Handlers, u \in Users : pc[h] = "deliver" =>
    /\ task[h][u] = "queued" => pushes[Key(h)][u] = 0
    /\ task[h][u] \notin {"none", "queued"} => pushes[Key(h)][u] = 1
    /\ u \in audience[Key(h)] => task[h][u] # "none"

ClaimSettled ==
  \A k \in Keys :
    \/ lost[k]
    \/ \E h \in Handlers : Claimant(h, k)
    \/ \A u \in audience[k] : pushes[k][u] = 1

OkMeansMarked ==
  /\ \A h \in Handlers :
       pc[h] = "reply" /\ code[h] = 200 /\ job[h] \notin malformed =>
         mark[Key(h)] = "present"
  /\ \A m \in Messages \ malformed : status[m] = "acked" => mark[KeyOf[m]] # "absent"

InvalidIsDead ==
  \A h \in Handlers, u \in Users : batch[h][u].invalid \cap alive = {}

FateKnown ==
  \A k \in Keys, u \in Users : fate[k][u] = "none" <=> pushes[k][u] = 0

(* The inductive invariant, beyond the types. *)
Claims ==
  /\ OneClaimant
  /\ ClaimMarked
  /\ MarkerFirst
  /\ FreshClaim
  /\ TaskMatchesPushes
  /\ NoDoublePush
  /\ ClaimSettled
  /\ OkMeansMarked
  /\ InvalidIsDead
  /\ FateKnown

-----------------------------------------------------------------------------
(* Type correctness. *)

LEMMA TokenCount ==
  ASSUME NEW S \in SUBSET Tokens
  PROVE  IsFiniteSet(S) /\ Cardinality(S) \in Nat
BY FS_Subset, FS_CardinalityType, NotifierAssumption

LEMMA InitTyped == Init => TypeOK /\ Busy
BY NotifierAssumption
DEF Init, TypeOK, PubSubTypeOK, RequestTypeOK, DeliveryTypeOK, StoreTypeOK,
    HistoryTypeOK, Busy, NoBatch, NoResult, FateKinds

(* A group of variables that does not change keeps its type. *)
LEMMA Frame ==
  ASSUME TypeOK
  PROVE  /\ UNCHANGED pubsub => PubSubTypeOK'
         /\ UNCHANGED request => RequestTypeOK'
         /\ UNCHANGED delivery => DeliveryTypeOK'
         /\ UNCHANGED <<mark, tokens, alive>> => StoreTypeOK'
         /\ UNCHANGED history => HistoryTypeOK'
<1> USE DEF TypeOK
<1>1. UNCHANGED pubsub => PubSubTypeOK'
  BY DEF PubSubTypeOK, pubsub
<1>2. UNCHANGED request => RequestTypeOK'
  BY DEF RequestTypeOK, request
<1>3. UNCHANGED delivery => DeliveryTypeOK'
  BY DEF DeliveryTypeOK, delivery
<1>4. UNCHANGED <<mark, tokens, alive>> => StoreTypeOK'
  BY DEF StoreTypeOK
<1>5. UNCHANGED history => HistoryTypeOK'
  BY DEF HistoryTypeOK, history
<1> QED
  BY <1>1, <1>2, <1>3, <1>4, <1>5

LEMMA FrameBusy == Busy /\ UNCHANGED request => Busy'
BY DEF Busy, request

(* The key of a request under way is one of Keys. *)
LEMMA KeyTyped ==
  ASSUME Busy, NEW h \in Handlers, pc[h] # "idle"
  PROVE  job[h] \in Messages /\ Key(h) \in Keys
BY NotifierAssumption DEF Busy, Key

(* A request that ends leaves its handler's memory well typed. *)
LEMMA ReleaseTyped ==
  ASSUME TypeOK, Busy, NEW h \in Handlers, Release(h)
  PROVE  RequestTypeOK' /\ DeliveryTypeOK' /\ Busy'
<1>1. RequestTypeOK' /\ Busy'
  BY DEF TypeOK, RequestTypeOK, Busy, Release, Goto
<1>2. task' \in [Handlers -> [Users -> {"none", "queued", "cleanup", "count", "add", "done"}]]
  BY DEF TypeOK, DeliveryTypeOK, Release
<1>3. snap' \in [Handlers -> [Users -> SUBSET Tokens]]
  BY DEF TypeOK, DeliveryTypeOK, Release
<1>4. batch' \in [Handlers -> [Users ->
        [success : Nat, failure : Nat, invalid : SUBSET Tokens, removed : Nat]]]
  <2>1. NoBatch \in [success : Nat, failure : Nat, invalid : SUBSET Tokens, removed : Nat]
    BY DEF NoBatch
  <2> QED
    BY <2>1 DEF TypeOK, DeliveryTypeOK, Release
<1>4a. seen' \in [Handlers -> [Users -> [success : Nat, failed : Nat, invalidated : Nat]]]
  BY DEF TypeOK, DeliveryTypeOK, Release, NoResult
<1>5. res' \in [Handlers -> [success : Nat, failed : Nat, invalidated : Nat]]
  BY DEF TypeOK, DeliveryTypeOK, Release, NoResult
<1> QED
  BY <1>1, <1>2, <1>3, <1>4, <1>4a, <1>5 DEF DeliveryTypeOK

(* What FCM refuses is part of what it was sent: the counts are naturals.   *)
LEMMA BatchCounts ==
  ASSUME NEW list \in SUBSET Tokens, NEW refused \in SUBSET list,
         NEW invalid \in SUBSET list
  PROVE  /\ FailureCount(refused, invalid) \in Nat
         /\ Cardinality(list) - FailureCount(refused, invalid) \in Nat
<1>1. IsFiniteSet(list)
  BY TokenCount
<1>2. /\ Cardinality(refused \cup invalid) \in Nat
      /\ Cardinality(list) \in Nat
      /\ Cardinality(refused \cup invalid) <= Cardinality(list)
  BY <1>1, FS_Subset, FS_CardinalityType
<1> QED
  BY <1>2 DEF FailureCount

(* FCM's answer counts every token of the list once, and every token it     *)
(* declares dead among the failures.                                        *)
LEMMA BatchSums ==
  ASSUME NEW list \in SUBSET Tokens, NEW refused \in SUBSET list, NEW invalid \in SUBSET list
  PROVE  /\ Cardinality(invalid) \in Nat
         /\ Cardinality(invalid) <= FailureCount(refused, invalid)
         /\ FailureCount(refused, invalid) = 0 => refused = {} /\ invalid = {}
<1>1. /\ IsFiniteSet(refused \cup invalid)
      /\ invalid \in SUBSET (refused \cup invalid)
  BY TokenCount
<1>2. Cardinality(refused \cup invalid) = 0 => refused \cup invalid = {}
  BY <1>1, FS_EmptySet
<1> QED
  BY <1>1, <1>2, FS_Subset, FS_CardinalityType DEF FailureCount

(* What the call for a list of tokens may come to: its outcome b, fate f.   *)
AnswerOf(list, b, f) ==
  /\ b \in [success : Nat, failure : Nat, invalid : SUBSET list, removed : {0}]
  /\ b.success + b.failure = Cardinality(list)
  /\ Cardinality(b.invalid) <= b.failure
  /\ b.invalid \cap alive = {}
  /\ f \in FateKinds \ {"none"}
  /\ f = "gone" => list \cap alive = {}
  /\ b.failure = 0 /\ list # {} => f = "reached"

LEMMA SendEffect ==
  ASSUME TypeOK, NEW h \in Handlers, NEW u \in Users, SendMulticast(h, u)
  PROVE  \E s \in {"cleanup", "count"} : \E b, f :
           /\ task' = [task EXCEPT ![h][u] = s]
           /\ batch' = [batch EXCEPT ![h][u] = b]
           /\ fate' = [fate EXCEPT ![Key(h)][u] = f]
           /\ AnswerOf(snap[h][u], b, f)
<1> DEFINE list == snap[h][u]
           Record(success, failure, invalid) ==
             [success |-> success, failure |-> failure, invalid |-> invalid, removed |-> 0]
           Invalid(r) == (list \ alive) \ r
           Failure(r) == FailureCount(r, Invalid(r))
           Fate(r) == FateOf((list \cap alive) \ r, r)
<1>1. list \in SUBSET Tokens /\ IsFiniteSet(list) /\ Cardinality(list) \in Nat
  BY TokenCount DEF TypeOK, DeliveryTypeOK
<1>2. CASE /\ fate' = [fate EXCEPT ![Key(h)][u] = "failed"]
           /\ batch' = [batch EXCEPT ![h][u] = Record(0, Cardinality(list), {})]
           /\ task' = [task EXCEPT ![h][u] = "count"]
  <2>1. AnswerOf(list, Record(0, Cardinality(list), {}), "failed")
    <3>1. Cardinality({}) = 0 /\ (Cardinality(list) = 0 => list = {})
      BY <1>1, FS_EmptySet
    <3> HIDE DEF list
    <3> QED
      BY <1>1, <3>1 DEF AnswerOf, FateKinds
  <2> QED
    BY <1>2, <2>1
<1>3. ASSUME NEW r \in SUBSET list,
             fate' = [fate EXCEPT ![Key(h)][u] = Fate(r)],
             batch' = [batch EXCEPT ![h][u] =
               Record(Cardinality(list) - Failure(r), Failure(r), Invalid(r))],
             task' = [task EXCEPT ![h][u] = IF Invalid(r) = {} THEN "count" ELSE "cleanup"]
      PROVE  \E s \in {"cleanup", "count"} : \E b, f :
               /\ task' = [task EXCEPT ![h][u] = s]
               /\ batch' = [batch EXCEPT ![h][u] = b]
               /\ fate' = [fate EXCEPT ![Key(h)][u] = f]
               /\ AnswerOf(snap[h][u], b, f)
  <2> DEFINE b == Record(Cardinality(list) - Failure(r), Failure(r), Invalid(r))
             s == IF Invalid(r) = {} THEN "count" ELSE "cleanup"
  <2>1. Invalid(r) \in SUBSET list /\ Invalid(r) \cap alive = {}
    OBVIOUS
  <2>2. Failure(r) \in Nat /\ Cardinality(list) - Failure(r) \in Nat
    BY <1>1, <2>1, BatchCounts
  <2>3. /\ Cardinality(Invalid(r)) <= Failure(r)
        /\ Failure(r) = 0 => r = {} /\ Invalid(r) = {}
    BY <1>1, <2>1, BatchSums
  <2>4. /\ Fate(r) \in FateKinds \ {"none"}
        /\ Fate(r) = "gone" => list \cap alive = {}
        /\ r = {} /\ Invalid(r) = {} /\ list # {} => Fate(r) = "reached"
    BY DEF FateOf, FateKinds
  <2>5. AnswerOf(list, b, Fate(r))
    <3> HIDE DEF list, Invalid, Failure, Fate
    <3> QED
      BY <1>1, <2>1, <2>2, <2>3, <2>4 DEF AnswerOf
  <2>6. s \in {"cleanup", "count"}
    OBVIOUS
  <2> HIDE DEF b, s, Fate
  <2> QED
    BY <1>3, <2>5, <2>6 DEF b, s
<1>4. \/ /\ fate' = [fate EXCEPT ![Key(h)][u] = "failed"]
         /\ batch' = [batch EXCEPT ![h][u] = Record(0, Cardinality(list), {})]
         /\ task' = [task EXCEPT ![h][u] = "count"]
      \/ \E r \in SUBSET list :
           /\ fate' = [fate EXCEPT ![Key(h)][u] = Fate(r)]
           /\ batch' = [batch EXCEPT ![h][u] =
                Record(Cardinality(list) - Failure(r), Failure(r), Invalid(r))]
           /\ task' = [task EXCEPT ![h][u] = IF Invalid(r) = {} THEN "count" ELSE "cleanup"]
  BY DEF SendMulticast
<1> HIDE DEF list, Record, Invalid, Failure, Fate
<1> QED
  BY <1>2, <1>3, <1>4

LEMMA SendTyped ==
  ASSUME TypeOK, Busy, NEW h \in Handlers, NEW u \in Users, SendMulticast(h, u)
  PROVE  TypeOK' /\ Busy'
<1>1. Key(h) \in Keys
  BY KeyTyped DEF SendMulticast
<1>2. PICK s, b, f :
        /\ s \in {"cleanup", "count"}
        /\ task' = [task EXCEPT ![h][u] = s]
        /\ batch' = [batch EXCEPT ![h][u] = b]
        /\ fate' = [fate EXCEPT ![Key(h)][u] = f]
        /\ AnswerOf(snap[h][u], b, f)
  BY SendEffect
<1>3. b \in [success : Nat, failure : Nat, invalid : SUBSET Tokens, removed : Nat]
  <2>1. snap[h][u] \in SUBSET Tokens
    BY DEF TypeOK, DeliveryTypeOK
  <2> QED
    BY <1>2, <2>1 DEF AnswerOf
<1>4. HistoryTypeOK'
  BY <1>1, <1>2 DEF TypeOK, HistoryTypeOK, SendMulticast, AnswerOf
<1>5. DeliveryTypeOK'
  BY <1>2, <1>3 DEF TypeOK, DeliveryTypeOK, SendMulticast
<1> QED
  BY <1>4, <1>5, Frame, FrameBusy DEF TypeOK, SendMulticast

LEMMA RemoveTyped ==
  ASSUME TypeOK, Busy, NEW h \in Handlers, NEW u \in Users, RemoveInvalidTokens(h, u)
  PROVE  TypeOK' /\ Busy'
<1>1. batch[h][u] \in [success : Nat, failure : Nat, invalid : SUBSET Tokens, removed : Nat]
  BY DEF TypeOK, DeliveryTypeOK
<1>2. Cardinality(batch[h][u].invalid) \in Nat
  BY <1>1, TokenCount
<1>3. DeliveryTypeOK'
  <2>1. batch' \in [Handlers -> [Users ->
          [success : Nat, failure : Nat, invalid : SUBSET Tokens, removed : Nat]]]
    <3>1. CASE UNCHANGED batch
      BY <3>1 DEF TypeOK, DeliveryTypeOK
    <3>2. CASE batch' = [batch EXCEPT ![h][u].removed = Cardinality(batch[h][u].invalid)]
      <4>1. [batch[h][u] EXCEPT !.removed = Cardinality(batch[h][u].invalid)]
              \in [success : Nat, failure : Nat, invalid : SUBSET Tokens, removed : Nat]
        BY <1>1, <1>2
      <4>2. batch' = [batch EXCEPT ![h][u] =
              [batch[h][u] EXCEPT !.removed = Cardinality(batch[h][u].invalid)]]
        BY <3>2 DEF TypeOK, DeliveryTypeOK
      <4> QED
        BY <4>1, <4>2 DEF TypeOK, DeliveryTypeOK
    <3> QED
      BY <3>1, <3>2 DEF RemoveInvalidTokens
  <2>2. task' \in [Handlers -> [Users ->
          {"none", "queued", "cleanup", "count", "add", "done"}]]
    BY DEF TypeOK, DeliveryTypeOK, RemoveInvalidTokens
  <2> QED
    BY <2>1, <2>2 DEF TypeOK, DeliveryTypeOK, RemoveInvalidTokens
<1>4. StoreTypeOK'
  BY DEF TypeOK, StoreTypeOK, RemoveInvalidTokens, ArrayRemove
<1> QED
  BY <1>3, <1>4, Frame, FrameBusy DEF TypeOK, RemoveInvalidTokens

LEMMA CountTyped ==
  ASSUME TypeOK, Busy, NEW h \in Handlers, NEW u \in Users,
         LockResult(h, u) \/ AddOutcome(h, u)
  PROVE  TypeOK' /\ Busy'
<1>1. ASSUME LockResult(h, u) PROVE DeliveryTypeOK'
  BY <1>1 DEF TypeOK, DeliveryTypeOK, LockResult
<1>2. ASSUME AddOutcome(h, u) PROVE DeliveryTypeOK'
  <2>1. /\ NoBatch \in [success : Nat, failure : Nat, invalid : SUBSET Tokens, removed : Nat]
        /\ NoResult \in [success : Nat, failed : Nat, invalidated : Nat]
    BY DEF NoBatch, NoResult
  <2>2. /\ batch[h][u].success \in Nat /\ batch[h][u].failure \in Nat
        /\ batch[h][u].removed \in Nat
        /\ seen[h][u] \in [success : Nat, failed : Nat, invalidated : Nat]
    BY DEF TypeOK, DeliveryTypeOK
  <2>3. [success     |-> seen[h][u].success + batch[h][u].success,
         failed      |-> seen[h][u].failed + batch[h][u].failure,
         invalidated |-> seen[h][u].invalidated + batch[h][u].removed]
          \in [success : Nat, failed : Nat, invalidated : Nat]
    BY <2>2
  <2> QED
    BY <1>2, <2>1, <2>3 DEF TypeOK, DeliveryTypeOK, AddOutcome
<1> QED
  BY <1>1, <1>2, Frame, FrameBusy DEF TypeOK, LockResult, AddOutcome

(* Every step keeps the types. *)
LEMMA NextTyped == TypeOK /\ Busy /\ [Next]_vars => TypeOK' /\ Busy'
<1> SUFFICES ASSUME TypeOK, Busy, [Next]_vars PROVE TypeOK' /\ Busy'
  OBVIOUS
<1> USE Frame, FrameBusy, KeyTyped
<1>1. ASSUME NEW m \in Messages, Publish(m) \/ DeadLetter(m) PROVE TypeOK' /\ Busy'
  <2>1. PubSubTypeOK'
    BY <1>1 DEF TypeOK, PubSubTypeOK, Publish, DeadLetter
  <2> QED
    BY <1>1, <2>1 DEF TypeOK, Publish, DeadLetter
<1>2. ASSUME NEW m \in Messages, NEW h \in Handlers, Deliver(m, h) PROVE TypeOK' /\ Busy'
  <2>1. PubSubTypeOK'
    BY <1>2, NotifierAssumption DEF TypeOK, PubSubTypeOK, Deliver
  <2>2. RequestTypeOK' /\ Busy'
    BY <1>2 DEF TypeOK, RequestTypeOK, Busy, Deliver, Goto
  <2> QED
    BY <1>2, <2>1, <2>2 DEF TypeOK, Deliver
<1>3. ASSUME NEW h \in Handlers, AckDeadline(h) PROVE TypeOK' /\ Busy'
  <2>1. RequestTypeOK' /\ Busy'
    BY <1>3 DEF TypeOK, RequestTypeOK, Busy, AckDeadline
  <2> QED
    BY <1>3, <2>1 DEF TypeOK, AckDeadline
<1>4. ASSUME NEW h \in Handlers, Push(h) PROVE TypeOK' /\ Busy'
  <2>1. RequestTypeOK' /\ Busy'
    BY <1>4 DEF TypeOK, RequestTypeOK, Busy, Push, Reply, ErrorStatus, Goto
  <2> QED
    BY <1>4, <2>1 DEF TypeOK, Push
<1>5. ASSUME NEW h \in Handlers, CheckAndMark(h) PROVE TypeOK' /\ Busy'
  <2>1. RequestTypeOK' /\ Busy'
    BY <1>5 DEF TypeOK, RequestTypeOK, Busy, CheckAndMark, Reply, ErrorStatus, Goto
  <2>2. StoreTypeOK'
    <3>1. UNCHANGED mark \/ mark' = Marked(Key(h))
      BY <1>5 DEF CheckAndMark
    <3> QED
      BY <1>5, <3>1 DEF TypeOK, StoreTypeOK, CheckAndMark, Marked
  <2>3. HistoryTypeOK'
    <3>1. UNCHANGED lost \/ lost' = [lost EXCEPT ![Key(h)] = TRUE]
      BY <1>5 DEF CheckAndMark
    <3>2. UNCHANGED <<pushes, fate, audience>>
      BY <1>5 DEF CheckAndMark
    <3>3. lost' \in [Keys -> BOOLEAN]
      BY <3>1 DEF TypeOK, HistoryTypeOK
    <3> QED
      BY <3>2, <3>3 DEF TypeOK, HistoryTypeOK
  <2> QED
    BY <1>5, <2>1, <2>2, <2>3 DEF TypeOK, CheckAndMark
<1>6. ASSUME NEW h \in Handlers, ResolveSubscribers(h) PROVE TypeOK' /\ Busy'
  <2>1. RequestTypeOK' /\ Busy'
    BY <1>6 DEF TypeOK, RequestTypeOK, Busy, ResolveSubscribers, Reply, ErrorStatus, Goto
  <2>2. FindSubscribers(job[h]) \in SUBSET Users
    BY DEF FindSubscribers
  <2>3. HistoryTypeOK'
    <3>1. UNCHANGED lost \/ lost' = [lost EXCEPT ![Key(h)] = TRUE]
      BY <1>6 DEF ResolveSubscribers
    <3>2. lost' \in [Keys -> BOOLEAN]
      BY <3>1 DEF TypeOK, HistoryTypeOK
    <3>3. UNCHANGED <<pushes, fate>>
      BY <1>6 DEF ResolveSubscribers
    <3>4. UNCHANGED audience \/ audience' = [audience EXCEPT ![Key(h)] = FindSubscribers(job[h])]
      BY <1>6 DEF ResolveSubscribers
    <3> QED
      BY <2>2, <3>2, <3>3, <3>4 DEF TypeOK, HistoryTypeOK
  <2>4. DeliveryTypeOK'
    <3> DEFINE subs == FindSubscribers(job[h])
    <3>1. UNCHANGED task \/ task' = [task EXCEPT ![h] = [u \in Users |->
                                      IF u \in subs THEN "queued" ELSE "none"]]
      BY <1>6 DEF ResolveSubscribers
    <3>2. UNCHANGED snap \/ snap' = [snap EXCEPT ![h] = [u \in Users |->
                                      IF u \in subs THEN tokens[u] ELSE {}]]
      BY <1>6 DEF ResolveSubscribers
    <3>3. UNCHANGED <<batch, seen, res>>
      BY <1>6 DEF ResolveSubscribers
    <3> HIDE DEF subs
    <3>3a. [u \in Users |-> IF u \in subs THEN "queued" ELSE "none"]
            \in [Users -> {"none", "queued", "cleanup", "count", "add", "done"}]
      OBVIOUS
    <3>4. task' \in [Handlers -> [Users -> {"none", "queued", "cleanup", "count", "add", "done"}]]
      BY <3>1, <3>3a DEF TypeOK, DeliveryTypeOK
    <3>5. [u \in Users |-> IF u \in subs THEN tokens[u] ELSE {}] \in [Users -> SUBSET Tokens]
      BY DEF TypeOK, StoreTypeOK
    <3>6. snap' \in [Handlers -> [Users -> SUBSET Tokens]]
      BY <3>2, <3>5 DEF TypeOK, DeliveryTypeOK
    <3> QED
      BY <3>3, <3>4, <3>6 DEF TypeOK, DeliveryTypeOK
  <2> QED
    BY <1>6, <2>1, <2>3, <2>4 DEF TypeOK, ResolveSubscribers
<1>7. ASSUME NEW h \in Handlers, NEW u \in Users,
             \/ SendMulticast(h, u) \/ RemoveInvalidTokens(h, u)
             \/ LockResult(h, u) \/ AddOutcome(h, u)
      PROVE  TypeOK' /\ Busy'
  BY <1>7, SendTyped, RemoveTyped, CountTyped
<1>8. ASSUME NEW h \in Handlers, WaitAll(h) PROVE TypeOK' /\ Busy'
  <2>1. RequestTypeOK' /\ Busy'
    BY <1>8 DEF TypeOK, RequestTypeOK, Busy, WaitAll, Reply, Goto
  <2> QED
    BY <1>8, <2>1 DEF TypeOK, WaitAll
<1>9. ASSUME NEW h \in Handlers, Respond(h) PROVE TypeOK' /\ Busy'
  <2>1. job[h] \in Messages
    BY <1>9 DEF Respond
  <2>2. PubSubTypeOK'
    BY <1>9, <2>1 DEF TypeOK, PubSubTypeOK, Respond
  <2> QED
    BY <1>9, <2>2, ReleaseTyped DEF TypeOK, Respond
<1>10. ASSUME NEW h \in Handlers, Kill(h) PROVE TypeOK' /\ Busy'
  <2>1. HistoryTypeOK'
    BY <1>10 DEF TypeOK, HistoryTypeOK, Kill
  <2> QED
    BY <1>10, <2>1, ReleaseTyped DEF TypeOK, Kill
<1>11. ASSUME NEW t \in Tokens, Uninstall(t) \/ RegisterFcmToken(t) PROVE TypeOK' /\ Busy'
  <2>1. StoreTypeOK'
    BY <1>11, NotifierAssumption DEF TypeOK, StoreTypeOK, Uninstall, RegisterFcmToken
  <2> QED
    BY <1>11, <2>1 DEF TypeOK, Uninstall, RegisterFcmToken
<1>12. ASSUME NEW k \in Keys, Reap(k) PROVE TypeOK' /\ Busy'
  <2>1. StoreTypeOK' /\ HistoryTypeOK'
    BY <1>12 DEF TypeOK, StoreTypeOK, HistoryTypeOK, Reap, FateKinds
  <2> QED
    BY <1>12, <2>1 DEF TypeOK, Reap
<1>13. ASSUME UNCHANGED vars PROVE TypeOK' /\ Busy'
  BY <1>13 DEF TypeOK, vars
<1> QED
  BY <1>1, <1>2, <1>3, <1>4, <1>5, <1>6, <1>7, <1>8, <1>9, <1>10, <1>11, <1>12, <1>13
  DEF Next, HandlerStep, SubscriptionStep

(* TypeOK holds in every reachable state, whatever the constants. *)
THEOREM TypeCorrect == Spec => []TypeOK
<1>1. Init => TypeOK /\ Busy
  BY InitTyped
<1>2. (TypeOK /\ Busy) /\ [Next]_vars => (TypeOK /\ Busy)'
  BY NextTyped
<1> QED
  BY <1>1, <1>2, PTL DEF Spec

-----------------------------------------------------------------------------
(* The claim on a key. *)

LEMMA InitClaims == Init => Claims
BY DEF Init, Claims, OneClaimant, ClaimMarked, MarkerFirst, FreshClaim,
       TaskMatchesPushes, NoDoublePush, ClaimSettled, OkMeansMarked, InvalidIsDead,
       FateKnown, NoBatch

(* Steps outside the handlers that touch neither requests nor pushes.       *)
LEMMA QuietClaims ==
  ASSUME TypeOK, Claims,
         UNCHANGED <<pc, job, code, task, batch, mark, pushes, fate, audience, lost>>,
         malformed \subseteq malformed',
         alive' \subseteq alive,
         \A m \in Messages : status'[m] = "acked" => status[m] = "acked"
  PROVE  Claims'
<1> USE DEF Claims, Key, Claimant
<1>1. OneClaimant' /\ ClaimMarked' /\ MarkerFirst' /\ FreshClaim'
  BY DEF OneClaimant, ClaimMarked, MarkerFirst, FreshClaim
<1>2. TaskMatchesPushes' /\ NoDoublePush' /\ ClaimSettled'
  BY DEF TaskMatchesPushes, NoDoublePush, ClaimSettled
<1>3. OkMeansMarked'
  BY DEF OkMeansMarked
<1>4. InvalidIsDead' /\ FateKnown'
  BY DEF InvalidIsDead, FateKnown
<1> QED
  BY <1>1, <1>2, <1>3, <1>4

(* Steps of a request before it claims anything, or after it has finished:  *)
(* the handler is no claimant before nor after, and answers 200 only for a  *)
(* key that is marked.                                                      *)
LEMMA BystanderClaims ==
  ASSUME TypeOK, Busy, Claims, NEW h \in Handlers,
         pc[h] \notin {"resolve", "deliver"},
         pc'[h] \notin {"resolve", "deliver"},
         \A g \in Handlers \ {h} :
           pc'[g] = pc[g] /\ job'[g] = job[g] /\ code'[g] = code[g] /\ task'[g] = task[g],
         \A g \in Handlers, u \in Users :
           batch'[g][u].invalid \in {batch[g][u].invalid, {}},
         pc'[h] = "reply" /\ code'[h] = 200 /\ job'[h] \notin malformed' =>
           mark'[KeyOf[job'[h]]] = "present",
         \A m \in Messages \ malformed :
           status'[m] = "acked" => status[m] = "acked" \/ mark[KeyOf[m]] = "present",
         \A k \in Keys : mark'[k] = mark[k] \/ mark'[k] = "present",
         \A k \in Keys : lost[k] => lost'[k],
         UNCHANGED <<malformed, pushes, fate, audience, alive>>
  PROVE  Claims'
<1> USE DEF Claims, Key, Claimant
<1>1. OneClaimant' /\ ClaimMarked'
  BY NotifierAssumption DEF OneClaimant, ClaimMarked, TypeOK, RequestTypeOK, Busy
<1>2. MarkerFirst' /\ FreshClaim'
  <2>1. MarkerFirst'
    BY DEF MarkerFirst
  <2>2. \A g \in Handlers : pc'[g] = "resolve" => pc[g] = "resolve" /\ job'[g] = job[g]
    OBVIOUS
  <2>3. FreshClaim'
    BY <2>2 DEF FreshClaim
  <2> QED
    BY <2>1, <2>3
<1>3. TaskMatchesPushes' /\ NoDoublePush'
  BY DEF TaskMatchesPushes, NoDoublePush
<1>4. ClaimSettled'
  <2> SUFFICES ASSUME NEW k \in Keys, ~lost'[k],
                      ~ \A u \in audience'[k] : pushes'[k][u] = 1
               PROVE  (\E g \in Handlers : Claimant(g, k))'
    BY DEF ClaimSettled
  <2>1. PICK g \in Handlers : Claimant(g, k)
    BY DEF ClaimSettled
  <2>2. g # h
    BY <2>1
  <2> QED
    BY <2>1, <2>2
<1>5. OkMeansMarked'
  BY NotifierAssumption DEF OkMeansMarked, TypeOK, RequestTypeOK, Busy
<1>6. InvalidIsDead' /\ FateKnown'
  BY DEF InvalidIsDead, FateKnown
<1> QED
  BY <1>1, <1>2, <1>3, <1>4, <1>5, <1>6

(* A handler that stops being a claimant leaves its key settled: its failure *)
(* was recorded, or everyone it resolved was reached.                       *)
LEMMA LeaveClaims ==
  ASSUME TypeOK, Busy, Claims, NEW h \in Handlers,
         pc[h] \in {"resolve", "deliver"},
         pc'[h] \in {"idle", "reply"},
         \A g \in Handlers \ {h} :
           pc'[g] = pc[g] /\ job'[g] = job[g] /\ code'[g] = code[g] /\ task'[g] = task[g],
         pc'[h] = "reply" => job'[h] = job[h],
         \A g \in Handlers, u \in Users :
           batch'[g][u].invalid \in {batch[g][u].invalid, {}},
         lost'[Key(h)] \/ \A u \in audience[Key(h)] : pushes[Key(h)][u] = 1,
         \A k \in Keys : lost[k] => lost'[k],
         UNCHANGED <<status, malformed, mark, pushes, fate, audience, alive>>
  PROVE  Claims'
<1> USE DEF Claims, Key, Claimant
<1>1. OneClaimant' /\ ClaimMarked'
  BY DEF OneClaimant, ClaimMarked, TypeOK, RequestTypeOK
<1>2. MarkerFirst' /\ FreshClaim'
  BY DEF MarkerFirst, FreshClaim
<1>3. TaskMatchesPushes' /\ NoDoublePush'
  BY DEF TaskMatchesPushes, NoDoublePush
<1>4. ClaimSettled'
  <2> SUFFICES ASSUME NEW k \in Keys, ~lost'[k],
                      ~ \A u \in audience'[k] : pushes'[k][u] = 1
               PROVE  (\E g \in Handlers : Claimant(g, k))'
    BY DEF ClaimSettled
  <2>1. PICK g \in Handlers : Claimant(g, k)
    BY DEF ClaimSettled
  <2>2. g # h
    BY <2>1
  <2> QED
    BY <2>1, <2>2
<1>5. OkMeansMarked'
  BY DEF OkMeansMarked, ClaimMarked
<1>6. InvalidIsDead' /\ FateKnown'
  BY DEF InvalidIsDead, FateKnown
<1> QED
  BY <1>1, <1>2, <1>3, <1>4, <1>5, <1>6

(* Writing the marker of an unmarked key makes its handler the claimant.    *)
LEMMA ClaimClaims ==
  ASSUME TypeOK, Busy, Claims, NEW h \in Handlers,
         pc[h] = "dedup", ~AlreadySeen(Key(h)),
         mark' = Marked(Key(h)), Goto(h, "resolve"),
         UNCHANGED <<status, malformed, job, code, task, batch>>,
         UNCHANGED <<pushes, fate, audience, lost, alive>>
  PROVE  Claims'
<1> USE DEF Claims, Key, Claimant, Goto, TypeOK, RequestTypeOK
<1>1. KeyOf[job[h]] \in Keys
  BY KeyTyped
<1>2. /\ \A k \in Keys : mark'[k] = IF k = KeyOf[job[h]] THEN "present" ELSE mark[k]
      /\ mark[KeyOf[job[h]]] # "present"
  BY <1>1 DEF StoreTypeOK, Marked, AlreadySeen
<1>3. OneClaimant'
  BY <1>2 DEF OneClaimant, ClaimMarked
<1>4. ClaimMarked'
  BY <1>1, <1>2, KeyTyped DEF ClaimMarked
<1>5. MarkerFirst' /\ FreshClaim'
  BY <1>1, <1>2 DEF MarkerFirst, FreshClaim
<1>6. TaskMatchesPushes' /\ NoDoublePush' /\ InvalidIsDead' /\ FateKnown'
  BY DEF TaskMatchesPushes, NoDoublePush, InvalidIsDead, FateKnown
<1>7. ClaimSettled'
  BY DEF ClaimSettled
<1>8. OkMeansMarked'
  BY <1>2, KeyTyped, NotifierAssumption DEF OkMeansMarked
<1> QED
  BY <1>3, <1>4, <1>5, <1>6, <1>7, <1>8

(* The claimant turns the subscribers it resolved into queued goroutines.   *)
LEMMA ResolveClaims ==
  ASSUME TypeOK, Busy, Claims, NEW h \in Handlers, NEW subs \in SUBSET Users,
         pc[h] = "resolve", Goto(h, "deliver"),
         task' = [task EXCEPT ![h] = [u \in Users |->
                    IF u \in subs THEN "queued" ELSE "none"]],
         audience' = [audience EXCEPT ![Key(h)] = subs],
         UNCHANGED <<status, malformed, job, code, mark, batch, pushes, fate, lost, alive>>
  PROVE  Claims'
<1> USE DEF Claims, Key, Claimant, Goto, TypeOK, RequestTypeOK
<1>1. KeyOf[job[h]] \in Keys
  BY KeyTyped
<1>2. \A k \in Keys : audience'[k] = IF k = KeyOf[job[h]] THEN subs ELSE audience[k]
  BY <1>1 DEF HistoryTypeOK
<1>3. \A u \in Users : task'[h][u] = IF u \in subs THEN "queued" ELSE "none"
  BY DEF DeliveryTypeOK
<1>4. \A g \in Handlers \ {h} : task'[g] = task[g] /\ pc'[g] = pc[g]
  BY DEF DeliveryTypeOK
<1>5. OneClaimant' /\ ClaimMarked'
  BY DEF OneClaimant, ClaimMarked
<1>6. MarkerFirst'
  BY <1>2 DEF MarkerFirst, ClaimMarked
<1>7. FreshClaim'
  BY <1>2, <1>4, KeyTyped DEF FreshClaim, OneClaimant
<1>8. TaskMatchesPushes'
  <2> SUFFICES ASSUME NEW g \in Handlers, NEW u \in Users, pc'[g] = "deliver"
               PROVE  /\ task'[g][u] = "queued" => pushes[KeyOf[job[g]]][u] = 0
                      /\ task'[g][u] \notin {"none", "queued"} => pushes[KeyOf[job[g]]][u] = 1
                      /\ u \in audience'[KeyOf[job[g]]] => task'[g][u] # "none"
    BY DEF TaskMatchesPushes
  <2>1. CASE g = h
    BY <1>1, <1>2, <1>3, <2>1 DEF FreshClaim
  <2>2. CASE g # h
    <3>1. pc[g] = "deliver" /\ KeyOf[job[g]] # KeyOf[job[h]] /\ KeyOf[job[g]] \in Keys
      BY <1>4, <2>2, KeyTyped DEF OneClaimant
    <3> QED
      BY <1>2, <1>4, <2>2, <3>1 DEF TaskMatchesPushes
  <2> QED
    BY <2>1, <2>2
<1>9. ClaimSettled'
  BY <1>1, <1>2 DEF ClaimSettled
<1>10. NoDoublePush' /\ OkMeansMarked' /\ InvalidIsDead' /\ FateKnown'
  BY DEF NoDoublePush, OkMeansMarked, InvalidIsDead, FateKnown
<1> QED
  BY <1>5, <1>6, <1>7, <1>8, <1>9, <1>10

(* One multicast: the goroutine of u leaves the queue as u is pushed.       *)
LEMMA SendClaims ==
  ASSUME TypeOK, Busy, Claims, NEW h \in Handlers, NEW u \in Users, SendMulticast(h, u)
  PROVE  Claims'
<1>0. \E s \in {"cleanup", "count"} : \E b, f :
         /\ task' = [task EXCEPT ![h][u] = s]
         /\ batch' = [batch EXCEPT ![h][u] = b]
         /\ fate' = [fate EXCEPT ![Key(h)][u] = f]
         /\ AnswerOf(snap[h][u], b, f)
  BY SendEffect
<1>2a. PICK s \in {"cleanup", "count"} : \E b, f :
         /\ task' = [task EXCEPT ![h][u] = s]
         /\ batch' = [batch EXCEPT ![h][u] = b]
         /\ fate' = [fate EXCEPT ![Key(h)][u] = f]
         /\ AnswerOf(snap[h][u], b, f)
  BY <1>0
<1>2c. PICK b, f :
         /\ task' = [task EXCEPT ![h][u] = s]
         /\ batch' = [batch EXCEPT ![h][u] = b]
         /\ fate' = [fate EXCEPT ![Key(h)][u] = f]
         /\ AnswerOf(snap[h][u], b, f)
  BY <1>2a
<1> DEFINE k == KeyOf[job[h]]
<1> USE DEF Claims, Key, Claimant
<1>1. k \in Keys /\ pc[h] = "deliver" /\ task[h][u] = "queued"
  BY KeyTyped DEF SendMulticast
<1>2. /\ UNCHANGED <<status, malformed, pc, job, code, mark, audience, lost, alive>>
      /\ pushes' = [pushes EXCEPT ![k][u] = @ + 1]
  BY DEF SendMulticast, pubsub, request
<1>2b. fate' = [fate EXCEPT ![k][u] = f] /\ b.invalid \cap alive = {} /\ f # "none"
  BY <1>2c DEF AnswerOf
<1>3. /\ task'[h][u] \in {"cleanup", "count"}
      /\ \A g \in Handlers, v \in Users : <<g, v>> # <<h, u>> => task'[g][v] = task[g][v]
  BY <1>2c DEF TypeOK, DeliveryTypeOK
<1>4. \A g \in Handlers, v \in Users : batch'[g][v].invalid \cap alive = {}
  BY <1>2c, <1>2b DEF InvalidIsDead, TypeOK, DeliveryTypeOK
<1>5. pushes[k][u] = 0
  BY <1>1 DEF TaskMatchesPushes
<1>6. /\ pushes'[k][u] = 1
      /\ \A l \in Keys, v \in Users : <<l, v>> # <<k, u>> => pushes'[l][v] = pushes[l][v]
  BY <1>1, <1>2, <1>5 DEF TypeOK, HistoryTypeOK
<1>6a. /\ fate'[k][u] # "none"
       /\ \A l \in Keys, v \in Users : <<l, v>> # <<k, u>> => fate'[l][v] = fate[l][v]
  BY <1>1, <1>2b DEF TypeOK, HistoryTypeOK
<1> HIDE DEF k
<1>7. OneClaimant' /\ ClaimMarked'
  BY <1>2 DEF OneClaimant, ClaimMarked
<1>8. MarkerFirst'
  BY <1>1, <1>2, <1>6 DEF MarkerFirst, ClaimMarked, k
<1>9. FreshClaim'
  BY <1>1, <1>2, <1>6, KeyTyped DEF FreshClaim, OneClaimant, k
<1>10. TaskMatchesPushes'
  <2> SUFFICES ASSUME NEW g \in Handlers, NEW v \in Users, pc[g] = "deliver"
               PROVE  /\ task'[g][v] = "queued" => pushes'[KeyOf[job[g]]][v] = 0
                      /\ task'[g][v] \notin {"none", "queued"} => pushes'[KeyOf[job[g]]][v] = 1
                      /\ v \in audience[KeyOf[job[g]]] => task'[g][v] # "none"
    BY <1>2 DEF TaskMatchesPushes
  <2>1. KeyOf[job[g]] \in Keys
    BY KeyTyped
  <2>2. CASE g = h /\ v = u
    BY <1>3, <1>6, <2>2 DEF k
  <2>3. CASE g = h /\ v # u
    BY <1>3, <1>6, <2>1, <2>3 DEF TaskMatchesPushes
  <2>4. CASE g # h
    <3>1. KeyOf[job[g]] # k
      BY <1>1, <2>4 DEF OneClaimant, k
    <3> QED
      BY <1>3, <1>6, <2>1, <2>4, <3>1 DEF TaskMatchesPushes
  <2> QED
    BY <2>2, <2>3, <2>4
<1>11. NoDoublePush'
  BY <1>6 DEF NoDoublePush
<1>12. ClaimSettled'
  BY <1>2, <1>6 DEF ClaimSettled, TypeOK, HistoryTypeOK
<1>13. OkMeansMarked'
  BY <1>2 DEF OkMeansMarked
<1>14. InvalidIsDead'
  BY <1>2, <1>4 DEF InvalidIsDead
<1>15. FateKnown'
  <2> SUFFICES ASSUME NEW l \in Keys, NEW v \in Users
               PROVE  fate'[l][v] = "none" <=> pushes'[l][v] = 0
    BY DEF FateKnown
  <2>1. CASE l = k /\ v = u
    BY <1>6, <1>6a, <2>1
  <2>2. CASE ~(l = k /\ v = u)
    BY <1>6, <1>6a, <2>2 DEF FateKnown
  <2> QED
    BY <2>1, <2>2
<1> QED
  BY <1>15, <1>7, <1>8, <1>9, <1>10, <1>11, <1>12, <1>13, <1>14

(* What the later steps of a goroutine do, from the clean-up to its end.    *)
LEMMA WorkEffect ==
  ASSUME TypeOK, NEW h \in Handlers, NEW u \in Users,
         RemoveInvalidTokens(h, u) \/ LockResult(h, u) \/ AddOutcome(h, u)
  PROVE  /\ pc[h] = "deliver"
         /\ task[h][u] \in {"cleanup", "count", "add"}
         /\ task'[h][u] \in {"count", "add", "done"}
         /\ \A g \in Handlers, v \in Users : <<g, v>> # <<h, u>> => task'[g][v] = task[g][v]
         /\ \A g \in Handlers, v \in Users :
              batch'[g][v].invalid \in {batch[g][v].invalid, {}}
         /\ UNCHANGED <<status, malformed, pc, job, code, snap, mark>>
         /\ UNCHANGED <<pushes, fate, audience, lost, alive>>
<1>1. CASE RemoveInvalidTokens(h, u)
  <2>1. \A g \in Handlers, v \in Users : batch'[g][v].invalid = batch[g][v].invalid
    <3>1. CASE UNCHANGED batch
      BY <3>1
    <3>2. CASE batch' = [batch EXCEPT ![h][u].removed = Cardinality(batch[h][u].invalid)]
      BY <3>2 DEF TypeOK, DeliveryTypeOK
    <3> QED
      BY <1>1, <3>1, <3>2 DEF RemoveInvalidTokens
  <2> QED
    BY <1>1, <2>1 DEF RemoveInvalidTokens, pubsub, request, history, TypeOK, DeliveryTypeOK
<1>2. CASE LockResult(h, u)
  BY <1>2 DEF LockResult, pubsub, request, history, TypeOK, DeliveryTypeOK
<1>3. CASE AddOutcome(h, u)
  <2>1. \A g \in Handlers, v \in Users : batch'[g][v] \in {batch[g][v], NoBatch}
    BY <1>3 DEF AddOutcome, TypeOK, DeliveryTypeOK
  <2>2. \A g \in Handlers, v \in Users : batch'[g][v].invalid \in {batch[g][v].invalid, {}}
    BY <2>1 DEF NoBatch
  <2> QED
    BY <1>3, <2>2 DEF AddOutcome, pubsub, request, history, TypeOK, DeliveryTypeOK
<1> QED
  BY <1>1, <1>2, <1>3

LEMMA WorkClaims ==
  ASSUME TypeOK, Busy, Claims, NEW h \in Handlers, NEW u \in Users,
         RemoveInvalidTokens(h, u) \/ LockResult(h, u) \/ AddOutcome(h, u)
  PROVE  Claims'
<1> USE DEF Claims, Key, Claimant
<1>1. /\ UNCHANGED <<status, malformed, pc, job, code, mark>>
      /\ UNCHANGED <<pushes, fate, audience, lost, alive>>
  BY WorkEffect
<1>2. /\ task[h][u] \notin {"none", "queued"} /\ task'[h][u] \notin {"none", "queued"}
      /\ \A g \in Handlers, v \in Users : <<g, v>> # <<h, u>> => task'[g][v] = task[g][v]
  BY WorkEffect
<1>3. OneClaimant' /\ ClaimMarked' /\ MarkerFirst' /\ FreshClaim'
  BY <1>1 DEF OneClaimant, ClaimMarked, MarkerFirst, FreshClaim
<1>4. TaskMatchesPushes'
  BY <1>1, <1>2 DEF TaskMatchesPushes
<1>5. NoDoublePush' /\ ClaimSettled' /\ FateKnown'
  BY <1>1 DEF NoDoublePush, ClaimSettled, FateKnown
<1>6. OkMeansMarked' /\ InvalidIsDead'
  BY <1>1, WorkEffect DEF OkMeansMarked, InvalidIsDead
<1> QED
  BY <1>3, <1>4, <1>5, <1>6

LEMMA ReapClaims ==
  ASSUME TypeOK, Busy, Claims, NEW k \in Keys, Reap(k)
  PROVE  Claims'
<1> USE DEF Claims, Key, Claimant
<1>1. UNCHANGED <<status, malformed, pc, job, code, task, batch, alive>>
  BY DEF Reap, pubsub, request, delivery
<1>2. \A h \in Handlers : pc[h] # "idle" => KeyOf[job[h]] # k
  BY KeyTyped, NotifierAssumption DEF Reap
<1>3. /\ mark'[k] = "reaped" /\ audience'[k] = {}
      /\ \A u \in Users : pushes'[k][u] = 0 /\ fate'[k][u] = "none"
      /\ \A l \in Keys \ {k} : /\ mark'[l] = mark[l]
                              /\ fate'[l] = fate[l]
                              /\ audience'[l] = audience[l]
                              /\ pushes'[l] = pushes[l]
                              /\ lost'[l] = lost[l]
  BY DEF Reap, TypeOK, StoreTypeOK, HistoryTypeOK
<1>4. OneClaimant' /\ ClaimMarked'
  BY <1>1, <1>2, <1>3, KeyTyped DEF OneClaimant, ClaimMarked
<1>5. MarkerFirst' /\ FreshClaim'
  BY <1>1, <1>2, <1>3, KeyTyped DEF MarkerFirst, FreshClaim
<1>6. TaskMatchesPushes'
  BY <1>1, <1>2, <1>3, KeyTyped DEF TaskMatchesPushes
<1>7. NoDoublePush' /\ ClaimSettled' /\ FateKnown'
  BY <1>1, <1>3 DEF NoDoublePush, ClaimSettled, FateKnown
<1>8. OkMeansMarked'
  BY <1>1, <1>2, <1>3, KeyTyped, NotifierAssumption DEF OkMeansMarked
<1>9. InvalidIsDead'
  BY <1>1 DEF InvalidIsDead
<1> QED
  BY <1>4, <1>5, <1>6, <1>7, <1>8, <1>9

(* What a request that ends leaves behind. *)
LEMMA ReleaseEffect ==
  ASSUME TypeOK, NEW h \in Handlers, Release(h)
  PROVE  /\ pc'[h] = "idle"
         /\ \A g \in Handlers \ {h} :
              /\ pc'[g] = pc[g] /\ job'[g] = job[g]
              /\ code'[g] = code[g] /\ task'[g] = task[g] /\ snap'[g] = snap[g]
         /\ \A g \in Handlers, u \in Users :
              batch'[g][u].invalid \in {batch[g][u].invalid, {}}
<1> USE DEF TypeOK, RequestTypeOK, DeliveryTypeOK, Release, Goto
<1>1. pc'[h] = "idle"
  OBVIOUS
<1>2. \A g \in Handlers \ {h} :
        /\ pc'[g] = pc[g] /\ job'[g] = job[g]
        /\ code'[g] = code[g] /\ task'[g] = task[g] /\ snap'[g] = snap[g]
  OBVIOUS
<1>3. \A g \in Handlers, u \in Users :
        batch'[g][u].invalid \in {batch[g][u].invalid, {}}
  <2> TAKE g \in Handlers, u \in Users
  <2>1. batch'[g] = IF g = h THEN [v \in Users |-> NoBatch] ELSE batch[g]
    OBVIOUS
  <2> QED
    BY <2>1 DEF NoBatch
<1> QED
  BY <1>1, <1>2, <1>3

(* Every step keeps the claims. *)
LEMMA NextClaims == TypeOK /\ Busy /\ Claims /\ [Next]_vars => Claims'
<1> SUFFICES ASSUME TypeOK, Busy, Claims, [Next]_vars PROVE Claims'
  OBVIOUS
<1>1. ASSUME NEW m \in Messages, Publish(m) \/ DeadLetter(m) PROVE Claims'
  <2>1. \A n \in Messages : status'[n] = "acked" => status[n] = "acked"
    BY <1>1 DEF Publish, DeadLetter, TypeOK, PubSubTypeOK
  <2>2. malformed \subseteq malformed'
    BY <1>1 DEF Publish, DeadLetter
  <2> QED
    BY <1>1, <2>1, <2>2, QuietClaims DEF Publish, DeadLetter, request, delivery, history
<1>2. ASSUME NEW h \in Handlers, AckDeadline(h) PROVE Claims'
  BY <1>2, QuietClaims DEF AckDeadline, pubsub, delivery, history
<1>3. ASSUME NEW t \in Tokens, Uninstall(t) \/ RegisterFcmToken(t) PROVE Claims'
  BY <1>3, QuietClaims DEF Uninstall, RegisterFcmToken, pubsub, request, delivery, history
<1>4. ASSUME UNCHANGED vars PROVE Claims'
  BY <1>4, QuietClaims DEF vars, pubsub, request, delivery, history
<1>5. ASSUME NEW m \in Messages, NEW h \in Handlers, Deliver(m, h) PROVE Claims'
  <2>1. pc[h] = "idle" /\ pc'[h] = "push"
    BY <1>5 DEF Deliver, Goto, TypeOK, RequestTypeOK
  <2>2. /\ \A g \in Handlers \ {h} : pc'[g] = pc[g] /\ job'[g] = job[g]
        /\ UNCHANGED <<status, malformed, code, task, batch, mark, alive>>
        /\ UNCHANGED <<pushes, fate, audience, lost>>
    BY <1>5 DEF Deliver, Goto, TypeOK, RequestTypeOK, delivery, history
  <2> QED
    BY <2>1, <2>2, BystanderClaims
<1>6. ASSUME NEW h \in Handlers, Push(h) PROVE Claims'
  <2>1. pc[h] = "push"
    BY <1>6 DEF Push
  <2>2. /\ pc'[h] \in {"reply", "dedup"}
        /\ pc'[h] = "reply" => code'[h] \in {400, 500}
        /\ \A g \in Handlers \ {h} : pc'[g] = pc[g] /\ code'[g] = code[g]
    BY <1>6 DEF Push, Reply, Goto, ErrorStatus, TypeOK, RequestTypeOK
  <2>3. /\ UNCHANGED <<status, malformed, job, task, batch, mark, alive>>
        /\ UNCHANGED <<pushes, fate, audience, lost>>
    BY <1>6 DEF Push, pubsub, delivery, history
  <2> QED
    BY <2>1, <2>2, <2>3, BystanderClaims
<1>7. ASSUME NEW h \in Handlers, CheckAndMark(h) PROVE Claims'
  <2> DEFINE k == Key(h)
  <2>1. /\ pc[h] = "dedup"
        /\ k \in Keys
        /\ UNCHANGED <<status, malformed, job, task, batch, alive, pushes, fate, audience>>
    BY <1>7, KeyTyped DEF CheckAndMark, pubsub, delivery
  <2>2. ASSUME NEW c \in {200, 500}, Reply(h, c)
        PROVE  /\ pc'[h] = "reply" /\ code'[h] = c
               /\ \A g \in Handlers \ {h} : pc'[g] = pc[g] /\ code'[g] = code[g]
    BY <2>2 DEF Reply, Goto, TypeOK, RequestTypeOK
  <2>3. CASE AlreadySeen(k) /\ Reply(h, 200) /\ UNCHANGED <<mark, lost>>
    BY <2>1, <2>2, <2>3, BystanderClaims DEF AlreadySeen, Key
  <2>4. CASE Reply(h, ErrorStatus) /\ UNCHANGED <<mark, lost>>
    BY <2>1, <2>2, <2>4, BystanderClaims DEF ErrorStatus
  <2>5. CASE ~AlreadySeen(k) /\ mark' = Marked(k) /\ Goto(h, "resolve")
               /\ UNCHANGED <<code, lost>>
    BY <2>1, <2>5, ClaimClaims
  <2>6. CASE mark' = Marked(k) /\ lost' = [lost EXCEPT ![k] = TRUE] /\ Reply(h, ErrorStatus)
    <3>1. \A l \in Keys : mark'[l] = mark[l] \/ mark'[l] = "present"
      BY <2>6 DEF Marked, TypeOK, StoreTypeOK
    <3>2. \A l \in Keys : lost[l] => lost'[l]
      BY <2>6 DEF TypeOK, HistoryTypeOK
    <3> QED
      BY <2>1, <2>2, <2>6, <3>1, <3>2, BystanderClaims DEF ErrorStatus
  <2> QED
    BY <1>7, <2>3, <2>4, <2>5, <2>6 DEF CheckAndMark
<1>8. ASSUME NEW h \in Handlers, ResolveSubscribers(h) PROVE Claims'
  <2> DEFINE k == Key(h)
             subs == FindSubscribers(job[h])
  <2>1. /\ pc[h] = "resolve"
        /\ k \in Keys
        /\ UNCHANGED <<status, malformed, job, batch, mark, alive, pushes, fate>>
    BY <1>8, KeyTyped DEF ResolveSubscribers, pubsub
  <2>2. ASSUME NEW c \in {200, 500}, Reply(h, c)
        PROVE  /\ pc'[h] = "reply"
               /\ \A g \in Handlers \ {h} : pc'[g] = pc[g] /\ code'[g] = code[g]
    BY <2>2 DEF Reply, Goto, TypeOK, RequestTypeOK
  <2>3. CASE lost' = [lost EXCEPT ![k] = TRUE] /\ Reply(h, ErrorStatus)
               /\ UNCHANGED <<task, snap, audience>>
    <3>1. lost'[k] /\ \A l \in Keys : lost[l] => lost'[l]
      BY <2>1, <2>3 DEF TypeOK, HistoryTypeOK
    <3> QED
      BY <2>1, <2>2, <2>3, <3>1, LeaveClaims DEF ErrorStatus
  <2>4. CASE Reply(h, 200) /\ UNCHANGED <<task, snap, audience, lost>>
    <3>1. audience[k] = {}
      BY <2>1 DEF Claims, FreshClaim
    <3> QED
      BY <2>1, <2>2, <2>4, <3>1, LeaveClaims
  <2>5. CASE /\ task' = [task EXCEPT ![h] = [u \in Users |->
                           IF u \in subs THEN "queued" ELSE "none"]]
             /\ audience' = [audience EXCEPT ![k] = subs]
             /\ Goto(h, "deliver")
             /\ UNCHANGED <<code, lost>>
    <3>1. subs \in SUBSET Users
      BY DEF FindSubscribers
    <3> HIDE DEF subs
    <3> QED
      BY <2>1, <2>5, <3>1, ResolveClaims
  <2> QED
    BY <1>8, <2>3, <2>4, <2>5 DEF ResolveSubscribers
<1>9. ASSUME NEW h \in Handlers, NEW u \in Users,
             \/ SendMulticast(h, u) \/ RemoveInvalidTokens(h, u)
             \/ LockResult(h, u) \/ AddOutcome(h, u)
      PROVE  Claims'
  BY <1>9, SendClaims, WorkClaims
<1>10. ASSUME NEW h \in Handlers, WaitAll(h) PROVE Claims'
  <2>1. /\ pc[h] = "deliver" /\ pc'[h] = "reply"
        /\ \A g \in Handlers \ {h} : pc'[g] = pc[g] /\ code'[g] = code[g]
        /\ UNCHANGED <<status, malformed, job, task, batch, mark, alive>>
        /\ UNCHANGED <<pushes, fate, audience, lost>>
    BY <1>10 DEF WaitAll, Reply, Goto, TypeOK, RequestTypeOK, pubsub, delivery, history
  <2>2. \A u \in audience[Key(h)] : pushes[Key(h)][u] = 1
    BY <1>10, <2>1, KeyTyped
    DEF WaitAll, AllDone, Claims, TaskMatchesPushes, TypeOK, HistoryTypeOK
  <2> QED
    BY <2>1, <2>2, LeaveClaims
<1>11. ASSUME NEW h \in Handlers, Respond(h) PROVE Claims'
  <2>1. /\ pc[h] = "reply"
        /\ Release(h)
        /\ UNCHANGED <<malformed, mark, alive, pushes, fate, audience, lost>>
    BY <1>11 DEF Respond, history
  <2>2. \A m \in Messages \ malformed :
          status'[m] = "acked" => status[m] = "acked" \/ mark[KeyOf[m]] = "present"
    BY <1>11, <2>1 DEF Respond, TypeOK, PubSubTypeOK, Claims, OkMeansMarked, Key
  <2> QED
    BY <2>1, <2>2, ReleaseEffect, BystanderClaims
<1>12. ASSUME NEW h \in Handlers, Kill(h) PROVE Claims'
  <2>1. /\ pc[h] # "idle"
        /\ Release(h)
        /\ Key(h) \in Keys
        /\ UNCHANGED <<status, malformed, mark, alive, pushes, fate, audience>>
        /\ lost' = IF Unfinished(h) THEN [lost EXCEPT ![Key(h)] = TRUE] ELSE lost
    BY <1>12, KeyTyped DEF Kill, pubsub
  <2>2. \A l \in Keys : lost[l] => lost'[l]
    BY <2>1 DEF TypeOK, HistoryTypeOK
  <2>3. CASE pc[h] \in {"resolve", "deliver"}
    <3>1. lost'[Key(h)] \/ \A u \in audience[Key(h)] : pushes[Key(h)][u] = 1
      <4>1. CASE Unfinished(h)
        BY <2>1, <4>1 DEF TypeOK, HistoryTypeOK
      <4>2. CASE ~Unfinished(h)
        <5>1. pc[h] = "deliver" /\ \A u \in Users : task[h][u] # "queued"
          BY <2>3, <4>2 DEF Unfinished
        <5>2. \A u \in audience[Key(h)] :
                u \in Users /\ task[h][u] \notin {"none", "queued"}
          BY <2>1, <5>1 DEF Claims, TaskMatchesPushes, TypeOK, HistoryTypeOK, DeliveryTypeOK
        <5> QED
          BY <5>1, <5>2 DEF Claims, TaskMatchesPushes
      <4> QED
        BY <4>1, <4>2
    <3> QED
      BY <2>1, <2>2, <2>3, <3>1, ReleaseEffect, LeaveClaims
  <2>4. CASE pc[h] \notin {"resolve", "deliver"}
    BY <2>1, <2>2, <2>4, ReleaseEffect, BystanderClaims
  <2> QED
    BY <2>3, <2>4
<1>13. ASSUME NEW k \in Keys, Reap(k) PROVE Claims'
  BY <1>13, ReapClaims
<1> QED
  BY <1>1, <1>2, <1>3, <1>4, <1>5, <1>6, <1>7, <1>8, <1>9, <1>10, <1>11, <1>12, <1>13
  DEF Next, HandlerStep, SubscriptionStep

-----------------------------------------------------------------------------
(* The results. *)

LEMMA Inductive == Spec => [](TypeOK /\ Busy /\ Claims)
<1>1. Init => TypeOK /\ Busy /\ Claims
  BY InitTyped, InitClaims
<1>2. (TypeOK /\ Busy /\ Claims) /\ [Next]_vars => (TypeOK /\ Busy /\ Claims)'
  BY NextTyped, NextClaims
<1> QED
  BY <1>1, <1>2, PTL DEF Spec

(* No user is handed to FCM twice for one event while its marker lives,     *)
(* however many requests run and however often a message is pushed.        *)
THEOREM AtMostOnce == Spec => []NoDoublePush
<1>1. Claims => NoDoublePush
  BY DEF Claims
<1> QED
  BY <1>1, Inductive, PTL

-----------------------------------------------------------------------------
(* Who is reached: everyone who expects the event is among the subscribers  *)
(* its claimant resolves, and nobody else is pushed.                        *)

(* The preference of u covers the event m carries. *)
CoversMessage(u, m) == Covers(u, Country[m], InfoType[m])

JobPublished ==
  \A h \in Handlers : pc[h] # "idle" => status[job[h]] # "unpublished"

LiveListed == \A t \in InitTokens \cap alive : t \in tokens[Owner[t]]

(* A marked key whose claimant has not failed is about to be resolved, or   *)
(* everyone who expects its event has been.                                 *)
ExpectedResolved ==
  \A k \in Keys : mark[k] = "present" /\ ~lost[k] =>
    \/ \E h \in Handlers : pc[h] = "resolve" /\ Key(h) = k
    \/ \A u \in Users : Expects(u, k) => u \in audience[k]

TaskCovered ==
  \A h \in Handlers, u \in Users :
    pc[h] = "deliver" /\ task[h][u] # "none" => CoversMessage(u, job[h])

(* Whoever is pushed asked for a published message of the event. *)
PushedCovered ==
  \A k \in Keys, u \in Users : pushes[k][u] > 0 =>
    \E m \in Messages : /\ KeyOf[m] = k
                        /\ status[m] # "unpublished"
                        /\ CoversMessage(u, m)

(* The list read for a subscriber holds the live tokens it had all along.   *)
SnapListed ==
  \A h \in Handlers, t \in InitTokens \cap alive :
    pc[h] = "deliver" /\ task[h][Owner[t]] # "none" => t \in snap[h][Owner[t]]

GoneIsUnreachable ==
  \A k \in Keys, u \in Users : fate[k][u] = "gone" => ~Reachable(u)

Reach ==
  /\ JobPublished
  /\ LiveListed
  /\ ExpectedResolved
  /\ TaskCovered
  /\ PushedCovered
  /\ SnapListed
  /\ GoneIsUnreachable

LEMMA InitReach == Init => Reach
<1> SUFFICES ASSUME Init PROVE Reach
  OBVIOUS
<1>1. JobPublished /\ ExpectedResolved /\ TaskCovered /\ PushedCovered
  BY DEF Init, JobPublished, ExpectedResolved, TaskCovered, PushedCovered
<1>1a. SnapListed /\ GoneIsUnreachable
  BY DEF Init, SnapListed, GoneIsUnreachable
<1>2. LiveListed
  BY NotifierAssumption DEF Init, LiveListed
<1> QED
  BY <1>1, <1>1a, <1>2 DEF Reach

(* Of the tokens FCM accepts, a step takes none out of a document. *)
LEMMA TokensStep ==
  ASSUME TypeOK, Claims, [Next]_vars
  PROVE  /\ \A u \in Users : (tokens[u] \ tokens'[u]) \cap alive = {}
         /\ alive' \subseteq alive
<1> DEFINE Kept == \A u \in Users : (tokens[u] \ tokens'[u]) \cap alive = {}
<1>1. ASSUME NEW h \in Handlers, NEW u \in Users, RemoveInvalidTokens(h, u) PROVE Kept
  <2>1. batch[h][u].invalid \cap alive = {}
    BY DEF Claims, InvalidIsDead
  <2>2. \/ tokens' = [tokens EXCEPT ![u] = tokens[u] \ batch[h][u].invalid]
        \/ UNCHANGED tokens
    BY <1>1 DEF RemoveInvalidTokens, ArrayRemove
  <2> QED
    BY <2>1, <2>2 DEF TypeOK, StoreTypeOK
<1>2. ASSUME NEW t \in Tokens, RegisterFcmToken(t) PROVE Kept
  BY <1>2, NotifierAssumption DEF RegisterFcmToken, TypeOK, StoreTypeOK
<1>3. \/ UNCHANGED tokens
      \/ \E h \in Handlers, u \in Users : RemoveInvalidTokens(h, u)
      \/ \E t \in Tokens : RegisterFcmToken(t)
  BY DEF Next, HandlerStep, SubscriptionStep, vars, Publish, Deliver, AckDeadline, DeadLetter,
         Push, CheckAndMark, ResolveSubscribers, SendMulticast, LockResult, AddOutcome,
         WaitAll, Respond, Kill, Uninstall, Reap
<1>4. alive' \subseteq alive
  BY DEF Next, HandlerStep, SubscriptionStep, vars, Publish, Deliver, AckDeadline, DeadLetter,
         Push, CheckAndMark, ResolveSubscribers, SendMulticast, RemoveInvalidTokens,
         LockResult, AddOutcome, WaitAll, Respond, Kill, Uninstall, RegisterFcmToken, Reap
<1> QED
  BY <1>1, <1>2, <1>3, <1>4

LEMMA PublishedStays ==
  ASSUME TypeOK, [Next]_vars, NEW m \in Messages, status[m] # "unpublished"
  PROVE  status'[m] # "unpublished"
<1>1. \/ UNCHANGED status
      \/ \E n \in Messages : Publish(n) \/ DeadLetter(n)
      \/ \E h \in Handlers : Respond(h)
  BY DEF Next, HandlerStep, SubscriptionStep, vars, Deliver, AckDeadline, Push, CheckAndMark,
         ResolveSubscribers, SendMulticast, RemoveInvalidTokens, LockResult, AddOutcome,
         WaitAll, Kill, Uninstall, RegisterFcmToken, Reap, pubsub
<1> QED
  BY <1>1 DEF Publish, DeadLetter, Respond, TypeOK, PubSubTypeOK

(* More messages and fewer live tokens: whoever expects an event now did.   *)
LEMMA ExpectedBefore ==
  ASSUME alive' \subseteq alive,
         \A m \in Messages : status[m] # "unpublished" => status'[m] # "unpublished",
         NEW u, NEW k, Expects(u, k)'
  PROVE  Expects(u, k)
BY DEF Expects, Reachable, Covers

LEMMA TokensListed ==
  ASSUME TypeOK, Claims, LiveListed, [Next]_vars
  PROVE  LiveListed'
<1> SUFFICES ASSUME NEW t \in InitTokens, t \in alive' PROVE t \in tokens'[Owner[t]]
  BY DEF LiveListed
<1>1. t \in alive /\ Owner[t] \in Users
  BY TokensStep, NotifierAssumption
<1>2. t \in tokens[Owner[t]]
  BY <1>1 DEF LiveListed
<1> QED
  BY <1>1, <1>2, TokensStep

(* A step that claims nothing and resolves nothing. *)
LEMMA ResolvedKept ==
  ASSUME ExpectedResolved, alive' \subseteq alive,
         \A m \in Messages : status[m] # "unpublished" => status'[m] # "unpublished",
         \A k \in Keys : mark'[k] = "present" /\ ~lost'[k] =>
           /\ mark[k] = "present"
           /\ ~lost[k]
           /\ audience'[k] = audience[k]
           /\ \A h \in Handlers : pc[h] = "resolve" /\ Key(h) = k =>
                pc'[h] = "resolve" /\ job'[h] = job[h]
  PROVE  ExpectedResolved'
<1> SUFFICES ASSUME NEW k \in Keys, mark'[k] = "present", ~lost'[k],
                    ~ \E h \in Handlers : pc'[h] = "resolve" /\ Key(h)' = k,
                    NEW u \in Users, Expects(u, k)'
             PROVE  u \in audience'[k]
  BY DEF ExpectedResolved
<1>1. ~ \E h \in Handlers : pc[h] = "resolve" /\ Key(h) = k
  BY DEF Key
<1>2. Expects(u, k)
  BY ExpectedBefore
<1> QED
  BY <1>1, <1>2 DEF ExpectedResolved

(* What a step does to a request: it may end, begin, or go on with its      *)
(* message, and its goroutines are those of the users it resolved.          *)
Continues(h) ==
  /\ pc[h] # "idle"
  /\ job'[h] = job[h]
  /\ pc'[h] = "deliver" =>
       \/ /\ pc[h] = "deliver"
          /\ snap'[h] = snap[h]
          /\ \A u \in Users : task'[h][u] # "none" => task[h][u] # "none"
       \/ \A u \in Users : task'[h][u] # "none" =>
            u \in FindSubscribers(job[h]) /\ snap'[h][u] = tokens[u]

LEMMA StepShape ==
  ASSUME TypeOK, Busy, [Next]_vars, NEW h \in Handlers
  PROVE  pc'[h] = "idle" \/ (\E m \in Messages : Deliver(m, h)) \/ Continues(h)
<1> SUFFICES ASSUME pc'[h] # "idle", ~ \E m \in Messages : Deliver(m, h)
             PROVE  Continues(h)
  OBVIOUS
<1> USE DEF TypeOK, RequestTypeOK, DeliveryTypeOK
<1>1. ASSUME UNCHANGED <<pc, job, task, snap>> PROVE Continues(h)
  BY <1>1 DEF Continues
<1>2. ASSUME NEW g \in Handlers \ {h},
             \A f \in Handlers \ {g} : /\ pc'[f] = pc[f] /\ job'[f] = job[f]
                                      /\ task'[f] = task[f] /\ snap'[f] = snap[f]
      PROVE  Continues(h)
  BY <1>2 DEF Continues
<1>3. ASSUME NEW g \in Handlers, Push(g) \/ CheckAndMark(g) \/ WaitAll(g)
      PROVE  Continues(h)
  BY <1>3 DEF Push, CheckAndMark, WaitAll, Reply, Goto, delivery, Continues
<1>4. ASSUME NEW g \in Handlers, ResolveSubscribers(g) PROVE Continues(h)
  <2> DEFINE subs == FindSubscribers(job[g])
  <2>1. CASE UNCHANGED <<task, snap>> /\ \E c \in {200, 500} : Reply(g, c)
    BY <1>4, <2>1 DEF ResolveSubscribers, Reply, Goto, Continues
  <2>2. CASE /\ task' = [task EXCEPT ![g] = [u \in Users |->
                        IF u \in subs THEN "queued" ELSE "none"]]
             /\ snap' = [snap EXCEPT ![g] = [u \in Users |->
                        IF u \in subs THEN tokens[u] ELSE {}]]
             /\ Goto(g, "deliver")
    <3>1. UNCHANGED job /\ pc[g] = "resolve" /\ \A f \in Handlers \ {g} : pc'[f] = pc[f]
      BY <1>4, <2>2 DEF ResolveSubscribers, Goto
    <3> HIDE DEF subs
    <3>2. \A u \in Users : task'[g][u] # "none" => u \in subs /\ snap'[g][u] = tokens[u]
      BY <2>2
    <3>3. \A f \in Handlers \ {g} : task'[f] = task[f] /\ snap'[f] = snap[f]
      BY <2>2
    <3> QED
      BY <3>1, <3>2, <3>3 DEF Continues, subs
  <2> QED
    BY <1>4, <2>1, <2>2 DEF ResolveSubscribers, ErrorStatus
<1>5. ASSUME NEW g \in Handlers, NEW u \in Users,
             \/ SendMulticast(g, u) \/ RemoveInvalidTokens(g, u)
             \/ LockResult(g, u) \/ AddOutcome(g, u)
      PROVE  Continues(h)
  <2>1. task[g][u] # "none" /\ \E s : task' = [task EXCEPT ![g][u] = s]
    BY <1>5, SendEffect
    DEF SendMulticast, RemoveInvalidTokens, LockResult, AddOutcome
  <2>2. UNCHANGED <<pc, job, snap>>
    BY <1>5 DEF SendMulticast, RemoveInvalidTokens, LockResult, AddOutcome, request
  <2> QED
    BY <2>1, <2>2 DEF Continues
<1>6. ASSUME NEW g \in Handlers, Respond(g) \/ Kill(g) PROVE Continues(h)
  <2>1. Release(g)
    BY <1>6 DEF Respond, Kill
  <2>2. g # h
    BY <2>1, ReleaseEffect
  <2> QED
    BY <1>2, <2>1, <2>2, ReleaseEffect
<1>7. ASSUME NEW m \in Messages, NEW g \in Handlers, Deliver(m, g) PROVE Continues(h)
  <2>1. g # h
    BY <1>7
  <2> QED
    BY <1>2, <1>7, <2>1 DEF Deliver, Goto, delivery
<1>8. ASSUME \/ \E g \in Handlers : AckDeadline(g)
             \/ \E m \in Messages : DeadLetter(m) \/ Publish(m)
             \/ \E t \in Tokens : Uninstall(t) \/ RegisterFcmToken(t)
             \/ \E k \in Keys : Reap(k)
      PROVE  Continues(h)
  BY <1>1, <1>8 DEF AckDeadline, DeadLetter, Publish, Uninstall, RegisterFcmToken, Reap,
                    request, delivery
<1>9. CASE UNCHANGED vars
  BY <1>1, <1>9 DEF vars, request, delivery
<1> QED
  BY <1>3, <1>4, <1>5, <1>6, <1>7, <1>8, <1>9 DEF Next, HandlerStep, SubscriptionStep

LEMMA JobsStayPublished ==
  ASSUME TypeOK, Busy, JobPublished, [Next]_vars
  PROVE  JobPublished'
<1> SUFFICES ASSUME NEW h \in Handlers, pc'[h] # "idle" PROVE status'[job'[h]] # "unpublished"
  BY DEF JobPublished
<1>1. CASE \E m \in Messages : Deliver(m, h)
  BY <1>1 DEF Deliver, TypeOK, RequestTypeOK
<1>2. CASE Continues(h)
  BY <1>2, PublishedStays DEF Continues, JobPublished, Busy
<1> QED
  BY <1>1, <1>2, StepShape

LEMMA TasksStayCovered ==
  ASSUME TypeOK, Busy, TaskCovered, [Next]_vars
  PROVE  TaskCovered'
<1> SUFFICES ASSUME NEW h \in Handlers, NEW u \in Users, pc'[h] = "deliver", task'[h][u] # "none"
             PROVE  CoversMessage(u, job'[h])
  BY DEF TaskCovered, CoversMessage, Covers
<1>1. Continues(h)
  <2>1. ~ \E m \in Messages : Deliver(m, h)
    BY DEF Deliver, Goto, TypeOK, RequestTypeOK
  <2> QED
    BY <2>1, StepShape
<1>2. CASE u \in FindSubscribers(job[h])
  BY <1>1, <1>2 DEF Continues, FindSubscribers, WantsInfoType, CoversMessage, Covers
<1>3. CASE pc[h] = "deliver" /\ task[h][u] # "none"
  BY <1>1, <1>3 DEF Continues, TaskCovered
<1> QED
  BY <1>1, <1>2, <1>3 DEF Continues

(* Only a multicast and the end of a marker's life touch pushes and fates.  *)
LEMMA PushesStep ==
  ASSUME [Next]_vars
  PROVE  \/ UNCHANGED <<pushes, fate>>
         \/ \E h \in Handlers, v \in Users : SendMulticast(h, v)
         \/ \E l \in Keys : Reap(l)
BY DEF Next, HandlerStep, SubscriptionStep, vars, Publish, Deliver, AckDeadline, DeadLetter,
       Push, CheckAndMark, ResolveSubscribers, RemoveInvalidTokens, LockResult, AddOutcome,
       WaitAll, Respond, Kill, Uninstall, RegisterFcmToken, history

LEMMA PushesStayCovered ==
  ASSUME TypeOK, Busy, JobPublished, TaskCovered, PushedCovered, [Next]_vars
  PROVE  PushedCovered'
<1> SUFFICES ASSUME NEW k \in Keys, NEW u \in Users, pushes'[k][u] > 0
             PROVE  \E m \in Messages : /\ KeyOf[m] = k
                                        /\ status[m] # "unpublished"
                                        /\ CoversMessage(u, m)
  BY PublishedStays DEF PushedCovered, CoversMessage, Covers
<1>1. CASE pushes[k][u] > 0
  BY <1>1 DEF PushedCovered
<1>2. ASSUME NEW h \in Handlers, NEW v \in Users, SendMulticast(h, v), pushes'[k][u] # pushes[k][u]
      PROVE  /\ job[h] \in Messages /\ KeyOf[job[h]] = k
             /\ status[job[h]] # "unpublished" /\ CoversMessage(u, job[h])
  <2>1. Key(h) = k /\ v = u
    BY <1>2, KeyTyped DEF SendMulticast, TypeOK, HistoryTypeOK
  <2>2. pc[h] = "deliver" /\ task[h][v] = "queued"
    BY <1>2 DEF SendMulticast
  <2> QED
    BY <2>1, <2>2 DEF Key, Busy, JobPublished, TaskCovered
<1>3. ASSUME NEW l \in Keys, Reap(l) PROVE pushes[k][u] > 0
  BY <1>3 DEF Reap, TypeOK, HistoryTypeOK
<1>4. \/ UNCHANGED pushes
      \/ \E h \in Handlers, v \in Users : SendMulticast(h, v)
      \/ \E l \in Keys : Reap(l)
  BY PushesStep
<1> QED
  BY <1>1, <1>2, <1>3, <1>4

LEMMA SnapStaysListed ==
  ASSUME TypeOK, Busy, Claims, LiveListed, SnapListed, [Next]_vars
  PROVE  SnapListed'
<1> SUFFICES ASSUME NEW h \in Handlers, NEW t \in InitTokens, t \in alive',
                    pc'[h] = "deliver", task'[h][Owner[t]] # "none"
             PROVE  t \in snap'[h][Owner[t]]
  BY DEF SnapListed
<1>1. t \in alive /\ Owner[t] \in Users
  BY TokensStep, NotifierAssumption
<1>2. Continues(h)
  <2>1. ~ \E m \in Messages : Deliver(m, h)
    BY DEF Deliver, Goto, TypeOK, RequestTypeOK
  <2> QED
    BY <2>1, StepShape
<1>3. CASE snap'[h][Owner[t]] = tokens[Owner[t]]
  BY <1>1, <1>3 DEF LiveListed
<1>4. CASE pc[h] = "deliver" /\ snap'[h] = snap[h] /\ task[h][Owner[t]] # "none"
  BY <1>1, <1>4 DEF SnapListed
<1> QED
  BY <1>1, <1>2, <1>3, <1>4 DEF Continues

LEMMA GoneStaysUnreachable ==
  ASSUME TypeOK, Busy, Claims, SnapListed, GoneIsUnreachable, [Next]_vars
  PROVE  GoneIsUnreachable'
<1> SUFFICES ASSUME NEW k \in Keys, NEW u \in Users, fate'[k][u] = "gone", Reachable(u)'
             PROVE  FALSE
  BY DEF GoneIsUnreachable
<1>1. Reachable(u)
  BY TokensStep DEF Reachable
<1>2. ~(fate[k][u] = "gone")
  BY <1>1 DEF GoneIsUnreachable
<1>3. ASSUME NEW h \in Handlers, NEW v \in Users, SendMulticast(h, v) PROVE FALSE
  <2>1. PICK s, b, f :
          /\ fate' = [fate EXCEPT ![Key(h)][v] = f]
          /\ f = "gone" => snap[h][v] \cap alive = {}
    BY <1>3, SendEffect DEF AnswerOf
  <2>2. Key(h) = k /\ v = u /\ f = "gone"
    BY <1>2, <2>1 DEF TypeOK, HistoryTypeOK
  <2>3. pc[h] = "deliver" /\ task[h][v] = "queued"
    BY <1>3 DEF SendMulticast
  <2> QED
    BY <1>1, <2>1, <2>2, <2>3 DEF Reachable, SnapListed
<1>4. ASSUME NEW l \in Keys, Reap(l) PROVE FALSE
  BY <1>2, <1>4 DEF Reap, TypeOK, HistoryTypeOK
<1> QED
  BY <1>2, <1>3, <1>4, PushesStep

LEMMA ResolvedStays ==
  ASSUME TypeOK, Busy, Claims, JobPublished, LiveListed, ExpectedResolved, [Next]_vars
  PROVE  ExpectedResolved'
<1>1. /\ alive' \subseteq alive
      /\ \A m \in Messages : status[m] # "unpublished" => status'[m] # "unpublished"
  BY TokensStep, PublishedStays
<1>2. ASSUME UNCHANGED <<pc, job, mark, audience, lost>> PROVE ExpectedResolved'
  BY <1>1, <1>2, ResolvedKept
<1>3. ASSUME NEW h \in Handlers, pc[h] # "resolve", UNCHANGED <<mark, audience, lost>>,
             \A g \in Handlers \ {h} : pc'[g] = pc[g] /\ job'[g] = job[g]
      PROVE  ExpectedResolved'
  BY <1>1, <1>3, ResolvedKept
<1>4. ASSUME NEW h \in Handlers, Push(h) \/ WaitAll(h) \/ Respond(h) \/
             \E m \in Messages : Deliver(m, h)
      PROVE  ExpectedResolved'
  <2>1. pc[h] # "resolve" /\ UNCHANGED <<mark, audience, lost>>
    BY <1>4 DEF Push, WaitAll, Respond, Deliver, history
  <2>2. \A g \in Handlers \ {h} : pc'[g] = pc[g] /\ job'[g] = job[g]
    BY <1>4, ReleaseEffect
    DEF Push, WaitAll, Respond, Deliver, Reply, Goto, TypeOK, RequestTypeOK
  <2> QED
    BY <1>3, <2>1, <2>2
<1>5. ASSUME NEW h \in Handlers, Kill(h) PROVE ExpectedResolved'
  <2>1. \A g \in Handlers \ {h} : pc'[g] = pc[g] /\ job'[g] = job[g]
    BY <1>5, ReleaseEffect DEF Kill
  <2>2. UNCHANGED <<mark, audience>>
    BY <1>5 DEF Kill
  <2>3. pc[h] = "resolve" => Key(h) \in Keys /\ lost' = [lost EXCEPT ![Key(h)] = TRUE]
    BY <1>5, KeyTyped DEF Kill, Unfinished
  <2>4. \A k \in Keys : ~lost'[k] => ~lost[k] /\ ~(pc[h] = "resolve" /\ Key(h) = k)
    BY <1>5, <2>3 DEF Kill, TypeOK, HistoryTypeOK
  <2> QED
    BY <1>1, <2>1, <2>2, <2>4, ResolvedKept
<1>6. ASSUME NEW h \in Handlers, CheckAndMark(h) PROVE ExpectedResolved'
  <2> DEFINE k == Key(h)
  <2>1. /\ pc[h] = "dedup" /\ k \in Keys /\ UNCHANGED <<job, audience>>
        /\ \A g \in Handlers \ {h} : pc'[g] = pc[g]
    BY <1>6, KeyTyped DEF CheckAndMark, Reply, Goto, TypeOK, RequestTypeOK
  <2>2. CASE UNCHANGED <<mark, lost>>
    BY <1>3, <2>1, <2>2
  <2>3. CASE mark' = Marked(k) /\ Goto(h, "resolve") /\ UNCHANGED lost
    <3>1. pc'[h] = "resolve" /\ Key(h)' = k
      BY <2>1, <2>3 DEF Goto, Key, TypeOK, RequestTypeOK
    <3>2. \A l \in Keys \ {k} : mark'[l] = mark[l]
      BY <2>3 DEF Marked, TypeOK, StoreTypeOK
    <3> SUFFICES ASSUME NEW l \in Keys \ {k}, mark'[l] = "present", ~lost'[l],
                        NEW u \in Users, Expects(u, l)',
                        ~ \E g \in Handlers : pc'[g] = "resolve" /\ Key(g)' = l
                 PROVE  u \in audience'[l]
      BY <3>1 DEF ExpectedResolved
    <3>3. mark[l] = "present" /\ ~lost[l] /\ Expects(u, l)
      BY <1>1, <2>3, <3>2, ExpectedBefore
    <3>4. ~ \E g \in Handlers : pc[g] = "resolve" /\ Key(g) = l
      BY <2>1 DEF Key
    <3> QED
      BY <2>1, <3>3, <3>4 DEF ExpectedResolved
  <2>4. CASE mark' = Marked(k) /\ lost' = [lost EXCEPT ![k] = TRUE]
    <3>1. \A l \in Keys : ~lost'[l] => l # k /\ ~lost[l] /\ mark'[l] = mark[l]
      BY <2>1, <2>4 DEF Marked, TypeOK, StoreTypeOK, HistoryTypeOK
    <3> QED
      BY <1>1, <2>1, <3>1, ResolvedKept
  <2> QED
    BY <1>6, <2>2, <2>3, <2>4 DEF CheckAndMark
<1>7. ASSUME NEW h \in Handlers, ResolveSubscribers(h) PROVE ExpectedResolved'
  <2> DEFINE k == Key(h)
             subs == FindSubscribers(job[h])
  <2>1. /\ pc[h] = "resolve" /\ job[h] \in Messages /\ k \in Keys
        /\ UNCHANGED <<job, mark, status, tokens, alive>>
        /\ \A g \in Handlers \ {h} : pc'[g] = pc[g]
    BY <1>7, KeyTyped
    DEF ResolveSubscribers, pubsub, Reply, Goto, TypeOK, RequestTypeOK
  <2>2. ASSUME NEW l \in Keys, l = k, NEW u \in Users, Expects(u, l)' PROVE u \in subs
    <3>1. Covers(u, Country[job[h]], InfoType[job[h]])
      BY <2>1, <2>2 DEF Expects, Key, Covers, JobPublished
    <3>2. tokens[u] # {}
      BY <2>1, <2>2 DEF Expects, Reachable, LiveListed
    <3> QED
      BY <3>1, <3>2 DEF FindSubscribers, Covers, WantsInfoType
  <2>3. lost'[k] \/ subs \subseteq audience'[k]
    BY <1>7, <2>1 DEF ResolveSubscribers, TypeOK, HistoryTypeOK
  <2>4. \A l \in Keys \ {k} : audience'[l] = audience[l] /\ lost'[l] = lost[l]
    BY <1>7, <2>1 DEF ResolveSubscribers, TypeOK, HistoryTypeOK
  <2> HIDE DEF subs
  <2> SUFFICES ASSUME NEW l \in Keys, mark'[l] = "present", ~lost'[l],
                      ~ \E g \in Handlers : pc'[g] = "resolve" /\ Key(g)' = l,
                      NEW u \in Users, Expects(u, l)'
               PROVE  u \in audience'[l]
    BY DEF ExpectedResolved
  <2>5. CASE l = k
    BY <2>2, <2>3, <2>5
  <2>6. CASE l # k
    <3>1. ~ \E g \in Handlers : pc[g] = "resolve" /\ Key(g) = l
      BY <2>1, <2>6 DEF Key
    <3>2. mark[l] = "present" /\ ~lost[l] /\ Expects(u, l)
      BY <1>1, <2>1, <2>4, <2>6, ExpectedBefore
    <3> QED
      BY <2>4, <2>6, <3>1, <3>2 DEF ExpectedResolved
  <2> QED
    BY <2>5, <2>6
<1>8. ASSUME NEW k \in Keys, Reap(k) PROVE ExpectedResolved'
  <2>1. UNCHANGED <<pc, job>> /\ mark'[k] = "reaped"
    BY <1>8 DEF Reap, request, TypeOK, StoreTypeOK
  <2>2. \A l \in Keys \ {k} :
          mark'[l] = mark[l] /\ audience'[l] = audience[l] /\ lost'[l] = lost[l]
    BY <1>8 DEF Reap, TypeOK, StoreTypeOK, HistoryTypeOK
  <2> QED
    BY <1>1, <2>1, <2>2, ResolvedKept
<1>9. ASSUME \/ \E h \in Handlers : AckDeadline(h)
             \/ \E h \in Handlers, u \in Users :
                  \/ SendMulticast(h, u) \/ RemoveInvalidTokens(h, u)
                  \/ LockResult(h, u) \/ AddOutcome(h, u)
             \/ \E m \in Messages : DeadLetter(m) \/ Publish(m)
             \/ \E t \in Tokens : Uninstall(t) \/ RegisterFcmToken(t)
      PROVE  ExpectedResolved'
  BY <1>2, <1>9 DEF AckDeadline, SendMulticast, RemoveInvalidTokens, LockResult, AddOutcome,
                    DeadLetter, Publish, Uninstall, RegisterFcmToken, request, history
<1>10. CASE UNCHANGED vars
  BY <1>2, <1>10 DEF vars, request, history
<1> QED
  BY <1>4, <1>5, <1>6, <1>7, <1>8, <1>9, <1>10 DEF Next, HandlerStep, SubscriptionStep

LEMMA NextReach == TypeOK /\ Busy /\ Claims /\ Reach /\ [Next]_vars => Reach'
BY JobsStayPublished, TokensListed, ResolvedStays, TasksStayCovered, PushesStayCovered,
   SnapStaysListed, GoneStaysUnreachable DEF Reach

LEMMA InductiveReach == Spec => [](TypeOK /\ Busy /\ Claims /\ Reach)
<1>1. Init => TypeOK /\ Busy /\ Claims /\ Reach
  BY InitTyped, InitClaims, InitReach
<1>2. TypeOK /\ Busy /\ Claims /\ Reach /\ [Next]_vars => (TypeOK /\ Busy /\ Claims /\ Reach)'
  BY NextTyped, NextClaims, NextReach
<1> QED
  BY <1>1, <1>2, PTL DEF Spec

(* Nobody is pushed an event his preference does not cover. *)
THEOREM OnlySubscribersPushed == Spec => []PushedCovered
<1>1. Reach => PushedCovered
  BY DEF Reach
<1> QED
  BY <1>1, InductiveReach, PTL

(* Every acknowledged event is claimed, and its claimant is still at work,  *)
(* failed, or has sent to everyone it resolved; whoever expects the event   *)
(* was then reached, unless FCM or the passed ack deadline failed the send. *)
THEOREM Accounted == Spec => []AckedAccountedFor
<1>1. TypeOK /\ Busy /\ Claims /\ Reach => AckedAccountedFor
  <2> SUFFICES ASSUME TypeOK, Busy, Claims, Reach, NEW m \in Messages \ malformed,
                      status[m] = "acked", mark[KeyOf[m]] # "reaped"
               PROVE  /\ mark[KeyOf[m]] = "present"
                      /\ \/ lost[KeyOf[m]]
                         \/ \E h \in Handlers : Claimant(h, KeyOf[m])
                         \/ \A u \in Users :
                              /\ u \in audience[KeyOf[m]] => fate[KeyOf[m]][u] # "none"
                              /\ Expects(u, KeyOf[m]) =>
                                   fate[KeyOf[m]][u] \in {"reached", "failed"}
    BY DEF AckedAccountedFor
  <2>1. KeyOf[m] \in Keys
    BY NotifierAssumption
  <2>2. mark[KeyOf[m]] = "present"
    BY <2>1 DEF TypeOK, StoreTypeOK, Claims, OkMeansMarked
  <2>3. \/ lost[KeyOf[m]]
        \/ \E h \in Handlers : Claimant(h, KeyOf[m])
        \/ \A u \in Users : Expects(u, KeyOf[m]) => u \in audience[KeyOf[m]]
    BY <2>1, <2>2 DEF Reach, ExpectedResolved, Claimant
  <2>4. \/ lost[KeyOf[m]]
        \/ \E h \in Handlers : Claimant(h, KeyOf[m])
        \/ \A u \in Users : u \in audience[KeyOf[m]] => fate[KeyOf[m]][u] # "none"
    <3>1. \A u \in Users : pushes[KeyOf[m]][u] = 1 => fate[KeyOf[m]][u] # "none"
      BY <2>1 DEF Claims, FateKnown
    <3> QED
      BY <2>1, <3>1 DEF Claims, ClaimSettled
  <2>5. \A u \in Users : Expects(u, KeyOf[m]) => fate[KeyOf[m]][u] # "gone"
    BY <2>1 DEF Reach, GoneIsUnreachable, Expects
  <2>6. \A u \in Users : fate[KeyOf[m]][u] \in {"none", "reached", "failed", "gone"}
    BY <2>1 DEF TypeOK, HistoryTypeOK, FateKinds
  <2> QED
    BY <2>1, <2>2, <2>3, <2>4, <2>5, <2>6
<1> QED
  BY <1>1, InductiveReach, PTL

(* Without these failures no request loses the event it claimed. *)
Losing == {"commit", "resolve", "kill", "deadline"}

Waited == \A h \in Handlers : pc[h] # "idle" => waiting[h]

NothingLost == \A k \in Keys : ~lost[k]

LEMMA NextLosesNothing ==
  ASSUME Faults \cap Losing = {}, TypeOK, Busy, Waited, NothingLost, [Next]_vars
  PROVE  Waited' /\ NothingLost'
<1> USE DEF TypeOK, RequestTypeOK, HistoryTypeOK
<1>1. ASSUME NEW h \in Handlers, NEW label, pc[h] # "idle", Goto(h, label), UNCHANGED waiting
      PROVE  Waited'
  BY <1>1 DEF Waited, Goto
<1>2. ASSUME NEW h \in Handlers, Release(h) PROVE Waited'
  BY <1>2 DEF Waited, Release, Goto
<1>3. ASSUME NEW m \in Messages, NEW h \in Handlers, Deliver(m, h)
      PROVE  Waited' /\ NothingLost'
  BY <1>3 DEF Waited, NothingLost, Deliver, Goto, history
<1>4. ASSUME NEW h \in Handlers, Push(h) PROVE Waited' /\ NothingLost'
  BY <1>1, <1>4 DEF Push, Reply, NothingLost, history
<1>5. ASSUME NEW h \in Handlers, CheckAndMark(h) PROVE Waited' /\ NothingLost'
  <2>1. ~Fails(h, "commit")
    BY <1>5 DEF CheckAndMark, Waited, Fails, Losing
  <2> QED
    BY <1>1, <1>5, <2>1 DEF CheckAndMark, Reply, NothingLost
<1>6. ASSUME NEW h \in Handlers, ResolveSubscribers(h) PROVE Waited' /\ NothingLost'
  <2>1. ~Fails(h, "resolve")
    BY <1>6 DEF ResolveSubscribers, Waited, Fails, Losing
  <2> QED
    BY <1>1, <1>6, <2>1 DEF ResolveSubscribers, Reply, NothingLost
<1>7. ASSUME NEW h \in Handlers, WaitAll(h) PROVE Waited' /\ NothingLost'
  BY <1>1, <1>7 DEF WaitAll, Reply, NothingLost, history
<1>8. ASSUME NEW h \in Handlers, Respond(h) PROVE Waited' /\ NothingLost'
  BY <1>2, <1>8 DEF Respond, NothingLost, history
<1>9. CASE UNCHANGED <<request, lost>>
  BY <1>9 DEF Waited, NothingLost, request
<1>10. ASSUME NEW k \in Keys, Reap(k) PROVE Waited' /\ NothingLost'
  BY <1>10 DEF Reap, Waited, NothingLost, request
<1>11. \A h \in Handlers : ~Kill(h) /\ ~AckDeadline(h)
  BY DEF Kill, AckDeadline, Losing
<1>12. \/ UNCHANGED <<request, lost>>
       \/ \E h \in Handlers : \/ Push(h)
                             \/ CheckAndMark(h)
                             \/ ResolveSubscribers(h)
                             \/ WaitAll(h)
                             \/ Respond(h)
                             \/ \E m \in Messages : Deliver(m, h)
       \/ \E k \in Keys : Reap(k)
  BY <1>11 DEF Next, HandlerStep, SubscriptionStep, vars, Publish, DeadLetter, SendMulticast,
               RemoveInvalidTokens, LockResult, AddOutcome, Uninstall, RegisterFcmToken, history
<1> QED
  BY <1>3, <1>4, <1>5, <1>6, <1>7, <1>8, <1>9, <1>10, <1>12

(* What the documentation says of dedup and users failures is true when     *)
(* these four do not happen: whatever else fails, no message is acked while *)
(* the one request that claimed its event had failed before it called FCM   *)
(* for everyone.  (A send that fails is never retried, and the              *)
(* documentation does not say that it is: see Accounted.)                   *)
THEOREM OtherFailuresAreRetried ==
  ASSUME Faults \cap Losing = {}
  PROVE  Spec => []TransientFailureIsRetried
<1>1. Init => Waited /\ NothingLost
  BY DEF Init, Waited, NothingLost
<1>2. /\ TypeOK /\ Busy /\ Waited /\ NothingLost /\ [Next]_vars
      => (Waited /\ NothingLost)'
  BY NextLosesNothing
<1>3. NothingLost => TransientFailureIsRetried
  BY NotifierAssumption DEF NothingLost, TransientFailureIsRetried
<1> QED
  BY <1>1, <1>2, <1>3, Inductive, PTL DEF Spec

(* Only tokens FCM no longer accepts ever leave a user's document.          *)
THEOREM LiveTokensSafe == Spec => LiveTokensKept
<1> DEFINE Kept == \A u \in Users : (tokens[u] \ tokens'[u]) \cap alive = {}
<1>1. TypeOK /\ Claims /\ [Next]_vars => [Kept]_tokens
  BY TokensStep
<1> HIDE DEF Kept
<1>2. Spec => [][Kept]_tokens
  BY <1>1, Inductive, PTL DEF Spec
<1> QED
  BY <1>2 DEF LiveTokensKept, Kept

-----------------------------------------------------------------------------
(* The refinement: a push is a Push, the marker's write a Claim, its reaping *)
(* an Expire, and every other step leaves the contract's state alone.       *)

LEMMA PushRefines ==
  ASSUME TypeOK, Busy, Claims, NEW h \in Handlers, NEW u \in Users, SendMulticast(h, u)
  PROVE  Contract!Push(Key(h), u)
<1>1. Key(h) \in Keys /\ pc[h] = "deliver" /\ task[h][u] = "queued"
  BY KeyTyped DEF SendMulticast
<1>2. pushes[Key(h)][u] = 0 /\ mark[Key(h)] = "present"
  BY <1>1 DEF Claims, TaskMatchesPushes, ClaimMarked
<1>3. pushes' = [pushes EXCEPT ![Key(h)][u] = @ + 1] /\ mark' = mark
  BY DEF SendMulticast
<1>4. pushes' = [pushes EXCEPT ![Key(h)][u] = 1]
  BY <1>1, <1>2, <1>3 DEF TypeOK, HistoryTypeOK
<1> QED
  BY <1>1, <1>2, <1>3, <1>4 DEF Contract!Push

LEMMA StepRefines ==
  TypeOK /\ Busy /\ Claims /\ [Next]_vars => [Contract!Next]_(Contract!vars)
<1> SUFFICES ASSUME TypeOK, Busy, Claims, [Next]_vars,
                    ~ UNCHANGED Contract!vars
             PROVE  Contract!Next
  OBVIOUS
<1>1. ASSUME NEW h \in Handlers, NEW u \in Users, SendMulticast(h, u) PROVE Contract!Next
  BY <1>1, PushRefines, KeyTyped DEF Contract!Next, SendMulticast
<1>2. ASSUME NEW h \in Handlers, CheckAndMark(h) PROVE Contract!Next
  <2>1. Key(h) \in Keys /\ UNCHANGED pushes
    BY <1>2, KeyTyped DEF CheckAndMark
  <2>2. mark' # mark
    BY <2>1 DEF Contract!vars
  <2>3. ~AlreadySeen(Key(h)) /\ mark' = Marked(Key(h))
    BY <1>2, <2>2 DEF CheckAndMark
  <2>4. PICK k \in Keys : k = Key(h)
    BY <2>1
  <2>5. Contract!Claim(k)
    BY <2>1, <2>3, <2>4 DEF Contract!Claim, AlreadySeen, Marked, TypeOK, StoreTypeOK
  <2> QED
    BY <2>5 DEF Contract!Next
<1>3. ASSUME NEW k \in Keys, Reap(k) PROVE Contract!Next
  <2>1. mark[k] = "present" /\ mark' = [mark EXCEPT ![k] = "reaped"]
    BY <1>3 DEF Reap
  <2>2. pushes' = [pushes EXCEPT ![k] = [u \in Users |-> 0]]
    BY <1>3 DEF Reap
  <2>3. ~(mark'[k] = "present")
    BY <2>1 DEF TypeOK, StoreTypeOK
  <2>4. \A l \in Keys \ {k} : mark'[l] = mark[l]
    BY <2>1 DEF TypeOK, StoreTypeOK
  <2> DEFINE Claimed == [l \in Keys |-> mark[l] = "present"]
  <2>5. [l \in Keys |-> mark'[l] = "present"] = [Claimed EXCEPT ![k] = FALSE]
    <3>1. \A l \in Keys : (mark'[l] = "present") = [Claimed EXCEPT ![k] = FALSE][l]
      BY <2>3, <2>4
    <3> QED
      BY <3>1
  <2>6. Contract!Expire(k)
    BY <2>1, <2>2, <2>5 DEF Contract!Expire
  <2> QED
    BY <2>6 DEF Contract!Next
<1>4. mark' # mark \/ pushes' # pushes
  BY DEF Contract!vars
<1> QED
  BY <1>1, <1>2, <1>3, <1>4
  DEF Next, HandlerStep, SubscriptionStep, vars, history, Publish, Deliver, AckDeadline,
      DeadLetter, Push, ResolveSubscribers, RemoveInvalidTokens, LockResult, AddOutcome,
      WaitAll, Respond, Kill, Uninstall, RegisterFcmToken

(* The notifier implements the contract of AtMostOncePush. *)
THEOREM Refinement == Spec => ImplementsContract
<1>1. Init => Contract!Init
  BY DEF Init, Contract!Init
<1>2. TypeOK /\ Busy /\ Claims /\ [Next]_vars => [Contract!Next]_(Contract!vars)
  BY StepRefines
<1> QED
  BY <1>1, <1>2, Inductive, PTL DEF Spec, ImplementsContract, Contract!Spec

-----------------------------------------------------------------------------
(* The counters.  At any moment a result adds up to the tokens of the users *)
(* whose goroutine is done; the token lists of two users are disjoint, what *)
(* a goroutine still has to add is in its batch, and the one that holds the *)
(* mutex has read the result as it is.                                      *)

Owned ==
  /\ \A u \in Users : \A t \in tokens[u] : Owner[t] = u
  /\ \A h \in Handlers, u \in Users : \A t \in snap[h][u] : Owner[t] = u

Settled(h) == UNION {snap[h][u] : u \in {v \in Users : task[h][v] = "done"}}

Tally(h) ==
  /\ res[h].success + res[h].failed = Cardinality(Settled(h))
  /\ res[h].invalidated <= res[h].failed

RowTally(h, u) ==
  /\ task[h][u] = "none" => snap[h][u] = {}
  /\ task[h][u] \in {"cleanup", "count", "add"} =>
       /\ batch[h][u].success + batch[h][u].failure = Cardinality(snap[h][u])
       /\ Cardinality(batch[h][u].invalid) <= batch[h][u].failure
       /\ batch[h][u].removed <= batch[h][u].failure

Locked(h, u) ==
  task[h][u] = "add" =>
    /\ seen[h][u] = res[h]
    /\ \A v \in Users : task[h][v] = "add" => v = u

Phased(h) ==
  /\ pc[h] \notin {"deliver", "reply"} => \A u \in Users : task[h][u] = "none"
  /\ pc[h] = "reply" /\ code[h] = 200 => AllDone(h)

Tallied(h) ==
  Tally(h) /\ Phased(h) /\ \A u \in Users : RowTally(h, u) /\ Locked(h, u)

Counts == Owned /\ \A h \in Handlers : Tallied(h)

LEMMA SettledFinite ==
  ASSUME TypeOK, NEW h \in Handlers
  PROVE  Settled(h) \in SUBSET Tokens /\ IsFiniteSet(Settled(h))
<1>1. Settled(h) \in SUBSET Tokens
  BY DEF Settled, TypeOK, DeliveryTypeOK
<1> QED
  BY <1>1, TokenCount

(* A handler without goroutines has settled nothing. *)
LEMMA NothingSettled ==
  ASSUME NEW h, \A u \in Users : task[h][u] # "done"
  PROVE  Cardinality(Settled(h)) = 0
<1>1. Settled(h) = {}
  BY DEF Settled
<1> QED
  BY <1>1, FS_EmptySet

LEMMA InitCounts == Init => Counts
<1> SUFFICES ASSUME Init PROVE Counts
  OBVIOUS
<1>1. Owned
  BY DEF Init, Owned
<1>2. ASSUME NEW h \in Handlers PROVE Tallied(h)
  <2>1. Cardinality(Settled(h)) = 0
    BY NothingSettled DEF Init
  <2>2. Tally(h)
    BY <2>1 DEF Init, Tally, NoResult
  <2>3. Phased(h) /\ \A u \in Users : RowTally(h, u) /\ Locked(h, u)
    BY DEF Init, Phased, RowTally, Locked
  <2> QED
    BY <2>2, <2>3 DEF Tallied
<1> QED
  BY <1>1, <1>2 DEF Counts

(* A handler whose goroutines and result do not change. *)
LEMMA SameTally ==
  ASSUME NEW h \in Handlers, Tallied(h),
         task'[h] = task[h], snap'[h] = snap[h], batch'[h] = batch[h],
         seen'[h] = seen[h], res'[h] = res[h], Phased(h)'
  PROVE  Tallied(h)'
<1>1. Settled(h)' = Settled(h)
  BY DEF Settled
<1>2. Cardinality(Settled(h)') = Cardinality(Settled(h))
  BY <1>1
<1>3. Tally(h)'
  BY <1>2 DEF Tallied, Tally
<1>4. \A u \in Users : RowTally(h, u)' /\ Locked(h, u)'
  BY DEF Tallied, RowTally, Locked
<1> QED
  BY <1>3, <1>4 DEF Tallied

(* A step of one handler leaves the others' counters alone. *)
LEMMA OtherTally ==
  ASSUME Counts, NEW h \in Handlers, NEW g \in Handlers \ {h},
         pc'[g] = pc[g], code'[g] = code[g],
         task'[g] = task[g], snap'[g] = snap[g], batch'[g] = batch[g],
         seen'[g] = seen[g], res'[g] = res[g]
  PROVE  Tallied(g)'
<1>1. Tallied(g)
  BY DEF Counts
<1>2. Phased(g)'
  BY <1>1 DEF Tallied, Phased, AllDone
<1> QED
  BY <1>1, <1>2, SameTally

LEMMA ReleaseTally ==
  ASSUME TypeOK, Counts, NEW h \in Handlers, Release(h), UNCHANGED tokens
  PROVE  Counts'
<1>1. /\ pc'[h] = "idle" /\ res'[h] = NoResult
      /\ \A u \in Users : task'[h][u] = "none" /\ snap'[h][u] = {}
  BY DEF Release, Goto, TypeOK, RequestTypeOK, DeliveryTypeOK
<1>2. \A g \in Handlers \ {h} :
        /\ pc'[g] = pc[g] /\ code'[g] = code[g] /\ task'[g] = task[g]
        /\ snap'[g] = snap[g] /\ batch'[g] = batch[g]
        /\ seen'[g] = seen[g] /\ res'[g] = res[g]
  BY DEF Release, Goto, TypeOK, RequestTypeOK, DeliveryTypeOK
<1>3. Owned'
  BY <1>1, <1>2 DEF Counts, Owned
<1>4. Tallied(h)'
  <2>1. Cardinality(Settled(h)') = 0
    <3>1. Settled(h)' = {}
      BY <1>1 DEF Settled
    <3> QED
      BY <3>1, FS_EmptySet
  <2>2. Tally(h)'
    BY <1>1, <2>1 DEF Tally, NoResult
  <2>3. Phased(h)' /\ \A u \in Users : RowTally(h, u)' /\ Locked(h, u)'
    BY <1>1 DEF Phased, RowTally, Locked
  <2> QED
    BY <2>2, <2>3 DEF Tallied
<1>5. \A g \in Handlers \ {h} : Tallied(g)'
  BY <1>2, OtherTally
<1> QED
  BY <1>3, <1>4, <1>5 DEF Counts

(* Steps that touch no goroutine: the handler, if any, goes on to a call    *)
(* before the deliveries, or to an answer.                                  *)
LEMMA QuietTally ==
  ASSUME Counts, UNCHANGED delivery, \A h \in Handlers : Phased(h)',
         \A u \in Users : \A t \in tokens'[u] : Owner[t] = u
  PROVE  Counts'
<1>1. Owned'
  BY DEF Counts, Owned, delivery
<1>2. \A h \in Handlers : Tallied(h)'
  BY SameTally DEF Counts, delivery
<1> QED
  BY <1>1, <1>2 DEF Counts

LEMMA ResolveTally ==
  ASSUME TypeOK, Counts, NEW h \in Handlers, ResolveSubscribers(h)
  PROVE  Counts'
<1> DEFINE subs == FindSubscribers(job[h])
<1>1. pc[h] = "resolve" /\ UNCHANGED <<batch, seen, res, tokens>>
  BY DEF ResolveSubscribers
<1>2. \A u \in Users : task[h][u] = "none"
  BY <1>1 DEF Counts, Tallied, Phased
<1>3. CASE /\ \E c \in {200, 500} : Reply(h, c)
           /\ UNCHANGED <<task, snap>>
  <2>1. \A g \in Handlers : Phased(g)'
    BY <1>2, <1>3 DEF Counts, Tallied, Phased, AllDone, Reply, Goto, TypeOK, RequestTypeOK
  <2> QED
    BY <1>1, <1>3, <2>1, QuietTally DEF Counts, Owned, delivery
<1>4. CASE /\ task' = [task EXCEPT ![h] = [u \in Users |->
                         IF u \in subs THEN "queued" ELSE "none"]]
           /\ snap' = [snap EXCEPT ![h] = [u \in Users |->
                         IF u \in subs THEN tokens[u] ELSE {}]]
           /\ Goto(h, "deliver")
           /\ UNCHANGED code
  <2> HIDE DEF subs
  <2>1. /\ pc'[h] = "deliver"
        /\ \A u \in Users : /\ task'[h][u] = IF u \in subs THEN "queued" ELSE "none"
                            /\ snap'[h][u] = IF u \in subs THEN tokens[u] ELSE {}
    BY <1>4 DEF Goto, TypeOK, RequestTypeOK, DeliveryTypeOK
  <2>2. \A g \in Handlers \ {h} :
          pc'[g] = pc[g] /\ task'[g] = task[g] /\ snap'[g] = snap[g]
    BY <1>4 DEF Goto, TypeOK, RequestTypeOK, DeliveryTypeOK
  <2>3. Owned'
    BY <1>1, <2>1, <2>2 DEF Counts, Owned
  <2>4. Tallied(h)'
    <3>1. Settled(h)' = {}
      BY <2>1 DEF Settled
    <3>2. Cardinality(Settled(h)') = 0
      BY <3>1, FS_EmptySet
    <3>3. Cardinality(Settled(h)) = 0
      BY <1>2, NothingSettled
    <3>4. Tally(h)'
      BY <1>1, <3>2, <3>3 DEF Counts, Tallied, Tally
    <3>5. Phased(h)' /\ \A u \in Users : RowTally(h, u)' /\ Locked(h, u)'
      BY <2>1 DEF Phased, RowTally, Locked
    <3> QED
      BY <3>4, <3>5 DEF Tallied
  <2>5. \A g \in Handlers \ {h} : Tallied(g)'
    BY <1>1, <1>4, <2>2, OtherTally
  <2> QED
    BY <2>3, <2>4, <2>5 DEF Counts
<1> QED
  BY <1>3, <1>4 DEF ResolveSubscribers, ErrorStatus

(* A goroutine that goes on, and adds nothing to the result.                *)
LEMMA GoOnTally ==
  ASSUME TypeOK, Counts, NEW h \in Handlers, NEW u \in Users,
         pc[h] = "deliver", task'[h][u] \in {"cleanup", "count"},
         task[h][u] \in {"queued", "cleanup"},
         \A v \in Users \ {u} : task'[h][v] = task[h][v] /\ batch'[h][v] = batch[h][v],
         \A g \in Handlers \ {h} : task'[g] = task[g] /\ batch'[g] = batch[g],
         batch'[h][u].success + batch'[h][u].failure = Cardinality(snap[h][u]),
         Cardinality(batch'[h][u].invalid) <= batch'[h][u].failure,
         batch'[h][u].removed <= batch'[h][u].failure,
         UNCHANGED <<pc, code, snap, seen, res>>,
         \A v \in Users : \A t \in tokens'[v] : Owner[t] = v
  PROVE  Counts'
<1>1. Settled(h)' = Settled(h)
  BY DEF Settled
<1>2. Cardinality(Settled(h)') = Cardinality(Settled(h))
  BY <1>1
<1>3. Tally(h)'
  BY <1>2 DEF Counts, Tallied, Tally
<1>4. \A v \in Users : RowTally(h, v)' /\ Locked(h, v)'
  BY DEF Counts, Tallied, RowTally, Locked
<1>5. Phased(h)'
  BY DEF Phased
<1>6. \A g \in Handlers \ {h} : Tallied(g)'
  BY OtherTally
<1>7. Owned'
  BY DEF Counts, Owned
<1> QED
  BY <1>3, <1>4, <1>5, <1>6, <1>7 DEF Counts, Tallied

LEMMA SendTally ==
  ASSUME TypeOK, Counts, NEW h \in Handlers, NEW u \in Users, SendMulticast(h, u)
  PROVE  Counts'
<1>1. /\ pc[h] = "deliver" /\ task[h][u] = "queued"
      /\ UNCHANGED <<pc, code, snap, seen, res, tokens>>
  BY DEF SendMulticast, request
<1>2. PICK s, b, f :
        /\ s \in {"cleanup", "count"}
        /\ task' = [task EXCEPT ![h][u] = s]
        /\ batch' = [batch EXCEPT ![h][u] = b]
        /\ fate' = [fate EXCEPT ![Key(h)][u] = f]
        /\ AnswerOf(snap[h][u], b, f)
  BY SendEffect
<1>3. /\ task'[h][u] = s /\ batch'[h][u] = b
      /\ \A v \in Users \ {u} : task'[h][v] = task[h][v] /\ batch'[h][v] = batch[h][v]
      /\ \A g \in Handlers \ {h} : task'[g] = task[g] /\ batch'[g] = batch[g]
  BY <1>2 DEF TypeOK, DeliveryTypeOK
<1>4. /\ b.success + b.failure = Cardinality(snap[h][u])
      /\ Cardinality(b.invalid) <= b.failure
      /\ b.removed <= b.failure
  BY <1>2 DEF AnswerOf
<1>5. \A v \in Users : \A t \in tokens'[v] : Owner[t] = v
  BY <1>1 DEF Counts, Owned
<1> QED
  BY <1>1, <1>2, <1>3, <1>4, <1>5, GoOnTally

LEMMA RemoveTally ==
  ASSUME TypeOK, Counts, NEW h \in Handlers, NEW u \in Users, RemoveInvalidTokens(h, u)
  PROVE  Counts'
<1>1. /\ pc[h] = "deliver" /\ task[h][u] = "cleanup"
      /\ UNCHANGED <<pc, code, snap, seen, res>>
      /\ task'[h][u] = "count"
      /\ \A v \in Users \ {u} : task'[h][v] = task[h][v]
      /\ \A g \in Handlers \ {h} : task'[g] = task[g]
  BY DEF RemoveInvalidTokens, request, TypeOK, DeliveryTypeOK
<1>2. /\ batch'[h][u].success = batch[h][u].success
      /\ batch'[h][u].failure = batch[h][u].failure
      /\ batch'[h][u].invalid = batch[h][u].invalid
      /\ batch'[h][u].removed \in {batch[h][u].removed, Cardinality(batch[h][u].invalid)}
      /\ \A v \in Users \ {u} : batch'[h][v] = batch[h][v]
      /\ \A g \in Handlers \ {h} : batch'[g] = batch[g]
  BY DEF RemoveInvalidTokens, TypeOK, DeliveryTypeOK
<1>3. RowTally(h, u)
  BY DEF Counts, Tallied
<1>4. \A v \in Users : \A t \in tokens'[v] : Owner[t] = v
  BY DEF RemoveInvalidTokens, ArrayRemove, Counts, Owned, TypeOK, StoreTypeOK
<1> QED
  BY <1>1, <1>2, <1>3, <1>4, GoOnTally DEF RowTally

(* The mutex is taken when nobody holds it, and the result read is current. *)
LEMMA LockTally ==
  ASSUME TypeOK, Counts, NEW h \in Handlers, NEW u \in Users, LockResult(h, u)
  PROVE  Counts'
<1>1. /\ pc[h] = "deliver" /\ task[h][u] = "count"
      /\ \A v \in Users : task[h][v] # "add"
      /\ UNCHANGED <<pc, code, snap, batch, res, tokens>>
      /\ \A v \in Users : task'[h][v] = IF v = u THEN "add" ELSE task[h][v]
      /\ seen'[h][u] = res[h]
      /\ \A g \in Handlers \ {h} : task'[g] = task[g] /\ seen'[g] = seen[g]
  BY DEF LockResult, MutexFree, request, TypeOK, DeliveryTypeOK
<1>2. Settled(h)' = Settled(h)
  BY <1>1 DEF Settled
<1>3. Cardinality(Settled(h)') = Cardinality(Settled(h))
  BY <1>2
<1>4. Tally(h)'
  BY <1>1, <1>3 DEF Counts, Tallied, Tally
<1>5. \A v \in Users : RowTally(h, v)' /\ Locked(h, v)'
  BY <1>1 DEF Counts, Tallied, RowTally, Locked
<1>6. Phased(h)'
  BY <1>1 DEF Phased
<1>7. \A g \in Handlers \ {h} : Tallied(g)'
  BY <1>1, OtherTally
<1>8. Owned'
  BY <1>1 DEF Counts, Owned
<1> QED
  BY <1>4, <1>5, <1>6, <1>7, <1>8 DEF Counts, Tallied

(* What the goroutine of u adds, under the mutex, to the result as it is.   *)
LEMMA AddEffect ==
  ASSUME TypeOK, Counts, NEW h \in Handlers, NEW u \in Users, AddOutcome(h, u)
  PROVE  /\ pc[h] = "deliver" /\ task[h][u] = "add"
         /\ \A v \in Users : task'[h][v] = IF v = u THEN "done" ELSE task[h][v]
         /\ res'[h].success = res[h].success + batch[h][u].success
         /\ res'[h].failed = res[h].failed + batch[h][u].failure
         /\ res'[h].invalidated = res[h].invalidated + batch[h][u].removed
         /\ \A v \in Users \ {u} : batch'[h][v] = batch[h][v] /\ seen'[h][v] = seen[h][v]
         /\ \A g \in Handlers \ {h} : /\ task'[g] = task[g] /\ batch'[g] = batch[g]
                                     /\ seen'[g] = seen[g] /\ res'[g] = res[g]
         /\ UNCHANGED <<pc, code, snap, tokens>>
<1>1. task[h][u] = "add" /\ seen[h][u] = res[h]
  BY DEF AddOutcome, Counts, Tallied, Locked
<1> QED
  BY <1>1 DEF AddOutcome, request, TypeOK, DeliveryTypeOK

(* The goroutine of u ends: its outcome adds up to the tokens of u, which   *)
(* nobody else has counted.                                                 *)
LEMMA AddTally ==
  ASSUME TypeOK, Counts, NEW h \in Handlers, NEW u \in Users, AddOutcome(h, u)
  PROVE  Counts'
<1>1. /\ batch[h][u].success \in Nat /\ batch[h][u].failure \in Nat
      /\ batch[h][u].removed \in Nat
      /\ res[h].success \in Nat /\ res[h].failed \in Nat /\ res[h].invalidated \in Nat
  BY DEF TypeOK, DeliveryTypeOK
<1>2. /\ batch[h][u].success + batch[h][u].failure = Cardinality(snap[h][u])
      /\ batch[h][u].removed <= batch[h][u].failure
  BY AddEffect DEF Counts, Tallied, RowTally
<1>3. Settled(h)' = Settled(h) \cup snap[h][u]
  BY AddEffect DEF Settled
<1>4. Settled(h) \cap snap[h][u] = {}
  BY AddEffect DEF Counts, Owned, Settled
<1>5. /\ IsFiniteSet(Settled(h)) /\ IsFiniteSet(snap[h][u])
      /\ Cardinality(Settled(h)) \in Nat /\ Cardinality(snap[h][u]) \in Nat
  BY SettledFinite, TokenCount DEF TypeOK, DeliveryTypeOK
<1>6. Cardinality(Settled(h) \cup snap[h][u]) = Cardinality(Settled(h)) + Cardinality(snap[h][u])
  <2>1. Cardinality(Settled(h) \cap snap[h][u]) = 0
    BY <1>4, FS_EmptySet
  <2>2. Cardinality(Settled(h) \cup snap[h][u])
          = Cardinality(Settled(h)) + Cardinality(snap[h][u])
              - Cardinality(Settled(h) \cap snap[h][u])
    BY <1>5, FS_Union
  <2> QED
    BY <1>5, <2>1, <2>2
<1>7. Cardinality(Settled(h)') = Cardinality(Settled(h)) + Cardinality(snap[h][u])
  BY <1>3, <1>6
<1>8. Tally(h)'
  BY <1>1, <1>2, <1>5, <1>7, AddEffect DEF Counts, Tallied, Tally
<1>9. Tallied(h)'
  <2>1. \A v \in Users : task'[h][v] # "add"
    BY AddEffect DEF Counts, Tallied, Locked
  <2>2. \A v \in Users : RowTally(h, v)'
    BY AddEffect DEF Counts, Tallied, RowTally
  <2>3. Phased(h)'
    BY AddEffect DEF Phased
  <2> QED
    BY <1>8, <2>1, <2>2, <2>3 DEF Tallied, Locked
<1>10. \A g \in Handlers \ {h} : Tallied(g)'
  BY AddEffect, OtherTally
<1>11. Owned'
  BY AddEffect DEF Counts, Owned
<1> QED
  BY <1>9, <1>10, <1>11 DEF Counts

LEMMA NextCounts == TypeOK /\ Counts /\ [Next]_vars => Counts'
<1> SUFFICES ASSUME TypeOK, Counts, [Next]_vars PROVE Counts'
  OBVIOUS
<1> USE DEF Tallied, Phased, AllDone
<1>1. ASSUME UNCHANGED <<pc, code, delivery, tokens>> PROVE Counts'
  BY <1>1, QuietTally DEF Counts, Owned, delivery
<1>2. ASSUME NEW m \in Messages, Publish(m) \/ DeadLetter(m) PROVE Counts'
  BY <1>1, <1>2 DEF Publish, DeadLetter, request
<1>3. ASSUME NEW m \in Messages, NEW h \in Handlers, Deliver(m, h) PROVE Counts'
  <2>1. \A g \in Handlers : Phased(g)'
    BY <1>3 DEF Deliver, Goto, Counts, delivery, TypeOK, RequestTypeOK
  <2> QED
    BY <1>3, <2>1, QuietTally DEF Deliver, Counts, Owned
<1>4. ASSUME NEW h \in Handlers, AckDeadline(h) PROVE Counts'
  BY <1>1, <1>4 DEF AckDeadline
<1>5. ASSUME NEW h \in Handlers, Push(h) \/ CheckAndMark(h) PROVE Counts'
  <2>1. \A g \in Handlers : Phased(g)'
    BY <1>5 DEF Push, CheckAndMark, Reply, Goto, Counts, delivery, TypeOK, RequestTypeOK
  <2> QED
    BY <1>5, <2>1, QuietTally DEF Push, CheckAndMark, Counts, Owned
<1>6. ASSUME NEW h \in Handlers, ResolveSubscribers(h) PROVE Counts'
  BY <1>6, ResolveTally
<1>7. ASSUME NEW h \in Handlers, NEW u \in Users,
             \/ SendMulticast(h, u) \/ RemoveInvalidTokens(h, u)
             \/ LockResult(h, u) \/ AddOutcome(h, u)
      PROVE  Counts'
  BY <1>7, SendTally, RemoveTally, LockTally, AddTally
<1>8. ASSUME NEW h \in Handlers, WaitAll(h) PROVE Counts'
  <2>1. \A g \in Handlers : Phased(g)'
    BY <1>8 DEF WaitAll, Reply, Goto, Counts, delivery, TypeOK, RequestTypeOK
  <2> QED
    BY <1>8, <2>1, QuietTally DEF WaitAll, Counts, Owned
<1>9. ASSUME NEW h \in Handlers, Respond(h) \/ Kill(h) PROVE Counts'
  BY <1>9, ReleaseTally DEF Respond, Kill
<1>10. ASSUME NEW t \in Tokens, Uninstall(t) \/ RegisterFcmToken(t) PROVE Counts'
  <2>1. \A u \in Users : \A d \in tokens'[u] : Owner[d] = u
    BY <1>10 DEF Uninstall, RegisterFcmToken, Counts, Owned, TypeOK, StoreTypeOK
  <2>2. \A g \in Handlers : Phased(g)'
    BY <1>10 DEF Uninstall, RegisterFcmToken, Counts, request, delivery
  <2> QED
    BY <1>10, <2>1, <2>2, QuietTally DEF Uninstall, RegisterFcmToken
<1>11. ASSUME NEW k \in Keys, Reap(k) PROVE Counts'
  BY <1>1, <1>11 DEF Reap, request
<1>12. CASE UNCHANGED vars
  BY <1>1, <1>12 DEF vars, request
<1> QED
  BY <1>2, <1>3, <1>4, <1>5, <1>6, <1>7, <1>8, <1>9, <1>10, <1>11, <1>12
  DEF Next, HandlerStep, SubscriptionStep

(* A request that has goroutines keeps its key: no other request claims it, *)
(* nor is its marker reaped, before the request ends.                       *)
Holding(h) == pc[h] # "idle" /\ \E u \in Users : task[h][u] # "none"

Holders ==
  \A h \in Handlers : Holding(h) =>
    /\ mark[Key(h)] = "present"
    /\ \A g \in Handlers : pc[g] \in {"resolve", "deliver"} /\ Key(g) = Key(h) => g = h

(* What the counters of h say of u: without a failure he was reached.       *)
Complete(h, u) == snap[h][u] = {} \/ fate[Key(h)][u] = "reached"

Told(h) ==
  pc[h] # "idle" => \A u \in Users :
    /\ task[h][u] \in {"cleanup", "count", "add"} /\ batch[h][u].failure = 0
         => Complete(h, u)
    /\ task[h][u] = "done" /\ res[h].failed = 0 => Complete(h, u)

AllTold == \A h \in Handlers : Told(h)

LEMMA InitTold == Init => Holders /\ AllTold
BY DEF Init, Holders, Holding, AllTold, Told

(* Whoever claims a key claimed it before, or finds it unmarked.            *)
LEMMA NewClaimant ==
  ASSUME TypeOK, [Next]_vars, NEW g \in Handlers, pc'[g] \in {"resolve", "deliver"}
  PROVE  /\ job'[g] = job[g]
         /\ \/ pc[g] \in {"resolve", "deliver"}
            \/ pc[g] = "dedup" /\ ~AlreadySeen(Key(g))
<1> USE DEF TypeOK, RequestTypeOK
<1>1. ASSUME NEW h \in Handlers, Push(h) \/ WaitAll(h) \/ ResolveSubscribers(h)
      PROVE  job'[g] = job[g] /\ pc[g] \in {"resolve", "deliver"}
  BY <1>1 DEF Push, WaitAll, ResolveSubscribers, Reply, Goto
<1>2. ASSUME NEW h \in Handlers, CheckAndMark(h)
      PROVE  /\ job'[g] = job[g]
             /\ \/ pc[g] \in {"resolve", "deliver"}
                \/ pc[g] = "dedup" /\ ~AlreadySeen(Key(g))
  BY <1>2 DEF CheckAndMark, Reply, Goto
<1>3. ASSUME NEW m \in Messages, NEW h \in Handlers, Deliver(m, h)
      PROVE  job'[g] = job[g] /\ pc[g] \in {"resolve", "deliver"}
  BY <1>3 DEF Deliver, Goto
<1>4. ASSUME NEW h \in Handlers, Respond(h) \/ Kill(h)
      PROVE  job'[g] = job[g] /\ pc[g] \in {"resolve", "deliver"}
  BY <1>4, ReleaseEffect DEF Respond, Kill
<1>5. CASE UNCHANGED <<pc, job>>
  BY <1>5
<1> QED
  BY <1>1, <1>2, <1>3, <1>4, <1>5
  DEF Next, HandlerStep, SubscriptionStep, vars, Publish, AckDeadline, DeadLetter,
      SendMulticast, RemoveInvalidTokens, LockResult, AddOutcome, Uninstall,
      RegisterFcmToken, Reap, request

(* An answer leaves the goroutines and the counters as they are. *)
LEMMA ReplyShape ==
  ASSUME TypeOK, [Next]_vars, NEW h \in Handlers, pc'[h] = "reply"
  PROVE  pc[h] # "idle" /\ job'[h] = job[h] /\ task'[h] = task[h]
<1> USE DEF TypeOK, RequestTypeOK
<1>1. ASSUME NEW g \in Handlers,
             Push(g) \/ WaitAll(g) \/ ResolveSubscribers(g) \/ CheckAndMark(g)
      PROVE  pc[h] # "idle" /\ job'[h] = job[h] /\ task'[h] = task[h]
  <2>1. UNCHANGED job
    BY <1>1 DEF Push, WaitAll, ResolveSubscribers, CheckAndMark
  <2>2. CASE g = h
    BY <1>1, <2>1, <2>2
    DEF Push, WaitAll, ResolveSubscribers, CheckAndMark, Reply, Goto, delivery
  <2>3. CASE g # h
    BY <1>1, <2>1, <2>3
    DEF Push, WaitAll, ResolveSubscribers, CheckAndMark, Reply, Goto, delivery, DeliveryTypeOK
  <2> QED
    BY <2>2, <2>3
<1>2. ASSUME NEW m \in Messages, NEW g \in Handlers, Deliver(m, g)
      PROVE  pc[h] # "idle" /\ job'[h] = job[h] /\ task'[h] = task[h]
  BY <1>2 DEF Deliver, Goto, delivery
<1>3. ASSUME NEW g \in Handlers, Respond(g) \/ Kill(g)
      PROVE  pc[h] # "idle" /\ job'[h] = job[h] /\ task'[h] = task[h]
  BY <1>3, ReleaseEffect DEF Respond, Kill
<1>4. ASSUME NEW g \in Handlers, NEW u \in Users,
             \/ SendMulticast(g, u) \/ RemoveInvalidTokens(g, u)
             \/ LockResult(g, u) \/ AddOutcome(g, u)
      PROVE  pc[h] # "idle" /\ job'[h] = job[h] /\ task'[h] = task[h]
  <2>1. UNCHANGED <<pc, job>> /\ pc[g] = "deliver" /\ \E s : task' = [task EXCEPT ![g][u] = s]
    BY <1>4, SendEffect
    DEF SendMulticast, RemoveInvalidTokens, LockResult, AddOutcome, request
  <2> QED
    BY <2>1 DEF DeliveryTypeOK
<1>5. CASE UNCHANGED <<pc, job, task>>
  BY <1>5
<1> QED
  BY <1>1, <1>2, <1>3, <1>4, <1>5
  DEF Next, HandlerStep, SubscriptionStep, vars, Publish, AckDeadline, DeadLetter, Uninstall,
      RegisterFcmToken, Reap, request, delivery

LEMMA NextHolders ==
  ASSUME TypeOK, Busy, Claims, Counts, Holders, [Next]_vars, Claims', Counts', TypeOK', Busy'
  PROVE  Holders'
<1> SUFFICES ASSUME NEW h \in Handlers, pc'[h] # "idle",
                    NEW u \in Users, task'[h][u] # "none"
             PROVE  /\ mark'[Key(h)'] = "present"
                    /\ \A g \in Handlers :
                         pc'[g] \in {"resolve", "deliver"} /\ Key(g)' = Key(h)' => g = h
  BY DEF Holders, Holding
<1>1. pc'[h] \in {"deliver", "reply"}
  BY DEF Counts, Tallied, Phased
<1>2. CASE pc'[h] = "deliver"
  BY <1>2 DEF Claims, ClaimMarked, OneClaimant
<1>3. CASE pc'[h] = "reply"
  <2>1. job'[h] = job[h] /\ pc[h] # "idle" /\ task[h][u] # "none" /\ Key(h)' = Key(h)
    BY <1>3, ReplyShape DEF Key
  <2>2. Key(h) \in Keys /\ job[h] \in Messages
    BY <2>1, KeyTyped
  <2>3. /\ mark[Key(h)] = "present"
        /\ \A g \in Handlers : pc[g] \in {"resolve", "deliver"} /\ Key(g) = Key(h) => g = h
    BY <2>1 DEF Holders, Holding
  <2>4. mark'[Key(h)] = "present"
    <3>1. ASSUME NEW k \in Keys, Reap(k) PROVE mark'[Key(h)] = "present"
      BY <2>2, <2>3, <3>1, NotifierAssumption DEF Reap, TypeOK, StoreTypeOK
    <3>2. ASSUME NEW g \in Handlers, CheckAndMark(g) PROVE mark'[Key(h)] = "present"
      BY <2>2, <2>3, <3>2 DEF CheckAndMark, Marked, TypeOK, StoreTypeOK
    <3>3. CASE UNCHANGED mark
      BY <2>3, <3>3
    <3> QED
      BY <3>1, <3>2, <3>3
      DEF Next, HandlerStep, SubscriptionStep, vars, Publish, Deliver, AckDeadline,
          DeadLetter, Push, ResolveSubscribers, SendMulticast, RemoveInvalidTokens,
          LockResult, AddOutcome, WaitAll, Respond, Kill, Uninstall, RegisterFcmToken
  <2>5. ASSUME NEW g \in Handlers, pc'[g] \in {"resolve", "deliver"}, Key(g)' = Key(h)
        PROVE  g = h
    <3>1. Key(g) = Key(h)
      BY <2>5, NewClaimant DEF Key
    <3>2. ~(pc[g] = "dedup" /\ ~AlreadySeen(Key(g)))
      BY <2>3, <3>1 DEF AlreadySeen
    <3> QED
      BY <2>3, <2>5, <3>1, <3>2, NewClaimant
  <2> QED
    BY <2>1, <2>4, <2>5
<1> QED
  BY <1>1, <1>2, <1>3

(* A step that leaves the goroutines of h alone, and the fates of its users. *)
LEMMA SameTold ==
  ASSUME NEW h \in Handlers, Told(h),
         pc'[h] # "idle" => pc[h] # "idle" /\ job'[h] = job[h],
         task'[h] = task[h], snap'[h] = snap[h], batch'[h] = batch[h], res'[h] = res[h],
         Holding(h) => fate'[Key(h)] = fate[Key(h)]
  PROVE  Told(h)'
BY DEF Told, Complete, Holding, Key

(* No goroutine of h has an outcome. *)
LEMMA NothingTold ==
  ASSUME NEW h \in Handlers, \A u \in Users : task'[h][u] \in {"none", "queued"}
  PROVE  Told(h)'
BY DEF Told

LEMMA SendTold ==
  ASSUME TypeOK, Busy, Claims, Holders, AllTold,
         NEW h \in Handlers, NEW u \in Users, SendMulticast(h, u)
  PROVE  AllTold'
<1>1. /\ pc[h] = "deliver" /\ task[h][u] = "queued"
      /\ UNCHANGED <<pc, job, snap, res>> /\ Key(h) \in Keys
  BY KeyTyped DEF SendMulticast, request
<1>2. PICK s, b, f :
        /\ s \in {"cleanup", "count"}
        /\ task' = [task EXCEPT ![h][u] = s]
        /\ batch' = [batch EXCEPT ![h][u] = b]
        /\ fate' = [fate EXCEPT ![Key(h)][u] = f]
        /\ AnswerOf(snap[h][u], b, f)
  BY SendEffect
<1>2a. b.failure = 0 /\ snap[h][u] # {} => f = "reached"
  BY <1>2 DEF AnswerOf
<1>3. /\ task'[h][u] = s /\ batch'[h][u] = b /\ fate'[Key(h)][u] = f
      /\ \A v \in Users \ {u} : /\ task'[h][v] = task[h][v] /\ batch'[h][v] = batch[h][v]
                               /\ fate'[Key(h)][v] = fate[Key(h)][v]
      /\ \A g \in Handlers \ {h} : task'[g] = task[g] /\ batch'[g] = batch[g]
      /\ \A k \in Keys \ {Key(h)} : fate'[k] = fate[k]
  BY <1>1, <1>2 DEF TypeOK, DeliveryTypeOK, HistoryTypeOK
<1>4. Told(h)'
  BY <1>1, <1>2, <1>2a, <1>3 DEF AllTold, Told, Complete, Key
<1>5. ASSUME NEW g \in Handlers \ {h} PROVE Told(g)'
  <2>1. Holding(g) => Key(g) # Key(h) /\ Key(g) \in Keys
    BY <1>1, KeyTyped DEF Holders, Holding
  <2>2. Told(g) /\ (Holding(g) => fate'[Key(g)] = fate[Key(g)])
    BY <1>3, <2>1 DEF AllTold
  <2> QED
    BY <1>1, <1>3, <2>2, SameTold
<1> QED
  BY <1>4, <1>5 DEF AllTold

LEMMA WorkTold ==
  ASSUME TypeOK, Counts, AllTold, NEW h \in Handlers, NEW u \in Users,
         RemoveInvalidTokens(h, u) \/ LockResult(h, u) \/ AddOutcome(h, u)
  PROVE  AllTold'
<1>1. UNCHANGED <<pc, job, snap, fate>> /\ pc[h] = "deliver"
  BY WorkEffect
<1>2. \A g \in Handlers \ {h} :
        task'[g] = task[g] /\ batch'[g] = batch[g] /\ res'[g] = res[g]
  BY DEF RemoveInvalidTokens, LockResult, AddOutcome, TypeOK, DeliveryTypeOK
<1>3. \A g \in Handlers \ {h} : Told(g)'
  BY <1>1, <1>2, SameTold DEF AllTold
<1>4. CASE RemoveInvalidTokens(h, u) \/ LockResult(h, u)
  <2>1. /\ task[h][u] \in {"cleanup", "count"} /\ task'[h][u] \in {"count", "add"}
        /\ UNCHANGED res
        /\ \A v \in Users \ {u} : task'[h][v] = task[h][v]
        /\ \A v \in Users : batch'[h][v].failure = batch[h][v].failure
    <3>1. CASE RemoveInvalidTokens(h, u)
      <4>1. \A v \in Users : batch'[h][v].failure = batch[h][v].failure
        <5>1. CASE UNCHANGED batch
          BY <5>1
        <5>2. CASE batch' = [batch EXCEPT ![h][u].removed = Cardinality(batch[h][u].invalid)]
          BY <5>2 DEF TypeOK, DeliveryTypeOK
        <5> QED
          BY <3>1, <5>1, <5>2 DEF RemoveInvalidTokens
      <4> QED
        BY <3>1, <4>1 DEF RemoveInvalidTokens, TypeOK, DeliveryTypeOK
    <3>2. CASE LockResult(h, u)
      BY <3>2 DEF LockResult, TypeOK, DeliveryTypeOK
    <3> QED
      BY <1>4, <3>1, <3>2
  <2> QED
    BY <1>1, <1>3, <2>1 DEF AllTold, Told, Complete, Key
<1>5. CASE AddOutcome(h, u)
  <2>1. /\ task[h][u] = "add" /\ task'[h][u] = "done"
        /\ \A v \in Users \ {u} : task'[h][v] = task[h][v] /\ batch'[h][v] = batch[h][v]
        /\ res'[h].failed = res[h].failed + batch[h][u].failure
    BY <1>5, AddEffect
  <2>2. res[h].failed \in Nat /\ batch[h][u].failure \in Nat
    BY DEF TypeOK, DeliveryTypeOK
  <2>3. res'[h].failed = 0 => res[h].failed = 0 /\ batch[h][u].failure = 0
    <3>1. \A x, y \in Nat : x + y = 0 => x = 0 /\ y = 0
      OBVIOUS
    <3> QED
      BY <2>1, <2>2, <3>1
  <2>4. Told(h)'
    BY <1>1, <2>1, <2>3 DEF AllTold, Told, Complete, Key
  <2> QED
    BY <1>3, <2>4 DEF AllTold
<1> QED
  BY <1>4, <1>5

LEMMA NextTold ==
  ASSUME TypeOK, Busy, Claims, Counts, Holders, AllTold, [Next]_vars
  PROVE  AllTold'
<1>1. ASSUME UNCHANGED <<job, delivery, fate>>,
             \A h \in Handlers : pc'[h] # "idle" => pc[h] # "idle"
      PROVE  AllTold'
  BY <1>1, SameTold DEF AllTold, delivery
<1>2. ASSUME NEW h \in Handlers, Push(h) \/ CheckAndMark(h) \/ WaitAll(h) PROVE AllTold'
  BY <1>1, <1>2
  DEF Push, CheckAndMark, WaitAll, Reply, Goto, history, TypeOK, RequestTypeOK
<1>3. ASSUME \/ \E m \in Messages : Publish(m) \/ DeadLetter(m)
             \/ \E h \in Handlers : AckDeadline(h)
             \/ \E t \in Tokens : Uninstall(t) \/ RegisterFcmToken(t)
             \/ UNCHANGED vars
      PROVE  AllTold'
  BY <1>1, <1>3
  DEF Publish, DeadLetter, AckDeadline, Uninstall, RegisterFcmToken, vars, request, history
<1>4. ASSUME NEW m \in Messages, NEW h \in Handlers, Deliver(m, h) PROVE AllTold'
  <2>1. \A u \in Users : task'[h][u] = "none"
    BY <1>4 DEF Deliver, delivery, Counts, Tallied, Phased
  <2>2. \A g \in Handlers \ {h} : pc'[g] = pc[g] /\ job'[g] = job[g]
    BY <1>4 DEF Deliver, Goto, TypeOK, RequestTypeOK
  <2>3. \A g \in Handlers \ {h} : Told(g)'
    BY <1>4, <2>2, SameTold DEF Deliver, delivery, history, AllTold
  <2> QED
    BY <2>1, <2>3, NothingTold DEF AllTold
<1>5. ASSUME NEW h \in Handlers, ResolveSubscribers(h) PROVE AllTold'
  <2>1. /\ UNCHANGED <<job, batch, res, fate>>
        /\ \A g \in Handlers \ {h} : pc'[g] = pc[g] /\ task'[g] = task[g] /\ snap'[g] = snap[g]
    BY <1>5
    DEF ResolveSubscribers, Reply, Goto, TypeOK, RequestTypeOK, DeliveryTypeOK
  <2>2. \A u \in Users : task[h][u] = "none"
    BY <1>5 DEF ResolveSubscribers, Counts, Tallied, Phased
  <2>3. \A u \in Users : task'[h][u] \in {"none", "queued"}
    BY <1>5, <2>2 DEF ResolveSubscribers, TypeOK, DeliveryTypeOK
  <2>4. \A g \in Handlers \ {h} : Told(g)'
    BY <2>1, SameTold DEF AllTold
  <2> QED
    BY <2>3, <2>4, NothingTold DEF AllTold
<1>6. ASSUME NEW h \in Handlers, Respond(h) \/ Kill(h) PROVE AllTold'
  <2>1. /\ Release(h) /\ UNCHANGED fate
        /\ \A g \in Handlers \ {h} : /\ pc'[g] = pc[g] /\ job'[g] = job[g]
                                    /\ task'[g] = task[g] /\ snap'[g] = snap[g]
                                    /\ batch'[g] = batch[g] /\ res'[g] = res[g]
        /\ pc'[h] = "idle"
    BY <1>6
    DEF Respond, Kill, history, Release, Goto, TypeOK, RequestTypeOK, DeliveryTypeOK
  <2>2. \A g \in Handlers \ {h} : Told(g)'
    BY <2>1, SameTold DEF AllTold
  <2> QED
    BY <2>1, <2>2 DEF AllTold, Told
<1>7. ASSUME NEW k \in Keys, Reap(k) PROVE AllTold'
  <2>1. UNCHANGED <<pc, job, delivery>> /\ \A l \in Keys \ {k} : fate'[l] = fate[l]
    BY <1>7 DEF Reap, request, TypeOK, HistoryTypeOK
  <2>2. ASSUME NEW h \in Handlers, Holding(h) PROVE fate'[Key(h)] = fate[Key(h)]
    <3>1. Key(h) \in Keys /\ job[h] \in Messages
      BY <2>2, KeyTyped DEF Holding
    <3> QED
      BY <1>7, <2>1, <3>1, NotifierAssumption DEF Reap
  <2> QED
    BY <2>1, <2>2, SameTold DEF AllTold, delivery
<1>8. ASSUME NEW h \in Handlers, NEW u \in Users,
             \/ SendMulticast(h, u) \/ RemoveInvalidTokens(h, u)
             \/ LockResult(h, u) \/ AddOutcome(h, u)
      PROVE  AllTold'
  BY <1>8, SendTold, WorkTold
<1> QED
  BY <1>2, <1>3, <1>4, <1>5, <1>6, <1>7, <1>8 DEF Next, HandlerStep, SubscriptionStep

(* When a handler answers 200, its counters account for every token of its  *)
(* recipients exactly once, in whatever order its goroutines ended and      *)
(* whatever FCM answered; no token counts as removed that had not failed;   *)
(* and a result without failures means that everyone was reached.           *)
THEOREM CountersAddUp == Spec => []ResultAccounts
<1> DEFINE IInv == TypeOK /\ Busy /\ Claims /\ Counts /\ Holders /\ AllTold
<1>1. IInv => ResultAccounts
  <2> SUFFICES ASSUME TypeOK, Counts, AllTold,
                      NEW h \in Handlers, pc[h] = "reply", code[h] = 200
               PROVE  /\ res[h].success + res[h].failed
                           = Cardinality(UNION {snap[h][u] : u \in Users})
                      /\ res[h].invalidated <= res[h].failed
                      /\ res[h].failed = 0 =>
                           \A u \in Users : snap[h][u] # {} => fate[Key(h)][u] = "reached"
    BY DEF ResultAccounts
  <2>1. \A u \in Users : task[h][u] = "done" \/ snap[h][u] = {}
    BY DEF Counts, Tallied, Phased, AllDone, RowTally
  <2>2. UNION {snap[h][u] : u \in Users} = Settled(h)
    BY <2>1 DEF Settled
  <2>3. res[h].failed = 0 =>
          \A u \in Users : snap[h][u] # {} => fate[Key(h)][u] = "reached"
    BY <2>1 DEF AllTold, Told, Complete
  <2>4. /\ res[h].success + res[h].failed = Cardinality(Settled(h))
        /\ res[h].invalidated <= res[h].failed
    BY DEF Counts, Tallied, Tally
  <2> HIDE DEF IInv
  <2> QED
    BY <2>2, <2>3, <2>4
<1>2. Init => IInv
  BY InitTyped, InitClaims, InitCounts, InitTold
<1>3. IInv /\ [Next]_vars => IInv'
  BY NextTyped, NextClaims, NextCounts, NextHolders, NextTold
<1> HIDE DEF IInv
<1> QED
  BY <1>1, <1>2, <1>3, PTL DEF Spec
=============================================================================
