-------------------------- MODULE UserProfileProofs --------------------------
(***************************************************************************)
(* UserProfile, for any number of users, countries, tokens and calls: type *)
(* correctness, the safety of registrations, the meaning of NotFound, the  *)
(* refinement of ProfileStore, and that the taps of every user add up      *)
(* unless toggles of one country overlapped or failed after their write.   *)
(***************************************************************************)
EXTENDS UserProfile, TLAPS

LEMMA OpTyped ==
  ASSUME NEW new \in Call
  PROVE  /\ new.user \in Users
         /\ new.op \in {"GetProfile", "ToggleFavoriteCountry",
                        "UpdateNotificationPreference", "RegisterFcmToken"}
         /\ new.op = "ToggleFavoriteCountry" => new.country \in Countries
         /\ new.op = "UpdateNotificationPreference" => new.pref \in Prefs
         /\ new.op = "RegisterFcmToken" => new.token \in Tokens
BY DEF Call

(* A slot that is not idle holds a call. *)
LEMMA Held ==
  ASSUME TypeOK, NEW s \in Slots, pc[s] # "idle"
  PROVE  call[s] \in Call /\ call[s] # NoCall
BY DEF TypeOK, RequestTypeOK, Consistent

LEMMA InitTyped == Init => TypeOK
BY DEF Init, TypeOK, RequestTypeOK, HistoryTypeOK, Consistent, Labels, Empty

LEMMA EmptyTyped == Empty \in Profile
BY DEF Empty, Profile

LEMMA PutTyped ==
  ASSUME TypeOK, NEW s \in Slots, NEW document \in Profile, Put(s, document)
  PROVE  profile' \in [Users -> Profile \cup {Missing}]
BY DEF TypeOK, Put

LEMMA WrittenTyped ==
  ASSUME TypeOK, NEW s \in Slots, pc[s] = "write", Exists(s)
  PROVE  Written(s) \in Profile
<1>1. call[s] \in Call /\ Op(s) # "GetProfile"
  BY Held DEF TypeOK, Consistent
<1>2. User(s) \in Users
  BY <1>1, OpTyped DEF User
<1>3. profile[User(s)] \in Profile
  BY <1>2 DEF TypeOK, Exists
<1>4. snap[s] \in SUBSET Countries
  BY DEF TypeOK, RequestTypeOK
<1>5. CASE Op(s) = "ToggleFavoriteCountry"
  <2>1. call[s].country \in Countries
    BY <1>1, <1>5, OpTyped DEF Op
  <2>2. Toggled(profile[User(s)], call[s].country, snap[s]) \in Profile
    BY <1>3, <1>4, <2>1 DEF Toggled, Profile
  <2> QED
    BY <1>5, <2>2 DEF Written
<1>6. CASE Op(s) = "UpdateNotificationPreference"
  <2>1. call[s].pref \in Prefs
    BY <1>1, <1>6, OpTyped DEF Op
  <2>2. Preferred(profile[User(s)], call[s].pref) \in Profile
    BY <1>3, <2>1 DEF Preferred, Profile
  <2> QED
    BY <1>6, <2>2 DEF Written
<1>7. CASE Op(s) = "RegisterFcmToken"
  <2>1. call[s].token \in Tokens
    BY <1>1, <1>7, OpTyped DEF Op
  <2>2. Registered(profile[User(s)], call[s].token) \in Profile
    BY <1>3, <2>1 DEF Registered, Profile
  <2> QED
    BY <1>7, <2>2 DEF Written
<1> QED
  BY <1>1, <1>5, <1>6, <1>7, OpTyped DEF Op

LEMMA FailTyped ==
  ASSUME TypeOK, NEW s \in Slots, NEW reason \in {"not_found", "external"},
         pc[s] # "idle", Fail(s, reason)
  PROVE  RequestTypeOK' /\ Consistent'
<1>1. RequestTypeOK'
  BY DEF TypeOK, RequestTypeOK, Fail, Goto, Labels
<1>2. Consistent'
  BY DEF TypeOK, RequestTypeOK, Consistent, Fail, Goto, Op
<1> QED
  BY <1>1, <1>2

LEMMA SucceedTyped ==
  ASSUME TypeOK, NEW s \in Slots, Succeed(s)
  PROVE  RequestTypeOK' /\ Consistent'
<1>1. RequestTypeOK'
  BY DEF TypeOK, RequestTypeOK, Succeed, Labels
<1>2. Consistent'
  BY DEF TypeOK, RequestTypeOK, Consistent, Succeed, Op
<1> QED
  BY <1>1, <1>2

LEMMA StepTyped ==
  ASSUME TypeOK, NEW s \in Slots, NEW label \in Labels \ {"idle"}, pc[s] # "idle",
         Goto(s, label), UNCHANGED <<call, code, erased>>,
         snap' \in [Slots -> SUBSET Countries],
         label = "read" => Op(s) = "ToggleFavoriteCountry",
         label \in {"create", "write"} => Op(s) # "GetProfile"
  PROVE  RequestTypeOK' /\ Consistent'
<1>1. RequestTypeOK'
  BY DEF TypeOK, RequestTypeOK, Goto
<1>2. Consistent'
  BY DEF TypeOK, RequestTypeOK, Consistent, Goto, Op
<1> QED
  BY <1>1, <1>2

LEMMA DoubtTyped ==
  ASSUME TypeOK, NEW s \in Slots, pc[s] # "idle", NEW done \in BOOLEAN, Doubt(s, done)
  PROVE  unsure' \in [Users -> SUBSET Countries]
<1>1. call[s] \in Call
  BY Held
<1>2. User(s) \in Users /\ (Op(s) = "ToggleFavoriteCountry" => call[s].country \in Countries)
  BY <1>1, OpTyped DEF User, Op
<1> QED
  BY <1>2 DEF Doubt, TypeOK, HistoryTypeOK

LEMMA BeginTyped ==
  ASSUME TypeOK, NEW s \in Slots, NEW new \in Call, Begin(s, new)
  PROVE  TypeOK'
<1>1. new # NoCall
  BY MissingAssumption
<1>2. FirstStep(new.op) \in {"get", "create"}
  BY DEF FirstStep
<1>3. RequestTypeOK'
  BY <1>2 DEF TypeOK, RequestTypeOK, Begin, Goto, Labels
<1>4. Consistent'
  BY <1>1, <1>2 DEF TypeOK, RequestTypeOK, Consistent, Begin, Goto, Op, FirstStep
<1>5. /\ wanted' \in [Users -> SUBSET Countries]
      /\ unsure' \in [Users -> SUBSET Countries]
  <2>1. CASE new.op = "ToggleFavoriteCountry"
    <3>1. new.user \in Users /\ new.country \in Countries
      BY <2>1, OpTyped
    <3>2. Flip(wanted[new.user], new.country) \in SUBSET Countries
      BY <3>1 DEF TypeOK, HistoryTypeOK, Flip
    <3> QED
      BY <2>1, <3>1, <3>2 DEF TypeOK, HistoryTypeOK, Begin
  <2>2. CASE new.op # "ToggleFavoriteCountry"
    BY <2>2 DEF TypeOK, HistoryTypeOK, Begin
  <2> QED
    BY <2>1, <2>2
<1> QED
  BY <1>3, <1>4, <1>5 DEF TypeOK, HistoryTypeOK, Begin

LEMMA RetryTyped ==
  ASSUME TypeOK, NEW s \in Slots, Retry(s)
  PROVE  TypeOK'
<1>1. FirstStep(Op(s)) \in {"get", "create"}
  BY DEF FirstStep
<1>2. RequestTypeOK'
  BY <1>1 DEF TypeOK, RequestTypeOK, Retry, Goto, Labels
<1>3. Consistent'
  BY <1>1 DEF TypeOK, RequestTypeOK, Consistent, Retry, Goto, Op, FirstStep
<1> QED
  BY <1>2, <1>3 DEF TypeOK, HistoryTypeOK, Retry, history

LEMMA CreateTyped ==
  ASSUME TypeOK, NEW s \in Slots, CreateIfMissing(s)
  PROVE  TypeOK'
<1> DEFINE next == CASE pc[s] = "bootstrap" -> "refetch"
                     [] Op(s) = "ToggleFavoriteCountry" -> "read"
                     [] OTHER -> "write"
<1>1. pc[s] \in {"create", "bootstrap"} /\ call[s] \in Call
  BY Held DEF CreateIfMissing
<1>2. User(s) \in Users
  BY <1>1, OpTyped DEF User
<1>3. Created(profile[User(s)]) \in Profile
  BY <1>2, EmptyTyped DEF Created, TypeOK
<1>4. profile' \in [Users -> Profile \cup {Missing}]
  BY <1>3, PutTyped DEF CreateIfMissing, TypeOK
<1>5. CASE Step(s, next) /\ UNCHANGED unsure
  <2>1. next \in {"refetch", "read", "write"}
    OBVIOUS
  <2>2. next = "read" => Op(s) = "ToggleFavoriteCountry"
    OBVIOUS
  <2>3. next = "write" => pc[s] = "create"
    BY <1>1
  <2>4. next = "write" => Op(s) # "GetProfile"
    BY <2>3 DEF TypeOK, Consistent
  <2> HIDE DEF next
  <2> QED
    BY <1>1, <1>4, <1>5, <2>1, <2>2, <2>4, StepTyped
    DEF Step, TypeOK, RequestTypeOK, HistoryTypeOK, CreateIfMissing, history, Labels
<1>6. CASE Fail(s, "external") /\ Doubt(s, pc[s] = "bootstrap")
  <2>1. unsure' \in [Users -> SUBSET Countries]
    BY <1>1, <1>6, DoubtTyped
  <2> QED
    BY <1>1, <1>4, <1>6, <2>1, FailTyped DEF TypeOK, HistoryTypeOK, CreateIfMissing
<1> QED
  BY <1>5, <1>6 DEF CreateIfMissing

LEMMA GetTyped ==
  ASSUME TypeOK, NEW s \in Slots, Get(s) \/ Refetch(s)
  PROVE  TypeOK'
<1>1. pc[s] \in {"get", "refetch"} /\ UNCHANGED <<profile, wanted, acked>>
  BY DEF Get, Refetch
<1>2. RequestTypeOK' /\ Consistent'
  <2>1. CASE Succeed(s)
    BY <2>1, SucceedTyped
  <2>2. ASSUME NEW reason \in {"not_found", "external"}, Fail(s, reason)
        PROVE  RequestTypeOK' /\ Consistent'
    BY <1>1, <2>2, FailTyped
  <2>3. CASE Step(s, "bootstrap")
    BY <1>1, <2>3, StepTyped DEF Step, TypeOK, RequestTypeOK, Labels
  <2> QED
    BY <2>1, <2>2, <2>3 DEF Get, Refetch
<1>3. unsure' \in [Users -> SUBSET Countries]
  <2>1. CASE UNCHANGED unsure
    BY <2>1 DEF TypeOK, HistoryTypeOK
  <2>2. CASE Doubt(s, TRUE)
    BY <1>1, <2>2, DoubtTyped
  <2> QED
    BY <2>1, <2>2 DEF Get, Refetch
<1> QED
  BY <1>1, <1>2, <1>3 DEF TypeOK, HistoryTypeOK

LEMMA ReadTyped ==
  ASSUME TypeOK, NEW s \in Slots, Read(s)
  PROVE  TypeOK'
<1>1. /\ pc[s] = "read" /\ UNCHANGED <<profile, history>>
      /\ call[s] \in Call /\ Op(s) = "ToggleFavoriteCountry"
  BY Held DEF Read, TypeOK, Consistent
<1>2. User(s) \in Users
  BY <1>1, OpTyped DEF User
<1>3. RequestTypeOK' /\ Consistent'
  <2>1. ASSUME NEW reason \in {"not_found", "external"}, Fail(s, reason)
        PROVE  RequestTypeOK' /\ Consistent'
    BY <1>1, <2>1, FailTyped
  <2>2. CASE /\ Exists(s)
             /\ Goto(s, "write")
             /\ snap' = [snap EXCEPT ![s] = profile[User(s)].favorites]
             /\ UNCHANGED <<call, code, erased>>
    <3>1. profile[User(s)].favorites \in SUBSET Countries
      BY <1>2, <2>2 DEF TypeOK, Exists, Profile
    <3>2. snap' \in [Slots -> SUBSET Countries]
      BY <2>2, <3>1 DEF TypeOK, RequestTypeOK
    <3> QED
      BY <1>1, <2>2, <3>2, StepTyped DEF Labels
  <2> QED
    BY <2>1, <2>2 DEF Read
<1> QED
  BY <1>1, <1>3 DEF TypeOK, HistoryTypeOK, history

LEMMA UpdateTyped ==
  ASSUME TypeOK, NEW s \in Slots, Update(s)
  PROVE  TypeOK'
<1>1. pc[s] = "write" /\ call[s] \in Call
  BY Held DEF Update
<1>2. profile' \in [Users -> Profile \cup {Missing}]
  BY <1>1, WrittenTyped, PutTyped DEF Update, TypeOK
<1>3. acked' \in [Users -> SUBSET Tokens]
  <2>1. Op(s) = "RegisterFcmToken" => call[s].token \in Tokens
    BY <1>1, OpTyped DEF Op
  <2> QED
    BY <2>1 DEF Update, TypeOK, HistoryTypeOK
<1>4. RequestTypeOK' /\ Consistent'
  <2>1. CASE Succeed(s)
    BY <2>1, SucceedTyped
  <2>2. ASSUME NEW reason \in {"not_found", "external"}, Fail(s, reason)
        PROVE  RequestTypeOK' /\ Consistent'
    BY <1>1, <2>2, FailTyped
  <2>3. CASE Step(s, "get")
    BY <1>1, <2>3, StepTyped DEF Step, TypeOK, RequestTypeOK, Labels
  <2> QED
    BY <2>1, <2>2, <2>3 DEF Update
<1>5. unsure' \in [Users -> SUBSET Countries]
  <2>1. CASE UNCHANGED unsure
    BY <2>1 DEF TypeOK, HistoryTypeOK
  <2>2. CASE Doubt(s, TRUE)
    BY <1>1, <2>2, DoubtTyped
  <2> QED
    BY <2>1, <2>2 DEF Update
<1> QED
  BY <1>2, <1>3, <1>4, <1>5 DEF TypeOK, HistoryTypeOK, Update

LEMMA OthersTyped ==
  ASSUME TypeOK, NEW u \in Users,
         (\E dead \in SUBSET Dead \ {{}} : Prune(u, dead)) \/ Erase(u)
  PROVE  TypeOK'
<1>1. ASSUME NEW dead \in SUBSET Dead, Prune(u, dead)
      PROVE  TypeOK'
  <2>1. profile[u] \in Profile
    BY <1>1 DEF Prune, TypeOK
  <2>2. [profile[u] EXCEPT !.tokens = @ \ dead] \in Profile
    BY <2>1 DEF Profile
  <2>3. profile' \in [Users -> Profile \cup {Missing}]
    BY <1>1, <2>2 DEF TypeOK, Prune
  <2>4. UNCHANGED request /\ UNCHANGED history
    BY <1>1 DEF Prune
  <2> QED
    BY <2>3, <2>4 DEF TypeOK, RequestTypeOK, HistoryTypeOK, Consistent, Op, request, history
<1>2. CASE Erase(u)
  <2>1. profile' \in [Users -> Profile \cup {Missing}]
    BY <1>2 DEF TypeOK, Erase
  <2>2. erased' \in [Slots -> BOOLEAN]
    BY <1>2 DEF TypeOK, RequestTypeOK, Erase
  <2>3. acked' \in [Users -> SUBSET Tokens] /\ unsure' \in [Users -> SUBSET Countries]
    BY <1>2 DEF TypeOK, HistoryTypeOK, Erase
  <2> QED
    BY <1>2, <2>1, <2>2, <2>3
    DEF TypeOK, RequestTypeOK, HistoryTypeOK, Consistent, Op, Erase
<1> QED
  BY <1>1, <1>2

LEMMA NextTyped == TypeOK /\ [Next]_vars => TypeOK'
<1> SUFFICES ASSUME TypeOK, [Next]_vars PROVE TypeOK'
  OBVIOUS
<1>1. CASE UNCHANGED vars
  BY <1>1 DEF TypeOK, RequestTypeOK, HistoryTypeOK, Consistent, Op, vars, request, history
<1> QED
  BY <1>1, BeginTyped, RetryTyped, CreateTyped, GetTyped, ReadTyped, UpdateTyped,
     OthersTyped DEF Next, RoundTrip

(* For any number of users and of interleaved calls, a document always has  *)
(* the shape both bounded contexts read, and every call stays on the round  *)
(* trips of its own operation.                                              *)
THEOREM TypeCorrect == Spec => []TypeOK
<1>1. Init => TypeOK
  BY InitTyped
<1>2. TypeOK /\ [Next]_vars => TypeOK'
  BY NextTyped
<1> QED
  BY <1>1, <1>2, PTL DEF Spec

-----------------------------------------------------------------------------
(* What a step does to the documents. *)

LEMMA MissingIsNoProfile == \A document \in Profile : document # Missing
BY MissingAssumption

(* A round trip writes at most the document of its own call, and never      *)
(* takes it away.                                                           *)
LEMMA RoundTripWrites ==
  ASSUME TypeOK, NEW s \in Slots, RoundTrip(s)
  PROVE  /\ User(s) \in Users /\ pc[s] # "idle"
         /\ \/ UNCHANGED profile
            \/ /\ pc[s] \in {"create", "bootstrap"}
               /\ Put(s, Created(profile[User(s)]))
            \/ /\ pc[s] = "write" /\ Exists(s)
               /\ Put(s, Written(s))
         /\ \A u \in Users : profile[u] # Missing => profile'[u] # Missing
<1>1. pc[s] # "idle"
  BY DEF RoundTrip, CreateIfMissing, Get, Refetch, Read, Update
<1>2. User(s) \in Users
  BY <1>1, Held, OpTyped DEF User
<1>3. \/ UNCHANGED profile
      \/ /\ pc[s] \in {"create", "bootstrap"}
         /\ Put(s, Created(profile[User(s)]))
      \/ /\ pc[s] = "write" /\ Exists(s)
         /\ Put(s, Written(s))
  BY DEF RoundTrip, CreateIfMissing, Get, Refetch, Read, Update
<1>4. \A u \in Users : profile[u] # Missing => profile'[u] # Missing
  <2>1. CASE Put(s, Created(profile[User(s)]))
    <3>1. Created(profile[User(s)]) # Missing
      BY EmptyTyped, MissingIsNoProfile DEF Created
    <3> QED
      BY <2>1, <3>1 DEF Put, TypeOK
  <2>2. CASE pc[s] = "write" /\ Exists(s) /\ Put(s, Written(s))
    <3>1. Written(s) # Missing
      BY <2>2, WrittenTyped, MissingIsNoProfile
    <3> QED
      BY <2>2, <3>1 DEF Put, TypeOK
  <2> QED
    BY <1>3, <2>1, <2>2
<1> QED
  BY <1>1, <1>2, <1>3, <1>4

-----------------------------------------------------------------------------
(* NotFound. *)

(* A call that has created its document finds it, unless it was deleted.    *)
CreatedOrErased ==
  \A s \in Slots : pc[s] \in {"refetch", "read", "write"} => Exists(s) \/ erased[s]

Found == CreatedOrErased /\ NotFoundMeansErased

LEMMA InitFound == Init => Found
BY DEF Init, Found, CreatedOrErased, NotFoundMeansErased

LEMMA RoundTripFound ==
  ASSUME TypeOK, Found, NEW s \in Slots, RoundTrip(s)
  PROVE  Found'
<1>1. /\ User(s) \in Users /\ pc[s] # "idle"
      /\ \A u \in Users : profile[u] # Missing => profile'[u] # Missing
  BY RoundTripWrites
<1>2. ASSUME NEW q \in Slots, q # s
      PROVE  /\ pc'[q] = pc[q] /\ call'[q] = call[q]
             /\ erased'[q] = erased[q] /\ code'[q] = code[q]
  BY <1>2 DEF RoundTrip, CreateIfMissing, Get, Refetch, Read, Update, Step, Goto, Fail,
     Succeed, TypeOK, RequestTypeOK
<1>3. ASSUME NEW q \in Slots, q # s, pc[q] \in {"refetch", "read", "write"}
      PROVE  Exists(q)' \/ erased'[q]
  <2>1. User(q) \in Users /\ User(q)' = User(q)
    BY <1>2, <1>3, Held, OpTyped DEF User
  <2> QED
    BY <1>1, <1>2, <1>3, <2>1 DEF Found, CreatedOrErased, Exists
<1>4. pc'[s] \in {"refetch", "read", "write"} => Exists(s)' \/ erased'[s]
  <2>1. CASE CreateIfMissing(s)
    <3>1. CASE Fail(s, "external")
      BY <3>1 DEF Fail, Goto, TypeOK, RequestTypeOK
    <3>2. CASE Put(s, Created(profile[User(s)])) /\ UNCHANGED call
      <4>1. Created(profile[User(s)]) # Missing
        BY EmptyTyped, MissingIsNoProfile DEF Created
      <4>2. User(s)' = User(s)
        BY <3>2 DEF User
      <4> QED
        BY <1>1, <3>2, <4>1, <4>2 DEF Put, Exists, TypeOK
    <3> QED
      BY <2>1, <3>1, <3>2 DEF CreateIfMissing, Step
  <2>2. CASE Get(s)
    BY <2>2 DEF Get, Succeed, Step, Fail, Goto, TypeOK, RequestTypeOK
  <2>3. CASE Refetch(s)
    BY <2>3 DEF Refetch, Succeed, Fail, Goto, TypeOK, RequestTypeOK
  <2>4. CASE Read(s)
    <3>1. CASE Exists(s) /\ UNCHANGED <<call, profile>>
      BY <3>1 DEF Exists, User
    <3>2. ASSUME NEW reason, Fail(s, reason)
          PROVE  pc'[s] = "retry"
      BY <3>2 DEF Fail, Goto, TypeOK, RequestTypeOK
    <3> QED
      BY <2>4, <3>1, <3>2 DEF Read
  <2>5. CASE Update(s)
    BY <2>5 DEF Update, Succeed, Step, Fail, Goto, TypeOK, RequestTypeOK
  <2> QED
    BY <2>1, <2>2, <2>3, <2>4, <2>5 DEF RoundTrip
<1>5. code'[s] = "not_found" => erased'[s]
  <2>1. CASE Fail(s, "external") \/ Succeed(s)
    BY <2>1 DEF Fail, Succeed, TypeOK, RequestTypeOK
  <2>2. CASE Fail(s, "not_found") /\ ~Exists(s) /\ pc[s] \in {"refetch", "read", "write"}
    BY <2>2 DEF Fail, Found, CreatedOrErased
  <2>3. CASE UNCHANGED <<code, erased>>
    BY <2>3 DEF Found, NotFoundMeansErased
  <2> QED
    BY <2>1, <2>2, <2>3 DEF RoundTrip, CreateIfMissing, Get, Refetch, Read, Update, Step
<1> QED
  BY <1>2, <1>3, <1>4, <1>5 DEF Found, CreatedOrErased, NotFoundMeansErased

LEMMA AppFound ==
  ASSUME TypeOK, Found, NEW s \in Slots,
         (\E new \in Call : Begin(s, new)) \/ Retry(s)
  PROVE  Found'
<1>1. UNCHANGED profile
  BY DEF Begin, Retry
<1>2. ASSUME NEW q \in Slots
      PROVE  IF q = s
               THEN pc'[q] \in {"get", "create"}
               ELSE pc'[q] = pc[q] /\ call'[q] = call[q] /\ erased'[q] = erased[q]
  BY DEF Begin, Retry, Goto, FirstStep, TypeOK, RequestTypeOK
<1>3. CreatedOrErased'
  BY <1>1, <1>2 DEF Found, CreatedOrErased, Exists, User
<1>4. NotFoundMeansErased'
  <2>1. CASE Retry(s)
    BY <2>1 DEF Retry, Found, NotFoundMeansErased, TypeOK, RequestTypeOK
  <2>2. CASE UNCHANGED <<code, erased>>
    BY <2>2 DEF Found, NotFoundMeansErased
  <2> QED
    BY <2>1, <2>2 DEF Begin
<1> QED
  BY <1>3, <1>4 DEF Found

LEMMA OthersFound ==
  ASSUME TypeOK, Found, NEW u \in Users,
         (\E dead \in SUBSET Dead \ {{}} : Prune(u, dead)) \/ Erase(u)
  PROVE  Found'
<1>1. ASSUME NEW dead \in SUBSET Dead, Prune(u, dead)
      PROVE  Found'
  <2>1. profile[u] \in Profile
    BY <1>1 DEF Prune, TypeOK
  <2>2. [profile[u] EXCEPT !.tokens = @ \ dead] \in Profile
    BY <2>1 DEF Profile
  <2>3. \A v \in Users : profile[v] # Missing => profile'[v] # Missing
    BY <1>1, <2>2, MissingIsNoProfile DEF Prune, TypeOK
  <2>4. UNCHANGED request
    BY <1>1 DEF Prune
  <2>5. \A s \in Slots : pc[s] # "idle" => User(s) \in Users
    BY Held, OpTyped DEF User
  <2> QED
    BY <2>3, <2>4, <2>5 DEF Found, CreatedOrErased, NotFoundMeansErased, Exists, User, request
<1>2. CASE Erase(u)
  <2>1. \A s \in Slots : erased'[s] = (erased[s] \/ (pc[s] # "idle" /\ User(s) = u))
    BY <1>2 DEF Erase
  <2>2. \A v \in Users \ {u} : profile'[v] = profile[v]
    BY <1>2 DEF Erase, TypeOK
  <2>3. UNCHANGED <<call, pc, code>>
    BY <1>2 DEF Erase
  <2>4. \A s \in Slots : pc[s] # "idle" => User(s) \in Users /\ User(s)' = User(s)
    BY <2>3, Held, OpTyped DEF User
  <2>5. CreatedOrErased'
    BY <2>1, <2>2, <2>3, <2>4 DEF Found, CreatedOrErased, Exists
  <2>6. NotFoundMeansErased'
    BY <2>1, <2>3 DEF Found, NotFoundMeansErased
  <2> QED
    BY <2>5, <2>6 DEF Found
<1> QED
  BY <1>1, <1>2

LEMMA NextFound == TypeOK /\ Found /\ [Next]_vars => Found'
<1> SUFFICES ASSUME TypeOK, Found, [Next]_vars PROVE Found'
  OBVIOUS
<1>1. CASE UNCHANGED vars
  BY <1>1 DEF Found, CreatedOrErased, NotFoundMeansErased, Exists, User, vars, request
<1> QED
  BY <1>1, RoundTripFound, AppFound, OthersFound DEF Next

(* However calls interleave, one is only answered NotFound if its document  *)
(* was deleted while it ran.                                                *)
THEOREM NewUsersAreServed == Spec => []NotFoundMeansErased
<1>1. Init => TypeOK /\ Found
  BY InitTyped, InitFound
<1>2. TypeOK /\ Found /\ [Next]_vars => (TypeOK /\ Found)'
  BY NextTyped, NextFound
<1>3. Found => NotFoundMeansErased
  BY DEF Found
<1> QED
  BY <1>1, <1>2, <1>3, PTL DEF Spec

-----------------------------------------------------------------------------
(* Registrations. *)

(* Every way of writing a document keeps the tokens it holds, and the       *)
(* registration adds its own.                                               *)
LEMMA WrittenKeepsTokens ==
  ASSUME TypeOK, NEW s \in Slots, pc[s] = "write", Exists(s)
  PROVE  /\ profile[User(s)].tokens \subseteq Written(s).tokens
         /\ Op(s) = "RegisterFcmToken" => call[s].token \in Written(s).tokens
<1>1. call[s] \in Call /\ Op(s) # "GetProfile"
  BY Held DEF TypeOK, Consistent
<1>2. User(s) \in Users
  BY <1>1, OpTyped DEF User
<1>3. profile[User(s)] \in Profile
  BY <1>2 DEF TypeOK, Exists
<1>4. CASE Op(s) = "ToggleFavoriteCountry"
  BY <1>3, <1>4 DEF Written, Toggled, Profile
<1>5. CASE Op(s) = "UpdateNotificationPreference"
  BY <1>3, <1>5 DEF Written, Preferred, Profile
<1>6. CASE Op(s) = "RegisterFcmToken"
  BY <1>3, <1>6 DEF Written, Registered, Profile
<1> QED
  BY <1>1, <1>4, <1>5, <1>6, OpTyped DEF Op

LEMMA RoundTripKeepsTokens ==
  ASSUME TypeOK, RegisteredStays, NEW s \in Slots, RoundTrip(s)
  PROVE  RegisteredStays'
<1>1. /\ User(s) \in Users /\ pc[s] # "idle"
      /\ \/ UNCHANGED profile
         \/ /\ pc[s] \in {"create", "bootstrap"}
            /\ Put(s, Created(profile[User(s)]))
         \/ /\ pc[s] = "write" /\ Exists(s)
            /\ Put(s, Written(s))
      /\ \A u \in Users : profile[u] # Missing => profile'[u] # Missing
  BY RoundTripWrites
<1>2. \A u \in Users : profile[u] # Missing =>
        profile[u].tokens \subseteq profile'[u].tokens
  <2>1. CASE Put(s, Created(profile[User(s)]))
    BY <1>1, <2>1 DEF Put, Created, TypeOK
  <2>2. CASE pc[s] = "write" /\ Exists(s) /\ Put(s, Written(s))
    BY <1>1, <2>2, WrittenKeepsTokens DEF Put, TypeOK
  <2> QED
    BY <1>1, <2>1, <2>2
<1>3. CASE UNCHANGED acked
  BY <1>1, <1>2, <1>3 DEF RegisteredStays
<1>4. CASE /\ pc[s] = "write" /\ Exists(s) /\ Put(s, Written(s))
           /\ Op(s) = "RegisterFcmToken"
           /\ acked' = [acked EXCEPT ![User(s)] = @ \cup {call[s].token}]
  <2>1. call[s].token \in profile'[User(s)].tokens /\ profile'[User(s)] # Missing
    BY <1>1, <1>4, WrittenKeepsTokens DEF Put, TypeOK, Exists
  <2>2. acked'[User(s)] = acked[User(s)] \cup {call[s].token}
    BY <1>1, <1>4 DEF TypeOK, HistoryTypeOK
  <2>3. \A u \in Users \ {User(s)} : acked'[u] = acked[u]
    BY <1>4 DEF TypeOK, HistoryTypeOK
  <2>4. acked[User(s)] \ Dead \subseteq profile[User(s)].tokens
    BY <1>1, <1>4 DEF RegisteredStays, Exists
  <2>5. acked'[User(s)] \ Dead \subseteq profile'[User(s)].tokens
    BY <1>1, <1>2, <1>4, <2>1, <2>2, <2>4 DEF Exists
  <2> QED
    BY <1>1, <1>2, <2>1, <2>3, <2>5 DEF RegisteredStays
<1> QED
  BY <1>3, <1>4 DEF RoundTrip, CreateIfMissing, Get, Refetch, Read, Update, history

LEMMA OthersKeepTokens ==
  ASSUME TypeOK, RegisteredStays, NEW u \in Users,
         (\E dead \in SUBSET Dead \ {{}} : Prune(u, dead)) \/ Erase(u)
  PROVE  RegisteredStays'
<1>1. ASSUME NEW dead \in SUBSET Dead, Prune(u, dead)
      PROVE  RegisteredStays'
  <2>1. profile[u] \in Profile
    BY <1>1 DEF Prune, TypeOK
  <2>2. /\ profile'[u] = [profile[u] EXCEPT !.tokens = @ \ dead]
        /\ profile'[u] \in Profile
        /\ profile'[u].tokens = profile[u].tokens \ dead
    BY <1>1, <2>1 DEF Prune, TypeOK, Profile
  <2>3. UNCHANGED acked /\ \A v \in Users \ {u} : profile'[v] = profile[v]
    BY <1>1 DEF Prune, TypeOK, history
  <2> QED
    BY <1>1, <2>2, <2>3, MissingIsNoProfile DEF RegisteredStays, Prune
<1>2. CASE Erase(u)
  <2>1. acked'[u] = {} /\ \A v \in Users \ {u} :
          profile'[v] = profile[v] /\ acked'[v] = acked[v]
    BY <1>2 DEF Erase, TypeOK, HistoryTypeOK
  <2> QED
    BY <2>1 DEF RegisteredStays
<1> QED
  BY <1>1, <1>2

LEMMA NextKeepsTokens == TypeOK /\ RegisteredStays /\ [Next]_vars => RegisteredStays'
<1> SUFFICES ASSUME TypeOK, RegisteredStays, [Next]_vars PROVE RegisteredStays'
  OBVIOUS
<1>1. CASE UNCHANGED <<profile, acked>>
  BY <1>1 DEF RegisteredStays
<1>2. ASSUME NEW s \in Slots, (\E new \in Call : Begin(s, new)) \/ Retry(s)
      PROVE  UNCHANGED <<profile, acked>>
  BY <1>2 DEF Begin, Retry, history
<1> QED
  BY <1>1, <1>2, RoundTripKeepsTokens, OthersKeepTokens DEF Next, vars, history

(* However calls, bootstraps and the notifier's clean-up interleave, a      *)
(* registration that succeeded stays until its document is deleted.         *)
THEOREM RegistrationsStay == Spec => []RegisteredStays
<1>1. Init => TypeOK /\ RegisteredStays
  BY InitTyped DEF Init, RegisteredStays
<1>2. TypeOK /\ RegisteredStays /\ [Next]_vars => (TypeOK /\ RegisteredStays)'
  BY NextTyped, NextKeepsTokens
<1> QED
  BY <1>1, <1>2, PTL DEF Spec

-----------------------------------------------------------------------------
(* The refinement of ProfileStore. *)

LEMMA RoundTripStores ==
  ASSUME TypeOK, NEW s \in Slots, RoundTrip(s)
  PROVE  [Store!Next]_profile
<1>1. /\ User(s) \in Users /\ pc[s] # "idle"
      /\ \/ UNCHANGED profile
         \/ /\ pc[s] \in {"create", "bootstrap"}
            /\ Put(s, Created(profile[User(s)]))
         \/ /\ pc[s] = "write" /\ Exists(s)
            /\ Put(s, Written(s))
  BY RoundTripWrites
<1>2. CASE Put(s, Created(profile[User(s)]))
  <2>1. CASE profile[User(s)] = Missing
    <3>1. Store!Bootstrap(User(s))
      BY <1>2, <2>1 DEF Put, Created, Store!Bootstrap, Store!Write, Store!Empty, Empty
    <3> QED
      BY <1>1, <3>1 DEF Store!Next
  <2>2. CASE profile[User(s)] # Missing
    BY <1>1, <1>2, <2>2 DEF Put, Created, TypeOK
  <2> QED
    BY <2>1, <2>2
<1>3. CASE pc[s] = "write" /\ Exists(s) /\ Put(s, Written(s))
  <2>1. call[s] \in Call /\ Op(s) # "GetProfile"
    BY <1>3, Held DEF TypeOK, Consistent
  <2>2. CASE Op(s) = "ToggleFavoriteCountry"
    <3>1. call[s].country \in Countries
      BY <2>1, <2>2, OpTyped DEF Op
    <3>2. Store!Favor(User(s), call[s].country)
      BY <1>3, <2>2 DEF Put, Written, Toggled, Exists, Store!Favor, Store!Write
    <3> QED
      BY <1>1, <3>1, <3>2 DEF Store!Next
  <2>3. CASE Op(s) = "UpdateNotificationPreference"
    <3>1. call[s].pref \in Prefs
      BY <2>1, <2>3, OpTyped DEF Op
    <3>2. Store!Prefer(User(s), call[s].pref)
      BY <1>3, <2>3 DEF Put, Written, Preferred, Exists, Store!Prefer, Store!Write
    <3> QED
      BY <1>1, <3>1, <3>2 DEF Store!Next
  <2>4. CASE Op(s) = "RegisterFcmToken"
    <3>1. call[s].token \in Tokens
      BY <2>1, <2>4, OpTyped DEF Op
    <3>2. Store!Register(User(s), call[s].token)
      BY <1>3, <2>4 DEF Put, Written, Registered, Exists, Store!Register, Store!Write
    <3> QED
      BY <1>1, <3>1, <3>2 DEF Store!Next
  <2> QED
    BY <2>1, <2>2, <2>3, <2>4, OpTyped DEF Op
<1> QED
  BY <1>1, <1>2, <1>3

LEMMA OthersStore ==
  ASSUME TypeOK, NEW u \in Users,
         (\E dead \in SUBSET Dead \ {{}} : Prune(u, dead)) \/ Erase(u)
  PROVE  Store!Next
<1>1. ASSUME NEW dead \in SUBSET Dead, Prune(u, dead)
      PROVE  Store!Next
  <2>1. Store!Prune(u, dead)
    BY <1>1 DEF Prune, Store!Prune, Store!Write
  <2> QED
    BY <2>1 DEF Store!Next
<1>2. CASE Erase(u)
  <2>1. Store!Erase(u)
    BY <1>2 DEF Erase, Store!Erase, Store!Write
  <2> QED
    BY <2>1 DEF Store!Next
<1> QED
  BY <1>1, <1>2

(* The calls of the service, several round trips each and interleaved with  *)
(* the notifier's writes, change the collection one field of one document   *)
(* at a time, as ProfileStore promises its readers.                         *)
THEOREM StoreRefinement == Spec => ImplementsStore
<1>1. Init => TypeOK /\ Store!Init
  BY InitTyped DEF Init, Store!Init
<1>2. TypeOK /\ [Next]_vars => TypeOK'
  BY NextTyped
<1>3. TypeOK /\ [Next]_vars => [Store!Next]_profile
  <2> SUFFICES ASSUME TypeOK, [Next]_vars PROVE [Store!Next]_profile
    OBVIOUS
  <2>1. ASSUME NEW s \in Slots, (\E new \in Call : Begin(s, new)) \/ Retry(s)
        PROVE  UNCHANGED profile
    BY <2>1 DEF Begin, Retry
  <2> QED
    BY <2>1, RoundTripStores, OthersStore DEF Next, vars
<1> QED
  BY <1>1, <1>2, <1>3, PTL DEF Spec, ImplementsStore, Store!Spec

-----------------------------------------------------------------------------
(* Toggles. *)

Toggling(s) == pc[s] # "idle" /\ Op(s) = "ToggleFavoriteCountry"

Shown(s) == call[s].country \in Favorites(User(s))

Owed(s) == call[s].country \in wanted[User(s)]

Clean(s) == call[s].country \notin unsure[User(s)]

(* A toggle under way that is not in doubt is the only one of its country.  *)
Sole ==
  \A s, q \in Slots :
    /\ Toggling(s) /\ Toggling(q) /\ Clean(s)
    /\ User(s) = User(q) /\ call[s].country = call[q].country
    => s = q

(* Until its write, a toggle differs from what the user wants, and what it  *)
(* has read is still true; after it, the profile is as wanted.              *)
OnItsWay(s) ==
  /\ pc[s] \in {"create", "read", "write", "get", "retry"}
  /\ pc[s] \in {"read", "write", "get"} => Exists(s)
  /\ pc[s] = "get" => (Shown(s) <=> Owed(s))
  /\ pc[s] # "get" => (Shown(s) <=> ~Owed(s))
  /\ pc[s] = "write" => (call[s].country \in snap[s] <=> Shown(s))

Flips ==
  /\ Sole
  /\ \A s \in Slots : Toggling(s) /\ Clean(s) => OnItsWay(s)
  /\ TogglesAddUp

LEMMA TogglingIs ==
  ASSUME TypeOK, NEW s \in Slots
  PROVE  /\ Toggling(s) => User(s) \in Users /\ call[s].country \in Countries
         /\ \A u, c : Toggles(s, u, c) <=>
              Toggling(s) /\ User(s) = u /\ call[s].country = c
<1>1. CASE Toggling(s)
  <2>1. call[s] \in [op : {"ToggleFavoriteCountry"}, user : Users, country : Countries]
    <3>1. call[s] \in Call /\ call[s].op = "ToggleFavoriteCountry"
      BY <1>1, Held DEF Toggling, Op
    <3> QED
      BY <3>1 DEF Call
  <2> QED
    BY <1>1, <2>1 DEF Toggling, Toggles, User, Op
<1>2. CASE ~Toggling(s)
  BY <1>2 DEF Toggling, Toggles, Op
<1> QED
  BY <1>1, <1>2

(* A round trip leaves every favorite alone but the one it toggles.         *)
LEMMA RoundTripFavorites ==
  ASSUME TypeOK, NEW s \in Slots, RoundTrip(s), NEW u \in Users, NEW c \in Countries,
         pc[s] = "write" => ~Toggles(s, u, c)
  PROVE  c \in Favorites(u)' <=> c \in Favorites(u)
<1>1. /\ User(s) \in Users /\ pc[s] # "idle"
      /\ \/ UNCHANGED profile
         \/ /\ pc[s] \in {"create", "bootstrap"}
            /\ Put(s, Created(profile[User(s)]))
         \/ /\ pc[s] = "write" /\ Exists(s)
            /\ Put(s, Written(s))
      /\ \A v \in Users : profile[v] # Missing => profile'[v] # Missing
  BY RoundTripWrites
<1>2. CASE UNCHANGED profile
  BY <1>2 DEF Favorites
<1>3. CASE Put(s, Created(profile[User(s)]))
  BY <1>1, <1>3 DEF Put, Created, Favorites, TypeOK, Empty
<1>4. CASE pc[s] = "write" /\ Exists(s) /\ Put(s, Written(s))
  <2>1. CASE u # User(s)
    BY <1>4, <2>1 DEF Put, Favorites, TypeOK
  <2>2. CASE u = User(s)
    <3>1. call[s] \in Call /\ Op(s) # "GetProfile"
      BY <1>4, Held DEF TypeOK, Consistent
    <3>2. profile[u] \in Profile /\ profile[u] # Missing
      BY <1>4, <2>2 DEF TypeOK, Exists
    <3>3. profile'[u] = Written(s) /\ profile'[u] # Missing
      BY <1>1, <1>4, <2>2, <3>2 DEF Put, TypeOK
    <3>4. c \in Written(s).favorites <=> c \in profile[u].favorites
      <4>1. CASE Op(s) = "ToggleFavoriteCountry"
        <5>1. c # call[s].country
          BY <1>1, <1>4, <2>2, <4>1, TogglingIs DEF Toggling
        <5> QED
          BY <2>2, <3>2, <4>1, <5>1 DEF Written, Toggled, Profile
      <4>2. CASE Op(s) = "UpdateNotificationPreference"
        BY <2>2, <3>2, <4>2 DEF Written, Preferred, Profile
      <4>3. CASE Op(s) = "RegisterFcmToken"
        BY <2>2, <3>2, <4>3 DEF Written, Registered, Profile
      <4> QED
        BY <3>1, <4>1, <4>2, <4>3, OpTyped DEF Op
    <3> QED
      BY <3>2, <3>3, <3>4 DEF Favorites
  <2> QED
    BY <2>1, <2>2
<1> QED
  BY <1>1, <1>2, <1>3, <1>4

(* What a round trip of one slot leaves of the others.                      *)
LEMMA RoundTripOthers ==
  ASSUME TypeOK, NEW s \in Slots, RoundTrip(s)
  PROVE  /\ \A q \in Slots \ {s} :
              pc'[q] = pc[q] /\ call'[q] = call[q] /\ snap'[q] = snap[q]
         /\ pc'[s] # "idle" => call'[s] = call[s]
         /\ UNCHANGED wanted
         /\ \A u \in Users : unsure[u] \subseteq unsure'[u]
<1>1. UNCHANGED unsure \/ Doubt(s, TRUE) \/ Doubt(s, pc[s] = "bootstrap")
  BY DEF RoundTrip, CreateIfMissing, Get, Refetch, Read, Update, history
<1>2. \A u \in Users : unsure[u] \subseteq unsure'[u]
  BY <1>1 DEF Doubt, TypeOK, HistoryTypeOK
<1>3. \A q \in Slots \ {s} :
        pc'[q] = pc[q] /\ call'[q] = call[q] /\ snap'[q] = snap[q]
  BY DEF RoundTrip, CreateIfMissing, Get, Refetch, Read, Update, Step, Goto, Fail,
     Succeed, TypeOK, RequestTypeOK
<1>4. pc'[s] # "idle" => call'[s] = call[s]
  BY DEF RoundTrip, CreateIfMissing, Get, Refetch, Read, Update, Step, Goto, Fail,
     Succeed, TypeOK, RequestTypeOK
<1>5. UNCHANGED wanted
  BY DEF RoundTrip, CreateIfMissing, Get, Refetch, Read, Update, history
<1> QED
  BY <1>2, <1>3, <1>4, <1>5

LEMMA OwnToggle ==
  ASSUME TypeOK, NEW s \in Slots, RoundTrip(s), Toggling(s), OnItsWay(s),
         call[s].country \notin unsure'[User(s)]
  PROVE  IF pc'[s] = "idle" THEN Shown(s) <=> Owed(s) ELSE OnItsWay(s)'
<1>0. PICK u \in Users, c \in Countries : u = User(s) /\ c = call[s].country
  BY TogglingIs
<1>1. ~Doubt(s, TRUE)
  BY <1>0 DEF Doubt, Toggling, TypeOK, HistoryTypeOK
<1>2. UNCHANGED wanted /\ (pc'[s] # "idle" => call'[s] = call[s])
  BY RoundTripOthers
<1>3. \A v \in Users : profile[v] # Missing => profile'[v] # Missing
  BY RoundTripWrites
<1>4. CASE CreateIfMissing(s)
  <2>1. c \in Favorites(u)' <=> c \in Favorites(u)
    BY <1>4, RoundTripFavorites DEF CreateIfMissing
  <2>2. pc[s] = "create"
    BY <1>4 DEF CreateIfMissing, OnItsWay
  <2>3. CASE pc'[s] = "retry"
    BY <1>0, <1>2, <2>1, <2>2, <2>3 DEF OnItsWay, Shown, Owed, User, Favorites
  <2>4. CASE Put(s, Created(profile[u])) /\ pc'[s] = "read"
    <3>1. Created(profile[u]) # Missing
      BY EmptyTyped, MissingIsNoProfile DEF Created
    <3>2. profile'[u] # Missing
      BY <1>0, <1>1, <2>4, <3>1 DEF Put, TypeOK
    <3> QED
      BY <1>0, <1>2, <2>1, <2>2, <2>4, <3>2 DEF OnItsWay, Shown, Owed, User, Favorites, Exists
  <2> QED
    BY <1>0, <1>1, <1>4, <2>2, <2>3, <2>4
    DEF CreateIfMissing, Step, Goto, Fail, Toggling, TypeOK, RequestTypeOK
<1>5. CASE Get(s)
  <2>1. Exists(s) /\ (Shown(s) <=> Owed(s))
    BY <1>5 DEF Get, OnItsWay
  <2>2. Succeed(s)
    BY <1>1, <1>5, <2>1 DEF Get
  <2> QED
    BY <2>1, <2>2 DEF Succeed, TypeOK, RequestTypeOK
<1>6. CASE Read(s)
  <2>1. pc[s] = "read" /\ Exists(s) /\ UNCHANGED profile
    BY <1>6 DEF Read, OnItsWay
  <2>2. CASE pc'[s] = "retry"
    BY <1>0, <1>2, <2>1, <2>2 DEF OnItsWay, Shown, Owed, User, Favorites
  <2>3. CASE Goto(s, "write") /\ snap' = [snap EXCEPT ![s] = profile[User(s)].favorites]
    <3>1. pc'[s] = "write" /\ snap'[s] = Favorites(u)
      BY <1>0, <2>1, <2>3 DEF Goto, Favorites, Exists, TypeOK, RequestTypeOK
    <3> QED
      BY <1>0, <1>2, <2>1, <3>1 DEF OnItsWay, Shown, Owed, User, Favorites, Exists
  <2> QED
    BY <1>6, <2>1, <2>2, <2>3 DEF Read, Fail, Goto, TypeOK, RequestTypeOK
<1>7. CASE Update(s)
  <2>1. pc[s] = "write" /\ Exists(s)
    BY <1>7 DEF Update, OnItsWay
  <2>2. CASE Fail(s, "external") /\ UNCHANGED profile
    <3>1. pc'[s] = "retry"
      BY <2>2 DEF Fail, Goto, TypeOK, RequestTypeOK
    <3> QED
      BY <1>0, <1>2, <2>1, <2>2, <3>1 DEF OnItsWay, Shown, Owed, User, Favorites
  <2>3. CASE Put(s, Written(s)) /\ Step(s, "get")
    <3>1. Written(s) = Toggled(profile[u], c, snap[s])
      BY <1>0 DEF Written, Toggling
    <3>2. profile[u] \in Profile
      BY <1>0, <2>1 DEF TypeOK, Exists
    <3>3. c \in Toggled(profile[u], c, snap[s]).favorites <=> c \notin snap[s]
      BY <3>2 DEF Toggled, Profile
    <3>4. profile'[u] = Written(s) /\ profile'[u] # Missing
      BY <1>0, <1>3, <2>1, <2>3 DEF Put, TypeOK, Exists
    <3>5. pc'[s] = "get" /\ call'[s] = call[s]
      BY <2>3 DEF Step, Goto, TypeOK, RequestTypeOK
    <3>6. c \in Favorites(u)' <=> ~(c \in Favorites(u))
      BY <1>0, <2>1, <3>1, <3>3, <3>4 DEF Favorites, OnItsWay, Shown, Exists
    <3>7. Shown(s)' <=> Owed(s)'
      BY <1>0, <1>2, <2>1, <3>5, <3>6 DEF OnItsWay, Shown, Owed, User, Favorites
    <3>8. Exists(s)'
      BY <1>0, <3>4, <3>5 DEF Exists, User
    <3> QED
      BY <3>5, <3>7, <3>8 DEF OnItsWay
  <2> QED
    BY <1>1, <1>7, <2>1, <2>2, <2>3 DEF Update, Toggling
<1> QED
  BY <1>4, <1>5, <1>6, <1>7 DEF RoundTrip, Refetch, OnItsWay

LEMMA RoundTripFlips ==
  ASSUME TypeOK, Flips, NEW s \in Slots, RoundTrip(s)
  PROVE  Flips'
<1>1. /\ \A q \in Slots \ {s} :
           pc'[q] = pc[q] /\ call'[q] = call[q] /\ snap'[q] = snap[q]
      /\ pc'[s] # "idle" => call'[s] = call[s]
      /\ UNCHANGED wanted
      /\ \A u \in Users : unsure[u] \subseteq unsure'[u]
  BY RoundTripOthers
<1>2. pc[s] # "idle" /\ \A v \in Users : profile[v] # Missing => profile'[v] # Missing
  BY RoundTripWrites
<1>3. \A q \in Slots :
        Toggling(q)' =>
          /\ Toggling(q) /\ User(q)' = User(q) /\ call'[q] = call[q]
          /\ Clean(q)' => Clean(q)
  <2>1. ASSUME NEW q \in Slots, Toggling(q)'
        PROVE  Toggling(q) /\ User(q)' = User(q) /\ call'[q] = call[q]
    BY <1>1, <1>2, <2>1 DEF Toggling, Op, User
  <2>2. ASSUME NEW q \in Slots, Toggling(q)', Clean(q)'
        PROVE  Clean(q)
    BY <1>1, <2>1, <2>2, TogglingIs DEF Clean
  <2> QED
    BY <2>1, <2>2
<1>4. Sole'
  BY <1>3 DEF Flips, Sole
<1>5. ASSUME NEW q \in Slots \ {s}, Toggling(q)', Clean(q)'
      PROVE  OnItsWay(q)'
  <2>1. /\ Toggling(q) /\ Clean(q) /\ OnItsWay(q)
        /\ User(q)' = User(q) /\ call'[q] = call[q]
        /\ User(q) \in Users /\ call[q].country \in Countries
    BY <1>3, <1>5, TogglingIs DEF Flips
  <2>2. ~Toggles(s, User(q), call[q].country)
    BY <2>1, TogglingIs DEF Flips, Sole
  <2>3. Shown(q)' <=> Shown(q)
    BY <2>1, <2>2, RoundTripFavorites DEF Shown, Favorites
  <2>4. (Owed(q)' <=> Owed(q)) /\ (Exists(q) => Exists(q)')
    BY <1>1, <1>2, <2>1 DEF Owed, Exists
  <2> QED
    BY <1>1, <2>1, <2>3, <2>4 DEF OnItsWay
<1>6. ASSUME Toggling(s)', Clean(s)'
      PROVE  OnItsWay(s)'
  <2>1. /\ Toggling(s) /\ Clean(s) /\ OnItsWay(s)
        /\ User(s)' = User(s) /\ call'[s] = call[s]
    BY <1>3, <1>6 DEF Flips
  <2>2. call[s].country \notin unsure'[User(s)]
    BY <1>6, <2>1 DEF Clean
  <2> QED
    BY <1>6, <2>1, <2>2, OwnToggle DEF Toggling
<1>7. ASSUME NEW u \in Users, NEW c \in Countries, c \notin unsure'[u],
             \A q \in Slots : ~Toggles(q, u, c)'
      PROVE  c \in Favorites(u)' <=> c \in wanted'[u]
  <2>1. \A q \in Slots \ {s} : ~Toggles(q, u, c)
    BY <1>1, <1>7 DEF Toggles
  <2>2. CASE Toggles(s, u, c)
    <3>1. Toggling(s) /\ User(s) = u /\ call[s].country = c
      BY <2>2, TogglingIs
    <3>2. pc'[s] = "idle"
      BY <1>1, <1>7, <2>2 DEF Toggles
    <3>3. Shown(s) <=> Owed(s)
      BY <1>1, <1>7, <3>1, <3>2, OwnToggle DEF Flips, Clean
    <3>4. pc[s] # "write"
      BY <3>1, <3>2 DEF RoundTrip, CreateIfMissing, Get, Refetch, Read, Update, Step, Goto,
         Fail, Toggling, TypeOK, RequestTypeOK
    <3>5. c \in Favorites(u)' <=> c \in Favorites(u)
      BY <3>4, RoundTripFavorites
    <3> QED
      BY <1>1, <3>1, <3>3, <3>5 DEF Shown, Owed
  <2>3. CASE ~Toggles(s, u, c)
    <3>1. c \in Favorites(u) <=> c \in wanted[u]
      BY <1>1, <1>7, <2>1, <2>3 DEF Flips, TogglesAddUp, Settled, AsWanted
    <3>2. c \in Favorites(u)' <=> c \in Favorites(u)
      BY <2>3, RoundTripFavorites
    <3> QED
      BY <1>1, <3>1, <3>2
  <2> QED
    BY <2>2, <2>3
<1>8. TogglesAddUp'
  BY <1>7 DEF TogglesAddUp, Settled, AsWanted
<1> QED
  BY <1>4, <1>5, <1>6, <1>8 DEF Flips

LEMMA BeginFlips ==
  ASSUME TypeOK, Flips, NEW s \in Slots, NEW new \in Call, Begin(s, new)
  PROVE  Flips'
<1>1. /\ pc[s] = "idle" /\ pc'[s] = FirstStep(new.op) /\ call'[s] = new
      /\ UNCHANGED <<profile, snap>>
      /\ \A q \in Slots \ {s} : pc'[q] = pc[q] /\ call'[q] = call[q]
  BY DEF Begin, Goto, TypeOK, RequestTypeOK
<1>2. pc'[s] \in {"get", "create"}
  BY <1>1 DEF FirstStep
<1>3. \A q \in Slots \ {s} :
        /\ Toggling(q)' <=> Toggling(q)
        /\ User(q)' = User(q)
        /\ \A u, c : Toggles(q, u, c)' <=> Toggles(q, u, c)
  BY <1>1 DEF Toggling, Toggles, User, Op
<1>4. CASE new.op # "ToggleFavoriteCountry"
  <2>1. UNCHANGED <<wanted, unsure>> /\ ~Toggling(s) /\ ~Toggling(s)'
    BY <1>1, <1>4 DEF Begin, Toggling, Op
  <2>2. \A u, c : ~Toggles(s, u, c)
    BY <1>1 DEF Toggles
  <2>3. Sole'
    BY <1>1, <1>3, <2>1 DEF Flips, Sole, Clean
  <2>4. \A q \in Slots \ {s} :
          (OnItsWay(q) => OnItsWay(q)') /\ (Clean(q)' <=> Clean(q))
    BY <1>1, <1>3, <2>1 DEF OnItsWay, Shown, Owed, Exists, Favorites, Clean
  <2>5. TogglesAddUp'
    BY <1>1, <1>3, <2>1, <2>2 DEF Flips, TogglesAddUp, Settled, AsWanted, Favorites
  <2> QED
    BY <1>3, <2>1, <2>3, <2>4, <2>5 DEF Flips
<1>5. CASE new.op = "ToggleFavoriteCountry"
  <2> DEFINE u == new.user
             c == new.country
  <2>1. /\ u \in Users /\ c \in Countries
        /\ wanted' = [wanted EXCEPT ![u] = Flip(@, c)]
        /\ unsure' \in {unsure, [unsure EXCEPT ![u] = @ \cup {c}]}
        /\ (\E q \in Slots : Toggles(q, u, c)) => c \in unsure'[u]
    BY <1>5, OpTyped DEF Begin, TypeOK, HistoryTypeOK
  <2>2. c \in wanted'[u] <=> c \notin wanted[u]
    BY <2>1 DEF TypeOK, HistoryTypeOK, Flip
  <2>3. \A v \in Users, d \in Countries :
          v # u \/ d # c =>
            /\ d \in wanted'[v] <=> d \in wanted[v]
            /\ d \in unsure'[v] <=> d \in unsure[v]
    BY <2>1 DEF TypeOK, HistoryTypeOK, Flip
  <2>4. c \notin unsure'[u] =>
          /\ \A q \in Slots : ~Toggles(q, u, c)
          /\ c \in Favorites(u) <=> c \in wanted[u]
    BY <2>1 DEF Flips, TogglesAddUp, Settled, AsWanted, TypeOK, HistoryTypeOK
  <2>5. Toggling(s)' /\ User(s)' = u /\ call'[s].country = c /\ pc'[s] = "create"
    BY <1>1, <1>2, <1>5 DEF Toggling, Op, User, FirstStep
  <2>6. \A q \in Slots \ {s} : Toggling(q) /\ Clean(q)' =>
          /\ User(q) # u \/ call[q].country # c
          /\ Clean(q)
    <3>1. SUFFICES ASSUME NEW q \in Slots \ {s}, Toggling(q), Clean(q)'
                   PROVE  (User(q) # u \/ call[q].country # c) /\ Clean(q)
      OBVIOUS
    <3>2. User(q) \in Users /\ call[q].country \in Countries
      BY <3>1, TogglingIs
    <3>3. call[q].country \notin unsure'[User(q)]
      BY <1>1, <1>3, <3>1 DEF Clean
    <3>4. User(q) # u \/ call[q].country # c
      BY <2>4, <3>1, <3>3, TogglingIs
    <3> QED
      BY <2>3, <3>2, <3>3, <3>4 DEF Clean
  <2>7. Sole'
    <3>1. ASSUME NEW q \in Slots, NEW z \in Slots, Toggling(q)', Toggling(z)', Clean(q)',
                 User(q)' = User(z)', call'[q].country = call'[z].country
          PROVE  q = z
      <4>1. Clean(z)'
        BY <3>1 DEF Clean
      <4> QED
        BY <1>1, <1>3, <2>5, <2>6, <3>1, <4>1 DEF Flips, Sole
    <3> QED
      BY <3>1 DEF Sole
  <2>8. Clean(s)' => OnItsWay(s)'
    <3>1. Clean(s)' => c \notin unsure'[u]
      BY <2>5 DEF Clean
    <3> QED
      BY <1>1, <2>2, <2>4, <2>5, <3>1 DEF OnItsWay, Shown, Owed, Favorites
  <2>9. ASSUME NEW q \in Slots \ {s}, Toggling(q)', Clean(q)'
        PROVE  OnItsWay(q)'
    <3>1. /\ Toggling(q) /\ OnItsWay(q) /\ User(q) \in Users
          /\ call[q].country \in Countries
      BY <1>3, <2>6, <2>9, TogglingIs DEF Flips
    <3>2. Owed(q)' <=> Owed(q)
      BY <1>1, <1>3, <2>3, <2>6, <2>9, <3>1 DEF Owed
    <3> QED
      BY <1>1, <1>3, <3>1, <3>2 DEF OnItsWay, Shown, Exists, Favorites
  <2>10. ASSUME NEW v \in Users, NEW d \in Countries, d \notin unsure'[v],
                \A q \in Slots : ~Toggles(q, v, d)'
         PROVE  d \in Favorites(v)' <=> d \in wanted'[v]
    <3>1. v # u \/ d # c
      <4>1. call'[s] \in [op : {"ToggleFavoriteCountry"}, user : Users, country : Countries]
        BY <1>1, <1>5 DEF Call
      <4>2. Toggles(s, u, c)'
        BY <1>1, <2>5, <4>1 DEF Toggles
      <4> QED
        BY <2>10, <4>2
    <3>2. \A q \in Slots : ~Toggles(q, v, d)
      BY <1>1, <1>3, <2>10 DEF Toggles
    <3> QED
      BY <1>1, <2>3, <2>10, <3>1, <3>2 DEF Flips, TogglesAddUp, Settled, AsWanted, Favorites
  <2>11. TogglesAddUp'
    BY <2>10 DEF TogglesAddUp, Settled, AsWanted
  <2> QED
    BY <1>3, <2>7, <2>8, <2>9, <2>11 DEF Flips
<1> QED
  BY <1>4, <1>5

LEMMA RetryFlips ==
  ASSUME TypeOK, Flips, NEW s \in Slots, Retry(s)
  PROVE  Flips'
<1>1. /\ pc[s] = "retry" /\ pc'[s] = FirstStep(Op(s))
      /\ UNCHANGED <<profile, call, snap, wanted, unsure>>
      /\ \A q \in Slots \ {s} : pc'[q] = pc[q]
  BY DEF Retry, Goto, TypeOK, RequestTypeOK, history
<1>2. pc'[s] # "idle" /\ (Op(s) = "ToggleFavoriteCountry" => pc'[s] = "create")
  BY <1>1 DEF FirstStep
<1>3. \A q \in Slots :
        /\ Toggling(q)' <=> Toggling(q)
        /\ \A u, c : Toggles(q, u, c)' <=> Toggles(q, u, c)
  BY <1>1, <1>2 DEF Toggling, Toggles, Op
<1>4. Sole' /\ TogglesAddUp'
  BY <1>1, <1>3 DEF Flips, Sole, Clean, TogglesAddUp, Settled, AsWanted, User, Favorites
<1>5. \A q \in Slots : Toggling(q) /\ Clean(q) => OnItsWay(q)'
  BY <1>1, <1>2 DEF Flips, Toggling, OnItsWay, Shown, Owed, User, Exists, Favorites
<1>6. \A q \in Slots : Clean(q)' <=> Clean(q)
  BY <1>1 DEF Clean, User
<1> QED
  BY <1>3, <1>4, <1>5, <1>6 DEF Flips

LEMMA PruneFlips ==
  ASSUME TypeOK, Flips, NEW u \in Users, NEW dead \in SUBSET Dead, Prune(u, dead)
  PROVE  Flips'
<1>1. profile[u] \in Profile /\ UNCHANGED <<call, pc, snap, wanted, unsure>>
  BY DEF Prune, TypeOK, request, history
<1>2. /\ profile'[u] \in Profile
      /\ profile'[u].favorites = profile[u].favorites
      /\ \A v \in Users \ {u} : profile'[v] = profile[v]
  BY <1>1 DEF Prune, TypeOK, Profile
<1>3. \A v \in Users :
        /\ Favorites(v)' = Favorites(v)
        /\ profile'[v] = Missing <=> profile[v] = Missing
  BY <1>1, <1>2, MissingIsNoProfile DEF Favorites, Prune
<1>4. \A s \in Slots : /\ Toggling(s)' <=> Toggling(s)
                       /\ Clean(s)' <=> Clean(s)
                       /\ User(s)' = User(s)
                       /\ \A v, c : Toggles(s, v, c)' <=> Toggles(s, v, c)
  BY <1>1 DEF Toggling, Toggles, Clean, User, Op
<1>5. Sole' /\ TogglesAddUp'
  BY <1>1, <1>3, <1>4 DEF Flips, Sole, TogglesAddUp, Settled, AsWanted
<1>6. ASSUME NEW s \in Slots, Toggling(s), Clean(s)
      PROVE  OnItsWay(s)'
  <2>1. OnItsWay(s) /\ User(s) \in Users
    BY <1>6, TogglingIs DEF Flips
  <2>2. /\ Shown(s)' <=> Shown(s)
        /\ Owed(s)' <=> Owed(s)
        /\ Exists(s)' <=> Exists(s)
    BY <1>1, <1>3, <1>4, <2>1 DEF Shown, Owed, Exists
  <2> QED
    BY <1>1, <2>1, <2>2 DEF OnItsWay
<1> QED
  BY <1>4, <1>5, <1>6 DEF Flips

LEMMA EraseFlips ==
  ASSUME TypeOK, Flips, NEW u \in Users, Erase(u)
  PROVE  Flips'
<1>1. /\ UNCHANGED <<call, pc, snap, wanted>>
      /\ unsure'[u] = Countries
      /\ \A v \in Users \ {u} : profile'[v] = profile[v] /\ unsure'[v] = unsure[v]
  BY DEF Erase, TypeOK, HistoryTypeOK
<1>2. \A s \in Slots : /\ Toggling(s)' <=> Toggling(s)
                       /\ User(s)' = User(s)
                       /\ \A v, c : Toggles(s, v, c)' <=> Toggles(s, v, c)
  BY <1>1 DEF Toggling, Toggles, User, Op
<1>3. ASSUME NEW s \in Slots, Toggling(s), Clean(s)'
      PROVE  User(s) \in Users \ {u} /\ Clean(s)
  BY <1>1, <1>2, <1>3, TogglingIs DEF Clean
<1>4. Sole'
  BY <1>1, <1>2, <1>3 DEF Flips, Sole
<1>5. ASSUME NEW s \in Slots, Toggling(s), Clean(s)'
      PROVE  OnItsWay(s)'
  <2>1. User(s) \in Users \ {u} /\ OnItsWay(s)
    BY <1>3, <1>5 DEF Flips
  <2>2. /\ Shown(s)' <=> Shown(s)
        /\ Owed(s)' <=> Owed(s)
        /\ Exists(s)' <=> Exists(s)
    BY <1>1, <1>2, <2>1 DEF Shown, Owed, Exists, Favorites
  <2> QED
    BY <1>1, <2>1, <2>2 DEF OnItsWay
<1>6. ASSUME NEW v \in Users, NEW c \in Countries, c \notin unsure'[v], Settled(v, c)'
      PROVE  AsWanted(v, c)'
  <2>1. v # u /\ c \notin unsure[v] /\ Settled(v, c)
    BY <1>1, <1>2, <1>6 DEF Settled
  <2>2. AsWanted(v, c)
    BY <2>1 DEF Flips, TogglesAddUp
  <2> QED
    BY <1>1, <2>1, <2>2 DEF AsWanted, Favorites
<1>7. TogglesAddUp'
  BY <1>6 DEF TogglesAddUp
<1> QED
  BY <1>2, <1>4, <1>5, <1>7 DEF Flips

LEMMA NextFlips == TypeOK /\ Flips /\ [Next]_vars => Flips'
<1> SUFFICES ASSUME TypeOK, Flips, [Next]_vars PROVE Flips'
  OBVIOUS
<1>1. CASE UNCHANGED vars
  BY <1>1 DEF Flips, Sole, TogglesAddUp, Settled, AsWanted, Toggling, OnItsWay, Toggles,
     Clean, Shown, Owed, User, Op, Exists, Favorites, vars, request, history
<1> QED
  BY <1>1, RoundTripFlips, BeginFlips, RetryFlips, PruneFlips, EraseFlips DEF Next

LEMMA InductiveFlips == Spec => [](TypeOK /\ Flips)
<1>1. Init => TypeOK /\ Flips
  <2>1. Init => \A s \in Slots : ~Toggling(s)
    BY DEF Init, Toggling
  <2> QED
    BY <2>1, InitTyped DEF Init, Flips, Sole, TogglesAddUp, AsWanted, Favorites
<1>2. TypeOK /\ Flips /\ [Next]_vars => (TypeOK /\ Flips)'
  BY NextTyped, NextFlips
<1> QED
  BY <1>1, <1>2, PTL DEF Spec

(* Whatever else happens between the read and the write of a toggle, and    *)
(* however often one that failed before its write is repeated, taps add up  *)
(* for every country whose toggles did not overlap or fail afterwards.      *)
THEOREM TogglesCorrect == Spec => []TogglesAddUp
<1>1. Flips => TogglesAddUp
  BY DEF Flips
<1> QED
  BY <1>1, InductiveFlips, PTL

-----------------------------------------------------------------------------
(* When the promise of the documentation holds. *)

NoDoubt == \A u \in Users : unsure[u] = {}

LEMMA NextNoDoubt ==
  ASSUME \A s, q \in Slots : s = q, Faults \subseteq {"call"},
         TypeOK, Flips, NoDoubt, [Next]_vars
  PROVE  NoDoubt'
<1>1. CASE UNCHANGED unsure
  BY <1>1 DEF NoDoubt
<1>2. ASSUME NEW s \in Slots, NEW new \in Call, Begin(s, new)
      PROVE  UNCHANGED unsure
  <2>1. \A q \in Slots : \A u, c : ~Toggles(q, u, c)
    BY <1>2 DEF Begin, Toggles
  <2> QED
    BY <1>2, <2>1 DEF Begin
<1>3. ASSUME NEW s \in Slots, CreateIfMissing(s)
      PROVE  UNCHANGED unsure
  <2>1. pc[s] = "bootstrap" => Op(s) # "ToggleFavoriteCountry"
    BY TogglingIs DEF Flips, OnItsWay, Toggling, Clean, NoDoubt
  <2> QED
    BY <1>3, <2>1 DEF CreateIfMissing, Doubt
<1>4. ASSUME NEW s \in Slots, Refetch(s)
      PROVE  UNCHANGED unsure
  <2>1. pc[s] = "refetch" => Op(s) # "ToggleFavoriteCountry"
    BY TogglingIs DEF Flips, OnItsWay, Toggling, Clean, NoDoubt
  <2> QED
    BY <1>4, <2>1 DEF Refetch, Doubt
<1>5. \A u \in Users : ~Erase(u)
  BY DEF Erase
<1>6. \/ UNCHANGED unsure
      \/ \E s \in Slots : \/ \E new \in Call : Begin(s, new)
                          \/ CreateIfMissing(s)
                          \/ Refetch(s)
  BY <1>5 DEF Next, RoundTrip, Retry, Get, Read, Update, Prune, vars, history
<1> QED
  BY <1>1, <1>2, <1>3, <1>4, <1>6

(* If the calls come one after the other and a call that is not answered    *)
(* has done nothing, then repeating one is harmless, however often: the     *)
(* read that may fail after the write is all that breaks the promise.       *)
THEOREM HarmlessWithoutEffect ==
  ASSUME \A s, q \in Slots : s = q, Faults \subseteq {"call"}
  PROVE  Spec => []RetriesAreHarmless
<1>1. Init => NoDoubt
  BY DEF Init, NoDoubt
<1>2. TypeOK /\ Flips /\ NoDoubt /\ [Next]_vars => NoDoubt'
  BY NextNoDoubt
<1>3. Flips /\ NoDoubt => RetriesAreHarmless
  BY DEF Flips, TogglesAddUp, NoDoubt, RetriesAreHarmless
<1> QED
  BY <1>1, <1>2, <1>3, InductiveFlips, PTL DEF Spec
=============================================================================
