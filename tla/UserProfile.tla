---------------------------- MODULE UserProfile -----------------------------
(***************************************************************************)
(* The UserProfileService of the BFF: GetProfile, ToggleFavoriteCountry,   *)
(* UpdateNotificationPreference and RegisterFcmToken on the documents of   *)
(* the users collection.  Each call is a sequence of Firestore round trips *)
(* with no transaction around them; the calls of one user (two devices, a  *)
(* double tap, a retry) interleave.  One step is one round trip.           *)
(*                                                                         *)
(* The app repeats a call that was not answered with success, with the     *)
(* same arguments, as often as it likes.                                   *)
(***************************************************************************)
EXTENDS Naturals, FiniteSets

CONSTANTS
  Users, Countries, Tokens,
  Dead,      (* the tokens of uninstalled apps                               *)
  Prefs,     (* the preference objects users save                            *)
  NoPref,    (* the preference of an empty profile                           *)
  Missing,   (* no document                                                  *)
  NoCall,    (* no call                                                      *)
  Slots,     (* calls that may be under way                                  *)
  Faults     (* the failures that may happen                                 *)

FaultKinds ==
  { "call",   (* a round trip fails and does nothing                         *)
    "ack",    (* a write takes effect and its answer is lost                 *)
    "get",    (* a read of GetProfile fails                                  *)
    "erase" } (* the document is deleted, by hand                            *)

ASSUME UserProfileAssumption ==
  /\ Dead \subseteq Tokens
  /\ NoPref \notin Prefs
  /\ Faults \subseteq FaultKinds

Profile ==
  [favorites : SUBSET Countries, pref : Prefs \cup {NoPref}, tokens : SUBSET Tokens]

Call ==
       [op : {"GetProfile"}, user : Users]
  \cup [op : {"ToggleFavoriteCountry"}, user : Users, country : Countries]
  \cup [op : {"UpdateNotificationPreference"}, user : Users, pref : Prefs]
  \cup [op : {"RegisterFcmToken"}, user : Users, token : Tokens]

ASSUME MissingAssumption == Missing \notin Profile /\ NoCall \notin Call

VARIABLES
  profile,  (* Firestore: [Users -> Profile, or Missing]                     *)
  call,     (* what each slot is asked to do                                 *)
  pc,       (* its next round trip; retry: the app knows of no success       *)
  snap,     (* the favorites read by a toggle                                *)
  code,     (* how the last attempt of the call was answered                 *)
  erased,   (* history: the document was deleted during the attempt          *)
  wanted,   (* history: [Users -> countries tapped an odd number of times]   *)
  unsure,   (* history: [Users -> countries whose toggles overlapped, or     *)
            (*   failed after their write, or whose document was deleted]    *)
  acked     (* history: [Users -> tokens whose registration succeeded]       *)

request == <<call, pc, snap, code, erased>>
history == <<wanted, unsure, acked>>
vars == <<profile, request, history>>

Empty == [favorites |-> {}, pref |-> NoPref, tokens |-> {}]

Init ==
  /\ profile = [u \in Users |-> Missing]
  /\ call = [s \in Slots |-> NoCall]
  /\ pc = [s \in Slots |-> "idle"]
  /\ snap = [s \in Slots |-> {}]
  /\ code = [s \in Slots |-> "none"]
  /\ erased = [s \in Slots |-> FALSE]
  /\ wanted = [u \in Users |-> {}]
  /\ unsure = [u \in Users |-> {}]
  /\ acked = [u \in Users |-> {}]

User(s) == call[s].user
Op(s) == call[s].op
Exists(s) == profile[User(s)] # Missing

Goto(s, label) == pc' = [pc EXCEPT ![s] = label]

(* The call returns an error. *)
Fail(s, reason) ==
  /\ Goto(s, "retry")
  /\ code' = [code EXCEPT ![s] = reason]
  /\ snap' = [snap EXCEPT ![s] = {}]
  /\ UNCHANGED <<call, erased>>

(* The call returns its result. *)
Succeed(s) ==
  /\ pc' = [pc EXCEPT ![s] = "idle"]
  /\ call' = [call EXCEPT ![s] = NoCall]
  /\ code' = [code EXCEPT ![s] = "none"]
  /\ snap' = [snap EXCEPT ![s] = {}]
  /\ erased' = [erased EXCEPT ![s] = FALSE]

Step(s, label) ==
  /\ Goto(s, label)
  /\ UNCHANGED <<call, code, snap, erased>>

(* Variant: the update is issued without the bootstrap. *)
FirstStepDirect(op) ==
  CASE op = "GetProfile" -> "get"
    [] op = "ToggleFavoriteCountry" -> "read"
    [] OTHER -> "write"

(* Every use case but GetProfile begins with CreateIfMissing. *)
FirstStep(op) == IF op = "GetProfile" THEN "get" ELSE "create"

Toggles(s, u, c) ==
  /\ pc[s] # "idle"
  /\ call[s] = [op |-> "ToggleFavoriteCountry", user |-> u, country |-> c]

(* What a failure of s leaves in doubt: a toggle that has been written. *)
Doubt(s, done) ==
  unsure' = IF done /\ Op(s) = "ToggleFavoriteCountry"
              THEN [unsure EXCEPT ![User(s)] = @ \cup {call[s].country}]
              ELSE unsure

Flip(set, c) == IF c \in set THEN set \ {c} ELSE set \cup {c}

(* The app (external) makes a new call. *)
Begin(s, new) ==
  /\ pc[s] = "idle"
  /\ call' = [call EXCEPT ![s] = new]
  /\ Goto(s, FirstStep(new.op))
  /\ IF new.op = "ToggleFavoriteCountry"
       THEN /\ wanted' = [wanted EXCEPT ![new.user] = Flip(@, new.country)]
            /\ unsure' = IF \E q \in Slots : Toggles(q, new.user, new.country)
                            THEN [unsure EXCEPT ![new.user] = @ \cup {new.country}]
                            ELSE unsure
       ELSE UNCHANGED <<wanted, unsure>>
  /\ UNCHANGED <<profile, snap, code, erased, acked>>

(* The app repeats a call that failed. *)
Retry(s) ==
  /\ pc[s] = "retry"
  /\ Goto(s, FirstStep(Op(s)))
  /\ code' = [code EXCEPT ![s] = "none"]
  /\ erased' = [erased EXCEPT ![s] = FALSE]
  /\ UNCHANGED <<profile, call, snap, history>>

-----------------------------------------------------------------------------
(* Firestore: what a write leaves of a document. *)

(* Variant: a plain Set, which replaces what is there. *)
CreatedBySet(document) == Empty

(* Create: AlreadyExists is swallowed. *)
Created(document) == IF document = Missing THEN Empty ELSE document

(* Variant: the array read before is changed and written back. *)
ToggledBySet(document, c, snapshot) ==
  [document EXCEPT !.favorites = IF c \in snapshot THEN snapshot \ {c} ELSE snapshot \cup {c}]

(* ArrayRemove if the snapshot held the country, ArrayUnion if it did not.  *)
Toggled(document, c, snapshot) ==
  [document EXCEPT !.favorites = IF c \in snapshot THEN @ \ {c} ELSE @ \cup {c}]

Preferred(document, p) == [document EXCEPT !.pref = p]

Registered(document, t) == [document EXCEPT !.tokens = @ \cup {t}]

(* What the last round trip of a mutation makes of the document. *)
Written(s) ==
  LET document == profile[User(s)] IN
  CASE Op(s) = "ToggleFavoriteCountry" -> Toggled(document, call[s].country, snap[s])
    [] Op(s) = "UpdateNotificationPreference" -> Preferred(document, call[s].pref)
    [] Op(s) = "RegisterFcmToken" -> Registered(document, call[s].token)

Put(s, document) == profile' = [profile EXCEPT ![User(s)] = document]

-----------------------------------------------------------------------------
(* The round trips. *)

(* CreateIfMissing, of a mutation or of GetProfile. *)
CreateIfMissing(s) ==
  LET next == CASE pc[s] = "bootstrap" -> "refetch"
                [] Op(s) = "ToggleFavoriteCountry" -> "read"
                [] OTHER -> "write"
  IN
  /\ pc[s] \in {"create", "bootstrap"}
  /\ \/ /\ Put(s, Created(profile[User(s)]))
        /\ Step(s, next)
        /\ UNCHANGED unsure
     \/ /\ "call" \in Faults
        /\ Fail(s, "external")
        /\ Doubt(s, pc[s] = "bootstrap")
        /\ UNCHANGED profile
     \/ /\ "ack" \in Faults
        /\ Put(s, Created(profile[User(s)]))
        /\ Fail(s, "external")
        /\ Doubt(s, pc[s] = "bootstrap")
  /\ UNCHANGED <<wanted, acked>>

(* The Get of GetProfile, also of the GetProfile that ends a toggle. *)
Get(s) ==
  /\ pc[s] = "get"
  /\ \/ /\ Exists(s)
        /\ Succeed(s)
        /\ UNCHANGED unsure
     \/ /\ ~Exists(s)
        /\ Step(s, "bootstrap")
        /\ UNCHANGED unsure
     \/ /\ "get" \in Faults
        /\ Fail(s, "external")
        /\ Doubt(s, TRUE)
  /\ UNCHANGED <<profile, wanted, acked>>

Refetch(s) ==
  /\ pc[s] = "refetch"
  /\ \/ /\ Exists(s)
        /\ Succeed(s)
        /\ UNCHANGED unsure
     \/ /\ ~Exists(s)
        /\ Fail(s, "not_found")
        /\ Doubt(s, TRUE)
     \/ /\ "get" \in Faults
        /\ Fail(s, "external")
        /\ Doubt(s, TRUE)
  /\ UNCHANGED <<profile, wanted, acked>>

(* ToggleFavoriteCountry reads before it decides. *)
Read(s) ==
  /\ pc[s] = "read"
  /\ \/ /\ Exists(s)
        /\ Goto(s, "write")
        /\ snap' = [snap EXCEPT ![s] = profile[User(s)].favorites]
        /\ UNCHANGED <<call, code, erased>>
     \/ /\ ~Exists(s)
        /\ Fail(s, "not_found")
     \/ /\ "call" \in Faults
        /\ Fail(s, "external")
  /\ UNCHANGED <<profile, history>>

(* The Update of a mutation: NotFound on a missing document. *)
Update(s) ==
  /\ pc[s] = "write"
  /\ \/ /\ Exists(s)
        /\ Put(s, Written(s))
        /\ IF Op(s) = "ToggleFavoriteCountry"
             THEN Step(s, "get")
             ELSE Succeed(s)
        /\ acked' = IF Op(s) = "RegisterFcmToken"
                      THEN [acked EXCEPT ![User(s)] = @ \cup {call[s].token}]
                      ELSE acked
        /\ UNCHANGED unsure
     \/ /\ ~Exists(s)
        /\ Fail(s, "not_found")
        /\ UNCHANGED <<profile, unsure, acked>>
     \/ /\ "call" \in Faults
        /\ Fail(s, "external")
        /\ UNCHANGED <<profile, unsure, acked>>
     \/ /\ "ack" \in Faults
        /\ Exists(s)
        /\ Put(s, Written(s))
        /\ Fail(s, "external")
        /\ Doubt(s, TRUE)
        /\ UNCHANGED acked
  /\ UNCHANGED wanted

-----------------------------------------------------------------------------
(* The other writers of the collection. *)

(* The notifier's RemoveInvalidTokens: ArrayRemove of dead tokens. *)
Prune(u, dead) ==
  /\ profile[u] # Missing
  /\ profile' = [profile EXCEPT ![u].tokens = @ \ dead]
  /\ UNCHANGED <<request, history>>

(* The document is deleted in the console (external). *)
Erase(u) ==
  /\ "erase" \in Faults
  /\ profile[u] # Missing
  /\ profile' = [profile EXCEPT ![u] = Missing]
  /\ erased' = [s \in Slots |-> erased[s] \/ (pc[s] # "idle" /\ User(s) = u)]
  /\ unsure' = [unsure EXCEPT ![u] = Countries]
  /\ acked' = [acked EXCEPT ![u] = {}]
  /\ UNCHANGED <<call, pc, snap, code, wanted>>

RoundTrip(s) ==
  \/ CreateIfMissing(s)
  \/ Get(s)
  \/ Refetch(s)
  \/ Read(s)
  \/ Update(s)

Next ==
  \/ \E s \in Slots :
       \/ \E new \in Call : Begin(s, new)
       \/ Retry(s)
       \/ RoundTrip(s)
  \/ \E u \in Users :
       \/ \E dead \in SUBSET Dead \ {{}} : Prune(u, dead)
       \/ Erase(u)

Spec == Init /\ [][Next]_vars

-----------------------------------------------------------------------------
Labels == {"idle", "create", "get", "bootstrap", "refetch", "read", "write", "retry"}

RequestTypeOK ==
  /\ call \in [Slots -> Call \cup {NoCall}]
  /\ pc \in [Slots -> Labels]
  /\ snap \in [Slots -> SUBSET Countries]
  /\ code \in [Slots -> {"none", "not_found", "external"}]
  /\ erased \in [Slots -> BOOLEAN]

HistoryTypeOK ==
  /\ wanted \in [Users -> SUBSET Countries]
  /\ unsure \in [Users -> SUBSET Countries]
  /\ acked \in [Users -> SUBSET Tokens]

(* Only a call under way is being worked on, and each at the round trips of *)
(* its own operation.                                                       *)
Consistent ==
  \A s \in Slots :
    /\ pc[s] = "idle" <=> call[s] = NoCall
    /\ pc[s] = "read" => Op(s) = "ToggleFavoriteCountry"
    /\ pc[s] \in {"create", "write"} => Op(s) # "GetProfile"

(* Every variable stays within its type: in particular a document always    *)
(* has the shape that both bounded contexts read, and no call is answered   *)
(* at a round trip that it does not make.                                   *)
TypeOK ==
  /\ profile \in [Users -> Profile \cup {Missing}]
  /\ RequestTypeOK
  /\ HistoryTypeOK
  /\ Consistent

Favorites(u) == IF profile[u] = Missing THEN {} ELSE profile[u].favorites

Settled(u, c) == \A s \in Slots : ~Toggles(s, u, c)

AsWanted(u, c) == c \in Favorites(u) <=> c \in wanted[u]

(* Once no toggle of a country is under way, the profile shows it as a      *)
(* favorite if and only if the user tapped it an odd number of times.  The  *)
(* toggles of other countries and the other calls of the same user between  *)
(* the read and the write of a toggle do not matter, nor does how often a   *)
(* toggle that failed before its write is repeated.                         *)
TogglesAddUp ==
  \A u \in Users, c \in Countries :
    Settled(u, c) /\ c \notin unsure[u] => AsWanted(u, c)

(* A registration that succeeded is not undone by a bootstrap that began    *)
(* before it, by the notifier's clean-up, or by any other call.             *)
RegisteredStays ==
  \A u \in Users : acked[u] # {} =>
    profile[u] # Missing /\ acked[u] \ Dead \subseteq profile[u].tokens

(* The app never has to tell a new user from an existing one: a call is     *)
(* only answered NotFound if the document was deleted while it ran.         *)
NotFoundMeansErased ==
  \A s \in Slots : code[s] = "not_found" => erased[s]

(* The service and the notifier write the collection as ProfileStore says.  *)
Store == INSTANCE ProfileStore
ImplementsStore == Store!Spec

-----------------------------------------------------------------------------
(* What the documentation says and the code does not do. *)

(* ProfileRepository: "all mutations are idempotent ... the Flutter app     *)
(* retries freely": repeating a call that failed never undoes it.           *)
RetriesAreHarmless ==
  \A u \in Users, c \in Countries : Settled(u, c) => AsWanted(u, c)
=============================================================================
