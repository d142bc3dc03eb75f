--------------------------- MODULE IngestionProofs ---------------------------
(***************************************************************************)
(* Ingestion, for any rows, keys, countries and number of runs: type       *)
(* correctness, what holds however runs overlap (announcements, counters,  *)
(* the bound on duplicates), and, when runs do not overlap and no two rows *)
(* share a key_cd, the refinement of IncidentLedger.                       *)
(*                                                                         *)
(* The argument.  With overlap, a row that is about to publish is proof    *)
(* that its key is in the CMS (WrittenFirst), and a row that leaves        *)
(* "publish" leaves a message or a mark in lost.  Without overlap, the     *)
(* answer of Exists stays true as long as it is relied on (StillAbsent):   *)
(* nobody else creates an item of that key, so that Find never finds one   *)
(* (NeverUpdates) and an item is created, and announced, once.             *)
(***************************************************************************)
EXTENDS Ingestion, FiniteSetTheorems, SequenceTheorems, TLAPS

-----------------------------------------------------------------------------
(* Type correctness. *)

LEMMA DocTypes == NoDoc \notin Docs /\ NoCountry \in Countries
BY DEF NoDoc, Docs, Countries

LEMMA InitTyped == Init => TypeOK
<1> SUFFICES ASSUME Init PROVE TypeOK
  OBVIOUS
<1>1. MofaTypeOK /\ ControlTypeOK /\ OutsideTypeOK
  BY DEF Init, MofaTypeOK, ControlTypeOK, OutsideTypeOK
<1>2. RowsTypeOK /\ OnlyAtWork /\ Located
  BY DEF Init, RowsTypeOK, OnlyAtWork, Located, Labels
<1>3. res \in [Runs -> ResultType]
  BY DEF Init, NewResult, ResultType
<1> QED
  BY <1>1, <1>2, <1>3 DEF TypeOK

(* A group of variables that does not change keeps its type. *)
LEMMA Frame ==
  ASSUME TypeOK
  PROVE  /\ UNCHANGED world => MofaTypeOK'
         /\ UNCHANGED control => ControlTypeOK'
         /\ UNCHANGED rows => RowsTypeOK' /\ Located'
         /\ UNCHANGED <<rows, stage>> => OnlyAtWork'
         /\ UNCHANGED res => (res \in [Runs -> ResultType])'
         /\ UNCHANGED outside => OutsideTypeOK'
<1> USE DEF TypeOK
<1>1. UNCHANGED world => MofaTypeOK'
  BY DEF MofaTypeOK, world
<1>2. UNCHANGED control => ControlTypeOK'
  BY DEF ControlTypeOK, control
<1>3. UNCHANGED rows => RowsTypeOK' /\ Located'
  BY DEF RowsTypeOK, Located, rows
<1>4. UNCHANGED <<rows, stage>> => OnlyAtWork'
  BY DEF OnlyAtWork, rows
<1>5. UNCHANGED res => (res \in [Runs -> ResultType])'
  OBVIOUS
<1>6. UNCHANGED outside => OutsideTypeOK'
  BY DEF OutsideTypeOK, outside
<1> QED
  BY <1>1, <1>2, <1>3, <1>4, <1>5, <1>6

(* A row at work moves on to the next call. *)
LEMMA GotoTyped ==
  ASSUME TypeOK, NEW r \in Runs, NEW i \in Items, NEW label \in Labels,
         stage[r] = "work", Goto(r, i, label), UNCHANGED stage,
         placed' \in [Runs -> [Items -> BOOLEAN]], UNCHANGED doc,
         label \in {"find", "create", "update", "publish"} => doc[r][i] \in Docs
  PROVE  RowsTypeOK' /\ OnlyAtWork' /\ Located'
BY DEF TypeOK, RowsTypeOK, OnlyAtWork, Located, Goto

LEMMA ReturnTyped ==
  ASSUME TypeOK, NEW r \in Runs, NEW i \in Items,
         stage[r] = "work", Return(r, i), UNCHANGED stage
  PROVE  RowsTypeOK' /\ OnlyAtWork' /\ Located'
<1>1. work' \in [Runs -> [Items -> Labels]]
  BY DEF TypeOK, RowsTypeOK, Return, Goto, Labels
<1>2. placed' \in [Runs -> [Items -> BOOLEAN]]
  BY DEF TypeOK, RowsTypeOK, Return
<1>3. doc' \in [Runs -> [Items -> Docs \cup {NoDoc}]]
  BY DEF TypeOK, RowsTypeOK, Return
<1>4. OnlyAtWork' /\ Located'
  BY DEF TypeOK, RowsTypeOK, OnlyAtWork, Located, Return, Goto
<1> QED
  BY <1>1, <1>2, <1>3, <1>4 DEF RowsTypeOK

LEMMA FailureTyped ==
  ASSUME NEW result \in ResultType, NEW phase \in Phases
  PROVE  AddFailure(result, phase) \in ResultType
BY DEF AddFailure, ResultType

LEMMA SkipTyped ==
  ASSUME TypeOK, NEW r \in Runs, NEW i \in Items, NEW phase \in Phases,
         stage[r] = "work", Skip(r, i, phase), UNCHANGED stage
  PROVE  RowsTypeOK' /\ OnlyAtWork' /\ Located' /\ (res \in [Runs -> ResultType])'
<1>1. RowsTypeOK' /\ OnlyAtWork' /\ Located'
  BY ReturnTyped DEF Skip
<1>2. AddFailure(res[r], phase) \in ResultType
  BY FailureTyped DEF TypeOK
<1>3. (res \in [Runs -> ResultType])'
  BY <1>2 DEF TypeOK, Skip
<1> QED
  BY <1>1, <1>3

LEMMA LeaveTyped ==
  ASSUME TypeOK, NEW r \in Runs, NEW outcome \in {"ok", "failed"}, Leave(r, outcome)
  PROVE  /\ RowsTypeOK' /\ OnlyAtWork' /\ Located'
         /\ stage' \in [Runs -> {"idle", "fetch", "work", "ok", "failed"}]
<1>1. work' \in [Runs -> [Items -> Labels]]
  BY DEF TypeOK, RowsTypeOK, Leave, Labels
<1>2. placed' \in [Runs -> [Items -> BOOLEAN]]
  BY DEF TypeOK, RowsTypeOK, Leave
<1>3. doc' \in [Runs -> [Items -> Docs \cup {NoDoc}]]
  BY DEF TypeOK, RowsTypeOK, Leave
<1>4. OnlyAtWork' /\ Located'
  BY DEF TypeOK, RowsTypeOK, ControlTypeOK, OnlyAtWork, Located, Leave
<1>5. stage' \in [Runs -> {"idle", "fetch", "work", "ok", "failed"}]
  BY DEF TypeOK, ControlTypeOK, Leave
<1> QED
  BY <1>1, <1>2, <1>3, <1>4, <1>5 DEF RowsTypeOK

LEMMA StartTyped ==
  ASSUME TypeOK, NEW r \in Runs, Start(r)
  PROVE  TypeOK'
<1>1. ControlTypeOK'
  BY DEF TypeOK, ControlTypeOK, Start
<1>2. OnlyAtWork'
  BY DEF TypeOK, ControlTypeOK, OnlyAtWork, Start, Active, rows
<1>3. (res \in [Runs -> ResultType])'
  <2>1. NewResult \in ResultType
    BY DEF NewResult, ResultType
  <2> QED
    BY <2>1 DEF TypeOK, Start
<1> QED
  BY <1>1, <1>2, <1>3, Frame DEF TypeOK, Start

LEMMA FetchTyped ==
  ASSUME TypeOK, NEW r \in Runs, Fetch(r)
  PROVE  TypeOK'
<1>1. MofaTypeOK' /\ OutsideTypeOK'
  BY Frame DEF Fetch
<1>2. CASE Leave(r, "failed") /\ UNCHANGED res
  BY <1>1, <1>2, LeaveTyped DEF TypeOK, ControlTypeOK, Fetch
<1>3. ASSUME NEW listed \in {feed, archive},
             work' = [work EXCEPT ![r] =
                        [i \in Items |-> IF i \in listed \ Undated THEN "queued" ELSE "none"]],
             res' = [res EXCEPT ![r].fetched = Cardinality(listed \ Undated)],
             stage' = [stage EXCEPT ![r] = "work"],
             UNCHANGED <<placed, doc>>
      PROVE  TypeOK'
  <2>1. Cardinality(listed \ Undated) \in Nat
    BY FS_Subset, FS_CardinalityType, IngestionAssumption DEF TypeOK, MofaTypeOK
  <2>2. (res \in [Runs -> ResultType])'
    BY <1>3, <2>1 DEF TypeOK, ResultType
  <2>3. RowsTypeOK'
    BY <1>3 DEF TypeOK, RowsTypeOK, Labels
  <2>4. OnlyAtWork' /\ Located'
    BY <1>3 DEF TypeOK, RowsTypeOK, ControlTypeOK, OnlyAtWork, Located
  <2>5. ControlTypeOK'
    BY <1>3 DEF TypeOK, ControlTypeOK, Fetch
  <2> QED
    BY <1>1, <2>2, <2>3, <2>4, <2>5 DEF TypeOK
<1> QED
  BY <1>2, <1>3 DEF Fetch

LEMMA ExitTyped ==
  ASSUME TypeOK, NEW r \in Runs, Exit(r)
  PROVE  TypeOK'
<1>1. ExitStatus(r) \in {"ok", "failed"}
  BY DEF ExitStatus
<1> QED
  BY <1>1, LeaveTyped, Frame DEF TypeOK, ControlTypeOK, Exit

LEMMA SigtermTyped ==
  ASSUME TypeOK, NEW r \in Runs, Sigterm(r)
  PROVE  TypeOK'
<1>1. ControlTypeOK'
  BY DEF TypeOK, ControlTypeOK, Sigterm
<1>2. MofaTypeOK' /\ OutsideTypeOK' /\ RowsTypeOK' /\ Located' /\ OnlyAtWork'
  BY Frame DEF Sigterm
<1> QED
  BY <1>1, <1>2 DEF TypeOK, Sigterm

LEMMA KillTyped ==
  ASSUME TypeOK, NEW r \in Runs, Kill(r)
  PROVE  TypeOK'
<1>1. lost' \in [Keys -> SUBSET {"publish", "upsert", "kill"}]
  BY DEF TypeOK, OutsideTypeOK, Kill
<1>2. OutsideTypeOK'
  BY <1>1 DEF TypeOK, OutsideTypeOK, Kill
<1> QED
  BY <1>2, LeaveTyped, Frame DEF TypeOK, ControlTypeOK, Kill

(* A row that is given up, in a call that touches nothing outside. *)
LEMMA GivenUpTyped ==
  ASSUME TypeOK, NEW r \in Runs, NEW i \in Items, NEW phase \in Phases,
         stage[r] = "work", Skip(r, i, phase), UNCHANGED <<world, control, outside>>
  PROVE  TypeOK'
<1>1. UNCHANGED stage
  BY DEF control
<1> QED
  BY <1>1, SkipTyped, Frame DEF TypeOK

LEMMA LookupTyped ==
  ASSUME TypeOK, NEW r \in Runs, NEW i \in Items, Lookup(r, i)
  PROVE  TypeOK'
<1>1. stage[r] = "work" /\ UNCHANGED <<world, control, outside>>
  BY DEF Lookup, At
<1>2. CASE Skip(r, i, "validate") \/ Skip(r, i, "lookup")
  BY <1>1, <1>2, GivenUpTyped DEF Phases
<1>3. CASE Return(r, i) /\ res' = [res EXCEPT ![r].skipped = @ + 1]
  <2>1. (res \in [Runs -> ResultType])'
    BY <1>3 DEF TypeOK, ResultType
  <2> QED
    BY <1>1, <1>3, <2>1, ReturnTyped, Frame DEF TypeOK, control
<1>4. CASE Goto(r, i, "extract") /\ UNCHANGED <<placed, doc, res>>
  <2>1. (res \in [Runs -> ResultType])'
    BY <1>4, Frame
  <2>2. RowsTypeOK' /\ OnlyAtWork' /\ Located'
    BY <1>1, <1>4, GotoTyped DEF TypeOK, RowsTypeOK, control, Labels
  <2> QED
    BY <1>1, <2>1, <2>2, Frame DEF TypeOK
<1> QED
  BY <1>2, <1>3, <1>4 DEF Lookup

LEMMA ExtractTyped ==
  ASSUME TypeOK, NEW r \in Runs, NEW i \in Items, Extract(r, i)
  PROVE  TypeOK'
<1>1. stage[r] = "work" /\ UNCHANGED <<world, control, outside>>
  BY DEF Extract, At
<1>2. CASE Skip(r, i, "extract")
  BY <1>1, <1>2, GivenUpTyped DEF Phases
<1>3. ASSUME NEW found \in BOOLEAN, placed' = [placed EXCEPT ![r][i] = found],
             Goto(r, i, "geocode"), UNCHANGED <<doc, res>>
      PROVE  TypeOK'
  <2>1. placed' \in [Runs -> [Items -> BOOLEAN]]
    BY <1>3 DEF TypeOK, RowsTypeOK
  <2>2. RowsTypeOK' /\ OnlyAtWork' /\ Located'
    BY <1>1, <1>3, <2>1, GotoTyped DEF control, Labels
  <2> QED
    BY <1>1, <1>3, <2>2, Frame DEF TypeOK
<1> QED
  BY <1>2, <1>3 DEF Extract

(* Whatever Mapbox answers, the chain returns an incident or its error. *)
LEMMA ChainTyped ==
  ASSUME NEW location \in BOOLEAN, NEW i \in Items, NEW answer \in {Miss} \cup Hits
  PROVE  Chain(location, Country[i], answer) \in Docs \cup {NoDoc}
<1>1. Country[i] \in Countries
  BY DEF Countries
<1>2. answer.country \in Countries
  <2>1. CASE answer = Miss
    BY <2>1 DEF Miss, Countries
  <2>2. CASE answer \in Hits
    BY <2>2 DEF Hits, Countries
  <2> QED
    BY <2>1, <2>2
<1> QED
  BY <1>1, <1>2 DEF Chain, Docs

LEMMA GeocodeTyped ==
  ASSUME TypeOK, NEW r \in Runs, NEW i \in Items, Geocode(r, i)
  PROVE  TypeOK'
<1>1. stage[r] = "work" /\ UNCHANGED <<world, control, outside>>
  BY DEF Geocode, At
<1>2. CASE Skip(r, i, "geocode")
  BY <1>1, <1>2, GivenUpTyped DEF Phases
<1>3. ASSUME NEW answer \in {Miss} \cup Hits,
             Build(r, i, Chain(placed[r][i], Country[i], answer))
      PROVE  TypeOK'
  <2> DEFINE located == Chain(placed[r][i], Country[i], answer)
  <2>1. located \in Docs \cup {NoDoc}
    BY ChainTyped DEF TypeOK, RowsTypeOK
  <2> HIDE DEF located
  <2>2. CASE located = NoDoc /\ Skip(r, i, "geocode")
    BY <1>2, <2>2
  <2>3. CASE /\ located # NoDoc
             /\ doc' = [doc EXCEPT ![r][i] = located]
             /\ Goto(r, i, "find")
             /\ UNCHANGED <<placed, res>>
    <3>1. work' \in [Runs -> [Items -> Labels]]
      BY <2>3 DEF TypeOK, RowsTypeOK, Goto, Labels
    <3>2. doc' \in [Runs -> [Items -> Docs \cup {NoDoc}]]
      BY <2>1, <2>3 DEF TypeOK, RowsTypeOK
    <3>3. OnlyAtWork'
      BY <1>1, <2>3 DEF TypeOK, RowsTypeOK, OnlyAtWork, Goto, control
    <3>4. Located'
      BY <2>1, <2>3 DEF TypeOK, RowsTypeOK, Located, Goto
    <3> QED
      BY <1>1, <2>3, <3>1, <3>2, <3>3, <3>4, Frame DEF TypeOK, RowsTypeOK
  <2> QED
    BY <1>3, <2>2, <2>3 DEF Build, AfterBuild, located
<1> QED
  BY <1>2, <1>3 DEF Geocode

LEMMA FindTyped ==
  ASSUME TypeOK, NEW r \in Runs, NEW i \in Items, Find(r, i)
  PROVE  TypeOK'
<1>1. stage[r] = "work" /\ UNCHANGED <<world, control, outside>>
  BY DEF Find, At
<1>2. CASE Skip(r, i, "upsert")
  BY <1>1, <1>2, GivenUpTyped DEF Phases
<1>3. CASE /\ Goto(r, i, IF FindItem(KeyOf[i]) THEN "update" ELSE "create")
           /\ UNCHANGED <<placed, doc, res>>
  <2>1. doc[r][i] \in Docs
    BY DEF TypeOK, Located, Find, At
  <2>2. RowsTypeOK' /\ OnlyAtWork' /\ Located'
    <3>1. CASE Goto(r, i, "update")
      BY <1>1, <1>3, <2>1, <3>1, GotoTyped DEF TypeOK, RowsTypeOK, control, Labels
    <3>2. CASE Goto(r, i, "create")
      BY <1>1, <1>3, <2>1, <3>2, GotoTyped DEF TypeOK, RowsTypeOK, control, Labels
    <3> QED
      BY <1>3, <3>1, <3>2
  <2> QED
    BY <1>1, <1>3, <2>2, Frame DEF TypeOK
<1> QED
  BY <1>2, <1>3 DEF Find

(* A row whose write was answered goes on to its publish. *)
LEMMA WrittenTyped ==
  ASSUME TypeOK, NEW r \in Runs, NEW i \in Items, stage[r] = "work",
         doc[r][i] \in Docs, Goto(r, i, AfterWrite(doc[r][i])),
         UNCHANGED <<stage, placed, doc>>
  PROVE  RowsTypeOK' /\ OnlyAtWork' /\ Located'
BY GotoTyped DEF TypeOK, RowsTypeOK, AfterWrite, Labels

LEMMA CreateTyped ==
  ASSUME TypeOK, NEW r \in Runs, NEW i \in Items, Create(r, i)
  PROVE  TypeOK'
<1> DEFINE k == KeyOf[i]
<1>1. stage[r] = "work" /\ UNCHANGED <<world, control, events>> /\ doc[r][i] \in Docs
  BY DEF Create, At, TypeOK, Located
<1>2. k \in Keys
  BY IngestionAssumption
<1>3. cms' = [cms EXCEPT ![k] = Append(@, doc[r][i])] => cms' \in [Keys -> Seq(Docs)]
  <2>1. cms[k] \in Seq(Docs)
    BY <1>2 DEF TypeOK, OutsideTypeOK
  <2>2. Append(cms[k], doc[r][i]) \in Seq(Docs)
    BY <1>1, <2>1
  <2> QED
    BY <2>2 DEF TypeOK, OutsideTypeOK
<1>4. lost' = [lost EXCEPT ![k] = @ \cup {"upsert"}]
        => lost' \in [Keys -> SUBSET {"publish", "upsert", "kill"}]
  BY DEF TypeOK, OutsideTypeOK
<1>5. OutsideTypeOK'
  BY <1>1, <1>3, <1>4 DEF TypeOK, OutsideTypeOK, Create
<1>6. CASE Goto(r, i, AfterWrite(doc[r][i])) /\ UNCHANGED <<placed, doc, res>>
  BY <1>1, <1>5, <1>6, WrittenTyped, Frame DEF TypeOK, control
<1>7. CASE Skip(r, i, "upsert")
  BY <1>1, <1>5, <1>7, SkipTyped, Frame DEF TypeOK, control, Phases
<1> QED
  BY <1>6, <1>7 DEF Create

LEMMA PatchTyped ==
  ASSUME NEW old \in Docs, NEW new \in Docs
  PROVE  Patched(old, new) \in Docs
BY DEF Patched, Docs

(* What a PATCH leaves of the items of a key. *)
LEMMA PatchedItems ==
  ASSUME TypeOK, NEW k \in Keys, NEW d \in Docs, NEW n \in DOMAIN cms[k],
         cms' = [cms EXCEPT ![k][n] = Patched(@, d)]
  PROVE  /\ cms' \in [Keys -> Seq(Docs)]
         /\ \A q \in Keys : Len(cms'[q]) = Len(cms[q])
<1>1. cms[k] \in Seq(Docs) /\ n \in 1..Len(cms[k])
  BY DEF TypeOK, OutsideTypeOK
<1>2. Patched(cms[k][n], d) \in Docs
  BY <1>1, PatchTyped
<1> DEFINE items == [cms[k] EXCEPT ![n] = Patched(cms[k][n], d)]
<1>3. items \in Seq(Docs) /\ Len(items) = Len(cms[k])
  BY <1>1, <1>2
<1>4. cms' = [cms EXCEPT ![k] = items]
  OBVIOUS
<1> HIDE DEF items
<1> QED
  BY <1>3, <1>4 DEF TypeOK, OutsideTypeOK

LEMMA UpdateTyped ==
  ASSUME TypeOK, NEW r \in Runs, NEW i \in Items, Update(r, i)
  PROVE  TypeOK'
<1> DEFINE k == KeyOf[i]
<1>1. /\ stage[r] = "work" /\ UNCHANGED <<world, control, events, lost>>
      /\ doc[r][i] \in Docs
  BY DEF Update, At, TypeOK, Located
<1>2. k \in Keys
  BY IngestionAssumption
<1>3. (\E n \in DOMAIN cms[k] : cms' = [cms EXCEPT ![k][n] = Patched(@, doc[r][i])])
        => cms' \in [Keys -> Seq(Docs)]
  BY <1>1, <1>2, PatchedItems
<1>4. OutsideTypeOK'
  BY <1>1, <1>3 DEF TypeOK, OutsideTypeOK, Update
<1>5. CASE Goto(r, i, AfterWrite(doc[r][i])) /\ UNCHANGED <<placed, doc, res>>
  BY <1>1, <1>4, <1>5, WrittenTyped, Frame DEF TypeOK, control
<1>6. CASE Skip(r, i, "upsert")
  BY <1>1, <1>4, <1>6, SkipTyped, Frame DEF TypeOK, control, Phases
<1> QED
  BY <1>5, <1>6 DEF Update

LEMMA CountTyped ==
  ASSUME NEW result \in ResultType
  PROVE  /\ [result EXCEPT !.processed = @ + 1] \in ResultType
         /\ [result EXCEPT !.published = @ + 1] \in ResultType
BY DEF ResultType

LEMMA PublishTyped ==
  ASSUME TypeOK, NEW r \in Runs, NEW i \in Items, Publish(r, i)
  PROVE  TypeOK'
<1> DEFINE k == KeyOf[i]
           processed == [res[r] EXCEPT !.processed = @ + 1]
<1>1. stage[r] = "work" /\ UNCHANGED <<world, control, cms>> /\ Return(r, i)
  BY DEF Publish, At
<1>2. processed \in ResultType
  BY CountTyped DEF TypeOK
<1>3. events' \in [Keys -> Nat]
  <2>1. events' \in {events, [events EXCEPT ![k] = @ + 1]}
    BY DEF Publish
  <2> QED
    BY <2>1 DEF TypeOK, OutsideTypeOK
<1>4. lost' \in [Keys -> SUBSET {"publish", "upsert", "kill"}]
  BY DEF TypeOK, OutsideTypeOK, Publish
<1>5. (res \in [Runs -> ResultType])'
  <2>1. [processed EXCEPT !.published = @ + 1] \in ResultType
    BY <1>2, CountTyped
  <2>2. AddFailure(processed, "publish") \in ResultType
    BY <1>2, FailureTyped DEF Phases
  <2> HIDE DEF processed
  <2>3. \/ res' = [res EXCEPT ![r] = [processed EXCEPT !.published = @ + 1]]
        \/ res' = [res EXCEPT ![r] = AddFailure(processed, "publish")]
    BY DEF Publish, processed
  <2> QED
    BY <2>1, <2>2, <2>3 DEF TypeOK
<1>6. OutsideTypeOK'
  BY <1>1, <1>3, <1>4 DEF TypeOK, OutsideTypeOK
<1> QED
  BY <1>1, <1>5, <1>6, ReturnTyped, Frame DEF TypeOK, control

LEMMA MofaTyped ==
  ASSUME TypeOK, NEW i \in Items, Appear(i) \/ Withdraw(i)
  PROVE  TypeOK'
<1>1. MofaTypeOK'
  BY DEF TypeOK, MofaTypeOK, Appear, Withdraw
<1>2. UNCHANGED <<control, rows, res, outside>>
  BY DEF Appear, Withdraw
<1> QED
  BY <1>1, <1>2, Frame DEF TypeOK, control

LEMMA NextTyped == TypeOK /\ [Next]_vars => TypeOK'
<1> SUFFICES ASSUME TypeOK, [Next]_vars PROVE TypeOK'
  OBVIOUS
<1>1. ASSUME NEW r \in Runs, Start(r) \/ Fetch(r) \/ Exit(r) \/ Sigterm(r) \/ Kill(r)
      PROVE  TypeOK'
  BY <1>1, StartTyped, FetchTyped, ExitTyped, SigtermTyped, KillTyped
<1>2. ASSUME NEW r \in Runs, NEW i \in Items, RowStep(r, i)
      PROVE  TypeOK'
  BY <1>2, LookupTyped, ExtractTyped, GeocodeTyped, FindTyped, CreateTyped,
     UpdateTyped, PublishTyped DEF RowStep
<1>3. ASSUME NEW i \in Items, Appear(i) \/ Withdraw(i)
      PROVE  TypeOK'
  BY <1>3, MofaTyped
<1>4. CASE UNCHANGED vars
  BY <1>4, Frame DEF TypeOK, vars, control
<1> QED
  BY <1>1, <1>2, <1>3, <1>4 DEF Next, RunStep

(* For every set of rows, keys, countries and runs, with or without         *)
(* overlap, the state of the job stays within its type: rows are held by a  *)
(* run at work only, and only geocoded incidents go to the CMS.             *)
THEOREM TypeCorrect == Spec => []TypeOK
<1>1. Init => TypeOK
  BY InitTyped
<1>2. TypeOK /\ [Next]_vars => TypeOK'
  BY NextTyped
<1> QED
  BY <1>1, <1>2, PTL DEF Spec

-----------------------------------------------------------------------------
(* Safety, however runs overlap. *)

WrittenFirst ==
  \A r \in Runs, i \in Items :
    work[r][i] \in {"update", "publish"} => cms[KeyOf[i]] # <<>>

(* The inductive invariant, beyond the types. *)
Announcing == WrittenFirst /\ StoredAccountedFor /\ AnnouncedIsStored

LEMMA InitAnnouncing == Init => Announcing
BY IngestionAssumption
DEF Init, Announcing, WrittenFirst, StoredAccountedFor, AnnouncedIsStored

(* A step that writes nothing outside and takes no row to or from its       *)
(* write, except to a fresh find of an item.                                *)
LEMMA RowsOnly ==
  ASSUME Announcing, UNCHANGED outside,
         \A r \in Runs, i \in Items :
           /\ work[r][i] = "publish" => work'[r][i] = "publish"
           /\ work'[r][i] \in {"update", "publish"} =>
                work'[r][i] = work[r][i] \/ cms[KeyOf[i]] # <<>>
  PROVE  Announcing'
<1>1. WrittenFirst'
  BY DEF Announcing, WrittenFirst, outside
<1>2. StoredAccountedFor'
  BY DEF Announcing, StoredAccountedFor, outside
<1>3. AnnouncedIsStored'
  BY DEF Announcing, AnnouncedIsStored, outside
<1> QED
  BY <1>1, <1>2, <1>3 DEF Announcing

LEMMA SkipKeeps ==
  ASSUME TypeOK, Announcing, NEW r \in Runs, NEW i \in Items,
         Return(r, i), work[r][i] # "publish", UNCHANGED outside
  PROVE  Announcing'
<1>1. work' = [work EXCEPT ![r][i] = "done"]
  BY DEF Return, Goto
<1> QED
  BY <1>1, RowsOnly DEF TypeOK, RowsTypeOK

LEMMA GotoKeeps ==
  ASSUME TypeOK, Announcing, NEW r \in Runs, NEW i \in Items, NEW label,
         Goto(r, i, label), work[r][i] # "publish", UNCHANGED outside,
         label \in {"update", "publish"} => cms[KeyOf[i]] # <<>>
  PROVE  Announcing'
<1>1. work' = [work EXCEPT ![r][i] = label]
  BY DEF Goto
<1> QED
  BY <1>1, RowsOnly DEF TypeOK, RowsTypeOK

(* A run that ends takes its rows with it; a row about to publish is then   *)
(* only lost to a crash.                                                    *)
LEMMA EndKeeps ==
  ASSUME TypeOK, Announcing, NEW r \in Runs, Fetch(r) \/ Exit(r)
  PROVE  Announcing'
<1>1. \A i \in Items : work[r][i] # "publish"
  BY DEF Fetch, Exit, TypeOK, OnlyAtWork
<1>2. UNCHANGED outside
  BY DEF Fetch, Exit
<1>3. \A q \in Runs, i \in Items :
        IF q = r THEN work'[q][i] \in {"none", "queued"} ELSE work'[q][i] = work[q][i]
  BY DEF Fetch, Exit, Leave, TypeOK, RowsTypeOK
<1> QED
  BY <1>1, <1>2, <1>3, RowsOnly

LEMMA KillKeeps ==
  ASSUME TypeOK, Announcing, NEW r \in Runs, Kill(r)
  PROVE  Announcing'
<1>1. UNCHANGED <<cms, events>>
  BY DEF Kill
<1>2. \A q \in Runs, i \in Items :
        work'[q][i] = IF q = r THEN "none" ELSE work[q][i]
  BY DEF Kill, Leave, TypeOK, RowsTypeOK
<1>3. WrittenFirst'
  BY <1>1, <1>2 DEF Announcing, WrittenFirst
<1>4. AnnouncedIsStored'
  BY <1>1 DEF Announcing, AnnouncedIsStored
<1>5. StoredAccountedFor'
  <2> SUFFICES ASSUME NEW k \in Keys, cms[k] # <<>>, events[k] = 0
               PROVE  \/ lost'[k] # {}
                      \/ \E q \in Runs, i \in Items : KeyOf[i] = k /\ work'[q][i] = "publish"
    BY <1>1 DEF StoredAccountedFor
  <2>1. lost'[k] = lost[k] \cup
          {"kill" : i \in {j \in Items : KeyOf[j] = k /\ work[r][j] = "publish"}}
    BY DEF Kill
  <2>2. CASE lost[k] # {}
    BY <2>1, <2>2
  <2>3. ASSUME NEW q \in Runs, NEW i \in Items, KeyOf[i] = k, work[q][i] = "publish"
        PROVE  \/ lost'[k] # {}
               \/ \E p \in Runs, j \in Items : KeyOf[j] = k /\ work'[p][j] = "publish"
    <3>1. CASE q = r
      BY <2>1, <2>3, <3>1
    <3>2. CASE q # r
      BY <1>2, <2>3, <3>2
    <3> QED
      BY <3>1, <3>2
  <2> QED
    BY <2>2, <2>3 DEF Announcing, StoredAccountedFor
<1> QED
  BY <1>3, <1>4, <1>5 DEF Announcing

(* A write: the other rows stay where they are, and the row goes on to its  *)
(* publish, or the lost answer is remembered.                               *)
LEMMA WriteKeeps ==
  ASSUME TypeOK, Announcing, NEW r \in Runs, NEW i \in Items, NEW label,
         work[r][i] # "publish", Goto(r, i, label), UNCHANGED events,
         cms'[KeyOf[i]] # <<>>,
         \A k \in Keys \ {KeyOf[i]} : cms'[k] = cms[k],
         \A k \in Keys : lost[k] \subseteq lost'[k],
         label = "publish" \/ lost'[KeyOf[i]] # {} \/ cms[KeyOf[i]] # <<>>
  PROVE  Announcing'
<1>1. KeyOf[i] \in Keys
  BY IngestionAssumption
<1>2. \A q \in Runs, j \in Items :
        work'[q][j] = IF q = r /\ j = i THEN label ELSE work[q][j]
  BY DEF Goto, TypeOK, RowsTypeOK
<1>3. \A j \in Items : KeyOf[j] \in Keys
  BY IngestionAssumption
<1>4. WrittenFirst'
  <2> SUFFICES ASSUME NEW q \in Runs, NEW j \in Items, work'[q][j] \in {"update", "publish"}
               PROVE  cms'[KeyOf[j]] # <<>>
    BY DEF WrittenFirst
  <2>1. CASE KeyOf[j] = KeyOf[i]
    BY <2>1
  <2>2. CASE KeyOf[j] # KeyOf[i]
    BY <1>2, <1>3, <2>2 DEF Announcing, WrittenFirst
  <2> QED
    BY <2>1, <2>2
<1>5. AnnouncedIsStored'
  BY DEF Announcing, AnnouncedIsStored
<1>6. StoredAccountedFor'
  <2> SUFFICES ASSUME NEW k \in Keys, cms'[k] # <<>>, events[k] = 0
               PROVE  \/ lost'[k] # {}
                      \/ \E q \in Runs, j \in Items : KeyOf[j] = k /\ work'[q][j] = "publish"
    BY DEF StoredAccountedFor
  <2>1. CASE cms[k] # <<>>
    <3>1. \/ lost[k] # {}
          \/ \E q \in Runs, j \in Items : KeyOf[j] = k /\ work[q][j] = "publish"
      BY <2>1 DEF Announcing, StoredAccountedFor
    <3> QED
      BY <1>2, <3>1
  <2>2. CASE cms[k] = <<>>
    BY <1>2, <2>2
  <2> QED
    BY <2>1, <2>2
<1> QED
  BY <1>4, <1>5, <1>6 DEF Announcing

LEMMA Appended ==
  ASSUME NEW S, NEW items \in Seq(S), NEW item \in S
  PROVE  /\ Len(Append(items, item)) = Len(items) + 1
         /\ Append(items, item) # <<>>
<1>1. Len(Append(items, item)) = Len(items) + 1 /\ Len(items) \in Nat
  OBVIOUS
<1>2. Len(<<>>) = 0
  BY EmptySeq
<1> QED
  BY <1>1, <1>2

LEMMA CreateKeeps ==
  ASSUME TypeOK, Announcing, NEW r \in Runs, NEW i \in Items, Create(r, i)
  PROVE  Announcing'
<1> DEFINE k == KeyOf[i]
<1>1. k \in Keys /\ work[r][i] = "create" /\ UNCHANGED events
  BY IngestionAssumption DEF Create, At
<1>2. cms' = [cms EXCEPT ![k] = Append(@, doc[r][i])]
        => /\ cms'[k] # <<>>
           /\ \A q \in Keys \ {k} : cms'[q] = cms[q]
  <2>1. cms[k] \in Seq(Docs)
    BY <1>1 DEF TypeOK, OutsideTypeOK
  <2>2. Append(cms[k], doc[r][i]) # <<>>
    <3>1. doc[r][i] \in Docs
      BY <1>1 DEF TypeOK, Located
    <3> QED
      BY <2>1, <3>1, Appended
  <2> QED
    BY <1>1, <2>2 DEF TypeOK, OutsideTypeOK
<1>3. CASE /\ cms' = [cms EXCEPT ![k] = Append(@, doc[r][i])]
           /\ Goto(r, i, "publish")
           /\ UNCHANGED lost
  BY <1>1, <1>2, <1>3, WriteKeeps
<1>4. CASE Skip(r, i, "upsert") /\ UNCHANGED <<cms, lost>>
  BY <1>1, <1>4, SkipKeeps DEF Skip, outside
<1>5. CASE /\ cms' = [cms EXCEPT ![k] = Append(@, doc[r][i])]
           /\ lost' = [lost EXCEPT ![k] = @ \cup {"upsert"}]
           /\ Skip(r, i, "upsert")
  <2>1. Goto(r, i, "done")
    BY <1>5 DEF Skip, Return
  <2>2. /\ \A q \in Keys : lost[q] \subseteq lost'[q]
        /\ lost'[k] # {}
    BY <1>1, <1>5 DEF TypeOK, OutsideTypeOK
  <2> QED
    BY <1>1, <1>2, <1>5, <2>1, <2>2, WriteKeeps
<1> QED
  BY <1>3, <1>4, <1>5 DEF Create, AfterWrite

LEMMA UpdateKeeps ==
  ASSUME TypeOK, Announcing, NEW r \in Runs, NEW i \in Items, Update(r, i)
  PROVE  Announcing'
<1> DEFINE k == KeyOf[i]
<1>1. k \in Keys /\ work[r][i] = "update" /\ UNCHANGED <<events, lost>>
  BY IngestionAssumption DEF Update, At
<1>2. cms[k] # <<>> /\ doc[r][i] \in Docs
  BY <1>1 DEF Announcing, WrittenFirst, TypeOK, Located
<1>3. ASSUME NEW n \in DOMAIN cms[k], cms' = [cms EXCEPT ![k][n] = Patched(@, doc[r][i])],
             NEW label, Goto(r, i, label)
      PROVE  Announcing'
  <2>1. \A q \in Keys \ {k} : cms'[q] = cms[q]
    BY <1>1, <1>3 DEF TypeOK, OutsideTypeOK
  <2>2. cms[k] \in Seq(Docs) /\ cms'[k] \in Seq(Docs) /\ Len(cms'[k]) = Len(cms[k])
    BY <1>1, <1>2, <1>3, PatchedItems DEF TypeOK, OutsideTypeOK
  <2>3. cms'[k] # <<>>
    BY <1>2, <2>2
  <2> QED
    BY <1>1, <1>2, <1>3, <2>1, <2>3, WriteKeeps
<1>4. CASE Skip(r, i, "upsert") /\ UNCHANGED cms
  BY <1>1, <1>4, SkipKeeps DEF Skip, outside
<1> QED
  BY <1>3, <1>4 DEF Update, Skip, Return

LEMMA PublishKeeps ==
  ASSUME TypeOK, Announcing, NEW r \in Runs, NEW i \in Items, Publish(r, i)
  PROVE  Announcing'
<1> DEFINE k == KeyOf[i]
<1>1. k \in Keys /\ work[r][i] = "publish" /\ UNCHANGED cms
  BY IngestionAssumption DEF Publish, At
<1>2. cms[k] # <<>>
  BY <1>1 DEF Announcing, WrittenFirst
<1>3. \A q \in Runs, j \in Items :
        work'[q][j] = IF q = r /\ j = i THEN "done" ELSE work[q][j]
  BY DEF Publish, Return, Goto, TypeOK, RowsTypeOK
<1>4. \A q \in Keys \ {k} : events'[q] = events[q] /\ lost'[q] = lost[q]
  BY DEF Publish, TypeOK, OutsideTypeOK
<1>5. events'[k] = events[k] + 1 \/ lost'[k] # {}
  BY <1>1 DEF Publish, TypeOK, OutsideTypeOK
<1>6. events[k] \in Nat
  BY <1>1 DEF TypeOK, OutsideTypeOK
<1>7. WrittenFirst'
  BY <1>1, <1>3 DEF Announcing, WrittenFirst
<1>8. AnnouncedIsStored'
  BY <1>1, <1>2, <1>4 DEF Announcing, AnnouncedIsStored
<1>9. StoredAccountedFor'
  <2> SUFFICES ASSUME NEW q \in Keys, cms[q] # <<>>, events'[q] = 0
               PROVE  \/ lost'[q] # {}
                      \/ \E p \in Runs, j \in Items : KeyOf[j] = q /\ work'[p][j] = "publish"
    BY <1>1 DEF StoredAccountedFor
  <2>1. CASE q = k
    BY <1>5, <1>6, <2>1
  <2>2. CASE q # k
    <3>1. \/ lost[q] # {}
          \/ \E p \in Runs, j \in Items : KeyOf[j] = q /\ work[p][j] = "publish"
      BY <1>4, <2>2 DEF Announcing, StoredAccountedFor
    <3> QED
      BY <1>3, <1>4, <2>2, <3>1
  <2> QED
    BY <2>1, <2>2
<1> QED
  BY <1>7, <1>8, <1>9 DEF Announcing

LEMMA CallKeeps ==
  ASSUME TypeOK, Announcing, NEW r \in Runs, NEW i \in Items,
         Lookup(r, i) \/ Extract(r, i) \/ Geocode(r, i) \/ Find(r, i)
  PROVE  Announcing'
<1>1. work[r][i] # "publish" /\ UNCHANGED outside
  BY DEF Lookup, Extract, Geocode, Find, At
<1>2. CASE Return(r, i)
  BY <1>1, <1>2, SkipKeeps
<1>3. ASSUME NEW label \in {"extract", "geocode", "find", "create"}, Goto(r, i, label)
      PROVE  Announcing'
  BY <1>1, <1>3, GotoKeeps
<1>4. CASE Goto(r, i, "update") /\ FindItem(KeyOf[i])
  BY <1>1, <1>4, GotoKeeps DEF FindItem
<1>5. Lookup(r, i) => Return(r, i) \/ Goto(r, i, "extract")
  BY DEF Lookup, Skip
<1>6. Extract(r, i) => Return(r, i) \/ Goto(r, i, "geocode")
  BY DEF Extract, Skip
<1>7. Geocode(r, i) => Return(r, i) \/ Goto(r, i, "find")
  BY DEF Geocode, Build, Skip, AfterBuild
<1>8. Find(r, i) => \/ Return(r, i) \/ Goto(r, i, "create")
                    \/ Goto(r, i, "update") /\ FindItem(KeyOf[i])
  BY DEF Find, Skip
<1> QED
  BY <1>2, <1>3, <1>4, <1>5, <1>6, <1>7, <1>8

LEMMA NextKeeps == TypeOK /\ Announcing /\ [Next]_vars => Announcing'
<1> SUFFICES ASSUME TypeOK, Announcing, [Next]_vars PROVE Announcing'
  OBVIOUS
<1>1. ASSUME UNCHANGED <<rows, outside>> PROVE Announcing'
  <2>1. UNCHANGED work /\ UNCHANGED outside
    BY <1>1 DEF rows
  <2> QED
    BY <2>1, RowsOnly
<1>2. ASSUME NEW r \in Runs, Start(r) \/ Sigterm(r) PROVE Announcing'
  BY <1>1, <1>2 DEF Start, Sigterm
<1>3. ASSUME NEW r \in Runs, Fetch(r) \/ Exit(r) \/ Kill(r) PROVE Announcing'
  BY <1>3, EndKeeps, KillKeeps
<1>4. ASSUME NEW r \in Runs, NEW i \in Items, RowStep(r, i) PROVE Announcing'
  BY <1>4, CallKeeps, CreateKeeps, UpdateKeeps, PublishKeeps DEF RowStep
<1>5. ASSUME NEW i \in Items, Appear(i) \/ Withdraw(i) PROVE Announcing'
  BY <1>1, <1>5 DEF Appear, Withdraw
<1>6. CASE UNCHANGED vars
  BY <1>1, <1>6 DEF vars
<1> QED
  BY <1>2, <1>3, <1>4, <1>5, <1>6 DEF Next, RunStep

LEMMA Inductive == Spec => [](TypeOK /\ Announcing)
<1>1. Init => TypeOK /\ Announcing
  BY InitTyped, InitAnnouncing
<1>2. TypeOK /\ Announcing /\ [Next]_vars => (TypeOK /\ Announcing)'
  BY NextTyped, NextKeeps
<1> QED
  BY <1>1, <1>2, PTL DEF Spec

(* No path through any number of overlapping runs forgets an announcement   *)
(* silently: an item without a message is about to be announced, or a       *)
(* failed publish, a lost answer or a crash explains it.                    *)
THEOREM NothingForgotten == Spec => []StoredAccountedFor
<1>1. Announcing => StoredAccountedFor
  BY DEF Announcing
<1> QED
  BY <1>1, Inductive, PTL

(* However many runs overlap, nothing is announced before the CMS has it.   *)
THEOREM StoredBeforeAnnounced == Spec => []AnnouncedIsStored
<1>1. Announcing => AnnouncedIsStored
  BY DEF Announcing
<1> QED
  BY <1>1, Inductive, PTL

-----------------------------------------------------------------------------
(* Runs that do not overlap, and a feed that lists a key_cd once. *)

InTurn == ~Overlap /\ \A i, j \in Items : KeyOf[i] = KeyOf[j] => i = j

OneRun == \A q, r \in Runs : Active(q) /\ Active(r) => q = r

StillAbsent ==
  \A r \in Runs, i \in Items :
    work[r][i] \in {"extract", "geocode", "find", "create"} => cms[KeyOf[i]] = <<>>

NeverUpdates == \A r \in Runs, i \in Items : work[r][i] # "update"

NotYetAnnounced ==
  \A r \in Runs, i \in Items : work[r][i] = "publish" => events[KeyOf[i]] = 0

AtMostOne == \A k \in Keys : Len(cms[k]) <= 1 /\ events[k] <= 1

(* The inductive invariant of runs in turn. *)
Sequential ==
  /\ OneRun
  /\ StillAbsent
  /\ NeverUpdates
  /\ NotYetAnnounced
  /\ AtMostOne

LEMMA InitSequential == Init => Sequential
<1> SUFFICES ASSUME Init PROVE Sequential
  OBVIOUS
<1>1. OneRun /\ StillAbsent /\ NeverUpdates /\ NotYetAnnounced
  BY DEF Init, OneRun, Active, StillAbsent, NeverUpdates, NotYetAnnounced
<1>2. AtMostOne
  BY EmptySeq DEF Init, AtMostOne
<1> QED
  BY <1>1, <1>2 DEF Sequential

(* Nobody else works on the key of a row. *)
LEMMA Alone ==
  ASSUME TypeOK, Sequential, InTurn,
         NEW r \in Runs, NEW i \in Items, stage[r] = "work",
         NEW q \in Runs, NEW j \in Items, work[q][j] # "none", KeyOf[j] = KeyOf[i]
  PROVE  q = r /\ j = i
<1>1. stage[q] = "work"
  BY DEF TypeOK, OnlyAtWork
<1> QED
  BY <1>1 DEF Sequential, OneRun, Active, InTurn

(* The call of a row: only its own key may change. *)
LEMMA MoveKeeps ==
  ASSUME TypeOK, Sequential, InTurn,
         NEW r \in Runs, NEW i \in Items, stage[r] = "work", UNCHANGED stage,
         NEW label, Goto(r, i, label), label # "update",
         \A k \in Keys \ {KeyOf[i]} : cms'[k] = cms[k] /\ events'[k] = events[k],
         label \in {"extract", "geocode", "find", "create"} => cms'[KeyOf[i]] = <<>>,
         label = "publish" => events'[KeyOf[i]] = 0,
         Len(cms'[KeyOf[i]]) <= 1 /\ events'[KeyOf[i]] <= 1
  PROVE  Sequential'
<1>1. \A q \in Runs, j \in Items :
        work'[q][j] = IF q = r /\ j = i THEN label ELSE work[q][j]
  BY DEF Goto, TypeOK, RowsTypeOK
<1>2. \A j \in Items : KeyOf[j] \in Keys
  BY IngestionAssumption
<1>3. ASSUME NEW q \in Runs, NEW j \in Items, work[q][j] # "none", ~(q = r /\ j = i)
      PROVE  cms'[KeyOf[j]] = cms[KeyOf[j]] /\ events'[KeyOf[j]] = events[KeyOf[j]]
  BY <1>2, <1>3, Alone
<1>4. OneRun'
  BY DEF Sequential, OneRun, Active
<1>5. StillAbsent'
  BY <1>1, <1>3 DEF Sequential, StillAbsent
<1>6. NeverUpdates'
  BY <1>1 DEF Sequential, NeverUpdates
<1>7. NotYetAnnounced'
  BY <1>1, <1>3 DEF Sequential, NotYetAnnounced
<1>8. AtMostOne'
  BY DEF Sequential, AtMostOne
<1> QED
  BY <1>4, <1>5, <1>6, <1>7, <1>8 DEF Sequential

(* A call that leaves the CMS and the topic alone. *)
LEMMA QuietKeeps ==
  ASSUME TypeOK, Sequential, InTurn,
         NEW r \in Runs, NEW i \in Items, stage[r] = "work", UNCHANGED stage,
         NEW label \in {"extract", "geocode", "find", "create", "done"},
         Goto(r, i, label), UNCHANGED <<cms, events>>,
         label # "done" => cms[KeyOf[i]] = <<>>
  PROVE  Sequential'
<1>1. KeyOf[i] \in Keys
  BY IngestionAssumption
<1>2. Len(cms'[KeyOf[i]]) <= 1 /\ events'[KeyOf[i]] <= 1
  BY <1>1 DEF Sequential, AtMostOne
<1> QED
  BY <1>2, MoveKeeps

LEMMA CallInTurn ==
  ASSUME TypeOK, Sequential, InTurn, NEW r \in Runs, NEW i \in Items,
         Lookup(r, i) \/ Extract(r, i) \/ Geocode(r, i) \/ Find(r, i)
  PROVE  Sequential'
<1>1. stage[r] = "work" /\ UNCHANGED <<stage, cms, events>>
  BY DEF Lookup, Extract, Geocode, Find, At, control, outside
<1>2. CASE Return(r, i)
  BY <1>1, <1>2, QuietKeeps DEF Return
<1>3. CASE Lookup(r, i)
  BY <1>1, <1>2, <1>3, QuietKeeps DEF Lookup, Skip, Exists, FindItem
<1>4. CASE Extract(r, i)
  BY <1>1, <1>2, <1>4, QuietKeeps DEF Extract, Skip, At, Sequential, StillAbsent
<1>5. CASE Geocode(r, i)
  BY <1>1, <1>2, <1>5, QuietKeeps
     DEF Geocode, Build, AfterBuild, Skip, At, Sequential, StillAbsent
<1>6. CASE Find(r, i)
  BY <1>1, <1>2, <1>6, QuietKeeps
     DEF Find, FindItem, Skip, At, Sequential, StillAbsent
<1> QED
  BY <1>3, <1>4, <1>5, <1>6

LEMMA OneItemLong ==
  ASSUME NEW S, NEW items \in Seq(S), items # <<>>, Len(items) <= 1
  PROVE  Len(items) = 1
<1>1. Len(items) \in Nat \ {0}
  BY EmptySeq
<1> QED
  BY <1>1

(* The item is the first of its key. *)
LEMMA FirstItem ==
  ASSUME TypeOK, Sequential, NEW r \in Runs, NEW i \in Items, Create(r, i),
         cms' = [cms EXCEPT ![KeyOf[i]] = Append(@, doc[r][i])]
  PROVE  /\ KeyOf[i] \in Keys
         /\ cms[KeyOf[i]] = <<>>
         /\ Len(cms'[KeyOf[i]]) = 1
         /\ \A k \in Keys \ {KeyOf[i]} : cms'[k] = cms[k]
<1>1. KeyOf[i] \in Keys
  BY IngestionAssumption
<1>2. work[r][i] = "create"
  BY DEF Create, At
<1>3. cms[KeyOf[i]] = <<>> /\ cms[KeyOf[i]] \in Seq(Docs) /\ doc[r][i] \in Docs
  BY <1>1, <1>2 DEF Sequential, StillAbsent, TypeOK, OutsideTypeOK, Located
<1>4. Len(Append(cms[KeyOf[i]], doc[r][i])) = 1
  BY <1>3, Appended, EmptySeq
<1> QED
  BY <1>1, <1>3, <1>4 DEF TypeOK, OutsideTypeOK

LEMMA CreateInTurn ==
  ASSUME TypeOK, Announcing, Sequential, InTurn,
         NEW r \in Runs, NEW i \in Items, Create(r, i)
  PROVE  Sequential'
<1> DEFINE k == KeyOf[i]
<1>1. stage[r] = "work" /\ UNCHANGED <<stage, events>> /\ work[r][i] = "create"
  BY DEF Create, At, control
<1>2. k \in Keys /\ cms[k] = <<>>
  BY <1>1, IngestionAssumption DEF Sequential, StillAbsent
<1>3. events[k] = 0
  BY <1>2 DEF Announcing, AnnouncedIsStored, TypeOK, OutsideTypeOK
<1>4. ASSUME cms' = [cms EXCEPT ![k] = Append(@, doc[r][i])],
             NEW label \in {"publish", "done"}, Goto(r, i, label)
      PROVE  Sequential'
  <2>1. Len(cms'[k]) = 1 /\ \A q \in Keys \ {k} : cms'[q] = cms[q]
    BY <1>4, FirstItem
  <2>2. \A q \in Keys \ {k} : cms'[q] = cms[q] /\ events'[q] = events[q]
    BY <1>1, <2>1
  <2>3. Len(cms'[k]) <= 1 /\ events'[k] = 0 /\ events'[k] <= 1
    BY <1>1, <1>3, <2>1
  <2>4. label # "update" /\ label \notin {"extract", "geocode", "find", "create"}
    BY <1>4
  <2> HIDE DEF k
  <2> QED
    BY <1>1, <1>4, <2>2, <2>3, <2>4, MoveKeeps DEF k
<1>5. CASE Skip(r, i, "upsert") /\ UNCHANGED cms
  BY <1>1, <1>5, QuietKeeps DEF Skip, Return
<1> QED
  BY <1>4, <1>5 DEF Create, AfterWrite, Skip, Return

LEMMA PublishInTurn ==
  ASSUME TypeOK, Sequential, InTurn, NEW r \in Runs, NEW i \in Items, Publish(r, i)
  PROVE  Sequential'
<1> DEFINE k == KeyOf[i]
<1>1. /\ stage[r] = "work" /\ UNCHANGED <<stage, cms>>
      /\ work[r][i] = "publish" /\ Goto(r, i, "done")
  BY DEF Publish, At, control, Return
<1>2. k \in Keys /\ events[k] = 0
  BY <1>1, IngestionAssumption DEF Sequential, NotYetAnnounced
<1>3. events' \in {events, [events EXCEPT ![k] = @ + 1]}
  BY DEF Publish
<1>4. events'[k] <= 1 /\ \A q \in Keys \ {k} : events'[q] = events[q]
  BY <1>2, <1>3 DEF TypeOK, OutsideTypeOK
<1>5. Len(cms'[k]) <= 1
  BY <1>1, <1>2 DEF Sequential, AtMostOne
<1> QED
  BY <1>1, <1>4, <1>5, MoveKeeps

(* A run that starts, gets its feed or ends: its rows are all before their  *)
(* first call, or gone.                                                     *)
LEMMA RunKeeps ==
  ASSUME TypeOK, Sequential, OneRun', NEW r \in Runs, UNCHANGED <<cms, events>>,
         \A q \in Runs, i \in Items :
           work'[q][i] = work[q][i] \/ work'[q][i] \in {"none", "queued"}
  PROVE  Sequential'
<1>1. StillAbsent'
  BY DEF Sequential, StillAbsent
<1>2. NeverUpdates'
  BY DEF Sequential, NeverUpdates
<1>3. NotYetAnnounced'
  BY DEF Sequential, NotYetAnnounced
<1>4. AtMostOne'
  BY DEF Sequential, AtMostOne
<1> QED
  BY <1>1, <1>2, <1>3, <1>4 DEF Sequential

LEMMA StageInTurn ==
  ASSUME TypeOK, Sequential, InTurn, NEW r \in Runs,
         Start(r) \/ Fetch(r) \/ Exit(r) \/ Sigterm(r) \/ Kill(r)
  PROVE  Sequential'
<1>1. UNCHANGED <<cms, events>>
  BY DEF Start, Fetch, Exit, Sigterm, Kill, outside
<1>2. \A q \in Runs, i \in Items :
        work'[q][i] = work[q][i] \/ work'[q][i] \in {"none", "queued"}
  <2>1. CASE Start(r) \/ Sigterm(r)
    BY <2>1 DEF Start, Sigterm, rows
  <2>2. CASE Fetch(r)
    BY <2>2 DEF Fetch, Leave, TypeOK, RowsTypeOK
  <2>3. CASE Exit(r) \/ Kill(r)
    BY <2>3 DEF Exit, Kill, Leave, TypeOK, RowsTypeOK
  <2> QED
    BY <2>1, <2>2, <2>3
<1>3. OneRun'
  <2>1. CASE Start(r)
    <3>1. \A q \in Runs : ~Active(q)
      BY <2>1 DEF Start, InTurn
    <3> QED
      BY <2>1, <3>1 DEF Start, OneRun, Active, TypeOK, ControlTypeOK
  <2>2. CASE Fetch(r)
    BY <2>2 DEF Fetch, Leave, Sequential, OneRun, Active, TypeOK, ControlTypeOK
  <2>3. CASE Exit(r) \/ Kill(r)
    BY <2>3 DEF Exit, ExitStatus, Kill, Leave, Sequential, OneRun, Active, TypeOK, ControlTypeOK
  <2>4. CASE Sigterm(r)
    BY <2>4 DEF Sigterm, Sequential, OneRun, Active
  <2> QED
    BY <2>1, <2>2, <2>3, <2>4
<1> QED
  BY <1>1, <1>2, <1>3, RunKeeps

LEMMA NextInTurn ==
  ASSUME InTurn
  PROVE  TypeOK /\ Announcing /\ Sequential /\ [Next]_vars => Sequential'
<1> SUFFICES ASSUME TypeOK, Announcing, Sequential, [Next]_vars PROVE Sequential'
  OBVIOUS
<1>1. ASSUME UNCHANGED <<control, rows, outside>> PROVE Sequential'
  BY <1>1 DEF control, rows, outside, Sequential, OneRun, Active, StillAbsent,
              NeverUpdates, NotYetAnnounced, AtMostOne
<1>2. ASSUME NEW r \in Runs, Start(r) \/ Fetch(r) \/ Exit(r) \/ Sigterm(r) \/ Kill(r)
      PROVE  Sequential'
  BY <1>2, StageInTurn
<1>3. ASSUME NEW r \in Runs, NEW i \in Items, RowStep(r, i) PROVE Sequential'
  <2>1. ~Update(r, i)
    BY DEF Update, At, Sequential, NeverUpdates
  <2> QED
    BY <1>3, <2>1, CallInTurn, CreateInTurn, PublishInTurn DEF RowStep
<1>4. ASSUME NEW i \in Items, Appear(i) \/ Withdraw(i) PROVE Sequential'
  BY <1>1, <1>4 DEF Appear, Withdraw
<1>5. CASE UNCHANGED vars
  BY <1>1, <1>5 DEF vars
<1> QED
  BY <1>2, <1>3, <1>4, <1>5 DEF Next, RunStep

LEMMA InductiveInTurn ==
  ASSUME InTurn
  PROVE  Spec => [](TypeOK /\ Announcing /\ Sequential)
<1>1. Init => Sequential
  BY InitSequential
<1>2. TypeOK /\ Announcing /\ Sequential /\ [Next]_vars => Sequential'
  BY NextInTurn
<1> QED
  BY <1>1, <1>2, Inductive, PTL DEF Spec

(* What a step does to the CMS and the topic, when runs take turns. *)
LEMMA OutsideStep ==
  ASSUME InTurn, TypeOK, Announcing, Sequential, [Next]_vars
  PROVE  \/ UNCHANGED <<cms, events>>
         \/ \E k \in Keys :
              /\ cms[k] = <<>> /\ events[k] = 0
              /\ Len(cms'[k]) = 1
              /\ \A q \in Keys \ {k} : cms'[q] = cms[q]
              /\ UNCHANGED events
         \/ \E k \in Keys :
              /\ Len(cms[k]) = 1 /\ events[k] = 0
              /\ events' = [events EXCEPT ![k] = 1]
              /\ UNCHANGED cms
<1>1. ASSUME NEW r \in Runs, NEW i \in Items, Create(r, i),
             cms' = [cms EXCEPT ![KeyOf[i]] = Append(@, doc[r][i])]
      PROVE  \E k \in Keys :
               /\ cms[k] = <<>> /\ events[k] = 0
               /\ Len(cms'[k]) = 1
               /\ \A q \in Keys \ {k} : cms'[q] = cms[q]
               /\ UNCHANGED events
  <2>1. /\ KeyOf[i] \in Keys
        /\ cms[KeyOf[i]] = <<>>
        /\ Len(cms'[KeyOf[i]]) = 1
        /\ \A q \in Keys \ {KeyOf[i]} : cms'[q] = cms[q]
    BY <1>1, FirstItem
  <2>2. events[KeyOf[i]] = 0 /\ UNCHANGED events
    BY <1>1, <2>1 DEF Create, Announcing, AnnouncedIsStored, TypeOK, OutsideTypeOK
  <2> QED
    BY <2>1, <2>2
<1>2. ASSUME NEW r \in Runs, NEW i \in Items, Publish(r, i), events' # events
      PROVE  \E k \in Keys :
               /\ Len(cms[k]) = 1 /\ events[k] = 0
               /\ events' = [events EXCEPT ![k] = 1]
               /\ UNCHANGED cms
  <2> DEFINE k == KeyOf[i]
  <2>1. k \in Keys /\ work[r][i] = "publish" /\ UNCHANGED cms
    BY <1>2, IngestionAssumption DEF Publish, At
  <2>2. events[k] = 0
    BY <2>1 DEF Sequential, NotYetAnnounced
  <2>3. Len(cms[k]) = 1
    <3>1. cms[k] # <<>> /\ cms[k] \in Seq(Docs) /\ Len(cms[k]) <= 1
      BY <2>1 DEF Announcing, WrittenFirst, Sequential, AtMostOne, TypeOK, OutsideTypeOK
    <3> QED
      BY <3>1, OneItemLong
  <2>4. events' = [events EXCEPT ![k] = 1]
    BY <1>2, <2>2 DEF Publish
  <2> QED
    BY <2>1, <2>2, <2>3, <2>4
<1>3. ASSUME NEW r \in Runs, NEW i \in Items, RowStep(r, i)
      PROVE  \/ UNCHANGED <<cms, events>>
             \/ /\ Create(r, i)
                /\ cms' = [cms EXCEPT ![KeyOf[i]] = Append(@, doc[r][i])]
             \/ Publish(r, i) /\ events' # events
  <2>1. ~Update(r, i)
    BY DEF Update, At, Sequential, NeverUpdates
  <2>2. CASE Lookup(r, i) \/ Extract(r, i) \/ Geocode(r, i) \/ Find(r, i)
    BY <2>2 DEF Lookup, Extract, Geocode, Find, outside
  <2>3. CASE Create(r, i)
    BY <2>3 DEF Create
  <2>4. CASE Publish(r, i)
    BY <2>4 DEF Publish
  <2> QED
    BY <1>3, <2>1, <2>2, <2>3, <2>4 DEF RowStep
<1>4. ASSUME NEW r \in Runs, Start(r) \/ Fetch(r) \/ Exit(r) \/ Sigterm(r) \/ Kill(r)
      PROVE  UNCHANGED <<cms, events>>
  BY <1>4 DEF Start, Fetch, Exit, Sigterm, Kill, outside
<1>5. ASSUME NEW i \in Items, Appear(i) \/ Withdraw(i)
      PROVE  UNCHANGED <<cms, events>>
  BY <1>5 DEF Appear, Withdraw, outside
<1>6. CASE UNCHANGED vars
  BY <1>6 DEF vars, outside
<1> QED
  BY <1>1, <1>2, <1>3, <1>4, <1>5, <1>6 DEF Next, RunStep

(* If runs take turns and the feed lists a key_cd once, then each notice is *)
(* registered once and announced at most once, after it was registered:     *)
(* the job implements IncidentLedger.                                       *)
THEOREM LedgerRefinement ==
  ASSUME InTurn
  PROVE  Spec => ImplementsLedger
<1>1. Init => Ledger!Init
  <2> SUFFICES ASSUME Init PROVE Ledger!Init
    OBVIOUS
  <2>1. [k \in Keys |-> Len(cms[k])] = [k \in Keys |-> 0]
    BY EmptySeq DEF Init
  <2> QED
    BY <2>1 DEF Init, Ledger!Init
<1>2. TypeOK /\ Announcing /\ Sequential /\ [Next]_vars => [Ledger!Next]_(Ledger!vars)
  <2> SUFFICES ASSUME TypeOK, Announcing, Sequential, [Next]_vars
               PROVE  [Ledger!Next]_(Ledger!vars)
    OBVIOUS
  <2> DEFINE registered == [k \in Keys |-> Len(cms[k])]
  <2>1. CASE UNCHANGED <<cms, events>>
    BY <2>1 DEF Ledger!vars
  <2>2. ASSUME NEW k \in Keys, cms[k] = <<>>, Len(cms'[k]) = 1,
               \A q \in Keys \ {k} : cms'[q] = cms[q], UNCHANGED events
        PROVE  Ledger!Next
    <3>1. registered[k] = 0
      BY <2>2, EmptySeq
    <3>2. registered' = [registered EXCEPT ![k] = 1]
      BY <2>2
    <3>3. Ledger!Register(k)
      BY <2>2, <3>1, <3>2 DEF Ledger!Register
    <3> QED
      BY <3>3 DEF Ledger!Next
  <2>3. ASSUME NEW k \in Keys, Len(cms[k]) = 1, events[k] = 0,
               events' = [events EXCEPT ![k] = 1], UNCHANGED cms
        PROVE  Ledger!Next
    <3>1. registered[k] = 1
      BY <2>3
    <3>2. Ledger!Announce(k)
      BY <2>3, <3>1 DEF Ledger!Announce
    <3> QED
      BY <3>2 DEF Ledger!Next
  <2> QED
    BY <2>1, <2>2, <2>3, OutsideStep
<1> QED
  BY <1>1, <1>2, InductiveInTurn, PTL DEF Spec, ImplementsLedger, Ledger!Spec

(* If runs take turns and the feed lists a key_cd once, then no run ever    *)
(* rewrites an item that the CMS has.                                       *)
THEOREM NeverRewritten ==
  ASSUME InTurn
  PROVE  Spec => StoredIsFinal
<1> DEFINE Final == \A k \in Keys : cms[k] # <<>> => cms'[k] = cms[k]
<1>1. TypeOK /\ Announcing /\ Sequential /\ [Next]_vars => [Final]_cms
  <2> SUFFICES ASSUME TypeOK, Announcing, Sequential, [Next]_vars, cms' # cms
               PROVE  Final
    OBVIOUS
  <2> QED
    BY OutsideStep
<1> QED
  BY <1>1, InductiveInTurn, PTL DEF Spec, StoredIsFinal

(* When runs take turns, what a row is about to announce is what the CMS    *)
(* has stored of it.                                                        *)
AnnouncesStored ==
  \A r \in Runs, i \in Items : work[r][i] = "publish" =>
    \A n \in DOMAIN cms[KeyOf[i]] : cms[KeyOf[i]][n] = doc[r][i]

(* A row comes to its publish by its own write only, and keeps its doc. *)
LEMMA PublishEntered ==
  ASSUME TypeOK, NeverUpdates, [Next]_vars,
         NEW r \in Runs, NEW i \in Items, work'[r][i] = "publish"
  PROVE  /\ doc'[r][i] = doc[r][i]
         /\ \/ work[r][i] = "publish"
            \/ /\ Create(r, i)
               /\ cms' = [cms EXCEPT ![KeyOf[i]] = Append(@, doc[r][i])]
<1> USE DEF TypeOK, RowsTypeOK
<1>1. CASE UNCHANGED <<work, doc>>
  BY <1>1
<1>2. ASSUME NEW q \in Runs, NEW j \in Items, Return(q, j)
      PROVE  work[r][i] = "publish" /\ doc'[r][i] = doc[r][i]
  BY <1>2 DEF Return, Goto
<1>3. ASSUME NEW q \in Runs, NEW j \in Items, NEW label,
             Goto(q, j, label), label # "publish", (q = r /\ j = i) \/ doc'[r][i] = doc[r][i]
      PROVE  work[r][i] = "publish" /\ doc'[r][i] = doc[r][i]
  BY <1>3 DEF Goto
<1>4. ASSUME NEW q \in Runs, NEW j \in Items,
             Lookup(q, j) \/ Extract(q, j) \/ Geocode(q, j) \/ Find(q, j)
      PROVE  work[r][i] = "publish" /\ doc'[r][i] = doc[r][i]
  <2>1. CASE Return(q, j)
    BY <1>2, <2>1
  <2>2. CASE Lookup(q, j) \/ Extract(q, j) \/ Find(q, j)
    BY <1>3, <2>1, <2>2 DEF Lookup, Extract, Find, Skip
  <2>3. CASE Geocode(q, j) /\ ~Return(q, j)
    <3>1. /\ \E located : doc' = [doc EXCEPT ![q][j] = located]
          /\ Goto(q, j, "find")
      BY <2>3 DEF Geocode, Build, AfterBuild, Skip
    <3> QED
      BY <1>3, <3>1
  <2> QED
    BY <1>4, <2>1, <2>2, <2>3
<1>5. ASSUME NEW q \in Runs, NEW j \in Items, Create(q, j)
      PROVE  /\ doc'[r][i] = doc[r][i]
             /\ \/ work[r][i] = "publish"
                \/ /\ Create(r, i)
                   /\ cms' = [cms EXCEPT ![KeyOf[i]] = Append(@, doc[r][i])]
  <2>1. CASE Return(q, j)
    BY <1>2, <2>1
  <2>2. CASE /\ cms' = [cms EXCEPT ![KeyOf[j]] = Append(@, doc[q][j])]
             /\ Goto(q, j, "publish")
             /\ UNCHANGED doc
    BY <1>5, <2>2 DEF Goto
  <2> QED
    BY <1>5, <2>1, <2>2 DEF Create, AfterWrite, Skip
<1>6. ASSUME NEW q \in Runs, NEW j \in Items, Publish(q, j)
      PROVE  work[r][i] = "publish" /\ doc'[r][i] = doc[r][i]
  BY <1>2, <1>6 DEF Publish
<1>7. ASSUME NEW q \in Runs, Start(q) \/ Sigterm(q)
      PROVE  UNCHANGED <<work, doc>>
  BY <1>7 DEF Start, Sigterm, rows
<1>8. ASSUME NEW q \in Runs, NEW outcome, Leave(q, outcome)
      PROVE  work[r][i] = "publish" /\ doc'[r][i] = doc[r][i]
  BY <1>8 DEF Leave
<1>9. ASSUME NEW q \in Runs, Fetch(q) \/ Exit(q) \/ Kill(q)
      PROVE  work[r][i] = "publish" /\ doc'[r][i] = doc[r][i]
  <2>1. CASE \E outcome : Leave(q, outcome)
    BY <1>8, <2>1
  <2>2. CASE /\ \E items : work' = [work EXCEPT ![q] =
                  [j \in Items |-> IF j \in items THEN "queued" ELSE "none"]]
             /\ UNCHANGED doc
    BY <2>2
  <2> QED
    BY <1>9, <2>1, <2>2 DEF Fetch, Exit, Kill
<1>10. \A q \in Runs, j \in Items : ~Update(q, j)
  BY DEF NeverUpdates, Update, At
<1>11. CASE \E j \in Items : Appear(j) \/ Withdraw(j)
  BY <1>1, <1>11 DEF Appear, Withdraw, rows
<1>12. CASE UNCHANGED vars
  BY <1>1, <1>12 DEF vars, rows
<1> QED
  BY <1>1, <1>4, <1>5, <1>6, <1>7, <1>9, <1>10, <1>11, <1>12 DEF Next, RunStep, RowStep

LEMMA FinalStep ==
  ASSUME InTurn, TypeOK, Announcing, Sequential, [Next]_vars,
         NEW k \in Keys, cms[k] # <<>>
  PROVE  cms'[k] = cms[k]
BY OutsideStep

LEMMA AnnouncesStep ==
  ASSUME InTurn, TypeOK, Announcing, Sequential, AnnouncesStored, [Next]_vars
  PROVE  AnnouncesStored'
<1> SUFFICES ASSUME NEW r \in Runs, NEW i \in Items, work'[r][i] = "publish",
                    NEW n \in DOMAIN cms'[KeyOf[i]]
             PROVE  cms'[KeyOf[i]][n] = doc'[r][i]
  BY DEF AnnouncesStored
<1> DEFINE k == KeyOf[i]
<1>1. /\ k \in Keys
      /\ doc'[r][i] = doc[r][i]
  BY PublishEntered, IngestionAssumption DEF Sequential
<1>2. CASE work[r][i] = "publish"
  <2>1. cms'[k] = cms[k]
    BY <1>1, <1>2, FinalStep DEF Announcing, WrittenFirst
  <2> QED
    BY <1>1, <1>2, <2>1 DEF AnnouncesStored
<1>3. CASE Create(r, i) /\ cms' = [cms EXCEPT ![k] = Append(@, doc[r][i])]
  <2>1. cms[k] = <<>> /\ cms'[k] = Append(<<>>, doc[r][i])
    BY <1>1, <1>3, FirstItem DEF TypeOK, OutsideTypeOK
  <2> QED
    BY <1>1, <2>1
<1> QED
  BY <1>2, <1>3, PublishEntered DEF Sequential

LEMMA InductiveAnnounces ==
  ASSUME InTurn
  PROVE  Spec => [](TypeOK /\ Announcing /\ Sequential /\ AnnouncesStored)
<1>1. Init => AnnouncesStored
  BY DEF Init, AnnouncesStored
<1>2. TypeOK /\ Announcing /\ Sequential /\ AnnouncesStored /\ [Next]_vars => AnnouncesStored'
  BY AnnouncesStep
<1> QED
  BY <1>1, <1>2, InductiveInTurn, PTL DEF Spec

(* If runs take turns and the feed lists a key_cd once, then the same feed, *)
(* processed any number of times, registers one item.                       *)
THEOREM OneItemInTurn ==
  ASSUME InTurn
  PROVE  Spec => []OneItemPerKey
<1>1. Sequential => OneItemPerKey
  BY DEF Sequential, AtMostOne, OneItemPerKey
<1> QED
  BY <1>1, InductiveInTurn, PTL

-----------------------------------------------------------------------------
(* The counters.  While a run is at work, its counters and the rows it has  *)
(* not settled account for what it fetched, and the rows it has settled     *)
(* that are not in the CMS are among its failures.                          *)

Pending(r) == {i \in Items : work[r][i] \notin {"none", "done"}}

Absent(r) == {i \in Items : work[r][i] = "done" /\ cms[KeyOf[i]] = <<>>}

Failures(x) ==
  x.failed["validate"] + x.failed["lookup"] + x.failed["extract"]
    + x.failed["geocode"] + x.failed["upsert"]

Counted(x) ==
  x.skipped + x.processed + x.failed["validate"] + x.failed["lookup"]
    + x.failed["extract"] + x.failed["geocode"] + x.failed["upsert"]

Split(x) == x.processed = x.published + x.failed["publish"]

Balanced(r) ==
  /\ stage[r] = "fetch" => res[r] = NewResult
  /\ stage[r] \in {"work", "ok"} =>
       /\ res[r].fetched = Counted(res[r]) + Cardinality(Pending(r))
       /\ Split(res[r])
  /\ stage[r] = "work" => Cardinality(Absent(r)) <= Failures(res[r])

Accounts == TypeOK /\ WrittenFirst /\ \A r \in Runs : Balanced(r)

LEMMA PendingFinite ==
  ASSUME NEW r
  PROVE  /\ IsFiniteSet(Pending(r)) /\ Cardinality(Pending(r)) \in Nat
         /\ IsFiniteSet(Absent(r)) /\ Cardinality(Absent(r)) \in Nat
<1>1. Pending(r) \in SUBSET Items /\ Absent(r) \in SUBSET Items
  BY DEF Pending, Absent
<1> QED
  BY <1>1, FS_Subset, FS_CardinalityType, IngestionAssumption

(* What the counters of a result add up to. *)
LEMMA CountsTyped ==
  ASSUME NEW x \in ResultType
  PROVE  /\ Counted(x) \in Nat /\ Failures(x) \in Nat
         /\ Counted(x) = x.skipped + x.processed + Failures(x)
BY DEF ResultType, Phases, Counted, Failures

LEMMA FailureCounted ==
  ASSUME NEW x \in ResultType, NEW phase \in Phases \ {"publish"}
  PROVE  /\ AddFailure(x, phase).fetched = x.fetched
         /\ Counted(AddFailure(x, phase)) = Counted(x) + 1
         /\ Failures(AddFailure(x, phase)) = Failures(x) + 1
         /\ Split(x) => Split(AddFailure(x, phase))
<1> DEFINE y == AddFailure(x, phase)
<1>1. /\ y.fetched = x.fetched /\ y.skipped = x.skipped
      /\ y.processed = x.processed /\ y.published = x.published
      /\ \A p \in Phases : y.failed[p] = IF p = phase THEN x.failed[p] + 1 ELSE x.failed[p]
  BY DEF AddFailure, ResultType
<1> HIDE DEF y
<1>2. \A p \in Phases : x.failed[p] \in Nat
  BY DEF ResultType
<1>3. x.skipped \in Nat /\ x.processed \in Nat /\ x.published \in Nat
  BY DEF ResultType
<1>4. /\ x.failed["validate"] \in Nat /\ x.failed["lookup"] \in Nat /\ x.failed["extract"] \in Nat
      /\ x.failed["geocode"] \in Nat /\ x.failed["upsert"] \in Nat
  BY <1>2 DEF Phases
<1>5. Failures(y) = Failures(x) + 1
  BY <1>1, <1>4 DEF Failures, Phases
<1>6. Counted(y) = Counted(x) + 1
  BY <1>1, <1>3, <1>4 DEF Counted, Phases
<1>7. Split(x) => Split(y)
  BY <1>1 DEF Split, Phases
<1> QED
  BY <1>1, <1>5, <1>6, <1>7 DEF y

(* Another run's accounts are disturbed neither by this run's rows nor by a *)
(* write, which only takes keys out of what is absent.                      *)
LEMMA OtherBalanced ==
  ASSUME Accounts, NEW q \in Runs,
         stage'[q] = stage[q], work'[q] = work[q], res'[q] = res[q],
         \A k \in Keys : cms[k] # <<>> => cms'[k] # <<>>
  PROVE  Balanced(q)'
<1>1. Pending(q)' = Pending(q)
  BY DEF Pending
<1>2. Absent(q)' \in SUBSET Absent(q)
  BY IngestionAssumption DEF Absent
<1>3. Cardinality(Absent(q)') <= Cardinality(Absent(q))
  BY <1>2, PendingFinite, FS_Subset
<1>4. Cardinality(Absent(q)') \in Nat
  BY <1>2, PendingFinite, FS_Subset, FS_CardinalityType
<1>5. Failures(res[q]) \in Nat
  BY CountsTyped DEF Accounts, TypeOK
<1>6. Balanced(q)
  BY DEF Accounts
<1>7. Cardinality(Pending(q)') = Cardinality(Pending(q))
  BY <1>1
<1>8. stage'[q] = "work" => Cardinality(Absent(q)') <= Failures(res'[q])
  BY <1>3, <1>4, <1>5, <1>6, PendingFinite DEF Balanced
<1> QED
  BY <1>6, <1>7, <1>8 DEF Balanced

(* A row goes on to its next call. *)
LEMMA MoveBalanced ==
  ASSUME Accounts, NEW r \in Runs, NEW i \in Items, NEW label \in Labels \ {"none", "done"},
         stage[r] = "work", work[r][i] \notin {"none", "done"}, Goto(r, i, label),
         UNCHANGED <<stage, res>>,
         \A k \in Keys : cms[k] # <<>> => cms'[k] # <<>>
  PROVE  \A q \in Runs : Balanced(q)'
<1> SUFFICES ASSUME NEW q \in Runs PROVE Balanced(q)'
  OBVIOUS
<1>0. work \in [Runs -> [Items -> Labels]]
  BY DEF Accounts, TypeOK, RowsTypeOK
<1>1. CASE q # r
  <2>1. work'[q] = work[q]
    BY <1>0, <1>1 DEF Goto
  <2> QED
    BY <2>1, OtherBalanced
<1>2. CASE q = r
  <2>1. \A j \in Items : work'[r][j] = IF j = i THEN label ELSE work[r][j]
    BY <1>0 DEF Goto
  <2>2. Pending(r)' = Pending(r)
    BY <2>1 DEF Pending
  <2>3. Absent(r)' \in SUBSET Absent(r)
    BY <2>1, IngestionAssumption DEF Absent
  <2>4. Cardinality(Absent(r)') <= Cardinality(Absent(r)) /\ Cardinality(Absent(r)') \in Nat
    BY <2>3, PendingFinite, FS_Subset, FS_CardinalityType
  <2>5. Failures(res[r]) \in Nat /\ Balanced(r)
    BY CountsTyped DEF Accounts, TypeOK
  <2>6. Cardinality(Absent(r)') <= Failures(res[r])
    BY <2>4, <2>5, PendingFinite DEF Balanced
  <2>7. Cardinality(Pending(r)') = Cardinality(Pending(r))
    BY <2>2
  <2> QED
    BY <1>2, <2>5, <2>6, <2>7 DEF Balanced
<1> QED
  BY <1>1, <1>2

(* A row returns: its outcome is added once, and if its key is not in the   *)
(* CMS, it is a failure.                                                    *)
LEMMA SettleBalanced ==
  ASSUME Accounts, NEW r \in Runs, NEW i \in Items, NEW x \in ResultType,
         stage[r] = "work", work[r][i] \notin {"none", "done"}, Return(r, i),
         UNCHANGED stage, res' = [res EXCEPT ![r] = x],
         x.fetched = res[r].fetched, Counted(x) = Counted(res[r]) + 1,
         Split(res[r]) => Split(x),
         \/ Failures(x) = Failures(res[r]) + 1
         \/ Failures(x) = Failures(res[r]) /\ cms'[KeyOf[i]] # <<>>,
         \A k \in Keys : cms[k] # <<>> => cms'[k] # <<>>
  PROVE  \A q \in Runs : Balanced(q)'
<1> SUFFICES ASSUME NEW q \in Runs PROVE Balanced(q)'
  OBVIOUS
<1>0. work \in [Runs -> [Items -> Labels]] /\ res \in [Runs -> ResultType]
  BY DEF Accounts, TypeOK, RowsTypeOK
<1>1. CASE q # r
  <2>1. work'[q] = work[q] /\ res'[q] = res[q]
    BY <1>0, <1>1 DEF Return, Goto
  <2> QED
    BY <2>1, OtherBalanced
<1>2. CASE q = r
  <2>1. \A j \in Items : work'[r][j] = IF j = i THEN "done" ELSE work[r][j]
    BY <1>0 DEF Return, Goto
  <2>2. res'[r] = x
    BY <1>0
  <2>3. Pending(r)' = Pending(r) \ {i} /\ i \in Pending(r)
    BY <2>1 DEF Pending
  <2>4. Cardinality(Pending(r)') = Cardinality(Pending(r)) - 1
    BY <2>3, PendingFinite, FS_RemoveElement
  <2>5. Balanced(r)
    BY DEF Accounts
  <2>6. /\ Counted(res[r]) \in Nat /\ Failures(res[r]) \in Nat
        /\ Counted(x) \in Nat /\ Failures(x) \in Nat
    BY <1>0, CountsTyped
  <2>7. x.fetched = Counted(x) + Cardinality(Pending(r)')
    BY <2>4, <2>5, <2>6, PendingFinite DEF Balanced
  <2>8. Cardinality(Absent(r)') <= Failures(x)
    <3>1. CASE Failures(x) = Failures(res[r]) + 1
      <4>1. Absent(r)' \in SUBSET (Absent(r) \cup {i})
        BY <2>1, IngestionAssumption DEF Absent
      <4>2. /\ IsFiniteSet(Absent(r) \cup {i})
            /\ Cardinality(Absent(r) \cup {i}) <= Cardinality(Absent(r)) + 1
            /\ Cardinality(Absent(r) \cup {i}) \in Nat
        <5>1. IsFiniteSet(Absent(r)) /\ Cardinality(Absent(r)) \in Nat
          BY PendingFinite
        <5>2. /\ IsFiniteSet(Absent(r) \cup {i})
              /\ Cardinality(Absent(r) \cup {i}) \in
                   {Cardinality(Absent(r)), Cardinality(Absent(r)) + 1}
          BY <5>1, FS_AddElement
        <5> QED
          BY <5>1, <5>2
      <4>3. Cardinality(Absent(r)') <= Cardinality(Absent(r) \cup {i})
            /\ Cardinality(Absent(r)') \in Nat
        BY <4>1, <4>2, FS_Subset, FS_CardinalityType
      <4> QED
        BY <2>5, <2>6, <3>1, <4>2, <4>3, PendingFinite DEF Balanced
    <3>2. CASE Failures(x) = Failures(res[r]) /\ cms'[KeyOf[i]] # <<>>
      <4>1. Absent(r)' \in SUBSET Absent(r)
        BY <2>1, <3>2, IngestionAssumption DEF Absent
      <4>2. Cardinality(Absent(r)') <= Cardinality(Absent(r)) /\ Cardinality(Absent(r)') \in Nat
        BY <4>1, PendingFinite, FS_Subset, FS_CardinalityType
      <4> QED
        BY <2>5, <2>6, <3>2, <4>2, PendingFinite DEF Balanced
    <3> QED
      BY <3>1, <3>2
  <2>9. Split(x)
    BY <2>5 DEF Balanced
  <2> QED
    BY <1>2, <2>2, <2>7, <2>8, <2>9 DEF Balanced
<1> QED
  BY <1>1, <1>2

(* An item of the CMS stays there. *)
LEMMA StaysStored ==
  ASSUME TypeOK, [Next]_vars, NEW k \in Keys, cms[k] # <<>>
  PROVE  cms'[k] # <<>>
<1>1. ASSUME NEW r \in Runs, NEW i \in Items, Create(r, i) PROVE cms'[k] # <<>>
  <2>1. cms[k] \in Seq(Docs) /\ doc[r][i] \in Docs
    BY <1>1 DEF Create, At, TypeOK, OutsideTypeOK, Located
  <2>2. Append(cms[k], doc[r][i]) # <<>>
    BY <2>1, Appended
  <2> QED
    BY <1>1, <2>2 DEF Create, TypeOK, OutsideTypeOK
<1>2. ASSUME NEW r \in Runs, NEW i \in Items, Update(r, i) PROVE cms'[k] # <<>>
  <2>1. KeyOf[i] \in Keys /\ doc[r][i] \in Docs
    BY <1>2, IngestionAssumption DEF Update, At, TypeOK, Located
  <2>2. ASSUME NEW n \in DOMAIN cms[KeyOf[i]],
               cms' = [cms EXCEPT ![KeyOf[i]][n] = Patched(@, doc[r][i])]
        PROVE  cms'[k] # <<>>
    <3>1. cms'[k] \in Seq(Docs) /\ Len(cms'[k]) = Len(cms[k])
      BY <2>1, <2>2, PatchedItems
    <3>2. cms[k] \in Seq(Docs)
      BY DEF TypeOK, OutsideTypeOK
    <3> QED
      BY <3>1, <3>2
  <2> QED
    BY <1>2, <2>2 DEF Update
<1>3. ASSUME NEW r \in Runs, NEW i \in Items,
             Lookup(r, i) \/ Extract(r, i) \/ Geocode(r, i) \/ Find(r, i) \/ Publish(r, i)
      PROVE  UNCHANGED cms
  BY <1>3 DEF Lookup, Extract, Geocode, Find, Publish, outside
<1>4. ASSUME NEW r \in Runs, Start(r) \/ Fetch(r) \/ Exit(r) \/ Sigterm(r) \/ Kill(r)
      PROVE  UNCHANGED cms
  BY <1>4 DEF Start, Fetch, Exit, Sigterm, Kill, outside
<1>5. ASSUME NEW i \in Items, Appear(i) \/ Withdraw(i) PROVE UNCHANGED cms
  BY <1>5 DEF Appear, Withdraw, outside
<1>6. CASE UNCHANGED vars
  BY <1>6 DEF vars, outside
<1> QED
  BY <1>1, <1>2, <1>3, <1>4, <1>5, <1>6 DEF Next, RunStep, RowStep

LEMMA SkipBalanced ==
  ASSUME Accounts, NEW r \in Runs, NEW i \in Items, NEW phase \in Phases \ {"publish"},
         stage[r] = "work", work[r][i] \notin {"none", "done"}, Skip(r, i, phase),
         UNCHANGED stage,
         \A k \in Keys : cms[k] # <<>> => cms'[k] # <<>>
  PROVE  \A q \in Runs : Balanced(q)'
<1> DEFINE x == AddFailure(res[r], phase)
<1>1. res[r] \in ResultType
  BY DEF Accounts, TypeOK
<1>2. x \in ResultType
  BY <1>1, FailureTyped
<1>3. /\ x.fetched = res[r].fetched /\ Counted(x) = Counted(res[r]) + 1
      /\ Split(res[r]) => Split(x)
      /\ Failures(x) = Failures(res[r]) + 1
  BY <1>1, FailureCounted
<1>4. Return(r, i) /\ res' = [res EXCEPT ![r] = x]
  BY DEF Skip
<1> HIDE DEF x
<1> QED
  BY <1>2, <1>3, <1>4, SettleBalanced

LEMMA LookupBalanced ==
  ASSUME Accounts, NEW r \in Runs, NEW i \in Items, Lookup(r, i)
  PROVE  \A q \in Runs : Balanced(q)'
<1>1. /\ stage[r] = "work" /\ work[r][i] = "queued"
      /\ UNCHANGED stage /\ UNCHANGED cms
  BY DEF Lookup, At, control, outside
<1>2. ASSUME NEW phase \in {"validate", "lookup"}, Skip(r, i, phase)
      PROVE  \A q \in Runs : Balanced(q)'
  BY <1>1, <1>2, SkipBalanced DEF Phases
<1>3. CASE /\ Exists(KeyOf[i])
           /\ Return(r, i)
           /\ res' = [res EXCEPT ![r].skipped = @ + 1]
  <2> DEFINE x == [res[r] EXCEPT !.skipped = @ + 1]
  <2>1. res[r] \in ResultType
    BY DEF Accounts, TypeOK
  <2>2. /\ x \in ResultType
        /\ x.fetched = res[r].fetched /\ x.skipped = res[r].skipped + 1
        /\ x.processed = res[r].processed /\ x.published = res[r].published
        /\ x.failed = res[r].failed
    BY <2>1 DEF ResultType
  <2>3. res' = [res EXCEPT ![r] = x]
    BY <1>3
  <2> HIDE DEF x
  <2>4. Failures(x) = Failures(res[r])
    BY <2>2 DEF Failures
  <2>5. res[r].skipped \in Nat /\ res[r].processed \in Nat
    BY <2>1 DEF ResultType
  <2>6. Counted(x) = Counted(res[r]) + 1
    BY <2>1, <2>2, <2>4, <2>5, CountsTyped
  <2>7. Split(res[r]) => Split(x)
    BY <2>2 DEF Split
  <2>8. cms'[KeyOf[i]] # <<>>
    BY <1>1, <1>3 DEF Exists, FindItem
  <2> QED
    BY <1>1, <1>3, <2>2, <2>3, <2>4, <2>6, <2>7, <2>8, SettleBalanced
<1>4. CASE Goto(r, i, "extract") /\ UNCHANGED res
  BY <1>1, <1>4, MoveBalanced DEF Labels
<1> QED
  BY <1>2, <1>3, <1>4 DEF Lookup

(* The calls between the lookup and the write. *)
LEMMA CallBalanced ==
  ASSUME Accounts, NEW r \in Runs, NEW i \in Items,
         Extract(r, i) \/ Geocode(r, i) \/ Find(r, i)
  PROVE  \A q \in Runs : Balanced(q)'
<1>1. /\ stage[r] = "work" /\ work[r][i] \notin {"none", "done"}
      /\ UNCHANGED stage /\ UNCHANGED cms
  BY DEF Extract, Geocode, Find, At, control, outside
<1>2. ASSUME NEW phase \in {"extract", "geocode", "upsert"}, Skip(r, i, phase)
      PROVE  \A q \in Runs : Balanced(q)'
  BY <1>1, <1>2, SkipBalanced DEF Phases
<1>3. ASSUME NEW label \in {"geocode", "find", "update", "create"}, Goto(r, i, label),
             UNCHANGED res
      PROVE  \A q \in Runs : Balanced(q)'
  BY <1>1, <1>3, MoveBalanced DEF Labels
<1>4. CASE Extract(r, i)
  <2>1. \/ Skip(r, i, "extract")
        \/ Goto(r, i, "geocode") /\ UNCHANGED <<doc, res>>
    BY <1>4 DEF Extract
  <2> QED
    BY <1>2, <1>3, <2>1
<1>5. CASE Geocode(r, i)
  <2>1. \/ Skip(r, i, "geocode")
        \/ Goto(r, i, "find") /\ UNCHANGED <<placed, res>>
    BY <1>5 DEF Geocode, Build, AfterBuild
  <2> QED
    BY <1>2, <1>3, <2>1
<1>6. CASE Find(r, i)
  <2>1. \/ Skip(r, i, "upsert")
        \/ Goto(r, i, "update") /\ UNCHANGED <<placed, doc, res>>
        \/ Goto(r, i, "create") /\ UNCHANGED <<placed, doc, res>>
    BY <1>6 DEF Find
  <2> QED
    BY <1>2, <1>3, <2>1
<1> QED
  BY <1>4, <1>5, <1>6

LEMMA WriteBalanced ==
  ASSUME Accounts, NEW r \in Runs, NEW i \in Items, Create(r, i) \/ Update(r, i),
         \A k \in Keys : cms[k] # <<>> => cms'[k] # <<>>
  PROVE  \A q \in Runs : Balanced(q)'
<1>1. stage[r] = "work" /\ work[r][i] \notin {"none", "done"} /\ UNCHANGED stage
  BY DEF Create, Update, At, control
<1>2. CASE Skip(r, i, "upsert")
  BY <1>1, <1>2, SkipBalanced DEF Phases
<1>3. CASE Goto(r, i, "publish") /\ UNCHANGED res
  BY <1>1, <1>3, MoveBalanced DEF Labels
<1> QED
  BY <1>2, <1>3 DEF Create, Update, AfterWrite

(* A row that is published was written: it counts as processed, and its key *)
(* is in the CMS.                                                           *)
LEMMA PublishBalanced ==
  ASSUME Accounts, NEW r \in Runs, NEW i \in Items, Publish(r, i)
  PROVE  \A q \in Runs : Balanced(q)'
<1> DEFINE p == [res[r] EXCEPT !.processed = @ + 1]
           sent == [p EXCEPT !.published = @ + 1]
           unsent == AddFailure(p, "publish")
<1>1. /\ stage[r] = "work" /\ work[r][i] = "publish" /\ Return(r, i)
      /\ UNCHANGED stage /\ UNCHANGED cms
  BY DEF Publish, At, control
<1>2. cms'[KeyOf[i]] # <<>>
  BY <1>1 DEF Accounts, WrittenFirst
<1>3. res[r] \in ResultType
  BY DEF Accounts, TypeOK
<1>4. /\ p \in ResultType /\ p.fetched = res[r].fetched /\ p.skipped = res[r].skipped
      /\ p.processed = res[r].processed + 1 /\ p.published = res[r].published
      /\ p.failed = res[r].failed
  BY <1>3, CountTyped DEF ResultType
<1>5. \/ res' = [res EXCEPT ![r] = sent]
      \/ res' = [res EXCEPT ![r] = unsent]
  BY DEF Publish
<1>6. /\ sent.fetched = p.fetched /\ sent.skipped = p.skipped
      /\ sent.processed = p.processed /\ sent.published = p.published + 1
      /\ sent.failed = p.failed /\ sent \in ResultType
  <2>1. p \in ResultType
    BY <1>4
  <2> HIDE DEF p
  <2> QED
    BY <2>1, CountTyped DEF ResultType
<1>7. /\ unsent.fetched = p.fetched /\ unsent.skipped = p.skipped
      /\ unsent.processed = p.processed /\ unsent.published = p.published
      /\ unsent.failed = [p.failed EXCEPT !["publish"] = @ + 1]
      /\ unsent \in ResultType
  <2>1. p \in ResultType
    BY <1>4
  <2> HIDE DEF p
  <2> QED
    BY <2>1, FailureTyped DEF AddFailure, ResultType, Phases
<1>8. /\ res[r].skipped \in Nat /\ res[r].processed \in Nat /\ res[r].published \in Nat
      /\ res[r].failed \in [Phases -> Nat]
  BY <1>3 DEF ResultType
<1> HIDE DEF p, sent, unsent
<1>9. Failures(sent) = Failures(res[r]) /\ Failures(unsent) = Failures(res[r])
  BY <1>4, <1>6, <1>7, <1>8 DEF Failures, Phases
<1>10. Counted(sent) = Counted(res[r]) + 1 /\ Counted(unsent) = Counted(res[r]) + 1
  BY <1>3, <1>4, <1>6, <1>7, <1>8, <1>9, CountsTyped
<1>11. unsent.failed["publish"] = res[r].failed["publish"] + 1
       /\ res[r].failed["publish"] \in Nat
  BY <1>4, <1>7, <1>8 DEF Phases
<1>12. Split(res[r]) => Split(sent) /\ Split(unsent)
  BY <1>4, <1>6, <1>7, <1>8, <1>11 DEF Split
<1>13. CASE res' = [res EXCEPT ![r] = sent]
  BY <1>1, <1>2, <1>4, <1>6, <1>9, <1>10, <1>12, <1>13, SettleBalanced
<1>14. CASE res' = [res EXCEPT ![r] = unsent]
  BY <1>1, <1>2, <1>4, <1>7, <1>9, <1>10, <1>12, <1>14, SettleBalanced
<1> QED
  BY <1>5, <1>13, <1>14

LEMMA StartBalanced ==
  ASSUME Accounts, NEW r \in Runs, Start(r)
  PROVE  \A q \in Runs : Balanced(q)'
<1> SUFFICES ASSUME NEW q \in Runs PROVE Balanced(q)'
  OBVIOUS
<1>1. stage \in [Runs -> {"idle", "fetch", "work", "ok", "failed"}] /\ res \in [Runs -> ResultType]
  BY DEF Accounts, TypeOK, ControlTypeOK
<1>2. CASE q # r
  BY <1>1, <1>2, OtherBalanced DEF Start, rows, outside
<1>3. CASE q = r
  <2>1. stage'[r] = "fetch" /\ res'[r] = NewResult
    BY <1>1 DEF Start
  <2> QED
    BY <1>3, <2>1 DEF Balanced
<1> QED
  BY <1>2, <1>3

(* A run that ends: its memory is gone, its result is left. *)
LEMMA LeaveBalanced ==
  ASSUME Accounts, NEW r \in Runs, NEW outcome \in {"ok", "failed"}, Leave(r, outcome),
         UNCHANGED res, UNCHANGED cms,
         outcome = "ok" => stage[r] = "work" /\ Pending(r) = {}
  PROVE  \A q \in Runs : Balanced(q)'
<1> SUFFICES ASSUME NEW q \in Runs PROVE Balanced(q)'
  OBVIOUS
<1>1. stage \in [Runs -> {"idle", "fetch", "work", "ok", "failed"}]
      /\ work \in [Runs -> [Items -> Labels]]
  BY DEF Accounts, TypeOK, ControlTypeOK, RowsTypeOK
<1>2. CASE q # r
  BY <1>1, <1>2, OtherBalanced DEF Leave
<1>3. CASE q = r
  <2>1. stage'[r] = outcome /\ \A i \in Items : work'[r][i] = "none"
    BY <1>1 DEF Leave
  <2>2. Pending(r)' = {}
    BY <2>1 DEF Pending
  <2>3. Balanced(r)
    BY DEF Accounts
  <2> QED
    BY <1>3, <2>1, <2>2, <2>3 DEF Balanced
<1> QED
  BY <1>2, <1>3

LEMMA FetchBalanced ==
  ASSUME Accounts, NEW r \in Runs, Fetch(r)
  PROVE  \A q \in Runs : Balanced(q)'
<1>1. stage[r] = "fetch" /\ UNCHANGED cms
  BY DEF Fetch, outside
<1>2. CASE Leave(r, "failed") /\ UNCHANGED res
  BY <1>1, <1>2, LeaveBalanced
<1>3. ASSUME NEW listed \in {feed, archive},
             work' = [work EXCEPT ![r] =
               [i \in Items |-> IF i \in listed \ Undated THEN "queued" ELSE "none"]],
             res' = [res EXCEPT ![r].fetched = Cardinality(listed \ Undated)],
             stage' = [stage EXCEPT ![r] = "work"]
      PROVE  \A q \in Runs : Balanced(q)'
  <2> DEFINE items == listed \ Undated
             x == [NewResult EXCEPT !.fetched = Cardinality(items)]
  <2> SUFFICES ASSUME NEW q \in Runs PROVE Balanced(q)'
    OBVIOUS
  <2>1. /\ stage \in [Runs -> {"idle", "fetch", "work", "ok", "failed"}]
        /\ work \in [Runs -> [Items -> Labels]] /\ res \in [Runs -> ResultType]
    BY DEF Accounts, TypeOK, ControlTypeOK, RowsTypeOK
  <2>2. CASE q # r
    BY <1>1, <1>3, <2>1, <2>2, OtherBalanced
  <2>3. CASE q = r
    <3>1. stage'[r] = "work" /\ res'[r] = x
      BY <1>1, <1>3, <2>1 DEF Accounts, Balanced
    <3>2. \A i \in Items : work'[r][i] = IF i \in items THEN "queued" ELSE "none"
      BY <1>3, <2>1
    <3>3. items \in SUBSET Items
      BY DEF Accounts, TypeOK, MofaTypeOK
    <3>4. Pending(r)' = items /\ Absent(r)' = {}
      BY <3>2, <3>3 DEF Pending, Absent
    <3>5. IsFiniteSet(items) /\ Cardinality(items) \in Nat
      BY <3>3, FS_Subset, FS_CardinalityType, IngestionAssumption
    <3>6. /\ x.fetched = Cardinality(items) /\ x.skipped = 0 /\ x.processed = 0
          /\ x.published = 0 /\ x.failed = [phase \in Phases |-> 0]
      BY DEF NewResult
    <3> HIDE DEF items, x
    <3>7. \A phase \in Phases : x.failed[phase] = 0
      BY <3>6
    <3>8. Failures(x) = 0 /\ Counted(x) = 0 /\ Split(x)
      BY <3>6, <3>7 DEF Failures, Counted, Split, Phases
    <3>9. Cardinality(Absent(r)') = 0
      BY <3>4, FS_EmptySet
    <3>10. Cardinality(Pending(r)') = Cardinality(items)
      BY <3>4
    <3> QED
      BY <2>3, <3>1, <3>5, <3>6, <3>8, <3>9, <3>10 DEF Balanced
  <2> QED
    BY <2>2, <2>3
<1> QED
  BY <1>2, <1>3 DEF Fetch

LEMMA NextBalanced ==
  ASSUME Accounts, [Next]_vars
  PROVE  \A q \in Runs : Balanced(q)'
<1>1. \A k \in Keys : cms[k] # <<>> => cms'[k] # <<>>
  BY StaysStored DEF Accounts
<1>2. ASSUME UNCHANGED <<stage, work, res>> PROVE \A q \in Runs : Balanced(q)'
  BY <1>1, <1>2, OtherBalanced
<1>3. ASSUME NEW r \in Runs, Start(r) \/ Fetch(r) PROVE \A q \in Runs : Balanced(q)'
  BY <1>3, StartBalanced, FetchBalanced
<1>4. ASSUME NEW r \in Runs, Exit(r) PROVE \A q \in Runs : Balanced(q)'
  <2>1. stage[r] = "work" /\ Pending(r) = {} /\ UNCHANGED res /\ UNCHANGED cms
    BY <1>4 DEF Exit, Pending, outside
  <2>2. ExitStatus(r) \in {"ok", "failed"} /\ Leave(r, ExitStatus(r))
    BY <1>4 DEF Exit, ExitStatus
  <2> QED
    BY <2>1, <2>2, LeaveBalanced
<1>5. ASSUME NEW r \in Runs, Kill(r) PROVE \A q \in Runs : Balanced(q)'
  BY <1>5, LeaveBalanced DEF Kill
<1>6. ASSUME NEW r \in Runs, Sigterm(r) PROVE \A q \in Runs : Balanced(q)'
  BY <1>2, <1>6 DEF Sigterm, rows
<1>7. ASSUME NEW r \in Runs, NEW i \in Items, RowStep(r, i)
      PROVE  \A q \in Runs : Balanced(q)'
  BY <1>1, <1>7, LookupBalanced, CallBalanced, WriteBalanced, PublishBalanced DEF RowStep
<1>8. ASSUME NEW i \in Items, Appear(i) \/ Withdraw(i) PROVE \A q \in Runs : Balanced(q)'
  BY <1>2, <1>8 DEF Appear, Withdraw, control, rows
<1>9. CASE UNCHANGED vars
  BY <1>2, <1>9 DEF vars, control, rows
<1> QED
  BY <1>3, <1>4, <1>5, <1>6, <1>7, <1>8, <1>9 DEF Next, RunStep

LEMMA InductiveAccounts == Spec => []Accounts
<1>1. Init => \A r \in Runs : Balanced(r)
  BY DEF Init, Balanced
<1>2. /\ TypeOK /\ Announcing /\ (\A r \in Runs : Balanced(r))
      /\ [Next]_vars
      => (\A r \in Runs : Balanced(r))'
  BY NextBalanced DEF Accounts, Announcing
<1>3. TypeOK /\ Announcing /\ (\A r \in Runs : Balanced(r)) => Accounts
  BY DEF Accounts, Announcing
<1> QED
  BY <1>1, <1>2, <1>3, Inductive, PTL DEF Spec

(* The counters that a run with exit status 0 has logged account for each   *)
(* row it fetched exactly once, and for each processed row whether it was   *)
(* announced, for every number of rows, goroutines and overlapping runs.    *)
THEOREM CountersAddUp == Spec => []ResultAccounts
<1>1. Accounts => ResultAccounts
  <2> SUFFICES ASSUME Accounts, NEW r \in Runs, stage[r] = "ok"
               PROVE  /\ res[r].fetched = Counted(res[r])
                      /\ Split(res[r])
    BY DEF ResultAccounts, Counted, Split
  <2>1. Pending(r) = {}
    BY DEF Pending, Accounts, TypeOK, OnlyAtWork
  <2>2. Cardinality(Pending(r)) = 0
    BY <2>1, FS_EmptySet
  <2>3. Counted(res[r]) \in Nat /\ Balanced(r)
    BY CountsTyped DEF Accounts, TypeOK
  <2> QED
    BY <2>2, <2>3 DEF Balanced
<1> QED
  BY <1>1, InductiveAccounts, PTL

(* A run with exit status 0 never leaves more rows out of the CMS than it   *)
(* counts as failed, whatever other runs write in between.                  *)
THEOREM NoSilentGap == Spec => MissingAreCounted
<1> DEFINE Told ==
             \A r \in Runs : stage[r] = "work" /\ stage'[r] = "ok" =>
               LET missing == {i \in Items : work[r][i] = "done" /\ cms[KeyOf[i]] = <<>>}
                   f == res[r].failed
               IN
               Cardinality(missing) <=
                 f["validate"] + f["lookup"] + f["extract"] + f["geocode"] + f["upsert"]
<1>1. Accounts => [Told]_vars
  BY DEF Accounts, Balanced, Absent, Failures
<1> QED
  BY <1>1, InductiveAccounts, PTL DEF MissingAreCounted

-----------------------------------------------------------------------------
(* Duplicates.  Between its search and its POST a run may be overtaken; an  *)
(* item of a key and a run that is about to post one are each charged to a  *)
(* run of their own.                                                        *)

(* A feed lists a key_cd once. *)
ListedOnce == \A i, j \in Items : KeyOf[i] = KeyOf[j] => i = j

Writers(k) == {r \in Runs : \E i \in Items : KeyOf[i] = k /\ work[r][i] = "create"}

Charged == \A k \in Keys : Len(cms[k]) + Cardinality(Writers(k)) <= Cardinality(Runs)

LEMMA WritersFinite ==
  ASSUME IsFiniteSet(Runs), NEW k
  PROVE  /\ IsFiniteSet(Writers(k)) /\ Cardinality(Writers(k)) \in Nat
         /\ Cardinality(Runs) \in Nat
         /\ Cardinality(Writers(k)) <= Cardinality(Runs)
<1>1. Writers(k) \in SUBSET Runs
  BY DEF Writers
<1> QED
  BY <1>1, FS_Subset, FS_CardinalityType

(* Nothing is added, and nobody else is about to. *)
LEMMA FewerWriters ==
  ASSUME IsFiniteSet(Runs), TypeOK, Charged, NEW k \in Keys,
         Len(cms'[k]) = Len(cms[k]),
         \A r \in Runs, i \in Items :
           KeyOf[i] = k /\ work'[r][i] = "create" => work[r][i] = "create"
  PROVE  Len(cms'[k]) + Cardinality(Writers(k)') <= Cardinality(Runs)
<1>1. Writers(k)' \in SUBSET Writers(k)
  BY DEF Writers
<1>2. IsFiniteSet(Writers(k)) /\ Cardinality(Writers(k)) \in Nat /\ Cardinality(Runs) \in Nat
  BY WritersFinite
<1>3. Cardinality(Writers(k)') <= Cardinality(Writers(k)) /\ Cardinality(Writers(k)') \in Nat
  BY <1>1, <1>2, FS_Subset, FS_CardinalityType
<1>4. Len(cms[k]) \in Nat
  BY DEF TypeOK, OutsideTypeOK
<1>5. Len(cms[k]) + Cardinality(Writers(k)) <= Cardinality(Runs)
  BY DEF Charged
<1> QED
  BY <1>2, <1>3, <1>4, <1>5

(* A step that leaves the CMS alone and, at most, takes a row whose key the *)
(* CMS does not have to its POST.                                           *)
LEMMA QuietCharged ==
  ASSUME IsFiniteSet(Runs), TypeOK, Charged, UNCHANGED cms,
         \A r \in Runs, i \in Items :
           work'[r][i] = "create" => work[r][i] = "create" \/ cms[KeyOf[i]] = <<>>
  PROVE  Charged'
<1> SUFFICES ASSUME NEW k \in Keys
             PROVE  Len(cms'[k]) + Cardinality(Writers(k)') <= Cardinality(Runs)
  BY DEF Charged
<1>1. CASE cms[k] = <<>>
  <2>1. Writers(k)' \in SUBSET Runs
    BY DEF Writers
  <2>2. /\ Cardinality(Writers(k)') <= Cardinality(Runs)
        /\ Cardinality(Writers(k)') \in Nat
    BY <2>1, FS_Subset, FS_CardinalityType
  <2>3. Len(cms'[k]) = 0
    BY <1>1, EmptySeq
  <2> QED
    BY <2>2, <2>3, WritersFinite
<1>2. CASE cms[k] # <<>>
  BY <1>2, FewerWriters
<1> QED
  BY <1>1, <1>2

LEMMA CreateCharged ==
  ASSUME ListedOnce, IsFiniteSet(Runs), TypeOK, Charged,
         NEW r \in Runs, NEW i \in Items, Create(r, i)
  PROVE  Charged'
<1> DEFINE k == KeyOf[i]
<1>1. work[r][i] = "create" /\ k \in Keys /\ doc[r][i] \in Docs /\ cms[k] \in Seq(Docs)
  BY IngestionAssumption DEF Create, At, TypeOK, Located, OutsideTypeOK
<1>2. \E label \in {"publish", "done"} : work' = [work EXCEPT ![r][i] = label]
  BY DEF Create, Skip, Return, Goto, AfterWrite
<1>3. \A q \in Runs, j \in Items :
        work'[q][j] = "create" => work[q][j] = "create" /\ ~(q = r /\ j = i)
  BY <1>2 DEF TypeOK, RowsTypeOK
<1>4. CASE UNCHANGED cms
  BY <1>3, <1>4, QuietCharged
<1>5. CASE cms' = [cms EXCEPT ![k] = Append(@, doc[r][i])]
  <2> SUFFICES ASSUME NEW q \in Keys
               PROVE  Len(cms'[q]) + Cardinality(Writers(q)') <= Cardinality(Runs)
    BY DEF Charged
  <2>1. CASE q # k
    <3>1. cms'[q] = cms[q]
      BY <1>5, <2>1 DEF TypeOK, OutsideTypeOK
    <3> QED
      BY <1>3, <3>1, FewerWriters
  <2>2. CASE q = k
    <3>1. Len(cms'[k]) = Len(cms[k]) + 1 /\ Len(cms[k]) \in Nat
      BY <1>1, <1>5, Appended DEF TypeOK, OutsideTypeOK
    <3>2. r \in Writers(k)
      BY <1>1 DEF Writers
    <3>3. Writers(k)' \in SUBSET (Writers(k) \ {r})
      BY <1>3 DEF Writers, ListedOnce
    <3>4. IsFiniteSet(Writers(k)) /\ Cardinality(Writers(k)) \in Nat /\ Cardinality(Runs) \in Nat
      BY WritersFinite
    <3>5. /\ IsFiniteSet(Writers(k) \ {r})
          /\ Cardinality(Writers(k) \ {r}) = Cardinality(Writers(k)) - 1
      BY <3>2, <3>4, FS_RemoveElement
    <3>6. /\ Cardinality(Writers(k)') <= Cardinality(Writers(k) \ {r})
          /\ Cardinality(Writers(k)') \in Nat
      BY <3>3, <3>5, FS_Subset, FS_CardinalityType
    <3>7. Len(cms[k]) + Cardinality(Writers(k)) <= Cardinality(Runs)
      BY <1>1 DEF Charged
    <3> QED
      BY <2>2, <3>1, <3>4, <3>5, <3>6, <3>7
  <2> QED
    BY <2>1, <2>2
<1> QED
  BY <1>4, <1>5 DEF Create

LEMMA UpdateCharged ==
  ASSUME IsFiniteSet(Runs), TypeOK, Charged, NEW r \in Runs, NEW i \in Items, Update(r, i)
  PROVE  Charged'
<1>1. KeyOf[i] \in Keys /\ doc[r][i] \in Docs
  BY IngestionAssumption DEF Update, At, TypeOK, Located
<1>2. \A q \in Keys : Len(cms'[q]) = Len(cms[q])
  BY <1>1, PatchedItems DEF Update
<1>3. \E label \in {"publish", "done"} : work' = [work EXCEPT ![r][i] = label]
  BY DEF Update, Skip, Return, Goto, AfterWrite
<1>4. \A q \in Runs, j \in Items : work'[q][j] = "create" => work[q][j] = "create"
  BY <1>3 DEF TypeOK, RowsTypeOK
<1> QED
  BY <1>2, <1>4, FewerWriters DEF Charged

LEMMA NextCharged ==
  ASSUME ListedOnce, IsFiniteSet(Runs), TypeOK, Charged, [Next]_vars
  PROVE  Charged'
<1>1. ASSUME UNCHANGED <<work, cms>> PROVE Charged'
  BY <1>1, QuietCharged
<1>2. ASSUME NEW r \in Runs, Start(r) \/ Sigterm(r) PROVE Charged'
  BY <1>1, <1>2 DEF Start, Sigterm, rows, outside
<1>3. ASSUME NEW r \in Runs, Fetch(r) \/ Exit(r) \/ Kill(r) PROVE Charged'
  <2>1. \A q \in Runs, i \in Items : work'[q][i] = "create" => work[q][i] = "create"
    BY <1>3 DEF Fetch, Exit, Kill, Leave, TypeOK, RowsTypeOK
  <2>2. UNCHANGED cms
    BY <1>3 DEF Fetch, Exit, Kill, outside
  <2> QED
    BY <2>1, <2>2, QuietCharged
<1>4. ASSUME NEW r \in Runs, NEW i \in Items,
             Lookup(r, i) \/ Extract(r, i) \/ Geocode(r, i) \/ Find(r, i) \/ Publish(r, i)
      PROVE  Charged'
  <2>1. UNCHANGED cms
    BY <1>4 DEF Lookup, Extract, Geocode, Find, Publish, outside
  <2>2. \E label \in Labels :
          /\ work' = [work EXCEPT ![r][i] = label]
          /\ label = "create" => cms[KeyOf[i]] = <<>>
    BY <1>4 DEF Lookup, Extract, Geocode, Build, AfterBuild, Find, FindItem, Publish,
                Skip, Return, Goto, Labels
  <2>3. \A q \in Runs, j \in Items :
          work'[q][j] = "create" => work[q][j] = "create" \/ cms[KeyOf[j]] = <<>>
    BY <2>2 DEF TypeOK, RowsTypeOK
  <2> QED
    BY <2>1, <2>3, QuietCharged
<1>5. ASSUME NEW r \in Runs, NEW i \in Items, Create(r, i) \/ Update(r, i) PROVE Charged'
  BY <1>5, CreateCharged, UpdateCharged
<1>6. ASSUME NEW i \in Items, Appear(i) \/ Withdraw(i) PROVE Charged'
  BY <1>1, <1>6 DEF Appear, Withdraw, rows, outside
<1>7. CASE UNCHANGED vars
  BY <1>1, <1>7 DEF vars, rows, outside
<1> QED
  BY <1>2, <1>3, <1>4, <1>5, <1>6, <1>7 DEF Next, RunStep, RowStep

(* If a feed lists a key_cd once, a notice never has more items than there  *)
(* are runs that may be under way at once, however many follow each other   *)
(* and whatever they lose: each duplicate costs a run that was overtaken    *)
(* between its search and its POST.                                         *)
THEOREM DuplicatesAreBounded ==
  ASSUME ListedOnce, IsFiniteSet(Runs)
  PROVE  Spec => []DuplicatesBounded
<1>1. Init => Charged
  <2> SUFFICES ASSUME Init, NEW k \in Keys
               PROVE  Len(cms[k]) + Cardinality(Writers(k)) <= Cardinality(Runs)
    BY DEF Charged
  <2>1. Len(cms[k]) = 0
    BY EmptySeq DEF Init
  <2> QED
    BY <2>1, WritersFinite
<1>2. TypeOK /\ Charged /\ [Next]_vars => Charged'
  BY NextCharged
<1>3. TypeOK /\ Charged => DuplicatesBounded
  <2> SUFFICES ASSUME TypeOK, Charged, NEW k \in Keys
               PROVE  Len(cms[k]) <= Cardinality(Runs)
    BY DEF DuplicatesBounded
  <2>1. Len(cms[k]) \in Nat
    BY DEF TypeOK, OutsideTypeOK
  <2> QED
    BY <2>1, WritersFinite DEF Charged
<1> QED
  BY <1>1, <1>2, <1>3, Inductive, PTL DEF Spec
=============================================================================
