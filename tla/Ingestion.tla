----------------------------- MODULE Ingestion ------------------------------
(***************************************************************************)
(* The ingestion job: every execution ("run") fetches the MOFA feed and    *)
(* passes each row through Exists, Extract (LLM), Geocode (Mapbox, then    *)
(* the country's centroid), Upsert and PublishNewArrival, a bounded number *)
(* of rows at once.  A row that fails is counted and skipped; the next run *)
(* starts over and skips what the CMS already has.                         *)
(*                                                                         *)
(* Runs are started by a scheduler that does not look whether the last one *)
(* has ended, and by hand; they share nothing but the CMS and the topic.   *)
(* One step is one call that leaves the process.                           *)
(***************************************************************************)
EXTENDS Naturals, FiniteSets, Sequences

CONSTANTS
  Items,       (* the rows MOFA may list                                     *)
  Keys,        (* key_cd values                                              *)
  KeyOf,       (* [Items -> Keys]                                            *)
  Country,     (* [Items -> countries, or NoCountry]                         *)
  NoCountry,   (* the empty country_cd                                       *)
  Centroids,   (* the countries in country_centroids.json                    *)
  Nearby,      (* the countries Mapbox may derive (with NoCountry: none)     *)
  Undated,     (* the rows whose leave_date does not parse                   *)
  Invalid,     (* the rows Validate rejects                                  *)
  Runs,        (* executions that may be under way                           *)
  Overlap,     (* whether two of them may be under way at once               *)
  Concurrency, (* INGESTION_CONCURRENCY                                      *)
  Faults       (* the failures that may happen                               *)

FaultKinds ==
  { "fetch",    (* start-up or the feed fails, retries included              *)
    "lookup",   (* the GET of Exists fails                                   *)
    "extract",  (* the LLM call fails                                        *)
    "find",     (* the GET of UpsertItemByFieldValue fails                   *)
    "write",    (* the POST or PATCH fails and does nothing                  *)
    "ack",      (* the POST or PATCH takes effect and its answer is lost     *)
    "publish",  (* the publish fails, with or without effect                 *)
    "term",     (* SIGTERM (task timeout, eviction)                          *)
    "kill" }    (* the process disappears                                    *)

Countries == Centroids \cup Nearby \cup {NoCountry} \cup {Country[i] : i \in Items}
Docs == [source : {"mapbox", "country_centroid"}, country : Countries]
NoDoc == [source |-> "none", country |-> NoCountry]
Phases == {"validate", "lookup", "extract", "geocode", "upsert", "publish"}

ASSUME IngestionAssumption ==
  /\ IsFiniteSet(Items)
  /\ KeyOf \in [Items -> Keys]
  /\ NoCountry \notin Centroids
  /\ Undated \subseteq Items
  /\ Invalid \subseteq Items
  /\ Overlap \in BOOLEAN
  /\ Concurrency \in Nat \ {0}
  /\ Faults \subseteq FaultKinds

VARIABLES
  (* MOFA *)
  feed,      (* newarrivalA.xml                                              *)
  archive,   (* 00A.xml                                                      *)
  (* the runs *)
  stage,     (* idle, fetch, work, ok (exit 0), failed (exit 1)              *)
  cancelled, (* the run's context is cancelled                               *)
  work,      (* the next call of each row's goroutine                        *)
  placed,    (* the LLM named a location                                     *)
  doc,       (* the SafetyIncident built, as far as geocoding decides it     *)
  res,       (* the IngestResult                                             *)
  (* outside *)
  cms,       (* [Keys -> the items with this key_cd]                         *)
  events,    (* [Keys -> messages on the topic]                              *)
  lost       (* history: [Keys -> why an item was left unannounced]          *)

world   == <<feed, archive>>
control == <<stage, cancelled>>
rows    == <<work, placed, doc>>
outside == <<cms, events, lost>>
vars == <<world, control, rows, res, outside>>

NewResult ==
  [fetched |-> 0, skipped |-> 0, processed |-> 0, published |-> 0,
   failed |-> [p \in Phases |-> 0]]

Init ==
  /\ feed = {}
  /\ archive = {}
  /\ stage = [r \in Runs |-> "idle"]
  /\ cancelled = [r \in Runs |-> FALSE]
  /\ work = [r \in Runs |-> [i \in Items |-> "none"]]
  /\ placed = [r \in Runs |-> [i \in Items |-> FALSE]]
  /\ doc = [r \in Runs |-> [i \in Items |-> NoDoc]]
  /\ res = [r \in Runs |-> NewResult]
  /\ cms = [k \in Keys |-> <<>>]
  /\ events = [k \in Keys |-> 0]
  /\ lost = [k \in Keys |-> {}]

Active(r) == stage[r] \in {"fetch", "work"}

(* A call may fail; every call made under a cancelled context does. *)
Fails(r, call) == call \in Faults \/ cancelled[r]

At(r, i, label) ==
  /\ stage[r] = "work"
  /\ work[r][i] = label

Goto(r, i, label) == work' = [work EXCEPT ![r][i] = label]

(* The goroutine of a row returns. *)
Return(r, i) ==
  /\ Goto(r, i, "done")
  /\ placed' = [placed EXCEPT ![r][i] = FALSE]
  /\ doc' = [doc EXCEPT ![r][i] = NoDoc]

(* Variant: the phase is noted, not counted. *)
AddFailureNoted(result, phase) == [result EXCEPT !.failed[phase] = 1]

AddFailure(result, phase) == [result EXCEPT !.failed[phase] = @ + 1]

(* recordItemFailure and the outcome of a row that is given up. *)
Skip(r, i, phase) ==
  /\ Return(r, i)
  /\ res' = [res EXCEPT ![r] = AddFailure(@, phase)]

(* The execution is over; its memory is gone. *)
Leave(r, outcome) ==
  /\ stage' = [stage EXCEPT ![r] = outcome]
  /\ work' = [work EXCEPT ![r] = [i \in Items |-> "none"]]
  /\ placed' = [placed EXCEPT ![r] = [i \in Items |-> FALSE]]
  /\ doc' = [doc EXCEPT ![r] = [i \in Items |-> NoDoc]]

-----------------------------------------------------------------------------
(* A run: start-up, feed, errgroup, exit. *)

(* Cloud Scheduler, or an operator. *)
Start(r) ==
  /\ ~Active(r)
  /\ Overlap \/ \A q \in Runs : ~Active(q)
  /\ stage' = [stage EXCEPT ![r] = "fetch"]
  /\ cancelled' = [cancelled EXCEPT ![r] = FALSE]
  /\ res' = [res EXCEPT ![r] = NewResult]
  /\ UNCHANGED <<world, rows, outside>>

(* Source.Fetch in incremental or initial mode, after run's start-up. *)
Fetch(r) ==
  /\ stage[r] = "fetch"
  /\ \/ /\ Fails(r, "fetch")
        /\ Leave(r, "failed")
        /\ UNCHANGED res
     \/ /\ ~cancelled[r]
        /\ \E listed \in {feed, archive} :
             LET items == listed \ Undated IN
             /\ work' = [work EXCEPT ![r] =
                           [i \in Items |-> IF i \in items THEN "queued" ELSE "none"]]
             /\ res' = [res EXCEPT ![r].fetched = Cardinality(items)]
        /\ stage' = [stage EXCEPT ![r] = "work"]
        /\ UNCHANGED <<placed, doc>>
  /\ UNCHANGED <<world, cancelled, outside>>

(* Rows given up because of a cancelled context do not make an error; the   *)
(* run asks the context itself.                                             *)
ExitStatus(r) == IF cancelled[r] THEN "failed" ELSE "ok"

Exit(r) ==
  /\ stage[r] = "work"
  /\ \A i \in Items : work[r][i] \in {"none", "done"}
  /\ Leave(r, ExitStatus(r))
  /\ UNCHANGED <<world, cancelled, res, outside>>

Sigterm(r) ==
  /\ "term" \in Faults
  /\ Active(r)
  /\ ~cancelled[r]
  /\ cancelled' = [cancelled EXCEPT ![r] = TRUE]
  /\ UNCHANGED <<world, stage, rows, res, outside>>

Kill(r) ==
  /\ "kill" \in Faults
  /\ Active(r)
  /\ Leave(r, "failed")
  /\ lost' = [k \in Keys |->
                lost[k] \cup {"kill" : i \in {j \in Items : KeyOf[j] = k /\ work[r][j] = "publish"}}]
  /\ UNCHANGED <<world, cancelled, res, cms, events>>

-----------------------------------------------------------------------------
(* processItem, one action per call. *)

(* Variant: the search never matches. *)
FindItemNever(k) == FALSE

(* The CMS lists an item whose key field is k. *)
FindItem(k) == cms[k] # <<>>

(* Variant: any hit of the keyword search counts. *)
ExistsAny(k) == \E other \in Keys : FindItem(other)

(* Variant: nothing is ever taken for known. *)
ExistsNever(k) == FALSE

Exists(k) == FindItem(k)

(* The rows whose goroutine has a slot of the errgroup. *)
Running(r) == {i \in Items : work[r][i] \notin {"none", "queued", "done"}}

(* Validate and Exists. *)
Lookup(r, i) ==
  /\ At(r, i, "queued")
  /\ Cardinality(Running(r)) < Concurrency
  /\ \/ /\ i \in Invalid
        /\ Skip(r, i, "validate")
     \/ /\ i \notin Invalid
        /\ Fails(r, "lookup")
        /\ Skip(r, i, "lookup")
     \/ /\ i \notin Invalid
        /\ ~cancelled[r]
        /\ Exists(KeyOf[i])
        /\ Return(r, i)
        /\ res' = [res EXCEPT ![r].skipped = @ + 1]
     \/ /\ i \notin Invalid
        /\ ~cancelled[r]
        /\ ~Exists(KeyOf[i])
        /\ Goto(r, i, "extract")
        /\ UNCHANGED <<placed, doc, res>>
  /\ UNCHANGED <<world, control, outside>>

(* llmLimiter.Wait and Extractor.Extract; an answer that does not parse     *)
(* counts as "no location".                                                 *)
Extract(r, i) ==
  /\ At(r, i, "extract")
  /\ \/ /\ Fails(r, "extract")
        /\ Skip(r, i, "extract")
     \/ /\ ~cancelled[r]
        /\ \E found \in BOOLEAN : placed' = [placed EXCEPT ![r][i] = found]
        /\ Goto(r, i, "geocode")
        /\ UNCHANGED <<doc, res>>
  /\ UNCHANGED <<world, control, outside>>

(* Mapbox: no usable feature, or a feature and the country it lies in. *)
Miss == [hit |-> FALSE, country |-> NoCountry]
Hits == [hit : {TRUE}, country : Nearby \cup {NoCountry}]

(* Variant: the chain ends after Mapbox. *)
ChainMapboxOnly(location, country, answer) ==
  IF location /\ answer.hit
    THEN [source |-> "mapbox", country |-> IF country = NoCountry THEN answer.country ELSE country]
    ELSE NoDoc

(* ChainGeocoder.Geocode: NoDoc is its error.  MOFA's country wins over     *)
(* Mapbox's, and only a country of the table has a centroid.                *)
Chain(location, country, answer) ==
  IF location /\ answer.hit
    THEN [source |-> "mapbox", country |-> IF country = NoCountry THEN answer.country ELSE country]
    ELSE IF country \in Centroids
      THEN [source |-> "country_centroid", country |-> country]
      ELSE NoDoc

(* Variant: the event goes out first. *)
AfterBuildPublish == "publish"

AfterBuild == "find"

(* The incident is built from what the geocoder returned, or given up.      *)
Build(r, i, located) ==
  \/ /\ located = NoDoc
     /\ Skip(r, i, "geocode")
  \/ /\ located # NoDoc
     /\ doc' = [doc EXCEPT ![r][i] = located]
     /\ Goto(r, i, AfterBuild)
     /\ UNCHANGED <<placed, res>>

(* geocodeLimiter.Wait, Geocode and Build.  A failed Mapbox call is a miss, *)
(* so that a cancelled context is noticed by the limiter only.              *)
Geocode(r, i) ==
  /\ At(r, i, "geocode")
  /\ \/ /\ cancelled[r]
        /\ Skip(r, i, "geocode")
     \/ \E answer \in {Miss} \cup Hits :
        /\ answer.hit => ~cancelled[r]
        /\ Build(r, i, Chain(placed[r][i], Country[i], answer))
  /\ UNCHANGED <<world, control, outside>>

(* UpsertItemByFieldValue up to the answer of its search. *)
Find(r, i) ==
  /\ At(r, i, "find")
  /\ \/ /\ Fails(r, "find")
        /\ Skip(r, i, "upsert")
     \/ /\ ~cancelled[r]
        /\ Goto(r, i, IF FindItem(KeyOf[i]) THEN "update" ELSE "create")
        /\ UNCHANGED <<placed, doc, res>>
  /\ UNCHANGED <<world, control, outside>>

(* Variant: approximate positions are not announced. *)
AfterWriteExact(d) == IF d.source = "mapbox" THEN "publish" ELSE "done"

AfterWrite(d) == "publish"

(* CreateItem: a POST, never repeated. *)
Create(r, i) ==
  LET k == KeyOf[i] IN
  /\ At(r, i, "create")
  /\ \/ /\ ~cancelled[r]
        /\ cms' = [cms EXCEPT ![k] = Append(@, doc[r][i])]
        /\ Goto(r, i, AfterWrite(doc[r][i]))
        /\ UNCHANGED <<placed, doc, res, lost>>
     \/ /\ Fails(r, "write")
        /\ Skip(r, i, "upsert")
        /\ UNCHANGED <<cms, lost>>
     \/ /\ Fails(r, "ack")
        /\ cms' = [cms EXCEPT ![k] = Append(@, doc[r][i])]
        /\ lost' = [lost EXCEPT ![k] = @ \cup {"upsert"}]
        /\ Skip(r, i, "upsert")
  /\ UNCHANGED <<world, control, events>>

(* Empty values are left out of the PATCH. *)
Patched(old, new) ==
  [source |-> new.source, country |-> IF new.country = NoCountry THEN old.country ELSE new.country]

(* UpdateItem, on one of the items the search may have returned. *)
Update(r, i) ==
  LET k == KeyOf[i]
      Patch == \E n \in DOMAIN cms[k] : cms' = [cms EXCEPT ![k][n] = Patched(@, doc[r][i])]
  IN
  /\ At(r, i, "update")
  /\ \/ /\ ~cancelled[r]
        /\ Patch
        /\ Goto(r, i, AfterWrite(doc[r][i]))
        /\ UNCHANGED <<placed, doc, res>>
     \/ /\ Fails(r, "write")
        /\ Skip(r, i, "upsert")
        /\ UNCHANGED cms
     \/ /\ Fails(r, "ack")
        /\ Patch
        /\ Skip(r, i, "upsert")
  /\ UNCHANGED <<world, control, events, lost>>

(* PublishNewArrival.  The row counts as processed either way, and a failed *)
(* publish is counted besides; the message may have gone out all the same.  *)
Publish(r, i) ==
  LET k == KeyOf[i]
      processed == [res[r] EXCEPT !.processed = @ + 1]
  IN
  /\ At(r, i, "publish")
  /\ Return(r, i)
  /\ \/ /\ ~cancelled[r]
        /\ events' = [events EXCEPT ![k] = @ + 1]
        /\ res' = [res EXCEPT ![r] = [processed EXCEPT !.published = @ + 1]]
        /\ UNCHANGED lost
     \/ /\ Fails(r, "publish")
        /\ events' \in {events, [events EXCEPT ![k] = @ + 1]}
        /\ res' = [res EXCEPT ![r] = AddFailure(processed, "publish")]
        /\ lost' = [lost EXCEPT ![k] = @ \cup {"publish"}]
  /\ UNCHANGED <<world, control, cms>>

-----------------------------------------------------------------------------
(* MOFA (external): a notice enters both feeds and may leave the short one. *)

Appear(i) ==
  /\ i \notin archive
  /\ feed' = feed \cup {i}
  /\ archive' = archive \cup {i}
  /\ UNCHANGED <<control, rows, res, outside>>

Withdraw(i) ==
  /\ i \in feed
  /\ feed' = feed \ {i}
  /\ UNCHANGED <<archive, control, rows, res, outside>>

-----------------------------------------------------------------------------
RowStep(r, i) ==
  \/ Lookup(r, i)
  \/ Extract(r, i)
  \/ Geocode(r, i)
  \/ Find(r, i)
  \/ Create(r, i)
  \/ Update(r, i)
  \/ Publish(r, i)

RunStep(r) ==
  \/ Fetch(r)
  \/ \E i \in Items : RowStep(r, i)
  \/ Exit(r)

Next ==
  \/ \E r \in Runs : Start(r) \/ RunStep(r) \/ Sigterm(r) \/ Kill(r)
  \/ \E i \in Items : Appear(i) \/ Withdraw(i)

Spec == Init /\ [][Next]_vars

(* The scheduler keeps firing and a run that is under way makes progress.   *)
Fairness ==
  /\ WF_vars(\E r \in Runs : Start(r))
  /\ \A r \in Runs : WF_vars(RunStep(r))

FairSpec == Spec /\ Fairness

-----------------------------------------------------------------------------
ResultType ==
  [fetched : Nat, skipped : Nat, processed : Nat, published : Nat, failed : [Phases -> Nat]]

Labels == {"none", "queued", "extract", "geocode", "find", "create", "update", "publish", "done"}

MofaTypeOK == feed \subseteq archive /\ archive \subseteq Items

ControlTypeOK ==
  /\ stage \in [Runs -> {"idle", "fetch", "work", "ok", "failed"}]
  /\ cancelled \in [Runs -> BOOLEAN]

RowsTypeOK ==
  /\ work \in [Runs -> [Items -> Labels]]
  /\ placed \in [Runs -> [Items -> BOOLEAN]]
  /\ doc \in [Runs -> [Items -> Docs \cup {NoDoc}]]

OutsideTypeOK ==
  /\ cms \in [Keys -> Seq(Docs)]
  /\ events \in [Keys -> Nat]
  /\ lost \in [Keys -> SUBSET {"publish", "upsert", "kill"}]

OnlyAtWork == \A r \in Runs, i \in Items : stage[r] # "work" => work[r][i] = "none"

Located ==
  \A r \in Runs, i \in Items :
    work[r][i] \in {"find", "create", "update", "publish"} => doc[r][i] \in Docs

(* Every variable stays within its type; in particular only a run at work   *)
(* holds rows, and what goes to the CMS has been geocoded.                  *)
TypeOK ==
  /\ MofaTypeOK
  /\ ControlTypeOK
  /\ RowsTypeOK
  /\ res \in [Runs -> ResultType]
  /\ OutsideTypeOK
  /\ OnlyAtWork
  /\ Located

(* The counters logged by a run that exits 0 account for every fetched row  *)
(* exactly once, although the goroutines add to them in any order, and a    *)
(* failed publish never hides that the row was processed.                   *)
ResultAccounts ==
  \A r \in Runs : stage[r] = "ok" =>
    LET f == res[r].failed IN
    /\ res[r].fetched = res[r].skipped + res[r].processed
         + f["validate"] + f["lookup"] + f["extract"] + f["geocode"] + f["upsert"]
    /\ res[r].processed = res[r].published + f["publish"]

(* An item of the CMS whose event never reached the topic is either about   *)
(* to be announced, or a failed publish, a lost answer or a crash explains  *)
(* it: no path through overlapping runs forgets an announcement silently.   *)
StoredAccountedFor ==
  \A k \in Keys : cms[k] # <<>> /\ events[k] = 0 =>
    \/ lost[k] # {}
    \/ \E r \in Runs, i \in Items : KeyOf[i] = k /\ work[r][i] = "publish"

(* The app that opens a notification finds the incident: nothing is         *)
(* announced before it is in the CMS.                                       *)
AnnouncedIsStored == \A k \in Keys : events[k] > 0 => cms[k] # <<>>

(* Runs that overlap may register a notice twice, but never more often than *)
(* there are runs under way at once, however many follow ("at worst the CMS *)
(* sees two upserts").  MOFA lists a key_cd once per feed.                  *)
DuplicatesBounded ==
  \A k \in Keys : Len(cms[k]) <= Cardinality(Runs)

(* Without overlap the job implements the ledger: one item, one event.      *)
Ledger == INSTANCE IncidentLedger WITH
            registered <- [k \in Keys |-> Len(cms[k])],
            announced <- events
ImplementsLedger == Ledger!Spec

(* Without overlap, what was registered is never rewritten: no later run    *)
(* replaces a precise position by a centroid, or fetches it again in vain.  *)
StoredIsFinal == [][\A k \in Keys : cms[k] # <<>> => cms'[k] = cms[k]]_cms

(* The rows a run ends with that are not in the CMS are all among its       *)
(* counted failures: neither a skip nor a cancelled context in the middle   *)
(* nor another run's write lets a notice pass for registered.               *)
MissingAreCounted ==
  [][\A r \in Runs : stage[r] = "work" /\ stage'[r] = "ok" =>
       LET missing == {i \in Items : work[r][i] = "done" /\ cms[KeyOf[i]] = <<>>}
           f == res[r].failed
       IN
       Cardinality(missing) <=
         f["validate"] + f["lookup"] + f["extract"] + f["geocode"] + f["upsert"]]_vars

(* A step in which something goes wrong for a transient reason. *)
FaultStep ==
  \E r \in Runs :
    \/ stage[r] # "failed" /\ stage'[r] = "failed"
    \/ ~cancelled[r] /\ cancelled'[r]
    \/ \E phase \in {"lookup", "extract", "upsert", "publish"} :
         res'[r].failed[phase] > res[r].failed[phase]

(* A row that no run can refuse: valid, of a country with a centroid. *)
Storable(i) == i \notin Invalid \cup Undated /\ Country[i] \in Centroids

(* NFR-ING-REL-02: once failures cease, a notice MOFA keeps listing gets    *)
(* into the CMS, whatever Mapbox says about its position.                   *)
SelfHealing ==
  <>[][~FaultStep]_vars =>
    \A i \in Items : i \in feed ~> i \notin feed \/ ~Storable(i) \/ cms[KeyOf[i]] # <<>>

(* Every registered notice is announced in the end, unless it was lost.     *)
AnnouncedInTheEnd ==
  \A k \in Keys : cms[k] # <<>> ~> events[k] > 0 \/ lost[k] # {}

(* NFR-ING-REL-01: "the same XML processed N times registers one item".     *)
(* It holds for runs in turn only (IngestionProofs, OneItemInTurn); what    *)
(* holds of overlapping runs is DuplicatesBounded.                          *)
OneItemPerKey == \A k \in Keys : Len(cms[k]) <= 1
=============================================================================
