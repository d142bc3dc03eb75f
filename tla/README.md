# Verification of overseas-safety-map

TLA+ models, TLC runs and TLAPS proofs for the Go backend in `src/`: the job
that ingests safety notices of the Ministry of Foreign Affairs (MOFA), the
service that notifies subscribers, the Connect-RPC backend of the mobile app
(BFF) and the job that migrates the CMS schema.

1. The system: its parts, their state, what is hard about them
2. The modules and how they correspond to the code
3. The runs: what each shows, bounds, fairness
4. The proofs
5. Where the code and its documentation disagree
6. What is not modelled
7. Plan

Paths below are relative to `src/internal/` unless they begin with `src/`.

## 1. The system

    MOFA XML feed --> ingestion job --> reearth-cms (items) --> BFF --> app
                           |                  ^                  |
                           | Pub/Sub          | cmsmigrate job   v
                           v                                Firestore users
                     notifier service  <-- subscriber query ----'
                           |
                           +--> Firestore notifier_dedup, FCM --> devices

The processes share no memory. They interact through four stores: the CMS
(ingestion writes items, the BFF reads them, cmsmigrate makes the schema), the
Pub/Sub topic (ingestion to notifier), the `users` collection (the BFF writes it,
the notifier reads it and removes dead tokens) and the `notifier_dedup`
collection (notifier instances among themselves). Every store is outside the
repository, so every interaction is a call that may fail, take effect without an
answer, or be overtaken by another process's call.

| Component | State it keeps | Operations | Hard behaviour | What makes it correct |
|---|---|---|---|---|
| **Notifier service** (`notification/`, `interfaces/job/notifier_runner.go`, `src/cmd/notifier`) | per request: event, goroutine outcomes, aggregated result; in Firestore: `notifier_dedup` markers, `users.fcm_tokens` | `Push`: `Decode`, `CheckAndMark`, `FindSubscribers`, `SendMulticast` per user, `RemoveInvalidTokens`, answer | at-least-once delivery, overlapping pushes on two instances, a crash between marker and send, stale token lists, lost answers | no user is pushed twice for one event; an acknowledged event was delivered, or its claimant failed; counters add up; live tokens are never removed |
| **New-arrival topic** (`safetyincident/infrastructure/eventbus`, `platform/pubsubx`, `notification/infrastructure/eventdecoder`) | messages, outside the repository | `PublishNewArrival`, `Decode` | what the job announced and what the CMS shows may differ by the time a push is handled; failures of either side, repeated publishes | nobody is pushed what is not stored, or what he did not ask for; what is stored reaches those who want it |
| **Ingestion job** (`safetyincident/application/ingest_usecase.go`, `src/cmd/ingestion`) | per run: fetched rows, counters; in the CMS: items by `key_cd` | `Fetch`; per row `Validate`, `Exists`, `Extract`, `Geocode`, `Build`, `Upsert`, `PublishNewArrival` | five-minute schedule with overlapping runs, `Exists` and `Upsert` not atomic, a publish after a committed write, SIGTERM in the middle | one item and at most one event per notice; what fails is counted; what failed is retried by the next run; nothing is announced before it is stored |
| **CMS item client** (`platform/cmsx/item.go`, `safetyincident/infrastructure/cms/repository.go`) | none | find, create, update, upsert | GETs are retried, POSTs are not: an ambiguous POST | see ingestion |
| **Geocoding and extraction** (`safetyincident/infrastructure/geocode`, `.../llm`, `platform/mapboxx`, `platform/llm`) | none | `ChainGeocoder.Geocode` (Mapbox, then the country's centroid), `Extract` | order of the fallback, what counts as an error | a notice of a known country always gets a position |
| **CMS migration job** (`cmsmigrate/`, `platform/cmsx/schema.go`, `src/cmd/cmsmigrate`) | the CMS project, models and fields | `EnsureSchema.Execute`, drift detection | find-then-create against another run, another version of the job or an operator; a partial schema after a failure | exit 0 means that everything declared exists and drift was reported; nothing that exists is changed; repeating converges |
| **User profiles** (`user/`, `interfaces/rpc/user_profile_server.go`) | `users` documents | `GetProfile` (creates if missing), `ToggleFavoriteCountry`, `UpdateNotificationPreference`, `RegisterFcmToken` | several round trips without a transaction; retries of a call that is not idempotent | taps add up; registrations are not undone; a new user is never told NotFound |
| **Incident queries** (`safetyincident/application`, `.../cms/reader.go`, `platform/cmsx/item_read.go`, `interfaces/rpc/safety_incident_server.go`) | a page-number cursor held by the app | `List`, `Search`, `ListNearby`, `Get`, GeoJSON | page numbers under concurrent inserts, a page size the CMS clips, one undecodable item in a page | a finished walk has shown everything; repeats are explained by arrivals; the nearest are shown |
| **Crime map** (`safetyincident/crimemap`) | none | `Choropleth`, `Heatmap` | bucket boundaries, one page taken for the corpus | the shades follow the counts |
| **Retry, rate limit** (`platform/retry`, `platform/ratelimit`) | per call: attempt, delay; two token buckets all workers share | `Do`, `Wait` | back-off with jitter, cancellation while waiting, which errors are repeated, retries inside an admitted call | a short outage fails no row; the services see a bounded number of requests |
| **Servers** (`platform/connectserver`, `interfaces/rpc` interceptors, `src/cmd/bff`, `src/cmd/notifier`) | the main goroutine, the listener, connections, requests, the Firestore client | start-up, accept, authenticate, handle, map errors, drain, close, exit | SIGTERM at any moment, late requests, handlers that hang or panic, a listener that fails | the drain loses no request before its time; answers tell what happened; SIGTERM ends the process |
| **Firebase clients** (`platform/firebasex`) | cached clients | lazy construction, `Close` | a remembered initialisation error | no request is left running when Firestore is closed; for the rest see 6 |
| **Observability, configuration, error kinds, generated code, Terraform** | none of the program's state | | | `RecoverInterceptor` and `KindOf` are part of `Server`, the subscription's retry policy and the marker's TTL of `Notifier`; for the rest see 6 |

`PROJECT.json` lists the hazards of this code one by one, each at its line and with
the properties that watch it.

## 2. The modules

Each component has a module with its state and one action per call that leaves
the process; what the code does between two such calls happens in the same step,
because no other process can see it. Failures are actions' alternatives, switched
on by the constant `Faults`. Variables marked "history" are not state of the
program: they record what the properties ask about.

| Module | What it is |
|---|---|
| `Notifier` | the notifier service; Pub/Sub, FCM, devices and the BFF's token registration as its environment |
| `AtMostOncePush` | its contract: an event is claimed once, a user pushed at most once per claim, a claim may expire |
| `Ingestion` | the ingestion job, the scheduler, the CMS items, the topic, MOFA's two feeds |
| `IncidentLedger` | its contract: a notice is registered once, then announced at most once |
| `Pipeline` | the ingestion job and the notifier over their topic: `Ingestion` and an instance of `Notifier` |
| `IncidentNotice` | the contract of the two together: registered for good, then told once per user |
| `UserProfile` | the four profile calls, the app's retries, the notifier's clean-up, deletions |
| `ProfileStore` | its contract: every write changes one field of one profile, and only an erasure takes away the rest |
| `CmsMigrate` | the migration job, overlapping versions of it, the CMS's schema, operators at the console |
| `SchemaStore` | its contract: the schema only grows, containers first, and nothing existing is altered |
| `SafetyQueries` | list, search, proximity and map queries against a listing that grows |
| `Outbound` | the HTTP calls inside a row of the ingestion job, attempt by attempt: rate limiters, retries, back-off, cancellation |
| `IngestRow` | the contract of a row, call by call, as `Ingestion` takes it: one answer per call, one request at most for the write |
| `Server` | the life of the BFF and of the notifier as processes: start-up, interceptors, drain, exit |
| `MC*` | constants of the small instances TLC checks |
| `*Proofs` | theorems and lemmas, checked by TLAPS |

Operators commented "Variant: ..." are plausible mistakes (a dropped guard, a plain
write instead of an array operation). No action uses them; each stands next to the
definition it would replace, and `PROJECT.json` names the property that such a
mistake breaks.

### Notifier

One process per request slot (`Handlers`), over all instances. `pc[h]` is the next
call of `NotifierHandler.Push` and `DeliverNotificationUseCase.Execute`:

| Action | Code |
|---|---|
| `Push` | `notifier_runner.go` `Push` up to `Execute`: read, decode, 400 or 500 |
| `CheckAndMark` | `FirestoreDedup.CheckAndMark`, one Firestore transaction, and the branch on its outcome; it may commit and lose its answer |
| `ResolveSubscribers` | `FirestoreUserRepository.FindSubscribers` and the branch on an empty list |
| `SendMulticast`, `RemoveInvalidTokens` | `deliverToUser` up to FCM's answer and after it, one goroutine per user under the errgroup limit `Concurrency` |
| `LockResult`, `AddOutcome` | the addition to the shared `DeliverResult` in two steps, reading it and writing it back, with `mu.Lock` in front (`MutexFree`) and `mu.Unlock` after |
| `WaitAll`, `Respond` | `errgroup.Wait` and the HTTP answer |
| `Kill`, `AckDeadline` | the instance dies, or the answer comes too late and the request's context is cancelled |
| `Publish`, `Deliver`, `DeadLetter` | Pub/Sub: pushes until a 200 or `MaxAttempts`, with the fault "duplicate" also while a push of the message is unanswered (external) |
| `Uninstall`, `RegisterFcmToken` | devices and the BFF's `ArrayUnion` |
| `Reap` | Firestore's TTL on the marker; 24 h exceed the life of a message, so no push of it is under way |

A message carries a key, a country and a type (`KeyOf`, `Country`, `InfoType`);
`FindSubscribers` is the query on `countries` and the two filters after it, and
`Expects` says who is due a message: a subscriber who had a token when it was published
and has had one since.

`lost[k]` records that the one request that claimed `k` failed before it had called
FCM for everyone; `audience[k]` whom it resolved; `pushes[k][u]` the calls made for a
user, failed ones too, because FCM may have delivered what it did not answer; and
`fate[k][u]` what came of the call: a device accepted the push ("reached"), the whole
call failed or a device was refused for a passing reason ("failed"), or all devices were
dead ("gone"). A call made under a context that the ack deadline has cancelled is always
"failed". `malformed` are the published messages the decoder rejects.

### Ingestion

`work[r][i]` is the next call of row `i` in run `r`; at most `Concurrency` rows are
between `Lookup` and their return. `Lookup` is `Validate` and `Exists`; `Extract`
the LLM call, whose unparsable answer counts as "no location"; `Geocode` the
limiter, `ChainGeocoder.Geocode` (operator `Chain`) and `Build`; `Find`,
`Create`/`Update` are `UpsertItemByFieldValue` in its two calls; `Publish` is
`PublishNewArrival`, which counts the row as processed whether or not it succeeds.
`Start`, `Fetch`, `Exit`, `Sigterm` and `Kill` are the life of the process;
`Overlap` says whether two runs may be under way at once, which the deployment
allows. `Appear` and `Withdraw` are MOFA's feeds. A stored item is abstracted to its
`geocode_source` and country, the fields whose loss the properties can tell.

### Pipeline

The module extends `Ingestion` and instantiates `Notifier`, whose messages are here
records of what the event carries: key, country, type, and an `id` for copies. Every
step is a step of one of the two (`JobStep`, `JobEnvironment` leave the notifier's
variables alone, `HandlerStep`, `SubscriptionStep`, `ServiceEnvironment` the job's), except
`Announce`, the publish, which is one step of both: `Ingestion!Publish` and
`Notifier!Publish` of a message that carries what `EventOf` says, which is the country of
the incident as built (`doc`), not that of the feed. `Repeat` is Pub/Sub's client library
publishing again what it has no answer for.

### UserProfile

`pc[s]` is the next Firestore round trip of call slot `s`: `create` is
`CreateIfMissing`, `read` and `write` the two round trips of `ToggleFavorite`, `get`,
`bootstrap` and `refetch` those of `GetProfile`, also of the one that ends a toggle
RPC (`user_profile_server.go:77-83`). Writes are modelled by what Firestore does
with them (`Create`, `ArrayUnion`, `ArrayRemove`, `Update`). `Retry` is the app
repeating a call it saw fail. `wanted` flips with every tap of the user, not with
retries; `unsure` collects the countries whose toggles overlapped or failed after
their write, where the code makes no promise.

### CmsMigrate

`at[r]` is the position of run `r` in its definition, `<<0, 0>>` the project,
`<<i, 0>>` a model, `<<i, j>>` a field. `Find`, `Create` and `Refetch` are the lookups
and creations of `ensureProject`, `ensureModel` and `ensureField`; `Validate` is
rules R2 to R7 of `SchemaDefinition.Validate`; `Drifts` is `detectFieldDrift`; `Sent`
is what `createFieldBody` puts on the wire, which has no uniqueness. Several runs may
carry different definitions: a deployment of a new version while the old one runs.

### SafetyQueries

`store` is the CMS's listing for one filter, in its order; `Register` inserts an item
at any position, since where a new item lists is the CMS's choice. `walk` is a list
screen: `Open`, then `NextPage` with the cursor of the previous answer, whose
`PageOf`, `Page` and `NextCursor` are `listItems` (`item_read.go:111-152`). `PerPage`
is the CMS's page size, which may be smaller than the one asked for. An item that
`fromFields` rejects (`broken`) fails every page that contains it. `view` is the last
map drawn: `Choropleth` and `Heatmap` (`aggregator.go`), or `ListNearby`
(`reader.go:130-169`), whose sort leaves equal distances in any order (`Rankings`).
A failed GET changes nothing, so it is a stuttering step.

### Outbound

`Ingestion` takes a call as one step; this module is what happens inside. A worker is
a goroutine of `Execute`; `call[w]` is the call of `processItem` it makes, `pc[w]`
where it is in it: waiting for the limiter (`Admit`, `Unadmitted`), about to send
(`Send`, `GiveUp`), waiting for the answer (`Answer`), in the back-off of `retry.Do`
(`Wake`), or back in `processItem` (`NextCall`, `EndRow`). `Answer` has one
alternative per class of failure that `ShouldRetry` tells apart: a transient one is
repeated while attempts are left, a refusal, a timeout and a cancelled context are
not. Only the write of the CMS is sent once (`doJSON`). A call of Mapbox that fails
gives way to the centroid (`Continues`). Time is counted in ticks; `level` is a bucket
in ticks' worth of tokens, so that it refills at any whole rate. `window` and `slept`
are history: a limited service watched over some stretch of time, which may begin
anywhere (`Observe`), and how long a call has slept between its attempts. SIGTERM
(`Terminate`) ends the watch and the clock, since a cancelled worker neither waits nor
sends.

### Server

`main` is the goroutine of `run()`: `Boot` resolves what `BootSteps` lists in the order
of the two `main.go`, `Listen` is the goroutine of `ListenAndServe`, then the `select`
(`ListenerFailed`, `Shutdown`), the polling of `http.Server.Shutdown` (`Poll`,
`PollAgain`, external), its deadline (`GraceOver`), the deferred `App.Close`
(`CloseClients`) and the exit. A client has one connection and one request at a time.
`Request`, `Auth` and `Handle` are the path of a request through the interceptors;
`Finish` and `Answer` are the way back, with `KindOf`, `KindToCode` and `Masked`. The
BFF's HTTP/2 connections are `hijacked`: `h2c.NewHandler` takes them over from
`net/http`, so `Shutdown` neither closes them nor waits for them. What a handler does
is the business of the other modules: here it ends in one of the ways its errors can
be classified, or never.

## 3. The runs

Passing runs explore their instance completely. Deadlock is checked, except in the
notifier and pipeline runs, where every message may be settled, every marker reaped and
every device gone, and in the server runs, where the process exits: the system then
really stops.

| Run | Instance | States | What it shows |
|---|---|---|---|
| `notifier_delivery` | 1 message, well-formed or not, 2 request slots, 2 goroutines at a time, 2 users with 2 and 1 devices, 2 delivery attempts that may overlap, all twelve faults, fairness | 216k | FCM is called at most once per user (`NoDoublePush`), an acknowledged event is accounted for user by user (`AckedAccountedFor`), the counters of a 200 add up although two goroutines write them (`ResultAccounts`), live tokens stay (`LiveTokensKept`), `Notifier` implements `AtMostOncePush`, every message is acknowledged or dead-lettered in the end (`MessagesSettle`), and an event reaches a device of everyone who expects it unless it is dead-lettered, its claimant failed or the send to that user did (`ReachesSubscribers`) |
| `notifier_lost_event` | the subscriber query may fail | violation | `TransientFailureIsRetried`, see 5 |
| `ingestion_overlap` | 2 overlapping runs, one at a time inside each, 2 rows of which one is undated (dropped by the fetch of either mode), all faults, fairness | 485k | no announcement is forgotten without a recorded cause (`StoredAccountedFor`), none precedes its item (`AnnouncedIsStored`), at most one item per run under way (`DuplicatesBounded`), and everything stored is announced in the end or recorded as lost (`AnnouncedInTheEnd`) |
| `ingestion_sequential` | runs in turn, 2 goroutines, 3 rows: a good one, one without country, an invalid one; all faults, fairness | 321k | the counters add up (`ResultAccounts`) and cover what is missing (`MissingAreCounted`), the job implements `IncidentLedger`, what is stored is never rewritten (`StoredIsFinal`), and once failures cease every storable notice is stored (`SelfHealing`) |
| `pipeline_in_turn` | 1 notice without country, which Mapbox may place in either of 2 countries or nowhere, 1 run at a time, 2 request slots, 1 user who follows one of the countries, 2 copies of a message, 2 delivery attempts; lost answers and failed publishes of the job, failed queries, failed sends and crashes of the notifier, fairness | 266k | users are pushed what they asked for as the CMS shows it (`PushedIsWanted`), what is stored has reached a device of those who want it, is on its way or was stopped by a recorded failure (`StoredIsDelivered`, `StoredIsDeliveredInTheEnd`), and the two together implement `IncidentNotice` |
| `profile_calls` | 1 user, 2 call slots, 2 countries, 2 tokens of which one is dead, all faults | 282k | `TogglesAddUp`, `RegisteredStays`, `NotFoundMeansErased`, and that the service implements `ProfileStore` |
| `profile_retry` | one slot, a read may fail | violation | `RetriesAreHarmless`, see 5 |
| `cms_migrate` | 2 overlapping versions that disagree about a field, a third with an invalid definition, 1 edit at the console, all faults, fairness | 160k | `SuccessEnsures`, `DriftIsReported`, `ClaimedOnce`, that the job implements `SchemaStore`, and that repeating it succeeds once mishaps cease (`Converges`) |
| `safety_queries` | 4 incidents in 2 countries arriving anywhere, limits 0, 1 and 4, default page 2, largest page 3, 1 item unreadable now and then, fairness; the palette for all counts up to 20 | 89k | `NothingSkipped`, `RepeatsBounded`, `WalkEnds`, `NearestAreShown`, and that the shade of a country is its share of the busiest one in fifths, rounded up (`ShadesFollowCounts`) |
| `outbound_calls` | 2 workers, delays of 4 ticks (slept: 3 to 5) and of 8 cut to 5 by the cap (slept: 4 to 6), buckets of 2 tokens at different rates, windows of up to 2 ticks, every failure and SIGTERM | 4.0M | calls keep to the rate and requests to three per call begun or under way (`RequestsPaced`); a repeated call fails for a transient reason only after all attempts, with three quarters of the full back-off slept between them (`OutlastsBlips`); a worker implements `IngestRow`: a write whose answer is lost is not sent again |
| `server_lifecycle` | either program, 2 HTTP/1 clients and 1 that speaks HTTP/2, production, all faults, SIGTERM and SIGKILL anywhere, fairness | 962k | the drain abandons no HTTP/1 request before the grace period is over (`CutOnlyWhenOverdue`), codes and texts of the answers are true (`AnswersTellTheTruth`), SIGTERM ends the process (`StopsAfterSigterm`) |
| `server_panic` | 1 HTTP/1 client, a handler may panic | violation | `PanicIsInternal`, see 5 |

**Bounds, and why they are enough.** The safety properties are about pairs: two
pushes of one event, two runs that race for one key, two calls of one user, two
versions that create one field. Two actors and one contested object, with a second,
uncontested one where indices could be confused, contain every such interleaving;
the proofs of section 4 remove the bound for most of them.

- Notifier: `MaxAttempts` is 2 (5 in Terraform): the second push already meets
  everything the first left behind, and further ones meet the same. One message is
  enough, since it may be pushed again while its first push is under way or after it; a
  second message of the event whose marker has been reaped claims it anew, which
  is left to the theorems. `Concurrency` is 2, so that two goroutines are between the
  reading and the writing of one result if nothing keeps them apart.
- Ingestion: in one feed MOFA lists a key once, so rows have keys of their own;
  contention comes from the second run. Three rows in turn make all counters
  differ.
- Pipeline: job and notifier meet at one event of one notice, whose country is the
  field that either side may get wrong; what several notices, users and overlapping
  requests do to each other inside a part is the business of that part's runs. The
  faults are those that leave a trace on the other side: an item whose answer got
  lost, an event that was not published, a claimed event that is not sent, a send that
  fails. The ack deadline is left to `notifier_delivery` and to the theorems, because
  with it the instance has too many states to explore. Overlapping
  runs are the theorems' business (section 4).
- Profiles: one user, because documents do not interact; two countries, because a
  toggle of one must not disturb the other; one slot more would only add calls that
  overlap with both.
- CmsMigrate: `MaxEdits` 1 lets an operator create, alter or delete any one thing at
  any moment.
- SafetyQueries: `MaxCounted` 20 bounds the counts the palette is checked for, enough
  for each of its five boundaries to be hit exactly and missed by one on several scales;
  four incidents make walks of up to four pages, the three limits
  give a page size that is the default, smaller than the listing, and clipped;
  `MaxCursor` 5 is never reached by the code (it stops the runaway variant only).
- Outbound: `Initial` 4 and `Ceiling` 5 make each sleep one of three lengths, let the
  cap cut the second delay, and put the shortest pair of sleeps (3 and 4 ticks) on the
  bound of three quarters of 9. Two workers contend for the last token of a bucket; a
  window of two ticks
  sees the bucket empty and refilled, calls of both workers and retries inside them;
  longer windows, other policies, rates and numbers of workers are the theorems'
  business. `MaxWindow` bounds only how long one watch lasts: a new one may begin at any
  time.
- Server: two HTTP/1 clients let one connection be idle, new or late while the other
  carries a request; a client makes any number of connections and requests.

Symmetry is used in safety runs only: call slots and countries in `profile_calls`,
workers in `outbound_calls`.

The type invariants are theorems (`TypeCorrect`, `TypesHold`), for every value of the
constants; no run repeats them.

**Fairness.**
- `Notifier`: a request that runs gets on (each handler's steps together), and Pub/Sub
  pushes or dead-letters what it holds. Publishing, crashes, late answers, devices and
  the TTL are not fair.
- `Ingestion`: the scheduler keeps starting runs (it fires every five minutes), and a
  run that is under way makes progress. Nothing says that a call succeeds:
  `SelfHealing` has "failures cease" as its premise.
- `Pipeline`: a run that is under way, a request that is under way and the subscription
  make progress. Unlike in `Ingestion` nothing says that the scheduler starts another
  run: what is stored was stored by a run under way, and no later one would help it.
- `CmsMigrate`: a run makes progress, and operators repeat a run that failed, as
  `src/README.md:129` tells them to ("修正後に同コマンドで再実行（冪等）"). `Converges` has as its
  premise that calls no longer fail and nobody is at the console.
- `SafetyQueries`: a user who stays on the list scrolls on, and a page that can be read
  is answered in the end. `WalkEnds` assumes that unreadable items get repaired.
- `Server`: the main goroutine gets on (`WF` of its steps together), and the deadline of
  `Shutdown` passes although its polling never stops (`SF` of `GraceOver`: a timer fires
  whatever the loop does). No handler, client or token verification is assumed to end.
- `UserProfile` and `Outbound` claim no liveness: every call ends by itself.

## 4. The proofs

Every theorem holds for all values of the constants that meet the named assumption of
its module (`NotifierAssumption`, `IngestionAssumption`, `UserProfileAssumption` with
`MissingAssumption`, `CmsMigrateAssumption`, `QueriesAssumption`, `OutboundAssumption`,
`ServerAssumption`, `PipelineAssumption`). The assumptions give
constants their types, make tokens, rows or incidents finite sets, and keep the
markers for "nothing" apart from values.

| Module | Theorems | The argument |
|---|---|---|
| `NotifierProofs` | `TypeCorrect`, `AtMostOnce`, `Accounted`, `OnlySubscribersPushed`, `OtherFailuresAreRetried`, `LiveTokensSafe`, `Refinement`, `CountersAddUp` | The marker is a lock that is never given back. `Claims`, the inductive invariant, says that a key has one claimant (`OneClaimant`), that it started with no push made (`MarkerFirst`, `FreshClaim`), that its goroutines record exactly the pushes made (`TaskMatchesPushes`), and that with no claimant left either one failed or FCM was called for all of them (`ClaimSettled`). `NoDoublePush` alone is not inductive: it needs that nobody else holds a goroutine for that user. The counters always add up to the tokens of the users whose goroutine is done (`Tally`); token lists of two users are disjoint (`Owned`), so each goroutine adds tokens that nobody has counted, and the one goroutine that holds the mutex has read the result as it still is (`Locked`). `Reach` follows those who expect an event through the request: a token FCM accepts is never removed (`LiveListed`), so whoever expects the event was among the resolved (`ExpectedResolved`), and tasks and pushes are of subscribers only (`TaskCovered`, `PushedCovered`). The list read for him holds a live token (`SnapListed`), so his fate is "reached" or "failed", never "gone" (`GoneIsUnreachable`): that is how `Accounted` tells a delivered event from one that was only tried. `OtherFailuresAreRetried` is the boundary of the first finding of section 5: without the four faults in `Losing` (a commit whose answer is lost, a failed query, a crash, a late answer) what the documentation says of dedup and users failures is true. |
| `IngestionProofs` | `TypeCorrect`, `NothingForgotten`, `StoredBeforeAnnounced`, `CountersAddUp`, `NoSilentGap`, `DuplicatesAreBounded`, and for runs in turn `LedgerRefinement`, `NeverRewritten`, `OneItemInTurn` | A row about to publish has its item in the CMS (`WrittenFirst`), with any overlap. In turn, the answer of `Exists` stays true while it is relied on (`StillAbsent`), so `Find` finds nothing, `Update` is never taken, and an item is created and announced once. `LedgerRefinement`, `NeverRewritten` and `OneItemInTurn` (the documentation's "N times the same XML, one item") assume `InTurn` (no overlap, distinct keys), stated in them. What a run fetched is what it has counted plus its unsettled rows, and the settled rows whose key is not in the CMS are at most its failures (`Balanced`), because items never leave the CMS. Every item of a key and every run about to post one is charged to a run of its own (`Charged`): a search that finds nothing proves that no item was charged yet. That theorem assumes finitely many runs and distinct keys (`ListedOnce`). |
| `UserProfileProofs` | `TypeCorrect`, `NewUsersAreServed`, `RegistrationsStay`, `StoreRefinement`, `TogglesCorrect`, `HarmlessWithoutEffect` | A call that created its document finds it unless it was erased (`CreatedOrErased`). A toggle that is not in doubt is the only one of its country (`Sole`), what it read is still true when it writes, and it carries the profile from "one tap behind" to "as wanted" (`OnItsWay`). `HarmlessWithoutEffect` is the boundary of the second finding of section 5: for calls in turn, repeating is harmless if a call that failed did nothing (`NoDoubt`: no toggle is ever in doubt then). |
| `PipelineProofs` | `JobPart`, `ServicePart`, `OnePushPerIncident`, `WhatIsPushedIsStored`, `NoticeRefinement`, and for runs in turn `WhatIsPushedIsWanted`, `WhatIsStoredIsDelivered` | The two projections: the pipeline implements `Ingestion` (`JobPart`) and `Notifier` (`ServicePart`), so that everything proved of a part holds of the whole. What joins them is that an event is on the topic if and only if the job announced it (`Topic`), and a push needs a message, so it follows a stored item. In turn, every message carries the country of the item as stored (`AsStored`): what was announced is never rewritten. `WhatIsStoredIsDelivered` then chains the accounts of the parts, the job's (`StoredAccountedFor`) and the notifier's (`AckedAccountedFor`), over the topic. |
| `CmsMigrateProofs` | `TypeCorrect`, `SuccessHolds`, `DriftHolds`, `ClaimsHold`, `StoreImplemented` | A run that stands at a position has behind it only resources that exist and fields whose drift it has warned of exactly (`WalkInv`); a resource a run claims is in the CMS unless an operator touched it, so no other run can create it too (`Claims`). |
| `SafetyQueriesProofs` | `TypeCorrect`, `WalkComplete`, `RepeatsAreArrivals`, `ShadesHold`, `Palette`, `NearestHolds` | While a walk is open, the places before its next page hold only incidents it has shown or that arrived meanwhile (`WalkInv`), and there are as many of the latter in the listing as there were arrivals; an insertion in front pushes shown incidents back, never unshown ones forward. The palette is a closed form (shares in fifths, rounded up) for every count and scale. |
| `OutboundProofs` | `TypesHold`, `BlipsOutlasted`, `RequestsArePaced`, `RowRefinement` | Where a worker is in a call fixes its attempts, its next delay and, counting what is left of the sleep, a lower bound on what it has slept (`InStep`). The bucket pays for the calls of a window (`Inv`). For the requests, each worker owes at most the attempts left in its call (`Paid`), and starting another call costs an admission; the sum over the workers is taken by counting the workers that are at least one, two or three attempts in. For `RowRefinement` a write never comes to a second attempt (`Rows`): it is never asleep, and its first request is its only one. |
| `ServerProofs` | `TypesHold`, `DrainIsKept`, `AnswersAreTrue` | A request in flight has an active or a hijacked connection, and `main` leaves the drain for the closing only when no active one is left, the grace period is over, or the listener had failed (`Inv`). An answer keeps the cause it was made from, and code and text are functions of it. |

What is only model-checked: everything under fairness (`MessagesSettle`,
`ReachesSubscribers`, `StoredIsDeliveredInTheEnd`, `AnnouncedInTheEnd`, `SelfHealing`, `Converges`, `WalkEnds`,
`StopsAfterSigterm`), which is out of this prover's reach. Every other invariant and
action property of the passing runs is also a theorem. The two theorems named
boundaries state a property that a run refutes, under the assumption that the faults
responsible do not happen: nothing else breaks the documentation's promise.

Overlap is allowed in every theorem about the job and the pipeline that does not name
`InTurn`. `WhatIsPushedIsWanted` and `WhatIsStoredIsDelivered` need it: with overlap TLC
finds a second run whose geocoding replaces the country that the first one announced,
so that those who were pushed and those who want the incident as stored differ.

## 5. Where the code and its documentation disagree

Each of the first three has a run whose counterexample shows it; `PROJECT.json` quotes
both sides.

1. **A transient failure loses the event** (`notifier_lost_event`). The marker is
   committed before the subscribers are resolved
   (`notification/application/deliver_usecase.go:137,154`). When the query then fails the
   answer is 500, but the redelivered message finds the marker and is acknowledged.
   The handler's comments promise that Pub/Sub retries.
2. **Retrying a toggle undoes it** (`profile_retry`). The RPC toggles and then reads; if
   only the read fails, a retry flips the country back. `user/domain/ports.go:6-8` says
   that mutations are idempotent.
3. **A panic's text reaches the client** (`server_panic`). `RecoverInterceptor` is the
   outermost interceptor, so the error it makes of a panic
   (`platform/observability/recovery.go:27`) never passes the error interceptor: connect
   sends it as `unknown`, with its text, in production too. `recovery.go:13-15` says that
   clients receive a CodeInternal, `src/cmd/bff/main.go:167-168` that a panic surfaces as a
   clean KindInternal, and `interfaces/rpc/error_interceptor.go:16-18` that such texts are
   masked. `AnswersTellTheTruth` claims of a panic only that it is no success.

Others were met while reading; no run is spent on them. Several are visible in
the models all the same: the properties that would state the documentation's view are
weakened to what holds, as noted.

- **Overlapping runs register a notice twice.** The upsert is a search and a POST
  (`platform/cmsx/item.go:124-131`); the design documents call it idempotent and overlap
  harmless. `OneItemPerKey` is proved for runs in turn (`OneItemInTurn`) and fails
  otherwise; `DuplicatesBounded` states what is left.
- **Notifications have no title.** The publisher sends neither `title` nor `lead`
  (`eventbus/publisher.go:40-46,66-72`), which the decoder reads
  (`pubsub_envelope.go:65-66`), so that every push has an empty title and the fallback
  text as its body (`deliver_usecase.go:241,301-306`); `U-NTF/build-and-test/runbook.md:146`
  expects both. The texts are not modelled.
- **A lost answer hides an announcement.** When a POST takes effect without an answer
  the row counts as `failed[upsert]` (`ingest_usecase.go:274-276`), every later run skips
  it, and its event is never published. `src/README.md:195` says that failed rows stay
  unregistered. `StoredAccountedFor` counts it as a recorded cause.
- **HTTP/2 requests are cut at SIGTERM.** `Start` "drains in-flight requests up to
  ShutdownTimeout" (`platform/connectserver/server.go:91`, and the BFF's `runbook.md:29,265`
  promises an answer to RPCs in flight), but `h2c.NewHandler` takes HTTP/2 connections
  over, `Shutdown` does not know of them, and Cloud Run speaks h2c to this container
  (`src/terraform/modules/bff/main.tf:28-35`): such a request ends with the process.
  `CutOnlyWhenOverdue` leaves them out (`Hijacks`).
- **A late answer leaves users unsent for good.** When the ack deadline passes in
  mid-delivery the request's context is cancelled; the sends that are left fail, which is
  only logged (`deliver_usecase.go:249-261`, swallowed at `:223`), and the push that
  follows finds the marker and is acknowledged. `fate` records such a send as "failed":
  `AckedAccountedFor`, `ReachesSubscribers` and their counterparts of `Pipeline` name it
  as one of the reasons why a subscriber is not reached.
- **A delivered event may have reached nobody.** "OutcomeDelivered means the event reached
  at least one subscriber" (`notification/application/result.go:12-13`): `Execute` returns
  it whenever somebody was resolved, whether or not a single send succeeded.
  `ResultAccounts` says what the counters still tell.
- **Retries are not admitted by the limiter.** `U-ING-design.md:547` says that production
  cannot meet Mapbox's 429 "in principle"; one admitted call may send three requests.
  `RequestsPaced` states the bound that holds.
- **Uniqueness is never sent.** `createFieldBody` has no unique flag
  (`platform/cmsx/schema.go:130-135`) and drift detection does not compare it;
  `schema_definition.go:44` says that the CMS enforces it. `Sent` models the loss.
- A verifier that cannot fetch its keys and a CMS that refuses the BFF's own token are
  both reported to the app as `unauthenticated` (`verifier.go:46-49`,
  `cmsx/schema.go:224-225`), as if the user had to sign in again.
- A drain that takes too long is said to log a warning (`runbook.md:267`); the BFF returns
  the error and exits with 1, only the notifier warns.
- `BatchResult.Transient` "left alone for Pub/Sub retry" (`batch_result.go:16-17`): a
  refused token is only counted, the answer is 200 and nothing retries it.
- A malformed push is answered 400, which "routes straight to the DLQ" according to
  `notifier_runner.go:24-25`; Pub/Sub repeats it up to `max_delivery_attempts` like any
  other failure. `notifier_delivery` models the repeats.
- `src/README.md:196` says a failed geocode always falls back to a centroid; a row
  without country that Mapbox misses is dropped (`geocode/chain.go:85`).
- The PATCH leaves empty values out (`platform/cmsx/item.go:141`), so a value can never be
  cleared, whereas `repository.go:59` speaks of an upsert of the whole item.
- Keyword filters are "best effort" and the caller "is responsible for re-filtering"
  (`item_read.go:27-31`); no caller does, and the aggregator says "inside the time
  window" (`crimemap/application/aggregator.go:33`).
- A GET that hits its own 30 s timeout is a `DeadlineExceeded` and is not repeated
  (`retry.go:43`), although `schema.go:197` calls such failures transient.
- `U-BFF-design.md:587` describes the toggle as a race-free transaction; it is a Get and
  an Update (`user/infrastructure/firestore/profile_repo.go:116`), so two toggles of one
  country at once may cancel out or count once. `TogglesAddUp` leaves them out.

## 6. What is not modelled, and why

- **Data.** Prompts, scores, distances, coordinates, message texts and field values
  beyond those a property compares. `Distance` is a constant function, so the
  Haversine formula is trusted. The alias syntax (rule R1) is data as well.
- **`Get` and the GeoJSON export** are one GET each, with no state or order to get
  wrong; the time window of the maps is a keyword whose effect belongs to the CMS.
- **Operators deleting projects, models or items**, and a CMS listing that reorders
  when an item is edited: the former is outside what the jobs are meant to survive,
  the latter would void any promise of page numbers.
- **Inside the other modules, retries and rate limits** are abstracted: a call may fail
  after its retries, however many there were, and the limiter admits a call at any
  time. `Outbound` has the detail for the ingestion job, and `RowRefinement` is why the
  abstraction is right; the BFF and the migration job
  use the same `retry.Do` without a limiter. `Limiter.Allow` has no caller.
- **Health endpoints**: `/healthz` and `/readyz` change nothing, and the probers behind
  `/readyz` are stubs that always succeed (`cmsx/client.go:69`, `firebasex/app.go:133`).
- **Read and write timeouts of the HTTP server, a client that disconnects while its
  request is handled**: the answer is lost and the handler's context may be cancelled;
  the component modules have lost answers and failing calls of their own.
- **Firebase client cache**: both services resolve their clients at start-up and exit
  when that fails, so the error that `sync.Once` remembers is never served; `Server` has
  the order of construction and the closing.
- **Observability, configuration, generated code, Terraform** (other than the
  subscription and the TTL): they hold no state the models branch on.

## 7. Plan

Done, in the order of importance: the notifier, the ingestion job, the profiles, the
migration job, the queries and maps, the outbound calls, the servers, each with its
runs and theorems, and the ingestion job and the notifier composed over their topic.

Next: an abstract reading of `SafetyQueries` (a finished walk is a snapshot plus
arrivals) and its refinement, and the safety kernels of the liveness properties: which
step each waits for, and that the step is not undone.

Questions that concern the same component share a run, so that the list of runs stays
short enough to repeat in full.
