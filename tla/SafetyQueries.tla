--------------------------- MODULE SafetyQueries ----------------------------
(***************************************************************************)
(* The reading side of the BFF: the list (or search) an app walks page by  *)
(* page, the choropleth, the heatmap and the proximity query.  All of them *)
(* are single GETs to the CMS, whose answer is a page of a listing that    *)
(* the ingestion job keeps adding to; the cursor handed to the app is a    *)
(* page number and nothing else.                                           *)
(*                                                                         *)
(* An instance is about one filter: Items are the incidents the keyword    *)
(* search finds for it, as they arrive.  A GET that fails after its        *)
(* retries changes nothing here and the app asks again with the cursor it  *)
(* has, so a failure is a stuttering step.  The app has one screen at a     *)
(* time: opening a map leaves the list.                                    *)
(***************************************************************************)
EXTENDS Integers, SequencesExt

CONSTANTS
  Items,           (* the incidents that match the filter                    *)
  Country,         (* [Items -> countries, or NoCountry]                     *)
  NoCountry,       (* the empty country_cd                                   *)
  Named,           (* the items whose country_name is not empty              *)
  Centroid,        (* the items located at the centroid of their country     *)
  Distance,        (* [Items -> distance from the centre of ListNearby]      *)
  Radius,          (* radius_km of ListNearby                                *)
  Limits,          (* the limits an app sends (0: none)                      *)
  DefaultPerPage,  (* the page size of the CMS when none is asked for        *)
  MaxPerPage,      (* the largest page it serves                             *)
  AggregationCap,  (* the limit of Choropleth and Heatmap (10000)            *)
  NearbyFetchCap,  (* the page ListNearby filters (1000)                     *)
  MaxBroken,       (* bound: items unreadable at once                        *)
  MaxCursor,       (* bound: the last page an app asks for                   *)
  MaxCounted       (* bound: the counts the palette is compared on           *)

Countries == {Country[i] : i \in Items} \ {NoCountry}

ASSUME QueriesAssumption ==
  /\ IsFiniteSet(Items)
  /\ Named \subseteq Items
  /\ Centroid \subseteq Items
  /\ Distance \in [Items -> Nat]
  /\ Radius \in Nat
  /\ Limits \subseteq Nat
  /\ DefaultPerPage \in Nat \ {0}
  /\ MaxPerPage \in Nat \ {0}
  /\ AggregationCap \in Nat \ {0}
  /\ NearbyFetchCap \in Nat \ {0}
  /\ MaxCounted \in Nat

VARIABLES
  store,   (* the listing of the CMS, in its order                           *)
  broken,  (* the items fromFields rejects (edited at the console)           *)
  walk,    (* the list screen: what it asked, its cursor, what it has shown  *)
  view     (* the last map answered: a choropleth, a heatmap or neighbours   *)

vars == <<store, broken, walk, view>>

NoWalk ==
  [status |-> "none", limit |-> 0, cursor |-> 0, seen |-> <<>>,
   listed |-> {}, arrivals |-> 0]

NoView == [kind |-> "none"]

Init ==
  /\ store = <<>>
  /\ broken = {}
  /\ walk = NoWalk
  /\ view = NoView

-----------------------------------------------------------------------------
(* One GET of the listing. *)

(* The page size the CMS answers with; it need not be the one asked for.    *)
PerPage(limit) ==
  LET asked == IF limit = 0 THEN DefaultPerPage ELSE limit IN
  IF asked <= MaxPerPage THEN asked ELSE MaxPerPage

(* Variant: the cursor does not parse and the first page is served. *)
PageOfFirst(cursor) == 1

(* The empty cursor, 0 here, stands for page 1. *)
PageOf(cursor) == IF cursor > 0 THEN cursor ELSE 1

(* The rows of a page. *)
Page(page, perPage) ==
  LET last == page * perPage IN
  SubSeq(store, (page - 1) * perPage + 1, IF last <= Len(store) THEN last ELSE Len(store))

(* Variant: the end is computed from the page size asked for. *)
NextCursorAsked(page, limit) ==
  IF page * limit < Len(store) THEN page + 1 ELSE 0

(* Variant: a page with items behind it, or not, is followed by another.    *)
NextCursorAlways(page, limit) == IF store # <<>> THEN page + 1 ELSE 0

(* The cursor is empty when the answer's page reaches totalCount. *)
NextCursor(page, limit) ==
  IF page * PerPage(limit) < Len(store) THEN page + 1 ELSE 0

(* One item that does not decode fails the whole page. *)
Readable(page) == ToSet(page) \cap broken = {}

-----------------------------------------------------------------------------
(* The list screen. *)

Open(limit) ==
  /\ walk.status # "open"
  /\ walk' = [NoWalk EXCEPT !.status = "open", !.limit = limit, !.listed = ToSet(store)]
  /\ view' = NoView
  /\ UNCHANGED <<store, broken>>

(* ListSafetyIncidents or SearchSafetyIncidents with the cursor of the      *)
(* previous answer.                                                         *)
NextPage ==
  /\ walk.status = "open"
  /\ walk.cursor <= MaxCursor
  /\ LET page == PageOf(walk.cursor)
         rows == Page(page, PerPage(walk.limit))
         next == NextCursor(page, walk.limit)
     IN /\ Readable(rows)
        /\ walk' = [walk EXCEPT !.seen = @ \o rows,
                                !.cursor = next,
                                !.status = IF next = 0 THEN "ended" ELSE "open"]
  /\ UNCHANGED <<store, broken, view>>

(* The user leaves the screen. *)
Close ==
  /\ walk.status # "none"
  /\ walk' = NoWalk
  /\ UNCHANGED <<store, broken, view>>

-----------------------------------------------------------------------------
(* The maps. *)

(* The rows that can be displayed under a country. *)
Labelled(rows) ==
  {j \in DOMAIN rows : Country[rows[j]] # NoCountry /\ rows[j] \in Named}

Count(rows, country) == Cardinality({j \in Labelled(rows) : Country[rows[j]] = country})

MaxCount(rows) == Max({Count(rows, c) : c \in Countries} \cup {0})

(* Variant: a count on a boundary falls into the next bucket. *)
ColorFromShare(count, max) ==
  IF count = 0 \/ max = 0 THEN 0
  ELSE IF count = max THEN 5
  ELSE (5 * count) \div max + 1

(* The palette by rank: 0 is the grey of an empty map, 5 the darkest red.   *)
ColorFromCount(count, max) ==
  IF count = 0 \/ max = 0 THEN 0
  ELSE IF count * 5 <= max THEN 1
  ELSE IF count * 5 <= max * 2 THEN 2
  ELSE IF count * 5 <= max * 3 THEN 3
  ELSE IF count * 5 <= max * 4 THEN 4
  ELSE 5

Choropleth ==
  LET rows == Page(1, PerPage(AggregationCap))
      shown == {Country[rows[j]] : j \in Labelled(rows)}
  IN
  /\ Readable(rows)
  /\ view' = [kind |-> "choropleth",
              cells |-> {[country |-> c, count |-> Count(rows, c),
                          color |-> ColorFromCount(Count(rows, c), MaxCount(rows))] : c \in shown},
              total |-> Len(rows)]
  /\ walk' = NoWalk
  /\ UNCHANGED <<store, broken>>

Heatmap ==
  LET rows == Page(1, PerPage(AggregationCap)) IN
  /\ Readable(rows)
  /\ view' = [kind |-> "heatmap",
              points |-> ToSet(rows) \ Centroid,
              excluded |-> Cardinality({j \in DOMAIN rows : rows[j] \in Centroid})]
  /\ walk' = NoWalk
  /\ UNCHANGED <<store, broken>>

(* The orders sort.Slice may leave the hits in: equal distances come in any *)
(* order.                                                                   *)
Rankings(hits) ==
  {s \in [1 .. Cardinality(hits) -> hits] :
     /\ ToSet(s) = hits
     /\ \A j, k \in DOMAIN s : j < k => Distance[s[j]] <= Distance[s[k]]}

(* Variant: the page is cut, then filtered. *)
HitsOfHead(rows, limit) ==
  {i \in ToSet(SubSeq(rows, 1, IF limit <= Len(rows) THEN limit ELSE Len(rows))) :
     Distance[i] <= Radius}

Hits(rows, limit) == {i \in ToSet(rows) : Distance[i] <= Radius}

ListNearby(limit) ==
  LET rows == Page(1, PerPage(NearbyFetchCap)) IN
  /\ Radius > 0 /\ limit > 0
  /\ Readable(rows)
  /\ \E ranked \in Rankings(Hits(rows, limit)) :
       view' = [kind |-> "nearby", limit |-> limit, corpus |-> ToSet(store),
                near |-> SubSeq(ranked, 1, IF limit <= Len(ranked) THEN limit ELSE Len(ranked))]
  /\ walk' = NoWalk
  /\ UNCHANGED <<store, broken>>

-----------------------------------------------------------------------------
(* The writers. *)

(* The ingestion job creates an item; where it lists is up to the CMS.      *)
Register(i, position) ==
  /\ i \notin ToSet(store)
  /\ store' = InsertAt(store, position, i)
  /\ walk' = IF walk.status = "open" THEN [walk EXCEPT !.arrivals = @ + 1] ELSE walk
  /\ UNCHANGED <<broken, view>>

(* An operator edits an item at the CMS console. *)
Break(i) ==
  /\ i \in ToSet(store) \ broken
  /\ Cardinality(broken) < MaxBroken
  /\ broken' = broken \cup {i}
  /\ UNCHANGED <<store, walk, view>>

Repair(i) ==
  /\ i \in broken
  /\ broken' = broken \ {i}
  /\ UNCHANGED <<store, walk, view>>

-----------------------------------------------------------------------------
Next ==
  \/ \E limit \in Limits : Open(limit) \/ ListNearby(limit)
  \/ NextPage
  \/ Close
  \/ Choropleth
  \/ Heatmap
  \/ \E i \in Items :
       \/ \E position \in 1 .. Len(store) + 1 : Register(i, position)
       \/ Break(i)
       \/ Repair(i)

Spec == Init /\ [][Next]_vars

(* A user who stays on the list scrolls on, and a readable page is answered *)
(* in the end.                                                              *)
FairSpec == Spec /\ WF_vars(NextPage)

-----------------------------------------------------------------------------
Shades == 0 .. 5

Cells == [country : Countries, count : Nat, color : Shades]

Walks ==
  [status : {"none", "open", "ended"}, limit : Limits \cup {0}, cursor : Nat,
   seen : Seq(Items), listed : SUBSET Items, arrivals : Nat]

(* The types of the state, and that a page never reaches outside the        *)
(* listing.                                                                 *)
TypeOK ==
  /\ store \in Seq(Items)
  /\ broken \subseteq ToSet(store)
  /\ walk \in Walks
  /\ view.kind \in {"none", "choropleth", "heatmap", "nearby"}
  /\ view.kind = "choropleth" => view.cells \subseteq Cells /\ view.total \in Nat
  /\ view.kind = "heatmap" => view.points \subseteq Items /\ view.excluded \in Nat
  /\ view.kind = "nearby" => view.near \in Seq(Items)

(* A walk that has ended has shown every incident that was listed when it   *)
(* began, wherever new ones were put meanwhile and whatever page size the   *)
(* CMS answered with: NextCursor is empty only "when the caller has walked  *)
(* the full page set" (item_read.go:48-49).                                 *)
NothingSkipped ==
  walk.status = "ended" => walk.listed \subseteq ToSet(walk.seen)

(* A walk shows an incident again only because of an arrival: page numbers  *)
(* drift by one place for each.                                             *)
RepeatsBounded ==
  Len(walk.seen) <= Cardinality(ToSet(walk.seen)) + walk.arrivals

(* Once the items are readable, and stay so, a user who scrolls on reaches  *)
(* the end (the CMS gains finitely many incidents), or leaves.              *)
WalkEnds ==
  <>[](broken = {}) => (walk.status = "open" ~> walk.status # "open")

(* count takes s fifths of max, rounded up. *)
IsShade(s, count, max) ==
  /\ 5 * count <= max * s
  /\ s > 0 => max * (s - 1) < 5 * count

PaletteRoundsUp ==
  \A max \in 1 .. MaxCounted : \A count \in 0 .. max :
    IsShade(ColorFromCount(count, max), count, max)

(* The choropleth's shades are its counts' shares of the busiest country it *)
(* shows, in fifths rounded up: a count of exactly four fifths is not yet   *)
(* the darkest red, one more is, and no country that is shown is grey       *)
(* ("shades are normalised relative to the busiest country", color.go:4-5). *)
(* The counts a page of this size can have miss the boundaries, so the      *)
(* palette is compared on all counts up to MaxCounted as well.              *)
ShadesFollowCounts ==
  /\ PaletteRoundsUp
  /\ view.kind = "choropleth" =>
       \A a \in view.cells :
         /\ a.color > 0
         /\ \E busiest \in view.cells :
              /\ \A b \in view.cells : b.count <= busiest.count
              /\ IsShade(a.color, a.count, busiest.count)

(* ListNearby answers with the nearest incidents there are, as long as the  *)
(* corpus fits the page it filters: one that is left out lies outside the   *)
(* radius, or the answer is full and none of it is farther away.            *)
NearestAreShown ==
  view.kind = "nearby" /\ Cardinality(view.corpus) <= PerPage(NearbyFetchCap) =>
    \A i \in view.corpus \ ToSet(view.near) :
      \/ Distance[i] > Radius
      \/ /\ Len(view.near) = view.limit
         /\ \A shown \in ToSet(view.near) : Distance[shown] <= Distance[i]
=============================================================================
