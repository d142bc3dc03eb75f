------------------------- MODULE SafetyQueriesProofs ------------------------
(***************************************************************************)
(* Theorems about SafetyQueries, for any incidents, page sizes, limits and *)
(* order in which the CMS lists what arrives.                              *)
(***************************************************************************)
EXTENDS SafetyQueries, FiniteSetTheorems, SequenceTheorems,
        WellFoundedInduction, TLAPS

USE QueriesAssumption

-----------------------------------------------------------------------------
(* Sequences and their elements. *)

LEMMA Elements ==
  ASSUME NEW S, NEW s \in Seq(S)
  PROVE  /\ Len(s) \in Nat
         /\ DOMAIN s = 1 .. Len(s)
         /\ ToSet(s) = {s[j] : j \in 1 .. Len(s)}
         /\ ToSet(s) \subseteq S
BY LenProperties DEF ToSet

(* A sequence without repetition has as many elements as places. *)
LEMMA DistinctCount ==
  ASSUME NEW S, NEW s \in Seq(S), NEW n \in 0 .. Len(s),
         \A j, k \in 1 .. Len(s) : s[j] = s[k] => j = k,
         NEW T, \A x : x \in T <=> \E j \in 1 .. n : s[j] = x
  PROVE  IsFiniteSet(T) /\ Cardinality(T) = n
<1> DEFINE f == [j \in 1 .. n |-> s[j]]
<1>1. Len(s) \in Nat /\ n \in Nat
  BY Elements
<1>2. f \in Surjection(1 .. n, T)
  BY DEF Surjection
<1>3. IsFiniteSet(1 .. n) /\ Cardinality(1 .. n) = n
  BY <1>1, FS_Interval
<1>4. f \in [1 .. n -> T]
  BY <1>2 DEF Surjection
<1>5. IsInjective(f)
  BY <1>1 DEF IsInjective
<1>6. f \in Injection(1 .. n, T)
  BY <1>4, <1>5 DEF Injection
<1>7. IsFiniteSet(T) /\ Cardinality(T) = Cardinality(1 .. n)
  BY <1>2, <1>3, <1>6, FS_Surjection
<1>. QED
  BY <1>3, <1>7

(* Inserting an element moves those behind it by one place. *)
LEMMA Inserted ==
  ASSUME NEW S, NEW s \in Seq(S), NEW e \in S, NEW p \in 1 .. Len(s) + 1
  PROVE  LET t == InsertAt(s, p, e) IN
         /\ t \in Seq(S)
         /\ Len(t) = Len(s) + 1
         /\ \A j \in 1 .. Len(t) :
              t[j] = IF j < p THEN s[j] ELSE IF j = p THEN e ELSE s[j - 1]
         /\ ToSet(t) = ToSet(s) \cup {e}
<1> DEFINE front == SubSeq(s, 1, p - 1)
           back == SubSeq(s, p, Len(s))
           mid == front \o <<e>>
           t == InsertAt(s, p, e)
<1>1. Len(s) \in Nat /\ \A j \in 1 .. Len(s) : s[j] \in S
  BY Elements
<1>2. /\ front \in Seq(S)
      /\ Len(front) = p - 1
      /\ \A j \in 1 .. p - 1 : front[j] = s[j]
  BY <1>1, SubSeqProperties
<1>3. /\ back \in Seq(S)
      /\ Len(back) = Len(s) + 1 - p
      /\ \A j \in 1 .. Len(s) + 1 - p : back[j] = s[p + j - 1]
  BY <1>1, SubSeqProperties
<1>4. <<e>> \in Seq(S) /\ Len(<<e>>) = 1 /\ <<e>>[1] = e
  OBVIOUS
<1>5. /\ mid \in Seq(S)
      /\ Len(mid) = p
      /\ \A j \in 1 .. p : mid[j] = IF j < p THEN s[j] ELSE e
  <2>1. /\ mid \in Seq(S)
        /\ Len(mid) = Len(front) + 1
        /\ \A j \in 1 .. Len(front) + 1 :
             mid[j] = IF j <= Len(front) THEN front[j] ELSE <<e>>[j - Len(front)]
    BY <1>2, <1>4, ConcatProperties
  <2>. QED
    BY <1>1, <1>2, <1>4, <2>1
<1>6. t = mid \o back
  BY DEF InsertAt
<1> HIDE DEF front, back, mid, t
<1>7. /\ t \in Seq(S)
      /\ Len(t) = Len(mid) + Len(back)
      /\ \A j \in 1 .. Len(mid) + Len(back) :
           t[j] = IF j <= Len(mid) THEN mid[j] ELSE back[j - Len(mid)]
  BY <1>3, <1>5, <1>6, ConcatProperties
<1>8. Len(t) = Len(s) + 1
  BY <1>1, <1>3, <1>5, <1>7
<1>9. \A j \in 1 .. Len(t) :
        t[j] = IF j < p THEN s[j] ELSE IF j = p THEN e ELSE s[j - 1]
  <2> SUFFICES ASSUME NEW j \in 1 .. Len(t)
               PROVE  t[j] = IF j < p THEN s[j] ELSE IF j = p THEN e ELSE s[j - 1]
    OBVIOUS
  <2>1. CASE j <= p
    BY <1>1, <1>3, <1>5, <1>7, <1>8, <2>1
  <2>2. CASE j > p
    <3>1. t[j] = back[j - p] /\ j - p \in 1 .. Len(s) + 1 - p
      BY <1>1, <1>3, <1>5, <1>7, <1>8, <2>2
    <3>2. t[j] = s[p + (j - p) - 1]
      BY <1>3, <3>1
    <3>3. p + (j - p) - 1 = j - 1
      BY <1>1, <1>8
    <3>. QED
      BY <2>2, <3>2, <3>3, <1>1, <1>8
  <2>. QED
    BY <2>1, <2>2, <1>1, <1>8
<1>10. ToSet(t) = ToSet(s) \cup {e}
  <2>1. ToSet(t) = {t[j] : j \in 1 .. Len(t)} /\ ToSet(s) = {s[j] : j \in 1 .. Len(s)}
    BY <1>7, Elements
  <2>2. ToSet(t) \subseteq ToSet(s) \cup {e}
    <3> SUFFICES ASSUME NEW j \in 1 .. Len(t) PROVE t[j] \in ToSet(s) \cup {e}
      BY <2>1
    <3>. QED
      BY <1>1, <1>8, <1>9, <2>1
  <2>3. e \in ToSet(t)
    <3>1. p \in 1 .. Len(t) /\ t[p] = e
      BY <1>1, <1>8, <1>9
    <3>. QED
      BY <2>1, <3>1
  <2>4. ToSet(s) \subseteq ToSet(t)
    <3> SUFFICES ASSUME NEW j \in 1 .. Len(s) PROVE s[j] \in ToSet(t)
      BY <2>1
    <3>1. CASE j < p
      <4>1. j \in 1 .. Len(t) /\ t[j] = s[j]
        BY <1>1, <1>8, <1>9, <3>1
      <4>. QED
        BY <2>1, <4>1
    <3>2. CASE j >= p
      <4>1. j + 1 \in 1 .. Len(t)
        BY <1>1, <1>8
      <4>2. t[j + 1] = s[j + 1 - 1] /\ j + 1 - 1 = j
        BY <1>1, <1>9, <3>2, <4>1
      <4>. QED
        BY <2>1, <4>1, <4>2
    <3>. QED
      BY <3>1, <3>2, <1>1
  <2>. QED
    BY <2>2, <2>3, <2>4
<1>. QED
  BY <1>7, <1>8, <1>9, <1>10 DEF t

(* The first places of a sequence. *)
LEMMA Prefix ==
  ASSUME NEW S, NEW s \in Seq(S), NEW n \in Nat
  PROVE  LET m == IF n <= Len(s) THEN n ELSE Len(s)
             t == SubSeq(s, 1, m)
         IN /\ t \in Seq(S)
            /\ Len(t) = m
            /\ \A j \in 1 .. m : t[j] = s[j]
<1>1. Len(s) \in Nat /\ \A j \in 1 .. Len(s) : s[j] \in S
  BY Elements
<1>. QED
  BY <1>1, SubSeqProperties

(* A bounded, non-empty set of numbers has a largest element. *)
LEMMA MaxExists ==
  ASSUME NEW S, S \subseteq Nat, S # {}, NEW n \in Nat, \A x \in S : x <= n
  PROVE  Max(S) \in S /\ \A x \in S : x <= Max(S)
<1> DEFINE Bounds == {b \in Nat : \A x \in S : x <= b}
<1>1. \E b \in Bounds : \A c \in Bounds : ~(c < b)
  <2>1. Bounds \subseteq Nat /\ Bounds # {}
    OBVIOUS
  <2>2. \E b \in Bounds : \A c \in Bounds : <<c, b>> \notin OpToRel(<, Nat)
    <3> HIDE DEF Bounds
    <3>. QED
      BY <2>1, WFMin, NatLessThanWellFounded
  <2>3. \A c, b \in Nat : c < b => <<c, b>> \in OpToRel(<, Nat)
    BY DEF OpToRel
  <2>. QED
    BY <2>1, <2>2, <2>3
<1>2. PICK b \in Bounds : \A c \in Bounds : ~(c < b)
  BY <1>1
<1>3. b \in S
  <2> SUFFICES ASSUME b \notin S PROVE FALSE
    OBVIOUS
  <2>1. \A x \in S : x <= b - 1
    OBVIOUS
  <2>2. PICK x \in S : TRUE
    OBVIOUS
  <2>3. b - 1 \in Nat
    BY <2>1, <2>2
  <2>. QED
    BY <1>2, <2>1, <2>3
<1>4. \E x \in S : \A y \in S : x >= y
  BY <1>3
<1>5. Max(S) \in S /\ \A y \in S : Max(S) >= y
  BY <1>4 DEF Max
<1>. QED
  BY <1>5

-----------------------------------------------------------------------------
(* One page of the listing. *)

LEMMA PageSize ==
  ASSUME NEW limit \in Nat
  PROVE  PerPage(limit) \in Nat \ {0}
BY DEF PerPage

LEMMA PageRows ==
  ASSUME store \in Seq(Items), NEW page \in Nat \ {0}, NEW pp \in Nat \ {0},
         (page - 1) * pp <= Len(store)
  PROVE  LET a == (page - 1) * pp
             m == IF page * pp <= Len(store) THEN page * pp ELSE Len(store)
             rows == Page(page, pp)
         IN /\ a \in Nat /\ m \in Nat
            /\ page * pp \in Nat
            /\ page * pp = a + pp
            /\ a <= m /\ m <= Len(store)
            /\ rows \in Seq(Items)
            /\ Len(rows) = m - a
            /\ \A j \in 1 .. m - a : rows[j] = store[a + j]
<1> DEFINE a == (page - 1) * pp
           b == page * pp
           m == IF b <= Len(store) THEN b ELSE Len(store)
<1>1. Len(store) \in Nat /\ \A j \in 1 .. Len(store) : store[j] \in Items
  BY Elements
<1>2. a \in Nat /\ b \in Nat /\ b = a + pp
  OBVIOUS
<1>3. Page(page, pp) = SubSeq(store, a + 1, m)
  BY DEF Page
<1> HIDE DEF a, b
<1>4. m \in Nat /\ a <= m /\ m <= Len(store)
  BY <1>1, <1>2 DEF a
<1>5. \A j \in a + 1 .. m : store[j] \in Items
  BY <1>1, <1>2, <1>4
<1> HIDE DEF m
<1>6. /\ SubSeq(store, a + 1, m) \in Seq(Items)
      /\ Len(SubSeq(store, a + 1, m)) = IF a + 1 <= m THEN m - (a + 1) + 1 ELSE 0
      /\ \A j \in 1 .. m - (a + 1) + 1 : SubSeq(store, a + 1, m)[j] = store[a + 1 + j - 1]
  BY <1>2, <1>4, <1>5, SubSeqProperties
<1>7. Len(SubSeq(store, a + 1, m)) = m - a
  BY <1>2, <1>4, <1>6
<1>8. \A j \in 1 .. m - a : SubSeq(store, a + 1, m)[j] = store[a + j]
  BY <1>2, <1>4, <1>6
<1>. QED
  BY <1>2, <1>3, <1>4, <1>6, <1>7, <1>8 DEF a, b, m

(* The first page. *)
LEMMA FirstPage ==
  ASSUME store \in Seq(Items), NEW limit \in Nat
  PROVE  LET rows == Page(1, PerPage(limit)) IN
         /\ rows \in Seq(Items)
         /\ Len(store) <= PerPage(limit) => ToSet(rows) = ToSet(store)
<1> DEFINE pp == PerPage(limit)
           rows == Page(1, pp)
<1>1. pp \in Nat \ {0}
  BY PageSize
<1> HIDE DEF pp
<1>2. Len(store) \in Nat
  BY Elements
<1>3. 0 * pp = 0 /\ 1 * pp = pp /\ 1 - 1 = 0
  BY <1>1
<1>4. /\ rows \in Seq(Items)
      /\ Len(rows) = IF pp <= Len(store) THEN pp ELSE Len(store)
      /\ \A j \in 1 .. Len(rows) : rows[j] = store[j]
  <2>1. (1 - 1) * pp <= Len(store)
    BY <1>2, <1>3
  <2> DEFINE m == IF 1 * pp <= Len(store) THEN 1 * pp ELSE Len(store)
  <2>2. /\ rows \in Seq(Items)
        /\ Len(rows) = m - (1 - 1) * pp
        /\ \A j \in 1 .. m - (1 - 1) * pp : rows[j] = store[(1 - 1) * pp + j]
    BY <1>1, <2>1, PageRows
  <2>. QED
    BY <1>1, <1>2, <1>3, <2>2
<1>5. ASSUME Len(store) <= pp PROVE ToSet(rows) = ToSet(store)
  <2>1. Len(rows) = Len(store)
    BY <1>1, <1>2, <1>4, <1>5
  <2>. QED
    BY <1>4, <2>1, Elements
<1>. QED
  BY <1>4, <1>5 DEF pp

-----------------------------------------------------------------------------
(* The maps. *)

(* The palette is the share of the busiest country in fifths, rounded up,   *)
(* for every count and every scale, on every boundary: "integer arithmetic  *)
(* keeps the split deterministic" (ColorFromCount, color.go:14-16).         *)
THEOREM Palette ==
  ASSUME NEW max \in Nat \ {0}, NEW count \in 0 .. max, NEW k \in Shades
  PROVE  /\ ColorFromCount(count, max) \in Shades
         /\ ColorFromCount(count, max) <= k <=> 5 * count <= max * k
<1>1. k \in {0, 1, 2, 3, 4, 5}
  BY DEF Shades
<1>2. CASE count = 0
  BY <1>1, <1>2 DEF ColorFromCount, Shades
<1>3. CASE count # 0
  <2> DEFINE color == ColorFromCount(count, max)
  <2>1. /\ count * 5 <= max => color = 1
        /\ ~(count * 5 <= max) /\ count * 5 <= max * 2 => color = 2
        /\ ~(count * 5 <= max * 2) /\ count * 5 <= max * 3 => color = 3
        /\ ~(count * 5 <= max * 3) /\ count * 5 <= max * 4 => color = 4
        /\ ~(count * 5 <= max * 4) => color = 5
    BY <1>3 DEF ColorFromCount
  <2> HIDE DEF color
  <2>2. color \in Shades /\ (color <= k <=> 5 * count <= max * k)
    BY <1>1, <1>3, <2>1 DEF Shades
  <2>. QED
    BY <2>2 DEF color
<1>. QED
  BY <1>2, <1>3

LEMMA Shaded ==
  ASSUME NEW max \in Nat \ {0}, NEW count \in 0 .. max
  PROVE  IsShade(ColorFromCount(count, max), count, max)
<1> DEFINE color == ColorFromCount(count, max)
<1>1. \A k \in Shades : color \in Shades /\ (color <= k <=> 5 * count <= max * k)
  BY Palette
<1>2. color \in {0, 1, 2, 3, 4, 5}
  BY <1>1 DEF Shades
<1> HIDE DEF color
<1>3. 5 * count <= max * color
  BY <1>1, <1>2 DEF Shades
<1>4. ASSUME color > 0 PROVE max * (color - 1) < 5 * count
  <2>1. color - 1 \in Shades /\ ~(color <= color - 1)
    BY <1>2, <1>4 DEF Shades
  <2>2. ~(5 * count <= max * (color - 1))
    BY <1>1, <2>1
  <2>3. max * (color - 1) \in Int /\ 5 * count \in Int
    BY <1>2
  <2>. QED
    BY <2>2, <2>3
<1>. QED
  BY <1>3, <1>4 DEF IsShade, color

LEMMA EveryShade == PaletteRoundsUp
<1> SUFFICES ASSUME NEW max \in 1 .. MaxCounted, NEW count \in 0 .. max
             PROVE  IsShade(ColorFromCount(count, max), count, max)
  BY DEF PaletteRoundsUp
<1>1. max \in Nat \ {0}
  BY QueriesAssumption
<1>. QED
  BY <1>1, Shaded

LEMMA ColorType ==
  ASSUME NEW count, NEW max
  PROVE  ColorFromCount(count, max) \in Shades
BY DEF ColorFromCount, Shades

LEMMA Counting ==
  ASSUME NEW rows \in Seq(Items), NEW c
  PROVE  /\ Count(rows, c) \in 0 .. Len(rows)
         /\ Count(rows, c) # 0 <=> c \in {Country[rows[j]] : j \in Labelled(rows)}
<1> DEFINE J == {j \in Labelled(rows) : Country[rows[j]] = c}
<1>0. Len(rows) \in Nat
  BY Elements
<1>1. DOMAIN rows = 1 .. Len(rows) /\ Len(rows) \in Nat
  BY Elements
<1> DEFINE n == Len(rows)
<1>2. IsFiniteSet(1 .. Len(rows)) /\ Cardinality(1 .. Len(rows)) = Len(rows)
  <2>1. n \in Nat
    BY <1>0
  <2> HIDE DEF n
  <2>2. IsFiniteSet(1 .. n) /\ Cardinality(1 .. n) = n
    BY <2>1, FS_Interval
  <2>. QED
    BY <2>2 DEF n
<1>3. J \in SUBSET (1 .. Len(rows))
  BY <1>1 DEF Labelled
<1> HIDE DEF J
<1>4. IsFiniteSet(J) /\ Cardinality(J) <= Len(rows) /\ Cardinality(J) \in Nat
  BY <1>2, <1>3, FS_Subset, FS_CardinalityType
<1>5. Cardinality(J) = 0 <=> J = {}
  BY <1>4, FS_EmptySet
<1>6. Count(rows, c) = Cardinality(J)
  BY DEF Count, J
<1>7. J # {} <=> c \in {Country[rows[j]] : j \in Labelled(rows)}
  BY DEF J
<1>. QED
  BY <1>1, <1>4, <1>5, <1>6, <1>7

LEMMA Scale ==
  ASSUME NEW rows \in Seq(Items)
  PROVE  /\ MaxCount(rows) \in Nat
         /\ \A c \in Countries : Count(rows, c) <= MaxCount(rows)
         /\ MaxCount(rows) # 0 => \E c \in Countries : Count(rows, c) = MaxCount(rows)
<1> DEFINE S == {Count(rows, c) : c \in Countries} \cup {0}
<1>1. Len(rows) \in Nat
  BY Elements
<1>2. \A c \in Countries : Count(rows, c) \in 0 .. Len(rows)
  BY Counting
<1>3. S \subseteq Nat /\ S # {} /\ \A x \in S : x <= Len(rows)
  BY <1>1, <1>2
<1>4. Max(S) \in S /\ \A x \in S : x <= Max(S)
  <2> HIDE DEF S
  <2>. QED
    BY <1>1, <1>3, MaxExists
<1>5. MaxCount(rows) = Max(S)
  BY DEF MaxCount
<1>. QED
  BY <1>3, <1>4, <1>5

(* A choropleth that has been drawn is typed and shaded by its counts. *)
LEMMA ChoroplethDrawn ==
  ASSUME NEW rows \in Seq(Items)
  PROVE  LET max == MaxCount(rows)
             cells == {[country |-> c, count |-> Count(rows, c),
                        color |-> ColorFromCount(Count(rows, c), max)] :
                         c \in {Country[rows[j]] : j \in Labelled(rows)}}
         IN /\ cells \subseteq Cells
            /\ \A a \in cells :
                 /\ a.color > 0
                 /\ \E busiest \in cells :
                      /\ \A b \in cells : b.count <= busiest.count
                      /\ IsShade(a.color, a.count, busiest.count)
<1> DEFINE max == MaxCount(rows)
           shown == {Country[rows[j]] : j \in Labelled(rows)}
           cell(c) == [country |-> c, count |-> Count(rows, c),
                       color |-> ColorFromCount(Count(rows, c), max)]
           cells == {cell(c) : c \in shown}
<1>1. shown \subseteq Countries
  BY Elements DEF Labelled, Countries
<1>2. /\ max \in Nat
      /\ \A c \in Countries : Count(rows, c) <= max
      /\ max # 0 => \E c \in Countries : Count(rows, c) = max
  BY Scale
<1>3. \A c : Count(rows, c) \in Nat /\ (Count(rows, c) # 0 <=> c \in shown)
  <2>1. Len(rows) \in Nat
    BY Elements
  <2>. QED
    BY <2>1, Counting
<1> HIDE DEF max, shown
<1>4. cells \subseteq Cells
  BY <1>1, <1>3, ColorType DEF Cells
<1>5. \A c \in shown : max # 0 /\ Count(rows, c) \in 1 .. max
  BY <1>1, <1>2, <1>3
<1>6. \A c \in shown : IsShade(ColorFromCount(Count(rows, c), max), Count(rows, c), max)
  BY <1>2, <1>5, Shaded
<1>7. \A c \in shown : ColorFromCount(Count(rows, c), max) > 0
  <2> SUFFICES ASSUME NEW c \in shown
               PROVE  ColorFromCount(Count(rows, c), max) > 0
    OBVIOUS
  <2>1. max \in Nat \ {0} /\ Count(rows, c) \in 1 .. max
    BY <1>2, <1>5
  <2>. QED
    BY <2>1 DEF ColorFromCount
<1>8. \A c \in shown : \E busiest \in cells :
        /\ \A b \in cells : b.count <= busiest.count
        /\ busiest.count = max
  <2> SUFFICES ASSUME NEW c \in shown
               PROVE  \E busiest \in cells :
                        /\ \A b \in cells : b.count <= busiest.count
                        /\ busiest.count = max
    OBVIOUS
  <2>1. PICK d \in Countries : Count(rows, d) = max
    BY <1>2, <1>5
  <2>2. d \in shown
    BY <1>3, <1>5, <2>1
  <2>3. cell(d) \in cells /\ cell(d).count = max
    BY <2>1, <2>2
  <2>4. \A b \in cells : b.count <= max
    BY <1>1, <1>2
  <2>. QED
    BY <2>3, <2>4
<1>9. \A a \in cells :
        /\ a.color > 0
        /\ \E busiest \in cells :
             /\ \A b \in cells : b.count <= busiest.count
             /\ IsShade(a.color, a.count, busiest.count)
  <2> SUFFICES ASSUME NEW c \in shown
               PROVE  /\ cell(c).color > 0
                      /\ \E busiest \in cells :
                           /\ \A b \in cells : b.count <= busiest.count
                           /\ IsShade(cell(c).color, cell(c).count, busiest.count)
    OBVIOUS
  <2>1. PICK busiest \in cells :
          (\A b \in cells : b.count <= busiest.count) /\ busiest.count = max
    BY <1>8
  <2>2. IsShade(cell(c).color, cell(c).count, busiest.count) /\ cell(c).color > 0
    BY <1>6, <1>7, <2>1
  <2>. QED
    BY <2>1, <2>2
<1>. QED
  BY <1>4, <1>9 DEF max, shown

(* The hits ListNearby answers with. *)
Cut(ranked, limit) ==
  SubSeq(ranked, 1, IF limit <= Len(ranked) THEN limit ELSE Len(ranked))

(* What ListNearby answers is in its type, and nothing nearer is left out   *)
(* of a page that is the whole corpus.                                      *)
LEMMA NearbyAnswered ==
  ASSUME NEW rows \in Seq(Items), NEW limit \in Nat, limit > 0,
         NEW ranked \in Rankings(Hits(rows, limit))
  PROVE  /\ Cut(ranked, limit) \in Seq(Items)
         /\ \A i \in ToSet(rows) \ ToSet(Cut(ranked, limit)) :
              \/ Distance[i] > Radius
              \/ /\ Len(Cut(ranked, limit)) = limit
                 /\ \A shown \in ToSet(Cut(ranked, limit)) : Distance[shown] <= Distance[i]
<1> DEFINE hits == Hits(rows, limit)
           near == Cut(ranked, limit)
           m == IF limit <= Len(ranked) THEN limit ELSE Len(ranked)
<1>1. hits \subseteq Items
  BY Elements DEF Hits
<1>2. IsFiniteSet(hits)
  BY <1>1, FS_Subset
<1>3. Cardinality(hits) \in Nat
  BY <1>2, FS_CardinalityType
<1>4. /\ ranked \in [1 .. Cardinality(hits) -> hits]
      /\ ToSet(ranked) = hits
      /\ \A j, k \in DOMAIN ranked : j < k => Distance[ranked[j]] <= Distance[ranked[k]]
  BY DEF Rankings
<1>5. ranked \in Seq(Items)
  <2>1. ranked \in Seq(hits)
    BY <1>3, <1>4
  <2>. QED
    BY <1>1, <2>1
<1>6. Len(ranked) \in Nat
  BY <1>5, Elements
<1>6a. m \in Nat /\ m <= Len(ranked) /\ (m = limit \/ m = Len(ranked))
  BY <1>6
<1>. HIDE DEF m
<1>7. near \in Seq(Items) /\ Len(near) = m /\ \A j \in 1 .. m : near[j] = ranked[j]
  <2>1. near = SubSeq(ranked, 1, m)
    BY DEF Cut, m
  <2>. QED
    BY <1>5, <1>6a, <2>1, Prefix
<1>. HIDE DEF near
<1>7a. ToSet(ranked) = {ranked[j] : j \in 1 .. Len(ranked)}
  BY <1>5, Elements
<1>7b. ToSet(near) = {near[j] : j \in 1 .. m}
  <2>0. ASSUME NEW s \in Seq(Items) PROVE ToSet(s) = {s[j] : j \in 1 .. Len(s)}
    BY Elements
  <2>1. ToSet(near) = {near[j] : j \in 1 .. Len(near)}
    BY <1>7, <2>0
  <2>. QED
    BY <1>7, <2>1
<1>7c. \A j, k \in 1 .. Len(ranked) : j < k => Distance[ranked[j]] <= Distance[ranked[k]]
  <2>1. DOMAIN ranked = 1 .. Len(ranked)
    BY <1>5, Elements
  <2>. QED
    BY <1>4, <2>1
<1>8. ASSUME NEW i \in ToSet(rows) \ ToSet(near), ~(Distance[i] > Radius)
      PROVE  /\ Len(near) = limit
             /\ \A shown \in ToSet(near) : Distance[shown] <= Distance[i]
  <2>1. i \in hits
    <3>1. i \in Items
      BY <1>8, Elements
    <3>. QED
      BY <3>1, <1>8 DEF Hits
  <2> HIDE DEF hits
  <2>2. PICK k \in 1 .. Len(ranked) : ranked[k] = i
    BY <1>4, <1>7a, <2>1
  <2>3. ~(k <= m)
    <3> SUFFICES ASSUME k <= m PROVE FALSE
      OBVIOUS
    <3>1. k \in 1 .. m /\ near[k] = i
      BY <1>6, <1>6a, <1>7, <2>2
    <3>. QED
      BY <1>7b, <1>8, <3>1
  <2>4. m = limit
    BY <1>6, <1>6a, <2>2, <2>3
  <2>5. ASSUME NEW shown \in ToSet(near) PROVE Distance[shown] <= Distance[i]
    <3>1. PICK j \in 1 .. m : near[j] = shown
      BY <1>7b
    <3>2. j \in 1 .. Len(ranked) /\ j < k /\ ranked[j] = shown
      BY <1>6, <1>6a, <1>7, <2>2, <2>3, <2>4, <3>1
    <3>. QED
      BY <1>7c, <2>2, <3>2
  <2>. QED
    BY <1>7, <2>4, <2>5
<1>. QED
  BY <1>7, <1>8 DEF near

-----------------------------------------------------------------------------
(* The walk.  While it is open, the places of the listing before the next   *)
(* page are as many as the rows shown, and hold nothing but incidents that  *)
(* were shown or have arrived since: an arrival only moves incidents away   *)
(* from the front.                                                          *)

Offset(w) == (PageOf(w.cursor) - 1) * PerPage(w.limit)

Distinct == \A j, k \in 1 .. Len(store) : store[j] = store[k] => j = k

WalkInv ==
  walk.status = "open" =>
    /\ walk.listed \subseteq ToSet(store)
    /\ Cardinality(ToSet(store) \ walk.listed) = walk.arrivals
    /\ Offset(walk) <= Len(store)
    /\ Len(walk.seen) = Offset(walk)
    /\ \A j \in 1 .. Offset(walk) :
         store[j] \in ToSet(walk.seen) \/ store[j] \notin walk.listed

IInv ==
  /\ TypeOK
  /\ Distinct
  /\ WalkInv
  /\ NothingSkipped
  /\ RepeatsBounded
  /\ ShadesFollowCounts
  /\ NearestAreShown

LEMMA WalkTypes ==
  ASSUME TypeOK
  PROVE  /\ walk.limit \in Nat
         /\ PerPage(walk.limit) \in Nat \ {0}
         /\ PageOf(walk.cursor) \in Nat \ {0}
         /\ walk.seen \in Seq(Items)
         /\ walk.listed \subseteq Items
         /\ walk.arrivals \in Nat
         /\ Offset(walk) \in Nat
<1>0. walk \in Walks
  BY DEF TypeOK
<1> USE DEF Walks
<1>1. walk.limit \in Nat /\ walk.cursor \in Nat
  <2>1. walk.limit \in Limits \cup {0} /\ walk.cursor \in Nat
    BY <1>0
  <2>2. Limits \cup {0} \subseteq Nat
    OBVIOUS
  <2>. QED
    BY <2>1, <2>2
<1>2. PerPage(walk.limit) \in Nat \ {0}
  BY <1>1, PageSize
<1>3. PageOf(walk.cursor) \in Nat \ {0}
  BY <1>1 DEF PageOf
<1>4. Offset(walk) \in Nat
  <2> DEFINE pp == PerPage(walk.limit)
             page == PageOf(walk.cursor)
  <2>1. pp \in Nat /\ page - 1 \in Nat
    BY <1>2, <1>3
  <2>2. Offset(walk) = (page - 1) * pp
    BY DEF Offset
  <2> HIDE DEF pp, page
  <2>. QED
    BY <2>1, <2>2
<1>. QED
  BY <1>0, <1>1, <1>2, <1>3, <1>4

(* As many repeats as arrivals: the first n places hold n incidents, each   *)
(* of them shown or new.                                                    *)
LEMMA Repeats ==
  ASSUME store \in Seq(Items), Distinct,
         NEW n \in 0 .. Len(store), NEW seen \in Seq(Items),
         NEW listed \in SUBSET Items,
         \A j \in 1 .. n : store[j] \in ToSet(seen) \/ store[j] \notin listed
  PROVE  /\ Cardinality(ToSet(seen)) \in Nat
         /\ Cardinality(ToSet(store) \ listed) \in Nat
         /\ n <= Cardinality(ToSet(seen)) + Cardinality(ToSet(store) \ listed)
<1> DEFINE front == {store[j] : j \in 1 .. n}
           A == ToSet(seen)
           B == ToSet(store) \ listed
<1>1. A \subseteq Items /\ B \subseteq Items
  BY Elements
<1>2. IsFiniteSet(A) /\ IsFiniteSet(B)
  BY <1>1, FS_Subset
<1>3. Cardinality(A) \in Nat /\ Cardinality(B) \in Nat
  BY <1>2, FS_CardinalityType
<1>4. front \subseteq A \cup B
  <2>1. \A j \in 1 .. n : store[j] \in ToSet(store)
    BY Elements
  <2>. QED
    BY <2>1
<1>5. Cardinality(front) = n
  <2>1. \A j, k \in 1 .. Len(store) : store[j] = store[k] => j = k
    BY DEF Distinct
  <2>2. \A x : x \in front <=> \E j \in 1 .. n : store[j] = x
    OBVIOUS
  <2> HIDE DEF front
  <2>. QED
    BY <2>1, <2>2, DistinctCount
<1> HIDE DEF A, B, front
<1>6. IsFiniteSet(A \cup B) /\ IsFiniteSet(A \cap B)
  BY <1>2, FS_Union, FS_Subset
<1>7. Cardinality(A \cup B) = Cardinality(A) + Cardinality(B) - Cardinality(A \cap B)
  BY <1>2, FS_Union
<1>8. Cardinality(A \cap B) \in Nat
  BY <1>6, FS_CardinalityType
<1>9. Cardinality(front) <= Cardinality(A \cup B)
  BY <1>4, <1>6, FS_Subset
<1>10. n \in Nat
  BY Elements
<1>. QED
  BY <1>3, <1>5, <1>7, <1>8, <1>9, <1>10 DEF A, B

(* One page further. *)
LEMMA PageTurned ==
  ASSUME TypeOK, Distinct, WalkInv, NextPage
  PROVE  /\ walk' \in Walks
         /\ WalkInv'
         /\ NothingSkipped'
         /\ RepeatsBounded'
<1> DEFINE pp == PerPage(walk.limit)
           page == PageOf(walk.cursor)
           rows == Page(page, pp)
           a == (page - 1) * pp
           b == page * pp
           m == IF b <= Len(store) THEN b ELSE Len(store)
           seen == walk.seen \o rows
           next == NextCursor(page, walk.limit)
<1>1. /\ walk.limit \in Nat
      /\ pp \in Nat \ {0}
      /\ page \in Nat \ {0}
      /\ walk.seen \in Seq(Items)
      /\ walk.listed \subseteq Items
      /\ walk.arrivals \in Nat
  BY WalkTypes
<1>2. /\ walk.status = "open"
      /\ walk' = [walk EXCEPT !.seen = seen, !.cursor = next,
                              !.status = IF next = 0 THEN "ended" ELSE "open"]
      /\ store' = store
  BY DEF NextPage
<1>3. /\ walk.listed \subseteq ToSet(store)
      /\ Cardinality(ToSet(store) \ walk.listed) = walk.arrivals
      /\ a <= Len(store)
      /\ Len(walk.seen) = a
      /\ \A j \in 1 .. a : store[j] \in ToSet(walk.seen) \/ store[j] \notin walk.listed
  BY <1>2 DEF WalkInv, Offset
<1>4. store \in Seq(Items) /\ Len(store) \in Nat
  BY Elements DEF TypeOK
<1>5. /\ a \in Nat /\ m \in Nat /\ b \in Nat
      /\ b = a + pp
      /\ a <= m /\ m <= Len(store)
      /\ rows \in Seq(Items)
      /\ Len(rows) = m - a
      /\ \A j \in 1 .. m - a : rows[j] = store[a + j]
  <2> HIDE DEF pp, page
  <2>. QED
    BY <1>1, <1>3, <1>4, PageRows
<1>6. next = IF b < Len(store) THEN page + 1 ELSE 0
  BY DEF NextCursor
<1>7. walk \in Walks
  BY DEF TypeOK
<1> HIDE DEF rows, next, m
<1>8. seen \in Seq(Items) /\ Len(seen) = m
  <2>1. seen \in Seq(Items) /\ Len(seen) = Len(walk.seen) + Len(rows)
    BY <1>1, <1>5, ConcatProperties
  <2> HIDE DEF a, b, seen
  <2>. QED
    BY <1>3, <1>5, <2>1
<1>9. ToSet(walk.seen) \cup ToSet(rows) \subseteq ToSet(seen)
  <2>1. /\ Len(walk.seen) \in Nat /\ Len(rows) \in Nat
        /\ Len(seen) = Len(walk.seen) + Len(rows)
        /\ \A j \in 1 .. Len(walk.seen) + Len(rows) :
             seen[j] = IF j <= Len(walk.seen) THEN walk.seen[j] ELSE rows[j - Len(walk.seen)]
    <3>1. Len(walk.seen) \in Nat /\ Len(rows) \in Nat
      BY <1>1, <1>5, LenProperties
    <3>2. walk.seen \in Seq(Items) /\ rows \in Seq(Items)
      BY <1>1, <1>5
    <3>. QED
      BY <3>1, <3>2, ConcatProperties
  <2>2. /\ ToSet(seen) = {seen[j] : j \in 1 .. Len(seen)}
        /\ ToSet(walk.seen) = {walk.seen[j] : j \in 1 .. Len(walk.seen)}
        /\ ToSet(rows) = {rows[j] : j \in 1 .. Len(rows)}
    <3>1. ASSUME NEW s \in Seq(Items) PROVE ToSet(s) = {s[j] : j \in 1 .. Len(s)}
      BY Elements
    <3>. QED
      BY <1>1, <1>5, <1>8, <3>1
  <2> HIDE DEF seen
  <2>3. \A j \in 1 .. Len(walk.seen) : j \in 1 .. Len(seen) /\ walk.seen[j] = seen[j]
    BY <2>1
  <2>4. \A j \in 1 .. Len(rows) :
          Len(walk.seen) + j \in 1 .. Len(seen) /\ rows[j] = seen[Len(walk.seen) + j]
    BY <2>1
  <2>. QED
    BY <2>2, <2>3, <2>4
<1>10. \A j \in 1 .. m : store[j] \in ToSet(seen) \/ store[j] \notin walk.listed
  <2> SUFFICES ASSUME NEW j \in 1 .. m
               PROVE  store[j] \in ToSet(seen) \/ store[j] \notin walk.listed
    OBVIOUS
  <2> HIDE DEF a, b, seen
  <2>1. CASE j <= a
    BY <1>3, <1>5, <1>9, <2>1
  <2>2. CASE j > a
    <3>1. j - a \in 1 .. m - a /\ rows[j - a] = store[a + (j - a)] /\ a + (j - a) = j
      BY <1>5, <2>2
    <3>2. rows[j - a] \in ToSet(rows)
      <4>1. ToSet(rows) = {rows[k] : k \in 1 .. Len(rows)}
        BY <1>5, Elements
      <4>. QED
        BY <1>5, <3>1, <4>1
    <3>. QED
      BY <1>9, <3>1, <3>2
  <2>. QED
    BY <1>5, <2>1, <2>2
<1> HIDE DEF seen
<1>11. /\ walk'.status = (IF next = 0 THEN "ended" ELSE "open")
       /\ walk'.seen = seen
       /\ walk'.cursor = next
       /\ walk'.limit = walk.limit
       /\ walk'.listed = walk.listed
       /\ walk'.arrivals = walk.arrivals
  BY <1>2, <1>7 DEF Walks
<1>12. next \in Nat
  BY <1>1, <1>6
<1>13. walk' \in Walks
  BY <1>2, <1>7, <1>8, <1>12 DEF Walks
<1>14. ASSUME next # 0
       PROVE  m = b /\ Offset(walk)' = m
  <2>1. b < Len(store) /\ next = page + 1
    BY <1>6, <1>14
  <2>2. Offset(walk)' = (PageOf(next) - 1) * pp
    BY <1>11 DEF Offset, PerPage
  <2>3. PageOf(next) = page + 1
    BY <1>1, <2>1 DEF PageOf
  <2>4. (page + 1) - 1 = page
    BY <1>1
  <2>. QED
    BY <1>4, <1>5, <2>1, <2>2, <2>3, <2>4 DEF m
<1>15. WalkInv'
  <2> SUFFICES ASSUME next # 0
               PROVE  /\ walk.listed \subseteq ToSet(store)
                      /\ Cardinality(ToSet(store) \ walk.listed) = walk.arrivals
                      /\ m <= Len(store)
                      /\ Len(seen) = m
                      /\ \A j \in 1 .. m : store[j] \in ToSet(seen) \/ store[j] \notin walk.listed
    BY <1>2, <1>11, <1>14 DEF WalkInv
  <2>. QED
    BY <1>3, <1>5, <1>8, <1>10
<1>16. NothingSkipped'
  <2> SUFFICES ASSUME next = 0 PROVE walk.listed \subseteq ToSet(seen)
    BY <1>11 DEF NothingSkipped
  <2>1. m = Len(store)
    <3>1. page + 1 # 0
      BY <1>1
    <3>2. ~(b < Len(store))
      BY <1>6, <3>1
    <3> HIDE DEF a, b
    <3>. QED
      BY <1>4, <1>5, <3>2 DEF m
  <2>2. ToSet(store) = {store[j] : j \in 1 .. Len(store)}
    BY <1>4, Elements
  <2>. QED
    BY <1>3, <1>10, <2>1, <2>2
<1>17. RepeatsBounded'
  <2>1. m \in 0 .. Len(store)
    BY <1>4, <1>5
  <2>2. m <= Cardinality(ToSet(seen)) + Cardinality(ToSet(store) \ walk.listed)
    BY <1>1, <1>4, <1>8, <1>10, <2>1, Repeats
  <2>. QED
    BY <1>3, <1>8, <1>11, <2>2 DEF RepeatsBounded
<1>. QED
  BY <1>13, <1>15, <1>16, <1>17

(* An arrival. *)
LEMMA Arrival ==
  ASSUME TypeOK, Distinct, WalkInv, NothingSkipped, RepeatsBounded,
         NEW i \in Items, NEW position \in 1 .. Len(store) + 1, Register(i, position)
  PROVE  /\ store' \in Seq(Items)
         /\ ToSet(store') = ToSet(store) \cup {i}
         /\ walk' \in Walks
         /\ Distinct'
         /\ WalkInv'
         /\ NothingSkipped'
         /\ RepeatsBounded'
<1> DEFINE t == InsertAt(store, position, i)
<1>1. /\ i \notin ToSet(store)
      /\ store' = t
      /\ walk' = IF walk.status = "open" THEN [walk EXCEPT !.arrivals = @ + 1] ELSE walk
  BY DEF Register
<1>2. store \in Seq(Items) /\ walk \in Walks
  BY DEF TypeOK
<1>3. /\ t \in Seq(Items)
      /\ Len(t) = Len(store) + 1
      /\ \A j \in 1 .. Len(t) :
           t[j] = IF j < position THEN store[j] ELSE IF j = position THEN i ELSE store[j - 1]
      /\ ToSet(t) = ToSet(store) \cup {i}
  BY <1>2, Inserted
<1>4. /\ Len(store) \in Nat
      /\ \A j \in 1 .. Len(store) : store[j] \in ToSet(store)
  BY <1>2, Elements
<1> HIDE DEF t
<1>5. walk' \in Walks
  <2>1. CASE walk.status = "open"
    <3>1. walk' = [walk EXCEPT !.arrivals = walk.arrivals + 1] /\ walk.arrivals + 1 \in Nat
      BY <1>1, <1>2, <2>1 DEF Walks
    <3>. QED
      BY <1>2, <3>1 DEF Walks
  <2>2. CASE walk.status # "open"
    BY <1>1, <1>2, <2>2
  <2>. QED
    BY <2>1, <2>2
<1>6. Distinct'
  <2> SUFFICES ASSUME NEW j \in 1 .. Len(t), NEW k \in 1 .. Len(t), t[j] = t[k]
               PROVE  j = k
    BY <1>1 DEF Distinct
  <2> DEFINE place(h) == IF h < position THEN h ELSE h - 1
  <2>1. \A h \in 1 .. Len(t) : h # position =>
          place(h) \in 1 .. Len(store) /\ t[h] = store[place(h)]
    BY <1>3, <1>4
  <2>2. \A h \in 1 .. Len(t) : t[h] = i <=> h = position
    <3>1. \A h \in 1 .. Len(t) : h # position => t[h] \in ToSet(store)
      <4> HIDE DEF place
      <4>. QED
        BY <1>4, <2>1
    <3>2. \A h \in 1 .. Len(t) : h = position => t[h] = i
      BY <1>3
    <3>. QED
      BY <1>1, <3>1, <3>2
  <2>3. CASE t[j] = i
    BY <2>2, <2>3
  <2>4. CASE t[j] # i
    <3>1. j # position /\ k # position
      BY <2>2, <2>4
    <3>2. place(j) \in 1 .. Len(store) /\ place(k) \in 1 .. Len(store)
      BY <2>1, <3>1
    <3>3. store[place(j)] = store[place(k)]
      BY <2>1, <3>1
    <3>4. place(j) = place(k)
      BY <3>2, <3>3 DEF Distinct
    <3>. QED
      BY <1>3, <1>4, <3>1, <3>4
  <2>. QED
    BY <2>3, <2>4
<1>7. /\ walk'.status = walk.status
      /\ walk'.limit = walk.limit
      /\ walk'.cursor = walk.cursor
      /\ walk'.seen = walk.seen
      /\ walk'.listed = walk.listed
      /\ walk.arrivals \in Nat
      /\ walk'.arrivals = IF walk.status = "open" THEN walk.arrivals + 1 ELSE walk.arrivals
  <2>1. CASE walk.status = "open"
    <3>1. walk' = [walk EXCEPT !.arrivals = walk.arrivals + 1]
      BY <1>1, <2>1
    <3>. QED
      BY <1>2, <2>1, <3>1 DEF Walks
  <2>2. CASE walk.status # "open"
    <3>1. walk' = walk
      BY <1>1, <2>2
    <3>. QED
      BY <1>2, <2>2, <3>1 DEF Walks
  <2>. QED
    BY <2>1, <2>2
<1>8. WalkInv'
  <2> SUFFICES ASSUME walk.status = "open"
               PROVE  /\ walk.listed \subseteq ToSet(t)
                      /\ Cardinality(ToSet(t) \ walk.listed) = walk.arrivals + 1
                      /\ Offset(walk) <= Len(t)
                      /\ Len(walk.seen) = Offset(walk)
                      /\ \A j \in 1 .. Offset(walk) :
                           t[j] \in ToSet(walk.seen) \/ t[j] \notin walk.listed
    <3>1. Offset(walk)' = Offset(walk)
      BY <1>7 DEF Offset, PageOf, PerPage
    <3>. QED
      BY <1>1, <1>7, <3>1 DEF WalkInv
  <2>1. /\ walk.listed \subseteq ToSet(store)
        /\ Cardinality(ToSet(store) \ walk.listed) = walk.arrivals
        /\ Offset(walk) <= Len(store)
        /\ Len(walk.seen) = Offset(walk)
        /\ \A j \in 1 .. Offset(walk) :
             store[j] \in ToSet(walk.seen) \/ store[j] \notin walk.listed
    BY DEF WalkInv
  <2>2. Offset(walk) \in Nat
    BY WalkTypes
  <2>3. Cardinality(ToSet(t) \ walk.listed) = walk.arrivals + 1
    <3> DEFINE new == ToSet(store) \ walk.listed
    <3>1. ToSet(t) \ walk.listed = new \cup {i} /\ i \notin new
      BY <1>1, <1>3, <2>1
    <3>2. IsFiniteSet(new)
      <4>1. new \in SUBSET Items
        BY <1>2, Elements
      <4> HIDE DEF new
      <4>. QED
        BY <4>1, FS_Subset
    <3>3. Cardinality(new \cup {i}) = Cardinality(new) + 1
      <4> HIDE DEF new
      <4>. QED
        BY <3>1, <3>2, FS_AddElement
    <3>. QED
      BY <2>1, <3>1, <3>3
  <2>4. \A j \in 1 .. Offset(walk) : t[j] \in ToSet(walk.seen) \/ t[j] \notin walk.listed
    <3> SUFFICES ASSUME NEW j \in 1 .. Offset(walk)
                 PROVE  t[j] \in ToSet(walk.seen) \/ t[j] \notin walk.listed
      OBVIOUS
    <3>1. j \in 1 .. Len(t)
      BY <1>3, <1>4, <2>1, <2>2
    <3>2. CASE j < position
      BY <1>3, <2>1, <3>1, <3>2
    <3>3. CASE j = position
      BY <1>1, <1>3, <2>1, <3>1, <3>3
    <3>4. CASE j > position
      <4>1. j - 1 \in 1 .. Offset(walk) /\ t[j] = store[j - 1]
        BY <1>3, <1>4, <2>2, <3>1, <3>4
      <4>. QED
        BY <2>1, <4>1
    <3>. QED
      BY <3>2, <3>3, <3>4, <1>4, <2>2
  <2>. QED
    BY <1>3, <1>4, <2>1, <2>2, <2>3, <2>4
<1>9. NothingSkipped'
  BY <1>7 DEF NothingSkipped
<1>10. RepeatsBounded'
  <2>1. walk.seen \in Seq(Items)
    BY WalkTypes
  <2>2. Len(walk.seen) \in Nat /\ Cardinality(ToSet(walk.seen)) \in Nat
    <3>1. IsFiniteSet(ToSet(walk.seen))
      BY <2>1, Elements, FS_Subset
    <3>. QED
      BY <2>1, <3>1, Elements, FS_CardinalityType
  <2>3. Len(walk.seen) <= Cardinality(ToSet(walk.seen)) + walk.arrivals
    BY DEF RepeatsBounded
  <2>. QED
    BY <1>7, <2>2, <2>3 DEF RepeatsBounded
<1>. QED
  BY <1>1, <1>3, <1>5, <1>6, <1>8, <1>9, <1>10

-----------------------------------------------------------------------------
(* The steps. *)

(* No list on the screen, at present and after a step. *)
LEMMA NoList ==
  /\ NoWalk \in Walks
  /\ NoWalk.status = "none"
  /\ Len(NoWalk.seen) <= Cardinality(ToSet(NoWalk.seen)) + NoWalk.arrivals
<1>1. NoWalk.seen = <<>> /\ NoWalk.arrivals = 0 /\ NoWalk.status = "none"
  BY DEF NoWalk
<1>2. NoWalk \in Walks
  BY DEF NoWalk, Walks
<1>3. Cardinality(ToSet(<<>>)) = 0
  <2>1. ToSet(<<>>) = {}
    BY DEF ToSet
  <2>. QED
    BY <2>1, FS_EmptySet
<1>4. Len(<<>>) = 0
  OBVIOUS
<1>. QED
  BY <1>1, <1>2, <1>3, <1>4

LEMMA Cleared ==
  ASSUME walk' = NoWalk
  PROVE  walk' \in Walks /\ WalkInv' /\ NothingSkipped' /\ RepeatsBounded'
BY NoList DEF WalkInv, NothingSkipped, RepeatsBounded

(* The list is opened on the present corpus. *)
LEMMA Opened ==
  ASSUME TypeOK, NEW limit \in Limits, Open(limit)
  PROVE  walk' \in Walks /\ WalkInv' /\ NothingSkipped' /\ RepeatsBounded'
<1>1. walk' = [status |-> "open", limit |-> limit, cursor |-> 0, seen |-> <<>>,
               listed |-> ToSet(store), arrivals |-> 0]
  BY DEF Open, NoWalk
<1>2. store \in Seq(Items) /\ store' = store
  BY DEF Open, TypeOK
<1>3. ToSet(store) \subseteq Items /\ Len(store) \in Nat
  BY <1>2, Elements
<1>4. walk' \in Walks
  BY <1>1, <1>3 DEF Walks
<1>5. Cardinality({}) = 0 /\ Len(<<>>) = 0
  BY FS_EmptySet
<1>6. Offset(walk)' = 0
  <2>1. PerPage(limit) \in Nat
    BY PageSize
  <2>2. Offset(walk)' = (1 - 1) * PerPage(limit)
    BY <1>1 DEF Offset, PageOf, PerPage
  <2>. QED
    BY <2>1, <2>2
<1>7. /\ walk'.status = "open"
      /\ walk'.listed = ToSet(store)
      /\ walk'.arrivals = 0
      /\ walk'.seen = <<>>
  BY <1>1
<1>8. WalkInv'
  <2>1. ToSet(store) \ ToSet(store) = {}
    OBVIOUS
  <2>2. walk'.listed \subseteq ToSet(store')
    BY <1>2, <1>7
  <2>3. Cardinality(ToSet(store') \ walk'.listed) = walk'.arrivals
    BY <1>2, <1>5, <1>7, <2>1
  <2>4. Offset(walk)' <= Len(store')
    BY <1>2, <1>3, <1>6
  <2>5. Len(walk'.seen) = Offset(walk)'
    BY <1>5, <1>6, <1>7
  <2>6. 1 .. Offset(walk)' = {}
    BY <1>6
  <2>. QED
    BY <2>2, <2>3, <2>4, <2>5, <2>6 DEF WalkInv
<1>9. NothingSkipped'
  BY <1>7 DEF NothingSkipped
<1>10. RepeatsBounded'
  <2>1. ToSet(<<>>) = {}
    BY DEF ToSet
  <2>2. Len(walk'.seen) = 0 /\ Cardinality(ToSet(walk'.seen)) = 0
    BY <1>5, <1>7, <2>1
  <2>. QED
    BY <1>7, <2>2 DEF RepeatsBounded
<1>. QED
  BY <1>4, <1>8, <1>9, <1>10

(* A map is drawn. *)
LEMMA MapDrawn ==
  ASSUME TypeOK, Distinct,
         Choropleth \/ Heatmap \/ \E limit \in Limits : ListNearby(limit)
  PROVE  /\ view'.kind \in {"none", "choropleth", "heatmap", "nearby"}
         /\ view'.kind = "choropleth" => view'.cells \subseteq Cells /\ view'.total \in Nat
         /\ view'.kind = "heatmap" => view'.points \subseteq Items /\ view'.excluded \in Nat
         /\ view'.kind = "nearby" => view'.near \in Seq(Items)
         /\ ShadesFollowCounts'
         /\ NearestAreShown'
         /\ store' = store /\ broken' = broken /\ walk' = NoWalk
<1>1. store \in Seq(Items)
  BY DEF TypeOK
<1>2. CASE Choropleth
  <2> DEFINE rows == Page(1, PerPage(AggregationCap))
             max == MaxCount(rows)
             shown == {Country[rows[j]] : j \in Labelled(rows)}
             cells == {[country |-> c, count |-> Count(rows, c),
                        color |-> ColorFromCount(Count(rows, c), max)] : c \in shown}
  <2>1. rows \in Seq(Items)
    BY <1>1, FirstPage
  <2>2. view' = [kind |-> "choropleth", cells |-> cells, total |-> Len(rows)]
    BY <1>2 DEF Choropleth
  <2>3. store' = store /\ broken' = broken /\ walk' = NoWalk
    BY <1>2 DEF Choropleth
  <2> HIDE DEF rows
  <2>4. Len(rows) \in Nat
    BY <2>1, Elements
  <2>5. /\ cells \subseteq Cells
        /\ \A a \in cells :
             /\ a.color > 0
             /\ \E busiest \in cells :
                  /\ \A b \in cells : b.count <= busiest.count
                  /\ IsShade(a.color, a.count, busiest.count)
    BY <2>1, ChoroplethDrawn
  <2> HIDE DEF cells
  <2>6. view'.kind = "choropleth" /\ view'.cells = cells /\ view'.total = Len(rows)
    BY <2>2
  <2>. QED
    BY <2>3, <2>4, <2>5, <2>6, EveryShade DEF ShadesFollowCounts, NearestAreShown, PaletteRoundsUp
<1>3. CASE Heatmap
  <2> DEFINE rows == Page(1, PerPage(AggregationCap))
             J == {j \in DOMAIN rows : rows[j] \in Centroid}
  <2>1. rows \in Seq(Items)
    BY <1>1, FirstPage
  <2>2. view' = [kind |-> "heatmap", points |-> ToSet(rows) \ Centroid, excluded |-> Cardinality(J)]
    BY <1>3 DEF Heatmap
  <2>3. store' = store /\ broken' = broken /\ walk' = NoWalk
    BY <1>3 DEF Heatmap
  <2> HIDE DEF rows
  <2>4. ToSet(rows) \subseteq Items
    BY <2>1, Elements
  <2>5. Cardinality(J) \in Nat
    <3> DEFINE n == Len(rows)
    <3>1. n \in Nat /\ J \in SUBSET (1 .. n)
      BY <2>1, Elements
    <3> HIDE DEF n, J
    <3>2. IsFiniteSet(1 .. n)
      BY <3>1, FS_Interval
    <3>3. IsFiniteSet(J)
      BY <3>1, <3>2, FS_Subset
    <3>. QED
      BY <3>3, FS_CardinalityType
  <2> HIDE DEF J
  <2>6. view'.kind = "heatmap" /\ view'.points = ToSet(rows) \ Centroid /\ view'.excluded = Cardinality(J)
    BY <2>2
  <2>. QED
    BY <2>3, <2>4, <2>5, <2>6, EveryShade DEF ShadesFollowCounts, NearestAreShown, PaletteRoundsUp
<1>4. CASE \E limit \in Limits : ListNearby(limit)
  <2>1. PICK limit \in Limits : ListNearby(limit)
    BY <1>4
  <2> DEFINE rows == Page(1, PerPage(NearbyFetchCap))
  <2>2. /\ rows \in Seq(Items)
        /\ Len(store) <= PerPage(NearbyFetchCap) => ToSet(rows) = ToSet(store)
    BY <1>1, FirstPage
  <2>3. /\ limit \in Nat /\ limit > 0
        /\ store' = store /\ broken' = broken /\ walk' = NoWalk
        /\ \E ranked \in Rankings(Hits(rows, limit)) :
             view' = [kind |-> "nearby", limit |-> limit, corpus |-> ToSet(store),
                      near |-> SubSeq(ranked, 1, IF limit <= Len(ranked) THEN limit ELSE Len(ranked))]
    BY <2>1 DEF ListNearby
  <2> HIDE DEF rows
  <2>4. PICK ranked \in Rankings(Hits(rows, limit)) :
          view' = [kind |-> "nearby", limit |-> limit, corpus |-> ToSet(store),
                   near |-> SubSeq(ranked, 1, IF limit <= Len(ranked) THEN limit ELSE Len(ranked))]
    BY <2>3
  <2> DEFINE near == Cut(ranked, limit)
  <2>5. /\ near \in Seq(Items)
        /\ \A i \in ToSet(rows) \ ToSet(near) :
             \/ Distance[i] > Radius
             \/ /\ Len(near) = limit
                /\ \A shown \in ToSet(near) : Distance[shown] <= Distance[i]
    <3>1. ranked \in Rankings(Hits(rows, limit))
      BY <2>4
    <3>. QED
      BY <2>2, <2>3, <3>1, NearbyAnswered
  <2> HIDE DEF near
  <2>6. view'.kind = "nearby" /\ view'.near = near /\ view'.limit = limit /\ view'.corpus = ToSet(store)
    BY <2>4 DEF near, Cut
  <2>7. Len(store) = Cardinality(ToSet(store))
    <3>1. Len(store) \in Nat /\ ToSet(store) = {store[j] : j \in 1 .. Len(store)}
      BY <1>1, Elements
    <3>2. \A x : x \in ToSet(store) <=> \E j \in 1 .. Len(store) : store[j] = x
      BY <3>1
    <3>3. \A j, k \in 1 .. Len(store) : store[j] = store[k] => j = k
      BY DEF Distinct
    <3>4. Len(store) \in 0 .. Len(store)
      BY <3>1
    <3>. QED
      BY <1>1, <3>2, <3>3, <3>4, DistinctCount
  <2>8. NearestAreShown'
    <3> SUFFICES ASSUME Cardinality(ToSet(store)) <= PerPage(NearbyFetchCap)
                 PROVE  \A i \in ToSet(store) \ ToSet(near) :
                          \/ Distance[i] > Radius
                          \/ /\ Len(near) = limit
                             /\ \A shown \in ToSet(near) : Distance[shown] <= Distance[i]
      BY <2>6 DEF NearestAreShown, PerPage
    <3>. QED
      BY <2>2, <2>5, <2>7
  <2>. QED
    BY <2>3, <2>5, <2>6, <2>8, EveryShade DEF ShadesFollowCounts, PaletteRoundsUp
<1>. QED
  BY <1>2, <1>3, <1>4

(* What the view holds stays when it is left alone, and nothing is asked of *)
(* an empty one.                                                            *)
ViewOK ==
  /\ view.kind \in {"none", "choropleth", "heatmap", "nearby"}
  /\ view.kind = "choropleth" => view.cells \subseteq Cells /\ view.total \in Nat
  /\ view.kind = "heatmap" => view.points \subseteq Items /\ view.excluded \in Nat
  /\ view.kind = "nearby" => view.near \in Seq(Items)
  /\ ShadesFollowCounts
  /\ NearestAreShown

LEMMA ViewKept ==
  ASSUME ViewOK, view' = view \/ view' = NoView
  PROVE  ViewOK'
<1>1. CASE view' = view
  BY <1>1 DEF ViewOK, ShadesFollowCounts, NearestAreShown, PerPage, PaletteRoundsUp
<1>2. CASE view' = NoView
  BY <1>2 DEF ViewOK, NoView, ShadesFollowCounts, NearestAreShown, PaletteRoundsUp
<1>. QED
  BY <1>1, <1>2

(* The list when neither it nor the corpus changes. *)
LEMMA WalkKept ==
  ASSUME Distinct, WalkInv, NothingSkipped, RepeatsBounded,
         walk' = walk, store' = store
  PROVE  Distinct' /\ WalkInv' /\ NothingSkipped' /\ RepeatsBounded'
BY DEF Distinct, WalkInv, NothingSkipped, RepeatsBounded, Offset, PageOf, PerPage

LEMMA Initially == Init => IInv
<1> SUFFICES ASSUME Init PROVE IInv
  OBVIOUS
<1>1. store = <<>> /\ broken = {} /\ walk = NoWalk /\ view = NoView
  BY DEF Init
<1>2. TypeOK
  BY <1>1, NoList DEF TypeOK, NoView
<1>3. Distinct
  <2>1. Len(<<>>) = 0
    OBVIOUS
  <2>2. 1 .. 0 = {}
    OBVIOUS
  <2>. QED
    BY <1>1, <2>1, <2>2 DEF Distinct
<1>4. WalkInv /\ NothingSkipped /\ RepeatsBounded
  BY <1>1, NoList DEF WalkInv, NothingSkipped, RepeatsBounded
<1>5. ShadesFollowCounts /\ NearestAreShown
  BY <1>1, EveryShade DEF NoView, ShadesFollowCounts, NearestAreShown
<1>. QED
  BY <1>2, <1>3, <1>4, <1>5 DEF IInv

LEMMA Step == IInv /\ [Next]_vars => IInv'
<1> SUFFICES ASSUME IInv, [Next]_vars PROVE IInv'
  OBVIOUS
<1>1. /\ TypeOK /\ Distinct /\ WalkInv /\ NothingSkipped /\ RepeatsBounded
      /\ ShadesFollowCounts /\ NearestAreShown
  BY DEF IInv
<1>2. ViewOK
  BY <1>1 DEF TypeOK, ViewOK
<1>3. /\ store \in Seq(Items)
      /\ broken \subseteq ToSet(store)
      /\ walk \in Walks
  BY <1>1 DEF TypeOK
<1>4. ASSUME ViewOK', store' \in Seq(Items), broken' \subseteq ToSet(store'), walk' \in Walks
      PROVE  TypeOK' /\ ShadesFollowCounts' /\ NearestAreShown'
  BY <1>4 DEF TypeOK, ViewOK
<1>5. ASSUME NEW limit \in Limits, Open(limit) PROVE IInv'
  <2>1. store' = store /\ broken' = broken /\ view' = NoView
    BY <1>5 DEF Open
  <2>2. ViewOK'
    BY <1>2, <2>1, ViewKept
  <2>3. Distinct'
    BY <1>1, <2>1 DEF Distinct
  <2>4. walk' \in Walks /\ WalkInv' /\ NothingSkipped' /\ RepeatsBounded'
    BY <1>1, <1>5, Opened
  <2>. QED
    BY <1>3, <1>4, <2>1, <2>2, <2>3, <2>4 DEF IInv
<1>6. CASE Choropleth \/ Heatmap \/ \E limit \in Limits : ListNearby(limit)
  <2>1. store' = store /\ broken' = broken /\ walk' = NoWalk
    BY <1>1, <1>6, MapDrawn
  <2>2. ViewOK'
    BY <1>1, <1>6, MapDrawn DEF ViewOK
  <2>3. Distinct'
    BY <1>1, <2>1 DEF Distinct
  <2>4. walk' \in Walks /\ WalkInv' /\ NothingSkipped' /\ RepeatsBounded'
    BY <2>1, Cleared
  <2>. QED
    BY <1>3, <1>4, <2>1, <2>2, <2>3, <2>4 DEF IInv
<1>7. CASE NextPage
  <2>1. store' = store /\ broken' = broken /\ view' = view
    BY <1>7 DEF NextPage
  <2>2. ViewOK'
    BY <1>2, <2>1, ViewKept
  <2>3. Distinct'
    BY <1>1, <2>1 DEF Distinct
  <2>4. walk' \in Walks /\ WalkInv' /\ NothingSkipped' /\ RepeatsBounded'
    BY <1>1, <1>7, PageTurned
  <2>. QED
    BY <1>3, <1>4, <2>1, <2>2, <2>3, <2>4 DEF IInv
<1>8. CASE Close
  <2>1. store' = store /\ broken' = broken /\ view' = view /\ walk' = NoWalk
    BY <1>8 DEF Close
  <2>2. ViewOK'
    BY <1>2, <2>1, ViewKept
  <2>3. Distinct'
    BY <1>1, <2>1 DEF Distinct
  <2>4. walk' \in Walks /\ WalkInv' /\ NothingSkipped' /\ RepeatsBounded'
    BY <2>1, Cleared
  <2>. QED
    BY <1>3, <1>4, <2>1, <2>2, <2>3, <2>4 DEF IInv
<1>9. ASSUME NEW i \in Items, NEW position \in 1 .. Len(store) + 1, Register(i, position)
      PROVE  IInv'
  <2>1. broken' = broken /\ view' = view
    BY <1>9 DEF Register
  <2>2. ViewOK'
    BY <1>2, <2>1, ViewKept
  <2>3. /\ store' \in Seq(Items) /\ ToSet(store') = ToSet(store) \cup {i}
        /\ walk' \in Walks /\ Distinct'
        /\ WalkInv' /\ NothingSkipped' /\ RepeatsBounded'
    BY <1>1, <1>9, Arrival
  <2>. QED
    BY <1>3, <1>4, <2>1, <2>2, <2>3 DEF IInv
<1>10. ASSUME NEW i \in Items, Break(i) \/ Repair(i) PROVE IInv'
  <2>1. store' = store /\ walk' = walk /\ view' = view
    BY <1>10 DEF Break, Repair
  <2>2. broken' \subseteq ToSet(store)
    BY <1>3, <1>10 DEF Break, Repair
  <2>3. ViewOK'
    BY <1>2, <2>1, ViewKept
  <2>4. Distinct' /\ WalkInv' /\ NothingSkipped' /\ RepeatsBounded'
    BY <1>1, <2>1, WalkKept
  <2>. QED
    BY <1>3, <1>4, <2>1, <2>2, <2>3, <2>4 DEF IInv
<1>11. CASE UNCHANGED vars
  <2>1. store' = store /\ broken' = broken /\ walk' = walk /\ view' = view
    BY <1>11 DEF vars
  <2>2. ViewOK'
    BY <1>2, <2>1, ViewKept
  <2>3. Distinct' /\ WalkInv' /\ NothingSkipped' /\ RepeatsBounded'
    BY <1>1, <2>1, WalkKept
  <2>. QED
    BY <1>3, <1>4, <2>1, <2>2, <2>3 DEF IInv
<1>. QED
  BY <1>5, <1>6, <1>7, <1>8, <1>9, <1>10, <1>11 DEF Next

LEMMA Invariance == Spec => []IInv
BY Initially, Step, PTL DEF Spec

-----------------------------------------------------------------------------
(* The theorems. *)

(* The types of the state: in particular a page is cut out of the listing   *)
(* without reaching outside it, whatever cursor and limit the app sends     *)
(* (item_read.go).                                                          *)
THEOREM TypeCorrect == Spec => []TypeOK
<1>1. IInv => TypeOK
  BY DEF IInv
<1>. QED
  BY Invariance, <1>1, PTL

(* The walk that ends with an empty cursor has shown every incident listed  *)
(* when it began, whatever page size the CMS answers with and wherever it   *)
(* lists the incidents that arrive meanwhile (ListItems, SearchItems).      *)
THEOREM WalkComplete == Spec => []NothingSkipped
<1>1. IInv => NothingSkipped
  BY DEF IInv
<1>. QED
  BY Invariance, <1>1, PTL

(* The page-number cursor repeats at most one incident for each arrival     *)
(* during the walk.                                                         *)
THEOREM RepeatsAreArrivals == Spec => []RepeatsBounded
<1>1. IInv => RepeatsBounded
  BY DEF IInv
<1>. QED
  BY Invariance, <1>1, PTL

(* The choropleth's five shades are ordered as its counts are, the busiest  *)
(* country has the darkest, and no listed country is grey (Aggregate).      *)
THEOREM ShadesHold == Spec => []ShadesFollowCounts
<1>1. IInv => ShadesFollowCounts
  BY DEF IInv
<1>. QED
  BY Invariance, <1>1, PTL

(* ListNearby, which filters one page, sorts and cuts, answers with the     *)
(* nearest incidents of a corpus that fits the page.                        *)
THEOREM NearestHolds == Spec => []NearestAreShown
<1>1. IInv => NearestAreShown
  BY DEF IInv
<1>. QED
  BY Invariance, <1>1, PTL
=============================================================================
