---------------------------- MODULE ListingProofs ----------------------------
(***************************************************************************)
(* Theorems about Listing, for any rows, values, filters, sorts and        *)
(* limits, either database and any writes between the pages, and about     *)
(* Timeline, for any records, kinds, principals and requests.  The two     *)
(* share no variable.                                                      *)
(*                                                                         *)
(* The cursor divides the rows that stay where they are: those that are    *)
(* not past it have been returned, those that are past it have not.  A     *)
(* page keeps it so, because what it leaves out comes after its last row,  *)
(* and the comparison with a cursor says of a row just what ORDER BY says  *)
(* of it and the row the cursor was made of.                               *)
(*                                                                         *)
(* Of Timeline, TimelineInv says what the links stand for and what the     *)
(* requests still know.  A link is the internal id of the record that was  *)
(* named, unless its lookup failed or the record is gone.  What a page has *)
(* read of a record is so still, unless its activities have changed.       *)
(***************************************************************************)
EXTENDS Listing, Timeline, FiniteSetTheorems, TLAPS

----------------------------------------------------------------------------
(* The inductive invariant.                                                *)

\* The cursor sorts as the walk does, and is there when there is a page to ask for.
Steady ==
    /\ cursor # NoCursor => cursor.order = order
    /\ at = "next" => cursor # NoCursor
    /\ at \in {"idle", "end"} => cursor = NoCursor
    /\ at = "idle" => seen = {} /\ swapped = {} /\ stable = {}

\* Of the rows that stay, exactly those up to the cursor have been returned.
Divided ==
    /\ at # "idle" /\ cursor = NoCursor => stable \subseteq seen
    /\ cursor # NoCursor => \A i \in stable : i \in seen <=> ~PastCursor(cursor, i)

WalkInv ==
    /\ TypeOK /\ Steady
    /\ stable \subseteq Matching
    /\ Keyed => Divided
    /\ InOrder

----------------------------------------------------------------------------
(* Rows and their keys.                                                    *)

\* As Keyed, of any sort.
KeyedBy(o) ==
    \/ o.col # "due_at"
    \/ \A t \in Titles, u \in 0 .. MaxTime, c \in 0 .. MaxTime :
         ~Holds(filter, [title |-> t, due_at |-> Null, created_at |-> c, updated_at |-> u])

\* A row sorts by a number, or by NULL if it sorts by due_at.
LEMMA KeyTyped ==
    ASSUME NEW row \in Row, NEW o \in Order
    PROVE  row[o.col] \in Int \cup {Null} /\ (o.col # "due_at" => row[o.col] \in Int)
<1>1. /\ row.title \in Int /\ row.due_at \in Int \cup {Null}
      /\ row.created_at \in Int /\ row.updated_at \in Int
  <2>1. /\ row.title \in Titles /\ row.due_at \in Dues \cup {Null}
        /\ row.created_at \in 0 .. MaxTime /\ row.updated_at \in 0 .. MaxTime
    BY DEF Row
  <2>2. Titles \subseteq Int /\ (\A d \in Dues : d \in Int) /\ \A t \in 0 .. MaxTime : t \in Int
    BY ListingAssumption
  <2>3. row.due_at \in Int \cup {Null}
    BY <2>1, <2>2
  <2>4. row.title \in Int /\ row.created_at \in Int /\ row.updated_at \in Int
    BY <2>1, <2>2
  <2> QED
    BY <2>3, <2>4
<1>2. o.col \in {"title", "due_at", "created_at", "updated_at"}
  BY DEF Order, Columns
<1>3. CASE o.col = "title"
  BY <1>1, <1>3
<1>4. CASE o.col = "due_at"
  BY <1>1, <1>4
<1>5. CASE o.col = "created_at"
  BY <1>1, <1>5
<1>6. CASE o.col = "updated_at"
  BY <1>1, <1>6
<1> QED
  BY <1>2, <1>3, <1>4, <1>5, <1>6

LEMMA RowOrNone ==
    /\ NoRow \notin Row
    /\ NoCursor \notin Cursor
    /\ NoCursor.id = Null /\ Null \notin Ids
<1>1. NoRow.title = Null /\ \A row \in Row : row.title \in Int
  BY ListingAssumption DEF NoRow, Row
<1>2. NoCursor.id = Null /\ (\A c \in Cursor : c.id \in Ids) /\ Null \notin Ids
  BY ListingAssumption DEF NoCursor, Cursor
<1> QED
  BY <1>1, <1>2, ListingAssumption

LEMMA MatchingRows ==
    ASSUME TypeOK, NEW i \in Matching
    PROVE  i \in Ids /\ i \in Int /\ rows[i] \in Row /\ rows[i] # NoRow /\ Holds(filter, rows[i])
BY ListingAssumption DEF TypeOK, Matching, MatchingIn

LEMMA KeyedRows ==
    ASSUME TypeOK, NEW o \in Order, KeyedBy(o), NEW i \in Matching
    PROVE  rows[i][o.col] \in Int
<1>1. rows[i] \in Row /\ Holds(filter, rows[i])
  BY MatchingRows
<1>2. PICK row \in Row : row = rows[i]
  BY <1>1
<1>3. CASE o.col # "due_at"
  BY <1>2, <1>3, KeyTyped
<1>4. CASE o.col = "due_at"
  <2>1. row.due_at # Null
    <3> SUFFICES ASSUME row.due_at = Null PROVE FALSE
      OBVIOUS
    <3>1. row = [title |-> row.title, due_at |-> Null, created_at |-> row.created_at,
                 updated_at |-> row.updated_at]
      BY DEF Row
    <3>2. row.title \in Titles /\ row.created_at \in 0 .. MaxTime /\ row.updated_at \in 0 .. MaxTime
      BY DEF Row
    <3> QED
      BY <1>1, <1>2, <1>4, <3>1, <3>2 DEF KeyedBy
  <2>2. row[o.col] \in Int \cup {Null}
    BY KeyTyped
  <2> QED
    BY <1>2, <1>4, <2>1, <2>2
<1> QED
  BY <1>3, <1>4

----------------------------------------------------------------------------
(* The order of the list.                                                  *)

\* On rows with keys, ORDER BY is the lexicographic order of key and id, on both
\* databases.
LEMMA BeforeSays ==
    ASSUME NEW o, NEW i \in Int, NEW j \in Int, rows[i][o.col] \in Int, rows[j][o.col] \in Int
    PROVE  Before(o, i, j) <=>
             IF o.desc THEN \/ rows[j][o.col] < rows[i][o.col]
                            \/ rows[j][o.col] = rows[i][o.col] /\ j < i
             ELSE \/ rows[i][o.col] < rows[j][o.col]
                  \/ rows[i][o.col] = rows[j][o.col] /\ i < j
<1>1. Null \notin Int
  BY ListingAssumption
<1> QED
  BY <1>1 DEF Before, Ascending, KeyLess

LEMMA BeforeIsOrder ==
    ASSUME NEW o, NEW i \in Int, NEW j \in Int, NEW k \in Int,
           rows[i][o.col] \in Int, rows[j][o.col] \in Int, rows[k][o.col] \in Int
    PROVE  /\ ~Before(o, i, i)
           /\ i # j => Before(o, i, j) \/ Before(o, j, i)
           /\ Before(o, i, j) /\ Before(o, j, k) => Before(o, i, k)
<1> DEFINE x == rows[i][o.col]
           y == rows[j][o.col]
           z == rows[k][o.col]
<1>1. x \in Int /\ y \in Int /\ z \in Int
  OBVIOUS
<1>2. /\ Before(o, i, i) <=> IF o.desc THEN x < x \/ (x = x /\ i < i) ELSE x < x \/ (x = x /\ i < i)
      /\ Before(o, i, j) <=> IF o.desc THEN y < x \/ (y = x /\ j < i) ELSE x < y \/ (x = y /\ i < j)
      /\ Before(o, j, i) <=> IF o.desc THEN x < y \/ (x = y /\ i < j) ELSE y < x \/ (y = x /\ j < i)
      /\ Before(o, j, k) <=> IF o.desc THEN z < y \/ (z = y /\ k < j) ELSE y < z \/ (y = z /\ j < k)
      /\ Before(o, i, k) <=> IF o.desc THEN z < x \/ (z = x /\ k < i) ELSE x < z \/ (x = z /\ i < k)
  BY BeforeSays
<1> HIDE DEF x, y, z
<1> QED
  BY <1>1, <1>2

\* A row is past the cursor made of another if it comes after it.
LEMMA PastMeansAfter ==
    ASSUME NEW o \in Order, NEW i \in Int, NEW j \in Int, rows[i][o.col] \in Int, rows[j][o.col] \in Int
    PROVE  PastCursor(NextCursor(o, i), j) <=> Before(o, i, j)
<1>1. Null \notin Int
  BY ListingAssumption
<1>2. SortVal(o, i) = rows[i][o.col]
  BY <1>1 DEF SortVal
<1>3. NextCursor(o, i).order = o /\ NextCursor(o, i).val = rows[i][o.col] /\ NextCursor(o, i).id = i
  BY <1>2 DEF NextCursor
<1>4. PastCursor(NextCursor(o, i), j) <=>
        IF o.desc THEN rows[j][o.col] < rows[i][o.col] \/ (rows[j][o.col] = rows[i][o.col] /\ j < i)
        ELSE rows[j][o.col] > rows[i][o.col] \/ (rows[j][o.col] = rows[i][o.col] /\ j > i)
  BY <1>1, <1>3 DEF PastCursor
<1> QED
  BY <1>4, BeforeSays

\* What is not past a cursor comes before what is.
LEMMA CursorDivides ==
    ASSUME NEW c \in Cursor, NEW i \in Int, NEW j \in Int,
           rows[i][c.order.col] \in Int, rows[j][c.order.col] \in Int,
           ~PastCursor(c, i), PastCursor(c, j)
    PROVE  Before(c.order, i, j)
<1> DEFINE o == c.order
           x == rows[i][o.col]
           y == rows[j][o.col]
<1>1. x \in Int /\ y \in Int /\ c.val \in Int /\ c.id \in Int /\ x # Null /\ y # Null
  BY ListingAssumption DEF Cursor
<1>2. /\ PastCursor(c, i) <=> IF o.desc THEN x < c.val \/ (x = c.val /\ i < c.id)
                              ELSE x > c.val \/ (x = c.val /\ i > c.id)
      /\ PastCursor(c, j) <=> IF o.desc THEN y < c.val \/ (y = c.val /\ j < c.id)
                              ELSE y > c.val \/ (y = c.val /\ j > c.id)
  BY <1>1 DEF PastCursor
<1>3. Before(o, i, j) <=> IF o.desc THEN y < x \/ (y = x /\ j < i) ELSE x < y \/ (x = y /\ i < j)
  BY BeforeSays
<1> HIDE DEF o, x, y
<1>4. Before(o, i, j)
  BY <1>1, <1>2, <1>3
<1> QED
  BY <1>4 DEF o

----------------------------------------------------------------------------
(* Pages.                                                                  *)

\* A page has no gaps.
LEMMA PageHasNoGaps ==
    ASSUME TypeOK, NEW o \in Order, KeyedBy(o), NEW hits \in SUBSET Matching, NEW n \in Nat,
           NEW i \in FirstOf(o, hits, n), NEW j \in hits, Before(o, j, i)
    PROVE  j \in FirstOf(o, hits, n)
<1> DEFINE A(k) == {h \in hits : Before(o, h, k)}
<1>1. i \in hits /\ Cardinality(A(i)) < n
  BY DEF FirstOf
<1>2. A(j) \subseteq A(i)
  <2> SUFFICES ASSUME NEW h \in hits, Before(o, h, j) PROVE Before(o, h, i)
    OBVIOUS
  <2>1. /\ h \in Int /\ i \in Int /\ j \in Int
        /\ rows[h][o.col] \in Int /\ rows[i][o.col] \in Int /\ rows[j][o.col] \in Int
    BY <1>1, MatchingRows, KeyedRows
  <2> QED
    BY <2>1, BeforeIsOrder
<1>3. IsFiniteSet(A(i))
  <2>1. A(i) \subseteq Ids /\ IsFiniteSet(Ids)
    BY ListingAssumption, MatchingRows
  <2> QED
    BY <2>1, FS_Subset
<1>4. IsFiniteSet(A(j)) /\ Cardinality(A(j)) <= Cardinality(A(i))
  BY <1>2, <1>3, FS_Subset
<1>5. Cardinality(A(j)) \in Nat /\ Cardinality(A(i)) \in Nat
  BY <1>3, <1>4, FS_CardinalityType
<1>6. Cardinality(A(j)) < n
  <2> HIDE DEF A
  <2> QED
    BY <1>1, <1>4, <1>5
<1> QED
  BY <1>6 DEF FirstOf

\* What a page leaves out comes after its last row, and what it has does not.
LEMMA PageDivides ==
    ASSUME TypeOK, NEW o \in Order, KeyedBy(o), NEW hits \in SUBSET Matching, NEW n \in Nat,
           NEW e \in hits, PageEnds(o, hits, n, e), NEW i \in hits
    PROVE  i \in FirstOf(o, hits, n) <=> ~PastCursor(NextCursor(o, e), i)
<1>1. e \in FirstOf(o, hits, n) /\ \A j \in FirstOf(o, hits, n) : ~Before(o, e, j)
  BY DEF PageEnds, IsLast
<1>2. /\ e \in Int /\ i \in Int /\ rows[e][o.col] \in Int /\ rows[i][o.col] \in Int
  BY MatchingRows, KeyedRows
<1>3. PastCursor(NextCursor(o, e), i) <=> Before(o, e, i)
  BY <1>2, PastMeansAfter
<1>4. i \notin FirstOf(o, hits, n) => Before(o, e, i)
  BY <1>1, <1>2, BeforeIsOrder, PageHasNoGaps
<1> QED
  BY <1>1, <1>3, <1>4

----------------------------------------------------------------------------
(* A page of the walk.                                                     *)

\* What a page keeps true of rows S that stay, if it was so before.
Shown(S, c) ==
    /\ c = NoCursor => seen = {}
    /\ c # NoCursor => \A i \in S : i \in seen <=> ~PastCursor(c, i)

Hits(c) == {i \in Matching : c = NoCursor \/ PastCursor(c, i)}

LEMMA LastPage ==
    ASSUME NEW S \in SUBSET Matching, NEW c, Shown(S, c)
    PROVE  S \subseteq seen \cup Hits(c)
BY DEF Shown, Hits

LEMMA PageMovesCursor ==
    ASSUME TypeOK, NEW o \in Order, KeyedBy(o), NEW n \in Nat,
           NEW S \in SUBSET Matching, NEW c \in Cursor \cup {NoCursor}, Shown(S, c),
           c # NoCursor => c.order = o,
           NEW e \in Hits(c), PageEnds(o, Hits(c), n, e), NEW i \in S
    PROVE  i \in seen \cup FirstOf(o, Hits(c), n) <=> ~PastCursor(NextCursor(o, e), i)
<1>1. Hits(c) \in SUBSET Matching /\ FirstOf(o, Hits(c), n) \subseteq Hits(c)
  BY DEF Hits, FirstOf
<1>2. CASE i \in Hits(c)
  <2>1. i \in FirstOf(o, Hits(c), n) <=> ~PastCursor(NextCursor(o, e), i)
    BY <1>1, <1>2, PageDivides
  <2>2. i \notin seen
    BY <1>2 DEF Hits, Shown
  <2> QED
    BY <2>1, <2>2
<1>3. CASE i \notin Hits(c)
  <2>1. c \in Cursor /\ c.order = o /\ ~PastCursor(c, i) /\ i \in seen /\ PastCursor(c, e)
    BY <1>3, RowOrNone DEF Hits, Shown
  <2>2. /\ e \in Int /\ i \in Int /\ rows[e][o.col] \in Int /\ rows[i][o.col] \in Int
    BY <1>1, MatchingRows, KeyedRows
  <2>3. Before(o, i, e)
    BY <2>1, <2>2, CursorDivides
  <2>4. ~Before(o, e, i)
    BY <2>2, <2>3, BeforeIsOrder
  <2> QED
    BY <2>1, <2>2, <2>4, PastMeansAfter
<1> QED
  BY <1>2, <1>3

\* Rows come in the order of the sort.
LEMMA PagesAscend ==
    ASSUME TypeOK, NEW o \in Order, KeyedBy(o),
           NEW S \in SUBSET Matching, NEW c \in Cursor \cup {NoCursor}, Shown(S, c),
           c # NoCursor => c.order = o,
           NEW i \in S, NEW j \in S, i \in seen, j \in Hits(c)
    PROVE  rows[i] # NoRow /\ Before(o, i, j)
<1>1. c \in Cursor /\ c.order = o /\ ~PastCursor(c, i) /\ PastCursor(c, j)
  BY RowOrNone DEF Hits, Shown
<1>2. /\ i \in Int /\ j \in Int /\ rows[i][o.col] \in Int /\ rows[j][o.col] \in Int /\ rows[i] # NoRow
  BY MatchingRows, KeyedRows
<1> QED
  BY <1>1, <1>2, CursorDivides

LEMMA Clamped ==
    ASSUME NEW n \in Int
    PROVE  ClampLimit(n) \in Nat
BY ListingAssumption DEF ClampLimit

LEMMA CursorTyped ==
    ASSUME TypeOK, NEW o \in Order, NEW i \in Matching
    PROVE  NextCursor(o, i) \in Cursor
<1>1. i \in Ids /\ rows[i][o.col] \in Int \cup {Null}
  BY MatchingRows, KeyTyped
<1>2. SortVal(o, i) \in Int
  BY <1>1 DEF SortVal
<1> QED
  BY <1>1, <1>2 DEF NextCursor, Cursor

\* The whole step, of the first page as of any other.
LEMMA SelectKeeps ==
    ASSUME WalkInv, NEW param \in SortParams, NEW limit \in LimitParams,
           NEW c \in Cursor \cup {NoCursor}, SelectPage(param, limit, c),
           order' = EffectiveSort(param, c),
           stable' \subseteq Matching, Keyed' => Shown(stable', c),
           c = NoCursor => seen = {} /\ swapped = {},
           c # NoCursor => order' = order /\ stable' = stable
    PROVE  WalkInv'
<1> DEFINE o == EffectiveSort(param, c)
           n == ClampLimit(limit)
           page == FirstOf(o, Hits(c), n)
<1>1. TypeOK
  BY DEF WalkInv
<1>2. o \in Order /\ n \in Nat /\ (c # NoCursor => c.order = o)
  <2>1. n \in Nat
    BY Clamped, ListingAssumption
  <2>2. o \in Order
    BY ListingAssumption DEF EffectiveSort, Cursor
  <2>3. c # NoCursor => c.order = o
    BY DEF EffectiveSort
  <2> QED
    BY <2>1, <2>2, <2>3
<1>3. /\ seen' = seen \cup page
      /\ swapped' = swapped \cup {p \in seen \X page : rows[p[1]] = NoRow \/ ~Before(order, p[1], p[2])}
      /\ \/ page = Hits(c) /\ cursor' = NoCursor
         \/ \E e \in Hits(c) : PageEnds(o, Hits(c), n, e) /\ cursor' = NextCursor(o, e)
      /\ at' = "count"
      /\ UNCHANGED <<dialect, rows, now, writes, filter>>
  BY DEF SelectPage, Hits
<1> HIDE DEF o, n
<1>4. page \subseteq Hits(c) /\ Hits(c) \in SUBSET Matching /\ Hits(c) \subseteq Ids
  BY DEF FirstOf, Hits, Matching, MatchingIn
<1>5. cursor' = NoCursor \/ (cursor' \in Cursor /\ cursor' # NoCursor /\ cursor'.order = o)
  <2>1. ASSUME NEW e \in Hits(c), cursor' = NextCursor(o, e)
        PROVE  cursor' \in Cursor /\ cursor' # NoCursor /\ cursor'.order = o
    <3>1. cursor' \in Cursor
      BY <1>1, <1>2, <1>4, <2>1, CursorTyped
    <3> QED
      BY <2>1, <3>1, RowOrNone DEF NextCursor
  <2> QED
    BY <1>3, <2>1
<1>6. order' = o
  BY DEF o
<1>7. TypeOK'
  <2>1. order' \in Order /\ cursor' \in Cursor \cup {NoCursor} /\ at' \in {"idle", "count", "next", "end"}
    BY <1>2, <1>3, <1>5, <1>6
  <2>2. seen' \subseteq Ids /\ swapped' \subseteq Ids \X Ids /\ stable' \subseteq Ids
    <3>1. seen \subseteq Ids /\ swapped \subseteq Ids \X Ids /\ page \subseteq Ids
      BY <1>1, <1>4 DEF TypeOK
    <3>2. stable' \subseteq Ids
      BY DEF Matching, MatchingIn
    <3> HIDE DEF page
    <3> QED
      BY <1>3, <3>1, <3>2
  <2>3. /\ dialect' \in Dialects /\ rows' \in [Ids -> Row \cup {NoRow}] /\ now' \in 0 .. MaxTime
        /\ writes' \in 0 .. MaxWrites /\ filter' \in Filters
    BY <1>1, <1>3 DEF TypeOK
  <2> QED
    BY <2>1, <2>2, <2>3 DEF TypeOK
<1>8. Steady'
  BY <1>3, <1>5, <1>6 DEF Steady
<1>9. Matching' = Matching /\ stable' \subseteq Matching'
  BY <1>3 DEF Matching
<1>10. ASSUME Keyed' PROVE Divided' /\ (swapped \cap (stable' \X stable') = {})
  <2>1. KeyedBy(o) /\ Shown(stable', c)
    BY <1>3, <1>6, <1>10 DEF Keyed, KeyedBy
  <2>2. ASSUME page = Hits(c), cursor' = NoCursor PROVE Divided'
    <3>1. stable' \subseteq seen'
      BY <1>3, <2>1, <2>2, LastPage
    <3> QED
      BY <2>2, <3>1 DEF Divided
  <2>3. ASSUME NEW e \in Hits(c), PageEnds(o, Hits(c), n, e), cursor' = NextCursor(o, e) PROVE Divided'
    <3>1. \A i \in stable' : i \in seen' <=> ~PastCursor(NextCursor(o, e), i)
      BY <1>1, <1>2, <1>3, <2>1, <2>3, PageMovesCursor
    <3>2. \A i \in stable' : PastCursor(cursor, i)' <=> PastCursor(NextCursor(o, e), i)
      BY <1>3, <2>3 DEF PastCursor
    <3>3. cursor' # NoCursor
      BY <1>1, <1>2, <1>4, <2>3, CursorTyped, RowOrNone
    <3> QED
      BY <3>1, <3>2, <3>3 DEF Divided
  <2>4. swapped \cap (stable' \X stable') = {}
    <3>1. CASE c = NoCursor
      BY <3>1
    <3>2. CASE c # NoCursor
      <4>1. Keyed
        BY <1>3, <1>10, <3>2 DEF Keyed
      <4> QED
        BY <3>2, <4>1 DEF WalkInv, InOrder
    <3> QED
      BY <3>1, <3>2
  <2> QED
    BY <1>3, <2>2, <2>3, <2>4
<1>11. ASSUME Keyed', NEW p \in stable' \X stable', p \in swapped' PROVE FALSE
  <2>1. KeyedBy(o) /\ Shown(stable', c)
    BY <1>3, <1>6, <1>11 DEF Keyed, KeyedBy
  <2>2. p \in seen \X page /\ (rows[p[1]] = NoRow \/ ~Before(order, p[1], p[2]))
    BY <1>3, <1>10, <1>11
  <2>3. p[1] \in seen /\ p[1] \in stable' /\ p[2] \in Hits(c) /\ p[2] \in stable'
    BY <1>4, <1>11, <2>2
  <2>4. c # NoCursor
    BY <2>3
  <2>5. order = o
    BY <1>6, <2>4
  <2>6. rows[p[1]] # NoRow /\ Before(o, p[1], p[2])
    BY <1>1, <1>2, <2>1, <2>3, PagesAscend
  <2> QED
    BY <2>2, <2>5, <2>6
<1>12. InOrder'
  BY <1>11 DEF InOrder
<1> QED
  BY <1>7, <1>8, <1>9, <1>10, <1>12 DEF WalkInv

LEMMA FirstPageKeeps ==
    ASSUME WalkInv, NEW param \in SortParams, NEW limit \in LimitParams, FirstPage(param, limit)
    PROVE  WalkInv'
<1>1. seen = {} /\ swapped = {} /\ stable' = Matching /\ order' = param
  BY DEF FirstPage, WalkInv, Steady
<1>2. EffectiveSort(param, NoCursor) = param
  BY DEF EffectiveSort
<1>3. Shown(stable', NoCursor)
  BY <1>1 DEF Shown
<1> QED
  BY <1>1, <1>2, <1>3, SelectKeeps DEF FirstPage

LEMMA NextPageKeeps ==
    ASSUME WalkInv, NEW param \in SortParams, NEW limit \in LimitParams, NextPage(param, limit)
    PROVE  WalkInv'
<1>1. cursor # NoCursor /\ cursor \in Cursor \cup {NoCursor} /\ cursor.order = order
  BY DEF NextPage, WalkInv, Steady, TypeOK
<1>2. order' = EffectiveSort(param, cursor) /\ order' = order /\ stable' = stable /\ stable \subseteq Matching
  BY <1>1 DEF EffectiveSort, NextPage, WalkInv
<1>3. Keyed' => Shown(stable', cursor)
  <2>1. Keyed' => Keyed
    BY <1>2 DEF Keyed, NextPage, SelectPage
  <2> QED
    BY <1>1, <1>2, <2>1 DEF Shown, WalkInv, Divided
<1> QED
  BY <1>1, <1>2, <1>3, SelectKeeps DEF NextPage

LEMMA RespondKeeps ==
    ASSUME WalkInv, CountAndRespond
    PROVE  WalkInv'
<1>1. /\ at = "count" /\ at' = (IF cursor = NoCursor THEN "end" ELSE "next")
      /\ UNCHANGED <<dialect, rows, now, writes, order, filter, cursor, seen, swapped, stable>>
  BY DEF CountAndRespond
<1>2. TypeOK' /\ Steady'
  BY <1>1 DEF WalkInv, TypeOK, Steady
<1>3. (Keyed' <=> Keyed) /\ Matching' = Matching
  BY <1>1 DEF Keyed, Matching
<1>4. \A i : PastCursor(cursor, i)' <=> PastCursor(cursor, i)
  BY <1>1 DEF PastCursor
<1>5. Keyed' => Divided'
  BY <1>1, <1>3, <1>4 DEF WalkInv, Divided
<1>6. stable' \subseteq Matching' /\ InOrder'
  BY <1>1, <1>3 DEF WalkInv, InOrder
<1> QED
  BY <1>2, <1>5, <1>6 DEF WalkInv

----------------------------------------------------------------------------
(* The writers.                                                            *)

\* A write anywhere: the rows that stay keep their keys and match as before.
LEMMA WriteKeeps ==
    ASSUME WalkInv, NEW i \in Ids, NEW row \in Row \cup {NoRow}, NEW t \in 0 .. MaxTime, Write(i, row, t)
    PROVE  WalkInv'
<1>1. /\ at \in {"count", "next"} /\ writes < MaxWrites /\ writes' = writes + 1 /\ now' = t
      /\ rows' = [rows EXCEPT ![i] = row]
      /\ UNCHANGED <<dialect, at, order, filter, cursor, seen, swapped>>
  BY DEF Write
<1>2. stable' \subseteq stable /\ (i \in stable' => /\ row # NoRow /\ Holds(filter, row)
                                                    /\ row[order.col] = rows[i][order.col])
  BY DEF Write
<1>3. rows' \in [Ids -> Row \cup {NoRow}] /\ rows'[i] = row /\ \A j \in Ids \ {i} : rows'[j] = rows[j]
  BY <1>1 DEF WalkInv, TypeOK
<1>4. TypeOK'
  <2>1. writes' \in 0 .. MaxWrites
    BY <1>1, ListingAssumption DEF WalkInv, TypeOK
  <2>2. stable' \subseteq Ids
    BY <1>2 DEF WalkInv, TypeOK
  <2> QED
    BY <1>1, <1>3, <2>1, <2>2 DEF WalkInv, TypeOK
<1>5. Steady'
  BY <1>1 DEF WalkInv, Steady
<1>6. \A j \in stable' : /\ j \in Ids /\ j \in stable /\ rows'[j] # NoRow /\ Holds(filter, rows'[j])
                         /\ rows'[j][order.col] = rows[j][order.col]
  <2> SUFFICES ASSUME NEW j \in stable'
               PROVE  /\ j \in Ids /\ j \in stable /\ rows'[j] # NoRow /\ Holds(filter, rows'[j])
                      /\ rows'[j][order.col] = rows[j][order.col]
    OBVIOUS
  <2>1. j \in stable /\ j \in Matching /\ j \in Ids /\ rows[j] # NoRow /\ Holds(filter, rows[j])
    BY <1>2, MatchingRows DEF WalkInv
  <2>2. CASE j = i
    BY <1>2, <1>3, <2>1, <2>2
  <2>3. CASE j # i
    BY <1>3, <2>1, <2>3
  <2> QED
    BY <2>2, <2>3
<1>7. stable' \subseteq Matching'
  BY <1>1, <1>6 DEF Matching, MatchingIn
<1>8. Keyed' <=> Keyed
  BY <1>1 DEF Keyed
<1>9. Keyed' => Divided'
  <2> SUFFICES ASSUME Keyed' PROVE Divided'
    OBVIOUS
  <2>1. Divided
    BY <1>8 DEF WalkInv
  <2>2. cursor # NoCursor => \A j \in stable' : PastCursor(cursor, j)' <=> PastCursor(cursor, j)
    <3> SUFFICES ASSUME cursor # NoCursor, NEW j \in stable'
                 PROVE  PastCursor(cursor, j)' <=> PastCursor(cursor, j)
      OBVIOUS
    <3>1. cursor.order = order /\ cursor' = cursor
      BY <1>1 DEF WalkInv, Steady
    <3>2. rows'[j][cursor.order.col] = rows[j][cursor.order.col]
      BY <1>6, <3>1
    <3> QED
      BY <3>1, <3>2 DEF PastCursor
  <2> QED
    BY <1>1, <1>2, <2>1, <2>2 DEF Divided
<1>10. InOrder'
  BY <1>1, <1>2, <1>8 DEF WalkInv, InOrder
<1> QED
  BY <1>4, <1>5, <1>7, <1>9, <1>10 DEF WalkInv

LEMMA WriterKeeps ==
    ASSUME WalkInv, WriterStep
    PROVE  WalkInv'
<1>1. PICK i \in Ids :
        \/ \E title \in Titles, due \in Dues \cup {Null} : Create(i, title, due) \/ Patch(i, title, due)
        \/ Delete(i)
  BY DEF WriterStep
<1>2. now \in 0 .. MaxTime /\ (rows[i] # NoRow => rows[i] \in Row) /\ MaxTime \in Nat
  BY ListingAssumption DEF WalkInv, TypeOK
<1>3. ASSUME NEW title \in Titles, NEW due \in Dues \cup {Null}, Create(i, title, due) PROVE WalkInv'
  <2>1. PICK t \in now .. MaxTime :
          Write(i, [title |-> title, due_at |-> due, created_at |-> t, updated_at |-> t], t)
    BY <1>3 DEF Create
  <2>2. t \in 0 .. MaxTime
    BY <1>2
  <2>3. [title |-> title, due_at |-> due, created_at |-> t, updated_at |-> t] \in Row
    BY <2>2 DEF Row
  <2> QED
    BY <2>1, <2>2, <2>3, WriteKeeps
<1>4. ASSUME NEW title \in Titles, NEW due \in Dues \cup {Null}, Patch(i, title, due) PROVE WalkInv'
  <2>1. PICK t \in now .. MaxTime :
          Write(i, [title |-> title, due_at |-> due, created_at |-> rows[i].created_at, updated_at |-> t], t)
    BY <1>4 DEF Patch
  <2>2. t \in 0 .. MaxTime
    BY <1>2
  <2>3. rows[i].created_at \in 0 .. MaxTime
    BY <1>2, <1>4 DEF Patch, Row
  <2>4. [title |-> title, due_at |-> due, created_at |-> rows[i].created_at, updated_at |-> t] \in Row
    BY <2>2, <2>3 DEF Row
  <2> QED
    BY <2>1, <2>2, <2>4, WriteKeeps
<1>5. CASE Delete(i)
  BY <1>2, <1>5, WriteKeeps DEF Delete
<1> QED
  BY <1>1, <1>3, <1>4, <1>5

----------------------------------------------------------------------------
(* The invariant.                                                          *)

LEMMA InitWalks == Init => WalkInv
<1> SUFFICES ASSUME Init PROVE WalkInv
  OBVIOUS
<1>1. TypeOK
  <2>1. [title : Titles, due_at : Dues \cup {Null}, created_at : {0}, updated_at : {0}] \subseteq Row
    <3>1. 0 \in 0 .. MaxTime
      BY ListingAssumption
    <3> QED
      BY <3>1 DEF Row
  <2>2. rows \in [Ids -> Row \cup {NoRow}]
    BY <2>1 DEF Init
  <2>3. order \in Order
    BY DEF Init, Order, Columns
  <2>4. now \in 0 .. MaxTime /\ writes \in 0 .. MaxWrites
    BY ListingAssumption DEF Init
  <2> QED
    BY <2>2, <2>3, <2>4 DEF Init, TypeOK
<1>2. Steady /\ Divided /\ InOrder /\ stable \subseteq Matching
  BY DEF Init, Steady, Divided, InOrder
<1> QED
  BY <1>1, <1>2 DEF WalkInv

LEMMA NextWalks == WalkInv /\ [Next]_vars => WalkInv'
<1> SUFFICES ASSUME WalkInv, [Next]_vars PROVE WalkInv'
  OBVIOUS
<1>1. CASE UNCHANGED vars
  <2>1. UNCHANGED <<dialect, rows, now, writes, at, order, filter, cursor, seen, swapped, stable>>
    BY <1>1 DEF vars
  <2>2. TypeOK' /\ Steady'
    BY <2>1 DEF WalkInv, TypeOK, Steady
  <2>3. (Keyed' <=> Keyed) /\ Matching' = Matching /\ \A i : PastCursor(cursor, i)' <=> PastCursor(cursor, i)
    BY <2>1 DEF Keyed, Matching, PastCursor
  <2>4. Keyed' => Divided'
    BY <2>1, <2>3 DEF WalkInv, Divided
  <2>5. stable' \subseteq Matching' /\ InOrder'
    BY <2>1, <2>3 DEF WalkInv, InOrder
  <2> QED
    BY <2>2, <2>4, <2>5 DEF WalkInv
<1>2. ASSUME NEW param \in SortParams, NEW limit \in LimitParams, FirstPage(param, limit) PROVE WalkInv'
  BY <1>2, FirstPageKeeps
<1>3. CASE ClientStep
  BY <1>3, NextPageKeeps, RespondKeeps DEF ClientStep
<1>4. CASE WriterStep
  BY <1>4, WriterKeeps
<1> QED
  BY <1>1, <1>2, <1>3, <1>4 DEF Next, Finished

LEMMA Invariant == Spec => []WalkInv
BY InitWalks, NextWalks, PTL DEF Spec

----------------------------------------------------------------------------
(* Results.                                                                *)

\* The table, the cursor and what the walk has returned keep their types.
THEOREM TypeCorrect == Spec => []TypeOK
<1>1. WalkInv => TypeOK
  BY DEF WalkInv
<1> QED
  BY <1>1, Invariant, PTL

\* A walk that has ended returned every row that matched all the time and kept its
\* sort key, for any sort, filter and page sizes, whatever was written meanwhile.
THEOREM WalksMissNothing == Spec => []NothingMissed
<1>1. WalkInv => NothingMissed
  BY DEF WalkInv, Steady, Divided, NothingMissed
<1> QED
  BY <1>1, Invariant, PTL

\* Such rows come in the order of the sort, and none of them twice.
THEOREM WalksInOrder == Spec => []InOrder
<1>1. WalkInv => InOrder
  BY DEF WalkInv
<1> QED
  BY <1>1, Invariant, PTL

----------------------------------------------------------------------------
(* Activities and what is read of them.                                    *)

\* A link of activity a is to the record that was named, by its id or as it was
\* sent; while the record exists it is by id, unless the lookup failed.
LinkHolds(a, k) ==
    IF a.named[k] = Blank THEN a.link[k] = Blank
    ELSE /\ a.link[k] \in {a.named[k], Handle(a.named[k])}
         /\ a.named[k] \in exists /\ k \notin a.lost => a.link[k] = a.named[k]

Linked == \A n \in DOMAIN acts : \A k \in Kind : LinkHolds(acts[n], k)

\* An activity under way has its links but for the references still to look up.
LogSound(q) ==
    /\ q.at = "insert" => q.todo = {}
    /\ \A x, y \in q.todo : KindOf[x.rec] = KindOf[y.rec] => x = y
    /\ \A x \in q.todo : q.act.named[KindOf[x.rec]] = x.rec
    /\ \A k \in Kind : (\A x \in q.todo : KindOf[x.rec] # k) => LinkHolds(q.act, k)

\* A timeline under way asks for the records that are wanted and for no others, but
\* for the references still to look up and those whose lookup failed.
ReadSound(q) ==
    /\ q.at = "filter" => q.todo # {}
    /\ q.at = "select" => q.todo = {} /\ q.ids # {}
    /\ \A x \in q.todo : x.rec \in q.wanted
    /\ \A i \in q.ids : \E r \in q.wanted : i \in {r, Handle(r)}
    /\ \A r \in (q.wanted \cap exists) \ q.lost : r \in q.ids \/ \E x \in q.todo : x.rec = r

Figures(r) == StatsOf(Of(r))

\* What a page has read of a record is so still, unless its activities have changed.
PageSound(q) ==
    /\ q.at \in {"stats", "principals"} =>
         q.failed = {} /\ \A r \in q.page \ q.moved : Fits(r, q.filter)
    /\ q.at = "principals" => \A r \in q.page \ q.moved : q.stats[r] = Figures(r)
    /\ q.at = "page" => \A r \in q.page \ q.moved : Agrees(q, r)

Sound(q) ==
    /\ q.at \in {"link", "insert"} => LogSound(q)
    /\ q.at \in {"filter", "select"} => ReadSound(q)
    /\ q.at \in {"stats", "principals", "page"} => PageSound(q)

TimelineInv ==
    /\ TimelineTypeOK
    /\ Linked
    /\ \A q \in {req[s] : s \in Slot} : Sound(q)

Requests == {NoReq} \cup LogReq \cup TimelineReq \cup PageReq

LEMMA ByStep ==
    ASSUME NEW q \in Requests
    PROVE  /\ q.at \in {"link", "insert"} <=> q \in LogReq
           /\ q.at \in {"filter", "select", "timeline"} <=> q \in TimelineReq
           /\ q.at \in {"stats", "principals", "page"} <=> q \in PageReq
           /\ q.at = "none" <=> q = NoReq
BY DEF Requests, NoReq, LogReq, TimelineReq, PageReq

LEMMA NoReqSound == Sound(NoReq) /\ Sound(NoReq)'
BY DEF Sound, NoReq

LEMMA Kinds == \A r \in Record : KindOf[r] \in Kind
BY DEF Kind

\* Whatever part of the activities is counted, the count fits.
LEMMA Counted ==
    ASSUME TimelineTypeOK, NEW S \in SUBSET DOMAIN acts
    PROVE  Cardinality(S) \in 0 .. MaxActs /\ (S # {} => Cardinality(S) > 0)
<1>1. logged \in Nat /\ logged <= MaxActs
  BY TimelineAssumption DEF TimelineTypeOK
<1>2. IsFiniteSet(1 .. logged) /\ Cardinality(1 .. logged) = logged
  BY <1>1, FS_Interval
<1>3. S \in SUBSET (1 .. logged)
  BY DEF TimelineTypeOK
<1>4. IsFiniteSet(S) /\ Cardinality(S) <= logged
  BY <1>2, <1>3, FS_Subset
<1>5. Cardinality(S) \in Nat
  BY <1>4, FS_CardinalityType
<1> QED
  BY <1>1, <1>4, <1>5, FS_EmptySet, TimelineAssumption

\* Where a record's activities are the same, so is what they say of it.
LEMMA SaysTheSame ==
    ASSUME NEW r, Of(r)' = Of(r), \A n \in Of(r) : acts'[n] = acts[n]
    PROVE  Figures(r)' = Figures(r) /\ \A f : Fits(r, f)' <=> Fits(r, f)
<1>1. Outreach(Of(r))' = Outreach(Of(r))
  BY DEF Outreach
<1>2. Principals(Of(r))' = Principals(Of(r))
  BY DEF Principals
<1>3. Figures(r)' = Figures(r)
  BY <1>1 DEF Figures, StatsOf
<1>4. ASSUME NEW f PROVE Fits(r, f)' <=> Fits(r, f)
  BY <1>1, <1>2 DEF Fits
<1> QED
  BY <1>3, <1>4

\* A link holds on while records are deleted.
LEMMA LinkStays ==
    ASSUME exists' \subseteq exists, NEW a, NEW k, LinkHolds(a, k)
    PROVE  LinkHolds(a, k)'
BY DEF LinkHolds

\* So does what a request knows of its references.
LEMMA SoundStays ==
    ASSUME exists' \subseteq exists, NEW q \in Requests \ PageReq, Sound(q)
    PROVE  Sound(q)'
<1>1. q.at \notin {"stats", "principals", "page"}
  BY ByStep
<1>2. LogSound(q) => LogSound(q)'
  BY LinkStays DEF LogSound
<1>3. ReadSound(q) => ReadSound(q)'
  BY DEF ReadSound
<1> QED
  BY <1>1, <1>2, <1>3 DEF Sound

\* A page is what it was for the records whose activities have not changed.
LEMMA PageStays ==
    ASSUME NEW q \in PageReq, Sound(q), NEW records,
           \A r \in Record \ records :
             Of(r)' = Of(r) /\ \A n \in Of(r) : acts'[n] = acts[n]
    PROVE  LET n == [q EXCEPT !.moved = @ \cup records]
           IN  (n \in PageReq \/ ~(records \subseteq Record)) /\ Sound(n)'
<1> DEFINE n == [q EXCEPT !.moved = @ \cup records]
<1>1. /\ n.at = q.at /\ n.page = q.page /\ n.filter = q.filter /\ n.stats = q.stats
      /\ n.principals = q.principals /\ n.failed = q.failed /\ n.moved = q.moved \cup records
      /\ q.page \subseteq Record /\ q.at \in {"stats", "principals", "page"}
      /\ records \subseteq Record => n \in PageReq
  BY DEF PageReq
<1> HIDE DEF n
<1>2. PageSound(q)
  BY <1>1 DEF Sound
<1>3. \A r \in n.page \ n.moved : r \in q.page \ q.moved /\ r \in Record \ records
  BY <1>1
<1>4. \A r \in n.page \ n.moved : Agrees(q, r) <=> Agrees(n, r)
  BY <1>1 DEF Agrees
<1>5. \A r \in n.page \ n.moved : Figures(r)' = Figures(r) /\ (Fits(r, q.filter)' <=> Fits(r, q.filter))
  BY <1>3, SaysTheSame
<1>6. /\ q.at \in {"stats", "principals"} =>
           q.failed = {} /\ \A r \in q.page \ q.moved : Fits(r, q.filter)
      /\ q.at = "principals" => \A r \in q.page \ q.moved : q.stats[r] = Figures(r)
      /\ q.at = "page" => \A r \in q.page \ q.moved : Agrees(q, r)
  BY <1>2 DEF PageSound
<1>7. PICK m : m = n
  OBVIOUS
<1>8. PageSound(m)'
  BY <1>1, <1>3, <1>4, <1>5, <1>6, <1>7 DEF PageSound
<1>9. Sound(m)'
  BY <1>1, <1>7, <1>8 DEF Sound
<1> QED
  BY <1>1, <1>7, <1>9 DEF n

LEMMA InitTimeline == TimelineInit => TimelineInv
<1> SUFFICES ASSUME TimelineInit PROVE TimelineInv
  OBVIOUS
<1>1. TimelineTypeOK
  BY TimelineAssumption DEF TimelineInit, TimelineTypeOK
<1>2. Linked
  BY DEF TimelineInit, Linked
<1> QED
  BY <1>1, <1>2, NoReqSound DEF TimelineInit, TimelineInv

\* The step of one request that changes nothing else.
LEMMA OneRequest ==
    ASSUME TimelineInv, NEW s \in Slot, NEW n \in Requests, Sound(n),
           req' = [req EXCEPT ![s] = n], UNCHANGED <<exists, acts, logged>>
    PROVE  TimelineInv'
<1>1. req \in [Slot -> Requests]
  BY DEF TimelineInv, TimelineTypeOK, Requests
<1>2. TimelineTypeOK'
  BY <1>1 DEF TimelineInv, TimelineTypeOK, Requests
<1>3. Linked'
  BY LinkStays DEF TimelineInv, Linked
<1>4. ASSUME NEW q \in Requests, Sound(q) PROVE Sound(q)'
  <2>1. CASE q \notin PageReq
    BY <1>4, <2>1, SoundStays
  <2>2. CASE q \in PageReq
    <3>1. \A r \in Record : Of(r)' = Of(r) /\ \A m \in Of(r) : acts'[m] = acts[m]
      BY DEF Of
    <3>2. [q EXCEPT !.moved = @ \cup {}] = q
      BY <2>2 DEF PageReq
    <3> QED
      BY <1>4, <2>2, <3>1, <3>2, PageStays
  <2> QED
    BY <2>1, <2>2
<1>5. ASSUME NEW t \in Slot, NEW q, q = req'[t] PROVE Sound(q)'
  <2>1. q \in Requests /\ Sound(q)
    BY <1>1, <1>5 DEF TimelineInv
  <2> QED
    BY <1>4, <2>1
<1> QED
  BY <1>2, <1>3, <1>5 DEF TimelineInv

----------------------------------------------------------------------------
(* Logging an activity.                                                    *)

LEMMA AskLogKeeps ==
    ASSUME TimelineInv, NEW s \in Slot, NEW r \in Record, NEW sent \in SUBSET Ref, NEW sort \in Sorts,
           AskLog(s, r, sent, sort)
    PROVE  TimelineInv'
<1> DEFINE records == {r} \cup {ref.rec : ref \in sent}
           named == [k \in Kind |-> IF \E x \in records : KindOf[x] = k
                                    THEN CHOOSE x \in records : KindOf[x] = k ELSE Blank]
           link == [k \in Kind |-> IF k = KindOf[r] THEN r ELSE Blank]
           act == [link |-> link, what |-> sort[1], who |-> sort[2], named |-> named, lost |-> {}]
           new == [at |-> IF sent = {} THEN "insert" ELSE "link", todo |-> sent, act |-> act]
<1>1. /\ req' = [req EXCEPT ![s] = new]
      /\ UNCHANGED <<exists, acts, logged>>
      /\ \A ref \in sent : KindOf[ref.rec] # KindOf[r]
      /\ \A ref, other \in sent : KindOf[ref.rec] = KindOf[other.rec] => ref = other
  BY DEF AskLog
<1>2. records \subseteq Record
  BY DEF Ref
<1>3. named \in [Kind -> Record \cup {Blank}] /\ \A x \in records : named[KindOf[x]] = x
  <2>1. \A x, y \in records : KindOf[x] = KindOf[y] => x = y
    BY <1>1
  <2>2. ASSUME NEW x \in records PROVE named[KindOf[x]] = x
    <3>1. KindOf[x] \in Kind
      BY <1>2, Kinds
    <3> QED
      BY <2>1, <3>1
  <2>3. ASSUME NEW k \in Kind PROVE named[k] \in Record \cup {Blank}
    BY <1>2
  <2> QED
    BY <2>2, <2>3
<1>4. \A k \in Kind : (\A x \in records : KindOf[x] # k) => named[k] = Blank
  OBVIOUS
<1>5. link \in [Kind -> Text] /\ link[KindOf[r]] = r
  BY Kinds DEF Text
<1>6. sort[1] \in What /\ sort[2] \in Principal \cup {Blank}
  BY TimelineAssumption
<1> HIDE DEF named, link
<1>7. act \in Activity
  BY <1>3, <1>5, <1>6 DEF Activity
<1>8. ASSUME NEW k \in Kind, \A x \in sent : KindOf[x.rec] # k PROVE LinkHolds(act, k)
  <2>1. CASE k = KindOf[r]
    BY <1>3, <1>5, <2>1, TimelineAssumption DEF LinkHolds
  <2>2. CASE k # KindOf[r]
    BY <1>4, <1>8, <2>2 DEF LinkHolds, link
  <2> QED
    BY <2>1, <2>2
<1>9. PICK a : a = act
  OBVIOUS
<1>10. PICK n : n = [at |-> IF sent = {} THEN "insert" ELSE "link", todo |-> sent, act |-> a]
  OBVIOUS
<1>11. /\ n \in LogReq
       /\ n.at = (IF sent = {} THEN "insert" ELSE "link") /\ n.todo = sent /\ n.act = a
       /\ a.named = named
  BY <1>7, <1>9, <1>10 DEF LogReq
<1>12. \A k \in Kind : (\A x \in sent : KindOf[x.rec] # k) => LinkHolds(a, k)
  BY <1>8, <1>9
<1>13. \A x \in sent : named[KindOf[x.rec]] = x.rec
  BY <1>3
<1> HIDE DEF act
<1>14. LogSound(n)
  BY <1>1, <1>11, <1>12, <1>13 DEF LogSound
<1>15. Sound(n) /\ n \in Requests
  BY <1>10, <1>11, <1>14 DEF Sound, Requests
<1> QED
  BY <1>1, <1>9, <1>10, <1>15, OneRequest

LEMMA LinkKeeps ==
    ASSUME TimelineInv, NEW s \in Slot, Link(s)
    PROVE  TimelineInv'
<1>1. PICK q : q = req[s]
  OBVIOUS
<1>2. q \in LogReq /\ q.at = "link" /\ Sound(q)
  <2>1. q \in Requests /\ q.at = "link"
    BY <1>1 DEF Link, TimelineInv, TimelineTypeOK, Requests
  <2> QED
    BY <1>1, <2>1, ByStep DEF TimelineInv
<1>3. LogSound(q)
  BY <1>2 DEF Sound
<1>4. PICK ref \in req[s].todo, ok \in BOOLEAN :
        LET k == KindOf[ref.rec]
            todo == req[s].todo \ {ref}
            lost == IF ok \/ ref.form = "id" THEN {} ELSE {k}
        IN req' = [req EXCEPT ![s] =
             [at |-> IF todo = {} THEN "insert" ELSE "link", todo |-> todo,
              act |-> [req[s].act EXCEPT !.link[k] = IF ok THEN Found(ref) ELSE AsSent(ref),
                                         !.lost = @ \cup lost]]]
  BY DEF Link
<1> DEFINE k == KindOf[ref.rec]
           todo == q.todo \ {ref}
           lost == IF ok \/ ref.form = "id" THEN {} ELSE {k}
           text == IF ok THEN Found(ref) ELSE AsSent(ref)
           act == [q.act EXCEPT !.link[k] = text, !.lost = @ \cup lost]
<1>5. ref \in q.todo /\ ref \in Ref /\ k \in Kind /\ ref.rec \in Record /\ q.act \in Activity
  BY <1>1, <1>2, <1>4, Kinds DEF LogReq, Ref
<1>6. text \in {ref.rec, Handle(ref.rec)} /\ text \in Text
  BY <1>5 DEF Found, AsSent, Text
<1>7. ref.rec \in exists /\ k \notin lost => text = ref.rec
  BY <1>5 DEF Found, AsSent
<1>8. lost \subseteq Kind
  BY <1>5
<1> HIDE DEF k, lost, text, todo
<1>9. /\ act \in Activity /\ act.named = q.act.named
      /\ act.link = [q.act.link EXCEPT ![k] = text] /\ act.lost = q.act.lost \cup lost
      /\ q.act.link \in [Kind -> Text] /\ q.act.named \in [Kind -> Record \cup {Blank}]
  BY <1>5, <1>6, <1>8 DEF Activity
<1> DEFINE step == IF todo = {} THEN "insert" ELSE "link"
           new == [at |-> step, todo |-> todo, act |-> act]
<1>10. req' = [req EXCEPT ![s] = new] /\ UNCHANGED <<exists, acts, logged>>
  BY <1>1, <1>4 DEF Link, k, lost, text, todo
<1>11. PICK a : a = act
  OBVIOUS
<1> HIDE DEF act
<1>12. PICK n : n = [at |-> step, todo |-> todo, act |-> a]
  OBVIOUS
<1>13. n.at = step /\ n.todo = todo /\ n.act = a /\ n \in LogReq
  <2>1. todo \in SUBSET Ref
    BY <1>2 DEF LogReq, todo
  <2>2. step \in {"link", "insert"} /\ a \in Activity
    BY <1>9, <1>11
  <2> QED
    BY <1>12, <2>1, <2>2 DEF LogReq
<1>14. /\ \A x, y \in q.todo : KindOf[x.rec] = KindOf[y.rec] => x = y
       /\ \A x \in q.todo : q.act.named[KindOf[x.rec]] = x.rec
  BY <1>3 DEF LogSound
<1>15. ASSUME NEW j \in Kind, \A x \in todo : KindOf[x.rec] # j PROVE LinkHolds(a, j)
  <2>1. CASE j = k
    <3>1. a.named[j] = ref.rec /\ a.link[j] = text
      BY <1>5, <1>9, <1>11, <1>14, <2>1 DEF k
    <3>2. j \notin a.lost => k \notin lost
      BY <1>9, <1>11, <2>1
    <3> QED
      BY <1>5, <1>6, <1>7, <3>1, <3>2, TimelineAssumption DEF LinkHolds
  <2>2. CASE j # k
    <3>1. \A x \in q.todo : KindOf[x.rec] # j
      BY <1>15, <2>2 DEF todo, k
    <3>2. LinkHolds(q.act, j)
      BY <1>3, <3>1 DEF LogSound
    <3>3. a.link[j] = q.act.link[j] /\ a.named[j] = q.act.named[j] /\ (j \notin a.lost => j \notin q.act.lost)
      BY <1>9, <1>11, <2>2
    <3> QED
      BY <3>2, <3>3 DEF LinkHolds
  <2> QED
    BY <2>1, <2>2
<1>16. LogSound(n)
  BY <1>9, <1>11, <1>13, <1>14, <1>15 DEF LogSound, todo
<1>17. Sound(n) /\ n \in Requests
  BY <1>13, <1>16 DEF Sound, Requests
<1> QED
  BY <1>10, <1>11, <1>12, <1>17, OneRequest

\* A change of the activities: they change for no record but those of one activity,
\* and the pages under way hear of it.
LEMMA ActsChange ==
    ASSUME TimelineInv, NEW records \in SUBSET Record,
           req' \in [Slot -> Requests],
           \A t \in Slot :
             \/ req'[t] = NoReq
             \/ req[t] \in PageReq /\ req'[t] = [req[t] EXCEPT !.moved = @ \cup records]
             \/ req[t] \notin PageReq /\ req'[t] = req[t],
           \A r \in Record \ records :
             Of(r)' = Of(r) /\ \A n \in Of(r) : acts'[n] = acts[n],
           exists' = exists
    PROVE  \A q \in {req'[t] : t \in Slot} : Sound(q)'
<1> SUFFICES ASSUME NEW t \in Slot, NEW q, q = req'[t] PROVE Sound(q)'
  OBVIOUS
<1>1. PICK p : p = req[t]
  OBVIOUS
<1>2. p \in Requests /\ Sound(p)
  BY <1>1 DEF TimelineInv, TimelineTypeOK, Requests
<1>3. CASE q = NoReq
  BY <1>3, NoReqSound
<1>4. CASE p \in PageReq /\ q = [p EXCEPT !.moved = @ \cup records]
  BY <1>2, <1>4, PageStays
<1>5. CASE p \notin PageReq /\ q = p
  BY <1>2, <1>5, SoundStays
<1> QED
  BY <1>1, <1>3, <1>4, <1>5

LEMMA MovedType ==
    ASSUME NEW q \in PageReq, NEW records \in SUBSET Record
    PROVE  [q EXCEPT !.moved = @ \cup records] \in Requests
BY DEF PageReq, Requests

LEMMA InsertKeeps ==
    ASSUME TimelineInv, NEW s \in Slot, Insert(s)
    PROVE  TimelineInv'
<1>1. PICK a : a = req[s].act
  OBVIOUS
<1>2. req \in [Slot -> Requests]
  BY DEF TimelineInv, TimelineTypeOK, Requests
<1>3. PICK q : q = req[s]
  OBVIOUS
<1>4. q \in LogReq /\ q.at = "insert" /\ Sound(q)
  BY <1>2, <1>3, ByStep DEF Insert, TimelineInv
<1>5. a \in Activity /\ \A k \in Kind : LinkHolds(a, k)
  <2>1. LogSound(q)
    BY <1>4 DEF Sound
  <2> QED
    BY <1>1, <1>3, <1>4, <2>1 DEF LogSound, LogReq
<1> DEFINE records == {a.link[k] : k \in Kind} \cap Record
<1>6. /\ logged < MaxActs /\ logged' = logged + 1 /\ exists' = exists
      /\ acts' = [n \in DOMAIN acts \cup {logged + 1} |-> IF n = logged + 1 THEN a ELSE acts[n]]
      /\ req' = [t \in Slot |->
           IF t = s THEN NoReq
           ELSE IF req[t] \in PageReq THEN [req[t] EXCEPT !.moved = @ \cup records]
           ELSE req[t]]
  BY <1>1 DEF Insert, Moves
<1> HIDE DEF records
<1>7. logged \in Nat /\ logged + 1 \notin DOMAIN acts /\ DOMAIN acts \subseteq 1 .. logged
  BY DEF TimelineInv, TimelineTypeOK
<1>8. records \in SUBSET Record
  BY DEF records
<1>9. req' \in [Slot -> Requests]
  <2>1. NoReq \in Requests
    BY DEF Requests
  <2> QED
    BY <1>2, <1>6, <1>8, <2>1, MovedType
<1>10. ASSUME NEW r \in Record \ records
       PROVE  Of(r)' = Of(r) /\ \A n \in Of(r) : acts'[n] = acts[n]
  <2>1. a.link[KindOf[r]] # r
    BY <1>10, Kinds DEF records
  <2> QED
    BY <1>6, <1>7, <2>1 DEF Of
<1>11. \A p \in {req'[t] : t \in Slot} : Sound(p)'
  BY <1>2, <1>6, <1>8, <1>9, <1>10, ActsChange
<1>12. TimelineTypeOK'
  <2>1. logged' \in 0 .. MaxActs
    BY <1>6, <1>7, TimelineAssumption
  <2>2. DOMAIN acts' \subseteq 1 .. logged' /\ \A n \in DOMAIN acts' : acts'[n] \in Activity
    BY <1>5, <1>6, <1>7 DEF TimelineInv, TimelineTypeOK
  <2> QED
    BY <1>6, <1>9, <2>1, <2>2 DEF TimelineInv, TimelineTypeOK, Requests
<1>13. Linked'
  <2>1. ASSUME NEW n \in DOMAIN acts', NEW k \in Kind, NEW b, b = acts'[n] PROVE LinkHolds(b, k)'
    <3>1. LinkHolds(b, k)
      BY <1>5, <1>6, <2>1 DEF TimelineInv, Linked
    <3> QED
      BY <1>6, <3>1, LinkStays
  <2> QED
    BY <2>1 DEF Linked
<1> QED
  BY <1>11, <1>12, <1>13 DEF TimelineInv

LEMMA DeleteActivityKeeps ==
    ASSUME TimelineInv, NEW n \in 1 .. MaxActs, DeleteActivity(n)
    PROVE  TimelineInv'
<1>1. PICK a : a = acts[n]
  OBVIOUS
<1>2. req \in [Slot -> Requests]
  BY DEF TimelineInv, TimelineTypeOK, Requests
<1> DEFINE records == {a.link[k] : k \in Kind} \cap Record
<1>3. /\ logged' = logged /\ exists' = exists
      /\ acts' = [m \in DOMAIN acts \ {n} |-> acts[m]]
      /\ req' = [t \in Slot |->
           IF req[t] \in PageReq THEN [req[t] EXCEPT !.moved = @ \cup records] ELSE req[t]]
  BY <1>1 DEF DeleteActivity, Restrict
<1> HIDE DEF records
<1>4. records \in SUBSET Record
  BY DEF records
<1>5. req' \in [Slot -> Requests]
  BY <1>2, <1>3, <1>4, MovedType
<1>6. ASSUME NEW r \in Record \ records
      PROVE  Of(r)' = Of(r) /\ \A m \in Of(r) : acts'[m] = acts[m]
  <2>1. a.link[KindOf[r]] # r
    BY <1>6, Kinds DEF records
  <2> QED
    BY <1>1, <1>3, <2>1 DEF Of
<1>7. \A p \in {req'[t] : t \in Slot} : Sound(p)'
  BY <1>2, <1>3, <1>4, <1>5, <1>6, ActsChange
<1>8. TimelineTypeOK'
  BY <1>3, <1>5 DEF TimelineInv, TimelineTypeOK, Requests
<1>9. Linked'
  <2>1. ASSUME NEW m \in DOMAIN acts', NEW k \in Kind, NEW b, b = acts'[m] PROVE LinkHolds(b, k)'
    <3>1. LinkHolds(b, k)
      BY <1>3, <2>1 DEF TimelineInv, Linked
    <3> QED
      BY <1>3, <3>1, LinkStays
  <2> QED
    BY <2>1 DEF Linked
<1> QED
  BY <1>7, <1>8, <1>9 DEF TimelineInv

----------------------------------------------------------------------------
(* Reading a timeline.                                                     *)

LEMMA AskTimelineKeeps ==
    ASSUME TimelineInv, NEW s \in Slot,
           (\E k \in Kind, refs \in SUBSET Ref : refs \subseteq RefsTo(k) /\ AskTimeline(s, k, refs))
             \/ (\E r \in Record : AskRecordTimeline(s, r))
    PROVE  TimelineInv'
<1>1. ASSUME NEW k \in Kind, NEW refs \in SUBSET Ref, AskTimeline(s, k, refs)
      PROVE  TimelineInv'
  <2>1. refs # {}
    BY <1>1, FS_EmptySet DEF AskTimeline
  <2> DEFINE wanted == {ref.rec : ref \in refs}
  <2>2. wanted \subseteq Record
    BY DEF Ref
  <2>3. PICK n : n = [at |-> "filter", kind |-> k, todo |-> refs, ids |-> {}, wanted |-> wanted,
                      lost |-> {}, shown |-> {}]
    OBVIOUS
  <2>4. /\ n \in TimelineReq /\ n.at = "filter" /\ n.todo = refs /\ n.ids = {}
        /\ n.wanted = wanted
    BY <2>2, <2>3 DEF TimelineReq
  <2>5. ReadSound(n)
    BY <2>1, <2>4 DEF ReadSound
  <2>6. Sound(n) /\ n \in Requests
    BY <2>4, <2>5 DEF Sound, Requests
  <2>7. req' = [req EXCEPT ![s] = n] /\ UNCHANGED <<exists, acts, logged>>
    BY <1>1, <2>3 DEF AskTimeline, Reading
  <2> QED
    BY <2>6, <2>7, OneRequest
<1>2. ASSUME NEW r \in Record, AskRecordTimeline(s, r)
      PROVE  TimelineInv'
  <2>1. PICK n : n = [at |-> "select", kind |-> KindOf[r], todo |-> {}, ids |-> {r},
                      wanted |-> {r}, lost |-> {}, shown |-> {}]
    OBVIOUS
  <2>2. /\ n \in TimelineReq /\ n.at = "select" /\ n.todo = {} /\ n.ids = {r}
        /\ n.wanted = {r}
    BY <2>1, Kinds DEF TimelineReq, Text
  <2>3. ReadSound(n)
    BY <2>2 DEF ReadSound
  <2>4. Sound(n) /\ n \in Requests
    BY <2>2, <2>3 DEF Sound, Requests
  <2>5. req' = [req EXCEPT ![s] = n] /\ UNCHANGED <<exists, acts, logged>>
    BY <1>2, <2>1 DEF AskRecordTimeline, Reading
  <2> QED
    BY <2>4, <2>5, OneRequest
<1> QED
  BY <1>1, <1>2

LEMMA ResolveFilterKeeps ==
    ASSUME TimelineInv, NEW s \in Slot, ResolveFilter(s)
    PROVE  TimelineInv'
<1>1. PICK q : q = req[s]
  OBVIOUS
<1>2. req \in [Slot -> Requests]
  BY DEF TimelineInv, TimelineTypeOK, Requests
<1>3. q \in TimelineReq /\ q.at = "filter" /\ Sound(q)
  BY <1>1, <1>2, ByStep DEF ResolveFilter, TimelineInv
<1>4. ReadSound(q)
  BY <1>3 DEF Sound
<1>5. PICK ref \in req[s].todo, ok \in BOOLEAN :
         LET todo == req[s].todo \ {ref}
             lost == IF ok \/ ref.form = "id" THEN {} ELSE {ref.rec}
         IN req' = [req EXCEPT ![s] = [req[s] EXCEPT
              !.at = IF todo = {} THEN "select" ELSE "filter",
              !.todo = todo,
              !.ids = @ \cup {IF ok THEN Found(ref) ELSE AsSent(ref)},
              !.lost = @ \cup lost]]
  BY DEF ResolveFilter
<1> DEFINE todo == q.todo \ {ref}
           lost == IF ok \/ ref.form = "id" THEN {} ELSE {ref.rec}
           text == IF ok THEN Found(ref) ELSE AsSent(ref)
           step == IF todo = {} THEN "select" ELSE "filter"
           new == [q EXCEPT !.at = step, !.todo = todo, !.ids = @ \cup {text}, !.lost = @ \cup lost]
<1>6. ref \in q.todo /\ ref.rec \in Record /\ ref.rec \in q.wanted
  BY <1>1, <1>3, <1>4, <1>5 DEF TimelineReq, Ref, ReadSound
<1>7. text \in {ref.rec, Handle(ref.rec)} /\ text \in Text
  BY <1>6 DEF Found, AsSent, Text
<1>8. ref.rec \in exists /\ ref.rec \notin lost => text = ref.rec
  BY <1>6 DEF Found, AsSent
<1>9. lost \subseteq Record
  BY <1>6
<1>10. step \in {"filter", "select"}
  OBVIOUS
<1>11. req' = [req EXCEPT ![s] = new] /\ UNCHANGED <<exists, acts, logged>>
  BY <1>1, <1>2, <1>5 DEF ResolveFilter
<1> HIDE DEF lost, text, step
<1>12. PICK n : n = new
  OBVIOUS
<1>13. /\ n \in TimelineReq /\ n.at = step /\ n.todo = todo /\ n.ids = q.ids \cup {text}
       /\ n.lost = q.lost \cup lost /\ n.wanted = q.wanted
  BY <1>3, <1>7, <1>9, <1>10, <1>12 DEF TimelineReq
<1> HIDE DEF new
<1>14. ReadSound(n)
  <2>1. n.at = "filter" => n.todo # {}
    BY <1>13 DEF step
  <2>2. n.at = "select" => n.todo = {} /\ n.ids # {}
    BY <1>13 DEF step
  <2>3. \A i \in n.ids : \E r \in n.wanted : i \in {r, Handle(r)}
    BY <1>4, <1>6, <1>7, <1>13 DEF ReadSound
  <2>4. ASSUME NEW r \in (n.wanted \cap exists) \ n.lost
        PROVE  r \in n.ids \/ \E x \in n.todo : x.rec = r
    BY <1>4, <1>8, <1>13 DEF ReadSound
  <2>5. \A x \in n.todo : x.rec \in n.wanted
    BY <1>4, <1>13 DEF ReadSound
  <2> QED
    BY <2>1, <2>2, <2>3, <2>4, <2>5 DEF ReadSound
<1>15. Sound(n) /\ n \in Requests
  BY <1>10, <1>13, <1>14 DEF Sound, Requests
<1> QED
  BY <1>11, <1>12, <1>15, OneRequest

LEMMA SelectActivitiesKeeps ==
    ASSUME TimelineInv, NEW s \in Slot, SelectActivities(s)
    PROVE  TimelineInv'
<1>1. PICK q : q = req[s]
  OBVIOUS
<1>2. q \in TimelineReq
  BY <1>1, ByStep DEF SelectActivities, TimelineInv, TimelineTypeOK, Requests
<1> DEFINE found == Listed(q.kind, q.ids)
<1>3. found \subseteq 1 .. MaxActs
  BY TimelineAssumption DEF Listed, TimelineInv, TimelineTypeOK
<1>4. PICK n : n = [at |-> "timeline", kind |-> q.kind, todo |-> {}, ids |-> {}, wanted |-> {},
                    lost |-> {}, shown |-> found]
  OBVIOUS
<1>5. n \in TimelineReq /\ n.at = "timeline"
  BY <1>2, <1>3, <1>4 DEF TimelineReq
<1>6. Sound(n) /\ n \in Requests
  BY <1>5 DEF Sound, Requests
<1> HIDE DEF found
<1>7. [Reading(q.kind, "timeline", {}, {}, {}) EXCEPT !.shown = found] = n
  BY <1>4 DEF Reading
<1>8. req' = [req EXCEPT ![s] = n] /\ UNCHANGED <<exists, acts, logged>>
  BY <1>1, <1>7 DEF SelectActivities, found
<1> QED
  BY <1>6, <1>8, OneRequest

----------------------------------------------------------------------------
(* Reading a page.                                                         *)

LEMMA FiguresType ==
    ASSUME TimelineInv, NEW r
    PROVE  /\ Figures(r) \in Stat
           /\ Figures(r).count = Cardinality(Of(r))
           /\ Figures(r).outreach = Cardinality(Outreach(Of(r)))
           /\ Of(r) # {} => Figures(r).count > 0
           /\ Figures(r).outreach > 0 <=> Outreach(Of(r)) # {}
<1>1. Of(r) \in SUBSET DOMAIN acts /\ Outreach(Of(r)) \in SUBSET DOMAIN acts
  BY DEF Of, Outreach
<1>2. /\ Cardinality(Of(r)) \in 0 .. MaxActs /\ (Of(r) # {} => Cardinality(Of(r)) > 0)
      /\ Cardinality(Outreach(Of(r))) \in 0 .. MaxActs
      /\ Outreach(Of(r)) # {} => Cardinality(Outreach(Of(r))) > 0
  BY <1>1, Counted DEF TimelineInv
<1>3. Outreach(Of(r)) = {} => Cardinality(Outreach(Of(r))) = 0
  BY FS_EmptySet
<1> QED
  BY <1>2, <1>3, TimelineAssumption DEF Figures, StatsOf, Stat

LEMMA AskPageKeeps ==
    ASSUME TimelineInv, NEW s \in Slot, NEW k \in Kind, NEW f \in FiltersOn(k),
           AskPage(s, k, f)
    PROVE  TimelineInv'
<1> DEFINE page == {r \in exists : KindOf[r] = k /\ Fits(r, f)}
           step == IF page = {} THEN "page" ELSE "stats"
<1>1. page \subseteq Record /\ \A r \in page : Fits(r, f)
  BY DEF TimelineInv, TimelineTypeOK
<1>2. NoStats \in [Record -> Stat] /\ NoPrincipals \in [Record -> SUBSET Principal]
  BY TimelineAssumption DEF NoStats, NoPrincipals, Stat
<1>3. f \in UNION {FiltersOn(j) : j \in Kind}
  OBVIOUS
<1>4. step \in {"stats", "page"} /\ (step = "page" => page = {})
  OBVIOUS
<1>5. /\ req' = [req EXCEPT ![s] =
            [at |-> step, page |-> page, filter |-> f, stats |-> NoStats,
             principals |-> NoPrincipals, moved |-> {}, failed |-> {}]]
      /\ UNCHANGED <<exists, acts, logged>>
  BY DEF AskPage
<1> HIDE DEF page, step
<1>6. PICK n : n = [at |-> step, page |-> page, filter |-> f, stats |-> NoStats,
                    principals |-> NoPrincipals, moved |-> {}, failed |-> {}]
  OBVIOUS
<1>7. /\ n \in PageReq /\ n.at = step /\ n.page = page /\ n.filter = f /\ n.failed = {}
  BY <1>1, <1>2, <1>3, <1>4, <1>6 DEF PageReq
<1>8. PageSound(n)
  BY <1>1, <1>4, <1>7 DEF PageSound
<1>9. Sound(n) /\ n \in Requests
  BY <1>4, <1>7, <1>8 DEF Sound, Requests
<1> QED
  BY <1>5, <1>6, <1>9, OneRequest

LEMMA StatsKeeps ==
    ASSUME TimelineInv, NEW s \in Slot, Stats(s)
    PROVE  TimelineInv'
<1>1. PICK q : q = req[s]
  OBVIOUS
<1>2. req \in [Slot -> Requests]
  BY DEF TimelineInv, TimelineTypeOK, Requests
<1>3. q \in PageReq /\ q.at = "stats" /\ PageSound(q)
  BY <1>1, <1>2, ByStep DEF Stats, TimelineInv, Sound
<1> DEFINE stats == [r \in Record |-> IF r \in q.page THEN Figures(r) ELSE NoStats[r]]
<1>4. CASE req' = [req EXCEPT ![s].at = "principals", ![s].stats = stats]
  <2>1. stats \in [Record -> Stat] /\ \A r \in q.page : stats[r] = Figures(r)
    <3>1. NoStats \in [Record -> Stat]
      BY TimelineAssumption DEF NoStats, Stat
    <3> QED
      BY <1>3, <3>1, FiguresType DEF PageReq
  <2> HIDE DEF stats
  <2>2. PICK n : n = [q EXCEPT !.at = "principals", !.stats = stats]
    OBVIOUS
  <2>3. /\ n \in PageReq /\ n.at = "principals" /\ n.stats = stats /\ n.page = q.page
        /\ n.moved = q.moved /\ n.filter = q.filter /\ n.failed = q.failed
    BY <1>3, <2>1, <2>2 DEF PageReq
  <2>4. PageSound(n)
    BY <1>3, <2>1, <2>3 DEF PageSound
  <2>5. Sound(n) /\ n \in Requests
    BY <2>3, <2>4 DEF Sound, Requests
  <2>6. req' = [req EXCEPT ![s] = n]
    BY <1>1, <1>2, <1>4, <2>2
  <2> QED
    BY <2>5, <2>6, OneRequest DEF Stats
<1>5. CASE req' = [req EXCEPT ![s].at = "page", ![s].failed = {"stats", "principals"}]
  <2>1. PICK n : n = [q EXCEPT !.at = "page", !.failed = {"stats", "principals"}]
    OBVIOUS
  <2>2. n \in PageReq /\ n.at = "page" /\ n.failed = {"stats", "principals"}
    BY <1>3, <2>1 DEF PageReq
  <2>3. PageSound(n)
    BY <2>2 DEF PageSound, Agrees
  <2>4. Sound(n) /\ n \in Requests
    BY <2>2, <2>3 DEF Sound, Requests
  <2>5. req' = [req EXCEPT ![s] = n]
    BY <1>1, <1>2, <1>5, <2>1
  <2> QED
    BY <2>4, <2>5, OneRequest DEF Stats
<1> QED
  BY <1>1, <1>4, <1>5 DEF Stats, Figures

\* The principals a page shows of a record, beside the figures it has.
LEMMA PageFits ==
    ASSUME TimelineInv, NEW n, NEW r, Fits(r, n.filter), n.stats[r] = Figures(r),
           "principals" \in n.failed \/ n.principals[r] = Principals(Of(r))
    PROVE  Agrees(n, r)
<1>1. "stats" \notin n.failed =>
        /\ n.filter[1] = "contacted" => n.stats[r].outreach > 0
        /\ n.filter[1] = "never" => n.stats[r].outreach = 0
  <2>1. /\ n.filter[1] = "contacted" => Outreach(Of(r)) # {}
        /\ n.filter[1] = "never" => Outreach(Of(r)) = {}
    BY DEF Fits
  <2>2. Figures(r).outreach \in Nat
    BY FiguresType, TimelineAssumption DEF Stat
  <2> QED
    BY <2>1, <2>2, FiguresType
<1>2. ASSUME n.principals[r] = Principals(Of(r))
      PROVE  /\ n.filter[1] = "behalf" => \E p \in n.principals[r] : Person[p] = n.filter[2]
             /\ n.principals[r] # {} => n.stats[r].count > 0
  <2>1. Principals(Of(r)) # {} => Of(r) # {}
    BY DEF Principals
  <2> QED
    BY <1>2, <2>1, FiguresType DEF Fits
<1> QED
  BY <1>1, <1>2 DEF Agrees

LEMMA ReadPrincipalsKeeps ==
    ASSUME TimelineInv, NEW s \in Slot, ReadPrincipals(s)
    PROVE  TimelineInv'
<1>1. PICK q : q = req[s]
  OBVIOUS
<1>2. req \in [Slot -> Requests]
  BY DEF TimelineInv, TimelineTypeOK, Requests
<1>3. q \in PageReq /\ q.at = "principals" /\ PageSound(q)
  BY <1>1, <1>2, ByStep DEF ReadPrincipals, TimelineInv, Sound
<1>4. \A r \in q.page \ q.moved : Fits(r, q.filter) /\ q.stats[r] = Figures(r)
  BY <1>3 DEF PageSound
<1> DEFINE principals == [r \in Record |-> IF r \in q.page THEN Principals(Of(r)) ELSE {}]
<1>5. CASE req' = [req EXCEPT ![s].at = "page", ![s].principals = principals]
  <2>1. principals \in [Record -> SUBSET Principal] /\ \A r \in q.page : principals[r] = Principals(Of(r))
    <3>1. ASSUME NEW r \in Record PROVE Principals(Of(r)) \subseteq Principal
      BY DEF Principals, Of, TimelineInv, TimelineTypeOK, Activity
    <3> QED
      BY <1>3, <3>1 DEF PageReq
  <2> HIDE DEF principals
  <2>2. PICK n : n = [q EXCEPT !.at = "page", !.principals = principals]
    OBVIOUS
  <2>3. /\ n \in PageReq /\ n.at = "page" /\ n.stats = q.stats /\ n.page = q.page
        /\ n.moved = q.moved /\ n.filter = q.filter /\ n.principals = principals
    BY <1>3, <2>1, <2>2 DEF PageReq
  <2>4. PageSound(n)
    <3>1. \A r \in n.page \ n.moved : Agrees(n, r)
      BY <1>4, <2>1, <2>3, PageFits
    <3> QED
      BY <2>3, <3>1 DEF PageSound
  <2>5. Sound(n) /\ n \in Requests
    BY <2>3, <2>4 DEF Sound, Requests
  <2>6. req' = [req EXCEPT ![s] = n]
    BY <1>1, <1>2, <1>5, <2>2
  <2> QED
    BY <2>5, <2>6, OneRequest DEF ReadPrincipals
<1>6. CASE req' = [req EXCEPT ![s].at = "page", ![s].failed = {"principals"}]
  <2>1. PICK n : n = [q EXCEPT !.at = "page", !.failed = {"principals"}]
    OBVIOUS
  <2>2. /\ n \in PageReq /\ n.at = "page" /\ n.stats = q.stats /\ n.page = q.page
        /\ n.moved = q.moved /\ n.filter = q.filter /\ n.failed = {"principals"}
    BY <1>3, <2>1 DEF PageReq
  <2>3. PageSound(n)
    <3>1. \A r \in n.page \ n.moved : Agrees(n, r)
      BY <1>4, <2>2, PageFits
    <3> QED
      BY <2>2, <3>1 DEF PageSound
  <2>4. Sound(n) /\ n \in Requests
    BY <2>2, <2>3 DEF Sound, Requests
  <2>5. req' = [req EXCEPT ![s] = n]
    BY <1>1, <1>2, <1>6, <2>1
  <2> QED
    BY <2>4, <2>5, OneRequest DEF ReadPrincipals
<1> QED
  BY <1>1, <1>5, <1>6 DEF ReadPrincipals

----------------------------------------------------------------------------
(* The invariant and the theorems.                                         *)

LEMMA EndKeeps ==
    ASSUME TimelineInv, NEW s \in Slot, End(s)
    PROVE  TimelineInv'
<1>1. Sound(NoReq) /\ NoReq \in Requests
  BY NoReqSound DEF Requests
<1> QED
  BY <1>1, OneRequest DEF End

LEMMA DeleteRecordKeeps ==
    ASSUME TimelineInv, NEW r \in Record, DeleteRecord(r)
    PROVE  TimelineInv'
<1>1. exists' \subseteq exists /\ acts' = acts /\ logged' = logged /\ req' = req
  BY DEF DeleteRecord
<1>2. TimelineTypeOK'
  BY <1>1 DEF TimelineInv, TimelineTypeOK, Requests
<1>3. Linked'
  <2>1. ASSUME NEW n \in DOMAIN acts, NEW k \in Kind, NEW a, a = acts[n] PROVE LinkHolds(a, k)'
    BY <1>1, <2>1, LinkStays DEF TimelineInv, Linked
  <2> QED
    BY <1>1, <2>1 DEF Linked
<1>4. ASSUME NEW t \in Slot, NEW q, q = req[t] PROVE Sound(q)'
  <2>1. q \in Requests /\ Sound(q)
    BY <1>4 DEF TimelineInv, TimelineTypeOK, Requests
  <2>2. CASE q \notin PageReq
    BY <1>1, <2>1, <2>2, SoundStays
  <2>3. CASE q \in PageReq
    <3>1. \A x \in Record : Of(x)' = Of(x) /\ \A m \in Of(x) : acts'[m] = acts[m]
      BY <1>1 DEF Of
    <3>2. [q EXCEPT !.moved = @ \cup {}] = q
      BY <2>3 DEF PageReq
    <3> QED
      BY <2>1, <2>3, <3>1, <3>2, PageStays
  <2> QED
    BY <2>2, <2>3
<1> QED
  BY <1>1, <1>2, <1>3, <1>4 DEF TimelineInv

LEMMA StutterKeeps == TimelineInv /\ UNCHANGED timelineVars => TimelineInv'
<1> SUFFICES ASSUME TimelineInv, UNCHANGED timelineVars PROVE TimelineInv'
  OBVIOUS
<1>1. ASSUME NEW s \in Slot PROVE TimelineInv'
  <2>1. PICK q : q = req[s]
    OBVIOUS
  <2>2. q \in Requests /\ Sound(q) /\ req' = [req EXCEPT ![s] = q]
    BY <2>1 DEF TimelineInv, TimelineTypeOK, Requests, timelineVars
  <2> QED
    BY <2>2, OneRequest DEF timelineVars
<1>2. CASE Slot = {}
  BY <1>2, LinkStays DEF timelineVars, TimelineInv, TimelineTypeOK, Linked
<1> QED
  BY <1>1, <1>2

LEMMA TimelineInvariant == TimelineSpec => []TimelineInv
<1>1. ASSUME TimelineInv, TimelineNext PROVE TimelineInv'
  <2>1. ASSUME NEW s \in Writer, NEW r \in Record, NEW sent \in SUBSET Ref, NEW sort \in Sorts,
               AskLog(s, r, sent, sort)
        PROVE  TimelineInv'
    BY <1>1, <2>1, AskLogKeeps DEF Slot
  <2>2. ASSUME NEW s \in Writer, Link(s) \/ Insert(s) PROVE TimelineInv'
    BY <1>1, <2>2, LinkKeeps, InsertKeeps DEF Slot
  <2>3. ASSUME NEW s \in Reader,
               \/ \E k \in Kind, refs \in SUBSET Ref : refs \subseteq RefsTo(k) /\ AskTimeline(s, k, refs)
               \/ \E r \in Record : AskRecordTimeline(s, r)
        PROVE  TimelineInv'
    BY <1>1, <2>3, AskTimelineKeeps DEF Slot
  <2>4. ASSUME NEW s \in Reader, NEW k \in Kind, NEW f \in FiltersOn(k), AskPage(s, k, f)
        PROVE  TimelineInv'
    BY <1>1, <2>4, AskPageKeeps DEF Slot
  <2>5. ASSUME NEW s \in Reader,
               ResolveFilter(s) \/ SelectActivities(s) \/ Stats(s) \/ ReadPrincipals(s)
        PROVE  TimelineInv'
    BY <1>1, <2>5, ResolveFilterKeeps, SelectActivitiesKeeps, StatsKeeps, ReadPrincipalsKeeps DEF Slot
  <2>6. ASSUME NEW s \in Slot, End(s) PROVE TimelineInv'
    BY <1>1, <2>6, EndKeeps
  <2>7. ASSUME NEW r \in Record, DeleteRecord(r) PROVE TimelineInv'
    BY <1>1, <2>7, DeleteRecordKeeps
  <2>8. ASSUME NEW n \in 1 .. MaxActs, DeleteActivity(n) PROVE TimelineInv'
    BY <1>1, <2>8, DeleteActivityKeeps
  <2> QED
    BY <1>1, <2>1, <2>2, <2>3, <2>4, <2>5, <2>6, <2>7, <2>8 DEF TimelineNext
<1> QED
  BY InitTimeline, <1>1, StutterKeeps, PTL DEF TimelineSpec

\* Activities, links and requests have the values their columns and locals can have.
THEOREM TimelineTypeCorrect == TimelineSpec => []TimelineTypeOK
BY TimelineInvariant, PTL DEF TimelineInv

\* The figures and principals of a page agree with the filter that selected it and
\* with each other, but for records whose activities changed between its statements.
THEOREM PagesAgree == TimelineSpec => []PageAgrees
<1>1. TimelineInv => PageAgrees
  BY DEF TimelineInv, Sound, PageSound, PageAgrees
<1> QED
  BY <1>1, TimelineInvariant, PTL

\* The SELECT of a timeline is a step of its own.
LEMMA OnlySelects ==
    ASSUME TimelineInv, TimelineNext, NEW s \in Slot,
           req[s].at = "select", req'[s].at = "timeline"
    PROVE  SelectActivities(s)
<1>1. req \in [Slot -> Requests] /\ req[s] \notin PageReq
  <2>1. req \in [Slot -> Requests]
    BY DEF TimelineInv, TimelineTypeOK, Requests
  <2> QED
    BY <2>1, ByStep
<1>2. NoReq.at = "none"
  BY DEF NoReq
<1>3. ASSUME NEW t \in Slot,
             \/ \E r \in Record, sent \in SUBSET Ref, sort \in Sorts : AskLog(t, r, sent, sort)
             \/ Link(t)
             \/ \E k \in Kind, refs \in SUBSET Ref : AskTimeline(t, k, refs)
             \/ \E r \in Record : AskRecordTimeline(t, r)
             \/ \E k \in Kind : \E f \in FiltersOn(k) : AskPage(t, k, f)
             \/ ResolveFilter(t) \/ Stats(t) \/ ReadPrincipals(t)
      PROVE  FALSE
  <2>1. t # s
    BY <1>2, <1>3 DEF AskLog, Link, AskTimeline, AskRecordTimeline, AskPage, ResolveFilter, Stats,
                      ReadPrincipals
  <2>2. req'[s] = req[s]
    BY <1>1, <1>3, <2>1 DEF AskLog, Link, AskTimeline, AskRecordTimeline, AskPage, ResolveFilter,
                            Stats, ReadPrincipals
  <2> QED
    BY <2>2
<1>4. ASSUME NEW t \in Slot, Insert(t) PROVE FALSE
  BY <1>1, <1>2, <1>4 DEF Insert, Moves
<1>5. ASSUME NEW t \in Slot, End(t) PROVE FALSE
  BY <1>1, <1>2, <1>5 DEF End
<1>6. ASSUME NEW n \in 1 .. MaxActs, DeleteActivity(n) PROVE FALSE
  BY <1>1, <1>6 DEF DeleteActivity
<1>7. ASSUME NEW r \in Record, DeleteRecord(r) PROVE FALSE
  BY <1>7 DEF DeleteRecord
<1>8. ASSUME NEW t \in Slot, SelectActivities(t) PROVE SelectActivities(s)
  BY <1>1, <1>8 DEF SelectActivities
<1> QED
  BY <1>3, <1>4, <1>5, <1>6, <1>7, <1>8 DEF TimelineNext, Slot

\* What the SELECT returns is what was logged for the records asked for.
LEMMA SelectExact ==
    ASSUME TimelineInv, NEW s \in Slot, SelectActivities(s)
    PROVE  Exact(s)
<1> DEFINE q == req[s]
<1>1. req \in [Slot -> Requests] /\ q \in TimelineReq /\ q.at = "select"
  <2>1. req \in [Slot -> Requests]
    BY DEF TimelineInv, TimelineTypeOK, Requests
  <2> QED
    BY <2>1, ByStep DEF SelectActivities
<1>2. /\ q.todo = {} /\ q.ids # {} /\ q.wanted \subseteq Record /\ q.kind \in Kind
      /\ \A i \in q.ids : \E r \in q.wanted : i \in {r, Handle(r)}
      /\ \A r \in (q.wanted \cap exists) \ q.lost : r \in q.ids
  <2>1. Sound(q)
    BY DEF TimelineInv
  <2> QED
    BY <1>1, <2>1 DEF Sound, ReadSound, TimelineReq
<1>3. req'[s].shown = Listed(q.kind, q.ids)
  BY <1>1 DEF SelectActivities, Reading
<1>4. Blank \notin q.ids
  BY <1>2, TimelineAssumption
<1>5. Listed(q.kind, q.ids) = {n \in DOMAIN acts : acts[n].link[q.kind] \in q.ids}
  BY <1>2, <1>4 DEF Listed
<1>6. \A n \in DOMAIN acts : acts[n] \in Activity /\ LinkHolds(acts[n], q.kind)
  BY <1>2 DEF TimelineInv, TimelineTypeOK, Linked
<1> HIDE DEF q
<1>7. ASSUME NEW n \in DOMAIN acts, acts[n].link[q.kind] \in q.ids
      PROVE  acts[n].named[q.kind] \in q.wanted
  <2> DEFINE named == acts[n].named[q.kind]
             link == acts[n].link[q.kind]
  <2>1. named \in Record /\ link \in {named, Handle(named)}
    BY <1>2, <1>4, <1>6, <1>7 DEF LinkHolds, Activity
  <2>2. PICK r \in q.wanted : link \in {r, Handle(r)}
    BY <1>2, <1>7
  <2>3. r \in Record
    BY <1>2
  <2>4. Handle(r) = Handle(named) => r = named
    BY DEF Handle
  <2> HIDE DEF named, link
  <2>5. r = named
    BY <2>1, <2>2, <2>3, <2>4, TimelineAssumption
  <2> QED
    BY <2>5 DEF named
<1>8. ASSUME NEW n \in DOMAIN acts,
             acts[n].named[q.kind] \in (q.wanted \cap exists) \ q.lost, q.kind \notin acts[n].lost
      PROVE  acts[n].link[q.kind] \in q.ids
  <2>1. acts[n].named[q.kind] # Blank
    BY <1>2, <1>8, TimelineAssumption
  <2> QED
    BY <1>2, <1>6, <1>8, <2>1 DEF LinkHolds
<1> QED
  BY <1>3, <1>5, <1>7, <1>8 DEF Exact, q

\* A timeline shows the activities logged for the records asked for, and of a record
\* that is there all of them, but for those whose lookup failed.
THEOREM TimelinesExact == TimelineSpec => TimelineExact
<1>1. TimelineInv /\ [TimelineNext]_timelineVars =>
        [\A s \in Slot : req[s].at = "select" /\ req'[s].at = "timeline" => Exact(s)]_timelineVars
  BY OnlySelects, SelectExact
<1> QED
  BY <1>1, TimelineInvariant, PTL DEF TimelineSpec, TimelineExact

============================================================================
