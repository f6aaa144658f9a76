------------------------------ MODULE Listing ------------------------------
(***************************************************************************)
(* Lists: the filters and sort of a GET, keyset pages and their cursor,    *)
(* while other agents write.                                               *)
(*                                                                         *)
(* One client walks through a list: it asks for a page, then for the page  *)
(* the cursor of the last answer leads to, until an answer has no cursor.  *)
(* A page is two statements, the SELECT of the rows and the COUNT of the   *)
(* total, and nothing holds the table still between them or between two    *)
(* pages.  The table is tasks, which has the columns of every other list:  *)
(* title stands for name, subject and amount_cents as well, due_at is the  *)
(* one sort column that may be NULL.  An id is random, so that a new row   *)
(* may sort anywhere among rows of the same key.                           *)
(***************************************************************************)
EXTENDS Integers, FiniteSets

CONSTANTS
    Ids,         \* ids of rows, compared as the tie-break
    Titles,      \* values of title
    Dues,        \* values of due_at other than NULL
    Null,        \* SQL NULL
    Dialects,    \* the databases: subset of {"sqlite", "postgres"}
    SortParams,  \* the sort= parameters a client may send
    Filters,     \* the filter a client may send
    LimitParams, \* the limit= parameters a client may send
    MaxLimit,    \* the largest page (200)
    MaxWrites,   \* bound: writes by other agents
    MaxTime      \* bound: the clock, in seconds

Columns  == {"title", "due_at", "created_at", "updated_at"}
Order    == [col : Columns, desc : BOOLEAN]

ASSUME ListingAssumption ==
    /\ Ids \subseteq Int /\ IsFiniteSet(Ids)
    /\ Titles \subseteq Int /\ Dues \subseteq Nat \ {0} /\ Null \notin Int
    /\ Dialects \subseteq {"sqlite", "postgres"}
    /\ SortParams \subseteq Order /\ LimitParams \subseteq Int
    /\ MaxLimit \in Nat \ {0} /\ MaxWrites \in Nat /\ MaxTime \in Nat

VARIABLES
    dialect,  \* the database of this deployment
    rows,     \* the table: id -> row
    now,      \* the time of the last write
    writes,   \* writes so far
    at,       \* the walk: "idle", "count", "next" (a page to ask for) or "end"
    order,    \* the sort the walk began with
    filter,   \* the filter the client sends with every request
    cursor,   \* the cursor of the last page
    seen,     \* the rows returned so far
    swapped,  \* pairs returned on two pages, against the order of the sort
    stable    \* rows that match since the walk began, with an unchanged key

vars == <<dialect, rows, now, writes, at, order, filter, cursor, seen, swapped, stable>>

----------------------------------------------------------------------------

NoRow    == [title |-> Null]
Row      == [title : Titles, due_at : Dues \cup {Null},
             created_at : 0 .. MaxTime, updated_at : 0 .. MaxTime]
NoCursor == [id |-> Null]
Cursor   == [order : Order, val : Int, id : Ids]

TypeOK ==
    /\ dialect \in Dialects
    /\ rows \in [Ids -> Row \cup {NoRow}]
    /\ now \in 0 .. MaxTime
    /\ writes \in 0 .. MaxWrites
    /\ at \in {"idle", "count", "next", "end"}
    /\ order \in Order
    /\ filter \in Filters
    /\ cursor \in Cursor \cup {NoCursor}
    /\ seen \subseteq Ids
    /\ swapped \subseteq Ids \X Ids
    /\ stable \subseteq Ids

\* A task that is never written after it was created has one time stamp.
Init ==
    /\ dialect \in Dialects
    /\ rows \in [Ids -> [title : Titles, due_at : Dues \cup {Null},
                         created_at : {0}, updated_at : {0}] \cup {NoRow}]
    /\ now = 0 /\ writes = 0
    /\ at = "idle"
    /\ order = [col |-> "updated_at", desc |-> TRUE]
    /\ filter \in Filters
    /\ cursor = NoCursor
    /\ seen = {} /\ swapped = {} /\ stable = {}

----------------------------------------------------------------------------
(* Parsing.                                                                *)

\* Faulty: the sort of the request wins over that of the cursor.
ParamSort(param, c) == param

\* A cursor carries its own sort; sort= counts on the first page only.
EffectiveSort(param, c) == IF c = NoCursor THEN param ELSE c.order

\* limit= is clamped, not rejected.
ClampLimit(n) == IF n < 1 THEN 1 ELSE IF n > MaxLimit THEN MaxLimit ELSE n

----------------------------------------------------------------------------
(* The WHERE clause.                                                       *)

Compare(op, x, y) ==
    CASE op = "eq"  -> x = y  [] op = "ne"  -> x # y
      [] op = "gt"  -> x > y  [] op = "gte" -> x >= y
      [] op = "lt"  -> x < y  [] op = "lte" -> x <= y

\* A comparison with NULL is not true, != included.
Holds(f, row) ==
    CASE f.op = "none" -> TRUE
      [] f.op = "is"   -> row[f.col] = Null
      [] f.op = "not"  -> row[f.col] # Null
      [] f.op = "in"   -> row[f.col] \in f.val
      [] OTHER         -> row[f.col] # Null /\ Compare(f.op, row[f.col], f.val)

MatchingIn(table, f) == {i \in Ids : table[i] # NoRow /\ Holds(f, table[i])}
Matching == MatchingIn(rows, filter)

----------------------------------------------------------------------------
(* The keyset.                                                             *)

\* SQLite puts NULL below every value, Postgres above.
KeyLess(x, y) ==
    IF dialect = "sqlite"
    THEN y # Null /\ (x = Null \/ x < y)
    ELSE x # Null /\ (y = Null \/ x < y)

\* ORDER BY col, id
Ascending(o, i, j) ==
    LET x == rows[i][o.col]  y == rows[j][o.col]
    IN  KeyLess(x, y) \/ (x = y /\ i < j)

\* ORDER BY col dir, id dir
Before(o, i, j) == IF o.desc THEN Ascending(o, j, i) ELSE Ascending(o, i, j)

\* Faulty: the cursor is a sort value without the id.
PastValue(c, i) ==
    LET x == rows[i][c.order.col]
    IN  x # Null /\ IF c.order.desc THEN x < c.val ELSE x > c.val

\* Faulty: the comparison lets the last row of the page through again.
PastOrAtCursor(c, i) ==
    LET x == rows[i][c.order.col]
    IN  /\ x # Null
        /\ IF c.order.desc THEN x < c.val \/ (x = c.val /\ i <= c.id)
                           ELSE x > c.val \/ (x = c.val /\ i >= c.id)

\* (col, id) > (?, ?), or < in a descending list: not true if col is NULL.
PastCursor(c, i) ==
    LET x == rows[i][c.order.col]
    IN  /\ x # Null
        /\ IF c.order.desc THEN x < c.val \/ (x = c.val /\ i < c.id)
                           ELSE x > c.val \/ (x = c.val /\ i > c.id)

\* Faulty: a NULL goes into the cursor as it is.
SortValRaw(o, i) == rows[i][o.col]

\* The value of the sort column as the cursor of a page carries it.
SortVal(o, i) == IF rows[i][o.col] = Null THEN 0 ELSE rows[i][o.col]

NextCursor(o, i) == [order |-> o, val |-> SortVal(o, i), id |-> i]

\* The first n of a set of rows.
FirstOf(o, hits, n) == {i \in hits : Cardinality({j \in hits : Before(o, j, i)}) < n}

IsLast(o, page, i) == i \in page /\ \A j \in page : ~Before(o, i, j)

\* Of the limit + 1 rows fetched, the one that ends the page.
PageEnds(o, hits, n, i) == IsLast(o, FirstOf(o, hits, n), i)

----------------------------------------------------------------------------
(* The walk.                                                               *)

\* Parse the request, SELECT the page, and make its cursor if there is more.
SelectPage(param, limit, c) ==
    LET o    == EffectiveSort(param, c)
        n    == ClampLimit(limit)
        hits == {i \in Matching : c = NoCursor \/ PastCursor(c, i)}
        page == FirstOf(o, hits, n)
    IN  /\ seen' = seen \cup page
        /\ swapped' = swapped \cup {p \in seen \X page :
                                       rows[p[1]] = NoRow \/ ~Before(order, p[1], p[2])}
        /\ \/ page = hits /\ cursor' = NoCursor
           \/ page # hits /\ \E i \in hits : PageEnds(o, hits, n, i) /\ cursor' = NextCursor(o, i)
        /\ at' = "count"
        /\ UNCHANGED <<dialect, rows, now, writes, filter>>

FirstPage(param, limit) ==
    /\ at = "idle"
    /\ SelectPage(param, limit, NoCursor)
    /\ order' = param
    /\ stable' = Matching

NextPage(param, limit) ==
    /\ at = "next"
    /\ SelectPage(param, limit, cursor)
    /\ UNCHANGED <<order, stable>>

\* The COUNT of the total, which changes nothing, and the answer, with the cursor if
\* there is one.
CountAndRespond ==
    /\ at = "count"
    /\ at' = IF cursor = NoCursor THEN "end" ELSE "next"
    /\ UNCHANGED <<dialect, rows, now, writes, order, filter, cursor, seen, swapped, stable>>

----------------------------------------------------------------------------
(* The other agents, while the walk is on: what they wrote before it is in *)
(* Init.                                                                   *)

\* A row that is written stays stable if it still matches and is where it was.  Time
\* may have passed since the last write.
Write(i, row, t) ==
    /\ at \in {"count", "next"} /\ writes < MaxWrites
    /\ writes' = writes + 1
    /\ now' = t
    /\ rows' = [rows EXCEPT ![i] = row]
    /\ stable' = IF row # NoRow /\ Holds(filter, row)
                    /\ i \in stable /\ row[order.col] = rows[i][order.col]
                 THEN stable ELSE stable \ {i}
    /\ UNCHANGED <<dialect, at, order, filter, cursor, seen, swapped>>

\* POST: both time stamps are the time of the statement.
Create(i, title, due) ==
    /\ rows[i] = NoRow
    /\ \E t \in now .. MaxTime :
         Write(i, [title |-> title, due_at |-> due, created_at |-> t, updated_at |-> t], t)

\* PATCH: the fields of the body, and updated_at.
Patch(i, title, due) ==
    /\ rows[i] # NoRow
    /\ \E t \in now .. MaxTime :
         Write(i, [title |-> title, due_at |-> due,
                   created_at |-> rows[i].created_at, updated_at |-> t], t)

Delete(i) == rows[i] # NoRow /\ Write(i, NoRow, now)

Finished == at = "end" /\ UNCHANGED vars

ClientStep ==
    \/ \E param \in SortParams, limit \in LimitParams : NextPage(param, limit)
    \/ CountAndRespond

WriterStep ==
    \E i \in Ids :
        \/ \E title \in Titles, due \in Dues \cup {Null} : Create(i, title, due) \/ Patch(i, title, due)
        \/ Delete(i)

Next ==
    \/ \E param \in SortParams, limit \in LimitParams : FirstPage(param, limit)
    \/ ClientStep
    \/ WriterStep
    \/ Finished

\* The server answers, and a client that began a walk asks for the next page;
\* nobody has to begin one, and nobody has to write.
Spec == Init /\ [][Next]_vars /\ WF_vars(ClientStep)

----------------------------------------------------------------------------
(* Properties.                                                             *)

\* No row the walk may meet has NULL in the column it is sorted by.
Keyed ==
    \/ order.col # "due_at"
    \/ \A t \in Titles, u \in 0 .. MaxTime, c \in 0 .. MaxTime :
         ~Holds(filter, [title |-> t, due_at |-> Null, created_at |-> c, updated_at |-> u])

\* A walk that has ended returned every row that matched its filter the whole
\* time and kept its sort key, whatever was written, moved or deleted around it.
NothingMissed == at = "end" /\ Keyed => stable \subseteq seen

\* Such rows come in the order of the sort from one page to the next, and so
\* none of them comes twice.
InOrder == Keyed => swapped \cap (stable \X stable) = {}

\* A walk ends: pages lead on, whatever is written meanwhile.
WalkEnds == (at \in {"count", "next"} /\ Keyed) ~> (at = "end")

============================================================================
