------------------------------ MODULE Timeline ------------------------------
(***************************************************************************)
(* Activities, the records they are linked to, and what is derived from    *)
(* them: the timeline of a record, and the counts and principals that the  *)
(* pages of a list show and filter on.                                     *)
(*                                                                         *)
(* A link is a column without a foreign key.  It holds an internal id, or  *)
(* whatever the client sent when that could not be looked up.  The         *)
(* lookups, the INSERT, a page, its counts and its principals are          *)
(* statements of their own, which other requests come between.  Internal   *)
(* ids and handles are random and not issued twice.                        *)
(***************************************************************************)
EXTENDS Naturals, FiniteSets, Functions

CONSTANTS
    Writer, Reader, \* requests under way that log activities, and that read
    Record,         \* records that have been created
    KindOf,         \* record -> its kind
    Contactable,    \* kinds with the outreach filters: contacts and companies
    Principal,      \* on_behalf_of as agents spell it
    Person,         \* spelling -> lower(spelling)
    Blank,          \* the empty text
    Sorts,          \* the sorts of activity that are logged: kind and on_behalf_of
    MaxActs,        \* bound: activities that are logged
    MaxRefs         \* bound: references in one filter

Slot == Writer \cup Reader
Kind == {KindOf[r] : r \in Record}

\* Two of the five kinds of activity; a call counts as outreach, a note does not.
What == {"call", "note"}

\* Records have an internal id, which stands for them, and a handle.
Handle(r) == <<"handle", r>>

ASSUME TimelineAssumption ==
    /\ KindOf \in [Record -> Kind] /\ Contactable \subseteq Kind
    /\ DOMAIN Person = Principal /\ Sorts \subseteq What \X (Principal \cup {Blank})
    /\ Writer \cap Reader = {} /\ Blank \notin Record /\ Blank \notin Principal
    /\ \A r \in Record : Handle(r) \notin Record \cup {Blank}
    /\ MaxActs \in Nat /\ MaxRefs \in Nat

VARIABLES
    exists,     \* records that have not been deleted
    acts,       \* activities, numbered
    logged,     \* activities logged so far
    req         \* requests

timelineVars == <<exists, acts, logged, req>>

----------------------------------------------------------------------------

Text == Record \cup {Handle(r) : r \in Record} \cup {Blank}
Ref  == [rec : Record, form : {"handle", "id"}]
RefsTo(k) == {ref \in Ref : KindOf[ref.rec] = k}

\* named and lost are not columns: the record the client named for a kind, and the
\* kinds whose handle was stored because its lookup failed.
Activity == [link : [Kind -> Text], what : What, who : Principal \cup {Blank},
             named : [Kind -> Record \cup {Blank}], lost : SUBSET Kind]

FiltersOn(k) ==
    {<<"all">>} \cup {<<"behalf", Person[p]>> : p \in Principal}
    \cup (IF k \in Contactable THEN {<<"contacted">>, <<"never">>} ELSE {})

Stat == [count : 0 .. MaxActs, outreach : 0 .. MaxActs]

NoReq == [at |-> "none"]
LogReq == [at : {"link", "insert"}, act : Activity, todo : SUBSET Ref]
TimelineReq == [at : {"filter", "select", "timeline"}, kind : Kind, todo : SUBSET Ref,
                ids : SUBSET Text, wanted : SUBSET Record, lost : SUBSET Record,
                shown : SUBSET (1 .. MaxActs)]

\* moved is not a local: the records whose activities have changed since the page.
PageReq == [at : {"stats", "principals", "page"}, page : SUBSET Record,
            filter : UNION {FiltersOn(k) : k \in Kind}, stats : [Record -> Stat],
            principals : [Record -> SUBSET Principal], moved : SUBSET Record,
            failed : SUBSET {"stats", "principals"}]

TimelineTypeOK ==
    /\ exists \subseteq Record
    /\ logged \in 0 .. MaxActs
    /\ DOMAIN acts \subseteq 1 .. logged /\ \A n \in DOMAIN acts : acts[n] \in Activity
    /\ req \in [Slot -> {NoReq} \cup LogReq \cup TimelineReq \cup PageReq]

TimelineInit ==
    /\ exists = Record
    /\ acts = [n \in {} |-> NoReq]
    /\ logged = 0
    /\ req = [s \in Slot |-> NoReq]

----------------------------------------------------------------------------
(* Faulty variants of the definitions below; no action uses them.          *)

\* An unresolvable reference is dropped.
Dropped(ref) == Blank

\* An activity counts once for each record it is linked to.
CountsLinks(S) ==
    [count |-> Cardinality({p \in S \X Kind : acts[p[1]].link[p[2]] # Blank}), outreach |-> 0]

\* A call or a note: the two lists of kinds have drifted apart.
CountsNotes(S) == [count |-> Cardinality(S), outreach |-> Cardinality(S)]

----------------------------------------------------------------------------
(* Lookups.                                                                *)

\* What relationID returns when ResolveHandle finds nothing, or fails.
AsSent(ref) == IF ref.form = "id" THEN ref.rec ELSE Handle(ref.rec)

\* relationID
Found(ref) == IF ref.rec \in exists THEN ref.rec ELSE AsSent(ref)

----------------------------------------------------------------------------
(* What the activities say of a record.                                    *)

Of(r) == {n \in DOMAIN acts : acts[n].link[KindOf[r]] = r}

\* OutreachKindsSQL
Outreach(S) == {n \in S : acts[n].what = "call"}

Principals(S) == {acts[n].who : n \in S} \ {Blank}

\* The derived filters of the list: subqueries over the activities.
Fits(r, filter) ==
    CASE filter[1] = "all"       -> TRUE
      [] filter[1] = "contacted" -> Outreach(Of(r)) # {}
      [] filter[1] = "never"     -> Outreach(Of(r)) = {}
      [] filter[1] = "behalf"    -> \E p \in Principals(Of(r)) : Person[p] = filter[2]

\* A row of ActivityStatsBatch
StatsOf(S) == [count |-> Cardinality(S), outreach |-> Cardinality(Outreach(S))]

\* ListActivities: a filter without ids is no filter.
Listed(k, ids) ==
    IF ids \ {Blank} = {} THEN DOMAIN acts
    ELSE {n \in DOMAIN acts : acts[n].link[k] \in ids \ {Blank}}

----------------------------------------------------------------------------
(* POST /<kind>s/{id}/activities: one handler per kind, all alike.         *)

Goto(s, at) == req' = [req EXCEPT ![s].at = at]

\* The path record is looked up, 404 if it is not there; the body names records of
\* other kinds, by handle or by id.
AskLog(s, r, sent, sort) ==
    /\ req[s] = NoReq /\ r \in exists /\ logged < MaxActs
    /\ \A ref \in sent : KindOf[ref.rec] # KindOf[r]
    /\ \A ref, other \in sent : KindOf[ref.rec] = KindOf[other.rec] => ref = other
    /\ LET records == {r} \cup {ref.rec : ref \in sent}
           named == [k \in Kind |-> IF \E x \in records : KindOf[x] = k
                                    THEN CHOOSE x \in records : KindOf[x] = k ELSE Blank]
       IN req' = [req EXCEPT ![s] =
            [at |-> IF sent = {} THEN "insert" ELSE "link", todo |-> sent,
             act |-> [link |-> [k \in Kind |-> IF k = KindOf[r] THEN r ELSE Blank],
                      what |-> sort[1], who |-> sort[2], named |-> named, lost |-> {}]]]
    /\ UNCHANGED <<exists, acts, logged>>

\* One cross-link: a lookup that fails is taken for one that finds nothing.
Link(s) ==
    /\ req[s].at = "link"
    /\ \E ref \in req[s].todo, ok \in BOOLEAN :
         LET k == KindOf[ref.rec]
             todo == req[s].todo \ {ref}
             lost == IF ok \/ ref.form = "id" THEN {} ELSE {k}
         IN req' = [req EXCEPT ![s] =
              [at |-> IF todo = {} THEN "insert" ELSE "link", todo |-> todo,
               act |-> [req[s].act EXCEPT !.link[k] = IF ok THEN Found(ref) ELSE AsSent(ref),
                                          !.lost = @ \cup lost]]]
    /\ UNCHANGED <<exists, acts, logged>>

\* A change of an activity: the pages under way show its records as moved.
Moves(act, s) ==
    LET records == {act.link[k] : k \in Kind} \cap Record
    IN req' = [t \in Slot |->
         IF t = s THEN NoReq
         ELSE IF req[t] \in PageReq THEN [req[t] EXCEPT !.moved = @ \cup records]
         ELSE req[t]]

\* CreateActivity
Insert(s) ==
    /\ req[s].at = "insert" /\ logged < MaxActs
    /\ logged' = logged + 1
    /\ acts' = [n \in DOMAIN acts \cup {logged + 1} |->
                  IF n = logged + 1 THEN req[s].act ELSE acts[n]]
    /\ Moves(req[s].act, s)
    /\ UNCHANGED exists

----------------------------------------------------------------------------
(* GET /activities with the filter of one kind, and GET /<kind>s/{id}/     *)
(* activities, whose path record is looked up, 404 if it is not there.     *)

Reading(k, at, todo, ids, wanted) ==
    [at |-> at, kind |-> k, todo |-> todo, ids |-> ids, wanted |-> wanted,
     lost |-> {}, shown |-> {}]

AskTimeline(s, k, refs) ==
    /\ req[s] = NoReq /\ Cardinality(refs) \in 1 .. MaxRefs
    /\ req' = [req EXCEPT ![s] = Reading(k, "filter", refs, {}, {ref.rec : ref \in refs})]
    /\ UNCHANGED <<exists, acts, logged>>

AskRecordTimeline(s, r) ==
    /\ req[s] = NoReq /\ r \in exists
    /\ req' = [req EXCEPT ![s] = Reading(KindOf[r], "select", {}, {r}, {r})]
    /\ UNCHANGED <<exists, acts, logged>>

\* relationIDs, one reference after the other
ResolveFilter(s) ==
    /\ req[s].at = "filter"
    /\ \E ref \in req[s].todo, ok \in BOOLEAN :
         LET todo == req[s].todo \ {ref}
             lost == IF ok \/ ref.form = "id" THEN {} ELSE {ref.rec}
         IN req' = [req EXCEPT ![s] = [req[s] EXCEPT
              !.at = IF todo = {} THEN "select" ELSE "filter",
              !.todo = todo,
              !.ids = @ \cup {IF ok THEN Found(ref) ELSE AsSent(ref)},
              !.lost = @ \cup lost]]
    /\ UNCHANGED <<exists, acts, logged>>

\* ListActivities
SelectActivities(s) ==
    /\ req[s].at = "select"
    /\ req' = [req EXCEPT ![s] = [Reading(req[s].kind, "timeline", {}, {}, {})
                                   EXCEPT !.shown = Listed(req[s].kind, req[s].ids)]]
    /\ UNCHANGED <<exists, acts, logged>>

----------------------------------------------------------------------------
(* GET /<kind>s: a page of records with what their activities say.         *)

NoStats == [r \in Record |-> [count |-> 0, outreach |-> 0]]
NoPrincipals == [r \in Record |-> {}]

AskPage(s, k, filter) ==
    /\ req[s] = NoReq
    /\ LET page == {r \in exists : KindOf[r] = k /\ Fits(r, filter)}
       IN req' = [req EXCEPT ![s] =
            [at |-> IF page = {} THEN "page" ELSE "stats", page |-> page, filter |-> filter,
             stats |-> NoStats, principals |-> NoPrincipals, moved |-> {}, failed |-> {}]]
    /\ UNCHANGED <<exists, acts, logged>>

\* ActivityStatsBatch; when it fails the page goes without counts and principals.
Stats(s) ==
    /\ req[s].at = "stats"
    /\ \/ req' = [req EXCEPT ![s].at = "principals",
                             ![s].stats = [r \in Record |->
                                IF r \in req[s].page THEN StatsOf(Of(r)) ELSE NoStats[r]]]
       \/ req' = [req EXCEPT ![s].at = "page", ![s].failed = {"stats", "principals"}]
    /\ UNCHANGED <<exists, acts, logged>>

\* ActivityPrincipalsBatch; an error is ignored.
ReadPrincipals(s) ==
    /\ req[s].at = "principals"
    /\ \/ req' = [req EXCEPT ![s].at = "page",
                             ![s].principals = [r \in Record |->
                                IF r \in req[s].page THEN Principals(Of(r)) ELSE {}]]
       \/ req' = [req EXCEPT ![s].at = "page", ![s].failed = {"principals"}]
    /\ UNCHANGED <<exists, acts, logged>>

----------------------------------------------------------------------------

\* The response is sent; or a request is refused by the quota, fails, or dies with its
\* process, before its next statement.
End(s) ==
    /\ req[s] # NoReq
    /\ req' = [req EXCEPT ![s] = NoReq]
    /\ UNCHANGED <<exists, acts, logged>>

\* The activities of a deleted record stay.
DeleteRecord(r) ==
    /\ r \in exists
    /\ exists' = exists \ {r}
    /\ UNCHANGED <<acts, logged, req>>

DeleteActivity(n) ==
    /\ n \in DOMAIN acts
    /\ acts' = Restrict(acts, DOMAIN acts \ {n})
    /\ LET records == {acts[n].link[k] : k \in Kind} \cap Record
       IN req' = [t \in Slot |->
            IF req[t] \in PageReq THEN [req[t] EXCEPT !.moved = @ \cup records] ELSE req[t]]
    /\ UNCHANGED <<exists, logged>>

TimelineNext ==
    \/ \E s \in Writer :
         \/ \E r \in Record, sent \in SUBSET Ref, sort \in Sorts : AskLog(s, r, sent, sort)
         \/ Link(s) \/ Insert(s)
    \/ \E s \in Reader :
         \/ \E k \in Kind, refs \in SUBSET Ref : refs \subseteq RefsTo(k) /\ AskTimeline(s, k, refs)
         \/ \E r \in Record : AskRecordTimeline(s, r)
         \/ \E k \in Kind : \E filter \in FiltersOn(k) : AskPage(s, k, filter)
         \/ ResolveFilter(s) \/ SelectActivities(s) \/ Stats(s) \/ ReadPrincipals(s)
    \/ \E s \in Slot : End(s)
    \/ \E r \in Record : DeleteRecord(r)
    \/ \E n \in 1 .. MaxActs : DeleteActivity(n)

TimelineSpec == TimelineInit /\ [][TimelineNext]_timelineVars

----------------------------------------------------------------------------
(* Properties.                                                             *)

\* A timeline shows nothing but activities logged for the records that were asked
\* for, and of a record that is there all of them, by whichever handler and with
\* whichever form of reference they were logged, and however lookups, deletions and
\* INSERTs fall; only one whose lookup failed is missed.
Exact(s) ==
    LET q == req[s] IN
    /\ \A n \in req'[s].shown : acts[n].named[q.kind] \in q.wanted
    /\ \A n \in DOMAIN acts :
         acts[n].named[q.kind] \in (q.wanted \cap exists) \ q.lost /\ q.kind \notin acts[n].lost
         => n \in req'[s].shown
TimelineExact ==
    [][\A s \in Slot : req[s].at = "select" /\ req'[s].at = "timeline" => Exact(s)]_timelineVars

\* The figures of a page agree with the filter that selected it, and with each other,
\* although each comes from a statement of its own: unless a statement failed, they
\* disagree only on records whose activities changed in between.
Agrees(q, r) ==
    /\ "stats" \notin q.failed =>
         /\ q.filter[1] = "contacted" => q.stats[r].outreach > 0
         /\ q.filter[1] = "never" => q.stats[r].outreach = 0
    /\ "principals" \notin q.failed =>
         /\ q.filter[1] = "behalf" => \E p \in q.principals[r] : Person[p] = q.filter[2]
         /\ q.principals[r] # {} => q.stats[r].count > 0
PageAgrees ==
    \A s \in Slot : req[s].at = "page" => \A r \in req[s].page \ req[s].moved : Agrees(req[s], r)

============================================================================
