---------------------------- MODULE RecordStore ----------------------------
(***************************************************************************)
(* What the updatable records of one workspace promise their clients: the  *)
(* abstract specification Records implements.                              *)
(*                                                                         *)
(* A client asks for a PATCH and the store later either commits or refuses *)
(* it, in one step, or drops it for a failure.  A PATCH that carries a     *)
(* version is a compare-and-set: it commits only on that version, and then *)
(* changes exactly the fields it names.  A PATCH without a version sets    *)
(* the fields it names and promises nothing about the others.  None is     *)
(* refused that could be committed.  Every commit moves the version by     *)
(* one, a deleted record stays deleted, and nothing else ever changes a    *)
(* record.                                                                 *)
(***************************************************************************)
EXTENDS Naturals

CONSTANTS
    Agent,   \* the clients (agents) that call the API
    Id,      \* internal record ids
    Field,   \* mutable columns of a record
    Value,   \* contents of a column
    Null     \* an empty column

VARIABLES
    rows,    \* the table: Id -> row, a row of version 0 being no row
    used,    \* ids handed out so far, which are never handed out again
    asked,   \* Agent -> the PATCH it is waiting for (at most one)
    refused  \* agents whose PATCH has been refused and who have still to hear of it

storeVars == <<rows, used, asked, refused>>

Columns == [Field -> Value]
Row     == [version : Nat, fields : Columns]
NoRow   == [version |-> 0, fields |-> [f \in Field |-> Null]]

\* A PATCH body: the fields the client sends, the others omitted.
Patch   == UNION {[S -> Value] : S \in SUBSET Field}
Ask     == [id : Id, patch : Patch, ifMatch : Nat]

\* Decoding a body onto a record: the fields sent replace, the others stay.
Merge(fields, patch) ==
    [f \in Field |-> IF f \in DOMAIN patch THEN patch[f] ELSE fields[f]]

\* The WHERE clause of an update: a row, and the expected version if any.
Matches(row, ifMatch) ==
    /\ row.version > 0
    /\ ifMatch = 0 \/ row.version = ifMatch

\* What a committed PATCH may leave in the columns.
Honours(q, old, new) ==
    IF q.ifMatch > 0
    THEN new = Merge(old, q.patch)
    ELSE \A f \in DOMAIN q.patch : new[f] = q.patch[f]

StoreTypeOK ==
    /\ rows \in [Id -> Row]
    /\ used \in SUBSET Id
    /\ asked \in [Agent -> SUBSET Ask] /\ refused \subseteq Agent

StoreInit ==
    /\ rows = [i \in Id |-> NoRow]
    /\ used = {}
    /\ asked = [a \in Agent |-> {}] /\ refused = {}

Insert(i) ==
    /\ i \notin used
    /\ \E fields \in Columns :
         rows' = [rows EXCEPT ![i] = [version |-> 1, fields |-> fields]]
    /\ used' = used \cup {i}
    /\ UNCHANGED <<asked, refused>>

Remove(i) ==
    /\ rows[i].version > 0
    /\ rows' = [rows EXCEPT ![i] = NoRow]
    /\ UNCHANGED <<used, asked, refused>>

AskPatch(a) ==
    /\ asked[a] = {} /\ a \notin refused
    /\ \E q \in asked'[a] : q \in Ask /\ asked' = [asked EXCEPT ![a] = {q}]
    /\ UNCHANGED <<rows, used, refused>>

Commit(a) ==
    /\ \E q \in asked[a] :
         /\ Matches(rows[q.id], q.ifMatch)
         /\ \E new \in Columns :
              /\ Honours(q, rows[q.id].fields, new)
              /\ rows' = [rows EXCEPT ![q.id] =
                            [version |-> rows[q.id].version + 1, fields |-> new]]
    /\ asked' = [asked EXCEPT ![a] = {}]
    /\ UNCHANGED <<used, refused>>

Refuse(a) ==
    /\ \E q \in asked[a] : ~Matches(rows[q.id], q.ifMatch)
    /\ asked' = [asked EXCEPT ![a] = {}]
    /\ refused' = refused \cup {a}
    /\ UNCHANGED <<rows, used>>

\* The client is told, or is not for a failure.
Tell(a) ==
    /\ a \in refused
    /\ refused' = refused \ {a}
    /\ UNCHANGED <<rows, used, asked>>

\* A failure before anything was written.
Drop(a) ==
    /\ asked[a] # {}
    /\ asked' = [asked EXCEPT ![a] = {}]
    /\ UNCHANGED <<rows, used, refused>>

StoreNext ==
    \/ \E i \in Id : Insert(i) \/ Remove(i)
    \/ \E a \in Agent : AskPatch(a) \/ Commit(a) \/ Refuse(a) \/ Tell(a) \/ Drop(a)

StoreSpec == StoreInit /\ [][StoreNext]_storeVars

============================================================================
