------------------------------ MODULE Records ------------------------------
(***************************************************************************)
(* The updatable records of one workspace (contacts, companies, deals,     *)
(* tickets, tasks, campaigns) and the HTTP handlers that read and write    *)
(* them.  Every handler runs in its own goroutine and reaches the database *)
(* in separate statements, so handlers interleave between statements; each *)
(* statement is atomic.                                                    *)
(*                                                                         *)
(* PATCH is four steps: read the row (PatchRead), the conditional UPDATE   *)
(* (PatchWrite, or PatchMiss when it touches no row), the probe that tells *)
(* 412 from 404 (PatchCheck) or the SELECT that reloads the version and    *)
(* the answer (PatchReload).  The other handlers are one statement each.   *)
(* A statement may fail, and a process may die, between any two of them.   *)
(***************************************************************************)
EXTENDS Naturals, FiniteSets

CONSTANTS
    Agent,       \* clients; each has at most one request in flight
    Id,          \* internal record ids (protocol.NewID: random, never reissued)
    Field,       \* mutable columns
    Value,       \* contents of a column
    Null,        \* an empty column
    MaxVersion,  \* bound: no PATCH starts that could raise a version past it
    MaxOwed      \* bound: entries that a failure keeps from the log, per record

ASSUME RecordsAssumption == IsFiniteSet(Agent) /\ Null \in Value /\ MaxVersion \in Nat /\ MaxOwed \in Nat

VARIABLES
    rows,        \* the table; version 0 stands for "no row"
    used,        \* ids already generated
    pc,          \* where the agent's PATCH handler is
    req,         \* the locals of that handler
    held,        \* what each agent last learnt of each record
    answer,      \* the outcome of the agent's last request
    audited,     \* per record, the "update" entries of the audit log
    owed         \* per record, the entries that a failure kept from the log

vars == <<rows, used, pc, req, held, answer, audited, owed>>

----------------------------------------------------------------------------

Columns == [Field -> Value]
Row     == [version : Nat, fields : Columns]
NoRow   == [version |-> 0, fields |-> [f \in Field |-> Null]]
Patch   == UNION {[S -> Value] : S \in SUBSET Field}
Request == [id : Id, patch : Patch, ifMatch : Nat, base : Row]
NoRequest == [ifMatch |-> 0]
View    == [version : Nat, fields : Columns, via : {"none", "read", "update"}]
NoView  == [version |-> 0, fields |-> [f \in Field |-> Null], via |-> "none"]
Answer  == [status : {"ok", "conflict", "not_found", "error"}, id : Id, ifMatch : Nat]
Silence == [status |-> "none"]

TypeOK ==
    /\ rows \in [Id -> Row]
    /\ used \in SUBSET Id
    /\ pc \in [Agent -> {"idle", "update", "check", "reload"}]
    /\ req \in [Agent -> Request \cup {NoRequest}]
    /\ \A a \in Agent : pc[a] # "idle" => req[a] \in Request
    /\ held \in [Agent -> [Id -> View]]
    /\ answer \in [Agent -> Answer \cup {Silence}]
    /\ audited \in [Id -> Nat] /\ owed \in [Id -> Nat]

Init ==
    /\ rows = [i \in Id |-> NoRow]
    /\ used = {}
    /\ pc = [a \in Agent |-> "idle"]
    /\ req = [a \in Agent |-> NoRequest]
    /\ held = [a \in Agent |-> [i \in Id |-> NoView]]
    /\ answer = [a \in Agent |-> Silence]
    /\ audited = [i \in Id |-> 0] /\ owed = [i \in Id |-> 0]

----------------------------------------------------------------------------
(* Faulty variants of the operators below, each a plausible slip in the    *)
(* code; no action uses them.                                              *)

\* A PATCH decoded onto an empty record: omitted fields are lost.
MergeOntoNothing(fields, patch) == [f \in DOMAIN patch |-> patch[f]]

\* The UPDATE without its "version = ?" condition.
MatchesAnyVersion(row, ifMatch) == row.version > 0

\* An UPDATE that forgets "version = version + 1".
KeepVersion(row, fields) == [row EXCEPT !.fields = fields]

\* checkConditional without the probe: zero affected rows is taken for 404.
MissIsNotFound(row, ifMatch) == "not_found"

\* An audit entry written before the update's error is looked at.
AuditAlways(i) == audited' = [audited EXCEPT ![i] = @ + 1]

----------------------------------------------------------------------------
(* The parts of a PATCH.                                                   *)

\* decodeBytes onto the record just read: omitted fields are preserved.
Merge(fields, patch) ==
    [f \in Field |-> IF f \in DOMAIN patch THEN patch[f] ELSE fields[f]]

\* WHERE id = ? AND (? <= 0 OR version = ?)
Matches(row, ifMatch) ==
    /\ row.version > 0
    /\ ifMatch = 0 \/ row.version = ifMatch

\* SET every mutable column, version = version + 1.
Overwrite(row, fields) == [version |-> row.version + 1, fields |-> fields]

\* checkConditional after zero affected rows.
MissStatus(row, ifMatch) ==
    IF row.version = 0 THEN "not_found"
    ELSE IF ifMatch > 0 THEN "conflict" ELSE "not_found"

\* The audit entry of a failed update: none.
AuditMiss(i) == UNCHANGED audited

Reply(a, status, i, ifMatch) ==
    answer' = [answer EXCEPT ![a] = [status |-> status, id |-> i, ifMatch |-> ifMatch]]

Learn(a, i, version, fields, via) ==
    held' = [held EXCEPT ![a][i] = [version |-> version, fields |-> fields, via |-> via]]

\* Room under MaxVersion for one more update of record i.
Headroom(i) ==
    rows[i].version
      + Cardinality({b \in Agent : pc[b] = "update" /\ req[b].id = i}) < MaxVersion

----------------------------------------------------------------------------
(* The handlers.                                                           *)

\* POST: a fresh id, version 1; the response is the record as inserted.
Create(a, i, fields) ==
    /\ pc[a] = "idle"
    /\ i \notin used
    /\ used' = used \cup {i}
    /\ rows' = [rows EXCEPT ![i] = [version |-> 1, fields |-> fields]]
    /\ Learn(a, i, 1, fields, "read")
    /\ Reply(a, "ok", i, 0)
    /\ UNCHANGED <<pc, req, audited, owed>>

\* GET: one row, version and columns from the same SELECT.
Get(a, i) ==
    /\ pc[a] = "idle"
    /\ i \in used
    /\ \/ /\ rows[i].version > 0
          /\ Learn(a, i, rows[i].version, rows[i].fields, "read")
          /\ Reply(a, "ok", i, 0)
       \/ /\ rows[i].version = 0
          /\ Reply(a, "not_found", i, 0)
          /\ UNCHANGED held
    /\ UNCHANGED <<rows, used, pc, req, audited, owed>>

\* DELETE: the second call, with the (stateless) confirm token.
Delete(a, i) ==
    /\ pc[a] = "idle"
    /\ i \in used
    /\ \/ /\ rows[i].version > 0
          /\ rows' = [rows EXCEPT ![i] = NoRow]
          /\ Reply(a, "ok", i, 0)
       \/ /\ rows[i].version = 0
          /\ Reply(a, "not_found", i, 0)
          /\ UNCHANGED rows
    /\ UNCHANGED <<used, pc, req, held, audited, owed>>

\* expectedVersion: the client sends no version (0) or the one it last learnt.
SentVersions(a, i) == {0, held[a][i].version}

\* PATCH, first statement: read the row the body will be decoded onto.
PatchRead(a, i, patch, ifMatch) ==
    /\ pc[a] = "idle"
    /\ i \in used
    /\ \/ /\ rows[i].version > 0
          /\ Headroom(i)
          /\ pc' = [pc EXCEPT ![a] = "update"]
          /\ req' = [req EXCEPT ![a] = [id |-> i, patch |-> patch,
                                        ifMatch |-> ifMatch, base |-> rows[i]]]
          /\ answer' = [answer EXCEPT ![a] = Silence]
       \/ /\ rows[i].version = 0
          /\ Reply(a, "not_found", i, ifMatch)
          /\ UNCHANGED <<pc, req>>
    /\ UNCHANGED <<rows, used, held, audited, owed>>

\* The UPDATE writes the whole record the handler holds.
PatchWrite(a) ==
    LET r == req[a] IN
    /\ pc[a] = "update"
    /\ Matches(rows[r.id], r.ifMatch)
    /\ rows' = [rows EXCEPT ![r.id] =
                  Overwrite(rows[r.id], Merge(r.base.fields, r.patch))]
    /\ pc' = [pc EXCEPT ![a] = "reload"]
    /\ UNCHANGED <<used, req, held, answer, audited, owed>>

PatchMiss(a) ==
    /\ pc[a] = "update"
    /\ ~Matches(rows[req[a].id], req[a].ifMatch)
    /\ pc' = [pc EXCEPT ![a] = "check"]
    /\ UNCHANGED <<rows, used, req, held, answer, audited, owed>>

Finish(a) ==
    /\ pc' = [pc EXCEPT ![a] = "idle"]
    /\ req' = [req EXCEPT ![a] = NoRequest]

PatchCheck(a) ==
    LET r == req[a] IN
    /\ pc[a] = "check"
    /\ Reply(a, MissStatus(rows[r.id], r.ifMatch), r.id, r.ifMatch)
    /\ AuditMiss(r.id)
    /\ Finish(a)
    /\ UNCHANGED <<rows, used, held, owed>>

LogEntry(i) == audited' = [audited EXCEPT ![i] = @ + 1] /\ UNCHANGED owed

\* The update stands, without an entry.
LoseEntry(i) == owed[i] < MaxOwed /\ owed' = [owed EXCEPT ![i] = @ + 1] /\ UNCHANGED audited

\* reloadVersion, the audit entry and the response: the columns this handler
\* wrote beside the version the row has by now.  An entry that cannot be written is
\* logged, and the response the same.  A row deleted meanwhile makes the reload fail:
\* a 500 and no audit entry for an update that was committed.
PatchReload(a) ==
    LET r == req[a]
        i == r.id IN
    /\ pc[a] = "reload"
    /\ \/ /\ rows[i].version > 0
          /\ Learn(a, i, rows[i].version, Merge(r.base.fields, r.patch), "update")
          /\ LogEntry(i) \/ LoseEntry(i)
          /\ Reply(a, "ok", i, r.ifMatch)
       \/ /\ rows[i].version = 0
          /\ Reply(a, "error", i, r.ifMatch)
          /\ UNCHANGED <<held, audited, owed>>
    /\ Finish(a)
    /\ UNCHANGED <<rows, used>>

\* A statement fails, the first of a request included, or the process dies: a 500, a 404
\* if it was the lookup of a handle (resolveID does not look at the error), or no response
\* at all, none of which tells anything of the record.  Nothing is rolled back, and after
\* the UPDATE no entry is written.
Fail(a) ==
    /\ IF pc[a] = "reload" THEN LoseEntry(req[a].id) ELSE UNCHANGED <<audited, owed>>
    /\ answer' = [answer EXCEPT ![a] = Silence]
    /\ Finish(a)
    /\ UNCHANGED <<rows, used, held>>

----------------------------------------------------------------------------

PatchStep(a) ==
    PatchWrite(a) \/ PatchMiss(a) \/ PatchCheck(a) \/ PatchReload(a) \/ Fail(a)

Next ==
    \E a \in Agent :
      \/ PatchStep(a)
      \/ \E i \in Id :
           \/ Get(a, i)
           \/ Delete(a, i)
           \/ \E fields \in Columns : Create(a, i, fields)
           \/ \E patch \in Patch, ifMatch \in SentVersions(a, i) :
                PatchRead(a, i, patch, ifMatch)

Spec == Init /\ [][Next]_vars

----------------------------------------------------------------------------
(* The inductive invariant behind the properties (RecordsProofs).          *)

\* An id that was never issued is known to nobody.
FreshIds ==
    \A i \in Id : i \notin used =>
      /\ rows[i].version = 0
      /\ \A a \in Agent : /\ held[a][i].version = 0
                          /\ pc[a] # "idle" => req[a].id # i
                          /\ answer[a].status # "none" => answer[a].id # i

\* What an agent was shown is never ahead of the row, and a view that came
\* from one SELECT is the row for as long as the versions agree.
ViewsTrail ==
    \A a \in Agent, i \in Id : rows[i].version > 0 =>
      /\ held[a][i].version <= rows[i].version
      /\ held[a][i].via = "read" /\ held[a][i].version = rows[i].version
           => held[a][i].fields = rows[i].fields

\* The same of the row a PATCH handler read; the version its client sent is
\* the one that client was last shown, and not beyond what the handler read.
BasesTrail ==
    \A a \in Agent : pc[a] = "update" =>
      LET r == req[a] IN
      /\ r.ifMatch <= r.base.version
      /\ r.ifMatch > 0 => r.ifMatch = held[a][r.id].version
      /\ rows[r.id].version > 0 =>
           /\ r.base.version <= rows[r.id].version
           /\ r.base.version = rows[r.id].version
                => r.base.fields = rows[r.id].fields

\* A handler that missed its row will miss it for good.
MissesLast ==
    \A a \in Agent : pc[a] = "check" =>
      LET r == req[a] IN
      rows[r.id].version = 0 \/ (r.ifMatch > 0 /\ rows[r.id].version > r.ifMatch)

----------------------------------------------------------------------------
(* Properties.                                                             *)

\* The versioned writes of agent a that commit in this step.
CommitsIfMatch(a) == PatchWrite(a) /\ req[a].ifMatch > 0

\* A PATCH that carries a version an agent got from a GET or a create replaces
\* exactly the record that agent was shown: another agent's change in between
\* is never overwritten (agent.md, "CONCURRENT EDITS").
NoClobberAfterRead ==
    [][\A a \in Agent :
         CommitsIfMatch(a) /\ held[a][req[a].id].via = "read"
           => rows[req[a].id].fields = held[a][req[a].id].fields]_vars

\* An error answer stays true, unless it stands for a statement that failed: after a 412
\* the version the agent sent can never match again, so a blind retry cannot succeed, and
\* after a 404 (or the 500 of a reload that finds nothing) the record is gone for good.
AnswersStayTrue ==
    \A a \in Agent :
      LET n == answer[a] IN
      /\ n.status = "conflict" =>
           rows[n.id].version = 0 \/ rows[n.id].version > n.ifMatch
      /\ n.status \in {"not_found", "error"} => rows[n.id].version = 0

IInv == TypeOK /\ FreshIds /\ ViewsTrail /\ BasesTrail /\ MissesLast /\ AnswersStayTrue

\* For a record that exists, the audit log holds one entry for every update
\* committed to it, but for those whose handler is still on its way to write
\* it, or failed after its UPDATE; a rejected or failed update leaves none.
UpdatesAudited ==
    \A i \in Id :
      rows[i].version > 0 =>
        rows[i].version = 1 + audited[i] + owed[i]
          + Cardinality({a \in Agent : pc[a] = "reload" /\ req[a].id = i})

\* The handlers implement the compare-and-set store: a PATCH takes effect, or
\* is refused, at its UPDATE statement, unless it fails before.
Asked == [a \in Agent |->
            IF pc[a] = "update"
            THEN {[id |-> req[a].id, patch |-> req[a].patch, ifMatch |-> req[a].ifMatch]}
            ELSE {}]
Refused == {a \in Agent : pc[a] = "check"}

Store == INSTANCE RecordStore WITH asked <- Asked, refused <- Refused

\* Records implements RecordStore: a versioned PATCH is an atomic
\* compare-and-set that leaves the fields it does not name alone, an update
\* never resurrects a deleted record, and nothing else touches a row.
ImplementsStore == Store!StoreSpec

============================================================================
