--------------------------- MODULE RecordsProofs ---------------------------
(***************************************************************************)
(* Theorems about Records, for any sets of agents, records, columns and    *)
(* values and any bound on versions, and about AuditLog, for any plans,    *)
(* workspaces and interval.  The two share no variable.                    *)
(*                                                                         *)
(* The properties of Records rest on one inductive invariant, IInv:        *)
(* versions identify contents.  While a record exists, no agent and no     *)
(* handler holds a version ahead of the row's, and whoever read columns    *)
(* and version in one SELECT holds the row's own columns for as long as    *)
(* the versions agree.                                                     *)
(*                                                                         *)
(* Those of AuditLog rest on SweepInv.  A sweep goes only through plans    *)
(* whose entries do not stay for ever, and a request that found a sweep    *)
(* due, and has not been beaten to it, still finds it due when it starts   *)
(* one.                                                                    *)
(***************************************************************************)
EXTENDS Records, AuditLog, FiniteSetTheorems, TLAPS

----------------------------------------------------------------------------
(* Lemmas about the operators.                                             *)

\* Decoding a body onto columns yields columns.
LEMMA MergeType ==
  ASSUME NEW fields \in Columns, NEW patch \in Patch
  PROVE  Merge(fields, patch) \in Columns
<1>1. ASSUME NEW f \in Field, f \in DOMAIN patch
      PROVE  patch[f] \in Value
  BY <1>1 DEF Patch
<1> QED
  BY <1>1 DEF Merge, Columns

\* The absent row is a row.
LEMMA NoRowType == NoRow \in Row /\ NoRow.version = 0
BY RecordsAssumption DEF NoRow, Row, Columns

\* A reply leaves every agent with an answer or none.
LEMMA ReplyType ==
  ASSUME TypeOK, NEW a \in Agent, NEW i \in Id, NEW ifMatch \in Nat,
         NEW status \in {"ok", "conflict", "not_found", "error"},
         Reply(a, status, i, ifMatch)
  PROVE  answer' \in [Agent -> Answer \cup {Silence}]
<1>1. [status |-> status, id |-> i, ifMatch |-> ifMatch] \in Answer
  BY DEF Answer
<1> QED
  BY <1>1 DEF Reply, TypeOK

\* Learning a view leaves every agent with one view per record.
LEMMA LearnType ==
  ASSUME TypeOK, NEW a \in Agent, NEW i \in Id, NEW version \in Nat,
         NEW fields \in Columns, NEW via \in {"read", "update"},
         Learn(a, i, version, fields, via)
  PROVE  held' \in [Agent -> [Id -> View]]
<1>1. [version |-> version, fields |-> fields, via |-> via] \in View
  BY DEF View
<1> QED
  BY <1>1 DEF Learn, TypeOK

----------------------------------------------------------------------------
(* Type correctness.                                                       *)

LEMMA InitType == Init => TypeOK
<1> SUFFICES ASSUME Init PROVE TypeOK
  OBVIOUS
<1>1. NoView \in View
  BY RecordsAssumption DEF NoView, View, Columns
<1> QED
  BY <1>1, NoRowType DEF Init, TypeOK

LEMMA NextType == TypeOK /\ [Next]_vars => TypeOK'
<1> SUFFICES ASSUME TypeOK, [Next]_vars PROVE TypeOK'
  OBVIOUS
<1>1. ASSUME NEW a \in Agent, NEW i \in Id, NEW fields \in Columns, Create(a, i, fields)
      PROVE  TypeOK'
  <2>1. answer' \in [Agent -> Answer \cup {Silence}]
    BY <1>1, ReplyType DEF Create
  <2>2. held' \in [Agent -> [Id -> View]]
    BY <1>1, LearnType DEF Create
  <2>3. [version |-> 1, fields |-> fields] \in Row
    BY DEF Row
  <2> QED
    BY <1>1, <2>1, <2>2, <2>3 DEF Create, TypeOK
<1>2. ASSUME NEW a \in Agent, NEW i \in Id, Get(a, i)
      PROVE  TypeOK'
  <2>1. rows[i].version \in Nat /\ rows[i].fields \in Columns
    BY DEF TypeOK, Row
  <2>2. answer' \in [Agent -> Answer \cup {Silence}]
    BY <1>2, ReplyType DEF Get
  <2>3. held' \in [Agent -> [Id -> View]]
    BY <1>2, <2>1, LearnType DEF Get, TypeOK
  <2> QED
    BY <1>2, <2>2, <2>3 DEF Get, TypeOK
<1>3. ASSUME NEW a \in Agent, NEW i \in Id, Delete(a, i)
      PROVE  TypeOK'
  <2>1. answer' \in [Agent -> Answer \cup {Silence}]
    BY <1>3, ReplyType DEF Delete
  <2>2. rows' \in [Id -> Row]
    BY <1>3, NoRowType DEF Delete, TypeOK
  <2> QED
    BY <1>3, <2>1, <2>2 DEF Delete, TypeOK
<1>4. ASSUME NEW a \in Agent, NEW i \in Id, NEW patch \in Patch,
             NEW ifMatch \in SentVersions(a, i), PatchRead(a, i, patch, ifMatch)
      PROVE  TypeOK'
  <2>1. ifMatch \in Nat
    BY DEF SentVersions, TypeOK, View
  <2>2. [id |-> i, patch |-> patch, ifMatch |-> ifMatch, base |-> rows[i]] \in Request
    BY <2>1 DEF Request, TypeOK
  <2>3. answer' \in [Agent -> Answer \cup {Silence}]
    BY <1>4, <2>1, ReplyType DEF PatchRead, TypeOK
  <2> QED
    BY <1>4, <2>2, <2>3 DEF PatchRead, TypeOK
<1>5. ASSUME NEW a \in Agent, PatchWrite(a)
      PROVE  TypeOK'
  <2>1. req[a] \in Request
    BY <1>5 DEF PatchWrite, TypeOK
  <2>2. Overwrite(rows[req[a].id], Merge(req[a].base.fields, req[a].patch)) \in Row
    BY <2>1, MergeType DEF Overwrite, Request, Row, TypeOK
  <2> QED
    BY <1>5, <2>1, <2>2 DEF PatchWrite, Request, TypeOK
<1>6. ASSUME NEW a \in Agent, PatchMiss(a)
      PROVE  TypeOK'
  BY <1>6 DEF PatchMiss, TypeOK
<1>7. ASSUME NEW a \in Agent, PatchCheck(a)
      PROVE  TypeOK'
  <2>1. req[a] \in Request
    BY <1>7 DEF PatchCheck, TypeOK
  <2>2. MissStatus(rows[req[a].id], req[a].ifMatch) \in {"conflict", "not_found"}
    BY DEF MissStatus
  <2>3. answer' \in [Agent -> Answer \cup {Silence}]
    BY <1>7, <2>1, <2>2, ReplyType DEF PatchCheck, Request
  <2> QED
    BY <1>7, <2>3 DEF PatchCheck, Finish, AuditMiss, TypeOK
<1>8. ASSUME NEW a \in Agent, PatchReload(a)
      PROVE  TypeOK'
  <2>1. req[a] \in Request
    BY <1>8 DEF PatchReload, TypeOK
  <2>2. /\ req[a].id \in Id
        /\ rows[req[a].id].version \in Nat
        /\ Merge(req[a].base.fields, req[a].patch) \in Columns
    BY <2>1, MergeType DEF Request, Row, TypeOK
  <2>3. answer' \in [Agent -> Answer \cup {Silence}]
    BY <1>8, <2>1, ReplyType DEF PatchReload, Request
  <2>4. held' \in [Agent -> [Id -> View]]
    BY <1>8, <2>2, LearnType DEF PatchReload, TypeOK
  <2>5. audited' \in [Id -> Nat] /\ owed' \in [Id -> Nat]
    <3>1. LogEntry(req[a].id) \/ LoseEntry(req[a].id) \/ UNCHANGED <<audited, owed>>
      BY <1>8 DEF PatchReload
    <3>2. audited \in [Id -> Nat] /\ owed \in [Id -> Nat]
      BY DEF TypeOK
    <3>3. CASE LogEntry(req[a].id)
      BY <2>2, <3>2, <3>3 DEF LogEntry
    <3>4. CASE LoseEntry(req[a].id)
      BY <2>2, <3>2, <3>4 DEF LoseEntry
    <3> QED
      BY <3>1, <3>2, <3>3, <3>4
  <2> QED
    BY <1>8, <2>3, <2>4, <2>5 DEF PatchReload, Finish, TypeOK
<1>9. ASSUME NEW a \in Agent, Fail(a)
      PROVE  TypeOK'
  <2>1. pc[a] = "reload" => req[a].id \in Id
    BY DEF TypeOK, Request
  <2>2. audited' \in [Id -> Nat] /\ owed' \in [Id -> Nat]
    BY <1>9, <2>1 DEF Fail, LoseEntry, TypeOK
  <2> QED
    BY <1>9, <2>2 DEF Fail, Finish, TypeOK
<1>10. CASE UNCHANGED vars
  BY <1>10 DEF vars, TypeOK
<1> QED
  BY <1>1, <1>2, <1>3, <1>4, <1>5, <1>6, <1>7, <1>8, <1>9, <1>10 DEF Next, PatchStep

\* The rows, the handlers' locals, the agents' views and the answers keep
\* their types whatever the interleaving: in particular a PATCH always writes
\* every column of the record.
THEOREM TypeCorrect == Spec => []TypeOK
BY InitType, NextType, PTL DEF Spec


----------------------------------------------------------------------------
(* The inductive invariant: one lemma per kind of step.                    *)

LEMMA InitIInv == Init => IInv
<1> SUFFICES ASSUME Init PROVE IInv
  OBVIOUS
<1>1. TypeOK
  BY InitType
<1>2. FreshIds
  BY DEF Init, FreshIds, NoRow, NoView, Silence
<1>3. ViewsTrail
  BY DEF Init, ViewsTrail, NoRow
<1>4. BasesTrail /\ MissesLast
  BY DEF Init, BasesTrail, MissesLast
<1>5. AnswersStayTrue
  BY DEF Init, AnswersStayTrue, Silence
<1> QED
  BY <1>1, <1>2, <1>3, <1>4, <1>5 DEF IInv

\* A new row has an id nobody has heard of.
LEMMA CreateKeeps ==
  ASSUME IInv, TypeOK', NEW a \in Agent, NEW i \in Id, NEW fields \in Columns,
         Create(a, i, fields)
  PROVE  IInv'
<1> USE DEF IInv
<1>1. /\ i \in Id \ used
      /\ rows' = [rows EXCEPT ![i] = [version |-> 1, fields |-> fields]]
      /\ used' = used \cup {i}
      /\ held' = [held EXCEPT ![a][i] = [version |-> 1, fields |-> fields, via |-> "read"]]
      /\ answer' = [answer EXCEPT ![a] = [status |-> "ok", id |-> i, ifMatch |-> 0]]
      /\ pc[a] = "idle" /\ pc' = pc /\ req' = req
  BY DEF Create, Learn, Reply
<1>2. FreshIds'
  BY <1>1 DEF FreshIds, TypeOK
<1>3. ViewsTrail'
  BY <1>1 DEF ViewsTrail, FreshIds, TypeOK
<1>4. BasesTrail'
  BY <1>1 DEF BasesTrail, FreshIds, TypeOK
<1>5. MissesLast'
  BY <1>1 DEF MissesLast, FreshIds, TypeOK
<1>6. AnswersStayTrue'
  BY <1>1 DEF AnswersStayTrue, FreshIds, TypeOK
<1> QED
  BY <1>2, <1>3, <1>4, <1>5, <1>6

\* Reading a row shows the agent the row's own columns and version.
LEMMA GetKeeps ==
  ASSUME IInv, TypeOK', NEW a \in Agent, NEW i \in Id, Get(a, i)
  PROVE  IInv'
<1> USE DEF IInv
<1>1. i \in used /\ pc[a] = "idle" /\ UNCHANGED <<rows, used, pc, req>>
  BY DEF Get
<1>2. \/ held' = held
      \/ held' = [held EXCEPT ![a][i] =
                     [version |-> rows[i].version, fields |-> rows[i].fields, via |-> "read"]]
  BY DEF Get, Learn
<1>3. \E s \in {"ok", "not_found"} :
        /\ answer' = [answer EXCEPT ![a] = [status |-> s, id |-> i, ifMatch |-> 0]]
        /\ s = "not_found" => rows[i].version = 0
  BY DEF Get, Reply
<1>4. FreshIds'
  BY <1>1, <1>2, <1>3 DEF FreshIds, TypeOK
<1>5. ViewsTrail'
  <2> SUFFICES ASSUME NEW b \in Agent, NEW j \in Id, rows[j].version > 0
               PROVE  /\ held'[b][j].version <= rows[j].version
                      /\ held'[b][j].via = "read" /\ held'[b][j].version = rows[j].version
                           => held'[b][j].fields = rows[j].fields
    BY <1>1 DEF ViewsTrail
  <2>1. CASE held'[b][j] = held[b][j]
    BY <2>1 DEF ViewsTrail
  <2>2. CASE held'[b][j] = [version |-> rows[j].version, fields |-> rows[j].fields,
                            via |-> "read"]
    BY <2>2 DEF TypeOK, Row
  <2> QED
    BY <1>2, <2>1, <2>2 DEF TypeOK
<1>6. BasesTrail'
  BY <1>1, <1>2 DEF BasesTrail, TypeOK
<1>7. MissesLast'
  BY <1>1 DEF MissesLast
<1>8. AnswersStayTrue'
  BY <1>1, <1>3 DEF AnswersStayTrue, TypeOK
<1> QED
  BY <1>4, <1>5, <1>6, <1>7, <1>8

\* What a handler has read is still behind the row in a step that changes no row but to
\* delete it, and neither brings a handler to its UPDATE nor shows its agent anything.
LEMMA StillBased ==
  ASSUME IInv,
         \A j \in Id : rows'[j] = rows[j] \/ rows'[j].version = 0,
         \A b \in Agent : pc'[b] = "update" =>
                            pc[b] = "update" /\ req'[b] = req[b] /\ held'[b] = held[b]
  PROVE  BasesTrail'
<1> SUFFICES ASSUME NEW b \in Agent, pc'[b] = "update"
             PROVE  LET r == req'[b] IN
                    /\ r.ifMatch <= r.base.version
                    /\ r.ifMatch > 0 => r.ifMatch = held'[b][r.id].version
                    /\ rows'[r.id].version > 0 =>
                         /\ r.base.version <= rows'[r.id].version
                         /\ r.base.version = rows'[r.id].version
                              => r.base.fields = rows'[r.id].fields
  BY DEF BasesTrail
<1>1. pc[b] = "update" /\ req'[b] = req[b] /\ held'[b] = held[b] /\ req[b].id \in Id
  BY DEF IInv, TypeOK, Request
<1>2. rows'[req[b].id] = rows[req[b].id] \/ rows'[req[b].id].version = 0
  BY <1>1
<1> QED
  BY <1>1, <1>2 DEF IInv, BasesTrail

\* A deleted row takes every claim about it along.
LEMMA DeleteKeeps ==
  ASSUME IInv, TypeOK', NEW a \in Agent, NEW i \in Id, Delete(a, i)
  PROVE  IInv'
<1> USE DEF IInv
<1>1. i \in used /\ pc[a] = "idle" /\ UNCHANGED <<used, pc, req, held>>
  BY DEF Delete
<1>2. \A j \in Id : rows'[j] = rows[j] \/ rows'[j].version = 0
  BY NoRowType DEF Delete, TypeOK
<1>3. \E s \in {"ok", "not_found"} :
        /\ answer' = [answer EXCEPT ![a] = [status |-> s, id |-> i, ifMatch |-> 0]]
        /\ s = "not_found" => rows'[i].version = 0
  BY DEF Delete, Reply
<1>4. FreshIds'
  BY <1>1, <1>2, <1>3 DEF FreshIds, TypeOK
<1>5. ViewsTrail'
  BY <1>1, <1>2 DEF ViewsTrail
<1>6. BasesTrail'
  BY <1>1, <1>2, StillBased
<1>7. MissesLast'
  BY <1>1, <1>2 DEF MissesLast, TypeOK, Request
<1>8. AnswersStayTrue'
  <2> SUFFICES ASSUME NEW b \in Agent, answer'[b].status \in {"conflict", "not_found", "error"}
               PROVE  /\ answer'[b].status = "conflict" =>
                           \/ rows'[answer'[b].id].version = 0
                           \/ rows'[answer'[b].id].version > answer'[b].ifMatch
                      /\ answer'[b].status \in {"not_found", "error"} =>
                           rows'[answer'[b].id].version = 0
    BY DEF AnswersStayTrue
  <2>1. CASE answer'[b] = answer[b]
    <3>1. answer[b].id \in Id
      BY <2>1 DEF TypeOK, Answer, Silence
    <3> QED
      BY <1>2, <2>1, <3>1 DEF AnswersStayTrue
  <2>2. CASE b = a
    BY <1>3, <2>2 DEF TypeOK
  <2> QED
    BY <1>3, <2>1, <2>2 DEF TypeOK
<1> QED
  BY <1>4, <1>5, <1>6, <1>7, <1>8

\* The handler's base is the row itself; the version it is sent is the agent's.
LEMMA PatchReadKeeps ==
  ASSUME IInv, TypeOK', NEW a \in Agent, NEW i \in Id, NEW patch \in Patch,
         NEW ifMatch \in SentVersions(a, i), PatchRead(a, i, patch, ifMatch)
  PROVE  IInv'
<1> USE DEF IInv
<1>1. UNCHANGED <<rows, used, held>> /\ i \in used
  BY DEF PatchRead
<1>2. CASE rows[i].version = 0 /\ Reply(a, "not_found", i, ifMatch) /\ UNCHANGED <<pc, req>>
  <2>1. FreshIds'
    BY <1>1, <1>2 DEF FreshIds, TypeOK, Reply
  <2>2. ViewsTrail' /\ BasesTrail' /\ MissesLast'
    BY <1>1, <1>2 DEF ViewsTrail, BasesTrail, MissesLast
  <2>3. AnswersStayTrue'
    BY <1>1, <1>2 DEF AnswersStayTrue, TypeOK, Reply
  <2> QED
    BY <2>1, <2>2, <2>3
<1>3. CASE /\ rows[i].version > 0
           /\ pc' = [pc EXCEPT ![a] = "update"]
           /\ req' = [req EXCEPT ![a] = [id |-> i, patch |-> patch,
                                         ifMatch |-> ifMatch, base |-> rows[i]]]
           /\ answer' = [answer EXCEPT ![a] = Silence]
  <2>1. FreshIds'
    BY <1>1, <1>3 DEF FreshIds, TypeOK, Silence
  <2>2. ViewsTrail'
    BY <1>1 DEF ViewsTrail
  <2>3. ifMatch <= rows[i].version /\ (ifMatch > 0 => ifMatch = held[a][i].version)
    BY <1>3 DEF ViewsTrail, SentVersions, TypeOK, Row
  <2>4. BasesTrail'
    <3> SUFFICES ASSUME NEW b \in Agent, pc'[b] = "update"
                 PROVE  /\ req'[b].ifMatch <= req'[b].base.version
                        /\ req'[b].ifMatch > 0
                             => req'[b].ifMatch = held[b][req'[b].id].version
                        /\ rows[req'[b].id].version > 0 =>
                             /\ req'[b].base.version <= rows[req'[b].id].version
                             /\ req'[b].base.version = rows[req'[b].id].version
                                  => req'[b].base.fields = rows[req'[b].id].fields
      BY <1>1 DEF BasesTrail
    <3>1. CASE b = a
      BY <1>3, <2>3, <3>1 DEF TypeOK, Row
    <3>2. CASE b # a
      BY <1>3, <3>2 DEF TypeOK, BasesTrail
    <3> QED
      BY <3>1, <3>2
  <2>5. MissesLast'
    BY <1>1, <1>3 DEF MissesLast, TypeOK
  <2>6. AnswersStayTrue'
    BY <1>1, <1>3 DEF AnswersStayTrue, TypeOK, Silence
  <2> QED
    BY <2>1, <2>2, <2>4, <2>5, <2>6
<1> QED
  BY <1>2, <1>3 DEF PatchRead

\* A committed UPDATE moves the version past everything anyone holds.
LEMMA PatchWriteKeeps ==
  ASSUME IInv, TypeOK', NEW a \in Agent, PatchWrite(a)
  PROVE  IInv'
<1> USE DEF IInv
<1> DEFINE i == req[a].id
<1>1. /\ i \in Id /\ pc[a] = "update" /\ pc' = [pc EXCEPT ![a] = "reload"]
      /\ rows[i].version > 0
      /\ UNCHANGED <<used, req, held, answer>>
  BY DEF PatchWrite, Matches, TypeOK, Request
<1>2. /\ \A j \in Id : j # i => rows'[j] = rows[j]
      /\ rows'[i].version = rows[i].version + 1
      /\ \A j \in Id : rows[j].version \in Nat
  BY <1>1 DEF PatchWrite, Overwrite, TypeOK, Row
<1>3. FreshIds'
  BY <1>1, <1>2 DEF FreshIds
<1>4. ViewsTrail'
  <2> SUFFICES ASSUME NEW b \in Agent, NEW j \in Id, rows'[j].version > 0
               PROVE  /\ held[b][j].version <= rows'[j].version
                      /\ held[b][j].via = "read" /\ held[b][j].version = rows'[j].version
                           => held[b][j].fields = rows'[j].fields
    BY <1>1 DEF ViewsTrail
  <2>1. held[b][j].version \in Nat
    BY DEF TypeOK, View
  <2> QED
    BY <1>1, <1>2, <2>1 DEF ViewsTrail
<1>5. BasesTrail'
  <2> SUFFICES ASSUME NEW b \in Agent, pc[b] = "update"
               PROVE  /\ req[b].ifMatch <= req[b].base.version
                      /\ req[b].ifMatch > 0
                           => req[b].ifMatch = held[b][req[b].id].version
                      /\ rows'[req[b].id].version > 0 =>
                           /\ req[b].base.version <= rows'[req[b].id].version
                           /\ req[b].base.version = rows'[req[b].id].version
                                => req[b].base.fields = rows'[req[b].id].fields
    BY <1>1 DEF BasesTrail, TypeOK
  <2>1. req[b].base.version \in Nat /\ req[b].id \in Id
    BY DEF TypeOK, Request, Row
  <2> QED
    BY <1>1, <1>2, <2>1 DEF BasesTrail
<1>6. MissesLast'
  <2> SUFFICES ASSUME NEW b \in Agent, pc[b] = "check"
               PROVE  \/ rows'[req[b].id].version = 0
                      \/ /\ req[b].ifMatch > 0
                         /\ rows'[req[b].id].version > req[b].ifMatch
    BY <1>1 DEF MissesLast, TypeOK
  <2>1. req[b].ifMatch \in Nat /\ req[b].id \in Id
    BY DEF TypeOK, Request
  <2> QED
    BY <1>1, <1>2, <2>1 DEF MissesLast
<1>7. AnswersStayTrue'
  <2> SUFFICES ASSUME NEW b \in Agent, answer[b].status \in {"conflict", "not_found", "error"}
               PROVE  /\ answer[b].status = "conflict" =>
                           \/ rows'[answer[b].id].version = 0
                           \/ rows'[answer[b].id].version > answer[b].ifMatch
                      /\ answer[b].status \in {"not_found", "error"} =>
                           rows'[answer[b].id].version = 0
    BY <1>1 DEF AnswersStayTrue
  <2>1. answer[b].id \in Id /\ answer[b].ifMatch \in Nat
    BY DEF TypeOK, Answer, Silence
  <2> QED
    BY <1>1, <1>2, <2>1 DEF AnswersStayTrue
<1> QED
  BY <1>3, <1>4, <1>5, <1>6, <1>7

\* A missed UPDATE: the row is gone, or past the version that was sent.
LEMMA PatchMissKeeps ==
  ASSUME IInv, TypeOK', NEW a \in Agent, PatchMiss(a)
  PROVE  IInv'
<1> USE DEF IInv
<1> DEFINE r == req[a]
<1>1. /\ pc[a] = "update" /\ pc' = [pc EXCEPT ![a] = "check"]
      /\ ~Matches(rows[r.id], r.ifMatch)
      /\ UNCHANGED <<rows, used, req, held, answer>>
  BY DEF PatchMiss
<1>2. FreshIds' /\ ViewsTrail' /\ AnswersStayTrue'
  BY <1>1 DEF FreshIds, ViewsTrail, AnswersStayTrue, TypeOK
<1>3. BasesTrail'
  BY <1>1 DEF BasesTrail, TypeOK
<1>4. /\ rows[r.id].version \in Nat /\ r.ifMatch \in Nat /\ r.base.version \in Nat
  BY <1>1 DEF TypeOK, Request, Row
<1>5. rows[r.id].version = 0 \/ (r.ifMatch > 0 /\ rows[r.id].version > r.ifMatch)
  BY <1>1, <1>4 DEF BasesTrail, Matches
<1>6. MissesLast'
  BY <1>1, <1>5 DEF MissesLast, TypeOK
<1> QED
  BY <1>2, <1>3, <1>6

\* The probe after a miss answers what the miss established.
LEMMA PatchCheckKeeps ==
  ASSUME IInv, TypeOK', NEW a \in Agent, PatchCheck(a)
  PROVE  IInv'
<1> USE DEF IInv
<1> DEFINE r == req[a]
<1>1. /\ pc[a] = "check" /\ pc' = [pc EXCEPT ![a] = "idle"]
      /\ req' = [req EXCEPT ![a] = NoRequest]
      /\ answer' = [answer EXCEPT ![a] =
            [status |-> MissStatus(rows[r.id], r.ifMatch), id |-> r.id, ifMatch |-> r.ifMatch]]
      /\ UNCHANGED <<rows, used, held>>
  BY DEF PatchCheck, Reply, Finish
<1>2. FreshIds'
  BY <1>1 DEF FreshIds, TypeOK
<1>3. ViewsTrail' /\ BasesTrail' /\ MissesLast'
  BY <1>1 DEF ViewsTrail, BasesTrail, MissesLast, TypeOK
<1>4. rows[r.id].version = 0 \/ (r.ifMatch > 0 /\ rows[r.id].version > r.ifMatch)
  BY <1>1 DEF MissesLast
<1>5. AnswersStayTrue'
  BY <1>1, <1>4 DEF AnswersStayTrue, MissStatus, TypeOK
<1> QED
  BY <1>2, <1>3, <1>5

\* The version a PATCH answers with is the row's; its columns need not be.
LEMMA PatchReloadKeeps ==
  ASSUME IInv, TypeOK', NEW a \in Agent, PatchReload(a)
  PROVE  IInv'
<1> USE DEF IInv
<1> DEFINE r == req[a]
           i == r.id
<1>1. /\ i \in Id /\ pc[a] = "reload" /\ pc' = [pc EXCEPT ![a] = "idle"]
      /\ req' = [req EXCEPT ![a] = NoRequest]
      /\ UNCHANGED <<rows, used>>
  BY DEF PatchReload, Finish, TypeOK, Request
<1>2. \/ held' = held
      \/ /\ rows[i].version > 0
         /\ held' = [held EXCEPT ![a][i] =
               [version |-> rows[i].version, fields |-> Merge(r.base.fields, r.patch),
                via |-> "update"]]
  BY DEF PatchReload, Learn
<1>3. \E s \in {"ok", "error"} :
        /\ answer' = [answer EXCEPT ![a] = [status |-> s, id |-> i, ifMatch |-> r.ifMatch]]
        /\ s = "error" => rows[i].version = 0
  BY DEF PatchReload, Reply
<1>4. FreshIds'
  BY <1>1, <1>2, <1>3 DEF FreshIds, TypeOK
<1>5. ViewsTrail'
  <2>1. \A b \in Agent, j \in Id :
          \/ held'[b][j] = held[b][j]
          \/ j = i /\ held'[b][j].version = rows[i].version /\ held'[b][j].via = "update"
    BY <1>2 DEF TypeOK
  <2>2. rows[i].version \in Nat
    BY <1>1 DEF TypeOK, Row
  <2> HIDE DEF i
  <2> QED
    BY <1>1, <2>1, <2>2 DEF ViewsTrail
<1>6. BasesTrail'
  <2>1. \A b \in Agent : pc'[b] = "update" =>
                         pc[b] = "update" /\ req'[b] = req[b] /\ held'[b] = held[b]
    BY <1>1, <1>2 DEF TypeOK
  <2> QED
    BY <1>1, <2>1, StillBased
<1>7. MissesLast'
  BY <1>1 DEF MissesLast, TypeOK
<1>8. AnswersStayTrue'
  BY <1>1, <1>3 DEF AnswersStayTrue, TypeOK
<1> QED
  BY <1>4, <1>5, <1>6, <1>7, <1>8

\* A request that fails takes what its handler knew along, and its agent learns nothing.
LEMMA FailKeeps ==
  ASSUME IInv, TypeOK', NEW a \in Agent, Fail(a)
  PROVE  IInv'
<1> USE DEF IInv
<1>1. /\ pc' = [pc EXCEPT ![a] = "idle"] /\ req' = [req EXCEPT ![a] = NoRequest]
      /\ answer' = [answer EXCEPT ![a] = Silence]
      /\ UNCHANGED <<rows, used, held>>
  BY DEF Fail, Finish
<1>2. FreshIds'
  BY <1>1 DEF FreshIds, TypeOK, Silence
<1>3. ViewsTrail' /\ BasesTrail' /\ MissesLast'
  BY <1>1 DEF ViewsTrail, BasesTrail, MissesLast, TypeOK
<1>4. AnswersStayTrue'
  BY <1>1 DEF AnswersStayTrue, TypeOK, Silence
<1> QED
  BY <1>2, <1>3, <1>4

LEMMA NextIInv == IInv /\ [Next]_vars => IInv'
<1> SUFFICES ASSUME IInv, [Next]_vars PROVE IInv'
  OBVIOUS
<1>1. TypeOK'
  BY NextType DEF IInv
<1>2. ASSUME NEW a \in Agent, PatchStep(a)
      PROVE  IInv'
  BY <1>1, <1>2, PatchWriteKeeps, PatchMissKeeps, PatchCheckKeeps, PatchReloadKeeps,
     FailKeeps DEF PatchStep
<1>3. ASSUME NEW a \in Agent, NEW i \in Id, Get(a, i) \/ Delete(a, i)
      PROVE  IInv'
  BY <1>1, <1>3, GetKeeps, DeleteKeeps
<1>4. ASSUME NEW a \in Agent, NEW i \in Id, NEW fields \in Columns, Create(a, i, fields)
      PROVE  IInv'
  BY <1>1, <1>4, CreateKeeps
<1>5. ASSUME NEW a \in Agent, NEW i \in Id, NEW patch \in Patch,
             NEW ifMatch \in SentVersions(a, i), PatchRead(a, i, patch, ifMatch)
      PROVE  IInv'
  BY <1>1, <1>5, PatchReadKeeps
<1>6. CASE UNCHANGED vars
  BY <1>1, <1>6 DEF IInv, vars, FreshIds, ViewsTrail, BasesTrail, MissesLast, AnswersStayTrue
<1> QED
  BY <1>2, <1>3, <1>4, <1>5, <1>6 DEF Next

LEMMA Invariant == Spec => []IInv
BY InitIInv, NextIInv, PTL DEF Spec

----------------------------------------------------------------------------
(* The properties.                                                         *)

\* An agent may act on an error answer at any later time: a 412 never turns
\* into a match and a 404 (or the 500 of a failed reload) never into a record.
THEOREM ErrorsStayTrue == Spec => []AnswersStayTrue
<1>1. IInv => AnswersStayTrue
  BY DEF IInv
<1> QED
  BY <1>1, Invariant, PTL

\* If-Match with the version of a GET or a create never overwrites a change
\* the agent has not seen, however many agents write in between.
THEOREM NoLostUpdateAfterRead == Spec => NoClobberAfterRead
<1>1. IInv /\ [Next]_vars =>
        [\A a \in Agent :
           CommitsIfMatch(a) /\ held[a][req[a].id].via = "read"
             => rows[req[a].id].fields = held[a][req[a].id].fields]_vars
  <2> SUFFICES ASSUME IInv, NEW a \in Agent, PatchWrite(a), req[a].ifMatch > 0,
                      held[a][req[a].id].via = "read"
               PROVE  rows[req[a].id].fields = held[a][req[a].id].fields
    BY DEF CommitsIfMatch
  <2>1. /\ pc[a] = "update" /\ req[a].id \in Id
        /\ rows[req[a].id].version > 0 /\ rows[req[a].id].version = req[a].ifMatch
    BY DEF PatchWrite, Matches, IInv, TypeOK, Request
  <2>2. req[a].ifMatch = held[a][req[a].id].version
    BY <2>1 DEF IInv, BasesTrail
  <2> QED
    BY <2>1, <2>2 DEF IInv, ViewsTrail
<1> QED
  BY <1>1, Invariant, PTL DEF Spec, NoClobberAfterRead

----------------------------------------------------------------------------
(* The audit log.                                                          *)

\* Handlers between the UPDATE and its audit entry.
Reloading(i) == {a \in Agent : pc[a] = "reload" /\ req[a].id = i}

\* An id that was never issued has no entries, and lacks none.
FreshUnaudited == \A i \in Id : i \notin used => audited[i] = 0 /\ owed[i] = 0

AuditInv == UpdatesAudited /\ FreshUnaudited

LEMMA ReloadingCounts ==
  ASSUME NEW i \in Id
  PROVE  IsFiniteSet(Reloading(i)) /\ Cardinality(Reloading(i)) \in Nat
<1>1. Reloading(i) \in SUBSET Agent
  BY DEF Reloading
<1> QED
  BY <1>1, RecordsAssumption, FS_Subset, FS_CardinalityType

\* UpdatesAudited, with the count by name.
LEMMA AuditedBy ==
  UpdatesAudited <=> \A i \in Id : rows[i].version > 0 =>
                       rows[i].version = 1 + audited[i] + owed[i] + Cardinality(Reloading(i))
BY DEF UpdatesAudited, Reloading

\* The count changes for no record by a step that moves nobody into or out of "reload".
LEMMA SameReloading ==
  ASSUME NEW i \in Id,
         \A b \in Agent : (pc'[b] = "reload" /\ req'[b].id = i) <=> (pc[b] = "reload" /\ req[b].id = i)
  PROVE  Reloading(i)' = Reloading(i)
BY DEF Reloading

LEMMA InitAudit == Init => AuditInv
BY DEF Init, AuditInv, UpdatesAudited, FreshUnaudited, NoRow

\* A step that leaves the log and the handlers past their UPDATE alone, and no record
\* with a version it had not, keeps the count.
LEMMA StillAudited ==
  ASSUME IInv, AuditInv, used \subseteq used', audited' = audited, owed' = owed,
         \A i \in Id : Reloading(i)' = Reloading(i),
         \A i \in Id : \/ rows'[i].version \in {0, rows[i].version}
                       \/ rows'[i].version = 1 /\ i \notin used
  PROVE  AuditInv'
<1>1. FreshUnaudited'
  BY DEF AuditInv, FreshUnaudited
<1>2. ASSUME NEW i \in Id, rows'[i].version > 0
      PROVE  rows'[i].version = 1 + audited'[i] + owed'[i] + Cardinality(Reloading(i)')
  <2>1. CASE rows'[i].version = rows[i].version
    BY <1>2, <2>1, AuditedBy DEF AuditInv
  <2>2. CASE rows'[i].version = 1 /\ i \notin used
    <3>1. audited[i] = 0 /\ owed[i] = 0
      BY <2>2 DEF AuditInv, FreshUnaudited
    <3>2. Reloading(i) = {}
      BY <2>2 DEF IInv, FreshIds, Reloading
    <3>3. Cardinality(Reloading(i)') = 0
      BY <3>2, FS_EmptySet
    <3> QED
      BY <2>2, <3>1, <3>3
  <2> QED
    BY <1>2, <2>1, <2>2
<1>3. UpdatesAudited'
  BY <1>2 DEF UpdatesAudited, Reloading
<1> QED
  BY <1>1, <1>3 DEF AuditInv

\* The UPDATE adds a version and a handler that owes an entry.
LEMMA PatchWriteAudited ==
  ASSUME IInv, AuditInv, NEW a \in Agent, PatchWrite(a)
  PROVE  AuditInv'
<1> DEFINE r == req[a]
<1>1. /\ pc[a] = "update" /\ pc' = [pc EXCEPT ![a] = "reload"]
      /\ req' = req /\ audited' = audited /\ owed' = owed /\ used' = used
      /\ pc \in [Agent -> {"idle", "update", "check", "reload"}]
      /\ r.id \in Id /\ rows \in [Id -> Row] /\ rows[r.id].version \in Nat
      /\ audited \in [Id -> Nat] /\ owed \in [Id -> Nat]
  BY DEF PatchWrite, IInv, TypeOK, Request, Row
<1>2. /\ rows[r.id].version > 0
      /\ rows'[r.id].version = rows[r.id].version + 1
      /\ \A i \in Id \ {r.id} : rows'[i] = rows[i]
  BY <1>1 DEF PatchWrite, Matches, Overwrite
<1>3. a \notin Reloading(r.id) /\ Reloading(r.id)' = Reloading(r.id) \cup {a}
  BY <1>1 DEF Reloading
<1>4. Cardinality(Reloading(r.id)') = Cardinality(Reloading(r.id)) + 1
  BY <1>1, <1>3, ReloadingCounts, FS_AddElement
<1>5. \A i \in Id \ {r.id} : Reloading(i)' = Reloading(i)
  BY <1>1 DEF Reloading
<1>6. ASSUME NEW i \in Id, rows'[i].version > 0
      PROVE  rows'[i].version = 1 + audited'[i] + owed'[i] + Cardinality(Reloading(i)')
  <2>1. CASE i = r.id
    <3>1. rows[i].version = 1 + audited[i] + owed[i] + Cardinality(Reloading(i))
      BY <1>2, <2>1, AuditedBy DEF AuditInv
    <3> QED
      BY <1>1, <1>2, <1>4, <2>1, <3>1, ReloadingCounts
  <2>2. CASE i # r.id
    BY <1>1, <1>2, <1>5, <1>6, <2>2, AuditedBy DEF AuditInv
  <2> QED
    BY <2>1, <2>2
<1>7. UpdatesAudited'
  BY <1>6 DEF UpdatesAudited, Reloading
<1> QED
  BY <1>1, <1>7 DEF AuditInv, FreshUnaudited

\* A handler past its UPDATE ends: with an entry, without one that is counted as owed,
\* or without one for a record that is gone.
LEMMA EndsAudited ==
  ASSUME IInv, AuditInv, NEW a \in Agent, NEW x \in Id, pc[a] = "reload", x = req[a].id,
         Finish(a), used' = used, rows' = rows,
         LogEntry(x) \/ LoseEntry(x) \/ (rows[x].version = 0 /\ UNCHANGED <<audited, owed>>)
  PROVE  AuditInv'
<1>1. /\ pc' = [pc EXCEPT ![a] = "idle"] /\ req' = [req EXCEPT ![a] = NoRequest]
      /\ pc \in [Agent -> {"idle", "update", "check", "reload"}]
      /\ req \in [Agent -> Request \cup {NoRequest}] /\ rows[x].version \in Nat
      /\ audited \in [Id -> Nat] /\ owed \in [Id -> Nat]
  BY DEF Finish, IInv, TypeOK, Row
<1>2. /\ \A i \in Id \ {x} : audited'[i] = audited[i] /\ owed'[i] = owed[i]
      /\ rows[x].version > 0 => audited'[x] + owed'[x] = audited[x] + owed[x] + 1
      /\ audited'[x] \in Nat /\ owed'[x] \in Nat
  <2>1. CASE LogEntry(x)
    BY <1>1, <2>1 DEF LogEntry
  <2>2. CASE LoseEntry(x)
    BY <1>1, <2>2 DEF LoseEntry
  <2>3. CASE rows[x].version = 0 /\ UNCHANGED <<audited, owed>>
    BY <1>1, <2>3
  <2> QED
    BY <2>1, <2>2, <2>3
<1>3. a \in Reloading(x) /\ Reloading(x)' = Reloading(x) \ {a}
  BY <1>1 DEF Reloading
<1>4. Cardinality(Reloading(x)') = Cardinality(Reloading(x)) - 1
  BY <1>1, <1>3, ReloadingCounts, FS_RemoveElement
<1>5. \A i \in Id \ {x} : Reloading(i)' = Reloading(i)
  BY <1>1 DEF Reloading
<1>6. ASSUME NEW i \in Id, rows'[i].version > 0
      PROVE  rows'[i].version = 1 + audited'[i] + owed'[i] + Cardinality(Reloading(i)')
  <2>1. rows[i].version = 1 + audited[i] + owed[i] + Cardinality(Reloading(i))
    BY <1>6, AuditedBy DEF AuditInv
  <2>2. CASE i = x
    BY <1>1, <1>2, <1>4, <1>6, <2>1, <2>2, ReloadingCounts
  <2>3. CASE i # x
    BY <1>2, <1>5, <2>1, <2>3
  <2> QED
    BY <2>2, <2>3
<1>7. UpdatesAudited'
  BY <1>6 DEF UpdatesAudited, Reloading
<1>8. x \in used
  BY DEF IInv, FreshIds
<1>9. FreshUnaudited'
  BY <1>2, <1>8 DEF AuditInv, FreshUnaudited
<1> QED
  BY <1>7, <1>9 DEF AuditInv

LEMMA PatchReloadAudited ==
  ASSUME IInv, AuditInv, NEW a \in Agent, PatchReload(a)
  PROVE  AuditInv'
<1>1. PICK x \in Id : x = req[a].id
  BY DEF PatchReload, IInv, TypeOK, Request
<1>2. LogEntry(x) \/ LoseEntry(x) \/ (rows[x].version = 0 /\ UNCHANGED <<audited, owed>>)
  BY <1>1 DEF PatchReload
<1>3. pc[a] = "reload" /\ Finish(a) /\ used' = used /\ rows' = rows
  BY DEF PatchReload
<1> QED
  BY <1>1, <1>2, <1>3, EndsAudited

LEMMA FailAudited ==
  ASSUME IInv, AuditInv, NEW a \in Agent, Fail(a)
  PROVE  AuditInv'
<1>1. Finish(a) /\ used' = used /\ rows' = rows
  BY DEF Fail
<1>2. CASE pc[a] = "reload"
  <2>1. PICK x \in Id : x = req[a].id
    BY <1>2 DEF IInv, TypeOK, Request
  <2>2. LoseEntry(x)
    BY <1>2, <2>1 DEF Fail
  <2> QED
    BY <1>1, <1>2, <2>1, <2>2, EndsAudited
<1>3. CASE pc[a] # "reload"
  <2>1. audited' = audited /\ owed' = owed
    BY <1>3 DEF Fail
  <2>2. ASSUME NEW i \in Id PROVE Reloading(i)' = Reloading(i)
    BY <1>1, <1>3, SameReloading DEF Finish, IInv, TypeOK
  <2> QED
    BY <1>1, <2>1, <2>2, StillAudited
<1> QED
  BY <1>2, <1>3

LEMMA NextAudit == IInv /\ AuditInv /\ [Next]_vars => AuditInv'
<1> SUFFICES ASSUME IInv, AuditInv, [Next]_vars PROVE AuditInv'
  OBVIOUS
<1> USE DEF IInv
<1>1. ASSUME NEW a \in Agent, PatchMiss(a) \/ PatchCheck(a)
      PROVE  AuditInv'
  <2>1. rows' = rows /\ used' = used /\ audited' = audited /\ owed' = owed
    BY <1>1 DEF PatchMiss, PatchCheck, AuditMiss
  <2>2. ASSUME NEW i \in Id PROVE Reloading(i)' = Reloading(i)
    BY <1>1, SameReloading DEF PatchMiss, PatchCheck, Finish, TypeOK
  <2> QED
    BY <2>1, <2>2, StillAudited
<1>2. ASSUME NEW a \in Agent, NEW i \in Id, Get(a, i) \/ Delete(a, i)
      PROVE  AuditInv'
  <2>1. used' = used /\ audited' = audited /\ owed' = owed /\ pc' = pc /\ req' = req
    BY <1>2 DEF Get, Delete
  <2>2. \A j \in Id : rows'[j].version \in {0, rows[j].version}
    BY <1>2 DEF Get, Delete, NoRow, TypeOK
  <2>3. ASSUME NEW j \in Id PROVE Reloading(j)' = Reloading(j)
    BY <2>1, SameReloading
  <2> QED
    BY <2>1, <2>2, <2>3, StillAudited
<1>3. ASSUME NEW a \in Agent, NEW i \in Id, NEW fields \in Columns, Create(a, i, fields)
      PROVE  AuditInv'
  <2>1. used \subseteq used' /\ audited' = audited /\ owed' = owed /\ pc' = pc /\ req' = req
    BY <1>3 DEF Create
  <2>2. \A j \in Id : rows'[j].version = rows[j].version \/ (rows'[j].version = 1 /\ j \notin used)
    BY <1>3 DEF Create, TypeOK
  <2>3. ASSUME NEW j \in Id PROVE Reloading(j)' = Reloading(j)
    BY <2>1, SameReloading
  <2> QED
    BY <2>1, <2>2, <2>3, StillAudited
<1>4. ASSUME NEW a \in Agent, NEW i \in Id, NEW patch \in Patch,
             NEW ifMatch \in SentVersions(a, i), PatchRead(a, i, patch, ifMatch)
      PROVE  AuditInv'
  <2>1. rows' = rows /\ used' = used /\ audited' = audited /\ owed' = owed
    BY <1>4 DEF PatchRead
  <2>2. ASSUME NEW j \in Id PROVE Reloading(j)' = Reloading(j)
    <3>1. /\ pc[a] = "idle"
          /\ pc'[a] # "reload"
          /\ \A b \in Agent \ {a} : pc'[b] = pc[b] /\ req'[b] = req[b]
      BY <1>4 DEF PatchRead, TypeOK
    <3> QED
      BY <3>1, SameReloading
  <2> QED
    BY <2>1, <2>2, StillAudited
<1>5. CASE UNCHANGED vars
  <2>1. rows' = rows /\ used' = used /\ audited' = audited /\ owed' = owed /\ pc' = pc /\ req' = req
    BY <1>5 DEF vars
  <2>2. ASSUME NEW j \in Id PROVE Reloading(j)' = Reloading(j)
    BY <2>1, SameReloading
  <2> QED
    BY <2>1, <2>2, StillAudited
<1> QED
  BY <1>1, <1>2, <1>3, <1>4, <1>5, PatchWriteAudited, PatchReloadAudited, FailAudited
     DEF Next, PatchStep

\* Every update committed to a record that exists is in the audit log, unless its handler
\* has still to write the entry or failed after the UPDATE, for any number of agents.
THEOREM EveryUpdateAudited == Spec => []UpdatesAudited
<1>1. AuditInv => UpdatesAudited
  BY DEF AuditInv
<1> QED
  BY <1>1, InitAudit, NextAudit, Invariant, PTL DEF Spec

----------------------------------------------------------------------------
(* The refinement: every step of a handler is one step of RecordStore, or  *)
(* none.  A handler that ends before its UPDATE drops its request.         *)

LEMMA StoreDefinitions ==
  /\ Store!Columns = Columns /\ Store!Row = Row /\ Store!NoRow = NoRow
  /\ Store!Ask = [id : Id, patch : Patch, ifMatch : Nat]
  /\ \A row, n : Store!Matches(row, n) <=> Matches(row, n)
  /\ \A fields, patch : Store!Merge(fields, patch) = Merge(fields, patch)
BY DEF Store!Columns, Columns, Store!Row, Row, Store!NoRow, NoRow, Store!Ask,
       Store!Patch, Patch, Store!Matches, Matches, Store!Merge, Merge

LEMMA InitRefines == Init => Store!StoreInit
BY StoreDefinitions DEF Init, Store!StoreInit, Asked, Refused

LEMMA PatchReadRefines ==
  ASSUME IInv, TypeOK', NEW a \in Agent, NEW i \in Id, NEW patch \in Patch,
         NEW ifMatch \in SentVersions(a, i), PatchRead(a, i, patch, ifMatch)
  PROVE  Store!AskPatch(a) \/ UNCHANGED Store!storeVars
<1>1. UNCHANGED <<rows, used>> /\ pc[a] = "idle"
  BY DEF PatchRead
<1>2. CASE UNCHANGED <<pc, req>>
  BY <1>1, <1>2 DEF Asked, Refused, Store!storeVars
<1>3. CASE /\ pc' = [pc EXCEPT ![a] = "update"]
           /\ req' = [req EXCEPT ![a] = [id |-> i, patch |-> patch,
                                         ifMatch |-> ifMatch, base |-> rows[i]]]
  <2> DEFINE q == [id |-> i, patch |-> patch, ifMatch |-> ifMatch]
  <2>1. q \in Store!Ask
    BY StoreDefinitions DEF SentVersions, IInv, TypeOK, View
  <2>2. Asked[a] = {}
    BY <1>1 DEF Asked
  <2>3. Asked' = [Asked EXCEPT ![a] = {q}]
    BY <1>3 DEF Asked, IInv, TypeOK
  <2>4. q \in Asked'[a]
    BY <2>3 DEF Asked
  <2>5. Refused' = Refused /\ a \notin Refused
    BY <1>1, <1>3 DEF Refused, IInv, TypeOK
  <2> QED
    BY <1>1, <2>1, <2>2, <2>3, <2>4, <2>5 DEF Store!AskPatch
<1> QED
  BY <1>2, <1>3 DEF PatchRead

LEMMA PatchWriteRefines ==
  ASSUME IInv, TypeOK', NEW a \in Agent, PatchWrite(a)
  PROVE  Store!Commit(a)
<1> DEFINE r == req[a]
           q == [id |-> r.id, patch |-> r.patch, ifMatch |-> r.ifMatch]
           new == Merge(r.base.fields, r.patch)
<1>1. /\ pc[a] = "update" /\ pc' = [pc EXCEPT ![a] = "reload"]
      /\ Matches(rows[r.id], r.ifMatch)
      /\ rows' = [rows EXCEPT ![r.id] = [version |-> rows[r.id].version + 1, fields |-> new]]
      /\ UNCHANGED <<used, req>>
  BY DEF PatchWrite, Overwrite
<1>2. /\ r \in Request /\ r.id \in Id /\ r.patch \in Patch /\ r.ifMatch \in Nat
      /\ r.base.version \in Nat /\ r.base.fields \in Columns
      /\ rows[r.id].version \in Nat
  BY <1>1 DEF IInv, TypeOK, Request, Row
<1>3. Asked[a] = {q}
  BY <1>1 DEF Asked
<1>4. Asked' = [Asked EXCEPT ![a] = {}]
  BY <1>1 DEF Asked, IInv, TypeOK
<1>5. new \in Columns
  BY <1>2, MergeType
<1>6. Store!Honours(q, rows[r.id].fields, new)
  <2>1. CASE r.ifMatch > 0
    <3>1. r.base.version = rows[r.id].version
      BY <1>1, <1>2, <2>1 DEF IInv, BasesTrail, Matches
    <3>2. r.base.fields = rows[r.id].fields
      BY <1>1, <3>1 DEF IInv, BasesTrail, Matches
    <3> QED
      BY <2>1, <3>2, StoreDefinitions DEF Store!Honours
  <2>2. CASE ~(r.ifMatch > 0)
    <3>1. \A f \in DOMAIN r.patch : f \in Field
      BY <1>2 DEF Patch
    <3>2. \A f \in DOMAIN r.patch : new[f] = r.patch[f]
      BY <3>1 DEF Merge
    <3> QED
      BY <2>2, <3>2 DEF Store!Honours
  <2> QED
    BY <2>1, <2>2
<1>7. \E c \in Store!Columns :
        /\ Store!Honours(q, rows[q.id].fields, c)
        /\ rows' = [rows EXCEPT ![q.id] = [version |-> rows[q.id].version + 1, fields |-> c]]
  BY <1>1, <1>5, <1>6, StoreDefinitions
<1>8. Store!Matches(rows[q.id], q.ifMatch)
  BY <1>1, StoreDefinitions
<1>9. Refused' = Refused
  BY <1>1 DEF Refused, IInv, TypeOK
<1> HIDE DEF q
<1> QED
  BY <1>1, <1>3, <1>4, <1>7, <1>8, <1>9 DEF Store!Commit

LEMMA PatchMissRefines ==
  ASSUME IInv, TypeOK', NEW a \in Agent, PatchMiss(a)
  PROVE  Store!Refuse(a)
<1> DEFINE r == req[a]
           q == [id |-> r.id, patch |-> r.patch, ifMatch |-> r.ifMatch]
<1>1. /\ pc[a] = "update" /\ pc' = [pc EXCEPT ![a] = "check"]
      /\ ~Matches(rows[r.id], r.ifMatch)
      /\ UNCHANGED <<rows, used, req>>
  BY DEF PatchMiss
<1>2. Asked[a] = {q}
  BY <1>1 DEF Asked
<1>3. Asked' = [Asked EXCEPT ![a] = {}]
  BY <1>1 DEF Asked, IInv, TypeOK
<1>4. ~Store!Matches(rows[q.id], q.ifMatch)
  BY <1>1, StoreDefinitions
<1>5. Refused' = Refused \cup {a}
  BY <1>1 DEF Refused, IInv, TypeOK
<1> HIDE DEF q
<1> QED
  BY <1>1, <1>2, <1>3, <1>4, <1>5 DEF Store!Refuse

\* A handler that ends: before its UPDATE the request is dropped, after a miss its client
\* is told, or would have been.
LEMMA EndRefines ==
  ASSUME IInv, NEW a \in Agent, Finish(a), rows' = rows, used' = used
  PROVE  Store!Drop(a) \/ Store!Tell(a) \/ UNCHANGED Store!storeVars
<1>1. /\ pc' = [pc EXCEPT ![a] = "idle"] /\ req' = [req EXCEPT ![a] = NoRequest]
      /\ pc \in [Agent -> {"idle", "update", "check", "reload"}]
      /\ req \in [Agent -> Request \cup {NoRequest}]
  BY DEF Finish, IInv, TypeOK
<1>2. /\ Asked' = [Asked EXCEPT ![a] = {}] /\ Refused' = Refused \ {a}
      /\ a \in Refused <=> pc[a] = "check"
      /\ Asked[a] # {} <=> pc[a] = "update"
  BY <1>1 DEF Asked, Refused
<1>3. CASE pc[a] = "update"
  BY <1>2, <1>3 DEF Store!Drop
<1>4. CASE pc[a] = "check"
  <2>1. Asked' = Asked
    BY <1>2, <1>4 DEF Asked
  <2> QED
    BY <1>2, <1>4, <2>1 DEF Store!Tell
<1>5. CASE pc[a] \notin {"update", "check"}
  <2>1. Asked' = Asked /\ Refused' = Refused
    BY <1>2, <1>5 DEF Asked
  <2> QED
    BY <2>1 DEF Store!storeVars
<1> QED
  BY <1>3, <1>4, <1>5

LEMMA NextRefines == IInv /\ [Next]_vars => [Store!StoreNext]_(Store!storeVars)
<1> SUFFICES ASSUME IInv, [Next]_vars
             PROVE  Store!StoreNext \/ UNCHANGED Store!storeVars
  OBVIOUS
<1>1. TypeOK /\ TypeOK'
  BY NextType DEF IInv
<1>2. ASSUME NEW a \in Agent, PatchStep(a)
      PROVE  Store!StoreNext \/ UNCHANGED Store!storeVars
  <2>1. CASE PatchWrite(a) \/ PatchMiss(a)
    BY <1>1, <2>1, PatchWriteRefines, PatchMissRefines DEF Store!StoreNext
  <2>2. CASE PatchCheck(a) \/ PatchReload(a) \/ Fail(a)
    <3>1. Finish(a) /\ rows' = rows /\ used' = used
      BY <2>2 DEF PatchCheck, PatchReload, Fail
    <3> QED
      BY <3>1, EndRefines DEF Store!StoreNext
  <2> QED
    BY <1>2, <2>1, <2>2 DEF PatchStep
<1>3. ASSUME NEW a \in Agent, NEW i \in Id, Get(a, i) \/ Delete(a, i)
      PROVE  Store!StoreNext \/ UNCHANGED Store!storeVars
  <2>1. Asked' = Asked /\ Refused' = Refused /\ used' = used
    BY <1>3 DEF Get, Delete, Asked, Refused
  <2>2. rows' = rows \/ (rows[i].version > 0 /\ rows' = [rows EXCEPT ![i] = NoRow])
    BY <1>3 DEF Get, Delete
  <2> QED
    BY <2>1, <2>2, StoreDefinitions DEF Store!StoreNext, Store!Remove, Store!storeVars
<1>4. ASSUME NEW a \in Agent, NEW i \in Id, NEW fields \in Columns, Create(a, i, fields)
      PROVE  Store!StoreNext
  <2>1. Asked' = Asked /\ Refused' = Refused
    BY <1>4 DEF Create, Asked, Refused
  <2> QED
    BY <1>4, <2>1, StoreDefinitions DEF Create, Store!StoreNext, Store!Insert
<1>5. ASSUME NEW a \in Agent, NEW i \in Id, NEW patch \in Patch,
             NEW ifMatch \in SentVersions(a, i), PatchRead(a, i, patch, ifMatch)
      PROVE  Store!StoreNext \/ UNCHANGED Store!storeVars
  BY <1>1, <1>5, PatchReadRefines DEF Store!StoreNext
<1>6. CASE UNCHANGED vars
  BY <1>6 DEF vars, Asked, Refused, Store!storeVars
<1> QED
  BY <1>2, <1>3, <1>4, <1>5, <1>6 DEF Next

\* The handlers of PATCH, which read, merge and write in separate statements,
\* implement an atomic compare-and-set for every PATCH that carries a version.
THEOREM RecordsImplementsStore == Spec => ImplementsStore
BY InitRefines, NextRefines, Invariant, PTL DEF Spec, ImplementsStore, Store!StoreSpec

----------------------------------------------------------------------------
(* The sweep of the audit log.                                             *)

\* A sweep goes through plans whose entries do not stay for ever.
Sweeping ==
    \A s \in Slot : calls[s] # NoReq =>
      /\ calls[s].todo \subseteq Swept
      /\ calls[s].at = "delete" => calls[s].doing \in Swept

\* Nobody has swept since a request found that a sweep is due, or it is beaten.
StillDue ==
    \A s \in Slot :
      calls[s].at = "swap" /\ ~calls[s].beaten => last[calls[s].proc] = Interval

SweepInv == AuditTypeOK /\ Sweeping /\ StillDue

LEMMA NoReqIsNone == NoReq \notin Req /\ NoReq.at = "none"
BY DEF NoReq, Req

LEMMA SweptPlans ==
    /\ Swept \subseteq Plans
    /\ \A p \in Plans : Days(p) \in Int
    /\ \A p \in Swept : Days(p) > 0
BY AuditAssumption DEF Swept, Days

\* What becomes of the locals of a sweep as it begins, takes a cutoff and proceeds.
LEMMA SweepBegins ==
    ASSUME NEW q \in Req, NEW todo \in SUBSET Plans
    PROVE  [q EXCEPT !.at = "sweep", !.todo = todo, !.lag = 0] \in Req
<1>1. 0 \in 0 .. MaxLag
  BY AuditAssumption
<1> QED
  BY <1>1 DEF Req

LEMMA CutoffTaken ==
    ASSUME NEW q \in Req, NEW p \in Plans
    PROVE  LET n == [q EXCEPT !.at = "delete", !.doing = p, !.lag = 0]
           IN  n \in Req /\ n.at = "delete" /\ n.doing = p /\ n.todo = q.todo
<1>1. 0 \in 0 .. MaxLag
  BY AuditAssumption
<1> QED
  BY <1>1 DEF Req

LEMMA SweepProceeds ==
    ASSUME NEW q \in Req, NEW todo \in SUBSET Plans
    PROVE  LET n == [q EXCEPT !.at = "sweep", !.todo = todo, !.doing = Removed, !.lag = 0]
           IN  n \in Req /\ n.at = "sweep" /\ n.todo = todo
<1>1. 0 \in 0 .. MaxLag
  BY AuditAssumption
<1> QED
  BY <1>1 DEF Req

LEMMA InitSweep == AuditInit => SweepInv
<1> SUFFICES ASSUME AuditInit PROVE SweepInv
  OBVIOUS
<1>1. AuditTypeOK
  BY AuditAssumption DEF AuditInit, AuditTypeOK, Stored
<1> QED
  BY <1>1, NoReqIsNone DEF AuditInit, SweepInv, Sweeping, StillDue

\* The step of one request.
LEMMA StepSweeps ==
    ASSUME SweepInv, NEW s \in Slot, Step(s)
    PROVE  SweepInv'
<1> USE NoReqIsNone DEF SweepInv
<1>0. /\ calls \in [Slot -> Req \cup {NoReq}] /\ calls[s] \in Req
      /\ plan' = plan /\ crashes' = crashes
  BY DEF Step, Throttle, Swap, TakeCutoff, Prune, PruneFails, AuditTypeOK
<1> DEFINE q == calls[s]
<1>1. CASE Throttle(s)
  <2>1. log' = log /\ last' = last
    BY <1>1 DEF Throttle
  <2>2. CASE calls' = [calls EXCEPT ![s] = NoReq]
    BY <1>0, <2>1, <2>2 DEF AuditTypeOK, Sweeping, StillDue, Stored
  <2>3. CASE last[q.proc] >= Interval /\ calls' = [calls EXCEPT ![s].at = "swap"]
    <3>1. [q EXCEPT !.at = "swap"] \in Req
      BY <1>0 DEF Req
    <3>2. last[q.proc] = Interval
      BY <1>0, <2>3, AuditAssumption DEF AuditTypeOK, Req
    <3> QED
      BY <1>0, <2>1, <2>3, <3>1, <3>2 DEF AuditTypeOK, Sweeping, StillDue, Stored, Req
  <2>4. last[q.proc] \in Int
    BY <1>0 DEF AuditTypeOK, Req
  <2> QED
    BY <1>1, <2>2, <2>3, <2>4, AuditAssumption DEF Throttle, Done, Goto
<1>2. CASE Swap(s)
  <2>1. log' = log
    BY <1>2 DEF Swap
  <2>2. CASE calls' = [calls EXCEPT ![s] = NoReq] /\ last' = last
    BY <1>0, <2>1, <2>2 DEF AuditTypeOK, Sweeping, StillDue, Stored
  <2>3. CASE ~q.beaten
    <3> DEFINE begun == IF Swept = {} THEN NoReq
                        ELSE [q EXCEPT !.at = "sweep", !.todo = Swept, !.lag = 0]
               n(t) == IF t = s THEN begun
                       ELSE IF calls[t].at = "swap" /\ calls[t].proc = q.proc
                            THEN [calls[t] EXCEPT !.beaten = TRUE] ELSE calls[t]
    <3>1. /\ calls' = [t \in Slot |-> n(t)]
          /\ last' = [last EXCEPT ![q.proc] = Smaller(q.lag, Interval)]
      BY <1>2, <2>3 DEF Swap, Wins
    <3>2. begun \in Req \cup {NoReq} /\ (begun # NoReq => begun.at = "sweep" /\ begun.todo = Swept)
      <4>1. [q EXCEPT !.at = "sweep", !.todo = Swept, !.lag = 0] \in Req
        BY <1>0, SweptPlans, SweepBegins
      <4> QED
        BY <1>0, <4>1 DEF Req
    <3> HIDE DEF begun
    <3>3. ASSUME NEW t \in Slot, t # s, calls[t] \in Req
          PROVE  n(t) \in Req /\ n(t).at = calls[t].at /\ n(t).todo = calls[t].todo
                 /\ n(t).doing = calls[t].doing /\ n(t).proc = calls[t].proc
                 /\ (n(t).at = "swap" /\ ~n(t).beaten => n(t).proc # q.proc /\ ~calls[t].beaten)
      BY <3>3 DEF Req
    <3>4. ASSUME NEW t \in Slot, t # s, calls[t] \notin Req
          PROVE  n(t) = NoReq /\ calls[t] = NoReq
      BY <1>0, <3>4
    <3>5. Smaller(q.lag, Interval) \in 0 .. Interval
      BY <1>0, AuditAssumption DEF Smaller, Req
    <3>6. AuditTypeOK'
      BY <1>0, <2>1, <3>1, <3>2, <3>3, <3>4, <3>5 DEF AuditTypeOK, Stored
    <3>7. Sweeping'
      BY <3>1, <3>2, <3>3, <3>4 DEF Sweeping
    <3>8. StillDue'
      <4>1. n(s).at # "swap"
        BY <3>2
      <4>2. ASSUME NEW t \in Slot, n(t).at = "swap", ~n(t).beaten
            PROVE  last'[n(t).proc] = Interval
        <5>1. t # s /\ calls[t] \in Req
          BY <3>4, <4>1, <4>2
        <5>2. last'[n(t).proc] = last[n(t).proc]
          BY <3>1, <3>3, <4>2, <5>1 DEF AuditTypeOK, Req
        <5> QED
          BY <3>3, <4>2, <5>1, <5>2 DEF StillDue
      <4> QED
        BY <3>1, <4>2 DEF StillDue
    <3> QED
      BY <3>6, <3>7, <3>8
  <2> QED
    BY <1>2, <2>2, <2>3 DEF Swap, Wins, Done
<1>3. CASE TakeCutoff(s)
  <2>1. PICK p \in q.todo :
          calls' = [calls EXCEPT ![s].at = "delete", ![s].doing = p, ![s].lag = 0]
    BY <1>3 DEF TakeCutoff
  <2>2. p \in Swept
    BY <1>0, <2>1 DEF Sweeping
  <2> DEFINE n == [q EXCEPT !.at = "delete", !.doing = p, !.lag = 0]
  <2>3. calls' = [calls EXCEPT ![s] = n]
    BY <1>0, <2>1
  <2>4. n \in Req /\ n.at = "delete" /\ n.doing = p /\ n.todo = q.todo
    BY <1>0, <2>2, SweptPlans, CutoffTaken
  <2> HIDE DEF n
  <2>5. log' = log /\ last' = last
    BY <1>3 DEF TakeCutoff
  <2> QED
    BY <1>0, <2>2, <2>3, <2>4, <2>5 DEF AuditTypeOK, Sweeping, StillDue, Stored
<1>4. CASE Prune(s) \/ PruneFails(s)
  <2> DEFINE rest == q.todo \ {q.doing}
             n == [q EXCEPT !.at = "sweep", !.todo = rest, !.doing = Removed, !.lag = 0]
  <2>1. last' = last /\ (calls' = [calls EXCEPT ![s] = NoReq] \/ calls' = [calls EXCEPT ![s] = n])
    BY <1>0, <1>4 DEF Prune, PruneFails, Proceed, Done
  <2>2. n \in Req /\ n.at = "sweep" /\ n.todo = rest
    <3>1. rest \in SUBSET Plans
      BY <1>0 DEF Req
    <3> QED
      BY <1>0, <3>1, SweepProceeds
  <2>3. Stored' \subseteq Stored /\ \A e \in Stored' : log'[e] = log[e]
    BY <1>4 DEF Prune, PruneFails, Stored, Restrict
  <2>4. rest \subseteq Swept
    BY <1>0 DEF Sweeping
  <2> HIDE DEF n, rest
  <2> QED
    BY <1>0, <2>1, <2>2, <2>3, <2>4 DEF AuditTypeOK, Sweeping, StillDue
<1> QED
  BY <1>1, <1>2, <1>3, <1>4 DEF Step

\* A new entry, a change of plan, a crash and a day that passes.
LEMMA AroundSweeps ==
    ASSUME SweepInv,
           SomeAudit \/ Day \/ (\E w \in Ws, p \in Plans \cup {Removed} : ChangePlan(w, p))
             \/ (\E p \in Process : Crash(p)) \/ UNCHANGED auditVars
    PROVE  SweepInv'
<1> USE NoReqIsNone DEF SweepInv
<1>0. calls \in [Slot -> Req \cup {NoReq}]
  BY DEF AuditTypeOK
<1>1. ASSUME NEW s \in Slot, NEW p \in Process, NEW w \in Ws, Audit(s, p, w) PROVE SweepInv'
  <2> DEFINE n == [at |-> "throttle", proc |-> p, lag |-> 0, beaten |-> FALSE,
                   doing |-> Removed, todo |-> {}]
  <2>1. /\ calls' = [calls EXCEPT ![s] = n]
        /\ plan' = plan /\ last' = last /\ crashes' = crashes
    BY <1>1 DEF Audit
  <2>2. n \in Req /\ n.at = "throttle" /\ n.todo = {}
    BY AuditAssumption DEF Req
  <2> HIDE DEF n
  <2>3. Stored' \subseteq Entry /\ \A e \in Stored' : log'[e] \in Rows
    <3>1. CASE log' = log
      BY <3>1 DEF AuditTypeOK, Stored
    <3>2. ASSUME NEW e \in Entry \ Stored,
                 log' = [f \in Stored \cup {e} |-> IF f = e THEN [ws |-> w, age |-> 0] ELSE log[f]]
          PROVE  Stored' \subseteq Entry /\ \A f \in Stored' : log'[f] \in Rows
      <4>1. [ws |-> w, age |-> 0] \in Rows
        BY AuditAssumption DEF Rows
      <4> QED
        BY <3>2, <4>1 DEF AuditTypeOK, Stored
    <3> QED
      BY <1>1, <3>1, <3>2 DEF Audit
  <2> QED
    BY <1>0, <2>1, <2>2, <2>3 DEF AuditTypeOK, Sweeping, StillDue
<1>2. CASE Day
  <2> DEFINE n(s) == IF Waiting(s) THEN [calls[s] EXCEPT !.lag = @ + 1] ELSE calls[s]
  <2>1. /\ plan' = plan /\ crashes' = crashes
        /\ calls' = [s \in Slot |-> n(s)]
        /\ last' = [p \in Process |-> Later(last[p], Interval)]
        /\ log' = [e \in Stored |-> [log[e] EXCEPT !.age = Later(@, Horizon)]]
        /\ \A s \in Slot : Waiting(s) => calls[s].lag < MaxLag
    BY <1>2 DEF Day
  <2>2. ASSUME NEW s \in Slot, calls[s] \in Req
        PROVE  n(s) \in Req /\ n(s).at = calls[s].at /\ n(s).todo = calls[s].todo
               /\ n(s).doing = calls[s].doing /\ n(s).proc = calls[s].proc
               /\ n(s).beaten = calls[s].beaten
    BY <2>1, <2>2, AuditAssumption DEF Req
  <2>3. ASSUME NEW s \in Slot, calls[s] = NoReq PROVE n(s) = NoReq
    BY <2>3 DEF Waiting
  <2> HIDE DEF n
  <2>4. \A p \in Process : last'[p] \in 0 .. Interval /\ (last[p] = Interval => last'[p] = Interval)
    BY <2>1, AuditAssumption DEF AuditTypeOK, Later
  <2>5. Stored' = Stored /\ \A e \in Stored : log'[e] \in Rows
    BY <2>1, AuditAssumption DEF AuditTypeOK, Stored, Rows, Later
  <2>6. AuditTypeOK'
    BY <1>0, <2>1, <2>2, <2>3, <2>4, <2>5 DEF AuditTypeOK
  <2>7. Sweeping'
    BY <1>0, <2>1, <2>2, <2>3 DEF Sweeping
  <2>8. StillDue'
    <3> SUFFICES ASSUME NEW s \in Slot, n(s).at = "swap", ~n(s).beaten
                 PROVE  last'[n(s).proc] = Interval
      BY <2>1 DEF StillDue
    <3>1. calls[s] \in Req
      BY <1>0, <2>3
    <3> QED
      BY <2>2, <2>4, <3>1 DEF StillDue, Req
  <2> QED
    BY <2>6, <2>7, <2>8
<1>3. ASSUME NEW w \in Ws, NEW p \in Plans \cup {Removed}, ChangePlan(w, p) PROVE SweepInv'
  BY <1>3 DEF ChangePlan, AuditTypeOK, Sweeping, StillDue, Stored
<1>4. ASSUME NEW p \in Process, Crash(p) PROVE SweepInv'
  <2>1. /\ plan' = plan /\ log' = log /\ last' = [last EXCEPT ![p] = Interval]
        /\ crashes < MaxCrashes /\ crashes' = crashes + 1
        /\ calls' = [s \in Slot |-> IF calls[s] # NoReq /\ calls[s].proc = p THEN NoReq ELSE calls[s]]
    BY <1>4 DEF Crash
  <2>2. AuditTypeOK'
    BY <1>0, <2>1, AuditAssumption DEF AuditTypeOK, Stored
  <2>3. Sweeping'
    BY <2>1 DEF Sweeping
  <2>4. StillDue'
    BY <1>0, <2>1 DEF StillDue, AuditTypeOK, Req
  <2> QED
    BY <2>2, <2>3, <2>4
<1>5. CASE UNCHANGED auditVars
  BY <1>5 DEF auditVars, AuditTypeOK, Sweeping, StillDue, Stored
<1> QED
  BY <1>1, <1>2, <1>3, <1>4, <1>5 DEF SomeAudit

LEMMA SweepInvariant == AuditSpec => []SweepInv
<1>1. SweepInv /\ [AuditNext]_auditVars => SweepInv'
  BY StepSweeps, AroundSweeps DEF AuditNext
<1> QED
  BY InitSweep, <1>1, PTL DEF AuditSpec

----------------------------------------------------------------------------
(* Theorems about AuditLog.                                                *)

\* The entries, lastAuditPrune and the locals of requests and sweeps keep their types,
\* however requests, sweeps, crashes and changes of plan overlap.
THEOREM AuditTypeCorrect == AuditSpec => []AuditTypeOK
BY SweepInvariant, PTL DEF SweepInv

\* PruneAuditForPlan deletes only entries past the retention of the plan their workspace
\* is on by then: the cutoff is older than the DELETE, and it is taken for the plan that
\* the DELETE selects workspaces by, one whose entries do not stay for ever.
THEOREM RetentionIsKept == AuditSpec => RetentionKept
<1>1. SweepInv /\ [AuditNext]_auditVars => [\A e \in Stored \ DOMAIN log' : Overdue(e)]_auditVars
  <2> SUFFICES ASSUME SweepInv, AuditNext, NEW e \in Stored, e \notin DOMAIN log'
               PROVE  Overdue(e)
    OBVIOUS
  <2>1. PICK s \in Slot : Prune(s)
    BY DEF AuditNext, SomeAudit, Audit, Day, ChangePlan, Crash, Step, Throttle, Swap, TakeCutoff,
           PruneFails, Stored
  <2>2. e \in Doomed(calls[s].doing, calls[s].lag)
    BY <2>1 DEF Prune, Restrict
  <2>3. calls[s] \in Req /\ calls[s].doing \in Swept
    BY <2>1, NoReqIsNone DEF Prune, SweepInv, AuditTypeOK, Sweeping
  <2>4. calls[s].lag \in Nat /\ log[e].age \in Int
    BY <2>3, AuditAssumption DEF SweepInv, AuditTypeOK, Req, Rows
  <2> QED
    BY <2>2, <2>3, <2>4, SweptPlans DEF Doomed, OnPlan, Overdue
<1> QED
  BY <1>1, SweepInvariant, PTL DEF AuditSpec, RetentionKept

\* However many requests read lastAuditPrune before one of them replaces it, a process
\* starts one sweep in an interval: CompareAndSwap lets one of them through.
THEOREM SweepsAreApart == AuditSpec => OneSweepPerInterval
<1>1. SweepInv /\ [AuditNext]_auditVars =>
        [\A s \in Slot : calls[s].at = "swap" /\ calls'[s].at = "sweep"
           => last[calls[s].proc] >= Interval]_auditVars
  <2> SUFFICES ASSUME SweepInv, AuditNext, NEW s \in Slot,
                      calls[s].at = "swap", calls'[s].at = "sweep"
               PROVE  last[calls[s].proc] >= Interval
    OBVIOUS
  <2>1. calls \in [Slot -> Req \cup {NoReq}] /\ calls[s] \in Req
    BY NoReqIsNone DEF SweepInv, AuditTypeOK
  <2>2. Swap(s) /\ Wins(s)
    <3>1. ~SomeAudit
      BY <2>1, NoReqIsNone DEF SomeAudit, Audit
    <3>2. ~Day
      BY <2>1 DEF Day, Req
    <3>3. \A p \in Process : ~Crash(p)
      BY <2>1, NoReqIsNone DEF Crash
    <3>4. \A w \in Ws, p \in Plans \cup {Removed} : ~ChangePlan(w, p)
      BY DEF ChangePlan
    <3>5. ASSUME NEW t \in Slot, Step(t) PROVE Swap(s) /\ Wins(s)
      <4>1. CASE Swap(t)
        <5>1. CASE t = s
          BY <2>1, <4>1, <5>1, NoReqIsNone DEF Swap, Done
        <5>2. CASE t # s
          BY <2>1, <4>1, <5>2 DEF Swap, Done, Req
        <5> QED
          BY <5>1, <5>2
      <4>2. CASE Throttle(t) \/ TakeCutoff(t) \/ Prune(t) \/ PruneFails(t)
        <5>1. t # s
          BY <4>2 DEF Throttle, TakeCutoff, Prune, PruneFails
        <5> QED
          BY <2>1, <4>2, <5>1 DEF Throttle, TakeCutoff, Prune, PruneFails, Proceed, Done, Goto
      <4> QED
        BY <3>5, <4>1, <4>2 DEF Step
    <3> QED
      BY <3>1, <3>2, <3>3, <3>4, <3>5 DEF AuditNext
  <2>3. last[calls[s].proc] = Interval
    BY <2>2 DEF SweepInv, StillDue, Wins
  <2> QED
    BY <2>3, AuditAssumption
<1> QED
  BY <1>1, SweepInvariant, PTL DEF AuditSpec, OneSweepPerInterval

============================================================================
