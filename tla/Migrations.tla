----------------------------- MODULE Migrations -----------------------------
(***************************************************************************)
(* Schema migrations: crmkitd migrate --execute, run by several operators  *)
(* and again after a failure, and the check a server makes before it       *)
(* serves.                                                                 *)
(*                                                                         *)
(* A version is a sequence of statements on objects (tables and columns).  *)
(* A process knows the versions of its build.  Each version is applied in  *)
(* a transaction, whose effects nobody sees before it commits and whose    *)
(* locks others wait for.  One version moves data: the follow-ups kept in  *)
(* a column become rows of tasks, and the column is dropped.               *)
(***************************************************************************)
EXTENDS Integers, Sequences, FiniteSets

CONSTANTS
    Migrator,   \* shells in which crmkitd migrate --execute is run
    Server,     \* server processes
    Build,      \* the highest version each of them knows
    Script,     \* version -> its statements
    FollowUp,   \* the column of the follow-ups
    Record,     \* records that may have a follow-up
    Dialects,   \* subset of {"sqlite", "postgres"}
    MaxFails    \* bound: failures and crashes of migrators

Versions == DOMAIN Script
Objects  == UNION {{Script[v][i].obj : i \in DOMAIN Script[v]} : v \in Versions}

ASSUME MigrationsAssumption ==
    /\ IsFiniteSet(Migrator) /\ Migrator \cap Server = {}
    /\ Script \in Seq(Seq([op : {"create", "add", "copy", "drop"}, obj : Objects]))
    /\ Build \in [Migrator \cup Server -> Versions]
    /\ Dialects \subseteq {"sqlite", "postgres"}
    /\ MaxFails \in Nat

\* What one version drops no later one makes again, and the column of the follow-ups
\* is dropped after it was copied.
ASSUME ScriptAssumption ==
    \A v \in Versions : \A i \in DOMAIN Script[v] : Script[v][i].op = "drop" =>
        /\ \A w \in Versions : \A j \in DOMAIN Script[w] :
             Script[w][j].op \in {"create", "add"} /\ Script[w][j].obj = Script[v][i].obj => w <= v
        /\ Script[v][i].obj = FollowUp =>
             \E j \in DOMAIN Script[v] : j < i /\ Script[v][j] = [op |-> "copy", obj |-> FollowUp]

VARIABLES
    dialect,    \* the database
    book,       \* whether the table schema_migrations is there
    recorded,   \* its rows
    schema,     \* objects that exist
    slots,      \* records whose follow-up is in the column
    tasks,      \* records whose follow-up is a task
    run,        \* migrators: what they do
    serving,    \* servers that have passed the check
    promised,   \* follow-ups whose write was confirmed
    exposed,    \* those written while a migration that had copied them was open
    fails       \* failures so far

vars == <<dialect, book, recorded, schema, slots, tasks, run, serving, promised, exposed, fails>>

data == <<slots, tasks, promised, exposed>>

----------------------------------------------------------------------------

\* Versions are applied in ascending order.
First(versions) == CHOOSE v \in versions : \A w \in versions : v <= w

NoRun == [at |-> "idle"]
NoTx  == [added |-> {}, dropped |-> {}, copied |-> {}]
Tx    == [added : SUBSET Objects, dropped : SUBSET Objects, copied : SUBSET Record]
Run   == [at : {"ensure", "status", "tx"}, pending : SUBSET Versions, pc : Nat \ {0}, tx : Tx]

TypeOK ==
    /\ dialect \in Dialects
    /\ book \in BOOLEAN
    /\ recorded \subseteq Versions
    /\ schema \subseteq Objects
    /\ slots \subseteq Record /\ tasks \subseteq Record
    /\ run \in [Migrator -> Run \cup {NoRun}]
    /\ serving \subseteq Server
    /\ promised \subseteq Record /\ exposed \subseteq promised
    /\ fails \in 0 .. MaxFails

Init ==
    /\ dialect \in Dialects
    /\ book = FALSE /\ recorded = {} /\ schema = {}
    /\ slots = {} /\ tasks = {}
    /\ run = [m \in Migrator |-> NoRun]
    /\ serving = {} /\ promised = {} /\ exposed = {}
    /\ fails = 0

----------------------------------------------------------------------------
(* Faulty variants of the definitions below; no action uses them.          *)

\* Versions are taken for positions of a list that starts at 0.
KnownFromZero(p) == 0 .. Build[p] - 1

\* A version that fails is skipped.
SkipFailed(m) ==
    LET v == First(run[m].pending) IN
    IF run[m].at = "tx" /\ run[m].pending # {v}
    THEN [at |-> "tx", pending |-> run[m].pending \ {v}, pc |-> 1, tx |-> NoTx]
    ELSE NoRun

\* The statements do not run in the transaction.
Undone(m) ==
    IF run[m].at = "tx" THEN (schema \cup run[m].tx.added) \ run[m].tx.dropped ELSE schema

\* The rows to be copied are looked for in an empty table.
CopyNothing == {}

----------------------------------------------------------------------------
(* Status.                                                                 *)

\* The versions a build knows; they are applied in order.
Known(p) == 1 .. Build[p]

\* Those that are not recorded.
Pending(p) == Known(p) \ recorded

----------------------------------------------------------------------------
(* The transaction of a migrator.                                          *)

InTx(m) == run[m].at = "tx"
Version(m) == First(run[m].pending)
Statements(m) == Script[Version(m)]

\* What it runs next: a statement, the row of schema_migrations, or COMMIT.
AtStatement(m) == InTx(m) /\ run[m].pc <= Len(Statements(m))
AtRow(m)       == InTx(m) /\ run[m].pc = Len(Statements(m)) + 1
AtCommit(m)    == InTx(m) /\ run[m].pc = Len(Statements(m)) + 2
Statement(m)   == Statements(m)[run[m].pc]

\* The schema as its statements see it.
Seen(m) == (schema \cup run[m].tx.added) \ run[m].tx.dropped

\* CREATE TABLE has IF NOT EXISTS, ADD COLUMN has not.
Succeeds(m) ==
    CASE Statement(m).op = "create" -> TRUE
      [] Statement(m).op = "add"    -> Statement(m).obj \notin Seen(m)
      [] OTHER                      -> Statement(m).obj \in Seen(m)

\* Another transaction holds a lock the statement needs: on SQLite after any write,
\* on Postgres after a write of the same object, or if it has read what is dropped.
HasRead(n, obj) ==
    \E i \in 1 .. Len(Statements(n)) :
        i < run[n].pc /\ Statements(n)[i] = [op |-> "copy", obj |-> obj]
BlockedBy(m, n) ==
    /\ InTx(m) /\ InTx(n) /\ n # m
    /\ \/ dialect = "sqlite" /\ ~AtCommit(m) /\ run[n].pc > 1
       \/ AtStatement(m) /\ Statement(m).obj \in run[n].tx.added \cup run[n].tx.dropped
       \/ AtStatement(m) /\ Statement(m).op = "drop" /\ HasRead(n, Statement(m).obj)
       \/ AtRow(m) /\ AtCommit(n) /\ Version(m) = Version(n)
Blocked(m) == \E n \in Migrator : BlockedBy(m, n)

----------------------------------------------------------------------------
(* crmkitd migrate --execute.                                              *)

\* The process ends with an error; it neither skips nor repeats.
AfterFailure(m) == NoRun

\* Its transaction is rolled back.
SchemaAfterFailure(m) == schema

Quit(m) ==
    /\ run' = [run EXCEPT ![m] = AfterFailure(m)]
    /\ schema' = SchemaAfterFailure(m)
    /\ UNCHANGED <<dialect, book, recorded, data, serving>>

Goto(m, at, pending) == run' = [run EXCEPT ![m] = [at |-> at, pending |-> pending, pc |-> 1, tx |-> NoTx]]

\* On to the next statement of the version.
Advance(m, tx) ==
    run' = [run EXCEPT ![m] = [at |-> "tx", pending |-> run[m].pending, pc |-> run[m].pc + 1, tx |-> tx]]

\* An operator starts it, and there is something pending.
Launch(m) ==
    /\ run[m] = NoRun /\ Pending(m) # {}
    /\ Goto(m, "ensure", {})
    /\ UNCHANGED <<dialect, book, recorded, schema, data, serving, fails>>

\* CREATE TABLE IF NOT EXISTS schema_migrations
Ensure(m) ==
    /\ run[m].at = "ensure"
    /\ book' = TRUE
    /\ Goto(m, "status", {})
    /\ UNCHANGED <<dialect, recorded, schema, data, serving, fails>>

\* MigrationStatus; a query that fails is taken for an empty database.
ReadStatus(m) ==
    /\ run[m].at = "status"
    /\ \/ Pending(m) = {} /\ run' = [run EXCEPT ![m] = NoRun] /\ UNCHANGED fails
       \/ Pending(m) # {} /\ Goto(m, "tx", Pending(m)) /\ UNCHANGED fails
       \/ fails < MaxFails /\ fails' = fails + 1 /\ Goto(m, "tx", Known(m))
    /\ UNCHANGED <<dialect, book, recorded, schema, data, serving>>

\* INSERT INTO tasks SELECT ... WHERE follow_up_at IS NOT NULL
Copied == slots

\* What a statement adds to the transaction.
Made(m) ==
    LET st == Statement(m)  tx == run[m].tx IN
    [added   |-> IF st.op \in {"create", "add"} THEN tx.added \cup ({st.obj} \ Seen(m)) ELSE tx.added,
     dropped |-> IF st.op = "drop" THEN tx.dropped \cup {st.obj} ELSE tx.dropped,
     copied  |-> IF st.op = "copy" THEN Copied ELSE tx.copied]

\* The next statement, whose effects stay in the transaction.
Execute(m) ==
    /\ AtStatement(m) /\ ~Blocked(m)
    /\ IF Succeeds(m)
       THEN Advance(m, Made(m)) /\ UNCHANGED <<dialect, book, recorded, schema, data, serving>>
       ELSE Quit(m)
    /\ UNCHANGED fails

\* INSERT INTO schema_migrations, which has the version as its key.
RecordVersion(m) ==
    /\ AtRow(m) /\ ~Blocked(m)
    /\ IF Version(m) \in recorded THEN Quit(m)
       ELSE Advance(m, run[m].tx) /\ UNCHANGED <<dialect, book, recorded, schema, data, serving>>
    /\ UNCHANGED fails

\* COMMIT, and on to the next version.
Commit(m) ==
    /\ AtCommit(m)
    /\ recorded' = recorded \cup {Version(m)}
    /\ schema' = Seen(m)
    /\ slots' = IF FollowUp \in run[m].tx.dropped THEN {} ELSE slots
    /\ tasks' = tasks \cup run[m].tx.copied
    /\ IF run[m].pending = {Version(m)} THEN run' = [run EXCEPT ![m] = NoRun]
       ELSE Goto(m, "tx", run[m].pending \ {Version(m)})
    /\ UNCHANGED <<dialect, book, serving, promised, exposed, fails>>

\* The database gives up waiting: after busy_timeout, or to break a deadlock.
GiveUp(m) ==
    /\ \E n \in Migrator : BlockedBy(m, n) /\ (dialect = "sqlite" \/ BlockedBy(n, m))
    /\ Quit(m)
    /\ UNCHANGED fails

\* A statement fails, or the process dies.
Fail(m) ==
    /\ run[m] # NoRun
    /\ fails < MaxFails /\ fails' = fails + 1
    /\ Quit(m)

----------------------------------------------------------------------------
(* crmkitd.                                                                *)

\* The server refuses to start with anything pending, or if it cannot tell.
MayServe(p) == Pending(p) = {}

Start(p) ==
    /\ p \notin serving /\ MayServe(p)
    /\ serving' = serving \cup {p}
    /\ UNCHANGED <<dialect, book, recorded, schema, data, run, fails>>

Stop(p) ==
    /\ p \in serving
    /\ serving' = serving \ {p}
    /\ UNCHANGED <<dialect, book, recorded, schema, data, run, fails>>

\* A server of a build that keeps follow-ups in the column sets one; it waits for the
\* locks of a migration, and gets an error once the column is gone.
KeepsColumn(p) == \A v \in 1 .. Build[p] : [op |-> "drop", obj |-> FollowUp] \notin {Script[v][i] : i \in DOMAIN Script[v]}

SetFollowUp(p, r) ==
    /\ p \in serving /\ KeepsColumn(p) /\ FollowUp \in schema
    /\ r \notin promised
    /\ \A n \in Migrator : InTx(n) =>
         /\ FollowUp \notin run[n].tx.dropped
         /\ dialect = "sqlite" => run[n].pc = 1
    /\ slots' = slots \cup {r}
    /\ promised' = promised \cup {r}
    /\ exposed' = IF \E n \in Migrator : InTx(n) /\ HasRead(n, FollowUp) THEN exposed \cup {r} ELSE exposed
    /\ UNCHANGED <<dialect, book, recorded, schema, tasks, run, serving, fails>>

----------------------------------------------------------------------------

Step(m) == Ensure(m) \/ ReadStatus(m) \/ Execute(m) \/ RecordVersion(m) \/ Commit(m)
Drop(m) == AtStatement(m) /\ Statement(m).op = "drop" /\ Execute(m)

Next ==
    \/ \E m \in Migrator : Launch(m) \/ Step(m) \/ GiveUp(m) \/ Fail(m)
    \/ \E p \in Server : Start(p) \/ Stop(p) \/ \E r \in Record : SetFollowUp(p, r)

\* A migrator goes on, a deadlock is broken, a DROP that waits for a lock is served
\* before those who ask for it later, and an operator whose migration did not end
\* well runs it again.
Spec ==
    /\ Init /\ [][Next]_vars
    /\ \A m \in Migrator : WF_vars(Launch(m)) /\ WF_vars(Step(m)) /\ SF_vars(Drop(m))
    /\ WF_vars(\E m \in Migrator : GiveUp(m))

----------------------------------------------------------------------------
(* Properties.                                                             *)

\* What the versions make of an empty database.
After(versions) ==
    LET done == UNION {{Script[v][i] : i \in DOMAIN Script[v]} : v \in versions} IN
    {st.obj : st \in {d \in done : d.op \in {"create", "add"}}} \ {st.obj : st \in {d \in done : d.op = "drop"}}

\* Versions are recorded without a gap, and the schema is what the recorded ones make
\* of it: each took effect once, in order and as a whole, across crashes, deadlocks and
\* two operators at once.
AppliedAsRecorded ==
    /\ recorded = 1 .. Cardinality(recorded)
    /\ schema = After(recorded)

\* No confirmed follow-up is lost by the migration that moves them, unless it was
\* written between its two statements; on SQLite none is.
FollowUpsKept ==
    /\ promised \ exposed \subseteq slots \cup tasks
    /\ dialect = "sqlite" => exposed = {}

\* Migrations get applied, whatever failed on the way.
AllApplied == <>(\A m \in Migrator : 1 .. Build[m] \subseteq recorded)

============================================================================
