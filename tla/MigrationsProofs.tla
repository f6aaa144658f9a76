--------------------------- MODULE MigrationsProofs ---------------------------
(***************************************************************************)
(* Proofs about Migrations, for any number of operators and servers, any   *)
(* builds, and any script of versions that meets the assumptions.          *)
(*                                                                         *)
(* A migrator at work on a version that is not recorded is at the first    *)
(* version that is not: everything before it was recorded when it read the *)
(* status or committed the version before.  So all migrators that may      *)
(* still commit are at the same version, the row of schema_migrations lets *)
(* one of them do so, and until then nobody changes the schema under them. *)
(***************************************************************************)
EXTENDS Migrations, FiniteSetTheorems, TLAPS

----------------------------------------------------------------------------
(* What the first statements of a version do, those before pc.             *)

Makes(v, pc, x) ==
    \E i \in DOMAIN Script[v] : i < pc /\ Script[v][i].op \in {"create", "add"} /\ Script[v][i].obj = x
Drops(v, pc, x) ==
    \E i \in DOMAIN Script[v] : i < pc /\ Script[v][i].op = "drop" /\ Script[v][i].obj = x

----------------------------------------------------------------------------
(* The inductive invariant.                                                *)

NoGaps == \E k \in 0 .. Len(Script) : recorded = 1 .. k

\* The versions left are those from the one at work to the last of the build, and
\* all before it are recorded.
Orderly(m) ==
    /\ Version(m) \in 1 .. Build[m] /\ run[m].pending = Version(m) .. Build[m]
    /\ run[m].pc <= Len(Statements(m)) + 2
    /\ \A u \in Versions : u < Version(m) => u \in recorded

\* One transaction holds the row of the next version.
Claimed ==
    /\ \A m \in Migrator : AtCommit(m) => Version(m) \notin recorded
    /\ \A m, n \in Migrator : AtCommit(m) /\ AtCommit(n) => m = n

\* A transaction has made and dropped what its statements say.
Faithful(m) ==
    /\ \A x \in run[m].tx.added : Makes(Version(m), run[m].pc, x)
    /\ \A x \in Objects : x \in run[m].tx.dropped <=> Drops(Version(m), run[m].pc, x)
    /\ Version(m) \notin recorded =>
         \A x \in Objects : Makes(Version(m), run[m].pc, x) => x \in schema \cup run[m].tx.added

\* A transaction that has copied the follow-ups has all those not written since.
Carries(m) == HasRead(m, FollowUp) => slots \ exposed \subseteq run[m].tx.copied

MigInv ==
    /\ TypeOK /\ NoGaps /\ Claimed
    /\ schema = After(recorded)
    /\ FollowUpsKept
    /\ \A m \in Migrator : InTx(m) => Orderly(m) /\ Faithful(m) /\ Carries(m)

----------------------------------------------------------------------------
(* The script.                                                             *)

LEMMA ScriptFacts ==
    /\ Len(Script) \in Nat /\ Versions = 1 .. Len(Script)
    /\ \A v \in Versions :
         /\ Len(Script[v]) \in Nat /\ DOMAIN Script[v] = 1 .. Len(Script[v])
         /\ \A i \in DOMAIN Script[v] :
              /\ Script[v][i] \in [op : {"create", "add", "copy", "drop"}, obj : Objects]
              /\ Script[v][i].obj \in Objects
<1> DEFINE S == [op : {"create", "add", "copy", "drop"}, obj : Objects]
<1>1. Script \in Seq(Seq(S))
  BY MigrationsAssumption
<1>2. Len(Script) \in Nat /\ Versions = 1 .. Len(Script)
  BY <1>1 DEF Versions
<1>3. ASSUME NEW v \in Versions PROVE Script[v] \in Seq(S)
  BY <1>1, <1>2
<1>5. ASSUME NEW v \in Versions PROVE Len(Script[v]) \in Nat /\ DOMAIN Script[v] = 1 .. Len(Script[v])
  BY <1>3
<1>4. ASSUME NEW v \in Versions, NEW i \in DOMAIN Script[v] PROVE Script[v][i] \in S
  <2> HIDE DEF S
  <2>1. Script[v] \in Seq(S) /\ i \in 1 .. Len(Script[v])
    BY <1>3, <1>5
  <2> QED
    BY <2>1
<1> QED
  BY <1>2, <1>4, <1>5

\* Nothing is before the first statement, and everything is before the row.
LEMMA Edges ==
    ASSUME NEW v \in Versions, NEW x
    PROVE  /\ ~Makes(v, 1, x) /\ ~Drops(v, 1, x)
           /\ Makes(v, Len(Script[v]) + 2, x) <=> Makes(v, Len(Script[v]) + 1, x)
           /\ Drops(v, Len(Script[v]) + 2, x) <=> Drops(v, Len(Script[v]) + 1, x)
<1>1. DOMAIN Script[v] = 1 .. Len(Script[v]) /\ Len(Script[v]) \in Nat
  BY ScriptFacts
<1>2. \A i \in DOMAIN Script[v] : /\ ~(i < 1)
                                  /\ i < Len(Script[v]) + 2 /\ i < Len(Script[v]) + 1
  BY <1>1
<1> QED
  BY <1>2 DEF Makes, Drops

\* One statement more.
LEMMA OneMore ==
    ASSUME NEW v \in Versions, NEW pc \in DOMAIN Script[v], NEW x
    PROVE  /\ Makes(v, pc + 1, x) <=> \/ Makes(v, pc, x)
                                      \/ Script[v][pc].op \in {"create", "add"} /\ Script[v][pc].obj = x
           /\ Drops(v, pc + 1, x) <=> \/ Drops(v, pc, x)
                                      \/ Script[v][pc].op = "drop" /\ Script[v][pc].obj = x
<1>1. pc \in Int /\ \A i \in DOMAIN Script[v] : i \in Int
  BY ScriptFacts
<1>2. \A i \in DOMAIN Script[v] : i < pc + 1 <=> i < pc \/ i = pc
  BY <1>1
<1> QED
  BY <1>2 DEF Makes, Drops

\* The row of a version changes neither.
LEMMA RowMakesNothing ==
    ASSUME NEW v \in Versions, NEW pc, pc = Len(Script[v]) + 1, NEW x
    PROVE  /\ Makes(v, pc + 1, x) <=> Makes(v, pc, x)
           /\ Drops(v, pc + 1, x) <=> Drops(v, pc, x)
<1>1. pc + 1 = Len(Script[v]) + 2
  BY ScriptFacts
<1> QED
  BY <1>1, Edges

LEMMA MakesObjects ==
    ASSUME NEW v \in Versions, NEW pc, NEW x, Makes(v, pc, x) \/ Drops(v, pc, x)
    PROVE  x \in Objects
BY ScriptFacts DEF Makes, Drops

LEMMA AfterSays ==
    ASSUME NEW V \in SUBSET Versions, NEW x
    PROVE  x \in After(V) <=> /\ \E u \in V : Makes(u, Len(Script[u]) + 1, x)
                              /\ ~\E u \in V : Drops(u, Len(Script[u]) + 1, x)
<1> DEFINE done == UNION {{Script[v][i] : i \in DOMAIN Script[v]} : v \in V}
<1>1. \A d : d \in done <=> \E u \in V : \E i \in DOMAIN Script[u] : d = Script[u][i]
  OBVIOUS
<1>2. \A u \in V : \A i \in DOMAIN Script[u] : i < Len(Script[u]) + 1
  BY ScriptFacts
<1>3. (\E d \in done : d.op \in {"create", "add"} /\ x = d.obj)
      <=> \E u \in V : Makes(u, Len(Script[u]) + 1, x)
  <2> HIDE DEF done
  <2> QED
    BY <1>1, <1>2 DEF Makes
<1>4. (\E d \in done : d.op = "drop" /\ x = d.obj)
      <=> \E u \in V : Drops(u, Len(Script[u]) + 1, x)
  <2> HIDE DEF done
  <2> QED
    BY <1>1, <1>2 DEF Drops
<1>5. After(V) = {st.obj : st \in {d \in done : d.op \in {"create", "add"}}}
                 \ {st.obj : st \in {d \in done : d.op = "drop"}}
  BY DEF After
<1> HIDE DEF done
<1>6. x \in After(V) <=> /\ \E d \in done : d.op \in {"create", "add"} /\ x = d.obj
                         /\ ~\E d \in done : d.op = "drop" /\ x = d.obj
  BY <1>5
<1> QED
  BY <1>3, <1>4, <1>6

\* What was dropped is not made again by a later version.
LEMMA DroppedForGood ==
    ASSUME NEW u \in Versions, NEW v \in Versions, u < v, NEW p, NEW q, NEW x,
           Drops(u, p, x), Makes(v, q, x)
    PROVE  FALSE
<1>1. PICK i \in DOMAIN Script[u] : Script[u][i].op = "drop" /\ Script[u][i].obj = x
  BY DEF Drops
<1>2. PICK j \in DOMAIN Script[v] : Script[v][j].op \in {"create", "add"} /\ Script[v][j].obj = x
  BY DEF Makes
<1>3. v <= u
  BY <1>1, <1>2, ScriptAssumption
<1> QED
  BY <1>3, ScriptFacts

LEMMA FirstOfRest ==
    ASSUME NEW a \in Int, NEW b \in Int, a <= b
    PROVE  First(a .. b) = a
<1>1. a \in a .. b /\ \A w \in a .. b : a <= w
  OBVIOUS
<1>2. \A v \in a .. b : (\A w \in a .. b : v <= w) => v = a
  BY <1>1
<1>3. First(a .. b) \in a .. b /\ \A w \in a .. b : First(a .. b) <= w
  <2> DEFINE P(v) == v \in a .. b /\ \A w \in a .. b : v <= w
  <2>1. First(a .. b) = CHOOSE v : P(v)
    BY DEF First
  <2>2. P(a)
    BY <1>1
  <2> QED
    BY <2>1, <2>2
<1> QED
  BY <1>2, <1>3

----------------------------------------------------------------------------
(* What a migrator is, and one that does not move.                         *)

LEMMA AtWork ==
    ASSUME TypeOK, NEW m \in Migrator
    PROVE  /\ run[m] \in Run \cup {NoRun}
           /\ NoRun.at = "idle" /\ ~InTx(m) => ~AtStatement(m) /\ ~AtRow(m) /\ ~AtCommit(m)
           /\ InTx(m) => /\ run[m] \in Run /\ run[m].pc \in Nat \ {0} /\ run[m].tx \in Tx
                         /\ run[m].pending \subseteq Versions /\ run[m].at = "tx"
                         /\ run[m] = [at |-> "tx", pending |-> run[m].pending, pc |-> run[m].pc, tx |-> run[m].tx]
<1>1. run[m] \in Run \cup {NoRun} /\ NoRun.at = "idle"
  BY DEF TypeOK, NoRun
<1>2. InTx(m) => run[m] \in Run /\ run[m].at = "tx"
  BY <1>1 DEF InTx
<1>3. ~InTx(m) => ~AtStatement(m) /\ ~AtRow(m) /\ ~AtCommit(m)
  BY DEF AtStatement, AtRow, AtCommit
<1> QED
  BY <1>1, <1>2, <1>3 DEF Run

LEMMA OfBuild ==
    ASSUME NEW m \in Migrator
    PROVE  Build[m] \in Versions /\ Build[m] \in Nat /\ 1 .. Build[m] \subseteq Versions
BY MigrationsAssumption, ScriptFacts

LEMMA StandsStill ==
    ASSUME NEW n \in Migrator, run'[n] = run[n]
    PROVE  /\ Version(n)' = Version(n) /\ Statements(n)' = Statements(n)
           /\ InTx(n)' <=> InTx(n)
           /\ AtCommit(n)' <=> AtCommit(n)
           /\ HasRead(n, FollowUp)' <=> HasRead(n, FollowUp)
BY DEF Version, Statements, InTx, AtCommit, HasRead

\* Of a migrator that does not move all stays true while nobody commits.
LEMMA OthersKeep ==
    ASSUME MigInv, NEW n \in Migrator, run'[n] = run[n], InTx(n)', UNCHANGED <<recorded, schema>>
    PROVE  InTx(n) /\ Orderly(n)' /\ Faithful(n)'
<1>1. InTx(n) /\ Orderly(n) /\ Faithful(n)
  BY StandsStill DEF MigInv
<1>2. Orderly(n)'
  BY <1>1, StandsStill DEF Orderly
<1>3. Faithful(n)'
  BY <1>1, StandsStill DEF Faithful
<1> QED
  BY <1>1, <1>2, <1>3

LEMMA OthersCarry ==
    ASSUME MigInv, NEW n \in Migrator, run'[n] = run[n], InTx(n)', UNCHANGED exposed,
           slots' \subseteq slots
    PROVE  Carries(n)'
<1>1. InTx(n) /\ Carries(n)
  BY StandsStill DEF MigInv
<1> QED
  BY <1>1, StandsStill DEF Carries

----------------------------------------------------------------------------
(* A migrator that stops, or starts a version.                             *)

\* It is in no transaction any more; nothing else happened.
LEMMA Leaves ==
    ASSUME MigInv, NEW m \in Migrator, NEW q, q.at # "tx", run' = [run EXCEPT ![m] = q],
           TypeOK', UNCHANGED <<dialect, recorded, schema, data>>
    PROVE  MigInv'
<1>1. ~InTx(m)' /\ ~AtCommit(m)' /\ \A n \in Migrator \ {m} : run'[n] = run[n]
  BY DEF MigInv, TypeOK, InTx, AtCommit
<1>2. ASSUME NEW n \in Migrator, InTx(n)' PROVE Orderly(n)' /\ Faithful(n)' /\ Carries(n)'
  <2>1. run'[n] = run[n]
    BY <1>1, <1>2
  <2> QED
    BY <1>2, <2>1, OthersKeep, OthersCarry DEF data
<1>3. Claimed'
  <2>1. \A n \in Migrator : AtCommit(n)' => run'[n] = run[n] /\ AtCommit(n) /\ Version(n)' = Version(n)
    BY <1>1, StandsStill
  <2> QED
    BY <2>1 DEF MigInv, Claimed
<1>4. NoGaps' /\ FollowUpsKept' /\ schema' = After(recorded)'
  BY DEF MigInv, NoGaps, FollowUpsKept, data, After
<1> QED
  BY <1>2, <1>3, <1>4 DEF MigInv

\* It begins with version v, before which all are recorded.
LEMMA Begins ==
    ASSUME MigInv, NEW m \in Migrator, NEW v \in 1 .. Build[m],
           \A u \in Versions : u < v => u \in recorded,
           Goto(m, "tx", v .. Build[m]),
           TypeOK', UNCHANGED <<dialect, recorded, schema, data>>
    PROVE  MigInv'
<1>1. /\ run'[m] = [at |-> "tx", pending |-> v .. Build[m], pc |-> 1, tx |-> NoTx]
      /\ \A n \in Migrator \ {m} : run'[n] = run[n]
  BY DEF MigInv, TypeOK, Goto
<1>2. v \in Int /\ Build[m] \in Int /\ v <= Build[m] /\ v \in Versions
  BY OfBuild
<1>3. InTx(m)' /\ Version(m)' = v /\ Statements(m)' = Script[v]
  BY <1>1, <1>2, FirstOfRest DEF InTx, Version, Statements
<1>4. Len(Script[v]) \in Nat /\ ~AtCommit(m)'
  BY <1>1, <1>2, <1>3, ScriptFacts DEF AtCommit
<1>5. Orderly(m)'
  BY <1>1, <1>2, <1>3, <1>4 DEF Orderly
<1>6. Faithful(m)'
  BY <1>1, <1>2, <1>3, Edges DEF Faithful, NoTx
<1>7. Carries(m)'
  BY <1>1, <1>2, <1>3, ScriptFacts DEF Carries, HasRead
<1>8. ASSUME NEW n \in Migrator, InTx(n)' PROVE Orderly(n)' /\ Faithful(n)' /\ Carries(n)'
  <2>1. CASE n = m
    BY <1>5, <1>6, <1>7, <2>1
  <2>2. CASE n # m
    BY <1>1, <1>8, <2>2, OthersKeep, OthersCarry DEF data
  <2> QED
    BY <2>1, <2>2
<1>9. Claimed'
  <2>1. \A n \in Migrator : AtCommit(n)' => run'[n] = run[n] /\ AtCommit(n) /\ Version(n)' = Version(n)
    BY <1>1, <1>4, StandsStill
  <2> QED
    BY <2>1 DEF MigInv, Claimed
<1>10. NoGaps' /\ FollowUpsKept' /\ schema' = After(recorded)'
  BY DEF MigInv, NoGaps, FollowUpsKept, data, After
<1> QED
  BY <1>8, <1>9, <1>10 DEF MigInv

\* What is left of a build, of an empty or any other database, is from some version
\* to the last.
LEMMA PendingIsRest ==
    ASSUME MigInv, NEW m \in Migrator, Pending(m) # {}
    PROVE  \E v \in 1 .. Build[m] : /\ Pending(m) = v .. Build[m]
                                    /\ \A u \in Versions : u < v => u \in recorded
<1>1. PICK k \in 0 .. Len(Script) : recorded = 1 .. k
  BY DEF MigInv, NoGaps
<1>2. Build[m] \in Nat /\ k \in Nat /\ Pending(m) = (1 .. Build[m]) \ (1 .. k)
  BY <1>1, OfBuild, ScriptFacts DEF Pending, Known
<1>3. k + 1 \in 1 .. Build[m]
  BY <1>2
<1>4. Pending(m) = (k + 1) .. Build[m]
  BY <1>2
<1>5. \A u \in Versions : u < k + 1 => u \in recorded
  BY <1>1, <1>2, ScriptFacts
<1> QED
  BY <1>3, <1>4, <1>5

\* Steps of requests and of migrators outside a transaction keep the types.
LEMMA KeepsTypes ==
    ASSUME TypeOK, NEW m \in Migrator, NEW q \in Run \cup {NoRun}, run' = [run EXCEPT ![m] = q],
           UNCHANGED <<dialect, recorded, schema, data, serving>>,
           book' \in BOOLEAN, fails' \in 0 .. MaxFails
    PROVE  TypeOK'
BY DEF TypeOK, data

LEMMA Entries ==
    /\ NoTx \in Tx /\ NoRun \in Run \cup {NoRun} /\ NoRun.at # "tx"
    /\ \A at \in {"ensure", "status", "tx"}, p \in SUBSET Versions :
         [at |-> at, pending |-> p, pc |-> 1, tx |-> NoTx] \in Run
<1>1. NoTx \in Tx
  BY DEF NoTx, Tx
<1> QED
  BY <1>1 DEF Run, NoRun

LEMMA QuitKeeps ==
    ASSUME MigInv, NEW m \in Migrator, Quit(m), fails' \in 0 .. MaxFails
    PROVE  MigInv'
<1>1. /\ run' = [run EXCEPT ![m] = NoRun] /\ schema' = schema
      /\ UNCHANGED <<dialect, book, recorded, data, serving>>
  BY DEF Quit, AfterFailure, SchemaAfterFailure
<1>2. TypeOK'
  <2>1. book' \in BOOLEAN /\ TypeOK
    BY <1>1 DEF MigInv, TypeOK
  <2> QED
    BY <1>1, <2>1, Entries, KeepsTypes
<1> QED
  BY <1>1, <1>2, Entries, Leaves

LEMMA LaunchKeeps ==
    ASSUME MigInv, NEW m \in Migrator, Launch(m)
    PROVE  MigInv'
<1> DEFINE q == [at |-> "ensure", pending |-> {}, pc |-> 1, tx |-> NoTx]
<1>1. run' = [run EXCEPT ![m] = q] /\ UNCHANGED <<dialect, book, recorded, schema, data, serving, fails>>
  BY DEF Launch, Goto
<1>2. q \in Run \cup {NoRun} /\ q.at # "tx"
  BY Entries
<1> HIDE DEF q
<1>3. TypeOK'
  <2>1. TypeOK /\ book' \in BOOLEAN /\ fails' \in 0 .. MaxFails
    BY <1>1 DEF MigInv, TypeOK
  <2> QED
    BY <1>1, <1>2, <2>1, KeepsTypes
<1> QED
  BY <1>1, <1>2, <1>3, Leaves

LEMMA EnsureKeeps ==
    ASSUME MigInv, NEW m \in Migrator, Ensure(m)
    PROVE  MigInv'
<1> DEFINE q == [at |-> "status", pending |-> {}, pc |-> 1, tx |-> NoTx]
<1>1. /\ run' = [run EXCEPT ![m] = q] /\ book' = TRUE
      /\ UNCHANGED <<dialect, recorded, schema, data, serving, fails>>
  BY DEF Ensure, Goto
<1>2. q \in Run \cup {NoRun} /\ q.at # "tx"
  BY Entries
<1> HIDE DEF q
<1>3. TypeOK'
  <2>1. TypeOK /\ book' \in BOOLEAN /\ fails' \in 0 .. MaxFails
    BY <1>1 DEF MigInv, TypeOK
  <2> QED
    BY <1>1, <1>2, <2>1, KeepsTypes
<1> QED
  BY <1>1, <1>2, <1>3, Leaves

LEMMA ReadStatusKeeps ==
    ASSUME MigInv, NEW m \in Migrator, ReadStatus(m)
    PROVE  MigInv'
<1>1. TypeOK /\ book' \in BOOLEAN /\ fails' \in 0 .. MaxFails
  <2>1. fails \in 0 .. MaxFails /\ book' = book /\ book \in BOOLEAN /\ MaxFails \in Nat
    BY MigrationsAssumption DEF MigInv, TypeOK, ReadStatus
  <2>2. fails' = fails \/ (fails < MaxFails /\ fails' = fails + 1)
    BY DEF ReadStatus
  <2> QED
    BY <2>1, <2>2 DEF MigInv
<1>2. UNCHANGED <<dialect, book, recorded, schema, data, serving>>
  BY DEF ReadStatus
<1>3. CASE Pending(m) = {} /\ run' = [run EXCEPT ![m] = NoRun]
  BY <1>1, <1>2, <1>3, Entries, KeepsTypes, Leaves
<1>4. ASSUME NEW v \in 1 .. Build[m], \A u \in Versions : u < v => u \in recorded,
             Goto(m, "tx", v .. Build[m])
      PROVE  MigInv'
  <2> DEFINE q == [at |-> "tx", pending |-> v .. Build[m], pc |-> 1, tx |-> NoTx]
  <2>1. v .. Build[m] \in SUBSET Versions
    BY OfBuild
  <2>2. q \in Run /\ run' = [run EXCEPT ![m] = q]
    BY <1>4, <2>1, Entries DEF Goto
  <2> HIDE DEF q
  <2>3. TypeOK'
    BY <1>1, <1>2, <2>2, KeepsTypes
  <2> QED
    BY <1>2, <1>4, <2>3, Begins
<1>5. CASE Pending(m) # {} /\ Goto(m, "tx", Pending(m))
  <2>1. PICK v \in 1 .. Build[m] : /\ Pending(m) = v .. Build[m]
                                   /\ \A u \in Versions : u < v => u \in recorded
    BY <1>5, PendingIsRest
  <2> QED
    BY <1>4, <1>5, <2>1
<1>6. CASE Goto(m, "tx", Known(m))
  <2>1. 1 \in 1 .. Build[m] /\ \A u \in Versions : ~(u < 1)
    BY OfBuild, ScriptFacts
  <2>2. Goto(m, "tx", 1 .. Build[m])
    BY <1>6 DEF Known
  <2> QED
    BY <1>4, <2>1, <2>2
<1> QED
  BY <1>3, <1>5, <1>6 DEF ReadStatus

----------------------------------------------------------------------------
(* The statements of a version.                                            *)

\* A migrator at work is at a version of the script.
LEMMA InScript ==
    ASSUME MigInv, NEW m \in Migrator, InTx(m)
    PROVE  /\ Version(m) \in Versions /\ Version(m) \in Int /\ Statements(m) = Script[Version(m)]
           /\ Len(Script[Version(m)]) \in Nat /\ run[m].pc \in Nat \ {0} /\ run[m].tx \in Tx
           /\ run[m] \in Run
           /\ AtStatement(m) => /\ run[m].pc \in DOMAIN Script[Version(m)]
                                /\ Statement(m) = Script[Version(m)][run[m].pc]
<1>1. Orderly(m) /\ TypeOK
  BY DEF MigInv
<1>2. Version(m) \in Versions /\ Version(m) \in Int /\ Statements(m) = Script[Version(m)]
  BY <1>1, OfBuild, ScriptFacts DEF Orderly, Statements
<1>3. run[m].pc \in Nat \ {0} /\ run[m].tx \in Tx /\ run[m] \in Run
  BY <1>1, AtWork
<1> QED
  BY <1>2, <1>3, ScriptFacts DEF AtStatement, Statement

LEMMA AdvanceDoes ==
    ASSUME MigInv, NEW m \in Migrator, InTx(m), NEW tx \in Tx, Advance(m, tx),
           UNCHANGED <<dialect, book, recorded, schema, data, serving, fails>>
    PROVE  /\ TypeOK' /\ InTx(m)' /\ Version(m)' = Version(m) /\ Statements(m)' = Statements(m)
           /\ run'[m].pending = run[m].pending /\ run'[m].pc = run[m].pc + 1 /\ run'[m].tx = tx
           /\ \A n \in Migrator \ {m} : run'[n] = run[n]
<1> DEFINE q == [at |-> "tx", pending |-> run[m].pending, pc |-> run[m].pc + 1, tx |-> tx]
<1>1. TypeOK /\ run' = [run EXCEPT ![m] = q]
  BY DEF MigInv, Advance
<1>2. run[m].pc + 1 \in Nat \ {0} /\ run[m].pending \in SUBSET Versions
  <2> HIDE DEF q
  <2>1. run[m].pc \in Nat \ {0} /\ run[m].pending \in SUBSET Versions
    BY AtWork DEF MigInv
  <2> QED
    BY <2>1
<1>3. q \in Run
  BY <1>2 DEF Run
<1>4. q.at = "tx" /\ q.pending = run[m].pending /\ q.pc = run[m].pc + 1 /\ q.tx = tx
  OBVIOUS
<1> HIDE DEF q
<1>5. TypeOK'
  <2>1. book' \in BOOLEAN /\ fails' \in 0 .. MaxFails
    BY <1>1 DEF TypeOK
  <2> QED
    BY <1>1, <1>3, <2>1, KeepsTypes
<1>6. run'[m] = q /\ \A n \in Migrator \ {m} : run'[n] = run[n]
  BY <1>1 DEF TypeOK
<1>7. InTx(m)' /\ Version(m)' = Version(m) /\ Statements(m)' = Statements(m)
  BY <1>4, <1>6 DEF InTx, Version, Statements
<1> QED
  BY <1>4, <1>5, <1>6, <1>7

\* Of a transaction that goes on: what is to be shown of it is shown of all.
LEMMA GoesOn ==
    ASSUME MigInv, NEW m \in Migrator, TypeOK', Claimed',
           UNCHANGED <<dialect, recorded, schema, data>>,
           \A n \in Migrator \ {m} : run'[n] = run[n],
           Orderly(m)', Faithful(m)', Carries(m)'
    PROVE  MigInv'
<1>1. ASSUME NEW n \in Migrator, InTx(n)' PROVE Orderly(n)' /\ Faithful(n)' /\ Carries(n)'
  <2>1. CASE n = m
    BY <2>1
  <2>2. CASE n # m
    BY <1>1, <2>2, OthersKeep, OthersCarry DEF data
  <2> QED
    BY <2>1, <2>2
<1>2. NoGaps' /\ FollowUpsKept' /\ schema' = After(recorded)'
  BY DEF MigInv, NoGaps, FollowUpsKept, data, After
<1> QED
  BY <1>1, <1>2 DEF MigInv

LEMMA StatementKeeps ==
    ASSUME MigInv, NEW m \in Migrator, AtStatement(m), Advance(m, Made(m)),
           UNCHANGED <<dialect, book, recorded, schema, data, serving, fails>>
    PROVE  MigInv'
<1>1. InTx(m)
  BY DEF AtStatement
<1>2. PICK v \in Versions : v = Version(m) /\ Statements(m) = Script[v]
  BY <1>1, InScript
<1>3. PICK pc \in DOMAIN Script[v] : pc = run[m].pc /\ Statement(m) = Script[v][pc]
  BY <1>1, <1>2, InScript
<1>4. pc \in Nat /\ pc <= Len(Script[v]) /\ Len(Script[v]) \in Nat
  BY ScriptFacts
<1>5. Made(m) \in Tx
  <2>1. run[m].tx \in Tx /\ Script[v][pc].obj \in Objects /\ Copied \subseteq Record
    BY <1>1, InScript, ScriptFacts DEF MigInv, TypeOK, Copied
  <2> QED
    BY <1>3, <2>1 DEF Made, Tx
<1>6. /\ TypeOK' /\ InTx(m)' /\ Version(m)' = v /\ Statements(m)' = Script[v]
      /\ run'[m].pending = run[m].pending /\ run'[m].pc = pc + 1 /\ run'[m].tx = Made(m)
      /\ \A n \in Migrator \ {m} : run'[n] = run[n]
  BY <1>1, <1>2, <1>3, <1>5, AdvanceDoes
<1>7. Orderly(m) /\ Faithful(m) /\ Carries(m)
  BY <1>1 DEF MigInv
<1>8. Orderly(m)'
  BY <1>2, <1>4, <1>6, <1>7 DEF Orderly
<1>9. Faithful(m)'
  <2> DEFINE st == Script[v][pc]
  <2>1. /\ Made(m).added = IF st.op \in {"create", "add"} THEN run[m].tx.added \cup ({st.obj} \ Seen(m))
                           ELSE run[m].tx.added
        /\ Made(m).dropped = IF st.op = "drop" THEN run[m].tx.dropped \cup {st.obj} ELSE run[m].tx.dropped
    BY <1>3 DEF Made
  <2>2. \A x : /\ Makes(v, pc + 1, x) <=> Makes(v, pc, x) \/ (st.op \in {"create", "add"} /\ st.obj = x)
               /\ Drops(v, pc + 1, x) <=> Drops(v, pc, x) \/ (st.op = "drop" /\ st.obj = x)
    BY OneMore
  <2>3. /\ \A x \in run[m].tx.added : Makes(v, pc, x)
        /\ \A x \in Objects : x \in run[m].tx.dropped <=> Drops(v, pc, x)
        /\ v \notin recorded => \A x \in Objects : Makes(v, pc, x) => x \in schema \cup run[m].tx.added
    BY <1>2, <1>3, <1>7 DEF Faithful
  <2>4. Seen(m) \subseteq schema \cup run[m].tx.added
    BY DEF Seen
  <2> HIDE DEF st
  <2>5. \A x \in Made(m).added : Makes(v, pc + 1, x)
    BY <2>1, <2>2, <2>3
  <2>6. \A x \in Objects : x \in Made(m).dropped <=> Drops(v, pc + 1, x)
    BY <2>1, <2>2, <2>3
  <2>7. v \notin recorded => \A x \in Objects : Makes(v, pc + 1, x) => x \in schema \cup Made(m).added
    BY <2>1, <2>2, <2>3, <2>4
  <2> QED
    BY <1>6, <2>5, <2>6, <2>7 DEF Faithful
<1>10. Carries(m)'
  <2> SUFFICES ASSUME HasRead(m, FollowUp)' PROVE slots \ exposed \subseteq Made(m).copied
    BY <1>6 DEF Carries, data
  <2>1. PICK i \in 1 .. Len(Script[v]) : i < pc + 1 /\ Script[v][i] = [op |-> "copy", obj |-> FollowUp]
    BY <1>6 DEF HasRead
  <2>2. Script[v][pc].op = "copy" => Made(m).copied = slots
    BY <1>3 DEF Made, Copied
  <2>3. Script[v][pc].op # "copy" => Made(m).copied = run[m].tx.copied
    BY <1>3 DEF Made
  <2>4. CASE Script[v][pc].op # "copy"
    <3>1. i # pc
      BY <2>1, <2>4
    <3>2. HasRead(m, FollowUp)
      BY <1>2, <1>3, <1>4, <2>1, <3>1 DEF HasRead
    <3> QED
      BY <1>7, <2>3, <2>4, <3>2 DEF Carries
  <2> QED
    BY <2>2, <2>4
<1>11. Claimed'
  <2>1. ~AtCommit(m)'
    BY <1>4, <1>6 DEF AtCommit
  <2>2. \A n \in Migrator : AtCommit(n)' => run'[n] = run[n] /\ AtCommit(n) /\ Version(n)' = Version(n)
    BY <1>6, <2>1, StandsStill
  <2> QED
    BY <2>2 DEF MigInv, Claimed
<1> QED
  BY <1>6, <1>8, <1>9, <1>10, <1>11, GoesOn

LEMMA ExecuteKeeps ==
    ASSUME MigInv, NEW m \in Migrator, Execute(m)
    PROVE  MigInv'
<1>1. CASE Succeeds(m)
  BY <1>1, StatementKeeps DEF Execute
<1>2. CASE ~Succeeds(m)
  BY <1>2, QuitKeeps DEF Execute, MigInv, TypeOK
<1> QED
  BY <1>1, <1>2

----------------------------------------------------------------------------
(* The row of schema_migrations.                                           *)

\* Those that may commit are at the same version.
LEMMA SameVersion ==
    ASSUME MigInv, NEW m \in Migrator, NEW n \in Migrator, InTx(m), InTx(n),
           Version(m) \notin recorded, Version(n) \notin recorded
    PROVE  Version(m) = Version(n)
<1>1. /\ Version(m) \in Versions /\ Version(m) \in Int
      /\ Version(n) \in Versions /\ Version(n) \in Int
  BY InScript
<1>2. ~(Version(m) < Version(n)) /\ ~(Version(n) < Version(m))
  BY <1>1 DEF MigInv, Orderly
<1> QED
  BY <1>1, <1>2

LEMMA RecordVersionKeeps ==
    ASSUME MigInv, NEW m \in Migrator, RecordVersion(m)
    PROVE  MigInv'
<1>1. CASE Version(m) \in recorded
  BY <1>1, QuitKeeps DEF RecordVersion, MigInv, TypeOK
<1>2. CASE Version(m) \notin recorded
  <2>1. /\ AtRow(m) /\ InTx(m) /\ ~Blocked(m) /\ Advance(m, run[m].tx)
        /\ UNCHANGED <<dialect, book, recorded, schema, data, serving, fails>>
    BY <1>2 DEF RecordVersion, AtRow
  <2>2. PICK v \in Versions : v = Version(m) /\ Statements(m) = Script[v]
    BY <2>1, InScript
  <2>3. PICK pc \in Nat : pc = run[m].pc /\ pc = Len(Script[v]) + 1 /\ Len(Script[v]) \in Nat
    BY <2>1, <2>2, InScript DEF AtRow
  <2>4. /\ TypeOK' /\ InTx(m)' /\ Version(m)' = v /\ Statements(m)' = Script[v]
        /\ run'[m].pending = run[m].pending /\ run'[m].pc = pc + 1 /\ run'[m].tx = run[m].tx
        /\ \A n \in Migrator \ {m} : run'[n] = run[n]
    BY <2>1, <2>2, <2>3, InScript, AdvanceDoes
  <2>5. Orderly(m) /\ Faithful(m) /\ Carries(m)
    BY <2>1 DEF MigInv
  <2>6. Orderly(m)'
    BY <2>1, <2>2, <2>3, <2>4, <2>5 DEF Orderly
  <2>7. Faithful(m)'
    <3>1. \A x : (Makes(v, pc + 1, x) <=> Makes(v, pc, x)) /\ (Drops(v, pc + 1, x) <=> Drops(v, pc, x))
      BY <2>3, RowMakesNothing
    <3> QED
      BY <2>1, <2>2, <2>3, <2>4, <2>5, <3>1 DEF Faithful
  <2>8. Carries(m)'
    <3>1. HasRead(m, FollowUp)' => HasRead(m, FollowUp)
      BY <2>2, <2>3, <2>4 DEF HasRead
    <3> QED
      BY <2>1, <2>4, <2>5, <3>1 DEF Carries, data
  <2>9. \A n \in Migrator \ {m} : ~AtCommit(n)
    <3> SUFFICES ASSUME NEW n \in Migrator \ {m}, AtCommit(n) PROVE FALSE
      OBVIOUS
    <3>1. InTx(n) /\ Version(n) \notin recorded
      BY DEF AtCommit, MigInv, Claimed
    <3>2. Version(m) = Version(n)
      BY <1>2, <2>1, <3>1, SameVersion
    <3> QED
      BY <2>1, <3>1, <3>2 DEF Blocked, BlockedBy
  <2>10. Claimed'
    <3>1. \A n \in Migrator \ {m} : ~AtCommit(n)'
      BY <2>4, <2>9, StandsStill
    <3> QED
      BY <1>2, <2>1, <2>2, <2>4, <3>1 DEF Claimed
  <2> QED
    BY <2>1, <2>4, <2>6, <2>7, <2>8, <2>10, GoesOn
<1> QED
  BY <1>1, <1>2

----------------------------------------------------------------------------
(* COMMIT.                                                                 *)

\* The version that commits is the first that is not recorded, and what its
\* transaction sees is what it and those before it make of an empty database.
LEMMA CommitApplies ==
    ASSUME MigInv, NEW m \in Migrator, AtCommit(m)
    PROVE  \E k \in 0 .. Len(Script) :
             /\ k + 1 \in Versions /\ Version(m) = k + 1 /\ recorded = 1 .. k
             /\ recorded \cup {Version(m)} = 1 .. (k + 1)
             /\ Seen(m) = After(1 .. (k + 1))
<1>1. PICK k \in 0 .. Len(Script) : recorded = 1 .. k
  BY DEF MigInv, NoGaps
<1>2. InTx(m) /\ Version(m) \notin recorded /\ Orderly(m) /\ Faithful(m) /\ TypeOK /\ schema = After(recorded)
  BY DEF AtCommit, MigInv, Claimed
<1>3. PICK v \in Versions : v = Version(m) /\ v \in Int /\ Statements(m) = Script[v]
  BY <1>2, InScript
<1>4. v = k + 1
  <2>1. v \in 1 .. Len(Script) /\ Len(Script) \in Nat /\ k \in Nat /\ k <= Len(Script) /\ v \notin 1 .. k
    BY <1>1, <1>2, <1>3, ScriptFacts
  <2>2. ~(k + 1 < v)
    <3> SUFFICES ASSUME k + 1 < v PROVE FALSE
      OBVIOUS
    <3>1. k + 1 \in Versions
      BY <2>1, ScriptFacts
    <3>2. k + 1 \in recorded
      BY <1>2, <1>3, <3>1 DEF Orderly
    <3> QED
      BY <1>1, <2>1, <3>2
  <2> QED
    BY <2>1, <2>2
<1>5. 1 .. (k + 1) = recorded \cup {v} /\ recorded \subseteq Versions /\ 1 .. (k + 1) \subseteq Versions
  <2>1. 1 .. (k + 1) = (1 .. k) \cup {k + 1}
    OBVIOUS
  <2> QED
    BY <1>1, <1>2, <1>3, <1>4, <2>1 DEF TypeOK
<1>6. /\ \A x \in run[m].tx.added : Makes(v, Len(Script[v]) + 1, x)
      /\ \A x \in Objects : x \in run[m].tx.dropped <=> Drops(v, Len(Script[v]) + 1, x)
      /\ \A x \in Objects : Makes(v, Len(Script[v]) + 1, x) => x \in schema \cup run[m].tx.added
  <2>1. run[m].pc = Len(Script[v]) + 2
    BY <1>3 DEF AtCommit
  <2> QED
    BY <1>2, <1>3, <2>1, Edges DEF Faithful
<1>7. ASSUME NEW x \in Objects PROVE x \in Seen(m) <=> x \in After(1 .. (k + 1))
  <2> DEFINE M == Makes(v, Len(Script[v]) + 1, x)
             D == Drops(v, Len(Script[v]) + 1, x)
             M0 == \E u \in recorded : Makes(u, Len(Script[u]) + 1, x)
             D0 == \E u \in recorded : Drops(u, Len(Script[u]) + 1, x)
  <2>1. x \in schema <=> M0 /\ ~D0
    BY <1>2, <1>5, AfterSays
  <2>2. x \in After(1 .. (k + 1)) <=> (M0 \/ M) /\ ~(D0 \/ D)
    <3>1. 1 .. (k + 1) = recorded \cup {v} /\ recorded \cup {v} \in SUBSET Versions
      BY <1>5
    <3>2. x \in After(recorded \cup {v})
          <=> /\ \E u \in recorded \cup {v} : Makes(u, Len(Script[u]) + 1, x)
              /\ ~\E u \in recorded \cup {v} : Drops(u, Len(Script[u]) + 1, x)
      BY <3>1, AfterSays
    <3>3. (\E u \in recorded \cup {v} : Makes(u, Len(Script[u]) + 1, x)) <=> M0 \/ M
      OBVIOUS
    <3>4. (\E u \in recorded \cup {v} : Drops(u, Len(Script[u]) + 1, x)) <=> D0 \/ D
      OBVIOUS
    <3> HIDE DEF M, D, M0, D0
    <3> QED
      BY <3>1, <3>2, <3>3, <3>4
  <2>3. x \in Seen(m) <=> (x \in schema \/ x \in run[m].tx.added) /\ ~D
    BY <1>6 DEF Seen
  <2>4. (x \in run[m].tx.added => M) /\ (M => x \in schema \/ x \in run[m].tx.added)
    BY <1>6
  <2>5. ~(M /\ D0)
    <3> SUFFICES ASSUME M, NEW u \in recorded, Drops(u, Len(Script[u]) + 1, x) PROVE FALSE
      OBVIOUS
    <3>1. u \in Versions /\ u < v
      BY <1>1, <1>4, <1>5
    <3> QED
      BY <3>1, DroppedForGood
  <2> HIDE DEF M, D, M0, D0
  <2> QED
    BY <2>1, <2>2, <2>3, <2>4, <2>5
<1>8. Seen(m) \subseteq Objects /\ After(1 .. (k + 1)) \subseteq Objects
  <2>1. Seen(m) \subseteq Objects
    BY <1>2, AtWork DEF Seen, TypeOK, Tx
  <2>2. \A x \in After(1 .. (k + 1)) : x \in Objects
    BY <1>5, AfterSays, MakesObjects
  <2> QED
    BY <2>1, <2>2
<1>9. Seen(m) = After(1 .. (k + 1))
  BY <1>7, <1>8
<1> QED
  BY <1>1, <1>3, <1>4, <1>5, <1>9

\* Only a transaction that has copied the follow-ups drops their column.
LEMMA DropsAfterCopy ==
    ASSUME MigInv, NEW m \in Migrator, AtCommit(m), FollowUp \in run[m].tx.dropped
    PROVE  slots \ exposed \subseteq run[m].tx.copied
<1>1. InTx(m) /\ Faithful(m) /\ Carries(m) /\ TypeOK
  BY DEF AtCommit, MigInv
<1>2. PICK v \in Versions : v = Version(m) /\ Statements(m) = Script[v]
  BY <1>1, InScript
<1>3. FollowUp \in Objects
  BY <1>1, AtWork DEF Tx
<1>4. PICK i \in DOMAIN Script[v] : Script[v][i].op = "drop" /\ Script[v][i].obj = FollowUp /\ i < run[m].pc
  BY <1>1, <1>2, <1>3 DEF Faithful, Drops
<1>5. PICK j \in DOMAIN Script[v] : j < i /\ Script[v][j] = [op |-> "copy", obj |-> FollowUp]
  BY <1>4, ScriptAssumption
<1>6. j \in 1 .. Len(Statements(m)) /\ j < run[m].pc
  <2>1. i \in Int /\ j \in Int /\ j \in 1 .. Len(Script[v])
    BY ScriptFacts
  <2>3. run[m].pc \in Int
    <3>1. run[m].pc \in Nat \ {0}
      BY <1>1, AtWork
    <3> QED
      BY <3>1
  <2> QED
    BY <1>2, <1>4, <1>5, <2>1, <2>3
<1>7. HasRead(m, FollowUp)
  BY <1>2, <1>5, <1>6 DEF HasRead
<1> QED
  BY <1>1, <1>7 DEF Carries

LEMMA CommitKeeps ==
    ASSUME MigInv, NEW m \in Migrator, Commit(m)
    PROVE  MigInv'
<1>1. PICK k \in 0 .. Len(Script) :
         /\ k + 1 \in Versions /\ Version(m) = k + 1 /\ recorded = 1 .. k
         /\ recorded \cup {Version(m)} = 1 .. (k + 1)
         /\ Seen(m) = After(1 .. (k + 1))
  BY CommitApplies DEF Commit
<1>2. /\ AtCommit(m) /\ InTx(m) /\ TypeOK /\ Orderly(m)
      /\ recorded' = 1 .. (k + 1) /\ schema' = After(recorded')
      /\ slots' = (IF FollowUp \in run[m].tx.dropped THEN {} ELSE slots)
      /\ tasks' = tasks \cup run[m].tx.copied
      /\ UNCHANGED <<dialect, book, serving, promised, exposed, fails>>
  BY <1>1 DEF Commit, AtCommit, MigInv
<1>3. k + 1 \in 1 .. Len(Script) /\ k \in Nat /\ recorded' \subseteq Versions
  <2>1. k + 1 \in 1 .. Len(Script) /\ k \in Nat /\ Versions = 1 .. Len(Script)
    BY <1>1, ScriptFacts
  <2> QED
    BY <1>2, <2>1
<1>4. NoGaps'
  BY <1>2, <1>3 DEF NoGaps
<1>5. schema' \subseteq Objects /\ slots' \subseteq Record /\ tasks' \subseteq Record
  <2>1. schema' = Seen(m)
    BY DEF Commit
  <2> QED
    BY <1>2, <2>1, AtWork DEF Seen, TypeOK, Tx
<1>6. FollowUpsKept'
  <2>1. FollowUpsKept
    BY DEF MigInv
  <2>2. CASE FollowUp \in run[m].tx.dropped
    BY <1>2, <2>1, <2>2, DropsAfterCopy DEF FollowUpsKept
  <2>3. CASE FollowUp \notin run[m].tx.dropped
    BY <1>2, <2>1, <2>3 DEF FollowUpsKept
  <2> QED
    BY <2>2, <2>3
\* The other migrators.
<1>7. ASSUME NEW n \in Migrator \ {m}, run'[n] = run[n], InTx(n)'
      PROVE  Orderly(n)' /\ Faithful(n)' /\ Carries(n)' /\ ~AtCommit(n)'
  <2>1. InTx(n) /\ Orderly(n) /\ Faithful(n) /\ Carries(n) /\ ~AtCommit(n)
    BY <1>2, <1>7, StandsStill DEF MigInv, Claimed
  <2>2. Version(n) \in Int /\ Version(n) \in Versions
    BY <2>1, InScript
  <2>3. Version(n) \in recorded'
    <3> SUFFICES ASSUME k + 1 < Version(n) PROVE FALSE
      BY <1>2, <1>3, <2>2, ScriptFacts
    <3>1. k + 1 \in recorded
      BY <1>1, <2>1 DEF Orderly
    <3> QED
      BY <1>1, <1>3, <3>1
  <2>4. Orderly(n)'
    BY <1>1, <1>2, <1>7, <2>1, StandsStill DEF Orderly
  <2>5. Faithful(n)'
    BY <1>7, <2>1, <2>3, StandsStill DEF Faithful
  <2>6. Carries(n)'
    BY <1>2, <1>7, <2>1, StandsStill DEF Carries
  <2> QED
    BY <1>7, <2>1, <2>4, <2>5, <2>6, StandsStill
<1>8. CASE run[m].pending = {Version(m)}
  <2>1. run' = [run EXCEPT ![m] = NoRun]
    BY <1>8 DEF Commit
  <2>2. run' \in [Migrator -> Run \cup {NoRun}] /\ run'[m] = NoRun /\ \A n \in Migrator \ {m} : run'[n] = run[n]
    BY <1>2, <2>1 DEF TypeOK
  <2>3. ~InTx(m)' /\ ~AtCommit(m)'
    BY <2>2, Entries DEF InTx, AtCommit
  <2>4. TypeOK'
    BY <1>2, <1>3, <1>5, <2>2 DEF TypeOK
  <2>5. \A n \in Migrator : InTx(n)' => Orderly(n)' /\ Faithful(n)' /\ Carries(n)' /\ ~AtCommit(n)'
    BY <1>7, <2>2, <2>3
  <2>6. Claimed'
    BY <2>5 DEF Claimed, AtCommit
  <2> QED
    BY <1>2, <1>4, <1>6, <2>4, <2>5, <2>6 DEF MigInv
<1>9. CASE run[m].pending # {Version(m)}
  <2> DEFINE q == [at |-> "tx", pending |-> (k + 2) .. Build[m], pc |-> 1, tx |-> NoTx]
  <2>1. run[m].pending = (k + 1) .. Build[m] /\ k + 1 \in 1 .. Build[m] /\ Build[m] \in Nat
    BY <1>1, <1>2, OfBuild DEF Orderly
  <2>2. k + 2 <= Build[m] /\ run[m].pending \ {Version(m)} = (k + 2) .. Build[m]
    BY <1>1, <1>3, <1>9, <2>1
  <2>3. run' = [run EXCEPT ![m] = q]
    BY <1>9, <2>2 DEF Commit, Goto
  <2>4. q \in Run
    <3>1. (k + 2) .. Build[m] \in SUBSET Versions
      BY <1>3, OfBuild
    <3> QED
      BY <3>1, Entries
  <2>5. q.at = "tx" /\ q.pending = (k + 2) .. Build[m] /\ q.pc = 1 /\ q.tx = NoTx
    OBVIOUS
  <2> HIDE DEF q
  <2>6. run' \in [Migrator -> Run \cup {NoRun}] /\ run'[m] = q /\ \A n \in Migrator \ {m} : run'[n] = run[n]
    BY <1>2, <2>3, <2>4 DEF TypeOK
  <2>7. TypeOK'
    BY <1>2, <1>3, <1>5, <2>6 DEF TypeOK
  <2>8. k + 2 \in Versions /\ InTx(m)' /\ Version(m)' = k + 2 /\ Statements(m)' = Script[k + 2]
    <3>1. k + 2 \in Int /\ k + 2 \in Versions
      BY <1>3, <2>1, <2>2, OfBuild
    <3>2. First((k + 2) .. Build[m]) = k + 2
      BY <2>1, <2>2, <3>1, FirstOfRest
    <3> QED
      BY <2>5, <2>6, <3>1, <3>2 DEF InTx, Version, Statements
  <2>9. Len(Script[k + 2]) \in Nat
    BY <2>8, ScriptFacts
  <2>10. ~AtCommit(m)'
    BY <2>5, <2>6, <2>8, <2>9 DEF AtCommit
  <2>11. Orderly(m)'
    <3>1. k + 2 \in 1 .. Build[m] /\ 1 <= Len(Script[k + 2]) + 2
      BY <1>3, <2>1, <2>2, <2>9
    <3>2. \A u \in Versions : u < k + 2 => u \in recorded'
      BY <1>2, <1>3, ScriptFacts
    <3> QED
      BY <2>5, <2>6, <2>8, <3>1, <3>2 DEF Orderly
  <2>12. Faithful(m)'
    BY <2>5, <2>6, <2>8, Edges DEF Faithful, NoTx
  <2>13. Carries(m)'
    BY <2>5, <2>6, <2>8, <2>9 DEF Carries, HasRead
  <2>14. \A n \in Migrator : InTx(n)' => Orderly(n)' /\ Faithful(n)' /\ Carries(n)' /\ ~AtCommit(n)'
    BY <1>7, <2>6, <2>10, <2>11, <2>12, <2>13
  <2>15. Claimed'
    BY <2>14 DEF Claimed, AtCommit
  <2> QED
    BY <1>2, <1>4, <1>6, <2>7, <2>14, <2>15 DEF MigInv
<1> QED
  BY <1>8, <1>9

----------------------------------------------------------------------------
(* The servers.                                                            *)

LEMMA SetFollowUpKeeps ==
    ASSUME MigInv, NEW p \in Server, NEW r \in Record, SetFollowUp(p, r)
    PROVE  MigInv'
<1>1. /\ slots' = slots \cup {r} /\ promised' = promised \cup {r} /\ r \notin promised
      /\ exposed' = (IF \E n \in Migrator : InTx(n) /\ HasRead(n, FollowUp) THEN exposed \cup {r} ELSE exposed)
      /\ UNCHANGED <<dialect, book, recorded, schema, tasks, run, serving, fails>>
  BY DEF SetFollowUp
<1>2. TypeOK'
  BY <1>1 DEF MigInv, TypeOK
<1>3. NoGaps' /\ schema' = After(recorded)'
  BY <1>1 DEF MigInv, NoGaps, After
<1>4. \A n \in Migrator : run'[n] = run[n]
  BY <1>1
<1>5. Claimed'
  BY <1>1, <1>4, StandsStill DEF MigInv, Claimed
<1>6. FollowUpsKept'
  <2>1. FollowUpsKept
    BY DEF MigInv
  <2>2. promised' \ exposed' \subseteq slots' \cup tasks'
    BY <1>1, <2>1 DEF FollowUpsKept
  <2>3. dialect = "sqlite" => ~\E n \in Migrator : InTx(n) /\ HasRead(n, FollowUp)
    <3> SUFFICES ASSUME dialect = "sqlite", NEW n \in Migrator, InTx(n), HasRead(n, FollowUp) PROVE FALSE
      OBVIOUS
    <3>1. run[n].pc = 1
      BY DEF SetFollowUp
    <3>2. Len(Statements(n)) \in Nat
      BY InScript
    <3> QED
      BY <3>1, <3>2 DEF HasRead
  <2> QED
    BY <1>1, <2>1, <2>2, <2>3 DEF FollowUpsKept
<1>7. ASSUME NEW n \in Migrator, InTx(n)' PROVE Orderly(n)' /\ Faithful(n)' /\ Carries(n)'
  <2>1. InTx(n) /\ Carries(n)
    BY <1>4, <1>7, StandsStill DEF MigInv
  <2>2. Carries(n)'
    <3> SUFFICES ASSUME HasRead(n, FollowUp)' PROVE slots' \ exposed' \subseteq run'[n].tx.copied
      BY DEF Carries
    <3>1. HasRead(n, FollowUp)
      BY <1>4, StandsStill
    <3>2. slots \ exposed \subseteq run[n].tx.copied
      BY <2>1, <3>1 DEF Carries
    <3> QED
      BY <1>1, <1>4, <2>1, <3>1, <3>2
  <2> QED
    BY <1>1, <1>4, <1>7, <2>2, OthersKeep
<1> QED
  BY <1>2, <1>3, <1>5, <1>6, <1>7 DEF MigInv

\* A step that leaves the database and the migrators alone.
LEMMA Untouched ==
    ASSUME MigInv, UNCHANGED <<dialect, book, recorded, schema, data, run, fails>>, serving' \subseteq Server
    PROVE  MigInv'
<1>1. TypeOK' /\ NoGaps' /\ schema' = After(recorded)' /\ FollowUpsKept'
  BY DEF MigInv, TypeOK, NoGaps, After, FollowUpsKept, data
<1>2. \A n \in Migrator : run'[n] = run[n]
  OBVIOUS
<1>3. Claimed'
  BY <1>2, StandsStill DEF MigInv, Claimed
<1>4. \A n \in Migrator : InTx(n)' => Orderly(n)' /\ Faithful(n)' /\ Carries(n)'
  BY <1>2, OthersKeep, OthersCarry DEF data
<1> QED
  BY <1>1, <1>3, <1>4 DEF MigInv

----------------------------------------------------------------------------
(* The invariant.                                                          *)

LEMMA InitInv == Init => MigInv
<1> SUFFICES ASSUME Init PROVE MigInv
  OBVIOUS
<1>1. TypeOK
  <2>1. run \in [Migrator -> Run \cup {NoRun}]
    BY DEF Init
  <2>2. fails \in 0 .. MaxFails
    BY MigrationsAssumption DEF Init
  <2>3. dialect \in Dialects /\ book \in BOOLEAN
    BY DEF Init
  <2> QED
    BY <2>1, <2>2, <2>3 DEF Init, TypeOK
<1>2. \A m \in Migrator : ~InTx(m) /\ ~AtCommit(m)
  BY DEF Init, InTx, AtCommit, NoRun
<1>3. NoGaps
  <2>1. 0 \in 0 .. Len(Script) /\ 1 .. 0 = {}
    BY ScriptFacts
  <2> QED
    BY <2>1 DEF Init, NoGaps
<1>4. schema = After(recorded)
  <2>1. \A x : x \notin After({})
    BY AfterSays
  <2> QED
    BY <2>1 DEF Init
<1>5. FollowUpsKept
  BY DEF Init, FollowUpsKept
<1> QED
  BY <1>1, <1>2, <1>3, <1>4, <1>5 DEF MigInv, Claimed

LEMMA NextKeeps == MigInv /\ [Next]_vars => MigInv'
<1> SUFFICES ASSUME MigInv, [Next]_vars PROVE MigInv'
  OBVIOUS
<1>1. CASE UNCHANGED vars
  <2>1. UNCHANGED <<dialect, book, recorded, schema, data, run, fails>> /\ serving' \subseteq Server
    BY <1>1 DEF vars, data, MigInv, TypeOK
  <2> QED
    BY <2>1, Untouched
<1>2. ASSUME NEW m \in Migrator, Launch(m) PROVE MigInv'
  BY <1>2, LaunchKeeps
<1>3. ASSUME NEW m \in Migrator, Step(m) PROVE MigInv'
  BY <1>3, EnsureKeeps, ReadStatusKeeps, ExecuteKeeps, RecordVersionKeeps, CommitKeeps DEF Step
<1>4. ASSUME NEW m \in Migrator, GiveUp(m) PROVE MigInv'
  BY <1>4, QuitKeeps DEF GiveUp, MigInv, TypeOK
<1>5. ASSUME NEW m \in Migrator, Fail(m) PROVE MigInv'
  <2>1. fails' \in 0 .. MaxFails
    BY <1>5, MigrationsAssumption DEF Fail, MigInv, TypeOK
  <2> QED
    BY <1>5, <2>1, QuitKeeps DEF Fail
<1>6. ASSUME NEW p \in Server, Start(p) \/ Stop(p) PROVE MigInv'
  <2>1. UNCHANGED <<dialect, book, recorded, schema, data, run, fails>> /\ serving' \subseteq Server
    BY <1>6 DEF Start, Stop, MigInv, TypeOK
  <2> QED
    BY <2>1, Untouched
<1>7. ASSUME NEW p \in Server, NEW r \in Record, SetFollowUp(p, r) PROVE MigInv'
  BY <1>7, SetFollowUpKeeps
<1> QED
  BY <1>1, <1>2, <1>3, <1>4, <1>5, <1>6, <1>7 DEF Next

LEMMA Invariant == Spec => []MigInv
BY InitInv, NextKeeps, PTL DEF Spec

----------------------------------------------------------------------------
(* Results.                                                                *)

\* The tables, the schema and the transactions of migrators keep their types.
THEOREM TypeCorrect == Spec => []TypeOK
<1>1. MigInv => TypeOK
  BY DEF MigInv
<1> QED
  BY <1>1, Invariant, PTL

\* However many operators migrate at once, and wherever they fail, versions are
\* recorded without a gap and the schema is what the recorded ones make of it.
THEOREM AppliedInOrder == Spec => []AppliedAsRecorded
<1>1. MigInv => AppliedAsRecorded
  <2> SUFFICES ASSUME MigInv PROVE AppliedAsRecorded
    OBVIOUS
  <2>1. PICK k \in 0 .. Len(Script) : recorded = 1 .. k
    BY DEF MigInv, NoGaps
  <2>2. k \in Nat
    OBVIOUS
  <2>3. Cardinality(1 .. k) = k
    BY <2>2, FS_Interval
  <2> QED
    BY <2>1, <2>3 DEF MigInv, AppliedAsRecorded
<1> QED
  BY <1>1, Invariant, PTL

\* A confirmed follow-up survives its move, unless it was written between the copy and
\* the DROP; on SQLite nothing can be.
THEOREM FollowUpsSurvive == Spec => []FollowUpsKept
<1>1. MigInv => FollowUpsKept
  BY DEF MigInv
<1> QED
  BY <1>1, Invariant, PTL

\* The schema changes with the row of the version that changes it, and with no other
\* step; each version has one such step, in its turn.
AppliedOnce ==
    [][recorded' # recorded \/ schema' # schema =>
         \E k \in 0 .. Len(Script) : recorded = 1 .. k /\ recorded' = 1 .. (k + 1)]_vars

THEOREM EachVersionOnce == Spec => AppliedOnce
<1> DEFINE A == recorded' # recorded \/ schema' # schema =>
                  \E k \in 0 .. Len(Script) : recorded = 1 .. k /\ recorded' = 1 .. (k + 1)
<1>1. MigInv /\ [Next]_vars => [A]_vars
  <2> SUFFICES ASSUME MigInv, [Next]_vars PROVE A
    OBVIOUS
  <2>1. ASSUME NEW m \in Migrator, Commit(m) PROVE A
    <3>1. PICK k \in 0 .. Len(Script) : recorded = 1 .. k /\ recorded \cup {Version(m)} = 1 .. (k + 1)
      BY <2>1, CommitApplies DEF Commit
    <3>2. recorded' = recorded \cup {Version(m)}
      BY <2>1 DEF Commit
    <3> QED
      BY <3>1, <3>2
  <2>2. ASSUME NEW m \in Migrator, Launch(m) \/ GiveUp(m) \/ Fail(m) PROVE A
    BY <2>2 DEF Launch, GiveUp, Fail, Quit, SchemaAfterFailure
  <2>3. ASSUME NEW m \in Migrator, Ensure(m) \/ ReadStatus(m) \/ Execute(m) \/ RecordVersion(m) PROVE A
    BY <2>3 DEF Ensure, ReadStatus, Execute, RecordVersion, Quit, SchemaAfterFailure
  <2>4. ASSUME NEW p \in Server, Start(p) \/ Stop(p) \/ \E r \in Record : SetFollowUp(p, r) PROVE A
    BY <2>4 DEF Start, Stop, SetFollowUp
  <2>5. CASE UNCHANGED vars
    BY <2>5 DEF vars
  <2> QED
    BY <2>1, <2>2, <2>3, <2>4, <2>5 DEF Next, Step
<1> QED
  BY <1>1, Invariant, PTL DEF Spec, AppliedOnce

\* A server serves over a database that has every version of its build, also while
\* others migrate it further.
ServesItsSchema == \A p \in serving : 1 .. Build[p] \subseteq recorded

THEOREM ServersFindTheirSchema == Spec => []ServesItsSchema
<1>1. Init => ServesItsSchema
  BY DEF Init, ServesItsSchema
<1>2. MigInv /\ ServesItsSchema /\ [Next]_vars => ServesItsSchema'
  <2> SUFFICES ASSUME ServesItsSchema, [Next]_vars PROVE ServesItsSchema'
    OBVIOUS
  <2>1. ASSUME NEW p \in Server, Start(p) PROVE ServesItsSchema'
    BY <2>1 DEF Start, MayServe, Pending, Known, ServesItsSchema
  <2>2. ASSUME NEW p \in Server, Stop(p) \/ \E r \in Record : SetFollowUp(p, r) PROVE ServesItsSchema'
    BY <2>2 DEF Stop, SetFollowUp, ServesItsSchema
  <2>3. ASSUME NEW m \in Migrator, Launch(m) \/ GiveUp(m) \/ Fail(m) PROVE ServesItsSchema'
    BY <2>3 DEF Launch, GiveUp, Fail, Quit, ServesItsSchema
  <2>4. ASSUME NEW m \in Migrator, Step(m) PROVE ServesItsSchema'
    BY <2>4 DEF Step, Ensure, ReadStatus, Execute, RecordVersion, Commit, Quit, ServesItsSchema
  <2>5. CASE UNCHANGED vars
    BY <2>5 DEF vars, ServesItsSchema
  <2> QED
    BY <2>1, <2>2, <2>3, <2>4, <2>5 DEF Next
<1> QED
  BY <1>1, <1>2, Invariant, PTL DEF Spec

============================================================================
