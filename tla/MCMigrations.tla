---------------------------- MODULE MCMigrations ----------------------------
(* Bounds for model checking Migrations: see MCMigrations.cfg.             *)
EXTENDS Migrations

\* The kinds of version in migrations: a baseline of tables, a new column, a new
\* table, and the move of the follow-ups.
FourVersions ==
    << <<[op |-> "create", obj |-> "workspaces"], [op |-> "create", obj |-> "follow_up_at"]>>,
       <<[op |-> "add", obj |-> "plan"]>>,
       <<[op |-> "create", obj |-> "tasks"]>>,
       <<[op |-> "copy", obj |-> "follow_up_at"], [op |-> "drop", obj |-> "follow_up_at"]>> >>

\* Two operators with the new build, a server of the last build and one of the new.
TwoBuilds == [p \in Migrator \cup Server |-> IF p = "old" THEN 3 ELSE 4]
=============================================================================
