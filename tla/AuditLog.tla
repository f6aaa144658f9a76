------------------------------ MODULE AuditLog ------------------------------
(***************************************************************************)
(* The audit log and its retention: audit and maybePruneAudit, run by the  *)
(* overlapping requests of the server processes that share one database.   *)
(*                                                                         *)
(* Retention is a matter of the plan a workspace is on, and the plan may   *)
(* change at any time.  The sweep has no timer: an audited request starts  *)
(* it, at most once in an Interval per process, and it goes through the    *)
(* plans beside the requests that follow.                                  *)
(*                                                                         *)
(* A moment is kept as the time that has passed since, in days.  Interval  *)
(* is as long as a day or two of the model, so that requests, sweeps and   *)
(* the growing age of entries overlap in every way.                        *)
(***************************************************************************)
EXTENDS Integers, FiniteSets, Functions

CONSTANTS
    Slot,           \* audited requests under way, each with the sweep it starts
    Process,        \* server processes
    Ws,             \* workspaces
    Entry,          \* entries that are followed, out of all that are written
    Catalogue,      \* plan in the configuration -> its audit_retention_days
    DefaultDays,    \* defaultAuditRetentionDays
    Removed,        \* a plan that is no longer in the configuration
    Interval,       \* auditPruneInterval
    MaxLag,         \* bound: days within a request, or between cutoff and DELETE
    MaxCrashes,     \* bound: crashes and restarts
    Horizon         \* bound: ages of entries beyond it are not told apart

Plans == DOMAIN Catalogue

ASSUME AuditAssumption ==
    /\ Catalogue \in [Plans -> Int] /\ Removed \notin Plans
    /\ DefaultDays \in Nat \ {0} /\ Interval \in Nat \ {0}
    /\ MaxLag \in Nat /\ MaxCrashes \in Nat /\ Horizon \in Nat
    /\ Horizon > DefaultDays + MaxLag
    /\ \A p \in Plans : Horizon > Catalogue[p] + MaxLag

VARIABLES
    plan,       \* workspaces.plan
    log,        \* audit_log: entry -> its workspace and age
    last,       \* process -> age of lastAuditPrune, at most Interval
    calls,      \* requests
    crashes     \* crashes so far

auditVars == <<plan, log, last, calls, crashes>>

----------------------------------------------------------------------------

NoReq == [at |-> "none"]
Req   == [at : {"throttle", "swap", "sweep", "delete"},
          proc : Process,           \* where it runs
          lag : 0 .. MaxLag,        \* age of the moment it has read
          beaten : BOOLEAN,         \* another has replaced the lastAuditPrune it has read
          doing : Plans \cup {Removed},    \* plan of the cutoff
          todo : SUBSET Plans]      \* plans the sweep has still to go through

Rows == [ws : Ws, age : 0 .. Horizon]
Stored == DOMAIN log

AuditTypeOK ==
    /\ plan \in [Ws -> Plans \cup {Removed}]
    /\ Stored \subseteq Entry /\ \A e \in Stored : log[e] \in Rows
    /\ last \in [Process -> 0 .. Interval]
    /\ calls \in [Slot -> Req \cup {NoReq}]
    /\ crashes \in 0 .. MaxCrashes

AuditInit ==
    /\ plan \in [Ws -> Plans \cup {Removed}]
    /\ log = [e \in {} |-> [ws |-> CHOOSE w \in Ws : TRUE, age |-> 0]]
    /\ last = [p \in Process |-> Interval]
    /\ calls = [s \in Slot |-> NoReq]
    /\ crashes = 0

----------------------------------------------------------------------------
(* Faulty variants of the definitions below; no action uses them.          *)

\* A plan that is not in the configuration is swept as the default, as in LimitsFor.
OnPlanOrUnknown(p) == {w \in Ws : plan[w] = p \/ plan[w] \notin Plans}

\* Store in place of CompareAndSwap.
WinsAlways(s) == TRUE

\* The sweep reads the configuration before applyDefaults.
SweptAsWritten == {p \in Plans : Catalogue[p] > 0}

\* The sweep also goes through a plan that was taken out of the configuration.
SweptForgotten == Plans \cup {Removed}

----------------------------------------------------------------------------
(* Retention.                                                              *)

\* applyDefaults: 0 is unset; a negative number keeps entries for ever.
Days(p) == IF Catalogue[p] = 0 THEN DefaultDays ELSE Catalogue[p]

Swept == {p \in Plans : Days(p) > 0}

\* SELECT id FROM workspaces WHERE plan = ?
OnPlan(p) == {w \in Ws : plan[w] = p}

\* created_at < cutoff, for a cutoff taken lag days ago.
Doomed(p, lag) == {e \in Stored : log[e].ws \in OnPlan(p) /\ log[e].age > Days(p) + lag}

Later(n, bound) == IF n < bound THEN n + 1 ELSE n

----------------------------------------------------------------------------
(* An audited request, from the INSERT of its entry on.                    *)

Goto(s, at) == calls' = [calls EXCEPT ![s].at = at]
Done(s) == calls' = [calls EXCEPT ![s] = NoReq]

\* WriteAudit.  An INSERT that fails is logged, and the request goes on.
Audit(s, p, w) ==
    /\ calls[s] = NoReq
    /\ calls' = [calls EXCEPT ![s] = [at |-> "throttle", proc |-> p, lag |-> 0, beaten |-> FALSE,
                                  doing |-> Removed, todo |-> {}]]
    /\ \/ \E e \in Entry \ Stored :
            log' = [f \in Stored \cup {e} |-> IF f = e THEN [ws |-> w, age |-> 0] ELSE log[f]]
       \/ UNCHANGED log       \* it failed, or the entry is not followed
    /\ UNCHANGED <<plan, last, crashes>>

\* maybePruneAudit reads the clock and lastAuditPrune.
Throttle(s) ==
    /\ calls[s].at = "throttle"
    /\ IF last[calls[s].proc] < Interval THEN Done(s) ELSE Goto(s, "swap")
    /\ UNCHANGED <<plan, log, last, crashes>>

\* Only one of those who have read the same lastAuditPrune replaces it.
Wins(s) == ~calls[s].beaten

Smaller(a, b) == IF a < b THEN a ELSE b

\* CompareAndSwap(last, now)
Swap(s) ==
    /\ calls[s].at = "swap"
    /\ LET p == calls[s].proc IN
       IF Wins(s)
       THEN /\ last' = [last EXCEPT ![p] = Smaller(calls[s].lag, Interval)]
            /\ calls' = [t \in Slot |->
                 IF t = s
                 THEN IF Swept = {} THEN NoReq
                      ELSE [calls[s] EXCEPT !.at = "sweep", !.todo = Swept, !.lag = 0]
                 ELSE IF calls[t].at = "swap" /\ calls[t].proc = p THEN [calls[t] EXCEPT !.beaten = TRUE]
                 ELSE calls[t]]
       ELSE Done(s) /\ UNCHANGED last
    /\ UNCHANGED <<plan, log, crashes>>

----------------------------------------------------------------------------
(* The sweep, in a goroutine: the request has been answered.               *)

\* The cutoff of the next plan; a map has no order.
TakeCutoff(s) ==
    /\ calls[s].at = "sweep"
    /\ \E p \in calls[s].todo : calls' = [calls EXCEPT ![s].at = "delete", ![s].doing = p, ![s].lag = 0]
    /\ UNCHANGED <<plan, log, last, crashes>>

Proceed(s, todo) ==
    IF todo = {} THEN Done(s)
    ELSE calls' = [calls EXCEPT ![s].at = "sweep", ![s].todo = todo, ![s].doing = Removed, ![s].lag = 0]

\* PruneAuditForPlan
Prune(s) ==
    /\ calls[s].at = "delete"
    /\ log' = Restrict(log, Stored \ Doomed(calls[s].doing, calls[s].lag))
    /\ Proceed(s, calls[s].todo \ {calls[s].doing})
    /\ UNCHANGED <<plan, last, crashes>>

\* It fails: a warning, and on to the next plan.
PruneFails(s) ==
    /\ calls[s].at = "delete"
    /\ Proceed(s, calls[s].todo \ {calls[s].doing})
    /\ UNCHANGED <<plan, log, last, crashes>>

----------------------------------------------------------------------------
(* Around it.                                                              *)

\* An operator moves a workspace to another plan: a row changed by hand.
ChangePlan(w, p) ==
    /\ plan' = [plan EXCEPT ![w] = p]
    /\ UNCHANGED <<log, last, calls, crashes>>

\* A process dies with its requests and sweeps, and starts again with lastAuditPrune
\* at 0, which is long ago.
Crash(p) ==
    /\ crashes < MaxCrashes /\ crashes' = crashes + 1
    /\ last' = [last EXCEPT ![p] = Interval]
    /\ calls' = [s \in Slot |-> IF calls[s] # NoReq /\ calls[s].proc = p THEN NoReq ELSE calls[s]]
    /\ UNCHANGED <<plan, log>>

Waiting(s) == calls[s].at \in {"swap", "delete"}

Day ==
    /\ \A s \in Slot : Waiting(s) => calls[s].lag < MaxLag
    /\ log' = [e \in Stored |-> [log[e] EXCEPT !.age = Later(@, Horizon)]]
    /\ last' = [p \in Process |-> Later(last[p], Interval)]
    /\ calls' = [s \in Slot |-> IF Waiting(s) THEN [calls[s] EXCEPT !.lag = @ + 1] ELSE calls[s]]
    /\ UNCHANGED <<plan, crashes>>

----------------------------------------------------------------------------

SomeAudit == \E s \in Slot, p \in Process, w \in Ws : Audit(s, p, w)
Step(s) == Throttle(s) \/ Swap(s) \/ TakeCutoff(s) \/ Prune(s) \/ PruneFails(s)
PruneOf(p) == \E s \in Slot : calls[s].at = "delete" /\ calls[s].doing = p /\ Prune(s)

AuditNext ==
    \/ SomeAudit \/ Day
    \/ \E s \in Slot : Step(s)
    \/ \E w \in Ws, p \in Plans \cup {Removed} : ChangePlan(w, p)
    \/ \E p \in Process : Crash(p)

\* Goroutines go on, time passes, the deployment is used, and the DELETE of one plan
\* does not fail for ever.
AuditSpec ==
    /\ AuditInit /\ [][AuditNext]_auditVars
    /\ \A s \in Slot : WF_auditVars(Step(s))
    /\ WF_auditVars(Day) /\ WF_auditVars(SomeAudit)
    /\ \A p \in Swept : SF_auditVars(PruneOf(p))

----------------------------------------------------------------------------
(* Properties.                                                             *)

\* An entry older than the retention of the plan its workspace is on now.
Overdue(e) ==
    /\ e \in Stored
    /\ LET p == plan[log[e].ws] IN p \in Plans /\ Days(p) > 0 /\ log[e].age > Days(p)

\* Only such entries are deleted, also when the plan has changed since the cutoff was
\* taken; a workspace on a plan nobody knows, or on one that keeps entries for ever,
\* loses none.
RetentionKept == [][\A e \in Stored \ DOMAIN log' : Overdue(e)]_auditVars

\* However many requests find a sweep due at the same time, a process starts one in
\* an interval.
OneSweepPerInterval ==
    [][\A s \in Slot : calls[s].at = "swap" /\ calls'[s].at = "sweep" => last[calls[s].proc] >= Interval]_auditVars

\* Once a workspace stays on a plan, its entries past their retention go, although
\* nothing but other requests starts the sweep, and any sweep may fail half-way or die
\* with its process.
OldEntriesGo ==
    \A w \in Ws, p \in Plans :
        <>[](plan[w] = p) => \A e \in Entry : []<>~(Overdue(e) /\ log[e].ws = w)

============================================================================
