---------------------------- MODULE TokenBucket ----------------------------
(***************************************************************************)
(* Abstract specification of a rate limiter: every key has a bucket of     *)
(* credit that fills by one unit per tick of the clock.  An event is       *)
(* admitted if and only if there is credit for it.  Nothing is forgotten   *)
(* or refilled behind the back of the clock, except when the limiter is    *)
(* restarted.  A unit is what a bucket gains per tick, so that Cost is the *)
(* time one event takes to refill and Cap the time a bucket takes.         *)
(***************************************************************************)
EXTENDS Integers

CONSTANTS
    Key,    \* what is limited: an email with the kind of request, a client's address
    Cost,   \* units an event costs: 1 / rate, in ticks
    Cap     \* units a bucket holds: burst / rate, enough for an event

VARIABLES
    credit, \* the bucket of each key
    answer  \* the last answer, if nothing has happened since

vars == <<credit, answer>>

Silent == [key |-> "none", said |-> "nothing"]
Answer == [key : Key, said : {"yes", "no", "open"}] \cup {Silent}

TypeOK == credit \in [Key -> 0 .. Cap] /\ answer \in Answer

Init == credit = [k \in Key |-> Cap] /\ answer = Silent

Full(n) == IF n > Cap THEN Cap ELSE n

Tick == credit' = [k \in Key |-> Full(credit[k] + 1)] /\ answer' = Silent

Say(k, said) == answer' = [key |-> k, said |-> said]

Admit(k)  == credit[k] >= Cost /\ Say(k, "yes") /\ credit' = [credit EXCEPT ![k] = @ - Cost]
Refuse(k) == credit[k] < Cost /\ Say(k, "no") /\ UNCHANGED credit

\* The limiter is out of reach: everything is allowed, with or without the bucket
\* having been charged.
Open(k) ==
    /\ Say(k, "open")
    /\ \/ UNCHANGED credit
       \/ credit[k] >= Cost /\ credit' = [credit EXCEPT ![k] = @ - Cost]

\* A restart of a limiter that lives in the process.
Restart == credit' = [k \in Key |-> Cap] /\ answer' = Silent

Next ==
    \/ Tick \/ Restart
    \/ \E k \in Key : Admit(k) \/ Refuse(k) \/ Open(k)

Spec == Init /\ [][Next]_vars

============================================================================
