------------------------------- MODULE SignIn -------------------------------
(***************************************************************************)
(* One-time codes: the code emailed for a login, for the sign-in page of a *)
(* connector, or to confirm a destructive action; the limiter in front of  *)
(* it; and what the code is exchanged for.                                 *)
(*                                                                         *)
(* The model is about one row of otps (an email) or escalations (a user,   *)
(* an action and a target), which is what all its requests share.  A       *)
(* request is a slot with the statement it runs next.  A code is not kept: *)
(* what matters is whether it is the one issued last ("current") or an     *)
(* older one.  The limiter is the abstract TokenBucket, which RateLimit is *)
(* shown to implement.                                                     *)
(***************************************************************************)
EXTENDS Integers, FiniteSets

CONSTANTS
    Kinds,       \* subset of {"login", "connect", "stepup"}
    User,        \* the slot of the person who wants to sign in
    Others,      \* slots of everybody else who sends this email address
    MaxAttempts, \* wrong codes before a code is invalid (5)
    Ttl,         \* ticks a code is valid
    TicketTtl,   \* ticks a login ticket is valid
    Cost, Cap,   \* of the auth limiter, in ticks
    MaxTrouble   \* bound: requests of others, failures, lost mails and slips

Slot == {User} \cup Others

ASSUME SignInAssumption ==
    /\ Kinds \subseteq {"login", "connect", "stepup"}
    /\ User \notin Others /\ IsFiniteSet(Others)
    /\ MaxAttempts \in Nat \ {0} /\ Ttl \in Nat /\ TicketTtl \in Nat
    /\ Cost \in Nat /\ Cap \in Nat
    /\ MaxTrouble \in Nat

VARIABLES
    kind,      \* what the code is for
    row,       \* the row: ticks left (-1: expired) and attempts, or NoRow
    req,       \* requests in flight: slot -> locals
    inbox,     \* the mailed code the person has not entered yet
    ticket,    \* ticks the person's login ticket is valid, -1 if none or expired
    granted,   \* the person has a token, a grant, or the confirmed action
    credit,    \* the limiter
    answer,    \* its last answer
    misses,     \* wrong codes compared with the current code
    uncounted, \* those of them that the row does not count, by a failure
    uses,      \* how often the current code was accepted
    raced,     \* the current code was read by overlapping requests, or not deleted
    trouble    \* what has gone wrong so far

code == <<misses, uncounted, uses, raced>>
vars == <<kind, row, req, inbox, ticket, granted, credit, answer, code, trouble>>

LimiterKey == {"req", "verify"}
Limiter == INSTANCE TokenBucket WITH Key <- LimiterKey

----------------------------------------------------------------------------

NoRow == [left |-> -2]
Idle  == [at |-> "idle"]
Codes == {"current", "old", "none"}
Steps == {"put", "mail", "select", "purge", "miss", "consume", "grant", "member"}

TypeOK ==
    /\ kind \in Kinds
    /\ row \in [left : -1 .. Ttl, attempts : Nat] \cup {NoRow}
    /\ req \in [Slot -> [at : Steps, code : Codes] \cup {Idle}]
    /\ inbox \in Codes
    /\ ticket \in -1 .. TicketTtl
    /\ granted \in BOOLEAN
    /\ Limiter!TypeOK
    /\ misses \in Nat /\ uncounted \in Nat /\ uses \in Nat /\ raced \in BOOLEAN
    /\ trouble \in 0 .. MaxTrouble

Init ==
    /\ kind \in Kinds
    /\ row = NoRow
    /\ req = [s \in Slot |-> Idle]
    /\ inbox = "none" /\ ticket = -1 /\ granted = FALSE
    /\ Limiter!Init
    /\ misses = 0 /\ uncounted = 0 /\ uses = 0 /\ raced = FALSE
    /\ trouble = 0

----------------------------------------------------------------------------
(* Faulty variants of the definitions below; no action uses them.          *)

\* The new code inherits the attempts of the one it replaces.
NewRowKeepsAttempts ==
    [left |-> Ttl, attempts |-> IF row = NoRow THEN 0 ELSE row.attempts]

\* A row whose attempts are not counted up.
CountedNever == row

\* A wrong code makes a row when there is none.
CountedOrNew == IF row = NoRow THEN [attempts |-> 1] ELSE [row EXCEPT !.attempts = @ + 1]

\* The code is left in place when it was accepted.
RemainsAfterUse == row

\* The comparison of the clock with expires_at is the wrong way round.
ExpiredEarly == row.left >= 0

\* The attempts are one too many.
SpentLate == row.attempts > MaxAttempts

----------------------------------------------------------------------------
(* What the statements read and write.                                     *)

\* now.Unix() > expiresAt
Expired == row.left < 0
Spent   == row.attempts >= MaxAttempts

\* INSERT ... ON CONFLICT DO UPDATE SET ..., attempts = 0
NewRow == [left |-> Ttl, attempts |-> 0]

\* UPDATE ... SET attempts = attempts + 1, of whatever row is there by now.
Counted == IF row = NoRow THEN NoRow ELSE [row EXCEPT !.attempts = @ + 1]

\* DELETE, of whatever row is there by now.
Removed == NoRow

Goto(s, at) == req' = [req EXCEPT ![s].at = at]
Done(s)     == req' = [req EXCEPT ![s] = Idle]
Start(s, at, c) == req' = [req EXCEPT ![s] = [at |-> at, code |-> c]]

Older(c) == IF c = "current" THEN "old" ELSE c

\* What others do is trouble, and bounded.
Trouble == trouble < MaxTrouble /\ trouble' = trouble + 1
Asked(s) == IF s = User THEN UNCHANGED trouble ELSE Trouble

Quiet == UNCHANGED credit /\ answer' = Limiter!Silent

\* The limiter in front of the codes; a step-up has none but that of the address.
\* A request it refuses is answered 429.
Charge(k)   == IF kind = "stepup" THEN Quiet ELSE Limiter!Admit(k)
Refused(k)  == kind # "stepup" /\ Limiter!Refuse(k)

----------------------------------------------------------------------------
(* Asking for a code.                                                      *)

\* The person asks when there is nothing to enter or to choose.
AskCode(s) ==
    /\ req[s] = Idle
    /\ s = User => inbox = "none" /\ ticket < 0 /\ ~granted
    /\ Asked(s)
    /\ \/ Charge("req") /\ Start(s, "put", "none")
       \/ Refused("req") /\ UNCHANGED req
    /\ UNCHANGED <<kind, row, inbox, ticket, granted, code>>

\* PutOTP, PutEscalation: the code of every other request is now an old one.
Put(s) ==
    /\ req[s].at = "put"
    /\ row' = NewRow
    /\ req' = [t \in Slot |->
                 IF t = s THEN [at |-> "mail", code |-> "current"]
                 ELSE IF req[t] = Idle THEN Idle
                 ELSE [req[t] EXCEPT !.code = Older(@)]]
    /\ inbox' = Older(inbox)
    /\ misses' = 0 /\ uncounted' = 0 /\ uses' = 0 /\ raced' = FALSE
    /\ Quiet
    /\ UNCHANGED <<kind, ticket, granted, trouble>>

\* The mail goes out, and the person reads the latest; or it is lost.
Mail(s) ==
    /\ req[s].at = "mail"
    /\ \/ inbox' = req[s].code /\ UNCHANGED trouble
       \/ UNCHANGED inbox /\ Trouble
    /\ Done(s) /\ Quiet
    /\ UNCHANGED <<kind, row, ticket, granted, code>>

----------------------------------------------------------------------------
(* Presenting a code.                                                      *)

\* The person enters the code of the mail, or slips; others send any code.
SendCode(s) ==
    /\ req[s] = Idle
    /\ s = User => inbox # "none" /\ ~granted
    /\ \/ /\ Charge("verify")
          /\ \E c \in Codes :
               /\ Start(s, "select", c)
               /\ IF s = User /\ c = inbox THEN UNCHANGED trouble ELSE Trouble
          /\ inbox' = IF s = User THEN "none" ELSE inbox
       \/ Refused("verify") /\ Asked(s) /\ UNCHANGED <<req, inbox>>
    /\ UNCHANGED <<kind, row, ticket, granted, code>>

\* Another request holds what it read of the row, and has not deleted it.
Overlapped(s) == \E t \in Slot \ {s} : req[t] # Idle /\ req[t].at = "consume" /\ req[t].code = "current"

\* VerifyOTP, VerifyEscalation: the SELECT and the comparison.  From here on the
\* slot remembers which code it read.
Select(s) ==
    /\ req[s].at = "select"
    /\ IF row = NoRow THEN Done(s) /\ UNCHANGED code
       ELSE IF Expired \/ Spent
       THEN req' = [req EXCEPT ![s] = [at |-> "purge", code |-> "current"]] /\ UNCHANGED code
       ELSE /\ misses' = IF req[s].code = "current" THEN misses ELSE misses + 1
            /\ req' = [req EXCEPT ![s] =
                         [at |-> IF req[s].code = "current" THEN "consume" ELSE "miss",
                          code |-> "current"]]
            /\ raced' = (raced \/ (req[s].code = "current" /\ Overlapped(s)))
            /\ UNCHANGED <<uncounted, uses>>
    /\ Quiet
    /\ UNCHANGED <<kind, row, inbox, ticket, granted, trouble>>

\* The DELETE of an expired or spent code; an error is ignored.
Purge(s) ==
    /\ req[s].at = "purge"
    /\ \/ row' = Removed /\ UNCHANGED trouble
       \/ UNCHANGED row /\ Trouble
    /\ Done(s) /\ Quiet
    /\ UNCHANGED <<kind, inbox, ticket, granted, code>>

\* The UPDATE after a wrong code; an error is ignored.
Miss(s) ==
    /\ req[s].at = "miss"
    /\ \/ row' = Counted /\ UNCHANGED <<trouble, uncounted>>
       \/ /\ UNCHANGED row /\ Trouble
          /\ uncounted' = IF req[s].code = "current" THEN uncounted + 1 ELSE uncounted
    /\ Done(s) /\ Quiet
    /\ UNCHANGED <<kind, inbox, ticket, granted, misses, uses, raced>>

\* The DELETE after the right code; an error is ignored, the code is accepted.
Consume(s) ==
    /\ req[s].at = "consume"
    /\ LET current == req[s].code = "current" IN
       /\ uses' = IF current THEN uses + 1 ELSE uses
       /\ \/ row' = Removed /\ UNCHANGED <<trouble, raced>>
          \/ UNCHANGED row /\ Trouble /\ raced' = (raced \/ current)
    /\ Goto(s, "grant") /\ Quiet
    /\ UNCHANGED <<kind, inbox, ticket, granted, misses, uncounted>>

----------------------------------------------------------------------------
(* What a code is exchanged for.                                           *)

\* GetOrCreateIdentity and CreateToken, the workspace picker with a login ticket,
\* or the confirmed action; for a connection, PutAuthCode once a workspace is
\* chosen.
Grant(s) ==
    /\ req[s].at = "grant"
    /\ IF s # User THEN UNCHANGED <<granted, ticket>>
       ELSE IF kind = "connect" /\ req[s].code # "none"
       THEN ticket' = TicketTtl /\ UNCHANGED granted
       ELSE granted' = TRUE /\ UNCHANGED ticket
    /\ Done(s) /\ Quiet
    /\ UNCHANGED <<kind, row, inbox, code, trouble>>

\* The person picks a workspace, or names a new one; an expired ticket means to
\* start over.
Choose ==
    /\ kind = "connect" /\ req[User] = Idle /\ ticket >= 0 /\ ~granted
    /\ Start(User, "member", "none") /\ Quiet
    /\ UNCHANGED <<kind, row, inbox, ticket, granted, code, trouble>>

\* MemberRole, or canCreateWorkspace and CreateWorkspace.  If they refuse or fail
\* the page is shown again, with a fresh ticket.
Member ==
    /\ req[User].at = "member"
    /\ \/ Goto(User, "grant") /\ UNCHANGED <<ticket, trouble>>
       \/ Done(User) /\ ticket' = TicketTtl /\ Trouble
    /\ Quiet
    /\ UNCHANGED <<kind, row, inbox, granted, code>>

\* Requests that have compared a wrong code and not counted it yet.
Uncounted(slots) == Cardinality({s \in slots : req[s].at = "miss" /\ req[s].code = "current"})

\* A statement returns an error that ends the request.
Fail(s) ==
    /\ req[s] # Idle /\ Trouble
    /\ uncounted' = uncounted + Uncounted({s})
    /\ Done(s) /\ Quiet
    /\ UNCHANGED <<kind, row, inbox, ticket, granted, misses, uses, raced>>

\* The process dies and comes back: the requests are gone and the limiter starts
\* over, the row stays.
Crash ==
    /\ Trouble
    /\ uncounted' = uncounted + Uncounted(Slot)
    /\ req' = [s \in Slot |-> Idle]
    /\ Limiter!Restart
    /\ UNCHANGED <<kind, row, inbox, ticket, granted, misses, uses, raced>>

----------------------------------------------------------------------------

\* One less, down to "expired".
Less(n) == IF n > -1 THEN n - 1 ELSE n

Tick ==
    /\ row' = IF row = NoRow THEN NoRow ELSE [row EXCEPT !.left = Less(@)]
    /\ ticket' = Less(ticket)
    /\ Limiter!Tick
    /\ UNCHANGED <<kind, req, inbox, granted, code, trouble>>

Statement(s) ==
    \/ Put(s) \/ Mail(s) \/ Select(s) \/ Purge(s) \/ Miss(s) \/ Consume(s) \/ Grant(s)
    \/ s = User /\ Member

Next ==
    \/ \E s \in Slot : AskCode(s) \/ SendCode(s) \/ Statement(s) \/ Fail(s)
    \/ Choose
    \/ Tick \/ Crash

\* The person enters the current code and the limiter lets it.
SendCurrent == SendCode(User) /\ req'[User] # Idle /\ req'[User].code = "current"

\* Before the code expires.
InTime(A) == row # NoRow /\ ~Expired /\ A

\* Time passes, the server answers, and the person does not give up.  The strong
\* conditions say that they are not late every single time: mail, server and
\* person together take seconds, a code is valid for ten minutes.
Fairness ==
    /\ WF_vars(Tick)
    /\ \A s \in Slot : WF_vars(Statement(s))
    /\ WF_vars(AskCode(User)) /\ WF_vars(SendCode(User))
    /\ SF_vars(InTime(Mail(User))) /\ SF_vars(InTime(SendCurrent)) /\ SF_vars(InTime(Select(User)))
    /\ SF_vars(Choose)

Spec == Init /\ [][Next]_vars /\ Fairness

----------------------------------------------------------------------------
(* Properties.                                                             *)

\* MaxAttempts wrong codes are compared with a code, one more by each request that
\* overlaps, and one more for each that a failure left uncounted.
FewMisses == misses <= MaxAttempts + Cardinality(Others) + uncounted

\* A code is accepted once, unless requests overlapped or its DELETE failed.
UsedOnce == uses > 1 => raced

\* A code that is not accepted is given up only after it expired, after its wrong
\* codes, or by a request that read an earlier one: one of those that overlap a
\* new code may also have counted its wrong code on it.
NotLostUntried ==
    [][\A s \in Slot :
         (row # NoRow /\ row' = NoRow /\ req[s] # Idle /\ req'[s] = Idle /\ req[s].code = "current")
         => Expired \/ misses >= MaxAttempts - Cardinality(Others)]_vars

\* A person who keeps trying gets in, whatever the others send, fail or lose.
SignsIn == <>granted

============================================================================
