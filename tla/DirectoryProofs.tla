-------------------------- MODULE DirectoryProofs --------------------------
(***************************************************************************)
(* Theorems about Directory, for any number of overlapping requests,       *)
(* contacts, addresses, spellings and campaigns, and any limit.            *)
(*                                                                         *)
(* IInv adds to the properties what a request may rely on between two of   *)
(* its statements: the locals that an earlier one has left (Equipped), and *)
(* that whatever has taken its address since it looked for it in vain has  *)
(* raced it (LookedUp).                                                    *)
(***************************************************************************)
EXTENDS Directory, FiniteSetTheorems, TLAPS

\* Where a statement needs a campaign or a contact, the request has one.
Equipped ==
    \A s \in Slot :
        /\ req[s].at \in {"attach", "detach", "entity"} => req[s].campaign \in Campaigns
        /\ req[s].at \in {"attach", "detach", "update"} => req[s].id \in Ids
        /\ req[s].at = "update" => req[s].id \in spent /\ req[s].email \in Email
        /\ req[s].at = "entity" => req[s].op \in {"attach", "detach"}

\* A request that has found no contact of its address finds one now only if others
\* have raced it.
LookedUp ==
    \A s \in Slot : req[s].at \in {"count", "insert"} =>
        \A j \in Live : SameAddress(contacts[j], req[s].email) => contacts[j][1] \in raced

Core == Equipped /\ LookedUp /\ OnlyRacesDuplicate /\ PromisesKept

IInv == TypeOK /\ Core /\ LimitOverrun

(***************************************************************************)
(* Types.                                                                  *)
(***************************************************************************)

LEMMA StepsAreSteps == NoRequest.at \notin Steps
BY DEF NoRequest, Steps

LEMMA ReqType ==
  ASSUME TypeOK, NEW s \in Slot, req[s].at \in Steps
  PROVE  req[s] \in Request
<1>1. req[s] \in Request \cup {NoRequest}
  BY DEF TypeOK
<1> QED
  BY <1>1, StepsAreSteps

\* The fields of a request.
LEMMA Fields ==
  ASSUME NEW q \in Request
  PROVE  /\ q.at \in Steps /\ q.op \in {"create", "attach", "detach", "delete"}
         /\ q.id \in Ids \cup {None}
         /\ q.email \in Email \cup {None} /\ q.campaign \in Campaigns \cup {None}
BY DEF Request

LEMMA Moved ==
  ASSUME NEW q \in Request, NEW at \in Steps, NEW i \in Ids \cup {None}
  PROVE  /\ [q EXCEPT !.at = at] \in Request
         /\ [q EXCEPT !.at = at, !.id = i] \in Request
BY DEF Request

LEMMA ReqMoves ==
  ASSUME TypeOK, NEW s \in Slot, NEW q \in Request \cup {NoRequest},
         req' = [req EXCEPT ![s] = q]
  PROVE  req' \in [Slot -> Request \cup {NoRequest}]
BY DEF TypeOK

LEMMA GotoType ==
  ASSUME TypeOK, NEW s \in Slot, req[s] \in Request, NEW at \in Steps, Goto(s, at)
  PROVE  req' \in [Slot -> Request \cup {NoRequest}]
BY Moved, ReqMoves DEF Goto

LEMMA DoneType ==
  ASSUME TypeOK, NEW s \in Slot, Done(s)
  PROVE  req' \in [Slot -> Request \cup {NoRequest}]
BY ReqMoves DEF Done

LEMMA ContinueType ==
  ASSUME TypeOK, NEW s \in Slot, req[s] \in Request, NEW i \in Ids, Continue(s, i)
  PROVE  req' \in [Slot -> Request \cup {NoRequest}]
<1>1. CASE req[s].campaign = None
  BY <1>1 DEF Continue, TypeOK
<1>2. CASE req[s].campaign # None
  <2>1. req' = [req EXCEPT ![s] = [req[s] EXCEPT !.at = "attach", !.id = i]]
    BY <1>2 DEF Continue
  <2> QED
    BY <2>1, Moved, ReqMoves DEF Steps
<1> QED
  BY <1>1, <1>2

LEMMA AskType ==
  ASSUME TypeOK, NEW s \in Slot, NEW op \in {"create", "attach", "detach", "delete"},
         NEW e \in Email \cup {None}, NEW c \in Campaigns \cup {None},
         NEW i \in Ids \cup {None}, NEW at \in Steps, Ask(s, op, e, c, i, at)
  PROVE  TypeOK'
<1>1. [at |-> at, op |-> op, id |-> i, email |-> e, campaign |-> c] \in Request
  BY DEF Request
<1>2. req' \in [Slot -> Request \cup {NoRequest}]
  BY <1>1, ReqMoves DEF Ask
<1> QED
  BY <1>2 DEF Ask, Unchanged, TypeOK, Live

LEMMA ArriveType ==
  ASSUME TypeOK, NEW s \in Slot, Arrive(s)
  PROVE  TypeOK'
<1>1. CASE AskKeyless(s)
  BY <1>1, AskType DEF AskKeyless, Steps
<1>2. ASSUME NEW e \in Email \cup {None}, NEW c \in (Campaigns \cap spent) \cup {None},
             AskCreate(s, e, c)
      PROVE  TypeOK'
  <2> DEFINE at == IF c # None THEN "campaign" ELSE IF e # None THEN "find" ELSE "count"
  <2>1. at \in Steps
    BY DEF Steps
  <2>2. Ask(s, "create", e, c, None, at)
    BY <1>2 DEF AskCreate
  <2> HIDE DEF at
  <2> QED
    BY <2>1, <2>2, AskType
<1>3. ASSUME NEW c \in Campaigns, NEW i \in Ids, AskAttach(s, c, i) \/ AskDetach(s, c, i)
      PROVE  TypeOK'
  BY <1>3, AskType DEF AskAttach, AskDetach, Steps
<1>4. ASSUME NEW c \in Campaigns, AskDelete(s, c) PROVE TypeOK'
  BY <1>4, AskType DEF AskDelete, Steps
<1> QED
  BY <1>1, <1>2, <1>3, <1>4 DEF Arrive

\* An email that somebody looks for is one.
LEMMA Sought ==
  ASSUME NEW e \in Email \cup {None}, Seekers(e) # {}
  PROVE  e \in Email /\ e[1] \in Addrs
BY DEF Seekers, SameAddress, Findable, Email

\* The steps that change nothing but a request.
LEMMA SilentType ==
  ASSUME TypeOK, NEW s \in Slot, Unchanged, req' \in [Slot -> Request \cup {NoRequest}]
  PROVE  TypeOK'
BY DEF TypeOK, Live, Unchanged

LEMMA StatementType ==
  ASSUME TypeOK, Equipped, NEW s \in Slot, Statement(s)
  PROVE  TypeOK'
<1>1. CASE ResolveCampaign(s)
  <2>1. req[s] \in Request
    BY <1>1, ReqType DEF ResolveCampaign, Steps
  <2>2. PICK at \in Steps : Done(s) \/ Goto(s, at)
    BY <1>1 DEF ResolveCampaign, Steps
  <2> QED
    BY <1>1, <2>1, <2>2, GotoType, DoneType, SilentType DEF ResolveCampaign
<1>2. CASE Find(s)
  <2>1. req[s] \in Request
    BY <1>2, ReqType DEF Find, Steps
  <2>2. CASE Done(s) \/ Goto(s, "count")
    BY <1>2, <2>1, <2>2, GotoType, DoneType, SilentType DEF Find, Steps
  <2>3. ASSUME NEW i \in FoundBy(req[s].email),
               req' = [req EXCEPT ![s].at = "update", ![s].id = i]
        PROVE  TypeOK'
    <3>1. i \in Ids
      BY <2>3 DEF FoundBy, TypeOK
    <3>2. req' = [req EXCEPT ![s] = [req[s] EXCEPT !.at = "update", !.id = i]]
      BY <2>3
    <3>3. [req[s] EXCEPT !.at = "update", !.id = i] \in Request
      BY <2>1, <3>1, Moved DEF Steps
    <3> QED
      BY <1>2, <3>2, <3>3, ReqMoves, SilentType DEF Find
  <2> QED
    BY <1>2, <2>2, <2>3 DEF Find
<1>3. CASE Update(s)
  <2>1. req[s] \in Request /\ req[s].id \in Ids /\ req[s].email \in Email
    BY <1>3, ReqType DEF Update, Steps, Equipped
  <2>2. req' \in [Slot -> Request \cup {NoRequest}]
    BY <1>3, <2>1, ContinueType, DoneType DEF Update
  <2>3. Live' = Live /\ \A i \in Live' : contacts'[i] \in Email \cup {None}
    BY <1>3, <2>1 DEF Update, Live, TypeOK
  <2>4. raced' \subseteq Addrs
    BY <1>3, <2>1 DEF Update, TypeOK, Email
  <2> QED
    BY <1>3, <2>2, <2>3, <2>4 DEF Update, TypeOK
<1>4. CASE Count(s)
  <2>1. req[s] \in Request
    BY <1>4, ReqType DEF Count, Steps
  <2> QED
    BY <1>4, <2>1, GotoType, DoneType, SilentType DEF Count, Steps
<1>5. ASSUME NEW i \in Ids, Insert(s, i) PROVE TypeOK'
  <2>1. req[s] \in Request /\ req[s].email \in Email \cup {None}
    BY <1>5, ReqType, Fields DEF Insert, Steps
  <2>2. req' \in [Slot -> Request \cup {NoRequest}]
    BY <1>5, <2>1, ContinueType DEF Insert
  <2>3. Live' = Live \cup {i} /\ \A j \in Live' : contacts'[j] \in Email \cup {None}
    BY <1>5, <2>1 DEF Insert, Live, TypeOK
  <2>4. raced' \subseteq Addrs
    <3>1. CASE Seekers(req[s].email) \ {s} = {}
      BY <1>5, <3>1 DEF Insert, TypeOK
    <3>2. CASE Seekers(req[s].email) \ {s} # {}
      <4>1. req[s].email[1] \in Addrs
        BY <2>1, <3>2, Sought
      <4> QED
        BY <1>5, <4>1 DEF Insert, TypeOK
    <3> QED
      BY <3>1, <3>2
  <2> QED
    BY <1>5, <2>2, <2>3, <2>4 DEF Insert, TypeOK
<1>6. CASE ResolveEntity(s)
  <2>1. req[s] \in Request /\ req[s].op \in Steps
    BY <1>6, ReqType DEF ResolveEntity, Steps, Equipped
  <2> QED
    BY <1>6, <2>1, GotoType, DoneType, SilentType DEF ResolveEntity
<1>7. CASE Attach(s)
  <2>1. MemberRow(req[s].campaign, req[s].id) \in Campaigns \X Ids
    BY <1>7 DEF Attach, Equipped, MemberRow
  <2>2. req' \in [Slot -> Request \cup {NoRequest}]
    BY <1>7, DoneType DEF Attach
  <2>3. /\ members' \subseteq Campaigns \X Ids /\ promised' \subseteq Campaigns \X Ids
        /\ lost' \subseteq Campaigns \X Ids
    BY <1>7, <2>1 DEF Attach, TypeOK
  <2> QED
    BY <1>7, <2>2, <2>3 DEF Attach, TypeOK, Live
<1>8. CASE Detach(s)
  BY <1>8, DoneType DEF Detach, TypeOK, Live
<1>9. CASE Purge(s)
  <2>1. req[s] \in Request
    BY <1>9, ReqType DEF Purge, Steps
  <2>2. req' \in [Slot -> Request \cup {NoRequest}]
    BY <1>9, <2>1, GotoType DEF Purge, Steps
  <2>3. members' \subseteq members
    BY <1>9 DEF Purge
  <2> QED
    BY <1>9, <2>2, <2>3 DEF Purge, TypeOK, Live
<1>10. CASE Drop(s)
  <2>1. /\ campaigns' \subseteq campaigns /\ promised' \subseteq promised
        /\ lost' \subseteq lost \cup promised
    BY <1>10 DEF Drop, Taken
  <2> QED
    BY <1>10, <2>1, DoneType DEF Drop, TypeOK, Live
<1> QED
  BY <1>1, <1>2, <1>3, <1>4, <1>5, <1>6, <1>7, <1>8, <1>9, <1>10 DEF Statement

LEMMA NextType ==
  ASSUME TypeOK, Equipped, [Next]_vars
  PROVE  TypeOK'
<1>1. ASSUME NEW s \in Slot, Arrive(s) \/ Statement(s) PROVE TypeOK'
  BY <1>1, ArriveType, StatementType
<1>2. ASSUME NEW s \in Slot, Fail(s) PROVE TypeOK'
  <2>1. lost' \subseteq lost \cup promised
    BY <1>2 DEF Fail, Taken
  <2> QED
    BY <1>2, <2>1, DoneType DEF Fail, TypeOK, Live
<1>3. ASSUME NEW c \in Campaigns, CreateCampaign(c) PROVE TypeOK'
  BY <1>3 DEF CreateCampaign, TypeOK, Live
<1>4. ASSUME NEW i \in Ids, DeleteContact(i) PROVE TypeOK'
  BY <1>4 DEF DeleteContact, TypeOK, Live
<1>5. ASSUME NEW i \in Ids, NEW e \in Email \cup {None}, PatchEmail(i, e) PROVE TypeOK'
  <2>1. raced' \subseteq Addrs
    <3>1. CASE raced' = raced
      BY <3>1 DEF TypeOK
    <3>2. CASE Seekers(e) # {} \/ \E j \in Live : SameAddress(e, contacts[j])
      <4>1. e[1] \in Addrs
        BY <3>2, Sought DEF SameAddress, Findable, Email
      <4> QED
        BY <1>5, <4>1 DEF PatchEmail, TypeOK
    <3> QED
      BY <1>5, <3>1, <3>2 DEF PatchEmail
  <2> QED
    BY <1>5, <2>1 DEF PatchEmail, TypeOK, Live
<1>6. CASE UNCHANGED vars
  BY <1>6 DEF vars, TypeOK, Live
<1> QED
  BY <1>1, <1>2, <1>3, <1>4, <1>5, <1>6 DEF Next

(***************************************************************************)
(* What a request has.                                                     *)
(***************************************************************************)

\* The steps of a request leave the locals of the others alone.
LEMMA Others ==
  ASSUME TypeOK, NEW s \in Slot, NEW q, req' = [req EXCEPT ![s] = q]
  PROVE  /\ req'[s] = q
         /\ \A t \in Slot \ {s} : req'[t] = req[t]
BY DEF TypeOK

\* A request that has ended, or that has only moved on.
LEMMA MovedTo ==
  ASSUME TypeOK, NEW s \in Slot, req[s] \in Request, NEW at, Goto(s, at)
  PROVE  /\ req'[s].at = at /\ req'[s].op = req[s].op /\ req'[s].id = req[s].id
         /\ req'[s].email = req[s].email /\ req'[s].campaign = req[s].campaign
         /\ \A t \in Slot \ {s} : req'[t] = req[t]
BY DEF TypeOK, Goto, Request

LEMMA Ended ==
  ASSUME TypeOK, NEW s \in Slot, Done(s)
  PROVE  req'[s].at \notin Steps /\ \A t \in Slot \ {s} : req'[t] = req[t]
BY Others, StepsAreSteps DEF Done

LEMMA Continued ==
  ASSUME TypeOK, NEW s \in Slot, req[s] \in Request, NEW i, Continue(s, i)
  PROVE  /\ req'[s].at \notin Steps
            \/ (/\ req'[s].at = "attach" /\ req'[s].id = i
                /\ req'[s].campaign = req[s].campaign /\ req[s].campaign \in Campaigns)
         /\ \A t \in Slot \ {s} : req'[t] = req[t]
<1>1. CASE req[s].campaign = None
  <2>1. req' = [req EXCEPT ![s] = NoRequest]
    BY <1>1 DEF Continue
  <2> QED
    BY <2>1, Others, StepsAreSteps
<1>2. CASE req[s].campaign # None
  <2>1. req' = [req EXCEPT ![s] = [req[s] EXCEPT !.at = "attach", !.id = i]]
    BY <1>2 DEF Continue
  <2>2. req[s].campaign \in Campaigns
    BY <1>2, Fields
  <2>3. LET q == [req[s] EXCEPT !.at = "attach", !.id = i]
        IN  q.at = "attach" /\ q.id = i /\ q.campaign = req[s].campaign
    BY DEF Request
  <2> QED
    BY <2>1, <2>2, <2>3, Others
<1> QED
  BY <1>1, <1>2

\* A new request runs its first statement.
LEMMA AskedFor ==
  ASSUME TypeOK, NEW s \in Slot, Arrive(s)
  PROVE  /\ Unchanged /\ req[s] = NoRequest
         /\ req'[s].at \in {"campaign", "find", "count"}
         /\ req'[s].at = "count" => req'[s].email = None
         /\ \A t \in Slot \ {s} : req'[t] = req[t]
<1>1. ASSUME NEW op, NEW e, NEW c, NEW i, NEW at, Ask(s, op, e, c, i, at)
      PROVE  /\ Unchanged /\ req'[s].at = at /\ req'[s].email = e
             /\ \A t \in Slot \ {s} : req'[t] = req[t]
  <2> DEFINE q == [at |-> at, op |-> op, id |-> i, email |-> e, campaign |-> c]
  <2>1. req' = [req EXCEPT ![s] = q] /\ Unchanged
    BY <1>1 DEF Ask
  <2>2. q.at = at /\ q.email = e
    OBVIOUS
  <2> HIDE DEF q
  <2> QED
    BY <2>1, <2>2, Others
<1>2. req[s] = NoRequest
  BY DEF Arrive, AskKeyless, AskCreate, AskAttach, AskDetach, AskDelete, Ask
<1>3. CASE AskKeyless(s)
  BY <1>1, <1>2, <1>3 DEF AskKeyless
<1>4. ASSUME NEW e \in Email \cup {None}, NEW c \in (Campaigns \cap spent) \cup {None},
             AskCreate(s, e, c)
      PROVE  /\ Unchanged
             /\ req'[s].at \in {"campaign", "find", "count"}
             /\ req'[s].at = "count" => req'[s].email = None
             /\ \A t \in Slot \ {s} : req'[t] = req[t]
  <2> DEFINE at == IF c # None THEN "campaign" ELSE IF e # None THEN "find" ELSE "count"
  <2>1. at \in {"campaign", "find", "count"} /\ (at = "count" => e = None)
    OBVIOUS
  <2>2. Ask(s, "create", e, c, None, at)
    BY <1>4 DEF AskCreate
  <2> HIDE DEF at
  <2> QED
    BY <1>1, <2>1, <2>2
<1>5. ASSUME NEW c \in Campaigns, NEW i \in Ids, AskAttach(s, c, i) \/ AskDetach(s, c, i)
      PROVE  /\ Unchanged /\ req'[s].at = "campaign"
             /\ \A t \in Slot \ {s} : req'[t] = req[t]
  BY <1>1, <1>5 DEF AskAttach, AskDetach
<1>6. ASSUME NEW c \in Campaigns, AskDelete(s, c)
      PROVE  /\ Unchanged /\ req'[s].at = "campaign"
             /\ \A t \in Slot \ {s} : req'[t] = req[t]
  BY <1>1, <1>6 DEF AskDelete
<1> QED
  BY <1>2, <1>3, <1>4, <1>5, <1>6 DEF Arrive

(***************************************************************************)
(* The invariants.  Of a step that changes no table, it is enough to look  *)
(* at the request that makes it.                                           *)
(***************************************************************************)

\* The other requests keep the promises of the deletions they are in.
LEMMA PromisesOfOthers ==
  ASSUME PromisesKept, NEW s \in Slot, req[s].at # "drop",
         \A t \in Slot \ {s} : req'[t] = req[t],
         campaigns' = campaigns, members' = members, promised' = promised, lost' = lost
  PROVE  PromisesKept'
<1> SUFFICES ASSUME NEW m \in promised
             PROVE  /\ m[1] \in campaigns
                    /\ \/ m \in members \cup lost
                       \/ \E t \in Slot : req'[t].at = "drop" /\ req'[t].campaign = m[1]
  BY DEF PromisesKept
<1>1. CASE m \in members \cup lost
  BY <1>1 DEF PromisesKept
<1>2. ASSUME NEW t \in Slot, req[t].at = "drop", req[t].campaign = m[1]
      PROVE  req'[t].at = "drop" /\ req'[t].campaign = m[1]
  BY <1>2
<1> QED
  BY <1>1, <1>2 DEF PromisesKept

\* A request that is not between two statements that rely on each other.
LEMMA SilentKeeps ==
  ASSUME TypeOK, Core, NEW s \in Slot, Unchanged, req[s].at # "drop",
         \A t \in Slot \ {s} : req'[t] = req[t],
         /\ req'[s].at \in {"attach", "detach", "entity"} => req'[s].campaign \in Campaigns
         /\ req'[s].at \in {"attach", "detach", "update"} => req'[s].id \in Ids
         /\ req'[s].at = "update" => req'[s].id \in spent /\ req'[s].email \in Email
         /\ req'[s].at = "entity" => req'[s].op \in {"attach", "detach"},
         req'[s].at \in {"count", "insert"} =>
           \A j \in Live : SameAddress(contacts[j], req'[s].email) => contacts[j][1] \in raced
  PROVE  Core'
<1>1. /\ contacts' = contacts /\ spent' = spent /\ campaigns' = campaigns
      /\ members' = members /\ promised' = promised /\ lost' = lost
      /\ raced' = raced /\ Live' = Live
  BY DEF Unchanged, Live
<1>2. Equipped'
  BY <1>1 DEF Core, Equipped
<1>3. LookedUp'
  BY <1>1 DEF Core, LookedUp, SameAddress, Findable
<1>4. PromisesKept'
  BY <1>1, PromisesOfOthers DEF Core
<1> QED
  BY <1>1, <1>2, <1>3, <1>4 DEF Core, OnlyRacesDuplicate, Findable

LEMMA ArriveKeeps ==
  ASSUME TypeOK, Core, NEW s \in Slot, Arrive(s)
  PROVE  Core'
<1>1. /\ Unchanged /\ req[s].at # "drop"
      /\ req'[s].at \in {"campaign", "find", "count"}
      /\ req'[s].at = "count" => req'[s].email = None
      /\ \A t \in Slot \ {s} : req'[t] = req[t]
  BY AskedFor, StepsAreSteps DEF Steps
<1>2. req'[s].at = "count" =>
        \A j \in Live : ~SameAddress(contacts[j], req'[s].email)
  BY <1>1 DEF SameAddress
<1> QED
  BY <1>1, <1>2, SilentKeeps

\* A request ends and leaves no trace.
LEMMA DoneKeeps ==
  ASSUME TypeOK, Core, NEW s \in Slot, req[s].at # "drop", Done(s), Unchanged
  PROVE  Core'
<1>1. req'[s].at \notin Steps /\ \A t \in Slot \ {s} : req'[t] = req[t]
  BY Ended
<1> QED
  BY <1>1, SilentKeeps DEF Steps

LEMMA ResolveCampaignKeeps ==
  ASSUME TypeOK, Core, NEW s \in Slot, ResolveCampaign(s)
  PROVE  Core'
<1>1. req[s] \in Request
  BY ReqType DEF ResolveCampaign, Steps
<1>2. CASE Done(s)
  BY <1>2, DoneKeeps DEF ResolveCampaign
<1>3. ASSUME ~Done(s) PROVE Core'
  <2>1. req[s].campaign \in Campaigns
    BY <1>3 DEF ResolveCampaign, TypeOK
  <2> DEFINE at == CASE req[s].op = "delete"               -> "purge"
                     [] req[s].op \in {"attach", "detach"} -> "entity"
                     [] OTHER -> IF req[s].email = None THEN "count" ELSE "find"
  <2>2. /\ at \in {"purge", "entity", "count", "find"}
        /\ at = "entity" => req[s].op \in {"attach", "detach"}
        /\ at = "count" => req[s].email = None
    BY <1>1, Fields
  <2>6. Goto(s, at)
    BY <1>3 DEF ResolveCampaign
  <2> HIDE DEF at
  <2>3. /\ req'[s].at = at /\ req'[s].op = req[s].op
        /\ req'[s].email = req[s].email /\ req'[s].campaign = req[s].campaign
        /\ \A t \in Slot \ {s} : req'[t] = req[t]
    BY <1>1, <2>6, MovedTo
  <2>4. at = "count" => \A j \in Live : ~SameAddress(contacts[j], req'[s].email)
    BY <2>2, <2>3 DEF SameAddress
  <2>5. Unchanged /\ req[s].at # "drop"
    BY DEF ResolveCampaign
  <2> QED
    BY <2>1, <2>2, <2>3, <2>4, <2>5, SilentKeeps
<1> QED
  BY <1>2, <1>3

LEMMA FindKeeps ==
  ASSUME TypeOK, Core, NEW s \in Slot, Find(s)
  PROVE  Core'
<1>1. req[s] \in Request /\ Unchanged /\ req[s].at # "drop"
  BY ReqType DEF Find, Steps
<1>2. CASE Done(s)
  BY <1>1, <1>2, DoneKeeps
<1>3. CASE FoundBy(req[s].email) = {} /\ Goto(s, "count")
  <2>1. /\ req'[s].at = "count" /\ req'[s].email = req[s].email
        /\ \A t \in Slot \ {s} : req'[t] = req[t]
    BY <1>1, <1>3, MovedTo
  <2>2. \A j \in Live : ~SameAddress(contacts[j], req[s].email)
    BY <1>3 DEF FoundBy
  <2> QED
    BY <1>1, <2>1, <2>2, SilentKeeps
<1>4. ASSUME NEW i \in FoundBy(req[s].email),
             req' = [req EXCEPT ![s].at = "update", ![s].id = i]
      PROVE  Core'
  <2>1. i \in Live /\ req[s].email # None
    BY <1>4 DEF FoundBy, SameAddress
  <2>2. i \in Ids /\ i \in spent /\ req[s].email \in Email
    BY <1>1, <2>1, Fields DEF TypeOK
  <2>3. req' = [req EXCEPT ![s] = [req[s] EXCEPT !.at = "update", !.id = i]]
    BY <1>4
  <2>4. LET q == [req[s] EXCEPT !.at = "update", !.id = i]
        IN  q.at = "update" /\ q.id = i /\ q.email = req[s].email
    BY <1>1 DEF Request
  <2>5. /\ req'[s].at = "update" /\ req'[s].id = i /\ req'[s].email = req[s].email
        /\ \A t \in Slot \ {s} : req'[t] = req[t]
    BY <2>3, <2>4, Others
  <2> QED
    BY <1>1, <2>1, <2>2, <2>5, SilentKeeps
<1> QED
  BY <1>2, <1>3, <1>4 DEF Find

LEMMA CountKeeps ==
  ASSUME TypeOK, Core, NEW s \in Slot, Count(s)
  PROVE  Core'
<1>1. req[s] \in Request /\ Unchanged /\ req[s].at # "drop"
  BY ReqType DEF Count, Steps
<1>2. CASE Done(s)
  BY <1>1, <1>2, DoneKeeps
<1>3. CASE Goto(s, "insert")
  <2>1. /\ req'[s].at = "insert" /\ req'[s].email = req[s].email
        /\ \A t \in Slot \ {s} : req'[t] = req[t]
    BY <1>1, <1>3, MovedTo
  <2>2. \A j \in Live : SameAddress(contacts[j], req[s].email) => contacts[j][1] \in raced
    BY DEF Count, Core, LookedUp
  <2> QED
    BY <1>1, <2>1, <2>2, SilentKeeps
<1> QED
  BY <1>2, <1>3 DEF Count

LEMMA ResolveEntityKeeps ==
  ASSUME TypeOK, Core, NEW s \in Slot, ResolveEntity(s)
  PROVE  Core'
<1>1. req[s] \in Request /\ Unchanged /\ req[s].at # "drop"
  BY ReqType DEF ResolveEntity, Steps
<1>2. CASE Done(s)
  BY <1>1, <1>2, DoneKeeps
<1>3. CASE req[s].id \in Live /\ Goto(s, req[s].op)
  <2>1. /\ req'[s].at = req[s].op /\ req'[s].id = req[s].id
        /\ req'[s].campaign = req[s].campaign
        /\ \A t \in Slot \ {s} : req'[t] = req[t]
    BY <1>1, <1>3, MovedTo
  <2>2. /\ req[s].op \in {"attach", "detach"} /\ req[s].id \in Ids
        /\ req[s].campaign \in Campaigns
    BY <1>3 DEF ResolveEntity, Core, Equipped, TypeOK
  <2> QED
    BY <1>1, <2>1, <2>2, SilentKeeps
<1> QED
  BY <1>2, <1>3 DEF ResolveEntity

(***************************************************************************)
(* The steps that write a table.  A write leaves the request that made it  *)
(* ended, about to attach, or (Purge) about to drop.                       *)
(***************************************************************************)

\* An attachment may follow a write of a contact.
LEMMA EquippedOnly ==
  ASSUME Equipped, NEW s \in Slot, spent \subseteq spent',
         \A t \in Slot \ {s} : req'[t] = req[t],
         \/ req'[s].at \notin Steps \/ req'[s].at = "drop"
         \/ req'[s].at = "attach" /\ req'[s].id \in Ids /\ req'[s].campaign \in Campaigns
  PROVE  Equipped'
BY DEF Equipped, Steps

LEMMA UpdateKeeps ==
  ASSUME TypeOK, Core, NEW s \in Slot, Update(s)
  PROVE  Core'
<1>1. req[s] \in Request /\ req[s].id \in Ids /\ req[s].email \in Email
  BY ReqType DEF Update, Steps, Core, Equipped
<1>2. CASE req[s].id \notin Live
  <2>1. Done(s) /\ Unchanged /\ req[s].at # "drop"
    BY <1>2 DEF Update, Unchanged
  <2> QED
    BY <2>1, DoneKeeps
<1>3. CASE req[s].id \in Live
  <2> DEFINE i == req[s].id
             e == req[s].email
  <2>1. /\ contacts' = [contacts EXCEPT ![i] = e] /\ Continue(s, i)
        /\ spent' = spent /\ campaigns' = campaigns /\ members' = members
        /\ promised' = promised /\ lost' = lost /\ req[s].at # "drop"
    BY <1>3 DEF Update
  <2>2. Live' = Live /\ contacts'[i] = e /\ \A j \in Live : j # i => contacts'[j] = contacts[j]
    BY <1>3, <2>1 DEF Live
  <2>3. /\ \/ req'[s].at \notin Steps
           \/ req'[s].at = "attach" /\ req'[s].id = i /\ req'[s].campaign \in Campaigns
        /\ \A t \in Slot \ {s} : req'[t] = req[t]
    BY <1>1, <2>1, Continued
  <2>4. raced \subseteq raced' /\ (SameAddress(contacts[i], e) \/ e[1] \in raced')
    BY <1>3 DEF Update
  <2>5. i \in Ids /\ i \in Live
    BY <1>1, <1>3
  <2> HIDE DEF i, e
  <2>6. Equipped'
    BY <2>1, <2>3, <2>5, EquippedOnly DEF Core
  <2>7. LookedUp'
    <3> SUFFICES ASSUME NEW t \in Slot, req'[t].at \in {"count", "insert"},
                        NEW j \in Live, SameAddress(contacts'[j], req'[t].email)
                 PROVE  contacts'[j][1] \in raced'
      BY <2>2 DEF LookedUp, SameAddress, Findable
    <3>1. req'[t] = req[t]
      BY <2>3 DEF Steps
    <3>2. CASE j = i /\ SameAddress(contacts[i], e)
      BY <2>2, <2>4, <2>5, <3>1, <3>2 DEF Core, LookedUp, SameAddress, Findable
    <3>3. CASE j # i
      BY <2>2, <2>4, <3>1, <3>3 DEF Core, LookedUp
    <3> QED
      BY <2>2, <2>4, <3>2, <3>3
  <2>8. OnlyRacesDuplicate'
    <3> SUFFICES ASSUME NEW j \in Live, NEW k \in Live, j # k,
                        Findable(contacts'[j]), Findable(contacts'[k]),
                        contacts'[j][1] = contacts'[k][1]
                 PROVE  contacts'[j][1] \in raced'
      BY <2>2 DEF OnlyRacesDuplicate, Findable
    <3>1. CASE j # i /\ k # i
      BY <2>2, <2>4, <3>1 DEF Core, OnlyRacesDuplicate
    <3>2. CASE SameAddress(contacts[i], e)
      BY <2>2, <2>4, <3>1, <3>2 DEF Core, OnlyRacesDuplicate, SameAddress
    <3> QED
      BY <2>2, <2>4, <3>1, <3>2
  <2>9. PromisesKept'
    BY <2>1, <2>3, PromisesOfOthers DEF Core
  <2> QED
    BY <2>6, <2>7, <2>8, <2>9 DEF Core
<1> QED
  BY <1>2, <1>3

LEMMA InsertKeeps ==
  ASSUME TypeOK, Core, NEW s \in Slot, NEW i \in Ids, Insert(s, i)
  PROVE  Core'
<1> DEFINE e == req[s].email
<1>1. req[s] \in Request /\ e \in Email \cup {None} /\ i \notin Live /\ i \notin spent
  BY ReqType, Fields DEF Insert, Steps, TypeOK
<1>2. /\ contacts' = [j \in Live \cup {i} |-> IF j = i THEN e ELSE contacts[j]]
      /\ Continue(s, i) /\ spent' = spent \cup {i} /\ campaigns' = campaigns
      /\ members' = members /\ promised' = promised /\ lost' = lost
      /\ raced \subseteq raced' /\ req[s].at # "drop"
  BY DEF Insert
<1>3. \A t \in Slot \ {s} :
        req[t].at \in {"count", "insert"} /\ SameAddress(e, req[t].email) => e[1] \in raced'
  BY DEF Insert, Seekers
<1>4. Live' = Live \cup {i} /\ contacts'[i] = e /\ \A j \in Live : contacts'[j] = contacts[j]
  BY <1>1, <1>2 DEF Live
<1>5. /\ \/ req'[s].at \notin Steps
         \/ req'[s].at = "attach" /\ req'[s].id = i /\ req'[s].campaign \in Campaigns
      /\ \A t \in Slot \ {s} : req'[t] = req[t]
  BY <1>1, <1>2, Continued
<1>6. \A j \in Live : SameAddress(contacts[j], e) => contacts[j][1] \in raced
  BY DEF Insert, Core, LookedUp
<1> HIDE DEF e
<1>7. Equipped'
  BY <1>2, <1>5, EquippedOnly DEF Core
<1>8. LookedUp'
  <2> SUFFICES ASSUME NEW t \in Slot, req'[t].at \in {"count", "insert"},
                      NEW j \in Live \cup {i}, SameAddress(contacts'[j], req'[t].email)
               PROVE  contacts'[j][1] \in raced'
    BY <1>4 DEF LookedUp, SameAddress, Findable
  <2>1. t # s /\ req'[t] = req[t]
    BY <1>5 DEF Steps
  <2>2. CASE j = i
    BY <1>3, <1>4, <2>1, <2>2
  <2>3. CASE j # i
    BY <1>2, <1>4, <2>1, <2>3 DEF Core, LookedUp
  <2> QED
    BY <2>2, <2>3
<1>9. OnlyRacesDuplicate'
  <2> SUFFICES ASSUME NEW j \in Live \cup {i}, NEW k \in Live \cup {i}, j # k,
                      Findable(contacts'[j]), Findable(contacts'[k]),
                      contacts'[j][1] = contacts'[k][1]
               PROVE  contacts'[j][1] \in raced'
    BY <1>4 DEF OnlyRacesDuplicate, Findable
  <2>1. CASE j # i /\ k # i
    BY <1>2, <1>4, <2>1 DEF Core, OnlyRacesDuplicate
  <2>2. CASE j = i \/ k = i
    BY <1>2, <1>4, <1>6, <2>2 DEF SameAddress, Findable
  <2> QED
    BY <2>1, <2>2
<1>10. PromisesKept'
  BY <1>2, <1>5, PromisesOfOthers DEF Core
<1> QED
  BY <1>7, <1>8, <1>9, <1>10 DEF Core

\* The steps that leave the contacts alone.
LEMMA ContactsKept ==
  ASSUME TypeOK, Core, contacts' = contacts, raced' = raced,
         \A t \in Slot : req'[t].at \in {"count", "insert"} => req'[t] = req[t]
  PROVE  LookedUp' /\ OnlyRacesDuplicate'
<1>1. Live' = Live
  BY DEF Live
<1>2. LookedUp'
  BY <1>1 DEF Core, LookedUp, SameAddress, Findable
<1>3. OnlyRacesDuplicate'
  BY <1>1 DEF Core, OnlyRacesDuplicate, Findable
<1> QED
  BY <1>2, <1>3

\* A deletion that ends, its campaign still there, owes what it has taken.
LEMMA BrokenOff ==
  ASSUME TypeOK, Core, NEW s \in Slot, req[s].at = "drop",
         \A t \in Slot \ {s} : req'[t] = req[t],
         campaigns' = campaigns, members' = members, promised' = promised,
         lost' = lost \cup Taken(req[s].campaign)
  PROVE  PromisesKept'
<1> SUFFICES ASSUME NEW m \in promised
             PROVE  /\ m[1] \in campaigns
                    /\ \/ m \in members' \cup lost'
                       \/ \E t \in Slot : req'[t].at = "drop" /\ req'[t].campaign = m[1]
  BY DEF PromisesKept
<1>1. m[1] \in campaigns
  BY DEF Core, PromisesKept
<1>2. CASE m[1] = req[s].campaign
  BY <1>1, <1>2 DEF Taken
<1>3. CASE m[1] # req[s].campaign
  <2>1. CASE m \in members \cup lost
    BY <1>1, <2>1
  <2>2. ASSUME NEW t \in Slot, req[t].at = "drop", req[t].campaign = m[1]
        PROVE  req'[t].at = "drop" /\ req'[t].campaign = m[1]
    BY <1>3, <2>2
  <2> QED
    BY <1>1, <2>1, <2>2 DEF Core, PromisesKept
<1> QED
  BY <1>2, <1>3

\* A deletion that gets through takes its promises with it: with the foreign key
\* satisfied, none of them has a row any more.
LEMMA DropKeeps ==
  ASSUME TypeOK, Core, NEW s \in Slot, Drop(s),
         \A t \in Slot \ {s} : req'[t] = req[t]
  PROVE  PromisesKept'
<1> DEFINE c == req[s].campaign
<1>1. CASE Referenced(c)
  BY <1>1, BrokenOff DEF Drop
<1>2. CASE ~Referenced(c)
  <2>1. /\ campaigns' = campaigns \ {c} /\ members' = members /\ lost' = lost
        /\ promised' = promised \ Taken(c)
    BY <1>2 DEF Drop
  <2>2. \A m \in promised' : m \in promised /\ m[1] # c
    BY <1>2, <2>1 DEF Taken, Referenced
  <2> SUFFICES ASSUME NEW m \in promised'
               PROVE  /\ m[1] \in campaigns'
                      /\ \/ m \in members \cup lost
                         \/ \E t \in Slot : req'[t].at = "drop" /\ req'[t].campaign = m[1]
    BY <2>1 DEF PromisesKept
  <2>3. m[1] \in campaigns'
    BY <2>1, <2>2 DEF Core, PromisesKept
  <2>4. ASSUME NEW t \in Slot, req[t].at = "drop", req[t].campaign = m[1]
        PROVE  req'[t].at = "drop" /\ req'[t].campaign = m[1]
    BY <2>2, <2>4
  <2> QED
    BY <2>2, <2>3, <2>4 DEF Core, PromisesKept
<1> QED
  BY <1>1, <1>2

\* A deletion that has taken the members of its campaign stands for them.
LEMMA PurgeKeeps ==
  ASSUME TypeOK, Core, NEW s \in Slot, Purge(s)
  PROVE  PromisesKept'
<1>1. req[s] \in Request /\ Goto(s, "drop")
  BY ReqType DEF Purge, Steps
<1>2. /\ req'[s].at = "drop" /\ req'[s].campaign = req[s].campaign
      /\ \A t \in Slot \ {s} : req'[t] = req[t]
  BY <1>1, MovedTo
<1>3. /\ campaigns' = campaigns /\ promised' = promised /\ lost' = lost
      /\ members' = {m \in members : m[1] # req[s].campaign} /\ req[s].at # "drop"
  BY DEF Purge
<1> SUFFICES ASSUME NEW m \in promised
             PROVE  /\ m[1] \in campaigns
                    /\ \/ m \in members' \cup lost
                       \/ \E t \in Slot : req'[t].at = "drop" /\ req'[t].campaign = m[1]
  BY <1>3 DEF PromisesKept
<1>4. m[1] \in campaigns
  BY DEF Core, PromisesKept
<1>5. CASE m[1] = req[s].campaign
  BY <1>2, <1>4, <1>5
<1>6. CASE m[1] # req[s].campaign /\ m \in members \cup lost
  BY <1>3, <1>4, <1>6
<1>7. ASSUME NEW t \in Slot, req[t].at = "drop", req[t].campaign = m[1]
      PROVE  req'[t].at = "drop" /\ req'[t].campaign = m[1]
  BY <1>2, <1>3, <1>7
<1> QED
  BY <1>4, <1>5, <1>6, <1>7 DEF Core, PromisesKept

\* Attaching adds to what is promised what it adds to the members, and detaching takes
\* the same from both.
LEMMA MembershipKeeps ==
  ASSUME TypeOK, Core, NEW s \in Slot, Attach(s) \/ Detach(s),
         \A t \in Slot \ {s} : req'[t] = req[t]
  PROVE  PromisesKept'
<1>1. req[s].at # "drop" /\ campaigns' = campaigns
  BY DEF Attach, Detach
<1>2. \A t \in Slot : req[t].at = "drop"
                      => req'[t].at = "drop" /\ req'[t].campaign = req[t].campaign
  BY <1>1
<1>3. ASSUME NEW m \in promised,
             m \in members \cup lost => m \in members' \cup lost'
      PROVE  /\ m[1] \in campaigns'
             /\ \/ m \in members' \cup lost'
                \/ \E t \in Slot : req'[t].at = "drop" /\ req'[t].campaign = m[1]
  BY <1>1, <1>2, <1>3 DEF Core, PromisesKept
<1>4. CASE Detach(s)
  BY <1>3, <1>4 DEF Detach, PromisesKept
<1>5. CASE Attach(s)
  <2> DEFINE n == MemberRow(req[s].campaign, req[s].id)
  <2>1. CASE Attachable(req[s].campaign)
    <3>1. /\ members' = members \cup {n} /\ promised' = promised \cup {n}
          /\ lost' = lost \ {n}
      BY <1>5, <2>1 DEF Attach
    <3>2. n[1] \in campaigns'
      BY <1>1, <2>1 DEF Attachable, MemberRow
    <3> HIDE DEF n
    <3> QED
      BY <1>3, <3>1, <3>2 DEF PromisesKept
  <2>2. CASE ~Attachable(req[s].campaign)
    <3>1. members' = members /\ promised' = promised /\ lost' = lost
      BY <1>5, <2>2 DEF Attach
    <3> QED
      BY <1>3, <3>1 DEF PromisesKept
  <2> QED
    BY <2>1, <2>2
<1> QED
  BY <1>4, <1>5

LEMMA CampaignStepKeeps ==
  ASSUME TypeOK, Core, NEW s \in Slot, Attach(s) \/ Detach(s) \/ Purge(s) \/ Drop(s)
  PROVE  Core'
<1>1. contacts' = contacts /\ raced' = raced /\ spent' = spent
  BY DEF Attach, Detach, Purge, Drop
<1>2. /\ req'[s].at \notin Steps \/ req'[s].at = "drop"
      /\ \A t \in Slot \ {s} : req'[t] = req[t]
  <2>1. CASE Done(s)
    BY <2>1, Ended
  <2>2. CASE Purge(s)
    <3>1. req[s] \in Request
      BY <2>2, ReqType DEF Purge, Steps
    <3> QED
      BY <2>2, <3>1, MovedTo DEF Purge
  <2> QED
    BY <2>1, <2>2 DEF Attach, Detach, Drop
<1>3. LookedUp' /\ OnlyRacesDuplicate'
  BY <1>1, <1>2, ContactsKept DEF Steps
<1>4. Equipped'
  BY <1>1, <1>2, EquippedOnly DEF Core
<1>5. PromisesKept'
  BY <1>2, MembershipKeeps, PurgeKeeps, DropKeeps
<1> QED
  BY <1>3, <1>4, <1>5 DEF Core

LEMMA FailKeeps ==
  ASSUME TypeOK, Core, NEW s \in Slot, Fail(s)
  PROVE  Core'
<1>1. req'[s].at \notin Steps /\ \A t \in Slot \ {s} : req'[t] = req[t]
  BY Ended DEF Fail
<1>2. /\ contacts' = contacts /\ spent' = spent /\ campaigns' = campaigns
      /\ members' = members /\ promised' = promised /\ raced' = raced
  BY DEF Fail
<1>3. CASE req[s].at # "drop"
  <2>1. Done(s) /\ Unchanged
    BY <1>3 DEF Fail, Unchanged
  <2> QED
    BY <1>3, <2>1, DoneKeeps
<1>4. CASE req[s].at = "drop"
  <2>1. PromisesKept'
    BY <1>1, <1>2, <1>4, BrokenOff DEF Fail
  <2>2. LookedUp' /\ OnlyRacesDuplicate'
    BY <1>1, <1>2, ContactsKept DEF Steps
  <2>3. Equipped'
    BY <1>1, <1>2, EquippedOnly DEF Core
  <2> QED
    BY <2>1, <2>2, <2>3 DEF Core
<1> QED
  BY <1>3, <1>4

LEMMA CreateCampaignKeeps ==
  ASSUME TypeOK, Core, NEW c \in Campaigns, CreateCampaign(c)
  PROVE  Core'
<1>1. LookedUp' /\ OnlyRacesDuplicate'
  BY ContactsKept DEF CreateCampaign
<1>2. Equipped'
  BY DEF CreateCampaign, Core, Equipped
<1>3. PromisesKept'
  BY DEF CreateCampaign, Core, PromisesKept
<1> QED
  BY <1>1, <1>2, <1>3 DEF Core

LEMMA DeleteContactKeeps ==
  ASSUME TypeOK, Core, NEW i \in Ids, DeleteContact(i)
  PROVE  Core'
<1>1. /\ Live' = Live \ {i} /\ \A j \in Live' : contacts'[j] = contacts[j]
      /\ spent' = spent /\ campaigns' = campaigns /\ members' = members
      /\ promised' = promised /\ lost' = lost /\ raced' = raced /\ req' = req
  BY DEF DeleteContact, Live
<1>2. LookedUp'
  BY <1>1 DEF Core, LookedUp, SameAddress, Findable
<1>3. OnlyRacesDuplicate'
  BY <1>1 DEF Core, OnlyRacesDuplicate, Findable
<1>4. Equipped' /\ PromisesKept'
  BY <1>1 DEF Core, Equipped, PromisesKept
<1> QED
  BY <1>2, <1>3, <1>4 DEF Core

LEMMA PatchEmailKeeps ==
  ASSUME TypeOK, Core, NEW i \in Ids, NEW e \in Email \cup {None}, PatchEmail(i, e)
  PROVE  Core'
<1>1. /\ Live' = Live /\ i \in Live
      /\ contacts'[i] = e /\ \A j \in Live : j # i => contacts'[j] = contacts[j]
      /\ spent' = spent /\ campaigns' = campaigns /\ members' = members
      /\ promised' = promised /\ lost' = lost /\ req' = req /\ raced \subseteq raced'
  BY DEF PatchEmail, Live
<1>2. /\ Seekers(e) # {} => e[1] \in raced'
      /\ \A j \in Live \ {i} : SameAddress(e, contacts[j]) => e[1] \in raced'
  BY DEF PatchEmail
<1>3. LookedUp'
  <2> SUFFICES ASSUME NEW t \in Slot, req[t].at \in {"count", "insert"},
                      NEW j \in Live, SameAddress(contacts'[j], req[t].email)
               PROVE  contacts'[j][1] \in raced'
    BY <1>1 DEF LookedUp, SameAddress, Findable
  <2>1. CASE j = i
    BY <1>1, <1>2, <2>1 DEF Seekers
  <2>2. CASE j # i
    BY <1>1, <2>2 DEF Core, LookedUp
  <2> QED
    BY <2>1, <2>2
<1>4. OnlyRacesDuplicate'
  <2> SUFFICES ASSUME NEW j \in Live, NEW k \in Live, j # k,
                      Findable(contacts'[j]), Findable(contacts'[k]),
                      contacts'[j][1] = contacts'[k][1]
               PROVE  contacts'[j][1] \in raced'
    BY <1>1 DEF OnlyRacesDuplicate, Findable
  <2>1. CASE j # i /\ k # i
    BY <1>1, <2>1 DEF Core, OnlyRacesDuplicate
  <2>2. CASE j = i \/ k = i
    BY <1>1, <1>2, <2>2 DEF SameAddress, Findable
  <2> QED
    BY <2>1, <2>2
<1>5. Equipped' /\ PromisesKept'
  BY <1>1 DEF Core, Equipped, PromisesKept
<1> QED
  BY <1>3, <1>4, <1>5 DEF Core

LEMMA NextCore ==
  ASSUME TypeOK, Core, [Next]_vars
  PROVE  Core'
<1>1. ASSUME NEW s \in Slot, Statement(s) PROVE Core'
  BY <1>1, ResolveCampaignKeeps, FindKeeps, UpdateKeeps, CountKeeps, InsertKeeps,
     ResolveEntityKeeps, CampaignStepKeeps DEF Statement
<1>2. CASE UNCHANGED vars
  BY <1>2 DEF vars, Core, Equipped, LookedUp, SameAddress, Findable, OnlyRacesDuplicate,
              PromisesKept, Live
<1> QED
  BY <1>1, <1>2, ArriveKeeps, FailKeeps, CreateCampaignKeeps, DeleteContactKeeps,
     PatchEmailKeeps DEF Next

(***************************************************************************)
(* The limit.                                                              *)
(***************************************************************************)

LEMMA Sizes ==
  ASSUME NEW A \in SUBSET Ids, NEW B \in SUBSET Slot
  PROVE  /\ IsFiniteSet(A) /\ IsFiniteSet(B)
         /\ Cardinality(A) \in Nat /\ Cardinality(B) \in Nat /\ Cardinality(Slot) \in Nat
         /\ Cardinality(B) <= Cardinality(Slot)
BY FS_Subset, FS_CardinalityType, DirectoryAssumption

LEMMA LimitIsInt == Limit \in Int
<1>1. \A p \in Catalogue : Resolved(p) \in Int
  BY DirectoryAssumption DEF Resolved
<1>2. (IF Plan \in Catalogue THEN Plan ELSE DefaultPlan) \in Catalogue
  BY DirectoryAssumption
<1> QED
  BY <1>1, <1>2 DEF Limit, LimitsFor

\* Whoever is admitted now has counted just now, or was admitted before.
LEMMA OnlyCountAdmits ==
  ASSUME TypeOK, Core, NEW s \in Slot, Arrive(s) \/ Statement(s) \/ Fail(s), ~Count(s)
  PROVE  Admitted' \subseteq Admitted \ {s}
<1> SUFFICES /\ req'[s].at # "insert"
             /\ \A t \in Slot \ {s} : req'[t] = req[t]
  BY DEF Admitted
<1>1. CASE Arrive(s)
  BY <1>1, AskedFor
<1>2. CASE Done(s)
  BY <1>2, Ended DEF Steps
<1>3. ASSUME ResolveCampaign(s), ~Done(s)
      PROVE  req'[s].at # "insert" /\ \A t \in Slot \ {s} : req'[t] = req[t]
  <2> DEFINE at == CASE req[s].op = "delete"               -> "purge"
                     [] req[s].op \in {"attach", "detach"} -> "entity"
                     [] OTHER -> IF req[s].email = None THEN "count" ELSE "find"
  <2>1. at # "insert"
    OBVIOUS
  <2>2. Goto(s, at)
    BY <1>3 DEF ResolveCampaign
  <2>3. req[s] \in Request
    BY <1>3, ReqType DEF ResolveCampaign, Steps
  <2> HIDE DEF at
  <2> QED
    BY <2>1, <2>2, <2>3, MovedTo
<1>4. ASSUME Find(s), ~Done(s)
      PROVE  req'[s].at # "insert" /\ \A t \in Slot \ {s} : req'[t] = req[t]
  <2>1. req[s] \in Request
    BY <1>4, ReqType DEF Find, Steps
  <2>2. CASE Goto(s, "count")
    BY <2>1, <2>2, MovedTo
  <2>3. ASSUME NEW i, req' = [req EXCEPT ![s].at = "update", ![s].id = i]
        PROVE  req'[s].at # "insert" /\ \A t \in Slot \ {s} : req'[t] = req[t]
    <3>1. req' = [req EXCEPT ![s] = [req[s] EXCEPT !.at = "update", !.id = i]]
      BY <2>3
    <3>2. [req[s] EXCEPT !.at = "update", !.id = i].at = "update"
      BY <2>1 DEF Request
    <3> QED
      BY <3>1, <3>2, Others
  <2> QED
    BY <1>4, <2>2, <2>3 DEF Find
<1>5. ASSUME NEW i, Continue(s, i), req[s] \in Request
      PROVE  req'[s].at # "insert" /\ \A t \in Slot \ {s} : req'[t] = req[t]
  BY <1>5, Continued DEF Steps
<1>6. CASE Update(s)
  BY <1>2, <1>5, <1>6, ReqType DEF Update, Steps
<1>7. ASSUME NEW i \in Ids, Insert(s, i)
      PROVE  req'[s].at # "insert" /\ \A t \in Slot \ {s} : req'[t] = req[t]
  BY <1>5, <1>7, ReqType DEF Insert, Steps
<1>8. ASSUME ResolveEntity(s), ~Done(s)
      PROVE  req'[s].at # "insert" /\ \A t \in Slot \ {s} : req'[t] = req[t]
  <2>1. req[s] \in Request /\ Goto(s, req[s].op)
    BY <1>8, ReqType DEF ResolveEntity, Steps
  <2> QED
    BY <2>1, Fields, MovedTo
<1>9. CASE Purge(s)
  <2>1. req[s] \in Request /\ Goto(s, "drop")
    BY <1>9, ReqType DEF Purge, Steps
  <2> QED
    BY <2>1, MovedTo
<1>10. CASE Attach(s) \/ Detach(s) \/ Drop(s) \/ Fail(s)
  BY <1>2, <1>10 DEF Attach, Detach, Drop, Fail
<1> QED
  BY <1>1, <1>2, <1>3, <1>4, <1>6, <1>7, <1>8, <1>9, <1>10 DEF Statement

LEMMA NextLimit ==
  ASSUME TypeOK, TypeOK', Core, LimitOverrun, [Next]_vars
  PROVE  LimitOverrun'
<1>1. /\ Live \in SUBSET Ids /\ Live' \in SUBSET Ids
      /\ Admitted \in SUBSET Slot /\ Admitted' \in SUBSET Slot
  BY DEF TypeOK, Admitted
<1>2. /\ Cardinality(Live) \in Nat /\ Cardinality(Live') \in Nat
      /\ Cardinality(Admitted) \in Nat /\ Cardinality(Admitted') \in Nat
      /\ Cardinality(Admitted') <= Cardinality(Slot) /\ Cardinality(Slot) \in Nat
      /\ IsFiniteSet(Live) /\ IsFiniteSet(Admitted)
  BY <1>1, Sizes
<1>3. Limit \in Int
  BY LimitIsInt
<1>4. LimitOverrun' <=> (Limit >= 0 =>
        Cardinality(Live') + Cardinality(Admitted') < Limit + Cardinality(Slot))
  BY DEF LimitOverrun, Limit, LimitsFor, Resolved
<1>5. ASSUME Live' \subseteq Live, Admitted' \subseteq Admitted PROVE LimitOverrun'
  <2>1. /\ Cardinality(Live') <= Cardinality(Live)
        /\ Cardinality(Admitted') <= Cardinality(Admitted)
    BY <1>2, <1>5, FS_Subset
  <2> QED
    BY <1>2, <1>3, <1>4, <2>1 DEF LimitOverrun
<1>6. ASSUME NEW s \in Slot, Count(s) PROVE LimitOverrun'
  <2>1. Live' = Live /\ req[s] \in Request
    BY <1>6, ReqType DEF Count, Unchanged, Live, Steps
  <2>2. CASE UnderLimit(Cardinality(Live))
    BY <1>2, <1>3, <1>4, <2>1, <2>2 DEF UnderLimit
  <2>3. CASE Done(s)
    BY <1>5, <2>1, <2>3, Ended DEF Admitted, Steps
  <2> QED
    BY <1>6, <2>2, <2>3 DEF Count
<1>7. ASSUME NEW s \in Slot, NEW i \in Ids, Insert(s, i) PROVE LimitOverrun'
  <2>1. Admitted' \subseteq Admitted \ {s} /\ s \in Admitted
    BY <1>7, OnlyCountAdmits DEF Statement, Insert, Count, Admitted
  <2>2. i \notin Live /\ Live' = Live \cup {i}
    BY <1>7 DEF Insert, Live, TypeOK
  <2>3. Cardinality(Live') = Cardinality(Live) + 1
    BY <1>2, <2>2, FS_AddElement
  <2>4. Cardinality(Admitted \ {s}) = Cardinality(Admitted) - 1 /\ IsFiniteSet(Admitted \ {s})
    BY <1>2, <2>1, FS_RemoveElement
  <2>5. Cardinality(Admitted') <= Cardinality(Admitted \ {s})
    BY <2>1, <2>4, FS_Subset
  <2> QED
    BY <1>2, <1>3, <1>4, <2>3, <2>4, <2>5 DEF LimitOverrun
<1>8. ASSUME NEW s \in Slot, Arrive(s) \/ Statement(s) \/ Fail(s), ~Count(s),
             ~\E i \in Ids : Insert(s, i)
      PROVE  LimitOverrun'
  <2>1. Admitted' \subseteq Admitted
    BY <1>8, OnlyCountAdmits
  <2>2. CASE Unchanged
    BY <1>5, <2>1, <2>2 DEF Unchanged, Live
  <2>3. CASE Update(s)
    BY <1>5, <2>1, <2>3 DEF Update, Live
  <2>4. CASE Attach(s) \/ Detach(s) \/ Purge(s) \/ Drop(s) \/ Fail(s)
    BY <1>5, <2>1, <2>4 DEF Attach, Detach, Purge, Drop, Fail, Live
  <2> QED
    BY <1>8, <2>2, <2>3, <2>4, AskedFor DEF Statement, ResolveCampaign, Find, ResolveEntity
<1>9. ASSUME NEW c \in Campaigns, CreateCampaign(c) PROVE LimitOverrun'
  BY <1>5, <1>9 DEF CreateCampaign, Live, Admitted
<1>10. ASSUME NEW i \in Ids, DeleteContact(i) PROVE LimitOverrun'
  BY <1>5, <1>10 DEF DeleteContact, Live, Admitted
<1>11. ASSUME NEW i \in Ids, NEW e \in Email \cup {None}, PatchEmail(i, e) PROVE LimitOverrun'
  BY <1>5, <1>11 DEF PatchEmail, Live, Admitted
<1>12. CASE UNCHANGED vars
  BY <1>5, <1>12 DEF vars, Live, Admitted
<1> QED
  BY <1>6, <1>7, <1>8, <1>9, <1>10, <1>11, <1>12 DEF Next

(***************************************************************************)
(* The theorems.                                                           *)
(***************************************************************************)

LEMMA InitIInv == Init => IInv
<1> SUFFICES ASSUME Init PROVE IInv
  OBVIOUS
<1>1. Live = {} /\ Admitted = {}
  BY DEF Init, Live, Admitted, NoRequest
<1>2. TypeOK
  BY <1>1 DEF Init, TypeOK
<1>3. Core
  BY <1>1 DEF Init, Core, Equipped, LookedUp, OnlyRacesDuplicate, PromisesKept,
              NoRequest
<1>4. LimitOverrun
  <2>1. Cardinality(Slot) \in Nat /\ Cardinality(Slot) # 0 /\ Cardinality({}) = 0
    BY DirectoryAssumption, FS_CardinalityType, FS_EmptySet
  <2> QED
    BY <1>1, <2>1, LimitIsInt DEF LimitOverrun
<1> QED
  BY <1>2, <1>3, <1>4 DEF IInv

LEMMA NextIInv == IInv /\ [Next]_vars => IInv'
BY NextType, NextCore, NextLimit DEF IInv, Core

\* The tables and the locals of every request keep their types.
THEOREM TypeCorrect == Spec => []TypeOK
<1>1. IInv => TypeOK
  BY DEF IInv
<1> QED
  BY <1>1, InitIInv, NextIInv, PTL DEF Spec

\* Overlapping creates exceed a plan limit by less than the requests in flight.
THEOREM LimitsHold == Spec => []LimitOverrun
<1>1. IInv => LimitOverrun
  BY DEF IInv
<1> QED
  BY <1>1, InitIInv, NextIInv, PTL DEF Spec

\* Two contacts with one address, both stored so that an upsert can find them, come from
\* requests that overlapped, or from a PATCH to an address in use.
THEOREM DuplicatesAreRaced == Spec => []OnlyRacesDuplicate
<1>1. IInv => OnlyRacesDuplicate
  BY DEF IInv, Core
<1> QED
  BY <1>1, InitIInv, NextIInv, PTL DEF Spec

\* A confirmed attachment stays, with its campaign, until it is detached or the campaign
\* is gone, but for what a deletion took before it failed.
THEOREM AttachmentsStay == Spec => []PromisesKept
<1>1. IInv => PromisesKept
  BY DEF IInv, Core
<1> QED
  BY <1>1, InitIInv, NextIInv, PTL DEF Spec

============================================================================
