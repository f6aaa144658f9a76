----------------------------- MODULE Directory -----------------------------
(***************************************************************************)
(* Creating records: the upsert by natural key, the plan limit, and the    *)
(* campaigns records are attached to.                                      *)
(*                                                                         *)
(* The records are contacts with their email; companies with their domain  *)
(* take the same path, and deals, tickets, tasks and activities the path   *)
(* of a contact without email and campaign.  Handlers run in statements,   *)
(* which interleave and may fail.  An id is random and never reissued.     *)
(***************************************************************************)
EXTENDS Integers, FiniteSets

CONSTANTS
    Slot,       \* requests that can be in flight
    Ids,        \* ids of contacts; bound: a create needs a fresh one
    Addrs,      \* email addresses: what lower() and TrimSpace leave of the text
    Spellings,  \* the texts of an address: in upper or lower case, with spaces around it
    Padded,     \* the spellings with spaces around them
    Campaigns,  \* ids of campaigns; bound: as for Ids
    None,       \* no email (or a blank one), no campaign, no record yet
    Plan,       \* the workspace's plan, which the configuration may not know any more
    Catalogue,  \* the plans of the configuration
    Caps,       \* plan -> its max_contacts, where there is one; negative for unlimited
    DefaultPlan, DefaultCap

ASSUME DirectoryAssumption ==
    /\ IsFiniteSet(Slot) /\ Slot # {} /\ IsFiniteSet(Ids)
    /\ Padded \subseteq Spellings
    /\ DefaultPlan \in Catalogue /\ DOMAIN Caps \subseteq Catalogue
    /\ Caps \in [DOMAIN Caps -> Int] /\ DefaultCap \in Int
    /\ None \notin Addrs \X Spellings /\ None \notin Campaigns /\ None \notin Ids

VARIABLES
    contacts,   \* the table: id -> email, for the ids in use
    spent,      \* ids of contacts and campaigns ever issued
    campaigns,  \* rows of campaigns
    members,    \* rows of campaign_members: <<campaign, contact>>
    promised,   \* pairs whose attachment was confirmed, and since then neither
                \* detached nor deleted together with their campaign
    lost,       \* pairs a deletion took, to fail before it came to the campaign
    raced,      \* addresses that overlapping requests, or a PATCH, gave out twice
    req         \* the requests in flight: slot -> locals

vars == <<contacts, spent, campaigns, members, promised, lost, raced, req>>

----------------------------------------------------------------------------

\* applyDefaults gives a plan the caps it leaves out.
Resolved(plan) == IF plan \in DOMAIN Caps THEN Caps[plan] ELSE DefaultCap

LimitsFor(plan) == Resolved(IF plan \in Catalogue THEN plan ELSE DefaultPlan)
Limit == LimitsFor(Plan)

Email == Addrs \X Spellings
Steps == {"campaign", "find", "update", "count", "insert", "attach",
          "entity", "detach", "purge", "drop"}
Request == [at : Steps, op : {"create", "attach", "detach", "delete"}, id : Ids \cup {None},
            email : Email \cup {None}, campaign : Campaigns \cup {None}]
NoRequest == [at |-> "none"]

Live == DOMAIN contacts

TypeOK ==
    /\ Live \subseteq Ids /\ \A i \in Live : contacts[i] \in Email \cup {None}
    /\ spent \subseteq Ids \cup Campaigns
    /\ Live \cup campaigns \subseteq spent
    /\ campaigns \subseteq Campaigns
    /\ members \subseteq Campaigns \X Ids
    /\ promised \subseteq Campaigns \X Ids /\ lost \subseteq Campaigns \X Ids
    /\ raced \subseteq Addrs
    /\ req \in [Slot -> Request \cup {NoRequest}]

Init ==
    /\ contacts = [i \in {} |-> None]
    /\ spent = {} /\ campaigns = {} /\ members = {}
    /\ promised = {} /\ lost = {} /\ raced = {}
    /\ req = [s \in Slot |-> NoRequest]

----------------------------------------------------------------------------
(* Faulty variants of the definitions below, each a plausible slip in the  *)
(* code; no action uses them.                                              *)

\* The lookup is case-sensitive.
FoundAsSpelt(e) == {i \in Live : e \notin {None} \cup Addrs \X Padded /\ contacts[i] = e}

\* The limit is checked one too late.
AtMostLimit(n) == Limit < 0 \/ n <= Limit

\* campaign_members without its foreign key.
Unreferenced(c) == FALSE

\* The two ids of a member swapped.
MemberSwapped(c, i) == <<i, c>>

----------------------------------------------------------------------------
(* The statements.                                                         *)

\* A stored email that a lookup can find: the handlers trim what they look for and
\* store what was sent, so one stored with spaces around it equals nothing.
Findable(e) == e # None /\ e[2] \notin Padded

\* lower(email) = lower(?), of the stored email and the trimmed one that was sent.
SameAddress(stored, sent) == Findable(stored) /\ sent # None /\ stored[1] = sent[1]

\* FindContactByEmail, which the handler does not ask when the email is blank.
FoundBy(e) == {i \in Live : SameAddress(contacts[i], e)}

\* The requests that have looked for e in vain and not written yet.
Seekers(e) == {t \in Slot : req[t].at \in {"count", "insert"} /\ SameAddress(e, req[t].email)}

\* enforceWorkspaceQuota, given the COUNT.
UnderLimit(n) == Limit < 0 \/ n < Limit

\* INSERT INTO campaign_members (campaign_id, entity_id)
MemberRow(c, i) == <<c, i>>

\* The foreign key of campaign_members, on an INSERT there and a DELETE here.
Attachable(c) == c \in campaigns
Referenced(c) == \E m \in members : m[1] = c

Goto(s, at) == req' = [req EXCEPT ![s].at = at]
Done(s)     == req' = [req EXCEPT ![s] = NoRequest]

Unchanged == UNCHANGED <<contacts, spent, campaigns, members, promised, lost, raced>>

\* Confirmed attachments to c that a deletion of c has taken.
Taken(c) == {m \in promised : m[1] = c /\ m \notin members}

\* A write of the record, which the attachment to a campaign may follow.
Continue(s, i) ==
    req' = [req EXCEPT ![s] = IF @.campaign = None THEN NoRequest
                              ELSE [@ EXCEPT !.at = "attach", !.id = i]]

----------------------------------------------------------------------------
(* Requests arrive, and fail.                                              *)

Ask(s, op, e, c, i, at) ==
    /\ req[s] = NoRequest
    /\ req' = [req EXCEPT ![s] = [at |-> at, op |-> op, id |-> i, email |-> e, campaign |-> c]]
    /\ Unchanged

\* POST of a kind without a natural key.
AskKeyless(s) == Ask(s, "create", None, None, None, "count")

\* POST /contacts, with or without an email and ?campaign=.  The email goes as sent
\* into the row; the lookup's trimming is in SameAddress.
AskCreate(s, e, c) ==
    Ask(s, "create", e, c, None,
        IF c # None THEN "campaign" ELSE IF e # None THEN "find" ELSE "count")

\* POST and DELETE /campaigns/{id}/members, DELETE /campaigns/{id} (the confirmed
\* second call); the client has seen the campaign and the contact.
AskAttach(s, c, i) == c \in spent /\ i \in spent /\ Ask(s, "attach", None, c, i, "campaign")
AskDetach(s, c, i) == c \in spent /\ i \in spent /\ Ask(s, "detach", None, c, i, "campaign")
AskDelete(s, c)    == c \in spent /\ Ask(s, "delete", None, c, None, "campaign")

\* A statement returns an error, or the server dies.
Fail(s) ==
    /\ req[s] # NoRequest
    /\ lost' = IF req[s].at = "drop" THEN lost \cup Taken(req[s].campaign) ELSE lost
    /\ Done(s)
    /\ UNCHANGED <<contacts, spent, campaigns, members, promised, raced>>

----------------------------------------------------------------------------
(* POST /contacts.                                                         *)

\* campaignParam, or resolveID of /campaigns/{id}: 400 or 404 if there is none.
ResolveCampaign(s) ==
    /\ req[s].at = "campaign"
    /\ IF req[s].campaign \notin campaigns THEN Done(s)
       ELSE Goto(s, CASE req[s].op = "delete"               -> "purge"
                      [] req[s].op \in {"attach", "detach"} -> "entity"
                      [] OTHER -> IF req[s].email = None THEN "count" ELSE "find")
    /\ Unchanged

\* The upsert's lookup; two matches are a 409.
Find(s) ==
    /\ req[s].at = "find"
    /\ LET found == FoundBy(req[s].email) IN
       \/ Cardinality(found) > 1 /\ Done(s)
       \/ found = {} /\ Goto(s, "count")
       \/ \E i \in found : found = {i} /\ req' = [req EXCEPT ![s].at = "update", ![s].id = i]
    /\ Unchanged

\* UpdateContact of the match without a version; 500 if it is gone.  A match that was
\* given another email since, or spaces around it, makes the address a raced one.
Update(s) ==
    /\ req[s].at = "update"
    /\ LET i == req[s].id  e == req[s].email IN
       IF i \in Live
       THEN /\ contacts' = [contacts EXCEPT ![i] = e]
            /\ raced' = IF SameAddress(contacts[i], e) THEN raced ELSE raced \cup {e[1]}
            /\ Continue(s, i)
       ELSE UNCHANGED <<contacts, raced>> /\ Done(s)
    /\ UNCHANGED <<spent, campaigns, members, promised, lost>>

\* The COUNT of the plan limit: 403 once it is reached.
Count(s) ==
    /\ req[s].at = "count"
    /\ IF UnderLimit(Cardinality(Live)) THEN Goto(s, "insert") ELSE Done(s)
    /\ Unchanged

\* CreateContact.  Somebody else who has looked for the same address in vain, and
\* not written yet, makes the address a raced one.
Insert(s, i) ==
    /\ req[s].at = "insert"
    /\ i \in Ids \ spent
    /\ spent' = spent \cup {i}
    /\ LET e == req[s].email IN
       /\ contacts' = [j \in Live \cup {i} |-> IF j = i THEN e ELSE contacts[j]]
       /\ raced' = IF Seekers(e) \ {s} = {} THEN raced ELSE raced \cup {e[1]}
    /\ Continue(s, i)
    /\ UNCHANGED <<campaigns, members, promised, lost>>

----------------------------------------------------------------------------
(* Campaigns.                                                              *)

\* POST /campaigns.
CreateCampaign(c) ==
    /\ c \in Campaigns \ spent
    /\ spent' = spent \cup {c}
    /\ campaigns' = campaigns \cup {c}
    /\ UNCHANGED <<contacts, members, promised, lost, raced, req>>

\* ResolveHandle of the member: 400 or 404 if there is none.
ResolveEntity(s) ==
    /\ req[s].at = "entity"
    /\ IF req[s].id \in Live THEN Goto(s, req[s].op) ELSE Done(s)
    /\ Unchanged

\* AttachCampaignMember and the answer; 500 if the foreign key fails.
Attach(s) ==
    /\ req[s].at = "attach"
    /\ LET c == req[s].campaign  m == MemberRow(c, req[s].id) IN
       IF Attachable(c)
       THEN /\ members' = members \cup {m} /\ promised' = promised \cup {m}
            /\ lost' = lost \ {m}
       ELSE UNCHANGED <<members, promised, lost>>
    /\ Done(s)
    /\ UNCHANGED <<contacts, spent, campaigns, raced>>

Detach(s) ==
    /\ req[s].at = "detach"
    /\ LET m == <<req[s].campaign, req[s].id>> IN
       members' = members \ {m} /\ promised' = promised \ {m}
    /\ Done(s)
    /\ UNCHANGED <<contacts, spent, campaigns, lost, raced>>

\* DeleteCampaign, first statement.
Purge(s) ==
    /\ req[s].at = "purge"
    /\ members' = {m \in members : m[1] # req[s].campaign}
    /\ Goto(s, "drop")
    /\ UNCHANGED <<contacts, spent, campaigns, promised, lost, raced>>

\* DeleteCampaign, second statement: refused by the foreign key if a member was
\* attached in between (500), 404 if another request was faster.
Drop(s) ==
    /\ req[s].at = "drop"
    /\ LET c == req[s].campaign IN
       IF Referenced(c)
       THEN lost' = lost \cup Taken(c) /\ UNCHANGED <<campaigns, promised>>
       ELSE campaigns' = campaigns \ {c} /\ promised' = promised \ Taken(c) /\ UNCHANGED lost
    /\ Done(s)
    /\ UNCHANGED <<contacts, spent, members, raced>>

----------------------------------------------------------------------------
(* The other writes of contacts.                                           *)

\* DELETE /contacts/{id}; campaign_members does not reference contacts.
DeleteContact(i) ==
    /\ i \in Live
    /\ contacts' = [j \in Live \ {i} |-> contacts[j]]
    /\ UNCHANGED <<spent, campaigns, members, promised, lost, raced, req>>

\* PATCH /contacts/{id}, which writes the email it names or has read, and looks for no
\* other contact: an address that somebody has, or has looked for, becomes a raced one.
PatchEmail(i, e) ==
    /\ i \in Live
    /\ contacts' = [contacts EXCEPT ![i] = e]
    /\ raced' = IF Seekers(e) = {} /\ \A j \in Live \ {i} : ~SameAddress(e, contacts[j])
                THEN raced ELSE raced \cup {e[1]}
    /\ UNCHANGED <<spent, campaigns, members, promised, lost, req>>

Statement(s) ==
    \/ ResolveCampaign(s) \/ Find(s) \/ Update(s) \/ Count(s)
    \/ \E i \in Ids : Insert(s, i)
    \/ ResolveEntity(s) \/ Attach(s) \/ Detach(s) \/ Purge(s) \/ Drop(s)

Arrive(s) ==
    \/ AskKeyless(s)
    \/ \E e \in Email \cup {None}, c \in (Campaigns \cap spent) \cup {None} : AskCreate(s, e, c)
    \/ \E c \in Campaigns, i \in Ids : AskAttach(s, c, i) \/ AskDetach(s, c, i)
    \/ \E c \in Campaigns : AskDelete(s, c)

Next ==
    \/ \E s \in Slot : Arrive(s) \/ Statement(s) \/ Fail(s)
    \/ \E c \in Campaigns : CreateCampaign(c)
    \/ \E i \in Ids : DeleteContact(i) \/ \E e \in Email \cup {None} : PatchEmail(i, e)

Spec == Init /\ [][Next]_vars

----------------------------------------------------------------------------
(* Properties.                                                             *)

\* Requests about to insert: each was told that there is room.
Admitted == {s \in Slot : req[s].at = "insert"}

\* Overlapping creates may exceed the plan limit, by no more than the requests
\* that overlap: one at a time, the limit is kept.
LimitOverrun ==
    Limit >= 0 =>
        Cardinality(Live) + Cardinality(Admitted) < Limit + Cardinality(Slot)

\* Two contacts with one address, however it is spelt but both stored without spaces
\* around it, come only from requests that overlapped, or from a PATCH to an address
\* in use: no sequence of upserts, failures, retries and deletions makes them.
OnlyRacesDuplicate ==
    \A i, j \in Live :
        i # j /\ Findable(contacts[i]) /\ Findable(contacts[j]) /\ contacts[i][1] = contacts[j][1]
        => contacts[i][1] \in raced

\* A confirmed attachment stays, with its campaign, until it is detached or the campaign
\* is gone, whatever is attached, detached and deleted beside it and also when it falls
\* between the two statements of a deletion.  The one exception is a deletion that takes
\* the members and then fails: their campaign stays without them (lost).
PromisesKept ==
    \A m \in promised :
        /\ m[1] \in campaigns
        /\ \/ m \in members \cup lost
           \/ \E s \in Slot : req[s].at = "drop" /\ req[s].campaign = m[1]

============================================================================
