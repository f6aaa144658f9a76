------------------------------- MODULE Access -------------------------------
(***************************************************************************)
(* Who may act where: users, workspaces, memberships, invites and API      *)
(* tokens, and the handlers that change them.  Every handler runs in its   *)
(* own goroutine as a sequence of SQL statements (and a few transactions), *)
(* each atomic, with other handlers in between; a request is a slot that   *)
(* holds the handler's locals and the next statement it will run.          *)
(*                                                                         *)
(* Overlap tells whether a request may start while another is running:     *)
(* what the handlers promise one after the other, and what is left of it   *)
(* when they interleave.                                                   *)
(*                                                                         *)
(* Emailed codes are right or wrong by chance here.  Plan quotas, expiry   *)
(* of idle tokens and the audit log are left out.                          *)
(***************************************************************************)
EXTENDS Naturals, FiniteSets

CONSTANTS
    User,      \* people; an email address identifies a user
    Ws,        \* workspace ids (protocol.NewID: random, never reissued)
    Slot,      \* requests that can be in flight
    Op,        \* the handlers in play
    Offer,     \* the roles invitations are sent with, "" for none given
    Overlap,   \* may requests overlap?
    Null       \* an absent workspace id

Ops == {"login", "create", "mint", "revoke", "invite", "setrole", "remove",
        "delete", "ticket"}

ASSUME AccessAssumption ==
    /\ IsFiniteSet(User)
    /\ Op \subseteq Ops
    /\ Offer \subseteq {"admin", "member", ""}
    /\ Overlap \in BOOLEAN
    /\ Null \notin Ws

VARIABLES
    live,      \* rows of workspaces
    spent,     \* workspace ids generated so far
    kept,      \* workspaces that hold a ticket, a task or a campaign
    users,     \* rows of users
    default,   \* users.default_workspace_id (no foreign key), Null if unset
    role,      \* memberships: workspace -> user -> rank
    invites,   \* pending invites: workspace -> email -> rank
    tokens,    \* <<user, workspace>> where the user has an unrevoked token
    req        \* the requests in flight: slot -> locals

vars == <<live, spent, kept, users, default, role, invites, tokens, req>>

----------------------------------------------------------------------------

Roles  == {"admin", "member"}
Rank   == Roles \cup {"none"}
Nobody == [u \in User |-> "none"]

\* The statement a request runs next.
Steps == {"find", "provision", "pending", "accept", "clear", "heal", "adopt",
          "authorise", "stepup", "token", "revoke", "new", "invite", "role",
          "count", "update", "drop", "destroy", "ticket"}

Request == [op : Ops, at : Steps, user : User, ws : Ws \cup {Null}, target : User,
            role : Rank, pending : [Ws -> Rank]]
NoRequest == [op |-> "none"]

TypeOK ==
    /\ live \in SUBSET Ws /\ spent \in SUBSET Ws /\ kept \in SUBSET Ws
    /\ users \in SUBSET User
    /\ default \in [User -> Ws \cup {Null}]
    /\ role \in [Ws -> [User -> Rank]]
    /\ invites \in [Ws -> [User -> Rank]]
    /\ tokens \in SUBSET (User \X Ws)
    /\ req \in [Slot -> Request \cup {NoRequest}]

Init ==
    /\ live = {} /\ spent = {} /\ kept = {} /\ users = {} /\ tokens = {}
    /\ default = [u \in User |-> Null]
    /\ role = [w \in Ws |-> Nobody]
    /\ invites = [w \in Ws |-> Nobody]
    /\ req = [s \in Slot |-> NoRequest]

Admins(w) == {u \in User : role[w][u] = "admin"}

----------------------------------------------------------------------------
(* Faulty variants of the definitions below, each a plausible slip in the  *)
(* code; no action uses them.                                              *)

\* An invite stored with the role as it was sent.
RoleAsSent(sent) == sent

\* An off-by-one in the guard on the last admin.
LastAdminOffByOne(w) == Cardinality(Admins(w)) < 1

\* ON CONFLICT ... DO UPDATE SET role = excluded.role
JoinOverwrites(old, offered) == offered

\* DELETE FROM invites without its WHERE clause.
ClearEverybody(u) == [w \in Ws |-> Nobody]

\* A schema without REFERENCES workspaces(id).
AnyWorkspace(w) == w # Null

----------------------------------------------------------------------------
(* What the handlers are made of.                                          *)

\* The foreign key on workspaces(id), and the membership of a path workspace.
Exists(w) == w \in live

\* A token resolves: its row, the user's membership and the workspace.
Resolves(u, w) == <<u, w>> \in tokens /\ role[w][u] # "none" /\ w \in live

\* handleInvite: an omitted role is a member's.
OfferedRole(sent) == IF sent = "" THEN "member" ELSE sent

\* SetMemberRole and RemoveMember refuse when they count no second admin.
TooFewAdmins(w) == Cardinality(Admins(w)) <= 1

\* INSERT INTO memberships ... ON CONFLICT DO NOTHING
Join(old, offered) == IF old = "none" THEN offered ELSE old

\* DELETE FROM invites WHERE email = ?
Uninvited(u) == [w \in Ws |-> [invites[w] EXCEPT ![u] = "none"]]

\* UPDATE users SET default_workspace_id = NULL WHERE default_workspace_id = ?
DefaultsWithout(w) == [u \in User |-> IF default[u] = w THEN Null ELSE default[u]]

\* INSERT INTO workspaces and the creator's membership, one transaction.
Found(u, w) ==
    /\ w \in Ws \ spent
    /\ live' = live \cup {w}
    /\ spent' = spent \cup {w}
    /\ role' = [role EXCEPT ![w][u] = "admin"]

Goto(s, at) == req' = [req EXCEPT ![s].at = at]
Done(s)     == req' = [req EXCEPT ![s] = NoRequest]

\* Where a login goes once the invites are dealt with.
AfterInvites(w) == IF w = Null THEN "heal" ELSE "token"

\* Where a request goes once it may act on the path workspace.
AfterAuthorise(q) ==
    CASE q.op = "mint"                           -> "token"
      [] q.op = "invite"                         -> "invite"
      [] q.op = "setrole" /\ q.role = "admin"    -> "stepup"
      [] q.op = "delete"                         -> "stepup"
      [] OTHER                                   -> "role"

AfterGuard(op) == IF op = "remove" THEN "drop" ELSE "update"

Ask(op, at, u, w, t, r) ==
    [op |-> op, at |-> at, user |-> u, ws |-> w, target |-> t, role |-> r,
     pending |-> [v \in Ws |-> "none"]]

\* The requests user u may send; the path workspace is any id ever issued.
Calls(u) ==
    {Ask("create", "new", u, Null, u, "none")}
      \cup {Ask("revoke", "revoke", u, w, u, "none") : w \in {v \in Ws : <<u, v>> \in tokens}}
      \cup {Ask("ticket", "ticket", u, w, u, "none") : w \in {v \in Ws : Resolves(u, v)}}
      \cup {Ask(op, "authorise", u, w, u, "none") : op \in {"mint", "delete"}, w \in spent}
      \cup {Ask("invite", "authorise", u, w, t, OfferedRole(sent)) :
              w \in spent, t \in User, sent \in Offer}
      \cup {Ask("setrole", "authorise", u, w, t, r) : w \in spent, t \in users, r \in Roles}
      \cup {Ask("remove", "authorise", u, w, t, "none") : w \in spent, t \in users}

----------------------------------------------------------------------------
(* Requests arrive and fail.                                               *)

Free(s) == req[s] = NoRequest /\ (Overlap \/ \A x \in Slot : req[x] = NoRequest)

\* ResolveToken: whoever holds a token that resolves may send any request.
Call(s) ==
    /\ Free(s)
    /\ \E u \in users :
         /\ \E w \in Ws : Resolves(u, w)
         /\ \E q \in Calls(u) : q.op \in Op /\ req' = [req EXCEPT ![s] = q]
    /\ UNCHANGED <<live, spent, kept, users, default, role, invites, tokens>>

\* A login whose code was just verified; an OAuth sign-in runs the same steps
\* and stops before the token.
Login(s) ==
    /\ Free(s)
    /\ "login" \in Op
    /\ \E u \in User :
         req' = [req EXCEPT ![s] = Ask("login", "find", u, Null, u, "none")]
    /\ UNCHANGED <<live, spent, kept, users, default, role, invites, tokens>>

\* A statement fails, or the server dies: what ran before stays.
Fail(s) ==
    /\ req[s] # NoRequest
    /\ Done(s)
    /\ UNCHANGED <<live, spent, kept, users, default, role, invites, tokens>>

----------------------------------------------------------------------------
(* Login: GetOrCreateIdentity, then a token for the default workspace.     *)

FindUser(s) ==
    LET q == req[s] IN
    /\ q # NoRequest /\ q.at = "find"
    /\ req' = IF q.user \in users
              THEN [req EXCEPT ![s] = [q EXCEPT !.at = "pending", !.ws = default[q.user]]]
              ELSE [req EXCEPT ![s].at = "provision"]
    /\ UNCHANGED <<live, spent, kept, users, default, role, invites, tokens>>

\* First sight: one transaction, refused if the user has appeared meanwhile.
Provision(s) ==
    LET q == req[s] IN
    /\ q # NoRequest /\ q.at = "provision"
    /\ \/ /\ q.user \notin users
          /\ \E w \in Ws :
               /\ Found(q.user, w)
               /\ users' = users \cup {q.user}
               /\ default' = [default EXCEPT ![q.user] = w]
               /\ req' = [req EXCEPT ![s] = [q EXCEPT !.at = "pending", !.ws = w]]
       \/ /\ q.user \in users
          /\ Done(s)
          /\ UNCHANGED <<live, spent, users, default, role>>
    /\ UNCHANGED <<kept, invites, tokens>>

\* acceptInvites: the SELECT, one INSERT per row, the DELETE.
ReadInvites(s) ==
    LET q == req[s]
        found == [w \in Ws |-> invites[w][q.user]] IN
    /\ q # NoRequest /\ q.at = "pending"
    /\ req' = [req EXCEPT ![s] =
                 IF \A w \in Ws : found[w] = "none"
                 THEN [q EXCEPT !.at = AfterInvites(q.ws)]
                 ELSE [q EXCEPT !.at = "accept", !.pending = found]]
    /\ UNCHANGED <<live, spent, kept, users, default, role, invites, tokens>>

AcceptInvite(s) ==
    LET q == req[s] IN
    /\ q # NoRequest /\ q.at = "accept"
    /\ \E w \in Ws :
         /\ q.pending[w] # "none"
         /\ \/ /\ Exists(w)
               /\ role' = [role EXCEPT ![w][q.user] = Join(@, q.pending[w])]
               /\ req' = [req EXCEPT ![s] =
                            [q EXCEPT !.pending = [@ EXCEPT ![w] = "none"],
                                      !.at = IF \A v \in Ws \ {w} : q.pending[v] = "none"
                                             THEN "clear" ELSE "accept"]]
            \/ /\ ~Exists(w)
               /\ Done(s)
               /\ UNCHANGED role
    /\ UNCHANGED <<live, spent, kept, users, default, invites, tokens>>

ClearInvites(s) ==
    LET q == req[s] IN
    /\ q # NoRequest /\ q.at = "clear"
    /\ invites' = Uninvited(q.user)
    /\ Goto(s, AfterInvites(q.ws))
    /\ UNCHANGED <<live, spent, kept, users, default, role, tokens>>

\* Self-heal of a user whose default workspace was deleted: CreateWorkspace,
\* then the UPDATE of the user's row.
Heal(s) ==
    LET q == req[s] IN
    /\ q # NoRequest /\ q.at = "heal"
    /\ \E w \in Ws : /\ Found(q.user, w)
                     /\ req' = [req EXCEPT ![s] = [q EXCEPT !.at = "adopt", !.ws = w]]
    /\ UNCHANGED <<kept, users, default, invites, tokens>>

AdoptDefault(s) ==
    LET q == req[s] IN
    /\ q # NoRequest /\ q.at = "adopt"
    /\ default' = [default EXCEPT ![q.user] = q.ws]
    /\ Goto(s, "token")
    /\ UNCHANGED <<live, spent, kept, users, role, invites, tokens>>

----------------------------------------------------------------------------
(* The handlers behind a token.                                            *)

\* requireRole: the caller's role in the path workspace.
Authorise(s) ==
    LET q == req[s]
        rank == role[q.ws][q.user] IN
    /\ q # NoRequest /\ q.at = "authorise"
    /\ IF rank = "admin" \/ (q.op = "mint" /\ rank # "none")
       THEN Goto(s, AfterAuthorise(q))
       ELSE Done(s)
    /\ UNCHANGED <<live, spent, kept, users, default, role, invites, tokens>>

\* requireEscalation: without the right code the request ends here.
StepUp(s) ==
    LET q == req[s] IN
    /\ q # NoRequest /\ q.at = "stepup"
    /\ \/ Goto(s, IF q.op = "delete" THEN "destroy" ELSE "role")
       \/ Done(s)
    /\ UNCHANGED <<live, spent, kept, users, default, role, invites, tokens>>

\* CreateToken, for a login and for POST /workspaces/{id}/tokens.
MintToken(s) ==
    LET q == req[s] IN
    /\ q # NoRequest /\ q.at = "token"
    /\ \/ Exists(q.ws) /\ tokens' = tokens \cup {<<q.user, q.ws>>}
       \/ ~Exists(q.ws) /\ UNCHANGED tokens
    /\ Done(s)
    /\ UNCHANGED <<live, spent, kept, users, default, role, invites>>

\* RevokeUserToken, of the last token for a workspace or one of several.
RevokeToken(s) ==
    LET q == req[s] IN
    /\ q # NoRequest /\ q.at = "revoke"
    /\ tokens' \in {tokens, tokens \ {<<q.user, q.ws>>}}
    /\ Done(s)
    /\ UNCHANGED <<live, spent, kept, users, default, role, invites>>

NewWorkspace(s) ==
    LET q == req[s] IN
    /\ q # NoRequest /\ q.at = "new"
    /\ \E w \in Ws : Found(q.user, w)
    /\ Done(s)
    /\ UNCHANGED <<kept, users, default, invites, tokens>>

\* CreateInvite: a later invite of the same email replaces the role.
StoreInvite(s) ==
    LET q == req[s] IN
    /\ q # NoRequest /\ q.at = "invite"
    /\ \/ Exists(q.ws) /\ invites' = [invites EXCEPT ![q.ws][q.target] = q.role]
       \/ ~Exists(q.ws) /\ UNCHANGED invites
    /\ Done(s)
    /\ UNCHANGED <<live, spent, kept, users, default, role, tokens>>

\* SetMemberRole and RemoveMember: read the role, count the admins if one is
\* about to go, write.
ReadRole(s) ==
    LET q == req[s]
        current == role[q.ws][q.target] IN
    /\ q # NoRequest /\ q.at = "role"
    /\ \/ current = "none" /\ Done(s)
       \/ current = "admin" /\ q.role # "admin" /\ Goto(s, "count")
       \/ /\ current = "member" \/ (current = "admin" /\ q.role = "admin")
          /\ Goto(s, AfterGuard(q.op))
    /\ UNCHANGED <<live, spent, kept, users, default, role, invites, tokens>>

CountAdmins(s) ==
    LET q == req[s] IN
    /\ q # NoRequest /\ q.at = "count"
    /\ IF TooFewAdmins(q.ws) THEN Done(s) ELSE Goto(s, AfterGuard(q.op))
    /\ UNCHANGED <<live, spent, kept, users, default, role, invites, tokens>>

UpdateRole(s) ==
    LET q == req[s] IN
    /\ q # NoRequest /\ q.at = "update"
    /\ role' = [role EXCEPT ![q.ws][q.target] = IF @ = "none" THEN "none" ELSE q.role]
    /\ Done(s)
    /\ UNCHANGED <<live, spent, kept, users, default, invites, tokens>>

DropMember(s) ==
    LET q == req[s] IN
    /\ q # NoRequest /\ q.at = "drop"
    /\ role' = [role EXCEPT ![q.ws][q.target] = "none"]
    /\ Done(s)
    /\ UNCHANGED <<live, spent, kept, users, default, invites, tokens>>

\* DeleteWorkspace, one transaction.  It does not delete tickets, tasks or
\* campaigns, whose foreign keys then roll it back.
DropWorkspace(s) ==
    LET w == req[s].ws IN
    /\ req[s] # NoRequest /\ req[s].at = "destroy"
    /\ \/ /\ w \in live \ kept
          /\ live' = live \ {w}
          /\ role' = [role EXCEPT ![w] = Nobody]
          /\ invites' = [invites EXCEPT ![w] = Nobody]
          /\ tokens' = {t \in tokens : t[2] # w}
          /\ default' = DefaultsWithout(w)
       \/ /\ w \notin live \ kept
          /\ UNCHANGED <<live, default, role, invites, tokens>>
    /\ Done(s)
    /\ UNCHANGED <<spent, kept, users>>

\* Tickets, tasks and campaigns come (by foreign key, into a workspace that
\* exists) and go.
WriteTickets(s) ==
    LET w == req[s].ws IN
    /\ req[s] # NoRequest /\ req[s].at = "ticket"
    /\ \/ Exists(w) /\ kept' = kept \cup {w}
       \/ kept' = kept \ {w}
    /\ Done(s)
    /\ UNCHANGED <<live, spent, users, default, role, invites, tokens>>

----------------------------------------------------------------------------

LoginStep(s) ==
    \/ FindUser(s) \/ Provision(s) \/ ReadInvites(s) \/ AcceptInvite(s)
    \/ ClearInvites(s) \/ Heal(s) \/ AdoptDefault(s)

CallStep(s) ==
    \/ Authorise(s) \/ StepUp(s) \/ MintToken(s) \/ RevokeToken(s)
    \/ NewWorkspace(s) \/ StoreInvite(s) \/ ReadRole(s) \/ CountAdmins(s)
    \/ UpdateRole(s) \/ DropMember(s) \/ DropWorkspace(s) \/ WriteTickets(s)

Next == \E s \in Slot : Call(s) \/ Login(s) \/ Fail(s) \/ LoginStep(s) \/ CallStep(s)

Spec == Init /\ [][Next]_vars

----------------------------------------------------------------------------
(* Properties.                                                             *)

\* A workspace always has someone who can manage it: removals and demotions
\* stop at the last admin, and no login, invite or failure takes one away.
EveryWorkspaceHasAdmin == \A w \in live : Admins(w) # {}

\* A pending invite ends as a membership or with its workspace, never unused.
InvitesConsumed ==
    [][\A w \in live', u \in User :
         invites[w][u] # "none" /\ invites'[w][u] = "none" => role'[w][u] # "none"]_vars

\* No membership, invite or token, and no ticket, task or campaign, is left of a
\* deleted workspace or joins it later, not even through requests that were
\* authorised before it went.  The codes and refresh tokens of its connectors and
\* late audit entries reference no workspace; they are not in the model, and stay.
AccessEndsWithWorkspace ==
    \A w \in Ws \ live :
      /\ role[w] = Nobody /\ invites[w] = Nobody /\ w \notin kept
      /\ \A u \in User : <<u, w>> \notin tokens

\* The token a login mints can be used (sqlite.go, GetOrCreateIdentity: "so
\* login can always mint a usable token").
LoginTokenUsable ==
    [][\A s \in Slot : MintToken(s) /\ req[s].op = "login" /\ Exists(req[s].ws)
         => role[req[s].ws][req[s].user] # "none"]_vars

\* DELETE /workspaces/{id}, once authorised and confirmed, deletes the
\* workspace (agent.md: "delete the workspace + all its data").
ConfirmedDeleteDeletes == [][\A s \in Slot : DropWorkspace(s) => req[s].ws \notin live']_vars

=============================================================================
