# crmkit: specification and verification

This directory holds TLA+ models of crmkit, the TLC configurations that check
them on small instances, and proofs that TLAPS checks. Paths below are relative
to `src/internal/` unless they start with `cmd/`.

    tlc -workers 2 -config MCRecords.cfg MCRecords       # one run
    tlapm RecordsProofs.tla                              # the proofs of one component

## 1. The system

crmkit is a CRM server for agents: one Go process (or several, over one
Postgres) that serves an HTTP API and an MCP endpoint, over SQLite or Postgres.
It has no internal state machine of its own. **All shared state is in the
database**, apart from the in-memory rate limiter and the time of the last audit
sweep; every request runs in its own goroutine, as a sequence of SQL statements
with nothing held in between. Only four places open a transaction: provisioning a
user, creating a workspace, deleting a workspace, and each migration. Everything
that can go wrong is therefore in what happens *between* the statements of a
handler: another handler, a failed statement, time, or the death of the process.
The models take exactly that view: one statement (or transaction) is one action, a
handler is a program counter and its locals, and handlers interleave.

SQLite serialises writers and Postgres runs each statement at READ COMMITTED, so
a single statement is atomic in both and no snapshot outlives it. Where the two
databases differ in what the models tell apart (NULL in a sort, locks of a
migration), the model has a `dialect`.

### Inventory

| Component | State | Operations | What is hard | What makes it correct |
|---|---|---|---|---|
| **CRM records** (`store/crm.go`, `server/handlers_crm.go`) | one table per kind; each row has a `version` | POST, GET, list, PATCH, DELETE with a confirm token | a PATCH is read, UPDATE, probe or reload; the version in the WHERE clause is the only protection between them | a versioned PATCH never overwrites a change its agent did not see; answers stay true; committed updates are audited |
| **Activities** (`store/crm.go`, `server/query.go`) | `activities`, whose links are columns without foreign keys | log with cross-links, delete, timelines, counts and principals on list pages | a link that cannot be resolved is stored as it was sent; a page, its counts and its principals are three statements | a timeline has exactly the activities of its record; a page agrees with its own figures |
| **Identity, workspaces, tokens** (`store/sqlite.go`, `store/memberships.go`, `server/handlers_workspace.go`, `handlers_tokens.go`) | users, workspaces, memberships, invites, tokens, `default_workspace_id` | login, create/delete workspace, invite, set role, remove member, mint/revoke token | check-then-act on the number of admins; login is up to seven statements; a default with no foreign key | a workspace keeps an admin; a login ends in a usable token; invites are not lost; access to a workspace ends with it |
| **One-time codes and sign-in** (`store/sqlite.go`, `store/escalation.go`, `server/handlers_auth.go`, `handlers_oauth.go`, `auth/loginticket.go`) | one row per email (login) or per user, action and target (step-up): expiry, attempts; a login ticket in the page | issue, mail, verify, pick a workspace | select, compare, count and delete are separate statements | a bounded number of guesses per code; a code is accepted once; a person who keeps trying gets in |
| **OAuth server** (`store/oauth.go`, `server/handlers_oauth.go`, `auth/pkce.go`) | clients, auth codes, refresh tokens, the access token each refresh is paired with | register, authorize, exchange, refresh, revoke | consuming, revoking and issuing are separate, and a failed revocation is only logged | codes and refresh tokens are used once; a chain never forks; at most one live access token per connection |
| **Upsert, quotas, campaigns** (`server/quota.go`, `store/plan.go`, `store/campaign.go`) | the plan of an account, counts of rows, `campaign_members` | upsert by natural key, create under a limit, attach, detach, delete a campaign | find, count and insert are three statements; a campaign is deleted in two | by how much a limit can be exceeded; who can duplicate an address; what a confirmed attachment is worth |
| **Rate limiter** (`ratelimit/`) | a token bucket per key, in memory or in Redis | allow, sweep, expire | sweeping and expiry against refill; clocks that run behind | it cannot be told from a bucket that is never dropped |
| **Migrations** (`store/migrate.go`, `cmd/crmkitd/`) | `schema_migrations`, the schema, the data that one version moves | apply, status, start-up gate | crash between statements, two migrators, old servers that still write | a version takes effect once, in order, as a whole; no follow-up is lost; all get applied in the end |
| **Query, listing, pagination** (`store/query.go`, `server/query.go`) | none; a cursor in the client | filter, sort, keyset pages | other agents write between two pages; NULL in the sort column | a walk misses nothing that stayed put, repeats nothing, and ends |
| **Audit log** (`server/server.go`, `store/crm.go`) | audit rows; `lastAuditPrune` of a process | append after a change, throttled sweep per plan | no timer; plans change; a sweep may die half-way | entries live for the retention of their plan, and not for ever |
| **MCP endpoint** (`server/handlers_mcp.go`, `mcp_tools.go`) | none | dispatches tool calls in process to the HTTP handlers | nothing beyond the handlers | |
| **Rendering, localisation, protocol** (`render/`, `protocol/`, `server/diff.go`, `localize.go`) | none | formatting | | |
| **Mail, configuration, lifecycle** (`auth/mailer.go`, `auth/ses.go`, `config/`, `cmd/crmkitd/main.go`) | none shared | I/O | | |

How they interact: every authenticated request goes through the rate limiter,
then `ResolveToken` (tokens joined with memberships and workspaces), then the
quota check, then its handler; a login goes from one-time codes (behind a limiter
of their own) to identity (`GetOrCreateIdentity`) to tokens; the pages of a
connector go from the same codes to a consent, which is where OAuth begins; role
changes and workspace deletion ask one-time codes for a step-up; creating a record
asks the plan for its limit; every write appends to the audit log, and every audited
request may start its sweep.

## 2. Modules

| Module | Models | Role |
|---|---|---|
| `RecordStore` | - | abstract specification: an atomic compare-and-set store |
| `Records` | records and their handlers, statement by statement | detailed specification, implements `RecordStore` |
| `RecordsProofs` | - | the theorems about `Records` and `AuditLog` |
| `Access` | users, workspaces, memberships, invites, tokens and their handlers, statement by statement | |
| `AccessProofs` | - | the theorems about `Access` |
| `Chain` | - | abstract specification: a chain of single-use grants |
| `OAuth` | authorization codes, refresh tokens, the access tokens they give, and their handlers | detailed specification, implements `Chain` |
| `OAuthProofs` | - | the theorems about `OAuth` |
| `TokenBucket` | - | abstract specification: a bucket that fills with every tick and is never dropped |
| `RateLimit` | the limiter in memory and in Redis | detailed specification, implements `TokenBucket` |
| `RateLimitProofs` | - | the theorems about `RateLimit` |
| `SignIn` | one-time codes, the login ticket, and the limiter in front of them | composed with `TokenBucket` |
| `SignInProofs` | - | the theorems about `SignIn` |
| `Listing` | filters, sorts, keyset pages and a client that walks through them | |
| `ListingProofs` | - | the theorems about `Listing` and `Timeline` |
| `Directory` | creating records: upsert, plan limit, campaigns | |
| `DirectoryProofs` | - | the theorems about `Directory` |
| `Timeline` | activities, their links, timelines, and what list pages derive from them | |
| `Migrations` | `crmkitd migrate --execute`, the start-up gate, the servers beside it | |
| `MigrationsProofs` | - | the theorems about `Migrations` |
| `AuditLog` | the audit log and its retention sweep | |
| `MC...` | - | bounds, and symmetry where it is sound, for TLC |

`RecordsProofs` and `ListingProofs` extend two components each, which share no variable;
`AuditLog` and `Timeline` therefore have names of their own for what the others call
`TypeOK`, `Init`, `Next`, `Spec` and `vars` (`AuditTypeOK`, `TimelineInit`, ...).

Each module that models code has a part named "Faulty variants": plausible slips in
the definitions that follow. No action uses them; each property of each run is known
to fail when one of them takes the place of the definition it is a variant of.

Kinds that share the shape of their code share a definition, whose entry in `map` names
the lines of one of them: contacts, companies, deals, tickets, tasks and campaigns are
read, merged, written and listed alike (`Merge` is `handleUpdateCompany`'s, `Overwrite`
`UpdateDeal`'s, `FirstPage` that of `QueryContacts` and `QueryCompanies`, `Find` that of
companies), and the versions v4 to v14 of the schema succeed alike (`Succeeds`).

### `Records`

`rows` is the table of one record kind (the six kinds share the same
read-merge-update-reload code; a row of version 0 is "no row"), `pc` and `req`
are the locals of each agent's PATCH handler, `held` is what the agent last
learnt of each record and the version it may send as `If-Match`, `answer` the
outcome of its last request, `audited` the number of `*.update` audit entries, and
`owed`, a history variable, the number of those that a failure kept from the log.
POST, GET and DELETE are one statement each. PATCH is

    PatchRead   SELECT the row, decode the body onto it
    PatchWrite  UPDATE ... WHERE id = ? AND (? <= 0 OR version = ?)   } one of
    PatchMiss   the same UPDATE touching no row                       } the two
    PatchCheck  after a miss: SELECT version, 412 or 404
    PatchReload after a write: SELECT version, audit entry (or its failure), response

`Fail` ends a request before any of its statements, the first included. It is an error,
which the handler answers with a 500, or with a 404 if it met the lookup of the handle
(`resolveID` does not look at the error), and it is the death of the process. Nothing is
rolled back: after the UPDATE the change stands without an audit entry. A failed INSERT
of the entry is only logged (`LoseEntry`).

`held[a][i].via` remembers whether a view came from one SELECT (`"read"`) or
from a PATCH response (`"update"`), which pairs the columns the handler wrote
with a version read *afterwards*.

Abstractions: a column holds one of a small set of values; the handle of a record
is its id; the delete confirm token is stateless, so DELETE is its second call; the
audit entries of POST and DELETE are not counted; references between records are left
out; activities are in `Timeline`, campaigns in `Directory`. A body that names `id`
is not considered.

### `Access`

A request is a slot with the handler's locals (`op`, the caller, the path
workspace, the target, the rank, the invites a login has read) and `at`, the
statement it runs next. `Fail` ends a request between any two statements and
stands both for a statement that errors and for a crash: nothing is rolled back
but the transactions, which are single actions (`Provision`, `NewWorkspace`,
`Heal`'s CreateWorkspace, `DropWorkspace`). `Overlap = FALSE` runs requests one
after the other (still with failures in between), `TRUE` lets slots interleave;
`Op` says which handlers take part, `Offer` the roles invites are sent with (""
for none, which `handleInvite` reads as a member).

    login    FindUser, [Provision], ReadInvites, [AcceptInvite*, ClearInvites], [Heal, AdoptDefault], MintToken
    setrole  Authorise, [StepUp], ReadRole, [CountAdmins], UpdateRole
    remove   Authorise, ReadRole, [CountAdmins], DropMember
    delete   Authorise, StepUp, DropWorkspace
    invite   Authorise, StoreInvite         mint    Authorise, MintToken
    create   NewWorkspace                   revoke  RevokeToken
    ticket   WriteTickets (any write of a ticket, a task or a campaign)

Abstractions: a user is their email; `tokens` holds a pair for each user and
workspace with at least one unrevoked token, so revoking may or may not empty it;
`kept` is the set of workspaces with a ticket, a task or a campaign, the tables
`DeleteWorkspace` does not clear; whether an emailed code is right is a choice
(`StepUp`, `Login`; `SignIn` is about the codes); plan quotas, idle expiry, the
timezone and the audit entries are left out. A workspace id is random and never
reissued: `spent` keeps the ids used, and when all of `Ws` are spent no more
workspaces are created (the bound of the instance).

### `OAuth`

A *connection* is one consent of a user to one client. `grants` holds the rows of
`oauth_codes` and `oauth_refresh_tokens`, numbered per connection: grant 0 is the
code, grant g > 0 the refresh token stored after access token g was minted.
`paired` is the column `access_token_hash`, `access` the unrevoked access tokens,
`sent` the grants a client has ever been given and may replay at any time, and
`missed` the access tokens whose revocation failed and was only logged.

    authorize  Authorize (PutAuthCode and the redirect)
    token      AskTokens, Consume, [Supersede], Mint, StoreRefresh
    revoke     AskRevoke, RevokeAccess, RevokeRefresh
    logout     LogOut                       time      Expire

`Consume` is `DELETE ... RETURNING`: the row is gone even if it turns out expired
or another client's. `Supersede` has the code's two outcomes, a revocation and an
error that is logged while the handler goes on. `Fail` ends a request before any
statement, as in `Access`.

Abstractions: a token and its hash are one number; whether `client_id`,
`redirect_uri` and the PKCE verifier fit is a choice (`match`); idle expiry,
deleted workspaces and lost memberships would only make fewer access tokens live
and are left out; a failed statement of `handleOAuthRevoke` is one that changed
nothing; client registration is not in the model; the sign-in pages and the login
ticket come before the consent and are in `SignIn`.

### `SignIn`

One row of `otps` (an email) or `escalations` (a user, an action and a target), and
every request that touches it: those of the person who wants to sign in, and those of
anybody else who types the same address. `kind` is what the code is for: a login, a
connector's sign-in page, or a step-up.

    ask     AskCode (limiter), Put, Mail
    verify  SendCode (limiter), Select, then one of  Purge | Miss | Consume -> Grant
    choose  Choose, Member, Grant               (connect: the consent page)
    time    Tick        trouble  Fail, Crash, a lost mail, a DELETE or UPDATE whose error is ignored

A code is not kept; a request remembers whether its code is the one issued last
(`"current"`) or an older one, and `Put` turns every current code into an old one.
After `Select` the slot remembers which code it *read*, because what follows acts on
whatever row is there by then. `misses`, `uncounted`, `uses` and `raced` are about the
current code only. The limiter is the abstract `TokenBucket`, which `RateLimit`
implements; a step-up has no limiter of its own. `MaxTrouble` bounds everything that
is not the person doing the right thing.

Abstractions: the session a code gives is in `Access`, the grant in `OAuth`; which
workspaces the picker shows is left out (`Member` may refuse).

### `RateLimit`

`buckets` has the bucket of each key, `swept` is `lastSweep`. Moments are kept as
ages, so that nothing grows: `age` is how long ago, by the true clock, the time stamp
of the bucket was current; `idle` is how long ago it was written. A caller's clock is
late by `d`: in memory because `Allow` reads it before it takes the mutex (up to
`MaxLag`), in Redis because replicas' clocks differ (up to `MaxSkew`). A unit of
tokens is what a bucket gains per tick. `MemoryAllow` is the whole of `Allow`, sweep
included; `RedisAllow` the script; `FailOpen` the error paths, with and without the
script having run; `Expire` Redis's own TTL.

Abstractions: rounding of floats, and a limiter with a rate of zero, which allows
everything.

### `Listing`

One client walks through one list: `order` and `filter` are what it began with,
`cursor` what it holds, `seen` what it was given, `stable` the rows that match since
the walk began and kept their sort key, `swapped` the pairs that came on two pages
against the order of the sort. A page is `FirstPage` or `NextPage` (parsing, the
SELECT of limit + 1 rows and the cursor) and `CountAndRespond`; the other agents
`Create`, `Patch` and `Delete` in between. The table is `tasks`, whose `due_at` is the
one sort column that may be NULL. Both the sort and the limit of every request are a
choice: a cursor carries its sort, and `sort=` is ignored with it.

Abstractions: text columns compare as numbers; of several filters one stands for
their conjunction; search, tags and the escaping of LIKE patterns are left out.

### `Directory`

Contacts with their email (companies with their domain take the same path, the other
kinds the path without a key), `campaigns` and `campaign_members`. A request is a slot
with its locals, as in `Access`; any statement may fail, which ends it.

    create  [ResolveCampaign], [Find], Update | Count, Insert, [Attach]
    attach  ResolveCampaign, ResolveEntity, Attach     detach  the same, Detach
    delete  ResolveCampaign, Purge, Drop               beside  DeleteContact, PatchEmail, CreateCampaign

An email is a pair of an address and its spelling. The spellings differ in case, which
`lower(email) = lower(?)` ignores, and in spaces around the address (`Padded`): the
handlers trim what they look for and store what was sent, so `SameAddress` never holds of
an email stored with spaces (`Findable`). A blank email is none, as it is for the handler.
`promised`, `lost` and `raced` are history: attachments that were confirmed and neither
detached nor deleted together with their campaign, those of them that a deletion took
before it failed, and addresses that overlapping requests, or a PATCH to one in use, gave
out twice. `Purge` alone takes nothing back from `promised`. How a
limit comes about (`LimitsFor`: a plan the configuration does not know, a plan that
leaves a cap out, a negative cap) is in the model.

Abstractions: only the email of a contact is kept, what an upsert merges is
`Records`' affair; the quota of workspace seats, a sum of two COUNTs, is left out.

### `Timeline`

`acts` are activities: for each kind of record the text of the link column (an
internal id, a handle, or whatever the client sent), whether the activity is outreach,
and `on_behalf_of`. `named` and `lost` are history: the record the client meant, and
the links whose lookup failed.

    log       AskLog, Link (one per cross-link), Insert     delete  DeleteActivity
    timeline  AskTimeline, ResolveFilter (one per reference), SelectActivities
              AskRecordTimeline, SelectActivities
    page      AskPage, Stats, ReadPrincipals                 end     End

`DeleteRecord` leaves the activities where they are. A failed lookup of a reference
is taken for one that finds nothing, a failed `ActivityStatsBatch` leaves the page
without figures, a failed `ActivityPrincipalsBatch` without principals; each is an
outcome of its action.

Abstractions: the order and LIMIT of a timeline; two of the five kinds of activity,
one that counts as outreach and one that does not.

### `Migrations`

A version is a sequence of statements on objects; the instance has the kinds the code
has: a baseline, an ADD COLUMN, a new table, and the version that copies follow-up
dates into `tasks` and drops their column. `run` is what each migrator does: the versions
it has left (`pending`, worked through from the first), its place in the first of them,
and the effects of its open transaction in `tx`; `Commit` makes them visible. `BlockedBy` is
the locks of the two databases: SQLite has one writer, Postgres locks objects, and
the row of `schema_migrations` conflicts with an uncommitted one of the same version.

    migrate  Launch, Ensure, ReadStatus, (Execute*, RecordVersion, Commit)*
    trouble  Fail (a statement or the process), GiveUp (busy_timeout, a deadlock),
             a status query that fails and is taken for an empty database
    server   Start (the gate), Stop, SetFollowUp (a server of an older build that still runs)

### `AuditLog`

`log` has the entries that are followed with their ages, `last` the age of
`lastAuditPrune` of each process, `calls` the audited requests and the sweeps they
start. `Audit` is the INSERT (or its failure, which is only logged), `Throttle` and
`Swap` are `maybePruneAudit`'s load and CompareAndSwap, `TakeCutoff` and `Prune` (or
`PruneFails`) go through the plans of the configuration in any order. Beside them
`ChangePlan`, `Crash` (a process forgets `lastAuditPrune`) and `Day`.

Abstractions: what an entry says; at most `MaxLag` days within a request or between a
cutoff and its DELETE.


## 3. Runs

| Run | Instance | Shows |
|---|---|---|
| `records` | 2 agents, 1 record, 2 columns of 2 values, versions up to 4, failures, one of which loses an entry; 1,026,500 states | error answers stay true (`AnswersStayTrue`); each committed update is audited but for the entry lost (`UpdatesAudited`); a version from a GET protects what was read (`NoClobberAfterRead`); `Records` implements `RecordStore` (`ImplementsStore`) |
| `access` | 2 users, 2 workspaces, every handler but ticket writes, one request at a time with failures; 1.3 M states | `EveryWorkspaceHasAdmin`; no invite is used up without a membership (`InvitesConsumed`) |
| `access_overlap` | 2 users, 2 workspaces, 2 requests at once of login, create, mint, invite, delete and ticket writes; 436 k states | no membership, invite, token, ticket, task or campaign is left of a deleted workspace (`AccessEndsWithWorkspace`); as long as nobody takes a role away, a login's token is one that resolves (`LoginTokenUsable`) |
| `access_delete` | one request at a time | **violated**: `ConfirmedDeleteDeletes` |
| `oauth` | 1 connection, 2 requests at once, 3 access tokens; 26,004 states | the inductive invariant `IInv`; `OnlyNewestAccess`; `OAuth` implements `Chain` (`ImplementsChain`) |
| `listing` | 3 rows, 2 writes during the walk, pages of 1 and 2, the default sort and an ascending one, no filter and one on the sort column; 89 k states | a walk returns all that stayed put (`NothingMissed`), once and in order (`InOrder`), and ends (`WalkEnds`) |
| `directory` | 2 requests at once, 3 contacts, one address in 3 spellings (two cases, and with spaces around it), 1 campaign, a cap of 2; 713,990 states | overlapping creates exceed a limit by no more than their number (`LimitOverrun`); without overlap no address that a lookup can find is duplicated (`OnlyRacesDuplicate`); confirmed attachments stay, but for what a failed deletion took (`PromisesKept`) |
| `timeline` | a contact and a deal, 2 activities, 1 writer and 1 reader beside deletions; 162 k states | a timeline is exactly what was logged (`TimelineExact`); a page agrees with its filter and its figures with each other (`PageAgrees`) |
| `ratelimit` | 2 keys, a burst of 2, memory and Redis, late by a tick; 25,637 states | `RateLimit` implements `TokenBucket` while the clocks agree (`ImplementsTokenBucket`); late callers in memory gain nothing (`TimeAloneRefills`) |
| `signin` | the person and one other caller, 2 attempts, codes and tickets valid for a tick, a burst of 1, 4 troubles; 131 k states | a bounded number of guesses (`FewMisses`); a code is used once unless requests overlap (`UsedOnce`); a code is not thrown away untried (`NotLostUntried`); the person gets in (`SignsIn`) |
| `migrations` | 2 operators, an old and a new server, 4 versions, 2 records, both databases, 3 failures; 23 k states | versions take effect once, in order, as a whole (`AppliedAsRecorded`); follow-ups survive their move (`FollowUpsKept`); all get applied (`AllApplied`) |
| `auditlog` | 1 process, 2 requests, 1 workspace, 2 entries, 3 plans, 1 crash; 117 k states | nothing is deleted before its time (`RetentionKept`); a process starts one sweep in an interval (`OneSweepPerInterval`); what is overdue goes (`OldEntriesGo`) |

Each passing run checks the module's type invariant as well (in `oauth` it is a part
of `IInv`; the two runs of `Access` share one).

**Bounds.** One record is enough in `Records`: no statement of these handlers
reads or writes two records, so records do not influence one another (the proofs
are for any number). Two columns tell a patched field from an unnamed one. Two
agents are enough for each statement of one handler to be preceded by any
statement of another; `MaxVersion = 4` allows three committed updates, so that a
version can be reached, passed and compared with one read twice before; `MaxOwed = 1`
lets one of them go without its entry, beside others that have theirs. In
`Access` two users let one act on the other, and two workspaces let a user's
default be deleted, left or replaced. Ticket
writes only add to `kept`, which `DropWorkspace` alone reads: they are in the
overlapping run, where that race matters, and left out of the larger serial one.
In `OAuth` no statement touches two connections, so one suffices; two requests let
a replay, a revocation or a second exchange fall between any two statements of the
first; three access tokens give the first exchange and two rotations, the second of
which supersedes a token that a rotation minted.
`Listing` has three rows so that a row can move from behind a cursor to before it, or
back, past one that stays; `MaxTime = 1` lets writes share a second or not; a NULL
sort key, a full and a partial last page all occur. `Directory` has room for one record
more than its cap, and two requests, which is what its properties are stated in terms of;
two addresses never meet in a lookup, so one is enough. Spellings matter to the lookup
alone and campaigns to the attachments alone: the constraint `Focus` keeps to one email
once there has been a campaign. In `RateLimit` a burst of two shows a partly refilled bucket, and `Horizon` is past
everything the code compares an age with. `SignIn` has one attempt to spare and a limiter
that refuses every second request in a tick; `Ttl >= Cost` is needed for `SignsIn` and
holds of the defaults (600 seconds against 180). `Migrations` has one version of each
kind the code has, and as many failures as the versions before the move. In `AuditLog`
an interval is a day, the retentions are one and two days, and the third plan keeps
entries for ever.

**Symmetry** is used where parameters are interchangeable and no liveness is checked:
agents and columns; users, workspaces and slots; slots and ids of `Directory`; keys of
`RateLimit`.
There is none in the runs with liveness.

**Deadlock** is checked in every run; a walk that has ended in `Listing` stutters
explicitly (`Finished`), everywhere else something can always happen.

**Fairness.** None is assumed in `Records`, `Access`, `OAuth`, `Directory`, `Timeline`
and `RateLimit`: a request may stop between any two statements, and fail.

* `Listing`, `WF(ClientStep)`: the server answers and a client that began a walk asks
  for the next page. Nobody has to write; that writes are bounded matters, as rows that
  are updated ahead of an ascending walk by `updated_at` can keep it going for ever.
* `SignIn`: time passes, a handler runs to its end unless it fails, and the person
  asks again and enters what is mailed (WF). The strong conditions say that mail, server
  and person are not *always* slower than the code is valid; `Choose` is strong as a
  ticket may expire and be shown again. Failures and the interference of others are
  bounded, which is what the limiter and the attempt counter are there to ensure in
  the code.
* `Migrations`: an operator runs a migration again that did not end well
  (`WF(Launch)`), a migrator goes on (`WF(Step)`), the database breaks deadlocks or
  gives up waiting (`WF` of `GiveUp` for some migrator), and a DROP waiting for a
  lock is not overtaken for ever by writers that come later (`SF(Drop)`: both databases
  queue lock requests).
* `AuditLog`: goroutines go on, days pass, the deployment is used (`WF(SomeAudit)`; the
  sweep has no timer of its own, so an unused deployment keeps its entries), and the
  DELETE of a plan does not fail every time (`SF(PruneOf(p))`). Crashes are bounded.

### What the violated run shows

* `access_delete`: `DeleteWorkspace` deletes contacts, companies, deals and
  activities but not tickets, tasks and campaigns, whose foreign keys then fail
  (`store/memberships.go:215-248`).

### What the properties exempt

The properties say where they stop; each exemption is something the code does. They
were met while modelling, and each can be seen by dropping the exemption.

* A version from a PATCH response is read after the UPDATE (`store/crm.go:1187`): agent
  A's UPDATE commits version 2, B's commits version 3, A is told "3" beside its own
  columns, and A's next PATCH silently reverts B. `NoClobberAfterRead` is about versions
  from a GET or a create.
* `resolveID` answers 404 whatever the error of its lookup (`server/handlers_crm.go:58-65`).
  `AnswersStayTrue` is about the 404s and 412s that the database gave: in `Records` the
  answer of a request that failed is `Silence`.
* A crash or a failed INSERT after the UPDATE leaves an update without an audit entry
  (`server/server.go:393-397`, which logs it); `UpdatesAudited` counts it as owed.
* Two removals (or demotions) each count two admins, then both write
  (`store/memberships.go:191-213`, `252-272`). `access` checks `EveryWorkspaceHasAdmin`
  for requests that do not overlap.
* A member removed from the workspace that is their default keeps it as the default;
  each login mints a token there that `ResolveToken` never finds
  (`store/sqlite.go:361-374`). `access_overlap` leaves out the handlers that take a role
  away.
* `DELETE FROM invites WHERE email = ?` removes invites that arrived after the SELECT
  (`store/sqlite.go:443-446`). `access` checks `InvitesConsumed` without overlap.
* `DELETE /tokens/{id}` revokes the access token of a connector and leaves the refresh
  token paired with it, which renews it (`store/sqlite.go:571-580`). No property.
* Overlapping verifications can accept one code twice, and a code may face one more
  guess for each request that overlaps (`store/sqlite.go:324-353`).
* `POST /contacts` with `"email": "jane@x.com "` stores the space
  (`server/handlers_crm.go:342`, `:367`, `store/crm.go:83-87`). The next such POST looks up
  `jane@x.com` (`:328-329`), which `lower(email)` of the stored text is not
  (`store/crm.go:113-115`), and creates a second contact without any overlap, although the
  comment at `:300-302` says that the upsert "keeps agents from creating duplicates";
  companies and their domain do the same (`:664-665`). `OnlyRacesDuplicate` is about emails
  that are stored without (`Findable`). It also leaves out what two overlapping creates, an
  upsert whose match was changed meanwhile, and a PATCH to an address in use do (`raced`).
* `DeleteCampaign` is two statements without a transaction (`store/campaign.go:69-78`). When
  the second one fails, is refused by the foreign key, or the server dies before it, the
  campaign stays and its members are gone. `PromisesKept` names those pairs (`lost`); any
  other loss of a confirmed attachment would violate it.
* `DeleteWorkspace` lists neither `oauth_codes` nor `oauth_refresh_tokens`
  (`store/memberships.go:225-235`; the tables, `store/migrate.go:49-72`, reference nothing), and
  `audit_log` has no foreign key (`store/sqlite.go:227`), so that a request let in before the
  deletion still adds its entry after it. All three outlive their workspace, against
  `store/memberships.go:215-216`. `AccessEndsWithWorkspace` is about memberships, invites,
  tokens, tickets, tasks and campaigns; contacts, companies, deals and activities, which the
  deletion does list and whose foreign keys refuse late rows, are left out.
* Tasks without `due_at` cannot be compared with a cursor and are left out of all pages
  after the first of a list sorted by it (`store/query.go:154-180`, `447`), although
  `agent.md:170-172` has clients page on until there is no cursor (`Keyed`).
* Replicas whose clocks differ refill a shared bucket faster than time
  (`ratelimit/redis.go:36`).
* On Postgres a follow-up date written between the copy and the DROP of version 18 is
  lost (`exposed`; `store/migrate.go:278`).
* An activity whose reference could not be looked up for an error is linked to the text
  of its handle, and no timeline by id has it (`server/handlers_crm.go:67-78`, which says so).
* A page and its figures come from different statements: `store/crm.go:937-941` says of
  them that they can never drift, which is so but for activities written in between.

## 4. Proofs

Each proof module rests on the assumptions of the module it is about, and on an inductive
invariant, which TLC has been seen to agree with on the instances of its runs (in `oauth`
it is one of the run's invariants). A theorem that holds only for part of what the
constants allow says so as an `ASSUME` of its own.

### `RecordsProofs`

About `Records`, for any finite set of agents, any records, columns and values, any bounds
and no assumption but `RecordsAssumption` (the empty column is a value, the bounds are
naturals):

* `TypeCorrect`: `Spec => []TypeOK`
* `ErrorsStayTrue`: `Spec => []AnswersStayTrue`
* `NoLostUpdateAfterRead`: `Spec => NoClobberAfterRead`
* `RecordsImplementsStore`: `Spec => ImplementsStore`
* `EveryUpdateAudited`: `Spec => []UpdatesAudited`

The argument is that **a version identifies the contents of a record**: a version is only
ever raised, by the statement that changes the columns, and a deleted id is never
reissued. So what an agent or a handler has read is never ahead of the row (`ViewsTrail`,
`BasesTrail`), and when the versions agree the columns do. That is why a versioned
UPDATE, which writes *every* column from the row its handler read earlier, changes
only the fields the body names: if the WHERE clause matches, the row read is the
row there. Three more parts make it inductive: nobody knows an id that was not
issued (`FreshIds`, or a new row could start below a version somebody holds), a
handler that missed its row can only miss it again (`MissesLast`, which turns the
412/404 probe into a lasting answer), and the property `AnswersStayTrue` itself.
`AnswersStayTrue` alone is not inductive: a handler between `PatchMiss` and
`PatchCheck` has not answered yet. There is one lemma per action
(`CreateKeeps` ... `FailKeeps`).

The refinement maps a PATCH to one commit or refusal at its UPDATE statement; the read is
the request, the end of a handler that missed tells the client (`Tell`), one that ends
before its UPDATE is dropped without effect (`Drop`), and all else is a stutter or the
store's own `Insert` and `Remove`. That a refusal is a step apart from a failure matters:
it is allowed only when the row does not match.

The version of a record is one more than its audit entries, those owed, and the handlers
on their way to write one (`AuditInv`): an UPDATE adds to the version and to the handlers,
the end of the handler moves one from the handlers to the entries or to those owed, and an
id that was never issued has neither. Counting handlers is what agents must be finite for.

About `AuditLog`, for any requests, processes, workspaces, entries and bounds, any plans
with any retention, none included, and any interval of at least a day (`AuditAssumption`):

* `AuditTypeCorrect`: `AuditSpec => []AuditTypeOK`
* `RetentionIsKept`: `AuditSpec => RetentionKept`
* `SweepsAreApart`: `AuditSpec => OneSweepPerInterval`

Neither property is about the state before the step alone: a DELETE works with a plan
chosen and a cutoff taken earlier, a sweep is started by a request that found it due
earlier. `Sweeping` says that a sweep goes only through plans whose entries do not stay for
ever. As the cutoff of such a plan is older than the DELETE by the days since (`lag`), what
is older than the cutoff is overdue, and the DELETE selects by the plan of that moment.
`StillDue` says that as long as a request that found a sweep due has not been beaten,
`lastAuditPrune` is still an interval ago: it becomes younger only by a CompareAndSwap,
which beats all who have read the same value, and a crash of the process takes its
requests along.

### `AccessProofs`

For any finite set of users, any workspaces, slots, handlers (`Op`) and roles offered, under
`AccessAssumption`:

* `TypeCorrect`: `Spec => []TypeOK`
* `DeletedForGood`: `Spec => []AccessEndsWithWorkspace`
* `LastAdminStays`: `Spec => []EveryWorkspaceHasAdmin`, if requests do not overlap, or
  if no handler takes a role away (`NoRaceForAdmin`)
* `InvitesEndInMembership`: `Spec => InvitesConsumed`, if requests do not overlap
* `LoginsEndInAccess`: `Spec => LoginTokenUsable`, if nobody is removed, with any overlap

The hypotheses are the limits of the code, each shown in section 3: `SetRole` and
`RemoveMember` count the admins in one statement and write in another, `AcceptInvites`
deletes by email what it did not read, and a removed member keeps the default workspace.
Without them TLC finds the properties violated.

`DeletedForGood` needs no hypothesis. Its invariant `Base` says besides that a request
names only workspaces that were issued (`Shaped`), and so does `default`, since a request
authorised before a deletion may write after it: every such write is an INSERT whose
foreign key the row of the workspace must satisfy, or an UPDATE of a row the deletion has
taken along, and no id is issued twice. For requests one after the other, `Guarded` adds
what a request has read and may rely on: before the write that takes an admin away there
is another (`Spared`), and a login that is to delete the invites has a membership, or an
invite read and not accepted yet, for each (`Carried`). Both are lost to the first step
of another request, so that they need `Serial`. With overlap and no removals `Landed` is
inductive: where a login is heading, and where a user has their default, they are a
member as long as the workspace exists.

### `OAuthProofs`

For any connections, any number of requests in flight, any `MaxGen \in Nat`:

* `TypeCorrect`: `Spec => []TypeOK`
* `Invariant`: `Spec => []IInv`
* `NeverForks`: `Spec => []ChainNeverForks`, which no run lists as it is a part of `IInv`
* `NewestOnly`: `Spec => []OnlyNewestAccess`
* `OAuthImplementsChain`: `Spec => ImplementsChain`

The argument: at any time a connection has **one holder** (its live code or refresh
token, or the one request that consumed it), and **whatever is live is paired with
the holder** (`PairsCurrent`), so that the holder supersedes it before it mints.
`OnlyNewestAccess` is not inductive alone: that the newest token is the only one
after `Mint` needs that nothing is live before it, which needs the pairing of the
refresh token consumed, which needs that no second request is exchanging another
grant of the connection. `ClosedIsEmpty` gives `Authorize` its empty connection,
`GrantsFresh` gives `Chain`'s `Give` a grant never handed out. The invariant is
inductive step by step: `ShrinkKeeps` covers every step that only takes rows away,
and `Authorize`, `Consume`, `Supersede`, `Mint` and `StoreRefresh` have a lemma
each. In the refinement `Consume` is `Take` (or `End`), `StoreRefresh` is `Give`,
a failed exchange and a revoked refresh token are `End`, the rest stutters.

### `DirectoryProofs`

For any finite slots and ids, any addresses, spellings (with spaces or not), campaigns and
plans, under `DirectoryAssumption`:

* `TypeCorrect`: `Spec => []TypeOK`
* `LimitsHold`: `Spec => []LimitOverrun`
* `DuplicatesAreRaced`: `Spec => []OnlyRacesDuplicate`
* `AttachmentsStay`: `Spec => []PromisesKept`

`LimitOverrun` counts the records and the requests about to insert one. A request is told
that there is room when the records alone are below the limit, and the requests already
told so are then fewer than the slots, as it is not one of them; an INSERT moves one from
one count to the other. So it is inductive as it stands, by cardinalities. That a
duplicate is *raced* needs the past of the request that inserts: a request past its lookup
found no contact with its address, and whatever has taken the address since overlapped with
it (`LookedUp`). An update needs no such past: it either writes the address its contact has
anyway, or its contact was changed since it was found, which is a race. `PromisesKept` is
inductive with its third way for a pair to be accounted for, a deletion between its two
statements: `Purge` opens it, and `Drop` or `Fail` closes it by taking the promise with the
campaign or by owning up to the loss (`BrokenOff`, `DropKeeps`). A step uses the locals
an earlier one left, and `Equipped` says that they are there: a request at its
attachment has a campaign and a contact, one at its update an address and an id that was
issued.

### `SignInProofs`

For any kinds of code, any number of slots, any finite number of strangers, any lifetimes,
any attempts, and any limiter (`SignInAssumption`):

* `TypeCorrect`: `Spec => []TypeOK`
* `GuessesBounded`: `Spec => []FewMisses`
* `AcceptedOnce`: `Spec => []UsedOnce`
* `GivenUpForAReason`: `Spec => NotLostUntried`

The row of a code cannot tell how often it was tried: requests have compared and not
counted yet, and a count may have failed. `Tallied` relates the three: the wrong guesses
of the current code are at most the attempts counted, those whose UPDATE failed, and the
requests at their UPDATE; and, the other way round, what has been counted or is about to
be is at most the guesses and one for each stranger, who may be about to count a guess of
an older code against the row of this one. `FewMisses` alone lacks the second half. As
long as no two requests have overlapped at the current code, at most one is about to
delete its row, it deletes a row that nobody has accepted, and once accepted there is no
row left (`Single`). A request about to give up the row of the current code has found it
expired or spent, and both last until a new code replaces it (`Doomed`).

### `RateLimitProofs`

For any keys, any rate, burst, sweep interval and expiry, either backend, any lag, and
any horizon beyond what the code compares ages with (`RateLimitAssumption`):

* `TypeCorrect`: `Spec => []TypeOK`
* `OnlyTimeRefills`: `Spec => TimeAloneRefills`
* `RateLimitImplementsTokenBucket`: `Spec => ImplementsTokenBucket`

The invariant is that **no bucket is in debt by the true clock** (`Solvent`): a caller
that is late by `d` may take a bucket below zero, but leaves it with an age of `d`, and
by no more than clocks are late. While clocks agree there are no debts, the two ages of
a bucket are one, and the number the code computes for a caller, swept bucket or not,
is exactly what the bucket is worth (`MemoryFindsWorth`, `ScriptFindsWorth`): the sweep
drops only what has been idle for `MaxIdle >= Cap`, Redis only what is older than
`Ttl > Cap`, and both are worth `Cap`, as is a bucket that is not there. Then `Allow` is
`Admit` or `Refuse`, failing open is `Open`, expiry stutters, and a tick is a tick,
also for a bucket whose age has reached the horizon.

### `MigrationsProofs`

For any finite set of migrators and any servers, each of any build, any records, either
database, and any script of versions with the property `ScriptAssumption` names:

* `TypeCorrect`: `Spec => []TypeOK`
* `AppliedInOrder`: `Spec => []AppliedAsRecorded`
* `EachVersionOnce`: `Spec => AppliedOnce`: no step records a version that is recorded, or
  more than the next one
* `FollowUpsSurvive`: `Spec => []FollowUpsKept`
* `ServersFindTheirSchema`: `Spec => []ServesItsSchema`: a server that passed the gate
  finds the versions of its build recorded for as long as it runs

`ScriptAssumption` says of a script that what a version drops no later version makes again,
and that the follow-up column is dropped after its dates are copied. Both hold of
`migrate.go`, where version 18 alone drops anything, and TLC evaluates them on the
instance. Without the first a version applied by two migrators could bring back what the
first had dropped; without the second the dates are lost with one migrator.

A migrator works from the list of versions it read when it began, and that list may be
stale by the time it commits. The argument is that the migrators that can still commit are
all at **the same version, the first that is not recorded**: all before it are (`Orderly`),
the versions recorded have no gap (`NoGaps`), and of those that have inserted its row into
`schema_migrations` there is one, because the second waits for the first and then fails on
the key (`Claimed`). A migrator that works on a version recorded meanwhile fails at its
INSERT, if not before. For the one that commits, the transaction
has made and dropped exactly what the statements of the version say (`Faithful`: what is
there already is not made again, by `IF NOT EXISTS`), so that the schema remains what the
recorded versions make it. `Carries` says that a transaction past its copy has all
follow-ups but those written since.

### `ListingProofs`

About `Listing`, for any rows, values of both columns, sorts, limits and either database,
with text ordered as integers are (`ListingAssumption`):

* `TypeCorrect`: `Spec => []TypeOK`
* `WalksMissNothing`: `Spec => []NothingMissed`
* `WalksInOrder`: `Spec => []InOrder`

The invariant: **of the rows that stay, exactly those up to the cursor have been returned**
(`Divided`). A page takes the rows past the cursor that match, as many as the limit; those
in it are returned, and those beyond it sort after its last row, which is the new cursor.
It needs that the order of a sort is total on rows with a key, ties broken by id, the same
for the SELECT, for the cursor made of a row and for the comparison with that cursor; this
is most of the proof, for each column, each direction and both places of NULL. `stable` is
kept within `Matching`, so that a row that stays is one the SELECT can return, and the
cursor keeps the sort of the walk (`Steady`) whatever `sort=` comes with it.

About `Timeline`, for any records and kinds, writers and readers, principals and spellings,
and any bounds (`TimelineAssumption`: an internal id is neither a handle nor the empty
text, and no request is both a writer and a reader):

* `TimelineTypeCorrect`: `TimelineSpec => []TimelineTypeOK`
* `TimelinesExact`: `TimelineSpec => TimelineExact`
* `PagesAgree`: `TimelineSpec => []PageAgrees`

A timeline is decided by two series of lookups, those of the activity when it was logged
and those of the filter, which other requests come between. `TimelineInv` says of both what
they have to do with the record that was meant. A link is the id or the handle of the
record named, and the id as long as the record is there and no lookup failed (`LinkHolds`;
handlers on their way are subject to it but for the references still to look up,
`LogSound`); of the texts a filter collects, each is of a record that was asked for, and
each such record that is there has its id among them, its reference still to look up, or a
failed lookup (`ReadSound`). A deletion only makes these weaker. For `PageAgrees` the
statements of a page are tied together by what has not changed in between: whatever it has
read of a record (the filter, its counts) is what the activities say of it now, unless
they have changed since (`PageSound`). An activity changes what is said of no records but
those it is linked to, and these are exactly the ones counted as moved.

**Model-checked only.** Liveness under fairness (`WalkEnds`, `SignsIn`, `AllApplied`,
`OldEntriesGo`), ENABLED, and what a recursive definition computes for every input are
beyond the proof system and stay with TLC; every safety and action property of the passing
runs is a theorem. `ConfirmedDeleteDeletes` is violated (section 3), so there is nothing to
prove.

## 5. Plan

Written: every module of section 2, and the theorems about all of them. What could follow,
the most consequential first.

1. `Records` with the references between records (the company of a contact), which are
   resolved as those of activities are.
2. The seats of a workspace in `Access`, by the argument of `LimitsHold`.

## 6. Not modelled, and why

* **Syntax**: parsing of query parameters and bodies, the SQL they become, search, tags
  and LIKE patterns. Pure code of strings, which the tests beside it enumerate; what the
  models need of it (which rows match, in which order, after which cursor) is in
  `Listing`.
* **Rendering, localisation, wire types, diffs, the manual**: no state.
* **The MCP endpoint**: every tool call is dispatched in process as a request to the
  handlers modelled here, and keeps nothing.
* **genHandle**: tries again on a collision of random handles; what a handle resolves
  to, or does not, is in `Timeline`.
* **Reminders and reading the audit log**: single SELECTs that nothing follows.
* **Client registration and the PKCE check**: one INSERT, and a comparison of hashes
  whose outcome is a choice in `OAuth`.
* **The quota of workspace seats**: a sum of two COUNTs, members and invites, before an
  INSERT; it is exceeded in the way `Directory` has for records.
* **What an upsert merges**: an unversioned UPDATE of the columns, as `Records` has it
  for a PATCH without `If-Match`; `Directory` has who is updated or inserted.
* **Mail, configuration files, process start-up and shutdown**: input and output. A lost
  mail is a step of `SignIn`, the defaults of plans are in `Directory` and `AuditLog`,
  the start-up gate is in `Migrations`.
