------------------------------- MODULE OAuth -------------------------------
(***************************************************************************)
(* The OAuth authorization server: authorization codes, refresh tokens and *)
(* the access tokens they give.                                            *)
(*                                                                         *)
(* A connection is one consent of a user to one client.  Its credentials   *)
(* are numbered: grant 0 is the authorization code, grant g > 0 the        *)
(* refresh token stored after access token g was minted.  Codes and        *)
(* refresh tokens live in two tables, but both are given up by one DELETE  *)
(* ... RETURNING and both lead to issueTokens, so that one set holds the   *)
(* rows of the two; a code has no access token to supersede.  Handlers run *)
(* in statements, which interleave and may fail.                           *)
(***************************************************************************)
EXTENDS Naturals

CONSTANTS
    Conn,     \* connections
    Slot,     \* requests that can be in flight
    MaxGen    \* bound: access tokens minted for a connection

ASSUME OAuthAssumption == MaxGen \in Nat

VARIABLES
    grants,     \* rows of oauth_codes and oauth_refresh_tokens
    paired,     \* access_token_hash: grant -> its access token, 0 for none
    expired,    \* grants whose expires_at has passed
    sent,       \* grants that were handed to the client
    issued,     \* access tokens minted so far, per connection
    access,     \* unrevoked access tokens
    missed,     \* access tokens whose revocation failed and was only logged
    req         \* the requests in flight: slot -> locals

vars == <<grants, paired, expired, sent, issued, access, missed, req>>

----------------------------------------------------------------------------

Gens  == 0 .. MaxGen
Steps == {"consume", "supersede", "mint", "store", "revoke access", "revoke refresh"}

\* gen: the credential presented; pair: the access token a refresh token is
\* paired with, first the one to supersede, then the one minted.
Request == [at : Steps, conn : Conn, gen : Gens, pair : Gens, match : BOOLEAN,
            token : {"access", "refresh"}]
NoRequest == [at |-> "none"]

TypeOK ==
    /\ grants \in SUBSET (Conn \X Gens)
    /\ paired \in [Conn -> [Gens -> Gens]]
    /\ expired \in SUBSET (Conn \X Gens)
    /\ sent \in SUBSET (Conn \X Gens)
    /\ issued \in [Conn -> Gens]
    /\ access \in SUBSET (Conn \X Gens)
    /\ missed \in SUBSET (Conn \X Gens)
    /\ req \in [Slot -> Request \cup {NoRequest}]

Init ==
    /\ grants = {} /\ expired = {} /\ sent = {} /\ access = {}
    /\ missed = {}
    /\ issued = [c \in Conn |-> 0]
    /\ paired = [c \in Conn |-> [g \in Gens |-> 0]]
    /\ req = [s \in Slot |-> NoRequest]

----------------------------------------------------------------------------
(* Faulty variants of the definitions below, each a plausible slip in the  *)
(* code; no action uses them.                                              *)

\* A SELECT where the DELETE ... RETURNING should be.
KeepGrant(c, g) == grants

\* A rotation that hands the grant on with the hash it came with.
StalePair(old, new) == old

\* A superseded access token is left to its idle expiry.
KeepAccess(c, g) == access

----------------------------------------------------------------------------
(* The statements.                                                         *)

\* DELETE ... WHERE code_hash = ? (token_hash = ?) RETURNING ...
Without(c, g) == grants \ {<<c, g>>}

\* RevokeTokenByHash of the access token a refresh token is paired with.
Superseded(c, g) == access \ {<<c, g>>}

\* The access_token_hash of a new refresh token.
NewPair(old, new) == new

Goto(s, at) == req' = [req EXCEPT ![s].at = at]
Done(s)     == req' = [req EXCEPT ![s] = NoRequest]

----------------------------------------------------------------------------
(* Consent, time, and requests that arrive or fail.                        *)

\* finishAuthorize: PutAuthCode and the redirect that carries the code.
Authorize(c) ==
    /\ <<c, 0>> \notin sent
    /\ grants' = grants \cup {<<c, 0>>}
    /\ sent' = sent \cup {<<c, 0>>}
    /\ UNCHANGED <<paired, expired, issued, access, missed, req>>

Expire(c, g) ==
    /\ <<c, g>> \in grants \ expired
    /\ expired' = expired \cup {<<c, g>>}
    /\ UNCHANGED <<grants, paired, sent, issued, access, missed, req>>

\* POST /oauth/token with a grant that was handed out, spent or not; match
\* tells whether client_id, redirect_uri and the PKCE verifier fit.
AskTokens(s, c, g) ==
    /\ req[s] = NoRequest
    /\ <<c, g>> \in sent
    /\ \E match \in BOOLEAN :
         req' = [req EXCEPT ![s] = [at |-> "consume", conn |-> c, gen |-> g, pair |-> 0,
                                    match |-> match, token |-> "refresh"]]
    /\ UNCHANGED <<grants, paired, expired, sent, issued, access, missed>>

\* POST /oauth/revoke with an access token or a refresh token.
AskRevoke(s, c, g) ==
    /\ req[s] = NoRequest
    /\ <<c, g>> \in sent /\ g > 0
    /\ \E token \in {"access", "refresh"} :
         req' = [req EXCEPT ![s] = [at |-> "revoke access", conn |-> c, gen |-> g, pair |-> 0,
                                    match |-> TRUE, token |-> token]]
    /\ UNCHANGED <<grants, paired, expired, sent, issued, access, missed>>

\* DELETE /tokens/{id}: the user revokes an access token (RevokeUserToken).
LogOut(c, g) ==
    /\ <<c, g>> \in access
    /\ access' = access \ {<<c, g>>}
    /\ UNCHANGED <<grants, paired, expired, sent, issued, missed, req>>

\* A statement fails, or the server dies: what ran before stays.
Fail(s) ==
    /\ req[s] # NoRequest
    /\ Done(s)
    /\ UNCHANGED <<grants, paired, expired, sent, issued, access, missed>>

----------------------------------------------------------------------------
(* POST /oauth/token.                                                      *)

\* ConsumeAuthCode and ConsumeRefreshToken; the row is gone even when the
\* grant turns out to be expired or another client's.
Consume(s) ==
    LET q == req[s]
        row == <<q.conn, q.gen>> IN
    /\ q.at = "consume"
    /\ \/ /\ row \in grants
          /\ grants' = Without(q.conn, q.gen)
          /\ IF row \in expired \/ ~q.match
             THEN Done(s)
             ELSE req' = [req EXCEPT ![s] =
                            [q EXCEPT !.pair = paired[q.conn][q.gen],
                                      !.at = IF q.gen = 0 THEN "mint" ELSE "supersede"]]
       \/ /\ row \notin grants
          /\ Done(s)
          /\ UNCHANGED grants
    /\ UNCHANGED <<paired, expired, sent, issued, access, missed>>

\* tokenFromRefresh revokes the access token of the last cycle; an error is
\* only logged.
Supersede(s) ==
    LET q == req[s] IN
    /\ q.at = "supersede"
    /\ \/ /\ access' = Superseded(q.conn, q.pair)
          /\ UNCHANGED missed
       \/ /\ missed' = missed \cup {<<q.conn, q.pair>>}
          /\ UNCHANGED access
    /\ Goto(s, "mint")
    /\ UNCHANGED <<grants, paired, expired, sent, issued>>

\* issueTokens: the access token, then its refresh token and the response.
Mint(s) ==
    LET q == req[s]
        c == q.conn
        n == issued[c] + 1 IN
    /\ q.at = "mint"
    /\ issued[c] < MaxGen
    /\ issued' = [issued EXCEPT ![c] = n]
    /\ access' = access \cup {<<c, n>>}
    /\ req' = [req EXCEPT ![s] = [q EXCEPT !.at = "store", !.gen = n,
                                             !.pair = NewPair(q.pair, n)]]
    /\ UNCHANGED <<grants, paired, expired, sent, missed>>

StoreRefresh(s) ==
    LET q == req[s] IN
    /\ q.at = "store"
    /\ grants' = grants \cup {<<q.conn, q.gen>>}
    /\ paired' = [paired EXCEPT ![q.conn][q.gen] = q.pair]
    /\ sent' = sent \cup {<<q.conn, q.gen>>}
    /\ Done(s)
    /\ UNCHANGED <<expired, issued, access, missed>>

----------------------------------------------------------------------------
(* POST /oauth/revoke: the token is tried as an access token, then as a    *)
(* refresh token.                                                          *)

RevokeAccess(s) ==
    LET q == req[s] IN
    /\ q.at = "revoke access"
    /\ access' = IF q.token = "access" THEN access \ {<<q.conn, q.gen>>} ELSE access
    /\ Goto(s, "revoke refresh")
    /\ UNCHANGED <<grants, paired, expired, sent, issued, missed>>

RevokeRefresh(s) ==
    LET q == req[s] IN
    /\ q.at = "revoke refresh"
    /\ grants' = IF q.token = "refresh" THEN Without(q.conn, q.gen) ELSE grants
    /\ Done(s)
    /\ UNCHANGED <<paired, expired, sent, issued, access, missed>>

----------------------------------------------------------------------------

TokenStep(s) == Consume(s) \/ Supersede(s) \/ Mint(s) \/ StoreRefresh(s)

Next ==
    \/ \E c \in Conn : Authorize(c)
    \/ \E c \in Conn, g \in Gens : Expire(c, g) \/ LogOut(c, g)
    \/ \E s \in Slot, c \in Conn, g \in Gens : AskTokens(s, c, g) \/ AskRevoke(s, c, g)
    \/ \E s \in Slot : Fail(s) \/ TokenStep(s) \/ RevokeAccess(s) \/ RevokeRefresh(s)

Spec == Init /\ [][Next]_vars

----------------------------------------------------------------------------
(* Properties.                                                             *)

\* The requests that gave up a grant of connection c and owe the next one.
Exchanging == {"supersede", "mint", "store"}
Busy(c)    == {s \in Slot : req[s].at \in Exchanging /\ req[s].conn = c}

\* The grants of connection c that a request could still give up.
Held(c) == {g \in Gens : <<c, g>> \in grants}

\* A connection never forks: its live code or refresh token, or the request
\* that is exchanging it, is the only one (migrate.go: "rotated on use, so at
\* most one is live per client connection"), however many requests present it.
ChainNeverForks ==
    \A c \in Conn :
      /\ \A g, h \in Held(c) : g = h
      /\ \A s, t \in Busy(c) : s = t
      /\ Held(c) = {} \/ Busy(c) = {}

\* Only the newest access token of a connection is ever live: rotation, a
\* crash, a refused or replayed grant leave no older one behind, unless its
\* revocation failed (handlers_oauth.go, tokenFromRefresh: "Rotation supersedes
\* the access token issued in the prior cycle").
OnlyNewestAccess ==
    \A c \in Conn, g \in Gens :
      <<c, g>> \in access => g = issued[c] \/ <<c, g>> \in missed

\* Each connection is a chain of grants: a grant is given up by whoever
\* presents it, only then is there a next one, which was never given before,
\* and a connection whose grant was refused, revoked or lost is over.
GivenTo == [c \in Conn |-> {g \in Gens : <<c, g>> \in sent}]
HeldBy  == [c \in Conn |-> Held(c)]
BusyFor == [c \in Conn |-> Busy(c) # {}]

Chains == INSTANCE Chain WITH Grant <- Gens, given <- GivenTo, held <- HeldBy, busy <- BusyFor

ImplementsChain == Chains!ChainSpec

----------------------------------------------------------------------------
(* The inductive invariant behind the properties (OAuthProofs).            *)

\* The live access tokens of connection c, but for those a revocation missed.
Live(c) == {g \in Gens : <<c, g>> \in access /\ <<c, g>> \notin missed}

\* A connection the user has not consented to has nothing.
ClosedIsEmpty ==
    \A c \in Conn : <<c, 0>> \notin sent =>
      /\ Held(c) = {} /\ Busy(c) = {} /\ Live(c) = {}
      /\ \A g \in Gens : <<c, g>> \notin sent

\* Grants are numbered by the access tokens they were stored with.
GrantsFresh ==
    /\ \A c \in Conn, g \in Gens : <<c, g>> \in sent => g <= issued[c]
    /\ \A s \in Slot : LET q == req[s] IN
         q.at = "store" => q.gen = issued[q.conn] /\ <<q.conn, q.gen>> \notin sent

\* Whoever holds the connection will supersede every live access token.
GrantPaired(c) ==
    \A g \in Held(c) : Live(c) \subseteq IF g = 0 THEN {} ELSE {paired[c][g]}

RequestPaired(s) ==
    /\ req[s].at = "supersede" => Live(req[s].conn) \subseteq {req[s].pair}
    /\ req[s].at = "mint"      => Live(req[s].conn) = {}
    /\ req[s].at = "store"     => Live(req[s].conn) \subseteq {req[s].pair} /\ req[s].gen > 0

PairsCurrent == (\A c \in Conn : GrantPaired(c)) /\ (\A s \in Slot : RequestPaired(s))

IInv ==
    /\ TypeOK /\ ClosedIsEmpty /\ GrantsFresh
    /\ ChainNeverForks /\ OnlyNewestAccess /\ PairsCurrent

=============================================================================
