------------------------------ MODULE AccessProofs ------------------------------
(***************************************************************************)
(* Theorems about Access, for any set of users, workspace ids and request  *)
(* slots, whichever handlers are in play and, unless a theorem says        *)
(* otherwise, however they interleave.                                     *)
(*                                                                         *)
(* Base is what every theorem stands on: the steps a request of each kind  *)
(* can be at, and workspace ids that come from the ids issued.  Guarded    *)
(* adds what the handlers know when they run one after the other: between  *)
(* counting the admins and the write nobody else moves, and the invites a  *)
(* login is about to clear are memberships by then.  Landed is what a      *)
(* login can rely on as long as nobody is removed.                         *)
(***************************************************************************)
EXTENDS Access, FiniteSetTheorems, TLAPS

----------------------------------------------------------------------------
(* The inductive invariants.                                               *)

LoginSteps == {"find", "provision", "pending", "accept", "clear", "heal", "adopt"}

StepsOf(op) ==
    CASE op = "login"   -> LoginSteps \cup {"token"}
      [] op = "create"  -> {"new"}
      [] op = "mint"    -> {"authorise", "token"}
      [] op = "revoke"  -> {"revoke"}
      [] op = "invite"  -> {"authorise", "invite"}
      [] op = "setrole" -> {"authorise", "stepup", "role", "count", "update"}
      [] op = "remove"  -> {"authorise", "role", "count", "drop"}
      [] op = "delete"  -> {"authorise", "stepup", "destroy"}
      [] OTHER          -> {"ticket"}

\* A request q under way, the ids issued so far being ids.
Shape(q, ids) ==
    /\ q.op \in Op
    /\ q.at \in StepsOf(q.op)
    /\ q.ws \in ids \cup {Null}
    /\ q.op \notin {"login", "create"} => q.ws # Null
    /\ q.op \in {"invite", "setrole"} => q.role \in Roles
    /\ q.op = "remove" => q.role = "none"

Shaped == \A s \in Slot : req[s] # NoRequest => Shape(req[s], spent)

Base ==
    /\ TypeOK
    /\ live \subseteq spent
    /\ \A u \in User : default[u] \in spent \cup {Null}
    /\ Shaped
    /\ AccessEndsWithWorkspace

\* One request at a time.
Serial == \A x, y \in Slot : req[x] # NoRequest /\ req[y] # NoRequest => x = y

\* A write that takes an admin away leaves another.
Spared(q, roles) ==
    q.at \in {"update", "drop"} /\ roles[q.ws][q.target] = "admin" /\ q.role # "admin"
      => \E u \in User \ {q.target} : roles[q.ws][u] = "admin"

\* A login that is turning invites into memberships loses none of them.
Carried(q, inv, roles) ==
    \A w \in Ws :
      inv[w][q.user] # "none" =>
        /\ q.at = "accept" => q.pending[w] # "none" \/ roles[w][q.user] # "none"
        /\ q.at = "clear"  => roles[w][q.user] # "none"

Guarded ==
    /\ Serial
    /\ \A s \in Slot : req[s] # NoRequest =>
         Spared(req[s], role) /\ Carried(req[s], invites, role)

\* Where a login is heading its user is a member.
Heading(q, ids, roles) == q.op = "login" /\ q.ws \in ids => roles[q.ws][q.user] # "none"

Landed ==
    /\ \A u \in User : default[u] \in live => role[default[u]][u] # "none"
    /\ \A s \in Slot : req[s] # NoRequest => Heading(req[s], live, role)

----------------------------------------------------------------------------
(* How a step moves the request that takes it.                             *)

LEMMA NoRequestIsNone == NoRequest \notin Request
BY DEF NoRequest, Request, Ops

LEMMA Steered ==
    ASSUME NEW q \in Request, NEW at \in Steps
    PROVE  LET n == [q EXCEPT !.at = at] IN
           /\ n \in Request /\ n.at = at /\ n.op = q.op /\ n.user = q.user /\ n.ws = q.ws
           /\ n.target = q.target /\ n.role = q.role /\ n.pending = q.pending
BY DEF Request

\* The workspace a request is about.
Place == Ws \cup {Null}

\* n is q at another statement, about workspace w and with the invites p.
Steers(n, q, at, w, p) ==
    /\ n \in Request /\ n.at = at /\ n.op = q.op /\ n.user = q.user /\ n.ws = w
    /\ n.target = q.target /\ n.role = q.role /\ n.pending = p

LEMMA SteeredTo ==
    ASSUME NEW q \in Request, NEW at \in Steps, NEW w \in Place
    PROVE  Steers([q EXCEPT !.at = at, !.ws = w], q, at, w, q.pending)
BY DEF Steers, Request, Place

LEMMA SteeredWith ==
    ASSUME NEW q \in Request, NEW at \in Steps, NEW p \in [Ws -> Rank]
    PROVE  /\ Steers([q EXCEPT !.at = at, !.pending = p], q, at, q.ws, p)
           /\ Steers([q EXCEPT !.pending = p, !.at = at], q, at, q.ws, p)
BY DEF Steers, Request

LEMMA Asked ==
    ASSUME NEW op \in Ops, NEW at \in Steps, NEW u \in User, NEW w \in Ws \cup {Null},
           NEW t \in User, NEW r \in Rank
    PROVE  LET q == Ask(op, at, u, w, t, r) IN
           /\ q \in Request /\ q.op = op /\ q.at = at /\ q.user = u /\ q.ws = w
           /\ q.target = t /\ q.role = r
BY DEF Ask, Request, Rank

\* Only the request that steps moves.
Others(s) == \A x \in Slot \ {s} : req'[x] = req[x]

\* It goes on at another statement, with its locals, or it is over.
Moves(s, at) ==
    /\ Others(s)
    /\ req'[s] \in Request
    /\ req'[s].at = at /\ req'[s].op = req[s].op /\ req'[s].user = req[s].user
    /\ req'[s].ws = req[s].ws /\ req'[s].target = req[s].target
    /\ req'[s].role = req[s].role /\ req'[s].pending = req[s].pending

Ends(s) == Others(s) /\ req'[s] = NoRequest

LEMMA Replaced ==
    ASSUME TypeOK, NEW s \in Slot, NEW n \in Request \cup {NoRequest},
           req' = [req EXCEPT ![s] = n]
    PROVE  /\ req' \in [Slot -> Request \cup {NoRequest}]
           /\ Others(s) /\ req'[s] = n
BY DEF TypeOK, Others

LEMMA GotoMoves ==
    ASSUME TypeOK, NEW s \in Slot, req[s] # NoRequest, NEW at \in Steps, Goto(s, at)
    PROVE  req' \in [Slot -> Request \cup {NoRequest}] /\ Moves(s, at)
<1> DEFINE n == [req[s] EXCEPT !.at = at]
<1>1. req[s] \in Request
  BY DEF TypeOK
<1>2. req' = [req EXCEPT ![s] = n]
  BY DEF Goto
<1>3. /\ n \in Request /\ n.at = at /\ n.op = req[s].op /\ n.user = req[s].user
      /\ n.ws = req[s].ws /\ n.target = req[s].target /\ n.role = req[s].role
      /\ n.pending = req[s].pending
  BY <1>1, Steered
<1> HIDE DEF n
<1> QED
  BY <1>2, <1>3, Replaced DEF Moves

LEMMA DoneEnds ==
    ASSUME TypeOK, NEW s \in Slot, Done(s)
    PROVE  req' \in [Slot -> Request \cup {NoRequest}] /\ Ends(s)
BY Replaced DEF Done, Ends

----------------------------------------------------------------------------
(* Base is kept.                                                           *)

\* The part of Base that does not speak of requests.
Rows ==
    /\ live \in SUBSET Ws /\ spent \in SUBSET Ws /\ kept \in SUBSET Ws
    /\ users \in SUBSET User
    /\ default \in [User -> Ws \cup {Null}]
    /\ role \in [Ws -> [User -> Rank]]
    /\ invites \in [Ws -> [User -> Rank]]
    /\ tokens \in SUBSET (User \X Ws)
    /\ live \subseteq spent
    /\ \A u \in User : default[u] \in spent \cup {Null}
    /\ AccessEndsWithWorkspace

LEMMA BaseParts ==
    Base <=> Rows /\ req \in [Slot -> Request \cup {NoRequest}] /\ Shaped
BY DEF Base, Rows, TypeOK

LEMMA BaseWhole ==
    ASSUME Rows', req' \in [Slot -> Request \cup {NoRequest}], Shaped'
    PROVE  Base'
BY DEF Base, Rows, TypeOK

LEMMA RowsUnmoved ==
    ASSUME Rows, UNCHANGED <<live, spent, kept, users, default, role, invites, tokens>>
    PROVE  Rows'
BY DEF Rows, AccessEndsWithWorkspace, Nobody

LEMMA ShapedStays ==
    ASSUME Shaped, NEW s \in Slot, Others(s), spent \subseteq spent',
           req'[s] # NoRequest => Shape(req'[s], spent')
    PROVE  Shaped'
<1> SUFFICES ASSUME NEW x \in Slot, req'[x] # NoRequest
             PROVE  Shape(req'[x], spent')
  BY DEF Shaped
<1>1. CASE x = s
  BY <1>1
<1>2. CASE x # s
  <2>1. req'[x] = req[x]
    BY <1>2 DEF Others
  <2>2. Shape(req[x], spent)
    BY <2>1 DEF Shaped
  <2> QED
    BY <2>1, <2>2 DEF Shape
<1> QED
  BY <1>1, <1>2

LEMMA ShapedMoves ==
    ASSUME Shaped, NEW s \in Slot, req[s] # NoRequest, NEW at \in StepsOf(req[s].op),
           Moves(s, at), spent \subseteq spent'
    PROVE  Shaped'
<1>1. Shape(req[s], spent)
  BY DEF Shaped
<1>2. Shape(req'[s], spent')
  BY <1>1 DEF Shape, Moves
<1> QED
  BY <1>2, ShapedStays DEF Moves

LEMMA ShapedEnds ==
    ASSUME Shaped, NEW s \in Slot, Ends(s), spent \subseteq spent'
    PROVE  Shaped'
BY ShapedStays DEF Ends

\* A statement that only reads and goes on, or gives up.
LEMMA BaseGoes ==
    ASSUME Base, NEW s \in Slot, req[s] # NoRequest,
           NEW at \in StepsOf(req[s].op), at \in Steps, Goto(s, at),
           UNCHANGED <<live, spent, kept, users, default, role, invites, tokens>>
    PROVE  Base' /\ Moves(s, at)
<1>1. TypeOK /\ Shaped /\ Rows
  BY BaseParts DEF Base
<1>2. req' \in [Slot -> Request \cup {NoRequest}] /\ Moves(s, at)
  BY <1>1, GotoMoves
<1>3. Shaped'
  BY <1>1, <1>2, ShapedMoves
<1>4. Rows'
  BY <1>1, RowsUnmoved
<1> QED
  BY <1>2, <1>3, <1>4, BaseWhole

LEMMA OpSteps ==
    ASSUME NEW q \in Request, Shape(q, spent)
    PROVE  /\ q.at \in LoginSteps => q.op = "login"
           /\ q.at = "authorise" => q.op \in {"mint", "invite", "setrole", "remove", "delete"}
           /\ q.at = "stepup" => q.op \in {"setrole", "delete"}
           /\ q.at \in {"role", "count"} => q.op \in {"setrole", "remove"}
           /\ q.at = "token" => q.op \in {"login", "mint"}
           /\ q.at = "revoke" => q.op = "revoke"
           /\ q.at = "new" => q.op = "create"
           /\ q.at = "invite" => q.op = "invite"
           /\ q.at = "update" => q.op = "setrole"
           /\ q.at = "drop" => q.op = "remove"
           /\ q.at = "destroy" => q.op = "delete"
           /\ q.at = "ticket" => q.op = "ticket"
BY DEF Shape, StepsOf, LoginSteps, Request, Ops

LEMMA StepsAreSteps == ASSUME NEW op PROVE StepsOf(op) \subseteq Steps
BY DEF StepsOf, Steps, LoginSteps

\* The rows after each kind of write.
LEMMA RowsFound ==
    ASSUME Rows, NEW u \in User, NEW w, Found(u, w), UNCHANGED <<kept, invites, tokens>>,
           users' \in SUBSET User, default' \in [User -> Ws \cup {Null}],
           \A v \in User : default'[v] \in spent' \cup {Null}
    PROVE  /\ Rows'
           /\ w \in Ws /\ w \notin spent /\ w \in live' /\ live' = live \cup {w}
           /\ spent' = spent \cup {w}
           /\ role'[w][u] = "admin"
           /\ \A v \in Ws \ {w} : role'[v] = role[v]
<1>1. w \in Ws /\ w \notin spent /\ live' = live \cup {w} /\ spent' = spent \cup {w}
  BY DEF Found
<1>2. role' \in [Ws -> [User -> Rank]] /\ role'[w][u] = "admin"
      /\ \A v \in Ws \ {w} : role'[v] = role[v]
  BY <1>1 DEF Found, Rows, Rank, Roles
<1>3. AccessEndsWithWorkspace'
  BY <1>1, <1>2 DEF Rows, AccessEndsWithWorkspace, Nobody
<1> QED
  BY <1>1, <1>2, <1>3 DEF Rows

LEMMA RowsRole ==
    ASSUME Rows, NEW w \in Ws, NEW t \in User, NEW r \in Rank,
           role' = [role EXCEPT ![w][t] = r], w \in live \/ r = "none",
           UNCHANGED <<live, spent, kept, users, default, invites, tokens>>
    PROVE  /\ Rows'
           /\ role'[w][t] = r
           /\ \A x \in User \ {t} : role'[w][x] = role[w][x]
           /\ \A v \in Ws \ {w} : role'[v] = role[v]
<1>1. /\ role' \in [Ws -> [User -> Rank]] /\ role'[w][t] = r
      /\ \A x \in User \ {t} : role'[w][x] = role[w][x]
      /\ \A v \in Ws \ {w} : role'[v] = role[v]
  BY DEF Rows
<1>2. w \notin live => role'[w] = Nobody
  <2> SUFFICES ASSUME w \notin live PROVE role'[w] = Nobody
    OBVIOUS
  <2>1. role[w] = Nobody /\ r = "none"
    BY DEF Rows, AccessEndsWithWorkspace
  <2> QED
    BY <2>1 DEF Rows, Nobody
<1>3. AccessEndsWithWorkspace'
  BY <1>1, <1>2 DEF Rows, AccessEndsWithWorkspace, Nobody
<1> QED
  BY <1>1, <1>3 DEF Rows

LEMMA RowsInvites ==
    ASSUME Rows, invites' \in [Ws -> [User -> Rank]],
           \A w \in Ws \ live : invites'[w] = Nobody,
           UNCHANGED <<live, spent, kept, users, default, role, tokens>>
    PROVE  Rows'
BY DEF Rows, AccessEndsWithWorkspace, Nobody

\* The default workspace, the tokens and the workspaces with a ticket.
LEMMA RowsPlain ==
    ASSUME Rows, UNCHANGED <<live, spent, users, role, invites>>,
           default' \in [User -> Ws \cup {Null}],
           \A u \in User : default'[u] \in spent \cup {Null},
           tokens' \in SUBSET (User \X Ws),
           \A u \in User, w \in Ws \ live : <<u, w>> \in tokens' => <<u, w>> \in tokens,
           kept' \in SUBSET Ws, kept' \subseteq kept \cup live
    PROVE  Rows'
BY DEF Rows, AccessEndsWithWorkspace, Nobody

LEMMA RowsGone ==
    ASSUME Rows, NEW w \in live \ kept,
           live' = live \ {w}, role' = [role EXCEPT ![w] = Nobody],
           invites' = [invites EXCEPT ![w] = Nobody],
           tokens' = {t \in tokens : t[2] # w}, default' = DefaultsWithout(w),
           UNCHANGED <<spent, kept, users>>
    PROVE  /\ Rows'
           /\ \A v \in Ws \ {w} : role'[v] = role[v] /\ invites'[v] = invites[v]
           /\ \A u \in User : default'[u] = default[u] \/ default'[u] = Null
<1>1. w \in Ws /\ Nobody \in [User -> Rank]
  BY DEF Rows, Nobody, Rank
<1>2. /\ role' \in [Ws -> [User -> Rank]] /\ role'[w] = Nobody
      /\ invites' \in [Ws -> [User -> Rank]] /\ invites'[w] = Nobody
      /\ \A v \in Ws \ {w} : role'[v] = role[v] /\ invites'[v] = invites[v]
  BY <1>1 DEF Rows
<1>3. /\ default' \in [User -> Ws \cup {Null}]
      /\ \A u \in User : default'[u] = default[u] \/ default'[u] = Null
  BY DEF Rows, DefaultsWithout
<1>4. tokens' \in SUBSET (User \X Ws) /\ \A u \in User : <<u, w>> \notin tokens'
      /\ \A t \in tokens' : t \in tokens
  BY DEF Rows
<1>5. AccessEndsWithWorkspace'
  <2> SUFFICES ASSUME NEW v \in Ws \ live'
               PROVE  /\ role'[v] = Nobody' /\ invites'[v] = Nobody' /\ v \notin kept'
                      /\ \A u \in User : <<u, v>> \notin tokens'
    BY DEF AccessEndsWithWorkspace
  <2>1. CASE v = w
    BY <2>1, <1>2, <1>4 DEF Nobody
  <2>2. CASE v # w
    BY <2>2, <1>2, <1>4 DEF Rows, AccessEndsWithWorkspace, Nobody
  <2> QED
    BY <2>1, <2>2
<1> QED
  BY <1>2, <1>3, <1>4, <1>5 DEF Rows

----------------------------------------------------------------------------
(* What each statement does to its request and to the rows, and that it    *)
(* keeps Base.                                                             *)

LEMMA AtWork ==
    ASSUME Base, NEW s \in Slot, req[s] # NoRequest
    PROVE  /\ Rows /\ TypeOK /\ Shaped
           /\ req[s] \in Request /\ Shape(req[s], spent)
           /\ req[s].op \in Ops /\ req[s].op \in Op
           /\ req[s].at \in Steps /\ req[s].at \in StepsOf(req[s].op)
           /\ req[s].user \in User /\ req[s].ws \in Ws \cup {Null}
           /\ req[s].ws \in spent \cup {Null}
           /\ req[s].target \in User /\ req[s].role \in Rank
           /\ req[s].pending \in [Ws -> Rank]
           /\ req[s].op \notin {"login", "create"} => req[s].ws \in Ws
<1>1. Rows /\ TypeOK /\ Shaped
  BY BaseParts DEF Base
<1>2. req[s] \in Request /\ Shape(req[s], spent)
  BY <1>1 DEF TypeOK, Shaped
<1> QED
  BY <1>1, <1>2 DEF Request, Shape

\* A request over, with the rows well formed.
LEMMA BaseEnds ==
    ASSUME Base, NEW s \in Slot, Done(s), Rows', spent \subseteq spent'
    PROVE  Base' /\ Ends(s)
<1>1. TypeOK /\ Shaped
  BY DEF Base
<1>2. req' \in [Slot -> Request \cup {NoRequest}] /\ Ends(s)
  BY <1>1, DoneEnds
<1>3. Shaped'
  BY <1>1, <1>2, ShapedEnds
<1> QED
  BY <1>2, <1>3, BaseWhole

\* A request that goes on at another workspace or with other invites.
LEMMA BaseSteers ==
    ASSUME Base, NEW s \in Slot, req[s] # NoRequest, NEW n \in Request,
           req' = [req EXCEPT ![s] = n], Rows', spent \subseteq spent',
           n.op = req[s].op, n.at \in StepsOf(n.op), n.ws \in spent' \cup {Null},
           n.role = req[s].role, n.op \notin {"login", "create"} => n.ws # Null
    PROVE  Base' /\ Others(s) /\ req'[s] = n
<1>1. TypeOK /\ Shaped /\ Shape(req[s], spent)
  BY AtWork DEF Base
<1>2. req' \in [Slot -> Request \cup {NoRequest}] /\ Others(s) /\ req'[s] = n
  BY <1>1, Replaced
<1>3. Shape(n, spent')
  BY <1>1 DEF Shape
<1>4. Shaped'
  BY <1>1, <1>2, <1>3, ShapedStays
<1> QED
  BY <1>2, <1>4, BaseWhole

\* What a user may ask for, request by request.
LEMMA OneOfTheCalls ==
  ASSUME NEW u, NEW q \in Calls(u)
  PROVE  \/ q = Ask("create", "new", u, Null, u, "none")
         \/ \E w \in Ws : <<u, w>> \in tokens /\ q = Ask("revoke", "revoke", u, w, u, "none")
         \/ \E w \in Ws : Resolves(u, w) /\ q = Ask("ticket", "ticket", u, w, u, "none")
         \/ \E op \in {"mint", "delete"}, w \in spent : q = Ask(op, "authorise", u, w, u, "none")
         \/ \E w \in spent, t \in User, sent \in Offer :
              q = Ask("invite", "authorise", u, w, t, OfferedRole(sent))
         \/ \E w \in spent, t \in users, r \in Roles : q = Ask("setrole", "authorise", u, w, t, r)
         \/ \E w \in spent, t \in users : q = Ask("remove", "authorise", u, w, t, "none")
  BY DEF Calls

LEMMA CallDoes ==
    ASSUME Base, NEW s \in Slot, Call(s)
    PROVE  /\ Base' /\ Free(s) /\ Others(s)
           /\ UNCHANGED <<live, spent, kept, users, default, role, invites, tokens>>
           /\ req'[s] \in Request
           /\ req'[s].op \in Op /\ req'[s].op # "login"
           /\ req'[s].at \notin {"update", "drop", "accept", "clear"}
<1>1. Rows /\ TypeOK /\ Shaped
  BY BaseParts DEF Base
<1>0. PICK u \in users : \E q \in Calls(u) : q.op \in Op /\ req' = [req EXCEPT ![s] = q]
  BY DEF Call
<1>2. PICK q \in Calls(u) : q.op \in Op /\ req' = [req EXCEPT ![s] = q]
  BY <1>0
<1>3. u \in User /\ users \subseteq User /\ spent \subseteq Ws /\ Null \notin Ws
  BY <1>1, AccessAssumption DEF Rows
<1>4. /\ q \in Request /\ q.op # "login" /\ Shape(q, spent)
      /\ q.at \notin {"update", "drop", "accept", "clear"}
  <2> DEFINE OK(x) == /\ x \in Request /\ x.op # "login" /\ x.at \in StepsOf(x.op)
                      /\ x.ws \in spent \cup {Null}
                      /\ x.op \notin {"login", "create"} => x.ws # Null
                      /\ x.op \in {"invite", "setrole"} => x.role \in Roles
                      /\ x.op = "remove" => x.role = "none"
                      /\ x.at \notin {"update", "drop", "accept", "clear"}
  <2>0. \A w \in Ws : <<u, w>> \in tokens => w \in spent
    BY <1>1, <1>3 DEF Rows, AccessEndsWithWorkspace
  <2>1. OK(Ask("create", "new", u, Null, u, "none"))
    BY <1>3, Asked DEF Ops, Steps, Rank, StepsOf
  <2>2. ASSUME NEW w \in Ws, <<u, w>> \in tokens
        PROVE  OK(Ask("revoke", "revoke", u, w, u, "none"))
    BY <1>3, <2>0, <2>2, Asked DEF Ops, Steps, Rank, StepsOf
  <2>3. ASSUME NEW w \in Ws, Resolves(u, w)
        PROVE  OK(Ask("ticket", "ticket", u, w, u, "none"))
    BY <1>3, <2>0, <2>3, Asked DEF Ops, Steps, Rank, StepsOf, Resolves
  <2>4. ASSUME NEW op \in {"mint", "delete"}, NEW w \in spent
        PROVE  OK(Ask(op, "authorise", u, w, u, "none"))
    <3> DEFINE a == Ask(op, "authorise", u, w, u, "none")
    <3>2. w \in Ws \cup {Null} /\ w # Null /\ "none" \in Rank
          /\ op \in Ops /\ "authorise" \in Steps
      BY <1>3, <2>4 DEF Rank, Ops, Steps
    <3>3. a \in Request /\ a.op = op /\ a.at = "authorise" /\ a.ws = w
      BY <1>3, <3>2, Asked
    <3> HIDE DEF a
    <3>4. OK(a)
      BY <3>3, <3>2, <2>4 DEF StepsOf
    <3> QED
      BY <3>4 DEF a
  <2>5. ASSUME NEW w \in spent, NEW t \in User, NEW sent \in Offer
        PROVE  OK(Ask("invite", "authorise", u, w, t, OfferedRole(sent)))
    <3>1. OfferedRole(sent) \in Roles
      BY AccessAssumption DEF OfferedRole, Roles
    <3> DEFINE a == Ask("invite", "authorise", u, w, t, OfferedRole(sent))
    <3>2. w \in Ws \cup {Null} /\ w # Null /\ t \in User /\ OfferedRole(sent) \in Rank
          /\ "invite" \in Ops /\ "authorise" \in Steps
      BY <1>3, <3>1 DEF Rank, Ops, Steps
    <3>3. /\ a \in Request /\ a.op = "invite" /\ a.at = "authorise" /\ a.ws = w
          /\ a.role = OfferedRole(sent)
      BY <1>3, <3>2, Asked
    <3> HIDE DEF a
    <3>4. OK(a)
      BY <3>3, <3>2, <3>1 DEF StepsOf
    <3> QED
      BY <3>4 DEF a
  <2>6. ASSUME NEW w \in spent, NEW t \in users, NEW r \in Roles
        PROVE  OK(Ask("setrole", "authorise", u, w, t, r))
    <3> DEFINE a == Ask("setrole", "authorise", u, w, t, r)
    <3>2. w \in Ws \cup {Null} /\ w # Null /\ t \in User /\ r \in Rank
          /\ "setrole" \in Ops /\ "authorise" \in Steps
      BY <1>3 DEF Rank, Ops, Steps
    <3>3. /\ a \in Request /\ a.op = "setrole" /\ a.at = "authorise" /\ a.ws = w
          /\ a.role = r
      BY <1>3, <3>2, Asked
    <3> HIDE DEF a
    <3>4. OK(a)
      BY <3>3, <3>2 DEF StepsOf
    <3> QED
      BY <3>4 DEF a
  <2>7. ASSUME NEW w \in spent, NEW t \in users
        PROVE  OK(Ask("remove", "authorise", u, w, t, "none"))
    <3> DEFINE a == Ask("remove", "authorise", u, w, t, "none")
    <3>2. w \in Ws \cup {Null} /\ w # Null /\ t \in User /\ "none" \in Rank
          /\ "remove" \in Ops /\ "authorise" \in Steps
      BY <1>3 DEF Rank, Ops, Steps
    <3>3. /\ a \in Request /\ a.op = "remove" /\ a.at = "authorise" /\ a.ws = w
          /\ a.role = "none"
      BY <1>3, <3>2, Asked
    <3> HIDE DEF a
    <3>4. OK(a)
      BY <3>3, <3>2 DEF StepsOf
    <3> QED
      BY <3>4 DEF a
  <2> HIDE DEF OK
  <2>8. OK(q)
    <3>1. CASE q = Ask("create", "new", u, Null, u, "none")
      BY <2>1, <3>1
    <3>2. CASE \E w \in Ws : /\ <<u, w>> \in tokens
                             /\ q = Ask("revoke", "revoke", u, w, u, "none")
      BY <2>2, <3>2
    <3>3. CASE \E w \in Ws : /\ Resolves(u, w)
                             /\ q = Ask("ticket", "ticket", u, w, u, "none")
      BY <2>3, <3>3
    <3>4. CASE \E op \in {"mint", "delete"}, w \in spent :
                 q = Ask(op, "authorise", u, w, u, "none")
      BY <2>4, <3>4
    <3>5. CASE \E w \in spent, t \in User, sent \in Offer :
                 q = Ask("invite", "authorise", u, w, t, OfferedRole(sent))
      BY <2>5, <3>5
    <3>6. CASE \E w \in spent, t \in users, r \in Roles :
                 q = Ask("setrole", "authorise", u, w, t, r)
      BY <2>6, <3>6
    <3>7. CASE \E w \in spent, t \in users : q = Ask("remove", "authorise", u, w, t, "none")
      BY <2>7, <3>7
    <3> QED
      BY <3>1, <3>2, <3>3, <3>4, <3>5, <3>6, <3>7, OneOfTheCalls
  <2> QED
    BY <1>2, <2>8 DEF OK, Shape
<1>5. req' \in [Slot -> Request \cup {NoRequest}] /\ Others(s) /\ req'[s] = q
  BY <1>1, <1>2, <1>4, Replaced
<1>6. UNCHANGED <<live, spent, kept, users, default, role, invites, tokens>> /\ Free(s)
  BY DEF Call
<1>7. Rows'
  BY <1>1, <1>6, RowsUnmoved
<1>8. Shaped'
  BY <1>1, <1>4, <1>5, <1>6, ShapedStays
<1> QED
  BY <1>2, <1>4, <1>5, <1>6, <1>7, <1>8, BaseWhole

LEMMA LoginDoes ==
    ASSUME Base, NEW s \in Slot, Login(s)
    PROVE  /\ Base' /\ Free(s) /\ Others(s)
           /\ UNCHANGED <<live, spent, kept, users, default, role, invites, tokens>>
           /\ req'[s] \in Request /\ req'[s].at = "find" /\ req'[s].ws = Null
<1>1. Rows /\ TypeOK /\ Shaped
  BY BaseParts DEF Base
<1>2. PICK u \in User : req' = [req EXCEPT ![s] = Ask("login", "find", u, Null, u, "none")]
  BY DEF Login
<1> DEFINE q == Ask("login", "find", u, Null, u, "none")
<1>3. q \in Request /\ q.op = "login" /\ q.at = "find" /\ q.ws = Null
  BY Asked DEF Ops, Steps, Rank
<1> HIDE DEF q
<1>4. Shape(q, spent)
  BY <1>3 DEF Shape, StepsOf, LoginSteps, Login
<1>5. req' \in [Slot -> Request \cup {NoRequest}] /\ Others(s) /\ req'[s] = q
  BY <1>1, <1>2, <1>3, Replaced DEF q
<1>6. UNCHANGED <<live, spent, kept, users, default, role, invites, tokens>> /\ Free(s)
  BY DEF Login
<1>7. Rows'
  BY <1>1, <1>6, RowsUnmoved
<1>8. Shaped'
  BY <1>1, <1>4, <1>5, <1>6, ShapedStays
<1> QED
  BY <1>3, <1>5, <1>6, <1>7, <1>8, BaseWhole

LEMMA FailDoes ==
    ASSUME Base, NEW s \in Slot, Fail(s)
    PROVE  /\ Base' /\ Ends(s)
           /\ UNCHANGED <<live, spent, kept, users, default, role, invites, tokens>>
<1>1. Done(s) /\ UNCHANGED <<live, spent, kept, users, default, role, invites, tokens>>
  BY DEF Fail
<1>2. Rows'
  BY <1>1, BaseParts, RowsUnmoved
<1> QED
  BY <1>1, <1>2, BaseEnds

LEMMA FindUserDoes ==
    ASSUME Base, NEW s \in Slot, FindUser(s)
    PROVE  /\ Base' /\ Others(s)
           /\ UNCHANGED <<live, spent, kept, users, default, role, invites, tokens>>
           /\ req[s] # NoRequest /\ req[s].op = "login"
           /\ \/ Moves(s, "provision")
              \/ /\ req'[s] \in Request /\ req'[s].at = "pending" /\ req'[s].op = req[s].op
                 /\ req'[s].user = req[s].user /\ req'[s].ws = default[req[s].user]
<1> DEFINE q == req[s]
<1>1. q # NoRequest /\ q.at = "find"
      /\ UNCHANGED <<live, spent, kept, users, default, role, invites, tokens>>
  BY DEF FindUser
<1>2. q \in Request /\ Shape(q, spent) /\ Rows /\ q.user \in User
  BY <1>1, AtWork
<1>3. q.op = "login"
  BY <1>1, <1>2, OpSteps DEF LoginSteps
<1>4. CASE q.user \in users
  <2> DEFINE n == [q EXCEPT !.at = "pending", !.ws = default[q.user]]
  <2>1. default[q.user] \in Ws \cup {Null} /\ default[q.user] \in spent \cup {Null}
    BY <1>2 DEF Rows
  <2>0. Steers(n, q, "pending", default[q.user], q.pending)
    <3>1. "pending" \in Steps /\ default[q.user] \in Place /\ q \in Request
      BY <1>2, <2>1 DEF Steps, Place
    <3> QED
      BY <3>1, SteeredTo
  <2>3. req' = [req EXCEPT ![s] = n]
    BY <1>4 DEF FindUser
  <2> HIDE DEF n
  <2>2. /\ n \in Request /\ n.at = "pending" /\ n.op = q.op /\ n.user = q.user
        /\ n.ws = default[q.user] /\ n.role = q.role
    BY <2>0 DEF Steers
  <2>4. Rows' /\ spent \subseteq spent'
    BY <1>1, <1>2, RowsUnmoved
  <2>5. n.at \in StepsOf(n.op) /\ n.ws \in spent' \cup {Null}
    BY <1>1, <1>3, <2>1, <2>2 DEF StepsOf, LoginSteps
  <2>6. Base' /\ Others(s) /\ req'[s] = n
    BY <1>1, <1>3, <2>2, <2>3, <2>4, <2>5, BaseSteers
  <2> QED
    BY <1>1, <1>3, <2>2, <2>6
<1>5. CASE q.user \notin users
  <2>1. Goto(s, "provision")
    BY <1>5 DEF FindUser, Goto
  <2>2. "provision" \in StepsOf(q.op) /\ "provision" \in Steps
    BY <1>3 DEF StepsOf, LoginSteps, Steps
  <2>3. Base' /\ Moves(s, "provision")
    BY <1>1, <2>1, <2>2, BaseGoes
  <2> QED
    BY <1>1, <1>3, <2>3 DEF Moves
<1> QED
  BY <1>4, <1>5

LEMMA ProvisionDoes ==
    ASSUME Base, NEW s \in Slot, Provision(s)
    PROVE  /\ Base' /\ Others(s) /\ UNCHANGED <<kept, invites, tokens>>
           /\ req[s] # NoRequest /\ req[s].op = "login"
           /\ \/ Ends(s) /\ UNCHANGED <<live, spent, users, default, role>>
              \/ \E w \in Ws \ spent :
                   /\ live' = live \cup {w} /\ spent' = spent \cup {w}
                   /\ role'[w][req[s].user] = "admin"
                   /\ \A v \in Ws \ {w} : role'[v] = role[v]
                   /\ default' = [default EXCEPT ![req[s].user] = w]
                   /\ req'[s] \in Request /\ req'[s].at = "pending" /\ req'[s].op = req[s].op
                   /\ req'[s].user = req[s].user /\ req'[s].ws = w
<1> DEFINE q == req[s]
<1>1. q # NoRequest /\ q.at = "provision" /\ UNCHANGED <<kept, invites, tokens>>
  BY DEF Provision
<1>2. q \in Request /\ Shape(q, spent) /\ Rows /\ q.user \in User
  BY <1>1, AtWork
<1>3. q.op = "login"
  BY <1>1, <1>2, OpSteps DEF LoginSteps
<1>4. CASE Done(s) /\ UNCHANGED <<live, spent, users, default, role>>
  <2>1. Rows' /\ spent \subseteq spent'
    BY <1>1, <1>2, <1>4, RowsUnmoved
  <2> QED
    BY <1>1, <1>3, <1>4, <2>1, BaseEnds DEF Ends
<1>5. ASSUME NEW w \in Ws, Found(q.user, w), users' = users \cup {q.user},
             default' = [default EXCEPT ![q.user] = w],
             req' = [req EXCEPT ![s] = [q EXCEPT !.at = "pending", !.ws = w]]
      PROVE  /\ Base' /\ Others(s) /\ w \in Ws \ spent
             /\ live' = live \cup {w} /\ spent' = spent \cup {w}
             /\ role'[w][q.user] = "admin"
             /\ \A v \in Ws \ {w} : role'[v] = role[v]
             /\ req'[s] \in Request /\ req'[s].at = "pending" /\ req'[s].op = q.op
             /\ req'[s].user = q.user /\ req'[s].ws = w
  <2> DEFINE n == [q EXCEPT !.at = "pending", !.ws = w]
  <2>0. Steers(n, q, "pending", w, q.pending)
    <3>1. "pending" \in Steps /\ w \in Place /\ q \in Request
      BY <1>2 DEF Steps, Place
    <3> QED
      BY <3>1, SteeredTo
  <2>2. req' = [req EXCEPT ![s] = n]
    BY <1>5
  <2> HIDE DEF n
  <2>1. /\ n \in Request /\ n.at = "pending" /\ n.op = q.op /\ n.user = q.user
        /\ n.ws = w /\ n.role = q.role
    BY <2>0 DEF Steers
  <2>3. spent' = spent \cup {w}
    BY <1>5 DEF Found
  <2>4. users' \in SUBSET User /\ default' \in [User -> Ws \cup {Null}]
        /\ \A v \in User : default'[v] \in spent' \cup {Null}
    BY <1>2, <1>5, <2>3 DEF Rows
  <2>5. /\ Rows' /\ w \notin spent /\ live' = live \cup {w}
        /\ role'[w][q.user] = "admin"
        /\ \A v \in Ws \ {w} : role'[v] = role[v]
    BY <1>1, <1>2, <1>5, <2>4, RowsFound
  <2>6. /\ n.at \in StepsOf(n.op) /\ n.ws \in spent' \cup {Null} /\ spent \subseteq spent'
        /\ n.op \notin {"login", "create"} => n.ws # Null
    BY <1>1, <1>3, <2>1, <2>3 DEF StepsOf, LoginSteps
  <2>7. Base' /\ Others(s) /\ req'[s] = n
    BY <1>1, <1>3, <2>1, <2>2, <2>5, <2>6, BaseSteers
  <2> QED
    BY <2>1, <2>3, <2>5, <2>7
<1> QED
  <2>1. CASE q.user \in users
    BY <1>4, <2>1 DEF Provision
  <2>2. CASE q.user \notin users
    <3>1. PICK w \in Ws :
            /\ Found(q.user, w) /\ users' = users \cup {q.user}
            /\ default' = [default EXCEPT ![q.user] = w]
            /\ req' = [req EXCEPT ![s] = [q EXCEPT !.at = "pending", !.ws = w]]
      BY <2>2 DEF Provision
    <3>2. /\ Base' /\ Others(s) /\ w \in Ws \ spent
          /\ live' = live \cup {w} /\ spent' = spent \cup {w}
          /\ role'[w][q.user] = "admin"
          /\ \A v \in Ws \ {w} : role'[v] = role[v]
          /\ req'[s] \in Request /\ req'[s].at = "pending" /\ req'[s].op = q.op
          /\ req'[s].user = q.user /\ req'[s].ws = w
      BY <3>1, <1>5
    <3> QED
      BY <1>1, <1>3, <3>1, <3>2
  <2> QED
    BY <2>1, <2>2

LEMMA ReadInvitesDoes ==
    ASSUME Base, NEW s \in Slot, ReadInvites(s)
    PROVE  /\ Base' /\ Others(s)
           /\ UNCHANGED <<live, spent, kept, users, default, role, invites, tokens>>
           /\ req[s] # NoRequest /\ req[s].op = "login" /\ req'[s] \in Request
           /\ req'[s].op = req[s].op /\ req'[s].user = req[s].user /\ req'[s].ws = req[s].ws
           /\ \/ req'[s].at \in {"heal", "token"}
              \/ /\ req'[s].at = "accept"
                 /\ \A w \in Ws : req'[s].pending[w] = invites[w][req[s].user]
<1> DEFINE q == req[s]
           found == [w \in Ws |-> invites[w][q.user]]
<1>1. q # NoRequest /\ q.at = "pending"
      /\ UNCHANGED <<live, spent, kept, users, default, role, invites, tokens>>
  BY DEF ReadInvites
<1>2. q \in Request /\ Shape(q, spent) /\ Rows /\ q.user \in User
  BY <1>1, AtWork
<1>3. q.op = "login"
  BY <1>1, <1>2, OpSteps DEF LoginSteps
<1>4. CASE \A w \in Ws : found[w] = "none"
  <2> DEFINE at == AfterInvites(q.ws)
  <2>1. at \in {"heal", "token"}
    BY DEF AfterInvites
  <2>2. Goto(s, at)
    BY <1>4 DEF ReadInvites, Goto
  <2> HIDE DEF at
  <2>3. at \in StepsOf(q.op) /\ at \in Steps
    BY <1>3, <2>1 DEF StepsOf, LoginSteps, Steps
  <2>4. Base' /\ Moves(s, at)
    BY <1>1, <2>2, <2>3, BaseGoes
  <2> QED
    BY <1>1, <1>3, <2>1, <2>4 DEF Moves
<1>5. CASE ~ \A w \in Ws : found[w] = "none"
  <2> DEFINE n == [q EXCEPT !.at = "accept", !.pending = found]
  <2>1. found \in [Ws -> Rank]
    BY <1>2 DEF Rows
  <2> HIDE DEF found
  <2>0. Steers(n, q, "accept", q.ws, found)
    <3>1. "accept" \in Steps
      BY DEF Steps
    <3> QED
      BY <1>2, <2>1, <3>1, SteeredWith
  <2>3. req' = [req EXCEPT ![s] = n]
    BY <1>5 DEF ReadInvites, found
  <2> HIDE DEF n
  <2>2. /\ n \in Request /\ n.at = "accept" /\ n.op = q.op /\ n.user = q.user
        /\ n.ws = q.ws /\ n.role = q.role /\ n.pending = found
    BY <2>0 DEF Steers
  <2>4. Rows' /\ spent \subseteq spent'
    BY <1>1, <1>2, RowsUnmoved
  <2>5. n.at \in StepsOf(n.op) /\ n.ws \in spent' \cup {Null}
    BY <1>1, <1>2, <1>3, <2>2 DEF StepsOf, LoginSteps, Shape
  <2>6. Base' /\ Others(s) /\ req'[s] = n
    BY <1>1, <1>3, <2>2, <2>3, <2>4, <2>5, BaseSteers
  <2> QED
    BY <1>1, <1>3, <2>2, <2>6 DEF found
<1> QED
  BY <1>4, <1>5

LEMMA AcceptInviteDoes ==
    ASSUME Base, NEW s \in Slot, AcceptInvite(s)
    PROVE  /\ Base' /\ Others(s)
           /\ UNCHANGED <<live, spent, kept, users, default, invites, tokens>>
           /\ req[s] # NoRequest /\ req[s].op = "login" /\ req[s].at = "accept"
           /\ \/ Ends(s) /\ UNCHANGED role
              \/ \E w \in live :
                   /\ role'[w][req[s].user] = Join(role[w][req[s].user], req[s].pending[w])
                   /\ role'[w][req[s].user] # "none"
                   /\ \A x \in User \ {req[s].user} : role'[w][x] = role[w][x]
                   /\ \A v \in Ws \ {w} : role'[v] = role[v]
                   /\ req'[s] \in Request /\ req'[s].op = req[s].op
                   /\ req'[s].user = req[s].user /\ req'[s].ws = req[s].ws
                   /\ \/ req'[s].at = "clear" /\ \A v \in Ws \ {w} : req[s].pending[v] = "none"
                      \/ /\ req'[s].at = "accept"
                         /\ \A v \in Ws \ {w} : req'[s].pending[v] = req[s].pending[v]
<1> DEFINE q == req[s]
<1>1. q # NoRequest /\ q.at = "accept"
      /\ UNCHANGED <<live, spent, kept, users, default, invites, tokens>>
  BY DEF AcceptInvite
<1>2. q \in Request /\ Shape(q, spent) /\ Rows /\ q.user \in User /\ q.pending \in [Ws -> Rank]
  BY <1>1, AtWork
<1>3. q.op = "login"
  BY <1>1, <1>2, OpSteps DEF LoginSteps
<1>4. PICK w \in Ws :
        /\ q.pending[w] # "none"
        /\ \/ /\ Exists(w)
              /\ role' = [role EXCEPT ![w][q.user] = Join(@, q.pending[w])]
              /\ req' = [req EXCEPT ![s] =
                           [q EXCEPT !.pending = [@ EXCEPT ![w] = "none"],
                                     !.at = IF \A v \in Ws \ {w} : q.pending[v] = "none"
                                            THEN "clear" ELSE "accept"]]
           \/ ~Exists(w) /\ Done(s) /\ UNCHANGED role
  BY DEF AcceptInvite
<1>5. CASE ~Exists(w)
  <2>1. Done(s) /\ UNCHANGED role
    BY <1>4, <1>5
  <2>2. Rows' /\ spent \subseteq spent'
    BY <1>1, <1>2, <2>1, RowsUnmoved
  <2> QED
    BY <1>1, <1>3, <2>1, <2>2, BaseEnds DEF Ends
<1>6. CASE Exists(w)
  <2> DEFINE r  == Join(role[w][q.user], q.pending[w])
             p  == [q.pending EXCEPT ![w] = "none"]
             at == IF \A v \in Ws \ {w} : q.pending[v] = "none" THEN "clear" ELSE "accept"
             n  == [q EXCEPT !.pending = p, !.at = at]
  <2>1. r \in Rank /\ r # "none" /\ w \in live
    BY <1>2, <1>4, <1>6 DEF Join, Exists, Rows
  <2>2. p \in [Ws -> Rank] /\ \A v \in Ws \ {w} : p[v] = q.pending[v]
    BY <1>2 DEF Rank
  <2>3. at \in {"clear", "accept"} /\ at \in Steps
        /\ (at = "clear" => \A v \in Ws \ {w} : q.pending[v] = "none")
    BY DEF Steps
  <2>4. role' = [role EXCEPT ![w][q.user] = r] /\ req' = [req EXCEPT ![s] = n]
    BY <1>4, <1>6
  <2> HIDE DEF r, p, at
  <2>5. Steers(n, q, at, q.ws, p)
    BY <1>2, <2>2, <2>3, SteeredWith
  <2> HIDE DEF n
  <2>6. /\ n \in Request /\ n.at = at /\ n.op = q.op /\ n.user = q.user
        /\ n.ws = q.ws /\ n.role = q.role /\ n.pending = p
    BY <2>5 DEF Steers
  <2>7. /\ Rows' /\ role'[w][q.user] = r
        /\ \A x \in User \ {q.user} : role'[w][x] = role[w][x]
        /\ \A v \in Ws \ {w} : role'[v] = role[v]
    <3>1. role' = [role EXCEPT ![w][q.user] = r]
      BY <2>4
    <3>2. Rows /\ w \in Ws /\ q.user \in User /\ r \in Rank /\ w \in live
          /\ UNCHANGED <<live, spent, kept, users, default, invites, tokens>>
      BY <1>1, <1>2, <2>1
    <3> HIDE DEF q
    <3> QED
      BY <3>1, <3>2, RowsRole
  <2>8. /\ n.at \in StepsOf(n.op) /\ n.ws \in spent' \cup {Null} /\ spent \subseteq spent'
        /\ n.op \notin {"login", "create"} => n.ws # Null
    BY <1>1, <1>2, <1>3, <2>3, <2>6 DEF StepsOf, LoginSteps, Shape
  <2>9. Base' /\ Others(s) /\ req'[s] = n
    BY <1>1, <2>4, <2>6, <2>7, <2>8, BaseSteers
  <2>10. \/ req'[s].at = "clear" /\ \A v \in Ws \ {w} : q.pending[v] = "none"
         \/ /\ req'[s].at = "accept"
            /\ \A v \in Ws \ {w} : req'[s].pending[v] = q.pending[v]
    BY <2>2, <2>3, <2>6, <2>9
  <2> QED
    BY <1>1, <1>3, <2>1, <2>6, <2>7, <2>9, <2>10 DEF r
<1> QED
  BY <1>5, <1>6

LEMMA ClearInvitesDoes ==
    ASSUME Base, NEW s \in Slot, ClearInvites(s)
    PROVE  /\ Base' /\ Others(s)
           /\ UNCHANGED <<live, spent, kept, users, default, role, tokens>>
           /\ req[s] # NoRequest /\ req[s].op = "login" /\ req[s].at = "clear"
           /\ \A w \in Ws, u \in User \ {req[s].user} : invites'[w][u] = invites[w][u]
           /\ \E at \in {"heal", "token"} : Moves(s, at)
<1> DEFINE q == req[s]
           at == AfterInvites(q.ws)
<1>1. q # NoRequest /\ q.at = "clear" /\ invites' = Uninvited(q.user) /\ Goto(s, at)
      /\ UNCHANGED <<live, spent, kept, users, default, role, tokens>>
  BY DEF ClearInvites
<1>2. q \in Request /\ Shape(q, spent) /\ Rows /\ TypeOK /\ Shaped /\ q.user \in User
  BY <1>1, AtWork
<1>3. q.op = "login"
  BY <1>1, <1>2, OpSteps DEF LoginSteps
<1>4. at \in {"heal", "token"}
  BY DEF AfterInvites
<1> HIDE DEF at
<1>5. at \in StepsOf(q.op) /\ at \in Steps
  BY <1>3, <1>4 DEF StepsOf, LoginSteps, Steps
<1>6. req' \in [Slot -> Request \cup {NoRequest}] /\ Moves(s, at)
  BY <1>1, <1>2, <1>5, GotoMoves
<1>7. Shaped'
  BY <1>1, <1>2, <1>5, <1>6, ShapedMoves
<1>8. /\ invites' \in [Ws -> [User -> Rank]]
      /\ \A w \in Ws, u \in User \ {q.user} : invites'[w][u] = invites[w][u]
      /\ \A w \in Ws \ live : invites'[w] = Nobody
  BY <1>1, <1>2 DEF Uninvited, Rows, Rank, AccessEndsWithWorkspace, Nobody
<1>9. Rows'
  BY <1>1, <1>2, <1>8, RowsInvites
<1> QED
  BY <1>1, <1>3, <1>4, <1>6, <1>7, <1>8, <1>9, BaseWhole DEF Moves

LEMMA HealDoes ==
    ASSUME Base, NEW s \in Slot, Heal(s)
    PROVE  /\ Base' /\ Others(s) /\ UNCHANGED <<kept, users, default, invites, tokens>>
           /\ req[s] # NoRequest /\ req[s].op = "login"
           /\ \E w \in Ws \ spent :
                /\ live' = live \cup {w} /\ spent' = spent \cup {w}
                /\ role'[w][req[s].user] = "admin"
                /\ \A v \in Ws \ {w} : role'[v] = role[v]
                /\ req'[s] \in Request /\ req'[s].at = "adopt" /\ req'[s].op = req[s].op
                /\ req'[s].user = req[s].user /\ req'[s].ws = w
<1> DEFINE q == req[s]
<1>1. q # NoRequest /\ q.at = "heal" /\ UNCHANGED <<kept, users, default, invites, tokens>>
  BY DEF Heal
<1>2. q \in Request /\ Shape(q, spent) /\ Rows /\ q.user \in User
  BY <1>1, AtWork
<1>3. q.op = "login"
  BY <1>1, <1>2, OpSteps DEF LoginSteps
<1>4. PICK w \in Ws : Found(q.user, w)
        /\ req' = [req EXCEPT ![s] = [q EXCEPT !.at = "adopt", !.ws = w]]
  BY DEF Heal
<1> DEFINE n == [q EXCEPT !.at = "adopt", !.ws = w]
<1>5. Steers(n, q, "adopt", w, q.pending)
  <2>1. "adopt" \in Steps /\ w \in Place /\ q \in Request
    BY <1>2 DEF Steps, Place
  <2> QED
    BY <2>1, SteeredTo
<1>6. req' = [req EXCEPT ![s] = n]
  BY <1>4
<1> HIDE DEF n
<1>7. /\ n \in Request /\ n.at = "adopt" /\ n.op = q.op /\ n.user = q.user
      /\ n.ws = w /\ n.role = q.role
  BY <1>5 DEF Steers
<1>8. spent' = spent \cup {w}
  BY <1>4 DEF Found
<1>9. users' \in SUBSET User /\ default' \in [User -> Ws \cup {Null}]
      /\ \A v \in User : default'[v] \in spent' \cup {Null}
  BY <1>1, <1>2, <1>8 DEF Rows
<1>10. /\ Rows' /\ w \notin spent /\ live' = live \cup {w}
       /\ role'[w][q.user] = "admin"
       /\ \A v \in Ws \ {w} : role'[v] = role[v]
  BY <1>1, <1>2, <1>4, <1>9, RowsFound
<1>11. /\ n.at \in StepsOf(n.op) /\ n.ws \in spent' \cup {Null} /\ spent \subseteq spent'
       /\ n.op \notin {"login", "create"} => n.ws # Null
  BY <1>1, <1>3, <1>7, <1>8 DEF StepsOf, LoginSteps
<1>12. Base' /\ Others(s) /\ req'[s] = n
  BY <1>1, <1>6, <1>7, <1>10, <1>11, BaseSteers
<1> QED
  BY <1>1, <1>3, <1>7, <1>8, <1>10, <1>12

LEMMA AdoptDefaultDoes ==
    ASSUME Base, NEW s \in Slot, AdoptDefault(s)
    PROVE  /\ Base' /\ Others(s)
           /\ UNCHANGED <<live, spent, kept, users, role, invites, tokens>>
           /\ req[s] # NoRequest /\ req[s].op = "login"
           /\ default' = [default EXCEPT ![req[s].user] = req[s].ws]
           /\ Moves(s, "token")
<1> DEFINE q == req[s]
<1>1. q # NoRequest /\ q.at = "adopt" /\ default' = [default EXCEPT ![q.user] = q.ws]
      /\ Goto(s, "token") /\ UNCHANGED <<live, spent, kept, users, role, invites, tokens>>
  BY DEF AdoptDefault
<1>2. q \in Request /\ Shape(q, spent) /\ Rows /\ TypeOK /\ Shaped /\ q.user \in User
      /\ q.ws \in Ws \cup {Null} /\ q.ws \in spent \cup {Null}
  BY <1>1, AtWork
<1>3. q.op = "login"
  BY <1>1, <1>2, OpSteps DEF LoginSteps
<1>4. "token" \in StepsOf(q.op) /\ "token" \in Steps
  BY <1>3 DEF StepsOf, Steps
<1>5. req' \in [Slot -> Request \cup {NoRequest}] /\ Moves(s, "token")
  BY <1>1, <1>2, <1>4, GotoMoves
<1>6. Shaped'
  BY <1>1, <1>2, <1>4, <1>5, ShapedMoves
<1>7. default' \in [User -> Ws \cup {Null}] /\ \A u \in User : default'[u] \in spent \cup {Null}
  BY <1>1, <1>2 DEF Rows
<1>8. Rows'
  BY <1>1, <1>2, <1>7, RowsPlain DEF Rows
<1> QED
  BY <1>1, <1>3, <1>5, <1>6, <1>8, BaseWhole DEF Moves

LEMMA AuthoriseDoes ==
    ASSUME Base, NEW s \in Slot, Authorise(s)
    PROVE  /\ Base' /\ req[s] # NoRequest /\ req[s].op # "login"
           /\ UNCHANGED <<live, spent, kept, users, default, role, invites, tokens>>
           /\ Ends(s) \/ \E at \in {"token", "invite", "stepup", "role"} : Moves(s, at)
<1> DEFINE q == req[s]
           at == AfterAuthorise(q)
<1>1. q # NoRequest /\ q.at = "authorise" /\ (Goto(s, at) \/ Done(s))
      /\ UNCHANGED <<live, spent, kept, users, default, role, invites, tokens>>
  BY DEF Authorise
<1>2. q \in Request /\ Shape(q, spent) /\ Rows
  BY <1>1, AtWork
<1>3. q.op \in {"mint", "invite", "setrole", "remove", "delete"}
  BY <1>1, <1>2, OpSteps
<1>4. at \in {"token", "invite", "stepup", "role"} /\ at \in StepsOf(q.op)
  BY <1>3 DEF AfterAuthorise, StepsOf
<1> HIDE DEF at
<1>5. at \in Steps
  BY <1>4 DEF Steps
<1>6. Rows' /\ spent \subseteq spent'
  BY <1>1, <1>2, RowsUnmoved
<1>7. CASE Goto(s, at)
  BY <1>1, <1>3, <1>4, <1>5, <1>7, BaseGoes
<1>8. CASE Done(s)
  BY <1>1, <1>3, <1>6, <1>8, BaseEnds
<1> QED
  BY <1>1, <1>7, <1>8

LEMMA StepUpDoes ==
    ASSUME Base, NEW s \in Slot, StepUp(s)
    PROVE  /\ Base' /\ req[s] # NoRequest /\ req[s].op # "login"
           /\ UNCHANGED <<live, spent, kept, users, default, role, invites, tokens>>
           /\ Ends(s) \/ \E at \in {"destroy", "role"} : Moves(s, at)
<1> DEFINE q == req[s]
           at == IF q.op = "delete" THEN "destroy" ELSE "role"
<1>1. q # NoRequest /\ q.at = "stepup" /\ (Goto(s, at) \/ Done(s))
      /\ UNCHANGED <<live, spent, kept, users, default, role, invites, tokens>>
  BY DEF StepUp
<1>2. q \in Request /\ Shape(q, spent) /\ Rows
  BY <1>1, AtWork
<1>3. q.op \in {"setrole", "delete"}
  BY <1>1, <1>2, OpSteps
<1>4. at \in {"destroy", "role"} /\ at \in StepsOf(q.op)
  BY <1>3 DEF StepsOf
<1> HIDE DEF at
<1>5. at \in Steps
  BY <1>4 DEF Steps
<1>6. Rows' /\ spent \subseteq spent'
  BY <1>1, <1>2, RowsUnmoved
<1>7. CASE Goto(s, at)
  BY <1>1, <1>3, <1>4, <1>5, <1>7, BaseGoes
<1>8. CASE Done(s)
  BY <1>1, <1>3, <1>6, <1>8, BaseEnds
<1> QED
  BY <1>1, <1>7, <1>8

LEMMA MintTokenDoes ==
    ASSUME Base, NEW s \in Slot, MintToken(s)
    PROVE  /\ Base' /\ Ends(s) /\ req[s] # NoRequest
           /\ UNCHANGED <<live, spent, kept, users, default, role, invites>>
<1> DEFINE q == req[s]
<1>1. q # NoRequest /\ Done(s) /\ UNCHANGED <<live, spent, kept, users, default, role, invites>>
      /\ \/ Exists(q.ws) /\ tokens' = tokens \cup {<<q.user, q.ws>>}
         \/ UNCHANGED tokens
  BY DEF MintToken
<1>2. Rows /\ q.user \in User /\ q.ws \in Ws \cup {Null}
  BY <1>1, AtWork
<1>3. /\ tokens' \in SUBSET (User \X Ws)
      /\ \A u \in User, w \in Ws \ live : <<u, w>> \in tokens' => <<u, w>> \in tokens
  BY <1>1, <1>2 DEF Rows, Exists
<1>4. Rows' /\ spent \subseteq spent'
  BY <1>1, <1>2, <1>3, RowsPlain DEF Rows
<1> QED
  BY <1>1, <1>4, BaseEnds

LEMMA RevokeTokenDoes ==
    ASSUME Base, NEW s \in Slot, RevokeToken(s)
    PROVE  /\ Base' /\ Ends(s) /\ req[s] # NoRequest
           /\ UNCHANGED <<live, spent, kept, users, default, role, invites>>
<1>1. req[s] # NoRequest /\ Done(s)
      /\ UNCHANGED <<live, spent, kept, users, default, role, invites>>
      /\ tokens' \subseteq tokens
  BY DEF RevokeToken
<1>2. Rows
  BY <1>1, AtWork
<1>3. /\ tokens' \in SUBSET (User \X Ws)
      /\ \A u \in User, w \in Ws \ live : <<u, w>> \in tokens' => <<u, w>> \in tokens
  BY <1>1, <1>2 DEF Rows
<1>4. Rows' /\ spent \subseteq spent'
  BY <1>1, <1>2, <1>3, RowsPlain DEF Rows
<1> QED
  BY <1>1, <1>4, BaseEnds

LEMMA NewWorkspaceDoes ==
    ASSUME Base, NEW s \in Slot, NewWorkspace(s)
    PROVE  /\ Base' /\ Ends(s) /\ req[s] # NoRequest
           /\ UNCHANGED <<kept, users, default, invites, tokens>>
           /\ \E w \in Ws \ spent :
                /\ live' = live \cup {w} /\ spent' = spent \cup {w}
                /\ role'[w][req[s].user] = "admin"
                /\ \A v \in Ws \ {w} : role'[v] = role[v]
<1> DEFINE q == req[s]
<1>1. q # NoRequest /\ Done(s) /\ UNCHANGED <<kept, users, default, invites, tokens>>
  BY DEF NewWorkspace
<1>2. Rows /\ q.user \in User
  BY <1>1, AtWork
<1>3. PICK w \in Ws : Found(q.user, w)
  BY DEF NewWorkspace
<1>4. spent' = spent \cup {w}
  BY <1>3 DEF Found
<1>5. users' \in SUBSET User /\ default' \in [User -> Ws \cup {Null}]
      /\ \A v \in User : default'[v] \in spent' \cup {Null}
  BY <1>1, <1>2, <1>4 DEF Rows
<1>6. /\ Rows' /\ w \notin spent /\ live' = live \cup {w}
      /\ role'[w][q.user] = "admin"
      /\ \A v \in Ws \ {w} : role'[v] = role[v]
  BY <1>1, <1>2, <1>3, <1>5, RowsFound
<1> QED
  BY <1>1, <1>4, <1>6, BaseEnds

LEMMA StoreInviteDoes ==
    ASSUME Base, NEW s \in Slot, StoreInvite(s)
    PROVE  /\ Base' /\ Ends(s) /\ req[s] # NoRequest
           /\ UNCHANGED <<live, spent, kept, users, default, role, tokens>>
           /\ \A w \in Ws, u \in User : invites[w][u] # "none" => invites'[w][u] # "none"
<1> DEFINE q == req[s]
<1>1. q # NoRequest /\ q.at = "invite" /\ Done(s)
      /\ UNCHANGED <<live, spent, kept, users, default, role, tokens>>
      /\ \/ Exists(q.ws) /\ invites' = [invites EXCEPT ![q.ws][q.target] = q.role]
         \/ UNCHANGED invites
  BY DEF StoreInvite
<1>2. q \in Request /\ Shape(q, spent) /\ Rows /\ q.target \in User
  BY <1>1, AtWork
<1>3. q.role \in Roles
  BY <1>1, <1>2, OpSteps DEF Shape
<1>4. /\ invites' \in [Ws -> [User -> Rank]]
      /\ \A w \in Ws \ live : invites'[w] = Nobody
      /\ \A w \in Ws, u \in User : invites[w][u] # "none" => invites'[w][u] # "none"
  <2>1. CASE Exists(q.ws) /\ invites' = [invites EXCEPT ![q.ws][q.target] = q.role]
    <3>1. q.ws \in live /\ q.ws \in Ws /\ q.role \in Rank /\ q.role # "none"
      BY <1>2, <1>3, <2>1 DEF Exists, Rows, Rank, Roles
    <3>2. invites \in [Ws -> [User -> Rank]] /\ \A w \in Ws \ live : invites[w] = Nobody
      BY <1>2 DEF Rows, AccessEndsWithWorkspace
    <3> HIDE DEF q
    <3> QED
      BY <1>2, <2>1, <3>1, <3>2
  <2>2. CASE UNCHANGED invites
    BY <1>2, <2>2 DEF Rows, AccessEndsWithWorkspace
  <2> QED
    BY <1>1, <2>1, <2>2
<1>5. Rows' /\ spent \subseteq spent'
  BY <1>1, <1>2, <1>4, RowsInvites
<1> QED
  BY <1>1, <1>4, <1>5, BaseEnds

LEMMA ReadRoleDoes ==
    ASSUME Base, NEW s \in Slot, ReadRole(s)
    PROVE  /\ Base' /\ req[s] # NoRequest /\ req[s].op # "login"
           /\ UNCHANGED <<live, spent, kept, users, default, role, invites, tokens>>
           /\ \/ Ends(s)
              \/ Moves(s, "count")
              \/ /\ \E at \in {"update", "drop"} : Moves(s, at)
                 /\ role[req[s].ws][req[s].target] # "admin" \/ req[s].role = "admin"
<1> DEFINE q == req[s]
           at == AfterGuard(q.op)
<1>1. /\ q # NoRequest /\ q.at = "role"
      /\ UNCHANGED <<live, spent, kept, users, default, role, invites, tokens>>
      /\ \/ Done(s)
         \/ Goto(s, "count")
         \/ /\ role[q.ws][q.target] # "admin" \/ q.role = "admin"
            /\ Goto(s, at)
  BY DEF ReadRole
<1>2. q \in Request /\ Shape(q, spent) /\ Rows
  BY <1>1, AtWork
<1>3. q.op \in {"setrole", "remove"}
  BY <1>1, <1>2, OpSteps
<1>4. at \in {"update", "drop"} /\ at \in StepsOf(q.op) /\ "count" \in StepsOf(q.op)
  BY <1>3 DEF StepsOf, AfterGuard
<1> HIDE DEF at
<1>5. at \in Steps /\ "count" \in Steps
  BY <1>4 DEF Steps
<1>6. Rows' /\ spent \subseteq spent'
  BY <1>1, <1>2, RowsUnmoved
<1>7. CASE Goto(s, at) /\ (role[q.ws][q.target] # "admin" \/ q.role = "admin")
  BY <1>1, <1>3, <1>4, <1>5, <1>7, BaseGoes
<1>8. CASE Goto(s, "count")
  BY <1>1, <1>3, <1>4, <1>5, <1>8, BaseGoes
<1>9. CASE Done(s)
  BY <1>1, <1>3, <1>6, <1>9, BaseEnds
<1> QED
  BY <1>1, <1>7, <1>8, <1>9

LEMMA CountAdminsDoes ==
    ASSUME Base, NEW s \in Slot, CountAdmins(s)
    PROVE  /\ Base' /\ req[s] # NoRequest /\ req[s].op # "login"
           /\ UNCHANGED <<live, spent, kept, users, default, role, invites, tokens>>
           /\ \/ Ends(s)
              \/ ~TooFewAdmins(req[s].ws) /\ \E at \in {"update", "drop"} : Moves(s, at)
<1> DEFINE q == req[s]
           at == AfterGuard(q.op)
<1>1. /\ q # NoRequest /\ q.at = "count"
      /\ UNCHANGED <<live, spent, kept, users, default, role, invites, tokens>>
      /\ Done(s) \/ (~TooFewAdmins(q.ws) /\ Goto(s, at))
  BY DEF CountAdmins
<1>2. q \in Request /\ Shape(q, spent) /\ Rows
  BY <1>1, AtWork
<1>3. q.op \in {"setrole", "remove"}
  BY <1>1, <1>2, OpSteps
<1>4. at \in {"update", "drop"} /\ at \in StepsOf(q.op)
  BY <1>3 DEF StepsOf, AfterGuard
<1> HIDE DEF at
<1>5. at \in Steps
  BY <1>4 DEF Steps
<1>6. Rows' /\ spent \subseteq spent'
  BY <1>1, <1>2, RowsUnmoved
<1>7. CASE ~TooFewAdmins(q.ws) /\ Goto(s, at)
  BY <1>1, <1>3, <1>4, <1>5, <1>7, BaseGoes
<1>8. CASE Done(s)
  BY <1>1, <1>3, <1>6, <1>8, BaseEnds
<1> QED
  BY <1>1, <1>7, <1>8

\* What the two writes have in common: one membership becomes r.
LEMMA UpdateRoleDoes ==
    ASSUME Base, NEW s \in Slot, UpdateRole(s)
    PROVE  /\ Base' /\ Ends(s) /\ req[s] # NoRequest /\ req[s].at = "update"
           /\ UNCHANGED <<live, spent, kept, users, default, invites, tokens>>
           /\ req[s].op = "setrole" /\ "setrole" \in Op /\ req[s].role \in Roles
           /\ req[s].ws \in Ws /\ req[s].target \in User
           /\ role'[req[s].ws][req[s].target] =
                IF role[req[s].ws][req[s].target] = "none" THEN "none" ELSE req[s].role
           /\ \A x \in User \ {req[s].target} : role'[req[s].ws][x] = role[req[s].ws][x]
           /\ \A v \in Ws \ {req[s].ws} : role'[v] = role[v]
<1> DEFINE q == req[s]
           r == IF role[q.ws][q.target] = "none" THEN "none" ELSE q.role
<1>1. q # NoRequest /\ q.at = "update" /\ Done(s)
      /\ UNCHANGED <<live, spent, kept, users, default, invites, tokens>>
      /\ role' = [role EXCEPT ![q.ws][q.target] = r]
  BY DEF UpdateRole
<1>2. q \in Request /\ Shape(q, spent) /\ Rows /\ q.target \in User /\ q.role \in Rank
      /\ (q.op \notin {"login", "create"} => q.ws \in Ws)
  BY <1>1, AtWork
<1>3. q.op = "setrole" /\ "setrole" \in Op /\ q.role \in Roles /\ q.ws \in Ws
  BY <1>1, <1>2, OpSteps DEF Shape
<1>4. r \in Rank /\ (q.ws \in live \/ r = "none")
  <2>1. q.ws \notin live => role[q.ws] = Nobody
    BY <1>2, <1>3 DEF Rows, AccessEndsWithWorkspace
  <2>2. q.ws \notin live => role[q.ws][q.target] = "none"
    BY <1>2, <2>1 DEF Nobody
  <2> QED
    BY <1>2, <2>2 DEF Rank
<1>5. /\ Rows' /\ role'[q.ws][q.target] = r
      /\ \A x \in User \ {q.target} : role'[q.ws][x] = role[q.ws][x]
      /\ \A v \in Ws \ {q.ws} : role'[v] = role[v]
  <2> HIDE DEF r
  <2>1. role' = [role EXCEPT ![q.ws][q.target] = r]
    BY <1>1 DEF r
  <2>0. PICK w \in Ws, t \in User, x \in Rank : w = q.ws /\ t = q.target /\ x = r
    BY <1>2, <1>3, <1>4
  <2>3. role' = [role EXCEPT ![w][t] = x]
    BY <2>0, <2>1
  <2>2. Rows /\ (w \in live \/ x = "none")
        /\ UNCHANGED <<live, spent, kept, users, default, invites, tokens>>
    BY <1>1, <1>2, <1>3, <1>4, <2>0
  <2>4. /\ Rows' /\ role'[w][t] = x
        /\ \A y \in User \ {t} : role'[w][y] = role[w][y]
        /\ \A v \in Ws \ {w} : role'[v] = role[v]
    BY <2>2, <2>3, RowsRole
  <2> QED
    BY <2>0, <2>4
<1>6. spent \subseteq spent'
  BY <1>1
<1>7. Base' /\ Ends(s)
  BY <1>1, <1>5, <1>6, BaseEnds
<1> QED
  BY <1>1, <1>2, <1>3, <1>5, <1>7

LEMMA DropMemberDoes ==
    ASSUME Base, NEW s \in Slot, DropMember(s)
    PROVE  /\ Base' /\ Ends(s) /\ req[s] # NoRequest /\ req[s].at = "drop"
           /\ UNCHANGED <<live, spent, kept, users, default, invites, tokens>>
           /\ req[s].op = "remove" /\ "remove" \in Op /\ req[s].role = "none"
           /\ req[s].ws \in Ws /\ req[s].target \in User
           /\ role'[req[s].ws][req[s].target] = "none"
           /\ \A x \in User \ {req[s].target} : role'[req[s].ws][x] = role[req[s].ws][x]
           /\ \A v \in Ws \ {req[s].ws} : role'[v] = role[v]
<1> DEFINE q == req[s]
<1>1. q # NoRequest /\ q.at = "drop" /\ Done(s)
      /\ UNCHANGED <<live, spent, kept, users, default, invites, tokens>>
      /\ role' = [role EXCEPT ![q.ws][q.target] = "none"]
  BY DEF DropMember
<1>2. q \in Request /\ Shape(q, spent) /\ Rows /\ q.target \in User
      /\ (q.op \notin {"login", "create"} => q.ws \in Ws)
  BY <1>1, AtWork
<1>3. q.op = "remove" /\ "remove" \in Op /\ q.role = "none" /\ q.ws \in Ws
  BY <1>1, <1>2, OpSteps DEF Shape
<1>4. "none" \in Rank
  BY DEF Rank
<1>5. /\ Rows' /\ role'[q.ws][q.target] = "none"
      /\ \A x \in User \ {q.target} : role'[q.ws][x] = role[q.ws][x]
      /\ \A v \in Ws \ {q.ws} : role'[v] = role[v]
  <2>1. role' = [role EXCEPT ![q.ws][q.target] = "none"]
    BY <1>1
  <2>0. PICK w \in Ws, t \in User : w = q.ws /\ t = q.target
    BY <1>2, <1>3
  <2>3. role' = [role EXCEPT ![w][t] = "none"]
    BY <2>0, <2>1
  <2>2. Rows /\ "none" \in Rank
        /\ UNCHANGED <<live, spent, kept, users, default, invites, tokens>>
    BY <1>1, <1>2, <1>4
  <2>4. /\ Rows' /\ role'[w][t] = "none"
        /\ \A y \in User \ {t} : role'[w][y] = role[w][y]
        /\ \A v \in Ws \ {w} : role'[v] = role[v]
    BY <2>2, <2>3, RowsRole
  <2> QED
    BY <2>0, <2>4
<1>6. spent \subseteq spent'
  BY <1>1
<1>7. Base' /\ Ends(s)
  BY <1>1, <1>5, <1>6, BaseEnds
<1> QED
  BY <1>1, <1>2, <1>3, <1>5, <1>7

LEMMA DropWorkspaceDoes ==
    ASSUME Base, NEW s \in Slot, DropWorkspace(s)
    PROVE  /\ Base' /\ Ends(s) /\ req[s] # NoRequest
           /\ UNCHANGED <<spent, kept, users>>
           /\ live' \subseteq live
           /\ \A v \in live' : role'[v] = role[v] /\ invites'[v] = invites[v]
           /\ \A u \in User : default'[u] = default[u] \/ default'[u] = Null
<1> DEFINE w == req[s].ws
<1>1. req[s] # NoRequest /\ Done(s) /\ UNCHANGED <<spent, kept, users>>
  BY DEF DropWorkspace
<1>2. Rows
  BY <1>1, AtWork
<1>3. CASE w \in live \ kept
  <2>1. /\ live' = live \ {w} /\ role' = [role EXCEPT ![w] = Nobody]
        /\ invites' = [invites EXCEPT ![w] = Nobody]
        /\ tokens' = {t \in tokens : t[2] # w} /\ default' = DefaultsWithout(w)
    BY <1>3 DEF DropWorkspace
  <2> HIDE DEF w
  <2>2. /\ Rows'
        /\ \A v \in Ws \ {w} : role'[v] = role[v] /\ invites'[v] = invites[v]
        /\ \A u \in User : default'[u] = default[u] \/ default'[u] = Null
    BY <1>1, <1>2, <1>3, <2>1, RowsGone
  <2>3. live' \subseteq live /\ \A v \in live' : role'[v] = role[v] /\ invites'[v] = invites[v]
    BY <1>2, <2>1, <2>2 DEF Rows
  <2>4. Base' /\ Ends(s)
    BY <1>1, <2>2, BaseEnds
  <2> QED
    BY <1>1, <2>2, <2>3, <2>4
<1>4. CASE w \notin live \ kept
  <2>1. UNCHANGED <<live, default, role, invites, tokens>>
    BY <1>4 DEF DropWorkspace
  <2>2. Rows' /\ spent \subseteq spent'
    BY <1>1, <1>2, <2>1, RowsUnmoved
  <2> QED
    BY <1>1, <2>1, <2>2, BaseEnds
<1> QED
  BY <1>3, <1>4

LEMMA WriteTicketsDoes ==
    ASSUME Base, NEW s \in Slot, WriteTickets(s)
    PROVE  /\ Base' /\ Ends(s) /\ req[s] # NoRequest
           /\ UNCHANGED <<live, spent, users, default, role, invites, tokens>>
<1>1. req[s] # NoRequest /\ Done(s)
      /\ UNCHANGED <<live, spent, users, default, role, invites, tokens>>
      /\ kept' \subseteq kept \cup live
  BY DEF WriteTickets, Exists
<1>2. Rows
  BY <1>1, AtWork
<1>3. kept' \in SUBSET Ws
  BY <1>1, <1>2 DEF Rows
<1>4. Rows' /\ spent \subseteq spent'
  BY <1>1, <1>2, <1>3, RowsPlain DEF Rows
<1> QED
  BY <1>1, <1>4, BaseEnds

----------------------------------------------------------------------------
(* The theorems on Base.                                                   *)

LEMMA BaseInit == Init => Base
<1> SUFFICES ASSUME Init PROVE Base
  OBVIOUS
<1>1. Nobody \in [User -> Rank]
  BY DEF Nobody, Rank
<1>2. TypeOK
  BY <1>1 DEF Init, TypeOK, NoRequest
<1>3. Shaped /\ live \subseteq spent /\ \A u \in User : default[u] \in spent \cup {Null}
  BY DEF Init, Shaped
<1>4. AccessEndsWithWorkspace
  BY DEF Init, AccessEndsWithWorkspace
<1> QED
  BY <1>2, <1>3, <1>4 DEF Base

LEMMA BaseStep == Base /\ [Next]_vars => Base'
<1> SUFFICES ASSUME Base, [Next]_vars PROVE Base'
  OBVIOUS
<1>1. CASE UNCHANGED vars
  BY <1>1 DEF vars, Base, TypeOK, Shaped, AccessEndsWithWorkspace, Nobody
<1>2. ASSUME NEW s \in Slot, Call(s) PROVE Base'
  BY <1>2, CallDoes
<1>3. ASSUME NEW s \in Slot, Login(s) PROVE Base'
  BY <1>3, LoginDoes
<1>4. ASSUME NEW s \in Slot, Fail(s) PROVE Base'
  BY <1>4, FailDoes
<1>5. ASSUME NEW s \in Slot, LoginStep(s) PROVE Base'
  BY <1>5, FindUserDoes, ProvisionDoes, ReadInvitesDoes, AcceptInviteDoes,
     ClearInvitesDoes, HealDoes, AdoptDefaultDoes DEF LoginStep
<1>6. ASSUME NEW s \in Slot, CallStep(s) PROVE Base'
  BY <1>6, AuthoriseDoes, StepUpDoes, MintTokenDoes, RevokeTokenDoes, NewWorkspaceDoes,
     StoreInviteDoes, ReadRoleDoes, CountAdminsDoes, UpdateRoleDoes, DropMemberDoes,
     DropWorkspaceDoes, WriteTicketsDoes DEF CallStep
<1> QED
  BY <1>1, <1>2, <1>3, <1>4, <1>5, <1>6 DEF Next

LEMMA BaseHolds == Spec => []Base
<1> QED
  BY BaseInit, BaseStep, PTL DEF Spec

\* Whatever overlaps, every row has its columns' types and every request the
\* locals of its handler.
THEOREM TypeCorrect == Spec => []TypeOK
<1>1. Base => TypeOK
  BY DEF Base
<1> QED
  BY <1>1, BaseHolds, PTL

\* Whatever overlaps, no statement of a request that was let in before its
\* workspace went writes a membership, an invite, a token, or a ticket, task or
\* campaign into it afterwards.
THEOREM DeletedForGood == Spec => []AccessEndsWithWorkspace
<1>1. Base => AccessEndsWithWorkspace
  BY DEF Base
<1> QED
  BY <1>1, BaseHolds, PTL

----------------------------------------------------------------------------
(* One request after the other.                                            *)

Alone(s) == \A x \in Slot \ {s} : req[x] = NoRequest

LEMMA SerialAlone ==
    ASSUME Serial, ~Overlap, NEW s \in Slot, req[s] # NoRequest \/ Free(s)
    PROVE  Alone(s)
BY DEF Serial, Alone, Free

LEMMA GuardedBy ==
    ASSUME NEW s \in Slot, Alone(s), Others(s),
           req'[s] # NoRequest => Spared(req'[s], role') /\ Carried(req'[s], invites', role')
    PROVE  Guarded'
<1>1. \A x \in Slot \ {s} : req'[x] = NoRequest
  BY DEF Alone, Others
<1>2. NoRequest' = NoRequest
  BY DEF NoRequest
<1>3. Serial'
  BY <1>1 DEF Serial
<1>4. ASSUME NEW x \in Slot, req'[x] # NoRequest
      PROVE  Spared(req'[x], role') /\ Carried(req'[x], invites', role')
  <2>1. x = s
    BY <1>1, <1>4
  <2> QED
    BY <1>4, <2>1
<1> QED
  BY <1>3, <1>4 DEF Guarded

\* At any other statement there is nothing to guard.
LEMMA GuardedAway ==
    ASSUME NEW s \in Slot, Alone(s), Others(s),
           req'[s] # NoRequest => req'[s].at \notin {"update", "drop", "accept", "clear"}
    PROVE  Guarded'
<1>1. req'[s] # NoRequest => Spared(req'[s], role') /\ Carried(req'[s], invites', role')
  BY DEF Spared, Carried
<1> QED
  BY <1>1, GuardedBy

LEMMA GuardedGoes ==
    ASSUME NEW s \in Slot, Alone(s),
           \/ Ends(s)
           \/ \E at \in Steps \ {"update", "drop", "accept", "clear"} : Moves(s, at)
    PROVE  Guarded'
BY GuardedAway DEF Ends, Moves

\* More than one admin: one besides any given user.
LEMMA AnotherAdmin ==
    ASSUME NEW w \in Ws, NEW t \in User, ~TooFewAdmins(w)
    PROVE  \E u \in User \ {t} : role[w][u] = "admin"
<1> DEFINE A == Admins(w)
<1> SUFFICES ASSUME A \subseteq {t} PROVE FALSE
  BY DEF Admins
<1>1. IsFiniteSet({t}) /\ Cardinality({t}) = 1
  BY FS_Singleton
<1>2. Cardinality(A) <= 1
  <2> HIDE DEF A
  <2>1. IsFiniteSet(A) /\ Cardinality(A) <= Cardinality({t})
    BY <1>1, FS_Subset
  <2> QED
    BY <1>1, <2>1
<1> QED
  BY <1>2 DEF TooFewAdmins

LEMMA GuardedReadInvites ==
    ASSUME Base, Guarded, ~Overlap, NEW s \in Slot, ReadInvites(s)
    PROVE  Guarded'
<1>1. /\ Base' /\ Others(s) /\ UNCHANGED <<role, invites>>
      /\ req[s] # NoRequest /\ req'[s] \in Request /\ req'[s].user = req[s].user
      /\ \/ req'[s].at \in {"heal", "token"}
         \/ /\ req'[s].at = "accept"
            /\ \A w \in Ws : req'[s].pending[w] = invites[w][req[s].user]
  BY ReadInvitesDoes
<1>2. Alone(s)
  BY <1>1, SerialAlone DEF Guarded
<1>3. Spared(req'[s], role') /\ Carried(req'[s], invites', role')
  BY <1>1 DEF Spared, Carried
<1> QED
  BY <1>1, <1>2, <1>3, GuardedBy

LEMMA GuardedAcceptInvite ==
    ASSUME Base, Guarded, ~Overlap, NEW s \in Slot, AcceptInvite(s)
    PROVE  Guarded'
<1>1. /\ Base' /\ Others(s) /\ UNCHANGED <<live, invites>>
      /\ req[s] # NoRequest /\ req[s].at = "accept"
      /\ \/ Ends(s) /\ UNCHANGED role
         \/ \E w \in live :
              /\ role'[w][req[s].user] # "none"
              /\ \A v \in Ws \ {w} : role'[v] = role[v]
              /\ req'[s] \in Request /\ req'[s].user = req[s].user
              /\ \/ req'[s].at = "clear" /\ \A v \in Ws \ {w} : req[s].pending[v] = "none"
                 \/ /\ req'[s].at = "accept"
                    /\ \A v \in Ws \ {w} : req'[s].pending[v] = req[s].pending[v]
  BY AcceptInviteDoes
<1>2. Alone(s) /\ Carried(req[s], invites, role)
  BY <1>1, SerialAlone DEF Guarded
<1>3. CASE Ends(s)
  BY <1>2, <1>3, GuardedGoes
<1>4. ASSUME NEW w \in live,
             role'[w][req[s].user] # "none",
             \A v \in Ws \ {w} : role'[v] = role[v],
             req'[s].user = req[s].user,
             \/ req'[s].at = "clear" /\ \A v \in Ws \ {w} : req[s].pending[v] = "none"
             \/ /\ req'[s].at = "accept"
                /\ \A v \in Ws \ {w} : req'[s].pending[v] = req[s].pending[v]
      PROVE  Guarded'
  <2>1. Spared(req'[s], role')
    BY <1>4 DEF Spared
  <2>2. ASSUME NEW v \in Ws, invites'[v][req'[s].user] # "none"
        PROVE  /\ req'[s].at = "accept" =>
                    req'[s].pending[v] # "none" \/ role'[v][req'[s].user] # "none"
               /\ req'[s].at = "clear"  => role'[v][req'[s].user] # "none"
    <3>1. CASE v = w
      BY <1>4, <3>1
    <3>2. CASE v # w
      <4>1. req[s].pending[v] # "none" \/ role[v][req[s].user] # "none"
        BY <1>1, <1>2, <1>4, <2>2 DEF Carried
      <4> QED
        BY <1>4, <3>2, <4>1
    <3> QED
      BY <3>1, <3>2
  <2>3. Carried(req'[s], invites', role')
    BY <2>2 DEF Carried
  <2> QED
    BY <1>1, <1>2, <2>1, <2>3, GuardedBy
<1> QED
  BY <1>1, <1>3, <1>4

LEMMA GuardedReadRole ==
    ASSUME Base, Guarded, ~Overlap, NEW s \in Slot, ReadRole(s)
    PROVE  Guarded'
<1>1. /\ req[s] # NoRequest /\ UNCHANGED <<role, invites>>
      /\ \/ Ends(s)
         \/ Moves(s, "count")
         \/ /\ \E at \in {"update", "drop"} : Moves(s, at)
            /\ role[req[s].ws][req[s].target] # "admin" \/ req[s].role = "admin"
  BY ReadRoleDoes
<1>2. Alone(s)
  BY <1>1, SerialAlone DEF Guarded
<1>3. CASE Ends(s) \/ Moves(s, "count")
  BY <1>2, <1>3, GuardedGoes DEF Steps
<1>4. CASE /\ \E at \in {"update", "drop"} : Moves(s, at)
           /\ role[req[s].ws][req[s].target] # "admin" \/ req[s].role = "admin"
  <2>1. Spared(req'[s], role') /\ Carried(req'[s], invites', role') /\ Others(s)
    BY <1>1, <1>4 DEF Spared, Carried, Moves
  <2> QED
    BY <1>2, <2>1, GuardedBy
<1> QED
  BY <1>1, <1>3, <1>4

LEMMA GuardedCountAdmins ==
    ASSUME Base, Guarded, ~Overlap, NEW s \in Slot, CountAdmins(s)
    PROVE  Guarded'
<1>1. /\ req[s] # NoRequest /\ req[s].op # "login" /\ UNCHANGED <<role, invites>>
      /\ \/ Ends(s)
         \/ ~TooFewAdmins(req[s].ws) /\ \E at \in {"update", "drop"} : Moves(s, at)
  BY CountAdminsDoes
<1>2. Alone(s)
  BY <1>1, SerialAlone DEF Guarded
<1>3. CASE Ends(s)
  BY <1>2, <1>3, GuardedGoes
<1>4. CASE ~TooFewAdmins(req[s].ws) /\ \E at \in {"update", "drop"} : Moves(s, at)
  <2>1. req[s].ws \in Ws /\ req[s].target \in User
    <3>1. req[s].at = "count"
      BY DEF CountAdmins
    <3>2. req[s].op \in {"setrole", "remove"}
      BY <1>1, <3>1, AtWork, OpSteps
    <3> QED
      BY <1>1, <3>2, AtWork
  <2>2. \E u \in User \ {req[s].target} : role[req[s].ws][u] = "admin"
    BY <1>4, <2>1, AnotherAdmin
  <2>3. Spared(req'[s], role') /\ Carried(req'[s], invites', role') /\ Others(s)
    BY <1>1, <1>4, <2>2 DEF Spared, Carried, Moves
  <2> QED
    BY <1>2, <2>3, GuardedBy
<1> QED
  BY <1>1, <1>3, <1>4

LEMMA GuardedStep ==
    ASSUME Base, Guarded, ~Overlap, [Next]_vars
    PROVE  Guarded'
<1>0. Serial
  BY DEF Guarded
<1>1. CASE UNCHANGED vars
  BY <1>1 DEF vars, Guarded, Serial, Spared, Carried, NoRequest
<1>2. ASSUME NEW s \in Slot, Call(s) \/ Login(s) PROVE Guarded'
  <2>1. Free(s) /\ Others(s) /\ req'[s] \in Request
        /\ req'[s].at \notin {"update", "drop", "accept", "clear"}
    BY <1>2, CallDoes, LoginDoes
  <2> QED
    BY <1>0, <2>1, SerialAlone, GuardedAway
<1>3. ASSUME NEW s \in Slot, Fail(s) PROVE Guarded'
  BY <1>0, <1>3, FailDoes, SerialAlone, GuardedGoes DEF Fail
<1>4. ASSUME NEW s \in Slot, LoginStep(s) PROVE Guarded'
  <2>1. CASE FindUser(s)
    <3>1. req[s] # NoRequest /\ Others(s)
          /\ req'[s].at \notin {"update", "drop", "accept", "clear"}
      BY <2>1, FindUserDoes DEF Moves
    <3> QED
      BY <1>0, <3>1, SerialAlone, GuardedAway
  <2>2. CASE Provision(s)
    <3>1. req[s] # NoRequest /\ Others(s)
          /\ (req'[s] # NoRequest => req'[s].at \notin {"update", "drop", "accept", "clear"})
      BY <2>2, ProvisionDoes DEF Ends
    <3> QED
      BY <1>0, <3>1, SerialAlone, GuardedAway
  <2>3. CASE ReadInvites(s)
    BY <2>3, GuardedReadInvites
  <2>4. CASE AcceptInvite(s)
    BY <2>4, GuardedAcceptInvite
  <2>5. CASE ClearInvites(s)
    <3>1. req[s] # NoRequest /\ \E at \in {"heal", "token"} : Moves(s, at)
      BY <2>5, ClearInvitesDoes
    <3> QED
      BY <1>0, <3>1, SerialAlone, GuardedGoes DEF Steps
  <2>6. CASE Heal(s)
    <3>1. req[s] # NoRequest /\ Others(s) /\ req'[s].at = "adopt"
      BY <2>6, HealDoes
    <3> QED
      BY <1>0, <3>1, SerialAlone, GuardedAway
  <2>7. CASE AdoptDefault(s)
    BY <1>0, <2>7, AdoptDefaultDoes, SerialAlone, GuardedGoes DEF Steps
  <2> QED
    BY <1>4, <2>1, <2>2, <2>3, <2>4, <2>5, <2>6, <2>7 DEF LoginStep
<1>5. ASSUME NEW s \in Slot, CallStep(s) PROVE Guarded'
  <2>1. CASE Authorise(s)
    BY <1>0, <2>1, AuthoriseDoes, SerialAlone, GuardedGoes DEF Steps
  <2>2. CASE StepUp(s)
    BY <1>0, <2>2, StepUpDoes, SerialAlone, GuardedGoes DEF Steps
  <2>3. CASE ReadRole(s)
    BY <2>3, GuardedReadRole
  <2>4. CASE CountAdmins(s)
    BY <2>4, GuardedCountAdmins
  <2>5. CASE \/ MintToken(s) \/ RevokeToken(s) \/ NewWorkspace(s) \/ StoreInvite(s)
             \/ UpdateRole(s) \/ DropMember(s) \/ DropWorkspace(s) \/ WriteTickets(s)
    <3>1. req[s] # NoRequest /\ Ends(s)
      BY <2>5, MintTokenDoes, RevokeTokenDoes, NewWorkspaceDoes, StoreInviteDoes,
         UpdateRoleDoes, DropMemberDoes, DropWorkspaceDoes, WriteTicketsDoes
    <3> QED
      BY <1>0, <3>1, SerialAlone, GuardedGoes
  <2> QED
    BY <1>5, <2>1, <2>2, <2>3, <2>4, <2>5 DEF CallStep
<1> QED
  BY <1>1, <1>2, <1>3, <1>4, <1>5 DEF Next

LEMMA GuardedInit == Init => Guarded
BY DEF Init, Guarded, Serial

LEMMA GuardedHolds == ASSUME ~Overlap PROVE Spec => [](Base /\ Guarded)
<1>1. Init => Base /\ Guarded
  BY BaseInit, GuardedInit
<1>2. Base /\ Guarded /\ [Next]_vars => (Base /\ Guarded)'
  BY BaseStep, GuardedStep
<1> QED
  BY <1>1, <1>2, PTL DEF Spec

----------------------------------------------------------------------------
(* The last admin.                                                         *)

\* Either requests come one after the other, or no handler takes a role away.
NoRaceForAdmin == ~Overlap \/ Op \cap {"setrole", "remove"} = {}

LEMMA AdminsUnmoved ==
    ASSUME EveryWorkspaceHasAdmin, live' \subseteq live, \A w \in live' : role'[w] = role[w]
    PROVE  EveryWorkspaceHasAdmin'
BY DEF EveryWorkspaceHasAdmin, Admins

LEMMA AdminsFound ==
    ASSUME EveryWorkspaceHasAdmin, live \subseteq Ws, NEW w \in Ws, NEW u \in User,
           live' = live \cup {w}, role'[w][u] = "admin",
           \A v \in Ws \ {w} : role'[v] = role[v]
    PROVE  EveryWorkspaceHasAdmin'
<1> SUFFICES ASSUME NEW v \in live' PROVE \E x \in User : role'[v][x] = "admin"
  BY DEF EveryWorkspaceHasAdmin, Admins
<1>1. CASE v = w
  BY <1>1
<1>2. CASE v # w
  BY <1>2 DEF EveryWorkspaceHasAdmin, Admins
<1> QED
  BY <1>1, <1>2

\* One membership of w changes and an admin is left.
LEMMA AdminsLeft ==
    ASSUME EveryWorkspaceHasAdmin, live \subseteq Ws, NEW w \in Ws, NEW t \in User,
           live' = live, \A x \in User \ {t} : role'[w][x] = role[w][x],
           \A v \in Ws \ {w} : role'[v] = role[v],
           role[w][t] = "admin" =>
             role'[w][t] = "admin" \/ \E x \in User \ {t} : role[w][x] = "admin"
    PROVE  EveryWorkspaceHasAdmin'
<1> SUFFICES ASSUME NEW v \in live PROVE \E x \in User : role'[v][x] = "admin"
  BY DEF EveryWorkspaceHasAdmin, Admins
<1>1. PICK x \in User : role[v][x] = "admin"
  BY DEF EveryWorkspaceHasAdmin, Admins
<1>2. CASE v # w
  BY <1>1, <1>2
<1>3. CASE v = w /\ x # t
  BY <1>1, <1>3
<1>4. CASE v = w /\ x = t
  BY <1>1, <1>4
<1> QED
  BY <1>2, <1>3, <1>4

LEMMA AdminsStep ==
    ASSUME Base, EveryWorkspaceHasAdmin, NoRaceForAdmin, ~Overlap => Guarded, [Next]_vars
    PROVE  EveryWorkspaceHasAdmin'
<1>0. live \subseteq Ws /\ live \subseteq spent
  BY DEF Base, TypeOK
<1>1. CASE UNCHANGED vars
  BY <1>1, AdminsUnmoved DEF vars
<1>2. ASSUME NEW s \in Slot, Call(s) \/ Login(s) \/ Fail(s) PROVE EveryWorkspaceHasAdmin'
  BY <1>2, CallDoes, LoginDoes, FailDoes, AdminsUnmoved
<1>3. ASSUME NEW s \in Slot, LoginStep(s) PROVE EveryWorkspaceHasAdmin'
  <2>1. CASE FindUser(s) \/ ReadInvites(s) \/ ClearInvites(s) \/ AdoptDefault(s)
    <3>1. live' = live /\ role' = role
      BY <2>1, FindUserDoes, ReadInvitesDoes, ClearInvitesDoes, AdoptDefaultDoes
    <3> QED
      BY <3>1, AdminsUnmoved
  <2>2. CASE Provision(s) \/ Heal(s)
    <3>1. req[s] # NoRequest
      BY <2>2 DEF Provision, Heal
    <3>2. req[s].user \in User
      BY <3>1, AtWork
    <3>3. \/ UNCHANGED <<live, role>>
          \/ \E w \in Ws : /\ live' = live \cup {w} /\ role'[w][req[s].user] = "admin"
                           /\ \A v \in Ws \ {w} : role'[v] = role[v]
      BY <2>2, ProvisionDoes, HealDoes
    <3>4. CASE UNCHANGED <<live, role>>
      BY <3>4, AdminsUnmoved
    <3>5. CASE \E w \in Ws : /\ live' = live \cup {w} /\ role'[w][req[s].user] = "admin"
                             /\ \A v \in Ws \ {w} : role'[v] = role[v]
      BY <1>0, <3>2, <3>5, AdminsFound
    <3> QED
      BY <3>3, <3>4, <3>5
  <2>3. CASE AcceptInvite(s)
    <3>1. req[s] # NoRequest /\ live' = live
          /\ \/ UNCHANGED role
             \/ \E w \in live :
                  /\ role'[w][req[s].user] = Join(role[w][req[s].user], req[s].pending[w])
                  /\ \A x \in User \ {req[s].user} : role'[w][x] = role[w][x]
                  /\ \A v \in Ws \ {w} : role'[v] = role[v]
      BY <2>3, AcceptInviteDoes
    <3>2. req[s].user \in User
      BY <3>1, AtWork
    <3>3. ASSUME NEW w \in live,
                 role'[w][req[s].user] = Join(role[w][req[s].user], req[s].pending[w]),
                 \A x \in User \ {req[s].user} : role'[w][x] = role[w][x],
                 \A v \in Ws \ {w} : role'[v] = role[v]
          PROVE  EveryWorkspaceHasAdmin'
      <4>1. role[w][req[s].user] = "admin" => role'[w][req[s].user] = "admin"
        BY <3>3 DEF Join
      <4> QED
        BY <1>0, <3>1, <3>2, <3>3, <4>1, AdminsLeft
    <3>4. CASE UNCHANGED role
      BY <3>1, <3>4, AdminsUnmoved
    <3> QED
      BY <3>1, <3>3, <3>4
  <2> QED
    BY <1>3, <2>1, <2>2, <2>3 DEF LoginStep
<1>4. ASSUME NEW s \in Slot, CallStep(s) PROVE EveryWorkspaceHasAdmin'
  <2>1. CASE \/ Authorise(s) \/ StepUp(s) \/ MintToken(s) \/ RevokeToken(s)
             \/ StoreInvite(s) \/ ReadRole(s) \/ CountAdmins(s) \/ WriteTickets(s)
    <3>1. live' = live /\ role' = role
      BY <2>1, AuthoriseDoes, StepUpDoes, MintTokenDoes, RevokeTokenDoes, StoreInviteDoes,
         ReadRoleDoes, CountAdminsDoes, WriteTicketsDoes
    <3> QED
      BY <3>1, AdminsUnmoved
  <2>2. CASE NewWorkspace(s)
    <3>1. req[s] # NoRequest /\
          \E w \in Ws : /\ live' = live \cup {w} /\ role'[w][req[s].user] = "admin"
                        /\ \A v \in Ws \ {w} : role'[v] = role[v]
      BY <2>2, NewWorkspaceDoes
    <3> QED
      BY <1>0, <3>1, AtWork, AdminsFound
  <2>3. CASE DropWorkspace(s)
    BY <2>3, DropWorkspaceDoes, AdminsUnmoved
  <2>4. ASSUME UpdateRole(s) \/ DropMember(s)
        PROVE  EveryWorkspaceHasAdmin'
    <3>1. /\ live' = live /\ req[s] # NoRequest /\ req[s].at \in {"update", "drop"}
          /\ "setrole" \in Op \/ "remove" \in Op
          /\ req[s].ws \in Ws /\ req[s].target \in User
          /\ \A x \in User \ {req[s].target} : role'[req[s].ws][x] = role[req[s].ws][x]
          /\ \A v \in Ws \ {req[s].ws} : role'[v] = role[v]
          /\ role[req[s].ws][req[s].target] = "admin" =>
               role'[req[s].ws][req[s].target] = req[s].role
      BY <2>4, UpdateRoleDoes, DropMemberDoes
    <3>2. Spared(req[s], role)
      BY <3>1 DEF NoRaceForAdmin, Guarded
    <3>3. PICK w \in Ws, t \in User : w = req[s].ws /\ t = req[s].target
      BY <3>1
    <3>4. role[w][t] = "admin" =>
            role'[w][t] = "admin" \/ \E x \in User \ {t} : role[w][x] = "admin"
      BY <3>1, <3>2, <3>3 DEF Spared
    <3>5. /\ \A x \in User \ {t} : role'[w][x] = role[w][x]
          /\ \A v \in Ws \ {w} : role'[v] = role[v]
      BY <3>1, <3>3
    <3> QED
      BY <1>0, <3>1, <3>4, <3>5, AdminsLeft
  <2> QED
    BY <1>4, <2>1, <2>2, <2>3, <2>4 DEF CallStep
<1> QED
  BY <1>1, <1>2, <1>3, <1>4 DEF Next

\* The count and the write that follows it are two statements: the last admin
\* is safe when requests come one after the other, and in any interleaving of
\* the handlers that neither demote nor remove.
THEOREM LastAdminStays ==
    ASSUME NoRaceForAdmin PROVE Spec => []EveryWorkspaceHasAdmin
<1>1. Init => EveryWorkspaceHasAdmin
  BY DEF Init, EveryWorkspaceHasAdmin
<1>2. CASE ~Overlap
  <2>1. Base /\ Guarded /\ EveryWorkspaceHasAdmin /\ [Next]_vars => EveryWorkspaceHasAdmin'
    BY AdminsStep
  <2> QED
    BY <1>1, <1>2, <2>1, GuardedHolds, PTL DEF Spec
<1>3. CASE Overlap
  <2>1. Base /\ EveryWorkspaceHasAdmin /\ [Next]_vars => EveryWorkspaceHasAdmin'
    BY <1>3, AdminsStep
  <2> QED
    BY <1>1, <2>1, BaseHolds, PTL DEF Spec
<1> QED
  BY <1>2, <1>3, AccessAssumption

----------------------------------------------------------------------------
(* Invites.                                                                *)

LEMMA InvitesStep ==
    ASSUME Base, Guarded, ~Overlap, [Next]_vars
    PROVE  \A w \in live', u \in User :
             invites[w][u] # "none" /\ invites'[w][u] = "none" => role'[w][u] # "none"
<1> DEFINE Goal == \A w \in live', u \in User :
             invites[w][u] # "none" /\ invites'[w][u] = "none" => role'[w][u] # "none"
<1>0. live \subseteq Ws
  BY DEF Base, TypeOK
<1>1. ASSUME UNCHANGED invites PROVE Goal
  BY <1>1
<1>2. ASSUME NEW s \in Slot, ClearInvites(s) PROVE Goal
  <2>1. /\ live' = live /\ role' = role /\ req[s] # NoRequest /\ req[s].at = "clear"
        /\ \A w \in Ws, u \in User \ {req[s].user} : invites'[w][u] = invites[w][u]
    BY <1>2, ClearInvitesDoes
  <2>2. Carried(req[s], invites, role)
    BY <2>1 DEF Guarded
  <2> QED
    BY <1>0, <2>1, <2>2 DEF Carried
<1>3. ASSUME NEW s \in Slot, StoreInvite(s) PROVE Goal
  BY <1>0, <1>3, StoreInviteDoes
<1>4. ASSUME NEW s \in Slot, DropWorkspace(s) PROVE Goal
  BY <1>4, DropWorkspaceDoes
<1>5. ASSUME NEW s \in Slot,
             \/ Call(s) \/ Login(s) \/ Fail(s) \/ FindUser(s) \/ Provision(s)
             \/ ReadInvites(s) \/ AcceptInvite(s) \/ Heal(s) \/ AdoptDefault(s)
      PROVE  UNCHANGED invites
  BY <1>5, CallDoes, LoginDoes, FailDoes, FindUserDoes, ProvisionDoes, ReadInvitesDoes,
     AcceptInviteDoes, HealDoes, AdoptDefaultDoes
<1>6. ASSUME NEW s \in Slot,
             \/ Authorise(s) \/ StepUp(s) \/ MintToken(s) \/ RevokeToken(s)
             \/ NewWorkspace(s) \/ ReadRole(s) \/ CountAdmins(s) \/ UpdateRole(s)
             \/ DropMember(s) \/ WriteTickets(s)
      PROVE  UNCHANGED invites
  BY <1>6, AuthoriseDoes, StepUpDoes, MintTokenDoes, RevokeTokenDoes, NewWorkspaceDoes,
     ReadRoleDoes, CountAdminsDoes, UpdateRoleDoes, DropMemberDoes, WriteTicketsDoes
<1> HIDE DEF Goal
<1>7. CASE UNCHANGED vars
  BY <1>1, <1>7 DEF vars, Goal
<1>8. ASSUME NEW s \in Slot, Call(s) \/ Login(s) \/ Fail(s) PROVE Goal
  BY <1>1, <1>5, <1>8
<1>9. ASSUME NEW s \in Slot, LoginStep(s) PROVE Goal
  BY <1>1, <1>2, <1>5, <1>9 DEF LoginStep
<1>10. ASSUME NEW s \in Slot, CallStep(s) PROVE Goal
  BY <1>1, <1>3, <1>4, <1>6, <1>10 DEF CallStep
<1> QED
  BY <1>7, <1>8, <1>9, <1>10 DEF Next, Goal

\* One after the other, no login clears an invite it has not turned into a
\* membership, whatever it was told to join and wherever it fails.
THEOREM InvitesEndInMembership ==
    ASSUME ~Overlap PROVE Spec => InvitesConsumed
<1>1. Base /\ Guarded /\ [Next]_vars =>
        [\A w \in live', u \in User :
           invites[w][u] # "none" /\ invites'[w][u] = "none" => role'[w][u] # "none"]_vars
  BY InvitesStep
<1> QED
  BY <1>1, GuardedHolds, PTL DEF Spec, InvitesConsumed

----------------------------------------------------------------------------
(* The token a login mints.                                                *)

\* What a step does to the memberships of workspaces that stay.
Lasting ==
    /\ live' \cap spent \subseteq live
    /\ \A w \in live \cap live', u \in User : role[w][u] # "none" => role'[w][u] # "none"

LEMMA HeadingStays ==
    ASSUME Base', Lasting, NEW q \in Request, Shape(q, spent), Heading(q, live, role)
    PROVE  Heading(q, live', role')
<1> SUFFICES ASSUME q.op = "login", q.ws \in live' PROVE role'[q.ws][q.user] # "none"
  BY DEF Heading
<1>1. Null \notin live'
  BY AccessAssumption DEF Base, TypeOK
<1> QED
  BY <1>1 DEF Heading, Lasting, Shape, Request

LEMMA LandedBy ==
    ASSUME Base, Base', Landed, NEW s \in Slot, Others(s), Lasting,
           \A u \in User : default'[u] = default[u] \/ default'[u] = Null
                             \/ role'[default'[u]][u] # "none",
           req'[s] # NoRequest => Heading(req'[s], live', role')
    PROVE  Landed'
<1>1. ASSUME NEW u \in User, default'[u] \in live' PROVE role'[default'[u]][u] # "none"
  <2>1. CASE default'[u] = default[u]
    <3>1. default[u] \in spent
      BY <1>1, <2>1, AccessAssumption DEF Base, TypeOK
    <3> QED
      BY <1>1, <2>1, <3>1 DEF Landed, Lasting
  <2>2. default'[u] # Null
    BY <1>1, AccessAssumption DEF Base, TypeOK
  <2> QED
    BY <2>1, <2>2
<1>2. ASSUME NEW x \in Slot, req'[x] # NoRequest PROVE Heading(req'[x], live', role')
  <2>1. CASE x = s
    BY <1>2, <2>1
  <2>2. CASE x # s
    <3>1. req'[x] = req[x]
      BY <2>2 DEF Others
    <3>2. req[x] \in Request /\ Shape(req[x], spent) /\ Heading(req[x], live, role)
      BY <1>2, <3>1, AtWork DEF Landed
    <3>3. Heading(req[x], live', role')
      BY <3>2, HeadingStays
    <3> QED
      BY <3>1, <3>3
  <2> QED
    BY <2>1, <2>2
<1>3. NoRequest' = NoRequest
  BY DEF NoRequest
<1> QED
  BY <1>1, <1>2, <1>3 DEF Landed

\* A request that ends, or goes on where it was heading.
LEMMA LandedGoes ==
    ASSUME Base, Base', Landed, NEW s \in Slot, req[s] # NoRequest, Lasting,
           \A u \in User : default'[u] = default[u] \/ default'[u] = Null
                             \/ role'[default'[u]][u] # "none",
           \/ Ends(s)
           \/ /\ Others(s) /\ req'[s].op = req[s].op /\ req'[s].user = req[s].user
              /\ req'[s].ws = req[s].ws
    PROVE  Landed'
<1>1. req[s] \in Request /\ Shape(req[s], spent) /\ Heading(req[s], live, role)
  BY AtWork DEF Landed
<1>2. Heading(req[s], live', role')
  BY <1>1, HeadingStays
<1>3. Others(s) /\ (req'[s] # NoRequest => Heading(req'[s], live', role'))
  BY <1>2 DEF Ends, Heading
<1> QED
  BY <1>3, LandedBy

LEMMA LastingUnmoved ==
    ASSUME UNCHANGED <<live, role>> PROVE Lasting
BY DEF Lasting

LEMMA LastingFound ==
    ASSUME Base, NEW w \in Ws \ spent, live' = live \cup {w},
           \A v \in Ws \ {w} : role'[v] = role[v]
    PROVE  Lasting
BY DEF Lasting, Base, TypeOK

LEMMA LandedLogin ==
    ASSUME Base, Base', Landed, NEW s \in Slot, LoginStep(s)
    PROVE  Landed'
<1>0. req[s] # NoRequest
  BY DEF LoginStep, FindUser, Provision, ReadInvites, AcceptInvite, ClearInvites, Heal,
         AdoptDefault
<1>1. req[s].user \in User /\ req[s] \in Request /\ Heading(req[s], live, role)
      /\ live \subseteq Ws /\ default \in [User -> Ws \cup {Null}] /\ Null \notin live
  BY <1>0, AtWork, AccessAssumption DEF Landed, Rows
<1>2. CASE FindUser(s)
  <2>1. /\ UNCHANGED <<live, role, default>> /\ Others(s) /\ req[s].op = "login"
        /\ \/ Moves(s, "provision")
           \/ req'[s].op = req[s].op /\ req'[s].user = req[s].user
              /\ req'[s].ws = default[req[s].user]
    BY <1>2, FindUserDoes
  <2>2. Lasting
    BY <2>1, LastingUnmoved
  <2>3. CASE Moves(s, "provision")
    BY <1>0, <2>1, <2>2, <2>3, LandedGoes DEF Moves
  <2>4. CASE req'[s].op = req[s].op /\ req'[s].user = req[s].user
             /\ req'[s].ws = default[req[s].user]
    <3>1. Heading(req'[s], live', role')
      BY <1>1, <2>1, <2>4 DEF Heading, Landed
    <3> QED
      BY <2>1, <2>2, <3>1, LandedBy
  <2> QED
    BY <2>1, <2>3, <2>4
<1>3. CASE Provision(s)
  <2>1. CASE Ends(s) /\ UNCHANGED <<live, default, role>>
    BY <1>0, <2>1, LastingUnmoved, LandedGoes
  <2>2. ASSUME NEW w \in Ws \ spent, live' = live \cup {w}, role'[w][req[s].user] = "admin",
               \A v \in Ws \ {w} : role'[v] = role[v],
               default' = [default EXCEPT ![req[s].user] = w], Others(s),
               req'[s].user = req[s].user, req'[s].ws = w
        PROVE  Landed'
    <3>1. Lasting
      BY <2>2, LastingFound
    <3>2. \A u \in User : default'[u] = default[u] \/ role'[default'[u]][u] # "none"
      BY <1>1, <2>2
    <3>3. Heading(req'[s], live', role')
      BY <2>2 DEF Heading
    <3> QED
      BY <2>2, <3>1, <3>2, <3>3, LandedBy
  <2> QED
    BY <1>3, <2>1, <2>2, ProvisionDoes
<1>4. CASE ReadInvites(s) \/ ClearInvites(s)
  <2>1. /\ UNCHANGED <<live, role, default>> /\ Others(s)
        /\ req'[s].op = req[s].op /\ req'[s].user = req[s].user /\ req'[s].ws = req[s].ws
    BY <1>4, ReadInvitesDoes, ClearInvitesDoes DEF Moves
  <2> QED
    BY <1>0, <2>1, LastingUnmoved, LandedGoes
<1>5. CASE AcceptInvite(s)
  <2>1. CASE Ends(s) /\ UNCHANGED <<live, default, role>>
    BY <1>0, <2>1, LastingUnmoved, LandedGoes
  <2>2. ASSUME NEW w \in live, UNCHANGED <<live, default>>,
               role'[w][req[s].user] # "none",
               \A x \in User \ {req[s].user} : role'[w][x] = role[w][x],
               \A v \in Ws \ {w} : role'[v] = role[v], Others(s),
               req'[s].op = req[s].op, req'[s].user = req[s].user, req'[s].ws = req[s].ws
        PROVE  Landed'
    <3>1. Lasting
      BY <1>1, <2>2 DEF Lasting
    <3> QED
      BY <1>0, <2>2, <3>1, LandedGoes
  <2> QED
    BY <1>5, <2>1, <2>2, AcceptInviteDoes
<1>6. CASE Heal(s)
  <2>1. PICK w \in Ws \ spent :
          /\ live' = live \cup {w} /\ role'[w][req[s].user] = "admin"
          /\ \A v \in Ws \ {w} : role'[v] = role[v]
          /\ req'[s].user = req[s].user /\ req'[s].ws = w
    BY <1>6, HealDoes
  <2>2. Others(s) /\ default' = default
    BY <1>6, HealDoes
  <2>3. Lasting
    BY <2>1, LastingFound
  <2>4. Heading(req'[s], live', role')
    BY <2>1 DEF Heading
  <2> QED
    BY <2>2, <2>3, <2>4, LandedBy
<1>7. CASE AdoptDefault(s)
  <2>1. /\ UNCHANGED <<live, role>> /\ Others(s) /\ req[s].op = "login"
        /\ default' = [default EXCEPT ![req[s].user] = req[s].ws]
        /\ req'[s].op = req[s].op /\ req'[s].user = req[s].user /\ req'[s].ws = req[s].ws
    BY <1>7, AdoptDefaultDoes DEF Moves
  <2>2. ASSUME NEW u \in User, default'[u] \in live PROVE role[default'[u]][u] # "none"
    <3>1. CASE u = req[s].user
      BY <1>1, <2>1, <2>2, <3>1 DEF Heading
    <3>2. CASE u # req[s].user
      BY <1>1, <2>1, <2>2, <3>2 DEF Landed
    <3> QED
      BY <3>1, <3>2
  <2>3. ASSUME NEW x \in Slot, req'[x] # NoRequest PROVE Heading(req'[x], live, role)
    <3>1. CASE x = s
      BY <1>1, <2>1, <3>1 DEF Heading
    <3>2. CASE x # s
      BY <2>1, <2>3, <3>2 DEF Others, Landed
    <3> QED
      BY <3>1, <3>2
  <2>4. NoRequest' = NoRequest
    BY DEF NoRequest
  <2> QED
    BY <2>1, <2>2, <2>3, <2>4 DEF Landed
<1> QED
  BY <1>2, <1>3, <1>4, <1>5, <1>6, <1>7 DEF LoginStep

LEMMA LandedCall ==
    ASSUME Base, Base', Landed, "remove" \notin Op, NEW s \in Slot, CallStep(s)
    PROVE  Landed'
<1>0. req[s] # NoRequest
  BY DEF CallStep, Authorise, StepUp, MintToken, RevokeToken, NewWorkspace, StoreInvite,
         ReadRole, CountAdmins, UpdateRole, DropMember, DropWorkspace, WriteTickets
<1>1. live \subseteq Ws
  BY DEF Base, TypeOK
<1>2. CASE Authorise(s) \/ StepUp(s) \/ ReadRole(s) \/ CountAdmins(s)
  <2>1. /\ UNCHANGED <<live, role, default>>
        /\ Ends(s) \/ \E at \in Steps : Moves(s, at)
    BY <1>2, AuthoriseDoes, StepUpDoes, ReadRoleDoes, CountAdminsDoes DEF Steps
  <2>2. \/ Ends(s)
        \/ /\ Others(s) /\ req'[s].op = req[s].op /\ req'[s].user = req[s].user
           /\ req'[s].ws = req[s].ws
    BY <2>1 DEF Moves
  <2> QED
    BY <1>0, <2>1, <2>2, LastingUnmoved, LandedGoes
<1>3. CASE MintToken(s) \/ RevokeToken(s) \/ StoreInvite(s) \/ WriteTickets(s)
  <2>1. UNCHANGED <<live, role, default>> /\ Ends(s)
    BY <1>3, MintTokenDoes, RevokeTokenDoes, StoreInviteDoes, WriteTicketsDoes
  <2> QED
    BY <1>0, <2>1, LastingUnmoved, LandedGoes
<1>4. CASE NewWorkspace(s)
  <2>1. /\ default' = default /\ Ends(s)
        /\ \E w \in Ws \ spent :
             live' = live \cup {w} /\ \A v \in Ws \ {w} : role'[v] = role[v]
    BY <1>4, NewWorkspaceDoes
  <2>2. Lasting
    BY <2>1, LastingFound
  <2> QED
    BY <1>0, <2>1, <2>2, LandedGoes
<1>5. CASE UpdateRole(s)
  <2>1. /\ UNCHANGED <<live, default>> /\ Ends(s) /\ req[s].role \in Roles
        /\ req[s].ws \in Ws /\ req[s].target \in User
        /\ role'[req[s].ws][req[s].target] =
             IF role[req[s].ws][req[s].target] = "none" THEN "none" ELSE req[s].role
        /\ \A x \in User \ {req[s].target} : role'[req[s].ws][x] = role[req[s].ws][x]
        /\ \A v \in Ws \ {req[s].ws} : role'[v] = role[v]
    BY <1>5, UpdateRoleDoes
  <2>2. ASSUME NEW w \in live, NEW u \in User, role[w][u] # "none" PROVE role'[w][u] # "none"
    <3>1. CASE w = req[s].ws /\ u = req[s].target
      BY <2>1, <2>2, <3>1 DEF Roles
    <3>2. CASE w = req[s].ws /\ u # req[s].target
      BY <2>1, <2>2, <3>2
    <3>3. CASE w # req[s].ws
      BY <1>1, <2>1, <2>2, <3>3
    <3> QED
      BY <3>1, <3>2, <3>3
  <2>3. Lasting
    BY <2>1, <2>2 DEF Lasting
  <2> QED
    BY <1>0, <2>1, <2>3, LandedGoes
<1>6. CASE DropMember(s)
  BY <1>6, DropMemberDoes
<1>7. CASE DropWorkspace(s)
  <2>1. /\ Ends(s) /\ live' \subseteq live /\ \A v \in live' : role'[v] = role[v]
        /\ \A u \in User : default'[u] = default[u] \/ default'[u] = Null
    BY <1>7, DropWorkspaceDoes
  <2>2. Lasting
    BY <2>1 DEF Lasting
  <2> QED
    BY <1>0, <2>1, <2>2, LandedGoes
<1> QED
  BY <1>2, <1>3, <1>4, <1>5, <1>6, <1>7 DEF CallStep

LEMMA LandedStep ==
    ASSUME Base, Landed, "remove" \notin Op, [Next]_vars
    PROVE  Landed'
<1>0. Base'
  BY BaseStep
<1>1. CASE UNCHANGED vars
  BY <1>1 DEF vars, Landed, Heading, NoRequest
<1>2. ASSUME NEW s \in Slot, Call(s) PROVE Landed'
  <2>1. UNCHANGED <<live, role, default>> /\ Others(s) /\ req'[s].op # "login"
    BY <1>2, CallDoes
  <2> QED
    BY <1>0, <2>1, LastingUnmoved, LandedBy DEF Heading
<1>3. ASSUME NEW s \in Slot, Login(s) PROVE Landed'
  <2>1. UNCHANGED <<live, role, default>> /\ Others(s) /\ req'[s].ws = Null
    BY <1>3, LoginDoes
  <2>2. Null \notin live
    BY AccessAssumption DEF Base, TypeOK
  <2> QED
    BY <1>0, <2>1, <2>2, LastingUnmoved, LandedBy DEF Heading
<1>4. ASSUME NEW s \in Slot, Fail(s) PROVE Landed'
  BY <1>0, <1>4, FailDoes, LastingUnmoved, LandedGoes DEF Fail
<1>5. ASSUME NEW s \in Slot, LoginStep(s) PROVE Landed'
  BY <1>0, <1>5, LandedLogin
<1>6. ASSUME NEW s \in Slot, CallStep(s) PROVE Landed'
  BY <1>0, <1>6, LandedCall
<1> QED
  BY <1>1, <1>2, <1>3, <1>4, <1>5, <1>6 DEF Next

\* As long as nobody is removed, however requests interleave, the workspace a
\* login mints its token for has the user as a member whenever it exists.
THEOREM LoginsEndInAccess ==
    ASSUME "remove" \notin Op PROVE Spec => LoginTokenUsable
<1>1. Init => Landed
  BY AccessAssumption DEF Init, Landed
<1>2. Base /\ Landed /\ [Next]_vars => Landed'
  BY LandedStep
<1>3. Base /\ Landed /\ [Next]_vars =>
        [\A s \in Slot : MintToken(s) /\ req[s].op = "login" /\ Exists(req[s].ws)
           => role[req[s].ws][req[s].user] # "none"]_vars
  BY DEF Landed, Heading, MintToken, Exists
<1> QED
  BY <1>1, <1>2, <1>3, BaseHolds, PTL DEF Spec, LoginTokenUsable

=============================================================================
