---------------------------- MODULE OAuthProofs ----------------------------
(***************************************************************************)
(* Theorems about OAuth, for any number of connections, requests and       *)
(* rotations.                                                              *)
(*                                                                         *)
(* They rest on one inductive invariant, IInv: a connection has one holder *)
(* (ChainNeverForks), and whoever holds it is paired with every access     *)
(* token of it that is still live (PairsCurrent), so that rotation leaves  *)
(* none behind.                                                            *)
(***************************************************************************)
EXTENDS OAuth, TLAPS

LEMMA InitIInv == Init => IInv
BY OAuthAssumption
   DEF Init, IInv, TypeOK, Gens, NoRequest, ClosedIsEmpty, GrantsFresh, ChainNeverForks,
       OnlyNewestAccess, PairsCurrent, GrantPaired, RequestPaired, Held, Busy, Exchanging, Live

(***************************************************************************)
(* Types.                                                                  *)
(***************************************************************************)

\* A request that runs a statement has its locals.
LEMMA ReqType ==
  ASSUME TypeOK, NEW s \in Slot, req[s].at \in Steps
  PROVE  req[s] \in Request
<1>1. req[s] \in Request \cup {NoRequest}
  BY DEF TypeOK
<1>2. NoRequest.at \notin Steps
  BY DEF NoRequest, Steps
<1> QED
  BY <1>1, <1>2

\* A request stays one when it moves on, and when it ends.
LEMMA ReqMoves ==
  ASSUME TypeOK, NEW s \in Slot, NEW q \in Request \cup {NoRequest}
  PROVE  [req EXCEPT ![s] = q] \in [Slot -> Request \cup {NoRequest}]
BY DEF TypeOK

LEMMA GotoType ==
  ASSUME TypeOK, NEW s \in Slot, req[s] \in Request, NEW at \in Steps, Goto(s, at)
  PROVE  req' \in [Slot -> Request \cup {NoRequest}]
<1>1. [req[s] EXCEPT !.at = at] \in Request
  BY DEF Request
<1> QED
  BY <1>1 DEF Goto, TypeOK

LEMMA CredentialSets ==
  ASSUME NEW S \in SUBSET (Conn \X Gens), NEW c \in Conn, NEW g \in Gens
  PROVE  /\ S \cup {<<c, g>>} \in SUBSET (Conn \X Gens)
         /\ S \ {<<c, g>>} \in SUBSET (Conn \X Gens)
OBVIOUS

LEMMA NextType == TypeOK /\ [Next]_vars => TypeOK'
<1> SUFFICES ASSUME TypeOK, [Next]_vars PROVE TypeOK'
  OBVIOUS
<1>0. 0 \in Gens /\ \A n \in Gens : n < MaxGen => n + 1 \in Gens
  BY OAuthAssumption DEF Gens
<1>1. ASSUME NEW c \in Conn, Authorize(c) PROVE TypeOK'
  BY <1>0, <1>1, CredentialSets DEF Authorize, TypeOK
<1>2. ASSUME NEW c \in Conn, NEW g \in Gens, Expire(c, g) PROVE TypeOK'
  BY <1>2 DEF Expire, TypeOK
<1>3. ASSUME NEW c \in Conn, NEW g \in Gens, LogOut(c, g) PROVE TypeOK'
  BY <1>3 DEF LogOut, TypeOK
<1>4. ASSUME NEW s \in Slot, NEW c \in Conn, NEW g \in Gens, AskTokens(s, c, g)
      PROVE  TypeOK'
  <2>1. PICK match \in BOOLEAN :
          req' = [req EXCEPT ![s] = [at |-> "consume", conn |-> c, gen |-> g, pair |-> 0,
                                     match |-> match, token |-> "refresh"]]
    BY <1>4 DEF AskTokens
  <2>2. [at |-> "consume", conn |-> c, gen |-> g, pair |-> 0,
         match |-> match, token |-> "refresh"] \in Request
    BY <1>0 DEF Request, Steps
  <2> QED
    BY <1>4, <2>1, <2>2 DEF AskTokens, TypeOK
<1>5. ASSUME NEW s \in Slot, NEW c \in Conn, NEW g \in Gens, AskRevoke(s, c, g)
      PROVE  TypeOK'
  <2>1. PICK token \in {"access", "refresh"} :
          req' = [req EXCEPT ![s] = [at |-> "revoke access", conn |-> c, gen |-> g, pair |-> 0,
                                     match |-> TRUE, token |-> token]]
    BY <1>5 DEF AskRevoke
  <2>2. [at |-> "revoke access", conn |-> c, gen |-> g, pair |-> 0,
         match |-> TRUE, token |-> token] \in Request
    BY <1>0 DEF Request, Steps
  <2> QED
    BY <1>5, <2>1, <2>2 DEF AskRevoke, TypeOK
<1>6. ASSUME NEW s \in Slot, Fail(s) PROVE TypeOK'
  BY <1>6 DEF Fail, Done, TypeOK
<1>7. ASSUME NEW s \in Slot, Consume(s) PROVE TypeOK'
  <2>1. req[s] \in Request /\ req[s].conn \in Conn /\ req[s].gen \in Gens
    BY <1>7, ReqType DEF Consume, Request, Steps
  <2>2. grants' \in SUBSET (Conn \X Gens)
    BY <1>7, <2>1, CredentialSets DEF Consume, Without, TypeOK
  <2>3. paired[req[s].conn][req[s].gen] \in Gens
    BY <2>1 DEF TypeOK
  <2>4. \A at \in Steps :
          [req[s] EXCEPT !.pair = paired[req[s].conn][req[s].gen], !.at = at] \in Request
    BY <2>1, <2>3 DEF Request
  <2>5. req' \in [Slot -> Request \cup {NoRequest}]
    <3>1. CASE req' = [req EXCEPT ![s] = NoRequest]
      BY <3>1, ReqMoves
    <3>2. CASE req' = [req EXCEPT ![s] = [req[s] EXCEPT !.pair = paired[req[s].conn][req[s].gen],
                                      !.at = IF req[s].gen = 0 THEN "mint" ELSE "supersede"]]
      BY <2>4, <3>2, ReqMoves DEF Steps
    <3> QED
      BY <1>7, <3>1, <3>2 DEF Consume, Done
  <2> QED
    BY <1>7, <2>2, <2>5 DEF Consume, TypeOK
<1>8. ASSUME NEW s \in Slot, Supersede(s) PROVE TypeOK'
  <2>1. req[s] \in Request /\ req[s].conn \in Conn /\ req[s].pair \in Gens
    BY <1>8, ReqType DEF Supersede, Request, Steps
  <2>2. access' \in SUBSET (Conn \X Gens) /\ missed' \in SUBSET (Conn \X Gens)
    BY <1>8, <2>1, CredentialSets DEF Supersede, Superseded, TypeOK
  <2>3. req' \in [Slot -> Request \cup {NoRequest}]
    BY <1>8, <2>1, GotoType DEF Supersede, Steps
  <2> QED
    BY <1>8, <2>2, <2>3 DEF Supersede, TypeOK
<1>9. ASSUME NEW s \in Slot, Mint(s) PROVE TypeOK'
  <2> DEFINE n == issued[req[s].conn] + 1
  <2>1. req[s] \in Request /\ req[s].conn \in Conn
    BY <1>9, ReqType DEF Mint, Request, Steps
  <2>2. n \in Gens
    BY <1>0, <1>9, <2>1 DEF Mint, TypeOK
  <2>3. access' \in SUBSET (Conn \X Gens)
    BY <1>9, <2>1, <2>2, CredentialSets DEF Mint, TypeOK
  <2>4. [req[s] EXCEPT !.at = "store", !.gen = n, !.pair = NewPair(req[s].pair, n)] \in Request
    BY <2>1, <2>2 DEF Request, NewPair, Steps
  <2>5. req' \in [Slot -> Request \cup {NoRequest}]
    BY <1>9, <2>4, ReqMoves DEF Mint
  <2>6. issued' \in [Conn -> Gens]
    BY <1>9, <2>2 DEF Mint, TypeOK
  <2> QED
    BY <1>9, <2>3, <2>5, <2>6 DEF Mint, TypeOK
<1>10. ASSUME NEW s \in Slot, StoreRefresh(s) PROVE TypeOK'
  <2>1. /\ req[s] \in Request /\ req[s].conn \in Conn
        /\ req[s].gen \in Gens /\ req[s].pair \in Gens
    BY <1>10, ReqType DEF StoreRefresh, Request, Steps
  <2>2. grants' \in SUBSET (Conn \X Gens) /\ sent' \in SUBSET (Conn \X Gens)
    BY <1>10, <2>1, CredentialSets DEF StoreRefresh, TypeOK
  <2>3. paired' \in [Conn -> [Gens -> Gens]]
    BY <1>10, <2>1 DEF StoreRefresh, TypeOK
  <2> QED
    BY <1>10, <2>2, <2>3, ReqMoves DEF StoreRefresh, Done, TypeOK
<1>11. ASSUME NEW s \in Slot, RevokeAccess(s) PROVE TypeOK'
  <2>1. req[s] \in Request /\ req[s].conn \in Conn /\ req[s].gen \in Gens
    BY <1>11, ReqType DEF RevokeAccess, Request, Steps
  <2>2. access' \in SUBSET (Conn \X Gens)
    BY <1>11, <2>1, CredentialSets DEF RevokeAccess, TypeOK
  <2>3. req' \in [Slot -> Request \cup {NoRequest}]
    BY <1>11, <2>1, GotoType DEF RevokeAccess, Steps
  <2> QED
    BY <1>11, <2>2, <2>3 DEF RevokeAccess, TypeOK
<1>12. ASSUME NEW s \in Slot, RevokeRefresh(s) PROVE TypeOK'
  BY <1>12 DEF RevokeRefresh, Done, Without, TypeOK
<1>13. CASE UNCHANGED vars
  BY <1>13 DEF vars, TypeOK
<1> QED
  BY <1>1, <1>2, <1>3, <1>4, <1>5, <1>6, <1>7, <1>8, <1>9, <1>10, <1>11, <1>12, <1>13
     DEF Next, TokenStep

\* Every variable keeps its type: credentials belong to connections, and a
\* request in flight has the locals its next statement needs.
THEOREM TypeCorrect == Spec => []TypeOK
<1>1. Init => TypeOK
  BY InitIInv DEF IInv
<1> QED
  BY <1>1, NextType, PTL DEF Spec

(***************************************************************************)
(* The inductive invariant, action by action.                              *)
(***************************************************************************)

\* Whatever only takes grants and access tokens away, and starts or ends
\* requests outside an exchange, keeps the invariant.
LEMMA ShrinkKeeps ==
  ASSUME IInv, TypeOK', grants' \subseteq grants, access' \subseteq access,
         UNCHANGED <<paired, sent, issued, missed>>,
         \A s \in Slot : req'[s].at \in Exchanging => req'[s] = req[s]
  PROVE  IInv'
<1> USE DEF IInv
<1>1. \A c \in Conn : /\ Held(c)' \subseteq Held(c)
                      /\ Busy(c)' \subseteq Busy(c)
                      /\ Live(c)' \subseteq Live(c)
  BY DEF Held, Busy, Live
<1>2. ClosedIsEmpty'
  BY <1>1 DEF ClosedIsEmpty
<1>3. GrantsFresh'
  BY DEF GrantsFresh, Exchanging
<1>4. ChainNeverForks'
  BY <1>1 DEF ChainNeverForks
<1>5. OnlyNewestAccess'
  BY DEF OnlyNewestAccess
<1>6. PairsCurrent'
  <2>1. ASSUME NEW c \in Conn PROVE GrantPaired(c)'
    BY <1>1 DEF PairsCurrent, GrantPaired
  <2>2. ASSUME NEW s \in Slot PROVE RequestPaired(s)'
    <3>1. CASE req'[s].at \in Exchanging
      <4>1. req'[s] = req[s] /\ RequestPaired(s)
        BY <3>1 DEF PairsCurrent
      <4>2. \A d : Live(d)' \subseteq Live(d)
        BY DEF Live
      <4> QED
        BY <4>1, <4>2 DEF RequestPaired, Live
    <3>2. CASE req'[s].at \notin Exchanging
      BY <3>2 DEF RequestPaired, Exchanging
    <3> QED
      BY <3>1, <3>2
  <2> QED
    BY <2>1, <2>2 DEF PairsCurrent
<1> QED
  BY <1>2, <1>3, <1>4, <1>5, <1>6

LEMMA AuthorizeKeeps ==
  ASSUME IInv, TypeOK', NEW c \in Conn, Authorize(c)
  PROVE  IInv'
<1> USE DEF IInv
<1>1. Held(c) = {} /\ Busy(c) = {} /\ Live(c) = {}
  BY DEF Authorize, ClosedIsEmpty
<1>2. /\ Held(c)' = {0}
      /\ \A d \in Conn \ {c} : Held(d)' = Held(d)
      /\ \A d \in Conn : Busy(d)' = Busy(d) /\ Live(d)' = Live(d)
  BY <1>1, OAuthAssumption DEF Authorize, Held, Busy, Exchanging, Live, Gens
<1>3. ClosedIsEmpty'
  BY <1>2 DEF Authorize, ClosedIsEmpty
<1>4. GrantsFresh'
  <2>1. 0 <= issued[c]
    BY OAuthAssumption DEF TypeOK, Gens
  <2>2. ASSUME NEW s \in Slot, req[s].at = "store" PROVE req[s].conn # c
    BY <1>1, <2>2 DEF Busy, Exchanging
  <2> QED
    BY <2>1, <2>2 DEF Authorize, GrantsFresh
<1>5. ChainNeverForks'
  BY <1>1, <1>2 DEF ChainNeverForks
<1>6. OnlyNewestAccess'
  BY DEF Authorize, OnlyNewestAccess
<1>7. PairsCurrent'
  <2>1. ASSUME NEW d \in Conn PROVE GrantPaired(d)'
    BY <1>1, <1>2 DEF Authorize, PairsCurrent, GrantPaired
  <2>2. ASSUME NEW s \in Slot PROVE RequestPaired(s)'
    BY DEF Authorize, PairsCurrent, RequestPaired, Live
  <2> QED
    BY <2>1, <2>2 DEF PairsCurrent
<1> QED
  BY <1>3, <1>4, <1>5, <1>6, <1>7

LEMMA ConsumeKeeps ==
  ASSUME IInv, TypeOK', NEW s \in Slot, Consume(s)
  PROVE  IInv'
<1> USE DEF IInv
<1>0. req[s] \in Request
  BY ReqType DEF Consume, Steps
<1>1. PICK c \in Conn, g \in Gens : c = req[s].conn /\ g = req[s].gen
  BY <1>0 DEF Request
<1>2. CASE req' = [req EXCEPT ![s] = NoRequest]
  <2>1. \A t \in Slot : req'[t].at \in Exchanging => req'[t] = req[t]
    BY <1>2 DEF TypeOK, NoRequest, Exchanging
  <2> QED
    BY <2>1, ShrinkKeeps DEF Consume, Without
<1>3. CASE /\ <<c, g>> \in grants
           /\ grants' = Without(c, g)
           /\ req' = [req EXCEPT ![s] =
                        [req[s] EXCEPT !.pair = paired[c][g],
                                       !.at = IF g = 0 THEN "mint" ELSE "supersede"]]
  <2>1. /\ req'[s].at = IF g = 0 THEN "mint" ELSE "supersede"
        /\ req'[s].conn = c /\ req'[s].pair = paired[c][g]
        /\ \A t \in Slot \ {s} : req'[t] = req[t]
    BY <1>0, <1>1, <1>3 DEF TypeOK, Request
  <2>2. g \in Held(c) /\ Held(c) = {g} /\ Busy(c) = {}
    BY <1>1, <1>3 DEF Held, ChainNeverForks
  <2>3. /\ Held(c)' = {} /\ Busy(c)' = {s}
        /\ \A d \in Conn : Live(d)' = Live(d)
        /\ \A d \in Conn \ {c} : Held(d)' = Held(d) /\ Busy(d)' = Busy(d)
    <3>1. Held(c)' = {} /\ \A d \in Conn \ {c} : Held(d)' = Held(d)
      BY <1>3, <2>2 DEF Held, Without
    <3>2. Busy(c)' = {s} /\ \A d \in Conn \ {c} : Busy(d)' = Busy(d)
      BY <2>1, <2>2 DEF Busy, Exchanging, Consume
    <3> QED
      BY <3>1, <3>2 DEF Consume, Live
  <2>4. ClosedIsEmpty'
    BY <2>2, <2>3 DEF ClosedIsEmpty, Consume
  <2>5. GrantsFresh'
    BY <2>1 DEF GrantsFresh, Consume
  <2>6. ChainNeverForks'
    BY <2>3 DEF ChainNeverForks
  <2>7. OnlyNewestAccess'
    BY DEF OnlyNewestAccess, Consume
  <2>8. PairsCurrent'
    <3>1. ASSUME NEW d \in Conn PROVE GrantPaired(d)'
      BY <2>3 DEF PairsCurrent, GrantPaired, Consume
    <3>2. ASSUME NEW t \in Slot PROVE RequestPaired(t)'
      <4>1. CASE t = s
        <5>1. Live(c) \subseteq IF g = 0 THEN {} ELSE {paired[c][g]}
          BY <1>1, <2>2 DEF PairsCurrent, GrantPaired
        <5> QED
          BY <1>1, <2>1, <2>3, <4>1, <5>1 DEF RequestPaired
      <4>2. CASE t # s
        BY <2>1, <4>2 DEF PairsCurrent, RequestPaired, Live, Consume
      <4> QED
        BY <4>1, <4>2
    <3> QED
      BY <3>1, <3>2 DEF PairsCurrent
  <2> QED
    BY <2>4, <2>5, <2>6, <2>7, <2>8
<1> QED
  BY <1>1, <1>2, <1>3 DEF Consume, Done

LEMMA SupersedeKeeps ==
  ASSUME IInv, TypeOK', NEW s \in Slot, Supersede(s)
  PROVE  IInv'
<1> USE DEF IInv
<1>0. req[s] \in Request
  BY ReqType DEF Supersede, Steps
<1>1. PICK c \in Conn : c = req[s].conn
  BY <1>0 DEF Request
<1>2. /\ req'[s].at = "mint" /\ req'[s].conn = c
      /\ \A t \in Slot \ {s} : req'[t] = req[t]
  BY <1>0, <1>1 DEF Supersede, Goto, TypeOK, Request
<1>3. /\ \A d \in Conn : Held(d)' = Held(d) /\ Busy(d)' = Busy(d)
      /\ \A d \in Conn : Live(d)' \subseteq Live(d)
  BY <1>1, <1>2 DEF Supersede, Superseded, Held, Busy, Exchanging, Live
<1>4. Live(c)' = {}
  <2>1. Live(c) \subseteq {req[s].pair}
    BY <1>1 DEF PairsCurrent, RequestPaired, Supersede
  <2> QED
    BY <1>1, <2>1 DEF Supersede, Superseded, Live
<1>5. ClosedIsEmpty'
  BY <1>3 DEF ClosedIsEmpty, Supersede
<1>6. GrantsFresh'
  BY <1>2 DEF GrantsFresh, Supersede
<1>7. ChainNeverForks'
  BY <1>3 DEF ChainNeverForks
<1>8. OnlyNewestAccess'
  BY DEF OnlyNewestAccess, Supersede, Superseded
<1>9. PairsCurrent'
  <2>1. ASSUME NEW d \in Conn PROVE GrantPaired(d)'
    BY <1>3 DEF PairsCurrent, GrantPaired, Supersede
  <2>2. ASSUME NEW t \in Slot PROVE RequestPaired(t)'
    <3>1. CASE t = s
      BY <1>2, <1>4, <3>1 DEF RequestPaired
    <3>2. CASE t # s
      <4>1. \A d : Live(d)' \subseteq Live(d)
        BY DEF Supersede, Superseded, Live
      <4> QED
        BY <1>2, <3>2, <4>1 DEF PairsCurrent, RequestPaired, Live
    <3> QED
      BY <3>1, <3>2
  <2> QED
    BY <2>1, <2>2 DEF PairsCurrent
<1> QED
  BY <1>5, <1>6, <1>7, <1>8, <1>9

LEMMA MintKeeps ==
  ASSUME IInv, TypeOK', NEW s \in Slot, Mint(s)
  PROVE  IInv'
<1> USE DEF IInv
<1>0. req[s] \in Request
  BY ReqType DEF Mint, Steps
<1>1. PICK c \in Conn, n \in Gens : c = req[s].conn /\ n = issued[c] + 1 /\ issued'[c] = n
  BY <1>0, OAuthAssumption DEF Request, Mint, TypeOK, Gens
<1>2. /\ n > 0 /\ n > issued[c]
      /\ \A d \in Conn : issued[d] <= issued'[d]
      /\ \A d \in Conn \ {c} : issued'[d] = issued[d]
  BY <1>1, OAuthAssumption DEF Mint, TypeOK, Gens
<1>3. /\ req'[s].at = "store" /\ req'[s].conn = c
      /\ req'[s].gen = n /\ req'[s].pair = n
      /\ \A t \in Slot \ {s} : req'[t] = req[t]
  BY <1>0, <1>1 DEF Mint, NewPair, TypeOK, Request
<1>4. /\ Held(c) = {} /\ Busy(c) = {s}
      /\ \A t \in Slot \ {s} : req[t].at \in Exchanging => req[t].conn # c
      /\ <<c, 0>> \in sent
  <2>1. s \in Busy(c)
    BY <1>1 DEF Busy, Exchanging, Mint
  <2>2. Held(c) = {} /\ Busy(c) = {s} /\ <<c, 0>> \in sent
    BY <2>1 DEF ChainNeverForks, ClosedIsEmpty
  <2> QED
    BY <2>2 DEF Busy
<1>5. /\ \A d \in Conn : Held(d)' = Held(d) /\ Busy(d)' = Busy(d)
      /\ \A d \in Conn \ {c} : Live(d)' = Live(d)
  BY <1>1, <1>3 DEF Mint, Held, Busy, Exchanging, Live
<1>6. Live(c) = {} /\ Live(c)' \subseteq {n}
  <2>1. Live(c) = {}
    BY <1>1 DEF PairsCurrent, RequestPaired, Mint
  <2> QED
    BY <1>1, <2>1 DEF Mint, Live
<1>7. ClosedIsEmpty'
  BY <1>4, <1>5 DEF ClosedIsEmpty, Mint
<1>8. GrantsFresh'
  <2>1. ASSUME NEW d \in Conn, NEW g \in Gens, <<d, g>> \in sent PROVE g <= issued'[d]
    BY <1>2, <2>1, OAuthAssumption DEF GrantsFresh, TypeOK, Gens
  <2>2. ASSUME NEW t \in Slot, req'[t].at = "store"
        PROVE  req'[t].gen = issued'[req'[t].conn] /\ <<req'[t].conn, req'[t].gen>> \notin sent
    <3>1. CASE t = s
      <4>1. <<c, n>> \notin sent
        <5>1. ~(n <= issued[c])
          BY <1>1, <1>2, OAuthAssumption DEF TypeOK, Gens
        <5> QED
          BY <5>1 DEF GrantsFresh
      <4> QED
        BY <1>1, <1>3, <3>1, <4>1
    <3>2. CASE t # s
      <4>1. req'[t] = req[t] /\ req[t] \in Request /\ req[t].conn \in Conn \ {c}
        BY <1>3, <1>4, <2>2, <3>2, ReqType DEF Exchanging, Steps, Request
      <4> QED
        BY <1>2, <2>2, <4>1 DEF GrantsFresh
    <3> QED
      BY <3>1, <3>2
  <2> QED
    BY <2>1, <2>2 DEF GrantsFresh, Mint
<1>9. ChainNeverForks'
  BY <1>5 DEF ChainNeverForks
<1>10. OnlyNewestAccess'
  BY <1>1, <1>2, <1>6 DEF OnlyNewestAccess, Mint, Live
<1>11. PairsCurrent'
  <2>1. ASSUME NEW d \in Conn PROVE GrantPaired(d)'
    BY <1>4, <1>5 DEF PairsCurrent, GrantPaired, Mint
  <2>2. ASSUME NEW t \in Slot PROVE RequestPaired(t)'
    <3>1. CASE t = s
      BY <1>2, <1>3, <1>6, <3>1 DEF RequestPaired
    <3>2. CASE t # s /\ req[t].at \in Exchanging
      <4>1. PICK d \in Conn \ {c} : req[t].conn = d /\ req'[t] = req[t]
        BY <1>3, <1>4, <3>2, ReqType DEF Exchanging, Steps, Request
      <4> QED
        BY <1>5, <4>1 DEF PairsCurrent, RequestPaired
    <3>3. CASE t # s /\ req[t].at \notin Exchanging
      BY <1>3, <3>3 DEF RequestPaired, Exchanging
    <3> QED
      BY <3>1, <3>2, <3>3
  <2> QED
    BY <2>1, <2>2 DEF PairsCurrent
<1> QED
  BY <1>7, <1>8, <1>9, <1>10, <1>11

LEMMA StoreRefreshKeeps ==
  ASSUME IInv, TypeOK', NEW s \in Slot, StoreRefresh(s)
  PROVE  IInv'
<1> USE DEF IInv
<1>0. req[s] \in Request
  BY ReqType DEF StoreRefresh, Steps
<1>1. PICK c \in Conn, g \in Gens : c = req[s].conn /\ g = req[s].gen
  BY <1>0 DEF Request
<1>2. req'[s] = NoRequest /\ \A t \in Slot \ {s} : req'[t] = req[t]
  BY DEF StoreRefresh, Done, TypeOK
<1>3. g = issued[c] /\ g > 0 /\ Live(c) \subseteq {req[s].pair}
  BY <1>1 DEF GrantsFresh, PairsCurrent, RequestPaired, StoreRefresh
<1>4. /\ Held(c) = {} /\ Busy(c) = {s}
      /\ \A t \in Slot \ {s} : req[t].at \in Exchanging => req[t].conn # c
      /\ <<c, 0>> \in sent
  <2>1. s \in Busy(c)
    BY <1>1 DEF Busy, Exchanging, StoreRefresh
  <2>2. Held(c) = {} /\ Busy(c) = {s} /\ <<c, 0>> \in sent
    BY <2>1 DEF ChainNeverForks, ClosedIsEmpty
  <2> QED
    BY <2>2 DEF Busy
<1>5. /\ Held(c)' = {g} /\ Busy(c)' = {}
      /\ \A d \in Conn \ {c} : Held(d)' = Held(d) /\ Busy(d)' = Busy(d)
      /\ \A d \in Conn : Live(d)' = Live(d)
  <2>1. Held(c)' = {g} /\ \A d \in Conn \ {c} : Held(d)' = Held(d)
    BY <1>1, <1>4 DEF StoreRefresh, Held
  <2>2. Busy(c)' = {} /\ \A d \in Conn \ {c} : Busy(d)' = Busy(d)
    BY <1>1, <1>2, <1>4 DEF Busy, Exchanging, NoRequest, StoreRefresh
  <2> QED
    BY <2>1, <2>2 DEF StoreRefresh, Live
<1>6. ClosedIsEmpty'
  BY <1>1, <1>4, <1>5 DEF ClosedIsEmpty, StoreRefresh
<1>7. GrantsFresh'
  <2>1. ASSUME NEW d \in Conn, NEW h \in Gens, <<d, h>> \in sent' PROVE h <= issued[d]
    <3>1. issued[c] <= issued[c]
      BY OAuthAssumption DEF TypeOK, Gens
    <3> QED
      BY <1>1, <1>3, <2>1, <3>1 DEF GrantsFresh, StoreRefresh
  <2>2. ASSUME NEW t \in Slot, req'[t].at = "store"
        PROVE  req'[t].gen = issued[req'[t].conn] /\ <<req'[t].conn, req'[t].gen>> \notin sent'
    <3>1. t # s
      BY <1>2, <2>2 DEF NoRequest
    <3>2. req'[t] = req[t] /\ req[t].conn # c
      BY <1>2, <1>4, <2>2, <3>1 DEF Exchanging
    <3> QED
      BY <1>1, <2>2, <3>2 DEF GrantsFresh, StoreRefresh
  <2> QED
    BY <2>1, <2>2 DEF GrantsFresh, StoreRefresh
<1>8. ChainNeverForks'
  BY <1>5 DEF ChainNeverForks
<1>9. OnlyNewestAccess'
  BY DEF OnlyNewestAccess, StoreRefresh
<1>10. PairsCurrent'
  <2>1. GrantPaired(c)'
    <3>1. paired'[c][g] = req[s].pair
      BY <1>1 DEF StoreRefresh, TypeOK
    <3> QED
      BY <1>3, <1>5, <3>1 DEF GrantPaired
  <2>2. ASSUME NEW d \in Conn \ {c} PROVE GrantPaired(d)'
    <3>1. paired'[d] = paired[d]
      BY <1>1 DEF StoreRefresh, TypeOK
    <3> QED
      BY <1>5, <3>1 DEF PairsCurrent, GrantPaired
  <2>3. ASSUME NEW t \in Slot PROVE RequestPaired(t)'
    <3>1. CASE t = s
      BY <1>2, <3>1 DEF RequestPaired, NoRequest
    <3>2. CASE t # s
      BY <1>2, <3>2 DEF PairsCurrent, RequestPaired, Live, StoreRefresh
    <3> QED
      BY <3>1, <3>2
  <2> QED
    BY <2>1, <2>2, <2>3 DEF PairsCurrent
<1> QED
  BY <1>6, <1>7, <1>8, <1>9, <1>10

LEMMA NextIInv == IInv /\ [Next]_vars => IInv'
<1> SUFFICES ASSUME IInv, [Next]_vars PROVE IInv'
  OBVIOUS
<1>0. TypeOK'
  BY NextType DEF IInv
<1>1. ASSUME NEW c \in Conn, Authorize(c) PROVE IInv'
  BY <1>0, <1>1, AuthorizeKeeps
<1>2. ASSUME NEW c \in Conn, NEW g \in Gens, Expire(c, g) \/ LogOut(c, g) PROVE IInv'
  BY <1>0, <1>2, ShrinkKeeps DEF Expire, LogOut
<1>3. ASSUME NEW s \in Slot, NEW c \in Conn, NEW g \in Gens,
             AskTokens(s, c, g) \/ AskRevoke(s, c, g)
      PROVE  IInv'
  <2>1. req'[s].at \in {"consume", "revoke access"} /\ \A t \in Slot \ {s} : req'[t] = req[t]
    <3>1. CASE AskTokens(s, c, g)
      BY <3>1 DEF AskTokens, IInv, TypeOK
    <3>2. CASE AskRevoke(s, c, g)
      <4>1. PICK token \in {"access", "refresh"} :
              req' = [req EXCEPT ![s] = [at |-> "revoke access", conn |-> c, gen |-> g, pair |-> 0,
                                         match |-> TRUE, token |-> token]]
        BY <3>2 DEF AskRevoke
      <4> QED
        BY <4>1 DEF IInv, TypeOK
    <3> QED
      BY <1>3, <3>1, <3>2
  <2> QED
    BY <1>0, <1>3, <2>1, ShrinkKeeps DEF AskTokens, AskRevoke, Exchanging
<1>4. ASSUME NEW s \in Slot, Fail(s) PROVE IInv'
  <2>1. req'[s].at = "none" /\ \A t \in Slot \ {s} : req'[t] = req[t]
    BY <1>4 DEF Fail, Done, IInv, TypeOK, NoRequest
  <2> QED
    BY <1>0, <1>4, <2>1, ShrinkKeeps DEF Fail, Exchanging
<1>5. ASSUME NEW s \in Slot, TokenStep(s) PROVE IInv'
  BY <1>0, <1>5, ConsumeKeeps, SupersedeKeeps, MintKeeps, StoreRefreshKeeps DEF TokenStep
<1>6. ASSUME NEW s \in Slot, RevokeAccess(s) PROVE IInv'
  <2>1. req[s] \in Request
    BY <1>6, ReqType DEF RevokeAccess, IInv, Steps
  <2>2. req'[s].at = "revoke refresh" /\ \A t \in Slot \ {s} : req'[t] = req[t]
    BY <1>6, <2>1 DEF RevokeAccess, Goto, IInv, TypeOK, Request
  <2> QED
    BY <1>0, <1>6, <2>2, ShrinkKeeps DEF RevokeAccess, Exchanging
<1>7. ASSUME NEW s \in Slot, RevokeRefresh(s) PROVE IInv'
  <2>1. req'[s].at = "none" /\ \A t \in Slot \ {s} : req'[t] = req[t]
    BY <1>7 DEF RevokeRefresh, Done, IInv, TypeOK, NoRequest
  <2> QED
    BY <1>0, <1>7, <2>1, ShrinkKeeps DEF RevokeRefresh, Without, Exchanging
<1>8. CASE UNCHANGED vars
  BY <1>0, <1>8, ShrinkKeeps DEF vars
<1> QED
  BY <1>1, <1>2, <1>3, <1>4, <1>5, <1>6, <1>7, <1>8 DEF Next

\* The invariant holds throughout: one holder, paired with what is live.
THEOREM Invariant == Spec => []IInv
BY InitIInv, NextIInv, PTL DEF Spec

(***************************************************************************)
(* What follows from it.                                                   *)
(***************************************************************************)

\* However many requests present the grants of a connection, and whichever of
\* them fail, at most one code, refresh token or exchange in progress is live.
THEOREM NeverForks == Spec => []ChainNeverForks
<1>1. IInv => ChainNeverForks
  BY DEF IInv
<1> QED
  BY <1>1, Invariant, PTL

\* Rotation leaves no older access token live but one whose revocation failed.
THEOREM NewestOnly == Spec => []OnlyNewestAccess
<1>1. IInv => OnlyNewestAccess
  BY DEF IInv
<1> QED
  BY <1>1, Invariant, PTL

(***************************************************************************)
(* OAuth implements Chain.                                                 *)
(***************************************************************************)

LEMMA InitRefines == Init => Chains!ChainInit
<1> SUFFICES ASSUME Init PROVE Chains!ChainInit
  OBVIOUS
<1>1. \A c \in Conn : Held(c) = {} /\ {g \in Gens : <<c, g>> \in sent} = {}
  BY DEF Init, Held
<1>2. \A s \in Slot : req[s].at = "none"
  BY DEF Init, NoRequest
<1>3. \A c \in Conn : Busy(c) = {}
  BY <1>2 DEF Busy, Exchanging
<1> QED
  BY <1>1, <1>3 DEF Chains!ChainInit, GivenTo, HeldBy, BusyFor

\* A step that leaves a connection alone, seen from the chain.
LEMMA Untouched ==
  ASSUME UNCHANGED sent, \A c \in Conn : Held(c)' = Held(c) /\ Busy(c)' = Busy(c)
  PROVE  UNCHANGED Chains!chainVars
BY DEF Chains!chainVars, GivenTo, HeldBy, BusyFor

\* A step after which one connection has neither grant nor exchange.
LEMMA Ended ==
  ASSUME NEW c \in Conn, UNCHANGED sent, Held(c)' = {}, Busy(c)' = {},
         \A d \in Conn \ {c} : Held(d)' = Held(d) /\ Busy(d)' = Busy(d)
  PROVE  Chains!ChainNext
<1>1. /\ GivenTo' = GivenTo
      /\ HeldBy' = [HeldBy EXCEPT ![c] = {}]
      /\ BusyFor' = [BusyFor EXCEPT ![c] = FALSE]
  BY DEF GivenTo, HeldBy, BusyFor
<1> QED
  BY <1>1 DEF Chains!ChainNext, Chains!End

LEMMA AuthorizeRefines ==
  ASSUME IInv, NEW c \in Conn, Authorize(c)
  PROVE  Chains!ChainNext
<1>0. 0 \in Gens
  BY OAuthAssumption DEF Gens
<1>1. Held(c) = {} /\ GivenTo[c] = {}
  BY DEF IInv, Authorize, ClosedIsEmpty, GivenTo
<1>2. GivenTo' = [GivenTo EXCEPT ![c] = @ \cup {0}]
  BY <1>0 DEF Authorize, GivenTo
<1>3. HeldBy' = [HeldBy EXCEPT ![c] = {0}]
  BY <1>0, <1>1 DEF Authorize, HeldBy, Held
<1>4. BusyFor' = BusyFor
  BY DEF Authorize, BusyFor, Busy
<1> QED
  BY <1>0, <1>1, <1>2, <1>3, <1>4 DEF Chains!ChainNext, Chains!Open, Chains!HandOut

LEMMA ConsumeRefines ==
  ASSUME IInv, NEW s \in Slot, Consume(s)
  PROVE  [Chains!ChainNext]_(Chains!chainVars)
<1> USE DEF IInv
<1>0. req[s] \in Request
  BY ReqType DEF Consume, Steps
<1>1. PICK c \in Conn, g \in Gens : c = req[s].conn /\ g = req[s].gen
  BY <1>0 DEF Request
<1>2. \A t \in Slot \ {s} : req'[t] = req[t]
  BY DEF Consume, Done, TypeOK
<1>3. CASE <<c, g>> \notin grants
  <2>1. req'[s].at = "none" /\ UNCHANGED grants
    BY <1>1, <1>3 DEF Consume, Done, TypeOK, NoRequest
  <2> QED
    BY <1>2, <2>1, Untouched DEF Consume, Held, Busy, Exchanging
<1>4. CASE <<c, g>> \in grants
  <2>1. Held(c) = {g} /\ Busy(c) = {} /\ grants' = grants \ {<<c, g>>}
    BY <1>1, <1>4 DEF Consume, Without, Held, ChainNeverForks
  <2>2. Held(c)' = {} /\ \A d \in Conn \ {c} : Held(d)' = Held(d)
    BY <2>1 DEF Held
  <2>3. CASE req' = [req EXCEPT ![s] = NoRequest]
    <3>1. req'[s].at = "none"
      BY <2>3 DEF TypeOK, NoRequest
    <3>2. Busy(c)' = {} /\ \A d \in Conn \ {c} : Busy(d)' = Busy(d)
      BY <1>2, <2>1, <3>1 DEF Busy, Exchanging, Consume
    <3> QED
      BY <2>2, <3>2, Ended DEF Consume
  <2>4. CASE req' = [req EXCEPT ![s] =
                       [req[s] EXCEPT !.pair = paired[c][g],
                                      !.at = IF g = 0 THEN "mint" ELSE "supersede"]]
    <3>1. req'[s].at \in Exchanging /\ req'[s].conn = c
      BY <1>0, <1>1, <2>4 DEF TypeOK, Request, Exchanging
    <3>2. Busy(c)' = {s} /\ \A d \in Conn \ {c} : Busy(d)' = Busy(d)
      BY <1>1, <1>2, <2>1, <3>1 DEF Busy
    <3>3. /\ GivenTo' = GivenTo
          /\ HeldBy' = [HeldBy EXCEPT ![c] = {}]
          /\ BusyFor' = [BusyFor EXCEPT ![c] = TRUE]
          /\ HeldBy[c] # {} /\ ~BusyFor[c]
      BY <2>1, <2>2, <3>2 DEF Consume, GivenTo, HeldBy, BusyFor
    <3> QED
      BY <3>3 DEF Chains!ChainNext, Chains!Take
  <2> QED
    BY <1>1, <1>4, <2>3, <2>4 DEF Consume, Done
<1> QED
  BY <1>3, <1>4

LEMMA StoreRefreshRefines ==
  ASSUME IInv, NEW s \in Slot, StoreRefresh(s)
  PROVE  Chains!ChainNext
<1> USE DEF IInv
<1>0. req[s] \in Request
  BY ReqType DEF StoreRefresh, Steps
<1>1. PICK c \in Conn, g \in Gens : c = req[s].conn /\ g = req[s].gen
  BY <1>0 DEF Request
<1>2. s \in Busy(c) /\ Busy(c) = {s} /\ Held(c) = {}
  <2>1. s \in Busy(c)
    BY <1>1 DEF Busy, Exchanging, StoreRefresh
  <2> QED
    BY <2>1 DEF ChainNeverForks
<1>3. g \in Gens \ GivenTo[c]
  BY <1>1 DEF GrantsFresh, GivenTo, StoreRefresh
<1>4. GivenTo' = [GivenTo EXCEPT ![c] = @ \cup {g}]
  BY <1>1 DEF StoreRefresh, GivenTo
<1>5. HeldBy' = [HeldBy EXCEPT ![c] = {g}]
  BY <1>1, <1>2 DEF StoreRefresh, HeldBy, Held
<1>6. BusyFor' = [BusyFor EXCEPT ![c] = FALSE] /\ BusyFor[c]
  <2>1. req'[s].at = "none" /\ \A t \in Slot \ {s} : req'[t] = req[t]
    BY DEF StoreRefresh, Done, TypeOK, NoRequest
  <2>2. Busy(c)' = {} /\ \A d \in Conn \ {c} : Busy(d)' = Busy(d)
    BY <1>1, <1>2, <2>1 DEF Busy, Exchanging
  <2> QED
    BY <1>2, <2>2 DEF BusyFor
<1> QED
  BY <1>3, <1>4, <1>5, <1>6 DEF Chains!ChainNext, Chains!Give, Chains!HandOut

LEMMA FailRefines ==
  ASSUME IInv, NEW s \in Slot, Fail(s)
  PROVE  [Chains!ChainNext]_(Chains!chainVars)
<1> USE DEF IInv
<1>1. req'[s].at = "none" /\ \A t \in Slot \ {s} : req'[t] = req[t]
  BY DEF Fail, Done, TypeOK, NoRequest
<1>2. \A d \in Conn : Held(d)' = Held(d)
  BY DEF Fail, Held
<1>3. CASE req[s].at \in Exchanging
  <2>1. PICK c \in Conn : c = req[s].conn
    BY <1>3, ReqType DEF Exchanging, Steps, Request
  <2>2. Busy(c) = {s} /\ Held(c) = {}
    <3>1. s \in Busy(c)
      BY <1>3, <2>1 DEF Busy
    <3> QED
      BY <3>1 DEF ChainNeverForks
  <2>3. Busy(c)' = {} /\ \A d \in Conn \ {c} : Busy(d)' = Busy(d)
    BY <1>1, <2>1, <2>2 DEF Busy, Exchanging
  <2> QED
    BY <1>2, <2>2, <2>3, Ended DEF Fail
<1>4. CASE req[s].at \notin Exchanging
  <2>1. \A d \in Conn : Busy(d)' = Busy(d)
    BY <1>1, <1>4 DEF Busy, Exchanging
  <2> QED
    BY <1>2, <2>1, Untouched DEF Fail
<1> QED
  BY <1>3, <1>4

LEMMA RevokeRefreshRefines ==
  ASSUME IInv, NEW s \in Slot, RevokeRefresh(s)
  PROVE  [Chains!ChainNext]_(Chains!chainVars)
<1> USE DEF IInv
<1>0. req[s] \in Request
  BY ReqType DEF RevokeRefresh, Steps
<1>1. PICK c \in Conn, g \in Gens : c = req[s].conn /\ g = req[s].gen
  BY <1>0 DEF Request
<1>2. \A d \in Conn : Busy(d)' = Busy(d)
  <2>1. req'[s].at = "none" /\ \A t \in Slot \ {s} : req'[t] = req[t]
    BY DEF RevokeRefresh, Done, TypeOK, NoRequest
  <2> QED
    BY <2>1 DEF Busy, Exchanging, RevokeRefresh
<1>3. CASE req[s].token = "refresh" /\ <<c, g>> \in grants
  <2>1. Held(c) = {g} /\ Busy(c) = {}
    BY <1>1, <1>3 DEF Held, ChainNeverForks
  <2>2. Held(c)' = {} /\ \A d \in Conn \ {c} : Held(d)' = Held(d)
    BY <1>1, <1>3, <2>1 DEF RevokeRefresh, Without, Held
  <2> QED
    BY <1>2, <2>1, <2>2, Ended DEF RevokeRefresh
<1>4. CASE ~(req[s].token = "refresh" /\ <<c, g>> \in grants)
  <2>1. grants' = grants
    BY <1>1, <1>4 DEF RevokeRefresh, Without
  <2> QED
    BY <1>2, <2>1, Untouched DEF RevokeRefresh, Held
<1> QED
  BY <1>3, <1>4

LEMMA NextRefines == IInv /\ [Next]_vars => [Chains!ChainNext]_(Chains!chainVars)
<1> SUFFICES ASSUME IInv, [Next]_vars PROVE [Chains!ChainNext]_(Chains!chainVars)
  OBVIOUS
<1> USE DEF IInv
<1>1. ASSUME NEW c \in Conn, NEW g \in Gens, Expire(c, g) \/ LogOut(c, g)
      PROVE  UNCHANGED Chains!chainVars
  BY <1>1, Untouched DEF Expire, LogOut, Held, Busy
<1>2. ASSUME NEW s \in Slot, NEW c \in Conn, NEW g \in Gens,
             AskTokens(s, c, g) \/ AskRevoke(s, c, g)
      PROVE  UNCHANGED Chains!chainVars
  <2>1. /\ req[s].at \notin Exchanging /\ req'[s].at \notin Exchanging
        /\ \A t \in Slot \ {s} : req'[t] = req[t]
    <3>1. CASE AskTokens(s, c, g)
      BY <3>1 DEF AskTokens, TypeOK, NoRequest, Exchanging
    <3>2. CASE AskRevoke(s, c, g)
      <4>1. PICK token \in {"access", "refresh"} :
              req' = [req EXCEPT ![s] = [at |-> "revoke access", conn |-> c, gen |-> g, pair |-> 0,
                                         match |-> TRUE, token |-> token]]
        BY <3>2 DEF AskRevoke
      <4>2. req[s] = NoRequest
        BY <3>2 DEF AskRevoke
      <4>3. req'[s].at = "revoke access" /\ \A t \in Slot \ {s} : req'[t] = req[t]
        BY <4>1 DEF TypeOK
      <4>4. req[s].at = "none"
        BY <4>2 DEF NoRequest
      <4> QED
        BY <4>3, <4>4 DEF Exchanging
    <3> QED
      BY <1>2, <3>1, <3>2
  <2> QED
    BY <1>2, <2>1, Untouched DEF AskTokens, AskRevoke, Held, Busy
<1>3. ASSUME NEW s \in Slot, Supersede(s) \/ Mint(s) \/ RevokeAccess(s)
      PROVE  UNCHANGED Chains!chainVars
  <2>1. req[s] \in Request
    BY <1>3, ReqType DEF Supersede, Mint, RevokeAccess, Steps
  <2>2. /\ req'[s].conn = req[s].conn
        /\ (req'[s].at \in Exchanging <=> req[s].at \in Exchanging)
        /\ \A t \in Slot \ {s} : req'[t] = req[t]
    <3>1. CASE Supersede(s)
      BY <2>1, <3>1 DEF Supersede, Goto, TypeOK, Request, Exchanging
    <3>2. CASE Mint(s)
      BY <2>1, <3>2 DEF Mint, TypeOK, Request, Exchanging
    <3>3. CASE RevokeAccess(s)
      BY <2>1, <3>3 DEF RevokeAccess, Goto, TypeOK, Request, Exchanging
    <3> QED
      BY <1>3, <3>1, <3>2, <3>3
  <2> QED
    BY <1>3, <2>2, Untouched DEF Supersede, Mint, RevokeAccess, Held, Busy
<1>4. CASE UNCHANGED vars
  BY <1>4, Untouched DEF vars, Held, Busy
<1> QED
  BY <1>1, <1>2, <1>3, <1>4, AuthorizeRefines, ConsumeRefines, StoreRefreshRefines,
     FailRefines, RevokeRefreshRefines DEF Next, TokenStep

\* The OAuth handlers implement the chain of single-use grants: presenting a
\* grant gives it up for good, and the next one was never given before.
THEOREM OAuthImplementsChain == Spec => ImplementsChain
<1>1. IInv /\ IInv' /\ [Next]_vars => [Chains!ChainNext]_(Chains!chainVars)
  BY NextRefines
<1> QED
  BY <1>1, InitRefines, Invariant, PTL DEF Spec, ImplementsChain, Chains!ChainSpec

============================================================================
