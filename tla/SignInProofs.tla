------------------------------ MODULE SignInProofs ------------------------------
(***************************************************************************)
(* Theorems about SignIn, for any number of other callers, any limits of   *)
(* attempts and of time, and whatever fails.                               *)
(*                                                                         *)
(* CodeInv is the inductive invariant.  Tallied ties the attempts of the   *)
(* row to the wrong codes that were compared: what is missing on one side  *)
(* is held by requests between their SELECT and their UPDATE.  Single says *)
(* that a code which is accepted is gone, and Doomed that a request which  *)
(* is about to delete the row has a reason for it that lasts.              *)
(***************************************************************************)
EXTENDS SignIn, FiniteSetTheorems, TLAPS

----------------------------------------------------------------------------
(* The inductive invariant.                                                *)

\* Requests that have compared a wrong code with the row and not counted it:
\* with the current code, and with any.
Missing    == {s \in Slot : req[s].at = "miss" /\ req[s].code = "current"}
AnyMissing == {s \in Slot : req[s].at = "miss"}

\* Requests that have found the current code to be right and not deleted it.
Trying == {s \in Slot : req[s].at = "consume" /\ req[s].code = "current"}

Tallied ==
    row # NoRow =>
      /\ misses <= row.attempts + uncounted + Cardinality(Missing)
      /\ row.attempts + Cardinality(AnyMissing) <= misses + Cardinality(Others)

Single ==
    ~raced =>
      /\ \A s, t \in Trying : s = t
      /\ uses <= 1
      /\ uses = 1 => row = NoRow /\ Trying = {}

Doomed ==
    \A s \in Slot : req[s].at = "purge" /\ req[s].code = "current" =>
      row = NoRow \/ Expired \/ Spent

CodeInv == TypeOK /\ FewMisses /\ Tallied /\ Single /\ Doomed

----------------------------------------------------------------------------
(* Requests.                                                               *)

Locals == [at : Steps, code : Codes]
Rows   == [left : -1 .. Ttl, attempts : Nat]

LEMMA IdleIsNoRequest ==
    /\ Idle \notin Locals /\ Idle.at = "idle" /\ "idle" \notin Steps
    /\ \A q \in Locals \cup {Idle} : q = Idle <=> q.at = "idle"
BY DEF Idle, Locals, Steps

LEMMA NoRowIsNoRow == NoRow \notin Rows
BY DEF NoRow, Rows

\* Only the request that steps moves, and it is over or at another statement.
Rest(s) == \A x \in Slot \ {s} : req'[x] = req[x]
Moves(s, at, c) == Rest(s) /\ req'[s] = [at |-> at, code |-> c]
Ends(s) == Rest(s) /\ req'[s] = Idle

LEMMA Replaced ==
    ASSUME TypeOK, NEW s \in Slot, NEW n \in Locals \cup {Idle}, req' = [req EXCEPT ![s] = n]
    PROVE  req' \in [Slot -> Locals \cup {Idle}] /\ Rest(s) /\ req'[s] = n
BY DEF TypeOK, Rest, Locals

LEMMA StartMoves ==
    ASSUME TypeOK, NEW s \in Slot, NEW at \in Steps, NEW c \in Codes, Start(s, at, c)
    PROVE  req' \in [Slot -> Locals \cup {Idle}] /\ Moves(s, at, c)
<1> DEFINE n == [at |-> at, code |-> c]
<1>1. n \in Locals /\ req' = [req EXCEPT ![s] = n]
  BY DEF Locals, Start
<1> HIDE DEF n
<1>2. req' \in [Slot -> Locals \cup {Idle}] /\ Rest(s) /\ req'[s] = n
  BY <1>1, Replaced
<1> QED
  BY <1>2 DEF n, Moves

LEMMA DoneEnds ==
    ASSUME TypeOK, NEW s \in Slot, Done(s)
    PROVE  req' \in [Slot -> Locals \cup {Idle}] /\ Ends(s)
BY Replaced DEF Done, Ends

LEMMA Busy ==
    ASSUME TypeOK, NEW s \in Slot, req[s].at \in Steps
    PROVE  /\ req[s] \in Locals /\ req[s] # Idle /\ req[s].code \in Codes
           /\ req[s] = [at |-> req[s].at, code |-> req[s].code]
BY IdleIsNoRequest DEF TypeOK, Locals

LEMMA GotoMoves ==
    ASSUME TypeOK, NEW s \in Slot, req[s].at \in Steps, NEW at \in Steps, Goto(s, at)
    PROVE  req' \in [Slot -> Locals \cup {Idle}] /\ Moves(s, at, req[s].code)
<1>1. PICK q \in Locals : q = req[s]
  BY Busy
<1>2. [q EXCEPT !.at = at] = [at |-> at, code |-> q.code]
  BY DEF Locals
<1> DEFINE n == [at |-> at, code |-> q.code]
<1>3. req' = [req EXCEPT ![s] = n]
  BY <1>1, <1>2 DEF Goto
<1>4. n \in Locals
  BY DEF Locals
<1> HIDE DEF n
<1>5. req' \in [Slot -> Locals \cup {Idle}] /\ Rest(s) /\ req'[s] = n
  BY <1>3, <1>4, Replaced
<1> QED
  BY <1>1, <1>5 DEF Moves, n

----------------------------------------------------------------------------
(* Counting requests.                                                      *)

LEMMA SlotsFinite ==
    /\ IsFiniteSet(Slot) /\ Cardinality(Slot) = Cardinality(Others) + 1
    /\ Cardinality(Others) \in Nat
    /\ \A s \in Slot : Cardinality(Slot \ {s}) = Cardinality(Others)
<1>1. IsFiniteSet(Others) /\ User \notin Others
  BY SignInAssumption
<1>2. Slot = Others \cup {User}
  BY DEF Slot
<1>3. IsFiniteSet(Slot) /\ Cardinality(Slot) = Cardinality(Others) + 1
  BY <1>1, <1>2, FS_AddElement
<1>4. Cardinality(Others) \in Nat
  BY <1>1, FS_CardinalityType
<1>5. ASSUME NEW s \in Slot PROVE Cardinality(Slot \ {s}) = Cardinality(Others)
  <2>1. Cardinality(Slot \ {s}) = Cardinality(Slot) - 1
    BY <1>3, FS_RemoveElement
  <2> QED
    BY <1>3, <1>4, <2>1
<1> QED
  BY <1>3, <1>4, <1>5

\* A set of requests, without one and with one more.
LEMMA OneMoreOrLess ==
    ASSUME NEW A, A \subseteq Slot, NEW s \in Slot
    PROVE  /\ IsFiniteSet(A) /\ Cardinality(A) \in Nat
           /\ Cardinality(A) <= Cardinality(Others) + 1
           /\ s \notin A => Cardinality(A) <= Cardinality(Others)
           /\ s \in A => Cardinality(A \ {s}) = Cardinality(A) - 1
           /\ s \notin A => A \ {s} = A /\ Cardinality(A \cup {s}) = Cardinality(A) + 1
<1>1. IsFiniteSet(Slot)
  BY SlotsFinite
<1>2. IsFiniteSet(A) /\ Cardinality(A) <= Cardinality(Slot)
  BY <1>1, FS_Subset
<1>3. Cardinality(A) \in Nat
  BY <1>2, FS_CardinalityType
<1>4. s \notin A => Cardinality(A) <= Cardinality(Others)
  <2>1. IsFiniteSet(Slot \ {s})
    BY <1>1, FS_Subset
  <2>2. s \notin A => A \subseteq Slot \ {s}
    OBVIOUS
  <2>3. s \notin A => Cardinality(A) <= Cardinality(Slot \ {s})
    BY <2>1, <2>2, FS_Subset
  <2> QED
    BY <2>3, SlotsFinite
<1>5. s \in A => Cardinality(A \ {s}) = Cardinality(A) - 1
  BY <1>2, FS_RemoveElement
<1>6. s \notin A => Cardinality(A \cup {s}) = Cardinality(A) + 1
  BY <1>2, FS_AddElement
<1> QED
  BY <1>2, <1>3, <1>4, <1>5, <1>6, SlotsFinite

LEMMA Counts ==
    ASSUME NEW s \in Slot
    PROVE  /\ Cardinality(Missing) \in Nat /\ Cardinality(AnyMissing) \in Nat
           /\ Cardinality(Missing) <= Cardinality(Others) + 1
           /\ s \notin Missing => Cardinality(Missing) <= Cardinality(Others)
           /\ s \notin AnyMissing => Cardinality(AnyMissing) <= Cardinality(Others)
           /\ Cardinality(Others) \in Nat
<1>1. Missing \subseteq Slot /\ AnyMissing \subseteq Slot
  BY DEF Missing, AnyMissing
<1> QED
  BY <1>1, OneMoreOrLess, SlotsFinite

\* What a step does to the three sets of requests, and to their sizes.
LEMMA SetsAfter ==
    ASSUME NEW s \in Slot, Rest(s)
    PROVE  /\ Missing' = IF req'[s].at = "miss" /\ req'[s].code = "current"
                         THEN Missing \cup {s} ELSE Missing \ {s}
           /\ AnyMissing' = IF req'[s].at = "miss" THEN AnyMissing \cup {s} ELSE AnyMissing \ {s}
           /\ Trying' = IF req'[s].at = "consume" /\ req'[s].code = "current"
                        THEN Trying \cup {s} ELSE Trying \ {s}
BY DEF Missing, AnyMissing, Trying, Rest, Slot

----------------------------------------------------------------------------
(* What each statement does to its request, the row and what is counted,   *)
(* and that it keeps the types.                                            *)

LEMMA TypeParts ==
    TypeOK <=>
      /\ kind \in Kinds /\ row \in Rows \cup {NoRow} /\ req \in [Slot -> Locals \cup {Idle}]
      /\ inbox \in Codes /\ ticket \in -1 .. TicketTtl /\ granted \in BOOLEAN /\ Limiter!TypeOK
      /\ misses \in Nat /\ uncounted \in Nat /\ uses \in Nat /\ raced \in BOOLEAN
      /\ trouble \in 0 .. MaxTrouble
BY DEF TypeOK, Rows, Locals

LEMMA TypeWhole ==
    ASSUME kind' \in Kinds, row' \in Rows \cup {NoRow}, req' \in [Slot -> Locals \cup {Idle}],
           inbox' \in Codes, ticket' \in -1 .. TicketTtl, granted' \in BOOLEAN, Limiter!TypeOK',
           misses' \in Nat, uncounted' \in Nat, uses' \in Nat, raced' \in BOOLEAN,
           trouble' \in 0 .. MaxTrouble
    PROVE  TypeOK'
BY DEF TypeOK, Rows, Locals, Limiter!TypeOK

\* Whatever the limiter answers its credit stays within bounds.
LEMMA LimiterTyped ==
    ASSUME Limiter!TypeOK,
           \/ Quiet
           \/ \E k \in LimiterKey : Charge(k) \/ Refused(k)
           \/ Limiter!Tick \/ Limiter!Restart
    PROVE  Limiter!TypeOK'
<1>0. Cost \in Nat /\ Cap \in Nat
  BY SignInAssumption
<1>1. CASE Quiet
  BY <1>1 DEF Quiet, Limiter!TypeOK, Limiter!Answer, Limiter!Silent
<1>2. ASSUME NEW k \in LimiterKey, Limiter!Admit(k) PROVE Limiter!TypeOK'
  BY <1>0, <1>2 DEF Limiter!Admit, Limiter!Say, Limiter!TypeOK, Limiter!Answer
<1>3. ASSUME NEW k \in LimiterKey, Limiter!Refuse(k) PROVE Limiter!TypeOK'
  BY <1>0, <1>3 DEF Limiter!Refuse, Limiter!Say, Limiter!TypeOK, Limiter!Answer
<1>4. CASE Limiter!Tick
  BY <1>0, <1>4 DEF Limiter!Tick, Limiter!Full, Limiter!TypeOK, Limiter!Answer, Limiter!Silent
<1>5. CASE Limiter!Restart
  BY <1>0, <1>5 DEF Limiter!Restart, Limiter!TypeOK, Limiter!Answer, Limiter!Silent
<1> QED
  BY <1>1, <1>2, <1>3, <1>4, <1>5 DEF Charge, Refused

LEMMA TroubleTyped ==
    ASSUME TypeOK, Trouble \/ UNCHANGED trouble PROVE trouble' \in 0 .. MaxTrouble
BY SignInAssumption DEF TypeOK, Trouble

LEMMA AskCodeDoes ==
    ASSUME TypeOK, NEW s \in Slot, AskCode(s)
    PROVE  /\ TypeOK' /\ req[s] = Idle /\ UNCHANGED <<row, misses, uncounted, uses, raced>>
           /\ Moves(s, "put", "none") \/ UNCHANGED req
<1>1. /\ req[s] = Idle /\ Asked(s)
      /\ UNCHANGED <<kind, row, inbox, ticket, granted, misses, uncounted, uses, raced>>
      /\ \E k \in LimiterKey : Charge(k) \/ Refused(k)
      /\ Start(s, "put", "none") \/ UNCHANGED req
  BY DEF AskCode, code, LimiterKey
<1>2. "put" \in Steps /\ "none" \in Codes
  BY DEF Steps, Codes
<1>3. req' \in [Slot -> Locals \cup {Idle}] /\ (Moves(s, "put", "none") \/ UNCHANGED req)
  BY <1>1, <1>2, StartMoves, TypeParts
<1>4. trouble' \in 0 .. MaxTrouble
  BY <1>1, TroubleTyped DEF Asked
<1>5. Limiter!TypeOK'
  BY <1>1, TypeParts, LimiterTyped
<1>6. TypeOK'
  BY <1>1, <1>3, <1>4, <1>5, TypeParts, TypeWhole
<1> QED
  BY <1>1, <1>3, <1>6

LEMMA SendCodeDoes ==
    ASSUME TypeOK, NEW s \in Slot, SendCode(s)
    PROVE  /\ TypeOK' /\ req[s] = Idle /\ UNCHANGED <<row, misses, uncounted, uses, raced>>
           /\ (\E c \in Codes : Moves(s, "select", c)) \/ UNCHANGED req
<1>1. /\ req[s] = Idle
      /\ UNCHANGED <<kind, row, ticket, granted, misses, uncounted, uses, raced>>
      /\ inbox' = "none" \/ inbox' = inbox
      /\ \E k \in LimiterKey : Charge(k) \/ Refused(k)
      /\ (\E c \in Codes : Start(s, "select", c)) \/ UNCHANGED req
      /\ Trouble \/ UNCHANGED trouble
  BY DEF SendCode, code, LimiterKey, Asked
<1>2. "select" \in Steps /\ "none" \in Codes
  BY DEF Steps, Codes
<1>3. /\ req' \in [Slot -> Locals \cup {Idle}]
      /\ (\E c \in Codes : Moves(s, "select", c)) \/ UNCHANGED req
  BY <1>1, <1>2, StartMoves, TypeParts
<1>4. trouble' \in 0 .. MaxTrouble
  BY <1>1, TroubleTyped
<1>5. Limiter!TypeOK'
  BY <1>1, TypeParts, LimiterTyped
<1>6. TypeOK'
  BY <1>1, <1>2, <1>3, <1>4, <1>5, TypeParts, TypeWhole
<1> QED
  BY <1>1, <1>3, <1>6

LEMMA PutDoes ==
    ASSUME TypeOK, NEW s \in Slot, Put(s)
    PROVE  /\ TypeOK' /\ req[s].at = "put"
           /\ row' = [left |-> Ttl, attempts |-> 0]
           /\ misses' = 0 /\ uncounted' = 0 /\ uses' = 0 /\ raced' = FALSE
           /\ req'[s].at = "mail"
           /\ \A t \in Slot \ {s} : req'[t].at = req[t].at /\ (req'[t].at \in Steps => req'[t].code # "current")
<1>1. /\ req[s].at = "put" /\ row' = [left |-> Ttl, attempts |-> 0]
      /\ inbox' = Older(inbox)
      /\ misses' = 0 /\ uncounted' = 0 /\ uses' = 0 /\ raced' = FALSE
      /\ Quiet /\ UNCHANGED <<kind, ticket, granted, trouble>>
  BY DEF Put, NewRow
<1>2. row' \in Rows
  BY <1>1, SignInAssumption DEF Rows
<1>3. \A c \in Codes : Older(c) \in Codes /\ Older(c) # "current"
  BY DEF Codes, Older
<1>4. ASSUME NEW q \in Locals
      PROVE  [q EXCEPT !.code = Older(@)] = [at |-> q.at, code |-> Older(q.code)]
  BY DEF Locals
<1>5. ASSUME NEW t \in Slot \ {s}
      PROVE  /\ req'[t] \in Locals \cup {Idle}
             /\ req'[t].at = req[t].at
             /\ req'[t].at \in Steps => req'[t].code # "current"
  <2>1. req'[t] = IF req[t] = Idle THEN Idle ELSE [req[t] EXCEPT !.code = Older(@)]
    BY DEF Put
  <2>2. CASE req[t] = Idle
    BY <2>1, <2>2, IdleIsNoRequest
  <2>3. CASE req[t] # Idle
    <3>1. PICK q \in Locals : q = req[t]
      BY <2>3, TypeParts
    <3>2. req'[t] = [at |-> q.at, code |-> Older(q.code)]
      BY <1>4, <2>1, <2>3, <3>1
    <3>3. Older(q.code) \in Codes /\ Older(q.code) # "current"
      BY <1>3 DEF Locals
    <3> QED
      BY <3>1, <3>2, <3>3 DEF Locals
  <2> QED
    BY <2>2, <2>3
<1>6. req'[s] = [at |-> "mail", code |-> "current"]
  BY DEF Put
<1>7. req'[s] \in Locals /\ req'[s].at = "mail"
  BY <1>6 DEF Locals, Steps, Codes
<1>8. req' \in [Slot -> Locals \cup {Idle}]
  <2>1. req' = [t \in Slot |-> req'[t]]
    BY DEF Put
  <2> QED
    BY <1>5, <1>7, <2>1
<1>9. Limiter!TypeOK' /\ inbox' \in Codes
  BY <1>1, <1>3, TypeParts, LimiterTyped
<1>10. TypeOK'
  BY <1>1, <1>2, <1>8, <1>9, TypeParts, TypeWhole
<1> QED
  BY <1>1, <1>5, <1>7, <1>10

LEMMA MailDoes ==
    ASSUME TypeOK, NEW s \in Slot, Mail(s)
    PROVE  /\ TypeOK' /\ req[s].at = "mail" /\ UNCHANGED <<row, misses, uncounted, uses, raced>>
           /\ Ends(s)
<1>1. /\ req[s].at = "mail" /\ Done(s) /\ Quiet /\ (Trouble \/ UNCHANGED trouble)
      /\ inbox' = req[s].code \/ inbox' = inbox
      /\ UNCHANGED <<kind, row, ticket, granted, misses, uncounted, uses, raced>>
  BY DEF Mail, code
<1>2. req[s].code \in Codes
  BY <1>1, Busy DEF Steps
<1>3. req' \in [Slot -> Locals \cup {Idle}] /\ Ends(s)
  BY <1>1, DoneEnds
<1>4. Limiter!TypeOK' /\ trouble' \in 0 .. MaxTrouble
  BY <1>1, TypeParts, LimiterTyped, TroubleTyped
<1>5. TypeOK'
  BY <1>1, <1>2, <1>3, <1>4, TypeParts, TypeWhole
<1> QED
  BY <1>1, <1>3, <1>5

LEMMA SelectDoes ==
    ASSUME TypeOK, NEW s \in Slot, Select(s)
    PROVE  /\ TypeOK' /\ req[s].at = "select" /\ UNCHANGED <<row, uncounted, uses>>
           /\ \/ row = NoRow /\ Ends(s) /\ UNCHANGED <<misses, raced>>
              \/ (Expired \/ Spent) /\ Moves(s, "purge", "current") /\ UNCHANGED <<misses, raced>>
              \/ /\ row # NoRow /\ ~Spent
                 /\ misses' = misses + 1 /\ raced' = raced
                 /\ Moves(s, "miss", "current")
              \/ /\ row # NoRow /\ misses' = misses /\ (raced' = FALSE => raced = FALSE /\ ~Overlapped(s))
                 /\ Moves(s, "consume", "current")
<1>1. /\ req[s].at = "select" /\ Quiet
      /\ UNCHANGED <<kind, row, inbox, ticket, granted, trouble, uncounted, uses>>
  BY DEF Select, code
<1>2. Limiter!TypeOK'
  BY <1>1, TypeParts, LimiterTyped
<1>3. {"purge", "miss", "consume"} \subseteq Steps /\ "current" \in Codes
  BY DEF Steps, Codes
<1>4. CASE row = NoRow
  <2>1. Done(s) /\ UNCHANGED <<misses, raced>>
    BY <1>4 DEF Select, code
  <2>2. req' \in [Slot -> Locals \cup {Idle}] /\ Ends(s)
    BY <2>1, DoneEnds
  <2>3. TypeOK'
    BY <1>1, <1>2, <2>1, <2>2, TypeParts, TypeWhole
  <2> QED
    BY <1>1, <1>4, <2>1, <2>2, <2>3
<1>5. CASE row # NoRow /\ (Expired \/ Spent)
  <2>1. Start(s, "purge", "current") /\ UNCHANGED <<misses, raced>>
    BY <1>5 DEF Select, code, Start
  <2>2. req' \in [Slot -> Locals \cup {Idle}] /\ Moves(s, "purge", "current")
    BY <1>3, <2>1, StartMoves
  <2>3. TypeOK'
    BY <1>1, <1>2, <2>1, <2>2, TypeParts, TypeWhole
  <2> QED
    BY <1>1, <1>5, <2>1, <2>2, <2>3
<1>6. CASE row # NoRow /\ ~(Expired \/ Spent) /\ req[s].code # "current"
  <2>1. Start(s, "miss", "current") /\ misses' = misses + 1 /\ raced' = raced
    BY <1>6, TypeParts DEF Select, Start
  <2>2. req' \in [Slot -> Locals \cup {Idle}] /\ Moves(s, "miss", "current")
    BY <1>3, <2>1, StartMoves
  <2>3. misses' \in Nat
    BY <2>1, TypeParts
  <2>4. TypeOK'
    BY <1>1, <1>2, <2>1, <2>2, <2>3, TypeParts, TypeWhole
  <2> QED
    BY <1>1, <1>6, <2>1, <2>2, <2>4
<1>7. CASE row # NoRow /\ ~(Expired \/ Spent) /\ req[s].code = "current"
  <2>1. Start(s, "consume", "current") /\ misses' = misses /\ raced' = (raced \/ Overlapped(s))
    BY <1>7 DEF Select, Start
  <2>2. req' \in [Slot -> Locals \cup {Idle}] /\ Moves(s, "consume", "current")
    BY <1>3, <2>1, StartMoves
  <2>3. raced' \in BOOLEAN
    BY <2>1
  <2>4. TypeOK'
    BY <1>1, <1>2, <2>1, <2>2, <2>3, TypeParts, TypeWhole
  <2>5. raced' = FALSE => raced = FALSE /\ ~Overlapped(s)
    <3>1. raced \in BOOLEAN
      BY TypeParts
    <3> QED
      BY <2>1, <3>1
  <2> QED
    BY <1>1, <1>7, <2>1, <2>2, <2>4, <2>5
<1> QED
  BY <1>4, <1>5, <1>6, <1>7

LEMMA PurgeDoes ==
    ASSUME TypeOK, NEW s \in Slot, Purge(s)
    PROVE  /\ TypeOK' /\ req[s].at = "purge" /\ UNCHANGED <<misses, uncounted, uses, raced>>
           /\ row' = NoRow \/ row' = row
           /\ Ends(s)
<1>1. /\ req[s].at = "purge" /\ Done(s) /\ Quiet /\ (Trouble \/ UNCHANGED trouble)
      /\ row' = NoRow \/ row' = row
      /\ UNCHANGED <<kind, inbox, ticket, granted, misses, uncounted, uses, raced>>
  BY DEF Purge, code, Removed
<1>2. req' \in [Slot -> Locals \cup {Idle}] /\ Ends(s)
  BY <1>1, DoneEnds
<1>3. Limiter!TypeOK' /\ trouble' \in 0 .. MaxTrouble
  BY <1>1, TypeParts, LimiterTyped, TroubleTyped
<1>4. TypeOK'
  BY <1>1, <1>2, <1>3, TypeParts, TypeWhole
<1> QED
  BY <1>1, <1>2, <1>4

LEMMA RowCounted ==
    ASSUME row \in Rows
    PROVE  Counted \in Rows /\ Counted = [left |-> row.left, attempts |-> row.attempts + 1]
<1>1. PICK r \in Rows : r = row
  OBVIOUS
<1>2. [r EXCEPT !.attempts = @ + 1] = [left |-> r.left, attempts |-> r.attempts + 1]
  BY DEF Rows
<1>3. row # NoRow
  BY NoRowIsNoRow
<1>4. Counted = [left |-> r.left, attempts |-> r.attempts + 1]
  BY <1>1, <1>2, <1>3 DEF Counted
<1>5. [left |-> r.left, attempts |-> r.attempts + 1] \in Rows
  BY DEF Rows
<1> QED
  BY <1>1, <1>4, <1>5

LEMMA MissDoes ==
    ASSUME TypeOK, NEW s \in Slot, Miss(s)
    PROVE  /\ TypeOK' /\ req[s].at = "miss" /\ UNCHANGED <<misses, uses, raced>>
           /\ Ends(s)
           /\ \/ row = NoRow /\ row' = NoRow /\ uncounted' = uncounted
              \/ /\ row # NoRow /\ row' # NoRow
                 /\ row' = [left |-> row.left, attempts |-> row.attempts + 1]
                 /\ uncounted' = uncounted
              \/ /\ row' = row
                 /\ uncounted' = IF req[s].code = "current" THEN uncounted + 1 ELSE uncounted
<1>1. /\ req[s].at = "miss" /\ Done(s) /\ Quiet /\ (Trouble \/ UNCHANGED trouble)
      /\ \/ row' = Counted /\ uncounted' = uncounted
         \/ row' = row /\ uncounted' = IF req[s].code = "current" THEN uncounted + 1 ELSE uncounted
      /\ UNCHANGED <<kind, inbox, ticket, granted, misses, uses, raced>>
  BY DEF Miss
<1>2. req' \in [Slot -> Locals \cup {Idle}] /\ Ends(s)
  BY <1>1, DoneEnds
<1>3. Limiter!TypeOK' /\ trouble' \in 0 .. MaxTrouble
  BY <1>1, TypeParts, LimiterTyped, TroubleTyped
<1>4. row \in Rows \cup {NoRow} /\ uncounted \in Nat
  BY TypeParts
<1>5. /\ row = NoRow => Counted = NoRow
      /\ row # NoRow => /\ Counted \in Rows /\ Counted # NoRow
                        /\ Counted = [left |-> row.left, attempts |-> row.attempts + 1]
  BY <1>4, RowCounted, NoRowIsNoRow DEF Counted
<1>6. row' \in Rows \cup {NoRow} /\ uncounted' \in Nat
  BY <1>1, <1>4, <1>5
<1>7. TypeOK'
  BY <1>1, <1>2, <1>3, <1>6, TypeParts, TypeWhole
<1> QED
  BY <1>1, <1>2, <1>5, <1>7

LEMMA ConsumeDoes ==
    ASSUME TypeOK, NEW s \in Slot, Consume(s)
    PROVE  /\ TypeOK' /\ req[s].at = "consume" /\ UNCHANGED <<misses, uncounted>>
           /\ uses' = IF req[s].code = "current" THEN uses + 1 ELSE uses
           /\ Moves(s, "grant", req[s].code)
           /\ \/ row' = NoRow /\ raced' = raced
              \/ row' = row /\ (raced' = FALSE => raced = FALSE /\ req[s].code # "current")
<1>1. /\ req[s].at = "consume" /\ Goto(s, "grant") /\ Quiet /\ (Trouble \/ UNCHANGED trouble)
      /\ uses' = IF req[s].code = "current" THEN uses + 1 ELSE uses
      /\ \/ row' = NoRow /\ raced' = raced
         \/ row' = row /\ raced' = (raced \/ req[s].code = "current")
      /\ UNCHANGED <<kind, inbox, ticket, granted, misses, uncounted>>
  BY DEF Consume, Removed
<1>2. "grant" \in Steps /\ req[s].at \in Steps
  BY <1>1 DEF Steps
<1>3. req' \in [Slot -> Locals \cup {Idle}] /\ Moves(s, "grant", req[s].code)
  BY <1>1, <1>2, GotoMoves
<1>4. Limiter!TypeOK' /\ trouble' \in 0 .. MaxTrouble
  BY <1>1, TypeParts, LimiterTyped, TroubleTyped
<1>5. raced \in BOOLEAN /\ uses \in Nat /\ row \in Rows \cup {NoRow}
  BY TypeParts
<1>6. raced' \in BOOLEAN /\ uses' \in Nat /\ row' \in Rows \cup {NoRow}
  <2>1. uses' \in Nat
    BY <1>1, <1>5
  <2>2. raced' = raced \/ raced' = (raced \/ req[s].code = "current")
    BY <1>1
  <2>3. raced' \in BOOLEAN
    BY <1>5, <2>2
  <2>4. row' = NoRow \/ row' = row
    BY <1>1
  <2> QED
    BY <1>5, <2>1, <2>3, <2>4
<1>7. TypeOK'
  BY <1>1, <1>3, <1>4, <1>6, TypeParts, TypeWhole
<1>8. \/ row' = NoRow /\ raced' = raced
      \/ row' = row /\ (raced' = FALSE => raced = FALSE /\ req[s].code # "current")
  BY <1>1, <1>5
<1> QED
  BY <1>1, <1>3, <1>7, <1>8

LEMMA GrantDoes ==
    ASSUME TypeOK, NEW s \in Slot, Grant(s)
    PROVE  /\ TypeOK' /\ req[s].at = "grant" /\ UNCHANGED <<row, misses, uncounted, uses, raced>>
           /\ Ends(s)
<1>1. /\ req[s].at = "grant" /\ Done(s) /\ Quiet
      /\ granted' = granted \/ granted' = TRUE
      /\ ticket' = ticket \/ ticket' = TicketTtl
      /\ UNCHANGED <<kind, row, inbox, trouble, misses, uncounted, uses, raced>>
  BY DEF Grant, code
<1>2. req' \in [Slot -> Locals \cup {Idle}] /\ Ends(s)
  BY <1>1, DoneEnds
<1>3. Limiter!TypeOK' /\ granted' \in BOOLEAN
  BY <1>1, TypeParts, LimiterTyped
<1>4. ticket' \in -1 .. TicketTtl
  BY <1>1, TypeParts, SignInAssumption
<1>5. TypeOK'
  BY <1>1, <1>2, <1>3, <1>4, TypeParts, TypeWhole
<1> QED
  BY <1>1, <1>2, <1>5

LEMMA ChooseDoes ==
    ASSUME TypeOK, Choose
    PROVE  /\ TypeOK' /\ req[User] = Idle /\ UNCHANGED <<row, misses, uncounted, uses, raced>>
           /\ Moves(User, "member", "none")
<1>1. /\ req[User] = Idle /\ Start(User, "member", "none") /\ Quiet
      /\ UNCHANGED <<kind, row, inbox, ticket, granted, trouble, misses, uncounted, uses, raced>>
  BY DEF Choose, code
<1>2. "member" \in Steps /\ "none" \in Codes /\ User \in Slot
  BY DEF Steps, Codes, Slot
<1>3. req' \in [Slot -> Locals \cup {Idle}] /\ Moves(User, "member", "none")
  BY <1>1, <1>2, StartMoves
<1>4. Limiter!TypeOK'
  BY <1>1, TypeParts, LimiterTyped
<1>5. TypeOK'
  BY <1>1, <1>3, <1>4, TypeParts, TypeWhole
<1> QED
  BY <1>1, <1>3, <1>5

LEMMA MemberDoes ==
    ASSUME TypeOK, Member
    PROVE  /\ TypeOK' /\ req[User].at = "member" /\ UNCHANGED <<row, misses, uncounted, uses, raced>>
           /\ Moves(User, "grant", req[User].code) \/ Ends(User)
<1>1. /\ req[User].at = "member" /\ (Goto(User, "grant") \/ Done(User)) /\ Quiet
      /\ Trouble \/ UNCHANGED trouble
      /\ ticket' = ticket \/ ticket' = TicketTtl
      /\ UNCHANGED <<kind, row, inbox, granted, misses, uncounted, uses, raced>>
  BY DEF Member, code
<1>2. "grant" \in Steps /\ req[User].at \in Steps /\ User \in Slot
  BY <1>1 DEF Steps, Slot
<1>3. /\ req' \in [Slot -> Locals \cup {Idle}]
      /\ Moves(User, "grant", req[User].code) \/ Ends(User)
  BY <1>1, <1>2, GotoMoves, DoneEnds
<1>4. Limiter!TypeOK' /\ trouble' \in 0 .. MaxTrouble
  BY <1>1, TypeParts, LimiterTyped, TroubleTyped
<1>5. ticket' \in -1 .. TicketTtl
  BY <1>1, TypeParts, SignInAssumption
<1>6. TypeOK'
  BY <1>1, <1>3, <1>4, <1>5, TypeParts, TypeWhole
<1> QED
  BY <1>1, <1>3, <1>6

LEMMA FailDoes ==
    ASSUME TypeOK, NEW s \in Slot, Fail(s)
    PROVE  /\ TypeOK' /\ UNCHANGED <<row, misses, uses, raced>> /\ Ends(s)
           /\ uncounted' = IF s \in Missing THEN uncounted + 1 ELSE uncounted
<1>1. /\ Done(s) /\ Quiet /\ Trouble /\ uncounted' = uncounted + Uncounted({s})
      /\ UNCHANGED <<kind, row, inbox, ticket, granted, misses, uses, raced>>
  BY DEF Fail
<1>2. req' \in [Slot -> Locals \cup {Idle}] /\ Ends(s)
  BY <1>1, DoneEnds
<1>3. Uncounted({s}) = IF s \in Missing THEN 1 ELSE 0
  <2>1. CASE s \in Missing
    <3>1. {x \in {s} : req[x].at = "miss" /\ req[x].code = "current"} = {s}
      BY <2>1 DEF Missing
    <3> QED
      BY <2>1, <3>1, FS_Singleton DEF Uncounted
  <2>2. CASE s \notin Missing
    <3>1. {x \in {s} : req[x].at = "miss" /\ req[x].code = "current"} = {}
      BY <2>2 DEF Missing
    <3> QED
      BY <2>2, <3>1, FS_EmptySet DEF Uncounted
  <2> QED
    BY <2>1, <2>2
<1>4. uncounted' = IF s \in Missing THEN uncounted + 1 ELSE uncounted
  BY <1>1, <1>3, TypeParts
<1>5. uncounted' \in Nat
  BY <1>4, TypeParts
<1>6. Limiter!TypeOK' /\ trouble' \in 0 .. MaxTrouble
  BY <1>1, TypeParts, LimiterTyped, TroubleTyped
<1>7. TypeOK'
  BY <1>1, <1>2, <1>5, <1>6, TypeParts, TypeWhole
<1> QED
  BY <1>1, <1>2, <1>4, <1>7

LEMMA CrashDoes ==
    ASSUME TypeOK, Crash
    PROVE  /\ TypeOK' /\ UNCHANGED <<row, misses, uses, raced>>
           /\ uncounted' = uncounted + Cardinality(Missing)
           /\ \A s \in Slot : req'[s] = Idle
<1>1. /\ Trouble /\ uncounted' = uncounted + Uncounted(Slot)
      /\ req' = [s \in Slot |-> Idle] /\ Limiter!Restart
      /\ UNCHANGED <<kind, row, inbox, ticket, granted, misses, uses, raced>>
  BY DEF Crash
<1>2. uncounted' = uncounted + Cardinality(Missing)
  BY <1>1 DEF Uncounted, Missing
<1>3. Cardinality(Missing) \in Nat
  BY Counts DEF Slot
<1>4. uncounted' \in Nat
  BY <1>2, <1>3, TypeParts
<1>5. Limiter!TypeOK' /\ trouble' \in 0 .. MaxTrouble
  BY <1>1, TypeParts, LimiterTyped, TroubleTyped
<1>6. TypeOK'
  BY <1>1, <1>4, <1>5, TypeParts, TypeWhole
<1> QED
  BY <1>1, <1>2, <1>6

LEMMA TickDoes ==
    ASSUME TypeOK, Tick
    PROVE  /\ TypeOK' /\ UNCHANGED <<req, misses, uncounted, uses, raced>>
           /\ row = NoRow <=> row' = NoRow
           /\ row # NoRow => /\ row'.attempts = row.attempts
                             /\ row.left < 0 => row'.left < 0
<1>1. /\ row' = IF row = NoRow THEN NoRow ELSE [row EXCEPT !.left = Less(@)]
      /\ ticket' = Less(ticket) /\ Limiter!Tick
      /\ UNCHANGED <<kind, req, inbox, granted, trouble, misses, uncounted, uses, raced>>
  BY DEF Tick, code
<1>2. ASSUME NEW r \in Rows, r = row
      PROVE  row' = [left |-> Less(r.left), attempts |-> r.attempts]
  <2>1. [r EXCEPT !.left = Less(@)] = [left |-> Less(r.left), attempts |-> r.attempts]
    BY DEF Rows
  <2>2. row # NoRow
    BY <1>2, NoRowIsNoRow
  <2> QED
    BY <1>1, <1>2, <2>1, <2>2
<1>3. ASSUME NEW r \in Rows
      PROVE  Less(r.left) \in -1 .. Ttl /\ (r.left < 0 => Less(r.left) < 0)
  BY SignInAssumption DEF Rows, Less
<1>4. /\ row' \in Rows \cup {NoRow}
      /\ row = NoRow <=> row' = NoRow
      /\ row # NoRow => /\ row'.attempts = row.attempts
                        /\ row.left < 0 => row'.left < 0
  <2>1. CASE row = NoRow
    BY <1>1, <2>1
  <2>2. CASE row # NoRow
    <3>1. PICK r \in Rows : r = row
      BY <2>2, TypeParts
    <3>2. row' = [left |-> Less(r.left), attempts |-> r.attempts]
      BY <1>2, <3>1
    <3>3. row' \in Rows /\ row'.attempts = r.attempts /\ row'.left = Less(r.left)
      BY <1>3, <3>2 DEF Rows
    <3> QED
      BY <1>3, <2>2, <3>1, <3>3, NoRowIsNoRow
  <2> QED
    BY <2>1, <2>2
<1>5. ticket' \in -1 .. TicketTtl
  BY <1>1, TypeParts, SignInAssumption DEF Less
<1>6. Limiter!TypeOK'
  BY <1>1, TypeParts, LimiterTyped
<1>7. TypeOK'
  BY <1>1, <1>4, <1>5, <1>6, TypeParts, TypeWhole
<1> QED
  BY <1>1, <1>4, <1>7

----------------------------------------------------------------------------
(* CodeInv is kept.                                                        *)

LEMMA Numbers ==
    ASSUME TypeOK
    PROVE  /\ misses \in Nat /\ uncounted \in Nat /\ uses \in Nat /\ raced \in BOOLEAN
           /\ MaxAttempts \in Nat /\ MaxAttempts > 0
           /\ Cardinality(Others) \in Nat
           /\ row # NoRow => row \in Rows /\ row.attempts \in Nat /\ row.left \in Int
BY TypeParts, SlotsFinite, SignInAssumption DEF Rows

\* A statement that concerns neither comparing nor deleting; or that deletes.
LEMMA Passing ==
    ASSUME CodeInv, TypeOK', NEW s \in Slot, Rest(s), UNCHANGED <<misses, uncounted, uses, raced>>,
           row' = row \/ row' = NoRow,
           req'[s].at \notin {"miss", "consume", "purge"}, req[s].at # "miss"
    PROVE  CodeInv'
<1>1. TypeOK /\ FewMisses /\ Tallied /\ Single /\ Doomed
  BY DEF CodeInv
<1>2. FewMisses'
  BY <1>1 DEF FewMisses
<1>3. Missing' = Missing /\ AnyMissing' = AnyMissing /\ Trying' \subseteq Trying
  BY SetsAfter DEF Missing, AnyMissing
<1>4. Tallied'
  BY <1>1, <1>3 DEF Tallied
<1>5. Single'
  BY <1>1, <1>3 DEF Single
<1>6. Doomed'
  BY <1>1 DEF Doomed, Rest, Expired, Spent
<1> QED
  BY <1>2, <1>4, <1>5, <1>6 DEF CodeInv

LEMMA Unmoved ==
    ASSUME CodeInv, TypeOK', UNCHANGED <<row, req, misses, uncounted, uses, raced>>
    PROVE  CodeInv'
BY DEF CodeInv, FewMisses, Tallied, Single, Doomed, Missing, AnyMissing, Trying, Expired, Spent,
       NoRow

LEMMA InvPut ==
    ASSUME CodeInv, NEW s \in Slot, Put(s)
    PROVE  CodeInv'
<1>1. /\ TypeOK' /\ req[s].at = "put"
      /\ row' = [left |-> Ttl, attempts |-> 0]
      /\ misses' = 0 /\ uncounted' = 0 /\ uses' = 0 /\ raced' = FALSE
      /\ req'[s].at = "mail"
      /\ \A t \in Slot \ {s} : req'[t].at = req[t].at
                                 /\ (req'[t].at \in Steps => req'[t].code # "current")
  BY PutDoes DEF CodeInv
<1>2. AnyMissing' = AnyMissing /\ s \notin AnyMissing
  BY <1>1 DEF AnyMissing
<1>3. Missing' = {} /\ Trying' = {}
  BY <1>1 DEF Missing, Trying, Steps
<1>4. Cardinality(AnyMissing) <= Cardinality(Others) /\ Cardinality(AnyMissing) \in Nat
      /\ Cardinality(Others) \in Nat /\ MaxAttempts \in Nat
  BY <1>2, Counts, SignInAssumption
<1>5. FewMisses'
  BY <1>1, <1>4 DEF FewMisses
<1>6. Tallied'
  <2>1. Cardinality({}) = 0
    BY FS_EmptySet
  <2> QED
    BY <1>1, <1>2, <1>3, <1>4, <2>1 DEF Tallied
<1>7. Single'
  BY <1>1, <1>3 DEF Single
<1>8. Doomed'
  BY <1>1 DEF Doomed, Steps
<1> QED
  BY <1>1, <1>5, <1>6, <1>7, <1>8 DEF CodeInv

LEMMA InvSelect ==
    ASSUME CodeInv, NEW s \in Slot, Select(s)
    PROVE  CodeInv'
<1>0. TypeOK /\ FewMisses /\ Tallied /\ Single /\ Doomed
  BY DEF CodeInv
<1>1. TypeOK' /\ req[s].at = "select" /\ UNCHANGED <<row, uncounted, uses>>
  BY <1>0, SelectDoes
<1>2. s \notin Missing /\ s \notin AnyMissing /\ s \notin Trying
  BY <1>1 DEF Missing, AnyMissing, Trying
<1>3. CASE row = NoRow /\ Ends(s) /\ UNCHANGED <<misses, raced>>
  <2>1. Rest(s) /\ req'[s].at = "idle"
    BY <1>3, IdleIsNoRequest DEF Ends
  <2> QED
    BY <1>1, <1>3, <2>1, Passing
<1>4. CASE (Expired \/ Spent) /\ Moves(s, "purge", "current") /\ UNCHANGED <<misses, raced>>
  <2>1. Rest(s) /\ req'[s].at = "purge"
    BY <1>4 DEF Moves
  <2>2. Missing' = Missing /\ AnyMissing' = AnyMissing /\ Trying' = Trying
    BY <1>2, <2>1, SetsAfter
  <2>3. FewMisses' /\ Tallied' /\ Single'
    BY <1>0, <1>1, <1>4, <2>2 DEF FewMisses, Tallied, Single, NoRow
  <2>4. Doomed'
    BY <1>0, <1>1, <1>4, <2>1 DEF Doomed, Rest, Expired, Spent
  <2> QED
    BY <1>1, <2>3, <2>4 DEF CodeInv
<1>5. CASE /\ row # NoRow /\ ~Spent /\ misses' = misses + 1 /\ raced' = raced
           /\ Moves(s, "miss", "current")
  <2>1. Rest(s) /\ req'[s].at = "miss" /\ req'[s].code = "current"
    BY <1>5 DEF Moves
  <2>2. /\ Missing' = Missing \cup {s} /\ AnyMissing' = AnyMissing \cup {s} /\ Trying' = Trying
    BY <1>2, <2>1, SetsAfter
  <2>3. /\ Cardinality(Missing') = Cardinality(Missing) + 1
        /\ Cardinality(AnyMissing') = Cardinality(AnyMissing) + 1
        /\ Cardinality(Missing) <= Cardinality(Others)
        /\ Cardinality(Missing) \in Nat /\ Cardinality(AnyMissing) \in Nat
    <3>1. Missing \subseteq Slot /\ AnyMissing \subseteq Slot
      BY DEF Missing, AnyMissing
    <3> QED
      BY <1>2, <2>2, <3>1, OneMoreOrLess
  <2>4. row.attempts < MaxAttempts
    BY <1>0, <1>5, Numbers DEF Spent
  <2>5. FewMisses'
    BY <1>0, <1>1, <1>5, <2>3, <2>4, Numbers DEF FewMisses, Tallied
  <2>6. Tallied'
    BY <1>0, <1>1, <1>5, <2>3, Numbers DEF Tallied
  <2>7. Single'
    BY <1>0, <1>1, <1>5, <2>2 DEF Single
  <2>8. Doomed'
    BY <1>0, <1>1, <2>1 DEF Doomed, Rest, Expired, Spent, NoRow
  <2> QED
    BY <1>1, <2>5, <2>6, <2>7, <2>8 DEF CodeInv
<1>6. CASE /\ row # NoRow /\ misses' = misses /\ (raced' = FALSE => raced = FALSE /\ ~Overlapped(s))
           /\ Moves(s, "consume", "current")
  <2>1. Rest(s) /\ req'[s].at = "consume" /\ req'[s].code = "current"
    BY <1>6 DEF Moves
  <2>2. Missing' = Missing /\ AnyMissing' = AnyMissing /\ Trying' = Trying \cup {s}
    BY <1>2, <2>1, SetsAfter
  <2>3. FewMisses' /\ Tallied'
    BY <1>0, <1>1, <1>6, <2>2 DEF FewMisses, Tallied
  <2>4. Single'
    <3> SUFFICES ASSUME ~raced' PROVE (\A x, y \in Trying' : x = y) /\ uses' = 0
      BY DEF Single
    <3>1. ~raced /\ ~Overlapped(s)
      <4>1. raced' \in BOOLEAN
        BY <1>1 DEF TypeOK
      <4> QED
        BY <1>6, <4>1
    <3>2. Trying = {}
      BY <1>2, <3>1, IdleIsNoRequest DEF Overlapped, Trying
    <3>3. uses = 0
      BY <1>0, <1>6, <3>1, Numbers DEF Single
    <3> QED
      BY <1>1, <2>2, <3>2, <3>3
  <2>5. Doomed'
    BY <1>0, <1>1, <2>1 DEF Doomed, Rest, Expired, Spent, NoRow
  <2> QED
    BY <1>1, <2>3, <2>4, <2>5 DEF CodeInv
<1> QED
  BY <1>0, <1>3, <1>4, <1>5, <1>6, SelectDoes

LEMMA InvMiss ==
    ASSUME CodeInv, NEW s \in Slot, Miss(s)
    PROVE  CodeInv'
<1>0. TypeOK /\ FewMisses /\ Tallied /\ Single /\ Doomed
  BY DEF CodeInv
<1>1. /\ TypeOK' /\ req[s].at = "miss" /\ UNCHANGED <<misses, uses, raced>> /\ Ends(s)
      /\ \/ row = NoRow /\ row' = NoRow /\ uncounted' = uncounted
         \/ /\ row # NoRow /\ row' # NoRow
            /\ row' = [left |-> row.left, attempts |-> row.attempts + 1]
            /\ uncounted' = uncounted
         \/ /\ row' = row
            /\ uncounted' = IF req[s].code = "current" THEN uncounted + 1 ELSE uncounted
  BY <1>0, MissDoes
<1>2. Rest(s) /\ req'[s].at = "idle"
  BY <1>1, IdleIsNoRequest DEF Ends
<1>3. /\ s \in AnyMissing /\ (s \in Missing <=> req[s].code = "current") /\ s \notin Trying
      /\ Missing' = Missing \ {s} /\ AnyMissing' = AnyMissing \ {s} /\ Trying' = Trying
  <2>1. s \in AnyMissing /\ (s \in Missing <=> req[s].code = "current") /\ s \notin Trying
    BY <1>1 DEF Missing, AnyMissing, Trying
  <2> QED
    BY <1>2, <2>1, SetsAfter
<1>4. /\ Cardinality(Missing') = IF req[s].code = "current" THEN Cardinality(Missing) - 1
                                 ELSE Cardinality(Missing)
      /\ Cardinality(AnyMissing') = Cardinality(AnyMissing) - 1
      /\ Cardinality(Missing) \in Nat /\ Cardinality(AnyMissing) \in Nat
  <2>1. Missing \subseteq Slot /\ AnyMissing \subseteq Slot
    BY DEF Missing, AnyMissing
  <2> QED
    BY <1>3, <2>1, OneMoreOrLess
<1>5. FewMisses'
  BY <1>0, <1>1, Numbers DEF FewMisses
<1>6. Tallied'
  BY <1>0, <1>1, <1>4, Numbers DEF Tallied
<1>7. Single'
  BY <1>0, <1>1, <1>3 DEF Single
<1>8. Doomed'
  <2> SUFFICES ASSUME NEW x \in Slot, req'[x].at = "purge", req'[x].code = "current",
                      row' # NoRow
               PROVE  row'.left < 0 \/ row'.attempts >= MaxAttempts
    BY DEF Doomed, Expired, Spent, NoRow
  <2>1. req'[x] = req[x] /\ row # NoRow
    BY <1>1, <1>2 DEF Rest
  <2>2. row.left < 0 \/ row.attempts >= MaxAttempts
    BY <1>0, <2>1 DEF Doomed, Expired, Spent
  <2>3. row'.left = row.left /\ row'.attempts >= row.attempts
    BY <1>0, <1>1, <2>1, Numbers
  <2> QED
    BY <1>0, <1>1, <2>1, <2>2, <2>3, Numbers
<1> QED
  BY <1>1, <1>5, <1>6, <1>7, <1>8 DEF CodeInv

LEMMA InvConsume ==
    ASSUME CodeInv, NEW s \in Slot, Consume(s)
    PROVE  CodeInv'
<1>0. TypeOK /\ FewMisses /\ Tallied /\ Single /\ Doomed
  BY DEF CodeInv
<1>1. /\ TypeOK' /\ req[s].at = "consume" /\ UNCHANGED <<misses, uncounted>>
      /\ uses' = IF req[s].code = "current" THEN uses + 1 ELSE uses
      /\ Moves(s, "grant", req[s].code)
      /\ \/ row' = NoRow /\ raced' = raced
         \/ row' = row /\ (raced' = FALSE => raced = FALSE /\ req[s].code # "current")
  BY <1>0, ConsumeDoes
<1>2. Rest(s) /\ req'[s].at = "grant"
  BY <1>1 DEF Moves
<1>3. /\ s \in Trying <=> req[s].code = "current"
      /\ Missing' = Missing /\ AnyMissing' = AnyMissing /\ Trying' = Trying \ {s}
  <2>1. s \notin AnyMissing /\ s \notin Missing /\ (s \in Trying <=> req[s].code = "current")
    BY <1>1 DEF Missing, AnyMissing, Trying
  <2> QED
    BY <1>2, <2>1, SetsAfter
<1>4. FewMisses' /\ Tallied'
  BY <1>0, <1>1, <1>3 DEF FewMisses, Tallied
<1>5. Single'
  <2> SUFFICES ASSUME ~raced'
               PROVE  /\ \A x, y \in Trying' : x = y
                      /\ uses' <= 1
                      /\ uses' = 1 => row' = NoRow /\ Trying' = {}
    BY DEF Single, NoRow
  <2>1. ~raced
    <3>1. raced \in BOOLEAN /\ raced' \in BOOLEAN
      BY <1>0, <1>1 DEF TypeOK
    <3> QED
      BY <1>1, <3>1
  <2>2. /\ \A x, y \in Trying : x = y
        /\ uses <= 1
        /\ uses = 1 => row = NoRow /\ Trying = {}
    BY <1>0, <2>1 DEF Single
  <2>3. CASE req[s].code = "current"
    <3>1. row' = NoRow
      <4>1. raced' = FALSE
        BY <1>1 DEF TypeOK
      <4> QED
        BY <1>1, <2>3, <4>1
    <3>2. Trying' = {} /\ uses = 0
      BY <1>0, <1>3, <2>2, <2>3, Numbers
    <3> QED
      BY <1>1, <2>3, <3>1, <3>2
  <2>4. CASE req[s].code # "current"
    BY <1>1, <1>3, <2>2, <2>4
  <2> QED
    BY <2>3, <2>4
<1>6. Doomed'
  BY <1>0, <1>1, <1>2 DEF Doomed, Rest, Expired, Spent, NoRow
<1> QED
  BY <1>1, <1>4, <1>5, <1>6 DEF CodeInv

LEMMA InvFail ==
    ASSUME CodeInv, NEW s \in Slot, Fail(s)
    PROVE  CodeInv'
<1>0. TypeOK /\ FewMisses /\ Tallied /\ Single /\ Doomed
  BY DEF CodeInv
<1>1. /\ TypeOK' /\ UNCHANGED <<row, misses, uses, raced>> /\ Ends(s)
      /\ uncounted' = IF s \in Missing THEN uncounted + 1 ELSE uncounted
  BY <1>0, FailDoes
<1>2. Rest(s) /\ req'[s].at = "idle"
  BY <1>1, IdleIsNoRequest DEF Ends
<1>3. Missing' = Missing \ {s} /\ AnyMissing' = AnyMissing \ {s} /\ Trying' = Trying \ {s}
  BY <1>2, SetsAfter
<1>4. /\ Cardinality(Missing') = IF s \in Missing THEN Cardinality(Missing) - 1
                                 ELSE Cardinality(Missing)
      /\ Cardinality(AnyMissing') <= Cardinality(AnyMissing)
      /\ Cardinality(Missing) \in Nat /\ Cardinality(AnyMissing) \in Nat
      /\ Cardinality(AnyMissing') \in Nat
  <2>1. Missing \subseteq Slot /\ AnyMissing \subseteq Slot
    BY DEF Missing, AnyMissing
  <2>2. /\ Cardinality(Missing) \in Nat /\ Cardinality(AnyMissing) \in Nat
        /\ Cardinality(Missing \ {s}) = IF s \in Missing THEN Cardinality(Missing) - 1
                                         ELSE Cardinality(Missing)
    BY <2>1, OneMoreOrLess
  <2>3. /\ Cardinality(AnyMissing \ {s}) = IF s \in AnyMissing THEN Cardinality(AnyMissing) - 1
                                            ELSE Cardinality(AnyMissing)
    BY <2>1, OneMoreOrLess
  <2>4. AnyMissing \ {s} \subseteq Slot
    BY <2>1
  <2>5. Cardinality(AnyMissing \ {s}) \in Nat
    BY <2>4, OneMoreOrLess
  <2> QED
    BY <1>3, <2>2, <2>3, <2>5
<1>5. FewMisses'
  BY <1>0, <1>1, Numbers DEF FewMisses
<1>6. Tallied'
  BY <1>0, <1>1, <1>4, Numbers DEF Tallied
<1>7. Single'
  BY <1>0, <1>1, <1>3 DEF Single
<1>8. Doomed'
  BY <1>0, <1>1, <1>2 DEF Doomed, Rest, Expired, Spent, NoRow
<1> QED
  BY <1>1, <1>5, <1>6, <1>7, <1>8 DEF CodeInv

LEMMA InvCrash ==
    ASSUME CodeInv, Crash
    PROVE  CodeInv'
<1>0. TypeOK /\ FewMisses /\ Tallied /\ Single /\ Doomed
  BY DEF CodeInv
<1>1. /\ TypeOK' /\ UNCHANGED <<row, misses, uses, raced>>
      /\ uncounted' = uncounted + Cardinality(Missing)
      /\ \A s \in Slot : req'[s] = Idle
  BY <1>0, CrashDoes
<1>2. Missing' = {} /\ AnyMissing' = {} /\ Trying' = {}
  BY <1>1, IdleIsNoRequest DEF Missing, AnyMissing, Trying
<1>3. /\ Cardinality(Missing') = 0 /\ Cardinality(AnyMissing') = 0
      /\ Cardinality(Missing) \in Nat /\ Cardinality(AnyMissing) \in Nat
  <2>1. Cardinality({}) = 0
    BY FS_EmptySet
  <2> QED
    BY <1>2, <2>1, Counts DEF Slot
<1>4. FewMisses'
  BY <1>0, <1>1, <1>3, Numbers DEF FewMisses
<1>5. Tallied'
  BY <1>0, <1>1, <1>3, Numbers DEF Tallied
<1>6. Single'
  BY <1>0, <1>1, <1>2 DEF Single
<1>7. Doomed'
  BY <1>1, IdleIsNoRequest DEF Doomed
<1> QED
  BY <1>1, <1>4, <1>5, <1>6, <1>7 DEF CodeInv

LEMMA InvTick ==
    ASSUME CodeInv, Tick
    PROVE  CodeInv'
<1>0. TypeOK /\ FewMisses /\ Tallied /\ Single /\ Doomed
  BY DEF CodeInv
<1>1. /\ TypeOK' /\ UNCHANGED <<req, misses, uncounted, uses, raced>>
      /\ row = NoRow <=> row' = NoRow
      /\ row # NoRow => /\ row'.attempts = row.attempts
                        /\ row.left < 0 => row'.left < 0
  BY <1>0, TickDoes
<1>2. Missing' = Missing /\ AnyMissing' = AnyMissing /\ Trying' = Trying
  BY <1>1 DEF Missing, AnyMissing, Trying
<1>3. FewMisses' /\ Tallied'
  BY <1>0, <1>1, <1>2 DEF FewMisses, Tallied, NoRow
<1>4. Single'
  BY <1>0, <1>1, <1>2 DEF Single, NoRow
<1>5. Doomed'
  BY <1>0, <1>1 DEF Doomed, Expired, Spent, NoRow
<1> QED
  BY <1>1, <1>3, <1>4, <1>5 DEF CodeInv

\* A request that starts, goes on or ends without touching the row.
LEMMA InvPassing ==
    ASSUME CodeInv, NEW s \in Slot,
           \/ AskCode(s) \/ SendCode(s) \/ Mail(s) \/ Purge(s) \/ Grant(s)
           \/ s = User /\ (Member \/ Choose)
    PROVE  CodeInv'
<1>1. TypeOK
  BY DEF CodeInv
<1>2. /\ TypeOK' /\ UNCHANGED <<misses, uncounted, uses, raced>> /\ (row' = row \/ row' = NoRow)
      /\ req[s].at # "miss"
      /\ \/ UNCHANGED <<row, req>>
         \/ Rest(s) /\ req'[s].at \in {"put", "select", "member", "grant", "idle"}
  <2>0. req[s] = Idle => req[s].at # "miss"
    BY IdleIsNoRequest
  <2>1. CASE AskCode(s)
    <3>1. /\ TypeOK' /\ req[s] = Idle /\ UNCHANGED <<row, misses, uncounted, uses, raced>>
          /\ Moves(s, "put", "none") \/ UNCHANGED req
      BY <1>1, <2>1, AskCodeDoes
    <3>2. CASE Moves(s, "put", "none")
      BY <2>0, <3>1, <3>2 DEF Moves
    <3>3. CASE UNCHANGED req
      BY <2>0, <3>1, <3>3
    <3> QED
      BY <3>1, <3>2, <3>3
  <2>5. CASE SendCode(s)
    <3>1. /\ TypeOK' /\ req[s] = Idle /\ UNCHANGED <<row, misses, uncounted, uses, raced>>
          /\ (\E c \in Codes : Moves(s, "select", c)) \/ UNCHANGED req
      BY <1>1, <2>5, SendCodeDoes
    <3>2. CASE \E c \in Codes : Moves(s, "select", c)
      <4>1. PICK c \in Codes : Moves(s, "select", c)
        BY <3>2
      <4> QED
        BY <2>0, <3>1, <4>1 DEF Moves
    <3>3. CASE UNCHANGED req
      BY <2>0, <3>1, <3>3
    <3> QED
      BY <3>1, <3>2, <3>3
  <2>2. CASE Mail(s) \/ Purge(s) \/ Grant(s)
    BY <1>1, <2>2, MailDoes, PurgeDoes, GrantDoes, IdleIsNoRequest DEF Ends
  <2>3. CASE s = User /\ Member
    BY <1>1, <2>3, MemberDoes, IdleIsNoRequest DEF Moves, Ends
  <2>4. CASE s = User /\ Choose
    BY <1>1, <2>4, ChooseDoes, IdleIsNoRequest DEF Moves
  <2> QED
    BY <2>1, <2>2, <2>3, <2>4, <2>5
<1>3. CASE UNCHANGED <<row, req>>
  BY <1>2, <1>3, Unmoved
<1>4. CASE Rest(s) /\ req'[s].at \in {"put", "select", "member", "grant", "idle"}
  BY <1>2, <1>4, Passing
<1> QED
  BY <1>2, <1>3, <1>4

LEMMA InvStep == CodeInv /\ [Next]_vars => CodeInv'
<1> SUFFICES ASSUME CodeInv, [Next]_vars PROVE CodeInv'
  OBVIOUS
<1>1. CASE UNCHANGED vars
  <2>1. TypeOK'
    BY <1>1 DEF vars, code, CodeInv, TypeOK, Limiter!TypeOK, Limiter!Answer, Limiter!Silent
  <2> QED
    BY <1>1, <2>1, Unmoved DEF vars, code
<1>2. ASSUME NEW s \in Slot, AskCode(s) \/ SendCode(s) PROVE CodeInv'
  BY <1>2, InvPassing
<1>3. ASSUME NEW s \in Slot, Statement(s) PROVE CodeInv'
  BY <1>3, InvPut, InvPassing, InvSelect, InvMiss, InvConsume DEF Statement
<1>4. ASSUME NEW s \in Slot, Fail(s) PROVE CodeInv'
  BY <1>4, InvFail
<1>5. CASE Choose
  BY <1>5, InvPassing DEF Slot
<1>6. CASE Tick
  BY <1>6, InvTick
<1>7. CASE Crash
  BY <1>7, InvCrash
<1> QED
  BY <1>1, <1>2, <1>3, <1>4, <1>5, <1>6, <1>7 DEF Next

LEMMA InvInit == Init => CodeInv
<1> SUFFICES ASSUME Init PROVE CodeInv
  OBVIOUS
<1>1. \A s \in Slot : req[s] = Idle
  BY DEF Init
<1>2. Missing = {} /\ AnyMissing = {} /\ Trying = {}
  BY <1>1, IdleIsNoRequest DEF Missing, AnyMissing, Trying
<1>3. TypeOK
  <2>1. Limiter!TypeOK
    BY SignInAssumption DEF Init, Limiter!Init, Limiter!TypeOK, Limiter!Answer
  <2>2. req \in [Slot -> Locals \cup {Idle}]
    BY DEF Init
  <2>3. ticket \in -1 .. TicketTtl /\ trouble \in 0 .. MaxTrouble
    BY SignInAssumption DEF Init
  <2>4. kind \in Kinds /\ row = NoRow /\ inbox \in Codes /\ granted \in BOOLEAN
        /\ misses \in Nat /\ uncounted \in Nat /\ uses \in Nat /\ raced \in BOOLEAN
    BY DEF Init, Codes
  <2> QED
    BY <2>1, <2>2, <2>3, <2>4, TypeParts
<1>4. FewMisses /\ Tallied /\ Single
  BY <1>2, <1>3, Numbers DEF Init, FewMisses, Tallied, Single
<1>5. Doomed
  BY <1>1, IdleIsNoRequest DEF Doomed
<1> QED
  BY <1>3, <1>4, <1>5 DEF CodeInv

LEMMA CodeInvHolds == Spec => []CodeInv
<1> QED
  BY InvInit, InvStep, PTL DEF Spec

----------------------------------------------------------------------------
(* The theorems.                                                           *)

\* Every request has the locals of its statement, and the limiter its credit.
THEOREM TypeCorrect == Spec => []TypeOK
<1>1. CodeInv => TypeOK
  BY DEF CodeInv
<1> QED
  BY <1>1, CodeInvHolds, PTL

\* Guessing is bounded by MaxAttempts, one more for each request that overlaps, and
\* the failures that left a wrong code uncounted, however requests interleave.
THEOREM GuessesBounded == Spec => []FewMisses
<1>1. CodeInv => FewMisses
  BY DEF CodeInv
<1> QED
  BY <1>1, CodeInvHolds, PTL

\* A code opens one door once, unless two requests read it before either deleted it
\* or its DELETE failed.
THEOREM AcceptedOnce == Spec => []UsedOnce
<1>1. CodeInv => UsedOnce
  BY Numbers DEF CodeInv, Single, UsedOnce
<1> QED
  BY <1>1, CodeInvHolds, PTL

\* A request that deletes a code without accepting it found it expired, or spent by
\* wrong codes of which at most one per other request was meant for an earlier one.
THEOREM GivenUpForAReason == Spec => NotLostUntried
<1> DEFINE Reason == \A s \in Slot :
         (row # NoRow /\ row' = NoRow /\ req[s] # Idle /\ req'[s] = Idle /\ req[s].code = "current")
         => Expired \/ misses >= MaxAttempts - Cardinality(Others)
<1>1. CodeInv /\ [Next]_vars => [Reason]_vars
  <2> SUFFICES ASSUME CodeInv, Next, NEW s \in Slot, row # NoRow, row' = NoRow,
                      req[s] # Idle, req'[s] = Idle, req[s].code = "current"
               PROVE  Expired \/ misses >= MaxAttempts - Cardinality(Others)
    OBVIOUS
  <2>1. TypeOK /\ Tallied /\ Doomed
    BY DEF CodeInv
  <2>2. Purge(s)
    <3>1. ASSUME NEW t \in Slot, AskCode(t) \/ SendCode(t) \/ Fail(t) PROVE row' = row
      BY <2>1, <3>1, AskCodeDoes, SendCodeDoes, FailDoes
    <3>2. ASSUME NEW t \in Slot, Put(t) \/ Mail(t) \/ Select(t) \/ Grant(t) PROVE row' # NoRow
      <4>1. [left |-> Ttl, attempts |-> 0] # NoRow
        BY SignInAssumption DEF NoRow
      <4> QED
        BY <2>1, <3>2, <4>1, PutDoes, MailDoes, SelectDoes, GrantDoes
    <3>3. ASSUME NEW t \in Slot, Miss(t) PROVE row' # NoRow
      BY <2>1, <3>3, MissDoes
    <3>4. ASSUME NEW t \in Slot, Consume(t) PROVE FALSE
      <4>1. Moves(t, "grant", req[t].code)
        BY <2>1, <3>4, ConsumeDoes
      <4>2. CASE t = s
        BY <4>1, <4>2 DEF Moves, Idle
      <4>3. CASE t # s
        BY <4>1, <4>3 DEF Moves, Rest
      <4> QED
        BY <4>2, <4>3
    <3>5. ASSUME NEW t \in Slot, Purge(t), t # s PROVE FALSE
      <4>1. Ends(t)
        BY <2>1, <3>5, PurgeDoes
      <4> QED
        BY <3>5, <4>1 DEF Ends, Rest
    <3>6. (Choose \/ Member) => row' = row
      BY <2>1, ChooseDoes, MemberDoes
    <3>7. Tick => row' # NoRow
      BY <2>1, TickDoes
    <3>8. Crash => row' = row
      BY <2>1, CrashDoes
    <3> QED
      BY <3>1, <3>2, <3>3, <3>4, <3>5, <3>6, <3>7, <3>8 DEF Next, Statement
  <2>3. req[s].at = "purge"
    BY <2>1, <2>2, PurgeDoes
  <2>4. Expired \/ row.attempts >= MaxAttempts
    BY <2>1, <2>3 DEF Doomed, Spent
  <2>5. Cardinality(AnyMissing) \in Nat
    BY Counts
  <2> QED
    BY <2>1, <2>4, <2>5, Numbers DEF Tallied
<1> QED
  BY <1>1, CodeInvHolds, PTL DEF Spec, NotLostUntried

=============================================================================
