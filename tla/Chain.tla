------------------------------- MODULE Chain -------------------------------
(***************************************************************************)
(* What the OAuth server promises of a client's connection: a chain of     *)
(* grants (the authorization code, then one refresh token after another)   *)
(* of which at most one can be presented.  Presenting it gives it up for   *)
(* good; the client then gets a grant it never had, or none, and a chain   *)
(* that has no grant and no request working on the next one is over.       *)
(***************************************************************************)
CONSTANTS Conn, Grant

VARIABLES
    given,   \* connection -> the grants handed out so far
    held,    \* connection -> the grants that can be presented
    busy     \* connection -> is a request working on the next grant?

chainVars == <<given, held, busy>>

ChainInit ==
    /\ given = [c \in Conn |-> {}]
    /\ held = [c \in Conn |-> {}]
    /\ busy = [c \in Conn |-> FALSE]

\* A grant that was never given before becomes the only one.
HandOut(c) ==
    \E g \in Grant \ given[c] :
      /\ given' = [given EXCEPT ![c] = @ \cup {g}]
      /\ held' = [held EXCEPT ![c] = {g}]

Open(c) ==
    /\ given[c] = {}
    /\ HandOut(c)
    /\ UNCHANGED busy

Take(c) ==
    /\ held[c] # {} /\ ~busy[c]
    /\ held' = [held EXCEPT ![c] = {}]
    /\ busy' = [busy EXCEPT ![c] = TRUE]
    /\ UNCHANGED given

Give(c) ==
    /\ busy[c]
    /\ busy' = [busy EXCEPT ![c] = FALSE]
    /\ HandOut(c)

\* The grant is refused, revoked or expired, or the request fails.
End(c) ==
    /\ held' = [held EXCEPT ![c] = {}]
    /\ busy' = [busy EXCEPT ![c] = FALSE]
    /\ UNCHANGED given

ChainNext == \E c \in Conn : Open(c) \/ Take(c) \/ Give(c) \/ End(c)
ChainSpec == ChainInit /\ [][ChainNext]_chainVars

=============================================================================
