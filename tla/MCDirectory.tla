---------------------------- MODULE MCDirectory ----------------------------
(* Bounds for model checking Directory: see MCDirectory.cfg.               *)
EXTENDS Directory, TLC

\* Slots and ids are interchangeable.
Interchangeable == Permutations(Slot) \cup Permutations(Ids)

\* No plan states a cap.
NoCaps == [p \in {} |-> 0]

\* The emails in the table and in the requests.
InUse == {contacts[i] : i \in Live} \cup {req[s].email : s \in {t \in Slot : req[t] # NoRequest}}

\* Spellings matter to the lookup alone and campaigns to the attachments alone: once
\* there has been a campaign, there is one email.
Focus == Campaigns \cap spent # {} => InUse \subseteq {<<"jane", "lower">>, None}
=============================================================================
