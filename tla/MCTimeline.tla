----------------------------- MODULE MCTimeline -----------------------------
(* Bounds for model checking Timeline: see MCTimeline.cfg.                 *)
EXTENDS Timeline
CONSTANTS c1, d1

OneOfEach == [r \in {c1, d1} |-> IF r = c1 THEN "contact" ELSE "deal"]

\* on_behalf_of is asked for in one spelling and was logged in another.
SamePerson == [p \in Principal |-> "alice@x"]

CallsAndNotes == {<<"call", Blank>>, <<"note", "Alice@x">>}
=============================================================================
