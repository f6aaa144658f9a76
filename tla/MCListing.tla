----------------------------- MODULE MCListing -----------------------------
(* Bounds for model checking Listing: see MCListing.cfg.                   *)
EXTENDS Listing

\* The default sort, which every PATCH changes, and an ascending one by a key
\* that a PATCH may change and that may be NULL.
FewSorts == {[col |-> "updated_at", desc |-> TRUE], [col |-> "due_at", desc |-> FALSE]}

\* Everything, and the tasks due at another time than 2.
FewFilters == {[op |-> "none", col |-> "title", val |-> 0],
               [op |-> "ne", col |-> "due_at", val |-> 2]}
=============================================================================
