----------------------------- MODULE MCRecords -----------------------------
(* Bounds for model checking Records: see MCRecords.cfg.                   *)
EXTENDS Records, TLC

\* Agents are interchangeable, and so are columns.
Symmetry == Permutations(Agent) \cup Permutations(Field)
============================================================================
