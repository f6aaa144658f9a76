------------------------------ MODULE MCOAuth ------------------------------
(* Bounds for model checking OAuth: see the MCOAuth*.cfg files.            *)
EXTENDS OAuth, TLC

\* Request slots are interchangeable.
SlotSymmetry == Permutations(Slot)
=============================================================================
