------------------------------ MODULE MCAccess ------------------------------
(* Bounds for model checking Access: see the MCAccess*.cfg files.          *)
EXTENDS Access, TLC

\* Users are interchangeable, and so are workspace ids and request slots.
AccessSymmetry == Permutations(User) \cup Permutations(Ws) \cup Permutations(Slot)
=============================================================================
