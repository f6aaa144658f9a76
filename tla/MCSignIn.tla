------------------------------ MODULE MCSignIn ------------------------------
(* Bounds for model checking SignIn: see MCSignIn.cfg.                     *)
EXTENDS SignIn
=============================================================================
