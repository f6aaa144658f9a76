----------------------------- MODULE MCAuditLog -----------------------------
(* Bounds for model checking AuditLog: see MCAuditLog.cfg.                 *)
EXTENDS AuditLog, TLC

\* A plan with a retention of its own, one that leaves it to the default, and one
\* that keeps entries for ever.
ThreePlans == [p \in {"short", "basic", "forever"} |->
                 CASE p = "short" -> 1 [] p = "basic" -> 0 [] OTHER -> -1]
=============================================================================
