----------------------------- MODULE MCConnPool -----------------------------
(* ConnPool as it is; the configurations give it its bounds.               *)
EXTENDS ConnPool
=============================================================================
