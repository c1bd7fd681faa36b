------------------------------ MODULE ListsMC ------------------------------
(* Lists without the states in which neither invariant says anything: calm is *)
(* never TRUE again, and a Cancel may be asked for in all that follows.       *)
EXTENDS Lists

Telling == calm \/ "K" \notin terms.asks
=============================================================================
