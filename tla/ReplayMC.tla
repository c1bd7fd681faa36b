------------------------------ MODULE ReplayMC ------------------------------
(* Replay of a log of an order, its report and a cancel. *)
EXTENDS Replay

MCLog == << [way |-> "out", type |-> "D"], [way |-> "back", type |-> "8"], [way |-> "out", type |-> "F"] >>
MCFilters == {{}, {"D"}}
=============================================================================
