------------------------------ MODULE QuotesMC ------------------------------
(* Bounds for Quotes: what each trouble needs to show itself. *)
EXTENDS Quotes

MCMost == [clock   |-> [rfq |-> 1, quote |-> 2, order |-> 1, resp |-> 0, answer |-> 1],
           failing |-> [rfq |-> 1, quote |-> 2, order |-> 2, resp |-> 1, answer |-> 2],
           foreign |-> [rfq |-> 1, quote |-> 2, order |-> 1, resp |-> 0, answer |-> 1]]
=============================================================================
