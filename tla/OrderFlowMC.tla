---------------------------- MODULE OrderFlowMC -----------------------------
(***************************************************************************)
(* OrderFlow on the instances that show what is hard about it.  part says    *)
(* which of four a behaviour is about:                                      *)
(*   "flow"    two requests on an order, of two sizes, crossing their       *)
(*             answers, a fill and its correction: the constants of the     *)
(*             configuration;                                               *)
(*   "fails"   two callers send while any send may fail, and Accept and     *)
(*             Reject answer what is pending;                               *)
(*   "dispute" trades of one order disputed, reported again, corrected and  *)
(*             busted while they cross each other;                          *)
(*   "legs"    a multileg order on both sides (Multileg), sent with two     *)
(*             legs, replaced by three or two, filled by its legs.          *)
(***************************************************************************)
EXTENDS OrderFlow

CONSTANT Other          \* a second client

VARIABLES part,
          book, legs, doing, overtaken    \* of Multileg

Failing == INSTANCE OrderFlow WITH
    Callers <- Callers, Choosers <- Callers, Clients <- Clients \cup {Other},
    Actions <- {"accept_request", "reject_request", "fill_order", "bust_trade", "restate_order"},
    Qtys <- {1}, MaxCommands <- 2, Fails <- TRUE

Disputing == INSTANCE OrderFlow WITH
    Actions <- {"fill_order", "correct_trade", "bust_trade", "renotify_trade"},
    MaxId <- 1, MaxExec <- 4, MaxCommands <- 4, MaxDisputes <- 2, Fails <- TRUE

Leg(ref, ratio) == [ref |-> ref, ratio |-> ratio]
Legs == INSTANCE Multileg WITH
    Strategies <- {<< Leg("near", 1), Leg("far", 2) >>, << Leg("near", 1), Leg("mid", 1), Leg("far", 1) >>},
    Firsts <- {<< Leg("near", 1), Leg("far", 2) >>}, Qtys <- {2}, Amounts <- {1}, MaxGiven <- 3

ASSUME LegsAssumption == Legs!MultilegAssumption

\* What Multileg does not share with OrderFlow, and the other way round.
legsOnly == << book, legs, doing, overtaken >>
flowOnly == << rows, trades, lock, call, reading, sent, held, bought, ask, hearing, doubted >>

MCInit ==
    /\ part \in {"flow", "fails", "dispute", "legs"} /\ Legs!Init
    /\ \/ part = "flow" /\ Init
       \/ part = "fails" /\ Failing!Init
       \/ part = "dispute" /\ Disputing!Init
       \/ part = "legs" /\ Init

MCNext ==
    \/ part = "flow" /\ Next /\ UNCHANGED << part, legsOnly >>
    \/ part = "fails" /\ Failing!Next /\ UNCHANGED << part, legsOnly >>
    \/ part = "dispute" /\ Disputing!Next /\ UNCHANGED << part, legsOnly >>
    \/ part = "legs" /\ Legs!Next /\ UNCHANGED << part, flowOnly >>

\* Bounds on what goes together: three commands on one request or two on two, and
\* of commands and disputes five; LegsAgree says nothing of what an overtaken fill
\* leads to.
Few ==
    /\ part = "flow" => given + minted <= 5
    /\ part = "dispute" => given + doubted <= 5
    /\ part = "legs" => ~overtaken

MCSpec == MCInit /\ [][MCNext]_<< vars, part, legsOnly >>

-----------------------------------------------------------------------------
\* Both blotters agree, also where sends fail, and on trades and what is pending
\* where none does (_send_request, record_request, resolve_request).
Agreement ==
    /\ part = "flow" => BothSidesAgree /\ SlotsAgree /\ TradesAgree
    /\ part = "fails" => Failing!BothSidesAgree

\* Both sides of a multileg order have the same legs, with the same fills
\* (_write_legs, _promote_entered, _handle_leg_report).
LegsAgree == part = "legs" => Legs!SidesAgree

\* Both blotters agree on trades that are disputed (_record_report_trade, dk_trade,
\* renotify_trade).
DisputesAgree == part = "dispute" => Disputing!TradesAgree
=============================================================================
