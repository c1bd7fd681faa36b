----------------------------- MODULE OrderFlow -----------------------------
(***************************************************************************)
(* The two sides of an order, both this engine: SentOrder and ReceivedOrder *)
(* joined by a session that delivers, in order, what is sent: what two        *)
(* sessions of one user, an acceptor and an initiator back to back, run.     *)
(***************************************************************************)
EXTENDS OrderTable

CONSTANTS Callers, Choosers, Actions, Qtys, MaxExec, MaxCommands, Nobody, Reader,    \* of the market
          Clients, MaxDisputes, Fails                                                  \* of the client

ASSUME OrderFlowAssumption ==
    /\ Qtys \subseteq Nat \ {0} /\ {MaxExec, MaxCommands} \subseteq Nat /\ Fails \in BOOLEAN
    /\ Choosers \subseteq Callers /\ Nobody # Reader /\ {Nobody, Reader} \cap Callers = {}

VARIABLES rows, trades, lock, call, reading, given,   \* the market
          sent, held, bought, ask, hearing,           \* the client
          doubted,
          requests, reports, minted                   \* the session between

Market == INSTANCE ReceivedOrder
Client == INSTANCE SentOrder WITH Quantities <- Qtys

vars == << rows, trades, lock, call, reading, sent, held, bought, ask, hearing,
           doubted, requests, reports, minted, given >>

Init == Market!Init /\ Client!Init

MarketMoves ==
    /\ Market!MarketStep \/ Market!HearDontKnow
    /\ UNCHANGED << sent, held, bought, ask, hearing, doubted >>

ClientMoves ==
    /\ Client!ClientStep
    /\ UNCHANGED << rows, trades, lock, call, reading, given >>

Next == MarketMoves \/ ClientMoves

Spec == Init /\ [][Next]_vars

-----------------------------------------------------------------------------
AtRest ==
    /\ requests = << >> /\ reports = << >> /\ reading.step = "idle" /\ hearing.step = "idle"
    /\ \A c \in Callers : call[c].step = "idle"
    /\ \A c \in Clients : ask[c].step = "idle"

\* Once all is said, both blotters have an order under the same ClOrdID, with
\* the same status and quantities; an order the market does not have is one whose
\* send failed.  A replace crossing a fill, a request for a ClOrdID just given
\* up, a cancel nobody asked for: the client's row follows them all.
BothSidesAgree ==
    AtRest =>
        \A i \in Ids :
            IF Known(rows, i)
            THEN /\ Known(sent, i)
                 /\ << sent[i].oid, sent[i].status, sent[i].qty, sent[i].cum, sent[i].leaves >>
                    = << rows[i].oid, rows[i].status, rows[i].qty, rows[i].cum, rows[i].leaves >>
            ELSE Known(sent, i) => sent[i].status = "Rejected"

\* Once all is said, the client's row shows a request pending exactly when the
\* market has it to answer.
SlotsAgree ==
    AtRest =>
        \A i \in Ids : Known(rows, i) /\ Known(sent, i) =>
            IF rows[i].slot = "New" THEN sent[i].slot = ""
            ELSE sent[i].slot = rows[i].slot /\ sent[i].req = rows[i].req

\* Once all is said, a trade of the market is one trade of the client, with the
\* same ExecID, quantity and fate, corrected, busted or reported again; what the
\* client has besides it disputes, or it disputed an earlier report of that trade
\* once more, and so had it reported again.
Latest(t) == t.execs[Len(t.execs)]
Shown(t) == [oid |-> t.oid, exec |-> Latest(t), last |-> t.last, kind |-> t.kind]
SameTrade(t, u) == TradeOf(trades, Latest(t)) = TradeOf(trades, Latest(u))

TradesAgree ==
    AtRest =>
        LET theirs == {Shown(trades[t]) : t \in DOMAIN trades}
        IN  /\ theirs \subseteq {Shown(bought[t]) : t \in DOMAIN bought}
            /\ \A t \in DOMAIN bought :
                  \/ Shown(bought[t]) \in theirs
                  \/ \E u \in DOMAIN bought : bought[u].dk /\ SameTrade(bought[t], bought[u])
            /\ \A t, u \in DOMAIN bought : t # u => \A n \in DOMAIN bought[t].execs : ~Had(bought[u], bought[t].execs[n])
            /\ MaxDisputes = 0 => bought = trades

-----------------------------------------------------------------------------
(* What is said of the code and does not hold of it (README, Findings).     *)

\* "the row only records that we disputed it": a trade the client shows disputed
\* is disputed at the market, or reported again since.
DisputesKnown ==
    AtRest => \A t \in DOMAIN bought : bought[t].dk =>
        LET x == Latest(bought[t])
            m == trades[TradeOf(trades, x)]
        IN  m.dk \/ Latest(m) # x
=============================================================================
