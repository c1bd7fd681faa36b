--------------------------- MODULE ReceivedOrder ---------------------------
(***************************************************************************)
(* The market side of orders (FixEngine of fix/engine.py): the read loop    *)
(* that records orders and parks cancel and replace requests on them, and   *)
(* the callers - a hand on a button, a macro - that accept, reject, fill,   *)
(* cancel, restate, correct and bust.  A market action loads its order,     *)
(* writes it back whole and sends its report under the session's order lock *)
(* (_market_action); choosing what Accept and Reject answer comes before    *)
(* the lock, and a new order is written without it.  The session stays      *)
(* active; SessionLife has what happens when it does not.                   *)
(***************************************************************************)
EXTENDS OrderTable, FiniteSetsExt

CONSTANTS Callers,      \* tasks that act on orders
          Choosers,     \* those of them that use Accept and Reject
          Actions,      \* the commands they give
          Qtys,         \* quantities ordered, asked for and filled
          MaxExec,      \* bound: fills, corrections and busts
          MaxCommands,  \* bound: commands given
          Nobody, Reader

ASSUME MarketAssumption ==
    /\ Choosers \subseteq Callers /\ Nobody # Reader /\ {Nobody, Reader} \cap Callers = {}
    /\ Qtys \subseteq Nat \ {0} /\ {MaxExec, MaxCommands} \subseteq Nat

VARIABLES rows,         \* fix_orders
          trades,       \* fix_executions
          lock,         \* who holds _order_lock
          call,         \* what each caller is at
          reading,      \* what the read loop is at
          requests,     \* messages of the counterparty not read yet
          reports,      \* messages sent
          minted,       \* ClOrdIDs the counterparty has used
          given         \* bound: commands given

vars == << rows, trades, lock, call, reading, requests, reports, minted, given >>

Idle == [step |-> "idle"]

Init ==
    /\ rows = [i \in Ids |-> NoRow] /\ trades = << >>
    /\ lock = Nobody /\ call = [c \in Callers |-> Idle] /\ reading = Idle
    /\ requests = << >> /\ reports = << >> /\ minted = 0 /\ given = 0

-----------------------------------------------------------------------------
(* The read loop: one message at a time. *)

Read(type) == reading = Idle /\ requests # << >> /\ Head(requests).type = type

\* _handle_new_order, which takes no lock: a ClOrdID the session knows is
\* written over.
NewOrder ==
    /\ Read("D")
    /\ LET m == Head(requests) IN rows' = Upsert(rows, m.id, NewRow(m.id, m.qty, "New"))
    /\ requests' = Tail(requests)
    /\ UNCHANGED << trades, lock, call, reading, reports, minted, given >>

Parked(row, m) ==
    [row EXCEPT !.slot = IF m.type = "F" THEN "Cancel" ELSE "Replace", !.req = m.id, !.reqQty = m.qty]

\* A plausible bug: the handler takes no lock.
LoadRequestedUnlocked ==
    /\ Read("F") \/ Read("G")
    /\ LET m == Head(requests)
       IN  /\ Known(rows, m.orig)
           /\ reading' = [step |-> "parking", row |-> rows[m.orig]]
    /\ UNCHANGED << rows, trades, lock, call, requests, reports, minted, given >>

\* _handle_cancel_request: the order is loaded under the lock; a ClOrdID no row
\* has now is refused, its chain is not followed.
LoadRequested ==
    /\ Read("F") \/ Read("G")
    /\ lock = Nobody
    /\ LET m == Head(requests)
       IN  IF Known(rows, m.orig)
           THEN /\ lock' = Reader /\ reading' = [step |-> "parking", row |-> rows[m.orig]]
                /\ UNCHANGED << requests, reports >>
           ELSE /\ reports' = Append(reports, OrderCancelReject(m.id, m.orig, "Rejected", TRUE))
                /\ requests' = Tail(requests) /\ UNCHANGED << lock, reading >>
    /\ UNCHANGED << rows, trades, call, minted, given >>

\* Its one slot takes the request, whatever it held.
Park ==
    /\ reading.step = "parking"
    /\ LET m == Head(requests) IN rows' = Upsert(rows, m.orig, Parked(reading.row, m))
    /\ requests' = Tail(requests) /\ reading' = Idle /\ lock' = Nobody
    /\ UNCHANGED << trades, call, reports, minted, given >>

\* _handle_dont_know_trade: the trade that has or had the ExecID is disputed.
HearDontKnow ==
    /\ Read("Q")
    /\ LET t == TradeOf(trades, Head(requests).exec)
       IN  trades' = IF t = 0 THEN trades ELSE Disputed(trades, t, TRUE)
    /\ requests' = Tail(requests)
    /\ UNCHANGED << rows, lock, call, reading, reports, minted, given >>

-----------------------------------------------------------------------------
(* A market action: its guard, the row it writes, the message it sends. *)

\* How far an order is worked: what an order's status is after a fill,
\* correction, bust or change of quantity.
Working(qty, cum) == IF cum = 0 THEN "New" ELSE IF cum >= qty THEN "Filled" ELSE "PartiallyFilled"

\* A fill, cancel or restatement acknowledges an order not accepted yet.
Acknowledged(row) == IF row.slot = "New" THEN [row EXCEPT !.slot = ""] ELSE row

Traded(row, cum, status) ==
    [row EXCEPT !.cum = cum, !.leaves = AtLeast0(row.qty - cum), !.status = status]

NewQty(row) == IF row.reqQty = 0 THEN row.qty ELSE row.reqQty

Live(trade) == trade.kind # "Bust"

\* What stops an action once its row is loaded.
Refused(a, row, trade) ==
    \/ a.op = "accept_cancel" /\ row.slot # "Cancel"
    \/ a.op = "accept_replace" /\ (row.slot # "Replace" \/ NewQty(row) < row.cum)
    \/ a.op = "reject_cancel" /\ row.slot = ""
    \/ a.op = "restate_order" /\ (~DefinesRestated \/ a.qty < row.cum)
    \/ a.op \in {"correct_trade", "bust_trade"} /\ ~Live(trade)
    \/ a.op = "renotify_trade" /\ ~trade.dk

\* The order after a correction or a bust of the trade: less what it was, and a
\* bust never leaves it filled.
Corrected(row, trade, qty) == AtLeast0(row.cum - trade.last + qty)
AfterCorrection(row, trade, qty) ==
    LET cum == Corrected(row, trade, qty) IN Traded(row, cum, Working(row.qty, cum))
AfterBust(row, trade) ==
    LET cum == Corrected(row, trade, 0) IN Traded(row, cum, IF cum = 0 THEN "New" ELSE "PartiallyFilled")

\* The row as the action writes it: the snapshot with its changes.
Written(a, row, trade) ==
    CASE a.op = "accept_order"   -> [row EXCEPT !.status = "New", !.slot = ""]
      [] a.op = "reject_order"   -> [row EXCEPT !.status = "Rejected", !.leaves = 0, !.slot = ""]
      [] a.op = "fill_order"     ->
            LET cum == row.cum + a.qty
            IN  Traded(Acknowledged(row), cum, Working(row.qty, cum))
      [] a.op = "unsolicited_cancel" ->
            [Acknowledged(row) EXCEPT !.status = "Canceled", !.leaves = 0]
      [] a.op = "restate_order"  ->
            Traded([Acknowledged(row) EXCEPT !.qty = a.qty], row.cum, Working(a.qty, row.cum))
      [] a.op = "accept_cancel"  -> [ClearSlot(row) EXCEPT !.status = "Canceled", !.leaves = 0]
      [] a.op = "accept_replace" ->
            Traded([ClearSlot(row) EXCEPT !.qty = NewQty(row)], row.cum,
                   IF DefinesReplaced THEN "Replaced" ELSE Working(NewQty(row), row.cum))
      [] a.op = "reject_cancel"  -> ClearSlot(row)
      [] a.op = "correct_trade"  -> AfterCorrection(row, trade, a.qty)
      [] a.op = "bust_trade"     -> AfterBust(row, trade)
      [] a.op = "renotify_trade" -> row

\* What the report of an action reports: its own kind, or a disputed trade's again.
Kind(op, trade) ==
    CASE op = "accept_order" -> "New"
      [] op = "reject_order" -> "Rejected"
      [] op = "fill_order" -> "Fill"
      [] op \in {"unsolicited_cancel", "accept_cancel"} -> "Canceled"
      [] op = "restate_order" -> "Restated"
      [] op = "accept_replace" -> "Replaced"
      [] op = "correct_trade" -> "Correct"
      [] op = "bust_trade" -> "Bust"
      [] op = "renotify_trade" -> trade.kind

Renames(op) == op \in {"accept_cancel", "accept_replace"}

Trades(op) == op \in {"fill_order", "correct_trade", "bust_trade", "renotify_trade"}

NowId(a, row) == IF Renames(a.op) THEN row.req ELSE a.id

\* The quantity and the ExecRefID of the trade reported.
LastQty(a, trade) ==
    IF a.op \in {"bust_trade", "renotify_trade"} THEN trade.last ELSE IF Trades(a.op) THEN a.qty ELSE 0
RefOf(a, trade) == IF a.op = "renotify_trade" THEN trade.ref ELSE a.exec

\* The row as its report has it: as it is written, but accepting a new order
\* reports nothing filled, and a second report of a trade works out the status.
AsReported(a, row, trade) ==
    CASE a.op = "accept_order" -> [Written(a, row, trade) EXCEPT !.cum = 0, !.leaves = row.qty]
      [] a.op = "renotify_trade" ->
            [row EXCEPT !.status = IF row.cum = 0 THEN "New"
                                   ELSE IF row.leaves = 0 THEN "Filled" ELSE "PartiallyFilled"]
      [] OTHER -> Written(a, row, trade)

Answer(a, row, trade, exec) ==
    IF a.op = "reject_cancel"
    THEN OrderCancelReject(row.req, a.id, row.status, FALSE)
    ELSE ExecutionReport(Kind(a.op, trade), NowId(a, row), IF Renames(a.op) THEN a.id ELSE 0,
                         AsReported(a, row, trade), exec, RefOf(a, trade), LastQty(a, trade))

-----------------------------------------------------------------------------
(* The callers. *)

At(c, step) == call[c].step = step
Goes(c, state) == call' = [call EXCEPT ![c] = state]
Doing(c, step) == Goes(c, [call[c] EXCEPT !.step = step])

\* A command: an order it names by ClOrdID as the blotter shows it, or a trade
\* by its latest ExecID.
OnOrder == Actions \cap {"accept_order", "reject_order", "accept_cancel", "accept_replace",
                         "reject_cancel", "unsolicited_cancel"}
WithQty == Actions \cap {"fill_order", "restate_order"}

Commands ==
    LET known == {i \in Ids : rows[i] # NoRow}
        latest == {trades[t].execs[Len(trades[t].execs)] : t \in DOMAIN trades}
    IN  [op : OnOrder, id : known, qty : {0}, exec : {0}]
        \cup [op : WithQty, id : known, qty : Qtys, exec : {0}]
        \cup [op : Actions \cap {"correct_trade"}, id : {0}, qty : Qtys, exec : latest]
        \cup [op : Actions \cap {"bust_trade", "renotify_trade"}, id : {0}, qty : {0}, exec : latest]

Bounded(op) ==
    /\ given < MaxCommands
    /\ Trades(op) => Cardinality(ExecIds(trades)) < MaxExec

Command(c) ==
    /\ At(c, "idle") /\ given' = given + 1
    /\ \E a \in Commands : Bounded(a.op) /\ Goes(c, [step |-> "locking", a |-> a])
    /\ UNCHANGED << rows, trades, lock, reading, requests, reports, minted >>

\* accept_request and reject_request: what is pending decides what they do,
\* read before the lock.
Choice(op, slot) ==
    CASE slot = "New" -> IF op = "accept_request" THEN "accept_order" ELSE "reject_order"
      [] slot = "Cancel" -> IF op = "accept_request" THEN "accept_cancel" ELSE "reject_cancel"
      [] slot = "Replace" -> IF op = "accept_request" THEN "accept_replace" ELSE "reject_cancel"

Decide(c) ==
    /\ At(c, "idle") /\ Bounded("accept_order") /\ given' = given + 1
    /\ \E op \in Actions \cap {"accept_request", "reject_request"}, i \in Ids :
          /\ Known(rows, i) /\ rows[i].slot # ""
          /\ Goes(c, [step |-> "locking",
                      a |-> [op |-> Choice(op, rows[i].slot), id |-> i, qty |-> 0, exec |-> 0]])
    /\ UNCHANGED << rows, trades, lock, reading, requests, reports, minted >>

\* The order of a trade is found by its Order ID: a replace may have renamed it.
Named(a) ==
    IF a.exec = 0 THEN a
    ELSE LET t == TradeOf(trades, a.exec)
         IN  [a EXCEPT !.id = CHOOSE i \in Ids : rows[i].oid = trades[t].oid]

TradeIn(a) == IF a.exec = 0 THEN NewTrade(0, 0, 0) ELSE trades[TradeOf(trades, a.exec)]

\* A trade reported again leaves the order's row alone.
FirstWrite(op) ==
    IF Renames(op) THEN "renaming" ELSE IF op = "renotify_trade" THEN "trading" ELSE "writing"

\* A plausible bug: the action takes no lock.
LoadUnlocked(c) ==
    /\ At(c, "locking")
    /\ LET a == Named(call[c].a)
       IN  IF ~Known(rows, a.id) \/ Refused(a, rows[a.id], TradeIn(a))
           THEN Goes(c, Idle)
           ELSE Goes(c, [step |-> FirstWrite(a.op), a |-> a,
                         row |-> rows[a.id], trade |-> TradeIn(a),
                         exec |-> Cardinality(ExecIds(trades)) + 1])
    /\ UNCHANGED << rows, trades, lock, reading, requests, reports, minted, given >>

\* The lock is taken and the row loaded; what is unknown or refused ends there.
Load(c) ==
    /\ At(c, "locking") /\ lock = Nobody
    /\ LET a == Named(call[c].a)
       IN  IF ~Known(rows, a.id) \/ Refused(a, rows[a.id], TradeIn(a))
           THEN Goes(c, Idle) /\ UNCHANGED lock
           ELSE /\ lock' = c
                /\ Goes(c, [step |-> FirstWrite(a.op), a |-> a,
                            row |-> rows[a.id], trade |-> TradeIn(a),
                            exec |-> Cardinality(ExecIds(trades)) + 1])
    /\ UNCHANGED << rows, trades, reading, requests, reports, minted, given >>

\* A plausible bug: the row is not renamed.
RenameNot(c) ==
    /\ At(c, "renaming") /\ Doing(c, "writing")
    /\ UNCHANGED << rows, trades, lock, reading, requests, reports, minted, given >>

\* _rename_order
Rename(c) ==
    /\ At(c, "renaming")
    /\ rows' = Renamed(rows, call[c].a.id, call[c].row.req)
    /\ Doing(c, "writing")
    /\ UNCHANGED << trades, lock, reading, requests, reports, minted, given >>

\* _write_order: the snapshot with its changes, under the ClOrdID it has now.
Write(c) ==
    /\ At(c, "writing")
    /\ LET k == call[c]
       IN  rows' = Upsert(rows, NowId(k.a, k.row), Written(k.a, k.row, k.trade))
    /\ Doing(c, IF Trades(call[c].a.op) THEN "trading" ELSE "sending")
    /\ UNCHANGED << trades, lock, reading, requests, reports, minted, given >>

\* _write_sent_execution: a new trade, or a new version of the one corrected.
WriteTrade(c) ==
    /\ At(c, "trading")
    /\ LET k == call[c]
           last == LastQty(k.a, k.trade)
       IN  trades' = IF k.a.op = "fill_order" THEN Append(trades, NewTrade(k.row.oid, k.exec, last))
                     ELSE NewVersion(trades, TradeOf(trades, k.a.exec), k.exec, RefOf(k.a, k.trade), last,
                                     Kind(k.a.op, k.trade))
    /\ Doing(c, "sending")
    /\ UNCHANGED << rows, lock, reading, requests, reports, minted, given >>

\* The lock is released and the message leaves, with nothing in between.
Send(c) ==
    /\ At(c, "sending")
    /\ LET k == call[c] IN reports' = Append(reports, Answer(k.a, k.row, k.trade, k.exec))
    /\ lock' = Nobody /\ Goes(c, Idle)
    /\ UNCHANGED << rows, trades, reading, requests, minted, given >>

-----------------------------------------------------------------------------
\* The counterparty: orders and requests, each under a new ClOrdID, a request
\* naming any it has used.
Counterparty ==
    \E orig \in 0 .. minted, qty \in Qtys, type \in {"D", "F", "G"} :
        /\ minted < MaxId /\ Len(requests) < 2
        /\ type = "D" <=> orig = 0
        /\ minted' = minted + 1
        /\ requests' = Append(requests, Request(type, minted + 1, orig, qty))
        /\ UNCHANGED << rows, trades, lock, call, reading, reports, given >>

MarketStep ==
    \/ NewOrder \/ LoadRequested \/ Park
    \/ \E c \in Choosers : Decide(c)
    \/ \E c \in Callers : \/ Command(c) \/ Load(c) \/ Rename(c)
                          \/ Write(c) \/ WriteTrade(c) \/ Send(c)

\* This counterparty disputes no trade: OrderFlow has one that does.
Next == MarketStep \/ Counterparty

Spec == Init /\ [][Next]_vars

\* Bound: three commands and two ClOrdIDs, or two and three.
FewCommands == given + minted <= MaxCommands + 2

-----------------------------------------------------------------------------
\* The quantities of an order's trades that are not busted.
Worth(trade, oid) == IF trade.oid = oid /\ Live(trade) THEN trade.last ELSE 0
Total(table, oid) ==
    LET sum[n \in 0 .. Len(table)] == IF n = 0 THEN 0 ELSE sum[n - 1] + Worth(table[n], oid)
    IN  sum[Len(table)]
SumOfTrades(oid) == Total(trades, oid)

\* What an order has executed is the sum of its trades that are not busted,
\* each at the quantity corrected last, whenever no action is under way - with
\* every interleaving of fills, corrections, busts, replaces and requests.
CumIsSumOfTrades ==
    lock = Nobody => \A i \in Ids : Known(rows, i) => rows[i].cum = SumOfTrades(rows[i].oid)

\* The reports of an order, and that it was accepted or rejected, if at all, by
\* the first of them: what Accept and Reject chose before the lock still held.
About(o) == {n \in DOMAIN reports : reports[n].type = "8" /\ reports[n].oid = o}
AnsweredInTime(o) == \A n \in About(o) : reports[n].kind \in {"New", "Rejected"} => n = Min(About(o))

\* The blotter shows what the counterparty was told: the last report of an order
\* answered in time has the ClOrdID, status and quantities of its row, whenever
\* no action is under way.
ReportIsTheRow ==
    lock = Nobody =>
        \A i \in Ids : Known(rows, i) /\ About(rows[i].oid) # {} /\ AnsweredInTime(rows[i].oid) =>
            LET r == rows[i]
                m == reports[Max(About(r.oid))]
            IN  << m.id, m.status, m.qty, m.cum, m.leaves >> = << i, r.status, r.qty, r.cum, r.leaves >>

\* Unless two use Accept and Reject, an order is accepted or rejected once, and a
\* request answered once, by whoever comes first (reject_cancel on an order still new names no request).
AnsweredOnce ==
    (\A c, d \in Choosers : c = d) =>
    LET answer(m) == m.id # 0 /\ (m.type = "9" \/ m.orig # 0 \/ m.kind \in {"New", "Rejected"})
    IN  \A m, n \in DOMAIN reports :
            m # n /\ answer(reports[m]) /\ answer(reports[n]) => reports[m].id # reports[n].id

\* A request stays in the slot of its order, through every fill, cancel,
\* restatement and correction, until it is answered or a later one is parked -
\* or an Accept or Reject of the order, chosen before it came, takes it away.
RequestStays ==
    \A i \in Ids :
      Known(rows, i) /\ rows[i].slot \in {"Cancel", "Replace"} =>
        \/ \E j \in Ids : /\ Known(rows', j) /\ rows'[j].slot = rows[i].slot
                          /\ rows'[j].req = rows[i].req
        \/ reading.step = "parking"
        \/ \E c \in Callers : /\ call[c].step \in {"renaming", "writing"}
                              /\ call[c].a.op \in {"accept_cancel", "accept_replace", "reject_cancel"}
                              /\ call[c].row.req = rows[i].req
        \/ \E c \in Callers : /\ call[c].step = "writing"
                              /\ call[c].a.op \in {"accept_order", "reject_order"}

\* No step of the market side loses a request: neither an action that writes its
\* snapshot back whole, nor the read loop (_market_action, _handle_cancel_request).
RequestKept == [][RequestStays]_rows
=============================================================================
