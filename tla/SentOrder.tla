----------------------------- MODULE SentOrder -----------------------------
(***************************************************************************)
(* The client side of orders (FixEngine of fix/engine.py): the callers that *)
(* send orders and cancel and replace requests, each writing its row before *)
(* the message leaves, and the read loop that takes ExecutionReports and    *)
(* OrderCancelRejects to the row of their chain.  Nothing here takes a      *)
(* lock: what the read loop found may be written meanwhile, and the other   *)
(* way round.                                                               *)
(***************************************************************************)
EXTENDS OrderTable

CONSTANTS Clients,      \* tasks that send
          Quantities,   \* quantities ordered
          MaxDisputes,  \* bound: trades disputed
          Fails         \* BOOLEAN: a send may fail, and nothing leave

VARIABLES sent,         \* fix_orders
          held,         \* fix_orders__history: the ClOrdIDs an order has had
          bought,       \* fix_executions
          ask,          \* what each caller is at
          hearing,      \* what the read loop is at
          requests,     \* messages sent
          reports,      \* messages of the market not read yet
          minted,       \* ClOrdIDs minted
          doubted       \* bound: trades disputed

Rest == [step |-> "idle"]

\* Order IDs are ours, minted with the ClOrdID, or the market's OrderID(37),
\* which a row has that a report made.
Theirs(o) == MaxId + o
OrderIds == 1 .. 2 * MaxId

Init ==
    /\ sent = [i \in Ids |-> NoRow] /\ held = [o \in OrderIds |-> {}] /\ bought = << >>
    /\ ask = [c \in Clients |-> Rest] /\ hearing = Rest
    /\ requests = << >> /\ reports = << >> /\ minted = 0 /\ doubted = 0

\* A write of a row, and the version of it the history keeps.
Writes(table) ==
    /\ sent' = table
    /\ held' = [o \in OrderIds |-> held[o] \cup {i \in Ids : table[i].oid = o}]

-----------------------------------------------------------------------------
(* The callers. *)

Is(c, step) == ask[c].step = step
Turns(c, state) == ask' = [ask EXCEPT ![c] = state]

\* send_new_order: the ClOrdID, the row PendingNew, the message; a send that
\* fails writes the row as it was, Rejected.
MintOrder(c) ==
    /\ Is(c, "idle") /\ minted < MaxId
    /\ minted' = minted + 1
    /\ \E q \in Quantities : Turns(c, [step |-> "row", type |-> "D", id |-> minted + 1, orig |-> 0, qty |-> q])
    /\ UNCHANGED << sent, held, bought, hearing, requests, reports, doubted >>

WriteOrder(c) ==
    /\ Is(c, "row")
    /\ Writes(Upsert(sent, ask[c].id, NewRow(ask[c].id, ask[c].qty, "")))
    /\ Turns(c, [ask[c] EXCEPT !.step = "sending"])
    /\ UNCHANGED << bought, hearing, requests, reports, minted, doubted >>

\* send_cancel and send_cancel_replace, of a ClOrdID the blotter shows.
MintRequest(c) ==
    /\ Is(c, "idle") /\ minted < MaxId
    /\ minted' = minted + 1
    /\ \E orig \in {i \in Ids : Known(sent, i)} :
          \/ Turns(c, [step |-> "loading", type |-> "F", id |-> minted + 1, orig |-> orig, qty |-> 0])
          \/ \E q \in Quantities :
                Turns(c, [step |-> "loading", type |-> "G", id |-> minted + 1, orig |-> orig, qty |-> q])
    /\ UNCHANGED << sent, held, bought, hearing, requests, reports, doubted >>

\* _record_entered: an order no row names any more is left alone, and the
\* request goes out all the same.
LoadEntered(c) ==
    /\ Is(c, "loading")
    /\ Turns(c, [ask[c] EXCEPT !.step = IF Known(sent, ask[c].orig) THEN "recording" ELSE "sending"])
    /\ UNCHANGED << sent, held, bought, hearing, requests, reports, minted, doubted >>

Slotted(row, a) ==
    [row EXCEPT !.slot = IF a.type = "F" THEN "Cancel" ELSE "Replace", !.req = a.id, !.reqQty = a.qty]

\* record_request: the row of that ClOrdID, when there still is one.
RecordRequest(c) ==
    /\ Is(c, "recording")
    /\ LET a == ask[c]
       IN  Writes(IF Known(sent, a.orig) THEN [sent EXCEPT ![a.orig] = Slotted(@, a)] ELSE sent)
    /\ Turns(c, [ask[c] EXCEPT !.step = "sending"])
    /\ UNCHANGED << bought, hearing, requests, reports, minted, doubted >>

SendMessage(c) ==
    /\ Is(c, "sending")
    /\ LET a == ask[c]
       IN  requests' = Append(requests, Request(a.type, a.id, a.orig, a.qty))
    /\ Turns(c, Rest)
    /\ UNCHANGED << sent, held, bought, hearing, reports, minted, doubted >>

\* clear_request: a request that never left is not outstanding.
Cleared(table, id) ==
    [i \in Ids |-> IF Known(table, i) /\ table[i].req = id THEN ClearSlot(table[i]) ELSE table[i]]

\* A plausible bug: the row of an order that did not leave stays as it is.
SendFailsSilently(c) ==
    /\ Is(c, "sending") /\ Fails /\ Turns(c, Rest)
    /\ UNCHANGED << sent, held, bought, hearing, requests, reports, minted, doubted >>

SendFails(c) ==
    /\ Is(c, "sending") /\ Fails
    /\ LET a == ask[c]
           rejected == [NewRow(a.id, a.qty, "") EXCEPT !.status = "Rejected", !.leaves = 0]
       IN  Writes(IF a.type = "D" THEN Upsert(sent, a.id, rejected) ELSE Cleared(sent, a.id))
    /\ Turns(c, Rest)
    /\ UNCHANGED << bought, hearing, requests, reports, minted, doubted >>

\* dk_trade: the trade is loaded by the ExecID the blotter shows,
Dispute(c) ==
    /\ Is(c, "idle") /\ doubted < MaxDisputes /\ doubted' = doubted + 1
    /\ \E t \in DOMAIN bought :
          Turns(c, [step |-> "marking", trade |-> t, exec |-> bought[t].execs[Len(bought[t].execs)],
                    was |-> bought[t].dk])
    /\ UNCHANGED << sent, held, bought, hearing, requests, reports, minted >>

\* marked,
MarkDispute(c) ==
    /\ Is(c, "marking") /\ Turns(c, [ask[c] EXCEPT !.step = "disputing"])
    /\ bought' = Disputed(bought, ask[c].trade, TRUE)
    /\ UNCHANGED << sent, held, hearing, requests, reports, minted, doubted >>

\* and the DontKnowTrade leaves; when it does not, the mark is as it was loaded.
SendDispute(c) ==
    /\ Is(c, "disputing") /\ Turns(c, Rest)
    /\ \/ requests' = Append(requests, DontKnowTrade(ask[c].exec)) /\ UNCHANGED bought
       \/ Fails /\ bought' = Disputed(bought, ask[c].trade, ask[c].was) /\ UNCHANGED requests
    /\ UNCHANGED << sent, held, hearing, reports, minted, doubted >>

-----------------------------------------------------------------------------
(* The read loop. *)

\* _find_order: the row of the ClOrdID, or the one that had it before; 0 none.
FindOrder(id) ==
    IF Known(sent, id) THEN id
    ELSE IF \E i \in Ids : Known(sent, i) /\ id \in held[sent[i].oid]
         THEN CHOOSE i \in Ids : Known(sent, i) /\ id \in held[sent[i].oid] ELSE 0

\* _find_requested: the row whose slot has the request.
FindRequested(id) ==
    IF id # 0 /\ \E i \in Ids : Known(sent, i) /\ sent[i].req = id
    THEN CHOOSE i \in Ids : Known(sent, i) /\ sent[i].req = id ELSE 0

\* _find_order_for_report: by ClOrdID, by request, by the chain of OrigClOrdID.
FindForReport(m) ==
    IF Known(sent, m.id) THEN m.id
    ELSE IF FindRequested(m.id) # 0 THEN FindRequested(m.id) ELSE FindOrder(m.orig)

\* _handle_cancel_reject looks in the slots first.
FindForReject(m) == IF FindRequested(m.id) # 0 THEN FindRequested(m.id) ELSE FindOrder(m.orig)

Hears(type) == hearing.step = "idle" /\ reports # << >> /\ Head(reports).type = type

\* An accepted cancel or replace (150, else 39) moves the order to the ClOrdID
\* of the request.
Accepts(m) == m.kind \in {"Canceled", "Replaced"}

HearReport ==
    /\ Hears("8")
    /\ LET m == Head(reports)
           i == FindForReport(m)
           moves == i \notin {0, m.id}
       IN  hearing' = [step |-> IF moves /\ Accepts(m) THEN "renaming" ELSE "writing",
                       from |-> i, id |-> IF moves /\ ~Accepts(m) THEN i ELSE m.id,
                       oid |-> IF i = 0 THEN Theirs(m.oid) ELSE sent[i].oid]
    /\ UNCHANGED << sent, held, bought, ask, requests, reports, minted, doubted >>

RenameHeard ==
    /\ hearing.step = "renaming"
    /\ Writes(Renamed(sent, hearing.from, hearing.id))
    /\ hearing' = [hearing EXCEPT !.step = "writing"]
    /\ UNCHANGED << bought, ask, requests, reports, minted, doubted >>

\* The row as the report has it; the slot stays as it is (keep_pending).
Reported(m) ==
    LET old == IF Known(sent, hearing.id) THEN sent[hearing.id] ELSE NewRow(hearing.oid, 0, "")
    IN  [old EXCEPT !.status = m.status, !.qty = m.qty, !.cum = m.cum,
                    !.leaves = m.leaves]

\* A report of a trade: by ExecTransType(20), else by ExecType(150).
ReportsTrade(m) == m.kind \in {"Correct", "Bust"} \/ (m.kind = "Fill" /\ DefinesExecType)

WriteReport ==
    /\ hearing.step = "writing"
    /\ LET m == Head(reports)
       IN  /\ Writes(Upsert(sent, hearing.id, Reported(m)))
           /\ IF ReportsTrade(m)
              THEN hearing' = [hearing EXCEPT !.step = "trading"] /\ UNCHANGED reports
              ELSE hearing' = Rest /\ reports' = Tail(reports)
    /\ UNCHANGED << bought, ask, requests, minted, doubted >>

\* A plausible bug: a correction or bust starts a trade of its own.
RecordTradeAnew ==
    /\ hearing.step = "trading"
    /\ LET m == Head(reports)
       IN  bought' = Append(bought, [NewTrade(hearing.oid, m.exec, m.last) EXCEPT !.kind = m.kind, !.ref = m.ref])
    /\ hearing' = Rest /\ reports' = Tail(reports)
    /\ UNCHANGED << sent, held, ask, requests, minted, doubted >>

\* _record_report_trade: a new version of the trade it refers to, else a trade.
RecordTrade ==
    /\ hearing.step = "trading"
    /\ LET m == Head(reports)
           t == TradeOf(bought, m.ref)
       IN  bought' = IF t # 0 THEN NewVersion(bought, t, m.exec, m.ref, m.last, m.kind)
                     ELSE Append(bought, [NewTrade(hearing.oid, m.exec, m.last) EXCEPT !.kind = m.kind, !.ref = m.ref])
    /\ hearing' = Rest /\ reports' = Tail(reports)
    /\ UNCHANGED << sent, held, ask, requests, minted, doubted >>

\* _handle_cancel_reject: the order found is written by its row.
HearReject ==
    /\ Hears("9")
    /\ LET i == FindForReject(Head(reports))
       IN  IF i = 0 THEN hearing' = hearing /\ reports' = Tail(reports)
           ELSE hearing' = [step |-> "resolving", oid |-> sent[i].oid] /\ UNCHANGED reports
    /\ UNCHANGED << sent, held, bought, ask, requests, minted, doubted >>

\* A plausible bug: a reject of an unknown order leaves the request pending.
ResolvedHalf(row, m) ==
    IF m.unknown THEN row ELSE [IF row.req = m.id THEN ClearSlot(row) ELSE row EXCEPT !.status = m.status]

\* resolve_request: the status it reports, unless the order is unknown to them;
\* the slot clears when it holds the request.
Resolved(row, m) ==
    [IF row.req = m.id THEN ClearSlot(row) ELSE row EXCEPT
        !.status = IF m.unknown THEN row.status ELSE m.status]

Resolve ==
    /\ hearing.step = "resolving"
    /\ LET m == Head(reports)
       IN  Writes([i \in Ids |-> IF sent[i].oid = hearing.oid THEN Resolved(sent[i], m) ELSE sent[i]])
    /\ hearing' = Rest /\ reports' = Tail(reports)
    /\ UNCHANGED << bought, ask, requests, minted, doubted >>

-----------------------------------------------------------------------------
ClientStep ==
    \/ \E c \in Clients : \/ MintOrder(c) \/ WriteOrder(c) \/ MintRequest(c) \/ LoadEntered(c)
                          \/ RecordRequest(c) \/ SendMessage(c) \/ SendFails(c)
                          \/ Dispute(c) \/ MarkDispute(c) \/ SendDispute(c)
    \/ HearReport \/ RenameHeard \/ WriteReport \/ RecordTrade \/ HearReject \/ Resolve
=============================================================================
