---------------------------- MODULE OrderTable ----------------------------
(***************************************************************************)
(* The order and trade tables both sides of an order write: the SQL of      *)
(* FixEngine._compile_ops (fix/engine.py) and the lookups, as operators on  *)
(* their rows.  A ClOrdID is a number in the order it was minted, 0 none.   *)
(* Prices, texts, instruments, legs and lists are left out.                 *)
(***************************************************************************)
EXTENDS Integers, Sequences, FiniteSets

CONSTANTS Version,      \* of the session: "FIX.4.0", "FIX.4.2" or "FIX.4.4"
          MaxId         \* bound: ClOrdIDs minted

ASSUME TableAssumption == Version \in {"FIX.4.0", "FIX.4.2", "FIX.4.4"} /\ MaxId \in Nat

Ids == 1 .. MaxId

\* What the dictionary of the version defines: ExecType(150) and LeavesQty(151),
\* 150=D, 39=5.
DefinesExecType == Version # "FIX.4.0"
DefinesRestated == Version # "FIX.4.0"
DefinesReplaced == Version # "FIX.4.4"

\* fix_orders: by ClOrdID, which is unique in a session, a row or NoRow.  A row
\* has the Order ID it keeps (the ClOrdID it came under stands for it), status,
\* quantities and the request slot (pending_action, _cl_ord_id, _qty).
NoRow == [oid |-> 0]
NewRow(oid, qty, slot) ==
    [oid |-> oid, status |-> "PendingNew", qty |-> qty, cum |-> 0, leaves |-> qty,
     slot |-> slot, req |-> 0, reqQty |-> 0]

ClearSlot(row) == [row EXCEPT !.slot = "", !.req = 0, !.reqQty = 0]
Known(table, i) == i \in Ids /\ table[i] # NoRow

\* upsert_order: the Order ID is written once, and no quantity leaves the one
\* there.
Upsert(table, i, row) ==
    [table EXCEPT ![i] = IF @ = NoRow THEN row
                         ELSE [row EXCEPT !.oid = table[i].oid,
                                          !.qty = IF row.qty = 0 THEN table[i].qty ELSE row.qty]]

\* rename_order: nothing when a row has the new ClOrdID; the slot clears when it
\* holds the request of that ClOrdID.
Renamed(table, from, to) ==
    IF ~Known(table, from) \/ table[to] # NoRow THEN table
    ELSE [table EXCEPT ![from] = NoRow,
                       ![to] = IF table[from].req = to THEN ClearSlot(table[from]) ELSE table[from]]

\* fix_executions: a sequence of trades, each the Order ID, the ExecIDs it has
\* had, its quantity, what it was reported as last, of which ExecID (ExecRefID),
\* and whether it is disputed (dk_reason): by the counterparty a trade sent, by us
\* one received.
NewTrade(oid, x, last) ==
    [oid |-> oid, execs |-> << x >>, last |-> last, kind |-> "Fill", ref |-> 0, dk |-> FALSE]
Had(trade, x) == \E n \in DOMAIN trade.execs : trade.execs[n] = x

\* _find_execution: the trade that has the ExecID or had it, 0 for none.
TradeOf(table, x) ==
    IF \E t \in DOMAIN table : Had(table[t], x)
    THEN CHOOSE t \in DOMAIN table : Had(table[t], x) ELSE 0
ExecIds(table) == UNION {{table[t].execs[n] : n \in DOMAIN table[t].execs} : t \in DOMAIN table}

\* A correction, a bust or a second report is a new version of its trade, which
\* nobody disputes yet.
NewVersion(table, t, x, ref, last, kind) ==
    LET old == table[t]
    IN  [table EXCEPT ![t] = [old EXCEPT !.execs = Append(old.execs, x), !.ref = ref, !.last = last,
                                         !.kind = kind, !.dk = FALSE]]

\* dk_execution
Disputed(table, t, dk) == [table EXCEPT ![t].dk = dk]

AtLeast0(n) == IF n < 0 THEN 0 ELSE n

-----------------------------------------------------------------------------
(* The messages.  kind is what an ExecutionReport reports (ExecTransType,    *)
(* ExecType), unknown a reject's "unknown order" (CxlRejReason).             *)

NewOrderSingle(id, qty) == [type |-> "D", id |-> id, orig |-> 0, qty |-> qty]
CancelRequest(id, orig) == [type |-> "F", id |-> id, orig |-> orig, qty |-> 0]
CancelReplaceRequest(id, orig, qty) == [type |-> "G", id |-> id, orig |-> orig, qty |-> qty]

Request(type, id, orig, qty) ==
    CASE type = "D" -> NewOrderSingle(id, qty)
      [] type = "F" -> CancelRequest(id, orig)
      [] type = "G" -> CancelReplaceRequest(id, orig, qty)

\* The order as row has it; what it says of a trade: its ExecID, the one it is
\* about and the quantity.  A version without LeavesQty(151) leaves it out.
ExecutionReport(kind, id, orig, row, exec, ref, last) ==
    [type |-> "8", kind |-> kind, id |-> id, orig |-> orig, oid |-> row.oid, status |-> row.status,
     qty |-> row.qty, cum |-> row.cum, leaves |-> IF DefinesExecType THEN row.leaves ELSE 0,
     exec |-> exec, ref |-> ref, last |-> last]

OrderCancelReject(id, orig, status, unknown) ==
    [type |-> "9", id |-> id, orig |-> orig, status |-> status, unknown |-> unknown]

DontKnowTrade(exec) == [type |-> "Q", exec |-> exec]
=============================================================================
