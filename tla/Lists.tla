------------------------------- MODULE Lists -------------------------------
(***************************************************************************)
(* Lists (FixEngine of fix/engine.py, lists.py): a basket of orders under   *)
(* one ListID, sent by one engine - in one NewOrderList, mode E, or order   *)
(* by order, mode D - and worked by another.  A list has a row on each      *)
(* side; its orders join it one by one, ListStatus answers it, and the      *)
(* report that finishes its last order finishes it.                         *)
(*                                                                         *)
(* Nothing locks a list's row: every task that changes it writes the whole  *)
(* of it back as it loaded it.  Each side has a caller and a read loop.     *)
(* One list; an order is its place in it; a fill fills it.                  *)
(***************************************************************************)
EXTENDS Integers, Sequences, FiniteSets, SequencesExt

CONSTANTS Modes,            \* "E", "D"
          Sizes,            \* orders of a list as sent
          MaxOrders,        \* bound: with those added to it later
          MaxAsked,         \* bound: requests of the client about the list
          MaxGiven          \* bound: commands given on the market side

ASSUME ListsAssumption ==
    /\ Modes \subseteq {"E", "D"} /\ {MaxOrders, MaxAsked, MaxGiven} \subseteq Nat
    /\ Sizes \subseteq 1 .. MaxOrders

VARIABLES terms,        \* how the list is sent
          list,         \* fix_lists of each side
          order,        \* fix_orders of each side: the list's
          toMarket, toClient,       \* messages under way
          doing,        \* what each task is at
          asked, given, \* bounds
          calm          \* auxiliary: see Overlaps, Late and Fails

changing == << list, order, toMarket, toClient, doing, asked, given, calm >>
vars == << terms, changing >>

Sides == {"client", "market"}
Tasks == {"caller", "reader"}
Orders == 1 .. MaxOrders

\* The orders of the list as sent; the others are added.
AsSent == 1 .. terms.size

Rest == [step |-> "idle"]
NoList == [status |-> "none"]
NoOrder == [status |-> "none", isNew |-> FALSE]

Init ==
    /\ terms \in [mode : Modes, size : Sizes, total : {0, MaxOrders}, waits : BOOLEAN,
                 asks : {{"L"}, {"K", "M"}}]
    /\ terms.mode = "E" => terms.total = 0
    /\ terms.mode = "D" => ~terms.waits
    /\ list = [s \in Sides |-> NoList] /\ order = [s \in Sides |-> [o \in Orders |-> NoOrder]]
    /\ toMarket = << >> /\ toClient = << >>
    /\ doing = [s \in Sides |-> [t \in Tasks |-> Rest]]
    /\ asked = 0 /\ given = 0 /\ calm = TRUE

-----------------------------------------------------------------------------
(* Messages: the orders of a list, in one or one by one; ListExecute (L),    *)
(* ListCancelRequest (K) and ListStatusRequest (M); ListStatus with its      *)
(* ListStatusType and ListOrderStatus.                                      *)

NewOrderList(total) == [type |-> "E", orders |-> [i \in AsSent |-> i], total |-> total]
ListOrder(o, total) == [type |-> "D", orders |-> << o >>, total |-> total]
ListRequest(type) == [type |-> type]
ListStatus(kind, code) == [type |-> "N", kind |-> kind, code |-> code]
OrderReport(o) == [type |-> "8", o |-> o, status |-> order["market"][o].status]

-----------------------------------------------------------------------------
(* Rows. *)

DONE_STATUSES == {"Filled", "Canceled", "Rejected"}
IsDone(status) == status \in DONE_STATUSES

Members(s) == {o \in Orders : order[s][o].status # "none"}
AllAreDone(s) == Members(s) # {} /\ \A o \in Members(s) : IsDone(order[s][o].status)

\* ListOrderStatus(431) by name: a row has the name as its status and the code.
BlankList(s, mode, count, total) ==
    [status |-> IF s = "market" THEN "Received" ELSE "Sent", code |-> "", mode |-> mode,
     slot |-> IF s = "market" THEN "New" ELSE "", count |-> count, total |-> total]

Coded(row, code) == IF code = "" THEN row ELSE [row EXCEPT !.status = code, !.code = code]
Cleared(row) == [row EXCEPT !.slot = ""]

\* _join_list, once the order is written: the row is loaded and the list counted,
\* then the row is written.  A D's TotNoOrders is the latest word on the size.
Joined(s, row, mode, count, total) ==
    IF row = NoList THEN BlankList(s, mode, count, total)
    ELSE [row EXCEPT !.mode = IF mode = "D" /\ @ = "E" THEN "E+D" ELSE @, !.count = count,
                     !.total = IF total = 0 THEN @ ELSE total,
                     !.slot = IF s = "market" /\ @ = "" THEN "New" ELSE @]

\* A plausible bug: what is still to come is not asked about.
FinishesShort(s, orders) ==
    /\ list[s] # NoList /\ list[s].status # "AllDone"
    /\ \A o \in Members(s) : IsDone(orders[o].status)

\* _finish_list: whether the row is to become AllDone, with the orders as they are.
Finishes(s, orders) ==
    /\ list[s] # NoList /\ list[s].status # "AllDone"
    /\ \A o \in Members(s) : IsDone(orders[o].status)
    /\ Cardinality(Members(s)) >= list[s].total

-----------------------------------------------------------------------------
(* Tasks. *)

At(s, t, step) == doing[s][t].step = step
Does(s, t, d) == doing' = [doing EXCEPT ![s][t] = d]
Write(s, row) == list' = [list EXCEPT ![s] = row]

\* What a command or a message starts on while the side's other task is at work.
Overlaps(s, t) == \E u \in Tasks \ {t} : ~At(s, u, "idle")

-----------------------------------------------------------------------------
(* The client's caller. *)

Sends(m) == toMarket' = Append(toMarket, m) /\ UNCHANGED << toClient, calm >>
Fails == calm' = FALSE /\ UNCHANGED << toMarket, toClient >>

\* The client's rows of some orders, given a status.
Marked(on, status) ==
    [order EXCEPT !["client"] = [o \in Orders |-> IF o \in on THEN [@[o] EXCEPT !.status = status] ELSE @[o]]]

\* send_new_list: the row and the orders are written, then the messages go.
SendNewList ==
    /\ list["client"] = NoList /\ At("client", "caller", "idle")
    /\ Write("client", BlankList("client", terms.mode, terms.size, IF terms.mode = "E" THEN terms.size ELSE terms.total))
    /\ order' = Marked(AsSent, "PendingNew")
    /\ Does("client", "caller", [step |-> "sending", next |-> 1])
    /\ UNCHANGED << toMarket, toClient, asked, given, calm >>

\* One message of the list.  When it fails, the orders that have not gone are
\* Rejected, and the list is Failed when none has.
SendOfList ==
    /\ At("client", "caller", "sending")
    /\ LET n == doing["client"]["caller"].next
           through == terms.mode = "E" \/ n = terms.size
       IN  \/ /\ Sends(IF terms.mode = "E" THEN NewOrderList(list["client"].total) ELSE ListOrder(n, terms.total))
              /\ Does("client", "caller", IF through THEN Rest ELSE [step |-> "sending", next |-> n + 1])
              /\ UNCHANGED << list, order >>
           \/ /\ Fails /\ Does("client", "caller", Rest)
              /\ order' = Marked(n .. terms.size, "Rejected")
              /\ IF n = 1 THEN Write("client", [list["client"] EXCEPT !.status = "Failed"]) ELSE UNCHANGED list
    /\ UNCHANGED << asked, given >>

\* send_new_order for the list: the order is written and joins it, and is sent.
AddOrder ==
    /\ list["client"] # NoList /\ At("client", "caller", "idle")
    /\ LET o == Cardinality(Members("client")) + 1
       IN  /\ o \in Orders
           /\ order' = [order EXCEPT !["client"][o].status = "PendingNew"]
           /\ Does("client", "caller", [step |-> "joining", o |-> o, row |-> list["client"], count |-> o])
    /\ calm' = (calm /\ ~Overlaps("client", "caller"))
    /\ UNCHANGED << list, toMarket, toClient, asked, given >>

JoinSent ==
    /\ At("client", "caller", "joining")
    /\ LET d == doing["client"]["caller"]
       IN  /\ Write("client", Joined("client", d.row, "D", d.count, 0))
           /\ Does("client", "caller", [d EXCEPT !.step = "adding"])
    /\ UNCHANGED << order, toMarket, toClient, asked, given, calm >>

SendAdded ==
    /\ At("client", "caller", "adding") /\ Does("client", "caller", Rest)
    /\ LET o == doing["client"]["caller"].o
       IN  \/ Sends(ListOrder(o, 0)) /\ UNCHANGED order
           \/ Fails /\ order' = [order EXCEPT !["client"][o].status = "Rejected"]
    /\ UNCHANGED << list, asked, given >>

\* execute_list (L), cancel_list as one request (K), request_list_status (M).
Ask ==
    /\ list["client"] # NoList /\ At("client", "caller", "idle") /\ asked < MaxAsked /\ asked' = asked + 1
    /\ \E type \in terms.asks :
          Does("client", "caller", [step |-> "asking", type |-> type, row |-> list["client"]])
    /\ calm' = (calm /\ ~Overlaps("client", "caller"))
    /\ UNCHANGED << list, order, toMarket, toClient, given >>

\* _send_list_request: the slot holds a request that has an answer of its own.
Slotted(row, type) ==
    CASE type = "L" -> [row EXCEPT !.slot = "Execute"]
      [] type = "K" -> [row EXCEPT !.slot = "Cancel"]
      [] type = "M" -> row

WriteAsked ==
    /\ At("client", "caller", "asking")
    /\ LET d == doing["client"]["caller"]
       IN  Write("client", Slotted(d.row, d.type)) /\ Does("client", "caller", [d EXCEPT !.step = "asked"])
    /\ UNCHANGED << order, toMarket, toClient, asked, given, calm >>

SendAsked ==
    /\ At("client", "caller", "asked") /\ Does("client", "caller", Rest)
    /\ LET d == doing["client"]["caller"]
       IN  \/ Sends(ListRequest(d.type)) /\ UNCHANGED list
           \/ Fails /\ Write("client", d.row)
    /\ UNCHANGED << order, asked, given >>

-----------------------------------------------------------------------------
(* The client's read loop. *)

\* A plausible bug: a report that finishes an order is not the list's affair.
ReportNotListed ==
    /\ toClient # << >> /\ Head(toClient).type = "8" /\ At("client", "reader", "idle")
    /\ toClient' = Tail(toClient)
    /\ order' = [order EXCEPT !["client"][Head(toClient).o].status = Head(toClient).status]
    /\ calm' = (calm /\ ~Overlaps("client", "reader"))
    /\ UNCHANGED << list, toMarket, doing, asked, given >>

\* _handle_execution_report, on an order of the list.
Report ==
    /\ toClient # << >> /\ Head(toClient).type = "8" /\ At("client", "reader", "idle")
    /\ toClient' = Tail(toClient)
    /\ LET m == Head(toClient)
       IN  /\ order' = [order EXCEPT !["client"][m.o].status = m.status]
           /\ IF IsDone(m.status) /\ ~IsDone(order["client"][m.o].status) /\ Finishes("client", order'["client"])
              THEN Does("client", "reader", [step |-> "finishing", row |-> list["client"]])
              ELSE UNCHANGED doing
    /\ calm' = (calm /\ ~Overlaps("client", "reader"))
    /\ UNCHANGED << list, toMarket, asked, given >>

FinishSent ==
    /\ At("client", "reader", "finishing") /\ Does("client", "reader", Rest)
    /\ Write("client", Coded(doing["client"]["reader"].row, "AllDone"))
    /\ UNCHANGED << order, toMarket, toClient, asked, given, calm >>

\* _handle_list_status: the row it is about is loaded,
Status ==
    /\ toClient # << >> /\ Head(toClient).type = "N" /\ At("client", "reader", "idle")
    /\ toClient' = Tail(toClient)
    /\ Does("client", "reader", [step |-> "status", row |-> list["client"], m |-> Head(toClient)])
    /\ calm' = (calm /\ ~Overlaps("client", "reader"))
    /\ UNCHANGED << list, order, toMarket, asked, given >>

\* and written with what it says, the request it answers cleared.
Answers(m, slot) ==
    \/ slot = "Execute" /\ m.code \in {"Executing", "AllDone", "Reject"}
    \/ slot = "Cancel" /\ (m.code \in {"AllDone", "Reject"} \/ m.kind = "all done")

WriteStatus ==
    /\ At("client", "reader", "status") /\ Does("client", "reader", Rest)
    /\ LET d == doing["client"]["reader"]
           row == Coded(d.row, d.m.code)
       IN  Write("client", IF Answers(d.m, row.slot) THEN Cleared(row) ELSE row)
    /\ UNCHANGED << order, toMarket, toClient, asked, given, calm >>

-----------------------------------------------------------------------------
(* The market's read loop. *)

Arrives(types) ==
    /\ toMarket # << >> /\ Head(toMarket).type \in types /\ At("market", "reader", "idle")
    /\ toMarket' = Tail(toMarket)
    /\ calm' = (calm /\ ~Overlaps("market", "reader"))

\* _handle_new_order_list makes the row; its orders, and a D's, are received one
\* after the other.
ReceiveOrders ==
    /\ Arrives({"E", "D"})
    /\ LET m == Head(toMarket)
       IN  /\ IF m.type = "E" THEN Write("market", BlankList("market", "E", 0, m.total)) ELSE UNCHANGED list
           /\ Does("market", "reader", [step |-> "receiving", m |-> m])
    /\ UNCHANGED << order, toClient, asked, given >>

ReceiveOrder ==
    /\ At("market", "reader", "receiving")
    /\ LET m == doing["market"]["reader"].m
           o == Head(m.orders)
       IN  /\ order' = [order EXCEPT !["market"][o] = [status |-> "PendingNew", isNew |-> TRUE]]
           /\ Does("market", "reader", [step |-> "joining", m |-> [m EXCEPT !.orders = Tail(@)], row |-> list["market"],
                                        count |-> Cardinality(Members("market") \cup {o})])
    /\ UNCHANGED << list, toMarket, toClient, asked, given, calm >>

JoinReceived ==
    /\ At("market", "reader", "joining")
    /\ LET d == doing["market"]["reader"]
       IN  /\ Write("market", Joined("market", d.row, d.m.type, d.count, IF d.m.type = "D" THEN d.m.total ELSE 0))
           /\ Does("market", "reader", IF d.m.orders = << >> THEN Rest ELSE [step |-> "receiving", m |-> d.m])
    /\ UNCHANGED << order, toMarket, toClient, asked, given, calm >>

\* _handle_list_request, _handle_list_status_request: the row is loaded; a list
\* that is unknown is refused.
ReceiveRequest ==
    /\ Arrives({"L", "K", "M"})
    /\ IF list["market"] = NoList
       THEN /\ toClient' = Append(toClient, ListStatus("response", "Reject")) /\ UNCHANGED doing
       ELSE /\ Does("market", "reader", [step |-> "parking", type |-> Head(toMarket).type, row |-> list["market"]])
            /\ UNCHANGED toClient
    /\ UNCHANGED << list, order, asked, given >>

CodeOf(row) == IF row.code = "" THEN "Executing" ELSE row.code

Park ==
    /\ At("market", "reader", "parking") /\ Does("market", "reader", Rest)
    /\ LET d == doing["market"]["reader"]
       IN  IF d.type = "M"
           THEN /\ Write("market", Coded(d.row, CodeOf(d.row)))
                /\ toClient' = Append(toClient, ListStatus("response", CodeOf(d.row)))
           ELSE Write("market", Slotted(d.row, d.type)) /\ UNCHANGED toClient
    /\ UNCHANGED << order, toMarket, asked, given, calm >>

-----------------------------------------------------------------------------
(* The market's caller: a command is an action on each of some orders, as they
   stood when it was given, and then, for an answer, a write of the list. *)

\* A list answered once its orders are done, or a D's refused: what it says then
\* is the answer's status, not AllDone.
Late(answers) == answers # "" /\ (AllAreDone("market") \/ (answers = "reject" /\ terms.mode = "D"))

Row == list["market"]
New == {o \in Members("market") : order["market"][o].isNew}
Working == {o \in Members("market") : ~IsDone(order["market"][o].status)}
Pending == IF Row.slot # "" THEN Row.slot ELSE IF New # {} THEN "New" ELSE ""

\* accept_list and reject_list, by what is pending; kind is ListStatusType, "" for
\* no ListStatus.
Answer(accepts) ==
    LET inE == Row.mode # "D"
    IN  CASE Pending = "New" ->
                [op |-> IF accepts THEN "New" ELSE "Rejected", on |-> New, kind |-> IF inE THEN "ack" ELSE "",
                 code |-> IF ~accepts THEN "Reject" ELSE IF inE /\ terms.waits THEN "ReceivedForExecution" ELSE "Executing"]
          [] Pending = "Execute" /\ accepts -> [op |-> "", on |-> {}, kind |-> "started", code |-> "Executing"]
          [] Pending = "Cancel" /\ accepts -> [op |-> "Canceled", on |-> Working, kind |-> "all done", code |-> "AllDone"]
          [] OTHER -> [op |-> "", on |-> {}, kind |-> "response", code |-> CodeOf(Row)]

Alert == [op |-> "", on |-> {}, kind |-> "alert", code |-> Row.code]

\* What fill_list, cancel_list_orders and a fill or cancel of one order do.
OnOrders(op, on) == [op |-> op, on |-> on, kind |-> "none", code |-> ""]

Gives(a, answers) ==
    /\ At("market", "caller", "idle") /\ Row # NoList /\ given < MaxGiven /\ given' = given + 1
    /\ Does("market", "caller", [step |-> "acting", a |-> a, row |-> Row])
    /\ calm' = (calm /\ ~Overlaps("market", "caller") /\ ~Late(answers))
    /\ UNCHANGED << list, order, toMarket, toClient, asked >>

AcceptList == Row # NoList /\ Pending # "" /\ Gives(Answer(TRUE), "accept")
RejectList == Row # NoList /\ Pending # "" /\ Gives(Answer(FALSE), "reject")
SendListStatus == Gives(Alert, "")
WorkOrders ==
    \E op \in {"Filled", "Canceled"}, on \in {{o} : o \in Working} \cup {Working} : Gives(OnOrders(op, on), "")

\* The next order of the command: the order is written and, when that finishes
\* it, the list's row loaded, under the order lock.
Act ==
    /\ At("market", "caller", "acting")
    /\ LET d == doing["market"]["caller"]
           o == CHOOSE i \in d.a.on : \A j \in d.a.on : i <= j
           rest == [d EXCEPT !.a.on = @ \ {o}]
           after == [order["market"] EXCEPT ![o] = [status |-> d.a.op, isNew |-> FALSE]]
           ends == IsDone(d.a.op) /\ ~IsDone(order["market"][o].status) /\ Finishes("market", after)
       IN  /\ d.a.on # {} /\ order' = [order EXCEPT !["market"] = after]
           /\ Does("market", "caller",
                   [step |-> IF ends THEN "finishing" ELSE "reporting", o |-> o, found |-> Row, cmd |-> rest])
    /\ UNCHANGED << list, toMarket, toClient, asked, given, calm >>

FinishReceived ==
    /\ At("market", "caller", "finishing")
    /\ LET d == doing["market"]["caller"]
       IN  Write("market", Coded(d.found, "AllDone")) /\ Does("market", "caller", [d EXCEPT !.step = "reporting"])
    /\ UNCHANGED << order, toMarket, toClient, asked, given, calm >>

SendReport ==
    /\ At("market", "caller", "reporting")
    /\ LET d == doing["market"]["caller"]
       IN  /\ toClient' = Append(toClient, OrderReport(d.o))
           /\ Does("market", "caller", d.cmd)
    /\ UNCHANGED << list, order, toMarket, asked, given, calm >>

\* No order left: the row is loaded again after a Cancel's, and then written whole
\* with the answer.  A D's New is answered without a ListStatus, and leaves no code.
Reload ==
    /\ At("market", "caller", "acting")
    /\ LET d == doing["market"]["caller"]
       IN  /\ d.a.on = {}
           /\ Does("market", "caller",
                   IF d.a.kind = "none" THEN Rest
                   ELSE [d EXCEPT !.step = "answering", !.row = IF d.a.kind = "all done" THEN Row ELSE @])
    /\ UNCHANGED << list, order, toMarket, toClient, asked, given, calm >>

WriteAnswer ==
    /\ At("market", "caller", "answering")
    /\ LET d == doing["market"]["caller"]
           row == IF d.a.kind = "" THEN [d.row EXCEPT !.status = d.a.code] ELSE Coded(d.row, d.a.code)
       IN  /\ Write("market", IF d.a.kind = "alert" THEN row ELSE Cleared(row))
           /\ Does("market", "caller", IF d.a.kind = "" THEN Rest ELSE [d EXCEPT !.step = "telling"])
    /\ UNCHANGED << order, toMarket, toClient, asked, given, calm >>

SendAnswer ==
    /\ At("market", "caller", "telling") /\ Does("market", "caller", Rest)
    /\ LET a == doing["market"]["caller"].a
       IN  toClient' = Append(toClient, ListStatus(a.kind, IF a.kind = "alert" THEN "" ELSE a.code))
    /\ UNCHANGED << list, order, toMarket, asked, given, calm >>

-----------------------------------------------------------------------------
Moves ==
    \/ SendNewList \/ SendOfList \/ AddOrder \/ JoinSent \/ SendAdded \/ Ask \/ WriteAsked \/ SendAsked
    \/ Report \/ FinishSent \/ Status \/ WriteStatus
    \/ ReceiveOrders \/ ReceiveOrder \/ JoinReceived \/ ReceiveRequest \/ Park
    \/ AcceptList \/ RejectList \/ SendListStatus \/ WorkOrders
    \/ Act \/ FinishReceived \/ SendReport \/ Reload \/ WriteAnswer \/ SendAnswer

Next == Moves /\ UNCHANGED terms

Spec == Init /\ [][Next]_vars

-----------------------------------------------------------------------------
Quiet == toMarket = << >> /\ toClient = << >> /\ \A s \in Sides, t \in Tasks : At(s, t, "idle")

\* With no send failing, no two tasks of one side at work at once and no answer
\* given late, both sides end with the same orders, each list counts them, and a
\* list whose orders are all there and finished says so on both.
ListsAgree ==
    calm /\ Quiet /\ list["client"] # NoList =>
        /\ \A o \in Orders : order["client"][o].status = order["market"][o].status
        /\ \A s \in Sides : /\ list[s].count = Cardinality(Members(s))
                            /\ AllAreDone(s) /\ list[s].count >= list[s].total =>
                                  list[s].status \in {"AllDone", "Reject"}

\* However the tasks interleave, the market says AllDone of no list before as many
\* orders as its TotNoOrders have come and finished, unless its Cancel may be asked for.
AllDoneIsWhole ==
    list["market"].status = "AllDone" /\ "K" \notin terms.asks =>
        Cardinality({o \in Members("market") : IsDone(order["market"][o].status)}) >= list["market"].total
=============================================================================
