------------------------------- MODULE Quotes -------------------------------
(***************************************************************************)
(* RFQs and quotes (FixEngine of fix/engine.py, families.py): a client that *)
(* asks and takes, a market that quotes, both this engine, joined by a      *)
(* session that delivers in order.  Each side has its own rows in fix_rfqs, *)
(* one per negotiation, and its own timer that marks Expired the quotes     *)
(* whose ValidUntilTime has passed, of which nothing goes on the wire.      *)
(*                                                                         *)
(* What runs under the session's order lock is one step; a send whose code  *)
(* awaits something once it has let the lock go (a hit's order, a streamed  *)
(* quote's row) is a step of its own.  Only the writes that take back what  *)
(* could not be sent run without the lock: they follow the failed send in   *)
(* its step, and that of a counter or a pass follows its row at once.       *)
(* One instrument; an ID is the number it was minted with, 0 is a blank.    *)
(* There is one caller on the market side and several on the client's.      *)
(***************************************************************************)
EXTENDS Integers, Sequences, FiniteSets, SequencesExt

CONSTANTS Takers,                           \* client-side callers
          Troubles,                         \* what a behaviour may have, one of them each
          Most                              \* bound: the IDs of each kind minted with a trouble,
                                            \* and of orders and responses together (answer)

ASSUME QuotesAssumption ==
    /\ \A t \in Troubles : Most[t] \in [{"rfq", "quote", "order", "resp", "answer"} -> Nat]
    /\ Troubles \subseteq {"clock",     \* quotes' ValidUntilTime passes
                           "failing",   \* a send may fail, nothing leaving
                           "foreign"}   \* the market may send what this engine only reads

VARIABLES trouble,      \* the one of this behaviour
          rfqs,         \* fix_rfqs of each side, in the order of its row IDs
          toMarket, toClient,       \* messages under way
          hit,          \* what each taker's hit is at
          stream,       \* the unsolicited quote whose row is written and which is not yet sent
          orders,       \* orders the market received that take a quote
          sweep,        \* the rows each side's timer found due, and has still to look at
          past,         \* quotes whose ValidUntilTime has passed
          minted,       \* IDs minted
          clean         \* auxiliary: nothing crossed a message or a quote on its way out, failed, was foreign
                        \* or named an ended quote

changing == << rfqs, toMarket, toClient, hit, stream, orders, sweep, past, minted, clean >>
vars == << trouble, changing >>

Sides == {"client", "market"}
LIVE_QUOTE == {"Quoted", "Countered"}
FINAL_RFQ == {"Hit", "Passed", "Rejected", "Failed"}

Rest == [step |-> "idle"]

Init ==
    /\ trouble \in Troubles
    /\ rfqs = [s \in Sides |-> << >>] /\ toMarket = << >> /\ toClient = << >>
    /\ hit = [t \in Takers |-> Rest] /\ stream = Rest /\ orders = << >>
    /\ sweep = [s \in Sides |-> {}] /\ past = {}
    /\ minted = [rfq |-> 0, quote |-> 0, order |-> 0, resp |-> 0] /\ clean = TRUE

-----------------------------------------------------------------------------
(* Rows. *)

\* A new row: a request (its quote blank) or the first of a chain of unsolicited quotes.
NewRow(origin, req, quote, status) ==
    [origin |-> origin, req |-> req, quote |-> quote, status |-> status, slot |-> "", order |-> 0]

\* _find_family_row: the newest row holding the ID; 0 when there is none.
ByQuote(s, q) == IF q = 0 THEN 0 ELSE SelectLastInSeq(rfqs[s], LAMBDA r : r.quote = q)
ByReq(s, n) == IF n = 0 THEN 0 ELSE SelectLastInSeq(rfqs[s], LAMBDA r : r.req = n)

\* _live_quote_chain: the newest unsolicited quote still standing.
LiveChain(s) == SelectLastInSeq(rfqs[s], LAMBDA r : r.origin = "quote" /\ r.status \in LIVE_QUOTE)

FirstOf(i, j) == IF i # 0 THEN i ELSE j

Writes(s, i, row) == rfqs' = [rfqs EXCEPT ![s][i] = row]
Adds(s, row) == rfqs' = [rfqs EXCEPT ![s] = Append(@, row)]

\* _CLEAR_QUOTE_SLOT with a status.
Closed(row, status) == [row EXCEPT !.slot = "", !.status = status]
Taken(row, order) == [Closed(row, "Hit") EXCEPT !.order = order]
Quoted(row, q) == [Closed(row, "Quoted") EXCEPT !.quote = q]

-----------------------------------------------------------------------------
(* Messages: type, QuoteReqID(131), QuoteID(117), QuoteRespType(694), ClOrdID(11). *)

Msg(type, req, quote, kind, order) ==
    [type |-> type, req |-> req, quote |-> quote, kind |-> kind, order |-> order]

QuoteRequest(req) == Msg("R", req, 0, "", 0)
Quote(req, quote) == Msg("S", req, quote, "", 0)
QuoteResponse(quote, kind, order) == Msg("AJ", 0, quote, kind, order)
QuoteCancel(req, quote, kind) == Msg("Z", req, quote, kind, 0)
QuoteRequestReject(req) == Msg("AG", req, 0, "", 0)
QuoteStatusReport(quote, status) == Msg("AI", 0, quote, status, 0)
NewOrder(quote, order) == Msg("D", 0, quote, "", order)

MidHit == \E t \in Takers : hit[t].step # "idle"

Streaming == stream.step = "sending"

SendsToMarket(m) ==
    /\ toMarket' = Append(toMarket, m) /\ clean' = (clean /\ toClient = << >> /\ ~Streaming)

\* Two unsolicited quotes stand on the instrument, one of them requoted after it ended.
TwoStreams(rows) ==
    \E i, j \in DOMAIN rows : i # j /\ \A k \in {i, j} : rows[k].origin = "quote" /\ rows[k].status \in LIVE_QUOTE
SendsToClient(m) ==
    /\ toClient' = Append(toClient, m)
    /\ clean' = (clean /\ toMarket = << >> /\ ~MidHit /\ ~TwoStreams(rfqs'["market"]))

\* A send that fails: nothing leaves.
Loses == trouble = "failing" /\ clean' = FALSE /\ UNCHANGED << toMarket, toClient >>

Mints(kind, n) == n = minted[kind] + 1 /\ minted' = [minted EXCEPT ![kind] = n]
UpTo(kind) ==
    {n \in 1 .. Most[trouble][kind] :
        kind \in {"order", "resp"} => minted.order + minted.resp < Most[trouble].answer}

-----------------------------------------------------------------------------
(* The client: sent RFQs, received quotes. *)

\* send_rfq: the row first; a send that fails leaves it Failed.
SendRfq ==
    \E n \in UpTo("rfq") :
        /\ Mints("rfq", n)
        /\ \/ /\ Adds("client", NewRow("rfq", n, 0, "Open"))
              /\ SendsToMarket(QuoteRequest(n)) /\ UNCHANGED toClient
           \/ Adds("client", NewRow("rfq", n, 0, "Failed")) /\ Loses
        /\ UNCHANGED << hit, stream, orders, sweep, past >>

\* hit_quote up to the release of the lock: the standing quote is taken on
\* its row, which keeps the order's ClOrdID.
HitQuote(t, q) ==
    /\ hit[t].step = "idle"
    /\ LET i == ByQuote("client", q)
       IN  /\ i # 0 /\ rfqs["client"][i].status \in LIVE_QUOTE
           /\ \E o \in UpTo("order") :
                 /\ Mints("order", o)
                 /\ Writes("client", i, Taken(rfqs["client"][i], o))
                 /\ hit' = [hit EXCEPT ![t] = [step |-> "sending", at |-> i, was |-> rfqs["client"][i],
                                              quote |-> q, order |-> o, type |-> "AJ"]]
    /\ clean' = (clean /\ toClient = << >>)
    /\ UNCHANGED << toMarket, toClient, stream, orders, sweep, past >>

\* send_new_order naming a quote (tag 117): _link_quote_order takes the row,
\* in whatever status, before the order leaves.
OrderQuote(t, q) ==
    /\ hit[t].step = "idle"
    /\ LET i == ByQuote("client", q)
       IN  /\ i # 0
           /\ \E o \in UpTo("order") :
                 /\ Mints("order", o)
                 /\ Writes("client", i, Taken(rfqs["client"][i], o))
                 /\ hit' = [hit EXCEPT ![t] = [step |-> "sending", at |-> i, was |-> rfqs["client"][i],
                                              quote |-> q, order |-> o, type |-> "D"]]
    /\ clean' = (clean /\ toClient = << >> /\ rfqs["client"][ByQuote("client", q)].status \in LIVE_QUOTE)
    /\ UNCHANGED << toMarket, toClient, stream, orders, sweep, past >>

\* The rest of the two, the lock released: the order's row, the message.  A hit
\* that fails puts the whole row back as it was loaded, an order does not.
SendHit(t) ==
    /\ hit[t].step = "sending"
    /\ hit' = [hit EXCEPT ![t] = Rest]
    /\ LET h == hit[t]
       IN  \/ /\ SendsToMarket(IF h.type = "AJ" THEN QuoteResponse(h.quote, "Hit", h.order) ELSE NewOrder(h.quote, h.order))
              /\ UNCHANGED << rfqs, toClient >>
           \/ /\ Loses
              /\ IF h.type = "AJ" THEN Writes("client", h.at, h.was) ELSE UNCHANGED rfqs
    /\ UNCHANGED << stream, orders, sweep, past, minted >>

\* counter_quote and pass_quote: row and message with nothing between; a send
\* that fails puts the row back.
Respond(q) ==
    /\ LET i == ByQuote("client", q)
           row == rfqs["client"][i]
       IN  /\ i # 0 /\ row.status \in LIVE_QUOTE
           /\ \E n \in UpTo("resp") : Mints("resp", n)
           /\ \/ /\ Writes("client", i, [row EXCEPT !.status = "Countered", !.slot = "Counter"])
                 /\ SendsToMarket(QuoteResponse(q, "Counter", 0)) /\ UNCHANGED toClient
              \/ /\ Writes("client", i, Closed(row, "Passed"))
                 /\ SendsToMarket(QuoteResponse(q, "Pass", 0)) /\ UNCHANGED toClient
              \/ Loses /\ UNCHANGED rfqs
    /\ UNCHANGED << hit, stream, orders, sweep, past >>

Reads(channel, type) == channel # << >> /\ Head(channel).type = type

\* A plausible bug: a requote leaves the counter it answers in the slot.
HandleQuoteOnly ==
    /\ Reads(toClient, "S") /\ toClient' = Tail(toClient)
    /\ LET m == Head(toClient)
           i == FirstOf(ByReq("client", m.req), LiveChain("client"))
           row == rfqs["client"][i]
       IN  IF i = 0 THEN Adds("client", NewRow("quote", m.req, m.quote, "Quoted"))
           ELSE Writes("client", i, [row EXCEPT !.quote = m.quote,
                                                !.status = IF @ \in FINAL_RFQ THEN @ ELSE "Quoted"])
    /\ UNCHANGED << toMarket, hit, stream, orders, sweep, past, minted, clean >>

\* _handle_quote: the answer to the RFQ it names, else the next of the quotes
\* standing on the instrument, else a row of its own.  A finished negotiation
\* has the quote recorded and stays finished.
HandleQuote ==
    /\ Reads(toClient, "S") /\ toClient' = Tail(toClient)
    /\ LET m == Head(toClient)
           i == FirstOf(ByReq("client", m.req), LiveChain("client"))
           row == rfqs["client"][i]
       IN  IF i = 0 THEN Adds("client", NewRow("quote", m.req, m.quote, "Quoted"))
           ELSE Writes("client", i,
                       [Quoted(row, m.quote) EXCEPT !.status = IF row.status \in FINAL_RFQ THEN row.status ELSE @])
    /\ UNCHANGED << toMarket, hit, stream, orders, sweep, past, minted, clean >>

\* _handle_quote_cancel: the row the quote or the request names, whatever its
\* status; when it names none, every standing quote on the instrument, as for
\* QuoteCancelType(298)=4, which names none.
HandleQuoteCancel ==
    /\ Reads(toClient, "Z") /\ toClient' = Tail(toClient)
    /\ LET m == Head(toClient)
           i == IF m.kind = "All" THEN 0 ELSE FirstOf(ByQuote("client", m.quote), ByReq("client", m.req))
           ended == IF i # 0 THEN {i} ELSE {j \in DOMAIN rfqs["client"] : rfqs["client"][j].status \in LIVE_QUOTE}
       IN  rfqs' = [rfqs EXCEPT !["client"] =
                       [j \in DOMAIN @ |-> IF j \in ended THEN Closed(@[j], "Canceled") ELSE @[j]]]
    /\ UNCHANGED << toMarket, hit, stream, orders, sweep, past, minted, clean >>

\* _handle_quote_request_reject.
HandleQuoteRequestReject ==
    /\ Reads(toClient, "AG") /\ toClient' = Tail(toClient)
    /\ LET i == ByReq("client", Head(toClient).req)
       IN  IF i = 0 THEN UNCHANGED rfqs ELSE Writes("client", i, Closed(rfqs["client"][i], "Rejected"))
    /\ UNCHANGED << toMarket, hit, stream, orders, sweep, past, minted, clean >>

\* _handle_quote_status_report: one that ends the quote (kind) ends it here, if
\* it has not ended, leaving a counter in its slot.
HandleQuoteStatusReport ==
    /\ Reads(toClient, "AI") /\ toClient' = Tail(toClient)
    /\ LET m == Head(toClient)
           i == FirstOf(ByQuote("client", m.quote), ByReq("client", m.req))
       IN  IF i # 0 /\ rfqs["client"][i].status \in LIVE_QUOTE \cup {"Open"}
           THEN Writes("client", i, [rfqs["client"][i] EXCEPT !.status = m.kind])
           ELSE UNCHANGED rfqs
    /\ UNCHANGED << toMarket, hit, stream, orders, sweep, past, minted, clean >>

-----------------------------------------------------------------------------
(* The market: received RFQs, sent quotes. *)

\* What a market action does with its row and message: _market_action sends
\* when the lock is released, and a send that fails leaves the row written.
Answers(i, row, m) ==
    /\ ~Streaming
    /\ Writes("market", i, row)
    /\ \/ SendsToClient(m) /\ UNCHANGED toMarket
       \/ Loses

\* A plausible bug: a finished row is quoted again.
QuoteAnyRow(i, n) ==
    /\ Mints("quote", n)
    /\ Answers(i, Quoted(rfqs["market"][i], n), Quote(rfqs["market"][i].req, n))

\* quote_rfq and requote: a row that is not finished gets a new quote.
QuoteRow(i, n) ==
    LET row == rfqs["market"][i]
    IN  /\ row.status \notin FINAL_RFQ
        /\ Mints("quote", n)
        /\ Answers(i, Quoted(row, n), Quote(row.req, n))

QuoteRfq ==
    /\ \E r \in UpTo("rfq"), n \in UpTo("quote") : ByReq("market", r) # 0 /\ QuoteRow(ByReq("market", r), n)
    /\ UNCHANGED << hit, stream, orders, sweep, past >>

Requote ==
    /\ \E q, n \in UpTo("quote") : ByQuote("market", q) # 0 /\ QuoteRow(ByQuote("market", q), n)
    /\ UNCHANGED << hit, stream, orders, sweep, past >>

\* send_quote up to the release of the lock: the standing unsolicited quote is
\* replaced on its row, or a row is opened.  A hit of the quote it replaces may
\* still come before the quote has left, and names a quote of no row any more.
SendQuote ==
    /\ ~Streaming
    /\ \E n \in UpTo("quote") :
          /\ Mints("quote", n)
          /\ LET i == LiveChain("market")
                 fresh == NewRow("quote", 0, n, "Quoted")
             IN  IF i = 0
                 THEN /\ Adds("market", fresh)
                      /\ stream' = [step |-> "sending", quote |-> n, at |-> Len(rfqs["market"]) + 1,
                                    back |-> [fresh EXCEPT !.status = "Failed"]]
                 ELSE /\ Writes("market", i, Quoted(rfqs["market"][i], n))
                      /\ stream' = [step |-> "sending", quote |-> n, at |-> i, back |-> rfqs["market"][i]]
    /\ clean' = (clean /\ toMarket = << >> /\ ~MidHit)
    /\ UNCHANGED << toMarket, toClient, hit, orders, sweep, past >>

\* The rest of it: the row read back, the message.  A send that fails puts the
\* replaced quote back as it was loaded, or marks the new row Failed.
StreamQuote ==
    /\ Streaming /\ stream' = Rest
    /\ \/ UNCHANGED << rfqs, toMarket >> /\ SendsToClient(Quote(0, stream.quote))
       \/ Loses /\ Writes("market", stream.at, stream.back)
    /\ UNCHANGED << hit, orders, sweep, past, minted >>

RejectRfq ==
    /\ \E r \in UpTo("rfq") :
          LET i == ByReq("market", r)
          IN  /\ i # 0 /\ rfqs["market"][i].status \notin FINAL_RFQ
              /\ Answers(i, Closed(rfqs["market"][i], "Rejected"), QuoteRequestReject(r))
    /\ UNCHANGED << hit, stream, orders, sweep, past, minted >>

CancelQuote ==
    /\ \E q \in UpTo("quote") :
          LET i == ByQuote("market", q)
              row == rfqs["market"][i]
          IN  /\ i # 0 /\ row.status \in LIVE_QUOTE
              /\ Answers(i, Closed(row, "Canceled"), QuoteCancel(row.req, q, ""))
    /\ UNCHANGED << hit, stream, orders, sweep, past, minted >>

\* _handle_quote_request.
HandleQuoteRequest ==
    /\ Reads(toMarket, "R") /\ toMarket' = Tail(toMarket)
    /\ Adds("market", NewRow("rfq", Head(toMarket).req, 0, "Open"))
    /\ UNCHANGED << toClient, hit, stream, orders, sweep, past, minted, clean >>

Order(m) == [id |-> m.order, quote |-> m.quote, by |-> m.type]

\* _handle_quote_response: the row of the quote it names, whatever its status.
\* A counter parks, a hit is an order, and one that names no quote of ours is
\* only recorded.
HandleQuoteResponse ==
    /\ Reads(toMarket, "AJ") /\ toMarket' = Tail(toMarket)
    /\ LET m == Head(toMarket)
           i == ByQuote("market", m.quote)
           row == rfqs["market"][i]
       IN  IF i = 0 THEN UNCHANGED << rfqs, orders >>
           ELSE /\ Writes("market", i,
                       CASE m.kind = "Counter" -> [row EXCEPT !.status = "Countered", !.slot = "Counter"]
                         [] m.kind = "Hit" -> Taken(row, m.order)
                         [] OTHER -> Closed(row, "Passed"))
                /\ orders' = IF m.kind = "Hit" THEN Append(orders, Order(m)) ELSE orders
    /\ UNCHANGED << toClient, hit, stream, sweep, past, minted, clean >>

\* _handle_new_order of an order naming a quote: an order in any case, and the
\* quote's row Hit when it still is that quote's (_link_quote_order).
HandleNewOrder ==
    /\ Reads(toMarket, "D") /\ toMarket' = Tail(toMarket)
    /\ LET m == Head(toMarket)
           i == ByQuote("market", m.quote)
       IN  /\ orders' = Append(orders, Order(m))
           /\ IF i = 0 THEN UNCHANGED rfqs ELSE Writes("market", i, Taken(rfqs["market"][i], m.order))
    /\ UNCHANGED << toClient, hit, stream, sweep, past, minted, clean >>

\* What a market that is not this engine may say besides: a QuoteStatusReport
\* of a quote of its own, a QuoteCancel of all.
SayForeign ==
    /\ trouble = "foreign" /\ clean /\ clean' = FALSE /\ ~Streaming
    /\ \E q \in 1 .. minted.quote :
          \/ toClient' = Append(toClient, QuoteStatusReport(q, "Canceled"))
          \/ toClient' = Append(toClient, QuoteStatusReport(q, "Expired"))
          \/ toClient' = Append(toClient, QuoteCancel(0, 0, "All"))
    /\ UNCHANGED << rfqs, toMarket, hit, stream, orders, sweep, past, minted >>

-----------------------------------------------------------------------------
(* Time and the expiry timers. *)

TimePasses ==
    /\ trouble = "clock"
    /\ \E q \in 1 .. minted.quote : q \notin past /\ past' = past \cup {q}
    /\ UNCHANGED << rfqs, toMarket, toClient, hit, stream, orders, sweep, minted, clean >>

Overdue(row) == row.status \in LIVE_QUOTE /\ row.quote \in past

\* A plausible bug: the sweep reads the answers to RFQs, not the streamed quotes.
SweepRfqs(s) ==
    LET due == {j \in DOMAIN rfqs[s] : rfqs[s][j].origin = "rfq" /\ Overdue(rfqs[s][j])}
    IN  /\ sweep[s] = {} /\ due # {}
        /\ sweep' = [sweep EXCEPT ![s] = {<< i, rfqs[s][i].quote >> : i \in due}]
        /\ UNCHANGED << rfqs, toMarket, toClient, hit, stream, orders, past, minted, clean >>

\* expire_due_quotes, its reading: no lock, every standing quote whose time
\* has passed.  The timer sleeps a minute at most before the next.
Sweep(s) ==
    /\ sweep[s] = {}
    /\ \E i \in DOMAIN rfqs[s] : Overdue(rfqs[s][i])
    /\ sweep' = [sweep EXCEPT ![s] = {<< i, rfqs[s][i].quote >> : i \in {j \in DOMAIN rfqs[s] : Overdue(rfqs[s][j])}}]
    /\ UNCHANGED << rfqs, toMarket, toClient, hit, stream, orders, past, minted, clean >>

\* A plausible bug: the row as it was read is expired, without a second look.
ExpireAsRead(s) ==
    \E d \in sweep[s] :
        /\ sweep' = [sweep EXCEPT ![s] = @ \ {d}]
        /\ Writes(s, d[1], Closed(rfqs[s][d[1]], "Expired"))
        /\ UNCHANGED << toMarket, toClient, hit, stream, orders, past, minted, clean >>

\* Its writing, a row at a time under the lock: the row is read again, and
\* left alone when the quote has ended or is another one.
Expire(s) ==
    \E d \in sweep[s] :
        LET row == rfqs[s][d[1]]
        IN  /\ sweep' = [sweep EXCEPT ![s] = @ \ {d}]
            /\ IF row.status \in LIVE_QUOTE /\ row.quote = d[2]
               THEN Writes(s, d[1], Closed(row, "Expired")) ELSE UNCHANGED rfqs
            /\ UNCHANGED << toMarket, toClient, hit, stream, orders, past, minted, clean >>

-----------------------------------------------------------------------------
Moves ==
    \/ SendRfq
    \/ \E t \in Takers, q \in UpTo("quote") : HitQuote(t, q)
    \/ \E t \in Takers, q \in UpTo("quote") : OrderQuote(t, q)
    \/ \E t \in Takers : SendHit(t)
    \/ \E q \in UpTo("quote") : Respond(q)
    \/ HandleQuote \/ HandleQuoteCancel \/ HandleQuoteRequestReject \/ HandleQuoteStatusReport
    \/ QuoteRfq \/ Requote \/ SendQuote \/ StreamQuote \/ RejectRfq \/ CancelQuote
    \/ HandleQuoteRequest \/ HandleQuoteResponse \/ HandleNewOrder \/ SayForeign
    \/ TimePasses
    \/ \E s \in Sides : Sweep(s)
    \/ \E s \in Sides : Expire(s)

Next == Moves /\ UNCHANGED trouble

\* The timer task runs on: a sweep follows the last within a minute.
Fairness == \A s \in Sides : WF_changing(Sweep(s)) /\ WF_changing(Expire(s))

Spec == Init /\ [][Next]_vars /\ Fairness

-----------------------------------------------------------------------------
Quiet == toMarket = << >> /\ toClient = << >> /\ ~MidHit /\ ~Streaming

\* A side's negotiations that are open, quoted, taken, passed or refused: those
\* that the clock has ended or is about to, and those canceled, may begin again
\* on another row of the other side.
Standing(s) == {r \in Range(rfqs[s]) : r.status \notin {"Expired", "Canceled"} /\ ~Overdue(r)}

\* Once all is said, if none failed and no message crossed another or came to the
\* market while the row of a quote told it what the client had yet to hear, both sides
\* have the same negotiations, each with the same quote, status, counter and
\* order; what the clock ended, each side ends for itself.
SidesAgree == Quiet /\ clean => Standing("client") = Standing("market")

\* The trade stands: nothing undoes a quote the market's row says was taken.
HitStays ==
    [][\A i \in DOMAIN rfqs["market"] :
          rfqs["market"][i].status = "Hit" => rfqs'["market"][i].status = "Hit"]_rfqs

\* Only what is past expires: the timer never ends a quote written since it looked.
ExpiredIsPast ==
    [][\A s \in Sides : \A i \in DOMAIN rfqs[s] :
          rfqs'[s][i].status = "Expired" /\ rfqs[s][i].status # "Expired" /\ trouble # "foreign" => rfqs[s][i].quote \in past]_rfqs

\* A quote whose time has passed does not stand for ever: again and again, neither
\* side has any.
OverdueEnds == []<>(\A s \in Sides : \A i \in DOMAIN rfqs[s] : ~Overdue(rfqs[s][i]))

=============================================================================
