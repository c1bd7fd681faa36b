---------------------------- MODULE QuotesProofs ----------------------------
(***************************************************************************)
(* What holds of quotes for any takers, troubles and bounds: a trade is not  *)
(* undone on the market's row, and the timers end what is past only.         *)
(*                                                                         *)
(* The market writes a response on the row of the quote it names, whatever   *)
(* that row's status.  So a trade stands because of what the client sends:   *)
(* no counter and no pass of a quote follows what takes it.                  *)
(***************************************************************************)
EXTENDS Quotes, SequenceTheorems, WellFoundedInduction, TLAPS

\* A hit that fails puts the row back as it was read.  Of two takers of a quote the
\* one may so undo what the other did; one taker is never in that place.
NobodyUndoes == "failing" \notin Troubles \/ \A t, u \in Takers : t = u

Statuses == LIVE_QUOTE \cup FINAL_RFQ \cup {"Open", "Canceled", "Expired"}
Rows == [origin : {"rfq", "quote"}, req : Nat, quote : Nat, status : Statuses, slot : {"", "Counter"}, order : Nat]
ToMarket == [type : {"R", "AJ", "D"}, req : Nat, quote : Nat, kind : {"", "Hit", "Counter", "Pass"}, order : Nat]
ToClient == [type : {"S", "Z", "AG", "AI"}, req : Nat, quote : Nat, kind : {"", "All", "Canceled", "Expired"}, order : {0}]
Hits == [step : {"sending"}, at : Nat, was : Rows, quote : Nat, order : Nat, type : {"AJ", "D"}]
Orders == [id : Nat, quote : Nat, by : {"AJ", "D"}]
Streams == [step : {"sending"}, quote : Nat, at : Nat, back : Rows]

TypeOK ==
    /\ trouble \in Troubles /\ clean \in BOOLEAN
    /\ rfqs \in [Sides -> Seq(Rows)]
    /\ toMarket \in Seq(ToMarket) /\ toClient \in Seq(ToClient)
    /\ hit \in [Takers -> {Rest} \cup Hits] /\ stream \in {Rest} \cup Streams
    /\ orders \in Seq(Orders)
    /\ sweep \in [Sides -> SUBSET (Nat \X Nat)] /\ past \subseteq Nat
    /\ minted \in [{"rfq", "quote", "order", "resp"} -> Nat]

Client == rfqs["client"]
Market == rfqs["market"]

Stands(row) == row.status \in LIVE_QUOTE
Takes(m) == m.type = "D" \/ (m.type = "AJ" /\ m.kind = "Hit")
Declines(m) == m.type = "AJ" /\ m.kind # "Hit"
Sending(t) == hit[t].step = "sending"

\* The row a quote to be sent is on, and what it is put back to.
StreamPlaced == Streaming => stream.at \in DOMAIN Market /\ stream.back.status \notin {"Hit", "Expired"}

\* What is kept where: on the rows, of a hit and a quote to be sent, of the messages.
PlacesOK ==
    /\ StreamPlaced
    /\ \A t \in Takers : Sending(t) => /\ hit[t].at \in DOMAIN Client /\ hit[t].quote # 0
                                       /\ hit[t].was.quote = hit[t].quote
                                       /\ hit[t].type = "AJ" => Stands(hit[t].was)
    /\ \A k \in DOMAIN toClient : toClient[k].type = "AI" =>
          trouble = "foreign" /\ toClient[k].kind \in {"Canceled", "Expired"}
    /\ \A s \in Sides : \A d \in sweep[s] : d[1] \in DOMAIN rfqs[s] /\ d[2] \in past

\* The market has it that the quote is taken; it will when it reads what is under way.
TakenAtMarket(q) == \E i \in DOMAIN Market : Market[i].status = "Hit" /\ Market[i].quote = q
TakenUnderWay(q) == \E k \in DOMAIN toMarket : Takes(toMarket[k]) /\ toMarket[k].quote = q
BeingTaken(q) == \E t \in Takers : Sending(t) /\ hit[t].quote = q

\* The client knows the quote, or did.
Known(q) ==
    \/ \E i \in DOMAIN Client : Client[i].quote = q
    \/ BeingTaken(q) \/ TakenAtMarket(q)
    \/ \E k \in DOMAIN toMarket : toMarket[k].quote = q

IsQuote(k) == k \in DOMAIN toClient /\ toClient[k].type = "S"
Coming(q) == \E k \in DOMAIN toClient : IsQuote(k) /\ toClient[k].quote = q
IsNew(q) == Coming(q) \/ q > minted.quote \/ (Streaming /\ q = stream.quote)

\* The client hears of each quote once; one to be sent has not gone before.
NewsOK ==
    /\ \A q \in Nat : IsNew(q) => q # 0 /\ ~Known(q)
    /\ \A k, l \in DOMAIN toClient : IsQuote(k) /\ IsQuote(l) /\ k # l => toClient[k].quote # toClient[l].quote
    /\ \A k \in DOMAIN toClient : IsQuote(k) => toClient[k].quote <= minted.quote
    /\ Streaming => stream.quote <= minted.quote /\ ~Coming(stream.quote)

\* The row of a quote to be sent is that quote's, which nobody can have taken.
StreamOK == Streaming => Market[stream.at].quote = stream.quote /\ Market[stream.at].status # "Hit"

\* A quote is on one of the client's rows.
OneRow == \A i, j \in DOMAIN Client : i # j /\ Client[i].quote = Client[j].quote => Client[i].quote = 0

\* A quote that stands at the client is not taken, nor is anyone taking it.
StandsUntaken ==
    \A i \in DOMAIN Client : Stands(Client[i]) =>
        LET q == Client[i].quote IN ~TakenAtMarket(q) /\ ~TakenUnderWay(q) /\ ~BeingTaken(q)

\* Nor is one that may come to stand again since the hit may fail.
UndoneUntaken ==
    \A t \in Takers : trouble = "failing" /\ Sending(t) /\ hit[t].type = "AJ" =>
        /\ ~TakenAtMarket(hit[t].quote) /\ ~TakenUnderWay(hit[t].quote)
        /\ \A j \in DOMAIN Client : j # hit[t].at => Client[j].quote # hit[t].quote

\* No counter or pass follows what takes the quote.
DeclinedUntaken ==
    \A k \in DOMAIN toMarket : Declines(toMarket[k]) =>
        /\ ~TakenAtMarket(toMarket[k].quote)
        /\ \A j \in 1 .. k - 1 : ~(Takes(toMarket[j]) /\ toMarket[j].quote = toMarket[k].quote)

QuotesInv == NewsOK /\ StreamOK /\ OneRow /\ StandsUntaken /\ UndoneUntaken /\ DeclinedUntaken

IInv == TypeOK /\ PlacesOK /\ (NobodyUndoes => QuotesInv)

-----------------------------------------------------------------------------
(* Sequences: the last place, a message more, a message less.               *)

\* Every set of numbers that is not empty has a least one.
LEMMA LeastOf ==
  ASSUME NEW T, T \subseteq Nat, T # {}
  PROVE  \E x \in T : \A y \in T : x <= y
<1>1. PICK x \in T : \A y \in T : ~ (<< y, x >> \in OpToRel(<, Nat))
  BY NatLessThanWellFounded, WFMin, Zenon
<1>2. ASSUME NEW y \in T PROVE x <= y
  <2>1. ~ (y < x)
    BY <1>1, Zenon DEF OpToRel
  <2> QED BY <2>1
<1> QED BY <1>2

\* Places in a sequence that are not none have a last one.
LEMMA LastOf ==
  ASSUME NEW N \in Nat, NEW T, T \subseteq 1 .. N, T # {}
  PROVE  Max(T) \in T
<1> DEFINE U == {N - n : n \in T}
<1>1. \E u \in U : \A v \in U : u <= v
  <2>1. \A n \in 1 .. N : N - n \in Nat
    OBVIOUS
  <2>2. U \subseteq Nat /\ U # {}
    BY <2>1
  <2> HIDE DEF U
  <2> QED
    BY <2>2, LeastOf
<1>2. PICK x \in T : \A v \in U : N - x <= v
  BY <1>1
<1>3. \A y \in T : x >= y
  <2> TAKE y \in T
  <2>1. N - y \in U
    OBVIOUS
  <2>2. N - x <= N - y /\ x \in Int /\ y \in Int
    BY <1>2, <2>1
  <2> QED
    BY <2>2
<1>4. Max(T) \in T /\ \A y \in T : Max(T) >= y
  BY <1>3, Zenon DEF Max
<1> QED
  BY <1>4

\* The row that the code finds by a quote has that quote.
LEMMA ByQuoteIs ==
  ASSUME TypeOK, NEW s \in Sides, NEW q \in Nat, ByQuote(s, q) # 0
  PROVE  /\ q # 0 /\ ByQuote(s, q) \in DOMAIN rfqs[s]
         /\ rfqs[s][ByQuote(s, q)] \in Rows /\ rfqs[s][ByQuote(s, q)].quote = q
<1> DEFINE I == {i \in 1 .. Len(rfqs[s]) : rfqs[s][i].quote = q}
<1>1. q # 0 /\ ByQuote(s, q) = IF I # {} THEN Max(I) ELSE 0
  BY DEF ByQuote, SelectLastInSeq
<1>2. rfqs[s] \in Seq(Rows) /\ Len(rfqs[s]) \in Nat /\ DOMAIN rfqs[s] = 1 .. Len(rfqs[s])
  BY DEF TypeOK
<1>3. I # {} => Max(I) \in I
  <2> HIDE DEF I
  <2> SUFFICES ASSUME I # {} PROVE Max(I) \in I
    OBVIOUS
  <2>1. I \subseteq 1 .. Len(rfqs[s])
    BY DEF I
  <2> QED
    BY <1>2, <2>1, LastOf
<1> DEFINE x == ByQuote(s, q)
<1>4. x \in I
  BY <1>1, <1>3
<1>5. x \in DOMAIN rfqs[s] /\ rfqs[s][x] \in Rows /\ rfqs[s][x].quote = q
  <2> HIDE DEF x
  <2> QED
    BY <1>2, <1>4
<1> QED
  BY <1>1, <1>5

LEMMA ByReqIs ==
  ASSUME TypeOK, NEW s \in Sides, NEW n, ByReq(s, n) # 0
  PROVE  /\ ByReq(s, n) \in DOMAIN rfqs[s] /\ rfqs[s][ByReq(s, n)] \in Rows
<1> DEFINE I == {i \in 1 .. Len(rfqs[s]) : rfqs[s][i].req = n}
<1>1. ByReq(s, n) = IF I # {} THEN Max(I) ELSE 0
  BY DEF ByReq, SelectLastInSeq
<1>2. rfqs[s] \in Seq(Rows) /\ Len(rfqs[s]) \in Nat /\ DOMAIN rfqs[s] = 1 .. Len(rfqs[s])
  BY DEF TypeOK
<1>3. I # {} => Max(I) \in I
  <2> HIDE DEF I
  <2> SUFFICES ASSUME I # {} PROVE Max(I) \in I
    OBVIOUS
  <2>1. I \subseteq 1 .. Len(rfqs[s])
    BY DEF I
  <2> QED
    BY <1>2, <2>1, LastOf
<1>4. ByReq(s, n) \in I
  BY <1>1, <1>3
<1> QED
  BY <1>2, <1>4

LEMMA LiveChainIs ==
  ASSUME TypeOK, NEW s \in Sides, LiveChain(s) # 0
  PROVE  /\ LiveChain(s) \in DOMAIN rfqs[s] /\ rfqs[s][LiveChain(s)] \in Rows
         /\ Stands(rfqs[s][LiveChain(s)])
<1> DEFINE I == {i \in 1 .. Len(rfqs[s]) : rfqs[s][i].origin = "quote" /\ rfqs[s][i].status \in LIVE_QUOTE}
<1>1. LiveChain(s) = IF I # {} THEN Max(I) ELSE 0
  BY DEF LiveChain, SelectLastInSeq
<1>2. rfqs[s] \in Seq(Rows) /\ Len(rfqs[s]) \in Nat /\ DOMAIN rfqs[s] = 1 .. Len(rfqs[s])
  BY DEF TypeOK
<1>3. I # {} => Max(I) \in I
  <2> HIDE DEF I
  <2> SUFFICES ASSUME I # {} PROVE Max(I) \in I
    OBVIOUS
  <2>1. I \subseteq 1 .. Len(rfqs[s])
    BY DEF I
  <2> QED
    BY <1>2, <2>1, LastOf
<1>4. LiveChain(s) \in I
  BY <1>1, <1>3
<1> QED
  BY <1>2, <1>4 DEF Stands

LEMMA AppendIs ==
  ASSUME NEW S, NEW q \in Seq(S), NEW m \in S
  PROVE  /\ Append(q, m) \in Seq(S) /\ Len(q) \in Nat /\ Len(Append(q, m)) = Len(q) + 1
         /\ DOMAIN q = 1 .. Len(q) /\ DOMAIN Append(q, m) = 1 .. Len(q) + 1
         /\ \A k \in DOMAIN q : Append(q, m)[k] = q[k]
         /\ Append(q, m)[Len(q) + 1] = m
  OBVIOUS

LEMMA TailIs ==
  ASSUME NEW S, NEW q \in Seq(S), q # << >>
  PROVE  /\ Tail(q) \in Seq(S) /\ Len(q) \in Nat /\ DOMAIN q = 1 .. Len(q)
         /\ 1 \in DOMAIN q /\ Head(q) = q[1] /\ Head(q) \in S
         /\ DOMAIN Tail(q) = 1 .. Len(q) - 1
         /\ \A k \in DOMAIN Tail(q) : k + 1 \in DOMAIN q /\ Tail(q)[k] = q[k + 1]
  OBVIOUS

-----------------------------------------------------------------------------
(* Rows.                                                                    *)

\* What a step may do to the rows: none is dropped and nothing expires early; no trade is undone.
HitsStand == \A i \in DOMAIN Market : Market[i].status = "Hit" => Market'[i].status = "Hit"
Timely ==
    \A s \in Sides : \A i \in DOMAIN rfqs[s] :
        rfqs'[s][i].status = "Expired" /\ rfqs[s][i].status # "Expired" /\ trouble # "foreign" => rfqs[s][i].quote \in past
RowsGrow ==
    /\ rfqs' \in [Sides -> Seq(Rows)] /\ \A s \in Sides : DOMAIN rfqs[s] \subseteq DOMAIN rfqs'[s]
    /\ Timely

\* What it may do to the client's without any care: no quote appears or stands anew.
TameRows ==
    \A i \in DOMAIN Client' :
        \/ Client'[i].quote = 0 /\ ~Stands(Client'[i])
        \/ /\ i \in DOMAIN Client /\ Client'[i].quote = Client[i].quote
           /\ Stands(Client'[i]) => Stands(Client[i])

\* And to the market's: none becomes Hit, none that is Hit changes that, and none changes
\* its quote before a quote that waits to be sent is.
TameMarket ==
    /\ HitsStand
    /\ Streaming' => \A i \in DOMAIN Market : Market'[i].quote = Market[i].quote
    /\ \A i \in DOMAIN Market' : Market'[i].status = "Hit" =>
          i \in DOMAIN Market /\ Market[i].status = "Hit" /\ Market'[i].quote = Market[i].quote

LEMMA ClosedIs ==
  ASSUME NEW row \in Rows, NEW status \in Statuses
  PROVE  /\ Closed(row, status) \in Rows
         /\ Closed(row, status).status = status /\ Closed(row, status).quote = row.quote
  BY DEF Closed, Rows

LEMMA TakenIs ==
  ASSUME NEW row \in Rows, NEW o \in Nat
  PROVE  /\ Taken(row, o) \in Rows
         /\ Taken(row, o).status = "Hit" /\ Taken(row, o).quote = row.quote
<1>1. "Hit" \in Statuses
  BY DEF Statuses, FINAL_RFQ
<1> DEFINE x == Closed(row, "Hit")
<1>2. x \in Rows /\ x.status = "Hit" /\ x.quote = row.quote
  BY <1>1, ClosedIs
<1>3. Taken(row, o) = [x EXCEPT !.order = o]
  BY DEF Taken
<1> HIDE DEF x
<1> QED
  BY <1>2, <1>3 DEF Rows

LEMMA QuotedIs ==
  ASSUME NEW row \in Rows, NEW q \in Nat
  PROVE  /\ Quoted(row, q) \in Rows
         /\ Quoted(row, q).status = "Quoted" /\ Quoted(row, q).quote = q
<1>1. "Quoted" \in Statuses
  BY DEF Statuses, LIVE_QUOTE
<1> DEFINE x == Closed(row, "Quoted")
<1>2. x \in Rows /\ x.status = "Quoted"
  BY <1>1, ClosedIs
<1>3. Quoted(row, q) = [x EXCEPT !.quote = q]
  BY DEF Quoted
<1> HIDE DEF x
<1> QED
  BY <1>2, <1>3 DEF Rows

LEMMA NewRowIs ==
  ASSUME NEW origin \in {"rfq", "quote"}, NEW req \in Nat, NEW q \in Nat, NEW status \in Statuses
  PROVE  /\ NewRow(origin, req, q, status) \in Rows
         /\ NewRow(origin, req, q, status).status = status /\ NewRow(origin, req, q, status).quote = q
  BY DEF NewRow, Rows

LEMMA WritesIs ==
  ASSUME TypeOK, NEW s \in Sides, NEW i \in DOMAIN rfqs[s], NEW row \in Rows, Writes(s, i, row)
  PROVE  /\ rfqs' \in [Sides -> Seq(Rows)]
         /\ \A u \in Sides : DOMAIN rfqs'[u] = DOMAIN rfqs[u] /\ (u # s => rfqs'[u] = rfqs[u])
         /\ rfqs'[s][i] = row /\ \A j \in DOMAIN rfqs[s] : j # i => rfqs'[s][j] = rfqs[s][j]
<1>1. rfqs[s] \in Seq(Rows) /\ rfqs \in [Sides -> Seq(Rows)]
  BY DEF TypeOK
<1> DEFINE new == [rfqs[s] EXCEPT ![i] = row]
<1>2. rfqs' = [rfqs EXCEPT ![s] = new]
  BY DEF Writes
<1>3. /\ new \in Seq(Rows) /\ DOMAIN new = DOMAIN rfqs[s] /\ new[i] = row
      /\ \A j \in DOMAIN rfqs[s] : j # i => new[j] = rfqs[s][j]
  BY <1>1
<1> HIDE DEF new
<1> QED
  BY <1>1, <1>2, <1>3

LEMMA AddsIs ==
  ASSUME TypeOK, NEW s \in Sides, NEW row \in Rows, Adds(s, row)
  PROVE  /\ rfqs' \in [Sides -> Seq(Rows)]
         /\ \A u \in Sides : u # s => rfqs'[u] = rfqs[u]
         /\ Len(rfqs[s]) + 1 \notin DOMAIN rfqs[s]
         /\ DOMAIN rfqs'[s] = DOMAIN rfqs[s] \cup {Len(rfqs[s]) + 1} /\ rfqs'[s][Len(rfqs[s]) + 1] = row
         /\ \A j \in DOMAIN rfqs[s] : rfqs'[s][j] = rfqs[s][j]
<1>1. rfqs[s] \in Seq(Rows) /\ rfqs \in [Sides -> Seq(Rows)]
  BY DEF TypeOK
<1> DEFINE new == Append(rfqs[s], row)
<1>2. rfqs' = [rfqs EXCEPT ![s] = new]
  BY DEF Adds
<1>3. /\ new \in Seq(Rows) /\ DOMAIN new = 1 .. Len(rfqs[s]) + 1 /\ Len(rfqs[s]) \in Nat
      /\ DOMAIN rfqs[s] = 1 .. Len(rfqs[s])
      /\ new[Len(rfqs[s]) + 1] = row /\ \A j \in DOMAIN rfqs[s] : new[j] = rfqs[s][j]
  BY <1>1, AppendIs
<1> HIDE DEF new
<1> QED
  BY <1>1, <1>2, <1>3

LEMMA RowsStay ==
  ASSUME TypeOK, rfqs' = rfqs
  PROVE  RowsGrow /\ TameRows /\ TameMarket
  BY DEF TypeOK, RowsGrow, TameRows, TameMarket, HitsStand, Timely, Client, Market, Stands

\* A row of the client's that keeps its quote, and stands only if it stood.
LEMMA ClientWrites ==
  ASSUME TypeOK, NEW i \in DOMAIN Client, NEW row \in Rows, Writes("client", i, row),
         row.quote = Client[i].quote, Stands(row) => Stands(Client[i]),
         row.status = "Expired" => trouble = "foreign" \/ Client[i].quote \in past
  PROVE  RowsGrow /\ TameRows /\ TameMarket
<1>1. "client" \in Sides /\ "market" \in Sides /\ Sides = {"client", "market"} /\ i \in DOMAIN rfqs["client"]
  BY DEF Sides, Client
<1>2. /\ rfqs' \in [Sides -> Seq(Rows)]
      /\ \A u \in Sides : DOMAIN rfqs'[u] = DOMAIN rfqs[u]
      /\ Market' = Market /\ Client'[i] = row /\ DOMAIN Client' = DOMAIN Client
      /\ \A j \in DOMAIN Client : j # i => Client'[j] = Client[j]
  BY <1>1, WritesIs DEF Client, Market
<1>3. TameMarket
  BY <1>2 DEF TameMarket, HitsStand
<1>4. TameRows
  BY <1>2 DEF TameRows, Stands
<1>5. Timely
  BY <1>1, <1>2 DEF Timely, Client, Market
<1> QED
  BY <1>2, <1>3, <1>4, <1>5 DEF RowsGrow

LEMMA ClientAdds ==
  ASSUME TypeOK, NEW row \in Rows, Adds("client", row), row.quote = 0, ~Stands(row)
  PROVE  RowsGrow /\ TameRows /\ TameMarket
<1>1. "client" \in Sides /\ "market" \in Sides /\ Sides = {"client", "market"}
  BY DEF Sides
<1>2. /\ rfqs' \in [Sides -> Seq(Rows)]
      /\ Market' = Market /\ DOMAIN Client' = DOMAIN Client \cup {Len(Client) + 1} /\ Client'[Len(Client) + 1] = row
      /\ \A j \in DOMAIN Client : Client'[j] = Client[j]
  BY <1>1, AddsIs DEF Client, Market
<1>3. TameMarket
  BY <1>2 DEF TameMarket, HitsStand
<1>4. TameRows
  BY <1>2 DEF TameRows, Stands
<1>5. Timely /\ \A s \in Sides : DOMAIN rfqs[s] \subseteq DOMAIN rfqs'[s]
  BY <1>1, <1>2 DEF Timely, Client, Market
<1> QED
  BY <1>2, <1>3, <1>4, <1>5 DEF RowsGrow

\* A row of the market's that is not Hit, before and after.
LEMMA MarketWrites ==
  ASSUME TypeOK, NEW i \in DOMAIN Market, NEW row \in Rows, Writes("market", i, row),
         Market[i].status # "Hit", row.status # "Hit", row.quote # Market[i].quote => ~Streaming',
         row.status = "Expired" => Market[i].quote \in past
  PROVE  RowsGrow /\ TameRows /\ TameMarket
<1>1. "client" \in Sides /\ "market" \in Sides /\ Sides = {"client", "market"} /\ i \in DOMAIN rfqs["market"]
  BY DEF Sides, Market
<1>2. /\ rfqs' \in [Sides -> Seq(Rows)]
      /\ \A u \in Sides : DOMAIN rfqs'[u] = DOMAIN rfqs[u]
      /\ Client' = Client /\ Market'[i] = row /\ DOMAIN Market' = DOMAIN Market
      /\ \A j \in DOMAIN Market : j # i => Market'[j] = Market[j]
  BY <1>1, WritesIs DEF Client, Market
<1>3. TameMarket
  BY <1>2 DEF TameMarket, HitsStand
<1>4. TameRows
  BY <1>2 DEF TameRows, Stands
<1>5. Timely
  BY <1>1, <1>2 DEF Timely, Client, Market
<1> QED
  BY <1>2, <1>3, <1>4, <1>5 DEF RowsGrow

LEMMA MarketAdds ==
  ASSUME TypeOK, NEW row \in Rows, Adds("market", row), row.status # "Hit"
  PROVE  RowsGrow /\ TameRows /\ TameMarket
<1>1. "client" \in Sides /\ "market" \in Sides /\ Sides = {"client", "market"}
  BY DEF Sides
<1>2. /\ rfqs' \in [Sides -> Seq(Rows)]
      /\ Client' = Client /\ DOMAIN Market' = DOMAIN Market \cup {Len(Market) + 1} /\ Market'[Len(Market) + 1] = row
      /\ \A j \in DOMAIN Market : Market'[j] = Market[j]
  BY <1>1, AddsIs DEF Client, Market
<1>3. TameMarket
  BY <1>2 DEF TameMarket, HitsStand
<1>4. TameRows
  BY <1>2 DEF TameRows, Stands
<1>5. Timely /\ \A s \in Sides : DOMAIN rfqs[s] \subseteq DOMAIN rfqs'[s]
  BY <1>1, <1>2 DEF Timely, Client, Market
<1> QED
  BY <1>2, <1>3, <1>4, <1>5 DEF RowsGrow

-----------------------------------------------------------------------------
(* Messages.                                                                *)

\* What a step may do to the messages to the market without care: one is read, or asked for a quote.
TameTalk ==
    \E d \in {0, 1} : \A k \in DOMAIN toMarket' :
        \/ toMarket'[k].type = "R" /\ toMarket'[k].quote = 0
        \/ k + d \in DOMAIN toMarket /\ toMarket'[k] = toMarket[k + d]

\* And to those to the client: one is read, or one is said, a quote being a new one.
NextQuote(k) ==
    /\ k = Len(toClient) + 1
    /\ \/ toClient'[k].quote = minted.quote + 1 /\ minted'.quote = minted.quote + 1
       \/ Streaming /\ toClient'[k].quote = stream.quote /\ ~Streaming'
TameStream ==
    \/ stream' \in {stream, Rest}
    \/ stream'.quote = minted.quote + 1 /\ minted'.quote = minted.quote + 1 /\ toClient' = toClient
TameNews ==
    TameStream /\ \E d \in {0, 1} : \A k \in DOMAIN toClient' :
        \/ toClient'[k].type # "S"
        \/ k + d \in DOMAIN toClient /\ toClient'[k] = toClient[k + d]
        \/ d = 0 /\ NextQuote(k)

\* The status reports of another engine.
ReportsOK(channel) ==
    \A k \in DOMAIN channel : channel[k].type = "AI" =>
        trouble = "foreign" /\ channel[k].kind \in {"Canceled", "Expired"}

TalkGoes == toMarket' \in Seq(ToMarket) /\ TameTalk
NewsGo == toClient' \in Seq(ToClient) /\ TameNews /\ ReportsOK(toClient')

LEMMA TalkStays == ASSUME TypeOK, toMarket' = toMarket PROVE TalkGoes
<1>1. \A k \in DOMAIN toMarket : k + 0 = k
  BY DEF TypeOK
<1> QED
  BY <1>1 DEF TypeOK, TalkGoes, TameTalk

LEMMA TalkAsks ==
  ASSUME TypeOK, NEW n \in Nat, toMarket' = Append(toMarket, QuoteRequest(n))
  PROVE  TalkGoes
<1> DEFINE m == QuoteRequest(n)
<1>1. m \in ToMarket /\ m.type = "R" /\ m.quote = 0
  BY DEF QuoteRequest, Msg, ToMarket
<1> HIDE DEF m
<1>2. toMarket \in Seq(ToMarket) /\ toMarket' = Append(toMarket, m)
  BY DEF TypeOK, m
<1>3. /\ toMarket' \in Seq(ToMarket) /\ Len(toMarket) \in Nat
      /\ DOMAIN toMarket = 1 .. Len(toMarket) /\ DOMAIN toMarket' = 1 .. Len(toMarket) + 1
      /\ \A k \in DOMAIN toMarket : toMarket'[k] = toMarket[k]
      /\ toMarket'[Len(toMarket) + 1] = m
  BY <1>1, <1>2, AppendIs
<1>4. ASSUME NEW k \in DOMAIN toMarket'
      PROVE  \/ toMarket'[k].type = "R" /\ toMarket'[k].quote = 0
             \/ k + 0 \in DOMAIN toMarket /\ toMarket'[k] = toMarket[k + 0]
  <2>1. CASE k = Len(toMarket) + 1
    BY <1>1, <1>3, <2>1
  <2>2. CASE k # Len(toMarket) + 1
    <3>1. k \in DOMAIN toMarket /\ k + 0 = k
      BY <1>3, <2>2
    <3> QED
      BY <1>3, <3>1
  <2> QED
    BY <2>1, <2>2
<1> QED
  BY <1>3, <1>4 DEF TalkGoes, TameTalk

LEMMA TalkHeard ==
  ASSUME TypeOK, toMarket # << >>, toMarket' = Tail(toMarket)
  PROVE  TalkGoes
<1>1. /\ toMarket' \in Seq(ToMarket)
      /\ \A k \in DOMAIN toMarket' : k + 1 \in DOMAIN toMarket /\ toMarket'[k] = toMarket[k + 1]
  BY TailIs DEF TypeOK
<1> QED
  BY <1>1 DEF TalkGoes, TameTalk

LEMMA NewsStay == ASSUME TypeOK, PlacesOK, toClient' = toClient, stream' = stream PROVE NewsGo
<1>1. \A k \in DOMAIN toClient : k + 0 = k
  BY DEF TypeOK
<1>2. TameNews
  BY <1>1 DEF TameNews, TameStream
<1>3. ReportsOK(toClient')
  BY DEF PlacesOK, ReportsOK
<1> QED
  BY <1>2, <1>3 DEF TypeOK, NewsGo

LEMMA NewsSaid ==
  ASSUME TypeOK, PlacesOK, NEW m \in ToClient, toClient' = Append(toClient, m),
         m.type = "S" => \/ m.quote = minted.quote + 1 /\ minted'.quote = minted.quote + 1
                         \/ Streaming /\ m.quote = stream.quote /\ ~Streaming',
         m.type = "AI" => trouble = "foreign" /\ m.kind \in {"Canceled", "Expired"}, stream' \in {stream, Rest}
  PROVE  NewsGo
<1>1. toClient \in Seq(ToClient)
  BY DEF TypeOK
<1>2. /\ toClient' \in Seq(ToClient) /\ Len(toClient) \in Nat
      /\ DOMAIN toClient = 1 .. Len(toClient) /\ DOMAIN toClient' = 1 .. Len(toClient) + 1
      /\ \A k \in DOMAIN toClient : toClient'[k] = toClient[k]
      /\ toClient'[Len(toClient) + 1] = m
  BY <1>1, AppendIs
<1>3. \A k \in DOMAIN toClient' : k \in DOMAIN toClient \/ k = Len(toClient) + 1
  BY <1>2
<1>4. ASSUME NEW k \in DOMAIN toClient'
      PROVE  \/ toClient'[k].type # "S"
             \/ k + 0 \in DOMAIN toClient /\ toClient'[k] = toClient[k + 0]
             \/ 0 = 0 /\ NextQuote(k)
  <2>1. CASE k = Len(toClient) + 1
    BY <1>2, <2>1 DEF NextQuote
  <2>2. CASE k \in DOMAIN toClient
    <3>1. k + 0 = k
      BY <1>2, <2>2
    <3> QED
      BY <1>2, <2>2, <3>1
  <2> QED
    BY <1>3, <2>1, <2>2
<1>5. ReportsOK(toClient')
  BY <1>2, <1>3 DEF PlacesOK, ReportsOK
<1>6. TameNews
  BY <1>4 DEF TameNews, TameStream
<1> QED
  BY <1>2, <1>5, <1>6 DEF NewsGo

LEMMA NewsHeard ==
  ASSUME TypeOK, PlacesOK, toClient # << >>, toClient' = Tail(toClient), stream' = stream
  PROVE  NewsGo
<1>1. /\ toClient' \in Seq(ToClient)
      /\ \A k \in DOMAIN toClient' : k + 1 \in DOMAIN toClient /\ toClient'[k] = toClient[k + 1]
  BY TailIs DEF TypeOK
<1>2. TameNews
  BY <1>1 DEF TameNews, TameStream
<1>3. ReportsOK(toClient')
  BY <1>1 DEF PlacesOK, ReportsOK
<1> QED
  BY <1>1, <1>2, <1>3 DEF NewsGo

-----------------------------------------------------------------------------
(* Numbers and types.                                                       *)

Kinds == {"rfq", "quote", "order", "resp"}

LEMMA UpToIs == ASSUME TypeOK, NEW kind \in Kinds, NEW n \in UpTo(kind) PROVE n \in Nat /\ n # 0
<1>1. Most[trouble][kind] \in Nat
  BY QuotesAssumption DEF TypeOK, Kinds
<1>2. n \in 1 .. Most[trouble][kind]
  BY DEF UpTo
<1> DEFINE b == Most[trouble][kind]
<1>3. b \in Nat /\ n \in 1 .. b
  BY <1>1, <1>2
<1> HIDE DEF b
<1> QED
  BY <1>3

\* Minted numbers do not fall, and only a quote's moves the quotes'.
MintedOK == minted' \in [Kinds -> Nat] /\ minted.quote <= minted'.quote
LEMMA MintsIs ==
  ASSUME TypeOK, NEW kind \in Kinds, NEW n \in Nat, Mints(kind, n)
  PROVE  /\ MintedOK
         /\ kind = "quote" => n = minted.quote + 1 /\ minted'.quote = minted.quote + 1
         /\ kind # "quote" => minted'.quote = minted.quote
<1>1. minted \in [Kinds -> Nat] /\ "quote" \in Kinds
  BY DEF TypeOK, Kinds
<1>2. minted.quote \in Nat /\ n = minted[kind] + 1 /\ minted' = [minted EXCEPT ![kind] = n]
  BY <1>1 DEF Mints
<1>3. minted' \in [Kinds -> Nat]
  BY <1>1, <1>2
<1>4. CASE kind = "quote"
  <2>1. minted'.quote = n /\ n = minted.quote + 1
    BY <1>1, <1>2, <1>4
  <2>2. minted.quote <= minted'.quote
    BY <1>2, <2>1
  <2> QED
    BY <1>3, <1>4, <2>1, <2>2 DEF MintedOK
<1>5. CASE kind # "quote"
  <2>1. minted'.quote = minted.quote
    BY <1>1, <1>2, <1>5
  <2>2. minted.quote <= minted'.quote
    BY <1>2, <2>1
  <2> QED
    BY <1>3, <1>5, <2>1, <2>2 DEF MintedOK
<1> QED
  BY <1>4, <1>5

LEMMA MintedStays == ASSUME TypeOK, minted' = minted PROVE MintedOK
<1>1. minted \in [Kinds -> Nat] /\ minted.quote \in Nat
  BY DEF TypeOK, Kinds
<1> QED
  BY <1>1 DEF MintedOK

\* The rest of a step that concerns neither what is taken nor what the timers found.
Others ==
    /\ UNCHANGED << trouble, orders, sweep, past >> /\ clean' \in BOOLEAN
    /\ stream' \in {stream, Rest} \/ (stream' \in Streams /\ StreamPlaced')
HitsFewer == hit' \in [Takers -> {Rest} \cup Hits] /\ \A t \in Takers : Sending(t)' => hit'[t] = hit[t]

LEMMA HitsStay == ASSUME TypeOK, hit' = hit PROVE HitsFewer
  BY DEF TypeOK, HitsFewer

LEMMA StreamStays ==
  ASSUME PlacesOK, RowsGrow, stream' \in {stream, Rest}
  PROVE  StreamPlaced'
<1> SUFFICES ASSUME Streaming'
             PROVE  stream'.at \in DOMAIN Market' /\ stream'.back.status \notin {"Hit", "Expired"}
  BY DEF StreamPlaced
<1>1. stream' = stream /\ Streaming
  BY DEF Streaming, Rest
<1>2. DOMAIN Market \subseteq DOMAIN Market'
  BY DEF RowsGrow, Market, Sides
<1> QED
  BY <1>1, <1>2 DEF PlacesOK, StreamPlaced

LEMMA TypesKept ==
  ASSUME TypeOK, PlacesOK, RowsGrow, TalkGoes, NewsGo, MintedOK, HitsFewer, Others
  PROVE  TypeOK' /\ PlacesOK'
<1>1. TypeOK'
  BY DEF TypeOK, RowsGrow, TalkGoes, NewsGo, MintedOK, HitsFewer, Others, Kinds
<1>2. ASSUME NEW t \in Takers, Sending(t)'
      PROVE  /\ hit'[t].at \in DOMAIN Client' /\ hit'[t].quote # 0
             /\ hit'[t].was.quote = hit'[t].quote
             /\ hit'[t].type = "AJ" => Stands(hit'[t].was)
  <2>1. hit'[t] = hit[t] /\ Sending(t)
    BY <1>2 DEF HitsFewer, Sending
  <2>2. DOMAIN Client \subseteq DOMAIN Client'
    BY DEF RowsGrow, Client, Sides
  <2> QED
    BY <2>1, <2>2 DEF PlacesOK
<1>3. \A k \in DOMAIN toClient' : toClient'[k].type = "AI" =>
          trouble' = "foreign" /\ toClient'[k].kind \in {"Canceled", "Expired"}
  BY DEF NewsGo, ReportsOK, Others
<1>4. \A s \in Sides : \A d \in sweep'[s] : d[1] \in DOMAIN rfqs'[s] /\ d[2] \in past'
  BY DEF PlacesOK, Others, RowsGrow
<1>5. StreamPlaced'
  BY StreamStays DEF Others
<1> QED
  BY <1>1, <1>2, <1>3, <1>4, <1>5 DEF PlacesOK, Stands

-----------------------------------------------------------------------------
(* Who knows a quote, and who has taken it, after a step.                   *)

\* The message that takes the quote is read.
TakenNow(q) ==
    toMarket # << >> /\ toMarket' = Tail(toMarket) /\ Takes(toMarket[1]) /\ toMarket[1].quote = q

MarketHears ==
    \A q \in Nat : TakenAtMarket(q)' => TakenAtMarket(q) \/ TakenNow(q)

LEMMA RowTypes ==
  ASSUME TypeOK
  PROVE  /\ \A i \in DOMAIN Client : Client[i].quote \in Nat
         /\ \A i \in DOMAIN Market : Market[i].quote \in Nat
         /\ \A k \in DOMAIN toMarket : toMarket[k].quote \in Nat
         /\ \A k \in DOMAIN toClient : toClient[k].quote \in Nat
         /\ \A t \in Takers : Sending(t) => hit[t] \in Hits /\ hit[t].quote \in Nat
         /\ minted.quote \in Nat
<1>1. Client \in Seq(Rows) /\ Market \in Seq(Rows)
  BY DEF TypeOK, Sides, Client, Market
<1>2. toMarket \in Seq(ToMarket) /\ toClient \in Seq(ToClient)
  BY DEF TypeOK
<1>3. ASSUME NEW t \in Takers, Sending(t) PROVE hit[t] \in Hits /\ hit[t].quote \in Nat
  <2>1. hit[t] \in {Rest} \cup Hits
    BY DEF TypeOK
  <2>2. hit[t] # Rest
    BY <1>3 DEF Sending, Rest
  <2> QED
    BY <2>1, <2>2 DEF Hits
<1>4. \A row \in Rows : row.quote \in Nat
  BY DEF Rows
<1>5. (\A m \in ToMarket : m.quote \in Nat) /\ \A m \in ToClient : m.quote \in Nat
  BY DEF ToMarket, ToClient
<1>6. (\A i \in DOMAIN Client : Client[i].quote \in Nat) /\ \A i \in DOMAIN Market : Market[i].quote \in Nat
  BY <1>1, <1>4
<1>7. (\A k \in DOMAIN toMarket : toMarket[k].quote \in Nat) /\ \A k \in DOMAIN toClient : toClient[k].quote \in Nat
  BY <1>2, <1>5
<1>8. minted.quote \in Nat
  BY DEF TypeOK
<1> QED
  BY <1>3, <1>6, <1>7, <1>8

LEMMA TameIsHeard ==
  ASSUME TameMarket, RowsGrow, PlacesOK, stream' \in {stream, Rest}
  PROVE  MarketHears /\ HitsStand /\ (QuotesInv => StreamOK')
<1>1. MarketHears /\ HitsStand
  BY DEF TameMarket, MarketHears, TakenAtMarket
<1>2. ASSUME QuotesInv, Streaming'
      PROVE  Market'[stream'.at].quote = stream'.quote /\ Market'[stream'.at].status # "Hit"
  <2>1. stream' = stream /\ Streaming
    BY <1>2 DEF Streaming, Rest
  <2>2. stream.at \in DOMAIN Market /\ Market[stream.at].quote = stream.quote /\ Market[stream.at].status # "Hit"
    BY <1>2, <2>1 DEF PlacesOK, StreamPlaced, QuotesInv, StreamOK
  <2>3. Market'[stream.at].quote = Market[stream.at].quote
    BY <1>2, <2>2 DEF TameMarket
  <2>4. Market'[stream.at].status = "Hit" => Market[stream.at].status = "Hit"
    <3>1. stream.at \in DOMAIN Market'
      BY <2>2 DEF RowsGrow, Market, Sides
    <3> QED
      BY <3>1 DEF TameMarket
  <2> QED
    BY <2>1, <2>2, <2>3, <2>4
<1> QED
  BY <1>1, <1>2 DEF StreamOK

\* What is taken at the market after the step was taken, or on its way.
LEMMA TakenBefore ==
  ASSUME TypeOK, MarketHears, NEW q \in Nat, TakenAtMarket(q)'
  PROVE  TakenAtMarket(q) \/ TakenUnderWay(q)
<1>1. CASE TakenNow(q)
  <2>1. toMarket \in Seq(ToMarket)
    BY DEF TypeOK
  <2>2. 1 \in DOMAIN toMarket
    BY <1>1, <2>1, TailIs DEF TakenNow
  <2> QED
    BY <1>1, <2>2 DEF TakenNow, TakenUnderWay
<1> QED
  BY <1>1 DEF MarketHears

LEMMA TakenEarlier ==
  ASSUME TypeOK, TameTalk, NEW q, TakenUnderWay(q)'
  PROVE  TakenUnderWay(q)
<1>1. PICK k \in DOMAIN toMarket' : Takes(toMarket'[k]) /\ toMarket'[k].quote = q
  BY DEF TakenUnderWay, Takes
<1>2. PICK d \in {0, 1} : \A l \in DOMAIN toMarket' :
        \/ toMarket'[l].type = "R" /\ toMarket'[l].quote = 0
        \/ l + d \in DOMAIN toMarket /\ toMarket'[l] = toMarket[l + d]
  BY DEF TameTalk
<1>3. toMarket'[k].type # "R"
  BY <1>1 DEF Takes
<1>4. k + d \in DOMAIN toMarket /\ toMarket'[k] = toMarket[k + d]
  BY <1>2, <1>3
<1> QED
  BY <1>1, <1>4 DEF TakenUnderWay

\* Nothing that may stand has a blank for its quote.
LEMMA BlankUnknown == ASSUME TypeOK, NewsOK, NEW q \in Nat, IsNew(q) PROVE q # 0 /\ ~Known(q)
  BY DEF NewsOK

\* A quote that is new after a step was new before it.
LEMMA NewBefore ==
  ASSUME TypeOK, TameNews, MintedOK, NEW q \in Nat, IsNew(q)'
  PROVE  IsNew(q)
<1>1. minted.quote \in Nat /\ minted'.quote \in Nat /\ minted.quote <= minted'.quote
  BY DEF TypeOK, MintedOK, Kinds
<1>2. CASE q > minted'.quote
  BY <1>1, <1>2 DEF IsNew
<1>3. CASE Coming(q)'
  <2>1. PICK k \in DOMAIN toClient' : toClient'[k].type = "S" /\ toClient'[k].quote = q
    BY <1>3 DEF Coming, IsQuote
  <2>2. PICK d \in {0, 1} : \A l \in DOMAIN toClient' :
          \/ toClient'[l].type # "S"
          \/ l + d \in DOMAIN toClient /\ toClient'[l] = toClient[l + d]
          \/ d = 0 /\ NextQuote(l)
    BY DEF TameNews
  <2>3. CASE k + d \in DOMAIN toClient /\ toClient'[k] = toClient[k + d]
    BY <2>1, <2>3 DEF IsNew, Coming, IsQuote
  <2>4. CASE NextQuote(k)
    <3>1. q = minted.quote + 1 \/ (Streaming /\ q = stream.quote)
      BY <2>1, <2>4 DEF NextQuote
    <3> QED
      BY <1>1, <3>1 DEF IsNew
  <2> QED
    BY <2>1, <2>2, <2>3, <2>4
<1>4. CASE Streaming' /\ q = stream'.quote
  <2>1. CASE stream' = stream
    BY <1>4, <2>1 DEF IsNew, Streaming
  <2>2. CASE stream'.quote = minted.quote + 1
    BY <1>1, <1>4, <2>2 DEF IsNew
  <2> QED
    BY <1>4, <2>1, <2>2 DEF TameNews, TameStream, Streaming, Rest
<1> QED
  BY <1>2, <1>3, <1>4 DEF IsNew

LEMMA NewsKept ==
  ASSUME TypeOK, NewsOK, TameNews, toClient' \in Seq(ToClient), MintedOK,
         \A q \in Nat : IsNew(q)' /\ Known(q)' => Known(q)
  PROVE  NewsOK'
<1>1. ASSUME NEW q \in Nat, IsNew(q)' PROVE q # 0 /\ ~Known(q)'
  <2>1. IsNew(q)
    BY <1>1, NewBefore
  <2>2. q # 0 /\ ~Known(q)
    BY <2>1, BlankUnknown
  <2> QED
    BY <1>1, <2>2
<1>2. minted.quote \in Nat /\ minted'.quote \in Nat /\ minted.quote <= minted'.quote
  BY DEF TypeOK, MintedOK, Kinds
<1>3. PICK d \in {0, 1} : \A l \in DOMAIN toClient' :
          \/ toClient'[l].type # "S"
          \/ l + d \in DOMAIN toClient /\ toClient'[l] = toClient[l + d]
          \/ d = 0 /\ NextQuote(l)
  BY DEF TameNews
<1> DEFINE Was(l) == l + d \in DOMAIN toClient /\ toClient'[l] = toClient[l + d]
<1>4. \A k \in DOMAIN toClient' : k \in Nat
  OBVIOUS
<1>5. \A k \in DOMAIN toClient : IsQuote(k) => toClient[k].quote \in Nat /\ toClient[k].quote <= minted.quote
  BY RowTypes DEF NewsOK
<1>6. ASSUME NEW k \in DOMAIN toClient', IsQuote(k)'
      PROVE  \/ Was(k) /\ IsQuote(k + d) /\ toClient'[k].quote <= minted.quote
             \/ NextQuote(k)
  <2>1. toClient'[k].type = "S"
    BY <1>6 DEF IsQuote
  <2>2. Was(k) \/ NextQuote(k)
    BY <1>3, <2>1
  <2>3. CASE Was(k)
    <3>1. IsQuote(k + d)
      BY <2>1, <2>3 DEF IsQuote
    <3>2. toClient[k + d].quote <= minted.quote
      BY <1>5, <2>3, <3>1
    <3> QED
      BY <2>3, <3>1, <3>2
  <2> QED
    BY <2>2, <2>3
<1>9. Streaming => /\ stream.quote \in Nat /\ stream.quote <= minted.quote
                   /\ \A k \in DOMAIN toClient : IsQuote(k) => toClient[k].quote # stream.quote
  <2>1. Streaming => stream.quote \in Nat
    BY DEF TypeOK, Streaming, Rest, Streams
  <2> QED
    BY <2>1 DEF NewsOK, Coming
<1>7. ASSUME NEW k \in DOMAIN toClient', IsQuote(k)' PROVE toClient'[k].quote <= minted'.quote
  <2>1. CASE Was(k) /\ IsQuote(k + d)
    <3>1. toClient'[k].quote = toClient[k + d].quote
      BY <2>1
    <3>2. toClient[k + d].quote \in Nat /\ toClient[k + d].quote <= minted.quote
      BY <1>5, <2>1
    <3> QED
      BY <1>2, <3>1, <3>2
  <2>2. CASE NextQuote(k)
    BY <1>2, <1>9, <2>2 DEF NextQuote
  <2> QED
    BY <1>6, <1>7, <2>1, <2>2
<1>8. ASSUME NEW k \in DOMAIN toClient', NEW l \in DOMAIN toClient', IsQuote(k)', IsQuote(l)', k # l
      PROVE  toClient'[k].quote # toClient'[l].quote
  <2>1. CASE (Was(k) /\ IsQuote(k + d)) /\ (Was(l) /\ IsQuote(l + d))
    <3>1. k + d # l + d
      BY <1>4, <1>8
    <3>2. toClient[k + d].quote # toClient[l + d].quote
      BY <2>1, <3>1 DEF NewsOK
    <3> QED
      BY <2>1, <3>2
  <2>2. CASE NextQuote(k) /\ NextQuote(l)
    BY <1>8, <2>2 DEF NextQuote
  <2>3. ASSUME NEW x \in DOMAIN toClient', NEW y \in DOMAIN toClient', Was(x) /\ IsQuote(x + d), NextQuote(y)
        PROVE  toClient'[x].quote # toClient'[y].quote
    <3>1. toClient'[x].quote = toClient[x + d].quote
      BY <2>3
    <3>2. toClient[x + d].quote \in Nat /\ toClient[x + d].quote <= minted.quote
      BY <1>5, <2>3
    <3>3. toClient'[y].quote = minted.quote + 1 \/ (Streaming /\ toClient'[y].quote = stream.quote)
      BY <2>3 DEF NextQuote
    <3>4. Streaming => toClient[x + d].quote # stream.quote
      BY <1>9, <2>3
    <3> QED
      BY <1>2, <3>1, <3>2, <3>3, <3>4
  <2> QED
    BY <1>6, <1>8, <2>1, <2>2, <2>3
<1>10. ASSUME Streaming' PROVE stream'.quote <= minted'.quote /\ ~Coming(stream.quote)'
  <2>1. CASE stream' = stream
    <3>1. Streaming
      BY <1>10, <2>1 DEF Streaming
    <3>2. ASSUME NEW k \in DOMAIN toClient', IsQuote(k)' PROVE toClient'[k].quote # stream'.quote
      <4>1. CASE Was(k) /\ IsQuote(k + d)
        BY <1>9, <2>1, <3>1, <4>1
      <4>2. CASE NextQuote(k)
        BY <1>2, <1>9, <1>10, <2>1, <3>1, <4>2 DEF NextQuote
      <4> QED
        BY <1>6, <3>2, <4>1, <4>2
    <3>3. stream'.quote <= minted'.quote
      BY <1>2, <1>9, <2>1, <3>1
    <3> QED
      BY <3>2, <3>3 DEF Coming
  <2>2. CASE stream'.quote = minted.quote + 1 /\ minted'.quote = minted.quote + 1 /\ toClient' = toClient
    <3>1. \A k \in DOMAIN toClient : IsQuote(k) => toClient[k].quote # minted.quote + 1
      BY <1>2, <1>5
    <3> QED
      BY <1>2, <2>2, <3>1 DEF Coming, IsQuote
  <2> QED
    BY <1>10, <2>1, <2>2 DEF TameNews, TameStream, Streaming, Rest
<1> QED
  BY <1>1, <1>7, <1>8, <1>10 DEF NewsOK

-----------------------------------------------------------------------------
(* A step of which the quotes need no account: the client's rows stay tame. *)

LEMMA KnownStays ==
  ASSUME TypeOK, TameRows, TameTalk, MarketHears, HitsFewer, NEW q \in Nat, q # 0, Known(q)'
  PROVE  Known(q)
<1>1. CASE \E i \in DOMAIN Client' : Client'[i].quote = q
  <2>1. PICK i \in DOMAIN Client' : Client'[i].quote = q
    BY <1>1
  <2>2. i \in DOMAIN Client /\ Client[i].quote = q
    BY <2>1 DEF TameRows
  <2> QED
    BY <2>2 DEF Known
<1>2. CASE BeingTaken(q)'
  BY <1>2 DEF BeingTaken, HitsFewer, Sending, Known
<1>3. CASE TakenAtMarket(q)'
  BY <1>3, TakenBefore DEF TakenUnderWay, Known
<1>4. CASE \E k \in DOMAIN toMarket' : toMarket'[k].quote = q
  <2>1. PICK k \in DOMAIN toMarket' : toMarket'[k].quote = q
    BY <1>4
  <2>2. PICK d \in {0, 1} : \A l \in DOMAIN toMarket' :
          \/ toMarket'[l].type = "R" /\ toMarket'[l].quote = 0
          \/ l + d \in DOMAIN toMarket /\ toMarket'[l] = toMarket[l + d]
    BY DEF TameTalk
  <2>3. k + d \in DOMAIN toMarket /\ toMarket[k + d].quote = q
    BY <2>1, <2>2
  <2> QED
    BY <2>3 DEF Known
<1> QED
  BY <1>1, <1>2, <1>3, <1>4 DEF Known

\* No response comes to follow what takes its quote, nor is that at the market before it.
LEMMA DeclinedStay ==
  ASSUME TypeOK, toMarket' \in Seq(ToMarket), DeclinedUntaken, TameTalk, MarketHears,
         \A k \in DOMAIN toMarket : Declines(toMarket[k]) => toMarket[k].quote \in Nat
  PROVE  DeclinedUntaken'
<1>1. PICK d \in {0, 1} : \A l \in DOMAIN toMarket' :
        \/ toMarket'[l].type = "R" /\ toMarket'[l].quote = 0
        \/ l + d \in DOMAIN toMarket /\ toMarket'[l] = toMarket[l + d]
  BY DEF TameTalk
<1>2. ASSUME NEW k \in DOMAIN toMarket', Declines(toMarket'[k])
      PROVE  /\ ~(\E i \in DOMAIN Market' : Market'[i].status = "Hit" /\ Market'[i].quote = toMarket'[k].quote)
             /\ \A j \in 1 .. k - 1 : ~(Takes(toMarket'[j]) /\ toMarket'[j].quote = toMarket'[k].quote)
  <2>1. k + d \in DOMAIN toMarket /\ toMarket'[k] = toMarket[k + d]
    BY <1>1, <1>2 DEF Declines
  <2>2. PICK q \in Nat : q = toMarket[k + d].quote
    BY <1>2, <2>1
  <2>3. ~TakenAtMarket(q) /\ \A j \in 1 .. (k + d) - 1 : ~(Takes(toMarket[j]) /\ toMarket[j].quote = q)
    BY <1>2, <2>1, <2>2 DEF DeclinedUntaken
  <2>4. k \in Nat /\ k \in 1 .. Len(toMarket') /\ DOMAIN toMarket' = 1 .. Len(toMarket')
    OBVIOUS
  <2>5. ASSUME NEW j \in 1 .. k - 1, Takes(toMarket'[j]), toMarket'[j].quote = q
        PROVE  FALSE
    <3>1. j \in DOMAIN toMarket' /\ j + d \in 1 .. (k + d) - 1
      BY <2>4
    <3>2. toMarket'[j] = toMarket[j + d]
      <4>1. CASE toMarket'[j].type = "R" /\ toMarket'[j].quote = 0
        BY <2>5, <4>1 DEF Takes
      <4> QED
        BY <1>1, <3>1, <4>1
    <3> QED
      BY <2>3, <2>5, <3>1, <3>2
  <2>6. ASSUME TakenAtMarket(q)' PROVE FALSE
    <3>1. TakenNow(q)
      BY <2>3, <2>6 DEF MarketHears
    <3>2. toMarket \in Seq(ToMarket) /\ toMarket # << >> /\ toMarket' = Tail(toMarket)
      BY <3>1 DEF TypeOK, TakenNow
    <3>3. k + 1 \in DOMAIN toMarket /\ toMarket'[k] = toMarket[k + 1]
      BY <3>2, TailIs
    <3>4. toMarket[k + 1].quote = q /\ Declines(toMarket[k + 1])
      BY <1>2, <2>1, <2>2, <3>3
    <3>5. 1 \in 1 .. (k + 1) - 1
      BY <2>4
    <3> QED
      BY <3>1, <3>3, <3>4, <3>5 DEF DeclinedUntaken, TakenNow
  <2>7. toMarket'[k].quote = q
    BY <2>1, <2>2
  <2> QED
    BY <2>5, <2>6, <2>7 DEF TakenAtMarket
<1> QED
  BY <1>2 DEF DeclinedUntaken, Declines, Takes, TakenAtMarket

\* What a quote that stands or may come to stand again must not be, it does not become.
LEMMA UntakenStays ==
  ASSUME TypeOK, TameTalk, MarketHears, HitsFewer, NEW q \in Nat,
         ~TakenAtMarket(q), ~TakenUnderWay(q)
  PROVE  ~TakenAtMarket(q)' /\ ~TakenUnderWay(q)' /\ (~BeingTaken(q) => ~BeingTaken(q)')
<1>1. ~TakenAtMarket(q)'
  BY TakenBefore
<1>2. ~TakenUnderWay(q)'
  BY TakenEarlier
<1>3. ~BeingTaken(q) => ~BeingTaken(q)'
  BY DEF BeingTaken, Sending, HitsFewer
<1> QED
  BY <1>1, <1>2, <1>3

LEMMA TameStep ==
  ASSUME TypeOK, PlacesOK, QuotesInv, TameRows, TalkGoes, NewsGo, MarketHears, HitsFewer, MintedOK, StreamOK',
         trouble' = trouble
  PROVE  QuotesInv'
<1>1. TameTalk /\ TameNews /\ toMarket' \in Seq(ToMarket) /\ toClient' \in Seq(ToClient)
  BY DEF TalkGoes, NewsGo
<1>2. NewsOK'
  <2>1. ASSUME NEW q \in Nat, IsNew(q)', Known(q)' PROVE Known(q)
    <3>1. q # 0
      BY <1>1, <2>1, NewBefore, BlankUnknown DEF QuotesInv
    <3> QED
      BY <1>1, <2>1, <3>1, KnownStays
  <2> QED
    BY <1>1, <2>1, NewsKept DEF QuotesInv
<1>3. OneRow'
  <2> SUFFICES ASSUME NEW i \in DOMAIN Client', NEW j \in DOMAIN Client', i # j,
                      Client'[i].quote = Client'[j].quote, Client'[i].quote # 0
               PROVE  FALSE
    BY DEF OneRow
  <2>1. i \in DOMAIN Client /\ Client'[i].quote = Client[i].quote
    BY DEF TameRows
  <2>2. j \in DOMAIN Client /\ Client'[j].quote = Client[j].quote
    BY DEF TameRows
  <2> QED
    BY <2>1, <2>2 DEF QuotesInv, OneRow
<1>4. StandsUntaken'
  <2>1. ASSUME NEW i \in DOMAIN Client', Stands(Client'[i]), NEW q, q = Client'[i].quote
        PROVE  ~TakenAtMarket(q)' /\ ~TakenUnderWay(q)' /\ ~BeingTaken(q)'
    <3>1. i \in DOMAIN Client /\ Client[i].quote = q /\ Stands(Client[i])
      BY <2>1 DEF TameRows
    <3>2. q \in Nat
      BY <3>1, RowTypes
    <3>3. ~TakenAtMarket(q) /\ ~TakenUnderWay(q) /\ ~BeingTaken(q)
      BY <3>1 DEF QuotesInv, StandsUntaken
    <3> QED
      BY <1>1, <3>2, <3>3, UntakenStays
  <2> QED
    BY <2>1 DEF StandsUntaken, Stands, TakenAtMarket, TakenUnderWay, BeingTaken, Takes, Sending
<1>5. UndoneUntaken'
  <2>1. ASSUME NEW t \in Takers, trouble' = "failing", Sending(t)', hit'[t].type = "AJ", NEW q, q = hit'[t].quote
        PROVE  /\ ~TakenAtMarket(q)' /\ ~TakenUnderWay(q)'
               /\ \A j \in DOMAIN Client' : j # hit'[t].at => Client'[j].quote # q
    <3>1. hit'[t] = hit[t] /\ Sending(t)
      BY <2>1 DEF HitsFewer, Sending
    <3>2. q \in Nat /\ q = hit[t].quote
      BY <2>1, <3>1, RowTypes
    <3>3. /\ ~TakenAtMarket(q) /\ ~TakenUnderWay(q)
          /\ \A j \in DOMAIN Client : j # hit[t].at => Client[j].quote # q
      BY <2>1, <3>1, <3>2 DEF QuotesInv, UndoneUntaken
    <3>4. q # 0
      BY <3>1, <3>2 DEF PlacesOK
    <3>5. \A j \in DOMAIN Client' : j # hit'[t].at => Client'[j].quote # q
      BY <3>1, <3>3, <3>4 DEF TameRows
    <3> QED
      BY <1>1, <3>2, <3>3, <3>5, UntakenStays
  <2> QED
    BY <2>1 DEF UndoneUntaken, Stands, TakenAtMarket, TakenUnderWay, BeingTaken, Takes, Sending
<1>6. DeclinedUntaken'
  BY <1>1, RowTypes, DeclinedStay DEF QuotesInv
<1> QED
  BY <1>2, <1>3, <1>4, <1>5, <1>6 DEF QuotesInv

\* What each step keeps.
Keeps ==
    /\ TypeOK' /\ PlacesOK' /\ Timely
    /\ NobodyUndoes /\ QuotesInv => QuotesInv' /\ HitsStand

LEMMA Tamed ==
  ASSUME TypeOK, PlacesOK, RowsGrow, TameRows, QuotesInv => MarketHears /\ HitsStand /\ StreamOK',
         TalkGoes, NewsGo, HitsFewer, MintedOK, Others
  PROVE  Keeps
<1>1. TypeOK' /\ PlacesOK' /\ Timely /\ trouble' = trouble
  BY TypesKept DEF RowsGrow, Others
<1>2. QuotesInv => QuotesInv' /\ HitsStand
  BY <1>1, TameStep
<1> QED
  BY <1>1, <1>2 DEF Keeps

-----------------------------------------------------------------------------
(* A hit, or an order that names a quote: the row, then the message.        *)

\* HitQuote and OrderQuote, of which only the first asks that the quote stands.
Picks(t, q, type) ==
    /\ hit[t].step = "idle" /\ ByQuote("client", q) # 0
    /\ type = "AJ" => Stands(Client[ByQuote("client", q)])
    /\ \E o \in Nat :
          /\ Mints("order", o)
          /\ Writes("client", ByQuote("client", q), Taken(Client[ByQuote("client", q)], o))
          /\ hit' = [hit EXCEPT ![t] = [step |-> "sending", at |-> ByQuote("client", q),
                                       was |-> Client[ByQuote("client", q)], quote |-> q, order |-> o, type |-> type]]
    /\ UNCHANGED << trouble, toMarket, toClient, stream, orders, sweep, past >> /\ clean' \in BOOLEAN

LEMMA PicksOf ==
  ASSUME TypeOK, NEW t \in Takers, NEW q \in UpTo("quote"), HitQuote(t, q) \/ OrderQuote(t, q), trouble' = trouble
  PROVE  q \in Nat /\ \E type \in {"AJ", "D"} : Picks(t, q, type)
<1>1. q \in Nat /\ \A o \in UpTo("order") : o \in Nat
  BY UpToIs DEF Kinds
<1>2. ASSUME HitQuote(t, q) PROVE Picks(t, q, "AJ")
  BY <1>1, <1>2 DEF HitQuote, Picks, Stands, Client, TypeOK
<1>3. ASSUME OrderQuote(t, q) PROVE Picks(t, q, "D")
  BY <1>1, <1>3 DEF OrderQuote, Picks, Stands, Client, TypeOK
<1> QED
  BY <1>1, <1>2, <1>3

LEMMA PicksStep ==
  ASSUME TypeOK, PlacesOK, NEW t \in Takers, NEW q \in Nat, NEW type \in {"AJ", "D"}, Picks(t, q, type)
  PROVE  Keeps
<1> DEFINE i == ByQuote("client", q)
           row == Client[i]
<1>1. q # 0 /\ i \in DOMAIN Client /\ row \in Rows /\ row.quote = q
  BY ByQuoteIs DEF Picks, Sides, Client
<1>2. PICK o \in Nat :
        /\ Mints("order", o) /\ Writes("client", i, Taken(row, o))
        /\ hit' = [hit EXCEPT ![t] = [step |-> "sending", at |-> i, was |-> row, quote |-> q, order |-> o, type |-> type]]
  BY DEF Picks
<1>3. Taken(row, o) \in Rows /\ Taken(row, o).status = "Hit" /\ Taken(row, o).quote = q
  BY <1>1, TakenIs
<1>4. PICK n \in Nat : n = i
  BY <1>1 DEF Client, TypeOK, Sides
<1>5. PICK r \in Rows : r = row
  BY <1>1
<1>6. PICK new \in Rows : new = Taken(row, o)
  BY <1>3
<1> DEFINE h == [step |-> "sending", at |-> n, was |-> r, quote |-> q, order |-> o, type |-> type]
<1>7. hit' = [hit EXCEPT ![t] = h] /\ Writes("client", n, new) /\ n \in DOMAIN Client /\ Client[n] = r
  BY <1>1, <1>2, <1>4, <1>5, <1>6
<1>8. /\ new.quote = q /\ r.quote = q /\ ~Stands(new) /\ new.status # "Expired"
      /\ type = "AJ" => Stands(r)
  BY <1>1, <1>3, <1>4, <1>5, <1>6 DEF Picks, Stands, LIVE_QUOTE
<1>9. h \in Hits /\ h.at = n /\ h.was = r /\ h.quote = q /\ h.type = type /\ h.step = "sending"
  BY DEF Hits
<1> HIDE DEF i, row, h
<1>10. /\ hit' \in [Takers -> {Rest} \cup Hits] /\ hit'[t] = h
       /\ \A u \in Takers : u # t => hit'[u] = hit[u]
  BY <1>7, <1>9 DEF TypeOK
<1>11. RowsGrow /\ TameRows /\ TameMarket
  BY <1>7, <1>8, ClientWrites
<1>12. /\ DOMAIN Client' = DOMAIN Client /\ Client'[n] = new /\ Market' = Market
       /\ \A j \in DOMAIN Client : j # n => Client'[j] = Client[j]
  BY <1>7, WritesIs DEF Client, Market, Sides
<1>13. UNCHANGED << trouble, toMarket, toClient, stream, orders, sweep, past >> /\ clean' \in BOOLEAN
  BY DEF Picks
<1>14. MintedOK /\ minted'.quote = minted.quote
  BY <1>2, MintsIs DEF Kinds
<1>15. TypeOK'
  BY <1>10, <1>11, <1>13, <1>14 DEF TypeOK, RowsGrow, MintedOK, Kinds
<1>16. PlacesOK'
  <2>1. ASSUME NEW u \in Takers, Sending(u)'
        PROVE  /\ hit'[u].at \in DOMAIN Client' /\ hit'[u].quote # 0 /\ hit'[u].was.quote = hit'[u].quote
               /\ hit'[u].type = "AJ" => Stands(hit'[u].was)
    <3>1. CASE u = t
      BY <1>1, <1>7, <1>8, <1>9, <1>10, <1>12, <3>1
    <3>2. CASE u # t
      BY <1>10, <1>12, <2>1, <3>2 DEF PlacesOK, Sending
    <3> QED
      BY <3>1, <3>2
  <2>2. \A s \in Sides : \A d \in sweep[s] : d[1] \in DOMAIN rfqs'[s]
    BY <1>11 DEF PlacesOK, RowsGrow
  <2> QED
    BY <1>11, <1>13, <2>1, <2>2, StreamStays DEF PlacesOK, Stands
<1>17. \A j \in DOMAIN Client : Client'[j].quote = Client[j].quote /\ (Stands(Client'[j]) => j # n /\ Stands(Client[j]))
  BY <1>7, <1>8, <1>12
<1>18. ASSUME NEW p PROVE TakenAtMarket(p)' <=> TakenAtMarket(p)
  BY <1>12 DEF TakenAtMarket
<1>19. ASSUME NEW p PROVE TakenUnderWay(p)' <=> TakenUnderWay(p)
  BY <1>13 DEF TakenUnderWay, Takes
<1>20. ASSUME NEW p PROVE BeingTaken(p)' => BeingTaken(p) \/ p = q
  BY <1>9, <1>10 DEF BeingTaken, Sending
<1>21. QuotesInv => NewsOK'
  <2> HAVE QuotesInv
  <2>1. ASSUME NEW p \in Nat, Known(p)' PROVE Known(p)
    <3>1. Known(q)
      BY <1>7, <1>8 DEF Known
    <3>2. CASE \E j \in DOMAIN Client' : Client'[j].quote = p
      BY <1>12, <1>17, <3>2 DEF Known
    <3>3. CASE \E k \in DOMAIN toMarket' : toMarket'[k].quote = p
      BY <1>13, <3>3 DEF Known
    <3> QED
      BY <1>18, <1>20, <2>1, <3>1, <3>2, <3>3 DEF Known
  <2>2. NewsGo
    BY <1>13, NewsStay
  <2> QED
    BY <1>14, <2>1, <2>2, NewsKept DEF QuotesInv, NewsGo
<1>22. QuotesInv => OneRow'
  BY <1>12, <1>17 DEF QuotesInv, OneRow
<1>23. QuotesInv => StandsUntaken'
  <2> HAVE QuotesInv
  <2>1. ASSUME NEW j \in DOMAIN Client', Stands(Client'[j]), NEW p, p = Client'[j].quote
        PROVE  ~TakenAtMarket(p)' /\ ~TakenUnderWay(p)' /\ ~BeingTaken(p)'
    <3>1. j \in DOMAIN Client /\ j # n /\ Stands(Client[j]) /\ Client[j].quote = p
      BY <1>12, <1>17, <2>1
    <3>2. p # q
      BY <1>1, <1>7, <1>8, <3>1 DEF QuotesInv, OneRow
    <3> QED
      BY <1>18, <1>19, <1>20, <3>1, <3>2 DEF QuotesInv, StandsUntaken
  <2> QED
    BY <2>1 DEF StandsUntaken, Stands, TakenAtMarket, TakenUnderWay, BeingTaken, Takes, Sending
<1>24. QuotesInv => UndoneUntaken'
  <2> HAVE QuotesInv
  <2>1. ASSUME NEW u \in Takers, trouble' = "failing", Sending(u)', hit'[u].type = "AJ", NEW p, p = hit'[u].quote
        PROVE  /\ ~TakenAtMarket(p)' /\ ~TakenUnderWay(p)'
               /\ \A j \in DOMAIN Client' : j # hit'[u].at => Client'[j].quote # p
    <3>1. CASE u = t
      <4>1. p = q /\ hit'[u].at = n /\ Stands(Client[n])
        BY <1>7, <1>8, <1>9, <1>10, <2>1, <3>1
      <4>2. ~TakenAtMarket(p) /\ ~TakenUnderWay(p)
        BY <1>7, <1>8, <4>1 DEF QuotesInv, StandsUntaken
      <4>3. \A j \in DOMAIN Client' : j # n => Client'[j].quote # p
        BY <1>1, <1>7, <1>8, <1>12, <4>1 DEF QuotesInv, OneRow
      <4> QED
        BY <1>18, <1>19, <4>1, <4>2, <4>3
    <3>2. CASE u # t
      <4>1. hit'[u] = hit[u] /\ Sending(u) /\ trouble = "failing"
        BY <1>10, <1>13, <2>1, <3>2 DEF Sending
      <4>2. /\ ~TakenAtMarket(p) /\ ~TakenUnderWay(p)
            /\ \A j \in DOMAIN Client : j # hit[u].at => Client[j].quote # p
        BY <2>1, <4>1 DEF QuotesInv, UndoneUntaken
      <4> QED
        BY <1>12, <1>17, <1>18, <1>19, <4>1, <4>2
    <3> QED
      BY <3>1, <3>2
  <2> QED
    BY <2>1 DEF UndoneUntaken, Stands, TakenAtMarket, TakenUnderWay, BeingTaken, Takes, Sending
<1>25. QuotesInv => DeclinedUntaken'
  <2> HAVE QuotesInv
  <2>1. MarketHears
    BY <1>18 DEF MarketHears
  <2>2. TalkGoes
    BY <1>13, TalkStays
  <2> QED
    BY <2>1, <2>2, RowTypes, DeclinedStay DEF QuotesInv, TalkGoes
<1> QED
  BY <1>11, <1>13, <1>15, <1>16, <1>21, <1>22, <1>23, <1>24, <1>25, TameIsHeard DEF QuotesInv, RowsGrow, Keeps

\* A message more to the market, and none that was there changed.
LEMMA TalkMore ==
  ASSUME TypeOK, NEW m \in ToMarket, toMarket' = Append(toMarket, m)
  PROVE  /\ toMarket' \in Seq(ToMarket) /\ Len(toMarket) \in Nat
         /\ DOMAIN toMarket = 1 .. Len(toMarket) /\ DOMAIN toMarket' = 1 .. Len(toMarket) + 1
         /\ \A k \in DOMAIN toMarket : toMarket'[k] = toMarket[k]
         /\ toMarket'[Len(toMarket) + 1] = m
  BY AppendIs DEF TypeOK

\* The hit leaves: what was being taken is under way.
LEMMA HitLeaves ==
  ASSUME TypeOK, PlacesOK, NEW t \in Takers, Sending(t), hit' = [hit EXCEPT ![t] = Rest],
         NEW m \in ToMarket, Takes(m), m.quote = hit[t].quote, toMarket' = Append(toMarket, m),
         UNCHANGED << trouble, rfqs, toClient, stream, orders, sweep, past, minted >>, clean' \in BOOLEAN
  PROVE  Keeps
<1>1. /\ toMarket' \in Seq(ToMarket) /\ Len(toMarket) \in Nat
      /\ DOMAIN toMarket = 1 .. Len(toMarket) /\ DOMAIN toMarket' = 1 .. Len(toMarket) + 1
      /\ \A k \in DOMAIN toMarket : toMarket'[k] = toMarket[k]
      /\ toMarket'[Len(toMarket) + 1] = m
  BY TalkMore
<1>2. PICK q \in Nat : q = hit[t].quote
  BY RowTypes
<1>3. hit' \in [Takers -> {Rest} \cup Hits] /\ ~Sending(t)' /\ \A u \in Takers : u # t => hit'[u] = hit[u]
  BY DEF TypeOK, Sending, Rest
<1>4. RowsGrow /\ TameRows /\ TameMarket
  BY RowsStay
<1>5. TypeOK'
  BY <1>1, <1>3 DEF TypeOK
<1>6. PlacesOK'
  BY <1>3, <1>4, StreamStays DEF PlacesOK, Sending, Client, Stands
<1>7. \A u \in Takers : Sending(u)' => u # t /\ Sending(u) /\ hit'[u] = hit[u]
  BY <1>3 DEF Sending
<1>8. ASSUME NEW p PROVE TakenAtMarket(p)' <=> TakenAtMarket(p)
  BY DEF TakenAtMarket, Market
<1>9. ASSUME NEW p PROVE TakenUnderWay(p)' => TakenUnderWay(p) \/ p = q
  <2> SUFFICES ASSUME NEW k \in DOMAIN toMarket', Takes(toMarket'[k]), toMarket'[k].quote = p, p # q
               PROVE  TakenUnderWay(p)
    BY DEF TakenUnderWay, Takes
  <2>1. k \in DOMAIN toMarket
    <3>1. k # Len(toMarket) + 1
      BY <1>1, <1>2
    <3> QED
      BY <1>1, <3>1
  <2> QED
    BY <1>1, <2>1 DEF TakenUnderWay
<1>10. ASSUME NEW p PROVE BeingTaken(p)' => BeingTaken(p)
  BY <1>7 DEF BeingTaken
<1>11. BeingTaken(q)
  BY <1>2 DEF BeingTaken
<1>12. Client' = Client
  BY DEF Client
<1>13. QuotesInv => NewsOK'
  <2> HAVE QuotesInv
  <2>1. ASSUME NEW p \in Nat, Known(p)' PROVE Known(p)
    <3>1. CASE \E k \in DOMAIN toMarket' : toMarket'[k].quote = p
      <4>1. PICK k \in DOMAIN toMarket' : toMarket'[k].quote = p
        BY <3>1
      <4>2. CASE k \in DOMAIN toMarket
        BY <1>1, <4>1, <4>2 DEF Known
      <4>3. CASE k = Len(toMarket) + 1
        BY <1>1, <1>2, <1>11, <4>1, <4>3 DEF Known
      <4> QED
        BY <1>1, <4>1, <4>2, <4>3
    <3> QED
      BY <1>8, <1>10, <1>12, <2>1, <3>1 DEF Known
  <2>2. NewsGo /\ MintedOK
    BY NewsStay, MintedStays
  <2> QED
    BY <2>1, <2>2, NewsKept DEF QuotesInv, NewsGo
<1>14. QuotesInv => OneRow'
  BY <1>12 DEF QuotesInv, OneRow
<1>15. QuotesInv => StandsUntaken'
  <2> HAVE QuotesInv
  <2>1. ASSUME NEW j \in DOMAIN Client, Stands(Client[j]), NEW p, p = Client[j].quote
        PROVE  ~TakenAtMarket(p)' /\ ~TakenUnderWay(p)' /\ ~BeingTaken(p)'
    BY <1>8, <1>9, <1>10, <1>11, <2>1 DEF QuotesInv, StandsUntaken
  <2> QED
    BY <1>12, <2>1 DEF StandsUntaken, Stands, TakenAtMarket, TakenUnderWay, BeingTaken, Takes, Sending
<1>16. NobodyUndoes => UndoneUntaken'
  <2> HAVE NobodyUndoes
  <2>1. ASSUME NEW u \in Takers, trouble' = "failing", Sending(u)' PROVE FALSE
    <3>1. u # t /\ "failing" \in Troubles
      BY <1>7, <2>1 DEF TypeOK
    <3> QED
      BY <3>1 DEF NobodyUndoes
  <2> QED
    BY <2>1 DEF UndoneUntaken
<1>17. QuotesInv => DeclinedUntaken'
  <2> HAVE QuotesInv
  <2>1. ASSUME NEW k \in DOMAIN toMarket', Declines(toMarket'[k]), NEW p, p = toMarket'[k].quote
        PROVE  /\ ~TakenAtMarket(p)'
               /\ \A j \in 1 .. k - 1 : ~(Takes(toMarket'[j]) /\ toMarket'[j].quote = p)
    <3>1. k # Len(toMarket) + 1
      BY <1>1, <2>1 DEF Takes, Declines
    <3>2. k \in DOMAIN toMarket /\ toMarket'[k] = toMarket[k]
      BY <1>1, <3>1
    <3>3. \A j \in 1 .. k - 1 : j \in DOMAIN toMarket
      BY <1>1, <3>2
    <3>4. \A j \in 1 .. k - 1 : toMarket'[j] = toMarket[j]
      BY <1>1, <3>3
    <3>5. /\ ~TakenAtMarket(p)
          /\ \A j \in 1 .. k - 1 : ~(Takes(toMarket[j]) /\ toMarket[j].quote = p)
      BY <2>1, <3>2 DEF QuotesInv, DeclinedUntaken
    <3> QED
      BY <1>8, <3>4, <3>5
  <2> QED
    BY <2>1 DEF DeclinedUntaken, Declines, Takes, TakenAtMarket
<1> QED
  BY <1>4, <1>5, <1>6, <1>13, <1>14, <1>15, <1>16, <1>17, TameIsHeard DEF QuotesInv, RowsGrow, Keeps

\* A hit fails and the row is put back: nobody else was taking the quote.
LEMMA HitUndone ==
  ASSUME TypeOK, PlacesOK, NEW t \in Takers, Sending(t), hit' = [hit EXCEPT ![t] = Rest],
         trouble = "failing", hit[t].type = "AJ", Writes("client", hit[t].at, hit[t].was),
         UNCHANGED << trouble, toMarket, toClient, stream, orders, sweep, past, minted >>, clean' \in BOOLEAN
  PROVE  Keeps
<1>1. hit[t] \in Hits /\ hit[t].at \in DOMAIN Client /\ hit[t].was \in Rows
      /\ hit[t].was.quote = hit[t].quote /\ hit[t].quote # 0 /\ hit[t].quote \in Nat /\ Stands(hit[t].was)
  BY RowTypes DEF PlacesOK, Hits
<1>2. PICK q \in Nat, n \in DOMAIN Client, r \in Rows : q = hit[t].quote /\ n = hit[t].at /\ r = hit[t].was
  BY <1>1
<1>3. r.quote = q /\ q # 0 /\ Stands(r) /\ Writes("client", n, r) /\ r.status # "Expired"
  BY <1>1, <1>2 DEF Stands, LIVE_QUOTE
<1>4. NobodyUndoes => \A u \in Takers : u = t
  BY DEF NobodyUndoes, TypeOK
<1>5. /\ hit' \in [Takers -> {Rest} \cup Hits]
      /\ \A u \in Takers : Sending(u)' => Sending(u) /\ hit'[u] = hit[u]
      /\ NobodyUndoes => \A u \in Takers : ~Sending(u)'
  BY <1>4 DEF TypeOK, Sending, Rest
<1>6. /\ rfqs' \in [Sides -> Seq(Rows)]
      /\ \A u \in Sides : DOMAIN rfqs'[u] = DOMAIN rfqs[u]
      /\ Market' = Market /\ Client'[n] = r /\ DOMAIN Client' = DOMAIN Client
      /\ \A j \in DOMAIN Client : j # n => Client'[j] = Client[j]
  BY <1>3, WritesIs DEF Client, Market, Sides
<1>7. HitsStand
  BY <1>6 DEF HitsStand
<1>8. Timely
  BY <1>3, <1>6 DEF Timely, Client, Market, Sides
<1>20. RowsGrow /\ TameMarket
  BY <1>6, <1>7, <1>8 DEF RowsGrow, TameMarket
<1>9. TypeOK'
  BY <1>5, <1>6 DEF TypeOK
<1>10. PlacesOK'
  BY <1>5, <1>6, <1>20, StreamStays DEF PlacesOK, Stands
<1>11. QuotesInv => /\ ~TakenAtMarket(q) /\ ~TakenUnderWay(q)
                    /\ \A j \in DOMAIN Client : j # n => Client[j].quote # q
  BY <1>2 DEF QuotesInv, UndoneUntaken
<1>12. ASSUME NEW p PROVE TakenAtMarket(p)' <=> TakenAtMarket(p)
  BY <1>6 DEF TakenAtMarket
<1>13. ASSUME NEW p PROVE TakenUnderWay(p)' <=> TakenUnderWay(p)
  BY DEF TakenUnderWay, Takes
<1>14. ASSUME NobodyUndoes, NEW p PROVE ~BeingTaken(p)'
  BY <1>5, <1>14 DEF BeingTaken
<1>15. NobodyUndoes /\ QuotesInv => NewsOK'
  <2> HAVE NobodyUndoes /\ QuotesInv
  <2>1. ASSUME NEW p \in Nat, Known(p)' PROVE Known(p)
    <3>1. Known(q)
      BY <1>2 DEF Known, BeingTaken
    <3>2. CASE \E j \in DOMAIN Client' : Client'[j].quote = p
      BY <1>3, <1>6, <3>1, <3>2 DEF Known
    <3>3. CASE \E k \in DOMAIN toMarket' : toMarket'[k].quote = p
      BY <3>3 DEF Known
    <3> QED
      BY <1>12, <1>14, <2>1, <3>2, <3>3 DEF Known
  <2>2. NewsGo /\ MintedOK
    BY NewsStay, MintedStays
  <2> QED
    BY <2>1, <2>2, NewsKept DEF QuotesInv, NewsGo
<1>16. QuotesInv => OneRow'
  BY <1>3, <1>6, <1>11 DEF QuotesInv, OneRow
<1>17. NobodyUndoes /\ QuotesInv => StandsUntaken'
  <2> HAVE NobodyUndoes /\ QuotesInv
  <2>1. ASSUME NEW j \in DOMAIN Client', Stands(Client'[j]), NEW p, p = Client'[j].quote
        PROVE  ~TakenAtMarket(p)' /\ ~TakenUnderWay(p)' /\ ~BeingTaken(p)'
    <3>1. CASE j = n
      BY <1>3, <1>6, <1>11, <1>12, <1>13, <1>14, <2>1, <3>1
    <3>2. CASE j # n
      BY <1>6, <1>12, <1>13, <1>14, <2>1, <3>2 DEF QuotesInv, StandsUntaken
    <3> QED
      BY <3>1, <3>2
  <2> QED
    BY <2>1 DEF StandsUntaken, Stands, TakenAtMarket, TakenUnderWay, BeingTaken, Takes, Sending
<1>18. NobodyUndoes => UndoneUntaken'
  BY <1>5 DEF UndoneUntaken
<1>19. NobodyUndoes /\ QuotesInv => DeclinedUntaken'
  <2> HAVE NobodyUndoes /\ QuotesInv
  <2>1. MarketHears
    BY <1>12 DEF MarketHears
  <2>2. TalkGoes
    BY TalkStays
  <2> QED
    BY <2>1, <2>2, RowTypes, DeclinedStay DEF QuotesInv, TalkGoes
<1> QED
  BY <1>7, <1>8, <1>9, <1>10, <1>15, <1>16, <1>17, <1>18, <1>19, <1>20, TameIsHeard DEF QuotesInv, Keeps

LEMMA SendHitStep ==
  ASSUME TypeOK, PlacesOK, NEW t \in Takers, SendHit(t), trouble' = trouble
  PROVE  Keeps
<1>1. Sending(t) /\ hit' = [hit EXCEPT ![t] = Rest] /\ UNCHANGED << stream, orders, sweep, past, minted >>
  BY DEF SendHit, Sending
<1>2. hit[t] \in Hits /\ hit[t].quote \in Nat /\ hit[t].order \in Nat /\ hit[t].type \in {"AJ", "D"}
  BY <1>1, RowTypes DEF Hits
<1> DEFINE m == IF hit[t].type = "AJ" THEN QuoteResponse(hit[t].quote, "Hit", hit[t].order)
                ELSE NewOrder(hit[t].quote, hit[t].order)
<1>3. m \in ToMarket /\ Takes(m) /\ m.quote = hit[t].quote
  BY <1>2 DEF QuoteResponse, NewOrder, Msg, ToMarket, Takes
<1>4. CASE SendsToMarket(m) /\ UNCHANGED << rfqs, toClient >>
  <2> HIDE DEF m
  <2>1. toMarket' = Append(toMarket, m) /\ clean' \in BOOLEAN
    BY <1>4 DEF SendsToMarket, TypeOK
  <2> QED
    BY <1>1, <1>3, <1>4, <2>1, HitLeaves
<1>5. CASE Loses /\ hit[t].type = "AJ" /\ Writes("client", hit[t].at, hit[t].was)
  <2>1. trouble = "failing" /\ clean' \in BOOLEAN /\ UNCHANGED << toMarket, toClient >>
    BY <1>5 DEF Loses
  <2> QED
    BY <1>1, <1>5, <2>1, HitUndone
<1>6. CASE Loses /\ UNCHANGED rfqs
  <2>1. clean' \in BOOLEAN /\ UNCHANGED << toMarket, toClient, trouble, rfqs, stream, orders, sweep, past, minted >>
    BY <1>1, <1>6 DEF Loses
  <2>2. RowsGrow /\ TameRows /\ TameMarket /\ TalkGoes /\ NewsGo /\ MintedOK
    BY <2>1, RowsStay, TalkStays, NewsStay, MintedStays
  <2>3. HitsFewer
    BY <1>1 DEF TypeOK, HitsFewer, Sending, Rest
  <2>4. Others
    BY <2>1 DEF Others
  <2> QED
    BY <2>1, <2>2, <2>3, <2>4, Tamed, TameIsHeard
<1> QED
  BY <1>4, <1>5, <1>6 DEF SendHit

-----------------------------------------------------------------------------
(* A counter or a pass; a quote heard; a response and an order heard.       *)

\* What stands is answered: that it is declined follows nothing that takes it.
LEMMA DeclineLeaves ==
  ASSUME TypeOK, PlacesOK, NEW i \in DOMAIN Client, Stands(Client[i]),
         NEW row \in Rows, row.quote = Client[i].quote, row.status # "Expired", Writes("client", i, row),
         NEW m \in ToMarket, Declines(m), m.quote = Client[i].quote, toMarket' = Append(toMarket, m),
         MintedOK, UNCHANGED << trouble, toClient, hit, stream, orders, sweep, past >>, clean' \in BOOLEAN
  PROVE  Keeps
<1>1. /\ toMarket' \in Seq(ToMarket) /\ Len(toMarket) \in Nat
      /\ DOMAIN toMarket = 1 .. Len(toMarket) /\ DOMAIN toMarket' = 1 .. Len(toMarket) + 1
      /\ \A k \in DOMAIN toMarket : toMarket'[k] = toMarket[k]
      /\ toMarket'[Len(toMarket) + 1] = m
  BY TalkMore
<1>2. PICK q \in Nat : q = Client[i].quote
  BY RowTypes
<1>3. RowsGrow /\ TameRows /\ TameMarket
  BY ClientWrites
<1>4. /\ DOMAIN Client' = DOMAIN Client /\ Market' = Market /\ Client'[i] = row
      /\ \A j \in DOMAIN Client : j # i => Client'[j] = Client[j]
  BY WritesIs DEF Client, Market, Sides
<1>5. \A j \in DOMAIN Client : Client'[j].quote = Client[j].quote /\ (Stands(Client'[j]) => Stands(Client[j]))
  BY <1>4
<1>6. TypeOK'
  BY <1>1, <1>3 DEF TypeOK, RowsGrow, MintedOK, Kinds
<1>7. PlacesOK'
  <2>1. DOMAIN Client' = DOMAIN Client /\ \A s \in Sides : \A d \in sweep[s] : d[1] \in DOMAIN rfqs'[s]
    BY <1>3, <1>4 DEF PlacesOK, RowsGrow
  <2> QED
    BY <1>3, <2>1, StreamStays DEF PlacesOK, Sending, Stands
<1>8. ASSUME NEW p PROVE TakenAtMarket(p)' <=> TakenAtMarket(p)
  BY <1>4 DEF TakenAtMarket
<1>9. ASSUME NEW p PROVE TakenUnderWay(p)' => TakenUnderWay(p)
  <2> SUFFICES ASSUME NEW k \in DOMAIN toMarket', Takes(toMarket'[k]), toMarket'[k].quote = p
               PROVE  TakenUnderWay(p)
    BY DEF TakenUnderWay, Takes
  <2>1. k \in DOMAIN toMarket
    <3>1. k # Len(toMarket) + 1
      BY <1>1 DEF Takes, Declines
    <3> QED
      BY <1>1, <3>1
  <2> QED
    BY <1>1, <2>1 DEF TakenUnderWay
<1>10. ASSUME NEW p PROVE BeingTaken(p)' <=> BeingTaken(p)
  BY DEF BeingTaken, Sending
<1>11. QuotesInv => NewsOK'
  <2> HAVE QuotesInv
  <2>1. ASSUME NEW p \in Nat, Known(p)' PROVE Known(p)
    <3>1. CASE \E k \in DOMAIN toMarket' : toMarket'[k].quote = p
      <4>1. PICK k \in DOMAIN toMarket' : toMarket'[k].quote = p
        BY <3>1
      <4>2. CASE k \in DOMAIN toMarket
        BY <1>1, <4>1, <4>2 DEF Known
      <4>3. CASE k = Len(toMarket) + 1
        BY <1>1, <4>1, <4>3 DEF Known
      <4> QED
        BY <1>1, <4>1, <4>2, <4>3
    <3>2. CASE \E j \in DOMAIN Client' : Client'[j].quote = p
      BY <1>4, <1>5, <3>2 DEF Known
    <3> QED
      BY <1>8, <1>10, <2>1, <3>1, <3>2 DEF Known
  <2>2. NewsGo
    BY NewsStay
  <2> QED
    BY <2>1, <2>2, NewsKept DEF QuotesInv, NewsGo
<1>12. QuotesInv => OneRow'
  BY <1>4, <1>5 DEF QuotesInv, OneRow
<1>13. QuotesInv => StandsUntaken'
  <2> HAVE QuotesInv
  <2>1. ASSUME NEW j \in DOMAIN Client', Stands(Client'[j]), NEW p, p = Client'[j].quote
        PROVE  ~TakenAtMarket(p)' /\ ~TakenUnderWay(p)' /\ ~BeingTaken(p)'
    <3>1. j \in DOMAIN Client /\ Stands(Client[j]) /\ p = Client[j].quote
      BY <1>4, <1>5, <2>1
    <3> QED
      BY <1>8, <1>9, <1>10, <3>1 DEF QuotesInv, StandsUntaken
  <2> QED
    BY <2>1 DEF StandsUntaken, Stands, TakenAtMarket, TakenUnderWay, BeingTaken, Takes, Sending
<1>14. QuotesInv => UndoneUntaken'
  <2> HAVE QuotesInv
  <2>1. ASSUME NEW u \in Takers, trouble' = "failing", Sending(u)', hit'[u].type = "AJ", NEW p, p = hit'[u].quote
        PROVE  /\ ~TakenAtMarket(p)' /\ ~TakenUnderWay(p)'
               /\ \A j \in DOMAIN Client' : j # hit'[u].at => Client'[j].quote # p
    <3>1. hit'[u] = hit[u] /\ Sending(u) /\ trouble = "failing"
      BY <2>1 DEF Sending
    <3>2. /\ ~TakenAtMarket(p) /\ ~TakenUnderWay(p)
          /\ \A j \in DOMAIN Client : j # hit[u].at => Client[j].quote # p
      BY <2>1, <3>1 DEF QuotesInv, UndoneUntaken
    <3> QED
      BY <1>4, <1>5, <1>8, <1>9, <3>1, <3>2
  <2> QED
    BY <2>1 DEF UndoneUntaken, Stands, TakenAtMarket, TakenUnderWay, BeingTaken, Takes, Sending
<1>15. QuotesInv => DeclinedUntaken'
  <2> HAVE QuotesInv
  <2>1. ASSUME NEW k \in DOMAIN toMarket', Declines(toMarket'[k]), NEW p, p = toMarket'[k].quote
        PROVE  /\ ~TakenAtMarket(p)'
               /\ \A j \in 1 .. k - 1 : ~(Takes(toMarket'[j]) /\ toMarket'[j].quote = p)
    <3>1. \A j \in 1 .. k - 1 : j \in DOMAIN toMarket
      BY <1>1
    <3>2. \A j \in 1 .. k - 1 : toMarket'[j] = toMarket[j]
      BY <1>1, <3>1
    <3>3. CASE k = Len(toMarket) + 1
      <4>1. p = Client[i].quote /\ ~TakenAtMarket(p) /\ ~TakenUnderWay(p)
        BY <1>1, <2>1, <3>3 DEF QuotesInv, StandsUntaken
      <4> QED
        BY <1>8, <3>1, <3>2, <4>1 DEF TakenUnderWay
    <3>4. CASE k # Len(toMarket) + 1
      <4>1. k \in DOMAIN toMarket /\ toMarket'[k] = toMarket[k]
        BY <1>1, <3>4
      <4>2. /\ ~TakenAtMarket(p)
            /\ \A j \in 1 .. k - 1 : ~(Takes(toMarket[j]) /\ toMarket[j].quote = p)
        BY <2>1, <4>1 DEF QuotesInv, DeclinedUntaken
      <4> QED
        BY <1>8, <3>2, <4>2
    <3> QED
      BY <3>3, <3>4
  <2> QED
    BY <2>1 DEF DeclinedUntaken, Declines, Takes, TakenAtMarket
<1> QED
  BY <1>3, <1>6, <1>7, <1>11, <1>12, <1>13, <1>14, <1>15, TameIsHeard DEF QuotesInv, RowsGrow, Keeps

LEMMA RespondStep ==
  ASSUME TypeOK, PlacesOK, NEW q \in UpTo("quote"), Respond(q), trouble' = trouble
  PROVE  Keeps
<1>1. q \in Nat /\ \A n \in UpTo("resp") : n \in Nat
  BY UpToIs DEF Kinds
<1>2. ByQuote("client", q) # 0
  BY DEF Respond
<1>3. PICK i \in DOMAIN Client : i = ByQuote("client", q) /\ Client[i] \in Rows /\ Client[i].quote = q
  BY <1>1, <1>2, ByQuoteIs DEF Client, Sides
<1>4. PICK row \in Rows : row = Client[i]
  BY <1>3
<1>5. Stands(Client[i]) /\ UNCHANGED << trouble, hit, stream, orders, sweep, past >>
  BY <1>3 DEF Respond, Stands, Client
<1>6. MintedOK
  <2>1. PICK n \in UpTo("resp") : Mints("resp", n)
    BY DEF Respond
  <2> QED
    BY <1>1, <2>1, MintsIs DEF Kinds
<1>7. /\ "Passed" \in Statuses /\ "Countered" \in Statuses
  BY DEF Statuses, FINAL_RFQ, LIVE_QUOTE
<1> DEFINE countered == [row EXCEPT !.status = "Countered", !.slot = "Counter"]
           passed == Closed(row, "Passed")
           counter == QuoteResponse(q, "Counter", 0)
           pass == QuoteResponse(q, "Pass", 0)
<1>8. /\ countered \in Rows /\ countered.quote = row.quote /\ countered.status # "Expired"
      /\ passed \in Rows /\ passed.quote = row.quote /\ passed.status # "Expired"
  BY <1>7, ClosedIs DEF Rows
<1>9. /\ counter \in ToMarket /\ Declines(counter) /\ counter.quote = q
      /\ pass \in ToMarket /\ Declines(pass) /\ pass.quote = q
  BY <1>1 DEF QuoteResponse, Msg, ToMarket, Declines
<1>10. \/ Writes("client", i, countered) /\ SendsToMarket(counter) /\ UNCHANGED toClient
       \/ Writes("client", i, passed) /\ SendsToMarket(pass) /\ UNCHANGED toClient
       \/ Loses /\ UNCHANGED rfqs
  BY <1>3, <1>4 DEF Respond, Client
<1> HIDE DEF countered, passed, counter, pass
<1>11. clean' \in BOOLEAN
  BY <1>10 DEF SendsToMarket, Loses, TypeOK
<1>12. CASE Writes("client", i, countered) /\ SendsToMarket(counter) /\ UNCHANGED toClient
  <2>1. toMarket' = Append(toMarket, counter)
    BY <1>12 DEF SendsToMarket
  <2> QED
    BY <1>3, <1>4, <1>5, <1>6, <1>8, <1>9, <1>11, <1>12, <2>1, DeclineLeaves
<1>13. CASE Writes("client", i, passed) /\ SendsToMarket(pass) /\ UNCHANGED toClient
  <2>1. toMarket' = Append(toMarket, pass)
    BY <1>13 DEF SendsToMarket
  <2> QED
    BY <1>3, <1>4, <1>5, <1>6, <1>8, <1>9, <1>11, <1>13, <2>1, DeclineLeaves
<1>14. CASE Loses /\ UNCHANGED rfqs
  <2>1. UNCHANGED << toMarket, toClient, stream, rfqs >>
    BY <1>5, <1>14 DEF Loses
  <2>2. RowsGrow /\ TameRows /\ TameMarket /\ TalkGoes /\ NewsGo /\ HitsFewer
    BY <1>5, <2>1, RowsStay, TalkStays, NewsStay, HitsStay
  <2>3. Others
    BY <1>5, <1>11 DEF Others
  <2> QED
    BY <1>5, <1>6, <2>1, <2>2, <2>3, Tamed, TameIsHeard
<1> QED
  BY <1>10, <1>12, <1>13, <1>14

\* Where a quote may be put: a row of the client's, or one more.
PutAt(n, q) ==
    /\ n \in DOMAIN Client' /\ DOMAIN Client' = DOMAIN Client \cup {n} /\ Client'[n].quote = q
    /\ \A j \in DOMAIN Client : j # n => Client'[j] = Client[j]

\* A quote is heard: the client knows nothing of it before.
LEMMA QuoteHeard ==
  ASSUME TypeOK, PlacesOK, Reads(toClient, "S"), toClient' = Tail(toClient), RowsGrow,
         NEW n, NEW q \in Nat, q = Head(toClient).quote, PutAt(n, q), Market' = Market,
         UNCHANGED << trouble, toMarket, hit, stream, orders, sweep, past, minted, clean >>
  PROVE  Keeps
<1>1. /\ toClient' \in Seq(ToClient) /\ Len(toClient) \in Nat /\ DOMAIN toClient = 1 .. Len(toClient)
      /\ 1 \in DOMAIN toClient /\ Head(toClient) = toClient[1]
      /\ \A k \in DOMAIN toClient' : k + 1 \in DOMAIN toClient /\ toClient'[k] = toClient[k + 1]
  BY TailIs DEF Reads, TypeOK
<1>2. NewsGo /\ TalkGoes /\ HitsFewer /\ MintedOK /\ Others
  BY NewsHeard, TalkStays, HitsStay, MintedStays DEF Reads, Others, TypeOK
<1>3. TypeOK' /\ PlacesOK'
  BY <1>2, TypesKept
<1>4. IsQuote(1) /\ toClient[1].quote = q
  BY <1>1 DEF Reads, IsQuote
<1>5. QuotesInv => q # 0 /\ ~Known(q)
  BY <1>1, <1>4, BlankUnknown DEF QuotesInv, IsNew, Coming
<1>6. QuotesInv => ~IsNew(q)'
  <2> HAVE QuotesInv
  <2>1. ASSUME NEW k \in DOMAIN toClient', IsQuote(k)', toClient'[k].quote = q PROVE FALSE
    <3>1. k \in Nat \ {0} /\ k + 1 # 1
      OBVIOUS
    <3>2. IsQuote(k + 1) /\ toClient[k + 1].quote = q
      BY <1>1, <2>1 DEF IsQuote
    <3> QED
      BY <1>1, <1>4, <3>1, <3>2 DEF QuotesInv, NewsOK
  <2>2. minted.quote \in Nat /\ q <= minted.quote
    BY <1>1, <1>4, RowTypes DEF QuotesInv, NewsOK
  <2>3. ~(q > minted'.quote)
    BY <2>2
  <2>4. ~(Streaming' /\ q = stream'.quote)
    BY <1>4, <1>1 DEF QuotesInv, NewsOK, Coming, Streaming
  <2> QED
    BY <2>1, <2>3, <2>4 DEF IsNew, Coming
<1>7. ASSUME NEW p PROVE /\ TakenAtMarket(p)' <=> TakenAtMarket(p)
                         /\ TakenUnderWay(p)' <=> TakenUnderWay(p)
                         /\ BeingTaken(p)' <=> BeingTaken(p)
  BY DEF TakenAtMarket, TakenUnderWay, Takes, BeingTaken, Sending
<1>8. QuotesInv => NewsOK'
  <2> HAVE QuotesInv
  <2>1. ASSUME NEW p \in Nat, IsNew(p)', Known(p)' PROVE Known(p)
    <3>1. p # q
      BY <1>6, <2>1
    <3>2. CASE \E j \in DOMAIN Client' : Client'[j].quote = p
      BY <3>1, <3>2 DEF PutAt, Known
    <3>3. CASE \E k \in DOMAIN toMarket' : toMarket'[k].quote = p
      BY <3>3 DEF Known
    <3> QED
      BY <1>7, <2>1, <3>2, <3>3 DEF Known
  <2> QED
    BY <1>2, <2>1, NewsKept DEF QuotesInv, NewsGo
<1>9. QuotesInv => \A j \in DOMAIN Client : Client[j].quote # q
  BY <1>5 DEF Known
<1>10. QuotesInv => OneRow'
  BY <1>9 DEF QuotesInv, OneRow, PutAt
<1>11. QuotesInv => StandsUntaken'
  <2> HAVE QuotesInv
  <2>1. ASSUME NEW j \in DOMAIN Client', Stands(Client'[j]), NEW p, p = Client'[j].quote
        PROVE  ~TakenAtMarket(p)' /\ ~TakenUnderWay(p)' /\ ~BeingTaken(p)'
    <3>1. CASE j = n
      <4>1. p = q
        BY <2>1, <3>1 DEF PutAt
      <4>2. ~TakenAtMarket(q) /\ ~BeingTaken(q) /\ ~TakenUnderWay(q)
        BY <1>5 DEF Known, TakenUnderWay
      <4> QED
        BY <1>7, <4>1, <4>2
    <3>2. CASE j # n
      <4>1. j \in DOMAIN Client /\ Client'[j] = Client[j]
        BY <3>2 DEF PutAt
      <4> QED
        BY <1>7, <2>1, <4>1 DEF QuotesInv, StandsUntaken
    <3> QED
      BY <3>1, <3>2
  <2> QED
    BY <2>1 DEF StandsUntaken, Stands, TakenAtMarket, TakenUnderWay, BeingTaken, Takes, Sending
<1>12. QuotesInv => UndoneUntaken'
  <2> HAVE QuotesInv
  <2>1. ASSUME NEW u \in Takers, trouble' = "failing", Sending(u)', hit'[u].type = "AJ", NEW p, p = hit'[u].quote
        PROVE  /\ ~TakenAtMarket(p)' /\ ~TakenUnderWay(p)'
               /\ \A j \in DOMAIN Client' : j # hit'[u].at => Client'[j].quote # p
    <3>1. hit'[u] = hit[u] /\ Sending(u) /\ trouble = "failing"
      BY <2>1 DEF Sending
    <3>2. /\ ~TakenAtMarket(p) /\ ~TakenUnderWay(p)
          /\ \A j \in DOMAIN Client : j # hit[u].at => Client[j].quote # p
      BY <2>1, <3>1 DEF QuotesInv, UndoneUntaken
    <3>3. p # q
      BY <1>5, <2>1, <3>1 DEF Known, BeingTaken
    <3> QED
      BY <1>7, <3>1, <3>2, <3>3 DEF PutAt
  <2> QED
    BY <2>1 DEF UndoneUntaken, Stands, TakenAtMarket, TakenUnderWay, BeingTaken, Takes, Sending
<1>13. QuotesInv => DeclinedUntaken'
  BY <1>2, <1>7, RowTypes, DeclinedStay DEF QuotesInv, TalkGoes, MarketHears
<1>14. HitsStand /\ TameMarket
  BY DEF HitsStand, TameMarket
<1> QED
  BY <1>3, <1>8, <1>10, <1>11, <1>12, <1>13, <1>14, TameIsHeard DEF QuotesInv, RowsGrow, Keeps

LEMMA ClientGrows ==
  ASSUME TypeOK, NEW i \in DOMAIN Client, NEW row \in Rows, Writes("client", i, row), row.status # "Expired"
  PROVE  RowsGrow /\ Market' = Market /\ PutAt(i, row.quote)
<1>1. /\ rfqs' \in [Sides -> Seq(Rows)] /\ \A u \in Sides : DOMAIN rfqs'[u] = DOMAIN rfqs[u]
      /\ Market' = Market /\ Client'[i] = row /\ DOMAIN Client' = DOMAIN Client
      /\ \A j \in DOMAIN Client : j # i => Client'[j] = Client[j]
  BY WritesIs DEF Client, Market, Sides
<1>3. Timely
  BY <1>1 DEF Timely, Client, Market, Sides
<1>4. PutAt(i, row.quote)
  BY <1>1 DEF PutAt
<1> QED
  BY <1>1, <1>3, <1>4 DEF RowsGrow

LEMMA ClientGains ==
  ASSUME TypeOK, NEW row \in Rows, Adds("client", row)
  PROVE  RowsGrow /\ Market' = Market /\ PutAt(Len(Client) + 1, row.quote)
<1>1. /\ rfqs' \in [Sides -> Seq(Rows)] /\ Market' = Market
      /\ DOMAIN Client' = DOMAIN Client \cup {Len(Client) + 1} /\ Client'[Len(Client) + 1] = row
      /\ \A j \in DOMAIN Client : Client'[j] = Client[j]
  BY AddsIs DEF Client, Market, Sides
<1>3. Timely /\ \A s \in Sides : DOMAIN rfqs[s] \subseteq DOMAIN rfqs'[s]
  BY <1>1 DEF Timely, Client, Market, Sides
<1>4. PutAt(Len(Client) + 1, row.quote)
  BY <1>1 DEF PutAt
<1> QED
  BY <1>1, <1>3, <1>4 DEF RowsGrow

LEMMA MarketGrows ==
  ASSUME TypeOK, NEW i \in DOMAIN Market, NEW row \in Rows, Writes("market", i, row), row.status # "Expired"
  PROVE  RowsGrow /\ TameRows
<1>1. /\ rfqs' \in [Sides -> Seq(Rows)] /\ \A u \in Sides : DOMAIN rfqs'[u] = DOMAIN rfqs[u]
      /\ Client' = Client /\ Market'[i] = row /\ DOMAIN Market' = DOMAIN Market
      /\ \A j \in DOMAIN Market : j # i => Market'[j] = Market[j]
  BY WritesIs DEF Client, Market, Sides
<1>2. Timely
  BY <1>1 DEF Timely, Client, Market, Sides
<1> QED
  BY <1>1, <1>2 DEF RowsGrow, TameRows, Stands

LEMMA HeadIs ==
  ASSUME TypeOK
  PROVE  /\ toClient # << >> => Head(toClient) \in ToClient
         /\ toMarket # << >> => Head(toMarket) \in ToMarket
  BY DEF TypeOK

LEMMA HandleQuoteStep ==
  ASSUME TypeOK, PlacesOK, HandleQuote, trouble' = trouble
  PROVE  Keeps
<1>1. /\ Reads(toClient, "S") /\ toClient' = Tail(toClient)
      /\ UNCHANGED << trouble, toMarket, hit, stream, orders, sweep, past, minted, clean >>
  BY DEF HandleQuote
<1>2. Head(toClient) \in ToClient
  BY <1>1, HeadIs DEF Reads
<1>3. PICK m \in ToClient : m = Head(toClient)
  BY <1>2
<1>4. m.quote \in Nat /\ m.req \in Nat
  BY DEF ToClient
<1>5. PICK q \in Nat : q = m.quote
  BY <1>4
<1> DEFINE i == FirstOf(ByReq("client", m.req), LiveChain("client"))
           new == [Quoted(Client[i], q) EXCEPT !.status = IF Client[i].status \in FINAL_RFQ THEN Client[i].status ELSE @]
<1>6. IF i = 0 THEN Adds("client", NewRow("quote", m.req, q, "Quoted")) ELSE Writes("client", i, new)
  BY <1>3, <1>5 DEF HandleQuote, Client
<1>7. "Quoted" \in Statuses /\ "Quoted" # "Expired" /\ "Expired" \notin FINAL_RFQ
  BY DEF Statuses, LIVE_QUOTE, FINAL_RFQ
<1>8. CASE i = 0
  <2> DEFINE row == NewRow("quote", m.req, q, "Quoted")
  <2>1. row \in Rows /\ row.quote = q
    BY <1>4, <1>7, NewRowIs
  <2>2. Adds("client", row)
    BY <1>6, <1>8
  <2> HIDE DEF row
  <2>3. RowsGrow /\ Market' = Market /\ PutAt(Len(Client) + 1, q)
    BY <2>1, <2>2, ClientGains
  <2>4. q = Head(toClient).quote
    BY <1>3, <1>5
  <2>5. PICK n : n = Len(Client) + 1
    OBVIOUS
  <2> QED
    BY <1>1, <2>3, <2>4, <2>5, QuoteHeard
<1>9. CASE i # 0
  <2>1. i \in DOMAIN Client /\ Client[i] \in Rows
    BY <1>9, ByReqIs, LiveChainIs DEF FirstOf, Client, Sides
  <2>2. PICK n \in DOMAIN Client, row \in Rows : n = i /\ row = Client[i]
    BY <2>1
  <2> DEFINE x == Quoted(row, q)
  <2>3. x \in Rows /\ x.status = "Quoted" /\ x.quote = q
    BY QuotedIs
  <2>4. new = [x EXCEPT !.status = IF row.status \in FINAL_RFQ THEN row.status ELSE @]
    BY <2>2
  <2>5. row.status \in Statuses
    BY DEF Rows
  <2> HIDE DEF x
  <2>6. new \in Rows /\ new.quote = q /\ new.status # "Expired"
    <3>1. CASE row.status \in FINAL_RFQ
      <4>1. new = [x EXCEPT !.status = row.status]
        BY <2>4, <3>1
      <4>2. [x EXCEPT !.status = row.status] \in Rows /\ [x EXCEPT !.status = row.status].quote = q
        BY <2>3, <2>5 DEF Rows
      <4>3. [x EXCEPT !.status = row.status].status = row.status
        BY <2>3 DEF Rows
      <4> QED
        BY <1>7, <3>1, <4>1, <4>2, <4>3
    <3>2. CASE row.status \notin FINAL_RFQ
      <4>1. new = [x EXCEPT !.status = @]
        BY <2>4, <3>2
      <4>2. [x EXCEPT !.status = @] = x
        BY <2>3 DEF Rows
      <4> QED
        BY <1>7, <2>3, <4>1, <4>2
    <3> QED
      BY <3>1, <3>2
  <2>7. PICK y \in Rows : y = new
    BY <2>6
  <2>8. Writes("client", n, y) /\ y.quote = q /\ y.status # "Expired"
    BY <1>6, <1>9, <2>2, <2>6, <2>7
  <2> HIDE DEF i, new
  <2>9. RowsGrow /\ Market' = Market /\ PutAt(n, q)
    BY <2>8, ClientGrows
  <2>10. q = Head(toClient).quote
    BY <1>3, <1>5
  <2> QED
    BY <1>1, <2>9, <2>10, QuoteHeard
<1> QED
  BY <1>8, <1>9

\* The market hears that a quote is taken: it was under way.
LEMMA TakeHeard ==
  ASSUME TypeOK, PlacesOK, toMarket # << >>, toMarket' = Tail(toMarket), Takes(Head(toMarket)),
         NEW i \in DOMAIN Market, Market[i] \in Rows, Market[i].quote = Head(toMarket).quote,
         NEW o \in Nat, Writes("market", i, Taken(Market[i], o)), orders' \in Seq(Orders),
         UNCHANGED << trouble, toClient, hit, stream, sweep, past, minted, clean >>
  PROVE  Keeps
<1>1. PICK row \in Rows, new \in Rows : row = Market[i] /\ new = Taken(Market[i], o)
  BY TakenIs
<1>2. new.status = "Hit" /\ new.quote = Market[i].quote /\ Writes("market", i, new)
  BY <1>1, TakenIs
<1>3. /\ rfqs' \in [Sides -> Seq(Rows)] /\ \A u \in Sides : DOMAIN rfqs'[u] = DOMAIN rfqs[u]
      /\ Client' = Client /\ Market'[i] = new /\ DOMAIN Market' = DOMAIN Market
      /\ \A j \in DOMAIN Market : j # i => Market'[j] = Market[j]
  BY <1>2, WritesIs DEF Client, Market, Sides
<1>4. HitsStand
  BY <1>2, <1>3 DEF HitsStand
<1>5. Timely
  BY <1>2, <1>3 DEF Timely, Client, Market, Sides
<1>6. RowsGrow /\ TameRows
  BY <1>3, <1>4, <1>5 DEF RowsGrow, TameRows, Stands
<1>7. Head(toMarket) = toMarket[1]
  BY TailIs DEF TypeOK
<1>8. MarketHears
  BY <1>2, <1>3, <1>7 DEF MarketHears, TakenAtMarket, TakenNow
<1>9. TalkGoes /\ NewsGo /\ HitsFewer /\ MintedOK
  BY TalkHeard, NewsStay, HitsStay, MintedStays
<1>10. TypeOK'
  BY <1>6, <1>9 DEF TypeOK, RowsGrow, TalkGoes
<1>11. PlacesOK'
  BY <1>3, <1>6, StreamStays DEF PlacesOK, Sending, Stands
<1>12. QuotesInv => StreamOK'
  <2> SUFFICES ASSUME QuotesInv, Streaming
               PROVE  Market'[stream.at].quote = stream.quote /\ Market'[stream.at].status # "Hit"
    BY DEF StreamOK, Streaming
  <2>1. Market[stream.at].quote = stream.quote /\ Market[stream.at].status # "Hit" /\ stream.at \in DOMAIN Market
    BY DEF QuotesInv, StreamOK, PlacesOK, StreamPlaced
  <2>2. 1 \in DOMAIN toMarket /\ toMarket[1].quote = Market[i].quote /\ Market[i].quote \in Nat
    BY <1>7, TailIs, RowTypes DEF TypeOK
  <2>3. stream.quote # Market[i].quote
    <3>1. Known(Market[i].quote)
      BY <2>2 DEF Known
    <3> QED
      BY <2>2, <3>1 DEF QuotesInv, NewsOK, IsNew
  <2>4. stream.at # i
    BY <2>1, <2>3
  <2> QED
    BY <1>3, <2>1, <2>4
<1>13. QuotesInv => QuotesInv'
  BY <1>6, <1>8, <1>9, <1>12, TameStep
<1> QED
  BY <1>4, <1>5, <1>10, <1>11, <1>13 DEF Keeps

LEMMA HandleNewOrderStep ==
  ASSUME TypeOK, PlacesOK, HandleNewOrder, trouble' = trouble
  PROVE  Keeps
<1>1. /\ Reads(toMarket, "D") /\ toMarket' = Tail(toMarket)
      /\ UNCHANGED << trouble, toClient, hit, stream, sweep, past, minted, clean >>
  BY DEF HandleNewOrder
<1>2. PICK m \in ToMarket : m = Head(toMarket)
  BY <1>1, HeadIs DEF Reads
<1>3. m.type = "D" /\ Takes(m) /\ toMarket # << >>
  BY <1>1, <1>2 DEF Reads, Takes
<1>4. m.quote \in Nat /\ m.order \in Nat
  BY DEF ToMarket
<1>5. orders' \in Seq(Orders)
  <2>1. Order(m) \in Orders
    BY <1>3, <1>4 DEF Order, Orders
  <2>2. orders' = Append(orders, Order(m))
    BY <1>2 DEF HandleNewOrder
  <2> QED
    BY <2>1, <2>2 DEF TypeOK
<1> DEFINE i == ByQuote("market", m.quote)
<1>6. IF i = 0 THEN UNCHANGED rfqs ELSE Writes("market", i, Taken(Market[i], m.order))
  BY <1>2 DEF HandleNewOrder, Market
<1>7. CASE i = 0
  <2>1. UNCHANGED rfqs
    BY <1>6, <1>7
  <2>2. RowsGrow /\ TameRows /\ TameMarket /\ TalkGoes /\ NewsGo /\ MintedOK /\ HitsFewer
    BY <1>1, <1>3, <2>1, RowsStay, TalkHeard, NewsStay, MintedStays, HitsStay
  <2>3. TypeOK'
    BY <1>1, <1>5, <2>1, <2>2 DEF TypeOK, TalkGoes
  <2>4. PlacesOK'
    BY <1>1, <2>1, <2>2, StreamStays DEF PlacesOK, Sending, Stands, Client
  <2>5. QuotesInv => QuotesInv'
    BY <1>1, <2>2, TameStep, TameIsHeard
  <2> QED
    BY <1>1, <2>2, <2>3, <2>4, <2>5, TameIsHeard DEF RowsGrow, Keeps
<1>8. CASE i # 0
  <2>1. i \in DOMAIN Market /\ Market[i] \in Rows /\ Market[i].quote = m.quote
    BY <1>4, <1>8, ByQuoteIs DEF Market, Sides
  <2>2. PICK n \in DOMAIN Market : n = i
    BY <2>1
  <2>3. PICK o \in Nat : o = m.order
    BY <1>4
  <2>4. /\ Writes("market", n, Taken(Market[n], o)) /\ Market[n] \in Rows
        /\ Market[n].quote = Head(toMarket).quote /\ Takes(Head(toMarket))
    BY <1>2, <1>3, <1>6, <1>8, <2>1, <2>2, <2>3
  <2> HIDE DEF i
  <2> QED
    BY <1>1, <1>3, <1>5, <2>4, TakeHeard
<1> QED
  BY <1>7, <1>8

LEMMA HandleQuoteResponseStep ==
  ASSUME TypeOK, PlacesOK, HandleQuoteResponse, trouble' = trouble
  PROVE  Keeps
<1>1. /\ Reads(toMarket, "AJ") /\ toMarket' = Tail(toMarket)
      /\ UNCHANGED << trouble, toClient, hit, stream, sweep, past, minted, clean >>
  BY DEF HandleQuoteResponse
<1>2. PICK m \in ToMarket : m = Head(toMarket)
  BY <1>1, HeadIs DEF Reads
<1>3. m.type = "AJ" /\ toMarket # << >>
  BY <1>1, <1>2 DEF Reads
<1>4. m.quote \in Nat /\ m.order \in Nat
  BY DEF ToMarket
<1> DEFINE i == ByQuote("market", m.quote)
           row == Market[i]
<1>5. IF i = 0 THEN UNCHANGED << rfqs, orders >>
      ELSE /\ Writes("market", i,
                     CASE m.kind = "Counter" -> [row EXCEPT !.status = "Countered", !.slot = "Counter"]
                       [] m.kind = "Hit" -> Taken(row, m.order)
                       [] OTHER -> Closed(row, "Passed"))
           /\ orders' = IF m.kind = "Hit" THEN Append(orders, Order(m)) ELSE orders
  BY <1>2 DEF HandleQuoteResponse, Market
<1>6. CASE i = 0
  <2>1. UNCHANGED << rfqs, orders >>
    BY <1>5, <1>6
  <2>2. RowsGrow /\ TameRows /\ TameMarket /\ TalkGoes /\ NewsGo /\ MintedOK /\ HitsFewer
    BY <1>1, <1>3, <2>1, RowsStay, TalkHeard, NewsStay, MintedStays, HitsStay
  <2>3. Others
    BY <1>1, <2>1 DEF Others, TypeOK
  <2> QED
    BY <1>1, <2>2, <2>3, Tamed, TameIsHeard
<1>7. CASE i # 0
  <2>1. i \in DOMAIN Market /\ row \in Rows /\ row.quote = m.quote
    BY <1>4, <1>7, ByQuoteIs DEF Market, Sides
  <2>2. PICK n \in DOMAIN Market, r \in Rows : n = i /\ r = row
    BY <2>1
  <2>3. r = Market[n] /\ r.quote = m.quote
    BY <2>1, <2>2
  <2>4. CASE m.kind = "Hit"
    <3>1. PICK o \in Nat : o = m.order
      BY <1>4
    <3>2. Writes("market", n, Taken(Market[n], o)) /\ orders' = Append(orders, Order(m))
      BY <1>5, <1>7, <2>2, <2>4, <3>1
    <3>3. orders' \in Seq(Orders)
      <4>1. Order(m) \in Orders
        BY <1>3, <1>4 DEF Order, Orders
      <4> QED
        BY <3>2, <4>1 DEF TypeOK
    <3>4. Takes(Head(toMarket)) /\ Market[n] \in Rows /\ Market[n].quote = Head(toMarket).quote
      BY <1>2, <1>3, <2>3, <2>4 DEF Takes
    <3> HIDE DEF i, row
    <3> QED
      BY <1>1, <1>3, <3>2, <3>3, <3>4, TakeHeard
  <2>5. CASE m.kind # "Hit"
    <3>1. "Countered" \in Statuses /\ "Passed" \in Statuses
      BY DEF Statuses, LIVE_QUOTE, FINAL_RFQ
    <3>2. orders' = orders
      BY <1>5, <1>7, <2>5
    <3>3. \/ Writes("market", n, [r EXCEPT !.status = "Countered", !.slot = "Counter"])
          \/ Writes("market", n, Closed(r, "Passed"))
      BY <1>5, <1>7, <2>2, <2>5
    <3>4. PICK new \in Rows : /\ Writes("market", n, new) /\ new.status # "Hit" /\ new.status # "Expired"
                             /\ new.quote = r.quote
      <4>1. CASE Writes("market", n, Closed(r, "Passed"))
        BY <3>1, <4>1, ClosedIs
      <4>2. CASE Writes("market", n, [r EXCEPT !.status = "Countered", !.slot = "Counter"])
        <5> DEFINE x == [r EXCEPT !.status = "Countered", !.slot = "Counter"]
        <5>1. x \in Rows /\ x.status = "Countered" /\ x.quote = r.quote
          BY <3>1 DEF Rows
        <5> HIDE DEF x
        <5>2. Writes("market", n, x)
          BY <4>2 DEF x
        <5> QED
          BY <5>1, <5>2
      <4> QED
        BY <3>3, <4>1, <4>2
    <3>5. QuotesInv => Market[n].status # "Hit"
      <4> HAVE QuotesInv
      <4>1. Head(toMarket) = toMarket[1] /\ 1 \in DOMAIN toMarket
        BY <1>3, TailIs DEF TypeOK
      <4>2. Declines(toMarket[1]) /\ toMarket[1].quote = m.quote
        BY <1>2, <1>3, <2>5, <4>1 DEF Declines
      <4>3. ~TakenAtMarket(m.quote)
        BY <4>1, <4>2 DEF QuotesInv, DeclinedUntaken
      <4> QED
        BY <2>3, <4>3 DEF TakenAtMarket
    <3>6. QuotesInv => MarketHears /\ HitsStand /\ StreamOK'
      BY <1>1, <2>3, <3>4, <3>5, MarketWrites, TameIsHeard
    <3>7. TalkGoes /\ NewsGo /\ MintedOK /\ HitsFewer
      BY <1>1, <1>3, TalkHeard, NewsStay, MintedStays, HitsStay
    <3>8. Others
      BY <1>1, <3>2 DEF Others, TypeOK
    <3>9. RowsGrow /\ TameRows
      BY <3>4, MarketGrows
    <3> QED
      BY <3>6, <3>7, <3>8, <3>9, Tamed
  <2> QED
    BY <2>4, <2>5
<1> QED
  BY <1>6, <1>7

-----------------------------------------------------------------------------
(* The steps of which the quotes need no account.                           *)

LEMMA SendRfqStep ==
  ASSUME TypeOK, PlacesOK, SendRfq, trouble' = trouble
  PROVE  Keeps
<1>1. PICK n \in UpTo("rfq") :
        /\ Mints("rfq", n)
        /\ \/ /\ Adds("client", NewRow("rfq", n, 0, "Open"))
              /\ SendsToMarket(QuoteRequest(n)) /\ UNCHANGED toClient
           \/ Adds("client", NewRow("rfq", n, 0, "Failed")) /\ Loses
        /\ UNCHANGED << hit, stream, orders, sweep, past >>
  BY DEF SendRfq
<1>2. n \in Nat
  BY UpToIs DEF Kinds
<1>3. MintedOK
  BY <1>1, <1>2, MintsIs DEF Kinds
<1>4. PICK status \in {"Open", "Failed"} : Adds("client", NewRow("rfq", n, 0, status))
  BY <1>1
<1>5. status \in Statuses /\ status \notin LIVE_QUOTE
  BY DEF Statuses, LIVE_QUOTE, FINAL_RFQ
<1>6. PICK row \in Rows : row = NewRow("rfq", n, 0, status) /\ row.quote = 0 /\ ~Stands(row)
  BY <1>2, <1>5, NewRowIs DEF Stands
<1>7. RowsGrow /\ TameRows /\ TameMarket
  BY <1>4, <1>6, ClientAdds
<1>8. TalkGoes
  <2>1. CASE SendsToMarket(QuoteRequest(n))
    BY <1>2, <2>1, TalkAsks DEF SendsToMarket
  <2>2. CASE Loses
    BY <2>2, TalkStays DEF Loses
  <2> QED
    BY <1>1, <2>1, <2>2
<1>9. toClient' = toClient /\ clean' \in BOOLEAN
  BY <1>1 DEF SendsToMarket, Loses, TypeOK
<1>10. NewsGo /\ HitsFewer /\ Others
  BY <1>1, <1>9, NewsStay, HitsStay DEF Others
<1> QED
  BY <1>1, <1>3, <1>7, <1>8, <1>10, Tamed, TameIsHeard

LEMMA CancelHeardStep ==
  ASSUME TypeOK, PlacesOK, HandleQuoteCancel, trouble' = trouble
  PROVE  Keeps
<1>1. /\ Reads(toClient, "Z") /\ toClient' = Tail(toClient)
      /\ UNCHANGED << trouble, toMarket, hit, stream, orders, sweep, past, minted, clean >>
  BY DEF HandleQuoteCancel
<1>2. PICK ended : rfqs' = [rfqs EXCEPT !["client"] =
                              [j \in DOMAIN @ |-> IF j \in ended THEN Closed(@[j], "Canceled") ELSE @[j]]]
  BY DEF HandleQuoteCancel
<1> DEFINE new == [j \in DOMAIN Client |-> IF j \in ended THEN Closed(Client[j], "Canceled") ELSE Client[j]]
<1>3. rfqs' = [rfqs EXCEPT !["client"] = new] /\ Client \in Seq(Rows) /\ rfqs \in [Sides -> Seq(Rows)]
  BY <1>2 DEF Client, TypeOK, Sides
<1>4. "Canceled" \in Statuses /\ "Canceled" \notin LIVE_QUOTE
  BY DEF Statuses, LIVE_QUOTE
<1>5. ASSUME NEW j \in DOMAIN Client
      PROVE  /\ new[j] \in Rows /\ new[j].quote = Client[j].quote /\ (Stands(new[j]) => Stands(Client[j]))
             /\ new[j].status = "Expired" => Client[j].status = "Expired"
  <2>1. Client[j] \in Rows
    BY <1>3
  <2>2. CASE j \in ended
    BY <1>4, <2>1, <2>2, ClosedIs DEF Stands
  <2>3. CASE j \notin ended
    BY <2>1, <2>3
  <2> QED
    BY <2>2, <2>3
<1>6. DOMAIN new = DOMAIN Client
  OBVIOUS
<1> HIDE DEF new
<1>7. new \in Seq(Rows)
  <2>1. DOMAIN Client = 1 .. Len(Client) /\ Len(Client) \in Nat
    BY <1>3
  <2>2. new = [j \in 1 .. Len(Client) |-> new[j]]
    BY <2>1 DEF new
  <2> QED
    BY <1>5, <1>6, <2>1, <2>2
<1>8. /\ rfqs' \in [Sides -> Seq(Rows)] /\ Client' = new /\ Market' = Market
      /\ \A s \in Sides : DOMAIN rfqs'[s] = DOMAIN rfqs[s]
  BY <1>3, <1>6, <1>7 DEF Client, Market, Sides
<1>9. TameMarket
  BY <1>8 DEF HitsStand, TameMarket
<1>10. Timely
  BY <1>5, <1>8 DEF Timely, Sides, Client, Market
<1>11. TameRows
  BY <1>5, <1>6, <1>8 DEF TameRows, Stands
<1>12. RowsGrow
  BY <1>8, <1>9, <1>10 DEF RowsGrow
<1>13. TalkGoes /\ NewsGo /\ HitsFewer /\ MintedOK
  BY <1>1, TalkStays, NewsHeard, HitsStay, MintedStays DEF Reads
<1>14. Others
  BY <1>1 DEF Others, TypeOK
<1> QED
  BY <1>1, <1>9, <1>11, <1>12, <1>13, <1>14, Tamed, TameIsHeard

LEMMA RejectHeardStep ==
  ASSUME TypeOK, PlacesOK, HandleQuoteRequestReject, trouble' = trouble
  PROVE  Keeps
<1>1. /\ Reads(toClient, "AG") /\ toClient' = Tail(toClient)
      /\ UNCHANGED << trouble, toMarket, hit, stream, orders, sweep, past, minted, clean >>
  BY DEF HandleQuoteRequestReject
<1>2. RowsGrow /\ TameRows /\ TameMarket
  <2> DEFINE i == ByReq("client", Head(toClient).req)
  <2>1. CASE i = 0
    BY <2>1, RowsStay DEF HandleQuoteRequestReject
  <2>2. CASE i # 0
    <3>1. PICK n \in DOMAIN Client, row \in Rows : n = i /\ row = Client[n]
      BY <2>2, ByReqIs DEF Client, Sides
    <3>2. Writes("client", n, Closed(row, "Rejected"))
      BY <2>2, <3>1 DEF HandleQuoteRequestReject, Client
    <3>3. "Rejected" \in Statuses /\ "Rejected" \notin LIVE_QUOTE
      BY DEF Statuses, LIVE_QUOTE, FINAL_RFQ
    <3>4. PICK new \in Rows : new = Closed(row, "Rejected") /\ new.quote = row.quote /\ new.status = "Rejected"
      BY <3>3, ClosedIs
    <3> QED
      BY <3>1, <3>2, <3>3, <3>4, ClientWrites DEF Stands
  <2> QED
    BY <2>1, <2>2
<1>3. TalkGoes /\ NewsGo /\ HitsFewer /\ MintedOK
  BY <1>1, TalkStays, NewsHeard, HitsStay, MintedStays DEF Reads
<1>4. Others
  BY <1>1 DEF Others, TypeOK
<1> QED
  BY <1>1, <1>2, <1>3, <1>4, Tamed, TameIsHeard

LEMMA ReportHeardStep ==
  ASSUME TypeOK, PlacesOK, HandleQuoteStatusReport, trouble' = trouble
  PROVE  Keeps
<1>1. /\ Reads(toClient, "AI") /\ toClient' = Tail(toClient)
      /\ UNCHANGED << trouble, toMarket, hit, stream, orders, sweep, past, minted, clean >>
  BY DEF HandleQuoteStatusReport
<1>2. PICK m \in ToClient : m = Head(toClient)
  BY <1>1, HeadIs DEF Reads
<1>3. trouble = "foreign" /\ m.kind \in {"Canceled", "Expired"} /\ m.quote \in Nat
  <2>1. Head(toClient) = toClient[1] /\ 1 \in DOMAIN toClient
    BY <1>1, TailIs DEF Reads, TypeOK
  <2>2. toClient[1].type = "AI"
    BY <1>1, <2>1 DEF Reads
  <2> QED
    BY <1>2, <2>1, <2>2 DEF PlacesOK, ToClient
<1>4. RowsGrow /\ TameRows /\ TameMarket
  <2> DEFINE i == FirstOf(ByQuote("client", m.quote), ByReq("client", m.req))
  <2>1. CASE UNCHANGED rfqs
    BY <2>1, RowsStay
  <2>2. CASE i # 0 /\ Writes("client", i, [Client[i] EXCEPT !.status = m.kind])
    <3>1. PICK n \in DOMAIN Client, row \in Rows : n = i /\ row = Client[n]
      BY <1>3, <2>2, ByReqIs, ByQuoteIs DEF Client, Sides, FirstOf
    <3> DEFINE new == [row EXCEPT !.status = m.kind]
    <3>2. Writes("client", n, new)
      BY <2>2, <3>1
    <3>3. m.kind \in Statuses /\ m.kind \notin LIVE_QUOTE
      BY <1>3 DEF Statuses, LIVE_QUOTE
    <3>4. new \in Rows /\ new.quote = row.quote /\ new.status = m.kind
      BY <3>3 DEF Rows
    <3> HIDE DEF new
    <3> QED
      BY <1>3, <3>1, <3>2, <3>3, <3>4, ClientWrites DEF Stands
  <2> QED
    BY <1>2, <2>1, <2>2 DEF HandleQuoteStatusReport, Client
<1>5. TalkGoes /\ NewsGo /\ HitsFewer /\ MintedOK
  BY <1>1, TalkStays, NewsHeard, HitsStay, MintedStays DEF Reads
<1>6. Others
  BY <1>1 DEF Others, TypeOK
<1> QED
  BY <1>1, <1>4, <1>5, <1>6, Tamed, TameIsHeard

\* What the market answers on a row that is not Hit.
LEMMA AnswersStep ==
  ASSUME TypeOK, PlacesOK, NEW i \in DOMAIN Market, NEW row \in Rows, NEW m \in ToClient,
         Answers(i, row, m), Market[i].status # "Hit", row.status # "Hit", row.status # "Expired",
         m.type # "AI", m.type = "S" => m.quote = minted.quote + 1 /\ minted'.quote = minted.quote + 1,
         MintedOK, UNCHANGED << trouble, hit, stream, orders, sweep, past >>
  PROVE  Keeps
<1>1. RowsGrow /\ TameRows /\ TameMarket
  BY MarketWrites DEF Answers, Streaming
<1>2. CASE SendsToClient(m) /\ UNCHANGED toMarket
  <2>1. toClient' = Append(toClient, m) /\ clean' \in BOOLEAN
    BY <1>2 DEF SendsToClient, TypeOK
  <2>2. NewsGo /\ TalkGoes /\ HitsFewer /\ Others
    BY <1>2, <2>1, NewsSaid, TalkStays, HitsStay DEF Others
  <2> QED
    BY <1>1, <2>2, Tamed, TameIsHeard
<1>3. CASE Loses
  <2>1. clean' \in BOOLEAN /\ UNCHANGED << toMarket, toClient >>
    BY <1>3 DEF Loses
  <2>2. NewsGo /\ TalkGoes /\ HitsFewer /\ Others
    BY <2>1, NewsStay, TalkStays, HitsStay DEF Others
  <2> QED
    BY <1>1, <2>2, Tamed, TameIsHeard
<1> QED
  BY <1>2, <1>3 DEF Answers

LEMMA QuoteRowStep ==
  ASSUME TypeOK, PlacesOK, NEW i \in DOMAIN Market, NEW n \in UpTo("quote"), QuoteRow(i, n),
         UNCHANGED << trouble, hit, stream, orders, sweep, past >>
  PROVE  Keeps
<1>1. n \in Nat
  BY UpToIs DEF Kinds
<1>2. PICK row \in Rows : row = Market[i]
  BY DEF Market, TypeOK, Sides
<1>3. row.status \notin FINAL_RFQ /\ Mints("quote", n) /\ Answers(i, Quoted(row, n), Quote(row.req, n))
  BY <1>2 DEF QuoteRow, Market
<1>4. MintedOK /\ n = minted.quote + 1 /\ minted'.quote = minted.quote + 1
  BY <1>1, <1>3, MintsIs DEF Kinds
<1>5. PICK new \in Rows : new = Quoted(row, n) /\ new.status = "Quoted"
  BY <1>1, QuotedIs
<1> DEFINE m == Quote(row.req, n)
<1>6. m \in ToClient /\ m.quote = n /\ m.type = "S"
  BY <1>1 DEF Quote, Msg, ToClient, Rows
<1>7. row.status # "Hit"
  BY <1>3 DEF FINAL_RFQ
<1> HIDE DEF m
<1>8. Answers(i, new, m)
  BY <1>3, <1>5 DEF m
<1> QED
  BY <1>2, <1>4, <1>5, <1>6, <1>7, <1>8, AnswersStep

LEMMA QuotingStep ==
  ASSUME TypeOK, PlacesOK, QuoteRfq \/ Requote, trouble' = trouble
  PROVE  Keeps
<1>1. UNCHANGED << trouble, hit, stream, orders, sweep, past >>
  BY DEF QuoteRfq, Requote
<1>2. CASE QuoteRfq
  <2>1. PICK r \in UpTo("rfq"), n \in UpTo("quote") : ByReq("market", r) # 0 /\ QuoteRow(ByReq("market", r), n)
    BY <1>2 DEF QuoteRfq
  <2>2. PICK i \in DOMAIN Market : i = ByReq("market", r)
    BY <2>1, ByReqIs DEF Market, Sides
  <2> QED
    BY <1>1, <2>1, <2>2, QuoteRowStep
<1>3. CASE Requote
  <2>1. PICK q \in UpTo("quote"), n \in UpTo("quote") : ByQuote("market", q) # 0 /\ QuoteRow(ByQuote("market", q), n)
    BY <1>3 DEF Requote
  <2>2. q \in Nat
    BY UpToIs DEF Kinds
  <2>3. PICK i \in DOMAIN Market : i = ByQuote("market", q)
    BY <2>1, <2>2, ByQuoteIs DEF Market, Sides
  <2> QED
    BY <1>1, <2>1, <2>3, QuoteRowStep
<1> QED
  BY <1>2, <1>3

\* A quote is written on a row that is not Hit, and has still to be sent.
LEMMA StreamBegins ==
  ASSUME TypeOK, PlacesOK, ~Streaming, RowsGrow, TameRows,
         NEW n \in Nat, Mints("quote", n), NEW at \in Nat, NEW back \in Rows, back.status \notin {"Hit", "Expired"},
         stream' = [step |-> "sending", quote |-> n, at |-> at, back |-> back],
         at \in DOMAIN Market', Market'[at].quote = n, Market'[at].status # "Hit",
         HitsStand, MarketHears,
         UNCHANGED << trouble, toMarket, toClient, hit, orders, sweep, past >>, clean' \in BOOLEAN
  PROVE  Keeps
<1>1. MintedOK /\ n = minted.quote + 1 /\ minted'.quote = minted.quote + 1
  BY MintsIs DEF Kinds
<1> DEFINE new == [step |-> "sending", quote |-> n, at |-> at, back |-> back]
<1>2. new \in Streams /\ new.quote = n /\ new.at = at /\ new.back = back
  BY DEF Streams
<1>3. stream' = new
  OBVIOUS
<1> HIDE DEF new
<1>4. StreamPlaced' /\ StreamOK'
  BY <1>2, <1>3 DEF StreamPlaced, StreamOK
<1>5. NewsGo
  <2>1. \A k \in DOMAIN toClient : k + 0 = k
    BY DEF TypeOK
  <2>2. TameNews
    BY <1>1, <1>2, <1>3, <2>1 DEF TameNews, TameStream
  <2> QED
    BY <2>2 DEF TypeOK, PlacesOK, ReportsOK, NewsGo
<1>6. TalkGoes /\ HitsFewer /\ Others
  BY <1>2, <1>3, <1>4, TalkStays, HitsStay DEF Others
<1> QED
  BY <1>1, <1>4, <1>5, <1>6, Tamed

LEMMA SendQuoteStep ==
  ASSUME TypeOK, PlacesOK, SendQuote, trouble' = trouble
  PROVE  Keeps
<1> DEFINE i == LiveChain("market")
           fresh(n) == NewRow("quote", 0, n, "Quoted")
           failed(n) == [fresh(n) EXCEPT !.status = "Failed"]
<1>1. PICK n \in UpTo("quote") :
        /\ Mints("quote", n)
        /\ IF i = 0
           THEN /\ Adds("market", fresh(n))
                /\ stream' = [step |-> "sending", quote |-> n, at |-> Len(Market) + 1, back |-> failed(n)]
           ELSE /\ Writes("market", i, Quoted(Market[i], n))
                /\ stream' = [step |-> "sending", quote |-> n, at |-> i, back |-> Market[i]]
  BY DEF SendQuote, Market
<1>2. n \in Nat
  BY UpToIs DEF Kinds
<1>3. ~Streaming /\ UNCHANGED << trouble, toMarket, toClient, hit, orders, sweep, past >> /\ clean' \in BOOLEAN
  BY DEF SendQuote, TypeOK
<1>4. "Quoted" \in Statuses /\ "Failed" \in Statuses
  BY DEF Statuses, LIVE_QUOTE, FINAL_RFQ
<1>5. CASE i = 0
  <2>1. PICK new \in Rows : new = fresh(n) /\ new.status = "Quoted" /\ new.quote = n
    BY <1>2, <1>4, NewRowIs
  <2>2. PICK back \in Rows : back = failed(n) /\ back.status = "Failed"
    <3>1. [new EXCEPT !.status = "Failed"] \in Rows /\ [new EXCEPT !.status = "Failed"].status = "Failed"
      BY <1>4 DEF Rows
    <3> QED
      BY <2>1, <3>1
  <2>3. PICK at \in Nat : at = Len(Market) + 1
    BY DEF TypeOK, Market, Sides
  <2>4. Adds("market", new) /\ stream' = [step |-> "sending", quote |-> n, at |-> at, back |-> back]
    BY <1>1, <1>5, <2>1, <2>2, <2>3
  <2> HIDE DEF fresh, failed
  <2>5. RowsGrow /\ TameRows /\ TameMarket
    BY <2>1, <2>4, MarketAdds
  <2>6. HitsStand /\ MarketHears
    BY <2>5 DEF TameMarket, MarketHears, TakenAtMarket
  <2>7. at \in DOMAIN Market' /\ Market'[at] = new
    BY <2>3, <2>4, AddsIs DEF Market, Sides
  <2> QED
    BY <1>1, <1>2, <1>3, <2>1, <2>2, <2>4, <2>5, <2>6, <2>7, StreamBegins
<1>6. CASE i # 0
  <2>1. PICK at \in DOMAIN Market, row \in Rows : at = i /\ row = Market[at] /\ Stands(row)
    BY <1>6, LiveChainIs DEF Market, Sides
  <2>2. at \in Nat /\ row.status \notin {"Hit", "Expired"}
    BY <2>1 DEF Stands, LIVE_QUOTE, TypeOK, Market, Sides
  <2>3. PICK new \in Rows : new = Quoted(row, n) /\ new.status = "Quoted" /\ new.quote = n
    BY <1>2, QuotedIs
  <2>4. Writes("market", at, new) /\ stream' = [step |-> "sending", quote |-> n, at |-> at, back |-> row]
    BY <1>1, <1>6, <2>1, <2>3
  <2>5. RowsGrow /\ TameRows
    BY <2>3, <2>4, MarketGrows
  <2>6. /\ Market'[at] = new /\ DOMAIN Market' = DOMAIN Market
        /\ \A j \in DOMAIN Market : j # at => Market'[j] = Market[j]
    BY <2>4, WritesIs DEF Market, Sides
  <2>7. HitsStand /\ MarketHears
    BY <2>1, <2>2, <2>3, <2>6 DEF HitsStand, MarketHears, TakenAtMarket
  <2> QED
    BY <1>1, <1>2, <1>3, <2>2, <2>3, <2>4, <2>5, <2>6, <2>7, StreamBegins
<1> QED
  BY <1>5, <1>6

\* The quote leaves, or its row is put back: nobody can have taken it.
LEMMA StreamQuoteStep ==
  ASSUME TypeOK, PlacesOK, StreamQuote, trouble' = trouble
  PROVE  Keeps
<1>1. /\ Streaming /\ stream' = Rest /\ ~Streaming'
      /\ UNCHANGED << trouble, hit, orders, sweep, past, minted >>
  BY DEF StreamQuote, Streaming, Rest
<1>2. stream \in Streams /\ stream.quote \in Nat /\ stream.back \in Rows
  <2>1. stream # Rest
    BY <1>1 DEF Streaming, Rest
  <2> QED
    BY <2>1 DEF TypeOK, Streams
<1>3. MintedOK /\ HitsFewer
  BY <1>1, MintedStays, HitsStay
<1>4. StreamOK'
  BY <1>1 DEF StreamOK
<1> DEFINE m == Quote(0, stream.quote)
<1>5. m \in ToClient /\ m.quote = stream.quote /\ m.type = "S"
  BY <1>2 DEF Quote, Msg, ToClient
<1>6. CASE UNCHANGED << rfqs, toMarket >> /\ SendsToClient(m)
  <2> HIDE DEF m
  <2>1. toClient' = Append(toClient, m) /\ clean' \in BOOLEAN
    BY <1>6 DEF SendsToClient, TypeOK
  <2>2. RowsGrow /\ TameRows /\ TameMarket /\ TalkGoes
    BY <1>6, RowsStay, TalkStays
  <2>3. NewsGo
    BY <1>1, <1>5, <2>1, NewsSaid
  <2>4. Others
    BY <1>1, <2>1 DEF Others
  <2> QED
    BY <1>1, <1>3, <2>2, <2>3, <2>4, Tamed, TameIsHeard
<1>7. CASE Loses /\ Writes("market", stream.at, stream.back)
  <2>1. clean' \in BOOLEAN /\ UNCHANGED << toMarket, toClient >>
    BY <1>7 DEF Loses
  <2>2. PICK at \in DOMAIN Market, back \in Rows :
          at = stream.at /\ back = stream.back /\ back.status \notin {"Hit", "Expired"}
    BY <1>1, <1>2 DEF PlacesOK, StreamPlaced
  <2>3. Writes("market", at, back)
    BY <1>7, <2>2
  <2>4. RowsGrow /\ TameRows
    BY <2>2, <2>3, MarketGrows
  <2>5. /\ Market'[at] = back /\ DOMAIN Market' = DOMAIN Market
        /\ \A j \in DOMAIN Market : j # at => Market'[j] = Market[j]
    BY <2>3, WritesIs DEF Market, Sides
  <2>6. QuotesInv => MarketHears /\ HitsStand
    <3>1. QuotesInv => Market[at].status # "Hit"
      BY <1>1, <2>2 DEF QuotesInv, StreamOK
    <3> QED
      BY <2>2, <2>5, <3>1 DEF HitsStand, MarketHears, TakenAtMarket
  <2>7. TalkGoes
    BY <2>1, TalkStays
  <2>8. NewsGo
    <3>1. \A k \in DOMAIN toClient : k + 0 = k
      BY DEF TypeOK
    <3>2. TameNews
      BY <1>1, <2>1, <3>1 DEF TameNews, TameStream
    <3> QED
      BY <2>1, <3>2 DEF TypeOK, PlacesOK, ReportsOK, NewsGo
  <2>9. Others
    BY <1>1, <2>1 DEF Others
  <2> QED
    BY <1>3, <1>4, <2>4, <2>6, <2>7, <2>8, <2>9, Tamed
<1> QED
  BY <1>6, <1>7 DEF StreamQuote

LEMMA RejectRfqStep ==
  ASSUME TypeOK, PlacesOK, RejectRfq, trouble' = trouble
  PROVE  Keeps
<1>1. PICK r \in UpTo("rfq") :
        /\ ByReq("market", r) # 0 /\ Market[ByReq("market", r)].status \notin FINAL_RFQ
        /\ Answers(ByReq("market", r), Closed(Market[ByReq("market", r)], "Rejected"), QuoteRequestReject(r))
  BY DEF RejectRfq, Market
<1>2. r \in Nat
  BY UpToIs DEF Kinds
<1>3. PICK i \in DOMAIN Market, row \in Rows : i = ByReq("market", r) /\ row = Market[i]
  BY <1>1, ByReqIs DEF Market, Sides
<1>4. "Rejected" \in Statuses
  BY DEF Statuses, FINAL_RFQ
<1>5. PICK new \in Rows : new = Closed(row, "Rejected") /\ new.status = "Rejected"
  BY <1>4, ClosedIs
<1> DEFINE m == QuoteRequestReject(r)
<1>6. m \in ToClient /\ m.type = "AG"
  BY <1>2 DEF QuoteRequestReject, Msg, ToClient
<1>7. Market[i].status # "Hit"
  BY <1>1, <1>3 DEF FINAL_RFQ
<1> HIDE DEF m
<1>8. Answers(i, new, m)
  BY <1>1, <1>3, <1>5 DEF m
<1>9. MintedOK /\ UNCHANGED << trouble, hit, stream, orders, sweep, past >>
  BY MintedStays DEF RejectRfq
<1> QED
  BY <1>5, <1>6, <1>7, <1>8, <1>9, AnswersStep

LEMMA CancelQuoteStep ==
  ASSUME TypeOK, PlacesOK, CancelQuote, trouble' = trouble
  PROVE  Keeps
<1>1. PICK q \in UpTo("quote") :
        /\ ByQuote("market", q) # 0 /\ Market[ByQuote("market", q)].status \in LIVE_QUOTE
        /\ Answers(ByQuote("market", q), Closed(Market[ByQuote("market", q)], "Canceled"),
                   QuoteCancel(Market[ByQuote("market", q)].req, q, ""))
  BY DEF CancelQuote, Market
<1>2. q \in Nat
  BY UpToIs DEF Kinds
<1>3. PICK i \in DOMAIN Market, row \in Rows : i = ByQuote("market", q) /\ row = Market[i]
  BY <1>1, <1>2, ByQuoteIs DEF Market, Sides
<1>4. "Canceled" \in Statuses
  BY DEF Statuses
<1>5. PICK new \in Rows : new = Closed(row, "Canceled") /\ new.status = "Canceled"
  BY <1>4, ClosedIs
<1> DEFINE m == QuoteCancel(row.req, q, "")
<1>6. m \in ToClient /\ m.type = "Z"
  BY <1>2 DEF QuoteCancel, Msg, ToClient, Rows
<1>7. Market[i].status # "Hit"
  BY <1>1, <1>3 DEF LIVE_QUOTE
<1> HIDE DEF m
<1>8. Answers(i, new, m)
  BY <1>1, <1>3, <1>5 DEF m
<1>9. MintedOK /\ UNCHANGED << trouble, hit, stream, orders, sweep, past >>
  BY MintedStays DEF CancelQuote
<1> QED
  BY <1>5, <1>6, <1>7, <1>8, <1>9, AnswersStep

LEMMA RequestHeardStep ==
  ASSUME TypeOK, PlacesOK, HandleQuoteRequest, trouble' = trouble
  PROVE  Keeps
<1>1. /\ Reads(toMarket, "R") /\ toMarket' = Tail(toMarket)
      /\ UNCHANGED << trouble, toClient, hit, stream, orders, sweep, past, minted, clean >>
  BY DEF HandleQuoteRequest
<1>2. PICK m \in ToMarket : m = Head(toMarket)
  BY <1>1, HeadIs DEF Reads
<1>3. "Open" \in Statuses /\ m.req \in Nat
  BY DEF Statuses, ToMarket
<1>4. PICK new \in Rows : new = NewRow("rfq", m.req, 0, "Open") /\ new.status = "Open"
  BY <1>3, NewRowIs
<1>5. Adds("market", new)
  BY <1>2, <1>4 DEF HandleQuoteRequest
<1>6. RowsGrow /\ TameRows /\ TameMarket
  BY <1>4, <1>5, MarketAdds
<1>7. TalkGoes /\ NewsGo /\ HitsFewer /\ MintedOK
  BY <1>1, TalkHeard, NewsStay, HitsStay, MintedStays DEF Reads
<1>8. Others
  BY <1>1 DEF Others, TypeOK
<1> QED
  BY <1>1, <1>6, <1>7, <1>8, Tamed, TameIsHeard

LEMMA ForeignStep ==
  ASSUME TypeOK, PlacesOK, SayForeign, trouble' = trouble
  PROVE  Keeps
<1>1. trouble = "foreign" /\ clean' = FALSE /\ UNCHANGED << trouble, rfqs, toMarket, hit, stream, orders, sweep, past, minted >>
  BY DEF SayForeign
<1>2. minted.quote \in Nat
  BY DEF TypeOK
<1>3. PICK q \in 1 .. minted.quote :
        \/ toClient' = Append(toClient, QuoteStatusReport(q, "Canceled"))
        \/ toClient' = Append(toClient, QuoteStatusReport(q, "Expired"))
        \/ toClient' = Append(toClient, QuoteCancel(0, 0, "All"))
  BY DEF SayForeign
<1>4. q \in Nat
  BY <1>2
<1>5. PICK m \in ToClient : /\ toClient' = Append(toClient, m) /\ m.type # "S"
                            /\ m.type = "AI" => m.kind \in {"Canceled", "Expired"}
  <2>1. CASE toClient' = Append(toClient, QuoteCancel(0, 0, "All"))
    <3>1. QuoteCancel(0, 0, "All") \in ToClient /\ QuoteCancel(0, 0, "All").type = "Z"
      BY DEF QuoteCancel, Msg, ToClient
    <3> QED
      BY <2>1, <3>1
  <2>2. ASSUME NEW kind \in {"Canceled", "Expired"}, toClient' = Append(toClient, QuoteStatusReport(q, kind))
        PROVE  \E m \in ToClient : /\ toClient' = Append(toClient, m) /\ m.type # "S"
                                   /\ m.type = "AI" => m.kind \in {"Canceled", "Expired"}
    <3>1. /\ QuoteStatusReport(q, kind) \in ToClient /\ QuoteStatusReport(q, kind).type = "AI"
          /\ QuoteStatusReport(q, kind).kind = kind
      BY <1>4 DEF QuoteStatusReport, Msg, ToClient
    <3> QED
      BY <2>2, <3>1
  <2> QED
    BY <1>3, <2>1, <2>2
<1>6. NewsGo
  BY <1>1, <1>5, NewsSaid
<1>7. RowsGrow /\ TameRows /\ TameMarket /\ TalkGoes /\ HitsFewer /\ MintedOK
  BY <1>1, RowsStay, TalkStays, HitsStay, MintedStays
<1>8. Others
  BY <1>1 DEF Others
<1> QED
  BY <1>1, <1>6, <1>7, <1>8, Tamed, TameIsHeard

-----------------------------------------------------------------------------
(* Time.                                                                    *)

LEMMA TimeStep ==
  ASSUME TypeOK, PlacesOK, TimePasses, trouble' = trouble
  PROVE  Keeps
<1>1. /\ trouble = "clock" /\ past \subseteq past' /\ past' \subseteq past \cup (1 .. minted.quote)
      /\ UNCHANGED << trouble, rfqs, toMarket, toClient, hit, stream, orders, sweep, minted, clean >>
  BY DEF TimePasses
<1>2. RowsGrow /\ TameRows /\ TameMarket /\ TalkGoes /\ NewsGo /\ HitsFewer /\ MintedOK
  BY <1>1, RowsStay, TalkStays, NewsStay, HitsStay, MintedStays
<1>3. TypeOK'
  <2>1. minted.quote \in Nat /\ past \subseteq Nat
    BY DEF TypeOK
  <2>2. past' \subseteq Nat
    BY <1>1, <2>1
  <2> QED
    BY <1>1, <2>2 DEF TypeOK
<1>4. PlacesOK'
  BY <1>1, <1>2, StreamStays DEF PlacesOK, Sending, Stands, Client
<1>7. QuotesInv => QuotesInv'
  BY <1>1, <1>2, TameStep, TameIsHeard
<1> QED
  BY <1>1, <1>2, <1>3, <1>4, <1>7, TameIsHeard DEF Keeps, RowsGrow

LEMMA SweepStep ==
  ASSUME TypeOK, PlacesOK, NEW s \in Sides, Sweep(s), trouble' = trouble
  PROVE  Keeps
<1> DEFINE due == {j \in DOMAIN rfqs[s] : Overdue(rfqs[s][j])}
           found == {<< i, rfqs[s][i].quote >> : i \in due}
<1>1. /\ sweep' = [sweep EXCEPT ![s] = found]
      /\ UNCHANGED << trouble, rfqs, toMarket, toClient, hit, stream, orders, past, minted, clean >>
  BY DEF Sweep
<1>2. RowsGrow /\ TameRows /\ TameMarket /\ TalkGoes /\ NewsGo /\ HitsFewer /\ MintedOK
  BY <1>1, RowsStay, TalkStays, NewsStay, HitsStay, MintedStays
<1>3. rfqs[s] \in Seq(Rows) /\ DOMAIN rfqs[s] \subseteq Nat
  BY DEF TypeOK
<1>4. ASSUME NEW d \in found
      PROVE  d \in Nat \X Nat /\ d[1] \in DOMAIN rfqs[s] /\ d[2] \in past
  <2>1. PICK i \in due : d = << i, rfqs[s][i].quote >>
    OBVIOUS
  <2>2. rfqs[s][i].quote \in past /\ past \subseteq Nat
    BY <2>1 DEF Overdue, TypeOK
  <2> QED
    BY <1>3, <2>1, <2>2
<1> HIDE DEF found
<1>5. TypeOK'
  <2>1. found \in SUBSET (Nat \X Nat)
    BY <1>4
  <2>2. sweep' \in [Sides -> SUBSET (Nat \X Nat)]
    BY <1>1, <2>1 DEF TypeOK
  <2> QED
    BY <1>1, <2>2 DEF TypeOK
<1>6. PlacesOK'
  <2>1. \A u \in Sides : \A d \in sweep'[u] : d[1] \in DOMAIN rfqs[u] /\ d[2] \in past
    <3> SUFFICES ASSUME NEW u \in Sides, NEW d \in sweep'[u] PROVE d[1] \in DOMAIN rfqs[u] /\ d[2] \in past
      OBVIOUS
    <3>1. CASE u = s
      BY <1>1, <1>4, <3>1 DEF TypeOK
    <3>2. CASE u # s
      BY <1>1, <3>2 DEF PlacesOK, TypeOK
    <3> QED
      BY <3>1, <3>2
  <2> QED
    BY <1>1, <1>2, <2>1, StreamStays DEF PlacesOK, Sending, Stands, Client
<1>7. QuotesInv => QuotesInv'
  BY <1>1, <1>2, TameStep, TameIsHeard
<1> QED
  BY <1>1, <1>2, <1>5, <1>6, <1>7, TameIsHeard DEF Keeps, RowsGrow

LEMMA ExpireStep ==
  ASSUME TypeOK, PlacesOK, NEW s \in Sides, Expire(s), trouble' = trouble
  PROVE  Keeps
<1>1. PICK d \in sweep[s] :
        /\ sweep' = [sweep EXCEPT ![s] = @ \ {d}]
        /\ IF rfqs[s][d[1]].status \in LIVE_QUOTE /\ rfqs[s][d[1]].quote = d[2]
           THEN Writes(s, d[1], Closed(rfqs[s][d[1]], "Expired")) ELSE UNCHANGED rfqs
        /\ UNCHANGED << toMarket, toClient, hit, stream, orders, past, minted, clean >>
  BY DEF Expire
<1>2. PICK i \in DOMAIN rfqs[s] : i = d[1] /\ d[2] \in past
  BY DEF PlacesOK
<1>3. PICK row \in Rows : row = rfqs[s][i]
  BY DEF TypeOK
<1>4. "Expired" \in Statuses /\ "Expired" \notin LIVE_QUOTE /\ "Hit" \notin LIVE_QUOTE /\ "Expired" # "Hit"
  BY DEF Statuses, LIVE_QUOTE
<1>5. PICK new \in Rows : new = Closed(row, "Expired") /\ new.status = "Expired" /\ new.quote = row.quote
  BY <1>4, ClosedIs
<1>6. RowsGrow /\ TameRows /\ TameMarket
  <2>1. CASE UNCHANGED rfqs
    BY <2>1, RowsStay
  <2>2. CASE row.status \in LIVE_QUOTE /\ row.quote \in past /\ Writes(s, i, new)
    <3>1. CASE s = "client"
      BY <1>3, <1>4, <1>5, <2>2, <3>1, ClientWrites DEF Client, Stands
    <3>2. CASE s = "market"
      BY <1>3, <1>4, <1>5, <2>2, <3>2, MarketWrites DEF Market
    <3> QED
      BY <3>1, <3>2 DEF Sides
  <2> QED
    BY <1>1, <1>2, <1>3, <1>5, <2>1, <2>2
<1>7. TalkGoes /\ NewsGo /\ HitsFewer /\ MintedOK
  BY <1>1, TalkStays, NewsStay, HitsStay, MintedStays
<1>8. sweep' \in [Sides -> SUBSET (Nat \X Nat)] /\ \A u \in Sides : sweep'[u] \subseteq sweep[u]
  BY <1>1 DEF TypeOK
<1>9. TypeOK'
  BY <1>1, <1>6, <1>8 DEF TypeOK, RowsGrow
<1>10. PlacesOK'
  <2>1. DOMAIN Client \subseteq DOMAIN Client'
    BY <1>6 DEF RowsGrow, Client, Sides
  <2>2. \A u \in Sides : \A e \in sweep'[u] : e[1] \in DOMAIN rfqs'[u] /\ e[2] \in past
    BY <1>6, <1>8 DEF PlacesOK, RowsGrow
  <2> QED
    BY <1>1, <1>6, <2>1, <2>2, StreamStays DEF PlacesOK, Sending, Stands
<1>11. QuotesInv => QuotesInv'
  BY <1>1, <1>6, <1>7, TameStep, TameIsHeard
<1> QED
  BY <1>1, <1>6, <1>9, <1>10, <1>11, TameIsHeard DEF Keeps, RowsGrow

-----------------------------------------------------------------------------
(* The theorems.                                                            *)

LEMMA InitIInv == Init => IInv
<1> SUFFICES ASSUME Init PROVE IInv
  OBVIOUS
<1>1. TypeOK
  BY DEF Init, TypeOK
<1>2. /\ Client = << >> /\ Market = << >> /\ toMarket = << >> /\ toClient = << >> /\ minted.quote = 0
      /\ \A t \in Takers : ~Sending(t)
      /\ ~Streaming /\ \A s \in Sides : sweep[s] = {}
  BY DEF Init, Client, Market, Sides, Sending, Streaming, Rest
<1>3. PlacesOK
  BY <1>2 DEF PlacesOK, StreamPlaced
<1>4. NewsOK
  BY <1>2 DEF NewsOK, IsNew, Coming, IsQuote, Known, BeingTaken, TakenAtMarket
<1>5. StreamOK /\ OneRow /\ StandsUntaken /\ UndoneUntaken /\ DeclinedUntaken
  BY <1>2 DEF StreamOK, OneRow, StandsUntaken, UndoneUntaken, DeclinedUntaken
<1> QED
  BY <1>1, <1>3, <1>4, <1>5 DEF IInv, QuotesInv

LEMMA MovesKeep ==
  ASSUME TypeOK, PlacesOK, Next
  PROVE  Keeps
<1>1. trouble' = trouble /\ Moves
  BY DEF Next
<1>2. CASE \E t \in Takers, q \in UpTo("quote") : HitQuote(t, q) \/ OrderQuote(t, q)
  <2>1. PICK t \in Takers, q \in UpTo("quote") : HitQuote(t, q) \/ OrderQuote(t, q)
    BY <1>2
  <2>2. q \in Nat /\ \E type \in {"AJ", "D"} : Picks(t, q, type)
    BY <1>1, <2>1, PicksOf
  <2> QED
    BY <2>2, PicksStep
<1>3. CASE \E t \in Takers : SendHit(t)
  BY <1>1, <1>3, SendHitStep
<1>4. CASE \E q \in UpTo("quote") : Respond(q)
  BY <1>1, <1>4, RespondStep
<1>5. CASE SendRfq \/ HandleQuote \/ HandleQuoteCancel \/ HandleQuoteRequestReject \/ HandleQuoteStatusReport
  BY <1>1, <1>5, SendRfqStep, HandleQuoteStep, CancelHeardStep, RejectHeardStep, ReportHeardStep
<1>6. CASE QuoteRfq \/ Requote \/ SendQuote \/ StreamQuote \/ RejectRfq \/ CancelQuote
  BY <1>1, <1>6, QuotingStep, SendQuoteStep, StreamQuoteStep, RejectRfqStep, CancelQuoteStep
<1>7. CASE HandleQuoteRequest \/ HandleQuoteResponse \/ HandleNewOrder \/ SayForeign
  BY <1>1, <1>7, RequestHeardStep, HandleQuoteResponseStep, HandleNewOrderStep, ForeignStep
<1>8. CASE TimePasses \/ \E s \in Sides : Sweep(s) \/ Expire(s)
  BY <1>1, <1>8, TimeStep, SweepStep, ExpireStep
<1> QED
  BY <1>1, <1>2, <1>3, <1>4, <1>5, <1>6, <1>7, <1>8 DEF Moves

LEMMA NextIInv == IInv /\ [Next]_vars => IInv'
<1> SUFFICES ASSUME IInv, [Next]_vars PROVE IInv'
  OBVIOUS
<1>1. CASE Next
  BY <1>1, MovesKeep DEF IInv, Keeps
<1>2. CASE UNCHANGED vars
  <2>1. TypeOK' /\ PlacesOK'
    BY <1>2 DEF IInv, TypeOK, PlacesOK, StreamPlaced, Streaming, vars, changing, Sending, Stands, Client,
           Market
  <2>2. QuotesInv => NewsOK' /\ StreamOK' /\ OneRow'
    BY <1>2 DEF QuotesInv, NewsOK, StreamOK, Streaming, OneRow, IsNew, Coming, IsQuote, Known, BeingTaken, Sending, TakenAtMarket,
           Client, Market, vars, changing
  <2>3. QuotesInv => StandsUntaken' /\ UndoneUntaken' /\ DeclinedUntaken'
    BY <1>2 DEF QuotesInv, StandsUntaken, UndoneUntaken, DeclinedUntaken, TakenAtMarket, TakenUnderWay, BeingTaken,
           Sending, Takes, Declines, Stands, Client, Market, vars, changing
  <2> QED
    BY <2>1, <2>2, <2>3 DEF IInv, QuotesInv
<1> QED
  BY <1>1, <1>2

\* What the engine keeps of quotes is of its types; what a hit, a report or a timer is to
\* write on is there, and, where nobody undoes what another did, what is declined is not taken.
THEOREM QuotesInvEver == Spec => []IInv
  BY InitIInv, NextIInv, PTL DEF Spec

\* The trade stands: nothing undoes a quote the market's row says was taken - where
\* one taker does not put back the row that another has taken.
THEOREM HitStaysEver == ASSUME NobodyUndoes PROVE Spec => HitStays
<1> DEFINE Stay == \A i \in DOMAIN rfqs["market"] :
              rfqs["market"][i].status = "Hit" => rfqs'["market"][i].status = "Hit"
<1>1. IInv /\ [Next]_vars => [Stay]_rfqs
  <2>1. IInv /\ Next => Stay
    BY MovesKeep DEF IInv, Keeps, HitsStand, Market
  <2>2. UNCHANGED vars => UNCHANGED rfqs
    BY DEF vars, changing
  <2> QED
    BY <2>1, <2>2
<1>2. Spec => [][Next]_vars
  BY PTL DEF Spec
<1>3. HitStays <=> [][Stay]_rfqs
  BY DEF HitStays
<1> QED
  BY <1>1, <1>2, <1>3, QuotesInvEver, PTL

\* Only what is past expires: the timer never ends a quote written since it looked.
THEOREM ExpiredIsPastEver == Spec => ExpiredIsPast
<1> DEFINE Timed == \A s \in Sides : \A i \in DOMAIN rfqs[s] :
              rfqs'[s][i].status = "Expired" /\ rfqs[s][i].status # "Expired" /\ trouble # "foreign"
              => rfqs[s][i].quote \in past
<1>1. IInv /\ [Next]_vars => [Timed]_rfqs
  <2>1. IInv /\ Next => Timed
    BY MovesKeep DEF IInv, Keeps, Timely
  <2>2. UNCHANGED vars => UNCHANGED rfqs
    BY DEF vars, changing
  <2> QED
    BY <2>1, <2>2
<1>2. Spec => [][Next]_vars
  BY PTL DEF Spec
<1>3. ExpiredIsPast <=> [][Timed]_rfqs
  BY DEF ExpiredIsPast
<1> QED
  BY <1>1, <1>2, <1>3, QuotesInvEver, PTL
=============================================================================
