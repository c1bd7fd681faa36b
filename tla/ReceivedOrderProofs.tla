------------------------ MODULE ReceivedOrderProofs ------------------------
(***************************************************************************)
(* What is proved of the market side of orders, for every set of callers,   *)
(* actions and quantities and every bound: the order lock keeps an order's  *)
(* row, its trades, its pending request and its reports in step.  The parts *)
(* of the inductive invariant come first, then lemmas on the rows and on    *)
(* sums of trades, then one lemma for each part, with a step per action.    *)
(***************************************************************************)
EXTENDS ReceivedOrder, FiniteSetTheorems, SequenceTheorems, WellFoundedInduction, TLAPS

OnTrade == {"correct_trade", "bust_trade", "renotify_trade"}
Ops == {"accept_order", "reject_order", "fill_order", "unsolicited_cancel", "restate_order",
        "accept_cancel", "accept_replace", "reject_cancel"} \cup OnTrade
Answering == {"accept_cancel", "accept_replace", "reject_cancel"}

Statuses == {"PendingNew", "New", "PartiallyFilled", "Filled", "Replaced", "Canceled", "Rejected"}
Kinds == {"New", "Rejected", "Fill", "Canceled", "Restated", "Replaced", "Correct", "Bust"}
OrderRow == [oid : Ids, status : Statuses, qty : Nat \ {0}, cum : Nat, leaves : Nat,
             slot : {"", "New", "Cancel", "Replace"}, req : Ids \cup {0}, reqQty : Nat]
Trade == [oid : Ids \cup {0}, execs : Seq(Nat), last : Nat, kind : Kinds, ref : Nat, dk : {FALSE}]
Op == [op : Ops, id : Ids \cup {0}, qty : Nat, exec : Nat]

Locking == [step : {"locking"}, a : Op]
Steps == {"renaming", "writing", "trading", "sending"}
Held == [step : Steps, a : Op, row : OrderRow, trade : Trade, exec : Nat \ {0}]

Message == [type : {"D"}, id : Ids, orig : {0}, qty : Qtys]
           \cup [type : {"F"}, id : Ids, orig : Ids, qty : {0}]
           \cup [type : {"G"}, id : Ids, orig : Ids, qty : Qtys]
Report == [type : {"8"}, kind : Kinds, id : Ids \cup {0}, orig : Ids \cup {0}, oid : Ids, status : Statuses,
           qty : Nat, cum : Nat, leaves : Nat, exec : Nat, ref : Nat, last : Nat]
Reject == [type : {"9"}, id : Ids \cup {0}, orig : Ids \cup {0}, status : Statuses, unknown : BOOLEAN]

TypeOK ==
    /\ rows \in [Ids -> OrderRow \cup {NoRow}]
    /\ trades \in Seq(Trade)
    /\ lock \in Callers \cup {Nobody, Reader}
    /\ call \in [Callers -> {Idle} \cup Locking \cup Held]
    /\ reading \in {Idle} \cup [step : {"parking"}, row : OrderRow]
    /\ requests \in Seq(Message)
    /\ reports \in Seq(Report \cup Reject)
    /\ minted \in Ids \cup {0}

\* Every trade has ExecIDs and belongs to an order.
TradesOK ==
    \A t \in DOMAIN trades :
        /\ Len(trades[t].execs) > 0 /\ \A n \in DOMAIN trades[t].execs : trades[t].execs[n] # 0
        /\ \E i \in Ids : Known(rows, i) /\ rows[i].oid = trades[t].oid

\* A command on a trade names one, by an ExecID it has or had.
CommandOK(a) ==
    /\ a.op \in {"fill_order", "restate_order", "correct_trade"} => a.qty \in Qtys
    /\ a.exec # 0 <=> a.op \in OnTrade
    /\ a.exec # 0 => \E t \in DOMAIN trades : Had(trades[t], a.exec)
CommandsOK == \A c \in Callers : call[c].step # "idle" => CommandOK(call[c].a)

\* The lock is held by who acts on an order.
Busy(c) == call[c].step \in Steps
LockOK ==
    /\ \A c \in Callers : Busy(c) <=> lock = c
    /\ reading.step = "parking" <=> lock = Reader

\* The ClOrdIDs of messages not read yet are new to the tables.
Waiting == {requests[n].id : n \in DOMAIN requests}
Used == (1 .. minted) \ Waiting
WaitingOK ==
    /\ Waiting \subseteq 1 .. minted
    /\ \A n, p \in DOMAIN requests : requests[n].id = requests[p].id => n = p

\* An order has an Order ID and a request of its own.
RowOK(i) ==
    /\ i \in Used /\ rows[i].oid \in Used /\ rows[i].req \in Used \cup {0}
    /\ ~Known(rows, rows[i].req)
    /\ rows[i].slot \in {"Cancel", "Replace"} => rows[i].req # 0
    /\ rows[i].slot = "New" => rows[i].req = 0 /\ rows[i].oid = i
IdsApart(i, j) ==
    /\ rows[j].oid # rows[i].req
    /\ i # j => rows[i].oid # rows[j].oid /\ (rows[i].req # 0 => rows[i].req # rows[j].req)
RowsOK ==
    /\ \A i \in Ids : Known(rows, i) => RowOK(i)
    /\ \A i, j \in Ids : Known(rows, i) /\ Known(rows, j) => IdsApart(i, j)

\* What parks a request finds the row as it was loaded.
ParkOK ==
    reading.step = "parking" =>
        /\ requests # << >> /\ Head(requests).type \in {"F", "G"}
        /\ Known(rows, Head(requests).orig) /\ reading.row = rows[Head(requests).orig]

\* And so does what holds the lock: the row it loaded, or the one it wrote.
Found(k) ==
    IF k.step = "renaming" THEN Renames(k.a.op) /\ Known(rows, k.a.id) /\ rows[k.a.id] = k.row
    ELSE /\ Known(rows, NowId(k.a, k.row))
         /\ rows[NowId(k.a, k.row)] =
              IF k.step = "writing" THEN IF Renames(k.a.op) THEN ClearSlot(k.row) ELSE k.row
              ELSE Written(k.a, k.row, k.trade)
HolderOK(k) ==
    /\ Found(k)
    /\ k.step = "trading" => Trades(k.a.op)
    /\ k.a.op # "renotify_trade" /\ ~Refused(k.a, k.row, k.trade)
    /\ k.row.slot \in {"Cancel", "Replace"} => k.row.req # 0
    /\ k.a.exec # 0 /\ k.step # "sending" =>
          k.trade = trades[TradeOf(trades, k.a.exec)] /\ k.trade.oid = k.row.oid
HoldersOK == \A c \in Callers : Busy(c) => HolderOK(call[c])

Inv == TypeOK /\ TradesOK /\ CommandsOK /\ LockOK /\ WaitingOK /\ RowsOK /\ ParkOK /\ HoldersOK
-----------------------------------------------------------------------------
(* Sums of trades.  Total is a function defined by recursion on the length   *)
(* of the table; what is said of it is proved by the least counterexample.   *)

\* Every set of numbers that is not empty has a least one.
LEMMA LeastNumber ==
  ASSUME NEW T, T \subseteq Nat, T # {}
  PROVE  \E x \in T : \A y \in T : x <= y
<1>1. PICK x \in T : \A y \in T : ~ (<< y, x >> \in OpToRel(<, Nat))
  BY NatLessThanWellFounded, WFMin, Zenon
<1>2. ASSUME NEW y \in T PROVE x <= y
  <2>1. ~ (y < x)
    BY <1>1, <1>2, Zenon DEF OpToRel
  <2> QED
    BY <2>1
<1> QED
  BY <1>1, <1>2

\* What holds of 0, and of n when it holds of n - 1, holds of every number.
LEMMA EveryNumber ==
  ASSUME NEW N \in Nat, NEW S, 0 \in S, \A n \in 1 .. N : n - 1 \in S => n \in S
  PROVE  0 .. N \subseteq S
<1> DEFINE T == 0 .. N \ S
<1>1. CASE T # {}
  <2>1. PICK x \in T : \A y \in T : x <= y
    <3>1. T \subseteq Nat
      OBVIOUS
    <3> HIDE DEF T
    <3> QED
      BY <1>1, <3>1, LeastNumber
  <2>2. x \in 1 .. N /\ x - 1 \in 0 .. N /\ x - 1 \notin T
    BY <2>1
  <2> QED
    BY <2>1, <2>2
<1> QED
  BY <1>1

\* g is the running sum of w, as far as N.
Sums(g, w, N) == g = [n \in 0 .. N |-> IF n = 0 THEN 0 ELSE g[n - 1] + w[n]]

\* A sequence of numbers has a running sum.
LEMMA SumsExist ==
  ASSUME NEW w, NEW N \in Nat, \A n \in 1 .. N : w[n] \in Int
  PROVE  \E g \in [0 .. N -> Int] : Sums(g, w, N)
<1> DEFINE S == {n \in 0 .. N : \E g \in [0 .. n -> Int] : Sums(g, w, n)}
<1>1. 0 \in S
  <2> DEFINE g == [n \in 0 .. 0 |-> 0]
  <2>1. g \in [0 .. 0 -> Int] /\ Sums(g, w, 0)
    BY DEF Sums
  <2> QED
    BY <2>1
<1>2. ASSUME NEW n \in 1 .. N, n - 1 \in S
      PROVE  n \in S
  <2>1. PICK g \in [0 .. n - 1 -> Int] : Sums(g, w, n - 1)
    BY <1>2
  <2> DEFINE h == [k \in 0 .. n |-> IF k = n THEN g[n - 1] + w[n] ELSE g[k]]
  <2>2. h \in [0 .. n -> Int]
    <3>1. g[n - 1] + w[n] \in Int
      BY <2>1
    <3> QED
      BY <3>1, <2>1
  <2>3. ASSUME NEW k \in 0 .. n
        PROVE  h[k] = IF k = 0 THEN 0 ELSE h[k - 1] + w[k]
    <3>1. CASE k = n
      BY <3>1
    <3>2. CASE k # n
      <4>1. k \in 0 .. n - 1 /\ h[k] = g[k] /\ (k # 0 => h[k - 1] = g[k - 1])
        BY <3>2
      <4>2. g[k] = IF k = 0 THEN 0 ELSE g[k - 1] + w[k]
        BY <4>1, <2>1 DEF Sums
      <4> QED
        BY <4>1, <4>2
    <3> QED
      BY <3>1, <3>2
  <2>4. Sums(h, w, n)
    BY <2>2, <2>3 DEF Sums
  <2> QED
    BY <2>2, <2>4
<1> HIDE DEF S
<1>3. N \in S
  BY <1>1, <1>2, EveryNumber
<1> QED
  BY <1>3 DEF S

\* Summands that are equal but for one, which is d more.
Differ(w, v, N, t, d) ==
    /\ t \in Nat \ {0} /\ d \in Int
    /\ \A n \in 1 .. N : w[n] \in Int /\ v[n] = IF n = t THEN w[n] + d ELSE w[n]

\* Sums that are d apart from t on.
Apart(g, h, N, t, d) == \A n \in 0 .. N : g[n] \in Int /\ h[n] = g[n] + (IF n >= t THEN d ELSE 0)

\* Of two running sums of such, the second is as much more from there on.
LEMMA SumsDiffer ==
  ASSUME NEW w, NEW v, NEW N \in Nat, NEW M \in Nat, N <= M, NEW t, NEW d, Differ(w, v, N, t, d),
         NEW g, Sums(g, w, N), NEW h, Sums(h, v, M)
  PROVE  Apart(g, h, N, t, d)
<1> USE DEF Differ, Apart
<1> DEFINE S == {n \in 0 .. N : g[n] \in Int /\ h[n] = g[n] + (IF n >= t THEN d ELSE 0)}
<1>1. 0 \in S
  <2>1. g[0] = 0 /\ h[0] = 0
    BY DEF Sums
  <2> QED
    BY <2>1
<1>2. ASSUME NEW n \in 1 .. N, n - 1 \in S
      PROVE  n \in S
  <2>1. g[n] = g[n - 1] + w[n] /\ h[n] = h[n - 1] + v[n]
    BY DEF Sums
  <2>2. g[n - 1] \in Int /\ h[n - 1] = g[n - 1] + (IF n - 1 >= t THEN d ELSE 0)
    BY <1>2
  <2>3. v[n] = (IF n = t THEN w[n] + d ELSE w[n]) /\ w[n] \in Int
    OBVIOUS
  <2>4. g[n] \in Int
    BY <2>1, <2>2, <2>3
  <2>5. h[n] = g[n] + (IF n >= t THEN d ELSE 0)
    <3>1. CASE n < t
      BY <3>1, <2>1, <2>2, <2>3
    <3>2. CASE n = t
      BY <3>2, <2>1, <2>2, <2>3
    <3>3. CASE n > t
      BY <3>3, <2>1, <2>2, <2>3
    <3> QED
      BY <3>1, <3>2, <3>3
  <2> QED
    BY <2>4, <2>5
<1> HIDE DEF S
<1>3. 0 .. N \subseteq S
  BY <1>1, <1>2, EveryNumber
<1> QED
  BY <1>3 DEF S

\* A running sum of numbers is at least each of them.
LEMMA SumsBound ==
  ASSUME NEW w, NEW N \in Nat, \A n \in 1 .. N : w[n] \in Nat, NEW g, Sums(g, w, N), NEW t \in 1 .. N
  PROVE  g[N] >= w[t]
<1> DEFINE S == {n \in 0 .. N : g[n] \in Nat /\ (n >= t => g[n] >= w[t])}
<1>1. 0 \in S
  BY DEF Sums
<1>2. ASSUME NEW n \in 1 .. N, n - 1 \in S
      PROVE  n \in S
  <2>1. g[n] = g[n - 1] + w[n] /\ w[n] \in Nat /\ w[t] \in Nat
    BY DEF Sums
  <2> QED
    BY <2>1, <1>2
<1> HIDE DEF S
<1>3. N \in S
  BY <1>1, <1>2, EveryNumber
<1> QED
  BY <1>3 DEF S

-----------------------------------------------------------------------------
(* What a table of trades comes to.                                         *)

Worths(table, oid) == [n \in 1 .. Len(table) |-> Worth(table[n], oid)]

\* Each trade adds a number to its order.
LEMMA WorthsAreNumbers ==
  ASSUME NEW table \in Seq(Trade), NEW oid
  PROVE  \A n \in 1 .. Len(table) : Worths(table, oid)[n] \in Nat /\ Worths(table, oid)[n] = Worth(table[n], oid)
<1>1. \A n \in 1 .. Len(table) : table[n] \in Trade
  OBVIOUS
<1>2. \A trade \in Trade : Worth(trade, oid) \in Nat
  BY DEF Worth, Trade
<1> QED
  BY <1>1, <1>2 DEF Worths

\* Executed is the last of a running sum of what the trades add.
LEMMA TotalIsSum ==
  ASSUME NEW table \in Seq(Trade), NEW oid
  PROVE  \E g : Sums(g, Worths(table, oid), Len(table)) /\ Total(table, oid) = g[Len(table)]
<1> DEFINE N == Len(table)
           w == Worths(table, oid)
           IsIt(g) == g = [n \in 0 .. N |-> IF n = 0 THEN 0 ELSE g[n - 1] + Worth(table[n], oid)]
<1>1. N \in Nat /\ \A n \in 1 .. N : w[n] \in Int /\ w[n] = Worth(table[n], oid)
  BY WorthsAreNumbers
<1> HIDE DEF w
<1>2. ASSUME NEW g PROVE Sums(g, w, N) <=> IsIt(g)
  BY <1>1 DEF Sums
<1>3. \E g : Sums(g, w, N)
  BY <1>1, SumsExist
<1>4. Total(table, oid) = (CHOOSE g : IsIt(g))[N]
  BY Zenon DEF Total
<1>5. IsIt(CHOOSE g : IsIt(g))
  <2> HIDE DEF IsIt
  <2>1. \E g : IsIt(g)
    BY <1>2, <1>3
  <2> QED
    BY <2>1
<1> HIDE DEF IsIt
<1>6. Sums(CHOOSE g : IsIt(g), w, N)
  BY <1>2, <1>5
<1> QED
  BY <1>4, <1>6 DEF w

\* So it is a number.
LEMMA TotalIsNumber ==
  ASSUME NEW table \in Seq(Trade), NEW oid
  PROVE  Total(table, oid) \in Int
<1>1. PICK g : Sums(g, Worths(table, oid), Len(table)) /\ Total(table, oid) = g[Len(table)]
  BY TotalIsSum
<1>2. \A n \in 1 .. Len(table) : Worths(table, oid)[n] \in Int
  BY WorthsAreNumbers
<1>3. Len(table) \in Nat /\ Len(table) <= Len(table)
  OBVIOUS
<1>4. Differ(Worths(table, oid), Worths(table, oid), Len(table), 1, 0)
  BY <1>2 DEF Differ
<1>5. Apart(g, g, Len(table), 1, 0)
  BY <1>1, <1>3, <1>4, SumsDiffer
<1> QED
  BY <1>1, <1>3, <1>5 DEF Apart

\* A trade more.
LEMMA TotalAppended ==
  ASSUME NEW table \in Seq(Trade), NEW trade \in Trade, NEW oid
  PROVE  Total(Append(table, trade), oid) = Total(table, oid) + Worth(trade, oid)
<1> DEFINE more == Append(table, trade)
           N == Len(table)
           w == Worths(table, oid)
           v == Worths(more, oid)
<1>1. /\ more \in Seq(Trade) /\ Len(more) = N + 1 /\ N \in Nat
      /\ more[N + 1] = trade /\ \A n \in 1 .. N : more[n] = table[n]
  BY AppendProperties
<1>2. \A n \in 1 .. N : w[n] \in Int /\ w[n] = Worth(table[n], oid)
  BY WorthsAreNumbers
<1> HIDE DEF more
<1>3. \A n \in 1 .. N + 1 : v[n] \in Int /\ v[n] = Worth(more[n], oid)
  BY <1>1, WorthsAreNumbers
<1>4. PICK g : Sums(g, w, N) /\ Total(table, oid) = g[N]
  BY TotalIsSum
<1>5. PICK h : Sums(h, v, N + 1) /\ Total(more, oid) = h[N + 1]
  BY <1>1, TotalIsSum
<1> HIDE DEF w, v, N
<1>6. \A n \in 1 .. N : v[n] = w[n]
  BY <1>1, <1>2, <1>3
<1>7. \A n \in 0 .. N : g[n] \in Int /\ h[n] = g[n]
  <2>1. Differ(w, v, N, N + 2, 0)
    BY <1>1, <1>2, <1>6 DEF Differ
  <2>2. N <= N + 1 /\ N \in Nat /\ N + 1 \in Nat
    BY <1>1
  <2>3. Apart(g, h, N, N + 2, 0)
    BY <1>4, <1>5, <2>1, <2>2, SumsDiffer
  <2> QED
    BY <2>2, <2>3 DEF Apart
<1>8. h[N + 1] = h[N] + v[N + 1]
  BY <1>1, <1>5 DEF Sums
<1>9. h[N] = g[N] /\ v[N + 1] = Worth(trade, oid)
  BY <1>1, <1>3, <1>7
<1> QED
  BY <1>4, <1>5, <1>8, <1>9 DEF more

\* One trade in another version.
LEMMA TotalChanged ==
  ASSUME NEW table \in Seq(Trade), NEW trade \in Trade, NEW t \in 1 .. Len(table), NEW oid
  PROVE  Total([table EXCEPT ![t] = trade], oid) = Total(table, oid) - Worth(table[t], oid) + Worth(trade, oid)
<1> DEFINE N == Len(table)
           other == [table EXCEPT ![t] = trade]
           w == Worths(table, oid)
           v == Worths(other, oid)
           d == Worth(trade, oid) - Worth(table[t], oid)
<1>1. /\ other \in Seq(Trade) /\ Len(other) = N /\ N \in Nat
      /\ \A n \in 1 .. N : other[n] = IF n = t THEN trade ELSE table[n]
  OBVIOUS
<1>2. \A n \in 1 .. N : w[n] \in Int /\ w[n] = Worth(table[n], oid)
  BY WorthsAreNumbers
<1> HIDE DEF other
<1>3. \A n \in 1 .. N : v[n] \in Int /\ v[n] = Worth(other[n], oid)
  BY <1>1, WorthsAreNumbers
<1>4. PICK g : Sums(g, w, N) /\ Total(table, oid) = g[N]
  BY TotalIsSum
<1>5. PICK h : Sums(h, v, N) /\ Total(other, oid) = h[N]
  BY <1>1, TotalIsSum
<1>6. t \in 1 .. N /\ Worth(table[t], oid) \in Int /\ Worth(trade, oid) \in Int /\ d \in Int
  BY <1>1, <1>2, <1>3
<1> HIDE DEF w, v, N
<1>7. Differ(w, v, N, t, d)
  BY <1>1, <1>2, <1>3, <1>6 DEF Differ
<1> HIDE DEF d
<1>8. Apart(g, h, N, t, d)
  <2>1. N <= N /\ N \in Nat
    BY <1>1
  <2> QED
    BY <1>4, <1>5, <1>7, <2>1, SumsDiffer
<1>9. h[N] = g[N] + d /\ g[N] \in Int
  BY <1>1, <1>6, <1>8 DEF Apart
<1> QED
  BY <1>4, <1>5, <1>6, <1>9 DEF d, other

\* A trade is in the total of its order.
LEMMA TotalBound ==
  ASSUME NEW table \in Seq(Trade), NEW t \in 1 .. Len(table), NEW oid
  PROVE  Total(table, oid) >= Worth(table[t], oid)
<1>1. PICK g : Sums(g, Worths(table, oid), Len(table)) /\ Total(table, oid) = g[Len(table)]
  BY TotalIsSum
<1>2. \A n \in 1 .. Len(table) : /\ Worths(table, oid)[n] \in Nat
                                 /\ Worths(table, oid)[n] = Worth(table[n], oid)
  BY WorthsAreNumbers
<1>3. g[Len(table)] >= Worths(table, oid)[t]
  BY <1>1, <1>2, SumsBound
<1> QED
  BY <1>1, <1>2, <1>3

\* An order without trades has nothing executed.
LEMMA TotalOfNone ==
  ASSUME NEW table \in Seq(Trade), NEW oid, \A t \in 1 .. Len(table) : table[t].oid # oid
  PROVE  Total(table, oid) = 0
<1> DEFINE N == Len(table)
           w == Worths(table, oid)
<1>1. N \in Nat /\ \A n \in 1 .. N : w[n] = 0
  BY WorthsAreNumbers DEF Worth
<1>2. PICK g : Sums(g, w, N) /\ Total(table, oid) = g[N]
  BY TotalIsSum
<1> HIDE DEF w, N
<1> DEFINE S == {n \in 0 .. N : g[n] = 0}
<1>3. 0 \in S
  BY <1>1, <1>2 DEF Sums
<1>4. ASSUME NEW n \in 1 .. N, n - 1 \in S PROVE n \in S
  BY <1>1, <1>2, <1>4 DEF Sums
<1> HIDE DEF S
<1>5. N \in S
  <2>1. 0 .. N \subseteq S
    BY <1>1, <1>3, <1>4, EveryNumber
  <2> QED
    BY <1>1, <2>1
<1> QED
  BY <1>2, <1>5 DEF S
-----------------------------------------------------------------------------
(* Rows, and what an action makes of one.                                   *)

\* What the assumptions say of the constants.
LEMMA Constants ==
  /\ Ids \subseteq Nat \ {0} /\ Qtys \subseteq Nat \ {0}
  /\ Choosers \subseteq Callers /\ Nobody # Reader /\ Nobody \notin Callers /\ Reader \notin Callers
BY MarketAssumption, TableAssumption DEF Ids

\* A ClOrdID without a row has none.
LEMMA NoRowIsNone == NoRow \notin OrderRow
<1>1. 0 \notin Ids
  BY Constants
<1> QED
  BY <1>1 DEF NoRow, OrderRow

\* A known order has a row of the type.
LEMMA KnownRows ==
  ASSUME TypeOK
  PROVE  \A i : Known(rows, i) <=> i \in Ids /\ rows[i] \in OrderRow
BY NoRowIsNone DEF TypeOK, Known

\* ClOrdIDs are numbers from 1.
LEMMA NoneUsed ==
  ASSUME TypeOK
  PROVE  minted \in Nat /\ 0 \notin Used
<1>1. minted \in Nat
  BY Constants DEF TypeOK
<1> QED
  BY <1>1 DEF Used

\* What is written over a row of the same order is the row then.
LEMMA UpsertOverwrites ==
  ASSUME TypeOK, NEW i, Known(rows, i), NEW row \in OrderRow, row.oid = rows[i].oid
  PROVE  Upsert(rows, i, row) = [rows EXCEPT ![i] = row]
<1>1. row.qty # 0 /\ rows[i] # NoRow /\ i \in Ids
  BY DEF Known, OrderRow
<1>2. [row EXCEPT !.oid = rows[i].oid, !.qty = row.qty] = row
  BY DEF OrderRow, Statuses
<1> QED
  BY <1>1, <1>2 DEF Upsert

\* What is written where there is no row is inserted.
LEMMA UpsertInserts ==
  ASSUME TypeOK, NEW i \in Ids, ~Known(rows, i), NEW row
  PROVE  Upsert(rows, i, row) = [rows EXCEPT ![i] = row]
BY DEF Upsert, Known, TypeOK

\* A row that is the same order's, with its request or none.
Keeps(new, row) ==
    /\ new \in OrderRow /\ new.oid = row.oid
    /\ \/ new.req = row.req /\ new.slot \in {row.slot, ""}
       \/ new.req = 0 /\ new.slot = ""

\* Clearing the slot of an order keeps the order and its quantities.
LEMMA ClearSlotKeeps ==
  ASSUME NEW row \in OrderRow
  PROVE  /\ Keeps(ClearSlot(row), row) /\ ClearSlot(row).slot = "" /\ ClearSlot(row).req = 0
         /\ ClearSlot(row).cum = row.cum /\ ClearSlot(row).qty = row.qty
         /\ ClearSlot(row).status = row.status /\ ClearSlot(row).leaves = row.leaves
BY DEF Keeps, ClearSlot, OrderRow

\* So does acknowledging it, which empties the slot of a new order only.
LEMMA AcknowledgedKeeps ==
  ASSUME NEW row \in OrderRow
  PROVE  /\ Keeps(Acknowledged(row), row) /\ Acknowledged(row).cum = row.cum
         /\ Acknowledged(row).qty = row.qty /\ Acknowledged(row).req = row.req
         /\ row.slot # "New" => Acknowledged(row).slot = row.slot
         /\ Acknowledged(row).slot # "New"
BY DEF Keeps, Acknowledged, OrderRow

\* A trade changes what is executed and the status.
LEMMA TradedKeeps ==
  ASSUME NEW row \in OrderRow, NEW cum \in Nat, NEW status \in Statuses
  PROVE  /\ Keeps(Traded(row, cum, status), row) /\ Traded(row, cum, status).cum = cum
         /\ Traded(row, cum, status).slot = row.slot /\ Traded(row, cum, status).req = row.req
         /\ Traded(row, cum, status).status = status
<1>1. AtLeast0(row.qty - cum) \in Nat
  <2>1. row.qty \in Nat
    BY DEF OrderRow, Statuses
  <2> QED
    BY <2>1 DEF AtLeast0
<1> QED
  BY <1>1 DEF Keeps, Traded, OrderRow

\* How far an order is worked is a status.
LEMMA WorkingIsStatus ==
  ASSUME NEW qty, NEW cum
  PROVE  Working(qty, cum) \in Statuses
BY DEF Working, Statuses

\* The row and the quantities an action writes.
LEMMA WrittenKeeps ==
  ASSUME NEW a \in Op, CommandOK(a), NEW row \in OrderRow, NEW trade \in Trade
  PROVE  /\ Keeps(Written(a, row, trade), row)
         /\ ~Trades(a.op) => Written(a, row, trade).cum = row.cum
         /\ a.op = "fill_order" => Written(a, row, trade).cum = row.cum + a.qty
         /\ a.op = "correct_trade" => Written(a, row, trade).cum = AtLeast0(row.cum - trade.last + a.qty)
         /\ a.op = "bust_trade" => Written(a, row, trade).cum = AtLeast0(row.cum - trade.last)
         /\ a.op \notin Answering \cup {"accept_order", "reject_order"} =>
              Written(a, row, trade).req = row.req /\ (row.slot # "New" => Written(a, row, trade).slot = row.slot)
         /\ a.op \in {"accept_order", "reject_order"} => Written(a, row, trade).slot = ""
         /\ a.op \in Answering => Written(a, row, trade).slot = "" /\ Written(a, row, trade).req = 0
<1> DEFINE W == Written(a, row, trade)
<1> USE DEF Trades, Answering
<1>0. /\ row.cum \in Nat /\ row.qty \in Nat \ {0} /\ row.reqQty \in Nat /\ row.status \in Statuses
      /\ trade.last \in Nat /\ a.qty \in Nat /\ a.op \in Ops
  <2>1. /\ row.cum \in Nat /\ row.qty \in Nat \ {0} /\ row.reqQty \in Nat /\ row.status \in Statuses
    BY DEF OrderRow, Statuses
  <2>2. trade.last \in Nat /\ a.qty \in Nat /\ a.op \in Ops
    BY DEF Trade, Op
  <2> QED
    BY <2>1, <2>2
<1>1. CASE a.op = "accept_order"
  <2>1. W = [row EXCEPT !.status = "New", !.slot = ""]
    BY <1>1 DEF Written
  <2>2. W \in OrderRow /\ W.oid = row.oid /\ W.req = row.req /\ W.slot = "" /\ W.cum = row.cum
    BY <2>1 DEF OrderRow, Statuses
  <2> HIDE DEF W
  <2> QED
    BY <1>1, <2>2 DEF Keeps, W
<1>2. CASE a.op = "reject_order"
  <2>1. W = [row EXCEPT !.status = "Rejected", !.leaves = 0, !.slot = ""]
    BY <1>2 DEF Written
  <2> HIDE DEF W
  <2>2. W \in OrderRow
    BY <2>1 DEF OrderRow, Statuses
  <2>3. W.oid = row.oid /\ W.req = row.req /\ W.slot = "" /\ W.cum = row.cum
    BY <2>1 DEF OrderRow
  <2> QED
    BY <1>2, <2>2, <2>3 DEF Keeps, W
<1>3. CASE a.op = "fill_order"
  <2>1. W = Traded(Acknowledged(row), row.cum + a.qty, Working(row.qty, row.cum + a.qty))
    BY <1>3 DEF Written
  <2>2. row.cum + a.qty \in Nat /\ Working(row.qty, row.cum + a.qty) \in Statuses
    BY <1>0, WorkingIsStatus
  <2>3. Acknowledged(row) \in OrderRow
    BY AcknowledgedKeeps DEF Keeps
  <2>4. /\ Keeps(W, Acknowledged(row)) /\ W.cum = row.cum + a.qty
        /\ W.slot = Acknowledged(row).slot /\ W.req = Acknowledged(row).req
    BY <2>1, <2>2, <2>3, TradedKeeps
  <2> QED
    BY <1>3, <2>4, AcknowledgedKeeps DEF Keeps
<1>4. CASE a.op = "unsolicited_cancel"
  <2>1. PICK r \in OrderRow : r = Acknowledged(row)
    BY AcknowledgedKeeps DEF Keeps
  <2>2. W = [r EXCEPT !.status = "Canceled", !.leaves = 0]
    BY <1>4, <2>1 DEF Written
  <2> HIDE DEF W
  <2>3. W \in OrderRow
    BY <2>2 DEF OrderRow, Statuses
  <2>4. W.oid = r.oid /\ W.cum = r.cum /\ W.req = r.req /\ W.slot = r.slot
    BY <2>2 DEF OrderRow
  <2> QED
    BY <1>4, <2>1, <2>3, <2>4, AcknowledgedKeeps DEF Keeps, W
<1>5. CASE a.op = "restate_order"
  <2>1. PICK r \in OrderRow : r = Acknowledged(row)
    BY AcknowledgedKeeps DEF Keeps
  <2> DEFINE q == [r EXCEPT !.qty = a.qty]
  <2>2. W = Traded(q, row.cum, Working(a.qty, row.cum))
    BY <1>5, <2>1 DEF Written
  <2>3. a.qty \in Nat \ {0}
    BY <1>5, Constants DEF CommandOK
  <2>4. q \in OrderRow /\ q.oid = r.oid /\ q.req = r.req /\ q.slot = r.slot
    BY <2>3 DEF OrderRow
  <2> HIDE DEF q
  <2>5. /\ Keeps(W, q) /\ W.cum = row.cum /\ W.slot = q.slot /\ W.req = q.req
    BY <1>0, <2>2, <2>4, TradedKeeps, WorkingIsStatus
  <2> QED
    BY <1>5, <2>1, <2>4, <2>5, AcknowledgedKeeps DEF Keeps
<1>6. CASE a.op = "accept_cancel"
  <2>1. PICK r \in OrderRow : r = ClearSlot(row)
    BY ClearSlotKeeps DEF Keeps
  <2>2. W = [r EXCEPT !.status = "Canceled", !.leaves = 0]
    BY <1>6, <2>1 DEF Written
  <2> HIDE DEF W
  <2>3. W \in OrderRow
    BY <2>2 DEF OrderRow, Statuses
  <2>4. W.oid = r.oid /\ W.cum = r.cum /\ W.req = r.req /\ W.slot = r.slot
    BY <2>2 DEF OrderRow
  <2> QED
    BY <1>6, <2>1, <2>3, <2>4, ClearSlotKeeps DEF Keeps, W
<1>7. CASE a.op = "accept_replace"
  <2>1. PICK r \in OrderRow : r = ClearSlot(row)
    BY ClearSlotKeeps DEF Keeps
  <2> DEFINE q == [r EXCEPT !.qty = NewQty(row)]
             s == IF DefinesReplaced THEN "Replaced" ELSE Working(NewQty(row), row.cum)
  <2>2. W = Traded(q, row.cum, s)
    BY <1>7, <2>1 DEF Written
  <2>3. NewQty(row) \in Nat \ {0}
    BY <1>0 DEF NewQty
  <2>4. q \in OrderRow /\ q.oid = r.oid /\ q.req = r.req /\ q.slot = r.slot
    BY <2>3 DEF OrderRow
  <2> HIDE DEF q
  <2>5. s \in Statuses
    BY WorkingIsStatus DEF Statuses
  <2> HIDE DEF s
  <2>6. /\ Keeps(W, q) /\ W.cum = row.cum /\ W.slot = q.slot /\ W.req = q.req
    BY <1>0, <2>2, <2>4, <2>5, TradedKeeps
  <2> QED
    BY <1>7, <2>1, <2>4, <2>6, ClearSlotKeeps DEF Keeps
<1>8. CASE a.op = "reject_cancel"
  <2>1. W = ClearSlot(row)
    BY <1>8 DEF Written
  <2> QED
    BY <1>8, <2>1, ClearSlotKeeps
<1>9. CASE a.op = "correct_trade"
  <2> DEFINE c == AtLeast0(row.cum - trade.last + a.qty)
  <2>1. W = Traded(row, c, Working(row.qty, c))
    BY <1>9 DEF Written, AfterCorrection, Corrected
  <2>2. c \in Nat
    BY <1>0 DEF AtLeast0
  <2> HIDE DEF c
  <2>3. Working(row.qty, c) \in Statuses
    BY WorkingIsStatus
  <2>4. /\ Keeps(W, row) /\ W.cum = c /\ W.slot = row.slot /\ W.req = row.req
    BY <2>1, <2>2, <2>3, TradedKeeps
  <2> QED
    BY <1>9, <2>4 DEF c
<1>10. CASE a.op = "bust_trade"
  <2> DEFINE c == AtLeast0(row.cum - trade.last)
             s == IF c = 0 THEN "New" ELSE "PartiallyFilled"
  <2>0. row.cum - trade.last + 0 = row.cum - trade.last
    BY <1>0
  <2>1. W = Traded(row, c, s)
    BY <1>10, <2>0 DEF Written, AfterBust, Corrected
  <2>2. c \in Nat /\ s \in Statuses
    BY <1>0 DEF AtLeast0, Statuses
  <2> HIDE DEF c, s
  <2>4. /\ Keeps(W, row) /\ W.cum = c /\ W.slot = row.slot /\ W.req = row.req
    BY <2>1, <2>2, TradedKeeps
  <2> QED
    BY <1>10, <2>4 DEF c
<1>11. CASE a.op = "renotify_trade"
  <2>1. W = row
    BY <1>11 DEF Written
  <2> QED
    BY <1>11, <2>1 DEF Keeps
<1> QED
  BY <1>0, <1>1, <1>2, <1>3, <1>4, <1>5, <1>6, <1>7, <1>8, <1>9, <1>10, <1>11 DEF Ops, OnTrade
-----------------------------------------------------------------------------
(* What the actions do to the tables and the queue of requests.             *)

\* The request at the head of the queue is typed.
LEMMA FirstRequest ==
  ASSUME TypeOK, requests # << >>
  PROVE  /\ Head(requests) \in Message /\ Head(requests).id \in Waiting /\ Head(requests).id \in Ids
         /\ Head(requests).orig \in Ids \cup {0} /\ Head(requests).qty \in Nat
         /\ Head(requests).type = "D" => Head(requests).qty \in Qtys
<1>1. Len(requests) > 0 /\ Head(requests) = requests[1] /\ 1 \in DOMAIN requests /\ requests[1] \in Message
  BY DEF TypeOK
<1>2. \A m \in Message : /\ m.id \in Ids /\ m.orig \in Ids \cup {0} /\ m.qty \in Nat
                         /\ m.type = "D" => m.qty \in Qtys
  <2> TAKE m \in Message
  <2>1. CASE m \in [type : {"D"}, id : Ids, orig : {0}, qty : Qtys]
    BY <2>1, Constants
  <2>2. CASE m \in [type : {"F"}, id : Ids, orig : Ids, qty : {0}]
    BY <2>2
  <2>3. CASE m \in [type : {"G"}, id : Ids, orig : Ids, qty : Qtys]
    BY <2>3, Constants
  <2> QED
    BY <2>1, <2>2, <2>3 DEF Message
<1> QED
  BY <1>1, <1>2 DEF Waiting

\* Reading the first request makes its ClOrdID one that was used.
LEMMA ReadOne ==
  ASSUME TypeOK, WaitingOK, requests # << >>, requests' = Tail(requests), minted' = minted
  PROVE  /\ requests' \in Seq(Message) /\ WaitingOK'
         /\ Waiting' = Waiting \ {Head(requests).id} /\ Used' = Used \cup {Head(requests).id}
<1>1. /\ requests \in Seq(Message) /\ Len(requests) \in Nat \ {0} /\ Head(requests) = requests[1]
      /\ DOMAIN requests = 1 .. Len(requests)
  BY DEF TypeOK
<1>2. /\ requests' \in Seq(Message) /\ DOMAIN requests' = 1 .. Len(requests) - 1
      /\ \A n \in 1 .. Len(requests) - 1 : requests'[n] = requests[n + 1]
  BY <1>1
<1>3. \A n, p \in DOMAIN requests' : requests'[n].id = requests'[p].id => n = p
  <2>1. \A n, p \in DOMAIN requests : requests[n].id = requests[p].id => n = p
    BY DEF WaitingOK
  <2> SUFFICES ASSUME NEW n \in DOMAIN requests', NEW p \in DOMAIN requests',
                      requests'[n].id = requests'[p].id
               PROVE  n = p
    OBVIOUS
  <2>2. n + 1 \in DOMAIN requests /\ p + 1 \in DOMAIN requests /\ n \in Int /\ p \in Int
    BY <1>1, <1>2
  <2>3. requests[n + 1].id = requests[p + 1].id
    BY <1>2
  <2>4. n + 1 = p + 1
    BY <2>1, <2>2, <2>3
  <2> QED
    BY <2>2, <2>4
<1>4. ASSUME NEW x PROVE x \in Waiting' <=> x \in Waiting /\ x # Head(requests).id
  <2>1. ASSUME x \in Waiting' PROVE x \in Waiting /\ x # Head(requests).id
    <3>1. PICK n \in 1 .. Len(requests) - 1 : x = requests[n + 1].id
      BY <1>2, <2>1 DEF Waiting
    <3>2. n + 1 \in DOMAIN requests /\ 1 \in DOMAIN requests /\ n + 1 # 1
      BY <1>1
    <3> QED
      BY <1>1, <3>1, <3>2 DEF Waiting, WaitingOK
  <2>2. ASSUME x \in Waiting, x # Head(requests).id PROVE x \in Waiting'
    <3>1. PICK n \in DOMAIN requests : x = requests[n].id
      BY <2>2 DEF Waiting
    <3>2. n # 1 /\ n \in 1 .. Len(requests)
      BY <1>1, <2>2, <3>1
    <3>3. n - 1 \in 1 .. Len(requests) - 1 /\ (n - 1) + 1 = n
      BY <1>1, <3>2
    <3>4. requests'[n - 1] = requests[n]
      BY <1>2, <3>3
    <3> QED
      BY <1>2, <3>1, <3>3, <3>4 DEF Waiting
  <2> QED
    BY <2>1, <2>2
<1>5. Head(requests).id \in 1 .. minted
  BY FirstRequest DEF WaitingOK
<1> QED
  BY <1>2, <1>3, <1>4, <1>5 DEF WaitingOK, Used

\* A message sent with the next ClOrdID leaves those used as they were.
LEMMA SentOne ==
  ASSUME TypeOK, WaitingOK, NEW m \in Message, requests' = Append(requests, m),
         m.id = minted + 1, minted' = minted + 1
  PROVE  /\ requests' \in Seq(Message) /\ WaitingOK' /\ Used' = Used
         /\ Waiting' = Waiting \cup {m.id}
         /\ requests # << >> => requests' # << >> /\ Head(requests') = Head(requests)
<1>1. /\ requests \in Seq(Message) /\ Len(requests) \in Nat /\ DOMAIN requests = 1 .. Len(requests)
      /\ minted \in Nat
  BY Constants DEF TypeOK
<1>2. /\ requests' \in Seq(Message) /\ DOMAIN requests' = 1 .. Len(requests) + 1
      /\ requests'[Len(requests) + 1] = m
      /\ \A n \in 1 .. Len(requests) : requests'[n] = requests[n]
  BY <1>1, AppendProperties
<1>3. ASSUME NEW x PROVE x \in Waiting' <=> x \in Waiting \/ x = m.id
  <2>1. ASSUME x \in Waiting' PROVE x \in Waiting \/ x = m.id
    <3>1. PICK n \in 1 .. Len(requests) + 1 : x = requests'[n].id
      BY <1>2, <2>1 DEF Waiting
    <3>2. CASE n = Len(requests) + 1
      BY <1>2, <3>1, <3>2
    <3>3. CASE n # Len(requests) + 1
      <4>1. n \in 1 .. Len(requests)
        BY <1>1, <3>3
      <4> QED
        BY <1>1, <1>2, <3>1, <4>1 DEF Waiting
    <3> QED
      BY <3>2, <3>3
  <2>2. ASSUME x \in Waiting PROVE x \in Waiting'
    <3>1. PICK n \in 1 .. Len(requests) : x = requests[n].id
      BY <1>1, <2>2 DEF Waiting
    <3>2. n \in 1 .. Len(requests) + 1 /\ requests'[n] = requests[n]
      BY <1>1, <1>2, <3>1
    <3> QED
      BY <1>2, <3>1, <3>2 DEF Waiting
  <2>3. m.id \in Waiting'
    <3>1. Len(requests) + 1 \in DOMAIN requests'
      BY <1>1, <1>2
    <3> QED
      BY <1>2, <3>1 DEF Waiting
  <2> QED
    BY <2>1, <2>2, <2>3
<1>4. \A n, p \in DOMAIN requests' : requests'[n].id = requests'[p].id => n = p
  <2> SUFFICES ASSUME NEW n \in DOMAIN requests', NEW p \in DOMAIN requests',
                      requests'[n].id = requests'[p].id
               PROVE  n = p
    OBVIOUS
  <2>0. \A k \in 1 .. Len(requests) : requests[k].id # m.id
    <3>1. \A k \in 1 .. Len(requests) : requests[k].id \in 1 .. minted
      BY <1>1 DEF Waiting, WaitingOK
    <3> QED
      BY <1>1, <3>1
  <2>1. CASE n = Len(requests) + 1 \/ p = Len(requests) + 1
    BY <1>1, <1>2, <2>0, <2>1
  <2>2. CASE n # Len(requests) + 1 /\ p # Len(requests) + 1
    <3>1. n \in DOMAIN requests /\ p \in DOMAIN requests
      BY <1>1, <1>2, <2>2
    <3> QED
      BY <1>1, <1>2, <3>1 DEF WaitingOK
  <2> QED
    BY <2>1, <2>2
<1>5. requests # << >> => requests' # << >> /\ Head(requests') = Head(requests)
  BY <1>1, <1>2
<1>6. Waiting \subseteq 1 .. minted
  BY DEF WaitingOK
<1>7. Waiting' = Waiting \cup {m.id}
  BY <1>3
<1>8. 1 .. minted' = (1 .. minted) \cup {m.id}
  BY <1>1
<1>9. Used' = Used
  <2>1. m.id \notin 1 .. minted
    BY <1>1
  <2> QED
    BY <1>6, <1>7, <1>8, <2>1 DEF Used
<1> QED
  BY <1>2, <1>4, <1>5, <1>6, <1>7, <1>8, <1>9 DEF WaitingOK

\* The new order's row is at a ClOrdID nobody has used.
LEMMA NewOrderDoes ==
  ASSUME Inv, NewOrder
  PROVE  /\ requests # << >> /\ reading = Idle /\ reading' = Idle
         /\ LET m == Head(requests)
            IN  /\ m.id \in Waiting /\ m.id \in Ids /\ ~Known(rows, m.id)
                /\ NewRow(m.id, m.qty, "New") \in OrderRow
                /\ rows' = [rows EXCEPT ![m.id] = NewRow(m.id, m.qty, "New")]
         /\ requests' \in Seq(Message) /\ WaitingOK'
         /\ Waiting' = Waiting \ {Head(requests).id} /\ Used' = Used \cup {Head(requests).id}
<1> DEFINE m == Head(requests)
<1>1. /\ requests # << >> /\ m.type = "D" /\ reading = Idle /\ reading' = Idle
      /\ requests' = Tail(requests) /\ minted' = minted
      /\ rows' = Upsert(rows, m.id, NewRow(m.id, m.qty, "New"))
  BY DEF NewOrder, Read
<1>2. m.id \in Waiting /\ m.id \in Ids /\ m.qty \in Nat \ {0}
  BY <1>1, FirstRequest, Constants DEF Inv
<1>3. ~Known(rows, m.id)
  BY <1>2 DEF Inv, RowsOK, RowOK, Used
<1>4. NewRow(m.id, m.qty, "New") \in OrderRow
  <2> HIDE DEF m
  <2> QED
    BY <1>2 DEF NewRow, OrderRow, Statuses
<1> HIDE DEF m
<1>5. rows' = [rows EXCEPT ![m.id] = NewRow(m.id, m.qty, "New")]
  BY <1>1, <1>2, <1>3, UpsertInserts DEF Inv
<1>6. /\ requests' \in Seq(Message) /\ WaitingOK' /\ Waiting' = Waiting \ {m.id}
      /\ Used' = Used \cup {m.id}
  BY <1>1, ReadOne DEF Inv, m
<1> QED
  BY <1>1, <1>2, <1>3, <1>4, <1>5, <1>6 DEF m

\* A parked request is in the slot of its order.
LEMMA ParkDoes ==
  ASSUME Inv, Park
  PROVE  /\ requests # << >> /\ reading' = Idle /\ lock = Reader
         /\ LET m == Head(requests)
                new == rows'[m.orig]
            IN  /\ m.id \in Waiting /\ m.id \in Ids /\ m.orig \in Ids /\ Known(rows, m.orig)
                /\ new \in OrderRow /\ rows' = [rows EXCEPT ![m.orig] = new]
                /\ new.oid = rows[m.orig].oid /\ new.req = m.id /\ new.slot \in {"Cancel", "Replace"}
                /\ new.cum = rows[m.orig].cum /\ new.qty = rows[m.orig].qty
                /\ new.leaves = rows[m.orig].leaves /\ new.status = rows[m.orig].status
         /\ requests' \in Seq(Message) /\ WaitingOK'
         /\ Waiting' = Waiting \ {Head(requests).id} /\ Used' = Used \cup {Head(requests).id}
<1> DEFINE m == Head(requests)
           row == rows[m.orig]
           new == Parked(row, m)
<1>1. /\ reading.step = "parking" /\ lock = Reader /\ requests # << >>
      /\ Known(rows, m.orig) /\ reading.row = row
      /\ reading' = Idle /\ requests' = Tail(requests) /\ minted' = minted
      /\ rows' = Upsert(rows, m.orig, new)
  BY DEF Park, Inv, LockOK, ParkOK
<1>2. m.id \in Waiting /\ m.id \in Ids /\ m.qty \in Nat /\ m.orig \in Ids
  BY <1>1, FirstRequest DEF Inv, Known
<1>3. row \in OrderRow
  BY <1>1, KnownRows DEF Inv
<1> HIDE DEF m, row
<1>4. /\ new \in OrderRow /\ new.oid = row.oid /\ new.req = m.id /\ new.slot \in {"Cancel", "Replace"}
      /\ new.cum = row.cum /\ new.qty = row.qty /\ new.leaves = row.leaves /\ new.status = row.status
  BY <1>2, <1>3 DEF Parked, OrderRow
<1> HIDE DEF new
<1>5. rows' = [rows EXCEPT ![m.orig] = new]
  <2>1. new.oid = rows[m.orig].oid
    BY <1>4 DEF row
  <2> QED
    BY <1>1, <1>4, <2>1, UpsertOverwrites DEF Inv
<1>6. rows'[m.orig] = new
  BY <1>2, <1>5 DEF Inv, TypeOK
<1>7. /\ requests' \in Seq(Message) /\ WaitingOK' /\ Waiting' = Waiting \ {m.id}
      /\ Used' = Used \cup {m.id}
  BY <1>1, ReadOne DEF Inv, m
<1> QED
  BY <1>1, <1>2, <1>4, <1>5, <1>6, <1>7 DEF m, row

\* A message of the counterparty has a ClOrdID of its own.
LEMMA CounterpartyDoes ==
  ASSUME TypeOK, Counterparty
  PROVE  \E m \in Message : /\ requests' = Append(requests, m) /\ m.id = minted + 1
                            /\ minted' = minted + 1 /\ minted + 1 \in Ids
<1>1. PICK orig \in 0 .. minted, qty \in Qtys, type \in {"D", "F", "G"} :
         /\ minted < MaxId /\ (type = "D" <=> orig = 0)
         /\ minted' = minted + 1 /\ requests' = Append(requests, Request(type, minted + 1, orig, qty))
  BY DEF Counterparty
<1>2. minted \in Nat /\ minted + 1 \in Ids
  BY <1>1, NoneUsed, TableAssumption DEF Ids
<1>3. orig # 0 => orig \in Ids
  BY <1>1, <1>2, TableAssumption DEF Ids
<1> DEFINE id == minted + 1
<1> HIDE DEF id
<1>4. Request(type, id, orig, qty) \in Message /\ Request(type, id, orig, qty).id = id
  <2>0. id \in Ids
    BY <1>2 DEF id
  <2>1. CASE type = "D"
    BY <1>1, <2>0, <2>1 DEF Request, NewOrderSingle, Message
  <2>2. CASE type = "F"
    BY <1>1, <1>3, <2>0, <2>2 DEF Request, CancelRequest, Message
  <2>3. CASE type = "G"
    BY <1>1, <1>3, <2>0, <2>3 DEF Request, CancelReplaceRequest, Message
  <2> QED
    BY <2>1, <2>2, <2>3
<1> QED
  BY <1>1, <1>2, <1>4 DEF id
\* A caller that acts on an order has loaded it.
LEMMA HolderIs ==
  ASSUME Inv, NEW c \in Callers, Busy(c)
  PROVE  /\ call[c] \in Held /\ call[c].a \in Op /\ call[c].row \in OrderRow /\ call[c].trade \in Trade
         /\ CommandOK(call[c].a) /\ HolderOK(call[c]) /\ lock = c
<1>1. call[c] \in {Idle} \cup Locking \cup Held
  BY DEF Inv, TypeOK
<1>2. call[c] \in Held /\ call[c].step # "idle"
  BY <1>1 DEF Busy, Steps, Idle, Locking
<1>3. call[c].a \in Op /\ call[c].row \in OrderRow /\ call[c].trade \in Trade
  BY <1>2 DEF Held
<1> QED
  BY <1>2, <1>3 DEF Inv, CommandsOK, HoldersOK, LockOK

\* What names the order now is known, but for a rename to come, whose new
\* ClOrdID is not.
LEMMA RenameDoes ==
  ASSUME Inv, NEW c \in Callers, Rename(c)
  PROVE  LET k == call[c]
         IN  /\ Busy(c) /\ k.step = "renaming" /\ Renames(k.a.op) /\ Known(rows, k.a.id) /\ rows[k.a.id] = k.row
             /\ k.row.req \in Ids /\ ~Known(rows, k.row.req) /\ k.a.id \in Ids /\ k.row.req # k.a.id
             /\ ClearSlot(k.row) \in OrderRow
             /\ rows' = [rows EXCEPT ![k.a.id] = NoRow, ![k.row.req] = ClearSlot(k.row)]
             /\ call' = [call EXCEPT ![c] = [k EXCEPT !.step = "writing"]]
<1> DEFINE k == call[c]
<1>1. /\ k.step = "renaming" /\ rows' = Renamed(rows, k.a.id, k.row.req)
      /\ call' = [call EXCEPT ![c] = [k EXCEPT !.step = "writing"]]
  BY DEF Rename, At, Doing, Goes
<1>2. Busy(c)
  BY <1>1 DEF Busy, Steps
<1>3. k.row \in OrderRow /\ HolderOK(k)
  BY <1>2, HolderIs
<1> HIDE DEF k
<1>4. Renames(k.a.op) /\ Known(rows, k.a.id) /\ rows[k.a.id] = k.row
  BY <1>1, <1>3 DEF HolderOK, Found
<1>5. k.row.slot \in {"Cancel", "Replace"}
  BY <1>3, <1>4 DEF HolderOK, Refused, Renames
<1>6. k.row.req # 0 /\ k.row.req \in Ids \cup {0}
  <2>1. k.row.req \in Ids \cup {0}
    BY <1>3 DEF OrderRow
  <2> QED
    BY <1>3, <1>5, <2>1 DEF HolderOK
<1>7. ~Known(rows, k.row.req)
  BY <1>4 DEF Inv, RowsOK, RowOK, Known
<1>8. rows[k.row.req] = NoRow /\ k.row.req \in Ids
  BY <1>6, <1>7 DEF Known
<1>9. rows' = [rows EXCEPT ![k.a.id] = NoRow, ![k.row.req] = ClearSlot(k.row)]
  BY <1>1, <1>4, <1>8 DEF Renamed
<1>10. ClearSlot(k.row) \in OrderRow
  BY <1>3, ClearSlotKeeps DEF Keeps
<1>11. k.a.id \in Ids /\ k.row.req # k.a.id
  BY <1>4, <1>7 DEF Known
<1> QED
  BY <1>1, <1>2, <1>4, <1>7, <1>8, <1>9, <1>10, <1>11 DEF k

\* The row written is of the order loaded, at the ClOrdID it has now.
LEMMA WriteDoes ==
  ASSUME Inv, NEW c \in Callers, Write(c)
  PROVE  LET k == call[c]
             i == NowId(k.a, k.row)
             new == Written(k.a, k.row, k.trade)
         IN  /\ Busy(c) /\ k.step = "writing" /\ i \in Ids /\ Known(rows, i)
             /\ rows[i] = IF Renames(k.a.op) THEN ClearSlot(k.row) ELSE k.row
             /\ rows[i].oid = k.row.oid /\ rows[i].cum = k.row.cum
             /\ Keeps(new, k.row) /\ new \in OrderRow /\ new.oid = k.row.oid
             /\ rows' = [rows EXCEPT ![i] = new]
             /\ call' = [call EXCEPT ![c] = [k EXCEPT !.step = IF Trades(k.a.op) THEN "trading" ELSE "sending"]]
<1> DEFINE k == call[c]
           i == NowId(k.a, k.row)
           new == Written(k.a, k.row, k.trade)
<1>1. /\ k.step = "writing" /\ rows' = Upsert(rows, i, new)
      /\ call' = [call EXCEPT ![c] = [k EXCEPT !.step = IF Trades(k.a.op) THEN "trading" ELSE "sending"]]
  BY DEF Write, At, Doing, Goes
<1>2. Busy(c)
  BY <1>1 DEF Busy, Steps
<1>3. k.a \in Op /\ CommandOK(k.a) /\ k.row \in OrderRow /\ k.trade \in Trade /\ HolderOK(k)
  BY <1>2, HolderIs
<1>4. Keeps(new, k.row)
  BY <1>3, WrittenKeeps
<1> HIDE DEF k, i, new
<1>5. new \in OrderRow /\ new.oid = k.row.oid
  BY <1>4 DEF Keeps
<1>6. Known(rows, i) /\ rows[i] = IF Renames(k.a.op) THEN ClearSlot(k.row) ELSE k.row
  BY <1>1, <1>3 DEF HolderOK, Found, i
<1>7. rows[i].oid = k.row.oid /\ rows[i].cum = k.row.cum /\ i \in Ids
  BY <1>3, <1>6, ClearSlotKeeps DEF Keeps, Known
<1>8. rows' = [rows EXCEPT ![i] = new]
  BY <1>1, <1>5, <1>6, <1>7, UpsertOverwrites DEF Inv
<1> QED
  BY <1>1, <1>2, <1>4, <1>5, <1>6, <1>7, <1>8 DEF k, i, new

-----------------------------------------------------------------------------
(* Orders keep their IDs apart.                                             *)

\* A row stays its order's, its request gone or one nobody has used.
LEMMA RowsOverwritten ==
  ASSUME TypeOK, RowsOK, NEW i \in Ids, Known(rows, i), NEW new \in OrderRow,
         rows' = [rows EXCEPT ![i] = new], new.oid = rows[i].oid, Used \subseteq Used',
         new.req \in {rows[i].req, 0} \cup (Used' \ Used),
         new.slot \in {"Cancel", "Replace"} => new.req # 0,
         new.slot = "New" => new.req = 0 /\ new.oid = i
  PROVE  RowsOK'
<1>1. /\ rows'[i] = new /\ \A j \in Ids : j # i => rows'[j] = rows[j]
      /\ \A j : Known(rows', j) <=> Known(rows, j)
  <2>1. rows'[i] = new /\ \A j \in Ids : j # i => rows'[j] = rows[j]
    BY DEF TypeOK
  <2>2. new # NoRow
    BY NoRowIsNone
  <2> QED
    BY <2>1, <2>2 DEF Known
<1>2. 0 \notin Ids /\ \A j \in Ids : Known(rows, j) => j \in Used /\ rows[j].oid \in Used /\ rows[j].req \in Used \cup {0}
  BY Constants DEF RowsOK, RowOK
<1>3. ~Known(rows, new.req)
  BY <1>2 DEF RowsOK, RowOK, Known
<1>4. ASSUME NEW j \in Ids, Known(rows', j) PROVE RowOK(j)'
  <2>1. CASE j = i
    BY <1>1, <1>2, <1>3, <2>1 DEF RowOK
  <2>2. CASE j # i
    BY <1>1, <1>4, <2>2 DEF RowsOK, RowOK
  <2> QED
    BY <2>1, <2>2
<1>5. ASSUME NEW j \in Ids, NEW p \in Ids, Known(rows', j), Known(rows', p) PROVE IdsApart(j, p)'
  <2>1. IdsApart(j, p) /\ IdsApart(p, j)
    BY <1>1, <1>5 DEF RowsOK
  <2>2. /\ rows'[j].oid = rows[j].oid /\ rows'[p].oid = rows[p].oid
        /\ rows'[j].req \in {rows[j].req, 0} \cup (IF j = i THEN Used' \ Used ELSE {})
        /\ rows'[p].req \in {rows[p].req, 0} \cup (IF p = i THEN Used' \ Used ELSE {})
    BY <1>1
  <2>3. /\ rows[j].oid \in Used /\ rows[p].oid \in Used /\ rows[p].oid # 0 /\ rows[j].oid # 0
        /\ rows[j].req \in Used \cup {0} /\ rows[p].req \in Used \cup {0}
    BY <1>1, <1>2, <1>5 DEF Used
  <2> QED
    BY <2>1, <2>2, <2>3 DEF IdsApart
<1> QED
  BY <1>4, <1>5 DEF RowsOK

\* Where rows stay, RowsOK needs only the ClOrdIDs used before.
LEMMA RowsUnchanged ==
  ASSUME RowsOK, rows' = rows, Used \subseteq Used'
  PROVE  RowsOK'
BY DEF RowsOK, RowOK, IdsApart

\* A row at a ClOrdID nobody has used is of a new order.
LEMMA RowsInserted ==
  ASSUME TypeOK, RowsOK, NEW i \in Used', i \notin Used, i \in Ids, Used \subseteq Used',
         NEW new \in OrderRow, new.oid = i, new.req = 0, new.slot = "New", rows' = [rows EXCEPT ![i] = new]
  PROVE  RowsOK'
<1>1. /\ rows'[i] = new /\ \A j \in Ids : j # i => rows'[j] = rows[j]
      /\ \A j : Known(rows', j) <=> Known(rows, j) \/ j = i
  <2>1. rows'[i] = new /\ \A j \in Ids : j # i => rows'[j] = rows[j]
    BY DEF TypeOK
  <2>2. new # NoRow
    BY NoRowIsNone
  <2> QED
    BY <2>1, <2>2 DEF Known
<1>2. 0 \notin Ids /\ \A j \in Ids : Known(rows, j) => j \in Used /\ rows[j].oid \in Used /\ rows[j].req \in Used \cup {0}
  BY Constants DEF RowsOK, RowOK
<1>3. ~Known(rows, i) /\ i # 0 /\ 0 \notin Used
  BY <1>2 DEF Used
<1>4. ASSUME NEW j \in Ids, Known(rows', j) PROVE RowOK(j)'
  <2>1. CASE j = i
    BY <1>1, <1>2, <1>3, <2>1 DEF RowOK, Known
  <2>2. CASE j # i
    <3>1. RowOK(j) /\ rows'[j] = rows[j] /\ rows[j].req # i
      BY <1>1, <1>2, <1>3, <1>4, <2>2 DEF RowsOK
    <3> QED
      BY <1>1, <3>1 DEF RowOK
  <2> QED
    BY <2>1, <2>2
<1>5. ASSUME NEW j \in Ids, NEW p \in Ids, Known(rows', j), Known(rows', p) PROVE IdsApart(j, p)'
  <2>1. CASE j # i /\ p # i
    <3>1. IdsApart(j, p) /\ rows'[j] = rows[j] /\ rows'[p] = rows[p]
      BY <1>1, <1>5, <2>1 DEF RowsOK
    <3> QED
      BY <3>1 DEF IdsApart
  <2>2. CASE j = i \/ p = i
    BY <1>1, <1>2, <1>3, <1>5, <2>2 DEF IdsApart
  <2> QED
    BY <2>1, <2>2
<1> QED
  BY <1>4, <1>5 DEF RowsOK

\* A renamed row is at the ClOrdID of its request, which no other row has.
LEMMA RowsRenamed ==
  ASSUME TypeOK, RowsOK, NEW i \in Ids, Known(rows, i), NEW new \in OrderRow,
         rows[i].req \in Ids, rows' = [rows EXCEPT ![i] = NoRow, ![rows[i].req] = new],
         new.oid = rows[i].oid, new.req = 0, new.slot = "", Used \subseteq Used'
  PROVE  RowsOK'
<1> DEFINE n == rows[i].req
<1>0. n # i /\ ~Known(rows, n)
  BY DEF RowsOK, RowOK
<1>1. /\ rows'[n] = new /\ rows'[i] = NoRow /\ \A j \in Ids : j # i /\ j # n => rows'[j] = rows[j]
      /\ \A j : Known(rows', j) <=> (Known(rows, j) /\ j # i) \/ j = n
  <2>1. rows'[n] = new /\ rows'[i] = NoRow /\ \A j \in Ids : j # i /\ j # n => rows'[j] = rows[j]
    BY <1>0 DEF TypeOK
  <2>2. new # NoRow
    BY NoRowIsNone
  <2> QED
    BY <2>1, <2>2, <1>0 DEF Known
<1>2. 0 \notin Ids /\ \A j \in Ids : Known(rows, j) => j \in Used /\ rows[j].oid \in Used /\ rows[j].req \in Used \cup {0}
  BY Constants DEF RowsOK, RowOK
<1>3. n \in Used /\ 0 \notin Used
  <2>1. 0 \notin Used
    BY NoneUsed
  <2> QED
    BY <1>2, <2>1
<1>4. \A j \in Ids : Known(rows, j) /\ j # i => rows[j].req # n /\ rows[j].oid # rows[i].oid
  <2> TAKE j \in Ids
  <2> HAVE Known(rows, j) /\ j # i
  <2>1. IdsApart(i, j)
    BY DEF RowsOK
  <2> QED
    BY <1>2, <2>1 DEF IdsApart
<1> HIDE DEF n
<1>5. ASSUME NEW j \in Ids, Known(rows', j) PROVE RowOK(j)'
  <2>1. CASE j = n
    BY <1>1, <1>2, <1>3, <2>1 DEF RowOK, Known
  <2>2. CASE j # n
    <3>1. RowOK(j) /\ rows'[j] = rows[j] /\ rows[j].req # n
      BY <1>1, <1>4, <1>5, <2>2 DEF RowsOK
    <3> QED
      BY <1>1, <3>1 DEF RowOK
  <2> QED
    BY <2>1, <2>2
<1>6. ASSUME NEW j \in Ids, NEW p \in Ids, Known(rows', j), Known(rows', p) PROVE IdsApart(j, p)'
  <2>1. CASE j # n /\ p # n
    <3>1. IdsApart(j, p) /\ rows'[j] = rows[j] /\ rows'[p] = rows[p]
      BY <1>1, <1>6, <2>1 DEF RowsOK
    <3> QED
      BY <3>1 DEF IdsApart
  <2>2. CASE j = n /\ p # n
    <3>1. rows'[j] = new /\ rows'[p] = rows[p] /\ Known(rows, p) /\ p # i /\ rows[p].oid # 0
      BY <1>1, <1>2, <1>3, <1>6, <2>2
    <3>2. rows[p].oid # rows[i].oid
      BY <1>4, <3>1
    <3> QED
      BY <3>1, <3>2 DEF IdsApart
  <2>3. CASE j # n /\ p = n
    <3>1. rows'[p] = new /\ rows'[j] = rows[j] /\ Known(rows, j) /\ j # i
      BY <1>1, <1>6, <2>3
    <3>2. rows[j].oid # rows[i].oid /\ rows[i].oid # rows[j].req
      BY <1>4, <3>1 DEF RowsOK, IdsApart
    <3> QED
      BY <3>1, <3>2 DEF IdsApart
  <2>4. CASE j = n /\ p = n
    <3>1. rows'[p] = new /\ rows'[j] = new /\ new.oid # 0
      BY <1>1, <1>2, <1>3, <2>4
    <3> QED
      BY <3>1, <2>4 DEF IdsApart
  <2> QED
    BY <2>1, <2>2, <2>3, <2>4
<1> QED
  BY <1>5, <1>6 DEF RowsOK
-----------------------------------------------------------------------------
(* What the callers do.                                                     *)

\* A sequence has finitely many elements.
LEMMA RangeIsFinite ==
  ASSUME NEW g, NEW n \in Nat
  PROVE  IsFiniteSet({g[i] : i \in 1 .. n})
<1> DEFINE S == {g[i] : i \in 1 .. n}
           h == [i \in 1 .. n |-> g[i]]
<1>1. h \in Surjection(1 .. n, S)
  BY DEF Surjection
<1>2. IsFiniteSet(1 .. n)
  BY FS_Interval
<1> QED
  BY <1>1, <1>2, FS_Surjection DEF ExistsSurjection

\* So there are finitely many ExecIDs.
LEMMA ExecIdsAreFinite ==
  ASSUME NEW table \in Seq(Trade)
  PROVE  Cardinality(ExecIds(table)) \in Nat
<1> DEFINE execs(t) == {table[t].execs[n] : n \in DOMAIN table[t].execs}
           all == [t \in 1 .. Len(table) |-> execs(t)]
           S == {all[t] : t \in 1 .. Len(table)}
<1>1. Len(table) \in Nat /\ DOMAIN table = 1 .. Len(table) /\ \A t \in 1 .. Len(table) : table[t] \in Trade
  OBVIOUS
<1>2. ASSUME NEW t \in 1 .. Len(table) PROVE IsFiniteSet(execs(t))
  <2>1. table[t].execs \in Seq(Nat)
    BY <1>1 DEF Trade
  <2>2. Len(table[t].execs) \in Nat /\ DOMAIN table[t].execs = 1 .. Len(table[t].execs)
    BY <2>1
  <2> QED
    BY <2>2, RangeIsFinite, Zenon
<1>3. ExecIds(table) = UNION S
  BY <1>1 DEF ExecIds
<1>4. \A t \in 1 .. Len(table) : all[t] = execs(t)
  OBVIOUS
<1> HIDE DEF execs, all
<1>5. IsFiniteSet(S)
  BY <1>1, RangeIsFinite
<1>6. \A T \in S : IsFiniteSet(T)
  BY <1>2, <1>4
<1> HIDE DEF S
<1>7. IsFiniteSet(ExecIds(table))
  BY <1>3, <1>5, <1>6, FS_UNION
<1> QED
  BY <1>7, FS_CardinalityType

\* An ExecID some trade had finds a trade that had it.
LEMMA TradeIsFound ==
  ASSUME NEW table, NEW x, \E t \in DOMAIN table : Had(table[t], x)
  PROVE  TradeOf(table, x) \in DOMAIN table /\ Had(table[TradeOf(table, x)], x)
BY Zenon DEF TradeOf

\* The trade of a command, and its order.
LEMMA TradeInIs ==
  ASSUME Inv, NEW a \in Op, CommandOK(a)
  PROVE  /\ Named(a) \in Op /\ CommandOK(Named(a)) /\ Named(a).op = a.op /\ Named(a).exec = a.exec
         /\ Named(a).qty = a.qty /\ (a.exec = 0 => Named(a) = a)
         /\ TradeIn(a) \in Trade /\ TradeIn(Named(a)) = TradeIn(a)
         /\ a.exec # 0 => /\ TradeOf(trades, a.exec) \in DOMAIN trades
                          /\ TradeIn(a) = trades[TradeOf(trades, a.exec)]
                          /\ TradeIn(a).oid = rows[Named(a).id].oid
<1>1. CASE a.exec = 0
  <2>1. Named(a) = a
    BY <1>1 DEF Named
  <2>2. TradeIn(a) = NewTrade(0, 0, 0)
    BY <1>1 DEF TradeIn
  <2>3. NewTrade(0, 0, 0) \in Trade
    <3>1. << 0 >> \in Seq(Nat)
      OBVIOUS
    <3> QED
      BY <3>1 DEF NewTrade, Trade, Kinds
  <2> QED
    BY <1>1, <2>1, <2>2, <2>3
<1>2. CASE a.exec # 0
  <2> DEFINE t == TradeOf(trades, a.exec)
             i == CHOOSE i \in Ids : rows[i].oid = trades[t].oid
  <2>1. t \in DOMAIN trades
    BY <1>2, TradeIsFound DEF CommandOK
  <2>2. trades[t] \in Trade /\ \E j \in Ids : rows[j].oid = trades[t].oid
    BY <2>1 DEF Inv, TypeOK, TradesOK
  <2>3. i \in Ids /\ rows[i].oid = trades[t].oid
    BY <2>2
  <2>4. Named(a) = [a EXCEPT !.id = i]
    BY <1>2 DEF Named
  <2> HIDE DEF t, i
  <2>5. /\ Named(a) \in Op /\ Named(a).op = a.op /\ Named(a).exec = a.exec /\ Named(a).qty = a.qty
        /\ Named(a).id = i
    BY <2>3, <2>4 DEF Op
  <2>6. CommandOK(Named(a))
    BY <2>5 DEF CommandOK
  <2>7. TradeIn(a) = trades[t] /\ TradeIn(Named(a)) = trades[t]
    BY <1>2, <2>5 DEF TradeIn, t
  <2> QED
    BY <1>2, <2>1, <2>2, <2>3, <2>5, <2>6, <2>7 DEF t
<1> QED
  BY <1>1, <1>2

\* A caller that has loaded an order holds the lock and finds it as loaded.
LEMMA LoadDoes ==
  ASSUME Inv, NEW c \in Callers, Load(c)
  PROVE  LET a == Named(call[c].a)
             k == [step |-> FirstWrite(a.op), a |-> a, row |-> rows[a.id], trade |-> TradeIn(a),
                   exec |-> Cardinality(ExecIds(trades)) + 1]
         IN  /\ call[c].step = "locking" /\ lock = Nobody
             /\ a \in Op /\ CommandOK(a) /\ a.op = call[c].a.op /\ (a.op \notin OnTrade => a = call[c].a)
             /\ \/ call' = [call EXCEPT ![c] = Idle] /\ lock' = lock
                \/ /\ Known(rows, a.id) /\ k \in Held /\ HolderOK(k) /\ k.step \in {"renaming", "writing"}
                   /\ call' = [call EXCEPT ![c] = k] /\ lock' = c
<1> DEFINE b == call[c].a
           a == Named(b)
           k == [step |-> FirstWrite(a.op), a |-> a, row |-> rows[a.id], trade |-> TradeIn(a),
                 exec |-> Cardinality(ExecIds(trades)) + 1]
<1>1. /\ call[c].step = "locking" /\ lock = Nobody
      /\ \/ call' = [call EXCEPT ![c] = Idle] /\ lock' = lock
         \/ /\ Known(rows, a.id) /\ ~Refused(a, rows[a.id], TradeIn(a))
            /\ call' = [call EXCEPT ![c] = k] /\ lock' = c
  BY DEF Load, At, Goes
<1>2. b \in Op /\ CommandOK(b)
  <2>1. call[c] \in {Idle} \cup Locking \cup Held
    BY DEF Inv, TypeOK
  <2>2. b \in Op
    BY <1>1, <2>1 DEF Idle, Locking, Held, Steps
  <2> QED
    BY <1>1, <2>2 DEF Inv, CommandsOK
<1>3. /\ a \in Op /\ CommandOK(a) /\ a.op = b.op /\ a.exec = b.exec /\ (b.exec = 0 => a = b)
      /\ TradeIn(a) \in Trade
      /\ a.exec # 0 => TradeIn(a) = trades[TradeOf(trades, a.exec)] /\ TradeIn(a).oid = rows[a.id].oid
  BY <1>2, TradeInIs
<1>4. a.op \notin OnTrade => a = b
  BY <1>2, <1>3 DEF CommandOK
<1>5. ASSUME Known(rows, a.id), ~Refused(a, rows[a.id], TradeIn(a))
      PROVE  k \in Held /\ HolderOK(k) /\ k.step \in {"renaming", "writing"}
  <2> HIDE DEF a
  <2>1. a.op # "renotify_trade" /\ a.op \in Ops
    <3>1. TradeIn(a).dk = FALSE
      BY <1>3, Zenon DEF Trade
    <3> QED
      BY <1>3, <1>5, <3>1 DEF Refused, Op
  <2>2. FirstWrite(a.op) = IF Renames(a.op) THEN "renaming" ELSE "writing"
    BY <2>1 DEF FirstWrite
  <2>3. rows[a.id] \in OrderRow /\ a.id \in Ids
    BY <1>5, KnownRows DEF Inv
  <2>4. Cardinality(ExecIds(trades)) + 1 \in Nat \ {0}
    <3>1. Cardinality(ExecIds(trades)) \in Nat
      BY ExecIdsAreFinite DEF Inv, TypeOK
    <3> QED
      BY <3>1
  <2>5. k \in Held
    BY <1>3, <2>2, <2>3, <2>4 DEF Held, Steps
  <2>6. k.a = a /\ k.row = rows[a.id] /\ k.trade = TradeIn(a) /\ k.step = FirstWrite(a.op)
    OBVIOUS
  <2> HIDE DEF k
  <2>7. Found(k)
    BY <1>5, <2>2, <2>6 DEF Found, NowId
  <2>8. rows[a.id].slot \in {"Cancel", "Replace"} => rows[a.id].req # 0
    BY <1>5, <2>3 DEF Inv, RowsOK, RowOK
  <2>9. HolderOK(k)
    BY <1>3, <1>5, <2>1, <2>2, <2>6, <2>7, <2>8 DEF HolderOK
  <2> QED
    BY <2>2, <2>5, <2>6, <2>9
<1> QED
  BY <1>1, <1>3, <1>4, <1>5

\* The same, of the caller's next state.
LEMMA LoadGoes ==
  ASSUME Inv, NEW c \in Callers, Load(c)
  PROVE  \E k \in {Idle} \cup Held :
           /\ call' = [call EXCEPT ![c] = k]
           /\ \/ k = Idle /\ lock' = lock
              \/ /\ k \in Held /\ k.step \in {"renaming", "writing"} /\ k.a = Named(call[c].a) /\ HolderOK(k)
                 /\ lock' = c /\ Known(rows, k.a.id) /\ k.row = rows[k.a.id]
<1> DEFINE a == Named(call[c].a)
           held == [step |-> FirstWrite(a.op), a |-> a, row |-> rows[a.id], trade |-> TradeIn(a),
                    exec |-> Cardinality(ExecIds(trades)) + 1]
<1>1. \/ call' = [call EXCEPT ![c] = Idle] /\ lock' = lock
      \/ /\ Known(rows, a.id) /\ held \in Held /\ HolderOK(held) /\ held.step \in {"renaming", "writing"}
         /\ call' = [call EXCEPT ![c] = held] /\ lock' = c
  BY LoadDoes
<1>2. held.a = a /\ held.row = rows[a.id]
  OBVIOUS
<1> HIDE DEF held
<1> QED
  BY <1>1, <1>2
\* A trade inserted is of the type.
LEMMA NewTradeIs ==
  ASSUME NEW oid \in Ids \cup {0}, NEW x \in Nat, NEW last \in Nat
  PROVE  LET new == NewTrade(oid, x, last)
         IN  new \in Trade /\ new.oid = oid /\ new.last = last /\ new.kind = "Fill" /\ new.execs = << x >>
<1>1. << x >> \in Seq(Nat)
  OBVIOUS
<1>2. NewTrade(oid, x, last) \in Trade
  BY <1>1 DEF NewTrade, Trade, Kinds
<1> QED
  BY <1>2 DEF NewTrade

VersionOf(old, x, ref, last, kind) ==
    [old EXCEPT !.execs = Append(old.execs, x), !.ref = ref, !.last = last, !.kind = kind, !.dk = FALSE]

\* So is another version of one.
LEMMA VersionIs ==
  ASSUME NEW old \in Trade, NEW x \in Nat, NEW ref \in Nat, NEW last \in Nat, NEW kind \in Kinds
  PROVE  /\ VersionOf(old, x, ref, last, kind) \in Trade
         /\ VersionOf(old, x, ref, last, kind).oid = old.oid
         /\ VersionOf(old, x, ref, last, kind).last = last
         /\ VersionOf(old, x, ref, last, kind).kind = kind
         /\ VersionOf(old, x, ref, last, kind).execs = Append(old.execs, x)
<1>1. Append(old.execs, x) \in Seq(Nat)
  <2>1. old.execs \in Seq(Nat)
    BY DEF Trade
  <2> QED
    BY <2>1
<1> QED
  BY <1>1 DEF Trade, VersionOf


\* A trade more, or another version of the trade loaded.
LEMMA WriteTradeDoes ==
  ASSUME Inv, NEW c \in Callers, WriteTrade(c)
  PROVE  LET k == call[c]
             t == TradeOf(trades, k.a.exec)
         IN  /\ Busy(c) /\ k.step = "trading"
             /\ call' = [call EXCEPT ![c] = [k EXCEPT !.step = "sending"]]
             /\ \E new \in Trade :
                  /\ new.oid = k.row.oid /\ new.kind = Kind(k.a.op, k.trade) /\ new.last = LastQty(k.a, k.trade)
                  /\ \/ /\ k.a.op = "fill_order" /\ trades' = Append(trades, new) /\ new.execs = << k.exec >>
                     \/ /\ k.a.op \in {"correct_trade", "bust_trade"} /\ t \in DOMAIN trades
                        /\ k.trade = trades[t] /\ trades' = [trades EXCEPT ![t] = new]
                        /\ new.execs = Append(trades[t].execs, k.exec) /\ trades[t].oid = new.oid
<1> DEFINE k == call[c]
           t == TradeOf(trades, k.a.exec)
           last == LastQty(k.a, k.trade)
           kind == Kind(k.a.op, k.trade)
           ref == RefOf(k.a, k.trade)
<1>1. /\ k.step = "trading" /\ call' = [call EXCEPT ![c] = [k EXCEPT !.step = "sending"]]
      /\ trades' = IF k.a.op = "fill_order" THEN Append(trades, NewTrade(k.row.oid, k.exec, last))
                   ELSE NewVersion(trades, t, k.exec, ref, last, kind)
  BY DEF WriteTrade, At, Doing, Goes
<1>2. Busy(c)
  BY <1>1 DEF Busy, Steps
<1>3. /\ k \in Held /\ k.a \in Op /\ CommandOK(k.a) /\ k.row \in OrderRow /\ k.trade \in Trade
      /\ HolderOK(k)
  BY <1>2, HolderIs
<1> HIDE DEF k
<1>4. k.exec \in Nat /\ k.a.qty \in Nat /\ k.a.exec \in Nat /\ k.trade.last \in Nat /\ k.row.oid \in Ids
  <2>1. k.exec \in Nat
    BY <1>3 DEF Held
  <2>2. k.a.qty \in Nat /\ k.a.exec \in Nat
    BY <1>3 DEF Op
  <2>3. k.trade.last \in Nat
    BY <1>3 DEF Trade
  <2>4. k.row.oid \in Ids
    BY <1>3 DEF OrderRow
  <2> QED
    BY <2>1, <2>2, <2>3, <2>4
<1>5. k.a.op \in {"fill_order", "correct_trade", "bust_trade"}
  BY <1>1, <1>3 DEF HolderOK, Trades
<1>6. last \in Nat /\ ref \in Nat /\ kind \in Kinds
  BY <1>4, <1>5 DEF LastQty, Trades, RefOf, Kind, Kinds
<1> HIDE DEF last, ref, kind
<1>7. CASE k.a.op = "fill_order"
  <2> DEFINE new == NewTrade(k.row.oid, k.exec, last)
  <2>1. /\ new \in Trade /\ new.oid = k.row.oid /\ new.last = last /\ new.kind = "Fill"
        /\ new.execs = << k.exec >>
    BY <1>4, <1>6, NewTradeIs
  <2>2. kind = "Fill"
    BY <1>7 DEF kind, Kind
  <2>3. trades' = Append(trades, new)
    BY <1>1, <1>7
  <2> HIDE DEF new
  <2> QED
    BY <1>1, <1>2, <1>7, <2>1, <2>2, <2>3 DEF k, last, kind
<1>8. CASE k.a.op # "fill_order"
  <2> DEFINE old == trades[t]
  <2>1. k.a.exec # 0
    BY <1>3, <1>5, <1>8 DEF CommandOK, OnTrade
  <2>2. t \in DOMAIN trades
    BY <1>3, <2>1, TradeIsFound DEF CommandOK
  <2>3. k.trade = old /\ old.oid = k.row.oid
    BY <1>1, <1>3, <2>1 DEF HolderOK
  <2> DEFINE new == VersionOf(old, k.exec, ref, last, kind)
  <2>4. NewVersion(trades, t, k.exec, ref, last, kind) = [trades EXCEPT ![t] = new]
    BY Zenon DEF NewVersion, VersionOf
  <2>5. old \in Trade
    BY <1>3, <2>3
  <2> HIDE DEF old
  <2>6. /\ new \in Trade /\ new.oid = old.oid /\ new.last = last /\ new.kind = kind
        /\ new.execs = Append(old.execs, k.exec)
    <3>1. PICK x \in Nat, r \in Nat, l \in Nat, d \in Kinds : x = k.exec /\ r = ref /\ l = last /\ d = kind
      BY <1>4, <1>6
    <3>2. PICK o \in Trade : o = old
      BY <2>5
    <3>3. /\ VersionOf(o, x, r, l, d) \in Trade /\ VersionOf(o, x, r, l, d).oid = o.oid
          /\ VersionOf(o, x, r, l, d).last = l /\ VersionOf(o, x, r, l, d).kind = d
          /\ VersionOf(o, x, r, l, d).execs = Append(o.execs, x)
      BY VersionIs
    <3> QED
      BY <3>1, <3>2, <3>3
  <2> HIDE DEF new
  <2>7. trades' = [trades EXCEPT ![t] = new]
    BY <1>1, <1>8, <2>4
  <2> QED
    BY <1>1, <1>2, <1>5, <1>8, <2>2, <2>3, <2>6, <2>7 DEF k, last, kind, old
<1> QED
  BY <1>7, <1>8

\* The message an action sends.
LEMMA AnswerIs ==
  ASSUME Inv, NEW c \in Callers, At(c, "sending")
  PROVE  LET k == call[c]
         IN  Answer(k.a, k.row, k.trade, k.exec) \in Report \cup Reject
<1> DEFINE k == call[c]
<1>1. k.step = "sending" /\ Busy(c)
  BY DEF At, Busy, Steps
<1>2. /\ k \in Held /\ k.a \in Op /\ CommandOK(k.a) /\ k.row \in OrderRow /\ k.trade \in Trade
      /\ HolderOK(k)
  BY <1>1, HolderIs
<1> HIDE DEF k
<1>3. /\ k.exec \in Nat /\ k.a.qty \in Nat /\ k.a.exec \in Nat /\ k.a.id \in Ids \cup {0}
      /\ k.trade.last \in Nat /\ k.row.req \in Ids \cup {0} /\ k.row.status \in Statuses /\ k.row.qty \in Nat
  <2>1. k.exec \in Nat
    BY <1>2 DEF Held
  <2>2. k.a.qty \in Nat /\ k.a.exec \in Nat /\ k.a.id \in Ids \cup {0}
    BY <1>2 DEF Op
  <2>3. k.trade.last \in Nat
    BY <1>2 DEF Trade
  <2>4. k.row.req \in Ids \cup {0} /\ k.row.status \in Statuses /\ k.row.qty \in Nat
    BY <1>2 DEF OrderRow
  <2> QED
    BY <2>1, <2>2, <2>3, <2>4
<1>4. CASE k.a.op = "reject_cancel"
  <2>1. Answer(k.a, k.row, k.trade, k.exec) = OrderCancelReject(k.row.req, k.a.id, k.row.status, FALSE)
    BY <1>4 DEF Answer
  <2> QED
    BY <1>3, <2>1 DEF OrderCancelReject, Reject, k
<1>5. CASE k.a.op # "reject_cancel"
  <2> DEFINE row == AsReported(k.a, k.row, k.trade)
             id == NowId(k.a, k.row)
             orig == IF Renames(k.a.op) THEN k.a.id ELSE 0
             kind == Kind(k.a.op, k.trade)
             ref == RefOf(k.a, k.trade)
             last == LastQty(k.a, k.trade)
  <2>0. k.a.op \in Ops \ {"renotify_trade"}
    BY <1>2 DEF HolderOK, Op
  <2>1. Answer(k.a, k.row, k.trade, k.exec) = ExecutionReport(kind, id, orig, row, k.exec, ref, last)
    BY <1>5 DEF Answer
  <2>2. row \in OrderRow
    <3>1. Written(k.a, k.row, k.trade) \in OrderRow
      BY <1>2, WrittenKeeps DEF Keeps
    <3>2. CASE k.a.op = "accept_order"
      <4>1. PICK r \in OrderRow : r = Written(k.a, k.row, k.trade)
        BY <3>1
      <4>2. row = [r EXCEPT !.cum = 0, !.leaves = k.row.qty]
        BY <3>2, <4>1 DEF AsReported
      <4> HIDE DEF row
      <4> QED
        BY <1>3, <4>2 DEF OrderRow
    <3>3. CASE k.a.op # "accept_order"
      <4>1. row = Written(k.a, k.row, k.trade)
        BY <2>0, <3>3 DEF AsReported
      <4> QED
        BY <3>1, <4>1
    <3> QED
      BY <3>2, <3>3
  <2>3. id \in Ids \cup {0} /\ orig \in Ids \cup {0} /\ ref \in Nat /\ last \in Nat
    BY <1>3, <2>0 DEF NowId, RefOf, LastQty
  <2>4. kind \in Kinds
    BY <2>0, <1>5 DEF Kind, Kinds, Ops, OnTrade
  <2> HIDE DEF row, id, orig, kind, ref, last
  <2>5. ExecutionReport(kind, id, orig, row, k.exec, ref, last) \in Report
    <3>1. row.oid \in Ids /\ row.status \in Statuses /\ row.qty \in Nat /\ row.cum \in Nat /\ row.leaves \in Nat
      BY <2>2 DEF OrderRow
    <3>2. (IF DefinesExecType THEN row.leaves ELSE 0) \in Nat
      BY <3>1
    <3> QED
      BY <1>3, <2>3, <2>4, <3>1, <3>2 DEF ExecutionReport, Report
  <2> QED
    BY <2>1, <2>5 DEF k
<1> QED
  BY <1>4, <1>5
\* A command names what its action needs.
LEMMA CommandDoes ==
  ASSUME Inv, NEW c \in Callers, Command(c)
  PROVE  /\ call[c].step = "idle"
         /\ \E a \in Op : /\ CommandOK(a) /\ call' = [call EXCEPT ![c] = [step |-> "locking", a |-> a]]
                          /\ a.op \in Actions
<1> DEFINE known == {i \in Ids : rows[i] # NoRow}
           latest == {trades[t].execs[Len(trades[t].execs)] : t \in DOMAIN trades}
<1>1. PICK a \in Commands : call' = [call EXCEPT ![c] = [step |-> "locking", a |-> a]]
  BY DEF Command, Goes
<1>2. ASSUME NEW x \in latest PROVE x \in Nat \ {0} /\ \E t \in DOMAIN trades : Had(trades[t], x)
  <2>1. PICK t \in DOMAIN trades : x = trades[t].execs[Len(trades[t].execs)]
    BY <1>2
  <2>2. trades[t] \in Trade /\ Len(trades[t].execs) > 0
        /\ \A n \in DOMAIN trades[t].execs : trades[t].execs[n] # 0
    BY <2>1 DEF Inv, TypeOK, TradesOK
  <2>3. trades[t].execs \in Seq(Nat)
    BY <2>2 DEF Trade
  <2>4. Len(trades[t].execs) \in DOMAIN trades[t].execs /\ x \in Nat
    BY <2>1, <2>2, <2>3
  <2> QED
    BY <2>1, <2>2, <2>4 DEF Had
<1>3. \/ a \in [op : OnOrder, id : known, qty : {0}, exec : {0}]
      \/ a \in [op : WithQty, id : known, qty : Qtys, exec : {0}]
      \/ a \in [op : Actions \cap {"correct_trade"}, id : {0}, qty : Qtys, exec : latest]
      \/ a \in [op : Actions \cap {"bust_trade", "renotify_trade"}, id : {0}, qty : {0}, exec : latest]
  BY <1>1 DEF Commands
<1> HIDE DEF latest
<1>4. known \subseteq Ids /\ Qtys \subseteq Nat /\ latest \subseteq Nat \ {0}
  BY <1>2, Constants
<1> HIDE DEF known
<1> USE DEF Op, Ops, OnTrade, CommandOK
<1>5. a \in Op /\ CommandOK(a) /\ a.op \in Actions
  <2>1. CASE a \in [op : OnOrder, id : known, qty : {0}, exec : {0}]
    <3>1. a = [op |-> a.op, id |-> a.id, qty |-> 0, exec |-> 0] /\ a.op \in OnOrder /\ a.id \in known
      BY <2>1
    <3>2. a.op \in Actions /\ a.op \in Ops \ ({"fill_order", "restate_order"} \cup OnTrade)
      BY <3>1 DEF OnOrder
    <3> QED
      BY <1>4, <3>1, <3>2
  <2>2. CASE a \in [op : WithQty, id : known, qty : Qtys, exec : {0}]
    <3>1. a = [op |-> a.op, id |-> a.id, qty |-> a.qty, exec |-> 0] /\ a.op \in WithQty
          /\ a.id \in known /\ a.qty \in Qtys
      BY <2>2
    <3>2. a.op \in Actions /\ a.op \in {"fill_order", "restate_order"}
      BY <3>1 DEF WithQty
    <3> QED
      BY <1>4, <3>1, <3>2
  <2>3. CASE a \in [op : Actions \cap {"correct_trade"}, id : {0}, qty : Qtys, exec : latest]
    <3>1. a = [op |-> a.op, id |-> 0, qty |-> a.qty, exec |-> a.exec] /\ a.exec \in latest
          /\ a.op \in Actions /\ a.op = "correct_trade" /\ a.qty \in Qtys
      BY <2>3
    <3> QED
      BY <1>2, <1>4, <3>1
  <2>4. CASE a \in [op : Actions \cap {"bust_trade", "renotify_trade"}, id : {0}, qty : {0}, exec : latest]
    <3>1. a = [op |-> a.op, id |-> 0, qty |-> 0, exec |-> a.exec] /\ a.exec \in latest
          /\ a.op \in Actions /\ a.op \in {"bust_trade", "renotify_trade"}
      BY <2>4
    <3> QED
      BY <1>2, <1>4, <3>1
  <2> QED
    BY <1>3, <2>1, <2>2, <2>3, <2>4
<1> QED
  BY <1>1, <1>5 DEF Command, At

\* Accept and Reject choose by what is pending.
LEMMA DecideDoes ==
  ASSUME Inv, NEW c \in Choosers, Decide(c)
  PROVE  /\ call[c].step = "idle"
         /\ \E a \in Op : /\ CommandOK(a) /\ call' = [call EXCEPT ![c] = [step |-> "locking", a |-> a]]
                          /\ a.op \in {"accept_order", "reject_order"} \cup Answering
                          /\ Known(rows, a.id)
                          /\ a.op \in {"accept_order", "reject_order"} => rows[a.id].slot = "New"
<1>1. PICK op \in Actions \cap {"accept_request", "reject_request"}, i \in Ids :
         /\ Known(rows, i) /\ rows[i].slot # ""
         /\ call' = [call EXCEPT ![c] = [step |-> "locking",
                                         a |-> [op |-> Choice(op, rows[i].slot), id |-> i, qty |-> 0, exec |-> 0]]]
  BY DEF Decide, Goes
<1> DEFINE a == [op |-> Choice(op, rows[i].slot), id |-> i, qty |-> 0, exec |-> 0]
<1>2. rows[i].slot \in {"New", "Cancel", "Replace"}
  <2>1. rows[i] \in OrderRow
    BY <1>1, KnownRows DEF Inv
  <2> QED
    BY <1>1, <2>1 DEF OrderRow
<1>3. /\ Choice(op, rows[i].slot) \in {"accept_order", "reject_order"} \cup Answering
      /\ Choice(op, rows[i].slot) \in {"accept_order", "reject_order"} => rows[i].slot = "New"
  BY <1>2 DEF Choice, Answering
<1>4. a \in Op /\ CommandOK(a)
  BY <1>3 DEF Op, Ops, OnTrade, CommandOK, Answering
<1> QED
  BY <1>1, <1>3, <1>4 DEF Decide, At

-----------------------------------------------------------------------------
(* Types.                                                                   *)

\* The engine starts with empty tables.
LEMMA InitInv == Init => Inv
<1> SUFFICES ASSUME Init PROVE Inv
  OBVIOUS
<1> USE DEF Init, Idle
<1>1. TypeOK
  BY DEF TypeOK
<1>2. TradesOK /\ CommandsOK /\ HoldersOK /\ ParkOK
  BY DEF TradesOK, CommandsOK, HoldersOK, ParkOK, Busy, Steps
<1>3. LockOK
  BY Constants DEF LockOK, Busy, Steps
<1>4. WaitingOK
  BY DEF WaitingOK, Waiting
<1>5. RowsOK
  BY DEF RowsOK, Known
<1> QED
  BY <1>1, <1>2, <1>3, <1>4, <1>5 DEF Inv

\* What one caller goes to.
LEMMA CallsTyped ==
  ASSUME TypeOK, NEW c \in Callers, NEW k \in {Idle} \cup Locking \cup Held, call' = [call EXCEPT ![c] = k]
  PROVE  /\ call' \in [Callers -> {Idle} \cup Locking \cup Held]
         /\ call'[c] = k /\ \A d \in Callers : d # c => call'[d] = call[d]
BY DEF TypeOK

\* A step further.
LEMMA HeldSteps ==
  ASSUME NEW k \in Held, NEW step \in Steps
  PROVE  LET next == [k EXCEPT !.step = step]
         IN  /\ next \in Held /\ next.step = step /\ next.a = k.a /\ next.row = k.row
             /\ next.trade = k.trade /\ next.exec = k.exec
BY DEF Held

\* Every step keeps the types.
LEMMA TypeStep == Inv /\ [Next]_vars => TypeOK'
<1> SUFFICES ASSUME Inv, [Next]_vars PROVE TypeOK'
  OBVIOUS
<1>0. TypeOK
  BY DEF Inv
<1>1. CASE NewOrder
  <2>1. rows' \in [Ids -> OrderRow \cup {NoRow}] /\ reading' = Idle /\ requests' \in Seq(Message)
    BY <1>0, <1>1, NewOrderDoes DEF TypeOK
  <2> QED
    BY <1>0, <1>1, <2>1 DEF TypeOK, NewOrder
<1>2. CASE LoadRequested
  <2> DEFINE m == Head(requests)
  <2>1. requests # << >>
    BY <1>2 DEF LoadRequested, Read
  <2>2. m \in Message /\ m.id \in Ids /\ m.orig \in Ids \cup {0}
    BY <1>0, <2>1, FirstRequest
  <2>3. CASE Known(rows, m.orig)
    <3>1. rows[m.orig] \in OrderRow
      BY <1>0, <2>3, KnownRows
    <3>2. lock' = Reader /\ reading' = [step |-> "parking", row |-> rows[m.orig]]
          /\ UNCHANGED << requests, reports, rows, trades, call, minted >>
      BY <1>2, <2>3 DEF LoadRequested
    <3> HIDE DEF m
    <3> QED
      BY <1>0, <3>1, <3>2 DEF TypeOK
  <2>4. CASE ~Known(rows, m.orig)
    <3>1. /\ reports' = Append(reports, OrderCancelReject(m.id, m.orig, "Rejected", TRUE))
          /\ requests' = Tail(requests) /\ UNCHANGED << lock, reading, rows, trades, call, minted >>
      BY <1>2, <2>4 DEF LoadRequested
    <3>2. OrderCancelReject(m.id, m.orig, "Rejected", TRUE) \in Report \cup Reject
      BY <2>2 DEF OrderCancelReject, Reject, Statuses
    <3> HIDE DEF m
    <3>3. reports' \in Seq(Report \cup Reject)
      BY <1>0, <3>1, <3>2, AppendProperties DEF TypeOK
    <3>4. requests' \in Seq(Message)
      BY <1>0, <2>1, <3>1 DEF TypeOK
    <3> QED
      BY <1>0, <3>1, <3>3, <3>4 DEF TypeOK
  <2> QED
    BY <2>3, <2>4
<1>3. CASE Park
  <2>1. rows' \in [Ids -> OrderRow \cup {NoRow}] /\ reading' = Idle /\ requests' \in Seq(Message)
    BY <1>0, <1>3, ParkDoes DEF TypeOK
  <2> QED
    BY <1>0, <1>3, <2>1 DEF TypeOK, Park
<1>5. ASSUME NEW c \in Choosers, Decide(c) PROVE TypeOK'
  <2>1. PICK a \in Op : call' = [call EXCEPT ![c] = [step |-> "locking", a |-> a]]
    BY <1>5, DecideDoes
  <2>2. [step |-> "locking", a |-> a] \in Locking /\ c \in Callers
    BY Constants DEF Locking
  <2>3. call' \in [Callers -> {Idle} \cup Locking \cup Held]
    BY <1>0, <2>1, <2>2, CallsTyped
  <2> QED
    BY <1>0, <1>5, <2>3 DEF TypeOK, Decide
<1>6. ASSUME NEW c \in Callers, Command(c) PROVE TypeOK'
  <2>1. PICK a \in Op : call' = [call EXCEPT ![c] = [step |-> "locking", a |-> a]]
    BY <1>6, CommandDoes
  <2>2. [step |-> "locking", a |-> a] \in Locking
    BY DEF Locking
  <2>3. call' \in [Callers -> {Idle} \cup Locking \cup Held]
    BY <1>0, <2>1, <2>2, CallsTyped
  <2> QED
    BY <1>0, <1>6, <2>3 DEF TypeOK, Command
<1>7. ASSUME NEW c \in Callers, Load(c) PROVE TypeOK'
  <2>1. \E k \in {Idle} \cup Held : call' = [call EXCEPT ![c] = k]
    BY <1>7, LoadDoes
  <2>2. call' \in [Callers -> {Idle} \cup Locking \cup Held]
    BY <1>0, <2>1 DEF TypeOK
  <2>3. lock' \in {lock, c}
    BY <1>7, LoadDoes
  <2> QED
    BY <1>0, <1>7, <2>2, <2>3 DEF TypeOK, Load
<1>8. ASSUME NEW c \in Callers, Rename(c) PROVE TypeOK'
  <2>1. rows' \in [Ids -> OrderRow \cup {NoRow}]
    BY <1>0, <1>8, RenameDoes DEF TypeOK
  <2>2. call[c] \in Held
    BY <1>8, RenameDoes, HolderIs
  <2>3. [call[c] EXCEPT !.step = "writing"] \in Held
    BY <2>2, HeldSteps DEF Steps
  <2>4. call' \in [Callers -> {Idle} \cup Locking \cup Held]
    BY <1>0, <1>8, <2>3, RenameDoes, CallsTyped
  <2> QED
    BY <1>0, <1>8, <2>1, <2>4 DEF TypeOK, Rename
<1>9. ASSUME NEW c \in Callers, Write(c) PROVE TypeOK'
  <2>1. rows' \in [Ids -> OrderRow \cup {NoRow}]
    BY <1>0, <1>9, WriteDoes DEF TypeOK
  <2>2. call[c] \in Held
    BY <1>9, WriteDoes, HolderIs
  <2>3. PICK step \in Steps : call' = [call EXCEPT ![c] = [call[c] EXCEPT !.step = step]]
    BY <1>9, WriteDoes DEF Steps
  <2>4. [call[c] EXCEPT !.step = step] \in Held
    BY <2>2, HeldSteps
  <2>5. call' \in [Callers -> {Idle} \cup Locking \cup Held]
    BY <1>0, <2>3, <2>4, CallsTyped
  <2> QED
    BY <1>0, <1>9, <2>1, <2>5 DEF TypeOK, Write
<1>10. ASSUME NEW c \in Callers, WriteTrade(c) PROVE TypeOK'
  <2>1. PICK new \in Trade : \/ trades' = Append(trades, new)
                             \/ \E t \in DOMAIN trades : trades' = [trades EXCEPT ![t] = new]
    BY <1>10, WriteTradeDoes
  <2>2. trades' \in Seq(Trade)
    <3>1. trades \in Seq(Trade)
      BY <1>0 DEF TypeOK
    <3>2. CASE trades' = Append(trades, new)
      BY <3>1, <3>2
    <3>3. ASSUME NEW t \in DOMAIN trades, trades' = [trades EXCEPT ![t] = new] PROVE trades' \in Seq(Trade)
      BY <3>1, <3>3
    <3> QED
      BY <2>1, <3>2, <3>3
  <2>3. call[c] \in Held
    BY <1>10, WriteTradeDoes, HolderIs
  <2>4. [call[c] EXCEPT !.step = "sending"] \in Held
    BY <2>3, HeldSteps DEF Steps
  <2>5. call' \in [Callers -> {Idle} \cup Locking \cup Held]
    BY <1>0, <1>10, <2>4, WriteTradeDoes, CallsTyped
  <2> QED
    BY <1>0, <1>10, <2>2, <2>5 DEF TypeOK, WriteTrade
<1>11. ASSUME NEW c \in Callers, Send(c) PROVE TypeOK'
  <2>1. PICK m \in Report \cup Reject : reports' = Append(reports, m)
    BY <1>11, AnswerIs DEF Send
  <2>2. reports' \in Seq(Report \cup Reject)
    BY <1>0, <2>1, AppendProperties DEF TypeOK
  <2>3. call' = [call EXCEPT ![c] = Idle] /\ lock' = Nobody
    BY <1>11 DEF Send, Goes
  <2>4. call' \in [Callers -> {Idle} \cup Locking \cup Held]
    BY <1>0, <2>3, CallsTyped
  <2> QED
    BY <1>0, <1>11, <2>2, <2>3, <2>4 DEF TypeOK, Send
<1>12. CASE Counterparty
  <2>1. PICK m \in Message : /\ requests' = Append(requests, m) /\ m.id = minted + 1
                             /\ minted' = minted + 1 /\ minted + 1 \in Ids
    BY <1>12, CounterpartyDoes DEF Inv
  <2>2. requests' \in Seq(Message)
    BY <1>0, <2>1 DEF TypeOK
  <2> QED
    BY <1>0, <1>12, <2>1, <2>2 DEF TypeOK, Counterparty
<1>13. CASE UNCHANGED vars
  BY <1>0, <1>13 DEF TypeOK, vars
<1> QED
  BY <1>1, <1>2, <1>3, <1>5, <1>6, <1>7, <1>8, <1>9, <1>10, <1>11, <1>12, <1>13
     DEF Next, MarketStep
-----------------------------------------------------------------------------
(* The parts of the invariant, step by step.                                *)

\* Only these write orders, or trades.
LEMMA WhoWrites ==
  ASSUME Inv, [Next]_vars
  PROVE  /\ \/ NewOrder \/ Park \/ rows' = rows
            \/ \E c \in Callers : Rename(c) \/ Write(c)
         /\ trades' = trades \/ \E c \in Callers : WriteTrade(c)
         /\ (NewOrder \/ Park \/ \E c \in Callers : Rename(c) \/ Write(c)) => trades' = trades
         /\ (\E c \in Callers : WriteTrade(c)) => rows' = rows
BY DEF Next, MarketStep, vars, NewOrder, LoadRequested, Park, Decide, Command, Load, Rename, Write, WriteTrade, Send,
       Counterparty

\* ClOrdIDs used stay so, and those waiting are new.
LEMMA QueueStep ==
  ASSUME Inv, [Next]_vars
  PROVE  WaitingOK' /\ Used \subseteq Used'
<1>1. CASE NewOrder
  BY <1>1, NewOrderDoes
<1>2. CASE Park
  BY <1>2, ParkDoes
<1>3. CASE LoadRequested
  <2>1. requests # << >>
    BY <1>3 DEF LoadRequested, Read
  <2>2. minted' = minted /\ (requests' = requests \/ requests' = Tail(requests))
    BY <1>3 DEF LoadRequested
  <2>3. CASE requests' = requests
    BY <2>2, <2>3 DEF Inv, WaitingOK, Waiting, Used
  <2>4. CASE requests' = Tail(requests)
    BY <2>1, <2>2, <2>4, ReadOne DEF Inv
  <2> QED
    BY <2>2, <2>3, <2>4
<1>4. CASE Counterparty
  <2>1. PICK m \in Message : requests' = Append(requests, m) /\ m.id = minted + 1 /\ minted' = minted + 1
    BY <1>4, CounterpartyDoes DEF Inv
  <2> QED
    BY <2>1, SentOne DEF Inv
<1>5. CASE UNCHANGED << requests, minted >>
  BY <1>5 DEF Inv, WaitingOK, Waiting, Used
<1> QED
  BY <1>1, <1>2, <1>3, <1>4, <1>5
     DEF Next, MarketStep, vars, Decide, Command, Load, Rename, Write, WriteTrade, Send

\* Every step keeps an order's ids and its request its own.
LEMMA RowsStep ==
  ASSUME Inv, [Next]_vars
  PROVE  RowsOK'
<1>0. TypeOK /\ RowsOK /\ Used \subseteq Used'
  BY QueueStep DEF Inv
<1>1. CASE NewOrder
  <2> DEFINE m == Head(requests)
             new == NewRow(m.id, m.qty, "New")
  <2>1. /\ m.id \in Waiting /\ m.id \in Ids /\ new \in OrderRow /\ rows' = [rows EXCEPT ![m.id] = new]
        /\ Used' = Used \cup {m.id}
    BY <1>1, NewOrderDoes
  <2>2. m.id \notin Used /\ m.id \in Used'
    BY <2>1 DEF Used
  <2>3. new.oid = m.id /\ new.req = 0 /\ new.slot = "New"
    BY DEF NewRow
  <2> HIDE DEF m, new
  <2> QED
    BY <1>0, <2>1, <2>2, <2>3, RowsInserted
<1>2. CASE Park
  <2> DEFINE m == Head(requests)
  <2>1. PICK i \in Ids, new \in OrderRow :
           /\ Known(rows, i) /\ rows' = [rows EXCEPT ![i] = new] /\ new.oid = rows[i].oid
           /\ new.req = m.id /\ new.slot \in {"Cancel", "Replace"}
    BY <1>2, ParkDoes
  <2>2. m.id \in Ids /\ m.id \notin Used /\ m.id \in Used'
    BY <1>2, ParkDoes DEF Used
  <2>3. m.id # 0
    BY <2>2, Constants
  <2> HIDE DEF m
  <2> QED
    BY <1>0, <2>1, <2>2, <2>3, RowsOverwritten
<1>3. ASSUME NEW c \in Callers, Rename(c) PROVE RowsOK'
  <2> DEFINE k == call[c]
             i == k.a.id
             new == ClearSlot(k.row)
  <2>1. /\ Busy(c) /\ Known(rows, i) /\ rows[i] = k.row /\ k.row.req \in Ids /\ i \in Ids
        /\ new \in OrderRow /\ rows' = [rows EXCEPT ![i] = NoRow, ![k.row.req] = new]
    BY <1>3, RenameDoes
  <2>2. k.row \in OrderRow
    BY <2>1, HolderIs
  <2>3. new.oid = k.row.oid /\ new.req = 0 /\ new.slot = ""
    BY <2>2, ClearSlotKeeps DEF Keeps
  <2> HIDE DEF k, i, new
  <2> QED
    BY <1>0, <2>1, <2>3, RowsRenamed
<1>4. ASSUME NEW c \in Callers, Write(c) PROVE RowsOK'
  <2> DEFINE k == call[c]
             i == NowId(k.a, k.row)
             new == Written(k.a, k.row, k.trade)
  <2>1. /\ Busy(c) /\ i \in Ids /\ Known(rows, i) /\ rows[i].oid = k.row.oid
        /\ rows[i] = (IF Renames(k.a.op) THEN ClearSlot(k.row) ELSE k.row)
        /\ Keeps(new, k.row) /\ new \in OrderRow /\ new.oid = k.row.oid
        /\ rows' = [rows EXCEPT ![i] = new]
    BY <1>4, WriteDoes
  <2>2. k.a \in Op /\ CommandOK(k.a) /\ k.row \in OrderRow /\ k.trade \in Trade
    BY <2>1, HolderIs
  <2>3. k.a.op \in Answering => new.req = 0 /\ new.slot = ""
    BY <2>2, WrittenKeeps
  <2>4. k.a.op \notin Answering => rows[i] = k.row
    BY <2>1 DEF Renames, Answering
  <2> HIDE DEF k, i, new
  <2>5. RowOK(i)
    BY <1>0, <2>1 DEF RowsOK
  <2>6. /\ new.req \in {rows[i].req, 0}
        /\ new.slot \in {"Cancel", "Replace"} => new.req # 0
        /\ new.slot = "New" => new.req = 0 /\ new.oid = i
    <3>1. CASE k.a.op \in Answering
      BY <2>3, <3>1
    <3>2. CASE k.a.op \notin Answering
      BY <2>1, <2>4, <2>5, <3>2 DEF Keeps, RowOK
    <3> QED
      BY <3>1, <3>2
  <2> QED
    BY <1>0, <2>1, <2>6, RowsOverwritten
<1>5. CASE rows' = rows
  BY <1>0, <1>5, RowsUnchanged
<1> QED
  BY <1>1, <1>2, <1>3, <1>4, <1>5, WhoWrites

\* An order once known is known under one ClOrdID or another.
LEMMA OidsStay ==
  ASSUME Inv, [Next]_vars, NEW i \in Ids, Known(rows, i)
  PROVE  \E j \in Ids : Known(rows', j) /\ rows'[j].oid = rows[i].oid
<1>0. TypeOK /\ TypeOK'
  BY TypeStep DEF Inv
<1>1. CASE NewOrder
  <2>1. rows'[i] = rows[i]
    BY <1>0, <1>1, NewOrderDoes DEF TypeOK
  <2> QED
    BY <2>1 DEF Known
<1>2. CASE Park
  <2>1. rows'[i].oid = rows[i].oid
    BY <1>0, <1>2, ParkDoes DEF TypeOK
  <2>2. rows'[i] # NoRow
    <3>1. rows[i] \in OrderRow
      BY <1>0, KnownRows
    <3>2. rows[i].oid # 0
      BY <3>1, Constants DEF OrderRow
    <3> QED
      BY <2>1, <3>2 DEF NoRow
  <2> QED
    BY <2>1, <2>2 DEF Known
<1>3. ASSUME NEW c \in Callers, Rename(c)
      PROVE  \E j \in Ids : Known(rows', j) /\ rows'[j].oid = rows[i].oid
  <2> DEFINE k == call[c]
  <2>1. /\ Busy(c) /\ rows[k.a.id] = k.row /\ k.row.req \in Ids /\ k.a.id \in Ids /\ k.row.req # k.a.id
        /\ ClearSlot(k.row) \in OrderRow /\ ~Known(rows, k.row.req)
        /\ rows' = [rows EXCEPT ![k.a.id] = NoRow, ![k.row.req] = ClearSlot(k.row)]
    BY <1>3, RenameDoes
  <2>2. ClearSlot(k.row).oid = k.row.oid
    BY <2>1, HolderIs, ClearSlotKeeps DEF Keeps
  <2> HIDE DEF k
  <2>3. CASE i = k.a.id
    <3>1. rows'[k.row.req] = ClearSlot(k.row)
      BY <1>0, <2>1 DEF TypeOK
    <3> QED
      BY <2>1, <2>2, <2>3, <3>1, NoRowIsNone DEF Known
  <2>4. CASE i # k.a.id
    <3>1. rows'[i] = rows[i]
      BY <1>0, <2>1, <2>4 DEF TypeOK
    <3> QED
      BY <3>1 DEF Known
  <2> QED
    BY <2>3, <2>4
<1>4. ASSUME NEW c \in Callers, Write(c)
      PROVE  \E j \in Ids : Known(rows', j) /\ rows'[j].oid = rows[i].oid
  <2> DEFINE k == call[c]
             n == NowId(k.a, k.row)
             new == Written(k.a, k.row, k.trade)
  <2>1. /\ n \in Ids /\ rows[n].oid = k.row.oid /\ new \in OrderRow /\ new.oid = k.row.oid
        /\ rows' = [rows EXCEPT ![n] = new]
    BY <1>4, WriteDoes
  <2> HIDE DEF k, n, new
  <2>2. rows'[n] = new /\ (i # n => rows'[i] = rows[i])
    BY <1>0, <2>1 DEF TypeOK
  <2> QED
    BY <2>1, <2>2, NoRowIsNone DEF Known
<1>5. CASE rows' = rows
  BY <1>5
<1> QED
  BY <1>1, <1>2, <1>3, <1>4, <1>5, WhoWrites

\* Every step keeps a trade of a known order.
LEMMA TradesStep ==
  ASSUME Inv, [Next]_vars
  PROVE  TradesOK'
<1>0. TypeOK /\ TradesOK
  BY DEF Inv
<1>1. ASSUME NEW t \in DOMAIN trades, NEW new, new.oid = trades[t].oid
      PROVE  \E i \in Ids : Known(rows', i) /\ rows'[i].oid = new.oid
  <2>1. PICK i \in Ids : Known(rows, i) /\ rows[i].oid = trades[t].oid
    BY <1>0, <1>1 DEF TradesOK
  <2> QED
    BY <1>1, <2>1, OidsStay
<1>2. CASE trades' = trades
  BY <1>0, <1>1, <1>2 DEF TradesOK
<1>3. ASSUME NEW c \in Callers, WriteTrade(c) PROVE TradesOK'
  <2> DEFINE k == call[c]
  <2>1. Busy(c) /\ rows' = rows
    BY <1>3, WriteTradeDoes, WhoWrites
  <2>2. HolderOK(k) /\ k.row \in OrderRow /\ k \in Held
    BY <2>1, HolderIs
  <2>3. k.exec \in Nat \ {0} /\ k.step = "trading"
    BY <1>3, <2>2, WriteTradeDoes DEF Held
  <2>4. Known(rows, NowId(k.a, k.row)) /\ rows[NowId(k.a, k.row)].oid = k.row.oid
    <3>1. Known(rows, NowId(k.a, k.row)) /\ rows[NowId(k.a, k.row)] = Written(k.a, k.row, k.trade)
      BY <2>2, <2>3 DEF HolderOK, Found
    <3>2. Written(k.a, k.row, k.trade).oid = k.row.oid
      BY <2>1, HolderIs, WrittenKeeps DEF Keeps
    <3> QED
      BY <3>1, <3>2
  <2>5. \E i \in Ids : Known(rows', i) /\ rows'[i].oid = k.row.oid
    BY <2>1, <2>4 DEF Known
  <2>6. trades \in Seq(Trade) /\ \A t \in DOMAIN trades : trades[t].execs \in Seq(Nat)
    <3>1. trades \in Seq(Trade)
      BY <1>0 DEF TypeOK
    <3>2. \A t \in DOMAIN trades : trades[t] \in Trade
      BY <3>1
    <3> QED
      BY <3>1, <3>2 DEF Trade
  <2>7. PICK new \in Trade :
          /\ new.oid = k.row.oid
          /\ \/ trades' = Append(trades, new) /\ new.execs = << k.exec >>
             \/ \E t \in DOMAIN trades : /\ trades' = [trades EXCEPT ![t] = new]
                                         /\ new.execs = Append(trades[t].execs, k.exec)
    BY <1>3, WriteTradeDoes
  <2> HIDE DEF k
  <2>8. Len(new.execs) > 0 /\ \A n \in DOMAIN new.execs : new.execs[n] # 0
    <3>1. CASE new.execs = << k.exec >>
      BY <2>3, <3>1
    <3>2. ASSUME NEW t \in DOMAIN trades, new.execs = Append(trades[t].execs, k.exec)
          PROVE  Len(new.execs) > 0 /\ \A n \in DOMAIN new.execs : new.execs[n] # 0
      <4>1. \A n \in DOMAIN trades[t].execs : trades[t].execs[n] # 0
        BY <1>0 DEF TradesOK
      <4>2. trades[t].execs \in Seq(Nat)
        BY <2>6
      <4> QED
        BY <2>3, <3>2, <4>1, <4>2, AppendProperties
    <3> QED
      BY <2>7, <3>1, <3>2
  <2>9. \A t \in DOMAIN trades' : trades'[t] = new \/ (t \in DOMAIN trades /\ trades'[t] = trades[t])
    <3>1. CASE trades' = Append(trades, new)
      <4> DEFINE N == Len(trades)
      <4>1. N \in Nat /\ DOMAIN trades = 1 .. N
        BY <2>6
      <4>2. /\ DOMAIN trades' = 1 .. N + 1 /\ trades'[N + 1] = new
            /\ \A t \in 1 .. N : trades'[t] = trades[t]
        BY <2>6, <3>1, AppendProperties
      <4> HIDE DEF N
      <4>3. \A t \in 1 .. N + 1 : t = N + 1 \/ t \in 1 .. N
        BY <4>1
      <4> QED
        BY <4>1, <4>2, <4>3
    <3>2. ASSUME NEW t \in DOMAIN trades, trades' = [trades EXCEPT ![t] = new]
          PROVE  \A p \in DOMAIN trades' : trades'[p] = new \/ (p \in DOMAIN trades /\ trades'[p] = trades[p])
      <4>1. DOMAIN trades' = DOMAIN trades
        BY <3>2
      <4>2. \A p \in DOMAIN trades : trades'[p] = IF p = t THEN new ELSE trades[p]
        BY <3>2
      <4> QED
        BY <4>1, <4>2
    <3> QED
      BY <2>7, <3>1, <3>2
  <2> QED
    BY <1>0, <2>1, <2>5, <2>7, <2>8, <2>9 DEF TradesOK
<1> QED
  BY <1>2, <1>3, WhoWrites
\* A trade has the ExecIDs it had.
LEMMA ExecIdsStay ==
  ASSUME Inv, [Next]_vars, NEW x, \E t \in DOMAIN trades : Had(trades[t], x)
  PROVE  \E t \in DOMAIN trades' : Had(trades'[t], x)
<1>1. CASE trades' = trades
  BY <1>1
<1>2. ASSUME NEW c \in Callers, WriteTrade(c)
      PROVE  \E t \in DOMAIN trades' : Had(trades'[t], x)
  <2>0. trades \in Seq(Trade) /\ \A t \in DOMAIN trades : trades[t] \in Trade /\ trades[t].execs \in Seq(Nat)
    <3>1. trades \in Seq(Trade)
      BY DEF Inv, TypeOK
    <3>2. \A t \in DOMAIN trades : trades[t] \in Trade
      BY <3>1
    <3> QED
      BY <3>1, <3>2 DEF Trade
  <2>1. PICK new \in Trade, y \in Nat :
          \/ trades' = Append(trades, new)
          \/ \E t \in DOMAIN trades : /\ trades' = [trades EXCEPT ![t] = new]
                                      /\ new.execs = Append(trades[t].execs, y)
    <3>1. call[c].exec \in Nat
      BY <1>2, WriteTradeDoes, HolderIs DEF Held
    <3> QED
      BY <1>2, <3>1, WriteTradeDoes
  <2>2. PICK t \in DOMAIN trades : Had(trades[t], x)
    OBVIOUS
  <2>3. CASE trades' = Append(trades, new)
    <3>1. t \in DOMAIN trades' /\ trades'[t] = trades[t]
      BY <2>0, <2>3, AppendProperties
    <3> QED
      BY <2>2, <3>1
  <2>4. ASSUME NEW p \in DOMAIN trades, trades' = [trades EXCEPT ![p] = new], new.execs = Append(trades[p].execs, y)
        PROVE  \E q \in DOMAIN trades' : Had(trades'[q], x)
    <3>1. t \in DOMAIN trades' /\ (t # p => trades'[t] = trades[t]) /\ (t = p => trades'[t] = new)
      BY <2>4
    <3>2. CASE t = p
      <4>1. PICK n \in DOMAIN trades[t].execs : trades[t].execs[n] = x
        BY <2>2 DEF Had
      <4>2. trades[t].execs \in Seq(Nat)
        BY <2>0
      <4>3. n \in DOMAIN new.execs /\ new.execs[n] = x
        BY <2>4, <3>2, <4>1, <4>2, AppendProperties
      <4> QED
        BY <3>1, <3>2, <4>3 DEF Had
    <3>3. CASE t # p
      BY <2>2, <3>1, <3>3
    <3> QED
      BY <3>2, <3>3
  <2> QED
    BY <2>1, <2>3, <2>4
<1> QED
  BY <1>1, <1>2, WhoWrites

\* What a caller is at is what it was at, with the same command but for the ID
\* of its order, or a new command.
Given(d, a) ==
    \/ Command(d) /\ a.op \in Actions
    \/ /\ d \in Choosers /\ Decide(d) /\ Known(rows, a.id)
       /\ a.op \in {"accept_order", "reject_order"} => rows[a.id].slot = "New"
Loads(d) ==
    /\ Load(d) /\ call'[d].step \in {"renaming", "writing"}
    /\ call'[d].a = Named(call[d].a) /\ CommandOK(Named(call[d].a))
    /\ Known(rows, call'[d].a.id) /\ call'[d].row = rows[call'[d].a.id]

\* Where a caller is after a step: as it was, idle, given a command, holding the
\* order it loaded, or a step further with it.
LEMMA CallStep ==
  ASSUME Inv, [Next]_vars, NEW d \in Callers
  PROVE  \/ call'[d] = call[d]
         \/ call'[d] = Idle
         \/ /\ call[d].step = "idle"
            /\ \E a \in Op : CommandOK(a) /\ call'[d] = [step |-> "locking", a |-> a] /\ Given(d, a)
         \/ Loads(d)
         \/ /\ Busy(d) /\ (Rename(d) \/ Write(d) \/ WriteTrade(d))
            /\ \E step \in Steps : call'[d] = [call[d] EXCEPT !.step = step]
<1>0. TypeOK
  BY DEF Inv
<1>1. CASE UNCHANGED call
  BY <1>1
<1>2. ASSUME NEW c \in Callers, NEW k \in {Idle} \cup Locking \cup Held, call' = [call EXCEPT ![c] = k], c # d
      PROVE  call'[d] = call[d]
  BY <1>0, <1>2, CallsTyped
<1>3. ASSUME NEW c \in Choosers, Decide(c) PROVE \/ call'[d] = call[d]
                                               \/ /\ call[d].step = "idle"
                                                  /\ \E a \in Op : /\ CommandOK(a) /\ Given(d, a)
                                                                   /\ call'[d] = [step |-> "locking", a |-> a]
  <2>1. PICK a \in Op : CommandOK(a) /\ call' = [call EXCEPT ![c] = [step |-> "locking", a |-> a]] /\ Given(c, a)
    BY <1>3, DecideDoes DEF Given
  <2>2. c \in Callers /\ call[c].step = "idle"
    BY <1>3, DecideDoes, Constants
  <2>3. call'[d] = call[d] \/ (c = d /\ call'[d] = [step |-> "locking", a |-> a])
    BY <1>0, <2>1, <2>2 DEF TypeOK
  <2> QED
    BY <2>1, <2>2, <2>3
<1>4. ASSUME NEW c \in Callers, Command(c) PROVE \/ call'[d] = call[d]
                                               \/ /\ call[d].step = "idle"
                                                  /\ \E a \in Op : /\ CommandOK(a) /\ Given(d, a)
                                                                   /\ call'[d] = [step |-> "locking", a |-> a]
  <2>1. PICK a \in Op : CommandOK(a) /\ call' = [call EXCEPT ![c] = [step |-> "locking", a |-> a]] /\ Given(c, a)
    BY <1>4, CommandDoes DEF Given
  <2>2. call[c].step = "idle"
    BY <1>4, CommandDoes
  <2>3. call'[d] = call[d] \/ (c = d /\ call'[d] = [step |-> "locking", a |-> a])
    BY <1>0, <2>1 DEF TypeOK
  <2> QED
    BY <2>1, <2>2, <2>3
<1>5. ASSUME NEW c \in Callers, Load(c) PROVE call'[d] = call[d] \/ call'[d] = Idle \/ Loads(d)
  <2>0. CommandOK(Named(call[c].a))
    BY <1>5, LoadDoes
  <2>1. PICK k : /\ call' = [call EXCEPT ![c] = k]
                 /\ \/ k = Idle
                    \/ /\ k.step \in {"renaming", "writing"} /\ k.a = Named(call[c].a)
                       /\ Known(rows, k.a.id) /\ k.row = rows[k.a.id]
    BY <1>5, LoadGoes
  <2>2. call'[d] = call[d] \/ (c = d /\ call'[d] = k)
    BY <1>0, <2>1 DEF TypeOK
  <2>3. CASE c = d /\ call'[d] = k
    BY <1>5, <2>0, <2>1, <2>3 DEF Loads
  <2> QED
    BY <2>2, <2>3
<1>6. ASSUME NEW c \in Callers, Rename(c) \/ Write(c) \/ WriteTrade(c)
      PROVE  \/ call'[d] = call[d]
             \/ /\ Busy(d) /\ (Rename(d) \/ Write(d) \/ WriteTrade(d))
                /\ \E step \in Steps : call'[d] = [call[d] EXCEPT !.step = step]
  <2>1. Busy(c) /\ \E step \in Steps : call' = [call EXCEPT ![c] = [call[c] EXCEPT !.step = step]]
    BY <1>6, RenameDoes, WriteDoes, WriteTradeDoes DEF Steps
  <2>2. PICK step \in Steps : call' = [call EXCEPT ![c] = [call[c] EXCEPT !.step = step]]
    BY <2>1
  <2>3. call'[d] = call[d] \/ (c = d /\ call'[d] = [call[d] EXCEPT !.step = step])
    BY <1>0, <2>2 DEF TypeOK
  <2> QED
    BY <1>6, <2>1, <2>3
<1>7. ASSUME NEW c \in Callers, Send(c) PROVE call'[d] = call[d] \/ call'[d] = Idle
  <2>1. call' = [call EXCEPT ![c] = Idle]
    BY <1>7 DEF Send, Goes
  <2> QED
    BY <1>0, <2>1 DEF TypeOK
<1> QED
  BY <1>1, <1>3, <1>4, <1>5, <1>6, <1>7
     DEF Next, MarketStep, vars, NewOrder, LoadRequested, Park, Counterparty

\* Every step keeps a command naming what it needs.
LEMMA CommandsStep ==
  ASSUME Inv, [Next]_vars
  PROVE  CommandsOK'
<1> SUFFICES ASSUME NEW d \in Callers, call'[d].step # "idle" PROVE CommandOK(call[d].a)'
  BY DEF CommandsOK
<1>1. ASSUME NEW a, CommandOK(a) PROVE CommandOK(a)'
  BY <1>1, ExecIdsStay DEF CommandOK
<1>2. \E a : CommandOK(a) /\ call'[d].a = a
  <2>1. CASE call'[d] = call[d]
    BY <2>1 DEF Inv, CommandsOK
  <2>2. CASE call'[d] = Idle
    BY <2>2 DEF Idle
  <2>3. CASE Busy(d) /\ \E step \in Steps : call'[d] = [call[d] EXCEPT !.step = step]
    <3>1. call[d] \in Held /\ CommandOK(call[d].a)
      BY <2>3, HolderIs
    <3>2. call'[d].a = call[d].a
      BY <2>3, <3>1, HeldSteps
    <3> QED
      BY <3>1, <3>2
  <2>4. CASE \E a \in Op : CommandOK(a) /\ call'[d] = [step |-> "locking", a |-> a]
    BY <2>4
  <2>5. CASE Loads(d)
    BY <2>5 DEF Loads
  <2> QED
    BY <2>1, <2>2, <2>3, <2>4, <2>5, CallStep
<1> QED
  BY <1>1, <1>2

\* Every step keeps the lock with who acts.
LEMMA LockStep ==
  ASSUME Inv, [Next]_vars
  PROVE  LockOK'
<1>0. TypeOK /\ LockOK
  BY DEF Inv
<1> DEFINE SameBusy == \A d \in Callers : Busy(d)' <=> Busy(d)
<1>1. ASSUME SameBusy, lock' = lock, reading'.step = "parking" <=> reading.step = "parking" PROVE LockOK'
  BY <1>0, <1>1 DEF LockOK
<1>2. CASE NewOrder
  <2>1. call' = call /\ lock' = lock /\ reading' = reading
    BY <1>2 DEF NewOrder
  <2> QED
    BY <1>1, <2>1 DEF Busy
<1>3. CASE LoadRequested
  <2>1. call' = call /\ lock = Nobody
    BY <1>3 DEF LoadRequested
  <2>2. CASE lock' = Reader /\ reading'.step = "parking"
    BY <1>0, <2>1, <2>2, Constants DEF LockOK, Busy
  <2>3. CASE lock' = lock /\ reading' = reading
    BY <1>1, <2>1, <2>3 DEF Busy
  <2>4. \/ lock' = Reader /\ \E row : reading' = [step |-> "parking", row |-> row]
        \/ lock' = lock /\ reading' = reading
    BY <1>3, Zenon DEF LoadRequested
  <2> QED
    BY <2>2, <2>3, <2>4
<1>4. CASE Park
  <2>1. call' = call /\ lock = Reader /\ lock' = Nobody /\ reading' = Idle
    BY <1>4, ParkDoes DEF Park
  <2>2. \A d \in Callers : ~Busy(d)
    BY <1>0, <2>1, Constants DEF LockOK
  <2> QED
    BY <2>1, <2>2, Constants DEF LockOK, Busy, Idle
<1>5. ASSUME NEW c \in Callers, Command(c) \/ (c \in Choosers /\ Decide(c)) PROVE LockOK'
  <2>1. PICK a : call[c].step = "idle" /\ call' = [call EXCEPT ![c] = [step |-> "locking", a |-> a]]
    BY <1>5, CommandDoes, DecideDoes
  <2>2. lock' = lock /\ reading' = reading
    BY <1>5 DEF Command, Decide
  <2>3. SameBusy
    BY <1>0, <2>1 DEF TypeOK, Busy, Steps
  <2> QED
    BY <1>1, <2>2, <2>3
<1>6. ASSUME NEW c \in Callers, Load(c) PROVE LockOK'
  <2>1. call[c].step = "locking" /\ lock = Nobody /\ reading' = reading
    BY <1>6, LoadDoes DEF Load
  <2>2. CASE call' = [call EXCEPT ![c] = Idle] /\ lock' = lock
    <3>1. SameBusy
      BY <1>0, <2>1, <2>2 DEF TypeOK, Busy, Steps, Idle
    <3> QED
      BY <1>1, <2>1, <2>2, <3>1
  <2>3. ASSUME NEW k \in Held, call' = [call EXCEPT ![c] = k], lock' = c PROVE LockOK'
    <3>1. call'[c] = k /\ \A d \in Callers : d # c => call'[d] = call[d]
      BY <1>0, <2>3 DEF TypeOK
    <3>2. Busy(c)'
      BY <2>3, <3>1 DEF Busy, Held
    <3>3. \A d \in Callers : ~Busy(d)
      BY <1>0, <2>1, Constants DEF LockOK
    <3> QED
      BY <1>0, <2>1, <2>3, <3>1, <3>2, <3>3, Constants DEF LockOK, Busy
  <2> QED
    BY <1>6, <2>2, <2>3, LoadGoes
<1>7. ASSUME NEW c \in Callers, Rename(c) \/ Write(c) \/ WriteTrade(c) PROVE LockOK'
  <2>1. Busy(c) /\ \E step \in Steps : call' = [call EXCEPT ![c] = [call[c] EXCEPT !.step = step]]
    BY <1>7, RenameDoes, WriteDoes, WriteTradeDoes DEF Steps
  <2>2. PICK step \in Steps : call' = [call EXCEPT ![c] = [call[c] EXCEPT !.step = step]]
    BY <2>1
  <2>3. lock' = lock /\ reading' = reading
    BY <1>7 DEF Rename, Write, WriteTrade
  <2>4. call[c] \in Held
    BY <2>1, HolderIs
  <2>5. call'[c].step = step /\ \A d \in Callers : d # c => call'[d] = call[d]
    BY <1>0, <2>2, <2>4, HeldSteps DEF TypeOK
  <2>6. SameBusy
    BY <2>1, <2>5 DEF Busy
  <2> QED
    BY <1>1, <2>3, <2>6
<1>8. ASSUME NEW c \in Callers, Send(c) PROVE LockOK'
  <2>1. call[c].step = "sending" /\ call' = [call EXCEPT ![c] = Idle] /\ lock' = Nobody /\ reading' = reading
    BY <1>8 DEF Send, At, Goes
  <2>2. lock = c
    BY <1>0, <2>1 DEF LockOK, Busy, Steps
  <2>3. call'[c] = Idle /\ \A d \in Callers : d # c => call'[d] = call[d]
    BY <1>0, <2>1 DEF TypeOK
  <2>4. \A d \in Callers : ~Busy(d)'
    BY <1>0, <2>2, <2>3 DEF LockOK, Busy, Steps, Idle
  <2> QED
    BY <1>0, <2>1, <2>2, <2>4, Constants DEF LockOK
<1>9. CASE UNCHANGED << call, lock, reading >>
  BY <1>0, <1>9 DEF LockOK, Busy
<1> QED
  BY <1>2, <1>3, <1>4, <1>5, <1>6, <1>7, <1>8, <1>9, Constants
     DEF Next, MarketStep, vars, Counterparty

\* Who holds the lock is alone in acting on orders.
LEMMA Alone ==
  ASSUME Inv, NEW c \in Callers, Busy(c)
  PROVE  reading.step # "parking" /\ \A d \in Callers : Busy(d) => d = c
BY Constants DEF Inv, LockOK

\* While the reader holds the lock, the order it loaded stays.
LEMMA ParkStep ==
  ASSUME Inv, [Next]_vars
  PROVE  ParkOK'
<1>0. TypeOK /\ LockOK /\ ParkOK
  BY DEF Inv
<1> SUFFICES ASSUME reading'.step = "parking"
             PROVE  /\ requests' # << >> /\ Head(requests').type \in {"F", "G"}
                    /\ Known(rows', Head(requests').orig) /\ reading'.row = rows'[Head(requests').orig]
  BY DEF ParkOK
<1>1. CASE NewOrder
  BY <1>1, NewOrderDoes DEF Idle
<1>2. CASE Park
  BY <1>2, ParkDoes DEF Idle
<1>3. CASE LoadRequested
  <2>1. requests # << >> /\ Head(requests).type \in {"F", "G"} /\ rows' = rows /\ reading = Idle
    BY <1>3 DEF LoadRequested, Read
  <2>2. CASE Known(rows, Head(requests).orig)
    <3>1. requests' = requests /\ reading' = [step |-> "parking", row |-> rows[Head(requests).orig]]
      BY <1>3, <2>2 DEF LoadRequested
    <3> QED
      BY <2>1, <2>2, <3>1
  <2>3. CASE ~Known(rows, Head(requests).orig)
    BY <1>3, <2>1, <2>3 DEF LoadRequested, Idle
  <2> QED
    BY <2>2, <2>3
<1>4. CASE Counterparty
  <2>1. rows' = rows /\ reading' = reading
    BY <1>4 DEF Counterparty
  <2>2. PICK m \in Message : requests' = Append(requests, m) /\ m.id = minted + 1 /\ minted' = minted + 1
    BY <1>0, <1>4, CounterpartyDoes
  <2>3. requests # << >>
    BY <1>0, <2>1 DEF ParkOK
  <2>4. requests' # << >> /\ Head(requests') = Head(requests)
    BY <2>2, <2>3, SentOne DEF Inv
  <2> QED
    BY <1>0, <2>1, <2>4 DEF ParkOK
<1>5. ASSUME NEW c \in Callers, Rename(c) \/ Write(c) \/ WriteTrade(c) \/ Send(c) PROVE FALSE
  <2>1. Busy(c) /\ reading' = reading
    BY <1>5 DEF Rename, Write, WriteTrade, Send, At, Busy, Steps
  <2> QED
    BY <2>1, Alone
<1>6. CASE UNCHANGED << rows, reading, requests >>
  BY <1>0, <1>6 DEF ParkOK
<1> QED
  BY <1>1, <1>2, <1>3, <1>4, <1>5, <1>6 DEF Next, MarketStep, vars, Decide, Command, Load

\* While a caller holds the lock, the order it loaded stays as it wrote it.
LEMMA HoldersStep ==
  ASSUME Inv, [Next]_vars
  PROVE  HoldersOK'
<1>0. TypeOK /\ TypeOK' /\ HoldersOK
  BY TypeStep DEF Inv
<1> SUFFICES ASSUME NEW d \in Callers, Busy(d)' PROVE HolderOK(call[d])'
  BY DEF HoldersOK
<1>1. ASSUME call'[d] = call[d], rows' = rows, trades' = trades PROVE HolderOK(call[d])'
  <2>1. HolderOK(call[d])
    BY <1>0, <1>1 DEF HoldersOK, Busy
  <2> QED
    BY <1>1, <2>1 DEF HolderOK, Found
<1>2. CASE NewOrder
  <2> DEFINE m == Head(requests)
  <2>1. /\ m.id \in Ids /\ ~Known(rows, m.id) /\ rows' = [rows EXCEPT ![m.id] = NewRow(m.id, m.qty, "New")]
        /\ call' = call /\ trades' = trades
    BY <1>2, NewOrderDoes DEF NewOrder
  <2>2. HolderOK(call[d])
    BY <1>0, <2>1 DEF HoldersOK, Busy
  <2> HIDE DEF m
  <2>3. \A i : Known(rows, i) => Known(rows', i) /\ rows'[i] = rows[i]
    BY <1>0, <2>1 DEF TypeOK, Known
  <2>4. PICK k : k = call[d]
    OBVIOUS
  <2>5. call'[d] = k /\ Found(k)
    BY <2>1, <2>2, <2>4 DEF HolderOK
  <2>6. Found(call[d])'
    BY <2>3, <2>5 DEF Found
  <2> QED
    BY <2>1, <2>2, <2>6 DEF HolderOK
<1>3. CASE Park
  <2>1. lock = Reader /\ call' = call
    BY <1>3, ParkDoes DEF Park
  <2> QED
    BY <2>1, Alone, Constants DEF Inv, LockOK, Busy
<1>4. ASSUME NEW c \in Callers, Load(c) PROVE HolderOK(call[d])'
  <2>1. lock = Nobody /\ UNCHANGED << rows, trades >>
    BY <1>4, LoadDoes DEF Load
  <2>2. ~Busy(d)
    BY <2>1, Constants DEF Inv, LockOK
  <2>3. PICK k : /\ call' = [call EXCEPT ![c] = k]
                 /\ k = Idle \/ HolderOK(k)
    BY <1>4, LoadGoes
  <2>4. d = c /\ call'[d] = k
    BY <1>0, <2>2, <2>3 DEF TypeOK, Busy
  <2>5. HolderOK(k)
    BY <2>3, <2>4 DEF Busy, Idle, Steps
  <2> QED
    BY <2>1, <2>4, <2>5 DEF HolderOK, Found
<1>5. ASSUME NEW c \in Callers, Rename(c) PROVE HolderOK(call[d])'
  <2> DEFINE k == call[c]
             next == [k EXCEPT !.step = "writing"]
  <2>1. /\ Busy(c) /\ k.step = "renaming" /\ Renames(k.a.op) /\ k.row.req \in Ids /\ k.a.id \in Ids /\ k.row.req # k.a.id
        /\ ClearSlot(k.row) \in OrderRow
        /\ rows' = [rows EXCEPT ![k.a.id] = NoRow, ![k.row.req] = ClearSlot(k.row)]
        /\ call' = [call EXCEPT ![c] = next] /\ trades' = trades
    BY <1>5, RenameDoes DEF Rename
  <2>2. HolderOK(k) /\ k \in Held
    BY <2>1, HolderIs
  <2>3. /\ next.step = "writing" /\ next.a = k.a /\ next.row = k.row /\ next.trade = k.trade
    BY <2>2, HeldSteps DEF Steps
  <2>4. d = c /\ call'[d] = next
    BY <1>0, <2>1, Alone DEF TypeOK, Busy
  <2> HIDE DEF k, next
  <2>5. rows'[k.row.req] = ClearSlot(k.row) /\ Known(rows', k.row.req)
    BY <1>0, <2>1, NoRowIsNone DEF TypeOK, Known
  <2>6. Found(call[d])'
    BY <2>1, <2>3, <2>4, <2>5 DEF Found, NowId
  <2> QED
    BY <2>1, <2>2, <2>3, <2>4, <2>6 DEF HolderOK
<1>6. ASSUME NEW c \in Callers, Write(c) PROVE HolderOK(call[d])'
  <2> DEFINE k == call[c]
             i == NowId(k.a, k.row)
             new == Written(k.a, k.row, k.trade)
             step == IF Trades(k.a.op) THEN "trading" ELSE "sending"
             next == [k EXCEPT !.step = step]
  <2>1. /\ Busy(c) /\ k.step = "writing" /\ i \in Ids /\ new \in OrderRow /\ rows' = [rows EXCEPT ![i] = new]
        /\ call' = [call EXCEPT ![c] = next] /\ trades' = trades
    BY <1>6, WriteDoes DEF Write
  <2>2. HolderOK(k) /\ k \in Held
    BY <2>1, HolderIs
  <2>3. step \in Steps /\ step \in {"trading", "sending"} /\ (step = "trading" => Trades(k.a.op))
    BY DEF Steps
  <2> HIDE DEF step
  <2>4. /\ next.step = step /\ next.a = k.a /\ next.row = k.row /\ next.trade = k.trade
    BY <2>2, <2>3, HeldSteps
  <2>5. d = c /\ call'[d] = next
    BY <1>0, <2>1, Alone DEF TypeOK, Busy
  <2> HIDE DEF k, next
  <2>6. rows'[i] = new /\ Known(rows', i)
    BY <1>0, <2>1, NoRowIsNone DEF TypeOK, Known
  <2>7. Found(call[d])'
    BY <2>3, <2>4, <2>5, <2>6 DEF Found
  <2> QED
    BY <2>1, <2>2, <2>3, <2>4, <2>5, <2>7 DEF HolderOK
<1>7. ASSUME NEW c \in Callers, WriteTrade(c) PROVE HolderOK(call[d])'
  <2> DEFINE k == call[c]
             next == [k EXCEPT !.step = "sending"]
  <2>1. Busy(c) /\ k.step = "trading" /\ call' = [call EXCEPT ![c] = next] /\ rows' = rows
    BY <1>7, WriteTradeDoes DEF WriteTrade
  <2>2. HolderOK(k) /\ k \in Held
    BY <2>1, HolderIs
  <2>3. /\ next.step = "sending" /\ next.a = k.a /\ next.row = k.row /\ next.trade = k.trade
    BY <2>2, HeldSteps DEF Steps
  <2>4. d = c /\ call'[d] = next
    BY <1>0, <2>1, Alone DEF TypeOK, Busy
  <2> HIDE DEF k, next
  <2>5. Found(call[d])'
    BY <2>1, <2>2, <2>3, <2>4 DEF HolderOK, Found
  <2> QED
    BY <2>1, <2>2, <2>3, <2>4, <2>5 DEF HolderOK
<1>8. ASSUME NEW c \in Callers, Send(c) PROVE HolderOK(call[d])'
  <2>1. Busy(c) /\ call' = [call EXCEPT ![c] = Idle]
    BY <1>8 DEF Send, At, Busy, Steps, Goes
  <2>2. d # c /\ call'[d] = call[d]
    BY <1>0, <2>1 DEF TypeOK, Busy, Idle, Steps
  <2> QED
    BY <2>1, <2>2, Alone DEF Busy
<1>9. CASE UNCHANGED << rows, trades >> /\ call'[d] = call[d]
  BY <1>1, <1>9
<1>10. ASSUME NEW c \in Callers, Command(c) \/ (c \in Choosers /\ Decide(c)) PROVE HolderOK(call[d])'
  <2>1. PICK a : call' = [call EXCEPT ![c] = [step |-> "locking", a |-> a]]
    BY <1>10, CommandDoes, DecideDoes
  <2>2. rows' = rows /\ trades' = trades
    BY <1>10 DEF Command, Decide
  <2>3. call'[d] = call[d]
    BY <1>0, <2>1 DEF TypeOK, Busy, Steps
  <2> QED
    BY <1>1, <2>2, <2>3
<1> QED
  BY <1>2, <1>3, <1>4, <1>5, <1>6, <1>7, <1>8, <1>9, <1>10, Constants
     DEF Next, MarketStep, vars, LoadRequested, Counterparty

\* Together: the invariant is inductive.
LEMMA InvStep == Inv /\ [Next]_vars => Inv'
BY TypeStep, TradesStep, CommandsStep, LockStep, QueueStep, RowsStep, ParkStep, HoldersStep DEF Inv

\* The tables, the lock and the callers agree (every part of Inv) in every
\* reachable state: the order lock of _market_action and of the request handlers
\* makes them.
THEOREM InvHolds == Spec => []Inv
<1>1. Init => Inv
  BY InitInv
<1>2. Inv /\ [Next]_vars => Inv'
  BY InvStep
<1> QED
  BY <1>1, <1>2, PTL DEF Spec

\* The order table, the trades, the lock and every caller are what the code
\* makes them: TypeOK, under every interleaving.
THEOREM TypeCorrect == Spec => []TypeOK
<1>1. Inv => TypeOK
  BY DEF Inv
<1> QED
  BY <1>1, InvHolds, PTL

-----------------------------------------------------------------------------
(* What an order has executed is what its trades come to.                   *)

\* But for the order of who has written its row and not yet its trade: there,
\* the row as it was loaded is.
Trading(c) == call[c].step = "trading"
CumOK ==
    /\ \A i \in Ids : Known(rows, i) /\ (\A c \in Callers : Trading(c) => call[c].row.oid # rows[i].oid) =>
          rows[i].cum = SumOfTrades(rows[i].oid)
    /\ \A c \in Callers : Trading(c) => call[c].row.cum = SumOfTrades(call[c].row.oid)

\* Who acts on an order is the only one to write a trade.
LEMMA TradingAlone ==
  ASSUME Inv, NEW c \in Callers, Busy(c)
  PROVE  \A d \in Callers : Trading(d) => d = c
BY Alone DEF Trading, Busy, Steps

\* What is in the trades table is a trade.
LEMMA TradesAreTrades ==
  ASSUME TypeOK
  PROVE  /\ trades \in Seq(Trade) /\ DOMAIN trades = 1 .. Len(trades) /\ Len(trades) \in Nat
         /\ \A t \in DOMAIN trades : trades[t] \in Trade
<1>1. trades \in Seq(Trade)
  BY DEF TypeOK
<1> QED
  BY <1>1

\* An order nobody has traded.
LEMMA NothingTraded ==
  ASSUME Inv, NEW oid, oid \notin Used
  PROVE  SumOfTrades(oid) = 0
<1>1. \A t \in DOMAIN trades : trades[t].oid # oid
  BY DEF Inv, TradesOK, RowsOK, RowOK
<1> QED
  BY <1>1, TradesAreTrades, TotalOfNone DEF Inv, SumOfTrades

\* What the trade written adds to its order, and to no other.
LEMMA TradeAdds ==
  ASSUME Inv, CumOK, NEW c \in Callers, WriteTrade(c)
  PROVE  LET k == call[c]
         IN  /\ Total(trades', k.row.oid) = Written(k.a, k.row, k.trade).cum
             /\ \A oid : oid # k.row.oid => Total(trades', oid) = Total(trades, oid)
<1>0. PICK k, t : k = call[c] /\ t = TradeOf(trades, k.a.exec)
  OBVIOUS
<1>1. Busy(c) /\ k.step = "trading"
  BY <1>0, WriteTradeDoes
<1>2. PICK new \in Trade :
        /\ new.oid = k.row.oid /\ new.kind = Kind(k.a.op, k.trade) /\ new.last = LastQty(k.a, k.trade)
        /\ \/ k.a.op = "fill_order" /\ trades' = Append(trades, new)
           \/ /\ k.a.op \in {"correct_trade", "bust_trade"} /\ t \in DOMAIN trades /\ k.trade = trades[t]
              /\ trades' = [trades EXCEPT ![t] = new] /\ trades[t].oid = new.oid
  BY <1>0, WriteTradeDoes
<1>3. /\ k.a \in Op /\ CommandOK(k.a) /\ k.row \in OrderRow /\ k.trade \in Trade
      /\ ~Refused(k.a, k.row, k.trade)
  BY <1>0, <1>1, HolderIs DEF HolderOK
<1>4. k.row.cum = Total(trades, k.row.oid)
  BY <1>0, <1>1 DEF CumOK, Trading, SumOfTrades
<1>5. k.a.qty \in Nat /\ k.row.cum \in Nat /\ k.trade.last \in Nat
  <2>1. k.a.qty \in Nat
    BY <1>3 DEF Op
  <2>2. k.row.cum \in Nat
    BY <1>3 DEF OrderRow
  <2>3. k.trade.last \in Nat
    BY <1>3 DEF Trade
  <2> QED
    BY <2>1, <2>2, <2>3
<1>6. PICK table \in Seq(Trade) : table = trades /\ DOMAIN table = 1 .. Len(table)
  BY TradesAreTrades DEF Inv
<1>7. PICK oid, now : oid = k.row.oid /\ now = Written(k.a, k.row, k.trade).cum
  OBVIOUS
<1>8. \A o : Total(table, o) \in Int
  BY TotalIsNumber
<1>9. CASE k.a.op = "fill_order" /\ trades' = Append(trades, new)
  <2>1. new.kind = "Fill" /\ new.last = k.a.qty
    BY <1>2, <1>9 DEF Kind, LastQty, Trades
  <2>2. Worth(new, oid) = k.a.qty /\ \A o : o # oid => Worth(new, o) = 0
    BY <1>2, <1>7, <2>1 DEF Worth, Live
  <2>3. now = k.row.cum + k.a.qty
    BY <1>3, <1>7, <1>9, WrittenKeeps
  <2>4. \A o : Total(Append(table, new), o) = Total(table, o) + Worth(new, o)
    BY TotalAppended
  <2> QED
    BY <1>0, <1>4, <1>6, <1>7, <1>8, <1>9, <2>2, <2>3, <2>4
<1>10. CASE /\ k.a.op \in {"correct_trade", "bust_trade"} /\ t \in DOMAIN trades /\ k.trade = trades[t]
            /\ trades' = [trades EXCEPT ![t] = new] /\ trades[t].oid = new.oid
  <2> DEFINE qty == IF k.a.op = "correct_trade" THEN k.a.qty ELSE 0
  <2>0. t \in 1 .. Len(table) /\ trades[t] = table[t]
    BY <1>6, <1>10
  <2>1. Worth(new, oid) = qty /\ \A o : o # oid => Worth(new, o) = 0
    <3>1. CASE k.a.op = "correct_trade"
      BY <1>2, <1>7, <1>10, <3>1 DEF Worth, Live, Kind, LastQty, Trades
    <3>2. CASE k.a.op = "bust_trade"
      BY <1>2, <1>7, <1>10, <3>2 DEF Worth, Live, Kind
    <3> QED
      BY <1>10, <3>1, <3>2
  <2>2. Worth(table[t], oid) = k.trade.last /\ \A o : o # oid => Worth(table[t], o) = 0
    BY <1>2, <1>3, <1>7, <1>10, <2>0 DEF Worth, Refused
  <2>3. \A o : Total([table EXCEPT ![t] = new], o) = Total(table, o) - Worth(table[t], o) + Worth(new, o)
    BY <2>0, TotalChanged
  <2>4. Total(table, oid) >= k.trade.last
    BY <2>0, <2>2, TotalBound
  <2>5. now = AtLeast0(k.row.cum - k.trade.last + qty)
    <3>1. CASE k.a.op = "correct_trade"
      BY <1>3, <1>7, <3>1, WrittenKeeps
    <3>2. CASE k.a.op = "bust_trade"
      <4>1. k.row.cum - k.trade.last + 0 = k.row.cum - k.trade.last
        BY <1>5
      <4>2. Written(k.a, k.row, k.trade).cum = AtLeast0(k.row.cum - k.trade.last)
        BY <1>3, <3>2, WrittenKeeps
      <4> QED
        BY <1>7, <3>2, <4>1, <4>2
    <3> QED
      BY <1>10, <3>1, <3>2
  <2>6. qty \in Nat
    BY <1>5
  <2> HIDE DEF qty
  <2>7. now = k.row.cum - k.trade.last + qty
    BY <1>4, <1>5, <1>6, <1>7, <2>4, <2>5, <2>6 DEF AtLeast0
  <2>8. Total([table EXCEPT ![t] = new], oid) = now
    BY <1>4, <1>6, <1>7, <2>1, <2>2, <2>3, <2>7
  <2>9. ASSUME NEW o, o # oid PROVE Total([table EXCEPT ![t] = new], o) = Total(table, o)
    <3>1. Total([table EXCEPT ![t] = new], o) = Total(table, o) - Worth(table[t], o) + Worth(new, o)
      BY <2>3
    <3>2. Worth(new, o) = 0 /\ Worth(table[t], o) = 0 /\ Total(table, o) \in Int
      BY <1>8, <2>1, <2>2, <2>9
    <3> QED
      BY <3>1, <3>2
  <2> QED
    BY <1>0, <1>6, <1>7, <1>10, <2>8, <2>9
<1> QED
  BY <1>2, <1>9, <1>10

\* Who trades, and with which order.
SameTraders ==
    \A c \in Callers : /\ Trading(c)' <=> Trading(c)
                       /\ Trading(c) => call'[c].row.oid = call[c].row.oid /\ call'[c].row.cum = call[c].row.cum

\* Rows that have executed what some row of the order had.
LEMMA CumSame ==
  ASSUME CumOK, trades' = trades, SameTraders,
         \A i \in Ids : Known(rows', i) =>
            \/ \E j \in Ids : Known(rows, j) /\ rows[j].oid = rows'[i].oid /\ rows[j].cum = rows'[i].cum
            \/ rows'[i].cum = SumOfTrades(rows'[i].oid)
  PROVE  CumOK'
<1>1. ASSUME NEW i \in Ids, Known(rows', i), \A c \in Callers : Trading(c)' => call'[c].row.oid # rows'[i].oid
      PROVE  rows'[i].cum = Total(trades', rows'[i].oid)
  <2>1. CASE rows'[i].cum = SumOfTrades(rows'[i].oid)
    BY <2>1 DEF SumOfTrades
  <2>2. ASSUME NEW j \in Ids, Known(rows, j), rows[j].oid = rows'[i].oid, rows[j].cum = rows'[i].cum
        PROVE  rows'[i].cum = Total(trades', rows'[i].oid)
    <3>1. \A c \in Callers : Trading(c) => call[c].row.oid # rows[j].oid
      BY <1>1, <2>2 DEF SameTraders
    <3>2. rows[j].cum = Total(trades, rows[j].oid)
      BY <2>2, <3>1 DEF CumOK, SumOfTrades
    <3> QED
      BY <2>2, <3>2
  <2> QED
    BY <1>1, <2>1, <2>2
<1>2. ASSUME NEW c \in Callers, Trading(c)' PROVE call'[c].row.cum = Total(trades', call'[c].row.oid)
  <2>1. call[c].row.cum = Total(trades, call[c].row.oid)
    BY <1>2 DEF CumOK, SameTraders, SumOfTrades
  <2> QED
    BY <1>2, <2>1 DEF SameTraders
<1> QED
  BY <1>1, <1>2 DEF CumOK, SumOfTrades

\* A caller that neither trades nor goes to.
LEMMA TradersUnchanged ==
  ASSUME TypeOK, NEW c \in Callers, ~Trading(c), NEW k, k.step # "trading", call' = [call EXCEPT ![c] = k]
  PROVE  SameTraders
<1>1. call'[c] = k /\ \A d \in Callers : d # c => call'[d] = call[d]
  BY DEF TypeOK
<1> QED
  BY <1>1 DEF SameTraders, Trading

\* Every step keeps what is executed the sum of the trades, but for the one
\* that is about to be written.
LEMMA CumStep ==
  ASSUME Inv, CumOK, [Next]_vars
  PROVE  CumOK'
<1>0. TypeOK /\ TypeOK'
  BY TypeStep DEF Inv
<1> DEFINE SameRow(i) == \E j \in Ids : Known(rows, j) /\ rows[j].oid = rows'[i].oid /\ rows[j].cum = rows'[i].cum
<1>1. CASE NewOrder
  <2> DEFINE m == Head(requests)
             new == NewRow(m.id, m.qty, "New")
  <2>1. m.id \in Waiting /\ m.id \in Ids /\ rows' = [rows EXCEPT ![m.id] = new]
    BY <1>1, NewOrderDoes
  <2>2. call' = call /\ trades' = trades
    BY <1>1 DEF NewOrder
  <2>3. new.oid = m.id /\ new.cum = 0
    BY DEF NewRow
  <2>4. SumOfTrades(m.id) = 0
    BY <2>1, NothingTraded DEF Used
  <2> HIDE DEF m, new
  <2>5. rows'[m.id] = new /\ \A i \in Ids : i # m.id => rows'[i] = rows[i]
    BY <1>0, <2>1 DEF TypeOK
  <2>6. \A i \in Ids : Known(rows', i) => SameRow(i) \/ rows'[i].cum = SumOfTrades(rows'[i].oid)
    BY <2>3, <2>4, <2>5 DEF Known
  <2>7. SameTraders
    BY <2>2 DEF SameTraders, Trading
  <2> QED
    BY <2>2, <2>6, <2>7, CumSame
<1>2. CASE Park
  <2>1. PICK i, new :
           /\ i \in Ids /\ Known(rows, i) /\ rows' = [rows EXCEPT ![i] = new] /\ new.oid = rows[i].oid /\ new.cum = rows[i].cum
    BY <1>2, ParkDoes
  <2>2. call' = call /\ trades' = trades
    BY <1>2 DEF Park
  <2>3. rows'[i] = new /\ \A j \in Ids : j # i => rows'[j] = rows[j]
    BY <1>0, <2>1 DEF TypeOK
  <2>4. \A j \in Ids : Known(rows', j) => SameRow(j)
    BY <2>1, <2>3 DEF Known
  <2>5. SameTraders
    BY <2>2 DEF SameTraders, Trading
  <2> QED
    BY <2>2, <2>4, <2>5, CumSame
<1>3. ASSUME NEW c \in Callers, Rename(c) PROVE CumOK'
  <2>1. PICK k : k = call[c]
    OBVIOUS
  <2>2. PICK new : new = ClearSlot(k.row)
    OBVIOUS
  <2>3. /\ Busy(c) /\ k.step = "renaming" /\ Known(rows, k.a.id) /\ rows[k.a.id] = k.row
        /\ k.row.req \in Ids /\ k.a.id \in Ids /\ k.row.req # k.a.id
        /\ rows' = [rows EXCEPT ![k.a.id] = NoRow, ![k.row.req] = new]
        /\ call' = [call EXCEPT ![c] = [k EXCEPT !.step = "writing"]]
    BY <1>3, <2>1, <2>2, RenameDoes
  <2>4. k.row \in OrderRow /\ k \in Held
    BY <2>1, <2>3, HolderIs
  <2>5. new.oid = k.row.oid /\ new.cum = k.row.cum
    BY <2>2, <2>4, ClearSlotKeeps DEF Keeps
  <2>6. /\ rows'[k.row.req] = new /\ rows'[k.a.id] = NoRow
        /\ \A j \in Ids : j # k.row.req /\ j # k.a.id => rows'[j] = rows[j]
    BY <1>0, <2>3 DEF TypeOK
  <2>7. \A j \in Ids : Known(rows', j) => SameRow(j)
    BY <2>3, <2>5, <2>6 DEF Known
  <2>8. [k EXCEPT !.step = "writing"].step = "writing"
    BY <2>4, HeldSteps DEF Steps
  <2>9. SameTraders
    BY <1>0, <2>1, <2>3, <2>8, TradersUnchanged DEF Trading
  <2>10. trades' = trades
    BY <1>3 DEF Rename
  <2> QED
    BY <2>7, <2>9, <2>10, CumSame
<1>4. ASSUME NEW c \in Callers, Write(c) PROVE CumOK'
  <2>1. PICK k, i, new : k = call[c] /\ i = NowId(k.a, k.row) /\ new = Written(k.a, k.row, k.trade)
    OBVIOUS
  <2>2. PICK step \in Steps : step = IF Trades(k.a.op) THEN "trading" ELSE "sending"
    BY DEF Steps
  <2>3. PICK next : next = [k EXCEPT !.step = step]
    OBVIOUS
  <2>4. /\ Busy(c) /\ k.step = "writing" /\ i \in Ids /\ Known(rows, i)
        /\ rows[i].oid = k.row.oid /\ rows[i].cum = k.row.cum /\ new.oid = k.row.oid
        /\ rows' = [rows EXCEPT ![i] = new] /\ call' = [call EXCEPT ![c] = next] /\ trades' = trades
    <3>1. trades' = trades
      BY <1>4 DEF Write
    <3> QED
      BY <1>4, <2>1, <2>2, <2>3, <3>1, WriteDoes
  <2>5. k \in Held /\ k.a \in Op /\ CommandOK(k.a) /\ k.row \in OrderRow /\ k.trade \in Trade
    BY <2>1, <2>4, HolderIs
  <2>6. next.step = step /\ next.row = k.row
    BY <2>3, <2>5, HeldSteps
  <2>7. \A d \in Callers : ~Trading(d)
    BY <2>1, <2>4, TradingAlone DEF Trading
  <2>8. rows'[i] = new /\ \A j \in Ids : j # i => rows'[j] = rows[j]
    BY <1>0, <2>4 DEF TypeOK
  <2>9. CASE ~Trades(k.a.op)
    <3>1. new.cum = k.row.cum
      BY <2>1, <2>5, <2>9, WrittenKeeps
    <3>2. \A j \in Ids : Known(rows', j) => SameRow(j)
      BY <2>4, <2>8, <3>1 DEF Known
    <3>3. next.step # "trading"
      BY <2>2, <2>6, <2>9
    <3>4. SameTraders
      BY <1>0, <2>4, <2>7, <3>3, TradersUnchanged
    <3> QED
      BY <2>4, <3>2, <3>4, CumSame
  <2>10. CASE Trades(k.a.op)
    <3>1. \A j \in Ids : Known(rows, j) => rows[j].cum = Total(trades, rows[j].oid)
      BY <2>7 DEF CumOK, SumOfTrades
    <3>2. next.step = "trading" /\ call'[c] = next /\ \A d \in Callers : d # c => call'[d] = call[d]
      BY <1>0, <2>2, <2>4, <2>6, <2>10 DEF TypeOK
    <3>3. \A d \in Callers : Trading(d)' <=> d = c
      BY <2>7, <3>2 DEF Trading
    <3>4. call'[c].row.cum = Total(trades', call'[c].row.oid)
      BY <2>4, <2>6, <3>1, <3>2
    <3>5. ASSUME NEW j \in Ids, Known(rows', j), call'[c].row.oid # rows'[j].oid
          PROVE  rows'[j].cum = Total(trades', rows'[j].oid)
      <4>1. j # i
        BY <2>4, <2>6, <2>8, <3>2, <3>5
      <4> QED
        BY <2>4, <2>8, <3>1, <3>5, <4>1 DEF Known
    <3> QED
      BY <3>3, <3>4, <3>5 DEF CumOK, SumOfTrades
  <2> QED
    BY <2>9, <2>10
<1>5. ASSUME NEW c \in Callers, WriteTrade(c) PROVE CumOK'
  <2>1. PICK k, i, new : k = call[c] /\ i = NowId(k.a, k.row) /\ new = Written(k.a, k.row, k.trade)
    OBVIOUS
  <2>2. PICK next : next = [k EXCEPT !.step = "sending"]
    OBVIOUS
  <2>3. Busy(c) /\ k.step = "trading" /\ call' = [call EXCEPT ![c] = next] /\ rows' = rows
    BY <1>5, <2>1, <2>2, WriteTradeDoes, WhoWrites
  <2>4. k \in Held /\ HolderOK(k) /\ k.a \in Op /\ CommandOK(k.a) /\ k.row \in OrderRow /\ k.trade \in Trade
    BY <2>1, <2>3, HolderIs
  <2>5. next.step = "sending"
    BY <2>2, <2>4, HeldSteps DEF Steps
  <2>6. \A d \in Callers : Trading(d) => d = c
    BY <2>3, TradingAlone
  <2>7. \A d \in Callers : ~Trading(d)'
    BY <1>0, <2>3, <2>5, <2>6 DEF TypeOK, Trading
  <2>8. Known(rows, i) /\ rows[i] = new /\ new.oid = k.row.oid
    <3>1. Known(rows, i) /\ rows[i] = new
      BY <2>1, <2>3, <2>4 DEF HolderOK, Found
    <3>2. new.oid = k.row.oid
      BY <2>1, <2>4, WrittenKeeps DEF Keeps
    <3> QED
      BY <3>1, <3>2
  <2>9. Total(trades', k.row.oid) = new.cum /\ \A oid : oid # k.row.oid => Total(trades', oid) = Total(trades, oid)
    BY <1>5, <2>1, TradeAdds
  <2>10. ASSUME NEW j \in Ids, Known(rows, j) PROVE rows[j].cum = Total(trades', rows[j].oid)
    <3>1. CASE j = i
      BY <2>8, <2>9, <3>1
    <3>2. CASE j # i
      <4>1. rows[j].oid # k.row.oid
        BY <2>8, <2>10, <3>2 DEF Inv, RowsOK, IdsApart, Known
      <4>2. rows[j].cum = Total(trades, rows[j].oid)
        BY <2>1, <2>6, <2>10, <4>1 DEF CumOK, SumOfTrades
      <4> QED
        BY <2>9, <4>1, <4>2
    <3> QED
      BY <3>1, <3>2
  <2> QED
    BY <2>3, <2>7, <2>10 DEF CumOK, SumOfTrades
<1>6. ASSUME rows' = rows, trades' = trades, SameTraders PROVE CumOK'
  BY <1>6, CumSame
<1>7. ASSUME NEW c \in Callers, Command(c) \/ (c \in Choosers /\ Decide(c)) PROVE CumOK'
  <2>1. PICK a : call[c].step = "idle" /\ call' = [call EXCEPT ![c] = [step |-> "locking", a |-> a]]
    BY <1>7, CommandDoes, DecideDoes
  <2>2. rows' = rows /\ trades' = trades
    BY <1>7 DEF Command, Decide
  <2>3. PICK k : k = [step |-> "locking", a |-> a]
    OBVIOUS
  <2>4. k.step # "trading" /\ call' = [call EXCEPT ![c] = k] /\ ~Trading(c)
    BY <2>1, <2>3 DEF Trading
  <2>5. SameTraders
    BY <1>0, <2>4, TradersUnchanged
  <2> QED
    BY <1>6, <2>2, <2>5
<1>8. ASSUME NEW c \in Callers, Load(c) PROVE CumOK'
  <2>1. PICK k : call' = [call EXCEPT ![c] = k] /\ k.step # "trading"
    BY <1>8, LoadGoes DEF Idle
  <2>2. rows' = rows /\ trades' = trades /\ ~Trading(c)
    BY <1>8 DEF Load, At, Trading
  <2>3. SameTraders
    BY <1>0, <2>1, <2>2, TradersUnchanged
  <2> QED
    BY <1>6, <2>2, <2>3
<1>9. ASSUME NEW c \in Callers, Send(c) PROVE CumOK'
  <2>1. rows' = rows /\ trades' = trades /\ ~Trading(c) /\ call' = [call EXCEPT ![c] = Idle]
    BY <1>9 DEF Send, At, Goes, Trading
  <2>2. SameTraders
    BY <1>0, <2>1, TradersUnchanged DEF Idle
  <2> QED
    BY <1>6, <2>1, <2>2
<1>10. CASE UNCHANGED << rows, trades, call >>
  <2>1. SameTraders
    BY <1>10 DEF SameTraders, Trading
  <2> QED
    BY <1>6, <1>10, <2>1
<1> QED
  BY <1>1, <1>2, <1>3, <1>4, <1>5, <1>7, <1>8, <1>9, <1>10, Constants
     DEF Next, MarketStep, vars, LoadRequested, Counterparty

\* Whenever no action is under way an order has executed the sum of its trades
\* that are not busted (_write_order and _write_sent_execution under the lock).
THEOREM CumIsSum == Spec => []CumIsSumOfTrades
<1>1. Init => CumOK
  BY DEF Init, CumOK, Known, Trading, Idle
<1>2. Inv /\ CumOK /\ [Next]_vars => CumOK'
  BY CumStep
<1>3. Inv /\ CumOK => CumIsSumOfTrades
  <2> SUFFICES ASSUME Inv, CumOK, lock = Nobody PROVE \A c \in Callers : ~Trading(c)
    BY DEF CumIsSumOfTrades, CumOK
  <2> QED
    BY Constants DEF Inv, LockOK, Busy, Steps, Trading
<1> QED
  BY <1>1, <1>2, <1>3, InvHolds, PTL DEF Spec

-----------------------------------------------------------------------------
(* What becomes of a request.                                               *)

\* Every step leaves a parked request parked, or answers or replaces it.
LEMMA RequestsStay ==
  ASSUME Inv, [Next]_vars
  PROVE  RequestStays
<1>0. TypeOK /\ TypeOK'
  BY TypeStep DEF Inv
<1> SUFFICES ASSUME NEW i \in Ids, Known(rows, i), rows[i].slot \in {"Cancel", "Replace"}
             PROVE  \/ \E j \in Ids : /\ Known(rows', j) /\ rows'[j].slot = rows[i].slot
                                      /\ rows'[j].req = rows[i].req
                    \/ reading.step = "parking"
                    \/ \E c \in Callers : /\ call[c].step \in {"renaming", "writing"}
                                          /\ call[c].a.op \in Answering
                                          /\ call[c].row.req = rows[i].req
                    \/ \E c \in Callers : /\ call[c].step = "writing"
                                          /\ call[c].a.op \in {"accept_order", "reject_order"}
  BY Zenon DEF RequestStays, Answering
<1>1. CASE rows'[i] = rows[i]
  BY <1>1 DEF Known
<1>2. CASE NewOrder
  <2>1. rows'[i] = rows[i]
    BY <1>0, <1>2, NewOrderDoes DEF TypeOK
  <2> QED
    BY <1>1, <2>1
<1>3. CASE Park
  BY <1>3 DEF Park
<1>4. ASSUME NEW c \in Callers, Rename(c), rows'[i] # rows[i]
      PROVE  call[c].step = "renaming" /\ call[c].a.op \in Answering /\ call[c].row.req = rows[i].req
  <2>1. PICK k : k = call[c]
    OBVIOUS
  <2>2. /\ k.step = "renaming" /\ Renames(k.a.op) /\ rows[k.a.id] = k.row /\ ~Known(rows, k.row.req)
        /\ rows' = [rows EXCEPT ![k.a.id] = NoRow, ![k.row.req] = ClearSlot(k.row)]
    BY <1>4, <2>1, RenameDoes
  <2>3. i = k.a.id \/ i = k.row.req
    BY <1>0, <1>4, <2>2 DEF TypeOK
  <2> QED
    BY <2>1, <2>2, <2>3 DEF Renames, Answering
<1>5. ASSUME NEW c \in Callers, Write(c), rows'[i] # rows[i]
      PROVE  /\ call[c].step = "writing"
             /\ \/ call[c].a.op \in Answering /\ call[c].row.req = rows[i].req
                \/ call[c].a.op \in {"accept_order", "reject_order"}
                \/ Known(rows', i) /\ rows'[i].slot = rows[i].slot /\ rows'[i].req = rows[i].req
  <2>1. PICK k, n, new : k = call[c] /\ n = NowId(k.a, k.row) /\ new = Written(k.a, k.row, k.trade)
    OBVIOUS
  <2>2. /\ Busy(c) /\ k.step = "writing" /\ rows[n] = (IF Renames(k.a.op) THEN ClearSlot(k.row) ELSE k.row)
        /\ new \in OrderRow /\ rows' = [rows EXCEPT ![n] = new]
    BY <1>5, <2>1, WriteDoes
  <2>3. k.a \in Op /\ CommandOK(k.a) /\ k.row \in OrderRow /\ k.trade \in Trade
    BY <2>1, <2>2, HolderIs
  <2>4. i = n /\ rows'[i] = new
    BY <1>0, <1>5, <2>2 DEF TypeOK
  <2>5. ~Renames(k.a.op) /\ rows[i] = k.row
    BY <2>2, <2>3, <2>4, ClearSlotKeeps
  <2>6. CASE k.a.op \in Answering \cup {"accept_order", "reject_order"}
    BY <2>1, <2>2, <2>5, <2>6
  <2>7. CASE k.a.op \notin Answering \cup {"accept_order", "reject_order"}
    <3>0. k.row.slot # "New"
      BY <2>5
    <3>1. new.req = k.row.req /\ new.slot = k.row.slot
      <4>1. /\ Written(k.a, k.row, k.trade).req = k.row.req
            /\ k.row.slot # "New" => Written(k.a, k.row, k.trade).slot = k.row.slot
        BY <2>3, <2>7, WrittenKeeps
      <4> QED
        BY <2>1, <3>0, <4>1
    <3>2. Known(rows', i)
      BY <2>2, <2>4, NoRowIsNone DEF Known
    <3> QED
      BY <2>1, <2>2, <2>4, <2>5, <3>1, <3>2
  <2> QED
    BY <2>6, <2>7
<1>6. ASSUME NEW c \in Callers, Rename(c) \/ Write(c), rows'[i] # rows[i]
      PROVE  \/ \E j \in Ids : /\ Known(rows', j) /\ rows'[j].slot = rows[i].slot
                               /\ rows'[j].req = rows[i].req
             \/ \E d \in Callers : /\ call[d].step \in {"renaming", "writing"}
                                   /\ call[d].a.op \in Answering
                                   /\ call[d].row.req = rows[i].req
             \/ \E d \in Callers : /\ call[d].step = "writing"
                                   /\ call[d].a.op \in {"accept_order", "reject_order"}
  <2>1. CASE Rename(c)
    BY <1>4, <1>6, <2>1
  <2>2. CASE Write(c)
    BY <1>5, <1>6, <2>2
  <2> QED
    BY <1>6, <2>1, <2>2
<1> QED
  BY <1>1, <1>2, <1>3, <1>6, WhoWrites

\* No step of the market side loses a request parked on an order, but one that
\* answers it or parks a later one, or an Accept or Reject chosen before it came.
THEOREM RequestsAreKept == Spec => RequestKept
<1>1. Inv /\ [Next]_vars => [RequestStays]_rows
  BY RequestsStay
<1> QED
  BY <1>1, InvHolds, PTL DEF Spec, RequestKept

-----------------------------------------------------------------------------
(* An order, or a request, is answered once.                                *)

\* What answers an order or a request, and those that are answered.
IsAnswer(m) == m.id # 0 /\ (m.type = "9" \/ m.orig # 0 \/ m.kind \in {"New", "Rejected"})
Answered == {reports[n].id : n \in {p \in DOMAIN reports : IsAnswer(reports[p])}}

AnswersOK ==
    /\ Answered \subseteq Used
    /\ \A m, n \in DOMAIN reports :
          m # n /\ IsAnswer(reports[m]) /\ IsAnswer(reports[n]) => reports[m].id # reports[n].id

\* A request in a slot is not answered yet, nor is an order not accepted yet.
UnansweredOK ==
    \A i \in Ids : Known(rows, i) => /\ rows[i].req \notin Answered
                                     /\ rows[i].slot = "New" => i \notin Answered

\* Nor the order that Accept and Reject chose to answer, before the lock.
Chosen(c) == call[c].step # "idle" /\ call[c].a.op \in {"accept_order", "reject_order"}
ChosenOK ==
    \A c \in Callers : Chosen(c) =>
        /\ c \in Choosers /\ call[c].a.id \in Used \ Answered
        /\ \A i \in Ids : Known(rows, i) => rows[i].req # call[c].a.id

\* Nor the request who holds the lock answers, which no other order has.
Responds(c) == Busy(c) /\ call[c].a.op \in Answering
RespondsOK ==
    \A c \in Callers : Responds(c) =>
        LET req == call[c].row.req
        IN  /\ req \in Used \cup {0} /\ req \notin Answered
            /\ \A i \in Ids : Known(rows, i) => /\ rows[i].oid # call[c].row.oid => rows[i].req # req \/ req = 0
                                                /\ rows[i].slot = "New" => i # req
            /\ \A d \in Callers : Chosen(d) => call[d].a.id # req

AnswerInv == AnswersOK /\ UnansweredOK /\ ChosenOK /\ RespondsOK

\* One more report.
LEMMA OneReport ==
  ASSUME TypeOK, NEW m, reports' = Append(reports, m)
  PROVE  /\ Answered' = Answered \cup (IF IsAnswer(m) THEN {m.id} ELSE {})
         /\ AnswersOK /\ Used \subseteq Used' /\ (IsAnswer(m) => m.id \in Used' \ Answered) => AnswersOK'
<1>1. PICK N \in Nat : N = Len(reports) /\ DOMAIN reports = 1 .. N
  BY DEF TypeOK
<1>2. /\ DOMAIN reports' = 1 .. N + 1 /\ reports'[N + 1] = m
      /\ \A n \in 1 .. N : reports'[n] = reports[n]
  BY <1>1 DEF TypeOK
<1>3. \A n \in 1 .. N + 1 : n = N + 1 \/ n \in 1 .. N
  BY <1>1
<1>4. ASSUME NEW x PROVE x \in Answered' <=> x \in Answered \/ (IsAnswer(m) /\ x = m.id)
  <2>1. x \in Answered <=> \E n \in 1 .. N : IsAnswer(reports[n]) /\ x = reports[n].id
    BY <1>1 DEF Answered
  <2>2. x \in Answered' <=> \E n \in 1 .. N + 1 : IsAnswer(reports'[n]) /\ x = reports'[n].id
    BY <1>2 DEF Answered, IsAnswer
  <2>3. N + 1 \in 1 .. N + 1 /\ \A n \in 1 .. N : n \in 1 .. N + 1
    BY <1>1
  <2> QED
    BY <1>2, <1>3, <2>1, <2>2, <2>3
<1>5. Answered' = Answered \cup (IF IsAnswer(m) THEN {m.id} ELSE {})
  BY <1>4
<1>6. ASSUME AnswersOK, IsAnswer(m) => m.id \notin Answered,
             NEW p \in 1 .. N + 1, NEW n \in 1 .. N + 1, p # n, IsAnswer(reports'[p]), IsAnswer(reports'[n])
      PROVE  reports'[p].id # reports'[n].id
  <2>1. \A k \in 1 .. N : IsAnswer(reports[k]) => reports[k].id \in Answered
    BY <1>1 DEF Answered
  <2>2. CASE p = N + 1
    BY <1>2, <1>3, <1>6, <2>1, <2>2
  <2>3. CASE n = N + 1
    BY <1>2, <1>3, <1>6, <2>1, <2>3
  <2>4. CASE p # N + 1 /\ n # N + 1
    BY <1>1, <1>2, <1>3, <1>6, <2>4 DEF AnswersOK
  <2> QED
    BY <2>2, <2>3, <2>4
<1>7. ASSUME AnswersOK, Used \subseteq Used', IsAnswer(m) => m.id \in Used' \ Answered PROVE AnswersOK'
  <2>1. Answered' \subseteq Used'
    BY <1>5, <1>7 DEF AnswersOK
  <2>2. \A p, n \in DOMAIN reports' :
          p # n /\ IsAnswer(reports'[p]) /\ IsAnswer(reports'[n]) => reports'[p].id # reports'[n].id
    BY <1>2, <1>6, <1>7
  <2> QED
    BY <2>1, <2>2 DEF AnswersOK, IsAnswer
<1> QED
  BY <1>5, <1>7

\* Only these two send the report that answers a new order.
LEMMA KindOfAnswer ==
  ASSUME NEW op \in Ops \ {"reject_cancel", "renotify_trade"}, NEW trade, Kind(op, trade) \in {"New", "Rejected"}
  PROVE  op \in {"accept_order", "reject_order"}
<1>1. CASE op \in {"fill_order", "restate_order", "accept_replace", "correct_trade", "bust_trade"}
  BY <1>1 DEF Kind
<1>2. CASE op \in {"unsolicited_cancel", "accept_cancel"}
  BY <1>2 DEF Kind
<1> QED
  BY <1>1, <1>2 DEF Ops, OnTrade

\* What the report sent answers.
LEMMA SendAnswers ==
  ASSUME Inv, NEW c \in Callers, Send(c)
  PROVE  \E m : /\ reports' = Append(reports, m)
                /\ IsAnswer(m) => \/ Responds(c) /\ m.id = call[c].row.req /\ m.id # 0
                                  \/ Chosen(c) /\ m.id = call[c].a.id
<1>1. PICK k, m : k = call[c] /\ m = Answer(k.a, k.row, k.trade, k.exec)
  OBVIOUS
<1>2. k.step = "sending" /\ reports' = Append(reports, m) /\ Busy(c)
  BY <1>1 DEF Send, At, Busy, Steps
<1>3. k.a \in Op /\ HolderOK(k)
  BY <1>1, <1>2, HolderIs
<1>4. ASSUME IsAnswer(m) PROVE \/ k.a.op \in Answering /\ m.id = k.row.req /\ m.id # 0
                               \/ k.a.op \in {"accept_order", "reject_order"} /\ m.id = k.a.id
  <2>1. CASE k.a.op = "reject_cancel"
    BY <1>1, <1>4, <2>1 DEF Answer, OrderCancelReject, IsAnswer, Answering
  <2>2. CASE k.a.op # "reject_cancel"
    <3>1. m.id = NowId(k.a, k.row) /\ m.orig = (IF Renames(k.a.op) THEN k.a.id ELSE 0)
          /\ m.kind = Kind(k.a.op, k.trade) /\ m.type = "8"
      BY <1>1, <2>2 DEF Answer, ExecutionReport
    <3>2. CASE Renames(k.a.op)
      BY <1>4, <3>1, <3>2 DEF NowId, Renames, Answering, IsAnswer
    <3>3. CASE ~Renames(k.a.op)
      <4>1. Kind(k.a.op, k.trade) \in {"New", "Rejected"}
        BY <1>4, <3>1, <3>3 DEF IsAnswer
      <4>2. k.a.op \in Ops \ {"reject_cancel", "renotify_trade"}
        BY <1>3, <2>2 DEF HolderOK, Op
      <4>3. k.a.op \in {"accept_order", "reject_order"}
        BY <4>1, <4>2, KindOfAnswer
      <4> QED
        BY <3>1, <3>3, <4>3 DEF NowId
    <3> QED
      BY <3>2, <3>3
  <2> QED
    BY <2>1, <2>2
<1> QED
  BY <1>1, <1>2, <1>4 DEF Responds, Chosen

\* Where the requests and the orders not accepted yet come from.
LEMMA RowsCome ==
  ASSUME Inv, [Next]_vars, NEW i \in Ids, Known(rows', i)
  PROVE  /\ \/ rows'[i].req = 0 \/ rows'[i].req \notin Used
            \/ \E j \in Ids : Known(rows, j) /\ rows[j].oid = rows'[i].oid /\ rows[j].req = rows'[i].req
         /\ rows'[i].slot = "New" => i \notin Used \/ (Known(rows, i) /\ rows[i].slot = "New")
<1>0. TypeOK /\ TypeOK'
  BY TypeStep DEF Inv
<1>1. CASE rows'[i] = rows[i]
  BY <1>1 DEF Known
<1>2. CASE NewOrder
  <2>1. PICK n, qty : n \in Waiting /\ n \in Ids /\ rows' = [rows EXCEPT ![n] = NewRow(n, qty, "New")]
    BY <1>2, NewOrderDoes
  <2>2. NewRow(n, qty, "New").req = 0
    BY DEF NewRow
  <2>3. n \notin Used
    BY <2>1 DEF Used
  <2>4. i = n => rows'[i].req = 0
    BY <1>0, <2>1, <2>2 DEF TypeOK
  <2>5. i # n => rows'[i] = rows[i]
    BY <1>0, <2>1 DEF TypeOK
  <2> QED
    BY <1>1, <2>3, <2>4, <2>5
<1>3. CASE Park
  <2>1. PICK n, new, req :
          /\ n \in Ids /\ req \in Waiting /\ new.req = req /\ new.slot \in {"Cancel", "Replace"}
          /\ rows' = [rows EXCEPT ![n] = new]
    BY <1>3, ParkDoes
  <2>2. req \notin Used
    BY <2>1 DEF Used
  <2>3. i = n => rows'[i] = new
    BY <1>0, <2>1 DEF TypeOK
  <2>4. i # n => rows'[i] = rows[i]
    BY <1>0, <2>1 DEF TypeOK
  <2> QED
    BY <1>1, <2>1, <2>2, <2>3, <2>4
<1>4. ASSUME NEW c \in Callers, Rename(c), rows'[i] # rows[i]
      PROVE  rows'[i].req = 0 /\ rows'[i].slot = ""
  <2>1. PICK k, new : k = call[c] /\ new = ClearSlot(k.row)
    OBVIOUS
  <2>2. Busy(c) /\ k.row.req \in Ids /\ rows' = [rows EXCEPT ![k.a.id] = NoRow, ![k.row.req] = new]
    BY <1>4, <2>1, RenameDoes
  <2>3. new.req = 0 /\ new.slot = ""
    BY <2>1, <2>2, HolderIs, ClearSlotKeeps
  <2>4. (i = k.row.req /\ rows'[i] = new) \/ rows'[i] = NoRow
    BY <1>0, <1>4, <2>2 DEF TypeOK
  <2> QED
    BY <2>3, <2>4 DEF Known
<1>5. ASSUME NEW c \in Callers, Write(c), rows'[i] # rows[i]
      PROVE  /\ Known(rows, i) /\ rows[i].oid = rows'[i].oid
             /\ rows'[i].req = 0 \/ rows'[i].req = rows[i].req
             /\ rows'[i].slot \in {"", rows[i].slot}
  <2>1. PICK k, n, new : k = call[c] /\ n = NowId(k.a, k.row) /\ new = Written(k.a, k.row, k.trade)
    OBVIOUS
  <2>2. /\ Busy(c) /\ Known(rows, n) /\ rows[n] = (IF Renames(k.a.op) THEN ClearSlot(k.row) ELSE k.row)
        /\ rows[n].oid = k.row.oid /\ Keeps(new, k.row) /\ rows' = [rows EXCEPT ![n] = new]
    BY <1>5, <2>1, WriteDoes
  <2>3. k.a \in Op /\ CommandOK(k.a) /\ k.row \in OrderRow /\ k.trade \in Trade
    BY <2>1, <2>2, HolderIs
  <2>4. i = n /\ rows'[i] = new
    BY <1>0, <1>5, <2>2 DEF TypeOK
  <2>5. CASE Renames(k.a.op)
    <3>1. k.a.op \in Answering
      BY <2>5 DEF Renames, Answering
    <3>2. new.slot = "" /\ new.req = 0
      BY <2>1, <2>3, <3>1, WrittenKeeps
    <3> QED
      BY <2>2, <2>4, <3>2 DEF Keeps
  <2>6. CASE ~Renames(k.a.op)
    BY <2>2, <2>4, <2>6 DEF Keeps
  <2> QED
    BY <2>5, <2>6
<1>6. ASSUME NEW c \in Callers, Rename(c) \/ Write(c), rows'[i] # rows[i]
      PROVE  /\ \/ rows'[i].req = 0
                \/ \E j \in Ids : Known(rows, j) /\ rows[j].oid = rows'[i].oid /\ rows[j].req = rows'[i].req
             /\ rows'[i].slot = "New" => Known(rows, i) /\ rows[i].slot = "New"
  BY <1>4, <1>5, <1>6
<1> QED
  BY <1>1, <1>2, <1>3, <1>6, WhoWrites

\* Nobody accepts or rejects an order otherwise than by Accept and Reject, and
\* one caller does.
OnlyChosen ==
    /\ {"accept_order", "reject_order"} \cap Actions = {}
    /\ \A c, d \in Choosers : c = d

\* Who answers an order answered it before, or is choosing to.
LEMMA ChosenStays ==
  ASSUME Inv, [Next]_vars, OnlyChosen, NEW d \in Callers, Chosen(d)'
  PROVE  \/ Chosen(d) /\ call'[d].a = call[d].a
         \/ /\ d \in Choosers /\ Decide(d) /\ Known(rows, call'[d].a.id) /\ rows[call'[d].a.id].slot = "New"
            /\ rows' = rows /\ reports' = reports
<1>1. CASE call'[d] = call[d]
  BY <1>1 DEF Chosen
<1>2. CASE call'[d] = Idle
  BY <1>2 DEF Chosen, Idle
<1>3. ASSUME NEW a \in Op, Given(d, a), call'[d] = [step |-> "locking", a |-> a]
      PROVE  /\ d \in Choosers /\ Decide(d) /\ Known(rows, call'[d].a.id) /\ rows[call'[d].a.id].slot = "New"
             /\ rows' = rows /\ reports' = reports
  <2>1. call'[d].a = a /\ a.op \in {"accept_order", "reject_order"}
    BY <1>3 DEF Chosen
  <2>2. a.op \notin Actions
    BY <2>1 DEF OnlyChosen
  <2> QED
    BY <1>3, <2>1, <2>2 DEF Given, Decide
<1>4. CASE Loads(d)
  <2>1. call[d].step = "locking" /\ call'[d].a = Named(call[d].a) /\ Named(call[d].a).op = call[d].a.op
        /\ (Named(call[d].a).op \notin OnTrade => Named(call[d].a) = call[d].a)
    BY <1>4, LoadDoes DEF Loads
  <2>2. call'[d].a.op \in {"accept_order", "reject_order"}
    BY DEF Chosen
  <2> QED
    BY <2>1, <2>2 DEF Chosen, OnTrade
<1>5. ASSUME Busy(d), NEW step \in Steps, call'[d] = [call[d] EXCEPT !.step = step]
      PROVE  Chosen(d) /\ call'[d].a = call[d].a
  <2>1. call[d] \in Held
    BY <1>5, HolderIs
  <2>2. call'[d].a = call[d].a
    BY <1>5, <2>1, HeldSteps
  <2> QED
    BY <1>5, <2>2 DEF Chosen, Busy, Steps
<1> QED
  BY <1>1, <1>2, <1>3, <1>4, <1>5, CallStep

\* Who answers a request did, or has just loaded the row that has it.
LEMMA RespondsStays ==
  ASSUME Inv, [Next]_vars, NEW d \in Callers, Responds(d)'
  PROVE  \/ Responds(d) /\ call'[d].row = call[d].row
         \/ /\ Load(d) /\ rows' = rows /\ reports' = reports
            /\ \E i \in Ids : Known(rows, i) /\ call'[d].row = rows[i]
<1>1. CASE call'[d] = call[d]
  BY <1>1 DEF Responds, Busy
<1>2. CASE call'[d] = Idle
  BY <1>2 DEF Responds, Busy, Steps, Idle
<1>3. ASSUME NEW a, call'[d] = [step |-> "locking", a |-> a] PROVE FALSE
  BY <1>3 DEF Responds, Busy, Steps
<1>4. CASE Loads(d)
  BY <1>4 DEF Loads, Load, Known
<1>5. ASSUME Busy(d), NEW step \in Steps, call'[d] = [call[d] EXCEPT !.step = step]
      PROVE  Responds(d) /\ call'[d].row = call[d].row
  <2>1. call[d] \in Held
    BY <1>5, HolderIs
  <2>2. call'[d].a = call[d].a /\ call'[d].row = call[d].row
    BY <1>5, <2>1, HeldSteps
  <2> QED
    BY <1>5, <2>2 DEF Responds
<1> QED
  BY <1>1, <1>2, <1>3, <1>4, <1>5, CallStep

\* Whose order or request a step answers.
LEMMA WhoAnswers ==
  ASSUME Inv, [Next]_vars
  PROVE  \/ reports' = reports
         \/ /\ rows' = rows /\ lock = Nobody
            /\ \E m : reports' = Append(reports, m) /\ m.id \in Waiting /\ m.id \in Used' /\ m.id # 0
         \/ /\ rows' = rows
            /\ \E c \in Callers : \E m :
                 /\ Send(c) /\ Busy(c) /\ reports' = Append(reports, m)
                 /\ IsAnswer(m) => \/ Responds(c) /\ m.id = call[c].row.req /\ m.id # 0
                                   \/ Chosen(c) /\ m.id = call[c].a.id
<1>1. CASE LoadRequested
  <2>1. PICK m : m = Head(requests)
    OBVIOUS
  <2>2. requests # << >> /\ lock = Nobody /\ rows' = rows /\ minted' = minted
    BY <1>1 DEF LoadRequested, Read
  <2>3. CASE reports' # reports
    <3>1. requests' = Tail(requests) /\ reports' = Append(reports, OrderCancelReject(m.id, m.orig, "Rejected", TRUE))
      BY <1>1, <2>1, <2>3 DEF LoadRequested
    <3>2. m.id \in Waiting /\ m.id \in Used' /\ m.id # 0
      BY <2>1, <2>2, <3>1, FirstRequest, ReadOne, Constants DEF Inv
    <3>3. OrderCancelReject(m.id, m.orig, "Rejected", TRUE).id = m.id
      BY DEF OrderCancelReject
    <3> QED
      BY <2>2, <3>1, <3>2, <3>3
  <2> QED
    BY <2>3
<1>2. ASSUME NEW c \in Callers, Send(c)
      PROVE  /\ rows' = rows
             /\ \E m : /\ Send(c) /\ Busy(c) /\ reports' = Append(reports, m)
                       /\ IsAnswer(m) => \/ Responds(c) /\ m.id = call[c].row.req /\ m.id # 0
                                         \/ Chosen(c) /\ m.id = call[c].a.id
  BY <1>2, SendAnswers DEF Send, At, Busy, Steps
<1>3. LoadRequested \/ (\E c \in Callers : Send(c)) \/ reports' = reports
  BY DEF Next, MarketStep, vars, NewOrder, Park, Decide, Command, Load, Rename, Write, WriteTrade, Counterparty
<1> QED
  BY <1>1, <1>2, <1>3

\* Rows of one order are one row.
LEMMA OneRow ==
  ASSUME Inv, NEW i \in Ids, NEW j \in Ids, Known(rows, i), Known(rows, j), rows[i].oid = rows[j].oid
  PROVE  i = j
BY DEF Inv, RowsOK, IdsApart

\* An order answered has the row written.
LEMMA SentRow ==
  ASSUME Inv, NEW c \in Callers, Send(c)
  PROVE  LET k == call[c]
         IN  /\ Known(rows, NowId(k.a, k.row)) /\ rows[NowId(k.a, k.row)].oid = k.row.oid
             /\ k.a.op \in Answering => rows[NowId(k.a, k.row)].req = 0 /\ rows[NowId(k.a, k.row)].slot = ""
             /\ k.a.op \in {"accept_order", "reject_order"} => NowId(k.a, k.row) = k.a.id /\ rows[k.a.id].slot = ""
<1>1. PICK k, i, new : k = call[c] /\ i = NowId(k.a, k.row) /\ new = Written(k.a, k.row, k.trade)
  OBVIOUS
<1>2. k.step = "sending" /\ Busy(c)
  BY <1>1 DEF Send, At, Busy, Steps
<1>3. HolderOK(k) /\ k.a \in Op /\ CommandOK(k.a) /\ k.row \in OrderRow /\ k.trade \in Trade
  BY <1>1, <1>2, HolderIs
<1>4. Known(rows, i) /\ rows[i] = new
  BY <1>1, <1>2, <1>3 DEF HolderOK, Found
<1>5. /\ Keeps(new, k.row) /\ (k.a.op \in Answering => new.slot = "" /\ new.req = 0)
      /\ k.a.op \in {"accept_order", "reject_order"} => new.slot = ""
  BY <1>1, <1>3, WrittenKeeps
<1>6. k.a.op \in {"accept_order", "reject_order"} => i = k.a.id
  BY <1>1 DEF NowId, Renames
<1> QED
  BY <1>1, <1>4, <1>5, <1>6 DEF Keeps

\* Every step keeps an answer the only one.
LEMMA AnswerStep ==
  ASSUME Inv, AnswerInv, [Next]_vars, OnlyChosen
  PROVE  AnswerInv'
<1>0. /\ TypeOK /\ Inv' /\ Used \subseteq Used' /\ 0 \notin Used /\ Answered \subseteq Used
      /\ UnansweredOK /\ ChosenOK /\ RespondsOK /\ AnswersOK
  BY InvStep, QueueStep, NoneUsed DEF Inv, AnswerInv, AnswersOK
\* What is known of the rows now.
<1>1. ASSUME NEW i \in Ids, Known(rows, i)
      PROVE  /\ i \in Used /\ rows[i].req \in Used \cup {0} /\ ~Known(rows, rows[i].req)
             /\ rows[i].req \notin Answered /\ (rows[i].slot = "New" => i \notin Answered)
  BY <1>0, <1>1 DEF Inv, RowsOK, RowOK, UnansweredOK
\* What is answered now.
<1>2. \/ Answered' = Answered /\ AnswersOK' /\ (reports' = reports \/ (rows' = rows /\ lock = Nobody))
      \/ /\ rows' = rows /\ AnswersOK'
         /\ \/ lock = Nobody /\ \E x : x \notin Used /\ x # 0 /\ Answered' = Answered \cup {x}
            \/ \E c \in Callers :
                 /\ Send(c) /\ Busy(c)
                 /\ \/ Answered' = Answered
                    \/ Responds(c) /\ call[c].row.req # 0 /\ Answered' = Answered \cup {call[c].row.req}
                    \/ Chosen(c) /\ Answered' = Answered \cup {call[c].a.id}
  <2>1. CASE reports' = reports
    <3>1. Answered' = Answered
      BY <2>1 DEF Answered, IsAnswer
    <3>2. AnswersOK'
      BY <1>0, <2>1, <3>1 DEF AnswersOK, IsAnswer
    <3> QED
      BY <2>1, <3>1, <3>2
  <2>2. ASSUME NEW m, rows' = rows, lock = Nobody, reports' = Append(reports, m), m.id \in Waiting, m.id \in Used', m.id # 0
        PROVE  AnswersOK' /\ \E x : x \notin Used /\ x # 0 /\ (Answered' = Answered \cup {x} \/ Answered' = Answered)
    <3>1. m.id \notin Used
      BY <2>2 DEF Used
    <3>2. Answered' = Answered \cup {m.id} \/ Answered' = Answered
      BY <1>0, <2>2, OneReport
    <3>3. AnswersOK'
      BY <1>0, <2>2, <3>1, OneReport
    <3> QED
      BY <2>2, <3>1, <3>2, <3>3
  <2>3. ASSUME NEW c \in Callers, NEW m, rows' = rows, Send(c), Busy(c), reports' = Append(reports, m),
               IsAnswer(m) => \/ Responds(c) /\ m.id = call[c].row.req /\ m.id # 0
                              \/ Chosen(c) /\ m.id = call[c].a.id
        PROVE  /\ AnswersOK'
               /\ \/ Answered' = Answered
                  \/ Responds(c) /\ call[c].row.req # 0 /\ Answered' = Answered \cup {call[c].row.req}
                  \/ Chosen(c) /\ Answered' = Answered \cup {call[c].a.id}
    <3>1. Answered' = Answered \cup (IF IsAnswer(m) THEN {m.id} ELSE {})
      BY <1>0, <2>3, OneReport
    <3>2. IsAnswer(m) => m.id \in Used \ Answered
      BY <1>0, <2>3 DEF RespondsOK, ChosenOK
    <3>3. AnswersOK'
      BY <1>0, <2>3, <3>2, OneReport
    <3> QED
      BY <2>3, <3>1, <3>3
  <2> QED
    BY <2>1, <2>2, <2>3, WhoAnswers
<1>3. AnswersOK'
  BY <1>2
\* The rows as they will be have nothing that is answered now, or will be.
<1>4. ASSUME NEW i \in Ids, Known(rows', i)
      PROVE  rows'[i].req \notin Answered /\ (rows'[i].slot = "New" => i \notin Answered)
  BY <1>0, <1>1, <1>4, RowsCome
<1>5. ASSUME NEW x, Answered' = Answered \cup {x},
             \A i \in Ids : Known(rows', i) => rows'[i].req # x /\ (rows'[i].slot = "New" => i # x)
      PROVE  UnansweredOK'
  BY <1>4, <1>5 DEF UnansweredOK
<1>6. UnansweredOK'
  <2>1. CASE Answered' = Answered
    BY <1>4, <2>1 DEF UnansweredOK
  <2>2. ASSUME NEW x, x \notin Used, x # 0, Answered' = Answered \cup {x}, rows' = rows PROVE UnansweredOK'
    <3>1. \A i \in Ids : Known(rows, i) => rows[i].req # x /\ i # x
      BY <1>1, <2>2
    <3> QED
      BY <1>5, <2>2, <3>1
  <2>3. ASSUME NEW c \in Callers, Send(c), Responds(c), call[c].row.req # 0, rows' = rows,
               Answered' = Answered \cup {call[c].row.req}
        PROVE  UnansweredOK'
    <3>1. PICK k, n, req : k = call[c] /\ n = NowId(k.a, k.row) /\ req = k.row.req
      OBVIOUS
    <3>2. Known(rows, n) /\ rows[n].oid = k.row.oid /\ rows[n].req = 0 /\ n \in Ids
      BY <2>3, <3>1, SentRow DEF Responds, Known
    <3>3. ASSUME NEW i \in Ids, Known(rows, i) PROVE rows[i].req # req /\ (rows[i].slot = "New" => i # req)
      <4>1. (rows[i].oid # k.row.oid => rows[i].req # req \/ req = 0) /\ (rows[i].slot = "New" => i # req)
        BY <1>0, <2>3, <3>1, <3>3 DEF RespondsOK
      <4>2. rows[i].oid = k.row.oid => i = n
        BY <3>2, <3>3, OneRow
      <4> QED
        BY <2>3, <3>1, <3>2, <4>1, <4>2
    <3>4. \A i \in Ids : Known(rows', i) => rows'[i].req # req /\ (rows'[i].slot = "New" => i # req)
      BY <2>3, <3>3
    <3> QED
      BY <1>5, <2>3, <3>1, <3>4
  <2>4. ASSUME NEW c \in Callers, Send(c), Chosen(c), rows' = rows, Answered' = Answered \cup {call[c].a.id}
        PROVE  UnansweredOK'
    <3>1. PICK x : x = call[c].a.id
      OBVIOUS
    <3>2. rows[x].slot = ""
      BY <2>4, <3>1, SentRow DEF Chosen
    <3>3. \A i \in Ids : Known(rows, i) => rows[i].req # x
      BY <1>0, <2>4, <3>1 DEF ChosenOK
    <3>4. \A i \in Ids : Known(rows', i) => rows'[i].req # x /\ (rows'[i].slot = "New" => i # x)
      BY <2>4, <3>2, <3>3
    <3> QED
      BY <1>5, <2>4, <3>1, <3>4
  <2> QED
    BY <1>2, <2>1, <2>2, <2>3, <2>4
<1>7. ChosenOK'
  <2> SUFFICES ASSUME NEW d \in Callers, Chosen(d)'
               PROVE  /\ d \in Choosers /\ call'[d].a.id \in Used' \ Answered'
                      /\ \A i \in Ids : Known(rows', i) => rows'[i].req # call'[d].a.id
    BY DEF ChosenOK
  <2>1. CASE Chosen(d) /\ call'[d].a = call[d].a
    <3>1. PICK x : x = call[d].a.id /\ call'[d].a.id = x
      BY <2>1
    <3>2. d \in Choosers /\ x \in Used \ Answered /\ \A i \in Ids : Known(rows, i) => rows[i].req # x
      BY <1>0, <2>1, <3>1 DEF ChosenOK
    <3>3. x \notin Answered'
      <4>1. ASSUME NEW c \in Callers, Send(c), Chosen(c) PROVE FALSE
        <5>1. c = d
          BY <1>0, <3>2, <4>1 DEF ChosenOK, OnlyChosen
        <5>2. call'[d] = Idle
          BY <1>0, <4>1, <5>1 DEF Send, Goes, TypeOK
        <5> QED
          BY <5>2 DEF Chosen, Idle
      <4>2. ASSUME NEW c \in Callers, Responds(c) PROVE x # call[c].row.req
        BY <1>0, <2>1, <3>1, <4>2 DEF RespondsOK
      <4> QED
        BY <1>2, <3>2, <4>1, <4>2
    <3>4. \A i \in Ids : Known(rows', i) => rows'[i].req # x
      BY <1>0, <3>2, RowsCome
    <3> QED
      BY <1>0, <3>1, <3>2, <3>3, <3>4
  <2>2. CASE /\ d \in Choosers /\ Known(rows, call'[d].a.id) /\ rows[call'[d].a.id].slot = "New"
             /\ rows' = rows /\ reports' = reports
    <3>1. PICK x : x = call'[d].a.id /\ x \in Ids /\ Known(rows, x) /\ rows[x].slot = "New"
      BY <2>2 DEF Known
    <3>2. x \in Used /\ x \notin Answered
      BY <1>1, <3>1
    <3>3. \A i \in Ids : Known(rows, i) => rows[i].req # x
      BY <1>1, <3>1
    <3>4. Answered' = Answered
      BY <2>2 DEF Answered, IsAnswer
    <3> QED
      BY <1>0, <2>2, <3>1, <3>2, <3>3, <3>4
  <2> QED
    BY <2>1, <2>2, ChosenStays
<1>8. RespondsOK'
  <2> SUFFICES ASSUME NEW d \in Callers, Responds(d)',
                      NEW req, req = call'[d].row.req, NEW oid, oid = call'[d].row.oid
               PROVE  /\ req \in Used' \cup {0} /\ req \notin Answered'
                      /\ \A i \in Ids : Known(rows', i) => /\ rows'[i].oid # oid => rows'[i].req # req \/ req = 0
                                                           /\ rows'[i].slot = "New" => i # req
                      /\ \A e \in Callers : Chosen(e)' => call'[e].a.id # req
    BY DEF RespondsOK
  <2>1. CASE Responds(d) /\ call'[d].row = call[d].row
    <3>1. /\ req \in Used \cup {0} /\ req \notin Answered
          /\ \A i \in Ids : Known(rows, i) => /\ rows[i].oid # oid => rows[i].req # req \/ req = 0
                                              /\ rows[i].slot = "New" => i # req
          /\ \A e \in Callers : Chosen(e) => call[e].a.id # req
      BY <1>0, <2>1 DEF RespondsOK
    <3>2. Answered' = Answered
      <4>1. lock = d /\ lock # Nobody
        BY <2>1, HolderIs, Constants DEF Responds
      <4>2. ASSUME NEW c \in Callers, Send(c), Busy(c) PROVE FALSE
        <5>1. c = d
          BY <2>1, <4>2, Alone DEF Responds
        <5>2. call'[d] = Idle
          BY <1>0, <4>2, <5>1 DEF Send, Goes, TypeOK
        <5> QED
          BY <5>2 DEF Responds, Busy, Steps, Idle
      <4> QED
        BY <1>2, <4>1, <4>2
    <3>3. ASSUME NEW i \in Ids, Known(rows', i)
          PROVE  /\ rows'[i].oid # oid => rows'[i].req # req \/ req = 0
                 /\ rows'[i].slot = "New" => i # req
      <4>1. /\ \/ rows'[i].req = 0 \/ rows'[i].req \notin Used
               \/ \E j \in Ids : Known(rows, j) /\ rows[j].oid = rows'[i].oid /\ rows[j].req = rows'[i].req
            /\ rows'[i].slot = "New" => i \notin Used \/ (Known(rows, i) /\ rows[i].slot = "New")
        BY <3>3, RowsCome
      <4>2. i # 0
        BY Constants
      <4> QED
        BY <3>1, <4>1, <4>2
    <3>4. ASSUME NEW e \in Callers, Chosen(e)' PROVE call'[e].a.id # req
      <4>1. CASE Chosen(e) /\ call'[e].a = call[e].a
        BY <3>1, <4>1
      <4>2. CASE Known(rows, call'[e].a.id) /\ rows[call'[e].a.id].slot = "New"
        BY <3>1, <4>2 DEF Known
      <4> QED
        BY <3>4, <4>1, <4>2, ChosenStays
    <3> QED
      BY <1>0, <3>1, <3>2, <3>3, <3>4
  <2>2. ASSUME Load(d), rows' = rows, reports' = reports, NEW n \in Ids, Known(rows, n), call'[d].row = rows[n]
        PROVE  /\ req \in Used' \cup {0} /\ req \notin Answered'
               /\ \A i \in Ids : Known(rows', i) => /\ rows'[i].oid # oid => rows'[i].req # req \/ req = 0
                                                    /\ rows'[i].slot = "New" => i # req
               /\ \A e \in Callers : Chosen(e)' => call'[e].a.id # req
    <3>1. req = rows[n].req /\ oid = rows[n].oid
      BY <2>2
    <3>2. req \in Used \cup {0} /\ ~Known(rows, req) /\ req \notin Answered
      BY <1>1, <2>2, <3>1
    <3>3. Answered' = Answered
      BY <2>2 DEF Answered, IsAnswer
    <3>4. \A i \in Ids : Known(rows, i) /\ rows[i].oid # oid => rows[i].req # req \/ req = 0
      BY <2>2, <3>1 DEF Inv, RowsOK, IdsApart
    <3>5. ASSUME NEW e \in Callers, Chosen(e)' PROVE call'[e].a.id # req
      <4>1. CASE Chosen(e) /\ call'[e].a = call[e].a
        BY <1>0, <2>2, <3>1, <4>1 DEF ChosenOK
      <4>2. CASE Known(rows, call'[e].a.id)
        BY <3>2, <4>2
      <4> QED
        BY <3>5, <4>1, <4>2, ChosenStays
    <3> QED
      BY <1>0, <2>2, <3>2, <3>3, <3>4, <3>5
  <2> QED
    BY <2>1, <2>2, RespondsStays DEF Known
<1> QED
  BY <1>3, <1>6, <1>7, <1>8 DEF AnswerInv

\* Where one caller uses Accept and Reject, and orders are accepted and rejected
\* by these alone, an order and each of its requests is answered at most once.
THEOREM AnsweredOnceEver ==
  ASSUME {"accept_order", "reject_order"} \cap Actions = {}
  PROVE  Spec => []AnsweredOnce
<1>1. CASE OnlyChosen
  <2>1. Init => AnswerInv
    BY DEF Init, AnswerInv, AnswersOK, UnansweredOK, ChosenOK, RespondsOK, Answered, Known, Chosen, Responds,
           Busy, Steps, Idle
  <2>2. Inv /\ AnswerInv /\ [Next]_vars => AnswerInv'
    BY <1>1, AnswerStep
  <2>3. AnswerInv => AnsweredOnce
    BY Zenon DEF AnswerInv, AnswersOK, AnsweredOnce, IsAnswer
  <2> QED
    BY <2>1, <2>2, <2>3, InvHolds, PTL DEF Spec
<1>2. CASE ~OnlyChosen
  <2>1. AnsweredOnce
    BY <1>2 DEF OnlyChosen, AnsweredOnce
  <2>2. [Next]_vars => AnsweredOnce'
    BY <1>2 DEF OnlyChosen, AnsweredOnce
  <2> QED
    BY <2>1, <2>2, PTL DEF Spec
<1> QED
  BY <1>1, <1>2

-----------------------------------------------------------------------------
(* What the counterparty was told last is what the blotter shows.           *)

\* A finite set of numbers that is not empty has a greatest.
LEMMA GreatestNumber ==
  ASSUME NEW N \in Nat, NEW T, T \subseteq 1 .. N, T # {}
  PROVE  Max(T) \in T /\ \A x \in T : x <= Max(T)
<1> DEFINE U == {N - n : n \in T}
<1>1. \E u \in U : \A v \in U : u <= v
  <2>0. \A n \in 1 .. N : N - n \in Nat
    OBVIOUS
  <2>1. U \subseteq Nat /\ U # {}
    BY <2>0
  <2> HIDE DEF U
  <2> QED
    BY <2>1, LeastNumber
<1>2. PICK x \in T : \A v \in U : N - x <= v
  BY <1>1
<1>3. \A y \in T : x >= y
  <2> TAKE y \in T
  <2>1. N - y \in U
    OBVIOUS
  <2>2. N - x <= N - y /\ x \in Int /\ y \in Int
    BY <1>2, <2>1
  <2> QED
    BY <2>2
<1>4. Max(T) \in T /\ \A y \in T : Max(T) >= y
  BY <1>3, Zenon DEF Max
<1> QED
  BY <1>4

\* What a report tells of a row, and that the last report of an order tells it.
Tells(m, i, row) == << m.id, m.status, m.qty, m.cum, m.leaves >> = << i, row.status, row.qty, row.cum, row.leaves >>
LastTells(i, row) == About(row.oid) # {} /\ AnsweredInTime(row.oid) => Tells(reports[Max(About(row.oid))], i, row)

\* An order nothing was reported of has nothing executed: accepting it reports that.
Untouched(row) == About(row.oid) = {} => row.cum = 0 /\ row.leaves = row.qty
RowTold(i, row) == LastTells(i, row) /\ Untouched(row)

\* But for the order an action is under way on, whose row was told as it was loaded.
ToldOK ==
    /\ \A n \in DOMAIN reports : reports[n].type = "8" => reports[n].oid \in Used
    /\ \A i \in Ids : Known(rows, i) /\ (\A c \in Callers : Busy(c) => call[c].row.oid # rows[i].oid) =>
          RowTold(i, rows[i])
    /\ \A c \in Callers : Busy(c) => RowTold(call[c].a.id, call[c].row)

\* Rows that are the same to the counterparty.
SameTold(row, other) ==
    /\ row.oid = other.oid /\ row.status = other.status /\ row.qty = other.qty
    /\ row.cum = other.cum /\ row.leaves = other.leaves

\* Rows the same to the counterparty are told alike.
LEMMA ToldAlike ==
  ASSUME NEW i, NEW row, NEW other, SameTold(row, other), RowTold(i, row)
  PROVE  RowTold(i, other)
BY DEF SameTold, RowTold, LastTells, Untouched, Tells

\* The reports of an order after one more.
LEMMA AboutMore ==
  ASSUME TypeOK, NEW m, reports' = Append(reports, m), NEW oid
  PROVE  /\ \A n \in About(oid) : reports'[n] = reports[n]
         /\ About(oid) # {} => Max(About(oid)) \in About(oid)
         /\ ~(m.type = "8" /\ m.oid = oid) => About(oid)' = About(oid)
         /\ m.type = "8" /\ m.oid = oid =>
              /\ reports'[Max(About(oid)')] = m
              /\ AnsweredInTime(oid)' /\ m.kind \in {"New", "Rejected"} => About(oid) = {}
              /\ About(oid)' # {}
<1>1. PICK N \in Nat : N = Len(reports) /\ DOMAIN reports = 1 .. N
  BY DEF TypeOK
<1>2. /\ DOMAIN reports' = 1 .. N + 1 /\ reports'[N + 1] = m
      /\ \A n \in 1 .. N : reports'[n] = reports[n]
  BY <1>1 DEF TypeOK
<1>3. About(oid) \subseteq 1 .. N
  BY <1>1 DEF About
<1>4. \A n \in 1 .. N + 1 : n = N + 1 \/ n \in 1 .. N
  BY <1>1
<1>5. ASSUME NEW n PROVE n \in About(oid)' <=> n \in About(oid) \/ (n = N + 1 /\ m.type = "8" /\ m.oid = oid)
  <2>1. n \in About(oid)' <=> n \in 1 .. N + 1 /\ reports'[n].type = "8" /\ reports'[n].oid = oid
    BY <1>2 DEF About
  <2>2. n \in About(oid) <=> n \in 1 .. N /\ reports[n].type = "8" /\ reports[n].oid = oid
    BY <1>1 DEF About
  <2>3. n \in 1 .. N + 1 <=> n = N + 1 \/ n \in 1 .. N
    BY <1>1
  <2>4. N + 1 \notin 1 .. N
    BY <1>1
  <2> QED
    BY <1>2, <2>1, <2>2, <2>3, <2>4
<1>6. About(oid) # {} => Max(About(oid)) \in About(oid)
  BY <1>3, GreatestNumber
<1>7. ~(m.type = "8" /\ m.oid = oid) => About(oid)' = About(oid)
  BY <1>5
<1>8. ASSUME m.type = "8", m.oid = oid
      PROVE  /\ reports'[Max(About(oid)')] = m /\ About(oid)' # {}
             /\ AnsweredInTime(oid)' /\ m.kind \in {"New", "Rejected"} => About(oid) = {}
  <2>1. PICK S : S = About(oid)' /\ S = About(oid) \cup {N + 1}
    BY <1>5, <1>8
  <2>2. S \subseteq 1 .. N + 1 /\ N + 1 \in S /\ N + 1 \in Nat
    BY <1>3, <2>1
  <2>3. Max(S) \in S /\ N + 1 <= Max(S)
    BY <2>2, GreatestNumber
  <2>4. Max(S) = N + 1
    <3>1. PICK x : x = Max(S)
      OBVIOUS
    <3>2. x \in 1 .. N + 1 /\ N + 1 <= x
      BY <2>2, <2>3, <3>1
    <3> QED
      BY <3>1, <3>2
  <2>5. ASSUME AnsweredInTime(oid)', m.kind \in {"New", "Rejected"} PROVE About(oid) = {}
    <3>1. N + 1 = Min(S)
      BY <1>2, <2>1, <2>2, <2>5 DEF AnsweredInTime
    <3>2. \E x \in S : \A y \in S : x <= y
      <4>1. S \subseteq Nat /\ S # {}
        BY <2>2
      <4> QED
        BY <4>1, LeastNumber
    <3>3. \A y \in S : Min(S) <= y
      BY <3>2, Zenon DEF Min
    <3> QED
      BY <1>3, <2>1, <3>1, <3>3
  <2> QED
    BY <1>2, <2>1, <2>4, <2>5
<1> QED
  BY <1>2, <1>3, <1>6, <1>7, <1>8

\* A report on another order, or a reject, leaves what was told of a row.
LEMMA ToldStays ==
  ASSUME TypeOK, NEW m, reports' = Append(reports, m), NEW i, NEW row, RowTold(i, row),
         ~(m.type = "8" /\ m.oid = row.oid)
  PROVE  RowTold(i, row)'
<1>1. PICK oid : oid = row.oid
  OBVIOUS
<1>2. /\ About(oid)' = About(oid) /\ (\A n \in About(oid) : reports'[n] = reports[n])
      /\ About(oid) # {} => Max(About(oid)) \in About(oid)
  BY <1>1, AboutMore
<1>3. AnsweredInTime(oid)' <=> AnsweredInTime(oid)
  BY <1>2 DEF AnsweredInTime
<1>4. PICK S : S = About(oid)
  OBVIOUS
<1>5. ASSUME S # {}, AnsweredInTime(oid) PROVE Tells(reports'[Max(S)], i, row)
  BY <1>1, <1>2, <1>4, <1>5 DEF RowTold, LastTells
<1>6. LastTells(i, row)'
  BY <1>1, <1>2, <1>3, <1>4, <1>5 DEF LastTells, Tells
<1> QED
  BY <1>1, <1>2, <1>6 DEF RowTold, Untouched

\* What an action writes, the report it sends tells.
LEMMA AnswerTells ==
  ASSUME Inv, NEW c \in Callers, Send(c), RowTold(call[c].a.id, call[c].row), Version # "FIX.4.0"
  PROVE  \E i, row, m : /\ Known(rows, i) /\ row = rows[i] /\ row.oid = call[c].row.oid /\ row.oid \in Used
                        /\ reports' = Append(reports, m) /\ (m.type = "8" => m.oid = row.oid)
                        /\ RowTold(i, row)'
<1>1. PICK k, i, new : k = call[c] /\ i = NowId(k.a, k.row) /\ new = Written(k.a, k.row, k.trade)
  OBVIOUS
<1>2. PICK m : m = Answer(k.a, k.row, k.trade, k.exec)
  OBVIOUS
<1>3. k.step = "sending" /\ Busy(c) /\ reports' = Append(reports, m) /\ rows' = rows
  BY <1>1, <1>2 DEF Send, At, Busy, Steps
<1>4. HolderOK(k) /\ k.a \in Op /\ CommandOK(k.a) /\ k.row \in OrderRow /\ k.trade \in Trade
  BY <1>1, <1>3, HolderIs
<1>5. Known(rows, i) /\ rows[i] = new
  BY <1>1, <1>3, <1>4 DEF HolderOK, Found
<1>6. new.oid = k.row.oid /\ new.oid \in Used /\ new \in OrderRow
  <2>1. new.oid = k.row.oid /\ new \in OrderRow
    BY <1>1, <1>4, WrittenKeeps DEF Keeps
  <2> QED
    BY <1>5, <2>1 DEF Inv, RowsOK, RowOK, Known
<1>7. TypeOK /\ RowTold(k.a.id, k.row)
  BY <1>1 DEF Inv
<1>8. CASE k.a.op = "reject_cancel"
  <2>1. m.type = "9"
    BY <1>2, <1>8 DEF Answer, OrderCancelReject
  <2>2. new = ClearSlot(k.row) /\ i = k.a.id
    BY <1>1, <1>8 DEF Written, NowId, Renames
  <2>3. SameTold(k.row, new)
    BY <1>4, <1>6, <2>2, ClearSlotKeeps DEF SameTold
  <2>4. RowTold(i, new)
    BY <1>7, <2>2, <2>3, ToldAlike
  <2>5. RowTold(i, new)'
    BY <1>3, <1>7, <2>1, <2>4, ToldStays
  <2> QED
    BY <1>1, <1>3, <1>5, <1>6, <2>1, <2>5
<1>9. CASE k.a.op # "reject_cancel"
  <2>1. PICK shown : shown = AsReported(k.a, k.row, k.trade)
    OBVIOUS
  <2>2. /\ m.type = "8" /\ m.kind = Kind(k.a.op, k.trade) /\ m.id = i /\ m.oid = shown.oid /\ m.status = shown.status
        /\ m.qty = shown.qty /\ m.cum = shown.cum /\ m.leaves = shown.leaves
    BY <1>1, <1>2, <1>9, <2>1 DEF Answer, ExecutionReport, DefinesExecType
  <2>3. k.a.op # "renotify_trade"
    BY <1>4 DEF HolderOK
  <2>4. k.a.op # "accept_order" => shown = new
    BY <1>1, <2>1, <2>3 DEF AsReported
  <2>5. k.a.op = "accept_order" =>
          /\ shown = [new EXCEPT !.cum = 0, !.leaves = k.row.qty]
          /\ new = [k.row EXCEPT !.status = "New", !.slot = ""] /\ m.kind = "New"
    BY <1>1, <2>1, <2>2 DEF AsReported, Written, Kind
  <2>6. m.oid = new.oid
    <3>1. CASE k.a.op = "accept_order"
      BY <1>6, <2>2, <2>5, <3>1 DEF OrderRow
    <3> QED
      BY <2>2, <2>4, <3>1
  <2>7. PICK oid : oid = new.oid
    OBVIOUS
  <2>8. ASSUME AnsweredInTime(oid)' PROVE Tells(m, i, new)
    <3>1. CASE k.a.op # "accept_order"
      BY <2>2, <2>4, <3>1 DEF Tells
    <3>2. CASE k.a.op = "accept_order"
      <4>1. About(oid) = {}
        BY <1>3, <1>7, <2>2, <2>5, <2>6, <2>7, <2>8, <3>2, AboutMore
      <4>2. k.row.cum = 0 /\ k.row.leaves = k.row.qty
        BY <1>6, <1>7, <2>7, <4>1 DEF RowTold, Untouched
      <4>3. new.cum = 0 /\ new.leaves = k.row.qty /\ new.qty = k.row.qty
        BY <1>4, <2>5, <3>2, <4>2 DEF OrderRow
      <4>4. shown.status = new.status /\ shown.qty = new.qty /\ shown.cum = new.cum /\ shown.leaves = new.leaves
        BY <1>6, <2>5, <3>2, <4>3 DEF OrderRow
      <4> QED
        BY <2>2, <4>4 DEF Tells
    <3> QED
      BY <3>1, <3>2
  <2>9. About(oid)' # {} /\ reports'[Max(About(oid)')] = m
    <3>1. m.type = "8" /\ m.oid = oid
      BY <2>2, <2>6, <2>7
    <3> QED
      BY <1>3, <1>7, <3>1, AboutMore
  <2>10. PICK S, last : S = About(oid)' /\ last = reports'[Max(S)]
    OBVIOUS
  <2>11. RowTold(i, new)'
    BY <2>7, <2>8, <2>9, <2>10 DEF RowTold, LastTells, Untouched, Tells
  <2> QED
    BY <1>1, <1>3, <1>5, <1>6, <2>6, <2>11
<1> QED
  BY <1>8, <1>9

\* Who acts on which order.
SameHolders ==
    \A c \in Callers : /\ Busy(c)' <=> Busy(c)
                       /\ Busy(c) => call'[c].row = call[c].row /\ call'[c].a = call[c].a

\* A step further, the caller acts on the same row.
LEMMA HolderSteps ==
  ASSUME Inv, NEW c \in Callers, Busy(c), NEW step \in Steps, call' = [call EXCEPT ![c] = [call[c] EXCEPT !.step = step]]
  PROVE  SameHolders
<1>1. call[c] \in Held /\ call'[c] = [call[c] EXCEPT !.step = step] /\ \A d \in Callers : d # c => call'[d] = call[d]
  BY HolderIs DEF Inv, TypeOK
<1>2. call'[c].step = step /\ call'[c].row = call[c].row /\ call'[c].a = call[c].a
  <2>1. PICK k \in Held : k = call[c]
    BY <1>1
  <2>2. PICK next : next = [k EXCEPT !.step = step]
    OBVIOUS
  <2>3. next.step = step /\ next.row = k.row /\ next.a = k.a
    BY <2>2, HeldSteps
  <2>4. call'[c] = next
    BY <1>1, <2>1, <2>2
  <2> QED
    BY <2>1, <2>3, <2>4
<1> QED
  BY <1>1, <1>2 DEF SameHolders, Busy

\* A caller that neither acted nor acts leaves those that do.
LEMMA OthersUnchanged ==
  ASSUME Inv, NEW c \in Callers, ~Busy(c), NEW k, k.step \notin Steps, call' = [call EXCEPT ![c] = k]
  PROVE  SameHolders
<1>1. call'[c] = k /\ \A d \in Callers : d # c => call'[d] = call[d]
  BY DEF Inv, TypeOK
<1> QED
  BY <1>1 DEF SameHolders, Busy

\* Rows that are new, of the order acted on, or the same to the counterparty.
LEMMA ToldSame ==
  ASSUME ToldOK, SameHolders, \A i, row : RowTold(i, row) => RowTold(i, row)',
         \A n \in DOMAIN reports' : reports'[n].type = "8" => reports'[n].oid \in Used',
         \A i \in Ids : Known(rows', i) =>
            \/ \E row : row = rows'[i] /\ RowTold(i, row)
            \/ \E c \in Callers : Busy(c) /\ call[c].row.oid = rows'[i].oid
            \/ Known(rows, i) /\ SameTold(rows[i], rows'[i])
  PROVE  ToldOK'
<1>1. ASSUME NEW i \in Ids, Known(rows', i), \A c \in Callers : Busy(c)' => call'[c].row.oid # rows'[i].oid
      PROVE  RowTold(i, rows[i])'
  <2>1. PICK row : row = rows'[i]
    OBVIOUS
  <2>2. RowTold(i, row)
    <3>1. \A c \in Callers : Busy(c) => call[c].row.oid # row.oid
      BY <1>1, <2>1 DEF SameHolders
    <3>2. ASSUME Known(rows, i), SameTold(rows[i], row) PROVE RowTold(i, row)
      <4>1. rows[i].oid = row.oid
        BY <3>2 DEF SameTold
      <4>2. RowTold(i, rows[i])
        BY <3>1, <3>2, <4>1 DEF ToldOK
      <4> QED
        BY <3>2, <4>2, ToldAlike
    <3> QED
      BY <1>1, <2>1, <3>1, <3>2
  <2>3. RowTold(i, row)'
    BY <2>2
  <2> QED
    BY <2>1, <2>3 DEF RowTold, LastTells, Untouched, Tells
<1>2. ASSUME NEW c \in Callers, Busy(c)' PROVE RowTold(call[c].a.id, call[c].row)'
  <2>1. PICK i, row : i = call[c].a.id /\ row = call[c].row
    OBVIOUS
  <2>2. RowTold(i, row) /\ call'[c].a.id = i /\ call'[c].row = row
    BY <1>2, <2>1 DEF ToldOK, SameHolders
  <2>3. RowTold(i, row)'
    BY <2>2
  <2> QED
    BY <2>2, <2>3 DEF RowTold, LastTells, Untouched, Tells
<1> QED
  BY <1>1, <1>2 DEF ToldOK

\* Every step keeps the counterparty told, but for the order being acted on.
LEMMA ToldStep ==
  ASSUME Inv, ToldOK, [Next]_vars, Version # "FIX.4.0"
  PROVE  ToldOK'
<1>0. TypeOK /\ TypeOK' /\ Used \subseteq Used'
  BY TypeStep, QueueStep DEF Inv
<1>1. ASSUME reports' = reports
      PROVE  /\ \A i, row : RowTold(i, row)' <=> RowTold(i, row)
             /\ \A n \in DOMAIN reports' : reports'[n].type = "8" => reports'[n].oid \in Used'
  <2>1. \A i, row : RowTold(i, row)' <=> RowTold(i, row)
    BY <1>1 DEF RowTold, LastTells, Untouched, Tells, AnsweredInTime, About
  <2> QED
    BY <1>0, <1>1, <2>1 DEF ToldOK
<1>2. ASSUME reports' = reports, SameHolders, rows' = rows PROVE ToldOK'
  <2>1. \A i \in Ids : Known(rows', i) => Known(rows, i) /\ SameTold(rows[i], rows'[i])
    BY <1>2 DEF SameTold
  <2> QED
    BY <1>1, <1>2, <2>1, ToldSame
<1>3. CASE NewOrder
  <2>1. PICK n, new : /\ n \in Waiting /\ n \in Ids /\ rows' = [rows EXCEPT ![n] = new]
                      /\ new.oid = n /\ new.cum = 0 /\ new.leaves = new.qty
    <3>1. PICK n, qty : n \in Waiting /\ n \in Ids /\ rows' = [rows EXCEPT ![n] = NewRow(n, qty, "New")]
      BY <1>3, NewOrderDoes
    <3>2. NewRow(n, qty, "New").oid = n /\ NewRow(n, qty, "New").cum = 0
          /\ NewRow(n, qty, "New").leaves = NewRow(n, qty, "New").qty
      BY DEF NewRow
    <3> QED
      BY <3>1, <3>2
  <2>2. reports' = reports /\ call' = call
    BY <1>3 DEF NewOrder
  <2>3. SameHolders
    BY <2>2 DEF SameHolders, Busy
  <2>4. About(n) = {}
    BY <2>1 DEF ToldOK, About, Used
  <2>5. RowTold(n, new)
    BY <2>1, <2>4 DEF RowTold, LastTells, Untouched
  <2>6. rows'[n] = new /\ \A i \in Ids : i # n => rows'[i] = rows[i]
    BY <1>0, <2>1 DEF TypeOK
  <2>7. \A i \in Ids : Known(rows', i) => \/ \E row : row = rows'[i] /\ RowTold(i, row)
                                          \/ Known(rows, i) /\ SameTold(rows[i], rows'[i])
    BY <2>5, <2>6 DEF SameTold, Known
  <2> QED
    BY <1>1, <2>2, <2>3, <2>7, ToldSame
<1>4. CASE Park
  <2>1. PICK n, new :
           /\ n \in Ids /\ Known(rows, n) /\ rows' = [rows EXCEPT ![n] = new] /\ new.oid = rows[n].oid
           /\ new.cum = rows[n].cum /\ new.qty = rows[n].qty /\ new.leaves = rows[n].leaves
           /\ new.status = rows[n].status
    BY <1>4, ParkDoes
  <2>2. reports' = reports /\ call' = call
    BY <1>4 DEF Park
  <2>3. SameHolders
    BY <2>2 DEF SameHolders, Busy
  <2>4. rows'[n] = new /\ \A i \in Ids : i # n => rows'[i] = rows[i]
    BY <1>0, <2>1 DEF TypeOK
  <2>5. \A i \in Ids : Known(rows', i) => Known(rows, i) /\ SameTold(rows[i], rows'[i])
    BY <2>1, <2>4 DEF SameTold, Known
  <2> QED
    BY <1>1, <2>2, <2>3, <2>5, ToldSame
<1>5. ASSUME NEW c \in Callers, Rename(c) PROVE ToldOK'
  <2>1. PICK k, new : k = call[c] /\ new = ClearSlot(k.row)
    OBVIOUS
  <2>2. /\ Busy(c) /\ rows' = [rows EXCEPT ![k.a.id] = NoRow, ![k.row.req] = new] /\ k.row.req \in Ids
        /\ call' = [call EXCEPT ![c] = [call[c] EXCEPT !.step = "writing"]]
    BY <1>5, <2>1, RenameDoes
  <2>3. new.oid = k.row.oid
    BY <2>1, <2>2, HolderIs, ClearSlotKeeps DEF Keeps
  <2>4. reports' = reports /\ SameHolders
    <3>1. SameHolders
      BY <2>2, HolderSteps DEF Steps
    <3> QED
      BY <1>5, <3>1 DEF Rename
  <2>5. \A i \in Ids : rows'[i] = rows[i] \/ rows'[i] = NoRow \/ rows'[i] = new
    BY <1>0, <2>2 DEF TypeOK
  <2>6. \A i \in Ids : Known(rows', i) => \/ \E d \in Callers : Busy(d) /\ call[d].row.oid = rows'[i].oid
                                          \/ Known(rows, i) /\ SameTold(rows[i], rows'[i])
    BY <2>1, <2>2, <2>3, <2>5 DEF SameTold, Known
  <2> QED
    BY <1>1, <2>4, <2>6, ToldSame
<1>6. ASSUME NEW c \in Callers, Write(c) PROVE ToldOK'
  <2>1. PICK k, n, new, step : /\ k = call[c] /\ n = NowId(k.a, k.row) /\ new = Written(k.a, k.row, k.trade)
                               /\ step = IF Trades(k.a.op) THEN "trading" ELSE "sending"
    OBVIOUS
  <2>2. /\ Busy(c) /\ rows' = [rows EXCEPT ![n] = new] /\ n \in Ids /\ new.oid = k.row.oid
        /\ call' = [call EXCEPT ![c] = [call[c] EXCEPT !.step = step]] /\ step \in Steps
    BY <1>6, <2>1, WriteDoes DEF Steps
  <2>3. reports' = reports /\ SameHolders
    <3>1. SameHolders
      BY <2>2, HolderSteps
    <3> QED
      BY <1>6, <3>1 DEF Write
  <2>4. \A i \in Ids : rows'[i] = rows[i] \/ rows'[i] = new
    BY <1>0, <2>2 DEF TypeOK
  <2>5. \A i \in Ids : Known(rows', i) => \/ \E d \in Callers : Busy(d) /\ call[d].row.oid = rows'[i].oid
                                          \/ Known(rows, i) /\ SameTold(rows[i], rows'[i])
    BY <2>1, <2>2, <2>4 DEF SameTold, Known
  <2> QED
    BY <1>1, <2>3, <2>5, ToldSame
<1>7. ASSUME NEW c \in Callers, WriteTrade(c) PROVE ToldOK'
  <2>1. Busy(c) /\ call' = [call EXCEPT ![c] = [call[c] EXCEPT !.step = "sending"]]
    BY <1>7, WriteTradeDoes
  <2>2. SameHolders
    BY <2>1, HolderSteps DEF Steps
  <2> QED
    BY <1>2, <1>7, <2>2 DEF WriteTrade
<1>8. ASSUME NEW c \in Callers, Load(c) PROVE ToldOK'
  <2>1. lock = Nobody /\ ~Busy(c) /\ rows' = rows /\ reports' = reports
    BY <1>8 DEF Load, At, Busy, Steps
  <2>2. \A d \in Callers : ~Busy(d)
    BY <2>1, Constants DEF Inv, LockOK
  <2>3. PICK k : /\ call' = [call EXCEPT ![c] = k]
                 /\ k = Idle \/ (Known(rows, k.a.id) /\ k.row = rows[k.a.id])
    BY <1>8, LoadGoes
  <2>4. CASE k = Idle
    <3>1. SameHolders
      BY <2>1, <2>3, <2>4, OthersUnchanged DEF Idle, Steps
    <3> QED
      BY <1>2, <2>1, <3>1
  <2>5. CASE Known(rows, k.a.id) /\ k.row = rows[k.a.id]
    <3>1. call'[c] = k /\ \A d \in Callers : d # c => call'[d] = call[d]
      BY <1>0, <2>3 DEF TypeOK
    <3>2. ASSUME NEW i \in Ids, Known(rows, i) PROVE RowTold(i, rows[i])
      BY <2>2, <3>2 DEF ToldOK
    <3>3. ASSUME NEW i \in Ids, Known(rows', i) PROVE RowTold(i, rows[i])'
      <4>1. PICK row : row = rows[i]
        OBVIOUS
      <4>2. RowTold(i, row)'
        BY <1>1, <2>1, <3>2, <3>3, <4>1
      <4> QED
        BY <2>1, <4>1, <4>2 DEF RowTold, LastTells, Untouched, Tells
    <3>4. ASSUME NEW d \in Callers, Busy(d)' PROVE RowTold(call[d].a.id, call[d].row)'
      <4>1. d = c
        BY <2>2, <3>1, <3>4 DEF Busy
      <4>2. PICK i, row : i = k.a.id /\ row = k.row /\ i \in Ids
        BY <2>5 DEF Known
      <4>3. RowTold(i, row)'
        BY <1>1, <2>1, <2>5, <3>2, <4>2
      <4>4. call'[d].a.id = i /\ call'[d].row = row
        BY <3>1, <4>1, <4>2
      <4> QED
        BY <4>3, <4>4 DEF RowTold, LastTells, Untouched, Tells
    <3> QED
      BY <1>1, <2>1, <3>3, <3>4 DEF ToldOK
  <2> QED
    BY <2>3, <2>4, <2>5
<1>9. ASSUME NEW c \in Callers, Send(c) PROVE ToldOK'
  <2>1. Busy(c) /\ call' = [call EXCEPT ![c] = Idle] /\ rows' = rows
    BY <1>9 DEF Send, At, Busy, Steps, Goes
  <2>2. \A d \in Callers : ~Busy(d)'
    <3>1. call'[c] = Idle /\ \A d \in Callers : d # c => call'[d] = call[d]
      BY <1>0, <2>1 DEF TypeOK
    <3>2. \A d \in Callers : Busy(d) => d = c
      BY <2>1, Alone
    <3> QED
      BY <3>1, <3>2 DEF Busy, Idle, Steps
  <2>3. PICK n, new, m : /\ Known(rows, n) /\ new = rows[n] /\ new.oid = call[c].row.oid /\ new.oid \in Used
                         /\ reports' = Append(reports, m) /\ (m.type = "8" => m.oid = new.oid)
                         /\ RowTold(n, new)'
    <3>1. RowTold(call[c].a.id, call[c].row)
      BY <2>1 DEF ToldOK
    <3> QED
      BY <1>9, <3>1, AnswerTells
  <2>4. ASSUME NEW p \in DOMAIN reports', reports'[p].type = "8" PROVE reports'[p].oid \in Used'
    <3>1. PICK N \in Nat : N = Len(reports) /\ DOMAIN reports = 1 .. N
      BY <1>0 DEF TypeOK
    <3>2. /\ DOMAIN reports' = 1 .. N + 1 /\ reports'[N + 1] = m
          /\ \A q \in 1 .. N : reports'[q] = reports[q]
      BY <1>0, <2>3, <3>1 DEF TypeOK
    <3>3. p = N + 1 \/ p \in 1 .. N
      BY <3>1, <3>2
    <3> QED
      BY <1>0, <2>3, <2>4, <3>1, <3>2, <3>3 DEF ToldOK
  <2>5. ASSUME NEW i \in Ids, Known(rows', i) PROVE RowTold(i, rows[i])'
    <3>1. PICK row : row = rows[i]
      OBVIOUS
    <3>2. CASE row.oid = new.oid
      <4>1. i = n /\ row = new
        BY <2>1, <2>3, <2>5, <3>1, <3>2, OneRow DEF Known
      <4> QED
        BY <2>1, <2>3, <3>1, <4>1 DEF RowTold, LastTells, Untouched, Tells
    <3>3. CASE row.oid # new.oid
      <4>1. \A d \in Callers : Busy(d) => call[d].row.oid # row.oid
        BY <2>1, <2>3, <3>3, Alone
      <4>2. RowTold(i, row)
        BY <2>1, <2>5, <3>1, <4>1 DEF ToldOK
      <4>3. RowTold(i, row)'
        BY <1>0, <2>3, <3>3, <4>2, ToldStays
      <4> QED
        BY <2>1, <3>1, <4>3 DEF RowTold, LastTells, Untouched, Tells
    <3> QED
      BY <3>2, <3>3
  <2> QED
    BY <2>2, <2>4, <2>5 DEF ToldOK
<1>10. CASE LoadRequested
  <2>1. rows' = rows /\ call' = call
    BY <1>10 DEF LoadRequested
  <2>2. SameHolders
    BY <2>1 DEF SameHolders, Busy
  <2>3. CASE reports' = reports
    BY <1>2, <2>1, <2>2, <2>3
  <2>4. CASE reports' # reports
    <3>1. PICK m : reports' = Append(reports, m) /\ m.type = "9"
      <4>1. PICK req : req = Head(requests)
        OBVIOUS
      <4>2. CASE Known(rows, req.orig)
        BY <1>10, <2>4, <4>1, <4>2 DEF LoadRequested
      <4>3. CASE ~Known(rows, req.orig)
        <5>1. reports' = Append(reports, OrderCancelReject(req.id, req.orig, "Rejected", TRUE))
          BY <1>10, <4>1, <4>3 DEF LoadRequested
        <5>2. OrderCancelReject(req.id, req.orig, "Rejected", TRUE).type = "9"
          BY DEF OrderCancelReject
        <5> QED
          BY <5>1, <5>2
      <4> QED
        BY <4>2, <4>3
    <3>2. \A i, row : RowTold(i, row) => RowTold(i, row)'
      BY <1>0, <3>1, ToldStays
    <3>3. \A p \in DOMAIN reports' : reports'[p].type = "8" => reports'[p].oid \in Used'
      <4>1. PICK N \in Nat : N = Len(reports) /\ DOMAIN reports = 1 .. N
        BY <1>0 DEF TypeOK
      <4>2. /\ DOMAIN reports' = 1 .. N + 1 /\ reports'[N + 1] = m
            /\ \A q \in 1 .. N : reports'[q] = reports[q]
        BY <1>0, <3>1, <4>1 DEF TypeOK
      <4>3. \A p \in 1 .. N + 1 : p = N + 1 \/ p \in 1 .. N
        BY <4>1
      <4> QED
        BY <1>0, <3>1, <4>1, <4>2, <4>3 DEF ToldOK
    <3>4. \A i \in Ids : Known(rows', i) => Known(rows, i) /\ SameTold(rows[i], rows'[i])
      BY <2>1 DEF SameTold
    <3> QED
      BY <2>2, <3>2, <3>3, <3>4, ToldSame
  <2> QED
    BY <2>3, <2>4
<1>11. ASSUME NEW c \in Callers, Command(c) \/ (c \in Choosers /\ Decide(c)) PROVE ToldOK'
  <2>1. PICK a : call[c].step = "idle" /\ call' = [call EXCEPT ![c] = [step |-> "locking", a |-> a]]
    BY <1>11, CommandDoes, DecideDoes
  <2>2. rows' = rows /\ reports' = reports
    BY <1>11 DEF Command, Decide
  <2>3. PICK k : k = [step |-> "locking", a |-> a]
    OBVIOUS
  <2>4. ~Busy(c) /\ k.step \notin Steps /\ call' = [call EXCEPT ![c] = k]
    BY <2>1, <2>3 DEF Busy, Steps
  <2>5. SameHolders
    BY <2>4, OthersUnchanged
  <2> QED
    BY <1>2, <2>2, <2>5
<1>12. CASE UNCHANGED << rows, call, reports >>
  <2>1. SameHolders
    BY <1>12 DEF SameHolders, Busy
  <2> QED
    BY <1>2, <1>12, <2>1
<1> QED
  BY <1>3, <1>4, <1>5, <1>6, <1>7, <1>8, <1>9, <1>10, <1>11, <1>12, Constants
     DEF Next, MarketStep, vars, Counterparty

\* Under every version that reports what is left of an order (LeavesQty), the
\* last report of an order answered in time tells what its row has, whenever no
\* action is under way: _market_action sends it before the lock is free.
THEOREM ReportIsTheRowEver ==
  ASSUME Version # "FIX.4.0"
  PROVE  Spec => []ReportIsTheRow
<1>1. Init => ToldOK
  BY DEF Init, ToldOK, Known, Busy, Steps, Idle
<1>2. Inv /\ ToldOK /\ [Next]_vars => ToldOK'
  BY ToldStep
<1>3. Inv /\ ToldOK => ReportIsTheRow
  <2> SUFFICES ASSUME Inv, ToldOK, lock = Nobody, NEW i \in Ids, Known(rows, i), About(rows[i].oid) # {},
                      AnsweredInTime(rows[i].oid)
               PROVE  LET m == reports[Max(About(rows[i].oid))] IN Tells(m, i, rows[i])
    BY DEF ReportIsTheRow, Tells
  <2>1. \A c \in Callers : ~Busy(c)
    BY Constants DEF Inv, LockOK
  <2>2. RowTold(i, rows[i])
    BY <2>1 DEF ToldOK
  <2> QED
    BY <2>2 DEF RowTold, LastTells
<1> QED
  BY <1>1, <1>2, <1>3, InvHolds, PTL DEF Spec
=============================================================================
