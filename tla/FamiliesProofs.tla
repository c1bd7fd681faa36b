--------------------------- MODULE FamiliesProofs ---------------------------
(***************************************************************************)
(* What holds of the families for any callers and bounds: an ID means the    *)
(* same terms to both sides, and both have the same chains once requests     *)
(* made one at a time are over.                                             *)
(***************************************************************************)
EXTENDS Families, SequenceTheorems, WellFoundedInduction, TLAPS

Statuses == {"Sent", "Active", "Failed", "Canceled", "Unsubscribed", "Accepted", "Rejected", "PendingNew"}
GotRow == [id : Nat, status : Statuses, terms : Nat, slot : {"none", "New", "R", "C"}, pending : Nat, parked : Nat,
           count : Nat]
SentRow == {row \in GotRow : row.slot # "New"}
There == [trans : {"N", "R", "C"}, id : Nat, ref : Nat, terms : Nat]
Back == [trans : {"accepted", "rejected", "quote request"}, id : Nat, ref : {0}, terms : {0}]

Sends == [step : {"send"}, at : Nat, m : There, back : SentRow]
Requests == [step : {"request"}, at : Nat, was : SentRow, trans : {"R", "C"}, id : Nat]
AnswersOf == [step : {"answer"}, at : Nat, was : SentRow, m : Back, isNamed : BOOLEAN]
Links == [step : {"link", "close"}, at : Nat, was : GotRow]
Asks == [step : {"ask"}, id : Nat]
Works == {Rest} \cup Sends \cup Requests \cup AnswersOf \cup Links \cup Asks

TypeOK ==
    /\ family \in Kinds /\ minted \in Nat /\ calm \in BOOLEAN
    /\ sent \in Seq(SentRow) /\ got \in Seq(GotRow)
    /\ there \in Seq(There) /\ back \in Seq(Back)
    /\ work \in [Tasks -> Works]

-----------------------------------------------------------------------------
(* The newest row with an ID.                                               *)

\* Every set of numbers that is not empty has a least one.
LEMMA LeastOf ==
  ASSUME NEW T, T \subseteq Nat, T # {}
  PROVE  \E x \in T : \A y \in T : x <= y
<1>1. PICK x \in T : \A y \in T : ~ (<< y, x >> \in OpToRel(<, Nat))
  BY NatLessThanWellFounded, WFMin, Zenon
<1>2. ASSUME NEW y \in T PROVE x <= y
  <2>1. ~ (y < x)
    BY <1>1, Zenon DEF OpToRel
  <2> QED BY <2>1
<1> QED BY <1>2

\* A set of places in a sequence has a last one.
LEMMA LastOf ==
  ASSUME NEW N \in Nat, NEW T, T \subseteq 1 .. N, T # {}
  PROVE  Max(T) \in T /\ \A x \in T : x <= Max(T)
<1> DEFINE U == {N - n : n \in T}
<1>1. \E u \in U : \A v \in U : u <= v
  <2>0. \A n \in 1 .. N : N - n \in Nat
    OBVIOUS
  <2>1. U \subseteq Nat /\ U # {}
    BY <2>0
  <2> HIDE DEF U
  <2> QED
    BY <2>1, LeastOf
<1>2. PICK x \in T : \A v \in U : N - x <= v
  BY <1>1
<1>3. \A y \in T : x >= y
  <2> TAKE y \in T
  <2>1. N - y \in U
    OBVIOUS
  <2>2. N - x <= N - y /\ x \in Int /\ y \in Int
    BY <1>2, <2>1
  <2> QED
    BY <2>2
<1>4. Max(T) \in T /\ \A y \in T : Max(T) >= y
  BY <1>3, Zenon DEF Max
<1> QED
  BY <1>4

\* _find_family_row finds the last row with the ID, if there is one.
LEMMA FindIs ==
  ASSUME NEW S, NEW rows \in Seq(S), NEW id
  PROVE  /\ Find(rows, id) \in 0 .. Len(rows)
         /\ Find(rows, id) # 0 => Find(rows, id) \in DOMAIN rows /\ rows[Find(rows, id)].id = id
         /\ \A i \in DOMAIN rows : rows[i].id = id => i <= Find(rows, id)
<1> DEFINE I == {i \in 1 .. Len(rows) : rows[i].id = id}
<1>1. Find(rows, id) = IF I # {} THEN Max(I) ELSE 0
  BY DEF Find, SelectLastInSeq
<1>2. Len(rows) \in Nat /\ DOMAIN rows = 1 .. Len(rows) /\ I \subseteq 1 .. Len(rows)
  OBVIOUS
<1>3. I # {} => Max(I) \in I /\ \A i \in I : i <= Max(I)
  <2> HIDE DEF I
  <2> QED
    BY <1>2, LastOf
<1> QED
  BY <1>1, <1>2, <1>3

\* The row whose slot an Ack answers.
LEMMA PendingIs ==
  ASSUME sent \in Seq(SentRow), NEW id
  PROVE  /\ Pending(id) \in 0 .. Len(sent)
         /\ Pending(id) # 0 => /\ Pending(id) \in DOMAIN sent
                               /\ sent[Pending(id)].pending = id /\ sent[Pending(id)].slot # "none"
         /\ \A i \in DOMAIN sent : sent[i].pending = id /\ sent[i].slot # "none" => i <= Pending(id)
<1> DEFINE I == {i \in 1 .. Len(sent) : sent[i].pending = id /\ sent[i].slot # "none"}
<1>1. Pending(id) = IF I # {} THEN Max(I) ELSE 0
  BY DEF Pending, SelectLastInSeq
<1>2. Len(sent) \in Nat /\ DOMAIN sent = 1 .. Len(sent)
  <2> HIDE DEF I
  <2>1. PICK rows \in Seq(SentRow) : rows = sent
    OBVIOUS
  <2>2. Len(rows) \in Nat /\ DOMAIN rows = 1 .. Len(rows)
    OBVIOUS
  <2> QED
    BY <2>1, <2>2
<1>4. I \subseteq 1 .. Len(sent)
  OBVIOUS
<1>3. I # {} => Max(I) \in I /\ \A i \in I : i <= Max(I)
  <2> HIDE DEF I
  <2> QED
    BY <1>2, <1>4, LastOf
<1> QED
  <2>1. I = {} => \A i \in DOMAIN sent : ~(sent[i].pending = id /\ sent[i].slot # "none")
    BY <1>2
  <2>2. \A i \in I : i \in 1 .. Len(sent) /\ sent[i].pending = id /\ sent[i].slot # "none"
    OBVIOUS
  <2>3. \A i \in 1 .. Len(sent) : sent[i].pending = id /\ sent[i].slot # "none" => i \in I
    OBVIOUS
  <2> HIDE DEF I
  <2>4. CASE I = {}
    <3>1. Pending(id) = 0
      BY <1>1, <2>4
    <3>2. 0 \in 0 .. Len(sent)
      BY <1>2
    <3>3. ASSUME NEW i \in DOMAIN sent, sent[i].pending = id, sent[i].slot # "none" PROVE i <= Pending(id)
      BY <3>3, <2>1, <2>4, Zenon
    <3> QED
      BY <3>1, <3>2, <3>3, Zenon
  <2>5. CASE I # {}
    <3>1. Pending(id) = Max(I)
      BY <1>1, <2>5
    <3> HIDE DEF Pending
    <3> QED
      BY <3>1, <1>2, <1>3, <2>2, <2>3, <2>5
  <2> QED
    BY <2>4, <2>5

-----------------------------------------------------------------------------
(* Rows.                                                                    *)

\* What the code makes of a row is a row.
LEMMA NewRows ==
  ASSUME NEW id \in Nat, NEW status \in Statuses, NEW slot \in {"none", "New", "R", "C"}
  PROVE  /\ NewRow(id, status, slot) \in GotRow
         /\ slot # "New" => NewRow(id, status, slot) \in SentRow
         /\ NewRow(id, status, slot).id = id /\ NewRow(id, status, slot).terms = id
         /\ NewRow(id, status, slot).slot = slot
BY DEF NewRow, GotRow, SentRow

\* Two rows with the same columns are the same.
LEMMA SameRow ==
  ASSUME NEW a \in GotRow, NEW b \in GotRow, a.id = b.id, a.status = b.status, a.terms = b.terms, a.slot = b.slot,
         a.pending = b.pending, a.parked = b.parked, a.count = b.count
  PROVE  a = b
BY DEF GotRow

LEMMA StatusSet ==
  ASSUME NEW row \in GotRow, NEW status \in Statuses
  PROVE  LET new == [row EXCEPT !.status = status]
         IN  /\ new \in GotRow /\ (row \in SentRow => new \in SentRow)
             /\ new.id = row.id /\ new.terms = row.terms /\ new.slot = row.slot /\ new.pending = row.pending
             /\ new.parked = row.parked /\ new.count = row.count
BY DEF GotRow, SentRow

LEMMA PromotedIs ==
  ASSUME NEW row \in GotRow
  PROVE  /\ Promoted(row) \in SentRow /\ Promoted(row).id = row.pending /\ Promoted(row).slot = "none"
         /\ Promoted(row).terms = IF row.slot = "R" THEN row.parked ELSE row.terms
BY DEF GotRow, SentRow, Promoted, Statuses

LEMMA ClearedIs ==
  ASSUME NEW row \in GotRow
  PROVE  /\ Cleared(row) \in SentRow /\ Cleared(row).id = row.id /\ Cleared(row).slot = "none"
         /\ Cleared(row).terms = row.terms
BY DEF GotRow, SentRow, Cleared

LEMMA ParkedIs ==
  ASSUME NEW row \in GotRow, NEW m \in There, m.trans # "N"
  PROVE  /\ Parked(row, m) \in GotRow /\ Parked(row, m).id = row.id /\ Parked(row, m).terms = row.terms
         /\ Parked(row, m).slot = m.trans /\ Parked(row, m).pending = m.id /\ Parked(row, m).parked = m.terms
BY DEF GotRow, There, Parked

LEMMA FreshIs ==
  ASSUME NEW m \in There
  PROVE  Fresh(m) \in GotRow /\ Fresh(m).id = m.id /\ Fresh(m).terms = m.terms /\ Fresh(m).slot = "none"
BY DEF GotRow, There, Fresh, WithTerms, NewRow, Statuses

LEMMA RequestedIs ==
  ASSUME NEW w \in Requests, family \in {"ioi", "advert", "allocation", "rfq_request"}
  PROVE  /\ Requested(w) \in SentRow
         /\ family = "allocation" =>
               /\ Requested(w).id = w.was.id /\ Requested(w).terms = w.was.terms
               /\ Requested(w).slot = w.trans /\ Requested(w).pending = w.id /\ Requested(w).parked = w.id
         /\ family = "rfq_request" =>
               /\ Requested(w).id = w.was.id /\ Requested(w).terms = w.was.terms
               /\ Requested(w).slot = w.was.slot /\ Requested(w).pending = w.was.pending
               /\ Requested(w).parked = w.was.parked
         /\ family \in {"ioi", "advert"} =>
               /\ Requested(w).id = w.id /\ Requested(w).terms = (IF w.trans = "R" THEN w.id ELSE w.was.terms)
               /\ Requested(w).slot = w.was.slot /\ Requested(w).pending = w.was.pending
               /\ Requested(w).parked = w.was.parked
<1>1. w.was \in SentRow /\ w.was \in GotRow /\ w.trans \in {"R", "C"} /\ w.id \in Nat
  BY DEF Requests, SentRow
<1>2. PICK was : was = w.was
  OBVIOUS
<1>3. CASE family = "allocation"
  <2>1. Requested(w) = [was EXCEPT !.slot = w.trans, !.pending = w.id, !.parked = w.id]
    BY <1>2, <1>3 DEF Requested
  <2> QED
    BY <1>1, <1>2, <1>3, <2>1 DEF SentRow, GotRow
<1>4. CASE family = "rfq_request"
  <2>1. Requested(w) = [was EXCEPT !.status = "Unsubscribed"]
    BY <1>2, <1>4 DEF Requested
  <2> QED
    BY <1>1, <1>2, <1>4, <2>1 DEF SentRow, GotRow, Statuses
<1>5. CASE family \in {"ioi", "advert"} /\ w.trans = "R"
  <2>1. Requested(w) = [was EXCEPT !.id = w.id, !.terms = w.id, !.status = "Active"]
    BY <1>2, <1>5 DEF Requested
  <2> QED
    BY <1>1, <1>2, <1>5, <2>1 DEF SentRow, GotRow, Statuses
<1>6. CASE family \in {"ioi", "advert"} /\ w.trans # "R"
  <2>1. Requested(w) = [was EXCEPT !.id = w.id, !.status = "Canceled"]
    BY <1>2, <1>6 DEF Requested
  <2> QED
    BY <1>1, <1>2, <1>6, <2>1 DEF SentRow, GotRow, Statuses
<1> QED
  BY <1>3, <1>4, <1>5, <1>6

\* What an answer makes of the row it was loaded for.
LEMMA AnsweredIs ==
  ASSUME NEW w \in AnswersOf, family \in {"ioi", "advert", "allocation", "rfq_request"}
  PROVE  /\ Answered(w) \in SentRow
         /\ \/ Answered(w) = Promoted(w.was) /\ family = "allocation" /\ ~w.isNamed
            \/ Answered(w) = Cleared(w.was)
            \/ /\ Answered(w).id = w.was.id /\ Answered(w).terms = w.was.terms /\ Answered(w).slot = w.was.slot
               /\ Answered(w).pending = w.was.pending /\ Answered(w).parked = w.was.parked
<1>1. w.was \in SentRow /\ w.was \in GotRow /\ w.isNamed \in BOOLEAN
  BY DEF AnswersOf, SentRow
<1>2. PICK was : was = w.was
  OBVIOUS
<1>3. CASE family = "rfq_request"
  <2>1. Answered(w) = [was EXCEPT !.count = @ + 1]
    BY <1>2, <1>3 DEF Answered
  <2> QED
    BY <1>1, <1>2, <2>1 DEF SentRow, GotRow
<1>4. CASE family = "allocation" /\ w.isNamed
  <2>1. PICK status \in Statuses : Answered(w) = [was EXCEPT !.status = status]
    BY <1>2, <1>4 DEF Answered, Statuses
  <2>2. Answered(w) \in SentRow
    BY <1>1, <1>2, <2>1 DEF SentRow, GotRow
  <2> QED
    BY <1>1, <1>2, <2>1, <2>2 DEF SentRow, GotRow
<1>5. CASE family = "allocation" /\ ~w.isNamed
  <2>1. \/ Answered(w) = Promoted(was)
        \/ Answered(w) = Cleared(was)
    BY <1>2, <1>5 DEF Answered
  <2> QED
    BY <1>1, <1>2, <1>5, <2>1, PromotedIs, ClearedIs
<1>6. CASE family \in {"ioi", "advert"}
  <2>1. Answered(w) = Cleared(was)
    BY <1>2, <1>6 DEF Answered
  <2> QED
    BY <1>1, <1>2, <2>1, ClearedIs
<1> QED
  BY <1>1, <1>3, <1>4, <1>5, <1>6

-----------------------------------------------------------------------------
(* Tables and channels, by what is in them.                                 *)

\* A row or a message put behind the others.
LEMMA AppendIs ==
  ASSUME NEW S, NEW s \in Seq(S), NEW v \in S
  PROVE  /\ Append(s, v) \in Seq(S) /\ Range(Append(s, v)) = Range(s) \cup {v}
         /\ Len(Append(s, v)) = Len(s) + 1
<1>1. Append(s, v) \in Seq(S) /\ Len(Append(s, v)) = Len(s) + 1 /\ Append(s, v)[Len(s) + 1] = v
      /\ \A i \in 1 .. Len(s) : Append(s, v)[i] = s[i]
  OBVIOUS
<1>2. DOMAIN Append(s, v) = 1 .. (Len(s) + 1) /\ DOMAIN s = 1 .. Len(s) /\ Len(s) \in Nat
  OBVIOUS
<1>3. \A i \in 1 .. (Len(s) + 1) : i \in 1 .. Len(s) \/ i = Len(s) + 1
  BY <1>2
<1>4. \A i \in 1 .. Len(s) : i \in 1 .. (Len(s) + 1)
  BY <1>2
<1>5. Len(s) + 1 \in 1 .. (Len(s) + 1)
  BY <1>2
<1>6. Range(Append(s, v)) \subseteq Range(s) \cup {v}
  BY <1>1, <1>2, <1>3 DEF Range
<1>7. Range(s) \subseteq Range(Append(s, v))
  BY <1>1, <1>2, <1>4 DEF Range
<1>8. v \in Range(Append(s, v))
  BY <1>1, <1>2, <1>5 DEF Range
<1> QED
  BY <1>1, <1>6, <1>7, <1>8

\* A row written over another.
LEMMA WriteIs ==
  ASSUME NEW S, NEW s \in Seq(S), NEW v \in S, NEW k
  PROVE  [s EXCEPT ![k] = v] \in Seq(S) /\ Range([s EXCEPT ![k] = v]) \subseteq Range(s) \cup {v}
<1>1. [s EXCEPT ![k] = v] \in Seq(S)
  <2>1. CASE k \in 1 .. Len(s)
    BY <2>1, ExceptSeq
  <2>2. CASE k \notin 1 .. Len(s)
    <3>1. [s EXCEPT ![k] = v] = s
      BY <2>2
    <3> QED
      BY <3>1
  <2> QED
    BY <2>1, <2>2
<1>2. DOMAIN [s EXCEPT ![k] = v] = DOMAIN s /\ \A i \in DOMAIN s : [s EXCEPT ![k] = v][i] \in {s[i], v}
  OBVIOUS
<1> QED
  BY <1>1, <1>2 DEF Range

\* The message read, and those behind it.
LEMMA TailIs ==
  ASSUME NEW S, NEW s \in Seq(S), s # << >>
  PROVE  /\ Head(s) \in S /\ Head(s) \in Range(s)
         /\ Tail(s) \in Seq(S) /\ Range(Tail(s)) \subseteq Range(s)
<1>1. Head(s) = s[1] /\ 1 \in DOMAIN s /\ s[1] \in S /\ Tail(s) \in Seq(S)
  OBVIOUS
<1>2. \A i \in DOMAIN Tail(s) : Tail(s)[i] = s[i + 1] /\ i + 1 \in DOMAIN s
  OBVIOUS
<1> QED
  BY <1>1, <1>2 DEF Range

\* What a table holds is in it.
LEMMA InTable ==
  ASSUME NEW S, NEW s \in Seq(S)
  PROVE  /\ \A i \in DOMAIN s : s[i] \in Range(s) /\ s[i] \in S
         /\ \A v \in Range(s) : v \in S
         /\ Len(s) \in Nat /\ DOMAIN s = 1 .. Len(s)
<1>1. \A i \in DOMAIN s : s[i] \in S
  OBVIOUS
<1> QED
  BY <1>1 DEF Range

\* What a task holds is told by its step.
LEMMA WorkIs ==
  ASSUME NEW w \in Works
  PROVE  /\ w.step = "send" => w \in Sends
         /\ w.step = "request" => w \in Requests
         /\ w.step = "answer" => w \in AnswersOf
         /\ w.step \in {"link", "close"} => w \in Links
         /\ w.step = "ask" => w \in Asks
         /\ w.step = "idle" => w = Rest
BY DEF Works, Sends, Requests, AnswersOf, Links, Asks, Rest

-----------------------------------------------------------------------------
(* What an ID means: the terms the request that minted it carried.          *)

\* The row's ID, and the one in its slot, mean the terms it would have under them.
Means(T, n, f, row) ==
    /\ row.id \in 0 .. n /\ T[row.id] = row.terms
    /\ f # "allocation" => row.slot = "none"
    /\ row.slot = "R" => row.pending \in 0 .. n /\ T[row.pending] = row.parked
    /\ row.slot = "C" => row.pending \in 0 .. n /\ T[row.pending] = row.terms

\* A message's ID means its terms; a Cancel's are those of the ID it names.
Says(T, n, m) ==
    /\ m.id \in 0 .. n /\ T[m.id] = m.terms
    /\ m.trans = "C" => m.ref \in 0 .. n /\ T[m.ref] = m.terms

\* What a task holds, of a row it loaded.
Holds(T, n, f, w) ==
    /\ w.step = "send" => Says(T, n, w.m) /\ Means(T, n, f, w.back)
    /\ w.step = "request" => Means(T, n, f, w.was) /\ w.id \in 0 .. n /\ T[w.id] = TermsOf(w)
    /\ w.step = "answer" => Means(T, n, f, w.was) /\ (f = "allocation" /\ ~w.isNamed => w.was.slot \in {"R", "C"})
    /\ w.step \in {"link", "close"} => Means(T, n, f, w.was)

Agrees(T) ==
    /\ T \in [Nat -> Nat]
    /\ family = "rfq_request" => \A n \in Nat : T[n] = n
    /\ \A row \in Range(sent) \cup Range(got) : Means(T, minted, family, row)
    /\ \A m \in Range(there) : Says(T, minted, m)
    /\ \A t \in Tasks : Holds(T, minted, family, work[t])

IInv == TypeOK /\ \E T : Agrees(T)

\* What held of the IDs minted holds when there are more.
LEMMA MeansOn ==
  ASSUME NEW T \in [Nat -> Nat], NEW T2 \in [Nat -> Nat], NEW n \in Nat, NEW n2 \in Nat, n <= n2,
         \A k \in 0 .. n : T2[k] = T[k]
  PROVE  /\ \A row \in GotRow : \A f : Means(T, n, f, row) => Means(T2, n2, f, row)
         /\ \A m \in There : Says(T, n, m) => Says(T2, n2, m)
         /\ \A w \in Works : \A f : Holds(T, n, f, w) => Holds(T2, n2, f, w)
<1>0. \A k \in 0 .. n : k \in 0 .. n2
  OBVIOUS
<1>1. ASSUME NEW row \in GotRow, NEW f, Means(T, n, f, row) PROVE Means(T2, n2, f, row)
  BY <1>0, <1>1 DEF Means
<1>2. ASSUME NEW m \in There, Says(T, n, m) PROVE Says(T2, n2, m)
  BY <1>0, <1>2 DEF Says
<1>3. ASSUME NEW w \in Works, NEW f, Holds(T, n, f, w) PROVE Holds(T2, n2, f, w)
  <2>1. /\ w.step = "send" => w.m \in There /\ w.back \in GotRow
        /\ w.step \in {"request", "answer", "link", "close"} => w.was \in GotRow
    BY WorkIs DEF Sends, Requests, AnswersOf, Links, SentRow
  <2>2. w.step = "send" => Says(T2, n2, w.m) /\ Means(T2, n2, f, w.back)
    BY <2>1, <1>1, <1>2, <1>3 DEF Holds
  <2>3. w.step \in {"request", "answer", "link", "close"} => Means(T2, n2, f, w.was)
    BY <2>1, <1>1, <1>3 DEF Holds
  <2>4. w.step = "request" => w.id \in 0 .. n2 /\ T2[w.id] = TermsOf(w)
    BY <1>0, <1>3 DEF Holds
  <2> QED
    BY <2>2, <2>3, <2>4, <1>3 DEF Holds
<1> QED
  BY <1>1, <1>2, <1>3

\* A step that mints IDs up to n, and writes, sends and loads only what agrees.
LEMMA Agreeing ==
  ASSUME TypeOK, NEW T, Agrees(T), NEW T2 \in [Nat -> Nat], NEW n \in Nat,
         family' = family, minted' = n, minted <= n, \A k \in 0 .. minted : T2[k] = T[k],
         family = "rfq_request" => \A k \in Nat : T2[k] = k,
         calm' \in BOOLEAN, sent' \in Seq(SentRow), got' \in Seq(GotRow), there' \in Seq(There), back' \in Seq(Back),
         work' \in [Tasks -> Works],
         \A row \in Range(sent') \cup Range(got') :
            row \in Range(sent) \cup Range(got) \/ Means(T2, n, family, row),
         \A m \in Range(there') : m \in Range(there) \/ Says(T2, n, m),
         \A t \in Tasks : work'[t] = work[t] \/ Holds(T2, n, family, work'[t])
  PROVE  IInv'
<1>1. TypeOK'
  BY DEF TypeOK
<1>2. /\ T \in [Nat -> Nat] /\ minted \in Nat
      /\ \A row \in Range(sent) \cup Range(got) : row \in GotRow /\ Means(T, minted, family, row)
      /\ \A m \in Range(there) : m \in There /\ Says(T, minted, m)
      /\ \A t \in Tasks : work[t] \in Works /\ Holds(T, minted, family, work[t])
  BY InTable DEF TypeOK, Agrees, SentRow
<1>3. PICK n0 \in Nat : n0 = minted
  BY <1>2
<1>4. /\ \A row \in GotRow : \A f : Means(T, n0, f, row) => Means(T2, n, f, row)
      /\ \A m \in There : Says(T, n0, m) => Says(T2, n, m)
      /\ \A w \in Works : \A f : Holds(T, n0, f, w) => Holds(T2, n, f, w)
  BY <1>2, <1>3, MeansOn
<1>5. \A row \in Range(sent') \cup Range(got') : Means(T2, n, family, row)
  BY <1>2, <1>3, <1>4
<1>6. \A m \in Range(there') : Says(T2, n, m)
  BY <1>2, <1>3, <1>4
<1>7. \A t \in Tasks : Holds(T2, n, family, work'[t])
  BY <1>2, <1>3, <1>4
<1>8. Agrees(T2)'
  BY <1>5, <1>6, <1>7 DEF Agrees
<1> QED
  BY <1>1, <1>8 DEF IInv

\* A step that mints none.
LEMMA Keeping ==
  ASSUME TypeOK, NEW T, Agrees(T),
         family' = family, minted' = minted,
         calm' \in BOOLEAN, sent' \in Seq(SentRow), got' \in Seq(GotRow), there' \in Seq(There), back' \in Seq(Back),
         work' \in [Tasks -> Works],
         \A row \in Range(sent') \cup Range(got') :
            row \in Range(sent) \cup Range(got) \/ Means(T, minted, family, row),
         \A m \in Range(there') : m \in Range(there) \/ Says(T, minted, m),
         \A t \in Tasks : work'[t] = work[t] \/ Holds(T, minted, family, work'[t])
  PROVE  IInv'
<1>1. PICK n \in Nat : n = minted
  BY DEF TypeOK
<1>2. T \in [Nat -> Nat] /\ (family = "rfq_request" => \A k \in Nat : T[k] = k)
  BY DEF Agrees
<1>3. minted' = n /\ minted <= n /\ \A k \in 0 .. minted : T[k] = T[k]
  BY <1>1
<1>4. /\ \A row \in Range(sent') \cup Range(got') :
            row \in Range(sent) \cup Range(got) \/ Means(T, n, family, row)
      /\ \A m \in Range(there') : m \in Range(there) \/ Says(T, n, m)
      /\ \A t \in Tasks : work'[t] = work[t] \/ Holds(T, n, family, work'[t])
  BY <1>1
<1> QED
  BY <1>2, <1>3, <1>4, Agreeing

\* What a task has in hand, once it has changed.
LEMMA Doing ==
  ASSUME TypeOK, NEW t \in Tasks, NEW w \in Works, Does(t, w)
  PROVE  work' \in [Tasks -> Works] /\ work'[t] = w /\ \A u \in Tasks \ {t} : work'[u] = work[u]
BY DEF TypeOK, Does

\* A meaning given to one more ID.
LEMMA OneMore ==
  ASSUME NEW T \in [Nat -> Nat], NEW n \in Nat, NEW x \in Nat
  PROVE  [T EXCEPT ![n] = x] \in [Nat -> Nat] /\ [T EXCEPT ![n] = x][n] = x
         /\ \A k \in Nat \ {n} : [T EXCEPT ![n] = x][k] = T[k]
OBVIOUS

-----------------------------------------------------------------------------
(* The steps of the sending side.                                           *)

LEMMA SendAgrees ==
  ASSUME TypeOK, NEW T, Agrees(T), family' = family, NEW c \in Callers, Send(c)
  PROVE  IInv'
<1>1. PICK n \in Nat : n = minted + 1 /\ minted' = n
  BY DEF TypeOK, Send
<1> DEFINE row == NewRow(n, FirstStatus, "none")
           w == [step |-> "send", at |-> Len(sent'), m |-> Msg("N", n, 0, n), back |-> [row EXCEPT !.status = "Failed"]]
           T2 == [T EXCEPT ![n] = n]
<1>2. sent' = Append(sent, row) /\ Does(c, w) /\ calm' = (calm /\ Over)
      /\ got' = got /\ there' = there /\ back' = back
  BY <1>1 DEF Send
<1>3. FirstStatus \in Statuses
  BY DEF FirstStatus, Statuses
<1>4. row \in SentRow /\ row.id = n /\ row.terms = n /\ row.slot = "none"
  BY <1>3, NewRows
<1> HIDE DEF row
<1>5. [row EXCEPT !.status = "Failed"] \in SentRow
      /\ [row EXCEPT !.status = "Failed"].id = n /\ [row EXCEPT !.status = "Failed"].terms = n
      /\ [row EXCEPT !.status = "Failed"].slot = "none"
  BY <1>4 DEF SentRow, GotRow, Statuses
<1>6. Msg("N", n, 0, n) \in There /\ Msg("N", n, 0, n).id = n /\ Msg("N", n, 0, n).terms = n
      /\ Msg("N", n, 0, n).trans = "N"
  BY DEF Msg, There
<1>7. sent \in Seq(SentRow) /\ got \in Seq(GotRow) /\ there \in Seq(There) /\ back \in Seq(Back) /\ minted \in Nat
      /\ calm \in BOOLEAN
  BY DEF TypeOK
<1>8. sent' \in Seq(SentRow) /\ Range(sent') = Range(sent) \cup {row} /\ Len(sent') \in Nat
  BY <1>2, <1>4, <1>7, AppendIs, InTable
<1>9. w \in Sends /\ w.step = "send" /\ w.m = Msg("N", n, 0, n) /\ w.back = [row EXCEPT !.status = "Failed"]
  BY <1>5, <1>6, <1>8 DEF Sends
<1>10. w \in Works
  BY <1>9 DEF Works
<1> HIDE DEF w
<1>11. work' \in [Tasks -> Works] /\ work'[c] = w /\ \A u \in Tasks \ {c} : work'[u] = work[u]
  BY <1>2, <1>10, Doing DEF Tasks
<1>12. T \in [Nat -> Nat] /\ (family = "rfq_request" => \A k \in Nat : T[k] = k)
  BY DEF Agrees
<1>13. T2 \in [Nat -> Nat] /\ T2[n] = n /\ minted <= n /\ (\A k \in 0 .. minted : T2[k] = T[k])
       /\ (family = "rfq_request" => \A k \in Nat : T2[k] = k) /\ n \in 0 .. n
  <2>1. n \in Nat /\ minted \in Nat /\ minted <= n /\ n \in 0 .. n /\ \A k \in 0 .. minted : k \in Nat \ {n}
    BY <1>1, <1>7
  <2>2. T2 \in [Nat -> Nat] /\ T2[n] = n /\ \A k \in Nat \ {n} : T2[k] = T[k]
    BY <2>1, <1>12, OneMore
  <2> HIDE DEF T2
  <2> QED
    BY <2>1, <2>2, <1>12
<1> HIDE DEF T2
<1>14. Means(T2, n, family, row)
  BY <1>4, <1>13 DEF Means
<1>15. Holds(T2, n, family, w)
  <2>1. Says(T2, n, w.m)
    BY <1>6, <1>9, <1>13 DEF Says
  <2>2. Means(T2, n, family, w.back)
    BY <1>5, <1>9, <1>13 DEF Means
  <2> QED
    BY <2>1, <2>2, <1>9 DEF Holds
<1>16. calm' \in BOOLEAN
  BY <1>2, <1>7, Zenon DEF Over, Idle
<1>17. \A t \in Tasks : work'[t] = work[t] \/ Holds(T2, n, family, work'[t])
  BY <1>11, <1>15
<1>18. \A x \in Range(sent') \cup Range(got') : x \in Range(sent) \cup Range(got) \/ Means(T2, n, family, x)
  BY <1>2, <1>8, <1>14
<1>19. \A m \in Range(there') : m \in Range(there) \/ Says(T2, n, m)
  BY <1>2
<1> QED
  BY <1>1, <1>2, <1>7, <1>8, <1>11, <1>13, <1>16, <1>17, <1>18, <1>19, Agreeing

LEMMA LoadAgrees ==
  ASSUME TypeOK, NEW T, Agrees(T), family' = family, NEW c \in Callers, Load(c)
  PROVE  IInv'
<1>1. PICK n \in Nat : n = minted + 1 /\ minted' = n
  BY DEF TypeOK, Load
<1>2. PICK i \in DOMAIN sent, trans \in {"R", "C"} :
        Does(c, [step |-> "request", at |-> i, was |-> sent[i], trans |-> trans, id |-> n])
  BY <1>1 DEF Load
<1>3. family # "rfq_request" /\ calm' = (calm /\ Over)
      /\ sent' = sent /\ got' = got /\ there' = there /\ back' = back
  BY DEF Load
<1>7. sent \in Seq(SentRow) /\ got \in Seq(GotRow) /\ there \in Seq(There) /\ back \in Seq(Back) /\ minted \in Nat
      /\ calm \in BOOLEAN
  BY DEF TypeOK
<1>4. PICK was \in SentRow : was = sent[i] /\ was \in Range(sent) /\ i \in Nat
  BY <1>2, <1>7, InTable
<1> DEFINE w == [step |-> "request", at |-> i, was |-> was, trans |-> trans, id |-> n]
           T2 == [T EXCEPT ![n] = TermsOf(w)]
<1>5. Does(c, w)
  BY <1>2, <1>4
<1>6. w \in Requests /\ w.step = "request" /\ w.was = was /\ w.id = n
  BY <1>4 DEF Requests
<1>8. w \in Works
  BY <1>6 DEF Works
<1>9. TermsOf(w) \in Nat
  BY <1>4, <1>6 DEF TermsOf, SentRow, GotRow
<1> HIDE DEF w
<1>11. work' \in [Tasks -> Works] /\ work'[c] = w /\ \A u \in Tasks \ {c} : work'[u] = work[u]
  BY <1>5, <1>8, Doing DEF Tasks
<1>12. T \in [Nat -> Nat] /\ Means(T, minted, family, was)
  BY <1>4 DEF Agrees
<1>13. T2 \in [Nat -> Nat] /\ T2[n] = TermsOf(w) /\ minted <= n /\ (\A k \in 0 .. minted : T2[k] = T[k]) /\ n \in 0 .. n
  <2>1. n \in Nat /\ minted \in Nat /\ minted <= n /\ n \in 0 .. n /\ \A k \in 0 .. minted : k \in Nat \ {n}
    BY <1>1, <1>7
  <2>2. T2 \in [Nat -> Nat] /\ T2[n] = TermsOf(w) /\ \A k \in Nat \ {n} : T2[k] = T[k]
    BY <2>1, <1>9, <1>12, OneMore
  <2> HIDE DEF T2
  <2> QED
    BY <2>1, <2>2
<1> HIDE DEF T2
<1>14. Means(T2, n, family, was)
  <2>1. PICK n0 \in Nat : n0 = minted
    BY <1>7
  <2>2. was \in GotRow
    BY DEF SentRow
  <2> QED
    BY <1>12, <1>13, <2>1, <2>2, MeansOn
<1>15. Holds(T2, n, family, w)
  BY <1>6, <1>13, <1>14 DEF Holds
<1>16. calm' \in BOOLEAN
  BY <1>3, <1>7, Zenon DEF Over, Idle
<1>17. \A t \in Tasks : work'[t] = work[t] \/ Holds(T2, n, family, work'[t])
  BY <1>11, <1>15
<1> QED
  BY <1>1, <1>3, <1>7, <1>11, <1>13, <1>16, <1>17, Agreeing

LEMMA LoadUnsubscribeAgrees ==
  ASSUME TypeOK, NEW T, Agrees(T), family' = family, NEW c \in Callers, LoadUnsubscribe(c)
  PROVE  IInv'
<1>1. PICK n \in Nat : n = minted + 1 /\ minted' = n /\ minted <= n
  BY DEF TypeOK, LoadUnsubscribe
<1>2. PICK i \in DOMAIN sent :
        Does(c, [step |-> "request", at |-> i, was |-> sent[i], trans |-> "C", id |-> sent[i].id])
  BY DEF LoadUnsubscribe
<1>3. family = "rfq_request" /\ calm' = (calm /\ Over)
      /\ sent' = sent /\ got' = got /\ there' = there /\ back' = back
  BY DEF LoadUnsubscribe
<1>4. sent \in Seq(SentRow) /\ got \in Seq(GotRow) /\ there \in Seq(There) /\ back \in Seq(Back) /\ minted \in Nat
      /\ calm \in BOOLEAN
  BY DEF TypeOK
<1>5. PICK was \in SentRow : was = sent[i] /\ was \in Range(sent) /\ i \in Nat
  BY <1>2, <1>4, InTable
<1> DEFINE w == [step |-> "request", at |-> i, was |-> was, trans |-> "C", id |-> was.id]
<1>6. Does(c, w) /\ was.id \in Nat
  BY <1>2, <1>5 DEF SentRow, GotRow
<1>7. w \in Requests /\ w.step = "request" /\ w.was = was /\ w.id = was.id /\ w.trans = "C"
  BY <1>5, <1>6 DEF Requests
<1>8. w \in Works
  BY <1>7 DEF Works
<1> HIDE DEF w
<1>9. work' \in [Tasks -> Works] /\ work'[c] = w /\ \A u \in Tasks \ {c} : work'[u] = work[u]
  BY <1>6, <1>8, Doing DEF Tasks
<1>10. PICK n0 \in Nat : n0 = minted
  BY <1>4
<1>11. T \in [Nat -> Nat] /\ Means(T, n0, family, was) /\ \A k \in Nat : T[k] = k
  BY <1>3, <1>5, <1>10 DEF Agrees
<1>12. Means(T, n, family, was)
  <2>1. was \in GotRow /\ n0 <= n /\ \A k \in 0 .. n0 : T[k] = T[k]
    BY <1>1, <1>10 DEF SentRow
  <2> QED
    BY <1>11, <2>1, MeansOn
<1>13. Holds(T, n, family, w)
  <2>1. was.id \in 0 .. n /\ T[was.id] = was.terms
    BY <1>12 DEF Means
  <2> QED
    BY <1>7, <1>12, <2>1 DEF Holds, TermsOf
<1>14. calm' \in BOOLEAN
  BY <1>3, <1>4, Zenon DEF Over, Idle
<1>15. \A t \in Tasks : work'[t] = work[t] \/ Holds(T, n, family, work'[t])
  BY <1>9, <1>13
<1>16. \A k \in 0 .. minted : T[k] = T[k]
  OBVIOUS
<1> QED
  BY <1>1, <1>3, <1>4, <1>9, <1>11, <1>14, <1>15, <1>16, Agreeing

LEMMA RequestAgrees ==
  ASSUME TypeOK, NEW T, Agrees(T), family' = family, NEW c \in Callers, Request(c)
  PROVE  IInv'
<1>1. PICK w \in Requests : w = work[c]
  BY WorkIs DEF TypeOK, Request, Tasks
<1>2. PICK n \in Nat : n = minted
  BY DEF TypeOK
<1>3. w.was \in SentRow /\ w.trans \in {"R", "C"} /\ w.id \in Nat /\ w.at \in Nat /\ w.step = "request"
      /\ w.was \in GotRow
  BY DEF Requests, SentRow
<1> DEFINE m == Msg(w.trans, w.id, w.was.id, TermsOf(w))
           v == [step |-> "send", at |-> w.at, m |-> m, back |-> w.was]
<1>4. sent' = [sent EXCEPT ![w.at] = Requested(w)] /\ Does(c, v)
      /\ got' = got /\ there' = there /\ back' = back /\ minted' = minted /\ calm' = calm
  BY <1>1 DEF Request
<1>5. sent \in Seq(SentRow) /\ got \in Seq(GotRow) /\ there \in Seq(There) /\ back \in Seq(Back)
      /\ calm \in BOOLEAN /\ family \in {"ioi", "advert", "allocation", "rfq_request"}
  BY FamiliesAssumption DEF TypeOK
<1>6. Means(T, n, family, w.was) /\ w.id \in 0 .. n /\ T[w.id] = TermsOf(w)
  BY <1>1, <1>2, <1>3 DEF Agrees, Holds, Tasks
<1>7. TermsOf(w) = IF w.trans = "R" THEN w.id ELSE w.was.terms
  BY DEF TermsOf
<1>8. m \in There /\ m.id = w.id /\ m.terms = TermsOf(w) /\ m.trans = w.trans /\ m.ref = w.was.id
  BY <1>3, <1>7 DEF Msg, There, GotRow
<1> HIDE DEF m
<1>9. v \in Sends /\ v.step = "send" /\ v.m = m /\ v.back = w.was
  BY <1>3, <1>8 DEF Sends
<1>10. v \in Works
  BY <1>9 DEF Works
<1> HIDE DEF v
<1>11. work' \in [Tasks -> Works] /\ work'[c] = v /\ \A u \in Tasks \ {c} : work'[u] = work[u]
  BY <1>4, <1>10, Doing DEF Tasks
<1>12. Requested(w) \in SentRow
  BY <1>5, RequestedIs
<1>13. sent' \in Seq(SentRow) /\ Range(sent') \subseteq Range(sent) \cup {Requested(w)}
  BY <1>4, <1>5, <1>12, WriteIs
<1>14. Says(T, n, m)
  <2>1. m.trans = "C" => m.ref \in 0 .. n /\ T[m.ref] = m.terms
    BY <1>6, <1>7, <1>8 DEF Means
  <2> QED
    BY <1>6, <1>8, <2>1 DEF Says
<1>15. Means(T, n, family, Requested(w))
  <2>1. CASE family = "allocation"
    <3>1. /\ Requested(w).id = w.was.id /\ Requested(w).terms = w.was.terms
          /\ Requested(w).slot = w.trans /\ Requested(w).pending = w.id /\ Requested(w).parked = w.id
      BY <1>5, <2>1, RequestedIs
    <3> QED
      BY <3>1, <2>1, <1>3, <1>6, <1>7 DEF Means
  <2>2. CASE family = "rfq_request"
    <3>1. /\ Requested(w).id = w.was.id /\ Requested(w).terms = w.was.terms
          /\ Requested(w).slot = w.was.slot /\ Requested(w).pending = w.was.pending
          /\ Requested(w).parked = w.was.parked
      BY <1>5, <2>2, RequestedIs
    <3> QED
      BY <3>1, <2>2, <1>6 DEF Means
  <2>3. CASE family \in {"ioi", "advert"}
    <3>1. /\ Requested(w).id = w.id /\ Requested(w).terms = TermsOf(w) /\ Requested(w).slot = w.was.slot
      BY <1>5, <1>7, <2>3, RequestedIs
    <3> QED
      BY <3>1, <2>3, <1>6 DEF Means
  <2> QED
    BY <1>5, <2>1, <2>2, <2>3
<1>16. Holds(T, n, family, v)
  BY <1>6, <1>9, <1>14 DEF Holds
<1>17. \A t \in Tasks : work'[t] = work[t] \/ Holds(T, minted, family, work'[t])
  BY <1>2, <1>11, <1>16
<1>18. \A x \in Range(sent') \cup Range(got') : x \in Range(sent) \cup Range(got) \/ Means(T, minted, family, x)
  BY <1>2, <1>4, <1>13, <1>15
<1>19. \A x \in Range(there') : x \in Range(there) \/ Says(T, minted, x)
  BY <1>4
<1> QED
  BY <1>4, <1>5, <1>11, <1>13, <1>17, <1>18, <1>19, Keeping

LEMMA SendMessageAgrees ==
  ASSUME TypeOK, NEW T, Agrees(T), family' = family, NEW c \in Callers, SendMessage(c)
  PROVE  IInv'
<1>1. PICK w \in Sends : w = work[c]
  BY WorkIs DEF TypeOK, SendMessage, Tasks
<1>2. w.m \in There /\ w.back \in SentRow /\ w.step = "send"
  BY DEF Sends
<1>3. sent \in Seq(SentRow) /\ got \in Seq(GotRow) /\ there \in Seq(There) /\ back \in Seq(Back)
      /\ calm \in BOOLEAN
  BY DEF TypeOK
<1>4. Says(T, minted, w.m) /\ Means(T, minted, family, w.back)
  BY <1>1, <1>2 DEF Agrees, Holds, Tasks
<1>5. Rest \in Works /\ Does(c, Rest) /\ got' = got /\ back' = back /\ minted' = minted
  BY DEF SendMessage, Works
<1>6. \/ there' = Append(there, w.m) /\ sent' = sent /\ calm' = calm
      \/ sent' = [sent EXCEPT ![w.at] = w.back] /\ calm' = FALSE /\ there' = there
  BY <1>1 DEF SendMessage
<1>7. work' \in [Tasks -> Works] /\ work'[c] = Rest /\ \A u \in Tasks \ {c} : work'[u] = work[u]
  BY <1>5, Doing DEF Tasks
<1>8. Holds(T, minted, family, Rest)
  BY DEF Holds, Rest
<1>9. /\ sent' \in Seq(SentRow) /\ Range(sent') \subseteq Range(sent) \cup {w.back}
      /\ there' \in Seq(There) /\ Range(there') \subseteq Range(there) \cup {w.m}
  <2>1. CASE there' = Append(there, w.m) /\ sent' = sent
    <3>1. Append(there, w.m) \in Seq(There) /\ Range(Append(there, w.m)) = Range(there) \cup {w.m}
      BY <1>2, <1>3, AppendIs
    <3> QED
      BY <3>1, <2>1, <1>3
  <2>2. CASE sent' = [sent EXCEPT ![w.at] = w.back] /\ there' = there
    <3>1. sent' \in Seq(SentRow) /\ Range(sent') \subseteq Range(sent) \cup {w.back}
      BY <2>2, <1>2, <1>3, WriteIs
    <3> QED
      BY <3>1, <2>2, <1>3
  <2> QED
    BY <2>1, <2>2, <1>6
<1>10. calm' \in BOOLEAN
  BY <1>3, <1>6, Zenon
<1>11. \A t \in Tasks : work'[t] = work[t] \/ Holds(T, minted, family, work'[t])
  BY <1>7, <1>8
<1>12. \A x \in Range(sent') \cup Range(got') : x \in Range(sent) \cup Range(got) \/ Means(T, minted, family, x)
  BY <1>4, <1>5, <1>9
<1>13. \A x \in Range(there') : x \in Range(there) \/ Says(T, minted, x)
  BY <1>4, <1>9
<1> QED
  BY <1>3, <1>5, <1>7, <1>9, <1>10, <1>11, <1>12, <1>13, Keeping

-----------------------------------------------------------------------------
(* The steps of the receiving side.                                         *)

\* A message read, and a row of the receiver's written or not.
LEMMA Reading ==
  ASSUME TypeOK, NEW T, Agrees(T), family' = family, minted' = minted, there # << >>, there' = Tail(there),
         UNCHANGED << sent, work, calm >>, back' \in Seq(Back),
         NEW row \in GotRow, Means(T, minted, family, row), got' \in Seq(GotRow),
         Range(got') \subseteq Range(got) \cup {row}
  PROVE  IInv'
<1>1. sent \in Seq(SentRow) /\ there \in Seq(There) /\ calm \in BOOLEAN /\ work \in [Tasks -> Works]
  BY DEF TypeOK
<1>2. there' \in Seq(There) /\ \A m \in Range(there') : m \in Range(there)
  BY <1>1, TailIs
<1>3. sent' = sent /\ work' = work /\ calm' = calm
  OBVIOUS
<1>4. \A x \in Range(sent') \cup Range(got') : x \in Range(sent) \cup Range(got) \/ Means(T, minted, family, x)
  BY <1>3
<1> QED
  BY <1>1, <1>2, <1>3, <1>4, Keeping

\* The message read is one that agrees.
LEMMA HeadSays ==
  ASSUME TypeOK, NEW T, Agrees(T), there # << >>
  PROVE  Head(there) \in There /\ Says(T, minted, Head(there))
BY TailIs DEF TypeOK, Agrees

LEMMA ReceiveNoticeAgrees ==
  ASSUME TypeOK, NEW T, Agrees(T), family' = family, ReceiveNotice
  PROVE  IInv'
<1>1. there # << >> /\ there' = Tail(there) /\ family \in {"ioi", "advert"}
      /\ UNCHANGED << sent, back, work, minted, calm >>
  BY DEF ReceiveNotice, Reads
<1>2. PICK m \in There : m = Head(there) /\ Says(T, minted, m)
  BY <1>1, HeadSays
<1>3. PICK i : i = IF m.trans = "N" THEN 0 ELSE Find(got, m.ref)
  OBVIOUS
<1>4. IF i = 0 THEN got' = Append(got, Fresh(m))
      ELSE Puts(i, IF m.trans = "R" THEN Fresh(m) ELSE [got[i] EXCEPT !.id = m.id, !.status = "Canceled"])
  BY <1>2, <1>3 DEF ReceiveNotice
<1>5. got \in Seq(GotRow) /\ back \in Seq(Back)
  BY DEF TypeOK
<1>6. Fresh(m) \in GotRow /\ Means(T, minted, family, Fresh(m))
  BY <1>2, FreshIs DEF Means, Says
<1>7. CASE i = 0
  <2>1. got' \in Seq(GotRow) /\ Range(got') = Range(got) \cup {Fresh(m)}
    <3>1. got' = Append(got, Fresh(m))
      BY <1>4, <1>7
    <3> QED
      BY <3>1, <1>5, <1>6, AppendIs
  <2> QED
    BY <2>1, <1>1, <1>5, <1>6, Reading
<1>8. CASE i # 0 /\ m.trans = "R"
  <2>1. got' = [got EXCEPT ![i] = Fresh(m)]
    BY <1>4, <1>8 DEF Puts
  <2>2. got' \in Seq(GotRow) /\ Range(got') \subseteq Range(got) \cup {Fresh(m)}
    BY <2>1, <1>5, <1>6, WriteIs
  <2> QED
    BY <2>2, <1>1, <1>5, <1>6, Reading
<1>9. CASE i # 0 /\ m.trans # "R"
  <2>1. i = Find(got, m.ref) /\ m.trans = "C"
    BY <1>3, <1>9 DEF There
  <2>2. i \in DOMAIN got /\ got[i].id = m.ref
    BY <2>1, <1>5, <1>9, FindIs
  <2>3. PICK was \in GotRow : was = got[i] /\ was \in Range(got) /\ was.id = m.ref
    BY <2>2, <1>5, InTable
  <2>4. PICK row : row = [was EXCEPT !.id = m.id, !.status = "Canceled"]
    OBVIOUS
  <2>5. got' = [got EXCEPT ![i] = row]
    BY <2>3, <2>4, <1>4, <1>9 DEF Puts
  <2>6. row \in GotRow /\ row.id = m.id /\ row.terms = was.terms /\ row.slot = was.slot
    BY <2>4 DEF GotRow, Statuses, There
  <2>7. Means(T, minted, family, was)
    BY <2>3 DEF Agrees
  <2>8. Means(T, minted, family, row)
    BY <2>1, <2>3, <2>6, <2>7, <1>1, <1>2 DEF Means, Says
  <2>9. got' \in Seq(GotRow) /\ Range(got') \subseteq Range(got) \cup {row}
    BY <2>5, <2>6, <1>5, WriteIs
  <2> QED
    BY <2>6, <2>8, <2>9, <1>1, <1>5, Reading
<1> QED
  BY <1>7, <1>8, <1>9

LEMMA ReceiveAllocationAgrees ==
  ASSUME TypeOK, NEW T, Agrees(T), family' = family, ReceiveAllocation
  PROVE  IInv'
<1>1. there # << >> /\ there' = Tail(there) /\ family = "allocation"
      /\ UNCHANGED << sent, work, minted, calm >>
  BY DEF ReceiveAllocation, Reads
<1>2. PICK m \in There : m = Head(there) /\ Says(T, minted, m)
  BY <1>1, HeadSays
<1>3. got \in Seq(GotRow) /\ back \in Seq(Back)
  BY DEF TypeOK
<1>4. PICK i : i = Find(got, m.ref)
  OBVIOUS
<1>5. CASE m.trans = "N"
  <2>1. PICK row : row = WithTerms(NewRow(m.id, "PendingNew", "New"), m)
    OBVIOUS
  <2>2. got' = Append(got, row) /\ back' = back
    BY <2>1, <1>2, <1>5 DEF ReceiveAllocation
  <2>3. row \in GotRow /\ row.id = m.id /\ row.terms = m.terms /\ row.slot = "New"
    BY <2>1 DEF WithTerms, NewRow, GotRow, There, Statuses
  <2>4. Means(T, minted, family, row)
    BY <2>3, <1>1, <1>2 DEF Means, Says
  <2>5. got' \in Seq(GotRow) /\ Range(got') = Range(got) \cup {row}
    BY <2>2, <2>3, <1>3, AppendIs
  <2> QED
    BY <2>2, <2>3, <2>4, <2>5, <1>1, <1>3, Reading
<1>6. CASE m.trans # "N" /\ i # 0
  <2>1. Puts(i, Parked(got[i], m)) /\ back' = back
    BY <1>2, <1>4, <1>6 DEF ReceiveAllocation
  <2>2. i \in DOMAIN got /\ got[i].id = m.ref
    BY <1>3, <1>4, <1>6, FindIs
  <2>3. PICK was \in GotRow : was = got[i] /\ was \in Range(got) /\ was.id = m.ref
    BY <2>2, <1>3, InTable
  <2>4. got' = [got EXCEPT ![i] = Parked(was, m)]
    BY <2>1, <2>3 DEF Puts
  <2>5. /\ Parked(was, m) \in GotRow /\ Parked(was, m).id = was.id /\ Parked(was, m).terms = was.terms
        /\ Parked(was, m).slot = m.trans /\ Parked(was, m).pending = m.id /\ Parked(was, m).parked = m.terms
    BY <1>6, ParkedIs
  <2>6. Means(T, minted, family, was)
    BY <2>3 DEF Agrees
  <2>7. Means(T, minted, family, Parked(was, m))
    BY <2>3, <2>5, <2>6, <1>1, <1>2 DEF Means, Says
  <2>8. got' \in Seq(GotRow) /\ Range(got') \subseteq Range(got) \cup {Parked(was, m)}
    BY <2>4, <2>5, <1>3, WriteIs
  <2> QED
    BY <2>1, <2>5, <2>7, <2>8, <1>1, <1>3, Reading
<1>7. CASE m.trans # "N" /\ i = 0
  <2>1. back' = Append(back, Ack(m.id, FALSE)) /\ got' = got
    BY <1>2, <1>4, <1>7 DEF ReceiveAllocation
  <2>2. Ack(m.id, FALSE) \in Back
    BY DEF Ack, Back, There
  <2>3. back' \in Seq(Back)
    BY <2>1, <2>2, <1>3, AppendIs
  <2>4. there \in Seq(There) /\ sent \in Seq(SentRow) /\ calm \in BOOLEAN /\ work \in [Tasks -> Works]
    BY DEF TypeOK
  <2>5. there' \in Seq(There) /\ \A x \in Range(there') : x \in Range(there)
    BY <2>4, <1>1, TailIs
  <2> QED
    BY <2>1, <2>3, <2>4, <2>5, <1>1, <1>3, Keeping
<1> QED
  BY <1>5, <1>6, <1>7

LEMMA ReceiveRfqRequestAgrees ==
  ASSUME TypeOK, NEW T, Agrees(T), family' = family, ReceiveRfqRequest
  PROVE  IInv'
<1>1. there # << >> /\ there' = Tail(there) /\ family = "rfq_request"
      /\ UNCHANGED << sent, back, minted, calm >>
  BY DEF ReceiveRfqRequest, Reads
<1>2. PICK m \in There : m = Head(there) /\ Says(T, minted, m)
  BY <1>1, HeadSays
<1>3. sent \in Seq(SentRow) /\ got \in Seq(GotRow) /\ there \in Seq(There) /\ back \in Seq(Back) /\ calm \in BOOLEAN
  BY DEF TypeOK
<1>4. PICK i : i = IF m.trans = "C" THEN Find(got, m.id) ELSE 0
  OBVIOUS
<1>5. CASE i = 0
  <2>1. PICK status \in Statuses : got' = Append(got, NewRow(m.id, status, "none")) /\ UNCHANGED work
    BY <1>2, <1>4, <1>5 DEF ReceiveRfqRequest, Statuses
  <2>2. PICK row \in GotRow : row = NewRow(m.id, status, "none") /\ row.id = m.id /\ row.terms = m.id /\ row.slot = "none"
    BY NewRows DEF There
  <2>3. T[m.id] = m.id
    BY <1>1 DEF Agrees, There
  <2>4. Means(T, minted, family, row)
    BY <2>2, <2>3, <1>2 DEF Means, Says
  <2>5. got' \in Seq(GotRow) /\ Range(got') = Range(got) \cup {row}
    BY <2>1, <2>2, <1>3, AppendIs
  <2> QED
    BY <2>1, <2>4, <2>5, <1>1, <1>3, Reading
<1>6. CASE i # 0
  <2>1. Does(Listener, [step |-> "close", at |-> i, was |-> got[i]]) /\ got' = got
    BY <1>2, <1>4, <1>6 DEF ReceiveRfqRequest
  <2>2. i \in DOMAIN got
    BY <1>3, <1>4, <1>6, FindIs
  <2>3. PICK was \in GotRow : was = got[i] /\ was \in Range(got) /\ i \in Nat
    BY <2>2, <1>3, InTable
  <2> DEFINE w == [step |-> "close", at |-> i, was |-> was]
  <2>4. w \in Works /\ w.step = "close" /\ w.was = was /\ Does(Listener, w)
    BY <2>1, <2>3 DEF Works, Links
  <2> HIDE DEF w
  <2>5. work' \in [Tasks -> Works] /\ work'[Listener] = w /\ \A u \in Tasks \ {Listener} : work'[u] = work[u]
    BY <2>4, Doing DEF Tasks
  <2>6. Holds(T, minted, family, w)
    BY <2>3, <2>4 DEF Holds, Agrees
  <2>7. \A t \in Tasks : work'[t] = work[t] \/ Holds(T, minted, family, work'[t])
    BY <2>5, <2>6
  <2>8. there' \in Seq(There) /\ \A x \in Range(there') : x \in Range(there)
    BY <1>1, <1>3, TailIs
  <2> QED
    BY <2>1, <2>5, <2>7, <2>8, <1>1, <1>3, Keeping
<1> QED
  BY <1>5, <1>6

\* A row of the receiver's written, and perhaps an answer sent.
LEMMA Writing ==
  ASSUME TypeOK, NEW T, Agrees(T), family' = family, minted' = minted, UNCHANGED << sent, there >>,
         calm' \in BOOLEAN, back' \in Seq(Back), NEW i, NEW row \in GotRow, Means(T, minted, family, row), Puts(i, row),
         work' \in [Tasks -> Works],
         \A t \in Tasks : work'[t] = work[t] \/ Holds(T, minted, family, work'[t])
  PROVE  IInv'
<1>1. sent \in Seq(SentRow) /\ got \in Seq(GotRow) /\ there \in Seq(There)
  BY DEF TypeOK
<1>2. got' \in Seq(GotRow) /\ Range(got') \subseteq Range(got) \cup {row}
  BY <1>1, WriteIs DEF Puts
<1>3. sent' = sent /\ there' = there
  OBVIOUS
<1> QED
  BY <1>1, <1>2, <1>3, Keeping

LEMMA AnswerAgrees ==
  ASSUME TypeOK, NEW T, Agrees(T), family' = family, NEW accepts \in BOOLEAN, Answer(accepts)
  PROVE  IInv'
<1>1. got \in Seq(GotRow) /\ back \in Seq(Back) /\ calm \in BOOLEAN /\ work \in [Tasks -> Works]
  BY DEF TypeOK
<1>2. family = "allocation" /\ UNCHANGED << sent, there, work, minted >>
  BY DEF Answer
<1>3. PICK i \in DOMAIN got :
        LET row == got[i]
            answered == IF row.slot = "New" THEN row.id ELSE row.pending
        IN  /\ Find(got, row.id) = i /\ row.slot # "none"
            /\ Puts(i, CASE row.slot = "New" -> [Cleared(row) EXCEPT !.status = IF accepts THEN "Accepted" ELSE "Rejected"]
                         [] row.slot # "New" /\ accepts -> Promoted(row)
                         [] OTHER -> Cleared(row))
            /\ \/ back' = Append(back, Ack(answered, accepts)) /\ UNCHANGED calm
               \/ calm' = FALSE /\ UNCHANGED back
  BY DEF Answer
<1>4. PICK row \in GotRow : row = got[i] /\ row \in Range(got)
  BY <1>1, InTable
<1>5. PICK answered : answered = IF row.slot = "New" THEN row.id ELSE row.pending
  OBVIOUS
<1>6. /\ row.slot # "none"
      /\ Puts(i, CASE row.slot = "New" -> [Cleared(row) EXCEPT !.status = IF accepts THEN "Accepted" ELSE "Rejected"]
                   [] row.slot # "New" /\ accepts -> Promoted(row)
                   [] OTHER -> Cleared(row))
      /\ \/ back' = Append(back, Ack(answered, accepts)) /\ calm' = calm
         \/ calm' = FALSE /\ back' = back
  BY <1>3, <1>4, <1>5, Zenon
<1>7. calm' \in BOOLEAN
  BY <1>1, <1>6, Zenon
<1>8. back' \in Seq(Back)
  <2>1. answered \in Nat
    BY <1>5 DEF GotRow
  <2>2. Ack(answered, accepts) \in Back
    BY <2>1 DEF Ack, Back
  <2>3. Append(back, Ack(answered, accepts)) \in Seq(Back)
    BY <2>2, <1>1, AppendIs
  <2> QED
    BY <2>3, <1>1, <1>6
<1>9. Means(T, minted, family, row)
  BY <1>4 DEF Agrees
<1>10. Cleared(row) \in GotRow /\ Means(T, minted, family, Cleared(row))
  BY <1>9, ClearedIs DEF Means, SentRow
<1>11. work' \in [Tasks -> Works] /\ \A t \in Tasks : work'[t] = work[t]
  BY <1>1, <1>2
<1>12. CASE row.slot = "New"
  <2>1. PICK status \in Statuses : Puts(i, [Cleared(row) EXCEPT !.status = status])
    BY <1>6, <1>12 DEF Statuses
  <2>2. PICK was \in GotRow : was = Cleared(row)
    BY <1>10
  <2>3. PICK new : new = [was EXCEPT !.status = status]
    OBVIOUS
  <2>4. /\ new \in GotRow /\ new.id = was.id /\ new.terms = was.terms /\ new.slot = was.slot
        /\ new.pending = was.pending /\ new.parked = was.parked
    BY <2>3 DEF GotRow, Statuses
  <2>5. Puts(i, new)
    BY <2>1, <2>2, <2>3
  <2>6. Means(T, minted, family, new)
    BY <2>2, <2>4, <1>10 DEF Means
  <2> QED
    BY <2>4, <2>5, <2>6, <1>2, <1>7, <1>8, <1>11, Writing
<1>13. CASE row.slot # "New" /\ accepts
  <2>1. Puts(i, Promoted(row))
    BY <1>6, <1>13
  <2>2. Promoted(row) \in GotRow /\ Means(T, minted, family, Promoted(row))
    <3>1. row.slot \in {"R", "C"}
      BY <1>6, <1>13 DEF GotRow
    <3>2. /\ Promoted(row) \in SentRow /\ Promoted(row).id = row.pending /\ Promoted(row).slot = "none"
          /\ Promoted(row).terms = IF row.slot = "R" THEN row.parked ELSE row.terms
      BY PromotedIs
    <3> QED
      BY <3>1, <3>2, <1>9 DEF Means, SentRow
  <2> QED
    BY <2>1, <2>2, <1>2, <1>7, <1>8, <1>11, Writing
<1>14. CASE row.slot # "New" /\ ~accepts
  <2>1. Puts(i, Cleared(row))
    BY <1>6, <1>14
  <2> QED
    BY <2>1, <1>2, <1>7, <1>8, <1>10, <1>11, Writing
<1> QED
  BY <1>12, <1>13, <1>14

LEMMA LoadLinkAgrees ==
  ASSUME TypeOK, NEW T, Agrees(T), family' = family, LoadLink
  PROVE  IInv'
<1>1. sent \in Seq(SentRow) /\ got \in Seq(GotRow) /\ there \in Seq(There) /\ back \in Seq(Back) /\ calm \in BOOLEAN
  BY DEF TypeOK
<1>2. PICK i \in DOMAIN got : Does(Linker, [step |-> "link", at |-> i, was |-> got[i]])
  BY DEF LoadLink
<1>3. calm' = (calm /\ Over) /\ UNCHANGED << sent, got, there, back, minted >>
  BY DEF LoadLink
<1>4. PICK was \in GotRow : was = got[i] /\ was \in Range(got) /\ i \in Nat
  BY <1>1, <1>2, InTable
<1> DEFINE w == [step |-> "link", at |-> i, was |-> was]
<1>5. w \in Works /\ w.step = "link" /\ w.was = was /\ Does(Linker, w)
  BY <1>2, <1>4 DEF Works, Links
<1> HIDE DEF w
<1>6. work' \in [Tasks -> Works] /\ work'[Linker] = w /\ \A u \in Tasks \ {Linker} : work'[u] = work[u]
  BY <1>5, Doing DEF Tasks
<1>7. Holds(T, minted, family, w)
  BY <1>4, <1>5 DEF Holds, Agrees
<1>8. calm' \in BOOLEAN
  BY <1>1, <1>3, Zenon DEF Over, Idle
<1>9. \A t \in Tasks : work'[t] = work[t] \/ Holds(T, minted, family, work'[t])
  BY <1>6, <1>7
<1> QED
  BY <1>1, <1>3, <1>6, <1>8, <1>9, Keeping

\* A row counted once more.
LEMMA CountedIs ==
  ASSUME NEW row \in GotRow, NEW T, NEW n, NEW f, Means(T, n, f, row)
  PROVE  [row EXCEPT !.count = row.count + 1] \in GotRow /\ Means(T, n, f, [row EXCEPT !.count = row.count + 1])
<1>1. PICK new : new = [row EXCEPT !.count = row.count + 1]
  OBVIOUS
<1>2. /\ new \in GotRow /\ new.id = row.id /\ new.terms = row.terms /\ new.slot = row.slot
      /\ new.pending = row.pending /\ new.parked = row.parked
  BY <1>1 DEF GotRow
<1>3. Means(T, n, f, new)
  BY <1>2 DEF Means
<1> QED
  BY <1>1, <1>2, <1>3

\* A row closed.
LEMMA ClosedIs ==
  ASSUME NEW row \in GotRow, NEW T, NEW n, NEW f, Means(T, n, f, row)
  PROVE  [row EXCEPT !.status = "Unsubscribed"] \in GotRow /\ Means(T, n, f, [row EXCEPT !.status = "Unsubscribed"])
<1>1. PICK new : new = [row EXCEPT !.status = "Unsubscribed"]
  OBVIOUS
<1>2. /\ new \in GotRow /\ new.id = row.id /\ new.terms = row.terms /\ new.slot = row.slot
      /\ new.pending = row.pending /\ new.parked = row.parked
  BY <1>1, StatusSet DEF Statuses
<1>3. Means(T, n, f, new)
  BY <1>2 DEF Means
<1> QED
  BY <1>1, <1>2, <1>3

LEMMA CloseRfqRequestAgrees ==
  ASSUME TypeOK, NEW T, Agrees(T), family' = family, CloseRfqRequest
  PROVE  IInv'
<1>1. PICK w \in Links : w = work[Listener] /\ w.step = "close"
  BY WorkIs DEF TypeOK, CloseRfqRequest, Tasks
<1>2. w.was \in GotRow
  BY DEF Links
<1>3. back \in Seq(Back) /\ calm \in BOOLEAN
  BY DEF TypeOK
<1>4. Means(T, minted, family, w.was)
  BY <1>1 DEF Agrees, Holds, Tasks
<1>5. PICK row : row = [w.was EXCEPT !.status = "Unsubscribed"]
  OBVIOUS
<1>6. row \in GotRow /\ Means(T, minted, family, row)
  BY <1>2, <1>4, <1>5, ClosedIs
<1>7. Puts(w.at, row) /\ Does(Listener, Rest) /\ UNCHANGED << sent, there, back, minted, calm >>
  BY <1>1, <1>5 DEF CloseRfqRequest
<1>8. Rest \in Works /\ Holds(T, minted, family, Rest)
  BY DEF Works, Holds, Rest
<1>9. work' \in [Tasks -> Works] /\ work'[Listener] = Rest /\ \A u \in Tasks \ {Listener} : work'[u] = work[u]
  BY <1>7, <1>8, Doing DEF Tasks
<1>10. \A t \in Tasks : work'[t] = work[t] \/ Holds(T, minted, family, work'[t])
  BY <1>8, <1>9
<1> QED
  BY <1>3, <1>6, <1>7, <1>9, <1>10, Writing

LEMMA LinkAgrees ==
  ASSUME TypeOK, NEW T, Agrees(T), family' = family, Link
  PROVE  IInv'
<1>1. PICK w \in Links : w = work[Linker] /\ w.step = "link"
  BY WorkIs DEF TypeOK, Link, Tasks
<1>2. w.was \in GotRow /\ w.was.id \in Nat
  BY DEF Links, GotRow
<1>3. back \in Seq(Back) /\ calm \in BOOLEAN
  BY DEF TypeOK
<1>4. Means(T, minted, family, w.was)
  BY <1>1, <1>2 DEF Agrees, Holds, Tasks
<1>5. PICK row : row = [w.was EXCEPT !.count = w.was.count + 1]
  OBVIOUS
<1>6. row \in GotRow /\ Means(T, minted, family, row)
  BY <1>2, <1>4, <1>5, CountedIs
<1> DEFINE v == [step |-> "ask", id |-> w.was.id]
<1>7. Puts(w.at, row) /\ Does(Linker, v) /\ UNCHANGED << sent, there, back, minted, calm >>
  BY <1>1, <1>5 DEF Link
<1>8. v \in Works /\ Holds(T, minted, family, v)
  BY <1>2 DEF Works, Asks, Holds
<1> HIDE DEF v
<1>9. work' \in [Tasks -> Works] /\ work'[Linker] = v /\ \A u \in Tasks \ {Linker} : work'[u] = work[u]
  BY <1>7, <1>8, Doing DEF Tasks
<1>10. \A t \in Tasks : work'[t] = work[t] \/ Holds(T, minted, family, work'[t])
  BY <1>8, <1>9
<1> QED
  BY <1>3, <1>6, <1>7, <1>9, <1>10, Writing

LEMMA SendQuoteRequestAgrees ==
  ASSUME TypeOK, NEW T, Agrees(T), family' = family, SendQuoteRequest
  PROVE  IInv'
<1>1. PICK w \in Asks : w = work[Linker]
  BY WorkIs DEF TypeOK, SendQuoteRequest, Tasks
<1>2. sent \in Seq(SentRow) /\ got \in Seq(GotRow) /\ there \in Seq(There) /\ back \in Seq(Back) /\ calm \in BOOLEAN
  BY DEF TypeOK
<1>3. /\ Does(Linker, Rest) /\ UNCHANGED << sent, got, there, minted >>
      /\ \/ back' = Append(back, Msg("quote request", w.id, 0, 0)) /\ calm' = calm
         \/ calm' = FALSE /\ back' = back
  BY <1>1 DEF SendQuoteRequest
<1>4. Msg("quote request", w.id, 0, 0) \in Back
  BY DEF Msg, Back, Asks
<1>5. back' \in Seq(Back)
  <2>1. Append(back, Msg("quote request", w.id, 0, 0)) \in Seq(Back)
    BY <1>2, <1>4, AppendIs
  <2> QED
    BY <2>1, <1>2, <1>3, Zenon
<1>6. calm' \in BOOLEAN
  BY <1>2, <1>3, Zenon
<1>7. Rest \in Works /\ Holds(T, minted, family, Rest)
  BY DEF Works, Holds, Rest
<1>8. work' \in [Tasks -> Works] /\ work'[Linker] = Rest /\ \A u \in Tasks \ {Linker} : work'[u] = work[u]
  BY <1>3, <1>7, Doing DEF Tasks
<1>9. \A t \in Tasks : work'[t] = work[t] \/ Holds(T, minted, family, work'[t])
  BY <1>7, <1>8
<1> QED
  BY <1>2, <1>3, <1>5, <1>6, <1>8, <1>9, Keeping

-----------------------------------------------------------------------------
(* The steps of the sending side's read loop.                               *)

LEMMA HearAgrees ==
  ASSUME TypeOK, NEW T, Agrees(T), family' = family, Hear
  PROVE  IInv'
<1>1. sent \in Seq(SentRow) /\ got \in Seq(GotRow) /\ there \in Seq(There) /\ back \in Seq(Back) /\ calm \in BOOLEAN
      /\ work \in [Tasks -> Works]
  BY DEF TypeOK
<1>2. back # << >> /\ back' = Tail(back) /\ UNCHANGED << sent, got, there, minted, calm >>
  BY DEF Hear, Reads
<1>3. PICK m \in Back : m = Head(back)
  BY <1>1, <1>2, TailIs
<1>4. PICK named : named = Find(sent, m.id)
  OBVIOUS
<1>5. PICK i : i = IF named # 0 \/ family = "rfq_request" THEN named ELSE Pending(m.id)
  OBVIOUS
<1>6. IF i = 0 THEN work' = work
      ELSE Does(Reader, [step |-> "answer", at |-> i, was |-> sent[i], m |-> m, isNamed |-> named # 0])
  BY <1>3, <1>4, <1>5 DEF Hear
<1>7. back' \in Seq(Back)
  BY <1>1, <1>2, TailIs
<1>8. CASE i = 0
  <2>1. work' = work
    BY <1>6, <1>8
  <2> QED
    BY <2>1, <1>1, <1>2, <1>7, Keeping
<1>9. CASE i # 0
  <2>1. i \in DOMAIN sent
    BY <1>1, <1>4, <1>5, <1>9, FindIs, PendingIs
  <2>2. PICK was \in SentRow : was = sent[i] /\ was \in Range(sent) /\ i \in Nat
    BY <2>1, <1>1, InTable
  <2>3. PICK isNamed \in BOOLEAN : isNamed = (named # 0)
    OBVIOUS
  <2>4. PICK w : w = [step |-> "answer", at |-> i, was |-> was, m |-> m, isNamed |-> isNamed]
    OBVIOUS
  <2>5. Does(Reader, w)
    BY <2>2, <2>3, <2>4, <1>6, <1>9, Zenon
  <2>6. w \in AnswersOf /\ w.step = "answer" /\ w.was = was
    BY <2>2, <2>3, <2>4, Zenon DEF AnswersOf
  <2>7. w.isNamed <=> named # 0
    BY <2>3, <2>4, Zenon
  <2>8. w \in Works
    BY <2>6 DEF Works
  <2>9. work' \in [Tasks -> Works] /\ work'[Reader] = w /\ \A u \in Tasks \ {Reader} : work'[u] = work[u]
    BY <2>5, <2>8, Doing DEF Tasks
  <2>10. family = "allocation" /\ ~w.isNamed => was.slot \in {"R", "C"}
    <3> SUFFICES ASSUME family = "allocation", named = 0 PROVE was.slot \in {"R", "C"}
      BY <2>7
    <3>1. i = Pending(m.id)
      BY <1>5
    <3>2. was.slot # "none"
      BY <3>1, <2>2, <1>1, <1>9, PendingIs
    <3> QED
      BY <3>2, <2>2 DEF SentRow, GotRow
  <2>11. Holds(T, minted, family, w)
    BY <2>2, <2>6, <2>10 DEF Holds, Agrees
  <2>12. \A t \in Tasks : work'[t] = work[t] \/ Holds(T, minted, family, work'[t])
    BY <2>9, <2>11
  <2> QED
    BY <2>9, <2>12, <1>1, <1>2, <1>7, Keeping
<1> QED
  BY <1>8, <1>9

LEMMA WriteAnswerAgrees ==
  ASSUME TypeOK, NEW T, Agrees(T), family' = family, WriteAnswer
  PROVE  IInv'
<1>1. PICK w \in AnswersOf : w = work[Reader]
  BY WorkIs DEF TypeOK, WriteAnswer, Tasks
<1>2. w.was \in SentRow /\ w.was \in GotRow /\ w.step = "answer"
  BY DEF AnswersOf, SentRow
<1>3. sent \in Seq(SentRow) /\ got \in Seq(GotRow) /\ there \in Seq(There) /\ back \in Seq(Back) /\ calm \in BOOLEAN
      /\ family \in {"ioi", "advert", "allocation", "rfq_request"}
  BY FamiliesAssumption DEF TypeOK
<1>4. Means(T, minted, family, w.was) /\ (family = "allocation" /\ ~w.isNamed => w.was.slot \in {"R", "C"})
  BY <1>1, <1>2 DEF Agrees, Holds, Tasks
<1>5. sent' = [sent EXCEPT ![w.at] = Answered(w)] /\ Does(Reader, Rest)
      /\ UNCHANGED << got, there, back, minted, calm >>
  BY <1>1 DEF WriteAnswer
<1>6. Answered(w) \in SentRow
  BY <1>3, AnsweredIs
<1>7. Means(T, minted, family, Answered(w))
  <2>1. CASE Answered(w) = Promoted(w.was) /\ family = "allocation" /\ ~w.isNamed
    <3>1. /\ Promoted(w.was).id = w.was.pending /\ Promoted(w.was).slot = "none"
          /\ Promoted(w.was).terms = IF w.was.slot = "R" THEN w.was.parked ELSE w.was.terms
      BY <1>2, PromotedIs
    <3> QED
      BY <3>1, <2>1, <1>4 DEF Means
  <2>2. CASE Answered(w) = Cleared(w.was)
    <3>1. Cleared(w.was).id = w.was.id /\ Cleared(w.was).slot = "none" /\ Cleared(w.was).terms = w.was.terms
      BY <1>2, ClearedIs
    <3> QED
      BY <3>1, <2>2, <1>4 DEF Means
  <2>3. CASE /\ Answered(w).id = w.was.id /\ Answered(w).terms = w.was.terms /\ Answered(w).slot = w.was.slot
             /\ Answered(w).pending = w.was.pending /\ Answered(w).parked = w.was.parked
    BY <2>3, <1>4 DEF Means
  <2> QED
    BY <2>1, <2>2, <2>3, <1>3, AnsweredIs
<1>8. sent' \in Seq(SentRow) /\ Range(sent') \subseteq Range(sent) \cup {Answered(w)}
  BY <1>3, <1>5, <1>6, WriteIs
<1>9. Rest \in Works /\ Holds(T, minted, family, Rest)
  BY DEF Works, Holds, Rest
<1>10. work' \in [Tasks -> Works] /\ work'[Reader] = Rest /\ \A u \in Tasks \ {Reader} : work'[u] = work[u]
  BY <1>5, <1>9, Doing DEF Tasks
<1>11. \A t \in Tasks : work'[t] = work[t] \/ Holds(T, minted, family, work'[t])
  BY <1>9, <1>10
<1>12. \A x \in Range(sent') \cup Range(got') : x \in Range(sent) \cup Range(got) \/ Means(T, minted, family, x)
  BY <1>5, <1>7, <1>8
<1> QED
  BY <1>3, <1>5, <1>8, <1>10, <1>11, <1>12, Keeping

-----------------------------------------------------------------------------
\* The invariant holds at the start,
LEMMA InitAgrees == Init => IInv
<1> SUFFICES ASSUME Init PROVE IInv
  OBVIOUS
<1>1. TypeOK
  BY DEF Init, TypeOK, Works
<1> DEFINE T == [n \in Nat |-> n]
<1>2. Range(sent) = {} /\ Range(got) = {} /\ Range(there) = {}
  BY DEF Init, Range
<1>3. \A t \in Tasks : Holds(T, minted, family, work[t])
  BY DEF Init, Holds, Rest
<1>4. Agrees(T)
  BY <1>2, <1>3 DEF Agrees
<1> QED
  BY <1>1, <1>4 DEF IInv

\* and every step keeps it.
LEMMA NextAgrees == IInv /\ [Next]_vars => IInv'
<1> SUFFICES ASSUME IInv, [Next]_vars PROVE IInv'
  OBVIOUS
<1>1. TypeOK
  BY DEF IInv
<1>2. PICK T : Agrees(T)
  BY DEF IInv
<1>3. ASSUME NEW c \in Callers, family' = family, Send(c) \/ Load(c) \/ LoadUnsubscribe(c) \/ Request(c) \/ SendMessage(c)
      PROVE  IInv'
  BY <1>1, <1>2, <1>3, SendAgrees, LoadAgrees, LoadUnsubscribeAgrees, RequestAgrees, SendMessageAgrees
<1>4. ASSUME family' = family, ReceiveNotice \/ ReceiveAllocation \/ ReceiveRfqRequest \/ CloseRfqRequest
      PROVE  IInv'
  BY <1>1, <1>2, <1>4, ReceiveNoticeAgrees, ReceiveAllocationAgrees, ReceiveRfqRequestAgrees, CloseRfqRequestAgrees
<1>5. ASSUME family' = family, Answer(TRUE) \/ Answer(FALSE) \/ LoadLink \/ Link \/ SendQuoteRequest
      PROVE  IInv'
  BY <1>1, <1>2, <1>5, AnswerAgrees, LoadLinkAgrees, LinkAgrees, SendQuoteRequestAgrees
<1>6. ASSUME family' = family, Hear \/ WriteAnswer PROVE IInv'
  BY <1>1, <1>2, <1>6, HearAgrees, WriteAnswerAgrees
<1>7. CASE UNCHANGED vars
  <2>1. /\ family' = family /\ sent' = sent /\ got' = got /\ there' = there /\ back' = back
        /\ work' = work /\ minted' = minted /\ calm' = calm
    BY <1>7 DEF vars, changing
  <2>2. calm \in BOOLEAN /\ sent \in Seq(SentRow) /\ got \in Seq(GotRow) /\ there \in Seq(There)
        /\ back \in Seq(Back) /\ work \in [Tasks -> Works]
    BY <1>1 DEF TypeOK
  <2> QED
    BY <2>1, <2>2, <1>1, <1>2, Keeping
<1> QED
  BY <1>3, <1>4, <1>5, <1>6, <1>7 DEF Next, Moves

LEMMA InvHolds == Spec => []IInv
BY InitAgrees, NextAgrees, PTL DEF Spec

\* Every table, channel and task holds what its type says.
THEOREM TypeCorrect == Spec => []TypeOK
<1>1. IInv => TypeOK
  BY DEF IInv
<1> QED
  BY <1>1, InvHolds, PTL

\* An ID means the same terms on both sides, in every row, whatever crosses,
\* fails or is written back late.
THEOREM TermsFollowIdEver == Spec => []TermsFollowId
<1>1. IInv => TermsFollowId
  <2> SUFFICES ASSUME IInv, NEW i \in DOMAIN sent, NEW j \in DOMAIN got, sent[i].id = got[j].id
               PROVE  sent[i].terms = got[j].terms
    BY DEF TermsFollowId
  <2>1. PICK T : Agrees(T)
    BY DEF IInv
  <2>2. sent[i] \in Range(sent) /\ got[j] \in Range(got)
    BY DEF Range
  <2> QED
    BY <2>1, <2>2 DEF Agrees, Means
<1> QED
  BY <1>1, InvHolds, PTL

-----------------------------------------------------------------------------
(* Requests made one at a time.  As long as calm holds, the two sides are in *)
(* one of five phases of one request.                                       *)

Clean(f, row) == row.slot = "none" /\ row.pending = 0 /\ row.parked = 0 /\ (f # "rfq_request" => row.count = 0)
AllClean(f, rows) == \A i \in DOMAIN rows : Clean(f, rows[i])

\* Row i is the newest with the ID.
Newest(rows, id, i) == i \in DOMAIN rows /\ rows[i].id = id /\ \A j \in DOMAIN rows : rows[j].id = id => j <= i
Below(rows, id) == \A i \in DOMAIN rows : rows[i].id < id

Quiet == there = << >> /\ back = << >>
AllIdle == \A t \in Tasks : Idle(t)
Agree == sent = got /\ AllClean(family, got)

\* The request is made, and its row changed as the receiver is still to change his.
Changed(row, m) == Requested([was |-> row, trans |-> m.trans, id |-> m.id])

Adds(m) ==
    m.trans = "N" /\ m.terms = m.id /\ sent = Append(got, NewRow(m.id, FirstStatus, "none"))

Changes(m, i, row) ==
    /\ m.trans \in {"R", "C"} /\ Newest(got, m.ref, i) /\ row = got[i]
    /\ sent = [got EXCEPT ![i] = Changed(row, m)]
    /\ m.terms = IF m.trans = "R" THEN m.id ELSE row.terms
    /\ family = "allocation" => Below(got, m.id)
    /\ family = "rfq_request" => m.trans = "C" /\ m.ref = m.id

Ahead(m) == AllClean(family, got) /\ (Adds(m) \/ \E i, row : Changes(m, i, row))

\* The answer under way, written into the sender's row, makes it the receiver's.
Answering(w) == w.at \in DOMAIN sent /\ got = [sent EXCEPT ![w.at] = Answered(w)] /\ AllClean(family, got)

\* How the sender's read loop will load the row for an answer.
HeardAs(m, w) ==
    /\ w \in AnswersOf /\ w.m = m /\ w.at \in DOMAIN sent /\ w.was = sent[w.at]
    /\ \/ w.isNamed = TRUE /\ w.at = Find(sent, m.id)
       \/ w.isNamed = FALSE /\ Find(sent, m.id) = 0 /\ family = "allocation" /\ w.at = Pending(m.id)

\* The unsubscribed row is still to be closed as the sender's is.
Closing(w) ==
    /\ AllClean(family, got) /\ AllClean(family, sent)
    /\ sent = [got EXCEPT ![w.at] = [w.was EXCEPT !.status = "Unsubscribed"]]

\* The QuoteRequest counted here will be counted there.
Asking(w) == \E v \in Works : HeardAs(Msg("quote request", w.id, 0, 0), v) /\ Answering(v)

\* A task holds the only request: loaded and not written, written and not sent, its
\* answer read and not written, a quote request about to be counted or sent, or an
\* unsubscribe read and not written.
InHand(t, w) ==
    /\ w.step # "idle" /\ (\A u \in Tasks \ {t} : Idle(u)) /\ Quiet
    /\ w.step = "request" =>
          /\ Agree /\ Newest(sent, w.was.id, w.at) /\ w.was = sent[w.at]
          /\ IF family = "rfq_request" THEN w.trans = "C" /\ w.id = w.was.id ELSE Below(sent, w.id)
    /\ w.step = "send" => Ahead(w.m)
    /\ w.step = "answer" => Answering(w)
    /\ w.step = "link" =>
          family = "rfq_request" /\ Agree /\ Newest(got, w.was.id, w.at) /\ w.was = got[w.at]
    /\ w.step = "ask" => Asking(w)
    /\ w.step = "close" => Closing(w)

\* Row i of the receiver's waits for accept_allocation or reject_allocation.
Waits(i, row) ==
    /\ Newest(got, row.id, i) /\ row = got[i] /\ row.count = 0
    /\ \A j \in DOMAIN got \ {i} : Clean(family, got[j])
    /\ \/ /\ row.slot = "New" /\ row.pending = 0 /\ row.parked = 0
          /\ sent = [got EXCEPT ![i] = [row EXCEPT !.slot = "none", !.status = "Sent"]]
       \/ /\ row.slot \in {"R", "C"} /\ (row.slot = "R" => row.parked = row.pending) /\ Below(got, row.pending)
          /\ sent = [got EXCEPT ![i] = [row EXCEPT !.parked = row.pending]]

Settled == AllIdle /\ Quiet /\ Agree
SomeInHand == \E t \in Tasks, w \in Works : w = work[t] /\ InHand(t, w)
OnTheWay == AllIdle /\ back = << >> /\ \E m \in There : there = << m >> /\ Ahead(m)
ToAnswer == AllIdle /\ Quiet /\ family = "allocation" /\ \E i, row : Waits(i, row)
AnswerOnTheWay ==
    AllIdle /\ there = << >> /\ \E m \in Back, w \in Works : back = << m >> /\ HeardAs(m, w) /\ Answering(w)

OneAtATime == calm => Settled \/ SomeInHand \/ OnTheWay \/ ToAnswer \/ AnswerOnTheWay

\* The newest row is the one found.
LEMMA NewestFind ==
  ASSUME NEW S, NEW rows \in Seq(S), NEW id
  PROVE  /\ \A i : Newest(rows, id, i) => Find(rows, id) = i
         /\ Find(rows, id) # 0 => Newest(rows, id, Find(rows, id))
         /\ (\A j \in DOMAIN rows : rows[j].id # id) => Find(rows, id) = 0
<1>1. /\ Find(rows, id) \in 0 .. Len(rows) /\ Len(rows) \in Nat /\ DOMAIN rows = 1 .. Len(rows)
      /\ Find(rows, id) # 0 => Find(rows, id) \in DOMAIN rows /\ rows[Find(rows, id)].id = id
      /\ \A i \in DOMAIN rows : rows[i].id = id => i <= Find(rows, id)
  BY FindIs, InTable
<1>2. PICK k \in 0 .. Len(rows) : k = Find(rows, id)
  BY <1>1
<1>3. ASSUME NEW i, Newest(rows, id, i) PROVE k = i
  <2>1. i \in 1 .. Len(rows) /\ i <= k
    BY <1>1, <1>2, <1>3 DEF Newest
  <2>2. k # 0
    BY <2>1, <1>1
  <2>3. k <= i
    BY <2>2, <1>1, <1>2, <1>3 DEF Newest
  <2> QED
    BY <2>1, <2>3, <1>1
<1> QED
  BY <1>1, <1>2, <1>3 DEF Newest

\* One row of a table replaced.
LEMMA PutIs ==
  ASSUME NEW S, NEW s \in Seq(S), NEW i \in DOMAIN s, NEW a
  PROVE  /\ DOMAIN [s EXCEPT ![i] = a] = DOMAIN s /\ [s EXCEPT ![i] = a][i] = a
         /\ \A j \in DOMAIN s \ {i} : [s EXCEPT ![i] = a][j] = s[j]
         /\ \A b : [[s EXCEPT ![i] = a] EXCEPT ![i] = b] = [s EXCEPT ![i] = b]
OBVIOUS

\* One row more.
LEMMA AddIs ==
  ASSUME NEW S, NEW s \in Seq(S), NEW a \in S
  PROVE  /\ Len(s) \in Nat /\ DOMAIN s = 1 .. Len(s) /\ DOMAIN Append(s, a) = 1 .. (Len(s) + 1)
         /\ Append(s, a)[Len(s) + 1] = a
         /\ \A j \in DOMAIN s : Append(s, a)[j] = s[j]
         /\ \A b \in S : [Append(s, a) EXCEPT ![Len(s) + 1] = b] = Append(s, b)
<1>1. ASSUME NEW b \in S PROVE [Append(s, a) EXCEPT ![Len(s) + 1] = b] = Append(s, b)
  <2>1. Append(s, a) \in Seq(S) /\ Append(s, b) \in Seq(S) /\ Len(Append(s, a)) = Len(s) + 1
        /\ Len(Append(s, b)) = Len(s) + 1 /\ Len(s) + 1 \in 1 .. (Len(s) + 1)
    OBVIOUS
  <2>2. PICK t \in Seq(S) : t = Append(s, a) /\ Len(t) = Len(s) + 1
    BY <2>1
  <2>3. PICK k \in 1 .. Len(t) : k = Len(s) + 1
    BY <2>1, <2>2
  <2>4. /\ [t EXCEPT ![k] = b] \in Seq(S) /\ Len([t EXCEPT ![k] = b]) = Len(t)
        /\ \A j \in 1 .. Len(t) : [t EXCEPT ![k] = b][j] = IF j = k THEN b ELSE t[j]
    BY ExceptSeq
  <2>5. \A j \in 1 .. Len(t) : Append(s, b)[j] = IF j = k THEN b ELSE t[j]
    BY <2>2, <2>3
  <2>6. PICK u \in Seq(S) : u = [t EXCEPT ![k] = b]
    BY <2>4
  <2>7. PICK v \in Seq(S) : v = Append(s, b)
    BY <2>1
  <2>8. Len(u) = Len(v) /\ \A j \in 1 .. Len(u) : u[j] = v[j]
    BY <2>1, <2>2, <2>4, <2>5, <2>6, <2>7
  <2>9. u = v
    BY <2>8, SeqEqual
  <2> QED
    BY <2>2, <2>3, <2>6, <2>7, <2>9
<1> QED
  BY <1>1

LEMMA CleanPut ==
  ASSUME NEW S, NEW s \in Seq(S), NEW f, AllClean(f, s), NEW a, Clean(f, a)
  PROVE  /\ \A i \in DOMAIN s : AllClean(f, [s EXCEPT ![i] = a])
         /\ a \in S => AllClean(f, Append(s, a))
<1>1. ASSUME NEW i \in DOMAIN s PROVE AllClean(f, [s EXCEPT ![i] = a])
  BY PutIs DEF AllClean
<1>2. ASSUME a \in S PROVE AllClean(f, Append(s, a))
  <2>1. /\ Len(s) \in Nat /\ DOMAIN s = 1 .. Len(s) /\ DOMAIN Append(s, a) = 1 .. (Len(s) + 1)
        /\ Append(s, a)[Len(s) + 1] = a /\ \A j \in DOMAIN s : Append(s, a)[j] = s[j]
    BY <1>2, AddIs
  <2>2. \A j \in 1 .. (Len(s) + 1) : j \in DOMAIN s \/ j = Len(s) + 1
    BY <2>1
  <2> QED
    BY <2>1, <2>2 DEF AllClean
<1> QED
  BY <1>1, <1>2

\* A channel with one message in it.
LEMMA OneMessage ==
  ASSUME NEW S, NEW m \in S
  PROVE  << m >> # << >> /\ Head(<< m >>) = m /\ Tail(<< m >>) = << >> /\ Append(<< >>, m) = << m >>
OBVIOUS

\* The family never changes, nor what it makes of a row.
LEMMA FamilyKept ==
  ASSUME family' = family
  PROVE  FirstStatus' = FirstStatus /\ (\A w : Requested(w)' = Requested(w)) /\ (\A w : Answered(w)' = Answered(w))
         /\ \A row, m : Changed(row, m)' = Changed(row, m)
<1>1. FirstStatus' = FirstStatus
  BY DEF FirstStatus
<1>2. ASSUME NEW w PROVE Requested(w)' = Requested(w)
  BY DEF Requested
<1>3. ASSUME NEW w PROVE Answered(w)' = Answered(w)
  BY DEF Answered
<1>4. ASSUME NEW row, NEW m PROVE Changed(row, m)' = Changed(row, m)
  BY DEF Changed, Requested
<1> QED
  BY <1>1, <1>2, <1>3, <1>4

-----------------------------------------------------------------------------
\* What is seen of a request tells its phase.
LEMMA PhaseIs ==
  ASSUME OneAtATime, calm
  PROVE  /\ there # << >> => OnTheWay
         /\ back # << >> => AnswerOnTheWay
         /\ Over => Settled
         /\ \A t \in Tasks : work[t].step # "idle" => InHand(t, work[t])
         /\ \A i \in DOMAIN got : got[i].slot # "none" => ToAnswer
<1>1. Settled \/ SomeInHand \/ OnTheWay \/ ToAnswer \/ AnswerOnTheWay
  BY DEF OneAtATime
<1>2. Settled => AllIdle /\ there = << >> /\ back = << >> /\ \A i \in DOMAIN got : got[i].slot = "none"
  BY DEF Settled, Quiet, Agree, AllClean, Clean
<1>3. SomeInHand => /\ there = << >> /\ back = << >> /\ ~AllIdle
                    /\ \A t \in Tasks : work[t].step # "idle" => InHand(t, work[t])
  BY DEF SomeInHand, InHand, Quiet, AllIdle, Idle
<1>4. SomeInHand => \A i \in DOMAIN got : got[i].slot = "none"
  <2> SUFFICES ASSUME NEW t \in Tasks, NEW w \in Works, InHand(t, w) PROVE \A i \in DOMAIN got : got[i].slot = "none"
    BY DEF SomeInHand
  <2>1. w.step \in {"request", "send", "answer", "link", "close", "ask"}
    BY DEF Works, Rest, Sends, Requests, AnswersOf, Links, Asks, InHand
  <2>2. AllClean(family, got)
    BY <2>1 DEF InHand, Agree, Ahead, Answering, Asking, Closing
  <2> QED
    BY <2>2 DEF AllClean, Clean
<1>5. OnTheWay => AllIdle /\ there # << >> /\ back = << >> /\ \A i \in DOMAIN got : got[i].slot = "none"
  BY OneMessage DEF OnTheWay, Ahead, AllClean, Clean
<1>6. ToAnswer => AllIdle /\ there = << >> /\ back = << >> /\ \E i \in DOMAIN got : got[i].slot # "none"
  BY DEF ToAnswer, Quiet, Waits, Newest
<1>7. AnswerOnTheWay => AllIdle /\ there = << >> /\ back # << >> /\ \A i \in DOMAIN got : got[i].slot = "none"
  BY OneMessage DEF AnswerOnTheWay, Answering, AllClean, Clean
<1>8. AllIdle => \A t \in Tasks : work[t].step = "idle"
  BY DEF AllIdle, Idle
<1>9. Over => AllIdle /\ there = << >> /\ back = << >> /\ \A i \in DOMAIN got : got[i].slot = "none"
  BY DEF Over, AllIdle
<1> QED
  BY <1>1, <1>2, <1>3, <1>4, <1>5, <1>6, <1>7, <1>8, <1>9

\* A task with the only request in hand.
LEMMA TakesIt ==
  ASSUME NEW t \in Tasks, NEW w \in Works, work'[t] = w, w.step # "idle", \A u \in Tasks \ {t} : work'[u] = work[u],
         \A u \in Tasks \ {t} : Idle(u), there' = << >>, back' = << >>,
         /\ w.step = "request" =>
               /\ Agree' /\ Newest(sent', w.was.id, w.at) /\ w.was = sent'[w.at]
               /\ IF family' = "rfq_request" THEN w.trans = "C" /\ w.id = w.was.id ELSE Below(sent', w.id)
         /\ w.step = "send" => Ahead(w.m)'
         /\ w.step = "answer" => Answering(w)'
         /\ w.step = "link" =>
               family' = "rfq_request" /\ Agree' /\ Newest(got', w.was.id, w.at) /\ w.was = got'[w.at]
         /\ w.step = "ask" => Asking(w)'
         /\ w.step = "close" => Closing(w)'
  PROVE  SomeInHand'
<1>1. Quiet' /\ \A u \in Tasks \ {t} : Idle(u)'
  BY DEF Quiet, Idle
<1>2. InHand(t, w)'
  BY <1>1 DEF InHand
<1> QED
  BY <1>2 DEF SomeInHand

\* A task that lets go of it.
LEMMA LetsGo ==
  ASSUME NEW t \in Tasks, work'[t] = Rest, \A u \in Tasks \ {t} : work'[u] = work[u] /\ Idle(u)
  PROVE  AllIdle'
BY DEF AllIdle, Idle, Rest

-----------------------------------------------------------------------------
(* The phases, in their order.                                              *)

\* The tables hold no ID that is not minted.
Minted == \A i \in DOMAIN sent : sent[i].id <= minted

LEMMA SendNext ==
  ASSUME TypeOK, OneAtATime, family' = family, NEW c \in Callers, Send(c), calm'
  PROVE  SomeInHand'
<1>1. PICK n \in Nat : n = minted + 1 /\ minted' = n
  BY DEF TypeOK, Send
<1> DEFINE row == NewRow(n, FirstStatus, "none")
           w == [step |-> "send", at |-> Len(sent'), m |-> Msg("N", n, 0, n), back |-> [row EXCEPT !.status = "Failed"]]
<1>2. sent' = Append(sent, row) /\ Does(c, w) /\ calm' = (calm /\ Over)
      /\ got' = got /\ there' = there /\ back' = back
  BY <1>1 DEF Send
<1>3. Settled
  BY <1>2, PhaseIs
<1>4. sent \in Seq(SentRow)
  BY DEF TypeOK
<1>5. row \in SentRow
  BY NewRows DEF FirstStatus, Statuses
<1>6. [row EXCEPT !.status = "Failed"] \in SentRow
  BY <1>5 DEF SentRow, GotRow, Statuses
<1>7. Len(sent') \in Nat
  BY <1>2, <1>4, <1>5, AppendIs, InTable
<1>8. Msg("N", n, 0, n) \in There /\ Msg("N", n, 0, n).id = n /\ Msg("N", n, 0, n).terms = n
      /\ Msg("N", n, 0, n).trans = "N"
  BY DEF Msg, There
<1> HIDE DEF row
<1>9. w \in Works /\ w.step = "send" /\ w.m = Msg("N", n, 0, n)
  BY <1>6, <1>7, <1>8 DEF Works, Sends
<1>10. PICK v \in Works : v = w /\ v.step = "send" /\ v.m.trans = "N" /\ v.m.id = n /\ v.m.terms = n
  BY <1>8, <1>9
<1> HIDE DEF w
<1>11. work'[c] = v /\ \A u \in Tasks \ {c} : work'[u] = work[u]
  BY <1>2, <1>10, Doing DEF Tasks
<1>12. sent' = Append(got', NewRow(v.m.id, FirstStatus', "none"))
  BY <1>2, <1>3, <1>10, FamilyKept DEF Settled, Agree, row
<1>13. Ahead(v.m)'
  BY <1>2, <1>3, <1>10, <1>12 DEF Ahead, Adds, Settled, Agree
<1> QED
  BY <1>2, <1>3, <1>10, <1>11, <1>13, TakesIt DEF Settled, AllIdle, Quiet, Tasks

\* A row loaded when all is settled, for a request of its own ID or a new one.
LEMMA LoadNext ==
  ASSUME TypeOK, Minted, OneAtATime, family' = family, NEW c \in Callers, Load(c) \/ LoadUnsubscribe(c), calm'
  PROVE  SomeInHand'
<1>1. calm' = (calm /\ Over) /\ sent' = sent /\ got' = got /\ there' = there /\ back' = back
  BY DEF Load, LoadUnsubscribe
<1>2. Settled
  BY <1>1, PhaseIs
<1>3. minted \in Nat /\ sent \in Seq(SentRow)
  BY DEF TypeOK
<1>4. PICK i \in DOMAIN sent, trans \in {"R", "C"}, id \in Nat :
        /\ Find(sent, sent[i].id) = i
        /\ Does(c, [step |-> "request", at |-> i, was |-> sent[i], trans |-> trans, id |-> id])
        /\ IF family = "rfq_request" THEN trans = "C" /\ id = sent[i].id ELSE id = minted + 1
  <2>1. CASE Load(c)
    <3>1. minted + 1 \in Nat /\ minted' = minted + 1 /\ family # "rfq_request"
      BY <1>3, <2>1 DEF Load
    <3>2. PICK i \in DOMAIN sent, trans \in {"R", "C"} :
            /\ Find(sent, sent[i].id) = i
            /\ Does(c, [step |-> "request", at |-> i, was |-> sent[i], trans |-> trans, id |-> minted'])
      BY <2>1 DEF Load
    <3> QED
      BY <3>1, <3>2
  <2>2. CASE LoadUnsubscribe(c)
    <3>1. PICK i \in DOMAIN sent :
            /\ Find(sent, sent[i].id) = i
            /\ Does(c, [step |-> "request", at |-> i, was |-> sent[i], trans |-> "C", id |-> sent[i].id])
      BY <2>2 DEF LoadUnsubscribe
    <3>2. sent[i].id \in Nat
      BY <1>3, InTable DEF SentRow, GotRow
    <3> QED
      BY <3>1, <3>2, <2>2 DEF LoadUnsubscribe
  <2> QED
    BY <2>1, <2>2
<1>5. PICK was \in SentRow : was = sent[i] /\ i \in Nat
  BY <1>3, <1>4, InTable
<1> DEFINE w == [step |-> "request", at |-> i, was |-> was, trans |-> trans, id |-> id]
<1>6. w \in Works /\ Does(c, w) /\ w.step = "request" /\ w.at = i /\ w.was = was /\ w.trans = trans /\ w.id = id
  BY <1>4, <1>5 DEF Works, Requests
<1> HIDE DEF w
<1>7. work'[c] = w /\ \A u \in Tasks \ {c} : work'[u] = work[u]
  BY <1>6, Doing DEF Tasks
<1>8. Newest(sent, was.id, i)
  <2>1. Find(sent, was.id) = i /\ i # 0
    BY <1>3, <1>4, <1>5, InTable
  <2> QED
    BY <2>1, <1>3, NewestFind
<1>9. Newest(sent', w.was.id, w.at) /\ w.was = sent'[w.at]
  BY <1>1, <1>5, <1>6, <1>8
<1>10. Agree'
  BY <1>1, <1>2 DEF Settled, Agree
<1>11. family # "rfq_request" => Below(sent', w.id)
  <2>1. \A j \in DOMAIN sent : sent[j].id \in Nat
    BY <1>3, InTable DEF SentRow, GotRow
  <2> QED
    BY <2>1, <1>1, <1>3, <1>4, <1>6 DEF Below, Minted
<1>12. IF family' = "rfq_request" THEN w.trans = "C" /\ w.id = w.was.id ELSE Below(sent', w.id)
  BY <1>4, <1>5, <1>6, <1>11
<1> QED
  BY <1>1, <1>2, <1>6, <1>7, <1>9, <1>10, <1>12, TakesIt DEF Settled, AllIdle, Quiet, Tasks

LEMMA RequestNext ==
  ASSUME TypeOK, OneAtATime, family' = family, NEW c \in Callers, Request(c), calm'
  PROVE  SomeInHand'
<1>1. c \in Tasks /\ work[c].step = "request" /\ calm' = calm /\ got' = got /\ there' = there /\ back' = back
  BY DEF Request, Tasks
<1>2. PICK w \in Requests : w = work[c]
  BY <1>1, WorkIs DEF TypeOK
<1>3. InHand(c, w) /\ w.step = "request"
  BY <1>1, <1>2, PhaseIs
<1>4. w.was \in SentRow /\ w.trans \in {"R", "C"} /\ w.id \in Nat /\ w.at \in Nat
      /\ w.was.id \in Nat /\ w.was.terms \in Nat
  BY DEF Requests, SentRow, GotRow
<1>5. /\ Agree /\ Newest(sent, w.was.id, w.at) /\ w.was = sent[w.at] /\ (\A u \in Tasks \ {c} : Idle(u)) /\ Quiet
      /\ IF family = "rfq_request" THEN w.trans = "C" /\ w.id = w.was.id ELSE Below(sent, w.id)
  BY <1>3 DEF InHand
<1> DEFINE m == Msg(w.trans, w.id, w.was.id, TermsOf(w))
           v == [step |-> "send", at |-> w.at, m |-> m, back |-> w.was]
<1>6. sent' = [sent EXCEPT ![w.at] = Requested(w)] /\ Does(c, v)
  BY <1>2 DEF Request
<1>7. TermsOf(w) = IF w.trans = "R" THEN w.id ELSE w.was.terms
  BY DEF TermsOf
<1>8. m \in There /\ m.id = w.id /\ m.terms = TermsOf(w) /\ m.trans = w.trans /\ m.ref = w.was.id
  BY <1>4, <1>7 DEF Msg, There
<1> HIDE DEF m
<1>9. v \in Works /\ v.step = "send" /\ v.m = m
  BY <1>4, <1>8 DEF Works, Sends
<1> HIDE DEF v
<1>10. work'[c] = v /\ \A u \in Tasks \ {c} : work'[u] = work[u]
  BY <1>1, <1>6, <1>9, Doing
<1>11. Changed(w.was, m) = Requested(w)
  BY <1>8 DEF Changed, Requested
<1>12. sent' = [got' EXCEPT ![w.at] = Changed(w.was, m)']
  BY <1>1, <1>5, <1>6, <1>11, FamilyKept DEF Agree
<1>13. Newest(got', m.ref, w.at) /\ w.was = got'[w.at] /\ AllClean(family', got')
  BY <1>1, <1>5, <1>8 DEF Agree
<1>14. family' = "allocation" => Below(got', m.id)
  BY <1>1, <1>5, <1>8 DEF Agree
<1>15. family' = "rfq_request" => m.trans = "C" /\ m.ref = m.id
  BY <1>5, <1>8
<1>16. m.trans \in {"R", "C"} /\ m.terms = IF m.trans = "R" THEN m.id ELSE w.was.terms
  BY <1>4, <1>7, <1>8
<1>17. Changes(m, w.at, w.was)'
  BY <1>12, <1>13, <1>14, <1>15, <1>16 DEF Changes
<1>18. Ahead(m)'
  BY <1>13, <1>17 DEF Ahead
<1>19. Ahead(v.m)'
  BY <1>9, <1>18
<1> QED
  BY <1>1, <1>5, <1>9, <1>10, <1>19, TakesIt DEF Quiet

LEMMA SendMessageNext ==
  ASSUME TypeOK, OneAtATime, family' = family, NEW c \in Callers, SendMessage(c), calm'
  PROVE  OnTheWay'
<1>1. c \in Tasks /\ work[c].step = "send" /\ Does(c, Rest)
  BY DEF SendMessage, Tasks
<1>2. PICK w \in Sends : w = work[c]
  BY <1>1, WorkIs DEF TypeOK
<1>3. there' = Append(there, w.m) /\ sent' = sent /\ calm /\ got' = got /\ back' = back
  BY <1>2 DEF SendMessage
<1>4. InHand(c, w) /\ w.step = "send"
  BY <1>1, <1>2, <1>3, PhaseIs
<1>5. PICK m \in There : m = w.m
  BY DEF Sends
<1>6. Ahead(m) /\ (\A u \in Tasks \ {c} : Idle(u)) /\ Quiet
  BY <1>4, <1>5 DEF InHand
<1>7. Rest \in Works
  BY DEF Works
<1>8. work'[c] = Rest /\ \A u \in Tasks \ {c} : work'[u] = work[u]
  BY <1>1, <1>7, Doing
<1>9. AllIdle'
  BY <1>1, <1>6, <1>8, LetsGo
<1>10. there' = << m >> /\ back' = << >>
  BY <1>3, <1>5, <1>6, OneMessage DEF Quiet
<1>11. Ahead(m)'
  BY <1>3, <1>6, FamilyKept DEF Ahead, Adds, Changes
<1> QED
  BY <1>9, <1>10, <1>11 DEF OnTheWay

\* What is agreed when the receiver has no answer to give.
LEMMA ReadIt ==
  ASSUME TypeOK, OnTheWay, there' = Tail(there), back' = back, work' = work, family' = family,
         sent' = sent, got' = sent, AllClean(family, sent)
  PROVE  Settled'
<1>1. PICK m \in There : there = << m >>
  BY DEF OnTheWay
<1>2. there' = << >>
  BY <1>1, OneMessage
<1>3. Agree'
  BY DEF Agree
<1>4. AllIdle'
  BY DEF OnTheWay, AllIdle, Idle
<1> QED
  BY <1>2, <1>3, <1>4 DEF Settled, Quiet, OnTheWay

\* A row changed at once is clean as it was before.
LEMMA ChangedIs ==
  ASSUME NEW row \in GotRow, NEW m \in There, m.trans \in {"R", "C"}
  PROVE  /\ family = "allocation" => Changed(row, m) = [row EXCEPT !.slot = m.trans, !.pending = m.id, !.parked = m.id]
         /\ family = "rfq_request" => Changed(row, m) = [row EXCEPT !.status = "Unsubscribed"]
         /\ family \in {"ioi", "advert"} =>
              Changed(row, m) = IF m.trans = "R" THEN [row EXCEPT !.id = m.id, !.terms = m.id, !.status = "Active"]
                                ELSE [row EXCEPT !.id = m.id, !.status = "Canceled"]
         /\ family \in {"ioi", "advert", "rfq_request"} /\ Clean(family, row) => Clean(family, Changed(row, m))
<1>1. CASE family = "allocation"
  BY <1>1 DEF Changed, Requested
<1>2. CASE family = "rfq_request"
  <2>1. Changed(row, m) = [row EXCEPT !.status = "Unsubscribed"]
    BY <1>2 DEF Changed, Requested
  <2>2. Clean(family, row) => Clean(family, [row EXCEPT !.status = "Unsubscribed"])
    BY DEF Clean, GotRow
  <2> QED
    BY <1>2, <2>1, <2>2
<1>3. CASE family \in {"ioi", "advert"} /\ m.trans = "R"
  <2>1. Changed(row, m) = [row EXCEPT !.id = m.id, !.terms = m.id, !.status = "Active"]
    BY <1>3 DEF Changed, Requested
  <2>2. Clean(family, row) => Clean(family, [row EXCEPT !.id = m.id, !.terms = m.id, !.status = "Active"])
    BY DEF Clean, GotRow
  <2> QED
    BY <1>3, <2>1, <2>2
<1>4. CASE family \in {"ioi", "advert"} /\ m.trans # "R"
  <2>1. Changed(row, m) = [row EXCEPT !.id = m.id, !.status = "Canceled"]
    BY <1>4 DEF Changed, Requested
  <2>2. Clean(family, row) => Clean(family, [row EXCEPT !.id = m.id, !.status = "Canceled"])
    BY DEF Clean, GotRow
  <2> QED
    BY <1>4, <2>1, <2>2
<1> QED
  BY <1>1, <1>2, <1>3, <1>4

\* A new row of a sender's.
LEMMA AddedIs ==
  ASSUME NEW id \in Nat, family \in {"ioi", "advert", "allocation", "rfq_request"}
  PROVE  /\ FirstStatus = IF family = "allocation" THEN "Sent" ELSE "Active"
         /\ NewRow(id, FirstStatus, "none") \in GotRow /\ Clean(family, NewRow(id, FirstStatus, "none"))
<1>1. FirstStatus \in Statuses
  BY DEF FirstStatus, Statuses
<1>2. NewRow(id, FirstStatus, "none") \in GotRow
  BY <1>1, NewRows
<1>3. Clean(family, NewRow(id, FirstStatus, "none"))
  BY DEF NewRow, Clean
<1> QED
  BY <1>2, <1>3 DEF FirstStatus

LEMMA ReceiveNoticeNext ==
  ASSUME TypeOK, OneAtATime, family' = family, ReceiveNotice, calm'
  PROVE  Settled'
<1>1. there # << >> /\ there' = Tail(there) /\ family \in {"ioi", "advert"} /\ calm
      /\ sent' = sent /\ back' = back /\ work' = work
  BY DEF ReceiveNotice, Reads
<1>2. OnTheWay
  BY <1>1, PhaseIs
<1>3. PICK m \in There : there = << m >> /\ Ahead(m)
  BY <1>2 DEF OnTheWay
<1>4. m = Head(there)
  BY <1>3, OneMessage
<1>5. PICK i : i = IF m.trans = "N" THEN 0 ELSE Find(got, m.ref)
  OBVIOUS
<1>6. IF i = 0 THEN got' = Append(got, Fresh(m))
      ELSE Puts(i, IF m.trans = "R" THEN Fresh(m) ELSE [got[i] EXCEPT !.id = m.id, !.status = "Canceled"])
  BY <1>4, <1>5 DEF ReceiveNotice
<1>7. got \in Seq(GotRow) /\ AllClean(family, got) /\ family \in {"ioi", "advert", "allocation", "rfq_request"}
  BY <1>1, <1>3 DEF TypeOK, Ahead
<1>8. m.id \in Nat /\ m.terms \in Nat /\ m.trans \in {"N", "R", "C"}
  BY DEF There
<1>9. CASE Adds(m)
  <2>1. i = 0 /\ m.trans = "N" /\ m.terms = m.id /\ sent = Append(got, NewRow(m.id, FirstStatus, "none"))
    BY <1>5, <1>9 DEF Adds
  <2>2. Fresh(m) = NewRow(m.id, FirstStatus, "none")
    BY <2>1, <1>1 DEF Fresh, WithTerms, NewRow, FirstStatus
  <2>3. got' = sent
    BY <2>1, <2>2, <1>6
  <2>4. AllClean(family, sent)
    BY <2>1, <1>7, <1>8, AddedIs, CleanPut
  <2> QED
    BY <2>3, <2>4, <1>1, <1>2, ReadIt
<1>10. ASSUME NEW k, NEW row, Changes(m, k, row) PROVE Settled'
  <2>1. /\ m.trans \in {"R", "C"} /\ Newest(got, m.ref, k) /\ row = got[k] /\ sent = [got EXCEPT ![k] = Changed(row, m)]
        /\ m.terms = IF m.trans = "R" THEN m.id ELSE row.terms
    BY <1>10 DEF Changes
  <2>2. k \in DOMAIN got /\ k # 0 /\ row \in GotRow /\ Clean(family, row)
    BY <2>1, <1>7, InTable DEF Newest, AllClean
  <2>3. i = k
    BY <2>1, <1>5, <1>7, NewestFind
  <2>4. got' = [got EXCEPT ![k] = IF m.trans = "R" THEN Fresh(m) ELSE [row EXCEPT !.id = m.id, !.status = "Canceled"]]
    BY <2>1, <2>2, <2>3, <1>6 DEF Puts
  <2>5. Changed(row, m) = IF m.trans = "R" THEN [row EXCEPT !.id = m.id, !.terms = m.id, !.status = "Active"]
                          ELSE [row EXCEPT !.id = m.id, !.status = "Canceled"]
    BY <2>1, <2>2, <1>1, ChangedIs
  <2>6. m.trans = "R" => [row EXCEPT !.id = m.id, !.terms = m.id, !.status = "Active"] = Fresh(m)
    <3> SUFFICES ASSUME m.trans = "R" PROVE [row EXCEPT !.id = m.id, !.terms = m.id, !.status = "Active"] = Fresh(m)
      OBVIOUS
    <3> DEFINE new == [id |-> m.id, status |-> "Active", terms |-> m.id, slot |-> "none", pending |-> 0, parked |-> 0,
                       count |-> 0]
    <3>1. row.slot = "none" /\ row.pending = 0 /\ row.parked = 0 /\ row.count = 0
      BY <2>2, <1>1 DEF Clean
    <3>2. [row EXCEPT !.id = m.id, !.terms = m.id, !.status = "Active"] = new
      <4>1. PICK x \in GotRow : x = [row EXCEPT !.id = m.id, !.terms = m.id, !.status = "Active"]
        BY <2>2, <1>8 DEF GotRow, Statuses
      <4>2. /\ x.id = m.id /\ x.terms = m.id /\ x.status = "Active" /\ x.slot = "none" /\ x.pending = 0
            /\ x.parked = 0 /\ x.count = 0
        BY <4>1, <3>1, <2>2 DEF GotRow
      <4>3. new \in GotRow
        BY <1>8 DEF GotRow, Statuses
      <4> QED
        BY <4>1, <4>2, <4>3, SameRow
    <3>3. Fresh(m) = new
      BY <2>1 DEF Fresh, WithTerms, NewRow
    <3> QED
      BY <3>2, <3>3
  <2>7. got' = sent
    BY <2>1, <2>4, <2>5, <2>6
  <2>8. Clean(family, Changed(row, m))
    BY <2>1, <2>2, <1>1, ChangedIs
  <2>9. AllClean(family, sent)
    BY <2>1, <2>2, <2>8, <1>7, CleanPut
  <2> QED
    BY <2>7, <2>9, <1>1, <1>2, ReadIt
<1> QED
  BY <1>3, <1>9, <1>10 DEF Ahead

LEMMA ReceiveRfqRequestNext ==
  ASSUME TypeOK, OneAtATime, family' = family, ReceiveRfqRequest, calm'
  PROVE  Settled' \/ SomeInHand'
<1>1. there # << >> /\ there' = Tail(there) /\ family = "rfq_request" /\ calm
      /\ sent' = sent /\ back' = back /\ Listener \in Tasks
  BY DEF ReceiveRfqRequest, Reads, Tasks
<1>2. OnTheWay
  BY <1>1, PhaseIs
<1>3. PICK m \in There : there = << m >> /\ Ahead(m)
  BY <1>2 DEF OnTheWay
<1>4. m = Head(there)
  BY <1>3, OneMessage
<1>5. PICK i : i = IF m.trans = "C" THEN Find(got, m.id) ELSE 0
  OBVIOUS
<1>6. IF i # 0 THEN Does(Listener, [step |-> "close", at |-> i, was |-> got[i]]) /\ got' = got
      ELSE /\ got' = Append(got, NewRow(m.id, IF m.trans = "C" THEN "Unsubscribed" ELSE "Active", "none"))
           /\ work' = work
  BY <1>4, <1>5 DEF ReceiveRfqRequest
<1>7. got \in Seq(GotRow) /\ AllClean(family, got) /\ family \in {"ioi", "advert", "allocation", "rfq_request"}
  BY <1>1, <1>3 DEF TypeOK, Ahead
<1>8. m.id \in Nat
  BY DEF There
<1>9. CASE Adds(m)
  <2>1. i = 0 /\ m.trans = "N" /\ sent = Append(got, NewRow(m.id, FirstStatus, "none"))
    BY <1>5, <1>9 DEF Adds
  <2>2. got' = sent /\ work' = work
    BY <2>1, <1>1, <1>6 DEF FirstStatus
  <2>3. AllClean(family, sent)
    BY <2>1, <1>7, <1>8, AddedIs, CleanPut
  <2> QED
    BY <2>2, <2>3, <1>1, <1>2, ReadIt
<1>10. ASSUME NEW k, NEW row, Changes(m, k, row) PROVE SomeInHand'
  <2>1. /\ m.trans = "C" /\ Newest(got, m.id, k) /\ row = got[k] /\ sent = [got EXCEPT ![k] = Changed(row, m)]
    BY <1>1, <1>10 DEF Changes
  <2>2. k \in DOMAIN got /\ k \in Nat /\ k # 0 /\ row \in GotRow /\ Clean(family, row)
    BY <2>1, <1>7, InTable DEF Newest, AllClean
  <2>3. i = k
    BY <2>1, <1>5, <1>7, NewestFind
  <2> DEFINE w == [step |-> "close", at |-> k, was |-> row]
  <2>4. w \in Works /\ w.step = "close" /\ w.at = k /\ w.was = row /\ Does(Listener, w) /\ got' = got
    BY <2>1, <2>2, <2>3, <1>6 DEF Works, Links
  <2> HIDE DEF w
  <2>5. work'[Listener] = w /\ \A u \in Tasks \ {Listener} : work'[u] = work[u]
    BY <2>4, <1>1, Doing
  <2>6. Changed(row, m) = [row EXCEPT !.status = "Unsubscribed"] /\ Clean(family, Changed(row, m))
    BY <2>1, <2>2, <1>1, ChangedIs
  <2>7. AllClean(family, sent)
    BY <2>1, <2>2, <2>6, <1>7, CleanPut
  <2>8. Closing(w)'
    BY <2>1, <2>4, <2>6, <2>7, <1>1, <1>7 DEF Closing
  <2>9. there' = << >> /\ back' = << >> /\ \A u \in Tasks \ {Listener} : Idle(u)
    BY <1>1, <1>2, <1>3, OneMessage DEF OnTheWay, AllIdle
  <2> QED
    BY <2>4, <2>5, <2>8, <2>9, <1>1, TakesIt
<1> QED
  BY <1>3, <1>9, <1>10 DEF Ahead

LEMMA CloseRfqRequestNext ==
  ASSUME TypeOK, OneAtATime, family' = family, CloseRfqRequest, calm'
  PROVE  Settled'
<1>1. Listener \in Tasks /\ work[Listener].step = "close" /\ Does(Listener, Rest) /\ calm
      /\ sent' = sent /\ there' = there /\ back' = back
  BY DEF CloseRfqRequest, Tasks
<1>2. PICK w \in Links : w = work[Listener] /\ w.step = "close"
  BY <1>1, WorkIs DEF TypeOK
<1>3. InHand(Listener, w)
  BY <1>1, <1>2, PhaseIs
<1>4. Closing(w) /\ Quiet /\ \A u \in Tasks \ {Listener} : Idle(u)
  BY <1>2, <1>3 DEF InHand
<1>5. got' = sent
  BY <1>2, <1>4 DEF CloseRfqRequest, Puts, Closing
<1>6. Agree'
  BY <1>1, <1>4, <1>5 DEF Closing, Agree
<1>7. Rest \in Works
  BY DEF Works
<1>8. work'[Listener] = Rest /\ \A u \in Tasks \ {Listener} : work'[u] = work[u]
  BY <1>1, <1>7, Doing
<1>9. AllIdle'
  BY <1>1, <1>4, <1>8, LetsGo
<1> QED
  BY <1>1, <1>4, <1>6, <1>9 DEF Settled, Quiet

LEMMA ReceiveAllocationNext ==
  ASSUME TypeOK, OneAtATime, family' = family, ReceiveAllocation, calm'
  PROVE  ToAnswer'
<1>1. there # << >> /\ there' = Tail(there) /\ family = "allocation" /\ calm /\ sent' = sent /\ work' = work
  BY DEF ReceiveAllocation, Reads
<1>2. OnTheWay
  BY <1>1, PhaseIs
<1>3. PICK m \in There : there = << m >> /\ Ahead(m)
  BY <1>2 DEF OnTheWay
<1>4. m = Head(there)
  BY <1>3, OneMessage
<1>5. got \in Seq(GotRow) /\ AllClean(family, got)
  BY <1>3 DEF TypeOK, Ahead
<1>6. m.id \in Nat /\ m.terms \in Nat
  BY DEF There
<1>7. AllIdle' /\ there' = << >>
  BY <1>1, <1>2, <1>3, OneMessage DEF OnTheWay, AllIdle, Idle
<1>8. CASE Adds(m)
  <2>1. m.trans = "N" /\ m.terms = m.id /\ sent = Append(got, NewRow(m.id, "Sent", "none"))
    BY <1>1, <1>8 DEF Adds, FirstStatus
  <2>2. PICK row : row = WithTerms(NewRow(m.id, "PendingNew", "New"), m)
    OBVIOUS
  <2>3. got' = Append(got, row) /\ back' = back
    BY <2>1, <2>2, <1>4 DEF ReceiveAllocation
  <2>4. row \in GotRow /\ row.slot = "New" /\ row.pending = 0 /\ row.parked = 0 /\ row.count = 0 /\ row.id = m.id
    BY <2>2, <1>6 DEF WithTerms, NewRow, GotRow, Statuses
  <2>5. [row EXCEPT !.slot = "none", !.status = "Sent"] = NewRow(m.id, "Sent", "none")
    <3>1. PICK x \in GotRow : x = [row EXCEPT !.slot = "none", !.status = "Sent"]
      BY <2>4 DEF GotRow, Statuses
    <3>2. row.terms = m.id
      BY <2>1, <2>2 DEF WithTerms, NewRow
    <3>3. /\ x.id = m.id /\ x.terms = m.id /\ x.status = "Sent" /\ x.slot = "none" /\ x.pending = 0
          /\ x.parked = 0 /\ x.count = 0
      BY <3>1, <3>2, <2>4 DEF GotRow
    <3>4. PICK y \in GotRow : y = NewRow(m.id, "Sent", "none")
      BY <1>6, NewRows DEF Statuses
    <3>5. /\ y.id = m.id /\ y.terms = m.id /\ y.status = "Sent" /\ y.slot = "none" /\ y.pending = 0
          /\ y.parked = 0 /\ y.count = 0
      BY <3>4 DEF NewRow
    <3> QED
      BY <3>1, <3>3, <3>4, <3>5, SameRow
  <2>6. PICK i \in Nat : i = Len(got) + 1
    BY <1>5, InTable
  <2>7. /\ DOMAIN got = 1 .. Len(got) /\ Len(got) \in Nat /\ DOMAIN got' = 1 .. i /\ got'[i] = row
        /\ \A j \in DOMAIN got : got'[j] = got[j]
    BY <2>3, <2>4, <2>6, <1>5, AddIs
  <2>8. sent = [got' EXCEPT ![i] = [row EXCEPT !.slot = "none", !.status = "Sent"]]
    <3>1. PICK new \in GotRow : new = NewRow(m.id, "Sent", "none")
      BY <1>6, NewRows DEF Statuses
    <3>2. [Append(got, row) EXCEPT ![Len(got) + 1] = new] = Append(got, new)
      BY <2>4, <1>5, AddIs
    <3> QED
      BY <3>1, <3>2, <2>1, <2>3, <2>5, <2>6
  <2>9. Newest(got', row.id, i)
    BY <2>6, <2>7 DEF Newest
  <2>10. \A j \in DOMAIN got' \ {i} : Clean(family', got'[j])
    <3>1. \A j \in 1 .. i : j = i \/ j \in 1 .. Len(got)
      BY <2>6, <2>7
    <3> QED
      BY <3>1, <2>7, <1>5 DEF AllClean
  <2>11. Waits(i, row)'
    BY <2>4, <2>7, <2>8, <2>9, <2>10, <1>1 DEF Waits
  <2>12. back' = << >>
    BY <2>3, <1>2 DEF OnTheWay
  <2> QED
    BY <2>11, <2>12, <1>1, <1>7 DEF ToAnswer, Quiet
<1>9. ASSUME NEW i, NEW was, Changes(m, i, was) PROVE ToAnswer'
  <2>1. /\ m.trans \in {"R", "C"} /\ Newest(got, m.ref, i) /\ was = got[i] /\ sent = [got EXCEPT ![i] = Changed(was, m)]
        /\ (m.trans = "R" => m.terms = m.id) /\ Below(got, m.id)
    BY <1>1, <1>9 DEF Changes
  <2>2. i \in DOMAIN got /\ i # 0 /\ was \in GotRow /\ Clean(family, was) /\ was.id = m.ref
    BY <2>1, <1>5, InTable DEF Newest, AllClean
  <2>3. Find(got, m.ref) = i
    BY <2>1, <1>5, NewestFind
  <2>4. PICK row : row = Parked(was, m)
    OBVIOUS
  <2>5. got' = [got EXCEPT ![i] = row] /\ back' = back
    BY <2>1, <2>2, <2>3, <2>4, <1>4 DEF ReceiveAllocation, Puts
  <2>6. /\ row.id = was.id /\ row.slot = m.trans /\ row.pending = m.id /\ row.parked = m.terms /\ row.count = 0
        /\ [row EXCEPT !.parked = row.pending] = Changed(was, m)
    <3>1. Changed(was, m) = [was EXCEPT !.slot = m.trans, !.pending = m.id, !.parked = m.id]
      BY <2>1, <2>2, <1>1, ChangedIs
    <3>2. row = [was EXCEPT !.slot = m.trans, !.pending = m.id, !.parked = m.terms]
      BY <2>4 DEF Parked
    <3>3. row.id = was.id /\ row.slot = m.trans /\ row.pending = m.id /\ row.parked = m.terms /\ row.count = was.count
      BY <3>2, <2>2 DEF GotRow
    <3>4. [row EXCEPT !.parked = m.id] = [was EXCEPT !.slot = m.trans, !.pending = m.id, !.parked = m.id]
      BY <3>2, <2>2 DEF GotRow
    <3> QED
      BY <3>1, <3>3, <3>4, <2>2, <1>1 DEF Clean
  <2>7. DOMAIN got' = DOMAIN got /\ got'[i] = row /\ \A j \in DOMAIN got \ {i} : got'[j] = got[j]
    BY <2>2, <2>5, <1>5, PutIs
  <2>8. sent = [got' EXCEPT ![i] = [row EXCEPT !.parked = row.pending]]
    BY <2>1, <2>2, <2>5, <2>6, <1>5, PutIs
  <2>9. \A j \in DOMAIN got' : got'[j].id = got[j].id
    BY <2>1, <2>2, <2>6, <2>7
  <2>10. Newest(got', row.id, i)
    BY <2>1, <2>2, <2>6, <2>7, <2>9 DEF Newest
  <2>11. Below(got', row.pending)
    BY <2>1, <2>6, <2>7, <2>9 DEF Below
  <2>12. \A j \in DOMAIN got' \ {i} : Clean(family', got'[j])
    BY <2>7, <1>5 DEF AllClean
  <2>13. Waits(i, row)'
    BY <2>1, <2>6, <2>7, <2>8, <2>10, <2>11, <2>12, <1>1 DEF Waits
  <2>14. back' = << >>
    BY <2>5, <1>2 DEF OnTheWay
  <2> QED
    BY <2>13, <2>14, <1>1, <1>7 DEF ToAnswer, Quiet
<1> QED
  BY <1>3, <1>8, <1>9 DEF Ahead

\* An answer under way, and how it will be loaded.
LEMMA AnswerGoes ==
  ASSUME AllIdle, there = << >>, back = << >>, work' = work, there' = there, family' = family,
         NEW m \in Back, NEW w \in Works, back' = << m >>, HeardAs(m, w), sent' = sent, Answering(w)'
  PROVE  AnswerOnTheWay'
<1>1. AllIdle'
  BY DEF AllIdle, Idle
<1>2. Pending(m.id)' = Pending(m.id)
  BY DEF Pending, SelectLastInSeq
<1>3. HeardAs(m, w)'
  BY <1>2 DEF HeardAs
<1> QED
  BY <1>1, <1>3 DEF AnswerOnTheWay

LEMMA AnswerNext ==
  ASSUME TypeOK, OneAtATime, family' = family, NEW accepts \in BOOLEAN, Answer(accepts), calm'
  PROVE  AnswerOnTheWay'
<1>1. family = "allocation" /\ sent' = sent /\ there' = there /\ work' = work
  BY DEF Answer
<1>2. got \in Seq(GotRow) /\ sent \in Seq(SentRow) /\ calm \in BOOLEAN
  BY DEF TypeOK
<1>3. PICK i \in DOMAIN got :
        LET row == got[i]
            answered == IF row.slot = "New" THEN row.id ELSE row.pending
        IN  /\ Find(got, row.id) = i /\ row.slot # "none"
            /\ Puts(i, CASE row.slot = "New" -> [Cleared(row) EXCEPT !.status = IF accepts THEN "Accepted" ELSE "Rejected"]
                         [] row.slot # "New" /\ accepts -> Promoted(row)
                         [] OTHER -> Cleared(row))
            /\ \/ back' = Append(back, Ack(answered, accepts)) /\ UNCHANGED calm
               \/ calm' = FALSE /\ UNCHANGED back
  BY DEF Answer
<1>4. PICK row \in GotRow : row = got[i]
  BY <1>2, InTable
<1>5. PICK answered : answered = IF row.slot = "New" THEN row.id ELSE row.pending
  OBVIOUS
<1>6. /\ row.slot # "none"
      /\ Puts(i, CASE row.slot = "New" -> [Cleared(row) EXCEPT !.status = IF accepts THEN "Accepted" ELSE "Rejected"]
                   [] row.slot # "New" /\ accepts -> Promoted(row)
                   [] OTHER -> Cleared(row))
      /\ back' = Append(back, Ack(answered, accepts)) /\ calm
  BY <1>3, <1>4, <1>5, Zenon
<1>7. ToAnswer
  BY <1>4, <1>6, PhaseIs
<1>8. Waits(i, row)
  <2>1. PICK j, other : Waits(j, other)
    BY <1>7 DEF ToAnswer
  <2>2. j = i
    BY <2>1, <1>4, <1>6 DEF Waits, Clean
  <2> QED
    BY <2>1, <2>2, <1>4 DEF Waits
<1>9. AllIdle /\ there = << >> /\ back = << >>
  BY <1>7 DEF ToAnswer, Quiet
<1>10. PICK m \in Back : /\ m = Ack(answered, accepts) /\ m.id = answered
                         /\ m.trans = IF accepts THEN "accepted" ELSE "rejected"
  <2>1. answered \in Nat
    BY <1>5 DEF GotRow
  <2>2. Ack(answered, accepts) \in Back
    BY <2>1 DEF Ack, Back
  <2>3. /\ Ack(answered, accepts).id = answered
        /\ Ack(answered, accepts).trans = IF accepts THEN "accepted" ELSE "rejected"
    BY DEF Ack
  <2> QED
    BY <2>2, <2>3
<1>11. back' = << m >>
  BY <1>6, <1>9, <1>10, OneMessage
<1>12. \A j \in DOMAIN got \ {i} : Clean(family, got[j])
  BY <1>8 DEF Waits
<1>13. ASSUME NEW w \in AnswersOf, HeardAs(m, w), w.at = i, got' = [sent EXCEPT ![i] = Answered(w)],
              NEW new, got' = [got EXCEPT ![i] = new], Clean(family, new)
       PROVE  AnswerOnTheWay'
  <2>1. DOMAIN got' = DOMAIN got /\ got'[i] = new /\ \A j \in DOMAIN got \ {i} : got'[j] = got[j]
    BY <1>2, <1>13, PutIs
  <2>2. AllClean(family', got')
    BY <2>1, <1>1, <1>12, <1>13 DEF AllClean
  <2>3. got' = [sent' EXCEPT ![w.at] = Answered(w)']
    BY <1>1, <1>13, FamilyKept
  <2>4. w.at \in DOMAIN sent'
    BY <1>1, <1>13 DEF HeardAs
  <2>5. Answering(w)'
    BY <2>2, <2>3, <2>4 DEF Answering
  <2>6. w \in Works
    BY DEF Works
  <2> QED
    BY <2>5, <2>6, <1>1, <1>9, <1>11, <1>13, AnswerGoes
<1>14. CASE row.slot = "New"
  <2>1. row.pending = 0 /\ row.parked = 0 /\ row.count = 0 /\ Newest(got, row.id, i)
        /\ sent = [got EXCEPT ![i] = [row EXCEPT !.slot = "none", !.status = "Sent"]]
    BY <1>8, <1>14 DEF Waits
  <2>2. PICK was \in GotRow : was = [row EXCEPT !.slot = "none", !.status = "Sent"]
    BY DEF GotRow, Statuses
  <2>3. PICK status \in Statuses : status = IF accepts THEN "Accepted" ELSE "Rejected"
    BY DEF Statuses
  <2>4. PICK new : new = [Cleared(row) EXCEPT !.status = status]
    OBVIOUS
  <2>5. got' = [got EXCEPT ![i] = new]
    BY <2>3, <2>4, <1>6, <1>14 DEF Puts
  <2>6. new = [row EXCEPT !.status = status, !.slot = "none"] /\ new = [was EXCEPT !.status = status]
    BY <2>1, <2>2, <2>4 DEF Cleared, GotRow
  <2>7. Clean(family, new)
    BY <2>1, <2>6 DEF Clean, GotRow
  <2>8. DOMAIN sent = DOMAIN got /\ sent[i] = was /\ \A j \in DOMAIN got \ {i} : sent[j] = got[j]
    BY <2>1, <2>2, <1>2, PutIs
  <2>9. was \in SentRow
    BY <2>8, <1>2, InTable
  <2>10. Find(sent, row.id) = i
    <3>1. was.id = row.id
      BY <2>2 DEF GotRow
    <3>2. Newest(sent, row.id, i)
      BY <3>1, <2>1, <2>8, <1>4 DEF Newest
    <3> QED
      BY <3>2, <1>2, NewestFind
  <2>11. PICK w : w = [step |-> "answer", at |-> i, was |-> was, m |-> m, isNamed |-> TRUE]
    OBVIOUS
  <2>12. w \in AnswersOf /\ w.m = m /\ w.at = i /\ w.was = was /\ w.isNamed = TRUE
    BY <2>9, <2>11, <1>2, InTable DEF AnswersOf
  <2>13. m.id = row.id
    BY <1>5, <1>10, <1>14
  <2>14. HeardAs(m, w)
    BY <2>8, <2>10, <2>12, <2>13 DEF HeardAs
  <2>15. Answered(w) = new
    <3>1. Answered(w) = [was EXCEPT !.status = IF m.trans = "accepted" THEN "Accepted" ELSE "Rejected"]
      BY <2>12, <1>1 DEF Answered
    <3>2. (IF m.trans = "accepted" THEN "Accepted" ELSE "Rejected") = status
      BY <2>3, <1>10
    <3> QED
      BY <3>1, <3>2, <2>6
  <2>16. got' = [sent EXCEPT ![i] = Answered(w)]
    BY <2>1, <2>5, <2>15, <1>2, PutIs
  <2> QED
    BY <2>5, <2>7, <2>12, <2>14, <2>16, <1>13
<1>15. CASE row.slot # "New"
  <2>1. row.slot \in {"R", "C"} /\ (row.slot = "R" => row.parked = row.pending) /\ Below(got, row.pending)
        /\ sent = [got EXCEPT ![i] = [row EXCEPT !.parked = row.pending]] /\ row.count = 0
    BY <1>8, <1>15 DEF Waits
  <2>2. PICK was \in GotRow : was = [row EXCEPT !.parked = row.pending]
    BY DEF GotRow
  <2>3. was.id = row.id /\ was.slot = row.slot /\ was.pending = row.pending
    BY <2>2 DEF GotRow
  <2>4. PICK new : new = IF accepts THEN Promoted(row) ELSE Cleared(row)
    OBVIOUS
  <2>5. got' = [got EXCEPT ![i] = new]
    <3>1. CASE accepts
      BY <3>1, <2>4, <1>6, <1>15 DEF Puts
    <3>2. CASE ~accepts
      BY <3>2, <2>4, <1>6, <1>15 DEF Puts
    <3> QED
      BY <3>1, <3>2
  <2>6. Promoted(was) = Promoted(row) /\ Cleared(was) = Cleared(row)
    <3>1. Cleared(was) = Cleared(row)
      BY <2>2 DEF Cleared, GotRow
    <3>2. CASE row.slot = "R"
      <4>1. was = row
        BY <3>2, <2>1, <2>2 DEF GotRow
      <4> QED
        BY <4>1
    <3>3. CASE row.slot = "C"
      <4>1. was.status = row.status /\ was.terms = row.terms /\ was.count = row.count
        BY <2>2 DEF GotRow
      <4>2. PICK x \in GotRow : x = Promoted(was)
        BY PromotedIs DEF SentRow
      <4>3. PICK y \in GotRow : y = Promoted(row)
        BY PromotedIs DEF SentRow
      <4>4. /\ x.id = was.pending /\ x.terms = was.terms /\ x.status = "Canceled" /\ x.slot = "none"
            /\ x.pending = 0 /\ x.parked = 0 /\ x.count = was.count
        BY <4>2, <3>3, <2>3 DEF Promoted, GotRow
      <4>5. /\ y.id = row.pending /\ y.terms = row.terms /\ y.status = "Canceled" /\ y.slot = "none"
            /\ y.pending = 0 /\ y.parked = 0 /\ y.count = row.count
        BY <4>3, <3>3 DEF Promoted, GotRow
      <4>6. x = y
        BY <4>1, <4>4, <4>5, <2>3, SameRow
      <4> QED
        BY <3>1, <4>2, <4>3, <4>6
    <3> QED
      BY <3>1, <3>2, <3>3, <2>1
  <2>7. Clean(family, new)
    <3>1. Clean(family, Promoted(row))
      BY <2>1 DEF Clean, Promoted, GotRow
    <3>2. Clean(family, Cleared(row))
      BY <2>1 DEF Clean, Cleared, GotRow
    <3> QED
      BY <3>1, <3>2, <2>4
  <2>8. DOMAIN sent = DOMAIN got /\ sent[i] = was /\ \A j \in DOMAIN got \ {i} : sent[j] = got[j]
    BY <2>1, <2>2, <1>2, PutIs
  <2>9. was \in SentRow
    BY <2>8, <1>2, InTable
  <2>10. m.id = row.pending
    BY <1>5, <1>10, <1>15
  <2>11. Find(sent, row.pending) = 0
    <3>1. \A j \in DOMAIN got : got[j].id < row.pending /\ got[j].id \in Nat /\ row.pending \in Nat
      <4>1. \A j \in DOMAIN got : got[j] \in GotRow
        BY <1>2, InTable
      <4> QED
        BY <4>1, <2>1 DEF Below, GotRow
    <3>2. \A j \in DOMAIN sent : sent[j].id = got[j].id
      BY <2>3, <2>8, <1>4
    <3>3. \A j \in DOMAIN sent : sent[j].id # row.pending
      BY <3>1, <3>2, <2>8
    <3> QED
      BY <3>3, <1>2, NewestFind
  <2>12. Pending(row.pending) = i
    <3>1. /\ Pending(row.pending) \in 0 .. Len(sent) /\ DOMAIN sent = 1 .. Len(sent) /\ Len(sent) \in Nat
          /\ Pending(row.pending) # 0 => Pending(row.pending) \in DOMAIN sent /\ sent[Pending(row.pending)].slot # "none"
          /\ \A j \in DOMAIN sent : sent[j].pending = row.pending /\ sent[j].slot # "none" => j <= Pending(row.pending)
      BY <1>2, PendingIs, InTable
    <3>2. i <= Pending(row.pending)
      BY <3>1, <2>1, <2>3, <2>8
    <3>3. i # 0 /\ i \in Nat
      BY <3>1, <2>8
    <3>4. Pending(row.pending) # 0
      BY <3>1, <3>2, <3>3
    <3>5. \A j \in DOMAIN sent \ {i} : sent[j].slot = "none"
      BY <2>8, <1>12 DEF Clean
    <3> QED
      BY <3>1, <3>4, <3>5
  <2>13. PICK w : w = [step |-> "answer", at |-> i, was |-> was, m |-> m, isNamed |-> FALSE]
    OBVIOUS
  <2>14. w \in AnswersOf /\ w.m = m /\ w.at = i /\ w.was = was /\ w.isNamed = FALSE
    BY <2>9, <2>13, <1>2, InTable DEF AnswersOf
  <2>15. HeardAs(m, w)
    BY <2>8, <2>10, <2>11, <2>12, <2>14, <1>1 DEF HeardAs
  <2>16. Answered(w) = new
    <3>1. CASE accepts
      <4>1. Answered(w) = Promoted(was)
        BY <3>1, <2>14, <1>1, <1>10 DEF Answered
      <4> QED
        BY <3>1, <4>1, <2>4, <2>6
    <3>2. CASE ~accepts
      <4>1. Answered(w) = Cleared(was)
        BY <3>2, <2>14, <1>1, <1>10 DEF Answered
      <4> QED
        BY <3>2, <4>1, <2>4, <2>6
    <3> QED
      BY <3>1, <3>2
  <2>17. got' = [sent EXCEPT ![i] = Answered(w)]
    BY <2>1, <2>5, <2>16, <1>2, PutIs
  <2> QED
    BY <2>5, <2>7, <2>14, <2>15, <2>17, <1>13
<1> QED
  BY <1>14, <1>15

LEMMA LoadLinkNext ==
  ASSUME TypeOK, OneAtATime, family' = family, LoadLink, calm'
  PROVE  SomeInHand'
<1>1. calm' = (calm /\ Over) /\ sent' = sent /\ got' = got /\ there' = there /\ back' = back
      /\ family = "rfq_request" /\ Linker \in Tasks
  BY DEF LoadLink, Tasks
<1>2. Settled
  BY <1>1, PhaseIs
<1>3. got \in Seq(GotRow)
  BY DEF TypeOK
<1>4. PICK i \in DOMAIN got : Find(got, got[i].id) = i /\ Does(Linker, [step |-> "link", at |-> i, was |-> got[i]])
  BY DEF LoadLink
<1>5. PICK was \in GotRow : was = got[i] /\ i \in Nat /\ i # 0
  BY <1>3, <1>4, InTable
<1> DEFINE w == [step |-> "link", at |-> i, was |-> was]
<1>6. w \in Works /\ Does(Linker, w) /\ w.step = "link" /\ w.at = i /\ w.was = was
  BY <1>4, <1>5 DEF Works, Links
<1> HIDE DEF w
<1>7. work'[Linker] = w /\ \A u \in Tasks \ {Linker} : work'[u] = work[u]
  BY <1>1, <1>6, Doing
<1>8. Newest(got, was.id, i)
  BY <1>3, <1>4, <1>5, NewestFind
<1>9. Newest(got', w.was.id, w.at) /\ w.was = got'[w.at] /\ family' = "rfq_request"
  BY <1>1, <1>5, <1>6, <1>8
<1>10. Agree'
  BY <1>1, <1>2 DEF Settled, Agree
<1> QED
  BY <1>1, <1>2, <1>6, <1>7, <1>9, <1>10, TakesIt DEF Settled, AllIdle, Quiet

LEMMA LinkNext ==
  ASSUME TypeOK, OneAtATime, family' = family, Link, calm'
  PROVE  SomeInHand'
<1>1. Linker \in Tasks /\ work[Linker].step = "link" /\ calm
      /\ sent' = sent /\ there' = there /\ back' = back
  BY DEF Link, Tasks
<1>2. PICK w \in Links : w = work[Linker]
  BY <1>1, WorkIs DEF TypeOK
<1>3. InHand(Linker, w) /\ w.step = "link"
  BY <1>1, <1>2, PhaseIs
<1>4. family = "rfq_request" /\ Agree /\ Newest(got, w.was.id, w.at) /\ w.was = got[w.at] /\ Quiet
      /\ \A u \in Tasks \ {Linker} : Idle(u)
  BY <1>3 DEF InHand
<1>5. sent \in Seq(SentRow) /\ got \in Seq(GotRow) /\ sent = got /\ AllClean(family, got) /\ there = << >> /\ back = << >>
  BY <1>4 DEF TypeOK, Agree, Quiet
<1>6. PICK was \in SentRow : was = w.was /\ was = sent[w.at] /\ w.at \in DOMAIN sent /\ w.at \in Nat
  BY <1>4, <1>5, InTable DEF Newest
<1>7. PICK new : new = [was EXCEPT !.count = was.count + 1]
  OBVIOUS
<1>8. PICK m \in Back : m = Msg("quote request", was.id, 0, 0) /\ m.id = was.id
  <2>1. was.id \in Nat
    BY DEF SentRow, GotRow
  <2>2. Msg("quote request", was.id, 0, 0) \in Back /\ Msg("quote request", was.id, 0, 0).id = was.id
    BY <2>1 DEF Msg, Back
  <2> QED
    BY <2>2
<1>9. got' = [got EXCEPT ![w.at] = new] /\ Does(Linker, [step |-> "ask", id |-> was.id])
  BY <1>2, <1>6, <1>7 DEF Link, Puts
<1>10. PICK v : v = [step |-> "answer", at |-> w.at, was |-> was, m |-> m, isNamed |-> TRUE]
  OBVIOUS
<1>11. v \in AnswersOf /\ v.m = m /\ v.at = w.at /\ v.was = was /\ v.isNamed = TRUE
  BY <1>6, <1>10 DEF AnswersOf
<1>12. v \in Works
  BY <1>11 DEF Works
<1>13. Find(sent, was.id) = w.at
  BY <1>4, <1>5, <1>6, NewestFind
<1>14. HeardAs(m, v)'
  BY <1>1, <1>6, <1>8, <1>11, <1>13 DEF HeardAs
<1>15. Answered(v) = new
  BY <1>4, <1>7, <1>11 DEF Answered
<1>16. Clean(family, new)
  BY <1>4, <1>5, <1>6, <1>7 DEF AllClean, Clean, SentRow, GotRow
<1>17. AllClean(family', got')
  BY <1>5, <1>6, <1>9, <1>16, CleanPut
<1>18. Answering(v)'
  BY <1>1, <1>5, <1>6, <1>9, <1>11, <1>15, <1>17, FamilyKept DEF Answering
<1> DEFINE u == [step |-> "ask", id |-> was.id]
<1>19. u \in Works /\ u.step = "ask" /\ u.id = was.id /\ Does(Linker, u)
  BY <1>8, <1>9 DEF Works, Asks, Back
<1> HIDE DEF u
<1>20. work'[Linker] = u /\ \A t \in Tasks \ {Linker} : work'[t] = work[t]
  BY <1>1, <1>19, Doing
<1>21. Asking(u)'
  BY <1>8, <1>12, <1>14, <1>18, <1>19 DEF Asking
<1>22. there' = << >> /\ back' = << >>
  BY <1>1, <1>5
<1> QED
  BY <1>1, <1>4, <1>19, <1>20, <1>21, <1>22, TakesIt

LEMMA SendQuoteRequestNext ==
  ASSUME TypeOK, OneAtATime, family' = family, SendQuoteRequest, calm'
  PROVE  AnswerOnTheWay'
<1>1. Linker \in Tasks /\ work[Linker].step = "ask" /\ Does(Linker, Rest) /\ calm
      /\ sent' = sent /\ got' = got /\ there' = there /\ back' = Append(back, Msg("quote request", work[Linker].id, 0, 0))
  BY DEF SendQuoteRequest, Tasks
<1>2. PICK w \in Asks : w = work[Linker]
  BY <1>1, WorkIs DEF TypeOK
<1>3. InHand(Linker, w) /\ w.step = "ask"
  BY <1>1, <1>2, PhaseIs
<1>4. Asking(w) /\ Quiet /\ \A u \in Tasks \ {Linker} : Idle(u)
  BY <1>3 DEF InHand
<1>5. PICK m \in Back : m = Msg("quote request", w.id, 0, 0)
  BY DEF Msg, Back, Asks
<1>6. PICK v \in Works : HeardAs(m, v) /\ Answering(v)
  BY <1>4, <1>5 DEF Asking
<1>7. there' = << >> /\ back' = << m >>
  BY <1>1, <1>2, <1>4, <1>5, OneMessage DEF Quiet
<1>8. HeardAs(m, v)'
  BY <1>1, <1>6 DEF HeardAs, Pending, SelectLastInSeq
<1>9. Answering(v)'
  BY <1>1, <1>6, FamilyKept DEF Answering
<1>10. Rest \in Works
  BY DEF Works
<1>11. work'[Linker] = Rest /\ \A u \in Tasks \ {Linker} : work'[u] = work[u]
  BY <1>1, <1>10, Doing
<1>12. AllIdle'
  BY <1>1, <1>4, <1>11, LetsGo
<1> QED
  BY <1>7, <1>8, <1>9, <1>12 DEF AnswerOnTheWay

LEMMA HearNext ==
  ASSUME TypeOK, OneAtATime, family' = family, Hear, calm'
  PROVE  SomeInHand'
<1>1. back # << >> /\ back' = Tail(back) /\ calm /\ sent' = sent /\ got' = got /\ there' = there /\ Reader \in Tasks
  BY DEF Hear, Reads, Tasks
<1>2. AnswerOnTheWay
  BY <1>1, PhaseIs
<1>3. PICK m \in Back, w \in Works : AllIdle /\ there = << >> /\ back = << m >> /\ HeardAs(m, w) /\ Answering(w)
  BY <1>2 DEF AnswerOnTheWay
<1>4. m = Head(back) /\ back' = << >>
  BY <1>1, <1>3, OneMessage
<1>5. sent \in Seq(SentRow)
  BY DEF TypeOK
<1>6. w \in AnswersOf /\ w.m = m /\ w.at \in DOMAIN sent /\ w.was = sent[w.at] /\ w.step = "answer" /\ w.at # 0
  BY <1>3, <1>5, InTable DEF HeardAs, AnswersOf
<1>7. PICK named : named = Find(sent, m.id)
  OBVIOUS
<1>8. PICK i : i = IF named # 0 \/ family = "rfq_request" THEN named ELSE Pending(m.id)
  OBVIOUS
<1>9. IF i = 0 THEN work' = work
      ELSE Does(Reader, [step |-> "answer", at |-> i, was |-> sent[i], m |-> m, isNamed |-> named # 0])
  BY <1>4, <1>7, <1>8 DEF Hear
<1>10. i = w.at /\ w.isNamed = (named # 0)
  BY <1>3, <1>6, <1>7, <1>8 DEF HeardAs
<1>11. w = [step |-> "answer", at |-> w.at, was |-> w.was, m |-> w.m, isNamed |-> w.isNamed]
  BY <1>6 DEF AnswersOf
<1>12. Does(Reader, w)
  BY <1>6, <1>9, <1>10, <1>11
<1>13. work'[Reader] = w /\ \A u \in Tasks \ {Reader} : work'[u] = work[u]
  BY <1>1, <1>12, Doing
<1>14. Answering(w)'
  BY <1>1, <1>3, FamilyKept DEF Answering
<1> QED
  BY <1>1, <1>3, <1>4, <1>6, <1>13, <1>14, TakesIt DEF AllIdle

LEMMA WriteAnswerNext ==
  ASSUME TypeOK, OneAtATime, family' = family, WriteAnswer, calm'
  PROVE  Settled'
<1>1. Reader \in Tasks /\ work[Reader].step = "answer" /\ Does(Reader, Rest) /\ calm
      /\ got' = got /\ there' = there /\ back' = back
  BY DEF WriteAnswer, Tasks
<1>2. PICK w \in AnswersOf : w = work[Reader]
  BY <1>1, WorkIs DEF TypeOK
<1>3. InHand(Reader, w) /\ w.step = "answer"
  BY <1>1, <1>2, PhaseIs
<1>4. Answering(w) /\ Quiet /\ \A u \in Tasks \ {Reader} : Idle(u)
  BY <1>3 DEF InHand
<1>5. sent' = [sent EXCEPT ![w.at] = Answered(w)]
  BY <1>2 DEF WriteAnswer
<1>6. Agree'
  BY <1>1, <1>4, <1>5 DEF Answering, Agree
<1>7. Rest \in Works
  BY DEF Works
<1>8. work'[Reader] = Rest /\ \A u \in Tasks \ {Reader} : work'[u] = work[u]
  BY <1>1, <1>7, Doing
<1>9. AllIdle'
  BY <1>1, <1>4, <1>8, LetsGo
<1> QED
  BY <1>1, <1>4, <1>6, <1>9 DEF Settled, Quiet

\* Two sides with nothing sent agree,
LEMMA InitPhase == Init => OneAtATime
<1> SUFFICES ASSUME Init PROVE Settled
  BY DEF OneAtATime
<1>1. AllIdle
  BY DEF Init, AllIdle, Idle, Rest
<1>2. Quiet /\ Agree
  BY DEF Init, Quiet, Agree, AllClean
<1> QED
  BY <1>1, <1>2 DEF Settled

\* and every step of a request made alone goes to the next phase.
LEMMA NextPhase == IInv /\ OneAtATime /\ [Next]_vars => OneAtATime'
<1> SUFFICES ASSUME IInv, OneAtATime, [Next]_vars, calm' PROVE OneAtATime'
  BY DEF OneAtATime
<1>1. TypeOK /\ Minted
  <2>1. PICK T : Agrees(T)
    BY DEF IInv
  <2>2. sent \in Seq(SentRow) /\ minted \in Nat
    BY DEF IInv, TypeOK
  <2>3. \A i \in DOMAIN sent : sent[i].id \in 0 .. minted
    BY <2>1, <2>2, InTable DEF Agrees, Means
  <2> QED
    BY <2>2, <2>3 DEF IInv, Minted
<1>2. ASSUME NEW c \in Callers, family' = family, Send(c) \/ Load(c) \/ LoadUnsubscribe(c) \/ Request(c) \/ SendMessage(c)
      PROVE  SomeInHand' \/ OnTheWay'
  BY <1>1, <1>2, SendNext, LoadNext, RequestNext, SendMessageNext
<1>3. ASSUME family' = family, ReceiveNotice \/ ReceiveAllocation \/ ReceiveRfqRequest \/ CloseRfqRequest
      PROVE  Settled' \/ ToAnswer' \/ SomeInHand'
  BY <1>1, <1>3, ReceiveNoticeNext, ReceiveAllocationNext, ReceiveRfqRequestNext, CloseRfqRequestNext
<1>4. ASSUME family' = family, Answer(TRUE) \/ Answer(FALSE) \/ LoadLink \/ Link \/ SendQuoteRequest
      PROVE  AnswerOnTheWay' \/ SomeInHand'
  BY <1>1, <1>4, AnswerNext, LoadLinkNext, LinkNext, SendQuoteRequestNext
<1>5. ASSUME family' = family, Hear \/ WriteAnswer PROVE SomeInHand' \/ Settled'
  BY <1>1, <1>5, HearNext, WriteAnswerNext
<1>6. CASE UNCHANGED vars
  <2>1. /\ family' = family /\ sent' = sent /\ got' = got /\ there' = there /\ back' = back
        /\ work' = work /\ calm' = calm
    BY <1>6 DEF vars, changing
  <2>2. Agree' = Agree /\ Quiet' = Quiet /\ AllIdle' = AllIdle
    BY <2>1 DEF Agree, Quiet, AllIdle, Idle
  <2>3. \A m : Ahead(m) => Ahead(m)'
    BY <2>1, FamilyKept DEF Ahead, Adds, Changes
  <2>4. \A w : Answering(w) => Answering(w)'
    BY <2>1, FamilyKept DEF Answering
  <2>5. \A m, w : HeardAs(m, w) => HeardAs(m, w)'
    BY <2>1 DEF HeardAs, Pending, SelectLastInSeq
  <2>6. \A i, row : Waits(i, row) => Waits(i, row)'
    BY <2>1 DEF Waits
  <2>7. \A t, w : InHand(t, w) => InHand(t, w)'
    <3>1. \A w : (Asking(w) => Asking(w)') /\ (Closing(w) => Closing(w)')
      BY <2>1, <2>4, <2>5 DEF Asking, Closing
    <3> QED
      BY <2>1, <2>2, <2>3, <2>4, <3>1 DEF InHand, Idle
  <2>8. Settled => Settled'
    BY <2>2 DEF Settled
  <2>9. SomeInHand => SomeInHand'
    BY <2>1, <2>7 DEF SomeInHand
  <2>10. OnTheWay => OnTheWay'
    BY <2>1, <2>2, <2>3 DEF OnTheWay
  <2>11. ToAnswer => ToAnswer'
    BY <2>1, <2>2, <2>6 DEF ToAnswer
  <2>12. AnswerOnTheWay => AnswerOnTheWay'
    BY <2>1, <2>2, <2>4, <2>5 DEF AnswerOnTheWay
  <2> QED
    BY <2>1, <2>8, <2>9, <2>10, <2>11, <2>12 DEF OneAtATime
<1> QED
  BY <1>2, <1>3, <1>4, <1>5, <1>6 DEF Next, Moves, OneAtATime

\* Requests made one at a time and none failing, both sides have the same chains
\* whenever the last is over.
THEOREM ChainsAgreeEver == Spec => []ChainsAgree
<1>1. OneAtATime => ChainsAgree
  BY PhaseIs DEF ChainsAgree, Settled, Agree
<1>2. Init => IInv /\ OneAtATime
  BY InitAgrees, InitPhase
<1>3. IInv /\ OneAtATime /\ [Next]_vars => (IInv /\ OneAtATime)'
  BY NextAgrees, NextPhase
<1> QED
  BY <1>1, <1>2, <1>3, PTL DEF Spec
=============================================================================
