------------------------------ MODULE Families ------------------------------
(***************************************************************************)
(* IOIs, advertisements, allocations and RFQ requests (FixEngine of         *)
(* fix/engine.py, families.py): chains of IDs that one engine sends and     *)
(* another receives, each with a row per chain.  A Replace or a Cancel is a *)
(* new ID naming the last one.  Nothing answers an IOI or an advert, an     *)
(* allocation is answered by an Ack, and an RFQ request by the              *)
(* QuoteRequests that name it.                                             *)
(*                                                                         *)
(* A task that changes a row writes the whole of it back as it loaded it,   *)
(* and takes no lock: load and write are two steps, and others come between.*)
(* Two are one step: the receiver of allocations works under the order lock,*)
(* and nobody but the read loop writes a received IOI or advertisement.     *)
(***************************************************************************)
EXTENDS Integers, Sequences, FiniteSets, SequencesExt

CONSTANTS Kinds,        \* the families of the behaviours, one of them each
          Callers,      \* tasks that send
          MaxIds,       \* bound: IDs minted, and unsubscribes
          MaxCount      \* bound: QuoteRequests naming an RFQ request

Rest == [step |-> "idle"]
Reader == "read loop"           \* of the sending side
Listener == "their read loop"   \* of the receiving side
Linker == "send_rfq"            \* of the receiving side, naming an RFQ request
Tasks == Callers \cup {Reader, Listener, Linker}

ASSUME FamiliesAssumption ==
    /\ Kinds \subseteq {"ioi", "advert", "allocation", "rfq_request"} /\ {MaxIds, MaxCount} \subseteq Nat
    /\ {Reader, Listener, Linker} \cap Callers = {}

VARIABLES family,       \* the family
          sent, got,    \* its table on the sending and on the receiving side, by row ID
          there, back,  \* messages under way
          work,         \* what each task has loaded and is about to write
          minted,       \* IDs minted
          calm          \* auxiliary: no request was made before the last was over, and none failed

changing == << sent, got, there, back, work, minted, calm >>
vars == << family, changing >>

Init ==
    /\ family \in Kinds
    /\ sent = << >> /\ got = << >> /\ there = << >> /\ back = << >>
    /\ work = [t \in Tasks |-> Rest] /\ minted = 0 /\ calm = TRUE

Idle(t) == work[t].step = "idle"
Does(t, w) == work' = [work EXCEPT ![t] = w]

\* terms is the ID of the request the row's terms came with; slot, pending and
\* the terms parked with them are an allocation's ("none": nothing is pending); count
\* an RFQ request's.
NewRow(id, status, slot) ==
    [id |-> id, status |-> status, terms |-> id, slot |-> slot, pending |-> 0, parked |-> 0, count |-> 0]

\* _find_family_row: the newest row with the ID.
Find(rows, id) == SelectLastInSeq(rows, LAMBDA r : r.id = id)

Msg(trans, id, ref, terms) == [trans |-> trans, id |-> id, ref |-> ref, terms |-> terms]
Ack(id, accepts) == [trans |-> IF accepts THEN "accepted" ELSE "rejected", id |-> id, ref |-> 0, terms |-> 0]

\* The last request is over: read, answered, and its answer read.
Over ==
    /\ there = << >> /\ back = << >> /\ \A t \in Tasks : Idle(t)
    /\ \A i \in DOMAIN got : got[i].slot = "none"

-----------------------------------------------------------------------------
(* The sending side's callers. *)

\* An allocation's row is Sent until the Ack.
FirstStatus == IF family = "allocation" THEN "Sent" ELSE "Active"

\* send_ioi, send_advert, send_allocation, send_rfq_request: an ID, and a row of its
\* own written before the message goes.
Send(c) ==
    /\ Idle(c) /\ minted < MaxIds /\ minted' = minted + 1
    /\ LET row == NewRow(minted', FirstStatus, "none")
       IN  /\ sent' = Append(sent, row)
           /\ Does(c, [step |-> "send", at |-> Len(sent'), m |-> Msg("N", minted', 0, minted'),
                       back |-> [row EXCEPT !.status = "Failed"]])
    /\ calm' = (calm /\ Over)
    /\ UNCHANGED << got, there, back >>

\* replace_ and cancel_ of the three: the row is loaded, then an ID awaited.
Load(c) ==
    /\ family # "rfq_request" /\ Idle(c) /\ minted < MaxIds /\ minted' = minted + 1
    /\ \E i \in DOMAIN sent, trans \in {"R", "C"} :
          /\ Find(sent, sent[i].id) = i
          /\ Does(c, [step |-> "request", at |-> i, was |-> sent[i], trans |-> trans, id |-> minted'])
    /\ calm' = (calm /\ Over)
    /\ UNCHANGED << sent, got, there, back >>

\* unsubscribe_rfq_request, up to its write: an active one, under its own ID (what
\* it mints is not used: it bounds how many there are).
LoadUnsubscribe(c) ==
    /\ family = "rfq_request" /\ Idle(c) /\ minted < MaxIds /\ minted' = minted + 1
    /\ \E i \in DOMAIN sent :
          /\ Find(sent, sent[i].id) = i /\ sent[i].status = "Active"
          /\ Does(c, [step |-> "request", at |-> i, was |-> sent[i], trans |-> "C", id |-> sent[i].id])
    /\ calm' = (calm /\ Over)
    /\ UNCHANGED << sent, got, there, back >>

\* The row as a request leaves it: an allocation's waits in the slot for the
\* Ack, the others take effect at once.
Requested(w) ==
    CASE family = "allocation" -> [w.was EXCEPT !.slot = w.trans, !.pending = w.id, !.parked = w.id]
      [] family = "rfq_request" -> [w.was EXCEPT !.status = "Unsubscribed"]
      [] family \in {"ioi", "advert"} /\ w.trans = "R" -> [w.was EXCEPT !.id = w.id, !.terms = w.id, !.status = "Active"]
      [] OTHER -> [w.was EXCEPT !.id = w.id, !.status = "Canceled"]

\* The terms a request carries: its own, or a Cancel's the row's.
TermsOf(w) == IF w.trans = "R" THEN w.id ELSE w.was.terms

\* The write of the whole row, of a row loaded before.
Request(c) ==
    /\ work[c].step = "request"
    /\ LET w == work[c]
       IN  /\ sent' = [sent EXCEPT ![w.at] = Requested(w)]
           /\ Does(c, [step |-> "send", at |-> w.at, m |-> Msg(w.trans, w.id, w.was.id, TermsOf(w)), back |-> w.was])
    /\ UNCHANGED << got, there, back, minted, calm >>

\* _send_family_message: when it does not go, a new row is written Failed and a
\* changed one as it was loaded.
SendMessage(c) ==
    /\ work[c].step = "send" /\ Does(c, Rest)
    /\ \/ there' = Append(there, work[c].m) /\ UNCHANGED << sent, calm >>
       \/ sent' = [sent EXCEPT ![work[c].at] = work[c].back] /\ calm' = FALSE /\ UNCHANGED there
    /\ UNCHANGED << got, back, minted >>

-----------------------------------------------------------------------------
(* The receiving side. *)

Reads(channel) == channel # << >>
Puts(i, row) == got' = [got EXCEPT ![i] = row]

\* ioi_columns, advert_columns, allocation_columns: a row's terms, of a message.
WithTerms(row, m) == [row EXCEPT !.terms = m.terms]

\* The row of a received message, all but its identity.
Fresh(m) == WithTerms(NewRow(m.id, IF m.trans = "C" THEN "Canceled" ELSE "Active", "none"), m)

\* A plausible bug: the row is looked for by the message's own ID.
ReceiveByOwnId ==
    /\ family \in {"ioi", "advert"} /\ Reads(there) /\ there' = Tail(there)
    /\ LET m == Head(there)
           i == IF m.trans = "N" THEN 0 ELSE Find(got, m.id)
       IN  IF i = 0 THEN got' = Append(got, Fresh(m)) ELSE Puts(i, Fresh(m))
    /\ UNCHANGED << sent, back, work, minted, calm >>

\* _handle_ioi, _handle_advertisement: a reference to nothing starts a row.
ReceiveNotice ==
    /\ family \in {"ioi", "advert"} /\ Reads(there) /\ there' = Tail(there)
    /\ LET m == Head(there)
           i == IF m.trans = "N" THEN 0 ELSE Find(got, m.ref)
       IN  IF i = 0 THEN got' = Append(got, Fresh(m))
           ELSE Puts(i, IF m.trans = "R" THEN Fresh(m)
                        ELSE [got[i] EXCEPT !.id = m.id, !.status = "Canceled"])
    /\ UNCHANGED << sent, back, work, minted, calm >>

\* A plausible bug: a request parked over another leaves the ID of the first.
ParkedOver(row, m) ==
    [row EXCEPT !.slot = m.trans, !.parked = m.terms, !.pending = IF row.slot \in {"R", "C"} THEN @ ELSE m.id]

\* A Replace or a Cancel in the slot of the row it names.
Parked(row, m) == [row EXCEPT !.slot = m.trans, !.pending = m.id, !.parked = m.terms]

\* _handle_allocation: a New parks, a request parks in the slot of the row it
\* names, over what may be there; one that names none is refused at once.
ReceiveAllocation ==
    /\ family = "allocation" /\ Reads(there) /\ there' = Tail(there)
    /\ LET m == Head(there)
           i == Find(got, m.ref)
       IN  CASE m.trans = "N" -> got' = Append(got, WithTerms(NewRow(m.id, "PendingNew", "New"), m)) /\ UNCHANGED back
             [] m.trans # "N" /\ i # 0 ->
                   /\ Puts(i, Parked(got[i], m))
                   /\ UNCHANGED back
             [] OTHER -> back' = Append(back, Ack(m.id, FALSE)) /\ UNCHANGED got
    /\ UNCHANGED << sent, work, minted, calm >>

\* _promoted_allocation: an accepted request's ID and terms become the row's.
Promoted(row) ==
    [row EXCEPT !.id = row.pending, !.terms = IF row.slot = "R" THEN row.parked ELSE @,
                !.status = IF row.slot = "C" THEN "Canceled" ELSE "Accepted",
                !.slot = "none", !.pending = 0, !.parked = 0]

Cleared(row) == [row EXCEPT !.slot = "none", !.pending = 0, !.parked = 0]

\* accept_allocation and reject_allocation: what is pending, whatever it is.  A
\* send that fails leaves the row answered.
Answer(accepts) ==
    /\ family = "allocation"
    /\ \E i \in DOMAIN got :
          LET row == got[i]
              answered == IF row.slot = "New" THEN row.id ELSE row.pending
          IN  /\ Find(got, row.id) = i /\ row.slot # "none"
              /\ Puts(i, CASE row.slot = "New" -> [Cleared(row) EXCEPT !.status = IF accepts THEN "Accepted" ELSE "Rejected"]
                           [] row.slot # "New" /\ accepts -> Promoted(row)
                           [] OTHER -> Cleared(row))
              /\ \/ back' = Append(back, Ack(answered, accepts)) /\ UNCHANGED calm
                 \/ calm' = FALSE /\ UNCHANGED back
    /\ UNCHANGED << sent, there, work, minted >>

\* _handle_rfq_request: a subscription opens a row, and so does an unsubscribe
\* that names none; the row one names is loaded,
ReceiveRfqRequest ==
    /\ family = "rfq_request" /\ Idle(Listener) /\ Reads(there) /\ there' = Tail(there)
    /\ LET m == Head(there)
           i == IF m.trans = "C" THEN Find(got, m.id) ELSE 0
       IN  IF i # 0 THEN Does(Listener, [step |-> "close", at |-> i, was |-> got[i]]) /\ UNCHANGED got
           ELSE /\ got' = Append(got, NewRow(m.id, IF m.trans = "C" THEN "Unsubscribed" ELSE "Active", "none"))
                /\ UNCHANGED work
    /\ UNCHANGED << sent, back, minted, calm >>

\* and written, closed.
CloseRfqRequest ==
    /\ work[Listener].step = "close" /\ Does(Listener, Rest)
    /\ LET w == work[Listener] IN Puts(w.at, [w.was EXCEPT !.status = "Unsubscribed"])
    /\ UNCHANGED << sent, there, back, minted, calm >>

\* send_rfq naming an RFQ request: _link_rfq_request loads the request's row,
LoadLink ==
    /\ family = "rfq_request" /\ Idle(Linker)
    /\ \E i \in DOMAIN got :
          /\ Find(got, got[i].id) = i /\ got[i].count < MaxCount
          /\ Does(Linker, [step |-> "link", at |-> i, was |-> got[i]])
    /\ calm' = (calm /\ Over)
    /\ UNCHANGED << sent, got, there, back, minted >>

\* writes it, counted,
Link ==
    /\ work[Linker].step = "link"
    /\ LET w == work[Linker]
       IN  /\ Puts(w.at, [w.was EXCEPT !.count = @ + 1])
           /\ Does(Linker, [step |-> "ask", id |-> w.was.id])
    /\ UNCHANGED << sent, there, back, minted, calm >>

\* and the QuoteRequest leaves, or does not: the request stays counted.
SendQuoteRequest ==
    /\ work[Linker].step = "ask" /\ Does(Linker, Rest)
    /\ \/ back' = Append(back, Msg("quote request", work[Linker].id, 0, 0)) /\ UNCHANGED calm
       \/ calm' = FALSE /\ UNCHANGED back
    /\ UNCHANGED << sent, got, there, minted >>

-----------------------------------------------------------------------------
(* The sending side's read loop, a load and a write. *)

\* _handle_allocation_ack: the row whose current ID it answers, else the one whose
\* slot it answers; and _link_rfq_request for a QuoteRequest.  One that names
\* neither is only recorded.
Pending(id) == SelectLastInSeq(sent, LAMBDA r : r.pending = id /\ r.slot # "none")

Hear ==
    /\ Reads(back) /\ Idle(Reader) /\ back' = Tail(back)
    /\ LET m == Head(back)
           named == Find(sent, m.id)
           i == IF named # 0 \/ family = "rfq_request" THEN named ELSE Pending(m.id)
       IN  IF i = 0 THEN UNCHANGED work
           ELSE Does(Reader, [step |-> "answer", at |-> i, was |-> sent[i], m |-> m, isNamed |-> named # 0])
    /\ UNCHANGED << sent, got, there, minted, calm >>

Answered(w) ==
    CASE family = "rfq_request" -> [w.was EXCEPT !.count = @ + 1]
      [] family = "allocation" /\ w.isNamed ->
            [w.was EXCEPT !.status = IF w.m.trans = "accepted" THEN "Accepted" ELSE "Rejected"]
      [] family = "allocation" /\ ~w.isNamed /\ w.m.trans = "accepted" -> Promoted(w.was)
      [] OTHER -> Cleared(w.was)

WriteAnswer ==
    /\ work[Reader].step = "answer" /\ Does(Reader, Rest)
    /\ sent' = [sent EXCEPT ![work[Reader].at] = Answered(work[Reader])]
    /\ UNCHANGED << got, there, back, minted, calm >>

-----------------------------------------------------------------------------
Moves ==
    \/ \E c \in Callers : Send(c) \/ Load(c) \/ LoadUnsubscribe(c) \/ Request(c) \/ SendMessage(c)
    \/ ReceiveNotice \/ ReceiveAllocation \/ ReceiveRfqRequest \/ CloseRfqRequest
    \/ Answer(TRUE) \/ Answer(FALSE)
    \/ LoadLink \/ Link \/ SendQuoteRequest \/ Hear \/ WriteAnswer

Next == Moves /\ UNCHANGED family

Spec == Init /\ [][Next]_vars

-----------------------------------------------------------------------------
\* Each request made when the last is over and none failing, both sides end with
\* the same chains: the same ID, terms and status, nothing pending and as many
\* quote requests counted.
ChainsAgree == calm /\ Over => sent = got

\* Whatever crosses, fails or is written back late, an ID means the same terms on
\* both sides: a row is never renamed without the terms its ID stands for.
TermsFollowId ==
    \A i \in DOMAIN sent, j \in DOMAIN got :
        sent[i].id = got[j].id => sent[i].terms = got[j].terms

=============================================================================
