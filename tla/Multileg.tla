------------------------------ MODULE Multileg ------------------------------
(***************************************************************************)
(* One multileg order on both sides (FixEngine of fix/engine.py, and        *)
(* fix/multileg.py): its legs, sent with a NewOrderMultileg (AB), replaced  *)
(* by a MultilegOrderCancelReplace (AC) once that is accepted, and filled   *)
(* by reports of their own, while the order is filled by its.  A market     *)
(* action runs under the order lock until its report leaves and is one      *)
(* step, as is the writing of all legs; a fill of the order and then of     *)
(* each leg is many, with any other action between.  What a status says is  *)
(* left to OrderFlow.                                                       *)
(***************************************************************************)
EXTENDS Integers, Sequences

CONSTANTS Strategies,   \* legs as given: sequences of a LegRefID and a ratio
          Firsts,       \* those an order is sent with
          Qtys,         \* quantities ordered and asked for
          Amounts,      \* quantities filled
          MaxId,        \* bound: ClOrdIDs minted
          MaxGiven      \* bound: market actions

MultilegAssumption ==
    /\ Qtys \cup Amounts \subseteq Nat \ {0} /\ {MaxId, MaxGiven} \subseteq Nat
    /\ Firsts \subseteq Strategies
    /\ \A s \in Strategies : Len(s) >= 2 /\ \A i, j \in DOMAIN s : i # j => s[i].ref # s[j].ref

VARIABLES book,         \* fix_orders: the order on each side
          legs,         \* fix_order_legs: by place
          doing,        \* what each task is at
          requests, reports, minted, given,
          overtaken     \* an accepted replace found its slot taken by a later request

vars == << book, legs, doing, requests, reports, minted, given, overtaken >>

Sides == {"client", "market"}
Tasks == {"sender", "hearer", "reader", "trader"}
Rest == [step |-> "idle"]

\* An order with its ClOrdID, quantities and request slot; waiting is the legs
\* that wait there (pending_entered of a sent order, pending_legs of a received).
NoOrder == [id |-> 0]
NewRow(id, qty, slot) ==
    [id |-> id, qty |-> qty, cum |-> 0, slot |-> slot, req |-> 0, reqQty |-> 0, waiting |-> << >>]
ClearSlot(row) == [row EXCEPT !.slot = "", !.req = 0, !.reqQty = 0]

Init ==
    /\ book = [s \in Sides |-> NoOrder] /\ legs = [s \in Sides |-> << >>]
    /\ doing = [t \in Tasks |-> Rest]
    /\ requests = << >> /\ reports = << >> /\ minted = 0 /\ given = 0 /\ overtaken = FALSE

Is(t, step) == doing[t].step = step
Does(t, state) == doing' = [doing EXCEPT ![t] = state]
Puts(s, row) == book' = [book EXCEPT ![s] = row]

-----------------------------------------------------------------------------
(* The legs. *)

\* normalize_legs: the terms the legs an order has go out with.
Terms(ls) == [n \in DOMAIN ls |-> [ref |-> ls[n].ref, ratio |-> ls[n].ratio]]

\* _write_legs: a leg of the same place keeps its fills and takes the new terms.
LegsWritten(had, terms, qty) ==
    [n \in DOMAIN terms |->
        [ref |-> terms[n].ref, ratio |-> terms[n].ratio, qty |-> qty * terms[n].ratio,
         cum |-> IF n \in DOMAIN had THEN had[n].cum ELSE 0]]

WritesLegs(s, terms, qty) == legs' = [legs EXCEPT ![s] = LegsWritten(@, terms, qty)]

\* The place of the leg a report or a fill names by its LegRefID; 0 none.
PlaceOf(s, ref) ==
    IF \E n \in DOMAIN legs[s] : legs[s][n].ref = ref
    THEN CHOOSE n \in DOMAIN legs[s] : legs[s][n].ref = ref ELSE 0

\* What the messages say: an AB or AC its legs, an F none; a report of a leg (442=2)
\* that leg's quantity executed, one of the order the order's.
OrderMessage(type, id, orig, qty, terms) ==
    [type |-> type, id |-> id, orig |-> orig, qty |-> qty, terms |-> terms]
Report(kind, id, orig, row, ref, cum) ==
    [kind |-> kind, id |-> id, orig |-> orig, qty |-> row.qty, ref |-> ref, cum |-> cum]

-----------------------------------------------------------------------------
(* The client's sender. *)

\* send_new_multileg: the row and its legs are written, and then it leaves.
WriteMultileg ==
    /\ Is("sender", "idle") /\ minted = 0 /\ minted' = 1
    /\ \E terms \in Firsts, qty \in Qtys :
          /\ Puts("client", NewRow(1, qty, "")) /\ WritesLegs("client", terms, qty)
          /\ Does("sender", [step |-> "sending", m |-> OrderMessage("AB", 1, 0, qty, terms)])
    /\ UNCHANGED << requests, reports, given, overtaken >>

\* send_cancel_replace, with legs given or with those the order has now, and
\* send_cancel: the ClOrdID is the one the blotter shows.
LoadOrder ==
    /\ Is("sender", "idle") /\ minted \in 1 .. MaxId - 1 /\ minted' = minted + 1
    /\ \/ \E terms \in Strategies \cup {Terms(legs["client"])}, qty \in Qtys :
             Does("sender", [step |-> "recording",
                             m |-> OrderMessage("AC", minted + 1, book["client"].id, qty, terms)])
       \/ Does("sender", [step |-> "recording", m |-> OrderMessage("F", minted + 1, book["client"].id, 0, << >>)])
    /\ UNCHANGED << book, legs, requests, reports, given, overtaken >>

Slotted(row, m) ==
    [row EXCEPT !.slot = IF m.type = "F" THEN "Cancel" ELSE "Replace",
                !.req = m.id, !.reqQty = m.qty, !.waiting = m.terms]

\* A plausible bug: the legs asked for are the order's before they are accepted.
RecordAtOnce ==
    /\ Is("sender", "recording") /\ Does("sender", [doing["sender"] EXCEPT !.step = "sending"])
    /\ LET m == doing["sender"].m
       IN  IF book["client"].id = m.orig
           THEN /\ Puts("client", Slotted(book["client"], m))
                /\ IF m.type = "AC" THEN WritesLegs("client", m.terms, m.qty) ELSE UNCHANGED legs
           ELSE UNCHANGED << book, legs >>
    /\ UNCHANGED << requests, reports, minted, given, overtaken >>

\* record_request, when the order still has the ClOrdID.
RecordEntered ==
    /\ Is("sender", "recording") /\ Does("sender", [doing["sender"] EXCEPT !.step = "sending"])
    /\ LET m == doing["sender"].m
       IN  IF book["client"].id = m.orig THEN Puts("client", Slotted(book["client"], m)) ELSE UNCHANGED book
    /\ UNCHANGED << legs, requests, reports, minted, given, overtaken >>

SendMessage ==
    /\ Is("sender", "sending") /\ Does("sender", Rest)
    /\ requests' = Append(requests, doing["sender"].m)
    /\ UNCHANGED << book, legs, reports, minted, given, overtaken >>

\* _send_request: one that does not leave clears its slot.  An order that does not
\* is never the market's.
SendFails ==
    /\ Is("sender", "sending") /\ doing["sender"].m.type # "AB" /\ Does("sender", Rest)
    /\ IF book["client"].req = doing["sender"].m.id
       THEN Puts("client", ClearSlot(book["client"])) ELSE UNCHANGED book
    /\ UNCHANGED << legs, requests, reports, minted, given, overtaken >>

-----------------------------------------------------------------------------
(* The client's read loop. *)

Hears(kinds) == Is("hearer", "idle") /\ reports # << >> /\ Head(reports).kind \in kinds

\* _handle_leg_report: the leg named takes the fill, and the order does not move.
HandleLegReport ==
    /\ Hears({"Leg"})
    /\ LET m == Head(reports)
           n == PlaceOf("client", m.ref)
       IN  legs' = IF n = 0 THEN legs ELSE [legs EXCEPT !["client"][n].cum = m.cum]
    /\ reports' = Tail(reports)
    /\ UNCHANGED << book, doing, requests, minted, given, overtaken >>

\* _handle_execution_report: the order is found, with what its slot holds,
HearReport ==
    /\ Hears({"New", "Fill", "Canceled", "Replaced"})
    /\ LET m == Head(reports)
           moves == m.id # book["client"].id /\ m.kind \in {"Canceled", "Replaced"}
       IN  Does("hearer", [step |-> IF moves THEN "renaming" ELSE "writing", found |-> book["client"]])
    /\ UNCHANGED << book, legs, requests, reports, minted, given, overtaken >>

\* moves to the ClOrdID of the request accepted,
Rename ==
    /\ Is("hearer", "renaming") /\ Does("hearer", [doing["hearer"] EXCEPT !.step = "promoting"])
    /\ LET row == [book["client"] EXCEPT !.id = Head(reports).id]
       IN  Puts("client", IF row.req = row.id THEN ClearSlot(row) ELSE row)
    /\ UNCHANGED << legs, requests, reports, minted, given, overtaken >>

\* takes the terms that waited for it (_promote_entered), if its slot held them,
PromoteEntered ==
    /\ Is("hearer", "promoting") /\ Does("hearer", [doing["hearer"] EXCEPT !.step = "writing"])
    /\ LET m == Head(reports)
           found == doing["hearer"].found
       IN  IF found.req = m.id /\ found.waiting # << >>
           THEN WritesLegs("client", found.waiting, found.reqQty) /\ UNCHANGED overtaken
           ELSE overtaken' = (overtaken \/ m.kind = "Replaced") /\ UNCHANGED legs
    /\ UNCHANGED << book, requests, reports, minted, given >>

\* and is written as the report has it.
WriteReport ==
    /\ Is("hearer", "writing") /\ Does("hearer", Rest)
    /\ LET m == Head(reports) IN Puts("client", [book["client"] EXCEPT !.qty = m.qty, !.cum = m.cum])
    /\ reports' = Tail(reports)
    /\ UNCHANGED << legs, requests, minted, given, overtaken >>

\* _handle_cancel_reject
HandleCancelReject ==
    /\ Hears({"Reject"})
    /\ IF book["client"].req = Head(reports).id THEN Puts("client", ClearSlot(book["client"])) ELSE UNCHANGED book
    /\ reports' = Tail(reports)
    /\ UNCHANGED << legs, doing, requests, minted, given, overtaken >>

-----------------------------------------------------------------------------
(* The market's read loop. *)

Reads(types) == Is("reader", "idle") /\ requests # << >> /\ Head(requests).type \in types

\* _handle_new_order, without the lock: the row, and then its legs.
HandleNewOrder ==
    /\ Reads({"AB"})
    /\ LET m == Head(requests)
       IN  Puts("market", NewRow(m.id, m.qty, "New")) /\ Does("reader", [step |-> "legs", m |-> m])
    /\ requests' = Tail(requests)
    /\ UNCHANGED << legs, reports, minted, given, overtaken >>

WriteLegs ==
    /\ Is("reader", "legs") /\ Does("reader", Rest)
    /\ WritesLegs("market", doing["reader"].m.terms, doing["reader"].m.qty)
    /\ UNCHANGED << book, requests, reports, minted, given, overtaken >>

\* _handle_cancel_request: the legs of an AC wait beside the slot; an F leaves none.
HandleCancelRequest ==
    /\ Reads({"AC", "F"}) /\ requests' = Tail(requests)
    /\ LET m == Head(requests)
       IN  IF m.orig = book["market"].id
           THEN Puts("market", Slotted(book["market"], m)) /\ UNCHANGED reports
           ELSE reports' = Append(reports, Report("Reject", m.id, m.orig, book["market"], "", 0)) /\ UNCHANGED book
    /\ UNCHANGED << legs, doing, minted, given, overtaken >>

-----------------------------------------------------------------------------
(* The market's actions, each under the lock with its report. *)

Acts == book["market"] # NoOrder /\ given < MaxGiven /\ given' = given + 1
Tells(kind, orig, row, ref, cum) == reports' = Append(reports, Report(kind, row.id, orig, row, ref, cum))

Acknowledged(row) == IF row.slot = "New" THEN ClearSlot(row) ELSE row

AcceptOrder ==
    LET row == ClearSlot(book["market"])
    IN  /\ Acts /\ book["market"].slot = "New"
        /\ Puts("market", row) /\ Tells("New", 0, row, "", 0)
        /\ UNCHANGED << legs, doing, requests, minted, overtaken >>

AcceptCancel ==
    LET was == book["market"]
        row == [ClearSlot(was) EXCEPT !.id = was.req]
    IN  /\ Acts /\ was.slot = "Cancel"
        /\ Puts("market", row) /\ Tells("Canceled", was.id, row, "", row.cum)
        /\ UNCHANGED << legs, doing, requests, minted, overtaken >>

\* accept_replace: the legs that waited become the order's.
AcceptReplace ==
    LET was == book["market"]
        row == [ClearSlot(was) EXCEPT !.id = was.req, !.qty = was.reqQty, !.waiting = << >>]
    IN  /\ Acts /\ was.slot = "Replace" /\ was.reqQty >= was.cum
        /\ Puts("market", row) /\ WritesLegs("market", was.waiting, was.reqQty)
        /\ Tells("Replaced", was.id, row, "", row.cum)
        /\ UNCHANGED << doing, requests, minted, overtaken >>

\* reject_cancel: the legs stay behind the slot until the next request.
RejectRequest ==
    LET was == book["market"]
    IN  /\ Acts /\ was.slot \in {"Cancel", "Replace"}
        /\ Puts("market", ClearSlot(was))
        /\ reports' = Append(reports, Report("Reject", was.req, was.id, was, "", 0))
        /\ UNCHANGED << legs, doing, requests, minted, overtaken >>

\* A leg is filled for an amount, if the order has it: its report moves the leg,
\* and acknowledges the order.
FillsLeg(ref, amount) ==
    LET n == PlaceOf("market", ref)
        cum == legs["market"][n].cum + amount
    IN  /\ n # 0
        /\ legs' = [legs EXCEPT !["market"][n].cum = cum]
        /\ Puts("market", Acknowledged(book["market"]))
        /\ Tells("Leg", 0, book["market"], ref, cum)

FillLeg ==
    /\ Acts
    /\ \E n \in DOMAIN legs["market"], amount \in Amounts : FillsLeg(legs["market"][n].ref, amount)
    /\ UNCHANGED << doing, requests, minted, overtaken >>

\* fill_multileg: the order is filled and, with report_legs, the legs after it:
Fill ==
    LET was == book["market"]
    IN  /\ Acts /\ Is("trader", "idle")
        /\ \E amount \in Amounts :
              LET row == [Acknowledged(was) EXCEPT !.cum = @ + amount]
              IN  /\ Puts("market", row) /\ Tells("Fill", 0, row, "", row.cum)
                  /\ \/ Does("trader", [step |-> "loading", amount |-> amount])
                     \/ UNCHANGED doing
        /\ UNCHANGED << legs, requests, minted, overtaken >>

\* they are read, without the lock,
LoadLegs ==
    /\ Is("trader", "loading")
    /\ Does("trader", [step |-> "filling", of |-> Terms(legs["market"]), amount |-> doing["trader"].amount])
    /\ UNCHANGED << book, legs, requests, reports, minted, given, overtaken >>

\* and each is filled for the amount times the ratio it had then; one that is
\* gone by now ends it.
FillNextLeg ==
    /\ Is("trader", "filling") /\ doing["trader"].of # << >>
    /\ LET d == doing["trader"]
           next == Head(d.of)
       IN  FillsLeg(next.ref, d.amount * next.ratio) /\ Does("trader", [d EXCEPT !.of = Tail(@)])
    /\ UNCHANGED << requests, minted, given, overtaken >>

FillsEnd ==
    /\ Is("trader", "filling") /\ Does("trader", Rest)
    /\ LET of == doing["trader"].of IN of # << >> => PlaceOf("market", Head(of).ref) = 0
    /\ UNCHANGED << book, legs, requests, reports, minted, given, overtaken >>

-----------------------------------------------------------------------------
Next ==
    \/ WriteMultileg \/ LoadOrder \/ RecordEntered \/ SendMessage \/ SendFails
    \/ HandleLegReport \/ HearReport \/ Rename \/ PromoteEntered \/ WriteReport \/ HandleCancelReject
    \/ HandleNewOrder \/ WriteLegs \/ HandleCancelRequest
    \/ AcceptOrder \/ AcceptCancel \/ AcceptReplace \/ RejectRequest
    \/ FillLeg \/ Fill \/ LoadLegs \/ FillNextLeg \/ FillsEnd

Spec == Init /\ [][Next]_vars

-----------------------------------------------------------------------------
AtRest == requests = << >> /\ reports = << >> /\ \A t \in Tasks : Is(t, "idle")

\* Once all is said, both sides have the order under the same ClOrdID with the same
\* quantities, and the same legs, each with its terms and what it has executed:
\* through replaces, rejects and fills of order and legs that cross, unless an
\* accepted replace found its slot taken by a later request.
SidesAgree ==
    AtRest /\ book["market"] # NoOrder /\ ~overtaken =>
        LET shown(s) == << book[s].id, book[s].qty, book[s].cum, legs[s] >>
        IN  shown("client") = shown("market")

-----------------------------------------------------------------------------
(* What is said of the code and does not hold of it (README, Findings).     *)

\* "An accepted AC's legs are the order's now", on both sides.
AcceptedLegsHold == AtRest /\ book["market"] # NoOrder => legs["client"] = legs["market"]
=============================================================================
