------------------------------- MODULE Resend -------------------------------
(***************************************************************************)
(* How a session answers a ResendRequest (FixSession._answer_resend_request *)
(* and FixEngine.sent_messages): a pure function of the recorded TX rows,   *)
(* the epoch of the last sequence reset and the numbers asked for.          *)
(*                                                                          *)
(* A row is what the answer reads of one fix_messages row: its MsgSeqNum    *)
(* and its body.  A body is the identity of an application message (a       *)
(* positive number), or Admin for every session-level type of               *)
(* ADMIN_MSG_TYPES.  The id of a row is its position in the sequence.       *)
(***************************************************************************)
EXTENDS Integers, Sequences

CONSTANT OpenEnded      \* the EndSeqNo values that mean "up to the last sent"

ASSUME OpenEndedAssumption == OpenEnded \subseteq Nat

\* The body of every session-level message.
Admin == 0

\* A NewSeqNo the code reads from _tx_seq_num only when it writes the GapFill.
AtWrite == 0

\* What the answer sends about one number or one run of numbers.
Resent(seq, body)  == [type |-> "App", seq |-> seq, body |-> body, new |-> 0]
GapFill(seq, new)  == [type |-> "GapFill", seq |-> seq, body |-> Admin, new |-> new]

-----------------------------------------------------------------------------
\* A plausible bug: the rows of before the reset are not left out.
NewestIdsOfAll(rows, begin, end, epoch) ==
    LET eligible == {i \in DOMAIN rows : rows[i].seq \in begin..end}
    IN  {i \in eligible : \A j \in eligible : rows[j].seq = rows[i].seq => j <= i}

\* Ids of the rows a resend may read: newer than the epoch, in the range, and
\* the newest of their number (MAX(id) ... GROUP BY seq_num).
NewestIds(rows, begin, end, epoch) ==
    LET eligible == {i \in DOMAIN rows : i > epoch /\ rows[i].seq \in begin..end}
    IN  {i \in eligible : \A j \in eligible : rows[j].seq = rows[i].seq => j <= i}

\* by_seq: the body recorded for each number that has a row.
SentMessages(rows, begin, end, epoch) ==
    LET ids == NewestIds(rows, begin, end, epoch)
    IN  [n \in {rows[i].seq : i \in ids} |->
            rows[CHOOSE i \in ids : rows[i].seq = n].body]

\* The range is clipped to what was sent; what is left must be a range.
ClippedEnd(end, lastSent) ==
    IF end \in OpenEnded \/ end > lastSent THEN lastSent ELSE end

InRange(begin, end, lastSent) ==
    begin >= 1 /\ begin <= lastSent /\ ClippedEnd(end, lastSent) >= begin

\* An admin number, or one with no row, belongs to a gap.
InGap(bySeq, n) == n \notin DOMAIN bySeq \/ bySeq[n] = Admin

\* The first number after n, inside the range or just past it, that ends the
\* run of gap numbers n begins.
RunEnd(bySeq, n, end) ==
    CHOOSE k \in n + 1 .. end + 1 :
        /\ k = end + 1 \/ ~InGap(bySeq, k)
        /\ \A j \in n .. k - 1 : InGap(bySeq, j)

\* A plausible bug: NewSeqNo is taken for the last number of the run.
NewSeqNoLastOfRun(k, end, lastSent) == IF k <= end \/ end < lastSent THEN k - 1 ELSE AtWrite

\* The NewSeqNo of a GapFill whose run ends at k: a run that stops short of
\* the last number sent is followed by a number of its own, one that reaches
\* it by whatever is next when the GapFill is written.
NewSeqNo(k, end, lastSent) == IF k <= end \/ end < lastSent THEN k ELSE AtWrite

\* The message that stands for number n, and the number the loop is at after it.
MessageFor(bySeq, n, end, lastSent) ==
    IF InGap(bySeq, n)
    THEN GapFill(n, NewSeqNo(RunEnd(bySeq, n, end), end, lastSent))
    ELSE Resent(n, bySeq[n])

NumberAfter(bySeq, n, end) ==
    IF InGap(bySeq, n) THEN RunEnd(bySeq, n, end) ELSE n + 1

\* The answer to begin..end of a range InRange, from what by_seq holds.
Answer(bySeq, begin, end, lastSent) ==
    LET from[n \in begin .. end + 1] ==
          IF n > end THEN << >>
          ELSE << MessageFor(bySeq, n, end, lastSent) >> \o from[NumberAfter(bySeq, n, end)]
    IN  from[begin]
=============================================================================
