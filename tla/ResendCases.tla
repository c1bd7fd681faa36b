---------------------------- MODULE ResendCases ----------------------------
(***************************************************************************)
(* The answer of Resend against what a counterparty needs of it, over every *)
(* small record of sent messages: a session that sends, resets its numbers  *)
(* and answers requests, one operation at a time.  SessionSeq has the same  *)
(* operations with the awaits between them.                                 *)
(***************************************************************************)
EXTENDS Resend, SequencesExt

CONSTANTS MaxRows,      \* bound: TX rows recorded before the last answer
          Begins, Ends, \* the BeginSeqNo and EndSeqNo values asked for
          TxNumbers     \* the numbers an operator types as the next Tx Seq

\* What the constants must be; the module that instantiates this one assumes it.
CasesAssumption == /\ MaxRows \in Nat
                   /\ Begins \subseteq Nat /\ Ends \subseteq Nat
                   /\ TxNumbers \subseteq Nat \ {0}

VARIABLES rows,         \* the recorded TX rows, oldest first
          epoch,        \* _seq_epoch
          tx,           \* _tx_seq_num
          sent,         \* history: what each number since the reset was used for
          request,      \* the last ResendRequest: its range, clipped
          answer        \* what it was answered with; << >> for a Reject

vars == << rows, epoch, tx, sent, request, answer >>

NoRequest == [begin |-> 1, end |-> 0, lastSent |-> 0]

Init ==
    /\ rows = << >> /\ epoch = 0 /\ tx = 1
    /\ sent = {}
    /\ request = NoRequest /\ answer = << >>

\* _send: the number is spent and the message recorded.
Send(body) ==
    /\ Len(rows) < MaxRows
    /\ rows' = Append(rows, [seq |-> tx, body |-> body])
    /\ sent' = sent \cup {[seq |-> tx, body |-> body]}
    /\ tx' = tx + 1
    /\ UNCHANGED << epoch, request, answer >>

\* _reset_seq_space, from the Reset Seq and Change Seq buttons.
Reset(n) ==
    /\ tx' = n
    /\ epoch' = Len(rows)
    /\ sent' = {}
    /\ request' = NoRequest /\ answer' = << >>
    /\ UNCHANGED rows

\* What an answer puts on the wire, with the open NewSeqNo filled in.
Written(messages) ==
    [i \in DOMAIN messages |->
        IF messages[i].type = "GapFill" /\ messages[i].new = AtWrite
        THEN [messages[i] EXCEPT !.new = tx] ELSE messages[i]]

\* _answer_resend_request: every message of the answer is recorded as a TX
\* row under the number it carries, after the rows it was computed from.
AnswerResendRequest(begin, end) ==
    LET lastSent == tx - 1
        stop     == ClippedEnd(end, lastSent)
        messages == IF InRange(begin, end, lastSent)
                    THEN Written(Answer(SentMessages(rows, begin, stop, epoch),
                                        begin, stop, lastSent))
                    ELSE << >>
    IN  /\ Len(rows) <= MaxRows
        /\ request' = [begin |-> begin, end |-> stop, lastSent |-> lastSent]
        /\ answer' = messages
        /\ rows' = rows \o [i \in DOMAIN messages |->
                              [seq |-> messages[i].seq, body |-> messages[i].body]]
        /\ UNCHANGED << epoch, tx, sent >>

Next ==
    \/ \E body \in {Admin, Len(rows) + 1} : Send(body)
    \/ \E n \in TxNumbers : Reset(n)
    \/ \E begin \in Begins, end \in Ends : AnswerResendRequest(begin, end)

Spec == Init /\ [][Next]_vars

-----------------------------------------------------------------------------
(* Properties.                                                              *)

\* The number a counterparty expects once it has processed message m.
NextAfter(m) == IF m.type = "GapFill" THEN m.new ELSE m.seq + 1

\* A counterparty that expects BeginSeqNo and processes the answer in order
\* never meets a gap or a number it already has, and ends just past the range:
\* the answer covers every number asked for exactly once
\* (FixSession._answer_resend_request).
AnswerCoversRange ==
    answer # << >> =>
        /\ answer[1].seq = request.begin
        /\ \A i \in 1 .. Len(answer) - 1 : answer[i + 1].seq = NextAfter(answer[i])
        /\ NextAfter(Last(answer)) = request.end + 1

\* Exactly the application messages sent since the last sequence reset go out
\* again, each under the number it was first sent with: nothing sent before a
\* reset is replayed, and a GapFill never stands for an application message.
AnswerReplaysApps ==
    answer # << >> =>
        {[seq |-> m.seq, body |-> m.body] : m \in {answer[i] : i \in {
              j \in DOMAIN answer : answer[j].type = "App"}}}
          = {s \in sent : s.body # Admin /\ s.seq \in request.begin .. request.end}
=============================================================================
