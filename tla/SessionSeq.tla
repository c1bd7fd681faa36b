----------------------------- MODULE SessionSeq -----------------------------
(***************************************************************************)
(* The sequence numbers of one FIX session (session.py): what a session     *)
(* numbers, records, persists and retransmits, and what it makes of the     *)
(* numbers it receives, over logons, resets, lost connections and crashes.  *)
(*                                                                          *)
(* The tasks of the event loop are the reader, which logs on and then runs  *)
(* _read_loop, the senders: the engine's send_message calls and the         *)
(* heartbeat loop, and the stopper, which runs stop().  A task runs without *)
(* interruption up to an await; the awaits that matter are those of a       *)
(* database write (record_message, update_session_state), which the writer  *)
(* commits in the order of their submission.  A task with a write in the    *)
(* queue is blocked until the write is committed; the other tasks run       *)
(* meanwhile, and stop() may cancel it there.                               *)
(*                                                                          *)
(* The counterparty is external: it may send anything a FIX engine whose    *)
(* own numbers never go back may send.                                      *)
(***************************************************************************)
EXTENDS Resend

CONSTANTS Acceptor,     \* the session has no host: it listens
          ResetOnLogon, \* the initiator's reset_on_logon setting
          Senders,      \* tasks that send while the session is ACTIVE
          PromptCommit, \* numbers submitted are committed before a change of
                        \* the status reads the saved row
          MaxTx,        \* bound: numbers sent
          MaxPeer,      \* bound: numbers the counterparty sends
          MaxRows,      \* bound: TX rows recorded
          Skip,         \* bound: numbers the counterparty may skip at once
          MaxUpsets     \* bound: crashes and operator's changes of the numbers

ASSUME SeqAssumption ==
    /\ Acceptor \in BOOLEAN /\ ResetOnLogon \in BOOLEAN /\ PromptCommit \in BOOLEAN
    /\ MaxTx \in Nat \ {0} /\ MaxPeer \in Nat \ {0} /\ MaxRows \in Nat /\ Skip \in Nat
    /\ MaxUpsets \in Nat

Reader  == "reader"
Stopper == "stopper"

ASSUME TaskAssumption == Reader \notin Senders /\ Stopper \notin Senders

VARIABLES status,       \* _status: DOWN, LISTENING, LOGON_SENT, ACTIVE or
                        \* LOGOUT_SENT
          stop,         \* what stop() is at, or "no" when none runs
          step,         \* where the reader task goes on once it is not blocked
          tx, rx, epoch,\* _tx_seq_num, _rx_seq_num, _seq_epoch
          db,           \* the fix_session_state row
          rows,         \* the committed TX rows of fix_messages
          queue,        \* database writes submitted and not committed
          msg,          \* the message the reader has in hand
          loop,         \* the reader's progress through a resend
          wire,         \* the last message written on the connection
          sent,         \* history: what each number was used for since the reset
          apps,         \* history: application messages sent
          handed,       \* history: numbers of the messages given to the engine
          peer,         \* external: the next number the counterparty sends
          cut,          \* history: the last stop() cancelled a send or a reset
                        \* that was not saved
          torn,         \* history: a crash lost a send or a reset not yet saved,
                        \* or a start went on from what a stop() had cut
          ahead,        \* history: the operator set Rx Seq above peer
          upsets        \* history: crashes and changes of the numbers so far

mem     == << tx, rx, epoch >>
history == << sent, apps, upsets >>
vars    == << status, stop, step, tx, rx, epoch, db, rows, queue, msg, loop, wire,
              sent, apps, handed, peer, cut, torn, ahead, upsets >>

-----------------------------------------------------------------------------
(* Messages, and the writes of the database.                                *)

NoLoop == [at |-> 1, end |-> 0, lastSent |-> 0, bySeq |-> << >>]
NoMsg  == [type |-> "none", seq |-> 0, dup |-> "N", begin |-> 0, end |-> 0, new |-> 0]

\* A message on the wire: what the properties tell apart of it.
OnWire(type, seq, dup, body, new) ==
    [type |-> type, seq |-> seq, dup |-> dup, body |-> body, new |-> new]

NoWire == OnWire("none", 0, "N", Admin, 0)

\* A TX row submitted by record_message: the row of a _send, which goes on to
\* _persist_seq_nums, or that of a message sent again, which does not.
SendRow(task, seq, body) == [op |-> "send", task |-> task, seq |-> seq, body |-> body]
CopyRow(task, seq, body) == [op |-> "copy", task |-> task, seq |-> seq, body |-> body]

\* A plausible bug: the number saved is the last one used.
StateWriteLastUsed(task) ==
    [op |-> "state", task |-> task, tx |-> IF tx > 1 THEN tx - 1 ELSE 1, rx |-> rx, epoch |-> epoch,
     status |-> db.status]

\* The rows update_session_state submits: the numbers in memory, or a new
\* status, in the saved row as it is read at that moment.
StateWrite(task) ==
    [op |-> "state", task |-> task, tx |-> tx, rx |-> rx, epoch |-> epoch,
     status |-> db.status]

StatusWrite(task, to) ==
    [op |-> "state", task |-> task, tx |-> db.tx, rx |-> db.rx, epoch |-> db.epoch,
     status |-> to]

Blocked(task) == \E i \in DOMAIN queue : queue[i].task = task

\* Numbers are submitted and not committed.
Saving == \E i \in DOMAIN queue : queue[i].op = "state"

Init ==
    /\ status = "DOWN" /\ step = "off" /\ stop = "no"
    /\ tx = 1 /\ rx = 1 /\ epoch = 0
    /\ db = [tx |-> 1, rx |-> 1, epoch |-> 0, status |-> "DOWN"]
    /\ rows = << >> /\ queue = << >>
    /\ msg = NoMsg /\ loop = NoLoop
    /\ wire = NoWire
    /\ sent = {} /\ apps = 0 /\ handed = << >>
    /\ peer = 1 /\ cut = FALSE /\ torn = FALSE /\ ahead = FALSE /\ upsets = 0

\* The writer commits the oldest write.  A task whose row is committed submits
\* the state at once when it is a _send; otherwise it is free to go on.
Commit ==
    /\ queue # << >>
    /\ LET w == Head(queue)
       IN  \/ /\ w.op = "send"
              /\ rows' = Append(rows, [seq |-> w.seq, body |-> w.body])
              /\ queue' = Append(Tail(queue), StateWrite(w.task))
              /\ UNCHANGED db
           \/ /\ w.op = "copy"
              /\ rows' = Append(rows, [seq |-> w.seq, body |-> w.body])
              /\ queue' = Tail(queue)
              /\ UNCHANGED db
           \/ /\ w.op = "state"
              /\ db' = [tx |-> w.tx, rx |-> w.rx, epoch |-> w.epoch, status |-> w.status]
              /\ queue' = Tail(queue)
              /\ UNCHANGED rows
    /\ UNCHANGED << status, stop, step, mem, msg, loop, wire, history, handed, peer, cut, torn, ahead >>

\* _send, from numbers n that a reset may just have set: the message goes out
\* under the number, which is spent, and its row is submitted after the writes q.
SendAfter(q, task, type, body, n, used) ==
    /\ n <= MaxTx /\ Len(rows) + Len(queue) < MaxRows
    /\ wire' = OnWire(type, n, "N", body, 0)
    /\ tx' = n + 1
    /\ sent' = used \cup {[seq |-> n, body |-> body]}
    /\ queue' = Append(q, SendRow(task, n, body))

SendFrom(task, type, body, n, used) == SendAfter(queue, task, type, body, n, used)

Send(task, type, body) == SendFrom(task, type, body, tx, sent)

-----------------------------------------------------------------------------
(* Connecting.                                                              *)

\* set_status, of the task it is awaited by.
SetStatus(task, to) ==
    /\ PromptCommit => ~Saving
    /\ status' = to
    /\ queue' = Append(queue, StatusWrite(task, to))

\* start(): the numbers are loaded from the database.  A start is an
\* operator's command, given when no write of the session is outstanding.
LoadState ==
    /\ status = "DOWN" /\ stop = "no" /\ queue = << >>
    /\ tx' = db.tx /\ rx' = db.rx /\ epoch' = db.epoch
    /\ torn' = (torn \/ cut) /\ cut' = FALSE

\* start() of an acceptor: it listens.
StartAcceptor ==
    /\ Acceptor
    /\ LoadState
    /\ SetStatus(Reader, "LISTENING")
    /\ UNCHANGED << step, stop, db, rows, msg, loop, wire, history, handed, peer, ahead >>

\* start() of an initiator, to the status of on_connect.
StartInitiator ==
    /\ ~Acceptor
    /\ LoadState
    /\ SetStatus(Reader, "LOGON_SENT") /\ step' = "connecting"
    /\ UNCHANGED << stop, db, rows, msg, loop, wire, history, handed, peer, ahead >>

\* The counterparty connects to an acceptor.
Connect ==
    /\ status = "LISTENING" /\ stop = "no" /\ step = "off" /\ ~Blocked(Reader)
    /\ SetStatus(Reader, "LOGON_SENT") /\ step' = "connecting"
    /\ UNCHANGED << stop, mem, db, rows, msg, loop, wire, history, handed, peer, cut, torn, ahead >>

\* _do_initiator_logon up to the Logon: with reset_on_logon both numbers return
\* to 1 and the epoch moves to the newest row.  The counterparty that gets the
\* Logon resets its numbers too.
InitiatorLogon ==
    /\ ~Acceptor /\ step = "connecting" /\ ~Blocked(Reader)
    /\ IF ResetOnLogon
       THEN /\ rx' = 1 /\ epoch' = Len(rows)
            /\ peer' \in {peer, 1}
            /\ SendFrom(Reader, "Logon", Admin, 1, {})
       ELSE /\ Send(Reader, "Logon", Admin)
            /\ UNCHANGED << rx, epoch, peer >>
    /\ step' = "logon"
    /\ handed' = IF peer' = peer THEN handed ELSE << >>
    /\ torn' = (torn /\ ~ResetOnLogon) /\ ahead' = (ahead /\ ~ResetOnLogon)
    /\ UNCHANGED << status, stop, db, rows, msg, loop, apps, cut, upsets >>

\* A Logon sets rx past its number, whatever it skips, and never back: after a
\* reset it counts from 1.
RxAfterLogon(n, reset) ==
    LET expected == IF reset THEN 1 ELSE rx
    IN  IF n >= expected THEN n + 1 ELSE expected

\* The rest of _do_initiator_logon: the counterparty's Logon is counted, and
\* nothing of that is persisted.
LogonAnswered(n) ==
    /\ step = "logon" /\ ~Blocked(Reader)
    /\ rx' = RxAfterLogon(n, FALSE)
    /\ peer' = n + 1
    /\ SetStatus(Reader, "ACTIVE") /\ step' = "reading"
    /\ UNCHANGED << stop, tx, epoch, db, rows, msg, loop, wire, history, handed, cut, torn, ahead >>

\* _do_acceptor_logon: a Logon with ResetSeqNumFlag (it is the counterparty's
\* number 1) resets both numbers before it is counted; our Logon answers it.
AcceptLogon(n, reset) ==
    /\ Acceptor /\ step = "connecting" /\ ~Blocked(Reader)
    /\ rx' = RxAfterLogon(n, reset)
    /\ epoch' = IF reset THEN Len(rows) ELSE epoch
    /\ IF reset THEN SendFrom(Reader, "Logon", Admin, 1, {})
                ELSE Send(Reader, "Logon", Admin)
    /\ peer' = n + 1
    /\ handed' = IF reset THEN << >> ELSE handed
    /\ torn' = (torn /\ ~reset) /\ ahead' = (ahead /\ ~reset)
    /\ step' = "accepted"
    /\ UNCHANGED << status, stop, db, rows, msg, loop, apps, cut, upsets >>

\* on_connect once the acceptor's Logon is sent and saved.
BecomeActive ==
    /\ stop = "no" /\ step = "accepted" /\ ~Blocked(Reader)
    /\ SetStatus(Reader, "ACTIVE") /\ step' = "reading"
    /\ UNCHANGED << stop, mem, db, rows, msg, loop, wire, history, handed, peer, cut, torn, ahead >>

-----------------------------------------------------------------------------
(* _read_loop.                                                              *)

TooLow(m) == m.dup = "N" /\ m.seq < rx
Gap(m)    == m.dup = "N" /\ m.seq > rx

\* The rx_seq >= _rx_seq_num rule.
Counted(m) == IF m.seq >= rx THEN m.seq + 1 ELSE rx

\* A plausible bug: NewSeqNo is taken for the last number skipped.
RxAfterLastSkipped(m) == IF m.new > 0 THEN m.new + 1 ELSE Counted(m)

\* SequenceReset, with or without GapFillFlag: NewSeqNo is taken as it is.
RxAfterSequenceReset(m) == IF m.new > 0 THEN m.new ELSE Counted(m)

\* A plausible bug: PossDups reach the engine.
HandedAlways(m) == Append(handed, m.seq)

\* The engine is handed what is not flagged PossDup.
HandedWith(m) == IF m.dup = "Y" THEN handed ELSE Append(handed, m.seq)

\* The dispatch on MsgType, after the gap check.  step' names what is left:
\* "persist" the loop bottom, "leave" the same before the return of a Logout.
Dispatch(m) ==
    \/ /\ m.type = "App"
       /\ handed' = HandedWith(m)
       /\ rx' = Counted(m) /\ step' = "persist"
       /\ UNCHANGED << tx, queue, loop, wire, sent >>
    \/ /\ m.type = "Heartbeat"
       /\ rx' = Counted(m) /\ step' = "persist"
       /\ UNCHANGED << tx, queue, loop, wire, sent, handed >>
    \/ /\ m.type = "TestRequest"
       /\ Send(Reader, "Heartbeat", Admin)
       /\ rx' = Counted(m) /\ step' = "persist"
       /\ UNCHANGED << loop, handed >>
    \/ /\ m.type = "Logout" /\ status = "ACTIVE"
       /\ Send(Reader, "Logout", Admin)
       /\ rx' = Counted(m) /\ step' = "leave"
       /\ UNCHANGED << loop, handed >>
    \/ /\ m.type = "Logout" /\ status # "ACTIVE"
       /\ rx' = Counted(m) /\ step' = "leave"
       /\ UNCHANGED << tx, queue, loop, wire, sent, handed >>
    \/ /\ m.type = "SequenceReset"
       /\ rx' = RxAfterSequenceReset(m)
       /\ step' = "persist"
       /\ UNCHANGED << tx, queue, loop, wire, sent, handed >>
    \/ /\ m.type = "ResendRequest"
       /\ rx' = Counted(m)
       /\ LET lastSent == tx - 1
              end      == ClippedEnd(m.end, lastSent)
          IN  IF InRange(m.begin, m.end, lastSent)
              THEN /\ loop' = [at |-> m.begin, end |-> end, lastSent |-> lastSent,
                               bySeq |-> SentMessages(rows, m.begin, end, epoch)]
                   /\ step' = "answer"
                   /\ UNCHANGED << tx, queue, wire, sent >>
              ELSE /\ Send(Reader, "Reject", Admin)
                   /\ step' = "persist"
                   /\ UNCHANGED loop
       /\ UNCHANGED handed

\* One message read.  A number too low ends the session; a gap is asked for
\* before the message that showed it is dispatched.
Receive(m) ==
    /\ step = "reading" /\ ~Blocked(Reader)
    /\ peer' = IF m.dup = "Y" THEN peer ELSE IF m.new > 0 THEN m.new ELSE m.seq + 1
    /\ \/ /\ TooLow(m)
          /\ Send(Reader, "Logout", Admin)
          /\ step' = "end"
          /\ UNCHANGED << rx, msg, loop, handed >>
       \/ /\ Gap(m)
          /\ Send(Reader, "ResendRequest", Admin)
          /\ msg' = m /\ step' = "dispatch"
          /\ UNCHANGED << rx, loop, handed >>
       \/ /\ ~TooLow(m) /\ ~Gap(m)
          /\ Dispatch(m)
          /\ UNCHANGED msg
    /\ UNCHANGED << status, stop, epoch, db, rows, apps, upsets, cut, torn, ahead >>

AfterGap ==
    /\ step = "dispatch" /\ ~Blocked(Reader)
    /\ Dispatch(msg)
    /\ msg' = NoMsg
    /\ UNCHANGED << status, stop, epoch, db, rows, apps, upsets, peer, cut, torn, ahead >>

\* The next message of a resend is written, and recorded under the number it
\* carries; no number is spent.
AnswerNext ==
    /\ step = "answer" /\ ~Blocked(Reader)
    /\ loop.at <= loop.end
    /\ Len(rows) + Len(queue) < MaxRows
    /\ LET m   == MessageFor(loop.bySeq, loop.at, loop.end, loop.lastSent)
           new == IF m.type = "GapFill" /\ m.new = AtWrite THEN tx ELSE m.new
       IN  /\ wire' = OnWire(m.type, m.seq, "Y", m.body, new)
           /\ queue' = Append(queue, CopyRow(Reader, m.seq, m.body))
    /\ loop' = [loop EXCEPT !.at = NumberAfter(loop.bySeq, loop.at, loop.end)]
    /\ UNCHANGED << status, stop, step, mem, db, rows, msg, history, handed, peer, cut, torn, ahead >>

\* The loop bottom: _persist_seq_nums.
Persist ==
    /\ \/ step \in {"persist", "leave"}
       \/ step = "answer" /\ loop.at > loop.end
    /\ ~Blocked(Reader)
    /\ queue' = Append(queue, StateWrite(Reader))
    /\ step' = IF step = "leave" THEN "end" ELSE "reading"
    /\ loop' = NoLoop
    /\ UNCHANGED << status, stop, mem, db, rows, msg, wire, history, handed, peer, cut, torn, ahead >>

\* Nothing is left of a connection but its numbers.
LetGo == msg' = NoMsg /\ loop' = NoLoop /\ wire' = NoWire

\* The connection is over, by a Logout or lost: on_connect closes it and, unless
\* stop() is at work, reports what the session is now.  The reader notices a
\* loss between two messages or two writes.
Disconnect ==
    /\ step \in {"connecting", "logon", "accepted", "reading", "dispatch", "answer", "end"}
    /\ ~Blocked(Reader)
    /\ IF stop = "no"
       THEN SetStatus(Reader, IF Acceptor THEN "LISTENING" ELSE "DOWN")
       ELSE UNCHANGED << status, queue >>
    /\ step' = "off" /\ LetGo
    /\ UNCHANGED << stop, mem, db, rows, history, handed, peer, cut, torn, ahead >>

-----------------------------------------------------------------------------
(* stop().                                                                  *)

\* The sends that are under way, and those of a heartbeat loop.
InSend == {i \in DOMAIN queue : queue[i].op = "send"}
Beats   == {i \in InSend : queue[i].task \in Senders /\ queue[i].body = Admin}

\* What is left of the queue when these sends are cancelled: the row is recorded,
\* and nothing saves the number it was sent under.
Cancelled(sends) ==
    [i \in DOMAIN queue |-> IF i \in sends THEN [queue[i] EXCEPT !.op = "copy"] ELSE queue[i]]

\* The session is connected, for all stop() knows.
Connected == status = "ACTIVE" /\ step \notin {"off", "end"}

\* _confirm_peer_caught_up, when the session is configured so: a TestRequest.
StopTests ==
    /\ stop = "no" /\ Connected
    /\ Send(Stopper, "TestRequest", Admin) /\ stop' = "test"
    /\ UNCHANGED << status, step, rx, epoch, db, rows, msg, loop, apps, handed, peer, cut, torn, ahead,
                    upsets >>

\* The heartbeat loop is cancelled, and the Logout goes out.
StopLogsOut ==
    /\ stop \in {"no", "test"} /\ Connected /\ ~Blocked(Stopper)
    /\ SendAfter(Cancelled(Beats), Stopper, "Logout", Admin, tx, sent) /\ stop' = "logout"
    /\ UNCHANGED << status, step, rx, epoch, db, rows, msg, loop, apps, handed, peer, cut, torn, ahead,
                    upsets >>

\* It waits for the end of the read loop, or for the logout timeout.
LogoutSent ==
    /\ stop = "logout" /\ ~Blocked(Stopper)
    /\ SetStatus(Stopper, "LOGOUT_SENT") /\ stop' = "wait"
    /\ UNCHANGED << step, mem, db, rows, msg, loop, wire, history, handed, peer, cut, torn, ahead >>

\* on_connect of an acceptor that answers the Logon is not cancelled.
Stays == Acceptor /\ step = "accepted"

\* Every other task of the session is cancelled where it is, also when there was
\* nobody to log out, or no way to.
StopCancels ==
    /\ stop \in {"no", "test", "wait"} /\ status # "DOWN" /\ ~Blocked(Stopper)
    /\ queue' = Cancelled(Beats \cup {i \in InSend : queue[i].task = Reader /\ ~Stays})
    /\ cut' = (cut \/ queue' # queue)
    /\ step' = (IF Stays THEN step ELSE "off") /\ LetGo /\ stop' = "closing"
    /\ UNCHANGED << status, mem, db, rows, history, handed, peer, torn, ahead >>

\* The end of stop().  A reset whose numbers are not yet saved is undone by the
\* row it reads and writes back.
ReportDown ==
    /\ stop = "closing" /\ step = "off"
    /\ SetStatus(Stopper, "DOWN") /\ stop' = "no"
    /\ cut' = (cut \/ db.epoch # epoch \/ db.rx > rx)
    /\ UNCHANGED << step, mem, db, rows, msg, loop, wire, history, handed, peer, torn, ahead >>

-----------------------------------------------------------------------------
(* The other tasks.                                                         *)

\* send_message of an application message, for an ACTIVE session.
SendApp(s) ==
    /\ status = "ACTIVE" /\ stop # "closing" /\ step # "off" /\ ~Blocked(s)
    /\ Send(s, "App", apps + 1)
    /\ apps' = apps + 1
    /\ UNCHANGED << status, stop, step, rx, epoch, db, rows, msg, loop, handed, peer, cut, torn, ahead,
                    upsets >>

\* _heartbeat_loop: a Heartbeat, or the TestRequest of a silent connection.
SendHeartbeat(s) ==
    /\ status = "ACTIVE" /\ stop \in {"no", "test"} /\ step # "off" /\ ~Blocked(s)
    /\ Send(s, "Heartbeat", Admin)
    /\ UNCHANGED << status, stop, step, rx, epoch, db, rows, msg, loop, apps, handed, peer, cut, torn,
                    ahead, upsets >>

\* Reset Seq and Change Seq (reset_sequence_numbers), offered while the
\* session is DOWN; the numbers are saved before the operator's next command.
ResetSequence(t, r) ==
    /\ status = "DOWN" /\ stop = "no" /\ queue = << >>
    /\ upsets < MaxUpsets /\ upsets' = upsets + 1
    /\ tx' = t /\ rx' = r /\ epoch' = Len(rows)
    /\ db' = [tx |-> t, rx |-> r, epoch |-> Len(rows), status |-> db.status]
    /\ sent' = {} /\ cut' = FALSE /\ torn' = FALSE
    /\ ahead' = (r > peer)
    /\ UNCHANGED << status, stop, step, rows, queue, msg, loop, wire, apps, handed, peer >>

\* The process dies: what was not committed is lost, and the next start loads
\* what was.
Crash ==
    /\ upsets < MaxUpsets /\ upsets' = upsets + 1
    /\ torn' = (torn \/ db.tx # tx \/ db.epoch # epoch \/ db.rx > rx)
    /\ tx' = db.tx /\ rx' = db.rx /\ epoch' = db.epoch
    /\ status' = "DOWN" /\ stop' = "no" /\ step' = "off" /\ cut' = FALSE
    /\ queue' = << >> /\ LetGo
    /\ UNCHANGED << db, rows, sent, apps, handed, peer, ahead >>

-----------------------------------------------------------------------------
(* What a counterparty may send while the session is up.                    *)

\* Its next number or, when messages of its own were lost, a later one.
Fresh == {n \in peer .. peer + Skip : n <= MaxPeer}

Ordinary ==
    [type : {"App", "Heartbeat", "TestRequest", "Logout"}, seq : Fresh, dup : {"N"},
     begin : {0}, end : {0}, new : {0}]

ResendRequests ==
    [type : {"ResendRequest"}, seq : Fresh, dup : {"N"},
     begin : 1 .. MaxTx, end : 0 .. MaxTx, new : {0}]

\* A SequenceReset to a later number, or without its NewSeqNo (0).
Resets ==
    {m \in [type : {"SequenceReset"}, seq : Fresh, dup : {"N"},
            begin : {0}, end : {0}, new : 0 .. MaxPeer] : m.new = 0 \/ m.new > m.seq}

\* Again and flagged PossDup what it sent before, or a GapFill over it.
Resends ==
    {m \in [type : {"App", "SequenceReset"}, seq : 1 .. peer - 1, dup : {"Y"},
            begin : {0}, end : {0}, new : 0 .. peer] :
        m.new = 0 \/ (m.type = "SequenceReset" /\ m.new > m.seq)}

Inbound == Ordinary \cup ResendRequests \cup Resets \cup Resends

Next ==
    \/ Commit
    \/ StartAcceptor \/ StartInitiator \/ Connect \/ InitiatorLogon
    \/ \E n \in Fresh : LogonAnswered(n) \/ AcceptLogon(n, FALSE)
    \/ AcceptLogon(1, TRUE)
    \/ BecomeActive
    \/ \E m \in Inbound : Receive(m)
    \/ AfterGap \/ AnswerNext \/ Persist \/ Disconnect
    \/ StopTests \/ StopLogsOut \/ LogoutSent \/ StopCancels \/ ReportDown
    \/ \E s \in Senders : SendApp(s) \/ SendHeartbeat(s)
    \/ \E t \in 1 .. MaxTx, r \in 1 .. MaxPeer : ResetSequence(t, r)
    \/ Crash

Spec == Init /\ [][Next]_vars

-----------------------------------------------------------------------------
(* Properties.                                                              *)

Types    == {"App", "Logon", "Heartbeat", "TestRequest", "Logout", "Reject", "ResendRequest", "GapFill",
             "none"}
InTypes  == {"App", "Heartbeat", "TestRequest", "Logout", "ResendRequest", "SequenceReset", "none"}
Statuses == {"DOWN", "LISTENING", "LOGON_SENT", "ACTIVE", "LOGOUT_SENT"}
Stops    == {"no", "test", "logout", "wait", "closing"}
Steps    == {"off", "connecting", "logon", "accepted", "reading", "dispatch", "answer", "persist", "leave", "end"}
Numbers  == Nat \ {0}
Tasks    == Senders \cup {Reader, Stopper}

Rows        == [seq : Nat, body : Nat]
RowWrites   == [op : {"send", "copy"}, task : Tasks, seq : Nat, body : Nat]
StateWrites == [op : {"state"}, task : Tasks, tx : Numbers, rx : Numbers, epoch : Nat,
                status : Statuses]
Writes      == RowWrites \cup StateWrites
OnWires     == [type : Types, seq : Nat, dup : {"N", "Y"}, body : Nat, new : Nat]
Received    == [type : InTypes, seq : Nat, dup : {"N", "Y"}, begin : Nat, end : Nat, new : Nat]

LoopOK ==
    /\ loop = [at |-> loop.at, end |-> loop.end, lastSent |-> loop.lastSent, bySeq |-> loop.bySeq]
    /\ loop.at \in Nat /\ loop.end \in Nat /\ loop.lastSent \in Nat
    /\ DOMAIN loop.bySeq \subseteq Nat
    /\ \A n \in DOMAIN loop.bySeq : loop.bySeq[n] \in Nat

TypeOK ==
    /\ status \in Statuses /\ stop \in Stops /\ step \in Steps
    /\ tx \in Numbers /\ rx \in Numbers /\ epoch \in Nat
    /\ db \in [tx : Numbers, rx : Numbers, epoch : Nat, status : Statuses]
    /\ rows \in Seq(Rows)
    /\ queue \in Seq(Writes)
    /\ msg \in Received /\ LoopOK
    /\ wire \in OnWires
    /\ sent \subseteq Rows /\ apps \in Nat
    /\ handed \in Seq(Nat) /\ peer \in Numbers
    /\ cut \in BOOLEAN /\ torn \in BOOLEAN /\ ahead \in BOOLEAN /\ upsets \in Nat

\* No number is used twice: the next one _send takes is above every number
\* sent since the last reset, whatever was reloaded from the database, unless
\* a crash lost the write that would have said so, or a stop() cancelled the
\* task that was about to submit it (StoppedIsSaved).
NextNumberFresh == ~torn => \A s \in sent : s.seq < tx

\* A session never logs out a counterparty that numbers its messages properly:
\* the number it expects is never above the counterparty's next one (the "too
\* low" branch of _read_loop), across resets, GapFills, reconnections and
\* restarts; the operator's Change Seq is the one way to provoke it.
RxNotAhead == ~torn /\ ~ahead => rx <= peer

\* What goes out again as a PossDup is the application message that number was
\* first used for since the last reset: never another one, never one of before
\* the reset (_answer_resend_request, sent_messages, _seq_epoch).
ResendFaithful ==
    ~torn /\ wire.dup = "Y" /\ wire.type = "App" =>
        \E s \in sent : s.seq = wire.seq /\ s.body = wire.body

\* The engine is handed each application message of the counterparty at most
\* once and in the order of its numbers, PossDups and overlapping resends
\* included (on_app_message).
HandedInOrder ==
    \A i, j \in DOMAIN handed : i < j => handed[i] < handed[j]

\* When no write is outstanding the saved row holds the numbers in memory, so
\* a crash at such a moment makes the session reuse or replay nothing; but for
\* a session whose stop() cancelled a send, until it is started again.
SavedWhenQuiet == ~cut /\ queue = << >> => db.tx = tx /\ db.epoch = epoch

-----------------------------------------------------------------------------
(* What is said of the code and does not hold of it (README, Findings).     *)

\* A session that was stopped goes on from its numbers ("Load persisted sequence
\* numbers", start; "Persist current sequence numbers", _persist_seq_nums).
StoppedIsSaved == upsets = 0 /\ status = "DOWN" /\ queue = << >> => \A s \in sent : s.seq < db.tx

\* No GapFill tells the counterparty to skip an application message that went
\* out under a number it covers (the docstring of _answer_resend_request: runs
\* of admin messages collapse into a GapFill whose NewSeqNo is "the number
\* after" the run).
GapFillSparesApps ==
    wire.type = "GapFill" =>
        \A s \in sent : s.body # Admin => s.seq \notin wire.seq .. wire.new - 1

\* The Sessions blotter shows the live sequence numbers: with no write
\* outstanding and the reader waiting for a message, the saved row is current.
BlotterCurrent ==
    queue = << >> /\ step = "reading" => db.tx = tx /\ db.rx = rx

\* Buttons follow the session's state: with no write outstanding the saved
\* status is the session's own.
BlotterStatus == queue = << >> => db.status = status
=============================================================================
