---------------------------- MODULE SessionLife ----------------------------
(***************************************************************************)
(* The tasks of one FixSession object (fix/session.py) between the awaits:  *)
(* on_connect of each connection, its read loop and heartbeat loop, the     *)
(* stop command, and a caller of send_message that checked is_active before *)
(* it awaited its ID.                                                       *)
(*                                                                          *)
(* A task runs alone until it awaits.  What it awaits is the counterparty,  *)
(* a timeout, the close of a socket, or the database: a message recorded    *)
(* (recQ) or a column of the session's row written (stQ), each served in    *)
(* the order asked for.  Sequence numbers are SessionSeq's matter.          *)
(***************************************************************************)
EXTENDS Integers, SequencesExt

CONSTANTS Conns,        \* the connections, 1 .. n, in the order they are made
          Kinds,        \* of {"initiator", "acceptor"}: the sessions considered
          TestFirst,    \* BOOLEAN: logout_test_request
          Overlap,      \* BOOLEAN: a connection may come while another is served
          Caller,       \* BOOLEAN: something of the engine sends messages
          MaxInbox      \* bound: messages sent to us and not read, per connection

ASSUME LifeAssumption ==
    /\ Conns # {} /\ Conns = 1 .. Cardinality(Conns)
    /\ {TestFirst, Overlap, Caller} \subseteq BOOLEAN /\ MaxInbox \in Nat \ {0}
    /\ Kinds \subseteq {"initiator", "acceptor"} /\ ("initiator" \in Kinds => Conns = {1})

None == 0       \* no connection

VARIABLES kind,         \* FixInitiator or FixAcceptor
          status,       \* _status
          sock,         \* _socket: the connection it belongs to
          open,         \* the sockets that are not closed
          transport,    \* _transport: "on"; "off" once it is stopped; "none"
          readTask,     \* _read_task: the connection it was made for
          beatTask,     \* _heartbeat_task, likewise
          stopping,     \* _stopping
          probe,        \* _test_req_pending
          stage,        \* where on_connect of each connection is
          reader,       \* its read loop: where it is, and the socket it reads
          heard,        \* the message its read loop, or its logon, has in hand
          beat,         \* where its heartbeat loop is
          stop, app,    \* where stop() and the caller of send_message are
          recQ, stQ,    \* the tasks awaiting the database
          inbox, eof,   \* what the counterparty sent; that it hung up
          wire          \* history: what we sent on the connection made last

tasks == << stage, reader, heard, beat, stop, app >>
fields == << status, sock, open, transport, readTask, beatTask, stopping, probe >>
peer == << inbox, eof >>
changing == << fields, tasks, recQ, stQ, peer, wire >>
vars == << kind, changing >>

C(c) == << "connect", c >>      R(c) == << "read", c >>     H(c) == << "heartbeat", c >>
Stop == << "stop", 0 >>         App == << "app", 0 >>

Initiator == kind = "initiator"

Silent == [said |-> FALSE, ours |-> FALSE, late |-> {}]

Init ==
    /\ kind \in Kinds
    /\ status = IF Initiator THEN "INITIATING" ELSE "LISTENING"
    /\ sock = None /\ open = {} /\ transport = "on"
    /\ readTask = None /\ beatTask = None /\ stopping = FALSE /\ probe = FALSE
    /\ stage = [c \in Conns |-> "none"] /\ beat = [c \in Conns |-> "none"]
    /\ reader = [c \in Conns |-> [at |-> "none", on |-> None]] /\ heard = [c \in Conns |-> "-"]
    /\ stop = "idle" /\ app = "idle" /\ recQ = << >> /\ stQ = << >>
    /\ inbox = [c \in Conns |-> << >>] /\ eof = [c \in Conns |-> FALSE]
    /\ wire = Silent

-----------------------------------------------------------------------------
(* Sending.                                                                 *)

Usable == sock # None /\ sock \in open

Late == {"app", "beat", "second Logout"}

\* What is noted of a message: that there was one, that stop() sent its Logout,
\* and what went out after that and should not have.
Noted(w, m) ==
    [said |-> TRUE,
     ours |-> w.ours \/ m = "our Logout",
     late |-> IF w.ours THEN w.late \cup ({m} \cap Late) ELSE w.late]

\* _send of task t, up to its first await: the message is out.
Written(m) ==
    /\ Usable
    /\ wire' = Noted(wire, m)

\* The write raises a ConnectionError: the socket is closed, or the peer is gone.
WriteFails == sock # None /\ (sock \notin open \/ eof[sock]) /\ UNCHANGED wire

\* A task that sent a message has it recorded, then saves the numbers.
Sending(t) ==
    \/ t[1] = "connect" /\ stage[t[2]] = "sent"
    \/ t[1] = "read" /\ reader[t[2]].at \in {"replying", "leaving"}
    \/ t[1] = "heartbeat" \/ t[1] = "stop" \/ t[1] = "app"

Recorded ==
    /\ recQ # << >> /\ Sending(Head(recQ))
    /\ stQ' = Append(stQ, Head(recQ)) /\ recQ' = Tail(recQ)
    /\ UNCHANGED << fields, tasks, peer, wire >>

\* The database answers t, the first that waits.
RecordOf(t) == recQ # << >> /\ Head(recQ) = t
StateOf(t)  == stQ # << >> /\ Head(stQ) = t

-----------------------------------------------------------------------------
(* on_connect.                                                              *)

Goto(c, s) == stage' = [stage EXCEPT ![c] = s]

\* except: ERROR, then the finally clause.
Fail(c, st) ==
    /\ status' = "ERROR" /\ Goto(c, "error") /\ stQ' = Append(st, C(c))
    /\ UNCHANGED << sock, open, transport >>

\* A plausible bug: an acceptor reports DOWN like an initiator.
SettleDown(c) ==
    /\ Goto(c, "done")
    /\ IF stopping THEN UNCHANGED << status, transport >> ELSE status' = "DOWN" /\ transport' = "none"

\* The end of the finally clause: unless it is being stopped, the session listens
\* again, or is down and can be started.
Settle(c) ==
    /\ Goto(c, "done")
    /\ IF stopping
       THEN UNCHANGED << status, transport >>
       ELSE IF ~Initiator /\ transport # "none"
            THEN status' = "LISTENING" /\ UNCHANGED transport
            ELSE status' = "DOWN" /\ transport' = "none"

\* finally: it closes the socket the session has, whoever's it is.
Finish(c, st) ==
    /\ stQ' = st
    /\ IF sock = None
       THEN Settle(c) /\ UNCHANGED << sock, open >>
       ELSE open' = open \ {sock} /\ Goto(c, "closing") /\ UNCHANGED << status, sock, transport >>

\* A connection: the Logon of the counterparty is read and the listener found,
\* or the initiator's attempt succeeds.
Connect(c) ==
    /\ stage[c] = "none" /\ transport = "on" /\ \A d \in Conns : d < c => stage[d] # "none"
    /\ ~Overlap => \A d \in Conns : stage[d] \in {"none", "done"}
    /\ sock' = c /\ open' = open \cup {c} /\ wire' = Silent
    /\ status' = "LOGON_SENT" /\ Goto(c, "logon") /\ stQ' = Append(stQ, C(c))
    /\ IF Initiator THEN UNCHANGED inbox
       ELSE \E m \in {"Logon", "other"} : inbox' = [inbox EXCEPT ![c] = << m >>]
    /\ UNCHANGED << transport, readTask, beatTask, stopping, probe, reader, heard, beat, stop, app, recQ, eof >>

\* The initiator's attempts fail until the limit.
GiveUp ==
    /\ Initiator /\ stage[1] = "none" /\ transport = "on"
    /\ status' = "ERROR" /\ transport' = "none" /\ Goto(1, "done")
    /\ UNCHANGED << sock, open, readTask, beatTask, stopping, probe, reader, heard, beat, stop, app,
                    recQ, stQ, peer, wire >>

\* A Logon is sent, with the record and state queues rq and sq: by the initiator
\* first of all, by an acceptor in answer.
SendLogon(c, rq, sq) ==
    \/ /\ Written("Logon") /\ Goto(c, "sent") /\ recQ' = Append(rq, C(c)) /\ stQ' = sq
       /\ UNCHANGED << status, sock, open, transport >>
    \/ WriteFails /\ recQ' = rq /\ Fail(c, sq)
    \/ sock = None /\ recQ' = rq /\ Finish(c, sq) /\ UNCHANGED wire

StartLogon(c) ==
    /\ stage[c] = "logon" /\ StateOf(C(c))
    /\ IF Initiator
       THEN SendLogon(c, recQ, Tail(stQ))
       ELSE /\ Goto(c, "wait") /\ stQ' = Tail(stQ)
            /\ UNCHANGED << status, sock, open, transport, recQ, wire >>
    /\ UNCHANGED << readTask, beatTask, stopping, probe, reader, heard, beat, stop, app, peer >>

\* It waits ten seconds for the Logon.
ReadLogon(c) ==
    /\ stage[c] = "wait"
    /\ \/ /\ sock # None /\ inbox[sock] # << >>
          /\ heard' = [heard EXCEPT ![c] = Head(inbox[sock])]
          /\ inbox' = [inbox EXCEPT ![sock] = Tail(@)]
          /\ Goto(c, "got") /\ recQ' = Append(recQ, C(c))
          /\ UNCHANGED << status, sock, open, transport, stQ >>
       \/ sock # None /\ inbox[sock] = << >> /\ Fail(c, stQ) /\ UNCHANGED << heard, inbox, recQ >>
       \/ sock = None /\ Finish(c, stQ) /\ UNCHANGED << heard, inbox, recQ >>
    /\ UNCHANGED << readTask, beatTask, stopping, probe, reader, beat, stop, app, eof, wire >>

\* set_status("ACTIVE").
Activate(c, sq) ==
    /\ status' = "ACTIVE" /\ Goto(c, "activating") /\ stQ' = Append(sq, C(c))
    /\ UNCHANGED << sock, open, transport >>

LogonRead(c) ==
    /\ stage[c] = "got" /\ RecordOf(C(c))
    /\ \/ heard[c] # "Logon" /\ Fail(c, stQ) /\ recQ' = Tail(recQ) /\ UNCHANGED wire
       \/ heard[c] = "Logon" /\ Initiator /\ Activate(c, stQ) /\ recQ' = Tail(recQ) /\ UNCHANGED wire
       \/ heard[c] = "Logon" /\ ~Initiator /\ SendLogon(c, Tail(recQ), stQ)
    /\ heard' = [heard EXCEPT ![c] = "-"]
    /\ UNCHANGED << readTask, beatTask, stopping, probe, reader, beat, stop, app, peer >>

LogonSent(c) ==
    /\ stage[c] = "sent" /\ StateOf(C(c))
    /\ IF Initiator
       THEN Goto(c, "wait") /\ stQ' = Tail(stQ) /\ UNCHANGED << status, sock, open, transport >>
       ELSE Activate(c, Tail(stQ))
    /\ UNCHANGED << readTask, beatTask, stopping, probe, reader, heard, beat, stop, app, recQ, peer, wire >>

\* The read loop takes another turn, reading the socket the session has now;
\* a second reader of one socket raises.
ReadFrom(c) ==
    IF ~Usable THEN [at |-> "done", on |-> None]
    ELSE IF \E d \in Conns \ {c} : reader[d] = [at |-> "waiting", on |-> sock]
         THEN [at |-> "dead", on |-> None]
         ELSE [at |-> "waiting", on |-> sock]

Active(c) ==
    /\ stage[c] = "activating" /\ StateOf(C(c))
    /\ stQ' = Tail(stQ) /\ Goto(c, "reading")
    /\ reader' = [reader EXCEPT ![c] = ReadFrom(c)] /\ readTask' = c
    /\ beat' = [beat EXCEPT ![c] = "sleeping"] /\ beatTask' = c
    /\ UNCHANGED << status, sock, open, transport, stopping, probe, heard, stop, app, recQ, peer, wire >>

Over == {"done", "failed", "dead", "cancelled"}

ReadTaskEnds(c) ==
    /\ stage[c] = "reading" /\ reader[c].at \in Over
    /\ IF reader[c].at = "failed" THEN Fail(c, stQ) ELSE Finish(c, stQ)
    /\ UNCHANGED << readTask, beatTask, stopping, probe, reader, heard, beat, stop, app, recQ, peer, wire >>

Errored(c) ==
    /\ stage[c] = "error" /\ StateOf(C(c)) /\ Finish(c, Tail(stQ))
    /\ UNCHANGED << readTask, beatTask, stopping, probe, reader, heard, beat, stop, app, recQ, peer, wire >>

Closed(c) ==
    /\ stage[c] = "closing" /\ sock' = None /\ Settle(c)
    /\ UNCHANGED << open, readTask, beatTask, stopping, probe, reader, heard, beat, stop, app,
                    recQ, stQ, peer, wire >>

-----------------------------------------------------------------------------
(* The read loop.                                                           *)

At(c, where) == reader' = [reader EXCEPT ![c] = [at |-> where, on |-> None]]
NextTurn(c)  == reader' = [reader EXCEPT ![c] = ReadFrom(c)]

\* A plausible bug: the end of the connection is read as a chunk like any other.
ReceiveSpins(c) ==
    LET s == reader[c].on
    IN  /\ reader[c].at = "waiting" /\ inbox[s] # << >> /\ inbox' = [inbox EXCEPT ![s] = Tail(@)]
        /\ heard' = [heard EXCEPT ![c] = Head(inbox[s])]
        /\ At(c, "got") /\ recQ' = Append(recQ, R(c))
        /\ UNCHANGED << fields, stage, beat, stop, app, stQ, eof, wire >>

\* It reads a message, or the end of the connection.
Receive(c) ==
    /\ reader[c].at = "waiting"
    /\ LET s == reader[c].on
       IN  \/ /\ inbox[s] # << >> /\ inbox' = [inbox EXCEPT ![s] = Tail(@)]
              /\ heard' = [heard EXCEPT ![c] = Head(inbox[s])]
              /\ At(c, "got") /\ recQ' = Append(recQ, R(c))
           \/ /\ inbox[s] = << >> /\ (eof[s] \/ s \notin open) /\ At(c, "done")
              /\ UNCHANGED << inbox, heard, recQ >>
    /\ UNCHANGED << fields, stage, beat, stop, app, stQ, eof, wire >>

\* A Logout is answered unless it confirms ours, which the status tells.
AnswersLogout == status = "ACTIVE"

\* The message is handled, its record being written.  "other" is one that asks
\* nothing of the session.
Handle(c) ==
    LET answer(m, then) ==
            \/ Written(m) /\ At(c, then) /\ recQ' = Append(Tail(recQ), R(c))
            \/ WriteFails /\ At(c, "failed") /\ recQ' = Tail(recQ)
            \/ sock = None /\ At(c, "dead") /\ recQ' = Tail(recQ) /\ UNCHANGED wire
        save(then) == At(c, then) /\ recQ' = Tail(recQ) /\ stQ' = Append(stQ, R(c)) /\ UNCHANGED wire
    IN  /\ reader[c].at = "got" /\ RecordOf(R(c))
        /\ probe' = FALSE
        /\ heard' = [heard EXCEPT ![c] = "-"]
        /\ \/ heard[c] = "TestRequest" /\ answer("answer", "replying") /\ UNCHANGED stQ
           \/ heard[c] = "Logout" /\ AnswersLogout /\ answer("Logout", "leaving") /\ UNCHANGED stQ
           \/ heard[c] = "confirm" /\ AnswersLogout /\ answer("second Logout", "leaving") /\ UNCHANGED stQ
           \/ heard[c] \in {"Logout", "confirm"} /\ ~AnswersLogout /\ save("leaving")
           \/ heard[c] \in {"Logon", "other"} /\ save("kept")
        /\ UNCHANGED << status, sock, open, transport, readTask, beatTask, stopping, stage, beat, stop, app, peer >>

\* The numbers are saved: another turn, or the end after a Logout.
Handled(c) ==
    /\ StateOf(R(c)) /\ stQ' = Tail(stQ)
    /\ \/ reader[c].at \in {"kept", "replying"} /\ NextTurn(c)
       \/ reader[c].at = "leaving" /\ At(c, "done")
    /\ UNCHANGED << fields, stage, heard, beat, stop, app, recQ, peer, wire >>

-----------------------------------------------------------------------------
(* The heartbeat loop.                                                      *)

Beat(c, s) == beat' = [beat EXCEPT ![c] = s]

\* It wakes, and sends a Heartbeat, or a TestRequest when nothing was heard.
Wake(c) ==
    /\ beat[c] = "sleeping"
    /\ \/ ~Usable /\ Beat(c, "ended") /\ UNCHANGED << probe, recQ, wire >>
       \/ /\ Usable /\ probe' \in {probe, TRUE}
          /\ \/ Written("beat") /\ Beat(c, "beating") /\ recQ' = Append(recQ, H(c))
             \/ WriteFails /\ Beat(c, "ended") /\ UNCHANGED recQ
    /\ UNCHANGED << status, sock, open, transport, readTask, beatTask, stopping, stage, reader, heard,
                    stop, app, stQ, peer >>

Beaten(c) ==
    /\ beat[c] = "beating" /\ StateOf(H(c)) /\ stQ' = Tail(stQ) /\ Beat(c, "sleeping")
    /\ UNCHANGED << fields, stage, reader, heard, stop, app, recQ, peer, wire >>

\* The TestRequest was not answered in time.
HeartbeatTimeout(c) ==
    /\ beat[c] = "sleeping" /\ Usable /\ probe
    /\ status' = "ERROR" /\ Beat(c, "timed out") /\ stQ' = Append(stQ, H(c))
    /\ UNCHANGED << sock, open, transport, readTask, beatTask, stopping, probe, stage, reader, heard,
                    stop, app, recQ, peer, wire >>

HangUp(c) ==
    /\ beat[c] = "timed out" /\ StateOf(H(c)) /\ stQ' = Tail(stQ) /\ Beat(c, "ended")
    /\ open' = open \ {sock}
    /\ UNCHANGED << status, sock, transport, readTask, beatTask, stopping, probe, stage, reader, heard,
                    stop, app, recQ, peer, wire >>

-----------------------------------------------------------------------------
(* stop().                                                                  *)

\* The tasks a queue is left with when some are cancelled.
Without(q, ts) == SelectSeq(q, LAMBDA t : t \notin ts)

ReadOver == readTask # None /\ reader[readTask].at \in Over

\* _connection_gone
Gone == ReadOver \/ ~Usable

\* _cancel_heartbeat, for every step of stop() that calls it.
BeatCancelled == IF beatTask = None THEN beat ELSE [beat EXCEPT ![beatTask] = "ended"]
CancelledBeat == IF beatTask = None THEN {} ELSE {H(beatTask)}

\* A plausible bug: FixInitiator.stop only tells the loop to end.
CancelledConnectsNone == {}

\* FixInitiator.stop cancels the task that runs on_connect.
CancelledConnects == IF Initiator THEN {c \in Conns : stage[c] \notin {"none", "done"}} ELSE {}

\* The transport is stopped: no connection comes any more.
StopTransport(rq, sq) ==
    LET gone == {C(c) : c \in CancelledConnects}
    IN  /\ stop' = "transport" /\ transport' = IF transport = "none" THEN "none" ELSE "off"
        /\ stage' = [c \in Conns |-> IF c \in CancelledConnects THEN "done" ELSE stage[c]]
        /\ recQ' = Without(rq, gone) /\ stQ' = Without(sq, gone)

\* The socket the session has is closed first.
CloseSocket(rq, sq) ==
    IF sock = None
    THEN StopTransport(rq, sq) /\ UNCHANGED << sock, open >>
    ELSE /\ open' = open \ {sock} /\ stop' = "closing" /\ recQ' = rq /\ stQ' = sq
         /\ UNCHANGED << sock, transport, stage >>

\* Past the handshake: the heartbeat and read loops are cancelled, if they run.
Unwind(rq, sq) ==
    IF BeatCancelled = beat /\ (readTask = None \/ ReadOver)
    THEN CloseSocket(rq, sq) /\ UNCHANGED << beat, reader >>
    ELSE LET gone == CancelledBeat \cup (IF readTask = None THEN {} ELSE {R(readTask)})
         IN  /\ stop' = "cancelling" /\ beat' = BeatCancelled
             /\ reader' = IF readTask = None \/ ReadOver THEN reader
                          ELSE [reader EXCEPT ![readTask] = [at |-> "cancelled", on |-> None]]
             /\ recQ' = Without(rq, gone) /\ stQ' = Without(sq, gone)
             /\ UNCHANGED << sock, open, transport, stage >>

\* What the steps of stop() leave alone, but for its status.
Elsewhere == << readTask, beatTask, probe, heard, app, peer >>
Connection == << sock, open, transport, stage >>

\* The Logout goes out, after the heartbeat loop is stopped.
SendLogout(rq, sq) ==
    \/ /\ Written("our Logout") /\ stop' = "logout" /\ beat' = BeatCancelled /\ UNCHANGED << reader, Connection >>
       /\ recQ' = Append(Without(rq, CancelledBeat), Stop) /\ stQ' = Without(sq, CancelledBeat)
    \/ WriteFails /\ Unwind(rq, sq)

StopBegins ==
    /\ stop \in {"idle", "stopped", "raised"} /\ stopping' = TRUE
    /\ IF Gone \/ status # "ACTIVE"
       THEN Unwind(recQ, stQ) /\ UNCHANGED wire
       ELSE IF ~TestFirst
       THEN SendLogout(recQ, stQ)
       ELSE \/ /\ Written("test") /\ stop' = "testing" /\ recQ' = Append(recQ, Stop)
               /\ UNCHANGED << beat, reader, stQ, Connection >>
            \/ WriteFails /\ Unwind(recQ, stQ)
    /\ UNCHANGED << status, Elsewhere >>

\* The TestRequest is out: it waits for the echo, the end of the connection or a
\* heartbeat interval.
Tested ==
    /\ stop = "testing" /\ StateOf(Stop)
    /\ IF Gone
       THEN Unwind(recQ, Tail(stQ))
       ELSE /\ stop' = IF readTask = None THEN "raised" ELSE "echo"
            /\ stQ' = Tail(stQ) /\ UNCHANGED << beat, reader, recQ, Connection >>
    /\ UNCHANGED << status, stopping, wire, Elsewhere >>

Echoed ==
    /\ stop = "echo"
    /\ IF Gone THEN Unwind(recQ, stQ) /\ UNCHANGED wire ELSE SendLogout(recQ, stQ)
    /\ UNCHANGED << status, stopping, Elsewhere >>

LogoutSent ==
    /\ stop = "logout" /\ StateOf(Stop)
    /\ status' = "LOGOUT_SENT" /\ stop' = "told" /\ stQ' = Append(Tail(stQ), Stop)
    /\ UNCHANGED << stopping, beat, reader, recQ, wire, Connection, Elsewhere >>

\* It waits for the read loop to end, or for the logout timeout.
Told ==
    /\ stop = "told" /\ StateOf(Stop)
    /\ IF readTask = None \/ ReadOver
       THEN Unwind(recQ, Tail(stQ))
       ELSE stop' = "confirm" /\ stQ' = Tail(stQ) /\ UNCHANGED << beat, reader, recQ, Connection >>
    /\ UNCHANGED << status, stopping, wire, Elsewhere >>

\* A plausible bug: the wait for the counterparty's Logout has no timeout.
ConfirmWaitsForever == ReadOver

\* asyncio.wait returns at the end of the read loop or at the timeout.
ConfirmEnds == TRUE

Confirmed ==
    /\ stop = "confirm" /\ ConfirmEnds /\ Unwind(recQ, stQ)
    /\ UNCHANGED << status, stopping, wire, Elsewhere >>

Cancelled ==
    /\ stop = "cancelling" /\ CloseSocket(recQ, stQ)
    /\ UNCHANGED << status, stopping, wire, beat, reader, Elsewhere >>

SocketClosed ==
    /\ stop = "closing" /\ sock' = None /\ StopTransport(recQ, stQ)
    /\ UNCHANGED << status, open, stopping, wire, beat, reader, Elsewhere >>

ReportDown ==
    /\ stop = "transport" /\ transport' = "none"
    /\ status' = "DOWN" /\ stop' = "down" /\ stQ' = Append(stQ, Stop)
    /\ UNCHANGED << sock, open, stage, stopping, wire, beat, reader, recQ, Elsewhere >>

Stopped ==
    /\ stop = "down" /\ StateOf(Stop) /\ stQ' = Tail(stQ) /\ stop' = "stopped"
    /\ UNCHANGED << status, stopping, wire, beat, reader, recQ, Connection, Elsewhere >>

-----------------------------------------------------------------------------
(* The engine's senders, and the counterparty.                              *)

\* A caller finds the session active, and awaits the ID of its message.
AppChecks ==
    /\ Caller /\ app = "idle" /\ status = "ACTIVE" /\ app' = "minting"
    /\ UNCHANGED << fields, stage, reader, heard, beat, stop, recQ, stQ, peer, wire >>

AppSends ==
    /\ app = "minting"
    /\ \/ Written("app") /\ app' = "sending" /\ recQ' = Append(recQ, App)
       \/ (Usable => eof[sock]) /\ app' = "idle" /\ UNCHANGED << recQ, wire >>
    /\ UNCHANGED << fields, stage, reader, heard, beat, stop, stQ, peer >>

AppSent ==
    /\ app = "sending" /\ StateOf(App) /\ app' = "idle" /\ stQ' = Tail(stQ)
    /\ UNCHANGED << fields, stage, reader, heard, beat, stop, recQ, peer, wire >>

\* The counterparty sends once it has our Logon: a Logout of its own, or one that
\* confirms ours; whether it echoes the TestRequest
\* of stop() or not, the wait for the echo ends.
PeerSends(c, m) ==
    /\ c \in open /\ ~eof[c] /\ Len(inbox[c]) < MaxInbox
    /\ c = sock => wire.said
    /\ m = "confirm" => c = sock /\ wire.ours
    /\ m = "Logon" => Initiator /\ stage[c] \in {"sent", "wait"}
    /\ inbox' = [inbox EXCEPT ![c] = Append(@, m)]
    /\ UNCHANGED << fields, tasks, recQ, stQ, eof, wire >>

PeerHangsUp(c) ==
    /\ c \in open /\ ~eof[c] /\ eof' = [eof EXCEPT ![c] = TRUE]
    /\ UNCHANGED << fields, tasks, recQ, stQ, inbox, wire >>

Messages == {"Logon", "TestRequest", "Logout", "confirm", "other"}

Connecting(c) ==
    \/ StartLogon(c) \/ ReadLogon(c) \/ LogonRead(c) \/ LogonSent(c)
    \/ Active(c) \/ ReadTaskEnds(c) \/ Errored(c) \/ Closed(c)
Reading(c) == Receive(c) \/ Handle(c) \/ Handled(c)
Beating(c) == Wake(c) \/ Beaten(c) \/ HeartbeatTimeout(c) \/ HangUp(c)
Stopping ==
    \/ Tested \/ Echoed \/ LogoutSent \/ Told \/ Confirmed
    \/ Cancelled \/ SocketClosed \/ ReportDown \/ Stopped

Moves ==
    \/ \E c \in Conns : \/ Connect(c) \/ Connecting(c) \/ Reading(c) \/ Beating(c) \/ PeerHangsUp(c)
                       \/ \E m \in Messages : PeerSends(c, m)
    \/ GiveUp \/ Recorded \/ StopBegins \/ Stopping
    \/ AppChecks \/ AppSends \/ AppSent

Next == Moves /\ UNCHANGED kind

Spec == Init /\ [][Next]_vars

\* Every task that can go on does; the database answers.  Nothing makes the
\* counterparty send, or a heartbeat loop wake.
Fairness ==
    /\ WF_changing(Recorded) /\ WF_changing(Stopping) /\ WF_changing(AppSent)
    /\ \A c \in Conns : /\ WF_changing(Connecting(c)) /\ WF_changing(Reading(c))
                        /\ WF_changing(Beaten(c) \/ HangUp(c))

FairSpec == Spec /\ Fairness

-----------------------------------------------------------------------------
(* Properties.                                                              *)

Serving == {c \in Conns : stage[c] \notin {"none", "done"}}

\* Between connections a session that is not being stopped has no socket left,
\* and says what it does: an acceptor is back to LISTENING, an initiator whose
\* connection is gone can be started again (the finally clause of on_connect).
SettledBetween ==
    ~stopping /\ Serving = {} /\ (\E c \in Conns : stage[c] = "done") =>
        /\ sock = None /\ open = {}
        /\ IF Initiator THEN transport = "none" /\ status \in {"DOWN", "ERROR"}
                        ELSE transport = "on" /\ status = "LISTENING"

\* A stop that returned leaves an initiator DOWN, with no socket, no transport,
\* no connect or read task, and no heartbeat loop at a message or a report
\* (FixSession.stop; FixInitiator.stop awaits the connect task it cancels).  A
\* loop made after stop() cancelled those there were (on_connect) may be left
\* asleep: it finds no socket when it wakes, and ends.
StopLeavesNothing ==
    stop = "stopped" /\ Initiator =>
        /\ status = "DOWN" /\ sock = None /\ open = {} /\ transport = "none" /\ Serving = {}
        /\ \A c \in Conns : reader[c].at \in Over \cup {"none"} /\ beat[c] \in {"none", "ended", "sleeping"}

\* A connection the counterparty drops is let go of.
HangUpEnds == \A c \in Conns : eof[c] ~> stage[c] = "done"

\* A stop ends, whatever the counterparty does.
StopEnds == stop \notin {"idle", "stopped", "raised"} ~> stop \in {"stopped", "raised"}

-----------------------------------------------------------------------------
(* What is said of the code and does not hold of it (README, Findings).     *)

\* "their confirming Logout gets no Logout back" (test_session.py).
OneLogout == "second Logout" \notin wire.late

\* "After our Logout nothing goes out unsolicited" (_initiate_logout): no message
\* of the engine,
NoAppAfterLogout == "app" \notin wire.late

\* and no heartbeat, "so the heartbeat loop stops before it".
NoBeatAfterLogout == "beat" \notin wire.late

\* "A user-initiated stop tears the listener down, so DOWN stays right"
\* (test_session.py).
StoppedStaysDown == stop = "stopped" => status = "DOWN"

\* "The connection is gone ... so it is back to LISTENING" (on_connect): a session
\* that reports LISTENING has no connection open.
ListeningHasNone == status = "LISTENING" => open = {}

=============================================================================
