-------------------------- MODULE ConnectionProofs --------------------------
(***************************************************************************)
(* What holds of the connections of a session whatever the constants.       *)
(*                                                                         *)
(* Of the tasks of a FixSession: a stop that returned leaves nothing of an   *)
(* initiator but a loop asleep, and between connections a session is        *)
(* settled.  Both say what several tasks have done by then - on_connect,    *)
(* its read and heartbeat loops, stop() - so each has an inductive          *)
(* invariant of the socket and of the places the tasks can be at on the     *)
(* way there.                                                               *)
(*                                                                         *)
(* Of the stream they read: a session reads the messages it was sent, for   *)
(* messages of any length and chunks of any size.  The invariant says what  *)
(* the buffer is: the bytes taken off the network behind the messages that  *)
(* were read, by whichever of the two parsers reads.                        *)
(*                                                                         *)
(* Of acceptors that share a port, for any number of sessions and of        *)
(* servers made: where wait_closed returns at once a session that reports   *)
(* LISTENING can be connected to, unless a stop crossed a bind, and one     *)
(* that was stopped cannot.                                                 *)
(***************************************************************************)
EXTENDS Connection, Acceptors, FiniteSetTheorems, SequenceTheorems, TLAPS

-----------------------------------------------------------------------------
(* The tasks of a session.                                                 *)

Stages == {"none", "logon", "wait", "got", "sent", "activating", "reading", "error", "closing", "done"}
Places == {"none", "waiting", "got", "kept", "replying", "leaving", "done", "failed", "dead", "cancelled"}
Beats == {"none", "sleeping", "beating", "timed out", "ended"}

TypeOK ==
    /\ kind \in Kinds
    /\ sock \in Conns \cup {None} /\ open \subseteq Conns
    /\ readTask \in Conns \cup {None} /\ beatTask \in Conns \cup {None}
    /\ stage \in [Conns -> Stages] /\ beat \in [Conns -> Beats]
    /\ reader \in [Conns -> [at : Places, on : Conns \cup {None}]]

-----------------------------------------------------------------------------
(* The inductive invariant of a stop of an initiator.                       *)

BeforeLoops == {"none", "logon", "wait", "got", "sent", "activating"}

\* The two loops are made together, when the logon is done.
LoopsTogether ==
    /\ beatTask = readTask
    /\ readTask = None => \A c \in Conns : reader[c].at = "none" /\ beat[c] = "none"
    /\ \A c \in Conns : stage[c] \in BeforeLoops => readTask = None

\* No socket is open but the session's, and not while on_connect awaits its close.
SocketIsItsOwn ==
    /\ sock = None => open = {}
    /\ \A c \in Conns : /\ stage[c] = "closing" => open = {}
                        /\ stage[c] = "none" => sock = None

\* A stop that found no connection goes straight to the transport.
NotBegun == \A c \in Conns : stage[c] = "none" => stop \in {"idle", "transport", "down", "stopped"}

\* No loop is at a message any more.
Quiet == \A c \in Conns : reader[c].at \in Over \cup {"none"} /\ beat[c] \notin {"beating", "timed out"}

\* What stop() has torn down when it gets where it is.
TornDown ==
    /\ stop = "cancelling" => readTask # None /\ \A c \in Conns : reader[c].at \in Over /\ beat[c] = "ended"
    /\ stop = "closing" => open = {} /\ Quiet
    /\ stop \in {"transport", "down", "stopped"} =>
          sock = None /\ transport # "on" /\ Quiet /\ \A c \in Conns : stage[c] \in {"none", "done"}
    /\ stop \in {"down", "stopped"} => status = "DOWN" /\ transport = "none"

StopInv == Initiator => LoopsTogether /\ SocketIsItsOwn /\ NotBegun /\ TornDown

-----------------------------------------------------------------------------
(* The inductive invariant of a session that nothing stops.                 *)

\* One connection is served at a time, and the socket is its own.
OneServed ==
    /\ \A c, d \in Serving : c = d
    /\ sock # None => sock \in Serving
    /\ open \subseteq {sock}
    /\ \A c \in Conns : stage[c] = "closing" => open = {}

\* What the session is and says when none is.
Reports ==
    /\ ~Initiator => transport = "on"
    /\ Serving = {} /\ (\E c \in Conns : stage[c] = "done") =>
          IF Initiator THEN transport = "none" /\ status \in {"DOWN", "ERROR"} ELSE status = "LISTENING"

BetweenInv == (stop # "idle" => stopping) /\ (~stopping => OneServed /\ Reports)

-----------------------------------------------------------------------------
(* Facts about the steps.                                                   *)

\* No connection is None, and an initiator has one.
LEMMA ConnFacts == None \notin Conns /\ (kind \in Kinds /\ Initiator => Conns = {1})
<1>1. \A c \in Conns : c \in 1 .. Cardinality(Conns)
  BY LifeAssumption DEF LifeAssumption
<1>2. 0 \notin 1 .. Cardinality(Conns)
  OBVIOUS
<1> QED
  BY <1>1, <1>2, LifeAssumption DEF LifeAssumption, None, Initiator

\* A read loop that finds no socket it can read ends.
LEMMA NothingToRead ==
  ASSUME NEW c, ~Usable
  PROVE  ReadFrom(c).at = "done"
BY DEF ReadFrom

\* A read loop stop() cancels is over.
LEMMA CancelledIsOver ==
  ASSUME NEW c \in Conns, TypeOK, reader' = [reader EXCEPT ![c] = [at |-> "cancelled", on |-> None]]
  PROVE  reader'[c].at \in Over
BY DEF TypeOK, Over

\* Where the next turn of a read loop leaves it.
LEMMA ReadFromType ==
  ASSUME NEW c \in Conns, TypeOK
  PROVE  ReadFrom(c) \in [at : Places, on : Conns \cup {None}]
BY ConnFacts DEF ReadFrom, TypeOK, Places

\* A step of a read loop, which has begun and is not over, moves that loop alone.
LEMMA ReadingFacts ==
  ASSUME NEW c \in Conns, TypeOK, Reading(c)
  PROVE  /\ \E r \in [at : Places, on : Conns \cup {None}] :
               /\ reader' = [reader EXCEPT ![c] = r]
               /\ reader[c].at \notin {"none"} \cup Over
         /\ UNCHANGED << status, sock, open, transport, readTask, beatTask, stopping, stage, beat, stop >>
<1>1. \A d \in Conns : reader[d] \in [at : Places, on : Conns \cup {None}]
  BY DEF TypeOK
<1>2. ReadFrom(c) \in [at : Places, on : Conns \cup {None}]
  BY ReadFromType
<1>3. \A w \in Places : [at |-> w, on |-> None] \in [at : Places, on : Conns \cup {None}]
  OBVIOUS
<1>4. CASE Receive(c)
  <2>1. \E w \in {"got", "done"} : At(c, w)
    BY <1>4 DEF Receive
  <2> QED
    BY <1>3, <1>4, <2>1 DEF Receive, At, fields, Places, Over
<1>5. CASE Handle(c)
  <2>1. \E w \in {"replying", "failed", "dead", "leaving", "kept"} : At(c, w)
    BY <1>5 DEF Handle
  <2> QED
    BY <1>3, <1>5, <2>1 DEF Handle, At, Places, Over
<1>6. CASE Handled(c)
  <2>1. NextTurn(c) \/ At(c, "done")
    BY <1>6 DEF Handled
  <2>2. CASE NextTurn(c)
    BY <1>2, <1>6, <2>2 DEF Handled, NextTurn, fields, Over
  <2>3. CASE At(c, "done")
    BY <1>3, <1>6, <2>3 DEF Handled, At, fields, Places, Over
  <2> QED
    BY <2>1, <2>2, <2>3
<1> QED
  BY <1>4, <1>5, <1>6 DEF Reading

\* StopTransport, whatever the queues: no connection is made any more, and an
\* initiator's on_connect is over.
LEMMA TransportFacts ==
  ASSUME TypeOK, NEW rq, NEW sq, StopTransport(rq, sq)
  PROVE  /\ stop' = "transport" /\ transport' \in {"none", "off"}
         /\ stage' \in [Conns -> Stages]
         /\ \A c \in Conns : /\ stage'[c] \in {stage[c], "done"}
                             /\ stage'[c] = "none" <=> stage[c] = "none"
                             /\ Initiator => stage'[c] \in {"none", "done"}
<1>1. stage' = [c \in Conns |-> IF c \in CancelledConnects THEN "done" ELSE stage[c]]
  BY DEF StopTransport
<1>2. \A c \in Conns : c \in CancelledConnects => Initiator /\ stage[c] \notin {"none", "done"}
  BY DEF CancelledConnects
<1>3. Initiator => \A c \in Conns : stage[c] \in {"none", "done"} \/ c \in CancelledConnects
  BY DEF CancelledConnects
<1> QED
  BY <1>1, <1>2, <1>3 DEF StopTransport, TypeOK, Stages

\* _close_transport and what follows when there is no socket.
Closing ==
    \/ sock # None /\ open' = open \ {sock} /\ stop' = "closing" /\ UNCHANGED << sock, transport, stage >>
    \/ sock = None /\ UNCHANGED << sock, open >> /\ \E rq, sq : StopTransport(rq, sq)

\* CloseSocket, whatever the queues.
LEMMA CloseFacts ==
  ASSUME NEW rq, NEW sq, CloseSocket(rq, sq)
  PROVE  Closing
BY DEF CloseSocket, Closing

\* The loops of the connection are over, or there are none.
LoopsOver == (readTask = None \/ ReadOver) /\ BeatCancelled = beat

\* What a step of stop() that unwinds the connection does.
Unwinding ==
    \/ LoopsOver /\ Closing /\ UNCHANGED << beat, reader >>
    \/ /\ ~LoopsOver /\ stop' = "cancelling" /\ beat' = BeatCancelled
       /\ \/ reader' = reader /\ (readTask = None \/ ReadOver)
          \/ /\ readTask # None /\ ~ReadOver
             /\ reader' = [reader EXCEPT ![readTask] = [at |-> "cancelled", on |-> None]]
       /\ UNCHANGED << sock, open, transport, stage >>

\* What one that only waits does.
Waiting ==
    /\ Usable \/ stop \in {"testing", "echo", "told"}
    /\ stop' \in {"logout", "testing", "echo", "raised", "confirm"}
    /\ beat' \in {beat, BeatCancelled} /\ UNCHANGED << reader, sock, open, transport, stage >>

\* Unwind, whatever the queues.
LEMMA UnwindFacts ==
  ASSUME NEW rq, NEW sq, Unwind(rq, sq)
  PROVE  Unwinding
<1>1. CASE LoopsOver
  BY <1>1, CloseFacts DEF Unwind, Unwinding, LoopsOver
<1>2. CASE ~LoopsOver
  BY <1>2 DEF Unwind, Unwinding, LoopsOver, Connection
<1> QED
  BY <1>1, <1>2

\* The Logout of stop() goes out, or the connection is unwound.
LEMMA LogoutFacts ==
  ASSUME NEW rq, NEW sq, SendLogout(rq, sq), Usable \/ stop \in {"testing", "echo", "told"}
  PROVE  Unwinding \/ Waiting
BY UnwindFacts DEF SendLogout, Waiting, Connection

\* The steps of stop() up to the close of the socket.
Winding == StopBegins \/ Tested \/ Echoed \/ Told \/ Confirmed

\* Each of them unwinds the connection or waits on it, and none of them says so.
LEMMA WindingFacts ==
  ASSUME Winding
  PROVE  /\ Unwinding \/ Waiting
         /\ stop \in {"idle", "stopped", "raised", "testing", "echo", "told", "confirm"}
         /\ stopping' = IF stop \in {"idle", "stopped", "raised"} THEN TRUE ELSE stopping
         /\ UNCHANGED << status, readTask, beatTask >>
<1>1. CASE StopBegins
  <2>1. CASE Gone \/ status # "ACTIVE"
    BY <1>1, <2>1, UnwindFacts DEF StopBegins, Elsewhere
  <2>2. CASE ~(Gone \/ status # "ACTIVE")
    <3>1. Usable
      BY <2>2 DEF Gone
    <3>2. CASE TestFirst
      BY <1>1, <2>2, <3>1, <3>2, UnwindFacts DEF StopBegins, Elsewhere, Waiting, Connection
    <3>3. CASE ~TestFirst
      BY <1>1, <2>2, <3>1, <3>3, LogoutFacts DEF StopBegins, Elsewhere
    <3> QED
      BY <3>2, <3>3
  <2> QED
    BY <2>1, <2>2
<1>2. CASE Tested
  BY <1>2, UnwindFacts DEF Tested, Elsewhere, Waiting, Connection
<1>3. CASE Echoed
  BY <1>3, UnwindFacts, LogoutFacts DEF Echoed, Elsewhere
<1>4. CASE Told
  BY <1>4, UnwindFacts DEF Told, Elsewhere, Waiting, Connection
<1>5. CASE Confirmed
  BY <1>5, UnwindFacts DEF Confirmed, Elsewhere
<1> QED
  BY <1>1, <1>2, <1>3, <1>4, <1>5 DEF Winding

-----------------------------------------------------------------------------
(* Every step preserves the invariants.                                     *)

\* Types.  Conns is a singleton in an initiator, so the rest is about one connection there.
LEMMA TypeStep ==
  ASSUME TypeOK, [Next]_vars
  PROVE  TypeOK'
<1> USE ConnFacts DEF TypeOK, Stages, Places, Beats, Over
<1>1. ASSUME NEW c \in Conns, Connect(c) \/ Connecting(c) \/ Beating(c) \/ PeerHangsUp(c), kind' = kind
      PROVE  TypeOK'
  <2>1. CASE Connect(c)
    BY <1>1, <2>1 DEF Connect, Goto
  <2>2. CASE StartLogon(c)
    BY <1>1, <2>2 DEF StartLogon, SendLogon, Written, WriteFails, Fail, Finish, Settle, Goto
  <2>3. CASE ReadLogon(c)
    BY <1>1, <2>3 DEF ReadLogon, Fail, Finish, Settle, Goto
  <2>4. CASE LogonRead(c)
    BY <1>1, <2>4 DEF LogonRead, SendLogon, Activate, Written, WriteFails, Fail, Finish, Settle, Goto
  <2>5. CASE LogonSent(c)
    BY <1>1, <2>5 DEF LogonSent, Activate, Goto
  <2>6. CASE Active(c)
    <3>1. reader' = [reader EXCEPT ![c] = ReadFrom(c)]
      BY <2>6 DEF Active
    <3>2. reader' \in [Conns -> [at : Places, on : Conns \cup {None}]]
      BY <3>1, ReadFromType
    <3> QED
      BY <1>1, <3>2, <2>6 DEF Active, Goto
  <2>7. CASE ReadTaskEnds(c)
    BY <1>1, <2>7 DEF ReadTaskEnds, Fail, Finish, Settle, Goto
  <2>8. CASE Errored(c)
    BY <1>1, <2>8 DEF Errored, Finish, Settle, Goto
  <2>9. CASE Closed(c)
    BY <1>1, <2>9 DEF Closed, Settle, Goto
  <2>10. CASE Wake(c)
    BY <1>1, <2>10 DEF Wake, Beat
  <2>11. CASE Beaten(c)
    BY <1>1, <2>11 DEF Beaten, Beat, fields
  <2>12. CASE HeartbeatTimeout(c)
    BY <1>1, <2>12 DEF HeartbeatTimeout, Beat
  <2>13. CASE HangUp(c)
    BY <1>1, <2>13 DEF HangUp, Beat
  <2>14. CASE PeerHangsUp(c)
    BY <1>1, <2>14 DEF PeerHangsUp, fields, tasks
  <2> QED
    BY <1>1, <2>1, <2>2, <2>3, <2>4, <2>5, <2>6, <2>7, <2>8, <2>9, <2>10, <2>11, <2>12, <2>13, <2>14 DEF Connecting, Beating
<1>2. ASSUME NEW c \in Conns, Reading(c), kind' = kind PROVE TypeOK'
  <2>1. PICK r \in [at : Places, on : Conns \cup {None}] : reader' = [reader EXCEPT ![c] = r]
    BY <1>2, ReadingFacts
  <2> QED
    BY <1>2, <2>1, ReadingFacts
<1>3. ASSUME GiveUp, kind' = kind PROVE TypeOK'
  BY <1>3 DEF GiveUp, Goto
<1>4. ASSUME Recorded, kind' = kind PROVE TypeOK'
  BY <1>4 DEF Recorded, fields, tasks
<1>5. ASSUME LogoutSent, kind' = kind PROVE TypeOK'
  BY <1>5 DEF LogoutSent, Connection, Elsewhere
<1>6. ASSUME Cancelled, kind' = kind PROVE TypeOK'
  BY <1>6, CloseFacts, TransportFacts DEF Cancelled, Closing, Elsewhere
<1>7. ASSUME SocketClosed, kind' = kind PROVE TypeOK'
  BY <1>7, TransportFacts DEF SocketClosed, Elsewhere
<1>8. ASSUME ReportDown, kind' = kind PROVE TypeOK'
  BY <1>8 DEF ReportDown, Elsewhere
<1>9. ASSUME Stopped, kind' = kind PROVE TypeOK'
  BY <1>9 DEF Stopped, Connection, Elsewhere
<1>10. ASSUME AppChecks, kind' = kind PROVE TypeOK'
  BY <1>10 DEF AppChecks, fields
<1>11. ASSUME AppSends, kind' = kind PROVE TypeOK'
  BY <1>11 DEF AppSends, fields
<1>12. ASSUME AppSent, kind' = kind PROVE TypeOK'
  BY <1>12 DEF AppSent, fields
<1>13. ASSUME Winding, kind' = kind PROVE TypeOK'
  <2>1. UNCHANGED << readTask, beatTask >>
    BY <1>13, WindingFacts
  <2>2. /\ sock' \in Conns \cup {None} /\ open' \subseteq Conns
        /\ stage' \in [Conns -> Stages]
    <3>1. CASE Closing
      BY <3>1, TransportFacts DEF Closing
    <3>2. CASE ~Closing
      BY <1>13, <3>2, WindingFacts DEF Unwinding, Waiting
    <3> QED
      BY <3>1, <3>2
  <2>3. beat' \in [Conns -> Beats]
    BY <1>13, WindingFacts DEF Unwinding, Waiting, BeatCancelled
  <2>4. reader' \in [Conns -> [at : Places, on : Conns \cup {None}]]
    <3>1. [at |-> "cancelled", on |-> None] \in [at : Places, on : Conns \cup {None}]
      OBVIOUS
    <3>2. CASE Waiting
      BY <3>2 DEF Waiting
    <3>3. CASE Unwinding
      BY <3>1, <3>3 DEF Unwinding
    <3> QED
      BY <1>13, <3>2, <3>3, WindingFacts
  <2> QED
    BY <1>13, <2>1, <2>2, <2>3, <2>4
<1>14. ASSUME NEW c \in Conns, NEW m \in Messages, PeerSends(c, m), kind' = kind PROVE TypeOK'
  BY <1>14 DEF PeerSends, fields, tasks
<1>15. CASE UNCHANGED vars
  BY <1>15 DEF vars, changing, fields, tasks
<1> QED
  BY <1>1, <1>2, <1>3, <1>4, <1>5, <1>6, <1>7, <1>8, <1>9, <1>10, <1>11, <1>12, <1>13, <1>14, <1>15 DEF Next, Moves, Stopping, Winding, Reading

\* Whatever on_connect and the loops do beside it, stop() tears down what it said.
LEMMA StopStep ==
  ASSUME TypeOK, StopInv, [Next]_vars
  PROVE  StopInv'
<1> USE ConnFacts DEF StopInv, LoopsTogether, SocketIsItsOwn, NotBegun, TornDown, Quiet, BeforeLoops, Over, TypeOK, Usable, Initiator
<1>1. ASSUME NEW c \in Conns, Connect(c) \/ Connecting(c) \/ Beating(c) \/ PeerHangsUp(c), kind' = kind
      PROVE  StopInv'
  <2>1. CASE Connect(c)
    <3> SUFFICES ASSUME Initiator PROVE StopInv'
      BY <1>1 DEF StopInv
    <3>1. Conns = {1} /\ c = 1
      OBVIOUS
    <3>2. stage[1] = "none" /\ transport = "on" /\ sock' = 1 /\ stage'[1] = "logon"
      BY <3>1, <2>1 DEF Connect, Goto
    <3>3. UNCHANGED << transport, readTask, beatTask, reader, beat, stop >>
      BY <2>1 DEF Connect
    <3>4. stop = "idle"
      BY <3>1, <3>2
    <3> QED
      BY <3>1, <3>2, <3>3, <3>4
  <2>2. CASE StartLogon(c)
    BY <1>1, <2>2 DEF StartLogon, SendLogon, Written, WriteFails, Fail, Finish, Settle, Goto
  <2>3. CASE ReadLogon(c)
    BY <1>1, <2>3 DEF ReadLogon, Fail, Finish, Settle, Goto
  <2>4. CASE LogonRead(c)
    <3> SUFFICES ASSUME Initiator PROVE StopInv'
      BY <1>1 DEF StopInv
    <3>1. Conns = {1} /\ c = 1
      OBVIOUS
    <3>2. UNCHANGED << readTask, beatTask, reader, beat, stop, sock, open, transport >>
      BY <2>4 DEF LogonRead, Fail, Activate
    <3>3. stage[1] = "got" /\ stage'[1] \in {"error", "activating"}
      BY <3>1, <2>4 DEF LogonRead, Fail, Activate, Goto
    <3> QED
      BY <3>1, <3>2, <3>3
  <2>5. CASE LogonSent(c)
    BY <1>1, <2>5 DEF LogonSent, Activate, Goto
  <2>6. CASE Active(c)
    <3> SUFFICES ASSUME Initiator PROVE StopInv'
      BY <1>1 DEF StopInv
    <3>1. Conns = {1} /\ c = 1
      OBVIOUS
    <3>2. /\ UNCHANGED << status, sock, open, transport, stop >> /\ readTask' = 1 /\ beatTask' = 1
          /\ stage[1] = "activating" /\ stage'[1] = "reading" /\ beat'[1] = "sleeping" /\ reader'[1] = ReadFrom(c)
      BY <3>1, <2>6 DEF Active, Goto
    <3>3. open = {} => reader'[1].at = "done"
      <4>1. open = {} => ~Usable
        OBVIOUS
      <4> QED
        BY <3>2, <4>1, NothingToRead
    <3> QED
      BY <3>1, <3>2, <3>3
  <2>7. CASE ReadTaskEnds(c)
    <3> SUFFICES ASSUME Initiator PROVE StopInv'
      BY <1>1 DEF StopInv
    <3>1. Conns = {1} /\ c = 1
      OBVIOUS
    <3>2. UNCHANGED << readTask, beatTask, reader, beat, stop >>
      BY <2>7 DEF ReadTaskEnds
    <3>3. \/ stage'[1] = "error" /\ UNCHANGED << sock, open, transport >>
          \/ sock = None /\ stage'[1] = "done" /\ UNCHANGED << sock, open >> /\ (stopping => UNCHANGED << status, transport >>)
          \/ sock # None /\ stage'[1] = "closing" /\ open' = open \ {sock} /\ UNCHANGED << sock, status, transport >>
      BY <3>1, <2>7 DEF ReadTaskEnds, Fail, Finish, Settle, Goto
    <3> QED
      BY <3>1, <3>2, <3>3, <2>7 DEF ReadTaskEnds
  <2>8. CASE Errored(c)
    <3> SUFFICES ASSUME Initiator PROVE StopInv'
      BY <1>1 DEF StopInv
    <3>1. Conns = {1} /\ c = 1
      OBVIOUS
    <3>2. UNCHANGED << readTask, beatTask, reader, beat, stop >>
      BY <2>8 DEF Errored
    <3>3. \/ stage'[1] = "error" /\ UNCHANGED << sock, open, transport >>
          \/ sock = None /\ stage'[1] = "done" /\ UNCHANGED << sock, open >> /\ (stopping => UNCHANGED << status, transport >>)
          \/ sock # None /\ stage'[1] = "closing" /\ open' = open \ {sock} /\ UNCHANGED << sock, status, transport >>
      BY <3>1, <2>8 DEF Errored, Fail, Finish, Settle, Goto
    <3> QED
      BY <3>1, <3>2, <3>3, <2>8 DEF Errored
  <2>9. CASE Closed(c)
    BY <1>1, <2>9 DEF Closed, Settle, Goto
  <2>10. CASE Wake(c)
    BY <1>1, <2>10 DEF Wake, Beat
  <2>11. CASE Beaten(c)
    BY <1>1, <2>11 DEF Beaten, Beat, fields
  <2>12. CASE HeartbeatTimeout(c)
    BY <1>1, <2>12 DEF HeartbeatTimeout, Beat
  <2>13. CASE HangUp(c)
    BY <1>1, <2>13 DEF HangUp, Beat
  <2>14. CASE PeerHangsUp(c)
    BY <1>1, <2>14 DEF PeerHangsUp, fields, tasks
  <2> QED
    BY <1>1, <2>1, <2>2, <2>3, <2>4, <2>5, <2>6, <2>7, <2>8, <2>9, <2>10, <2>11, <2>12, <2>13, <2>14 DEF Connecting, Beating
<1>2. ASSUME NEW c \in Conns, Reading(c), kind' = kind PROVE StopInv'
  BY <1>2, ReadingFacts
<1>3. ASSUME GiveUp, kind' = kind PROVE StopInv'
  BY <1>3 DEF GiveUp, Goto
<1>4. ASSUME Recorded, kind' = kind PROVE StopInv'
  BY <1>4 DEF Recorded, fields, tasks
<1>5. ASSUME LogoutSent, kind' = kind PROVE StopInv'
  BY <1>5 DEF LogoutSent, Connection, Elsewhere
<1>6. ASSUME Cancelled, kind' = kind PROVE StopInv'
  BY <1>6, CloseFacts, TransportFacts DEF Cancelled, Closing, Elsewhere
<1>7. ASSUME SocketClosed, kind' = kind PROVE StopInv'
  BY <1>7, TransportFacts DEF SocketClosed, Elsewhere
<1>8. ASSUME ReportDown, kind' = kind PROVE StopInv'
  BY <1>8 DEF ReportDown, Elsewhere
<1>9. ASSUME Stopped, kind' = kind PROVE StopInv'
  BY <1>9 DEF Stopped, Connection, Elsewhere
<1>10. ASSUME AppChecks, kind' = kind PROVE StopInv'
  BY <1>10 DEF AppChecks, fields
<1>11. ASSUME AppSends, kind' = kind PROVE StopInv'
  BY <1>11 DEF AppSends, fields
<1>12. ASSUME AppSent, kind' = kind PROVE StopInv'
  BY <1>12 DEF AppSent, fields
<1>13. ASSUME Winding, kind' = kind PROVE StopInv'
  <2> SUFFICES ASSUME Initiator PROVE StopInv'
    BY <1>13 DEF StopInv
  <2>1. Conns = {1}
    OBVIOUS
  <2>2. UNCHANGED << status, readTask, beatTask >> /\ stop \notin {"cancelling", "closing", "transport", "down"}
    BY <1>13, WindingFacts
  <2>3. CASE Waiting
    <3>1. stage[1] # "none"
      BY <2>1, <2>3 DEF Waiting
    <3> QED
      BY <2>1, <2>2, <2>3, <3>1 DEF Waiting, BeatCancelled
  <2>4. CASE Unwinding /\ ~LoopsOver
    <3>1. readTask = 1 /\ beatTask = 1
      BY <2>1, <2>4 DEF LoopsOver, BeatCancelled
    <3>2. stop' = "cancelling" /\ beat'[1] = "ended" /\ UNCHANGED << sock, open, transport, stage >>
      BY <2>1, <2>4, <3>1 DEF Unwinding, BeatCancelled
    <3>3. reader'[1].at \in Over
      <4>1. CASE ReadOver
        BY <2>4, <3>1, <4>1 DEF Unwinding, ReadOver
      <4>2. CASE ~ReadOver
        <5>1. reader' = [reader EXCEPT ![1] = [at |-> "cancelled", on |-> None]]
          BY <2>4, <3>1, <4>2 DEF Unwinding
        <5> QED
          BY <2>1, <5>1, CancelledIsOver
      <4> QED
        BY <4>1, <4>2
    <3> QED
      BY <2>1, <2>2, <3>1, <3>2, <3>3
  <2>5. CASE Unwinding /\ LoopsOver
    <3>1. Quiet'
      BY <2>1, <2>2, <2>5 DEF Unwinding, LoopsOver, BeatCancelled, ReadOver
    <3>2. CASE sock # None
      BY <2>1, <2>2, <2>5, <3>1, <3>2 DEF Unwinding, Closing
    <3>3. CASE sock = None
      BY <2>1, <2>2, <2>5, <3>1, <3>3, TransportFacts DEF Unwinding, Closing
    <3> QED
      BY <3>2, <3>3
  <2> QED
    BY <1>13, <2>3, <2>4, <2>5, WindingFacts
<1>14. ASSUME NEW c \in Conns, NEW m \in Messages, PeerSends(c, m), kind' = kind PROVE StopInv'
  BY <1>14 DEF PeerSends, fields, tasks
<1>15. CASE UNCHANGED vars
  BY <1>15 DEF vars, changing, fields, tasks
<1> QED
  BY <1>1, <1>2, <1>3, <1>4, <1>5, <1>6, <1>7, <1>8, <1>9, <1>10, <1>11, <1>12, <1>13, <1>14, <1>15 DEF Next, Moves, Stopping, Winding, Reading

\* A connection comes after the one before it is let go of, and leaves things as it found them.
LEMMA BetweenStep ==
  ASSUME TypeOK, BetweenInv, Overlap => Initiator, [Next]_vars
  PROVE  BetweenInv'
<1> USE ConnFacts DEF BetweenInv, OneServed, Reports, Serving, TypeOK, Usable, Initiator
<1>1. ASSUME NEW c \in Conns, Connect(c) \/ Connecting(c) \/ Beating(c) \/ PeerHangsUp(c), kind' = kind
      PROVE  BetweenInv'
  <2>1. CASE Connect(c)
    BY <1>1, <2>1 DEF Connect, Goto
  <2>2. CASE StartLogon(c)
    BY <1>1, <2>2 DEF StartLogon, SendLogon, Written, WriteFails, Fail, Finish, Settle, Goto
  <2>3. CASE ReadLogon(c)
    BY <1>1, <2>3 DEF ReadLogon, Fail, Finish, Settle, Goto
  <2>4. CASE LogonRead(c)
    BY <1>1, <2>4 DEF LogonRead, SendLogon, Activate, Written, WriteFails, Fail, Finish, Settle, Goto
  <2>5. CASE LogonSent(c)
    BY <1>1, <2>5 DEF LogonSent, Activate, Goto
  <2>6. CASE Active(c)
    BY <1>1, <2>6 DEF Active, Goto
  <2>7. CASE ReadTaskEnds(c)
    BY <1>1, <2>7 DEF ReadTaskEnds, Fail, Finish, Settle, Goto
  <2>8. CASE Errored(c)
    BY <1>1, <2>8 DEF Errored, Finish, Settle, Goto
  <2>9. CASE Closed(c)
    BY <1>1, <2>9 DEF Closed, Settle, Goto
  <2>10. CASE Wake(c)
    BY <1>1, <2>10 DEF Wake, Beat
  <2>11. CASE Beaten(c)
    BY <1>1, <2>11 DEF Beaten, Beat, fields
  <2>12. CASE HeartbeatTimeout(c)
    BY <1>1, <2>12 DEF HeartbeatTimeout, Beat
  <2>13. CASE HangUp(c)
    BY <1>1, <2>13 DEF HangUp, Beat
  <2>14. CASE PeerHangsUp(c)
    BY <1>1, <2>14 DEF PeerHangsUp, fields, tasks
  <2> QED
    BY <1>1, <2>1, <2>2, <2>3, <2>4, <2>5, <2>6, <2>7, <2>8, <2>9, <2>10, <2>11, <2>12, <2>13, <2>14 DEF Connecting, Beating
<1>2. ASSUME NEW c \in Conns, Reading(c), kind' = kind PROVE BetweenInv'
  BY <1>2, ReadingFacts
<1>3. ASSUME GiveUp, kind' = kind PROVE BetweenInv'
  BY <1>3 DEF GiveUp, Goto
<1>4. ASSUME Recorded, kind' = kind PROVE BetweenInv'
  BY <1>4 DEF Recorded, fields, tasks
<1>5. ASSUME LogoutSent, kind' = kind PROVE BetweenInv'
  BY <1>5 DEF LogoutSent, Connection, Elsewhere
<1>6. ASSUME Cancelled, kind' = kind PROVE BetweenInv'
  BY <1>6, CloseFacts, TransportFacts DEF Cancelled, Closing, Elsewhere
<1>7. ASSUME SocketClosed, kind' = kind PROVE BetweenInv'
  BY <1>7, TransportFacts DEF SocketClosed, Elsewhere
<1>8. ASSUME ReportDown, kind' = kind PROVE BetweenInv'
  BY <1>8 DEF ReportDown, Elsewhere
<1>9. ASSUME Stopped, kind' = kind PROVE BetweenInv'
  BY <1>9 DEF Stopped, Connection, Elsewhere
<1>10. ASSUME AppChecks, kind' = kind PROVE BetweenInv'
  BY <1>10 DEF AppChecks, fields
<1>11. ASSUME AppSends, kind' = kind PROVE BetweenInv'
  BY <1>11 DEF AppSends, fields
<1>12. ASSUME AppSent, kind' = kind PROVE BetweenInv'
  BY <1>12 DEF AppSent, fields
<1>13. ASSUME Winding, kind' = kind PROVE BetweenInv'
  BY <1>13, WindingFacts, TransportFacts DEF Unwinding, Waiting, Closing, LoopsOver, BeatCancelled, ReadOver
<1>14. ASSUME NEW c \in Conns, NEW m \in Messages, PeerSends(c, m), kind' = kind PROVE BetweenInv'
  BY <1>14 DEF PeerSends, fields, tasks
<1>15. CASE UNCHANGED vars
  BY <1>15 DEF vars, changing, fields, tasks
<1> QED
  BY <1>1, <1>2, <1>3, <1>4, <1>5, <1>6, <1>7, <1>8, <1>9, <1>10, <1>11, <1>12, <1>13, <1>14, <1>15 DEF Next, Moves, Stopping, Winding, Reading

-----------------------------------------------------------------------------
\* The types hold.
THEOREM TypeCorrect == Spec => []TypeOK
<1>1. Init => TypeOK
  BY DEF Init, TypeOK, Stages, Places, Beats
<1>2. TypeOK /\ [Next]_vars => TypeOK'
  BY TypeStep
<1> QED
  BY <1>1, <1>2, PTL DEF Spec

\* A stop that returned leaves an initiator DOWN, with no socket, no transport and
\* no task but a heartbeat loop asleep, which ends when it wakes, wherever it met the
\* connection: in its logon, between two messages, in an error of its own, or before
\* there was one (FixSession.stop, FixInitiator.stop).
THEOREM StopLeavesNothingEver == Spec => []StopLeavesNothing
<1>1. Init => StopInv
  BY ConnFacts DEF Init, StopInv, LoopsTogether, SocketIsItsOwn, NotBegun, TornDown
<1>2. TypeOK /\ StopInv /\ [Next]_vars => StopInv'
  BY StopStep
<1>3. TypeOK /\ StopInv => StopLeavesNothing
  BY ConnFacts DEF TypeOK, StopInv, SocketIsItsOwn, TornDown, Quiet, StopLeavesNothing, Serving, Beats
<1> QED
  BY <1>1, <1>2, <1>3, TypeCorrect, PTL DEF Spec

\* Where one connection is served at a time, a session that is not being stopped has
\* no socket left between them and says what it does: an acceptor listens, an
\* initiator can be started again (on_connect).
THEOREM SettledBetweenEver ==
  ASSUME Overlap => Kinds \subseteq {"initiator"}
  PROVE  Spec => []SettledBetween
<1>1. Init => BetweenInv
  BY DEF Init, BetweenInv, OneServed, Reports, Serving
<1>2. TypeOK /\ BetweenInv /\ [Next]_vars => BetweenInv'
  BY BetweenStep DEF TypeOK, Initiator
<1>3. TypeOK /\ BetweenInv => SettledBetween
  BY ConnFacts DEF TypeOK, BetweenInv, OneServed, Reports, SettledBetween
<1> QED
  BY <1>1, <1>2, <1>3, TypeCorrect, PTL DEF Spec

\* The acceptor that is connected to twice is one of them.
THEOREM AcceptorSettled ==
  ASSUME Overlap => Kinds \subseteq {"initiator"}
  PROVE  AcceptorsSpec => []SettledBetween
<1>1. AcceptorsInit => Init
  BY DEF AcceptorsInit
<1>2. [AcceptorsNext]_<< about, vars, portVars >> => [Next]_vars
  BY DEF AcceptorsNext
<1> QED
  BY <1>1, <1>2, SettledBetweenEver, PTL DEF AcceptorsSpec, Spec

-----------------------------------------------------------------------------
(* The stream.                                                              *)

\* How many messages there are, how many were read, and where the last of these ends.
Count == Len(MessageEnds)
Seen == Len(messages)
Base == IF Seen = 0 THEN 0 ELSE MessageEnds[Seen]

\* The bytes beyond a, as far as b.
Bytes(a, b) == [k \in 1 .. b - a |-> a + k]

MessagesOK ==
    /\ messages \in Seq(Seq(Int)) /\ Seen <= Count
    /\ \A i \in 1 .. Seen : messages[i] = Stream!Message(i)

BufferOK ==
    /\ written \in Nat /\ taken \in Nat
    /\ Base <= taken /\ taken <= written /\ written <= MessageEnds[Count]
    /\ buffer = Bytes(Base, taken)

\* The dispatcher reads the first message, behind which nothing is under way.
HandOffOK ==
    /\ source = "dispatcher" => Inbound /\ Seen = 0
    /\ Inbound /\ Seen = 0 => written <= MessageEnds[1]

StreamInv == MessagesOK /\ BufferOK /\ HandOffOK

-----------------------------------------------------------------------------
(* Stretches of the stream.                                                 *)

\* A sequence is such a stretch when it has its length and its bytes.
LEMMA BytesFacts ==
  ASSUME NEW a \in Int, NEW b \in Int, a <= b
  PROVE  /\ Bytes(a, b) \in Seq(Int) /\ Len(Bytes(a, b)) = b - a
         /\ \A k \in 1 .. b - a : Bytes(a, b)[k] = a + k
         /\ \A s \in Seq(Int) : Len(s) = b - a /\ (\A k \in 1 .. b - a : s[k] = a + k) => s = Bytes(a, b)
<1>1. b - a \in Nat /\ \A k \in 1 .. b - a : a + k \in Int
  OBVIOUS
<1>2. /\ Bytes(a, b) \in Seq(Int) /\ Len(Bytes(a, b)) = b - a
      /\ \A k \in 1 .. b - a : Bytes(a, b)[k] = a + k
  BY <1>1 DEF Bytes
<1>3. ASSUME NEW s \in Seq(Int), Len(s) = b - a, \A k \in 1 .. b - a : s[k] = a + k
      PROVE  s = Bytes(a, b)
  BY <1>2, <1>3, SeqEqual
<1> QED
  BY <1>2, <1>3

\* Two that meet are one.
LEMMA BytesJoin ==
  ASSUME NEW a \in Int, NEW b \in Int, NEW c \in Int, a <= b, b <= c
  PROVE  Bytes(a, b) \o Bytes(b, c) = Bytes(a, c)
<1> DEFINE s == Bytes(a, b)
           t == Bytes(b, c)
<1>1. s \in Seq(Int) /\ Len(s) = b - a /\ \A k \in 1 .. b - a : s[k] = a + k
  BY BytesFacts
<1>2. t \in Seq(Int) /\ Len(t) = c - b /\ \A k \in 1 .. c - b : t[k] = b + k
  BY BytesFacts
<1> HIDE DEF s, t
<1>3. s \o t \in Seq(Int) /\ Len(s \o t) = c - a
  <2>1. s \o t \in Seq(Int) /\ Len(s \o t) = Len(s) + Len(t)
    BY <1>1, <1>2, ConcatProperties
  <2> QED
    BY <2>1, <1>1, <1>2
<1>4. \A k \in 1 .. c - a : (s \o t)[k] = IF k <= b - a THEN s[k] ELSE t[k - (b - a)]
  BY <1>1, <1>2, ConcatProperties
<1>5. ASSUME NEW k \in 1 .. c - a PROVE (s \o t)[k] = a + k
  <2>1. CASE k <= b - a
    BY <1>1, <1>4, <2>1
  <2>2. CASE ~(k <= b - a)
    <3>1. k - (b - a) \in 1 .. c - b /\ b + (k - (b - a)) = a + k
      BY <2>2
    <3>2. (s \o t)[k] = t[k - (b - a)]
      BY <1>4, <2>2
    <3> QED
      BY <1>2, <3>1, <3>2
  <2> QED
    BY <2>1, <2>2
<1>6. a <= c
  OBVIOUS
<1>7. s \o t = Bytes(a, c)
  BY <1>3, <1>5, <1>6, BytesFacts
<1> QED
  BY <1>7 DEF s, t

\* One that is cut is two.
LEMMA BytesCut ==
  ASSUME NEW a \in Int, NEW b \in Int, NEW c \in Int, a <= b, b <= c
  PROVE  /\ SubSeq(Bytes(a, c), 1, b - a) = Bytes(a, b)
         /\ SubSeq(Bytes(a, c), b - a + 1, c - a) = Bytes(b, c)
<1> DEFINE s == Bytes(a, c)
           m == b - a + 1
           front == SubSeq(s, 1, b - a)
           rest == SubSeq(s, m, c - a)
<1>1. a <= c
  OBVIOUS
<1>2. s \in Seq(Int) /\ Len(s) = c - a /\ \A k \in 1 .. c - a : s[k] = a + k
  BY <1>1, BytesFacts
<1> HIDE DEF s
<1>3. \A k \in 1 .. c - a : s[k] \in Int
  BY <1>2
<1>4. front = Bytes(a, b)
  <2>1. /\ front \in Seq(Int) /\ Len(front) = IF 1 <= b - a THEN b - a - 1 + 1 ELSE 0
        /\ \A k \in 1 .. b - a - 1 + 1 : front[k] = s[1 + k - 1]
    BY <1>3, SubSeqProperties
  <2> HIDE DEF front
  <2>2. Len(front) = b - a
    BY <2>1
  <2>3. ASSUME NEW k \in 1 .. b - a PROVE front[k] = a + k
    <3>1. k \in 1 .. c - a /\ k \in 1 .. b - a - 1 + 1 /\ 1 + k - 1 = k
      OBVIOUS
    <3> QED
      BY <1>2, <2>1, <3>1
  <2> QED
    BY <2>1, <2>2, <2>3, BytesFacts
<1>5. rest = Bytes(b, c)
  <2>1. m \in Int /\ c - a \in Int /\ \A k \in m .. c - a : k \in 1 .. c - a
    OBVIOUS
  <2> HIDE DEF m
  <2>2. /\ rest \in Seq(Int) /\ Len(rest) = IF m <= c - a THEN c - a - m + 1 ELSE 0
        /\ \A k \in 1 .. c - a - m + 1 : rest[k] = s[m + k - 1]
    BY <1>3, <2>1, SubSeqProperties
  <2> HIDE DEF rest
  <2>3. Len(rest) = c - b
    BY <2>2 DEF m
  <2>4. ASSUME NEW k \in 1 .. c - b PROVE rest[k] = b + k
    <3>1. m + k - 1 \in 1 .. c - a /\ k \in 1 .. c - a - m + 1 /\ a + (m + k - 1) = b + k
      BY DEF m
    <3> QED
      BY <1>2, <2>2, <3>1
  <2> QED
    BY <2>2, <2>3, <2>4, BytesFacts
<1> QED
  BY <1>4, <1>5 DEF s

-----------------------------------------------------------------------------
(* The messages in the buffer.                                              *)

\* The ends of the messages are numbers, each beyond those before it.
LEMMA EndsFacts ==
  /\ Count \in Nat \ {0}
  /\ \A i \in 1 .. Count : MessageEnds[i] \in Nat \ {0}
  /\ \A i, j \in 1 .. Count : i < j => MessageEnds[i] < MessageEnds[j]
  /\ \A i, j \in 1 .. Count : MessageEnds[i] < MessageEnds[j] => i < j
<1>1. /\ MessageEnds \in Seq(Nat \ {0}) /\ MessageEnds # << >>
      /\ \A i, j \in 1 .. Count : i < j => MessageEnds[i] < MessageEnds[j]
  BY StreamAssumption DEF Stream!FramingAssumption, Count
<1>2. Count \in Nat \ {0} /\ \A i \in 1 .. Count : MessageEnds[i] \in Nat \ {0}
  BY <1>1 DEF Count
<1>3. ASSUME NEW i \in 1 .. Count, NEW j \in 1 .. Count, MessageEnds[i] < MessageEnds[j]
      PROVE  i < j
  <2>1. ~(j < i)
    BY <1>1, <1>2, <1>3
  <2>2. i # j
    BY <1>2, <1>3
  <2> QED
    BY <2>1, <2>2
<1> QED
  BY <1>1, <1>2, <1>3

\* The messages read are a number of those there are.
LEMMA SeenFacts ==
  ASSUME StreamInv
  PROVE  /\ Seen \in 0 .. Count /\ Base \in Nat
         /\ Len(buffer) = taken - Base /\ taken - Base \in Nat
         /\ \A k \in 1 .. taken - Base : buffer[k] = Base + k
<1>1. Seen \in 0 .. Count
  BY EndsFacts DEF StreamInv, MessagesOK, Seen
<1>2. Base \in Nat
  BY <1>1, EndsFacts DEF Base
<1>3. taken - Base \in Nat /\ taken \in Int /\ Base \in Int /\ Base <= taken
  BY <1>2 DEF StreamInv, BufferOK
<1>4. buffer = Bytes(Base, taken)
  BY DEF StreamInv, BufferOK
<1>5. /\ Len(Bytes(Base, taken)) = taken - Base
      /\ \A k \in 1 .. taken - Base : Bytes(Base, taken)[k] = Base + k
  BY <1>3, BytesFacts
<1> QED
  BY <1>1, <1>2, <1>3, <1>4, <1>5

\* A message found in the buffer is the next one (_find_message_end).
LEMMA NextMessageFound ==
  ASSUME StreamInv, Stream!MessageEnd # 0
  PROVE  /\ Seen + 1 \in 1 .. Count
         /\ Stream!MessageEnd = MessageEnds[Seen + 1] - Base
         /\ Stream!MessageEnd \in 1 .. taken - Base
<1> DEFINE ends == {k \in 1 .. Len(buffer) : Stream!Contains(MessageEnds, buffer[k])}
           first == MessageEnds[Seen + 1] - Base
<1> USE SeenFacts, EndsFacts
<1>1. ends # {} /\ Stream!MessageEnd = CHOOSE k \in ends : \A l \in ends : k <= l
  BY DEF Stream!MessageEnd, Stream!Min
<1>2. ASSUME NEW k \in 1 .. taken - Base
      PROVE  k \in ends <=> \E i \in 1 .. Count : MessageEnds[i] = Base + k
  <2>1. buffer[k] = Base + k
    OBVIOUS
  <2> QED
    BY <2>1 DEF Stream!Contains, Count
<1>3. ASSUME NEW k \in ends
      PROVE  Seen + 1 \in 1 .. Count /\ first \in 1 .. k
  <2>1. k \in 1 .. taken - Base
    OBVIOUS
  <2>2. PICK i \in 1 .. Count : MessageEnds[i] = Base + k
    BY <2>1, <1>2
  <2>3. i > Seen
    BY <2>1, <2>2 DEF Base
  <2>4. Seen + 1 \in 1 .. Count /\ MessageEnds[Seen + 1] <= Base + k
    BY <2>2, <2>3
  <2>5. MessageEnds[Seen + 1] > Base
    BY <2>4 DEF Base
  <2> QED
    BY <2>1, <2>4, <2>5
<1>4. PICK k \in ends : TRUE
  BY <1>1
<1>5. Seen + 1 \in 1 .. Count /\ first \in 1 .. k
  BY <1>3
<1>6. first \in ends
  <2>1. first \in 1 .. taken - Base
    BY <1>5
  <2> QED
    BY <2>1, <1>2, <1>5
<1>7. \A l \in ends : first <= l
  BY <1>3, <1>5
<1>8. Stream!MessageEnd \in ends /\ \A l \in ends : Stream!MessageEnd <= l
  BY <1>1, <1>6, <1>7
<1>9. Stream!MessageEnd = first
  BY <1>6, <1>7, <1>8
<1> QED
  BY <1>5, <1>6, <1>9

-----------------------------------------------------------------------------
LEMMA StreamInit ==
  ASSUME Inbound => PeerWaits, Stream!Init
  PROVE  StreamInv
<1> USE EndsFacts
<1>1. written = 0 /\ taken = 0 /\ buffer = << >> /\ messages = << >> /\ Seen = 0 /\ Base = 0
  BY DEF Stream!Init, Seen, Base
<1>2. source = IF Inbound THEN "dispatcher" ELSE "session"
  BY DEF Stream!Init
<1>3. << >> = Bytes(0, 0)
  BY DEF Bytes
<1>4. MessageEnds[1] \in Nat /\ MessageEnds[Count] \in Nat
  OBVIOUS
<1> QED
  BY <1>1, <1>2, <1>3, <1>4 DEF StreamInv, MessagesOK, BufferOK, HandOffOK

\* The counterparty of an inbound connection writes no more than its Logon first.
LEMMA WriteKeeps ==
  ASSUME StreamInv, Inbound => PeerWaits, NEW n, Stream!Write(n)
  PROVE  StreamInv'
<1>1. n \in written + 1 .. MessageEnds[Count] /\ written' = n /\ UNCHANGED << taken, buffer, source, messages >>
  BY DEF Stream!Write, Stream!Length, Count
<1>2. PeerWaits /\ Seen = 0 => n <= MessageEnds[1]
  BY DEF Stream!Write, Seen
<1>3. Seen' = Seen /\ Base' = Base
  BY <1>1 DEF Seen, Base
<1>4. MessagesOK'
  BY <1>1, <1>3 DEF StreamInv, MessagesOK
<1>5. BufferOK'
  BY <1>1, <1>3, SeenFacts, EndsFacts DEF StreamInv, BufferOK
<1>6. HandOffOK'
  BY <1>1, <1>2, <1>3 DEF StreamInv, HandOffOK
<1> QED
  BY <1>4, <1>5, <1>6 DEF StreamInv

\* A chunk goes to the end of the buffer.
LEMMA ChunkKeeps ==
  ASSUME StreamInv, NEW n, Stream!Chunk(n)
  PROVE  StreamInv'
<1> USE SeenFacts
<1>1. n \in taken + 1 .. written /\ taken' = n /\ UNCHANGED << written, source, messages >>
  BY DEF Stream!Chunk
<1>2. buffer' = buffer \o Bytes(taken, n)
  BY DEF Stream!Chunk, Stream!Taken, Bytes
<1>3. Seen' = Seen /\ Base' = Base
  BY <1>1 DEF Seen, Base
<1>4. MessagesOK' /\ HandOffOK'
  BY <1>1, <1>3 DEF StreamInv, MessagesOK, HandOffOK
<1>5. Base \in Int /\ n \in Int /\ taken \in Int /\ n \in Nat /\ Base <= taken /\ taken <= n
  BY <1>1 DEF StreamInv, BufferOK
<1>6. buffer' = Bytes(Base, n)
  <2>1. Bytes(Base, taken) \o Bytes(taken, n) = Bytes(Base, n)
    BY <1>5, BytesJoin
  <2> QED
    BY <1>2, <2>1 DEF StreamInv, BufferOK
<1>7. BufferOK'
  BY <1>1, <1>3, <1>5, <1>6 DEF StreamInv, BufferOK
<1> QED
  BY <1>4, <1>7 DEF StreamInv

\* The message read is the next one, and what follows it stays.
LEMMA ReadKeeps ==
  ASSUME StreamInv, Stream!Read
  PROVE  StreamInv'
<1> DEFINE e == Stream!MessageEnd
<1>1. /\ source = "session" /\ e # 0
      /\ messages' = Append(messages, SubSeq(buffer, 1, e))
      /\ buffer' = SubSeq(buffer, e + 1, Len(buffer))
      /\ UNCHANGED << written, taken, source >>
  BY DEF Stream!Read
<1>2. Seen + 1 \in 1 .. Count /\ e = MessageEnds[Seen + 1] - Base /\ e \in 1 .. taken - Base
  BY <1>1, NextMessageFound
<1> HIDE DEF e
<1> DEFINE b == Base + e
<1>3. /\ Base \in Int /\ b \in Int /\ taken \in Int /\ Base <= b /\ b <= taken
      /\ b - Base = e /\ b = MessageEnds[Seen + 1]
  BY <1>2, SeenFacts, EndsFacts DEF StreamInv, BufferOK
<1> HIDE DEF b
<1>4. SubSeq(buffer, 1, e) = Bytes(Base, b) /\ SubSeq(buffer, e + 1, Len(buffer)) = Bytes(b, taken)
  <2>1. /\ SubSeq(Bytes(Base, taken), 1, b - Base) = Bytes(Base, b)
        /\ SubSeq(Bytes(Base, taken), b - Base + 1, taken - Base) = Bytes(b, taken)
    BY <1>3, BytesCut
  <2> QED
    BY <1>3, <2>1, SeenFacts DEF StreamInv, BufferOK
<1>5. Stream!Message(Seen + 1) = Bytes(Base, b)
  <2>1. Base = Stream!Start(Seen + 1)
    BY SeenFacts DEF Base, Stream!Start
  <2> QED
    BY <2>1, <1>3 DEF Stream!Message, Bytes
<1>6. SubSeq(buffer, 1, e) = Stream!Message(Seen + 1) /\ SubSeq(buffer, 1, e) \in Seq(Int)
  <2>1. Bytes(Base, b) \in Seq(Int)
    BY <1>3, BytesFacts
  <2> QED
    BY <1>5, <1>4, <2>1
<1>7. /\ messages' \in Seq(Seq(Int)) /\ Seen' = Seen + 1
      /\ \A i \in 1 .. Seen : messages'[i] = messages[i]
      /\ messages'[Seen + 1] = SubSeq(buffer, 1, e)
  <2>1. messages \in Seq(Seq(Int))
    BY DEF StreamInv, MessagesOK
  <2> QED
    BY <1>1, <1>6, <2>1, AppendProperties DEF Seen
<1>8. Base' = MessageEnds[Seen + 1]
  BY <1>7, SeenFacts DEF Base
<1>9. MessagesOK'
  <2>1. \A i \in 1 .. Seen + 1 : i \in 1 .. Seen \/ i = Seen + 1
    BY SeenFacts
  <2>2. \A i \in 1 .. Seen + 1 : messages'[i] = Stream!Message(i)
    BY <1>6, <1>7, <2>1 DEF StreamInv, MessagesOK
  <2> QED
    BY <1>2, <1>7, <2>2 DEF MessagesOK, Stream!Message, Stream!Start
<1>10. BufferOK'
  <2>1. Base' = b
    BY <1>3, <1>8
  <2> QED
    BY <1>1, <1>3, <1>4, <2>1 DEF StreamInv, BufferOK
<1>11. HandOffOK'
  BY <1>1, <1>7, SeenFacts DEF StreamInv, HandOffOK
<1> QED
  BY <1>9, <1>10, <1>11 DEF StreamInv

\* The dispatcher has read the Logon and nothing beyond it.
LEMMA DispatchKeeps ==
  ASSUME StreamInv, Stream!Dispatch
  PROVE  StreamInv'
<1> USE SeenFacts, EndsFacts
<1>1. /\ source = "dispatcher" /\ Stream!MessageEnd # 0 /\ source' = "session"
      /\ buffer' = SubSeq(buffer, 1, Stream!MessageEnd)
      /\ UNCHANGED << written, taken, messages >>
  BY DEF Stream!Dispatch
<1>2. Seen = 0 /\ written <= MessageEnds[1] /\ Base = 0
  BY <1>1 DEF StreamInv, HandOffOK, Base
<1>3. Stream!MessageEnd = taken
  BY <1>1, <1>2, NextMessageFound DEF StreamInv, BufferOK
<1>4. buffer' = buffer
  <2>1. taken \in Int /\ 0 <= taken
    BY DEF StreamInv, BufferOK
  <2>2. Bytes(0, taken) = SubSeq(Bytes(0, taken), 1, taken - 0)
    BY <2>1, BytesCut
  <2> QED
    BY <1>1, <1>2, <1>3, <2>1, <2>2 DEF StreamInv, BufferOK
<1>5. Seen' = Seen /\ Base' = Base
  BY <1>1 DEF Seen, Base
<1> QED
  BY <1>1, <1>2, <1>4, <1>5 DEF StreamInv, MessagesOK, BufferOK, HandOffOK

-----------------------------------------------------------------------------
\* However the stream is split into chunks, what the session reads is the messages
\* of the counterparty, whole, in order and with none left out, if the counterparty
\* of an inbound connection awaits our Logon after its own
\* (FixStreamParser.read_message, FixServer._on_connect).
THEOREM MessagesAsSentEver ==
  ASSUME Inbound => PeerWaits
  PROVE  MCSpec => []MessagesAsSent
<1>1. MCInit => StreamInv
  BY StreamInit DEF MCInit
<1>2. StreamInv /\ [MCNext]_<< part, vars, streamVars >> => StreamInv'
  <2> SUFFICES ASSUME StreamInv, [MCNext]_<< part, vars, streamVars >> PROVE StreamInv'
    OBVIOUS
  <2>1. CASE Stream!Next
    BY <2>1, WriteKeeps, ChunkKeeps, ReadKeeps, DispatchKeeps DEF Stream!Next
  <2>2. CASE UNCHANGED streamVars
    BY <2>2 DEF streamVars, StreamInv, MessagesOK, BufferOK, HandOffOK, Seen, Base
  <2> QED
    BY <2>1, <2>2 DEF MCNext
<1>3. StreamInv => MessagesAsSent
  BY DEF StreamInv, MessagesOK, MessagesAsSent, Stream!MessagesAsSent, Seen, Count
<1> QED
  BY <1>1, <1>2, <1>3, PTL DEF MCSpec

-----------------------------------------------------------------------------
(* The port.                                                                *)

(* The registry, the listeners and the tasks have their types.              *)
PortTypes ==
    /\ waits \in BOOLEAN
    /\ registered \in Port!Servers \cup {Port!None} /\ made \in Nat
    /\ listeners \in [Port!Servers -> SUBSET Sessions]
    /\ server \in [Port!Servers -> {"none", "open", "closed"}]
    /\ port \in Port!Servers \cup {Port!None, Port!Other}
    /\ binding \in [Sessions -> Port!Servers \cup {Port!None}]
    /\ closing \in [Sessions -> Port!Servers \cup {Port!None}]
    /\ attached \in [Sessions -> BOOLEAN]
    /\ up \in [Sessions -> {"DOWN", "LISTENING"}]
    /\ crossed \in BOOLEAN

(* Listeners are attached sessions, of the registered server only.          *)
ListenersOK ==
    \A o \in Port!Servers : \A s \in listeners[o] : o = registered /\ attached[s]

ClosedAtOnce == \A s \in Sessions : closing[s] = Port!None

(* The server that has the port is the registered one.                      *)
PortOK ==
    /\ \A o \in Port!Servers : server[o] # "none" => port = o
    /\ port \in Port!Servers => registered = port

(* A start that awaits its bind is a listener of the server it binds, which *)
(* can therefore not be closed meanwhile.                                   *)
BindsOK == \A s \in Sessions : binding[s] # Port!None => s \in listeners[binding[s]]

StatusOK == \A s \in Sessions : up[s] = "LISTENING" => Port!Reachable(s)

AtOnce == ListenersOK /\ ClosedAtOnce

Uncrossed == PortOK /\ BindsOK /\ StatusOK

PortIInv == PortTypes /\ (~waits => AtOnce /\ (~crossed => Uncrossed))

-----------------------------------------------------------------------------
\* Port!None and Port!Other are no servers.
LEMMA ServersArePositive == Port!None \notin Port!Servers /\ Port!Other \notin Port!Servers
  BY PortAssumption DEF Port!ServerAssumption, Port!None, Port!Other, Port!Servers

\* Every step keeps the types.
LEMMA PortTypesHold == PortTypes /\ [Port!Next]_(Port!vars) => PortTypes'
<1> SUFFICES ASSUME PortTypes, [Port!Next]_(Port!vars) PROVE PortTypes'
  OBVIOUS
<1> USE ServersArePositive, PortAssumption DEF Port!ServerAssumption
<1>1. ASSUME NEW s \in Sessions, Port!Start(s), UNCHANGED waits PROVE PortTypes'
  <2> DEFINE o == Port!GetOrCreate
  <2>1. o \in Port!Servers /\ o \in Nat
    BY <1>1 DEF Port!Start, Port!Servers
  <2>2. registered' = o /\ made' \in Nat
    BY <1>1, <2>1 DEF Port!Start, PortTypes
  <2>3. listeners' \in [Port!Servers -> SUBSET Sessions]
    BY <1>1, <2>1 DEF Port!Start, PortTypes
  <2>4. binding' \in [Sessions -> Port!Servers \cup {Port!None}] /\ UNCHANGED << closing, crossed >>
    BY <1>1, <2>1 DEF Port!Start, PortTypes
  <2>5. up' \in [Sessions -> {"DOWN", "LISTENING"}]
    BY <1>1 DEF Port!Start, Port!Listening, PortTypes
  <2>6. attached' \in [Sessions -> BOOLEAN]
    BY <1>1 DEF Port!Start, PortTypes
  <2>7. waits' = waits /\ server' = server /\ port' = port
    BY <1>1 DEF Port!Start
  <2> QED  BY <2>1, <2>2, <2>3, <2>4, <2>5, <2>6, <2>7 DEF PortTypes
<1>2. ASSUME NEW s \in Sessions, Port!Bind(s), UNCHANGED waits PROVE PortTypes'
  BY <1>2 DEF Port!Bind, Port!Listening, PortTypes
<1>3. ASSUME NEW s \in Sessions, Port!Stop(s), UNCHANGED waits PROVE PortTypes'
  <2> DEFINE o == registered
             rest == Port!Rest(o, s)
  <2>1. waits' = waits /\ made' = made /\ binding' = binding /\ crossed' \in BOOLEAN
    BY <1>3 DEF Port!Stop, PortTypes
  <2>2. rest \in SUBSET Sessions \/ o = Port!None
    BY DEF PortTypes, Port!Rest
  <2>3. Port!Down(s) => /\ attached' \in [Sessions -> BOOLEAN]
                   /\ up' \in [Sessions -> {"DOWN", "LISTENING"}]
    BY DEF Port!Down, PortTypes
  <2>4. CASE o = Port!None
    <3>1. Port!Down(s) /\ UNCHANGED << registered, listeners, server, port, closing >>
      BY <1>3, <2>4 DEF Port!Stop
    <3> QED  BY <2>1, <2>3, <3>1 DEF PortTypes
  <2>5. CASE o # Port!None
    <3>1. o \in Port!Servers /\ listeners' = [listeners EXCEPT ![o] = rest]
      BY <1>3, <2>5 DEF Port!Stop, PortTypes
    <3>2. listeners' \in [Port!Servers -> SUBSET Sessions]
      BY <2>2, <2>5, <3>1 DEF PortTypes
    <3>3. CASE ~(Port!Closes(rest) /\ server[o] # "none")
      <4>1. Port!Down(s) /\ UNCHANGED << registered, server, port, closing >>
        BY <1>3, <2>5, <3>3 DEF Port!Stop
      <4> QED  BY <2>1, <2>3, <3>2, <4>1 DEF PortTypes
    <3>4. CASE Port!Closes(rest) /\ server[o] # "none"
      <4>1. port' = IF port = o THEN Port!None ELSE port
        BY <1>3, <2>5, <3>4 DEF Port!Stop
      <4>2. port' \in Port!Servers \cup {Port!None, Port!Other}
        BY <4>1 DEF PortTypes
      <4>3. CASE waits
        <5>1. /\ server' = [server EXCEPT ![o] = "closed"]
              /\ closing' = [closing EXCEPT ![s] = o]
              /\ UNCHANGED << registered, attached, up >>
          BY <1>3, <2>5, <3>4, <4>3 DEF Port!Stop
        <5> QED  BY <2>1, <3>1, <3>2, <4>2, <5>1 DEF PortTypes
      <4>4. CASE ~waits
        <5>1. /\ server' = [server EXCEPT ![o] = "none"] /\ registered' = Port!None
              /\ Port!Down(s) /\ UNCHANGED closing
          BY <1>3, <2>5, <3>4, <4>4 DEF Port!Stop
        <5> QED  BY <2>1, <2>3, <3>1, <3>2, <4>2, <5>1 DEF PortTypes
      <4> QED  BY <4>3, <4>4
    <3> QED  BY <3>3, <3>4
  <2> QED  BY <2>4, <2>5
<1>4. ASSUME NEW s \in Sessions, Port!Closed(s), UNCHANGED waits PROVE PortTypes'
  BY <1>4 DEF Port!Closed, Port!Down, PortTypes
<1>5. ASSUME Port!OtherProcess, UNCHANGED waits PROVE PortTypes'
  BY <1>5 DEF Port!OtherProcess, PortTypes
<1>6. CASE UNCHANGED Port!vars
  BY <1>6 DEF Port!vars, PortTypes
<1> QED  BY <1>1, <1>2, <1>3, <1>4, <1>5, <1>6 DEF Port!Next, Port!Moves

\* The initial states.
LEMMA PortInit == Port!Init => PortIInv
<1> SUFFICES ASSUME Port!Init PROVE PortIInv
  OBVIOUS
<1>1. PortTypes
  BY DEF Port!Init, PortTypes
<1>2. AtOnce
  BY DEF Port!Init, AtOnce, ListenersOK, ClosedAtOnce
<1>3. Uncrossed
  BY ServersArePositive DEF Port!Init, Uncrossed, PortOK, BindsOK, StatusOK, Port!Reachable
<1> QED  BY <1>1, <1>2, <1>3 DEF PortIInv

\* A start keeps what holds where wait_closed returns at once.
LEMMA StartKeeps ==
    ASSUME PortTypes, AtOnce, NEW s \in Sessions, Port!Start(s)
    PROVE  AtOnce' /\ (Uncrossed => Uncrossed')
<1> DEFINE o == Port!GetOrCreate
<1> USE ServersArePositive
<1>1. /\ o \in Port!Servers /\ ~attached[s]
      /\ attached' = [attached EXCEPT ![s] = TRUE]
      /\ registered' = o
      /\ listeners' = [listeners EXCEPT ![o] = @ \cup {s}]
      /\ UNCHANGED << server, port, closing >>
  BY DEF Port!Start
<1>2. registered # Port!None => o = registered
  BY DEF Port!GetOrCreate
<1>3. ASSUME NEW q \in Port!Servers
      PROVE  listeners'[q] = IF q = o THEN listeners[q] \cup {s} ELSE listeners[q]
  BY <1>1, <1>3 DEF PortTypes
<1>4. \A q \in Port!Servers : \A t \in listeners[q] : q = o /\ attached[t]
  BY <1>2 DEF AtOnce, ListenersOK
<1>5. \A t \in Sessions : attached'[t] = IF t = s THEN TRUE ELSE attached[t]
  BY <1>1 DEF PortTypes
<1>6. AtOnce'
  <2>1. ASSUME NEW q \in Port!Servers, NEW t \in listeners'[q] PROVE q = registered' /\ attached'[t]
    <3>1. CASE t \in listeners[q]
      <4>1. q = o /\ attached[t] /\ t \in Sessions
        BY <3>1, <1>4 DEF PortTypes
      <4> QED  BY <4>1, <1>1, <1>5
    <3>2. CASE t \notin listeners[q]
      <4>1. q = o /\ t = s
        BY <2>1, <3>2, <1>3
      <4> QED  BY <4>1, <1>1, <1>5
    <3> QED  BY <3>1, <3>2
  <2> QED  BY <2>1, <1>1 DEF AtOnce, ListenersOK, ClosedAtOnce
<1>7. ASSUME Uncrossed PROVE Uncrossed'
  <2>1. PortOK'
    BY <1>7, <1>1, <1>2 DEF Uncrossed, PortOK
  <2>2. BindsOK'
    <3> SUFFICES ASSUME NEW t \in Sessions, binding'[t] # Port!None PROVE t \in listeners'[binding'[t]]
      BY DEF BindsOK
    <3>1. CASE t = s /\ server[o] = "none"
      <4>1. binding'[t] = o
        BY <3>1 DEF Port!Start, PortTypes
      <4> QED  BY <4>1, <3>1, <1>1, <1>3
    <3>2. CASE ~(t = s /\ server[o] = "none")
      <4>1. binding'[t] = binding[t]
        BY <3>2 DEF Port!Start, PortTypes
      <4>2. binding[t] \in Port!Servers /\ t \in listeners[binding[t]]
        BY <1>7, <4>1 DEF Uncrossed, BindsOK, PortTypes
      <4> QED  BY <4>1, <4>2, <1>3
    <3> QED  BY <3>1, <3>2
  <2>3. StatusOK'
    <3> SUFFICES ASSUME NEW t \in Sessions, up'[t] = "LISTENING"
                 PROVE  port \in Port!Servers /\ t \in listeners'[port]
      BY <1>1 DEF StatusOK, Port!Reachable
    <3>1. CASE up[t] = "LISTENING"
      <4>1. port \in Port!Servers /\ t \in listeners[port]
        BY <1>7, <3>1 DEF Uncrossed, StatusOK, Port!Reachable
      <4> QED  BY <4>1, <1>3
    <3>2. CASE up[t] # "LISTENING"
      <4>1. t = s /\ server[o] # "none"
        BY <3>2 DEF Port!Start, Port!Listening, PortTypes
      <4>2. port = o
        BY <1>7, <4>1, <1>1 DEF Uncrossed, PortOK
      <4> QED  BY <4>1, <4>2, <1>1, <1>3
    <3> QED  BY <3>1, <3>2
  <2> QED  BY <2>1, <2>2, <2>3 DEF Uncrossed
<1> QED  BY <1>6, <1>7

\* So does a bind: its session listens still, on the registered server.
LEMMA BindKeeps ==
    ASSUME PortTypes, AtOnce, NEW s \in Sessions, Port!Bind(s)
    PROVE  AtOnce' /\ (Uncrossed => Uncrossed')
<1> USE ServersArePositive
<1>1. /\ binding[s] # Port!None /\ binding' = [binding EXCEPT ![s] = Port!None]
      /\ UNCHANGED << registered, listeners, closing, attached >>
  BY DEF Port!Bind
<1>2. AtOnce'
  BY <1>1 DEF AtOnce, ListenersOK, ClosedAtOnce
<1>3. ASSUME Uncrossed PROVE Uncrossed'
  <2>1. binding[s] \in Port!Servers /\ s \in listeners[binding[s]] /\ binding[s] = registered
    BY <1>1, <1>3 DEF AtOnce, Uncrossed, BindsOK, ListenersOK, PortTypes
  <2>2. BindsOK'
    <3>1. \A t \in Sessions : binding'[t] \in {Port!None, binding[t]}
      BY <1>1 DEF PortTypes
    <3> QED  BY <3>1, <1>1, <1>3 DEF Uncrossed, BindsOK
  <2>3. CASE port = Port!None
    <3>1. /\ port' = binding[s] /\ server' = [server EXCEPT ![binding[s]] = "open"]
          /\ up' = [up EXCEPT ![s] = "LISTENING"]
      BY <2>3 DEF Port!Bind, Port!Listening
    <3>2. \A o \in Port!Servers : server[o] = "none"
      BY <1>3, <2>3 DEF Uncrossed, PortOK
    <3>3. PortOK'
      BY <1>1, <2>1, <3>1, <3>2 DEF PortOK, PortTypes
    <3>4. \A t \in Sessions : up[t] # "LISTENING"
      BY <1>3, <2>3 DEF Uncrossed, StatusOK, Port!Reachable
    <3>5. StatusOK'
      <4> SUFFICES ASSUME NEW t \in Sessions, up'[t] = "LISTENING"
                   PROVE  port' \in Port!Servers /\ t \in listeners'[port']
        BY DEF StatusOK, Port!Reachable
      <4>1. t = s
        BY <3>1, <3>4 DEF PortTypes
      <4> QED  BY <4>1, <1>1, <2>1, <3>1
    <3> QED  BY <2>2, <3>3, <3>5 DEF Uncrossed
  <2>4. CASE port # Port!None
    <3>1. UNCHANGED << port, server, up >>
      BY <2>4 DEF Port!Bind
    <3>2. PortOK' /\ StatusOK'
      BY <1>1, <1>3, <3>1 DEF Uncrossed, PortOK, StatusOK, Port!Reachable
    <3> QED  BY <2>2, <3>2 DEF Uncrossed
  <2> QED  BY <2>3, <2>4
<1> QED  BY <1>2, <1>3

\* So does a stop: the server closes with its last listener, so nobody else is
\* LISTENING then.  One that crosses a bind keeps the listeners in order.
LEMMA StopKeeps ==
    ASSUME PortTypes, ~waits, AtOnce, NEW s \in Sessions, Port!Stop(s)
    PROVE  AtOnce' /\ (Uncrossed /\ ~crossed' => Uncrossed')
<1> DEFINE o == registered
           rest == Port!Rest(o, s)
<1> USE ServersArePositive
<1>1. Port!Down(s) /\ closing' = closing
  BY DEF Port!Stop
<1>2. /\ \A t \in Sessions : up'[t] = IF t = s THEN "DOWN" ELSE up[t]
      /\ \A t \in Sessions : attached'[t] = IF t = s THEN FALSE ELSE attached[t]
      /\ binding' = binding /\ (~crossed' => binding[s] = Port!None)
  BY <1>1 DEF Port!Down, PortTypes, Port!Stop
<1>3. \A q \in Port!Servers : listeners'[q] = listeners[q] \ {s}
  <2>1. CASE o = Port!None
    <3>1. listeners' = listeners
      BY <2>1 DEF Port!Stop
    <3>2. \A q \in Port!Servers : s \notin listeners[q]
      BY <2>1 DEF AtOnce, ListenersOK
    <3> QED  BY <3>1, <3>2
  <2>2. CASE o # Port!None
    <3>1. listeners' = [listeners EXCEPT ![o] = rest] /\ o \in Port!Servers
      BY <2>2 DEF Port!Stop, PortTypes
    <3>2. \A q \in Port!Servers : q # o => s \notin listeners[q]
      BY DEF AtOnce, ListenersOK
    <3> QED  BY <3>1, <3>2 DEF PortTypes, Port!Rest
  <2> QED  BY <2>1, <2>2
<1>4. Uncrossed /\ ~crossed' => BindsOK'
  <2> SUFFICES ASSUME Uncrossed, ~crossed', NEW t \in Sessions, binding'[t] # Port!None
               PROVE  t \in listeners'[binding'[t]]
    BY DEF BindsOK
  <2>1. t # s /\ binding[t] \in Port!Servers /\ t \in listeners[binding[t]] /\ binding'[t] = binding[t]
    BY <1>2 DEF Uncrossed, BindsOK, PortTypes
  <2> QED  BY <2>1, <1>3
<1>5. CASE o # Port!None /\ Port!Closes(rest) /\ server[o] # "none"
  <2>1. /\ port' = IF port = o THEN Port!None ELSE port
        /\ server' = [server EXCEPT ![o] = "none"] /\ registered' = Port!None
    BY <1>5 DEF Port!Stop
  <2>2. o \in Port!Servers /\ listeners[o] \ {s} = {}
    BY <1>5 DEF PortTypes, Port!Closes, Port!Rest
  <2>3. \A q \in Port!Servers : listeners'[q] = {}
    BY <1>3, <2>2 DEF AtOnce, ListenersOK
  <2>4. AtOnce'
    BY <1>1, <2>3 DEF AtOnce, ListenersOK, ClosedAtOnce
  <2>5. ASSUME Uncrossed PROVE PortOK' /\ StatusOK'
    <3>1. port = o
      BY <1>5, <2>2, <2>5 DEF Uncrossed, PortOK
    <3>2. \A q \in Port!Servers : server'[q] = "none"
      BY <2>1, <2>2, <2>5, <3>1 DEF Uncrossed, PortOK, PortTypes
    <3>3. \A t \in Sessions : up'[t] # "LISTENING"
      BY <1>2, <2>2, <2>5, <3>1 DEF Uncrossed, StatusOK, Port!Reachable
    <3> QED  BY <2>1, <3>1, <3>2, <3>3 DEF PortOK, StatusOK
  <2> QED  BY <1>4, <2>4, <2>5 DEF Uncrossed
<1>6. CASE ~(o # Port!None /\ Port!Closes(rest) /\ server[o] # "none")
  <2>1. UNCHANGED << registered, server, port >>
    BY <1>6 DEF Port!Stop
  <2>2. AtOnce'
    BY <1>1, <1>2, <1>3, <2>1 DEF AtOnce, ListenersOK, ClosedAtOnce, PortTypes
  <2>3. ASSUME Uncrossed PROVE PortOK' /\ StatusOK'
    <3>1. PortOK'
      BY <2>1, <2>3 DEF Uncrossed, PortOK
    <3>2. ASSUME NEW t \in Sessions, up'[t] = "LISTENING"
          PROVE  port \in Port!Servers /\ t \in listeners'[port]
      <4>1. t # s /\ up[t] = "LISTENING"
        BY <1>2, <3>2
      <4>2. port \in Port!Servers /\ t \in listeners[port]
        BY <4>1, <2>3 DEF Uncrossed, StatusOK, Port!Reachable
      <4> QED  BY <4>1, <4>2, <1>3
    <3> QED  BY <2>1, <3>1, <3>2 DEF StatusOK, Port!Reachable
  <2> QED  BY <1>4, <2>2, <2>3 DEF Uncrossed
<1> QED  BY <1>5, <1>6

\* Every step keeps the invariant; a close that was awaited is none here.
LEMMA PortStep == PortIInv /\ [Port!Next]_(Port!vars) => PortIInv'
<1> SUFFICES ASSUME PortIInv, [Port!Next]_(Port!vars), ~waits'
             PROVE  AtOnce' /\ (~crossed' => Uncrossed')
  BY PortTypesHold DEF PortIInv
<1>1. ~waits /\ PortTypes /\ AtOnce /\ (~crossed => Uncrossed)
  BY DEF PortIInv, Port!Next, Port!vars
<1>2. ~crossed' => ~crossed
  BY DEF Port!Next, Port!Moves, Port!Start, Port!Bind, Port!Stop, Port!Closed, Port!OtherProcess, Port!vars
<1>3. ASSUME NEW s \in Sessions, Port!Closed(s) PROVE FALSE
  BY <1>1, <1>3 DEF Port!Closed, AtOnce, ClosedAtOnce
<1>4. CASE Port!OtherProcess
  <2>1. /\ port \notin Port!Servers /\ port' \notin Port!Servers
        /\ UNCHANGED << registered, listeners, server, binding, closing, attached, up >>
    BY <1>4, ServersArePositive DEF Port!OtherProcess
  <2>2. AtOnce'
    BY <1>1, <2>1 DEF AtOnce, ListenersOK, ClosedAtOnce
  <2>3. ASSUME Uncrossed PROVE Uncrossed'
    <3>1. \A o \in Port!Servers : server[o] = "none"
      BY <2>1, <2>3 DEF Uncrossed, PortOK
    <3>2. \A s \in Sessions : up[s] # "LISTENING"
      BY <2>1, <2>3 DEF Uncrossed, StatusOK, Port!Reachable
    <3> QED  BY <2>1, <2>3, <3>1, <3>2 DEF Uncrossed, PortOK, BindsOK, StatusOK
  <2> QED  BY <1>1, <1>2, <2>2, <2>3
<1>5. CASE UNCHANGED Port!vars
  BY <1>1, <1>5 DEF Port!vars, AtOnce, Uncrossed, PortOK, ListenersOK, ClosedAtOnce, BindsOK, StatusOK, Port!Reachable
<1> QED  BY <1>1, <1>2, <1>3, <1>4, <1>5, StartKeeps, BindKeeps, StopKeeps DEF Port!Next, Port!Moves

-----------------------------------------------------------------------------
\* The types, and the order of the registry where wait_closed returns at once.
THEOREM PortHolds == AcceptorsSpec => []PortIInv
<1>1. Port!Init => PortIInv
  BY PortInit
<1>2. PortIInv /\ [Port!Next]_(Port!vars) => PortIInv'
  BY PortStep
<1>3. AcceptorsInit => Port!Init
  BY DEF AcceptorsInit
<1>4. [AcceptorsNext]_<< about, vars, portVars >> => [Port!Next]_(Port!vars)
  BY DEF AcceptorsNext, portVars, Port!vars
<1> QED  BY <1>1, <1>2, <1>3, <1>4, PTL DEF AcceptorsSpec

\* Where wait_closed returns at once, a session that reports LISTENING can be
\* connected to, unless a stop crossed a bind, and one that was stopped cannot,
\* crossed or not (FixServer.add_listener, FixServer.remove_listener).
THEOREM ReachableWhileListening == AcceptorsSpec => []ListeningIsReachable
<1>1. PortIInv => ListeningIsReachable
  <2> SUFFICES ASSUME PortIInv, ~waits, NEW s \in Sessions
               PROVE  /\ ~crossed /\ up[s] = "LISTENING" => Port!Reachable(s)
                      /\ ~attached[s] => ~Port!Reachable(s)
    BY DEF ListeningIsReachable, Port!ListeningIsReachable
  <2>1. ~crossed /\ up[s] = "LISTENING" => Port!Reachable(s)
    BY DEF PortIInv, Uncrossed, StatusOK
  <2>2. Port!Reachable(s) => attached[s]
    BY DEF PortIInv, AtOnce, ListenersOK, Port!Reachable
  <2> QED  BY <2>1, <2>2
<1> QED  BY <1>1, PortHolds, PTL
=============================================================================
