-------------------------- MODULE SessionSeqProofs --------------------------
(***************************************************************************)
(* What holds of SessionSeq for every value of its constants.               *)
(***************************************************************************)
EXTENDS SessionSeq, SequenceTheorems, WellFoundedInduction, TLAPS

USE DEF Numbers, Admin

-----------------------------------------------------------------------------
(* The resend's arithmetic.                                                 *)

\* Every set of numbers that is not empty has a least one.
LEMMA LeastNumber ==
  ASSUME NEW T, T \subseteq Nat, T # {}
  PROVE  \E x \in T : \A y \in T : x <= y
<1>1. PICK x \in T : \A y \in T : ~ (<< y, x >> \in OpToRel(<, Nat))
  BY NatLessThanWellFounded, WFMin, Zenon
<1>2. ASSUME NEW y \in T PROVE x <= y
  <2>1. ~ (y < x)
    BY <1>1, Zenon DEF OpToRel
  <2> QED BY <2>1
<1> QED BY <1>2

\* The run of gap numbers that begins at n ends inside the range or just past
\* it (the loop of _answer_resend_request always advances and never overruns).
LEMMA RunEndInRange ==
  ASSUME NEW bySeq, NEW n \in Nat, NEW end \in Nat, n <= end, InGap(bySeq, n)
  PROVE  RunEnd(bySeq, n, end) \in n + 1 .. end + 1
<1> DEFINE T == {k \in n + 1 .. end + 1 : k = end + 1 \/ ~InGap(bySeq, k)}
<1>1. T \subseteq Nat /\ end + 1 \in T
  OBVIOUS
<1>2. PICK k \in T : \A y \in T : k <= y
  BY <1>1, LeastNumber
<1>3. ASSUME NEW j \in n .. k - 1 PROVE InGap(bySeq, j)
  BY <1>2
<1>4. \E i \in n + 1 .. end + 1 :
          /\ i = end + 1 \/ ~InGap(bySeq, i)
          /\ \A j \in n .. i - 1 : InGap(bySeq, j)
  BY <1>2, <1>3
<1> QED BY <1>4 DEF RunEnd

LEMMA NewestIdsOK ==
  ASSUME NEW begin, NEW end, NEW e, NEW i \in NewestIds(rows, begin, end, e)
  PROVE  i \in DOMAIN rows /\ i > e /\ rows[i].seq \in begin .. end
BY DEF NewestIds

\* by_seq holds, for numbers of the range, the bodies of rows newer than the
\* epoch recorded under them.
LEMMA SentMessagesOK ==
  ASSUME NEW begin, NEW end, NEW e, NEW n \in DOMAIN SentMessages(rows, begin, end, e)
  PROVE  \E i \in DOMAIN rows : /\ i > e /\ rows[i].seq = n /\ n \in begin .. end
                                /\ SentMessages(rows, begin, end, e)[n] = rows[i].body
<1> DEFINE ids == NewestIds(rows, begin, end, e)
           i   == CHOOSE k \in ids : rows[k].seq = n
<1>1. \E k \in ids : rows[k].seq = n
  BY DEF SentMessages
<1>2. i \in ids /\ rows[i].seq = n
  BY <1>1
<1>3. SentMessages(rows, begin, end, e)[n] = rows[i].body
  BY DEF SentMessages
<1> QED BY <1>2, <1>3, NewestIdsOK

-----------------------------------------------------------------------------
(* Type correctness.                                                        *)

\* What a counterparty may send, as far as the numbers go.
LEMMA InboundOK ==
  ASSUME TypeOK, SeqAssumption, NEW m \in Inbound
  PROVE  /\ m \in Received
         /\ m.dup = "Y" => m.seq < peer /\ m.new <= peer
         /\ m.dup = "N" => m.seq >= peer /\ (m.new = 0 \/ m.new > m.seq)
<1>1. \A n \in Fresh : n \in Nat /\ n >= peer
  BY DEF Fresh, TypeOK, SeqAssumption
<1>2. CASE m \in Ordinary
  BY <1>1, <1>2 DEF Ordinary, Received, InTypes
<1>3. CASE m \in ResendRequests
  BY <1>1, <1>3 DEF ResendRequests, Received, InTypes, SeqAssumption
<1>4. CASE m \in Resets
  BY <1>1, <1>4 DEF Resets, Received, InTypes, SeqAssumption
<1>5. CASE m \in Resends
  BY <1>5 DEF Resends, Received, InTypes, TypeOK
<1> QED BY <1>2, <1>3, <1>4, <1>5 DEF Inbound

\* A message numbered and sent leaves the types alone.
LEMMA SendFromType ==
  ASSUME TypeOK, NEW task \in Tasks, NEW type \in Types, NEW body \in Nat, NEW n \in Numbers,
         NEW used, used \subseteq Rows, SendFrom(task, type, body, n, used)
  PROVE  /\ tx' \in Numbers
         /\ wire' \in OnWires
         /\ sent' \subseteq Rows
         /\ queue' \in Seq(Writes)
<1>1. SendRow(task, n, body) \in Writes
  BY DEF SendRow, Writes, RowWrites
<1>2. queue' \in Seq(Writes)
  BY <1>1 DEF SendFrom, SendAfter, TypeOK
<1> QED BY <1>2 DEF SendFrom, SendAfter, OnWire, OnWires, Rows, TypeOK

\* So does the dispatch of a message.
LEMMA DispatchType ==
  ASSUME TypeOK, NEW m \in Received, Dispatch(m)
  PROVE  /\ tx' \in Numbers /\ rx' \in Numbers
         /\ step' \in Steps
         /\ queue' \in Seq(Writes)
         /\ LoopOK'
         /\ wire' \in OnWires
         /\ sent' \subseteq Rows
         /\ handed' \in Seq(Nat)
<1>1. Counted(m) \in Numbers /\ RxAfterSequenceReset(m) \in Numbers
  <2>1. rx \in Numbers /\ m.seq \in Nat /\ m.new \in Nat
    BY DEF TypeOK, Received
  <2>2. Counted(m) \in Numbers
    BY <2>1 DEF Counted
  <2> QED BY <2>1, <2>2 DEF RxAfterSequenceReset
<1>2. HandedWith(m) \in Seq(Nat)
  BY DEF HandedWith, TypeOK, Received
<1>3. ASSUME NEW type \in Types, Send(Reader, type, Admin)
      PROVE  /\ tx' \in Numbers
             /\ queue' \in Seq(Writes)
             /\ wire' \in OnWires
             /\ sent' \subseteq Rows
  BY <1>3, SendFromType DEF Send, TypeOK, Tasks
<1>4. CASE m.type \in {"App", "Heartbeat", "SequenceReset"}
  BY <1>4, <1>1, <1>2 DEF Dispatch, TypeOK, LoopOK, Steps
<1>5. CASE m.type \in {"TestRequest", "Logout"}
  BY <1>5, <1>1, <1>3 DEF Dispatch, TypeOK, LoopOK, Steps, Types
<1>6. CASE m.type = "ResendRequest"
  <2> DEFINE end == ClippedEnd(m.end, tx - 1)
  <2>1. rx' = Counted(m) /\ UNCHANGED handed
    BY <1>6 DEF Dispatch
  <2>2. CASE InRange(m.begin, m.end, tx - 1)
    <3>1. /\ loop' = [at |-> m.begin, end |-> end, lastSent |-> tx - 1,
                      bySeq |-> SentMessages(rows, m.begin, end, epoch)]
          /\ step' = "answer" /\ UNCHANGED << tx, queue, wire, sent >>
      BY <1>6, <2>2 DEF Dispatch
    <3>2. m.begin \in Nat /\ end \in Nat /\ tx - 1 \in Nat
      BY DEF ClippedEnd, TypeOK, Received
    <3>3. ASSUME NEW n \in DOMAIN SentMessages(rows, m.begin, end, epoch)
          PROVE  n \in Nat /\ SentMessages(rows, m.begin, end, epoch)[n] \in Nat
      <4>1. PICK i \in DOMAIN rows : rows[i].seq = n
                  /\ SentMessages(rows, m.begin, end, epoch)[n] = rows[i].body
        BY SentMessagesOK
      <4>2. rows \in Seq(Rows)
        BY DEF TypeOK
      <4>3. rows[i] \in Rows
        BY <4>2
      <4>4. rows[i].seq \in Nat /\ rows[i].body \in Nat
        BY <4>3 DEF Rows
      <4> QED BY <4>1, <4>4
    <3>4. LoopOK'
      BY <3>1, <3>2, <3>3 DEF LoopOK
    <3> QED BY <1>1, <2>1, <3>1, <3>4 DEF TypeOK, Steps
  <2>3. CASE ~InRange(m.begin, m.end, tx - 1)
    <3>1. Send(Reader, "Reject", Admin) /\ step' = "persist" /\ UNCHANGED loop
      BY <1>6, <2>3 DEF Dispatch
    <3> QED BY <1>1, <1>3, <2>1, <3>1 DEF TypeOK, LoopOK, Steps, Types
  <2> QED BY <2>2, <2>3
<1> QED BY <1>4, <1>5, <1>6 DEF Dispatch

\* So does a change of the status.
LEMMA SetStatusType ==
  ASSUME TypeOK, NEW task \in Tasks, NEW to \in Statuses, SetStatus(task, to)
  PROVE  status' \in Statuses /\ queue' \in Seq(Writes)
<1>1. db.tx \in Numbers /\ db.rx \in Numbers /\ db.epoch \in Nat
  BY DEF TypeOK
<1>2. StatusWrite(task, to) \in Writes
  BY <1>1 DEF StatusWrite, Writes, StateWrites
<1>3. queue \in Seq(Writes) /\ status' = to /\ queue' = Append(queue, StatusWrite(task, to))
  BY DEF SetStatus, TypeOK
<1> HIDE DEF StatusWrite
<1>4. \A w \in Writes : Append(queue, w) \in Seq(Writes)
  BY <1>3
<1> QED BY <1>2, <1>3, <1>4

LEMMA TasksOK == Reader \in Tasks /\ Stopper \in Tasks
BY DEF Tasks

\* What stop() leaves of the queue: q is it, but for sends that are only
\* recorded.
LeftOf(q) ==
    /\ q \in Seq(Writes) /\ DOMAIN q = DOMAIN queue
    /\ \A i \in DOMAIN queue :
          q[i] = queue[i] \/ (queue[i].op = "send" /\ q[i] = [queue[i] EXCEPT !.op = "copy"])

\* A send that is cancelled is still a write of the queue.
LEMMA CopyInstead ==
  ASSUME TypeOK, NEW i \in DOMAIN queue, queue[i].op = "send"
  PROVE  [queue[i] EXCEPT !.op = "copy"] \in Writes
<1>1. queue[i] \in Writes
  BY DEF TypeOK
<1>2. queue[i] \in RowWrites
  BY <1>1 DEF Writes, StateWrites
<1> QED BY <1>2 DEF RowWrites, Writes

\* Cancelling the heartbeat loop, and cancelling all that stop() cancels.
LEMMA BeatsLeft ==
  ASSUME TypeOK
  PROVE  LeftOf(Cancelled(Beats))
<1>1. queue \in Seq(Writes) /\ DOMAIN queue = 1 .. Len(queue) /\ Len(queue) \in Nat
      /\ \A i \in DOMAIN queue : queue[i] \in Writes
  BY DEF TypeOK
<1>2. \A i \in DOMAIN queue : queue[i].op = "send" => [queue[i] EXCEPT !.op = "copy"] \in Writes
  BY CopyInstead
<1>3. Cancelled(Beats) =
        [i \in DOMAIN queue |->
            IF queue[i].op = "send" /\ queue[i].task \in Senders /\ queue[i].body = Admin
            THEN [queue[i] EXCEPT !.op = "copy"] ELSE queue[i]]
  BY DEF Cancelled, Beats, InSend
<1> QED BY <1>1, <1>2, <1>3 DEF LeftOf

LEMMA StopLeaves ==
  ASSUME TypeOK, StopCancels
  PROVE  LeftOf(queue')
<1>1. queue \in Seq(Writes) /\ DOMAIN queue = 1 .. Len(queue) /\ Len(queue) \in Nat
      /\ \A i \in DOMAIN queue : queue[i] \in Writes
  BY DEF TypeOK
<1>2. \A i \in DOMAIN queue : queue[i].op = "send" => [queue[i] EXCEPT !.op = "copy"] \in Writes
  BY CopyInstead
<1>3. queue' = [i \in DOMAIN queue |->
                  IF queue[i].op = "send"
                     /\ ((queue[i].task \in Senders /\ queue[i].body = Admin)
                         \/ (queue[i].task = Reader /\ ~Stays))
                  THEN [queue[i] EXCEPT !.op = "copy"] ELSE queue[i]]
  BY DEF StopCancels, Cancelled, Beats, InSend
<1> QED BY <1>1, <1>2, <1>3 DEF LeftOf

\* Every step keeps the types.
LEMMA TypeStep ==
  ASSUME TypeOK, SeqAssumption, [Next]_vars
  PROVE  TypeOK'
<1> USE DEF mem, history
<1>1. CASE Commit
  <2>1. queue \in Seq(Writes) /\ queue # << >> /\ Head(queue) \in Writes
    BY <1>1 DEF Commit, TypeOK
  <2>2. Tail(queue) \in Seq(Writes)
    BY <2>1
  <2>3. CASE Head(queue).op \in {"send", "copy"}
    <3>1. Head(queue) \in RowWrites
      BY <2>1, <2>3 DEF Writes, StateWrites
    <3>2. [seq |-> Head(queue).seq, body |-> Head(queue).body] \in Rows
          /\ StateWrite(Head(queue).task) \in Writes
      BY <3>1 DEF RowWrites, Rows, Writes, StateWrites, StateWrite, TypeOK
    <3>3. /\ rows' = Append(rows, [seq |-> Head(queue).seq, body |-> Head(queue).body])
          /\ \/ queue' = Tail(queue)
             \/ queue' = Append(Tail(queue), StateWrite(Head(queue).task))
          /\ UNCHANGED db
      BY <1>1, <2>3 DEF Commit
    <3>4. rows \in Seq(Rows)
      BY DEF TypeOK
    <3>5. rows' \in Seq(Rows)
      BY <3>2, <3>3, <3>4
    <3>6. queue' \in Seq(Writes)
      <4>1. CASE queue' = Tail(queue)
        BY <2>2, <4>1
      <4>2. CASE queue' = Append(Tail(queue), StateWrite(Head(queue).task))
        <5>1. \A w \in Writes : Append(Tail(queue), w) \in Seq(Writes)
          BY <2>2
        <5> QED BY <3>2, <4>2, <5>1
      <4> QED BY <3>3, <4>1, <4>2
    <3> QED BY <1>1, <3>3, <3>5, <3>6 DEF Commit, TypeOK, LoopOK
  <2>4. CASE Head(queue).op = "state"
    <3>1. Head(queue) \in StateWrites
      BY <2>1, <2>4 DEF Writes, RowWrites
    <3>2. /\ db' = [tx |-> Head(queue).tx, rx |-> Head(queue).rx, epoch |-> Head(queue).epoch,
                    status |-> Head(queue).status]
          /\ queue' = Tail(queue) /\ UNCHANGED rows
      BY <1>1, <2>4 DEF Commit
    <3>3. db' \in [tx : Numbers, rx : Numbers, epoch : Nat, status : Statuses]
      BY <3>1, <3>2 DEF StateWrites
    <3> QED BY <1>1, <2>2, <3>2, <3>3 DEF Commit, TypeOK, LoopOK
  <2> QED BY <1>1, <2>3, <2>4 DEF Commit
<1>2. CASE StartAcceptor
  <2>1. SetStatus(Reader, "LISTENING") /\ "LISTENING" \in Statuses
    BY <1>2 DEF StartAcceptor, Statuses
  <2>2. status' \in Statuses /\ queue' \in Seq(Writes)
    BY <2>1, TasksOK, SetStatusType
  <2>3. tx' \in Numbers /\ rx' \in Numbers /\ epoch' \in Nat
    BY <1>2 DEF StartAcceptor, LoadState, TypeOK
  <2>4. torn' \in BOOLEAN /\ cut' \in BOOLEAN
    BY <1>2, Zenon DEF StartAcceptor, LoadState
  <2> QED BY <1>2, <2>2, <2>3, <2>4 DEF StartAcceptor, TypeOK, LoopOK
<1>3. CASE StartInitiator \/ Connect
  <2>1. SetStatus(Reader, "LOGON_SENT") /\ "LOGON_SENT" \in Statuses
    BY <1>3 DEF StartInitiator, Connect, Statuses
  <2>2. status' \in Statuses /\ queue' \in Seq(Writes)
    BY <2>1, TasksOK, SetStatusType
  <2>3. tx' \in Numbers /\ rx' \in Numbers /\ epoch' \in Nat
    BY <1>3 DEF StartInitiator, Connect, LoadState, TypeOK
  <2>4. step' \in Steps /\ LoopOK'
    BY <1>3 DEF StartInitiator, Connect, TypeOK, LoopOK, Steps
  <2>5. CASE StartInitiator
    <3>1. torn' \in BOOLEAN /\ cut' \in BOOLEAN
      BY <2>5, Zenon DEF StartInitiator, LoadState
    <3> QED BY <2>2, <2>3, <2>4, <2>5, <3>1 DEF StartInitiator, TypeOK
  <2>6. CASE Connect
    BY <2>2, <2>3, <2>4, <2>6 DEF Connect, TypeOK
  <2> QED BY <1>3, <2>5, <2>6
<1>17. CASE InitiatorLogon
  <2>1. rx' \in Numbers /\ epoch' \in Nat /\ peer' \in Numbers
    BY <1>17 DEF InitiatorLogon, TypeOK
  <2>2. tx' \in Numbers /\ wire' \in OnWires /\ sent' \subseteq Rows /\ queue' \in Seq(Writes)
    <3>1. \/ SendFrom(Reader, "Logon", Admin, 1, {})
          \/ SendFrom(Reader, "Logon", Admin, tx, sent)
      BY <1>17 DEF InitiatorLogon, Send
    <3>2. tx \in Numbers /\ 1 \in Numbers /\ sent \subseteq Rows /\ {} \subseteq Rows
          /\ Reader \in Tasks /\ "Logon" \in Types /\ Admin \in Nat
      BY DEF TypeOK, Tasks, Types
    <3> QED BY <3>1, <3>2, SendFromType
  <2>3. handed' \in Seq(Nat) /\ torn' \in BOOLEAN /\ ahead' \in BOOLEAN
    BY <1>17 DEF InitiatorLogon, TypeOK
  <2> QED BY <1>17, <2>1, <2>2, <2>3 DEF InitiatorLogon, TypeOK, LoopOK, Steps
<1>4. CASE \E n \in Fresh : LogonAnswered(n) \/ AcceptLogon(n, FALSE)
  <2>1. PICK n \in Fresh : LogonAnswered(n) \/ AcceptLogon(n, FALSE)
    BY <1>4
  <2>2. n \in Numbers
    BY DEF Fresh, TypeOK, SeqAssumption
  <2>3. RxAfterLogon(n, FALSE) \in Numbers
    BY <2>2 DEF RxAfterLogon, TypeOK
  <2>4. CASE LogonAnswered(n)
    <3>1. rx' \in Numbers /\ peer' \in Numbers
      <4>1. rx' \in Numbers
        BY <2>3, <2>4, Zenon DEF LogonAnswered
      <4>2. peer' = n + 1
        BY <2>4, Zenon DEF LogonAnswered
      <4> QED BY <2>2, <4>1, <4>2
    <3>2. torn' \in BOOLEAN /\ ahead' \in BOOLEAN /\ LoopOK'
      BY <2>4 DEF LogonAnswered, TypeOK, LoopOK
    <3>3. SetStatus(Reader, "ACTIVE") /\ "ACTIVE" \in Statuses /\ step' \in Steps
      BY <2>4, Zenon DEF LogonAnswered, Statuses, Steps
    <3>4. status' \in Statuses /\ queue' \in Seq(Writes)
      BY <3>3, TasksOK, SetStatusType
    <3> QED BY <2>4, <3>1, <3>2, <3>3, <3>4 DEF LogonAnswered, TypeOK
  <2>5. CASE AcceptLogon(n, FALSE)
    <3>1. tx' \in Numbers /\ wire' \in OnWires /\ sent' \subseteq Rows /\ queue' \in Seq(Writes)
      <4>1. tx \in Numbers /\ sent \subseteq Rows /\ Reader \in Tasks
            /\ "Logon" \in Types /\ Admin \in Nat
        BY DEF TypeOK, Tasks, Types
      <4>2. SendFrom(Reader, "Logon", Admin, tx, sent)
        BY <2>5 DEF AcceptLogon, Send
      <4> QED BY <4>1, <4>2, SendFromType
    <3>2. rx' \in Numbers /\ peer' \in Numbers /\ epoch' = epoch /\ handed' = handed
      <4>1. rx' \in Numbers
        BY <2>3, <2>5, Zenon DEF AcceptLogon
      <4>2. peer' = n + 1 /\ epoch' = epoch /\ handed' = handed
        BY <2>5, Zenon DEF AcceptLogon
      <4> QED BY <2>2, <4>1, <4>2
    <3>3. torn' \in BOOLEAN /\ ahead' \in BOOLEAN
      BY <2>5, Zenon DEF AcceptLogon
    <3>4. LoopOK'
      BY <2>5 DEF AcceptLogon, TypeOK, LoopOK
    <3>5. status' \in Statuses /\ step' \in Steps
      BY <2>5, Zenon DEF AcceptLogon, TypeOK, Steps
    <3> QED BY <2>5, <3>1, <3>2, <3>3, <3>4, <3>5 DEF AcceptLogon, TypeOK
  <2> QED BY <2>1, <2>4, <2>5
<1>5. CASE AcceptLogon(1, TRUE)
  <2>1. RxAfterLogon(1, TRUE) \in Numbers
    BY DEF RxAfterLogon
  <2>2. tx' \in Numbers /\ wire' \in OnWires /\ sent' \subseteq Rows /\ queue' \in Seq(Writes)
    <3>1. 1 \in Numbers /\ {} \subseteq Rows /\ Reader \in Tasks
          /\ "Logon" \in Types /\ Admin \in Nat
      BY DEF Tasks, Types
    <3>2. SendFrom(Reader, "Logon", Admin, 1, {})
      BY <1>5 DEF AcceptLogon
    <3> QED BY <3>1, <3>2, SendFromType
  <2>3. rx' \in Numbers /\ peer' \in Numbers /\ handed' = << >>
    <3>1. rx' \in Numbers
      BY <1>5, <2>1, Zenon DEF AcceptLogon
    <3>2. peer' = 1 + 1 /\ handed' = << >>
      BY <1>5, Zenon DEF AcceptLogon
    <3> QED BY <3>1, <3>2
  <2>4. rows \in Seq(Rows)
    BY DEF TypeOK
  <2>5. epoch' \in Nat
    BY <1>5, <2>4 DEF AcceptLogon
  <2>6. torn' \in BOOLEAN /\ ahead' \in BOOLEAN
    BY <1>5, Zenon DEF AcceptLogon
  <2>7. LoopOK'
    BY <1>5 DEF AcceptLogon, TypeOK, LoopOK
  <2>8. status' \in Statuses /\ step' \in Steps
    BY <1>5, Zenon DEF AcceptLogon, TypeOK, Steps
  <2>9. UNCHANGED << db, rows, msg, loop, apps, upsets, stop, cut >>
    BY <1>5, Zenon DEF AcceptLogon
  <2> QED BY <2>2, <2>3, <2>5, <2>6, <2>7, <2>8, <2>9 DEF TypeOK
<1>6. CASE BecomeActive
  <2>1. SetStatus(Reader, "ACTIVE") /\ "ACTIVE" \in Statuses
    BY <1>6 DEF BecomeActive, Statuses
  <2>2. status' \in Statuses /\ queue' \in Seq(Writes)
    BY <2>1, TasksOK, SetStatusType
  <2> QED BY <1>6, <2>2 DEF BecomeActive, TypeOK, LoopOK, Steps
<1>7. CASE \E m \in Inbound : Receive(m)
  <2>1. PICK m \in Inbound : Receive(m)
    BY <1>7
  <2>2. m \in Received
    BY InboundOK
  <2>3. peer' \in Numbers
    <3>1. m.seq \in Nat /\ m.new \in Nat
      BY <2>2 DEF Received
    <3> QED BY <2>1, <3>1 DEF Receive, TypeOK
  <2>4. ASSUME NEW type \in Types, Send(Reader, type, Admin)
        PROVE  /\ tx' \in Numbers /\ wire' \in OnWires
               /\ sent' \subseteq Rows /\ queue' \in Seq(Writes)
    BY <2>4, SendFromType DEF Send, TypeOK, Tasks
  <2>5. CASE TooLow(m)
    <3>1. /\ Send(Reader, "Logout", Admin) /\ step' = "end"
          /\ UNCHANGED << rx, msg, loop, handed >>
      BY <2>1, <2>2, <2>5 DEF Receive, Received, TooLow, Gap, TypeOK
    <3>2. LoopOK' /\ step' \in Steps /\ "Logout" \in Types
      BY <3>1 DEF TypeOK, LoopOK, Steps, Types
    <3> QED BY <2>1, <2>3, <2>4, <3>1, <3>2 DEF Receive, TypeOK
  <2>6. CASE Gap(m)
    BY <2>1, <2>2, <2>3, <2>4, <2>6 DEF Receive, TooLow, Gap, TypeOK, LoopOK, Steps, Types
  <2>7. CASE ~TooLow(m) /\ ~Gap(m)
    <3>1. Dispatch(m) /\ UNCHANGED << msg, status, stop, epoch, db, rows, apps, upsets, cut, torn, ahead >>
      BY <2>1, <2>7 DEF Receive
    <3> QED BY <2>2, <2>3, <3>1, DispatchType DEF TypeOK
  <2> QED BY <2>5, <2>6, <2>7
<1>8. CASE AfterGap
  <2>1. Dispatch(msg) /\ msg \in Received
    BY <1>8 DEF AfterGap, TypeOK
  <2> QED BY <1>8, <2>1, DispatchType DEF AfterGap, TypeOK, NoMsg, Received, InTypes
<1>9. CASE AnswerNext
  <2> DEFINE m   == MessageFor(loop.bySeq, loop.at, loop.end, loop.lastSent)
             new == IF m.type = "GapFill" /\ m.new = AtWrite THEN tx ELSE m.new
             at  == NumberAfter(loop.bySeq, loop.at, loop.end)
  <2>1. loop.at \in Nat /\ loop.end \in Nat /\ loop.lastSent \in Nat /\ loop.at <= loop.end
    BY <1>9 DEF AnswerNext, TypeOK, LoopOK
  <2>2. m.seq \in Nat /\ m.body \in Nat /\ m.new \in Nat /\ m.type \in Types /\ at \in Nat
    <3>1. CASE InGap(loop.bySeq, loop.at)
      <4>1. RunEnd(loop.bySeq, loop.at, loop.end) \in Nat
        BY <2>1, <3>1, RunEndInRange
      <4> QED BY <2>1, <3>1, <4>1
              DEF MessageFor, NumberAfter, GapFill, NewSeqNo, AtWrite, Types
    <3>2. CASE ~InGap(loop.bySeq, loop.at)
      <4>1. loop.bySeq[loop.at] \in Nat
        BY <3>2 DEF InGap, TypeOK, LoopOK
      <4> QED BY <2>1, <3>2, <4>1 DEF MessageFor, NumberAfter, Resent, Types
    <3> QED BY <3>1, <3>2
  <2>3. new \in Nat
    BY <2>2 DEF TypeOK
  <2>4. CopyRow(Reader, m.seq, m.body) \in Writes
    BY <2>2 DEF CopyRow, Writes, RowWrites, Tasks
  <2>5. /\ wire' = OnWire(m.type, m.seq, "Y", m.body, new)
        /\ queue' = Append(queue, CopyRow(Reader, m.seq, m.body))
        /\ loop' = [loop EXCEPT !.at = at]
        /\ UNCHANGED << status, stop, step, mem, db, rows, msg, history, handed, peer, cut, torn, ahead >>
    BY <1>9 DEF AnswerNext
  <2>6. wire' \in OnWires
    BY <2>2, <2>3, <2>5 DEF OnWire, OnWires
  <2>7. queue' \in Seq(Writes)
    BY <2>4, <2>5 DEF TypeOK
  <2>8. LoopOK'
    <3>1. loop' = [at |-> at, end |-> loop.end, lastSent |-> loop.lastSent, bySeq |-> loop.bySeq]
      BY <2>5 DEF TypeOK, LoopOK
    <3> QED BY <2>1, <2>2, <3>1 DEF TypeOK, LoopOK
  <2> QED BY <2>5, <2>6, <2>7, <2>8 DEF TypeOK
<1>10. CASE Persist
  <2>1. StateWrite(Reader) \in Writes
    BY DEF StateWrite, Writes, StateWrites, Tasks, TypeOK
  <2>2. queue' \in Seq(Writes)
    BY <1>10, <2>1 DEF Persist, TypeOK
  <2> QED BY <1>10, <2>2 DEF Persist, TypeOK, LoopOK, NoLoop, Steps
<1>11. CASE Disconnect
  <2>1. NoWire \in OnWires /\ NoMsg \in Received
    BY DEF NoWire, OnWire, OnWires, Types, NoMsg, Received, InTypes
  <2>2. (\E to \in Statuses : SetStatus(Reader, to)) \/ UNCHANGED << status, queue >>
    BY <1>11 DEF Disconnect, Statuses
  <2>3. status' \in Statuses /\ queue' \in Seq(Writes)
    BY <2>2, TasksOK, SetStatusType DEF TypeOK
  <2> QED BY <1>11, <2>1, <2>3 DEF Disconnect, LetGo, TypeOK, LoopOK, NoLoop, Steps
<1>12. CASE StopTests
  <2>1. Send(Stopper, "TestRequest", Admin)
    BY <1>12 DEF StopTests
  <2>2. tx' \in Numbers /\ wire' \in OnWires /\ sent' \subseteq Rows /\ queue' \in Seq(Writes)
    BY <2>1, TasksOK, SendFromType DEF Send, TypeOK, Types
  <2> QED BY <1>12, <2>2 DEF StopTests, TypeOK, LoopOK, Stops
<1>18. CASE StopLogsOut
  <2>1. SendAfter(Cancelled(Beats), Stopper, "Logout", Admin, tx, sent)
    BY <1>18 DEF StopLogsOut
  <2>2. Cancelled(Beats) \in Seq(Writes)
    BY BeatsLeft DEF LeftOf
  <2>3. SendRow(Stopper, tx, Admin) \in Writes
    BY TasksOK DEF SendRow, Writes, RowWrites, TypeOK
  <2>4. queue' = Append(Cancelled(Beats), SendRow(Stopper, tx, Admin))
    BY <2>1 DEF SendAfter
  <2>5. queue' \in Seq(Writes)
    <3> HIDE DEF Cancelled, SendRow
    <3> QED BY <2>2, <2>3, <2>4
  <2>6. tx' \in Numbers /\ wire' \in OnWires /\ sent' \subseteq Rows
    BY <2>1 DEF SendAfter, OnWire, OnWires, Rows, Types, TypeOK
  <2> QED BY <1>18, <2>5, <2>6 DEF StopLogsOut, TypeOK, LoopOK, Stops
<1>19. CASE LogoutSent
  <2>1. SetStatus(Stopper, "LOGOUT_SENT") /\ "LOGOUT_SENT" \in Statuses
    BY <1>19 DEF LogoutSent, Statuses
  <2>2. status' \in Statuses /\ queue' \in Seq(Writes)
    BY <2>1, TasksOK, SetStatusType
  <2> QED BY <1>19, <2>2 DEF LogoutSent, TypeOK, LoopOK, Stops
<1>20. CASE StopCancels
  <2>1. NoWire \in OnWires /\ NoMsg \in Received
    BY DEF NoWire, OnWire, OnWires, Types, NoMsg, Received, InTypes
  <2>2. queue' \in Seq(Writes)
    BY <1>20, StopLeaves DEF LeftOf
  <2>3. cut' \in BOOLEAN
    BY <1>20, Zenon DEF StopCancels
  <2>4. /\ UNCHANGED << status, tx, rx, epoch, db, rows, sent, apps, upsets, handed, peer, torn, ahead >>
        /\ step' \in {step, "off"} /\ stop' = "closing"
        /\ msg' = NoMsg /\ loop' = NoLoop /\ wire' = NoWire
    BY <1>20 DEF StopCancels, LetGo
  <2>5. LoopOK'
    BY <2>4 DEF LoopOK, NoLoop
  <2>6. step' \in Steps /\ stop' \in Stops
    BY <2>4 DEF TypeOK, Steps, Stops
  <2>7. msg' \in Received /\ wire' \in OnWires
    BY <2>1, <2>4
  <2> QED BY <2>2, <2>3, <2>4, <2>5, <2>6, <2>7 DEF TypeOK
<1>21. CASE ReportDown
  <2>1. SetStatus(Stopper, "DOWN") /\ "DOWN" \in Statuses
    BY <1>21 DEF ReportDown, Statuses
  <2>2. status' \in Statuses /\ queue' \in Seq(Writes)
    BY <2>1, TasksOK, SetStatusType
  <2>3. cut' \in BOOLEAN
    BY <1>21, Zenon DEF ReportDown
  <2> QED BY <1>21, <2>2, <2>3 DEF ReportDown, TypeOK, LoopOK, Stops
<1>13. CASE \E s \in Senders : SendApp(s) \/ SendHeartbeat(s)
  <2>1. PICK s \in Senders : SendApp(s) \/ SendHeartbeat(s)
    BY <1>13
  <2>2. \E type \in Types, body \in Nat : Send(s, type, body)
    BY <2>1 DEF SendApp, SendHeartbeat, TypeOK, Types
  <2>3. tx' \in Numbers /\ wire' \in OnWires /\ sent' \subseteq Rows /\ queue' \in Seq(Writes)
    BY <2>2, SendFromType DEF Send, TypeOK, Tasks
  <2>4. /\ apps' \in Nat
        /\ UNCHANGED << status, stop, step, rx, epoch, db, rows, msg, loop, handed, peer, cut,
                        torn, ahead, upsets >>
    BY <2>1 DEF SendApp, SendHeartbeat, TypeOK
  <2>5. LoopOK'
    BY <2>4 DEF TypeOK, LoopOK
  <2> QED BY <2>3, <2>4, <2>5 DEF TypeOK
<1>14. CASE \E t \in 1 .. MaxTx, r \in 1 .. MaxPeer : ResetSequence(t, r)
  <2>1. PICK t \in 1 .. MaxTx, r \in 1 .. MaxPeer : ResetSequence(t, r)
    BY <1>14
  <2>2. t \in Numbers /\ r \in Numbers /\ Len(rows) \in Nat
    BY DEF SeqAssumption, TypeOK
  <2>3. ahead' \in BOOLEAN /\ torn' \in BOOLEAN /\ cut' \in BOOLEAN
    <3>1. ahead' = (r > peer) /\ torn' = FALSE /\ cut' = FALSE
      BY <2>1, Zenon DEF ResetSequence
    <3>2. CASE r > peer
      BY <3>1, <3>2, Zenon
    <3>3. CASE ~(r > peer)
      <4>1. (r > peer) = FALSE
        BY <3>3
      <4> QED BY <3>1, <4>1, Zenon
    <3> QED BY <3>2, <3>3, Zenon
  <2>4. db' \in [tx : Numbers, rx : Numbers, epoch : Nat, status : Statuses] /\ tx' \in Numbers
        /\ rx' \in Numbers /\ epoch' \in Nat
    BY <2>1, <2>2 DEF ResetSequence, TypeOK
  <2>5. sent' \subseteq Rows /\ upsets' \in Nat
    BY <2>1 DEF ResetSequence, TypeOK
  <2>6. LoopOK'
    BY <2>1 DEF ResetSequence, TypeOK, LoopOK
  <2> QED BY <2>1, <2>3, <2>4, <2>5, <2>6 DEF ResetSequence, TypeOK
<1>15. CASE Crash
  <2>1. NoWire \in OnWires /\ NoMsg \in Received
    BY DEF NoWire, OnWire, OnWires, Types, NoMsg, Received, InTypes
  <2>2. torn' \in BOOLEAN /\ cut' \in BOOLEAN
    BY <1>15, Zenon DEF Crash
  <2>3. tx' \in Numbers /\ rx' \in Numbers /\ epoch' \in Nat /\ upsets' \in Nat
    BY <1>15 DEF Crash, TypeOK
  <2>4. LoopOK' /\ status' \in Statuses /\ step' \in Steps /\ stop' \in Stops
    BY <1>15 DEF Crash, LetGo, LoopOK, NoLoop, Statuses, Steps, Stops
  <2> QED BY <1>15, <2>1, <2>2, <2>3, <2>4 DEF Crash, LetGo, TypeOK
<1>16. CASE UNCHANGED vars
  BY <1>16 DEF vars, TypeOK, LoopOK
<1> QED BY <1>1, <1>2, <1>3, <1>4, <1>5, <1>6, <1>7, <1>8, <1>9, <1>10, <1>11, <1>12, <1>13,
           <1>14, <1>15, <1>16, <1>17, <1>18, <1>19, <1>20, <1>21 DEF Next

LEMMA InitTypeOK == Init => TypeOK
<1> SUFFICES ASSUME Init PROVE TypeOK
  OBVIOUS
<1>1. LoopOK /\ status \in Statuses /\ step \in Steps /\ stop \in Stops
  BY DEF Init, LoopOK, NoLoop, Statuses, Steps, Stops
<1>2. msg \in Received /\ wire \in OnWires
  BY DEF Init, NoWire, OnWire, OnWires, Types, NoMsg, Received, InTypes
<1>3. cut \in BOOLEAN /\ torn \in BOOLEAN /\ ahead \in BOOLEAN
  BY Zenon DEF Init
<1> QED BY <1>1, <1>2, <1>3 DEF Init, TypeOK, Statuses

\* Every state of every instance is well typed.
THEOREM TypeCorrect == Spec => []TypeOK
<1>1. TypeOK /\ [Next]_vars => TypeOK'
  BY TypeStep, SeqAssumption
<1> QED BY <1>1, InitTypeOK, PTL DEF Spec

-----------------------------------------------------------------------------
(* The safety properties.  They are not inductive.  What makes them so:     *)
(*   EraSaved  what the database holds, and every write of the state,       *)
(*             belongs to the current sequence space; while the session     *)
(*             logs on, unless a write of the reader is still to follow it; *)
(*             and after a stop() that cancelled a send, not until the next *)
(*             start has read what is there;                                *)
(*   RowsOK    every TX row newer than the epoch, committed, queued or read *)
(*             for a resend, is a message sent since the reset;             *)
(*   MsgOK     the message the reader dispatches after a gap is above all   *)
(*             that was handed over.                                        *)

HIDE DEF Admin
USE DEF mem, history

\* Where the reader is, and what it holds there.
PhaseOK ==
    /\ status \in {"DOWN", "LISTENING"} => step = "off" /\ wire.dup = "N"
    /\ step \in {"connecting", "logon", "accepted"} =>
          status = "LOGON_SENT" /\ stop \in {"no", "closing"}
    /\ stop = "closing" => step \in {"off", "accepted"} /\ wire.dup = "N"
    /\ step # "answer" => loop = NoLoop

IsRow(w) == w.op \in {"send", "copy"}

\* Before a Logon every queued row is older than the reader's status write.
RowsBeforeLogon ==
    step = "connecting" =>
        \A i \in DOMAIN queue : IsRow(queue[i]) =>
            \E j \in i + 1 .. Len(queue) : queue[j].task = Reader

\* w is of the current sequence space.
SameEra(w) ==
    /\ w.epoch = epoch
    /\ ~torn /\ ~ahead => w.rx <= peer

ReaderRow(j)   == queue[j].task = Reader /\ queue[j].op = "send"
ReaderSaving   == \E j \in DOMAIN queue : queue[j].task = Reader /\ queue[j].op # "copy"
NoReaderRow(i) == \A j \in i + 1 .. Len(queue) : ~ReaderRow(j)

\* The session is logged on, or was until stop() came.
LoggedOn ==
    \/ step \in {"reading", "dispatch", "answer", "persist", "leave", "end"}
    \/ stop \in {"test", "logout", "wait"}

EraSaved ==
    ~cut =>
        /\ LoggedOn \/ ~ReaderSaving => SameEra(db)
        /\ \A i \in DOMAIN queue :
              queue[i].op = "state" /\ (LoggedOn \/ NoReaderRow(i)) => SameEra(queue[i])

\* Without the exception of a logon.
AllOfEra ==
    /\ SameEra(db)
    /\ \A i \in DOMAIN queue : queue[i].op = "state" => SameEra(queue[i])

\* The message kept over a gap, and all that was handed over before it.
MsgOK ==
    /\ step = "dispatch" =>
         /\ msg.dup = "N" /\ msg.seq < peer /\ msg.new <= peer
         /\ \A i \in DOMAIN handed : handed[i] < msg.seq
    /\ \A i \in DOMAIN handed : handed[i] < peer

\* A body recorded under a number was sent under it.
SentAs(n, body) == body # Admin => [seq |-> n, body |-> body] \in sent

RowsOK ==
    ~torn =>
        /\ \A i \in DOMAIN rows : i > epoch => SentAs(rows[i].seq, rows[i].body)
        /\ \A i \in DOMAIN queue : IsRow(queue[i]) => SentAs(queue[i].seq, queue[i].body)
        /\ \A n \in DOMAIN loop.bySeq : SentAs(n, loop.bySeq[n])

\* The inductive invariants.
SessionOK ==
    /\ TypeOK /\ PhaseOK /\ RowsBeforeLogon
    /\ EraSaved /\ MsgOK /\ RxNotAhead /\ HandedInOrder

ReplayOK == SessionOK /\ RowsOK /\ ResendFaithful

-----------------------------------------------------------------------------
(* The queue.                                                               *)

\* What a write added at the end of the queue, or taken from its front, leaves
\* where it was.
LEMMA QueueAppend ==
  ASSUME NEW q \in Seq(Writes), NEW w, queue' = Append(q, w)
  PROVE  /\ Len(q) \in Nat /\ Len(queue') = Len(q) + 1
         /\ DOMAIN q = 1 .. Len(q) /\ DOMAIN queue' = 1 .. Len(q) + 1
         /\ queue'[Len(q) + 1] = w
         /\ \A i \in 1 .. Len(q) : queue'[i] = q[i]
OBVIOUS

LEMMA QueueTail ==
  ASSUME TypeOK, queue # << >>
  PROVE  /\ queue \in Seq(Writes) /\ Tail(queue) \in Seq(Writes)
         /\ Len(queue) \in Nat \ {0} /\ Len(Tail(queue)) = Len(queue) - 1
         /\ DOMAIN queue = 1 .. Len(queue) /\ DOMAIN Tail(queue) = 1 .. Len(queue) - 1
         /\ \A i \in 1 .. Len(queue) - 1 : Tail(queue)[i] = queue[i + 1]
         /\ Head(queue) = queue[1]
BY DEF TypeOK

\* The effect of Commit on the queue: all but the oldest write moves up, and
\* after it comes at most the state of the task whose row was committed.
LEMMA CommitQueue ==
  ASSUME TypeOK, Commit
  PROVE  /\ \A i \in 1 .. Len(queue) - 1 : i \in DOMAIN queue' /\ queue'[i] = queue[i + 1]
         /\ \/ Len(queue') = Len(queue) - 1 /\ queue[1].op \in {"copy", "state"}
            \/ /\ Len(queue') = Len(queue) /\ queue[1].op = "send"
               /\ queue'[Len(queue)] = StateWrite(queue[1].task)
         /\ DOMAIN queue' = 1 .. Len(queue')
         /\ Len(queue) \in Nat \ {0} /\ DOMAIN queue = 1 .. Len(queue)
<1>1. queue # << >>
  BY DEF Commit
<1>2. CASE queue' = Tail(queue) /\ Head(queue).op \in {"copy", "state"}
  BY <1>1, <1>2, QueueTail
<1>3. CASE /\ queue' = Append(Tail(queue), StateWrite(Head(queue).task))
           /\ Head(queue).op = "send"
  <2> DEFINE w == StateWrite(Head(queue).task)
  <2>1. w = StateWrite(queue[1].task)
    BY <1>1, QueueTail
  <2> HIDE DEF w
  <2>2. queue' = Append(Tail(queue), w)
    BY <1>3 DEF w
  <2>3. /\ Len(queue') = Len(Tail(queue)) + 1 /\ queue'[Len(Tail(queue)) + 1] = w
        /\ DOMAIN queue' = 1 .. Len(Tail(queue)) + 1
        /\ \A i \in 1 .. Len(Tail(queue)) : queue'[i] = Tail(queue)[i]
    <3>1. Tail(queue) \in Seq(Writes)
      BY <1>1, QueueTail
    <3> QED BY <2>2, <3>1, QueueAppend
  <2>4. /\ Len(queue) \in Nat \ {0} /\ Len(Tail(queue)) = Len(queue) - 1
        /\ DOMAIN queue = 1 .. Len(queue)
        /\ \A i \in 1 .. Len(queue) - 1 : Tail(queue)[i] = queue[i + 1]
        /\ queue[1].op = "send"
    BY <1>1, <1>3, QueueTail
  <2>5. /\ Len(queue') = Len(queue) /\ queue'[Len(queue)] = w
        /\ \A i \in 1 .. Len(queue) - 1 : i \in DOMAIN queue' /\ queue'[i] = queue[i + 1]
    BY <2>3, <2>4
  <2> QED BY <2>1, <2>3, <2>4, <2>5
<1> QED BY <1>1, <1>2, <1>3 DEF Commit

\* A write of the queue after a Commit is an older one or the state of memory.
LEMMA CommitState ==
  ASSUME TypeOK, Commit, NEW i \in DOMAIN queue'
  PROVE  \/ i \in 1 .. Len(queue) - 1 /\ queue'[i] = queue[i + 1]
         \/ /\ i = Len(queue) /\ queue[1].op = "send"
            /\ queue'[i] = StateWrite(queue[1].task) /\ queue'[i].op = "state"
<1>1. \A t : StateWrite(t).op = "state"
  BY DEF StateWrite
<1>2. /\ \A k \in 1 .. Len(queue) - 1 : queue'[k] = queue[k + 1]
      /\ DOMAIN queue' = 1 .. Len(queue') /\ Len(queue) \in Nat \ {0}
  BY CommitQueue
<1>3. CASE Len(queue') = Len(queue) - 1
  BY <1>2, <1>3
<1>4. CASE /\ Len(queue') = Len(queue) /\ queue[1].op = "send"
           /\ queue'[Len(queue)] = StateWrite(queue[1].task)
  <2> DEFINE w == StateWrite(queue[1].task)
  <2>1. w.op = "state" /\ queue'[Len(queue)] = w
    BY <1>1, <1>4
  <2> HIDE DEF w
  <2>2. CASE i = Len(queue)
    BY <1>4, <2>1, <2>2
  <2>3. CASE i # Len(queue)
    BY <1>2, <1>4, <2>3
  <2> QED BY <2>2, <2>3 DEF w
<1> QED BY <1>3, <1>4, CommitQueue

-----------------------------------------------------------------------------
(* The phases of the reader.                                                *)

LEMMA PhaseStep ==
  ASSUME TypeOK, PhaseOK, SeqAssumption, [Next]_vars
  PROVE  PhaseOK'
<1>1. ASSUME NEW m, Dispatch(m)
      PROVE  /\ step' \in {"persist", "leave", "answer"}
             /\ step' # "answer" => UNCHANGED loop
  BY <1>1 DEF Dispatch
<1>2. CASE Commit
  BY <1>2 DEF Commit, PhaseOK
<1>3. CASE StartAcceptor \/ StartInitiator \/ Connect
  BY <1>3 DEF StartAcceptor, StartInitiator, Connect, LoadState, SetStatus, PhaseOK
<1>4. CASE InitiatorLogon
  BY <1>4 DEF InitiatorLogon, PhaseOK
<1>5. CASE \E n \in Fresh : LogonAnswered(n) \/ AcceptLogon(n, FALSE)
  BY <1>5, Zenon DEF LogonAnswered, AcceptLogon, SetStatus, PhaseOK
<1>6. CASE AcceptLogon(1, TRUE)
  BY <1>6, Zenon DEF AcceptLogon, PhaseOK
<1>7. CASE BecomeActive
  BY <1>7 DEF BecomeActive, SetStatus, PhaseOK
<1>8. CASE \E m \in Inbound : Receive(m)
  <2>1. PICK m \in Inbound : Receive(m)
    BY <1>8
  <2>2. step = "reading" /\ UNCHANGED << status, stop >>
        /\ (Dispatch(m) \/ (step' \in {"end", "dispatch"} /\ UNCHANGED loop))
    BY <2>1 DEF Receive
  <2> QED BY <2>2, <1>1 DEF PhaseOK
<1>9. CASE AfterGap
  <2>1. Dispatch(msg) /\ step = "dispatch" /\ UNCHANGED << status, stop >>
    BY <1>9 DEF AfterGap
  <2> QED BY <2>1, <1>1 DEF PhaseOK
<1>10. CASE AnswerNext
  BY <1>10 DEF AnswerNext, PhaseOK
<1>11. CASE Persist
  BY <1>11 DEF Persist, PhaseOK
<1>12. CASE Disconnect
  BY <1>12 DEF Disconnect, LetGo, SetStatus, PhaseOK, NoWire, OnWire
<1>13. CASE StopTests \/ StopLogsOut
  BY <1>13 DEF StopTests, StopLogsOut, Connected, PhaseOK
<1>18. CASE LogoutSent \/ ReportDown
  BY <1>18 DEF LogoutSent, ReportDown, SetStatus, PhaseOK
<1>19. CASE StopCancels
  <2>1. /\ step' \in {step, "off"} /\ (step' # "off" => Stays) /\ stop' = "closing"
        /\ loop' = NoLoop /\ wire' = NoWire /\ UNCHANGED status
    BY <1>19 DEF StopCancels, LetGo
  <2>2. NoWire.dup = "N"
    BY DEF NoWire, OnWire
  <2> QED BY <2>1, <2>2 DEF PhaseOK, Stays
<1>14. CASE \E s \in Senders : SendApp(s) \/ SendHeartbeat(s)
  BY <1>14 DEF SendApp, SendHeartbeat, PhaseOK
<1>15. CASE \E t \in 1 .. MaxTx, r \in 1 .. MaxPeer : ResetSequence(t, r)
  <2>1. UNCHANGED << status, stop, step, wire, loop >>
    BY <1>15 DEF ResetSequence
  <2> QED BY <2>1 DEF PhaseOK
<1>16. CASE Crash
  BY <1>16 DEF Crash, LetGo, PhaseOK, NoWire, OnWire
<1>17. CASE UNCHANGED vars
  BY <1>17 DEF vars, PhaseOK
<1> QED BY <1>2, <1>3, <1>4, <1>5, <1>6, <1>7, <1>8, <1>9, <1>10, <1>11, <1>12, <1>13,
           <1>14, <1>15, <1>16, <1>17, <1>18, <1>19 DEF Next

LEMMA RowsBeforeLogonStep ==
  ASSUME TypeOK, PhaseOK, RowsBeforeLogon, SeqAssumption, [Next]_vars
  PROVE  RowsBeforeLogon'
<1> SUFFICES ASSUME step' = "connecting" PROVE RowsBeforeLogon'
  BY DEF RowsBeforeLogon
<1>1. CASE StartInitiator \/ Connect
  <2> DEFINE w == StatusWrite(Reader, "LOGON_SENT")
  <2>1. w.task = Reader /\ w.op = "state"
    BY DEF StatusWrite
  <2>2. queue' = Append(queue, w)
    BY <1>1 DEF StartInitiator, Connect, SetStatus
  <2> HIDE DEF w
  <2>3. queue \in Seq(Writes)
    BY DEF TypeOK
  <2> QED BY <2>1, <2>2, <2>3, QueueAppend DEF RowsBeforeLogon, IsRow
<1>2. CASE Commit
  <2>1. step = "connecting"
    BY <1>2 DEF Commit
  <2>2. ASSUME NEW i \in DOMAIN queue', IsRow(queue'[i])
        PROVE  \E j \in i + 1 .. Len(queue') : queue'[j].task = Reader
    <3>1. queue'[i].op # "state"
      BY <2>2 DEF IsRow
    <3>2. i \in 1 .. Len(queue) - 1 /\ queue'[i] = queue[i + 1]
      BY <1>2, <3>1, CommitState
    <3>3. PICK j \in i + 2 .. Len(queue) : queue[j].task = Reader
      <4>1. i + 1 \in DOMAIN queue /\ IsRow(queue[i + 1])
        <5>1. DOMAIN queue = 1 .. Len(queue) /\ Len(queue) \in Nat
          BY <1>2, CommitQueue
        <5> QED BY <2>2, <3>2, <5>1 DEF IsRow
      <4>2. \E j \in (i + 1) + 1 .. Len(queue) : queue[j].task = Reader
        BY <2>1, <4>1 DEF RowsBeforeLogon
      <4>3. i \in Nat /\ (i + 1) + 1 = i + 2
        BY <3>2
      <4> QED BY <4>2, <4>3
    <3>4. j - 1 \in i + 1 .. Len(queue') /\ queue'[j - 1] = queue[j]
      <4>1. \A k \in 1 .. Len(queue) - 1 : k \in DOMAIN queue' /\ queue'[k] = queue[k + 1]
        BY <1>2, CommitQueue
      <4>2. DOMAIN queue' = 1 .. Len(queue') /\ Len(queue) \in Nat
        BY <1>2, CommitQueue
      <4>3. j - 1 \in 1 .. Len(queue) - 1 /\ (j - 1) + 1 = j
        BY <3>2, <4>2
      <4> QED BY <4>1, <4>2, <4>3
    <3> QED BY <3>3, <3>4
  <2> QED BY <2>2 DEF RowsBeforeLogon
<1>3. CASE UNCHANGED << step, queue >>
  BY <1>3 DEF RowsBeforeLogon
<1>4. ASSUME NEW m, Dispatch(m) PROVE step' # "connecting"
  BY <1>4 DEF Dispatch
<1>5. CASE \E n \in Fresh : LogonAnswered(n) \/ AcceptLogon(n, FALSE)
  BY <1>5, Zenon DEF LogonAnswered, AcceptLogon
<1>6. CASE AcceptLogon(1, TRUE)
  BY <1>6, Zenon DEF AcceptLogon
<1>7. CASE \E t \in 1 .. MaxTx, r \in 1 .. MaxPeer : ResetSequence(t, r)
  BY <1>3, <1>7 DEF ResetSequence
<1>8. CASE \E s \in Senders : SendApp(s) \/ SendHeartbeat(s)
  BY <1>8 DEF SendApp, SendHeartbeat, PhaseOK
<1>9. CASE \E m \in Inbound : Receive(m)
  BY <1>4, <1>9 DEF Receive
<1>10. CASE AfterGap
  BY <1>4, <1>10 DEF AfterGap
<1>11. CASE StartAcceptor
  BY <1>11 DEF StartAcceptor, LoadState, PhaseOK
<1>12. CASE StopTests \/ StopLogsOut
  BY <1>12 DEF StopTests, StopLogsOut, Connected, PhaseOK
<1>13. CASE LogoutSent \/ ReportDown
  BY <1>13 DEF LogoutSent, ReportDown, PhaseOK
<1>14. CASE StopCancels
  BY <1>14 DEF StopCancels, Stays
<1> QED BY <1>1, <1>2, <1>3, <1>5, <1>6, <1>7, <1>8, <1>9, <1>10, <1>11, <1>12, <1>13, <1>14
        DEF Next, vars, InitiatorLogon, BecomeActive, AnswerNext, Persist, Disconnect, Crash

-----------------------------------------------------------------------------
(* The sequence space of the saved numbers.                                 *)

\* A step that goes on in the sequence space.
EraKept ==
    /\ epoch' = epoch
    /\ peer' \in Nat /\ peer <= peer'
    /\ ~torn' => ~torn
    /\ ~ahead' => ~ahead

\* w is of the sequence space the step goes on in.
OfNextEra(w) ==
    /\ w.epoch = epoch'
    /\ ~torn' /\ ~ahead' => w.rx <= peer'

LEMMA EraKeeps ==
  ASSUME TypeOK, EraKept, NEW w, w.rx \in Nat, SameEra(w)
  PROVE  OfNextEra(w)
<1>1. peer \in Nat
  BY DEF TypeOK
<1>2. CASE torn' \/ ahead'
  BY <1>2 DEF EraKept, SameEra, OfNextEra
<1>3. CASE ~torn' /\ ~ahead'
  <2>1. ~torn /\ ~ahead
    BY <1>3, Zenon DEF EraKept
  <2> QED BY <1>1, <2>1 DEF EraKept, SameEra, OfNextEra
<1> QED BY <1>2, <1>3

\* The state in memory is of the sequence space.
LEMMA MemorySameEra ==
  ASSUME TypeOK, RxNotAhead, NEW task
  PROVE  SameEra(StateWrite(task)) /\ StateWrite(task).op = "state"
BY DEF RxNotAhead, SameEra, StateWrite

LEMMA AllOfEraIsSaved ==
  ASSUME AllOfEra
  PROVE  EraSaved
BY DEF AllOfEra, EraSaved

\* A reader that is not blocked has no write to follow.
LEMMA AllOfEraUnblocked ==
  ASSUME TypeOK, EraSaved, ~cut, ~Blocked(Reader) \/ LoggedOn
  PROVE  AllOfEra
<1>1. CASE LoggedOn
  BY <1>1 DEF EraSaved, AllOfEra
<1>2. CASE ~Blocked(Reader)
  <2>1. DOMAIN queue = 1 .. Len(queue) /\ Len(queue) \in Nat
    BY DEF TypeOK
  <2>2. \A j \in DOMAIN queue : queue[j].task # Reader
    BY <1>2 DEF Blocked
  <2>3. ~ReaderSaving
    BY <2>2 DEF ReaderSaving
  <2>4. ASSUME NEW i \in DOMAIN queue PROVE NoReaderRow(i)
    BY <2>1, <2>2 DEF NoReaderRow, ReaderRow
  <2> QED BY <2>3, <2>4 DEF EraSaved, AllOfEra
<1> QED BY <1>1, <1>2

\* A write added to the queue keeps the saved numbers in the sequence space,
\* if it is a row or holds numbers that are in it.
LEMMA AllOfEraAppend ==
  ASSUME TypeOK, AllOfEra, EraKept, UNCHANGED db, NEW w,
         NEW q, LeftOf(q), queue' = Append(q, w), w.op # "state" \/ OfNextEra(w)
  PROVE  AllOfEra'
<1>1. q \in Seq(Writes) /\ queue \in Seq(Writes) /\ db.rx \in Nat
  BY DEF TypeOK, LeftOf
<1>2. /\ Len(q) \in Nat /\ DOMAIN q = 1 .. Len(q) /\ DOMAIN queue' = 1 .. Len(q) + 1
      /\ queue'[Len(q) + 1] = w
      /\ \A i \in 1 .. Len(q) : queue'[i] = q[i]
  BY <1>1, QueueAppend
<1>3. SameEra(db)'
  <2>1. OfNextEra(db)
    BY <1>1, EraKeeps DEF AllOfEra
  <2> QED BY <2>1 DEF OfNextEra, SameEra
<1>4. ASSUME NEW i \in DOMAIN queue', queue'[i].op = "state"
      PROVE  SameEra(queue[i])'
  <2>1. CASE i = Len(q) + 1
    <3>1. queue'[i] = w /\ OfNextEra(w)
      BY <1>2, <1>4, <2>1
    <3> QED BY <3>1 DEF OfNextEra, SameEra
  <2>2. CASE i # Len(q) + 1
    <3>1. i \in DOMAIN queue /\ queue'[i] = q[i]
      BY <1>2, <2>2 DEF LeftOf
    <3>2. queue[i] \in Writes
      BY <1>1, <3>1
    <3>3. queue'[i] = queue[i]
      <4>1. CASE queue[i].op = "send" /\ q[i] = [queue[i] EXCEPT !.op = "copy"]
        <5>1. queue[i] \in RowWrites
          BY <3>2, <4>1 DEF Writes, StateWrites
        <5>2. q[i].op = "copy"
          BY <4>1, <5>1 DEF RowWrites
        <5> QED BY <1>4, <3>1, <5>2
      <4> QED BY <3>1, <4>1 DEF LeftOf
    <3>4. queue[i].rx \in Nat
      BY <1>4, <3>2, <3>3 DEF Writes, RowWrites, StateWrites
    <3>5. OfNextEra(queue[i])
      BY <1>4, <3>1, <3>3, <3>4, EraKeeps DEF AllOfEra
    <3> QED BY <3>3, <3>5 DEF OfNextEra, SameEra
  <2> QED BY <2>1, <2>2
<1> QED BY <1>3, <1>4 DEF AllOfEra

\* Of the queue itself all is left.
LEMMA AllLeft ==
  ASSUME TypeOK
  PROVE  LeftOf(queue)
BY DEF TypeOK, LeftOf

\* A step that does not log on, and forgets no cut.
LogonKept == (LoggedOn' => LoggedOn) /\ (~cut' => ~cut)

LEMMA EraAppend ==
  ASSUME TypeOK, EraSaved, EraKept, LogonKept, UNCHANGED db, NEW w, queue' = Append(queue, w),
         w.op # "state" \/ OfNextEra(w)
  PROVE  EraSaved'
<1> SUFFICES ASSUME ~cut' PROVE EraSaved'
  BY DEF EraSaved
<1>0. ~cut
  BY DEF LogonKept
<1>1. queue \in Seq(Writes) /\ db.rx \in Nat
  BY DEF TypeOK
<1>2. /\ Len(queue) \in Nat /\ Len(queue') = Len(queue) + 1
      /\ DOMAIN queue = 1 .. Len(queue) /\ DOMAIN queue' = 1 .. Len(queue) + 1
      /\ queue'[Len(queue) + 1] = w
      /\ \A i \in 1 .. Len(queue) : queue'[i] = queue[i]
  BY <1>1, QueueAppend
<1>3. CASE LoggedOn
  <2>1. AllOfEra
    BY <1>0, <1>3, AllOfEraUnblocked
  <2>2. AllOfEra'
    BY <2>1, AllLeft, AllOfEraAppend
  <2> QED BY <2>2 DEF EraSaved, AllOfEra
<1>4. CASE ~LoggedOn'
  <2>1. ASSUME ~ReaderSaving' PROVE SameEra(db)'
    <3>1. ~ReaderSaving
      BY <1>2, <2>1 DEF ReaderSaving
    <3>2. OfNextEra(db)
      BY <1>0, <1>1, <3>1, EraKeeps DEF EraSaved
    <3> QED BY <3>2 DEF OfNextEra, SameEra
  <2>2. ASSUME NEW i \in DOMAIN queue', queue'[i].op = "state", NoReaderRow(i)'
        PROVE  SameEra(queue[i])'
    <3>1. CASE i = Len(queue) + 1
      <4>1. queue'[i] = w /\ OfNextEra(w)
        BY <1>2, <2>2, <3>1
      <4> QED BY <4>1 DEF OfNextEra, SameEra
    <3>2. CASE i # Len(queue) + 1
      <4>1. i \in 1 .. Len(queue) /\ queue'[i] = queue[i]
        BY <1>2, <3>2
      <4>2. NoReaderRow(i)
        BY <1>2, <2>2, <4>1 DEF NoReaderRow, ReaderRow
      <4>3. queue[i].op = "state" /\ queue[i] \in Writes
        BY <1>1, <1>2, <2>2, <4>1
      <4>4. queue[i].rx \in Nat
        BY <4>3 DEF Writes, RowWrites, StateWrites
      <4>5. SameEra(queue[i])
        BY <1>0, <1>2, <4>1, <4>2, <4>3 DEF EraSaved
      <4>6. OfNextEra(queue[i])
        BY <4>4, <4>5, EraKeeps
      <4> QED BY <4>1, <4>6 DEF OfNextEra, SameEra
    <3> QED BY <3>1, <3>2
  <2> QED BY <1>4, <2>1, <2>2 DEF EraSaved
<1> QED BY <1>3, <1>4 DEF LogonKept

\* While a row of a _send of the reader that logs on is last in the queue,
\* nothing before it need be in the sequence space: its own state follows it.
LEMMA EraAfterReaderRow ==
  ASSUME TypeOK, NEW seq, NEW body, queue' = Append(queue, SendRow(Reader, seq, body)), ~LoggedOn'
  PROVE  EraSaved'
<1> DEFINE w == SendRow(Reader, seq, body)
<1>1. w.task = Reader /\ w.op = "send"
  BY DEF SendRow
<1> HIDE DEF w
<1>2. queue \in Seq(Writes) /\ queue' = Append(queue, w)
  BY DEF TypeOK, w
<1>3. /\ Len(queue) \in Nat /\ Len(queue') = Len(queue) + 1
      /\ DOMAIN queue' = 1 .. Len(queue) + 1
      /\ queue'[Len(queue) + 1] = w
  BY <1>2, QueueAppend
<1>4. ReaderSaving'
  BY <1>1, <1>3 DEF ReaderSaving
<1>5. ASSUME NEW i \in DOMAIN queue', NoReaderRow(i)' PROVE i = Len(queue) + 1
  <2>1. PICK last : last = Len(queue) + 1
    OBVIOUS
  <2>2. ReaderRow(last)'
    BY <1>1, <1>3, <2>1 DEF ReaderRow
  <2>3. last \notin i + 1 .. Len(queue')
    BY <1>5, <2>2 DEF NoReaderRow
  <2> QED BY <1>3, <2>1, <2>3
<1>6. ASSUME NEW i \in DOMAIN queue', NoReaderRow(i)' PROVE queue'[i].op # "state"
  BY <1>1, <1>3, <1>5, <1>6
<1> QED BY <1>4, <1>6 DEF EraSaved

\* A _send of any task.
LEMMA EraAfterSend ==
  ASSUME TypeOK, EraSaved, EraKept, LogonKept, UNCHANGED db, NEW task, NEW type, NEW body,
         Send(task, type, body)
  PROVE  EraSaved'
<1>1. queue' = Append(queue, SendRow(task, tx, body)) /\ SendRow(task, tx, body).op # "state"
  BY DEF Send, SendFrom, SendAfter, SendRow
<1> QED BY <1>1, EraAppend

\* A step that submits nothing.
LEMMA EraFrame ==
  ASSUME TypeOK, EraSaved, EraKept, LogonKept, UNCHANGED << db, queue >>
  PROVE  EraSaved'
<1> SUFFICES ASSUME ~cut' PROVE EraSaved'
  BY DEF EraSaved
<1>0. ~cut
  BY DEF LogonKept
<1>1. queue \in Seq(Writes) /\ db.rx \in Nat
  BY DEF TypeOK
<1>2. (ReaderSaving' <=> ReaderSaving) /\ \A i : NoReaderRow(i)' <=> NoReaderRow(i)
  BY DEF ReaderSaving, NoReaderRow, ReaderRow
<1>3. ASSUME LoggedOn' \/ ~ReaderSaving PROVE SameEra(db)'
  <2>1. SameEra(db)
    BY <1>0, <1>3 DEF EraSaved, LogonKept
  <2>2. OfNextEra(db)
    BY <1>1, <2>1, EraKeeps
  <2> QED BY <2>2 DEF OfNextEra, SameEra
<1>4. ASSUME NEW i \in DOMAIN queue, queue[i].op = "state", LoggedOn' \/ NoReaderRow(i)
      PROVE  SameEra(queue[i])'
  <2>1. queue[i] \in Writes
    BY <1>1, <1>4
  <2>2. queue[i].rx \in Nat
    BY <1>4, <2>1 DEF Writes, RowWrites, StateWrites
  <2>3. SameEra(queue[i])
    BY <1>0, <1>4 DEF EraSaved, LogonKept
  <2>4. OfNextEra(queue[i])
    BY <2>2, <2>3, EraKeeps
  <2> QED BY <2>4 DEF OfNextEra, SameEra
<1> QED BY <1>2, <1>3, <1>4 DEF EraSaved

\* A change of the status, while the session is logged on or by a reader that is
\* not blocked, saves numbers of the sequence space: none of the reader's own
\* writes is on the way.
LEMMA EraAfterStatus ==
  ASSUME TypeOK, EraSaved, EraKept, UNCHANGED db, ~cut' => ~cut, ~Blocked(Reader) \/ LoggedOn,
         NEW task, NEW to, SetStatus(task, to)
  PROVE  EraSaved'
<1> SUFFICES ASSUME ~cut' PROVE EraSaved'
  BY DEF EraSaved
<1>1. db.rx \in Nat
  BY DEF TypeOK
<1>2. AllOfEra
  BY AllOfEraUnblocked
<1>3. OfNextEra(db)
  BY <1>1, <1>2, EraKeeps DEF AllOfEra
<1> DEFINE w == StatusWrite(task, to)
<1>4. OfNextEra(w)
  BY <1>3 DEF StatusWrite, OfNextEra
<1>5. queue' = Append(queue, w)
  BY DEF SetStatus
<1> HIDE DEF w
<1>6. AllOfEra'
  BY <1>2, <1>4, <1>5, AllLeft, AllOfEraAppend
<1> QED BY <1>6 DEF AllOfEra, EraSaved

\* The writer takes the oldest write; what is last of the reader stays it.
LEMMA EraAfterCommit ==
  ASSUME TypeOK, EraSaved, RxNotAhead, Commit
  PROVE  EraSaved'
<1> SUFFICES ASSUME ~cut' PROVE EraSaved'
  BY DEF EraSaved
<1>0. ~cut /\ (LoggedOn' <=> LoggedOn)
  BY DEF Commit, LoggedOn
<1>1. /\ Len(queue) \in Nat \ {0} /\ DOMAIN queue = 1 .. Len(queue)
      /\ DOMAIN queue' = 1 .. Len(queue')
      /\ \A i \in 1 .. Len(queue) - 1 : i \in DOMAIN queue' /\ queue'[i] = queue[i + 1]
  BY CommitQueue
<1>2. UNCHANGED << rx, epoch, peer, torn, ahead >>
  BY DEF Commit
<1>3. \A w : SameEra(w) => OfNextEra(w)
  BY <1>2 DEF SameEra, OfNextEra
<1>4. ASSUME NEW i \in 0 .. Len(queue) - 1, NoReaderRow(i)' PROVE NoReaderRow(i + 1)
  <2> SUFFICES ASSUME NEW j \in (i + 1) + 1 .. Len(queue), ReaderRow(j) PROVE FALSE
    BY DEF NoReaderRow
  <2>1. j - 1 \in 1 .. Len(queue) - 1 /\ (j - 1) + 1 = j /\ j - 1 >= i + 1
    BY <1>1
  <2>2. j - 1 \in DOMAIN queue' /\ queue'[j - 1] = queue[j]
    BY <1>1, <2>1
  <2>3. j - 1 \in i + 1 .. Len(queue')
    BY <1>1, <2>1, <2>2
  <2>4. ReaderRow(j - 1)'
    BY <2>2 DEF ReaderRow
  <2> QED BY <1>4, <2>3, <2>4 DEF NoReaderRow
<1>5. ASSUME NEW i \in DOMAIN queue', queue'[i].op = "state", LoggedOn \/ NoReaderRow(i)'
      PROVE  SameEra(queue[i])'
  <2>1. CASE i \in 1 .. Len(queue) - 1 /\ queue'[i] = queue[i + 1]
    <3>1. i \in 0 .. Len(queue) - 1 /\ i + 1 \in DOMAIN queue
      BY <1>1, <2>1
    <3>2. SameEra(queue[i + 1])
      BY <1>0, <1>4, <1>5, <2>1, <3>1 DEF EraSaved
    <3>3. OfNextEra(queue[i + 1])
      BY <1>3, <3>2
    <3> QED BY <2>1, <3>3 DEF OfNextEra, SameEra
  <2>2. CASE queue'[i] = StateWrite(queue[1].task)
    <3> DEFINE w == StateWrite(queue[1].task)
    <3>1. OfNextEra(w)
      BY <1>3, MemorySameEra
    <3> HIDE DEF w
    <3>2. queue'[i] = w
      BY <2>2 DEF w
    <3> QED BY <3>1, <3>2 DEF OfNextEra, SameEra
  <2> QED BY <2>1, <2>2, CommitState
<1>7. ASSUME LoggedOn PROVE SameEra(db)'
  <2>1. AllOfEra
    BY <1>0, <1>7, AllOfEraUnblocked
  <2>2. Head(queue) = queue[1] /\ 1 \in DOMAIN queue
    <3>1. queue # << >>
      BY DEF Commit
    <3> QED BY <1>1, <3>1, QueueTail
  <2>3. CASE queue[1].op = "state"
    <3>1. db'.epoch = queue[1].epoch /\ db'.rx = queue[1].rx
      BY <2>2, <2>3 DEF Commit
    <3>2. OfNextEra(queue[1])
      BY <1>3, <2>1, <2>2, <2>3 DEF AllOfEra
    <3> QED BY <3>1, <3>2 DEF OfNextEra, SameEra
  <2>4. CASE queue[1].op # "state"
    <3>1. UNCHANGED db
      BY <2>2, <2>4 DEF Commit
    <3>2. OfNextEra(db)
      BY <1>3, <2>1 DEF AllOfEra
    <3> QED BY <3>1, <3>2 DEF OfNextEra, SameEra
  <2> QED BY <2>3, <2>4
<1>6. ASSUME ~ReaderSaving' PROVE SameEra(db)'
  <2>1. ASSUME NEW j \in 2 .. Len(queue), queue[j].task = Reader PROVE queue[j].op = "copy"
    <3>1. j - 1 \in 1 .. Len(queue) - 1 /\ (j - 1) + 1 = j
      BY <1>1
    <3>2. j - 1 \in DOMAIN queue' /\ queue'[j - 1] = queue[j]
      BY <1>1, <3>1
    <3> QED BY <1>6, <2>1, <3>2 DEF ReaderSaving
  <2>2. Head(queue) = queue[1]
    BY QueueTail DEF Commit
  <2>3. CASE queue[1].op = "state"
    <3>1. NoReaderRow(1)
      BY <2>1 DEF NoReaderRow, ReaderRow
    <3>2. SameEra(queue[1])
      BY <1>0, <1>1, <2>3, <3>1 DEF EraSaved
    <3>3. db'.epoch = queue[1].epoch /\ db'.rx = queue[1].rx
      BY <2>2, <2>3 DEF Commit
    <3>4. OfNextEra(queue[1])
      BY <1>3, <3>2
    <3> QED BY <3>3, <3>4 DEF OfNextEra, SameEra
  <2>4. CASE queue[1].op # "state"
    <3>1. UNCHANGED db
      BY <2>2, <2>4 DEF Commit
    <3>2. ~ReaderSaving
      <4>1. ~(queue[1].task = Reader /\ queue[1].op # "copy")
        <5> SUFFICES ASSUME queue[1].task = Reader, queue[1].op # "copy" PROVE FALSE
          OBVIOUS
        <5> DEFINE w == StateWrite(queue[1].task)
        <5>1. w.task = Reader /\ w.op = "state"
          BY DEF StateWrite
        <5> HIDE DEF w
        <5>2. Len(queue') = Len(queue) /\ queue'[Len(queue)] = w
          BY <2>4, CommitQueue DEF w
        <5>3. Len(queue) \in DOMAIN queue'
          BY <1>1, <5>2
        <5> QED BY <1>6, <5>1, <5>2, <5>3 DEF ReaderSaving
      <4>2. ASSUME NEW j \in DOMAIN queue, queue[j].task = Reader, queue[j].op # "copy"
            PROVE  FALSE
        <5>1. CASE j = 1
          BY <4>1, <4>2, <5>1
        <5>2. CASE j # 1
          BY <1>1, <2>1, <4>2, <5>2
        <5> QED BY <5>1, <5>2
      <4> QED BY <4>2 DEF ReaderSaving
    <3>3. SameEra(db)
      BY <1>0, <3>2 DEF EraSaved
    <3>4. OfNextEra(db)
      BY <1>3, <3>3
    <3> QED BY <3>1, <3>4 DEF OfNextEra, SameEra
  <2> QED BY <2>3, <2>4
<1> QED BY <1>0, <1>5, <1>6, <1>7 DEF EraSaved

-----------------------------------------------------------------------------
(* What was handed over, and what is expected next.                         *)

\* A step that hands nothing over and does not reach the dispatch.
LEMMA HandedFrame ==
  ASSUME TypeOK, MsgOK, HandedInOrder, handed' = handed, peer' \in Nat, peer' >= peer,
         step' # "dispatch" \/ UNCHANGED << step, msg, handed, peer >>
  PROVE  MsgOK' /\ HandedInOrder'
<1>1. peer \in Nat
  BY DEF TypeOK
<1>2. handed \in Seq(Nat)
  BY DEF TypeOK
<1>3. DOMAIN handed = 1 .. Len(handed) /\ \A i \in 1 .. Len(handed) : handed[i] \in Nat
  BY <1>2, ElementOfSeq
<1>4. HandedInOrder'
  BY DEF HandedInOrder
<1>5. \A i \in DOMAIN handed' : handed'[i] < peer'
  BY <1>1, <1>3 DEF MsgOK
<1> QED BY <1>4, <1>5 DEF MsgOK

LEMMA NothingHanded ==
  ASSUME handed' = << >>, step' # "dispatch"
  PROVE  MsgOK' /\ HandedInOrder'
<1>1. DOMAIN << >> = {}
  OBVIOUS
<1> QED BY <1>1 DEF MsgOK, HandedInOrder

\* A message dispatched, when it is below the counterparty's next number and,
\* unless flagged, above all that was handed over.
LEMMA DispatchNumbers ==
  ASSUME SessionOK, NEW m \in Received, Dispatch(m), LoggedOn,
         UNCHANGED << db, epoch, cut, torn, ahead >>,
         peer' \in Nat, peer' >= peer, m.seq < peer', m.new <= peer',
         m.dup = "N" => \A i \in DOMAIN handed : handed[i] < m.seq
  PROVE  /\ EraSaved' /\ RxNotAhead' /\ HandedInOrder'
         /\ \A i \in DOMAIN handed' : handed'[i] < peer'
<1> USE DEF SessionOK
<1>1. (\E type : Send(Reader, type, Admin)) \/ UNCHANGED queue
  BY DEF Dispatch
<1>2. EraSaved'
  <2>1. EraKept /\ LogonKept /\ UNCHANGED db
    BY DEF EraKept, LogonKept, TypeOK
  <2> QED BY <1>1, <2>1, EraAfterSend, EraFrame
<1>3. RxNotAhead'
  <2>1. rx \in Nat /\ peer \in Nat /\ m.seq \in Nat /\ m.new \in Nat
    BY DEF TypeOK, Received
  <2>2. rx' = Counted(m) \/ rx' = RxAfterSequenceReset(m)
    BY DEF Dispatch
  <2>3. rx <= peer => Counted(m) <= peer' /\ RxAfterSequenceReset(m) <= peer'
    BY <2>1 DEF Counted, RxAfterSequenceReset
  <2> QED BY <2>2, <2>3 DEF RxNotAhead
<1>4. handed' = handed \/ (m.dup = "N" /\ handed' = Append(handed, m.seq))
  BY DEF Dispatch, HandedWith, Received
<1>5. /\ handed \in Seq(Nat) /\ m.seq \in Nat /\ peer \in Nat
      /\ \A i \in DOMAIN handed : handed[i] \in Nat
      /\ \A i \in DOMAIN handed : handed[i] < peer
  <2>1. handed \in Seq(Nat) /\ m.seq \in Nat /\ peer \in Nat
    BY DEF TypeOK, Received
  <2>2. \A i \in DOMAIN handed : handed[i] < peer
    BY DEF MsgOK
  <2>3. \A i \in 1 .. Len(handed) : handed[i] \in Nat
    BY <2>1, ElementOfSeq
  <2>4. DOMAIN handed = 1 .. Len(handed)
    BY <2>1
  <2> QED BY <2>1, <2>2, <2>3, <2>4
<1>6. CASE handed' = handed
  BY <1>2, <1>3, <1>5, <1>6 DEF HandedInOrder
<1>7. CASE m.dup = "N" /\ handed' = Append(handed, m.seq)
  <2>1. /\ DOMAIN handed = 1 .. Len(handed) /\ Len(handed) \in Nat
        /\ DOMAIN handed' = 1 .. Len(handed) + 1 /\ handed'[Len(handed) + 1] = m.seq
        /\ \A i \in 1 .. Len(handed) : handed'[i] = handed[i] /\ handed[i] \in Nat
    BY <1>5, <1>7
  <2>2. \A i \in 1 .. Len(handed) : handed[i] < m.seq
    BY <1>7, <2>1
  <2>3. \A i \in DOMAIN handed' : handed'[i] < peer'
    BY <1>5, <2>1
  <2>4. ASSUME NEW i \in DOMAIN handed', NEW j \in DOMAIN handed', i < j
        PROVE  handed'[i] < handed'[j]
    <3>1. CASE j = Len(handed) + 1
      BY <2>1, <2>2, <2>4, <3>1
    <3>2. CASE j # Len(handed) + 1
      <4>1. i \in DOMAIN handed /\ j \in DOMAIN handed
        BY <2>1, <2>4, <3>2
      <4>2. handed[i] < handed[j]
        BY <2>4, <4>1 DEF HandedInOrder
      <4>3. handed'[i] = handed[i] /\ handed'[j] = handed[j]
        BY <2>1, <4>1
      <4> QED BY <4>2, <4>3
    <3> QED BY <3>1, <3>2
  <2> QED BY <1>2, <1>3, <2>3, <2>4 DEF HandedInOrder
<1> QED BY <1>2, <1>3, <1>4, <1>6, <1>7

LEMMA SessionStep ==
  ASSUME SessionOK, SeqAssumption, [Next]_vars
  PROVE  SessionOK'
<1> SUFFICES EraSaved' /\ MsgOK' /\ RxNotAhead' /\ HandedInOrder'
  BY TypeStep, PhaseStep, RowsBeforeLogonStep DEF SessionOK
<1> USE DEF SessionOK
<1>1. rx \in Nat /\ peer \in Nat /\ peer' \in Nat
  BY TypeStep DEF TypeOK
<1>2. \A n \in Fresh : n \in Nat /\ n >= peer
  BY <1>1 DEF Fresh, SeqAssumption
<1>3. CASE Commit
  <2>1. UNCHANGED << step, msg, rx, handed, peer, torn, ahead >>
    BY <1>3 DEF Commit
  <2>2. EraSaved'
    BY <1>3, EraAfterCommit
  <2>3. MsgOK' /\ HandedInOrder'
    BY <1>1, <2>1, HandedFrame
  <2> QED BY <2>1, <2>2, <2>3 DEF RxNotAhead
<1>4. CASE StartAcceptor \/ StartInitiator
  <2>1. /\ queue = << >> /\ rx' = db.rx /\ epoch' = db.epoch
        /\ UNCHANGED << db, msg, handed, peer, ahead >>
        /\ step' # "dispatch" \/ UNCHANGED step
        /\ \E to : SetStatus(Reader, to)
    BY <1>4 DEF StartAcceptor, StartInitiator, LoadState
  <2>2. DOMAIN queue = {} /\ ~torn' => ~torn /\ ~cut
    <3>1. ~torn' => ~torn /\ ~cut
      BY <1>4, Zenon DEF StartAcceptor, StartInitiator, LoadState
    <3> QED BY <2>1, <3>1
  <2>3. ~torn' /\ ~ahead' => db.rx <= peer
    BY <2>1, <2>2 DEF EraSaved, ReaderSaving, SameEra
  <2>5. EraSaved'
    <3>1. PICK to : SetStatus(Reader, to)
      BY <2>1
    <3> DEFINE w == StatusWrite(Reader, to)
    <3>2. queue' = Append(queue, w) /\ w.rx = db.rx /\ w.epoch = db.epoch
      BY <3>1 DEF SetStatus, StatusWrite
    <3> HIDE DEF w
    <3>3. ASSUME NEW i \in DOMAIN queue' PROVE queue'[i] = w
      <4>1. queue \in Seq(Writes)
        BY DEF TypeOK
      <4>2. \A j \in DOMAIN queue : FALSE
        BY <2>1
      <4> QED BY <2>1, <3>2, <4>1, <4>2, QueueAppend
    <3>4. OfNextEra(w) /\ OfNextEra(db)
      BY <2>1, <2>3, <3>2 DEF OfNextEra
    <3>5. AllOfEra'
      BY <2>1, <3>3, <3>4 DEF AllOfEra, OfNextEra, SameEra
    <3> QED BY <3>5 DEF AllOfEra, EraSaved
  <2>6. MsgOK' /\ HandedInOrder'
    BY <1>1, <2>1, HandedFrame
  <2> QED BY <2>1, <2>3, <2>5, <2>6 DEF RxNotAhead
<1>5. CASE Connect \/ BecomeActive \/ Disconnect \/ LogoutSent
  <2>1. /\ UNCHANGED << db, rx, epoch, handed, peer, cut, torn, ahead >>
        /\ (\E task, to : SetStatus(task, to)) \/ UNCHANGED queue
    BY <1>5 DEF Connect, BecomeActive, Disconnect, LogoutSent
  <2>2. step' # "dispatch" \/ UNCHANGED << step, msg >>
    BY <1>5 DEF Connect, BecomeActive, Disconnect, LogoutSent
  <2>3. EraKept
    BY <1>1, <2>1 DEF EraKept
  <2>4. EraSaved'
    <3>1. ~Blocked(Reader) \/ LoggedOn
      BY <1>5 DEF Connect, BecomeActive, Disconnect, LogoutSent, LoggedOn
    <3>2. CASE \E task, to : SetStatus(task, to)
      BY <2>1, <2>3, <3>1, <3>2, EraAfterStatus
    <3>3. CASE ~ \E task, to : SetStatus(task, to)
      <4>1. UNCHANGED << queue, stop >> /\ step' = "off"
        BY <1>5, <3>3 DEF Connect, BecomeActive, Disconnect, LogoutSent
      <4>2. LogonKept
        BY <2>1, <4>1 DEF LogonKept, LoggedOn
      <4> QED BY <2>1, <2>3, <4>1, <4>2, EraFrame
    <3> QED BY <3>2, <3>3
  <2>5. MsgOK' /\ HandedInOrder'
    BY <1>1, <2>1, <2>2, HandedFrame
  <2> QED BY <2>1, <2>4, <2>5 DEF RxNotAhead
<1>17. CASE StopTests
  <2>1. /\ UNCHANGED << step, msg, db, rx, epoch, handed, peer, cut, torn, ahead >>
        /\ Send(Stopper, "TestRequest", Admin) /\ LoggedOn
    BY <1>17 DEF StopTests, Connected, LoggedOn, PhaseOK, TypeOK, Steps
  <2>2. EraSaved'
    BY <1>1, <2>1, EraAfterSend DEF EraKept, LogonKept
  <2>3. MsgOK' /\ HandedInOrder'
    BY <1>1, <2>1, HandedFrame
  <2> QED BY <2>1, <2>2, <2>3 DEF RxNotAhead
<1>18. CASE StopLogsOut
  <2>1. /\ UNCHANGED << step, msg, db, rx, epoch, handed, peer, cut, torn, ahead >>
        /\ SendAfter(Cancelled(Beats), Stopper, "Logout", Admin, tx, sent) /\ LoggedOn
    BY <1>18 DEF StopLogsOut, Connected, LoggedOn, PhaseOK, TypeOK, Steps
  <2>2. EraSaved'
    <3> SUFFICES ASSUME ~cut PROVE EraSaved'
      BY <2>1 DEF EraSaved
    <3> DEFINE w == SendRow(Stopper, tx, Admin)
               q == Cancelled(Beats)
    <3>1. queue' = Append(q, w) /\ w.op # "state"
      BY <2>1 DEF SendAfter, SendRow
    <3>2. LeftOf(q) /\ EraKept /\ AllOfEra
      BY <1>1, <2>1, BeatsLeft, AllOfEraUnblocked DEF EraKept
    <3> HIDE DEF w, q
    <3>3. AllOfEra'
      BY <2>1, <3>1, <3>2, AllOfEraAppend
    <3> QED BY <3>3 DEF AllOfEra, EraSaved
  <2>3. MsgOK' /\ HandedInOrder'
    BY <1>1, <2>1, HandedFrame
  <2> QED BY <2>1, <2>2, <2>3 DEF RxNotAhead
<1>19. CASE StopCancels
  <2>1. /\ UNCHANGED << db, rx, epoch, handed, peer, torn, ahead >>
        /\ step' # "dispatch" /\ stop' = "closing" /\ step' \in {"off", "accepted"}
    BY <1>19 DEF StopCancels, Stays
  <2>2. ~cut' => ~cut /\ UNCHANGED queue
    BY <1>19, Zenon DEF StopCancels
  <2>3. ~LoggedOn'
    BY <2>1 DEF LoggedOn
  <2>4. EraSaved'
    <3>1. CASE cut'
      BY <3>1 DEF EraSaved
    <3>2. CASE ~cut'
      BY <1>1, <2>1, <2>2, <2>3, <3>2, EraFrame DEF EraKept, LogonKept
    <3> QED BY <3>1, <3>2
  <2>5. MsgOK' /\ HandedInOrder'
    BY <1>1, <2>1, HandedFrame
  <2> QED BY <2>1, <2>4, <2>5 DEF RxNotAhead
<1>20. CASE ReportDown
  <2>1. /\ UNCHANGED << step, msg, rx, epoch, db, handed, peer, torn, ahead >>
        /\ SetStatus(Stopper, "DOWN") /\ step = "off" /\ stop' = "no"
    BY <1>20 DEF ReportDown
  <2>2. ~cut' => ~cut /\ db.epoch = epoch /\ ~(db.rx > rx)
    BY <1>20, Zenon DEF ReportDown
  <2>3. EraSaved'
    <3>1. CASE cut'
      BY <3>1 DEF EraSaved
    <3>2. CASE ~cut'
      <4> DEFINE w == StatusWrite(Stopper, "DOWN")
      <4>1. queue' = Append(queue, w) /\ w.rx = db.rx /\ w.epoch = db.epoch
        BY <2>1 DEF SetStatus, StatusWrite
      <4> HIDE DEF w
      <4>2. db.rx \in Nat
        BY DEF TypeOK
      <4>3. OfNextEra(w)
        BY <1>1, <2>1, <2>2, <3>2, <4>1, <4>2 DEF OfNextEra, RxNotAhead
      <4>4. EraKept /\ LogonKept
        BY <1>1, <2>1, <2>2, <3>2 DEF EraKept, LogonKept, LoggedOn
      <4> QED BY <2>1, <4>1, <4>3, <4>4, EraAppend
    <3> QED BY <3>1, <3>2
  <2>4. MsgOK' /\ HandedInOrder'
    BY <1>1, <2>1, HandedFrame
  <2> QED BY <2>1, <2>3, <2>4 DEF RxNotAhead
<1>6. CASE InitiatorLogon
  <2>1. /\ step' = "logon" /\ handed' = IF peer' = peer THEN handed ELSE << >>
        /\ ~LoggedOn' /\ UNCHANGED cut
    BY <1>6 DEF InitiatorLogon, PhaseOK, LoggedOn
  <2>2. MsgOK' /\ HandedInOrder'
    <3>1. CASE handed' = << >>
      BY <2>1, <3>1, NothingHanded
    <3>2. CASE handed' # << >>
      BY <1>1, <2>1, <3>2, HandedFrame
    <3> QED BY <3>1, <3>2
  <2>3. CASE ResetOnLogon
    <3>1. rx' = 1 /\ SendFrom(Reader, "Logon", Admin, 1, {})
      BY <1>6, <2>3 DEF InitiatorLogon
    <3>2. queue' = Append(queue, SendRow(Reader, 1, Admin))
      BY <3>1 DEF SendFrom, SendAfter
    <3>3. EraSaved'
      BY <2>1, <3>2, EraAfterReaderRow
    <3>4. TypeOK'
      BY TypeStep
    <3>5. peer' >= 1
      BY <3>4 DEF TypeOK
    <3> QED BY <2>2, <3>1, <3>3, <3>5 DEF RxNotAhead
  <2>4. CASE ~ResetOnLogon
    <3>1. UNCHANGED << rx, epoch, peer, db >> /\ Send(Reader, "Logon", Admin)
      BY <1>6, <2>4 DEF InitiatorLogon
    <3>2. (~torn' => ~torn) /\ (~ahead' => ~ahead)
      BY <1>6, <2>4, Zenon DEF InitiatorLogon
    <3>3. EraKept /\ LogonKept
      BY <1>1, <2>1, <3>1, <3>2 DEF EraKept, LogonKept
    <3>4. EraSaved'
      BY <3>1, <3>3, EraAfterSend
    <3> QED BY <2>2, <3>1, <3>2, <3>4 DEF RxNotAhead
  <2> QED BY <2>3, <2>4
<1>7. CASE \E n \in Fresh : LogonAnswered(n) \/ AcceptLogon(n, FALSE)
  <2>1. PICK n \in Fresh : LogonAnswered(n) \/ AcceptLogon(n, FALSE)
    BY <1>7
  <2>2. rx' = RxAfterLogon(n, FALSE)
    BY <2>1, Zenon DEF LogonAnswered, AcceptLogon
  <2>3. /\ peer' = n + 1 /\ handed' = handed /\ step' # "dispatch"
        /\ epoch' = epoch /\ db' = db /\ cut' = cut
        /\ ~torn' => ~torn
        /\ ~ahead' => ~ahead
    <3>1. CASE LogonAnswered(n)
      BY <3>1, Zenon DEF LogonAnswered
    <3>2. CASE AcceptLogon(n, FALSE)
      BY <3>2, Zenon DEF AcceptLogon
    <3> QED BY <2>1, <3>1, <3>2
  <2>4. rx' = IF n >= rx THEN n + 1 ELSE rx
    BY <2>2, Zenon DEF RxAfterLogon
  <2>5. peer' >= peer
    <3>1. peer' = n + 1
      BY <2>3
    <3> QED BY <1>1, <1>2, <3>1
  <2>6. RxNotAhead'
    <3>1. rx <= peer => rx' <= peer'
      <4>1. peer' = n + 1
        BY <2>3
      <4> QED BY <1>1, <1>2, <2>4, <4>1
    <3> QED BY <2>3, <3>1 DEF RxNotAhead
  <2>7. MsgOK' /\ HandedInOrder'
    BY <1>1, <2>3, <2>5, HandedFrame
  <2>8. EraKept
    BY <1>1, <2>3, <2>5, Zenon DEF EraKept
  <2>9. EraSaved'
    <3>1. CASE LogonAnswered(n)
      <4>1. ~Blocked(Reader) /\ SetStatus(Reader, "ACTIVE")
        BY <3>1, Zenon DEF LogonAnswered
      <4> QED BY <2>3, <2>8, <4>1, EraAfterStatus
    <3>2. CASE AcceptLogon(n, FALSE)
      <4>1. Send(Reader, "Logon", Admin) /\ step' = "accepted" /\ step = "connecting" /\ stop' = stop
        BY <3>2, Zenon DEF AcceptLogon
      <4>2. LogonKept
        BY <2>3, <4>1 DEF LogonKept, LoggedOn
      <4> QED BY <2>3, <2>8, <4>1, <4>2, EraAfterSend
    <3> QED BY <2>1, <3>1, <3>2
  <2> QED BY <2>6, <2>7, <2>9
<1>8. CASE AcceptLogon(1, TRUE)
  <2>1. /\ SendFrom(Reader, "Logon", Admin, 1, {})
        /\ handed' = << >> /\ step' = "accepted" /\ step = "connecting" /\ stop' = stop
    BY <1>8, Zenon DEF AcceptLogon
  <2>2. rx' = RxAfterLogon(1, TRUE)
    BY <1>8, Zenon DEF AcceptLogon
  <2>3. rx' = IF 1 >= 1 THEN 1 + 1 ELSE 1
    BY <2>2, Zenon DEF RxAfterLogon
  <2>4. peer' = 1 + 1
    BY <1>8, Zenon DEF AcceptLogon
  <2>5. RxNotAhead'
    BY <2>3, <2>4 DEF RxNotAhead
  <2>6. MsgOK' /\ HandedInOrder'
    <3>1. handed' = << >> /\ step' # "dispatch"
      BY <2>1
    <3> QED BY <3>1, NothingHanded
  <2>7. EraSaved'
    <3>1. queue' = Append(queue, SendRow(Reader, 1, Admin))
      BY <2>1 DEF SendFrom, SendAfter
    <3>2. ~LoggedOn'
      BY <2>1 DEF LoggedOn, PhaseOK
    <3> QED BY <3>1, <3>2, EraAfterReaderRow
  <2> QED BY <2>5, <2>6, <2>7
<1>9. CASE \E m \in Inbound : Receive(m)
  <2>1. PICK m \in Inbound : Receive(m)
    BY <1>9
  <2>2. /\ m \in Received
        /\ m.dup = "Y" => m.seq < peer /\ m.new <= peer
        /\ m.dup = "N" => m.seq >= peer /\ (m.new = 0 \/ m.new > m.seq)
    BY InboundOK
  <2>3. m.dup \in {"N", "Y"} /\ m.seq \in Nat /\ m.new \in Nat
    BY <2>2 DEF Received
  <2>4. peer' = IF m.dup = "Y" THEN peer ELSE IF m.new > 0 THEN m.new ELSE m.seq + 1
    BY <2>1 DEF Receive
  <2>5. peer' >= peer /\ m.seq < peer' /\ m.new <= peer'
    BY <1>1, <2>2, <2>3, <2>4
  <2>6. /\ m.dup = "N" => \A i \in DOMAIN handed : handed[i] < m.seq
        /\ \A i \in DOMAIN handed : handed[i] < peer'
    <3>1. handed \in Seq(Nat)
      BY DEF TypeOK
    <3>2. \A i \in DOMAIN handed : handed[i] < peer /\ handed[i] \in Nat
      BY <3>1, ElementOfSeq DEF MsgOK
    <3> QED BY <1>1, <2>2, <2>3, <2>5, <3>2
  <2>7. UNCHANGED << db, epoch, cut, torn, ahead >> /\ LoggedOn
    BY <2>1 DEF Receive, LoggedOn
  <2>8. CASE Dispatch(m)
    <3>1. /\ EraSaved' /\ RxNotAhead' /\ HandedInOrder'
          /\ \A i \in DOMAIN handed' : handed'[i] < peer'
      BY <1>1, <2>2, <2>5, <2>6, <2>7, <2>8, DispatchNumbers
    <3>2. step' # "dispatch"
      BY <2>8 DEF Dispatch
    <3> QED BY <3>1, <3>2 DEF MsgOK
  <2>9. CASE ~Dispatch(m)
    <3>1. /\ \E type : Send(Reader, type, Admin)
          /\ UNCHANGED << rx, handed >>
          /\ step' = "dispatch" => msg' = m /\ m.dup = "N"
      BY <2>1, <2>9 DEF Receive, Gap
    <3>2. EraSaved'
      BY <1>1, <2>5, <2>7, <3>1, EraAfterSend DEF EraKept, LogonKept
    <3>3. RxNotAhead'
      BY <1>1, <2>5, <2>7, <3>1 DEF RxNotAhead
    <3>4. MsgOK'
      BY <2>5, <2>6, <3>1 DEF MsgOK
    <3> QED BY <3>1, <3>2, <3>3, <3>4 DEF HandedInOrder
  <2> QED BY <2>8, <2>9
<1>10. CASE AfterGap
  <2>1. /\ step = "dispatch" /\ Dispatch(msg) /\ LoggedOn
        /\ UNCHANGED << db, epoch, peer, cut, torn, ahead >>
    BY <1>10 DEF AfterGap, LoggedOn
  <2>2. /\ msg \in Received /\ msg.seq < peer' /\ msg.new <= peer' /\ peer' >= peer
        /\ \A i \in DOMAIN handed : handed[i] < msg.seq
    BY <1>1, <2>1 DEF MsgOK, TypeOK
  <2>3. /\ EraSaved' /\ RxNotAhead' /\ HandedInOrder'
        /\ \A i \in DOMAIN handed' : handed'[i] < peer'
    BY <1>1, <2>1, <2>2, DispatchNumbers
  <2>4. step' # "dispatch"
    BY <2>1 DEF Dispatch
  <2> QED BY <2>3, <2>4 DEF MsgOK
<1>11. CASE AnswerNext
  <2>1. /\ UNCHANGED << step, stop, msg, rx, epoch, db, handed, peer, cut, torn, ahead >>
        /\ \E seq, body : queue' = Append(queue, CopyRow(Reader, seq, body))
    BY <1>11 DEF AnswerNext
  <2>2. PICK seq, body : queue' = Append(queue, CopyRow(Reader, seq, body))
    BY <2>1
  <2>3. CopyRow(Reader, seq, body).op # "state" /\ EraKept /\ LogonKept
    BY <1>1, <2>1 DEF CopyRow, EraKept, LogonKept, LoggedOn
  <2>4. EraSaved' /\ MsgOK' /\ HandedInOrder'
    BY <1>1, <2>1, <2>2, <2>3, EraAppend, HandedFrame
  <2> QED BY <2>1, <2>4 DEF RxNotAhead
<1>12. CASE Persist
  <2>1. /\ step' # "dispatch"
        /\ UNCHANGED << msg, rx, epoch, db, handed, peer, cut, torn, ahead >>
        /\ queue' = Append(queue, StateWrite(Reader)) /\ LoggedOn
    BY <1>12 DEF Persist, LoggedOn
  <2>2. EraKept /\ LogonKept
    BY <1>1, <2>1 DEF EraKept, LogonKept
  <2>3. OfNextEra(StateWrite(Reader))
    <3>1. SameEra(StateWrite(Reader))
      BY MemorySameEra
    <3> QED BY <2>1, <3>1 DEF SameEra, OfNextEra
  <2>4. EraSaved'
    <3> HIDE DEF StateWrite
    <3> QED BY <2>1, <2>2, <2>3, EraAppend
  <2>5. MsgOK' /\ HandedInOrder'
    BY <1>1, <2>1, HandedFrame
  <2> QED BY <2>1, <2>4, <2>5 DEF RxNotAhead
<1>13. CASE \E s \in Senders : SendApp(s) \/ SendHeartbeat(s)
  <2>1. /\ UNCHANGED << step, stop, msg, db, rx, epoch, handed, peer, cut, torn, ahead >>
        /\ \E s, type, body : Send(s, type, body)
    BY <1>13 DEF SendApp, SendHeartbeat
  <2>2. EraSaved'
    BY <1>1, <2>1, EraAfterSend DEF EraKept, LogonKept, LoggedOn
  <2>3. MsgOK' /\ HandedInOrder'
    BY <1>1, <2>1, HandedFrame
  <2> QED BY <2>1, <2>2, <2>3 DEF RxNotAhead
<1>14. CASE \E t \in 1 .. MaxTx, r \in 1 .. MaxPeer : ResetSequence(t, r)
  <2>1. PICK t \in 1 .. MaxTx, r \in 1 .. MaxPeer : ResetSequence(t, r)
    BY <1>14
  <2>2. /\ queue' = << >> /\ rx' = r
        /\ UNCHANGED << step, msg, handed, peer >>
        /\ db'.rx = rx' /\ db'.epoch = epoch'
    BY <2>1, Zenon DEF ResetSequence
  <2>3. ~ahead' => rx' <= peer'
    <3>1. ~ahead' => ~(r > peer)
      BY <2>1, Zenon DEF ResetSequence
    <3>2. r \in Nat
      OBVIOUS
    <3> QED BY <1>1, <2>2, <3>1, <3>2
  <2>4. EraSaved'
    <3>1. SameEra(db)'
      BY <2>2, <2>3 DEF SameEra
    <3>2. DOMAIN queue' = {}
      BY <2>2
    <3> QED BY <3>1, <3>2 DEF EraSaved
  <2>5. MsgOK' /\ HandedInOrder'
    BY <1>1, <2>2, HandedFrame
  <2> QED BY <2>3, <2>4, <2>5 DEF RxNotAhead
<1>15. CASE Crash
  <2>1. /\ queue' = << >> /\ rx' = db.rx /\ epoch' = db.epoch
        /\ step' # "dispatch" /\ UNCHANGED << db, handed, peer, ahead >>
    BY <1>15 DEF Crash, LetGo
  <2>2. ~torn' => ~torn /\ ~(db.rx > rx)
    BY <1>15, Zenon DEF Crash
  <2>3. db.rx \in Nat
    BY DEF TypeOK
  <2>4. RxNotAhead'
    BY <1>1, <2>1, <2>2, <2>3 DEF RxNotAhead
  <2>5. EraSaved'
    <3>1. SameEra(db)'
      BY <2>1, <2>4 DEF SameEra, RxNotAhead
    <3>2. DOMAIN queue' = {}
      BY <2>1
    <3> QED BY <3>1, <3>2 DEF EraSaved
  <2>6. MsgOK' /\ HandedInOrder'
    BY <1>1, <2>1, HandedFrame
  <2> QED BY <2>4, <2>5, <2>6
<1>16. CASE UNCHANGED vars
  <2>1. UNCHANGED << step, stop, msg, rx, epoch, db, queue, handed, peer, cut, torn, ahead >>
    BY <1>16 DEF vars
  <2>2. EraSaved' /\ MsgOK' /\ HandedInOrder'
    BY <1>1, <2>1, EraFrame, HandedFrame DEF EraKept, LogonKept, LoggedOn
  <2> QED BY <2>1, <2>2 DEF RxNotAhead
<1> QED BY <1>3, <1>4, <1>5, <1>6, <1>7, <1>8, <1>9, <1>10, <1>11, <1>12, <1>13, <1>14, <1>15,
           <1>16, <1>17, <1>18, <1>19, <1>20 DEF Next

LEMMA SessionInvariant == Spec => []SessionOK
<1>1. ASSUME Init PROVE SessionOK
  <2>1. TypeOK
    BY <1>1, InitTypeOK
  <2>2. PhaseOK /\ RowsBeforeLogon
    BY <1>1 DEF Init, PhaseOK, RowsBeforeLogon, NoWire, OnWire
  <2>3. DOMAIN << >> = {}
    OBVIOUS
  <2>4. EraSaved /\ MsgOK /\ HandedInOrder /\ RxNotAhead
    BY <1>1, <2>3 DEF Init, EraSaved, SameEra, MsgOK, HandedInOrder, RxNotAhead
  <2> QED BY <2>1, <2>2, <2>4 DEF SessionOK
<1>2. SessionOK /\ [Next]_vars => SessionOK'
  BY SessionStep, SeqAssumption
<1> QED BY <1>1, <1>2, PTL DEF Spec

\* A counterparty that numbers its messages properly is never logged out for a
\* number too low (the rx rules of _read_loop and of both logons).
THEOREM NeverAheadOfPeer == Spec => []RxNotAhead
<1>1. SessionOK => RxNotAhead
  BY DEF SessionOK
<1> QED BY <1>1, SessionInvariant, PTL

\* The engine sees the counterparty's application messages once, in order.
THEOREM HandedOnceInOrder == Spec => []HandedInOrder
<1>1. SessionOK => HandedInOrder
  BY DEF SessionOK
<1> QED BY <1>1, SessionInvariant, PTL

-----------------------------------------------------------------------------
(* Resends.                                                                 *)

USE DEF IsRow

\* What the rows say goes on being so when no row is committed and what is
\* queued, or kept for a resend, was there before or is now a message sent.
LEMMA RowsFrame ==
  ASSUME RowsOK, ~torn, sent \subseteq sent', UNCHANGED << rows, epoch >>,
         \A i \in DOMAIN queue' :
             IsRow(queue'[i]) =>
                 (\E j \in DOMAIN queue : queue'[i] = queue[j])
                 \/ SentAs(queue[i].seq, queue[i].body)',
         \A n \in DOMAIN loop'.bySeq :
             (n \in DOMAIN loop.bySeq /\ loop'.bySeq[n] = loop.bySeq[n])
             \/ SentAs(n, loop.bySeq[n])'
  PROVE  RowsOK'
<1>1. \A n, b : SentAs(n, b) => SentAs(n, b)'
  BY DEF SentAs
<1>2. ASSUME NEW i \in DOMAIN queue', IsRow(queue'[i])
      PROVE  SentAs(queue[i].seq, queue[i].body)'
  <2>1. CASE \E j \in DOMAIN queue : queue'[i] = queue[j]
    <3>1. PICK j \in DOMAIN queue : queue'[i] = queue[j]
      BY <2>1
    <3>2. SentAs(queue[j].seq, queue[j].body)
      BY <1>2, <3>1 DEF RowsOK
    <3> QED BY <1>1, <3>1, <3>2 DEF SentAs
  <2> QED BY <1>2, <2>1
<1>3. ASSUME NEW n \in DOMAIN loop'.bySeq PROVE SentAs(n, loop.bySeq[n])'
  <2>1. CASE n \in DOMAIN loop.bySeq /\ loop'.bySeq[n] = loop.bySeq[n]
    <3>1. SentAs(n, loop.bySeq[n])
      BY <2>1 DEF RowsOK
    <3> QED BY <2>1, <3>1 DEF SentAs
  <2> QED BY <2>1
<1>4. ASSUME NEW i \in DOMAIN rows', i > epoch' PROVE SentAs(rows[i].seq, rows[i].body)'
  <2>1. SentAs(rows[i].seq, rows[i].body)
    BY <1>4 DEF RowsOK
  <2> QED BY <2>1 DEF SentAs
<1> QED BY <1>2, <1>3, <1>4 DEF RowsOK

\* A write appended to the queue.
LEMMA QueueGrows ==
  ASSUME TypeOK, NEW w, queue' = Append(queue, w), NEW i \in DOMAIN queue'
  PROVE  (\E j \in DOMAIN queue : queue'[i] = queue[j]) \/ queue'[i] = w
<1>1. queue \in Seq(Writes)
  BY DEF TypeOK
<1> QED BY <1>1, QueueAppend

LEMMA RowsAfterSend ==
  ASSUME TypeOK, RowsOK, ~torn, NEW task, NEW type, NEW body, Send(task, type, body),
         UNCHANGED << rows, epoch >>, loop' \in {loop, NoLoop}
  PROVE  RowsOK'
<1>1. /\ sent' = sent \cup {[seq |-> tx, body |-> body]}
      /\ queue' = Append(queue, SendRow(task, tx, body))
  BY DEF Send, SendFrom, SendAfter
<1>2. ASSUME NEW i \in DOMAIN queue'
      PROVE  (\E j \in DOMAIN queue : queue'[i] = queue[j])
             \/ SentAs(queue[i].seq, queue[i].body)'
  <2>1. CASE queue'[i] = SendRow(task, tx, body)
    <3>1. queue'[i].seq = tx /\ queue'[i].body = body
      BY <2>1 DEF SendRow
    <3> QED BY <1>1, <3>1 DEF SentAs
  <2> QED BY <1>1, <2>1, QueueGrows
<1>3. DOMAIN NoLoop.bySeq = {}
  BY DEF NoLoop
<1> QED BY <1>1, <1>2, <1>3, RowsFrame

\* What stop() leaves of the queue was sent, whoever is to save it.
LEMMA RowsLeft ==
  ASSUME TypeOK, RowsOK, ~torn, NEW q, LeftOf(q), NEW i \in DOMAIN queue, IsRow(q[i]),
         sent \subseteq sent'
  PROVE  q[i].seq = queue[i].seq /\ q[i].body = queue[i].body /\ SentAs(q[i].seq, q[i].body)
<1>1. queue[i] \in Writes
  BY DEF TypeOK
<1>2. CASE q[i] = queue[i]
  BY <1>2 DEF RowsOK, IsRow
<1>3. CASE queue[i].op = "send" /\ q[i] = [queue[i] EXCEPT !.op = "copy"]
  <2>1. queue[i] \in RowWrites
    BY <1>1, <1>3 DEF Writes, StateWrites
  <2>2. q[i].seq = queue[i].seq /\ q[i].body = queue[i].body
    BY <1>3, <2>1 DEF RowWrites
  <2>3. SentAs(queue[i].seq, queue[i].body)
    BY <1>3 DEF RowsOK, IsRow
  <2> QED BY <2>2, <2>3
<1> QED BY <1>2, <1>3 DEF LeftOf

\* Before the Logon of a connection no row is queued.
LEMMA NoRowsAtLogon ==
  ASSUME TypeOK, RowsBeforeLogon, step = "connecting", ~Blocked(Reader), NEW i \in DOMAIN queue
  PROVE  ~IsRow(queue[i])
<1> SUFFICES ASSUME IsRow(queue[i]) PROVE FALSE
  OBVIOUS
<1>1. queue \in Seq(Writes)
  BY DEF TypeOK
<1>2. DOMAIN queue = 1 .. Len(queue) /\ Len(queue) \in Nat
  BY <1>1
<1>3. PICK j \in i + 1 .. Len(queue) : queue[j].task = Reader
  BY DEF RowsBeforeLogon
<1>4. j \in DOMAIN queue
  BY <1>2, <1>3
<1> QED BY <1>3, <1>4 DEF Blocked

\* After a reset no recorded row is newer than the epoch.
LEMMA RowsAfterReset ==
  ASSUME TypeOK, \A i \in DOMAIN queue : ~IsRow(queue[i]), loop' = NoLoop,
         UNCHANGED rows, epoch' = Len(rows),
         queue' = queue \/ \E task, n : queue' = Append(queue, SendRow(task, n, Admin))
  PROVE  RowsOK'
<1>1. rows \in Seq(Rows)
  BY DEF TypeOK
<1>2. \A i \in DOMAIN rows' : ~(i > epoch')
  BY <1>1
<1>3. DOMAIN loop'.bySeq = {}
  BY DEF NoLoop
<1>4. ASSUME NEW i \in DOMAIN queue', IsRow(queue'[i])
      PROVE  queue'[i].body = Admin
  <2>1. \A j \in DOMAIN queue : queue'[i] # queue[j]
    BY <1>4 DEF IsRow
  <2>2. CASE queue' = queue
    BY <1>4, <2>1, <2>2
  <2>3. CASE \E task, n : queue' = Append(queue, SendRow(task, n, Admin))
    <3>1. PICK task, n : queue' = Append(queue, SendRow(task, n, Admin))
      BY <2>3
    <3>2. queue'[i] = SendRow(task, n, Admin)
      BY <1>4, <2>1, <3>1, QueueGrows
    <3> QED BY <3>2 DEF SendRow
  <2> QED BY <2>2, <2>3
<1> QED BY <1>2, <1>3, <1>4 DEF RowsOK, SentAs, IsRow

\* A row that is committed was queued.
LEMMA RowsAfterCommit ==
  ASSUME TypeOK, RowsOK, ~torn, Commit
  PROVE  RowsOK'
<1>1. /\ queue \in Seq(Writes) /\ queue # << >> /\ rows \in Seq(Rows)
      /\ Len(queue) \in Nat /\ Len(queue) >= 1 /\ DOMAIN queue = 1 .. Len(queue)
      /\ Tail(queue) \in Seq(Writes) /\ DOMAIN Tail(queue) = 1 .. Len(queue) - 1
      /\ \A i \in 1 .. Len(queue) - 1 : Tail(queue)[i] = queue[i + 1]
      /\ Head(queue) = queue[1]
  BY DEF TypeOK, Commit
<1>2. UNCHANGED << sent, epoch, loop >>
  BY DEF Commit
<1>3. ASSUME NEW i \in DOMAIN queue', IsRow(queue'[i])
      PROVE  \E j \in DOMAIN queue : queue'[i] = queue[j]
  <2>1. CASE i \in 1 .. Len(queue) - 1 /\ queue'[i] = Tail(queue)[i]
    BY <1>1, <2>1
  <2>2. CASE queue' = Tail(queue)
    BY <1>1, <2>1, <2>2
  <2>3. CASE queue' = Append(Tail(queue), StateWrite(Head(queue).task))
    <3> DEFINE w == StateWrite(Head(queue).task)
    <3>1. w.op = "state"
      BY DEF StateWrite
    <3> HIDE DEF w
    <3>2. queue' = Append(Tail(queue), w)
      BY <2>3 DEF w
    <3>3. /\ DOMAIN queue' = 1 .. Len(queue) /\ queue'[Len(queue)] = w
          /\ \A j \in 1 .. Len(queue) - 1 : queue'[j] = Tail(queue)[j]
      BY <1>1, <3>2
    <3> QED BY <1>1, <1>3, <2>1, <3>1, <3>3
  <2> QED BY <2>2, <2>3 DEF Commit
<1>4. \A i \in DOMAIN queue' : IsRow(queue'[i]) =>
          SentAs(queue[i].seq, queue[i].body)'
  <2> SUFFICES ASSUME NEW i \in DOMAIN queue', IsRow(queue'[i])
               PROVE  SentAs(queue[i].seq, queue[i].body)'
    OBVIOUS
  <2>1. PICK j \in DOMAIN queue : queue'[i] = queue[j]
    BY <1>3
  <2>2. SentAs(queue[j].seq, queue[j].body)
    BY <2>1 DEF RowsOK
  <2> QED BY <1>2, <2>1, <2>2 DEF SentAs
<1>5. ASSUME NEW i \in DOMAIN rows', i > epoch' PROVE SentAs(rows[i].seq, rows[i].body)'
  <2>1. CASE i \in DOMAIN rows /\ rows'[i] = rows[i]
    <3>1. SentAs(rows[i].seq, rows[i].body)
      BY <1>2, <1>5, <2>1 DEF RowsOK
    <3> QED BY <1>2, <2>1, <3>1 DEF SentAs
  <2>2. CASE UNCHANGED rows
    BY <1>5, <2>1, <2>2
  <2>3. CASE /\ Head(queue).op \in {"send", "copy"}
             /\ rows' = Append(rows, [seq |-> Head(queue).seq, body |-> Head(queue).body])
    <3> DEFINE row == [seq |-> Head(queue).seq, body |-> Head(queue).body]
    <3>1. SentAs(row.seq, row.body)
      BY <1>1, <2>3 DEF RowsOK
    <3>2. row.seq = Head(queue).seq /\ row.body = Head(queue).body
      OBVIOUS
    <3> HIDE DEF row
    <3>3. rows' = Append(rows, row)
      BY <2>3 DEF row
    <3>4. /\ Len(rows) \in Nat /\ DOMAIN rows = 1 .. Len(rows)
          /\ DOMAIN rows' = 1 .. Len(rows) + 1 /\ rows'[Len(rows) + 1] = row
          /\ \A j \in 1 .. Len(rows) : rows'[j] = rows[j]
      BY <1>1, <3>3
    <3>5. CASE rows'[i] = row
      BY <1>2, <3>1, <3>5 DEF SentAs
    <3> QED BY <1>5, <2>1, <3>4, <3>5
  <2> QED BY <2>2, <2>3 DEF Commit
<1>6. \A n \in DOMAIN loop'.bySeq : SentAs(n, loop.bySeq[n])'
  BY <1>2 DEF RowsOK, SentAs
<1> QED BY <1>4, <1>5, <1>6 DEF RowsOK

\* What a resend reads is what was sent.
LEMMA RowsAfterDispatch ==
  ASSUME ReplayOK, ~torn, NEW m \in Received, loop = NoLoop, Dispatch(m), UNCHANGED << rows, epoch >>
  PROVE  RowsOK'
<1> USE DEF ReplayOK, SessionOK
<1>1. CASE \E type : Send(Reader, type, Admin) /\ UNCHANGED loop
  BY <1>1, RowsAfterSend
<1>2. CASE UNCHANGED << queue, sent, loop >>
  BY <1>2, RowsFrame
<1>3. CASE /\ UNCHANGED << queue, sent >>
           /\ \E end : loop'.bySeq = SentMessages(rows, m.begin, end, epoch)
  <2>1. PICK end : loop'.bySeq = SentMessages(rows, m.begin, end, epoch)
    BY <1>3
  <2>2. ASSUME NEW n \in DOMAIN loop'.bySeq PROVE SentAs(n, loop.bySeq[n])'
    <3>1. PICK i \in DOMAIN rows : /\ i > epoch /\ rows[i].seq = n
                                   /\ SentMessages(rows, m.begin, end, epoch)[n] = rows[i].body
      BY <2>1, <2>2, SentMessagesOK
    <3>2. SentAs(n, rows[i].body)
      BY <3>1 DEF RowsOK
    <3> QED BY <1>3, <2>1, <3>1, <3>2 DEF SentAs
  <2> QED BY <1>3, <2>2, RowsFrame
<1> QED BY <1>1, <1>2, <1>3 DEF Dispatch

\* What goes out again is what the resend read.
LEMMA WireAfterSend ==
  ASSUME NEW task, NEW type, NEW body, NEW n, NEW used, SendFrom(task, type, body, n, used)
  PROVE  ResendFaithful'
BY DEF SendFrom, SendAfter, OnWire, ResendFaithful

LEMMA WireFrame ==
  ASSUME ResendFaithful, UNCHANGED << wire, sent >>, ~torn' => ~torn
  PROVE  ResendFaithful'
BY DEF ResendFaithful

\* A change of the status queues no row.
LEMMA RowsAfterStatus ==
  ASSUME TypeOK, RowsOK, ~torn, NEW task, NEW to, SetStatus(task, to),
         UNCHANGED << rows, epoch, sent >>, loop' \in {loop, NoLoop}
  PROVE  RowsOK'
<1> DEFINE w == StatusWrite(task, to)
<1>1. w.op = "state" /\ queue' = Append(queue, w)
  BY DEF StatusWrite, SetStatus
<1> HIDE DEF w
<1>2. ASSUME NEW i \in DOMAIN queue', IsRow(queue'[i])
      PROVE  \E j \in DOMAIN queue : queue'[i] = queue[j]
  BY <1>1, <1>2, QueueGrows
<1>3. DOMAIN NoLoop.bySeq = {}
  BY DEF NoLoop
<1> QED BY <1>2, <1>3, RowsFrame

LEMMA ReplayStep ==
  ASSUME ReplayOK, SeqAssumption, [Next]_vars, ~torn'
  PROVE  RowsOK' /\ ResendFaithful'
<1> USE DEF ReplayOK, SessionOK
<1>1. CASE Commit
  <2>1. UNCHANGED << wire, sent, torn >>
    BY <1>1 DEF Commit
  <2> QED BY <1>1, <2>1, RowsAfterCommit, WireFrame
<1>2. CASE StartAcceptor \/ StartInitiator
  <2>1. /\ queue = << >> /\ epoch' = db.epoch /\ \E to : SetStatus(Reader, to)
        /\ UNCHANGED << rows, loop, wire, sent >>
    BY <1>2 DEF StartAcceptor, StartInitiator, LoadState
  <2>2. DOMAIN queue = {}
    BY <2>1
  <2>3. ~torn /\ ~cut
    BY <1>2, Zenon DEF StartAcceptor, StartInitiator, LoadState
  <2>4. epoch' = epoch
    BY <2>1, <2>2, <2>3 DEF EraSaved, ReaderSaving, SameEra
  <2> QED BY <2>1, <2>3, <2>4, RowsAfterStatus, WireFrame
<1>3. CASE InitiatorLogon
  <2>1. step = "connecting" /\ ~Blocked(Reader) /\ loop = NoLoop /\ UNCHANGED << rows, loop >>
    BY <1>3 DEF InitiatorLogon, PhaseOK
  <2>2. CASE ResetOnLogon
    <3>1. epoch' = Len(rows) /\ SendFrom(Reader, "Logon", Admin, 1, {})
      BY <1>3, <2>2 DEF InitiatorLogon
    <3>2. queue' = Append(queue, SendRow(Reader, 1, Admin))
      BY <3>1 DEF SendFrom, SendAfter
    <3>3. \A i \in DOMAIN queue : ~IsRow(queue[i])
      BY <2>1, NoRowsAtLogon
    <3>4. RowsOK'
      BY <2>1, <3>1, <3>2, <3>3, RowsAfterReset
    <3> QED BY <3>1, <3>4, WireAfterSend
  <2>3. CASE ~ResetOnLogon
    <3>1. epoch' = epoch /\ Send(Reader, "Logon", Admin)
      BY <1>3, <2>3 DEF InitiatorLogon
    <3>2. ~torn
      BY <1>3, <2>3, Zenon DEF InitiatorLogon
    <3> QED BY <2>1, <3>1, <3>2, RowsAfterSend, WireAfterSend DEF Send
  <2> QED BY <2>2, <2>3
<1>4. CASE \E n \in Fresh : LogonAnswered(n)
  <2>1. /\ UNCHANGED << epoch, rows, loop, wire, sent, torn >>
        /\ \E to : SetStatus(Reader, to)
    BY <1>4, Zenon DEF LogonAnswered
  <2> QED BY <2>1, RowsAfterStatus, WireFrame
<1>5. CASE \E n \in Fresh : AcceptLogon(n, FALSE)
  <2>1. epoch' = epoch /\ Send(Reader, "Logon", Admin) /\ UNCHANGED << rows, loop >>
    BY <1>5, Zenon DEF AcceptLogon
  <2>2. ~torn
    BY <1>5, Zenon DEF AcceptLogon
  <2> QED BY <2>1, <2>2, RowsAfterSend, WireAfterSend DEF Send
<1>6. CASE AcceptLogon(1, TRUE)
  <2>1. /\ step = "connecting" /\ ~Blocked(Reader)
        /\ epoch' = Len(rows) /\ SendFrom(Reader, "Logon", Admin, 1, {})
        /\ UNCHANGED << rows, loop >>
    BY <1>6, Zenon DEF AcceptLogon
  <2>2. loop = NoLoop
    BY <2>1 DEF PhaseOK
  <2>3. queue' = Append(queue, SendRow(Reader, 1, Admin))
    BY <2>1 DEF SendFrom, SendAfter
  <2>4. \A i \in DOMAIN queue : ~IsRow(queue[i])
    BY <2>1, NoRowsAtLogon
  <2>5. RowsOK'
    BY <2>1, <2>2, <2>3, <2>4, RowsAfterReset
  <2> QED BY <2>1, <2>5, WireAfterSend
<1>7. CASE Connect \/ BecomeActive \/ LogoutSent \/ ReportDown
  <2>1. /\ UNCHANGED << epoch, rows, loop, wire, sent, torn >>
        /\ \E task, to : SetStatus(task, to)
    BY <1>7 DEF Connect, BecomeActive, LogoutSent, ReportDown
  <2> QED BY <2>1, RowsAfterStatus, WireFrame
<1>8. CASE \E m \in Inbound : Receive(m)
  <2>1. PICK m \in Inbound : Receive(m)
    BY <1>8
  <2>2. m \in Received /\ loop = NoLoop /\ UNCHANGED << rows, epoch, torn >>
    BY <2>1, InboundOK DEF Receive, PhaseOK
  <2>3. CASE Dispatch(m)
    <3>1. (\E type : Send(Reader, type, Admin)) \/ UNCHANGED << wire, sent >>
      BY <2>3 DEF Dispatch
    <3> QED BY <2>2, <2>3, <3>1, RowsAfterDispatch, WireAfterSend, WireFrame DEF Send
  <2>4. CASE ~Dispatch(m)
    <3>1. \E type : Send(Reader, type, Admin) /\ UNCHANGED loop
      BY <2>1, <2>4 DEF Receive
    <3> QED BY <2>2, <3>1, RowsAfterSend, WireAfterSend DEF Send
  <2> QED BY <2>3, <2>4
<1>9. CASE AfterGap
  <2>1. msg \in Received /\ loop = NoLoop /\ Dispatch(msg) /\ UNCHANGED << rows, epoch, torn >>
    BY <1>9 DEF AfterGap, PhaseOK, TypeOK
  <2>2. (\E type : Send(Reader, type, Admin)) \/ UNCHANGED << wire, sent >>
    BY <2>1 DEF Dispatch
  <2> QED BY <2>1, <2>2, RowsAfterDispatch, WireAfterSend, WireFrame DEF Send
<1>10. CASE AnswerNext
  <2> DEFINE m == MessageFor(loop.bySeq, loop.at, loop.end, loop.lastSent)
  <2>1. /\ wire'.type = m.type /\ wire'.seq = m.seq /\ wire'.body = m.body
        /\ queue' = Append(queue, CopyRow(Reader, m.seq, m.body))
        /\ loop'.bySeq = loop.bySeq
        /\ UNCHANGED << epoch, rows, sent, torn >>
    BY <1>10 DEF AnswerNext, OnWire, TypeOK, LoopOK
  <2>2. SentAs(m.seq, m.body) /\ (m.type = "App" => m.body # Admin)
    <3>1. CASE InGap(loop.bySeq, loop.at)
      BY <3>1 DEF MessageFor, GapFill, SentAs
    <3>2. CASE ~InGap(loop.bySeq, loop.at)
      <4>1. m = Resent(loop.at, loop.bySeq[loop.at])
        BY <3>2 DEF MessageFor
      <4>2. loop.at \in DOMAIN loop.bySeq /\ loop.bySeq[loop.at] # Admin
        BY <3>2 DEF InGap
      <4>3. SentAs(loop.at, loop.bySeq[loop.at])
        BY <2>1, <4>2 DEF RowsOK
      <4> QED BY <4>1, <4>2, <4>3 DEF Resent
    <3> QED BY <3>1, <3>2
  <2>3. ResendFaithful'
    <3> HIDE DEF m
    <3>1. m.type = "App" => [seq |-> m.seq, body |-> m.body] \in sent
      BY <2>2 DEF SentAs
    <3> QED BY <2>1, <3>1 DEF ResendFaithful
  <2>4. RowsOK'
    <3>1. ASSUME NEW i \in DOMAIN queue'
          PROVE  (\E j \in DOMAIN queue : queue'[i] = queue[j])
                 \/ SentAs(queue[i].seq, queue[i].body)'
      <4> HIDE DEF m
      <4>1. CASE queue'[i] = CopyRow(Reader, m.seq, m.body)
        <5>1. queue'[i].seq = m.seq /\ queue'[i].body = m.body
          BY <4>1 DEF CopyRow
        <5> QED BY <2>1, <2>2, <5>1 DEF SentAs
      <4> QED BY <2>1, <4>1, QueueGrows
    <3> HIDE DEF m
    <3> QED BY <2>1, <3>1, RowsFrame
  <2> QED BY <2>3, <2>4
<1>11. CASE Persist
  <2>1. /\ queue' = Append(queue, StateWrite(Reader)) /\ loop' = NoLoop
        /\ UNCHANGED << epoch, rows, wire, sent, torn >>
    BY <1>11 DEF Persist
  <2>2. StateWrite(Reader).op = "state"
    BY DEF StateWrite
  <2>3. DOMAIN NoLoop.bySeq = {}
    BY DEF NoLoop
  <2>4. ASSUME NEW i \in DOMAIN queue', IsRow(queue'[i])
        PROVE  \E j \in DOMAIN queue : queue'[i] = queue[j]
    BY <2>1, <2>2, <2>4, QueueGrows
  <2> QED BY <2>1, <2>3, <2>4, RowsFrame, WireFrame
<1>12. CASE Disconnect
  <2>1. /\ loop' = NoLoop /\ wire' = NoWire /\ UNCHANGED << epoch, rows, sent, torn >>
        /\ (\E to : SetStatus(Reader, to)) \/ UNCHANGED queue
    BY <1>12 DEF Disconnect, LetGo
  <2>2. NoWire.dup = "N" /\ DOMAIN NoLoop.bySeq = {}
    BY DEF NoWire, OnWire, NoLoop
  <2>3. CASE UNCHANGED queue
    BY <2>1, <2>2, <2>3, RowsFrame DEF ResendFaithful
  <2>4. CASE \E to : SetStatus(Reader, to)
    BY <2>1, <2>2, <2>4, RowsAfterStatus DEF ResendFaithful
  <2> QED BY <2>1, <2>3, <2>4
<1>17. CASE StopTests
  <2>1. Send(Stopper, "TestRequest", Admin) /\ UNCHANGED << epoch, rows, loop, torn >>
    BY <1>17 DEF StopTests
  <2> QED BY <2>1, RowsAfterSend, WireAfterSend DEF Send
<1>18. CASE StopLogsOut
  <2> DEFINE q == Cancelled(Beats)
             w == SendRow(Stopper, tx, Admin)
  <2>1. /\ queue' = Append(q, w) /\ sent \subseteq sent' /\ wire'.dup = "N"
        /\ UNCHANGED << epoch, rows, loop, torn >>
    BY <1>18 DEF StopLogsOut, SendAfter, OnWire
  <2>2. w.seq = tx /\ w.body = Admin
    BY DEF SendRow
  <2>3. LeftOf(q)
    BY BeatsLeft
  <2> HIDE DEF q, w
  <2>4. ASSUME NEW i \in DOMAIN queue', IsRow(queue'[i])
        PROVE  SentAs(queue[i].seq, queue[i].body)'
    <3>1. q \in Seq(Writes)
      BY <2>3 DEF LeftOf
    <3>2. (i \in DOMAIN q /\ queue'[i] = q[i]) \/ queue'[i] = w
      BY <2>1, <3>1, QueueAppend
    <3>3. CASE i \in DOMAIN q /\ queue'[i] = q[i]
      <4>1. i \in DOMAIN queue
        BY <2>3, <3>3 DEF LeftOf
      <4>2. SentAs(q[i].seq, q[i].body)
        BY <2>1, <2>3, <2>4, <3>3, <4>1, RowsLeft
      <4> QED BY <2>1, <3>3, <4>2 DEF SentAs
    <3>4. CASE queue'[i] = w
      BY <2>2, <3>4 DEF SentAs
    <3> QED BY <3>2, <3>3, <3>4
  <2> QED BY <2>1, <2>4, RowsFrame DEF ResendFaithful
<1>19. CASE StopCancels
  <2>1. /\ loop' = NoLoop /\ wire' = NoWire /\ UNCHANGED << epoch, rows, sent, torn >>
    BY <1>19 DEF StopCancels, LetGo
  <2>2. NoWire.dup = "N" /\ DOMAIN NoLoop.bySeq = {}
    BY DEF NoWire, OnWire, NoLoop
  <2>3. ASSUME NEW i \in DOMAIN queue', IsRow(queue'[i])
        PROVE  SentAs(queue[i].seq, queue[i].body)'
    <3>1. LeftOf(queue') /\ i \in DOMAIN queue
      BY <1>19, StopLeaves DEF LeftOf
    <3>2. SentAs(queue'[i].seq, queue'[i].body)
      BY <2>1, <2>3, <3>1, RowsLeft
    <3> QED BY <2>1, <3>2 DEF SentAs
  <2> QED BY <2>1, <2>2, <2>3, RowsFrame DEF ResendFaithful
<1>13. CASE \E s \in Senders : SendApp(s) \/ SendHeartbeat(s)
  <2>1. /\ \E s, type, body : Send(s, type, body)
        /\ UNCHANGED << epoch, rows, loop, torn >>
    BY <1>13 DEF SendApp, SendHeartbeat
  <2> QED BY <2>1, RowsAfterSend, WireAfterSend DEF Send
<1>14. CASE \E t \in 1 .. MaxTx, r \in 1 .. MaxPeer : ResetSequence(t, r)
  <2>1. /\ status = "DOWN" /\ queue = << >> /\ epoch' = Len(rows)
        /\ UNCHANGED << rows, queue, loop, wire >>
    BY <1>14, Zenon DEF ResetSequence
  <2>2. loop = NoLoop /\ wire.dup = "N"
    BY <2>1 DEF PhaseOK
  <2>3. DOMAIN queue = {}
    BY <2>1
  <2> QED BY <2>1, <2>2, <2>3, RowsAfterReset DEF ResendFaithful
<1>15. CASE Crash
  <2>1. /\ epoch' = db.epoch /\ queue' = << >> /\ loop' = NoLoop /\ wire' = NoWire
        /\ UNCHANGED << rows, sent >>
    BY <1>15 DEF Crash, LetGo
  <2>2. ~torn /\ db.epoch = epoch
    BY <1>15, Zenon DEF Crash
  <2>3. DOMAIN NoLoop.bySeq = {} /\ NoWire.dup = "N"
    BY DEF NoLoop, NoWire, OnWire
  <2>4. RowsOK'
    BY <2>1, <2>2, <2>3, RowsFrame
  <2> QED BY <2>1, <2>3, <2>4 DEF ResendFaithful
<1>16. CASE UNCHANGED vars
  <2>1. UNCHANGED << epoch, rows, queue, loop, wire, sent, torn >>
    BY <1>16 DEF vars
  <2> QED BY <2>1, RowsFrame, WireFrame
<1> QED BY <1>1, <1>2, <1>3, <1>4, <1>5, <1>6, <1>7, <1>8, <1>9, <1>10, <1>11, <1>12, <1>13,
           <1>14, <1>15, <1>16, <1>17, <1>18, <1>19 DEF Next

\* What is retransmitted is what went out first under that number since the
\* last reset (_answer_resend_request, sent_messages, _seq_epoch).
THEOREM ReplaysWhatWasSent == Spec => []ResendFaithful
<1>1. Init => RowsOK /\ ResendFaithful
  <2> SUFFICES ASSUME Init PROVE RowsOK /\ ResendFaithful
    OBVIOUS
  <2>1. DOMAIN << >> = {}
    OBVIOUS
  <2> QED BY <2>1 DEF Init, RowsOK, ResendFaithful, NoLoop, NoWire, OnWire
<1>2. ReplayOK /\ SessionOK' /\ [Next]_vars => ReplayOK'
  <2> SUFFICES ASSUME ReplayOK, SessionOK', [Next]_vars PROVE ReplayOK'
    OBVIOUS
  <2>1. CASE torn'
    BY <2>1 DEF ReplayOK, RowsOK, ResendFaithful
  <2>2. CASE ~torn'
    BY <2>2, ReplayStep, SeqAssumption DEF ReplayOK
  <2> QED BY <2>1, <2>2
<1>3. ReplayOK => ResendFaithful
  BY DEF ReplayOK
<1>4. SessionOK /\ RowsOK /\ ResendFaithful => ReplayOK
  BY DEF ReplayOK
<1> QED BY <1>1, <1>2, <1>3, <1>4, SessionInvariant, PTL DEF Spec

-----------------------------------------------------------------------------
(* That SessionSeq uses no number twice and saves what a crash would lose,  *)
(* when a sender's writes are committed before the status changes under it. *)
(* (Without PromptCommit the change of status may read the saved row before *)
(* a sender's state is committed and put the old number back after it: the  *)
(* run SessionSeqLostUpdate.)                                               *)
(*                                                                          *)
(* What makes the properties inductive (SavedOK): when no send is on the    *)
(* way, a write of the state that only copies of rows follow, or the saved  *)
(* row when only those are queued, holds the next number; but not after a   *)
(* stop() that cancelled a send, until the next start.                      *)

HIDE DEF IsRow

\* After the first i writes of the queue nothing changes the saved row.
LastWord(i) == \A j \in i + 1 .. Len(queue) : queue[j].op = "copy"

\* A send is on the way: its task will save the number.
Sending == \E i \in DOMAIN queue : queue[i].op = "send"

SavedOK ==
    ~cut /\ ~Sending =>
        /\ LastWord(0) => db.tx = tx
        /\ \A i \in DOMAIN queue : LastWord(i) /\ queue[i].op = "state" => queue[i].tx = tx

NumbersOK == SessionOK /\ SavedOK /\ NextNumberFresh

-----------------------------------------------------------------------------
(* The last word of the database.                                           *)

\* Right after a _send there is none: its row is still queued.
LEMMA SavedAfterSend ==
  ASSUME NEW q \in Seq(Writes), NEW task, NEW type, NEW body, NEW n, NEW used,
         SendAfter(q, task, type, body, n, used)
  PROVE  SavedOK'
<1> DEFINE w == SendRow(task, n, body)
<1>1. w.op = "send" /\ queue' = Append(q, w)
  BY DEF SendAfter, SendRow
<1> HIDE DEF w
<1>2. /\ Len(q) \in Nat
      /\ DOMAIN queue' = 1 .. Len(q) + 1 /\ queue'[Len(q) + 1] = w
  BY <1>1, QueueAppend
<1>3. Len(q) + 1 \in DOMAIN queue'
  BY <1>2
<1> QED BY <1>1, <1>2, <1>3 DEF SavedOK, Sending

\* A step that writes nothing and leaves the next number alone.
LEMMA SavedFrame ==
  ASSUME SavedOK, UNCHANGED << queue, db, tx >>, ~cut' => ~cut
  PROVE  SavedOK'
BY DEF SavedOK, LastWord, Sending

\* A copy that is queued does not take the last word.
LEMMA SavedAfterCopy ==
  ASSUME SavedOK, TypeOK, NEW w, w.op = "copy", queue' = Append(queue, w), UNCHANGED << db, tx, cut >>
  PROVE  SavedOK'
<1> SUFFICES ASSUME ~cut, ~Sending' PROVE SavedOK'
  BY DEF SavedOK
<1>1. queue \in Seq(Writes)
  BY DEF TypeOK
<1>2. /\ Len(queue) \in Nat /\ Len(queue') = Len(queue) + 1
      /\ DOMAIN queue = 1 .. Len(queue) /\ DOMAIN queue' = 1 .. Len(queue) + 1
      /\ queue'[Len(queue) + 1] = w
      /\ \A i \in 1 .. Len(queue) : queue'[i] = queue[i]
  BY <1>1, QueueAppend
<1>3. ~Sending
  BY <1>2 DEF Sending
<1>4. ASSUME NEW i \in 0 .. Len(queue), LastWord(i)' PROVE LastWord(i)
  BY <1>2, <1>4 DEF LastWord
<1>5. LastWord(0)' => db'.tx = tx'
  BY <1>2, <1>3, <1>4 DEF SavedOK
<1>6. ASSUME NEW i \in DOMAIN queue', LastWord(i)', queue'[i].op = "state"
      PROVE  queue'[i].tx = tx'
  BY <1>2, <1>3, <1>4, <1>6 DEF SavedOK
<1> QED BY <1>5, <1>6 DEF SavedOK

\* A state that is queued and holds the next number has the last word.
LEMMA SavedAfterState ==
  ASSUME NEW q \in Seq(Writes), NEW w, w.op = "state", w.tx = tx', queue' = Append(q, w)
  PROVE  SavedOK'
<1>1. /\ Len(q) \in Nat /\ Len(queue') = Len(q) + 1
      /\ DOMAIN queue' = 1 .. Len(q) + 1 /\ queue'[Len(q) + 1] = w
  BY QueueAppend
<1>2. \A i \in 0 .. Len(q) : ~LastWord(i)'
  BY <1>1 DEF LastWord
<1> QED BY <1>1, <1>2 DEF SavedOK

\* So it does after a change of the status, when no numbers are on the way and
\* no send either.
LEMMA SavedAfterStatus ==
  ASSUME TypeOK, SavedOK, PromptCommit, NEW task, NEW to, SetStatus(task, to),
         UNCHANGED tx, ~cut' => ~cut
  PROVE  SavedOK'
<1> DEFINE w == StatusWrite(task, to)
<1>1. w.op = "state" /\ w.tx = db.tx /\ queue' = Append(queue, w) /\ ~Saving
  BY DEF StatusWrite, SetStatus
<1> HIDE DEF w
<1>2. queue \in Seq(Writes)
  BY DEF TypeOK
<1> SUFFICES ASSUME ~cut, ~Sending' PROVE SavedOK'
  BY DEF SavedOK
<1>3. /\ Len(queue) \in Nat /\ DOMAIN queue = 1 .. Len(queue)
      /\ DOMAIN queue' = 1 .. Len(queue) + 1
      /\ \A i \in 1 .. Len(queue) : queue'[i] = queue[i]
  BY <1>1, <1>2, QueueAppend
<1>4. ~Sending
  BY <1>3 DEF Sending
<1>5. ASSUME NEW i \in DOMAIN queue PROVE queue[i].op = "copy"
  <2>1. queue[i] \in Writes
    BY <1>2, <1>5
  <2>2. queue[i].op \in {"send", "copy", "state"}
    BY <2>1 DEF Writes, RowWrites, StateWrites
  <2> QED BY <1>1, <1>4, <1>5, <2>2 DEF Sending, Saving
<1>6. LastWord(0)
  BY <1>3, <1>5 DEF LastWord
<1>7. w.tx = tx'
  BY <1>1, <1>4, <1>6 DEF SavedOK
<1> QED BY <1>1, <1>2, <1>7, SavedAfterState

\* The writer takes the oldest write; what is the last word stays it.
LEMMA SavedAfterCommit ==
  ASSUME SavedOK, TypeOK, Commit
  PROVE  SavedOK'
<1> SUFFICES ASSUME ~cut, ~Sending' PROVE SavedOK'
  BY DEF SavedOK, Commit
<1>1. /\ queue \in Seq(Writes) /\ Tail(queue) \in Seq(Writes) /\ Head(queue) = queue[1]
      /\ Len(queue) \in Nat \ {0} /\ DOMAIN queue = 1 .. Len(queue)
      /\ Len(Tail(queue)) = Len(queue) - 1
      /\ \A i \in 1 .. Len(queue) - 1 : Tail(queue)[i] = queue[i + 1]
  BY QueueTail DEF Commit
<1>2. UNCHANGED tx
  BY DEF Commit
<1>3. CASE queue[1].op = "send"
  <2> DEFINE w == StateWrite(Head(queue).task)
  <2>1. w.op = "state" /\ w.tx = tx' /\ queue' = Append(Tail(queue), w)
    BY <1>1, <1>2, <1>3 DEF Commit, StateWrite
  <2> HIDE DEF w
  <2> QED BY <1>1, <2>1, SavedAfterState
<1>4. CASE queue' = Tail(queue) /\ queue[1].op # "send"
  <2>1. /\ Len(queue') = Len(queue) - 1 /\ DOMAIN queue' = 1 .. Len(queue) - 1
        /\ \A i \in 1 .. Len(queue) - 1 : queue'[i] = queue[i + 1]
    BY <1>1, <1>4
  <2>5. ~Sending
    <3> SUFFICES ASSUME NEW j \in DOMAIN queue, queue[j].op = "send" PROVE FALSE
      BY DEF Sending
    <3>1. j - 1 \in DOMAIN queue' /\ queue'[j - 1] = queue[(j - 1) + 1]
      BY <1>1, <1>4, <2>1
    <3> QED BY <1>1, <3>1 DEF Sending
  <2>2. ASSUME NEW i \in 0 .. Len(queue) - 1, LastWord(i)' PROVE LastWord(i + 1)
    <3> SUFFICES ASSUME NEW j \in (i + 1) + 1 .. Len(queue) PROVE queue[j].op = "copy"
      BY DEF LastWord
    <3>1. j - 1 \in i + 1 .. Len(queue') /\ queue'[j - 1] = queue[(j - 1) + 1]
      BY <1>1, <2>1
    <3>2. queue'[j - 1].op = "copy"
      BY <2>2, <3>1 DEF LastWord
    <3> QED BY <3>1, <3>2
  <2>3. ASSUME NEW i \in DOMAIN queue', LastWord(i)', queue'[i].op = "state"
        PROVE  queue'[i].tx = tx'
    <3>1. LastWord(i + 1) /\ queue[i + 1] = queue'[i] /\ i + 1 \in DOMAIN queue
      BY <1>1, <2>1, <2>2, <2>3
    <3> QED BY <1>2, <2>3, <2>5, <3>1 DEF SavedOK
  <2>4. ASSUME LastWord(0)' PROVE db'.tx = tx'
    <3>1. LastWord(1)
      BY <1>1, <2>2, <2>4
    <3>2. CASE queue[1].op = "copy"
      <4>1. LastWord(0)
        BY <1>1, <3>1, <3>2 DEF LastWord
      <4>2. UNCHANGED db
        BY <1>1, <3>2 DEF Commit
      <4> QED BY <1>2, <2>5, <4>1, <4>2 DEF SavedOK
    <3>3. CASE queue[1].op = "state"
      <4>1. queue[1].tx = tx
        BY <1>1, <2>5, <3>1, <3>3 DEF SavedOK
      <4>2. db'.tx = queue[1].tx
        BY <1>1, <3>3 DEF Commit
      <4> QED BY <1>2, <4>1, <4>2
    <3> QED BY <1>1, <1>4, <3>2, <3>3 DEF Commit
  <2> QED BY <2>3, <2>4 DEF SavedOK
<1> QED BY <1>1, <1>3, <1>4 DEF Commit

-----------------------------------------------------------------------------
(* Numbers are used once.                                                   *)

\* A number that is sent is the next one, and below the next from then on.
LEMMA SendFromFresh ==
  ASSUME NEW task, NEW type, NEW body, NEW n \in Nat, NEW used,
         \A s \in used : s.seq \in Nat /\ s.seq < n,
         SendFrom(task, type, body, n, used)
  PROVE  \A s \in sent' : s.seq < tx'
BY DEF SendFrom, SendAfter

LEMMA SendFresh ==
  ASSUME TypeOK, NextNumberFresh, NEW task, NEW type, NEW body, Send(task, type, body),
         ~torn' => ~torn
  PROVE  NextNumberFresh'
<1>1. tx \in Nat /\ \A s \in sent : s.seq \in Nat
  BY DEF TypeOK, Rows
<1>2. SendFrom(task, type, body, tx, sent)
  BY DEF Send
<1>3. CASE torn'
  BY <1>3 DEF NextNumberFresh
<1>4. CASE ~torn'
  <2>1. \A s \in sent : s.seq < tx
    BY <1>4 DEF NextNumberFresh
  <2>2. \A s \in sent' : s.seq < tx'
    BY <1>1, <1>2, <2>1, SendFromFresh
  <2> QED BY <2>2 DEF NextNumberFresh
<1> QED BY <1>3, <1>4

LEMMA NumbersStep ==
  ASSUME NumbersOK, SeqAssumption, PromptCommit, [Next]_vars
  PROVE  SavedOK' /\ NextNumberFresh'
<1> USE DEF NumbersOK, SessionOK
<1>1. ASSUME NEW type, NEW body, NEW task, Send(task, type, body), ~torn' => ~torn
      PROVE  SavedOK' /\ NextNumberFresh'
  <2>1. SendAfter(queue, task, type, body, tx, sent) /\ queue \in Seq(Writes)
    BY <1>1 DEF Send, SendFrom, TypeOK
  <2> QED BY <1>1, <2>1, SavedAfterSend, SendFresh
<1>2. ASSUME SendFrom(Reader, "Logon", Admin, 1, {}) PROVE SavedOK' /\ NextNumberFresh'
  <2>1. \A s \in sent' : s.seq < tx'
    BY <1>2, SendFromFresh
  <2>2. SendAfter(queue, Reader, "Logon", Admin, 1, {}) /\ queue \in Seq(Writes)
    BY <1>2 DEF SendFrom, TypeOK
  <2> QED BY <2>1, <2>2, SavedAfterSend DEF NextNumberFresh
<1>3. CASE Commit
  <2>1. UNCHANGED << tx, sent, torn >>
    BY <1>3 DEF Commit
  <2> QED BY <1>3, <2>1, SavedAfterCommit DEF NextNumberFresh
<1>4. CASE Connect \/ BecomeActive \/ LogoutSent \/ ReportDown
  <2>1. UNCHANGED << tx, sent, torn >> /\ \E task, to : SetStatus(task, to)
    BY <1>4 DEF Connect, BecomeActive, LogoutSent, ReportDown
  <2>2. ~cut' => ~cut
    BY <1>4, Zenon DEF Connect, BecomeActive, LogoutSent, ReportDown
  <2> QED BY <2>1, <2>2, SavedAfterStatus DEF NextNumberFresh
<1>19. CASE StartAcceptor \/ StartInitiator
  <2>1. /\ queue = << >> /\ tx' = db.tx /\ UNCHANGED sent
        /\ \E to : SetStatus(Reader, to)
    BY <1>19 DEF StartAcceptor, StartInitiator, LoadState
  <2>2. ~torn' => ~torn /\ ~cut
    BY <1>19, Zenon DEF StartAcceptor, StartInitiator, LoadState
  <2>3. ~torn' => tx' = tx
    BY <2>1, <2>2 DEF SavedOK, LastWord, Sending
  <2>4. SavedOK'
    <3>1. PICK to : SetStatus(Reader, to)
      BY <2>1
    <3> DEFINE w == StatusWrite(Reader, to)
    <3>2. w.op = "state" /\ w.tx = tx' /\ queue' = Append(queue, w) /\ queue \in Seq(Writes)
      BY <2>1, <3>1 DEF StatusWrite, SetStatus, TypeOK
    <3> HIDE DEF w
    <3> QED BY <3>2, SavedAfterState
  <2> QED BY <2>1, <2>2, <2>3, <2>4 DEF NextNumberFresh
<1>20. CASE Disconnect
  <2>1. /\ UNCHANGED << tx, db, cut, sent, torn >>
        /\ (\E to : SetStatus(Reader, to)) \/ UNCHANGED queue
    BY <1>20 DEF Disconnect
  <2> QED BY <2>1, SavedAfterStatus, SavedFrame DEF NextNumberFresh
<1>21. CASE StopTests
  <2>1. Send(Stopper, "TestRequest", Admin) /\ UNCHANGED torn
    BY <1>21 DEF StopTests
  <2> QED BY <1>1, <2>1
<1>22. CASE StopLogsOut
  <2>1. SendAfter(Cancelled(Beats), Stopper, "Logout", Admin, tx, sent) /\ UNCHANGED torn
    BY <1>22 DEF StopLogsOut
  <2>2. Cancelled(Beats) \in Seq(Writes)
    BY BeatsLeft DEF LeftOf
  <2>3. SavedOK'
    BY <2>1, <2>2, SavedAfterSend
  <2>4. sent' = sent \cup {[seq |-> tx, body |-> Admin]} /\ tx' = tx + 1
    BY <2>1 DEF SendAfter
  <2>5. tx \in Nat /\ \A t \in sent : t.seq \in Nat
    BY DEF TypeOK, Rows
  <2> QED BY <2>1, <2>3, <2>4, <2>5 DEF NextNumberFresh
<1>23. CASE StopCancels
  <2>1. UNCHANGED << tx, db, sent, torn >>
    BY <1>23 DEF StopCancels
  <2>2. ~cut' => ~cut /\ UNCHANGED queue
    BY <1>23, Zenon DEF StopCancels
  <2>3. SavedOK'
    <3>1. CASE cut'
      BY <3>1 DEF SavedOK
    <3>2. CASE ~cut'
      BY <2>1, <2>2, <3>2, SavedFrame
    <3> QED BY <3>1, <3>2
  <2> QED BY <2>1, <2>3 DEF NextNumberFresh
<1>5. CASE InitiatorLogon
  <2>1. CASE ResetOnLogon
    BY <1>2, <1>5, <2>1 DEF InitiatorLogon
  <2>2. CASE ~ResetOnLogon
    <3>1. Send(Reader, "Logon", Admin)
      BY <1>5, <2>2 DEF InitiatorLogon
    <3>2. ~torn' => ~torn
      BY <1>5, <2>2, Zenon DEF InitiatorLogon
    <3> QED BY <1>1, <3>1, <3>2
  <2> QED BY <2>1, <2>2
<1>6. CASE \E n \in Fresh : LogonAnswered(n)
  <2>1. UNCHANGED << tx, cut, sent, torn >> /\ SetStatus(Reader, "ACTIVE")
    BY <1>6, Zenon DEF LogonAnswered
  <2> QED BY <2>1, SavedAfterStatus DEF NextNumberFresh
<1>7. CASE \E n \in Fresh : AcceptLogon(n, FALSE)
  <2>1. Send(Reader, "Logon", Admin)
    BY <1>7, Zenon DEF AcceptLogon
  <2>2. ~torn' => ~torn
    BY <1>7, Zenon DEF AcceptLogon
  <2> QED BY <1>1, <2>1, <2>2
<1>8. CASE AcceptLogon(1, TRUE)
  BY <1>2, <1>8, Zenon DEF AcceptLogon
<1>9. ASSUME NEW m, Dispatch(m)
      PROVE  (\E type : Send(Reader, type, Admin)) \/ UNCHANGED << tx, queue, sent >>
  BY <1>9 DEF Dispatch
<1>10. ASSUME UNCHANGED << db, cut, torn >>,
              (\E type : Send(Reader, type, Admin)) \/ UNCHANGED << tx, queue, sent >>
       PROVE  SavedOK' /\ NextNumberFresh'
  <2>1. CASE UNCHANGED << tx, queue, sent >>
    BY <1>10, <2>1, SavedFrame DEF NextNumberFresh
  <2>2. CASE \E type : Send(Reader, type, Admin)
    BY <1>1, <1>10, <2>2
  <2> QED BY <1>10, <2>1, <2>2
<1>11. CASE \E m \in Inbound : Receive(m)
  <2>1. PICK m \in Inbound : Receive(m)
    BY <1>11
  <2>2. /\ UNCHANGED << db, cut, torn >>
        /\ (\E type : Send(Reader, type, Admin)) \/ Dispatch(m)
    BY <2>1 DEF Receive
  <2> QED BY <1>9, <1>10, <2>2
<1>12. CASE AfterGap
  <2>1. UNCHANGED << db, cut, torn >> /\ Dispatch(msg)
    BY <1>12 DEF AfterGap
  <2> QED BY <1>9, <1>10, <2>1
<1>13. CASE AnswerNext
  <2>1. /\ UNCHANGED << tx, db, cut, sent, torn >>
        /\ \E seq, body : queue' = Append(queue, CopyRow(Reader, seq, body))
    BY <1>13 DEF AnswerNext
  <2>2. PICK seq, body : queue' = Append(queue, CopyRow(Reader, seq, body))
    BY <2>1
  <2>3. CopyRow(Reader, seq, body).op = "copy"
    BY DEF CopyRow
  <2> QED BY <2>1, <2>2, <2>3, SavedAfterCopy DEF NextNumberFresh
<1>14. CASE Persist
  <2> DEFINE w == StateWrite(Reader)
  <2>1. /\ UNCHANGED << tx, sent, torn >> /\ queue' = Append(queue, w)
        /\ w.op = "state" /\ w.tx = tx' /\ queue \in Seq(Writes)
    BY <1>14 DEF Persist, StateWrite, TypeOK
  <2> HIDE DEF w
  <2> QED BY <2>1, SavedAfterState DEF NextNumberFresh
<1>15. CASE \E s \in Senders : SendApp(s) \/ SendHeartbeat(s)
  <2>1. UNCHANGED torn /\ \E s, type, body : Send(s, type, body)
    BY <1>15 DEF SendApp, SendHeartbeat
  <2> QED BY <1>1, <2>1
<1>16. CASE \E t \in 1 .. MaxTx, r \in 1 .. MaxPeer : ResetSequence(t, r)
  <2>1. PICK t \in 1 .. MaxTx, r \in 1 .. MaxPeer : ResetSequence(t, r)
    BY <1>16
  <2>2. queue' = << >> /\ sent' = {} /\ db'.tx = tx'
    BY <2>1, Zenon DEF ResetSequence
  <2>3. DOMAIN queue' = {}
    BY <2>2
  <2> QED BY <2>2, <2>3 DEF SavedOK, NextNumberFresh
<1>17. CASE Crash
  <2>1. queue' = << >> /\ tx' = db.tx /\ UNCHANGED << db, sent >>
    BY <1>17 DEF Crash
  <2>2. ~torn' => ~torn /\ db.tx = tx
    BY <1>17, Zenon DEF Crash
  <2>3. DOMAIN queue' = {}
    BY <2>1
  <2> QED BY <2>1, <2>2, <2>3 DEF SavedOK, NextNumberFresh
<1>18. CASE UNCHANGED vars
  BY <1>18, SavedFrame DEF vars, NextNumberFresh
<1> QED BY <1>3, <1>4, <1>5, <1>6, <1>7, <1>8, <1>11, <1>12, <1>13, <1>14, <1>15, <1>16, <1>17,
           <1>18, <1>19, <1>20, <1>21, <1>22, <1>23 DEF Next

LEMMA NumbersInvariant == PromptCommit => (Spec => []NumbersOK)
<1> SUFFICES ASSUME PromptCommit PROVE Spec => []NumbersOK
  OBVIOUS
<1>1. Init => SavedOK /\ NextNumberFresh
  <2> SUFFICES ASSUME Init PROVE SavedOK /\ NextNumberFresh
    OBVIOUS
  <2>1. DOMAIN << >> = {}
    OBVIOUS
  <2> QED BY <2>1 DEF Init, SavedOK, NextNumberFresh
<1>2. NumbersOK /\ SessionOK' /\ [Next]_vars => NumbersOK'
  <2> SUFFICES ASSUME NumbersOK, SessionOK', [Next]_vars PROVE NumbersOK'
    OBVIOUS
  <2>1. SavedOK' /\ NextNumberFresh'
    BY NumbersStep, SeqAssumption
  <2> QED BY <2>1 DEF NumbersOK
<1>3. SessionOK /\ SavedOK /\ NextNumberFresh => NumbersOK
  BY DEF NumbersOK
<1> QED BY <1>1, <1>2, <1>3, SessionInvariant, PTL DEF Spec

\* No number is used twice since the last reset (session.py: _send,
\* _persist_seq_nums, load_session_state), however sends, resends, restarts and
\* crashes interleave, except after a crash that lost a send, or a stop() that
\* cancelled one between its number and the write that saves it.
THEOREM NumbersNeverReused == PromptCommit => (Spec => []NextNumberFresh)
<1> SUFFICES ASSUME PromptCommit PROVE Spec => []NextNumberFresh
  OBVIOUS
<1>1. NumbersOK => NextNumberFresh
  BY DEF NumbersOK
<1> QED BY <1>1, NumbersInvariant, PTL

\* With no write outstanding a crash loses no number and no reset, but what a
\* stop() that cancelled a send has lost already.
THEOREM SavedByTheLastWrite == PromptCommit => (Spec => []SavedWhenQuiet)
<1> SUFFICES ASSUME PromptCommit PROVE Spec => []SavedWhenQuiet
  OBVIOUS
<1>1. NumbersOK => SavedWhenQuiet
  <2> SUFFICES ASSUME NumbersOK, ~cut, queue = << >> PROVE db.tx = tx /\ db.epoch = epoch
    BY DEF SavedWhenQuiet
  <2>1. DOMAIN queue = {} /\ Len(queue) = 0
    OBVIOUS
  <2>2. LastWord(0) /\ ~ReaderSaving /\ ~Sending
    BY <2>1 DEF LastWord, ReaderSaving, Sending
  <2> QED BY <2>2 DEF NumbersOK, SessionOK, SavedOK, EraSaved, SameEra
<1> QED BY <1>1, NumbersInvariant, PTL

=============================================================================
