----------------------------- MODULE ReplayProofs -----------------------------
(***************************************************************************)
(* That the row of a replay job tells what its task did, and that nothing   *)
(* goes out of a task that was told to stop or to pause, for a log of any   *)
(* length, any callers, and any number of tasks, commands and reconnects.   *)
(*                                                                         *)
(* The row is written by the task and by the commands; what makes it true   *)
(* is who may write it when: while a start is under way nothing else is,    *)
(* one task is live, which is the newest, and who stops it waits for it.    *)
(***************************************************************************)
EXTENDS Replay, FiniteSetTheorems, TLAPS

\* Where a task can be: at rest in the loop, at work, at its end.
Loop == {"born", "next", "gate", "woken", "asleep", "paced gate", "paced woken"}
Closings == {"closing", "failing", "cancelled"}
Places == {"unborn"} \cup Loop \cup {"sending"} \cup Closings \cup {"over"}
Statuses == {"none", "loaded", "running", "paused", "completed", "stopped", "error"}
Ops == {"idle", "parse", "begin", "stopping", "deleting"}

\* How many messages a choice of way and types may come to.
Sizes == {0} \cup UNION {{Len(SelectMessages(way, types)) : types \in SUBSET Types} : way \in Ways \cup {""}}

Jobs == [there : BOOLEAN, status : Statuses, sent : Nat, selected : Sizes,
         types : SUBSET Types, way : Ways \cup {""}]
ReplayTasks == [pc : Places, total : Sizes, sent : Nat, out : Nat, stopped : BOOLEAN, held : BOOLEAN]
Calls == [op : Ops, of : Tasks \cup {None}, way : Ways \cup {""}, types : SUBSET Types, size : Sizes]

TypeOK ==
    /\ job \in Jobs /\ playing \in Tasks \cup {None}
    /\ task \in [Tasks -> ReplayTasks] /\ call \in [Callers -> Calls]
    /\ active \in BOOLEAN /\ given \in Nat /\ drops \in Nat /\ clean \in BOOLEAN

Born(t) == task[t].pc # "unborn"

\* Tasks are born in order, and what is not born has nothing.
BirthsOK ==
    /\ \E n \in 0 .. MaxTasks : \A t \in Tasks : Born(t) <=> t <= n
    /\ \A t \in Tasks : ~Born(t) => task[t] = NoTask

Newest(t) == Born(t) /\ \A u \in Tasks : u > t => ~Born(u)

\* A message is on the wire and not counted only of a task that was caught sending.
CountsOK ==
    \A t \in Tasks :
        /\ task[t].out \in {task[t].sent, task[t].sent + 1}
        /\ task[t].pc \in Loop \cup {"closing"} => task[t].out = task[t].sent
        /\ task[t].pc = "sending" => task[t].out = task[t].sent + 1
        /\ task[t].pc = "born" => task[t].sent = 0

\* Who stops a task waits until it is over.
Awaited(t) == \E c \in Callers : call[c].op \in {"stopping", "deleting"} /\ call[c].of = t
StopsOK ==
    /\ \A t \in Tasks : task[t].stopped /\ Live(t) => Awaited(t)
    /\ \A c \in Callers : call[c].op = "stopping" => call[c].of # None

\* One task is live at a time, the newest, and it plays unless it is being stopped.
OneLive ==
    \A t \in Tasks : Live(t) => Newest(t) /\ (t = playing \/ task[t].stopped)

\* A start is alone.
StartsAlone ==
    \A c \in Starting : /\ \A d \in Callers \ {c} : call[d].op = "idle"
                        /\ \A t \in Tasks : ~Live(t)

\* Who stops or deletes does so to the newest task, and what plays is the newest.
AboutNewest == \A t \in Tasks : t = playing \/ Awaited(t) => Newest(t)

\* A job that was loaded has a status.
LoadedOK ==
    (job.there \/ (\E t \in Tasks : Born(t)) \/ Starting # {}) => job.status # "none"

\* What the row says of the newest task.
Tells(t) ==
    /\ job.selected = task[t].total
    /\ task[t].pc \in {"born", "over"} \cup Closings => job.sent = task[t].sent
    /\ task[t].pc = "closing" => job.status \in {"completed", "error"}
    /\ task[t].pc = "failing" => job.status = "error"
    /\ task[t].pc = "cancelled" => job.status = "stopped"
    /\ task[t].pc = "over" => job.status \in {"completed", "stopped", "error"} \/ Awaited(t)
    /\ job.status = "paused" => task[t].held \/ Awaited(t)
    /\ job.status = "completed" => /\ task[t].pc \in {"closing", "over"}
                                   /\ task[t].sent = task[t].total /\ task[t].out = task[t].sent

\* The row tells of the newest task; between the choice of messages and the birth
\* of their task, of the one to come.
RowOK ==
    job.there =>
        /\ (\A c \in Callers : call[c].op # "begin") => \A t \in Tasks : Newest(t) => Tells(t)
        /\ \A c \in Callers : call[c].op = "begin" =>
              job.status = "running" /\ job.sent = 0 /\ job.selected = call[c].size

CleanInv == OneLive /\ StartsAlone /\ RowOK

IInv == TypeOK /\ BirthsOK /\ CountsOK /\ StopsOK /\ LoadedOK /\ (clean => AboutNewest /\ CleanInv)

-----------------------------------------------------------------------------
(* Facts about the steps.                                                   *)

LEMMA BoundFacts == MaxTasks \in Nat /\ \A u \in Tasks : u \in Int /\ u # None
  BY ReplayAssumption DEF Tasks, None

LEMMA SizesFacts ==
  ASSUME NEW way \in Ways \cup {""}, NEW types \in SUBSET Types
  PROVE  Len(SelectMessages(way, types)) \in Sizes
<1> DEFINE Of(w) == {Len(SelectMessages(w, ts)) : ts \in SUBSET Types}
<1>1. Len(SelectMessages(way, types)) \in Of(way)
  OBVIOUS
<1>2. Of(way) \in {Of(w) : w \in Ways \cup {""}}
  OBVIOUS
<1>3. Sizes = {0} \cup UNION {Of(w) : w \in Ways \cup {""}}
  BY DEF Sizes
<1> HIDE DEF Of
<1> QED
  BY <1>1, <1>2, <1>3

\* A report changes the status and the count of a row that is there.
LEMMA ReportFacts ==
  ASSUME TypeOK, NEW t \in Tasks, task'[t].sent \in Nat, NEW said \in Statuses, Report(t, said)
  PROVE  /\ job' \in Jobs /\ job'.there = job.there /\ job'.selected = job.selected
         /\ job.there => job'.status = said /\ job'.sent = task'[t].sent
         /\ job.there \/ job' = job
  BY DEF TypeOK, Jobs, Report

\* What a step of a task does to it, and says to the row: nothing ("") or a status.
Counts(t, sent, out) == task'[t].sent = task[t].sent + sent /\ task'[t].out = task[t].out + out
MaySend(t) ==
    /\ task[t].pc \in Loop /\ ~task[t].stopped
    /\ task[t].held => task[t].pc \in {"woken", "paced woken"}
Moved(t, said) ==
    LET before == task[t].pc
        after == task'[t].pc
    IN  \/ before \in Loop \ {"born"} /\ after \in Loop \ {"born"} /\ Counts(t, 0, 0) /\ said = ""
        \/ before \in Loop /\ after = "sending" /\ Counts(t, 0, 1) /\ said = ""
           /\ MaySend(t)
        \/ before \in Loop /\ after \in {"failing", "closing"} /\ Counts(t, 0, 0) /\ said = "error"
        \/ before \in Loop /\ after = "closing" /\ Counts(t, 0, 0) /\ said = "completed"
           /\ task[t].sent = task[t].total
        \/ before = "born" /\ after = "next" /\ Counts(t, 0, 0) /\ said = "running"
        \/ before = "sending" /\ after = "next" /\ Counts(t, 1, 0) /\ said \in {"", "running"}
        \/ before = "sending" /\ after = "failing" /\ Counts(t, 0, 0) /\ said = "error"
        \/ before \in {"born", "failing"} /\ after = "over" /\ Counts(t, 0, 0) /\ said = "" /\ task[t].stopped
        \/ after = "cancelled" /\ Counts(t, 0, 0) /\ said = "stopped" /\ task[t].stopped
        \/ before \in Closings /\ after = "over" /\ Counts(t, 0, 0) /\ said = ""

Says(t, said) == Moved(t, said) /\ IF said = "" THEN job' = job ELSE Report(t, said)
Speaks(t) == \E said \in Statuses \cup {""} : Says(t, said)

\* A step of a task is a step of that task alone.
Alone(t) ==
    /\ task' \in [Tasks -> ReplayTasks] /\ \A u \in Tasks \ {t} : task'[u] = task[u]
    /\ task'[t].total = task[t].total /\ task'[t].stopped = task[t].stopped /\ task'[t].held = task[t].held

LEMMA SpeaksFacts ==
  ASSUME NEW t \in Tasks, NEW said \in Statuses \cup {""}, Moved(t, said),
         IF said = "" THEN job' = job ELSE Report(t, said)
  PROVE  Speaks(t)
  BY DEF Speaks, Says

LEMMA GoesFacts ==
  ASSUME TypeOK, NEW t \in Tasks, NEW pc \in Places, Goes(t, pc)
  PROVE  Alone(t) /\ task'[t].pc = pc /\ Counts(t, 0, 0)
<1>1. task[t] \in ReplayTasks /\ task' = [task EXCEPT ![t] = [task[t] EXCEPT !.pc = pc]]
  BY DEF TypeOK, Goes
<1>2. [task[t] EXCEPT !.pc = pc] \in ReplayTasks
  BY <1>1 DEF ReplayTasks
<1>3. task' \in [Tasks -> ReplayTasks] /\ (\A u \in Tasks \ {t} : task'[u] = task[u])
      /\ task'[t] = [task[t] EXCEPT !.pc = pc]
  BY <1>1, <1>2 DEF TypeOK
<1> QED
  BY <1>1, <1>3 DEF Alone, Counts, ReplayTasks

\* A message put on the wire, and one counted.
LEMMA SendingTask ==
  ASSUME NEW x \in ReplayTasks
  PROVE  LET r == [x EXCEPT !.pc = "sending", !.out = @ + 1] IN
         /\ r \in ReplayTasks /\ r.pc = "sending" /\ r.out = x.out + 1 /\ r.sent = x.sent
         /\ r.total = x.total /\ r.stopped = x.stopped /\ r.held = x.held
<1> DEFINE n == x.out + 1
<1>1. n \in Nat
  BY DEF ReplayTasks
<1>4. "sending" \in Places
  BY DEF Places
<1> HIDE DEF n
<1>2. [x EXCEPT !.pc = "sending", !.out = n] \in ReplayTasks
  BY <1>1, <1>4 DEF ReplayTasks
<1>3. LET r == [x EXCEPT !.pc = "sending", !.out = n] IN
      r.pc = "sending" /\ r.out = n /\ r.sent = x.sent /\ r.total = x.total /\ r.stopped = x.stopped /\ r.held = x.held
  BY <1>1, <1>4 DEF ReplayTasks
<1> QED
  BY <1>2, <1>3 DEF n

LEMMA CountsPut ==
  ASSUME NEW t \in Tasks, NEW r, NEW sent \in Nat, NEW out \in Nat, task'[t] = r,
         r.sent = task[t].sent + sent, r.out = task[t].out + out
  PROVE  Counts(t, sent, out)
  BY DEF Counts

LEMMA SentTask ==
  ASSUME NEW x \in ReplayTasks
  PROVE  LET r == [x EXCEPT !.pc = "next", !.sent = @ + 1] IN
         /\ r \in ReplayTasks /\ r.pc = "next" /\ r.sent = x.sent + 1 /\ r.out = x.out
         /\ r.total = x.total /\ r.stopped = x.stopped /\ r.held = x.held
<1> DEFINE n == x.sent + 1
<1>1. n \in Nat
  BY DEF ReplayTasks
<1>4. "next" \in Places
  BY DEF Places, Loop
<1> HIDE DEF n
<1>2. [x EXCEPT !.pc = "next", !.sent = n] \in ReplayTasks
  BY <1>1, <1>4 DEF ReplayTasks
<1>3. LET r == [x EXCEPT !.pc = "next", !.sent = n] IN
      r.pc = "next" /\ r.sent = n /\ r.out = x.out /\ r.total = x.total /\ r.stopped = x.stopped /\ r.held = x.held
  BY <1>1, <1>4 DEF ReplayTasks
<1> QED
  BY <1>2, <1>3 DEF n

LEMMA SendFacts ==
  ASSUME TypeOK, NEW t \in Tasks, Send(t), MaySend(t)
  PROVE  Alone(t) /\ Speaks(t)
<1>1. CASE task' = [task EXCEPT ![t].pc = "sending", ![t].out = @ + 1] /\ job' = job
  <2> DEFINE r == [task[t] EXCEPT !.pc = "sending", !.out = @ + 1]
  <2>1. task[t] \in ReplayTasks /\ task' = [task EXCEPT ![t] = r]
    BY <1>1 DEF TypeOK
  <2>2. /\ r \in ReplayTasks /\ r.pc = "sending" /\ r.out = task[t].out + 1 /\ r.sent = task[t].sent
        /\ r.total = task[t].total /\ r.stopped = task[t].stopped /\ r.held = task[t].held
    BY <2>1, SendingTask
  <2> HIDE DEF r
  <2>3. task' \in [Tasks -> ReplayTasks] /\ (\A u \in Tasks \ {t} : task'[u] = task[u]) /\ task'[t] = r
    BY <2>1, <2>2 DEF TypeOK
  <2>8. task[t].sent \in Nat /\ task[t].out \in Nat
    BY <2>1 DEF ReplayTasks
  <2>9. Alone(t)
    BY <2>2, <2>3 DEF Alone
  <2>10. task'[t] = r
    BY <2>3
  <2>12. r.out = task[t].out + 1 /\ r.sent = task[t].sent
    BY <2>2
  <2>11. Counts(t, 0, 1)
    BY <2>8, <2>10, <2>12, CountsPut
  <2>4. Alone(t) /\ task'[t].pc = "sending" /\ Counts(t, 0, 1)
    BY <2>2, <2>9, <2>10, <2>11
  <2>5. Moved(t, "")
    BY <2>4 DEF Moved, MaySend
  <2> QED
    BY <1>1, <2>4, <2>5, SpeaksFacts
<1>2. CASE Goes(t, "failing") /\ Report(t, "error")
  <2>1. Alone(t) /\ task'[t].pc = "failing" /\ Counts(t, 0, 0)
    BY <1>2, GoesFacts DEF Places, Closings
  <2>2. Moved(t, "error")
    BY <2>1 DEF Moved, MaySend
  <2> QED
    BY <1>2, <2>1, <2>2, SpeaksFacts DEF Statuses
<1>3. CASE Goes(t, "closing") /\ Report(t, "error")
  <2>1. Alone(t) /\ task'[t].pc = "closing" /\ Counts(t, 0, 0)
    BY <1>3, GoesFacts DEF Places, Closings
  <2>2. Moved(t, "error")
    BY <2>1 DEF Moved, MaySend
  <2> QED
    BY <1>3, <2>1, <2>2, SpeaksFacts DEF Statuses
<1> QED
  BY <1>1, <1>2, <1>3 DEF Send

\* What a task does in a step.
LEMMA TaskMoves ==
  ASSUME TypeOK, NEW t \in Tasks, Runs(t) \/ SendFails(t)
  PROVE  Live(t) /\ Alone(t) /\ Speaks(t) /\ UNCHANGED << playing, call, active, given, drops, clean >>
<1>1. CASE Begin(t)
  <2>1. Goes(t, "next") /\ Report(t, "running") /\ task[t].pc = "born" /\ UNCHANGED << playing, call, active, given, drops, clean >>
    BY <1>1 DEF Begin
  <2>2. Alone(t) /\ task'[t].pc = "next" /\ Counts(t, 0, 0)
    BY <2>1, GoesFacts DEF Places, Loop, Closings
  <2>3. Moved(t, "running")
    BY <2>1, <2>2 DEF Moved, Loop, Closings
  <2> QED
    BY <2>1, <2>2, <2>3, SpeaksFacts DEF Live, Statuses, Closings
<1>2. ASSUME Pace(t), task[t].pc \in {"next", "woken"}, UNCHANGED << playing, call, active, given, drops, clean >>
      PROVE  Live(t) /\ Alone(t) /\ Speaks(t)
  <2>1. Goes(t, "asleep") /\ job' = job /\ task[t].pc \in {"next", "woken"} /\ UNCHANGED << playing, call, active, given, drops, clean >>
    BY <1>2 DEF Pace
  <2>2. Alone(t) /\ task'[t].pc = "asleep" /\ Counts(t, 0, 0)
    BY <2>1, GoesFacts DEF Places, Loop, Closings
  <2>3. Moved(t, "")
    BY <2>1, <2>2 DEF Moved, Loop, Closings
  <2> QED
    BY <2>1, <2>2, <2>3, SpeaksFacts DEF Live, Statuses, Closings
<1>3. CASE TakeNext(t) /\ task[t].sent = task[t].total
  <2>1. Goes(t, "closing") /\ Report(t, "completed") /\ task[t].pc = "next" /\ task[t].sent = task[t].total /\ UNCHANGED << playing, call, active, given, drops, clean >>
    BY <1>3 DEF TakeNext
  <2>2. Alone(t) /\ task'[t].pc = "closing" /\ Counts(t, 0, 0)
    BY <2>1, GoesFacts DEF Places, Loop, Closings
  <2>3. Moved(t, "completed")
    BY <2>1, <2>2 DEF Moved, Loop, Closings
  <2> QED
    BY <2>1, <2>2, <2>3, SpeaksFacts DEF Live, Statuses, Closings
<1>4. CASE TakeNext(t) /\ task[t].sent # task[t].total /\ task[t].held
  <2>1. Goes(t, "gate") /\ job' = job /\ task[t].pc = "next" /\ UNCHANGED << playing, call, active, given, drops, clean >>
    BY <1>4 DEF TakeNext
  <2>2. Alone(t) /\ task'[t].pc = "gate" /\ Counts(t, 0, 0)
    BY <2>1, GoesFacts DEF Places, Loop, Closings
  <2>3. Moved(t, "")
    BY <2>1, <2>2 DEF Moved, Loop, Closings
  <2> QED
    BY <2>1, <2>2, <2>3, SpeaksFacts DEF Live, Statuses, Closings
<1>5. CASE TakeNext(t) /\ task[t].sent # task[t].total /\ ~task[t].held
  <2>1. task[t].pc = "next" /\ ~task[t].stopped /\ (Send(t) \/ Pace(t)) /\ UNCHANGED << playing, call, active, given, drops, clean >>
    BY <1>5 DEF TakeNext
  <2>2. Send(t) => Alone(t) /\ Speaks(t)
    BY <2>1, <1>5, SendFacts DEF MaySend, Loop
  <2> QED
    BY <2>1, <2>2, <1>2 DEF Live
<1>6. CASE PassGate(t)
  <2>1. task[t].pc = "woken" /\ ~task[t].stopped /\ (Send(t) \/ Pace(t)) /\ UNCHANGED << playing, call, active, given, drops, clean >>
    BY <1>6 DEF PassGate
  <2>2. Send(t) => Alone(t) /\ Speaks(t)
    BY <2>1, SendFacts DEF MaySend, Loop
  <2> QED
    BY <2>1, <2>2, <1>2 DEF Live
<1>7. CASE WakeUp(t) /\ task[t].held
  <2>1. Goes(t, "paced gate") /\ job' = job /\ task[t].pc = "asleep" /\ UNCHANGED << playing, call, active, given, drops, clean >>
    BY <1>7 DEF WakeUp
  <2>2. Alone(t) /\ task'[t].pc = "paced gate" /\ Counts(t, 0, 0)
    BY <2>1, GoesFacts DEF Places, Loop, Closings
  <2>3. Moved(t, "")
    BY <2>1, <2>2 DEF Moved, Loop, Closings
  <2> QED
    BY <2>1, <2>2, <2>3, SpeaksFacts DEF Live, Statuses, Closings
<1>8. CASE WakeUp(t) /\ ~task[t].held
  <2>1. task[t].pc = "asleep" /\ ~task[t].stopped /\ Send(t) /\ UNCHANGED << playing, call, active, given, drops, clean >>
    BY <1>8 DEF WakeUp
  <2>2. Alone(t) /\ Speaks(t)
    BY <2>1, <1>8, SendFacts DEF MaySend, Loop
  <2> QED
    BY <2>1, <2>2 DEF Live
<1>9. CASE PassPacedGate(t)
  <2>1. task[t].pc = "paced woken" /\ ~task[t].stopped /\ Send(t) /\ UNCHANGED << playing, call, active, given, drops, clean >>
    BY <1>9 DEF PassPacedGate
  <2>2. Alone(t) /\ Speaks(t)
    BY <2>1, SendFacts DEF MaySend, Loop
  <2> QED
    BY <2>1, <2>2 DEF Live
<1>10. CASE Sent(t)
  <2> DEFINE r == [task[t] EXCEPT !.pc = "next", !.sent = @ + 1]
  <2>1. task[t] \in ReplayTasks /\ task' = [task EXCEPT ![t] = r] /\ task[t].pc = "sending"
    BY <1>10 DEF Sent, TypeOK
  <2>2. /\ r \in ReplayTasks /\ r.pc = "next" /\ r.sent = task[t].sent + 1 /\ r.out = task[t].out
        /\ r.total = task[t].total /\ r.stopped = task[t].stopped /\ r.held = task[t].held
    BY <2>1, SentTask
  <2> HIDE DEF r
  <2>3. task' \in [Tasks -> ReplayTasks] /\ (\A u \in Tasks \ {t} : task'[u] = task[u]) /\ task'[t] = r
    BY <2>1, <2>2 DEF TypeOK
  <2>8. task[t].sent \in Nat /\ task[t].out \in Nat
    BY <2>1 DEF ReplayTasks
  <2>9. Alone(t)
    BY <2>2, <2>3 DEF Alone
  <2>10. task'[t] = r
    BY <2>3
  <2>12. r.sent = task[t].sent + 1 /\ r.out = task[t].out
    BY <2>2
  <2>11. Counts(t, 1, 0)
    BY <2>8, <2>10, <2>12, CountsPut
  <2>4. Alone(t) /\ task'[t].pc = "next" /\ Counts(t, 1, 0)
    BY <2>2, <2>9, <2>10, <2>11
  <2>5. Moved(t, "") /\ Moved(t, "running")
    BY <2>1, <2>4 DEF Moved
  <2>6. Speaks(t)
    <3>1. CASE Report(t, "running")
      BY <2>5, <3>1, SpeaksFacts DEF Statuses
    <3>2. CASE job' = job
      BY <2>5, <3>2, SpeaksFacts
    <3> QED
      BY <3>1, <3>2, <1>10 DEF Sent
  <2> QED
    BY <2>1, <2>4, <2>6, <1>10 DEF Sent, Live
<1>11. CASE SendFails(t)
  <2>1. Goes(t, "failing") /\ Report(t, "error") /\ task[t].pc = "sending" /\ UNCHANGED << playing, call, active, given, drops, clean >>
    BY <1>11 DEF SendFails
  <2>2. Alone(t) /\ task'[t].pc = "failing" /\ Counts(t, 0, 0)
    BY <2>1, GoesFacts DEF Places, Loop, Closings
  <2>3. Moved(t, "error")
    BY <2>1, <2>2 DEF Moved, Loop, Closings
  <2> QED
    BY <2>1, <2>2, <2>3, SpeaksFacts DEF Live, Statuses, Closings
<1>12. CASE Cancelled(t) /\ task[t].pc \in {"born", "failing"}
  <2>1. Goes(t, "over") /\ job' = job /\ task[t].pc \in {"born", "failing"} /\ task[t].stopped /\ UNCHANGED << playing, call, active, given, drops, clean >>
    BY <1>12 DEF Cancelled
  <2>2. Alone(t) /\ task'[t].pc = "over" /\ Counts(t, 0, 0)
    BY <2>1, GoesFacts DEF Places, Loop, Closings
  <2>3. Moved(t, "")
    BY <2>1, <2>2 DEF Moved, Loop, Closings
  <2> QED
    BY <2>1, <2>2, <2>3, SpeaksFacts DEF Live, Statuses, Closings
<1>13. CASE Cancelled(t) /\ task[t].pc \notin {"born", "failing"}
  <2>1. Goes(t, "cancelled") /\ Report(t, "stopped") /\ Live(t) /\ task[t].stopped /\ UNCHANGED << playing, call, active, given, drops, clean >>
    BY <1>13 DEF Cancelled
  <2>2. Alone(t) /\ task'[t].pc = "cancelled" /\ Counts(t, 0, 0)
    BY <2>1, GoesFacts DEF Places, Loop, Closings
  <2>3. Moved(t, "stopped")
    BY <2>1, <2>2 DEF Moved, Loop, Closings
  <2> QED
    BY <2>1, <2>2, <2>3, SpeaksFacts DEF Live, Statuses, Closings
<1>14. CASE Over(t)
  <2>1. Goes(t, "over") /\ job' = job /\ task[t].pc \in Closings /\ UNCHANGED << playing, call, active, given, drops, clean >>
    BY <1>14 DEF Over, Ending, Closings
  <2>2. Alone(t) /\ task'[t].pc = "over" /\ Counts(t, 0, 0)
    BY <2>1, GoesFacts DEF Places, Loop, Closings
  <2>3. Moved(t, "")
    BY <2>1, <2>2 DEF Moved, Loop, Closings
  <2> QED
    BY <2>1, <2>2, <2>3, SpeaksFacts DEF Live, Statuses, Closings
<1> QED
  BY <1>1, <1>3, <1>4, <1>5, <1>6, <1>7, <1>8, <1>9, <1>10, <1>11, <1>12, <1>13, <1>14 DEF Runs

\* A step of a task that is live leaves the others, born and unborn, as they are.
LEMMA BornFacts ==
  ASSUME \A u \in Tasks : Born(u)' <=> Born(u)
  PROVE  \A u \in Tasks : Newest(u)' <=> Newest(u)
  BY DEF Newest

LEMMA BirthsStay ==
  ASSUME BirthsOK, \A u \in Tasks : Born(u)' <=> Born(u), \A u \in Tasks : ~Born(u) => task'[u] = task[u]
  PROVE  BirthsOK'
<1>1. PICK n \in 0 .. MaxTasks : \A t \in Tasks : Born(t) <=> t <= n
  BY DEF BirthsOK
<1>2. \A t \in Tasks : Born(t)' <=> t <= n
  BY <1>1
<1>3. \A t \in Tasks : ~Born(t)' => task'[t] = NoTask
  BY DEF BirthsOK
<1> QED
  BY <1>1, <1>2, <1>3 DEF BirthsOK

LEMMA MovedFacts ==
  ASSUME TypeOK, NEW t \in Tasks, NEW said, Moved(t, said), Live(t)
  PROVE  /\ task[t].pc # "unborn" /\ task'[t].pc # "unborn"
         /\ task[t].sent \in Nat /\ task[t].out \in Nat
         /\ said \in {"", "running", "completed", "error", "stopped"}
<1>1. task[t].pc # "unborn" /\ task'[t].pc # "unborn" /\ said \in {"", "running", "completed", "error", "stopped"}
  BY DEF Moved, Live, Loop
<1>2. task[t] \in ReplayTasks
  BY DEF TypeOK
<1> QED
  BY <1>1, <1>2 DEF ReplayTasks

LEMMA TaskKeepsCounts ==
  ASSUME TypeOK, CountsOK, NEW t \in Tasks, NEW said, Moved(t, said), Alone(t), Live(t)
  PROVE  CountsOK'
<1> SUFFICES ASSUME NEW u \in Tasks
             PROVE  /\ task'[u].out \in {task'[u].sent, task'[u].sent + 1}
                    /\ task'[u].pc \in Loop \cup {"closing"} => task'[u].out = task'[u].sent
                    /\ task'[u].pc = "sending" => task'[u].out = task'[u].sent + 1
                    /\ task'[u].pc = "born" => task'[u].sent = 0
  BY DEF CountsOK
<1>1. CASE u # t
  <2>1. task'[u] = task[u]
    BY <1>1 DEF Alone
  <2> QED
    BY <2>1 DEF CountsOK
<1>2. CASE u = t
  <2> DEFINE a == task[t].sent
             b == task[t].out
             c == task'[t].sent
             d == task'[t].out
             p == task[t].pc
             q == task'[t].pc
  <2>1. a \in Nat /\ b \in Nat /\ b \in {a, a + 1}
    BY MovedFacts DEF CountsOK
  <2>2. p \in Loop => b = a
    BY DEF CountsOK
  <2>3. p = "sending" => b = a + 1
    BY DEF CountsOK
  <2>4. p = "closing" => b = a
    BY DEF CountsOK
  <2>5. \/ p \in Loop /\ q \in Loop \ {"born"} /\ c = a + 0 /\ d = b + 0
        \/ p \in Loop /\ q = "sending" /\ c = a + 0 /\ d = b + 1
        \/ p \in Loop /\ q \in {"failing", "closing"} /\ c = a + 0 /\ d = b + 0
        \/ p = "sending" /\ q = "next" /\ c = a + 1 /\ d = b + 0
        \/ q \in {"failing", "over", "cancelled"} /\ c = a + 0 /\ d = b + 0
    BY DEF Moved, Counts, Loop, Closings
  <2> HIDE DEF a, b, c, d, p, q
  <2>6. /\ d \in {c, c + 1}
        /\ q \in Loop \cup {"closing"} => d = c
        /\ q = "sending" => d = c + 1
        /\ q # "born"
    <3>1. CASE p \in Loop /\ q \in Loop \ {"born"} /\ c = a + 0 /\ d = b + 0
      BY <2>1, <2>2, <3>1 DEF Loop
    <3>2. CASE p \in Loop /\ q = "sending" /\ c = a + 0 /\ d = b + 1
      <4>1. c = a /\ d = a + 1
        BY <2>1, <2>2, <3>2
      <4>2. q = "sending" /\ q \notin Loop \cup {"closing", "born"}
        BY <3>2 DEF Loop
      <4> QED
        BY <4>1, <4>2
    <3>3. CASE p \in Loop /\ q \in {"failing", "closing"} /\ c = a + 0 /\ d = b + 0
      BY <2>1, <2>2, <3>3 DEF Loop
    <3>4. CASE p = "sending" /\ q = "next" /\ c = a + 1 /\ d = b + 0
      <4>1. c = a + 1 /\ d = a + 1
        BY <2>1, <2>3, <3>4
      <4>2. q # "sending" /\ q # "born"
        BY <3>4
      <4> QED
        BY <2>1, <4>1, <4>2
    <3>5. CASE q \in {"failing", "over", "cancelled"} /\ c = a + 0 /\ d = b + 0
      <4>1. d \in {c, c + 1}
        BY <2>1, <3>5
      <4>2. q \notin Loop \cup {"closing", "born", "sending"}
        BY <3>5 DEF Loop
      <4> QED
        BY <4>1, <4>2 DEF Loop
    <3> QED
      BY <2>5, <3>1, <3>2, <3>3, <3>4, <3>5
  <2> QED
    BY <1>2, <2>6 DEF c, d, q
<1> QED
  BY <1>1, <1>2

LEMMA OneNewest ==
  ASSUME NEW t \in Tasks, NEW u \in Tasks, Newest(t), Newest(u)
  PROVE  t = u
<1>1. t \in Int /\ u \in Int /\ ~(u > t) /\ ~(t > u)
  BY ReplayAssumption DEF Newest, Tasks
<1> QED
  BY <1>1

\* What a task says keeps the row in its type, and is never that it is paused.
LEMMA SaysFacts ==
  ASSUME TypeOK, NEW t \in Tasks, NEW said, Says(t, said), Live(t), Alone(t)
  PROVE  /\ job' \in Jobs /\ job'.there = job.there /\ job'.selected = job.selected
         /\ (job' = job) \/ (said # "" /\ job'.status = said /\ job'.sent = task'[t].sent)
         /\ job.there => IF said = "" THEN job' = job ELSE job'.status = said /\ job'.sent = task'[t].sent
         /\ said \in {"", "running", "completed", "error", "stopped"}
<1>1. said \in {"", "running", "completed", "error", "stopped"}
  BY MovedFacts DEF Says
<1>2. task'[t].sent \in Nat
  BY DEF Alone, ReplayTasks
<1>3. CASE said = ""
  BY <1>1, <1>3 DEF Says, TypeOK
<1>4. CASE said # ""
  <2>1. Report(t, said) /\ said \in Statuses
    BY <1>1, <1>4 DEF Says, Statuses
  <2>2. /\ job' \in Jobs /\ job'.there = job.there /\ job'.selected = job.selected
        /\ job.there => job'.status = said /\ job'.sent = task'[t].sent
        /\ job.there \/ job' = job
    BY <1>2, <2>1, ReportFacts
  <2> QED
    BY <1>1, <1>4, <2>2
<1> QED
  BY <1>3, <1>4

\* The row goes on telling of the newest task when that task takes a step.
LEMMA TaskKeepsTelling ==
  ASSUME TypeOK, CountsOK, StopsOK, NEW t \in Tasks, NEW said, Says(t, said), Live(t), Alone(t),
         CountsOK', UNCHANGED call, job.there, Tells(t)
  PROVE  Tells(t)'
<1> DEFINE p == task[t].pc
           q == task'[t].pc
<1>1. Moved(t, said) /\ job'.selected = job.selected
      /\ (said = "" => job' = job)
      /\ (said # "" => job'.status = said /\ job'.sent = task'[t].sent)
      /\ said \in {"", "running", "completed", "error", "stopped"}
  BY SaysFacts DEF Says
<1>2. job'.selected = task'[t].total
  BY <1>1 DEF Tells, Alone
<1>3. Awaited(t)' <=> Awaited(t)
  BY DEF Awaited
<1>4. /\ task'[t].stopped = task[t].stopped /\ task'[t].held = task[t].held
      /\ task'[t].total = task[t].total
  BY DEF Alone
<1>5. task[t].sent \in Nat /\ task[t].out \in Nat
  BY DEF TypeOK, ReplayTasks
<1>6. Counts(t, 0, 0) => task'[t].sent = task[t].sent /\ task'[t].out = task[t].out
  BY <1>5 DEF Counts
<1>7. q \in {"born", "over"} \cup Closings => job'.sent = task'[t].sent
  <2>1. CASE said # ""
    BY <1>1, <2>1
  <2>2. CASE said = "" /\ q \in {"born", "over"} \cup Closings
    <3>1. p \in {"born"} \cup Closings /\ q = "over" /\ Counts(t, 0, 0)
      BY <1>1, <2>2 DEF Moved, Loop, Closings
    <3>2. job.sent = task[t].sent
      BY <3>1 DEF Tells
    <3> QED
      BY <1>1, <1>6, <2>2, <3>1, <3>2
  <2> QED
    BY <2>1, <2>2
<1>8. /\ q = "closing" => job'.status \in {"completed", "error"}
      /\ q = "failing" => job'.status = "error"
      /\ q = "cancelled" => job'.status = "stopped"
  BY <1>1 DEF Moved, Loop, Closings
<1>9. q = "over" => job'.status \in {"completed", "stopped", "error"} \/ Awaited(t)'
  <2> SUFFICES ASSUME q = "over"
               PROVE  job'.status \in {"completed", "stopped", "error"} \/ Awaited(t)
    BY <1>3
  <2>1. said = "" /\ (p \in Closings \/ task[t].stopped)
    BY <1>1 DEF Moved, Loop, Closings
  <2>2. CASE task[t].stopped
    BY <2>2 DEF StopsOK
  <2>3. CASE p \in Closings
    BY <1>1, <2>1, <2>3 DEF Tells, Closings
  <2> QED
    BY <2>1, <2>2, <2>3
<1>10. job'.status = "paused" => task'[t].held \/ Awaited(t)'
  BY <1>1, <1>3, <1>4 DEF Tells
<1>11. ASSUME job'.status = "completed"
       PROVE  q \in {"closing", "over"} /\ task'[t].sent = task'[t].total /\ task'[t].out = task'[t].sent
  <2>1. CASE said = "completed"
    <3>1. q = "closing" /\ Counts(t, 0, 0) /\ task[t].sent = task[t].total
      BY <1>1, <2>1 DEF Moved
    <3>2. task'[t].out = task'[t].sent
      BY <3>1 DEF CountsOK, Loop
    <3> QED
      BY <1>4, <1>6, <3>1, <3>2
  <2>2. CASE said = ""
    <3>1. p \in {"closing", "over"} /\ task[t].sent = task[t].total /\ task[t].out = task[t].sent
      BY <1>1, <1>11, <2>2 DEF Tells
    <3>2. p = "closing"
      BY <3>1 DEF Live
    <3>3. q = "over" /\ Counts(t, 0, 0)
      BY <1>1, <2>2, <3>2 DEF Moved, Loop, Closings
    <3> QED
      BY <1>4, <1>6, <3>1, <3>3
  <2> QED
    BY <1>1, <1>11, <2>1, <2>2
<1> HIDE DEF p, q
<1> QED
  BY <1>2, <1>7, <1>8, <1>9, <1>10, <1>11 DEF Tells, p, q

LEMMA TaskStep ==
  ASSUME IInv, NEW t \in Tasks, Runs(t) \/ SendFails(t)
  PROVE  IInv'
<1>1. TypeOK /\ BirthsOK /\ CountsOK /\ StopsOK /\ LoadedOK
  BY DEF IInv
<1>2. Live(t) /\ Alone(t) /\ Speaks(t) /\ playing' = playing /\ call' = call
      /\ UNCHANGED << active, given, drops, clean >>
  BY <1>1, TaskMoves
<1>3. PICK said : Says(t, said)
  BY <1>2 DEF Speaks
<1>4. /\ job' \in Jobs /\ job'.there = job.there /\ job'.selected = job.selected
      /\ (job' = job) \/ (said # "" /\ job'.status = said /\ job'.sent = task'[t].sent)
      /\ said \in {"", "running", "completed", "error", "stopped"}
  BY <1>1, <1>2, <1>3, SaysFacts
<1>5. /\ \A u \in Tasks : Born(u)' <=> Born(u)
      /\ \A u \in Tasks : ~Born(u) => task'[u] = task[u]
  <2>1. task[t].pc # "unborn" /\ task'[t].pc # "unborn"
    BY <1>1, <1>2, <1>3, MovedFacts DEF Says
  <2> QED
    BY <2>1, <1>2 DEF Alone, Born
<1>6. \A u \in Tasks : Newest(u)' <=> Newest(u)
  BY <1>5, BornFacts
<1>7. \A u \in Tasks : Awaited(u)' <=> Awaited(u)
  BY <1>2 DEF Awaited
<1>8. Starting' = Starting
  BY <1>2 DEF Starting
<1>9. \A u \in Tasks : Live(u)' => Live(u)
  BY <1>2 DEF Alone, Live
<1>10. TypeOK'
  BY <1>1, <1>2, <1>4 DEF TypeOK, Alone
<1>11. BirthsOK'
  BY <1>1, <1>5, BirthsStay
<1>12. CountsOK'
  BY <1>1, <1>2, <1>3, TaskKeepsCounts DEF Says
<1>13. StopsOK'
  BY <1>1, <1>2, <1>7, <1>9 DEF StopsOK, Alone
<1>14. LoadedOK'
  BY <1>1, <1>4, <1>5, <1>8 DEF LoadedOK
<1>15. ASSUME clean
       PROVE  AboutNewest' /\ CleanInv'
  <2>1. AboutNewest /\ OneLive /\ StartsAlone /\ RowOK
    BY <1>15 DEF IInv, CleanInv
  <2>2. AboutNewest'
    BY <1>2, <1>6, <1>7, <2>1 DEF AboutNewest
  <2>3. OneLive'
    BY <1>2, <1>6, <1>9, <2>1 DEF OneLive, Alone
  <2>4. Starting = {}
    BY <1>2, <2>1 DEF StartsAlone
  <2>5. StartsAlone'
    BY <1>8, <2>4 DEF StartsAlone
  <2>6. RowOK'
    <3> SUFFICES ASSUME job'.there
                 PROVE  /\ \A u \in Tasks : Newest(u)' => Tells(u)'
                        /\ \A c \in Callers : call'[c].op # "begin"
      BY DEF RowOK
    <3>1. \A c \in Callers : call[c].op # "begin"
      BY <2>4 DEF Starting
    <3>2. Newest(t) /\ Tells(t)
      BY <1>2, <1>4, <2>1, <3>1 DEF RowOK, OneLive
    <3>3. Tells(t)'
      BY <1>1, <1>2, <1>3, <1>4, <1>12, <3>2, TaskKeepsTelling
    <3>4. \A u \in Tasks : Newest(u)' => u = t
      BY <1>6, <3>2, OneNewest
    <3> QED
      BY <1>2, <3>1, <3>3, <3>4
  <2> QED
    BY <2>2, <2>3, <2>5, <2>6 DEF CleanInv
<1> QED
  BY <1>2, <1>10, <1>11, <1>12, <1>13, <1>14, <1>15 DEF IInv

-----------------------------------------------------------------------------
(* The commands.                                                            *)

LEMMA GivesFacts ==
  ASSUME TypeOK, NEW c \in Callers, NEW op, Gives(c, op)
  PROVE  /\ call[c].op = "idle" /\ given' \in Nat /\ clean' \in BOOLEAN
         /\ clean' => clean /\ Starting = {}
         /\ clean' /\ op = "start" => \A d \in Callers : call[d].op = "idle"
         /\ clean' /\ op \in {"pause", "resume"} => ~Late
<1>1. call[c].op = "idle" /\ given' \in Nat
  BY DEF Gives, TypeOK
<1>2. clean' = (clean /\ ~Overlap(op) /\ (op \in {"pause", "resume"} => ~Late))
  BY DEF Gives
<1>3. \A d \in Starting : d \in Callers /\ call[d].op # "idle"
  BY DEF Starting
<1>4. ~Overlap(op) => Starting = {}
  BY <1>3 DEF Overlap
<1>5. ~Overlap(op) /\ op = "start" => \A d \in Callers : call[d].op = "idle"
  BY DEF Overlap
<1>6. clean' => clean /\ ~Overlap(op) /\ (op \in {"pause", "resume"} => ~Late)
  BY <1>2
<1>7. clean' \in BOOLEAN
  BY <1>2
<1> QED
  BY <1>1, <1>4, <1>5, <1>6, <1>7

LEMMA CallPut ==
  ASSUME TypeOK, NEW c \in Callers, NEW r \in Calls, call' = [call EXCEPT ![c] = r]
  PROVE  /\ call' \in [Callers -> Calls] /\ call'[c] = r
         /\ \A d \in Callers \ {c} : call'[d] = call[d]
  BY DEF TypeOK

\* A caller that is about to read the file.
Parsing(way, types) == [Idle EXCEPT !.op = "parse", !.way = way, !.types = types]

LEMMA IdleFacts ==
  /\ Idle \in Calls /\ Idle.op = "idle"
  /\ \A n \in Sizes :
        LET r == [Idle EXCEPT !.op = "begin", !.size = n] IN
        r \in Calls /\ r.op = "begin" /\ r.size = n
<1>1. {"idle", "parse", "begin", "stopping", "deleting"} = Ops /\ 0 \in Sizes
  BY DEF Ops, Sizes
<1>2. Idle \in Calls /\ Idle.op = "idle"
  BY <1>1 DEF Idle, Calls
<1>3. ASSUME NEW n \in Sizes
      PROVE  LET r == [Idle EXCEPT !.op = "begin", !.size = n] IN
             r \in Calls /\ r.op = "begin" /\ r.size = n
  BY <1>1, <1>2 DEF Calls
<1> QED
  BY <1>2, <1>3

LEMMA HaltingFacts ==
  ASSUME NEW t \in Tasks \cup {None}, NEW op \in {"stopping", "deleting"}
  PROVE  LET r == [Idle EXCEPT !.op = op, !.of = t] IN
         r \in Calls /\ r.op = op /\ r.of = t
<1>1. op \in Ops
  BY DEF Ops
<1> QED
  BY <1>1, IdleFacts DEF Calls

LEMMA ParsingFacts ==
  ASSUME NEW way \in Ways \cup {""}, NEW types \in SUBSET Types
  PROVE  Parsing(way, types) \in Calls /\ Parsing(way, types).op = "parse"
  BY IdleFacts DEF Parsing, Calls, Ops

\* A step that leaves the tasks alone leaves what is true of them alone.
LEMMA TasksStay ==
  ASSUME BirthsOK, CountsOK, task' = task
  PROVE  /\ BirthsOK' /\ CountsOK'
         /\ \A u \in Tasks : (Born(u)' <=> Born(u)) /\ (Live(u)' <=> Live(u)) /\ (Newest(u)' <=> Newest(u))
<1>1. \A u \in Tasks : (Born(u)' <=> Born(u)) /\ (Live(u)' <=> Live(u))
  BY DEF Born, Live
<1>2. \A u \in Tasks : Newest(u)' <=> Newest(u)
  BY <1>1, BornFacts
<1>3. BirthsOK'
  BY <1>1, BirthsStay
<1>4. CountsOK'
  BY DEF CountsOK
<1> QED
  BY <1>1, <1>2, <1>3, <1>4

\* A step that leaves everything but what a caller may choose of the row.
LEMMA RowChosen ==
  ASSUME IInv, UNCHANGED << playing, task, call >>, TypeOK', clean' => clean,
         job'.there = job.there, job'.status = job.status, job'.sent = job.sent, job'.selected = job.selected
  PROVE  IInv'
<1>1. TypeOK /\ BirthsOK /\ CountsOK /\ StopsOK /\ LoadedOK /\ (clean => AboutNewest /\ CleanInv)
  BY DEF IInv
<1>2. /\ BirthsOK' /\ CountsOK'
      /\ \A u \in Tasks : (Born(u)' <=> Born(u)) /\ (Live(u)' <=> Live(u)) /\ (Newest(u)' <=> Newest(u))
  BY <1>1, TasksStay
<1>3. (\A u \in Tasks : Awaited(u)' <=> Awaited(u)) /\ Starting' = Starting
  BY DEF Awaited, Starting
<1>4. StopsOK' /\ LoadedOK'
  BY <1>1, <1>2, <1>3 DEF StopsOK, LoadedOK
<1>5. \A u \in Tasks : Tells(u) => Tells(u)'
  BY <1>3 DEF Tells
<1>6. ASSUME clean
      PROVE  AboutNewest' /\ CleanInv'
  <2>1. AboutNewest /\ OneLive /\ StartsAlone /\ RowOK
    BY <1>1, <1>6 DEF CleanInv
  <2>2. AboutNewest'
    BY <1>2, <1>3, <2>1 DEF AboutNewest
  <2>3. OneLive' /\ StartsAlone'
    BY <1>2, <1>3, <2>1 DEF OneLive, StartsAlone
  <2>4. RowOK'
    BY <1>2, <1>5, <2>1 DEF RowOK
  <2> QED
    BY <2>2, <2>3, <2>4 DEF CleanInv
<1> QED
  BY <1>1, <1>2, <1>4, <1>6 DEF IInv

LEMMA DefaultWayFacts == ASSUME NEW b \in BOOLEAN PROVE DefaultWay(b) \in Ways \cup {""}
<1>1. Cardinality(Ways) = 1 => Ways # {}
  BY FS_EmptySet
<1> QED
  BY <1>1 DEF DefaultWay

LEMMA ConfigureStep ==
  ASSUME IInv, NEW c \in Callers, NEW types, ConfigureReplay(c, types)
  PROVE  IInv'
<1>1. TypeOK
  BY DEF IInv
<1>2. given' \in Nat /\ clean' \in BOOLEAN /\ (clean' => clean)
  BY <1>1, GivesFacts DEF ConfigureReplay
<1>3. job' = [job EXCEPT !.types = types, !.way = DefaultWay(TRUE)] /\ types \in SUBSET Types
      /\ UNCHANGED << playing, task, call, active, drops >>
  BY DEF ConfigureReplay
<1>4. job' \in Jobs /\ job'.there = job.there /\ job'.status = job.status
      /\ job'.sent = job.sent /\ job'.selected = job.selected
  BY <1>1, <1>3, DefaultWayFacts DEF TypeOK, Jobs
<1>5. TypeOK'
  BY <1>1, <1>2, <1>3, <1>4 DEF TypeOK
<1> QED
  BY <1>2, <1>3, <1>4, <1>5, RowChosen

LEMMA LoadStep ==
  ASSUME IInv, NEW c \in Callers, LoadReplay(c)
  PROVE  IInv'
<1>1. TypeOK /\ BirthsOK /\ CountsOK /\ StopsOK /\ LoadedOK /\ (clean => AboutNewest /\ CleanInv)
  BY DEF IInv
<1>2. given' \in Nat /\ clean' \in BOOLEAN /\ (clean' => clean)
  BY <1>1, GivesFacts DEF LoadReplay
<1>3. job' = [job EXCEPT !.there = TRUE, !.status = "loaded", !.types = Types, !.way = DefaultWay(FALSE)]
      /\ job.status = "none" /\ UNCHANGED << playing, task, call, active, drops >>
  BY DEF LoadReplay
<1>4. job' \in Jobs /\ job'.status = "loaded"
  BY <1>1, <1>3, DefaultWayFacts DEF TypeOK, Jobs, Statuses
<1>5. TypeOK'
  BY <1>1, <1>2, <1>3, <1>4 DEF TypeOK
<1>6. (\A u \in Tasks : ~Born(u)) /\ Starting = {}
  BY <1>1, <1>3 DEF LoadedOK
<1>7. /\ BirthsOK' /\ CountsOK'
      /\ \A u \in Tasks : (Born(u)' <=> Born(u)) /\ (Live(u)' <=> Live(u)) /\ (Newest(u)' <=> Newest(u))
  BY <1>1, <1>3, TasksStay
<1>8. (\A u \in Tasks : Awaited(u)' <=> Awaited(u)) /\ Starting' = Starting
  BY <1>3 DEF Awaited, Starting
<1>9. StopsOK' /\ LoadedOK'
  BY <1>1, <1>3, <1>4, <1>7, <1>8 DEF StopsOK, LoadedOK
<1>10. ASSUME clean
       PROVE  AboutNewest' /\ CleanInv'
  <2>1. AboutNewest /\ OneLive /\ StartsAlone
    BY <1>1, <1>10 DEF CleanInv
  <2>2. AboutNewest'
    BY <1>3, <1>7, <1>8, <2>1 DEF AboutNewest
  <2>3. OneLive' /\ StartsAlone'
    BY <1>3, <1>7, <1>8, <2>1 DEF OneLive, StartsAlone
  <2>4. RowOK'
    BY <1>3, <1>6, <1>7 DEF RowOK, Newest, Starting
  <2> QED
    BY <2>2, <2>3, <2>4 DEF CleanInv
<1> QED
  BY <1>2, <1>5, <1>7, <1>9, <1>10 DEF IInv

\* A caller that was idle is waited on by nobody yet.
LEMMA StartStep ==
  ASSUME IInv, NEW c \in Callers, NEW asked \in Ways \cup {""}, StartReplay(c, asked)
  PROVE  IInv'
<1>1. TypeOK /\ BirthsOK /\ CountsOK /\ StopsOK /\ LoadedOK /\ (clean => AboutNewest /\ CleanInv)
  BY DEF IInv
<1>2. /\ call[c].op = "idle" /\ given' \in Nat /\ clean' \in BOOLEAN /\ (clean' => clean)
      /\ clean' => \A d \in Callers : call[d].op = "idle"
  BY <1>1, GivesFacts DEF StartReplay
<1>3. PICK way \in Ways \cup {""} :
         call' = [call EXCEPT ![c] = Parsing(way, job.types)]
  BY <1>1 DEF StartReplay, TypeOK, Jobs, Parsing
<1>4. job.types \in SUBSET Types /\ job.there /\ ~Plays /\ UNCHANGED << job, playing, task, active, drops >>
  BY <1>1 DEF StartReplay, TypeOK, Jobs
<1>5. /\ call' \in [Callers -> Calls] /\ call'[c].op = "parse"
      /\ \A d \in Callers \ {c} : call'[d] = call[d]
  <2>1. Parsing(way, job.types) \in Calls /\ Parsing(way, job.types).op = "parse"
    BY <1>3, <1>4, ParsingFacts
  <2> QED
    BY <1>1, <1>3, <2>1, CallPut
<1>6. TypeOK'
  BY <1>1, <1>2, <1>4, <1>5 DEF TypeOK
<1>7. /\ BirthsOK' /\ CountsOK'
      /\ \A u \in Tasks : (Born(u)' <=> Born(u)) /\ (Live(u)' <=> Live(u)) /\ (Newest(u)' <=> Newest(u))
  BY <1>1, <1>4, TasksStay
<1>8. \A u \in Tasks : Awaited(u)' <=> Awaited(u)
  BY <1>2, <1>5 DEF Awaited
<1>9. StopsOK' /\ LoadedOK'
  <2>1. \A d \in Callers : call'[d].op = "stopping" => call'[d].of # None
    BY <1>1, <1>5 DEF StopsOK
  <2> QED
    BY <1>1, <1>4, <1>7, <1>8, <2>1 DEF StopsOK, LoadedOK
<1>10. ASSUME clean'
       PROVE  AboutNewest' /\ CleanInv'
  <2>1. AboutNewest /\ OneLive /\ StartsAlone /\ RowOK /\ \A d \in Callers : call[d].op = "idle"
    BY <1>1, <1>2, <1>10 DEF CleanInv
  <2>2. \A d \in Callers \ {c} : call'[d].op = "idle"
    BY <1>5, <2>1
  <2>3. AboutNewest'
    BY <1>4, <1>7, <1>8, <2>1 DEF AboutNewest
  <2>4. \A u \in Tasks : ~Live(u)
    <3> SUFFICES ASSUME NEW u \in Tasks, Live(u)
                 PROVE  FALSE
      OBVIOUS
    <3>1. u # playing
      <4>1. u # None
        BY BoundFacts
      <4> QED
        BY <1>4, <4>1 DEF Plays
    <3>2. Awaited(u)
      BY <1>1, <2>1, <3>1 DEF OneLive, StopsOK
    <3> QED
      BY <2>1, <3>2 DEF Awaited
  <2>5. OneLive' /\ StartsAlone'
    BY <1>5, <1>7, <2>2, <2>4 DEF OneLive, StartsAlone, Starting
  <2>6. RowOK'
    <3>1. (\A d \in Callers : call[d].op # "begin") /\ (\A d \in Callers : call'[d].op # "begin")
      BY <1>5, <2>1, <2>2
    <3>2. \A u \in Tasks : Tells(u) => Tells(u)'
      BY <1>4, <1>8 DEF Tells
    <3> QED
      BY <1>4, <1>7, <2>1, <3>1, <3>2 DEF RowOK
  <2> QED
    BY <2>3, <2>5, <2>6 DEF CleanInv
<1> QED
  BY <1>2, <1>6, <1>7, <1>9, <1>10 DEF IInv

\* The row and the caller, once messages were chosen or none were.
ChosenNone(c) == call' = [call EXCEPT ![c] = Idle] /\ job' = job
ChosenSome(c, n) ==
    /\ call' = [call EXCEPT ![c] = [Idle EXCEPT !.op = "begin", !.size = n]]
    /\ job' = IF job.there THEN [job EXCEPT !.status = "running", !.sent = 0, !.selected = n] ELSE job

LEMMA ChoosePut ==
  ASSUME TypeOK, NEW c \in Callers, Choose(c)
  PROVE  /\ job' \in Jobs /\ call' \in [Callers -> Calls] /\ job'.there = job.there
         /\ \A d \in Callers \ {c} : call'[d] = call[d]
         /\ \/ call'[c].op = "idle" /\ job' = job
            \/ /\ call'[c].op = "begin"
               /\ job.there => /\ job'.status = "running" /\ job'.sent = 0
                               /\ job'.selected = call'[c].size
               /\ job.there \/ job' = job
<1> DEFINE n == Len(SelectMessages(call[c].way, call[c].types))
<1>1. call[c] \in Calls
  BY DEF TypeOK
<1>2. call[c].way \in Ways \cup {""} /\ call[c].types \in SUBSET Types
  BY <1>1 DEF Calls
<1>3. n \in Sizes
  <2>1. PICK way \in Ways \cup {""}, types \in SUBSET Types : way = call[c].way /\ types = call[c].types
    BY <1>2
  <2>2. Len(SelectMessages(way, types)) \in Sizes
    BY SizesFacts
  <2> QED
    BY <2>1, <2>2
<1>4. ChosenNone(c) \/ ChosenSome(c, n)
  BY DEF Choose, ChosenNone, ChosenSome
<1> HIDE DEF n
<1>5. CASE ChosenNone(c)
  <2>1. call' = [call EXCEPT ![c] = Idle] /\ job' = job
    BY <1>5 DEF ChosenNone
  <2>2. /\ call' \in [Callers -> Calls] /\ call'[c] = Idle
        /\ \A d \in Callers \ {c} : call'[d] = call[d]
    BY <2>1, IdleFacts, CallPut
  <2> QED
    BY <2>1, <2>2, IdleFacts DEF TypeOK
<1>6. CASE ChosenSome(c, n)
  <2> DEFINE r == [Idle EXCEPT !.op = "begin", !.size = n]
  <2>1. r \in Calls /\ r.op = "begin" /\ r.size = n
    BY <1>3, IdleFacts
  <2>2. call' = [call EXCEPT ![c] = r]
    BY <1>6 DEF ChosenSome
  <2> HIDE DEF r
  <2>3. /\ call' \in [Callers -> Calls] /\ call'[c] = r
        /\ \A d \in Callers \ {c} : call'[d] = call[d]
    BY <2>1, <2>2, CallPut
  <2>4. CASE job.there
    <3>1. job' = [job EXCEPT !.status = "running", !.sent = 0, !.selected = n]
      BY <1>6, <2>4 DEF ChosenSome
    <3>2. job' \in Jobs /\ job'.status = "running" /\ job'.sent = 0 /\ job'.selected = n /\ job'.there = job.there
      BY <1>3, <3>1 DEF TypeOK, Jobs, Statuses
    <3> QED
      BY <2>1, <2>3, <2>4, <3>2
  <2>5. CASE ~job.there
    <3>1. job' = job
      BY <1>6, <2>5 DEF ChosenSome
    <3> QED
      BY <2>1, <2>3, <2>5, <3>1 DEF TypeOK
  <2> QED
    BY <2>4, <2>5
<1> QED
  BY <1>4, <1>5, <1>6

LEMMA ChooseStep ==
  ASSUME IInv, NEW c \in Callers, Choose(c)
  PROVE  IInv'
<1>1. TypeOK /\ BirthsOK /\ CountsOK /\ StopsOK /\ LoadedOK /\ (clean => AboutNewest /\ CleanInv)
  BY DEF IInv
<1>2. call[c].op = "parse" /\ c \in Starting /\ UNCHANGED << playing, task, active, given, drops, clean >>
  BY DEF Choose, Starting
<1>3. /\ job' \in Jobs /\ call' \in [Callers -> Calls] /\ job'.there = job.there
      /\ \A d \in Callers \ {c} : call'[d] = call[d]
      /\ \/ call'[c].op = "idle" /\ job' = job
         \/ /\ call'[c].op = "begin"
            /\ job.there => /\ job'.status = "running" /\ job'.sent = 0
                            /\ job'.selected = call'[c].size
            /\ job.there \/ job' = job
  BY <1>1, ChoosePut
<1>4. TypeOK'
  BY <1>1, <1>2, <1>3 DEF TypeOK
<1>5. /\ BirthsOK' /\ CountsOK'
      /\ \A u \in Tasks : (Born(u)' <=> Born(u)) /\ (Live(u)' <=> Live(u)) /\ (Newest(u)' <=> Newest(u))
  BY <1>1, <1>2, TasksStay
<1>6. \A u \in Tasks : Awaited(u)' <=> Awaited(u)
  BY <1>2, <1>3 DEF Awaited
<1>7. StopsOK' /\ LoadedOK'
  <2>1. \A d \in Callers : call'[d].op = "stopping" => call'[d].of # None
    BY <1>1, <1>3 DEF StopsOK
  <2>2. job.status # "none" /\ job'.status # "none"
    BY <1>1, <1>2, <1>3 DEF LoadedOK
  <2> QED
    BY <1>1, <1>2, <1>5, <1>6, <2>1, <2>2 DEF StopsOK, LoadedOK
<1>8. ASSUME clean
      PROVE  AboutNewest' /\ CleanInv'
  <2>1. AboutNewest /\ OneLive /\ StartsAlone /\ RowOK
    BY <1>1, <1>8 DEF CleanInv
  <2>2. (\A d \in Callers \ {c} : call'[d].op = "idle" /\ call[d].op = "idle") /\ (\A u \in Tasks : ~Live(u))
    BY <1>2, <1>3, <2>1 DEF StartsAlone
  <2>3. AboutNewest'
    BY <1>2, <1>5, <1>6, <2>1 DEF AboutNewest
  <2>4. OneLive' /\ StartsAlone'
    BY <1>5, <2>2 DEF OneLive, StartsAlone, Starting
  <2>5. RowOK'
    <3>1. CASE call'[c].op = "idle" /\ job' = job
      <4>1. (\A d \in Callers : call[d].op # "begin") /\ (\A d \in Callers : call'[d].op # "begin")
        BY <1>2, <2>2, <3>1
      <4>2. \A u \in Tasks : Tells(u) => Tells(u)'
        BY <1>2, <1>6, <3>1 DEF Tells
      <4> QED
        BY <1>5, <2>1, <3>1, <4>1, <4>2 DEF RowOK
    <3>2. CASE call'[c].op = "begin" /\ (job.there => /\ job'.status = "running" /\ job'.sent = 0
                                                      /\ job'.selected = call'[c].size)
      <4>1. \A d \in Callers : call'[d].op = "begin" => d = c
        BY <2>2
      <4> QED
        BY <1>3, <3>2, <4>1 DEF RowOK
    <3> QED
      BY <1>3, <3>1, <3>2
  <2> QED
    BY <2>3, <2>4, <2>5 DEF CleanInv
<1> QED
  BY <1>1, <1>2, <1>4, <1>5, <1>7, <1>8 DEF IInv

LEMMA TaskPut ==
  ASSUME TypeOK, NEW t \in Tasks, NEW x \in ReplayTasks, task' = [task EXCEPT ![t] = x]
  PROVE  /\ task' \in [Tasks -> ReplayTasks] /\ task'[t] = x
         /\ \A u \in Tasks \ {t} : task'[u] = task[u]
  BY DEF TypeOK

LEMMA NewTask ==
  ASSUME NEW size \in Sizes
  PROVE  LET x == [NoTask EXCEPT !.pc = "born", !.total = size] IN
         /\ x \in ReplayTasks /\ x.pc = "born" /\ x.total = size
         /\ x.sent = 0 /\ x.out = 0 /\ x.stopped = FALSE
  BY DEF NoTask, ReplayTasks, Places, Loop

LEMMA PlayStep ==
  ASSUME IInv, NEW c \in Callers, Play(c)
  PROVE  IInv'
<1>1. TypeOK /\ BirthsOK /\ CountsOK /\ StopsOK /\ LoadedOK /\ (clean => AboutNewest /\ CleanInv)
  BY DEF IInv
<1>2. call[c].op = "begin" /\ c \in Starting /\ call' = [call EXCEPT ![c] = Idle]
      /\ UNCHANGED << job, active, given, drops, clean >>
  BY DEF Play, Starting
<1>3. PICK t \in Tasks :
         /\ task[t].pc = "unborn" /\ \A u \in 1 .. t - 1 : task[u].pc # "unborn"
         /\ task' = [task EXCEPT ![t] = [NoTask EXCEPT !.pc = "born", !.total = call[c].size]]
         /\ playing' = t
  BY DEF Play
<1>4. PICK size \in Sizes : size = call[c].size
  BY <1>1 DEF TypeOK, Calls
<1> DEFINE x == [NoTask EXCEPT !.pc = "born", !.total = size]
<1>5. /\ x \in ReplayTasks /\ x.pc = "born" /\ x.total = size
      /\ x.sent = 0 /\ x.out = 0 /\ x.stopped = FALSE
  BY NewTask
<1>6. task' = [task EXCEPT ![t] = x]
  BY <1>3, <1>4
<1> HIDE DEF x
<1>7. /\ task' \in [Tasks -> ReplayTasks] /\ task'[t] = x
      /\ \A u \in Tasks \ {t} : task'[u] = task[u]
  BY <1>1, <1>5, <1>6, TaskPut
<1>8. /\ call' \in [Callers -> Calls] /\ call'[c].op = "idle"
      /\ \A d \in Callers \ {c} : call'[d] = call[d]
  BY <1>1, <1>2, IdleFacts, CallPut
<1>9. TypeOK'
  BY <1>1, <1>2, <1>3, <1>7, <1>8 DEF TypeOK
<1>10. BirthsOK' /\ \A u \in Tasks : u > t => ~Born(u)'
  <2>1. PICK n \in 0 .. MaxTasks : \A u \in Tasks : Born(u) <=> u <= n
    BY <1>1 DEF BirthsOK
  <2>2. t \in Int /\ t <= MaxTasks /\ 1 <= t /\ ~(t <= n)
    BY <1>3, <2>1, ReplayAssumption DEF Tasks, Born
  <2>3. t - 1 \in Tasks => t - 1 <= n
    BY <1>3, <2>1, <2>2 DEF Born
  <2>4. t = n + 1
    BY <2>2, <2>3, BoundFacts DEF Tasks
  <2>5. \A u \in Tasks : Born(u)' <=> u <= t
    <3> SUFFICES ASSUME NEW u \in Tasks PROVE Born(u)' <=> u <= t
      OBVIOUS
    <3>1. CASE u = t
      BY <1>5, <1>7, <2>2, <3>1 DEF Born
    <3>2. CASE u # t
      <4>1. Born(u)' <=> Born(u)
        BY <1>7, <3>2 DEF Born
      <4>2. u <= n <=> u <= t
        BY <2>2, <2>4, <3>2, BoundFacts
      <4> QED
        BY <2>1, <4>1, <4>2
    <3> QED
      BY <3>1, <3>2
  <2>6. t \in 0 .. MaxTasks
    BY <2>2, BoundFacts
  <2>7. \A u \in Tasks : ~Born(u)' => task'[u] = NoTask
    BY <1>1, <1>5, <1>7 DEF BirthsOK, Born
  <2>8. \A u \in Tasks : u > t => ~Born(u)'
    BY <2>2, <2>5, BoundFacts
  <2> QED
    BY <2>5, <2>6, <2>7, <2>8 DEF BirthsOK
<1>11. CountsOK'
  <2>1. /\ task'[t].out \in {task'[t].sent, task'[t].sent + 1}
        /\ task'[t].out = task'[t].sent /\ task'[t].sent = 0 /\ task'[t].pc = "born"
    BY <1>5, <1>7
  <2> QED
    BY <1>1, <1>7, <2>1 DEF CountsOK
<1>12. StopsOK'
  <2>1. \A d \in Callers : call'[d].op = "stopping" => call'[d].of # None
    BY <1>1, <1>8 DEF StopsOK
  <2>2. \A u \in Tasks : Awaited(u) => Awaited(u)'
    BY <1>2, <1>8 DEF Awaited
  <2>3. \A u \in Tasks \ {t} : task'[u].stopped /\ Live(u)' => Awaited(u)'
    BY <1>1, <1>7, <2>2 DEF StopsOK, Live
  <2> QED
    BY <1>5, <1>7, <2>1, <2>3 DEF StopsOK
<1>13. LoadedOK'
  BY <1>1, <1>2 DEF LoadedOK
<1>14. ASSUME clean
       PROVE  AboutNewest' /\ CleanInv'
  <2>1. AboutNewest /\ OneLive /\ StartsAlone /\ RowOK
    BY <1>1, <1>14 DEF CleanInv
  <2>2. (\A d \in Callers : call'[d].op = "idle") /\ (\A u \in Tasks : ~Live(u))
    BY <1>2, <1>8, <2>1 DEF StartsAlone
  <2>3. Newest(t)'
    BY <1>5, <1>7, <1>10 DEF Newest, Born
  <2>4. AboutNewest'
    BY <1>3, <2>2, <2>3 DEF AboutNewest, Awaited
  <2>5. OneLive' /\ StartsAlone'
    <3>1. \A u \in Tasks : Live(u)' => u = t
      BY <1>7, <2>2 DEF Live
    <3> QED
      BY <1>3, <2>2, <2>3, <3>1 DEF OneLive, StartsAlone, Starting
  <2>6. RowOK'
    <3> SUFFICES ASSUME job'.there, NEW u \in Tasks, Newest(u)'
                 PROVE  Tells(u)'
      BY <2>2 DEF RowOK
    <3>1. u = t
      <4>1. t \in Int /\ u \in Int /\ ~(u > t) /\ ~(t > u)
        BY <2>3, BoundFacts DEF Newest
      <4> QED
        BY <4>1
    <3>2. job'.status = "running" /\ job'.sent = 0 /\ job'.selected = size
      BY <1>2, <1>4, <2>1 DEF RowOK
    <3>3. Tells(t)'
      BY <1>5, <1>7, <3>2 DEF Tells, Closings
    <3> QED
      BY <3>1, <3>3
  <2> QED
    BY <2>4, <2>5, <2>6 DEF CleanInv
<1> QED
  BY <1>2, <1>9, <1>10, <1>11, <1>12, <1>13, <1>14 DEF IInv

\* What a command may do to the task that plays: it stays where it is, or at rest in the loop.
Akin(t) ==
    /\ task'[t].total = task[t].total /\ task'[t].sent = task[t].sent /\ task'[t].out = task[t].out
    /\ \/ task'[t].pc = task[t].pc
       \/ task[t].pc \in Loop \ {"born"} /\ task'[t].pc \in Loop \ {"born"}

LEMMA AkinStays ==
  ASSUME BirthsOK, CountsOK, NEW t \in Tasks, Akin(t), Live(t),
         \A u \in Tasks \ {t} : task'[u] = task[u]
  PROVE  /\ BirthsOK' /\ CountsOK'
         /\ \A u \in Tasks : (Born(u)' <=> Born(u)) /\ (Live(u)' <=> Live(u)) /\ (Newest(u)' <=> Newest(u))
<1>1. task[t].pc # "unborn" /\ task'[t].pc # "unborn" /\ Live(t)'
  BY DEF Akin, Live, Loop
<1>2. \A u \in Tasks : (Born(u)' <=> Born(u)) /\ (Live(u)' <=> Live(u))
  BY <1>1 DEF Born, Live
<1>3. \A u \in Tasks : Newest(u)' <=> Newest(u)
  BY <1>2, BornFacts
<1>4. BirthsOK'
  BY <1>1, <1>2, BirthsStay DEF Born
<1>5. CountsOK'
  <2>1. /\ task'[t].out \in {task'[t].sent, task'[t].sent + 1}
        /\ task'[t].pc \in Loop \cup {"closing"} => task'[t].out = task'[t].sent
        /\ task'[t].pc = "sending" => task'[t].out = task'[t].sent + 1
        /\ task'[t].pc = "born" => task'[t].sent = 0
    <3>1. task'[t].sent = task[t].sent /\ task'[t].out = task[t].out
      BY DEF Akin
    <3>2. CASE task'[t].pc = task[t].pc
      BY <3>1, <3>2 DEF CountsOK
    <3>3. CASE task[t].pc \in Loop \ {"born"} /\ task'[t].pc \in Loop \ {"born"}
      <4>1. task[t].out \in {task[t].sent, task[t].sent + 1} /\ task[t].out = task[t].sent
        BY <3>3 DEF CountsOK
      <4>2. task'[t].pc # "sending" /\ task'[t].pc # "born"
        BY <3>3 DEF Loop
      <4> QED
        BY <3>1, <4>1, <4>2
    <3> QED
      BY <3>2, <3>3 DEF Akin
  <2> QED
    BY <2>1 DEF CountsOK
<1> QED
  BY <1>2, <1>3, <1>4, <1>5

LEMMA OpenedFacts ==
  ASSUME NEW x \in ReplayTasks
  PROVE  /\ Opened(x) \in ReplayTasks /\ Opened(x).total = x.total
         /\ Opened(x).sent = x.sent /\ Opened(x).out = x.out /\ Opened(x).stopped = x.stopped
         /\ \/ Opened(x).pc = x.pc
            \/ x.pc \in Loop \ {"born"} /\ Opened(x).pc \in Loop \ {"born"}
<1> DEFINE q == CASE x.pc = "gate" -> "woken"
                  [] x.pc = "paced gate" -> "paced woken"
                  [] OTHER -> x.pc
<1>1. q \in Places /\ (q = x.pc \/ (x.pc \in Loop \ {"born"} /\ q \in Loop \ {"born"}))
  BY DEF ReplayTasks, Places, Loop
<1>2. Opened(x) = [x EXCEPT !.held = FALSE, !.pc = q]
  BY DEF Opened
<1> HIDE DEF q
<1>3. LET y == [x EXCEPT !.held = FALSE, !.pc = q] IN
      y \in ReplayTasks /\ y.total = x.total /\ y.sent = x.sent /\ y.out = x.out
      /\ y.stopped = x.stopped /\ y.pc = q
  BY <1>1 DEF ReplayTasks
<1> QED
  BY <1>1, <1>2, <1>3

LEMMA StopFacts ==
  ASSUME NEW x \in ReplayTasks
  PROVE  /\ Stop(x) \in ReplayTasks /\ Stop(x).total = x.total
         /\ Stop(x).sent = x.sent /\ Stop(x).out = x.out /\ Stop(x).stopped
         /\ \/ Stop(x).pc = x.pc
            \/ x.pc \in Loop \ {"born"} /\ Stop(x).pc \in Loop \ {"born"}
<1>1. LET y == Opened(x) IN
      /\ y \in ReplayTasks /\ y.total = x.total /\ y.sent = x.sent /\ y.out = x.out
      /\ y.pc = x.pc \/ (x.pc \in Loop \ {"born"} /\ y.pc \in Loop \ {"born"})
  BY OpenedFacts
<1>2. PICK y \in ReplayTasks : y = Opened(x)
  BY <1>1
<1>3. Stop(x) = [y EXCEPT !.stopped = TRUE]
  BY <1>2 DEF Stop
<1>4. LET z == [y EXCEPT !.stopped = TRUE] IN
      /\ z \in ReplayTasks /\ z.total = y.total /\ z.sent = y.sent /\ z.out = y.out
      /\ z.stopped /\ z.pc = y.pc
  BY DEF ReplayTasks
<1> QED
  BY <1>1, <1>2, <1>3, <1>4

LEMMA HeldFacts ==
  ASSUME NEW x \in ReplayTasks
  PROVE  LET y == [x EXCEPT !.held = TRUE] IN
         /\ y \in ReplayTasks /\ y.total = x.total /\ y.sent = x.sent /\ y.out = x.out
         /\ y.stopped = x.stopped /\ y.pc = x.pc /\ y.held
  BY DEF ReplayTasks

\* The command a playing task is given in passing: pause, or resume.
LEMMA AnswerStep ==
  ASSUME IInv, Plays, NEW said \in {"paused", "running"}, Report(playing, said),
         NEW x \in ReplayTasks, task' = [task EXCEPT ![playing] = x],
         Akin(playing), x.stopped = task[playing].stopped, said = "paused" => x.held,
         UNCHANGED << playing, call, active, drops >>, given' \in Nat, clean' \in BOOLEAN,
         clean' => clean /\ Starting = {} /\ ~Late
  PROVE  IInv'
<1>1. TypeOK /\ BirthsOK /\ CountsOK /\ StopsOK /\ LoadedOK /\ (clean => AboutNewest /\ CleanInv)
  BY DEF IInv
<1>2. PICK t \in Tasks : t = playing
  BY <1>1 DEF Plays, TypeOK
<1>3. Live(t) /\ Akin(t)
  BY <1>2 DEF Plays
<1>4. /\ task' \in [Tasks -> ReplayTasks] /\ task'[t] = x
      /\ \A u \in Tasks \ {t} : task'[u] = task[u]
  BY <1>1, <1>2, TaskPut
<1>5. task'[t].sent \in Nat
  BY <1>4 DEF ReplayTasks
<1>6. Report(t, said) /\ said \in Statuses
  BY <1>2 DEF Statuses
<1>7. /\ job' \in Jobs /\ job'.there = job.there /\ job'.selected = job.selected
      /\ job.there => job'.status = said /\ job'.sent = task'[t].sent
      /\ job.there \/ job' = job
  BY <1>1, <1>5, <1>6, ReportFacts
<1>8. TypeOK'
  BY <1>1, <1>4, <1>7 DEF TypeOK
<1>9. /\ BirthsOK' /\ CountsOK'
      /\ \A u \in Tasks : (Born(u)' <=> Born(u)) /\ (Live(u)' <=> Live(u)) /\ (Newest(u)' <=> Newest(u))
  BY <1>1, <1>3, <1>4, AkinStays
<1>10. (\A u \in Tasks : Awaited(u)' <=> Awaited(u)) /\ Starting' = Starting
  BY DEF Awaited, Starting
<1>11. \A u \in Tasks : task'[u].stopped = task[u].stopped
  BY <1>2, <1>4
<1>12. StopsOK'
  BY <1>1, <1>9, <1>10, <1>11 DEF StopsOK
<1>13. LoadedOK'
  <2>1. job.status # "none" => job'.status # "none"
    BY <1>7
  <2> QED
    BY <1>1, <1>7, <1>9, <1>10, <2>1 DEF LoadedOK
<1>14. ASSUME clean'
       PROVE  AboutNewest' /\ CleanInv'
  <2>1. AboutNewest /\ OneLive /\ StartsAlone /\ RowOK /\ Starting = {} /\ ~Late
    BY <1>1, <1>14 DEF CleanInv
  <2>2. AboutNewest'
    BY <1>9, <1>10, <2>1 DEF AboutNewest
  <2>3. OneLive' /\ StartsAlone'
    BY <1>9, <1>10, <1>11, <2>1 DEF OneLive, StartsAlone
  <2>4. RowOK'
    <3> SUFFICES ASSUME job'.there, NEW u \in Tasks, Newest(u)'
                 PROVE  Tells(u)'
      BY <2>1 DEF RowOK, Starting
    <3>1. Newest(t) /\ Newest(u)
      BY <1>2, <1>9, <2>1 DEF AboutNewest
    <3>2. u = t
      BY <3>1, OneNewest
    <3>3. Tells(t)
      BY <1>7, <2>1, <3>1 DEF RowOK, Starting
    <3>4. task[t].pc \notin {"over"} \cup Closings
      BY <1>2, <1>3, <2>1 DEF Late, Ending, Live, Closings
    <3>5. task'[t].pc \notin {"over"} \cup Closings
      BY <1>3, <3>4 DEF Akin, Loop, Closings
    <3>6. job'.status = said /\ job'.sent = task'[t].sent /\ job'.selected = task'[t].total
      BY <1>3, <1>7, <3>3 DEF Tells, Akin
    <3>7. job'.status = "paused" => task'[t].held
      BY <1>4, <3>6
    <3>8. job'.status # "completed"
      BY <3>6
    <3>9. Tells(t)'
      BY <3>5, <3>6, <3>7, <3>8 DEF Tells, Closings
    <3> QED
      BY <3>2, <3>9
  <2> QED
    BY <2>2, <2>3, <2>4 DEF CleanInv
<1> QED
  BY <1>8, <1>9, <1>12, <1>13, <1>14 DEF IInv

LEMMA PauseStep ==
  ASSUME IInv, NEW c \in Callers, PauseReplay(c)
  PROVE  IInv'
<1>1. TypeOK /\ Plays /\ Report(playing, "paused") /\ task' = [task EXCEPT ![playing].held = TRUE]
      /\ UNCHANGED << playing, call, active, drops >>
  BY DEF PauseReplay, IInv
<1>2. given' \in Nat /\ clean' \in BOOLEAN /\ (clean' => clean /\ Starting = {} /\ ~Late)
  BY <1>1, GivesFacts DEF PauseReplay
<1>3. PICK t \in Tasks : t = playing
  BY <1>1 DEF Plays, TypeOK
<1> DEFINE x == [task[t] EXCEPT !.held = TRUE]
<1>4. task[t] \in ReplayTasks /\ task' = [task EXCEPT ![t] = x]
  BY <1>1, <1>3 DEF TypeOK
<1>5. /\ x \in ReplayTasks /\ x.total = task[t].total /\ x.sent = task[t].sent /\ x.out = task[t].out
      /\ x.stopped = task[t].stopped /\ x.pc = task[t].pc /\ x.held
  BY <1>4, HeldFacts
<1> HIDE DEF x
<1>6. task'[t] = x
  BY <1>1, <1>4, <1>5, TaskPut
<1>7. Akin(t)
  BY <1>5, <1>6 DEF Akin
<1> QED
  BY <1>1, <1>2, <1>3, <1>4, <1>5, <1>7, AnswerStep

LEMMA ResumeStep ==
  ASSUME IInv, NEW c \in Callers, ResumeReplay(c)
  PROVE  IInv'
<1>1. TypeOK /\ Plays /\ Report(playing, "running") /\ task' = [task EXCEPT ![playing] = Opened(task[playing])]
      /\ UNCHANGED << playing, call, active, drops >>
  BY DEF ResumeReplay, IInv
<1>2. given' \in Nat /\ clean' \in BOOLEAN /\ (clean' => clean /\ Starting = {} /\ ~Late)
  BY <1>1, GivesFacts DEF ResumeReplay
<1>3. PICK t \in Tasks : t = playing
  BY <1>1 DEF Plays, TypeOK
<1> DEFINE x == Opened(task[t])
<1>4. task[t] \in ReplayTasks /\ task' = [task EXCEPT ![t] = x]
  BY <1>1, <1>3 DEF TypeOK
<1>5. /\ x \in ReplayTasks /\ x.total = task[t].total /\ x.sent = task[t].sent /\ x.out = task[t].out
      /\ x.stopped = task[t].stopped
      /\ x.pc = task[t].pc \/ (task[t].pc \in Loop \ {"born"} /\ x.pc \in Loop \ {"born"})
  BY <1>4, OpenedFacts
<1> HIDE DEF x
<1>6. task'[t] = x
  BY <1>1, <1>4, <1>5, TaskPut
<1>7. Akin(t)
  BY <1>5, <1>6 DEF Akin
<1> QED
  BY <1>1, <1>2, <1>3, <1>4, <1>5, <1>7, AnswerStep

\* The command that ends the playing task, and waits until it is over.
LEMMA HaltPut ==
  ASSUME TypeOK, NEW c \in Callers, NEW op \in {"stopping", "deleting"}, call[c].op = "idle",
         call' = [call EXCEPT ![c] = [Idle EXCEPT !.op = op, !.of = playing]]
  PROVE  /\ call' \in [Callers -> Calls] /\ call'[c].op = op /\ call'[c].of = playing
         /\ \A d \in Callers \ {c} : call'[d] = call[d]
         /\ (\A u \in Tasks : Awaited(u) => Awaited(u)') /\ Starting' = Starting
<1> DEFINE r == [Idle EXCEPT !.op = op, !.of = playing]
<1>1. playing \in Tasks \cup {None}
  BY DEF TypeOK
<1>2. r \in Calls /\ r.op = op /\ r.of = playing
  <2>1. PICK t \in Tasks \cup {None} : t = playing
    BY <1>1
  <2>2. LET y == [Idle EXCEPT !.op = op, !.of = t] IN y \in Calls /\ y.op = op /\ y.of = t
    BY HaltingFacts
  <2> QED
    BY <2>1, <2>2
<1> HIDE DEF r
<1>3. /\ call' \in [Callers -> Calls] /\ call'[c] = r
      /\ \A d \in Callers \ {c} : call'[d] = call[d]
  BY <1>2, CallPut DEF r
<1>4. (\A u \in Tasks : Awaited(u) => Awaited(u)') /\ Starting' = Starting
  BY <1>2, <1>3 DEF Awaited, Starting
<1> QED
  BY <1>2, <1>3, <1>4

\* The newest task goes on being told of, or is awaited.
LEMMA HaltKeepsTelling ==
  ASSUME job' = job, NEW t \in Tasks, Akin(t), Awaited(t)', Tells(t)
  PROVE  Tells(t)'
<1>1. /\ task'[t].total = task[t].total /\ task'[t].sent = task[t].sent /\ task'[t].out = task[t].out
      /\ \/ task'[t].pc = task[t].pc
         \/ task[t].pc \in Loop \ {"born"} /\ task'[t].pc \in Loop \ {"born"}
  BY DEF Akin
<1>2. CASE task'[t].pc = task[t].pc
  BY <1>1, <1>2 DEF Tells
<1>3. CASE task[t].pc \in Loop \ {"born"} /\ task'[t].pc \in Loop \ {"born"}
  <2>1. /\ task'[t].pc \notin {"born", "over"} \cup Closings
        /\ task[t].pc \notin {"closing", "over"}
    BY <1>3 DEF Loop, Closings
  <2>2. job.selected = task'[t].total /\ job.status # "completed"
    BY <1>1, <2>1 DEF Tells
  <2> QED
    BY <2>1, <2>2 DEF Tells, Closings
<1> QED
  BY <1>1, <1>2, <1>3

LEMMA HaltStep ==
  ASSUME IInv, NEW c \in Callers, NEW op \in {"stopping", "deleting"}, op = "stopping" => Plays,
         call[c].op = "idle", playing' = None,
         call' = [call EXCEPT ![c] = [Idle EXCEPT !.op = op, !.of = playing]],
         IF Plays THEN task' = [task EXCEPT ![playing] = Stop(task[playing])] ELSE task' = task,
         UNCHANGED << job, active, drops >>, given' \in Nat, clean' \in BOOLEAN,
         clean' => clean /\ Starting = {}
  PROVE  IInv'
<1>1. TypeOK /\ BirthsOK /\ CountsOK /\ StopsOK /\ LoadedOK /\ (clean => AboutNewest /\ CleanInv)
  BY DEF IInv
<1>2. /\ call' \in [Callers -> Calls] /\ call'[c].op = op /\ call'[c].of = playing
      /\ \A d \in Callers \ {c} : call'[d] = call[d]
      /\ (\A u \in Tasks : Awaited(u) => Awaited(u)') /\ Starting' = Starting
  BY <1>1, HaltPut
<1>3. \A u \in Tasks : u = playing => Awaited(u)'
  BY <1>2 DEF Awaited
<1>4. /\ task' \in [Tasks -> ReplayTasks] /\ BirthsOK' /\ CountsOK'
      /\ \A u \in Tasks : (Born(u)' <=> Born(u)) /\ (Live(u)' <=> Live(u)) /\ (Newest(u)' <=> Newest(u))
      /\ \A u \in Tasks : IF u = playing /\ Live(u) THEN Akin(u) /\ task'[u].stopped
                          ELSE task'[u] = task[u]
  <2>1. CASE ~Plays
    <3>1. task' = task
      BY <2>1
    <3>2. /\ BirthsOK' /\ CountsOK'
          /\ \A u \in Tasks : (Born(u)' <=> Born(u)) /\ (Live(u)' <=> Live(u)) /\ (Newest(u)' <=> Newest(u))
      BY <1>1, <3>1, TasksStay
    <3>3. \A u \in Tasks : ~(u = playing /\ Live(u))
      BY <2>1, BoundFacts DEF Plays
    <3> QED
      BY <1>1, <3>1, <3>2, <3>3 DEF TypeOK
  <2>2. CASE Plays
    <3>1. PICK t \in Tasks : t = playing
      BY <1>1, <2>2 DEF Plays, TypeOK
    <3> DEFINE x == Stop(task[t])
    <3>2. task[t] \in ReplayTasks /\ task' = [task EXCEPT ![t] = x] /\ Live(t)
      BY <1>1, <2>2, <3>1 DEF TypeOK, Plays
    <3>3. /\ x \in ReplayTasks /\ x.total = task[t].total /\ x.sent = task[t].sent /\ x.out = task[t].out
          /\ x.stopped
          /\ x.pc = task[t].pc \/ (task[t].pc \in Loop \ {"born"} /\ x.pc \in Loop \ {"born"})
      BY <3>2, StopFacts
    <3> HIDE DEF x
    <3>4. /\ task' \in [Tasks -> ReplayTasks] /\ task'[t] = x
          /\ \A u \in Tasks \ {t} : task'[u] = task[u]
      BY <1>1, <3>2, <3>3, TaskPut
    <3>5. Akin(t) /\ task'[t].stopped
      BY <3>3, <3>4 DEF Akin
    <3>6. /\ BirthsOK' /\ CountsOK'
          /\ \A u \in Tasks : (Born(u)' <=> Born(u)) /\ (Live(u)' <=> Live(u)) /\ (Newest(u)' <=> Newest(u))
      BY <1>1, <3>2, <3>4, <3>5, AkinStays
    <3> QED
      BY <3>1, <3>2, <3>4, <3>5, <3>6
  <2> QED
    BY <2>1, <2>2
<1>5. TypeOK'
  BY <1>1, <1>2, <1>4 DEF TypeOK
<1>6. StopsOK'
  <2>1. \A d \in Callers : call'[d].op = "stopping" => call'[d].of # None
    BY <1>1, <1>2 DEF StopsOK, Plays
  <2>2. \A u \in Tasks : task'[u].stopped /\ Live(u)' => Awaited(u)'
    BY <1>1, <1>2, <1>3, <1>4 DEF StopsOK
  <2> QED
    BY <2>1, <2>2 DEF StopsOK
<1>7. LoadedOK'
  BY <1>1, <1>2, <1>4 DEF LoadedOK
<1>8. ASSUME clean'
      PROVE  AboutNewest' /\ CleanInv'
  <2>1. AboutNewest /\ OneLive /\ StartsAlone /\ RowOK /\ Starting = {}
    BY <1>1, <1>8 DEF CleanInv
  <2>2. AboutNewest'
    <3> SUFFICES ASSUME NEW u \in Tasks, Awaited(u)'
                 PROVE  Newest(u)'
      BY BoundFacts DEF AboutNewest
    <3>1. u = playing \/ Awaited(u)
      BY <1>2 DEF Awaited
    <3> QED
      BY <1>4, <2>1, <3>1 DEF AboutNewest
  <2>3. OneLive'
    <3> SUFFICES ASSUME NEW u \in Tasks, Live(u)'
                 PROVE  Newest(u)' /\ task'[u].stopped
      BY DEF OneLive
    <3>1. Live(u) /\ Newest(u)' /\ (u = playing \/ task[u].stopped)
      BY <1>4, <2>1 DEF OneLive
    <3> QED
      BY <1>4, <3>1
  <2>4. StartsAlone'
    BY <1>2, <2>1 DEF StartsAlone
  <2>5. RowOK'
    <3> SUFFICES ASSUME job.there, NEW u \in Tasks, Newest(u)'
                 PROVE  Tells(u)'
      BY <1>2, <2>1 DEF RowOK, Starting
    <3>1. Newest(u) /\ Tells(u)
      BY <1>4, <2>1 DEF RowOK, Starting
    <3>2. CASE u = playing /\ Live(u)
      BY <1>3, <1>4, <3>1, <3>2, HaltKeepsTelling
    <3>3. CASE ~(u = playing /\ Live(u))
      <4>1. task'[u] = task[u]
        BY <1>4, <3>3
      <4> QED
        BY <1>2, <3>1, <4>1 DEF Tells
    <3> QED
      BY <3>2, <3>3
  <2> QED
    BY <2>2, <2>3, <2>4, <2>5 DEF CleanInv
<1> QED
  BY <1>4, <1>5, <1>6, <1>7, <1>8 DEF IInv

LEMMA StopStep ==
  ASSUME IInv, NEW c \in Callers, StopReplay(c)
  PROVE  IInv'
<1>1. TypeOK
  BY DEF IInv
<1>2. call[c].op = "idle" /\ given' \in Nat /\ clean' \in BOOLEAN /\ (clean' => clean /\ Starting = {})
  BY <1>1, GivesFacts DEF StopReplay
<1>3. /\ Plays /\ playing' = None /\ UNCHANGED << job, active, drops >>
      /\ task' = [task EXCEPT ![playing] = Stop(task[playing])]
      /\ call' = [call EXCEPT ![c] = [Idle EXCEPT !.op = "stopping", !.of = playing]]
  <2>1. playing \in Tasks
    BY <1>1 DEF StopReplay, Plays, TypeOK
  <2> QED
    BY <1>1, <2>1 DEF StopReplay, TypeOK
<1> QED
  BY <1>2, <1>3, HaltStep

LEMMA DeleteStep ==
  ASSUME IInv, NEW c \in Callers, DeleteReplay(c)
  PROVE  IInv'
<1>1. TypeOK
  BY DEF IInv
<1>2. call[c].op = "idle" /\ given' \in Nat /\ clean' \in BOOLEAN /\ (clean' => clean /\ Starting = {})
  BY <1>1, GivesFacts DEF DeleteReplay
<1>3. /\ playing' = None /\ UNCHANGED << job, active, drops >>
      /\ call' = [call EXCEPT ![c] = [Idle EXCEPT !.op = "deleting", !.of = playing]]
  BY DEF DeleteReplay
<1>4. IF Plays THEN task' = [task EXCEPT ![playing] = Stop(task[playing])] ELSE task' = task
  BY DEF DeleteReplay
<1> QED
  BY <1>2, <1>3, <1>4, HaltStep

\* A task that is over and known is over for good: nobody is left to await it.
LEMMA StoppedStep ==
  ASSUME IInv, NEW c \in Callers, Stopped(c)
  PROVE  IInv'
<1>1. TypeOK /\ BirthsOK /\ CountsOK /\ StopsOK /\ LoadedOK /\ (clean => AboutNewest /\ CleanInv)
  BY DEF IInv
<1>2. /\ call[c].op = "stopping" /\ ~Live(call[c].of) /\ task' = task /\ Report(call[c].of, "stopped")
      /\ call' = [call EXCEPT ![c] = Idle] /\ UNCHANGED << playing, active, given, drops, clean >>
  BY DEF Stopped
<1>3. PICK t \in Tasks : t = call[c].of
  BY <1>1, <1>2 DEF StopsOK, TypeOK, Calls
<1>4. /\ call' \in [Callers -> Calls] /\ call'[c].op = "idle"
      /\ \A d \in Callers \ {c} : call'[d] = call[d]
  BY <1>1, <1>2, IdleFacts, CallPut
<1>5. /\ job' \in Jobs /\ job'.there = job.there /\ job'.selected = job.selected
      /\ job.there => job'.status = "stopped" /\ job'.sent = task[t].sent
      /\ job.there \/ job' = job
  <2>1. task'[t].sent \in Nat /\ task'[t].sent = task[t].sent
    BY <1>1, <1>2 DEF TypeOK, ReplayTasks
  <2>2. Report(t, "stopped") /\ "stopped" \in Statuses
    BY <1>2, <1>3 DEF Statuses
  <2>3. /\ job' \in Jobs /\ job'.there = job.there /\ job'.selected = job.selected
        /\ job.there => job'.status = "stopped" /\ job'.sent = task'[t].sent
        /\ job.there \/ job' = job
    BY <1>1, <2>1, <2>2, ReportFacts
  <2> QED
    BY <2>1, <2>3
<1>6. TypeOK'
  BY <1>1, <1>2, <1>4, <1>5 DEF TypeOK
<1>7. /\ BirthsOK' /\ CountsOK'
      /\ \A u \in Tasks : (Born(u)' <=> Born(u)) /\ (Live(u)' <=> Live(u)) /\ (Newest(u)' <=> Newest(u))
  BY <1>1, <1>2, TasksStay
<1>8. Starting' = Starting
  BY <1>2, <1>4 DEF Starting
<1>9. StopsOK'
  <2>1. \A d \in Callers : call'[d].op = "stopping" => call'[d].of # None
    BY <1>1, <1>4 DEF StopsOK
  <2>2. \A u \in Tasks : Awaited(u) /\ Live(u) => Awaited(u)'
    BY <1>2, <1>4 DEF Awaited
  <2> QED
    BY <1>1, <1>2, <1>7, <2>1, <2>2 DEF StopsOK
<1>10. LoadedOK'
  <2>1. job.status # "none" => job'.status # "none"
    BY <1>5
  <2> QED
    BY <1>1, <1>5, <1>7, <1>8, <2>1 DEF LoadedOK
<1>11. ASSUME clean
       PROVE  AboutNewest' /\ CleanInv'
  <2>1. AboutNewest /\ OneLive /\ StartsAlone /\ RowOK
    BY <1>1, <1>11 DEF CleanInv
  <2>2. Starting = {}
    BY <1>2, <2>1 DEF StartsAlone, Starting
  <2>3. Newest(t)
    BY <1>2, <1>3, <2>1 DEF AboutNewest, Awaited
  <2>4. AboutNewest'
    <3>1. \A u \in Tasks : Awaited(u)' => Awaited(u)
      BY <1>4 DEF Awaited
    <3> QED
      BY <1>2, <1>7, <2>1, <3>1 DEF AboutNewest
  <2>5. OneLive' /\ StartsAlone'
    BY <1>2, <1>7, <1>8, <2>1, <2>2 DEF OneLive, StartsAlone
  <2>6. RowOK'
    <3> SUFFICES ASSUME job'.there, NEW u \in Tasks, Newest(u)'
                 PROVE  Tells(u)'
      BY <1>8, <2>2 DEF RowOK, Starting
    <3>1. u = t
      BY <1>7, <2>3, OneNewest
    <3>2. task'[t].pc = "over"
      BY <1>2, <1>3, <2>3 DEF Live, Newest, Born
    <3>3. Tells(t)
      BY <1>5, <2>1, <2>2, <2>3 DEF RowOK, Starting
    <3>4. Tells(t)'
      BY <1>2, <1>5, <3>2, <3>3 DEF Tells, Closings
    <3> QED
      BY <3>1, <3>4
  <2> QED
    BY <2>4, <2>5, <2>6 DEF CleanInv
<1> QED
  BY <1>1, <1>2, <1>6, <1>7, <1>9, <1>10, <1>11 DEF IInv

LEMMA DeletedStep ==
  ASSUME IInv, NEW c \in Callers, Deleted(c)
  PROVE  IInv'
<1>1. TypeOK /\ BirthsOK /\ CountsOK /\ StopsOK /\ LoadedOK /\ (clean => AboutNewest /\ CleanInv)
  BY DEF IInv
<1>2. /\ call[c].op = "deleting" /\ (call[c].of # None => ~Live(call[c].of))
      /\ job' = [job EXCEPT !.there = FALSE]
      /\ call' = [call EXCEPT ![c] = Idle] /\ UNCHANGED << playing, task, active, given, drops, clean >>
  BY DEF Deleted
<1>3. /\ call' \in [Callers -> Calls] /\ call'[c].op = "idle"
      /\ \A d \in Callers \ {c} : call'[d] = call[d]
  BY <1>1, <1>2, IdleFacts, CallPut
<1>4. job' \in Jobs /\ job'.there = FALSE /\ job'.status = job.status
  BY <1>1, <1>2 DEF TypeOK, Jobs
<1>5. TypeOK'
  BY <1>1, <1>2, <1>3, <1>4 DEF TypeOK
<1>6. /\ BirthsOK' /\ CountsOK'
      /\ \A u \in Tasks : (Born(u)' <=> Born(u)) /\ (Live(u)' <=> Live(u)) /\ (Newest(u)' <=> Newest(u))
  BY <1>1, <1>2, TasksStay
<1>7. Starting' = Starting
  BY <1>2, <1>3 DEF Starting
<1>8. StopsOK'
  <2>1. \A d \in Callers : call'[d].op = "stopping" => call'[d].of # None
    BY <1>1, <1>3 DEF StopsOK
  <2>2. \A u \in Tasks : Awaited(u) /\ Live(u) => Awaited(u)'
    BY <1>2, <1>3, BoundFacts DEF Awaited
  <2> QED
    BY <1>1, <1>2, <1>6, <2>1, <2>2 DEF StopsOK
<1>9. LoadedOK'
  BY <1>1, <1>4, <1>6, <1>7 DEF LoadedOK
<1>10. ASSUME clean
       PROVE  AboutNewest' /\ CleanInv'
  <2>1. AboutNewest /\ OneLive /\ StartsAlone
    BY <1>1, <1>10 DEF CleanInv
  <2>2. Starting = {}
    BY <1>2, <2>1 DEF StartsAlone, Starting
  <2>3. AboutNewest'
    <3>1. \A u \in Tasks : Awaited(u)' => Awaited(u)
      BY <1>3 DEF Awaited
    <3> QED
      BY <1>2, <1>6, <2>1, <3>1 DEF AboutNewest
  <2>4. OneLive' /\ StartsAlone'
    BY <1>2, <1>6, <1>7, <2>1, <2>2 DEF OneLive, StartsAlone
  <2>5. RowOK'
    BY <1>4 DEF RowOK
  <2> QED
    BY <2>3, <2>4, <2>5 DEF CleanInv
<1> QED
  BY <1>1, <1>2, <1>5, <1>6, <1>8, <1>9, <1>10 DEF IInv

-----------------------------------------------------------------------------
(* The invariant.                                                           *)

LEMMA InitIInv == Init => IInv
<1> SUFFICES ASSUME Init PROVE IInv
  OBVIOUS
<1>1. /\ \A t \in Tasks : task[t] = NoTask
      /\ \A c \in Callers : call[c] = Idle
      /\ playing = None /\ job.there = FALSE
  BY DEF Init
<1>9. NoTask.pc = "unborn" /\ NoTask.sent = 0 /\ NoTask.out = 0 /\ NoTask.stopped = FALSE
  BY DEF NoTask
<1>10. Idle.op = "idle"
  BY DEF Idle
<1>11. \A t \in Tasks : task[t].pc = "unborn" /\ task[t].sent = 0 /\ task[t].out = 0 /\ task[t].stopped = FALSE
  BY <1>1, <1>9
<1>12. \A c \in Callers : call[c].op = "idle"
  BY <1>1, <1>10
<1>2. TypeOK
  <2>1. NoTask \in ReplayTasks
    BY DEF NoTask, ReplayTasks, Places, Sizes
  <2>2. job \in Jobs
    BY DEF Init, Jobs, Statuses, Sizes
  <2>3. call \in [Callers -> Calls]
    BY IdleFacts DEF Init
  <2> QED
    BY <2>1, <2>2, <2>3 DEF Init, TypeOK
<1>3. \A t \in Tasks : ~Born(t) /\ ~Live(t) /\ ~Awaited(t)
  BY <1>11, <1>12 DEF Born, Live, Awaited
<1>4. Starting = {}
  BY <1>12 DEF Starting
<1>5. BirthsOK
  <2>1. 0 \in 0 .. MaxTasks /\ \A t \in Tasks : ~(t <= 0)
    BY BoundFacts DEF Tasks
  <2> QED
    BY <1>1, <1>3, <2>1 DEF BirthsOK
<1>6. CountsOK
  BY <1>11 DEF CountsOK, Loop
<1>7. StopsOK /\ LoadedOK
  BY <1>1, <1>3, <1>4, <1>12 DEF StopsOK, LoadedOK
<1>8. AboutNewest /\ OneLive /\ StartsAlone /\ RowOK
  BY <1>1, <1>3, <1>4, BoundFacts DEF AboutNewest, OneLive, StartsAlone, RowOK
<1> QED
  BY <1>2, <1>5, <1>6, <1>7, <1>8 DEF IInv, CleanInv

LEMMA StillIInv == ASSUME IInv, UNCHANGED << job, playing, task, call, given, clean >>,
                          active' \in BOOLEAN, drops' \in Nat
                   PROVE  IInv'
<1>1. TypeOK'
  BY DEF IInv, TypeOK
<1> QED
  BY <1>1, RowChosen

LEMMA NextIInv == IInv /\ [Next]_vars => IInv'
<1> SUFFICES ASSUME IInv, [Next]_vars
             PROVE  IInv'
  OBVIOUS
<1>1. active \in BOOLEAN /\ drops \in Nat
  BY DEF IInv, TypeOK
<1>2. ASSUME NEW t \in Tasks, Runs(t) \/ SendFails(t)
      PROVE  IInv'
  BY <1>2, TaskStep
<1>3. ASSUME NEW c \in Callers, LoadReplay(c)
      PROVE  IInv'
  BY <1>3, LoadStep
<1>4. ASSUME NEW c \in Callers, NEW types \in Filters, ConfigureReplay(c, types)
      PROVE  IInv'
  BY <1>4, ConfigureStep
<1>5. ASSUME NEW c \in Callers, NEW way \in Ways \cup {""}, StartReplay(c, way)
      PROVE  IInv'
  BY <1>5, StartStep
<1>6. ASSUME NEW c \in Callers, PauseReplay(c) \/ ResumeReplay(c) \/ StopReplay(c) \/ DeleteReplay(c)
      PROVE  IInv'
  BY <1>6, PauseStep, ResumeStep, StopStep, DeleteStep
<1>7. ASSUME NEW c \in Callers, Finishes(c)
      PROVE  IInv'
  BY <1>7, ChooseStep, PlayStep, StoppedStep, DeletedStep DEF Finishes
<1>8. CASE SessionTurns
  <2>1. active' \in BOOLEAN /\ drops' \in Nat
    BY <1>1, <1>8 DEF SessionTurns
  <2> QED
    BY <1>8, <2>1, StillIInv DEF SessionTurns
<1>9. CASE UNCHANGED vars
  BY <1>1, <1>9, StillIInv DEF vars
<1> QED
  BY <1>2, <1>3, <1>4, <1>5, <1>6, <1>7, <1>8, <1>9 DEF Next

LEMMA AlwaysIInv == Spec => []IInv
  BY InitIInv, NextIInv, PTL DEF Spec

-----------------------------------------------------------------------------
(* What it gives.                                                           *)

\* The newest task, named as RowTellsWire names it.
LEMMA NewestNamed ==
  ASSUME BirthsOK, \E u \in Tasks : Born(u)
  PROVE  LET t == CHOOSE u \in Tasks : task[u].pc # "unborn"
                                       /\ \A w \in Tasks : w > u => task[w].pc = "unborn" IN
         t \in Tasks /\ Newest(t)
<1>1. PICK n \in 0 .. MaxTasks : \A u \in Tasks : Born(u) <=> u <= n
  BY DEF BirthsOK
<1>2. 1 <= n
  BY <1>1, BoundFacts DEF Tasks
<1>3. n \in Tasks
  BY <1>1, <1>2, BoundFacts DEF Tasks
<1>4. Born(n) /\ \A w \in Tasks : w > n => ~Born(w)
  BY <1>1, <1>3, BoundFacts
<1>5. \E u \in Tasks : task[u].pc # "unborn" /\ \A w \in Tasks : w > u => task[w].pc = "unborn"
  BY <1>3, <1>4 DEF Born
<1> QED
  BY <1>5 DEF Newest, Born

\* Once the task is over and no command is under way the job's row tells how
\* it went, and "paused" is only said of a task that is held, but for a start
\* crossed by another command and a Pause or Resume accepted at the end.
THEOREM RowTellsWireEver == Spec => []RowTellsWire
<1>1. IInv => RowTellsWire
  <2> SUFFICES ASSUME IInv, clean, job.there, \E u \in Tasks : task[u].pc # "unborn",
                      \A c \in Callers : call[c].op = "idle"
               PROVE  LET t == CHOOSE u \in Tasks : task[u].pc # "unborn"
                                       /\ \A w \in Tasks : w > u => task[w].pc = "unborn" IN
                      /\ job.status = "paused" => task[t].held
                      /\ ~Live(t) =>
                           /\ job.status \in {"completed", "stopped", "error"}
                           /\ job.sent <= task[t].out /\ task[t].out <= job.sent + 1
                           /\ job.status = "completed" => job.sent = job.selected /\ task[t].out = job.selected
    BY DEF RowTellsWire
  <2>1. BirthsOK /\ CountsOK /\ TypeOK /\ RowOK
    BY DEF IInv, CleanInv
  <2> DEFINE t == CHOOSE u \in Tasks : task[u].pc # "unborn"
                                       /\ \A w \in Tasks : w > u => task[w].pc = "unborn"
  <2>2. t \in Tasks /\ Newest(t)
    BY <2>1, NewestNamed DEF Born
  <2> HIDE DEF t
  <2>3. Tells(t) /\ ~Awaited(t)
    BY <2>1, <2>2 DEF RowOK, Awaited
  <2>4. task[t].sent \in Nat /\ task[t].out \in {task[t].sent, task[t].sent + 1}
    BY <2>1, <2>2 DEF CountsOK, TypeOK, ReplayTasks
  <2>5. job.status = "paused" => task[t].held
    BY <2>3 DEF Tells
  <2>6. ASSUME ~Live(t)
        PROVE  /\ job.status \in {"completed", "stopped", "error"} /\ job.sent = task[t].sent
               /\ job.status = "completed" => task[t].sent = job.selected /\ task[t].out = task[t].sent
    <3>1. task[t].pc = "over"
      BY <2>2, <2>6 DEF Live, Newest, Born
    <3> QED
      BY <2>3, <3>1 DEF Tells
  <2>7. ~Live(t) => job.sent <= task[t].out /\ task[t].out <= job.sent + 1
    <3>1. job.sent = task[t].sent => job.sent <= task[t].out /\ task[t].out <= job.sent + 1
      BY <2>4
    <3> QED
      BY <2>6, <3>1
  <2>8. ~Live(t) /\ job.status = "completed" => job.sent = job.selected /\ task[t].out = job.selected
    BY <2>6
  <2> QED
    BY <2>5, <2>6, <2>7, <2>8 DEF t
<1> QED
  BY <1>1, AlwaysIInv, PTL

\* Which tasks send in a step: none that may not, and no command sends.
LEMMA TaskQuiet ==
  ASSUME TypeOK, NEW t \in Tasks, Runs(t) \/ SendFails(t), NEW u \in Tasks, ~MaySend(u)
  PROVE  task'[u].out = task[u].out
<1>1. Live(t) /\ Alone(t) /\ Speaks(t)
  BY TaskMoves
<1>2. CASE u # t
  BY <1>1, <1>2 DEF Alone
<1>3. CASE u = t
  <2>1. ~MaySend(t)
    BY <1>3
  <2>2. Counts(t, 0, 0) \/ Counts(t, 1, 0)
    BY <1>1, <2>1 DEF Speaks, Says, Moved
  <2>3. task[t].out \in Nat
    BY DEF TypeOK, ReplayTasks
  <2>4. task'[t].out = task[t].out + 0
    BY <2>2 DEF Counts
  <2>5. task'[t].out = task[t].out
    BY <2>3, <2>4
  <2> QED
    BY <1>3, <2>5
<1> QED
  BY <1>2, <1>3

LEMMA PutQuiet ==
  ASSUME TypeOK, Plays, NEW x, task' = [task EXCEPT ![playing] = x], x.out = task[playing].out
  PROVE  \A u \in Tasks : task'[u].out = task[u].out
<1>1. playing \in Tasks
  BY DEF Plays, TypeOK
<1> QED
  BY <1>1 DEF TypeOK

LEMMA PlayQuiet ==
  ASSUME TypeOK, BirthsOK, NEW c \in Callers, Play(c)
  PROVE  \A u \in Tasks : task'[u].out = task[u].out
<1>1. PICK t \in Tasks :
         /\ task[t].pc = "unborn"
         /\ task' = [task EXCEPT ![t] = [NoTask EXCEPT !.pc = "born", !.total = call[c].size]]
  BY DEF Play
<1>2. task[t].out = 0 /\ [NoTask EXCEPT !.pc = "born", !.total = call[c].size].out = 0
  BY <1>1 DEF BirthsOK, Born, NoTask
<1> DEFINE x == [NoTask EXCEPT !.pc = "born", !.total = call[c].size]
<1>3. x.out = task[t].out /\ task' = [task EXCEPT ![t] = x]
  BY <1>1, <1>2
<1> HIDE DEF x
<1> QED
  BY <1>1, <1>3 DEF TypeOK

LEMMA CommandQuiet ==
  ASSUME IInv, NEW c \in Callers,
         \/ LoadReplay(c) \/ (\E types \in Filters : ConfigureReplay(c, types))
         \/ (\E way \in Ways \union {""} : StartReplay(c, way))
         \/ PauseReplay(c) \/ ResumeReplay(c) \/ StopReplay(c) \/ DeleteReplay(c) \/ Finishes(c)
  PROVE  \A u \in Tasks : task'[u].out = task[u].out
<1>1. TypeOK /\ BirthsOK
  BY DEF IInv
<1>2. Plays => playing \in Tasks /\ task[playing] \in ReplayTasks
  BY <1>1 DEF Plays, TypeOK
<1>3. CASE PauseReplay(c)
  <2> DEFINE x == [task[playing] EXCEPT !.held = TRUE]
  <2>1. Plays /\ task' = [task EXCEPT ![playing] = x]
    BY <1>3 DEF PauseReplay
  <2>2. x.out = task[playing].out
    BY <1>2, <2>1, HeldFacts
  <2> HIDE DEF x
  <2> QED
    BY <1>1, <2>1, <2>2, PutQuiet
<1>4. CASE ResumeReplay(c)
  <2> DEFINE x == Opened(task[playing])
  <2>1. Plays /\ task' = [task EXCEPT ![playing] = x]
    BY <1>4 DEF ResumeReplay
  <2>2. x.out = task[playing].out
    BY <1>2, <2>1, OpenedFacts
  <2> HIDE DEF x
  <2> QED
    BY <1>1, <2>1, <2>2, PutQuiet
<1>5. CASE StopReplay(c) \/ (DeleteReplay(c) /\ Plays)
  <2> DEFINE x == Stop(task[playing])
  <2>1. Plays /\ task' = [task EXCEPT ![playing] = x]
    BY <1>2, <1>5 DEF StopReplay, DeleteReplay
  <2>2. x.out = task[playing].out
    BY <1>2, <2>1, StopFacts
  <2> HIDE DEF x
  <2> QED
    BY <1>1, <2>1, <2>2, PutQuiet
<1>6. CASE Play(c)
  BY <1>1, <1>6, PlayQuiet
<1>7. CASE DeleteReplay(c) /\ ~Plays
  BY <1>7 DEF DeleteReplay
<1>8. CASE LoadReplay(c) \/ (\E types \in Filters : ConfigureReplay(c, types))
           \/ (\E way \in Ways \union {""} : StartReplay(c, way))
  BY <1>8 DEF LoadReplay, ConfigureReplay, StartReplay
<1>9. CASE Choose(c) \/ Stopped(c) \/ Deleted(c)
  BY <1>9 DEF Choose, Stopped, Deleted
<1> QED
  BY <1>3, <1>4, <1>5, <1>6, <1>7, <1>8, <1>9 DEF Finishes

\* Nothing goes out of a task told to stop, nor of one that is paused - but
\* for the message of a task that the Resume before the Pause has woken.
THEOREM QuietWhenToldEver == Spec => QuietWhenTold
<1> DEFINE Quiet == \A t \in Tasks :
              \/ task[t].stopped
              \/ task[t].held /\ task[t].pc \notin {"woken", "paced woken"}
              => task'[t].out = task[t].out
<1>1. IInv /\ [Next]_vars => [Quiet]_vars
  <2> SUFFICES ASSUME IInv, Next
               PROVE  Quiet
    OBVIOUS
  <2>1. CASE \E t \in Tasks : Runs(t) \/ SendFails(t)
    BY <2>1, TaskQuiet DEF IInv, MaySend
  <2>2. CASE SessionTurns
    BY <2>2 DEF SessionTurns
  <2>3. CASE ~(\E t \in Tasks : Runs(t) \/ SendFails(t)) /\ ~SessionTurns
    BY <2>3, CommandQuiet DEF Next
  <2> QED
    BY <2>1, <2>2, <2>3
<1>2. Spec => [][Next]_vars
  BY PTL DEF Spec
<1> HIDE DEF Quiet
<1>3. Spec => [][Quiet]_vars
  BY <1>1, <1>2, AlwaysIInv, PTL
<1> QED
  BY <1>3 DEF QuietWhenTold, Quiet
=============================================================================
