------------------------------- MODULE Replay -------------------------------
(***************************************************************************)
(* A job that replays a message log (fix/replay.py, and the replay commands *)
(* of FixEngine): a task sends the messages chosen, one by one at the pace  *)
(* of the log; commands start, pause, resume, stop and delete it.  The task *)
(* and the commands both report to the job's row.                           *)
(*                                                                         *)
(* One job, of one log.  A report is written in the step that submits it:   *)
(* writes commit in that order.                                             *)
(***************************************************************************)
EXTENDS Integers, Sequences, FiniteSets

CONSTANTS Callers,          \* tasks that give commands
          Log,              \* the file's messages: way (who sent it to whom), type
          OurWay,           \* the way whose sender is the session's own
          Filters,          \* sets of types a caller may tick; none is every type
          ReportEvery,      \* the task reports every so many messages
          MaxTasks,         \* bound: tasks ever started
          MaxCommands,      \* bound: commands given
          MaxDrops          \* bound: times the session goes down or comes up

ASSUME ReplayAssumption ==
    /\ Log \in Seq([way : STRING, type : STRING])
    /\ ReportEvery \in Nat \ {0}
    /\ {MaxTasks, MaxCommands, MaxDrops} \subseteq Nat

VARIABLES job,          \* its row of fix_replay_jobs
          playing,      \* _replay_tasks[job]: a task, or None
          task,         \* every ReplayTask
          call,         \* what each caller's command is at
          active,       \* session.is_active
          given, drops, \* bounds
          clean         \* auxiliary: see Overlap and Late

vars == << job, playing, task, call, active, given, drops, clean >>

Tasks == 1 .. MaxTasks
None == 0
Idle == [op |-> "idle", of |-> None, way |-> "", types |-> {}, size |-> 0]
NoTask == [pc |-> "unborn", total |-> 0, sent |-> 0, out |-> 0, stopped |-> FALSE, held |-> FALSE]

Init ==
    /\ job = [there |-> FALSE, status |-> "none", sent |-> 0, selected |-> 0, types |-> {}, way |-> ""]
    /\ playing = None /\ task = [t \in Tasks |-> NoTask]
    /\ call = [c \in Callers |-> Idle]
    /\ active = TRUE /\ given = 0 /\ drops = 0 /\ clean = TRUE

Live(t) == task[t].pc \notin {"unborn", "over"}

\* The last thing it reports is on its way to the row.
Ending(t) == task[t].pc \in {"closing", "failing", "cancelled"}

\* update_replay, for a job deleted meanwhile a statement that finds no row.
Report(t, status) ==
    job' = IF job.there THEN [job EXCEPT !.status = status, !.sent = task'[t].sent] ELSE job

-----------------------------------------------------------------------------
(* The task. *)

Goes(t, pc) == task' = [task EXCEPT ![t].pc = pc]

Begin(t) ==
    /\ task[t].pc = "born" /\ ~task[t].stopped
    /\ Goes(t, "next") /\ Report(t, "running")
    /\ UNCHANGED << playing, call, active, given, drops, clean >>

\* The message is numbered and on the wire before send_message first suspends.
\* A socket closed under an ACTIVE session raises.
Send(t) ==
    \/ active /\ task' = [task EXCEPT ![t].pc = "sending", ![t].out = @ + 1] /\ job' = job
    \/ active /\ Goes(t, "failing") /\ Report(t, "error")
    \/ ~active /\ Goes(t, "closing") /\ Report(t, "error")

\* The delay before a message is what the log says; before the first there is none.
Pace(t) == task[t].sent > 0 /\ Goes(t, "asleep") /\ job' = job

\* The head of the loop; a pause is waited out first.
TakeNext(t) ==
    /\ task[t].pc = "next" /\ ~task[t].stopped
    /\ IF task[t].sent = task[t].total
       THEN Goes(t, "closing") /\ Report(t, "completed")
       ELSE IF task[t].held
            THEN Goes(t, "gate") /\ job' = job
            ELSE Send(t) \/ Pace(t)
    /\ UNCHANGED << playing, call, active, given, drops, clean >>

PassGate(t) ==
    /\ task[t].pc = "woken" /\ ~task[t].stopped
    /\ Send(t) \/ Pace(t)
    /\ UNCHANGED << playing, call, active, given, drops, clean >>

\* A plausible bug: a pause that landed during the sleep goes unnoticed.
WakeUnheld(t) ==
    /\ task[t].pc = "asleep" /\ ~task[t].stopped /\ Send(t)
    /\ UNCHANGED << playing, call, active, given, drops, clean >>

WakeUp(t) ==
    /\ task[t].pc = "asleep" /\ ~task[t].stopped
    /\ IF task[t].held THEN Goes(t, "paced gate") /\ job' = job ELSE Send(t)
    /\ UNCHANGED << playing, call, active, given, drops, clean >>

PassPacedGate(t) ==
    /\ task[t].pc = "paced woken" /\ ~task[t].stopped
    /\ Send(t)
    /\ UNCHANGED << playing, call, active, given, drops, clean >>

Sent(t) ==
    /\ task[t].pc = "sending" /\ ~task[t].stopped
    /\ task' = [task EXCEPT ![t].pc = "next", ![t].sent = @ + 1]
    /\ IF task'[t].sent % ReportEvery = 0 \/ task'[t].sent = task[t].total
       THEN Report(t, "running")
       ELSE job' = job
    /\ UNCHANGED << playing, call, active, given, drops, clean >>

\* The message is gone, its record is refused.
SendFails(t) ==
    /\ task[t].pc = "sending" /\ ~task[t].stopped
    /\ Goes(t, "failing") /\ Report(t, "error")
    /\ UNCHANGED << playing, call, active, given, drops, clean >>

\* CancelledError, wherever the task is: one that has not begun, or is
\* reporting an error of its own already, ends without a word.
Cancelled(t) ==
    /\ task[t].stopped /\ Live(t) /\ task[t].pc # "cancelled"
    /\ IF task[t].pc \in {"born", "failing"}
       THEN Goes(t, "over") /\ job' = job
       ELSE Goes(t, "cancelled") /\ Report(t, "stopped")
    /\ UNCHANGED << playing, call, active, given, drops, clean >>

Over(t) ==
    /\ Ending(t) /\ (task[t].stopped => task[t].pc = "cancelled")
    /\ Goes(t, "over")
    /\ UNCHANGED << job, playing, call, active, given, drops, clean >>

Runs(t) ==
    \/ Begin(t) \/ TakeNext(t) \/ PassGate(t) \/ WakeUp(t) \/ PassPacedGate(t)
    \/ Sent(t) \/ Cancelled(t) \/ Over(t)

-----------------------------------------------------------------------------
(* The commands. *)

\* A plausible bug: a task known is taken for one that plays.
PlaysOnce == playing # None

\* _live_replay.
Plays == playing # None /\ Live(playing)

\* A start still has a task to make, within MaxTasks.
Starting == {c \in Callers : call[c].op \in {"parse", "begin"}}
TasksLeft == Cardinality({t \in Tasks : task[t].pc = "unborn"}) > Cardinality(Starting)

\* A start and another command under way together.
Overlap(op) ==
    \E d \in Callers : call[d].op # "idle" /\ (op = "start" \/ d \in Starting)

\* Pause and Resume are accepted of a task that is reporting how it ended.
Late == Plays /\ Ending(playing)

Gives(c, op) ==
    /\ call[c].op = "idle" /\ given < MaxCommands
    /\ given' = given + 1
    /\ clean' = (clean /\ ~Overlap(op) /\ (op \in {"pause", "resume"} => ~Late))

\* summarize: the ways the file holds, and its types.
Ways == {Log[i].way : i \in DOMAIN Log}
Types == {Log[i].type : i \in DOMAIN Log}

\* The direction Start preselects, of a job not yet given a session or of one that is.
DefaultWay(configured) ==
    CASE Cardinality(Ways) = 1 -> CHOOSE w \in Ways : TRUE
      [] configured /\ OurWay \in Ways -> OurWay
      [] OTHER -> ""

LoadReplay(c) ==
    /\ Gives(c, "load") /\ job.status = "none" /\ Log # << >>
    /\ job' = [job EXCEPT !.there = TRUE, !.status = "loaded", !.types = Types, !.way = DefaultWay(FALSE)]
    /\ UNCHANGED << playing, task, call, active, drops >>

ConfigureReplay(c, types) ==
    /\ Gives(c, "configure") /\ job.there /\ ~Plays
    /\ types \subseteq Types
    /\ job' = [job EXCEPT !.types = types, !.way = DefaultWay(TRUE)]
    /\ UNCHANGED << playing, task, call, active, drops >>

\* The job is read here, the file after it: of a file of two ways one is chosen.
StartReplay(c, asked) ==
    /\ Gives(c, "start") /\ TasksLeft
    /\ job.there /\ ~Plays /\ active
    /\ LET way == IF asked = "" THEN job.way ELSE asked IN
       /\ IF way = "" THEN Cardinality(Ways) = 1 ELSE way \in Ways
       /\ call' = [call EXCEPT ![c] = [Idle EXCEPT !.op = "parse", !.way = way, !.types = job.types]]
    /\ UNCHANGED << job, playing, task, active, drops >>

SelectMessages(way, types) ==
    LET Chosen(m) == (way = "" \/ m.way = way) /\ (types = {} \/ m.type \in types)
    IN  SelectSeq(Log, Chosen)

\* The file may be gone by now; nothing chosen is refused.
Choose(c) ==
    /\ call[c].op = "parse"
    /\ LET n == Len(SelectMessages(call[c].way, call[c].types)) IN
       \/ /\ call' = [call EXCEPT ![c] = Idle]
          /\ job' = job
       \/ /\ n > 0
          /\ call' = [call EXCEPT ![c] = [Idle EXCEPT !.op = "begin", !.size = n]]
          /\ job' = IF job.there
                    THEN [job EXCEPT !.status = "running", !.sent = 0, !.selected = n]
                    ELSE job
    /\ UNCHANGED << playing, task, active, given, drops, clean >>

Play(c) ==
    /\ call[c].op = "begin"
    /\ \E t \in Tasks :
          /\ task[t].pc = "unborn" /\ \A u \in 1 .. t - 1 : task[u].pc # "unborn"
          /\ task' = [task EXCEPT ![t] = [NoTask EXCEPT !.pc = "born", !.total = call[c].size]]
          /\ playing' = t
    /\ call' = [call EXCEPT ![c] = Idle]
    /\ UNCHANGED << job, active, given, drops, clean >>

PauseReplay(c) ==
    /\ Gives(c, "pause") /\ Plays
    /\ task' = [task EXCEPT ![playing].held = TRUE]
    /\ Report(playing, "paused")
    /\ UNCHANGED << playing, call, active, drops >>

\* A plausible bug: the event is replaced, and who waits on the old one is not woken.
OpenedAnew(t) == [t EXCEPT !.held = FALSE]

\* Event.set: who waits is woken, and does not look again when it runs.
Opened(t) ==
    [t EXCEPT !.held = FALSE,
              !.pc = CASE t.pc = "gate" -> "woken"
                       [] t.pc = "paced gate" -> "paced woken"
                       [] OTHER -> t.pc]

ResumeReplay(c) ==
    /\ Gives(c, "resume") /\ Plays
    /\ task' = [task EXCEPT ![playing] = Opened(task[playing])]
    /\ Report(playing, "running")
    /\ UNCHANGED << playing, call, active, drops >>

\* ReplayTask.stop: the flag, the gate, the cancellation; then it is waited for.
Stop(t) == [Opened(t) EXCEPT !.stopped = TRUE]

StopReplay(c) ==
    /\ Gives(c, "stop") /\ Plays
    /\ task' = [task EXCEPT ![playing] = Stop(@)]
    /\ playing' = None
    /\ call' = [call EXCEPT ![c] = [Idle EXCEPT !.op = "stopping", !.of = playing]]
    /\ UNCHANGED << job, active, drops >>

Stopped(c) ==
    /\ call[c].op = "stopping" /\ ~Live(call[c].of)
    /\ task' = task /\ Report(call[c].of, "stopped")
    /\ call' = [call EXCEPT ![c] = Idle]
    /\ UNCHANGED << playing, active, given, drops, clean >>

\* Deleting stops the task first, if there is one still known.
DeleteReplay(c) ==
    /\ Gives(c, "delete") /\ job.there
    /\ task' = IF Plays THEN [task EXCEPT ![playing] = Stop(@)] ELSE task
    /\ playing' = None
    /\ call' = [call EXCEPT ![c] = [Idle EXCEPT !.op = "deleting", !.of = playing]]
    /\ UNCHANGED << job, active, drops >>

Deleted(c) ==
    /\ call[c].op = "deleting" /\ (call[c].of # None => ~Live(call[c].of))
    /\ job' = [job EXCEPT !.there = FALSE]
    /\ call' = [call EXCEPT ![c] = Idle]
    /\ UNCHANGED << playing, task, active, given, drops, clean >>

Finishes(c) == Choose(c) \/ Play(c) \/ Stopped(c) \/ Deleted(c)

-----------------------------------------------------------------------------

SessionTurns ==
    /\ drops < MaxDrops
    /\ active' = ~active /\ drops' = drops + 1
    /\ UNCHANGED << job, playing, task, call, given, clean >>

Next ==
    \/ \E t \in Tasks : Runs(t) \/ SendFails(t)
    \/ \E c \in Callers :
          \/ LoadReplay(c)
          \/ \E types \in Filters : ConfigureReplay(c, types)
          \/ \E way \in Ways \union {""} : StartReplay(c, way)
          \/ PauseReplay(c) \/ ResumeReplay(c)
          \/ StopReplay(c) \/ DeleteReplay(c) \/ Finishes(c)
    \/ SessionTurns

\* The loop runs what is ready, a sleep ends, and a write commits.
Spec ==
    /\ Init /\ [][Next]_vars
    /\ \A t \in Tasks : WF_vars(Runs(t))
    /\ \A c \in Callers : WF_vars(Finishes(c))

-----------------------------------------------------------------------------
(* Properties. *)

\* Once the task is over and no command is under way the job's row tells how
\* it went: it counts what is on the wire, but for a message the cancellation
\* or the failure caught after it left; "completed" is every message chosen;
\* and it neither plays nor is paused.  "paused" is only ever said of a task
\* that is held.  This excepts a start crossed by another command, and a
\* Pause or Resume accepted while the end is being reported.
RowTellsWire ==
    LET t == CHOOSE u \in Tasks : task[u].pc # "unborn"
                                  /\ \A w \in Tasks : w > u => task[w].pc = "unborn" IN
    (/\ clean /\ job.there /\ \E u \in Tasks : task[u].pc # "unborn"
     /\ \A c \in Callers : call[c].op = "idle")
    => /\ job.status = "paused" => task[t].held
       /\ ~Live(t) =>
            /\ job.status \in {"completed", "stopped", "error"}
            /\ job.sent <= task[t].out /\ task[t].out <= job.sent + 1
            /\ job.status = "completed" => job.sent = job.selected /\ task[t].out = job.selected

\* Nothing goes out of a task told to stop, nor of one that is paused - but
\* for the message of a task that the Resume before the Pause has woken.
QuietWhenTold ==
    [][\A t \in Tasks :
          \/ task[t].stopped
          \/ task[t].held /\ task[t].pc \notin {"woken", "paced woken"}
          => task'[t].out = task[t].out]_vars

\* A task that is not paused ends, and every command is answered.
Ends ==
    /\ \A t \in Tasks : []<>(~Live(t) \/ task[t].held)
    /\ \A c \in Callers : []<>(call[c].op = "idle")
=============================================================================
