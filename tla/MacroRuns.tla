----------------------------- MODULE MacroRuns -----------------------------
(***************************************************************************)
(* Runs of macros (macro/runner.py, macro/instance.py, macro/store.py).     *)
(* MacroRunner arms runs, gives an order that comes to the first run that   *)
(* wants it, and starts the macros that send orders of their own; each      *)
(* macro is an Instance with a main flow and the flow of a `when`, tasks    *)
(* that act through the engine.  MacroManager answers the commands, and a   *)
(* worker writes what the runner does to the rows the panes show.           *)
(*                                                                         *)
(* What the lines of a macro compute is left out: a flow at a line does any *)
(* of the things a line can do.  The functions that do not await are        *)
(* operators from a runner to a runner.                                     *)
(***************************************************************************)
EXTENDS Integers, Sequences, FiniteSets

CONSTANTS Verdicts,         \* what a line can end a macro with: passed, failed, stopped
          Macros,           \* [side, blocks, repeats]: blocks of "run", "order", "sent", "signal"
          Callers,          \* tasks that give commands
          MaxRuns,          \* bound: runs ever armed
          MaxInstances,     \* max_instances, of one run
          MaxMacros,        \* bound: macros ever started, which does for max_live
          MaxRows,          \* bound: orders that come to be
          MaxActs           \* bound: what comes from outside: commands, orders, events, restarts

ASSUME MacroRunsAssumption ==
    /\ Verdicts \subseteq {"passed", "failed", "stopped"}
    /\ \A m \in Macros : m.blocks \subseteq {"run", "order", "sent", "signal"} /\ m.blocks # {}
    /\ {MaxRuns, MaxInstances, MaxMacros, MaxRows, MaxActs} \subseteq Nat

VARIABLES runner,       \* the MacroRunner, its macros, and the queue to the worker
          orders,       \* orders there are: "none", sent or received, or added and not begun
          runRows,      \* fix_macro_runs: the status of each row
          macroRows,    \* fix_macro_orders: the status of each row, by run's row and order
          call,         \* what each caller's command is at
          acts,         \* what came from outside so far
          calm          \* auxiliary: see Unrecorded, ReadsMax and Refused

vars == << runner, orders, runRows, macroRows, call, acts, calm >>

Runs == 1 .. MaxRuns
Instances == 1 .. MaxMacros
Orders == 1 .. MaxRows
Flows == {"main", "when"}
None == 0

NoFlow == [pc |-> "off", busy |-> FALSE, doomed |-> FALSE]
Spawned == [pc |-> "fresh", busy |-> TRUE, doomed |-> FALSE]
NoInstance == [run |-> None, block |-> "none", key |-> None, made |-> None, status |-> "none",
               told |-> << >>, handlers |-> FALSE, flow |-> [f \in Flows |-> NoFlow]]
NoRun == [macro |-> CHOOSE m \in Macros : TRUE, status |-> "none", paused |-> FALSE, row |-> None, passes |-> 0]
Idle == [op |-> "idle", run |-> None]

Init ==
    /\ runner = [run |-> [r \in Runs |-> NoRun], inst |-> [i \in Instances |-> NoInstance],
                 owner |-> [o \in Orders |-> None], claims |-> {}, live |-> 0,
                 subscribed |-> FALSE, queue |-> << >>]
    /\ orders = [o \in Orders |-> "none"]
    /\ runRows = << >> /\ macroRows = [r \in Runs |-> [k \in Orders \union {-i : i \in Instances} |-> "none"]]
    /\ call = [c \in Callers |-> Idle]
    /\ acts = 0
    /\ calm = TRUE

-----------------------------------------------------------------------------
(* A runner, and its macros. *)

Macro(R, r) == R.run[r].macro
Waits(m) == m.blocks \intersect {"order", "sent"} # {}
IsSending(m) == "run" \in m.blocks

\* An end-to-end macro that sends is a test.
IsTest(m) == m.side = "e2e" /\ IsSending(m)

Alive(x) == x.status \in {"running", "listening"}
IsGenerator(x) == x.block = "generator"
IsClient(x) == x.block \in {"run", "signal", "generator"}
FlowsOf(x) == {f \in Flows : x.flow[f].pc # "off"}
Of(R, r) == {i \in Instances : R.inst[i].run = r}
Armed(R) == {r \in Runs : R.run[r].status = "armed"}
Unused(R) == {i \in Instances : R.inst[i].status = "none"}
NextInstance(R) == CHOOSE i \in Unused(R) : \A j \in Unused(R) : i <= j

\* The runner listens while something is armed.
Unsubscribed(R) == [R EXCEPT !.subscribed = @ /\ Armed(R) # {}]

Queued(R, op) == [R EXCEPT !.queue = Append(@, op)]

\* _instance_changed: nothing of a run without a row, of a generator, or of a
\* macro that has yet to send.  Telling the same again is left out.
Told(R, i) ==
    LET x == R.inst[i] row == R.run[x.run].row IN
    IF \/ row = None
       \/ IsGenerator(x)
       \/ x.key = None /\ Alive(x)
       \/ x.told = << x.key, x.status >>
    THEN R
    ELSE [Queued(R, [op |-> "macro", run |-> x.run, key |-> IF x.key = None THEN -i ELSE x.key,
                     status |-> x.status])
            EXCEPT !.inst[i].told = << x.key, x.status >>]

\* Instance.finish but for _maybe_finished; `but` is the flow that is running.
Ended(R, i, status, but) ==
    IF ~Alive(R.inst[i]) THEN R ELSE
    LET x == R.inst[i]
        Cancel(f) == IF f = but \/ x.flow[f].pc = "off" THEN x.flow[f]
                     ELSE [x.flow[f] EXCEPT !.doomed = TRUE]
        S == Told([R EXCEPT !.inst[i].status = status], i)
    IN  [S EXCEPT !.inst[i] = [S.inst[i] EXCEPT !.flow = [f \in Flows |-> Cancel(f)],
                                                !.handlers = FALSE, !.made = None],
                  !.owner = [o \in Orders |-> IF R.owner[o] = i THEN None ELSE R.owner[o]],
                  !.claims = S.claims \ {i},
                  !.live = IF IsGenerator(x) THEN S.live ELSE S.live - 1]

AllEnded(R, is, status) ==
    LET ended[i \in 0 .. MaxMacros] ==
            IF i = 0 THEN R
            ELSE IF i \in is THEN Ended(ended[i - 1], i, status, "none") ELSE ended[i - 1]
    IN  ended[MaxMacros]

\* In the middle of its lines: its main flow, or a `when` that answers something.
AtWork(x) == Alive(x) /\ (x.status = "running" \/ FlowsOf(x) # {})

\* A plausible bug: those a finished test leaves listening are not stopped.
MaybeFinishedAlone(R, r) ==
    IF \/ R.run[r].status # "armed"
       \/ Waits(Macro(R, r)) /\ ~IsTest(Macro(R, r))
       \/ \E i \in Of(R, r) : IF IsClient(R.inst[i]) THEN Alive(R.inst[i]) ELSE AtWork(R.inst[i])
    THEN R
    ELSE LET S == [R EXCEPT !.run[r].status = "finished"] IN
         Unsubscribed(IF R.run[r].row = None THEN S ELSE Queued(S, [op |-> "ended", run |-> r]))

\* A run that only sends is over with its last macro; a test with what it
\* sent, when nothing that took what arrived is in the middle of its lines.
MaybeFinished(R, r) ==
    LET m == Macro(R, r)
        clients == {i \in Of(R, r) : IsClient(R.inst[i])}
        others == Of(R, r) \ clients
    IN  IF \/ R.run[r].status # "armed"
           \/ Waits(m) /\ ~IsTest(m)
           \/ \E i \in clients : Alive(R.inst[i])
           \/ \E i \in others : AtWork(R.inst[i])
        THEN R
        ELSE LET S == AllEnded([R EXCEPT !.run[r].status = "finished"], others, "stopped") IN
             Unsubscribed(IF R.run[r].row = None THEN S ELSE Queued(S, [op |-> "ended", run |-> r]))

Finish(R, i, status, but) == MaybeFinished(Ended(R, i, status, but), R.inst[i].run)

\* _set_status of a live macro: one that only listens may be its run's last.
Changed(R, i) ==
    LET S == Told(R, i) IN
    IF S.inst[i].status = "listening" THEN MaybeFinished(S, S.inst[i].run) ELSE S

\* The finally clause of _guarded.
FlowOver(R, i, f) ==
    LET S == [R EXCEPT !.inst[i].flow[f] = NoFlow] IN
    IF Alive(S.inst[i]) /\ FlowsOf(S.inst[i]) = {} THEN MaybeFinished(S, S.inst[i].run) ELSE S

\* A plausible bug: the macro that held the row goes on as if it did.
BindOver(R, i, o) == Changed([R EXCEPT !.inst[i].key = o, !.owner[o] = i], i)

\* The row of a macro exists; who held it is detached.
Bind(R, i, o) ==
    LET before == R.owner[o]
        S == [R EXCEPT !.inst[i].key = o, !.owner[o] = i]
    IN  Changed(IF before \in {None, i} THEN S ELSE Finish(S, before, "detached", "none"), i)

Woken(g) == [g EXCEPT !.pc = "line", !.busy = TRUE]

\* An event reaches macros: what waits looks again, and goes on if it is what
\* it waits for; a `when` gets a flow (one at a time, in this model).
Hears(x, f, wakes) ==
    LET g == x.flow[f] IN
    IF g.pc = "parked" /\ ~g.doomed /\ wakes THEN Woken(g)
    ELSE IF f = "when" /\ x.handlers /\ g.pc = "off" THEN Spawned ELSE g

Delivered(R, is, wakes) ==
    [R EXCEPT !.inst = [i \in Instances |->
        IF i \in is /\ Alive(R.inst[i])
        THEN [R.inst[i] EXCEPT !.flow = [f \in Flows |-> Hears(R.inst[i], f, wakes)]]
        ELSE R.inst[i]]]

Full(R, r) ==
    Unused(R) = {} \/ Cardinality({i \in Of(R, r) : ~IsGenerator(R.inst[i])}) >= MaxInstances

New(R, r, block, key) ==
    LET i == NextInstance(R) IN
    [R EXCEPT !.inst[i] = [NoInstance EXCEPT !.run = r, !.block = block, !.key = key, !.status = "running",
                                              !.flow["main"] = Spawned],
              !.owner = IF key = None THEN @ ELSE [@ EXCEPT ![key] = i],
              !.claims = IF block \in {"run", "signal"} THEN @ \union {i} ELSE @,
              !.live = IF block = "generator" THEN @ ELSE @ + 1]

\* _start_script, and _start_block.
Started(R, r, block) ==
    IF R.run[r].status # "armed" \/ Full(R, r) THEN R ELSE New(R, r, block, None)

StartedBlock(R, r, block) ==
    Started(R, r, IF block = "run" /\ Macro(R, r).repeats > 0 THEN "generator" ELSE block)

\* _offer: the tests first, then in the order armed; a run that is full lets
\* the order go by, and no other has it.
Takers(R, block) == {r \in Armed(R) : block \in Macro(R, r).blocks}
First(R, rs) ==
    CHOOSE r \in rs : \A s \in rs :
        \/ Macro(R, r).side = "e2e" /\ Macro(R, s).side # "e2e"
        \/ (Macro(R, r).side = "e2e" <=> Macro(R, s).side = "e2e") /\ r <= s

Offered(R, block, o) ==
    LET rs == Takers(R, block) IN
    IF rs = {} \/ Full(R, First(R, rs)) THEN R ELSE New(R, First(R, rs), block, o)

-----------------------------------------------------------------------------
(* Events. *)

Happens == acts < MaxActs /\ acts' = acts + 1
NewOrder(o) == orders[o] = "none" /\ \A p \in 1 .. o - 1 : orders[p] # "none"

\* An order is taken by a run whose row is not written yet: see NothingUnrecorded.
Unrecorded(R, block) ==
    LET rs == Takers(R, block) IN rs # {} /\ R.run[First(R, rs)].row = None

Arrives(o, way, block) ==
    /\ NewOrder(o) /\ Happens
    /\ orders' = [orders EXCEPT ![o] = way]
    /\ runner' = IF runner.subscribed THEN Offered(runner, block, o) ELSE runner
    /\ calm' = (calm /\ ~Unrecorded(runner, block))
    /\ UNCHANGED << runRows, macroRows, call >>

OrderReceived(o) == Arrives(o, "received", "order")
OrderSentByHand(o) == Arrives(o, "sent", "sent")

OrderEvent(o, wakes) ==
    /\ Happens /\ runner.owner[o] # None
    /\ runner' = Delivered(runner, {runner.owner[o]}, wakes)
    /\ UNCHANGED << orders, runRows, macroRows, call, calm >>

-----------------------------------------------------------------------------
(* The flows of a macro. *)

AtLine(i, f) ==
    LET g == runner.inst[i].flow[f] IN
    g.pc \in {"fresh", "line"} /\ ~g.doomed

Goes(i, f) == AtLine(i, f) /\ ~runner.run[runner.inst[i].run].paused

\* _park
Parked(R, i, f, pc) ==
    LET S == [R EXCEPT !.inst[i].flow[f] = [R.inst[i].flow[f] EXCEPT !.pc = pc, !.busy = FALSE]] IN
    IF f = "main" THEN Changed(S, i) ELSE S

AtNext(R, i, f) == [R EXCEPT !.inst[i].flow[f].pc = "line"]

Unmoved == UNCHANGED << orders, runRows, macroRows, call, acts, calm >>

\* _gate, before every line.
Gate(i, f) ==
    /\ AtLine(i, f) /\ runner.run[runner.inst[i].run].paused
    /\ runner' = Parked(runner, i, f, "gated")
    /\ Unmoved

\* `after`, `wait`, `expect`.
Wait(i, f) ==
    /\ Goes(i, f)
    /\ runner' = Parked(runner, i, f, "parked")
    /\ Unmoved

\* A timer rings.
Ring(i, f) ==
    /\ runner.inst[i].flow[f].pc = "parked" /\ ~runner.inst[i].flow[f].doomed
    /\ runner' = [runner EXCEPT !.inst[i].flow[f] = Woken(@)]
    /\ Unmoved

\* A line `when`: its handler lives on after the last line.
When(i) ==
    /\ Goes(i, "main") /\ ~runner.inst[i].handlers /\ ~IsGenerator(runner.inst[i])
    /\ runner' = [AtNext(runner, i, "main") EXCEPT !.inst[i].handlers = TRUE]
    /\ Unmoved

\* Actions of one macro go one at a time; a macro that is over takes none.
Acting(x, pc) == \E f \in Flows : x.flow[f].pc = pc
Free(x) == ~\E pc \in {"act", "send", "sent", "add", "added"} : Acting(x, pc)

Act(i, f) ==
    LET x == runner.inst[i] IN
    /\ Goes(i, f) /\ Free(x) /\ ~IsGenerator(x)
    /\ runner' = IF ~Alive(x) THEN FlowOver(runner, i, f)
                 ELSE IF x.key # None THEN [runner EXCEPT !.inst[i].flow[f].pc = "act"]
                 ELSE IF IsClient(x) THEN [runner EXCEPT !.inst[i].flow[f].pc = "send"]
                 ELSE runner
    /\ Unmoved

Add(i) ==
    LET x == runner.inst[i] IN
    /\ Goes(i, "main") /\ Free(x) /\ Alive(x) /\ x.block = "run" /\ x.key # None /\ i \notin runner.claims
    /\ runner' = [runner EXCEPT !.inst[i].flow["main"].pc = "add"]
    /\ Unmoved

Acted(i, f) ==
    /\ runner.inst[i].flow[f].pc = "act" /\ ~runner.inst[i].flow[f].doomed
    /\ runner' = AtNext(runner, i, f)
    /\ Unmoved

\* The engine announces what the macro sent: a new row, or the standing quote's,
\* which its owner only notes.
Announced(i, o) ==
    LET x == runner.inst[i] IN
    /\ x.flow["main"].pc = "send" /\ ~x.flow["main"].doomed /\ x.made \in {None, o}
    /\ NewOrder(o) \/ orders[o] = "sent"
    /\ orders' = [orders EXCEPT ![o] = "sent"]
    /\ runner' = LET S == [runner EXCEPT !.inst[i].flow["main"].pc = "sent", !.inst[i].made = o] IN
                 IF S.owner[o] = None /\ i \in S.claims
                 THEN Bind([S EXCEPT !.claims = @ \ {i}], i, o)
                 ELSE S
    /\ UNCHANGED << runRows, macroRows, call, acts, calm >>

\* perform returns: a row whose announcement went to another is bound now.
Sent(i) ==
    LET x == runner.inst[i] IN
    /\ x.flow["main"].pc = "sent" /\ ~x.flow["main"].doomed
    /\ runner' = LET S == AtNext(runner, i, "main") IN
                 IF x.key = None THEN Bind(S, i, x.made) ELSE S
    /\ Unmoved

\* `add order`: the order is announced under its list's tag, offered to nobody.
Added(i, o) ==
    LET x == runner.inst[i] IN
    /\ x.flow["main"].pc = "add" /\ ~x.flow["main"].doomed
    /\ NewOrder(o) /\ orders' = [orders EXCEPT ![o] = "added"]
    /\ runner' = [runner EXCEPT !.inst[i].flow["main"].pc = "added"]
    /\ UNCHANGED << runRows, macroRows, call, acts, calm >>

\* perform returns and the order is found: the block under its line is its
\* macro, if the run still takes one.  Nothing happens to an added order
\* before, so that it need not be the one this flow added.
StartMember(i, o) ==
    LET x == runner.inst[i] IN
    /\ x.flow["main"].pc = "added" /\ ~x.flow["main"].doomed
    /\ orders[o] = "added" /\ orders' = [orders EXCEPT ![o] = "sent"]
    /\ runner' = LET S == AtNext(runner, i, "main") IN
                 IF runner.run[x.run].status # "armed" \/ Full(runner, x.run) THEN S
                 ELSE Told(New(S, x.run, "sent", o), NextInstance(S))
    /\ UNCHANGED << runRows, macroRows, call, acts, calm >>

\* The row this macro holds stands for the quote another is sending, not
\* announced yet.
TakesOver(j, i) ==
    LET x == runner.inst[i] y == runner.inst[j] IN
    /\ j # i /\ Acting(y, "send") /\ y.made \in {None, x.key}
    /\ x.key # None /\ orders[x.key] = "sent"

TakenOver(i) == \E j \in Instances : TakesOver(j, i)

\* An action is refused: the macro fails, or goes on with an `error` event -
\* or is detached, in its own flow, which finish does not cancel.
Refused(i, f) ==
    LET x == runner.inst[i]
        next == AtNext(runner, i, f)
    IN
    /\ x.flow[f].pc \in {"act", "send", "sent", "add", "added"} /\ ~x.flow[f].doomed
    /\ IF TakenOver(i)
       THEN /\ \E j \in Instances :
                  /\ TakesOver(j, i)
                  /\ runner' = [Finish(next, i, "detached", f) EXCEPT !.inst[j].made = x.key]
            /\ calm' = FALSE
       ELSE /\ calm' = calm
            /\ \/ runner' = FlowOver(Finish(next, i, "failed", f), i, f)
               \/ \E wakes \in BOOLEAN : runner' = Delivered(next, {i}, wakes)
    /\ UNCHANGED << orders, runRows, macroRows, call, acts >>

\* Every other macro of the run hears a signal, and a block that waits for it starts.
Signal(i, f) ==
    LET x == runner.inst[i] r == x.run
        others == {j \in Of(runner, r) \ {i} : ~IsGenerator(runner.inst[j])}
        Heard(wakes) == Delivered(AtNext(runner, i, f), others, wakes)
    IN
    /\ Goes(i, f) /\ Happens
    /\ \E wakes \in BOOLEAN :
          runner' = IF "signal" \in Macro(runner, r).blocks
                    THEN StartedBlock(Heard(wakes), r, "signal") ELSE Heard(wakes)
    /\ UNCHANGED << orders, runRows, macroRows, call, calm >>

\* A pass of a generator's `repeat`: a macro of its own, or none any more.
Pass(i) ==
    LET r == runner.inst[i].run n == runner.run[r].passes IN
    /\ Goes(i, "main") /\ IsGenerator(runner.inst[i])
    /\ n < Macro(runner, r).repeats
    /\ runner' = LET S == Started(runner, r, "run") IN
                 IF S = runner
                 THEN FlowOver(Finish(runner, i, "completed", "main"), i, "main")
                 ELSE [AtNext(S, i, "main") EXCEPT !.run[r].passes = n + 1]
    /\ Unmoved

\* The last line of the main flow, or of a `when`.
End(i, f) ==
    LET x == runner.inst[i] IN
    /\ Goes(i, f)
    /\ IsGenerator(x) => runner.run[x.run].passes = Macro(runner, x.run).repeats
    /\ runner' = IF f = "when" THEN FlowOver(runner, i, f)
                 ELSE IF x.handlers
                 THEN FlowOver(Changed([runner EXCEPT !.inst[i].status = "listening"], i), i, f)
                 ELSE FlowOver(Finish(runner, i, "completed", f), i, f)
    /\ Unmoved

\* `pass`, `fail`, `stop`, an `expect` in vain.
Verdict(i, f) ==
    /\ Goes(i, f)
    /\ \E status \in Verdicts : runner' = FlowOver(Finish(runner, i, status, f), i, f)
    /\ Unmoved

\* A plausible bug: a task cancelled before its first step never leaves busy.
UnwindsGuarded(i, f) ==
    /\ runner.inst[i].flow[f].doomed
    /\ runner' = IF runner.inst[i].flow[f].pc = "fresh"
                 THEN [runner EXCEPT !.inst[i].flow[f] = [NoFlow EXCEPT !.busy = TRUE]]
                 ELSE FlowOver(runner, i, f)
    /\ Unmoved

\* A cancelled task ends: in _guarded, or in the callback of one never begun.
Unwinds(i, f) ==
    /\ runner.inst[i].flow[f].doomed
    /\ runner' = FlowOver(runner, i, f)
    /\ Unmoved

-----------------------------------------------------------------------------
(* The manager. *)

Gives(c, op, r) ==
    /\ call[c].op = "idle" /\ Happens
    /\ call' = [call EXCEPT ![c] = [op |-> op, run |-> r]]

\* live_runs
IsKnown(r) == runner.run[r].status = "armed" /\ runner.run[r].row # None

Arm(c, m) ==
    \E r \in Runs :
       /\ Gives(c, "insert", r)
       /\ runner.run[r].status = "none" /\ \A s \in 1 .. r - 1 : runner.run[s].status # "none"
       /\ ~IsSending(m) => ~\E s \in Runs : IsKnown(s) /\ Macro(runner, s) = m
       /\ runner' = [runner EXCEPT !.run[r] = [NoRun EXCEPT !.macro = m, !.status = "armed"],
                                   !.subscribed = TRUE]
       /\ UNCHANGED << orders, runRows, macroRows, calm >>

\* The run's row; when it is refused the run is stopped.
InsertRun(c) ==
    /\ call[c].op = "insert"
    /\ runRows' = Append(runRows, "armed")
    /\ call' = [call EXCEPT ![c].op = "name"]
    /\ UNCHANGED << runner, orders, macroRows, acts, calm >>

\* MacroRunner.stop, which also opens the gates of the run.
Opened(R, r) ==
    LET Open(g) == IF g.pc = "gated" /\ ~g.doomed THEN Woken(g) ELSE g IN
    [R EXCEPT !.inst = [i \in Instances |->
        IF R.inst[i].run = r
        THEN [R.inst[i] EXCEPT !.flow = [f \in Flows |-> Open(R.inst[i].flow[f])]]
        ELSE R.inst[i]]]

StoppedRun(R, r) ==
    IF R.run[r].status = "stopped" THEN R
    ELSE Unsubscribed(Opened(AllEnded([R EXCEPT !.run[r].status = "stopped"], Of(R, r), "stopped"), r))

InsertFails(c) ==
    /\ call[c].op = "insert"
    /\ runner' = StoppedRun(runner, call[c].run)
    /\ call' = [call EXCEPT ![c] = Idle]
    /\ UNCHANGED << orders, runRows, macroRows, acts, calm >>

\* The number of the row is read back as the greatest: see RowsTellTrue.
ReadsMax(c) == \E d \in Callers : d # c /\ call[d].op \in {"insert", "name"}

NameRun(c) ==
    /\ call[c].op = "name"
    /\ runner' = [runner EXCEPT !.run[call[c].run].row = Len(runRows)]
    /\ call' = [call EXCEPT ![c].op = "start"]
    /\ calm' = (calm /\ ~ReadsMax(c))
    /\ UNCHANGED << orders, runRows, macroRows, acts >>

StartRun(c) ==
    /\ call[c].op = "start"
    /\ runner' = LET r == call[c].run
                     S == IF IsSending(Macro(runner, r)) THEN StartedBlock(runner, r, "run") ELSE runner
                 IN  MaybeFinished(S, r)
    /\ call' = [call EXCEPT ![c] = Idle]
    /\ UNCHANGED << orders, runRows, macroRows, acts, calm >>

StopRun(c, r) ==
    /\ Gives(c, "settle", r) /\ runner.run[r].row # None
    /\ runner' = IF runner.run[r].status = "armed" THEN StoppedRun(runner, r) ELSE runner
    /\ UNCHANGED << orders, runRows, macroRows, calm >>

\* flush: settle, then the queue's join.
Settled == \A i \in Instances, f \in Flows : ~runner.inst[i].flow[f].busy

Settle(c) ==
    /\ call[c].op = "settle" /\ Settled
    /\ call' = [call EXCEPT ![c].op = "join"]
    /\ UNCHANGED << runner, orders, runRows, macroRows, acts, calm >>

\* _write_run, at the time of the write.
Shown(r) ==
    LET x == runner.run[r] IN IF x.status = "armed" /\ x.paused THEN "paused" ELSE x.status

WrittenRun(r, status) ==
    IF runner.run[r].row = None THEN runRows ELSE [runRows EXCEPT ![runner.run[r].row] = status]

Joined(c) ==
    /\ call[c].op = "join" /\ runner.queue = << >>
    /\ runRows' = WrittenRun(call[c].run, runner.run[call[c].run].status)
    /\ call' = [call EXCEPT ![c] = Idle]
    /\ UNCHANGED << runner, orders, macroRows, acts, calm >>

PauseRun(r) ==
    /\ IsKnown(r) /\ Happens
    /\ runner' = [runner EXCEPT !.run[r].paused = TRUE]
    /\ runRows' = WrittenRun(r, "paused")
    /\ UNCHANGED << orders, macroRows, call, calm >>

ResumeRun(r) ==
    /\ IsKnown(r)
    /\ runner' = Opened([runner EXCEPT !.run[r].paused = FALSE], r)
    /\ runRows' = WrittenRun(r, "armed")
    /\ UNCHANGED << orders, macroRows, call, acts, calm >>

\* The order is given back to whoever is at the keyboard.
Detach(o) ==
    /\ runner.owner[o] # None /\ Happens
    /\ runner' = Finish(runner, runner.owner[o], "detached", "none")
    /\ UNCHANGED << orders, runRows, macroRows, call, calm >>

\* A plausible bug: the row of a run is left as it was.
DrainMacroOnly ==
    /\ runner.queue # << >>
    /\ LET op == Head(runner.queue) IN
       /\ macroRows' = IF op.op = "macro"
                       THEN [macroRows EXCEPT ![runner.run[op.run].row][op.key] = op.status] ELSE macroRows
       /\ runRows' = runRows
    /\ runner' = [runner EXCEPT !.queue = Tail(@)]
    /\ UNCHANGED << orders, call, acts, calm >>

\* The worker writes the macro's row and then its run's (two writes of the
\* queue, one here), or its run's alone.
Drain ==
    /\ runner.queue # << >>
    /\ LET op == Head(runner.queue) IN
       /\ macroRows' = IF op.op = "macro"
                       THEN [macroRows EXCEPT ![runner.run[op.run].row][op.key] = op.status] ELSE macroRows
       /\ runRows' = WrittenRun(op.run, Shown(op.run))
    /\ runner' = [runner EXCEPT !.queue = Tail(@)]
    /\ UNCHANGED << orders, call, acts, calm >>

\* The server goes down and comes up: what was live is interrupted.  A stop of
\* the server stops every run and waits for what is at work; the worker may by
\* then have written the first n of the queue, a run as stopped.  A crash writes
\* none of it.
Restart ==
    LET Interrupted(s, live) == IF s \in live THEN "interrupted" ELSE s
        RowOf(k) == runner.run[runner.queue[k].run].row
        OfMacro(n, r, key) ==
            {k \in 1 .. n : RowOf(k) = r /\ runner.queue[k].op = "macro" /\ runner.queue[k].key = key}
        Last(ks) == CHOOSE k \in ks : \A j \in ks : j <= k
    IN
    /\ Happens
    /\ runner' = [runner EXCEPT
          !.run = [r \in Runs |-> IF @[r].status = "none" THEN @[r] ELSE [NoRun EXCEPT !.status = "gone"]],
          !.inst = [i \in Instances |-> IF @[i].status = "none" THEN @[i] ELSE [NoInstance EXCEPT !.status = "gone"]],
          !.owner = [o \in Orders |-> None], !.claims = {}, !.live = 0, !.subscribed = FALSE, !.queue = << >>]
    /\ \E n \in 0 .. Len(runner.queue) :
          /\ n > 0 => ~Settled
          /\ runRows' = [p \in DOMAIN runRows |->
                IF \E k \in 1 .. n : RowOf(k) = p THEN "stopped" ELSE Interrupted(runRows[p], {"armed", "paused"})]
          /\ macroRows' = [r \in Runs |-> [key \in DOMAIN macroRows[r] |->
                LET ks == OfMacro(n, r, key)
                IN  Interrupted(IF ks = {} THEN macroRows[r][key] ELSE runner.queue[Last(ks)].status,
                                {"running", "listening"})]]
    /\ call' = [c \in Callers |-> Idle]
    /\ UNCHANGED << orders, calm >>

-----------------------------------------------------------------------------

Next ==
    \/ \E o \in Orders : OrderReceived(o) \/ OrderSentByHand(o)
    \/ \E o \in Orders, wakes \in BOOLEAN : OrderEvent(o, wakes)
    \/ \E i \in Instances, f \in Flows :
          \/ Gate(i, f) \/ Wait(i, f) \/ Ring(i, f) \/ Act(i, f) \/ Acted(i, f) \/ Refused(i, f)
          \/ Signal(i, f) \/ End(i, f) \/ Verdict(i, f) \/ Unwinds(i, f)
    \/ \E i \in Instances : When(i) \/ Add(i) \/ Sent(i) \/ Pass(i)
    \/ \E i \in Instances, o \in Orders : Announced(i, o) \/ Added(i, o) \/ StartMember(i, o)
    \/ \E c \in Callers :
          \/ \E m \in Macros : Arm(c, m)
          \/ \E r \in Runs : StopRun(c, r)
          \/ InsertRun(c) \/ InsertFails(c) \/ NameRun(c) \/ StartRun(c) \/ Settle(c) \/ Joined(c)
    \/ \E r \in Runs : PauseRun(r) \/ ResumeRun(r)
    \/ \E o \in Orders : Detach(o)
    \/ Drain
    \/ Restart

Spec == Init /\ [][Next]_vars

-----------------------------------------------------------------------------
(* Properties. *)

\* An order has one macro: the macro an order is owned by is live, in a run
\* that is armed, and holds that order; a live macro that holds an order owns
\* it.  The count of live macros is theirs, and the runner listens exactly
\* while something is armed.
OwnersAgree ==
    calm =>
    /\ \A o \in Orders : runner.owner[o] # None =>
          LET x == runner.inst[runner.owner[o]] IN Alive(x) /\ x.key = o
    /\ \A i \in Instances : LET x == runner.inst[i] IN
          Alive(x) /\ x.key # None => runner.owner[x.key] = i
    /\ runner.live = Cardinality({i \in Instances : Alive(runner.inst[i]) /\ ~IsGenerator(runner.inst[i])})
    /\ runner.subscribed <=> Armed(runner) # {}

\* Nothing of a run that is over is live, and no flow of a macro that is over
\* runs another line.  A run that has started and only sends, or is a test, is
\* over with the last macro it is for.
OverIsOver ==
    calm =>
    /\ \A i \in Instances : LET x == runner.inst[i] IN
          /\ Alive(x) => runner.run[x.run].status = "armed"
          /\ ~Alive(x) => \A f \in FlowsOf(x) : x.flow[f].doomed
    /\ \A r \in Armed(runner) :
          (/\ \A c \in Callers : call[c].run # r
           /\ Waits(Macro(runner, r)) => IsTest(Macro(runner, r)))
          => \E i \in Of(runner, r) :
                LET x == runner.inst[i] IN IF IsClient(x) THEN Alive(x) ELSE AtWork(x)

\* settle waits for work, and for nothing else: a flow is busy while it is at
\* a line, in the engine or not unwound yet, and is not while it is parked or
\* has ended.
BusyIsAtWork ==
    \A i \in Instances, f \in Flows : LET g == runner.inst[i].flow[f] IN
       g.busy <=> g.pc \notin {"off", "parked", "gated"}

\* With nothing left to write or to answer the rows say what is so: of a run of
\* this process its status, and of an order it holds the status of the macro
\* that holds it, or of one that did; of an earlier process nothing is live.
RowsTellTrue ==
    (calm /\ runner.queue = << >> /\ Settled /\ \A c \in Callers : call[c].op = "idle") =>
    /\ \A n \in DOMAIN runRows :
          IF \E r \in Runs : runner.run[r].row = n
          THEN \E r \in Runs : runner.run[r].row = n /\ runRows[n] = Shown(r)
          ELSE /\ runRows[n] \notin {"armed", "paused"}
               /\ \A key \in DOMAIN macroRows[n] : macroRows[n][key] \notin {"running", "listening"}
    /\ \A i \in Instances : LET x == runner.inst[i]
                                held == {j \in Of(runner, x.run) : runner.inst[j].key = x.key}
                            IN  x.key # None =>
          LET status == macroRows[runner.run[x.run].row][x.key] IN
          IF \E j \in held : Alive(runner.inst[j]) THEN Alive(x) => status = x.status
          ELSE \E j \in held : status = runner.inst[j].status

\* What MacroManager.stop says of itself: it shuts down without a word in the
\* tables, and what was live is marked interrupted.
StopSaysNothing ==
    [][Restart => \A r \in Armed(runner) : LET row == runner.run[r].row IN
          row # None => runRows'[row] = "interrupted"]_vars
=============================================================================
