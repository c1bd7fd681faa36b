---------------------------- MODULE MacroRunsMC ----------------------------
(* Runs of macros: one that sends in passes, one that sends, adds and hears a *)
(* signal, a desk that waits, and a test of both sides.                       *)
EXTENDS MacroRuns, TLC

Symmetry == Permutations(Callers)

Passes == [side |-> "client", blocks |-> {"run"}, repeats |-> 2]
Sender == [side |-> "client", blocks |-> {"run", "signal", "sent"}, repeats |-> 0]
Desk == [side |-> "market", blocks |-> {"order"}, repeats |-> 0]
Test == [side |-> "e2e", blocks |-> {"run", "order"}, repeats |-> 0]
MCMacros == {Passes, Sender, Desk, Test}

\* Bounds on what goes together.  A `when` is explored in one macro at a time,
\* not beside passes, and beside one order, as a second run of a desk or a test.
\* The worker is one write behind, and three once a run is over: the macro that
\* is its run's last queues two at once, and that of a test one more for each it
\* leaves listening.
IsOver(r) == runner.run[r].status \in {"finished", "stopped"}
Handling == {i \in Instances : runner.inst[i].handlers}
Few ==
    /\ Len(runner.queue) <= IF \E r \in Runs : IsOver(r) THEN 3 ELSE 1
    /\ Cardinality(Handling) <= 1
    /\ \A i \in Handling : Macro(runner, runner.inst[i].run) # Passes
    /\ Handling # {} => orders[2] = "none"
    /\ \A r \in Runs : runner.run[r].status # "none" => r = 1 \/
            /\ \A s \in Runs : runner.run[s].macro \in {Desk, Test}
            /\ Handling = {} /\ orders[2] = "none" /\ \A s \in Runs : ~runner.run[s].paused
=============================================================================
