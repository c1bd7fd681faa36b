-------------------------- MODULE MacroRunsProofs --------------------------
(***************************************************************************)
(* What holds of the runner of macros for any macros, callers and bounds:   *)
(* an order has one macro, nothing of a run that is over is live, a run     *)
(* goes on only for a macro at work, and the rows tell the truth.  The      *)
(* operators from a runner to a runner are taken one by one: what each      *)
(* keeps, what it restores, and what it tells the worker.                   *)
(***************************************************************************)
EXTENDS MacroRuns, FiniteSetTheorems, SequenceTheorems, WellFoundedInduction, TLAPS

Places == {"off", "fresh", "line", "parked", "gated", "act", "send", "sent", "add", "added"}
AtRest == {"off", "parked", "gated"}
Lives == {"running", "listening"}
Ends == {"completed", "passed", "failed", "detached", "stopped"}
Statuses == {"none", "gone"} \union Lives \union Ends
RunStatuses == {"none", "armed", "finished", "stopped", "gone"}
Blocks == {"none", "run", "order", "sent", "signal", "generator"}
Keys == Orders \union {None}
RowKeys == Orders \union {-i : i \in Instances}

Flow == [pc : Places, busy : BOOLEAN, doomed : BOOLEAN]
Instance == [run : Runs \union {None}, block : Blocks, key : Keys, made : Keys, status : Statuses,
             told : {<< >>} \union (Keys \X Statuses), handlers : BOOLEAN, flow : [Flows -> Flow]]
Run == [macro : Macros \union {NoRun.macro}, status : RunStatuses, paused : BOOLEAN, row : Nat, passes : Nat]
Op == [op : {"macro"}, run : Runs, key : RowKeys, status : Statuses] \union [op : {"ended"}, run : Runs]
Runner == [run : [Runs -> Run], inst : [Instances -> Instance], owner : [Orders -> Instances \union {None}],
           claims : SUBSET Instances, live : Int, subscribed : BOOLEAN, queue : Seq(Op)]

(* What is so of a macro at any time, in the middle of an operator too.     *)

InstOK(x) ==
    /\ x.run = None <=> x.status \in {"none", "gone"}
    /\ x.run = None => \A f \in Flows : x.flow[f] = NoFlow
    /\ \A f \in Flows : x.flow[f].busy <=> x.flow[f].pc \notin AtRest
    /\ x.flow["main"].pc = "sent" /\ ~x.flow["main"].doomed => x.made # None
    /\ x.flow["main"].pc = "send" /\ ~x.flow["main"].doomed => x.key = None

Shape(R) ==
    /\ R \in Runner
    /\ \A i \in Instances : InstOK(R.inst[i])
    /\ \A o \in Orders : R.owner[o] # None => R.inst[R.owner[o]].run # None

(* What is so of a runner: of claims and counts, of owners, of runs that     *)
(* are over, and of the flows of macros that are over, but for flow f of i. *)

LiveOnes(R) == {i \in Instances : Alive(R.inst[i]) /\ ~IsGenerator(R.inst[i])}
Counts(R) ==
    /\ \A i \in R.claims : Alive(R.inst[i])
    /\ R.live = Cardinality(LiveOnes(R))

Owns(R) ==
    /\ \A o \in Orders : R.owner[o] # None => Alive(R.inst[R.owner[o]]) /\ R.inst[R.owner[o]].key = o
    /\ \A i \in Instances : Alive(R.inst[i]) /\ R.inst[i].key # None => R.owner[R.inst[i].key] = i

LivesArmed(R) == \A i \in Instances : Alive(R.inst[i]) => R.run[R.inst[i].run].status = "armed"

Listens(R) == R.subscribed <=> Armed(R) # {}

Quiet(g) == g.pc = "off" \/ g.doomed
Unwound(R, i, f) ==
    \A j \in Instances, h \in Flows : ~Alive(R.inst[j]) /\ ~(j = i /\ h = f) => Quiet(R.inst[j].flow[h])

SoundBut(R, i, f) == Shape(R) /\ Counts(R) /\ Owns(R) /\ LivesArmed(R) /\ Listens(R) /\ Unwound(R, i, f)
Sound(R) == SoundBut(R, None, "none")

(* A run that only sends, or is a test, has a macro it goes on for.         *)

Works(x) == IF IsClient(x) THEN Alive(x) ELSE AtWork(x)
Driven(R, r) ==
    R.run[r].status = "armed" /\ (Waits(Macro(R, r)) => IsTest(Macro(R, r)))
        => \E i \in Instances : R.inst[i].run = r /\ Works(R.inst[i])

\* One runner after another: what was driven still is, and nothing new is
\* owned or made.
Drives(R, T) == \A r \in Runs : Driven(R, r) => Driven(T, r)
Fewer(R, T) ==
    /\ \A o \in Orders : T.owner[o] \in {None, R.owner[o]}
    /\ \A i \in Instances : T.inst[i].made \in {None, R.inst[i].made}

-----------------------------------------------------------------------------
(* Changes that keep every macro what it is.                                *)

Kin(x, y) ==
    /\ y.run = x.run /\ y.block = x.block /\ y.key = x.key
    /\ Alive(y) <=> Alive(x)
    /\ AtWork(x) => AtWork(y)
    /\ ~Alive(x) => \A f \in Flows : Quiet(x.flow[f]) => Quiet(y.flow[f])

Akin(R, T) ==
    /\ \A r \in Runs : T.run[r].status = R.run[r].status /\ T.run[r].macro = R.run[r].macro
    /\ T.owner = R.owner /\ T.claims = R.claims /\ T.live = R.live /\ T.subscribed = R.subscribed
    /\ \A i \in Instances : Kin(R.inst[i], T.inst[i])

LEMMA AkinKeeps ==
  ASSUME NEW R, NEW T, NEW a, NEW b, Shape(R), Shape(T), Akin(R, T)
  PROVE  /\ SoundBut(R, a, b) => SoundBut(T, a, b)
         /\ Drives(R, T)
         /\ Counts(R) => Counts(T)
         /\ Owns(R) => Owns(T)
         /\ LivesArmed(R) => LivesArmed(T)
         /\ Unwound(R, a, b) => Unwound(T, a, b)
<1> USE DEF Shape
<1>1. LiveOnes(T) = LiveOnes(R)
  BY DEF LiveOnes, Akin, Kin, IsGenerator
<1>2. Armed(T) = Armed(R)
  BY DEF Armed, Akin
<1>3. Counts(R) => Counts(T)
  <2>1. R.claims \subseteq Instances
    BY DEF Runner
  <2> QED
    BY <1>1, <2>1 DEF Counts, Akin, Kin
<1>4. Owns(R) => Owns(T)
  <2>1. \A o \in Orders : R.owner[o] \in Instances \union {None}
    BY DEF Runner
  <2> QED
    BY <2>1 DEF Owns, Akin, Kin
<1>5. LivesArmed(R) => LivesArmed(T)
  <2>1. \A i \in Instances : Alive(R.inst[i]) => R.inst[i].run \in Runs
    BY DEF Runner, Instance, InstOK, Alive
  <2> QED
    BY <2>1 DEF LivesArmed, Akin, Kin
<1>6. Listens(R) => Listens(T)
  BY <1>2 DEF Listens, Akin
<1>7. Unwound(R, a, b) => Unwound(T, a, b)
  BY DEF Unwound, Akin, Kin
<1>8. ASSUME NEW r \in Runs, Driven(R, r) PROVE Driven(T, r)
  <2>1. Macro(T, r) = Macro(R, r) /\ T.run[r].status = R.run[r].status
    BY DEF Macro, Akin
  <2>2. ASSUME NEW i \in Instances, R.inst[i].run = r, Works(R.inst[i])
        PROVE  T.inst[i].run = r /\ Works(T.inst[i])
    <3>1. IsClient(T.inst[i]) <=> IsClient(R.inst[i])
      BY DEF Akin, Kin, IsClient
    <3> QED
      BY <2>2, <3>1 DEF Works, Akin, Kin
  <2> QED
    BY <1>8, <2>1, <2>2 DEF Driven
<1> QED
  BY <1>3, <1>4, <1>5, <1>6, <1>7, <1>8 DEF SoundBut, Drives

\* One macro changed into another of its kin.
LEMMA PutKeeps ==
  ASSUME NEW R, Shape(R), NEW i \in Instances, NEW y \in Instance, InstOK(y), Kin(R.inst[i], y)
  PROVE  LET T == [R EXCEPT !.inst[i] = y] IN
         /\ Shape(T) /\ Akin(R, T)
         /\ T.run = R.run /\ T.owner = R.owner /\ T.claims = R.claims
         /\ T.inst[i] = y
         /\ \A j \in Instances : j # i => T.inst[j] = R.inst[j]
<1> DEFINE T == [R EXCEPT !.inst[i] = y]
<1>0. R \in Runner
  BY DEF Shape
<1>1. /\ T.run = R.run /\ T.owner = R.owner /\ T.claims = R.claims /\ T.live = R.live
      /\ T.subscribed = R.subscribed /\ T.queue = R.queue
  BY <1>0 DEF Runner
<1>2. T.inst[i] = y /\ \A j \in Instances : j # i => T.inst[j] = R.inst[j]
  BY <1>0 DEF Runner
<1>3. T \in Runner
  BY <1>0 DEF Runner
<1>4. \A x : Kin(x, x)
  BY DEF Kin
<1>5. \A j \in Instances : Kin(R.inst[j], T.inst[j]) /\ InstOK(T.inst[j])
  BY <1>2, <1>4 DEF Shape
<1> HIDE DEF T
<1>6. \A o \in Orders : T.owner[o] # None => T.inst[T.owner[o]].run # None
  <2>1. \A o \in Orders : R.owner[o] \in Instances \union {None}
    BY <1>0 DEF Runner
  <2> QED
    BY <1>1, <1>5, <2>1 DEF Shape, Kin
<1>7. Shape(T) /\ Akin(R, T)
  BY <1>1, <1>3, <1>5, <1>6 DEF Shape, Akin
<1> QED
  BY <1>1, <1>2, <1>7 DEF T

\* A run changed.
LEMMA PutRun ==
  ASSUME NEW R, Shape(R), NEW r \in Runs, NEW y \in Run
  PROVE  LET T == [R EXCEPT !.run[r] = y] IN
         /\ Shape(T)
         /\ T.inst = R.inst /\ T.owner = R.owner /\ T.claims = R.claims /\ T.live = R.live
         /\ T.subscribed = R.subscribed
         /\ T.run[r] = y
         /\ \A s \in Runs : s # r => T.run[s] = R.run[s]
<1> DEFINE T == [R EXCEPT !.run[r] = y]
<1>1. R \in Runner
  BY DEF Shape
<1>2. /\ T \in Runner
      /\ T.inst = R.inst /\ T.owner = R.owner /\ T.claims = R.claims /\ T.live = R.live
      /\ T.subscribed = R.subscribed
      /\ T.run[r] = y
      /\ \A s \in Runs : s # r => T.run[s] = R.run[s]
  BY <1>1 DEF Runner
<1> QED
  BY <1>2 DEF Shape

\* What a queued line about a macro changes: nothing but what was told.
Twin(x, y) ==
    /\ y.run = x.run /\ y.block = x.block /\ y.key = x.key /\ y.made = x.made /\ y.status = x.status
    /\ y.handlers = x.handlers /\ y.flow = x.flow

Alike(R, T) ==
    /\ T.run = R.run /\ T.owner = R.owner /\ T.claims = R.claims /\ T.live = R.live
    /\ T.subscribed = R.subscribed
    /\ \A i \in Instances : Twin(R.inst[i], T.inst[i])

LEMMA TwinFacts ==
  ASSUME NEW x, NEW y, Twin(x, y)
  PROVE  Kin(x, y) /\ (InstOK(x) => InstOK(y)) /\ (Alive(y) <=> Alive(x)) /\ FlowsOf(y) = FlowsOf(x)
<1>1. FlowsOf(y) = FlowsOf(x) /\ (Alive(y) <=> Alive(x))
  BY DEF Twin, FlowsOf, Alive
<1> QED
  BY <1>1 DEF Twin, Kin, AtWork, InstOK

LEMMA AlikeFacts ==
  ASSUME NEW R, NEW T, Shape(R), T \in Runner, Alike(R, T)
  PROVE  Shape(T) /\ Akin(R, T) /\ Fewer(R, T)
<1>1. \A i \in Instances : Kin(R.inst[i], T.inst[i]) /\ InstOK(T.inst[i])
  BY TwinFacts DEF Alike, Shape
<1>2. Akin(R, T)
  BY <1>1 DEF Akin, Alike
<1>3. \A o \in Orders : R.owner[o] \in Instances \union {None}
  BY DEF Shape, Runner
<1>4. Shape(T)
  BY <1>1, <1>3 DEF Shape, Alike, Twin
<1> QED
  BY <1>2, <1>4 DEF Fewer, Alike, Twin

LEMMA ToldKeeps ==
  ASSUME NEW R, Shape(R), NEW i \in Instances, R.inst[i].run # None
  PROVE  Told(R, i) \in Runner /\ Alike(R, Told(R, i)) /\ Shape(Told(R, i)) /\ Akin(R, Told(R, i)) /\ Fewer(R, Told(R, i))
         /\ \A j \in Instances : j # i => Told(R, i).inst[j] = R.inst[j]
<1> DEFINE x == R.inst[i]
           op == [op |-> "macro", run |-> x.run, key |-> IF x.key = None THEN -i ELSE x.key, status |-> x.status]
           T == [Queued(R, op) EXCEPT !.inst[i].told = << x.key, x.status >>]
           y == [x EXCEPT !.told = << x.key, x.status >>]
           q == Append(R.queue, op)
<1>0. R \in Runner /\ x \in Instance
  BY DEF Shape, Runner
<1>1. op \in Op
  BY <1>0 DEF Op, Instance, RowKeys, Keys
<1>2. q \in Seq(Op)
  BY <1>0, <1>1, AppendProperties DEF Runner
<1>3. << x.key, x.status >> \in Keys \X Statuses
  BY <1>0 DEF Instance
<1>4. y \in Instance /\ Twin(x, y)
  BY <1>0, <1>3 DEF Instance, Twin
<1>5. T = [R EXCEPT !.queue = q, !.inst[i] = y]
  BY <1>0 DEF Queued, Runner
<1> HIDE DEF y, q, op
<1>6. /\ T \in Runner /\ T.run = R.run /\ T.owner = R.owner /\ T.claims = R.claims /\ T.live = R.live
      /\ T.subscribed = R.subscribed
      /\ T.inst[i] = y /\ \A j \in Instances : j # i => T.inst[j] = R.inst[j]
  <2> DEFINE z == [R.inst EXCEPT ![i] = y]
  <2>1. z \in [Instances -> Instance] /\ z[i] = y /\ \A j \in Instances : j # i => z[j] = R.inst[j]
    BY <1>0, <1>4 DEF Runner
  <2>2. /\ T.run = R.run /\ T.inst = z /\ T.owner = R.owner /\ T.claims = R.claims /\ T.live = R.live
        /\ T.subscribed = R.subscribed /\ T.queue = q
        /\ T = [run |-> R.run, inst |-> z, owner |-> R.owner, claims |-> R.claims, live |-> R.live,
                subscribed |-> R.subscribed, queue |-> q]
    <3>1. R = [run |-> R.run, inst |-> R.inst, owner |-> R.owner, claims |-> R.claims, live |-> R.live,
               subscribed |-> R.subscribed, queue |-> R.queue]
      BY <1>0 DEF Runner
    <3>2. T = [R EXCEPT !.inst = z, !.queue = q]
      BY <1>5, Zenon
    <3> HIDE DEF z, T
    <3> QED
      BY <3>1, <3>2
  <2> HIDE DEF z
  <2>3. T \in Runner
    BY <1>0, <1>2, <2>1, <2>2 DEF Runner
  <2> QED
    BY <2>1, <2>2, <2>3
<1> HIDE DEF T
<1>7. \A z : Twin(z, z)
  BY DEF Twin
<1>8. Alike(R, T) /\ Alike(R, R)
  BY <1>4, <1>6, <1>7 DEF Alike
<1>9. Told(R, i) \in {R, T}
  BY Zenon DEF Told, T, op
<1>10. /\ Told(R, i) \in Runner /\ Alike(R, Told(R, i))
       /\ \A j \in Instances : j # i => Told(R, i).inst[j] = R.inst[j]
  BY <1>0, <1>6, <1>8, <1>9
<1> QED
  BY <1>10, AlikeFacts

-----------------------------------------------------------------------------
(* The end of macros.                                                       *)

\* The live macros are so many; one more, or one fewer.
LEMMA LiveCount ==
  ASSUME NEW S, S \subseteq Instances
  PROVE  /\ Cardinality(S) \in Nat
         /\ \A i \in Instances : i \notin S => Cardinality(S \union {i}) = Cardinality(S) + 1
         /\ \A i \in S : Cardinality(S \ {i}) = Cardinality(S) - 1
<1>1. MaxMacros \in Nat
  BY MacroRunsAssumption
<1>2. IsFiniteSet(Instances)
  BY <1>1, FS_Interval DEF Instances
<1>3. IsFiniteSet(S)
  BY <1>2, FS_Subset
<1> QED
  BY <1>3, FS_CardinalityType, FS_AddElement, FS_RemoveElement

\* What the macros of a set come to when the live ones of them end; a flow
\* `but`, in which one of them ended itself, is not cancelled.
Over(x, y, but) ==
    /\ y.run = x.run /\ y.block = x.block /\ y.key = x.key /\ y.status \in Ends
    /\ \A f \in Flows : f # but => Quiet(y.flow[f])

EndsOf(R, T, is, but) ==
    /\ T.run = R.run /\ T.subscribed = R.subscribed
    /\ \A j \in Instances : IF j \in is /\ Alive(R.inst[j]) THEN Over(R.inst[j], T.inst[j], but)
                            ELSE T.inst[j] = R.inst[j]
    /\ \A o \in Orders : T.owner[o] = IF R.owner[o] \in is /\ Alive(R.inst[R.owner[o]]) THEN None ELSE R.owner[o]
    /\ T.claims = {j \in R.claims : ~(j \in is /\ Alive(R.inst[j]))}
    /\ Counts(R) => Counts(T)
    /\ Fewer(R, T)

LEMMA EndedEnds ==
  ASSUME NEW R, Shape(R), NEW i \in Instances, NEW status \in Ends, NEW but,
         but = "main" => R.inst[i].flow["main"].pc # "sent"
  PROVE  Shape(Ended(R, i, status, but)) /\ EndsOf(R, Ended(R, i, status, but), {i}, but)
<1> DEFINE E == Ended(R, i, status, but)
           x == R.inst[i]
<1>0. R \in Runner /\ x \in Instance /\ InstOK(x)
  BY DEF Shape, Runner
<1>1. CASE ~Alive(x)
  <2>1. E = R
    BY <1>1 DEF Ended
  <2>2. EndsOf(R, R, {i}, but)
    <3>1. R.claims = {j \in R.claims : ~(j \in {i} /\ Alive(R.inst[j]))}
      BY <1>1
    <3>2. \A o \in Orders : R.owner[o] = IF R.owner[o] \in {i} /\ Alive(R.inst[R.owner[o]]) THEN None ELSE R.owner[o]
      BY <1>1
    <3>3. \A j \in Instances : IF j \in {i} /\ Alive(R.inst[j]) THEN Over(R.inst[j], R.inst[j], but)
                               ELSE R.inst[j] = R.inst[j]
      BY <1>1
    <3> QED
      BY <3>1, <3>2, <3>3 DEF EndsOf, Fewer
  <2> QED
    BY <2>1, <2>2
<1>2. CASE Alive(x)
  <2> DEFINE Cancel(f) == IF f = but \/ x.flow[f].pc = "off" THEN x.flow[f] ELSE [x.flow[f] EXCEPT !.doomed = TRUE]
             z == [x EXCEPT !.status = status]
             Q == [R EXCEPT !.inst[i] = z]
             S == Told(Q, i)
             flows == [f \in Flows |-> Cancel(f)]
             owners == [o \in Orders |-> IF R.owner[o] = i THEN None ELSE R.owner[o]]
             count == IF IsGenerator(x) THEN S.live ELSE S.live - 1
             y == [S.inst[i] EXCEPT !.flow = flows, !.handlers = FALSE, !.made = None]
             T == [S EXCEPT !.inst[i] = y, !.owner = owners, !.claims = S.claims \ {i}, !.live = count]
  <2>1. E = T
    <3>1. [R EXCEPT !.inst[i].status = status] = Q
      BY <1>0 DEF Runner
    <3> QED
      BY <1>2, <3>1, Zenon DEF Ended
  <2>2. z \in Instance /\ z.status = status /\ z.run = x.run /\ z.block = x.block /\ z.key = x.key /\ z.flow = x.flow
        /\ z.made = x.made
    BY <1>0 DEF Instance, Statuses
  <2>3. /\ Q \in Runner /\ Q.run = R.run /\ Q.owner = R.owner /\ Q.claims = R.claims /\ Q.live = R.live
        /\ Q.subscribed = R.subscribed
        /\ Q.inst[i] = z /\ \A j \in Instances : j # i => Q.inst[j] = R.inst[j]
    BY <1>0, <2>2 DEF Runner
  <2>4. x.run # None /\ x.run \in Runs
    BY <1>0, <1>2 DEF InstOK, Alive, Instance
  <2>5. InstOK(z)
    BY <1>0, <2>2, <2>4 DEF InstOK, Ends
  <2> HIDE DEF z, Q
  <2>6. Shape(Q)
    <3>1. \A o \in Orders : R.owner[o] \in Instances \union {None}
      BY <1>0 DEF Runner
    <3> QED
      BY <2>2, <2>3, <2>4, <2>5, <3>1 DEF Shape
  <2>7. S \in Runner /\ Alike(Q, S) /\ \A j \in Instances : j # i => S.inst[j] = Q.inst[j]
    BY <2>2, <2>3, <2>4, <2>6, ToldKeeps
  <2> HIDE DEF S
  <2>8. flows \in [Flows -> Flow] /\ \A f \in Flows : flows[f] = Cancel(f)
    BY <1>0 DEF Instance, Flow
  <2>9. /\ S.inst[i] \in Instance /\ S.inst[i].run = x.run /\ S.inst[i].block = x.block /\ S.inst[i].key = x.key
        /\ S.inst[i].status = status
    BY <2>2, <2>3, <2>7 DEF Alike, Twin, Runner
  <2> HIDE DEF flows
  <2>10. /\ y \in Instance /\ y.run = x.run /\ y.block = x.block /\ y.key = x.key /\ y.status = status
         /\ y.made = None /\ y.flow = flows
    BY <2>8, <2>9 DEF Instance, Keys
  <2>11. InstOK(y)
    <3>1. \A f \in Flows : x.flow[f] \in Flow
      BY <1>0 DEF Instance
    <3>2. \A f \in Flows : /\ flows[f].pc = x.flow[f].pc /\ flows[f].busy = x.flow[f].busy
                           /\ x.flow[f].doomed => flows[f].doomed
                           /\ f # but => Quiet(flows[f])
      BY <2>8, <3>1 DEF Flow, Quiet
    <3>3. "main" \in Flows
      BY DEF Flows
    <3>4. flows["main"].pc # "sent" \/ flows["main"].doomed
      BY <3>2, <3>3 DEF Quiet
    <3> QED
      BY <1>0, <2>4, <2>10, <3>2, <3>3, <3>4 DEF InstOK, Ends
  <2>12. Over(x, y, but)
    <3>1. \A f \in Flows : x.flow[f] \in Flow
      BY <1>0 DEF Instance
    <3> QED
      BY <2>8, <2>10, <3>1 DEF Over, Flow, Quiet
  <2> HIDE DEF y
  <2>13. owners \in [Orders -> Instances \union {None}] /\ count \in Int
    BY <1>0, <2>7 DEF Runner
  <2>14. /\ T \in Runner /\ T.run = S.run /\ T.owner = owners /\ T.claims = S.claims \ {i} /\ T.live = count
         /\ T.subscribed = S.subscribed
         /\ T.inst[i] = y /\ \A j \in Instances : j # i => T.inst[j] = S.inst[j]
    <3> HIDE DEF owners, count
    <3> QED
      BY <2>7, <2>10, <2>13 DEF Runner
  <2> HIDE DEF T
  <2>15. /\ \A o \in Orders : T.owner[o] = IF R.owner[o] = i THEN None ELSE R.owner[o]
         /\ T.claims = R.claims \ {i} /\ T.run = R.run /\ T.subscribed = R.subscribed
         /\ T.live = IF IsGenerator(x) THEN R.live ELSE R.live - 1
    BY <2>3, <2>7, <2>14 DEF Alike
  <2>16. /\ T.inst[i] = y /\ \A j \in Instances : j # i => T.inst[j] = R.inst[j]
    BY <2>3, <2>7, <2>14
  <2>17. \A o \in Orders : R.owner[o] \in Instances \union {None}
    BY <1>0 DEF Runner
  <2>18. Shape(T)
    BY <2>4, <2>10, <2>11, <2>14, <2>15, <2>16, <2>17 DEF Shape
  <2>19. Fewer(R, T)
    BY <2>10, <2>15, <2>16 DEF Fewer
  <2>20. ASSUME Counts(R) PROVE Counts(T)
    <3>1. ~Alive(T.inst[i])
      BY <2>10, <2>16 DEF Alive, Ends
    <3>2. LiveOnes(T) = LiveOnes(R) \ {i}
      BY <2>16, <3>1 DEF LiveOnes
    <3>3. R.live = Cardinality(LiveOnes(R)) /\ LiveOnes(R) \subseteq Instances
      BY <2>20 DEF Counts, LiveOnes
    <3>4. i \in LiveOnes(R) <=> ~IsGenerator(x)
      BY <1>2 DEF LiveOnes
    <3>5. T.live = Cardinality(LiveOnes(T))
      <4>1. CASE IsGenerator(x)
        <5>1. LiveOnes(T) = LiveOnes(R)
          BY <3>2, <3>4, <4>1
        <5> QED
          BY <2>15, <3>3, <4>1, <5>1
      <4>2. CASE ~IsGenerator(x)
        BY <2>15, <3>2, <3>3, <3>4, <4>2, LiveCount
      <4> QED
        BY <4>1, <4>2
    <3>6. \A j \in T.claims : Alive(T.inst[j])
      <4>1. R.claims \subseteq Instances
        BY <1>0 DEF Runner
      <4> QED
        BY <2>15, <2>16, <2>20, <4>1 DEF Counts
    <3> QED
      BY <3>5, <3>6 DEF Counts
  <2>21. T.claims = {j \in R.claims : ~(j \in {i} /\ Alive(R.inst[j]))}
    BY <1>2, <2>15
  <2>22. \A o \in Orders : T.owner[o] = IF R.owner[o] \in {i} /\ Alive(R.inst[R.owner[o]]) THEN None ELSE R.owner[o]
    BY <1>2, <2>15
  <2>23. \A j \in Instances : IF j \in {i} /\ Alive(R.inst[j]) THEN Over(R.inst[j], T.inst[j], but)
                              ELSE T.inst[j] = R.inst[j]
    BY <1>2, <2>12, <2>16
  <2>24. EndsOf(R, T, {i}, but)
    BY <2>15, <2>19, <2>20, <2>21, <2>22, <2>23 DEF EndsOf
  <2> QED
    BY <2>1, <2>18, <2>24
<1> QED
  BY <1>1, <1>2

\* Every set of numbers that is not empty has a least one.
LEMMA LeastNumber ==
  ASSUME NEW T, T \subseteq Nat, T # {}
  PROVE  \E x \in T : \A y \in T : x <= y
<1>1. PICK x \in T : \A y \in T : ~ (<< y, x >> \in OpToRel(<, Nat))
  BY NatLessThanWellFounded, WFMin, Zenon
<1>2. ASSUME NEW y \in T PROVE x <= y
  <2>1. ~ (y < x)
    BY <1>1, Zenon DEF OpToRel
  <2> QED
    BY <2>1
<1> QED
  BY <1>2

LEMMA GreatestOf ==
  ASSUME NEW n \in Nat, NEW T, T \subseteq 1 .. n, T # {}
  PROVE  \E x \in T : \A y \in T : y <= x
<1> DEFINE D == {n - x : x \in T}
<1>1. D \subseteq Nat /\ D # {}
  <2>1. D \subseteq Nat
    OBVIOUS
  <2>2. PICK x \in T : TRUE
    OBVIOUS
  <2>3. n - x \in D
    OBVIOUS
  <2> HIDE DEF D
  <2> QED
    BY <2>1, <2>3
<1>2. PICK d \in D : \A e \in D : d <= e
  <2> HIDE DEF D
  <2> QED
    BY <1>1, LeastNumber
<1>3. PICK x \in T : d = n - x
  BY <1>2
<1>4. ASSUME NEW y \in T PROVE y <= x
  <2>1. n - y \in D
    OBVIOUS
  <2>2. n - x <= n - y /\ x \in 1 .. n /\ y \in 1 .. n
    BY <1>2, <1>3, <2>1
  <2> QED
    BY <2>2
<1> QED
  BY <1>4

\* What holds of 0, and of n when it holds of n - 1, holds up to any number.
LEMMA EveryNumber ==
  ASSUME NEW N \in Nat, NEW S, 0 \in S, \A n \in 1 .. N : n - 1 \in S => n \in S
  PROVE  0 .. N \subseteq S
<1> DEFINE T == 0 .. N \ S
<1>1. ASSUME T # {} PROVE FALSE
  <2>1. PICK x \in T : \A y \in T : x <= y
    <3>1. T \subseteq Nat
      OBVIOUS
    <3> HIDE DEF T
    <3> QED
      BY <1>1, <3>1, LeastNumber
  <2>2. x \in 1 .. N /\ x - 1 \in 0 .. N /\ x - 1 \notin T
    BY <2>1
  <2> QED
    BY <2>1, <2>2
<1> QED
  BY <1>1

\* The runners on the way from R to one in which the live macros of `is` have
\* ended, one by one.
Ending(g, R, is, status, N) ==
    g = [n \in 0 .. N |-> IF n = 0 THEN R
                          ELSE IF n \in is THEN Ended(g[n - 1], n, status, "none") ELSE g[n - 1]]

LEMMA EndingExists ==
  ASSUME NEW R, NEW is, NEW status, NEW N \in Nat
  PROVE  \E g : Ending(g, R, is, status, N)
<1> DEFINE Next1(g, n) == IF n \in is THEN Ended(g[n - 1], n, status, "none") ELSE g[n - 1]
           S == {n \in 0 .. N : \E g : Ending(g, R, is, status, n)}
<1>1. 0 \in S
  <2> DEFINE g == [n \in 0 .. 0 |-> R]
  <2>1. Ending(g, R, is, status, 0)
    BY DEF Ending
  <2> QED
    BY <2>1
<1>2. ASSUME NEW n \in 1 .. N, n - 1 \in S PROVE n \in S
  <2>1. PICK g : Ending(g, R, is, status, n - 1)
    BY <1>2
  <2> DEFINE h == [k \in 0 .. n |-> IF k = n THEN Next1(g, n) ELSE g[k]]
  <2>2. \A k \in 0 .. n - 1 : g[k] = IF k = 0 THEN R ELSE Next1(g, k)
    BY <2>1 DEF Ending
  <2>3. \A k \in 0 .. n - 1 : h[k] = g[k]
    OBVIOUS
  <2>4. h[n] = Next1(g, n)
    OBVIOUS
  <2>5. h = [k \in 0 .. n |-> h[k]]
    OBVIOUS
  <2> HIDE DEF h
  <2>6. ASSUME NEW k \in 0 .. n PROVE h[k] = IF k = 0 THEN R ELSE Next1(h, k)
    <3>1. CASE k = 0
      BY <2>2, <2>3, <3>1
    <3>2. CASE k # 0
      <4>1. k - 1 \in 0 .. n - 1
        BY <3>2
      <4>2. h[k - 1] = g[k - 1]
        BY <2>3, <4>1
      <4>3. Next1(h, k) = Next1(g, k)
        BY <4>2, Zenon
      <4>4. h[k] = Next1(g, k)
        <5>1. CASE k = n
          BY <2>4, <5>1
        <5>2. CASE k # n
          BY <2>2, <2>3, <3>2, <5>2
        <5> QED
          BY <5>1, <5>2
      <4> QED
        BY <3>2, <4>3, <4>4
    <3> QED
      BY <3>1, <3>2
  <2>7. Ending(h, R, is, status, n)
    BY <2>5, <2>6 DEF Ending
  <2> QED
    BY <2>7
<1> HIDE DEF S
<1>3. N \in S
  BY <1>1, <1>2, EveryNumber
<1> QED
  BY <1>3 DEF S

\* The ends of some macros, and then of another.
LEMMA EndsOneMore ==
  ASSUME NEW R, NEW S, NEW T, NEW is, NEW i \in Instances, i \notin is,
         Shape(R), Shape(S), EndsOf(R, S, is, "none"), EndsOf(S, T, {i}, "none")
  PROVE  EndsOf(R, T, is \union {i}, "none")
<1>0. \A o \in Orders : R.owner[o] \in Instances \union {None} /\ S.owner[o] \in Instances \union {None}
  BY DEF Shape, Runner
<1>1. S.inst[i] = R.inst[i]
  BY DEF EndsOf
<1>2. \A j \in Instances : j \in is /\ Alive(R.inst[j]) => ~Alive(S.inst[j])
  BY DEF EndsOf, Over, Alive, Ends
<1>3. \A j \in Instances : j # i => T.inst[j] = S.inst[j]
  BY DEF EndsOf
<1>4. \A j \in Instances : IF j \in is \union {i} /\ Alive(R.inst[j]) THEN Over(R.inst[j], T.inst[j], "none")
                           ELSE T.inst[j] = R.inst[j]
  BY <1>1, <1>3 DEF EndsOf
<1>5. None \notin Instances
  BY DEF Instances, None
<1>6. \A o \in Orders : T.owner[o] = IF R.owner[o] \in is \union {i} /\ Alive(R.inst[R.owner[o]]) THEN None
                                     ELSE R.owner[o]
  BY <1>0, <1>1, <1>5 DEF EndsOf
<1>7. R.claims \subseteq Instances /\ S.claims \subseteq Instances
  BY DEF Shape, Runner
<1>8. T.claims = {j \in R.claims : ~(j \in is \union {i} /\ Alive(R.inst[j]))}
  BY <1>1, <1>7 DEF EndsOf
<1>9. Fewer(R, T)
  BY DEF EndsOf, Fewer
<1> QED
  BY <1>4, <1>6, <1>8, <1>9 DEF EndsOf

LEMMA EndsOfNone ==
  ASSUME NEW R, Shape(R), NEW but
  PROVE  EndsOf(R, R, {}, but)
  BY DEF EndsOf, Fewer

UpTo(is, n) == {i \in is : i <= n}

LEMMA UpToFacts ==
  ASSUME NEW is, is \subseteq Instances
  PROVE  /\ UpTo(is, 0) = {} /\ UpTo(is, MaxMacros) = is
         /\ \A n \in 1 .. MaxMacros :
               /\ n \in is => UpTo(is, n) = UpTo(is, n - 1) \union {n} /\ n \notin UpTo(is, n - 1)
               /\ n \notin is => UpTo(is, n) = UpTo(is, n - 1)
<1>1. MaxMacros \in Nat
  BY MacroRunsAssumption
<1>2. \A i \in is : i \in Nat /\ 1 <= i /\ i <= MaxMacros
  BY <1>1 DEF Instances
<1>3. UpTo(is, 0) = {}
  BY <1>2 DEF UpTo
<1>4. UpTo(is, MaxMacros) = is
  BY <1>2 DEF UpTo
<1>5. ASSUME NEW n \in 1 .. MaxMacros, NEW i \in is
      PROVE  i <= n <=> i <= n - 1 \/ i = n
  BY <1>1, <1>2
<1> QED
  BY <1>1, <1>3, <1>4, <1>5 DEF UpTo

LEMMA AllEndedEnds ==
  ASSUME NEW R, Shape(R), NEW is, is \subseteq Instances, NEW status \in Ends
  PROVE  Shape(AllEnded(R, is, status)) /\ EndsOf(R, AllEnded(R, is, status), is, "none")
<1>0. MaxMacros \in Nat
  BY MacroRunsAssumption
<1> DEFINE IsIt(g) == g = [i \in 0 .. MaxMacros |->
                             IF i = 0 THEN R
                             ELSE IF i \in is THEN Ended(g[i - 1], i, status, "none") ELSE g[i - 1]]
<1>1. AllEnded(R, is, status) = (CHOOSE g : IsIt(g))[MaxMacros]
  BY Zenon DEF AllEnded
<1>2. \E g : IsIt(g)
  <2>1. \E g : Ending(g, R, is, status, MaxMacros)
    BY <1>0, EndingExists
  <2> QED
    BY <2>1, Zenon DEF Ending
<1>3. PICK g : IsIt(g) /\ g = CHOOSE h : IsIt(h)
  <2> HIDE DEF IsIt
  <2> QED
    BY <1>2
<1>4. /\ g[0] = R
      /\ \A n \in 1 .. MaxMacros : g[n] = IF n \in is THEN Ended(g[n - 1], n, status, "none") ELSE g[n - 1]
  BY <1>0, <1>3
<1> DEFINE S == {n \in 0 .. MaxMacros : Shape(g[n]) /\ EndsOf(R, g[n], UpTo(is, n), "none")}
<1>5. 0 \in S
  <2>1. UpTo(is, 0) = {}
    BY UpToFacts
  <2> QED
    BY <1>0, <1>4, <2>1, EndsOfNone
<1>6. ASSUME NEW n \in 1 .. MaxMacros, n - 1 \in S PROVE n \in S
  <2>1. Shape(g[n - 1]) /\ EndsOf(R, g[n - 1], UpTo(is, n - 1), "none")
    BY <1>6
  <2>2. n \in Instances
    BY DEF Instances
  <2>3. CASE n \in is
    <3>1. g[n] = Ended(g[n - 1], n, status, "none")
      BY <1>4, <2>3
    <3>2. Shape(g[n]) /\ EndsOf(g[n - 1], g[n], {n}, "none")
      BY <2>1, <2>2, <3>1, EndedEnds
    <3>3. UpTo(is, n) = UpTo(is, n - 1) \union {n} /\ n \notin UpTo(is, n - 1)
      BY <2>3, UpToFacts
    <3>4. EndsOf(R, g[n], UpTo(is, n - 1) \union {n}, "none")
      BY <2>1, <2>2, <3>2, <3>3, EndsOneMore
    <3> QED
      BY <3>2, <3>3, <3>4
  <2>4. CASE n \notin is
    <3>1. g[n] = g[n - 1] /\ UpTo(is, n) = UpTo(is, n - 1)
      BY <1>4, <2>4, UpToFacts
    <3> QED
      BY <2>1, <3>1
  <2> QED
    BY <2>3, <2>4
<1> HIDE DEF S
<1>7. MaxMacros \in S
  BY <1>0, <1>5, <1>6, EveryNumber
<1>8. UpTo(is, MaxMacros) = is
  BY UpToFacts
<1> QED
  BY <1>1, <1>3, <1>7, <1>8 DEF S

\* What ends with macros, and what is kept.
LEMMA EndsKeep ==
  ASSUME NEW R, NEW T, Shape(R), Shape(T), NEW is, NEW but, EndsOf(R, T, is, but)
  PROVE  /\ \A j \in Instances : T.inst[j].run = R.inst[j].run
         /\ Owns(R) => Owns(T)
         /\ LivesArmed(R) => LivesArmed(T)
         /\ Listens(R) => Listens(T)
         /\ but = "none" => \A a, b : Unwound(R, a, b) => Unwound(T, a, b)
         /\ \A i : is = {i} => (Unwound(R, None, "none") => Unwound(T, i, but))
         /\ \A r \in Runs : (\A j \in Instances : j \in is /\ R.inst[j].run = r => ~Works(R.inst[j]))
                               => (Driven(R, r) => Driven(T, r))
<1>0. /\ \A o \in Orders : R.owner[o] \in Instances \union {None} /\ T.owner[o] \in Instances \union {None}
      /\ \A j \in Instances : R.inst[j] \in Instance /\ InstOK(R.inst[j])
  BY DEF Shape, Runner
<1>1. \A j \in Instances : /\ T.inst[j].run = R.inst[j].run
                           /\ Alive(T.inst[j]) => ~(j \in is) /\ T.inst[j] = R.inst[j]
  BY DEF EndsOf, Over, Alive, Ends
<1>2. ASSUME Owns(R) PROVE Owns(T)
  <2>1. ASSUME NEW o \in Orders, T.owner[o] # None
        PROVE  Alive(T.inst[T.owner[o]]) /\ T.inst[T.owner[o]].key = o
    <3>1. T.owner[o] = R.owner[o] /\ R.owner[o] \notin is /\ R.owner[o] \in Instances
      BY <1>0, <1>2, <2>1 DEF EndsOf, Owns
    <3>2. T.inst[R.owner[o]] = R.inst[R.owner[o]]
      BY <3>1 DEF EndsOf
    <3> QED
      BY <1>2, <2>1, <3>1, <3>2 DEF Owns
  <2>2. ASSUME NEW i \in Instances, Alive(T.inst[i]), T.inst[i].key # None
        PROVE  T.owner[T.inst[i].key] = i
    <3>1. T.inst[i] = R.inst[i] /\ i \notin is
      BY <1>1, <2>2
    <3>2. R.owner[R.inst[i].key] = i /\ R.inst[i].key \in Orders
      BY <1>0, <1>2, <2>2, <3>1 DEF Owns, Instance, Keys
    <3> QED
      BY <3>1, <3>2 DEF EndsOf
  <2> QED
    BY <2>1, <2>2 DEF Owns
<1>3. LivesArmed(R) => LivesArmed(T)
  BY <1>1 DEF LivesArmed, EndsOf
<1>4. Listens(R) => Listens(T)
  BY DEF Listens, Armed, EndsOf
<1>5. ASSUME but = "none", NEW a, NEW b, Unwound(R, a, b) PROVE Unwound(T, a, b)
  <2> SUFFICES ASSUME NEW j \in Instances, NEW h \in Flows, ~Alive(T.inst[j]), ~(j = a /\ h = b)
               PROVE  Quiet(T.inst[j].flow[h])
    BY DEF Unwound
  <2>1. CASE j \in is /\ Alive(R.inst[j])
    <3>1. h # but
      BY <1>5 DEF Flows
    <3> QED
      BY <2>1, <3>1 DEF EndsOf, Over
  <2>2. CASE ~(j \in is /\ Alive(R.inst[j]))
    <3>1. T.inst[j] = R.inst[j]
      BY <2>2 DEF EndsOf
    <3> QED
      BY <1>5, <3>1 DEF Unwound
  <2> QED
    BY <2>1, <2>2
<1>6. ASSUME NEW i, is = {i}, Unwound(R, None, "none") PROVE Unwound(T, i, but)
  <2> SUFFICES ASSUME NEW j \in Instances, NEW h \in Flows, ~Alive(T.inst[j]), ~(j = i /\ h = but)
               PROVE  Quiet(T.inst[j].flow[h])
    BY DEF Unwound
  <2>1. CASE j \in is /\ Alive(R.inst[j])
    <3>1. h # but
      BY <1>6, <2>1
    <3> QED
      BY <2>1, <3>1 DEF EndsOf, Over
  <2>2. CASE ~(j \in is /\ Alive(R.inst[j]))
    <3>1. T.inst[j] = R.inst[j] /\ j # None
      BY <2>2 DEF EndsOf, Instances, None
    <3> QED
      BY <1>6, <3>1 DEF Unwound
  <2> QED
    BY <2>1, <2>2
<1>7. ASSUME NEW r \in Runs, Driven(R, r),
             \A j \in Instances : j \in is /\ R.inst[j].run = r => ~Works(R.inst[j])
      PROVE  Driven(T, r)
  <2>1. T.run = R.run
    BY DEF EndsOf
  <2>2. ASSUME NEW j \in Instances, R.inst[j].run = r, Works(R.inst[j])
        PROVE  T.inst[j] = R.inst[j]
    BY <1>7, <2>2 DEF EndsOf
  <2> QED
    BY <1>7, <2>1, <2>2 DEF Driven, Macro
<1> QED
  BY <1>1, <1>2, <1>3, <1>4, <1>5, <1>6, <1>7

\* A queue and a subscription more or less.
LEMMA QueuedKeeps ==
  ASSUME NEW R, Shape(R), NEW op \in Op
  PROVE  Queued(R, op) \in Runner /\ Alike(R, Queued(R, op)) /\ Shape(Queued(R, op))
<1> DEFINE q == Append(R.queue, op)
           T == [R EXCEPT !.queue = q]
<1>1. R \in Runner
  BY DEF Shape
<1>2. q \in Seq(Op)
  BY <1>1, AppendProperties DEF Runner
<1> HIDE DEF q
<1>3. /\ T \in Runner /\ T.run = R.run /\ T.owner = R.owner /\ T.claims = R.claims /\ T.live = R.live
      /\ T.subscribed = R.subscribed /\ T.inst = R.inst
  BY <1>1, <1>2 DEF Runner
<1>4. Alike(R, T)
  BY <1>3 DEF Alike, Twin
<1>5. Shape(T)
  BY <1>3, <1>4, AlikeFacts
<1> QED
  BY <1>3, <1>4, <1>5 DEF Queued, q

LEMMA UnsubscribedKeeps ==
  ASSUME NEW R, Shape(R)
  PROVE  LET T == Unsubscribed(R) IN
         /\ Shape(T)
         /\ T.run = R.run /\ T.inst = R.inst /\ T.owner = R.owner /\ T.claims = R.claims /\ T.live = R.live
         /\ T.subscribed <=> R.subscribed /\ Armed(T) # {}
<1> DEFINE s == R.subscribed /\ Armed(R) # {}
           T == [R EXCEPT !.subscribed = s]
<1>1. R \in Runner
  BY DEF Shape
<1>2. s \in BOOLEAN
  BY Zenon
<1>3. s <=> R.subscribed /\ Armed(R) # {}
  OBVIOUS
<1> HIDE DEF s
<1>4. /\ T \in Runner /\ T.run = R.run /\ T.owner = R.owner /\ T.claims = R.claims /\ T.live = R.live
      /\ T.subscribed = s /\ T.inst = R.inst
  BY <1>1, <1>2 DEF Runner
<1>5. Armed(T) = Armed(R)
  BY <1>4 DEF Armed
<1>6. Unsubscribed(R) = T
  BY Zenon DEF Unsubscribed, s
<1> HIDE DEF T
<1> QED
  BY <1>3, <1>4, <1>5, <1>6 DEF Shape

\* What _maybe_finished keeps, and that it restores what drives the run.
LEMMA MaybeFinishedKeeps ==
  ASSUME NEW R, Shape(R), NEW r \in Runs
  PROVE  LET T == MaybeFinished(R, r) IN
         /\ Shape(T) /\ Fewer(R, T)
         /\ \A j \in Instances : T.inst[j].run = R.inst[j].run
         /\ \A a, b : SoundBut(R, a, b) => SoundBut(T, a, b)
         /\ \A s \in Runs : s = r \/ Driven(R, s) => Driven(T, s)
<1> DEFINE T == MaybeFinished(R, r)
           m == Macro(R, r)
           clients == {i \in Of(R, r) : IsClient(R.inst[i])}
           others == Of(R, r) \ clients
           Stays == \/ R.run[r].status # "armed"
                    \/ Waits(m) /\ ~IsTest(m)
                    \/ \E i \in clients : Alive(R.inst[i])
                    \/ \E i \in others : AtWork(R.inst[i])
<1>0. R \in Runner /\ \A o \in Orders : R.owner[o] \in Instances \union {None}
  BY DEF Shape, Runner
<1>1. CASE Stays
  <2>1. T = R
    BY <1>1, Zenon DEF MaybeFinished
  <2>2. Driven(R, r)
    <3>1. Stays => R.run[r].status # "armed" \/ (Waits(m) /\ ~IsTest(m))
                   \/ \E i \in Instances : R.inst[i].run = r /\ Works(R.inst[i])
      BY DEF Of, Works
    <3> QED
      BY <1>1, <3>1 DEF Driven
  <2> QED
    BY <2>1, <2>2 DEF Fewer
<1>2. CASE ~Stays
  <2> DEFINE S == [R EXCEPT !.run[r].status = "finished"]
             A == AllEnded(S, others, "stopped")
             Q == IF R.run[r].row = None THEN A ELSE Queued(A, [op |-> "ended", run |-> r])
  <2>1. T = Unsubscribed(Q)
    BY <1>2, Zenon DEF MaybeFinished
  <2>2. /\ R.run[r].status = "armed"
        /\ \A i \in Instances : R.inst[i].run = r => ~Works(R.inst[i])
        /\ others \subseteq Instances
        /\ \A i \in Instances : i \in others <=> R.inst[i].run = r /\ ~IsClient(R.inst[i])
    BY <1>2 DEF Of, Works
  <2>3. /\ Shape(S) /\ S.inst = R.inst /\ S.owner = R.owner /\ S.claims = R.claims /\ S.live = R.live
        /\ S.subscribed = R.subscribed
        /\ \A s \in Runs : /\ S.run[s].status = IF s = r THEN "finished" ELSE R.run[s].status
                           /\ S.run[s].macro = R.run[s].macro
    <3> DEFINE y == [R.run[r] EXCEPT !.status = "finished"]
    <3>1. R.run[r] \in Run
      BY <1>0 DEF Runner
    <3>2. y \in Run /\ y.status = "finished" /\ y.macro = R.run[r].macro
      BY <3>1 DEF Run, RunStatuses
    <3>3. S = [R EXCEPT !.run[r] = y]
      BY <1>0 DEF Runner
    <3> HIDE DEF y, S
    <3> QED
      BY <3>2, <3>3, PutRun
  <2> HIDE DEF S, Stays, others
  <2>4. Shape(S)
    BY <2>3
  <2>5. Shape(A) /\ EndsOf(S, A, others, "none")
    BY <2>2, <2>4, AllEndedEnds DEF Ends
  <2> HIDE DEF A
  <2>6. Shape(Q) /\ Alike(A, Q)
    <3>1. [op |-> "ended", run |-> r] \in Op
      BY DEF Op
    <3>2. Alike(A, A)
      BY DEF Alike, Twin
    <3> QED
      BY <2>5, <3>1, <3>2, QueuedKeeps
  <2> HIDE DEF Q
  <2>7. /\ Shape(T)
        /\ T.run = Q.run /\ T.inst = Q.inst /\ T.owner = Q.owner /\ T.claims = Q.claims /\ T.live = Q.live
        /\ T.subscribed <=> Q.subscribed /\ Armed(T) # {}
    BY <2>1, <2>6, UnsubscribedKeeps
  <2> HIDE DEF T
  <2>8. \A j \in Instances : T.inst[j].run = R.inst[j].run
    BY <2>3, <2>4, <2>5, <2>6, <2>7, EndsKeep DEF Alike, Twin
  <2>9. Fewer(R, T)
    BY <2>3, <2>5, <2>6, <2>7 DEF EndsOf, Fewer, Alike, Twin
  <2>10. ASSUME NEW a, NEW b, SoundBut(R, a, b) PROVE SoundBut(T, a, b)
    <3>1. Counts(S) /\ Owns(S) /\ Unwound(S, a, b)
      BY <2>3, <2>10 DEF SoundBut, Counts, Owns, Unwound, LiveOnes
    <3>2. Counts(A) /\ Owns(A) /\ Unwound(A, a, b)
      BY <2>4, <2>5, <3>1, EndsKeep DEF EndsOf
    <3>3. Akin(A, Q)
      BY <2>5, <2>6, AlikeFacts DEF Shape
    <3>4. Counts(Q) /\ Owns(Q) /\ Unwound(Q, a, b)
      BY <2>5, <2>6, <3>2, <3>3, AkinKeeps
    <3>5. Counts(T) /\ Owns(T) /\ Unwound(T, a, b)
      BY <2>7, <3>4 DEF Counts, Owns, Unwound, LiveOnes
    <3>6. \A s \in Runs : T.run[s].status = IF s = r THEN "finished" ELSE R.run[s].status
      BY <2>3, <2>5, <2>6, <2>7 DEF EndsOf, Alike
    <3>7. LivesArmed(T)
      <4> SUFFICES ASSUME NEW i \in Instances, Alive(T.inst[i])
                   PROVE  T.run[T.inst[i].run].status = "armed"
        BY DEF LivesArmed
      <4>1. Alive(A.inst[i]) /\ T.inst[i].run = A.inst[i].run
        BY <2>6, <2>7, TwinFacts DEF Alike, Twin
      <4>2. i \notin others /\ A.inst[i] = R.inst[i]
        BY <2>3, <2>5, <4>1 DEF EndsOf, Over, Alive, Ends
      <4>3. R.inst[i].run # r
        BY <2>2, <4>1, <4>2 DEF Works
      <4>4. R.inst[i].run \in Runs
        <5>1. R.inst[i] \in Instance /\ InstOK(R.inst[i])
          BY <1>0 DEF Shape, Runner
        <5> QED
          BY <4>1, <4>2, <5>1 DEF InstOK, Instance, Alive
      <4> QED
        BY <2>10, <3>6, <4>1, <4>2, <4>3, <4>4 DEF SoundBut, LivesArmed
    <3>8. Listens(T)
      <4>1. R.subscribed
        BY <2>2, <2>10 DEF SoundBut, Listens, Armed
      <4> QED
        BY <2>3, <2>5, <2>6, <2>7, <4>1 DEF Listens, EndsOf, Alike
    <3> QED
      BY <2>7, <3>5, <3>7, <3>8 DEF SoundBut
  <2>11. ASSUME NEW s \in Runs, s = r \/ Driven(R, s) PROVE Driven(T, s)
    <3>1. T.run[s].status = IF s = r THEN "finished" ELSE R.run[s].status
      BY <2>3, <2>5, <2>6, <2>7 DEF EndsOf, Alike
    <3>2. CASE s = r
      BY <3>1, <3>2 DEF Driven
    <3>3. CASE s # r
      <4>1. Driven(S, s)
        BY <2>3, <2>11, <3>3 DEF Driven, Macro
      <4>2. Driven(A, s)
        <5>1. \A j \in Instances : j \in others => R.inst[j].run # s
          BY <2>2, <3>3
        <5> QED
          BY <2>3, <2>4, <2>5, <4>1, <5>1, EndsKeep
      <4>3. Driven(Q, s)
        BY <2>5, <2>6, <4>2, AlikeFacts, AkinKeeps DEF Shape, Drives
      <4> QED
        BY <2>7, <4>3 DEF Driven, Macro
    <3> QED
      BY <3>2, <3>3
  <2> QED
    BY <2>7, <2>8, <2>9, <2>10, <2>11 DEF T
<1> QED
  BY <1>1, <1>2

\* A macro ends, in its own flow `but` or in none of its own.
LEMMA FinishKeeps ==
  ASSUME NEW R, Shape(R), NEW i \in Instances, R.inst[i].run # None, NEW status \in Ends, NEW but,
         but = "main" => R.inst[i].flow["main"].pc # "sent"
  PROVE  LET T == Finish(R, i, status, but) IN
         /\ Shape(T) /\ Fewer(R, T) /\ Drives(R, T)
         /\ \A j \in Instances : T.inst[j].run = R.inst[j].run
         /\ Sound(R) => SoundBut(T, i, but)
         /\ Sound(R) /\ but = "none" => Sound(T)
<1> DEFINE r == R.inst[i].run
           E == Ended(R, i, status, but)
           T == MaybeFinished(E, r)
<1>1. r \in Runs
  BY DEF Shape, Runner, Instance
<1>2. Shape(E) /\ EndsOf(R, E, {i}, but)
  BY EndedEnds
<1> HIDE DEF E
<1>3. /\ \A j \in Instances : E.inst[j].run = R.inst[j].run
      /\ Owns(R) => Owns(E)
      /\ LivesArmed(R) => LivesArmed(E)
      /\ Listens(R) => Listens(E)
      /\ Counts(R) => Counts(E)
      /\ Fewer(R, E)
  <2>1. (Counts(R) => Counts(E)) /\ Fewer(R, E)
    BY <1>2 DEF EndsOf
  <2> QED
    BY <1>2, <2>1, EndsKeep
<1>4. Unwound(R, None, "none") => Unwound(E, i, but)
  BY <1>2, EndsKeep
<1>5. but = "none" => (Unwound(R, None, "none") => Unwound(E, None, "none"))
  BY <1>2, EndsKeep
<1>6. ASSUME NEW s \in Runs, s # r, Driven(R, s) PROVE Driven(E, s)
  <2>1. \A j \in Instances : j \in {i} /\ R.inst[j].run = s => ~Works(R.inst[j])
    BY <1>6
  <2> QED
    BY <1>2, <1>6, <2>1, EndsKeep
<1> HIDE DEF r
<1>7. /\ Shape(T) /\ Fewer(E, T)
      /\ \A j \in Instances : T.inst[j].run = E.inst[j].run
      /\ \A a, b : SoundBut(E, a, b) => SoundBut(T, a, b)
      /\ \A s \in Runs : s = r \/ Driven(E, s) => Driven(T, s)
  BY <1>1, <1>2, MaybeFinishedKeeps
<1> HIDE DEF T
<1>8. Sound(R) => SoundBut(E, i, but) /\ (but = "none" => SoundBut(E, None, "none"))
  BY <1>2, <1>3, <1>4, <1>5 DEF Sound, SoundBut
<1>9. Fewer(R, T)
  BY <1>3, <1>7 DEF Fewer
<1>10. Drives(R, T)
  BY <1>6, <1>7 DEF Drives
<1>11. Finish(R, i, status, but) = T
  BY Zenon DEF Finish, T, E, r
<1> QED
  BY <1>3, <1>7, <1>8, <1>9, <1>10, <1>11 DEF Sound

LEMMA ChangedKeeps ==
  ASSUME NEW R, Shape(R), NEW i \in Instances, R.inst[i].run # None
  PROVE  LET T == Changed(R, i) IN
         /\ Shape(T) /\ Fewer(R, T) /\ Drives(R, T)
         /\ \A j \in Instances : T.inst[j].run = R.inst[j].run
         /\ \A a, b : SoundBut(R, a, b) => SoundBut(T, a, b)
<1> DEFINE S == Told(R, i)
           T == Changed(R, i)
<1>1. Alike(R, S) /\ Shape(S) /\ Akin(R, S) /\ Fewer(R, S)
  BY ToldKeeps
<1> HIDE DEF S
<1>2. /\ \A j \in Instances : S.inst[j].run = R.inst[j].run
      /\ S.inst[i].run \in Runs
  BY <1>1 DEF Alike, Twin, Shape, Runner, Instance
<1>3. Drives(R, S) /\ \A a, b : SoundBut(R, a, b) => SoundBut(S, a, b)
  BY <1>1, AkinKeeps
<1>4. T = IF S.inst[i].status = "listening" THEN MaybeFinished(S, S.inst[i].run) ELSE S
  BY Zenon DEF Changed, S
<1> HIDE DEF T
<1>5. CASE S.inst[i].status = "listening"
  <2>1. /\ Shape(T) /\ Fewer(S, T)
        /\ \A j \in Instances : T.inst[j].run = S.inst[j].run
        /\ \A a, b : SoundBut(S, a, b) => SoundBut(T, a, b)
        /\ \A s \in Runs : Driven(S, s) => Driven(T, s)
    BY <1>1, <1>2, <1>4, <1>5, MaybeFinishedKeeps
  <2> QED
    BY <1>1, <1>2, <1>3, <2>1 DEF Fewer, Drives, T
<1>6. CASE S.inst[i].status # "listening"
  <2>1. T = S
    BY <1>4, <1>6
  <2> QED
    BY <1>1, <1>2, <1>3, <2>1 DEF T
<1> QED
  BY <1>5, <1>6

\* A flow is over: that of a macro that ended in it needs no cancelling.
LEMMA FlowOverKeeps ==
  ASSUME NEW R, Shape(R), NEW i \in Instances, NEW f \in Flows
  PROVE  LET T == FlowOver(R, i, f) IN
         /\ Shape(T) /\ Fewer(R, T) /\ Drives(R, T)
         /\ SoundBut(R, i, f) => Sound(T)
<1> DEFINE x == R.inst[i]
           y == [x EXCEPT !.flow[f] = NoFlow]
           S == [R EXCEPT !.inst[i] = y]
           T == FlowOver(R, i, f)
           Last == Alive(S.inst[i]) /\ FlowsOf(S.inst[i]) = {}
<1>0. R \in Runner /\ x \in Instance /\ InstOK(x) /\ NoFlow \in Flow
  BY DEF Shape, Runner, NoFlow, Flow, Places
<1>1. T = IF Last THEN MaybeFinished(S, S.inst[i].run) ELSE S
  <2>1. [R EXCEPT !.inst[i].flow[f] = NoFlow] = S
    BY <1>0 DEF Runner, Instance
  <2> QED
    BY <2>1, Zenon DEF FlowOver
<1>2. /\ y \in Instance /\ y.run = x.run /\ y.block = x.block /\ y.key = x.key /\ y.status = x.status
      /\ y.made = x.made
      /\ y.flow[f] = NoFlow /\ \A h \in Flows : h # f => y.flow[h] = x.flow[h]
  BY <1>0 DEF Instance
<1>3. InstOK(y)
  <2>1. NoFlow.pc = "off" /\ NoFlow.busy = FALSE
    BY DEF NoFlow
  <2>2. \A h \in Flows : y.flow[h] = NoFlow \/ y.flow[h] = x.flow[h]
    BY <1>2
  <2>3. "main" \in Flows
    BY DEF Flows
  <2> QED
    BY <1>0, <1>2, <2>1, <2>2, <2>3 DEF InstOK, AtRest
<1> HIDE DEF y
<1>4. /\ S \in Runner /\ S.run = R.run /\ S.owner = R.owner /\ S.claims = R.claims /\ S.live = R.live
      /\ S.subscribed = R.subscribed
      /\ S.inst[i] = y /\ \A j \in Instances : j # i => S.inst[j] = R.inst[j]
  BY <1>0, <1>2 DEF Runner
<1> HIDE DEF S, T
<1>5. \A j \in Instances : /\ S.inst[j].run = R.inst[j].run /\ S.inst[j].block = R.inst[j].block
                           /\ S.inst[j].key = R.inst[j].key /\ S.inst[j].status = R.inst[j].status
                           /\ S.inst[j].made = R.inst[j].made
                           /\ InstOK(S.inst[j])
  BY <1>2, <1>3, <1>4 DEF Shape
<1>6. \A o \in Orders : R.owner[o] \in Instances \union {None}
  BY <1>0 DEF Runner
<1>7. Shape(S) /\ Fewer(R, S)
  BY <1>4, <1>5, <1>6 DEF Shape, Fewer
<1>8. ASSUME SoundBut(R, i, f) PROVE Sound(S)
  <2>1. R.claims \subseteq Instances
    BY <1>0 DEF Runner
  <2>2. Counts(S)
    <3>1. LiveOnes(S) = LiveOnes(R)
      BY <1>5 DEF LiveOnes, Alive, IsGenerator
    <3> QED
      BY <1>4, <1>5, <1>8, <2>1, <3>1 DEF SoundBut, Counts, Alive
  <2>3. Owns(S)
    BY <1>4, <1>5, <1>6, <1>8 DEF SoundBut, Owns, Alive
  <2>4. LivesArmed(S)
    BY <1>4, <1>5, <1>8 DEF SoundBut, LivesArmed, Alive
  <2>5. Listens(S)
    BY <1>4, <1>8 DEF SoundBut, Listens, Armed
  <2>6. Unwound(S, None, "none")
    <3> SUFFICES ASSUME NEW j \in Instances, NEW h \in Flows, ~Alive(S.inst[j])
                 PROVE  Quiet(S.inst[j].flow[h])
      BY DEF Unwound
    <3>1. CASE j = i /\ h = f
      BY <1>2, <1>4, <3>1 DEF Quiet, NoFlow
    <3>2. CASE ~(j = i /\ h = f)
      <4>1. S.inst[j].flow[h] = R.inst[j].flow[h] /\ ~Alive(R.inst[j])
        BY <1>2, <1>4, <3>2 DEF Alive
      <4> QED
        BY <1>8, <3>2, <4>1 DEF SoundBut, Unwound
    <3> QED
      BY <3>1, <3>2
  <2> QED
    BY <1>7, <2>2, <2>3, <2>4, <2>5, <2>6 DEF Sound, SoundBut
<1>9. ASSUME NEW s \in Runs, Driven(R, s), ~Last \/ s # x.run PROVE Driven(S, s)
  <2>1. ASSUME NEW j \in Instances, R.inst[j].run = s, Works(R.inst[j])
        PROVE  S.inst[j].run = s /\ Works(S.inst[j])
    <3>1. CASE j # i
      BY <1>4, <2>1, <3>1
    <3>2. CASE j = i
      <4>1. ~Last
        BY <1>9, <2>1, <3>2
      <4>2. Alive(x) => AtWork(S.inst[i])
        BY <1>5, <4>1 DEF AtWork, Alive
      <4> QED
        BY <1>5, <2>1, <3>2, <4>2 DEF Works, AtWork, IsClient, Alive
    <3> QED
      BY <3>1, <3>2
  <2> QED
    BY <1>4, <1>9, <2>1 DEF Driven, Macro
<1>10. CASE Last
  <2>1. x.run \in Runs /\ S.inst[i].run = x.run
    BY <1>0, <1>2, <1>4, <1>10 DEF Alive, InstOK, Instance
  <2>2. /\ Shape(T) /\ Fewer(S, T)
        /\ \A a, b : SoundBut(S, a, b) => SoundBut(T, a, b)
        /\ \A s \in Runs : s = x.run \/ Driven(S, s) => Driven(T, s)
    BY <1>1, <1>7, <1>10, <2>1, MaybeFinishedKeeps
  <2>3. Drives(R, T)
    BY <1>9, <2>2 DEF Drives
  <2> QED
    BY <1>7, <1>8, <2>2, <2>3 DEF Fewer, Sound, T
<1>11. CASE ~Last
  <2>1. T = S
    BY <1>1, <1>11
  <2> QED
    BY <1>7, <1>8, <1>9, <1>11, <2>1 DEF Drives, T
<1> QED
  BY <1>10, <1>11

-----------------------------------------------------------------------------
(* The flows of a macro move on.                                            *)

\* A flow goes elsewhere, and nothing else changes.
Moved(R, T, i, f, g) ==
    LET x == R.inst[i]
        y == T.inst[i]
    IN
    /\ Shape(T) /\ Akin(R, T) /\ Fewer(R, T)
    /\ T.run = R.run /\ T.owner = R.owner /\ T.claims = R.claims
    /\ x.run # None /\ y.run = x.run /\ y.block = x.block /\ y.key = x.key /\ y.made = x.made
    /\ y.status = x.status /\ y.handlers = x.handlers
    /\ y.flow[f] = g /\ \A h \in Flows : h # f => y.flow[h] = x.flow[h]
    /\ \A j \in Instances : j # i => T.inst[j] = R.inst[j]

LEMMA FlowPut ==
  ASSUME NEW R, Shape(R), NEW i \in Instances, NEW f \in Flows, NEW g \in Flow,
         R.inst[i].flow[f].pc # "off", g.pc # "off", g.busy <=> g.pc \notin AtRest,
         g.doomed = R.inst[i].flow[f].doomed,
         f = "main" /\ g.pc = "sent" => R.inst[i].made # None \/ g.doomed,
         f = "main" /\ g.pc = "send" => R.inst[i].key = None \/ g.doomed
  PROVE  Moved(R, [R EXCEPT !.inst[i].flow[f] = g], i, f, g)
<1> DEFINE x == R.inst[i]
           y == [x EXCEPT !.flow[f] = g]
           T == [R EXCEPT !.inst[i] = y]
<1>0. R \in Runner /\ x \in Instance /\ InstOK(x)
  BY DEF Shape, Runner
<1>1. [R EXCEPT !.inst[i].flow[f] = g] = T
  BY <1>0 DEF Runner, Instance
<1>2. /\ y \in Instance /\ y.run = x.run /\ y.block = x.block /\ y.key = x.key /\ y.status = x.status
      /\ y.made = x.made /\ y.handlers = x.handlers
      /\ y.flow[f] = g /\ \A h \in Flows : h # f => y.flow[h] = x.flow[h]
  BY <1>0 DEF Instance
<1>3. x.run # None
  BY <1>0 DEF InstOK, NoFlow
<1> HIDE DEF y
<1>4. InstOK(y)
  <2>1. \A h \in Flows : y.flow[h] = IF h = f THEN g ELSE x.flow[h]
    BY <1>2
  <2>2. "main" \in Flows
    BY DEF Flows
  <2> QED
    BY <1>0, <1>2, <1>3, <2>1, <2>2 DEF InstOK
<1>5. Kin(x, y)
  <2>1. AtWork(x) => AtWork(y)
    <3>1. f \in FlowsOf(y)
      BY <1>2 DEF FlowsOf
    <3> QED
      BY <1>2, <3>1 DEF AtWork, Alive
  <2>2. \A h \in Flows : Quiet(x.flow[h]) => Quiet(y.flow[h])
    BY <1>2 DEF Quiet
  <2> QED
    BY <1>2, <2>1, <2>2 DEF Kin, Alive
<1>6. /\ Shape(T) /\ Akin(R, T)
      /\ T.run = R.run /\ T.owner = R.owner /\ T.claims = R.claims
      /\ T.inst[i] = y
      /\ \A j \in Instances : j # i => T.inst[j] = R.inst[j]
  BY <1>2, <1>4, <1>5, PutKeeps
<1> HIDE DEF T
<1>7. Fewer(R, T)
  BY <1>2, <1>6 DEF Fewer
<1> QED
  BY <1>1, <1>2, <1>3, <1>6, <1>7 DEF Moved

\* Places of a flow that is at a line, or in the engine.
AtTask == Places \ AtRest

LEMMA AtNextKeeps ==
  ASSUME NEW R, Shape(R), NEW i \in Instances, NEW f \in Flows, R.inst[i].flow[f].pc \in AtTask
  PROVE  Moved(R, AtNext(R, i, f), i, f, [R.inst[i].flow[f] EXCEPT !.pc = "line"])
<1> DEFINE x == R.inst[i]
           g == [x.flow[f] EXCEPT !.pc = "line"]
<1>0. R \in Runner /\ x \in Instance /\ InstOK(x)
  BY DEF Shape, Runner
<1>1. x.flow[f] \in Flow /\ x.flow[f].pc # "off" /\ x.flow[f].busy = TRUE
  BY <1>0 DEF Instance, InstOK, AtTask, AtRest, Flow
<1>2. g \in Flow /\ g.pc = "line" /\ g.busy = TRUE /\ g.doomed = x.flow[f].doomed
  BY <1>1 DEF Flow, Places
<1>3. AtNext(R, i, f) = [R EXCEPT !.inst[i].flow[f] = g]
  BY <1>0 DEF AtNext, Runner, Instance
<1> HIDE DEF g
<1>4. g.pc # "off" /\ (g.busy <=> g.pc \notin AtRest)
  BY <1>2 DEF AtRest
<1>5. ~(f = "main" /\ g.pc = "sent") /\ ~(f = "main" /\ g.pc = "send")
  BY <1>2
<1>6. Moved(R, AtNext(R, i, f), i, f, g)
  BY <1>1, <1>2, <1>3, <1>4, <1>5, FlowPut
<1> QED
  BY <1>6 DEF g

LEMMA ParkedKeeps ==
  ASSUME NEW R, Shape(R), NEW i \in Instances, NEW f \in Flows, R.inst[i].flow[f].pc \in AtTask,
         NEW pc \in {"parked", "gated"}
  PROVE  LET T == Parked(R, i, f, pc) IN
         /\ Shape(T) /\ Fewer(R, T) /\ Drives(R, T)
         /\ Sound(R) => Sound(T)
<1> DEFINE x == R.inst[i]
           g == [x.flow[f] EXCEPT !.pc = pc, !.busy = FALSE]
           S == [R EXCEPT !.inst[i].flow[f] = g]
<1>0. R \in Runner /\ x \in Instance /\ InstOK(x)
  BY DEF Shape, Runner
<1>1. x.flow[f] \in Flow /\ x.flow[f].pc # "off"
  BY <1>0 DEF Instance, AtTask, AtRest, Flow
<1>2. g \in Flow /\ g.pc = pc /\ g.busy = FALSE /\ g.doomed = x.flow[f].doomed
  BY <1>1 DEF Flow, Places
<1>3. Parked(R, i, f, pc) = IF f = "main" THEN Changed(S, i) ELSE S
  BY Zenon DEF Parked
<1> HIDE DEF g
<1>4. g.pc # "off" /\ (g.busy <=> g.pc \notin AtRest)
  BY <1>2 DEF AtRest
<1>5. ~(f = "main" /\ g.pc = "sent") /\ ~(f = "main" /\ g.pc = "send")
  BY <1>2
<1>6. Shape(S) /\ Akin(R, S) /\ Fewer(R, S) /\ S.inst[i].run # None
  <2>1. Moved(R, S, i, f, g)
    BY <1>1, <1>2, <1>4, <1>5, FlowPut
  <2> HIDE DEF S
  <2> QED
    BY <2>1 DEF Moved
<1> HIDE DEF S
<1>7. Drives(R, S) /\ (Sound(R) => Sound(S))
  BY <1>6, AkinKeeps DEF Sound
<1>8. /\ Shape(Changed(S, i)) /\ Fewer(S, Changed(S, i)) /\ Drives(S, Changed(S, i))
      /\ Sound(S) => Sound(Changed(S, i))
  BY <1>6, ChangedKeeps DEF Sound
<1> QED
  BY <1>3, <1>6, <1>7, <1>8 DEF Fewer, Drives

\* Every macro changed into one of its kin, some flows of it woken or begun.
Stirred(x, y) ==
    /\ y.run = x.run /\ y.block = x.block /\ y.key = x.key /\ y.made = x.made /\ y.status = x.status
    /\ \A f \in Flows :
          \/ y.flow[f] = x.flow[f]
          \/ x.flow[f].pc \in {"parked", "gated"} /\ ~x.flow[f].doomed /\ y.flow[f] = Woken(x.flow[f])
          \/ f = "when" /\ Alive(x) /\ x.flow[f].pc = "off" /\ y.flow[f] = Spawned

LEMMA StirredOne ==
  ASSUME NEW x \in Instance, InstOK(x), NEW y, Stirred(x, y)
  PROVE  InstOK(y) /\ Kin(x, y)
<1>1. \A f \in Flows : x.flow[f] \in Flow
  BY DEF Instance
<1>2. ASSUME NEW f \in Flows
      PROVE  /\ y.flow[f].busy <=> y.flow[f].pc \notin AtRest
             /\ x.flow[f].pc # "off" => y.flow[f].pc # "off"
             /\ ~Alive(x) => (Quiet(x.flow[f]) => Quiet(y.flow[f]))
             /\ f = "main" => y.flow[f] = x.flow[f] \/ y.flow[f].pc = "line"
             /\ x.run = None => y.flow[f] = NoFlow
  <2>1. CASE y.flow[f] = x.flow[f]
    BY <2>1 DEF InstOK
  <2>2. CASE x.flow[f].pc \in {"parked", "gated"} /\ ~x.flow[f].doomed /\ y.flow[f] = Woken(x.flow[f])
    <3>1. y.flow[f].pc = "line" /\ y.flow[f].busy = TRUE
      BY <1>1, <2>2 DEF Woken, Flow
    <3>2. x.run # None
      BY <2>2 DEF InstOK, NoFlow
    <3> QED
      BY <2>2, <3>1, <3>2 DEF AtRest, Quiet
  <2>3. CASE f = "when" /\ Alive(x) /\ x.flow[f].pc = "off" /\ y.flow[f] = Spawned
    <3>1. y.flow[f].pc = "fresh" /\ y.flow[f].busy = TRUE
      BY <2>3 DEF Spawned
    <3>2. x.run # None
      BY <2>3 DEF InstOK, Alive
    <3> QED
      BY <2>3, <3>1, <3>2 DEF AtRest
  <2> QED
    BY <2>1, <2>2, <2>3 DEF Stirred
<1>3. "main" \in Flows
  BY DEF Flows
<1>4. InstOK(y)
  BY <1>2, <1>3 DEF InstOK, Stirred
<1>5. AtWork(x) => AtWork(y)
  <2>1. FlowsOf(x) \subseteq FlowsOf(y)
    BY <1>2 DEF FlowsOf
  <2> QED
    BY <2>1 DEF AtWork, Stirred, Alive
<1> QED
  BY <1>2, <1>4, <1>5 DEF Kin, Stirred, Alive

\* What stirs macros changes nothing else.
Stirs(R, T) ==
    /\ Shape(T) /\ Akin(R, T) /\ Fewer(R, T)
    /\ T.run = R.run /\ T.owner = R.owner /\ T.claims = R.claims
    /\ \A i \in Instances : Stirred(R.inst[i], T.inst[i])

LEMMA StirredAll ==
  ASSUME NEW R, Shape(R), NEW g \in [Instances -> Instance], \A i \in Instances : Stirred(R.inst[i], g[i])
  PROVE  Stirs(R, [R EXCEPT !.inst = g])
<1> DEFINE T == [R EXCEPT !.inst = g]
<1>0. R \in Runner /\ \A i \in Instances : R.inst[i] \in Instance /\ InstOK(R.inst[i])
  BY DEF Shape, Runner
<1>1. /\ T \in Runner /\ T.run = R.run /\ T.owner = R.owner /\ T.claims = R.claims /\ T.live = R.live
      /\ T.subscribed = R.subscribed /\ T.inst = g
  BY <1>0 DEF Runner
<1> HIDE DEF T
<1>2. \A i \in Instances : InstOK(T.inst[i]) /\ Kin(R.inst[i], T.inst[i])
  BY <1>0, <1>1, StirredOne
<1>3. \A o \in Orders : R.owner[o] \in Instances \union {None}
  BY <1>0 DEF Runner
<1>4. Shape(T)
  BY <1>1, <1>2, <1>3 DEF Shape, Kin
<1>5. Akin(R, T)
  BY <1>1, <1>2 DEF Akin
<1>6. Fewer(R, T)
  BY <1>1 DEF Fewer, Stirred
<1> QED
  BY <1>1, <1>4, <1>5, <1>6 DEF Stirs, T

LEMMA DeliveredStirs ==
  ASSUME NEW R, Shape(R), NEW is, NEW wakes \in BOOLEAN
  PROVE  Stirs(R, Delivered(R, is, wakes))
<1> DEFINE heard(x) == [f \in Flows |-> Hears(x, f, wakes)]
           g == [i \in Instances |-> IF i \in is /\ Alive(R.inst[i])
                                     THEN [R.inst[i] EXCEPT !.flow = heard(R.inst[i])] ELSE R.inst[i]]
<1>0. \A i \in Instances : R.inst[i] \in Instance
  BY DEF Shape, Runner
<1>1. ASSUME NEW x \in Instance, NEW f \in Flows
      PROVE  /\ Hears(x, f, wakes) \in Flow
             /\ \/ Hears(x, f, wakes) = x.flow[f]
                \/ x.flow[f].pc = "parked" /\ ~x.flow[f].doomed /\ Hears(x, f, wakes) = Woken(x.flow[f])
                \/ f = "when" /\ x.flow[f].pc = "off" /\ Hears(x, f, wakes) = Spawned
  <2>1. x.flow[f] \in Flow
    BY DEF Instance
  <2>2. Woken(x.flow[f]) \in Flow /\ Spawned \in Flow
    BY <2>1 DEF Woken, Spawned, Flow, Places
  <2> QED
    BY <2>1, <2>2 DEF Hears
<1>2. ASSUME NEW x \in Instance, Alive(x)
      PROVE  LET y == [x EXCEPT !.flow = heard(x)] IN y \in Instance /\ Stirred(x, y)
  <2>1. heard(x) \in [Flows -> Flow] /\ \A f \in Flows : heard(x)[f] = Hears(x, f, wakes)
    BY <1>1
  <2> HIDE DEF heard
  <2> DEFINE y == [x EXCEPT !.flow = heard(x)]
  <2>2. /\ y \in Instance /\ y.run = x.run /\ y.block = x.block /\ y.key = x.key /\ y.made = x.made
        /\ y.status = x.status /\ y.flow = heard(x)
    BY <2>1 DEF Instance
  <2> HIDE DEF y
  <2>3. Stirred(x, y)
    BY <1>1, <1>2, <2>1, <2>2 DEF Stirred
  <2> QED
    BY <2>2, <2>3 DEF y
<1>3. \A x : Stirred(x, x)
  BY DEF Stirred
<1>4. g \in [Instances -> Instance] /\ \A i \in Instances : Stirred(R.inst[i], g[i])
  <2> HIDE DEF heard
  <2> QED
    BY <1>0, <1>2, <1>3
<1>5. Delivered(R, is, wakes) = [R EXCEPT !.inst = g]
  BY Zenon DEF Delivered
<1> HIDE DEF g
<1> QED
  BY <1>4, <1>5, StirredAll

LEMMA OpenedStirs ==
  ASSUME NEW R, Shape(R), NEW r
  PROVE  Stirs(R, Opened(R, r))
<1> DEFINE Open(h) == IF h.pc = "gated" /\ ~h.doomed THEN Woken(h) ELSE h
           opens(x) == [f \in Flows |-> Open(x.flow[f])]
           g == [i \in Instances |-> IF R.inst[i].run = r
                                     THEN [R.inst[i] EXCEPT !.flow = opens(R.inst[i])] ELSE R.inst[i]]
<1>0. \A i \in Instances : R.inst[i] \in Instance
  BY DEF Shape, Runner
<1>1. ASSUME NEW x \in Instance
      PROVE  LET y == [x EXCEPT !.flow = opens(x)] IN y \in Instance /\ Stirred(x, y)
  <2>1. ASSUME NEW f \in Flows
        PROVE  /\ Open(x.flow[f]) \in Flow
               /\ \/ Open(x.flow[f]) = x.flow[f]
                  \/ x.flow[f].pc = "gated" /\ ~x.flow[f].doomed /\ Open(x.flow[f]) = Woken(x.flow[f])
    <3>1. x.flow[f] \in Flow
      BY DEF Instance
    <3>2. Woken(x.flow[f]) \in Flow
      BY <3>1 DEF Woken, Flow, Places
    <3> QED
      BY <3>1, <3>2
  <2>2. opens(x) \in [Flows -> Flow] /\ \A f \in Flows : opens(x)[f] = Open(x.flow[f])
    BY <2>1
  <2> HIDE DEF opens, Open
  <2> DEFINE y == [x EXCEPT !.flow = opens(x)]
  <2>3. /\ y \in Instance /\ y.run = x.run /\ y.block = x.block /\ y.key = x.key /\ y.made = x.made
        /\ y.status = x.status /\ y.flow = opens(x)
    BY <2>2 DEF Instance
  <2> HIDE DEF y
  <2>4. Stirred(x, y)
    BY <2>1, <2>2, <2>3 DEF Stirred
  <2> QED
    BY <2>3, <2>4 DEF y
<1>2. \A x : Stirred(x, x)
  BY DEF Stirred
<1>3. g \in [Instances -> Instance] /\ \A i \in Instances : Stirred(R.inst[i], g[i])
  <2> HIDE DEF opens
  <2> QED
    BY <1>0, <1>1, <1>2
<1>4. Opened(R, r) = [R EXCEPT !.inst = g]
  BY Zenon DEF Opened
<1> HIDE DEF g
<1> QED
  BY <1>3, <1>4, StirredAll

-----------------------------------------------------------------------------
(* New macros.                                                              *)

LEMMA NextInstanceFacts ==
  ASSUME NEW R, Unused(R) # {}
  PROVE  NextInstance(R) \in Instances /\ R.inst[NextInstance(R)].status = "none"
<1>1. Unused(R) \subseteq Nat
  BY DEF Unused, Instances
<1>2. \E i \in Unused(R) : \A j \in Unused(R) : i <= j
  BY <1>1, LeastNumber
<1>3. NextInstance(R) \in Unused(R)
  BY <1>2, Zenon DEF NextInstance
<1> QED
  BY <1>3 DEF Unused

LEMMA NewKeeps ==
  ASSUME NEW R, Shape(R), NEW r \in Runs, NEW block \in Blocks, NEW key \in Keys, Unused(R) # {}
  PROVE  LET T == New(R, r, block, key)
             i == NextInstance(R)
         IN
         /\ Shape(T) /\ Drives(R, T)
         /\ \A o \in Orders : T.owner[o] = IF o = key THEN i ELSE R.owner[o]
         /\ T.inst[i].made = None /\ T.inst[i].run = r
         /\ \A j \in Instances : j # i => T.inst[j] = R.inst[j]
         /\ T.run = R.run
         /\ Sound(R) /\ R.run[r].status = "armed" /\ (key # None => R.owner[key] = None) => Sound(T)
<1> DEFINE i == NextInstance(R)
           y == [NoInstance EXCEPT !.run = r, !.block = block, !.key = key, !.status = "running",
                                   !.flow["main"] = Spawned]
           owners == IF key = None THEN R.owner ELSE [R.owner EXCEPT ![key] = i]
           claims == IF block \in {"run", "signal"} THEN R.claims \union {i} ELSE R.claims
           count == IF block = "generator" THEN R.live ELSE R.live + 1
           T == [R EXCEPT !.inst[i] = y, !.owner = owners, !.claims = claims, !.live = count]
<1>0. R \in Runner /\ \A o \in Orders : R.owner[o] \in Instances \union {None}
  BY DEF Shape, Runner
<1>1. i \in Instances /\ R.inst[i].status = "none" /\ i # None
  BY NextInstanceFacts DEF Instances, None
<1>2. New(R, r, block, key) = T
  BY Zenon DEF New
<1> HIDE DEF i
<1>3. /\ NoFlow \in Flow /\ Spawned \in Flow /\ NoFlow.pc = "off" /\ NoFlow.busy = FALSE
      /\ Spawned.pc = "fresh" /\ Spawned.busy = TRUE
  BY DEF NoFlow, Spawned, Flow, Places
<1>4. /\ y \in Instance /\ y.run = r /\ y.block = block /\ y.key = key /\ y.status = "running" /\ y.made = None
      /\ y.flow["main"] = Spawned /\ y.flow["when"] = NoFlow
  <2>1. NoInstance \in Instance /\ NoInstance.made = None /\ NoInstance.flow = [f \in Flows |-> NoFlow]
    <3>1. [f \in Flows |-> NoFlow] \in [Flows -> Flow]
      BY <1>3
    <3> QED
      BY <3>1 DEF NoInstance, Instance, Blocks, Keys, Statuses
  <2> QED
    BY <1>3, <2>1 DEF Instance, Flows, Statuses, Lives
<1>5. r # None
  BY DEF Runs, None
<1>6. InstOK(y)
  <2>1. \A f \in Flows : f = "main" \/ f = "when"
    BY DEF Flows
  <2> HIDE DEF y
  <2> QED
    BY <1>3, <1>4, <1>5, <2>1 DEF InstOK, AtRest
<1> HIDE DEF y
<1>7. owners \in [Orders -> Instances \union {None}] /\ \A o \in Orders : owners[o] = IF o = key THEN i ELSE R.owner[o]
  <2>1. R.owner \in [Orders -> Instances \union {None}]
    BY <1>0 DEF Runner
  <2>2. None \notin Orders
    BY DEF Orders, None
  <2> QED
    BY <1>1, <2>1, <2>2 DEF Keys
<1>8. claims \in SUBSET Instances /\ count \in Int
  BY <1>0, <1>1 DEF Runner
<1>9. \A j \in claims : j \in R.claims \/ j = i
  OBVIOUS
<1>10. count = IF block = "generator" THEN R.live ELSE R.live + 1
  OBVIOUS
<1> HIDE DEF owners, claims, count
<1>11. /\ T \in Runner /\ T.run = R.run /\ T.owner = owners /\ T.claims = claims /\ T.live = count
       /\ T.subscribed = R.subscribed
       /\ T.inst[i] = y /\ \A j \in Instances : j # i => T.inst[j] = R.inst[j]
  BY <1>0, <1>1, <1>4, <1>7, <1>8 DEF Runner
<1> HIDE DEF T
<1>12. R.inst[i].run = None /\ \A o \in Orders : R.owner[o] # i
  <2>1. R.inst[i].run = None
    BY <1>1 DEF Shape, InstOK
  <2> QED
    BY <1>1, <2>1 DEF Shape
<1>13. Shape(T)
  <2>1. \A o \in Orders : T.owner[o] # None => T.inst[T.owner[o]].run # None
    BY <1>0, <1>4, <1>5, <1>7, <1>11, <1>12 DEF Shape
  <2> QED
    BY <1>6, <1>11, <2>1 DEF Shape
<1>14. Drives(R, T)
  <2>1. ~Works(R.inst[i])
    BY <1>1 DEF Works, AtWork, Alive
  <2> QED
    BY <1>11, <2>1 DEF Drives, Driven, Macro
<1>15. ASSUME Sound(R), R.run[r].status = "armed", key # None => R.owner[key] = None
       PROVE  Sound(T)
  <2>1. Alive(y) /\ ~Alive(R.inst[i])
    BY <1>1, <1>4 DEF Alive
  <2>2. Counts(T)
    <3>1. i \notin LiveOnes(R) /\ LiveOnes(R) \subseteq Instances
      BY <2>1 DEF LiveOnes
    <3>2. LiveOnes(T) = IF block = "generator" THEN LiveOnes(R) ELSE LiveOnes(R) \union {i}
      <4>1. IsGenerator(y) <=> block = "generator"
        BY <1>4 DEF IsGenerator
      <4> QED
        BY <1>1, <1>11, <2>1, <4>1 DEF LiveOnes
    <3>3. R.live = Cardinality(LiveOnes(R))
      BY <1>15 DEF Sound, SoundBut, Counts
    <3>4. T.live = Cardinality(LiveOnes(T))
      BY <1>1, <1>10, <1>11, <3>1, <3>2, <3>3, LiveCount
    <3>5. \A j \in T.claims : Alive(T.inst[j])
      <4>1. R.claims \subseteq Instances
        BY <1>0 DEF Runner
      <4> QED
        BY <1>9, <1>11, <1>15, <2>1, <4>1 DEF Sound, SoundBut, Counts
    <3> QED
      BY <3>4, <3>5 DEF Counts
  <2>3. Owns(T)
    <3>1. ASSUME NEW o \in Orders, T.owner[o] # None
          PROVE  Alive(T.inst[T.owner[o]]) /\ T.inst[T.owner[o]].key = o
      <4>1. CASE o = key
        BY <1>4, <1>7, <1>11, <2>1, <4>1
      <4>2. CASE o # key
        <5>1. T.owner[o] = R.owner[o] /\ R.owner[o] # i /\ R.owner[o] \in Instances
          BY <1>0, <1>7, <1>11, <1>12, <3>1, <4>2
        <5>2. T.inst[R.owner[o]] = R.inst[R.owner[o]]
          BY <1>11, <5>1
        <5> QED
          BY <1>15, <3>1, <5>1, <5>2 DEF Sound, SoundBut, Owns
      <4> QED
        BY <4>1, <4>2
    <3>2. ASSUME NEW j \in Instances, Alive(T.inst[j]), T.inst[j].key # None
          PROVE  T.owner[T.inst[j].key] = j
      <4>1. CASE j = i
        BY <1>4, <1>7, <1>11, <3>2, <4>1 DEF Keys
      <4>2. CASE j # i
        <5>1. T.inst[j] = R.inst[j] /\ R.inst[j].key \in Orders
          BY <1>0, <1>11, <3>2, <4>2 DEF Runner, Instance, Keys
        <5>2. R.owner[R.inst[j].key] = j
          BY <1>15, <3>2, <5>1 DEF Sound, SoundBut, Owns
        <5>3. j # None
          BY DEF Instances, None
        <5>4. R.inst[j].key # key
          BY <1>15, <3>2, <5>1, <5>2, <5>3
        <5> QED
          BY <1>7, <1>11, <5>1, <5>2, <5>4
      <4> QED
        BY <4>1, <4>2
    <3> QED
      BY <3>1, <3>2 DEF Owns
  <2>4. LivesArmed(T)
    BY <1>4, <1>11, <1>15 DEF Sound, SoundBut, LivesArmed
  <2>5. Listens(T)
    BY <1>11, <1>15 DEF Sound, SoundBut, Listens, Armed
  <2>6. Unwound(T, None, "none")
    BY <1>11, <1>15, <2>1 DEF Sound, SoundBut, Unwound
  <2> QED
    BY <1>13, <2>2, <2>3, <2>4, <2>5, <2>6 DEF Sound, SoundBut
<1> QED
  BY <1>2, <1>4, <1>7, <1>11, <1>13, <1>14, <1>15 DEF T, i

\* A macro of a run that holds no order yet, if the run is armed and not full.
LEMMA StartedKeeps ==
  ASSUME NEW R, Shape(R), NEW r \in Runs, NEW block \in Blocks
  PROVE  LET T == Started(R, r, block) IN
         /\ Shape(T) /\ Drives(R, T) /\ Fewer(R, T)
         /\ T.run = R.run
         /\ \A j \in Instances : R.inst[j].status # "none" => T.inst[j] = R.inst[j]
         /\ Sound(R) => Sound(T)
<1>1. CASE R.run[r].status # "armed" \/ Full(R, r)
  <2>1. Started(R, r, block) = R
    BY <1>1 DEF Started
  <2> QED
    BY <2>1 DEF Drives, Fewer
<1>2. CASE ~(R.run[r].status # "armed" \/ Full(R, r))
  <2> DEFINE T == New(R, r, block, None)
             i == NextInstance(R)
  <2>1. Started(R, r, block) = T
    BY <1>2 DEF Started
  <2>2. Unused(R) # {} /\ R.run[r].status = "armed"
    BY <1>2 DEF Full
  <2>3. /\ Shape(T) /\ Drives(R, T)
        /\ \A o \in Orders : T.owner[o] = IF o = None THEN i ELSE R.owner[o]
        /\ T.inst[i].made = None
        /\ \A j \in Instances : j # i => T.inst[j] = R.inst[j]
        /\ T.run = R.run
        /\ Sound(R) => Sound(T)
    BY <2>2, NewKeeps DEF Keys
  <2>4. R.inst[i].status = "none"
    BY <2>2, NextInstanceFacts
  <2> HIDE DEF T, i
  <2>5. None \notin Orders
    BY DEF Orders, None
  <2>6. Fewer(R, T)
    BY <2>3, <2>5 DEF Fewer
  <2> QED
    BY <2>1, <2>3, <2>4, <2>6
<1> QED
  BY <1>1, <1>2

LEMMA StartedBlockKeeps ==
  ASSUME NEW R, Shape(R), NEW r \in Runs, NEW block \in {"run", "signal"}
  PROVE  LET T == StartedBlock(R, r, block) IN
         /\ Shape(T) /\ Drives(R, T) /\ Fewer(R, T)
         /\ Sound(R) => Sound(T)
<1>1. (IF block = "run" /\ Macro(R, r).repeats > 0 THEN "generator" ELSE block) \in Blocks
  BY DEF Blocks
<1> QED
  BY <1>1, StartedKeeps DEF StartedBlock

\* The first of the runs that want an order is one of them.
LEMMA FirstFacts ==
  ASSUME NEW R, NEW rs, rs \subseteq Runs, rs # {}
  PROVE  First(R, rs) \in rs
<1> DEFINE tests == {r \in rs : Macro(R, r).side = "e2e"}
           Before(r, s) == \/ Macro(R, r).side = "e2e" /\ Macro(R, s).side # "e2e"
                           \/ (Macro(R, r).side = "e2e" <=> Macro(R, s).side = "e2e") /\ r <= s
<1>1. rs \subseteq Nat
  BY DEF Runs
<1>2. \E r \in rs : \A s \in rs : Before(r, s)
  <2>1. CASE tests # {}
    <3>1. tests \subseteq Nat
      BY <1>1
    <3>2. PICK r \in tests : \A s \in tests : r <= s
      <4> HIDE DEF tests
      <4> QED
        BY <2>1, <3>1, LeastNumber
    <3> QED
      BY <3>2
  <2>2. CASE tests = {}
    <3>1. PICK r \in rs : \A s \in rs : r <= s
      BY <1>1, LeastNumber
    <3> QED
      BY <2>2, <3>1
  <2> QED
    BY <2>1, <2>2
<1> QED
  BY <1>2, Zenon DEF First

LEMMA OfferedKeeps ==
  ASSUME NEW R, Shape(R), NEW block \in Blocks, NEW o \in Orders
  PROVE  LET T == Offered(R, block, o) IN
         /\ Shape(T) /\ Drives(R, T)
         /\ \A p \in Orders : p # o => T.owner[p] \in {None, R.owner[p]}
         /\ \A j \in Instances : T.inst[j].made \in {None, R.inst[j].made}
         /\ Sound(R) /\ R.owner[o] = None => Sound(T)
<1> DEFINE rs == Takers(R, block)
           r == First(R, rs)
           T == New(R, r, block, o)
           i == NextInstance(R)
<1>0. Offered(R, block, o) = IF rs = {} \/ Full(R, r) THEN R ELSE T
  BY Zenon DEF Offered
<1>1. CASE rs = {} \/ Full(R, r)
  <2>1. Offered(R, block, o) = R
    BY <1>0, <1>1
  <2> QED
    BY <2>1 DEF Drives
<1>2. CASE ~(rs = {} \/ Full(R, r))
  <2>1. rs \subseteq Armed(R) /\ rs # {} /\ Armed(R) \subseteq Runs
    BY <1>2 DEF Takers, Armed
  <2>2. r \in rs
    <3> HIDE DEF rs
    <3> QED
      BY <2>1, FirstFacts
  <2>3. r \in Runs /\ R.run[r].status = "armed" /\ Unused(R) # {}
    BY <1>2, <2>1, <2>2 DEF Armed, Full
  <2>4. o \in Keys /\ o # None
    BY DEF Keys, Orders, None
  <2> HIDE DEF r
  <2>5. /\ Shape(T) /\ Drives(R, T)
        /\ \A p \in Orders : T.owner[p] = IF p = o THEN i ELSE R.owner[p]
        /\ T.inst[i].made = None
        /\ \A j \in Instances : j # i => T.inst[j] = R.inst[j]
        /\ Sound(R) /\ R.owner[o] = None => Sound(T)
    BY <2>3, <2>4, NewKeeps
  <2> QED
    BY <1>0, <1>2, <2>5
<1> QED
  BY <1>1, <1>2

\* The row a macro made is its own from now on; who held it is detached.
LEMMA BindKeeps ==
  ASSUME NEW R, Shape(R), NEW i \in Instances, NEW o \in Orders,
         R.inst[i].run # None, R.inst[i].flow["main"].pc # "send"
  PROVE  LET T == Bind(R, i, o) IN
         /\ Shape(T) /\ Drives(R, T)
         /\ \A p \in Orders : p # o => T.owner[p] \in {None, R.owner[p]}
         /\ \A j \in Instances : T.inst[j].made \in {None, R.inst[j].made}
         /\ Sound(R) /\ Alive(R.inst[i]) /\ R.inst[i].key = None => Sound(T)
<1> DEFINE x == R.inst[i]
           y == [x EXCEPT !.key = o]
           S == [R EXCEPT !.inst[i] = y, !.owner[o] = i]
           before == R.owner[o]
           U == IF before \in {None, i} THEN S ELSE Finish(S, before, "detached", "none")
           T == Changed(U, i)
<1>0. /\ R \in Runner /\ x \in Instance /\ InstOK(x) /\ i # None /\ o # None
      /\ \A p \in Orders : R.owner[p] \in Instances \union {None}
  <2>1. MaxMacros \in Nat /\ MaxRows \in Nat
    BY MacroRunsAssumption
  <2>2. i # None /\ o # None
    BY <2>1 DEF Instances, Orders, None
  <2>3. R \in Runner /\ x \in Instance /\ InstOK(x)
    BY DEF Shape, Runner
  <2>4. \A p \in Orders : R.owner[p] \in Instances \union {None}
    BY <2>3 DEF Runner
  <2> QED
    BY <2>2, <2>3, <2>4
<1>1. Bind(R, i, o) = T
  <2>1. [R EXCEPT !.inst[i].key = o, !.owner[o] = i] = S
    BY <1>0 DEF Runner
  <2> QED
    BY <2>1, Zenon DEF Bind
<1>2. /\ y \in Instance /\ y.run = x.run /\ y.block = x.block /\ y.key = o /\ y.status = x.status
      /\ y.made = x.made /\ y.flow = x.flow
  BY <1>0 DEF Instance, Keys
<1> HIDE DEF y
<1>3. InstOK(y)
  BY <1>0, <1>2 DEF InstOK
<1>4. /\ S \in Runner /\ S.run = R.run /\ S.claims = R.claims /\ S.live = R.live /\ S.subscribed = R.subscribed
      /\ S.owner[o] = i /\ \A p \in Orders : p # o => S.owner[p] = R.owner[p]
      /\ S.inst[i] = y /\ \A j \in Instances : j # i => S.inst[j] = R.inst[j]
  BY <1>0, <1>2 DEF Runner
<1> HIDE DEF S
<1>5. \A j \in Instances : /\ S.inst[j].run = R.inst[j].run /\ S.inst[j].block = R.inst[j].block
                           /\ S.inst[j].status = R.inst[j].status /\ S.inst[j].made = R.inst[j].made
                           /\ S.inst[j].flow = R.inst[j].flow
                           /\ InstOK(S.inst[j])
  BY <1>2, <1>3, <1>4 DEF Shape
<1>6. Shape(S)
  <2>1. \A p \in Orders : S.owner[p] # None => S.inst[S.owner[p]].run # None
    BY <1>0, <1>4, <1>5 DEF Shape
  <2> QED
    BY <1>4, <1>5, <2>1 DEF Shape
<1>7. Drives(R, S)
  <2>1. \A j \in Instances : Works(R.inst[j]) => Works(S.inst[j])
    BY <1>5 DEF Works, AtWork, Alive, IsClient, FlowsOf
  <2> QED
    BY <1>4, <1>5, <2>1 DEF Drives, Driven, Macro
<1>8. ASSUME Sound(R)
      PROVE  Counts(S) /\ LivesArmed(S) /\ Listens(S) /\ Unwound(S, None, "none")
  <2>1. LiveOnes(S) = LiveOnes(R) /\ R.claims \subseteq Instances
    BY <1>0, <1>5 DEF LiveOnes, Alive, IsGenerator, Runner
  <2>2. Counts(S)
    BY <1>4, <1>5, <1>8, <2>1 DEF Sound, SoundBut, Counts, Alive
  <2> QED
    BY <1>4, <1>5, <1>8, <2>2 DEF Sound, SoundBut, LivesArmed, Listens, Armed, Unwound, Alive
<1> DEFINE Fine == Sound(R) /\ Alive(x) /\ x.key = None
\* Nobody owned the row, or owns another by the name of i.
<1>9. ASSUME Fine PROVE /\ \A p \in Orders : R.owner[p] # i
                        /\ \A j \in Instances : j # i /\ Alive(R.inst[j]) /\ R.inst[j].key = o => before = j
  <2>1. Owns(R) /\ Alive(R.inst[i]) /\ R.inst[i].key = None
    BY <1>9 DEF Sound, SoundBut
  <2>2. ASSUME NEW p \in Orders, R.owner[p] = i PROVE FALSE
    <3>1. p # None
      BY MacroRunsAssumption DEF Orders, None
    <3> QED
      BY <1>0, <2>1, <2>2, <3>1 DEF Owns
  <2>3. ASSUME NEW j \in Instances, j # i, Alive(R.inst[j]), R.inst[j].key = o PROVE before = j
    BY <1>0, <2>1, <2>3 DEF Owns
  <2> QED
    BY <2>2, <2>3
<1>10. /\ Shape(U) /\ Drives(S, U) /\ Fewer(S, U)
       /\ U.inst[i].run # None
       /\ Fine => Sound(U)
  <2>1. CASE before \in {None, i}
    <3>1. U = S
      BY <2>1
    <3>2. ASSUME Fine PROVE Owns(S)
      <4>1. ASSUME NEW p \in Orders, S.owner[p] # None
            PROVE  Alive(S.inst[S.owner[p]]) /\ S.inst[S.owner[p]].key = p
        <5>1. CASE p = o
          BY <1>2, <1>4, <3>2, <5>1 DEF Alive
        <5>2. CASE p # o
          <6>1. S.owner[p] = R.owner[p] /\ R.owner[p] # i /\ R.owner[p] \in Instances
            BY <1>0, <1>4, <1>9, <3>2, <4>1, <5>2
          <6> QED
            BY <1>4, <3>2, <4>1, <6>1 DEF Sound, SoundBut, Owns
        <5> QED
          BY <5>1, <5>2
      <4>2. ASSUME NEW j \in Instances, Alive(S.inst[j]), S.inst[j].key # None
            PROVE  S.owner[S.inst[j].key] = j
        <5>1. CASE j = i
          BY <1>2, <1>4, <5>1
        <5>2. CASE j # i
          <6>0. S.inst[j] = R.inst[j] /\ j # None
            BY <1>4, <5>2, MacroRunsAssumption DEF Instances, None
          <6>1. S.inst[j] = R.inst[j] /\ R.inst[j].key \in Orders /\ j # None
            BY <1>0, <4>2, <6>0 DEF Runner, Instance, Keys
          <6>2. R.inst[j].key # o
            BY <1>9, <2>1, <3>2, <4>2, <5>2, <6>1
          <6> QED
            BY <1>4, <3>2, <4>2, <6>1, <6>2 DEF Sound, SoundBut, Owns
        <5> QED
          BY <5>1, <5>2
      <4> QED
        BY <4>1, <4>2 DEF Owns
    <3>3. Fine => Sound(S)
      BY <1>6, <1>8, <3>2 DEF Sound, SoundBut
    <3> QED
      BY <1>0, <1>2, <1>4, <1>6, <3>1, <3>3 DEF Drives, Fewer
  <2>2. CASE before \notin {None, i}
    <3> DEFINE E == Ended(S, before, "detached", "none")
               r == S.inst[before].run
    <3>1. before \in Instances /\ before # None /\ before # i
      BY <1>0, <2>2
    <3>2. r # None /\ r \in Runs
      <4>1. R.inst[before].run # None
        BY <3>1 DEF Shape
      <4> QED
        BY <1>4, <1>5, <3>1, <4>1 DEF Runner, Instance
    <3>3. U = Finish(S, before, "detached", "none") /\ U = MaybeFinished(E, r)
      BY <2>2, Zenon DEF Finish
    <3>4. "detached" \in Ends /\ "none" # "main"
      BY DEF Ends
    <3> HIDE DEF before, U
    <3>5. /\ Shape(U) /\ Fewer(S, U) /\ Drives(S, U)
          /\ \A j \in Instances : U.inst[j].run = S.inst[j].run
      BY <1>6, <3>1, <3>2, <3>3, <3>4, FinishKeeps
    <3>6. Shape(E) /\ EndsOf(S, E, {before}, "none")
      BY <1>6, <3>1, <3>4, EndedEnds
    <3> HIDE DEF E
    <3>7. ASSUME Fine PROVE Sound(U)
      <4>1. Counts(S) /\ LivesArmed(S) /\ Listens(S) /\ Unwound(S, None, "none")
        BY <1>8, <3>7
      <4>2. LivesArmed(E) /\ Listens(E) /\ Unwound(E, None, "none")
        BY <1>6, <3>6, <4>1, EndsKeep
      <4>3. Counts(E)
        BY <3>6, <4>1 DEF EndsOf
      <4>4. E.inst[i] = y /\ E.owner[o] = i
        BY <1>4, <3>1, <3>6 DEF EndsOf
      <4>5. Alive(R.inst[before]) /\ R.inst[before].key = o
        BY <3>1, <3>7 DEF Sound, SoundBut, Owns, before
      <4>6. S.inst[before] = R.inst[before] /\ ~Alive(E.inst[before])
        BY <1>4, <3>1, <3>6, <4>5 DEF EndsOf, Over, Alive, Ends
      <4>7. \A j \in Instances : j # i /\ j # before => E.inst[j] = R.inst[j]
        BY <1>4, <3>6 DEF EndsOf
      <4>8. \A p \in Orders : p # o => E.owner[p] = R.owner[p]
        <5> SUFFICES ASSUME NEW p \in Orders, p # o PROVE E.owner[p] = R.owner[p]
          OBVIOUS
        <5>1. R.owner[p] # before
          BY <3>1, <3>7, <4>5 DEF Sound, SoundBut, Owns
        <5> QED
          BY <1>4, <3>6, <5>1 DEF EndsOf
      <4>9. Owns(E)
        <5>1. ASSUME NEW p \in Orders, E.owner[p] # None
              PROVE  Alive(E.inst[E.owner[p]]) /\ E.inst[E.owner[p]].key = p
          <6>1. CASE p = o
            BY <1>2, <3>7, <4>4, <6>1 DEF Alive
          <6>2. CASE p # o
            <7>1. E.owner[p] = R.owner[p] /\ R.owner[p] # i /\ R.owner[p] \in Instances
              BY <1>0, <1>9, <3>7, <4>8, <5>1, <6>2
            <7>2. R.owner[p] # before
              BY <3>7, <4>5, <6>2, <7>1, <5>1 DEF Sound, SoundBut, Owns
            <7> QED
              BY <3>7, <4>7, <5>1, <7>1, <7>2 DEF Sound, SoundBut, Owns
          <6> QED
            BY <6>1, <6>2
        <5>2. ASSUME NEW j \in Instances, Alive(E.inst[j]), E.inst[j].key # None
              PROVE  E.owner[E.inst[j].key] = j
          <6>1. CASE j = i
            BY <1>2, <4>4, <6>1
          <6>2. CASE j # i
            <7>1. j # before /\ E.inst[j] = R.inst[j]
              BY <4>6, <4>7, <5>2, <6>2
            <7>2. R.inst[j].key \in Orders
              BY <1>0, <5>2, <7>1 DEF Runner, Instance, Keys
            <7>3. R.inst[j].key # o
              BY <1>9, <3>7, <5>2, <6>2, <7>1
            <7> QED
              BY <3>7, <4>8, <5>2, <7>1, <7>2, <7>3 DEF Sound, SoundBut, Owns
          <6> QED
            BY <6>1, <6>2
        <5> QED
          BY <5>1, <5>2 DEF Owns
      <4>10. SoundBut(E, None, "none")
        BY <3>6, <4>2, <4>3, <4>9 DEF SoundBut
      <4> QED
        BY <3>2, <3>3, <3>6, <4>10, MaybeFinishedKeeps DEF Sound
    <3>8. U.inst[i].run # None
      BY <1>2, <1>4, <3>5
    <3> QED
      BY <3>5, <3>7, <3>8
  <2> QED
    BY <2>1, <2>2
<1> HIDE DEF U
<1>11. /\ Shape(T) /\ Fewer(U, T) /\ Drives(U, T)
       /\ Sound(U) => Sound(T)
  BY <1>10, ChangedKeeps DEF Sound
<1> HIDE DEF T
<1>12. Drives(R, T)
  BY <1>7, <1>10, <1>11 DEF Drives
<1>13. \A p \in Orders : p # o => T.owner[p] \in {None, R.owner[p]}
  BY <1>4, <1>10, <1>11 DEF Fewer
<1>14. \A j \in Instances : T.inst[j].made \in {None, R.inst[j].made}
  BY <1>5, <1>10, <1>11 DEF Fewer
<1> QED
  BY <1>1, <1>10, <1>11, <1>12, <1>13, <1>14

\* Every macro of the run ends with it.
LEMMA StoppedRunKeeps ==
  ASSUME NEW R, Shape(R), NEW r \in Runs
  PROVE  LET T == StoppedRun(R, r) IN
         /\ Shape(T) /\ Fewer(R, T) /\ Drives(R, T)
         /\ Driven(T, r)
         /\ Sound(R) => Sound(T)
<1> DEFINE T == StoppedRun(R, r)
<1>0. R \in Runner /\ \A i \in Instances : R.inst[i] \in Instance /\ InstOK(R.inst[i])
  BY DEF Shape, Runner
<1>1. CASE R.run[r].status = "stopped"
  <2>1. T = R
    BY <1>1 DEF StoppedRun
  <2> QED
    BY <1>1, <2>1 DEF Fewer, Drives, Driven
<1>2. CASE R.run[r].status # "stopped"
  <2> DEFINE S == [R EXCEPT !.run[r].status = "stopped"]
             is == Of(R, r)
             A == AllEnded(S, is, "stopped")
             O == Opened(A, r)
  <2>1. T = Unsubscribed(O)
    BY <1>2, Zenon DEF StoppedRun
  <2>2. is \subseteq Instances /\ \A i \in Instances : i \in is <=> R.inst[i].run = r
    BY DEF Of
  <2>3. /\ Shape(S) /\ S.inst = R.inst /\ S.owner = R.owner /\ S.claims = R.claims /\ S.live = R.live
        /\ S.subscribed = R.subscribed
        /\ \A s \in Runs : /\ S.run[s].status = IF s = r THEN "stopped" ELSE R.run[s].status
                           /\ S.run[s].macro = R.run[s].macro
    <3> DEFINE y == [R.run[r] EXCEPT !.status = "stopped"]
    <3>1. R.run[r] \in Run
      BY <1>0 DEF Runner
    <3>2. y \in Run /\ y.status = "stopped" /\ y.macro = R.run[r].macro
      BY <3>1 DEF Run, RunStatuses
    <3>3. S = [R EXCEPT !.run[r] = y]
      BY <1>0 DEF Runner
    <3> HIDE DEF y, S
    <3> QED
      BY <3>2, <3>3, PutRun
  <2> HIDE DEF S, is
  <2>4. Shape(S)
    BY <2>3
  <2>5. Shape(A) /\ EndsOf(S, A, is, "none")
    BY <2>2, <2>4, AllEndedEnds DEF Ends
  <2> HIDE DEF A
  <2>6. Shape(O) /\ Stirs(A, O) /\ Akin(A, O)
    BY <2>5, OpenedStirs DEF Stirs
  <2> HIDE DEF O
  <2>7. /\ Shape(T)
        /\ T.run = O.run /\ T.inst = O.inst /\ T.owner = O.owner /\ T.claims = O.claims /\ T.live = O.live
        /\ T.subscribed <=> O.subscribed /\ Armed(T) # {}
    BY <2>1, <2>6, UnsubscribedKeeps
  <2> HIDE DEF T
  <2>8. \A s \in Runs : T.run[s].status = IF s = r THEN "stopped" ELSE R.run[s].status
    BY <2>3, <2>5, <2>6, <2>7 DEF EndsOf, Stirs
  <2>9. Fewer(R, T)
    BY <2>3, <2>5, <2>6, <2>7 DEF EndsOf, Fewer, Stirs
  <2>10. ASSUME Sound(R) PROVE Sound(T)
    <3>1. Counts(S) /\ Owns(S) /\ Unwound(S, None, "none")
      BY <2>3, <2>10 DEF Sound, SoundBut, Counts, Owns, Unwound, LiveOnes
    <3>2. Counts(A) /\ Owns(A) /\ Unwound(A, None, "none")
      BY <2>4, <2>5, <3>1, EndsKeep DEF EndsOf
    <3>3. Counts(O) /\ Owns(O) /\ Unwound(O, None, "none")
      BY <2>5, <2>6, <3>2, AkinKeeps
    <3>4. Counts(T) /\ Owns(T) /\ Unwound(T, None, "none")
      BY <2>7, <3>3 DEF Counts, Owns, Unwound, LiveOnes
    <3>5. LivesArmed(T)
      <4> SUFFICES ASSUME NEW i \in Instances, Alive(T.inst[i])
                   PROVE  T.run[T.inst[i].run].status = "armed"
        BY DEF LivesArmed
      <4>1. Alive(A.inst[i]) /\ T.inst[i].run = A.inst[i].run
        BY <2>6, <2>7 DEF Akin, Kin
      <4>2. i \notin is /\ A.inst[i] = R.inst[i]
        BY <2>3, <2>5, <4>1 DEF EndsOf, Over, Alive, Ends
      <4>3. R.inst[i].run # r
        BY <2>2, <4>2
      <4>4. R.inst[i].run \in Runs
        BY <1>0, <4>1, <4>2 DEF InstOK, Instance, Alive
      <4> QED
        BY <2>8, <2>10, <4>1, <4>2, <4>3, <4>4 DEF Sound, SoundBut, LivesArmed
    <3>6. Listens(T)
      <4>1. Armed(T) # {} => Armed(R) # {}
        BY <2>8 DEF Armed
      <4> QED
        BY <2>3, <2>5, <2>6, <2>7, <2>10, <4>1 DEF Sound, SoundBut, Listens, EndsOf, Akin
    <3> QED
      BY <2>7, <3>4, <3>5, <3>6 DEF Sound, SoundBut
  <2>11. ASSUME NEW s \in Runs, s # r, Driven(R, s) PROVE Driven(T, s)
    <3>1. Driven(S, s)
      BY <2>3, <2>11 DEF Driven, Macro
    <3>2. Driven(A, s)
      <4>1. \A j \in Instances : j \in is => R.inst[j].run # s
        BY <2>2, <2>11
      <4> QED
        BY <2>3, <2>4, <2>5, <3>1, <4>1, EndsKeep
    <3>3. Driven(O, s)
      BY <2>5, <2>6, <3>2, AkinKeeps DEF Drives
    <3> QED
      BY <2>7, <3>3 DEF Driven, Macro
  <2>12. Driven(T, r)
    BY <2>8 DEF Driven
  <2>13. Drives(R, T)
    BY <2>11, <2>12 DEF Drives
  <2> QED
    BY <2>7, <2>9, <2>10, <2>12, <2>13 DEF T
<1> QED
  BY <1>1, <1>2

-----------------------------------------------------------------------------
(* The invariant of the specification.                                      *)

CallOps == {"idle", "insert", "name", "start", "settle", "join"}
RowStatuses == RunStatuses \union {"paused", "interrupted"}

RowsOK ==
    /\ runRows \in Seq(RowStatuses)
    /\ macroRows \in [Runs -> [RowKeys -> Statuses \union {"interrupted"}]]
CallsOK ==
    /\ call \in [Callers -> [op : CallOps, run : Runs \union {None}]]
    /\ \A c \in Callers : call[c].op # "idle" => call[c].run # None

TypeOK ==
    /\ Shape(runner)
    /\ orders \in [Orders -> {"none", "added", "sent", "received"}]
    /\ RowsOK /\ CallsOK
    /\ acts \in Nat /\ calm \in BOOLEAN

\* The orders macros own, or made, have come to be, and are not to be begun.
KnownTo(R, os) ==
    /\ \A o \in Orders : R.owner[o] # None => os[o] \notin {"none", "added"}
    /\ \A i \in Instances : R.inst[i].made # None => os[R.inst[i].made] \notin {"none", "added"}

\* A run goes on without a macro only until its command has started it.
Starting(r) == \E c \in Callers : call[c].op \in {"insert", "name", "start"} /\ call[c].run = r
AllDriven(R, but) == \A r \in Runs : r \in but \/ Driven(R, r)
Begun == {r \in Runs : Starting(r)}

Inv ==
    /\ TypeOK
    /\ KnownTo(runner, orders)
    /\ calm => Sound(runner) /\ AllDriven(runner, Begun)

\* A step that leaves the orders and the commands alone.
LEMMA StepKeeps ==
  ASSUME Inv, Shape(runner'), Fewer(runner, runner'),
         Sound(runner) => Sound(runner') /\ Drives(runner, runner'),
         UNCHANGED << orders, call, calm >>, RowsOK', acts' \in Nat
  PROVE  Inv'
<1>1. TypeOK'
  BY DEF Inv, TypeOK, CallsOK
<1>2. KnownTo(runner', orders')
  <2>1. \A i \in Instances : runner.inst[i].made \in Keys
    BY DEF Inv, TypeOK, Shape, Runner, Instance
  <2> QED
    BY <2>1 DEF Inv, KnownTo, Fewer
<1>3. Begun' = Begun
  BY DEF Begun, Starting
<1>4. calm' => Sound(runner') /\ AllDriven(runner', Begun')
  BY <1>3 DEF Inv, AllDriven, Drives
<1> QED
  BY <1>1, <1>2, <1>4 DEF Inv

LEMMA FlowFacts ==
  ASSUME NEW R, Shape(R), NEW i \in Instances, NEW f \in Flows
  PROVE  LET x == R.inst[i] IN
         /\ x \in Instance /\ InstOK(x)
         /\ x.flow[f] \in Flow
         /\ x.flow[f].pc # "off" => x.run # None /\ x.run \in Runs
         /\ Sound(R) /\ x.flow[f].pc # "off" /\ ~x.flow[f].doomed => Alive(x)
         /\ Sound(R) => SoundBut(R, i, f)
<1> DEFINE x == R.inst[i]
<1>1. x \in Instance /\ InstOK(x)
  BY DEF Shape, Runner
<1>2. x.flow[f] \in Flow /\ x.run \in Runs \union {None}
  BY <1>1 DEF Instance
<1>3. x.flow[f].pc # "off" => x.run # None
  BY <1>1 DEF InstOK, NoFlow
<1>4. \A j \in Instances : j # None
  BY MacroRunsAssumption DEF Instances, None
<1>5. Sound(R) /\ x.flow[f].pc # "off" /\ ~x.flow[f].doomed => Alive(x)
  BY <1>4 DEF Sound, SoundBut, Unwound, Quiet
<1>6. Sound(R) => SoundBut(R, i, f)
  BY <1>4 DEF Sound, SoundBut, Unwound
<1> QED
  BY <1>1, <1>2, <1>3, <1>5, <1>6

LEMMA MovedKeeps ==
  ASSUME NEW R, Shape(R), NEW T, NEW i \in Instances, NEW f \in Flows, NEW g, Moved(R, T, i, f, g)
  PROVE  /\ Shape(T) /\ Fewer(R, T) /\ Drives(R, T)
         /\ Sound(R) => Sound(T)
<1>1. Shape(T) /\ Akin(R, T) /\ Fewer(R, T)
  BY DEF Moved
<1> QED
  BY <1>1, AkinKeeps DEF Sound

LEMMA StirsKeeps ==
  ASSUME NEW R, Shape(R), NEW T, Stirs(R, T)
  PROVE  /\ Shape(T) /\ Fewer(R, T) /\ Drives(R, T)
         /\ Sound(R) => Sound(T)
<1>1. Shape(T) /\ Akin(R, T) /\ Fewer(R, T)
  BY DEF Stirs
<1> QED
  BY <1>1, AkinKeeps DEF Sound

LEMMA ThenDrives ==
  ASSUME NEW R, NEW S, NEW T, Fewer(R, S), Fewer(S, T)
  PROVE  /\ Fewer(R, T)
         /\ Drives(R, S) /\ Drives(S, T) => Drives(R, T)
  BY DEF Fewer, Drives

\* A macro ends in its own flow, and the flow with it.
LEMMA FinishesKeeps ==
  ASSUME NEW R, Shape(R), NEW i \in Instances, NEW f \in Flows, R.inst[i].run # None,
         R.inst[i].flow[f].pc # "sent", NEW status \in Ends
  PROVE  LET T == FlowOver(Finish(R, i, status, f), i, f) IN
         /\ Shape(T) /\ Fewer(R, T) /\ Drives(R, T)
         /\ Sound(R) => Sound(T)
<1> DEFINE S == Finish(R, i, status, f)
           T == FlowOver(S, i, f)
<1>1. /\ Shape(S) /\ Fewer(R, S) /\ Drives(R, S)
      /\ Sound(R) => SoundBut(S, i, f)
  BY FinishKeeps
<1> HIDE DEF S
<1>2. /\ Shape(T) /\ Fewer(S, T) /\ Drives(S, T)
      /\ SoundBut(S, i, f) => Sound(T)
  BY <1>1, FlowOverKeeps
<1> HIDE DEF T
<1>3. Fewer(R, T) /\ Drives(R, T)
  BY <1>1, <1>2, ThenDrives
<1> QED
  BY <1>1, <1>2, <1>3 DEF T, S

\* A flow in the engine or at a line goes to another such place.
LEMMA TaskPut ==
  ASSUME NEW R, Shape(R), NEW i \in Instances, NEW f \in Flows, R.inst[i].flow[f].pc \in AtTask,
         NEW pc \in AtTask \ {"sent"}, pc = "send" => R.inst[i].key = None
  PROVE  Moved(R, [R EXCEPT !.inst[i].flow[f].pc = pc], i, f, [R.inst[i].flow[f] EXCEPT !.pc = pc])
<1> DEFINE x == R.inst[i]
           g == [x.flow[f] EXCEPT !.pc = pc]
<1>0. R \in Runner /\ x \in Instance /\ InstOK(x)
  BY DEF Shape, Runner
<1>1. x.flow[f] \in Flow /\ x.flow[f].pc # "off" /\ x.flow[f].busy = TRUE
  BY <1>0 DEF Instance, InstOK, AtTask, AtRest, Flow
<1>2. g \in Flow /\ g.pc = pc /\ g.busy = TRUE /\ g.doomed = x.flow[f].doomed
  BY <1>1 DEF Flow, AtTask
<1>3. [R EXCEPT !.inst[i].flow[f].pc = pc] = [R EXCEPT !.inst[i].flow[f] = g]
  BY <1>0 DEF Runner, Instance
<1> HIDE DEF g
<1>4. g.pc # "off" /\ (g.busy <=> g.pc \notin AtRest)
  BY <1>2 DEF AtTask, AtRest
<1>5. Moved(R, [R EXCEPT !.inst[i].flow[f].pc = pc], i, f, g)
  <2>1. (f = "main" /\ g.pc = "sent" => FALSE) /\ (f = "main" /\ g.pc = "send" => x.key = None)
    BY <1>2
  <2>2. Moved(R, [R EXCEPT !.inst[i].flow[f] = g], i, f, g)
    BY <1>1, <1>2, <1>4, <2>1, FlowPut
  <2> QED
    BY <1>3, <2>2, Zenon
<1> QED
  BY <1>5 DEF g

LEMMA UnmovedKeeps ==
  ASSUME Inv, Unmoved, Shape(runner'), Fewer(runner, runner'),
         Sound(runner) => Sound(runner') /\ Drives(runner, runner')
  PROVE  Inv'
<1>1. UNCHANGED << orders, call, calm >> /\ RowsOK' /\ acts' \in Nat
  BY DEF Unmoved, Inv, TypeOK, RowsOK
<1> QED
  BY <1>1, StepKeeps

LEMMA LineFacts ==
  ASSUME Inv, NEW i \in Instances, NEW f \in Flows, AtLine(i, f)
  PROVE  LET x == runner.inst[i] IN
         /\ Shape(runner) /\ x.run # None /\ x.run \in Runs
         /\ x.flow[f].pc \in AtTask /\ x.flow[f].pc \notin {"off", "send", "sent"}
         /\ ~x.flow[f].doomed
         /\ Sound(runner) => Alive(x)
<1>1. Shape(runner)
  BY DEF Inv, TypeOK
<1>2. runner.inst[i].flow[f].pc \in AtTask \ {"off", "send", "sent"} /\ ~runner.inst[i].flow[f].doomed
  BY DEF AtLine, AtTask, Places, AtRest
<1> QED
  BY <1>1, <1>2, FlowFacts

LEMMA ParkSteps ==
  ASSUME Inv, NEW i \in Instances, NEW f \in Flows, Gate(i, f) \/ Wait(i, f)
  PROVE  Inv'
<1>1. AtLine(i, f) /\ Unmoved /\ \E pc \in {"parked", "gated"} : runner' = Parked(runner, i, f, pc)
  BY DEF Gate, Wait, Goes
<1>2. PICK pc \in {"parked", "gated"} : runner' = Parked(runner, i, f, pc)
  BY <1>1
<1>3. /\ Shape(runner') /\ Fewer(runner, runner') /\ Drives(runner, runner')
      /\ Sound(runner) => Sound(runner')
  BY <1>1, <1>2, LineFacts, ParkedKeeps
<1> QED
  BY <1>1, <1>3, UnmovedKeeps

LEMMA RingStep == ASSUME Inv, NEW i \in Instances, NEW f \in Flows, Ring(i, f) PROVE Inv'
<1> DEFINE g == runner.inst[i].flow[f]
           h == Woken(g)
<1>1. Shape(runner) /\ g \in Flow /\ g.pc # "off" /\ ~g.doomed
  <2>1. g.pc = "parked"
    BY DEF Ring
  <2> QED
    BY <2>1, FlowFacts DEF Ring, Inv, TypeOK
<1>2. h \in Flow /\ h.pc = "line" /\ h.busy = TRUE /\ h.doomed = g.doomed
  BY <1>1 DEF Woken, Flow, Places
<1>3. runner' = [runner EXCEPT !.inst[i].flow[f] = h]
  BY DEF Ring
<1> HIDE DEF h
<1>4. h.pc # "off" /\ (h.busy <=> h.pc \notin AtRest)
  BY <1>2 DEF AtRest
<1>5. h.pc # "sent" /\ h.pc # "send"
  BY <1>2
<1>6. Moved(runner, runner', i, f, h)
  BY <1>1, <1>2, <1>3, <1>4, <1>5, FlowPut
<1> QED
  BY <1>1, <1>6, MovedKeeps, UnmovedKeeps DEF Ring

LEMMA ActStep == ASSUME Inv, NEW i \in Instances, NEW f \in Flows, Act(i, f) PROVE Inv'
<1> DEFINE x == runner.inst[i]
           To(pc) == [runner EXCEPT !.inst[i].flow[f].pc = pc]
<1>1. Unmoved /\ Shape(runner) /\ x.flow[f].pc \in AtTask
  BY LineFacts DEF Act, Goes
<1>2. CASE ~Alive(x) /\ runner' = FlowOver(runner, i, f)
  <2>1. /\ Shape(runner') /\ Fewer(runner, runner') /\ Drives(runner, runner')
        /\ SoundBut(runner, i, f) => Sound(runner')
    BY <1>1, <1>2, FlowOverKeeps
  <2>2. Sound(runner) => SoundBut(runner, i, f)
    BY <1>1, FlowFacts
  <2> QED
    BY <1>1, <2>1, <2>2, UnmovedKeeps
<1>3. CASE \E pc \in {"act", "send"} : (pc = "send" => x.key = None) /\ runner' = To(pc)
  <2>1. PICK pc \in {"act", "send"} : (pc = "send" => x.key = None) /\ runner' = To(pc)
    BY <1>3
  <2>2. pc \in AtTask \ {"sent"}
    BY DEF AtTask, Places, AtRest
  <2> DEFINE h == [x.flow[f] EXCEPT !.pc = pc]
  <2>3. Moved(runner, runner', i, f, h)
    BY <1>1, <2>1, <2>2, TaskPut
  <2> HIDE DEF h
  <2> QED
    BY <1>1, <2>3, MovedKeeps, UnmovedKeeps
<1>4. CASE runner' = runner
  BY <1>1, <1>4, UnmovedKeeps DEF Fewer, Drives
<1>5. \/ ~Alive(x) /\ runner' = FlowOver(runner, i, f)
      \/ runner' = To("act")
      \/ x.key = None /\ runner' = To("send")
      \/ runner' = runner
  BY Zenon DEF Act
<1> HIDE DEF To
<1> QED
  BY <1>2, <1>3, <1>4, <1>5 DEF To

LEMMA WhenStep == ASSUME Inv, NEW i \in Instances, When(i) PROVE Inv'
<1> DEFINE S == AtNext(runner, i, "main")
           y == [S.inst[i] EXCEPT !.handlers = TRUE]
           h == [runner.inst[i].flow["main"] EXCEPT !.pc = "line"]
<1>1. "main" \in Flows /\ Unmoved /\ Shape(runner) /\ runner.inst[i].flow["main"].pc \in AtTask
  <2>1. "main" \in Flows
    BY DEF Flows
  <2> QED
    BY <2>1, LineFacts DEF When, Goes
<1>2. Moved(runner, S, i, "main", h)
  BY <1>1, AtNextKeeps
<1> HIDE DEF h
<1>3. /\ Shape(S) /\ Fewer(runner, S) /\ Drives(runner, S)
      /\ Sound(runner) => Sound(S)
  BY <1>1, <1>2, MovedKeeps
<1>4. runner' = [S EXCEPT !.inst[i].handlers = TRUE]
  BY DEF When
<1> HIDE DEF S
<1>5. S \in Runner /\ S.inst[i] \in Instance /\ InstOK(S.inst[i])
  BY <1>3 DEF Shape, Runner
<1>6. /\ y \in Instance /\ y.run = S.inst[i].run /\ y.block = S.inst[i].block /\ y.key = S.inst[i].key
      /\ y.made = S.inst[i].made /\ y.status = S.inst[i].status /\ y.flow = S.inst[i].flow
  BY <1>5 DEF Instance
<1>7. runner' = [S EXCEPT !.inst[i] = y]
  BY <1>4, <1>5 DEF Runner
<1> HIDE DEF y
<1>8. InstOK(y) /\ Kin(S.inst[i], y)
  BY <1>5, <1>6 DEF InstOK, Kin, Alive, AtWork, FlowsOf
<1>9. /\ Shape(runner') /\ Akin(S, runner') /\ runner'.owner = S.owner /\ runner'.inst[i] = y
      /\ \A j \in Instances : j # i => runner'.inst[j] = S.inst[j]
  BY <1>3, <1>6, <1>7, <1>8, PutKeeps
<1>10. Fewer(S, runner')
  BY <1>6, <1>9 DEF Fewer
<1>11. Drives(S, runner') /\ (Sound(S) => Sound(runner'))
  BY <1>3, <1>9, AkinKeeps DEF Sound
<1>12. Fewer(runner, runner') /\ Drives(runner, runner')
  BY <1>3, <1>10, <1>11, ThenDrives
<1> QED
  BY <1>1, <1>3, <1>9, <1>11, <1>12, UnmovedKeeps

LEMMA AddStep == ASSUME Inv, NEW i \in Instances, Add(i) PROVE Inv'
<1> DEFINE h == [runner.inst[i].flow["main"] EXCEPT !.pc = "add"]
<1>1. "main" \in Flows
  BY DEF Flows
<1>2. Unmoved /\ Shape(runner) /\ runner.inst[i].flow["main"].pc \in AtTask
  BY <1>1, LineFacts DEF Add, Goes
<1>3. "add" \in AtTask \ {"sent"}
  BY DEF AtTask, Places, AtRest
<1>4. Moved(runner, runner', i, "main", h)
  BY <1>1, <1>2, <1>3, TaskPut DEF Add
<1> HIDE DEF h
<1> QED
  BY <1>1, <1>2, <1>4, MovedKeeps, UnmovedKeeps

LEMMA ActedStep == ASSUME Inv, NEW i \in Instances, NEW f \in Flows, Acted(i, f) PROVE Inv'
<1> DEFINE h == [runner.inst[i].flow[f] EXCEPT !.pc = "line"]
<1>1. Unmoved /\ Shape(runner) /\ runner.inst[i].flow[f].pc \in AtTask
  BY DEF Acted, Inv, TypeOK, AtTask, Places, AtRest
<1>2. Moved(runner, runner', i, f, h)
  BY <1>1, AtNextKeeps DEF Acted
<1> HIDE DEF h
<1> QED
  BY <1>1, <1>2, MovedKeeps, UnmovedKeeps

LEMMA VerdictStep == ASSUME Inv, NEW i \in Instances, NEW f \in Flows, Verdict(i, f) PROVE Inv'
<1>1. PICK status \in Verdicts : runner' = FlowOver(Finish(runner, i, status, f), i, f)
  BY DEF Verdict
<1>2. status \in Ends
  BY MacroRunsAssumption DEF Ends
<1>3. Unmoved /\ Shape(runner) /\ runner.inst[i].run # None /\ runner.inst[i].flow[f].pc # "sent"
  BY LineFacts DEF Verdict, Goes
<1>4. /\ Shape(runner') /\ Fewer(runner, runner') /\ Drives(runner, runner')
      /\ Sound(runner) => Sound(runner')
  BY <1>1, <1>2, <1>3, FinishesKeeps
<1> QED
  BY <1>3, <1>4, UnmovedKeeps

LEMMA UnwindsStep == ASSUME Inv, NEW i \in Instances, NEW f \in Flows, Unwinds(i, f) PROVE Inv'
<1>1. Unmoved /\ Shape(runner) /\ runner' = FlowOver(runner, i, f)
  BY DEF Unwinds, Inv, TypeOK
<1>2. /\ Shape(runner') /\ Fewer(runner, runner') /\ Drives(runner, runner')
      /\ SoundBut(runner, i, f) => Sound(runner')
  BY <1>1, FlowOverKeeps
<1>3. Sound(runner) => SoundBut(runner, i, f)
  BY <1>1, FlowFacts
<1> QED
  BY <1>1, <1>2, <1>3, UnmovedKeeps

\* The main flow is over, and the macro listens on.
LEMMA ListensOn ==
  ASSUME NEW R, Shape(R), NEW i \in Instances, R.inst[i].flow["main"].pc # "off"
  PROVE  LET S == [R EXCEPT !.inst[i].status = "listening"] IN
         /\ Shape(S) /\ Fewer(R, S) /\ S.inst[i].run # None
         /\ Sound(R) /\ Alive(R.inst[i]) => Sound(S) /\ Drives(R, S)
<1> DEFINE x == R.inst[i]
           y == [x EXCEPT !.status = "listening"]
           S == [R EXCEPT !.inst[i] = y]
<1>1. R \in Runner /\ x \in Instance /\ InstOK(x) /\ "main" \in Flows
  BY DEF Shape, Runner, Flows
<1>2. x.run # None
  BY <1>1, FlowFacts
<1>3. /\ y \in Instance /\ y.run = x.run /\ y.block = x.block /\ y.key = x.key
      /\ y.made = x.made /\ y.status = "listening" /\ y.flow = x.flow
  BY <1>1 DEF Instance, Statuses, Lives
<1>4. [R EXCEPT !.inst[i].status = "listening"] = S
  BY <1>1 DEF Runner
<1> HIDE DEF y
<1>5. InstOK(y)
  BY <1>1, <1>2, <1>3 DEF InstOK
<1>6. /\ S \in Runner /\ S.owner = R.owner /\ S.inst[i] = y
      /\ \A j \in Instances : j # i => S.inst[j] = R.inst[j]
  BY <1>1, <1>3 DEF Runner
<1>7. Shape(S)
  <2>1. \A j \in Instances : S.inst[j].run = R.inst[j].run /\ InstOK(S.inst[j])
    BY <1>3, <1>5, <1>6 DEF Shape
  <2>2. \A o \in Orders : R.owner[o] \in Instances \union {None}
    BY <1>1 DEF Runner
  <2> QED
    BY <1>6, <2>1, <2>2 DEF Shape
<1>8. Fewer(R, S)
  BY <1>3, <1>6 DEF Fewer
<1>9. ASSUME Sound(R), Alive(x) PROVE Sound(S) /\ Drives(R, S)
  <2>1. "main" \in FlowsOf(y)
    BY <1>1, <1>3 DEF FlowsOf
  <2>2. Kin(x, y)
    BY <1>3, <1>9, <2>1 DEF Kin, Alive, AtWork
  <2>3. Akin(R, S)
    BY <1>3, <1>5, <2>2, PutKeeps
  <2> HIDE DEF S
  <2> QED
    BY <1>7, <1>9, <2>3, AkinKeeps DEF Sound
<1> QED
  BY <1>2, <1>3, <1>4, <1>6, <1>7, <1>8, <1>9

LEMMA EndStep == ASSUME Inv, NEW i \in Instances, NEW f \in Flows, End(i, f) PROVE Inv'
<1> DEFINE x == runner.inst[i]
           S == [runner EXCEPT !.inst[i].status = "listening"]
           C == Changed(S, i)
<1>1. Unmoved /\ Shape(runner) /\ x.run # None /\ x.flow[f].pc \notin {"off", "sent"}
      /\ (Sound(runner) => Alive(x))
  BY LineFacts DEF End, Goes
<1>2. \/ runner' = FlowOver(runner, i, f)
      \/ f = "main" /\ runner' = FlowOver(C, i, f)
      \/ runner' = FlowOver(Finish(runner, i, "completed", f), i, f)
  BY DEF End, Flows
<1>3. CASE runner' = FlowOver(runner, i, f)
  <2>1. /\ Shape(runner') /\ Fewer(runner, runner') /\ Drives(runner, runner')
        /\ SoundBut(runner, i, f) => Sound(runner')
    BY <1>1, <1>3, FlowOverKeeps
  <2>2. Sound(runner) => SoundBut(runner, i, f)
    BY <1>1, FlowFacts
  <2> QED
    BY <1>1, <2>1, <2>2, UnmovedKeeps
<1>4. CASE f = "main" /\ runner' = FlowOver(C, i, f)
  <2>1. /\ Shape(S) /\ Fewer(runner, S) /\ S.inst[i].run # None
        /\ Sound(runner) => Sound(S) /\ Drives(runner, S)
    BY <1>1, <1>4, ListensOn
  <2> HIDE DEF S
  <2>2. /\ Shape(C) /\ Fewer(S, C) /\ Drives(S, C)
        /\ Sound(S) => Sound(C)
    BY <2>1, ChangedKeeps DEF Sound
  <2> HIDE DEF C
  <2>3. Sound(C) => SoundBut(C, i, f)
    BY <2>2, FlowFacts
  <2>4. /\ Shape(runner') /\ Fewer(C, runner') /\ Drives(C, runner')
        /\ SoundBut(C, i, f) => Sound(runner')
    BY <1>4, <2>2, FlowOverKeeps
  <2>5. Fewer(runner, C) /\ (Drives(runner, S) => Drives(runner, C))
    BY <2>1, <2>2, ThenDrives
  <2>6. Fewer(runner, runner') /\ (Drives(runner, S) => Drives(runner, runner'))
    BY <2>4, <2>5, ThenDrives
  <2> QED
    BY <1>1, <2>1, <2>2, <2>3, <2>4, <2>6, UnmovedKeeps
<1>5. CASE runner' = FlowOver(Finish(runner, i, "completed", f), i, f)
  <2>1. "completed" \in Ends
    BY DEF Ends
  <2>2. /\ Shape(runner') /\ Fewer(runner, runner') /\ Drives(runner, runner')
        /\ Sound(runner) => Sound(runner')
    BY <1>1, <1>5, <2>1, FinishesKeeps, Zenon
  <2> QED
    BY <1>1, <2>2, UnmovedKeeps
<1> QED
  BY <1>2, <1>3, <1>4, <1>5

LEMMA PassStep == ASSUME Inv, NEW i \in Instances, Pass(i) PROVE Inv'
<1> DEFINE x == runner.inst[i]
           r == x.run
           S == Started(runner, r, "run")
           N == AtNext(S, i, "main")
           n == runner.run[r].passes
<1>0. "main" \in Flows
  BY DEF Flows
<1>1. Unmoved /\ Shape(runner) /\ r # None /\ r \in Runs /\ x.flow["main"].pc # "sent"
      /\ x.flow["main"].pc \in AtTask
  BY <1>0, LineFacts DEF Pass, Goes
<1>2. \/ runner' = FlowOver(Finish(runner, i, "completed", "main"), i, "main")
      \/ runner' = [N EXCEPT !.run[r].passes = n + 1]
  BY Zenon DEF Pass
<1>3. CASE runner' = FlowOver(Finish(runner, i, "completed", "main"), i, "main")
  <2>1. "completed" \in Ends
    BY DEF Ends
  <2>2. /\ Shape(runner') /\ Fewer(runner, runner') /\ Drives(runner, runner')
        /\ Sound(runner) => Sound(runner')
    BY <1>0, <1>1, <1>3, <2>1, FinishesKeeps
  <2> QED
    BY <1>1, <2>2, UnmovedKeeps
<1>4. CASE runner' = [N EXCEPT !.run[r].passes = n + 1]
  <2>1. "run" \in Blocks
    BY DEF Blocks
  <2>2. /\ Shape(S) /\ Drives(runner, S) /\ Fewer(runner, S) /\ S.run = runner.run
        /\ \A j \in Instances : runner.inst[j].status # "none" => S.inst[j] = runner.inst[j]
        /\ Sound(runner) => Sound(S)
    BY <1>1, <2>1, StartedKeeps
  <2>3. S.inst[i] = x
    <3>1. x.status # "none"
      BY <1>1 DEF Shape, InstOK
    <3> QED
      BY <2>2, <3>1
  <2> HIDE DEF S
  <2>4. S.inst[i].flow["main"].pc \in AtTask
    BY <1>1, <2>3
  <2> DEFINE h == [S.inst[i].flow["main"] EXCEPT !.pc = "line"]
  <2>5. Moved(S, N, i, "main", h)
    BY <1>0, <2>2, <2>4, AtNextKeeps
  <2> HIDE DEF h, N
  <2>6. /\ Shape(N) /\ Fewer(S, N) /\ Drives(S, N) /\ N.run = runner.run
        /\ Sound(S) => Sound(N)
    BY <1>0, <2>2, <2>5, MovedKeeps DEF Moved
  <2> DEFINE y == [N.run[r] EXCEPT !.passes = n + 1]
  <2>7. N \in Runner /\ N.run[r] \in Run /\ n \in Nat
    BY <1>1, <2>6 DEF Shape, Runner, Run
  <2>8. y \in Run /\ y.status = N.run[r].status /\ y.macro = N.run[r].macro
    <3>1. n + 1 \in Nat
      BY <2>7
    <3> HIDE DEF N, n, r
    <3> QED
      BY <2>7, <3>1 DEF Run
  <2>9. runner' = [N EXCEPT !.run[r] = y]
    BY <1>4, <2>7 DEF Runner
  <2> HIDE DEF y
  <2>10. /\ Shape(runner')
         /\ runner'.inst = N.inst /\ runner'.owner = N.owner /\ runner'.claims = N.claims
         /\ runner'.live = N.live /\ runner'.subscribed = N.subscribed
         /\ runner'.run[r] = y /\ \A s \in Runs : s # r => runner'.run[s] = N.run[s]
    BY <1>1, <2>6, <2>8, <2>9, PutRun
  <2>11. Akin(N, runner') /\ Fewer(N, runner')
    BY <2>8, <2>10 DEF Akin, Kin, Fewer
  <2>12. Drives(N, runner') /\ (Sound(N) => Sound(runner'))
    BY <2>6, <2>10, <2>11, AkinKeeps DEF Sound
  <2>13. Fewer(runner, N) /\ Drives(runner, N)
    BY <2>2, <2>6, ThenDrives
  <2>14. Fewer(runner, runner') /\ Drives(runner, runner')
    BY <2>11, <2>12, <2>13, ThenDrives
  <2> QED
    BY <1>1, <2>2, <2>6, <2>10, <2>12, <2>14, UnmovedKeeps
<1> QED
  BY <1>2, <1>3, <1>4, Zenon

\* A step of the orders too.
LEMMA OrdersKeep ==
  ASSUME Inv, Shape(runner'), orders' \in [Orders -> {"none", "added", "sent", "received"}],
         KnownTo(runner', orders'), UNCHANGED call, RowsOK', acts' \in Nat, calm' \in BOOLEAN,
         calm' => calm /\ (Sound(runner) => Sound(runner') /\ Drives(runner, runner'))
  PROVE  Inv'
<1>1. TypeOK'
  BY DEF Inv, TypeOK, CallsOK
<1>2. Begun' = Begun
  BY DEF Begun, Starting
<1>3. calm' => Sound(runner') /\ AllDriven(runner', Begun')
  BY <1>2 DEF Inv, AllDriven, Drives
<1> QED
  BY <1>1, <1>3 DEF Inv

\* An order comes to be, or is announced again: what more is owned or made is that order.
LEMMA NowKnown ==
  ASSUME NEW R, Shape(R), NEW T, Shape(T), NEW os \in [Orders -> {"none", "added", "sent", "received"}],
         NEW o \in Orders, NEW way \in {"sent", "received"}, KnownTo(R, os),
         \A p \in Orders : p # o => T.owner[p] \in {None, R.owner[p]},
         \A j \in Instances : T.inst[j].made \in {None, o, R.inst[j].made}
  PROVE  /\ [os EXCEPT ![o] = way] \in [Orders -> {"none", "added", "sent", "received"}]
         /\ KnownTo(T, [os EXCEPT ![o] = way])
<1> DEFINE now == [os EXCEPT ![o] = way]
<1>1. now \in [Orders -> {"none", "added", "sent", "received"}]
  OBVIOUS
<1>2. \A p \in Orders : p = o \/ os[p] \notin {"none", "added"} => now[p] \notin {"none", "added"}
  OBVIOUS
<1> HIDE DEF now
<1>3. \A j \in Instances : T.inst[j].made \in Keys /\ R.inst[j].made \in Keys
  BY DEF Shape, Runner, Instance
<1>4. KnownTo(T, now)
  BY <1>2, <1>3 DEF KnownTo, Keys
<1> QED
  BY <1>1, <1>4 DEF now

LEMMA ArrivesStep ==
  ASSUME Inv, NEW o \in Orders, OrderReceived(o) \/ OrderSentByHand(o)
  PROVE  Inv'
<1>1. PICK way \in {"sent", "received"}, block \in {"order", "sent"} : Arrives(o, way, block)
  BY DEF OrderReceived, OrderSentByHand
<1> DEFINE O == Offered(runner, block, o)
<1>2. /\ Shape(runner) /\ block \in Blocks /\ runner.owner[o] = None
      /\ orders \in [Orders -> {"none", "added", "sent", "received"}]
  <2>1. orders[o] = "none"
    BY <1>1 DEF Arrives, NewOrder
  <2> QED
    BY <2>1 DEF Inv, TypeOK, KnownTo, Blocks
<1>3. /\ Shape(O) /\ Drives(runner, O)
      /\ \A p \in Orders : p # o => O.owner[p] \in {None, runner.owner[p]}
      /\ \A j \in Instances : O.inst[j].made \in {None, runner.inst[j].made}
      /\ Sound(runner) => Sound(O)
  BY <1>2, OfferedKeeps
<1>4. runner' = O \/ runner' = runner
  BY <1>1 DEF Arrives
<1> HIDE DEF O
<1>5. /\ Shape(runner') /\ Drives(runner, runner') /\ (Sound(runner) => Sound(runner'))
      /\ \A p \in Orders : p # o => runner'.owner[p] \in {None, runner.owner[p]}
      /\ \A j \in Instances : runner'.inst[j].made \in {None, runner.inst[j].made}
  BY <1>2, <1>3, <1>4 DEF Drives
<1>6. orders' = [orders EXCEPT ![o] = way] /\ KnownTo(runner, orders)
  BY <1>1 DEF Arrives, Inv
<1>7. orders' \in [Orders -> {"none", "added", "sent", "received"}] /\ KnownTo(runner', orders')
  <2>1. \A j \in Instances : runner'.inst[j].made \in {None, o, runner.inst[j].made}
    BY <1>5
  <2>2. /\ [orders EXCEPT ![o] = way] \in [Orders -> {"none", "added", "sent", "received"}]
        /\ KnownTo(runner', [orders EXCEPT ![o] = way])
    BY <1>2, <1>5, <1>6, <2>1, NowKnown
  <2> QED
    BY <1>6, <2>2
<1>8. UNCHANGED call /\ RowsOK' /\ acts' \in Nat /\ (calm' => calm) /\ calm' \in BOOLEAN
  BY <1>1 DEF Arrives, Happens, Inv, TypeOK, RowsOK
<1> QED
  BY <1>5, <1>7, <1>8, OrdersKeep

LEMMA OrderEventStep ==
  ASSUME Inv, NEW o \in Orders, NEW wakes \in BOOLEAN, OrderEvent(o, wakes)
  PROVE  Inv'
<1>1. Shape(runner) /\ runner' = Delivered(runner, {runner.owner[o]}, wakes)
  BY DEF OrderEvent, Inv, TypeOK
<1>2. Stirs(runner, runner')
  BY <1>1, DeliveredStirs
<1>3. UNCHANGED << orders, call, calm >> /\ RowsOK' /\ acts' \in Nat
  BY DEF OrderEvent, Happens, Inv, TypeOK, RowsOK
<1> QED
  BY <1>1, <1>2, <1>3, StirsKeeps, StepKeeps

LEMMA SignalStep == ASSUME Inv, NEW i \in Instances, NEW f \in Flows, Signal(i, f) PROVE Inv'
<1> DEFINE r == runner.inst[i].run
           N == AtNext(runner, i, f)
           others == {j \in Of(runner, r) \ {i} : ~IsGenerator(runner.inst[j])}
           H(wakes) == Delivered(N, others, wakes)
           h == [runner.inst[i].flow[f] EXCEPT !.pc = "line"]
<1>1. Shape(runner) /\ r \in Runs /\ runner.inst[i].flow[f].pc \in AtTask
  BY LineFacts DEF Signal, Goes
<1>2. PICK wakes \in BOOLEAN : runner' = H(wakes) \/ runner' = StartedBlock(H(wakes), r, "signal")
  BY Zenon DEF Signal
<1>3. Moved(runner, N, i, f, h)
  BY <1>1, AtNextKeeps
<1> HIDE DEF N, h
<1>4. /\ Shape(N) /\ Fewer(runner, N) /\ Drives(runner, N)
      /\ Sound(runner) => Sound(N)
  BY <1>1, <1>3, MovedKeeps
<1> DEFINE D == H(wakes)
<1>5. Stirs(N, D)
  BY <1>4, DeliveredStirs
<1> HIDE DEF H, D
<1>6. /\ Shape(D) /\ Fewer(N, D) /\ Drives(N, D)
      /\ Sound(N) => Sound(D)
  BY <1>4, <1>5, StirsKeeps
<1>7. Fewer(runner, D) /\ Drives(runner, D)
  BY <1>4, <1>6, ThenDrives
<1> DEFINE B == StartedBlock(D, r, "signal")
<1>8. /\ Shape(B) /\ Drives(D, B) /\ Fewer(D, B)
      /\ Sound(D) => Sound(B)
  BY <1>1, <1>6, StartedBlockKeeps
<1>9. runner' = D \/ runner' = B
  BY <1>2 DEF D
<1> HIDE DEF B
<1>10. Fewer(runner, B) /\ Drives(runner, B)
  BY <1>7, <1>8, ThenDrives
<1>11. /\ Shape(runner') /\ Fewer(runner, runner') /\ Drives(runner, runner')
       /\ Sound(runner) => Sound(runner')
  BY <1>4, <1>6, <1>7, <1>8, <1>9, <1>10
<1>12. UNCHANGED << orders, call, calm >> /\ RowsOK' /\ acts' \in Nat
  BY DEF Signal, Happens, Inv, TypeOK, RowsOK
<1> QED
  BY <1>11, <1>12, StepKeeps

\* A macro that sent has no claim to another order any more.
LEMMA ClaimMet ==
  ASSUME NEW R, Shape(R), NEW i \in Instances
  PROVE  LET T == [R EXCEPT !.claims = @ \ {i}] IN
         /\ Shape(T) /\ T.inst = R.inst /\ T.owner = R.owner /\ T.run = R.run
         /\ Drives(R, T)
         /\ Sound(R) => Sound(T)
<1> DEFINE T == [R EXCEPT !.claims = @ \ {i}]
<1>1. R \in Runner
  BY DEF Shape
<1>2. /\ T \in Runner /\ T.inst = R.inst /\ T.owner = R.owner /\ T.run = R.run /\ T.live = R.live
      /\ T.subscribed = R.subscribed /\ T.claims \subseteq R.claims
  BY <1>1 DEF Runner
<1> HIDE DEF T
<1>3. Shape(T)
  BY <1>2 DEF Shape
<1>4. Drives(R, T)
  BY <1>2 DEF Drives, Driven, Macro
<1>5. ASSUME Sound(R) PROVE Sound(T)
  <2>1. Counts(T)
    BY <1>2, <1>5 DEF Sound, SoundBut, Counts, LiveOnes
  <2> QED
    BY <1>2, <1>3, <1>5, <2>1
       DEF Sound, SoundBut, Owns, LivesArmed, Listens, Armed, Unwound
<1> QED
  BY <1>2, <1>3, <1>4, <1>5 DEF T

LEMMA AnnouncedStep ==
  ASSUME Inv, NEW i \in Instances, NEW o \in Orders, Announced(i, o)
  PROVE  Inv'
<1> DEFINE x == runner.inst[i]
           g == x.flow["main"]
           h == [g EXCEPT !.pc = "sent"]
           y == [x EXCEPT !.flow["main"] = h, !.made = o]
           S == [runner EXCEPT !.inst[i] = y]
           C == [S EXCEPT !.claims = @ \ {i}]
           T == Bind(C, i, o)
<1>1. /\ Shape(runner) /\ runner \in Runner /\ x \in Instance /\ InstOK(x) /\ "main" \in Flows
      /\ g \in Flow /\ g.pc = "send" /\ ~g.doomed
  BY FlowFacts DEF Announced, Inv, TypeOK, Shape, Flows
<1>2. x.run # None /\ x.key = None /\ (Sound(runner) => Alive(x))
  BY <1>1, FlowFacts DEF InstOK
<1>3. h \in Flow /\ h.pc = "sent" /\ h.doomed = g.doomed /\ h.busy = g.busy
  BY <1>1 DEF Flow, Places
<1>4. o # None /\ o \in Keys
  BY MacroRunsAssumption DEF Orders, None, Keys
<1>5. \/ runner' = S
      \/ S.owner[o] = None /\ runner' = T
  <2>1. [runner EXCEPT !.inst[i].flow["main"].pc = "sent", !.inst[i].made = o] = S
    BY <1>1 DEF Runner, Instance
  <2> QED
    BY <2>1, Zenon DEF Announced
<1> HIDE DEF h
<1>6. /\ y \in Instance /\ y.run = x.run /\ y.block = x.block /\ y.key = x.key /\ y.made = o
      /\ y.status = x.status /\ y.flow["main"] = h /\ \A f \in Flows : f # "main" => y.flow[f] = x.flow[f]
  BY <1>1, <1>3, <1>4 DEF Instance
<1> HIDE DEF y
<1>7. InstOK(y)
  <2>1. \A f \in Flows : y.flow[f].busy <=> y.flow[f].pc \notin AtRest
    <3>1. h.busy <=> h.pc \notin AtRest
      BY <1>1, <1>3 DEF InstOK, AtRest
    <3> QED
      BY <1>1, <1>6, <3>1 DEF InstOK
  <2> QED
    BY <1>1, <1>2, <1>3, <1>4, <1>6, <2>1 DEF InstOK
<1>8. Kin(x, y)
  <2>1. FlowsOf(y) = FlowsOf(x)
    BY <1>1, <1>3, <1>6 DEF FlowsOf
  <2> QED
    BY <1>1, <1>3, <1>6, <2>1 DEF Kin, Alive, AtWork, Quiet
<1>9. /\ Shape(S) /\ Akin(runner, S) /\ S.owner = runner.owner /\ S.inst[i] = y
      /\ \A j \in Instances : j # i => S.inst[j] = runner.inst[j]
  BY <1>1, <1>6, <1>7, <1>8, PutKeeps
<1> HIDE DEF S
<1>10. Drives(runner, S) /\ (Sound(runner) => Sound(S))
  BY <1>1, <1>9, AkinKeeps DEF Sound
<1>11. /\ Shape(C) /\ C.inst = S.inst /\ C.owner = S.owner /\ Drives(S, C)
       /\ Sound(S) => Sound(C)
  BY <1>9, ClaimMet
<1> HIDE DEF C
<1>12. C.inst[i].run # None /\ C.inst[i].flow["main"].pc # "send" /\ C.inst[i].key = None
  BY <1>2, <1>3, <1>6, <1>9, <1>11
<1>13. Sound(runner) => Alive(C.inst[i])
  BY <1>2, <1>6, <1>9, <1>11 DEF Alive
<1>14. /\ Shape(T) /\ Drives(C, T)
       /\ \A p \in Orders : p # o => T.owner[p] \in {None, C.owner[p]}
       /\ \A j \in Instances : T.inst[j].made \in {None, C.inst[j].made}
       /\ Sound(C) /\ Alive(C.inst[i]) => Sound(T)
  BY <1>11, <1>12, BindKeeps
<1> HIDE DEF T
<1>15. /\ Shape(runner') /\ Drives(runner, runner') /\ (Sound(runner) => Sound(runner'))
       /\ \A p \in Orders : p # o => runner'.owner[p] \in {None, runner.owner[p]}
       /\ \A j \in Instances : runner'.inst[j].made \in {None, o, runner.inst[j].made}
  <2>1. \A j \in Instances : S.inst[j].made \in {o, runner.inst[j].made}
    BY <1>6, <1>9
  <2>2. CASE runner' = S
    BY <1>9, <1>10, <2>1, <2>2
  <2>3. CASE runner' = T
    <3>1. Drives(runner, T)
      BY <1>10, <1>11, <1>14 DEF Drives
    <3>2. Sound(runner) => Sound(T)
      BY <1>10, <1>11, <1>13, <1>14
    <3>3. \A j \in Instances : T.inst[j].made \in {None, o, runner.inst[j].made}
      BY <1>11, <1>14, <2>1
    <3> QED
      BY <1>9, <1>11, <1>14, <2>3, <3>1, <3>2, <3>3
  <2> QED
    BY <1>5, <2>2, <2>3
<1>16. orders' = [orders EXCEPT ![o] = "sent"] /\ KnownTo(runner, orders)
       /\ orders \in [Orders -> {"none", "added", "sent", "received"}]
  BY DEF Announced, Inv, TypeOK
<1>17. orders' \in [Orders -> {"none", "added", "sent", "received"}] /\ KnownTo(runner', orders')
  <2>1. /\ [orders EXCEPT ![o] = "sent"] \in [Orders -> {"none", "added", "sent", "received"}]
        /\ KnownTo(runner', [orders EXCEPT ![o] = "sent"])
    BY <1>1, <1>15, <1>16, NowKnown
  <2> QED
    BY <1>16, <2>1
<1>18. UNCHANGED call /\ RowsOK' /\ acts' \in Nat /\ (calm' => calm) /\ calm' \in BOOLEAN
  BY DEF Announced, Inv, TypeOK, RowsOK
<1> QED
  <2>1. Shape(runner') /\ Drives(runner, runner') /\ (Sound(runner) => Sound(runner'))
    BY <1>15
  <2>2. orders' \in [Orders -> {"none", "added", "sent", "received"}] /\ KnownTo(runner', orders')
    BY <1>17
  <2> QED
    BY <1>18, <2>1, <2>2, OrdersKeep, Zenon

LEMMA SentStep == ASSUME Inv, NEW i \in Instances, Sent(i) PROVE Inv'
<1> DEFINE x == runner.inst[i]
           h == [x.flow["main"] EXCEPT !.pc = "line"]
           S == AtNext(runner, i, "main")
           T == Bind(S, i, x.made)
<1>1. /\ Shape(runner) /\ x \in Instance /\ InstOK(x) /\ "main" \in Flows
      /\ x.flow["main"].pc = "sent" /\ ~x.flow["main"].doomed /\ Unmoved
      /\ x.flow["main"] \in Flow
  BY FlowFacts DEF Sent, Inv, TypeOK, Flows
<1>2. x.made \in Orders /\ (Sound(runner) => Alive(x))
  <2>1. x.made # None
    BY <1>1 DEF InstOK
  <2> QED
    BY <1>1, <2>1, FlowFacts DEF Instance, Keys
<1>3. x.flow["main"].pc \in AtTask
  BY <1>1 DEF AtTask, Places, AtRest
<1>4. Moved(runner, S, i, "main", h)
  BY <1>1, <1>3, AtNextKeeps
<1>5. h.pc = "line"
  BY <1>1 DEF Flow
<1>6. \/ runner' = S
      \/ x.key = None /\ runner' = T
  BY Zenon DEF Sent
<1> HIDE DEF h, S
<1>7. /\ Shape(S) /\ Fewer(runner, S) /\ Drives(runner, S)
      /\ Sound(runner) => Sound(S)
  BY <1>1, <1>4, MovedKeeps
<1>8. /\ S.inst[i].run # None /\ S.inst[i].flow["main"].pc # "send" /\ S.inst[i].key = x.key
      /\ Alive(x) => Alive(S.inst[i])
  BY <1>4, <1>5 DEF Moved, Alive
<1>9. /\ Shape(T) /\ Drives(S, T)
      /\ \A p \in Orders : p # x.made => T.owner[p] \in {None, S.owner[p]}
      /\ \A j \in Instances : T.inst[j].made \in {None, S.inst[j].made}
      /\ Sound(S) /\ Alive(S.inst[i]) /\ S.inst[i].key = None => Sound(T)
  BY <1>2, <1>7, <1>8, BindKeeps
<1> HIDE DEF T
<1>10. Shape(runner') /\ (Sound(runner) => Sound(runner') /\ Drives(runner, runner'))
  <2>1. Drives(runner, T)
    BY <1>7, <1>9 DEF Drives
  <2> QED
    BY <1>2, <1>6, <1>7, <1>8, <1>9, <2>1
<1>11. /\ \A p \in Orders : p # x.made => runner'.owner[p] \in {None, runner.owner[p]}
       /\ \A j \in Instances : runner'.inst[j].made \in {None, runner.inst[j].made}
  BY <1>6, <1>7, <1>9 DEF Fewer
<1>12. orders' = orders /\ orders' \in [Orders -> {"none", "added", "sent", "received"}]
  BY <1>1 DEF Unmoved, Inv, TypeOK
<1>13. KnownTo(runner', orders')
  <2>1. KnownTo(runner, orders) /\ orders[x.made] \notin {"none", "added"}
    <3>1. x.made # None
      BY <1>2, MacroRunsAssumption DEF Orders, None
    <3> QED
      BY <3>1 DEF Inv, KnownTo
  <2>2. \A j \in Instances : runner.inst[j].made \in Keys
    BY <1>1 DEF Shape, Runner, Instance
  <2> QED
    BY <1>11, <1>12, <2>1, <2>2 DEF KnownTo
<1>14. UNCHANGED call /\ RowsOK' /\ acts' \in Nat /\ (calm' => calm) /\ calm' \in BOOLEAN
  BY <1>1 DEF Unmoved, Inv, TypeOK, RowsOK
<1> QED
  BY <1>10, <1>12, <1>13, <1>14, OrdersKeep

LEMMA AddedStep ==
  ASSUME Inv, NEW i \in Instances, NEW o \in Orders, Added(i, o)
  PROVE  Inv'
<1> DEFINE h == [runner.inst[i].flow["main"] EXCEPT !.pc = "added"]
<1>1. "main" \in Flows /\ Shape(runner) /\ runner.inst[i].flow["main"].pc \in AtTask
  BY DEF Added, Inv, TypeOK, Flows, AtTask, Places, AtRest
<1>2. "added" \in AtTask \ {"sent"}
  BY DEF AtTask, Places, AtRest
<1>3. Moved(runner, runner', i, "main", h)
  BY <1>1, <1>2, TaskPut DEF Added
<1> HIDE DEF h
<1>4. /\ Shape(runner') /\ Fewer(runner, runner') /\ Drives(runner, runner')
      /\ Sound(runner) => Sound(runner')
  BY <1>1, <1>3, MovedKeeps
<1>5. /\ orders \in [Orders -> {"none", "added", "sent", "received"}] /\ KnownTo(runner, orders)
      /\ orders[o] = "none" /\ orders' = [orders EXCEPT ![o] = "added"]
  BY DEF Added, NewOrder, Inv, TypeOK
<1>6. orders' \in [Orders -> {"none", "added", "sent", "received"}]
  BY <1>5
<1>7. KnownTo(runner', orders')
  <2>1. \A p \in Orders : orders[p] \notin {"none", "added"} => orders'[p] \notin {"none", "added"}
    BY <1>5
  <2>2. \A j \in Instances : runner.inst[j].made \in Keys
    BY <1>1 DEF Shape, Runner, Instance
  <2> QED
    BY <1>4, <1>5, <2>1, <2>2 DEF KnownTo, Fewer, Keys
<1>8. UNCHANGED call /\ RowsOK' /\ acts' \in Nat /\ calm' = calm /\ calm' \in BOOLEAN
  BY DEF Added, Inv, TypeOK, RowsOK
<1> QED
  BY <1>4, <1>6, <1>7, <1>8, OrdersKeep

LEMMA StartMemberStep ==
  ASSUME Inv, NEW i \in Instances, NEW o \in Orders, StartMember(i, o)
  PROVE  Inv'
<1> DEFINE x == runner.inst[i]
           r == x.run
           h == [x.flow["main"] EXCEPT !.pc = "line"]
           S == AtNext(runner, i, "main")
           j == NextInstance(S)
           N == New(S, r, "sent", o)
           T == Told(N, j)
<1>1. /\ Shape(runner) /\ "main" \in Flows /\ x.flow["main"].pc \in AtTask
      /\ x.flow["main"].pc = "added"
  BY DEF StartMember, Inv, TypeOK, Flows, AtTask, Places, AtRest
<1>2. r \in Runs
  BY <1>1, FlowFacts
<1>3. /\ orders[o] = "added" /\ orders' = [orders EXCEPT ![o] = "sent"] /\ KnownTo(runner, orders)
      /\ orders \in [Orders -> {"none", "added", "sent", "received"}]
  BY DEF StartMember, Inv, TypeOK
<1>4. runner.owner[o] = None
  BY <1>3 DEF KnownTo
<1>5. \/ runner' = S
      \/ /\ runner.run[r].status = "armed" /\ Unused(runner) # {}
         /\ runner' = T
  <2>1. \/ runner' = S
        \/ runner.run[r].status = "armed" /\ ~Full(runner, r) /\ runner' = T
    BY Zenon DEF StartMember
  <2> QED
    BY <2>1 DEF Full
<1>6. Moved(runner, S, i, "main", h)
  BY <1>1, AtNextKeeps
<1> HIDE DEF h, S
<1>7. /\ Shape(S) /\ Fewer(runner, S) /\ Drives(runner, S)
      /\ Sound(runner) => Sound(S)
  BY <1>1, <1>6, MovedKeeps
<1>8. S.run = runner.run /\ S.owner = runner.owner /\ Unused(S) = Unused(runner)
  BY <1>6 DEF Moved, Unused
<1>9. ASSUME runner.run[r].status = "armed", Unused(runner) # {}, runner' = T
       PROVE  /\ Shape(T) /\ Drives(runner, T) /\ (Sound(runner) => Sound(T))
              /\ \A p \in Orders : p # o => T.owner[p] \in {None, runner.owner[p]}
              /\ \A k \in Instances : T.inst[k].made \in {None, runner.inst[k].made}
  <2>1. "sent" \in Blocks /\ o \in Keys
    BY DEF Blocks, Keys
  <2>2. /\ Shape(N) /\ Drives(S, N)
        /\ \A p \in Orders : N.owner[p] = IF p = o THEN j ELSE S.owner[p]
        /\ N.inst[j].made = None /\ N.inst[j].run = r
        /\ \A k \in Instances : k # j => N.inst[k] = S.inst[k]
        /\ Sound(S) => Sound(N)
    BY <1>2, <1>4, <1>7, <1>8, <1>9, <2>1, NewKeeps
  <2>3. j \in Instances
    BY <1>8, <1>9, NextInstanceFacts
  <2>4. N.inst[j].run # None
    BY <1>2, <2>2 DEF Runs, None
  <2> HIDE DEF N, j
  <2>5. Shape(T) /\ Akin(N, T) /\ Fewer(N, T)
    BY <2>2, <2>3, <2>4, ToldKeeps
  <2> HIDE DEF T
  <2>6. Drives(N, T) /\ (Sound(N) => Sound(T))
    BY <2>2, <2>5, AkinKeeps DEF Sound
  <2>7. Drives(runner, T) /\ (Sound(runner) => Sound(T))
    BY <1>7, <2>2, <2>6 DEF Drives
  <2>8. \A k \in Instances : N.inst[k].made \in {None, runner.inst[k].made}
    BY <1>7, <2>2 DEF Fewer
  <2>9. \A p \in Orders : p # o => T.owner[p] \in {None, runner.owner[p]}
    BY <1>8, <2>2, <2>5 DEF Fewer
  <2>10. \A k \in Instances : T.inst[k].made \in {None, runner.inst[k].made}
    BY <2>5, <2>8 DEF Fewer
  <2> QED
    BY <2>5, <2>7, <2>9, <2>10
<1> HIDE DEF T
<1>11. /\ Shape(runner') /\ Drives(runner, runner') /\ (Sound(runner) => Sound(runner'))
       /\ \A p \in Orders : p # o => runner'.owner[p] \in {None, runner.owner[p]}
       /\ \A k \in Instances : runner'.inst[k].made \in {None, o, runner.inst[k].made}
  <2>1. CASE runner' = S
    BY <1>7, <2>1 DEF Fewer
  <2>2. CASE runner.run[r].status = "armed" /\ Unused(runner) # {} /\ runner' = T
    BY <1>9, <2>2
  <2> QED
    BY <1>5, <2>1, <2>2
<1>12. orders' \in [Orders -> {"none", "added", "sent", "received"}] /\ KnownTo(runner', orders')
  <2>1. /\ [orders EXCEPT ![o] = "sent"] \in [Orders -> {"none", "added", "sent", "received"}]
        /\ KnownTo(runner', [orders EXCEPT ![o] = "sent"])
    BY <1>1, <1>3, <1>11, NowKnown
  <2> QED
    BY <1>3, <2>1
<1>13. UNCHANGED call /\ RowsOK' /\ acts' \in Nat /\ (calm' => calm) /\ calm' \in BOOLEAN
  BY DEF StartMember, Inv, TypeOK, RowsOK
<1> QED
  BY <1>11, <1>12, <1>13, OrdersKeep

LEMMA RefusedStep == ASSUME Inv, NEW i \in Instances, NEW f \in Flows, Refused(i, f) PROVE Inv'
<1> DEFINE x == runner.inst[i]
           h == [x.flow[f] EXCEPT !.pc = "line"]
           N == AtNext(runner, i, f)
<1>1. Shape(runner) /\ x.flow[f].pc \in AtTask /\ x \in Instance /\ x.flow[f] \in Flow
  <2>1. Shape(runner)
    BY DEF Inv, TypeOK
  <2> QED
    BY <2>1, FlowFacts DEF Refused, AtTask, Places, AtRest
<1>2. Moved(runner, N, i, f, h)
  BY <1>1, AtNextKeeps
<1>3. h.pc = "line"
  BY <1>1 DEF Flow
<1>4. \/ /\ calm' = FALSE
         /\ \E j \in Instances : /\ TakesOver(j, i)
                                 /\ runner' = [Finish(N, i, "detached", f) EXCEPT !.inst[j].made = x.key]
      \/ /\ calm' = calm
         /\ \/ runner' = FlowOver(Finish(N, i, "failed", f), i, f)
            \/ \E wakes \in BOOLEAN : runner' = Delivered(N, {i}, wakes)
  BY Zenon DEF Refused
<1> HIDE DEF h, N
<1>5. /\ Shape(N) /\ Fewer(runner, N) /\ Drives(runner, N)
      /\ Sound(runner) => Sound(N)
  BY <1>1, <1>2, MovedKeeps
<1>6. N.inst[i].run # None /\ N.inst[i].flow[f].pc = "line"
  BY <1>2, <1>3 DEF Moved
<1>7. "detached" \in Ends /\ "failed" \in Ends /\ "line" # "sent"
  BY DEF Ends
<1>8. UNCHANGED << orders, call >> /\ RowsOK' /\ acts' \in Nat
  BY DEF Refused, Inv, TypeOK, RowsOK
<1>9. CASE calm' = calm /\ runner' = FlowOver(Finish(N, i, "failed", f), i, f)
  <2>1. /\ Shape(runner') /\ Fewer(N, runner') /\ Drives(N, runner')
        /\ Sound(N) => Sound(runner')
    BY <1>5, <1>6, <1>7, <1>9, FinishesKeeps
  <2>2. Fewer(runner, runner') /\ Drives(runner, runner')
    BY <1>5, <2>1, ThenDrives
  <2> QED
    BY <1>5, <1>8, <1>9, <2>1, <2>2, StepKeeps
<1>10. CASE calm' = calm /\ \E wakes \in BOOLEAN : runner' = Delivered(N, {i}, wakes)
  <2>1. Stirs(N, runner')
    BY <1>5, <1>10, DeliveredStirs
  <2>2. /\ Shape(runner') /\ Fewer(N, runner') /\ Drives(N, runner')
        /\ Sound(N) => Sound(runner')
    BY <1>5, <2>1, StirsKeeps
  <2>3. Fewer(runner, runner') /\ Drives(runner, runner')
    BY <1>5, <2>2, ThenDrives
  <2> QED
    BY <1>5, <1>8, <1>10, <2>2, <2>3, StepKeeps
<1>11. ASSUME calm' = FALSE, NEW j \in Instances, TakesOver(j, i),
              runner' = [Finish(N, i, "detached", f) EXCEPT !.inst[j].made = x.key]
       PROVE  Inv'
  <2> DEFINE D == Finish(N, i, "detached", f)
             y == [D.inst[j] EXCEPT !.made = x.key]
  <2>1. Shape(D) /\ Fewer(N, D)
    BY <1>5, <1>6, <1>7, FinishKeeps
  <2> HIDE DEF D
  <2>2. D \in Runner /\ D.inst[j] \in Instance /\ InstOK(D.inst[j])
    BY <2>1 DEF Shape, Runner
  <2>3. x.key # None /\ x.key \in Keys /\ orders[x.key] \notin {"none", "added"}
    BY <1>1, <1>11 DEF TakesOver, Instance
  <2>4. runner' = [D EXCEPT !.inst[j] = y]
    BY <1>11, <2>2 DEF D, Runner
  <2>5. /\ y \in Instance /\ y.run = D.inst[j].run /\ y.block = D.inst[j].block /\ y.key = D.inst[j].key
        /\ y.made = x.key /\ y.status = D.inst[j].status /\ y.flow = D.inst[j].flow
    BY <2>2, <2>3 DEF Instance
  <2> HIDE DEF y
  <2>6. InstOK(y) /\ Kin(D.inst[j], y)
    BY <2>2, <2>3, <2>5 DEF InstOK, Kin, Alive, AtWork, FlowsOf
  <2>7. /\ Shape(runner') /\ runner'.owner = D.owner /\ runner'.inst[j] = y
        /\ \A k \in Instances : k # j => runner'.inst[k] = D.inst[k]
    BY <2>1, <2>4, <2>5, <2>6, PutKeeps
  <2>8. KnownTo(runner', orders)
    <3>1. KnownTo(runner, orders) /\ \A k \in Instances : runner.inst[k].made \in Keys
      BY <1>1 DEF Inv, Shape, Runner, Instance
    <3>2. \A k \in Instances : D.inst[k].made \in {None, runner.inst[k].made}
      BY <1>5, <2>1 DEF Fewer
    <3>3. \A p \in Orders : runner'.owner[p] \in {None, runner.owner[p]}
      BY <1>5, <2>1, <2>7 DEF Fewer
    <3> QED
      BY <2>3, <2>5, <2>7, <3>1, <3>2, <3>3 DEF KnownTo
  <2>9. orders' \in [Orders -> {"none", "added", "sent", "received"}] /\ KnownTo(runner', orders')
    BY <1>8, <2>8 DEF Inv, TypeOK
  <2> QED
    BY <1>8, <1>11, <2>7, <2>9, OrdersKeep
<1> QED
  BY <1>4, <1>9, <1>10, <1>11

(* The commands, and what writes the rows.                                  *)

LEMMA WrittenRows ==
  ASSUME Inv, NEW r \in Runs, NEW status \in RowStatuses
  PROVE  WrittenRun(r, status) \in Seq(RowStatuses)
<1>1. runRows \in Seq(RowStatuses)
  BY DEF Inv, TypeOK, RowsOK
<1>2. ASSUME NEW n PROVE [runRows EXCEPT ![n] = status] \in Seq(RowStatuses)
  <2>1. runRows \in [1 .. Len(runRows) -> RowStatuses] /\ Len(runRows) \in Nat
    BY <1>1
  <2>2. [runRows EXCEPT ![n] = status] \in [1 .. Len(runRows) -> RowStatuses]
    BY <2>1
  <2> QED
    BY <2>1, <2>2, SeqDef
<1> QED
  BY <1>1, <1>2 DEF WrittenRun

\* A run changed in what neither its status nor its macro is.
LEMMA RunPut ==
  ASSUME NEW R, Shape(R), NEW r \in Runs, NEW y \in Run,
         y.status = R.run[r].status, y.macro = R.run[r].macro
  PROVE  LET T == [R EXCEPT !.run[r] = y] IN
         /\ Shape(T) /\ Fewer(R, T) /\ Drives(R, T)
         /\ Sound(R) => Sound(T)
<1> DEFINE T == [R EXCEPT !.run[r] = y]
<1>1. /\ Shape(T)
      /\ T.inst = R.inst /\ T.owner = R.owner /\ T.claims = R.claims
      /\ T.live = R.live /\ T.subscribed = R.subscribed
      /\ T.run[r] = y /\ \A s \in Runs : s # r => T.run[s] = R.run[s]
  BY PutRun
<1> HIDE DEF T
<1>2. Akin(R, T) /\ Fewer(R, T)
  BY <1>1 DEF Akin, Kin, Fewer
<1>3. Drives(R, T) /\ (Sound(R) => Sound(T))
  BY <1>1, <1>2, AkinKeeps DEF Sound
<1> QED
  BY <1>1, <1>2, <1>3 DEF T

\* A step of a command that leaves the orders alone; what it has begun, and
\* does not drive, another step of the command is to start.
LEMMA CommandKeeps ==
  ASSUME Inv, Shape(runner'), Fewer(runner, runner'), UNCHANGED orders, CallsOK', RowsOK',
         acts' \in Nat, calm' \in BOOLEAN, calm' => calm,
         Sound(runner) => Sound(runner'),
         Sound(runner) => \A s \in Runs : Driven(runner, s) \/ s \in Begun => Driven(runner', s) \/ s \in Begun'
  PROVE  Inv'
<1>1. TypeOK'
  BY DEF Inv, TypeOK
<1>2. KnownTo(runner', orders')
  <2>1. \A i \in Instances : runner.inst[i].made \in Keys
    BY DEF Inv, TypeOK, Shape, Runner, Instance
  <2> QED
    BY <2>1 DEF Inv, KnownTo, Fewer
<1>3. calm' => Sound(runner') /\ AllDriven(runner', Begun')
  BY DEF Inv, AllDriven
<1> QED
  BY <1>1, <1>2, <1>3 DEF Inv

\* A command goes on to op.
LEMMA CallPut ==
  ASSUME Inv, NEW c \in Callers, NEW op \in CallOps, NEW r \in Runs \union {None},
         op # "idle" => r # None, call' = [call EXCEPT ![c] = [op |-> op, run |-> r]]
  PROVE  /\ CallsOK'
         /\ \A s \in Begun : \/ s \in Begun'
                             \/ s = call[c].run /\ call[c].op \in {"insert", "name", "start"}
         /\ op \in {"insert", "name", "start"} => r \in Begun'
<1> DEFINE y == [op |-> op, run |-> r]
<1>1. /\ call \in [Callers -> [op : CallOps, run : Runs \union {None}]]
      /\ \A d \in Callers : call[d].op # "idle" => call[d].run # None
  BY DEF Inv, TypeOK, CallsOK
<1>2. y \in [op : CallOps, run : Runs \union {None}] /\ y.op = op /\ y.run = r
  OBVIOUS
<1>3. call'[c] = y /\ \A d \in Callers : d # c => call'[d] = call[d]
  BY <1>1
<1>4. call' \in [Callers -> [op : CallOps, run : Runs \union {None}]]
  BY <1>1, <1>2
<1> HIDE DEF y
<1>5. CallsOK'
  BY <1>1, <1>2, <1>3, <1>4 DEF CallsOK
<1>6. ASSUME NEW s \in Begun
      PROVE  s \in Begun' \/ (s = call[c].run /\ call[c].op \in {"insert", "name", "start"})
  BY <1>3, <1>6 DEF Begun, Starting
<1>7. ASSUME op \in {"insert", "name", "start"} PROVE r \in Begun'
  <2>1. r \in Runs
    BY <1>7
  <2> QED
    BY <1>2, <1>3, <1>7, <2>1 DEF Begun, Starting
<1> QED
  BY <1>5, <1>6, <1>7

LEMMA CallFacts ==
  ASSUME Inv, NEW c \in Callers
  PROVE  /\ call[c].op # "idle" => call[c].run \in Runs
         /\ call[c].run \in Runs \union {None}
         /\ \A op : [call EXCEPT ![c].op = op] = [call EXCEPT ![c] = [op |-> op, run |-> call[c].run]]
         /\ Idle = [op |-> "idle", run |-> None]
<1>1. /\ call \in [Callers -> [op : CallOps, run : Runs \union {None}]]
      /\ call[c].op # "idle" => call[c].run # None
  BY DEF Inv, TypeOK, CallsOK
<1>2. call[c] \in [op : CallOps, run : Runs \union {None}]
  BY <1>1
<1>3. \A op : [call[c] EXCEPT !.op = op] = [op |-> op, run |-> call[c].run]
  BY <1>2
<1>4. \A op : [call EXCEPT ![c].op = op] = [call EXCEPT ![c] = [call[c] EXCEPT !.op = op]]
  BY <1>1
<1> QED
  BY <1>1, <1>2, <1>3, <1>4 DEF Idle

LEMMA ArmStep == ASSUME Inv, NEW c \in Callers, NEW m \in Macros, Arm(c, m) PROVE Inv'
<1>1. PICK r \in Runs :
         /\ Gives(c, "insert", r)
         /\ runner.run[r].status = "none"
         /\ runner' = [runner EXCEPT !.run[r] = [NoRun EXCEPT !.macro = m, !.status = "armed"],
                                     !.subscribed = TRUE]
         /\ UNCHANGED << orders, runRows, macroRows, calm >>
  BY Zenon DEF Arm
<1> DEFINE y == [NoRun EXCEPT !.macro = m, !.status = "armed"]
           S == [runner EXCEPT !.run[r] = y]
<1>2. y \in Run /\ y.status = "armed"
  BY DEF NoRun, Run, RunStatuses, None
<1>3. runner \in Runner /\ Shape(runner)
  BY DEF Inv, TypeOK, Shape
<1>4. runner' = [S EXCEPT !.subscribed = TRUE]
  BY <1>1, <1>3 DEF Runner
<1> HIDE DEF y
<1>5. /\ Shape(S)
      /\ S.inst = runner.inst /\ S.owner = runner.owner /\ S.claims = runner.claims
      /\ S.live = runner.live
      /\ S.run[r] = y /\ \A s \in Runs : s # r => S.run[s] = runner.run[s]
  BY <1>2, <1>3, PutRun
<1> HIDE DEF S
<1>6. /\ runner' \in Runner /\ runner'.inst = runner.inst /\ runner'.owner = runner.owner
      /\ runner'.claims = runner.claims /\ runner'.live = runner.live /\ runner'.subscribed = TRUE
      /\ runner'.run[r] = y /\ \A s \in Runs : s # r => runner'.run[s] = runner.run[s]
  BY <1>4, <1>5 DEF Shape, Runner
<1>7. Shape(runner') /\ Fewer(runner, runner')
  BY <1>3, <1>6 DEF Shape, Fewer
<1>8. ASSUME Sound(runner) PROVE Sound(runner')
  <2>1. r \in Armed(runner')
    BY <1>2, <1>6 DEF Armed
  <2>2. LivesArmed(runner')
    <3> SUFFICES ASSUME NEW i \in Instances, Alive(runner.inst[i])
                 PROVE  runner'.run[runner.inst[i].run].status = "armed"
      BY <1>6 DEF LivesArmed
    <3>1. runner.run[runner.inst[i].run].status = "armed"
      BY <1>8 DEF Sound, SoundBut, LivesArmed
    <3>2. runner.inst[i].run \in Runs
      BY <1>3 DEF Shape, InstOK, Runner, Instance, Alive
    <3> QED
      BY <1>1, <1>6, <3>1, <3>2
  <2> QED
    BY <1>6, <1>7, <1>8, <2>1, <2>2 DEF Sound, SoundBut, Counts, LiveOnes, Owns, Listens, Unwound
<1>9. /\ CallsOK' /\ \A s \in Begun : s \in Begun'
      /\ r \in Begun'
  <2>1. call[c].op = "idle" /\ call' = [call EXCEPT ![c] = [op |-> "insert", run |-> r]]
    BY <1>1 DEF Gives
  <2>2. r # None /\ "insert" \in CallOps
    BY DEF Runs, None, CallOps
  <2> QED
    BY <2>1, <2>2, CallPut
<1>10. \A s \in Runs : s # r => (Driven(runner, s) => Driven(runner', s))
  BY <1>6 DEF Driven, Macro
<1>11. UNCHANGED orders /\ RowsOK' /\ acts' \in Nat /\ calm' \in BOOLEAN /\ calm' = calm
  BY <1>1 DEF Gives, Happens, Inv, TypeOK, RowsOK
<1> QED
  BY <1>7, <1>8, <1>9, <1>10, <1>11, CommandKeeps

LEMMA InsertRunStep == ASSUME Inv, NEW c \in Callers, InsertRun(c) PROVE Inv'
<1>1. /\ call[c].op = "insert" /\ call[c].run \in Runs
      /\ call' = [call EXCEPT ![c] = [op |-> "name", run |-> call[c].run]]
  BY CallFacts DEF InsertRun
<1>2. CallsOK' /\ \A s \in Begun : s \in Begun'
  <2>1. call[c].run # None /\ "name" \in CallOps
    BY <1>1 DEF Runs, None, CallOps
  <2> QED
    BY <1>1, <2>1, CallPut
<1>3. RowsOK'
  <2>1. runRows \in Seq(RowStatuses) /\ "armed" \in RowStatuses
    BY DEF Inv, TypeOK, RowsOK, RowStatuses, RunStatuses
  <2> QED
    BY <2>1, AppendProperties DEF InsertRun, Inv, TypeOK, RowsOK
<1>4. runner' = runner /\ orders' = orders /\ acts' = acts /\ calm' = calm
  BY DEF InsertRun
<1>5. Shape(runner') /\ Fewer(runner, runner') /\ acts' \in Nat /\ calm' \in BOOLEAN
  BY <1>4 DEF Inv, TypeOK, Fewer
<1> QED
  BY <1>2, <1>3, <1>4, <1>5, CommandKeeps

LEMMA InsertFailsStep == ASSUME Inv, NEW c \in Callers, InsertFails(c) PROVE Inv'
<1> DEFINE r == call[c].run
<1>1. /\ call[c].op = "insert" /\ r \in Runs
      /\ call' = [call EXCEPT ![c] = [op |-> "idle", run |-> None]]
  BY CallFacts DEF InsertFails
<1>2. CallsOK' /\ \A s \in Begun : s \in Begun' \/ s = r
  <2>1. None \in Runs \union {None} /\ "idle" \in CallOps
    BY DEF CallOps
  <2> QED
    BY <1>1, <2>1, CallPut
<1>3. /\ Shape(runner') /\ Fewer(runner, runner') /\ Drives(runner, runner') /\ Driven(runner', r)
      /\ Sound(runner) => Sound(runner')
  BY <1>1, StoppedRunKeeps DEF InsertFails, Inv, TypeOK
<1>4. UNCHANGED orders /\ RowsOK' /\ acts' \in Nat /\ calm' \in BOOLEAN /\ calm' = calm
  BY DEF InsertFails, Inv, TypeOK, RowsOK
<1> QED
  BY <1>2, <1>3, <1>4, CommandKeeps DEF Drives

LEMMA NameRunStep == ASSUME Inv, NEW c \in Callers, NameRun(c) PROVE Inv'
<1> DEFINE r == call[c].run
           y == [runner.run[r] EXCEPT !.row = Len(runRows)]
<1>1. /\ call[c].op = "name" /\ r \in Runs
      /\ call' = [call EXCEPT ![c] = [op |-> "start", run |-> r]]
  BY CallFacts DEF NameRun
<1>2. CallsOK' /\ \A s \in Begun : s \in Begun'
  <2>1. r # None /\ "start" \in CallOps
    BY <1>1 DEF Runs, None, CallOps
  <2> QED
    BY <1>1, <2>1, CallPut
<1>3. Shape(runner) /\ runner \in Runner /\ runner.run[r] \in Run /\ Len(runRows) \in Nat
  <2>1. Len(runRows) \in Nat
    BY DEF Inv, TypeOK, RowsOK
  <2> QED
    BY <1>1, <2>1 DEF Inv, TypeOK, Shape, Runner
<1>4. y \in Run /\ y.status = runner.run[r].status /\ y.macro = runner.run[r].macro
  BY <1>3 DEF Run
<1>5. runner' = [runner EXCEPT !.run[r] = y]
  BY <1>3 DEF NameRun, Runner
<1> HIDE DEF y
<1>6. /\ Shape(runner') /\ Fewer(runner, runner') /\ Drives(runner, runner')
      /\ Sound(runner) => Sound(runner')
  BY <1>1, <1>3, <1>4, <1>5, RunPut
<1>7. UNCHANGED orders /\ RowsOK' /\ acts' \in Nat /\ calm' \in BOOLEAN /\ (calm' => calm)
  BY DEF NameRun, Inv, TypeOK, RowsOK
<1> QED
  BY <1>2, <1>6, <1>7, CommandKeeps DEF Drives

LEMMA StartRunStep == ASSUME Inv, NEW c \in Callers, StartRun(c) PROVE Inv'
<1> DEFINE r == call[c].run
           B == StartedBlock(runner, r, "run")
<1>1. /\ call[c].op = "start" /\ r \in Runs
      /\ call' = [call EXCEPT ![c] = [op |-> "idle", run |-> None]]
  BY CallFacts DEF StartRun
<1>2. CallsOK' /\ \A s \in Begun : s \in Begun' \/ s = r
  <2>1. None \in Runs \union {None} /\ "idle" \in CallOps
    BY DEF CallOps
  <2> QED
    BY <1>1, <2>1, CallPut
<1>3. PICK S : S \in {B, runner} /\ runner' = MaybeFinished(S, r)
  BY Zenon DEF StartRun
<1>4. /\ Shape(S) /\ Drives(runner, S) /\ Fewer(runner, S)
      /\ Sound(runner) => Sound(S)
  <2>1. /\ Shape(B) /\ Drives(runner, B) /\ Fewer(runner, B)
        /\ Sound(runner) => Sound(B)
    BY <1>1, StartedBlockKeeps DEF Inv, TypeOK
  <2>2. Shape(runner) /\ Drives(runner, runner) /\ Fewer(runner, runner)
    BY DEF Inv, TypeOK, Drives, Fewer
  <2> HIDE DEF B
  <2> QED
    BY <1>3, <2>1, <2>2
<1>5. /\ Shape(runner') /\ Fewer(S, runner')
      /\ Sound(S) => Sound(runner')
      /\ \A s \in Runs : s = r \/ Driven(S, s) => Driven(runner', s)
  BY <1>1, <1>3, <1>4, MaybeFinishedKeeps DEF Sound
<1>6. Fewer(runner, runner')
  BY <1>4, <1>5, ThenDrives
<1>7. \A s \in Runs : s = r \/ Driven(runner, s) => Driven(runner', s)
  BY <1>4, <1>5 DEF Drives
<1>8. UNCHANGED orders /\ RowsOK' /\ acts' \in Nat /\ calm' \in BOOLEAN /\ calm' = calm
  BY DEF StartRun, Inv, TypeOK, RowsOK
<1> QED
  BY <1>2, <1>4, <1>5, <1>6, <1>7, <1>8, CommandKeeps

LEMMA StopRunStep == ASSUME Inv, NEW c \in Callers, NEW r \in Runs, StopRun(c, r) PROVE Inv'
<1> DEFINE S == StoppedRun(runner, r)
<1>1. /\ Shape(S) /\ Fewer(runner, S) /\ Drives(runner, S)
      /\ Sound(runner) => Sound(S)
  BY StoppedRunKeeps DEF Inv, TypeOK
<1>2. runner' = S \/ runner' = runner
  BY DEF StopRun
<1> HIDE DEF S
<1>3. /\ Shape(runner') /\ Fewer(runner, runner') /\ Drives(runner, runner')
      /\ Sound(runner) => Sound(runner')
  BY <1>1, <1>2 DEF Inv, TypeOK, Fewer, Drives
<1>4. CallsOK' /\ \A s \in Begun : s \in Begun'
  <2>1. call[c].op = "idle" /\ call' = [call EXCEPT ![c] = [op |-> "settle", run |-> r]]
    BY DEF StopRun, Gives
  <2>2. r # None /\ "settle" \in CallOps
    BY DEF Runs, None, CallOps
  <2> QED
    BY <2>1, <2>2, CallPut
<1>5. UNCHANGED orders /\ RowsOK' /\ acts' \in Nat /\ calm' \in BOOLEAN /\ calm' = calm
  BY DEF StopRun, Gives, Happens, Inv, TypeOK, RowsOK
<1> QED
  BY <1>3, <1>4, <1>5, CommandKeeps DEF Drives

LEMMA SettleStep == ASSUME Inv, NEW c \in Callers, Settle(c) PROVE Inv'
<1>1. /\ call[c].op = "settle" /\ call[c].run \in Runs
      /\ call' = [call EXCEPT ![c] = [op |-> "join", run |-> call[c].run]]
  BY CallFacts DEF Settle
<1>2. CallsOK' /\ \A s \in Begun : s \in Begun'
  <2>1. call[c].run # None /\ "join" \in CallOps
    BY <1>1 DEF Runs, None, CallOps
  <2> QED
    BY <1>1, <2>1, CallPut
<1>3. runner' = runner /\ UNCHANGED << orders, runRows, macroRows, acts, calm >>
  BY DEF Settle
<1>4. Shape(runner') /\ Fewer(runner, runner') /\ RowsOK' /\ acts' \in Nat /\ calm' \in BOOLEAN
  BY <1>3 DEF Inv, TypeOK, Fewer, RowsOK
<1> QED
  BY <1>2, <1>3, <1>4, CommandKeeps

LEMMA JoinedStep == ASSUME Inv, NEW c \in Callers, Joined(c) PROVE Inv'
<1> DEFINE r == call[c].run
<1>1. /\ call[c].op = "join" /\ r \in Runs
      /\ call' = [call EXCEPT ![c] = [op |-> "idle", run |-> None]]
  BY CallFacts DEF Joined
<1>2. CallsOK' /\ \A s \in Begun : s \in Begun'
  <2>1. None \in Runs \union {None} /\ "idle" \in CallOps
    BY DEF CallOps
  <2> QED
    BY <1>1, <2>1, CallPut
<1>3. runner' = runner /\ UNCHANGED << orders, macroRows, acts, calm >>
      /\ runRows' = WrittenRun(r, runner.run[r].status)
  BY DEF Joined
<1>4. RowsOK'
  <2>1. runner.run[r].status \in RowStatuses
    BY <1>1 DEF Inv, TypeOK, Shape, Runner, Run, RowStatuses
  <2> QED
    BY <1>1, <1>3, <2>1, WrittenRows DEF Inv, TypeOK, RowsOK
<1>5. Shape(runner') /\ Fewer(runner, runner') /\ acts' \in Nat /\ calm' \in BOOLEAN
  BY <1>3 DEF Inv, TypeOK, Fewer
<1> QED
  BY <1>2, <1>3, <1>4, <1>5, CommandKeeps

LEMMA PauseRunStep == ASSUME Inv, NEW r \in Runs, PauseRun(r) PROVE Inv'
<1> DEFINE y == [runner.run[r] EXCEPT !.paused = TRUE]
<1>1. Shape(runner) /\ runner \in Runner /\ runner.run[r] \in Run
  BY DEF Inv, TypeOK, Shape, Runner
<1>2. y \in Run /\ y.status = runner.run[r].status /\ y.macro = runner.run[r].macro
  BY <1>1 DEF Run
<1>3. runner' = [runner EXCEPT !.run[r] = y]
  BY <1>1 DEF PauseRun, Runner
<1> HIDE DEF y
<1>4. /\ Shape(runner') /\ Fewer(runner, runner') /\ Drives(runner, runner')
      /\ Sound(runner) => Sound(runner')
  BY <1>1, <1>2, <1>3, RunPut
<1>5. RowsOK'
  <2>1. "paused" \in RowStatuses
    BY DEF RowStatuses
  <2> QED
    BY <2>1, WrittenRows DEF PauseRun, Inv, TypeOK, RowsOK
<1>6. UNCHANGED << orders, call, calm >> /\ acts' \in Nat
  BY DEF PauseRun, Happens, Inv, TypeOK
<1> QED
  BY <1>4, <1>5, <1>6, StepKeeps

LEMMA ResumeRunStep == ASSUME Inv, NEW r \in Runs, ResumeRun(r) PROVE Inv'
<1> DEFINE y == [runner.run[r] EXCEPT !.paused = FALSE]
           S == [runner EXCEPT !.run[r] = y]
<1>1. Shape(runner) /\ runner \in Runner /\ runner.run[r] \in Run
  BY DEF Inv, TypeOK, Shape, Runner
<1>2. y \in Run /\ y.status = runner.run[r].status /\ y.macro = runner.run[r].macro
  BY <1>1 DEF Run
<1>3. [runner EXCEPT !.run[r].paused = FALSE] = S
  BY <1>1 DEF Runner
<1>4. runner' = Opened(S, r)
  BY <1>3 DEF ResumeRun
<1> HIDE DEF y
<1>5. /\ Shape(S) /\ Fewer(runner, S) /\ Drives(runner, S)
      /\ Sound(runner) => Sound(S)
  BY <1>1, <1>2, RunPut
<1> HIDE DEF S
<1>6. Stirs(S, runner')
  BY <1>4, <1>5, OpenedStirs
<1>7. /\ Shape(runner') /\ Fewer(S, runner') /\ Drives(S, runner')
      /\ Sound(S) => Sound(runner')
  BY <1>5, <1>6, StirsKeeps
<1>8. Fewer(runner, runner') /\ Drives(runner, runner')
  BY <1>5, <1>7, ThenDrives
<1>9. RowsOK'
  <2>1. "armed" \in RowStatuses
    BY DEF RowStatuses, RunStatuses
  <2> QED
    BY <2>1, WrittenRows DEF ResumeRun, Inv, TypeOK, RowsOK
<1>10. UNCHANGED << orders, call, calm >> /\ acts' \in Nat
  BY DEF ResumeRun, Inv, TypeOK
<1> QED
  BY <1>5, <1>7, <1>8, <1>9, <1>10, StepKeeps

LEMMA DetachStep == ASSUME Inv, NEW o \in Orders, Detach(o) PROVE Inv'
<1> DEFINE i == runner.owner[o]
<1>1. /\ Shape(runner) /\ i # None /\ i \in Instances
      /\ runner' = Finish(runner, i, "detached", "none")
  BY DEF Detach, Inv, TypeOK, Shape, Runner
<1>2. runner.inst[i].run # None /\ "detached" \in Ends /\ "none" # "main"
  BY <1>1 DEF Shape, Ends
<1> HIDE DEF i
<1>3. /\ Shape(runner') /\ Fewer(runner, runner') /\ Drives(runner, runner')
      /\ Sound(runner) => Sound(runner')
  BY <1>1, <1>2, FinishKeeps
<1>4. UNCHANGED << orders, call, calm >> /\ RowsOK' /\ acts' \in Nat
  BY DEF Detach, Happens, Inv, TypeOK, RowsOK
<1> QED
  BY <1>3, <1>4, StepKeeps

LEMMA DrainStep == ASSUME Inv, Drain PROVE Inv'
<1> DEFINE op == Head(runner.queue)
           row == runner.run[op.run].row
<1>1. Shape(runner) /\ runner \in Runner /\ op \in Op /\ Tail(runner.queue) \in Seq(Op)
  BY HeadTailProperties DEF Drain, Inv, TypeOK, Shape, Runner
<1>2. op.run \in Runs /\ (op.op = "macro" => op.key \in RowKeys /\ op.status \in Statuses)
  BY <1>1 DEF Op
<1>3. runner' = [runner EXCEPT !.queue = Tail(@)]
  BY Zenon DEF Drain
<1>4. /\ runner' \in Runner /\ runner'.run = runner.run /\ runner'.inst = runner.inst
      /\ runner'.owner = runner.owner /\ runner'.claims = runner.claims
      /\ runner'.live = runner.live /\ runner'.subscribed = runner.subscribed
  BY <1>1, <1>3 DEF Runner
<1>5. Shape(runner') /\ Akin(runner, runner') /\ Fewer(runner, runner')
  BY <1>1, <1>4 DEF Shape, Akin, Kin, Fewer
<1>6. Drives(runner, runner') /\ (Sound(runner) => Sound(runner'))
  BY <1>1, <1>5, AkinKeeps DEF Sound
<1>7. runRows' \in Seq(RowStatuses)
  <2>1. Shown(op.run) \in RowStatuses
    BY <1>1, <1>2 DEF Shown, Runner, Run, RowStatuses
  <2> HIDE DEF op
  <2>2. runRows' = WrittenRun(op.run, Shown(op.run))
    BY Zenon DEF Drain, op
  <2> QED
    BY <1>2, <2>1, <2>2, WrittenRows
<1>8. macroRows' \in [Runs -> [RowKeys -> Statuses \union {"interrupted"}]]
  <2>1. macroRows \in [Runs -> [RowKeys -> Statuses \union {"interrupted"}]]
    BY DEF Inv, TypeOK, RowsOK
  <2>2. CASE op.op = "macro"
    <3>1. macroRows' = [macroRows EXCEPT ![row][op.key] = op.status]
      BY <2>2, Zenon DEF Drain
    <3> HIDE DEF op, row
    <3> QED
      BY <1>2, <2>1, <2>2, <3>1, Zenon
  <2>3. CASE op.op # "macro"
    BY <2>1, <2>3 DEF Drain
  <2> QED
    BY <2>2, <2>3
<1>9. UNCHANGED << orders, call, calm >> /\ acts' \in Nat
  BY Zenon DEF Drain, Inv, TypeOK
<1> QED
  BY <1>5, <1>6, <1>7, <1>8, <1>9, StepKeeps DEF RowsOK

\* A runner with nothing armed and no macro that ever ran.
LEMMA Resting ==
  ASSUME NEW R, R \in Runner, \A i \in Instances : InstOK(R.inst[i]) /\ R.inst[i].run = None,
         \A r \in Runs : R.run[r].status # "armed", \A o \in Orders : R.owner[o] = None,
         R.claims = {}, R.live = 0, R.subscribed = FALSE
  PROVE  Shape(R) /\ Sound(R) /\ \A r \in Runs : Driven(R, r)
<1>1. \A i \in Instances : ~Alive(R.inst[i]) /\ \A f \in Flows : R.inst[i].flow[f].pc = "off"
  BY DEF InstOK, Alive, NoFlow
<1>2. Shape(R)
  BY DEF Shape
<1>3. Counts(R)
  <2>1. LiveOnes(R) = {}
    BY <1>1 DEF LiveOnes
  <2> QED
    BY <2>1, FS_EmptySet DEF Counts
<1>4. Owns(R) /\ LivesArmed(R) /\ Listens(R) /\ Unwound(R, None, "none")
  BY <1>1 DEF Owns, LivesArmed, Listens, Armed, Unwound, Quiet
<1>5. \A r \in Runs : Driven(R, r)
  BY DEF Driven
<1> QED
  BY <1>2, <1>3, <1>4, <1>5 DEF Sound, SoundBut

LEMMA BlankInstance ==
  ASSUME NEW x, x \in {NoInstance, [NoInstance EXCEPT !.status = "gone"]}
  PROVE  x \in Instance /\ InstOK(x) /\ x.run = None /\ x.made = None
<1>1. NoFlow \in Flow /\ NoFlow.pc = "off" /\ NoFlow.busy = FALSE
  BY DEF NoFlow, Flow, Places
<1>2. /\ NoInstance \in Instance /\ NoInstance.run = None /\ NoInstance.made = None
      /\ NoInstance.status = "none" /\ NoInstance.flow = [f \in Flows |-> NoFlow]
  <2>1. [f \in Flows |-> NoFlow] \in [Flows -> Flow]
    BY <1>1
  <2> QED
    BY <2>1 DEF NoInstance, Instance, Blocks, Keys, Statuses
<1>3. /\ x \in Instance /\ x.run = None /\ x.made = None /\ x.status \in {"none", "gone"}
      /\ x.flow = [f \in Flows |-> NoFlow]
  BY <1>2 DEF Instance, Statuses
<1>4. "main" \in Flows /\ \A f \in Flows : x.flow[f] = NoFlow
  BY <1>3 DEF Flows
<1>5. InstOK(x)
  BY <1>1, <1>3, <1>4 DEF InstOK, AtRest
<1> QED
  BY <1>3, <1>5

LEMMA BlankRun ==
  ASSUME NEW y, y \in {NoRun, [NoRun EXCEPT !.status = "gone"]}
  PROVE  y \in Run /\ y.status \in {"none", "gone"}
<1>1. NoRun \in Run /\ NoRun.status = "none"
  BY DEF NoRun, Run, RunStatuses, None
<1> QED
  BY <1>1 DEF Run, RunStatuses

\* The rows after a restart: those of before, or what the worker still wrote,
\* and none of them live.
LEMMA RestartWrites ==
  ASSUME Inv, Restart
  PROVE  /\ RowsOK' /\ DOMAIN runRows' = DOMAIN runRows
         /\ \A n \in DOMAIN runRows' : runRows'[n] \notin {"armed", "paused"}
         /\ \A r \in Runs, k \in RowKeys : macroRows'[r][k] \notin Lives
<1> DEFINE It(s, live) == IF s \in live THEN "interrupted" ELSE s
           RowOf(k) == runner.run[runner.queue[k].run].row
           Of2(n, r, key) ==
             {k \in 1 .. n : RowOf(k) = r /\ runner.queue[k].op = "macro" /\ runner.queue[k].key = key}
           Last(ks) == CHOOSE k \in ks : \A j \in ks : j <= k
           Row(n, p) == IF \E k \in 1 .. n : RowOf(k) = p THEN "stopped"
                        ELSE It(runRows[p], {"armed", "paused"})
           Says1(n, r, key) == IF Of2(n, r, key) = {} THEN macroRows[r][key]
                               ELSE runner.queue[Last(Of2(n, r, key))].status
           Cell(n, r, key) == It(Says1(n, r, key), {"running", "listening"})
<1>1. /\ runRows \in Seq(RowStatuses)
      /\ macroRows \in [Runs -> [RowKeys -> Statuses \union {"interrupted"}]]
      /\ runner.queue \in Seq(Op)
  BY DEF Inv, TypeOK, RowsOK, Shape, Runner
<1>2. PICK n \in 0 .. Len(runner.queue) :
         /\ runRows' = [p \in DOMAIN runRows |-> Row(n, p)]
         /\ macroRows' = [r \in Runs |-> [key \in DOMAIN macroRows[r] |-> Cell(n, r, key)]]
  BY Zenon DEF Restart
<1>3. DOMAIN runRows = 1 .. Len(runRows) /\ Len(runRows) \in Nat /\ Len(runner.queue) \in Nat
  BY <1>1, LenProperties
<1>31. \A s, live : s \notin live => It(s, live) = s
  OBVIOUS
<1>32. \A s, live : s \in live => It(s, live) = "interrupted"
  OBVIOUS
<1>33. \A m, r, key : Of2(m, r, key) \subseteq 1 .. m
  OBVIOUS
<1>34. \A m, r, key : \A k \in Of2(m, r, key) : runner.queue[k].op = "macro"
  OBVIOUS
<1> HIDE DEF RowOf, Of2, It
<1>4. \A p \in 1 .. Len(runRows) : Row(n, p) \in RowStatuses /\ Row(n, p) \notin {"armed", "paused"}
  <2> TAKE p \in 1 .. Len(runRows)
  <2>1. runRows[p] \in RowStatuses
    BY <1>1, ElementOfSeq
  <2>2. It(runRows[p], {"armed", "paused"}) \in RowStatuses \ {"armed", "paused"}
    <3>1. "interrupted" \in RowStatuses \ {"armed", "paused"}
      BY DEF RowStatuses
    <3> QED
      BY <1>31, <1>32, <2>1, <3>1
  <2>3. "stopped" \in RowStatuses \ {"armed", "paused"}
    BY DEF RowStatuses, RunStatuses
  <2>4. Row(n, p) \in {"stopped", It(runRows[p], {"armed", "paused"})}
    BY Zenon
  <2> HIDE DEF Row
  <2> QED
    BY <2>2, <2>3, <2>4
<1> HIDE DEF Row
<1>5. ASSUME NEW r \in Runs, NEW key \in RowKeys
      PROVE  Cell(n, r, key) \in (Statuses \union {"interrupted"}) \ {"running", "listening"}
  <2> DEFINE ks == Of2(n, r, key)
  <2>1. ks \subseteq 1 .. n /\ \A k \in ks : runner.queue[k].op = "macro"
    BY <1>33, <1>34
  <2>2. n \in Nat /\ 1 .. n \subseteq 1 .. Len(runner.queue)
    BY <1>3
  <2>3. ASSUME ks # {} PROVE runner.queue[Last(ks)].status \in Statuses
    <3> HIDE DEF ks
    <3>1. \E k \in ks : \A j \in ks : j <= k
      BY <2>1, <2>2, <2>3, GreatestOf
    <3>2. Last(ks) \in ks
      BY <3>1
    <3> HIDE DEF Last
    <3>3. Last(ks) \in 1 .. Len(runner.queue) /\ runner.queue[Last(ks)].op = "macro"
      BY <2>1, <2>2, <3>2
    <3>4. runner.queue[Last(ks)] \in Op
      BY <1>1, <3>3, ElementOfSeq
    <3> QED
      BY <3>3, <3>4 DEF Op
  <2> HIDE DEF Last
  <2>4. macroRows[r][key] \in Statuses \union {"interrupted"}
    BY <1>1
  <2>5. Says1(n, r, key) \in Statuses \union {"interrupted"}
    BY <2>3, <2>4
  <2> HIDE DEF Says1
  <2>6. "interrupted" \notin {"running", "listening"}
    OBVIOUS
  <2> QED
    BY <1>31, <1>32, <2>5, <2>6
<1> HIDE DEF Cell
<1>6. runRows' \in [1 .. Len(runRows) -> RowStatuses]
  BY <1>2, <1>3, <1>4
<1>7. runRows' \in Seq(RowStatuses)
  BY <1>3, <1>6, SeqDef
<1>8. \A r \in Runs : DOMAIN macroRows[r] = RowKeys
  BY <1>1
<1>9. macroRows' \in [Runs -> [RowKeys -> Statuses \union {"interrupted"}]]
  BY <1>2, <1>5, <1>8
<1>10. \A r \in Runs, key \in RowKeys : macroRows'[r][key] \notin Lives
  BY <1>2, <1>5, <1>8 DEF Lives
<1>11. DOMAIN runRows' = DOMAIN runRows /\ \A p \in DOMAIN runRows' : runRows'[p] \notin {"armed", "paused"}
  BY <1>2, <1>3, <1>4
<1> QED
  BY <1>7, <1>9, <1>10, <1>11 DEF RowsOK

LEMMA RestartStep == ASSUME Inv, Restart PROVE Inv'
<1> DEFINE goneRun == [NoRun EXCEPT !.status = "gone"]
           goneInst == [NoInstance EXCEPT !.status = "gone"]
           gr == [r \in Runs |-> IF runner.run[r].status = "none" THEN runner.run[r] ELSE goneRun]
           gi == [i \in Instances |-> IF runner.inst[i].status = "none" THEN runner.inst[i] ELSE goneInst]
<1>1. Shape(runner) /\ runner \in Runner
  BY DEF Inv, TypeOK, Shape
<1>2. goneRun \in Run /\ goneRun.status # "armed"
  BY BlankRun
<1>3. goneInst \in Instance /\ InstOK(goneInst) /\ goneInst.run = None /\ goneInst.made = None
  BY BlankInstance
<1>4. runner' = [runner EXCEPT !.run = gr, !.inst = gi, !.owner = [o \in Orders |-> None],
                               !.claims = {}, !.live = 0, !.subscribed = FALSE, !.queue = << >>]
  BY DEF Restart
<1> HIDE DEF goneRun, goneInst
<1>5. /\ gr \in [Runs -> Run]
      /\ \A r \in Runs : gr[r].status # "armed"
  BY <1>1, <1>2 DEF Runner
<1>6. /\ gi \in [Instances -> Instance]
      /\ \A i \in Instances : InstOK(gi[i]) /\ gi[i].run = None
      /\ \A i \in Instances : gi[i].made \in {None, runner.inst[i].made}
  <2>1. \A i \in Instances : runner.inst[i] \in Instance /\ InstOK(runner.inst[i])
    BY <1>1 DEF Shape, Runner
  <2>2. \A i \in Instances : runner.inst[i].status = "none" => runner.inst[i].run = None
    BY <2>1 DEF InstOK
  <2> QED
    BY <1>3, <2>1, <2>2
<1> HIDE DEF gr, gi
<1>7. /\ runner'.run = gr /\ runner'.inst = gi /\ runner'.owner = [o \in Orders |-> None]
      /\ runner'.claims = {} /\ runner'.live = 0 /\ runner'.subscribed = FALSE
      /\ runner'.queue = << >>
      /\ runner' = [run |-> gr, inst |-> gi, owner |-> [o \in Orders |-> None], claims |-> {},
                    live |-> 0, subscribed |-> FALSE, queue |-> << >>]
  BY <1>1, <1>4 DEF Runner
<1>8. runner' \in Runner
  BY <1>5, <1>6, <1>7 DEF Runner
<1>9. Shape(runner') /\ Sound(runner') /\ \A r \in Runs : Driven(runner', r)
  BY <1>5, <1>6, <1>7, <1>8, Resting
<1>10. Fewer(runner, runner')
  BY <1>6, <1>7 DEF Fewer
<1>11. RowsOK'
  BY RestartWrites
<1>12. CallsOK'
  <2>1. call' = [c \in Callers |-> Idle]
    BY DEF Restart
  <2> QED
    BY <2>1 DEF CallsOK, Idle, CallOps
<1>13. UNCHANGED orders /\ acts' \in Nat /\ calm' \in BOOLEAN /\ calm' = calm
  <2>1. Happens /\ UNCHANGED << orders, calm >>
    BY Zenon DEF Restart
  <2> QED
    BY <2>1 DEF Happens, Inv, TypeOK
<1> QED
  BY <1>9, <1>10, <1>11, <1>12, <1>13, CommandKeeps

LEMMA InitInv == Init => Inv
<1> SUFFICES ASSUME Init PROVE Inv
  OBVIOUS
<1>2. NoInstance \in Instance /\ InstOK(NoInstance) /\ NoInstance.run = None /\ NoInstance.made = None
  BY BlankInstance
<1>3. NoRun \in Run /\ NoRun.status # "armed"
  BY BlankRun
<1>4. /\ runner.run = [r \in Runs |-> NoRun] /\ runner.inst = [i \in Instances |-> NoInstance]
      /\ runner.owner = [o \in Orders |-> None]
      /\ runner.claims = {} /\ runner.live = 0 /\ runner.subscribed = FALSE
      /\ runner \in Runner
  BY <1>2, <1>3 DEF Init, Runner
<1>5. Shape(runner) /\ Sound(runner) /\ \A r \in Runs : Driven(runner, r)
  BY <1>2, <1>3, <1>4, Resting
<1>6. RowsOK
  BY DEF Init, RowsOK, RowKeys, Statuses
<1>7. CallsOK
  BY DEF Init, CallsOK, Idle, CallOps
<1>8. orders \in [Orders -> {"none", "added", "sent", "received"}] /\ acts \in Nat /\ calm \in BOOLEAN
  BY DEF Init
<1>9. KnownTo(runner, orders)
  BY <1>2, <1>4 DEF KnownTo
<1>10. AllDriven(runner, Begun)
  BY <1>5 DEF AllDriven
<1> QED
  BY <1>5, <1>6, <1>7, <1>8, <1>9, <1>10 DEF Inv, TypeOK

LEMMA NextInv == Inv /\ [Next]_vars => Inv'
<1> SUFFICES ASSUME Inv, [Next]_vars PROVE Inv'
  OBVIOUS
<1>1. CASE UNCHANGED vars
  <2>1. Begun' = Begun
    BY <1>1 DEF Begun, Starting, vars
  <2> QED
    BY <1>1, <2>1 DEF Inv, TypeOK, RowsOK, CallsOK, vars
<1>2. CASE \E o \in Orders : OrderReceived(o) \/ OrderSentByHand(o)
  BY <1>2, ArrivesStep
<1>3. CASE \E o \in Orders, wakes \in BOOLEAN : OrderEvent(o, wakes)
  BY <1>3, OrderEventStep
<1>4. CASE \E i \in Instances, f \in Flows :
              \/ Gate(i, f) \/ Wait(i, f) \/ Ring(i, f) \/ Act(i, f) \/ Acted(i, f) \/ Refused(i, f)
              \/ Signal(i, f) \/ End(i, f) \/ Verdict(i, f) \/ Unwinds(i, f)
  BY <1>4, ParkSteps, RingStep, ActStep, ActedStep, RefusedStep, SignalStep, EndStep, VerdictStep,
     UnwindsStep
<1>5. CASE \E i \in Instances : When(i) \/ Add(i) \/ Sent(i) \/ Pass(i)
  BY <1>5, WhenStep, AddStep, SentStep, PassStep
<1>6. CASE \E i \in Instances, o \in Orders : Announced(i, o) \/ Added(i, o) \/ StartMember(i, o)
  BY <1>6, AnnouncedStep, AddedStep, StartMemberStep
<1>7. CASE \E c \in Callers :
              \/ \E m \in Macros : Arm(c, m)
              \/ \E r \in Runs : StopRun(c, r)
              \/ InsertRun(c) \/ InsertFails(c) \/ NameRun(c) \/ StartRun(c) \/ Settle(c) \/ Joined(c)
  BY <1>7, ArmStep, StopRunStep, InsertRunStep, InsertFailsStep, NameRunStep, StartRunStep, SettleStep,
     JoinedStep
<1>8. CASE \E r \in Runs : PauseRun(r) \/ ResumeRun(r)
  BY <1>8, PauseRunStep, ResumeRunStep
<1>9. CASE \E o \in Orders : Detach(o)
  BY <1>9, DetachStep
<1>10. CASE Drain
  BY <1>10, DrainStep
<1>11. CASE Restart
  BY <1>11, RestartStep
<1> QED
  BY <1>1, <1>2, <1>3, <1>4, <1>5, <1>6, <1>7, <1>8, <1>9, <1>10, <1>11 DEF Next

LEMMA Invariant == Spec => []Inv
<1>1. Init => Inv
  BY InitInv
<1>2. Inv /\ [Next]_vars => Inv'
  BY NextInv
<1> QED
  BY <1>1, <1>2, PTL DEF Spec

-----------------------------------------------------------------------------
(* What the runs check, for any macros, callers and bounds.                 *)

\* Whatever runs, orders and commands come: the runner, its macros, the queue
\* to the worker and the rows stay what the code takes them for, and what a
\* macro owns or made is an order there is.
THEOREM TypeCorrect == Spec => [](TypeOK /\ KnownTo(runner, orders))
<1>1. Inv => TypeOK /\ KnownTo(runner, orders)
  BY DEF Inv
<1> QED
  BY <1>1, Invariant, PTL

\* An order has one macro, and the count of live macros is right: nothing that
\* starts, binds, detaches or ends a macro leaves an owner behind.
THEOREM OneMacro == Spec => []OwnersAgree
<1>1. Inv => OwnersAgree
  <2> SUFFICES ASSUME Inv, calm PROVE
        /\ \A o \in Orders : runner.owner[o] # None =>
              Alive(runner.inst[runner.owner[o]]) /\ runner.inst[runner.owner[o]].key = o
        /\ \A i \in Instances :
              Alive(runner.inst[i]) /\ runner.inst[i].key # None => runner.owner[runner.inst[i].key] = i
        /\ runner.live = Cardinality({i \in Instances : Alive(runner.inst[i]) /\ ~IsGenerator(runner.inst[i])})
        /\ runner.subscribed <=> Armed(runner) # {}
    BY DEF OwnersAgree
  <2>1. Counts(runner) /\ Owns(runner) /\ Listens(runner)
    BY DEF Inv, Sound, SoundBut
  <2> QED
    BY <2>1 DEF Counts, Owns, Listens, LiveOnes
<1> QED
  BY <1>1, Invariant, PTL

\* Nothing of a run that is over is live, no flow of a macro that is over runs
\* on, and a run that only sends goes on for a macro at work.
THEOREM EndsWithItsMacros == Spec => []OverIsOver
<1>1. Inv => OverIsOver
  <2> SUFFICES ASSUME Inv, calm PROVE
        /\ \A i \in Instances :
              /\ Alive(runner.inst[i]) => runner.run[runner.inst[i].run].status = "armed"
              /\ ~Alive(runner.inst[i]) =>
                    \A f \in FlowsOf(runner.inst[i]) : runner.inst[i].flow[f].doomed
        /\ \A r \in Armed(runner) :
              (/\ \A c \in Callers : call[c].run # r
               /\ Waits(Macro(runner, r)) => IsTest(Macro(runner, r)))
              => \E i \in Of(runner, r) :
                    IF IsClient(runner.inst[i]) THEN Alive(runner.inst[i]) ELSE AtWork(runner.inst[i])
    BY DEF OverIsOver
  <2>1. LivesArmed(runner) /\ Unwound(runner, None, "none") /\ AllDriven(runner, Begun)
    BY DEF Inv, Sound, SoundBut
  <2>2. \A j \in Instances : j # None
    BY MacroRunsAssumption DEF Instances, None
  <2>3. ASSUME NEW i \in Instances, ~Alive(runner.inst[i]), NEW f \in FlowsOf(runner.inst[i])
        PROVE  runner.inst[i].flow[f].doomed
    BY <2>1, <2>2, <2>3 DEF Unwound, Quiet, FlowsOf
  <2>4. ASSUME NEW r \in Armed(runner), \A c \in Callers : call[c].run # r,
               Waits(Macro(runner, r)) => IsTest(Macro(runner, r))
        PROVE  \E i \in Of(runner, r) :
                  IF IsClient(runner.inst[i]) THEN Alive(runner.inst[i]) ELSE AtWork(runner.inst[i])
    <3>1. r \in Runs /\ runner.run[r].status = "armed" /\ r \notin Begun
      BY <2>4 DEF Armed, Begun, Starting
    <3>2. PICK i \in Instances : runner.inst[i].run = r /\ Works(runner.inst[i])
      BY <2>1, <2>4, <3>1 DEF AllDriven, Driven
    <3> QED
      BY <3>2 DEF Of, Works
  <2> QED
    BY <2>1, <2>3, <2>4 DEF LivesArmed
<1> QED
  BY <1>1, Invariant, PTL

\* A flow is busy exactly while it is at a line, in the engine or not unwound
\* yet: settle waits for work and for nothing else, also in a storm of commands.
THEOREM SettleWaitsForWork == Spec => []BusyIsAtWork
<1>1. Inv => BusyIsAtWork
  BY DEF Inv, TypeOK, Shape, InstOK, BusyIsAtWork, AtRest
<1> QED
  BY <1>1, Invariant, PTL

-----------------------------------------------------------------------------
(* What the rows say.  The queue tells, in order, what rows are to say; a     *)
(* row says what the last line of the queue about it does, or what it does.   *)

About(op, r, k) == op.op = "macro" /\ op.run = r /\ op.key = k
LastSays(q, r, k, v) ==
    \E n \in DOMAIN q : /\ About(q[n], r, k) /\ q[n].status = v
                        /\ \A m \in DOMAIN q : m > n => ~About(q[m], r, k)
Silent(q, r, k) == \A n \in DOMAIN q : ~About(q[n], r, k)

\* The rows, and the runs, as a step finds them; runs whose command writes theirs.
Says(e, R, r, k, v) ==
    \/ LastSays(R.queue, r, k, v)
    \/ Silent(R.queue, r, k) /\ e.macros[R.run[r].row][k] = v

Plain(x) ==
    /\ x.run = None => x.key = None
    /\ IsGenerator(x) => x.key = None
    /\ \A f \in Flows : x.flow[f].pc \in {"send", "sent"} => IsClient(x) /\ ~IsGenerator(x)
    /\ Alive(x) => \A f \in Flows : ~x.flow[f].doomed

\* A live macro that holds an order has told so, and its row says what it is, or it
\* has yet to come to rest; of one that is over another has the row, or its row says
\* what one of them came to; or one of `but` is about to tell.
SameRow(x, y) == y.run = x.run /\ y.key = x.key
Said(e, R, i, but) ==
    LET x == R.inst[i] IN
    /\ Alive(x) /\ x.key = None => x.told = << >>
    /\ Alive(x) /\ x.key # None /\ x.told = << >> => x.flow["main"].busy
    /\ Alive(x) /\ x.key # None /\ x.told # << >> =>
          x.told = << x.key, x.status >> /\ Says(e, R, x.run, x.key, x.status)
    /\ ~Alive(x) /\ x.key # None =>
          \E j \in Instances : /\ SameRow(x, R.inst[j])
                               /\ j \in but \/ Alive(R.inst[j]) \/ Says(e, R, x.run, x.key, R.inst[j].status)

ShownAs(x) == IF x.status = "armed" /\ x.paused THEN "paused" ELSE x.status
RunTold(e, R, r) ==
    \/ R.run[r].row = None
    \/ \E n \in DOMAIN R.queue : R.queue[n].run = r
    \/ r \in e.settling
    \/ e.runs[R.run[r].row] = ShownAs(R.run[r])

\* A run goes on: only one with a row comes to an end.
RunOn(x, y) ==
    /\ y.row = x.row /\ y.paused = x.paused
    /\ y.status # x.status => x.row # None /\ y.status \in {"finished", "stopped"}

Named(R, i) == R.inst[i].run # None => R.run[R.inst[i].run].row # None

Tells(e, R, but) ==
    /\ \A i \in Instances : Plain(R.inst[i]) /\ Named(R, i)
    /\ \A i \in Instances : i \notin but => Said(e, R, i, but)
    /\ \A r \in Runs : RunTold(e, R, r) /\ RunOn(e.run[r], R.run[r])
    /\ \A n \in DOMAIN R.queue : R.run[R.queue[n].run].row # None

LEMMA QueueGrows ==
  ASSUME NEW q \in Seq(Op), NEW op \in Op
  PROVE  LET p == Append(q, op) IN
         /\ p \in Seq(Op) /\ DOMAIN p = DOMAIN q \union {Len(q) + 1}
         /\ p[Len(q) + 1] = op /\ \A n \in DOMAIN q : p[n] = q[n] /\ n \in Nat /\ n < Len(q) + 1
         /\ \A r, k, v :
               /\ About(op, r, k) /\ op.status = v => LastSays(p, r, k, v)
               /\ ~About(op, r, k) => /\ LastSays(q, r, k, v) => LastSays(p, r, k, v)
                                      /\ Silent(q, r, k) => Silent(p, r, k)
<1> DEFINE p == Append(q, op)
           l == Len(q) + 1
<1>1. /\ p \in Seq(Op) /\ DOMAIN p = DOMAIN q \union {l} /\ l \in Nat
      /\ p[l] = op /\ \A n \in DOMAIN q : p[n] = q[n] /\ n \in Nat /\ n < l
  <2>1. Len(q) \in Nat /\ DOMAIN q = 1 .. Len(q)
    BY LenProperties
  <2>2. Len(p) = l /\ p \in Seq(Op) /\ p[l] = op /\ \A n \in 1 .. Len(q) : p[n] = q[n]
    BY AppendProperties
  <2>3. DOMAIN p = 1 .. l
    BY <2>2, LenProperties
  <2> HIDE DEF p
  <2> QED
    BY <2>1, <2>2, <2>3
<1> HIDE DEF p, l
<1>2. ASSUME NEW r, NEW k, NEW v, About(op, r, k), op.status = v PROVE LastSays(p, r, k, v)
  <2>1. \A m \in DOMAIN p : ~(m > l)
    BY <1>1
  <2> QED
    BY <1>1, <1>2, <2>1 DEF LastSays
<1>3. ASSUME NEW r, NEW k, NEW v, ~About(op, r, k), LastSays(q, r, k, v) PROVE LastSays(p, r, k, v)
  <2>1. PICK n \in DOMAIN q : /\ About(q[n], r, k) /\ q[n].status = v
                              /\ \A m \in DOMAIN q : m > n => ~About(q[m], r, k)
    BY <1>3 DEF LastSays
  <2>2. n \in DOMAIN p /\ p[n] = q[n]
    BY <1>1
  <2>3. \A m \in DOMAIN p : m > n => ~About(p[m], r, k)
    BY <1>1, <1>3, <2>1
  <2> QED
    BY <2>1, <2>2, <2>3 DEF LastSays
<1>4. ASSUME NEW r, NEW k, ~About(op, r, k), Silent(q, r, k) PROVE Silent(p, r, k)
  BY <1>1, <1>4 DEF Silent
<1> QED
  BY <1>1, <1>2, <1>3, <1>4 DEF p, l

\* What a runner says whose queue has one line more.
LEMMA SaysMore ==
  ASSUME NEW e, NEW R, R.queue \in Seq(Op), NEW op \in Op, NEW T, T.queue = Append(R.queue, op),
         \A r \in Runs : T.run[r].row = R.run[r].row
  PROVE  \A r \in Runs : \A k, v :
            /\ About(op, r, k) /\ op.status = v => Says(e, T, r, k, v)
            /\ ~About(op, r, k) /\ Says(e, R, r, k, v) => Says(e, T, r, k, v)
  BY QueueGrows DEF Says

\* Changes that nothing has to be told of.
Untold(R, T, but) ==
    /\ T.run = R.run /\ T.queue = R.queue
    /\ \A i \in Instances :
          LET x == R.inst[i] y == T.inst[i] IN
          /\ y.run = x.run /\ y.key = x.key /\ y.status = x.status /\ y.told = x.told
          /\ Plain(y)
          /\ i \notin but /\ Alive(x) /\ x.key # None /\ x.told = << >> /\ x.flow["main"].busy => y.flow["main"].busy

LEMMA UntoldTells ==
  ASSUME NEW e, NEW R, NEW T, NEW but, Tells(e, R, but), Untold(R, T, but)
  PROVE  Tells(e, T, but)
<1>1. \A r, k, v : Says(e, T, r, k, v) <=> Says(e, R, r, k, v)
  BY DEF Says, Untold
<1>2. \A i \in Instances : Alive(T.inst[i]) <=> Alive(R.inst[i])
  BY DEF Untold, Alive
<1>3. ASSUME NEW i \in Instances, i \notin but PROVE Said(e, T, i, but)
  <2> DEFINE x == R.inst[i]
             y == T.inst[i]
  <2>1. Said(e, R, i, but)
    BY <1>3 DEF Tells
  <2>2. /\ y.run = x.run /\ y.key = x.key /\ y.status = x.status /\ y.told = x.told
        /\ Alive(x) /\ x.key # None /\ x.told = << >> /\ x.flow["main"].busy => y.flow["main"].busy
        /\ Alive(y) <=> Alive(x)
    BY <1>2, <1>3 DEF Untold
  <2>3. ASSUME ~Alive(y), y.key # None
        PROVE  \E j \in Instances : /\ SameRow(y, T.inst[j])
                                    /\ j \in but \/ Alive(T.inst[j]) \/ Says(e, T, y.run, y.key, T.inst[j].status)
    <3>1. PICK j \in Instances : /\ SameRow(x, R.inst[j])
                                 /\ j \in but \/ Alive(R.inst[j]) \/ Says(e, R, x.run, x.key, R.inst[j].status)
      BY <2>1, <2>2, <2>3 DEF Said
    <3>2. T.inst[j].run = R.inst[j].run /\ T.inst[j].key = R.inst[j].key /\ T.inst[j].status = R.inst[j].status
      BY DEF Untold
    <3> QED
      BY <1>1, <1>2, <2>2, <3>1, <3>2 DEF SameRow
  <2>4. Says(e, T, y.run, y.key, y.status) <=> Says(e, R, x.run, x.key, x.status)
    BY <1>1, <2>2
  <2> QED
    BY <2>1, <2>2, <2>3, <2>4 DEF Said
<1>4. \A r \in Runs : RunTold(e, T, r) /\ RunOn(e.run[r], T.run[r])
  BY DEF Tells, Untold, RunTold
<1>5. \A i \in Instances : Plain(T.inst[i]) /\ Named(T, i)
  BY DEF Tells, Untold, Named
<1>6. \A n \in DOMAIN T.queue : T.run[T.queue[n].run].row # None
  BY DEF Tells, Untold
<1> QED
  BY <1>3, <1>4, <1>5, <1>6 DEF Tells

\* The rows of macros that are over, when macro i tells what became of it.
LEMMA SaidElsewhere ==
  ASSUME NEW e, NEW R, NEW T, NEW i \in Instances, NEW j \in Instances, j # i, NEW but, Said(e, R, j, but \union {i}),
         \A k \in Instances : k # i => T.inst[k] = R.inst[k],
         SameRow(R.inst[i], T.inst[i]), T.inst[i].status = R.inst[i].status,
         LET x == R.inst[i] z == R.inst[j] IN
         /\ Alive(z) /\ z.key # None => ~SameRow(x, z)
         /\ SameRow(z, x) => Says(e, T, z.run, z.key, x.status)
         /\ z.key # None /\ ~SameRow(z, x) => \A v : Says(e, R, z.run, z.key, v) => Says(e, T, z.run, z.key, v)
  PROVE  Said(e, T, j, but)
<1> DEFINE x == R.inst[i]
           z == R.inst[j]
<1>1. T.inst[j] = z
  OBVIOUS
<1>2. ASSUME ~Alive(z), z.key # None
      PROVE  \E k \in Instances : /\ SameRow(z, T.inst[k])
                                  /\ k \in but \/ Alive(T.inst[k]) \/ Says(e, T, z.run, z.key, T.inst[k].status)
  <2>1. CASE SameRow(z, x)
    <3>1. SameRow(z, T.inst[i])
      BY <2>1 DEF SameRow
    <3> QED
      BY <2>1, <3>1
  <2>2. CASE ~SameRow(z, x)
    <3>1. PICK k \in Instances : /\ SameRow(z, R.inst[k])
                                 /\ k \in but \union {i} \/ Alive(R.inst[k]) \/ Says(e, R, z.run, z.key, R.inst[k].status)
      BY <1>2 DEF Said
    <3>2. k # i /\ T.inst[k] = R.inst[k]
      BY <2>2, <3>1
    <3> QED
      BY <1>2, <2>2, <3>1, <3>2
  <2> QED
    BY <2>1, <2>2
<1>3. ASSUME Alive(z), z.key # None, z.told # << >>
      PROVE  z.told = << z.key, z.status >> /\ Says(e, T, z.run, z.key, z.status)
  <2>1. ~SameRow(z, x)
    BY <1>3 DEF SameRow
  <2> QED
    BY <1>3, <2>1 DEF Said
<1> QED
  BY <1>1, <1>2, <1>3 DEF Said

LEMMA ToldTells ==
  ASSUME NEW e, NEW R, Shape(R), NEW i \in Instances, R.inst[i].run # None, NEW but,
         Tells(e, R, but \union {i}),
         LET x == R.inst[i] IN
         /\ Alive(x) /\ x.key = None => x.told = << >>
         /\ x.key # None /\ x.told = << x.key, x.status >> => Says(e, R, x.run, x.key, x.status)
         /\ \A j \in Instances : j # i /\ j \notin but /\ Alive(R.inst[j]) /\ R.inst[j].key # None =>
               R.inst[j].key # x.key
  PROVE  Tells(e, Told(R, i), but)
<1> DEFINE x == R.inst[i]
           op == [op |-> "macro", run |-> x.run, key |-> IF x.key = None THEN -i ELSE x.key, status |-> x.status]
           Q == [Queued(R, op) EXCEPT !.inst[i].told = << x.key, x.status >>]
           y == [x EXCEPT !.told = << x.key, x.status >>]
           q == Append(R.queue, op)
           T == Told(R, i)
<1>0. R \in Runner /\ x \in Instance /\ InstOK(x)
  BY DEF Shape, Runner
<1>1. /\ op \in Op /\ op.op = "macro" /\ op.run = x.run /\ op.status = x.status
      /\ op.key = IF x.key = None THEN -i ELSE x.key
  BY <1>0 DEF Op, Instance, RowKeys, Keys
<1>2. q \in Seq(Op) /\ R.queue \in Seq(Op)
  BY <1>0, <1>1, AppendProperties DEF Runner
<1>3. /\ y.run = x.run /\ y.key = x.key /\ y.status = x.status /\ y.flow = x.flow /\ y.block = x.block
      /\ y.told = << x.key, x.status >>
  BY <1>0 DEF Instance
<1>4. Q = [R EXCEPT !.queue = q, !.inst[i] = y]
  BY <1>0 DEF Queued, Runner
<1> HIDE DEF y, q, op
<1>5. /\ Q.run = R.run /\ Q.queue = q
      /\ Q.inst[i] = y /\ \A j \in Instances : j # i => Q.inst[j] = R.inst[j]
  <2> HIDE DEF Q
  <2>1. Q.run = R.run /\ Q.queue = q /\ Q.inst = [R.inst EXCEPT ![i] = y]
    BY <1>0, <1>4 DEF Runner
  <2>2. DOMAIN R.inst = Instances
    BY <1>0 DEF Runner
  <2> QED
    BY <2>1, <2>2
<1>6. IF IsGenerator(x) \/ (x.key = None /\ Alive(x)) \/ x.told = << x.key, x.status >> THEN T = R ELSE T = Q
  <2>1. R.run[x.run].row # None
    BY DEF Tells, Named
  <2>2. T = IF \/ R.run[x.run].row = None \/ IsGenerator(x) \/ (x.key = None /\ Alive(x))
               \/ x.told = << x.key, x.status >>
            THEN R ELSE Q
    BY Zenon DEF Told, Q, op
  <2> HIDE DEF Q, T
  <2> QED
    BY <2>1, <2>2
<1> HIDE DEF Q, T
<1>7. Plain(x) /\ x.run \in Runs
  BY <1>0 DEF Tells, Instance
<1>8. \A j \in Instances : R.inst[j].key \in Keys /\ R.inst[j].run \in Runs \union {None}
  BY <1>0 DEF Runner, Instance
<1>9. \A j \in Instances : j # i /\ j \notin but => Said(e, R, j, but \union {i})
  BY DEF Tells
<1>10. CASE T = R /\ (IsGenerator(x) \/ (x.key = None /\ Alive(x)) \/ x.told = << x.key, x.status >>)
  <2>1. ASSUME x.key # None PROVE Says(e, R, x.run, x.key, x.status) /\ x.told = << x.key, x.status >>
    BY <1>6, <1>7, <1>10, <2>1, <1>3, <1>5 DEF Plain
  <2>2. Said(e, R, i, but)
    <3>1. SameRow(x, x)
      BY DEF SameRow
    <3> QED
      BY <2>1, <3>1 DEF Said
  <2>3. ASSUME NEW j \in Instances, j # i, j \notin but PROVE Said(e, R, j, but)
    <3> DEFINE z == R.inst[j]
    <3>1. Said(e, R, j, but \union {i}) /\ SameRow(x, x)
      BY <1>9, <2>3 DEF SameRow
    <3>2. CASE z.key = None
      BY <3>1, <3>2 DEF Said
    <3>3. CASE z.key # None
      <4>1. Alive(z) => ~SameRow(x, z)
        BY <2>3, <3>3 DEF SameRow
      <4>2. SameRow(z, x) => Says(e, R, z.run, z.key, x.status)
        BY <2>1, <3>3 DEF SameRow
      <4> HIDE DEF z
      <4> QED
        BY <2>3, <3>1, <3>3, <4>1, <4>2, SaidElsewhere DEF z
    <3> QED
      BY <3>2, <3>3
  <2> QED
    BY <1>10, <2>2, <2>3 DEF Tells, T
<1>11. CASE T = Q /\ ~(x.key = None /\ Alive(x))
  <2>1. \A r \in Runs : \A k, v :
            /\ About(op, r, k) /\ op.status = v => Says(e, Q, r, k, v)
            /\ ~About(op, r, k) /\ Says(e, R, r, k, v) => Says(e, Q, r, k, v)
    BY <1>1, <1>2, <1>5, SaysMore DEF q
  <2>2. x.key # None => Says(e, Q, x.run, x.key, x.status)
    BY <1>1, <1>7, <2>1 DEF About
  <2>3. ASSUME NEW j \in Instances, j # i, j \notin but PROVE Said(e, Q, j, but)
    <3> DEFINE z == R.inst[j]
    <3>1. Alive(z) /\ z.key # None => ~SameRow(x, z)
      BY <2>3 DEF SameRow
    <3>2. z.key # None => z.run \in Runs
      BY <1>8 DEF Tells, Plain
    <3>3. z.key # None /\ ~SameRow(z, x) => ~About(op, z.run, z.key)
      <4> SUFFICES ASSUME z.key # None, About(op, z.run, z.key) PROVE SameRow(z, x)
        OBVIOUS
      <4>1. z.key \in Orders
        BY <1>8 DEF Keys
      <4>2. -i \notin Orders
        BY DEF Instances, Orders
      <4> QED
        BY <1>1, <4>1, <4>2 DEF About, SameRow
    <3>4. z.key # None /\ ~SameRow(z, x) => \A v : Says(e, R, z.run, z.key, v) => Says(e, Q, z.run, z.key, v)
      BY <2>1, <3>2, <3>3
    <3>5. z.key = None \/ (SameRow(z, x) => Says(e, Q, z.run, z.key, x.status))
      BY <2>2 DEF SameRow
    <3>6. CASE z.key = None
      BY <1>5, <1>9, <2>3, <3>6 DEF Said
    <3>7. CASE z.key # None
      <4>1. SameRow(x, Q.inst[i]) /\ Q.inst[i].status = x.status
        BY <1>3, <1>5 DEF SameRow
      <4>2. Said(e, R, j, but \union {i})
        BY <1>9, <2>3
      <4> HIDE DEF z
      <4> QED
        BY <1>5, <2>3, <3>1, <3>4, <3>5, <3>7, <4>1, <4>2, SaidElsewhere DEF z
    <3> QED
      BY <3>6, <3>7
  <2>4. Said(e, Q, i, but)
    <3>1. (Alive(y) <=> Alive(x)) /\ SameRow(y, y)
      BY <1>3 DEF Alive, SameRow
    <3>2. << x.key, x.status >> # << >>
      OBVIOUS
    <3> QED
      BY <1>3, <1>5, <1>11, <2>2, <3>1, <3>2 DEF Said
  <2>5. \A j \in Instances : Plain(Q.inst[j]) /\ Named(Q, j)
    <3>1. Plain(y)
      BY <1>3, <1>7 DEF Plain, IsGenerator, IsClient, Alive
    <3> QED
      BY <1>3, <1>5, <3>1 DEF Tells, Named
  <2>6. /\ DOMAIN q = DOMAIN R.queue \union {Len(R.queue) + 1} /\ q[Len(R.queue) + 1] = op
        /\ \A n \in DOMAIN R.queue : q[n] = R.queue[n]
    BY <1>1, <1>2, QueueGrows DEF q
  <2>7. \A r \in Runs : RunTold(e, Q, r) /\ RunOn(e.run[r], Q.run[r])
    BY <1>5, <2>6 DEF Tells, RunTold
  <2>8. \A n \in DOMAIN Q.queue : Q.run[Q.queue[n].run].row # None
    BY <1>1, <1>5, <2>6 DEF Tells, Named
  <2> QED
    BY <1>11, <2>3, <2>4, <2>5, <2>7, <2>8 DEF Tells, T
<1> QED
  BY <1>6, <1>10, <1>11 DEF T

\* Macros that are not among `but` have orders of their own.
Alone(R, but) ==
    \A i, j \in Instances : i # j /\ i \notin but /\ j \notin but /\ Alive(R.inst[i]) /\ Alive(R.inst[j])
                            /\ R.inst[i].key # None => R.inst[i].key # R.inst[j].key

LEMMA OwnersAlone ==
  ASSUME NEW R, Owns(R), NEW but
  PROVE  Alone(R, but)
  BY DEF Owns, Alone

LEMMA EndedTells ==
  ASSUME NEW e, NEW R, Shape(R), NEW i \in Instances, NEW status \in Ends, NEW f, NEW but, i \notin but,
         Tells(e, R, but), Alone(R, but)
  PROVE  Tells(e, Ended(R, i, status, f), but)
<1> DEFINE E == Ended(R, i, status, f)
           x == R.inst[i]
<1>0. R \in Runner /\ x \in Instance /\ InstOK(x)
  BY DEF Shape, Runner
<1>1. CASE ~Alive(x)
  BY <1>1 DEF Ended
<1>2. CASE Alive(x)
  <2> DEFINE Cancel(h) == IF h = f \/ x.flow[h].pc = "off" THEN x.flow[h] ELSE [x.flow[h] EXCEPT !.doomed = TRUE]
             z == [x EXCEPT !.status = status]
             Q == [R EXCEPT !.inst[i] = z]
             S == Told(Q, i)
             flows == [h \in Flows |-> Cancel(h)]
             y == [S.inst[i] EXCEPT !.flow = flows, !.handlers = FALSE, !.made = None]
             T == [S EXCEPT !.inst[i] = y,
                            !.owner = [o \in Orders |-> IF R.owner[o] = i THEN None ELSE R.owner[o]],
                            !.claims = S.claims \ {i},
                            !.live = IF IsGenerator(x) THEN S.live ELSE S.live - 1]
  <2>1. E = T
    <3>1. [R EXCEPT !.inst[i].status = status] = Q
      BY <1>0 DEF Runner
    <3> QED
      BY <1>2, <3>1, Zenon DEF Ended
  <2>2. z \in Instance /\ z.status = status /\ z.run = x.run /\ z.block = x.block /\ z.key = x.key /\ z.flow = x.flow
        /\ z.made = x.made /\ z.told = x.told
    BY <1>0 DEF Instance, Statuses
  <2>3. /\ Q \in Runner /\ Q.run = R.run /\ Q.owner = R.owner /\ Q.queue = R.queue
        /\ Q.inst[i] = z /\ \A j \in Instances : j # i => Q.inst[j] = R.inst[j]
    BY <1>0, <2>2 DEF Runner
  <2>4. x.run # None /\ x.run \in Runs
    BY <1>0, <1>2 DEF InstOK, Alive, Instance
  <2>5. InstOK(z)
    BY <1>0, <2>2, <2>4 DEF InstOK, Ends
  <2> HIDE DEF z, Q
  <2>6. Shape(Q)
    <3>1. \A o \in Orders : R.owner[o] \in Instances \union {None}
      BY <1>0 DEF Runner
    <3> QED
      BY <2>2, <2>3, <2>4, <2>5, <3>1 DEF Shape
  <2>7. ~Alive(z) /\ status \notin Lives
    BY <2>2 DEF Alive, Ends, Lives
  <2>8. Plain(x) /\ Said(e, R, i, but)
    BY DEF Tells
  <2>9. x.told # << x.key, status >>
    <3>1. x.told = << >> \/ x.told = << x.key, x.status >>
      BY <1>2, <2>8 DEF Said
    <3>2. x.status # status
      BY <1>2, <2>7 DEF Alive, Lives
    <3>3. \A a, b, c : << a, b >> # << >> /\ (b # c => << a, b >> # << a, c >>)
      OBVIOUS
    <3> QED
      BY <3>1, <3>2, <3>3
  <2>10. Tells(e, Q, but \union {i})
    <3>1. \A r, k, v : Says(e, Q, r, k, v) <=> Says(e, R, r, k, v)
      BY <2>3 DEF Says
    <3>2. ASSUME NEW j \in Instances, j \notin but \union {i} PROVE Said(e, Q, j, but \union {i})
      <4>1. Said(e, R, j, but) /\ Q.inst[j] = R.inst[j]
        BY <2>3, <3>2 DEF Tells
      <4>2. \A k \in Instances : SameRow(R.inst[j], R.inst[k]) <=> SameRow(Q.inst[j], Q.inst[k])
        BY <2>2, <2>3, <4>1 DEF SameRow
      <4>3. \A k \in Instances : k # i => Q.inst[k] = R.inst[k]
        BY <2>3
      <4> QED
        BY <3>1, <4>1, <4>2, <4>3 DEF Said
    <3>3. Plain(z)
      BY <2>2, <2>7, <2>8 DEF Plain, IsGenerator, IsClient
    <3>4. \A j \in Instances : Plain(Q.inst[j]) /\ Named(Q, j)
      BY <2>2, <2>3, <3>3 DEF Tells, Named
    <3>5. \A r \in Runs : RunTold(e, Q, r) /\ RunOn(e.run[r], Q.run[r])
      BY <2>3 DEF Tells, RunTold
    <3>6. \A n \in DOMAIN Q.queue : Q.run[Q.queue[n].run].row # None
      BY <2>3 DEF Tells
    <3> QED
      BY <3>2, <3>4, <3>5, <3>6 DEF Tells
  <2>11. \A j \in Instances : j # i /\ j \notin but /\ Alive(Q.inst[j]) /\ Q.inst[j].key # None
                              => Q.inst[j].key # z.key
    BY <1>2, <2>2, <2>3 DEF Alone
  <2>12. Tells(e, S, but) /\ Alike(Q, S) /\ S \in Runner /\ \A j \in Instances : j # i => S.inst[j] = Q.inst[j]
    <3>1. Q.inst[i].run # None /\ ~Alive(Q.inst[i]) /\ Q.inst[i].told # << Q.inst[i].key, Q.inst[i].status >>
      BY <2>2, <2>3, <2>4, <2>7, <2>9
    <3>2. \A j \in Instances : j # i /\ j \notin but /\ Alive(Q.inst[j]) /\ Q.inst[j].key # None
                               => Q.inst[j].key # Q.inst[i].key
      BY <2>3, <2>11
    <3>3. Tells(e, Told(Q, i), but)
      BY <2>6, <2>10, <3>1, <3>2, ToldTells
    <3> QED
      BY <2>6, <3>1, <3>3, ToldKeeps
  <2> HIDE DEF S
  <2>13. S.inst[i] \in Instance /\ S.inst[i].run = x.run /\ S.inst[i].key = x.key /\ S.inst[i].status = status
         /\ S.inst[i].block = x.block
    BY <2>2, <2>3, <2>12 DEF Alike, Twin, Runner
  <2>14. \A h \in Flows : flows[h].pc = x.flow[h].pc
    <3>1. \A h \in Flows : x.flow[h] \in Flow
      BY <1>0 DEF Instance
    <3> QED
      BY <3>1 DEF Flow
  <2> HIDE DEF flows
  <2>15. /\ y.run = x.run /\ y.key = x.key /\ y.status = status /\ y.told = S.inst[i].told /\ y.flow = flows
         /\ y.block = x.block
    BY <2>13 DEF Instance
  <2> HIDE DEF y
  <2>16. /\ T.run = S.run /\ T.queue = S.queue
         /\ T.inst[i] = y /\ \A j \in Instances : j # i => T.inst[j] = S.inst[j]
    BY <2>12 DEF Runner
  <2> HIDE DEF T
  <2>17. Plain(y) /\ ~Alive(S.inst[i])
    BY <2>7, <2>8, <2>13, <2>14, <2>15, <2>2 DEF Plain, Alive, IsGenerator, IsClient
  <2>18. Untold(S, T, but)
    BY <2>12, <2>13, <2>15, <2>16, <2>17 DEF Untold, Tells
  <2> QED
    BY <2>1, <2>12, <2>18, UntoldTells
<1> QED
  BY <1>1, <1>2

\* A set of runners that holds R, and those in which one more of the macros has
\* ended, holds the one in which all have.
LEMMA AllEndedIn ==
  ASSUME NEW R, NEW is, is \subseteq Instances, NEW status, NEW Z, R \in Z,
         \A Q \in Z, n \in is : Ended(Q, n, status, "none") \in Z
  PROVE  AllEnded(R, is, status) \in Z
<1>0. MaxMacros \in Nat
  BY MacroRunsAssumption
<1> DEFINE IsIt(g) == g = [i \in 0 .. MaxMacros |->
                             IF i = 0 THEN R
                             ELSE IF i \in is THEN Ended(g[i - 1], i, status, "none") ELSE g[i - 1]]
<1>1. AllEnded(R, is, status) = (CHOOSE g : IsIt(g))[MaxMacros]
  BY Zenon DEF AllEnded
<1>2. \E g : IsIt(g)
  <2>1. \E g : Ending(g, R, is, status, MaxMacros)
    BY <1>0, EndingExists
  <2> QED
    BY <2>1, Zenon DEF Ending
<1>3. PICK g : IsIt(g) /\ g = CHOOSE h : IsIt(h)
  <2> HIDE DEF IsIt
  <2> QED
    BY <1>2
<1>4. /\ g[0] = R
      /\ \A n \in 1 .. MaxMacros : g[n] = IF n \in is THEN Ended(g[n - 1], n, status, "none") ELSE g[n - 1]
  BY <1>0, <1>3
<1> DEFINE S == {n \in 0 .. MaxMacros : g[n] \in Z}
<1>5. 0 \in S
  BY <1>0, <1>4
<1>6. ASSUME NEW n \in 1 .. MaxMacros, n - 1 \in S PROVE n \in S
  BY <1>4, <1>6
<1> HIDE DEF S
<1>7. MaxMacros \in S
  BY <1>0, <1>5, <1>6, EveryNumber
<1> QED
  BY <1>1, <1>3, <1>7 DEF S

LEMMA AloneStays ==
  ASSUME NEW R, NEW T, NEW is, NEW f, NEW but, EndsOf(R, T, is, f), Alone(R, but)
  PROVE  Alone(T, but)
<1>1. \A j \in Instances : Alive(T.inst[j]) => T.inst[j] = R.inst[j]
  BY DEF EndsOf, Over, Alive, Ends
<1> QED
  BY <1>1 DEF Alone

LEMMA AllEndedTells ==
  ASSUME NEW e, NEW R, Shape(R), NEW is, is \subseteq Instances, NEW status \in Ends, NEW but,
         is \intersect but = {}, Tells(e, R, but), Alone(R, but)
  PROVE  Tells(e, AllEnded(R, is, status), but)
<1> DEFINE Z == {Q \in Runner : Shape(Q) /\ Tells(e, Q, but) /\ Alone(Q, but)}
<1>1. R \in Z
  BY DEF Shape
<1>2. ASSUME NEW Q \in Z, NEW n \in is PROVE Ended(Q, n, status, "none") \in Z
  <2>1. Shape(Q) /\ Tells(e, Q, but) /\ Alone(Q, but) /\ n \in Instances /\ n \notin but
    OBVIOUS
  <2> HIDE DEF Z
  <2>2. Shape(Ended(Q, n, status, "none")) /\ EndsOf(Q, Ended(Q, n, status, "none"), {n}, "none")
    BY <2>1, EndedEnds
  <2>3. Tells(e, Ended(Q, n, status, "none"), but)
    BY <2>1, EndedTells
  <2>4. Alone(Ended(Q, n, status, "none"), but)
    BY <2>1, <2>2, AloneStays
  <2> QED
    BY <2>2, <2>3, <2>4 DEF Z, Shape
<1> HIDE DEF Z
<1>3. AllEnded(R, is, status) \in Z
  BY <1>1, <1>2, AllEndedIn
<1> QED
  BY <1>3 DEF Z

\* One more run whose command writes its row.
Besides(e, r) == [run |-> e.run, macros |-> e.macros, runs |-> e.runs, settling |-> e.settling \union {r}]

LEMMA BesidesTells ==
  ASSUME NEW e, NEW R, NEW r \in Runs, NEW but
  PROVE  /\ Tells(e, R, but) => Tells(Besides(e, r), R, but)
         /\ Tells(Besides(e, r), R, but) /\ RunTold(e, R, r) => Tells(e, R, but)
<1> DEFINE d == Besides(e, r)
<1>1. /\ d.run = e.run /\ d.macros = e.macros /\ d.runs = e.runs
      /\ \A s : s \in d.settling <=> s \in e.settling \/ s = r
  BY DEF Besides
<1> HIDE DEF d
<1>2. \A i \in Instances : Said(d, R, i, but) <=> Said(e, R, i, but)
  BY <1>1 DEF Said, Says
<1>3. \A s \in Runs : RunTold(e, R, s) => RunTold(d, R, s)
  BY <1>1 DEF RunTold
<1>4. \A s \in Runs : s # r /\ RunTold(d, R, s) => RunTold(e, R, s)
  BY <1>1 DEF RunTold
<1> QED
  BY <1>1, <1>2, <1>3, <1>4 DEF Tells, d

\* A run with a row ends, and its row is to be written.
LEMMA RunEndsTells ==
  ASSUME NEW e, NEW R, NEW T, NEW r \in Runs, NEW but, Tells(e, R, but), R.run[r].row # None,
         T.inst = R.inst, T.queue = R.queue, \A s \in Runs : s # r => T.run[s] = R.run[s],
         T.run[r].row = R.run[r].row, T.run[r].paused = R.run[r].paused,
         T.run[r].status \in {"finished", "stopped"},
         \A i \in Instances : R.inst[i].run \in Runs \union {None},
         \A n \in DOMAIN R.queue : R.queue[n].run \in Runs
  PROVE  Tells(Besides(e, r), T, but)
<1> DEFINE d == Besides(e, r)
<1>1. Tells(d, R, but)
  BY BesidesTells
<1>2. \A s \in Runs : T.run[s].row = R.run[s].row
  OBVIOUS
<1>3. r \in d.settling /\ d.run = e.run
  BY DEF Besides
<1> HIDE DEF d
<1>4. ASSUME NEW i \in Instances, i \notin but PROVE Said(d, T, i, but)
  <2>1. Said(d, R, i, but) /\ Named(R, i) /\ Plain(R.inst[i])
    BY <1>1, <1>4 DEF Tells
  <2>2. ASSUME R.inst[i].key # None
        PROVE  \A v : Says(d, T, R.inst[i].run, R.inst[i].key, v) <=> Says(d, R, R.inst[i].run, R.inst[i].key, v)
    <3>1. R.inst[i].run \in Runs
      BY <2>1, <2>2 DEF Plain
    <3> QED
      BY <1>2, <3>1, Zenon DEF Says
  <2> QED
    BY <2>1, <2>2 DEF Said
<1>5. \A i \in Instances : Plain(T.inst[i]) /\ Named(T, i)
  BY <1>1, <1>2 DEF Tells, Named
<1>6. \A s \in Runs : RunTold(d, T, s) /\ RunOn(d.run[s], T.run[s])
  <2>1. RunTold(d, T, r)
    BY <1>3 DEF RunTold
  <2>2. RunOn(d.run[r], T.run[r])
    BY <1>1 DEF Tells, RunOn
  <2>3. ASSUME NEW s \in Runs, s # r PROVE RunTold(d, T, s) /\ RunOn(d.run[s], T.run[s])
    BY <1>1, <2>3 DEF Tells, RunTold
  <2> QED
    BY <2>1, <2>2, <2>3
<1>7. \A n \in DOMAIN T.queue : T.run[T.queue[n].run].row # None
  BY <1>1, <1>2 DEF Tells
<1> QED
  BY <1>4, <1>5, <1>6, <1>7 DEF Tells, d

LEMMA QueueFacts ==
  ASSUME NEW R, Shape(R)
  PROVE  /\ R.queue \in Seq(Op) /\ \A n \in DOMAIN R.queue : R.queue[n] \in Op /\ R.queue[n].run \in Runs
         /\ \A i \in Instances : R.inst[i].run \in Runs \union {None} /\ R.inst[i].key \in Keys
<1>1. R.queue \in Seq(Op) /\ \A i \in Instances : R.inst[i] \in Instance
  BY DEF Shape, Runner
<1>2. \A n \in DOMAIN R.queue : R.queue[n] \in Op
  BY <1>1, ElementOfSeq, LenProperties
<1>3. \A op \in Op : op.run \in Runs
  BY DEF Op
<1> QED
  BY <1>1, <1>2, <1>3 DEF Instance

\* The end of a run is queued.
LEMMA EndedToldTells ==
  ASSUME NEW e, NEW R, Shape(R), NEW r \in Runs, NEW but, Tells(e, R, but), R.run[r].row # None
  PROVE  LET T == Queued(R, [op |-> "ended", run |-> r]) IN
         Tells(e, T, but) /\ \E n \in DOMAIN T.queue : T.queue[n].run = r
<1> DEFINE op == [op |-> "ended", run |-> r]
           T == Queued(R, op)
           q == Append(R.queue, op)
<1>1. op \in Op /\ op.run = r /\ \A s, k : ~About(op, s, k)
  BY DEF Op, About
<1>2. R.queue \in Seq(Op) /\ q \in Seq(Op) /\ R \in Runner
  BY <1>1, QueueFacts, AppendProperties DEF Shape
<1>3. /\ DOMAIN q = DOMAIN R.queue \union {Len(R.queue) + 1} /\ q[Len(R.queue) + 1] = op
      /\ \A n \in DOMAIN R.queue : q[n] = R.queue[n]
  BY <1>1, <1>2, QueueGrows
<1> HIDE DEF op
<1>4. T.run = R.run /\ T.inst = R.inst /\ T.queue = q
  BY <1>2 DEF Queued, Runner
<1> HIDE DEF T
<1>5. \A s \in Runs : \A k, v : Says(e, R, s, k, v) => Says(e, T, s, k, v)
  BY <1>1, <1>2, <1>4, SaysMore
<1> HIDE DEF q
<1>6. ASSUME NEW i \in Instances, i \notin but PROVE Said(e, T, i, but)
  <2>1. Said(e, R, i, but) /\ Plain(R.inst[i])
    BY <1>6 DEF Tells
  <2>2. R.inst[i].key # None =>
           \A v : Says(e, R, R.inst[i].run, R.inst[i].key, v) => Says(e, T, R.inst[i].run, R.inst[i].key, v)
    BY <1>5, <2>1, QueueFacts DEF Plain
  <2> QED
    BY <1>4, <2>1, <2>2 DEF Said
<1>7. \A s \in Runs : RunTold(e, T, s) /\ RunOn(e.run[s], T.run[s])
  BY <1>3, <1>4 DEF Tells, RunTold
<1>8. \A n \in DOMAIN T.queue : T.run[T.queue[n].run].row # None
  BY <1>1, <1>3, <1>4 DEF Tells
<1>9. \A i \in Instances : Plain(T.inst[i]) /\ Named(T, i)
  BY <1>4 DEF Tells, Named
<1> QED
  BY <1>1, <1>3, <1>4, <1>6, <1>7, <1>8, <1>9 DEF Tells, T, op

LEMMA UnsubscribedTells ==
  ASSUME NEW e, NEW R, Shape(R), NEW but, Tells(e, R, but)
  PROVE  Tells(e, Unsubscribed(R), but) /\ Unsubscribed(R).queue = R.queue /\ Unsubscribed(R).run = R.run
<1> DEFINE T == Unsubscribed(R)
<1>1. T.run = R.run /\ T.queue = R.queue /\ T.inst = R.inst
  BY DEF Unsubscribed, Shape, Runner
<1> HIDE DEF T
<1>2. Untold(R, T, but)
  BY <1>1 DEF Untold, Tells
<1> QED
  BY <1>1, <1>2, UntoldTells DEF T

LEMMA MaybeFinishedTells ==
  ASSUME NEW e, NEW R, Shape(R), NEW r \in Runs, NEW but, Tells(e, R, but), Alone(R, but),
         \A i \in Instances \intersect but : IsClient(R.inst[i]), R.run[r].row # None
  PROVE  Tells(e, MaybeFinished(R, r), but)
<1> DEFINE T == MaybeFinished(R, r)
           m == Macro(R, r)
           clients == {i \in Of(R, r) : IsClient(R.inst[i])}
           others == Of(R, r) \ clients
           Stays == \/ R.run[r].status # "armed"
                    \/ Waits(m) /\ ~IsTest(m)
                    \/ \E i \in clients : Alive(R.inst[i])
                    \/ \E i \in others : AtWork(R.inst[i])
<1>0. R \in Runner
  BY DEF Shape
<1>1. CASE Stays
  BY <1>1, Zenon DEF MaybeFinished
<1>2. CASE ~Stays
  <2> DEFINE S == [R EXCEPT !.run[r].status = "finished"]
             A == AllEnded(S, others, "stopped")
             op == [op |-> "ended", run |-> r]
             Q == IF R.run[r].row = None THEN A ELSE Queued(A, op)
             y == [R.run[r] EXCEPT !.status = "finished"]
  <2>1. T = Unsubscribed(Q)
    BY <1>2, Zenon DEF MaybeFinished
  <2>2. R.run[r].status = "armed" /\ others \subseteq Instances /\ others \intersect but = {}
    BY <1>2 DEF Of
  <2>3. /\ Shape(S) /\ S.inst = R.inst /\ S.queue = R.queue
        /\ S.run[r] = y /\ \A s \in Runs : s # r => S.run[s] = R.run[s]
        /\ y.row = R.run[r].row /\ y.paused = R.run[r].paused /\ y.status = "finished"
    <3>1. R.run[r] \in Run
      BY <1>0 DEF Runner
    <3>2. y \in Run /\ y.row = R.run[r].row /\ y.paused = R.run[r].paused /\ y.status = "finished"
      BY <3>1 DEF Run, RunStatuses
    <3>3. S = [R EXCEPT !.run[r] = y]
      BY <1>0 DEF Runner
    <3> HIDE DEF y, S
    <3>4. S.queue = R.queue
      BY <1>0, <3>3 DEF Runner
    <3> QED
      BY <3>2, <3>3, <3>4, PutRun
  <2> HIDE DEF S, y, others, Stays
  <2>4. Tells(Besides(e, r), S, but) /\ Alone(S, but) /\ S.run[r].row # None
    <3>1. /\ \A i \in Instances : R.inst[i].run \in Runs \union {None}
          /\ \A n \in DOMAIN R.queue : R.queue[n].run \in Runs
      BY QueueFacts
    <3> QED
      BY <2>3, <3>1, RunEndsTells DEF Alone
  <2>5. Tells(Besides(e, r), A, but) /\ Shape(A) /\ A.run = S.run
    <3>1. "stopped" \in Ends
      BY DEF Ends
    <3>2. Shape(A) /\ EndsOf(S, A, others, "none")
      BY <2>2, <2>3, <3>1, AllEndedEnds
    <3>3. Tells(Besides(e, r), A, but)
      BY <2>2, <2>3, <2>4, <3>1, AllEndedTells
    <3> QED
      BY <3>2, <3>3 DEF EndsOf
  <2> HIDE DEF A
  <2>6. Q = Queued(A, op)
    BY Zenon
  <2>7. Tells(Besides(e, r), Q, but) /\ Shape(Q) /\ \E n \in DOMAIN Q.queue : Q.queue[n].run = r
    <3>1. op \in Op
      BY DEF Op
    <3> QED
      <4>1. Tells(Besides(e, r), Q, but) /\ \E n \in DOMAIN Q.queue : Q.queue[n].run = r
        BY <2>4, <2>5, <2>6, EndedToldTells
      <4>2. Shape(Q)
        BY <2>5, <2>6, <3>1, QueuedKeeps
      <4> QED
        BY <4>1, <4>2
  <2> HIDE DEF Q
  <2>8. Tells(Besides(e, r), T, but) /\ \E n \in DOMAIN T.queue : T.queue[n].run = r
    BY <2>1, <2>7, UnsubscribedTells
  <2> HIDE DEF T
  <2> QED
    BY <2>8, BesidesTells DEF RunTold, T
<1> QED
  BY <1>1, <1>2

LEMMA FinishTells ==
  ASSUME NEW e, NEW R, Shape(R), NEW i \in Instances, R.inst[i].run # None, NEW status \in Ends, NEW f,
         f = "main" => R.inst[i].flow["main"].pc # "sent",
         NEW but, i \notin but, Tells(e, R, but), Alone(R, but), \A j \in Instances \intersect but : IsClient(R.inst[j])
  PROVE  Tells(e, Finish(R, i, status, f), but)
<1> DEFINE r == R.inst[i].run
           E == Ended(R, i, status, f)
<1>1. r \in Runs
  BY DEF Shape, Runner, Instance
<1>2. Shape(E) /\ EndsOf(R, E, {i}, f) /\ Tells(e, E, but)
  BY EndedEnds, EndedTells
<1> HIDE DEF E
<1>3. Alone(E, but)
  BY <1>2, AloneStays
<1>4. \A j \in Instances \intersect but : IsClient(E.inst[j])
  BY <1>2 DEF EndsOf
<1>5. E.run[r].row # None
  BY <1>2 DEF EndsOf, Tells, Named
<1> HIDE DEF r
<1>6. Tells(e, MaybeFinished(E, r), but)
  BY <1>1, <1>2, <1>3, <1>4, <1>5, MaybeFinishedTells
<1>7. Finish(R, i, status, f) = MaybeFinished(E, r)
  BY Zenon DEF Finish, E, r
<1> QED
  BY <1>6, <1>7

\* A live macro whose status, order or place changed tells so.
LEMMA ChangedTells ==
  ASSUME NEW e, NEW R, Shape(R), NEW i \in Instances, Tells(e, R, {i}), Alone(R, {}),
         LET x == R.inst[i] IN
         /\ Alive(x) /\ x.run # None
         /\ x.key = None => x.told = << >>
         /\ x.key # None /\ x.told = << x.key, x.status >> => Says(e, R, x.run, x.key, x.status)
  PROVE  Tells(e, Changed(R, i), {})
<1> DEFINE S == Told(R, i)
           T == Changed(R, i)
<1>1. Alike(R, S) /\ Shape(S)
  BY ToldKeeps
<1>2. Tells(e, S, {})
  <2>1. {} \union {i} = {i}
    OBVIOUS
  <2>2. \A j \in Instances : j # i /\ j \notin {} /\ Alive(R.inst[j]) /\ R.inst[j].key # None
                             => R.inst[j].key # R.inst[i].key
    BY DEF Alone
  <2> QED
    BY <2>1, <2>2, ToldTells
<1> HIDE DEF S
<1>3. \A j \in Instances : S.inst[j].key = R.inst[j].key /\ S.inst[j].run = R.inst[j].run /\ (Alive(S.inst[j]) <=> Alive(R.inst[j]))
  BY <1>1 DEF Alike, Twin, Alive
<1>4. Alone(S, {})
  BY <1>3 DEF Alone
<1>5. S.inst[i].run \in Runs /\ S.run[S.inst[i].run].row # None
  BY <1>1, <1>2, <1>3, QueueFacts DEF Tells, Named
<1>6. T = IF S.inst[i].status = "listening" THEN MaybeFinished(S, S.inst[i].run) ELSE S
  BY Zenon DEF Changed, S
<1> HIDE DEF T
<1>7. Tells(e, MaybeFinished(S, S.inst[i].run), {})
  BY <1>1, <1>2, <1>4, <1>5, MaybeFinishedTells
<1> QED
  BY <1>2, <1>6, <1>7 DEF T

LEMMA FlowOverTells ==
  ASSUME NEW e, NEW R, Shape(R), NEW i \in Instances, NEW f \in Flows, Tells(e, R, {}), Alone(R, {}),
         LET x == R.inst[i] IN f = "main" /\ Alive(x) /\ x.key # None => x.told # << >>
  PROVE  Tells(e, FlowOver(R, i, f), {})
<1> DEFINE x == R.inst[i]
           y == [x EXCEPT !.flow[f] = NoFlow]
           S == [R EXCEPT !.inst[i] = y]
           Over1 == Alive(S.inst[i]) /\ FlowsOf(S.inst[i]) = {}
           T == FlowOver(R, i, f)
<1>0. R \in Runner /\ x \in Instance /\ InstOK(x) /\ NoFlow \in Flow
  BY DEF Shape, Runner, NoFlow, Flow, Places
<1>1. T = IF Over1 THEN MaybeFinished(S, S.inst[i].run) ELSE S
  <2>1. [R EXCEPT !.inst[i].flow[f] = NoFlow] = S
    BY <1>0 DEF Runner, Instance
  <2> QED
    BY <2>1, Zenon DEF FlowOver
<1>2. /\ y \in Instance /\ y.run = x.run /\ y.block = x.block /\ y.key = x.key /\ y.status = x.status
      /\ y.made = x.made /\ y.told = x.told
      /\ y.flow[f] = NoFlow /\ \A h \in Flows : h # f => y.flow[h] = x.flow[h]
  BY <1>0 DEF Instance
<1>3. InstOK(y)
  <2>1. NoFlow.pc = "off" /\ NoFlow.busy = FALSE
    BY DEF NoFlow
  <2>2. \A h \in Flows : y.flow[h] = NoFlow \/ y.flow[h] = x.flow[h]
    BY <1>2
  <2>3. "main" \in Flows
    BY DEF Flows
  <2> QED
    BY <1>0, <1>2, <2>1, <2>2, <2>3 DEF InstOK, AtRest
<1>4. Plain(y)
  <2>1. NoFlow.pc = "off" /\ NoFlow.doomed = FALSE
    BY DEF NoFlow
  <2>2. \A h \in Flows : y.flow[h] = NoFlow \/ y.flow[h] = x.flow[h]
    BY <1>2
  <2>3. Plain(x)
    BY DEF Tells
  <2> HIDE DEF y
  <2> QED
    BY <1>2, <2>1, <2>2, <2>3 DEF Plain, Alive, IsGenerator, IsClient
<1> HIDE DEF y
<1>5. /\ S \in Runner /\ S.run = R.run /\ S.queue = R.queue /\ S.owner = R.owner
      /\ S.inst[i] = y /\ \A j \in Instances : j # i => S.inst[j] = R.inst[j]
  BY <1>0, <1>2 DEF Runner
<1> HIDE DEF S, T
<1>6. \A o \in Orders : R.owner[o] \in Instances \union {None}
  BY <1>0 DEF Runner
<1>7. Shape(S)
  BY <1>2, <1>3, <1>5, <1>6 DEF Shape
<1>8. "main" \in Flows
  BY DEF Flows
<1>9. Untold(R, S, {})
  BY <1>2, <1>4, <1>5, <1>8 DEF Untold, Tells
<1>10. Tells(e, S, {})
  BY <1>9, UntoldTells
<1>11. Alone(S, {})
  BY <1>2, <1>5 DEF Alone, Alive
<1>12. CASE Over1
  <2>1. S.inst[i].run \in Runs /\ S.run[S.inst[i].run].row # None
    <3>1. S.inst[i].run # None
      BY <1>2, <1>3, <1>5, <1>12 DEF InstOK, Alive
    <3> QED
      BY <1>7, <1>10, <3>1, QueueFacts DEF Tells, Named
  <2> QED
    BY <1>1, <1>7, <1>10, <1>11, <1>12, <2>1, MaybeFinishedTells DEF T
<1>13. CASE ~Over1
  BY <1>1, <1>10, <1>13 DEF T
<1> QED
  BY <1>12, <1>13

\* One macro changes in nothing that is told.
LEMMA PutTells ==
  ASSUME NEW e, NEW R, NEW T, NEW i \in Instances, NEW but, Tells(e, R, but),
         T.run = R.run, T.queue = R.queue, \A j \in Instances : j # i => T.inst[j] = R.inst[j],
         LET x == R.inst[i] y == T.inst[i] IN
         /\ y.run = x.run /\ y.key = x.key /\ y.status = x.status /\ y.told = x.told /\ Plain(y)
         /\ i \notin but /\ x.told = << >> => (x.flow["main"].busy => y.flow["main"].busy)
  PROVE  Tells(e, T, but)
<1>1. Untold(R, T, but)
  BY DEF Untold, Tells
<1> QED
  BY <1>1, UntoldTells

\* A flow goes elsewhere: the main one only to be busy, or to tell of it.
LEMMA FlowPutTells ==
  ASSUME NEW e, NEW R, Shape(R), NEW i \in Instances, NEW f \in Flows, NEW g \in Flow, NEW but, Tells(e, R, but),
         g.doomed = R.inst[i].flow[f].doomed, f = "main" /\ i \notin but => g.busy,
         g.pc \in {"send", "sent"} => IsClient(R.inst[i]) /\ ~IsGenerator(R.inst[i])
  PROVE  LET T == [R EXCEPT !.inst[i].flow[f] = g] IN
         /\ Tells(e, T, but) /\ T.queue = R.queue /\ T.run = R.run
         /\ \A j \in Instances : /\ T.inst[j].key = R.inst[j].key /\ T.inst[j].run = R.inst[j].run
                                 /\ T.inst[j].status = R.inst[j].status /\ T.inst[j].told = R.inst[j].told
                                 /\ T.inst[j].block = R.inst[j].block
<1> DEFINE x == R.inst[i]
           y == [x EXCEPT !.flow[f] = g]
           T == [R EXCEPT !.inst[i] = y]
<1>0. R \in Runner /\ x \in Instance
  BY DEF Shape, Runner
<1>1. [R EXCEPT !.inst[i].flow[f] = g] = T
  BY <1>0 DEF Runner, Instance
<1>2. /\ y.run = x.run /\ y.block = x.block /\ y.key = x.key /\ y.status = x.status /\ y.told = x.told
      /\ \A h \in Flows : y.flow[h] = IF h = f THEN g ELSE x.flow[h]
  BY <1>0 DEF Instance
<1> HIDE DEF y
<1>3. T.run = R.run /\ T.queue = R.queue /\ T.inst[i] = y /\ \A j \in Instances : j # i => T.inst[j] = R.inst[j]
  BY <1>0 DEF Runner
<1> HIDE DEF T
<1>4. Plain(y)
  <2>1. Plain(x)
    BY DEF Tells
  <2> QED
    BY <1>2, <2>1 DEF Plain, Alive, IsClient, IsGenerator
<1>5. i \notin but => (x.flow["main"].busy => y.flow["main"].busy)
  BY <1>2 DEF Flows
<1>6. Tells(e, T, but)
  BY <1>2, <1>3, <1>4, <1>5, PutTells
<1> QED
  BY <1>1, <1>2, <1>3, <1>6

LEMMA TaskTells ==
  ASSUME NEW e, NEW R, Shape(R), NEW i \in Instances, NEW f \in Flows, R.inst[i].flow[f].pc \in AtTask,
         NEW pc \in AtTask, Tells(e, R, {}),
         pc \in {"send", "sent"} => IsClient(R.inst[i]) /\ ~IsGenerator(R.inst[i])
  PROVE  Tells(e, [R EXCEPT !.inst[i].flow[f].pc = pc], {})
<1> DEFINE x == R.inst[i]
           g == [x.flow[f] EXCEPT !.pc = pc]
<1>0. R \in Runner /\ x \in Instance /\ InstOK(x)
  BY DEF Shape, Runner
<1>1. x.flow[f] \in Flow /\ x.flow[f].busy = TRUE
  BY <1>0 DEF Instance, InstOK, AtTask, AtRest, Flow
<1>2. g \in Flow /\ g.pc = pc /\ g.busy = TRUE /\ g.doomed = x.flow[f].doomed
  BY <1>1 DEF Flow, AtTask
<1>3. [R EXCEPT !.inst[i].flow[f].pc = pc] = [R EXCEPT !.inst[i].flow[f] = g]
  BY <1>0 DEF Runner, Instance
<1> HIDE DEF g
<1> QED
  BY <1>2, <1>3, FlowPutTells

LEMMA AtNextTells ==
  ASSUME NEW e, NEW R, Shape(R), NEW i \in Instances, NEW f \in Flows, R.inst[i].flow[f].pc \in AtTask,
         Tells(e, R, {})
  PROVE  Tells(e, AtNext(R, i, f), {})
<1>1. "line" \in AtTask /\ "line" \notin {"send", "sent"}
  BY DEF AtTask, Places, AtRest
<1>2. AtNext(R, i, f) = [R EXCEPT !.inst[i].flow[f].pc = "line"]
  BY DEF AtNext
<1> QED
  BY <1>1, <1>2, TaskTells

\* Of a macro that is about to tell less is asked.
LEMMA TellsLess ==
  ASSUME NEW e, NEW R, NEW but, Tells(e, R, {})
  PROVE  Tells(e, R, but)
<1>1. \A i \in Instances : Said(e, R, i, {}) => Said(e, R, i, but)
  BY DEF Said
<1> QED
  BY <1>1 DEF Tells

LEMMA ParkedTells ==
  ASSUME NEW e, NEW R, Sound(R), NEW i \in Instances, NEW f \in Flows, R.inst[i].flow[f].pc \in AtTask,
         Alive(R.inst[i]), NEW pc \in {"parked", "gated"}, Tells(e, R, {})
  PROVE  Tells(e, Parked(R, i, f, pc), {})
<1> DEFINE x == R.inst[i]
           g == [x.flow[f] EXCEPT !.pc = pc, !.busy = FALSE]
           S == [R EXCEPT !.inst[i].flow[f] = g]
<1>0. Shape(R) /\ R \in Runner /\ x \in Instance /\ InstOK(x)
  BY DEF Sound, SoundBut, Shape, Runner
<1>1. x.flow[f] \in Flow /\ x.flow[f].pc # "off"
  BY <1>0 DEF Instance, AtTask, AtRest, Flow
<1>2. g \in Flow /\ g.pc = pc /\ g.busy = FALSE /\ g.doomed = x.flow[f].doomed
  BY <1>1 DEF Flow, Places
<1>3. Parked(R, i, f, pc) = IF f = "main" THEN Changed(S, i) ELSE S
  BY Zenon DEF Parked
<1> HIDE DEF g
<1>4. g.pc # "off" /\ (g.busy <=> g.pc \notin AtRest) /\ g.pc \notin {"send", "sent"}
  BY <1>2 DEF AtRest
<1>5. Shape(S)
  BY <1>0, <1>1, <1>2, <1>4, FlowPut DEF Moved
<1>6. CASE f # "main"
  <2>1. Tells(e, S, {})
    BY <1>0, <1>2, <1>4, <1>6, FlowPutTells
  <2> QED
    BY <1>3, <1>6, <2>1
<1>7. CASE f = "main"
  <2>1. Tells(e, R, {i})
    BY TellsLess
  <2>2. /\ Tells(e, S, {i}) /\ S.queue = R.queue /\ S.run = R.run
        /\ \A j \in Instances : /\ S.inst[j].key = R.inst[j].key /\ S.inst[j].run = R.inst[j].run
                                /\ S.inst[j].status = R.inst[j].status /\ S.inst[j].told = R.inst[j].told
    BY <1>0, <1>2, <1>4, <2>1, FlowPutTells
  <2> HIDE DEF S
  <2>3. Alone(S, {})
    <3>1. Alone(R, {})
      BY OwnersAlone DEF Sound, SoundBut
    <3> QED
      BY <2>2, <3>1 DEF Alone, Alive
  <2>4. /\ Alive(x) /\ x.run # None /\ (x.key = None => x.told = << >>)
        /\ x.key # None /\ x.told = << x.key, x.status >> => Says(e, R, x.run, x.key, x.status)
    <3>1. Said(e, R, i, {})
      BY DEF Tells
    <3>2. x.run # None
      BY <1>0 DEF InstOK, Alive
    <3>3. \A a, b : << a, b >> # << >>
      OBVIOUS
    <3> QED
      BY <3>1, <3>2, <3>3 DEF Said
  <2>5. LET y == S.inst[i] IN
        /\ Alive(y) /\ y.run # None /\ (y.key = None => y.told = << >>)
        /\ y.key # None /\ y.told = << y.key, y.status >> => Says(e, S, y.run, y.key, y.status)
    BY <2>2, <2>4, Zenon DEF Alive, Says
  <2>6. Tells(e, Changed(S, i), {})
    BY <1>5, <2>2, <2>3, <2>5, ChangedTells
  <2> QED
    BY <1>3, <1>7, <2>6
<1> QED
  BY <1>6, <1>7

\* Macros are stirred.
LEMMA StirsTells ==
  ASSUME NEW e, NEW R, NEW T, Stirs(R, T), Tells(e, R, {}), T.queue = R.queue,
         \A i \in Instances : T.inst[i].told = R.inst[i].told
  PROVE  Tells(e, T, {})
<1>1. ASSUME NEW i \in Instances
      PROVE  LET x == R.inst[i] y == T.inst[i] IN
             /\ y.run = x.run /\ y.key = x.key /\ y.status = x.status /\ Plain(y)
             /\ x.flow["main"].busy => y.flow["main"].busy
  <2> DEFINE x == R.inst[i]
             y == T.inst[i]
  <2>1. Plain(x) /\ Stirred(x, y)
    BY DEF Tells, Stirs
  <2>2. \A f \in Flows : \/ y.flow[f] = x.flow[f]
                         \/ /\ y.flow[f].pc \notin {"send", "sent"} /\ ~y.flow[f].doomed
                            /\ f = "main" => y.flow[f].busy
    <3> SUFFICES ASSUME NEW f \in Flows, y.flow[f] # x.flow[f]
                 PROVE  y.flow[f].pc \notin {"send", "sent"} /\ ~y.flow[f].doomed /\ (f = "main" => y.flow[f].busy)
      OBVIOUS
    <3>1. CASE ~x.flow[f].doomed /\ y.flow[f] = Woken(x.flow[f])
      <4> QED
        BY <3>1 DEF Woken
    <3>2. CASE f = "when" /\ y.flow[f] = Spawned
      BY <3>2 DEF Spawned
    <3> QED
      BY <2>1, <3>1, <3>2 DEF Stirred
  <2>3. "main" \in Flows
    BY DEF Flows
  <2> HIDE DEF x, y
  <2>4. Plain(y)
    BY <2>1, <2>2 DEF Plain, Stirred, Alive, IsClient, IsGenerator
  <2> QED
    BY <2>1, <2>2, <2>3, <2>4 DEF Stirred, x, y
<1>2. Untold(R, T, {})
  BY <1>1 DEF Untold, Stirs
<1> QED
  BY <1>2, UntoldTells

LEMMA DeliveredTells ==
  ASSUME NEW e, NEW R, Shape(R), NEW is, NEW wakes \in BOOLEAN, Tells(e, R, {})
  PROVE  Tells(e, Delivered(R, is, wakes), {})
<1> DEFINE T == Delivered(R, is, wakes)
<1>1. Stirs(R, T)
  BY DeliveredStirs
<1>2. R \in Runner /\ \A i \in Instances : R.inst[i] \in Instance
  BY DEF Shape, Runner
<1>3. T.queue = R.queue /\ \A i \in Instances : T.inst[i].told = R.inst[i].told
  BY <1>2 DEF Delivered, Runner, Instance
<1> HIDE DEF T
<1> QED
  BY <1>1, <1>3, StirsTells DEF T

LEMMA OpenedTells ==
  ASSUME NEW e, NEW R, Shape(R), NEW r, Tells(e, R, {})
  PROVE  Tells(e, Opened(R, r), {})
<1> DEFINE T == Opened(R, r)
<1>1. Stirs(R, T)
  BY OpenedStirs
<1>2. R \in Runner /\ \A i \in Instances : R.inst[i] \in Instance
  BY DEF Shape, Runner
<1>3. T.queue = R.queue /\ \A i \in Instances : T.inst[i].told = R.inst[i].told
  BY <1>2 DEF Opened, Runner, Instance
<1> HIDE DEF T
<1> QED
  BY <1>1, <1>3, StirsTells DEF T

\* What a run's end leaves of its macros: those that sent, and some that did not end.
Left(R, T) ==
    \A j \in Instances :
       \/ T.inst[j] = R.inst[j]
       \/ /\ ~Alive(T.inst[j]) /\ ~IsClient(R.inst[j])
          /\ T.inst[j].run = R.inst[j].run /\ T.inst[j].key = R.inst[j].key

LEMMA MaybeFinishedLeaves ==
  ASSUME NEW R, Shape(R), NEW r \in Runs
  PROVE  Left(R, MaybeFinished(R, r))
<1> DEFINE T == MaybeFinished(R, r)
           m == Macro(R, r)
           clients == {i \in Of(R, r) : IsClient(R.inst[i])}
           others == Of(R, r) \ clients
           Stays == \/ R.run[r].status # "armed"
                    \/ Waits(m) /\ ~IsTest(m)
                    \/ \E i \in clients : Alive(R.inst[i])
                    \/ \E i \in others : AtWork(R.inst[i])
<1>0. R \in Runner
  BY DEF Shape
<1>1. CASE Stays
  <2>1. T = R
    BY <1>1, Zenon DEF MaybeFinished
  <2> QED
    BY <2>1 DEF Left
<1>2. CASE ~Stays
  <2> DEFINE S == [R EXCEPT !.run[r].status = "finished"]
             A == AllEnded(S, others, "stopped")
             op == [op |-> "ended", run |-> r]
             Q == IF R.run[r].row = None THEN A ELSE Queued(A, op)
             y == [R.run[r] EXCEPT !.status = "finished"]
  <2>1. T = Unsubscribed(Q)
    BY <1>2, Zenon DEF MaybeFinished
  <2>2. others \subseteq Instances /\ \A j \in others : ~IsClient(R.inst[j])
    BY DEF Of
  <2>3. Shape(S) /\ S.inst = R.inst
    <3>1. R.run[r] \in Run
      BY <1>0 DEF Runner
    <3>2. y \in Run
      BY <3>1 DEF Run, RunStatuses
    <3>3. S = [R EXCEPT !.run[r] = y]
      BY <1>0 DEF Runner
    <3> HIDE DEF y, S
    <3> QED
      BY <3>2, <3>3, PutRun
  <2> HIDE DEF S, y, others, Stays
  <2>4. Shape(A) /\ EndsOf(S, A, others, "none")
    BY <2>2, <2>3, AllEndedEnds DEF Ends
  <2> HIDE DEF A
  <2>5. T.inst = A.inst
    <3>1. A \in Runner
      BY <2>4 DEF Shape
    <3>2. Q.inst = A.inst /\ (Q = A \/ Q = Queued(A, op))
      BY <3>1 DEF Queued, Runner
    <3>3. Unsubscribed(Q).inst = Q.inst
      BY <3>1, <3>2 DEF Unsubscribed, Queued, Runner
    <3> QED
      BY <2>1, <3>2, <3>3
  <2> HIDE DEF T
  <2>6. Left(R, T)
    BY <2>2, <2>3, <2>4, <2>5 DEF Left, EndsOf, Over, Alive, Ends
  <2> QED
    BY <2>6 DEF T
<1> QED
  BY <1>1, <1>2

\* A macro that finishes is over, and of the others those that sent stay as they are.
LEMMA FinishLeaves ==
  ASSUME NEW R, Shape(R), NEW i \in Instances, R.inst[i].run # None, NEW status \in Ends, NEW f,
         f = "main" => R.inst[i].flow["main"].pc # "sent"
  PROVE  LET T == Finish(R, i, status, f) IN
         /\ ~Alive(T.inst[i])
         /\ \A j \in Instances : T.inst[j].run = R.inst[j].run /\ T.inst[j].key = R.inst[j].key
                                 /\ (Alive(T.inst[j]) => Alive(R.inst[j]))
                                 /\ (j # i /\ IsClient(R.inst[j]) => T.inst[j] = R.inst[j])
<1> DEFINE r == R.inst[i].run
           E == Ended(R, i, status, f)
           T == MaybeFinished(E, r)
<1>1. r \in Runs
  BY DEF Shape, Runner, Instance
<1>2. Shape(E) /\ EndsOf(R, E, {i}, f)
  BY EndedEnds
<1> HIDE DEF E
<1>3. Left(E, T)
  BY <1>1, <1>2, MaybeFinishedLeaves
<1>4. Finish(R, i, status, f) = T
  BY Zenon DEF Finish, T, E, r
<1> HIDE DEF T, r
<1>5. /\ ~Alive(E.inst[i]) /\ \A j \in Instances : E.inst[j].run = R.inst[j].run /\ E.inst[j].key = R.inst[j].key
      /\ \A j \in Instances : Alive(E.inst[j]) => Alive(R.inst[j])
      /\ \A j \in Instances : j # i => E.inst[j] = R.inst[j]
  BY <1>2 DEF EndsOf, Over, Alive, Ends
<1> QED
  BY <1>3, <1>4, <1>5 DEF Left

\* A macro that holds an order and has changed has told so.
LEMMA ChangedTold ==
  ASSUME NEW R, Shape(R), NEW i \in Instances, R.inst[i].run # None,
         R.run[R.inst[i].run].row # None, Plain(R.inst[i])
  PROVE  LET y == Changed(R, i).inst[i] IN
         Alive(y) /\ y.key # None => y.told # << >>
<1> DEFINE S == Told(R, i)
           T == Changed(R, i)
           x == R.inst[i]
           op == [op |-> "macro", run |-> x.run, key |-> IF x.key = None THEN -i ELSE x.key, status |-> x.status]
<1>0. R \in Runner /\ x \in Instance /\ \A a, b : << a, b >> # << >>
  BY DEF Shape, Runner
<1>1. Shape(S) /\ Alike(R, S)
  BY ToldKeeps
<1>2. x.key # None => S.inst[i].told # << >>
  <2> SUFFICES ASSUME x.key # None PROVE S.inst[i].told # << >>
    OBVIOUS
  <2>1. ~IsGenerator(x)
    BY DEF Plain
  <2>2. CASE x.told = << x.key, x.status >>
    <3>1. S = R
      BY <2>2, Zenon DEF Told
    <3> QED
      BY <1>0, <2>2, <3>1
  <2>3. CASE x.told # << x.key, x.status >>
    <3>1. S = [Queued(R, op) EXCEPT !.inst[i].told = << x.key, x.status >>]
      BY <2>1, <2>3, Zenon DEF Told
    <3>2. S.inst[i].told = << x.key, x.status >>
      BY <1>0, <3>1 DEF Queued, Runner, Instance
    <3> QED
      BY <1>0, <3>2
  <2> QED
    BY <2>2, <2>3
<1> HIDE DEF S
<1>3. S.inst[i].key = x.key /\ S.inst[i].run = x.run /\ x.run \in Runs
  BY <1>0, <1>1 DEF Alike, Twin, Instance
<1>4. T = IF S.inst[i].status = "listening" THEN MaybeFinished(S, S.inst[i].run) ELSE S
  BY Zenon DEF Changed, S
<1>5. Left(S, MaybeFinished(S, S.inst[i].run))
  BY <1>1, <1>3, MaybeFinishedLeaves
<1> HIDE DEF T
<1>6. T.inst[i] = S.inst[i] \/ ~Alive(T.inst[i])
  BY <1>4, <1>5 DEF Left
<1> QED
  BY <1>2, <1>3, <1>6 DEF T

\* A macro holds the row it sent, and who held it tells what became of it.
LEMMA BindTells ==
  ASSUME NEW e, NEW R, Sound(R), NEW i \in Instances, NEW o \in Orders, Tells(e, R, {}),
         Alive(R.inst[i]), R.inst[i].key = None, R.inst[i].flow["main"].pc # "send",
         IsClient(R.inst[i]), ~IsGenerator(R.inst[i])
  PROVE  Tells(e, Bind(R, i, o), {})
<1> DEFINE x == R.inst[i]
           y == [x EXCEPT !.key = o]
           S == [R EXCEPT !.inst[i] = y, !.owner[o] = i]
           before == R.owner[o]
           U == IF before \in {None, i} THEN S ELSE Finish(S, before, "detached", "none")
           T == Changed(U, i)
<1>0. /\ Shape(R) /\ Owns(R) /\ R \in Runner /\ x \in Instance /\ InstOK(x) /\ i # None /\ o # None
      /\ \A p \in Orders : R.owner[p] \in Instances \union {None}
  <2>1. MaxMacros \in Nat /\ MaxRows \in Nat
    BY MacroRunsAssumption
  <2>2. i # None /\ o # None
    BY <2>1 DEF Instances, Orders, None
  <2>3. Shape(R) /\ Owns(R) /\ R \in Runner /\ x \in Instance /\ InstOK(x)
    BY DEF Sound, SoundBut, Shape, Runner
  <2>4. \A p \in Orders : R.owner[p] \in Instances \union {None}
    BY <2>3 DEF Runner
  <2> QED
    BY <2>2, <2>3, <2>4
<1>1. Bind(R, i, o) = T
  <2>1. [R EXCEPT !.inst[i].key = o, !.owner[o] = i] = S
    BY <1>0 DEF Runner
  <2> QED
    BY <2>1, Zenon DEF Bind
<1>2. /\ y \in Instance /\ y.run = x.run /\ y.block = x.block /\ y.key = o /\ y.status = x.status
      /\ y.made = x.made /\ y.flow = x.flow /\ y.told = x.told
  BY <1>0 DEF Instance, Keys
<1>3. x.run # None /\ x.told = << >> /\ Plain(x) /\ Named(R, i)
  BY <1>0 DEF InstOK, Alive, Tells, Said
<1> HIDE DEF y
<1>4. InstOK(y) /\ Plain(y)
  BY <1>0, <1>2, <1>3 DEF InstOK, Plain, IsGenerator, IsClient, Alive
<1>5. /\ S \in Runner /\ S.run = R.run /\ S.queue = R.queue
      /\ S.owner[o] = i /\ \A p \in Orders : p # o => S.owner[p] = R.owner[p]
      /\ S.inst[i] = y /\ \A j \in Instances : j # i => S.inst[j] = R.inst[j]
  BY <1>0, <1>2 DEF Runner
<1> HIDE DEF S
<1>6. Shape(S)
  <2>1. \A j \in Instances : S.inst[j].run = R.inst[j].run /\ InstOK(S.inst[j])
    BY <1>0, <1>2, <1>4, <1>5 DEF Shape
  <2>2. \A p \in Orders : S.owner[p] # None => S.inst[S.owner[p]].run # None
    BY <1>0, <1>3, <1>5, <2>1 DEF Shape
  <2> QED
    BY <1>5, <2>1, <2>2 DEF Shape
<1>7. Tells(e, S, {i})
  <2>1. \A r, k, v : Says(e, S, r, k, v) <=> Says(e, R, r, k, v)
    BY <1>5 DEF Says
  <2>2. ASSUME NEW j \in Instances, j \notin {i} PROVE Said(e, S, j, {i})
    <3> DEFINE z == R.inst[j]
    <3>1. S.inst[j] = z /\ Said(e, R, j, {})
      BY <1>5, <2>2 DEF Tells
    <3>2. ASSUME ~Alive(z), z.key # None
          PROVE  \E k \in Instances : /\ SameRow(z, S.inst[k])
                                      /\ k \in {i} \/ Alive(S.inst[k]) \/ Says(e, S, z.run, z.key, S.inst[k].status)
      <4>1. PICK k \in Instances : /\ SameRow(z, R.inst[k])
                                   /\ Alive(R.inst[k]) \/ Says(e, R, z.run, z.key, R.inst[k].status)
        BY <3>1, <3>2 DEF Said
      <4>2. k # i /\ S.inst[k] = R.inst[k]
        BY <1>5, <3>2, <4>1 DEF SameRow
      <4> QED
        BY <2>1, <4>1, <4>2
    <3> QED
      BY <2>1, <3>1, <3>2 DEF Said
  <2>3. \A j \in Instances : Plain(S.inst[j]) /\ Named(S, j)
    BY <1>2, <1>4, <1>5 DEF Tells, Named
  <2>4. \A r \in Runs : RunTold(e, S, r) /\ RunOn(e.run[r], S.run[r])
    BY <1>5 DEF Tells, RunTold
  <2>5. \A n \in DOMAIN S.queue : S.run[S.queue[n].run].row # None
    BY <1>5 DEF Tells
  <2> QED
    BY <2>2, <2>3, <2>4, <2>5 DEF Tells
<1>8. /\ \A j \in Instances : Alive(R.inst[j]) /\ R.inst[j].key = o => j = before
      /\ Alone(R, {})
  BY <1>0, OwnersAlone DEF Owns
<1>9. Alone(S, {i})
  BY <1>5, <1>8 DEF Alone
<1>10. /\ Shape(U) /\ Tells(e, U, {i}) /\ U.inst[i] = y
       /\ \A j \in Instances : Alive(U.inst[j]) => j = i \/ (Alive(R.inst[j]) /\ U.inst[j].key = R.inst[j].key /\ j # before)
  <2>1. CASE before \in {None, i}
    <3>1. U = S
      BY <2>1
    <3>2. \A j \in Instances : j # None
      BY MacroRunsAssumption DEF Instances, None
    <3> HIDE DEF U
    <3> QED
      BY <1>5, <1>6, <1>7, <2>1, <3>1, <3>2
  <2>2. CASE before \notin {None, i}
    <3>1. U = Finish(S, before, "detached", "none")
      BY <2>2
    <3>2. before \in Instances /\ before # i /\ before \notin {i}
      BY <1>0, <2>2
    <3>3. S.inst[before].run # None /\ "detached" \in Ends
      BY <1>0, <1>5, <2>2, <3>2 DEF Shape, Ends
    <3>4. \A j \in Instances \intersect {i} : IsClient(S.inst[j])
      BY <1>2, <1>5 DEF IsClient
    <3> HIDE DEF before, U
    <3>5. "none" = "main" => S.inst[before].flow["main"].pc # "sent"
      OBVIOUS
    <3>6. Tells(e, U, {i})
      BY <1>6, <1>7, <1>9, <3>1, <3>2, <3>3, <3>4, <3>5, FinishTells
    <3>7. Shape(U)
      BY <1>6, <3>1, <3>2, <3>3, <3>5, FinishKeeps
    <3>8. /\ ~Alive(U.inst[before])
          /\ \A j \in Instances : U.inst[j].key = S.inst[j].key /\ (Alive(U.inst[j]) => Alive(S.inst[j]))
                                  /\ (j # before /\ IsClient(S.inst[j]) => U.inst[j] = S.inst[j])
      BY <1>6, <3>1, <3>2, <3>3, <3>5, FinishLeaves
    <3> QED
      BY <1>5, <3>2, <3>4, <3>6, <3>7, <3>8
  <2> QED
    BY <2>1, <2>2
<1> HIDE DEF U
<1>11. Alone(U, {})
  <2> SUFFICES ASSUME NEW j \in Instances, NEW k \in Instances, j # k, Alive(U.inst[j]), Alive(U.inst[k]),
                      U.inst[j].key # None
               PROVE  U.inst[j].key # U.inst[k].key
    BY DEF Alone
  <2> HIDE DEF before, x
  <2>1. CASE j # i /\ k # i
    BY <1>8, <1>10, <2>1 DEF Alone
  <2>2. CASE j = i
    BY <1>2, <1>8, <1>10, <2>2
  <2>3. CASE k = i
    BY <1>2, <1>8, <1>10, <2>3
  <2> QED
    BY <2>1, <2>2, <2>3
<1>12. Tells(e, T, {})
  <2>1. \A a, b : << a, b >> # << >>
    OBVIOUS
  <2>2. Alive(y) /\ y.run # None /\ y.key # None /\ y.told = << >>
    BY <1>0, <1>2, <1>3 DEF Alive
  <2>3. LET z == U.inst[i] IN
        /\ Alive(z) /\ z.run # None
        /\ z.key = None => z.told = << >>
        /\ z.key # None /\ z.told = << z.key, z.status >> => Says(e, U, z.run, z.key, z.status)
    <3>1. y.told # << y.key, y.status >>
      BY <2>1, <2>2
    <3> QED
      BY <1>10, <2>2, <3>1
  <2>4. Shape(U) /\ Tells(e, U, {i})
    BY <1>10
  <2> QED
    BY <1>11, <2>3, <2>4, ChangedTells
<1> QED
  BY <1>1, <1>12

\* The rows that macros have, and what they are told, are as before.
LEMMA RowsAlikeTells ==
  ASSUME NEW e, NEW d, NEW R, Shape(R), NEW T, Tells(e, R, {}),
         \A i \in Instances : T.inst[i] = R.inst[i], T.queue = R.queue,
         \A r \in Runs : R.run[r].row # None => /\ T.run[r].row = R.run[r].row
                                                /\ d.macros[R.run[r].row] = e.macros[R.run[r].row],
         \A r \in Runs : RunTold(d, T, r) /\ RunOn(d.run[r], T.run[r])
  PROVE  Tells(d, T, {})
<1>1. ASSUME NEW i \in Instances, R.inst[i].key # None
      PROVE  \A v : Says(d, T, R.inst[i].run, R.inst[i].key, v) <=> Says(e, R, R.inst[i].run, R.inst[i].key, v)
  <2>1. R.inst[i].run \in Runs /\ R.run[R.inst[i].run].row # None
    BY <1>1, QueueFacts DEF Tells, Plain, Named
  <2> QED
    BY <2>1, Zenon DEF Says
<1>2. ASSUME NEW i \in Instances PROVE Said(d, T, i, {})
  <2>1. Said(e, R, i, {})
    BY DEF Tells
  <2> QED
    BY <1>1, <2>1 DEF Said
<1>3. \A i \in Instances : Plain(T.inst[i]) /\ Named(T, i)
  BY QueueFacts DEF Tells, Named
<1>4. \A n \in DOMAIN T.queue : T.run[T.queue[n].run].row # None
  BY QueueFacts DEF Tells
<1> QED
  BY <1>2, <1>3, <1>4 DEF Tells

\* A macro begins in a run that has a row.
LEMMA NewTells ==
  ASSUME NEW e, NEW R, Shape(R), NEW r \in Runs, R.run[r].row # None, NEW block \in Blocks, NEW key \in Keys,
         block = "generator" => key = None, Unused(R) # {}, Tells(e, R, {})
  PROVE  LET T == New(R, r, block, key)
             x == T.inst[NextInstance(R)]
         IN  Tells(e, T, {}) /\ Alive(x) /\ x.run = r /\ x.key = key /\ x.told = << >>
<1> DEFINE i == NextInstance(R)
           y == [NoInstance EXCEPT !.run = r, !.block = block, !.key = key, !.status = "running",
                                   !.flow["main"] = Spawned]
           owners == IF key = None THEN R.owner ELSE [R.owner EXCEPT ![key] = i]
           claims == IF block \in {"run", "signal"} THEN R.claims \union {i} ELSE R.claims
           count == IF block = "generator" THEN R.live ELSE R.live + 1
           T == [R EXCEPT !.inst[i] = y, !.owner = owners, !.claims = claims, !.live = count]
<1>0. R \in Runner
  BY DEF Shape
<1>1. i \in Instances /\ R.inst[i].status = "none"
  BY NextInstanceFacts
<1>2. New(R, r, block, key) = T
  BY Zenon DEF New
<1> HIDE DEF i
<1>3. /\ Spawned.pc = "fresh" /\ Spawned.busy = TRUE /\ Spawned.doomed = FALSE
      /\ NoFlow.pc = "off" /\ NoFlow.busy = FALSE /\ NoFlow.doomed = FALSE
  BY DEF NoFlow, Spawned
<1>4. /\ y.run = r /\ y.block = block /\ y.key = key /\ y.status = "running" /\ y.told = << >>
      /\ y.flow["main"] = Spawned /\ y.flow["when"] = NoFlow
  BY DEF NoInstance, Flows
<1>5. r # None /\ \A f \in Flows : f = "main" \/ f = "when"
  BY DEF Runs, None, Flows
<1> HIDE DEF y, owners, claims, count
<1>6. Plain(y) /\ Alive(y)
  BY <1>3, <1>4, <1>5 DEF Plain, IsGenerator, Alive
<1>7. /\ T.run = R.run /\ T.queue = R.queue
      /\ T.inst[i] = y /\ \A j \in Instances : j # i => T.inst[j] = R.inst[j]
  BY <1>0, <1>1 DEF Runner
<1> HIDE DEF T
<1>8. \A s, k, v : Says(e, T, s, k, v) <=> Says(e, R, s, k, v)
  BY <1>7 DEF Says
<1>9. R.inst[i].key = None
  BY <1>1 DEF Shape, InstOK, Tells, Plain
<1>10. ASSUME NEW j \in Instances PROVE Said(e, T, j, {})
  <2>1. CASE j = i
    <3>1. \A f \in Flows : f = "main" => y.flow[f].busy
      BY <1>3, <1>4
    <3> QED
      BY <1>3, <1>4, <1>6, <1>7, <2>1 DEF Said
  <2>2. CASE j # i
    <3> DEFINE z == R.inst[j]
    <3>1. T.inst[j] = z /\ Said(e, R, j, {})
      BY <1>7, <2>2 DEF Tells
    <3>2. ASSUME ~Alive(z), z.key # None
          PROVE  \E k \in Instances : /\ SameRow(z, T.inst[k])
                                      /\ k \in {} \/ Alive(T.inst[k]) \/ Says(e, T, z.run, z.key, T.inst[k].status)
      <4>1. PICK k \in Instances : /\ SameRow(z, R.inst[k])
                                   /\ Alive(R.inst[k]) \/ Says(e, R, z.run, z.key, R.inst[k].status)
        BY <3>1, <3>2 DEF Said
      <4>2. k # i /\ T.inst[k] = R.inst[k]
        BY <1>7, <1>9, <3>2, <4>1 DEF SameRow
      <4> QED
        BY <1>8, <4>1, <4>2
    <3> QED
      BY <1>8, <3>1, <3>2 DEF Said
  <2> QED
    BY <2>1, <2>2
<1>11. \A j \in Instances : Plain(T.inst[j]) /\ Named(T, j)
  BY <1>4, <1>6, <1>7 DEF Tells, Named
<1>12. \A s \in Runs : RunTold(e, T, s) /\ RunOn(e.run[s], T.run[s])
  BY <1>7 DEF Tells, RunTold
<1>13. \A n \in DOMAIN T.queue : T.run[T.queue[n].run].row # None
  BY <1>7 DEF Tells
<1> QED
  BY <1>2, <1>4, <1>6, <1>7, <1>10, <1>11, <1>12, <1>13 DEF Tells, i

LEMMA StartedTells ==
  ASSUME NEW e, NEW R, Shape(R), NEW r \in Runs, R.run[r].row # None, NEW block \in Blocks, Tells(e, R, {})
  PROVE  Tells(e, Started(R, r, block), {})
<1>1. CASE R.run[r].status # "armed" \/ Full(R, r)
  BY <1>1 DEF Started
<1>2. CASE ~(R.run[r].status # "armed" \/ Full(R, r))
  <2>1. Started(R, r, block) = New(R, r, block, None) /\ Unused(R) # {} /\ None \in Keys
    BY <1>2 DEF Started, Full, Keys
  <2> QED
    BY <2>1, NewTells
<1> QED
  BY <1>1, <1>2

LEMMA StartedBlockTells ==
  ASSUME NEW e, NEW R, Shape(R), NEW r \in Runs, R.run[r].row # None, NEW block \in {"run", "signal"},
         Tells(e, R, {})
  PROVE  Tells(e, StartedBlock(R, r, block), {})
<1>1. (IF block = "run" /\ Macro(R, r).repeats > 0 THEN "generator" ELSE block) \in Blocks
  BY DEF Blocks
<1> QED
  BY <1>1, StartedTells DEF StartedBlock

LEMMA OfferedTells ==
  ASSUME NEW e, NEW R, Shape(R), NEW block \in {"order", "sent"}, NEW o \in Orders, ~Unrecorded(R, block),
         Tells(e, R, {})
  PROVE  Tells(e, Offered(R, block, o), {})
<1> DEFINE rs == Takers(R, block)
           r == First(R, rs)
           T == New(R, r, block, o)
<1>0. Offered(R, block, o) = IF rs = {} \/ Full(R, r) THEN R ELSE T
  BY Zenon DEF Offered
<1>1. CASE rs = {} \/ Full(R, r)
  BY <1>0, <1>1
<1>2. CASE ~(rs = {} \/ Full(R, r))
  <2>1. rs \subseteq Runs /\ rs # {} /\ Unused(R) # {}
    BY <1>2 DEF Takers, Armed, Full
  <2>2. R.run[r].row # None
    BY <2>1 DEF Unrecorded
  <2> HIDE DEF rs
  <2>3. r \in Runs
    BY <2>1, FirstFacts
  <2> HIDE DEF r
  <2>4. block \in Blocks /\ o \in Keys /\ block # "generator"
    BY DEF Blocks, Keys
  <2>5. Tells(e, T, {})
    BY <2>1, <2>2, <2>3, <2>4, NewTells
  <2> QED
    BY <1>0, <1>2, <2>5
<1> QED
  BY <1>1, <1>2

\* A run is stopped.
LEMMA StoppedTells ==
  ASSUME NEW e, NEW R, Sound(R), NEW r \in Runs, R.run[r].status # "stopped",
         Tells(e, [R EXCEPT !.run[r].status = "stopped"], {})
  PROVE  Tells(e, StoppedRun(R, r), {})
<1> DEFINE S == [R EXCEPT !.run[r].status = "stopped"]
           y == [R.run[r] EXCEPT !.status = "stopped"]
           is == Of(R, r)
           A == AllEnded(S, is, "stopped")
           O == Opened(A, r)
<1>0. Shape(R) /\ R \in Runner /\ Owns(R)
  BY DEF Sound, SoundBut, Shape
<1>1. StoppedRun(R, r) = Unsubscribed(O)
  BY Zenon DEF StoppedRun
<1>2. is \subseteq Instances
  BY DEF Of
<1>3. Shape(S) /\ S.inst = R.inst
  <2>1. R.run[r] \in Run
    BY <1>0 DEF Runner
  <2>2. y \in Run
    BY <2>1 DEF Run, RunStatuses
  <2>3. S = [R EXCEPT !.run[r] = y]
    BY <1>0 DEF Runner
  <2> HIDE DEF y, S
  <2> QED
    BY <1>0, <2>2, <2>3, PutRun
<1> HIDE DEF S, is
<1>4. Alone(S, {})
  BY <1>0, <1>3, OwnersAlone DEF Alone
<1>5. Shape(A) /\ Tells(e, A, {})
  BY <1>2, <1>3, <1>4, AllEndedTells, AllEndedEnds DEF Ends, S
<1> HIDE DEF A
<1>6. Shape(O) /\ Tells(e, O, {})
  BY <1>5, OpenedTells, OpenedStirs DEF Stirs
<1> HIDE DEF O
<1> QED
  BY <1>1, <1>6, UnsubscribedTells

-----------------------------------------------------------------------------
(* The rows at any time.  A command writes its run's row before the run has   *)
(* its number; while another is doing so the number may be another's.         *)

Settling == {r \in Runs : \E c \in Callers : call[c].op \in {"settle", "join"} /\ call[c].run = r}
Now == [run |-> runner.run, macros |-> macroRows, runs |-> runRows, settling |-> Settling]

RunsFit ==
    /\ \A r \in Runs : LET x == runner.run[r] IN
          /\ x.row # None => x.row \in DOMAIN runRows
          /\ x.status \in {"none", "gone"} => x.row = None
    /\ \A r, s \in Runs : runner.run[r].row = runner.run[s].row /\ runner.run[r].row # None => r = s

Commands ==
    /\ \A c \in Callers : LET x == runner.run[call[c].run] IN
          /\ call[c].op \in {"insert", "name"} => x.row = None /\ x.status = "armed" /\ ~x.paused
          /\ call[c].op \in {"start", "settle", "join"} => x.row # None
          /\ call[c].op \in {"settle", "join"} => x.status # "armed"
    /\ \A c, d \in Callers :
          {call[c].op, call[d].op} \subseteq {"insert", "name", "start"} /\ call[c].run = call[d].run => c = d

\* Rows that are not of this process, or not yet of a run.
Unnamed(n) == \A r \in Runs : runner.run[r].row # n
Dead(status) == status \notin {"armed", "paused"}
Earlier ==
    /\ \A n \in Runs : Unnamed(n) => \A k \in RowKeys : macroRows[n][k] \notin Lives
    /\ (\A c \in Callers : call[c].op # "name") =>
          \A n \in DOMAIN runRows : Unnamed(n) => Dead(runRows[n])
    /\ \A c \in Callers : (\A d \in Callers : call[d].op = "name" <=> d = c) =>
          /\ Len(runRows) \in DOMAIN runRows /\ Unnamed(Len(runRows)) /\ runRows[Len(runRows)] = "armed"
          /\ \A n \in DOMAIN runRows : n # Len(runRows) /\ Unnamed(n) => Dead(runRows[n])

Inserted == {r \in Runs : /\ runner.run[r].status # "none"
                          /\ \A c \in Callers : ~(call[c].op = "insert" /\ call[c].run = r)}
Counted == Len(runRows) <= Cardinality(Inserted)

RowInv == calm => Tells(Now, runner, {}) /\ RunsFit /\ Commands /\ Earlier /\ Counted

\* Runs go on, commands too but for those that arm, and no row is written that is
\* not a run's.
LEMMA GoesOn ==
  ASSUME RunsFit, Commands, Earlier, Counted,
         \A r \in Runs : LET x == runner.run[r] y == runner'.run[r] IN
            /\ y.row = x.row
            /\ x.row = None => y.status = x.status /\ y.paused = x.paused
            /\ y.status # x.status => y.status \in {"finished", "stopped"},
         DOMAIN runRows' = DOMAIN runRows, Len(runRows') = Len(runRows),
         \A n \in DOMAIN runRows : Unnamed(n) => runRows'[n] = runRows[n],
         \A n \in Runs : Unnamed(n) => macroRows'[n] = macroRows[n],
         \A c \in Callers : call[c].op # "idle" => call[c].run \in Runs,
         \A c \in Callers :
            \/ call'[c] = call[c]
            \/ /\ call[c].op \notin {"insert", "name"} /\ call'[c].op \notin {"insert", "name", "start"}
               /\ call'[c].op \in {"settle", "join"} => /\ runner'.run[call'[c].run].row # None
                                                        /\ runner'.run[call'[c].run].status # "armed"
  PROVE  (RunsFit /\ Commands /\ Earlier /\ Counted)'
<1>1. \A n : Unnamed(n)' <=> Unnamed(n)
  BY DEF Unnamed
<1>2. RunsFit'
  <2>1. \A r \in Runs : runner'.run[r].status \in {"none", "gone"} => runner'.run[r].row = None
    <3> SUFFICES ASSUME NEW r \in Runs, runner'.run[r].status \in {"none", "gone"} PROVE runner'.run[r].row = None
      OBVIOUS
    <3>1. runner.run[r].status \in {"none", "gone"} => runner.run[r].row = None
      BY DEF RunsFit
    <3> QED
      BY <3>1
  <2> QED
    BY <2>1 DEF RunsFit
<1>3. \A c \in Callers : /\ call'[c].op \in {"insert", "name", "start"} => call'[c] = call[c] /\ call[c].run \in Runs
                         /\ call[c].op \in {"insert", "name"} => call'[c] = call[c]
  OBVIOUS
<1>4. ASSUME NEW c \in Callers
      PROVE  LET x == runner'.run[call'[c].run] IN
             /\ call'[c].op \in {"insert", "name"} => x.row = None /\ x.status = "armed" /\ ~x.paused
             /\ call'[c].op \in {"start", "settle", "join"} => x.row # None
             /\ call'[c].op \in {"settle", "join"} => x.status # "armed"
  <2>1. CASE call'[c] = call[c] /\ call[c].op # "idle"
    <3>1. call[c].run \in Runs
      BY <2>1
    <3> QED
      BY <2>1, <3>1 DEF Commands
  <2>2. CASE call'[c] # call[c] \/ call[c].op = "idle"
    BY <1>3, <2>2
  <2> QED
    BY <2>1, <2>2
<1>5. ASSUME NEW c \in Callers, NEW d \in Callers, call'[c].op \in {"insert", "name", "start"},
             call'[d].op \in {"insert", "name", "start"}, call'[c].run = call'[d].run
      PROVE  c = d
  BY <1>3, <1>5 DEF Commands
<1>6. Commands'
  BY <1>4, <1>5 DEF Commands
<1>7. \A c \in Callers : call'[c].op = "name" <=> call[c].op = "name"
  BY <1>3
<1>8. Earlier'
  <2>1. ASSUME NEW n \in Runs, Unnamed(n) PROVE \A k \in RowKeys : macroRows'[n][k] \notin Lives
    BY <2>1 DEF Earlier
  <2>2. ASSUME \A c \in Callers : call'[c].op # "name", NEW n \in DOMAIN runRows, Unnamed(n) PROVE Dead(runRows'[n])
    BY <1>7, <2>2 DEF Earlier
  <2>3. ASSUME NEW c \in Callers, \A d \in Callers : call'[d].op = "name" <=> d = c
        PROVE  LET l == Len(runRows) IN
               /\ l \in DOMAIN runRows /\ Unnamed(l) /\ runRows'[l] = "armed"
               /\ \A n \in DOMAIN runRows : n # l /\ Unnamed(n) => Dead(runRows'[n])
    BY <1>7, <2>3 DEF Earlier
  <2> QED
    BY <1>1, <2>1, <2>2, <2>3 DEF Earlier
<1>9. Counted'
  <2>1. \A r \in Runs : runner'.run[r].status = "none" <=> runner.run[r].status = "none"
    BY DEF RunsFit
  <2>2. \A c \in Callers : call'[c].op = "insert" /\ call'[c] = call[c] <=> call[c].op = "insert"
    BY <1>3
  <2>3. \A r, c : c \in Callers => (call'[c].op = "insert" /\ call'[c].run = r <=> call[c].op = "insert" /\ call[c].run = r)
    BY <1>3, <2>2
  <2>4. Inserted' = Inserted
    BY <2>1, <2>3 DEF Inserted
  <2> QED
    BY <2>4 DEF Counted
<1> QED
  BY <1>2, <1>6, <1>8, <1>9

\* A step that writes no row.
LEMMA KeepsRows ==
  ASSUME Inv, RowInv, calm, Shape(runner'), Tells(Now, runner', {}), UNCHANGED << macroRows, runRows >>,
         Settling' = Settling,
         \A c \in Callers :
            \/ call'[c] = call[c]
            \/ /\ call[c].op \notin {"insert", "name"} /\ call'[c].op \notin {"insert", "name", "start"}
               /\ call'[c].op \in {"settle", "join"} => /\ runner'.run[call'[c].run].row # None
                                                        /\ runner'.run[call'[c].run].status # "armed"
  PROVE  RowInv'
<1>1. RunsFit /\ Commands /\ Earlier /\ Counted
  BY DEF RowInv
<1>2. \A r \in Runs : RunTold(Now, runner', r) /\ RunOn(runner.run[r], runner'.run[r])
  <2>1. Now.run = runner.run
    BY DEF Now
  <2> QED
    BY <2>1 DEF Tells
<1>3. \A c \in Callers : call[c].op # "idle" => call[c].run \in Runs
  BY CallFacts
<1>4. (RunsFit /\ Commands /\ Earlier /\ Counted)'
  <2>1. \A r \in Runs : LET x == runner.run[r] y == runner'.run[r] IN
            /\ y.row = x.row
            /\ x.row = None => y.status = x.status /\ y.paused = x.paused
            /\ y.status # x.status => y.status \in {"finished", "stopped"}
    BY <1>2 DEF RunOn
  <2> QED
    BY <1>1, <1>3, <2>1, GoesOn
<1>5. Tells(Now', runner', {})
  <2>1. /\ Now'.run = runner'.run /\ Now'.macros = Now.macros /\ Now'.runs = Now.runs
        /\ Now'.settling = Now.settling
    BY DEF Now
  <2>2. \A r \in Runs : RunTold(Now', runner', r) /\ RunOn(Now'.run[r], runner'.run[r])
    BY <1>2, <2>1 DEF RunTold, RunOn
  <2> QED
    BY <2>1, <2>2, RowsAlikeTells
<1> QED
  BY <1>4, <1>5 DEF RowInv

LEMMA KeepsRowsQuietly ==
  ASSUME Inv, RowInv, calm, Shape(runner'), Tells(Now, runner', {}), UNCHANGED << macroRows, runRows, call >>
  PROVE  RowInv'
<1>1. Settling' = Settling
  BY DEF Settling
<1> QED
  BY <1>1, KeepsRows

\* What is so of a runner that is calm.
LEMMA CalmFacts ==
  ASSUME Inv, RowInv, calm
  PROVE  Sound(runner) /\ Shape(runner) /\ Alone(runner, {}) /\ Tells(Now, runner, {})
<1>1. Sound(runner) /\ Tells(Now, runner, {})
  BY DEF Inv, RowInv
<1> QED
  BY <1>1, OwnersAlone DEF Sound, SoundBut

-----------------------------------------------------------------------------
(* The steps: those that write no row and answer no command.                 *)

LEMMA QuietStep ==
  ASSUME Inv, Inv', RowInv, UNCHANGED << macroRows, runRows, call >>,
         calm' => calm /\ Tells(Now, runner', {})
  PROVE  RowInv'
<1>1. CASE ~calm'
  BY <1>1 DEF RowInv
<1>2. CASE calm'
  <2>1. Shape(runner')
    BY DEF Inv, TypeOK
  <2> QED
    BY <1>2, <2>1, KeepsRowsQuietly
<1> QED
  BY <1>1, <1>2

LEMMA ParkRows ==
  ASSUME Inv, RowInv, NEW i \in Instances, NEW f \in Flows, Gate(i, f) \/ Wait(i, f)
  PROVE  RowInv'
<1>1. AtLine(i, f) /\ Unmoved /\ \E pc \in {"parked", "gated"} : runner' = Parked(runner, i, f, pc)
  BY DEF Gate, Wait, Goes
<1>2. PICK pc \in {"parked", "gated"} : runner' = Parked(runner, i, f, pc)
  BY <1>1
<1>3. ASSUME calm PROVE Tells(Now, runner', {})
  BY <1>1, <1>2, <1>3, CalmFacts, LineFacts, ParkedTells
<1> QED
  BY <1>1, <1>3, ParkSteps, QuietStep DEF Unmoved

LEMMA RingRows == ASSUME Inv, RowInv, NEW i \in Instances, NEW f \in Flows, Ring(i, f) PROVE RowInv'
<1> DEFINE g == runner.inst[i].flow[f]
           h == Woken(g)
<1>1. Shape(runner) /\ g \in Flow
  BY FlowFacts DEF Inv, TypeOK
<1>2. h \in Flow /\ h.pc = "line" /\ h.busy = TRUE /\ h.doomed = g.doomed
  BY <1>1 DEF Woken, Flow, Places
<1>3. runner' = [runner EXCEPT !.inst[i].flow[f] = h]
  BY DEF Ring
<1> HIDE DEF h
<1>4. ASSUME calm PROVE Tells(Now, runner', {})
  BY <1>1, <1>2, <1>3, <1>4, CalmFacts, FlowPutTells
<1> QED
  BY <1>4, RingStep, QuietStep DEF Ring, Unmoved

LEMMA ActRows == ASSUME Inv, RowInv, NEW i \in Instances, NEW f \in Flows, Act(i, f) PROVE RowInv'
<1> DEFINE x == runner.inst[i]
           To(pc) == [runner EXCEPT !.inst[i].flow[f].pc = pc]
<1>1. Unmoved /\ Shape(runner) /\ x.flow[f].pc \in AtTask /\ ~IsGenerator(x)
  BY LineFacts DEF Act, Goes
<1>2. \/ ~Alive(x) /\ runner' = FlowOver(runner, i, f)
      \/ runner' = To("act")
      \/ IsClient(x) /\ runner' = To("send")
      \/ runner' = runner
  BY Zenon DEF Act
<1>3. ASSUME calm PROVE Tells(Now, runner', {})
  <2>1. Tells(Now, runner, {}) /\ Alone(runner, {})
    BY <1>3, CalmFacts
  <2>2. CASE ~Alive(x) /\ runner' = FlowOver(runner, i, f)
    BY <1>1, <2>1, <2>2, FlowOverTells
  <2>3. CASE runner' = To("act")
    <3>1. "act" \in AtTask
      BY DEF AtTask, Places, AtRest
    <3> QED
      BY <1>1, <2>1, <2>3, <3>1, TaskTells
  <2>4. CASE IsClient(x) /\ runner' = To("send")
    <3>1. "send" \in AtTask
      BY DEF AtTask, Places, AtRest
    <3> QED
      BY <1>1, <2>1, <2>4, <3>1, TaskTells
  <2>5. CASE runner' = runner
    BY <2>1, <2>5
  <2> QED
    BY <1>2, <2>2, <2>3, <2>4, <2>5
<1> QED
  BY <1>1, <1>3, ActStep, QuietStep DEF Unmoved

LEMMA WhenRows == ASSUME Inv, RowInv, NEW i \in Instances, When(i) PROVE RowInv'
<1> DEFINE S == AtNext(runner, i, "main")
           y == [S.inst[i] EXCEPT !.handlers = TRUE]
           h == [runner.inst[i].flow["main"] EXCEPT !.pc = "line"]
<1>1. "main" \in Flows /\ Unmoved /\ Shape(runner) /\ runner.inst[i].flow["main"].pc \in AtTask
  <2>1. "main" \in Flows
    BY DEF Flows
  <2> QED
    BY <2>1, LineFacts DEF When, Goes
<1>2. Moved(runner, S, i, "main", h)
  BY <1>1, AtNextKeeps
<1> HIDE DEF h
<1>3. calm => Tells(Now, S, {})
  BY <1>1, CalmFacts, AtNextTells
<1>4. runner' = [S EXCEPT !.inst[i].handlers = TRUE]
  BY DEF When
<1> HIDE DEF S
<1>5. S \in Runner /\ S.inst[i] \in Instance
  BY <1>2 DEF Moved, Shape, Runner
<1>6. /\ y.run = S.inst[i].run /\ y.block = S.inst[i].block /\ y.key = S.inst[i].key
      /\ y.status = S.inst[i].status /\ y.told = S.inst[i].told /\ y.flow = S.inst[i].flow
  BY <1>5 DEF Instance
<1>7. runner' = [S EXCEPT !.inst[i] = y]
  BY <1>4, <1>5 DEF Runner
<1> HIDE DEF y
<1>8. /\ runner'.run = S.run /\ runner'.queue = S.queue /\ runner'.inst[i] = y
      /\ \A j \in Instances : j # i => runner'.inst[j] = S.inst[j]
  BY <1>5, <1>7 DEF Runner
<1>9. ASSUME calm PROVE Tells(Now, runner', {})
  <2>1. Plain(S.inst[i]) => Plain(y)
    BY <1>6 DEF Plain, Alive, IsClient, IsGenerator
  <2>2. Plain(y)
    BY <1>3, <1>9, <2>1 DEF Tells
  <2> QED
    BY <1>3, <1>6, <1>8, <1>9, <2>2, PutTells
<1> QED
  BY <1>1, <1>9, WhenStep, QuietStep DEF Unmoved

LEMMA AddRows == ASSUME Inv, RowInv, NEW i \in Instances, Add(i) PROVE RowInv'
<1>1. "main" \in Flows /\ "add" \in AtTask
  BY DEF Flows, AtTask, Places, AtRest
<1>2. Unmoved /\ Shape(runner) /\ runner.inst[i].flow["main"].pc \in AtTask
  BY <1>1, LineFacts DEF Add, Goes
<1>3. ASSUME calm PROVE Tells(Now, runner', {})
  <2>1. runner' = [runner EXCEPT !.inst[i].flow["main"].pc = "add"]
    BY DEF Add
  <2> QED
    BY <1>1, <1>2, <1>3, <2>1, CalmFacts, TaskTells
<1> QED
  BY <1>2, <1>3, AddStep, QuietStep DEF Unmoved

LEMMA ActedRows == ASSUME Inv, RowInv, NEW i \in Instances, NEW f \in Flows, Acted(i, f) PROVE RowInv'
<1>1. Unmoved /\ Shape(runner) /\ runner.inst[i].flow[f].pc \in AtTask
  BY DEF Acted, Inv, TypeOK, AtTask, Places, AtRest
<1>2. ASSUME calm PROVE Tells(Now, runner', {})
  BY <1>1, <1>2, CalmFacts, AtNextTells DEF Acted
<1> QED
  BY <1>1, <1>2, ActedStep, QuietStep DEF Unmoved

\* A macro ends in its own flow.
LEMMA FinishesTells ==
  ASSUME NEW e, NEW R, Sound(R), NEW i \in Instances, NEW f \in Flows, R.inst[i].run # None,
         R.inst[i].flow[f].pc # "sent", NEW status \in Ends, Tells(e, R, {})
  PROVE  Tells(e, FlowOver(Finish(R, i, status, f), i, f), {})
<1> DEFINE S == Finish(R, i, status, f)
<1>0. Shape(R) /\ Alone(R, {})
  BY OwnersAlone DEF Sound, SoundBut
<1>1. Shape(S) /\ SoundBut(S, i, f)
  BY <1>0, FinishKeeps
<1>2. Tells(e, S, {})
  BY <1>0, FinishTells
<1>3. ~Alive(S.inst[i])
  BY <1>0, FinishLeaves
<1> HIDE DEF S
<1>4. Alone(S, {})
  BY <1>1, OwnersAlone DEF SoundBut
<1> QED
  BY <1>1, <1>2, <1>3, <1>4, FlowOverTells DEF S

LEMMA VerdictRows == ASSUME Inv, RowInv, NEW i \in Instances, NEW f \in Flows, Verdict(i, f) PROVE RowInv'
<1>1. PICK status \in Verdicts : runner' = FlowOver(Finish(runner, i, status, f), i, f)
  BY DEF Verdict
<1>2. status \in Ends
  BY MacroRunsAssumption DEF Ends
<1>3. Unmoved /\ runner.inst[i].run # None /\ runner.inst[i].flow[f].pc # "sent"
  BY LineFacts DEF Verdict, Goes
<1>4. ASSUME calm PROVE Tells(Now, runner', {})
  BY <1>1, <1>2, <1>3, <1>4, CalmFacts, FinishesTells
<1> QED
  BY <1>3, <1>4, VerdictStep, QuietStep DEF Unmoved

LEMMA UnwindsRows == ASSUME Inv, RowInv, NEW i \in Instances, NEW f \in Flows, Unwinds(i, f) PROVE RowInv'
<1>1. Unmoved /\ Shape(runner) /\ runner' = FlowOver(runner, i, f) /\ runner.inst[i].flow[f].doomed
  BY DEF Unwinds, Inv, TypeOK
<1>2. ASSUME calm PROVE Tells(Now, runner', {})
  <2>1. ~Alive(runner.inst[i])
    BY <1>1, <1>2, CalmFacts DEF Tells, Plain
  <2> QED
    BY <1>1, <1>2, <2>1, CalmFacts, FlowOverTells
<1> QED
  BY <1>1, <1>2, UnwindsStep, QuietStep DEF Unmoved

\* A macro listens on after its last line, and says so.
LEMMA ListensTells ==
  ASSUME NEW e, NEW R, Sound(R), NEW i \in Instances, R.inst[i].flow["main"].pc # "off", Alive(R.inst[i]),
         Tells(e, R, {})
  PROVE  LET C == Changed([R EXCEPT !.inst[i].status = "listening"], i) IN
         /\ Tells(e, C, {}) /\ Shape(C) /\ Alone(C, {})
         /\ Alive(C.inst[i]) /\ C.inst[i].key # None => C.inst[i].told # << >>
<1> DEFINE x == R.inst[i]
           S == [R EXCEPT !.inst[i].status = "listening"]
           y == S.inst[i]
<1>0. Shape(R) /\ R \in Runner /\ x \in Instance /\ InstOK(x)
  BY DEF Sound, SoundBut, Shape, Runner
<1>1. Shape(S) /\ Sound(S) /\ S.inst[i].run # None
  BY <1>0, ListensOn
<1>2. /\ y.run = x.run /\ y.block = x.block /\ y.key = x.key /\ y.status = "listening" /\ y.told = x.told
      /\ y.flow = x.flow
      /\ \A j \in Instances : j # i => S.inst[j] = R.inst[j]
      /\ S.run = R.run /\ S.queue = R.queue
  BY <1>0 DEF Runner, Instance
<1> HIDE DEF S
<1>3. Alive(y)
  BY <1>2 DEF Alive
<1>4. \A r, k, v : Says(e, S, r, k, v) <=> Says(e, R, r, k, v)
  BY <1>2 DEF Says
<1>5. \A a, b : << a, b >> # << >>
  OBVIOUS
<1>6. /\ y.key = None => y.told = << >>
      /\ y.key # None /\ y.told = << y.key, y.status >> => Says(e, S, y.run, y.key, y.status)
  <2>1. Said(e, R, i, {})
    BY DEF Tells
  <2>2. y.key # None /\ y.told = << y.key, y.status >> => y.told # << >> /\ y.told = << x.key, x.status >>
    BY <1>2, <1>5, <2>1 DEF Said
  <2>3. \A a, b, c, d : << a, b >> = << c, d >> => b = d
    OBVIOUS
  <2>4. y.key # None /\ y.told = << y.key, y.status >> => x.status = "listening"
    BY <1>2, <2>2, <2>3
  <2> QED
    BY <1>2, <1>4, <2>1, <2>2, <2>4 DEF Said
<1>7. Tells(e, S, {i})
  <2>1. ASSUME NEW j \in Instances, j # i PROVE Said(e, S, j, {i})
    <3>1. Said(e, R, j, {})
      BY DEF Tells
    <3>2. S.inst[j] = R.inst[j] /\ \A k \in Instances : SameRow(R.inst[j], R.inst[k]) => SameRow(S.inst[j], S.inst[k])
      BY <1>2, <2>1 DEF SameRow
    <3>3. \A k \in Instances : k # i => S.inst[k] = R.inst[k]
      BY <1>2
    <3> QED
      BY <1>4, <3>1, <3>2, <3>3 DEF Said
  <2>2. Plain(y)
    <3>1. Plain(x)
      BY DEF Tells
    <3> QED
      BY <1>2, <3>1 DEF Plain, IsClient, IsGenerator
  <2>3. \A j \in Instances : Plain(S.inst[j]) /\ Named(S, j)
    BY <1>2, <2>2 DEF Tells, Named
  <2>4. \A r \in Runs : RunTold(e, S, r) /\ RunOn(e.run[r], S.run[r])
    BY <1>2 DEF Tells, RunTold
  <2>5. \A n \in DOMAIN S.queue : S.run[S.queue[n].run].row # None
    BY <1>2 DEF Tells
  <2> QED
    BY <2>1, <2>3, <2>4, <2>5 DEF Tells
<1>8. Alone(S, {})
  BY <1>1, OwnersAlone DEF Sound, SoundBut
<1>9. Tells(e, Changed(S, i), {})
  BY <1>1, <1>3, <1>6, <1>7, <1>8, ChangedTells
<1>10. LET z == Changed(S, i).inst[i] IN Alive(z) /\ z.key # None => z.told # << >>
  <2>1. S.run[S.inst[i].run].row # None /\ Plain(S.inst[i])
    BY <1>1, <1>7 DEF Tells, Named
  <2> QED
    BY <1>1, <2>1, ChangedTold
<1>11. Shape(Changed(S, i)) /\ Sound(Changed(S, i))
  BY <1>1, ChangedKeeps DEF Sound
<1>12. Alone(Changed(S, i), {})
  BY <1>11, OwnersAlone DEF Sound, SoundBut
<1> QED
  BY <1>9, <1>10, <1>11, <1>12 DEF S

LEMMA EndRows == ASSUME Inv, RowInv, NEW i \in Instances, NEW f \in Flows, End(i, f) PROVE RowInv'
<1> DEFINE x == runner.inst[i]
           C == Changed([runner EXCEPT !.inst[i].status = "listening"], i)
<1>1. Unmoved /\ Shape(runner) /\ x.run # None /\ x.flow[f].pc \notin {"off", "sent"}
      /\ (Sound(runner) => Alive(x))
  BY LineFacts DEF End, Goes
<1>2. \/ f = "when" /\ runner' = FlowOver(runner, i, f)
      \/ f = "main" /\ runner' = FlowOver(C, i, f)
      \/ runner' = FlowOver(Finish(runner, i, "completed", f), i, f)
  BY DEF End, Flows
<1>3. ASSUME calm PROVE Tells(Now, runner', {})
  <2>1. Tells(Now, runner, {}) /\ Alone(runner, {}) /\ Sound(runner)
    BY <1>3, CalmFacts
  <2>2. CASE f = "when" /\ runner' = FlowOver(runner, i, f)
    BY <1>1, <2>1, <2>2, FlowOverTells
  <2>3. CASE f = "main" /\ runner' = FlowOver(C, i, f)
    <3>1. /\ Tells(Now, C, {}) /\ Shape(C) /\ Alone(C, {})
          /\ Alive(C.inst[i]) /\ C.inst[i].key # None => C.inst[i].told # << >>
      BY <1>1, <2>1, <2>3, ListensTells
    <3> HIDE DEF C
    <3> QED
      BY <2>3, <3>1, FlowOverTells
  <2>4. CASE runner' = FlowOver(Finish(runner, i, "completed", f), i, f)
    <3>1. "completed" \in Ends
      BY DEF Ends
    <3> QED
      BY <1>1, <2>1, <2>4, <3>1, FinishesTells
  <2> QED
    BY <1>2, <2>2, <2>3, <2>4
<1> QED
  BY <1>1, <1>3, EndStep, QuietStep DEF Unmoved

LEMMA RefusedRows == ASSUME Inv, RowInv, NEW i \in Instances, NEW f \in Flows, Refused(i, f) PROVE RowInv'
<1> DEFINE N == AtNext(runner, i, f)
           h == [runner.inst[i].flow[f] EXCEPT !.pc = "line"]
<1>1. Shape(runner) /\ runner.inst[i].flow[f].pc \in AtTask /\ runner.inst[i].flow[f] \in Flow
  <2>1. Shape(runner)
    BY DEF Inv, TypeOK
  <2> QED
    BY <2>1, FlowFacts DEF Refused, AtTask, Places, AtRest
<1>2. Moved(runner, N, i, f, h) /\ h.pc = "line"
  BY <1>1, AtNextKeeps DEF Flow
<1>3. \/ calm' = FALSE
      \/ /\ calm' = calm
         /\ \/ runner' = FlowOver(Finish(N, i, "failed", f), i, f)
            \/ \E wakes \in BOOLEAN : runner' = Delivered(N, {i}, wakes)
  BY Zenon DEF Refused
<1> HIDE DEF h
<1>4. calm => Tells(Now, N, {})
  BY <1>1, CalmFacts, AtNextTells
<1> HIDE DEF N
<1>5. Shape(N) /\ (Sound(runner) => Sound(N))
  BY <1>1, <1>2, MovedKeeps
<1>6. N.inst[i].run # None /\ N.inst[i].flow[f].pc = "line" /\ "failed" \in Ends
  BY <1>2 DEF Moved, Ends
<1>7. ASSUME calm' PROVE calm /\ Tells(Now, runner', {})
  <2>1. calm /\ Sound(N)
    BY <1>3, <1>5, <1>7, CalmFacts
  <2>2. CASE runner' = FlowOver(Finish(N, i, "failed", f), i, f)
    BY <1>4, <1>6, <2>1, <2>2, FinishesTells
  <2>3. CASE \E wakes \in BOOLEAN : runner' = Delivered(N, {i}, wakes)
    BY <1>4, <1>5, <2>1, <2>3, DeliveredTells
  <2> QED
    BY <1>3, <1>7, <2>1, <2>2, <2>3
<1> QED
  BY <1>7, RefusedStep, QuietStep DEF Refused

LEMMA OrderEventRows ==
  ASSUME Inv, RowInv, NEW o \in Orders, NEW wakes \in BOOLEAN, OrderEvent(o, wakes)
  PROVE  RowInv'
<1>1. calm' => calm /\ Tells(Now, runner', {})
  BY CalmFacts, DeliveredTells DEF OrderEvent
<1> QED
  BY <1>1, OrderEventStep, QuietStep DEF OrderEvent

LEMMA DetachRows == ASSUME Inv, RowInv, NEW o \in Orders, Detach(o) PROVE RowInv'
<1> DEFINE i == runner.owner[o]
<1>1. Shape(runner) /\ i # None
  BY DEF Detach, Inv, TypeOK
<1>2. i \in Instances /\ runner.inst[i].run # None
  BY <1>1 DEF Shape, Runner
<1>3. "detached" \in Ends /\ "none" # "main"
  BY DEF Ends
<1>4. runner' = Finish(runner, i, "detached", "none") /\ (calm' => calm)
  BY DEF Detach
<1> HIDE DEF i
<1>5. calm' => calm /\ Tells(Now, runner', {})
  BY <1>1, <1>2, <1>3, <1>4, CalmFacts, FinishTells
<1> QED
  BY <1>5, DetachStep, QuietStep DEF Detach

LEMMA SignalRows == ASSUME Inv, RowInv, NEW i \in Instances, NEW f \in Flows, Signal(i, f) PROVE RowInv'
<1> DEFINE r == runner.inst[i].run
           N == AtNext(runner, i, f)
           others == {j \in Of(runner, r) \ {i} : ~IsGenerator(runner.inst[j])}
           H(wakes) == Delivered(N, others, wakes)
           h == [runner.inst[i].flow[f] EXCEPT !.pc = "line"]
<1>1. Shape(runner) /\ r # None /\ r \in Runs /\ runner.inst[i].flow[f].pc \in AtTask
  BY LineFacts DEF Signal, Goes
<1>2. PICK wakes \in BOOLEAN : runner' = H(wakes) \/ runner' = StartedBlock(H(wakes), r, "signal")
  BY Zenon DEF Signal
<1>3. Moved(runner, N, i, f, h)
  BY <1>1, AtNextKeeps
<1>4. calm => Tells(Now, N, {})
  BY <1>1, CalmFacts, AtNextTells
<1> HIDE DEF N, h
<1> DEFINE D == H(wakes)
<1>5. Shape(N) /\ Stirs(N, D)
  BY <1>3, DeliveredStirs DEF Moved
<1>6. calm => Tells(Now, D, {})
  BY <1>4, <1>5, DeliveredTells
<1>7. runner' = D \/ runner' = StartedBlock(D, r, "signal")
  BY <1>2
<1> HIDE DEF H, D
<1>8. ASSUME calm PROVE Tells(Now, runner', {})
  <2>1. D.run[r].row # None
    <3>1. runner.run[r].row # None
      BY <1>1, <1>8, CalmFacts DEF Tells, Named
    <3> QED
      BY <1>3, <1>5, <3>1 DEF Moved, Stirs
  <2> QED
    BY <1>1, <1>5, <1>6, <1>7, <1>8, <2>1, StartedBlockTells DEF Stirs
<1>9. UNCHANGED << call, calm, runRows, macroRows >>
  BY DEF Signal
<1> QED
  BY <1>8, <1>9, SignalStep, QuietStep

LEMMA PassRows == ASSUME Inv, RowInv, NEW i \in Instances, Pass(i) PROVE RowInv'
<1> DEFINE x == runner.inst[i]
           r == x.run
           S == Started(runner, r, "run")
           N == AtNext(S, i, "main")
           n == runner.run[r].passes
<1>0. "main" \in Flows /\ "run" \in Blocks /\ "completed" \in Ends
  BY Zenon DEF Flows, Blocks, Ends
<1>1. Unmoved /\ Shape(runner) /\ r # None /\ r \in Runs /\ x.flow["main"].pc # "sent"
      /\ x.flow["main"].pc \in AtTask
  BY <1>0, LineFacts DEF Pass, Goes
<1>2. \/ runner' = FlowOver(Finish(runner, i, "completed", "main"), i, "main")
      \/ runner' = [N EXCEPT !.run[r].passes = n + 1]
  BY Zenon DEF Pass
<1>3. ASSUME calm, runner' = FlowOver(Finish(runner, i, "completed", "main"), i, "main")
      PROVE  Tells(Now, runner', {})
  BY <1>0, <1>1, <1>3, CalmFacts, FinishesTells
<1>4. ASSUME calm, runner' = [N EXCEPT !.run[r].passes = n + 1] PROVE Tells(Now, runner', {})
  <2>1. Tells(Now, runner, {})
    BY <1>4, CalmFacts
  <2>2. Tells(Now, S, {})
    <3>1. runner.run[r].row # None
      BY <1>1, <2>1 DEF Tells, Named
    <3> QED
      BY <1>0, <1>1, <2>1, <3>1, StartedTells
  <2>3. Shape(S) /\ S.inst[i] = x
    <3>1. x.status # "none"
      BY <1>1 DEF Shape, InstOK
    <3> QED
      BY <1>0, <1>1, <3>1, StartedKeeps
  <2> HIDE DEF S
  <2>4. S.inst[i].flow["main"].pc \in AtTask
    BY <1>1, <2>3
  <2>5. Tells(Now, N, {})
    BY <1>0, <2>2, <2>3, <2>4, AtNextTells
  <2>6. Shape(N)
    BY <1>0, <2>3, <2>4, AtNextKeeps DEF Moved
  <2> HIDE DEF N
  <2>7. N \in Runner /\ N.run[r] \in Run
    BY <1>1, <2>6 DEF Shape, Runner
  <2>8. /\ runner'.inst = N.inst /\ runner'.queue = N.queue
        /\ \A s \in Runs : /\ runner'.run[s].row = N.run[s].row /\ runner'.run[s].status = N.run[s].status
                           /\ runner'.run[s].paused = N.run[s].paused
    BY <1>1, <1>4, <2>7 DEF Runner, Run
  <2>9. \A s \in Runs : RunTold(Now, runner', s) /\ RunOn(Now.run[s], runner'.run[s])
    <3>1. \A s \in Runs : RunTold(Now, N, s) /\ RunOn(Now.run[s], N.run[s])
      BY <2>5 DEF Tells
    <3> QED
      BY <2>8, <3>1 DEF RunTold, RunOn, ShownAs
  <2> QED
    BY <2>5, <2>6, <2>8, <2>9, RowsAlikeTells
<1> HIDE DEF N
<1>5. calm => Tells(Now, runner', {})
  BY <1>2, <1>3, <1>4
<1> QED
  BY <1>1, <1>5, PassStep, QuietStep DEF Unmoved

LEMMA ArrivesRows ==
  ASSUME Inv, RowInv, NEW o \in Orders, OrderReceived(o) \/ OrderSentByHand(o)
  PROVE  RowInv'
<1>1. PICK way \in {"sent", "received"}, block \in {"order", "sent"} : Arrives(o, way, block)
  BY DEF OrderReceived, OrderSentByHand
<1>2. /\ runner' = Offered(runner, block, o) \/ runner' = runner
      /\ calm' => calm /\ ~Unrecorded(runner, block)
      /\ UNCHANGED << macroRows, runRows, call >>
  BY <1>1, Zenon DEF Arrives
<1>3. calm' => calm /\ Tells(Now, runner', {})
  BY <1>2, CalmFacts, OfferedTells
<1> QED
  BY <1>2, <1>3, ArrivesStep, QuietStep

LEMMA AnnouncedRows ==
  ASSUME Inv, RowInv, NEW i \in Instances, NEW o \in Orders, Announced(i, o)
  PROVE  RowInv'
<1> DEFINE x == runner.inst[i]
           g == x.flow["main"]
           h == [g EXCEPT !.pc = "sent"]
           y == [x EXCEPT !.flow["main"] = h, !.made = o]
           S == [runner EXCEPT !.inst[i] = y]
           C == [S EXCEPT !.claims = @ \ {i}]
<1>1. /\ Shape(runner) /\ runner \in Runner /\ x \in Instance /\ InstOK(x) /\ "main" \in Flows
      /\ g \in Flow /\ g.pc = "send" /\ ~g.doomed
  BY FlowFacts DEF Announced, Inv, TypeOK, Shape, Flows
<1>2. x.run # None /\ x.key = None /\ (Sound(runner) => Alive(x))
  BY <1>1, FlowFacts DEF InstOK
<1>3. h \in Flow /\ h.pc = "sent" /\ h.doomed = g.doomed /\ h.busy = g.busy
  BY <1>1 DEF Flow, Places
<1>4. o # None /\ o \in Keys
  BY MacroRunsAssumption DEF Orders, None, Keys
<1>5. runner' = S \/ runner' = Bind(C, i, o)
  <2>1. [runner EXCEPT !.inst[i].flow["main"].pc = "sent", !.inst[i].made = o] = S
    BY <1>1 DEF Runner, Instance
  <2> QED
    BY <2>1, Zenon DEF Announced
<1> HIDE DEF h
<1>6. /\ y \in Instance /\ y.run = x.run /\ y.block = x.block /\ y.key = x.key /\ y.made = o
      /\ y.status = x.status /\ y.told = x.told
      /\ y.flow["main"] = h /\ \A f \in Flows : f # "main" => y.flow[f] = x.flow[f]
  BY <1>1, <1>3, <1>4 DEF Instance
<1> HIDE DEF y
<1>7. InstOK(y)
  <2>1. \A f \in Flows : y.flow[f].busy <=> y.flow[f].pc \notin AtRest
    <3>1. h.busy <=> h.pc \notin AtRest
      BY <1>1, <1>3 DEF InstOK, AtRest
    <3> QED
      BY <1>1, <1>6, <3>1 DEF InstOK
  <2> QED
    BY <1>1, <1>2, <1>3, <1>4, <1>6, <2>1 DEF InstOK
<1>8. Kin(x, y)
  <2>1. FlowsOf(y) = FlowsOf(x)
    BY <1>1, <1>3, <1>6 DEF FlowsOf
  <2> QED
    BY <1>1, <1>3, <1>6, <2>1 DEF Kin, Alive, AtWork, Quiet
<1>9. /\ Shape(S) /\ Akin(runner, S) /\ S.run = runner.run /\ S.inst[i] = y
      /\ \A j \in Instances : j # i => S.inst[j] = runner.inst[j]
  BY <1>1, <1>6, <1>7, <1>8, PutKeeps
<1>10. S.queue = runner.queue
  BY <1>1 DEF Runner
<1> HIDE DEF S
<1>11. /\ Shape(C) /\ C.inst = S.inst /\ C.run = S.run
       /\ Sound(runner) => Sound(C)
  BY <1>1, <1>9, ClaimMet, AkinKeeps DEF Sound
<1>12. C.queue = S.queue
  BY <1>9 DEF Shape, Runner
<1> HIDE DEF C
<1>13. ASSUME calm PROVE Tells(Now, runner', {})
  <2>1. Tells(Now, runner, {}) /\ Sound(runner)
    BY <1>13, CalmFacts
  <2>2. IsClient(x) /\ ~IsGenerator(x) /\ Plain(x)
    BY <1>1, <2>1 DEF Tells, Plain
  <2>3. Plain(y) /\ IsClient(y) /\ ~IsGenerator(y)
    BY <1>1, <1>3, <1>6, <2>2 DEF Plain, Alive, IsClient, IsGenerator
  <2>4. Tells(Now, S, {})
    BY <1>3, <1>6, <1>9, <1>10, <2>1, <2>3, PutTells
  <2>5. Tells(Now, C, {})
    BY <1>9, <1>11, <1>12, <2>3, <2>4, PutTells
  <2>6. C.inst[i] = y /\ Sound(C) /\ Alive(y) /\ y.key = None /\ y.flow["main"].pc # "send"
    BY <1>2, <1>3, <1>6, <1>9, <1>11, <2>1 DEF Alive
  <2>7. Tells(Now, Bind(C, i, o), {})
    BY <2>3, <2>5, <2>6, BindTells
  <2> QED
    BY <1>5, <2>4, <2>7
<1> QED
  BY <1>13, AnnouncedStep, QuietStep, Zenon DEF Announced

LEMMA SentRows == ASSUME Inv, RowInv, NEW i \in Instances, Sent(i) PROVE RowInv'
<1> DEFINE x == runner.inst[i]
           h == [x.flow["main"] EXCEPT !.pc = "line"]
           S == AtNext(runner, i, "main")
<1>1. /\ Shape(runner) /\ x \in Instance /\ InstOK(x) /\ "main" \in Flows
      /\ x.flow["main"].pc = "sent" /\ ~x.flow["main"].doomed /\ Unmoved
      /\ x.flow["main"] \in Flow
  BY FlowFacts DEF Sent, Inv, TypeOK, Flows
<1>2. x.made \in Orders /\ (Sound(runner) => Alive(x))
  <2>1. x.made # None
    BY <1>1 DEF InstOK
  <2> QED
    BY <1>1, <2>1, FlowFacts DEF Instance, Keys
<1>3. x.flow["main"].pc \in AtTask
  BY <1>1 DEF AtTask, Places, AtRest
<1>4. Moved(runner, S, i, "main", h)
  BY <1>1, <1>3, AtNextKeeps
<1>5. h.pc = "line"
  BY <1>1 DEF Flow
<1>6. \/ runner' = S
      \/ x.key = None /\ runner' = Bind(S, i, x.made)
  BY Zenon DEF Sent
<1>7. calm => Tells(Now, S, {})
  BY <1>1, <1>3, CalmFacts, AtNextTells
<1> HIDE DEF h, S
<1>8. Sound(runner) => Sound(S)
  BY <1>1, <1>4, MovedKeeps
<1>9. /\ S.inst[i].flow["main"].pc # "send" /\ S.inst[i].key = x.key
      /\ S.inst[i].block = x.block
      /\ Alive(x) => Alive(S.inst[i])
  BY <1>4, <1>5 DEF Moved, Alive
<1>10. ASSUME calm PROVE Tells(Now, runner', {})
  <2>1. IsClient(x) /\ ~IsGenerator(x)
    BY <1>1, <1>10, CalmFacts DEF Tells, Plain
  <2>2. IsClient(S.inst[i]) /\ ~IsGenerator(S.inst[i])
    BY <1>9, <2>1 DEF IsClient, IsGenerator
  <2>3. x.key = None => Tells(Now, Bind(S, i, x.made), {})
    BY <1>2, <1>7, <1>8, <1>9, <1>10, <2>2, CalmFacts, BindTells
  <2> QED
    BY <1>6, <1>7, <1>10, <2>3
<1> QED
  BY <1>1, <1>10, SentStep, QuietStep DEF Unmoved

LEMMA AddedRows ==
  ASSUME Inv, RowInv, NEW i \in Instances, NEW o \in Orders, Added(i, o)
  PROVE  RowInv'
<1>1. /\ "main" \in Flows /\ "added" \in AtTask /\ Shape(runner)
      /\ runner.inst[i].flow["main"].pc \in AtTask
  BY DEF Added, Inv, TypeOK, Flows, AtTask, Places, AtRest
<1>2. ASSUME calm PROVE Tells(Now, runner', {})
  BY <1>1, <1>2, CalmFacts, TaskTells DEF Added
<1> QED
  BY <1>2, AddedStep, QuietStep DEF Added

LEMMA StartMemberRows ==
  ASSUME Inv, RowInv, NEW i \in Instances, NEW o \in Orders, StartMember(i, o)
  PROVE  RowInv'
<1> DEFINE x == runner.inst[i]
           r == x.run
           h == [x.flow["main"] EXCEPT !.pc = "line"]
           S == AtNext(runner, i, "main")
           j == NextInstance(S)
           N == New(S, r, "sent", o)
           T == Told(N, j)
<1>1. /\ Shape(runner) /\ "main" \in Flows /\ x.flow["main"].pc \in AtTask
      /\ x.flow["main"].pc = "added"
  BY DEF StartMember, Inv, TypeOK, Flows, AtTask, Places, AtRest
<1>2. r \in Runs /\ r # None
  BY <1>1, FlowFacts
<1>3. runner.owner[o] = None
  <2>1. orders[o] = "added" /\ KnownTo(runner, orders)
    BY DEF StartMember, Inv
  <2> QED
    BY <2>1 DEF KnownTo
<1>4. \/ runner' = S
      \/ /\ runner.run[r].status = "armed" /\ Unused(runner) # {}
         /\ runner' = T
  <2>1. \/ runner' = S
        \/ runner.run[r].status = "armed" /\ ~Full(runner, r) /\ runner' = T
    BY Zenon DEF StartMember
  <2> QED
    BY <2>1 DEF Full
<1>5. Moved(runner, S, i, "main", h)
  BY <1>1, AtNextKeeps
<1>6. calm => Tells(Now, S, {})
  BY <1>1, CalmFacts, AtNextTells
<1> HIDE DEF h, S
<1>7. Shape(S) /\ (Sound(runner) => Sound(S))
  BY <1>1, <1>5, MovedKeeps
<1>8. S.run = runner.run /\ S.owner = runner.owner /\ Unused(S) = Unused(runner)
  BY <1>5 DEF Moved, Unused
<1>9. ASSUME calm, runner.run[r].status = "armed", Unused(runner) # {} PROVE Tells(Now, T, {})
  <2>1. "sent" \in Blocks /\ o \in Keys /\ o # None
    BY MacroRunsAssumption DEF Blocks, Keys, Orders, None
  <2>2. Sound(S) /\ Tells(Now, S, {})
    BY <1>6, <1>7, <1>9, CalmFacts
  <2>3. S.run[r].row # None
    <3>1. runner.run[r].row # None
      BY <1>2, <1>9, CalmFacts DEF Tells, Named
    <3> QED
      BY <1>8, <3>1
  <2>4. Shape(N) /\ Sound(N)
    BY <1>2, <1>3, <1>7, <1>8, <1>9, <2>1, <2>2, NewKeeps
  <2>5. /\ Tells(Now, N, {}) /\ Alive(N.inst[j]) /\ N.inst[j].run = r /\ N.inst[j].key = o
        /\ N.inst[j].told = << >>
    BY <1>2, <1>7, <1>8, <1>9, <2>1, <2>2, <2>3, NewTells
  <2>6. j \in Instances
    BY <1>8, <1>9, NextInstanceFacts
  <2> HIDE DEF N, j
  <2>7. Tells(Now, N, {} \union {j})
    BY <2>5, TellsLess
  <2>8. \A k \in Instances : k # j /\ Alive(N.inst[k]) /\ N.inst[k].key # None => N.inst[k].key # o
    <3>1. Alone(N, {})
      BY <2>4, OwnersAlone DEF Sound, SoundBut
    <3> QED
      BY <2>1, <2>5, <2>6, <3>1 DEF Alone
  <2>9. \A a, b : << >> # << a, b >>
    OBVIOUS
  <2>10. Tells(Now, Told(N, j), {})
    BY <1>2, <2>1, <2>4, <2>5, <2>6, <2>7, <2>8, <2>9, ToldTells
  <2> QED
    BY <2>10
<1> HIDE DEF T
<1>10. calm => Tells(Now, runner', {})
  BY <1>4, <1>6, <1>9
<1> QED
  BY <1>10, StartMemberStep, QuietStep DEF StartMember

-----------------------------------------------------------------------------
(* The steps of commands, and those that write the row of a run that goes on. *)

LEMMA GoesOnStep ==
  ASSUME Inv, RowInv, calm' => calm, calm => Tells(Now', runner', {}),
         calm => \A n \in Runs : Unnamed(n) => macroRows'[n] = macroRows[n],
         calm => \A r \in Runs : LET x == runner.run[r] y == runner'.run[r] IN
            /\ y.row = x.row
            /\ x.row = None => y.status = x.status /\ y.paused = x.paused
            /\ y.status # x.status => y.status \in {"finished", "stopped"},
         DOMAIN runRows' = DOMAIN runRows, Len(runRows') = Len(runRows),
         calm => \A n \in DOMAIN runRows : Unnamed(n) => runRows'[n] = runRows[n],
         calm => \A c \in Callers :
            \/ call'[c] = call[c]
            \/ /\ call[c].op \notin {"insert", "name"} /\ call'[c].op \notin {"insert", "name", "start"}
               /\ call'[c].op \in {"settle", "join"} => /\ runner'.run[call'[c].run].row # None
                                                        /\ runner'.run[call'[c].run].status # "armed"
  PROVE  RowInv'
<1>1. CASE ~calm'
  BY <1>1 DEF RowInv
<1>2. CASE calm'
  <2>1. \A c \in Callers : call[c].op # "idle" => call[c].run \in Runs
    BY CallFacts
  <2>2. RunsFit /\ Commands /\ Earlier /\ Counted
    BY <1>2 DEF RowInv
  <2>3. (RunsFit /\ Commands /\ Earlier /\ Counted)'
    BY <1>2, <2>1, <2>2, GoesOn
  <2> QED
    BY <1>2, <2>3 DEF RowInv
<1> QED
  BY <1>1, <1>2

\* The row of a run is written.
LEMMA WrittenFacts ==
  ASSUME Inv, RunsFit, NEW r \in Runs, runner.run[r].row # None, NEW status
  PROVE  LET w == WrittenRun(r, status) IN
         /\ DOMAIN w = DOMAIN runRows /\ Len(w) = Len(runRows)
         /\ w[runner.run[r].row] = status
         /\ \A n \in DOMAIN runRows : n # runner.run[r].row => w[n] = runRows[n]
         /\ \A n \in DOMAIN runRows : Unnamed(n) => w[n] = runRows[n]
         /\ \A s \in Runs : s # r /\ runner.run[s].row # None => w[runner.run[s].row] = runRows[runner.run[s].row]
<1> DEFINE n == runner.run[r].row
           w == [runRows EXCEPT ![n] = status]
<1>1. WrittenRun(r, status) = w
  BY DEF WrittenRun
<1>2. n \in DOMAIN runRows
  BY DEF RunsFit
<1>3. DOMAIN w = DOMAIN runRows /\ w[n] = status /\ \A m \in DOMAIN runRows : m # n => w[m] = runRows[m]
  BY <1>2
<1>4. Len(w) = Len(runRows)
  <2>1. runRows \in Seq(RowStatuses)
    BY DEF Inv, TypeOK, RowsOK
  <2>2. DOMAIN runRows = 1 .. Len(runRows) /\ Len(runRows) \in Nat
    BY <2>1, LenProperties
  <2>3. w \in [1 .. Len(runRows) -> RowStatuses \union {status}]
    <3>1. \A m \in DOMAIN runRows : runRows[m] \in RowStatuses
      BY <2>1, <2>2, ElementOfSeq
    <3>2. w = [m \in DOMAIN runRows |-> IF m = n THEN status ELSE runRows[m]]
      OBVIOUS
    <3> QED
      BY <2>2, <3>1, <3>2
  <2>4. w \in Seq(RowStatuses \union {status})
    <3>1. \A S, v : v \in [1 .. Len(runRows) -> S] => v \in Seq(S)
      BY <2>2, SeqDef
    <3> QED
      BY <2>3, <3>1, Zenon
  <2>5. DOMAIN w = 1 .. Len(w) /\ Len(w) \in Nat
    BY <2>4, LenProperties
  <2> HIDE DEF w
  <2> QED
    BY <1>3, <2>2, <2>5
<1>5. \A m \in DOMAIN runRows : Unnamed(m) => m # n
  BY DEF Unnamed
<1>6. \A s \in Runs : s # r /\ runner.run[s].row # None =>
         runner.run[s].row # n /\ runner.run[s].row \in DOMAIN runRows
  BY DEF RunsFit
<1> HIDE DEF w
<1> QED
  BY <1>1, <1>3, <1>4, <1>5, <1>6

LEMMA SettleRows == ASSUME Inv, RowInv, NEW c \in Callers, Settle(c) PROVE RowInv'
<1>1. /\ call[c].op = "settle" /\ call[c].run \in Runs
      /\ call' = [call EXCEPT ![c] = [op |-> "join", run |-> call[c].run]]
  BY CallFacts DEF Settle
<1>2. runner' = runner /\ UNCHANGED << orders, runRows, macroRows, acts, calm >>
  BY DEF Settle
<1>3. call'[c] = [op |-> "join", run |-> call[c].run] /\ \A d \in Callers : d # c => call'[d] = call[d]
  BY <1>1 DEF Inv, TypeOK, CallsOK
<1>4. Settling' = Settling
  BY <1>1, <1>3 DEF Settling
<1>5. CASE calm
  <2>1. Shape(runner') /\ Tells(Now, runner', {})
    BY <1>2, <1>5, CalmFacts
  <2>2. runner.run[call[c].run].row # None /\ runner.run[call[c].run].status # "armed"
    BY <1>1, <1>5 DEF RowInv, Commands
  <2>3. call'[c].op = "join" /\ call'[c].run = call[c].run
    BY <1>3
  <2> QED
    BY <1>1, <1>2, <1>3, <1>4, <1>5, <2>1, <2>2, <2>3, KeepsRows
<1> QED
  BY <1>2, <1>5 DEF RowInv

LEMMA StartRunRows == ASSUME Inv, RowInv, NEW c \in Callers, StartRun(c) PROVE RowInv'
<1> DEFINE r == call[c].run
           B == StartedBlock(runner, r, "run")
<1>1. /\ call[c].op = "start" /\ r \in Runs
      /\ call' = [call EXCEPT ![c] = [op |-> "idle", run |-> None]]
  BY CallFacts DEF StartRun
<1>2. PICK S : S \in {B, runner} /\ runner' = MaybeFinished(S, r)
  BY Zenon DEF StartRun
<1>3. call'[c].op = "idle" /\ \A d \in Callers : d # c => call'[d] = call[d]
  BY <1>1 DEF Inv, TypeOK, CallsOK
<1>4. Settling' = Settling
  BY <1>1, <1>3 DEF Settling
<1>5. UNCHANGED << runRows, macroRows, calm >>
  BY DEF StartRun
<1>6. CASE calm
  <2>1. runner.run[r].row # None /\ Tells(Now, runner, {}) /\ Shape(runner) /\ Sound(runner)
    BY <1>1, <1>6, CalmFacts DEF RowInv, Commands
  <2>2. Shape(B) /\ Sound(B) /\ Tells(Now, B, {})
    BY <1>1, <2>1, StartedBlockKeeps, StartedBlockTells
  <2> HIDE DEF B
  <2>3. Shape(S) /\ Sound(S) /\ Tells(Now, S, {})
    BY <1>2, <2>1, <2>2
  <2>4. S.run[r].row # None
    <3>1. RunOn(Now.run[r], S.run[r]) /\ Now.run = runner.run
      BY <1>1, <2>3 DEF Tells, Now
    <3> QED
      BY <2>1, <3>1 DEF RunOn
  <2>5. Alone(S, {})
    BY <2>3, OwnersAlone DEF Sound, SoundBut
  <2>6. Tells(Now, runner', {})
    BY <1>1, <1>2, <2>3, <2>4, <2>5, MaybeFinishedTells
  <2>7. Shape(runner')
    BY <1>1, <1>2, <2>3, MaybeFinishedKeeps
  <2> QED
    BY <1>1, <1>3, <1>4, <1>5, <1>6, <2>6, <2>7, KeepsRows
<1> QED
  BY <1>5, <1>6 DEF RowInv

LEMMA StoppedStatus ==
  ASSUME NEW R, Shape(R), NEW r \in Runs
  PROVE  StoppedRun(R, r).run[r].status = "stopped"
<1> DEFINE S == [R EXCEPT !.run[r].status = "stopped"]
           y == [R.run[r] EXCEPT !.status = "stopped"]
           is == Of(R, r)
           A == AllEnded(S, is, "stopped")
           O == Opened(A, r)
<1>0. R \in Runner
  BY DEF Shape
<1>1. CASE R.run[r].status = "stopped"
  BY <1>1 DEF StoppedRun
<1>2. CASE R.run[r].status # "stopped"
  <2>1. StoppedRun(R, r) = Unsubscribed(O)
    BY <1>2, Zenon DEF StoppedRun
  <2>2. is \subseteq Instances
    BY DEF Of
  <2>3. Shape(S) /\ S.run[r].status = "stopped"
    <3>1. R.run[r] \in Run
      BY <1>0 DEF Runner
    <3>2. y \in Run /\ y.status = "stopped"
      BY <3>1 DEF Run, RunStatuses
    <3>3. S = [R EXCEPT !.run[r] = y]
      BY <1>0 DEF Runner
    <3> HIDE DEF y, S
    <3> QED
      BY <3>2, <3>3, PutRun
  <2> HIDE DEF S, is
  <2>4. Shape(A) /\ A.run = S.run
    BY <2>2, <2>3, AllEndedEnds DEF Ends, EndsOf
  <2> HIDE DEF A
  <2>5. Shape(O) /\ O.run = A.run
    BY <2>4, OpenedStirs DEF Stirs
  <2> HIDE DEF O
  <2> QED
    BY <2>1, <2>3, <2>4, <2>5, UnsubscribedKeeps
<1> QED
  BY <1>1, <1>2

LEMMA StopRunRows == ASSUME Inv, RowInv, NEW c \in Callers, NEW r \in Runs, StopRun(c, r) PROVE RowInv'
<1> DEFINE S == [runner EXCEPT !.run[r].status = "stopped"]
           e == Besides(Now, r)
<1>1. /\ call[c].op = "idle" /\ call' = [call EXCEPT ![c] = [op |-> "settle", run |-> r]]
      /\ runner.run[r].row # None
      /\ runner' = IF runner.run[r].status = "armed" THEN StoppedRun(runner, r) ELSE runner
      /\ UNCHANGED << runRows, macroRows, calm >>
  BY DEF StopRun, Gives
<1>2. call'[c] = [op |-> "settle", run |-> r] /\ \A d \in Callers : d # c => call'[d] = call[d]
  BY <1>1 DEF Inv, TypeOK, CallsOK
<1>3. Settling' = Settling \union {r}
  BY <1>1, <1>2 DEF Settling
<1>4. ASSUME calm PROVE Tells(e, runner', {}) /\ Shape(runner') /\ runner'.run[r].status # "armed"
  <2>1. Tells(Now, runner, {}) /\ Sound(runner) /\ Shape(runner)
    BY <1>4, CalmFacts
  <2>2. CASE runner.run[r].status # "armed"
    BY <1>1, <2>1, <2>2, BesidesTells
  <2>3. CASE runner.run[r].status = "armed"
    <3>1. runner \in Runner /\ runner.run[r] \in Run
      BY <2>1 DEF Shape, Runner
    <3>2. /\ S.inst = runner.inst /\ S.queue = runner.queue /\ \A s \in Runs : s # r => S.run[s] = runner.run[s]
          /\ S.run[r].row = runner.run[r].row /\ S.run[r].paused = runner.run[r].paused
          /\ S.run[r].status = "stopped"
      BY <3>1 DEF Runner, Run
    <3> HIDE DEF S
    <3>3. Tells(e, S, {})
      BY <1>1, <2>1, <3>2, QueueFacts, RunEndsTells
    <3>4. Tells(e, StoppedRun(runner, r), {})
      BY <2>1, <2>3, <3>3, StoppedTells DEF S
    <3>5. Shape(StoppedRun(runner, r)) /\ StoppedRun(runner, r).run[r].status = "stopped"
      BY <2>1, StoppedRunKeeps, StoppedStatus
    <3> QED
      BY <1>1, <2>3, <3>4, <3>5
  <2> QED
    BY <2>2, <2>3
<1>5. e.run = runner.run /\ e.macros = macroRows /\ e.runs = runRows /\ e.settling = Settling \union {r}
  BY DEF Besides, Now
<1>6. Now'.run = runner'.run /\ Now'.macros = macroRows' /\ Now'.runs = runRows' /\ Now'.settling = Settling'
  BY DEF Now
<1> HIDE DEF e
<1>7. ASSUME calm PROVE Tells(Now', runner', {})
  <2>1. \A s \in Runs : RunTold(Now', runner', s) /\ RunOn(Now'.run[s], runner'.run[s])
    <3>1. \A s \in Runs : RunTold(e, runner', s)
      BY <1>4, <1>7 DEF Tells
    <3> QED
      BY <1>1, <1>3, <1>5, <1>6, <3>1 DEF RunTold, RunOn
  <2> QED
    BY <1>1, <1>4, <1>5, <1>6, <1>7, <2>1, RowsAlikeTells
<1>8. calm => \A s \in Runs : LET x == runner.run[s] y == runner'.run[s] IN
            /\ y.row = x.row
            /\ x.row = None => y.status = x.status /\ y.paused = x.paused
            /\ y.status # x.status => y.status \in {"finished", "stopped"}
  BY <1>4, <1>5 DEF Tells, RunOn
<1>9. calm => call'[c].op = "settle" /\ runner'.run[call'[c].run].row # None
              /\ runner'.run[call'[c].run].status # "armed"
  BY <1>1, <1>2, <1>4, <1>8
<1> QED
  BY <1>1, <1>2, <1>7, <1>8, <1>9, GoesOnStep

LEMMA JoinedRows == ASSUME Inv, RowInv, NEW c \in Callers, Joined(c) PROVE RowInv'
<1> DEFINE r == call[c].run
           status == runner.run[r].status
<1>1. /\ call[c].op = "join" /\ r \in Runs /\ runner.queue = << >>
      /\ call' = [call EXCEPT ![c] = [op |-> "idle", run |-> None]]
      /\ runner' = runner /\ UNCHANGED << macroRows, calm >>
      /\ runRows' = WrittenRun(r, status)
  BY CallFacts DEF Joined
<1>2. call'[c].op = "idle" /\ \A d \in Callers : d # c => call'[d] = call[d]
  BY <1>1 DEF Inv, TypeOK, CallsOK
<1>3. \A s \in Settling : s # r => s \in Settling'
  BY <1>2 DEF Settling
<1>4. CASE calm
  <2>1. Tells(Now, runner, {}) /\ Shape(runner) /\ RunsFit
    BY <1>4, CalmFacts DEF RowInv
  <2>2. runner.run[r].row # None /\ status # "armed"
    BY <1>1, <1>4 DEF RowInv, Commands
  <2>3. /\ DOMAIN runRows' = DOMAIN runRows /\ Len(runRows') = Len(runRows)
        /\ runRows'[runner.run[r].row] = status
        /\ \A n \in DOMAIN runRows : Unnamed(n) => runRows'[n] = runRows[n]
        /\ \A s \in Runs : s # r /\ runner.run[s].row # None =>
              runRows'[runner.run[s].row] = runRows[runner.run[s].row]
    <3>1. LET w == WrittenRun(r, status) IN
          /\ DOMAIN w = DOMAIN runRows /\ Len(w) = Len(runRows)
          /\ w[runner.run[r].row] = status
          /\ \A n \in DOMAIN runRows : Unnamed(n) => w[n] = runRows[n]
          /\ \A s \in Runs : s # r /\ runner.run[s].row # None => w[runner.run[s].row] = runRows[runner.run[s].row]
      <4> HIDE DEF r, status
      <4> QED
        BY <1>1, <2>1, <2>2, WrittenFacts
    <3> QED
      BY <1>1, <3>1, Zenon
  <2>4. /\ Now.run = runner.run /\ Now.macros = macroRows /\ Now.runs = runRows /\ Now.settling = Settling
        /\ Now'.run = runner'.run /\ Now'.macros = macroRows' /\ Now'.runs = runRows' /\ Now'.settling = Settling'
    BY DEF Now
  <2>5. \A s \in Runs : RunTold(Now', runner', s) /\ RunOn(Now'.run[s], runner'.run[s])
    <3>1. \A s \in Runs : RunTold(Now, runner, s)
      BY <2>1 DEF Tells
    <3>2. ShownAs(runner.run[r]) = status
      BY <2>2 DEF ShownAs
    <3>3. \A s \in Runs : RunTold(Now', runner', s)
      <4> SUFFICES ASSUME NEW s \in Runs PROVE RunTold(Now', runner', s)
        OBVIOUS
      <4>1. CASE s = r
        BY <1>1, <2>3, <2>4, <3>2, <4>1, Zenon DEF RunTold
      <4>2. CASE s # r
        BY <1>1, <1>3, <2>3, <2>4, <3>1, <4>2, Zenon DEF RunTold
      <4> QED
        BY <4>1, <4>2
    <3> QED
      BY <2>4, <3>3 DEF RunOn
  <2>6. Tells(Now', runner', {})
    BY <1>1, <2>1, <2>4, <2>5, RowsAlikeTells
  <2>7. \A d \in Callers : \/ call'[d] = call[d]
                           \/ call[d].op \notin {"insert", "name"} /\ call'[d].op = "idle"
    BY <1>1, <1>2
  <2> QED
    BY <1>1, <2>3, <2>6, <2>7, GoesOnStep, Zenon
<1> QED
  BY <1>1, <1>4 DEF RowInv

\* A run that has a row is paused, or goes on, and its row says so.
LEMMA RunPutTells ==
  ASSUME Inv, RowInv, calm, NEW r \in Runs, runner.run[r].row # None, NEW y \in Run,
         y.row = runner.run[r].row, runRows' = WrittenRun(r, ShownAs(y)),
         NEW d, d.macros = macroRows, d.runs = runRows', d.settling = Settling
  PROVE  LET T == [runner EXCEPT !.run[r] = y] IN
         /\ Shape(T) /\ T.run[r] = y /\ \A s \in Runs : s # r => T.run[s] = runner.run[s]
         /\ d.run = T.run => Tells(d, T, {})
<1> DEFINE T == [runner EXCEPT !.run[r] = y]
<1>1. Tells(Now, runner, {}) /\ Shape(runner) /\ RunsFit
  BY CalmFacts DEF RowInv
<1>2. /\ Shape(T) /\ T.inst = runner.inst
      /\ T.run[r] = y /\ \A s \in Runs : s # r => T.run[s] = runner.run[s]
  BY <1>1, PutRun
<1>3. T.queue = runner.queue
  BY <1>1 DEF Shape, Runner
<1> HIDE DEF T
<1>4. Now.macros = macroRows /\ Now.runs = runRows /\ Now.settling = Settling
  BY DEF Now
<1>5. /\ runRows'[runner.run[r].row] = ShownAs(y)
      /\ \A s \in Runs : s # r /\ runner.run[s].row # None =>
            runRows'[runner.run[s].row] = runRows[runner.run[s].row]
  BY <1>1, WrittenFacts
<1>6. \A s \in Runs : RunTold(d, T, s)
  <2> SUFFICES ASSUME NEW s \in Runs PROVE RunTold(d, T, s)
    OBVIOUS
  <2>1. RunTold(Now, runner, s)
    BY <1>1 DEF Tells
  <2>2. CASE s = r
    BY <1>2, <1>5, <2>2 DEF RunTold
  <2>3. CASE s # r
    BY <1>2, <1>3, <1>4, <1>5, <2>1, <2>3 DEF RunTold
  <2> QED
    BY <2>2, <2>3
<1>7. ASSUME d.run = T.run PROVE Tells(d, T, {})
  <2>1. \A s \in Runs : RunOn(d.run[s], T.run[s])
    BY <1>7 DEF RunOn
  <2>2. \A s \in Runs : T.run[s].row = runner.run[s].row
    BY <1>2
  <2> QED
    <3>1. \A s \in Runs : RunTold(d, T, s) /\ RunOn(d.run[s], T.run[s])
      BY <1>6, <2>1
    <3>2. d.macros = Now.macros
      BY <1>3, <1>4
    <3>3. T.inst = runner.inst /\ T.queue = runner.queue
      BY <1>2, <1>3
    <3> QED
      BY <1>1, <2>2, <3>1, <3>2, <3>3, RowsAlikeTells
<1> QED
  BY <1>2, <1>7 DEF T

LEMMA PauseRunRows == ASSUME Inv, RowInv, NEW r \in Runs, PauseRun(r) PROVE RowInv'
<1> DEFINE y == [runner.run[r] EXCEPT !.paused = TRUE]
<1>1. runner \in Runner /\ runner.run[r] \in Run
  BY DEF Inv, TypeOK, Shape, Runner
<1>2. y \in Run /\ y.status = runner.run[r].status /\ y.row = runner.run[r].row /\ y.paused = TRUE
  BY <1>1 DEF Run
<1>3. runner' = [runner EXCEPT !.run[r] = y]
  BY <1>1 DEF PauseRun, Runner
<1> HIDE DEF y
<1>4. /\ runner.run[r].status = "armed" /\ runner.run[r].row # None
      /\ UNCHANGED << macroRows, call, calm >> /\ runRows' = WrittenRun(r, "paused")
  BY DEF PauseRun, IsKnown
<1>5. ShownAs(y) = "paused"
  BY <1>2, <1>4 DEF ShownAs
<1>6. Settling' = Settling
  BY <1>4 DEF Settling
<1>7. Now'.run = runner'.run /\ Now'.macros = macroRows' /\ Now'.runs = runRows' /\ Now'.settling = Settling'
  BY DEF Now
<1>8. CASE calm
  <2>1. /\ Tells(Now', runner', {})
        /\ runner'.run[r] = y /\ \A s \in Runs : s # r => runner'.run[s] = runner.run[s]
    <3>0. /\ runner.run[r].row # None /\ y.row = runner.run[r].row
          /\ runRows' = WrittenRun(r, ShownAs(y))
          /\ Now'.macros = macroRows /\ Now'.runs = runRows' /\ Now'.settling = Settling
      BY <1>2, <1>4, <1>5, <1>6, <1>7
    <3>1. LET T == [runner EXCEPT !.run[r] = y] IN
          /\ T.run[r] = y /\ \A s \in Runs : s # r => T.run[s] = runner.run[s]
          /\ Now'.run = T.run => Tells(Now', T, {})
      BY <1>2, <1>8, <3>0, RunPutTells
    <3> QED
      BY <1>3, <1>7, <3>1, Zenon
  <2>2. /\ DOMAIN runRows' = DOMAIN runRows /\ Len(runRows') = Len(runRows)
        /\ \A n \in DOMAIN runRows : Unnamed(n) => runRows'[n] = runRows[n]
    BY <1>4, <1>8, WrittenFacts DEF RowInv
  <2> QED
    BY <1>2, <1>4, <2>1, <2>2, GoesOnStep
<1> QED
  BY <1>4, <1>8 DEF RowInv

LEMMA ResumeRunRows == ASSUME Inv, RowInv, NEW r \in Runs, ResumeRun(r) PROVE RowInv'
<1> DEFINE y == [runner.run[r] EXCEPT !.paused = FALSE]
           S == [runner EXCEPT !.run[r] = y]
<1>1. runner \in Runner /\ runner.run[r] \in Run
  BY DEF Inv, TypeOK, Shape, Runner
<1>2. y \in Run /\ y.status = runner.run[r].status /\ y.row = runner.run[r].row /\ y.paused = FALSE
  BY <1>1 DEF Run
<1>3. [runner EXCEPT !.run[r].paused = FALSE] = S
  BY <1>1 DEF Runner
<1> HIDE DEF y
<1>4. /\ runner.run[r].status = "armed" /\ runner.run[r].row # None /\ runner' = Opened(S, r)
      /\ UNCHANGED << macroRows, call, calm >> /\ runRows' = WrittenRun(r, "armed")
  BY <1>3 DEF ResumeRun, IsKnown
<1>5. ShownAs(y) = "armed"
  BY <1>2, <1>4 DEF ShownAs
<1>6. Settling' = Settling
  BY <1>4 DEF Settling
<1>7. Now'.run = runner'.run /\ Now'.macros = macroRows' /\ Now'.runs = runRows' /\ Now'.settling = Settling'
  BY DEF Now
<1>8. CASE calm
  <2>1. /\ Shape(S) /\ S.run[r] = y /\ \A s \in Runs : s # r => S.run[s] = runner.run[s]
        /\ Now'.run = S.run => Tells(Now', S, {})
    BY <1>2, <1>4, <1>5, <1>6, <1>7, <1>8, RunPutTells
  <2> HIDE DEF S
  <2>2. runner'.run = S.run
    BY <1>4, <2>1, OpenedStirs DEF Stirs
  <2>3. Tells(Now', runner', {})
    BY <1>4, <1>7, <2>1, <2>2, OpenedTells
  <2>4. /\ DOMAIN runRows' = DOMAIN runRows /\ Len(runRows') = Len(runRows)
        /\ \A n \in DOMAIN runRows : Unnamed(n) => runRows'[n] = runRows[n]
    BY <1>4, <1>8, WrittenFacts DEF RowInv
  <2> QED
    BY <1>2, <1>4, <2>1, <2>2, <2>3, <2>4, GoesOnStep
<1> QED
  BY <1>4, <1>8 DEF RowInv

-----------------------------------------------------------------------------
(* The steps that arm a run and give it its row.                              *)

LEMMA ArmRows == ASSUME Inv, RowInv, NEW c \in Callers, NEW m \in Macros, Arm(c, m) PROVE RowInv'
<1>1. PICK r \in Runs :
         /\ Gives(c, "insert", r)
         /\ runner.run[r].status = "none"
         /\ runner' = [runner EXCEPT !.run[r] = [NoRun EXCEPT !.macro = m, !.status = "armed"],
                                     !.subscribed = TRUE]
         /\ UNCHANGED << orders, runRows, macroRows, calm >>
  BY Zenon DEF Arm
<1> DEFINE y == [NoRun EXCEPT !.macro = m, !.status = "armed"]
<1>2. y.status = "armed" /\ y.row = None /\ y.paused = FALSE
  BY DEF NoRun
<1>3. runner \in Runner
  BY DEF Inv, TypeOK, Shape
<1> HIDE DEF y
<1>4. /\ runner'.inst = runner.inst /\ runner'.queue = runner.queue
      /\ runner'.run[r] = y /\ \A s \in Runs : s # r => runner'.run[s] = runner.run[s]
  <2>1. runner' = [runner EXCEPT !.run[r] = y, !.subscribed = TRUE]
    BY <1>1 DEF y
  <2> QED
    BY <1>3, <2>1 DEF Runner
<1>5. call[c].op = "idle" /\ call' = [call EXCEPT ![c] = [op |-> "insert", run |-> r]]
  BY <1>1 DEF Gives
<1>6. call'[c].op = "insert" /\ call'[c].run = r /\ \A d \in Callers : d # c => call'[d] = call[d]
  BY <1>5 DEF Inv, TypeOK, CallsOK
<1>7. Settling' = Settling
  BY <1>5, <1>6 DEF Settling
<1>8. Now'.run = runner'.run /\ Now'.macros = macroRows' /\ Now'.runs = runRows' /\ Now'.settling = Settling'
      /\ Now.macros = macroRows /\ Now.runs = runRows /\ Now.settling = Settling
  BY DEF Now
<1>9. CASE calm
  <2>1. Tells(Now, runner, {}) /\ Shape(runner)
    BY <1>9, CalmFacts
  <2>2. RunsFit /\ Commands /\ Earlier /\ Counted
    BY <1>9 DEF RowInv
  <2>3. runner.run[r].row = None
    BY <1>1, <2>2 DEF RunsFit
  <2>4. Tells(Now', runner', {})
    <3>1. \A s \in Runs : RunTold(Now, runner, s)
      BY <2>1 DEF Tells
    <3>2. \A s \in Runs : RunTold(Now', runner', s) /\ RunOn(Now'.run[s], runner'.run[s])
      <4>1. ASSUME NEW s \in Runs PROVE RunTold(Now', runner', s)
        <5>1. CASE s = r
          BY <1>2, <1>4, <5>1 DEF RunTold
        <5>2. CASE s # r
          BY <1>1, <1>4, <1>7, <1>8, <3>1, <5>2 DEF RunTold
        <5> QED
          BY <5>1, <5>2
      <4> QED
        BY <1>8, <4>1 DEF RunOn
    <3>3. \A s \in Runs : runner.run[s].row # None => runner'.run[s].row = runner.run[s].row
      BY <1>4, <2>3
    <3>4. Now'.macros = Now.macros
      BY <1>1, <1>8
    <3>5. runner'.inst = runner.inst /\ runner'.queue = runner.queue
      BY <1>4
    <3> QED
      BY <2>1, <3>2, <3>3, <3>4, <3>5, RowsAlikeTells
  <2>5. RunsFit'
    <3>1. \A s \in Runs : runner'.run[s].row = runner.run[s].row
      BY <1>2, <1>4, <2>3
    <3> QED
      BY <1>1, <1>2, <1>4, <2>2, <3>1 DEF RunsFit
  <2>6. \A d \in Callers : call[d].op # "idle" => call[d].run \in Runs /\ call[d].run # r
    <3>1. \A d \in Callers : call[d].op # "idle" => call[d].run \in Runs /\ call[d].op \in CallOps
      BY CallFacts DEF Inv, TypeOK, CallsOK
    <3> QED
      BY <1>1, <2>2, <2>3, <3>1 DEF Commands, CallOps
  <2>7. Commands'
    <3>1. ASSUME NEW d \in Callers
          PROVE  LET x == runner'.run[call'[d].run] IN
             /\ call'[d].op \in {"insert", "name"} => x.row = None /\ x.status = "armed" /\ ~x.paused
             /\ call'[d].op \in {"start", "settle", "join"} => x.row # None
             /\ call'[d].op \in {"settle", "join"} => x.status # "armed"
      <4>1. CASE d = c
        BY <1>2, <1>4, <1>6, <4>1
      <4>2. CASE d # c /\ call[d].op # "idle"
        <5>1. runner'.run[call[d].run] = runner.run[call[d].run]
          BY <1>4, <2>6, <4>2
        <5> QED
          BY <1>6, <2>2, <4>2, <5>1 DEF Commands
      <4>3. CASE d # c /\ call[d].op = "idle"
        BY <1>6, <4>3
      <4> QED
        BY <4>1, <4>2, <4>3
    <3>2. ASSUME NEW a \in Callers, NEW d \in Callers,
                 {call'[a].op, call'[d].op} \subseteq {"insert", "name", "start"}, call'[a].run = call'[d].run
          PROVE  a = d
      <4>1. CASE a = c \/ d = c
        BY <1>6, <2>6, <3>2, <4>1
      <4>2. CASE a # c /\ d # c
        BY <1>6, <2>2, <3>2, <4>2 DEF Commands
      <4> QED
        BY <4>1, <4>2
    <3> QED
      BY <3>1, <3>2 DEF Commands
  <2>8. Earlier'
    <3>1. \A n : Unnamed(n)' <=> Unnamed(n)
      <4>1. \A s \in Runs : runner'.run[s].row = runner.run[s].row
        BY <1>2, <1>4, <2>3
      <4> QED
        BY <4>1 DEF Unnamed
    <3>2. \A d \in Callers : call'[d].op = "name" <=> call[d].op = "name"
      BY <1>5, <1>6
    <3>3. runRows' = runRows /\ macroRows' = macroRows
      BY <1>1
    <3> QED
      BY <2>2, <3>1, <3>2, <3>3 DEF Earlier
  <2>9. Inserted' = Inserted
    <3>1. ASSUME NEW s \in Runs PROVE s \in Inserted' <=> s \in Inserted
      <4>1. CASE s = r
        BY <1>1, <1>6, <4>1 DEF Inserted
      <4>2. CASE s # r
        <5>1. \A d \in Callers : call'[d].op = "insert" /\ call'[d].run = s <=> call[d].op = "insert" /\ call[d].run = s
          BY <1>5, <1>6, <4>2
        <5> QED
          BY <1>4, <4>2, <5>1 DEF Inserted
      <4> QED
        BY <4>1, <4>2
    <3> QED
      BY <3>1 DEF Inserted
  <2>10. Counted'
    BY <1>1, <2>2, <2>9 DEF Counted
  <2> QED
    BY <2>4, <2>5, <2>7, <2>8, <2>10 DEF RowInv
<1> QED
  BY <1>1, <1>9 DEF RowInv

LEMMA InsertRunRows == ASSUME Inv, RowInv, NEW c \in Callers, InsertRun(c) PROVE RowInv'
<1> DEFINE r == call[c].run
           l == Len(runRows) + 1
<1>1. /\ call[c].op = "insert" /\ r \in Runs
      /\ call' = [call EXCEPT ![c] = [op |-> "name", run |-> r]]
      /\ runRows' = Append(runRows, "armed") /\ UNCHANGED << runner, macroRows, calm >>
  BY CallFacts DEF InsertRun
<1>2. call'[c].op = "name" /\ call'[c].run = r /\ \A d \in Callers : d # c => call'[d] = call[d]
  BY <1>1 DEF Inv, TypeOK, CallsOK
<1>3. Settling' = Settling
  BY <1>1, <1>2 DEF Settling
<1>4. /\ Len(runRows) \in Nat /\ DOMAIN runRows = 1 .. Len(runRows)
      /\ Len(runRows') = l /\ DOMAIN runRows' = 1 .. l
      /\ runRows'[l] = "armed" /\ \A n \in DOMAIN runRows : runRows'[n] = runRows[n]
  <2>1. runRows \in Seq(RowStatuses) /\ "armed" \in RowStatuses
    BY DEF Inv, TypeOK, RowsOK, RowStatuses, RunStatuses
  <2>2. /\ runRows' \in Seq(RowStatuses) /\ Len(runRows') = Len(runRows) + 1 /\ runRows'[l] = "armed"
        /\ \A n \in 1 .. Len(runRows) : runRows'[n] = runRows[n]
    BY <1>1, <2>1, AppendProperties
  <2>3. DOMAIN runRows = 1 .. Len(runRows) /\ Len(runRows) \in Nat /\ DOMAIN runRows' = 1 .. Len(runRows')
    BY <2>1, <2>2, LenProperties
  <2> QED
    BY <2>2, <2>3
<1>5. Now'.run = runner'.run /\ Now'.macros = macroRows' /\ Now'.runs = runRows' /\ Now'.settling = Settling'
      /\ Now.macros = macroRows /\ Now.runs = runRows /\ Now.settling = Settling
  BY DEF Now
<1>6. CASE calm
  <2>1. Tells(Now, runner, {}) /\ Shape(runner)
    BY <1>6, CalmFacts
  <2>2. RunsFit /\ Commands /\ Earlier /\ Counted
    BY <1>6 DEF RowInv
  <2>3. Tells(Now', runner', {})
    <3>1. \A s \in Runs : RunTold(Now, runner, s) /\ (runner.run[s].row # None => runner.run[s].row \in DOMAIN runRows)
      BY <2>1, <2>2 DEF Tells, RunsFit
    <3>2. \A s \in Runs : RunTold(Now', runner', s) /\ RunOn(Now'.run[s], runner'.run[s])
      BY <1>1, <1>3, <1>4, <1>5, <3>1 DEF RunTold, RunOn
    <3> QED
      BY <1>1, <1>5, <2>1, <3>2, RowsAlikeTells
  <2>4. RunsFit'
    BY <1>1, <1>4, <2>2 DEF RunsFit
  <2>5. Commands'
    <3>1. ASSUME NEW d \in Callers
          PROVE  LET x == runner'.run[call'[d].run] IN
             /\ call'[d].op \in {"insert", "name"} => x.row = None /\ x.status = "armed" /\ ~x.paused
             /\ call'[d].op \in {"start", "settle", "join"} => x.row # None
             /\ call'[d].op \in {"settle", "join"} => x.status # "armed"
      <4>1. CASE d = c
        BY <1>1, <1>2, <2>2, <4>1 DEF Commands
      <4>2. CASE d # c
        BY <1>1, <1>2, <2>2, <4>2 DEF Commands
      <4> QED
        BY <4>1, <4>2
    <3>2. \A d \in Callers : call'[d].run = call[d].run
                             /\ (call'[d].op \in {"insert", "name", "start"} => call[d].op \in {"insert", "name", "start"})
      BY <1>1, <1>2
    <3>3. ASSUME NEW a \in Callers, NEW d \in Callers,
                 {call'[a].op, call'[d].op} \subseteq {"insert", "name", "start"}, call'[a].run = call'[d].run
          PROVE  a = d
      BY <2>2, <3>2, <3>3 DEF Commands
    <3> QED
      BY <3>1, <3>3 DEF Commands
  <2>6. Earlier'
    <3>1. \A n : Unnamed(n)' <=> Unnamed(n)
      BY <1>1 DEF Unnamed
    <3>2. Unnamed(l)
      <4>1. \A s \in Runs : runner.run[s].row # None => runner.run[s].row \in 1 .. Len(runRows)
        BY <1>4, <2>2 DEF RunsFit
      <4> QED
        BY <1>4, <4>1 DEF Unnamed, None
    <3>3. ASSUME NEW n \in Runs, Unnamed(n) PROVE \A k \in RowKeys : macroRows'[n][k] \notin Lives
      BY <1>1, <2>2, <3>3 DEF Earlier
    <3>4. ~(\A d \in Callers : call'[d].op # "name")
      BY <1>2
    <3>5. ASSUME NEW a \in Callers, \A d \in Callers : call'[d].op = "name" <=> d = a
          PROVE  \A n \in DOMAIN runRows' : n # l /\ Unnamed(n) => Dead(runRows'[n])
      <4>1. a = c
        BY <1>2, <3>5
      <4>2. \A d \in Callers : call[d].op # "name"
        BY <1>1, <1>2, <3>5, <4>1
      <4>3. \A n \in DOMAIN runRows : Unnamed(n) => Dead(runRows[n])
        BY <2>2, <4>2 DEF Earlier
      <4> QED
        BY <1>4, <4>3
    <3>6. l \in DOMAIN runRows'
      BY <1>4
    <3> HIDE DEF l
    <3> QED
      BY <1>4, <3>1, <3>2, <3>3, <3>4, <3>5, <3>6 DEF Earlier
  <2>7. Counted'
    <3>1. r \notin Inserted
      BY <1>1 DEF Inserted
    <3>2. Inserted' = Inserted \union {r}
      <4>1. ASSUME NEW s \in Runs PROVE s \in Inserted' <=> s \in Inserted \/ s = r
        <5>1. CASE s = r
          <6>1. runner.run[r].status = "armed"
            BY <1>1, <2>2 DEF Commands
          <6>2. \A d \in Callers : ~(call'[d].op = "insert" /\ call'[d].run = r)
            BY <1>1, <1>2, <2>2 DEF Commands
          <6> QED
            BY <1>1, <5>1, <6>1, <6>2 DEF Inserted
        <5>2. CASE s # r
          <6>1. \A d \in Callers : call'[d].op = "insert" /\ call'[d].run = s <=> call[d].op = "insert" /\ call[d].run = s
            BY <1>1, <1>2, <5>2
          <6> QED
            BY <1>1, <5>2, <6>1 DEF Inserted
        <5> QED
          BY <5>1, <5>2
      <4> QED
        BY <1>1, <4>1 DEF Inserted
    <3>3. IsFiniteSet(Inserted)
      <4>1. IsFiniteSet(Runs) /\ Inserted \subseteq Runs
        BY FS_Interval, MacroRunsAssumption DEF Runs, Inserted
      <4> QED
        BY <4>1, FS_Subset
    <3>4. Cardinality(Inserted') = Cardinality(Inserted) + 1 /\ Cardinality(Inserted) \in Nat
      BY <3>1, <3>2, <3>3, FS_AddElement, FS_CardinalityType
    <3> QED
      BY <1>4, <2>2, <3>4 DEF Counted
  <2> QED
    BY <2>3, <2>4, <2>5, <2>6, <2>7 DEF RowInv
<1> QED
  BY <1>1, <1>6 DEF RowInv

-----------------------------------------------------------------------------
(* The row is refused, or its number is read back.                            *)

LEMMA InsertFailsRows == ASSUME Inv, RowInv, NEW c \in Callers, InsertFails(c) PROVE RowInv'
<1> DEFINE r == call[c].run
           S == [runner EXCEPT !.run[r].status = "stopped"]
           d == [run |-> S.run, macros |-> macroRows, runs |-> runRows, settling |-> Settling]
<1>1. /\ call[c].op = "insert" /\ r \in Runs
      /\ call' = [call EXCEPT ![c] = [op |-> "idle", run |-> None]]
      /\ runner' = StoppedRun(runner, r) /\ UNCHANGED << macroRows, runRows, calm >>
  BY CallFacts DEF InsertFails
<1>2. call'[c].op = "idle" /\ \A a \in Callers : a # c => call'[a] = call[a]
  BY <1>1 DEF Inv, TypeOK, CallsOK
<1>3. Settling' = Settling
  BY <1>1, <1>2 DEF Settling
<1>4. /\ d.run = S.run /\ d.macros = macroRows /\ d.runs = runRows /\ d.settling = Settling
      /\ Now.run = runner.run /\ Now.macros = macroRows /\ Now.runs = runRows /\ Now.settling = Settling
      /\ Now'.run = runner'.run /\ Now'.macros = macroRows' /\ Now'.runs = runRows' /\ Now'.settling = Settling'
  BY DEF Now
<1>5. CASE ~calm
  BY <1>1, <1>5 DEF RowInv
<1>6. CASE calm
  <2>1. Tells(Now, runner, {}) /\ Sound(runner) /\ Shape(runner)
    BY <1>6, CalmFacts
  <2>2. RunsFit /\ Commands /\ Earlier /\ Counted
    BY <1>6 DEF RowInv
  <2>3. runner.run[r].row = None /\ runner.run[r].status = "armed"
    BY <1>1, <2>2 DEF Commands
  <2>4. /\ S.inst = runner.inst /\ S.queue = runner.queue /\ \A s \in Runs : s # r => S.run[s] = runner.run[s]
        /\ S.run[r].row = None /\ S.run[r].paused = runner.run[r].paused /\ S.run[r].status = "stopped"
    <3>1. runner \in Runner /\ runner.run[r] \in Run
      BY <1>1, <2>1 DEF Shape, Runner
    <3> QED
      BY <1>1, <2>3, <3>1 DEF Runner, Run
  <2> HIDE DEF S, d
  <2>5. Tells(d, S, {})
    <3>1. ASSUME NEW s \in Runs PROVE RunTold(d, S, s)
      <4>1. CASE s = r
        BY <2>4, <4>1 DEF RunTold
      <4>2. CASE s # r
        <5>1. RunTold(Now, runner, s)
          BY <2>1 DEF Tells
        <5> QED
          BY <1>4, <2>4, <4>2, <5>1 DEF RunTold
      <4> QED
        BY <4>1, <4>2
    <3>2. \A s \in Runs : RunTold(d, S, s) /\ RunOn(d.run[s], S.run[s])
      BY <1>4, <3>1 DEF RunOn
    <3>3. \A s \in Runs : runner.run[s].row # None => S.run[s].row = runner.run[s].row
      BY <2>3, <2>4
    <3> QED
      <4>1. d.macros = Now.macros
        BY <1>4
      <4>2. S.inst = runner.inst /\ S.queue = runner.queue
        BY <2>4
      <4> QED
        BY <2>1, <3>2, <3>3, <4>1, <4>2, RowsAlikeTells
  <2>6. Tells(d, runner', {}) /\ Shape(runner')
    <3>1. Tells(d, StoppedRun(runner, r), {})
      BY <1>1, <2>1, <2>3, <2>5, StoppedTells DEF S
    <3> QED
      BY <1>1, <2>1, <3>1, StoppedRunKeeps
  <2>7. \A s \in Runs : RunTold(d, runner', s) /\ RunOn(S.run[s], runner'.run[s])
    BY <1>4, <2>6 DEF Tells
  <2>8. Tells(Now', runner', {})
    <3>1. \A s \in Runs : RunTold(Now', runner', s) /\ RunOn(Now'.run[s], runner'.run[s])
      BY <1>1, <1>3, <1>4, <2>7 DEF RunTold, RunOn
    <3> QED
      BY <1>1, <1>4, <2>6, <3>1, RowsAlikeTells
  <2>9. \A s \in Runs : LET x == runner.run[s] y == runner'.run[s] IN
           /\ y.row = x.row
           /\ s # r /\ x.row = None => y.status = x.status /\ y.paused = x.paused
           /\ y.status # x.status => y.status \in {"finished", "stopped"}
    BY <2>3, <2>4, <2>7 DEF RunOn
  <2>10. RunsFit'
    <3>1. \A s \in Runs : runner'.run[s].status \in {"none", "gone"} => runner'.run[s].status = runner.run[s].status
      <4> SUFFICES ASSUME NEW s \in Runs, runner'.run[s].status # runner.run[s].status
                   PROVE  runner'.run[s].status \notin {"none", "gone"}
        OBVIOUS
      <4>1. runner'.run[s].status \in {"finished", "stopped"}
        BY <2>9
      <4> QED
        BY <4>1
    <3> QED
      BY <1>1, <2>2, <2>9, <3>1 DEF RunsFit
  <2>11. \A a \in Callers : a # c /\ call[a].op # "idle" => call[a].run \in Runs /\ call[a].run # r
    <3>1. \A a \in Callers : call[a].op # "idle" => call[a].run \in Runs /\ call[a].op \in CallOps
      BY CallFacts DEF Inv, TypeOK, CallsOK
    <3>2. \A a \in Callers : a # c /\ call[a].op \in {"insert", "name", "start"} => call[a].run # r
      BY <1>1, <2>2 DEF Commands
    <3> QED
      BY <2>2, <2>3, <3>1, <3>2 DEF Commands, CallOps
  <2>12. Commands'
    <3>1. ASSUME NEW a \in Callers
          PROVE  LET x == runner'.run[call'[a].run] IN
             /\ call'[a].op \in {"insert", "name"} => x.row = None /\ x.status = "armed" /\ ~x.paused
             /\ call'[a].op \in {"start", "settle", "join"} => x.row # None
             /\ call'[a].op \in {"settle", "join"} => x.status # "armed"
      <4>1. CASE a = c \/ call[a].op = "idle"
        <5>1. call'[a].op = "idle"
          BY <1>2, <4>1
        <5> QED
          BY <5>1
      <4>2. CASE a # c /\ call[a].op # "idle"
        <5> DEFINE s == call[a].run
        <5>1. s \in Runs /\ s # r /\ call'[a] = call[a]
          BY <1>2, <2>11, <4>2
        <5>2. /\ call[a].op \in {"insert", "name"} =>
                    runner.run[s].row = None /\ runner.run[s].status = "armed" /\ ~runner.run[s].paused
              /\ call[a].op \in {"start", "settle", "join"} => runner.run[s].row # None
              /\ call[a].op \in {"settle", "join"} => runner.run[s].status # "armed"
          BY <2>2 DEF Commands
        <5> HIDE DEF s
        <5>3. /\ runner'.run[s].row = runner.run[s].row
              /\ runner.run[s].row = None =>
                    runner'.run[s].status = runner.run[s].status /\ runner'.run[s].paused = runner.run[s].paused
              /\ runner.run[s].status # "armed" => runner'.run[s].status # "armed"
          BY <2>9, <5>1
        <5> QED
          BY <5>1, <5>2, <5>3 DEF s
      <4> QED
        BY <4>1, <4>2
    <3>2. ASSUME NEW a \in Callers, NEW b \in Callers,
                 {call'[a].op, call'[b].op} \subseteq {"insert", "name", "start"}, call'[a].run = call'[b].run
          PROVE  a = b
      <4>1. a # c /\ b # c
        BY <1>2, <3>2
      <4> QED
        BY <1>2, <2>2, <3>2, <4>1 DEF Commands
    <3> QED
      BY <3>1, <3>2 DEF Commands
  <2>13. Earlier'
    <3>1. \A n : Unnamed(n)' <=> Unnamed(n)
      BY <2>9 DEF Unnamed
    <3>2. \A a \in Callers : call'[a].op = "name" <=> call[a].op = "name"
      BY <1>1, <1>2
    <3> QED
      BY <1>1, <2>2, <3>1, <3>2 DEF Earlier
  <2>14. Counted'
    <3>1. Inserted \subseteq Inserted'
      <4>1. ASSUME NEW s \in Inserted PROVE s \in Inserted'
        <5>1. s \in Runs /\ runner.run[s].status # "none" /\ \A a \in Callers : ~(call[a].op = "insert" /\ call[a].run = s)
          BY DEF Inserted
        <5>2. runner'.run[s].status # "none"
          BY <2>9, <5>1
        <5>3. \A a \in Callers : ~(call'[a].op = "insert" /\ call'[a].run = s)
          BY <1>2, <5>1
        <5> QED
          BY <5>1, <5>2, <5>3 DEF Inserted
      <4> QED
        BY <4>1
    <3>2. Inserted' \subseteq Runs /\ IsFiniteSet(Runs)
      BY FS_Interval, MacroRunsAssumption DEF Runs, Inserted
    <3>3. Cardinality(Inserted) <= Cardinality(Inserted') /\ Cardinality(Inserted) \in Nat /\ Cardinality(Inserted') \in Nat
      BY <3>1, <3>2, FS_Subset, FS_CardinalityType
    <3>4. Len(runRows) \in Nat
      BY LenProperties DEF Inv, TypeOK, RowsOK
    <3> QED
      BY <1>1, <2>2, <3>3, <3>4 DEF Counted
  <2> QED
    BY <2>8, <2>10, <2>12, <2>13, <2>14 DEF RowInv
<1> QED
  BY <1>5, <1>6

LEMMA NameRunRows == ASSUME Inv, RowInv, NEW c \in Callers, NameRun(c) PROVE RowInv'
<1> DEFINE r == call[c].run
           l == Len(runRows)
<1>1. /\ call[c].op = "name" /\ r \in Runs
      /\ call' = [call EXCEPT ![c] = [op |-> "start", run |-> r]]
      /\ runner' = [runner EXCEPT !.run[r].row = l]
      /\ calm' = (calm /\ ~ReadsMax(c)) /\ UNCHANGED << macroRows, runRows >>
  BY CallFacts DEF NameRun
<1>2. call'[c].op = "start" /\ call'[c].run = r /\ \A a \in Callers : a # c => call'[a] = call[a]
  BY <1>1 DEF Inv, TypeOK, CallsOK
<1>3. Settling' = Settling
  BY <1>1, <1>2 DEF Settling
<1>4. /\ Now.run = runner.run /\ Now.macros = macroRows /\ Now.runs = runRows /\ Now.settling = Settling
      /\ Now'.run = runner'.run /\ Now'.macros = macroRows' /\ Now'.runs = runRows' /\ Now'.settling = Settling'
  BY DEF Now
<1>5. CASE ~calm'
  BY <1>5 DEF RowInv
<1>6. CASE calm'
  <2>0. calm /\ ~ReadsMax(c)
    BY <1>1, <1>6
  <2>1. Tells(Now, runner, {}) /\ Shape(runner)
    BY <2>0, CalmFacts
  <2>2. RunsFit /\ Commands /\ Earlier /\ Counted
    BY <2>0 DEF RowInv
  <2>3. runner.run[r].row = None /\ runner.run[r].status = "armed" /\ ~runner.run[r].paused
    BY <1>1, <2>2 DEF Commands
  <2>4. \A a \in Callers : call[a].op = "name" <=> a = c
    BY <1>1, <2>0 DEF ReadsMax
  <2>5. /\ l \in DOMAIN runRows /\ Unnamed(l) /\ runRows[l] = "armed"
        /\ \A n \in DOMAIN runRows : n # l /\ Unnamed(n) => Dead(runRows[n])
    BY <2>2, <2>4 DEF Earlier
  <2>6. l # None
    <3>1. runRows \in Seq(RowStatuses)
      BY DEF Inv, TypeOK, RowsOK
    <3>2. DOMAIN runRows = 1 .. l /\ l \in Nat
      BY <3>1, LenProperties
    <3> HIDE DEF l
    <3> QED
      BY <2>5, <3>2 DEF None
  <2> HIDE DEF l
  <2>7. /\ runner'.inst = runner.inst /\ runner'.queue = runner.queue
        /\ \A s \in Runs : s # r => runner'.run[s] = runner.run[s]
        /\ runner'.run[r].row = l /\ runner'.run[r].status = "armed" /\ ~runner'.run[r].paused
    <3>1. runner \in Runner /\ runner.run[r] \in Run
      BY <1>1, <2>1 DEF Shape, Runner
    <3> QED
      BY <1>1, <2>3, <3>1 DEF Runner, Run
  <2>8. Tells(Now', runner', {})
    <3>1. ASSUME NEW s \in Runs PROVE RunTold(Now', runner', s)
      <4>1. CASE s = r
        <5>1. ShownAs(runner'.run[r]) = "armed"
          BY <2>7 DEF ShownAs
        <5> QED
          BY <1>1, <1>4, <2>5, <2>7, <4>1, <5>1 DEF RunTold
      <4>2. CASE s # r
        <5>1. RunTold(Now, runner, s)
          BY <2>1 DEF Tells
        <5> QED
          BY <1>1, <1>3, <1>4, <2>7, <4>2, <5>1 DEF RunTold
      <4> QED
        BY <4>1, <4>2
    <3>2. \A s \in Runs : RunTold(Now', runner', s) /\ RunOn(Now'.run[s], runner'.run[s])
      BY <1>4, <3>1 DEF RunOn
    <3>3. \A s \in Runs : runner.run[s].row # None => runner'.run[s].row = runner.run[s].row
      BY <2>3, <2>7
    <3>4. Now'.macros = Now.macros
      BY <1>1, <1>4
    <3>5. runner'.inst = runner.inst /\ runner'.queue = runner.queue
      BY <2>7
    <3> QED
      BY <2>1, <3>2, <3>3, <3>4, <3>5, RowsAlikeTells
  <2>9. RunsFit'
    <3>1. ASSUME NEW s \in Runs
          PROVE  /\ runner'.run[s].row # None => runner'.run[s].row \in DOMAIN runRows
                 /\ runner'.run[s].status \in {"none", "gone"} => runner'.run[s].row = None
      <4>1. CASE s = r
        BY <2>5, <2>7, <4>1
      <4>2. CASE s # r
        BY <2>2, <2>7, <4>2 DEF RunsFit
      <4> QED
        BY <4>1, <4>2
    <3>2. ASSUME NEW s \in Runs, NEW t \in Runs, runner'.run[s].row = runner'.run[t].row, runner'.run[s].row # None
          PROVE  s = t
      <4>1. \A u \in Runs : u # r => runner'.run[u].row # l
        BY <2>5, <2>7 DEF Unnamed
      <4>2. CASE s = r \/ t = r
        BY <2>7, <3>2, <4>1, <4>2
      <4>3. CASE s # r /\ t # r
        BY <2>2, <2>7, <3>2, <4>3 DEF RunsFit
      <4> QED
        BY <4>2, <4>3
    <3> QED
      BY <1>1, <3>1, <3>2 DEF RunsFit
  <2>10. \A a \in Callers : a # c /\ call[a].op # "idle" => call[a].run \in Runs /\ call[a].run # r
    <3>1. \A a \in Callers : call[a].op # "idle" => call[a].run \in Runs /\ call[a].op \in CallOps
      BY CallFacts DEF Inv, TypeOK, CallsOK
    <3>2. \A a \in Callers : a # c /\ call[a].op \in {"insert", "name", "start"} => call[a].run # r
      BY <1>1, <2>2 DEF Commands
    <3> QED
      BY <2>2, <2>3, <3>1, <3>2 DEF Commands, CallOps
  <2>11. Commands'
    <3>1. ASSUME NEW a \in Callers
          PROVE  LET x == runner'.run[call'[a].run] IN
             /\ call'[a].op \in {"insert", "name"} => x.row = None /\ x.status = "armed" /\ ~x.paused
             /\ call'[a].op \in {"start", "settle", "join"} => x.row # None
             /\ call'[a].op \in {"settle", "join"} => x.status # "armed"
      <4>1. CASE a = c
        BY <1>2, <2>6, <2>7, <4>1
      <4>2. CASE a # c /\ call[a].op = "idle"
        BY <1>2, <4>2
      <4>3. CASE a # c /\ call[a].op # "idle"
        <5>1. runner'.run[call[a].run] = runner.run[call[a].run] /\ call'[a] = call[a]
          BY <1>2, <2>7, <2>10, <4>3
        <5> QED
          BY <2>2, <5>1 DEF Commands
      <4> QED
        BY <4>1, <4>2, <4>3
    <3>2. \A a \in Callers : call'[a].run = call[a].run
                             /\ (call'[a].op \in {"insert", "name", "start"} => call[a].op \in {"insert", "name", "start"})
      BY <1>1, <1>2
    <3>3. ASSUME NEW a \in Callers, NEW b \in Callers,
                 {call'[a].op, call'[b].op} \subseteq {"insert", "name", "start"}, call'[a].run = call'[b].run
          PROVE  a = b
      BY <2>2, <3>2, <3>3 DEF Commands
    <3> QED
      BY <3>1, <3>3 DEF Commands
  <2>12. Earlier'
    <3>1. \A n : n # None /\ Unnamed(n)' => Unnamed(n) /\ n # l
      <4> SUFFICES ASSUME NEW n, n # None, Unnamed(n)' PROVE Unnamed(n) /\ n # l
        OBVIOUS
      <4>1. \A s \in Runs : runner'.run[s].row # n
        BY DEF Unnamed
      <4>2. n # l
        BY <1>1, <2>7, <4>1
      <4>3. ASSUME NEW s \in Runs, runner.run[s].row = n PROVE s = r
        BY <2>7, <4>1, <4>3
      <4> QED
        BY <2>3, <4>2, <4>3 DEF Unnamed
    <3>2. (\A n \in Runs : n # None) /\ \A n \in DOMAIN runRows : n # None
      <4>1. runRows \in Seq(RowStatuses)
        BY DEF Inv, TypeOK, RowsOK
      <4>2. DOMAIN runRows = 1 .. Len(runRows) /\ Len(runRows) \in Nat
        BY <4>1, LenProperties
      <4> QED
        BY <4>2, MacroRunsAssumption DEF Runs, None
    <3>3. \A a \in Callers : call'[a].op # "name"
      BY <1>2, <2>4
    <3>4. \A n \in Runs : Unnamed(n)' => \A k \in RowKeys : macroRows'[n][k] \notin Lives
      BY <1>1, <2>2, <3>1, <3>2 DEF Earlier
    <3>5. \A n \in DOMAIN runRows' : Unnamed(n)' => Dead(runRows'[n])
      BY <1>1, <2>5, <3>1, <3>2
    <3> QED
      BY <3>3, <3>4, <3>5 DEF Earlier
  <2>13. Counted'
    <3>1. \A s \in Runs : runner'.run[s].status = runner.run[s].status
      BY <2>3, <2>7
    <3>2. \A a \in Callers : \A s : call'[a].op = "insert" /\ call'[a].run = s <=> call[a].op = "insert" /\ call[a].run = s
      BY <1>1, <1>2
    <3>3. Inserted' = Inserted
      BY <3>1, <3>2 DEF Inserted
    <3> QED
      BY <1>1, <2>2, <3>3 DEF Counted
  <2> QED
    BY <2>8, <2>9, <2>11, <2>12, <2>13 DEF RowInv
<1> QED
  BY <1>5, <1>6

-----------------------------------------------------------------------------
(* The worker writes the first line of the queue.                             *)

LEMMA QueueShrinks ==
  ASSUME NEW q \in Seq(Op), q # << >>
  PROVE  LET op == Head(q) t == Tail(q) IN
         /\ 1 \in DOMAIN q /\ q[1] = op /\ t \in Seq(Op)
         /\ \A n \in DOMAIN t : n + 1 \in DOMAIN q /\ t[n] = q[n + 1]
         /\ \A n \in DOMAIN q : n = 1 \/ (n - 1 \in DOMAIN t /\ t[n - 1] = q[n])
         /\ \A r, k, v :
               /\ LastSays(q, r, k, v) => \/ LastSays(t, r, k, v)
                                          \/ About(op, r, k) /\ op.status = v /\ Silent(t, r, k)
               /\ Silent(q, r, k) => Silent(t, r, k) /\ ~About(op, r, k)
<1> DEFINE op == Head(q)
           t == Tail(q)
           l == Len(q)
<1>1. l \in Nat /\ l > 0 /\ DOMAIN q = 1 .. l /\ op = q[1]
  <2>1. l \in Nat /\ DOMAIN q = 1 .. l /\ l # 0
    BY LenProperties, EmptySeq
  <2> QED
    BY <2>1
<1>2. t \in Seq(Op) /\ Len(t) = l - 1 /\ \A n \in 1 .. (l - 1) : t[n] = q[n + 1]
  BY HeadTailProperties
<1>3. DOMAIN t = 1 .. (l - 1)
  BY <1>2, LenProperties
<1> HIDE DEF op, t, l
<1>4. /\ \A n \in DOMAIN t : n \in Nat /\ n + 1 \in DOMAIN q /\ t[n] = q[n + 1] /\ n + 1 > 1
      /\ \A n \in DOMAIN q : n = 1 \/ (n - 1 \in DOMAIN t /\ t[n - 1] = q[n])
      /\ \A n \in DOMAIN q : n \in Nat
  <2>1. ASSUME NEW n \in DOMAIN t PROVE n \in Nat /\ n + 1 \in DOMAIN q /\ t[n] = q[n + 1] /\ n + 1 > 1
    BY <1>1, <1>2, <1>3
  <2>2. ASSUME NEW n \in DOMAIN q, n # 1 PROVE n - 1 \in DOMAIN t /\ t[n - 1] = q[n]
    <3>1. n \in Nat /\ n - 1 \in 1 .. (l - 1) /\ (n - 1) + 1 = n
      BY <1>1, <2>2
    <3>2. t[n - 1] = q[(n - 1) + 1]
      BY <1>2, <3>1
    <3> QED
      BY <1>3, <3>1, <3>2
  <2>3. \A n \in DOMAIN q : n \in Nat
    BY <1>1
  <2> QED
    BY <2>1, <2>2, <2>3
<1>5. 1 \in DOMAIN q
  BY <1>1
<1>6. ASSUME NEW r, NEW k, Silent(q, r, k) PROVE Silent(t, r, k) /\ ~About(op, r, k)
  BY <1>1, <1>4, <1>5, <1>6 DEF Silent
<1>7. ASSUME NEW r, NEW k, NEW v, LastSays(q, r, k, v)
      PROVE  LastSays(t, r, k, v) \/ (About(op, r, k) /\ op.status = v /\ Silent(t, r, k))
  <2>1. PICK n \in DOMAIN q : /\ About(q[n], r, k) /\ q[n].status = v
                              /\ \A m \in DOMAIN q : m > n => ~About(q[m], r, k)
    BY <1>7 DEF LastSays
  <2>2. CASE n = 1
    <3>1. \A m \in DOMAIN t : ~About(t[m], r, k)
      BY <1>4, <2>1, <2>2
    <3> QED
      BY <1>1, <2>1, <2>2, <3>1 DEF Silent
  <2>3. CASE n # 1
    <3>1. n - 1 \in DOMAIN t /\ t[n - 1] = q[n]
      BY <1>4, <2>3
    <3>2. ASSUME NEW m \in DOMAIN t, m > n - 1 PROVE ~About(t[m], r, k)
      <4>1. m + 1 \in DOMAIN q /\ t[m] = q[m + 1] /\ m + 1 > n
        BY <1>4, <3>2
      <4> QED
        BY <2>1, <4>1
    <3> QED
      BY <2>1, <3>1, <3>2 DEF LastSays
  <2> QED
    BY <2>2, <2>3
<1> QED
  BY <1>1, <1>2, <1>4, <1>5, <1>6, <1>7 DEF op, t

\* A run that has been inserted has one of the rows there are, and there are no
\* more rows than runs.
LEMMA RowsAreFew ==
  ASSUME Inv, RunsFit, Counted
  PROVE  /\ DOMAIN runRows \subseteq Runs
         /\ \A r \in Runs : runner.run[r].row # None => runner.run[r].row \in Runs
<1>1. runRows \in Seq(RowStatuses)
  BY DEF Inv, TypeOK, RowsOK
<1>2. DOMAIN runRows = 1 .. Len(runRows) /\ Len(runRows) \in Nat
  BY <1>1, LenProperties
<1>3. MaxRuns \in Nat
  BY MacroRunsAssumption
<1>4. IsFiniteSet(Runs) /\ Cardinality(Runs) = MaxRuns
  <2>1. IsFiniteSet(1 .. MaxRuns) /\ Cardinality(1 .. MaxRuns) = IF 1 > MaxRuns THEN 0 ELSE MaxRuns - 1 + 1
    BY <1>3, FS_Interval
  <2> QED
    BY <1>3, <2>1 DEF Runs
<1>5. Inserted \subseteq Runs
  BY DEF Inserted
<1>6. Cardinality(Inserted) \in Nat /\ Cardinality(Inserted) <= MaxRuns
  BY <1>4, <1>5, FS_Subset, FS_CardinalityType
<1>7. Len(runRows) <= MaxRuns
  BY <1>2, <1>3, <1>6 DEF Counted
<1>8. DOMAIN runRows \subseteq Runs
  BY <1>2, <1>3, <1>7 DEF Runs
<1> QED
  BY <1>8 DEF RunsFit

LEMMA DrainRows == ASSUME Inv, RowInv, Drain PROVE RowInv'
<1> DEFINE q == runner.queue
           op == Head(q)
           r == op.run
           n == runner.run[r].row
<1>1. /\ q # << >>
      /\ macroRows' = IF op.op = "macro" THEN [macroRows EXCEPT ![n][op.key] = op.status] ELSE macroRows
      /\ runRows' = WrittenRun(r, Shown(r))
      /\ runner' = [runner EXCEPT !.queue = Tail(q)]
      /\ UNCHANGED << call, calm >>
  BY Zenon DEF Drain
<1>2. Shape(runner) /\ q \in Seq(Op)
  BY DEF Inv, TypeOK, Shape, Runner
<1>3. runner'.run = runner.run /\ runner'.inst = runner.inst /\ runner'.queue = Tail(q)
  BY <1>1, <1>2 DEF Shape, Runner
<1>4. /\ 1 \in DOMAIN q /\ q[1] = op /\ Tail(q) \in Seq(Op)
      /\ \A m \in DOMAIN Tail(q) : m + 1 \in DOMAIN q /\ Tail(q)[m] = q[m + 1]
      /\ \A m \in DOMAIN q : m = 1 \/ (m - 1 \in DOMAIN Tail(q) /\ Tail(q)[m - 1] = q[m])
      /\ \A s, k, v :
               /\ LastSays(q, s, k, v) => \/ LastSays(Tail(q), s, k, v)
                                          \/ About(op, s, k) /\ op.status = v /\ Silent(Tail(q), s, k)
               /\ Silent(q, s, k) => Silent(Tail(q), s, k) /\ ~About(op, s, k)
  BY <1>1, <1>2, QueueShrinks, Zenon
<1>5. r \in Runs /\ op \in Op /\ (op.op = "macro" => op.key \in RowKeys)
  <2>1. op \in Op /\ r \in Runs
    BY <1>2, <1>4, QueueFacts
  <2> QED
    BY <2>1 DEF Op
<1>6. Settling' = Settling
  BY <1>1, Zenon DEF Settling
<1>7. /\ Now.run = runner.run /\ Now.macros = macroRows /\ Now.runs = runRows /\ Now.settling = Settling
      /\ Now'.run = runner'.run /\ Now'.macros = macroRows' /\ Now'.runs = runRows' /\ Now'.settling = Settling'
  BY DEF Now
<1>8. macroRows \in [Runs -> [RowKeys -> Statuses \union {"interrupted"}]]
  BY DEF Inv, TypeOK, RowsOK
<1> HIDE DEF q, op, r, n
<1>9. CASE ~calm
  BY <1>1, <1>9 DEF RowInv
<1>10. CASE calm
  <2>1. Tells(Now, runner, {})
    BY <1>10, CalmFacts
  <2>2. RunsFit /\ Commands /\ Earlier /\ Counted
    BY <1>10 DEF RowInv
  <2>3. n # None
    BY <1>4, <2>1 DEF Tells, q, r, n
  <2>4. n \in Runs /\ \A s \in Runs : runner.run[s].row # None => runner.run[s].row \in Runs
    BY <1>5, <2>2, <2>3, RowsAreFew DEF n
  <2>5. \A s \in Runs : s # r /\ runner.run[s].row # None => runner.run[s].row # n
    BY <1>5, <2>2 DEF RunsFit, n
  <2>6. /\ DOMAIN runRows' = DOMAIN runRows /\ Len(runRows') = Len(runRows)
        /\ runRows'[n] = Shown(r)
        /\ \A m \in DOMAIN runRows : Unnamed(m) => runRows'[m] = runRows[m]
        /\ \A s \in Runs : s # r /\ runner.run[s].row # None =>
              runRows'[runner.run[s].row] = runRows[runner.run[s].row]
    BY <1>1, <1>5, <2>2, <2>3, WrittenFacts DEF n
  <2>7. /\ op.op = "macro" => macroRows'[n][op.key] = op.status
        /\ \A m \in Runs, k \in RowKeys :
              ~(op.op = "macro" /\ m = n /\ k = op.key) => macroRows'[m][k] = macroRows[m][k]
        /\ \A m \in Runs : m # n => macroRows'[m] = macroRows[m]
    <3>1. CASE op.op # "macro"
      BY <1>1, <3>1
    <3>2. CASE op.op = "macro"
      <4>1. macroRows' = [macroRows EXCEPT ![n][op.key] = op.status]
        BY <1>1, <3>2
      <4> QED
        BY <1>5, <1>8, <2>4, <3>2, <4>1
    <3> QED
      BY <3>1, <3>2
  <2>8. ASSUME NEW s \in Runs, runner.run[s].row # None, NEW k \in RowKeys, NEW v, Says(Now, runner, s, k, v)
        PROVE  Says(Now', runner', s, k, v)
    <3>1. CASE LastSays(q, s, k, v)
      <4>1. CASE LastSays(Tail(q), s, k, v)
        BY <1>3, <4>1 DEF Says
      <4>2. CASE About(op, s, k) /\ op.status = v /\ Silent(Tail(q), s, k)
        <5>1. op.op = "macro" /\ s = r /\ k = op.key
          BY <4>2 DEF About, r
        <5>2. macroRows'[runner'.run[s].row][k] = v
          BY <1>3, <2>7, <4>2, <5>1 DEF n
        <5> QED
          BY <1>3, <1>7, <4>2, <5>2 DEF Says
      <4> QED
        BY <1>4, <3>1, <4>1, <4>2
    <3>2. CASE Silent(q, s, k) /\ macroRows[runner.run[s].row][k] = v
      <4>1. Silent(Tail(q), s, k) /\ ~About(op, s, k)
        BY <1>4, <3>2
      <4>2. ~(op.op = "macro" /\ runner.run[s].row = n /\ k = op.key)
        BY <2>5, <2>8, <4>1 DEF About, r
      <4>3. macroRows'[runner.run[s].row][k] = v
        BY <2>4, <2>7, <2>8, <3>2, <4>2
      <4> QED
        BY <1>3, <1>7, <4>1, <4>3 DEF Says
    <3> QED
      BY <1>7, <2>8, <3>1, <3>2 DEF Says, q
  <2>9. \A i \in Instances : LET x == runner.inst[i] IN
           x.key # None => x.run \in Runs /\ runner.run[x.run].row # None /\ x.key \in RowKeys
    <3>1. \A i \in Instances : runner.inst[i].run \in Runs \union {None} /\ runner.inst[i].key \in Keys
      BY <1>2, QueueFacts
    <3> QED
      BY <2>1, <3>1 DEF Tells, Plain, Named, Keys, RowKeys
  <2>10. ASSUME NEW i \in Instances PROVE Said(Now', runner', i, {})
    <3> DEFINE x == runner.inst[i]
    <3>1. Said(Now, runner, i, {}) /\ runner'.inst = runner.inst
      BY <1>3, <2>1 DEF Tells
    <3>2. x.key # None => \A v : Says(Now, runner, x.run, x.key, v) => Says(Now', runner', x.run, x.key, v)
      BY <2>8, <2>9
    <3> HIDE DEF x
    <3>3. ASSUME ~Alive(x), x.key # None
          PROVE  \E j \in Instances : /\ SameRow(x, runner.inst[j])
                                      /\ j \in {} \/ Alive(runner.inst[j])
                                         \/ Says(Now', runner', x.run, x.key, runner.inst[j].status)
      BY <3>1, <3>2, <3>3 DEF Said, x
    <3> QED
      BY <3>1, <3>2, <3>3 DEF Said, x
  <2>11. ASSUME NEW s \in Runs PROVE RunTold(Now', runner', s)
    <3>1. RunTold(Now, runner, s)
      BY <2>1 DEF Tells
    <3>2. CASE s = r
      <4>1. Shown(r) = ShownAs(runner.run[r])
        BY DEF Shown, ShownAs
      <4> QED
        BY <1>3, <1>7, <2>6, <3>2, <4>1 DEF RunTold, n
    <3>3. CASE s # r
      <4>1. ASSUME NEW m \in DOMAIN q, q[m].run = s PROVE \E p \in DOMAIN Tail(q) : Tail(q)[p].run = s
        BY <1>4, <3>3, <4>1 DEF r
      <4> QED
        BY <1>3, <1>6, <1>7, <2>6, <3>1, <3>3, <4>1 DEF RunTold, q
    <3> QED
      BY <3>2, <3>3
  <2>12. Tells(Now', runner', {})
    <3>1. \A i \in Instances : Plain(runner'.inst[i]) /\ Named(runner', i)
      BY <1>3, <2>1 DEF Tells, Named
    <3>2. \A s \in Runs : RunTold(Now', runner', s) /\ RunOn(Now'.run[s], runner'.run[s])
      BY <1>7, <2>11 DEF RunOn
    <3>3. \A m \in DOMAIN Tail(q) : runner.run[Tail(q)[m].run].row # None
      BY <1>4, <2>1 DEF Tells, q
    <3>4. \A m \in DOMAIN runner'.queue : runner'.run[runner'.queue[m].run].row # None
      BY <1>3, <3>3
    <3> QED
      BY <2>10, <3>1, <3>2, <3>4 DEF Tells
  <2>13. \A m \in Runs : Unnamed(m) => macroRows'[m] = macroRows[m]
    BY <1>5, <2>7 DEF Unnamed, n
  <2> QED
    BY <1>1, <1>3, <1>10, <2>6, <2>12, <2>13, GoesOnStep
<1> QED
  BY <1>9, <1>10

-----------------------------------------------------------------------------
(* A runner that comes up, and all steps together.                            *)

LEMMA RestingTells ==
  ASSUME NEW e, NEW R, R.queue = << >>, e.run = R.run, \A r \in Runs : R.run[r].row = None,
         \A i \in Instances : InstOK(R.inst[i]) /\ R.inst[i].run = None /\ R.inst[i].key = None
  PROVE  Tells(e, R, {})
<1>1. \A i \in Instances : ~Alive(R.inst[i]) /\ \A f \in Flows : R.inst[i].flow[f].pc = "off"
  BY DEF InstOK, Alive, NoFlow
<1>2. \A i \in Instances : Plain(R.inst[i]) /\ Named(R, i) /\ Said(e, R, i, {})
  BY <1>1 DEF Plain, Named, Said
<1>3. \A r \in Runs : RunTold(e, R, r) /\ RunOn(e.run[r], R.run[r])
  BY DEF RunTold, RunOn
<1> QED
  BY <1>2, <1>3 DEF Tells

LEMMA InitRows == Init => RowInv
<1> SUFFICES ASSUME Init PROVE RowInv
  OBVIOUS
<1>1. NoInstance \in Instance /\ InstOK(NoInstance) /\ NoInstance.run = None /\ NoInstance.key = None
  BY BlankInstance DEF NoInstance
<1>2. NoRun.row = None /\ NoRun.status = "none" /\ Idle.op = "idle"
  BY DEF NoRun, Idle
<1>3. /\ runner.run = [r \in Runs |-> NoRun] /\ runner.inst = [i \in Instances |-> NoInstance]
      /\ runner.queue = << >> /\ runRows = << >> /\ call = [c \in Callers |-> Idle]
      /\ macroRows = [r \in Runs |-> [k \in RowKeys |-> "none"]]
  BY DEF Init, RowKeys
<1>4. Tells(Now, runner, {})
  <2>1. Now.run = runner.run
    BY DEF Now
  <2> QED
    BY <1>1, <1>2, <1>3, <2>1, RestingTells
<1>5. RunsFit /\ Commands
  BY <1>2, <1>3 DEF RunsFit, Commands
<1>6. DOMAIN runRows = {} /\ Len(runRows) = 0
  BY <1>3
<1>7. Earlier
  <2>1. \A c \in Callers : call[c].op # "name"
    BY <1>2, <1>3
  <2>2. \A n \in Runs, k \in RowKeys : macroRows[n][k] \notin Lives
    BY <1>3 DEF Lives
  <2> QED
    BY <1>6, <2>1, <2>2 DEF Earlier
<1>8. Counted
  <2>1. Inserted = {}
    BY <1>2, <1>3 DEF Inserted
  <2> QED
    BY <1>6, <2>1, FS_EmptySet DEF Counted
<1> QED
  BY <1>4, <1>5, <1>7, <1>8 DEF RowInv

LEMMA RestartRows == ASSUME Inv, RowInv, Restart PROVE RowInv'
<1> DEFINE goneRun == [NoRun EXCEPT !.status = "gone"]
           goneInst == [NoInstance EXCEPT !.status = "gone"]
           gr == [r \in Runs |-> IF runner.run[r].status = "none" THEN runner.run[r] ELSE goneRun]
           gi == [i \in Instances |-> IF runner.inst[i].status = "none" THEN runner.inst[i] ELSE goneInst]
<1>1. Shape(runner) /\ runner \in Runner
  BY DEF Inv, TypeOK, Shape
<1>2. goneRun.row = None /\ goneRun.status = "gone"
  BY DEF NoRun
<1>3. InstOK(goneInst) /\ goneInst.run = None /\ goneInst.key = None
  BY BlankInstance DEF NoInstance
<1>4. /\ runner' = [runner EXCEPT !.run = gr, !.inst = gi, !.owner = [o \in Orders |-> None],
                               !.claims = {}, !.live = 0, !.subscribed = FALSE, !.queue = << >>]
      /\ call' = [c \in Callers |-> Idle] /\ calm' = calm
  <2>1. runner' = [runner EXCEPT !.run = gr, !.inst = gi, !.owner = [o \in Orders |-> None],
                                 !.claims = {}, !.live = 0, !.subscribed = FALSE, !.queue = << >>]
    BY Zenon DEF Restart
  <2>2. call' = [c \in Callers |-> Idle] /\ UNCHANGED << orders, calm >>
    BY Zenon DEF Restart
  <2> QED
    BY <2>1, <2>2
<1> HIDE DEF goneRun, goneInst
<1>5. runner'.run = gr /\ runner'.inst = gi /\ runner'.queue = << >>
  BY <1>1, <1>4 DEF Runner
<1>6. \A c \in Callers : call'[c].op = "idle"
  BY <1>4 DEF Idle
<1>7. CASE ~calm
  BY <1>4, <1>7 DEF RowInv
<1>8. CASE calm
  <2>1. Tells(Now, runner, {}) /\ RunsFit /\ Counted
    BY <1>8 DEF RowInv
  <2>2. \A r \in Runs : runner'.run[r].row = None
    BY <1>2, <1>5, <2>1 DEF RunsFit
  <2>3. ASSUME NEW i \in Instances
        PROVE  InstOK(runner'.inst[i]) /\ runner'.inst[i].run = None /\ runner'.inst[i].key = None
    <3>1. InstOK(runner.inst[i]) /\ Plain(runner.inst[i])
      BY <1>1, <2>1 DEF Shape, Tells
    <3>2. CASE runner.inst[i].status = "none"
      <4>1. runner'.inst[i] = runner.inst[i] /\ runner.inst[i].run = None
        BY <1>5, <3>1, <3>2 DEF InstOK
      <4> QED
        BY <3>1, <4>1 DEF Plain
    <3>3. CASE runner.inst[i].status # "none"
      BY <1>3, <1>5, <3>3
    <3> QED
      BY <3>2, <3>3
  <2>4. Tells(Now', runner', {})
    <3>1. Now'.run = runner'.run
      BY DEF Now
    <3> QED
      BY <1>5, <2>2, <2>3, <3>1, RestingTells
  <2>5. RunsFit' /\ Commands'
    BY <1>6, <2>2 DEF RunsFit, Commands
  <2>6. DOMAIN runRows' = DOMAIN runRows /\ Len(runRows') = Len(runRows)
    <3>1. runRows \in Seq(RowStatuses) /\ runRows' \in Seq(RowStatuses)
      BY NextInv DEF Inv, TypeOK, RowsOK, Next
    <3>2. /\ DOMAIN runRows = 1 .. Len(runRows) /\ Len(runRows) \in Nat
          /\ DOMAIN runRows' = 1 .. Len(runRows') /\ Len(runRows') \in Nat
      BY <3>1, LenProperties
    <3>3. DOMAIN runRows' = DOMAIN runRows
      BY RestartWrites
    <3>4. \A a, b \in Nat : 1 .. a = 1 .. b => a = b
      OBVIOUS
    <3>5. 1 .. Len(runRows') = 1 .. Len(runRows)
      BY <3>2, <3>3, Zenon
    <3>6. Len(runRows') = Len(runRows)
      BY <3>2, <3>4, <3>5, Zenon
    <3> QED
      BY <3>3, <3>6
  <2>7. Earlier'
    <3>1. \A n \in DOMAIN runRows' : Dead(runRows'[n])
      BY RestartWrites DEF Dead
    <3>2. \A n \in Runs, k \in RowKeys : macroRows'[n][k] \notin Lives
      BY RestartWrites
    <3> QED
      BY <1>6, <3>1, <3>2 DEF Earlier
  <2>8. Counted'
    <3>1. Inserted \subseteq Inserted'
      <4>1. \A r \in Runs : runner.run[r].status # "none" => runner'.run[r].status # "none"
        BY <1>2, <1>5
      <4> QED
        BY <1>6, <4>1 DEF Inserted
    <3>2. Inserted' \subseteq Runs /\ IsFiniteSet(Runs)
      BY FS_Interval, MacroRunsAssumption DEF Runs, Inserted
    <3>3. Cardinality(Inserted) <= Cardinality(Inserted') /\ Cardinality(Inserted) \in Nat /\ Cardinality(Inserted') \in Nat
      BY <3>1, <3>2, FS_Subset, FS_CardinalityType
    <3>4. Len(runRows) \in Nat
      BY LenProperties DEF Inv, TypeOK, RowsOK
    <3> QED
      BY <2>1, <2>6, <3>3, <3>4 DEF Counted
  <2> QED
    BY <2>4, <2>5, <2>7, <2>8 DEF RowInv
<1> QED
  BY <1>7, <1>8

LEMMA NextRows == Inv /\ RowInv /\ [Next]_vars => RowInv'
<1> SUFFICES ASSUME Inv, RowInv, [Next]_vars PROVE RowInv'
  OBVIOUS
<1>1. CASE UNCHANGED vars
  <2>1. UNCHANGED << runner, runRows, macroRows, call, calm >>
    BY <1>1 DEF vars
  <2>2. calm => Shape(runner') /\ Tells(Now, runner', {})
    BY <2>1, CalmFacts
  <2> QED
    BY <2>1, <2>2, KeepsRowsQuietly DEF RowInv
<1>2. CASE \E o \in Orders : OrderReceived(o) \/ OrderSentByHand(o)
  BY <1>2, ArrivesRows
<1>3. CASE \E o \in Orders, wakes \in BOOLEAN : OrderEvent(o, wakes)
  BY <1>3, OrderEventRows
<1>4. CASE \E i \in Instances, f \in Flows :
              \/ Gate(i, f) \/ Wait(i, f) \/ Ring(i, f) \/ Act(i, f) \/ Acted(i, f) \/ Refused(i, f)
              \/ Signal(i, f) \/ End(i, f) \/ Verdict(i, f) \/ Unwinds(i, f)
  BY <1>4, ParkRows, RingRows, ActRows, ActedRows, RefusedRows, SignalRows, EndRows, VerdictRows,
     UnwindsRows
<1>5. CASE \E i \in Instances : When(i) \/ Add(i) \/ Sent(i) \/ Pass(i)
  BY <1>5, WhenRows, AddRows, SentRows, PassRows
<1>6. CASE \E i \in Instances, o \in Orders : Announced(i, o) \/ Added(i, o) \/ StartMember(i, o)
  BY <1>6, AnnouncedRows, AddedRows, StartMemberRows
<1>7. CASE \E c \in Callers :
              \/ \E m \in Macros : Arm(c, m)
              \/ \E r \in Runs : StopRun(c, r)
              \/ InsertRun(c) \/ InsertFails(c) \/ NameRun(c) \/ StartRun(c) \/ Settle(c) \/ Joined(c)
  BY <1>7, ArmRows, StopRunRows, InsertRunRows, InsertFailsRows, NameRunRows, StartRunRows, SettleRows,
     JoinedRows
<1>8. CASE \E r \in Runs : PauseRun(r) \/ ResumeRun(r)
  BY <1>8, PauseRunRows, ResumeRunRows
<1>9. CASE \E o \in Orders : Detach(o)
  BY <1>9, DetachRows
<1>10. CASE Drain
  BY <1>10, DrainRows
<1>11. CASE Restart
  BY <1>11, RestartRows
<1> QED
  BY <1>1, <1>2, <1>3, <1>4, <1>5, <1>6, <1>7, <1>8, <1>9, <1>10, <1>11 DEF Next

LEMMA RowsInvariant == Spec => [](Inv /\ RowInv)
<1>1. Init => Inv /\ RowInv
  BY InitInv, InitRows
<1>2. (Inv /\ RowInv) /\ [Next]_vars => (Inv /\ RowInv)'
  BY NextInv, NextRows
<1> QED
  BY <1>1, <1>2, PTL DEF Spec

\* With nothing left to write or to answer the rows say what is so, whatever
\* was armed, stopped, paused, bound or ended and in whatever order the worker
\* came to it; after a restart nothing of before is shown as live.
THEOREM RowsTellTrueEver == Spec => []RowsTellTrue
<1>1. Inv /\ RowInv => RowsTellTrue
  <2> SUFFICES ASSUME Inv, RowInv, calm, runner.queue = << >>, Settled, \A c \in Callers : call[c].op = "idle"
               PROVE  /\ \A n \in DOMAIN runRows :
                            IF \E r \in Runs : runner.run[r].row = n
                            THEN \E r \in Runs : runner.run[r].row = n /\ runRows[n] = Shown(r)
                            ELSE /\ runRows[n] \notin {"armed", "paused"}
                                 /\ \A key \in DOMAIN macroRows[n] : macroRows[n][key] \notin {"running", "listening"}
                      /\ \A i \in Instances :
                            LET x == runner.inst[i]
                                held == {j \in Of(runner, x.run) : runner.inst[j].key = x.key}
                            IN  x.key # None =>
                                LET status == macroRows[runner.run[x.run].row][x.key] IN
                                IF \E j \in held : Alive(runner.inst[j]) THEN Alive(x) => status = x.status
                                ELSE \E j \in held : status = runner.inst[j].status
    BY Zenon DEF RowsTellTrue
  <2>1. RunsFit /\ Earlier /\ Counted /\ Tells(Now, runner, {}) /\ Shape(runner)
    BY CalmFacts DEF RowInv
  <2>2. /\ Settling = {} /\ Now.macros = macroRows /\ Now.runs = runRows /\ Now.settling = Settling
        /\ \A n : n \notin DOMAIN runner.queue
    BY DEF Now, Settling
  <2>3. /\ DOMAIN runRows \subseteq Runs
        /\ \A r \in Runs : runner.run[r].row # None => runner.run[r].row \in Runs
    BY <2>1, RowsAreFew
  <2>4. ASSUME NEW n \in DOMAIN runRows
        PROVE  IF \E r \in Runs : runner.run[r].row = n
               THEN \E r \in Runs : runner.run[r].row = n /\ runRows[n] = Shown(r)
               ELSE /\ runRows[n] \notin {"armed", "paused"}
                    /\ \A key \in DOMAIN macroRows[n] : macroRows[n][key] \notin {"running", "listening"}
    <3>1. n \in Runs /\ n # None
      BY <2>3, MacroRunsAssumption DEF Runs, None
    <3>2. ASSUME NEW r \in Runs, runner.run[r].row = n PROVE runRows[n] = Shown(r)
      <4>1. RunTold(Now, runner, r)
        BY <2>1 DEF Tells
      <4> QED
        BY <2>2, <3>1, <3>2, <4>1 DEF RunTold, Shown, ShownAs
    <3>3. ASSUME ~\E r \in Runs : runner.run[r].row = n
          PROVE  /\ runRows[n] \notin {"armed", "paused"}
                 /\ \A key \in DOMAIN macroRows[n] : macroRows[n][key] \notin {"running", "listening"}
      <4>1. Unnamed(n)
        BY <3>3 DEF Unnamed
      <4>2. Dead(runRows[n])
        <5>1. \A c \in Callers : call[c].op # "name"
          OBVIOUS
        <5> QED
          BY <2>1, <4>1, <5>1 DEF Earlier
      <4>3. \A k \in RowKeys : macroRows[n][k] \notin Lives
        BY <2>1, <3>1, <4>1 DEF Earlier
      <4>4. DOMAIN macroRows[n] = RowKeys
        BY <3>1 DEF Inv, TypeOK, RowsOK
      <4> QED
        BY <4>2, <4>3, <4>4 DEF Dead, Lives
    <3> QED
      BY <3>2, <3>3
  <2>5. ASSUME NEW i \in Instances, runner.inst[i].key # None
        PROVE  LET x == runner.inst[i]
                   held == {j \in Of(runner, x.run) : runner.inst[j].key = x.key}
                   status == macroRows[runner.run[x.run].row][x.key]
               IN  IF \E j \in held : Alive(runner.inst[j]) THEN Alive(x) => status = x.status
                   ELSE \E j \in held : status = runner.inst[j].status
    <3> DEFINE x == runner.inst[i]
               held == {j \in Of(runner, x.run) : runner.inst[j].key = x.key}
               status == macroRows[runner.run[x.run].row][x.key]
    <3>1. Said(Now, runner, i, {})
      BY <2>1 DEF Tells
    <3>2. \A v : Says(Now, runner, x.run, x.key, v) => status = v
      BY <2>2 DEF Says, LastSays
    <3>3. i \in held /\ \A j \in Instances : SameRow(x, runner.inst[j]) => j \in held
      BY DEF Of, SameRow
    <3>4. ~x.flow["main"].busy
      BY DEF Settled, Flows
    <3> HIDE DEF held, status
    <3>5. ASSUME Alive(x) PROVE status = x.status
      BY <2>5, <3>1, <3>2, <3>4, <3>5 DEF Said
    <3>6. ASSUME ~\E j \in held : Alive(runner.inst[j]) PROVE \E j \in held : status = runner.inst[j].status
      <4>1. ~Alive(x)
        BY <3>3, <3>6
      <4>2. PICK j \in Instances : /\ SameRow(x, runner.inst[j])
                                   /\ Alive(runner.inst[j]) \/ Says(Now, runner, x.run, x.key, runner.inst[j].status)
        BY <2>5, <3>1, <4>1 DEF Said
      <4> QED
        BY <3>2, <3>3, <3>6, <4>2
    <3> QED
      BY <3>5, <3>6, Zenon DEF held, status
  <2> QED
    BY <2>4, <2>5, Zenon
<1> QED
  BY <1>1, RowsInvariant, PTL

=============================================================================
