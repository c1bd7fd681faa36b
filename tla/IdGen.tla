------------------------------- MODULE IdGen -------------------------------
(***************************************************************************)
(* The ID generator (fix/idgen.py): counters kept in memory and saved in    *)
(* fix_id_state before an ID is handed out, and the instance code of the    *)
(* -i option, saved in fix_settings, over the runs of a process that may    *)
(* die at any moment.                                                       *)
(*                                                                          *)
(* The callers of next_id are tasks of the event loop.  They queue for an   *)
(* asyncio.Lock, which is given to them in order; its holder awaits reads   *)
(* and writes of the database, and may be cancelled or find its write       *)
(* refused at any of them.  The writer commits in the order of submission.  *)
(* Nothing of a run survives it but what was committed.                     *)
(***************************************************************************)
EXTENDS Integers, SequencesExt

CONSTANTS TypeCodes,     \* the kinds of ID
          Callers,      \* tasks that ask for IDs
          Codes,        \* instance codes an operator may give with -i
          UserCode,     \* the code derived from the username
          MaxAsks,      \* bound: calls made
          MaxRuns       \* bound: runs of the process

NoOne == "nobody"
NoCode == "no code"     \* _instance_id is None; no code saved
Keep == "keep"          \* the run has no -i
StartOnly == "start"    \* a call of start(), which mints nothing

ASSUME IdAssumption ==
    /\ NoOne \notin Callers /\ StartOnly \notin TypeCodes
    /\ UserCode # NoCode /\ NoCode \notin Codes /\ Keep \notin Codes \cup {NoCode}
    /\ MaxAsks \in Nat /\ MaxRuns \in Nat

VARIABLES up,           \* the process runs
          choice,       \* _explicit_code: a code of -i, NoCode for '', or Keep
          code,         \* _instance_id
          counters,     \* _counters
          waiters,      \* callers queued for the lock
          lock,         \* its holder
          pc, want, num,\* where each call is, the prefix asked for, its counter
          queue,        \* writes submitted and not committed
          saved,        \* fix_id_state
          savedCode,    \* the instance_code of fix_settings
          issued,       \* history: the IDs handed out
          asked,        \* history: a run since the last ID was given -i
          asks, runs    \* history: calls and runs so far

memory == << choice, code, counters >>
disk   == << saved, savedCode >>
vars   == << up, memory, waiters, lock, pc, want, num, queue, disk, issued, asked, asks, runs >>

CounterWrite(c, p, n) == [op |-> "counter", owner |-> c, prefix |-> p, n |-> n]
CodeWrite(c, to)      == [op |-> "code", owner |-> c, code |-> to]

Init ==
    /\ up = FALSE /\ choice = Keep /\ code = NoCode
    /\ counters = [p \in TypeCodes |-> 0]
    /\ waiters = << >> /\ lock = NoOne
    /\ pc = [c \in Callers |-> "idle"] /\ want = [c \in Callers |-> StartOnly]
    /\ num = [c \in Callers |-> 0]
    /\ queue = << >>
    /\ saved = [p \in TypeCodes |-> 0] /\ savedCode = NoCode
    /\ issued = << >> /\ asked = FALSE /\ asks = 0 /\ runs = 0

-----------------------------------------------------------------------------
(* The process.                                                             *)

\* A run begins, with -i CODE, with -i '' (NoCode) or without -i.
Run(ch) ==
    /\ ~up /\ runs < MaxRuns
    /\ up' = TRUE /\ runs' = runs + 1
    /\ choice' = ch /\ code' = NoCode
    /\ counters' = [p \in TypeCodes |-> 0]
    /\ asked' = (asked \/ ch # Keep)
    /\ UNCHANGED << waiters, lock, pc, want, num, queue, disk, issued, asks >>

\* It ends, or dies: what was not committed is lost.
Die ==
    /\ up /\ up' = FALSE
    /\ code' = NoCode
    /\ waiters' = << >> /\ lock' = NoOne
    /\ pc' = [c \in Callers |-> "idle"]
    /\ queue' = << >>
    /\ UNCHANGED << choice, counters, want, num, disk, issued, asked, asks, runs >>

\* The writer commits the oldest write.
Commit ==
    /\ queue # << >> /\ queue' = Tail(queue)
    /\ LET w == Head(queue)
       IN  \/ /\ w.op = "counter"
              /\ saved' = [saved EXCEPT ![w.prefix] = w.n]
              /\ UNCHANGED savedCode
           \/ /\ w.op = "code"
              /\ savedCode' = w.code
              /\ UNCHANGED saved
    /\ UNCHANGED << up, memory, waiters, lock, pc, want, num, issued, asked, asks, runs >>

-----------------------------------------------------------------------------
(* A call.                                                                  *)

\* next_id(what), or start().
Call(c, what) ==
    /\ up /\ pc[c] = "idle" /\ asks < MaxAsks /\ asks' = asks + 1
    /\ pc' = [pc EXCEPT ![c] = "waiting"] /\ want' = [want EXCEPT ![c] = what]
    /\ waiters' = Append(waiters, c)
    /\ UNCHANGED << up, memory, lock, num, queue, disk, issued, asked, runs >>

\* A counter is taken and its write submitted; a call of start() is done.
Count(c, current) ==
    IF want[c] = StartOnly
    THEN /\ pc' = [pc EXCEPT ![c] = "idle"] /\ lock' = NoOne
         /\ counters' = current
         /\ UNCHANGED << num, queue >>
    ELSE LET n == current[want[c]] + 1
         IN  /\ counters' = [current EXCEPT ![want[c]] = n]
             /\ num' = [num EXCEPT ![c] = n]
             /\ queue' = Append(queue, CounterWrite(c, want[c], n))
             /\ pc' = [pc EXCEPT ![c] = "saving"] /\ lock' = c

\* The lock goes to the first in the queue.  _start_locked returns at once when
\* the instance code is known.
Acquire(c) ==
    /\ lock = NoOne /\ waiters # << >> /\ Head(waiters) = c
    /\ waiters' = Tail(waiters)
    /\ IF code # NoCode
       THEN Count(c, counters)
       ELSE /\ lock' = c /\ pc' = [pc EXCEPT ![c] = "loading"]
            /\ UNCHANGED << counters, num, queue >>
    /\ UNCHANGED << up, choice, code, want, disk, issued, asked, asks, runs >>

\* A plausible bug: the counters begin at 1 in every run.
SavedCountersNot == counters

SavedCounters == saved

\* A plausible bug: without -i the saved code is not looked up.
ResolvedCodeUser == IF choice \in Codes THEN choice ELSE UserCode

\* The code in effect: a code given, else the saved one, else the username's.
ResolvedCode ==
    IF choice \in Codes THEN choice
    ELSE IF choice = Keep /\ savedCode # NoCode THEN savedCode ELSE UserCode

\* _start_locked reads the counters; a run without -i reads the code as well
\* and is started, any other first saves the code it was given.
Load(c) ==
    /\ pc[c] = "loading"
    /\ IF choice = Keep
       THEN /\ code' = ResolvedCode
            /\ Count(c, SavedCounters)
       ELSE /\ counters' = SavedCounters
            /\ queue' = Append(queue, CodeWrite(c, choice))
            /\ pc' = [pc EXCEPT ![c] = "setting"]
            /\ UNCHANGED << code, lock, num >>
    /\ UNCHANGED << up, choice, waiters, want, disk, issued, asked, asks, runs >>

\* The write c awaits is committed.
Committed(c) == \A i \in DOMAIN queue : queue[i].owner # c

Started(c) ==
    /\ pc[c] = "setting" /\ Committed(c)
    /\ code' = ResolvedCode
    /\ Count(c, counters)
    /\ UNCHANGED << up, choice, waiters, want, disk, issued, asked, asks, runs >>

\* The ID is handed out.
Return(c) ==
    /\ pc[c] = "saving" /\ Committed(c)
    /\ issued' = Append(issued, [prefix |-> want[c], code |-> code, n |-> num[c], asked |-> asked])
    /\ asked' = FALSE
    /\ pc' = [pc EXCEPT ![c] = "idle"] /\ lock' = NoOne
    /\ UNCHANGED << up, memory, waiters, want, num, queue, disk, asks, runs >>

\* A plausible bug: the lock is not released when the call ends by an exception.
LockAfterNotReleased(c) == lock

\* async with: the lock is free again however the call of c ends.
LockAfter(c) == IF lock = c THEN NoOne ELSE lock

\* The caller is cancelled at an await; a write it submitted goes on without it.
Cancel(c) ==
    /\ pc[c] # "idle"
    /\ pc' = [pc EXCEPT ![c] = "idle"] /\ lock' = LockAfter(c)
    /\ \/ pc[c] # "waiting" /\ UNCHANGED waiters
       \/ \E i \in DOMAIN waiters : waiters[i] = c /\ waiters' = RemoveAt(waiters, i)
    /\ queue' = [i \in DOMAIN queue |->
                    IF queue[i].owner = c THEN [queue[i] EXCEPT !.owner = NoOne] ELSE queue[i]]
    /\ UNCHANGED << up, memory, want, num, disk, issued, asked, asks, runs >>

\* The oldest write is refused, and whoever awaits it gets the exception.
Refuse ==
    /\ queue # << >> /\ queue' = Tail(queue)
    /\ LET c == Head(queue).owner
       IN  IF c = NoOne
           THEN UNCHANGED << pc, lock >>
           ELSE pc' = [pc EXCEPT ![c] = "idle"] /\ lock' = LockAfter(c)
    /\ UNCHANGED << up, memory, waiters, want, num, disk, issued, asked, asks, runs >>

Proceed(c) == Acquire(c) \/ Load(c) \/ Started(c) \/ Return(c)

Next ==
    \/ \E ch \in Codes \cup {NoCode, Keep} : Run(ch)
    \/ Die \/ Commit \/ Refuse
    \/ \E c \in Callers : Proceed(c) \/ Cancel(c) \/ \E what \in TypeCodes \cup {StartOnly} : Call(c, what)

\* The event loop runs every task that can run, and the writer commits.
Fairness == WF_vars(Commit) /\ \A c \in Callers : WF_vars(Proceed(c))

Spec == Init /\ [][Next]_vars

FairSpec == Spec /\ Fairness

-----------------------------------------------------------------------------
(* Properties.                                                              *)

Locked == {"loading", "setting", "saving"}
SomeCode == Codes \cup {UserCode}

CounterWrites == [op : {"counter"}, owner : Callers \cup {NoOne}, prefix : TypeCodes, n : Nat]
CodeWrites    == [op : {"code"}, owner : Callers \cup {NoOne}, code : Codes \cup {NoCode}]
Writes        == CounterWrites \cup CodeWrites
Ids           == [prefix : TypeCodes, code : SomeCode, n : Nat, asked : BOOLEAN]

TypeOK ==
    /\ up \in BOOLEAN /\ choice \in Codes \cup {NoCode, Keep} /\ code \in SomeCode \cup {NoCode}
    /\ counters \in [TypeCodes -> Nat]
    /\ waiters \in Seq(Callers) /\ lock \in Callers \cup {NoOne}
    /\ pc \in [Callers -> {"idle", "waiting"} \cup Locked]
    /\ want \in [Callers -> TypeCodes \cup {StartOnly}] /\ num \in [Callers -> Nat]
    /\ queue \in Seq(Writes)
    /\ saved \in [TypeCodes -> Nat] /\ savedCode \in Codes \cup {NoCode}
    /\ issued \in Seq(Ids) /\ asked \in BOOLEAN /\ asks \in Nat /\ runs \in Nat

\* No ID is handed out twice, over all runs: of each prefix the counter goes
\* up, whichever task asks, whatever calls are cancelled or fail, and whenever
\* the process dies (next_id saves the counter before it returns).
IdsGoUp ==
    \A i, j \in DOMAIN issued :
        i < j /\ issued[i].prefix = issued[j].prefix => issued[i].n < issued[j].n

\* The instance code of the IDs changes only when an operator gave -i, to a
\* code or to '', since the last ID ("reused by later runs on the same database
\* until -i is given again").
CodeKept ==
    \A i \in DOMAIN issued :
        i > 1 /\ issued[i].code # issued[i - 1].code => issued[i].asked

\* Every call ends: with an ID, an exception or a cancellation (the lock is
\* never left behind).
CallsEnd == \A c \in Callers : pc[c] # "idle" ~> pc[c] = "idle"
=============================================================================
