---------------------------- MODULE IdGenProofs ----------------------------
(***************************************************************************)
(* Proofs about the ID generator, for any prefixes, callers and codes: no   *)
(* ID is handed out twice over all runs, and the instance code of the IDs   *)
(* changes only when -i was given.                                          *)
(***************************************************************************)
EXTENDS IdGen, TLAPS

(* What a run that ended leaves, who holds the lock, and what the lock      *)
(* protects: whether the generator is started.                              *)

DownOK == ~up => queue = << >> /\ waiters = << >> /\ code = NoCode /\ \A c \in Callers : pc[c] = "idle"

LockOK == \A c \in Callers : pc[c] \in Locked <=> lock = c

StageOK ==
    \A c \in Callers :
        /\ pc[c] = "saving" => code # NoCode /\ want[c] \in TypeCodes
        /\ pc[c] \in {"loading", "setting"} => code = NoCode

Base == TypeOK /\ DownOK /\ LockOK /\ StageOK

(* Counters: what is saved, what is queued, what is in memory and what was  *)
(* issued, in this order.                                                   *)

IsCounter(i, p) == queue[i].op = "counter" /\ queue[i].prefix = p

QueueOK ==
    \A i \in DOMAIN queue, p \in TypeCodes : IsCounter(i, p) =>
        /\ code # NoCode
        /\ saved[p] < queue[i].n /\ queue[i].n <= counters[p]
        /\ \A j \in DOMAIN queue : i < j /\ IsCounter(j, p) => queue[i].n < queue[j].n

CountersOK ==
    (code # NoCode \/ \E c \in Callers : pc[c] = "setting")
        => \A p \in TypeCodes : saved[p] <= counters[p]

IssuedOK == \A i \in DOMAIN issued : issued[i].n <= saved[issued[i].prefix]

\* An ID being saved is above all issued, and saved once its write is gone.
MintedOK ==
    \A c \in Callers : pc[c] = "saving" =>
        /\ \A i \in DOMAIN issued : issued[i].prefix = want[c] => issued[i].n < num[c]
        /\ \/ num[c] <= saved[want[c]]
           \/ \E i \in DOMAIN queue : /\ IsCounter(i, want[c])
                                      /\ queue[i].owner = c /\ queue[i].n = num[c]

CountOK == QueueOK /\ CountersOK /\ IssuedOK /\ MintedOK /\ IdsGoUp

(* Codes: the code in effect is the one a later run without -i will find.   *)

NextCode == IF savedCode # NoCode THEN savedCode ELSE UserCode

NoCodeWrites == \A i \in DOMAIN queue : queue[i].op # "code"

\* A call that saves the code waits for the last write of the queue.
SettingOK ==
    \A c \in Callers : pc[c] = "setting" =>
        \/ queue = << >> /\ savedCode = choice
        \/ queue # << >> /\ queue[Len(queue)].op = "code"
           /\ queue[Len(queue)].owner = c /\ queue[Len(queue)].code = choice

InEffectOK == code # NoCode => NoCodeWrites /\ code = NextCode

\* Without -i since the last ID, a later run finds the code of that ID.
LastOK ==
    ~asked => /\ up => code # NoCode \/ choice = Keep
              /\ NoCodeWrites
              /\ issued # << >> => issued[Len(issued)].code = NextCode

\* A run without -i saves no code.
KeepOK == choice = Keep => NoCodeWrites /\ \A c \in Callers : pc[c] # "setting"

CodeOK == SettingOK /\ InEffectOK /\ LastOK /\ KeepOK /\ CodeKept

-----------------------------------------------------------------------------
(* Sequences.                                                               *)

\* The rest of a queue is the queue one place earlier.
LEMMA TailFacts ==
    ASSUME NEW S, NEW q \in Seq(S), q # << >>
    PROVE  /\ Tail(q) \in Seq(S) /\ Head(q) = q[1] /\ Head(q) \in S /\ 1 \in DOMAIN q
           /\ Len(Tail(q)) = Len(q) - 1
           /\ \A i \in DOMAIN Tail(q) : i + 1 \in DOMAIN q /\ Tail(q)[i] = q[i + 1] /\ i \in Nat
           /\ \A i \in DOMAIN q : i # 1 => i - 1 \in DOMAIN Tail(q) /\ Tail(q)[i - 1] = q[i]
<1>1. Len(q) \in Nat /\ DOMAIN q = 1 .. Len(q) /\ Len(q) > 0 /\ \A i \in 1 .. Len(q) : q[i] \in S
    OBVIOUS
<1>2. Tail(q) \in Seq(S) /\ Len(Tail(q)) = Len(q) - 1 /\ DOMAIN Tail(q) = 1 .. Len(q) - 1
    BY <1>1
<1>3. \A i \in 1 .. Len(q) - 1 : Tail(q)[i] = q[i + 1]
    BY <1>1
<1>4. Head(q) = q[1]
    OBVIOUS
<1>5. \A i \in 1 .. Len(q) : i # 1 => i - 1 \in 1 .. Len(q) - 1 /\ Tail(q)[i - 1] = q[i]
    <2> TAKE i \in 1 .. Len(q)
    <2> HAVE i # 1
    <2>1. i - 1 \in 1 .. Len(q) - 1 /\ (i - 1) + 1 = i
        BY <1>1
    <2> QED
        BY <2>1, <1>3
<1>6. \A i \in 1 .. Len(q) - 1 : i + 1 \in 1 .. Len(q) /\ i \in Nat
    BY <1>1
<1>7. 1 \in 1 .. Len(q) /\ q[1] \in S
    BY <1>1
<1>8. DOMAIN q = 1 .. Len(q) /\ DOMAIN Tail(q) = 1 .. Len(q) - 1
    BY <1>1, <1>2
<1>9. \A i \in DOMAIN Tail(q) : i + 1 \in DOMAIN q /\ Tail(q)[i] = q[i + 1] /\ i \in Nat
    BY <1>3, <1>6, <1>8
<1>10. \A i \in DOMAIN q : i # 1 => i - 1 \in DOMAIN Tail(q) /\ Tail(q)[i - 1] = q[i]
    BY <1>5, <1>8
<1>11. Head(q) \in S /\ 1 \in DOMAIN q
    BY <1>4, <1>7, <1>8
<1> QED
    BY <1>2, <1>4, <1>9, <1>10, <1>11

\* An element appended comes after all others, which keep their places.
LEMMA AppendFacts ==
    ASSUME NEW S, NEW q \in Seq(S), NEW e \in S
    PROVE  /\ Append(q, e) \in Seq(S) /\ Len(Append(q, e)) = Len(q) + 1 /\ Append(q, e) # << >>
           /\ Append(q, e)[Len(q) + 1] = e
           /\ \A i \in DOMAIN q : i \in DOMAIN Append(q, e) /\ Append(q, e)[i] = q[i] /\ i < Len(q) + 1 /\ i \in Nat
           /\ \A i \in DOMAIN Append(q, e) : i \in DOMAIN q \/ i = Len(q) + 1
           /\ Len(q) + 1 \in DOMAIN Append(q, e) /\ Len(q) + 1 \notin DOMAIN q /\ Len(q) \in Nat
<1>1. Len(q) \in Nat /\ DOMAIN q = 1 .. Len(q)
    OBVIOUS
<1>2. Append(q, e) \in Seq(S) /\ Len(Append(q, e)) = Len(q) + 1 /\ DOMAIN Append(q, e) = 1 .. Len(q) + 1
    BY <1>1
<1>3. Append(q, e)[Len(q) + 1] = e /\ \A i \in 1 .. Len(q) : Append(q, e)[i] = q[i]
    BY <1>1
<1>4. \A i \in DOMAIN q : i \in DOMAIN Append(q, e) /\ Append(q, e)[i] = q[i] /\ i < Len(q) + 1 /\ i \in Nat
    BY <1>1, <1>2, <1>3
<1>5. \A i \in DOMAIN Append(q, e) : i \in DOMAIN q \/ i = Len(q) + 1
    BY <1>1, <1>2
<1>6. Len(q) + 1 \in DOMAIN Append(q, e) /\ Len(q) + 1 \notin DOMAIN q
    BY <1>1, <1>2
<1>7. Append(q, e) # << >>
    BY <1>1, <1>2
<1> QED
    BY <1>1, <1>2, <1>3, <1>4, <1>5, <1>6, <1>7

-----------------------------------------------------------------------------
(* Types, the lock and what it protects.                                    *)

\* What Count does to the call, the lock and the types.
LEMMA CountBase ==
    ASSUME TypeOK, NEW c \in Callers, NEW current \in [TypeCodes -> Nat], Count(c, current)
    PROVE  /\ counters' \in [TypeCodes -> Nat] /\ num' \in [Callers -> Nat] /\ queue' \in Seq(Writes)
           /\ \/ pc' = [pc EXCEPT ![c] = "idle"] /\ lock' = NoOne
              \/ pc' = [pc EXCEPT ![c] = "saving"] /\ lock' = c /\ want[c] \in TypeCodes
<1>1. /\ pc \in [Callers -> {"idle", "waiting"} \cup Locked] /\ want \in [Callers -> TypeCodes \cup {StartOnly}]
      /\ num \in [Callers -> Nat] /\ queue \in Seq(Writes)
    BY DEF TypeOK
<1>2. CASE want[c] = StartOnly
    BY <1>1, <1>2 DEF Count
<1>3. CASE want[c] # StartOnly
    <2> DEFINE n == current[want[c]] + 1
    <2>1. want[c] \in TypeCodes
        BY <1>1, <1>3
    <2>2. n \in Nat
        BY <2>1
    <2>3. /\ counters' = [current EXCEPT ![want[c]] = n] /\ num' = [num EXCEPT ![c] = n]
          /\ queue' = Append(queue, CounterWrite(c, want[c], n))
          /\ pc' = [pc EXCEPT ![c] = "saving"] /\ lock' = c
        BY <1>3 DEF Count
    <2> HIDE DEF n
    <2>4. CounterWrite(c, want[c], n) \in Writes
        BY <2>1, <2>2 DEF CounterWrite, Writes, CounterWrites
    <2>5. queue' \in Seq(Writes)
        BY <1>1, <2>3, <2>4, AppendFacts
    <2> QED
        BY <1>1, <2>1, <2>2, <2>3, <2>5
<1> QED
    BY <1>2, <1>3

\* The code in effect is one.
LEMMA ResolvedType ==
    ASSUME TypeOK
    PROVE  ResolvedCode \in SomeCode /\ ResolvedCode # NoCode /\ SavedCounters \in [TypeCodes -> Nat]
BY IdAssumption DEF TypeOK, ResolvedCode, SomeCode, SavedCounters

LEMMA BaseInit == Init => Base
<1> SUFFICES ASSUME Init PROVE Base
    OBVIOUS
<1>1. TypeOK
    <2>1. << >> \in Seq(Callers) /\ << >> \in Seq(Writes) /\ << >> \in Seq(Ids)
        OBVIOUS
    <2>2. /\ counters \in [TypeCodes -> Nat] /\ saved \in [TypeCodes -> Nat] /\ num \in [Callers -> Nat]
          /\ want \in [Callers -> TypeCodes \cup {StartOnly}]
          /\ pc \in [Callers -> {"idle", "waiting"} \cup Locked]
        BY DEF Init
    <2> QED
        BY <2>1, <2>2 DEF Init, TypeOK
<1>2. LockOK
    BY IdAssumption DEF Init, LockOK, Locked
<1> QED
    BY <1>1, <1>2 DEF Base, Init, DownOK, StageOK

\* A call that has the lock, or takes it when it is free, keeps or releases it.
LEMMA LockMoves ==
    ASSUME TypeOK, LockOK, NEW c \in Callers, lock \in {NoOne, c}, NEW x,
           pc' = [pc EXCEPT ![c] = x],
           (x \in Locked /\ lock' = c) \/ (x \notin Locked /\ lock' = NoOne)
    PROVE  LockOK'
<1>1. pc \in [Callers -> {"idle", "waiting"} \cup Locked] /\ NoOne \notin Callers
    BY IdAssumption DEF TypeOK
<1>2. \A d \in Callers : pc'[d] = IF d = c THEN x ELSE pc[d]
    BY <1>1
<1> QED
    BY <1>1, <1>2 DEF LockOK

\* A call that ends where it is gives the lock back if it has it.
LEMMA LockGivenBack ==
    ASSUME TypeOK, LockOK, NEW c \in Callers, pc' = [pc EXCEPT ![c] = "idle"], lock' = LockAfter(c)
    PROVE  LockOK' /\ lock' \in Callers \cup {NoOne}
<1>1. /\ pc \in [Callers -> {"idle", "waiting"} \cup Locked] /\ NoOne \notin Callers
      /\ lock \in Callers \cup {NoOne}
    BY IdAssumption DEF TypeOK
<1>2. \A d \in Callers : pc'[d] = IF d = c THEN "idle" ELSE pc[d]
    BY <1>1
<1>3. "idle" \notin Locked
    BY DEF Locked
<1> QED
    BY <1>1, <1>2, <1>3 DEF LockOK, LockAfter

\* After Count of the holder of the lock, or of the first to take it.
LEMMA CountKeepsBase ==
    ASSUME Base, NEW c \in Callers, NEW current \in [TypeCodes -> Nat], Count(c, current),
           lock \in {NoOne, c}, up, code' \in SomeCode, code' # NoCode,
           \A d \in Callers : d # c => pc[d] \notin {"loading", "setting"},
           UNCHANGED << up, choice, want, disk, issued, asked, asks, runs >>,
           waiters' \in Seq(Callers)
    PROVE  Base'
<1>0. TypeOK /\ LockOK /\ StageOK
    BY DEF Base
<1>1. /\ counters' \in [TypeCodes -> Nat] /\ num' \in [Callers -> Nat] /\ queue' \in Seq(Writes)
      /\ \/ pc' = [pc EXCEPT ![c] = "idle"] /\ lock' = NoOne
         \/ pc' = [pc EXCEPT ![c] = "saving"] /\ lock' = c /\ want[c] \in TypeCodes
    BY <1>0, CountBase
<1>2. pc \in [Callers -> {"idle", "waiting"} \cup Locked]
    BY <1>0 DEF TypeOK
<1>3. "saving" \in Locked /\ "idle" \notin Locked
    BY DEF Locked
<1>4. LockOK'
    BY <1>0, <1>1, <1>3, LockMoves
<1>5. TypeOK'
    BY <1>0, <1>1, <1>2, <1>3 DEF TypeOK, disk
<1>6. StageOK'
    <2>1. \A d \in Callers : pc'[d] = IF d = c THEN pc'[c] ELSE pc[d]
        BY <1>1, <1>2
    <2>2. pc'[c] = "idle" \/ (pc'[c] = "saving" /\ want[c] \in TypeCodes)
        BY <1>1, <1>2
    <2> QED
        BY <1>0, <2>1, <2>2 DEF StageOK
<1>7. DownOK'
    BY DEF DownOK
<1> QED
    BY <1>4, <1>5, <1>6, <1>7 DEF Base

\* Only the holder of the lock loads, sets or saves.
LEMMA OnlyHolder ==
    ASSUME Base, NEW c \in Callers, pc[c] \in Locked
    PROVE  /\ lock = c /\ up
           /\ \A d \in Callers : d # c => pc[d] \notin Locked
BY DEF Base, LockOK, DownOK, Locked

LEMMA BaseStep == Base /\ [Next]_vars => Base'
<1> SUFFICES ASSUME Base, [Next]_vars PROVE Base'
    OBVIOUS
<1>0. TypeOK /\ DownOK /\ LockOK /\ StageOK
    BY DEF Base
<1>t. /\ up \in BOOLEAN /\ choice \in Codes \cup {NoCode, Keep} /\ code \in SomeCode \cup {NoCode}
      /\ counters \in [TypeCodes -> Nat]
      /\ waiters \in Seq(Callers) /\ lock \in Callers \cup {NoOne}
      /\ pc \in [Callers -> {"idle", "waiting"} \cup Locked]
      /\ want \in [Callers -> TypeCodes \cup {StartOnly}] /\ num \in [Callers -> Nat]
      /\ queue \in Seq(Writes)
      /\ saved \in [TypeCodes -> Nat] /\ savedCode \in Codes \cup {NoCode}
      /\ issued \in Seq(Ids) /\ asked \in BOOLEAN /\ asks \in Nat /\ runs \in Nat
    BY <1>0 DEF TypeOK
<1>c. NoOne \notin Callers /\ StartOnly \notin TypeCodes /\ NoCode \notin SomeCode
    BY IdAssumption DEF SomeCode
<1>l. {"loading", "setting", "saving"} \subseteq Locked /\ "idle" \notin Locked /\ "waiting" \notin Locked
    BY DEF Locked
<1>1. ASSUME NEW ch \in Codes \cup {NoCode, Keep}, Run(ch) PROVE Base'
    <2>1. \A c \in Callers : pc[c] = "idle"
        BY <1>1, <1>0 DEF Run, DownOK
    <2>2. [p \in TypeCodes |-> 0] \in [TypeCodes -> Nat] /\ runs + 1 \in Nat
        BY <1>t
    <2>3. TypeOK'
        BY <1>1, <1>t, <2>2, <1>0 DEF Run, TypeOK, disk
    <2>4. LockOK' /\ StageOK'
        BY <1>1, <1>0, <2>1 DEF Run, LockOK, StageOK
    <2> QED
        BY <1>1, <2>3, <2>4 DEF Run, Base, DownOK
<1>2. CASE Die
    <2>1. << >> \in Seq(Callers) /\ << >> \in Seq(Writes)
        OBVIOUS
    <2>2. pc' = [c \in Callers |-> "idle"] /\ pc' \in [Callers -> {"idle", "waiting"} \cup Locked]
        BY <1>2 DEF Die
    <2>3. TypeOK'
        BY <1>2, <1>t, <2>1, <2>2 DEF Die, TypeOK, disk
    <2>4. \A c \in Callers : pc'[c] = "idle"
        BY <2>2
    <2>5. DownOK' /\ StageOK'
        BY <1>2, <2>4 DEF Die, DownOK, StageOK
    <2>6. LockOK'
        BY <1>2, <2>4, <1>c, <1>l DEF Die, LockOK
    <2> QED
        BY <2>3, <2>5, <2>6 DEF Base
<1>3. CASE Commit
    <2>1. queue # << >> /\ queue' = Tail(queue) /\ queue' \in Seq(Writes) /\ Head(queue) \in Writes
        BY <1>3, <1>t, TailFacts DEF Commit
    <2>2. saved' \in [TypeCodes -> Nat] /\ savedCode' \in Codes \cup {NoCode}
        BY <1>3, <1>t, <2>1 DEF Commit, Writes, CounterWrites, CodeWrites
    <2>3. UNCHANGED << up, memory, waiters, lock, pc, want, num, issued, asked, asks, runs >>
        BY <1>3 DEF Commit
    <2>4. TypeOK'
        BY <1>t, <2>1, <2>2, <2>3 DEF TypeOK, memory
    <2>5. DownOK'
        BY <1>0, <2>1, <2>3 DEF DownOK, memory
    <2>6. LockOK' /\ StageOK'
        BY <1>0, <2>3 DEF LockOK, StageOK, memory
    <2> QED
        BY <2>4, <2>5, <2>6 DEF Base
<1>4. CASE Refuse
    <2>1. queue # << >> /\ queue' = Tail(queue) /\ queue' \in Seq(Writes) /\ Head(queue) \in Writes
        BY <1>4, <1>t, TailFacts DEF Refuse
    <2>2. UNCHANGED << up, choice, code, counters, waiters, want, num, saved, savedCode, issued, asked, asks, runs >>
        BY <1>4 DEF Refuse, memory, disk
    <2>3. CASE Head(queue).owner = NoOne
        <3>1. UNCHANGED << pc, lock >>
            BY <1>4, <2>3 DEF Refuse
        <3>2. TypeOK'
            BY <1>t, <2>1, <2>2, <3>1 DEF TypeOK
        <3>3. DownOK' /\ LockOK' /\ StageOK'
            BY <1>0, <2>1, <2>2, <3>1 DEF DownOK, LockOK, StageOK
        <3> QED
            BY <3>2, <3>3 DEF Base
    <2>4. CASE Head(queue).owner # NoOne
        <3>1. PICK c \in Callers : c = Head(queue).owner
            BY <2>1, <2>4 DEF Writes, CounterWrites, CodeWrites
        <3>2. pc' = [pc EXCEPT ![c] = "idle"] /\ lock' = LockAfter(c)
            BY <1>4, <2>4, <3>1 DEF Refuse
        <3>3. LockOK' /\ lock' \in Callers \cup {NoOne}
            BY <1>0, <3>2, LockGivenBack
        <3>4. TypeOK'
            BY <1>t, <2>1, <2>2, <3>2, <3>3 DEF TypeOK
        <3>5. \A d \in Callers : pc'[d] = IF d = c THEN "idle" ELSE pc[d]
            BY <1>t, <3>2
        <3>6. DownOK' /\ StageOK'
            BY <1>0, <2>1, <2>2, <3>5 DEF DownOK, StageOK
        <3> QED
            BY <3>3, <3>4, <3>6 DEF Base
    <2> QED
        BY <2>3, <2>4
<1>5. ASSUME NEW c \in Callers, NEW what \in TypeCodes \cup {StartOnly}, Call(c, what) PROVE Base'
    <2>1. /\ up /\ pc[c] = "idle" /\ asks' = asks + 1
          /\ pc' = [pc EXCEPT ![c] = "waiting"] /\ want' = [want EXCEPT ![c] = what]
          /\ waiters' = Append(waiters, c)
          /\ UNCHANGED << up, choice, code, counters, lock, num, queue, saved, savedCode, issued, asked, runs >>
        BY <1>5 DEF Call, memory, disk
    <2>2. \A d \in Callers : pc'[d] = IF d = c THEN "waiting" ELSE pc[d]
        BY <1>t, <2>1
    <2>3. \A d \in Callers : d # c => want'[d] = want[d]
        BY <1>t, <2>1
    <2>4. waiters' \in Seq(Callers) /\ asks' \in Nat
        BY <1>t, <2>1, AppendFacts
    <2>5. want' \in [Callers -> TypeCodes \cup {StartOnly}] /\ pc' \in [Callers -> {"idle", "waiting"} \cup Locked]
        BY <1>t, <2>1
    <2>6. TypeOK'
        BY <1>t, <2>1, <2>4, <2>5 DEF TypeOK
    <2>7. DownOK' /\ StageOK'
        BY <1>0, <2>1, <2>2, <2>3 DEF DownOK, StageOK
    <2>8. LockOK'
        BY <1>0, <1>l, <2>1, <2>2 DEF LockOK
    <2> QED
        BY <2>6, <2>7, <2>8 DEF Base
<1>6. ASSUME NEW c \in Callers, Cancel(c) PROVE Base'
    <2>1. /\ pc[c] # "idle" /\ pc' = [pc EXCEPT ![c] = "idle"] /\ lock' = LockAfter(c)
          /\ \/ UNCHANGED waiters
             \/ \E i \in DOMAIN waiters : waiters' = RemoveAt(waiters, i)
          /\ queue' = [i \in DOMAIN queue |->
                    IF queue[i].owner = c THEN [queue[i] EXCEPT !.owner = NoOne] ELSE queue[i]]
          /\ UNCHANGED << up, choice, code, counters, want, num, saved, savedCode, issued, asked, asks, runs >>
        BY <1>6 DEF Cancel, memory, disk
    <2>2. \A d \in Callers : pc'[d] = IF d = c THEN "idle" ELSE pc[d]
        BY <1>t, <2>1
    <2>3. LockOK' /\ lock' \in Callers \cup {NoOne}
        BY <1>0, <2>1, LockGivenBack
    <2>4. queue' \in Seq(Writes)
        <3>1. \A i \in DOMAIN queue : queue[i] \in Writes
            BY <1>t
        <3>2. \A i \in DOMAIN queue : [queue[i] EXCEPT !.owner = NoOne] \in Writes
            <4> TAKE i \in DOMAIN queue
            <4> DEFINE w == queue[i]
            <4>1. w \in Writes
                BY <3>1
            <4> HIDE DEF w
            <4>2. [w EXCEPT !.owner = NoOne] \in Writes
                BY <4>1 DEF Writes, CounterWrites, CodeWrites
            <4> QED
                BY <4>2 DEF w
        <3>3. Len(queue) \in Nat /\ DOMAIN queue = 1 .. Len(queue)
            BY <1>t
        <3>4. \A i \in 1 .. Len(queue) :
                 (IF queue[i].owner = c THEN [queue[i] EXCEPT !.owner = NoOne] ELSE queue[i]) \in Writes
            BY <3>1, <3>2, <3>3
        <3> QED
            BY <2>1, <3>3, <3>4
    <2>5. waiters' \in Seq(Callers)
        <3>1. ASSUME NEW i \in DOMAIN waiters PROVE RemoveAt(waiters, i) \in Seq(Callers)
            <4>1. SubSeq(waiters, 1, i - 1) \in Seq(Callers) /\ SubSeq(waiters, i + 1, Len(waiters)) \in Seq(Callers)
                BY <1>t
            <4> QED
                BY <4>1 DEF RemoveAt
        <3> QED
            BY <1>t, <2>1, <3>1
    <2>6. TypeOK'
        BY <1>t, <2>1, <2>3, <2>4, <2>5 DEF TypeOK
    <2>7. StageOK'
        BY <1>0, <2>1, <2>2 DEF StageOK
    <2>8. DownOK'
        BY <1>0, <2>1 DEF DownOK
    <2> QED
        BY <2>3, <2>6, <2>7, <2>8 DEF Base
<1>7. ASSUME NEW c \in Callers, Acquire(c) PROVE Base'
    <2>1. /\ lock = NoOne /\ waiters # << >> /\ waiters' = Tail(waiters)
          /\ UNCHANGED << up, choice, code, want, disk, issued, asked, asks, runs >>
          /\ Head(waiters) = c
        BY <1>7 DEF Acquire
    <2>2. waiters' \in Seq(Callers)
        BY <1>t, <2>1, TailFacts
    <2>3. \A d \in Callers : pc[d] \notin Locked
        BY <1>0, <1>c, <2>1 DEF LockOK
    <2>4. CASE code # NoCode
        <3>1. Count(c, counters) /\ up
            BY <1>7, <1>0, <2>4 DEF Acquire, DownOK
        <3> QED
            BY <1>l, <1>t, <2>1, <2>2, <2>3, <2>4, <3>1, CountKeepsBase
    <2>5. CASE code = NoCode
        <3>1. lock' = c /\ pc' = [pc EXCEPT ![c] = "loading"] /\ UNCHANGED << counters, num, queue >>
            BY <1>7, <2>5 DEF Acquire
        <3>2. LockOK'
            BY <1>0, <1>l, <2>1, <3>1, LockMoves
        <3>3. TypeOK'
            BY <1>t, <1>l, <2>1, <2>2, <3>1 DEF TypeOK, disk
        <3>4. \A d \in Callers : pc'[d] = IF d = c THEN "loading" ELSE pc[d]
            BY <1>t, <3>1
        <3>5. StageOK'
            BY <1>0, <2>1, <2>5, <3>4 DEF StageOK
        <3>6. up
            BY <1>0, <2>1 DEF DownOK
        <3> QED
            BY <3>2, <3>3, <3>5, <3>6, <2>1 DEF Base, DownOK
    <2> QED
        BY <2>4, <2>5
<1>8. ASSUME NEW c \in Callers, Load(c) PROVE Base'
    <2>1. pc[c] = "loading" /\ UNCHANGED << up, choice, waiters, want, disk, issued, asked, asks, runs >>
        BY <1>8 DEF Load
    <2>2. lock = c /\ up /\ \A d \in Callers : d # c => pc[d] \notin Locked
        BY <1>l, <2>1, OnlyHolder
    <2>3. ResolvedCode \in SomeCode /\ ResolvedCode # NoCode /\ SavedCounters \in [TypeCodes -> Nat]
        BY <1>0, ResolvedType
    <2>4. CASE choice = Keep
        <3>1. code' = ResolvedCode /\ Count(c, SavedCounters)
            BY <1>8, <2>4 DEF Load
        <3> QED
            BY <1>l, <1>t, <2>1, <2>2, <2>3, <3>1, CountKeepsBase
    <2>5. CASE choice # Keep
        <3>1. /\ counters' = SavedCounters /\ queue' = Append(queue, CodeWrite(c, choice))
              /\ pc' = [pc EXCEPT ![c] = "setting"] /\ UNCHANGED << code, lock, num >>
            BY <1>8, <2>5 DEF Load
        <3>2. CodeWrite(c, choice) \in Writes
            BY <1>t, <2>5 DEF CodeWrite, Writes, CodeWrites
        <3>3. queue' \in Seq(Writes)
            BY <1>t, <3>1, <3>2, AppendFacts
        <3>4. TypeOK'
            BY <1>t, <1>l, <2>1, <2>3, <3>1, <3>3 DEF TypeOK, disk
        <3>5. LockOK'
            BY <1>0, <1>l, <2>2, <3>1, LockMoves
        <3>6. \A d \in Callers : pc'[d] = IF d = c THEN "setting" ELSE pc[d]
            BY <1>t, <3>1
        <3>7. StageOK'
            BY <1>0, <2>1, <3>1, <3>6 DEF StageOK
        <3> QED
            BY <2>1, <2>2, <3>4, <3>5, <3>7 DEF Base, DownOK
    <2> QED
        BY <2>4, <2>5
<1>9. ASSUME NEW c \in Callers, Started(c) PROVE Base'
    <2>1. /\ pc[c] = "setting" /\ UNCHANGED << up, choice, waiters, want, disk, issued, asked, asks, runs >>
          /\ code' = ResolvedCode /\ Count(c, counters)
        BY <1>9 DEF Started
    <2>2. lock = c /\ up /\ \A d \in Callers : d # c => pc[d] \notin Locked
        BY <1>l, <2>1, OnlyHolder
    <2>3. ResolvedCode \in SomeCode /\ ResolvedCode # NoCode
        BY <1>0, ResolvedType
    <2> QED
        BY <1>l, <1>t, <2>1, <2>2, <2>3, CountKeepsBase
<1>10. ASSUME NEW c \in Callers, Return(c) PROVE Base'
    <2> DEFINE id == [prefix |-> want[c], code |-> code, n |-> num[c], asked |-> asked]
    <2>1. /\ pc[c] = "saving" /\ issued' = Append(issued, id) /\ asked' = FALSE
          /\ pc' = [pc EXCEPT ![c] = "idle"] /\ lock' = NoOne
          /\ UNCHANGED << up, choice, code, counters, waiters, want, num, queue, saved, savedCode, asks, runs >>
        BY <1>10 DEF Return, memory, disk
    <2>2. lock = c /\ up
        BY <1>l, <2>1, OnlyHolder
    <2>3. code \in SomeCode /\ want[c] \in TypeCodes
        BY <1>0, <1>t, <2>1 DEF StageOK
    <2>4. id \in Ids
        BY <1>t, <2>3 DEF Ids
    <2> HIDE DEF id
    <2>5. issued' \in Seq(Ids)
        BY <1>t, <2>1, <2>4, AppendFacts
    <2>6. TypeOK'
        BY <1>t, <2>1, <2>5 DEF TypeOK
    <2>7. LockOK'
        BY <1>0, <1>l, <2>1, <2>2, LockMoves
    <2>8. \A d \in Callers : pc'[d] = IF d = c THEN "idle" ELSE pc[d]
        BY <1>t, <2>1
    <2>9. StageOK'
        BY <1>0, <2>1, <2>8 DEF StageOK
    <2> QED
        BY <2>1, <2>2, <2>6, <2>7, <2>9 DEF Base, DownOK
<1>11. CASE UNCHANGED vars
    <2>1. UNCHANGED << up, choice, code, counters, waiters, lock, pc, want, num, queue, saved, savedCode, issued,
                       asked, asks, runs >>
        BY <1>11 DEF vars, memory, disk
    <2>2. TypeOK'
        BY <1>t, <2>1 DEF TypeOK
    <2> QED
        BY <1>0, <2>1, <2>2 DEF Base, DownOK, LockOK, StageOK
<1> QED
    BY <1>1, <1>2, <1>3, <1>4, <1>5, <1>6, <1>7, <1>8, <1>9, <1>10, <1>11 DEF Next, Proceed

\* Type correctness, the lock and the generator's stages in every reachable
\* state.
THEOREM BaseAlways == Spec => []Base
BY BaseInit, BaseStep, PTL DEF Spec

\* The state of the generator has its type: an ID handed out carries a code.
THEOREM TypeCorrect == Spec => []TypeOK
<1>1. Base => TypeOK
    BY DEF Base
<1> QED
    BY <1>1, BaseAlways, PTL

-----------------------------------------------------------------------------
(* Counters.                                                                *)

\* A counter taken is above all saved, queued and issued ones, and is queued.
LEMMA CountKeepsOrder ==
    ASSUME Base, CountOK, NEW c \in Callers, NEW current \in [TypeCodes -> Nat], Count(c, current),
           \A p \in TypeCodes : saved[p] <= current[p],
           \A i \in DOMAIN queue, p \in TypeCodes : IsCounter(i, p) => queue[i].n <= current[p],
           \A d \in Callers : d # c => pc[d] # "saving",
           code' # NoCode, UNCHANGED << want, saved, issued >>
    PROVE  CountOK'
<1>t. /\ saved \in [TypeCodes -> Nat] /\ queue \in Seq(Writes) /\ issued \in Seq(Ids)
      /\ pc \in [Callers -> {"idle", "waiting"} \cup Locked]
      /\ want \in [Callers -> TypeCodes \cup {StartOnly}] /\ num \in [Callers -> Nat]
    BY DEF Base, TypeOK
<1>i. QueueOK /\ IssuedOK /\ MintedOK /\ IdsGoUp
    BY DEF CountOK
<1>1. IssuedOK' /\ IdsGoUp'
    BY <1>i DEF IssuedOK, IdsGoUp
<1>2. CASE want[c] = StartOnly
    <2>1. pc' = [pc EXCEPT ![c] = "idle"] /\ counters' = current /\ UNCHANGED << num, queue >>
        BY <1>2 DEF Count
    <2>2. \A d \in Callers : pc'[d] # "saving"
        BY <1>t, <2>1
    <2>3. QueueOK'
        BY <1>i, <2>1 DEF QueueOK, IsCounter
    <2>4. CountersOK' /\ MintedOK'
        BY <2>1, <2>2 DEF CountersOK, MintedOK
    <2> QED
        BY <1>1, <2>3, <2>4 DEF CountOK
<1>3. CASE want[c] # StartOnly
    <2>1. want[c] \in TypeCodes
        BY <1>t, <1>3
    <2>2. PICK q \in TypeCodes : q = want[c]
        BY <2>1
    <2>3. PICK n \in Nat : n = current[q] + 1
        BY <2>2
    <2> DEFINE w == CounterWrite(c, q, n)
    <2>4. /\ counters' = [current EXCEPT ![q] = n] /\ num' = [num EXCEPT ![c] = n]
          /\ queue' = Append(queue, w)
          /\ pc' = [pc EXCEPT ![c] = "saving"]
        BY <1>3, <2>2, <2>3 DEF Count
    <2>5. w \in Writes /\ w.op = "counter" /\ w.owner = c /\ w.prefix = q /\ w.n = n
        BY <2>3 DEF CounterWrite, Writes, CounterWrites
    <2> HIDE DEF w
    <2>6. /\ queue'[Len(queue) + 1] = w /\ Len(queue) \in Nat
          /\ \A i \in DOMAIN queue : i \in DOMAIN queue' /\ queue'[i] = queue[i] /\ i < Len(queue) + 1 /\ i \in Nat
          /\ \A i \in DOMAIN queue' : i \in DOMAIN queue \/ i = Len(queue) + 1
          /\ Len(queue) + 1 \in DOMAIN queue'
        BY <1>t, <2>4, <2>5, AppendFacts
    <2>7. \A p \in TypeCodes : counters'[p] = (IF p = q THEN n ELSE current[p]) /\ current[p] \in Nat /\ saved[p] \in Nat
        BY <1>t, <2>4
    <2>8. \A p \in TypeCodes : saved'[p] <= counters'[p] /\ current[p] <= counters'[p]
        BY <2>3, <2>7
    <2>9. saved[q] < n /\ current[q] < n
        BY <2>3, <2>7
    <2>10. \A d \in Callers : /\ d # c => pc'[d] # "saving"
                             /\ num'[d] = IF d = c THEN n ELSE num[d]
        BY <1>t, <2>4
    <2>11. QueueOK'
        <3>1. SUFFICES ASSUME NEW i \in DOMAIN queue', NEW p \in TypeCodes,
                              queue'[i].op = "counter", queue'[i].prefix = p
                       PROVE  /\ saved[p] < queue'[i].n /\ queue'[i].n <= counters'[p]
                              /\ \A j \in DOMAIN queue' :
                                    i < j /\ queue'[j].op = "counter" /\ queue'[j].prefix = p
                                        => queue'[i].n < queue'[j].n
            BY DEF QueueOK, IsCounter
        <3>2. CASE i \in DOMAIN queue
            <4>1. queue'[i] = queue[i] /\ queue[i].n \in Nat
                <5>1. queue[i] \in Writes /\ queue'[i] = queue[i]
                    BY <1>t, <2>6, <3>2
                <5>2. queue[i] \in CounterWrites
                    BY <3>1, <5>1 DEF Writes, CounterWrites, CodeWrites
                <5> QED
                    BY <5>1, <5>2 DEF CounterWrites
            <4>2. IsCounter(i, p)
                BY <3>1, <4>1 DEF IsCounter
            <4>3. saved[p] < queue[i].n /\ queue[i].n <= current[p]
                BY <1>i, <3>2, <4>2 DEF QueueOK
            <4>4. queue[i].n <= counters'[p]
                BY <4>1, <4>3, <2>3, <2>7
            <4>5. ASSUME NEW j \in DOMAIN queue', i < j, queue'[j].op = "counter", queue'[j].prefix = p
                  PROVE  queue'[i].n < queue'[j].n
                <5>1. CASE j \in DOMAIN queue
                    BY <1>i, <2>6, <3>2, <4>1, <4>2, <4>5, <5>1 DEF QueueOK, IsCounter
                <5>2. CASE j = Len(queue) + 1
                    <6>1. queue'[j].n = n /\ p = q
                        BY <2>5, <2>6, <4>5, <5>2
                    <6> QED
                        BY <2>9, <2>7, <4>1, <4>3, <6>1
                <5> QED
                    BY <2>6, <5>1, <5>2
            <4> QED
                BY <4>1, <4>3, <4>4, <4>5
        <3>3. CASE i = Len(queue) + 1
            <4>1. queue'[i] = w /\ p = q /\ queue'[i].n = n
                BY <2>5, <2>6, <3>1, <3>3
            <4>2. \A j \in DOMAIN queue' : ~(i < j)
                BY <2>6, <3>3
            <4> QED
                BY <2>7, <2>9, <4>1, <4>2
        <3> QED
            BY <2>6, <3>2, <3>3
    <2>12. CountersOK'
        BY <2>8 DEF CountersOK
    <2>13. MintedOK'
        <3>1. SUFFICES ASSUME NEW d \in Callers, pc'[d] = "saving"
                       PROVE  /\ \A i \in DOMAIN issued : issued[i].prefix = want[d] => issued[i].n < num'[d]
                              /\ \E i \in DOMAIN queue' : /\ queue'[i].op = "counter" /\ queue'[i].prefix = want[d]
                                                         /\ queue'[i].owner = d /\ queue'[i].n = num'[d]
            BY DEF MintedOK, IsCounter
        <3>2. d = c /\ num'[d] = n /\ want[d] = q
            BY <2>2, <2>10, <3>1
        <3>3. \A i \in DOMAIN issued : issued[i].prefix = q => issued[i].n < n
            <4> TAKE i \in DOMAIN issued
            <4> HAVE issued[i].prefix = q
            <4>1. issued[i].n <= saved[q] /\ issued[i].n \in Nat
                <5>1. issued[i] \in Ids
                    BY <1>t
                <5> QED
                    BY <1>i, <5>1 DEF IssuedOK, Ids
            <4> QED
                BY <2>7, <2>9, <4>1
        <3> QED
            BY <2>5, <2>6, <3>2, <3>3
    <2> QED
        BY <1>1, <2>11, <2>12, <2>13 DEF CountOK
<1> QED
    BY <1>2, <1>3

LEMMA CountInit == Init => CountOK
BY DEF Init, CountOK, QueueOK, CountersOK, IssuedOK, MintedOK, IdsGoUp, IsCounter

\* A committed counter is below those still queued, and above those issued.
LEMMA CommitKeepsOrder ==
    ASSUME Base, CountOK, Commit
    PROVE  CountOK'
<1>t. /\ saved \in [TypeCodes -> Nat] /\ queue \in Seq(Writes) /\ issued \in Seq(Ids)
      /\ counters \in [TypeCodes -> Nat]
      /\ want \in [Callers -> TypeCodes \cup {StartOnly}] /\ num \in [Callers -> Nat]
    BY DEF Base, TypeOK
<1>i. QueueOK /\ CountersOK /\ IssuedOK /\ MintedOK /\ IdsGoUp /\ StageOK
    BY DEF CountOK, Base
<1>1. /\ queue # << >> /\ queue' = Tail(queue)
      /\ UNCHANGED << code, counters, pc, want, num, issued >>
    BY DEF Commit, memory
<1> DEFINE w == Head(queue)
<1>2. /\ w = queue[1] /\ w \in Writes /\ 1 \in DOMAIN queue
      /\ \A i \in DOMAIN queue' : i + 1 \in DOMAIN queue /\ queue'[i] = queue[i + 1] /\ i \in Nat /\ 1 < i + 1
      /\ \A i \in DOMAIN queue : i # 1 => i - 1 \in DOMAIN queue' /\ queue'[i - 1] = queue[i]
    <2>1. \A i \in DOMAIN queue' : i \in Nat /\ 1 < i + 1
        BY <1>t, <1>1
    <2> QED
        BY <1>t, <1>1, <2>1, TailFacts
<1>3. \/ w.op = "counter" /\ saved' = [saved EXCEPT ![w.prefix] = w.n]
      \/ w.op = "code" /\ saved' = saved
    BY DEF Commit
<1> HIDE DEF w
<1>4. \A p \in TypeCodes : saved[p] \in Nat /\ counters[p] \in Nat
    BY <1>t
<1>5. \A p \in TypeCodes : /\ saved[p] <= saved'[p]
                           /\ (w.op = "counter" /\ w.prefix = p /\ saved'[p] = w.n /\ code # NoCode /\ w.n <= counters[p]
                               /\ saved[p] < w.n /\ w.n \in Nat)
                              \/ saved'[p] = saved[p]
    <2> TAKE p \in TypeCodes
    <2>1. CASE w.op = "counter" /\ w.prefix = p
        <3>1. IsCounter(1, p)
            BY <1>2, <2>1 DEF IsCounter
        <3>2. code # NoCode /\ saved[p] < w.n /\ w.n <= counters[p]
            BY <1>i, <1>2, <3>1 DEF QueueOK
        <3>3. w.n \in Nat
            BY <1>2, <2>1 DEF Writes, CounterWrites, CodeWrites
        <3>4. saved'[p] = w.n
            BY <1>t, <1>3, <2>1
        <3> QED
            BY <1>4, <2>1, <3>2, <3>3, <3>4
    <2>2. CASE ~(w.op = "counter" /\ w.prefix = p)
        <3>1. saved'[p] = saved[p]
            BY <1>t, <1>3, <2>2
        <3> QED
            BY <1>4, <3>1
    <2> QED
        BY <2>1, <2>2
<1>6. QueueOK'
    <2>1. SUFFICES ASSUME NEW i \in DOMAIN queue', NEW p \in TypeCodes,
                          queue'[i].op = "counter", queue'[i].prefix = p
                   PROVE  /\ code # NoCode
                          /\ saved'[p] < queue'[i].n /\ queue'[i].n <= counters[p]
                          /\ \A j \in DOMAIN queue' :
                                i < j /\ queue'[j].op = "counter" /\ queue'[j].prefix = p
                                    => queue'[i].n < queue'[j].n
        BY <1>1 DEF QueueOK, IsCounter
    <2>2. i + 1 \in DOMAIN queue /\ queue'[i] = queue[i + 1] /\ IsCounter(i + 1, p) /\ 1 < i + 1
        BY <1>2, <2>1 DEF IsCounter
    <2>3. code # NoCode /\ saved[p] < queue'[i].n /\ queue'[i].n <= counters[p]
        BY <1>i, <2>2 DEF QueueOK
    <2>4. saved'[p] < queue'[i].n
        <3>1. CASE w.op = "counter" /\ w.prefix = p /\ saved'[p] = w.n
            <4>1. IsCounter(1, p)
                BY <1>2, <3>1 DEF IsCounter
            <4>2. queue[1].n < queue[i + 1].n
                BY <1>i, <1>2, <2>2, <4>1 DEF QueueOK
            <4> QED
                BY <1>2, <2>2, <3>1, <4>2
        <3>2. CASE saved'[p] = saved[p]
            BY <2>3, <3>2
        <3> QED
            BY <1>5, <3>1, <3>2
    <2>5. ASSUME NEW j \in DOMAIN queue', i < j, queue'[j].op = "counter", queue'[j].prefix = p
          PROVE  queue'[i].n < queue'[j].n
        <3>1. j + 1 \in DOMAIN queue /\ queue'[j] = queue[j + 1] /\ IsCounter(j + 1, p) /\ i + 1 < j + 1
            BY <1>2, <2>5 DEF IsCounter
        <3> QED
            BY <1>i, <2>2, <3>1 DEF QueueOK
    <2> QED
        BY <2>3, <2>4, <2>5
<1>7. CountersOK'
    <2>1. \A c \in Callers : pc[c] = "setting" => code = NoCode
        BY <1>i DEF StageOK
    <2> SUFFICES ASSUME code # NoCode \/ \E c \in Callers : pc[c] = "setting", NEW p \in TypeCodes
                 PROVE  saved'[p] <= counters[p]
        BY <1>1 DEF CountersOK
    <2>2. saved[p] <= counters[p]
        BY <1>i DEF CountersOK
    <2> QED
        BY <1>5, <2>2
<1>8. IssuedOK'
    <2> SUFFICES ASSUME NEW i \in DOMAIN issued PROVE issued[i].n <= saved'[issued[i].prefix]
        BY <1>1 DEF IssuedOK
    <2>1. issued[i].n \in Nat /\ issued[i].prefix \in TypeCodes
        <3>1. issued[i] \in Ids
            BY <1>t
        <3> QED
            BY <3>1 DEF Ids
    <2>2. issued[i].n <= saved[issued[i].prefix]
        BY <1>i DEF IssuedOK
    <2>3. /\ saved[issued[i].prefix] <= saved'[issued[i].prefix]
          /\ saved[issued[i].prefix] \in Nat /\ saved'[issued[i].prefix] \in Nat
        BY <1>4, <1>5, <2>1
    <2> QED
        BY <2>1, <2>2, <2>3
<1>9. MintedOK'
    <2>1. SUFFICES ASSUME NEW c \in Callers, pc[c] = "saving"
                   PROVE  /\ \A i \in DOMAIN issued : issued[i].prefix = want[c] => issued[i].n < num[c]
                          /\ \/ num[c] <= saved'[want[c]]
                             \/ \E i \in DOMAIN queue' : /\ queue'[i].op = "counter" /\ queue'[i].prefix = want[c]
                                                        /\ queue'[i].owner = c /\ queue'[i].n = num[c]
        BY <1>1 DEF MintedOK, IsCounter
    <2>2. want[c] \in TypeCodes /\ num[c] \in Nat
        BY <1>i, <1>t, <2>1 DEF StageOK
    <2>3. CASE num[c] <= saved[want[c]]
        <3>1. /\ saved[want[c]] <= saved'[want[c]]
              /\ saved[want[c]] \in Nat /\ saved'[want[c]] \in Nat
            BY <1>4, <1>5, <2>2
        <3>2. num[c] <= saved'[want[c]]
            BY <2>2, <2>3, <3>1
        <3> QED
            BY <1>i, <2>1, <3>2 DEF MintedOK
    <2>4. ASSUME NEW i \in DOMAIN queue, IsCounter(i, want[c]), queue[i].owner = c, queue[i].n = num[c]
          PROVE  \/ num[c] <= saved'[want[c]]
                 \/ \E k \in DOMAIN queue' : /\ queue'[k].op = "counter" /\ queue'[k].prefix = want[c]
                                            /\ queue'[k].owner = c /\ queue'[k].n = num[c]
        <3>1. CASE i = 1
            <4>1. w.op = "counter" /\ w.prefix = want[c] /\ w.n = num[c]
                BY <1>2, <2>4, <3>1 DEF IsCounter
            <4>2. saved'[want[c]] = num[c]
                BY <1>t, <1>3, <2>2, <4>1
            <4> QED
                BY <2>2, <4>2
        <3>2. CASE i # 1
            BY <1>2, <2>4, <3>2 DEF IsCounter
        <3> QED
            BY <3>1, <3>2
    <2> QED
        BY <1>i, <2>1, <2>3, <2>4 DEF MintedOK
<1>10. IdsGoUp'
    BY <1>1, <1>i DEF IdsGoUp
<1> QED
    BY <1>6, <1>7, <1>8, <1>9, <1>10 DEF CountOK

\* The write refused is of a call that ends with it.
LEMMA RefuseKeepsOrder ==
    ASSUME Base, CountOK, Refuse
    PROVE  CountOK'
<1>t. queue \in Seq(Writes) /\ pc \in [Callers -> {"idle", "waiting"} \cup Locked]
    BY DEF Base, TypeOK
<1>i. QueueOK /\ CountersOK /\ IssuedOK /\ MintedOK /\ IdsGoUp
    BY DEF CountOK
<1>1. /\ queue # << >> /\ queue' = Tail(queue)
      /\ UNCHANGED << code, counters, want, num, saved, issued >>
    BY DEF Refuse, memory, disk
<1>2. /\ Head(queue) = queue[1]
      /\ \A i \in DOMAIN queue' : i + 1 \in DOMAIN queue /\ queue'[i] = queue[i + 1] /\ i \in Nat
      /\ \A i \in DOMAIN queue : i # 1 => i - 1 \in DOMAIN queue' /\ queue'[i - 1] = queue[i]
    BY <1>t, <1>1, TailFacts
<1>3. \A c \in Callers : /\ pc'[c] # "idle" => pc'[c] = pc[c] /\ queue[1].owner # c
                         /\ pc'[c] = "idle" \/ pc'[c] = pc[c]
    <2>1. CASE queue[1].owner = NoOne
        <3>1. pc' = pc
            BY <1>2, <2>1 DEF Refuse
        <3> QED
            BY <2>1, <3>1, IdAssumption
    <2>2. CASE queue[1].owner # NoOne
        <3>1. pc' = [pc EXCEPT ![queue[1].owner] = "idle"]
            BY <1>2, <2>2 DEF Refuse
        <3> QED
            BY <1>t, <3>1
    <2> QED
        BY <2>1, <2>2
<1>4. QueueOK'
    <2>1. SUFFICES ASSUME NEW i \in DOMAIN queue', NEW p \in TypeCodes,
                          queue'[i].op = "counter", queue'[i].prefix = p
                   PROVE  /\ code # NoCode
                          /\ saved[p] < queue'[i].n /\ queue'[i].n <= counters[p]
                          /\ \A j \in DOMAIN queue' :
                                i < j /\ queue'[j].op = "counter" /\ queue'[j].prefix = p
                                    => queue'[i].n < queue'[j].n
        BY <1>1 DEF QueueOK, IsCounter
    <2>2. i + 1 \in DOMAIN queue /\ queue'[i] = queue[i + 1] /\ IsCounter(i + 1, p)
        BY <1>2, <2>1 DEF IsCounter
    <2>3. code # NoCode /\ saved[p] < queue'[i].n /\ queue'[i].n <= counters[p]
        BY <1>i, <2>2 DEF QueueOK
    <2>4. ASSUME NEW j \in DOMAIN queue', i < j, queue'[j].op = "counter", queue'[j].prefix = p
          PROVE  queue'[i].n < queue'[j].n
        <3>1. j + 1 \in DOMAIN queue /\ queue'[j] = queue[j + 1] /\ IsCounter(j + 1, p) /\ i + 1 < j + 1
            BY <1>2, <2>4 DEF IsCounter
        <3> QED
            BY <1>i, <2>2, <3>1 DEF QueueOK
    <2> QED
        BY <2>3, <2>4
<1>5. CountersOK' /\ IssuedOK' /\ IdsGoUp'
    BY <1>i, <1>1, <1>3 DEF CountersOK, IssuedOK, IdsGoUp
<1>6. MintedOK'
    <2>1. SUFFICES ASSUME NEW c \in Callers, pc'[c] = "saving"
                   PROVE  /\ \A i \in DOMAIN issued : issued[i].prefix = want[c] => issued[i].n < num[c]
                          /\ \/ num[c] <= saved[want[c]]
                             \/ \E i \in DOMAIN queue' : /\ queue'[i].op = "counter" /\ queue'[i].prefix = want[c]
                                                        /\ queue'[i].owner = c /\ queue'[i].n = num[c]
        BY <1>1 DEF MintedOK, IsCounter
    <2>2. pc[c] = "saving" /\ queue[1].owner # c
        BY <1>3, <2>1
    <2> QED
        BY <1>i, <1>2, <2>2 DEF MintedOK, IsCounter
<1> QED
    BY <1>4, <1>5, <1>6 DEF CountOK

\* The writes of a cancelled call stay, without an owner.
LEMMA CancelKeepsOrder ==
    ASSUME Base, CountOK, NEW c \in Callers, Cancel(c)
    PROVE  CountOK'
<1>t. queue \in Seq(Writes) /\ pc \in [Callers -> {"idle", "waiting"} \cup Locked]
    BY DEF Base, TypeOK
<1>i. QueueOK /\ CountersOK /\ IssuedOK /\ MintedOK /\ IdsGoUp
    BY DEF CountOK
<1>1. /\ queue' = [i \in DOMAIN queue |->
                     IF queue[i].owner = c THEN [queue[i] EXCEPT !.owner = NoOne] ELSE queue[i]]
      /\ pc' = [pc EXCEPT ![c] = "idle"]
      /\ UNCHANGED << code, counters, want, num, saved, issued >>
    BY DEF Cancel, memory, disk
<1>2. /\ DOMAIN queue' = DOMAIN queue
      /\ \A i \in DOMAIN queue :
            /\ queue'[i].op = queue[i].op
            /\ queue[i].op = "counter" => queue'[i].prefix = queue[i].prefix /\ queue'[i].n = queue[i].n
            /\ queue[i].owner # c => queue'[i] = queue[i]
    <2>1. DOMAIN queue' = DOMAIN queue
        BY <1>1
    <2> SUFFICES ASSUME NEW i \in DOMAIN queue
                 PROVE  /\ queue'[i].op = queue[i].op
                        /\ queue[i].op = "counter" => queue'[i].prefix = queue[i].prefix /\ queue'[i].n = queue[i].n
                        /\ queue[i].owner # c => queue'[i] = queue[i]
        BY <2>1
    <2>2. queue'[i] = IF queue[i].owner = c THEN [queue[i] EXCEPT !.owner = NoOne] ELSE queue[i]
        BY <1>1
    <2>3. queue[i] \in CounterWrites \/ queue[i] \in CodeWrites
        BY <1>t DEF Writes
    <2> QED
        BY <2>2, <2>3 DEF CounterWrites, CodeWrites
<1>3. \A d \in Callers : pc'[d] = IF d = c THEN "idle" ELSE pc[d]
    BY <1>t, <1>1
<1>4. QueueOK'
    BY <1>i, <1>1, <1>2 DEF QueueOK, IsCounter
<1>5. CountersOK' /\ IssuedOK' /\ IdsGoUp'
    BY <1>i, <1>1, <1>3 DEF CountersOK, IssuedOK, IdsGoUp
<1>6. MintedOK'
    BY <1>i, <1>1, <1>2, <1>3 DEF MintedOK, IsCounter
<1> QED
    BY <1>4, <1>5, <1>6 DEF CountOK

\* An ID handed out is saved, and above all before it.
LEMMA ReturnKeepsOrder ==
    ASSUME Base, CountOK, NEW c \in Callers, Return(c)
    PROVE  CountOK'
<1>t. /\ saved \in [TypeCodes -> Nat] /\ issued \in Seq(Ids)
      /\ pc \in [Callers -> {"idle", "waiting"} \cup Locked] /\ num \in [Callers -> Nat]
      /\ code \in SomeCode \cup {NoCode} /\ asked \in BOOLEAN
    BY DEF Base, TypeOK
<1>i. QueueOK /\ CountersOK /\ IssuedOK /\ MintedOK /\ IdsGoUp /\ StageOK
    BY DEF CountOK, Base
<1> DEFINE id == [prefix |-> want[c], code |-> code, n |-> num[c], asked |-> asked]
<1>1. /\ pc[c] = "saving" /\ Committed(c) /\ issued' = Append(issued, id)
      /\ pc' = [pc EXCEPT ![c] = "idle"]
      /\ UNCHANGED << code, counters, want, num, queue, saved >>
    BY DEF Return, memory, disk
<1>2. want[c] \in TypeCodes /\ id.prefix = want[c] /\ id.n = num[c] /\ id \in Ids
    BY <1>i, <1>t, <1>1 DEF StageOK, Ids
<1> HIDE DEF id
<1>3. /\ num[c] <= saved[want[c]]
      /\ \A i \in DOMAIN issued : issued[i].prefix = want[c] => issued[i].n < num[c]
    BY <1>i, <1>1 DEF MintedOK, Committed
<1>4. /\ issued'[Len(issued) + 1] = id /\ Len(issued) \in Nat
      /\ \A i \in DOMAIN issued : issued'[i] = issued[i] /\ i < Len(issued) + 1 /\ i \in Nat
      /\ \A i \in DOMAIN issued' : i \in DOMAIN issued \/ i = Len(issued) + 1
    BY <1>t, <1>1, <1>2, AppendFacts
<1>5. \A d \in Callers : pc'[d] = IF d = c THEN "idle" ELSE pc[d]
    BY <1>t, <1>1
<1>6. QueueOK' /\ CountersOK'
    BY <1>i, <1>1, <1>5 DEF QueueOK, CountersOK, IsCounter
<1>7. IssuedOK'
    BY <1>i, <1>1, <1>2, <1>3, <1>4 DEF IssuedOK
<1>8. IdsGoUp'
    <2> SUFFICES ASSUME NEW i \in DOMAIN issued', NEW j \in DOMAIN issued', i < j, issued'[i].prefix = issued'[j].prefix
                 PROVE  issued'[i].n < issued'[j].n
        BY DEF IdsGoUp
    <2>1. i \in DOMAIN issued
        BY <1>4
    <2>2. CASE j \in DOMAIN issued
        BY <1>i, <1>4, <2>1, <2>2 DEF IdsGoUp
    <2>3. CASE j = Len(issued) + 1
        BY <1>2, <1>3, <1>4, <2>1, <2>3
    <2> QED
        BY <1>4, <2>2, <2>3
<1>9. MintedOK'
    <2>1. \A d \in Callers : pc[d] = "saving" => d = c
        BY <1>1, OnlyHolder DEF Locked
    <2> QED
        BY <1>5, <2>1 DEF MintedOK
<1> QED
    BY <1>6, <1>7, <1>8, <1>9 DEF CountOK

LEMMA CountStep == Base /\ CountOK /\ [Next]_vars => CountOK'
<1> SUFFICES ASSUME Base, CountOK, [Next]_vars PROVE CountOK'
    OBVIOUS
<1>t. /\ saved \in [TypeCodes -> Nat] /\ counters \in [TypeCodes -> Nat] /\ queue \in Seq(Writes)
      /\ pc \in [Callers -> {"idle", "waiting"} \cup Locked]
      /\ want \in [Callers -> TypeCodes \cup {StartOnly}]
    BY DEF Base, TypeOK
<1>b. TypeOK /\ DownOK /\ LockOK /\ StageOK
    BY DEF Base
<1>i. QueueOK /\ CountersOK /\ IssuedOK /\ MintedOK /\ IdsGoUp
    BY DEF CountOK
<1>1. ASSUME NEW ch \in Codes \cup {NoCode, Keep}, Run(ch) PROVE CountOK'
    <2>1. /\ code' = NoCode /\ queue = << >> /\ \A c \in Callers : pc[c] = "idle"
          /\ UNCHANGED << queue, pc, saved, issued, want, num >>
        BY <1>1, <1>b DEF Run, DownOK, disk
    <2> QED
        BY <1>i, <2>1 DEF CountOK, QueueOK, CountersOK, IssuedOK, MintedOK, IdsGoUp
<1>2. CASE Die
    <2>1. /\ code' = NoCode /\ queue' = << >> /\ pc' = [c \in Callers |-> "idle"]
          /\ UNCHANGED << saved, issued, want, num >>
        BY <1>2 DEF Die, disk
    <2> QED
        BY <1>i, <2>1 DEF CountOK, QueueOK, CountersOK, IssuedOK, MintedOK, IdsGoUp
<1>3. ASSUME NEW c \in Callers, NEW what \in TypeCodes \cup {StartOnly}, Call(c, what) PROVE CountOK'
    <2>1. /\ pc[c] = "idle" /\ pc' = [pc EXCEPT ![c] = "waiting"] /\ want' = [want EXCEPT ![c] = what]
          /\ UNCHANGED << code, counters, num, queue, saved, issued >>
        BY <1>3 DEF Call, memory, disk
    <2>2. \A d \in Callers : d # c => pc'[d] = pc[d] /\ want'[d] = want[d]
        BY <1>t, <2>1
    <2>3. pc'[c] = "waiting"
        BY <1>t, <2>1
    <2>4. MintedOK'
        BY <1>i, <2>1, <2>2, <2>3 DEF MintedOK, IsCounter
    <2>5. CountersOK'
        BY <1>i, <2>1, <2>2, <2>3 DEF CountersOK
    <2> QED
        BY <1>i, <2>1, <2>4, <2>5 DEF CountOK, QueueOK, IsCounter, IssuedOK, IdsGoUp
<1>4. ASSUME NEW c \in Callers, Acquire(c) PROVE CountOK'
    <2>1. lock = NoOne /\ UNCHANGED << code, want, saved, issued >> /\ \A d \in Callers : pc[d] \notin Locked
        BY <1>4, <1>b, IdAssumption DEF Acquire, LockOK, disk
    <2>2. CASE code # NoCode
        <3>1. Count(c, counters)
            BY <1>4, <2>2 DEF Acquire
        <3>2. \A p \in TypeCodes : saved[p] <= counters[p]
            BY <1>i, <2>2 DEF CountersOK
        <3>3. \A i \in DOMAIN queue, p \in TypeCodes : IsCounter(i, p) => queue[i].n <= counters[p]
            BY <1>i DEF QueueOK
        <3>4. \A d \in Callers : pc[d] # "saving"
            BY <2>1 DEF Locked
        <3> QED
            BY <1>t, <2>1, <2>2, <3>1, <3>2, <3>3, <3>4, CountKeepsOrder
    <2>3. CASE code = NoCode
        <3>1. pc' = [pc EXCEPT ![c] = "loading"] /\ UNCHANGED << counters, num, queue >>
            BY <1>4, <2>3 DEF Acquire
        <3>2. \A d \in Callers : pc'[d] \notin {"saving", "setting"}
            BY <1>t, <2>1, <3>1 DEF Locked
        <3> QED
            BY <1>i, <2>1, <2>3, <3>1, <3>2 DEF CountOK, QueueOK, CountersOK, IssuedOK, MintedOK, IdsGoUp, IsCounter
    <2> QED
        BY <2>2, <2>3
<1>5. ASSUME NEW c \in Callers, Load(c) PROVE CountOK'
    <2>1. pc[c] = "loading" /\ UNCHANGED << want, saved, issued >> /\ code = NoCode
        BY <1>5, <1>b DEF Load, disk, StageOK
    <2>2. \A d \in Callers : pc[d] # "saving"
        BY <1>b, <2>1 DEF StageOK
    <2>3. \A i \in DOMAIN queue, p \in TypeCodes : ~IsCounter(i, p)
        BY <1>i, <2>1 DEF QueueOK
    <2>4. CASE choice = Keep
        <3>1. code' = ResolvedCode /\ Count(c, saved)
            BY <1>5, <2>4 DEF Load, SavedCounters
        <3>2. code' # NoCode
            BY <1>b, <3>1, ResolvedType
        <3>3. \A p \in TypeCodes : saved[p] <= saved[p]
            BY <1>t
        <3> QED
            BY <1>t, <2>1, <2>2, <2>3, <3>1, <3>2, <3>3, CountKeepsOrder
    <2>5. CASE choice # Keep
        <3>1. /\ counters' = saved /\ queue' = Append(queue, CodeWrite(c, choice)) /\ code' = code /\ num' = num
              /\ pc' = [pc EXCEPT ![c] = "setting"]
            BY <1>5, <2>5 DEF Load, SavedCounters
        <3>2. CodeWrite(c, choice) \in Writes /\ CodeWrite(c, choice).op = "code"
            BY <1>b, <2>5 DEF CodeWrite, Writes, CodeWrites, TypeOK
        <3>3. \A i \in DOMAIN queue' : queue'[i].op = "counter" => i \in DOMAIN queue /\ queue'[i] = queue[i]
            BY <1>t, <3>1, <3>2, AppendFacts
        <3>4. \A i \in DOMAIN queue', p \in TypeCodes : ~(queue'[i].op = "counter" /\ queue'[i].prefix = p)
            BY <2>3, <3>3 DEF IsCounter
        <3>5. QueueOK'
            BY <3>4 DEF QueueOK, IsCounter
        <3>6. CountersOK'
            BY <1>t, <2>1, <3>1 DEF CountersOK
        <3>7. \A d \in Callers : pc'[d] # "saving"
            BY <1>t, <2>2, <3>1
        <3> QED
            BY <1>i, <2>1, <3>5, <3>6, <3>7 DEF CountOK, IssuedOK, MintedOK, IdsGoUp
    <2> QED
        BY <2>4, <2>5
<1>6. ASSUME NEW c \in Callers, Started(c) PROVE CountOK'
    <2>1. /\ pc[c] = "setting" /\ UNCHANGED << want, saved, issued >> /\ code = NoCode
          /\ code' = ResolvedCode /\ Count(c, counters)
        BY <1>6, <1>b DEF Started, disk, StageOK
    <2>2. \A d \in Callers : pc[d] # "saving"
        BY <1>b, <2>1 DEF StageOK
    <2>3. \A i \in DOMAIN queue, p \in TypeCodes : ~IsCounter(i, p)
        BY <1>i, <2>1 DEF QueueOK
    <2>4. code' # NoCode
        BY <1>b, <2>1, ResolvedType
    <2>5. \A p \in TypeCodes : saved[p] <= counters[p]
        BY <1>i, <2>1 DEF CountersOK
    <2> QED
        BY <1>t, <2>1, <2>2, <2>3, <2>4, <2>5, CountKeepsOrder
<1>7. CASE UNCHANGED vars
    <2>1. UNCHANGED << code, counters, pc, want, num, queue, saved, issued >>
        BY <1>7 DEF vars, memory, disk
    <2> QED
        BY <1>i, <2>1 DEF CountOK, QueueOK, CountersOK, IssuedOK, MintedOK, IdsGoUp, IsCounter
<1> QED
    BY <1>1, <1>2, <1>3, <1>4, <1>5, <1>6, <1>7, CommitKeepsOrder, RefuseKeepsOrder, CancelKeepsOrder,
       ReturnKeepsOrder DEF Next, Proceed

\* No ID is handed out twice, over all runs of the process: of each kind the
\* counters handed out go up.
THEOREM NeverTwice == Spec => []IdsGoUp
<1>1. Init => Base /\ CountOK
    BY BaseInit, CountInit
<1>2. Base /\ CountOK /\ [Next]_vars => Base' /\ CountOK'
    BY BaseStep, CountStep
<1>3. CountOK => IdsGoUp
    BY DEF CountOK
<1> QED
    BY <1>1, <1>2, <1>3, PTL DEF Spec

-----------------------------------------------------------------------------
(* Codes.                                                                   *)

\* Count queues no code and leaves no call that saves one.
LEMMA CountKeepsCode ==
    ASSUME Base, CodeOK, NEW c \in Callers, NEW current \in [TypeCodes -> Nat], Count(c, current),
           code' # NoCode, NoCodeWrites, code' = NextCode,
           \A d \in Callers : d # c => pc[d] # "setting",
           UNCHANGED << choice, asked, savedCode, issued >>
    PROVE  CodeOK'
<1>t. /\ queue \in Seq(Writes) /\ want \in [Callers -> TypeCodes \cup {StartOnly}]
      /\ pc \in [Callers -> {"idle", "waiting"} \cup Locked] /\ TypeOK
    BY DEF Base, TypeOK
<1>i. LastOK /\ CodeKept
    BY DEF CodeOK
<1>1. pc' = [pc EXCEPT ![c] = "idle"] \/ pc' = [pc EXCEPT ![c] = "saving"]
    BY DEF Count
<1>2. \A d \in Callers : pc'[d] # "setting"
    BY <1>t, <1>1
<1>3. NoCodeWrites'
    <2>1. CASE want[c] = StartOnly
        BY <2>1 DEF Count, NoCodeWrites
    <2>2. CASE want[c] # StartOnly
        <3>1. want[c] \in TypeCodes
            BY <1>t, <2>2
        <3>2. PICK q \in TypeCodes : q = want[c]
            BY <3>1
        <3>3. PICK n \in Nat : n = current[q] + 1
            BY <3>2
        <3> DEFINE w == CounterWrite(c, q, n)
        <3>4. queue' = Append(queue, w)
            BY <2>2, <3>2, <3>3 DEF Count
        <3>5. w \in Writes /\ w.op = "counter"
            BY DEF CounterWrite, Writes, CounterWrites
        <3> HIDE DEF w
        <3>6. \A i \in DOMAIN queue' : \/ i \in DOMAIN queue /\ queue'[i] = queue[i]
                                      \/ queue'[i] = w
            BY <1>t, <3>4, <3>5, AppendFacts
        <3> QED
            BY <3>5, <3>6 DEF NoCodeWrites
    <2> QED
        BY <2>1, <2>2
<1>4. NextCode' = NextCode
    BY DEF NextCode
<1>5. SettingOK' /\ KeepOK' /\ InEffectOK'
    BY <1>2, <1>3, <1>4 DEF SettingOK, KeepOK, InEffectOK
<1>6. LastOK'
    BY <1>i, <1>3, <1>4 DEF LastOK
<1>7. CodeKept'
    BY <1>i DEF CodeKept
<1> QED
    BY <1>5, <1>6, <1>7 DEF CodeOK

LEMMA CodeInit == Init => CodeOK
BY DEF Init, CodeOK, SettingOK, InEffectOK, LastOK, KeepOK, CodeKept, NoCodeWrites

\* A committed code is what the call that saves it awaits.
LEMMA CommitKeepsCode ==
    ASSUME Base, CodeOK, Commit
    PROVE  CodeOK'
<1>t. queue \in Seq(Writes)
    BY DEF Base, TypeOK
<1>i. SettingOK /\ InEffectOK /\ LastOK /\ KeepOK /\ CodeKept /\ StageOK
    BY DEF CodeOK, Base
<1>1. /\ queue # << >> /\ queue' = Tail(queue)
      /\ UNCHANGED << up, choice, code, pc, issued, asked >>
    BY DEF Commit, memory
<1>2. /\ Head(queue) = queue[1] /\ 1 \in DOMAIN queue
      /\ \A i \in DOMAIN queue' : i + 1 \in DOMAIN queue /\ queue'[i] = queue[i + 1]
      /\ \A i \in DOMAIN queue : i # 1 => i - 1 \in DOMAIN queue' /\ queue'[i - 1] = queue[i]
      /\ Len(queue') = Len(queue) - 1 /\ queue' \in Seq(Writes) /\ Len(queue) \in Nat
    BY <1>t, <1>1, TailFacts
<1>3. NoCodeWrites => NoCodeWrites'
    BY <1>2 DEF NoCodeWrites
<1>4. NoCodeWrites => savedCode' = savedCode
    BY <1>2 DEF NoCodeWrites, Commit
<1>5. SettingOK'
    <2> SUFFICES ASSUME NEW c \in Callers, pc[c] = "setting"
                 PROVE  \/ queue' = << >> /\ savedCode' = choice
                        \/ /\ queue' # << >> /\ queue'[Len(queue')].op = "code"
                           /\ queue'[Len(queue')].owner = c /\ queue'[Len(queue')].code = choice
        BY <1>1 DEF SettingOK
    <2>1. queue[Len(queue)].op = "code" /\ queue[Len(queue)].owner = c /\ queue[Len(queue)].code = choice
        BY <1>i, <1>1 DEF SettingOK
    <2>2. CASE Len(queue) = 1
        <3>1. savedCode' = choice
            BY <1>2, <2>1, <2>2 DEF Commit
        <3>2. queue' = << >>
            BY <1>2, <2>2
        <3> QED
            BY <3>1, <3>2
    <2>3. CASE Len(queue) # 1
        <3>1. Len(queue) \in DOMAIN queue /\ Len(queue') # 0
            BY <1>t, <1>1, <1>2, <2>3
        <3>2. queue'[Len(queue')] = queue[Len(queue)] /\ queue' # << >>
            BY <1>2, <2>3, <3>1
        <3> QED
            BY <2>1, <3>2
    <2> QED
        BY <2>2, <2>3
<1>6. InEffectOK'
    BY <1>i, <1>1, <1>3, <1>4 DEF InEffectOK, NextCode
<1>7. LastOK'
    BY <1>i, <1>1, <1>3, <1>4 DEF LastOK, NextCode
<1>8. KeepOK' /\ CodeKept'
    BY <1>i, <1>1, <1>3 DEF KeepOK, CodeKept
<1> QED
    BY <1>5, <1>6, <1>7, <1>8 DEF CodeOK

\* The write refused is not the one a call that goes on awaits.
LEMMA RefuseKeepsCode ==
    ASSUME Base, CodeOK, Refuse
    PROVE  CodeOK'
<1>t. queue \in Seq(Writes) /\ pc \in [Callers -> {"idle", "waiting"} \cup Locked]
    BY DEF Base, TypeOK
<1>i. SettingOK /\ InEffectOK /\ LastOK /\ KeepOK /\ CodeKept
    BY DEF CodeOK
<1>1. /\ queue # << >> /\ queue' = Tail(queue)
      /\ UNCHANGED << up, choice, code, savedCode, issued, asked >>
    BY DEF Refuse, memory, disk
<1>2. /\ Head(queue) = queue[1] /\ 1 \in DOMAIN queue
      /\ \A i \in DOMAIN queue' : i + 1 \in DOMAIN queue /\ queue'[i] = queue[i + 1]
      /\ \A i \in DOMAIN queue : i # 1 => i - 1 \in DOMAIN queue' /\ queue'[i - 1] = queue[i]
      /\ Len(queue') = Len(queue) - 1 /\ queue' \in Seq(Writes) /\ Len(queue) \in Nat
    BY <1>t, <1>1, TailFacts
<1>3. NoCodeWrites => NoCodeWrites'
    BY <1>2 DEF NoCodeWrites
<1>4. \A c \in Callers : pc'[c] = "setting" => pc[c] = "setting" /\ queue[1].owner # c
    <2>1. CASE queue[1].owner = NoOne
        <3>1. pc' = pc
            BY <1>2, <2>1 DEF Refuse
        <3> QED
            BY <2>1, <3>1, IdAssumption
    <2>2. CASE queue[1].owner # NoOne
        <3>1. pc' = [pc EXCEPT ![queue[1].owner] = "idle"]
            BY <1>2, <2>2 DEF Refuse
        <3> QED
            BY <1>t, <3>1
    <2> QED
        BY <2>1, <2>2
<1>5. SettingOK'
    <2> SUFFICES ASSUME NEW c \in Callers, pc'[c] = "setting"
                 PROVE  /\ queue' # << >> /\ queue'[Len(queue')].op = "code"
                        /\ queue'[Len(queue')].owner = c /\ queue'[Len(queue')].code = choice
        BY <1>1 DEF SettingOK
    <2>1. queue[Len(queue)].op = "code" /\ queue[Len(queue)].owner = c /\ queue[Len(queue)].code = choice
        BY <1>i, <1>1, <1>4 DEF SettingOK
    <2>2. Len(queue) # 1
        BY <1>4, <2>1
    <2>3. Len(queue) \in DOMAIN queue /\ Len(queue') # 0
        BY <1>t, <1>1, <1>2, <2>2
    <2>4. queue'[Len(queue')] = queue[Len(queue)] /\ queue' # << >>
        BY <1>2, <2>2, <2>3
    <2> QED
        BY <2>1, <2>4
<1>6. InEffectOK' /\ LastOK' /\ KeepOK' /\ CodeKept'
    BY <1>i, <1>1, <1>3, <1>4 DEF InEffectOK, LastOK, KeepOK, CodeKept, NextCode
<1> QED
    BY <1>5, <1>6 DEF CodeOK

LEMMA CancelKeepsCode ==
    ASSUME Base, CodeOK, NEW c \in Callers, Cancel(c)
    PROVE  CodeOK'
<1>t. queue \in Seq(Writes) /\ pc \in [Callers -> {"idle", "waiting"} \cup Locked]
    BY DEF Base, TypeOK
<1>i. SettingOK /\ InEffectOK /\ LastOK /\ KeepOK /\ CodeKept
    BY DEF CodeOK
<1>1. /\ queue' = [i \in DOMAIN queue |->
                     IF queue[i].owner = c THEN [queue[i] EXCEPT !.owner = NoOne] ELSE queue[i]]
      /\ pc' = [pc EXCEPT ![c] = "idle"]
      /\ UNCHANGED << up, choice, code, savedCode, issued, asked >>
    BY DEF Cancel, memory, disk
<1>2. /\ DOMAIN queue' = DOMAIN queue
      /\ \A i \in DOMAIN queue :
            /\ queue'[i].op = queue[i].op
            /\ queue[i].owner # c => queue'[i] = queue[i]
    <2>1. DOMAIN queue' = DOMAIN queue
        BY <1>1
    <2> SUFFICES ASSUME NEW i \in DOMAIN queue
                 PROVE  /\ queue'[i].op = queue[i].op
                        /\ queue[i].owner # c => queue'[i] = queue[i]
        BY <2>1
    <2>2. queue'[i] = IF queue[i].owner = c THEN [queue[i] EXCEPT !.owner = NoOne] ELSE queue[i]
        BY <1>1
    <2>3. queue[i] \in CounterWrites \/ queue[i] \in CodeWrites
        BY <1>t DEF Writes
    <2> QED
        BY <2>2, <2>3 DEF CounterWrites, CodeWrites
<1>3. NoCodeWrites => NoCodeWrites'
    BY <1>2 DEF NoCodeWrites
<1>4. \A d \in Callers : pc'[d] = IF d = c THEN "idle" ELSE pc[d]
    BY <1>t, <1>1
<1>5. Len(queue') = Len(queue) /\ (queue = << >> <=> queue' = << >>) /\ (queue # << >> => Len(queue) \in DOMAIN queue)
    <2>1. DOMAIN queue = 1 .. Len(queue) /\ Len(queue) \in Nat
        BY <1>t
    <2>2. queue' = [i \in 1 .. Len(queue) |->
                     IF queue[i].owner = c THEN [queue[i] EXCEPT !.owner = NoOne] ELSE queue[i]]
        BY <1>1, <2>1
    <2>3. queue' \in Seq({queue'[i] : i \in 1 .. Len(queue)}) /\ Len(queue') = Len(queue)
        BY <2>1, <2>2
    <2> QED
        BY <1>t, <2>1, <2>3
<1>6. SettingOK'
    BY <1>i, <1>1, <1>2, <1>4, <1>5 DEF SettingOK
<1>7. InEffectOK' /\ LastOK' /\ KeepOK' /\ CodeKept'
    BY <1>i, <1>1, <1>3, <1>4 DEF InEffectOK, LastOK, KeepOK, CodeKept, NextCode
<1> QED
    BY <1>6, <1>7 DEF CodeOK

\* The code of an ID handed out without -i since the last is that of the last.
LEMMA ReturnKeepsCode ==
    ASSUME Base, CodeOK, NEW c \in Callers, Return(c)
    PROVE  CodeOK'
<1>t. /\ issued \in Seq(Ids) /\ pc \in [Callers -> {"idle", "waiting"} \cup Locked]
      /\ num \in [Callers -> Nat] /\ asked \in BOOLEAN /\ code \in SomeCode \cup {NoCode}
    BY DEF Base, TypeOK
<1>i. SettingOK /\ InEffectOK /\ LastOK /\ KeepOK /\ CodeKept /\ StageOK
    BY DEF CodeOK, Base
<1> DEFINE id == [prefix |-> want[c], code |-> code, n |-> num[c], asked |-> asked]
<1>1. /\ pc[c] = "saving" /\ issued' = Append(issued, id) /\ asked' = FALSE
      /\ pc' = [pc EXCEPT ![c] = "idle"]
      /\ UNCHANGED << up, choice, code, savedCode, queue >>
    BY DEF Return, memory, disk
<1>2. code # NoCode /\ NoCodeWrites /\ code = NextCode
    BY <1>i, <1>1 DEF StageOK, InEffectOK
<1>3. id \in Ids /\ id.code = code
    BY <1>i, <1>t, <1>1, <1>2 DEF StageOK, Ids
<1>a. id.asked = asked
    OBVIOUS
<1> HIDE DEF id
<1>4. /\ issued'[Len(issued) + 1] = id /\ Len(issued) \in Nat /\ Len(issued') = Len(issued) + 1
      /\ \A i \in DOMAIN issued : issued'[i] = issued[i]
      /\ \A i \in DOMAIN issued' : i \in DOMAIN issued \/ i = Len(issued) + 1
    BY <1>t, <1>1, <1>3, AppendFacts
<1>5. \A d \in Callers : pc'[d] = IF d = c THEN "idle" ELSE pc[d]
    BY <1>t, <1>1
<1>6. SettingOK' /\ KeepOK' /\ InEffectOK'
    BY <1>i, <1>1, <1>5 DEF SettingOK, KeepOK, InEffectOK, NoCodeWrites, NextCode
<1>7. LastOK'
    <2>1. issued'[Len(issued')].code = code
        BY <1>3, <1>4
    <2> QED
        BY <1>1, <1>2, <2>1 DEF LastOK, NoCodeWrites, NextCode
<1>8. CodeKept'
    <2> SUFFICES ASSUME NEW i \in DOMAIN issued', i > 1, issued'[i].code # issued'[i - 1].code
                 PROVE  issued'[i].asked
        BY DEF CodeKept
    <2>0. DOMAIN issued = 1 .. Len(issued)
        BY <1>t
    <2>1. CASE i \in DOMAIN issued
        <3>1. i - 1 \in DOMAIN issued
            BY <1>4, <2>0, <2>1
        <3> QED
            BY <1>i, <1>4, <2>1, <3>1 DEF CodeKept
    <2>2. CASE i = Len(issued) + 1
        <3>1. i - 1 = Len(issued) /\ Len(issued) \in DOMAIN issued /\ issued # << >>
            BY <1>4, <2>0, <2>2
        <3>2. issued[Len(issued)].code # NextCode
            BY <1>2, <1>3, <1>4, <2>2, <3>1
        <3>3. asked
            BY <1>i, <3>1, <3>2 DEF LastOK
        <3>4. issued'[i] = id
            BY <1>4, <2>2
        <3> QED
            BY <1>a, <3>3, <3>4, Zenon
    <2> QED
        BY <1>4, <2>1, <2>2
<1> QED
    BY <1>6, <1>7, <1>8 DEF CodeOK

LEMMA CodeStep == Base /\ CodeOK /\ [Next]_vars => CodeOK'
<1> SUFFICES ASSUME Base, CodeOK, [Next]_vars PROVE CodeOK'
    OBVIOUS
<1>t. /\ queue \in Seq(Writes) /\ pc \in [Callers -> {"idle", "waiting"} \cup Locked]
      /\ choice \in Codes \cup {NoCode, Keep} /\ counters \in [TypeCodes -> Nat] /\ saved \in [TypeCodes -> Nat]
    BY DEF Base, TypeOK
<1>c. Keep \notin Codes /\ NoCode \notin Codes /\ Keep # NoCode
    BY IdAssumption
<1>b. TypeOK /\ DownOK /\ LockOK /\ StageOK
    BY DEF Base
<1>i. SettingOK /\ InEffectOK /\ LastOK /\ KeepOK /\ CodeKept
    BY DEF CodeOK
<1>1. ASSUME NEW ch \in Codes \cup {NoCode, Keep}, Run(ch) PROVE CodeOK'
    <2>1. /\ code' = NoCode /\ queue = << >> /\ \A c \in Callers : pc[c] = "idle"
          /\ choice' = ch /\ asked' = (asked \/ ch # Keep)
          /\ UNCHANGED << queue, pc, savedCode, issued >>
        BY <1>1, <1>b DEF Run, DownOK, disk
    <2>2. NoCodeWrites' /\ NextCode' = NextCode
        BY <2>1 DEF NoCodeWrites, NextCode
    <2>3. SettingOK' /\ KeepOK' /\ InEffectOK' /\ CodeKept'
        BY <1>i, <2>1, <2>2 DEF SettingOK, KeepOK, InEffectOK, CodeKept
    <2>4. LastOK'
        BY <1>i, <2>1, <2>2 DEF LastOK
    <2> QED
        BY <2>3, <2>4 DEF CodeOK
<1>2. CASE Die
    <2>1. /\ code' = NoCode /\ queue' = << >> /\ pc' = [c \in Callers |-> "idle"] /\ up' = FALSE
          /\ UNCHANGED << choice, asked, savedCode, issued >>
        BY <1>2 DEF Die, disk
    <2>2. NoCodeWrites' /\ NextCode' = NextCode
        BY <2>1 DEF NoCodeWrites, NextCode
    <2>3. SettingOK' /\ KeepOK' /\ InEffectOK' /\ CodeKept'
        BY <1>i, <2>1, <2>2 DEF SettingOK, KeepOK, InEffectOK, CodeKept
    <2>4. LastOK'
        BY <1>i, <2>1, <2>2 DEF LastOK
    <2> QED
        BY <2>3, <2>4 DEF CodeOK
<1>3. ASSUME NEW c \in Callers, NEW what \in TypeCodes \cup {StartOnly}, Call(c, what) PROVE CodeOK'
    <2>1. /\ pc' = [pc EXCEPT ![c] = "waiting"]
          /\ UNCHANGED << up, choice, code, queue, savedCode, issued, asked >>
        BY <1>3 DEF Call, memory, disk
    <2>2. \A d \in Callers : pc'[d] = IF d = c THEN "waiting" ELSE pc[d]
        BY <1>t, <2>1
    <2> QED
        BY <1>i, <2>1, <2>2 DEF CodeOK, SettingOK, KeepOK, InEffectOK, LastOK, CodeKept, NoCodeWrites, NextCode
<1>4. ASSUME NEW c \in Callers, Acquire(c) PROVE CodeOK'
    <2>1. /\ lock = NoOne /\ UNCHANGED << up, code, choice, asked, savedCode, issued >>
          /\ \A d \in Callers : pc[d] \notin Locked
        BY <1>4, <1>b, IdAssumption DEF Acquire, LockOK, disk
    <2>2. CASE code # NoCode
        <3>1. Count(c, counters) /\ NoCodeWrites /\ code' = NextCode
            BY <1>4, <1>i, <2>1, <2>2 DEF Acquire, InEffectOK
        <3>2. \A d \in Callers : pc[d] # "setting"
            BY <2>1 DEF Locked
        <3> QED
            BY <1>t, <2>1, <2>2, <3>1, <3>2, CountKeepsCode
    <2>3. CASE code = NoCode
        <3>1. pc' = [pc EXCEPT ![c] = "loading"] /\ queue' = queue
            BY <1>4, <2>3 DEF Acquire
        <3>2. \A d \in Callers : pc'[d] = IF d = c THEN "loading" ELSE pc[d]
            BY <1>t, <3>1
        <3> QED
            BY <1>i, <2>1, <3>1, <3>2 DEF CodeOK, SettingOK, KeepOK, InEffectOK, LastOK, CodeKept, NoCodeWrites, NextCode
    <2> QED
        BY <2>2, <2>3
<1>5. ASSUME NEW c \in Callers, Load(c) PROVE CodeOK'
    <2>1. pc[c] = "loading" /\ UNCHANGED << up, choice, asked, savedCode, issued >> /\ code = NoCode
        BY <1>5, <1>b DEF Load, disk, StageOK
    <2>2. up /\ \A d \in Callers : d # c => pc[d] \notin Locked
        BY <2>1, OnlyHolder DEF Locked
    <2>3. \A d \in Callers : d # c => pc[d] # "setting"
        BY <2>2 DEF Locked
    <2>4. CASE choice = Keep
        <3>1. code' = ResolvedCode /\ Count(c, saved)
            BY <1>5, <2>4 DEF Load, SavedCounters
        <3>2. code' # NoCode
            BY <1>b, <3>1, ResolvedType
        <3>3. NoCodeWrites
            BY <1>i, <2>4 DEF KeepOK
        <3>4. code' = NextCode
            BY <1>c, <2>4, <3>1 DEF ResolvedCode, NextCode
        <3> QED
            BY <1>t, <2>1, <2>3, <3>1, <3>2, <3>3, <3>4, CountKeepsCode
    <2>5. CASE choice # Keep
        <3> DEFINE w == CodeWrite(c, choice)
        <3>1. queue' = Append(queue, w) /\ code' = code /\ pc' = [pc EXCEPT ![c] = "setting"]
            BY <1>5, <2>5 DEF Load
        <3>2. w \in Writes /\ w.op = "code" /\ w.owner = c /\ w.code = choice
            BY <1>t, <2>5 DEF CodeWrite, Writes, CodeWrites
        <3> HIDE DEF w
        <3>3. queue'[Len(queue')] = w /\ queue' # << >>
            BY <1>t, <3>1, <3>2, AppendFacts
        <3>4. \A d \in Callers : pc'[d] = "setting" => d = c
            BY <1>t, <2>3, <3>1
        <3>5. SettingOK'
            BY <2>1, <3>2, <3>3, <3>4 DEF SettingOK
        <3>6. asked
            BY <1>i, <2>1, <2>2, <2>5 DEF LastOK
        <3>7. KeepOK' /\ InEffectOK' /\ LastOK'
            BY <2>1, <2>5, <3>1, <3>6 DEF KeepOK, InEffectOK, LastOK
        <3>8. CodeKept'
            BY <1>i, <2>1 DEF CodeKept
        <3> QED
            BY <3>5, <3>7, <3>8 DEF CodeOK
    <2> QED
        BY <2>4, <2>5
<1>6. ASSUME NEW c \in Callers, Started(c) PROVE CodeOK'
    <2>1. /\ pc[c] = "setting" /\ Committed(c) /\ UNCHANGED << choice, asked, savedCode, issued >>
          /\ code' = ResolvedCode /\ Count(c, counters)
        BY <1>6 DEF Started, disk
    <2>2. \A d \in Callers : d # c => pc[d] # "setting"
        BY <2>1, OnlyHolder DEF Locked
    <2>3. queue = << >> /\ savedCode = choice
        <3>1. queue # << >> => Len(queue) \in DOMAIN queue
            BY <1>t
        <3> QED
            BY <1>i, <2>1, <3>1 DEF SettingOK, Committed
    <2>4. choice # Keep
        BY <1>i, <2>1 DEF KeepOK
    <2>5. code' # NoCode
        BY <1>b, <2>1, ResolvedType
    <2>6. code' = NextCode
        BY <1>c, <1>t, <2>1, <2>3, <2>4 DEF ResolvedCode, NextCode
    <2>7. NoCodeWrites
        BY <2>3 DEF NoCodeWrites
    <2> QED
        BY <1>t, <2>1, <2>2, <2>5, <2>6, <2>7, CountKeepsCode
<1>7. CASE UNCHANGED vars
    <2>1. UNCHANGED << up, choice, code, pc, queue, savedCode, issued, asked >>
        BY <1>7 DEF vars, memory, disk
    <2> QED
        BY <1>i, <2>1 DEF CodeOK, SettingOK, KeepOK, InEffectOK, LastOK, CodeKept, NoCodeWrites, NextCode
<1> QED
    BY <1>1, <1>2, <1>3, <1>4, <1>5, <1>6, <1>7, CommitKeepsCode, RefuseKeepsCode, CancelKeepsCode,
       ReturnKeepsCode DEF Next, Proceed

\* The instance code of the IDs changes only when -i was given since the last
\* ID, over all runs of the process.
THEOREM CodeStays == Spec => []CodeKept
<1>1. Init => Base /\ CodeOK
    BY BaseInit, CodeInit
<1>2. Base /\ CodeOK /\ [Next]_vars => Base' /\ CodeOK'
    BY BaseStep, CodeStep
<1>3. CodeOK => CodeKept
    BY DEF CodeOK
<1> QED
    BY <1>1, <1>2, <1>3, PTL DEF Spec
=============================================================================
