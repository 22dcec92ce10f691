---------------------------- MODULE EventManagerProofs ----------------------------
(***************************************************************************)
(* No event is lost or handled twice, for any number of threads and any    *)
(* limit of the queue.                                                     *)
(***************************************************************************)
EXTENDS EventManager, FiniteSetTheorems, TLAPS

\* A thread is about to hand an event over; a worker handles one.
Calling(t) == pc[t] \in {"pushing", "submitting"}
Busy(w) == pc[w] # "idle"

Distinct(s) == \A i, j \in 1..Len(s) : s[i] = s[j] => i = j

Types == /\ loop \in {"waiting", "moving"}
         /\ pc \in [Threads -> {"idle", "running", "pushing", "submitting", "awaiting", "finishing"}]
         /\ job \in [Threads -> [own : Nat, sub : Nat]]
         /\ kind \in Seq({"leaf", "sends", "syncs"})
         /\ events \in Seq(Nat) /\ tasks \in Seq(Nat)
         /\ Len(events) <= MaxEvents /\ Len(tasks) <= MaxTaskNum

\* What is queued was sent, stands in one queue once, and has no other fate yet.
QueuesOK == /\ InSeq(events) \cup InSeq(tasks) \cup done \cup refused \subseteq Numbers
            /\ Distinct(events) /\ Distinct(tasks)
            /\ InSeq(events) \cap InSeq(tasks) = {}
            /\ (InSeq(events) \cup InSeq(tasks)) \cap (done \cup refused) = {}
            /\ done \cap refused = {}

Unplaced == Numbers \ (InSeq(events) \cup InSeq(tasks) \cup done \cup refused)

\* Two threads never hand over, or handle, the same event, and it is nowhere else.
CallsOK == /\ \A t \in Threads : Calling(t) =>
                 /\ job[t].sub \in Unplaced
                 /\ \A u \in Threads : Calling(u) /\ job[u].sub = job[t].sub => u = t
                 /\ \A w \in Workers : Busy(w) => job[w].own # job[t].sub
           /\ \A w \in Workers : Busy(w) =>
                 /\ job[w].own \in Unplaced
                 /\ \A v \in Workers : Busy(v) /\ job[v].own = job[w].own => v = w

\* What is in no queue and has no end yet is in the hands of a thread.
NoneLost == \A n \in Unplaced : \/ \E t \in Threads : Calling(t) /\ job[t].sub = n
                                \/ \E w \in Workers : Busy(w) /\ job[w].own = n

EventInv == Types /\ QueuesOK /\ CallsOK /\ NoneLost

-----------------------------------------------------------------------------
(* Queues                                                                  *)

\* A queue without repetitions has as many members as places.
LEMMA DistinctCounts ==
    ASSUME NEW s \in Seq(Nat), Distinct(s)
    PROVE  Cardinality(InSeq(s)) = Len(s)
<1> DEFINE n == Len(s)
           f == [i \in 1..n |-> s[i]]
<1>1. n \in Nat
  OBVIOUS
<1>2. f \in Bijection(1..n, InSeq(s))
  BY DEF Bijection, Injection, IsInjective, Surjection, InSeq, Distinct
<1>3. ExistsBijection(1..n, InSeq(s))
  BY <1>2 DEF ExistsBijection
<1> HIDE DEF n, f
<1>4. Cardinality(InSeq(s)) = n
  BY <1>1, <1>3, FS_CountingElements
<1> QED
  BY <1>4 DEF n

\* Appending puts the new member, and nothing else, into the queue.
LEMMA AppendEffect ==
    ASSUME NEW s \in Seq(Nat), NEW x \in Nat
    PROVE  /\ Append(s, x) \in Seq(Nat)
           /\ Len(Append(s, x)) = Len(s) + 1
           /\ InSeq(Append(s, x)) = InSeq(s) \cup {x}
           /\ Distinct(s) /\ x \notin InSeq(s) => Distinct(Append(s, x))
<1>1. Append(s, x) \in Seq(Nat) /\ Len(Append(s, x)) = Len(s) + 1 /\ Len(s) \in Nat
  OBVIOUS
<1>2. \A i \in 1..Len(s) + 1 : Append(s, x)[i] = IF i <= Len(s) THEN s[i] ELSE x
  OBVIOUS
<1> DEFINE t == Append(s, x)
<1> HIDE DEF t
<1>3. \A y : y \in InSeq(t) <=> y \in InSeq(s) \cup {x}
  <2>1. ASSUME NEW i \in 1..Len(t)
        PROVE  t[i] \in InSeq(s) \cup {x}
    BY <1>1, <1>2 DEF t, InSeq
  <2>2. ASSUME NEW i \in 1..Len(s)
        PROVE  s[i] \in InSeq(t)
    <3>1. i \in 1..Len(t) /\ t[i] = s[i]
      BY <1>1, <1>2 DEF t
    <3> QED
      BY <3>1 DEF InSeq
  <2>3. x \in InSeq(t)
    <3>1. Len(s) + 1 \in 1..Len(t) /\ t[Len(s) + 1] = x
      BY <1>1, <1>2 DEF t
    <3> QED
      BY <3>1 DEF InSeq
  <2> QED
    BY <2>1, <2>2, <2>3 DEF InSeq
<1>4. ASSUME Distinct(s), x \notin InSeq(s)
      PROVE  Distinct(t)
  <2>1. \A i \in 1..Len(t) : t[i] = IF i <= Len(s) THEN s[i] ELSE x
    BY <1>1, <1>2 DEF t
  <2>2. \A i \in 1..Len(s) : s[i] # x
    BY <1>4 DEF InSeq
  <2>3. \A i, j \in 1..Len(s) : s[i] = s[j] => i = j
    BY <1>4 DEF Distinct
  <2>4. \A i \in 1..Len(t) : i \in 1..Len(s) \/ i = Len(s) + 1
    BY <1>1 DEF t
  <2>5. ASSUME NEW i \in 1..Len(t), NEW j \in 1..Len(t), t[i] = t[j]
        PROVE  i = j
    BY <1>1, <2>1, <2>2, <2>3, <2>4, <2>5
  <2> QED
    BY <2>5 DEF Distinct
<1> QED
  BY <1>1, <1>3, <1>4 DEF t

\* Taking the head leaves the others, and without repetitions not the head.
LEMMA TailEffect ==
    ASSUME NEW s \in Seq(Nat), s # <<>>
    PROVE  /\ Tail(s) \in Seq(Nat) /\ Head(s) \in Nat
           /\ Len(Tail(s)) <= Len(s)
           /\ InSeq(s) = InSeq(Tail(s)) \cup {Head(s)}
           /\ Distinct(s) => Distinct(Tail(s)) /\ Head(s) \notin InSeq(Tail(s))
<1>1. Tail(s) \in Seq(Nat) /\ Len(Tail(s)) = Len(s) - 1 /\ Len(s) \in Nat \ {0} /\ Head(s) = s[1] /\ Head(s) \in Nat
  OBVIOUS
<1>2. \A i \in 1..(Len(s) - 1) : Tail(s)[i] = s[i + 1]
  OBVIOUS
<1> DEFINE t == Tail(s)
<1> HIDE DEF t
<1>3. \A y : y \in InSeq(s) <=> y \in InSeq(t) \cup {Head(s)}
  <2>1. ASSUME NEW i \in 1..Len(s)
        PROVE  s[i] \in InSeq(t) \cup {Head(s)}
    <3>1. CASE i = 1
      BY <1>1, <3>1
    <3>2. CASE i # 1
      <4>1. i - 1 \in 1..Len(t) /\ t[i - 1] = s[i]
        BY <1>1, <1>2, <3>2 DEF t
      <4> QED
        BY <4>1 DEF InSeq
    <3> QED
      BY <3>1, <3>2
  <2>2. ASSUME NEW i \in 1..Len(t)
        PROVE  t[i] \in InSeq(s)
    <3>1. i + 1 \in 1..Len(s) /\ t[i] = s[i + 1]
      BY <1>1, <1>2 DEF t
    <3> QED
      BY <3>1 DEF InSeq
  <2>3. Head(s) \in InSeq(s)
    <3>1. 1 \in 1..Len(s)
      BY <1>1
    <3> QED
      BY <1>1, <3>1 DEF InSeq
  <2> QED
    BY <2>1, <2>2, <2>3 DEF InSeq
<1>4. ASSUME Distinct(s)
      PROVE  Distinct(t) /\ Head(s) \notin InSeq(t)
  <2>1. \A i \in 1..Len(t) : i + 1 \in 1..Len(s) /\ t[i] = s[i + 1]
    BY <1>1, <1>2 DEF t
  <2>2. 1 \in 1..Len(s)
    BY <1>1
  <2> QED
    BY <1>1, <1>4, <2>1, <2>2 DEF Distinct, InSeq
<1> QED
  BY <1>1, <1>3, <1>4 DEF t

-----------------------------------------------------------------------------
(* Steps                                                                   *)

\* The pool takes as many tasks as it has threads.
LEMMA PoolSize == MaxTaskNum \in Nat
BY EventAssumption, FS_CardinalityType DEF EventAssumption, MaxTaskNum

\* The manager begins with empty queues and no call on the way.
LEMMA InitInv == Init => EventInv
<1> SUFFICES ASSUME Init
             PROVE  EventInv
  OBVIOUS
<1>1. InSeq(<<>>) = {} /\ Len(<<>>) = 0 /\ Distinct(<<>>)
  BY DEF InSeq, Distinct
<1>2. MaxEvents \in Nat
  BY EventAssumption DEF EventAssumption
<1>3. Types
  BY <1>1, <1>2, PoolSize DEF Init, Types, NoJob
<1>4. Numbers = {} /\ InSeq(events) = {} /\ InSeq(tasks) = {} /\ Distinct(events) /\ Distinct(tasks)
  BY <1>1 DEF Init, Numbers
<1> QED
  BY <1>3, <1>4 DEF EventInv, Init, QueuesOK, CallsOK, NoneLost, Unplaced, Calling, Busy, Threads

\* A new event is in the hands of the thread that sends it; its number was not in use.
LEMMA CallStep ==
    ASSUME EventInv, NEW t \in Threads, NEW k \in {"leaf", "sends", "syncs"}, NEW how \in {"pushing", "submitting"},
           ~Calling(t), t \in Workers => Busy(t), Call(t, k, how)
    PROVE  EventInv'
<1> DEFINE n == Len(kind) + 1
<1>1. /\ kind' = Append(kind, k) /\ kind' \in Seq({"leaf", "sends", "syncs"})
      /\ Len(kind) \in Nat /\ Len(kind') = n
  BY DEF Call, EventInv, Types
<1>2. Numbers' = Numbers \cup {n} /\ n \notin Numbers /\ n \in Nat
  BY <1>1 DEF Numbers
<1>3. /\ pc' = [pc EXCEPT ![t] = how] /\ job' = [job EXCEPT ![t].sub = n]
      /\ UNCHANGED <<events, tasks, loop, done, refused>>
  BY DEF Call
<1> HIDE DEF n
<1>4. Types'
  BY <1>1, <1>2, <1>3 DEF EventInv, Types
<1>5. QueuesOK' /\ Unplaced' = Unplaced \cup {n} /\ n \notin Unplaced
  BY <1>2, <1>3 DEF EventInv, QueuesOK, Unplaced, InSeq, Distinct
<1>6. /\ \A u \in Threads : Calling(u)' <=> Calling(u) \/ u = t
      /\ \A u \in Threads : job'[u].own = job[u].own /\ job'[u].sub = IF u = t THEN n ELSE job[u].sub
      /\ \A w \in Workers : Busy(w)' <=> Busy(w)
  BY <1>3 DEF EventInv, Types, Calling, Busy, Threads
<1>7. Workers \subseteq Threads
  BY DEF Threads
<1>8. CallsOK'
  BY <1>5, <1>6, <1>7 DEF EventInv, CallsOK
<1>9. NoneLost'
  <2>1. n = job'[t].sub /\ Calling(t)'
    BY <1>6
  <2>2. ASSUME NEW m \in Unplaced
        PROVE  \/ \E u \in Threads : Calling(u)' /\ job'[u].sub = m
               \/ \E w \in Workers : Busy(w)' /\ job'[w].own = m
    <3>1. CASE \E u \in Threads : Calling(u) /\ job[u].sub = m
      BY <1>6, <3>1
    <3>2. CASE \E w \in Workers : Busy(w) /\ job[w].own = m
      BY <1>6, <1>7, <3>2
    <3> QED
      BY <3>1, <3>2 DEF EventInv, NoneLost
  <2> QED
    BY <1>5, <2>1, <2>2 DEF NoneLost
<1> QED
  BY <1>4, <1>5, <1>8, <1>9 DEF EventInv

\* What a thread does about its own calls: `over' when it hands its event over, or gives up
\* waiting, so that it holds none any more.
LEMMA BackEffect ==
    ASSUME EventInv, NEW t \in Threads, Back(t), t \in Workers => Busy(t)
    PROVE  /\ pc' \in [Threads -> {"idle", "running", "pushing", "submitting", "awaiting", "finishing"}]
           /\ job' \in [Threads -> [own : Nat, sub : Nat]]
           /\ ~Calling(t)'
           /\ \A u \in Threads : u # t => Calling(u)' = Calling(u) /\ job'[u].sub = job[u].sub
           /\ \A w \in Workers : Busy(w)' = Busy(w) /\ job'[w].own = job[w].own
BY EventAssumption DEF EventAssumption, EventInv, Types, Back, Calling, Busy, Threads

\* An event leaves the hands of the thread that sends it for a queue, or is refused.
LEMMA PlacedStep ==
    ASSUME EventInv, NEW t \in Threads, Calling(t), Types',
           NEW n, n = job[t].sub,
           UNCHANGED kind, done' = done,
           \/ InSeq(events)' = InSeq(events) \cup {n} /\ Distinct(events)' /\ UNCHANGED <<tasks, refused>>
           \/ InSeq(tasks)' = InSeq(tasks) \cup {n} /\ Distinct(tasks)' /\ UNCHANGED <<events, refused>>
           \/ refused' = refused \cup {n} /\ UNCHANGED <<events, tasks>>,
           ~Calling(t)',
           \A u \in Threads : u # t => Calling(u)' = Calling(u) /\ job'[u].sub = job[u].sub,
           \A w \in Workers : Busy(w)' = Busy(w) /\ job'[w].own = job[w].own
    PROVE  EventInv'
<1>1. n \in Unplaced /\ Unplaced' = Unplaced \ {n} /\ Numbers' = Numbers
  BY DEF EventInv, CallsOK, Unplaced, Numbers
<1>2. QueuesOK'
  BY <1>1 DEF EventInv, QueuesOK, Unplaced
<1>3. CallsOK'
  BY <1>1 DEF EventInv, CallsOK, Threads
<1>4. NoneLost'
  BY <1>1 DEF EventInv, NoneLost
<1> QED
  BY <1>2, <1>3, <1>4 DEF EventInv

\* A thread that puts its event into a queue takes the event with it: it is in that queue and nowhere else.
LEMMA PushEventStep ==
    ASSUME EventInv, NEW t \in Threads, PushEvent(t)
    PROVE  EventInv'
<1> DEFINE n == job[t].sub
<1>1. Calling(t) /\ Back(t) /\ (t \in Workers => Busy(t)) /\ UNCHANGED <<tasks, loop, kind, done>>
  BY DEF PushEvent, Calling, Busy
<1>2. n \in Nat /\ n \notin InSeq(events) /\ events \in Seq(Nat) /\ MaxEvents \in Nat
  BY <1>1, EventAssumption DEF EventAssumption, EventInv, Types, CallsOK, Unplaced
<1> HIDE DEF n
<1>3. CASE Len(events) >= MaxEvents
  <2>1. refused' = refused \cup {n} /\ UNCHANGED events
    BY <1>3 DEF PushEvent, n
  <2>2. Types'
    BY <1>1, <2>1, BackEffect DEF EventInv, Types
  <2> QED
    BY <1>1, <2>1, <2>2, BackEffect, PlacedStep DEF n
<1>4. CASE Len(events) < MaxEvents
  <2>1. events' = Append(events, n) /\ UNCHANGED refused
    BY <1>2, <1>4 DEF PushEvent, n
  <2>2. InSeq(events)' = InSeq(events) \cup {n} /\ Distinct(events)' /\ events' \in Seq(Nat)
        /\ Len(events') = Len(events) + 1
    BY <1>2, <2>1, AppendEffect DEF InSeq, Distinct, EventInv, QueuesOK
  <2>3. Types'
    BY <1>1, <1>2, <1>4, <2>2, BackEffect DEF EventInv, Types
  <2> QED
    BY <1>1, <2>1, <2>2, <2>3, BackEffect, PlacedStep DEF n
<1> QED
  BY <1>2, <1>3, <1>4

\* The same for a handler that becomes a task of the pool: one task, the caller no longer holds it.
LEMMA PushTaskStep ==
    ASSUME EventInv, NEW t \in Threads, PushTask(t)
    PROVE  EventInv'
<1> DEFINE n == job[t].sub
<1>1. Calling(t) /\ UNCHANGED <<events, loop, job, kind, done, refused>>
  BY DEF PushTask, Calling
<1>2. n \in Nat /\ n \notin InSeq(tasks) /\ tasks \in Seq(Nat)
  BY <1>1 DEF EventInv, Types, CallsOK, Unplaced
<1>3. tasks' = Append(tasks, n) /\ Len(tasks) < MaxTaskNum
  BY DEF PushTask
<1> HIDE DEF n
<1>4. InSeq(tasks)' = InSeq(tasks) \cup {n} /\ Distinct(tasks)' /\ tasks' \in Seq(Nat)
      /\ Len(tasks') = Len(tasks) + 1
  BY <1>2, <1>3, AppendEffect DEF EventInv, QueuesOK
<1>5. pc' = [pc EXCEPT ![t] = "awaiting"] /\ pc[t] = "submitting"
  BY DEF PushTask
<1>6. Types'
  BY <1>1, <1>2, <1>3, <1>4, <1>5, PoolSize DEF EventInv, Types
<1>7. /\ ~Calling(t)'
      /\ \A u \in Threads : u # t => Calling(u)' = Calling(u) /\ job'[u].sub = job[u].sub
      /\ \A w \in Workers : Busy(w)' = Busy(w) /\ job'[w].own = job[w].own
  BY <1>1, <1>5 DEF EventInv, Types, Calling, Busy, Threads
<1> QED
  BY <1>1, <1>4, <1>6, <1>7, PlacedStep DEF n

\* PushSyncEvent returns: the event it was about stays where it is.
LEMMA FutureReturnsStep ==
    ASSUME EventInv, NEW t \in Threads, FutureReturns(t)
    PROVE  EventInv'
<1>1. ~Calling(t) /\ Back(t) /\ (t \in Workers => Busy(t))
      /\ UNCHANGED <<events, tasks, loop, kind, done, refused>>
  BY DEF FutureReturns, Calling, Busy
<1>2. Types'
  BY <1>1, BackEffect DEF EventInv, Types
<1>3. Unplaced' = Unplaced /\ QueuesOK'
  BY <1>1 DEF EventInv, QueuesOK, Unplaced, Numbers
<1>4. CallsOK'
  BY <1>1, <1>3, BackEffect DEF EventInv, CallsOK, Threads
<1>5. NoneLost'
  BY <1>1, <1>3, BackEffect DEF EventInv, NoneLost, Threads
<1> QED
  BY <1>2, <1>3, <1>4, <1>5 DEF EventInv

\* The oldest event changes from one queue to the other.
LEMMA MoveStep ==
    ASSUME EventInv, Move
    PROVE  EventInv'
<1> DEFINE n == Head(events)
<1>1. UNCHANGED <<loop, pc, job, kind, done, refused>> /\ events # <<>> /\ Len(tasks) < MaxTaskNum
  BY DEF Move
<1>2. /\ events' \in Seq(Nat) /\ n \in Nat /\ Len(events') <= Len(events)
      /\ InSeq(events) = InSeq(events)' \cup {n} /\ n \notin InSeq(events)' /\ Distinct(events)'
  BY <1>1, TailEffect DEF Move, EventInv, Types, QueuesOK
<1>3. n \notin InSeq(tasks)
  BY <1>2 DEF EventInv, QueuesOK
<1>4. tasks' \in Seq(Nat) /\ Len(tasks') = Len(tasks) + 1 /\ InSeq(tasks)' = InSeq(tasks) \cup {n} /\ Distinct(tasks)'
  BY <1>2, <1>3, AppendEffect DEF Move, EventInv, Types, QueuesOK
<1> HIDE DEF n
<1>5. Types'
  BY <1>1, <1>2, <1>4, PoolSize, EventAssumption DEF EventAssumption, EventInv, Types
<1>6. Unplaced' = Unplaced /\ QueuesOK'
  BY <1>1, <1>2, <1>4 DEF EventInv, QueuesOK, Unplaced, Numbers
<1>7. CallsOK' /\ NoneLost'
  BY <1>1, <1>6 DEF EventInv, CallsOK, NoneLost, Calling, Busy
<1> QED
  BY <1>5, <1>6, <1>7 DEF EventInv

\* An idle worker takes the oldest task; nobody else handles that event.
LEMMA TakeTaskStep ==
    ASSUME EventInv, NEW w \in Workers, TakeTask(w)
    PROVE  EventInv'
<1> DEFINE n == Head(tasks)
<1>1. UNCHANGED <<events, loop, kind, done, refused>> /\ tasks # <<>> /\ pc[w] = "idle" /\ w \in Threads
  BY DEF TakeTask, Threads
<1>2. /\ tasks' \in Seq(Nat) /\ n \in Nat /\ Len(tasks') <= Len(tasks)
      /\ InSeq(tasks) = InSeq(tasks)' \cup {n} /\ n \notin InSeq(tasks)' /\ Distinct(tasks)'
  BY <1>1, TailEffect DEF TakeTask, EventInv, Types, QueuesOK
<1>3. pc' = [pc EXCEPT ![w] = "running"] /\ job' = [job EXCEPT ![w] = [own |-> n, sub |-> 0]]
  BY DEF TakeTask
<1> HIDE DEF n
<1>4. Types'
  BY <1>1, <1>2, <1>3, PoolSize DEF EventInv, Types
<1>5. QueuesOK' /\ n \notin Unplaced /\ Unplaced' = Unplaced \cup {n}
  BY <1>1, <1>2 DEF EventInv, QueuesOK, Unplaced, Numbers
<1>6. /\ \A u \in Threads : /\ Calling(u)' = Calling(u)
                            /\ u # w => job'[u] = job[u]
      /\ \A v \in Workers : Busy(v)' <=> Busy(v) \/ v = w
      /\ ~Calling(w) /\ ~Busy(w) /\ job'[w].own = n
  BY <1>1, <1>3 DEF EventInv, Types, Calling, Busy, Threads
<1>7. Workers \subseteq Threads
  BY DEF Threads
<1>8. CallsOK'
  BY <1>5, <1>6, <1>7 DEF EventInv, CallsOK
<1>9. NoneLost'
  BY <1>5, <1>6, <1>7 DEF EventInv, NoneLost
<1> QED
  BY <1>4, <1>5, <1>8, <1>9 DEF EventInv

\* A handler returns: its event is done, and was not before.
LEMMA TaskReturnsStep ==
    ASSUME EventInv, NEW w \in Workers, TaskReturns(w)
    PROVE  EventInv'
<1> DEFINE n == job[w].own
<1>1. UNCHANGED <<events, tasks, loop, kind, refused>> /\ w \in Threads /\ Busy(w) /\ ~Calling(w)
  BY DEF TaskReturns, Threads, Busy, Calling
<1>2. pc' = [pc EXCEPT ![w] = "idle"] /\ job' = [job EXCEPT ![w] = NoJob] /\ done' = done \cup {n}
  BY DEF TaskReturns
<1>3. n \in Unplaced
  BY <1>1 DEF EventInv, CallsOK
<1> HIDE DEF n
<1>4. Types'
  BY <1>1, <1>2 DEF EventInv, Types, NoJob
<1>5. QueuesOK' /\ Unplaced' = Unplaced \ {n}
  BY <1>1, <1>2, <1>3 DEF EventInv, QueuesOK, Unplaced, Numbers
<1>6. /\ \A u \in Threads : /\ Calling(u)' = Calling(u)
                            /\ u # w => job'[u] = job[u]
      /\ \A v \in Workers : Busy(v)' <=> Busy(v) /\ v # w
  BY <1>1, <1>2 DEF EventInv, Types, Calling, Busy, Threads
<1>7. Workers \subseteq Threads
  BY DEF Threads
<1>8. CallsOK'
  BY <1>1, <1>5, <1>6, <1>7 DEF EventInv, CallsOK, n
<1>9. NoneLost'
  BY <1>1, <1>5, <1>6, <1>7 DEF EventInv, NoneLost, n
<1> QED
  BY <1>4, <1>5, <1>8, <1>9 DEF EventInv

\* Every step of every thread keeps the invariant.
LEMMA EventStep == EventInv /\ [Next]_vars => EventInv'
<1> SUFFICES ASSUME EventInv, [Next]_vars
             PROVE  EventInv'
  OBVIOUS
<1>1. ASSUME UNCHANGED <<events, tasks, pc, job, kind, done, refused>>, loop' \in {"waiting", "moving"}
      PROVE  EventInv'
  BY <1>1 DEF EventInv, Types, QueuesOK, CallsOK, NoneLost, Unplaced, Numbers, Calling, Busy
<1>2. CASE UNCHANGED vars
  BY <1>1, <1>2 DEF vars, EventInv, Types
<1>3. CASE Awake \/ Rest
  BY <1>1, <1>3 DEF Awake, Rest
<1>4. CASE Move
  BY <1>4, MoveStep
<1>5. ASSUME NEW t \in Clients, ClientSends(t)
      PROVE  EventInv'
  <2>1. PICK k \in Kinds, how \in ClientCalls : Call(t, k, how)
    BY <1>5 DEF ClientSends
  <2>2. k \in {"leaf", "sends", "syncs"} /\ how \in {"pushing", "submitting"} /\ t \in Threads /\ t \notin Workers
    BY EventAssumption DEF EventAssumption, Threads
  <2>3. ~Calling(t)
    BY <1>5 DEF ClientSends, Calling
  <2> QED
    BY <2>1, <2>2, <2>3, CallStep
<1>6. ASSUME NEW w \in Workers, HandlerSends(w) \/ HandlerSyncs(w)
      PROVE  EventInv'
  <2>1. PICK how \in {"pushing", "submitting"} : Call(w, "leaf", how)
    BY <1>6 DEF HandlerSends, HandlerSyncs
  <2>2. w \in Threads /\ ~Calling(w) /\ Busy(w)
    BY <1>6 DEF HandlerSends, HandlerSyncs, Calling, Busy, Threads
  <2> QED
    BY <2>1, <2>2, CallStep
<1>7. ASSUME NEW w \in Workers, TakeTask(w) \/ TaskReturns(w)
      PROVE  EventInv'
  BY <1>7, TakeTaskStep, TaskReturnsStep
<1>8. ASSUME NEW t \in Threads, InCall(t)
      PROVE  EventInv'
  BY <1>8, PushEventStep, PushTaskStep, FutureReturnsStep DEF InCall
<1> QED
  BY <1>2, <1>3, <1>4, <1>5, <1>6, <1>7, <1>8 DEF Next, ProcessEvent, TaskMainWorker

\* So the invariant holds throughout.
LEMMA EventsCorrect == Spec => []EventInv
BY InitInv, EventStep, PTL DEF Spec

-----------------------------------------------------------------------------
(* Theorems                                                                *)

\* events_ never holds more than MAX_SHARING_EVENT_NUM events, nor tasks_ more than the pool
\* takes, and both hold only events that were sent.
THEOREM LimitsKept == Spec => []TypeOK
<1>1. EventInv => TypeOK
  BY DEF EventInv, Types, QueuesOK, TypeOK
<1> QED
  BY <1>1, EventsCorrect, PTL

\* PushEvent, ProcessEvent, PushTask and the workers hand an event on exactly once: none is
\* lost between the queues and none is handled twice.
THEOREM EachEventOnce == Spec => []OnePlace
<1>1. EventInv => OnePlace
  <2> SUFFICES ASSUME EventInv
               PROVE  OnePlace
    OBVIOUS
  <2>1. Cardinality(InSeq(events)) = Len(events) /\ Cardinality(InSeq(tasks)) = Len(tasks)
    BY DistinctCounts DEF EventInv, Types, QueuesOK
  <2>2. \A n : n \in Called({"pushing", "submitting"}) <=> \E t \in Threads : Calling(t) /\ job[t].sub = n
    BY DEF Called, Calling
  <2>3. \A n : n \in Handled <=> \E w \in Workers : Busy(w) /\ job[w].own = n
    BY DEF Handled, Busy
  <2>4. \A n \in Called({"pushing", "submitting"}) \cup Handled : n \in Unplaced
    BY <2>2, <2>3 DEF EventInv, CallsOK
  <2>5. \A n \in Unplaced : n \in Called({"pushing", "submitting"}) \cup Handled
    BY <2>2, <2>3 DEF EventInv, NoneLost
  <2> QED
    BY <2>1, <2>4, <2>5 DEF EventInv, QueuesOK, OnePlace, Unplaced
<1> QED
  BY <1>1, EventsCorrect, PTL
=============================================================================
