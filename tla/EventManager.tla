------------------------------ MODULE EventManager ------------------------------
(***************************************************************************)
(* The event queue and the thread pool behind every event of the system    *)
(* (services/event/event_manager.cpp, taskpool.cpp): EventEmitter sends an *)
(* event with PushEvent (asynchronous) or PushSyncEvent, the event thread  *)
(* moves it to the pool, a worker calls the listener.                      *)
(*                                                                         *)
(* ProcessEvent gives mutex_ up only in hasEvent_.wait: it moves every     *)
(* queued event without letting a PushEvent through, also while PushTask   *)
(* waits for room.  loop = "moving" stands for mutex_ held by that thread. *)
(* Stopping the loop is not modelled: StopEventLoop is never called.       *)
(***************************************************************************)
EXTENDS Naturals, Sequences, FiniteSets

CONSTANTS Workers,      \* the pool's threads; tasks_ takes as many (SetMaxTaskNum(30))
          Clients,      \* threads outside the pool (binder, network, timers)
          MaxEvents,    \* MAX_SHARING_EVENT_NUM (5000)
          MaxSends,     \* bound on the events the clients send
          ClientCalls,  \* how they send: "pushing" (SendEvent), "submitting" (SendSyncEvent)
          Kinds         \* what the handlers of these events do: "leaf", "sends", "syncs"

ASSUME EventAssumption == /\ IsFiniteSet(Workers) /\ Workers # {}
                          /\ Workers \cap Clients = {}
                          /\ MaxEvents \in Nat \ {0}
                          /\ MaxSends \in Nat
                          /\ ClientCalls \subseteq {"pushing", "submitting"}
                          /\ Kinds \subseteq {"leaf", "sends", "syncs"}

MaxTaskNum == Cardinality(Workers)
Threads == Workers \cup Clients

VARIABLES events,    \* events_
          tasks,     \* tasks_
          loop,      \* the event thread: "waiting" or "moving"
          pc,        \* where a thread is
          job,       \* the event a worker handles, or a thread pushes or waits for
          kind,      \* the handler of each event sent so far
          by,        \* sends made by clients
          done,      \* events whose handler has returned
          refused    \* events refused by PushEvent

vars == <<events, tasks, loop, pc, job, kind, by, done, refused>>

NoJob == [own |-> 0, sub |-> 0]

Init == /\ events = <<>> /\ tasks = <<>>
        /\ loop = "waiting"
        /\ pc = [t \in Threads |-> "idle"]
        /\ job = [t \in Threads |-> NoJob]
        /\ kind = <<>>
        /\ by = 0
        /\ done = {} /\ refused = {}

-----------------------------------------------------------------------------
(* Callers.  A thread that calls is a client, or a worker inside a handler. *)

\* The call is over: a client is idle again, a worker goes on in its handler.
Back(t) == /\ pc' = [pc EXCEPT ![t] = IF t \in Clients THEN "idle" ELSE "finishing"]
           /\ job' = [job EXCEPT ![t].sub = 0]

\* A new event: its number is its place in `kind`.
Call(t, k, how) ==
    /\ kind' = Append(kind, k)
    /\ job' = [job EXCEPT ![t].sub = Len(kind) + 1]
    /\ pc' = [pc EXCEPT ![t] = how]
    /\ UNCHANGED <<events, tasks, loop, done, refused>>

ClientSends(t) == /\ pc[t] = "idle" /\ by < MaxSends
                  /\ by' = by + 1
                  /\ \E k \in Kinds, how \in ClientCalls : Call(t, k, how)

\* A handler sends on, as most handlers of agents, sessions and channels do.
HandlerSends(w) == /\ pc[w] = "running" /\ kind[job[w].own] = "sends"
                   /\ UNCHANGED by
                   /\ Call(w, "leaf", "pushing")

\* A handler sends and waits (Interaction, Context).
HandlerSyncs(w) == /\ pc[w] = "running" /\ kind[job[w].own] = "syncs"
                   /\ UNCHANGED by
                   /\ Call(w, "leaf", "submitting")

PushEvent(t) ==
    /\ pc[t] = "pushing"
    /\ loop = "waiting"
    /\ IF Len(events) >= MaxEvents
       THEN refused' = refused \cup {job[t].sub} /\ UNCHANGED events
       ELSE events' = Append(events, job[t].sub) /\ UNCHANGED refused
    /\ Back(t)
    /\ UNCHANGED <<tasks, loop, kind, by, done>>

\* PushSyncEvent up to the wait: PushTask waits as long as the pool is full.
PushTask(t) ==
    /\ pc[t] = "submitting"
    /\ Len(tasks) < MaxTaskNum
    /\ tasks' = Append(tasks, job[t].sub)
    /\ pc' = [pc EXCEPT ![t] = "awaiting"]
    /\ UNCHANGED <<events, loop, job, kind, by, done, refused>>

\* Variant with a fault: wait() for a handler that may never run.
EndlessFuture(t) ==
    /\ pc[t] = "awaiting"
    /\ job[t].sub \in done
    /\ Back(t)
    /\ UNCHANGED <<events, tasks, loop, kind, by, done, refused>>

\* future.wait_for: the handler has returned, or 2000 ms are over.
FutureReturns(t) ==
    /\ pc[t] = "awaiting"
    /\ Back(t)
    /\ UNCHANGED <<events, tasks, loop, kind, by, done, refused>>

-----------------------------------------------------------------------------
(* ProcessEvent *)

Awake == /\ loop = "waiting" /\ events # <<>>
         /\ loop' = "moving"
         /\ UNCHANGED <<events, tasks, pc, job, kind, by, done, refused>>

\* Variant with a fault: the task is pushed and the event stays in the queue.
RepeatedMove == /\ loop = "moving" /\ events # <<>>
                /\ Len(tasks) < MaxTaskNum
                /\ tasks' = Append(tasks, Head(events))
                /\ UNCHANGED <<events, loop, pc, job, kind, by, done, refused>>

\* The oldest event becomes a task, once there is room.
Move == /\ loop = "moving" /\ events # <<>>
        /\ Len(tasks) < MaxTaskNum
        /\ tasks' = Append(tasks, Head(events))
        /\ events' = Tail(events)
        /\ UNCHANGED <<loop, pc, job, kind, by, done, refused>>

Rest == /\ loop = "moving" /\ events = <<>>
        /\ loop' = "waiting"
        /\ UNCHANGED <<events, tasks, pc, job, kind, by, done, refused>>

-----------------------------------------------------------------------------
(* TaskMainWorker *)

\* Variant with a fault: the newest task of a full pool is dropped with the one taken.
LossyTakeTask(w) ==
    /\ pc[w] = "idle" /\ tasks # <<>>
    /\ pc' = [pc EXCEPT ![w] = "running"]
    /\ job' = [job EXCEPT ![w] = [own |-> Head(tasks), sub |-> 0]]
    /\ tasks' = IF Len(tasks) >= MaxTaskNum THEN <<>> ELSE Tail(tasks)
    /\ UNCHANGED <<events, loop, kind, by, done, refused>>

TakeTask(w) ==
    /\ pc[w] = "idle" /\ tasks # <<>>
    /\ pc' = [pc EXCEPT ![w] = "running"]
    /\ job' = [job EXCEPT ![w] = [own |-> Head(tasks), sub |-> 0]]
    /\ tasks' = Tail(tasks)
    /\ UNCHANGED <<events, loop, kind, by, done, refused>>

TaskReturns(w) ==
    /\ \/ pc[w] = "finishing"
       \/ pc[w] = "running" /\ kind[job[w].own] = "leaf"
    /\ pc' = [pc EXCEPT ![w] = "idle"]
    /\ done' = done \cup {job[w].own}
    /\ job' = [job EXCEPT ![w] = NoJob]
    /\ UNCHANGED <<events, tasks, loop, kind, by, refused>>

ProcessEvent == Awake \/ Move \/ Rest
TaskMainWorker(w) == TakeTask(w) \/ HandlerSends(w) \/ HandlerSyncs(w) \/ TaskReturns(w)
InCall(t) == PushEvent(t) \/ PushTask(t) \/ FutureReturns(t)

Next == \/ ProcessEvent
        \/ \E t \in Clients : ClientSends(t)
        \/ \E w \in Workers : TaskMainWorker(w)
        \/ \E t \in Threads : InCall(t)

\* Threads run; who waits for a lock, or for room, is not passed over for ever.
Spec == /\ Init /\ [][Next]_vars
        /\ WF_vars(ProcessEvent)
        /\ \A w \in Workers : WF_vars(TaskMainWorker(w))
        /\ \A t \in Threads : SF_vars(InCall(t))

-----------------------------------------------------------------------------
(* Properties *)

Numbers == 1..Len(kind)
InSeq(s) == {s[i] : i \in 1..Len(s)}
Called(how) == {job[t].sub : t \in {u \in Threads : pc[u] \in how}}
Handled == {job[w].own : w \in {u \in Workers : pc[u] # "idle"}}

\* The two queues respect their limits, and hold events that were sent.
TypeOK == /\ loop \in {"waiting", "moving"}
          /\ pc \in [Threads -> {"idle", "running", "pushing", "submitting", "awaiting", "finishing"}]
          /\ InSeq(events) \cup InSeq(tasks) \cup done \cup refused \subseteq Numbers
          /\ Len(events) <= MaxEvents
          /\ Len(tasks) <= MaxTaskNum

\* Every event is in exactly one place: on its way in, queued, with the pool, in a handler,
\* handled, or refused.  None is lost between the two queues, none is handled twice.
OnePlace ==
    /\ Numbers = Called({"pushing", "submitting"}) \cup InSeq(events) \cup InSeq(tasks)
                 \cup Handled \cup done \cup refused
    /\ Cardinality(InSeq(events)) = Len(events) /\ Cardinality(InSeq(tasks)) = Len(tasks)
    /\ InSeq(events) \cap InSeq(tasks) = {}
    /\ (InSeq(events) \cup InSeq(tasks)) \cap (Handled \cup done \cup refused) = {}
    /\ Handled \cap done = {}

\* Every event that was accepted is handled, in the end.
AllHandled == <>[](Numbers = done \cup refused)

\* PushSyncEvent returns, also when it is called from a handler.
SyncReturns == <>[](\A t \in Threads : pc[t] \notin {"submitting", "awaiting"})
=============================================================================
