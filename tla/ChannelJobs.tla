------------------------------- MODULE ChannelJobs -------------------------------
(***************************************************************************)
(* The workers of the event manager that handle the events of one media    *)
(* channel.  A handler that gives up a lock, or waits, has one step per     *)
(* stretch in between; `at' says how far it is.                            *)
(***************************************************************************)
EXTENDS Integers, FiniteSets

CONSTANTS Workers,    \* workers that handle events of the channel at the same time
          Nobody      \* no worker holds the lock

ASSUME JobsAssumption == Nobody \notin Workers

VARIABLE job          \* what each worker does: the event, its argument, how far, what is left

NoJob == [op |-> "none", arg |-> "none", at |-> "none", left |-> {}]
NewJob(op, arg, at) == [op |-> op, arg |-> arg, at |-> at, left |-> {}]

At(w, step) == job[w].at = step
Goto(w, step) == job' = [job EXCEPT ![w].at = step]
Finish(w) == job' = [job EXCEPT ![w] = NoJob]
Idle(w) == job[w].op = "none"
AllIdle == \A w \in Workers : Idle(w)
=============================================================================
