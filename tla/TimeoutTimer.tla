------------------------------ MODULE TimeoutTimer ------------------------------
(***************************************************************************)
(* The one-thread timeout timer of services/utils/timeout_timer.{h,cpp}.   *)
(*                                                                         *)
(* A timer owns a thread that runs MainLoop.  The client (a session, the   *)
(* buffer dispatcher) calls StartTimer, StopTimer and the destructor.      *)
(* Every access to state_ is made under taskMutex_, and MainLoop gives the *)
(* mutex up only inside its two waits, so the code between two waits is    *)
(* one action.  The 2 ms waits of StartTimer and StopTimer on waitSignal_  *)
(* keep taskMutex_ locked: nothing can happen during them.                 *)
(*                                                                         *)
(* A thread that was notified has left the wait set but must still take    *)
(* taskMutex_ again: pc = "taskWoken" and pc = "cancelWoken" are these     *)
(* points, where a client call can slip in.                                *)
(***************************************************************************)
EXTENDS Naturals

CONSTANTS MaxOps,      \* bound on the calls of StartTimer and StopTimer
          AllowReuse,  \* the client may pass reuse = true
          Spurious     \* taskSignal_.wait, which has no predicate, may wake by itself

ASSUME TimerAssumption == /\ MaxOps \in Nat
                          /\ AllowReuse \in BOOLEAN
                          /\ Spurious \in BOOLEAN

VARIABLES state,     \* state_
          reuse,     \* reuse_
          callback,  \* whether callback_ is set
          pc,        \* where the thread of MainLoop is
          ops,       \* calls made by the client (bounded by MaxOps)
          quiet,     \* history: no start, and no spurious wakeup, is pending that no later
                     \* stop took back
          armed      \* history: a start that reached the waiting thread is pending

timerVars == <<state, reuse, callback, pc, ops, quiet, armed>>

States == {"INIT", "WAITING", "WORKING", "CANCELLED", "EXITED"}
Pcs == {"top", "taskWait", "taskWoken", "cancelWait", "cancelWoken", "inCallback", "done"}

\* The timer's state is one of TimeoutState, whoever wrote it last.
TimerTypeOK == /\ state \in States
               /\ pc \in Pcs
               /\ reuse \in BOOLEAN
               /\ callback \in BOOLEAN
               /\ quiet \in BOOLEAN
               /\ armed \in BOOLEAN
               /\ ops \in 0..MaxOps

TimerInit == /\ state = "INIT"
             /\ reuse = FALSE
             /\ callback = FALSE
             /\ pc = "top"
             /\ ops = 0
             /\ quiet = TRUE
             /\ armed = FALSE

-----------------------------------------------------------------------------
(* The client.  callback_() runs with taskMutex_ locked, so no call gets   *)
(* through while pc = "inCallback"; after the destructor there is no call. *)

ClientMay == /\ pc # "inCallback"
             /\ state # "EXITED"
             /\ ops < MaxOps

NotifyCancel == IF pc = "cancelWait" THEN "cancelWoken" ELSE pc
NotifyTask(at) == IF at = "taskWait" THEN "taskWoken" ELSE at

\* Variant with a fault: the waiting thread is not notified.
UnnotifiedStartTimer(withCallback, again) ==
    /\ ClientMay
    /\ reuse' = again
    /\ state' = IF state = "WORKING" THEN "CANCELLED" ELSE state
    /\ pc' = IF state = "WORKING" THEN NotifyCancel ELSE pc
    /\ callback' = (callback \/ withCallback)
    /\ ops' = ops + 1
    /\ quiet' = FALSE
    /\ armed' = (pc \in {"taskWait", "taskWoken"} /\ callback')

StartTimer(withCallback, again) ==
    /\ ClientMay
    /\ reuse' = again
    /\ LET cancelling == state = "WORKING"
           afterCancel == IF cancelling THEN NotifyCancel ELSE pc
       IN  /\ state' = IF cancelling THEN "CANCELLED" ELSE state
           /\ pc' = NotifyTask(afterCancel)
    /\ callback' = (callback \/ withCallback)
    /\ ops' = ops + 1
    /\ quiet' = FALSE
    /\ armed' = (pc \in {"taskWait", "taskWoken"} /\ callback')

\* Variant with a fault: the countdown goes on.
IdleStopTimer ==
    /\ ClientMay
    /\ ops' = ops + 1
    /\ quiet' = (quiet \/ pc # "taskWoken")
    /\ armed' = FALSE
    /\ UNCHANGED <<state, reuse, callback, pc>>

StopTimer ==
    /\ ClientMay
    /\ state' = IF state = "WORKING" THEN "CANCELLED" ELSE state
    /\ pc' = IF state = "WORKING" THEN NotifyCancel ELSE pc
    /\ ops' = ops + 1
    /\ quiet' = (quiet \/ pc # "taskWoken")
    /\ armed' = FALSE
    /\ UNCHANGED <<reuse, callback>>

SetTimeoutCallback ==
    /\ state # "EXITED"
    /\ ~callback
    /\ callback' = TRUE
    /\ UNCHANGED <<state, reuse, pc, ops, quiet, armed>>

\* Variant with a fault: the thread is not woken.
UnnotifiedDestroy ==
    /\ pc # "inCallback"
    /\ state # "EXITED"
    /\ state' = "EXITED"
    /\ armed' = FALSE
    /\ UNCHANGED <<reuse, callback, pc, ops, quiet>>

\* The destructor up to its join(): it returns when pc = "done".
Destroy ==
    /\ pc # "inCallback"
    /\ state # "EXITED"
    /\ state' = "EXITED"
    /\ pc' = CASE state = "WAITING" -> NotifyTask(pc)
               [] state = "WORKING" -> NotifyCancel
               [] OTHER             -> pc
    /\ armed' = FALSE
    /\ UNCHANGED <<reuse, callback, ops, quiet>>

-----------------------------------------------------------------------------
(* MainLoop, from one wait to the next. *)

LoopTop ==
    /\ pc = "top"
    /\ IF state = "EXITED"
       THEN pc' = "done" /\ UNCHANGED state
       ELSE IF reuse
            THEN pc' = "cancelWait" /\ state' = "WORKING"
            ELSE pc' = "taskWait" /\ state' = "WAITING"
    /\ UNCHANGED <<reuse, callback, ops, quiet, armed>>

SpuriousWakeup ==
    /\ Spurious
    /\ pc = "taskWait"
    /\ pc' = "taskWoken"
    /\ quiet' = FALSE
    /\ UNCHANGED <<state, reuse, callback, ops, armed>>

TaskSignalled ==
    /\ pc = "taskWoken"
    /\ IF state = "EXITED"
       THEN pc' = "done" /\ UNCHANGED state
       ELSE pc' = "cancelWait" /\ state' = "WORKING"
    /\ UNCHANGED <<reuse, callback, ops, quiet, armed>>

\* cancelSignal_.wait_for gives up after timeout_ seconds.
Expire ==
    /\ pc = "cancelWait"
    /\ pc' = "cancelWoken"
    /\ UNCHANGED <<state, reuse, callback, ops, quiet, armed>>

\* Variant with a fault: the callback is called whatever ended the wait.
HastyCancelSignalled ==
    /\ pc = "cancelWoken"
    /\ pc' = IF callback THEN "inCallback" ELSE "top"
    /\ UNCHANGED <<state, reuse, callback, ops, quiet, armed>>

CancelSignalled ==
    /\ pc = "cancelWoken"
    /\ pc' = IF state = "WORKING" /\ callback THEN "inCallback" ELSE "top"
    /\ UNCHANGED <<state, reuse, callback, ops, quiet, armed>>

CallbackReturns ==
    /\ pc = "inCallback"
    /\ pc' = "top"
    /\ quiet' = TRUE
    /\ armed' = FALSE
    /\ UNCHANGED <<state, reuse, callback, ops>>

MainLoop == LoopTop \/ TaskSignalled \/ Expire \/ CancelSignalled \/ CallbackReturns

Client == \/ \E withCallback \in BOOLEAN, again \in {FALSE, AllowReuse} :
                StartTimer(withCallback, again)
          \/ StopTimer
          \/ SetTimeoutCallback
          \/ Destroy

\* After the destructor and the end of the thread nothing is left to do.
Terminated == pc = "done" /\ UNCHANGED timerVars

TimerNext == Client \/ MainLoop \/ SpuriousWakeup \/ Terminated

\* The operating system runs the timer thread, wait_for expires, callbacks return.
TimerSpec == TimerInit /\ [][TimerNext]_timerVars /\ WF_timerVars(MainLoop)

-----------------------------------------------------------------------------
(* Properties *)

\* A timer that is not in reuse mode calls its callback only for a StartTimer (or a spurious
\* return of taskSignal_.wait) that was not yet answered: never before the first start, at
\* most once per start, never after a StopTimer (except one that slips in between the
\* notification of the thread and its return from taskSignal_.wait).
FiresOnlyIfArmed == pc = "inCallback" => ~quiet \/ reuse

\* No callback begins once the destructor has run its locked part: the sessions rely on it
\* when they reset a timer whose callback captures `this`.
NoFireAfterDestroy == [][pc' = "inCallback" => state # "EXITED"]_timerVars

\* join() in the destructor returns.
DestructorReturns == (state = "EXITED") ~> (pc = "done")

\* A start that finds the thread in taskSignal_.wait ends in the callback, unless a later
\* call of the client takes it back.
WaitingStartFires == armed ~> ~armed

\* What the users of the timer expect: a start is followed by the callback, unless the
\* timer is stopped, or destroyed.
StartedTimerFires == (~quiet /\ callback) ~> (quiet \/ state = "EXITED")
=============================================================================
