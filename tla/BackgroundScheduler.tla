------------------------ MODULE BackgroundScheduler ------------------------
(***************************************************************************)
(* The daemon's single background thread (daemon/state/background_         *)
(* scheduler.h) and the deadline-driven lifecycle task that                *)
(* daemon_kernel.cc configures on it.  Times are what is left of them, so  *)
(* one Tick lowers them all; the mutex mu_ is held over every action, and  *)
(* from "check" to the sleep of wait_until ("blocking": the predicate was  *)
(* tested).  deadline is the earliest guard of the lifecycle manager, retry*)
(* says that pending_gpu_unloads_ is not empty.                            *)
(***************************************************************************)
EXTENDS Integers

CONSTANTS Lifecycle,      \* TaskKind::kSessionLifecycle
          Periodic,       \* the tasks with an interval of their own
          None,           \* absl::InfiniteFuture()
          Interval,       \* of the periodic tasks
          SweepInterval,  \* sessions_sweep_interval
          RetryDelay,     \* the second after which a failed unload is retried
          MaxDelay,       \* the longest guard deadline
          MaxHooks        \* bound on the calls of other threads

Tasks == Periodic \union {Lifecycle}

VARIABLES running, stop, loop, due, pending, wake, signal, torun,
          deadline, retry, polled, hooks

vars == <<running, stop, loop, due, pending, wake, signal, torun,
          deadline, retry, polled, hooks>>
sched == <<running, stop>>
life == <<deadline, retry, polled>>

Delays == {Interval, SweepInterval, RetryDelay, MaxDelay}
Longest == CHOOSE d \in Delays : \A e \in Delays : e <= d

\* The variables have their types.
TypeOK ==
    /\ running \in BOOLEAN
    /\ stop \in {"none", "stored", "locked", "notified", "joined"}
    /\ loop \in {"scan", "run", "reschedule", "check", "blocking", "wait", "done"}
    /\ due \in [Tasks -> 0..Longest] /\ pending \in [Tasks -> BOOLEAN]
    /\ wake \in 0..Longest /\ signal \in BOOLEAN /\ torun \subseteq Tasks
    /\ deadline \in 0..MaxDelay \union {None} /\ retry \in BOOLEAN
    /\ polled \in 0..MaxDelay \union {None} /\ hooks \in 0..MaxHooks

Init ==
    /\ running = TRUE /\ stop = "none" /\ loop = "scan"
    /\ due = [t \in Tasks |-> IF t = Lifecycle THEN 0 ELSE Interval]
    /\ pending = [t \in Tasks |-> FALSE]
    /\ wake = 0 /\ signal = FALSE /\ torun = {}
    /\ deadline = None /\ retry = FALSE /\ polled = None /\ hooks = 0

Sub1(n) == IF n \in Nat \ {0} THEN n - 1 ELSE n

Tick ==
    /\ due' = [t \in Tasks |-> Sub1(due[t])]
    /\ wake' = Sub1(wake) /\ deadline' = Sub1(deadline) /\ polled' = Sub1(polled)
    /\ UNCHANGED <<running, stop, loop, pending, signal, torun, retry, hooks>>

------------------------------------------------------------------------------
(* The loop. *)

DueTasksPendingOnly == {t \in Tasks : pending[t]}
DueTasks == {t \in Tasks : pending[t] \/ due[t] = 0}

\* The lifecycle task has interval 0: it is due again at once.
Scan ==
    /\ loop = "scan" /\ running
    /\ LET next == [t \in Tasks |-> IF t \notin DueTasks THEN due[t]
                                    ELSE IF t = Lifecycle THEN 0 ELSE Interval]
       IN  /\ due' = next
           /\ wake' \in {next[t] : t \in Tasks} /\ \A t \in Tasks : wake' <= next[t]
    /\ torun' = DueTasks
    /\ pending' = [t \in Tasks |-> pending[t] /\ t \notin DueTasks]
    /\ loop' = "run"
    /\ UNCHANGED <<signal, hooks, sched, life>>

ScanStopped ==
    /\ loop = "scan" /\ ~running
    /\ loop' = "done"
    /\ UNCHANGED <<due, pending, wake, signal, torun, hooks, sched, life>>

RunTask(t) ==
    /\ loop = "run" /\ t \in torun \ {Lifecycle}
    /\ torun' = torun \ {t}
    /\ UNCHANGED <<loop, due, pending, wake, signal, hooks, sched, life>>

PollNoExpiry ==
    /\ loop = "run" /\ Lifecycle \in torun
    /\ \E again \in BOOLEAN : retry' = (retry /\ again)
    /\ polled' = deadline
    /\ loop' = "reschedule"
    /\ UNCHANGED <<deadline, due, pending, wake, signal, torun, hooks, sched>>

\* sweep_once: expired guards are retired and another guard becomes the
\* earliest; pending unloads are tried again; then next_deadline() is read.
Poll ==
    /\ loop = "run" /\ Lifecycle \in torun
    /\ \E d \in 1..MaxDelay \union {None} :
          /\ deadline' = IF deadline = 0 THEN d ELSE deadline
          /\ polled' = deadline'
    /\ \E again \in BOOLEAN : retry' = (retry /\ again)
    /\ loop' = "reschedule"
    /\ UNCHANGED <<due, pending, wake, signal, torun, hooks, sched>>

Delay(d) == IF d = None THEN SweepInterval ELSE IF d = 0 THEN 1 ELSE d

SetNextDue(when) ==
    /\ due' = [due EXCEPT ![Lifecycle] = when]
    /\ pending' = [pending EXCEPT ![Lifecycle] = FALSE]

\* The end of the lifecycle lambda: set_next_due with what was read before.
Reschedule ==
    /\ loop = "reschedule"
    /\ SetNextDue(Delay(polled))
    /\ torun' = torun \ {Lifecycle} /\ polled' = None
    /\ loop' = "run"
    /\ UNCHANGED <<wake, signal, deadline, retry, hooks, sched>>

AfterRun ==
    /\ loop = "run" /\ torun = {}
    /\ loop' = IF ~running THEN "done" ELSE IF wake > 0 THEN "check" ELSE "scan"
    /\ UNCHANGED <<due, pending, wake, signal, torun, hooks, sched, life>>

\* wait_until: the predicate is !running_, whatever woke the thread.
CheckPredicate ==
    /\ loop = "check"
    /\ loop' = IF running THEN "blocking" ELSE "scan"
    /\ UNCHANGED <<due, pending, wake, signal, torun, hooks, sched, life>>

Block ==
    /\ loop = "blocking"
    /\ loop' = "wait" /\ signal' = FALSE
    /\ UNCHANGED <<due, pending, wake, torun, hooks, sched, life>>

Wake ==
    /\ loop = "wait" /\ (signal \/ wake = 0)
    /\ loop' = IF wake = 0 THEN "scan" ELSE "check"
    /\ UNCHANGED <<due, pending, wake, signal, torun, hooks, sched, life>>

------------------------------------------------------------------------------
(* Other threads.  A notification reaches only a thread that sleeps. *)

MutexFree == loop \notin {"check", "blocking"}
NotifyCv == signal' = (signal \/ loop = "wait")

Notify(t) ==
    /\ MutexFree /\ hooks < MaxHooks
    /\ pending' = [pending EXCEPT ![t] = TRUE]
    /\ NotifyCv /\ hooks' = hooks + 1
    /\ UNCHANGED <<loop, due, wake, torun, sched, life>>

\* A guard with an earlier deadline is pushed; the hook moves the due time.
AddDeadline(d) ==
    /\ MutexFree /\ hooks < MaxHooks
    /\ deadline # None => d < deadline
    /\ deadline' = d
    /\ SetNextDue(Delay(d))
    /\ NotifyCv /\ hooks' = hooks + 1
    /\ UNCHANGED <<loop, wake, torun, retry, polled, sched>>

\* maybe_unload_daemon_replica_ fails: retry in a second.
UnloadFails ==
    /\ MutexFree /\ hooks < MaxHooks
    /\ retry' = TRUE
    /\ SetNextDue(RetryDelay)
    /\ NotifyCv /\ hooks' = hooks + 1
    /\ UNCHANGED <<loop, wake, torun, deadline, polled, sched>>

StopStore ==
    /\ stop = "none"
    /\ running' = FALSE /\ stop' = "stored"
    /\ UNCHANGED <<loop, due, pending, wake, signal, torun, hooks, life>>

StopLockSkipped ==
    /\ stop = "stored"
    /\ stop' = "locked"
    /\ UNCHANGED <<running, loop, due, pending, wake, signal, torun, hooks, life>>

StopLock ==
    /\ stop = "stored" /\ MutexFree
    /\ stop' = "locked"
    /\ UNCHANGED <<running, loop, due, pending, wake, signal, torun, hooks, life>>

StopNotify ==
    /\ stop = "locked"
    /\ NotifyCv /\ stop' = "notified"
    /\ UNCHANGED <<running, loop, due, pending, wake, torun, hooks, life>>

StopJoin ==
    /\ stop = "notified" /\ loop = "done"
    /\ stop' = "joined"
    /\ UNCHANGED <<running, loop, due, pending, wake, signal, torun, hooks, life>>

LoopStep == \/ Scan \/ ScanStopped \/ Poll \/ Reschedule \/ AfterRun
            \/ CheckPredicate \/ Block \/ Wake \/ \E t \in Periodic : RunTask(t)

StopStep == StopLock \/ StopNotify \/ StopJoin

Next ==
    \/ Tick \/ LoopStep \/ StopStore \/ StopStep \/ UnloadFails
    \/ \E t \in Periodic : Notify(t)
    \/ \E d \in 0..MaxDelay : AddDeadline(d)

Spec == Init /\ [][Next]_vars /\ WF_vars(Tick) /\ WF_vars(LoopStep) /\ WF_vars(StopStep)

------------------------------------------------------------------------------
\* stop() is not missed: once its notification is out, a sleeping loop has been
\* woken, although running_ is stored without the mutex.
StopNotMissed == stop = "notified" /\ loop = "wait" => signal

\* A periodic task whose time has come is run (or the scheduler is stopping),
\* however long the other tasks take and whatever other threads schedule.
DueTaskRuns == \A t \in Periodic : due[t] = 0 ~> (t \in torun \/ ~running)

\* A guard whose deadline has passed is retired by a later poll.
ExpiredGuardRetired == deadline = 0 ~> (deadline # 0 \/ ~running)

\* "Wait until the next due time or a notification": the loop does not sleep
\* past a task that was notified or whose due time was moved earlier.
WaitEndsOnNotification ==
    loop = "wait" /\ ~signal => \A t \in Tasks : ~pending[t] /\ wake <= due[t]

\* The lifecycle task is scheduled no later than the earliest guard deadline.
DeadlineScheduled ==
    deadline # None /\ loop \notin {"run", "reschedule"}
        => due[Lifecycle] <= Delay(deadline)
==============================================================================
