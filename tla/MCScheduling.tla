----------------------------- MODULE MCScheduling -----------------------------
(* Small instances of what decides which work is run next: an executor that   *)
(* waits with a wait set; the futures, tasks and done callbacks of            *)
(* MCTaskFuture with two workers and two threads of the application; a future *)
(* that an executor spins for in two calls; the timers of an EventsExecutor.  *)
(* A behaviour is about one of them; the others stay as they begin.           *)
EXTENDS MCWaitSetExecutor

CONSTANTS PlainFutures, Tasks, DoneCallbacks, Workers, Externals, Program, Yield, f, a, b, d, \* of TaskFuture
          MaxCalls, MaxWork,                     \* of SpinUntil
          Timers, Period, MaxTime, MaxRequests   \* of EventsTimers

VARIABLES
    state, callbacks, executing, taskLock, closed, pos, waitingOn, dueTasks, workerPool, wpc, wtask, xpc, xfut,
    dropped, scheduled, removed,
    kind, multi, future, wakeOnDone, settling, down, signal, guard, readyTasks, submitted, entityReady,
    timer, late, bound, gen, yielded, head, pc, calls, work,
    wall, sim, ros, due, canceled, created, timers, onDebug, readyTimers, queue, adding, arming,
    handler, when, thread, latched, notified, requests, early,
    part

Tasking == INSTANCE TaskFuture WITH
    Futures <- PlainFutures, Callbacks <- DoneCallbacks, ready <- dueTasks, pool <- workerPool
ASSUME ProgramAssumption == Tasking!ConstantsAssumption
MCProgram == (a :> <<f>>) @@ (b :> <<Yield, a>>) @@ (d :> <<>>)
Until == INSTANCE SpinUntil WITH
    wake <- wakeOnDone, ready <- readyTasks, pool <- submitted, arrived <- entityReady
Clocked == INSTANCE EventsTimers WITH ready <- readyTimers
ASSUME ClockedAssumption == Clocked!TimersAssumption

futureVars == <<state, callbacks, executing, taskLock, closed, pos, waitingOn, dueTasks, workerPool, wpc, wtask,
                xpc, xfut, dropped, scheduled, removed>>
untilVars == <<kind, multi, future, wakeOnDone, settling, down, signal, guard, readyTasks, submitted, entityReady,
               timer, late, bound, gen, yielded, head, pc, calls, work>>
timerVars == <<wall, sim, ros, due, canceled, created, timers, onDebug, readyTimers, queue, adding, arming,
               handler, when, thread, latched, notified, requests, early>>

MCInit ==
    /\ part \in {"executor", "futures", "until", "timers"}
    /\ Init /\ Tasking!Init /\ Until!Init /\ Clocked!Init
    /\ part # "executor" => inline
    /\ part # "until" => kind = "none" /\ ~multi
    /\ part # "timers" => ~ros /\ due = [t \in Timers |-> 0]
MCNext ==
    \/ part = "executor" /\ Next /\ UNCHANGED <<futureVars, untilVars, timerVars, part>>
    \/ part = "futures" /\ Tasking!Next /\ UNCHANGED <<vars, untilVars, timerVars, part>>
    \/ part = "until" /\ Until!Next /\ UNCHANGED <<vars, futureVars, timerVars, part>>
    \/ part = "timers" /\ Clocked!Next /\ UNCHANGED <<vars, futureVars, untilVars, part>>
MCSpec == MCInit /\ [][MCNext]_<<vars, futureVars, untilVars, timerVars, part>>

\* The properties of the instances, where their part is looked at.
OneThreadPerTask == part = "futures" => Tasking!OneThreadPerTask
WokenOnce == part = "futures" => Tasking!WokenOnce
SleeperIsWoken == part = "until" => Until!SleeperIsWoken
TimerIsCovered == part = "timers" => Clocked!TimerIsCovered
===============================================================================
