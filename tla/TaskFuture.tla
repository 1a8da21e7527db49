----------------------------- MODULE TaskFuture -----------------------------
(***************************************************************************)
(* rclpy.task: futures, the coroutine tasks that await them and the done   *)
(* callbacks that hang on them, driven by an executor.                     *)
(*                                                                         *)
(* The executor is its FIFO of ready tasks, the spinner that moves them to *)
(* the thread pool, and Workers that call Task.__call__.  With one worker  *)
(* this is also a SingleThreadedExecutor: a call ends before the next one  *)
(* starts.  Externals are the application's threads; each performs one     *)
(* operation.  A step ends where a lock is released or a field that other  *)
(* threads read is written outside it.  Futures come from                  *)
(* Executor.create_future(), so their executor is always set.              *)
(*                                                                         *)
(* A done callback is a task with an empty program: create_task(callback)  *)
(* is what scheduling it means.                                            *)
(***************************************************************************)
EXTENDS Naturals, FiniteSets, SequencesExt

CONSTANTS
    Futures,     \* plain futures
    Tasks,       \* coroutine tasks, all created before the run starts
    Callbacks,   \* done callbacks
    Workers,     \* threads that call tasks
    Externals,   \* application threads
    Program,     \* the futures, tasks and Yields each coroutine awaits in turn
    Yield,       \* `yield None`
    None

Runnable == Tasks \cup Callbacks
Awaitable == Futures \cup Tasks

(* The kinds of objects are distinct; coroutines await futures and tasks, and *)
(* a done callback awaits nothing.                                            *)
ConstantsAssumption ==
    /\ Futures \cap Tasks = {} /\ Awaitable \cap Callbacks = {} /\ IsFiniteSet(Tasks)
    /\ None \notin Awaitable \cup Callbacks \cup Workers /\ Yield \notin Awaitable
    /\ Program \in [Runnable -> Seq(Awaitable \cup {Yield})]
    /\ \A d \in Callbacks : Program[d] = <<>>

VARIABLES
    state,       \* _state of every awaitable and of the created callback tasks
    callbacks,   \* _callbacks of every awaitable
    executing,   \* _executing
    taskLock,    \* holder of _task_lock
    closed,      \* coroutines on which close() was called
    pos,         \* how many awaits of its program a coroutine has passed
    waitingOn,   \* the future the coroutine is suspended on
    ready,       \* Executor._ready_tasks
    pool,        \* tasks submitted to the thread pool
    wpc, wtask,  \* control of the workers
    xpc, xfut,   \* control of the application threads and their future
    dropped,     \* history: tasks whose call returned early while they were pending
    scheduled,   \* how often each done callback was handed to the executor
    removed      \* done callbacks that remove_done_callback() removed

taskVars == <<executing, taskLock, pos, waitingOn>>
queueVars == <<ready, pool>>
workerVars == <<wpc, wtask, dropped>>
externalVars == <<xpc, xfut>>
vars == <<state, callbacks, closed, taskVars, queueVars, workerVars, externalVars,
          scheduled, removed>>

Pending(f) == state[f] = "PENDING"

Occurrences(s, t) == Cardinality({i \in DOMAIN s : s[i] = t})

(* what each of the tasks and callbacks in s adds to the schedule counters *)
Scheduling(s) == [d \in Callbacks |-> scheduled[d] + Occurrences(s, d)]

Init ==
    /\ state = [f \in Awaitable \cup Callbacks |-> "PENDING"]
    /\ callbacks = [f \in Awaitable |-> <<>>]
    /\ executing = [t \in Runnable |-> FALSE]
    /\ taskLock = [t \in Runnable |-> None]
    /\ closed = {}
    /\ pos = [t \in Runnable |-> 0]
    /\ waitingOn = [t \in Runnable |-> None]
    /\ ready = SetToSeq(Tasks)
    /\ pool = <<>>
    /\ wpc = [w \in Workers |-> "idle"]
    /\ wtask = [w \in Workers |-> None]
    /\ xpc = [x \in Externals |-> "start"]
    /\ xfut = [x \in Externals |-> None]
    /\ scheduled = [d \in Callbacks |-> 0]
    /\ removed = {} /\ dropped = {}

-----------------------------------------------------------------------------
(* Future operations, shared by workers and application threads *)

(* set_result() / set_exception(): no test of the current state *)
SetDone(f) == state' = [state EXCEPT ![f] = "FINISHED"]

(* _schedule_or_invoke_done_callbacks(): take the list under the lock, then *)
(* hand every entry to the executor                                         *)
TakeCallbacks(f) ==
    IF f \in Awaitable
    THEN /\ callbacks' = [callbacks EXCEPT ![f] = <<>>]
         /\ ready' = ready \o callbacks[f]
         /\ scheduled' = Scheduling(callbacks[f])
    ELSE UNCHANGED <<callbacks, ready, scheduled>>

(* mutant of AddWaitingTask: a task that comes late is scheduled and registered *)
AddWaitingTaskTwice(f, t) ==
    /\ callbacks' = [callbacks EXCEPT ![f] = Append(@, t)]
    /\ ready' = IF Pending(f) THEN ready ELSE Append(ready, t)

(* _add_waiting_task(task) *)
AddWaitingTask(f, t) ==
    IF Pending(f)
    THEN callbacks' = [callbacks EXCEPT ![f] = Append(@, t)] /\ UNCHANGED ready
    ELSE ready' = Append(ready, t) /\ UNCHANGED callbacks

-----------------------------------------------------------------------------
(* The spinner: _wait_for_ready_callbacks() yields the ready tasks in order, *)
(* dropping those already done, and the executor submits them to its pool    *)
SpinnerPops ==
    /\ ready # <<>>
    /\ ready' = Tail(ready)
    /\ pool' = IF Pending(Head(ready)) THEN Append(pool, Head(ready)) ELSE pool
    /\ UNCHANGED <<state, callbacks, closed, taskVars, workerVars, externalVars,
                   scheduled, removed>>

Goto(w, label) == wpc' = [wpc EXCEPT ![w] = label] /\ UNCHANGED <<wtask, dropped>>

WorkerTakes(w) ==
    /\ wpc[w] = "idle" /\ pool # <<>>
    /\ wtask' = [wtask EXCEPT ![w] = Head(pool)]
    /\ wpc' = [wpc EXCEPT ![w] = "called"]
    /\ pool' = Tail(pool)
    /\ UNCHANGED <<state, callbacks, closed, taskVars, ready, externalVars, dropped, scheduled,
                   removed>>

(* mutant of Admits: neither _executing nor the lock is tested *)
AdmitsPending(t) == Pending(t)

(* the three tests at the head of __call__() *)
Admits(t) == Pending(t) /\ ~executing[t] /\ taskLock[t] = None

CallReturnsEarly(w) ==
    /\ wpc[w] = "called" /\ ~Admits(wtask[w])
    /\ wpc' = [wpc EXCEPT ![w] = "idle"] /\ UNCHANGED wtask
    /\ dropped' = IF Pending(wtask[w]) THEN dropped \cup {wtask[w]} ELSE dropped
    /\ UNCHANGED <<state, callbacks, closed, taskVars, queueVars, externalVars, scheduled, removed>>

CallStarts(w) ==
    /\ wpc[w] = "called" /\ Admits(wtask[w])
    /\ taskLock' = [taskLock EXCEPT ![wtask[w]] = w]
    /\ executing' = [executing EXCEPT ![wtask[w]] = TRUE]
    /\ Goto(w, "run")
    /\ UNCHANGED <<state, callbacks, closed, pos, waitingOn, queueVars, externalVars,
                   scheduled, removed>>

(* Future.__await__ after the yield: the awaited future must be done now *)
AwaitedTwice(t) == waitingOn[t] # None /\ Pending(waitingOn[t])

AwaitReturns(w) ==
    LET t == wtask[w] IN
    /\ wpc[w] = "run" /\ t \notin closed
    /\ pos[t] < Len(Program[t]) /\ Program[t][pos[t] + 1] # Yield
    /\ ~Pending(Program[t][pos[t] + 1])
    /\ pos' = [pos EXCEPT ![t] = @ + 1]
    /\ waitingOn' = [waitingOn EXCEPT ![t] = None]
    /\ UNCHANGED <<state, callbacks, closed, executing, taskLock, queueVars, workerVars,
                   externalVars, scheduled, removed>>

(* coro.send() returns: the coroutine yielded a pending future, or None *)
CoroutineYields(w) ==
    LET t == wtask[w] IN
    /\ wpc[w] = "run" /\ t \notin closed /\ ~AwaitedTwice(t)
    /\ pos[t] < Len(Program[t])
    /\ \/ /\ Program[t][pos[t] + 1] = Yield
          /\ pos' = [pos EXCEPT ![t] = @ + 1]
          /\ UNCHANGED waitingOn
       \/ /\ Program[t][pos[t] + 1] # Yield
          /\ Pending(Program[t][pos[t] + 1])
          /\ waitingOn' = [waitingOn EXCEPT ![t] = Program[t][pos[t] + 1]]
          /\ UNCHANGED pos
    /\ Goto(w, "yielded")
    /\ UNCHANGED <<state, callbacks, closed, executing, taskLock, queueVars, externalVars,
                   scheduled, removed>>

(* _add_resume_callback(), or _call_task_in_next_spin() after `yield None` *)
TaskSuspends(w) ==
    LET t == wtask[w] IN
    /\ wpc[w] = "yielded"
    /\ IF waitingOn[t] = None
       THEN ready' = Append(ready, t) /\ UNCHANGED callbacks
       ELSE AddWaitingTask(waitingOn[t], t)
    /\ Goto(w, "leave")
    /\ UNCHANGED <<state, closed, taskVars, pool, externalVars, scheduled, removed>>

(* StopIteration, an exception of the handler, a second await, or send() on *)
(* a coroutine that cancel() has closed: the task is done                   *)
TaskFinishes(w) ==
    LET t == wtask[w] IN
    /\ wpc[w] = "run"
    /\ t \in closed \/ AwaitedTwice(t) \/ pos[t] = Len(Program[t])
    /\ SetDone(t)
    /\ Goto(w, "settle")
    /\ UNCHANGED <<callbacks, closed, taskVars, queueVars, externalVars, scheduled, removed>>

TaskSettles(w) ==
    /\ wpc[w] = "settle"
    /\ TakeCallbacks(wtask[w])
    /\ Goto(w, "leave")
    /\ UNCHANGED <<state, closed, taskVars, pool, externalVars, removed>>

(* `self._executing = False` *)
CallLeaves(w) ==
    /\ wpc[w] = "leave"
    /\ executing' = [executing EXCEPT ![wtask[w]] = FALSE]
    /\ Goto(w, "release")
    /\ UNCHANGED <<state, callbacks, closed, taskLock, pos, waitingOn, queueVars,
                   externalVars, scheduled, removed>>

CallReleases(w) ==
    /\ wpc[w] = "release"
    /\ taskLock' = [taskLock EXCEPT ![wtask[w]] = None]
    /\ Goto(w, "idle")
    /\ UNCHANGED <<state, callbacks, closed, executing, pos, waitingOn, queueVars,
                   externalVars, scheduled, removed>>

Work(w) ==
    \/ WorkerTakes(w) \/ CallReturnsEarly(w) \/ CallStarts(w)
    \/ AwaitReturns(w) \/ CoroutineYields(w) \/ TaskSuspends(w)
    \/ TaskFinishes(w) \/ TaskSettles(w) \/ CallLeaves(w) \/ CallReleases(w)

-----------------------------------------------------------------------------
(* Application threads *)

XGoto(x, label, f) == xpc' = [xpc EXCEPT ![x] = label] /\ xfut' = [xfut EXCEPT ![x] = f]

(* set_result() or set_exception() of a plain future *)
SetResult(x, f) ==
    /\ xpc[x] = "start"
    /\ SetDone(f)
    /\ XGoto(x, "settle", f)
    /\ UNCHANGED <<callbacks, closed, taskVars, queueVars, workerVars, scheduled, removed>>

(* Task.cancel(): close the coroutine first; closing one that is running *)
(* raises ValueError and nothing is cancelled                            *)
CloseCoroutine(x, t) ==
    /\ xpc[x] = "start"
    /\ IF ~Pending(t) THEN XGoto(x, "cancel", t) /\ UNCHANGED closed
       ELSE IF \E w \in Workers : wtask[w] = t /\ wpc[w] = "run"
       THEN XGoto(x, "done", t) /\ UNCHANGED closed
       ELSE XGoto(x, "cancel", t) /\ closed' = closed \cup {t}
    /\ UNCHANGED <<state, callbacks, taskVars, queueVars, workerVars, scheduled, removed>>

(* Future.cancel(): the test is made under the lock ... *)
CancelTests(x, f) ==
    /\ \/ xpc[x] = "start" /\ f \in Futures
       \/ xpc[x] = "cancel" /\ f = xfut[x]
    /\ XGoto(x, IF Pending(f) THEN "cancelling" ELSE "done", f)
    /\ UNCHANGED <<state, callbacks, closed, taskVars, queueVars, workerVars, scheduled, removed>>

(* ... and the assignment after it was released *)
CancelAssigns(x) ==
    /\ xpc[x] = "cancelling"
    /\ state' = [state EXCEPT ![xfut[x]] = "CANCELLED"]
    /\ XGoto(x, "settle", xfut[x])
    /\ UNCHANGED <<callbacks, closed, taskVars, queueVars, workerVars, scheduled, removed>>

Settles(x) ==
    /\ xpc[x] = "settle"
    /\ TakeCallbacks(xfut[x])
    /\ XGoto(x, "done", xfut[x])
    /\ UNCHANGED <<state, closed, taskVars, pool, workerVars, removed>>

(* add_done_callback(): d is registered once in the run *)
AddDoneCallback(x, f, d) ==
    /\ xpc[x] = "start"
    /\ scheduled[d] = 0 /\ d \notin removed
    /\ \A g \in Awaitable : ~Contains(callbacks[g], d)
    /\ IF Pending(f)
       THEN callbacks' = [callbacks EXCEPT ![f] = Append(@, d)] /\ UNCHANGED <<ready, scheduled>>
       ELSE ready' = Append(ready, d) /\ scheduled' = Scheduling(<<d>>) /\ UNCHANGED callbacks
    /\ XGoto(x, "done", f)
    /\ UNCHANGED <<state, closed, taskVars, pool, workerVars, removed>>

RemoveDoneCallback(x, f, d) ==
    /\ xpc[x] = "start"
    /\ IF Contains(callbacks[f], d)
       THEN /\ callbacks' = [callbacks EXCEPT ![f] = RemoveFirst(@, d)]
            /\ removed' = removed \cup {d}
       ELSE UNCHANGED <<callbacks, removed>>
    /\ XGoto(x, "done", f)
    /\ UNCHANGED <<state, closed, taskVars, queueVars, workerVars, scheduled>>

Application(x) ==
    \/ \E f \in Futures : SetResult(x, f)
    \/ \E t \in Tasks : CloseCoroutine(x, t)
    \/ \E f \in Awaitable : CancelTests(x, f)
    \/ CancelAssigns(x) \/ Settles(x)
    \/ \E f \in Awaitable, d \in Callbacks : AddDoneCallback(x, f, d) \/ RemoveDoneCallback(x, f, d)

Next == SpinnerPops \/ (\E w \in Workers : Work(w)) \/ (\E x \in Externals : Application(x))

(* The executor keeps spinning and every thread that is inside one of its  *)
(* own calls is scheduled again; the application need not start another.   *)
Fairness ==
    /\ WF_vars(SpinnerPops)
    /\ \A w \in Workers : WF_vars(Work(w))
    /\ \A x \in Externals : WF_vars(CancelAssigns(x) \/ Settles(x))

Spec == Init /\ [][Next]_vars
FairSpec == Spec /\ Fairness

-----------------------------------------------------------------------------
InCall(t) == {w \in Workers : wtask[w] = t /\ wpc[w] \notin {"idle", "called"}}

(* The body of __call__() is never run by two threads for one task.        *)
OneThreadPerTask == \A t \in Runnable : Cardinality(InCall(t)) <= 1

Wakeups(t) ==
    Occurrences(ready, t) + Occurrences(pool, t)
    + Cardinality({f \in Awaitable : Contains(callbacks[f], t)})
    + Cardinality({w \in Workers : wtask[w] = t /\ wpc[w] \in {"called", "run", "yielded"}})

(* A task is owed at most one resumption at a time, however set_result,    *)
(* cancel and the await race: it is queued, registered with one future, or *)
(* being called.                                                           *)
OneWakeup == \A t \in Tasks : Wakeups(t) <= 1

(* A coroutine suspended on a future is never resumed before the future is *)
(* done: the RuntimeError 'Future awaited a second time' cannot happen.    *)
NeverAwaitedTwice ==
    \A w \in Workers : wpc[w] = "run" /\ wtask[w] \notin closed => ~AwaitedTwice(wtask[w])

(* Nobody is forgotten: a pending task or scheduled callback is on some    *)
(* queue, registered or being called - but for a task whose resumption     *)
(* came before the call that suspended it had left (see TaskResumes).      *)
NobodyForgotten ==
    /\ \A t \in Tasks : Pending(t) => Wakeups(t) > 0 \/ t \in dropped
    /\ \A d \in Callbacks : Pending(d) /\ scheduled[d] > 0 => Wakeups(d) > 0

Settling(f) ==
    \/ \E w \in Workers : wpc[w] = "settle" /\ wtask[w] = f
    \/ \E x \in Externals : xpc[x] = "settle" /\ xfut[x] = f

(* No task or callback is left behind on a future that is done: whoever    *)
(* finished it takes the list, and later registrations schedule at once.   *)
NothingStranded ==
    \A f \in Awaitable : ~Pending(f) /\ callbacks[f] # <<>> => Settling(f)

(* A done callback is scheduled at most once, and never after it was       *)
(* removed, even if set_result and cancel both run to the end.             *)
CallbackAtMostOnce ==
    \A d \in Callbacks : scheduled[d] <= 1 /\ (d \in removed => scheduled[d] = 0)

(* The resumption of a task is owed to it once: not twice, and not never;  *)
(* and a done callback is called at most once.                             *)
WokenOnce ==
    OneWakeup /\ NobodyForgotten /\ NothingStranded /\ NeverAwaitedTwice /\ CallbackAtMostOnce

(* A task suspended on a future resumes once the future is done.           *)
TaskResumes ==
    \A t \in Tasks, f \in Awaitable :
        (waitingOn[t] = f /\ ~Pending(f)) ~> (waitingOn[t] # f \/ ~Pending(t))
=============================================================================
