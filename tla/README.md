# A TLA+ model of rclpy

rclpy is the Python client library of ROS 2.  Its own logic is not in the
messages (rcl and rmw carry those) but in what happens between threads: an
executor that turns ready entities into handler tasks, tasks and futures that
suspend and resume one another, callback groups that keep callbacks apart, nodes
whose entities and parameters change under a spinner, and a shutdown that must
end while all of this is in flight.  The modules here model that logic.

Source paths are relative to `src/rclpy/rclpy/` unless they say otherwise;
C++ paths are relative to `src/rclpy/src/rclpy/`.

## The system

| component | state it keeps | operations | talks to |
|---|---|---|---|
| Executor core (`executors.py`, `callback_groups.py`) | ready tasks, `_executor_event` and `_executor_triggered` of each entity, active entity of each group, its own guard condition, the suspended generator | a pass of `_wait_for_ready_callbacks`, `_make_handler`, `can_execute`, `beginning_execution`, `ending_execution`, takes, `spin_until_future_complete` | rcl wait set, tasks, thread pool |
| Shutdown (`executors.py`) | `_is_shutdown`, `_spinning_thread`, `_WorkTracker`, the guards, the pool | `shutdown`, `_enter_spin`, `_exit_spin`, `wake` | executor core, callbacks that call `shutdown` |
| Future and Task (`task.py`) | result state, done callbacks, `_executing`, `_task_lock`, coroutine position | `set_result`, `cancel`, `add_done_callback`, `__await__`, `Task.__call__` | ready tasks of the executor |
| Events executor (`events_executor/` in C++) | event queue and stop flag, tracked entities, `wake_pending_`, timers of each clock, one delayed event | `spin`, `shutdown`, `wake`, `UpdateEntitiesFromNodes`, `Handle...Ready`, `DispatchTimer` | rcl event callbacks, context |
| Service client and server (`client.py`, `service.py`) | pending requests by sequence number | `call`, `call_async`, `remove_pending_request`, the executor's `_take_client` | futures, executor |
| Action client (`action/client.py`) | pending goal, cancel and result requests, goal handles, feedback callbacks, content filter | `send_goal_async`, `take_data`, `execute` | futures, executor |
| Action server (`action/server.py`, `action_goal_handle.cpp`) | goal handles, result futures, goal state machine | goal, cancel, result and expiry handlers, `succeed`, `abort`, `canceled`, `destroy` | executor, user callbacks |
| Lifecycle node (`lifecycle/`) | state machine, managed entities, enabled publishers | `__change_state`, the transition callbacks | services, direct triggers |
| Context (`context.py`, `__init__.py`, `signal_handler.cpp`) | rcl context, shutdown callbacks, tracked nodes, logging reference count | `init`, `shutdown`, `try_shutdown`, `on_shutdown`, the deferred signal handler | every component that waits |
| Timer and Rate (`timer.py`) | event, number of sleepers, flags | `sleep`, `destroy` | executor (the timer's callback) |
| Clock and time source (`clock.py`, `time_source.py`) | jump callbacks, attached clocks, `/clock` subscription | `sleep_until`, `sleep_for`, `attach_node`, `attach_clock`, `clock_callback` | parameters, subscription |
| Entities of a node (`node.py`) and handles (`destroyable.cpp`) | entity lists; use count and destruction request of each handle | `create_...`, `destroy_...`, `destroy_node`; `enter`, `exit`, `destroy_when_not_in_use` | executor, everything that holds a handle |
| Parameters (`node.py`, `parameter*.py`) | descriptors, values, three lists of callbacks | declare, undeclare, set, set atomically, describe | time source, parameter services, parameter events |
| Parameter event handler (`parameter_event_handler.py`) | registry of callbacks, its lock, content filter | add, remove, dispatch, `destroy` | executor |
| asyncio entities (`experimental/`) | read events, tasks, pending requests, sleeps, the task group of the node | read loops, `call`, `sleep`, `destroy` | the asyncio loop, middleware threads |
| QoS, endpoint info, names, serialization, type support, graph, logging output, time values | values | conversions | rcl |

The behaviours that are hard to get right are listed at their lines in
`PROJECT.json` under `hazards`: handlers offered before an earlier one has
entered its group; events cleared in one thread and tested in another; a task
that resumes before the call which suspended it has returned; waits with a
timeout that race the answer; shutdown from inside callbacks, twice at once;
handles destroyed under a spinner; lists iterated while they change; checks and
assignments that no lock keeps together.

What makes each component correct, in a sentence:

* executor: a callback per piece of work, never two of one exclusive group at
  a time, and the spinner never blocks while there is something it could offer;
* shutdown: it returns, and afterwards nothing runs that needs what it destroyed;
* futures: a task is owed exactly one resumption, a callback runs once, and who
  spins for a future returns when it is done;
* events executor: no change of a node, message or timer is overlooked, and
  every stop is seen by the call of `spin` it is meant for;
* service and action clients: a future is completed by its own answer or not at
  all, and every table agrees with what is awaited;
* action server: every accepted goal ends in one terminal state, its result is
  sent to whoever asked, cancel and expiry never revive it;
* lifecycle: one transition at a time, and the entities agree with the state;
* context: every `on_shutdown` callback runs once, logging ends with the last context;
* time: a sleeper wakes at its time or when time or context changes, and only then;
* entities: what the executor waits on is what the nodes have, and a handle
  lives as long as it is used;
* parameters: what is stored satisfies its descriptor, and listeners agree with it.

## Modules

| module | models |
|---|---|
| `WorkTracker` | `_WorkTracker` (`executors.py:79-197`): the monitor `shutdown()` uses to wait for executing callbacks |
| `TaskFuture` | `task.py` with the FIFO of ready tasks and the workers of an executor |
| `CallbackDispatch` | abstract: what an executor promises to the owner of an entity |
| `WaitSetExecutor` | one spinner and a pool: the wait-set pass, handlers, callback groups, guard conditions; implements `CallbackDispatch` |
| `ExecutorShutdown` | `shutdown()` against `spin()`, handlers and the pool; composes `WorkTracker` |
| `SpinUntil` | `spin_until_future_complete` and the generator of `wait_for_ready_callbacks`, against who settles or cancels the future, shuts down, or brings other work |
| `EventsExecutor` | `events_queue.cpp` and `events_executor.cpp`: the queue with its sticky stop flag, the spinning thread, updates of the tracked entities, shutdown |
| `EventsTimers` | `timers_manager.cpp` and `delayed_event_thread.cpp`: the timers of one clock as events of that queue |
| `ActionServer` | `action/server.py`: the handlers of goal, cancel and result requests and of expiry, execution of a goal, the dictionaries of handles and result futures against the goals rcl holds |
| `ActionClient` | `action/client.py`: the three kinds of request, goal handles, feedback and its content filter, the steps of `execute()` |
| `ServiceClient` | `client.py`: `call`, `call_async`, the pending requests, the executor's handler of a response |
| `Rate` | `timer.py:223-295`: the sleepers of a rate, its event and its shutdown |
| `SimTime` | `time_source.py` and `clock.py`: use_sim_time, attached nodes and clocks, jump callbacks, sleeps |
| `NodeEntities` | the entity lists of `node.py` under creation and destruction by several threads, the executor that gathers them, and the reference counts of `destroyable.cpp` |
| `NodeParameters` | the parameter store of `node.py`: calls in steps between which calls of another thread get in, the three kinds of callbacks, the event, the time source as a listener |
| `ParameterEventHandler` | the registry of callbacks and the thread that dispatches under its lock |
| `Lifecycle` | `lifecycle/node.py` with `managed_entity.py` and `publisher.py`: transitions of several threads over managed entities that fail or raise |
| `Context` | `context.py` and the functions of `__init__.py`: contexts, their nodes and callbacks, signals, shared logging |
| `AsyncNode` | the asyncio node: its task group, read loops, a client with timeouts |
| `AsyncTime` | the timer and the sleeps of an asyncio node |
| `TaskFuture_proofs`, `ActionClient_proofs`, `ActionServer_proofs` | the safety properties of these modules, proved |
| `Process_proofs` | those of `Context`, `NodeEntities` and `NodeParameters`, proved |
| `SharedState_proofs` | those of `WorkTracker`, `ExecutorShutdown`, `Lifecycle`, `ParameterEventHandler`, `Context`, `NodeEntities`, `NodeParameters` and `ActionClient`, as `MCSharedState` checks them, proved |
| `Scheduling_proofs` | those of `WaitSetExecutor`, `SpinUntil`, `EventsTimers` and `TaskFuture`, as `MCScheduling` checks them, and the refinement of `CallbackDispatch`, proved |
| `AsyncNode_proofs` | those of `AsyncNode` and `AsyncTime`, as `MCLoops` checks them, proved |
| `BlockingCalls_proofs` | those of `SimTime` and `EventsExecutor`, as `MCBlockingCalls` checks them, proved |
| `MC...` | instances for TLC |

A run that looks at several components has a variable `part`, chosen in the
initial state: a behaviour is about one component, and the variables of the
others stay as they begin.  So a run of parts checks each component by itself,
with the properties of each.  Components are composed where they interact:
`ExecutorShutdown` instantiates `WorkTracker` for its monitor, `WaitSetExecutor`
instantiates `CallbackDispatch` as the promise it keeps, `SpinUntil` joins a
future, its executor and the context, `SimTime` the time source with clocks and
sleepers, `NodeEntities` the lists of a node with the handles and the spinner,
`NodeParameters` the store with the time source that listens to it.

Operators called mutants, each in front of the definition it varies, are what
that definition would be with a plausible slip in the code; every property is
checked to fail when one of them takes its place.

### How state and actions correspond to the code

* An action is what one thread does between two points where another thread can
  get in: one `with lock` block, one wait on a condition, event or future, one
  pass of a callback of the user.  Reads of unlocked fields that are used later
  (`is_shutdown` captured by a handler, `_executing` before `_task_lock`) are
  steps of their own, because that is where the interleavings are.
* `pc`-like variables (`at`, `step`, `handler`, `phase`, `op`, `thread`) say
  where a thread stands in a function.
* A callback of the user is one step that begins and one that ends, with every
  call it can make on the modelled objects in between.  Messages, results and
  exceptions are members of small sets.
* What rcl keeps (goal handles and their state machine, the wait set, timers and
  clocks) is modelled from the way this library uses it; those definitions are
  marked external in the map.
* History variables, which no code has, are marked as history or ghost where
  they are declared; actions only write them.

`WorkTracker`: `counts` is `_executing_thread_counts`, `waiting` is
`_waiting_threads`, `owner` the local of each `with track_callback()` that has been
entered and not left, `runner` the thread that runs that callback now.
`Enter` and `Exit` are the two halves of `track_callback`, `Suspend`, `Resume` and
`Close` an await inside it, and `wait()` is split at its condition wait.
`committed` is history: a `wait()` of this thread returned True and the callback
that called it has not ended.  `ResumeAnywhere` says whether a suspended callback
may go on in another thread than the one that entered it, as in a
`MultiThreadedExecutor`.

`TaskFuture`: a task is a future with a program, the sequence of futures it
awaits (`Yield` for a bare `yield`).  `ready` is the executor's list of ready
tasks.  `SpinnerPops` and `Work` are the executor's part: one call of
`Task.__call__` is as many steps as there are reads and writes another thread
can get between.  `Externals` complete, cancel and add or remove done callbacks.

`WaitSetExecutor`: `Gather` to `Skip` are one pass of
`_wait_for_ready_callbacks`; `Dispatch` gives an offered handler to the pool, or
runs it inline; `Handle` is `handler` of `_make_handler`, split at every
await.  `CallbackDispatch` keeps, per entity, only the work that has
arrived and the callback that runs.

`SpinUntil`: `gen` is the generator in `_cb_iter`, suspended in the loop over
tasks or in that over entities, or gone; `Resume`, `Loop`, `TakeTasks`, `Gather`,
`Wait`, `Woken` and `CheckTimer` are its body between two yields, `Test` and `Clock`
the loop of the caller.  `kind` says whether the future has this executor, none,
or another one.

`ExecutorShutdown`: `Spin` is the spinner's loop with `_enter_spin` and
`_exit_spin`, `HandlerStep` one handler and the callback inside it, `Shutdown`
the calls of `shutdown()` by any thread.  It instantiates `WorkTracker` for the
monitor, and a callback that calls `shutdown()` is both a handler and a caller.

`EventsExecutor`: `queue` holds updates, messages announced for a subscription,
coroutines and the stop of a future that belongs to this executor; `Call` to
`Leave` are `spin()` around `EventsQueue::Run()`, `ReadOk` to `Apply` one
`UpdateEntitiesFromNodes()`, split where the GIL or the context's lock lets
another thread in, `Take` one round of the loop of `HandleSubscriptionReady()`.
`EventsTimers`: `UpdateTimers` is the evaluation all methods end with; its last
call, of the delayed event thread, is the separate action `EnqueueAt`, since that
thread runs beside it.

`ActionServer`: `inbox` holds the requests that wait in the middleware, `known`
and `status` the goals and states rcl holds, `handleOf` and `futureOf` the two
dictionaries, `awaits` and `result` the result futures with those
who wait on them.  `Handle(h)` is one take and its handler; `Run(g)` is
`_execute_goal` with the user's execute callback inside it.

`ActionClient`: `pending` and `idOf` are the dictionaries by kind of request,
`removals` the done callbacks of futures that have become tasks, `data` and
`found` what the executor carries between the look-ups of `execute()`.

`NodeEntities`: `doing` is the step of its call each thread is at, on which entity, and
whether `destroy_node()` goes on with the next one after it; `AfterCreate` and
`AfterDestroy` say what the next step is.  `asked` and `users` are the two fields of a
`Destroyable`, `gathered` what the executor holds while it waits.  `NodeParameters`:
`op` is the call on the parameters a thread is in.  `mirror` is history: what a node that listens to the parameter
events believes.  `Lifecycle`: `thread` is the transition each thread is in.
`Context`: `cleaning` is the position of the loops of `_cleanup`.

`AsyncNode` and `AsyncTime`: one step of the event loop is what a coroutine does
from one await to the next.  Only `_messages` is split further, at the moment
between the empty take and the clear of the event, since there the middleware
thread can get in.

## Runs

Six runs pass, six find a disagreement that is described under `findings` in
`PROJECT.json`.

| run | instance | what it shows |
|---|---|---|
| `scheduling` | *executor*: 2 sources in one exclusive group, a guard condition in a reentrant one, 2 handlers, 2 workers or inline, 1 source whose take may raise. *futures*: 1 future, 2 tasks (one awaits the future; the other yields, then awaits the first), 1 done callback, 2 workers, 2 application threads. *until*: 2 calls of `spin_until_future_complete`, single and multi-threaded, with and without a timeout. *timers*: 2 timers on a clock that users may move | exclusion, no work forgotten when the spinner blocks, one thread per task, one resumption per suspension, the sleeping spinner is woken by its future, every timer is in the heap, ready or about to be dispatched |
| `executor_live` | *executor* with 2 handlers, fairness | the executor implements `CallbackDispatch`; every trigger is handled |
| `action_server` | 2 handlers; two goals of equal or different ids, or a goal with a cancel request and a result request and a client that may go away; fairness | answers match goals, dictionaries follow rcl, a request for one goal is answered honestly, requests that are taken are answered, results are sent |
| `shared_state` | *tracker*: 3 threads with 2 callbacks or 2 with 3. *pool*: a `MultiThreadedExecutor` of 1 worker under 2 shutdowns. *entities*: 2 threads that create and destroy a guard condition, an entity with an event handler, and the node. *parameters*: 3 calls by the user or a service on an ordinary parameter and `use_sim_time`. *parameter events*: 2 threads. *lifecycle*: 2 threads, 2 managed entities. *context*: 2 contexts, 2 nodes. *client*: 1 goal | no lost notification and drained waits that tell the truth; guards and pool outlive the spinner; the wait set and the handles follow the lists; values satisfy descriptors and listeners agree with them; callbacks run exactly while registered; one transition at a time and publishers that agree with the state; logging and callbacks follow the contexts; requests, futures and feedback agree |
| `blocking_calls` | *shutdown*: 2 threads that spin, 1 caller, 2 callbacks that may call `shutdown`, 3 shutdowns, 2 spins. *client*: a `call()` with a timeout and a `call_async()`, 2 workers. *rate*: 3 sleepers. *clock*: 2 nodes, a clock, a sleeper. *events*: 1 subscription, 3 requests. Fairness | every `shutdown()` returns, every answer is delivered, sleepers wake, the time source knows what its node is set to, no message, node or shutdown is overlooked by an events executor and its `spin()` ends |
| `loops` | *node*: a subscription or service, a client, 2 messages, 1 call. *time*: an asyncio timer and a sleeper. *until*: 1 call. Fairness | no message is left with nobody awake, nothing outlives the node, leaving the node ends, timers fire and sleeps end, not too early; `spin_until_future_complete` returns |
| `task_lost_wakeup` | *futures* with 1 application thread, fairness | a resumption is dropped |
| `shutdown_queued` | 1 spinner, 2 workers, 1 shutdown | a queued handler starts after the drain |
| `action_cancel` | two goals and a cancel request for one or both | a goal is skipped and yet reported as cancelling |
| `context_nodes` | 1 context, 2 nodes | every other node of a context is not destroyed |
| `async_timeout` | 1 client, 1 call | the answer to a call that timed out ends the read loop |
| `events_timers` | 2 timers that are due when added | a timer is dispatched twice, once before it is due |

Deadlock is not checked where the system may stop: a spinner that was shut
down, callbacks that all have run, requests that all are answered.

**Bounds.** Two of an actor are what the races here need: two workers that
resume one task, two handlers on one dictionary, two users of one list, two
triggers of one rate.  A third appears where the property speaks of somebody
else than the two that race: three threads of the tracker (the waiter, the
waiter it must not block on, and one that works), three sleepers of a rate (the
one that triggers, one asleep, one that arrives late).  A third handler of the
executor, or a second worker of a pool that is shut down, makes the runs too
long: the theorems below are for any number of them.  By name:

* `MaxArrivals` is 1 per entity, so the three entities compete for the group and
  the workers; a handler that is rejected or offered twice needs no second arrival.
* `MaxSpins` is 2, so a `spin()` that follows a shutdown is included;
  `MaxShutdowns` leaves room for a shutdown from outside, from a callback and
  nested in another one.  `NotBothThird` keeps the third thread and the third
  callback of the tracker apart; the theorems below are without it.
* `MaxRequests` counts calls, messages, changes of the node, shutdowns and results
  of an events executor together.  With three, one can arrive while another is
  handled and a third stops the loop.  For the timers it counts resets, removals
  and the like, `MaxTime` the times of the clock: a timer is due now, later, or in
  the past of a clock that was set back.
* `MaxCalls` counts calls of `spin_until_future_complete`: two for the
  safety properties, since a generator survives a call; one in `loops`, whose
  `MaxWork` of 0 leaves out other work.  In `NodeParameters` it counts three calls,
  enough for a declaration, a change and a change that overlaps it.
* `MaxChanges` counts the transitions that are asked for in `Lifecycle`, three, so that
  two overlap after a first one; in `AsyncTime` the calls of the user and changes of the source
  of time, two.  `MaxTime` is 2 there and in `SimTime`: before, at and after the
  deadline of a sleeper.

In `action_server` a goal id can be used twice and a goal can end before, while
and after it is asked for.  Clients go away in an exclusive group only, where a
failing handler is alone; of equal handlers that are idle, one takes the next
data.  `scheduling` is reduced by the symmetry of handlers and has no temporal
property.

## Fairness

Weak fairness of a thread that can take its next step: the spinner, a worker of
the pool, a handler, a thread inside `shutdown()`, `cancel()` or `set_result()`,
an asyncio loop with a ready coroutine, the loop of `EventsQueue::Run()`, a
thread that has begun a wake or a shutdown.  It is what the operating system's
scheduler gives a runnable thread, and with locks that are held for a bounded
number of steps it is enough.  It includes the return of callbacks of the user,
which every liveness property here supposes.

What comes from outside is never fair: servers need not answer, timers need not
fire, publishers need not publish, users need not end their goals or cancel
them, nobody need call `shutdown()`.  Time is fair where a deadline has been set
(`DeadlinePasses`, `WallTime`), and so is a clock message where a sleep on ROS
time is claimed to end (`ClockMessage`, `clock_callback`): the claim is about the sleeper, not about
the publisher of the clock.  `CallbackDispatch` asks strong fairness of `Start`, since a callback of an
exclusive group is disabled again and again by its neighbours; that an executor
with weakly fair threads meets it is what `executor_live` checks.

## What is proved

A theorem says `Spec => []P` of a component's own specification.  A run of several
parts checks its components through instances (`Transitions`, `Shutdown`, `Process`, `Client`,
`Tasking`, `Until`, `Clocked`, `Lists`, `Parameters`, `Handler`, `Clock`, `Events`, `Time`); they rename parameters and variables and give a value
to none, so a theorem about the instance, `Transitions!Spec => []OneTransition`, says as much
as one about the module, and says it of the property that the run checks.  The four
modules `SharedState_proofs`, `Scheduling_proofs`, `AsyncNode_proofs` and `BlockingCalls_proofs`
extend the module of the run for that.  Where a component has proofs of its own
(`Context`, `NodeEntities`, `NodeParameters`, `ActionClient`, `TaskFuture`), these are instantiated in the
same way (`ProcessProofs`, `ClientProofs`, `TaskProofs`) and only the property is carried over.

`WorkTracker` (`SharedState_proofs`), for every finite set of threads and callbacks, with or
without migration of suspended callbacks.  The inductive invariant `IInv` is
the conjunction of

* `TypeOK`;
* `CountsMatch`: the counter of a thread is the number of callbacks entered on
  it that have not left.  Without it a decrement could make a counter negative and a drained sum
  would say nothing;
* `RunnersOwn`: a callback that runs has been entered and not left, and without
  migration it runs on the thread that entered it;
* `WaitersAreMembers`: whoever is inside `wait()` with work of its own is in the
  waiter set; `NestedWaitersCommitted`: one that found itself in the set has an
  earlier drained wait, so what stays in the set when it times out is the
  commitment of that one;
* `NoMissedWakeup`: nobody sleeps on a predicate that holds, so every step that
  makes it true must notify;
* `MembershipIsCommitment`: a thread stays in the set only inside `wait()`, or
  after it has drained and until its callback ends.  It needs the two above.

From it follow `NoLostNotification`, `MutualShutdown` (callbacks that stay on
their threads and all wait are never all asleep), and `DrainIsSafe`, an action
property about the step in which a `wait()` returns True.

`WaitSetExecutor` (`Scheduling_proofs`), for all entities, groups, workers and finite sets of
handlers, with takes that raise, in three steps.

* `GroupsExclude`.  `MutualExclusion` alone is not inductive: a handler that
  begins must find the group free.  `IInv` adds `HoldersAreActive` (between
  `beginning_execution` and `ending_execution` the entity is the active one of its
  group), so a group without active entity has no holder; `QueuesHoldWaiters` (the
  pool and the ready tasks hold each handler once, and only those that wait for a
  thread), so that no worker runs a handler another one runs; `BudgetIsThere` (the tasks
  counted at the head of the loop can still be popped), and `TypeOK`.
* `WorkIsAccountedFor` (`NoWorkIsLost`), from `WInv`, which adds an account of every
  flag: an event of a source stands for exactly one handler that has not taken
  its work (`EventsAreHeld`), an entity left out of the wait set has a handler
  that will still trigger the guard condition of the executor (`SleepIsSafe`), and
  with one thread every run of a guard callback is paid for by a trigger
  (`RunsArePaid`, which needs `OneAtATime`).
* `PromiseKept`: every step of the executor is a step or a stutter of
  `CallbackDispatch` under the mapping of `Promise`.  A take becomes the start of
  a callback: `WInv` says that there is work to take, and `MutualExclusion`
  that no rival executes.  Both specifications are taken without fairness here.

`TaskFuture_proofs`, for any tasks, futures, callbacks, programs, workers and
application threads.  A task may be in the list of ready tasks, in the pool, in
the done callbacks of a future, or called by a worker.  That it is in one of these
places, and once (`OnePlace`, `OncePerPlace`), is not inductive by itself: a worker that is
inside `__call__` registers the task with a future while it still holds the lock, so
`LockIsHeld`, and the future may be settled before the call returns, so
`WaitsForOne` (a task is registered only with the future it waits for, and not resumed
before that is done) and `SettledIsDone`.  `CountedOnce` ties the number of times
a done callback was scheduled to its place.  From it follow `TaskRunsAlone` and
`ResumptionsAreOwedOnce`.  `ConstantsAssumption` says that the sets are disjoint and
programs are finite sequences of futures.

`ActionServer_proofs`, for any goals, requests, ids and number of handlers, in an
exclusive and in a reentrant group.  `HandlersAreSound` says, for each handler on its way,
what has become of its goal by then (`Stage`), what the cancelled list
holds (`Listed`), that what it expires has ended (`Expires`), and, in an exclusive
group, that nothing else touched its goal and the dictionaries (`Sole`, with `Alone`: there
is one such handler).  `GoalsOnce` follows a request from the inbox to its handler,
`HandlesAreKnown` relates the dictionaries to rcl's goals and to those
on their way in and out, `DeadHaveEnded` and `ResultsAreFinal` say that a
handle is destroyed and a result set only when the goal is over.  From it
follow `AnswersMatch`, `DictionariesAgree` and `SingleCancels`.  `RequestsAssumption`
keeps kinds of requests apart.

`ActionClient_proofs`, for any goals and whatever the user cancels between two
steps of `execute()`.  The tables of requests are those whose future is undecided or
whose done callback has not run (`TablesAgree`); an answer that is under way is awaited
or was cancelled (`AnswersAreAwaited`); a status message is never ahead of the server
(`ReportsAreOld`), which keeps the goal in the content filter (`FeedbackIsRouted`).
From it follow `TablesFollowFutures` and `FeedbackIsDelivered`.

`AsyncNode_proofs`, for any entities, messages, calls and coroutines.  A message that
arrives between the last take and the clear of the event has the set of the event
scheduled behind it (`ArrivalIsScheduled`); a task that was not cancelled has its entity in the
node (`TasksHaveEntities`), and an undecided call has its client (`CallsHaveClient`), so
that closing the node reaches all of them (`NodeStages`).  From it follow
`ArrivalWakes` and `LeftForGood`.  For `AsyncTime`, `SleepsAreLongEnough`: only a jump resolves a
sleep on simulated time, which has then been reached (`ResolvedInTime`), and a
sleep on wall time looks at the clock again.

`Lifecycle` (`SharedState_proofs`), for any threads and managed entities: no lock is
taken, yet the state machine of rcl lets one thread into a transition
(`AloneInside`); `LoopIsSound` and `EnabledSoFar` say how far its loop over the entities
has come.  From it follow `TransitionsExclude` and `EnabledWhenActive`.

`NodeEntities` (`Process_proofs`), for any entities, event handlers, guard conditions and
threads: `WaitSetFollowsLists` and `HandlesAreFreed`, under `EntitiesAssumption` (an entity
is neither its event handler nor the node).  Whoever changes the lists wakes the executor
later, so the wait set may be behind as long as some thread is between the two
(`StillToWake`).  `WaitSetFollows` says so of every stage of the executor: what it has
gathered up to its index is what the lists hold there, what it has still to enter and what
it holds is all of them, or it was or will be woken.  That this is kept needs that no
thread leaves out its wake-up.  One can: whoever destroys an entity whose event handler
is not in the lists yet ends with a `ValueError`; but then its creator is on its way to
append the handler, and wakes after it (`EventFollows`).  `OnePlace` and `ListedOnce` say
that an entity and its handler are each to be appended by one thread, in the lists once, or
removed by one thread that is still to release the handle, and only then asked to be
destroyed: so an executor that blocks with such a handle does not hold what the lists hold.

`NodeParameters` (`Process_proofs`), for any names, settings, declarations and overrides that
are typed as `ParametersAssumption` says, and for calls that overlap in any way.

* `StoreObeysDescriptors` (`StoreMeetsDescriptors`).  Between the check of a list and the
  moment it is stored another thread gets in.  `CallIsSound` says what a call knows of its
  list at each stage, and it survives because a step of the other thread can only make
  descriptors `Milder`: it adds one only for a parameter that takes any value, and one that
  stays allows what it allowed.  The exception is a declaration, whose descriptor is new: no
  other call is under way then (`DeclaresAlone`).
* `ListenersFollow` (`ListenersFollowTheStore`), from the first.  As long as calls did not
  overlap, one thread is at work (`OneAtWork`).  The time source is the last callback
  (`SourceIsLast`), so what it was told is stored: `Obeys` relates its flag to the entries
  for `use_sim_time` that are still to come.  `Tells` says that a reader of
  `/parameter_events` that replays the event gathered so far (`Replay`) ends with what
  is in the store.  A list has any length; where a fact about all of its entries is
  needed, the proof takes the least index that fails.

`ParameterEventHandler` (`SharedState_proofs`), for any threads, names and callbacks: `RoundsFollow`
(`CallbacksFollowTheRegistry`).  Whoever is in a round over the callbacks holds the lock to
its end (`RoundsAreLocked`), so lists change only while nobody is in one.  `RoundIsSound` says that what a round called and what
it has left of its list are together the lists it has come to, newest first,
without what was removed, and nothing of the others; it needs that a callback
is in one list, once (`RegistryInv`).

`EventsExecutor` (`BlockingCalls_proofs`), for any finite set of subscriptions:
`NothingEscapes` (`NothingIsOverlooked`).  Except where events were dropped, an unread message is announced in the queue as often as rcl has
it (`MessagesAccounted`, a count of events), or its subscription is not tracked yet; then
an update of the entities is queued or under way that has still to collect them
(`SetWillFollow`, `CollectedIsCurrent`), and the flag that keeps a second update out of the queue
is not left behind by the first (`WakeIsSeen`).

`EventsTimers` (`Scheduling_proofs`), for any timers and any clock, under `TimersAssumption`:
`TimersAreCovered` (`TimerIsCovered`).  A timer marked as ready is in the queue to be dispatched
(`ReadyAreQueued`); the manager treats the clock as it is, on debug time or not, or
the jump that tells it so is the last one in the queue (`JumpsFollow`); without
timers nothing is left over (`GoneWithTimers`).

`SimTime` (`BlockingCalls_proofs`), for any nodes, clocks and sleepers: `SourceStaysInStep`, whose
invariant is itself with the types of the fields it reads.

Three components end a spin:

* `SpinUntil` (`Scheduling_proofs`), for any number of calls, messages and tasks:
  `SleeperAwakes`.  The future of a call has its wake callback while it is pending
  (`FutureIsWatched`); a wait does
  not clear the trigger of a shutdown without seeing it (`ShutdownIsSignalled`); a
  generator of a call with a timeout, suspended or not, has its timer (`TimerIsSet`);
  a task that came after the loop over tasks began has triggered the guard condition
  (`TasksAreSignalled`).
* `ExecutorShutdown` (`SharedState_proofs`), for any threads and callbacks, under
  `ShutdownAssumption`: `NothingIsTaken`.  One thread spins at a time (`OneSpins`), a spinner that calls
  `shutdown()` is inside a callback it runs itself (`SpinnerRunsInline`), and
  past the waits of `shutdown()` no spinner is at the wait set or gets there again (`ShutdownIsFinal`).
* `Context` (`Process_proofs`), for finitely many contexts and any nodes and callbacks, under
  `ContextsAssumption`: `LoggingIsCounted` and `CallbacksRunOnce`.  The second needs what
  the list holds under the loop of `_call_on_shutdown_callbacks()`: those before the
  index were called once, the others never (`ListsAreSound`), and a callback whose owner
  lives is in the list or was called (`CallbacksAreKept`), since a context that went down
  stays down (`ShutdownIsForever`).

The proofs use nothing but the named assumptions of the modules: disjoint kinds of
objects, a group for each entity, finite sets where something is counted, typed values
for parameters and a bool where `use_sim_time` is overridden (without which a node cannot be made).  Each is
an `ASSUME`, or, where a module is instantiated more than once or with other
constants, an operator that the theorem assumes; TLC evaluates all of them for the
constants of the runs.

Every safety invariant of a run that passes is stated by one of these theorems.
Only model-checked:

* every property with fairness, and the fairness of `CallbackDispatch`: fairness and
  ENABLED are beyond the prover.  That includes `PendingIsLive` of `ServiceClient`,
  which is checked as part of a liveness property, and `Rate`, which has no safety property of its own;
* what a recursive definition computes for every input, since the induction theorems take
  an operator as a parameter.  The models that the theorems are about walk lists by index,
  as the code does, and an induction along a list is an argument about the least
  index (`LeastOne` of `Process_proofs`, from `NatLessThanWellFounded`).

## What the models leave out

* `WaitSetExecutor`: timers, clients, services and waitables are the generic
  entity with a take; nodes are not added or removed while it spins, which
  `NodeEntities` has.
* `TaskFuture`: every future is from `create_future`, so it has an executor;
  those without, or of another one, are in `SpinUntil` and `ActionClient`.
* `EventsExecutor`: services, clients and waitables, whose handlers have the shape
  of that of subscriptions; the end of a `shutdown()` that timed out; the events
  with a count of zero of one middleware.  `EventsTimers`: one clock, equal periods.
* `ActionServer`: `destroy()` and feedback.  Callbacks of the user other than
  execute do not raise, and the user does not end a goal from another thread
  while its `execute()` runs.  A client asks for a result once its goal was accepted.
* `ActionClient`: one goal; waiting for a server; introspection; no liveness,
  since a server need not answer.
* `ServiceClient`: `wait_for_service`, introspection, destruction of the client.
* `Rate`: the timer itself, an event source that may fire.
* `SimTime`: thresholds of jump callbacks other than those of the sleepers; system
  and steady clocks, which do not jump.
* `NodeEntities`: names, QoS, validation, and what creation does in rcl.
* `NodeParameters`: the parameter client, YAML files, ranges of floating point.
  A call that brings or takes descriptors does not overlap another
  (`MayStart`); calls that set do.
* `Lifecycle`: numbers and labels of rcl's transitions; the services other than
  `change_state`, which only read; a transition that is asked for by a number or label rcl does not know.
* `Context`: the global executor of `__init__.py`; the C++ half of the signal
  handler, of which the moment between signal and deferred handling is kept.
* `AsyncNode`, `AsyncTime`: publishers, `wait_for_service`, more than one timer.

Not modelled at all: `wait_for_message.py`, one wait on one subscription with no
state of its own; QoS profiles, event types and endpoint information, names,
type support, serialization and the graph queries, which are values, conversions
and thin calls of rcl; time and duration, which are pure values; logging, whose
filters belong to a call site, except for its reference count, which is in `Context`.

## Disagreements with the documentation

Six have a run and are described in `PROJECT.json` under `findings`.  These were
met while reading, and have none.

Executors, tasks and shutdown:

* `cancel()` of a future reads `_state` and assigns it without the lock, so it
  can overwrite a result that was set meanwhile (`task.py:91-95`).
* A callback that is resumed on another worker and then calls `shutdown()` waits
  for itself (`executors.py:170`, against the comment at 423-425).
* A second `wait()` that times out keeps the membership of the first
  (`executors.py:195`, against 193-194).
* A take that raises is not followed by `ending_execution` (`executors.py:801`,
  `callback_groups.py:74-75`): the group stays held.
* `shutdown()` of a `MultiThreadedExecutor` inside a callback of its pool joins
  the pool it is in (`executors.py:1309`); a callback suspended for ever blocks it
  (`executors.py:426`).
* A guard condition whose handler is queued in the pool is offered again
  (`executors.py:1058`), so its callback can run twice for one trigger.
* A cancelled future is not `done`, so `spin_until_future_complete` does not
  return for it (`executors.py:869`); a future of another executor wakes this one
  only when that one spins.
* A wait set made after the context went down raises out of `spin`; the
  single-threaded executor passes `ExternalShutdownException` on to who called
  `spin_until_future_complete`, the other one swallows it.
* `rclpy.spin()` removes the node from the executor it was given even if it had
  been added before; `spin_once()` and `spin_until_future_complete()` do not.

Events executor:

* A `wake()` from a context that goes down between the reading of `ok()` and the
  clearing of `wake_pending_` (`events_executor.cpp:211-213`, 152) is
  forgotten, and `spin()` goes on, though it is said to block until the context
  is shut down (`__init__.py:311`).  The model has this as `closing = "unheard"`, and
  `SpinEnds` claims nothing of it.  The same holds for a `spin()` that begins after an
  earlier call has seen the shutdown, since `ok()` is tested after `Run()` only.
* The stop of a `shutdown()` can be cleared by the restart of the `spin()` that is
  ending; one that begins next then runs beside the teardown (99-118).  An exception
  leaves `Run()` without a restart, a future completed between the restart and the
  removal of its callback leaves a stop behind: the next `spin()` returns at once.
* A callback of a subscription that raises gives up the messages still announced
  (333-346); `spin_once()` runs as many callbacks as one event announces;
  `shutdown()` from a callback blocks on the mutex its own thread holds.
* The key of a callback is the address of the rcl entity (`rcl_support.cpp:64`), so
  an old event can meet a new entity.

Actions, services, lifecycle:

* A goal that is cancelled between its acceptance and `execute()` makes the
  server raise (`action/server.py:208`, against the comment at 204-207); one
  accepted whose response cannot be sent is never executed (430-437); one that
  expires while its callback still runs never sends its result (481, 552, against 550).
* A goal that is accepted with the id of one that is expiring in the same pass of an
  exclusive handler loses its handle to that expiry (`action/server.py:555-560`); its own expiry then raises `KeyError`, and the goals
  that expire with it stay in the dictionaries.  So `DictionariesFollowRcl` and the
  proofs speak of ids that are not reused.
* `get_pending_request` followed by `set_result` races `remove_pending_request`
  (`client.py:259`).
* The done callbacks of an action client's futures become tasks once the client is in an
  executor (`executors.py:768`), so an answer that comes before them is set on a
  cancelled future, which `action/client.py:300` means to prevent.
  `cancel_goal_async()` takes the goal out of the feedback filter before the
  server has agreed; the second look-up of a sequence number can raise (430).
* Lifecycle transitions take no lock: the state that `trigger_shutdown` reads may
  be stale, a set of entities that changes during a transition ends it in error
  processing, a failed activation leaves the publishers before it enabled,
  and `on_shutdown` and `on_error` do not disable them.

Context, nodes and time:

* SIGINT shuts rcl's contexts down without `_cleanup()`: callbacks of `on_shutdown`
  do not run, nodes are not destroyed, logging is not counted down, a sleeper on a
  clock goes on, and a later `try_shutdown()` does nothing.
* `_cleanup()` runs under the lock of the context, so a callback that calls
  `context.ok()` in another thread and waits for it blocks, as does one that calls `rclpy.ok()`
  during `try_shutdown(None)`.  The finalizer of a callback's owner takes it out of the list
  without that lock.  Each `Clock.sleep_until` leaves its own callback in the list (`clock.py:282`).
* An entity created while `destroy_node()` is past the loop over its kind stays
  in the list; of two threads that destroy one entity the second raises.
  `destroy_node()` leaves the node in its executor.
* `wait_for_node` with a negative timeout returns at once, though it "won't
  timeout" (`node.py:2848`).
* `not self._timer.handle` (`timer.py:268`) is never true, so a sleeper that is
  woken by `destroy()` and whose timer is gone sleeps on until the context is
  shut down; one that arrives after `destroy()` triggered is not woken at all.
* A node attached while the time source is active makes no subscription
  (`time_source.py:53`), and `detach_node()` leaves its callback on the parameter.
  `sleep_for` computes its deadline before it listens for jumps.
* A sleep of an asyncio clock on wall time whose handle fires early is armed again
  on wall time although the source of time has changed meanwhile; its timer is
  not armed again and may be early by the resolution of the loop.

Parameters:

* `set_descriptor` calls no callbacks and publishes no event; the type in the
  descriptor of a dynamically typed parameter is overwritten even if the value is
  refused; `add_on_set_parameters_callback` inserts at the front, so that
  the time source is asked last, and calls that overlap can leave it with the
  other value.
* The time source acts on the first entry for `use_sim_time` of an atomic list and
  leaves its loop (`time_source.py:141`), while the store keeps the last: a list that
  names it twice leaves the two apart.  `ListenersFollowTheStore` exempts that
  (`NamesTwice`), and `shared_state` has such a list.
* A deleted parameter triggers no callback of a `ParameterEventHandler`; a callback
  that adds or removes one blocks on its own thread, and one that raises ends the round.

## Plan

Done: every component above that keeps state, in the order executor, shutdown,
tasks, actions and services, context, entities, parameters, lifecycle, clocks,
asyncio entities, events executor.

Still to model: `destroy()` and feedback of the action server; services, clients
and waitables of the events executor; a composition of `ActionClient` with
`ActionServer` behind a network that delays and drops.
