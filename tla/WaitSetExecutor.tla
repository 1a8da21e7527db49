--------------------------- MODULE WaitSetExecutor ---------------------------
(***************************************************************************)
(* rclpy.executors.Executor with its wait set: one spinner that repeats    *)
(* _wait_for_ready_callbacks(), and handler tasks (_make_handler) that run *)
(* on the threads of a pool.  inline makes it a SingleThreadedExecutor:    *)
(* the spinner goes on only after the handler it yielded has returned.     *)
(*                                                                         *)
(* Sources are the level-triggered entities (subscriptions, timers,        *)
(* clients, services, waitables): rcl reports them ready as long as there  *)
(* is work to take.  Guards are guard conditions: rcl_wait() consumes the  *)
(* trigger, and the executor remembers it in _executor_triggered.          *)
(***************************************************************************)
EXTENDS Naturals, FiniteSets, Sequences

CONSTANTS
    Sources, Guards,  \* the entities of the nodes
    Groups, GroupOf,  \* the callback group of each entity
    Exclusive,        \* which groups are MutuallyExclusiveCallbackGroups
    Coroutines,       \* entities whose callback awaits something
    Handlers,         \* identities of handler tasks; bounds those outstanding
    NumWorkers,       \* max_workers of the ThreadPoolExecutor
    Inlines,          \* values of inline
    Faulty,           \* sources whose take may raise (RCLError)
    MaxArrivals,      \* bound: work that arrives for each entity
    None

Entities == Sources \cup Guards

ASSUME EntitiesAssumption == Sources \cap Guards = {} /\ None \notin Entities
ASSUME GroupsAssumption == GroupOf \in [Entities -> Groups] /\ Exclusive \subseteq Groups
ASSUME WorkersAssumption == NumWorkers \in Nat \ {0} /\ MaxArrivals \in Nat
ASSUME FlagsAssumption == Inlines \subseteq BOOLEAN /\ Faulty \subseteq Sources
ASSUME HandlersAssumption == IsFiniteSet(Handlers)

VARIABLES
    inline,     \* is this a SingleThreadedExecutor?  Never changes
    data,       \* work waiting in the middleware for each source
    trig,       \* rcl's trigger flag of each guard condition
    wake,       \* rcl's trigger flag of the executor's own guard
    arrived,    \* history: messages sent, guards triggered
    started,    \* history: callbacks begun for each guard
    raised,     \* history: sources whose take raised
    event,      \* entity._executor_event
    seen,       \* guard._executor_triggered
    active,     \* group._active_entity
    spc,        \* control of the spinner
    budget,     \* ready_tasks_count
    todo,       \* entities the current loop of the spinner has not visited
    waitSet,    \* entities in the wait set
    ready,      \* _ready_tasks: suspended handlers to resume
    pool,       \* handlers submitted to the thread pool
    hpc, hent   \* control of each handler, and its entity

workVars == <<data, trig, arrived, started, raised>>
spinVars == <<inline, spc, budget, todo, waitSet>>
vars == <<workVars, wake, event, seen, active, spinVars, ready, pool, hpc, hent>>

Exclusively(e) == GroupOf[e] \in Exclusive

(* callback_group.can_execute(entity) *)
GroupCanExecute(e) == Exclusively(e) => active[GroupOf[e]] = None

(* Executor.can_execute(entity) *)
CanExecute(e) == ~event[e] /\ GroupCanExecute(e)

Busy == {h \in Handlers : hpc[h] \notin {"free", "queued", "suspended", "resumable"}}

(* between beginning_execution() and ending_execution() *)
Holding(h) ==
    hpc[h] \in {"take", "clear", "clearOnly", "notify", "notifyOnly", "run", "suspended",
                "resumable", "end", "endOnly"}

SpinnerRuns == inline => Busy = {} /\ pool = <<>>

Init ==
    /\ inline \in Inlines
    /\ data = [e \in Sources |-> 0]
    /\ trig = [e \in Guards |-> FALSE]
    /\ wake = FALSE
    /\ arrived = [e \in Entities |-> 0]
    /\ started = [e \in Guards |-> 0] /\ raised = {}
    /\ event = [e \in Entities |-> FALSE]
    /\ seen = [e \in Guards |-> FALSE]
    /\ active = [g \in Exclusive |-> None]
    /\ spc = "begin" /\ budget = 0 /\ todo = {} /\ waitSet = {}
    /\ ready = <<>> /\ pool = <<>>
    /\ hpc = [h \in Handlers |-> "free"]
    /\ hent = [h \in Handlers |-> None]

-----------------------------------------------------------------------------
(* The outside world *)

Arrive(e) ==
    /\ arrived[e] < MaxArrivals
    /\ arrived' = [arrived EXCEPT ![e] = @ + 1]
    /\ \/ e \in Sources /\ data' = [data EXCEPT ![e] = @ + 1] /\ UNCHANGED trig
       \/ e \in Guards /\ trig' = [trig EXCEPT ![e] = TRUE] /\ UNCHANGED data
    /\ UNCHANGED <<wake, started, raised, event, seen, active, spinVars, ready, pool, hpc, hent>>

(* work disappears before it is taken: the message expires, another client *)
(* takes it, the timer is cancelled                                        *)
Vanish(e) ==
    /\ data[e] > 0
    /\ data' = [data EXCEPT ![e] = @ - 1]
    /\ UNCHANGED <<trig, arrived, started, raised, wake, event, seen, active, spinVars, ready,
                   pool, hpc, hent>>

(* what a suspended callback awaits is done: _call_task_in_next_spin() *)
AwaitedIsDone(h) ==
    /\ hpc[h] = "suspended"
    /\ hpc' = [hpc EXCEPT ![h] = "resumable"]
    /\ ready' = Append(ready, h)
    /\ wake' = TRUE
    /\ UNCHANGED <<workVars, event, seen, active, spinVars, pool, hent>>

-----------------------------------------------------------------------------
(* The spinner: one pass of the loop of _wait_for_ready_callbacks() *)

CountReadyTasks ==
    /\ spc = "begin" /\ SpinnerRuns
    /\ spc' = "tasks"
    /\ budget' = Len(ready)
    /\ UNCHANGED <<workVars, wake, event, seen, active, inline, todo, waitSet, ready, pool, hpc, hent>>

YieldReadyTask ==
    /\ spc = "tasks" /\ budget > 0 /\ SpinnerRuns
    /\ budget' = budget - 1
    /\ ready' = Tail(ready)
    /\ pool' = Append(pool, Head(ready))
    /\ UNCHANGED <<workVars, wake, event, seen, active, inline, spc, todo, waitSet, hpc, hent>>

StartGathering ==
    /\ spc = "tasks" /\ budget = 0 /\ SpinnerRuns
    /\ spc' = "gather"
    /\ todo' = Entities
    /\ waitSet' = {}
    /\ UNCHANGED <<workVars, wake, event, seen, active, inline, budget, ready, pool, hpc, hent>>

(* filter(self.can_execute, ...); a guard still to be handled is retriggered *)
Gather(e) ==
    /\ spc = "gather" /\ e \in todo
    /\ todo' = todo \ {e}
    /\ waitSet' = IF CanExecute(e) THEN waitSet \cup {e} ELSE waitSet
    /\ trig' = IF e \in Guards /\ CanExecute(e) /\ seen[e] THEN [trig EXCEPT ![e] = TRUE] ELSE trig
    /\ UNCHANGED <<data, arrived, started, raised, wake, event, seen, active, inline, spc, budget, ready, pool,
                   hpc, hent>>

ReadySources == {e \in waitSet \cap Sources : data[e] > 0}
ReadyGuards == {e \in waitSet \cap Guards : trig[e]}

(* mutant of WaitReturns: guards that fired are not remembered *)
WaitReturnsForgetting ==
    /\ spc = "gather" /\ todo = {}
    /\ wake \/ ReadySources # {} \/ ReadyGuards # {}
    /\ wake' = FALSE
    /\ trig' = [e \in Guards |-> trig[e] /\ e \notin ReadyGuards]
    /\ spc' = "offer"
    /\ todo' = ReadySources \cup Guards
    /\ UNCHANGED <<data, arrived, started, raised, event, seen, active, inline, budget, waitSet, ready, pool, hpc, hent>>

(* wait_set.wait() returns; the triggers of ready guards are consumed *)
WaitReturns ==
    /\ spc = "gather" /\ todo = {}
    /\ wake \/ ReadySources # {} \/ ReadyGuards # {}
    /\ wake' = FALSE
    /\ trig' = [e \in Guards |-> trig[e] /\ e \notin ReadyGuards]
    /\ seen' = [e \in Guards |-> seen[e] \/ e \in ReadyGuards]
    /\ spc' = "offer"
    /\ todo' = ReadySources \cup Guards
    /\ UNCHANGED <<data, arrived, started, raised, event, active, inline, budget, waitSet, ready, pool, hpc, hent>>

Offered(e) == GroupCanExecute(e) /\ (e \in Guards => seen[e])

FreeHandlers == {h \in Handlers : hpc[h] = "free"}
NewHandler == CHOOSE h \in FreeHandlers : TRUE

(* _make_handler() and submission to the pool *)
Offer(e) ==
    /\ spc = "offer" /\ e \in todo /\ SpinnerRuns
    /\ Offered(e)
    /\ FreeHandlers # {}
    /\ todo' = todo \ {e}
    /\ event' = [event EXCEPT ![e] = TRUE]
    /\ hpc' = [hpc EXCEPT ![NewHandler] = "queued"]
    /\ hent' = [hent EXCEPT ![NewHandler] = e]
    /\ pool' = Append(pool, NewHandler)
    /\ UNCHANGED <<workVars, wake, seen, active, inline, spc, budget, waitSet, ready>>

Skip(e) ==
    /\ spc = "offer" /\ e \in todo /\ SpinnerRuns
    /\ ~Offered(e)
    /\ todo' = todo \ {e}
    /\ UNCHANGED <<workVars, wake, event, seen, active, inline, spc, budget, waitSet, ready, pool, hpc, hent>>

EndOfPass ==
    /\ spc = "offer" /\ todo = {} /\ SpinnerRuns
    /\ spc' = "begin"
    /\ UNCHANGED <<workVars, wake, event, seen, active, inline, budget, todo, waitSet, ready, pool, hpc, hent>>

Spinner ==
    \/ CountReadyTasks \/ YieldReadyTask \/ StartGathering \/ WaitReturns \/ EndOfPass
    \/ \E e \in Entities : Gather(e) \/ Offer(e) \/ Skip(e)

-----------------------------------------------------------------------------
(* The handlers *)

Goto(h, label) == hpc' = [hpc EXCEPT ![h] = label] /\ UNCHANGED hent

Done(h) == hpc' = [hpc EXCEPT ![h] = "free"] /\ hent' = [hent EXCEPT ![h] = None]

(* a worker takes the oldest submission; a resumed callback returns *)
Dispatch ==
    /\ pool # <<>> /\ Cardinality(Busy) < NumWorkers
    /\ pool' = Tail(pool)
    /\ Goto(Head(pool), IF hpc[Head(pool)] = "queued" THEN "begin" ELSE "end")
    /\ UNCHANGED <<workVars, wake, event, seen, active, spinVars, ready>>

(* mutants of BeginningExecution: the answer of can_execute() is trusted;  *)
(* the entity is not made the active one                                   *)
BeginningExecutionTrusting(h) ==
    LET e == hent[h] IN
    /\ hpc[h] = "begin"
    /\ active' = IF Exclusively(e) THEN [active EXCEPT ![GroupOf[e]] = e] ELSE active
    /\ Goto(h, "take")
    /\ UNCHANGED <<workVars, wake, event, seen, spinVars, ready, pool>>

BeginningExecutionUnmarked(h) ==
    /\ hpc[h] = "begin"
    /\ Goto(h, IF GroupCanExecute(hent[h]) THEN "take" ELSE "reject")
    /\ UNCHANGED <<workVars, wake, event, seen, active, spinVars, ready, pool>>

BeginningExecution(h) ==
    LET e == hent[h] IN
    /\ hpc[h] = "begin"
    /\ IF GroupCanExecute(e)
       THEN /\ active' = IF Exclusively(e) THEN [active EXCEPT ![GroupOf[e]] = e] ELSE active
            /\ Goto(h, "take")
       ELSE Goto(h, "reject") /\ UNCHANGED active
    /\ UNCHANGED <<workVars, wake, event, seen, spinVars, ready, pool>>

(* mutant of Take: the message stays in the middleware *)
TakePeeks(h) ==
    LET e == hent[h]
        some == e \in Guards \/ data[e] > 0 IN
    /\ hpc[h] = "take"
    /\ seen' = IF e \in Guards THEN [seen EXCEPT ![e] = FALSE] ELSE seen
    /\ started' = IF e \in Guards THEN [started EXCEPT ![e] = @ + 1] ELSE started
    /\ Goto(h, IF some THEN "clear" ELSE "clearOnly")
    /\ UNCHANGED <<data, trig, arrived, raised, wake, event, active, spinVars, ready, pool>>

(* take_from_wait_list(entity): nothing to take means nothing to call *)
Take(h) ==
    LET e == hent[h]
        some == e \in Guards \/ data[e] > 0 IN
    /\ hpc[h] = "take"
    /\ IF e \in Guards
       THEN seen' = [seen EXCEPT ![e] = FALSE] /\ UNCHANGED data
       ELSE data' = [data EXCEPT ![e] = IF some THEN @ - 1 ELSE @] /\ UNCHANGED seen
    /\ started' = IF e \in Guards THEN [started EXCEPT ![e] = @ + 1] ELSE started
    /\ Goto(h, IF some THEN "clear" ELSE "clearOnly")
    /\ UNCHANGED <<trig, arrived, raised, wake, event, active, spinVars, ready, pool>>

(* the take raises before the `try` that would release the group *)
TakeRaises(h) ==
    LET e == hent[h] IN
    /\ hpc[h] = "take" /\ e \in Faulty /\ data[e] > 0
    /\ raised' = raised \cup {e}
    /\ data' = [data EXCEPT ![e] = @ - 1]
    /\ Done(h)
    /\ UNCHANGED <<trig, arrived, started, wake, event, seen, active, spinVars, ready, pool>>

TakeFromWaitList(h) == hpc[h] = "take" /\ (Take(h) \/ TakeRaises(h))

ClearEvent(h) ==
    /\ hpc[h] \in {"clear", "clearOnly", "reject"}
    /\ event' = [event EXCEPT ![hent[h]] = FALSE]
    /\ Goto(h, CASE hpc[h] = "clear" -> "notify"
                 [] hpc[h] = "clearOnly" -> "notifyOnly"
                 [] hpc[h] = "reject" -> "leave")
    /\ UNCHANGED <<workVars, wake, seen, active, spinVars, ready, pool>>

(* gc.trigger() after the work was taken, and after the handler is over *)
Trigger(h) ==
    /\ hpc[h] \in {"notify", "notifyOnly", "leave"}
    /\ wake' = TRUE
    /\ CASE hpc[h] = "notify" -> Goto(h, "run")
         [] hpc[h] = "notifyOnly" -> Goto(h, "endOnly")
         [] hpc[h] = "leave" -> Done(h)
    /\ UNCHANGED <<workVars, event, seen, active, spinVars, ready, pool>>

(* await call_coroutine() *)
CallbackReturns(h) ==
    /\ hpc[h] = "run"
    /\ Goto(h, "end")
    /\ UNCHANGED <<workVars, wake, event, seen, active, spinVars, ready, pool>>

CallbackSuspends(h) ==
    /\ hpc[h] = "run" /\ hent[h] \in Coroutines
    /\ Goto(h, "suspended")
    /\ UNCHANGED <<workVars, wake, event, seen, active, spinVars, ready, pool>>

(* mutant of EndingExecution: the group stays active *)
EndingExecutionHolds(h) ==
    /\ hpc[h] \in {"end", "endOnly"}
    /\ Goto(h, "leave")
    /\ UNCHANGED <<workVars, wake, event, seen, active, spinVars, ready, pool>>

(* callback_group.ending_execution(entity) *)
EndingExecution(h) ==
    /\ hpc[h] \in {"end", "endOnly"}
    /\ active' = IF Exclusively(hent[h]) THEN [active EXCEPT ![GroupOf[hent[h]]] = None] ELSE active
    /\ Goto(h, "leave")
    /\ UNCHANGED <<workVars, wake, event, seen, spinVars, ready, pool>>

Handle(h) ==
    \/ BeginningExecution(h) \/ TakeFromWaitList(h) \/ ClearEvent(h) \/ Trigger(h)
    \/ CallbackReturns(h) \/ CallbackSuspends(h) \/ EndingExecution(h)

Next ==
    \/ \E e \in Entities : Arrive(e)
    \/ \E e \in Sources : Vanish(e)
    \/ Spinner \/ Dispatch
    \/ \E h \in Handlers : AwaitedIsDone(h) \/ Handle(h)

Spec == Init /\ [][Next]_vars

(* Some thread keeps spinning, the pool's threads are scheduled, callbacks *)
(* end and what they await completes.                                      *)
Fairness ==
    /\ WF_vars(Spinner) /\ WF_vars(Dispatch)
    /\ \A h \in Handlers : WF_vars(Handle(h)) /\ WF_vars(AwaitedIsDone(h))

FairSpec == Spec /\ Fairness

-----------------------------------------------------------------------------
HandlerLabels ==
    {"free", "queued", "begin", "take", "clear", "clearOnly", "reject", "notify", "notifyOnly",
     "leave", "run", "suspended", "resumable", "end", "endOnly"}

TypeOK ==
    /\ data \in [Sources -> Nat] /\ trig \in [Guards -> BOOLEAN] /\ wake \in BOOLEAN
    /\ arrived \in [Entities -> Nat] /\ started \in [Guards -> Nat]
    /\ raised \subseteq Sources /\ inline \in BOOLEAN
    /\ event \in [Entities -> BOOLEAN] /\ seen \in [Guards -> BOOLEAN]
    /\ active \in [Exclusive -> Entities \cup {None}]
    /\ spc \in {"begin", "tasks", "gather", "offer"} /\ budget \in Nat
    /\ todo \subseteq Entities /\ waitSet \subseteq Entities
    /\ ready \in Seq(Handlers) /\ pool \in Seq(Handlers)
    /\ hpc \in [Handlers -> HandlerLabels]
    /\ hent \in [Handlers -> Entities \cup {None}]
    /\ \A h \in Handlers : hpc[h] # "free" => hent[h] \in Entities

(* Callbacks of one mutually exclusive group never overlap, not even one   *)
(* that is suspended at an await, however many handlers were queued for    *)
(* the group before the first of them began.                               *)
MutualExclusion ==
    \A h, k \in Handlers :
        Holding(h) /\ Holding(k) /\ Exclusively(hent[h]) /\ GroupOf[hent[h]] = GroupOf[hent[k]]
            => h = k

(* A group is active only on behalf of a callback that will end it - or    *)
(* for good, when the take of that very entity raised; no other group and  *)
(* no other cause leaves one behind.                                       *)
ActiveMeansHeld ==
    \A g \in Exclusive : active[g] # None =>
        \/ active[g] \in raised
        \/ \E h \in Handlers : Holding(h) /\ hent[h] = active[g]

(* The handler tasks that have not yet taken the work of entity e.         *)
Untaken(e) ==
    {h \in Handlers : hent[h] = e /\ hpc[h] \in {"queued", "begin", "take", "clear", "clearOnly", "reject"}}

(* _executor_event keeps a source out of the wait set exactly while one    *)
(* handler is about to take from it: it is neither polled twice for one    *)
(* message nor left out of the wait set for good, unless its take raised.  *)
EventMeansOneHandler ==
    \A e \in Sources \ raised :
        Cardinality(Untaken(e)) = (IF event[e] THEN 1 ELSE 0)

(* A group's active entity is the one whose callback holds the group.      *)
HoldersAreActive ==
    \A h \in Handlers : Holding(h) /\ Exclusively(hent[h]) => active[GroupOf[hent[h]]] = hent[h]

(* The queues hold each handler at most once, and only handlers that wait  *)
(* for a thread.                                                           *)
QueuesHoldWaiters ==
    /\ \A i \in 1..Len(pool) : hpc[pool[i]] \in {"queued", "resumable"}
    /\ \A i \in 1..Len(ready) : hpc[ready[i]] = "resumable"
    /\ \A i, j \in 1..Len(pool) : pool[i] = pool[j] => i = j
    /\ \A i, j \in 1..Len(ready) : ready[i] = ready[j] => i = j
    /\ \A i \in 1..Len(pool), j \in 1..Len(ready) : pool[i] # ready[j]

(* The tasks counted at the head of the loop are still there to be popped. *)
BudgetIsThere == spc = "tasks" => budget <= Len(ready)

(* The inductive invariant of Scheduling_proofs.                           *)
IInv ==
    /\ TypeOK
    /\ BudgetIsThere
    /\ QueuesHoldWaiters
    /\ HoldersAreActive
    /\ MutualExclusion

SpinnerBlocks ==
    spc = "gather" /\ todo = {} /\ ~wake /\ ReadySources = {} /\ ReadyGuards = {}

(* No lost wakeup: when the spinner blocks in rcl_wait() and no handler is *)
(* left, no entity has work, no guard trigger is remembered and no group   *)
(* is active; only a group whose entity raised in its take is lost.        *)
Lost(e) == Exclusively(e) /\ \E r \in raised : GroupOf[r] = GroupOf[e]

NothingForgotten ==
    SpinnerBlocks /\ (\A h \in Handlers : hpc[h] = "free") =>
        \A e \in Entities : ~Lost(e) =>
            /\ e \in Sources => e \in raised \/ data[e] = 0
            /\ e \in Guards => ~trig[e] /\ ~seen[e]
            /\ Exclusively(e) => active[GroupOf[e]] = None

(* A guard condition's callback does not run more often than the guard was *)
(* triggered; with a pool it may, because a queued handler is offered      *)
(* again.                                                                  *)
GuardRunsOncePerTrigger == inline => \A e \in Guards : started[e] <= arrived[e]

(* Flags and groups are held by handlers that will release them, work is   *)
(* never left with a spinner that sleeps, and none is done twice.          *)
NoWorkIsLost == ActiveMeansHeld /\ EventMeansOneHandler /\ NothingForgotten /\ GuardRunsOncePerTrigger

(* A triggered guard condition gets its callback.                          *)
TriggerIsHandled ==
    \A e \in Guards : trig[e] ~> \E h \in Handlers : hent[h] = e /\ hpc[h] = "run"

-----------------------------------------------------------------------------
(* Refinement: towards its sources the executor implements the promise. *)
Promise == INSTANCE CallbackDispatch WITH
    Entities <- Sources,
    arrived <- [e \in Sources |-> arrived[e]],
    pending <- data,
    running <- [e \in Sources |-> Cardinality({h \in Handlers :
                    hent[h] = e /\ hpc[h] \in {"clear", "notify", "run", "suspended", "resumable", "end"}})]

ImplementsPromise == Promise!FairSpec
=============================================================================
