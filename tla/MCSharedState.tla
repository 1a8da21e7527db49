---------------------------- MODULE MCSharedState ----------------------------
(* Small instances of the state that threads share: the work tracker of an    *)
(* executor, an executor with a pool that is shut down, the entities of a     *)
(* node, its parameters, the callbacks of a parameter event handler, the      *)
(* transitions of a lifecycle node, the contexts of a process, the          *)
(* requests of an action client. A behaviour is about one of them; the        *)
(* variables of the others stay as they begin.                                *)
EXTENDS WorkTracker, TLC

CONSTANTS ThirdThread, ThirdCallback,            \* of WorkTracker
          Spinners, Pool, Callers, Handlers, MaySuspend,
          Timeouts, Joins, MaxShutdowns, MaxSpins, \* of ExecutorShutdown
          Users, Entities, Guards, WithEvents, Node, \* of NodeEntities
          Managed, MaxChanges,                   \* of Lifecycle
          ParamNames, SimTime, User, Service,
          Declarations, Settings, Overrides, MaxCalls, \* of NodeParameters
          Handles, EventNames, EventNodes,       \* of ParameterEventHandler
          Contexts, Nodes, OnShutdown,           \* of Context
          Goals,                                 \* of ActionClient
          None

VARIABLES
  poolCounts, poolWaiting, poolOwner, poolRunner, poolPc, poolAddedSelf, poolTimed, poolResult, poolCommitted,
  isShutdown, guard, triggered, spinThread, spc, spins, hpc, captured, runs, poolDown, dpc, deadline, join, calls,
  list, doing, created, marked, asked, freed, users, wake, at, index, gathered,
  params, descriptors, onSet, simActive, op, mirror, allowUndeclared, quirks, setterCalls,
  registry, mutex, eventThread, subscribed, filter, added, removed,
  state, managed, enabled, lifecycleThread, changes, stale,
  rcl, nodes, onShutdown, logging, cleaning, logCount, configured, default, held, handlers, alive,
  owned, called, home, cleaned, disturbed,
  pending, idOf, requestFuture, feedbackCallbacks, passing, goalHandles, sending, blocked, dropped, removals, data, found,
  server, answers, feedback, statuses, raised,
  part

Shutdown == INSTANCE ExecutorShutdown WITH
    Workers <- Pool, Callbacks <- Handlers,
    counts <- poolCounts, waiting <- poolWaiting, owner <- poolOwner, runner <- poolRunner, pc <- poolPc,
    addedSelf <- poolAddedSelf, timed <- poolTimed, result <- poolResult, committed <- poolCommitted
Lists == INSTANCE NodeEntities WITH Threads <- Users
Transitions == INSTANCE Lifecycle WITH Threads <- Users, Entities <- Managed, thread <- lifecycleThread
Handler == INSTANCE ParameterEventHandler WITH
    Threads <- Users, Names <- EventNames, Nodes <- EventNodes, callbacks <- registry, thread <- eventThread
Process == INSTANCE Context WITH Callbacks <- OnShutdown, callbacks <- onShutdown
Client == INSTANCE ActionClient WITH
    future <- requestFuture, filter <- passing, handles <- goalHandles, call <- blocked

ASSUME ClientAssumption == Client!NoneAssumption
ASSUME ProcessAssumption == Process!ContextsAssumption
ASSUME PoolAssumption == Shutdown!ShutdownAssumption
ASSUME HandlerAssumption == Handler!HandlerAssumption
ASSUME ListsAssumption == Lists!EntitiesAssumption

\* Parameters p and use_sim_time: p with a range or dynamic or without a value,
\* lists that are wholly or partly refused, and an override of p.
Bool(b) == [type |-> "bool", v |-> b]
Num(i) == [type |-> "integer", v |-> i]
Unset == [type |-> "not_set", v |-> 0]
Item(n, value, typed, dynamic, readOnly, range) ==
    [name |-> n, value |-> value, typed |-> typed, dynamic_typing |-> dynamic, read_only |-> readOnly, range |-> range]
MCDeclarations ==
    { <<Item("p", Num(1), FALSE, FALSE, FALSE, <<5, 1, 3>>)>>,
      <<Item("p", Num(1), TRUE, FALSE, FALSE, <<>>)>>,
      <<Item("p", Num(2), FALSE, TRUE, TRUE, <<>>), Item("sim", Bool(1), FALSE, FALSE, FALSE, <<>>)>>,
      <<Item("sim", Bool(1), FALSE, FALSE, FALSE, <<>>)>>,
      <<Item("p", Unset, FALSE, FALSE, FALSE, <<>>)>> }
Set(n, value) == [name |-> n, value |-> value]
MCSettings ==
    { <<Set("sim", Bool(1)), Set("p", Num(4))>>,
      <<Set("p", Unset)>>,
      <<Set("p", Num(2)), Set("sim", Bool(0))>>,
      <<Set("sim", Num(1))>>,
      <<Set("sim", Bool(1)), Set("sim", Bool(0))>> }
MCOverrides == "p" :> Num(5)
Parameters == INSTANCE NodeParameters WITH
    Names <- ParamNames, Items <- Declarations, callbacks <- onSet, calls <- setterCalls
ASSUME ParametersAssumption == Parameters!ParametersAssumption

poolVars == <<poolCounts, poolWaiting, poolOwner, poolRunner, poolPc, poolAddedSelf, poolTimed, poolResult,
              poolCommitted, isShutdown, guard, triggered, spinThread, spc, spins, hpc, captured, runs, poolDown,
              dpc, deadline, join, calls>>
listVars == <<list, doing, created, marked, asked, freed, users, wake, at, index, gathered>>
parameterVars == <<params, descriptors, onSet, simActive, op, mirror, allowUndeclared, quirks, setterCalls>>
handlerVars == <<registry, mutex, eventThread, subscribed, filter, added, removed>>
lifecycleVars == <<state, managed, enabled, lifecycleThread, changes, stale>>
contextVars == <<rcl, nodes, onShutdown, logging, cleaning, logCount, configured, default, held, handlers, alive,
                 owned, called, home, cleaned, disturbed>>
clientVars == <<pending, idOf, requestFuture, feedbackCallbacks, passing, goalHandles, sending, blocked, dropped,
                removals, data, found, server, answers, feedback, statuses, raised>>
allVars == <<vars, poolVars, listVars, parameterVars, handlerVars, lifecycleVars, contextVars, clientVars,
             part>>

-------------------------------------------------------------------------------
MCInit ==
    /\ part \in {"tracker", "pool", "entities", "parameters",
                 "parameter events", "lifecycle", "context", "client"}
    /\ Init /\ Parameters!Init /\ Handler!Init /\ Transitions!Init /\ Process!Init
    /\ Client!Init /\ Shutdown!Init /\ Lists!Init
    /\ part # "parameters" => allowUndeclared
    /\ part # "lifecycle" => managed = {}

\* Bound: three threads of the tracker with two callbacks, or two with three.
NotBothThird ==
    owner'[ThirdCallback] = NoThread \/ (Idle(ThirdThread)' /\ counts'[ThirdThread] = 0)

MCNext ==
    \/ part = "tracker" /\ Next /\ NotBothThird
       /\ UNCHANGED <<poolVars, listVars, parameterVars, handlerVars, lifecycleVars, contextVars, clientVars, part>>
    \/ part = "pool" /\ Shutdown!Next
       /\ UNCHANGED <<vars, listVars, parameterVars, handlerVars, lifecycleVars, contextVars, clientVars, part>>
    \/ part = "entities" /\ Lists!Next
       /\ UNCHANGED <<vars, poolVars, parameterVars, handlerVars, lifecycleVars, contextVars, clientVars, part>>
    \/ part = "parameters" /\ Parameters!Next
       /\ UNCHANGED <<vars, poolVars, listVars, handlerVars, lifecycleVars, contextVars, clientVars, part>>
    \/ part = "parameter events" /\ Handler!Next
       /\ UNCHANGED <<vars, poolVars, listVars, parameterVars, lifecycleVars, contextVars, clientVars, part>>
    \/ part = "lifecycle" /\ Transitions!Next
       /\ UNCHANGED <<vars, poolVars, listVars, parameterVars, handlerVars, contextVars, clientVars, part>>
    \/ part = "context" /\ Process!Next
       /\ UNCHANGED <<vars, poolVars, listVars, parameterVars, handlerVars, lifecycleVars, clientVars, part>>
    \/ part = "client" /\ Client!Next
       /\ UNCHANGED <<vars, poolVars, listVars, parameterVars, handlerVars, lifecycleVars, contextVars, part>>
MCSpec == MCInit /\ [][MCNext]_allVars

-------------------------------------------------------------------------------
\* The properties of the instances, where their part is looked at.
NothingGoesUnderSpinner == part = "pool" => Shutdown!NothingGoesUnderSpinner
WaitSetIsCurrent == part = "entities" => Lists!WaitSetIsCurrent
HandlesGoWhenUnused == part = "entities" => Lists!HandlesGoWhenUnused
StoreMeetsDescriptors == part = "parameters" => Parameters!StoreMeetsDescriptors
ListenersFollowTheStore == part = "parameters" => Parameters!ListenersFollowTheStore
CallbacksFollowTheRegistry == part = "parameter events" => Handler!CallbacksFollowTheRegistry
OneTransition == part = "lifecycle" => Transitions!OneTransition
EnabledFollowsState == part = "lifecycle" => Transitions!EnabledFollowsState
LoggingFollowsContexts == part = "context" => Process!LoggingFollowsContexts
ShutdownCallbacksRun == part = "context" => Process!ShutdownCallbacksRun
RequestsAndFuturesAgree == part = "client" => Client!RequestsAndFuturesAgree
FeedbackArrives == part = "client" => Client!FeedbackArrives
=============================================================================
