--------------------------- MODULE MCBlockingCalls ---------------------------
(* Small instances of the calls that block a thread: shutdown() until a       *)
(* spinner has left and the callbacks have ended, with handlers that the      *)
(* spinner runs or a pool of workers, a service call until its response, a    *)
(* rate until its timer, a sleep until a clock has got there, spin() of an    *)
(* EventsExecutor until it is stopped. A behaviour is about one of them; the  *)
(* variables of the others stay as they begin.                                *)
EXTENDS ExecutorShutdown

CONSTANTS Requests, Calls, ClientWorkers,   \* of ServiceClient
          Sleepers,                         \* of Rate
          Nodes, Clocks, Dozers, MaxTime,   \* of SimTime
          Subscriptions, MaxRequests,       \* of EventsExecutor
          None

VARIABLES
  callPc, lock, responses, answered, pending, future, bound, callbacks, tasks, event, worker,
  timer, flag, destroyed, phase, count, at,
  useSimTime, listening, node, sub, active, attached, lastTime, enabled, override, ok, sleepPc,
  clock, until, sleepEvent, changed, passed, mixed, reattached,
  contextOk, closing, entities, added, unwoken, tracked, wakePending, queue, stopped, once, hasTimeout, awaits,
  queuePc, queueEvent, okRead, collected, messages, unread, awaited, owned, watched, closer, met, lost, queueSpins,
  requests,
  part

Client == INSTANCE ServiceClient WITH Workers <- ClientWorkers, pc <- callPc
Rate == INSTANCE Rate
Clock == INSTANCE SimTime WITH Sleepers <- Dozers, pc <- sleepPc, event <- sleepEvent
Events == INSTANCE EventsExecutor WITH
    ok <- contextOk, timed <- hasTimeout, pc <- queuePc, event <- queueEvent, future <- awaited, spins <- queueSpins
ASSUME QueueAssumption == Events!EventsAssumption

clientVars == <<callPc, lock, responses, answered, pending, future, bound, callbacks, tasks, event, worker>>
rateVars == <<timer, flag, destroyed, phase, count, at>>
clockVars == <<useSimTime, listening, node, sub, active, attached, lastTime, enabled, override, ok,
               sleepPc, clock, until, sleepEvent, changed, passed, mixed, reattached>>
eventsVars == <<contextOk, closing, entities, added, unwoken, tracked, wakePending, queue, stopped, once, hasTimeout,
                awaits, queuePc, queueEvent, okRead, collected, messages, unread, awaited, owned, watched, closer,
                met, lost, queueSpins, requests>>
allVars == <<vars, clientVars, rateVars, clockVars, eventsVars, part>>

-------------------------------------------------------------------------------
MCInit ==
    /\ part \in {"shutdown", "client", "rate", "clock", "events"}
    /\ Init /\ Client!Init /\ Rate!Init /\ Clock!Init /\ Events!Init
    /\ part # "clock" => /\ useSimTime = [n \in Nodes |-> FALSE]
                         /\ clock = [s \in Dozers |-> CHOOSE c \in Clocks : TRUE]
    /\ part # "events" => entities = {} /\ ~added /\ ~owned

MCNext ==
    \/ part = "shutdown" /\ Next /\ UNCHANGED <<clientVars, rateVars, clockVars, eventsVars, part>>
    \/ part = "client" /\ Client!Next /\ UNCHANGED <<vars, rateVars, clockVars, eventsVars, part>>
    \/ part = "rate" /\ Rate!Next /\ UNCHANGED <<vars, clientVars, clockVars, eventsVars, part>>
    \/ part = "clock" /\ Clock!Next /\ UNCHANGED <<vars, clientVars, rateVars, eventsVars, part>>
    \/ part = "events" /\ Events!Next /\ UNCHANGED <<vars, clientVars, rateVars, clockVars, part>>

\* Of the finite behaviours of shutdown() and of a service call it is enough
\* that some thread goes on as long as one can: less than their own fairness.
ShutdownStep ==
    /\ part = "shutdown"
    /\ \/ \E s \in Spinners : Spin(s)
       \/ \E t \in AllThreads : Shutdown(t) \/ \E c \in Callbacks : HandlerStep(t, c)
ClientStep ==
    /\ part = "client"
    /\ \/ \E r \in Requests : Client!CallStep(r) \/ Client!CancelRemoves(r)
       \/ \E w \in ClientWorkers : Client!Work(w)
MCFairness ==
    /\ WF_vars(ShutdownStep)
    /\ WF_clientVars(ClientStep)
    /\ WF_rateVars(part = "rate" /\ Rate!ShutdownDestroys)
    /\ \A t \in Sleepers : WF_rateVars(part = "rate" /\ Rate!Sleep(t))
    /\ WF_clockVars(part = "clock" /\ Clock!clock_callback)
    /\ \A s \in Dozers : WF_clockVars(part = "clock" /\ Clock!SleepStep(s))
    /\ WF_eventsVars(part = "events" /\ Events!Spin)
    /\ WF_eventsVars(part = "events" /\ Events!Finish)
MCSpec == MCInit /\ [][MCNext]_allVars /\ MCFairness

-------------------------------------------------------------------------------
\* The properties of the instances, under their names there.
AnswerIsDelivered == Client!AnswerIsDelivered
TimeSourceInStep == Clock!TimeSourceInStep
SleepersWake == Rate!SleepersGoOn /\ Clock!SleepersWake
NothingIsOverlooked == Events!NothingIsOverlooked
SpinEnds == Events!SpinEnds
=============================================================================
