--------------------------- MODULE EventsExecutor ---------------------------
(* An EventsExecutor (events_executor.cpp): its queue of events and the        *)
(* sticky stop flag (events_queue.cpp), one thread that spins, the set of      *)
(* subscriptions whose middleware callbacks fill the queue, and the wake()     *)
(* that makes the set follow the nodes. Other threads change the node, shut    *)
(* the executor or the context down, and complete the future that is waited    *)
(* for.                                                                        *)
EXTENDS Naturals, SequencesExt

CONSTANTS Subscriptions,
          MaxRequests, \* bound: calls of spin, messages, changes, shutdowns, results
          None

EventsAssumption == IsFiniteSet(Subscriptions) /\ MaxRequests \in Nat

VARIABLES ok, closing,        \* the context, and how far its shutdown() is: "no", "down", "signal", "over", "unheard"
          entities, added,    \* the node's subscriptions; is the node in nodes_
          unwoken,            \* a change of those whose wake() is still to come
          tracked,            \* subscriptions_, whose callbacks are registered
          wakePending,        \* wake_pending_
          queue, stopped,     \* of the EventsQueue
          once, timed, awaits, \* the arguments of the spin in progress
          pc, event,          \* of the thread that spins: where, and the event it handles
          okRead, collected,  \* its locals in UpdateEntitiesFromNodes()
          messages, unread,   \* in the middleware: all, and those that came while there was no callback
          future, owned, watched, \* the future: state; has it this executor; is Stop among its callbacks
          closer,             \* shutdown() of another thread
          met,                \* history: the calls of spin that a shutdown of executor or context met
          lost,               \* history: subscriptions whose events were dropped or given up
          spins,              \* calls of spin so far
          requests

node == <<entities, added, unwoken>>
context == <<ok, closing>>
call == <<once, timed, awaits, spins>>
update == <<okRead, collected>>
middleware == <<messages, unread>>
until == <<future, owned, watched>>
rest == <<closer, met, lost, requests>>
vars == <<context, node, tracked, wakePending, queue, stopped, call, pc, event, update, middleware, until,
          rest>>

\* The entities an update would find.
Wanted == IF added THEN entities ELSE {}
UpdateQueued == \E i \in DOMAIN queue : queue[i][1] = "update"
\* How many messages the events of q announce: as many as each event says.
Announces(q, s) == {i \in DOMAIN q : q[i][1] = "ready" /\ q[i][2] = s}
Announced(q, s) == Cardinality(UNION {{i} \X (1..q[i][3]) : i \in Announces(q, s)})

InHand(s) == IF pc = "take" /\ event[2] = s THEN event[3] ELSE 0

Init ==
    /\ ok = TRUE /\ closing = "no"
    /\ entities \in SUBSET Subscriptions /\ added \in BOOLEAN /\ unwoken = FALSE /\ tracked = {}
    /\ wakePending = added /\ queue = (IF added THEN <<<<"update">>>> ELSE <<>>) /\ stopped = FALSE
    /\ once = FALSE /\ timed = FALSE /\ awaits = FALSE /\ pc = "out" /\ event = None
    /\ okRead = TRUE /\ collected = {}
    /\ messages = [s \in Subscriptions |-> 0] /\ unread = [s \in Subscriptions |-> 0]
    /\ future = "pending" /\ owned \in BOOLEAN /\ watched = FALSE
    /\ closer = "none" /\ met = {} /\ lost = {} /\ spins = 0 /\ requests = 0

Request == requests < MaxRequests /\ requests' = requests + 1

-----------------------------------------------------------------------------
\* Mutant: the flag is cleared before the call, not after it.
CallRestarts(o, t, u) ==
    /\ Request /\ pc = "out"
    /\ once' = o /\ timed' = t /\ awaits' = u /\ spins' = spins + 1
    /\ watched' = (watched \/ u)
    /\ queue' = IF u /\ future = "done" /\ owned THEN Append(queue, <<"stop">>) ELSE queue
    /\ stopped' = FALSE
    /\ pc' = "run"
    /\ UNCHANGED <<context, node, tracked, wakePending, event, update, middleware, future, owned, closer,
                   met, lost>>

\* spin(), spin_once() and spin_until_future_complete(), which first registers
\* Stop with the future; one that is done calls it at once, or by a task.
Call(o, t, u) ==
    /\ Request /\ pc = "out"
    /\ once' = o /\ timed' = t /\ awaits' = u /\ spins' = spins + 1
    /\ watched' = (watched \/ u)
    /\ IF u /\ future = "done"
       THEN IF owned THEN queue' = Append(queue, <<"stop">>) /\ stopped' = stopped
                     ELSE stopped' = TRUE /\ queue' = queue
       ELSE UNCHANGED <<queue, stopped>>
    /\ pc' = "run"
    /\ UNCHANGED <<context, node, tracked, wakePending, event, update, middleware, future, owned, closer,
                   met, lost>>

\* EventsQueue::Run() takes the next event, unless it has to stop.
TakeEvent ==
    /\ pc = "run" /\ ~stopped /\ queue # <<>>
    /\ event' = Head(queue) /\ queue' = Tail(queue)
    /\ pc' = CASE Head(queue)[1] = "update" -> "ok"
               [] Head(queue)[1] = "ready" -> "take"
               [] OTHER -> "task"
    /\ UNCHANGED <<context, node, tracked, wakePending, stopped, call, update, middleware, until, rest>>

RunReturns ==
    /\ pc = "run" /\ (stopped \/ (timed /\ queue = <<>>))
    /\ pc' = "restart"
    /\ UNCHANGED <<context, node, tracked, wakePending, queue, stopped, call, event, update, middleware,
                   until, rest>>

Restart ==
    /\ pc = "restart"
    /\ stopped' = FALSE
    /\ pc' = "leave"
    /\ UNCHANGED <<context, node, tracked, wakePending, queue, call, event, update, middleware, until, rest>>

\* The lock is released; with the context down ExternalShutdownException
\* leaves Stop with the future.
Leave ==
    /\ pc = "leave" /\ closing # "down"
    /\ pc' = "out"
    /\ watched' = (watched /\ ~ok)
    /\ UNCHANGED <<context, node, tracked, wakePending, queue, stopped, call, event, update, middleware,
                   future, owned, rest>>

-----------------------------------------------------------------------------
\* An update: ok() takes the context's lock, which a shutdown() holds; then the
\* flag is cleared, the entities are collected, and the sets compared.
ReadOk ==
    /\ pc = "ok" /\ closing # "down"
    /\ okRead' = ok
    /\ pc' = "clear"
    /\ UNCHANGED <<context, node, tracked, wakePending, queue, stopped, call, event, collected, middleware,
                   until, rest>>

\* Mutant: the flag is cleared when the update is over.
ClearLate ==
    /\ pc = "clear"
    /\ pc' = "collect"
    /\ UNCHANGED <<context, node, tracked, wakePending, queue, stopped, call, event, update, middleware,
                   until, rest>>

Clear ==
    /\ pc = "clear"
    /\ wakePending' = FALSE
    /\ pc' = "collect"
    /\ UNCHANGED <<context, node, tracked, queue, stopped, call, event, update, middleware, until, rest>>

Collect ==
    /\ pc = "collect"
    /\ collected' = IF okRead THEN Wanted ELSE {}
    /\ added' = (added /\ okRead)
    /\ pc' = "apply"
    /\ UNCHANGED <<context, entities, unwoken, tracked, wakePending, queue, stopped, call, event, okRead,
                   middleware, until, rest>>

\* UpdateEntitySet() for new ones: the middleware tells of what it has already.
Register(new, q) ==
    /\ \E order \in SetToSeqs({s \in new : unread[s] > 0}) :
           queue' = q \o [i \in DOMAIN order |-> <<"ready", order[i], unread[order[i]]>>]
    /\ unread' = [s \in Subscriptions |-> IF s \in new THEN 0 ELSE unread[s]]
    /\ UNCHANGED messages

Apply ==
    /\ pc = "apply"
    /\ Register(collected \ tracked, queue)
    /\ tracked' = collected
    /\ stopped' = (stopped \/ ~okRead)
    /\ pc' = "run" /\ event' = None
    /\ wakePending' = wakePending
    /\ UNCHANGED <<context, node, call, update, until, rest>>

\* HandleSubscriptionReady(), one message at a time. The event of a removed
\* subscription is dropped. The callback returns, with spin_once() as the
\* last, or leaves a task for the coroutine it is, or raises: then spin()
\* does, and what else the event announced is given up.
Drop ==
    /\ pc = "take" /\ event[2] \notin tracked
    /\ lost' = lost \cup {event[2]}
    /\ pc' = "run" /\ event' = None
    /\ UNCHANGED <<context, node, tracked, wakePending, queue, stopped, call, update, middleware, until,
                   closer, met, requests>>

Taken(s) == messages' = [messages EXCEPT ![s] = IF @ = 0 THEN 0 ELSE @ - 1] /\ UNCHANGED unread
Rest(s, n) ==
    /\ event' = IF n = 1 THEN None ELSE <<"ready", s, n - 1>>
    /\ pc' = IF n = 1 THEN "run" ELSE "take"

Take ==
    /\ pc = "take" /\ event[2] \in tracked
    /\ Taken(event[2]) /\ Rest(event[2], event[3])
    /\ \/ /\ stopped' = (stopped \/ (messages[event[2]] > 0 /\ once))
          /\ queue' = queue
       \/ /\ messages[event[2]] > 0
          /\ queue' = Append(queue, <<"task">>)
          /\ stopped' = stopped
    /\ UNCHANGED <<context, node, tracked, wakePending, call, update, until, rest>>

CallbackRaises ==
    /\ pc = "take" /\ event[2] \in tracked /\ messages[event[2]] > 0
    /\ Taken(event[2])
    /\ lost' = IF event[3] > 1 THEN lost \cup {event[2]} ELSE lost
    /\ pc' = "out" /\ event' = None
    /\ UNCHANGED <<context, node, tracked, wakePending, queue, stopped, call, update, until, closer, met,
                   requests>>

\* IterateTask(): a coroutine, or the Stop of a future of this executor.
Iterate ==
    /\ pc = "task"
    /\ stopped' = (stopped \/ once \/ event = <<"stop">>)
    /\ pc' = "run" /\ event' = None
    /\ UNCHANGED <<context, node, tracked, wakePending, queue, call, update, middleware, until, rest>>

Spin ==
    \/ TakeEvent \/ RunReturns \/ Restart \/ Leave
    \/ ReadOk \/ Clear \/ Collect \/ Apply
    \/ Drop \/ Take \/ CallbackRaises \/ Iterate

-----------------------------------------------------------------------------
\* wake(): one event at a time.
Wake ==
    /\ wakePending' = TRUE
    /\ queue' = IF wakePending THEN queue ELSE Append(queue, <<"update">>)

\* A user changes the node or the executor's nodes, then wakes the executor.
Change ==
    /\ Request /\ ~unwoken
    /\ unwoken' = TRUE
    /\ \/ /\ \E s \in Subscriptions : entities' = IF s \in entities THEN entities \ {s} ELSE entities \cup {s}
          /\ added' = added
       \/ added' = ~added /\ entities' = entities
    /\ UNCHANGED <<context, tracked, wakePending, queue, stopped, call, pc, event, update, middleware,
                   until, closer, met, lost>>
ChangeWakes ==
    /\ unwoken
    /\ unwoken' = FALSE
    /\ Wake
    /\ UNCHANGED <<context, entities, added, tracked, stopped, call, pc, event, update, middleware, until,
                   rest>>

\* A message comes in; the callback of the middleware puts it in the queue.
Deliver(s) ==
    /\ Request /\ s \in entities
    /\ messages' = [messages EXCEPT ![s] = @ + 1]
    /\ IF s \in tracked
       THEN queue' = Append(queue, <<"ready", s, 1>>) /\ unread' = unread
       ELSE unread' = [unread EXCEPT ![s] = @ + 1] /\ queue' = queue
    /\ UNCHANGED <<context, node, tracked, wakePending, stopped, call, pc, event, update, until, closer,
                   met, lost>>

\* The call of spin in progress, or else the next one, is met.
Meets == met' = met \cup {IF pc \in {"out", "leave"} THEN spins + 1 ELSE spins}

\* Context.shutdown() holds the context's lock until its callbacks, of which
\* wake() is one, have been called; on SIGINT there is Stop() instead. A wake()
\* that comes when an update has read ok() and not cleared the flag yet puts
\* nothing into the queue, and that update takes the context for up: nobody
\* hears of the shutdown.
ContextDown ==
    /\ Request /\ ok
    /\ ok' = FALSE
    /\ closing' \in {"down", "signal"}
    /\ UNCHANGED <<node, tracked, wakePending, queue, stopped, call, pc, event, update, middleware, until,
                   closer, met, lost>>
ContextWakes ==
    /\ closing = "down"
    /\ IF pc = "clear" /\ okRead THEN met' = met ELSE Meets
    /\ closing' = IF pc = "clear" /\ okRead THEN "unheard" ELSE "over"
    /\ Wake
    /\ UNCHANGED <<ok, node, tracked, stopped, call, pc, event, update, middleware, until, closer, lost,
                   requests>>
SignalStops ==
    /\ closing = "signal"
    /\ closing' = "over"
    /\ stopped' = TRUE
    /\ Meets
    /\ UNCHANGED <<ok, node, tracked, wakePending, queue, call, pc, event, update, middleware, until,
                   closer, lost, requests>>

SetResult ==
    /\ Request /\ future = "pending"
    /\ future' = "done"
    /\ IF ~watched THEN UNCHANGED <<queue, stopped>>
       ELSE IF owned THEN queue' = Append(queue, <<"stop">>) /\ stopped' = stopped
                     ELSE stopped' = TRUE /\ queue' = queue
    /\ UNCHANGED <<context, node, tracked, wakePending, call, pc, event, update, middleware, owned,
                   watched, closer, met, lost>>

\* shutdown() of another thread: Stop, wait for the spin to end, and tear down
\* when it has.
ShutdownStops ==
    /\ Request /\ closer = "none"
    /\ closer' = "stopping"
    /\ stopped' = TRUE
    /\ Meets
    /\ UNCHANGED <<context, node, tracked, wakePending, queue, call, pc, event, update, middleware, until,
                   lost>>
ShutdownLocks ==
    /\ closer = "stopping" /\ pc = "out"
    /\ closer' = "locked"
    /\ UNCHANGED <<context, node, tracked, wakePending, queue, stopped, call, pc, event, update,
                   middleware, until, met, lost, requests>>
TearDown ==
    /\ closer = "locked"
    /\ closer' = "done"
    /\ added' = FALSE /\ tracked' = {}
    /\ queue' = IF added /\ ~wakePending THEN Append(queue, <<"update">>) ELSE queue
    /\ wakePending' = FALSE
    /\ stopped' = TRUE
    /\ UNCHANGED <<context, entities, unwoken, call, pc, event, update, middleware, until, met, lost,
                   requests>>

Others ==
    \/ Change \/ ChangeWakes \/ SetResult
    \/ ContextDown \/ ContextWakes \/ SignalStops
    \/ ShutdownStops \/ ShutdownLocks \/ TearDown
    \/ \E s \in Subscriptions : Deliver(s)

Next ==
    \/ \E o, t, u \in BOOLEAN : Call(o, t, u)
    \/ Spin
    \/ Others

Finish == ContextWakes \/ SignalStops \/ ChangeWakes
Fairness == WF_vars(Spin) /\ WF_vars(Finish)
Spec == Init /\ [][Next]_vars /\ Fairness

-----------------------------------------------------------------------------
\* What is put in front of the executor is not overlooked: where its set is
\* not that of the nodes, an update is due that will see it; and as many
\* messages as a registered subscription has are announced in the queue,
\* unless an event was dropped or given up.
NothingIsOverlooked ==
    /\ tracked # Wanted =>
        \/ unwoken \/ UpdateQueued
        \/ pc \in {"ok", "clear", "collect"}
        \/ pc = "apply" /\ collected = Wanted
    /\ \A s \in tracked \ lost : messages[s] <= Announced(queue, s) + InHand(s)

\* Every spin comes to its end once there is a reason: whenever it came up, the
\* shutdown of the context that was heard of or shutdown() of the executor meets
\* the call that is in progress or the next one; and the awaited future is done.
SpinEnds == (pc # "out" /\ (spins \in met \/ (future = "done" /\ awaits))) ~> pc = "out"
=============================================================================
