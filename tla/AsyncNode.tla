------------------------------- MODULE AsyncNode ------------------------------
(* An asyncio node: its task group, the read loops of its entities (the       *)
(* subscriptions and services, and one client), and the calls of that client. *)
(* The event loop runs one step at a time, from an await to the next; the     *)
(* middleware thread delivers messages at any moment, also within a step.     *)
EXTENDS Naturals, FiniteSets

CONSTANTS Readers,    \* subscriptions and services
          Client,     \* the client
          Messages,   \* what is sent to each reader
          Calls,      \* calls of the client
          None

VARIABLES concurrent, \* readers created with concurrent=True
          node,      \* "created", "entered", "aborting", "closing" or "exited"
          nodeDestroyed, \* _destroyed of the node
          entities,  \* _entities
          destroyed, \* entities with _destroyed
          at,        \* where the _run task of each entity is, "none" if there is no task
          cancelled, \* entities whose task was asked to cancel
          loop,      \* the entity whose step is in progress, or None
          queue,     \* what the middleware holds for each entity
          listening, \* entities with an on-new-message callback
          scheduled, \* entities whose _read_event.set is scheduled in the loop
          readEvent, \* entities with _read_event set
          running,   \* messages whose callback is under way
          future,    \* future of each call: "none", "pending", "done" or "cancelled"
          pending,   \* _pending_requests
          waiting,   \* calls whose coroutine has not returned
          sent       \* messages and responses that have been sent

Entities == Readers \cup {Client}
ASSUME NoneAssumption == None \notin Entities

vars == <<concurrent, node, nodeDestroyed, entities, destroyed, at, cancelled, loop, queue, listening,
          scheduled, readEvent, running, future, pending, waiting, sent>>
owner == <<concurrent, node, nodeDestroyed, entities, destroyed, cancelled, listening>>
wakeup == <<queue, scheduled, readEvent, sent>>
calls == <<future, pending, waiting>>

-------------------------------------------------------------------------------
\* The create functions: with a task at once if the node runs. On a destroyed
\* node they raise.
create(e) ==
    /\ loop = None /\ ~nodeDestroyed /\ node \in {"created", "entered"}
    /\ e \notin entities \cup destroyed
    /\ entities' = entities \cup {e}
    /\ at' = [at EXCEPT ![e] = IF node = "entered" THEN "start" ELSE "none"]
    /\ UNCHANGED <<concurrent, node, nodeDestroyed, destroyed, cancelled, loop, listening, wakeup, running, calls>>

\* __aenter__ starts the task of every entity there is.
aenter ==
    /\ loop = None /\ node = "created" /\ ~nodeDestroyed
    /\ node' = "entered"
    /\ at' = [e \in Entities |-> IF e \in entities THEN "start" ELSE at[e]]
    /\ UNCHANGED <<concurrent, nodeDestroyed, entities, destroyed, cancelled, loop, listening, wakeup, running, calls>>

\* Mutant: the futures of a destroyed client are left alone.
CancelledNever(es) == future

\* destroy() of entities: out of the node, the task cancelled, the callback of
\* the middleware cleared, and the futures of a client cancelled.
Cancelled(es) == [c \in Calls |-> IF Client \in es /\ c \in pending /\ future[c] = "pending"
                                  THEN "cancelled" ELSE future[c]]
HasTask(e) == at[e] \notin {"none", "ended"}
Destroy(es) ==
    /\ destroyed' = destroyed \cup es
    /\ entities' = entities \ es
    /\ listening' = listening \ es
    /\ future' = Cancelled(es)

destroy(e) ==
    /\ loop = None /\ e \in entities
    /\ Destroy({e})
    /\ cancelled' = cancelled \cup {x \in {e} : HasTask(x)}
    /\ UNCHANGED <<concurrent, node, nodeDestroyed, at, loop, wakeup, running, pending, waiting>>

\* Mutant: the tasks are not cancelled.
DestroyNodeKeepsTasks ==
    /\ nodeDestroyed' = TRUE
    /\ Destroy(entities)
    /\ UNCHANGED cancelled

\* destroy_node, by the user, and at the end of the async with block, which
\* the user ends, or an exception, or, for run(), the destruction of the node.
DestroyNode ==
    /\ nodeDestroyed' = TRUE
    /\ Destroy(entities)
    /\ cancelled' = cancelled \cup {e \in entities : HasTask(e)}
destroy_node ==
    /\ loop = None /\ ~nodeDestroyed /\ DestroyNode
    /\ UNCHANGED <<concurrent, node, at, loop, wakeup, running, pending, waiting>>
leave ==
    /\ loop = None /\ node \in {"entered", "aborting"}
    /\ node' = "closing"
    /\ DestroyNode
    /\ UNCHANGED <<concurrent, at, loop, wakeup, running, pending, waiting>>

\* __aexit__ waits for every task of the group.
aexit ==
    /\ loop = None /\ node = "closing" /\ \A e \in Entities : ~HasTask(e)
    /\ node' = "exited"
    /\ UNCHANGED <<concurrent, nodeDestroyed, entities, destroyed, at, cancelled, loop, listening, wakeup, running, calls>>

-------------------------------------------------------------------------------
\* A task goes on, from its start, from the event or from the end of its
\* callback, until it awaits again.
Step(e, from) == loop = None /\ at[e] = from /\ e \notin cancelled /\ loop' = e

Start(e) ==
    /\ Step(e, "start")
    /\ listening' = listening \cup {e} /\ at' = [at EXCEPT ![e] = "take"]
    /\ UNCHANGED <<concurrent, node, nodeDestroyed, entities, destroyed, cancelled, wakeup, running, calls>>

Wake(e) ==
    /\ Step(e, "wait") /\ e \in readEvent
    /\ at' = [at EXCEPT ![e] = "take"]
    /\ UNCHANGED <<owner, wakeup, running, calls>>

CallbackEnds(e) ==
    /\ Step(e, "handle")
    /\ at' = [at EXCEPT ![e] = "take"] /\ running' = [running EXCEPT ![e] = {}]
    /\ UNCHANGED <<owner, wakeup, calls>>

\* The generators _messages and _requests: a message goes to the callback, which
\* may await, or to a task of its own.
TakeMessage(e, m) ==
    /\ e \in Readers
    /\ \/ e \notin concurrent /\ at' = [at EXCEPT ![e] = "handle"] /\ loop' = None
          /\ running' = [running EXCEPT ![e] = {m}]
       \/ e \in concurrent /\ running' = [running EXCEPT ![e] = @ \cup {m}] /\ UNCHANGED <<at, loop>>
       \/ e \notin concurrent /\ UNCHANGED <<at, loop, running>>
    /\ UNCHANGED calls

\* The read loop of the client: set_result raises on a cancelled future.
TakeResponse(c) ==
    /\ IF c \in pending
       THEN IF future[c] = "pending"
            THEN future' = [future EXCEPT ![c] = "done"] /\ UNCHANGED <<at, loop>>
            ELSE at' = [at EXCEPT ![Client] = "failed"] /\ loop' = None /\ UNCHANGED future
       ELSE UNCHANGED <<future, at, loop>>
    /\ UNCHANGED <<pending, waiting, running>>

Take(e) ==
    /\ loop = e /\ at[e] = "take"
    /\ \/ \E m \in queue[e] :
            /\ queue' = [queue EXCEPT ![e] = @ \ {m}]
            /\ IF e = Client THEN TakeResponse(m) ELSE TakeMessage(e, m)
       \/ queue[e] = {} /\ at' = [at EXCEPT ![e] = "clear"] /\ UNCHANGED <<queue, loop, running, calls>>
    /\ UNCHANGED <<owner, scheduled, readEvent, sent>>

\* Nothing to take: the event is cleared and awaited. What arrives meanwhile
\* sets it later, for the loop is here.
Clear(e) ==
    /\ loop = e /\ at[e] = "clear"
    /\ readEvent' = readEvent \ {e}
    /\ at' = [at EXCEPT ![e] = "wait"] /\ loop' = None
    /\ UNCHANGED <<owner, queue, scheduled, sent, running, calls>>

\* Mutant: the event is set from the thread of the middleware.
OnNewDirectly(e) == /\ readEvent' = IF e \in listening THEN readEvent \cup {e} ELSE readEvent
                    /\ UNCHANGED scheduled

\* _on_new_message and its like, in the middleware thread.
OnNew(e) == /\ scheduled' = IF e \in listening THEN scheduled \cup {e} ELSE scheduled
            /\ UNCHANGED readEvent
Arrive(e, m) ==
    /\ m \in IF e = Client THEN {c \in Calls : future[c] # "none"} ELSE Messages
    /\ <<e, m>> \notin sent /\ e \in entities
    /\ sent' = sent \cup {<<e, m>>}
    /\ queue' = [queue EXCEPT ![e] = @ \cup {m}]
    /\ OnNew(e)
    /\ UNCHANGED <<owner, at, loop, running, calls>>
RunScheduled(e) ==
    /\ loop = None /\ e \in scheduled
    /\ scheduled' = scheduled \ {e} /\ readEvent' = readEvent \cup {e}
    /\ UNCHANGED <<owner, at, loop, queue, sent, running, calls>>

\* A concurrent callback ends; any callback may raise, which ends its read loop.
ConcurrentEnds(e) == \E m \in running[e] :
    /\ loop = None /\ e \in concurrent /\ e \notin cancelled
    /\ running' = [running EXCEPT ![e] = @ \ {m}]
    /\ UNCHANGED <<owner, at, loop, wakeup, calls>>
CallbackFails(e) ==
    /\ loop = None /\ running[e] # {} /\ e \notin cancelled /\ at[e] # "failed"
    /\ at' = [at EXCEPT ![e] = "failed"] /\ running' = [running EXCEPT ![e] = {}]
    /\ UNCHANGED <<owner, loop, wakeup, calls>>

\* A read loop that was cancelled, or failed, destroys its entity, unless it
\* was cancelled before it ever ran. A failure aborts the task group: every
\* other task is cancelled.
EndOfRun(e) ==
    /\ loop = None
    /\ at[e] = "failed" \/ (e \in cancelled /\ HasTask(e))
    /\ at' = [at EXCEPT ![e] = "ended"] /\ running' = [running EXCEPT ![e] = {}]
    /\ Destroy({e} \ {x \in {e} : at[x] = "start"})
    /\ IF at[e] = "failed"
       THEN /\ cancelled' = (cancelled \cup {x \in Entities : HasTask(x)}) \ {e}
            /\ node' = IF node = "entered" THEN "aborting" ELSE node
       ELSE cancelled' = cancelled \ {e} /\ UNCHANGED node
    /\ UNCHANGED <<concurrent, nodeDestroyed, loop, wakeup, pending, waiting>>

-------------------------------------------------------------------------------
\* call: the request goes out and its future is pending before the loop runs on.
call(c) ==
    /\ loop = None /\ Client \in entities /\ future[c] = "none"
    /\ future' = [future EXCEPT ![c] = "pending"]
    /\ pending' = pending \cup {c} /\ waiting' = waiting \cup {c}
    /\ UNCHANGED <<owner, at, loop, wakeup, running>>
\* The caller's timeout cancels the future at once; its coroutine resumes later.
TimeOut(c) ==
    /\ loop = None /\ c \in waiting /\ future[c] = "pending"
    /\ future' = [future EXCEPT ![c] = "cancelled"]
    /\ UNCHANGED <<owner, at, loop, wakeup, running, pending, waiting>>
Return(c) ==
    /\ loop = None /\ c \in waiting /\ future[c] # "pending"
    /\ waiting' = waiting \ {c} /\ pending' = pending \ {c}
    /\ UNCHANGED <<owner, at, loop, wakeup, running, future>>

-------------------------------------------------------------------------------
Init ==
    /\ concurrent \in SUBSET Readers
    /\ node = "created" /\ nodeDestroyed = FALSE /\ entities = {} /\ destroyed = {}
    /\ at = [e \in Entities |-> "none"] /\ cancelled = {} /\ loop = None
    /\ queue = [e \in Entities |-> {}] /\ listening = {} /\ scheduled = {} /\ readEvent = {}
    /\ running = [e \in Entities |-> {}] /\ sent = {}
    /\ future = [c \in Calls |-> "none"] /\ pending = {} /\ waiting = {}

Loop(e) == Start(e) \/ Wake(e) \/ Take(e) \/ Clear(e) \/ RunScheduled(e) \/ CallbackEnds(e)
           \/ ConcurrentEnds(e) \/ EndOfRun(e)
Next ==
    \/ aenter \/ destroy_node \/ leave \/ aexit
    \/ \E e \in Entities : create(e) \/ destroy(e) \/ Loop(e) \/ CallbackFails(e)
                           \/ \E m \in Messages \cup Calls : Arrive(e, m)
    \/ \E c \in Calls : call(c) \/ TimeOut(c) \/ Return(c)

Spec == Init /\ [][Next]_vars

\* The event loop runs as long as any of its steps is ready, and callbacks return.
Fairness == WF_vars(aexit \/ (\E e \in Entities : Loop(e)) \/ (\E c \in Calls : Return(c)))

-------------------------------------------------------------------------------
\* A read loop never sleeps on a message: if one is there, the event is set or
\* will be, whenever the middleware delivered it.
NoMessageForgotten == \A e \in Entities :
    at[e] = "wait" /\ queue[e] # {} /\ e \in listening => e \in scheduled \cup readEvent

\* Once the block of the node is left, none of its tasks or callbacks runs, no
\* entity is left, and no call of its client is still undecided.
NothingOutlivesTheNode ==
    node = "exited" =>
        /\ entities = {} /\ listening = {}
        /\ \A e \in Entities : ~HasTask(e) /\ running[e] = {}
        /\ \A c \in Calls : future[c] # "pending"

\* A node that is being left is left, and the calls of a destroyed client end.
LeavingEnds ==
    /\ (node = "closing") ~> (node = "exited")
    /\ \A c \in Calls : (Client \in destroyed /\ c \in waiting) ~> (c \notin waiting)

\* A call that timed out does not end the read loop of its client: only the
\* user, or a callback that raises, does.
TimedOutCallIsHarmless == at[Client] # "failed"
=============================================================================
