------------------------- MODULE ParameterEventHandler -------------------------
(* The registry of callbacks for parameter events, which any thread may       *)
(* change while threads of the executor go through it for an event. A lock    *)
(* that cannot be taken twice is held all the while the callbacks run: one    *)
(* that adds or removes a callback itself waits for its own thread.           *)
EXTENDS Naturals, Sequences, SequencesExt

CONSTANTS Threads, Handles, Names, Nodes, None

\* None stands for no thread, and in Events for the name of no parameter.
HandlerAssumption == None \notin Threads \cup Names

VARIABLES callbacks,  \* parameter_callbacks by key, and event_callbacks under Events
          mutex,      \* the thread that holds Callbacks.mutex, or None
          thread,     \* what each thread does in event_callback
          subscribed, \* parameter_event_subscription is there
          filter,     \* nodes of the content filter; none: no filter
          added,      \* ghost: handles in the order they were added
          removed     \* ghost: handles whose removal has returned

vars == <<callbacks, mutex, thread, subscribed, filter, added, removed>>

-------------------------------------------------------------------------------
\* A parameter of a node; and the key of the callbacks for whole events.
Events == <<None, None>>
Keys == (Names \X Nodes) \cup {Events}

\* A thread in no round; in one, it has the keys that its event names, those it
\* has yet to come to, the rest of the list it is in, and what it called.
Idle == [at |-> "idle", event |-> {}, keys |-> {}, todo |-> <<>>, called |-> <<>>]
Round(keys) == [at |-> "parameters", event |-> keys, keys |-> keys, todo |-> <<>>, called |-> <<>>]

\* get_parameter_from_event: the keys of the parameters of a node that an event
\* names as new or changed. A deleted parameter has no callbacks.
get_parameter_from_event(node, names) == names \X {node}

\* Mutant: the callbacks run without the lock.
event_callback_unlocked(t) ==
    /\ thread[t] = Idle /\ subscribed
    /\ \E node \in Nodes, names \in SUBSET Names :
         /\ filter = {} \/ node \in filter
         /\ thread' = [thread EXCEPT ![t] = Round(get_parameter_from_event(node, names))]
    /\ UNCHANGED <<callbacks, mutex, subscribed, filter, added, removed>>

\* event_callback: a thread of the executor has an event and takes the lock.
event_callback(t) ==
    /\ thread[t] = Idle /\ subscribed /\ mutex = None
    /\ mutex' = t
    /\ \E node \in Nodes, names \in SUBSET Names :
         /\ filter = {} \/ node \in filter
         /\ thread' = [thread EXCEPT ![t] = Round(get_parameter_from_event(node, names))]
    /\ UNCHANGED <<callbacks, subscribed, filter, added, removed>>

\* The lists of callbacks in turn, those of the event last.
NextList(t) ==
    /\ thread[t].at = "parameters" /\ thread[t].todo = <<>>
    /\ IF thread[t].keys # {}
       THEN \E key \in thread[t].keys :
              thread' = [thread EXCEPT ![t].todo = callbacks[key], ![t].keys = @ \ {key}]
       ELSE thread' = [thread EXCEPT ![t].todo = callbacks[Events], ![t].at = "events"]
    /\ UNCHANGED <<callbacks, mutex, subscribed, filter, added, removed>>

\* One callback begins; it returns, or raises and ends the round, or asks the
\* registry for a change and never comes back.
Call(t) ==
    /\ thread[t].at \in {"parameters", "events"} /\ thread[t].todo # <<>>
    /\ thread' = [thread EXCEPT ![t].at = IF @ = "events" THEN "in event callback" ELSE "in callback"]
    /\ UNCHANGED <<callbacks, mutex, subscribed, filter, added, removed>>
CallReturns(t) ==
    /\ thread[t].at \in {"in callback", "in event callback"}
    /\ thread' = [thread EXCEPT ![t].at = IF @ = "in callback" THEN "parameters" ELSE "events",
                                ![t].todo = Tail(@),
                                ![t].called = Append(@, Head(thread[t].todo))]
    /\ UNCHANGED <<callbacks, mutex, subscribed, filter, added, removed>>
CallRaises(t) ==
    /\ thread[t].at \in {"in callback", "in event callback"}
    /\ mutex' = None
    /\ thread' = [thread EXCEPT ![t] = Idle]
    /\ UNCHANGED <<callbacks, subscribed, filter, added, removed>>
CallWaitsForItself(t) ==
    /\ thread[t].at \in {"in callback", "in event callback"}
    /\ thread' = [thread EXCEPT ![t].at = "stuck"]
    /\ UNCHANGED <<callbacks, mutex, subscribed, filter, added, removed>>

EventDone(t) ==
    /\ thread[t].at = "events" /\ thread[t].todo = <<>>
    /\ mutex' = None
    /\ thread' = [thread EXCEPT ![t] = Idle]
    /\ UNCHANGED <<callbacks, subscribed, filter, added, removed>>

-------------------------------------------------------------------------------
\* add_parameter_callback and add_parameter_event_callback: the newest first.
add_callback(t, handle, key) ==
    /\ thread[t] = Idle /\ mutex = None /\ handle \notin ToSet(added)
    /\ callbacks' = [callbacks EXCEPT ![key] = <<handle>> \o @]
    /\ added' = Append(added, handle)
    /\ UNCHANGED <<mutex, thread, subscribed, filter, removed>>

\* remove_parameter_callback and remove_parameter_event_callback, of a handle
\* that is there: a second removal raises and changes nothing.
remove_callback(t, handle) ==
    /\ thread[t] = Idle /\ mutex = None
    /\ \E key \in Keys : \E i \in DOMAIN callbacks[key] :
         /\ callbacks[key][i] = handle
         /\ callbacks' = [callbacks EXCEPT ![key] = RemoveAt(@, i)]
    /\ removed' = removed \cup {handle}
    /\ UNCHANGED <<mutex, thread, subscribed, filter, added>>

\* configure_nodes_filter, where the middleware supports a filter: an empty list
\* of nodes clears it.
configure_nodes_filter(t, nodes) ==
    /\ thread[t] = Idle /\ subscribed
    /\ filter' = nodes
    /\ UNCHANGED <<callbacks, mutex, thread, subscribed, added, removed>>

destroy(t) ==
    /\ thread[t] = Idle /\ subscribed
    /\ subscribed' = FALSE
    /\ UNCHANGED <<callbacks, mutex, thread, filter, added, removed>>

-------------------------------------------------------------------------------
Init ==
    /\ callbacks = [key \in Keys |-> <<>>] /\ mutex = None
    /\ thread = [t \in Threads |-> Idle] /\ subscribed = TRUE /\ filter = {}
    /\ added = <<>> /\ removed = {}

Next == \E t \in Threads :
    \/ event_callback(t) \/ NextList(t) \/ EventDone(t)
    \/ Call(t) \/ CallReturns(t) \/ CallRaises(t) \/ CallWaitsForItself(t)
    \/ \E handle \in Handles :
         remove_callback(t, handle) \/ \E key \in Keys : add_callback(t, handle, key)
    \/ \E nodes \in SUBSET Nodes : configure_nodes_filter(t, nodes)
    \/ destroy(t)

Spec == Init /\ [][Next]_vars

-------------------------------------------------------------------------------
Newer(h, k) == \E i, j \in DOMAIN added : i < j /\ added[i] = k /\ added[j] = h

\* A round called the callbacks of a list: all of them, each after the newer ones.
CalledInOrder(called, key) ==
    LET mine == {i \in DOMAIN called : Contains(callbacks[key], called[i])}
    IN  /\ ToSet(callbacks[key]) \subseteq {called[i] : i \in mine}
        /\ \A i, j \in mine : i < j => Newer(called[i], called[j])

\* When the removal of a callback has returned, the callback is not running in
\* any thread and is not called any more, and an event whose round has ended
\* called exactly the callbacks for events and those of its parameters, once
\* each, the newest of a list first (remove_parameter_callback and
\* event_callback under Callbacks.mutex).
CallbacksFollowTheRegistry ==
    \A t \in Threads :
      /\ thread[t].at \in {"in callback", "in event callback"} => Head(thread[t].todo) \notin removed
      /\ thread[t].at = "events" /\ thread[t].todo = <<>> =>
           \A key \in Keys :
             IF key \in thread[t].event \cup {Events}
             THEN CalledInOrder(thread[t].called, key)
             ELSE ToSet(thread[t].called) \cap ToSet(callbacks[key]) = {}
=============================================================================
