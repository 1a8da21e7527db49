------------------------------- MODULE Context -------------------------------
(* Contexts and the global default one: initialisation, the nodes and the    *)
(* callbacks a context tracks, its shutdown by a call or by a signal, and    *)
(* the logging that all contexts share. A shutdown holds the lock of its     *)
(* context; the garbage collector, which drops a callback whose owner died,  *)
(* and the signal handler ask for no lock.                                   *)
EXTENDS Naturals, FiniteSets, SequencesExt

CONSTANTS Contexts, Nodes, Callbacks, None

ContextsAssumption == IsFiniteSet(Contexts) /\ None \notin Contexts /\ Nodes \cap Callbacks = {}

VARIABLES rcl,       \* each rcl context: "none" before init(), "ok", "down"
          nodes,     \* __node_weak_ref_list
          callbacks, \* _callbacks
          logging,   \* _logging_initialized
          cleaning,  \* the step of the shutdown under way: "idle", "nodes", "callbacks"; and its index
          logCount, configured, \* g_logging_ref_count; the logging of the process
          default, held,  \* g_default_context; g_context_lock is held for the shutdown of this context
          handlers,  \* the signal handlers are installed
          alive,     \* nodes not destroyed
          owned,     \* callbacks whose owner has not been collected
          called,    \* how often each callback was called
          home,      \* the context each node and callback was given to
          cleaned, disturbed \* contexts with a finished shutdown; with a collection during it

vars == <<rcl, nodes, callbacks, logging, cleaning, logCount, configured, default, held, handlers,
          alive, owned, called, home, cleaned, disturbed>>
objects == <<alive, owned, called, home>>

Idle == [at |-> "idle", i |-> 0]
Free(c) == cleaning[c] = Idle
Unused == Contexts \ {c \in Contexts : rcl[c] # "none"}

\* get_default_context: a new context when there is none.
DefaultContexts == IF default = None THEN Unused ELSE {default}

-------------------------------------------------------------------------------
\* init(): logging is configured for the first context.
init(c) ==
    /\ Free(c) /\ rcl[c] = "none"
    /\ rcl' = [rcl EXCEPT ![c] = "ok"]
    /\ logging' = [logging EXCEPT ![c] = TRUE]
    /\ logCount' = IF logging[c] THEN logCount ELSE logCount + 1
    /\ configured' = (configured \/ logCount' = 1)
    /\ UNCHANGED <<nodes, callbacks, cleaning, held, objects, cleaned, disturbed>>

\* rclpy.init(): of a given context, or of the default one, for which the
\* signal handlers are installed.
InitContextManager(c) ==
    /\ init(c)
    /\ \/ held = None /\ c \in DefaultContexts /\ default' = c /\ handlers' = TRUE
       \/ c # default /\ UNCHANGED <<default, handlers>>

track_node(c, n) ==
    /\ Free(c) /\ rcl[c] = "ok" /\ home[n] = None
    /\ nodes' = [nodes EXCEPT ![c] = Append(@, n)]
    /\ alive' = alive \cup {n}
    /\ home' = [home EXCEPT ![n] = c]
    /\ UNCHANGED <<rcl, callbacks, logging, cleaning, logCount, configured, default, held, handlers, owned, called, cleaned, disturbed>>

\* destroy_node() of the user; untrack_node removes it from the list.
destroy_node(n) ==
    /\ n \in alive /\ Free(home[n])
    /\ alive' = alive \ {n}
    /\ nodes' = [nodes EXCEPT ![home[n]] = SelectSeq(@, LAMBDA m : m # n)]
    /\ UNCHANGED <<rcl, callbacks, logging, cleaning, logCount, configured, default, held, handlers, owned, called, home, cleaned, disturbed>>

\* on_shutdown: kept for later, or called at once when the context is down.
on_shutdown_keep(c, k) == callbacks' = [callbacks EXCEPT ![c] = Append(@, k)] /\ UNCHANGED called
on_shutdown_call(c, k) == called' = [called EXCEPT ![k] = @ + 1] /\ UNCHANGED callbacks
on_shutdown(c, k) ==
    /\ Free(c) /\ home[k] = None
    /\ home' = [home EXCEPT ![k] = c]
    /\ owned' = owned \cup {k}
    /\ IF rcl[c] = "down" THEN on_shutdown_call(c, k) ELSE on_shutdown_keep(c, k)
    /\ UNCHANGED <<rcl, nodes, logging, cleaning, logCount, configured, default, held, handlers, alive, cleaned, disturbed>>

\* _remove_callback: the owner of a bound method is gone.
remove_callback(k) ==
    /\ k \in owned
    /\ owned' = owned \ {k}
    /\ callbacks' = [callbacks EXCEPT ![home[k]] = RemoveFirst(@, k)]
    /\ disturbed' = IF Free(home[k]) THEN disturbed ELSE disturbed \cup {home[k]}
    /\ UNCHANGED <<rcl, nodes, logging, cleaning, logCount, configured, default, held, handlers, alive, called, home, cleaned>>

-------------------------------------------------------------------------------
\* shutdown(), whatever the state of the context; the default one is replaced
\* before it is shut down.
shutdown(c) ==
    /\ Free(c) /\ rcl[c] # "none"
    /\ cleaning' = [cleaning EXCEPT ![c] = [at |-> "nodes", i |-> 1]]
    /\ UNCHANGED <<rcl, nodes, callbacks, logging, logCount, configured, handlers, objects, cleaned, disturbed>>
shutdown_default(c) == c = default /\ held = None /\ default' = None /\ shutdown(c) /\ UNCHANGED held

\* try_shutdown(): only a context that is ok is cleaned up. Of the default
\* context, with g_context_lock until it is replaced.
try_shutdown(c) == rcl[c] = "ok" /\ shutdown(c)
try_shutdown_default(c) ==
    /\ c = default /\ held = None
    /\ \/ try_shutdown(c) /\ held' = c /\ UNCHANGED default
       \/ Free(c) /\ rcl[c] # "ok" /\ default' = None /\ UNCHANGED <<held, cleaning>>
    /\ UNCHANGED <<rcl, nodes, callbacks, logging, logCount, configured, handlers, objects, cleaned, disturbed>>

\* _cleanup: the loop over the tracked nodes visits the list by index while
\* destroy_node removes each visited node from it; then rcl shuts down.
CleanNode(c) ==
    LET i == cleaning[c].i
    IN  /\ cleaning[c].at = "nodes"
        /\ IF i <= Len(nodes[c])
           THEN /\ alive' = alive \ {nodes[c][i]}
                /\ nodes' = [nodes EXCEPT ![c] = RemoveAt(@, i)]
                /\ cleaning' = [cleaning EXCEPT ![c].i = @ + 1]
                /\ UNCHANGED rcl
           ELSE /\ rcl' = [rcl EXCEPT ![c] = "down"]
                /\ cleaning' = [cleaning EXCEPT ![c] = [at |-> "callbacks", i |-> 1]]
                /\ UNCHANGED <<alive, nodes>>
        /\ UNCHANGED <<callbacks, logging, logCount, configured, default, held, handlers, owned, called, home, cleaned, disturbed>>

\* _call_on_shutdown_callbacks, again by index.
CallShutdownCallback(c) ==
    LET i == cleaning[c].i
    IN  /\ cleaning[c].at = "callbacks" /\ i <= Len(callbacks[c])
        /\ called' = [called EXCEPT ![callbacks[c][i]] = @ + 1]
        /\ cleaning' = [cleaning EXCEPT ![c].i = @ + 1]
        /\ UNCHANGED <<rcl, nodes, callbacks, logging, logCount, configured, default, held, handlers, alive, owned, home, cleaned, disturbed>>

\* Mutant: a context that ended its part of the logging ends it again.
CountAfterAgain(c) == logCount - 1

\* The list of callbacks is emptied, and the last context ends the logging.
CountAfter(c) == IF logging[c] THEN logCount - 1 ELSE logCount
logging_fini(c) ==
    /\ cleaning[c].at = "callbacks" /\ cleaning[c].i > Len(callbacks[c])
    /\ callbacks' = [callbacks EXCEPT ![c] = <<>>]
    /\ logging' = [logging EXCEPT ![c] = FALSE]
    /\ logCount' = CountAfter(c)
    /\ configured' = (configured /\ ~(logging[c] /\ logCount' = 0))
    /\ cleaning' = [cleaning EXCEPT ![c] = Idle]
    /\ cleaned' = cleaned \cup {c}
    /\ held' = IF held = c THEN None ELSE held
    /\ default' = IF held = c THEN None ELSE default
    /\ UNCHANGED <<rcl, nodes, handlers, objects, disturbed>>

\* SIGINT or SIGTERM: rcl shuts every context down, and nothing else happens.
Signal ==
    /\ handlers /\ \E c \in Contexts : rcl[c] = "ok"
    /\ rcl' = [c \in Contexts |-> IF rcl[c] = "ok" THEN "down" ELSE rcl[c]]
    /\ UNCHANGED <<nodes, callbacks, logging, cleaning, logCount, configured, default, held, handlers, objects, cleaned, disturbed>>

\* uninstall_signal_handlers, at the end of a shutdown of the default context.
uninstall_signal_handlers ==
    /\ handlers /\ default = None
    /\ handlers' = FALSE
    /\ UNCHANGED <<rcl, nodes, callbacks, logging, cleaning, logCount, configured, default, held, objects, cleaned, disturbed>>

-------------------------------------------------------------------------------
Init ==
    /\ rcl = [c \in Contexts |-> "none"]
    /\ nodes = [c \in Contexts |-> <<>>] /\ callbacks = [c \in Contexts |-> <<>>]
    /\ logging = [c \in Contexts |-> FALSE] /\ cleaning = [c \in Contexts |-> Idle]
    /\ logCount = 0 /\ configured = FALSE
    /\ default = None /\ held = None /\ handlers = FALSE
    /\ alive = {} /\ owned = {}
    /\ called = [k \in Callbacks |-> 0] /\ home = [x \in Nodes \cup Callbacks |-> None]
    /\ cleaned = {} /\ disturbed = {}

Use == \E c \in Contexts :
          InitContextManager(c) \/ (\E n \in Nodes : track_node(c, n)) \/ (\E k \in Callbacks : on_shutdown(c, k))
Drop == (\E n \in Nodes : destroy_node(n)) \/ (\E k \in Callbacks : remove_callback(k))
ShutDown == \E c \in Contexts :
          \/ (shutdown(c) \/ try_shutdown(c)) /\ UNCHANGED <<default, held>>
          \/ shutdown_default(c) \/ try_shutdown_default(c)
          \/ CleanNode(c) \/ CallShutdownCallback(c) \/ logging_fini(c)
Next == Use \/ Drop \/ ShutDown \/ Signal \/ uninstall_signal_handlers
Spec == Init /\ [][Next]_vars

-------------------------------------------------------------------------------
\* The logging of the process is configured while some context that asked for
\* it has not finished its shutdown, and the count is the number of those,
\* however often and in whatever order contexts are shut down.
LoggingFollowsContexts ==
    /\ logCount = Cardinality({c \in Contexts : logging[c]})
    /\ configured = (logCount > 0)
    /\ \A c \in cleaned : Free(c) => ~logging[c]

\* A callback given to on_shutdown() is called at most once, and has been
\* called when the shutdown is over, if its owner lives and the collector did
\* not shorten the list while it was visited.
ShutdownCallbacksRun ==
    \A k \in Callbacks :
        /\ called[k] <= 1
        /\ k \in owned /\ home[k] \in cleaned \ disturbed => called[k] = 1

\* When a context has been shut down, every node it tracked is destroyed: what
\* the documentation of track_node() promises.
EveryNodeIsDestroyed == \A n \in alive : home[n] \notin cleaned
=============================================================================
