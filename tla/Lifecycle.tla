------------------------------- MODULE Lifecycle ------------------------------
(* A lifecycle node: the state machine of rcl_lifecycle, the managed entities *)
(* its transitions call, and the threads that ask for transitions: the user's *)
(* own, which triggers them, and the executor, for the service. No lock       *)
(* protects a transition: only the state machine refuses a second one.        *)
EXTENDS Naturals, FiniteSets

CONSTANTS Threads, Entities, MaxChanges

VARIABLES state,     \* current_state of the rcl state machine
          managed,   \* _managed_entities
          enabled,   \* the SimpleManagedEntity whose _enabled is set
          thread,    \* what each thread does: a transition, or none
          changes,   \* transitions that have been asked for
          stale      \* entities out of step: added too late, or in a transition that did not succeed

vars == <<state, managed, enabled, thread, changes, stale>>

-------------------------------------------------------------------------------
\* The default state machine of rcl_lifecycle, external: from which state a
\* transition may start, and where its callback's return code leads.
Edges == { <<"configure", "unconfigured", "configuring">>, <<"cleanup", "inactive", "cleaningup">>,
           <<"activate", "inactive", "activating">>, <<"deactivate", "active", "deactivating">>,
           <<"unconfigured_shutdown", "unconfigured", "shuttingdown">>,
           <<"inactive_shutdown", "inactive", "shuttingdown">>,
           <<"active_shutdown", "active", "shuttingdown">> }
Outcome(s, code) ==
    IF code = "error" THEN IF s = "errorprocessing" THEN "finalized" ELSE "errorprocessing"
    ELSE CASE s = "errorprocessing" -> IF code = "success" THEN "unconfigured" ELSE "finalized"
           [] s = "shuttingdown" -> "finalized"
           [] s = "configuring" -> IF code = "success" THEN "inactive" ELSE "unconfigured"
           [] s = "cleaningup" -> IF code = "success" THEN "unconfigured" ELSE "inactive"
           [] s = "activating" -> IF code = "success" THEN "active" ELSE "inactive"
           [] s = "deactivating" -> IF code = "success" THEN "inactive" ELSE "active"
Transient == {"configuring", "cleaningup", "activating", "deactivating", "shuttingdown", "errorprocessing"}

\* Mutant: a transition may start whatever the state.
AvailableAlways(s) == {e[1] : e \in Edges}

\* What the services answer and __change_state may start: get_available_transitions.
Available(s) == {e[1] : e \in {x \in Edges : x[2] = s}}

Idle == [at |-> "idle", asked |-> "none", during |-> "none", todo |-> {}, size |-> 0, code |-> "none"]
Calling(s, asked) == [at |-> "calling", asked |-> asked, during |-> s,
                      todo |-> managed, size |-> Cardinality(managed), code |-> "success"]

-------------------------------------------------------------------------------
\* trigger_configure and the others, and __on_change_state with the id or the
\* label of a transition: the thread enters __change_state.
trigger(t) == \E asked \in {e[1] : e \in Edges} :
    /\ thread[t] = Idle /\ changes < MaxChanges
    /\ changes' = changes + 1
    /\ thread' = [thread EXCEPT ![t] = [Idle EXCEPT !.at = "asking", !.asked = asked]]
    /\ UNCHANGED <<state, managed, enabled, stale>>

\* trigger_shutdown reads the state to choose the transition; in any other
\* state it raises.
trigger_shutdown(t) ==
    /\ thread[t] = Idle /\ changes < MaxChanges
    /\ changes' = changes + 1
    /\ \E e \in Edges : e[2] = state /\ e[3] = "shuttingdown"
                        /\ thread' = [thread EXCEPT ![t] = [Idle EXCEPT !.at = "asking", !.asked = e[1]]]
    /\ UNCHANGED <<state, managed, enabled, stale>>

\* __change_state starts the transition, or reports that it cannot.
Start(t) ==
    /\ thread[t].at = "asking"
    /\ IF thread[t].asked \in Available(state)
       THEN /\ state' = (CHOOSE e \in Edges : e[1] = thread[t].asked)[3]
            /\ thread' = [thread EXCEPT ![t] = Calling(state', @.asked)]
            /\ stale' = IF state' \in {"activating", "deactivating"} THEN {} ELSE stale
       ELSE UNCHANGED <<state, stale>> /\ thread' = [thread EXCEPT ![t] = Idle]
    /\ UNCHANGED <<managed, enabled, changes>>

\* What a successful callback of a SimpleManagedEntity leaves of _enabled.
SetEnabled(during, e) == CASE during = "activating" -> enabled \cup {e}
                           [] during = "deactivating" -> enabled \ {e}
                           [] OTHER -> enabled

\* Mutant: the entities after a failure are called all the same.
CallEntityGoesOn(t) ==
    /\ thread[t].at = "calling" /\ thread[t].size = Cardinality(managed)
    /\ \E e \in thread[t].todo, code \in {"success", "failure", "error"} :
         /\ enabled' = IF code = "success" THEN SetEnabled(thread[t].during, e) ELSE enabled
         /\ thread' = [thread EXCEPT ![t].todo = @ \ {e}, ![t].code = code]
    /\ UNCHANGED <<state, managed, changes, stale>>

\* __transition_callback_impl, one entity of the set at a time: a callback that
\* does not succeed ends it, and so does a set that was changed meanwhile.
CallEntity(t) ==
    /\ thread[t].at = "calling" /\ thread[t].size = Cardinality(managed)
    /\ \E e \in thread[t].todo, code \in {"success", "failure", "error"} :
         /\ enabled' = IF code = "success" THEN SetEnabled(thread[t].during, e) ELSE enabled
         /\ thread' = [thread EXCEPT ![t].todo = @ \ {e}, ![t].code = code,
                                     ![t].at = IF code = "success" THEN "calling" ELSE "called"]
    /\ UNCHANGED <<state, managed, changes, stale>>
EndOfCallbacks(t) ==
    /\ thread[t].at = "calling"
    /\ thread[t].todo = {} \/ thread[t].size # Cardinality(managed)
    /\ thread' = [thread EXCEPT ![t].at = "called",
                     ![t].code = IF thread[t].size = Cardinality(managed) THEN @ ELSE "error"]
    /\ UNCHANGED <<state, managed, enabled, changes, stale>>

\* The transition completes with the return code; after an error, the on_error
\* callbacks decide where to.
Complete(t) ==
    /\ thread[t].at = "called"
    /\ IF state \in Transient
       THEN /\ state' = Outcome(state, thread[t].code)
            /\ thread' = [thread EXCEPT ![t] = IF @.code = "error" /\ @.during # "errorprocessing"
                                               THEN Calling(state', @.asked) ELSE Idle]
            /\ stale' = IF thread[t].code = "success" THEN stale ELSE managed
       ELSE UNCHANGED <<state, stale>> /\ thread' = [thread EXCEPT ![t] = Idle]
    /\ UNCHANGED <<managed, enabled, changes>>

\* create_lifecycle_publisher, add_managed_entity and destroy_lifecycle_publisher,
\* by any thread, in a callback too. A new publisher is disabled.
add_managed_entity(e) ==
    /\ e \notin managed /\ e \notin enabled
    /\ managed' = managed \cup {e}
    /\ stale' = IF state \in {"active", "activating", "deactivating"} THEN stale \cup {e} ELSE stale
    /\ UNCHANGED <<state, enabled, thread, changes>>
destroy_lifecycle_publisher(e) ==
    /\ e \in managed
    /\ managed' = managed \ {e} /\ enabled' = enabled \ {e}
    /\ thread' = [t \in Threads |-> [thread[t] EXCEPT !.todo = @ \ {e}]]
    /\ UNCHANGED <<state, changes, stale>>

-------------------------------------------------------------------------------
Init ==
    /\ state = "unconfigured" /\ managed \in SUBSET Entities /\ enabled = {}
    /\ thread = [t \in Threads |-> Idle] /\ changes = 0 /\ stale = {}

Next ==
    \/ \E t \in Threads : trigger(t) \/ trigger_shutdown(t) \/ Start(t) \/ CallEntity(t)
                          \/ EndOfCallbacks(t) \/ Complete(t)
    \/ \E e \in Entities : add_managed_entity(e) \/ destroy_lifecycle_publisher(e)

Spec == Init /\ [][Next]_vars

-------------------------------------------------------------------------------
\* Without any lock of rclpy, two threads are never inside transitions at the
\* same time, callbacks run in the state they were called for, and the state
\* machine is in transition exactly while some thread will complete it.
OneTransition ==
    LET inside == {t \in Threads : thread[t].at \in {"calling", "called"}}
    IN  /\ Cardinality(inside) <= 1
        /\ \A t \in inside : thread[t].during = state
        /\ state \in Transient <=> inside # {}

\* Outside a transition, a publisher that was there when the last activation or
\* deactivation began, and no callback of any entity failed since, is enabled
\* exactly in "active" (a shutdown leaves the publishers of an active node
\* enabled: nothing is claimed of "finalized").
EnabledFollowsState ==
    /\ state = "active" => managed \ stale \subseteq enabled
    /\ state \in {"inactive", "unconfigured"} => enabled \subseteq stale
=============================================================================
