------------------------------- MODULE SimTime -------------------------------
(* A time source that drives the ROS clocks of a process from /clock when    *)
(* use_sim_time says so, and the threads that sleep on such a clock until a  *)
(* time is reached, the source of time changes, or the context shuts down.   *)
(* A call on the time source is one step: they all come from the executor    *)
(* group of its node, or from the construction of the node.                  *)
EXTENDS Naturals, FiniteSets

CONSTANTS Nodes, Clocks, Sleepers, None,
          MaxTime   \* /clock counts up to MaxTime and starts again, as a looping recording does

VARIABLES useSimTime, \* the parameter use_sim_time of each node
          listening,  \* nodes on which _on_parameter_event is registered
          node, sub,  \* _node_weak_ref; the node that carries _clock_sub
          active,     \* _ros_time_is_active
          attached,   \* _associated_clocks
          lastTime,   \* _last_time_set
          enabled, override, \* of each clock: the source of its time, its simulated time
          ok,         \* the context
          pc, clock, until, event, changed, passed, mixed,
          reattached  \* a node was attached while simulated time was in use already

source == <<useSimTime, listening, node, sub, active, attached, lastTime, reattached>>
sleep == <<pc, clock, until, mixed>>
vars == <<source, enabled, override, ok, sleep, event, changed, passed>>

-------------------------------------------------------------------------------
\* Clocks. Jump callbacks are those of the sleepers past registration.
Listens(s, c) == pc[s] \in {"registered", "ros", "wall"} /\ clock[s] = c

\* set_ros_time_override of the clocks in cs: a step forward of a clock that
\* uses simulated time calls on_time_jump, which wakes a sleeper that is due.
set_ros_time_override(cs, t) ==
    /\ override' = [c \in Clocks |-> IF c \in cs THEN t ELSE override[c]]
    /\ event' = [s \in Sleepers |-> event[s] \/ \E c \in cs :
                    /\ Listens(s, c) /\ enabled[c] /\ t > override[c]
                    /\ changed[s] \/ t >= until[s]]

\* _set_ros_time_is_active of the clocks in cs: a change of the source of time
\* wakes every sleeper.
set_ros_time_is_active(cs, b) ==
    LET hit(s) == \E c \in cs : Listens(s, c) /\ enabled[c] # b
    IN  /\ enabled' = [c \in Clocks |-> IF c \in cs THEN b ELSE enabled[c]]
        /\ changed' = [s \in Sleepers |-> changed[s] \/ hit(s)]
        /\ event' = [s \in Sleepers |-> event[s] \/ hit(s)]
        /\ mixed' = [s \in Sleepers |-> mixed[s] \/ (pc[s] = "checked" /\ clock[s] \in cs /\ enabled[clock[s]] # b)]

-------------------------------------------------------------------------------
\* The setter of ros_time_is_active: nothing when the value is the same;
\* otherwise the clocks follow, and the subscription to /clock of the attached
\* node is made (_subscribe_to_clock_topic) or destroyed.
SetActive(b, oldSub, newNode) ==
    IF active = b
    THEN UNCHANGED <<active, enabled, event, changed, mixed>> /\ sub' = oldSub
    ELSE /\ active' = b
         /\ set_ros_time_is_active(attached, b)
         /\ sub' = IF ~b THEN None ELSE IF oldSub = None THEN newNode ELSE oldSub

\* attach_node: the old node is left (detach_node) with its callback still
\* registered, and use_sim_time of the new one is applied.
attach_node(n) ==
    /\ reattached' = (reattached \/ active)
    /\ node' = n
    /\ listening' = listening \cup {n}
    /\ SetActive(useSimTime[n], IF node = None THEN sub ELSE None, n)
    /\ UNCHANGED <<useSimTime, attached, lastTime, override, ok, pc, clock, until, passed>>

detach_node ==
    /\ node # None
    /\ node' = None /\ sub' = None
    /\ UNCHANGED <<useSimTime, listening, active, attached, lastTime, reattached, enabled, override, ok, sleep, event, changed, passed>>

\* use_sim_time of a node is set and _on_parameter_event reacts to it.
on_parameter_event(n, b) ==
    /\ useSimTime' = [useSimTime EXCEPT ![n] = b]
    /\ IF n \in listening THEN SetActive(b, sub, node)
       ELSE UNCHANGED <<active, sub, enabled, event, changed, mixed>>
    /\ UNCHANGED <<listening, node, attached, lastTime, reattached, override, ok, pc, clock, until, passed>>

\* Mutant: a clock attached late keeps its own source of time.
attach_clock_late(c) ==
    /\ c \notin attached
    /\ attached' = attached \cup {c}
    /\ override' = [override EXCEPT ![c] = lastTime]
    /\ UNCHANGED <<useSimTime, listening, node, sub, active, lastTime, reattached, enabled, ok, sleep, event, changed, passed>>

\* attach_clock: the last time and the source of time, then it is a member.
attach_clock(c) ==
    /\ c \notin attached
    /\ attached' = attached \cup {c}
    /\ override' = [override EXCEPT ![c] = lastTime]
    /\ set_ros_time_is_active({c}, active)
    /\ UNCHANGED <<useSimTime, listening, node, sub, active, lastTime, reattached, ok, pc, clock, until, passed>>

\* clock_callback: the next message on /clock.
clock_callback ==
    LET t == (lastTime + 1) % (MaxTime + 1)
    IN  /\ sub # None
        /\ lastTime' = t
        /\ set_ros_time_override(attached, t)
        /\ UNCHANGED <<useSimTime, listening, node, sub, active, attached, reattached, enabled, ok, sleep, changed, passed>>

-------------------------------------------------------------------------------
\* sleep_until and sleep_for. The deadline is fixed and the context tested ...
sleep_until(s, c, t) ==
    /\ pc[s] = "awake" /\ ok
    /\ pc' = [pc EXCEPT ![s] = "checked"]
    /\ clock' = [clock EXCEPT ![s] = c] /\ until' = [until EXCEPT ![s] = t]
    /\ event' = [event EXCEPT ![s] = FALSE] /\ changed' = [changed EXCEPT ![s] = FALSE]
    /\ passed' = [passed EXCEPT ![s] = FALSE] /\ mixed' = [mixed EXCEPT ![s] = FALSE]
    /\ UNCHANGED <<source, enabled, override, ok>>

\* Mutant: on_shutdown only keeps the event, of a context that is down too.
create_jump_callback_unset(s) ==
    /\ pc[s] = "checked"
    /\ pc' = [pc EXCEPT ![s] = "registered"]
    /\ UNCHANGED <<source, enabled, override, ok, clock, until, mixed, event, changed, passed>>

\* ... then the event is given to on_shutdown, which sets it at once when the
\* context has shut down meanwhile, and the jump callback is registered ...
create_jump_callback(s) ==
    /\ pc[s] = "checked"
    /\ pc' = [pc EXCEPT ![s] = "registered"]
    /\ event' = [event EXCEPT ![s] = @ \/ ~ok]
    /\ UNCHANGED <<source, enabled, override, ok, clock, until, mixed, changed, passed>>

\* ... and the thread waits: wait_until_ros for the event only when the clock
\* uses simulated time, otherwise for the event or the deadline.
wait_until_ros(s) ==
    /\ pc[s] = "registered"
    /\ pc' = [pc EXCEPT ![s] = IF enabled[clock[s]] THEN "ros" ELSE "wall"]
    /\ UNCHANGED <<source, enabled, override, ok, clock, until, mixed, event, changed, passed>>

WallTimePasses(s) ==
    /\ pc[s] = "wall" /\ ~passed[s]
    /\ passed' = [passed EXCEPT ![s] = TRUE]
    /\ UNCHANGED <<source, enabled, override, ok, sleep, event, changed>>

\* The thread leaves; the jump callback is unregistered and the event freed.
Leave(s) ==
    /\ pc[s] \in {"ros", "wall"}
    /\ event[s] \/ (pc[s] = "wall" /\ passed[s])
    /\ pc' = [pc EXCEPT ![s] = "awake"]
    /\ UNCHANGED <<source, enabled, override, ok, clock, until, mixed, event, changed, passed>>

Shutdown ==
    /\ ok /\ ok' = FALSE
    /\ event' = [s \in Sleepers |-> event[s] \/ pc[s] \in {"registered", "ros", "wall"}]
    /\ UNCHANGED <<source, enabled, override, sleep, changed, passed>>

-------------------------------------------------------------------------------
Init ==
    /\ useSimTime \in [Nodes -> BOOLEAN]
    /\ listening = {} /\ node = None /\ sub = None /\ active = FALSE
    /\ attached = {} /\ lastTime = 0 /\ reattached = FALSE
    /\ enabled = [c \in Clocks |-> FALSE] /\ override = [c \in Clocks |-> 0]
    /\ ok = TRUE
    /\ pc = [s \in Sleepers |-> "awake"] /\ clock \in [Sleepers -> Clocks]
    /\ until = [s \in Sleepers |-> 0]
    /\ event = [s \in Sleepers |-> FALSE] /\ changed = [s \in Sleepers |-> FALSE]
    /\ passed = [s \in Sleepers |-> FALSE] /\ mixed = [s \in Sleepers |-> FALSE]

Attach == detach_node \/ (\E n \in Nodes : attach_node(n)) \/ (\E c \in Clocks : attach_clock(c))
SetUseSimTime == \E n \in Nodes, b \in BOOLEAN : on_parameter_event(n, b)
SleepStep(s) == create_jump_callback(s) \/ wait_until_ros(s) \/ WallTimePasses(s) \/ Leave(s)
Sleep == \E s \in Sleepers :
            \/ \E c \in Clocks, t \in 1..MaxTime : sleep_until(s, c, t)
            \/ SleepStep(s)

Next == Attach \/ SetUseSimTime \/ clock_callback \/ Sleep \/ Shutdown

Spec == Init /\ [][Next]_vars

\* Threads run, wall time passes, and someone publishes /clock.
Fairness ==
    /\ WF_vars(clock_callback)
    /\ \A s \in Sleepers : WF_vars(SleepStep(s))

-------------------------------------------------------------------------------
\* Every clock that was ever attached, to whichever node the source belonged
\* then, shows the time and uses the source of time that the others do.
ClocksAgree == \A c \in attached : enabled[c] = active /\ override[c] = lastTime

\* There is a subscription to /clock on the attached node, never on a node the
\* source has left, exactly while simulated time is in use; attaching a node
\* while simulated time is in use is the one exception, where none is made.
SubscriptionFollowsNode ==
    /\ sub # None => sub = node /\ active
    /\ active /\ node # None /\ ~reattached => sub = node

\* The time source, its clocks and its subscription never disagree, in whatever
\* order nodes and clocks are attached and use_sim_time of any of them is set.
TimeSourceInStep == ClocksAgree /\ SubscriptionFollowsNode

\* A thread that sleeps on a clock wakes: at its deadline, or when the source
\* of time changes, and it does not sleep past the shutdown of the context,
\* however that falls between its steps. Exceptions: simulated time without a
\* subscription, and a source of time that changed after the deadline was
\* computed and before the jump callback was registered.
SleepersWake == \A s \in Sleepers :
    /\ ~ok ~> pc[s] = "awake"
    /\ pc[s] # "awake" ~> (pc[s] = "awake" \/ mixed[s] \/ (active /\ sub = None))
=============================================================================
