-------------------------- MODULE CallbackDispatch --------------------------
(***************************************************************************)
(* What an rclpy executor promises to the owner of an entity: work that    *)
(* has arrived is handed to the callback exactly once, callbacks of one    *)
(* mutually exclusive group never overlap (callback_groups.py), and no     *)
(* work is left waiting while its group is free.                           *)
(***************************************************************************)
EXTENDS Naturals

CONSTANTS
    Entities, GroupOf,   \* the entities and the callback group of each
    Exclusive,           \* the groups that are mutually exclusive
    MaxArrivals          \* bound: work that arrives for each entity

VARIABLES
    arrived,   \* how much work has ever arrived for each entity
    pending,   \* how much of it waits for its callback
    running    \* callbacks of the entity that have begun and not ended

vars == <<arrived, pending, running>>

Rivals(e) ==
    IF GroupOf[e] \in Exclusive THEN {o \in Entities : GroupOf[o] = GroupOf[e]} ELSE {}

Init ==
    /\ arrived = [e \in Entities |-> 0]
    /\ pending = [e \in Entities |-> 0]
    /\ running = [e \in Entities |-> 0]

Arrive(e) ==
    /\ arrived[e] < MaxArrivals
    /\ arrived' = [arrived EXCEPT ![e] = @ + 1]
    /\ pending' = [pending EXCEPT ![e] = @ + 1]
    /\ UNCHANGED running

(* the work disappears before a callback starts *)
Expire(e) ==
    /\ pending[e] > 0
    /\ pending' = [pending EXCEPT ![e] = @ - 1]
    /\ UNCHANGED <<arrived, running>>

Start(e) ==
    /\ pending[e] > 0
    /\ \A o \in Rivals(e) : running[o] = 0
    /\ pending' = [pending EXCEPT ![e] = @ - 1]
    /\ running' = [running EXCEPT ![e] = @ + 1]
    /\ UNCHANGED arrived

Finish(e) ==
    /\ running[e] > 0
    /\ running' = [running EXCEPT ![e] = @ - 1]
    /\ UNCHANGED <<arrived, pending>>

Next == \E e \in Entities : Arrive(e) \/ Expire(e) \/ Start(e) \/ Finish(e)

Spec == Init /\ [][Next]_vars

(* Work is not left waiting, even if its rivals take turns in keeping the  *)
(* group busy; callbacks are assumed to end.                               *)
Fairness == \A e \in Entities : SF_vars(Start(e)) /\ WF_vars(Finish(e))

FairSpec == Spec /\ Fairness
=============================================================================
