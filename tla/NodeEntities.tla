----------------------------- MODULE NodeEntities -----------------------------
(* The entities of a node: threads create and destroy them while an executor  *)
(* gathers them from the lists of the node, holds their handles in a wait set *)
(* and takes from those that are ready. Nothing but the GIL orders the        *)
(* threads; a handle (Destroyable) counts its users, and the executor's guard *)
(* condition tells it that the lists have changed.                            *)
EXTENDS Naturals, SequencesExt

CONSTANTS Entities,   \* publishers, subscriptions, clients, services, timers, guards
          Guards,     \* the guard conditions among them
          WithEvents, \* publishers and subscriptions with an event handler
          Node,       \* the handle of the node
          Threads, None

Event(e) == <<e>>
EntitiesAssumption ==
    /\ Guards \cup WithEvents \subseteq Entities /\ Guards \cap WithEvents = {}
    /\ Node # None /\ {Node, None} \cap Entities = {} /\ \A e \in Entities : Event(e) \notin Entities \cup {Node}

VARIABLES list,     \* _subscriptions, ..., _guards and __waitables, as one list
          doing,    \* the step of a call each thread is at, on which entity, and if for destroy_node
          created, marked, \* entities that were created; that have _destroyed set
          asked, freed, \* handles with please_destroy_; whose rcl object is gone
          users,    \* who is inside each handle
          wake,     \* the guard condition of the executor is triggered
          at, index, gathered \* the executor: its step, position in the lists, what it gathered

vars == <<list, doing, created, marked, asked, freed, users, wake, at, index, gathered>>
handles == <<asked, freed, users>>
executor == <<at, index, gathered>>

Items == Entities \cup {Event(e) : e \in WithEvents}
Destroyables == Items \cup {Node}
Listed(x) == x \in ToSet(list)

-------------------------------------------------------------------------------
\* Mutant: the executor is not woken for an event handler.
AfterCreateForgets(step, e) == IF step = "announce" /\ e \in WithEvents THEN "append event" ELSE
                               IF step = "append" THEN "announce" ELSE "end"

\* create_*: the entity enters the list of its kind and the executor is woken;
\* a publisher or subscription then adds its event handler, as add_waitable does.
AfterCreate(step, e) ==
    CASE step = "append" -> "announce"
      [] step = "announce" /\ e \in WithEvents -> "append event"
      [] step = "append event" -> "announce event"
      [] OTHER -> "end"

\* destroy_guard_condition and destroy_node wake the executor last.
WakesLast(e) == e \in Guards \cup {Node}

\* destroy() of an entity: it leaves the lists (_on_destroy_publisher and its
\* like), the executor is woken, and then its handles are released.
AfterDestroy(step, e) ==
    CASE step = "test" -> "mark"
      [] step = "mark" -> "remove"
      [] step = "remove" -> IF e \in WithEvents THEN "remove event" ELSE IF WakesLast(e) THEN "release" ELSE "wake"
      [] step = "remove event" -> "wake"
      [] step = "wake" -> IF e \in WithEvents THEN "release event" ELSE IF WakesLast(e) THEN "end" ELSE "release"
      [] step = "release event" -> "release"
      [] step = "release" -> IF WakesLast(e) THEN "wake" ELSE "end"

Doing(step, e, all) == [step |-> step, on |-> e, all |-> all]
Idle == Doing("idle", None, FALSE)
DestroyOne(e, all) == Doing(IF e \in Guards THEN "remove" ELSE "test", e, all)

At(t, steps) == doing[t].step \in steps
Target(t) == IF At(t, {"append event", "remove event", "release event"}) THEN Event(doing[t].on) ELSE doing[t].on
Goes(t, frame) == doing' = [doing EXCEPT ![t] = frame]

\* The next step of the call, after it the next entity of destroy_node.
Ended(all) == IF all THEN Doing("all", Node, TRUE) ELSE Idle
Continues(t, step) ==
    Goes(t, IF step = "end" THEN Ended(doing[t].all) ELSE Doing(step, doing[t].on, doing[t].all))
GoesOnCreating(t) == Continues(t, AfterCreate(doing[t].step, doing[t].on))
GoesOnDestroying(t) == Continues(t, AfterDestroy(doing[t].step, doing[t].on))

Create(t, e) ==
    /\ doing[t] = Idle /\ e \notin created
    /\ created' = created \cup {e} /\ Goes(t, Doing("append", e, FALSE))
    /\ UNCHANGED <<list, marked, handles, wake, executor>>

Destroy(t, e) ==
    /\ doing[t] = Idle /\ Listed(e) /\ Goes(t, DestroyOne(e, FALSE))
    /\ UNCHANGED <<list, created, marked, handles, wake, executor>>

DestroyNode(t) ==
    /\ doing[t] = Idle /\ Node \notin asked /\ Goes(t, Doing("all", Node, TRUE))
    /\ UNCHANGED <<list, created, marked, handles, wake, executor>>

\* destroy_node: one entity after the other, the guards last, then the node.
NextToDestroy(t) ==
    /\ At(t, {"all"})
    /\ \/ \E e \in Entities : /\ Listed(e) /\ (e \in Guards => ToSet(list) \cap Entities \subseteq Guards)
                             /\ Goes(t, DestroyOne(e, TRUE))
       \/ ToSet(list) \cap Entities = {} /\ Goes(t, Doing("release", Node, FALSE))
    /\ UNCHANGED <<list, created, marked, handles, wake, executor>>

Appends(t) ==
    /\ At(t, {"append", "append event"})
    /\ list' = Append(list, Target(t)) /\ GoesOnCreating(t)
    /\ UNCHANGED <<created, marked, handles, wake, executor>>

Announces(t) ==
    /\ At(t, {"announce", "announce event"})
    /\ wake' = TRUE /\ GoesOnCreating(t)
    /\ UNCHANGED <<list, created, marked, handles, executor>>

\* destroy() returns at once if _destroyed is set; else it sets it.
Tests(t) ==
    /\ At(t, {"test"})
    /\ IF doing[t].on \in marked THEN Goes(t, Ended(doing[t].all)) ELSE GoesOnDestroying(t)
    /\ UNCHANGED <<list, created, marked, handles, wake, executor>>

Marks(t) ==
    /\ At(t, {"mark"})
    /\ marked' = marked \cup {doing[t].on} /\ GoesOnDestroying(t)
    /\ UNCHANGED <<list, created, handles, wake, executor>>

\* A second thread that is past the test of _destroyed finds the entity gone
\* from the list: ValueError ends its call.
Removes(t) ==
    /\ At(t, {"remove", "remove event"})
    /\ \/ \E i \in 1..Len(list) : /\ list[i] = Target(t) /\ (\A j \in 1..(i - 1) : list[j] # Target(t))
                                 /\ list' = RemoveAt(list, i)
          /\ GoesOnDestroying(t)
       \/ ~Listed(Target(t)) /\ Goes(t, Idle) /\ UNCHANGED list
    /\ UNCHANGED <<created, marked, handles, wake, executor>>

Wakes(t) ==
    /\ At(t, {"wake"})
    /\ wake' = TRUE /\ GoesOnDestroying(t)
    /\ UNCHANGED <<list, created, marked, handles, executor>>

\* Mutant: freed at once, whoever uses it.
ReleaseNow(x) == asked' = asked \cup {x} /\ freed' = freed \cup {x}

\* destroy_when_not_in_use: freed now, or by the last user.
Release(x) == asked' = asked \cup {x} /\ freed' = IF users[x] = {} THEN freed \cup {x} ELSE freed
Entered(x) == x \notin asked

Releases(t) ==
    /\ At(t, {"release", "release event"})
    /\ Release(Target(t)) /\ GoesOnDestroying(t)
    /\ UNCHANGED <<list, created, marked, users, wake, executor>>

-------------------------------------------------------------------------------
\* The executor gathers from the lists by index, so that a removal meanwhile may
\* make it miss an entity ...
Gather ==
    /\ at = "gather"
    /\ IF index <= Len(list)
       THEN gathered' = gathered \cup {list[index]} /\ index' = index + 1 /\ UNCHANGED at
       ELSE at' = "enter" /\ UNCHANGED <<gathered, index>>
    /\ UNCHANGED <<list, doing, created, marked, asked, freed, users, wake>>

\* ... enters their handles, and leaves out those with InvalidHandle ...
Enter ==
    /\ at = "enter"
    /\ IF gathered = {} THEN at' = "wait" /\ UNCHANGED <<gathered, users>>
       ELSE \E x \in gathered :
               /\ gathered' = gathered \ {x} /\ UNCHANGED at
               /\ users' = IF Entered(x) THEN [users EXCEPT ![x] = @ \cup {"wait set"}] ELSE users
    /\ UNCHANGED <<list, doing, created, marked, asked, freed, wake, index>>

\* ... waits for its guard condition or an entity, leaves the handles, and takes
\* from one that was ready, inside its handle again.
Held == {x \in Items : "wait set" \in users[x]}
Leave(ready) ==
    /\ users' = [x \in Destroyables |-> users[x] \ {"wait set"}]
    /\ freed' = freed \cup {x \in asked \cap Held : users[x] = {"wait set"}}
    /\ gathered' = ready /\ at' = IF ready = {} THEN "gather" ELSE "take"
    /\ index' = 1
    /\ UNCHANGED <<list, doing, created, marked, asked>>
Woken == at = "wait" /\ wake /\ wake' = FALSE /\ Leave({})
Ready == at = "wait" /\ UNCHANGED wake /\ \E x \in Held : Leave({x})
Take ==
    /\ at = "take"
    /\ \E x \in gathered :
           IF Entered(x) THEN users' = [users EXCEPT ![x] = @ \cup {"taker"}] /\ at' = "taken" /\ UNCHANGED gathered
           ELSE UNCHANGED users /\ at' = "gather" /\ gathered' = {}
    /\ UNCHANGED <<list, doing, created, marked, asked, freed, wake, index>>
TakeDone ==
    /\ at = "taken"
    /\ users' = [x \in Destroyables |-> users[x] \ {"taker"}]
    /\ freed' = freed \cup {x \in asked : users[x] = {"taker"}}
    /\ at' = "gather" /\ gathered' = {}
    /\ UNCHANGED <<list, doing, created, marked, asked, wake, index>>

-------------------------------------------------------------------------------
Init ==
    /\ list = <<>> /\ doing = [t \in Threads |-> Idle] /\ created = {} /\ marked = {}
    /\ asked = {} /\ freed = {} /\ users = [x \in Destroyables |-> {}]
    /\ wake = FALSE /\ at = "gather" /\ index = 1 /\ gathered = {}

Spin == Gather \/ Enter \/ Woken \/ Ready \/ Take \/ TakeDone
Run(t) ==
    \/ (\E e \in Entities : Create(t, e) \/ Destroy(t, e)) \/ DestroyNode(t) \/ NextToDestroy(t)
    \/ Appends(t) \/ Announces(t) \/ Tests(t) \/ Marks(t) \/ Removes(t) \/ Wakes(t) \/ Releases(t)
Next == Spin \/ \E t \in Threads : Run(t)
Spec == Init /\ [][Next]_vars

-------------------------------------------------------------------------------
\* A thread that is still to wake the executor for what it did to the lists:
\* what is between is what no other thread can make it leave out.
StillToWake(t) ==
    \/ At(t, {"announce", "append event", "announce event", "remove event", "wake"})
    \/ At(t, {"release"}) /\ WakesLast(doing[t].on)

\* An executor that blocks waits for exactly the entities of the node: for one
\* it has missed, or holds though it left the lists, it has been woken, or some
\* thread is still to wake it.
WaitSetIsCurrent ==
    at = "wait" /\ ~wake => Held = ToSet(list) \/ \E t \in Threads : StillToWake(t)

\* The rcl object behind a handle is gone exactly if its destruction was
\* requested and nobody is inside the handle any more; and an executor that
\* blocks with a handle to be destroyed in its wait set will be woken.
HandlesGoWhenUnused == \A x \in Destroyables :
    /\ x \in freed <=> x \in asked /\ users[x] = {}
    /\ x \in asked /\ x \in Held /\ at = "wait" /\ ~wake => \E t \in Threads : StillToWake(t)
=============================================================================
