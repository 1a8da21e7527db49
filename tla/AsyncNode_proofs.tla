--------------------------- MODULE AsyncNode_proofs ---------------------------
(***************************************************************************)
(* Proofs about the asyncio node: no read loop sleeps on a message, and    *)
(* nothing of a node outlives its block (AsyncNode); and about time on its *)
(* loop: no sleep is too short (AsyncTime). For any entities, messages,    *)
(* calls and sleepers, and wherever the middleware thread comes between    *)
(* two steps.                                                              *)
(***************************************************************************)
EXTENDS MCLoops, TLAPS

Labels == {"none", "start", "take", "clear", "wait", "handle", "failed", "ended"}

TypeOK ==
    /\ node \in {"created", "entered", "aborting", "closing", "exited"}
    /\ at \in [Entities -> Labels]
    /\ loop \in Entities \cup {None}
    /\ queue \in [Entities -> SUBSET (Messages \cup Calls)]
    /\ running \in [Entities -> SUBSET (Messages \cup Calls)]
    /\ future \in [Calls -> {"none", "pending", "done", "cancelled"}]
    /\ entities \in SUBSET Entities /\ pending \in SUBSET Calls

(* A task that takes or clears is the step in progress, and no other is.   *)
LoopIsAtStep == \A e \in Entities : loop = e <=> at[e] \in {"take", "clear"}

(* What arrives after the last take and before the event is cleared is     *)
(* still scheduled then.                                                   *)
ArrivalIsScheduled == \A e \in Entities :
    at[e] = "clear" /\ queue[e] # {} /\ e \in listening => e \in scheduled

(* A task that was not cancelled has its entity in the node; callbacks run *)
(* in tasks; the middleware calls back into entities of the node only.     *)
TasksHaveEntities ==
    /\ \A e \in Entities : HasTask(e) /\ e \notin cancelled => e \in entities
    /\ \A e \in Entities : running[e] # {} => HasTask(e)
    /\ listening \subseteq entities

(* An undecided call can still be cancelled with its client.               *)
CallsHaveClient == \A c \in Calls : future[c] = "pending" => c \in pending /\ Client \in entities

NodeStages ==
    /\ node = "created" => \A e \in Entities : ~HasTask(e)
    /\ node \in {"closing", "exited"} => entities = {}
    /\ node = "exited" => \A e \in Entities : ~HasTask(e)

IInv ==
    /\ TypeOK /\ LoopIsAtStep /\ ArrivalIsScheduled /\ NoMessageForgotten
    /\ TasksHaveEntities /\ CallsHaveClient /\ NodeStages

-----------------------------------------------------------------------------
LEMMA InitIInv == Init => IInv
BY NoneAssumption DEF Init, IInv, TypeOK, LoopIsAtStep, ArrivalIsScheduled, NoMessageForgotten,
   TasksHaveEntities, CallsHaveClient, NodeStages, HasTask, Labels

(* What destroys entities preserves what concerns the calls.               *)
LEMMA DestroyCalls ==
    ASSUME TypeOK, CallsHaveClient, NEW es \in SUBSET Entities, Destroy(es), pending' = pending
    PROVE  /\ future' \in [Calls -> {"none", "pending", "done", "cancelled"}]
           /\ CallsHaveClient'
BY DEF TypeOK, CallsHaveClient, Destroy, Cancelled

LEMMA CreateIInv ==
    ASSUME IInv, NEW e \in Entities, create(e)
    PROVE  IInv'
<1>1. TypeOK'
  BY DEF create, IInv, TypeOK, Labels, calls, wakeup
<1>2. LoopIsAtStep' /\ ArrivalIsScheduled' /\ NoMessageForgotten'
  BY NoneAssumption DEF create, IInv, TypeOK, LoopIsAtStep, ArrivalIsScheduled, NoMessageForgotten, wakeup
<1>3. TasksHaveEntities'
  BY DEF create, IInv, TypeOK, TasksHaveEntities, NodeStages, HasTask
<1>4. CallsHaveClient' /\ NodeStages'
  BY DEF create, IInv, TypeOK, CallsHaveClient, NodeStages, HasTask, calls
<1> QED
  BY <1>1, <1>2, <1>3, <1>4 DEF IInv

LEMMA EnterIInv == IInv /\ aenter => IInv'
<1> SUFFICES ASSUME IInv, aenter PROVE IInv'
  OBVIOUS
<1>1. TypeOK'
  BY DEF aenter, IInv, TypeOK, Labels, calls, wakeup
<1>2. LoopIsAtStep' /\ ArrivalIsScheduled' /\ NoMessageForgotten'
  BY NoneAssumption DEF aenter, IInv, TypeOK, LoopIsAtStep, ArrivalIsScheduled, NoMessageForgotten, wakeup
<1>3. TasksHaveEntities'
  BY DEF aenter, IInv, TypeOK, TasksHaveEntities, HasTask
<1>4. CallsHaveClient' /\ NodeStages'
  BY DEF aenter, IInv, TypeOK, CallsHaveClient, NodeStages, calls
<1> QED
  BY <1>1, <1>2, <1>3, <1>4 DEF IInv

LEMMA DestroyIInv ==
    ASSUME IInv, (\E e \in Entities : destroy(e)) \/ destroy_node \/ leave
    PROVE  IInv'
<1>1. PICK es \in SUBSET Entities :
          /\ Destroy(es) /\ cancelled' = cancelled \cup {x \in es : HasTask(x)}
          /\ UNCHANGED <<at, loop, queue, scheduled, readEvent, running, pending>>
          /\ node' = node \/ (node' = "closing" /\ es = entities)
  BY DEF destroy, destroy_node, leave, DestroyNode, wakeup, IInv, TypeOK
<1>2. TypeOK' /\ CallsHaveClient'
  BY <1>1, DestroyCalls DEF IInv, TypeOK, Destroy
<1>3. LoopIsAtStep' /\ ArrivalIsScheduled' /\ NoMessageForgotten'
  BY <1>1 DEF Destroy, IInv, LoopIsAtStep, ArrivalIsScheduled, NoMessageForgotten
<1>4. TasksHaveEntities'
  BY <1>1 DEF Destroy, IInv, TasksHaveEntities, HasTask
<1>5. NodeStages'
  BY <1>1 DEF Destroy, IInv, NodeStages, HasTask
<1> QED
  BY <1>2, <1>3, <1>4, <1>5 DEF IInv

LEMMA ExitIInv == IInv /\ aexit => IInv'
BY DEF aexit, wakeup, calls, IInv, TypeOK, LoopIsAtStep, ArrivalIsScheduled, NoMessageForgotten,
   TasksHaveEntities, CallsHaveClient, NodeStages, HasTask

(* A task goes on.                                                         *)
LEMMA StepIInv ==
    ASSUME IInv, NEW e \in Entities, Start(e) \/ Wake(e) \/ CallbackEnds(e)
    PROVE  IInv'
<1>1. /\ loop = None /\ loop' = e /\ e \notin cancelled
      /\ at[e] \in {"start", "wait", "handle"}
      /\ at' = [at EXCEPT ![e] = "take"]
      /\ listening \subseteq listening' /\ listening' \subseteq listening \cup {e}
      /\ \A x \in Entities : running'[x] = running[x] \/ running'[x] = {}
      /\ running' \in [Entities -> SUBSET (Messages \cup Calls)]
      /\ UNCHANGED <<node, entities, cancelled, queue, scheduled, readEvent, future, pending>>
  BY DEF Start, Wake, CallbackEnds, Step, owner, wakeup, calls, IInv, TypeOK
<1>2. TypeOK'
  BY <1>1 DEF IInv, TypeOK, Labels
<1>3. LoopIsAtStep'
  BY <1>1, NoneAssumption DEF IInv, TypeOK, LoopIsAtStep
<1>4. ArrivalIsScheduled' /\ NoMessageForgotten'
  BY <1>1 DEF IInv, TypeOK, ArrivalIsScheduled, NoMessageForgotten
<1>5. TasksHaveEntities'
  BY <1>1 DEF IInv, TypeOK, TasksHaveEntities, HasTask
<1>6. CallsHaveClient' /\ NodeStages'
  BY <1>1 DEF IInv, TypeOK, CallsHaveClient, NodeStages, HasTask
<1> QED
  BY <1>2, <1>3, <1>4, <1>5, <1>6 DEF IInv

LEMMA TakeIInv ==
    ASSUME IInv, NEW e \in Entities, Take(e)
    PROVE  IInv'
<1>1. /\ loop = e /\ at[e] = "take"
      /\ UNCHANGED <<node, entities, cancelled, listening, scheduled, readEvent>>
  BY DEF Take, owner
<1>2. CASE \E m \in queue[e] : e # Client /\ TakeMessage(e, m)
                               /\ queue' = [queue EXCEPT ![e] = @ \ {m}]
  <2>1. /\ UNCHANGED <<future, pending>>
        /\ \/ loop' = None /\ at' = [at EXCEPT ![e] = "handle"]
           \/ UNCHANGED <<at, loop>>
    BY <1>2 DEF TakeMessage, calls
  <2>2. \A x \in Entities : x # e => running'[x] = running[x] /\ queue'[x] = queue[x]
    BY <1>2 DEF TakeMessage, IInv, TypeOK
  <2>3. TypeOK'
    BY <1>1, <1>2, <2>1 DEF TakeMessage, IInv, TypeOK, Labels
  <2>4. LoopIsAtStep'
    BY <1>1, <2>1, NoneAssumption DEF IInv, TypeOK, LoopIsAtStep
  <2>5. ArrivalIsScheduled' /\ NoMessageForgotten'
    BY <1>1, <2>1, <2>2 DEF IInv, TypeOK, ArrivalIsScheduled, NoMessageForgotten
  <2>6. TasksHaveEntities'
    BY <1>1, <2>1, <2>2 DEF IInv, TypeOK, TasksHaveEntities, HasTask
  <2>7. CallsHaveClient' /\ NodeStages'
    BY <1>1, <2>1 DEF IInv, TypeOK, CallsHaveClient, NodeStages, HasTask
  <2> QED
    BY <2>3, <2>4, <2>5, <2>6, <2>7 DEF IInv
<1>3. CASE \E m \in queue[e] : e = Client /\ TakeResponse(m)
                               /\ queue' = [queue EXCEPT ![e] = @ \ {m}]
  <2>1. /\ UNCHANGED <<pending, running>>
        /\ \/ loop' = None /\ at' = [at EXCEPT ![e] = "failed"]
           \/ UNCHANGED <<at, loop>>
        /\ future' \in [Calls -> {"none", "pending", "done", "cancelled"}]
        /\ \A c \in Calls : future'[c] = "pending" => future[c] = "pending"
    BY <1>3 DEF TakeResponse, IInv, TypeOK
  <2>2. \A x \in Entities : x # e => queue'[x] = queue[x]
    BY <1>3 DEF IInv, TypeOK
  <2>3. TypeOK'
    BY <1>1, <1>3, <2>1 DEF IInv, TypeOK, Labels
  <2>4. LoopIsAtStep'
    BY <1>1, <2>1, NoneAssumption DEF IInv, TypeOK, LoopIsAtStep
  <2>5. ArrivalIsScheduled' /\ NoMessageForgotten'
    BY <1>1, <2>1, <2>2 DEF IInv, TypeOK, ArrivalIsScheduled, NoMessageForgotten
  <2>6. TasksHaveEntities'
    BY <1>1, <2>1 DEF IInv, TypeOK, TasksHaveEntities, HasTask
  <2>7. CallsHaveClient' /\ NodeStages'
    BY <1>1, <2>1 DEF IInv, TypeOK, CallsHaveClient, NodeStages, HasTask
  <2> QED
    BY <2>3, <2>4, <2>5, <2>6, <2>7 DEF IInv
<1>4. CASE queue[e] = {} /\ at' = [at EXCEPT ![e] = "clear"]
           /\ UNCHANGED <<queue, loop, running, future, pending>>
  BY <1>1, <1>4 DEF IInv, TypeOK, Labels, LoopIsAtStep, ArrivalIsScheduled, NoMessageForgotten,
     TasksHaveEntities, CallsHaveClient, NodeStages, HasTask
<1> QED
  BY <1>2, <1>3, <1>4 DEF Take, calls

LEMMA ClearIInv ==
    ASSUME IInv, NEW e \in Entities, Clear(e)
    PROVE  IInv'
<1>1. /\ loop = e /\ at[e] = "clear" /\ loop' = None
      /\ at' = [at EXCEPT ![e] = "wait"] /\ readEvent' = readEvent \ {e}
      /\ UNCHANGED <<node, entities, cancelled, listening, queue, scheduled, running, future, pending>>
  BY DEF Clear, owner, calls
<1>2. TypeOK' /\ LoopIsAtStep'
  BY <1>1, NoneAssumption DEF IInv, TypeOK, Labels, LoopIsAtStep
<1>3. ArrivalIsScheduled' /\ NoMessageForgotten'
  BY <1>1 DEF IInv, TypeOK, ArrivalIsScheduled, NoMessageForgotten
<1>4. TasksHaveEntities' /\ CallsHaveClient' /\ NodeStages'
  BY <1>1 DEF IInv, TypeOK, TasksHaveEntities, CallsHaveClient, NodeStages, HasTask
<1> QED
  BY <1>2, <1>3, <1>4 DEF IInv

(* A delivery, at any moment, and its callback in the loop.                *)
LEMMA ArriveIInv ==
    ASSUME IInv, NEW e \in Entities, NEW m \in Messages \cup Calls, Arrive(e, m)
    PROVE  IInv'
<1>1. /\ queue' = [queue EXCEPT ![e] = @ \cup {m}]
      /\ scheduled' = IF e \in listening THEN scheduled \cup {e} ELSE scheduled
      /\ UNCHANGED <<node, entities, cancelled, listening, at, loop, running, readEvent, future, pending>>
  BY DEF Arrive, OnNew, owner, calls
<1>2. TypeOK'
  BY <1>1 DEF IInv, TypeOK
<1>3. ArrivalIsScheduled' /\ NoMessageForgotten'
  BY <1>1 DEF IInv, TypeOK, ArrivalIsScheduled, NoMessageForgotten
<1> QED
  BY <1>1, <1>2, <1>3 DEF IInv, LoopIsAtStep, TasksHaveEntities, CallsHaveClient, NodeStages, HasTask

LEMMA RunScheduledIInv ==
    ASSUME IInv, NEW e \in Entities, RunScheduled(e)
    PROVE  IInv'
<1>1. /\ loop = None /\ scheduled' = scheduled \ {e} /\ readEvent' = readEvent \cup {e}
      /\ UNCHANGED <<node, entities, cancelled, listening, at, loop, queue, running, future, pending>>
  BY DEF RunScheduled, owner, calls
<1>2. \A x \in Entities : at[x] # "clear"
  BY <1>1, NoneAssumption DEF IInv, LoopIsAtStep
<1> QED
  BY <1>1, <1>2 DEF IInv, TypeOK, LoopIsAtStep, ArrivalIsScheduled, NoMessageForgotten,
     TasksHaveEntities, CallsHaveClient, NodeStages, HasTask

(* The ends of callbacks and of read loops.                                *)
LEMMA CallbackIInv ==
    ASSUME IInv, NEW e \in Entities, ConcurrentEnds(e) \/ CallbackFails(e)
    PROVE  IInv'
<1>1. /\ loop = None /\ running[e] # {}
      /\ at' = at \/ at' = [at EXCEPT ![e] = "failed"]
      /\ UNCHANGED <<node, entities, cancelled, listening, loop, queue, scheduled, readEvent, future, pending>>
      /\ running' \in [Entities -> SUBSET (Messages \cup Calls)]
      /\ \A x \in Entities : running'[x] \subseteq running[x]
  BY DEF ConcurrentEnds, CallbackFails, owner, wakeup, calls, IInv, TypeOK
<1>2. /\ \A x \in Entities : at'[x] = at[x] \/ (x = e /\ at'[x] = "failed")
      /\ at' \in [Entities -> Labels]
  BY <1>1 DEF IInv, TypeOK, Labels
<1>3. TypeOK' /\ LoopIsAtStep' /\ ArrivalIsScheduled' /\ NoMessageForgotten'
  BY <1>1, <1>2, NoneAssumption DEF IInv, TypeOK, LoopIsAtStep, ArrivalIsScheduled, NoMessageForgotten
<1>4. \A x \in Entities : HasTask(x)' <=> HasTask(x)
  BY <1>1, <1>2 DEF IInv, TasksHaveEntities, HasTask
<1>5. TasksHaveEntities'
  BY <1>1, <1>4 DEF IInv, TasksHaveEntities
<1>6. CallsHaveClient' /\ NodeStages'
  BY <1>1, <1>4 DEF IInv, CallsHaveClient, NodeStages
<1> QED
  BY <1>3, <1>5, <1>6 DEF IInv

LEMMA EndOfRunIInv ==
    ASSUME IInv, NEW e \in Entities, EndOfRun(e)
    PROVE  IInv'
<1>1. PICK es \in SUBSET {e} : Destroy(es)
  BY DEF EndOfRun
<1>2. /\ loop = None /\ HasTask(e)
      /\ at' = [at EXCEPT ![e] = "ended"] /\ running' = [running EXCEPT ![e] = {}]
      /\ UNCHANGED <<loop, queue, scheduled, readEvent, pending>>
      /\ cancelled \ {e} \subseteq cancelled'
      /\ node' = node \/ (node = "entered" /\ node' = "aborting")
  BY DEF EndOfRun, wakeup, HasTask
<1>3. /\ entities' = entities \ es /\ listening' = listening \ es
  BY <1>1 DEF Destroy
<1>4. TypeOK' /\ CallsHaveClient'
  BY <1>1, <1>2, <1>3, DestroyCalls DEF IInv, TypeOK, Labels
<1>5. LoopIsAtStep'
  BY <1>2, NoneAssumption DEF IInv, TypeOK, LoopIsAtStep
<1>6. ArrivalIsScheduled' /\ NoMessageForgotten'
  BY <1>2, <1>3 DEF IInv, TypeOK, ArrivalIsScheduled, NoMessageForgotten
<1>7. \A x \in Entities : HasTask(x)' <=> HasTask(x) /\ x # e
  BY <1>2 DEF IInv, TypeOK, HasTask
<1>8. TasksHaveEntities'
  BY <1>2, <1>3, <1>7 DEF IInv, TypeOK, TasksHaveEntities
<1>9. NodeStages'
  BY <1>2, <1>3, <1>7 DEF IInv, NodeStages
<1> QED
  BY <1>4, <1>5, <1>6, <1>8, <1>9 DEF IInv

LEMMA CallIInv ==
    ASSUME IInv, NEW c \in Calls, call(c) \/ TimeOut(c) \/ Return(c)
    PROVE  IInv'
<1>1. UNCHANGED <<node, entities, cancelled, listening, at, loop, queue, scheduled, readEvent, running>>
  BY DEF call, TimeOut, Return, owner, wakeup
<1>2. TypeOK' /\ CallsHaveClient'
  BY <1>1 DEF call, TimeOut, Return, IInv, TypeOK, CallsHaveClient
<1> QED
  BY <1>1, <1>2 DEF IInv, LoopIsAtStep, ArrivalIsScheduled, NoMessageForgotten, TasksHaveEntities,
     NodeStages, HasTask

-----------------------------------------------------------------------------
LEMMA NextIInv == IInv /\ [Next]_vars => IInv'
<1> SUFFICES ASSUME IInv, [Next]_vars PROVE IInv'
  OBVIOUS
<1>1. CASE UNCHANGED vars
  BY <1>1 DEF vars, IInv, TypeOK, LoopIsAtStep, ArrivalIsScheduled, NoMessageForgotten,
     TasksHaveEntities, CallsHaveClient, NodeStages, HasTask
<1> QED
  BY <1>1, CreateIInv, EnterIInv, DestroyIInv, ExitIInv, StepIInv, TakeIInv, ClearIInv, ArriveIInv,
     RunScheduledIInv, CallbackIInv, EndOfRunIInv, CallIInv DEF Next, Loop

(* The invariant holds in every reachable state.                           *)
THEOREM Invariance == Spec => []IInv
<1> QED
  BY InitIInv, NextIInv, PTL DEF Spec

(* A message that comes at any moment of a read loop, between the last     *)
(* take and the clearing of the event too, wakes it.                       *)
THEOREM ArrivalWakes == Spec => []NoMessageForgotten
<1>1. IInv => NoMessageForgotten
  BY DEF IInv
<1> QED
  BY <1>1, Invariance, PTL

(* However its tasks ended, by destruction, cancellation or failure, a     *)
(* node that was left has no entity, task, callback or undecided call.     *)
THEOREM LeftForGood == Spec => []NothingOutlivesTheNode
<1>1. IInv => NothingOutlivesTheNode
  BY DEF IInv, TasksHaveEntities, CallsHaveClient, NodeStages, NothingOutlivesTheNode
<1> QED
  BY <1>1, Invariance, PTL

-----------------------------------------------------------------------------
(* Time on the loop. The part of the state the sleeps depend on.           *)
Sleeping == [at : {"awake", "pending", "resolved", "changed", "cancelled", "slept", "raised"},
             sim : BOOLEAN, target : Nat]
TimeTypeOK ==
    /\ wall \in Nat /\ sim \in Nat /\ ros \in BOOLEAN
    /\ canceled \in BOOLEAN /\ resetEvent \in BOOLEAN
    /\ sleep \in [Sleepers -> Sleeping]

(* Only a jump of the clock resolves a sleep on simulated time, and that   *)
(* clock never goes back: the coroutine may go on without a second look.   *)
ResolvedInTime == \A s \in Sleepers :
    sleep[s].at = "resolved" /\ sleep[s].sim => sim >= sleep[s].target

TInv == TimeTypeOK /\ ResolvedInTime /\ Time!SleepsLongEnough

(* Time only passes: what was reached stays reached.                       *)
LEMMA TimePasses ==
    ASSUME TInv, wall' \in Nat, sim' \in Nat, wall' >= wall, sim' >= sim,
           NEW s \in Sleepers, sleep'[s] = sleep[s]
    PROVE  /\ (sleep[s].at = "resolved" /\ sleep[s].sim => sim >= sleep[s].target)'
           /\ (sleep[s].at = "slept" => Time!NowOn(sleep[s].sim) >= sleep[s].target)'
<1>1. sleep[s].target \in Nat /\ sleep[s].sim \in BOOLEAN
  BY DEF TInv, TimeTypeOK, Sleeping
<1> QED
  BY <1>1 DEF TInv, TimeTypeOK, ResolvedInTime, Time!SleepsLongEnough, Time!NowOn

(* A sleep that neither is resolved nor has returned promises nothing.     *)
LEMMA SleepsOn ==
    ASSUME NEW s \in Sleepers, sleep'[s].at \notin {"resolved", "slept"}
    PROVE  /\ (sleep[s].at = "resolved" /\ sleep[s].sim => sim >= sleep[s].target)'
           /\ (sleep[s].at = "slept" => Time!NowOn(sleep[s].sim) >= sleep[s].target)'
OBVIOUS

(* A step of the timer task leaves the clocks and the sleeps alone.        *)
LEMMA TimerTaskTInv ==
    ASSUME TInv, \/ Time!Wait \/ Time!Fire \/ Time!AfterWait \/ Time!Unblock \/ Time!CallbackEnds
                 \/ Time!cancel \/ Time!reset
    PROVE  TInv'
<1>1. TimeTypeOK' /\ UNCHANGED <<wall, sim, ros, sleep>>
  BY DEF TInv, TimeTypeOK, Time!Wait, Time!Fire, Time!AfterWait, Time!Unblock, Time!CallbackEnds,
     Time!cancel, Time!reset, Time!clocks, Time!task
<1>2. (taskAt = "blocked" => canceled \/ resetEvent)'
  BY DEF TInv, TimeTypeOK, Time!SleepsLongEnough, Time!Wait, Time!Fire, Time!AfterWait, Time!Unblock,
     Time!CallbackEnds, Time!cancel, Time!reset, Time!clocks, Time!task
<1>3. ResolvedInTime'
  BY <1>1 DEF TInv, ResolvedInTime
<1>4. (\A s \in Sleepers : sleep[s].at = "slept" => Time!NowOn(sleep[s].sim) >= sleep[s].target)'
  BY <1>1 DEF TInv, Time!SleepsLongEnough, Time!NowOn
<1> QED
  BY <1>1, <1>2, <1>3, <1>4 DEF TInv, Time!SleepsLongEnough

(* What a step has to show of its sleeps, when the timer task stays put.   *)
LEMMA SleepTInv ==
    ASSUME TInv, TimeTypeOK', taskAt' \in {taskAt, "ended"}, UNCHANGED <<canceled, resetEvent>>,
           \A s \in Sleepers :
              /\ (sleep[s].at = "resolved" /\ sleep[s].sim => sim >= sleep[s].target)'
              /\ (sleep[s].at = "slept" => Time!NowOn(sleep[s].sim) >= sleep[s].target)'
    PROVE  TInv'
BY DEF TInv, ResolvedInTime, Time!SleepsLongEnough

(* The steps of one coroutine that sleeps. It returns only where Resume    *)
(* has looked at the clock of the loop, or simulated time was reached.     *)
LEMMA CoroutineTInv ==
    ASSUME TInv, NEW s \in Sleepers,
           \/ Time!FireSleep(s) \/ Time!Resume(s) \/ Time!Forget(s) \/ \E d \in 1..2 : Time!Sleep(s, d)
    PROVE  TInv'
<1>1. /\ UNCHANGED <<wall, sim, ros, taskAt, canceled, resetEvent>>
      /\ \A t \in Sleepers \ {s} : sleep'[t] = sleep[t]
  BY DEF TInv, TimeTypeOK, Time!FireSleep, Time!Resume, Time!Forget, Time!Sleep, Time!clocks, Time!task
<1>2. \A d \in 1..2 : Time!NowOn(ros) + d \in Nat
  BY DEF TInv, TimeTypeOK, Time!NowOn
<1>3. TimeTypeOK'
  <2>1. \E r \in Sleeping : sleep' = [sleep EXCEPT ![s] = r]
    <3>1. sleep[s] \in Sleeping
      BY DEF TInv, TimeTypeOK
    <3>2. CASE Time!FireSleep(s)
      BY <3>1, <3>2 DEF Time!FireSleep, Sleeping
    <3>3. CASE Time!Resume(s)
      <4>1. CASE sleep[s].at = "resolved" /\ ~sleep[s].sim /\ wall < sleep[s].target
        BY <3>1, <3>3, <4>1 DEF Time!Resume, Sleeping
      <4>2. CASE ~(sleep[s].at = "resolved" /\ ~sleep[s].sim /\ wall < sleep[s].target)
        BY <3>1, <3>3, <4>2 DEF Time!Resume, Sleeping
      <4> QED
        BY <4>1, <4>2
    <3>4. CASE Time!Forget(s)
      BY <3>4 DEF Time!Forget, Time!Awake, Sleeping
    <3>5. ASSUME NEW d \in 1..2, Time!Sleep(s, d) PROVE \E r \in Sleeping : sleep' = [sleep EXCEPT ![s] = r]
      BY <1>2, <3>5 DEF TInv, TimeTypeOK, Time!Sleep, Time!Now, Sleeping
    <3> QED
      BY <3>2, <3>3, <3>4, <3>5
  <2> QED
    BY <1>1, <2>1 DEF TInv, TimeTypeOK
<1>4. /\ (sleep[s].at = "resolved" /\ sleep[s].sim => sim >= sleep[s].target)'
      /\ (sleep[s].at = "slept" => Time!NowOn(sleep[s].sim) >= sleep[s].target)'
  <2>1. CASE Time!FireSleep(s)
    BY <1>1, <2>1 DEF TInv, TimeTypeOK, Sleeping, Time!FireSleep
  <2>2. CASE Time!Resume(s)
    <3>1. sleep[s] \in Sleeping /\ sleep[s].target \in Nat /\ wall \in Nat /\ sim \in Nat
      BY DEF TInv, TimeTypeOK, Sleeping
    <3>2. CASE sleep[s].at = "resolved" /\ ~sleep[s].sim /\ wall < sleep[s].target
      <4>1. sleep'[s].at \in {"cancelled", "pending"}
        BY <2>2, <3>1, <3>2 DEF TInv, TimeTypeOK, Sleeping, Time!Resume
      <4> QED
        BY <4>1
    <3>3. CASE sleep[s].at = "resolved" /\ (sleep[s].sim \/ ~(wall < sleep[s].target))
      <4>1. sleep'[s].sim = sleep[s].sim /\ sleep'[s].target = sleep[s].target /\ sleep'[s].at = "slept"
        BY <2>2, <3>1, <3>3 DEF TInv, TimeTypeOK, Sleeping, Time!Resume
      <4>2. Time!NowOn(sleep[s].sim) >= sleep[s].target
        BY <3>1, <3>3 DEF TInv, ResolvedInTime, Time!NowOn
      <4> QED
        BY <1>1, <4>1, <4>2 DEF Time!NowOn
    <3>4. CASE sleep[s].at # "resolved"
      <4>1. sleep'[s].at = "raised"
        BY <2>2, <3>1, <3>4 DEF TInv, TimeTypeOK, Sleeping, Time!Resume
      <4> QED
        BY <4>1
    <3> QED
      BY <3>2, <3>3, <3>4
  <2>3. CASE Time!Forget(s)
    BY <1>1, <2>3 DEF TInv, TimeTypeOK, Sleeping, Time!Forget, Time!Awake
  <2>4. CASE \E d \in 1..2 : Time!Sleep(s, d)
    BY <1>1, <2>4 DEF TInv, TimeTypeOK, Sleeping, Time!Sleep
  <2> QED
    BY <2>1, <2>2, <2>3, <2>4
<1>5. \A t \in Sleepers \ {s} :
         /\ (sleep[t].at = "resolved" /\ sleep[t].sim => sim >= sleep[t].target)'
         /\ (sleep[t].at = "slept" => Time!NowOn(sleep[t].sim) >= sleep[t].target)'
  BY <1>1, TimePasses DEF TInv, TimeTypeOK
<1> QED
  BY <1>1, <1>3, <1>4, <1>5, SleepTInv

(* A jump of the clock resolves the sleeps it reaches.                     *)
LEMMA ClockMessageTInv == ASSUME TInv, Time!ClockMessage PROVE TInv'
<1>1. /\ sim' = sim + 1 /\ UNCHANGED <<wall, ros, taskAt, canceled, resetEvent>>
      /\ \A s \in Sleepers :
            \/ sleep'[s] = sleep[s]
            \/ sim' >= sleep[s].target /\ sleep'[s] = [sleep[s] EXCEPT !.at = "resolved"]
  BY DEF Time!ClockMessage
<1>2. TimeTypeOK'
  BY <1>1 DEF TInv, TimeTypeOK, Sleeping, Time!ClockMessage
<1>3. ASSUME NEW s \in Sleepers
      PROVE  /\ (sleep[s].at = "resolved" /\ sleep[s].sim => sim >= sleep[s].target)'
             /\ (sleep[s].at = "slept" => Time!NowOn(sleep[s].sim) >= sleep[s].target)'
  <2>1. CASE sleep'[s] = sleep[s]
    BY <1>1, <2>1, TimePasses DEF TInv, TimeTypeOK
  <2>2. CASE sim' >= sleep[s].target /\ sleep'[s] = [sleep[s] EXCEPT !.at = "resolved"]
    BY <2>2 DEF TInv, TimeTypeOK, Sleeping
  <2> QED
    BY <1>1, <2>1, <2>2
<1> QED
  BY <1>1, <1>2, <1>3, SleepTInv

(* A change of the source of time and the end of the node raise in the     *)
(* sleeps that are pending; wall time passes for all of them.              *)
LEMMA TimeOutsideTInv ==
    ASSUME TInv, Time!TimeSourceChanges \/ Time!destroy_node \/ Time!WallTime
    PROVE  TInv'
<1>1. /\ wall' \in Nat /\ wall' >= wall /\ sim' = sim /\ UNCHANGED <<canceled, resetEvent>>
      /\ taskAt' \in {taskAt, "ended"}
      /\ \A s \in Sleepers : sleep'[s] = sleep[s] \/ sleep'[s].at \in {"changed", "cancelled"}
  <2>1. \A s \in Sleepers, w \in {"changed", "cancelled"} : [sleep[s] EXCEPT !.at = w].at = w
    BY DEF TInv, TimeTypeOK, Sleeping
  <2>2. CASE Time!TimeSourceChanges
    BY <2>1, <2>2 DEF TInv, TimeTypeOK, Time!TimeSourceChanges
  <2>3. CASE Time!destroy_node
    BY <2>1, <2>3 DEF TInv, TimeTypeOK, Time!destroy_node, Time!clocks
  <2>4. CASE Time!WallTime
    BY <2>4 DEF TInv, TimeTypeOK, Time!WallTime, Time!task
  <2> QED
    BY <2>2, <2>3, <2>4
<1>2. TimeTypeOK'
  <2>1. sleep' \in [Sleepers -> Sleeping]
    <3>1. \A s \in Sleepers : sleep[s] \in Sleeping
      BY DEF TInv, TimeTypeOK
    <3>2. \A s \in Sleepers, w \in {"changed", "cancelled"} : [sleep[s] EXCEPT !.at = w] \in Sleeping
      BY <3>1 DEF Sleeping
    <3> QED
      BY <3>1, <3>2 DEF TInv, TimeTypeOK, Time!TimeSourceChanges, Time!destroy_node, Time!WallTime
  <2>2. sim' \in Nat /\ ros' \in BOOLEAN
    BY DEF TInv, TimeTypeOK, Time!TimeSourceChanges, Time!destroy_node, Time!WallTime, Time!clocks
  <2> QED
    BY <1>1, <2>1, <2>2 DEF TInv, TimeTypeOK
<1> QED
  BY <1>1, <1>2, TimePasses, SleepsOn, SleepTInv, SMT DEF TInv, TimeTypeOK

(* Time and the sleeps of a loop: the invariant in every reachable state.  *)

THEOREM TimeInvariance == Time!Spec => []TInv
<1>1. Time!Init => TInv
  <2> SUFFICES ASSUME Time!Init PROVE TInv
    OBVIOUS
  <2>1. TimeTypeOK
    BY DEF Time!Init, Time!Awake, TimeTypeOK, Sleeping
  <2>2. ResolvedInTime /\ Time!SleepsLongEnough
    BY DEF Time!Init, Time!Awake, ResolvedInTime, Time!SleepsLongEnough
  <2> QED
    BY <2>1, <2>2 DEF TInv
<1>2. TInv /\ [Time!Next]_Time!vars => TInv'
  <2> SUFFICES ASSUME TInv, [Time!Next]_Time!vars PROVE TInv'
    OBVIOUS
  <2>1. CASE Time!Next
    BY <2>1, TimerTaskTInv, CoroutineTInv, ClockMessageTInv, TimeOutsideTInv DEF Time!Next, Time!Loop
  <2>2. CASE UNCHANGED Time!vars
    <3>1. UNCHANGED <<wall, sim, ros, taskAt, canceled, resetEvent, sleep>>
      BY <2>2 DEF Time!vars
    <3> QED
      BY <3>1 DEF TInv, TimeTypeOK, ResolvedInTime, Time!SleepsLongEnough, Time!NowOn
  <2> QED
    BY <2>1, <2>2
<1> QED
  BY <1>1, <1>2, PTL DEF Time!Spec

(* A sleep on the clock of a node that returns was long enough, on the     *)
(* clock it started on, however early the loop runs its handles and        *)
(* whatever happens to the source of time; and the task of a timer sleeps  *)
(* on nothing but a cancelled timer (async_clock.py:52-120,                *)
(* async_timer.py:98-183).                                                 *)
THEOREM SleepsAreLongEnough == Time!Spec => []SleepsLongEnough
<1>1. TInv => SleepsLongEnough
  BY DEF TInv, SleepsLongEnough
<1> QED
  BY TimeInvariance, <1>1, PTL
=============================================================================
