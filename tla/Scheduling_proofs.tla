--------------------------- MODULE Scheduling_proofs ---------------------------
(***************************************************************************)
(* Proofs about what decides which work is run next. The wait-set          *)
(* executor: the mutual exclusion of callback groups, the accounts of      *)
(* handlers and events, and that it implements CallbackDispatch; for any   *)
(* entities, groups, workers and handler tasks, with or without exceptions *)
(* from the takes. And the instances of MCScheduling, which give their     *)
(* parameters names and no values: spin_until_future_complete, for any     *)
(* number of calls; futures and tasks; and the timers of an EventsExecutor,*)
(* for any period and times. A theorem about an instance states its        *)
(* property, and with it what a run checks: that property in the           *)
(* behaviours that are about the instance.                                 *)
(***************************************************************************)
EXTENDS MCScheduling, FiniteSetTheorems, SequenceTheorems, TLAPS

(* The variables that decide which callback holds which group.             *)
LEMMA OthersIInv ==
    ASSUME IInv, TypeOK', BudgetIsThere',
           UNCHANGED <<active, ready, pool, hpc, hent>>
    PROVE  IInv'
BY DEF IInv, QueuesHoldWaiters, HoldersAreActive, MutualExclusion, Holding, Exclusively

(* The queues are sequences of handlers.                                   *)
LEMMA QueueMembers ==
    ASSUME TypeOK
    PROVE  /\ Len(pool) \in Nat /\ \A i \in 1..Len(pool) : pool[i] \in Handlers
           /\ Len(ready) \in Nat /\ \A i \in 1..Len(ready) : ready[i] \in Handlers
<1>1. pool \in Seq(Handlers) /\ ready \in Seq(Handlers)
  BY DEF TypeOK
<1> QED
  BY <1>1

(* A handler that is in no queue may change its label.                     *)
LEMMA QueuesUnmoved ==
    ASSUME TypeOK, QueuesHoldWaiters, NEW h \in Handlers, NEW label,
           hpc[h] \notin {"queued", "resumable"},
           hpc' = [hpc EXCEPT ![h] = label],
           UNCHANGED <<ready, pool>>
    PROVE  QueuesHoldWaiters'
<1>1. hpc \in [Handlers -> HandlerLabels]
  BY DEF TypeOK
<1> QED
  BY <1>1, QueueMembers DEF QueuesHoldWaiters

(* A handler that goes from one label to another without entering or       *)
(* leaving its group, and without being queued, preserves the invariant.   *)
LEMMA StepIInv ==
    ASSUME IInv, TypeOK', BudgetIsThere', NEW h \in Handlers, NEW label \in HandlerLabels,
           NEW e,
           hpc[h] \notin {"queued", "resumable"},
           hpc' = [hpc EXCEPT ![h] = label],
           hent' = [hent EXCEPT ![h] = e],
           label \in {"take", "clear", "clearOnly", "notify", "notifyOnly", "run", "suspended",
                      "resumable", "end", "endOnly"} => Holding(h) /\ e = hent[h],
           UNCHANGED <<active, ready, pool>>
    PROVE  IInv'
<1>1. /\ hpc \in [Handlers -> HandlerLabels] /\ hent \in [Handlers -> Entities \cup {None}]
      /\ TypeOK /\ QueuesHoldWaiters /\ HoldersAreActive /\ MutualExclusion
  BY DEF IInv, TypeOK
<1>2. \A k \in Handlers : Holding(k)' => Holding(k) /\ hent'[k] = hent[k]
  BY <1>1 DEF Holding
<1>3. QueuesHoldWaiters'
  BY <1>1, QueuesUnmoved
<1>4. HoldersAreActive'
  BY <1>1, <1>2 DEF HoldersAreActive, Exclusively
<1>5. MutualExclusion'
  BY <1>1, <1>2 DEF MutualExclusion, Exclusively
<1> QED
  BY <1>3, <1>4, <1>5 DEF IInv

LEMMA InitIInv == Init => IInv
<1> SUFFICES ASSUME Init PROVE IInv
  OBVIOUS
<1>1. TypeOK
  <2>1. ready \in Seq(Handlers) /\ pool \in Seq(Handlers)
    BY DEF Init
  <2>2. \A h \in Handlers : hpc[h] = "free"
    BY DEF Init
  <2>3. /\ arrived \in [Entities -> Nat] /\ started \in [Guards -> Nat] /\ data \in [Sources -> Nat]
        /\ trig \in [Guards -> BOOLEAN] /\ seen \in [Guards -> BOOLEAN]
        /\ event \in [Entities -> BOOLEAN] /\ active \in [Exclusive -> Entities \cup {None}]
    BY DEF Init
  <2>4. hpc \in [Handlers -> HandlerLabels] /\ hent \in [Handlers -> Entities \cup {None}]
    BY DEF Init, HandlerLabels
  <2> QED
    BY FlagsAssumption, <2>1, <2>2, <2>3, <2>4 DEF Init, TypeOK
<1> QED
  BY <1>1 DEF Init, IInv, BudgetIsThere, QueuesHoldWaiters, HoldersAreActive, MutualExclusion,
     Holding

-----------------------------------------------------------------------------
(* The outside world *)

LEMMA ArriveIInv == ASSUME IInv, NEW e \in Entities, Arrive(e) PROVE IInv'
<1>1. TypeOK' /\ BudgetIsThere' /\ UNCHANGED <<active, ready, pool, hpc, hent>>
  <2>0. TypeOK /\ BudgetIsThere
    BY DEF IInv
  <2>1. /\ BudgetIsThere' /\ UNCHANGED <<active, ready, pool, hpc, hent>>
        /\ UNCHANGED <<started, raised, wake, event, seen, spinVars>>
    BY <2>0 DEF BudgetIsThere, Arrive, spinVars
  <2>2. arrived' \in [Entities -> Nat] /\ data' \in [Sources -> Nat] /\ trig' \in [Guards -> BOOLEAN]
    <3>1. arrived \in [Entities -> Nat] /\ data \in [Sources -> Nat] /\ trig \in [Guards -> BOOLEAN]
      BY <2>0 DEF TypeOK
    <3>2. arrived' = [arrived EXCEPT ![e] = arrived[e] + 1]
      BY DEF Arrive
    <3>3. CASE e \in Sources /\ data' = [data EXCEPT ![e] = data[e] + 1] /\ UNCHANGED trig
      BY <3>1, <3>2, <3>3
    <3>4. CASE e \in Guards /\ trig' = [trig EXCEPT ![e] = TRUE] /\ UNCHANGED data
      BY <3>1, <3>2, <3>4
    <3> QED
      BY <3>3, <3>4 DEF Arrive
  <2> QED
    BY <2>0, <2>1, <2>2 DEF TypeOK, spinVars
<1> QED
  BY <1>1, OthersIInv

LEMMA VanishIInv == ASSUME IInv, NEW e \in Sources, Vanish(e) PROVE IInv'
<1>1. TypeOK' /\ BudgetIsThere' /\ UNCHANGED <<active, ready, pool, hpc, hent>>
  BY DEF IInv, TypeOK, BudgetIsThere, Vanish, spinVars
<1> QED
  BY <1>1, OthersIInv

LEMMA AwaitedIInv == ASSUME IInv, NEW h \in Handlers, AwaitedIsDone(h) PROVE IInv'
<1> USE DEF IInv
<1>1. TypeOK'
  BY DEF TypeOK, AwaitedIsDone, workVars, spinVars, HandlerLabels
<1>2. BudgetIsThere'
  BY DEF TypeOK, AwaitedIsDone, BudgetIsThere, spinVars
<1>3. QueuesHoldWaiters'
  <2>1. /\ ready \in Seq(Handlers) /\ hpc \in [Handlers -> HandlerLabels]
        /\ TypeOK /\ QueuesHoldWaiters
    BY DEF TypeOK
  <2>2. /\ \A i \in 1..Len(pool) : pool[i] \in Handlers /\ pool[i] # h
        /\ \A i \in 1..Len(ready) : ready[i] \in Handlers /\ ready[i] # h
    BY <2>1, QueueMembers DEF QueuesHoldWaiters, AwaitedIsDone
  <2>3. /\ Len(ready') = Len(ready) + 1 /\ ready'[Len(ready) + 1] = h
        /\ \A i \in 1..Len(ready) : ready'[i] = ready[i]
        /\ Len(ready) \in Nat
    BY <2>1 DEF AwaitedIsDone
  <2> HIDE DEF IInv
  <2> QED
    BY <2>1, <2>2, <2>3 DEF AwaitedIsDone, QueuesHoldWaiters
<1>4. HoldersAreActive'
  BY DEF HoldersAreActive, AwaitedIsDone, Holding, Exclusively, TypeOK
<1>5. MutualExclusion'
  BY DEF MutualExclusion, AwaitedIsDone, Holding, Exclusively, TypeOK
<1> QED
  BY <1>1, <1>2, <1>3, <1>4, <1>5

-----------------------------------------------------------------------------
(* The spinner *)

LEMMA SpinnerIInv == ASSUME IInv, Spinner PROVE IInv'
<1> USE DEF IInv
<1>1. CASE CountReadyTasks
  <2>1. TypeOK' /\ BudgetIsThere'
    BY <1>1 DEF CountReadyTasks, TypeOK, BudgetIsThere, workVars
  <2> QED
    BY <1>1, <2>1, OthersIInv DEF CountReadyTasks
<1>2. CASE YieldReadyTask
  <2>1. ready # <<>> /\ Head(ready) \in Handlers /\ Head(ready) = ready[1]
    BY <1>2 DEF YieldReadyTask, TypeOK, BudgetIsThere
  <2>2. TypeOK'
    BY <1>2, <2>1 DEF YieldReadyTask, TypeOK, workVars
  <2>3. BudgetIsThere'
    BY <1>2, <2>1 DEF YieldReadyTask, TypeOK, BudgetIsThere
  <2>4. QueuesHoldWaiters'
    BY <1>2, <2>1 DEF YieldReadyTask, TypeOK, QueuesHoldWaiters
  <2>5. HoldersAreActive' /\ MutualExclusion'
    BY <1>2 DEF YieldReadyTask, HoldersAreActive, MutualExclusion, Holding, Exclusively
  <2> QED
    BY <2>2, <2>3, <2>4, <2>5
<1>3. CASE StartGathering
  <2>1. TypeOK' /\ BudgetIsThere'
    BY <1>3 DEF StartGathering, TypeOK, BudgetIsThere, workVars
  <2> QED
    BY <1>3, <2>1, OthersIInv DEF StartGathering
<1>4. ASSUME NEW e \in Entities, Gather(e) PROVE IInv'
  <2>1. TypeOK' /\ BudgetIsThere'
    BY <1>4 DEF Gather, TypeOK, BudgetIsThere
  <2> QED
    BY <1>4, <2>1, OthersIInv DEF Gather
<1>5. CASE WaitReturns
  <2>1. TypeOK' /\ BudgetIsThere'
    BY <1>5 DEF WaitReturns, TypeOK, BudgetIsThere, ReadySources, ReadyGuards, Entities
  <2> QED
    BY <1>5, <2>1, OthersIInv DEF WaitReturns
<1>6. ASSUME NEW e \in Entities, Offer(e) PROVE IInv'
  <2> DEFINE h == NewHandler
  <2>1. h \in Handlers /\ hpc[h] = "free"
    BY <1>6 DEF Offer, NewHandler, FreeHandlers
  <2> HIDE DEF h
  <2>2. /\ hpc' = [hpc EXCEPT ![h] = "queued"] /\ hent' = [hent EXCEPT ![h] = e]
        /\ pool' = Append(pool, h) /\ event' = [event EXCEPT ![e] = TRUE]
        /\ todo' = todo \ {e}
        /\ UNCHANGED <<workVars, wake, seen, active, inline, spc, budget, waitSet, ready>>
    BY <1>6 DEF Offer, h
  <2>3. TypeOK'
    BY <2>1, <2>2 DEF TypeOK, workVars, HandlerLabels
  <2>4. BudgetIsThere'
    BY <2>2 DEF BudgetIsThere
  <2>5. QueuesHoldWaiters'
    <3>1. /\ pool \in Seq(Handlers) /\ hpc \in [Handlers -> HandlerLabels]
          /\ TypeOK /\ QueuesHoldWaiters
      BY DEF TypeOK
    <3>2. /\ \A i \in 1..Len(pool) : pool[i] \in Handlers /\ pool[i] # h
          /\ \A i \in 1..Len(ready) : ready[i] \in Handlers /\ ready[i] # h
      BY <2>1, <3>1, QueueMembers DEF QueuesHoldWaiters
    <3>3. /\ Len(pool') = Len(pool) + 1 /\ pool'[Len(pool) + 1] = h
          /\ \A i \in 1..Len(pool) : pool'[i] = pool[i]
          /\ Len(pool) \in Nat
      BY <2>2, <3>1
    <3> HIDE DEF IInv
    <3> QED
      BY <2>1, <2>2, <3>1, <3>2, <3>3 DEF QueuesHoldWaiters
  <2>6. HoldersAreActive'
    BY <2>1, <2>2 DEF HoldersAreActive, Holding, Exclusively, TypeOK
  <2>7. MutualExclusion'
    BY <2>1, <2>2 DEF MutualExclusion, Holding, Exclusively, TypeOK
  <2> QED
    BY <2>3, <2>4, <2>5, <2>6, <2>7
<1>7. ASSUME NEW e \in Entities, Skip(e) PROVE IInv'
  <2>1. TypeOK' /\ BudgetIsThere'
    BY <1>7 DEF Skip, TypeOK, BudgetIsThere, workVars
  <2> QED
    BY <1>7, <2>1, OthersIInv DEF Skip
<1>8. CASE EndOfPass
  <2>1. TypeOK' /\ BudgetIsThere'
    BY <1>8 DEF EndOfPass, TypeOK, BudgetIsThere, workVars
  <2> QED
    BY <1>8, <2>1, OthersIInv DEF EndOfPass
<1> QED
  BY <1>1, <1>2, <1>3, <1>4, <1>5, <1>6, <1>7, <1>8 DEF Spinner

-----------------------------------------------------------------------------
(* The handlers *)

LEMMA DispatchIInv == ASSUME IInv, Dispatch PROVE IInv'
<1> USE DEF IInv
<1> DEFINE h == Head(pool)
<1>1. h \in Handlers /\ h = pool[1] /\ hpc[h] \in {"queued", "resumable"}
  BY DEF Dispatch, TypeOK, QueuesHoldWaiters
<1>2. TypeOK'
  BY <1>1 DEF Dispatch, Goto, TypeOK, workVars, spinVars, HandlerLabels
<1>3. BudgetIsThere'
  BY DEF Dispatch, BudgetIsThere, spinVars
<1>4. QueuesHoldWaiters'
  BY <1>1 DEF Dispatch, Goto, TypeOK, QueuesHoldWaiters
<1>5. HoldersAreActive'
  BY <1>1 DEF Dispatch, Goto, HoldersAreActive, Holding, Exclusively, TypeOK
<1>6. MutualExclusion'
  BY <1>1 DEF Dispatch, Goto, MutualExclusion, Holding, Exclusively, TypeOK
<1> QED
  BY <1>2, <1>3, <1>4, <1>5, <1>6

(* Entering the group: it was inactive, so nobody else holds it.           *)
LEMMA BeginningIInv == ASSUME IInv, NEW h \in Handlers, BeginningExecution(h) PROVE IInv'
<1> USE DEF IInv
<1>0. hent[h] \in Entities /\ GroupOf[hent[h]] \in Groups
  BY GroupsAssumption DEF BeginningExecution, TypeOK
<1>1. TypeOK'
  BY <1>0 DEF BeginningExecution, Goto, TypeOK, workVars, spinVars, HandlerLabels, Exclusively
<1>2. BudgetIsThere'
  BY DEF BeginningExecution, BudgetIsThere, spinVars
<1>3. CASE ~GroupCanExecute(hent[h])
  <2>1. hpc' = [hpc EXCEPT ![h] = "reject"] /\ hent' = [hent EXCEPT ![h] = hent[h]]
    BY <1>3 DEF BeginningExecution, Goto, TypeOK
  <2> QED
    BY <1>1, <1>2, <1>3, <2>1, StepIInv DEF BeginningExecution, HandlerLabels
<1>4. CASE GroupCanExecute(hent[h])
  <2>1. \A k \in Handlers : Holding(k) /\ Exclusively(hent[h]) => GroupOf[hent[k]] # GroupOf[hent[h]]
    BY <1>4, EntitiesAssumption DEF GroupCanExecute, HoldersAreActive, Exclusively, TypeOK, Holding
  <2>2. QueuesHoldWaiters'
    BY <1>4, QueuesUnmoved DEF BeginningExecution, Goto
  <2>3. HoldersAreActive'
    <3>1. /\ hpc \in [Handlers -> HandlerLabels] /\ hent' = hent /\ hpc' = [hpc EXCEPT ![h] = "take"]
          /\ active \in [Exclusive -> Entities \cup {None}]
          /\ active' = IF Exclusively(hent[h]) THEN [active EXCEPT ![GroupOf[hent[h]]] = hent[h]] ELSE active
      BY <1>4 DEF BeginningExecution, Goto, TypeOK
    <3> QED
      BY <1>0, <3>1, <2>1 DEF HoldersAreActive, Holding, Exclusively
  <2>4. MutualExclusion'
    BY <1>4, <2>1 DEF BeginningExecution, Goto, MutualExclusion, Holding, Exclusively, TypeOK
  <2> QED
    BY <1>1, <1>2, <2>2, <2>3, <2>4
<1> QED
  BY <1>3, <1>4

(* Leaving the group: the one holder is gone.                              *)
LEMMA EndingIInv == ASSUME IInv, NEW h \in Handlers, EndingExecution(h) PROVE IInv'
<1> USE DEF IInv
<1>1. TypeOK'
  BY DEF EndingExecution, Goto, TypeOK, workVars, spinVars, HandlerLabels
<1>2. BudgetIsThere'
  BY DEF EndingExecution, BudgetIsThere, spinVars
<1>3. QueuesHoldWaiters'
  BY QueuesUnmoved DEF EndingExecution, Goto
<1>4. HoldersAreActive'
  BY DEF EndingExecution, Goto, HoldersAreActive, MutualExclusion, Holding, Exclusively, TypeOK
<1>5. MutualExclusion'
  BY DEF EndingExecution, Goto, MutualExclusion, Holding, Exclusively, TypeOK
<1> QED
  BY <1>1, <1>2, <1>3, <1>4, <1>5

LEMMA HandleIInv == ASSUME IInv, NEW h \in Handlers, Handle(h) PROVE IInv'
<1>0. /\ TypeOK /\ BudgetIsThere
      /\ hpc \in [Handlers -> HandlerLabels] /\ hent \in [Handlers -> Entities \cup {None}]
      /\ hent = [hent EXCEPT ![h] = hent[h]]
      /\ hpc[h] # "free" => hent[h] \in Entities
  BY DEF IInv, TypeOK
<1>1. CASE Take(h)
  <2>1. /\ UNCHANGED <<trig, arrived, raised, wake, event, active, spinVars, ready, pool, hent>>
        /\ BudgetIsThere'
    BY <1>0, <1>1 DEF Take, Goto, BudgetIsThere, spinVars
  <2>2. data' \in [Sources -> Nat] /\ seen' \in [Guards -> BOOLEAN] /\ started' \in [Guards -> Nat]
    <3>1. /\ data \in [Sources -> Nat] /\ seen \in [Guards -> BOOLEAN]
          /\ started \in [Guards -> Nat] /\ hent[h] \in Sources \cup Guards
      BY <1>0, <1>1 DEF TypeOK, Take, Entities
    <3>2. CASE hent[h] \in Guards
      <4>1. /\ UNCHANGED data
            /\ seen' = [seen EXCEPT ![hent[h]] = FALSE]
            /\ started' = [started EXCEPT ![hent[h]] = started[hent[h]] + 1]
        BY <1>1, <3>2 DEF Take
      <4>2. started[hent[h]] \in Nat
        BY <3>1, <3>2
      <4> QED
        BY <3>1, <3>2, <4>1, <4>2
    <3>3. CASE hent[h] \notin Guards
      <4>1. data[hent[h]] \in Nat
        BY <3>1, <3>3
      <4> QED
        BY <1>1, <3>1, <3>3, <4>1 DEF Take
    <3> QED
      BY <3>2, <3>3
  <2>3. PICK label \in {"clear", "clearOnly"} : hpc' = [hpc EXCEPT ![h] = label]
    BY <1>1 DEF Take, Goto
  <2>4. TypeOK'
    BY <1>0, <1>1, <2>1, <2>2, <2>3 DEF TypeOK, HandlerLabels, spinVars, Take
  <2> QED
    BY <1>0, <1>1, <2>1, <2>3, <2>4, StepIInv DEF Take, Holding, HandlerLabels
<1>2. CASE TakeRaises(h)
  <2>1. TypeOK' /\ BudgetIsThere'
    BY <1>0, <1>2, FlagsAssumption DEF TakeRaises, Done, TypeOK, BudgetIsThere, spinVars, HandlerLabels
  <2> QED
    BY <1>2, <2>1, StepIInv DEF TakeRaises, Done, Holding, HandlerLabels
<1>3. CASE ClearEvent(h)
  <2>1. PICK label \in HandlerLabels :
            /\ hpc' = [hpc EXCEPT ![h] = label]
            /\ label \in {"notify", "notifyOnly", "leave"}
            /\ label # "leave" => Holding(h)
    BY <1>3 DEF ClearEvent, Goto, Holding, HandlerLabels
  <2>2. TypeOK' /\ BudgetIsThere'
    BY <1>0, <1>3, <2>1 DEF ClearEvent, Goto, TypeOK, BudgetIsThere, workVars, spinVars
  <2> QED
    BY <1>0, <1>3, <2>1, <2>2, StepIInv DEF ClearEvent, Goto
<1>4. CASE Trigger(h)
  <2>1. PICK label \in HandlerLabels, e \in Entities \cup {None} :
            /\ hpc' = [hpc EXCEPT ![h] = label]
            /\ hent' = [hent EXCEPT ![h] = e]
            /\ (label \in {"run", "endOnly"} /\ Holding(h) /\ e = hent[h]) \/ label = "free"
    BY <1>0, <1>4 DEF Trigger, Goto, Done, Holding, HandlerLabels
  <2>2. TypeOK' /\ BudgetIsThere'
    BY <1>0, <1>4, <2>1 DEF Trigger, TypeOK, BudgetIsThere, workVars, spinVars
  <2> QED
    BY <1>4, <2>1, <2>2, StepIInv DEF Trigger
<1>5. CASE CallbackReturns(h) \/ CallbackSuspends(h)
  <2>1. TypeOK' /\ BudgetIsThere'
    BY <1>0, <1>5 DEF CallbackReturns, CallbackSuspends, Goto, TypeOK, BudgetIsThere, workVars,
       spinVars, HandlerLabels
  <2> QED
    BY <1>0, <1>5, <2>1, StepIInv DEF CallbackReturns, CallbackSuspends, Goto, Holding,
       HandlerLabels
<1> QED
  BY <1>1, <1>2, <1>3, <1>4, <1>5, BeginningIInv, EndingIInv DEF Handle, TakeFromWaitList

-----------------------------------------------------------------------------
LEMMA NextIInv == IInv /\ [Next]_vars => IInv'
<1> SUFFICES ASSUME IInv, [Next]_vars PROVE IInv'
  OBVIOUS
<1>1. CASE UNCHANGED vars
  BY <1>1, OthersIInv DEF vars, workVars, spinVars, IInv, TypeOK, BudgetIsThere
<1> QED
  BY <1>1, ArriveIInv, VanishIInv, AwaitedIInv, SpinnerIInv, DispatchIInv, HandleIInv DEF Next

(* The invariant holds in every reachable state.                           *)
THEOREM Invariance == Spec => []IInv
<1> QED
  BY InitIInv, NextIInv, PTL DEF Spec

(* Callbacks of a mutually exclusive group never overlap: neither between  *)
(* threads, nor around an await, nor after an exception from a take.       *)
THEOREM GroupsExclude == Spec => []MutualExclusion
<1>1. IInv => MutualExclusion
  BY DEF IInv
<1> QED
  BY <1>1, Invariance, PTL

-----------------------------------------------------------------------------
(* What the flags, the groups and the guards are worth to the entities:    *)
(* the accounts that make NoWorkIsLost inductive.                          *)
UntakenLabels == {"queued", "begin", "take", "clear", "clearOnly", "reject"}
HeldUntaken(h, e) == hent[h] = e /\ hpc[h] \in UntakenLabels
InPool(h) == \E i \in 1..Len(pool) : pool[i] = h
Engaged(h) == h \in Busy \/ InPool(h)
Blocks(h, e) == hent[h] = e \/ (Exclusively(e) /\ GroupOf[hent[h]] = GroupOf[e])

ActiveInGroup == \A g \in Exclusive : active[g] # None => GroupOf[active[g]] = g

(* _executor_event stands for a handler that has not taken its work; for a *)
(* source there is one, and it is not polled again before.                 *)
EventsAreHeld ==
    /\ \A e \in Entities \ raised : event[e] => \E h \in Handlers : HeldUntaken(h, e)
    /\ \A e \in Sources \ raised, h \in Handlers : HeldUntaken(h, e) => event[e]
    /\ \A e \in Sources \ raised, h, k \in Handlers :
         HeldUntaken(h, e) /\ HeldUntaken(k, e) => h = k
    /\ spc = "gather" => \A e \in waitSet \cap Sources : ~event[e]
    /\ spc = "offer" => \A e \in todo \cap Sources : ~event[e]

(* An entity left out of the wait set has a handler that will trigger the  *)
(* executor's guard, if it has not yet; a remembered guard is triggered.   *)
SleepIsSafe == spc = "gather" =>
    /\ \A e \in Entities \ (todo \cup waitSet) :
         \/ e \in raised \/ Lost(e) \/ wake
         \/ \E h \in Handlers : hpc[h] # "free" /\ Blocks(h, e)
    /\ \A e \in Guards \cap waitSet : seen[e] => trig[e]

QueuedInPool == \A h \in Handlers : hpc[h] = "queued" => InPool(h)

(* With one thread: one handler at a time, none while entities are         *)
(* gathered, and every run of a guard is paid for by a trigger.            *)
Owed(flag) == IF flag THEN 1 ELSE 0
OneAtATime == inline =>
    /\ \A h, k \in Handlers : Engaged(h) /\ Engaged(k) => h = k
    /\ spc = "gather" => \A h \in Handlers : ~Engaged(h)
    /\ \A h \in Handlers :
         hpc[h] \in {"queued", "begin", "take"} /\ hent[h] \in Guards => seen[hent[h]]
RunsArePaid == inline => \A e \in Guards :
    started[e] + (IF spc = "gather" /\ e \in waitSet THEN Owed(seen[e] \/ trig[e])
                                                     ELSE Owed(seen[e]) + Owed(trig[e])) <= arrived[e]

WInv ==
    /\ IInv /\ ActiveInGroup /\ ActiveMeansHeld /\ EventsAreHeld /\ SleepIsSafe /\ QueuedInPool
    /\ OneAtATime /\ RunsArePaid

LEMMA PoolAppends ==
  ASSUME pool \in Seq(Handlers), NEW h \in Handlers, pool' = Append(pool, h)
  PROVE  \A k : InPool(k)' <=> (InPool(k) \/ k = h)
<1>1. /\ Len(pool) \in Nat /\ Len(pool') = Len(pool) + 1 /\ pool'[Len(pool) + 1] = h
      /\ \A i \in 1..Len(pool) : pool'[i] = pool[i]
  OBVIOUS
<1> QED BY <1>1 DEF InPool

LEMMA PoolDrops ==
  ASSUME pool \in Seq(Handlers), pool # <<>>, pool' = Tail(pool)
  PROVE  \A k : InPool(k) <=> (InPool(k)' \/ k = Head(pool))
<1>1. /\ Len(pool) \in Nat \ {0} /\ Len(pool') = Len(pool) - 1 /\ Head(pool) = pool[1]
      /\ \A i \in 1..Len(pool') : pool'[i] = pool[i + 1]
  OBVIOUS
<1>2. ASSUME NEW k, InPool(k) PROVE InPool(k)' \/ k = Head(pool)
  <2> SUFFICES ASSUME NEW i \in 1..Len(pool), pool[i] = k, i # 1 PROVE InPool(k)'
    BY <1>1, <1>2 DEF InPool
  <2>1. i - 1 \in 1..Len(pool') /\ pool'[i - 1] = pool[(i - 1) + 1] /\ (i - 1) + 1 = i
    BY <1>1
  <2> QED BY <2>1 DEF InPool
<1>3. ASSUME NEW k, InPool(k)' \/ k = Head(pool) PROVE InPool(k)
  <2>1. 1 \in 1..Len(pool) /\ \A i \in 1..Len(pool') : i + 1 \in 1..Len(pool)
    BY <1>1
  <2> QED BY <1>1, <1>3, <2>1 DEF InPool
<1> QED BY <1>2, <1>3

LEMMA InitWInv == Init => WInv
<1> SUFFICES ASSUME Init PROVE WInv
  OBVIOUS
<1>1. IInv
  BY InitIInv
<1>2. /\ \A h \in Handlers : hpc[h] = "free" /\ ~Engaged(h)
      /\ spc = "begin" /\ started = [e \in Guards |-> 0] /\ arrived = [e \in Entities |-> 0]
      /\ \A e \in Guards : ~seen[e] /\ ~trig[e]
      /\ \A e \in Entities : ~event[e]
      /\ \A g \in Exclusive : active[g] = None
  BY DEF Init, Engaged, Busy, InPool, Entities
<1>3. ActiveInGroup /\ ActiveMeansHeld
  BY <1>2 DEF ActiveInGroup, ActiveMeansHeld
<1>4. EventsAreHeld /\ SleepIsSafe /\ QueuedInPool /\ OneAtATime
  BY <1>2 DEF EventsAreHeld, HeldUntaken, UntakenLabels, SleepIsSafe, QueuedInPool, OneAtATime
<1>5. RunsArePaid
  BY <1>2 DEF RunsArePaid, Owed, Entities
<1> QED BY <1>1, <1>3, <1>4, <1>5 DEF WInv

(* A handler goes on from one label to another within a group it holds, or *)
(* from the queue to its start; the spinner may be woken.                  *)
LEMMA MovesWInv ==
  ASSUME WInv, IInv', NEW h \in Handlers, NEW l \in HandlerLabels,
         hpc[h] # "free", l # "free", l # "queued",
         hpc' = [hpc EXCEPT ![h] = l],
         l \in UntakenLabels <=> hpc[h] \in UntakenLabels,
         l \in {"begin", "take"} <=> hpc[h] \in {"queued", "begin", "take"},
         Holding(h) => l \notin {"begin", "reject", "leave"},
         wake => wake',
         \A k : Engaged(k)' => Engaged(k),
         \A k : k # h /\ InPool(k) => InPool(k)',
         UNCHANGED <<inline, trig, arrived, started, raised, event, seen, active>>,
         UNCHANGED <<spc, todo, waitSet, hent>>
  PROVE  WInv'
<1>1. /\ \A k \in Handlers : k # h => hpc'[k] = hpc[k]
      /\ hpc'[h] = l
  BY DEF WInv, IInv, TypeOK
<1>2. /\ \A k \in Handlers : \A e : HeldUntaken(k, e)' <=> HeldUntaken(k, e)
      /\ \A k \in Handlers : Holding(k) => Holding(k)'
      /\ \A k \in Handlers : hpc[k] # "free" => hpc'[k] # "free"
  BY <1>1 DEF HeldUntaken, Holding, HandlerLabels
<1>3. ActiveInGroup' /\ ActiveMeansHeld'
  BY <1>2 DEF WInv, ActiveInGroup, ActiveMeansHeld
<1>4. EventsAreHeld'
  BY <1>2 DEF WInv, EventsAreHeld
<1>5. SleepIsSafe'
  BY <1>2 DEF WInv, SleepIsSafe, Lost, Blocks, Exclusively
<1>6. QueuedInPool'
  BY <1>1 DEF WInv, QueuedInPool
<1>7. OneAtATime'
  BY <1>1 DEF WInv, OneAtATime
<1>8. RunsArePaid'
  BY DEF WInv, RunsArePaid
<1> QED BY <1>3, <1>4, <1>5, <1>6, <1>7, <1>8 DEF WInv

LEMMA ArriveWInv == ASSUME WInv, IInv', NEW e0 \in Entities, Arrive(e0) PROVE WInv'
<1>1. /\ UNCHANGED <<wake, started, raised, event, seen, active, inline, spc, todo, waitSet>>
      /\ UNCHANGED <<pool, hpc, hent>>
      /\ arrived' = [arrived EXCEPT ![e0] = @ + 1]
      /\ \/ e0 \in Sources /\ UNCHANGED trig
         \/ e0 \in Guards /\ trig' = [trig EXCEPT ![e0] = TRUE]
  BY DEF Arrive, spinVars
<1>2. \A e \in Guards : trig[e] => trig'[e]
  BY <1>1 DEF WInv, IInv, TypeOK
<1>3. /\ \A k, e : HeldUntaken(k, e)' <=> HeldUntaken(k, e)
      /\ \A k : Holding(k)' <=> Holding(k)
      /\ \A k : InPool(k)' <=> InPool(k)
      /\ \A k : Engaged(k)' <=> Engaged(k)
  BY <1>1 DEF HeldUntaken, Holding, InPool, Engaged, Busy
<1>4. ActiveInGroup' /\ ActiveMeansHeld'
  BY <1>1, <1>3 DEF WInv, ActiveInGroup, ActiveMeansHeld
<1>5. EventsAreHeld'
  BY <1>1, <1>3 DEF WInv, EventsAreHeld
<1>6. SleepIsSafe'
  BY <1>1, <1>2 DEF WInv, SleepIsSafe, Lost, Blocks, Exclusively
<1>7. QueuedInPool' /\ OneAtATime'
  BY <1>1, <1>3 DEF WInv, QueuedInPool, OneAtATime
<1>8. RunsArePaid'
  <2> SUFFICES ASSUME inline, NEW e \in Guards
               PROVE  (started[e] + (IF spc = "gather" /\ e \in waitSet
                                     THEN Owed(seen[e] \/ trig[e])
                                     ELSE Owed(seen[e]) + Owed(trig[e])) <= arrived[e])'
    BY <1>1 DEF RunsArePaid
  <2>1. /\ started[e] \in Nat /\ arrived[e] \in Nat
        /\ started[e] + (IF spc = "gather" /\ e \in waitSet
                         THEN Owed(seen[e] \/ trig[e])
                         ELSE Owed(seen[e]) + Owed(trig[e])) <= arrived[e]
    BY DEF WInv, IInv, TypeOK, Entities, RunsArePaid
  <2>2. CASE e = e0
    <3>1. arrived'[e] = arrived[e] + 1
      BY <1>1, <2>2 DEF WInv, IInv, TypeOK
    <3>2. seen[e] \in BOOLEAN /\ trig[e] \in BOOLEAN /\ trig'[e] \in BOOLEAN
      BY DEF WInv, IInv, TypeOK
    <3> QED BY <1>1, <2>1, <3>1, <3>2 DEF Owed
  <2>3. CASE e # e0
    <3>1. arrived'[e] = arrived[e] /\ trig'[e] = trig[e]
      BY <1>1, <2>3 DEF WInv, IInv, TypeOK, Entities
    <3> QED BY <1>1, <2>1, <3>1 DEF Owed
  <2> QED BY <2>2, <2>3
<1> QED BY <1>4, <1>5, <1>6, <1>7, <1>8 DEF WInv

LEMMA VanishWInv == ASSUME WInv, IInv', NEW e \in Sources, Vanish(e) PROVE WInv'
<1>1. /\ UNCHANGED <<trig, arrived, started, raised, wake, event, seen, active, inline, spc, todo>>
      /\ UNCHANGED <<waitSet, pool, hpc, hent>>
  BY DEF Vanish, spinVars
<1> QED BY <1>1 DEF WInv, ActiveInGroup, ActiveMeansHeld, EventsAreHeld, HeldUntaken, Holding,
     SleepIsSafe, Lost, Blocks, Exclusively, QueuedInPool, OneAtATime, Engaged, Busy, InPool,
     RunsArePaid

LEMMA AwaitedWInv == ASSUME WInv, IInv', NEW h \in Handlers, AwaitedIsDone(h) PROVE WInv'
<1>1. /\ hpc[h] = "suspended" /\ hpc' = [hpc EXCEPT ![h] = "resumable"]
      /\ wake'
      /\ UNCHANGED <<trig, arrived, started, raised, event, seen, active, inline, spc, todo>>
      /\ UNCHANGED <<waitSet, pool, hent>>
  BY DEF AwaitedIsDone, workVars, spinVars
<1>2. /\ \A k : Engaged(k)' => Engaged(k)
      /\ \A k : InPool(k) => InPool(k)'
  BY <1>1 DEF Engaged, Busy, InPool, WInv, IInv, TypeOK
<1> QED BY <1>1, <1>2, MovesWInv DEF HandlerLabels, UntakenLabels

LEMMA DispatchWInv == ASSUME WInv, IInv', Dispatch PROVE WInv'
<1>0. PICK h \in Handlers : h = Head(pool) /\ hpc[h] \in {"queued", "resumable"}
  BY DEF Dispatch, WInv, IInv, TypeOK, QueuesHoldWaiters
<1>1. PICK l \in {"begin", "end"} :
        hpc' = [hpc EXCEPT ![h] = l] /\ (l = "begin" <=> hpc[h] = "queued")
  BY <1>0 DEF Dispatch, Goto
<1>2. /\ UNCHANGED <<trig, arrived, started, raised, wake, event, seen, active, inline, spc, todo>>
      /\ UNCHANGED <<waitSet, hent>>
  BY DEF Dispatch, Goto, workVars, spinVars
<1>3. \A k : InPool(k) <=> (InPool(k)' \/ k = h)
  BY <1>0, PoolDrops DEF Dispatch, WInv, IInv, TypeOK
<1>4. \A k : Engaged(k)' => Engaged(k)
  BY <1>0, <1>1, <1>3 DEF Engaged, Busy, WInv, IInv, TypeOK
<1>5. Holding(h) => l = "end"
  BY <1>0, <1>1 DEF Holding
<1> QED BY <1>0, <1>1, <1>2, <1>3, <1>4, <1>5, MovesWInv DEF HandlerLabels, UntakenLabels

(* A step of the spinner that begins no gathering and offers nothing.      *)
LEMMA SpinnerGoesOn ==
  ASSUME WInv, IInv', spc # "gather", spc' # "gather",
         spc' = "offer" => spc = "offer" /\ todo' \subseteq todo,
         UNCHANGED <<trig, arrived, started, raised, event, seen, active, inline, pool, hpc, hent>>
  PROVE  WInv'
BY DEF WInv, ActiveInGroup, ActiveMeansHeld, EventsAreHeld, HeldUntaken, Holding, SleepIsSafe,
   QueuedInPool, OneAtATime, Engaged, Busy, InPool, RunsArePaid

LEMMA YieldsWInv == ASSUME WInv, IInv', YieldReadyTask PROVE WInv'
<1>0. PICK h \in Handlers : h = Head(ready) /\ hpc[h] = "resumable"
  BY DEF YieldReadyTask, WInv, IInv, TypeOK, BudgetIsThere, QueuesHoldWaiters
<1>1. /\ UNCHANGED <<trig, arrived, started, raised, wake, event, seen, active, inline, spc, todo>>
      /\ UNCHANGED <<waitSet, hpc, hent>>
      /\ spc = "tasks" /\ pool' = Append(pool, h) /\ SpinnerRuns
  BY <1>0 DEF YieldReadyTask, workVars
<1>2. \A k : InPool(k)' <=> (InPool(k) \/ k = h)
  BY <1>1, PoolAppends DEF WInv, IInv, TypeOK
<1>3. inline => \A k \in Handlers : ~Engaged(k)
  BY <1>1 DEF SpinnerRuns, Engaged, InPool
<1>4. /\ \A k, e : HeldUntaken(k, e)' <=> HeldUntaken(k, e)
      /\ \A k : Holding(k)' <=> Holding(k)
      /\ \A k : Engaged(k)' <=> (Engaged(k) \/ k = h)
  BY <1>1, <1>2 DEF HeldUntaken, Holding, Engaged, Busy
<1>5. ActiveInGroup' /\ ActiveMeansHeld'
  BY <1>1, <1>4 DEF WInv, ActiveInGroup, ActiveMeansHeld
<1>6. EventsAreHeld'
  BY <1>1, <1>4 DEF WInv, EventsAreHeld
<1>7. SleepIsSafe' /\ RunsArePaid'
  BY <1>1 DEF WInv, SleepIsSafe, RunsArePaid
<1>8. QueuedInPool'
  BY <1>1, <1>2 DEF WInv, QueuedInPool
<1>9. OneAtATime'
  BY <1>1, <1>3, <1>4 DEF WInv, OneAtATime
<1> QED BY <1>5, <1>6, <1>7, <1>8, <1>9 DEF WInv

LEMMA StartsWInv == ASSUME WInv, IInv', StartGathering PROVE WInv'
<1>1. /\ UNCHANGED <<trig, arrived, started, raised, wake, event, seen, active, inline>>
      /\ UNCHANGED <<pool, hpc, hent>>
      /\ spc = "tasks" /\ spc' = "gather" /\ todo' = Entities /\ waitSet' = {} /\ SpinnerRuns
  BY DEF StartGathering, workVars
<1>2. inline => \A k \in Handlers : ~Engaged(k)
  BY <1>1 DEF SpinnerRuns, Engaged, InPool
<1>3. /\ \A k, e : HeldUntaken(k, e)' <=> HeldUntaken(k, e)
      /\ \A k : Holding(k)' <=> Holding(k)
      /\ \A k : InPool(k)' <=> InPool(k)
      /\ \A k : Engaged(k)' <=> Engaged(k)
  BY <1>1 DEF HeldUntaken, Holding, InPool, Engaged, Busy
<1>4. ActiveInGroup' /\ ActiveMeansHeld'
  BY <1>1, <1>3 DEF WInv, ActiveInGroup, ActiveMeansHeld
<1>5. EventsAreHeld'
  BY <1>1, <1>3 DEF WInv, EventsAreHeld
<1>6. SleepIsSafe'
  BY <1>1 DEF SleepIsSafe
<1>7. QueuedInPool' /\ OneAtATime'
  BY <1>1, <1>2, <1>3 DEF WInv, QueuedInPool, OneAtATime
<1>8. RunsArePaid'
  BY <1>1 DEF WInv, RunsArePaid
<1> QED BY <1>4, <1>5, <1>6, <1>7, <1>8 DEF WInv

(* An entity is left out of the wait set because of a handler, whose own   *)
(* trigger is still to come, or because a take raised.                     *)
LEMMA GatherWInv == ASSUME WInv, IInv', NEW e0 \in Entities, Gather(e0) PROVE WInv'
<1>1. /\ UNCHANGED <<arrived, started, raised, wake, event, seen, active, inline, spc>>
      /\ UNCHANGED <<pool, hpc, hent>>
      /\ spc = "gather" /\ e0 \in todo /\ todo' = todo \ {e0}
      /\ waitSet' = IF CanExecute(e0) THEN waitSet \cup {e0} ELSE waitSet
      /\ trig' = IF e0 \in Guards /\ CanExecute(e0) /\ seen[e0]
                 THEN [trig EXCEPT ![e0] = TRUE] ELSE trig
  BY DEF Gather
<1>2. \A e \in Guards :
        /\ trig[e] => trig'[e]
        /\ e = e0 /\ CanExecute(e0) /\ seen[e0] => trig'[e]
        /\ ~(e = e0 /\ CanExecute(e0) /\ seen[e0]) => trig'[e] = trig[e]
  BY <1>1 DEF WInv, IInv, TypeOK
<1>3. /\ \A k, e : HeldUntaken(k, e)' <=> HeldUntaken(k, e)
      /\ \A k : Holding(k)' <=> Holding(k)
      /\ \A k : InPool(k)' <=> InPool(k)
      /\ \A k : Engaged(k)' <=> Engaged(k)
  BY <1>1 DEF HeldUntaken, Holding, InPool, Engaged, Busy
<1>4. ActiveInGroup' /\ ActiveMeansHeld'
  BY <1>1, <1>3 DEF WInv, ActiveInGroup, ActiveMeansHeld
<1>5. EventsAreHeld'
  BY <1>1, <1>3 DEF WInv, EventsAreHeld, CanExecute
<1>6. SleepIsSafe'
  <2>1. ASSUME ~CanExecute(e0)
        PROVE  \/ e0 \in raised \/ Lost(e0)
               \/ \E h \in Handlers : hpc[h] # "free" /\ Blocks(h, e0)
    <3>1. CASE event[e0] /\ e0 \notin raised
      BY <3>1 DEF WInv, EventsAreHeld, HeldUntaken, UntakenLabels, Blocks
    <3>2. CASE ~GroupCanExecute(e0)
      <4> DEFINE g == GroupOf[e0]
      <4>1. g \in Exclusive /\ Exclusively(e0) /\ active[g] # None /\ GroupOf[active[g]] = g
        BY <3>2 DEF GroupCanExecute, Exclusively, WInv, ActiveInGroup
      <4>2. CASE active[g] \in raised
        BY <4>1, <4>2 DEF Lost
      <4>3. CASE active[g] \notin raised
        <5>1. PICK h \in Handlers : Holding(h) /\ hent[h] = active[g]
          BY <4>1, <4>3 DEF WInv, ActiveMeansHeld
        <5>2. hpc[h] # "free" /\ Blocks(h, e0)
          BY <4>1, <5>1 DEF Holding, Blocks
        <5> QED BY <5>2
      <4> QED BY <4>2, <4>3
    <3> QED BY <2>1, <3>1, <3>2 DEF CanExecute
  <2>2. \A e \in Entities \ (todo' \cup waitSet') :
           e \in Entities \ (todo \cup waitSet) \/ (e = e0 /\ ~CanExecute(e0))
    BY <1>1
  <2>3. ASSUME NEW e \in Entities \ (todo' \cup waitSet')
        PROVE  \/ e \in raised \/ Lost(e) \/ wake
               \/ \E h \in Handlers : hpc[h] # "free" /\ Blocks(h, e)
    BY <1>1, <2>1, <2>2 DEF WInv, SleepIsSafe
  <2>4. \A e \in Guards \cap waitSet' : seen'[e] => trig'[e]
    BY <1>1, <1>2 DEF WInv, SleepIsSafe
  <2> QED BY <1>1, <2>3, <2>4 DEF SleepIsSafe, Lost, Blocks, Exclusively
<1>7. QueuedInPool' /\ OneAtATime'
  BY <1>1, <1>3 DEF WInv, QueuedInPool, OneAtATime
<1>8. RunsArePaid'
  <2> SUFFICES ASSUME inline, NEW e \in Guards
               PROVE  (started[e] + (IF spc = "gather" /\ e \in waitSet
                                     THEN Owed(seen[e] \/ trig[e])
                                     ELSE Owed(seen[e]) + Owed(trig[e])) <= arrived[e])'
    BY <1>1 DEF RunsArePaid
  <2>1. /\ started[e] \in Nat /\ arrived[e] \in Nat
        /\ started[e] + (IF e \in waitSet
                         THEN Owed(seen[e] \/ trig[e])
                         ELSE Owed(seen[e]) + Owed(trig[e])) <= arrived[e]
    BY <1>1 DEF WInv, IInv, TypeOK, Entities, RunsArePaid
  <2>2. seen[e] \in BOOLEAN /\ trig[e] \in BOOLEAN /\ trig'[e] \in BOOLEAN
    BY DEF WInv, IInv, TypeOK
  <2>3. CASE e \in waitSet'
    <3>1. trig'[e] => seen[e] \/ trig[e]
      BY <1>2, <2>2
    <3> QED BY <1>1, <2>1, <2>2, <2>3, <3>1 DEF Owed
  <2>4. CASE e \notin waitSet'
    <3>1. trig'[e] = trig[e] /\ e \notin waitSet
      BY <1>1, <1>2, <2>4
    <3> QED BY <1>1, <2>1, <2>4, <3>1
  <2> QED BY <2>3, <2>4
<1> QED BY <1>4, <1>5, <1>6, <1>7, <1>8 DEF WInv

LEMMA WaitReturnsWInv == ASSUME WInv, IInv', WaitReturns PROVE WInv'
<1>1. /\ UNCHANGED <<arrived, started, raised, event, active, inline, waitSet>>
      /\ UNCHANGED <<pool, hpc, hent>>
      /\ spc = "gather" /\ spc' = "offer" /\ todo' = ReadySources \cup Guards
  BY DEF WaitReturns
<1>2. \A e \in Guards :
        /\ trig'[e] <=> trig[e] /\ e \notin waitSet
        /\ seen'[e] <=> seen[e] \/ (trig[e] /\ e \in waitSet)
  BY DEF WaitReturns, ReadyGuards, WInv, IInv, TypeOK
<1>3. /\ \A k, e : HeldUntaken(k, e)' <=> HeldUntaken(k, e)
      /\ \A k : Holding(k)' <=> Holding(k)
      /\ \A k : InPool(k)' <=> InPool(k)
      /\ \A k : Engaged(k)' <=> Engaged(k)
  BY <1>1 DEF HeldUntaken, Holding, InPool, Engaged, Busy
<1>4. ActiveInGroup' /\ ActiveMeansHeld'
  BY <1>1, <1>3 DEF WInv, ActiveInGroup, ActiveMeansHeld
<1>5. EventsAreHeld'
  BY <1>1, <1>3, EntitiesAssumption DEF WInv, EventsAreHeld, ReadySources
<1>6. SleepIsSafe'
  BY <1>1 DEF SleepIsSafe
<1>7. QueuedInPool' /\ OneAtATime'
  BY <1>1, <1>2, <1>3 DEF WInv, QueuedInPool, OneAtATime
<1>8. RunsArePaid'
  <2> SUFFICES ASSUME inline, NEW e \in Guards
               PROVE  started[e] + (Owed(seen[e])' + Owed(trig[e])') <= arrived[e]
    BY <1>1 DEF RunsArePaid
  <2>1. /\ started[e] \in Nat /\ arrived[e] \in Nat
        /\ started[e] + (IF e \in waitSet
                         THEN Owed(seen[e] \/ trig[e])
                         ELSE Owed(seen[e]) + Owed(trig[e])) <= arrived[e]
    BY <1>1 DEF WInv, IInv, TypeOK, Entities, RunsArePaid
  <2>2. CASE e \in waitSet
    BY <1>2, <2>1, <2>2 DEF Owed
  <2>3. CASE e \notin waitSet
    BY <1>2, <2>1, <2>3 DEF Owed
  <2> QED BY <2>2, <2>3
<1> QED BY <1>4, <1>5, <1>6, <1>7, <1>8 DEF WInv

LEMMA OfferWInv == ASSUME WInv, IInv', NEW e0 \in Entities, Offer(e0) PROVE WInv'
<1>0. PICK h \in Handlers : h = NewHandler /\ hpc[h] = "free"
  BY DEF Offer, NewHandler, FreeHandlers
<1>1. /\ UNCHANGED <<trig, arrived, started, raised, wake, seen, active, inline, spc, waitSet>>
      /\ spc = "offer" /\ e0 \in todo /\ SpinnerRuns /\ Offered(e0)
      /\ todo' = todo \ {e0}
      /\ event' = [event EXCEPT ![e0] = TRUE]
      /\ hpc' = [hpc EXCEPT ![h] = "queued"]
      /\ hent' = [hent EXCEPT ![h] = e0]
      /\ pool' = Append(pool, h)
  BY <1>0 DEF Offer, workVars
<1>2. /\ \A k \in Handlers : k # h => hpc'[k] = hpc[k] /\ hent'[k] = hent[k]
      /\ hpc'[h] = "queued" /\ hent'[h] = e0
      /\ \A e \in Entities : event'[e] = IF e = e0 THEN TRUE ELSE event[e]
  BY <1>1 DEF WInv, IInv, TypeOK
<1>3. \A k : InPool(k)' <=> (InPool(k) \/ k = h)
  BY <1>1, PoolAppends DEF WInv, IInv, TypeOK
<1>4. /\ \A k \in Handlers : \A e : HeldUntaken(k, e)' <=> (HeldUntaken(k, e) \/ (k = h /\ e = e0))
      /\ \A k \in Handlers : Holding(k)' <=> Holding(k)
      /\ ~Holding(h)
      /\ \A k \in Handlers : Engaged(k)' => Engaged(k) \/ k = h
  BY <1>0, <1>2, <1>3 DEF HeldUntaken, UntakenLabels, Holding, Engaged, Busy
<1>5. inline => \A k \in Handlers : ~Engaged(k)
  BY <1>1 DEF SpinnerRuns, Engaged, InPool
<1>6. ActiveInGroup' /\ ActiveMeansHeld'
  BY <1>1, <1>2, <1>4 DEF WInv, ActiveInGroup, ActiveMeansHeld
<1>7. EventsAreHeld'
  <2>1. e0 \in Sources \ raised => ~event[e0] /\ \A k \in Handlers : ~HeldUntaken(k, e0)
    BY <1>1 DEF WInv, EventsAreHeld
  <2>2. \A e \in Entities \ raised' : event'[e] => \E k \in Handlers : HeldUntaken(k, e)'
    BY <1>1, <1>2, <1>4 DEF WInv, EventsAreHeld
  <2>3. \A e \in Sources \ raised', k \in Handlers : HeldUntaken(k, e)' => event'[e]
    BY <1>1, <1>2, <1>4 DEF WInv, EventsAreHeld, Entities
  <2>4. \A e \in Sources \ raised', j, k \in Handlers :
           HeldUntaken(j, e)' /\ HeldUntaken(k, e)' => j = k
    BY <1>1, <1>4, <2>1 DEF WInv, EventsAreHeld
  <2>5. \A e \in todo' \cap Sources : ~event'[e]
    BY <1>1, <1>2 DEF WInv, EventsAreHeld, Entities
  <2> QED BY <1>1, <2>2, <2>3, <2>4, <2>5 DEF EventsAreHeld
<1>8. SleepIsSafe' /\ RunsArePaid'
  BY <1>1 DEF WInv, SleepIsSafe, RunsArePaid
<1>9. QueuedInPool'
  BY <1>2, <1>3 DEF WInv, QueuedInPool
<1>10. OneAtATime'
  <2>1. inline => \A k \in Handlers : hpc[k] \notin {"queued", "begin", "take"}
    <3>1. \A k \in Handlers : hpc[k] \in {"queued", "begin", "take"} => Engaged(k)
      BY DEF WInv, QueuedInPool, Engaged, Busy
    <3> QED BY <1>5, <3>1
  <2> QED BY <1>1, <1>2, <1>4, <1>5, <2>1 DEF OneAtATime, Offered
<1> QED BY <1>6, <1>7, <1>8, <1>9, <1>10 DEF WInv

LEMMA SpinnerWInv == ASSUME WInv, IInv', Spinner PROVE WInv'
<1>1. CASE CountReadyTasks
  BY <1>1, SpinnerGoesOn DEF CountReadyTasks, workVars
<1>2. ASSUME NEW e \in Entities, Skip(e) PROVE WInv'
  BY <1>2, SpinnerGoesOn DEF Skip, workVars
<1>3. CASE EndOfPass
  BY <1>3, SpinnerGoesOn DEF EndOfPass, workVars
<1> QED
  BY <1>1, <1>2, <1>3, YieldsWInv, StartsWInv, GatherWInv, WaitReturnsWInv, OfferWInv DEF Spinner

(* Entering the group makes the handler its holder; or it is turned away.  *)
LEMMA BeginningWInv == ASSUME WInv, IInv', NEW h \in Handlers, BeginningExecution(h) PROVE WInv'
<1> DEFINE e0 == hent[h]
           g0 == GroupOf[e0]
<1>0. e0 \in Entities /\ hpc[h] = "begin"
  BY DEF BeginningExecution, WInv, IInv, TypeOK
<1>1. /\ UNCHANGED <<trig, arrived, started, raised, wake, event, seen, inline, spc, todo>>
      /\ UNCHANGED <<waitSet, pool, hent>>
  BY DEF BeginningExecution, Goto, workVars, spinVars
<1>2. PICK l \in {"take", "reject"} : hpc' = [hpc EXCEPT ![h] = l]
                                      /\ (l = "take" <=> GroupCanExecute(e0))
  BY DEF BeginningExecution, Goto
<1>3. /\ \A k \in Handlers : k # h => hpc'[k] = hpc[k]
      /\ hpc'[h] = l
  BY <1>2 DEF WInv, IInv, TypeOK
<1>4. /\ \A k \in Handlers : \A e : HeldUntaken(k, e)' <=> HeldUntaken(k, e)
      /\ \A k \in Handlers : Holding(k)' <=> (Holding(k) \/ (k = h /\ l = "take"))
      /\ \A k \in Handlers : Engaged(k)' <=> Engaged(k)
      /\ \A k : InPool(k)' <=> InPool(k)
  BY <1>0, <1>1, <1>3 DEF HeldUntaken, UntakenLabels, Holding, Engaged, Busy, InPool
<1>5. \A g \in Exclusive : active'[g] = IF l = "take" /\ Exclusively(e0) /\ g = g0
                                        THEN e0 ELSE active[g]
  BY <1>2 DEF BeginningExecution, Goto, WInv, IInv, TypeOK
<1> HIDE DEF g0
<1>6. ActiveInGroup'
  BY <1>5 DEF WInv, ActiveInGroup, g0
<1> HIDE DEF e0
<1>7. ActiveMeansHeld'
  <2> SUFFICES ASSUME NEW g \in Exclusive, active'[g] # None
               PROVE  active'[g] \in raised' \/ \E k \in Handlers : Holding(k)' /\ hent'[k] = active'[g]
    BY DEF ActiveMeansHeld
  <2>1. CASE active'[g] = e0 /\ l = "take"
    BY <1>1, <1>4, <2>1 DEF e0
  <2>2. CASE active'[g] = active[g]
    BY <1>1, <1>4, <2>2 DEF WInv, ActiveMeansHeld
  <2> QED BY <1>5, <2>1, <2>2
<1>8. EventsAreHeld'
  BY <1>1, <1>4 DEF WInv, EventsAreHeld
<1>9. SleepIsSafe'
  BY <1>1, <1>3 DEF WInv, SleepIsSafe, Lost, Blocks, Exclusively
<1>10. QueuedInPool'
  BY <1>1, <1>3, <1>4 DEF WInv, QueuedInPool
<1>11. OneAtATime'
  BY <1>0, <1>1, <1>3, <1>4 DEF WInv, OneAtATime
<1>12. RunsArePaid'
  BY <1>1 DEF WInv, RunsArePaid
<1> QED BY <1>6, <1>7, <1>8, <1>9, <1>10, <1>11, <1>12 DEF WInv

(* The take of a guard uses up what was remembered of its trigger.         *)
LEMMA TakeWInv == ASSUME WInv, IInv', NEW h \in Handlers, Take(h) PROVE WInv'
<1> DEFINE e0 == hent[h]
<1>0. e0 \in Entities /\ hpc[h] = "take" /\ Engaged(h)
  BY DEF Take, WInv, IInv, TypeOK, Engaged, Busy
<1>1. CASE e0 \notin Guards
  <2>1. PICK l \in {"clear", "clearOnly"} : hpc' = [hpc EXCEPT ![h] = l]
    BY DEF Take, Goto
  <2>2. /\ UNCHANGED <<inline, trig, arrived, started, raised, wake, event, seen, active>>
        /\ UNCHANGED <<spc, todo, waitSet, pool, hent>>
    BY <1>1 DEF Take, Goto, spinVars
  <2>3. \A k : Engaged(k)' => Engaged(k)
    BY <1>0, <2>1, <2>2 DEF Engaged, Busy, InPool, WInv, IInv, TypeOK
  <2>4. \A k : InPool(k) => InPool(k)'
    BY <2>2 DEF InPool
  <2>5. hpc[h] \notin {"free", "queued"} /\ hpc[h] \in UntakenLabels /\ l \in UntakenLabels
    BY <1>0 DEF UntakenLabels
  \* a source's handler has passed "take", which only matters for guards
  <2>6. /\ \A k \in Handlers : k # h => hpc'[k] = hpc[k]
        /\ hpc'[h] = l
    BY <2>1 DEF WInv, IInv, TypeOK
  <2>7. /\ \A k \in Handlers : \A e : HeldUntaken(k, e)' <=> HeldUntaken(k, e)
        /\ \A k \in Handlers : Holding(k)' <=> Holding(k)
    BY <1>0, <2>2, <2>5, <2>6 DEF HeldUntaken, Holding
  <2>8. ActiveInGroup' /\ ActiveMeansHeld'
    BY <2>2, <2>7 DEF WInv, ActiveInGroup, ActiveMeansHeld
  <2>9. EventsAreHeld'
    BY <2>2, <2>7 DEF WInv, EventsAreHeld
  <2>10. SleepIsSafe'
    BY <2>2, <2>6 DEF WInv, SleepIsSafe, Lost, Blocks, Exclusively
  <2>11. QueuedInPool' /\ OneAtATime'
    BY <2>2, <2>3, <2>4, <2>6 DEF WInv, QueuedInPool, OneAtATime
  <2>12. RunsArePaid'
    BY <2>2 DEF WInv, RunsArePaid
  <2> QED BY <2>8, <2>9, <2>10, <2>11, <2>12 DEF WInv
<1>2. CASE e0 \in Guards
  <2>1. /\ hpc' = [hpc EXCEPT ![h] = "clear"]
        /\ seen' = [seen EXCEPT ![e0] = FALSE]
        /\ started' = [started EXCEPT ![e0] = @ + 1]
        /\ UNCHANGED <<inline, trig, arrived, raised, wake, event, active>>
        /\ UNCHANGED <<spc, todo, waitSet, pool, hent>>
    BY <1>2 DEF Take, Goto, spinVars
  <2>2. /\ \A k \in Handlers : k # h => hpc'[k] = hpc[k]
        /\ hpc'[h] = "clear"
        /\ \A e \in Guards : seen'[e] <=> (e # e0 /\ seen[e])
        /\ \A e \in Guards : started'[e] = IF e = e0 THEN started[e] + 1 ELSE started[e]
    BY <2>1 DEF WInv, IInv, TypeOK
  <2>3. /\ \A k \in Handlers : \A e : HeldUntaken(k, e)' <=> HeldUntaken(k, e)
        /\ \A k \in Handlers : Holding(k)' <=> Holding(k)
        /\ \A k \in Handlers : Engaged(k)' <=> Engaged(k)
        /\ \A k : InPool(k)' <=> InPool(k)
    BY <1>0, <2>1, <2>2 DEF HeldUntaken, UntakenLabels, Holding, Engaged, Busy, InPool
  <2>4. ActiveInGroup' /\ ActiveMeansHeld'
    BY <2>1, <2>3 DEF WInv, ActiveInGroup, ActiveMeansHeld
  <2>5. EventsAreHeld'
    BY <2>1, <2>3 DEF WInv, EventsAreHeld
  <2>6. SleepIsSafe'
    BY <2>1, <2>2 DEF WInv, SleepIsSafe, Lost, Blocks, Exclusively
  <2>7. QueuedInPool'
    BY <2>2, <2>3 DEF WInv, QueuedInPool
  <2> HIDE DEF e0
  <2>8. OneAtATime'
    <3> SUFFICES ASSUME inline PROVE OneAtATime'
      BY <2>1 DEF OneAtATime
    <3>1. ASSUME NEW k \in Handlers, hpc'[k] \in {"queued", "begin", "take"} PROVE k # h /\ FALSE
      <4>1. k # h /\ hpc[k] \in {"queued", "begin", "take"}
        BY <2>2, <3>1
      <4>2. Engaged(k)
        BY <4>1 DEF WInv, QueuedInPool, Engaged, Busy
      <4> QED BY <1>0, <4>1, <4>2 DEF WInv, OneAtATime
    <3> QED BY <2>1, <2>3, <3>1 DEF WInv, OneAtATime
  <2>9. RunsArePaid'
    <3> SUFFICES ASSUME inline PROVE RunsArePaid'
      BY <2>1 DEF RunsArePaid
    <3>0. spc # "gather"
      BY <1>0 DEF WInv, OneAtATime
    <3>1. ASSUME NEW e \in Guards
          PROVE  started'[e] + (Owed(seen'[e]) + Owed(trig'[e])) <= arrived[e]
      <4>1. e = e0 => seen[e]
        BY <1>0, <1>2, <3>1 DEF e0, WInv, OneAtATime
      <4>2. /\ started[e] \in Nat
            /\ arrived[e] \in Nat
            /\ started[e] + (Owed(seen[e]) + Owed(trig[e])) <= arrived[e]
        BY <3>0, <3>1 DEF WInv, IInv, TypeOK, Entities, RunsArePaid
      <4>3. CASE e = e0
        BY <2>1, <2>2, <3>1, <4>1, <4>2, <4>3 DEF Owed
      <4>4. CASE e # e0
        BY <2>1, <2>2, <3>1, <4>2, <4>4 DEF Owed
      <4> QED BY <4>3, <4>4
    <3> QED BY <2>1, <3>0, <3>1 DEF RunsArePaid, Owed
  <2> QED BY <2>4, <2>5, <2>6, <2>7, <2>8, <2>9 DEF WInv
<1> QED BY <1>1, <1>2

(* A handler ends: it held nothing, or its take raised.                    *)
LEMMA EndsWInv ==
  ASSUME WInv, IInv', NEW h \in Handlers,
         hpc[h] \in {"take", "leave"},
         hpc' = [hpc EXCEPT ![h] = "free"],
         hent' = [hent EXCEPT ![h] = None],
         raised \subseteq raised',
         hpc[h] = "take" => hent[h] \in raised' /\ (wake => wake'),
         hpc[h] = "leave" => wake',
         UNCHANGED <<inline, trig, arrived, started, event, seen, active, spc, todo, waitSet, pool>>
  PROVE  WInv'
<1>1. /\ \A k \in Handlers : k # h => hpc'[k] = hpc[k] /\ hent'[k] = hent[k]
      /\ hpc'[h] = "free" /\ hent'[h] = None /\ hent[h] \in Entities
  BY DEF WInv, IInv, TypeOK
<1>2. /\ \A k \in Handlers, e \in Entities : HeldUntaken(k, e)' <=> (k # h /\ HeldUntaken(k, e))
      /\ \A e \in Entities : HeldUntaken(h, e) => e \in raised'
      /\ \A k \in Handlers : Holding(k)' <=> (k # h /\ Holding(k))
      /\ Holding(h) => hent[h] \in raised'
      /\ \A k \in Handlers : Engaged(k)' => Engaged(k)
      /\ \A k : InPool(k)' <=> InPool(k)
  BY <1>1 DEF HeldUntaken, UntakenLabels, Holding, Engaged, Busy, InPool
<1>3. ActiveInGroup'
  BY DEF WInv, ActiveInGroup
<1>4. ActiveMeansHeld'
  BY <1>1, <1>2 DEF WInv, ActiveMeansHeld
<1>5. EventsAreHeld'
  BY <1>2 DEF WInv, EventsAreHeld, Entities
<1>6. SleepIsSafe'
  <2>1. \A e \in Entities : Lost(e) => Lost(e)'
    BY DEF Lost, Exclusively
  <2>2. \A e \in Entities : Blocks(h, e) => e \in raised' \/ Lost(e)' \/ wake'
    BY DEF Blocks, Lost, Exclusively
  <2>3. \A e \in Entities, k \in Handlers : k # h /\ Blocks(k, e) => Blocks(k, e)'
    BY <1>1 DEF Blocks, Exclusively
  <2> QED BY <1>1, <2>1, <2>2, <2>3 DEF WInv, SleepIsSafe
<1>7. QueuedInPool'
  BY <1>1, <1>2 DEF WInv, QueuedInPool
<1>8. OneAtATime'
  BY <1>1, <1>2 DEF WInv, OneAtATime
<1>9. RunsArePaid'
  BY DEF WInv, RunsArePaid
<1> QED BY <1>3, <1>4, <1>5, <1>6, <1>7, <1>8, <1>9 DEF WInv

LEMMA TakeRaisesWInv == ASSUME WInv, IInv', NEW h \in Handlers, TakeRaises(h) PROVE WInv'
<1>1. /\ UNCHANGED <<inline, trig, arrived, started, event, seen, active, spc, todo, waitSet, pool>>
      /\ UNCHANGED wake
      /\ hpc[h] = "take" /\ hpc' = [hpc EXCEPT ![h] = "free"]
      /\ hent' = [hent EXCEPT ![h] = None]
      /\ raised \subseteq raised' /\ hent[h] \in raised'
  BY DEF TakeRaises, Done, spinVars
<1> QED BY <1>1, EndsWInv

(* Clearing the flag gives the source back to the wait set.                *)
LEMMA ClearsWInv == ASSUME WInv, IInv', NEW h \in Handlers, ClearEvent(h) PROVE WInv'
<1> DEFINE e0 == hent[h]
<1>0. e0 \in Entities /\ hpc[h] \in {"clear", "clearOnly", "reject"}
  BY DEF ClearEvent, WInv, IInv, TypeOK
<1>1. /\ UNCHANGED <<trig, arrived, started, raised, wake, seen, active, inline, spc, todo>>
      /\ UNCHANGED <<waitSet, pool, hent>>
      /\ event' = [event EXCEPT ![e0] = FALSE]
  BY DEF ClearEvent, Goto, workVars, spinVars
<1>2. PICK l \in {"notify", "notifyOnly", "leave"} :
        hpc' = [hpc EXCEPT ![h] = l] /\ (l = "leave" <=> hpc[h] = "reject")
  <2>1. CASE hpc[h] = "clear"
    BY <2>1 DEF ClearEvent, Goto
  <2>2. CASE hpc[h] = "clearOnly"
    BY <2>2 DEF ClearEvent, Goto
  <2>3. CASE hpc[h] = "reject"
    BY <2>3 DEF ClearEvent, Goto
  <2> QED BY <1>0, <2>1, <2>2, <2>3
<1>3. /\ \A k \in Handlers : k # h => hpc'[k] = hpc[k]
      /\ hpc'[h] = l
      /\ \A e \in Entities : event'[e] <=> (e # e0 /\ event[e])
  BY <1>1, <1>2 DEF WInv, IInv, TypeOK
<1>4. /\ \A k \in Handlers : \A e : HeldUntaken(k, e)' <=> (k # h /\ HeldUntaken(k, e))
      /\ HeldUntaken(h, e0)
      /\ \A e : HeldUntaken(h, e) => e = e0
      /\ \A k \in Handlers : Holding(k)' <=> Holding(k)
      /\ \A k \in Handlers : Engaged(k)' <=> Engaged(k)
      /\ \A k : InPool(k)' <=> InPool(k)
  BY <1>0, <1>1, <1>2, <1>3 DEF HeldUntaken, UntakenLabels, Holding, Engaged, Busy, InPool
<1> HIDE DEF e0
<1>5. ActiveInGroup' /\ ActiveMeansHeld'
  BY <1>1, <1>4 DEF WInv, ActiveInGroup, ActiveMeansHeld
<1>6. EventsAreHeld'
  <2>1. \A e \in Entities \ raised' : event'[e] => \E k \in Handlers : HeldUntaken(k, e)'
    BY <1>1, <1>3, <1>4 DEF WInv, EventsAreHeld
  <2>2. \A e \in Sources \ raised', k \in Handlers : HeldUntaken(k, e)' => event'[e]
    BY <1>1, <1>3, <1>4 DEF WInv, EventsAreHeld, Entities
  <2>3. \A e \in Sources \ raised', j, k \in Handlers :
           HeldUntaken(j, e)' /\ HeldUntaken(k, e)' => j = k
    BY <1>1, <1>4 DEF WInv, EventsAreHeld
  <2>4. /\ spc' = "gather" => \A e \in waitSet' \cap Sources : ~event'[e]
        /\ spc' = "offer" => \A e \in todo' \cap Sources : ~event'[e]
    BY <1>1, <1>3 DEF WInv, EventsAreHeld, Entities
  <2> QED BY <2>1, <2>2, <2>3, <2>4 DEF EventsAreHeld
<1>7. SleepIsSafe'
  BY <1>1, <1>3 DEF WInv, SleepIsSafe, Lost, Blocks, Exclusively
<1>8. QueuedInPool' /\ OneAtATime'
  BY <1>1, <1>3, <1>4 DEF WInv, QueuedInPool, OneAtATime
<1>9. RunsArePaid'
  BY <1>1 DEF WInv, RunsArePaid
<1> QED BY <1>5, <1>6, <1>7, <1>8, <1>9 DEF WInv

LEMMA TriggerWInv == ASSUME WInv, IInv', NEW h \in Handlers, Trigger(h) PROVE WInv'
<1>1. /\ UNCHANGED <<inline, trig, arrived, started, raised, event, seen, active>>
      /\ UNCHANGED <<spc, todo, waitSet, pool>>
      /\ wake' /\ hpc[h] \in {"notify", "notifyOnly", "leave"}
  BY DEF Trigger, workVars, spinVars
<1>2. CASE hpc[h] = "leave"
  <2>1. hpc' = [hpc EXCEPT ![h] = "free"] /\ hent' = [hent EXCEPT ![h] = None]
    BY <1>2 DEF Trigger, Done
  <2> QED BY <1>1, <1>2, <2>1, EndsWInv
<1>3. CASE hpc[h] \in {"notify", "notifyOnly"}
  <2>1. PICK l \in {"run", "endOnly"} : hpc' = [hpc EXCEPT ![h] = l] /\ UNCHANGED hent
    <3>1. CASE hpc[h] = "notify"
      BY <3>1 DEF Trigger, Goto
    <3>2. CASE hpc[h] = "notifyOnly"
      BY <3>2 DEF Trigger, Goto
    <3> QED BY <1>3, <3>1, <3>2
  <2>2. /\ \A k : Engaged(k)' => Engaged(k)
        /\ \A k : InPool(k) => InPool(k)'
    BY <1>1, <1>3, <2>1 DEF Engaged, Busy, InPool, WInv, IInv, TypeOK
  <2> QED BY <1>1, <1>3, <2>1, <2>2, MovesWInv DEF HandlerLabels, UntakenLabels
<1> QED BY <1>1, <1>2, <1>3

LEMMA CallbackWInv ==
  ASSUME WInv, IInv', NEW h \in Handlers, CallbackReturns(h) \/ CallbackSuspends(h) PROVE WInv'
<1>1. /\ UNCHANGED <<inline, trig, arrived, started, raised, wake, event, seen, active>>
      /\ UNCHANGED <<spc, todo, waitSet, pool, hent>>
      /\ hpc[h] = "run"
  BY DEF CallbackReturns, CallbackSuspends, Goto, workVars, spinVars
<1>2. PICK l \in {"end", "suspended"} : hpc' = [hpc EXCEPT ![h] = l]
  BY DEF CallbackReturns, CallbackSuspends, Goto
<1>3. /\ \A k : Engaged(k)' => Engaged(k)
      /\ \A k : InPool(k) => InPool(k)'
  BY <1>1, <1>2 DEF Engaged, Busy, InPool, WInv, IInv, TypeOK
<1> QED BY <1>1, <1>2, <1>3, MovesWInv DEF HandlerLabels, UntakenLabels

(* Leaving the group frees it, and it alone.                               *)
LEMMA EndingWInv == ASSUME WInv, IInv', NEW h \in Handlers, EndingExecution(h) PROVE WInv'
<1> DEFINE e0 == hent[h]
           g0 == GroupOf[e0]
<1>0. e0 \in Entities /\ hpc[h] \in {"end", "endOnly"}
  BY DEF EndingExecution, WInv, IInv, TypeOK
<1>1. /\ UNCHANGED <<trig, arrived, started, raised, wake, event, seen, inline, spc, todo>>
      /\ UNCHANGED <<waitSet, pool, hent>>
      /\ hpc' = [hpc EXCEPT ![h] = "leave"]
  BY DEF EndingExecution, Goto, workVars, spinVars
<1>2. /\ \A k \in Handlers : k # h => hpc'[k] = hpc[k]
      /\ hpc'[h] = "leave"
      /\ \A g \in Exclusive : active'[g] = IF Exclusively(e0) /\ g = g0 THEN None ELSE active[g]
  BY <1>1 DEF EndingExecution, WInv, IInv, TypeOK
<1>3. /\ \A k \in Handlers : \A e : HeldUntaken(k, e)' <=> HeldUntaken(k, e)
      /\ \A k \in Handlers : Holding(k)' <=> (k # h /\ Holding(k))
      /\ \A k \in Handlers : Engaged(k)' <=> Engaged(k)
      /\ \A k : InPool(k)' <=> InPool(k)
  BY <1>0, <1>1, <1>2 DEF HeldUntaken, UntakenLabels, Holding, Engaged, Busy, InPool
<1>4. ActiveInGroup'
  BY <1>2 DEF WInv, ActiveInGroup
<1>5. ActiveMeansHeld'
  <2> SUFFICES ASSUME NEW g \in Exclusive, active'[g] # None, active'[g] \notin raised
               PROVE  \E k \in Handlers : Holding(k)' /\ hent'[k] = active'[g]
    BY <1>1 DEF ActiveMeansHeld
  <2>1. active'[g] = active[g] /\ ~(Exclusively(e0) /\ g = g0) /\ GroupOf[active[g]] = g
    BY <1>2 DEF WInv, ActiveInGroup
  <2>2. PICK k \in Handlers : Holding(k) /\ hent[k] = active[g]
    BY <2>1 DEF WInv, ActiveMeansHeld
  <2>3. k # h
    BY <2>1, <2>2 DEF Exclusively
  <2> QED BY <1>1, <1>3, <2>1, <2>2, <2>3
<1>6. EventsAreHeld'
  BY <1>1, <1>3 DEF WInv, EventsAreHeld
<1>7. SleepIsSafe'
  BY <1>1, <1>2 DEF WInv, SleepIsSafe, Lost, Blocks, Exclusively
<1>8. QueuedInPool' /\ OneAtATime'
  BY <1>1, <1>2, <1>3 DEF WInv, QueuedInPool, OneAtATime
<1>9. RunsArePaid'
  BY <1>1 DEF WInv, RunsArePaid
<1> QED BY <1>4, <1>5, <1>6, <1>7, <1>8, <1>9 DEF WInv

LEMMA NextWInv == WInv /\ [Next]_vars => WInv'
<1> SUFFICES ASSUME WInv, [Next]_vars PROVE WInv'
  OBVIOUS
<1>1. IInv'
  BY NextIInv DEF WInv
<1>2. CASE UNCHANGED vars
  <2>1. /\ UNCHANGED <<trig, arrived, started, raised, wake, event, seen, active, inline, spc, todo>>
        /\ UNCHANGED <<waitSet, pool, hpc, hent>>
    BY <1>2 DEF vars, workVars, spinVars
  <2> QED BY <1>1, <2>1 DEF WInv, ActiveInGroup, ActiveMeansHeld, EventsAreHeld, HeldUntaken, Holding,
     SleepIsSafe, Lost, Blocks, Exclusively, QueuedInPool, OneAtATime, Engaged, Busy, InPool,
     RunsArePaid
<1>3. ASSUME NEW h \in Handlers, Handle(h) PROVE WInv'
  BY <1>1, <1>3, BeginningWInv, TakeWInv, TakeRaisesWInv, ClearsWInv, TriggerWInv, CallbackWInv,
     EndingWInv DEF Handle, TakeFromWaitList
<1> QED BY <1>1, <1>2, <1>3, ArriveWInv, VanishWInv, AwaitedWInv, SpinnerWInv, DispatchWInv DEF Next

(* The accounts hold in every reachable state.                             *)
THEOREM AccountsHold == Spec => []WInv
<1> QED BY InitWInv, NextWInv, PTL DEF Spec

(* Whatever handlers, groups and triggers interleave: a group is active on *)
(* behalf of a callback that will end it, _executor_event stands for the   *)
(* one handler that has not taken its source's work, the spinner blocks    *)
(* without handlers only if nothing is left to do, and a single thread     *)
(* runs a guard's callback at most once per trigger - but for what a take  *)
(* that raised has lost.                                                   *)
THEOREM WorkIsAccountedFor == Spec => []NoWorkIsLost
<1>1. WInv => EventMeansOneHandler
  <2> SUFFICES ASSUME WInv, NEW e \in Sources \ raised
               PROVE  Cardinality(Untaken(e)) = IF event[e] THEN 1 ELSE 0
    BY DEF EventMeansOneHandler
  <2>1. \A h \in Handlers : HeldUntaken(h, e) <=> h \in Untaken(e)
    BY DEF HeldUntaken, UntakenLabels, Untaken
  <2>2. CASE event[e]
    <3>1. PICK h \in Handlers : HeldUntaken(h, e)
      BY <2>2 DEF WInv, EventsAreHeld, Entities
    <3>2. Untaken(e) = {h}
      BY <2>1, <3>1 DEF WInv, EventsAreHeld, Untaken
    <3>3. Cardinality(Untaken(e)) = 1
      BY <3>2, FS_Singleton
    <3> QED BY <2>2, <3>3
  <2>3. CASE ~event[e]
    <3>1. Untaken(e) = {}
      BY <2>1, <2>3 DEF WInv, EventsAreHeld, Untaken
    <3>2. Cardinality(Untaken(e)) = 0
      BY <3>1, FS_EmptySet
    <3> QED BY <2>3, <3>2
  <2> QED BY <2>2, <2>3
<1>2. WInv => NothingForgotten
  <2> SUFFICES ASSUME WInv, SpinnerBlocks, \A h \in Handlers : hpc[h] = "free",
                      NEW e \in Entities, ~Lost(e)
               PROVE  /\ e \in Sources => e \in raised \/ data[e] = 0
                      /\ e \in Guards => ~trig[e] /\ ~seen[e]
                      /\ Exclusively(e) => active[GroupOf[e]] = None
    BY DEF NothingForgotten
  <2>1. spc = "gather" /\ todo = {} /\ ~wake /\ ReadySources = {} /\ ReadyGuards = {}
    BY DEF SpinnerBlocks
  <2>2. e \in raised \/ e \in waitSet
    BY <2>1 DEF WInv, SleepIsSafe
  <2>3. e \in Sources => e \in raised \/ data[e] = 0
    BY <2>1, <2>2 DEF ReadySources, WInv, IInv, TypeOK
  <2>4. e \in Guards => ~trig[e] /\ ~seen[e]
    <3> SUFFICES ASSUME e \in Guards PROVE ~trig[e] /\ ~seen[e]
      OBVIOUS
    <3>1. e \in waitSet
      BY <2>2, EntitiesAssumption DEF WInv, IInv, TypeOK
    <3> QED BY <2>1, <3>1 DEF ReadyGuards, WInv, SleepIsSafe
  <2>5. Exclusively(e) => active[GroupOf[e]] = None
    BY DEF WInv, ActiveMeansHeld, ActiveInGroup, Lost, Holding, Exclusively
  <2> QED BY <2>3, <2>4, <2>5
<1>3. WInv => GuardRunsOncePerTrigger
  <2> SUFFICES ASSUME WInv, inline, NEW e \in Guards PROVE started[e] <= arrived[e]
    BY DEF GuardRunsOncePerTrigger
  <2>1. started[e] \in Nat /\ arrived[e] \in Nat
    BY DEF WInv, IInv, TypeOK, Entities
  <2>2. \A p : Owed(p) \in {0, 1}
    BY DEF Owed
  <2> QED BY <2>1, <2>2 DEF WInv, RunsArePaid
<1>4. WInv => ActiveMeansHeld
  BY DEF WInv
<1>5. WInv => NoWorkIsLost
  BY <1>1, <1>2, <1>3, <1>4 DEF NoWorkIsLost
<1> QED BY <1>5, AccountsHold, PTL

-----------------------------------------------------------------------------
(* The executor implements CallbackDispatch: every step is a step of the   *)
(* promise or leaves its variables alone.                                  *)

ExecutingLabels == {"clear", "notify", "run", "suspended", "resumable", "end"}

Executes(h) == hent[h] \in Sources /\ hpc[h] \in ExecutingLabels

Executing(e) == {h \in Handlers : hent[h] = e /\ hpc[h] \in ExecutingLabels}

Counts == [e \in Sources |-> Cardinality(Executing(e))]

Arrivals == [e \in Sources |-> arrived[e]]

(* The substitution of the instance, in these names.                       *)
LEMMA PromiseIsMapped ==
  /\ Promise!vars = <<Arrivals, data, Counts>>
  /\ Promise!vars' = <<Arrivals', data', Counts'>>
  /\ Promise!Init <=> /\ Arrivals = [e \in Sources |-> 0]
                      /\ data = [e \in Sources |-> 0]
                      /\ Counts = [e \in Sources |-> 0]
<1> QED BY DEF Promise!vars, Promise!Init, Arrivals, Counts, Executing, ExecutingLabels

LEMMA CountsAreNatural == \A e \in Sources : IsFiniteSet(Executing(e)) /\ Counts[e] \in Nat
<1> SUFFICES ASSUME NEW e \in Sources PROVE IsFiniteSet(Executing(e)) /\ Counts[e] \in Nat
  OBVIOUS
<1>1. Executing(e) \in SUBSET Handlers
  BY DEF Executing
<1>2. IsFiniteSet(Executing(e))
  BY <1>1, HandlersAssumption, FS_Subset
<1> QED BY <1>2, FS_CardinalityType DEF Counts

(* One handler moves: the counts change by what it enters and leaves.      *)
LEMMA OneMoves ==
  ASSUME NEW h \in Handlers, \A k \in Handlers \ {h} : hpc'[k] = hpc[k] /\ hent'[k] = hent[k]
  PROVE  /\ (Executes(h)' <=> Executes(h)) /\ (Executes(h) => hent'[h] = hent[h]) => Counts' = Counts
         /\ ~Executes(h) /\ Executes(h)' /\ hent'[h] \in Sources =>
              Counts' = [Counts EXCEPT ![hent'[h]] = @ + 1]
         /\ Executes(h) /\ ~Executes(h)' /\ hent[h] \in Sources =>
              Counts' = [Counts EXCEPT ![hent[h]] = @ - 1]
<1>0. \A k \in Handlers \ {h} : \A e : k \in Executing(e)' <=> k \in Executing(e)
  BY DEF Executing
<1>1. ASSUME Executes(h)' <=> Executes(h), Executes(h) => hent'[h] = hent[h] PROVE Counts' = Counts
  <2>1. \A e \in Sources : Executing(e)' = Executing(e)
    BY <1>0, <1>1 DEF Executing, Executes
  <2> QED BY <2>1 DEF Counts
<1>2. ASSUME ~Executes(h), Executes(h)', hent'[h] \in Sources
      PROVE  Counts' = [Counts EXCEPT ![hent'[h]] = @ + 1]
  <2>1. PICK e \in Sources : e = hent'[h]
    BY <1>2
  <2>2. Executing(e)' = Executing(e) \cup {h} /\ h \notin Executing(e)
    BY <1>0, <1>2, <2>1 DEF Executing, Executes
  <2>3. \A o \in Sources : o # e => Executing(o)' = Executing(o)
    BY <1>0, <1>2, <2>1 DEF Executing, Executes
  <2>4. Cardinality(Executing(e)') = Cardinality(Executing(e)) + 1
    BY <2>2, CountsAreNatural, FS_AddElement
  <2> QED BY <2>1, <2>3, <2>4 DEF Counts
<1>3. ASSUME Executes(h), ~Executes(h)', hent[h] \in Sources
      PROVE  Counts' = [Counts EXCEPT ![hent[h]] = @ - 1]
  <2>1. PICK e \in Sources : e = hent[h]
    BY <1>3
  <2>2. Executing(e)' = Executing(e) \ {h} /\ h \in Executing(e)
    BY <1>0, <1>3, <2>1 DEF Executing, Executes
  <2>3. \A o \in Sources : o # e => Executing(o)' = Executing(o)
    BY <1>0, <1>3, <2>1 DEF Executing, Executes
  <2>4. Cardinality(Executing(e)') = Cardinality(Executing(e)) - 1
    BY <2>2, CountsAreNatural, FS_RemoveElement
  <2> QED BY <2>1, <2>3, <2>4 DEF Counts
<1> QED BY <1>1, <1>2, <1>3

(* A handler goes on without its callback beginning or ending.             *)
LEMMA MovesStutter ==
  ASSUME NEW h \in Handlers, \A k \in Handlers \ {h} : hpc'[k] = hpc[k] /\ hent'[k] = hent[k],
         Executes(h)' <=> Executes(h), Executes(h) => hent'[h] = hent[h],
         UNCHANGED <<arrived, data>>
  PROVE  [Promise!Next]_(Promise!vars)
<1>1. Counts' = Counts
  BY OneMoves
<1>2. Arrivals' = Arrivals
  BY DEF Arrivals
<1> QED BY <1>1, <1>2, PromiseIsMapped

LEMMA OthersStutter ==
  ASSUME UNCHANGED <<arrived, data, hpc, hent>> PROVE [Promise!Next]_(Promise!vars)
<1>1. Counts' = Counts
  BY DEF Counts, Executing, ExecutingLabels
<1>2. Arrivals' = Arrivals
  BY DEF Arrivals
<1> QED BY <1>1, <1>2, PromiseIsMapped

LEMMA ArriveSimulates ==
  ASSUME IInv, NEW e \in Entities, Arrive(e) PROVE [Promise!Next]_(Promise!vars)
<1>0. arrived \in [Entities -> Nat] /\ data \in [Sources -> Nat]
  BY DEF IInv, TypeOK
<1>1. Counts' = Counts
  BY DEF Arrive, Counts, Executing, ExecutingLabels
<1>2. CASE e \in Sources
  <2>1. Arrivals[e] < MaxArrivals /\ Arrivals' = [Arrivals EXCEPT ![e] = @ + 1]
    BY <1>0, <1>2 DEF Arrive, Arrivals, Entities
  <2>2. data' = [data EXCEPT ![e] = @ + 1]
    BY <1>2, EntitiesAssumption DEF Arrive
  <2>3. Promise!Arrive(e)
    BY <1>1, <2>1, <2>2 DEF Promise!Arrive, Arrivals, Counts, Executing, ExecutingLabels
  <2> QED BY <1>2, <2>3 DEF Promise!Next
<1>3. CASE e \notin Sources
  <2>1. Arrivals' = Arrivals /\ data' = data
    BY <1>0, <1>3 DEF Arrive, Arrivals, Entities
  <2> QED BY <1>1, <2>1, PromiseIsMapped
<1> QED BY <1>2, <1>3

(* The work of e disappears, no callback begins.                           *)
LEMMA ExpireSimulates ==
  ASSUME NEW e \in Sources, data[e] > 0, data' = [data EXCEPT ![e] = @ - 1], UNCHANGED arrived,
         Counts' = Counts
  PROVE  [Promise!Next]_(Promise!vars)
<1>1. Arrivals' = Arrivals
  BY DEF Arrivals
<1>2. Promise!Expire(e)
  BY <1>1 DEF Promise!Expire, Arrivals, Counts, Executing, ExecutingLabels
<1> QED BY <1>2 DEF Promise!Next

(* A take with something to take begins a callback: the handler holds the  *)
(* group, so no rival of its entity is executing.                          *)
LEMMA TakeSimulates ==
  ASSUME IInv, NEW h \in Handlers, Take(h) PROVE [Promise!Next]_(Promise!vars)
<1>0. /\ hpc \in [Handlers -> HandlerLabels] /\ hent \in [Handlers -> Entities \cup {None}]
      /\ data \in [Sources -> Nat] /\ hpc[h] = "take" /\ hent[h] \in Entities
  BY DEF Take, IInv, TypeOK
<1>1. \A k \in Handlers \ {h} : hpc'[k] = hpc[k] /\ hent'[k] = hent[k]
  BY <1>0 DEF Take, Goto
<1>2. ~Executes(h) /\ hent'[h] = hent[h] /\ UNCHANGED arrived
  BY <1>0 DEF Take, Goto, Executes, ExecutingLabels
<1>3. CASE hent[h] \in Sources /\ data[hent[h]] > 0
  <2>1. PICK e \in Sources : e = hent[h]
    BY <1>3
  <2>2. /\ data[e] > 0 /\ data' = [data EXCEPT ![e] = @ - 1]
        /\ hpc'[h] = "clear"
    BY <1>0, <1>3, <2>1, EntitiesAssumption DEF Take, Goto
  <2>3. Counts' = [Counts EXCEPT ![e] = @ + 1]
    BY <1>1, <1>2, <1>3, <2>1, <2>2, OneMoves DEF Executes, ExecutingLabels
  <2>4. \A o \in Promise!Rivals(e) : Counts[o] = 0
    <3> SUFFICES ASSUME NEW o \in Promise!Rivals(e) PROVE Counts[o] = 0
      OBVIOUS
    <3>1. o \in Sources /\ Exclusively(e) /\ GroupOf[o] = GroupOf[e]
      BY DEF Promise!Rivals, Exclusively
    <3>2. Executing(o) = {}
      <4> SUFFICES ASSUME NEW k \in Executing(o) PROVE FALSE
        OBVIOUS
      <4>1. k \in Handlers /\ hent[k] = o /\ hpc[k] \in ExecutingLabels
        BY DEF Executing
      <4>2. Holding(k) /\ Holding(h)
        BY <1>0, <4>1 DEF ExecutingLabels, Holding
      <4>3. k = h
        BY <2>1, <3>1, <4>1, <4>2 DEF IInv, MutualExclusion
      <4> QED BY <1>0, <4>1, <4>3 DEF ExecutingLabels
    <3> QED BY <3>1, <3>2, FS_EmptySet DEF Counts
  <2>5. Arrivals' = Arrivals
    BY <1>2 DEF Arrivals
  <2>6. Promise!Start(e)
    BY <2>2, <2>3, <2>4, <2>5 DEF Promise!Start, Arrivals, Counts, Executing, ExecutingLabels
  <2> QED BY <2>6 DEF Promise!Next
<1>4. CASE ~(hent[h] \in Sources /\ data[hent[h]] > 0)
  <2>1. UNCHANGED data /\ ~Executes(h)'
    <3>1. CASE hent[h] \in Guards
      BY <1>0, <1>2, <1>4, <3>1, EntitiesAssumption DEF Take, Goto, Executes, ExecutingLabels
    <3>2. CASE hent[h] \notin Guards
      BY <1>0, <1>4, <3>2 DEF Take, Goto, Executes, ExecutingLabels, Entities
    <3> QED BY <3>1, <3>2
  <2> QED BY <1>1, <1>2, <2>1, MovesStutter
<1> QED BY <1>3, <1>4

LEMMA TakeRaisesSimulates ==
  ASSUME IInv, NEW h \in Handlers, TakeRaises(h) PROVE [Promise!Next]_(Promise!vars)
<1>1. /\ \A k \in Handlers \ {h} : hpc'[k] = hpc[k] /\ hent'[k] = hent[k]
      /\ ~Executes(h) /\ ~Executes(h)'
  BY DEF TakeRaises, Done, IInv, TypeOK, Executes, ExecutingLabels
<1>2. Counts' = Counts
  BY <1>1, OneMoves
<1>3. PICK e \in Sources : e = hent[h]
  BY FlagsAssumption DEF TakeRaises
<1> QED BY <1>2, <1>3, ExpireSimulates DEF TakeRaises

(* The group is released: the callback of a source ends, if it had begun.  *)
LEMMA EndingSimulates ==
  ASSUME IInv, NEW h \in Handlers, EndingExecution(h) PROVE [Promise!Next]_(Promise!vars)
<1>1. /\ \A k \in Handlers \ {h} : hpc'[k] = hpc[k] /\ hent'[k] = hent[k]
      /\ UNCHANGED <<arrived, data>> /\ ~Executes(h)' /\ (Executes(h) => hent[h] \in Sources)
  BY DEF EndingExecution, Goto, IInv, TypeOK, Executes, ExecutingLabels, workVars
<1>2. CASE Executes(h)
  <2>1. PICK e \in Sources : e = hent[h]
    BY <1>1, <1>2
  <2>2. Counts' = [Counts EXCEPT ![e] = @ - 1]
    BY <1>1, <1>2, <2>1, OneMoves
  <2>3. Counts[e] > 0
    <3>1. h \in Executing(e)
      BY <1>2, <2>1 DEF Executing, Executes
    <3>2. Cardinality(Executing(e)) # 0
      BY <3>1, CountsAreNatural, FS_EmptySet
    <3> QED BY <3>2, CountsAreNatural DEF Counts
  <2>4. Arrivals' = Arrivals
    BY <1>1 DEF Arrivals
  <2>5. Promise!Finish(e)
    BY <1>1, <2>2, <2>3, <2>4 DEF Promise!Finish, Arrivals, Counts, Executing, ExecutingLabels
  <2> QED BY <2>5 DEF Promise!Next
<1>3. CASE ~Executes(h)
  BY <1>1, <1>3, MovesStutter
<1> QED BY <1>2, <1>3

LEMMA HandleSimulates ==
  ASSUME IInv, NEW h \in Handlers, Handle(h) PROVE [Promise!Next]_(Promise!vars)
<1>0. hpc \in [Handlers -> HandlerLabels] /\ hent \in [Handlers -> Entities \cup {None}]
  BY DEF IInv, TypeOK
<1> USE DEF Goto, Done, workVars, Executes, ExecutingLabels
<1>1. CASE BeginningExecution(h)
  <2>1. /\ \A k \in Handlers \ {h} : hpc'[k] = hpc[k] /\ hent'[k] = hent[k]
        /\ ~Executes(h) /\ ~Executes(h)' /\ UNCHANGED <<arrived, data>>
    BY <1>0, <1>1 DEF BeginningExecution
  <2> QED BY <2>1, MovesStutter
<1>2. CASE TakeFromWaitList(h)
  BY <1>2, TakeSimulates, TakeRaisesSimulates DEF TakeFromWaitList
<1>3. CASE ClearEvent(h)
  <2>1. /\ \A k \in Handlers \ {h} : hpc'[k] = hpc[k] /\ hent'[k] = hent[k]
        /\ hent'[h] = hent[h] /\ UNCHANGED <<arrived, data>>
    BY <1>0, <1>3 DEF ClearEvent
  <2>2. Executes(h)' <=> Executes(h)
    <3>1. CASE hpc[h] = "clear"
      BY <1>0, <1>3, <2>1, <3>1 DEF ClearEvent
    <3>2. CASE hpc[h] # "clear"
      BY <1>0, <1>3, <2>1, <3>2 DEF ClearEvent
    <3> QED BY <3>1, <3>2
  <2> HIDE DEF Executes
  <2> QED BY <2>1, <2>2, MovesStutter
<1>4. CASE Trigger(h)
  <2>1. /\ \A k \in Handlers \ {h} : hpc'[k] = hpc[k] /\ hent'[k] = hent[k]
        /\ UNCHANGED <<arrived, data>>
    BY <1>0, <1>4 DEF Trigger
  <2>2. (Executes(h)' <=> Executes(h)) /\ (Executes(h) => hent'[h] = hent[h])
    <3>1. CASE hpc[h] = "notify"
      BY <1>0, <1>4, <3>1 DEF Trigger
    <3>2. CASE hpc[h] # "notify"
      BY <1>0, <1>4, <3>2 DEF Trigger
    <3> QED BY <3>1, <3>2
  <2> HIDE DEF Executes
  <2> QED BY <2>1, <2>2, MovesStutter
<1>5. CASE CallbackReturns(h) \/ CallbackSuspends(h)
  <2>1. /\ \A k \in Handlers \ {h} : hpc'[k] = hpc[k] /\ hent'[k] = hent[k]
        /\ (Executes(h)' <=> Executes(h)) /\ hent'[h] = hent[h] /\ UNCHANGED <<arrived, data>>
    BY <1>0, <1>5 DEF CallbackReturns, CallbackSuspends
  <2> HIDE DEF Executes
  <2> QED BY <2>1, MovesStutter
<1>6. CASE EndingExecution(h)
  BY <1>6, EndingSimulates
<1> QED BY <1>1, <1>2, <1>3, <1>4, <1>5, <1>6 DEF Handle

LEMMA SpinnerSimulates == ASSUME IInv, Spinner PROVE [Promise!Next]_(Promise!vars)
<1>1. ASSUME NEW e \in Entities, Offer(e) PROVE [Promise!Next]_(Promise!vars)
  <2>1. PICK h \in Handlers : h = NewHandler /\ hpc[h] = "free"
    BY <1>1 DEF Offer, FreeHandlers, NewHandler
  <2>2. /\ \A k \in Handlers \ {h} : hpc'[k] = hpc[k] /\ hent'[k] = hent[k]
        /\ ~Executes(h) /\ ~Executes(h)' /\ UNCHANGED <<arrived, data>>
    BY <1>1, <2>1 DEF Offer, IInv, TypeOK, workVars, Executes, ExecutingLabels
  <2> QED BY <2>2, MovesStutter
<1>2. CASE \A e \in Entities : ~Offer(e)
  <2>1. UNCHANGED <<arrived, data, hpc, hent>>
    BY <1>2 DEF Spinner, CountReadyTasks, YieldReadyTask, StartGathering, WaitReturns, EndOfPass,
       Gather, Skip, workVars
  <2> QED BY <2>1, OthersStutter
<1> QED BY <1>1, <1>2

(* Each step of the executor, seen from its sources' work, is a step of    *)
(* the promise or a stutter.                                               *)
LEMMA NextSimulates == IInv /\ [Next]_vars => [Promise!Next]_(Promise!vars)
<1> SUFFICES ASSUME IInv, [Next]_vars PROVE [Promise!Next]_(Promise!vars)
  OBVIOUS
<1>0. hpc \in [Handlers -> HandlerLabels] /\ hent \in [Handlers -> Entities \cup {None}]
  BY DEF IInv, TypeOK
<1>1. ASSUME NEW e \in Sources, Vanish(e) PROVE [Promise!Next]_(Promise!vars)
  <2>1. Counts' = Counts
    BY <1>1 DEF Vanish, Counts, Executing
  <2> QED BY <1>1, <2>1, ExpireSimulates DEF Vanish
<1>2. ASSUME NEW h \in Handlers, AwaitedIsDone(h) PROVE [Promise!Next]_(Promise!vars)
  <2>1. /\ \A k \in Handlers \ {h} : hpc'[k] = hpc[k] /\ hent'[k] = hent[k]
        /\ (Executes(h)' <=> Executes(h)) /\ hent'[h] = hent[h] /\ UNCHANGED <<arrived, data>>
    BY <1>0, <1>2 DEF AwaitedIsDone, workVars, Executes, ExecutingLabels
  <2> QED BY <2>1, MovesStutter
<1>3. CASE Dispatch
  <2>1. pool \in Seq(Handlers) /\ pool # <<>>
    BY <1>3 DEF Dispatch, IInv, TypeOK
  <2>2. PICK h \in Handlers : h = Head(pool) /\ hpc[h] \in {"queued", "resumable"}
    BY <2>1 DEF IInv, QueuesHoldWaiters
  <2>3. /\ \A k \in Handlers \ {h} : hpc'[k] = hpc[k] /\ hent'[k] = hent[k]
        /\ (Executes(h)' <=> Executes(h)) /\ hent'[h] = hent[h] /\ UNCHANGED <<arrived, data>>
    BY <1>0, <1>3, <2>2 DEF Dispatch, Goto, workVars, Executes, ExecutingLabels
  <2> QED BY <2>3, MovesStutter
<1>4. CASE UNCHANGED vars
  BY <1>4, OthersStutter DEF vars, workVars
<1> QED BY <1>1, <1>2, <1>3, <1>4, ArriveSimulates, SpinnerSimulates, HandleSimulates DEF Next

(* Towards its sources the executor keeps the promise of CallbackDispatch, *)
(* fairness apart: a callback begins only for work that arrived, once for  *)
(* each piece, and never while a rival of its group is executing.          *)
THEOREM PromiseKept == Spec => Promise!Spec
<1>1. Init => Promise!Init
  <2> SUFFICES ASSUME Init PROVE Promise!Init
    OBVIOUS
  <2>1. \A e \in Sources : Executing(e) = {}
    BY DEF Init, Executing, ExecutingLabels
  <2>2. Counts = [e \in Sources |-> 0]
    BY <2>1, FS_EmptySet DEF Counts
  <2>3. Arrivals = [e \in Sources |-> 0]
    BY DEF Init, Arrivals, Entities
  <2> QED BY <2>2, <2>3, PromiseIsMapped DEF Init
<1> QED BY <1>1, NextSimulates, Invariance, PTL DEF Spec, Promise!Spec

-------------------------------------------------------------------------------
(* spin_until_future_complete *)

UntilTypeOK ==
    /\ kind \in {"none", "own", "other"} /\ multi \in BOOLEAN
    /\ future \in {"pending", "finished", "cancelled"}
    /\ wakeOnDone \in BOOLEAN /\ settling \in BOOLEAN /\ guard \in BOOLEAN /\ entityReady \in BOOLEAN
    /\ down \in SUBSET {"executor", "context"} /\ signal \in SUBSET {"executor", "context"}
    /\ readyTasks \in Seq({"wake", "task"})
    /\ timer \in {"none", "armed", "fired"} /\ bound \in {"none", "forever", "limited", "zero"}
    /\ gen \in {"none", "tasks", "timer"} /\ head \in Nat
    /\ pc \in {"idle", "test", "next", "head", "tasks", "wait", "woken", "timer", "wake", "task", "clock"}

(* A call has its wake callback on a pending future; once the call is past   *)
(* its test, the callback has run, or is about to run, when the future is.   *)
FutureIsWatched ==
    /\ pc # "idle" /\ future = "pending" => wakeOnDone
    /\ settling => future # "pending"
    /\ pc \in {"next", "tasks", "wait"} /\ future = "finished" /\ kind # "other" =>
          guard \/ (settling /\ wakeOnDone)

(* The guard of a shutdown cannot be cleared by a wait without being seen.   *)
ShutdownIsSignalled ==
    pc \in {"next", "head", "tasks", "wait", "timer"} /\ down # {} => guard \/ signal # {}

(* The generator of a call with a timeout, suspended or not, has its timer.  *)
TimerIsSet ==
    bound = "limited" /\ (gen # "none" \/ pc \in {"head", "tasks", "wait", "woken", "timer"}) => timer # "none"

(* A task that was queued after the loop over the tasks began, which may be  *)
(* suspended between two calls, has triggered the guard.                     *)
LoopOverTasks == pc = "tasks" \/ (gen = "tasks" /\ pc \in {"wake", "task", "clock", "idle", "test", "next"})
TasksAreSignalled ==
    /\ LoopOverTasks => head <= Len(readyTasks) /\ (guard \/ head = Len(readyTasks))
    /\ pc = "wait" => guard \/ readyTasks = <<>>

UInv == UntilTypeOK /\ FutureIsWatched /\ ShutdownIsSignalled /\ TimerIsSet /\ TasksAreSignalled

LEMMA InitUInv == Until!Init => UInv
<1> SUFFICES ASSUME Until!Init PROVE UInv
  OBVIOUS
<1>1. readyTasks \in Seq({"wake", "task"})
  BY DEF Until!Init
<1>2. UntilTypeOK
  BY <1>1 DEF Until!Init, UntilTypeOK
<1>3. FutureIsWatched /\ ShutdownIsSignalled /\ TimerIsSet /\ TasksAreSignalled
  BY DEF Until!Init, FutureIsWatched, ShutdownIsSignalled, TimerIsSet, TasksAreSignalled, LoopOverTasks
<1> QED
  BY <1>2, <1>3 DEF UInv

(* What is put at the end of a queue lengthens it by one.                    *)
LEMMA Appended ==
    ASSUME NEW S, NEW s \in Seq(S), NEW x \in S
    PROVE  Append(s, x) \in Seq(S) /\ Len(Append(s, x)) = Len(s) + 1
OBVIOUS

(* A call begins or ends, with what add_done_callback does at once.          *)
LEMMA EnterUInv == UInv /\ Until!Enter => UInv'
<1> SUFFICES ASSUME UInv, Until!Enter PROVE UInv'
  OBVIOUS
<1>1. readyTasks \in Seq({"wake", "task"}) /\ Len(readyTasks) \in Nat
  BY DEF UInv, UntilTypeOK
<1>2. /\ guard => guard'
      /\ guard' \in BOOLEAN /\ wakeOnDone' \in BOOLEAN /\ (future = "pending" => wakeOnDone')
      /\ readyTasks' = readyTasks \/ (readyTasks' = Append(readyTasks, "wake") /\ guard')
      /\ future # "pending" /\ kind # "other" => guard'
  BY DEF Until!Enter, Until!AddWakeOnDone, UInv, UntilTypeOK
<1>3. /\ readyTasks' \in Seq({"wake", "task"}) /\ Len(readyTasks') \in Nat
      /\ readyTasks' = readyTasks \/ (Len(readyTasks') = Len(readyTasks) + 1 /\ guard')
  BY <1>1, <1>2, Appended
<1>4. UntilTypeOK'
  BY <1>2, <1>3 DEF Until!Enter, UInv, UntilTypeOK
<1>5. FutureIsWatched' /\ ShutdownIsSignalled' /\ TimerIsSet'
  BY <1>2 DEF Until!Enter, UInv, UntilTypeOK, FutureIsWatched, ShutdownIsSignalled, TimerIsSet
<1>6. TasksAreSignalled'
  BY <1>1, <1>2, <1>3 DEF Until!Enter, UInv, UntilTypeOK, TasksAreSignalled, LoopOverTasks
<1> QED
  BY <1>4, <1>5, <1>6 DEF UInv

LEMMA SpinUInv ==
    ASSUME UInv,
           \/ Until!Test \/ Until!Resume \/ Until!Loop \/ Until!Gather \/ Until!Wait
           \/ Until!Woken \/ Until!CheckTimer \/ Until!Run \/ Until!Clock
    PROVE  UInv'
<1> USE DEF Until!call, Until!around, Until!iter
<1>1. UntilTypeOK'
  <2>1. wakeOnDone' \in BOOLEAN /\ settling' \in BOOLEAN /\ guard' \in BOOLEAN /\ entityReady' \in BOOLEAN
    BY DEF UInv, UntilTypeOK, Until!Test, Until!Resume, Until!Loop, Until!Gather, Until!Wait, Until!Woken,
       Until!YieldItem, Until!CheckTimer, Until!Run, Until!Clock
  <2>2. UNCHANGED <<kind, multi, future, down, signal, readyTasks, bound>>
    BY DEF Until!Test, Until!Resume, Until!Loop, Until!Gather, Until!Wait, Until!Woken, Until!CheckTimer,
       Until!Run, Until!Clock
  <2>3. gen' \in {"none", "tasks", "timer"} /\ head' \in Nat /\ timer' \in {"none", "armed", "fired"}
    BY DEF UInv, UntilTypeOK, Until!Test, Until!Resume, Until!Loop, Until!Gather, Until!Wait, Until!Woken,
       Until!YieldItem, Until!CheckTimer, Until!Run, Until!Clock
  <2>4. pc' \in {"idle", "test", "next", "head", "tasks", "wait", "woken", "timer", "wake", "task", "clock"}
    BY DEF UInv, UntilTypeOK, Until!Test, Until!Resume, Until!Loop, Until!Gather, Until!Wait, Until!Woken,
       Until!YieldItem, Until!CheckTimer, Until!Run, Until!Clock
  <2> QED
    BY <2>1, <2>2, <2>3, <2>4 DEF UInv, UntilTypeOK
<1>2. FutureIsWatched'
  BY DEF UInv, UntilTypeOK, FutureIsWatched, Until!Test, Until!Resume, Until!Loop, Until!Gather, Until!Wait,
     Until!Woken, Until!YieldItem, Until!CheckTimer, Until!Run, Until!Clock
<1>3. ShutdownIsSignalled'
  BY DEF UInv, UntilTypeOK, ShutdownIsSignalled, Until!Test, Until!Resume, Until!Loop, Until!Gather, Until!Wait,
     Until!Woken, Until!YieldItem, Until!CheckTimer, Until!Run, Until!Clock
<1>4. TimerIsSet'
  BY DEF UInv, UntilTypeOK, TimerIsSet, Until!Test, Until!Resume, Until!Loop, Until!Gather, Until!Wait,
     Until!Woken, Until!YieldItem, Until!CheckTimer, Until!Run, Until!Clock
<1>5. TasksAreSignalled'
  <2>1. Len(readyTasks) \in Nat /\ (Len(readyTasks) = 0 => readyTasks = <<>>)
    BY DEF UInv, UntilTypeOK
  <2> QED
    BY <2>1 DEF UInv, UntilTypeOK, TasksAreSignalled, LoopOverTasks,
       Until!Test, Until!Resume, Until!Loop, Until!Gather, Until!Wait, Until!Woken, Until!YieldItem,
       Until!CheckTimer, Until!Run, Until!Clock
<1> QED
  BY <1>1, <1>2, <1>3, <1>4, <1>5 DEF UInv

(* A task is taken out of the queue, and the rest is one shorter.            *)
LEMMA TakeTasksUInv == UInv /\ Until!TakeTasks => UInv'
<1> SUFFICES ASSUME UInv, Until!TakeTasks PROVE UInv'
  OBVIOUS
<1> USE DEF Until!call, Until!around
<1>1. /\ Len(readyTasks) \in Nat /\ Len(readyTasks) > 0 /\ Head(readyTasks) \in {"wake", "task"}
      /\ readyTasks' \in Seq({"wake", "task"}) /\ Len(readyTasks') = Len(readyTasks) - 1
  BY DEF Until!TakeTasks, UInv, UntilTypeOK, TasksAreSignalled, LoopOverTasks
<1>2. UntilTypeOK'
  BY <1>1 DEF Until!TakeTasks, Until!YieldItem, UInv, UntilTypeOK
<1>3. FutureIsWatched' /\ ShutdownIsSignalled' /\ TimerIsSet'
  BY <1>1 DEF Until!TakeTasks, Until!YieldItem, UInv, UntilTypeOK, FutureIsWatched, ShutdownIsSignalled, TimerIsSet
<1>4. TasksAreSignalled'
  <2>1. head \in Nat /\ head' = head - 1 /\ guard' = guard /\ head <= Len(readyTasks)
    BY DEF Until!TakeTasks, UInv, UntilTypeOK, TasksAreSignalled, LoopOverTasks
  <2>2. head' <= Len(readyTasks') /\ (guard \/ head = Len(readyTasks) => guard' \/ head' = Len(readyTasks'))
    BY <1>1, <2>1
  <2>3. guard \/ head = Len(readyTasks)
    BY DEF Until!TakeTasks, UInv, TasksAreSignalled, LoopOverTasks
  <2>4. pc' # "wait"
    BY <1>1 DEF Until!TakeTasks, Until!YieldItem
  <2> QED
    BY <2>2, <2>3, <2>4 DEF TasksAreSignalled
<1> QED
  BY <1>2, <1>3, <1>4 DEF UInv

(* The threads around the spinner: what one of them puts into the queue of   *)
(* tasks triggers the guard, and so does the end of each change.             *)
LEMMA AroundUInv ==
    ASSUME UInv,
           \/ Until!RunInPool \/ Until!CallBacks \/ Until!Signal \/ Until!TimerFires
           \/ Until!DeadlinePasses \/ Until!Settle \/ Until!ShutDown \/ Until!Arrive
    PROVE  UInv'
<1> USE DEF Until!call, Until!around, Until!iter
<1>1. /\ readyTasks' \in Seq({"wake", "task"}) /\ Len(readyTasks') \in Nat /\ Len(readyTasks) \in Nat
      /\ readyTasks' = readyTasks \/ (Len(readyTasks') = Len(readyTasks) + 1 /\ guard')
      /\ guard => guard'
      /\ UNCHANGED <<pc, gen, head>>
  BY Appended DEF UInv, UntilTypeOK, Until!RunInPool, Until!CallBacks, Until!Signal, Until!TimerFires,
     Until!DeadlinePasses, Until!Settle, Until!ShutDown, Until!Arrive
<1>2. UntilTypeOK'
  <2>1. wakeOnDone' \in BOOLEAN /\ settling' \in BOOLEAN /\ guard' \in BOOLEAN /\ entityReady' \in BOOLEAN
    BY DEF UInv, UntilTypeOK, Until!RunInPool, Until!CallBacks, Until!Signal, Until!TimerFires,
       Until!DeadlinePasses, Until!Settle, Until!ShutDown, Until!Arrive
  <2>2. future' \in {"pending", "finished", "cancelled"} /\ timer' \in {"none", "armed", "fired"}
    BY DEF UInv, UntilTypeOK, Until!RunInPool, Until!CallBacks, Until!Signal, Until!TimerFires,
       Until!DeadlinePasses, Until!Settle, Until!ShutDown, Until!Arrive
  <2>3. down' \in SUBSET {"executor", "context"} /\ signal' \in SUBSET {"executor", "context"}
    BY DEF UInv, UntilTypeOK, Until!RunInPool, Until!CallBacks, Until!Signal, Until!TimerFires,
       Until!DeadlinePasses, Until!Settle, Until!ShutDown, Until!Arrive
  <2>4. UNCHANGED <<kind, multi, bound>>
    BY DEF Until!RunInPool, Until!CallBacks, Until!Signal, Until!TimerFires, Until!DeadlinePasses, Until!Settle,
       Until!ShutDown, Until!Arrive
  <2> QED
    BY <1>1, <2>1, <2>2, <2>3, <2>4 DEF UInv, UntilTypeOK
<1>3. FutureIsWatched' /\ ShutdownIsSignalled' /\ TimerIsSet'
  BY DEF UInv, UntilTypeOK, FutureIsWatched, ShutdownIsSignalled, TimerIsSet,
     Until!RunInPool, Until!CallBacks, Until!Signal, Until!TimerFires, Until!DeadlinePasses, Until!Settle,
     Until!ShutDown, Until!Arrive
<1>4. TasksAreSignalled'
  BY <1>1 DEF UInv, UntilTypeOK, TasksAreSignalled, LoopOverTasks
<1> QED
  BY <1>2, <1>3, <1>4 DEF UInv

(* The inductive invariant of a spin holds in every reachable state.         *)
THEOREM SpinInvariance == Until!Spec => []UInv
<1>1. UInv /\ [Until!Next]_(Until!vars) => UInv'
  <2> SUFFICES ASSUME UInv, [Until!Next]_(Until!vars) PROVE UInv'
    OBVIOUS
  <2>1. CASE Until!Next
    BY <2>1, EnterUInv, SpinUInv, TakeTasksUInv, AroundUInv DEF Until!Next, Until!Spin, Until!Helpers
  <2>2. CASE UNCHANGED Until!vars
    BY <2>2 DEF Until!vars, Until!call, Until!around, Until!iter, UInv, UntilTypeOK, FutureIsWatched,
       ShutdownIsSignalled, TimerIsSet,
       TasksAreSignalled, LoopOverTasks
  <2> QED
    BY <2>1, <2>2
<1> QED
  BY InitUInv, <1>1, PTL DEF Until!Spec

(* A spinner sleeps on nothing that has happened: not on a future that is    *)
(* finished, nor through a shutdown, a timeout or a task in its queue, unless *)
(* the thread that made the change is about to wake it (executors.py:352-390,*)
(* 869-909, task.py:190-210).                                                *)
THEOREM SleeperAwakes == Until!Spec => [](Until!SleeperIsWoken /\ SleeperIsWoken)
<1>1. UInv => Until!SleeperIsWoken /\ SleeperIsWoken
  BY DEF UInv, UntilTypeOK, FutureIsWatched, ShutdownIsSignalled, TimerIsSet, TasksAreSignalled,
     SleeperIsWoken, Until!SleeperIsWoken
<1> QED
  BY SpinInvariance, <1>1, PTL

-------------------------------------------------------------------------------
(* Futures and tasks: what TaskFuture_proofs proves of them, here of the     *)
(* instance Tasking, whose substitution is repeated. TaskProofs!Spec is the  *)
(* specification of TaskFuture.                                              *)
TaskProofs == INSTANCE TaskFuture_proofs WITH
    Futures <- PlainFutures, Callbacks <- DoneCallbacks, ready <- dueTasks, pool <- workerPool

LEMMA ProgramIsSound == TaskProofs!ConstantsAssumption
BY ProgramAssumption DEF TaskProofs!ConstantsAssumption, Tasking!ConstantsAssumption,
   TaskProofs!Awaitable, Tasking!Awaitable, TaskProofs!Runnable, Tasking!Runnable,
   TaskProofs!IsFiniteSet, Tasking!IsFiniteSet

(* No task is called by two threads of the executor at once (task.py:321-355). *)
THEOREM TaskRunsAlone == TaskProofs!Spec => [](Tasking!OneThreadPerTask /\ OneThreadPerTask)
<1>1. TaskProofs!Spec => []TaskProofs!OneThreadPerTask
  BY ProgramIsSound, TaskProofs!TaskRunsAlone
<1>2. TaskProofs!OneThreadPerTask => Tasking!OneThreadPerTask /\ OneThreadPerTask
  BY DEF OneThreadPerTask, Tasking!OneThreadPerTask, TaskProofs!OneThreadPerTask, Tasking!InCall, TaskProofs!InCall,
     Tasking!Runnable, TaskProofs!Runnable, Tasking!Cardinality, TaskProofs!Cardinality
<1> QED
  BY <1>1, <1>2, PTL

(* The resumption of a task is owed to it once, and nothing is left behind   *)
(* on a future that is done (task.py:77-112, 136-265, 321-411).              *)
THEOREM ResumptionsAreOwedOnce == TaskProofs!Spec => [](Tasking!WokenOnce /\ WokenOnce)
<1>1. TaskProofs!Spec => []TaskProofs!WokenOnce
  BY ProgramIsSound, TaskProofs!ResumptionsAreOwedOnce
<1>2. TaskProofs!WokenOnce => Tasking!WokenOnce /\ WokenOnce
  BY DEF WokenOnce, Tasking!WokenOnce, TaskProofs!WokenOnce,
     Tasking!OneWakeup, TaskProofs!OneWakeup, Tasking!NobodyForgotten, TaskProofs!NobodyForgotten,
     Tasking!NothingStranded, TaskProofs!NothingStranded, Tasking!NeverAwaitedTwice, TaskProofs!NeverAwaitedTwice,
     Tasking!CallbackAtMostOnce, TaskProofs!CallbackAtMostOnce, Tasking!Wakeups, TaskProofs!Wakeups,
     Tasking!Occurrences, TaskProofs!Occurrences, Tasking!Contains, TaskProofs!Contains,
     Tasking!Settling, TaskProofs!Settling, Tasking!Pending, TaskProofs!Pending, Tasking!AwaitedTwice,
     TaskProofs!AwaitedTwice, Tasking!Awaitable, TaskProofs!Awaitable, Tasking!Cardinality, TaskProofs!Cardinality
<1> QED
  BY <1>1, <1>2, PTL

-------------------------------------------------------------------------------
(* The timers of an EventsExecutor, for any timers, period and times.        *)
TimerEvents == {<<"track">>, <<"update">>} \cup ({"jump"} \X BOOLEAN) \cup ({"dispatch"} \X Timers)

TimersTypeOK ==
    /\ wall \in Nat /\ sim \in Nat /\ ros \in BOOLEAN
    /\ due \in [Timers -> Nat] /\ canceled \in [Timers -> BOOLEAN]
    /\ created \subseteq Timers /\ timers \subseteq Timers /\ readyTimers \subseteq Timers
    /\ onDebug \in BOOLEAN /\ queue \in Seq(TimerEvents)
    /\ adding \in Seq(Timers \cup {None}) /\ arming \in {None} \cup (BOOLEAN \X Nat)
    /\ handler \in BOOLEAN /\ when \in Nat /\ latched \in Nat /\ notified \in BOOLEAN

(* The queue q holds an event of this sort; every timer of rs has its        *)
(* dispatch in it.                                                           *)
Holds(q, sort) == \E i \in DOMAIN q : q[i][1] = sort
Dispatched(rs, q) == \A t \in rs : \E i \in DOMAIN q : q[i] = <<"dispatch", t>>
ReadyAreQueued == Dispatched(readyTimers, queue)

(* Without timers there is no manager, and none of its events.               *)
OnlyTracks(q) == \A i \in DOMAIN q : q[i] = <<"track">>
GoneWithTimers == timers = {} => readyTimers = {} /\ thread = "new" /\ OnlyTracks(queue)

(* The last jump in the queue tells what the clock uses, and on_debug_time_  *)
(* does when there is none.                                                  *)
LastJumpIs(q, debug) ==
    \A i \in DOMAIN q : q[i][1] = "jump" /\ (\A j \in DOMAIN q : j > i => q[j][1] # "jump")
                        => q[i] = <<"jump", debug>>
JumpsFollow ==
    /\ LastJumpIs(queue, ros)
    /\ timers # {} /\ ~Holds(queue, "jump") => onDebug = ros

TimersInv == TimersTypeOK /\ ReadyAreQueued /\ GoneWithTimers /\ JumpsFollow /\ Clocked!TimerIsCovered

-----------------------------------------------------------------------------
LEMMA TimerEventFacts ==
    ASSUME NEW e \in TimerEvents
    PROVE /\ e[1] \in {"track", "update", "jump", "dispatch"}
          /\ e[1] = "track" => e = <<"track">>
          /\ e[1] = "jump" => e = <<"jump", e[2]>> /\ e[2] \in BOOLEAN
          /\ e[1] = "dispatch" => e = <<"dispatch", e[2]>> /\ e[2] \in Timers
<1>1. CASE e = <<"track">> BY <1>1
<1>2. CASE e = <<"update">> BY <1>2
<1>3. CASE e \in {"jump"} \X BOOLEAN BY <1>3
<1>4. CASE e \in {"dispatch"} \X Timers BY <1>4
<1> QED BY <1>1, <1>2, <1>3, <1>4 DEF TimerEvents

LEMMA TimerEventsAre ==
    /\ <<"track">> \in TimerEvents /\ <<"update">> \in TimerEvents
    /\ \A debug \in BOOLEAN : <<"jump", debug>> \in TimerEvents
    /\ \A t \in Timers : <<"dispatch", t>> \in TimerEvents
BY DEF TimerEvents

LEMMA TailOf ==
    ASSUME NEW q \in Seq(TimerEvents), q # <<>>
    PROVE /\ Head(q) \in TimerEvents /\ Tail(q) \in Seq(TimerEvents)
          /\ 1 \in DOMAIN q /\ Head(q) = q[1]
          /\ \A i \in DOMAIN Tail(q) : i + 1 \in DOMAIN q /\ i \in Nat /\ Tail(q)[i] = q[i + 1]
          /\ \A i \in DOMAIN q : i = 1 \/ (i - 1 \in DOMAIN Tail(q) /\ q[i] = Tail(q)[i - 1])
<1>1. /\ Len(q) \in Nat \ {0} /\ DOMAIN q = 1..Len(q) BY LenProperties, EmptySeq
<1>2. /\ Head(q) \in TimerEvents /\ Tail(q) \in Seq(TimerEvents) /\ Len(Tail(q)) = Len(q) - 1
      /\ \A i \in 1..Len(Tail(q)) : Tail(q)[i] = q[i + 1]
    BY HeadTailProperties
<1>3. DOMAIN Tail(q) = 1..(Len(q) - 1) BY <1>2, LenProperties
<1>4. Head(q) = q[1] OBVIOUS
<1> QED BY <1>1, <1>2, <1>3, <1>4

LEMMA AppendOf ==
    ASSUME NEW q \in Seq(TimerEvents), NEW e \in TimerEvents
    PROVE /\ Append(q, e) \in Seq(TimerEvents)
          /\ \A i \in DOMAIN q : i \in DOMAIN Append(q, e) /\ Append(q, e)[i] = q[i] /\ i \in Nat /\ i <= Len(q)
          /\ Len(q) \in Nat /\ Len(q) + 1 \in DOMAIN Append(q, e) /\ Append(q, e)[Len(q) + 1] = e
          /\ \A i \in DOMAIN Append(q, e) : i \in DOMAIN q \/ i = Len(q) + 1
<1>1. Len(q) \in Nat /\ DOMAIN q = 1..Len(q) BY LenProperties
<1>2. /\ Append(q, e) \in Seq(TimerEvents) /\ Len(Append(q, e)) = Len(q) + 1
      /\ \A i \in 1..Len(q) : Append(q, e)[i] = q[i]
      /\ Append(q, e)[Len(q) + 1] = e
    BY AppendProperties
<1>3. DOMAIN Append(q, e) = 1..(Len(q) + 1) BY <1>2, LenProperties
<1> QED BY <1>1, <1>2, <1>3

LEMMA ConcatOf ==
    ASSUME NEW q \in Seq(TimerEvents), NEW r \in Seq(TimerEvents)
    PROVE /\ q \o r \in Seq(TimerEvents)
          /\ \A i \in DOMAIN q : i \in DOMAIN (q \o r) /\ (q \o r)[i] = q[i] /\ i \in Nat
          /\ \A i \in DOMAIN r : \E j \in DOMAIN (q \o r) : (q \o r)[j] = r[i]
          /\ \A i \in DOMAIN (q \o r) :
                i \in DOMAIN q \/ \E j \in DOMAIN r : (q \o r)[i] = r[j]
<1>1. Len(q) \in Nat /\ DOMAIN q = 1..Len(q) /\ Len(r) \in Nat /\ DOMAIN r = 1..Len(r) BY LenProperties
<1>2. /\ q \o r \in Seq(TimerEvents) /\ Len(q \o r) = Len(q) + Len(r)
      /\ \A i \in 1..Len(q) + Len(r) : (q \o r)[i] = IF i <= Len(q) THEN q[i] ELSE r[i - Len(q)]
    BY ConcatProperties
<1>3. DOMAIN (q \o r) = 1..(Len(q) + Len(r)) BY <1>2, LenProperties
<1>4. \A i \in DOMAIN q : i \in DOMAIN (q \o r) /\ (q \o r)[i] = q[i] /\ i \in Nat BY <1>1, <1>2, <1>3
<1>5. ASSUME NEW i \in DOMAIN r PROVE \E j \in DOMAIN (q \o r) : (q \o r)[j] = r[i]
    <2>1. i + Len(q) \in 1..(Len(q) + Len(r)) /\ ~(i + Len(q) <= Len(q)) /\ (i + Len(q)) - Len(q) = i BY <1>1
    <2> QED BY <2>1, <1>2, <1>3
<1>6. ASSUME NEW i \in DOMAIN (q \o r) PROVE i \in DOMAIN q \/ \E j \in DOMAIN r : (q \o r)[i] = r[j]
    <2>1. CASE i <= Len(q) BY <2>1, <1>1, <1>3
    <2>2. CASE ~(i <= Len(q))
        <3>1. i - Len(q) \in DOMAIN r BY <2>2, <1>1, <1>3
        <3> QED BY <3>1, <2>2, <1>1, <1>2, <1>3
    <2> QED BY <2>1, <2>2
<1> QED BY <1>2, <1>4, <1>5, <1>6

(* The instance sees the operators of FiniteSets that are seen here.         *)
LEMMA SameFiniteSets ==
    ASSUME NEW S
    PROVE  /\ Clocked!IsFiniteSet(S) <=> IsFiniteSet(S)
           /\ Clocked!Cardinality(S) = Cardinality(S)
<1>1. Clocked!IsFiniteSet(S) <=> IsFiniteSet(S)
    BY DEF Clocked!IsFiniteSet, IsFiniteSet
<1>2. Clocked!Cardinality(S) = Cardinality(S)
    BY DEF Clocked!Cardinality, Cardinality
<1> QED BY <1>1, <1>2

(* An order of the timers that are due names each of them.                   *)
LEMMA OrderNamesAll ==
    ASSUME NEW S, IsFiniteSet(S), NEW order \in Clocked!SetToSeqs(S)
    PROVE /\ order \in Seq(S)
          /\ \A t \in S : \E i \in DOMAIN order : order[i] = t
<1> DEFINE D == 1..Cardinality(S)
<1>1. Cardinality(S) \in Nat BY FS_CardinalityType
<1>2. order \in [D -> S] /\ \A i, j \in D : i # j => order[i] # order[j]
    BY SameFiniteSets DEF Clocked!SetToSeqs
<1>3. IsFiniteSet(D) /\ Cardinality(D) = Cardinality(S) BY <1>1, FS_Interval
<1>4. order \in Injection(D, S) BY <1>2 DEF Injection, IsInjective
<1>5. order \in Surjection(D, S) BY <1>3, <1>4, FS_Injection
<1> QED BY <1>1, <1>2, <1>5 DEF Surjection

-----------------------------------------------------------------------------
LEMMA NowIsTime == ASSUME TimersTypeOK PROVE Clocked!Now \in Nat
BY DEF TimersTypeOK, Clocked!Now

(* What an evaluation leaves behind: the events that were in the queue, a    *)
(* dispatch for every timer that is ready, and for the others the deadline.  *)
LEMMA Evaluated ==
    ASSUME Clocked!TimersAssumption, TimersTypeOK, NEW ms \in SUBSET Timers, NEW debug \in BOOLEAN,
           NEW q \in Seq(TimerEvents), Dispatched(readyTimers, q),
           Clocked!UpdateTimers(ms, readyTimers, debug, q)
    PROVE /\ queue' \in Seq(TimerEvents) /\ readyTimers' \subseteq Timers
          /\ arming' \in BOOLEAN \X Nat /\ arming' # None
          /\ Dispatched(readyTimers', queue')
          /\ \A i \in DOMAIN q : i \in DOMAIN queue' /\ queue'[i] = q[i]
          /\ \A i \in DOMAIN queue' : i \in DOMAIN q \/ queue'[i][1] = "dispatch"
          /\ \A t \in ms : ~canceled[t] =>
                \/ Holds(queue', "dispatch")
                \/ debug /\ Clocked!Now < due[t]
                \/ ~debug /\ arming'[1] /\ arming'[2] <= due[t] + (wall - Clocked!Now)
<1> DEFINE live == {t \in ms : ~canceled[t]}
           ripe == {t \in live : due[t] <= Clocked!Now}
           soon == {due[t] : t \in live \ ripe}
<1>1. PICK order \in Clocked!SetToSeqs(ripe) : queue' = q \o [i \in DOMAIN order |-> <<"dispatch", order[i]>>]
    BY DEF Clocked!UpdateTimers
<1>2. readyTimers' = readyTimers \cup ripe BY DEF Clocked!UpdateTimers
<1> DEFINE armed == readyTimers \cup ripe = {} /\ ~debug /\ soon # {}
<1>3. /\ armed => \E next \in soon : /\ \A time \in soon : next <= time
                                     /\ arming' = <<TRUE, wall + (next - Clocked!Now)>>
      /\ ~armed => arming' = <<FALSE, 0>>
    BY DEF Clocked!UpdateTimers
<1> DEFINE r == [i \in DOMAIN order |-> <<"dispatch", order[i]>>]
<1>4. ripe \subseteq Timers /\ readyTimers' \subseteq Timers BY <1>2 DEF TimersTypeOK
<1>5. IsFiniteSet(ripe) BY <1>4, FS_Subset, SameFiniteSets DEF Clocked!TimersAssumption
<1> HIDE DEF ripe, soon, live
<1>6. order \in Seq(ripe) /\ \A t \in ripe : \E i \in DOMAIN order : order[i] = t BY <1>1, <1>5, OrderNamesAll
<1>7. r \in Seq(TimerEvents) /\ DOMAIN r = DOMAIN order
    <2>1. Len(order) \in Nat /\ DOMAIN order = 1..Len(order) /\ order \in [1..Len(order) -> ripe]
        BY <1>6, LenProperties
    <2>2. \A i \in 1..Len(order) : <<"dispatch", order[i]>> \in TimerEvents BY <2>1, <1>4, TimerEventsAre
    <2>3. r \in [1..Len(order) -> TimerEvents] BY <2>1, <2>2
    <2> QED BY <2>1, <2>3, SeqDef
<1> HIDE DEF r
<1>8. queue' = q \o r BY <1>1 DEF r
<1>9. queue' \in Seq(TimerEvents) /\ \A i \in DOMAIN q : i \in DOMAIN queue' /\ queue'[i] = q[i]
    BY <1>7, <1>8, ConcatOf
<1>10. \A i \in DOMAIN queue' : i \in DOMAIN q \/ queue'[i][1] = "dispatch"
    <2> SUFFICES ASSUME NEW i \in DOMAIN queue', i \notin DOMAIN q PROVE queue'[i][1] = "dispatch" OBVIOUS
    <2>0. i \in DOMAIN (q \o r) /\ queue'[i] = (q \o r)[i] BY <1>8
    <2>1. PICK j \in DOMAIN r : queue'[i] = r[j] BY <2>0, <1>7, ConcatOf
    <2>2. r[j] = <<"dispatch", order[j]>> BY <1>7, <2>1 DEF r
    <2> QED BY <2>1, <2>2
<1>11. \A t \in ripe : \E i \in DOMAIN queue' : queue'[i] = <<"dispatch", t>>
    <2> SUFFICES ASSUME NEW t \in ripe PROVE \E i \in DOMAIN queue' : queue'[i] = <<"dispatch", t>> OBVIOUS
    <2>1. PICK j \in DOMAIN order : order[j] = t BY <1>6
    <2>2. j \in DOMAIN r /\ r[j] = <<"dispatch", t>> BY <2>1, <1>7 DEF r
    <2>3. PICK i \in DOMAIN (q \o r) : (q \o r)[i] = r[j] BY <2>2, <1>7, ConcatOf
    <2> QED BY <2>2, <2>3, <1>8
<1>12. Dispatched(readyTimers', queue')
    <2> SUFFICES ASSUME NEW t \in readyTimers' PROVE \E i \in DOMAIN queue' : queue'[i] = <<"dispatch", t>>
        BY DEF Dispatched
    <2>1. CASE t \in ripe BY <2>1, <1>11
    <2>2. CASE t \in readyTimers BY <2>2, <1>9 DEF Dispatched
    <2> QED BY <2>1, <2>2, <1>2
<1>13. arming' \in BOOLEAN \X Nat
    <2>1. CASE armed
        <3>1. PICK next \in soon : arming' = <<TRUE, wall + (next - Clocked!Now)>> BY <1>3, <2>1
        <3>2. PICK t \in live \ ripe : next = due[t] BY <3>1 DEF soon
        <3>3. t \in Timers /\ ~(due[t] <= Clocked!Now) BY <3>2 DEF live, ripe
        <3>4. due[t] \in Nat /\ Clocked!Now \in Nat /\ wall \in Nat BY <3>3, NowIsTime DEF TimersTypeOK
        <3>5. wall + (next - Clocked!Now) \in Nat BY <3>2, <3>3, <3>4
        <3> QED BY <3>1, <3>5
    <2>2. CASE ~armed
        <3>1. arming' = <<FALSE, 0>> BY <1>3, <2>2
        <3> QED BY <3>1
    <2> QED BY <2>1, <2>2
<1>14. ASSUME NEW t \in ms, ~canceled[t]
       PROVE  \/ Holds(queue', "dispatch")
              \/ debug /\ Clocked!Now < due[t]
              \/ ~debug /\ arming'[1] /\ arming'[2] <= due[t] + (wall - Clocked!Now)
    <2>0. /\ due[t] \in Nat /\ Clocked!Now \in Nat /\ wall \in Nat BY NowIsTime DEF TimersTypeOK
    <2>1. CASE readyTimers' # {}
        <3>1. PICK u \in readyTimers' : TRUE BY <2>1
        <3>2. PICK i \in DOMAIN queue' : queue'[i] = <<"dispatch", u>> BY <1>12 DEF Dispatched
        <3> QED BY <3>2 DEF Holds
    <2>2. CASE readyTimers' = {}
        <3>1. ripe = {} /\ readyTimers \cup ripe = {} BY <2>2, <1>2
        <3>2. t \in live \ ripe /\ Clocked!Now < due[t] BY <3>1, <1>14, <2>0 DEF live, ripe
        <3>3. due[t] \in soon BY <3>2 DEF soon
        <3>4. CASE debug BY <3>4, <3>2
        <3>5. CASE ~debug
            <4>1. PICK next \in soon : /\ \A time \in soon : next <= time
                                      /\ arming' = <<TRUE, wall + (next - Clocked!Now)>>
                BY <1>3, <3>1, <3>3, <3>5
            <4>2. PICK u \in live : next = due[u] BY <4>1 DEF soon
            <4>3. next \in Nat /\ next <= due[t] BY <4>1, <4>2, <3>3 DEF live, TimersTypeOK
            <4>4. wall + (next - Clocked!Now) <= due[t] + (wall - Clocked!Now) BY <4>3, <2>0
            <4> QED BY <4>1, <4>4, <3>5
        <3> QED BY <3>4, <3>5
    <2> QED BY <2>1, <2>2
<1> QED BY <1>4, <1>9, <1>10, <1>12, <1>13, <1>14 DEF Clocked!TimersAssumption

LEMMA TailKeeps ==
    ASSUME NEW q \in Seq(TimerEvents), q # <<>>
    PROVE /\ \A rs : Dispatched(rs, q) /\ Head(q)[1] # "dispatch" => Dispatched(rs, Tail(q))
          /\ \A rs : Dispatched(rs, q) /\ Head(q)[1] = "dispatch" => Dispatched(rs \ {Head(q)[2]}, Tail(q))
          /\ \A debug : LastJumpIs(q, debug) => LastJumpIs(Tail(q), debug)
          /\ \A debug : LastJumpIs(q, debug) /\ Head(q)[1] = "jump" /\ ~Holds(Tail(q), "jump")
                        => Head(q) = <<"jump", debug>>
          /\ \A sort : Holds(q, sort) => Holds(Tail(q), sort) \/ Head(q)[1] = sort
          /\ OnlyTracks(q) => OnlyTracks(Tail(q)) /\ Head(q) = <<"track">>
<1>1. /\ 1 \in DOMAIN q /\ Head(q) = q[1]
      /\ \A i \in DOMAIN Tail(q) : i + 1 \in DOMAIN q /\ i \in Nat /\ Tail(q)[i] = q[i + 1]
      /\ \A i \in DOMAIN q : i = 1 \/ (i - 1 \in DOMAIN Tail(q) /\ q[i] = Tail(q)[i - 1])
    BY TailOf
<1>2. DOMAIN q \subseteq Nat BY LenProperties
<1>3. ASSUME NEW rs, Dispatched(rs, q), Head(q)[1] # "dispatch" PROVE Dispatched(rs, Tail(q))
    <2> SUFFICES ASSUME NEW t \in rs PROVE \E i \in DOMAIN Tail(q) : Tail(q)[i] = <<"dispatch", t>>
        BY DEF Dispatched
    <2>1. PICK i \in DOMAIN q : q[i] = <<"dispatch", t>> BY <1>3 DEF Dispatched
    <2>2. i # 1 BY <2>1, <1>1, <1>3
    <2> QED BY <2>1, <2>2, <1>1
<1>4. ASSUME NEW rs, Dispatched(rs, q), Head(q)[1] = "dispatch" PROVE Dispatched(rs \ {Head(q)[2]}, Tail(q))
    <2> SUFFICES ASSUME NEW t \in rs, t # Head(q)[2]
                 PROVE \E i \in DOMAIN Tail(q) : Tail(q)[i] = <<"dispatch", t>>
        BY DEF Dispatched
    <2>1. PICK i \in DOMAIN q : q[i] = <<"dispatch", t>> BY <1>4 DEF Dispatched
    <2>2. i # 1 BY <2>1, <1>1
    <2> QED BY <2>1, <2>2, <1>1
<1>5. ASSUME NEW debug, LastJumpIs(q, debug) PROVE LastJumpIs(Tail(q), debug)
    <2> SUFFICES ASSUME NEW i \in DOMAIN Tail(q), Tail(q)[i][1] = "jump",
                        \A j \in DOMAIN Tail(q) : j > i => Tail(q)[j][1] # "jump"
                 PROVE Tail(q)[i] = <<"jump", debug>>
        BY DEF LastJumpIs
    <2>1. i + 1 \in DOMAIN q /\ i \in Nat /\ q[i + 1] = Tail(q)[i] BY <1>1
    <2>2. ASSUME NEW j \in DOMAIN q, j > i + 1 PROVE q[j][1] # "jump"
        <3>1. j \in Nat /\ j # 1 /\ j - 1 > i BY <1>2, <2>1, <2>2
        <3> QED BY <3>1, <1>1
    <2> QED BY <2>1, <2>2, <1>5 DEF LastJumpIs
<1>6. ASSUME NEW debug, LastJumpIs(q, debug), Head(q)[1] = "jump", ~Holds(Tail(q), "jump")
      PROVE Head(q) = <<"jump", debug>>
    <2>1. ASSUME NEW j \in DOMAIN q, j > 1 PROVE q[j][1] # "jump"
        <3>1. j - 1 \in DOMAIN Tail(q) /\ q[j] = Tail(q)[j - 1] BY <2>1, <1>1, <1>2
        <3> QED BY <3>1, <1>6 DEF Holds
    <2> QED BY <2>1, <1>1, <1>6 DEF LastJumpIs
<1>7. ASSUME NEW sort, Holds(q, sort) PROVE Holds(Tail(q), sort) \/ Head(q)[1] = sort
    BY <1>1, <1>7 DEF Holds
<1>8. OnlyTracks(q) => OnlyTracks(Tail(q)) /\ Head(q) = <<"track">> BY <1>1 DEF OnlyTracks
<1> QED BY <1>3, <1>4, <1>5, <1>6, <1>7, <1>8

LEMMA AppendKeeps ==
    ASSUME NEW q \in Seq(TimerEvents), NEW e \in TimerEvents
    PROVE /\ \A rs : Dispatched(rs, q) => Dispatched(rs, Append(q, e))
          /\ \A sort : Holds(q, sort) => Holds(Append(q, e), sort)
          /\ Holds(Append(q, e), e[1])
          /\ \A debug : LastJumpIs(q, debug) /\ e[1] # "jump" => LastJumpIs(Append(q, e), debug)
          /\ \A debug : e = <<"jump", debug>> => LastJumpIs(Append(q, e), debug)
          /\ OnlyTracks(q) /\ e = <<"track">> => OnlyTracks(Append(q, e))
<1> DEFINE p == Append(q, e)
           n == Len(q) + 1
<1>1. /\ \A i \in DOMAIN q : i \in DOMAIN p /\ p[i] = q[i] /\ i \in Nat /\ i <= Len(q)
      /\ Len(q) \in Nat /\ n \in DOMAIN p /\ p[n] = e
      /\ \A i \in DOMAIN p : i \in DOMAIN q \/ i = n
    BY AppendOf
<1> HIDE DEF p
<1>2. ASSUME NEW rs, Dispatched(rs, q) PROVE Dispatched(rs, p) BY <1>1, <1>2 DEF Dispatched
<1>3. ASSUME NEW sort, Holds(q, sort) PROVE Holds(p, sort) BY <1>1, <1>3 DEF Holds
<1>4. Holds(p, e[1]) BY <1>1 DEF Holds
<1>5. ASSUME NEW debug, LastJumpIs(q, debug), e[1] # "jump" PROVE LastJumpIs(p, debug)
    <2> SUFFICES ASSUME NEW i \in DOMAIN p, p[i][1] = "jump", \A j \in DOMAIN p : j > i => p[j][1] # "jump"
                 PROVE p[i] = <<"jump", debug>>
        BY DEF LastJumpIs
    <2>1. i \in DOMAIN q /\ p[i] = q[i] BY <1>1, <1>5
    <2>2. \A j \in DOMAIN q : j > i => q[j][1] # "jump" BY <1>1
    <2> QED BY <2>1, <2>2, <1>5 DEF LastJumpIs
<1>6. ASSUME NEW debug, e = <<"jump", debug>> PROVE LastJumpIs(p, debug)
    <2> SUFFICES ASSUME NEW i \in DOMAIN p, p[i][1] = "jump", \A j \in DOMAIN p : j > i => p[j][1] # "jump"
                 PROVE p[i] = <<"jump", debug>>
        BY DEF LastJumpIs
    <2>1. CASE i = n BY <2>1, <1>1, <1>6
    <2>2. CASE i \in DOMAIN q
        <3>1. n > i /\ p[n][1] = "jump" BY <2>2, <1>1, <1>6
        <3> QED BY <3>1, <1>1
    <2> QED BY <2>1, <2>2, <1>1
<1>7. OnlyTracks(q) /\ e = <<"track">> => OnlyTracks(p) BY <1>1 DEF OnlyTracks
<1> QED BY <1>2, <1>3, <1>4, <1>5, <1>6, <1>7 DEF p

-----------------------------------------------------------------------------
(* Whatever ends with an evaluation, for a manager with timers.              *)
LEMMA AfterEvaluation ==
    ASSUME Clocked!TimersAssumption, TimersInv, NEW q \in Seq(TimerEvents),
           Clocked!UpdateTimers(timers', readyTimers, onDebug', q),
           UNCHANGED <<Clocked!clocks, Clocked!rcl, created, Clocked!delayed>>,
           timers' \in SUBSET Timers, timers' # {}, onDebug' \in BOOLEAN, adding' \in Seq(Timers \cup {None}),
           Dispatched(readyTimers, q), LastJumpIs(q, ros), ~Holds(q, "jump") => onDebug' = ros
    PROVE TimersInv'
<1> USE DEF TimersInv
<1>1. /\ queue' \in Seq(TimerEvents) /\ readyTimers' \subseteq Timers
      /\ arming' \in BOOLEAN \X Nat /\ arming' # None
      /\ Dispatched(readyTimers', queue')
      /\ \A i \in DOMAIN q : i \in DOMAIN queue' /\ queue'[i] = q[i]
      /\ \A i \in DOMAIN queue' : i \in DOMAIN q \/ queue'[i][1] = "dispatch"
      /\ \A t \in timers' : ~canceled[t] =>
            \/ Holds(queue', "dispatch")
            \/ onDebug' /\ Clocked!Now < due[t]
            \/ ~onDebug' /\ arming'[1] /\ arming'[2] <= due[t] + (wall - Clocked!Now)
    BY Evaluated
<1>2. /\ wall' = wall /\ sim' = sim /\ ros' = ros /\ due' = due /\ canceled' = canceled /\ created' = created
      /\ handler' = handler /\ when' = when /\ thread' = thread /\ latched' = latched /\ notified' = notified
    BY DEF Clocked!clocks, Clocked!rcl, Clocked!delayed
<1>3. TimersTypeOK' BY <1>1, <1>2 DEF TimersTypeOK
<1>4. ReadyAreQueued' BY <1>1 DEF ReadyAreQueued, Dispatched
<1>5. GoneWithTimers' BY DEF GoneWithTimers
<1>6. LastJumpIs(queue', ros)
    <2> SUFFICES ASSUME NEW i \in DOMAIN queue', queue'[i][1] = "jump",
                        \A j \in DOMAIN queue' : j > i => queue'[j][1] # "jump"
                 PROVE queue'[i] = <<"jump", ros>>
        BY DEF LastJumpIs
    <2>1. i \in DOMAIN q /\ queue'[i] = q[i] BY <1>1
    <2>2. \A j \in DOMAIN q : j > i => q[j][1] # "jump" BY <1>1
    <2> QED BY <2>1, <2>2 DEF LastJumpIs
<1>7. Holds(q, "jump") => Holds(queue', "jump") BY <1>1 DEF Holds
<1>8. JumpsFollow' BY <1>2, <1>6, <1>7 DEF JumpsFollow, LastJumpIs, Holds
<1>9. Clocked!TimerIsCovered'
    <2> SUFFICES ASSUME NEW t \in timers', ~canceled[t]
                 PROVE \/ Holds(queue', "jump") \/ Holds(queue', "dispatch")
                       \/ ros /\ onDebug' /\ Clocked!Now < due[t]
                       \/ ~ros /\ arming' # None /\ arming'[1] /\ arming'[2] <= due[t]
        BY <1>2 DEF Clocked!TimerIsCovered, Clocked!Queued, Holds, Clocked!Now
    <2>1. CASE Holds(q, "jump") BY <2>1, <1>7
    <2>2. CASE onDebug' = ros /\ ros BY <2>2, <1>1
    <2>3. CASE onDebug' = ros /\ ~ros
        <3>1. due[t] + (wall - Clocked!Now) = due[t] BY <2>3 DEF Clocked!Now, TimersTypeOK
        <3> QED BY <2>3, <3>1, <1>1
    <2> QED BY <2>1, <2>2, <2>3 DEF TimersTypeOK
<1> QED BY <1>3, <1>4, <1>5, <1>8, <1>9

LEMMA HasTimers ==
    ASSUME TimersInv, queue # <<>>, Head(queue)[1] # "track"
    PROVE timers # {}
BY TailKeeps DEF TimersInv, TimersTypeOK, GoneWithTimers

LEMMA UpdateEventStep ==
    ASSUME Clocked!TimersAssumption, TimersInv, Clocked!UpdateEvent
    PROVE  TimersInv'
<1> USE DEF TimersInv
<1>1. queue \in Seq(TimerEvents) /\ queue # <<>> /\ Head(queue)[1] = "update"
    BY DEF Clocked!UpdateEvent, TimersTypeOK
<1>2. Tail(queue) \in Seq(TimerEvents) BY <1>1, TailOf
<1>3. timers # {} BY <1>1, HasTimers
<1>4. /\ timers' = timers /\ onDebug' = onDebug /\ adding' = adding
      /\ UNCHANGED <<Clocked!clocks, Clocked!rcl, created, Clocked!delayed>>
    BY DEF Clocked!UpdateEvent
<1>5. Clocked!UpdateTimers(timers', readyTimers, onDebug', Tail(queue)) BY <1>4 DEF Clocked!UpdateEvent
<1>6. Dispatched(readyTimers, Tail(queue)) BY <1>1, TailKeeps DEF ReadyAreQueued
<1>7. LastJumpIs(Tail(queue), ros) BY <1>1, TailKeeps DEF JumpsFollow
<1>8. ~Holds(Tail(queue), "jump") => onDebug' = ros BY <1>1, <1>3, <1>4, TailKeeps DEF JumpsFollow
<1>9. timers' \in SUBSET Timers /\ onDebug' \in BOOLEAN /\ adding' \in Seq(Timers \cup {None})
    BY <1>4 DEF TimersTypeOK
<1> QED BY <1>2, <1>3, <1>4, <1>5, <1>6, <1>7, <1>8, <1>9, AfterEvaluation

LEMMA HandleJumpStep ==
    ASSUME Clocked!TimersAssumption, TimersInv, Clocked!HandleJump
    PROVE  TimersInv'
<1> USE DEF TimersInv
<1>1. queue \in Seq(TimerEvents) /\ queue # <<>> /\ Head(queue)[1] = "jump"
    BY DEF Clocked!HandleJump, TimersTypeOK
<1>2. Tail(queue) \in Seq(TimerEvents) /\ Head(queue) \in TimerEvents BY <1>1, TailOf
<1>3. timers # {} BY <1>1, HasTimers
<1>4. /\ timers' = timers /\ onDebug' = Head(queue)[2] /\ adding' = adding
      /\ UNCHANGED <<Clocked!clocks, Clocked!rcl, created, Clocked!delayed>>
    BY DEF Clocked!HandleJump
<1>5. Clocked!UpdateTimers(timers', readyTimers, onDebug', Tail(queue))
    BY <1>4 DEF Clocked!HandleJump, Clocked!UpdateTimers
<1>6. Dispatched(readyTimers, Tail(queue)) BY <1>1, TailKeeps DEF ReadyAreQueued
<1>7. LastJumpIs(Tail(queue), ros) BY <1>1, TailKeeps DEF JumpsFollow
<1>8. ~Holds(Tail(queue), "jump") => onDebug' = ros BY <1>1, <1>4, TailKeeps DEF JumpsFollow
<1>9. timers' \in SUBSET Timers /\ onDebug' \in BOOLEAN /\ adding' \in Seq(Timers \cup {None})
    BY <1>1, <1>2, <1>4, TimerEventFacts DEF TimersTypeOK
<1> QED BY <1>2, <1>3, <1>4, <1>5, <1>6, <1>7, <1>8, <1>9, AfterEvaluation

LEMMA AddTimerStep ==
    ASSUME Clocked!TimersAssumption, TimersInv, Clocked!AddTimer
    PROVE  TimersInv'
<1> USE DEF TimersInv
<1>1. /\ adding \in Seq(Timers \cup {None}) /\ adding # <<>> /\ Head(adding) # None
      /\ timers' = timers \cup {Head(adding)} /\ onDebug' = IF timers = {} THEN ros ELSE onDebug
      /\ adding' = Tail(adding) /\ UNCHANGED <<Clocked!clocks, Clocked!rcl, created, Clocked!delayed>>
      /\ Clocked!UpdateTimers(timers', readyTimers, onDebug', queue)
    BY DEF Clocked!AddTimer, TimersTypeOK
<1>2. Head(adding) \in Timers /\ Tail(adding) \in Seq(Timers \cup {None}) BY <1>1, HeadTailProperties
<1>3. ~Holds(queue, "jump") => onDebug' = ros BY <1>1 DEF JumpsFollow
<1>4. timers' \in SUBSET Timers /\ onDebug' \in BOOLEAN /\ timers' # {} BY <1>1, <1>2 DEF TimersTypeOK
<1> QED BY <1>1, <1>2, <1>3, <1>4, AfterEvaluation DEF TimersTypeOK, ReadyAreQueued, JumpsFollow

-----------------------------------------------------------------------------
(* The other steps.                                                          *)
LEMMA CalledIsTime ==
    ASSUME Clocked!TimersAssumption, TimersTypeOK, NEW t \in Timers
    PROVE  Clocked!Called(t) \in Nat
<1>1. due[t] \in Nat /\ Period \in Nat /\ Period > 0 /\ Clocked!Now \in Nat
    BY NowIsTime DEF TimersTypeOK, Clocked!TimersAssumption
<1> DEFINE next == due[t] + Period
<1>2. CASE next < Clocked!Now
    <2>1. (Clocked!Now - next) \div Period \in Nat BY <1>1, <1>2
    <2>2. (1 + (Clocked!Now - next) \div Period) * Period \in Nat BY <2>1, <1>1
    <2> QED BY <2>2, <1>1, <1>2 DEF Clocked!Called
<1>3. CASE ~(next < Clocked!Now) BY <1>1, <1>3 DEF Clocked!Called
<1> QED BY <1>2, <1>3

LEMMA DispatchTimerStep ==
    ASSUME Clocked!TimersAssumption, TimersInv, Clocked!DispatchTimer
    PROVE  TimersInv'
<1> USE DEF TimersInv
<1>1. queue \in Seq(TimerEvents) /\ queue # <<>> /\ Head(queue)[1] = "dispatch"
    BY DEF Clocked!DispatchTimer, TimersTypeOK
<1>2. timers # {} BY <1>1, HasTimers
<1> DEFINE t == Head(queue)[2]
<1>3. Tail(queue) \in Seq(TimerEvents) /\ t \in Timers BY <1>1, TailOf, TimerEventFacts
<1>4. /\ readyTimers' = readyTimers \ {t}
      /\ queue' = IF readyTimers' = {} THEN Append(Tail(queue), <<"update">>) ELSE Tail(queue)
      /\ due' = due \/ due' = [due EXCEPT ![t] = Clocked!Called(t)]
      /\ UNCHANGED <<Clocked!clocks, canceled, created, timers, onDebug, adding, arming, Clocked!delayed>>
    BY DEF Clocked!DispatchTimer
<1>5. due' \in [Timers -> Nat] BY <1>3, <1>4, CalledIsTime DEF TimersTypeOK
<1>6. queue' \in Seq(TimerEvents) BY <1>3, <1>4, TimerEventsAre, AppendOf
<1>7. TimersTypeOK' BY <1>4, <1>5, <1>6 DEF TimersTypeOK, Clocked!clocks, Clocked!delayed
<1>8. Dispatched(readyTimers', Tail(queue)) BY <1>1, <1>4, TailKeeps DEF ReadyAreQueued
<1>9. Dispatched(readyTimers', queue') BY <1>3, <1>4, <1>8, TimerEventsAre, AppendKeeps
<1>10. ReadyAreQueued' BY <1>9 DEF ReadyAreQueued, Dispatched
<1>11. GoneWithTimers' BY <1>2, <1>4 DEF GoneWithTimers
<1>12. LastJumpIs(Tail(queue), ros) BY <1>1, TailKeeps DEF JumpsFollow
<1>13. LastJumpIs(queue', ros) BY <1>3, <1>4, <1>12, TimerEventsAre, AppendKeeps
<1>14. Holds(queue, "jump") => Holds(queue', "jump")
    BY <1>1, <1>3, <1>4, TimerEventsAre, TailKeeps, AppendKeeps
<1>15. JumpsFollow' BY <1>4, <1>13, <1>14 DEF JumpsFollow, LastJumpIs, Holds,
               Clocked!clocks
<1>16. Holds(queue', "update") \/ Holds(queue', "dispatch")
    <2>1. CASE readyTimers' = {} BY <2>1, <1>3, <1>4, TimerEventsAre, AppendKeeps
    <2>2. CASE readyTimers' # {} BY <2>2, <1>9 DEF Dispatched, Holds
    <2> QED BY <2>1, <2>2
<1>17. Clocked!TimerIsCovered' BY <1>16 DEF Clocked!TimerIsCovered, Clocked!Queued, Holds
<1> QED BY <1>7, <1>10, <1>11, <1>15, <1>17

(* A step that leaves timers and clock alone and takes no event but "track"  *)
(* from the queue leaves every timer covered.                                *)
LEMMA QueueStep ==
    ASSUME TimersInv, UNCHANGED <<Clocked!clocks, timers, onDebug, readyTimers, arming, Clocked!delayed>>,
           created' \subseteq Timers, adding' \in Seq(Timers \cup {None}),
           due' \in [Timers -> Nat], canceled' \in [Timers -> BOOLEAN],
           queue' \in Seq(TimerEvents), Dispatched(readyTimers, queue'), LastJumpIs(queue', ros),
           \A sort \in {"update", "jump", "dispatch"} : Holds(queue, sort) => Holds(queue', sort),
           timers = {} => OnlyTracks(queue'),
           \A t \in timers : ~canceled'[t] => Holds(queue', "update") \/ (~canceled[t] /\ due'[t] = due[t])
    PROVE TimersInv'
<1> USE DEF TimersInv
<1>1. /\ wall' = wall /\ sim' = sim /\ ros' = ros /\ timers' = timers /\ onDebug' = onDebug /\ readyTimers' = readyTimers
      /\ arming' = arming /\ handler' = handler /\ when' = when /\ thread' = thread /\ latched' = latched
      /\ notified' = notified /\ Clocked!Now' = Clocked!Now
    BY DEF Clocked!clocks, Clocked!delayed, Clocked!Now
<1>2. TimersTypeOK' BY <1>1 DEF TimersTypeOK
<1>3. ReadyAreQueued' BY <1>1 DEF ReadyAreQueued, Dispatched
<1>4. GoneWithTimers' BY <1>1 DEF GoneWithTimers, OnlyTracks
<1>5. JumpsFollow' BY <1>1 DEF JumpsFollow, LastJumpIs, Holds
<1>6. ASSUME NEW sort \in {"update", "jump", "dispatch"}, Clocked!Queued(sort) PROVE Clocked!Queued(sort)'
    BY <1>6 DEF Clocked!Queued, Holds
<1>7. Clocked!TimerIsCovered'
    <2> SUFFICES ASSUME NEW t \in timers, ~canceled'[t], ~Clocked!Queued("update")'
                 PROVE \/ Clocked!Queued("update")' \/ Clocked!Queued("jump")' \/ Clocked!Queued("dispatch")'
                       \/ ros /\ onDebug /\ Clocked!Now < due'[t]
                       \/ ~ros /\ arming # None /\ arming[1] /\ arming[2] <= due'[t]
                       \/ /\ ~ros /\ arming = None /\ handler /\ when <= due'[t]
                          /\ thread = "new" \/ notified \/ (thread = "timed" /\ latched <= when)
        BY <1>1 DEF Clocked!TimerIsCovered, Clocked!Queued, Holds
    <2>1. ~canceled[t] /\ due'[t] = due[t] BY DEF Clocked!Queued, Holds
    <2> QED BY <2>1, <1>6 DEF Clocked!TimerIsCovered
<1> QED BY <1>2, <1>3, <1>4, <1>5, <1>7

LEMMA UpdateEntitiesStep ==
    ASSUME Clocked!TimersAssumption, TimersInv, Clocked!UpdateEntities
    PROVE  TimersInv'
<1> USE DEF TimersInv
<1>1. queue \in Seq(TimerEvents) /\ queue # <<>> /\ Head(queue)[1] = "track" /\ queue' = Tail(queue)
    BY DEF Clocked!UpdateEntities, TimersTypeOK
<1>2. UNCHANGED <<Clocked!clocks, Clocked!rcl, created, timers, onDebug, readyTimers, arming, Clocked!delayed>>
    BY DEF Clocked!UpdateEntities
<1>3. PICK order \in Clocked!SetToSeqs(created \ timers) : adding' = order \o <<None>>
    BY DEF Clocked!UpdateEntities
<1>4. IsFiniteSet(created \ timers)
    BY FS_Subset, SameFiniteSets DEF Clocked!TimersAssumption, TimersInv, TimersTypeOK
<1>5. order \in Seq(created \ timers) BY <1>3, <1>4, OrderNamesAll
<1>6. order \in Seq(Timers \cup {None}) BY <1>5, SeqMonotonic DEF TimersTypeOK
<1>7. <<None>> \in Seq(Timers \cup {None}) OBVIOUS
<1>8. adding' \in Seq(Timers \cup {None}) BY <1>3, <1>6, <1>7, ConcatProperties
<1>9. queue' \in Seq(TimerEvents) BY <1>1, TailOf
<1>10. Dispatched(readyTimers, queue') /\ LastJumpIs(queue', ros)
    BY <1>1, TailKeeps DEF ReadyAreQueued, JumpsFollow
<1>11. \A sort \in {"update", "jump", "dispatch"} : Holds(queue, sort) => Holds(queue', sort)
    BY <1>1, TailKeeps
<1>12. timers = {} => OnlyTracks(queue') BY <1>1, TailKeeps DEF GoneWithTimers
<1>13. created' \subseteq Timers /\ due' = due /\ canceled' = canceled /\ due \in [Timers -> Nat]
       /\ canceled \in [Timers -> BOOLEAN]
    BY <1>2 DEF Clocked!rcl, TimersTypeOK
<1> QED BY <1>2, <1>8, <1>9, <1>10, <1>11, <1>12, <1>13, QueueStep

(* What a wake of the executor, or a reset, puts into the queue.             *)
LEMMA AppendStep ==
    ASSUME TimersInv, NEW e \in {<<"track">>, <<"update">>}, queue' = Append(queue, e),
           timers = {} => e = <<"track">>
    PROVE /\ queue' \in Seq(TimerEvents) /\ Dispatched(readyTimers, queue') /\ LastJumpIs(queue', ros)
          /\ \A sort : Holds(queue, sort) => Holds(queue', sort)
          /\ Holds(queue', e[1])
          /\ timers = {} => OnlyTracks(queue')
<1>1. queue \in Seq(TimerEvents) /\ e \in TimerEvents /\ e[1] # "jump"
    BY TimerEventsAre DEF TimersInv, TimersTypeOK
<1> QED BY <1>1, AppendOf, AppendKeeps DEF TimersInv, ReadyAreQueued, JumpsFollow, GoneWithTimers

LEMMA SameTimerQueue ==
    ASSUME TimersInv, queue' = queue
    PROVE /\ queue' \in Seq(TimerEvents) /\ Dispatched(readyTimers, queue') /\ LastJumpIs(queue', ros)
          /\ \A sort : Holds(queue, sort) => Holds(queue', sort)
          /\ timers = {} => OnlyTracks(queue')
BY DEF TimersInv, TimersTypeOK, ReadyAreQueued, JumpsFollow, GoneWithTimers

LEMMA ChangeStep == ASSUME TimersInv, NEW t \in Timers, Clocked!Change(t) PROVE TimersInv'
<1>1. UNCHANGED <<timers, onDebug, readyTimers, adding, arming, Clocked!delayed>>
    BY DEF Clocked!Change, Clocked!Request
<1>2. UNCHANGED <<Clocked!clocks, Clocked!rcl>> /\ created' \subseteq Timers
    BY DEF Clocked!Change, TimersInv, TimersTypeOK
<1>3. queue' = queue \/ queue' = Append(queue, <<"track">>) BY DEF Clocked!Change
<1>4. /\ queue' \in Seq(TimerEvents) /\ Dispatched(readyTimers, queue') /\ LastJumpIs(queue', ros)
      /\ \A sort : Holds(queue, sort) => Holds(queue', sort)
      /\ timers = {} => OnlyTracks(queue')
    BY <1>3, AppendStep, SameTimerQueue
<1>5. due' = due /\ canceled' = canceled /\ due \in [Timers -> Nat] /\ canceled \in [Timers -> BOOLEAN]
      /\ adding' \in Seq(Timers \cup {None})
    BY <1>1, <1>2 DEF Clocked!rcl, TimersInv, TimersTypeOK
<1> QED BY <1>1, <1>2, <1>4, <1>5, QueueStep

LEMMA ResetTimerStep ==
    ASSUME Clocked!TimersAssumption, TimersInv, NEW t \in Timers, Clocked!Reset(t)
    PROVE  TimersInv'
<1>1. UNCHANGED <<timers, onDebug, readyTimers, adding, arming, Clocked!delayed>>
    BY DEF Clocked!Reset, Clocked!Request
<1>2. UNCHANGED <<Clocked!clocks, created>> /\ due' = [due EXCEPT ![t] = Clocked!Now + Period]
      /\ canceled' = [canceled EXCEPT ![t] = FALSE]
      /\ queue' = IF t \in timers THEN Append(queue, <<"update">>) ELSE queue
    BY DEF Clocked!Reset
<1>3. /\ queue' \in Seq(TimerEvents) /\ Dispatched(readyTimers, queue') /\ LastJumpIs(queue', ros)
      /\ \A sort : Holds(queue, sort) => Holds(queue', sort)
      /\ timers = {} => OnlyTracks(queue')
      /\ t \in timers => Holds(queue', "update")
    BY <1>2, AppendStep, SameTimerQueue
<1>4. Clocked!Now + Period \in Nat BY NowIsTime DEF TimersInv, Clocked!TimersAssumption
<1>5. due' \in [Timers -> Nat] /\ canceled' \in [Timers -> BOOLEAN] /\ created' \subseteq Timers
      /\ adding' \in Seq(Timers \cup {None})
    BY <1>1, <1>2, <1>4 DEF TimersInv, TimersTypeOK
<1>6. ASSUME NEW u \in timers, ~canceled'[u] PROVE Holds(queue', "update") \/ (~canceled[u] /\ due'[u] = due[u])
    BY <1>2, <1>3, <1>6 DEF TimersInv, TimersTypeOK
<1> QED BY <1>1, <1>2, <1>3, <1>5, <1>6, QueueStep

LEMMA CancelTimerStep ==
    ASSUME TimersInv, NEW t \in Timers, Clocked!CancelTimer(t)
    PROVE  TimersInv'
<1>1. UNCHANGED <<timers, onDebug, readyTimers, adding, arming, Clocked!delayed>>
    BY DEF Clocked!CancelTimer, Clocked!Request
<1>2. UNCHANGED <<Clocked!clocks, due, created, queue>> /\ canceled' = [canceled EXCEPT ![t] = TRUE]
    BY DEF Clocked!CancelTimer
<1>3. /\ queue' \in Seq(TimerEvents) /\ Dispatched(readyTimers, queue') /\ LastJumpIs(queue', ros)
      /\ \A sort : Holds(queue, sort) => Holds(queue', sort)
      /\ timers = {} => OnlyTracks(queue')
    BY <1>2, SameTimerQueue
<1>4. due' = due /\ due \in [Timers -> Nat] /\ canceled' \in [Timers -> BOOLEAN] /\ created' \subseteq Timers
      /\ adding' \in Seq(Timers \cup {None})
    BY <1>1, <1>2 DEF TimersInv, TimersTypeOK
<1>5. ASSUME NEW u \in timers, ~canceled'[u] PROVE ~canceled[u] BY <1>2, <1>5 DEF TimersInv, TimersTypeOK
<1> QED BY <1>1, <1>2, <1>3, <1>4, <1>5, QueueStep

LEMMA RemoveTimersStep ==
    ASSUME Clocked!TimersAssumption, TimersInv, Clocked!RemoveTimers
    PROVE  TimersInv'
<1> USE DEF TimersInv
<1>1. adding' = <<>> /\ timers' = timers \cap created /\ UNCHANGED <<Clocked!clocks, Clocked!rcl, created, arming>>
    BY DEF Clocked!RemoveTimers
<1>2. adding' \in Seq(Timers \cup {None}) BY <1>1
<1>3. /\ wall' = wall /\ sim' = sim /\ ros' = ros /\ due' = due /\ canceled' = canceled /\ created' = created
      /\ arming' = arming /\ Clocked!Now' = Clocked!Now
    BY <1>1 DEF Clocked!clocks, Clocked!rcl, Clocked!Now
<1>4. CASE timers' # {}
    <2>1. UNCHANGED <<readyTimers, queue, Clocked!delayed, onDebug>> BY <1>4 DEF Clocked!RemoveTimers
    <2>2. handler' = handler /\ when' = when /\ thread' = thread /\ latched' = latched /\ notified' = notified
          /\ readyTimers' = readyTimers /\ queue' = queue /\ onDebug' = onDebug
        BY <2>1 DEF Clocked!delayed
    <2>3. TimersTypeOK' BY <1>1, <1>2, <1>3, <2>2 DEF TimersTypeOK
    <2>4. ReadyAreQueued' BY <2>2 DEF ReadyAreQueued, Dispatched
    <2>5. GoneWithTimers' BY <1>4 DEF GoneWithTimers
    <2>6. JumpsFollow' BY <1>1, <1>3, <1>4, <2>2 DEF JumpsFollow, LastJumpIs, Holds
    <2>7. Clocked!TimerIsCovered' BY <1>1, <1>3, <2>2 DEF Clocked!TimerIsCovered, Clocked!Queued
    <2> QED BY <2>3, <2>4, <2>5, <2>6, <2>7
<1>5. CASE timers' = {}
    <2>1. /\ readyTimers' = {} /\ onDebug' = FALSE /\ queue' = IF Clocked!Queued("track") THEN <<<<"track">>>> ELSE <<>>
          /\ handler' = FALSE /\ when' = 0 /\ thread' = "new" /\ latched' = 0 /\ notified' = FALSE
        BY <1>5 DEF Clocked!RemoveTimers
    <2>2. queue' \in Seq(TimerEvents) /\ \A i \in DOMAIN queue' : queue'[i] = <<"track">>
        BY <2>1, TimerEventsAre
    <2>3. TimersTypeOK' BY <1>1, <1>2, <1>3, <2>1, <2>2 DEF TimersTypeOK
    <2>4. ReadyAreQueued' BY <2>1 DEF ReadyAreQueued, Dispatched
    <2>5. GoneWithTimers' BY <2>1, <2>2 DEF GoneWithTimers, OnlyTracks
    <2>6. \A i \in DOMAIN queue' : queue'[i][1] # "jump" BY <2>2
    <2>7. JumpsFollow' BY <1>5, <2>6 DEF JumpsFollow, LastJumpIs
    <2>8. Clocked!TimerIsCovered' BY <1>5 DEF Clocked!TimerIsCovered
    <2> QED BY <2>3, <2>4, <2>5, <2>7, <2>8
<1> QED BY <1>4, <1>5

(* The steps of the delayed event thread, and of time.                       *)
LEMMA EnqueueAtStep ==
    ASSUME Clocked!TimersAssumption, TimersInv, Clocked!EnqueueAt
    PROVE  TimersInv'
<1> USE DEF TimersInv
<1>1. arming # None /\ handler' = arming[1] /\ when' = arming[2] /\ notified' = (thread # "new") /\ arming' = None
      /\ UNCHANGED <<Clocked!clocks, Clocked!rcl, created, timers, onDebug, readyTimers, queue, adding, thread, latched>>
    BY DEF Clocked!EnqueueAt
<1>2. arming[1] \in BOOLEAN /\ arming[2] \in Nat BY <1>1 DEF TimersTypeOK
<1>3. TimersTypeOK' BY <1>1, <1>2 DEF TimersTypeOK, Clocked!clocks, Clocked!rcl
<1>4. ReadyAreQueued' /\ GoneWithTimers' /\ JumpsFollow'

        BY <1>1 DEF ReadyAreQueued, GoneWithTimers, JumpsFollow, Dispatched, OnlyTracks, LastJumpIs, Holds,
               Clocked!clocks
<1>5. Clocked!TimerIsCovered'
    BY <1>1, <1>2 DEF Clocked!TimerIsCovered, Clocked!Queued, Clocked!Now, Clocked!clocks, Clocked!rcl
<1> QED BY <1>3, <1>4, <1>5

LEMMA StartOrNotifiedStep == ASSUME TimersInv, Clocked!StartOrNotified PROVE TimersInv'
<1> USE DEF TimersInv
<1>1. /\ timers # {} /\ thread' = (IF handler THEN "timed" ELSE "untimed")
      /\ latched' = (IF handler THEN when ELSE 0) /\ notified' = FALSE
      /\ UNCHANGED <<Clocked!clocks, Clocked!rcl, created, timers, onDebug, readyTimers, queue, adding, arming, handler, when>>
    BY DEF Clocked!StartOrNotified, Clocked!Waits
<1>2. TimersTypeOK' BY <1>1 DEF TimersTypeOK, Clocked!clocks, Clocked!rcl
<1>3. ReadyAreQueued' /\ GoneWithTimers' /\ JumpsFollow'

        BY <1>1 DEF ReadyAreQueued, GoneWithTimers, JumpsFollow, Dispatched, OnlyTracks, LastJumpIs, Holds,
               Clocked!clocks
<1>4. Clocked!TimerIsCovered'
    BY <1>1 DEF Clocked!TimerIsCovered, Clocked!Queued, Clocked!Now, Clocked!clocks, Clocked!rcl, TimersTypeOK
<1> QED BY <1>2, <1>3, <1>4

LEMMA WaitTimesOutStep == ASSUME TimersInv, Clocked!WaitTimesOut PROVE TimersInv'
<1> USE DEF TimersInv
<1>1. UNCHANGED <<Clocked!clocks, Clocked!rcl, created, timers, onDebug, readyTimers, adding, arming, when>>
    BY DEF Clocked!WaitTimesOut
<1>2. timers # {} BY DEF Clocked!WaitTimesOut, GoneWithTimers
<1>3. CASE handler /\ when <= latched
    <2>1. queue' = Append(queue, <<"update">>) /\ handler' = FALSE /\ thread' = "untimed" /\ latched' = 0
          /\ notified' = FALSE
        BY <1>3 DEF Clocked!WaitTimesOut, Clocked!Waits
    <2>2. /\ queue' \in Seq(TimerEvents) /\ Dispatched(readyTimers, queue') /\ LastJumpIs(queue', ros)
          /\ \A sort : Holds(queue, sort) => Holds(queue', sort)
          /\ Holds(queue', "update")
        BY <1>2, <2>1, AppendStep
    <2>3. TimersTypeOK' BY <1>1, <2>1, <2>2 DEF TimersTypeOK, Clocked!clocks, Clocked!rcl
    <2>4. ReadyAreQueued' BY <1>1, <2>2 DEF ReadyAreQueued, Dispatched
    <2>5. GoneWithTimers' BY <1>1, <1>2 DEF GoneWithTimers
    <2>6. JumpsFollow' BY <1>1, <2>2 DEF JumpsFollow, LastJumpIs, Holds,
               Clocked!clocks
    <2>7. Clocked!TimerIsCovered' BY <2>2 DEF Clocked!TimerIsCovered, Clocked!Queued, Holds
    <2> QED BY <2>3, <2>4, <2>5, <2>6, <2>7
<1>4. CASE ~(handler /\ when <= latched)
    <2>1. /\ queue' = queue /\ handler' = handler /\ thread' = (IF handler THEN "timed" ELSE "untimed")
          /\ latched' = (IF handler THEN when ELSE 0) /\ notified' = FALSE
        BY <1>4 DEF Clocked!WaitTimesOut, Clocked!Waits, TimersTypeOK
    <2>2. TimersTypeOK' BY <1>1, <2>1 DEF TimersTypeOK, Clocked!clocks, Clocked!rcl
    <2>3. ReadyAreQueued' /\ GoneWithTimers' /\ JumpsFollow'

            BY <1>1, <1>2, <2>1 DEF ReadyAreQueued, GoneWithTimers, JumpsFollow, Dispatched, OnlyTracks, LastJumpIs,
                                Holds, Clocked!clocks
    <2>4. Clocked!TimerIsCovered'
        BY <1>1, <2>1 DEF Clocked!TimerIsCovered, Clocked!Queued, Clocked!Now, Clocked!clocks, Clocked!rcl, TimersTypeOK
    <2> QED BY <2>2, <2>3, <2>4
<1> QED BY <1>3, <1>4

LEMMA TickStep == ASSUME TimersInv, Clocked!Tick PROVE TimersInv'
<1> USE DEF TimersInv
<1>1. wall' = wall + 1
      /\ UNCHANGED <<sim, ros, Clocked!rcl, created, timers, onDebug, readyTimers, queue, adding, arming, Clocked!delayed>>
    BY DEF Clocked!Tick
<1>2. wall' \in Nat BY <1>1 DEF TimersTypeOK
<1>3. TimersTypeOK' BY <1>1, <1>2 DEF TimersTypeOK, Clocked!rcl, Clocked!delayed
<1>4. ReadyAreQueued' /\ GoneWithTimers' /\ JumpsFollow'

        BY <1>1 DEF ReadyAreQueued, GoneWithTimers, JumpsFollow, Dispatched, OnlyTracks, LastJumpIs, Holds,
               Clocked!delayed
<1>5. Clocked!TimerIsCovered'
    BY <1>1 DEF Clocked!TimerIsCovered, Clocked!Queued, Clocked!Now, Clocked!rcl, Clocked!delayed
<1> QED BY <1>3, <1>4, <1>5

(* A jump of the clock: its event covers every timer of the manager.         *)
LEMMA JumpStep ==
    ASSUME TimersInv, UNCHANGED <<created, canceled, timers, onDebug, readyTimers, adding, arming, Clocked!delayed>>,
           wall' = wall, sim' \in Nat, ros' \in BOOLEAN, due' \in [Timers -> Nat], Clocked!Jumped(ros')
    PROVE TimersInv'
<1> USE DEF TimersInv
<1> DEFINE e == <<"jump", ros'>>
<1>1. e \in TimerEvents /\ queue \in Seq(TimerEvents) BY TimerEventsAre DEF TimersTypeOK
<1>2. CASE timers = {}
    <2>1. queue' = queue /\ OnlyTracks(queue) BY <1>2 DEF Clocked!Jumped, GoneWithTimers
    <2>2. TimersTypeOK' BY <2>1 DEF TimersTypeOK, Clocked!delayed
    <2>3. ReadyAreQueued' /\ GoneWithTimers'
        BY <2>1 DEF ReadyAreQueued, GoneWithTimers, Dispatched, OnlyTracks, Clocked!delayed
    <2>4. \A i \in DOMAIN queue' : queue'[i][1] # "jump" BY <2>1 DEF OnlyTracks
    <2>5. JumpsFollow' BY <1>2, <2>4 DEF JumpsFollow, LastJumpIs
    <2>6. Clocked!TimerIsCovered' BY <1>2 DEF Clocked!TimerIsCovered
    <2> QED BY <2>2, <2>3, <2>5, <2>6
<1>3. CASE timers # {}
    <2>1. queue' = Append(queue, e) BY <1>3 DEF Clocked!Jumped
    <2>2. queue' \in Seq(TimerEvents) BY <1>1, <2>1, AppendOf
    <2>3. Holds(queue', "jump") /\ LastJumpIs(queue', ros') /\ Dispatched(readyTimers, queue')
        BY <1>1, <2>1, AppendKeeps DEF ReadyAreQueued
    <2>4. TimersTypeOK' BY <2>2 DEF TimersTypeOK, Clocked!delayed
    <2>5. ReadyAreQueued' BY <2>3 DEF ReadyAreQueued, Dispatched
    <2>6. GoneWithTimers' BY <1>3 DEF GoneWithTimers
    <2>7. JumpsFollow' BY <2>3 DEF JumpsFollow, LastJumpIs, Holds
    <2>8. Clocked!TimerIsCovered' BY <2>3 DEF Clocked!TimerIsCovered, Clocked!Queued, Holds
    <2> QED BY <2>4, <2>5, <2>6, <2>7, <2>8
<1> QED BY <1>2, <1>3

LEMMA SwitchClockStep == ASSUME TimersInv, Clocked!SwitchClock PROVE TimersInv'
<1>1. /\ ros' = ~ros /\ UNCHANGED <<wall, sim, canceled, created>> /\ Clocked!Jumped(ros')
      /\ due' = [t \in Timers |->
                   IF due[t] + Clocked!Now' > Clocked!Now THEN due[t] + Clocked!Now' - Clocked!Now ELSE 0]
      /\ UNCHANGED <<timers, onDebug, readyTimers, adding, arming, Clocked!delayed>>
    BY DEF Clocked!SwitchClock, Clocked!Request
<1>2. sim' \in Nat /\ wall' \in Nat /\ ros' \in BOOLEAN BY <1>1 DEF TimersInv, TimersTypeOK
<1>3. Clocked!Now' \in Nat /\ Clocked!Now \in Nat BY <1>2, NowIsTime DEF Clocked!Now, TimersInv
<1>4. ASSUME NEW t \in Timers
       PROVE (IF due[t] + Clocked!Now' > Clocked!Now THEN due[t] + Clocked!Now' - Clocked!Now ELSE 0) \in Nat
    <2>1. due[t] \in Nat BY DEF TimersInv, TimersTypeOK
    <2> QED BY <2>1, <1>3
<1>5. due' \in [Timers -> Nat] BY <1>1, <1>4
<1> QED BY <1>1, <1>2, <1>5, JumpStep

LEMMA SetSimTimeStep ==
    ASSUME Clocked!TimersAssumption, TimersInv, NEW time \in Nat, Clocked!SetSimTime(time)
    PROVE  TimersInv'
<1>1. /\ ros = TRUE /\ ros' = ros /\ sim' = time /\ UNCHANGED <<wall, canceled, created>> /\ Clocked!Jumped(TRUE)
      /\ due' = [t \in Timers |-> IF due[t] > time + Period THEN time + Period ELSE due[t]]
      /\ UNCHANGED <<timers, onDebug, readyTimers, adding, arming, Clocked!delayed>>
    BY DEF Clocked!SetSimTime, Clocked!Request, TimersInv, TimersTypeOK
<1>2. time + Period \in Nat BY DEF Clocked!TimersAssumption
<1>3. due' \in [Timers -> Nat] BY <1>1, <1>2 DEF TimersInv, TimersTypeOK
<1>4. Clocked!Jumped(ros') /\ ros' \in BOOLEAN /\ sim' \in Nat /\ wall' = wall BY <1>1
<1> QED BY <1>1, <1>3, <1>4, JumpStep

-----------------------------------------------------------------------------
LEMMA TimersInitially == ASSUME Clocked!TimersAssumption, Clocked!Init PROVE TimersInv
<1>1. <<<<"track">>>> \in Seq(TimerEvents) BY TimerEventsAre
<1>2. \A i \in DOMAIN queue : queue[i] = <<"track">> BY DEF Clocked!Init
<1>3. TimersTypeOK
    <2>1. due \in [Timers -> Nat] BY DEF Clocked!Init, Clocked!TimersAssumption
    <2>2. <<>> \in Seq(Timers \cup {None}) OBVIOUS
    <2> QED BY <1>1, <2>1, <2>2 DEF Clocked!Init, TimersTypeOK
<1>4. ReadyAreQueued BY DEF Clocked!Init, ReadyAreQueued, Dispatched
<1>5. GoneWithTimers BY <1>2 DEF Clocked!Init, GoneWithTimers, OnlyTracks
<1>6. \A i \in DOMAIN queue : queue[i][1] # "jump" BY <1>2
<1>7. JumpsFollow BY <1>6 DEF Clocked!Init, JumpsFollow, LastJumpIs
<1>8. Clocked!TimerIsCovered BY DEF Clocked!Init, Clocked!TimerIsCovered
<1> QED BY <1>3, <1>4, <1>5, <1>7, <1>8 DEF TimersInv

LEMMA TimersStep ==
    ASSUME Clocked!TimersAssumption, TimersInv, [Clocked!Next]_(Clocked!vars)
    PROVE  TimersInv'
<1>1. CASE Clocked!Run
    BY <1>1, UpdateEventStep, HandleJumpStep, DispatchTimerStep, UpdateEntitiesStep, AddTimerStep,
       RemoveTimersStep, EnqueueAtStep DEF Clocked!Run
<1>2. CASE Clocked!RunThread BY <1>2, StartOrNotifiedStep, WaitTimesOutStep DEF Clocked!RunThread
<1>3. CASE Clocked!Users
    <2>1. ASSUME NEW t \in Timers, Clocked!Change(t) \/ Clocked!Reset(t) \/ Clocked!CancelTimer(t) PROVE TimersInv'
        BY <2>1, ChangeStep, ResetTimerStep, CancelTimerStep
    <2>2. ASSUME NEW time \in 0..MaxTime, Clocked!SetSimTime(time) PROVE TimersInv'
        BY <2>2, SetSimTimeStep DEF Clocked!TimersAssumption
    <2> QED BY <1>3, <2>1, <2>2, SwitchClockStep, TickStep DEF Clocked!Users
<1>4. CASE UNCHANGED Clocked!vars
    <2>1. /\ UNCHANGED <<timers, onDebug, readyTimers, arming>>
          /\ UNCHANGED Clocked!clocks /\ UNCHANGED Clocked!delayed /\ queue' = queue
          /\ created' = created /\ adding' = adding /\ due' = due /\ canceled' = canceled
        BY <1>4 DEF Clocked!vars, Clocked!clocks, Clocked!delayed
    <2>2. /\ queue' \in Seq(TimerEvents) /\ Dispatched(readyTimers, queue') /\ LastJumpIs(queue', ros)
          /\ \A sort : Holds(queue, sort) => Holds(queue', sort)
          /\ timers = {} => OnlyTracks(queue')
        BY <2>1, SameTimerQueue
    <2>3. created' \subseteq Timers /\ adding' \in Seq(Timers \cup {None}) /\ due' \in [Timers -> Nat]
          /\ canceled' \in [Timers -> BOOLEAN]
        BY <2>1 DEF TimersInv, TimersTypeOK
    <2> QED BY <2>1, <2>2, <2>3, QueueStep
<1> QED BY <1>1, <1>2, <1>3, <1>4 DEF Clocked!Next

(* The inductive invariant of the timers holds in every reachable state.     *)
THEOREM TimersInvariance == Clocked!Spec => []TimersInv
<1>1. Clocked!Init => TimersInv
  BY TimersInitially, ClockedAssumption
<1>2. TimersInv /\ [Clocked!Next]_(Clocked!vars) => TimersInv'
  BY TimersStep, ClockedAssumption
<1> QED
  BY <1>1, <1>2, PTL DEF Clocked!Spec

(* No timer of an EventsExecutor is forgotten: whatever users do to timers   *)
(* and to the clock, an evaluation is under way or the delayed event thread  *)
(* will ask for one in time (timers_manager.cpp:193-271,                    *)
(* delayed_event_thread.cpp:38-69).                                         *)
THEOREM TimersAreCovered == Clocked!Spec => [](Clocked!TimerIsCovered /\ TimerIsCovered)
<1>1. TimersInv => Clocked!TimerIsCovered /\ TimerIsCovered
  BY DEF TimersInv, TimerIsCovered
<1> QED
  BY <1>1, TimersInvariance, PTL
=============================================================================
