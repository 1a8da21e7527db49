-------------------------- MODULE SharedState_proofs --------------------------
(***************************************************************************)
(* Proofs about what threads share: the work tracker (IInv is its          *)
(* inductive invariant), and the instances of MCSharedState, which give    *)
(* their parameters names and no values: the lifecycle of a node, the      *)
(* shutdown of an executor, the callbacks of a parameter event handler,    *)
(* contexts, the entities of a node, an action client. For any threads,    *)
(* callbacks, entities, parameters, contexts, nodes, goals. A theorem      *)
(* about an instance states its property, and with it what a run checks:   *)
(* that property in the behaviours that are about the instance.            *)
(***************************************************************************)
EXTENDS MCSharedState, FiniteSetTheorems, SequenceTheorems, TLAPS

-----------------------------------------------------------------------------
(* The callbacks a thread owns form a finite set.                          *)
LEMMA OwnedFinite == \A t : IsFiniteSet(Owned(t))
<1> TAKE t
<1>1. Owned(t) \subseteq Callbacks
  BY DEF Owned
<1> QED
  BY <1>1, CallbacksAssumption, FS_Subset

(* A thread has a counter entry iff it owns a callback in flight.          *)
LEMMA ExecutingOwns ==
    ASSUME TypeOK, CountsMatch, NEW t \in Threads
    PROVE  counts[t] > 0 <=> \E c \in Callbacks : owner[c] = t
<1>1. Cardinality(Owned(t)) = 0 <=> Owned(t) = {}
  BY OwnedFinite, FS_EmptySet
<1>2. Cardinality(Owned(t)) \in Nat
  BY OwnedFinite, FS_CardinalityType
<1> QED
  BY <1>1, <1>2 DEF CountsMatch, Owned, TypeOK

(* The initial state satisfies the invariant.                              *)
LEMMA InitIInv == Init => IInv
<1> SUFFICES ASSUME Init PROVE IInv
  OBVIOUS
<1>1. TypeOK
  BY DEF Init, TypeOK
<1>2. CountsMatch
  <2> SUFFICES ASSUME NEW t \in Threads PROVE counts[t] = Cardinality(Owned(t))
    BY DEF CountsMatch
  <2>1. Owned(t) = {}
    BY ThreadsAssumption DEF Init, Owned
  <2> QED
    BY <2>1, FS_EmptySet DEF Init
<1> QED
  BY <1>1, <1>2 DEF Init, IInv, RunnersOwn, WaitersAreMembers,
     NestedWaitersCommitted, NoMissedWakeup, MembershipIsCommitment

-----------------------------------------------------------------------------
(* Entering track_callback() preserves the invariant.                      *)
LEMMA EnterIInv ==
    ASSUME IInv, NEW t \in Threads, NEW c \in Callbacks, Enter(t, c)
    PROVE  IInv'
<1> USE DEF IInv
<1>1. TypeOK'
  BY DEF TypeOK, Enter
<1>2. CountsMatch'
  <2> SUFFICES ASSUME NEW u \in Threads PROVE counts'[u] = Cardinality(Owned(u)')
    BY DEF CountsMatch
  <2>1. CASE u = t
    <3>1. Owned(u)' = Owned(u) \cup {c} /\ c \notin Owned(u)
      BY <2>1, ThreadsAssumption DEF Enter, Owned, TypeOK
    <3>2. Cardinality(Owned(u)') = Cardinality(Owned(u)) + 1
      BY <3>1, OwnedFinite, FS_AddElement
    <3> QED
      BY <2>1, <3>2 DEF Enter, TypeOK, CountsMatch
  <2>2. CASE u # t
    <3>1. Owned(u)' = Owned(u)
      BY <2>2, ThreadsAssumption DEF Enter, Owned, TypeOK
    <3> QED
      BY <2>2, <3>1 DEF Enter, TypeOK, CountsMatch
  <2> QED
    BY <2>1, <2>2
<1>3. RunnersOwn'
  BY ThreadsAssumption DEF RunnersOwn, Enter, TypeOK
<1>4. WaitersAreMembers'
  BY DEF WaitersAreMembers, Enter, Idle, TypeOK
<1>5. NoMissedWakeup'
  BY DEF NoMissedWakeup, Enter, OtherWorkDrained, Executing, TypeOK
<1>6. MembershipIsCommitment'
  BY DEF MembershipIsCommitment, Enter, TypeOK
<1>7. NestedWaitersCommitted'
  BY DEF NestedWaitersCommitted, Enter, Idle, TypeOK
<1> QED
  BY <1>1, <1>2, <1>3, <1>4, <1>5, <1>6, <1>7

(* Leaving track_callback() preserves the invariant, on whatever thread it *)
(* happens: only the owner captured on entry matters.                      *)
LEMMA TrackExitIInv ==
    ASSUME IInv, NEW c \in Callbacks, owner[c] # NoThread, TrackExit(owner[c], c)
    PROVE  IInv'
<1> DEFINE o == owner[c]
<1>0. o \in Threads
  BY DEF IInv, TypeOK
<1>1. counts[o] > 0
  BY <1>0, ExecutingOwns DEF IInv
<1> USE DEF IInv
<1>2. TypeOK'
  BY <1>0, <1>1 DEF TypeOK, TrackExit, NotifyAll
<1>3. CountsMatch'
  <2> SUFFICES ASSUME NEW u \in Threads PROVE counts'[u] = Cardinality(Owned(u)')
    BY DEF CountsMatch
  <2>1. CASE u = o
    <3>1. Owned(u)' = Owned(u) \ {c} /\ c \in Owned(u)
      BY <2>1, ThreadsAssumption DEF TrackExit, Owned, TypeOK
    <3>2. Cardinality(Owned(u)') = Cardinality(Owned(u)) - 1
      BY <3>1, OwnedFinite, FS_RemoveElement
    <3> QED
      BY <2>1, <3>2 DEF TrackExit, TypeOK, CountsMatch
  <2>2. CASE u # o
    <3>1. Owned(u)' = Owned(u)
      BY <2>2, ThreadsAssumption DEF TrackExit, Owned, TypeOK
    <3> QED
      BY <2>2, <3>1, <1>0 DEF TrackExit, TypeOK, CountsMatch
  <2> QED
    BY <2>1, <2>2
<1>4. RunnersOwn'
  BY DEF RunnersOwn, TrackExit, TypeOK
<1>5. WaitersAreMembers'
  BY <1>0 DEF WaitersAreMembers, TrackExit, NotifyAll, TypeOK
<1>6. NoMissedWakeup'
  BY DEF NoMissedWakeup, TrackExit, NotifyAll
<1>7. MembershipIsCommitment'
  BY <1>0, <1>1 DEF MembershipIsCommitment, TrackExit, NotifyAll, TypeOK
<1>8. NestedWaitersCommitted'
  BY <1>0, <1>1 DEF NestedWaitersCommitted, TrackExit, NotifyAll, TypeOK
<1> QED
  BY <1>2, <1>3, <1>4, <1>5, <1>6, <1>7, <1>8

(* Moving a callback between running and suspended preserves it.           *)
LEMMA RunnerIInv ==
    ASSUME IInv, NEW t \in Threads, NEW c \in Callbacks, Suspend(t, c) \/ Resume(t, c)
    PROVE  IInv'
<1> USE DEF IInv
<1>1. /\ UNCHANGED <<counts, waiting, owner, pc, addedSelf, timed, result, committed>>
      /\ TypeOK'
  BY DEF Suspend, Resume, TypeOK
<1>2. RunnersOwn'
  BY DEF RunnersOwn, Suspend, Resume, TypeOK
<1> QED
  BY <1>1, <1>2 DEF CountsMatch, Owned, WaitersAreMembers, NoMissedWakeup,
     OtherWorkDrained, Executing, MembershipIsCommitment, NestedWaitersCommitted

-----------------------------------------------------------------------------
(* A return from wait() preserves the invariant: w is the waiter set with  *)
(* the caller in it or not, p the program counters with the sleepers woken *)
(* if this call added it.                                                  *)
LEMMA ReturnIInv ==
    ASSUME IInv, NEW t \in Threads, NEW joined \in BOOLEAN, NEW drained \in BOOLEAN,
           NEW w \in {waiting, waiting \cup {t}}, NEW p \in {pc, NotifyAll(pc)},
           w # waiting => p = NotifyAll(pc) /\ joined,
           t \in waiting /\ ~joined => counts[t] > 0 /\ committed[t],
           Return(t, joined, drained, w, p)
    PROVE  IInv'
<1> USE DEF IInv
<1>1. TypeOK'
  BY DEF TypeOK, Return, NotifyAll
<1>2. CountsMatch'
  BY DEF CountsMatch, Return, Owned
<1>3. RunnersOwn'
  BY DEF RunnersOwn, Return
<1>4. WaitersAreMembers'
  BY DEF WaitersAreMembers, Return, NotifyAll, TypeOK
<1>5. NoMissedWakeup'
  BY DEF NoMissedWakeup, Return, NotifyAll, OtherWorkDrained, Executing, TypeOK
<1>6. MembershipIsCommitment'
  BY DEF MembershipIsCommitment, Return, NotifyAll, Discards, TypeOK
<1>7. NestedWaitersCommitted'
  BY DEF NestedWaitersCommitted, Return, NotifyAll, Discards, TypeOK
<1> QED
  BY <1>1, <1>2, <1>3, <1>4, <1>5, <1>6, <1>7

(* Every step of wait() preserves the invariant.                           *)
LEMMA WaitIInv ==
    ASSUME IInv, NEW t \in Threads, Wait(t)
    PROVE  IInv'
<1> USE DEF IInv
<1>1. CASE WaitReturnsAtOnce(t)
  <2>1. t \in waiting => counts[t] > 0 /\ committed[t]
    BY <1>1 DEF WaitReturnsAtOnce, MembershipIsCommitment
  <2> QED
    BY <1>1, <2>1, ReturnIInv DEF WaitReturnsAtOnce
<1>2. ASSUME NEW b \in BOOLEAN, WaitSleeps(t, b) PROVE IInv'
  <2>1. TypeOK' /\ CountsMatch' /\ RunnersOwn'
    BY <1>2 DEF WaitSleeps, TypeOK, NotifyAll, CountsMatch, Owned, RunnersOwn
  <2>2. WaitersAreMembers'
    BY <1>2 DEF WaitSleeps, WaitersAreMembers, NotifyAll, TypeOK
  <2>3. NestedWaitersCommitted'
    BY <1>2 DEF WaitSleeps, NestedWaitersCommitted, MembershipIsCommitment, NotifyAll, TypeOK
  <2>4. NoMissedWakeup'
    BY <1>2 DEF WaitSleeps, NoMissedWakeup, NotifyAll, OtherWorkDrained, Executing, TypeOK
  <2>5. MembershipIsCommitment'
    BY <1>2 DEF WaitSleeps, MembershipIsCommitment, NotifyAll, TypeOK
  <2> QED
    BY <2>1, <2>2, <2>3, <2>4, <2>5
<1>3. CASE Recheck(t)
  <2>1. CASE OtherWorkDrained(waiting)
    <3>1. t \in waiting /\ ~addedSelf[t] => counts[t] > 0 /\ committed[t]
      BY <1>3 DEF Recheck, NestedWaitersCommitted
    <3>2. addedSelf[t] \in BOOLEAN
      BY DEF TypeOK
    <3> QED
      BY <1>3, <2>1, <3>1, <3>2, ReturnIInv DEF Recheck
  <2>2. CASE ~OtherWorkDrained(waiting)
    BY <1>3, <2>2 DEF Recheck, TypeOK, CountsMatch, Owned, RunnersOwn, WaitersAreMembers,
       NestedWaitersCommitted, NoMissedWakeup, OtherWorkDrained, Executing,
       MembershipIsCommitment
  <2> QED
    BY <2>1, <2>2
<1>4. CASE TimeOut(t)
  <2>1. t \in waiting /\ ~addedSelf[t] => counts[t] > 0 /\ committed[t]
    BY <1>4 DEF TimeOut, NestedWaitersCommitted
  <2>2. addedSelf[t] \in BOOLEAN
    BY DEF TypeOK
  <2> QED
    BY <1>4, <2>1, <2>2, ReturnIInv DEF TimeOut
<1> QED
  BY <1>1, <1>2, <1>3, <1>4 DEF Wait

-----------------------------------------------------------------------------
(* Every step preserves the invariant.                                     *)
LEMMA NextIInv == IInv /\ [Next]_vars => IInv'
<1> SUFFICES ASSUME IInv, [Next]_vars PROVE IInv'
  OBVIOUS
<1>1. ASSUME NEW t \in Threads, NEW c \in Callbacks, Enter(t, c) PROVE IInv'
  BY <1>1, EnterIInv
<1>2. ASSUME NEW t \in Threads, NEW c \in Callbacks, Exit(t, c) PROVE IInv'
  <2>1. owner[c] # NoThread
    BY <1>2, ThreadsAssumption DEF Exit, IInv, RunnersOwn
  <2> QED
    BY <1>2, <2>1, TrackExitIInv DEF Exit
<1>3. ASSUME NEW t \in Threads, NEW c \in Callbacks, Close(t, c) PROVE IInv'
  BY <1>3, TrackExitIInv DEF Close
<1>4. ASSUME NEW t \in Threads, NEW c \in Callbacks, Suspend(t, c) \/ Resume(t, c)
      PROVE  IInv'
  BY <1>4, RunnerIInv
<1>5. ASSUME NEW t \in Threads, Wait(t) PROVE IInv'
  BY <1>5, WaitIInv
<1>6. CASE UNCHANGED vars
  BY <1>6 DEF vars, IInv, TypeOK, CountsMatch, Owned, RunnersOwn, WaitersAreMembers,
     NestedWaitersCommitted, NoMissedWakeup, OtherWorkDrained, Executing,
     MembershipIsCommitment
<1> QED
  BY <1>1, <1>2, <1>3, <1>4, <1>5, <1>6 DEF Next

(* The invariant holds in every reachable state.                           *)
THEOREM Invariance == Spec => []IInv
<1> QED
  BY InitIInv, NextIInv, PTL DEF Spec

(* The variables keep their types; counts stay natural numbers, so no exit *)
(* of track_callback() finds its owner without an entry.                   *)
THEOREM TypeCorrect == Spec => []TypeOK
<1>1. IInv => TypeOK
  BY DEF IInv
<1> QED
  BY <1>1, Invariance, PTL

(* The counters never drift from the callbacks in flight.                  *)
THEOREM CountsCorrect == Spec => []CountsMatch
<1>1. IInv => CountsMatch
  BY DEF IInv
<1> QED
  BY <1>1, Invariance, PTL

(* No thread sleeps in wait() on a predicate that already holds.           *)
THEOREM NoLostNotification == Spec => []NoMissedWakeup
<1>1. IInv => NoMissedWakeup
  BY DEF IInv
<1> QED
  BY <1>1, Invariance, PTL

(* Only committed threads are exempted from the drain of others.           *)
THEOREM MembersAreCommitted == Spec => []MembershipIsCommitment
<1>1. IInv => MembershipIsCommitment
  BY DEF IInv
<1> QED
  BY <1>1, Invariance, PTL

(* As long as callbacks are resumed on the thread that entered them, any   *)
(* number of callbacks may call shutdown() without blocking each other.    *)
THEOREM MutualShutdown == ~ResumeAnywhere => (Spec => []WaitersNeverBlockEachOther)
<1> SUFFICES ASSUME ~ResumeAnywhere PROVE Spec => []WaitersNeverBlockEachOther
  OBVIOUS
<1>1. IInv => WaitersNeverBlockEachOther
  <2> SUFFICES ASSUME IInv,
                      \A c \in InFlight : runner[c] # NoThread /\ pc[runner[c]] # "free",
                      NEW t \in Threads, pc[t] = "asleep"
               PROVE  FALSE
    BY DEF WaitersNeverBlockEachOther
  <2>1. PICK u \in Threads : counts[u] > 0 /\ u \notin waiting
    BY DEF IInv, NoMissedWakeup, OtherWorkDrained, Executing
  <2>2. PICK c \in Callbacks : owner[c] = u
    BY <2>1, ExecutingOwns DEF IInv
  <2>3. runner[c] = u /\ pc[u] # "free"
    BY <2>2, ThreadsAssumption DEF InFlight, IInv, RunnersOwn
  <2> QED
    BY <2>1, <2>3 DEF IInv, WaitersAreMembers
<1> QED
  BY <1>1, Invariance, PTL

(* wait() returns True only if whoever still runs a callback is committed  *)
(* to finishing it.                                                        *)
THEOREM DrainIsSafe == Spec => DrainedMeansCommitted
<1> DEFINE Safe(t) ==
      result[t] # "True" /\ result'[t] = "True" =>
        \A c \in InFlight : owner[c] = t \/ pc[owner[c]] # "free" \/ committed[owner[c]]
<1>1. ASSUME IInv, [Next]_vars, NEW t \in Threads PROVE Safe(t)
  <2> SUFFICES ASSUME result[t] # "True", result'[t] = "True", NEW c \in InFlight
               PROVE  owner[c] = t \/ pc[owner[c]] # "free" \/ committed[owner[c]]
    OBVIOUS
  <2>1. WaitReturnsAtOnce(t) \/ (Recheck(t) /\ OtherWorkDrained(waiting))
    <3>1. \E u \in Threads : Wait(u)
      BY <1>1 DEF Next, vars, Enter, Exit, Close, TrackExit, Suspend, Resume
    <3>2. PICK u \in Threads : Wait(u)
      BY <3>1
    <3>3. u = t
      BY <1>1, <3>2 DEF IInv, TypeOK, Wait, WaitReturnsAtOnce, WaitSleeps, Recheck,
         TimeOut, Return
    <3>4. ~TimeOut(t) /\ \A b \in BOOLEAN : ~WaitSleeps(t, b)
      BY <1>1 DEF IInv, TypeOK, TimeOut, Return, WaitSleeps
    <3>5. Recheck(t) => OtherWorkDrained(waiting)
      BY DEF Recheck
    <3> QED
      BY <3>2, <3>3, <3>4, <3>5 DEF Wait
  <2>2. owner[c] \in Threads /\ counts[owner[c]] > 0
    BY <1>1, ExecutingOwns DEF InFlight, IInv, TypeOK
  <2>3. owner[c] = t \/ owner[c] \in waiting
    BY <2>1, <2>2 DEF WaitReturnsAtOnce, OtherWorkDrained, Executing
  <2> QED
    BY <1>1, <2>3 DEF IInv, MembershipIsCommitment
<1>2. IInv /\ [Next]_vars =>
        [\A t \in Threads : Safe(t)]_vars
  BY <1>1
<1> QED
  BY <1>2, Invariance, PTL DEF Spec, DrainedMeansCommitted

-----------------------------------------------------------------------------
(* The lifecycle *)

States == {"unconfigured", "inactive", "active", "finalized"} \cup Transitions!Transient
Asked == {e[1] : e \in Transitions!Edges}
Codes == {"none", "success", "failure", "error"}
Inside(t) == lifecycleThread[t].at \in {"calling", "called"}

Frames == [at : {"idle", "asking", "calling", "called"}, asked : Asked \cup {"none"},
           during : States \cup {"none"}, todo : SUBSET Managed,
           size : {Transitions!Cardinality(S) : S \in SUBSET Managed} \cup {0}, code : Codes]

LifecycleTypeOK ==
    /\ state \in States
    /\ managed \in SUBSET Managed /\ enabled \in SUBSET managed /\ stale \in SUBSET Managed
    /\ lifecycleThread \in [Users -> Frames]

(* The thread that is inside a transition, if there is one.                *)
AloneInside ==
    /\ \A t, u \in Users : Inside(t) /\ Inside(u) => t = u
    /\ \A t \in Users : Inside(t) => lifecycleThread[t].during = state
    /\ state \in Transitions!Transient <=> \E t \in Users : Inside(t)

(* Its loop over the managed entities.                                     *)
LoopIsSound == \A t \in Users :
    /\ Inside(t) => lifecycleThread[t].todo \subseteq managed
    /\ lifecycleThread[t].at = "calling" => lifecycleThread[t].code = "success"
    /\ lifecycleThread[t].at = "called" /\ lifecycleThread[t].code = "success" => lifecycleThread[t].todo = {}

(* What is enabled in a stable state, and how far a transition has come.   *)
EnabledSoFar ==
    /\ state = "active" => managed \ stale \subseteq enabled
    /\ state \in {"unconfigured", "inactive", "configuring", "cleaningup", "errorprocessing"} =>
         enabled \subseteq stale
    /\ \A t \in Users : Inside(t) /\ lifecycleThread[t].code = "success" =>
         /\ state = "activating" => managed \ stale \subseteq enabled \cup lifecycleThread[t].todo
         /\ state = "deactivating" => enabled \subseteq stale \cup lifecycleThread[t].todo

LInv == LifecycleTypeOK /\ AloneInside /\ LoopIsSound /\ EnabledSoFar

-----------------------------------------------------------------------------
LEMMA SameCardinality == \A S : Transitions!Cardinality(S) = Cardinality(S)
BY DEF Transitions!Cardinality, Cardinality

(* The edge a transition follows is the only one of its name.              *)
LEMMA EdgeOfName ==
    ASSUME NEW name, NEW e \in Transitions!Edges, e[1] = name
    PROVE  (CHOOSE x \in Transitions!Edges : x[1] = name) = e
<1>1. \A x \in Transitions!Edges : x[1] = name => x = e
  BY DEF Transitions!Edges
<1> QED
  BY <1>1

LEMMA InitLInv == Transitions!Init => LInv
BY DEF Transitions!Init, LInv, LifecycleTypeOK, AloneInside, LoopIsSound, EnabledSoFar, Inside,
   Transitions!Idle, Frames, States,
   Transitions!Transient, Codes

LEMMA AskLInv ==
    ASSUME LInv, NEW t \in Users, Transitions!trigger(t) \/ Transitions!trigger_shutdown(t)
    PROVE  LInv'
<1>1. PICK word \in Asked :
          /\ lifecycleThread[t] = Transitions!Idle
          /\ lifecycleThread' =
               [lifecycleThread EXCEPT ![t] = [Transitions!Idle EXCEPT !.at = "asking", !.asked = word]]
  BY DEF Transitions!trigger, Transitions!trigger_shutdown, Asked
<1>2. UNCHANGED <<state, managed, enabled, stale>>
  BY DEF Transitions!trigger, Transitions!trigger_shutdown
<1>3. LifecycleTypeOK'
  BY <1>1, <1>2 DEF LInv, LifecycleTypeOK, Frames, Transitions!Idle, Codes
<1>4. \A u \in Users :
          /\ Inside(u)' <=> Inside(u)
          /\ u # t => lifecycleThread'[u] = lifecycleThread[u]
          /\ lifecycleThread'[t].at = "asking" /\ lifecycleThread[t].at = "idle"
  BY <1>1 DEF LInv, LifecycleTypeOK, Inside, Transitions!Idle
<1> QED
  BY <1>2, <1>3, <1>4 DEF LInv, AloneInside, LoopIsSound, EnabledSoFar, Inside

LEMMA StartLInv ==
    ASSUME LInv, NEW t \in Users, Transitions!Start(t)
    PROVE  LInv'
<1>1. CASE lifecycleThread[t].asked \notin Transitions!Available(state)
  <2>1. /\ lifecycleThread[t].at = "asking" /\ UNCHANGED <<state, managed, enabled, stale>>
        /\ lifecycleThread' = [lifecycleThread EXCEPT ![t] = Transitions!Idle]
    BY <1>1 DEF Transitions!Start
  <2>2. LifecycleTypeOK'
    BY <2>1 DEF LInv, LifecycleTypeOK, Transitions!Idle, Frames, Codes
  <2>3. /\ ~Inside(t) /\ ~Inside(t)'
        /\ \A u \in Users : u # t => lifecycleThread'[u] = lifecycleThread[u] /\ Inside(u)' = Inside(u)
    BY <2>1 DEF LInv, LifecycleTypeOK, Inside, Transitions!Idle
  <2>4. lifecycleThread'[t].at = "idle"
    BY <2>1 DEF LInv, LifecycleTypeOK, Transitions!Idle
  <2> QED
    BY <2>1, <2>2, <2>3, <2>4 DEF LInv, AloneInside, LoopIsSound, EnabledSoFar
<1>2. CASE lifecycleThread[t].asked \in Transitions!Available(state)
  <2>1. PICK e \in Transitions!Edges : e[1] = lifecycleThread[t].asked /\ e[2] = state
    BY <1>2 DEF Transitions!Available
  <2> DEFINE chosen == CHOOSE x \in Transitions!Edges : x[1] = lifecycleThread[t].asked
  <2>0. chosen = e
    BY <2>1, EdgeOfName
  <2>2. /\ state' = e[3]
        /\ lifecycleThread' = [lifecycleThread EXCEPT ![t] = Transitions!Calling(state', lifecycleThread[t].asked)]
        /\ stale' = IF state' \in {"activating", "deactivating"} THEN {} ELSE stale
        /\ UNCHANGED <<managed, enabled>>
    BY <1>2, <2>0 DEF Transitions!Start
  <2>3. /\ state \in {"unconfigured", "inactive", "active"} /\ state' \in Transitions!Transient
        /\ state' \in {"configuring", "cleaningup", "activating"} =>
             state \in {"unconfigured", "inactive"}
        /\ state' # "errorprocessing"
    BY <2>1, <2>2 DEF Transitions!Edges, Transitions!Transient
  <2>4. LifecycleTypeOK'
    BY <2>2, <2>3 DEF LInv, LifecycleTypeOK, Frames, Transitions!Calling, States, Transitions!Transient, Codes
  <2>5. \A u \in Users : ~Inside(u)
    BY <2>3 DEF LInv, AloneInside, Transitions!Transient
  <2>6. /\ lifecycleThread'[t] = Transitions!Calling(state', lifecycleThread[t].asked)
        /\ \A u \in Users : u # t => lifecycleThread'[u] = lifecycleThread[u]
    BY <2>2 DEF LInv, LifecycleTypeOK
  <2>7. \A u \in Users : Inside(u)' <=> u = t
    BY <2>5, <2>6 DEF Inside, Transitions!Calling
  <2>8. AloneInside'
    BY <2>3, <2>6, <2>7 DEF AloneInside, Transitions!Calling
  <2>9. LoopIsSound'
    BY <2>2, <2>5, <2>6, <2>7 DEF LInv, LoopIsSound, Inside, Transitions!Calling
  <2>10. /\ managed \subseteq lifecycleThread'[t].todo /\ enabled \subseteq managed
         /\ state' \in {"configuring", "cleaningup"} => stale' = stale /\ enabled \subseteq stale
    BY <2>2, <2>3, <2>6 DEF LInv, LifecycleTypeOK, EnabledSoFar, Transitions!Calling
  <2>11. EnabledSoFar'
    BY <2>2, <2>3, <2>7, <2>10 DEF EnabledSoFar, Transitions!Transient
  <2> QED
    BY <2>4, <2>8, <2>9, <2>11 DEF LInv
<1> QED
  BY <1>1, <1>2

LEMMA CallEntityLInv ==
    ASSUME LInv, NEW t \in Users, Transitions!CallEntity(t)
    PROVE  LInv'
<1>1. PICK e \in lifecycleThread[t].todo, code \in {"success", "failure", "error"} :
          /\ enabled' = IF code = "success" THEN Transitions!SetEnabled(lifecycleThread[t].during, e) ELSE enabled
          /\ lifecycleThread' = [lifecycleThread EXCEPT ![t].todo = @ \ {e}, ![t].code = code,
                                      ![t].at = IF code = "success" THEN "calling" ELSE "called"]
  BY DEF Transitions!CallEntity
<1>2. lifecycleThread[t].at = "calling" /\ Inside(t) /\ lifecycleThread[t].during = state /\ state \in Transitions!Transient
      /\ lifecycleThread[t].code = "success" /\ e \in managed /\ UNCHANGED <<state, managed, stale>>
  BY <1>1 DEF Transitions!CallEntity, Inside, LInv, AloneInside, LoopIsSound
<1>3. /\ lifecycleThread'[t].todo = lifecycleThread[t].todo \ {e} /\ lifecycleThread'[t].code = code
      /\ lifecycleThread'[t].at = (IF code = "success" THEN "calling" ELSE "called")
      /\ lifecycleThread'[t].during = lifecycleThread[t].during
      /\ \A u \in Users : u # t => lifecycleThread'[u] = lifecycleThread[u]
      /\ lifecycleThread' \in [Users -> Frames]
  <2>1. lifecycleThread \in [Users -> Frames] /\ lifecycleThread[t] \in Frames
    BY DEF LInv, LifecycleTypeOK
  <2>2. lifecycleThread' = [lifecycleThread EXCEPT ![t] = [lifecycleThread[t] EXCEPT !.todo = @ \ {e}, !.code = code,
                       !.at = IF code = "success" THEN "calling" ELSE "called"]]
    BY <1>1, <2>1
  <2>3. code \in Codes
    BY DEF Codes
  <2> QED
    BY <2>1, <2>2, <2>3 DEF Frames
<1>4. enabled' = IF code = "success" /\ state = "activating" THEN enabled \cup {e}
                 ELSE IF code = "success" /\ state = "deactivating" THEN enabled \ {e} ELSE enabled
  BY <1>1, <1>2 DEF Transitions!SetEnabled
<1>5. LifecycleTypeOK'
  BY <1>2, <1>3, <1>4 DEF LInv, LifecycleTypeOK
<1>6. \A u \in Users : Inside(u)' <=> Inside(u)
  BY <1>2, <1>3 DEF Inside
<1>7. AloneInside'
  BY <1>2, <1>3, <1>6 DEF LInv, AloneInside
<1>8. LoopIsSound'
  BY <1>2, <1>3, <1>6 DEF LInv, LoopIsSound, Inside
<1>9. EnabledSoFar'
  BY <1>2, <1>3, <1>4, <1>6 DEF LInv, AloneInside, EnabledSoFar, Transitions!Transient
<1> QED
  BY <1>5, <1>7, <1>8, <1>9 DEF LInv

LEMMA EndOfCallbacksLInv ==
    ASSUME LInv, NEW t \in Users, Transitions!EndOfCallbacks(t)
    PROVE  LInv'
<1>1. /\ lifecycleThread[t].at = "calling" /\ Inside(t) /\ lifecycleThread[t].code = "success"
      /\ UNCHANGED <<state, managed, enabled, stale>>
  BY DEF Transitions!EndOfCallbacks, Inside, LInv, LoopIsSound
<1>2. /\ lifecycleThread'[t].at = "called" /\ lifecycleThread'[t].todo = lifecycleThread[t].todo
      /\ lifecycleThread'[t].during = lifecycleThread[t].during
      /\ lifecycleThread'[t].code \in {"success", "error"}
      /\ lifecycleThread'[t].code = "success" => lifecycleThread[t].todo = {}
      /\ \A u \in Users : u # t => lifecycleThread'[u] = lifecycleThread[u]
      /\ lifecycleThread' \in [Users -> Frames]
  <2>1. lifecycleThread \in [Users -> Frames] /\ lifecycleThread[t] \in Frames
    BY DEF LInv, LifecycleTypeOK
  <2>2. PICK code \in {"success", "error"} :
            /\ lifecycleThread' = [lifecycleThread EXCEPT ![t] = [lifecycleThread[t] EXCEPT !.at = "called", !.code = code]]
            /\ code = "success" => lifecycleThread[t].todo = {}
    BY <1>1, <2>1 DEF Transitions!EndOfCallbacks
  <2> QED
    BY <2>1, <2>2 DEF Frames, Codes
<1>3. \A u \in Users : Inside(u)' <=> Inside(u)
  BY <1>1, <1>2 DEF Inside
<1> QED
  BY <1>1, <1>2, <1>3 DEF LInv, LifecycleTypeOK, AloneInside, LoopIsSound, EnabledSoFar, Inside

LEMMA CompleteLInv ==
    ASSUME LInv, NEW t \in Users, Transitions!Complete(t)
    PROVE  LInv'
<1>1. /\ lifecycleThread[t].at = "called" /\ Inside(t) /\ state \in Transitions!Transient
      /\ lifecycleThread[t].during = state
      /\ UNCHANGED <<managed, enabled>>
      /\ lifecycleThread \in [Users -> Frames]
  BY DEF Transitions!Complete, Inside, LInv, AloneInside, LifecycleTypeOK
<1>2. /\ state' = Transitions!Outcome(state, lifecycleThread[t].code)
      /\ stale' = IF lifecycleThread[t].code = "success" THEN stale ELSE managed
  BY <1>1 DEF Transitions!Complete
<1>3. lifecycleThread[t].code \in Codes
  BY <1>1 DEF Frames
<1>4. \A u \in Users : u # t => ~Inside(u) /\ lifecycleThread'[u] = lifecycleThread[u]
  BY <1>1 DEF Transitions!Complete, LInv, AloneInside
<1>5. CASE lifecycleThread[t].code = "error" /\ state # "errorprocessing"
  <2>1. state' = "errorprocessing" /\ stale' = managed
    BY <1>2, <1>5 DEF Transitions!Outcome
  <2>2. lifecycleThread' = [lifecycleThread EXCEPT ![t] = Transitions!Calling("errorprocessing", lifecycleThread[t].asked)]
    BY <1>1, <1>5, <2>1 DEF Transitions!Complete
  <2>3. lifecycleThread'[t] = Transitions!Calling("errorprocessing", lifecycleThread[t].asked)
    BY <1>1, <2>2
  <2>4. LifecycleTypeOK'
    BY <1>1, <2>1, <2>2 DEF LInv, LifecycleTypeOK, Frames, Transitions!Calling, States, Transitions!Transient, Codes
  <2>5. \A u \in Users : Inside(u)' <=> u = t
    BY <1>4, <2>3 DEF Inside, Transitions!Calling
  <2>6. AloneInside'
    BY <2>1, <2>3, <2>5 DEF AloneInside, Transitions!Calling, Transitions!Transient
  <2>7. LoopIsSound'
    BY <1>1, <1>4, <2>3 DEF LInv, LoopIsSound, Transitions!Calling, Inside
  <2>8. EnabledSoFar'
    BY <1>1, <2>1, <2>4, <2>5 DEF LifecycleTypeOK, EnabledSoFar
  <2> QED
    BY <2>4, <2>6, <2>7, <2>8 DEF LInv
<1>6. CASE ~(lifecycleThread[t].code = "error" /\ state # "errorprocessing")
  <2>1. lifecycleThread' = [lifecycleThread EXCEPT ![t] = Transitions!Idle]
    BY <1>1, <1>6 DEF Transitions!Complete
  <2>2. lifecycleThread'[t] = Transitions!Idle
    BY <1>1, <2>1
  <2>3. /\ state' \in {"unconfigured", "inactive", "active", "finalized"}
        /\ state' = "active" => lifecycleThread[t].code # "success" \/ state = "activating"
        /\ state' \in {"unconfigured", "inactive"} =>
             \/ lifecycleThread[t].code # "success"
             \/ state \in {"configuring", "cleaningup", "deactivating", "errorprocessing"}
    BY <1>1, <1>2, <1>3, <1>6 DEF Transitions!Outcome, Transitions!Transient, Codes
  <2>4. LifecycleTypeOK'
    BY <1>1, <1>2, <2>1, <2>3 DEF LInv, LifecycleTypeOK, Frames, Transitions!Idle, States, Codes
  <2>5. \A u \in Users : ~Inside(u)'
    BY <1>4, <2>2 DEF Inside, Transitions!Idle
  <2>6. AloneInside'
    BY <2>3, <2>5 DEF AloneInside, Transitions!Transient
  <2>7. LoopIsSound'
    BY <1>1, <1>4, <2>2 DEF LInv, LoopIsSound, Transitions!Idle, Inside
  <2>8. lifecycleThread[t].code = "success" => lifecycleThread[t].todo = {}
    BY <1>1 DEF LInv, LoopIsSound
  <2>9. EnabledSoFar'
    <3>1. state' = "active" => (managed \ stale)' \subseteq enabled'
      BY <1>1, <1>2, <2>3, <2>8 DEF LInv, EnabledSoFar
    <3>2. state' \in {"unconfigured", "inactive"} => enabled' \subseteq stale'
      BY <1>1, <1>2, <2>3, <2>8 DEF LInv, LifecycleTypeOK, EnabledSoFar
    <3> QED
      BY <2>3, <2>5, <3>1, <3>2 DEF EnabledSoFar
  <2> QED
    BY <2>4, <2>6, <2>7, <2>9 DEF LInv
<1> QED
  BY <1>5, <1>6

LEMMA EntitiesLInv ==
    ASSUME LInv, NEW e \in Managed, Transitions!add_managed_entity(e) \/ Transitions!destroy_lifecycle_publisher(e)
    PROVE  LInv'
<1>1. CASE Transitions!add_managed_entity(e)
  <2>1. /\ LifecycleTypeOK' /\ AloneInside'
    BY <1>1 DEF Transitions!add_managed_entity, LInv, LifecycleTypeOK, AloneInside, Inside
  <2>2. LoopIsSound'
    BY <1>1 DEF Transitions!add_managed_entity, LInv, LoopIsSound, Inside
  <2>3. EnabledSoFar'
    BY <1>1 DEF Transitions!add_managed_entity, LInv, EnabledSoFar, Inside
  <2> QED
    BY <2>1, <2>2, <2>3 DEF LInv
<1>2. CASE Transitions!destroy_lifecycle_publisher(e)
  <2>1. /\ UNCHANGED <<state, stale>> /\ managed' = managed \ {e} /\ enabled' = enabled \ {e}
        /\ lifecycleThread' = [t \in Users |-> [lifecycleThread[t] EXCEPT !.todo = @ \ {e}]]
    BY <1>2 DEF Transitions!destroy_lifecycle_publisher
  <2>2. \A t \in Users :
            /\ lifecycleThread'[t].at = lifecycleThread[t].at
            /\ lifecycleThread'[t].code = lifecycleThread[t].code
            /\ lifecycleThread'[t].during = lifecycleThread[t].during
            /\ lifecycleThread'[t].todo = lifecycleThread[t].todo \ {e}
            /\ lifecycleThread'[t] \in Frames
    BY <2>1 DEF LInv, LifecycleTypeOK, Frames
  <2>3. LifecycleTypeOK'
    BY <2>1, <2>2 DEF LInv, LifecycleTypeOK
  <2>4. \A t \in Users : Inside(t)' <=> Inside(t)
    BY <2>2 DEF Inside
  <2>5. AloneInside'
    BY <2>1, <2>2, <2>4 DEF LInv, AloneInside
  <2>6. LoopIsSound'
    BY <2>1, <2>2, <2>4 DEF LInv, LoopIsSound
  <2>7. EnabledSoFar'
    BY <2>1, <2>2, <2>4 DEF LInv, EnabledSoFar
  <2> QED
    BY <2>3, <2>5, <2>6, <2>7 DEF LInv
<1> QED
  BY <1>1, <1>2

-----------------------------------------------------------------------------
LEMMA NextLInv == LInv /\ [Transitions!Next]_Transitions!vars => LInv'
<1> SUFFICES ASSUME LInv, [Transitions!Next]_Transitions!vars PROVE LInv'
  OBVIOUS
<1>1. CASE UNCHANGED Transitions!vars
  BY <1>1 DEF Transitions!vars, LInv, LifecycleTypeOK, AloneInside, LoopIsSound, EnabledSoFar, Inside
<1> QED
  BY <1>1, AskLInv, StartLInv, CallEntityLInv, EndOfCallbacksLInv, CompleteLInv, EntitiesLInv DEF Transitions!Next

(* The invariant holds in every reachable state.                           *)
THEOREM LifecycleInvariance == Transitions!Spec => []LInv
<1> QED
  BY InitLInv, NextLInv, PTL DEF Transitions!Spec

(* Two threads are never inside transitions at the same time although rclpy *)
(* takes no lock, and the state machine is in transition exactly while one  *)
(* is.                                                                      *)
THEOREM TransitionsExclude == Transitions!Spec => [](Transitions!OneTransition /\ OneTransition)
<1>1. LInv => Transitions!OneTransition /\ OneTransition
  <2> SUFFICES ASSUME LInv PROVE Transitions!OneTransition /\ OneTransition
    OBVIOUS
  <2> DEFINE inside == {t \in Users : lifecycleThread[t].at \in {"calling", "called"}}
  <2>1. CASE inside = {}
    BY <2>1, FS_EmptySet, SameCardinality DEF LInv, AloneInside, Inside, OneTransition, Transitions!OneTransition
  <2>2. CASE inside # {}
    <3>1. PICK t \in Users : t \in inside
      BY <2>2
    <3>2. inside = {t}
      BY <3>1 DEF LInv, AloneInside, Inside
    <3>3. Cardinality(inside) = 1
      BY <3>2, FS_Singleton
    <3> QED
      BY <3>1, <3>3, SameCardinality DEF LInv, AloneInside, Inside, OneTransition, Transitions!OneTransition
  <2> QED
    BY <2>1, <2>2
<1> QED
  BY <1>1, LifecycleInvariance, PTL

(* Whatever threads add, destroy and trigger meanwhile, an entity that took *)
(* part in the last activation or deactivation, and of which no callback    *)
(* failed since, is enabled exactly in "active".                            *)
THEOREM EnabledWhenActive == Transitions!Spec => [](Transitions!EnabledFollowsState /\ EnabledFollowsState)
<1>1. LInv => Transitions!EnabledFollowsState /\ EnabledFollowsState
  BY DEF LInv, EnabledSoFar, EnabledFollowsState, Transitions!EnabledFollowsState
<1> QED
  BY <1>1, LifecycleInvariance, PTL

-----------------------------------------------------------------------------
(* shutdown() of an executor *)

Looking == {"wait", "yield"}

ExecutorTypeOK ==
    /\ spc \in [Spinners -> {"out", "loop", "wait", "yield", "inline", "exit"}]
    /\ hpc \in [Handlers -> {"none", "chosen", "queued", "take", "body", "suspended", "broken"}]
    /\ runs \in [Handlers -> Shutdown!AllThreads \cup {NoThread}]
    /\ dpc \in [Shutdown!AllThreads -> {"none", "wait", "draining", "nodes", "destroy", "pool", "join"}]

(* One thread spins at a time.                                               *)
OneSpins == \A s \in Spinners : spc[s] # "out" => spinThread = s

(* A spinner runs a handler itself only between two of its waits, and calls  *)
(* shutdown() only from a callback it runs.                                  *)
SpinnerRunsInline ==
    /\ \A c \in Handlers : runs[c] \in Spinners => spc[runs[c]] = "inline"
    /\ \A s \in Spinners : dpc[s] # "none" => \E c \in Handlers : hpc[c] = "body" /\ runs[c] = s

(* Whoever is past the waits of shutdown() left no spinner at the wait set,  *)
(* and none gets there again.                                                *)
ShutdownIsFinal ==
    /\ (\E t \in Shutdown!AllThreads : dpc[t] # "none") => isShutdown
    /\ ~guard \/ poolDown \/ (\E t \in Shutdown!AllThreads : dpc[t] \in {"destroy", "pool", "join"}) =>
          isShutdown /\ \A s \in Spinners : spc[s] \notin Looking

EInv == ExecutorTypeOK /\ OneSpins /\ SpinnerRunsInline /\ ShutdownIsFinal

LEMMA InitEInv == ASSUME Shutdown!ShutdownAssumption, Shutdown!Init PROVE EInv
BY DEF Shutdown!Init, Shutdown!ShutdownAssumption, Shutdown!AllThreads,
   EInv, ExecutorTypeOK, OneSpins, SpinnerRunsInline, ShutdownIsFinal, Looking

(* The spinner: it waits again only after it saw no shutdown.                *)
LEMMA SpinnerEInv ==
    ASSUME Shutdown!ShutdownAssumption, EInv, NEW s \in Spinners,
           Shutdown!EnterSpin(s) \/ Shutdown!Spin(s) \/ \E c \in Handlers : Shutdown!EntityWakes(s, c)
    PROVE  EInv'
<1> USE DEF Shutdown!ShutdownAssumption, Shutdown!AllThreads, Shutdown!SGoto,
            Shutdown!shutdownVars, Shutdown!handlerVars, Shutdown!guardVars
<1>1. CASE Shutdown!EnterSpin(s)
  BY <1>1 DEF Shutdown!EnterSpin, EInv, ExecutorTypeOK, OneSpins, SpinnerRunsInline, ShutdownIsFinal, Looking
<1>2. CASE Shutdown!LoopTest(s) \/ Shutdown!GuardWakes(s) \/ Shutdown!HandlerReturned(s)
  BY <1>2 DEF Shutdown!LoopTest, Shutdown!GuardWakes, Shutdown!HandlerReturned,
     EInv, ExecutorTypeOK, OneSpins, SpinnerRunsInline, ShutdownIsFinal, Looking
<1>3. CASE Shutdown!ExitSpin(s)
  BY <1>3 DEF Shutdown!ExitSpin, EInv, ExecutorTypeOK, OneSpins, SpinnerRunsInline, ShutdownIsFinal, Looking
<1>4. CASE \E c \in Handlers : Shutdown!YieldHandler(s, c)
  BY <1>4 DEF Shutdown!YieldHandler, EInv, ExecutorTypeOK, OneSpins, SpinnerRunsInline, ShutdownIsFinal, Looking
<1>5. CASE \E c \in Handlers : Shutdown!EntityWakes(s, c)
  BY <1>5 DEF Shutdown!EntityWakes, EInv, ExecutorTypeOK, OneSpins, SpinnerRunsInline, ShutdownIsFinal, Looking
<1> QED
  BY <1>1, <1>2, <1>3, <1>4, <1>5 DEF Shutdown!Spin

(* Handlers: a thread that called shutdown() from a callback keeps it.       *)
LEMMA HandlerEInv ==
    ASSUME Shutdown!ShutdownAssumption, EInv, NEW t \in Shutdown!AllThreads, NEW c \in Handlers,
           \/ t \in Pool /\ Shutdown!WorkerPicks(t, c)
           \/ Shutdown!HandlerStep(t, c) \/ Shutdown!CallbackSuspends(t, c)
    PROVE  EInv'
<1> USE DEF Shutdown!ShutdownAssumption, Shutdown!AllThreads, Shutdown!HGoto, Shutdown!HandlerOver, Shutdown!Trigger,
            Shutdown!shutdownVars, Shutdown!spinVars, Shutdown!guardVars
<1>1. CASE t \in Pool /\ Shutdown!WorkerPicks(t, c)
  BY <1>1 DEF Shutdown!WorkerPicks, EInv, ExecutorTypeOK, OneSpins, SpinnerRunsInline, ShutdownIsFinal, Looking
<1>2. CASE Shutdown!HandlerBegins(t, c)
  BY <1>2 DEF Shutdown!HandlerBegins, EInv, ExecutorTypeOK, OneSpins, SpinnerRunsInline, ShutdownIsFinal, Looking
<1>3. CASE Shutdown!HandlerTakes(t, c)
  BY <1>3 DEF Shutdown!HandlerTakes, EInv, ExecutorTypeOK, OneSpins, SpinnerRunsInline, ShutdownIsFinal, Looking
<1>4. CASE Shutdown!CallbackEnds(t, c) \/ Shutdown!CallbackSuspends(t, c)
  BY <1>4 DEF Shutdown!CallbackEnds, Shutdown!CallbackSuspends,
     EInv, ExecutorTypeOK, OneSpins, SpinnerRunsInline, ShutdownIsFinal, Looking
<1> QED
  BY <1>1, <1>2, <1>3, <1>4 DEF Shutdown!HandlerStep

(* shutdown(): it goes past its waits when nobody spins, or when this thread *)
(* does, which is then inside a callback.                                    *)
LEMMA ShutdownEInv ==
    ASSUME Shutdown!ShutdownAssumption, EInv, NEW t \in Shutdown!AllThreads,
           Shutdown!ShutdownBegins(t) \/ Shutdown!Shutdown(t)
    PROVE  EInv'
<1> USE DEF Shutdown!ShutdownAssumption, Shutdown!AllThreads, Shutdown!DGoto, Shutdown!Trigger,
            Shutdown!shutdownVars, Shutdown!spinVars, Shutdown!handlerVars, Shutdown!guardVars
<1>1. CASE Shutdown!ShutdownBegins(t)
  BY <1>1 DEF Shutdown!ShutdownBegins, Shutdown!InBody,
     EInv, ExecutorTypeOK, OneSpins, SpinnerRunsInline, ShutdownIsFinal, Looking
<1>2. CASE Shutdown!ShutdownDrains(t)
  BY <1>2 DEF Shutdown!ShutdownDrains, EInv, ExecutorTypeOK, OneSpins, SpinnerRunsInline, ShutdownIsFinal, Looking
<1>3. CASE Shutdown!SpinnerGone(t)
  BY <1>3 DEF Shutdown!SpinnerGone, EInv, ExecutorTypeOK, OneSpins, SpinnerRunsInline, ShutdownIsFinal, Looking
<1>4. CASE Shutdown!DestroyGuard(t) \/ Shutdown!ShutDownPool(t) \/ Shutdown!JoinThreads(t)
  BY <1>4 DEF Shutdown!DestroyGuard, Shutdown!ShutDownPool, Shutdown!JoinThreads,
     EInv, ExecutorTypeOK, OneSpins, SpinnerRunsInline, ShutdownIsFinal, Looking
<1> QED
  BY <1>1, <1>2, <1>3, <1>4 DEF Shutdown!Shutdown

(* The inductive invariant of the shutdown of an executor holds in every     *)
(* reachable state.                                                          *)
THEOREM ShutdownInvariance == ASSUME Shutdown!ShutdownAssumption PROVE Shutdown!Spec => []EInv
<1>1. Shutdown!Init => EInv
  BY InitEInv
<1>2. EInv /\ [Shutdown!Next]_(Shutdown!vars) => EInv'
  <2> SUFFICES ASSUME EInv, [Shutdown!Next]_(Shutdown!vars) PROVE EInv'
    OBVIOUS
  <2>1. CASE Shutdown!Next
    BY <2>1, SpinnerEInv, HandlerEInv, ShutdownEInv DEF Shutdown!Next, Shutdown!AllThreads
  <2>2. CASE UNCHANGED Shutdown!vars
    BY <2>2 DEF Shutdown!vars, Shutdown!guardVars, Shutdown!spinVars, Shutdown!handlerVars, Shutdown!shutdownVars,
       EInv, ExecutorTypeOK, OneSpins, SpinnerRunsInline, ShutdownIsFinal, Looking
  <2> QED
    BY <2>1, <2>2
<1> QED
  BY <1>1, <1>2, PTL DEF Shutdown!Spec

(* Executor.shutdown() destroys the guards of the wait set and shuts down    *)
(* the pool only when no spinner is at the wait set or hands a handler to    *)
(* the pool, whichever threads call shutdown(), the spinner's own callbacks  *)
(* included, with or without a timeout, and whoever spins again.             *)
THEOREM NothingIsTaken == Shutdown!Spec => [](Shutdown!NothingGoesUnderSpinner /\ NothingGoesUnderSpinner)
<1>1. EInv => Shutdown!NothingGoesUnderSpinner /\ NothingGoesUnderSpinner
  BY DEF EInv, ShutdownIsFinal, Looking, NothingGoesUnderSpinner, Shutdown!NothingGoesUnderSpinner
<1> QED
  BY ShutdownInvariance, PoolAssumption, <1>1, PTL

-----------------------------------------------------------------------------
(* The callbacks of a parameter event handler                              *)

LEMMA NoneIsNobody == None \notin Users \cup EventNames
BY HandlerAssumption DEF Handler!HandlerAssumption

(* Sequences of handles: the elements of what the actions build.           *)
LEMMA ConcatElements ==
    ASSUME NEW S, NEW a \in Seq(S), NEW b \in Seq(S)
    PROVE  /\ a \o b \in Seq(S) /\ Len(a \o b) = Len(a) + Len(b)
           /\ DOMAIN a = 1..Len(a) /\ DOMAIN b = 1..Len(b) /\ DOMAIN (a \o b) = 1..(Len(a) + Len(b))
           /\ Len(a) \in Nat /\ Len(b) \in Nat
           /\ \A i \in 1..Len(a) : (a \o b)[i] = a[i]
           /\ \A i \in 1..Len(b) : (a \o b)[Len(a) + i] = b[i]
           /\ Handler!ToSet(a \o b) = Handler!ToSet(a) \cup Handler!ToSet(b)
<1>1. PICK c : c = a \o b
  OBVIOUS
<1>2. /\ c \in Seq(S) /\ Len(c) = Len(a) + Len(b) /\ Len(a) \in Nat /\ Len(b) \in Nat
      /\ \A i \in 1..(Len(a) + Len(b)) : c[i] = IF i <= Len(a) THEN a[i] ELSE b[i - Len(a)]
  BY <1>1, ConcatProperties, LenProperties
<1>3. DOMAIN a = 1..Len(a) /\ DOMAIN b = 1..Len(b) /\ DOMAIN c = 1..(Len(a) + Len(b))
  BY <1>2, LenProperties
<1>4. \A i \in 1..Len(a) : c[i] = a[i] /\ i \in 1..(Len(a) + Len(b))
  BY <1>2
<1>5. ASSUME NEW i \in 1..Len(b) PROVE c[Len(a) + i] = b[i] /\ Len(a) + i \in 1..(Len(a) + Len(b))
  <2>1. /\ Len(a) + i \in 1..(Len(a) + Len(b)) /\ ~(Len(a) + i <= Len(a)) /\ Len(a) + i - Len(a) = i
    BY <1>2
  <2> QED
    BY <1>2, <2>1
<1>6. ASSUME NEW i \in 1..(Len(a) + Len(b))
      PROVE  i \in 1..Len(a) \/ \E j \in 1..Len(b) : i = Len(a) + j
  <2>1. CASE ~(i <= Len(a))
    <3>1. i - Len(a) \in 1..Len(b) /\ i = Len(a) + (i - Len(a))
      BY <1>2, <2>1
    <3> QED
      BY <3>1
  <2> QED
    BY <1>2, <2>1
<1>7. Handler!ToSet(c) = Handler!ToSet(a) \cup Handler!ToSet(b)
  <2>1. Handler!ToSet(c) \subseteq Handler!ToSet(a) \cup Handler!ToSet(b)
    <3> SUFFICES ASSUME NEW i \in DOMAIN c PROVE c[i] \in Handler!ToSet(a) \cup Handler!ToSet(b)
      BY DEF Handler!ToSet
    <3>1. CASE i \in 1..Len(a)
      BY <1>3, <1>4, <3>1 DEF Handler!ToSet
    <3>2. CASE \E j \in 1..Len(b) : i = Len(a) + j
      <4>1. PICK j \in 1..Len(b) : i = Len(a) + j
        BY <3>2
      <4>2. c[i] = b[j]
        BY <1>5, <4>1
      <4> QED
        BY <1>3, <4>2 DEF Handler!ToSet
    <3> QED
      BY <1>3, <1>6, <3>1, <3>2
  <2>2. Handler!ToSet(a) \subseteq Handler!ToSet(c) /\ Handler!ToSet(b) \subseteq Handler!ToSet(c)
    BY <1>3, <1>4, <1>5 DEF Handler!ToSet
  <2> QED
    BY <2>1, <2>2
<1> QED
  BY <1>1, <1>2, <1>3, <1>4, <1>5, <1>7

(* A callback that returns goes from one end of what is left to the end of *)
(* what was called: the two together stay as they are.                     *)
LEMMA LineStays ==
    ASSUME NEW S, NEW a \in Seq(S), NEW b \in Seq(S), b # <<>>
    PROVE  /\ Append(a, Head(b)) \o Tail(b) = a \o b
           /\ Append(a, Head(b)) \in Seq(S) /\ Tail(b) \in Seq(S)
           /\ Head(b) \in Handler!ToSet(b)
<1>1. b = <<Head(b)>> \o Tail(b) /\ Head(b) \in S /\ Tail(b) \in Seq(S)
  OBVIOUS
<1>2. Append(a, Head(b)) = a \o <<Head(b)>>
  OBVIOUS
<1>3. <<Head(b)>> \in Seq(S)
  BY <1>1
<1>4. (a \o <<Head(b)>>) \o Tail(b) = a \o (<<Head(b)>> \o Tail(b))
  BY <1>1, <1>3, ConcatAssociative
<1>5. Head(b) = b[1] /\ 1 \in DOMAIN b
  OBVIOUS
<1>6. Head(b) \in Handler!ToSet(b)
  BY <1>5 DEF Handler!ToSet
<1>7. Append(a, Head(b)) \in Seq(S)
  BY <1>1
<1>8. Append(a, Head(b)) \o Tail(b) = a \o b
  BY <1>1, <1>2, <1>4, Zenon
<1> QED
  BY <1>1, <1>6, <1>7, <1>8

LEMMA RemovedPositions ==
    ASSUME NEW S, NEW s \in Seq(S), NEW i \in 1..Len(s)
    PROVE  /\ Handler!RemoveAt(s, i) \in Seq(S)
           /\ DOMAIN Handler!RemoveAt(s, i) = 1..(Len(s) - 1) /\ DOMAIN s = 1..Len(s) /\ Len(s) \in Nat
           /\ \A j \in 1..(Len(s) - 1) : Handler!RemoveAt(s, i)[j] = IF j < i THEN s[j] ELSE s[j + 1]
<1>1. Len(s) \in Nat /\ DOMAIN s = 1..Len(s) /\ \A j \in 1..Len(s) : s[j] \in S
  BY SMT
<1>2. PICK a : a = SubSeq(s, 1, i - 1)
  OBVIOUS
<1>3. PICK b : b = SubSeq(s, i + 1, Len(s))
  OBVIOUS
<1>4. PICK r : r = Handler!RemoveAt(s, i)
  OBVIOUS
<1>5. a \in Seq(S) /\ Len(a) = i - 1 /\ \A j \in 1..(i - 1) : a[j] = s[j]
  <2>1. \A j \in 1..(i - 1) : s[j] \in S
    BY <1>1
  <2> QED
    BY <1>1, <1>2, <2>1, SubSeqProperties
<1>6. b \in Seq(S) /\ Len(b) = Len(s) - i /\ \A j \in 1..(Len(s) - i) : b[j] = s[j + i]
  <2>1. \A j \in (i + 1)..Len(s) : s[j] \in S
    BY <1>1
  <2>2. /\ b \in Seq(S)
        /\ Len(b) = IF i + 1 <= Len(s) THEN Len(s) - (i + 1) + 1 ELSE 0
        /\ \A j \in 1..(Len(s) - (i + 1) + 1) : b[j] = s[(i + 1) + j - 1]
    BY <1>1, <1>3, <2>1, SubSeqProperties
  <2>3. ASSUME NEW j \in 1..(Len(s) - i) PROVE b[j] = s[j + i]
    <3>1. (i + 1) + j - 1 = j + i /\ j \in 1..(Len(s) - (i + 1) + 1)
      BY <1>1
    <3>2. b[j] = s[(i + 1) + j - 1]
      BY <2>2, <3>1
    <3> QED
      BY <3>1, <3>2, Zenon
  <2>4. Len(b) = Len(s) - i
    <3>1. Len(b) = IF i + 1 <= Len(s) THEN Len(s) - (i + 1) + 1 ELSE 0
      BY <2>2
    <3>2. Len(s) \in Nat
      BY <1>1
    <3>3. CASE i + 1 <= Len(s)
      BY ONLY <3>1, <3>2, <3>3, i \in 1..Len(s)
    <3>4. CASE i = Len(s)
      BY ONLY <3>1, <3>2, <3>4, i \in 1..Len(s)
    <3> QED
      BY ONLY <3>2, <3>3, <3>4, i \in 1..Len(s)
  <2> QED
    BY <2>2, <2>3, <2>4
<1>7. r = a \o b
  BY <1>2, <1>3, <1>4 DEF Handler!RemoveAt
<1>8. /\ r \in Seq(S) /\ Len(r) = Len(a) + Len(b)
      /\ \A j \in 1..(Len(a) + Len(b)) : r[j] = IF j <= Len(a) THEN a[j] ELSE b[j - Len(a)]
  <2>1. a \in Seq(S) /\ b \in Seq(S)
    BY <1>5, <1>6
  <2> QED
    BY ONLY <1>7, <2>1, ConcatProperties
<1>9. Len(a) + Len(b) = Len(s) - 1
  BY <1>1, <1>5, <1>6
<1>10. DOMAIN r = 1..(Len(s) - 1)
  BY <1>8, <1>9, LenProperties
<1>11. ASSUME NEW j \in 1..(Len(s) - 1) PROVE r[j] = IF j < i THEN s[j] ELSE s[j + 1]
  <2>1. r[j] = IF j <= Len(a) THEN a[j] ELSE b[j - Len(a)]
    BY <1>8, <1>9
  <2>2. CASE j < i
    <3>1. j <= Len(a) /\ j \in 1..(i - 1)
      BY <1>1, <1>5, <2>2
    <3> QED
      BY <1>5, <2>1, <2>2, <3>1
  <2>3. CASE ~(j < i)
    <3>1. ~(j <= Len(a)) /\ j - Len(a) \in 1..(Len(s) - i) /\ (j - Len(a)) + i = j + 1
      BY <1>1, <1>5, <2>3
    <3> QED
      BY <1>6, <2>1, <2>3, <3>1
  <2> QED
    BY <2>2, <2>3
<1> QED
  BY <1>1, <1>4, <1>8, <1>10, <1>11

-----------------------------------------------------------------------------
(* The registry and the rounds of events                                   *)

InEvents == {"events", "in event callback"}
InCall == {"in callback", "in event callback"}
InRound == {"parameters", "in callback"} \cup InEvents

Rounds == [at : {"idle", "stuck"} \cup InRound, event : SUBSET (EventNames \X EventNodes),
           keys : SUBSET (EventNames \X EventNodes), todo : Seq(Handles), called : Seq(Handles)]

HandlerTypeOK ==
    /\ registry \in [Handler!Keys -> Seq(Handles)] /\ added \in Seq(Handles) /\ removed \in SUBSET Handles
    /\ mutex \in Users \cup {None} /\ subscribed \in BOOLEAN /\ filter \in SUBSET EventNodes
    /\ eventThread \in [Users -> Rounds]

(* The list of a key holds handles that were added, for that key alone,    *)
(* and that were not removed, the newest first.                            *)
AddedOnce == \A i, j \in DOMAIN added : added[i] = added[j] => i = j
NewestFirst == \A key \in Handler!Keys : \A i, j \in DOMAIN registry[key] :
    i < j => Handler!Newer(registry[key][i], registry[key][j])
ListsHoldAdded ==
    /\ removed \subseteq Handler!ToSet(added)
    /\ \A key \in Handler!Keys : Handler!ToSet(registry[key]) \subseteq Handler!ToSet(added) \ removed
ListsAreDisjoint == \A k1, k2 \in Handler!Keys :
    k1 # k2 => Handler!ToSet(registry[k1]) \cap Handler!ToSet(registry[k2]) = {}

(* A round holds the lock to its end.                                      *)
RoundsAreLocked == \A t \in Users :
    IF eventThread[t].at = "idle" THEN eventThread[t] = Handler!Idle ELSE mutex = t

(* What a round called and has yet to call of the list it is in: the lists *)
(* it has come to, in their order, and nothing of the others.              *)
Line(t) == eventThread[t].called \o eventThread[t].todo
Reached(t) ==
    (eventThread[t].event \ eventThread[t].keys) \cup
      (IF eventThread[t].at \in InEvents THEN {Handler!Events} ELSE {})
RoundIsSound(t) ==
    /\ eventThread[t].keys \subseteq eventThread[t].event
    /\ eventThread[t].at \in InCall => eventThread[t].todo # <<>>
    /\ eventThread[t].at \in InEvents => eventThread[t].keys = {}
    /\ Handler!ToSet(Line(t)) \cap removed = {}
    /\ \A key \in Handler!Keys :
         IF key \in Reached(t)
         THEN Handler!CalledInOrder(Line(t), key)
         ELSE Handler!ToSet(Line(t)) \cap Handler!ToSet(registry[key]) = {}
RoundsAreSound == \A t \in Users : eventThread[t].at \in InRound => RoundIsSound(t)

RegistryInv == AddedOnce /\ NewestFirst /\ ListsHoldAdded /\ ListsAreDisjoint
HInv == HandlerTypeOK /\ RegistryInv /\ RoundsAreLocked /\ RoundsAreSound

-----------------------------------------------------------------------------
LEMMA InitHInv == Handler!Init => HInv
<1> SUFFICES ASSUME Handler!Init PROVE HInv
  OBVIOUS
<1>1. HandlerTypeOK
  BY DEF Handler!Init, HandlerTypeOK, Rounds, Handler!Idle, InRound, InEvents
<1>2. RegistryInv
  BY DEF Handler!Init, RegistryInv, AddedOnce, NewestFirst, ListsHoldAdded, ListsAreDisjoint, Handler!ToSet
<1>3. RoundsAreLocked /\ RoundsAreSound
  BY DEF Handler!Init, RoundsAreLocked, RoundsAreSound, Handler!Idle, InRound, InEvents
<1> QED
  BY <1>1, <1>2, <1>3 DEF HInv

(* What only the registry's own actions change.                            *)
LEMMA RegistryStays ==
    ASSUME UNCHANGED <<registry, added, removed>>, RegistryInv
    PROVE  RegistryInv'
BY DEF RegistryInv, AddedOnce, NewestFirst, ListsHoldAdded, ListsAreDisjoint, Handler!Newer

(* A round that a step leaves alone stays as it is.                        *)
LEMMA RoundStays ==
    ASSUME NEW u \in Users, eventThread'[u] = eventThread[u], UNCHANGED <<registry, added, removed>>,
           RoundIsSound(u)
    PROVE  RoundIsSound(u)'
<1>1. Line(u)' = Line(u) /\ Reached(u)' = Reached(u)
  BY DEF Line, Reached
<1>2. \A h, k : Handler!Newer(h, k)' <=> Handler!Newer(h, k)
  BY DEF Handler!Newer
<1>3. \A key \in Handler!Keys : Handler!CalledInOrder(Line(u), key)' <=> Handler!CalledInOrder(Line(u), key)
  BY <1>1, <1>2 DEF Handler!CalledInOrder
<1> QED
  BY <1>1, <1>3 DEF RoundIsSound

(* Nobody is in a round while the lock is free.                            *)
LEMMA FreeMeansIdle ==
    ASSUME HandlerTypeOK, RoundsAreLocked, mutex = None
    PROVE  \A t \in Users : eventThread[t].at = "idle" /\ eventThread[t] = Handler!Idle
BY NoneIsNobody DEF RoundsAreLocked

(* A step of a thread inside a round preserves the invariant, if it leaves *)
(* the round of that thread sound or ends it.                              *)
LEMMA OwnStep ==
    ASSUME HInv, NEW t \in Users, NEW r, eventThread' = [eventThread EXCEPT ![t] = r],
           UNCHANGED <<registry, added, removed, subscribed, filter>>, HandlerTypeOK',
           IF r.at = "idle" THEN r = Handler!Idle ELSE mutex' = t,
           mutex' = mutex \/ mutex \in {None, t},
           r.at \in InRound => RoundIsSound(t)'
    PROVE  HInv'
<1>0. eventThread'[t] = r /\ \A u \in Users \ {t} : eventThread'[u] = eventThread[u]
  BY DEF HInv, HandlerTypeOK
<1>1. RegistryInv'
  BY RegistryStays DEF HInv
<1>2. ASSUME NEW u \in Users PROVE IF eventThread'[u].at = "idle" THEN eventThread'[u] = Handler!Idle ELSE mutex' = u
  BY <1>0, NoneIsNobody DEF HInv, RoundsAreLocked
<1>3. ASSUME NEW u \in Users, eventThread'[u].at \in InRound PROVE RoundIsSound(u)'
  BY <1>0, <1>3, RoundStays DEF HInv, RoundsAreSound
<1> QED
  BY <1>1, <1>2, <1>3 DEF HInv, RoundsAreLocked, RoundsAreSound

-----------------------------------------------------------------------------
(* What was called of a list, by the places of its handles.                *)
LEMMA InOrderByPlaces ==
    ASSUME HandlerTypeOK, NEW line \in Seq(Handles), NEW key \in Handler!Keys
    PROVE  Handler!CalledInOrder(line, key) <=>
                     /\ Handler!ToSet(registry[key]) \subseteq Handler!ToSet(line)
                     /\ \A i, j \in DOMAIN line :
                          i < j /\ line[i] \in Handler!ToSet(registry[key]) /\ line[j] \in Handler!ToSet(registry[key])
                            => Handler!Newer(line[i], line[j])
<1>1. registry[key] \in Seq(Handles) /\ DOMAIN registry[key] = 1..Len(registry[key])
  BY DEF HandlerTypeOK
<1>2. \A h : Handler!Contains(registry[key], h) <=> h \in Handler!ToSet(registry[key])
  BY <1>1 DEF Handler!Contains, Handler!ToSet
<1> DEFINE mine == {i \in DOMAIN line : Handler!Contains(registry[key], line[i])}
<1>3. Handler!ToSet(registry[key]) \subseteq {line[i] : i \in mine} <=>
      Handler!ToSet(registry[key]) \subseteq Handler!ToSet(line)
  <2>1. \A h \in Handler!ToSet(registry[key]) : h \in {line[i] : i \in mine} <=> h \in Handler!ToSet(line)
    BY <1>2, Zenon DEF Handler!ToSet
  <2> QED
    BY <2>1
<1>4. (\A i, j \in mine : i < j => Handler!Newer(line[i], line[j])) <=>
      \A i, j \in DOMAIN line :
        i < j /\ line[i] \in Handler!ToSet(registry[key]) /\ line[j] \in Handler!ToSet(registry[key])
          => Handler!Newer(line[i], line[j])
  BY <1>2, Zenon
<1> QED
  BY <1>3, <1>4 DEF Handler!CalledInOrder

(* When a round comes to the list of a key, it has that list to call.      *)
LEMMA ListIsReached ==
    ASSUME HandlerTypeOK, RegistryInv, NEW line \in Seq(Handles), NEW reached, NEW key \in Handler!Keys \ reached,
           \A k \in Handler!Keys : IF k \in reached THEN Handler!CalledInOrder(line, k)
                                                     ELSE Handler!ToSet(line) \cap Handler!ToSet(registry[k]) = {}
    PROVE  \A k \in Handler!Keys : IF k \in reached \cup {key}
                                   THEN Handler!CalledInOrder(line \o registry[key], k)
                                   ELSE Handler!ToSet(line \o registry[key]) \cap Handler!ToSet(registry[k]) = {}
<1>1. PICK its : its = registry[key]
  OBVIOUS
<1>2. PICK new : new = line \o its
  OBVIOUS
<1>3. its \in Seq(Handles)
  BY <1>1 DEF HandlerTypeOK
<1>4. /\ new \in Seq(Handles) /\ DOMAIN new = 1..(Len(line) + Len(its)) /\ Len(line) \in Nat /\ Len(its) \in Nat
      /\ DOMAIN line = 1..Len(line) /\ DOMAIN its = 1..Len(its)
      /\ \A i \in 1..Len(line) : new[i] = line[i]
      /\ \A i \in 1..Len(its) : new[Len(line) + i] = its[i]
      /\ Handler!ToSet(new) = Handler!ToSet(line) \cup Handler!ToSet(its)
  BY <1>2, <1>3, ConcatElements
<1>5. ASSUME NEW i \in DOMAIN new
      PROVE  \/ i \in DOMAIN line /\ new[i] = line[i] /\ new[i] \in Handler!ToSet(line)
             \/ i - Len(line) \in DOMAIN its /\ new[i] = its[i - Len(line)] /\ new[i] \in Handler!ToSet(its)
  <2>1. CASE i <= Len(line)
    <3>1. i \in DOMAIN line /\ new[i] = line[i]
      BY <1>4, <2>1
    <3> QED
      BY <3>1 DEF Handler!ToSet
  <2>2. CASE ~(i <= Len(line))
    <3>1. i - Len(line) \in 1..Len(its) /\ Len(line) + (i - Len(line)) = i
      BY <1>4, <2>2
    <3>2. i - Len(line) \in DOMAIN its /\ new[i] = its[i - Len(line)]
      BY <1>4, <3>1
    <3> QED
      BY <3>2 DEF Handler!ToSet
  <2> QED
    BY <2>1, <2>2
<1>6. Handler!CalledInOrder(new, key)
  <2>1. Handler!ToSet(line) \cap Handler!ToSet(its) = {}
    BY <1>1
  <2>2. ASSUME NEW i \in DOMAIN new, NEW j \in DOMAIN new, i < j,
               new[i] \in Handler!ToSet(its), new[j] \in Handler!ToSet(its)
        PROVE  Handler!Newer(new[i], new[j])
    <3>1. i - Len(line) \in DOMAIN its /\ new[i] = its[i - Len(line)]
      BY <1>5, <2>1, <2>2
    <3>2. j - Len(line) \in DOMAIN its /\ new[j] = its[j - Len(line)]
      BY <1>5, <2>1, <2>2
    <3>3. i - Len(line) < j - Len(line)
      BY <1>4, <2>2
    <3>4. \A a, b \in DOMAIN its : a < b => Handler!Newer(its[a], its[b])
      BY <1>1 DEF RegistryInv, NewestFirst
    <3> QED
      BY <3>1, <3>2, <3>3, <3>4
  <2>3. Handler!ToSet(its) \subseteq Handler!ToSet(new)
    BY <1>4
  <2> QED
    BY <1>1, <1>4, <2>2, <2>3, InOrderByPlaces
<1>7. ASSUME NEW k \in reached \cap Handler!Keys PROVE Handler!CalledInOrder(new, k)
  <2>1. /\ Handler!ToSet(registry[k]) \subseteq Handler!ToSet(line)
        /\ \A i, j \in DOMAIN line :
             i < j /\ line[i] \in Handler!ToSet(registry[k]) /\ line[j] \in Handler!ToSet(registry[k])
               => Handler!Newer(line[i], line[j])
    BY InOrderByPlaces
  <2>2. Handler!ToSet(its) \cap Handler!ToSet(registry[k]) = {}
    BY <1>1 DEF RegistryInv, ListsAreDisjoint
  <2>3. ASSUME NEW i \in DOMAIN new, NEW j \in DOMAIN new, i < j,
               new[i] \in Handler!ToSet(registry[k]), new[j] \in Handler!ToSet(registry[k])
        PROVE  Handler!Newer(new[i], new[j])
    <3>1. i \in DOMAIN line /\ new[i] = line[i]
      BY <1>5, <2>2, <2>3
    <3>2. j \in DOMAIN line /\ new[j] = line[j]
      BY <1>5, <2>2, <2>3
    <3> QED
      BY <2>1, <2>3, <3>1, <3>2
  <2>4. Handler!ToSet(registry[k]) \subseteq Handler!ToSet(new)
    BY <1>4, <2>1
  <2> QED
    BY <1>4, <2>3, <2>4, InOrderByPlaces
<1>8. ASSUME NEW k \in Handler!Keys \ (reached \cup {key}) PROVE Handler!ToSet(new) \cap Handler!ToSet(registry[k]) = {}
  <2>1. Handler!ToSet(line) \cap Handler!ToSet(registry[k]) = {}
    OBVIOUS
  <2>2. Handler!ToSet(its) \cap Handler!ToSet(registry[k]) = {}
    BY <1>1 DEF RegistryInv, ListsAreDisjoint
  <2> QED
    BY <1>4, <2>1, <2>2
<1> QED
  BY <1>1, <1>2, <1>6, <1>7, <1>8

-----------------------------------------------------------------------------
LEMMA TypesOfRounds ==
    ASSUME HandlerTypeOK, NEW t \in Users
    PROVE  /\ eventThread[t].todo \in Seq(Handles) /\ eventThread[t].called \in Seq(Handles) /\ Line(t) \in Seq(Handles)
           /\ eventThread[t].keys \subseteq EventNames \X EventNodes
           /\ eventThread[t].event \subseteq EventNames \X EventNodes
           /\ eventThread[t].at \in {"idle", "stuck"} \cup InRound /\ eventThread[t] \in Rounds
           /\ Handler!Events \in Handler!Keys /\ Handler!Events \notin EventNames \X EventNodes
<1>1. eventThread[t].todo \in Seq(Handles) /\ eventThread[t].called \in Seq(Handles)
  BY DEF HandlerTypeOK, Rounds
<1>2. Line(t) \in Seq(Handles)
  BY <1>1, ConcatElements DEF Line
<1>3. Handler!Events \in Handler!Keys /\ Handler!Events \notin EventNames \X EventNodes
  BY NoneIsNobody DEF Handler!Events, Handler!Keys
<1> QED
  BY <1>1, <1>2, <1>3 DEF HandlerTypeOK, Rounds

(* The types after a step of one thread inside its round.                  *)
LEMMA OwnStepTypes ==
    ASSUME HandlerTypeOK, NEW t \in Users, NEW r \in Rounds, eventThread' = [eventThread EXCEPT ![t] = r],
           mutex' \in {mutex, t, None}, UNCHANGED <<registry, subscribed, filter, added, removed>>
    PROVE  HandlerTypeOK'
BY DEF HandlerTypeOK

LEMMA EventHInv == ASSUME HInv, NEW t \in Users, Handler!event_callback(t) PROVE HInv'
<1>1. PICK node \in EventNodes, names \in SUBSET EventNames :
        eventThread' = [eventThread EXCEPT ![t] = Handler!Round(names \X {node})]
  BY DEF Handler!event_callback, Handler!get_parameter_from_event
<1> DEFINE r == Handler!Round(names \X {node})
<1>2. r.at = "parameters" /\ r.event = names \X {node} /\ r.keys = names \X {node} /\ r.todo = <<>> /\ r.called = <<>>
  BY DEF Handler!Round
<1>3. HandlerTypeOK'
  <2>1. r \in Rounds
    BY DEF Rounds, Handler!Round, InRound
  <2> QED
    BY <1>1, <2>1, OwnStepTypes DEF HInv, Handler!event_callback
<1>4. eventThread'[t] = r
  BY <1>1 DEF HInv, HandlerTypeOK
<1>5. Line(t)' = <<>> /\ Reached(t)' = {} /\ Handler!ToSet(<<>>) = {}
  <2>1. Line(t)' = <<>> \o <<>>
    BY <1>2, <1>4 DEF Line
  <2>2. <<>> \o <<>> = <<>>
    OBVIOUS
  <2>3. Handler!ToSet(<<>>) = {}
    BY DEF Handler!ToSet
  <2>4. Reached(t)' = {}
    BY <1>2, <1>4 DEF Reached, InEvents
  <2> QED
    BY <2>1, <2>2, <2>3, <2>4
<1> HIDE DEF r
<1>6. RoundIsSound(t)'
  BY <1>2, <1>4, <1>5 DEF RoundIsSound, InCall, InEvents
<1> QED
  BY <1>1, <1>2, <1>3, <1>6, OwnStep DEF Handler!event_callback, r

LEMMA NextListHInv == ASSUME HInv, NEW t \in Users, Handler!NextList(t) PROVE HInv'
<1>0. HandlerTypeOK /\ RegistryInv /\ RoundIsSound(t) /\ mutex = t
  BY DEF HInv, RoundsAreSound, RoundsAreLocked, Handler!NextList, InRound
<1> USE TypesOfRounds, <1>0
<1>1. Line(t) = eventThread[t].called
  BY DEF Handler!NextList, Line
<1>2. ASSUME NEW key \in Handler!Keys \ Reached(t), NEW r, eventThread' = [eventThread EXCEPT ![t] = r],
             r.at \in {"parameters", "events"}, r.event = eventThread[t].event, r.called = eventThread[t].called,
             r.todo = registry[key], r.keys \subseteq r.event, r.at = "events" => r.keys = {},
             Reached(t)' = Reached(t) \cup {key}, HandlerTypeOK'
      PROVE  HInv'
  <2>1. eventThread'[t] = r
    BY <1>2 DEF HandlerTypeOK
  <2>2. Line(t)' = Line(t) \o registry[key]
    BY <1>1, <1>2, <2>1 DEF Line
  <2>3. Handler!ToSet(Line(t)') \cap removed = {}
    <3>1. registry[key] \in Seq(Handles)
      BY DEF HandlerTypeOK
    <3>2. Handler!ToSet(Line(t)') = Handler!ToSet(Line(t)) \cup Handler!ToSet(registry[key])
      BY <2>2, <3>1, ConcatElements
    <3>3. Handler!ToSet(registry[key]) \cap removed = {}
      BY DEF RegistryInv, ListsHoldAdded
    <3> QED
      BY <3>2, <3>3 DEF RoundIsSound
  <2>4. \A k \in Handler!Keys : IF k \in Reached(t)' THEN Handler!CalledInOrder(Line(t)', k)
                                                  ELSE Handler!ToSet(Line(t)') \cap Handler!ToSet(registry[k]) = {}
    <3>1. \A k \in Handler!Keys : IF k \in Reached(t) THEN Handler!CalledInOrder(Line(t), k)
                                                   ELSE Handler!ToSet(Line(t)) \cap Handler!ToSet(registry[k]) = {}
      BY DEF RoundIsSound
    <3>2. Line(t) \in Seq(Handles)
      OBVIOUS
    <3>3. \A k \in Handler!Keys : IF k \in Reached(t) \cup {key} THEN Handler!CalledInOrder(Line(t) \o registry[key], k)
                                  ELSE Handler!ToSet(Line(t) \o registry[key]) \cap Handler!ToSet(registry[k]) = {}
      BY <1>0, <3>1, <3>2, ListIsReached
    <3> QED
      BY <1>2, <2>2, <3>3
  <2>5. UNCHANGED <<registry, mutex, subscribed, filter, added, removed>>
    BY DEF Handler!NextList
  <2>6. \A k \in Handler!Keys : Handler!CalledInOrder(Line(t), k)' <=> Handler!CalledInOrder(Line(t)', k)
    BY <2>5 DEF Handler!CalledInOrder, Handler!Newer
  <2>7. RoundIsSound(t)'
    BY <1>2, <2>1, <2>3, <2>4, <2>5, <2>6 DEF RoundIsSound, InCall, InEvents
  <2> QED
    BY <1>2, <2>5, <2>7, OwnStep
<1>3. CASE eventThread[t].keys # {}
  <2>1. PICK key \in eventThread[t].keys :
          eventThread' = [eventThread EXCEPT ![t].todo = registry[key], ![t].keys = @ \ {key}]
    BY <1>3 DEF Handler!NextList
  <2> DEFINE r == [eventThread[t] EXCEPT !.todo = registry[key], !.keys = @ \ {key}]
  <2>2. eventThread' = [eventThread EXCEPT ![t] = r]
    BY <2>1 DEF HandlerTypeOK, Rounds
  <2>3. /\ r.at = "parameters" /\ r.event = eventThread[t].event /\ r.called = eventThread[t].called
        /\ r.todo = registry[key] /\ r.keys = eventThread[t].keys \ {key}
    BY DEF HandlerTypeOK, Rounds, Handler!NextList
  <2>4. eventThread'[t] = r
    BY <2>2 DEF HandlerTypeOK
  <2>5. key \in Handler!Keys /\ key \notin Reached(t) /\ Reached(t)' = Reached(t) \cup {key}
    BY <2>3, <2>4 DEF RoundIsSound, Reached, Handler!Keys, InEvents, Handler!NextList
  <2>6. r.keys \subseteq r.event
    BY <2>3 DEF RoundIsSound
  <2>7. HandlerTypeOK'
    <3>1. registry[key] \in Seq(Handles)
      BY <2>5 DEF HandlerTypeOK
    <3>2. r \in Rounds
      BY <3>1 DEF Rounds
    <3> QED
      BY <2>2, <3>2, OwnStepTypes DEF Handler!NextList
  <2> HIDE DEF r
  <2> QED
    BY <1>2, <2>2, <2>3, <2>5, <2>6, <2>7
<1>4. CASE eventThread[t].keys = {}
  <2>1. eventThread' = [eventThread EXCEPT ![t].todo = registry[Handler!Events], ![t].at = "events"]
    BY <1>4 DEF Handler!NextList
  <2> DEFINE r == [eventThread[t] EXCEPT !.todo = registry[Handler!Events], !.at = "events"]
  <2>2. eventThread' = [eventThread EXCEPT ![t] = r]
    BY <2>1 DEF HandlerTypeOK, Rounds
  <2>3. /\ r.at = "events" /\ r.event = eventThread[t].event /\ r.called = eventThread[t].called
        /\ r.todo = registry[Handler!Events] /\ r.keys = {}
    BY <1>4 DEF HandlerTypeOK, Rounds, Handler!NextList
  <2>4. eventThread'[t] = r
    BY <2>2 DEF HandlerTypeOK
  <2>5. /\ Handler!Events \in Handler!Keys /\ Handler!Events \notin Reached(t)
        /\ Reached(t)' = Reached(t) \cup {Handler!Events}
    BY <1>4, <2>3, <2>4 DEF Reached, InEvents, Handler!NextList
  <2>6. HandlerTypeOK'
    <3>1. registry[Handler!Events] \in Seq(Handles)
      BY <2>5 DEF HandlerTypeOK
    <3>2. r \in Rounds
      BY <3>1 DEF Rounds, InRound, InEvents
    <3> QED
      BY <2>2, <3>2, OwnStepTypes DEF Handler!NextList
  <2> HIDE DEF r
  <2> QED
    BY <1>2, <2>2, <2>3, <2>5, <2>6
<1> QED
  BY <1>3, <1>4

(* A step within a list changes neither the line nor what was reached.     *)
LEMMA LineStaysSound ==
    ASSUME HInv, NEW t \in Users, eventThread[t].at \in InRound, NEW r, eventThread' = [eventThread EXCEPT ![t] = r],
           r.at \in InRound, r.at \in InEvents <=> eventThread[t].at \in InEvents,
           r.at \in InCall => r.todo # <<>>,
           r.event = eventThread[t].event, r.keys = eventThread[t].keys,
           r.called \o r.todo = Line(t), UNCHANGED <<registry, mutex, subscribed, filter, added, removed>>,
           HandlerTypeOK'
    PROVE  HInv'
<1>1. eventThread'[t] = r
  BY DEF HInv, HandlerTypeOK
<1>2. Line(t)' = Line(t) /\ Reached(t)' = Reached(t)
  BY <1>1 DEF Line, Reached
<1>3. \A k \in Handler!Keys : Handler!CalledInOrder(Line(t), k)' <=> Handler!CalledInOrder(Line(t), k)
  BY <1>2 DEF Handler!CalledInOrder, Handler!Newer
<1>4. RoundIsSound(t) /\ mutex = t
  BY DEF HInv, RoundsAreSound, RoundsAreLocked, InRound, InEvents
<1>5. RoundIsSound(t)'
  BY <1>1, <1>2, <1>3, <1>4 DEF RoundIsSound
<1>6. r.at # "idle"
  BY DEF InRound, InEvents
<1> QED
  BY <1>4, <1>5, <1>6, OwnStep

LEMMA CallHInv == ASSUME HInv, NEW t \in Users, Handler!Call(t) PROVE HInv'
<1> DEFINE r == [eventThread[t] EXCEPT !.at = IF @ = "events" THEN "in event callback" ELSE "in callback"]
<1>1. eventThread' = [eventThread EXCEPT ![t] = r]
  BY DEF HInv, HandlerTypeOK, Rounds, Handler!Call
<1>2. /\ r.at = IF eventThread[t].at = "events" THEN "in event callback" ELSE "in callback"
      /\ r.event = eventThread[t].event /\ r.keys = eventThread[t].keys
      /\ r.called = eventThread[t].called /\ r.todo = eventThread[t].todo
  BY DEF HInv, HandlerTypeOK, Rounds
<1>3. HandlerTypeOK'
  <2>1. r \in Rounds
    BY TypesOfRounds DEF HInv, Rounds, InRound, InEvents
  <2> QED
    BY <1>1, <2>1, OwnStepTypes DEF HInv, Handler!Call
<1> HIDE DEF r
<1> QED
  BY <1>1, <1>2, <1>3, LineStaysSound DEF Handler!Call, InRound, InEvents, InCall, Line

LEMMA CallReturnsHInv == ASSUME HInv, NEW t \in Users, Handler!CallReturns(t) PROVE HInv'
<1> DEFINE r == [eventThread[t] EXCEPT !.at = IF @ = "in callback" THEN "parameters" ELSE "events",
                                       !.todo = Tail(@), !.called = Append(@, Head(eventThread[t].todo))]
<1>0. HandlerTypeOK /\ RoundIsSound(t) /\ eventThread[t].todo # <<>>
  BY DEF HInv, RoundsAreSound, RoundIsSound, Handler!CallReturns, InRound, InEvents, InCall
<1>1. eventThread' = [eventThread EXCEPT ![t] = r]
  BY <1>0 DEF HandlerTypeOK, Rounds, Handler!CallReturns
<1>2. /\ r.at = IF eventThread[t].at = "in callback" THEN "parameters" ELSE "events"
      /\ r.event = eventThread[t].event /\ r.keys = eventThread[t].keys
      /\ r.called = Append(eventThread[t].called, Head(eventThread[t].todo)) /\ r.todo = Tail(eventThread[t].todo)
  BY <1>0 DEF HandlerTypeOK, Rounds
<1>3. /\ Append(eventThread[t].called, Head(eventThread[t].todo)) \o Tail(eventThread[t].todo) = Line(t)
      /\ Append(eventThread[t].called, Head(eventThread[t].todo)) \in Seq(Handles)
      /\ Tail(eventThread[t].todo) \in Seq(Handles)
  <2>1. eventThread[t].todo \in Seq(Handles) /\ eventThread[t].called \in Seq(Handles)
    BY <1>0, TypesOfRounds
  <2> QED
    BY <1>0, <2>1, LineStays DEF Line
<1>4. HandlerTypeOK'
  <2>1. r \in Rounds
    BY <1>0, <1>3, TypesOfRounds DEF Rounds, InRound, InEvents
  <2> QED
    BY <1>0, <1>1, <2>1, OwnStepTypes DEF Handler!CallReturns
<1>5. r.called \o r.todo = Line(t)
  BY <1>2, <1>3
<1> HIDE DEF r
<1> QED
  BY <1>1, <1>2, <1>4, <1>5, LineStaysSound DEF Handler!CallReturns, InRound, InEvents, InCall

(* A round that ends, or never does, asks nothing of its line.             *)
LEMMA RoundEndsHInv ==
    ASSUME HInv, NEW t \in Users, Handler!CallRaises(t) \/ Handler!EventDone(t) \/ Handler!CallWaitsForItself(t)
    PROVE  HInv'
<1>1. mutex = t
  BY DEF HInv, RoundsAreLocked, Handler!CallRaises, Handler!EventDone, Handler!CallWaitsForItself
<1>2. CASE Handler!CallRaises(t) \/ Handler!EventDone(t)
  <2>1. /\ eventThread' = [eventThread EXCEPT ![t] = Handler!Idle] /\ mutex' = None
        /\ UNCHANGED <<registry, added, removed, subscribed, filter>>
    BY <1>2 DEF Handler!CallRaises, Handler!EventDone
  <2>2. HandlerTypeOK'
    <3>1. Handler!Idle \in Rounds
      BY DEF Handler!Idle, Rounds
    <3> QED
      BY <2>1, <3>1, OwnStepTypes DEF HInv
  <2>3. Handler!Idle.at = "idle" /\ "idle" \notin InRound
    BY DEF Handler!Idle, InRound, InEvents
  <2> QED
    BY <1>1, <2>1, <2>2, <2>3, OwnStep
<1>3. CASE Handler!CallWaitsForItself(t)
  <2> DEFINE r == [eventThread[t] EXCEPT !.at = "stuck"]
  <2>1. /\ eventThread' = [eventThread EXCEPT ![t] = r]
        /\ UNCHANGED <<registry, mutex, added, removed, subscribed, filter>>
    BY <1>3 DEF Handler!CallWaitsForItself, HInv, HandlerTypeOK, Rounds
  <2>2. r.at = "stuck" /\ "stuck" \notin InRound
    BY DEF HInv, HandlerTypeOK, Rounds, InRound, InEvents
  <2>3. HandlerTypeOK'
    <3>1. r \in Rounds
      BY TypesOfRounds DEF HInv, Rounds
    <3> QED
      BY <2>1, <3>1, OwnStepTypes DEF HInv
  <2> HIDE DEF r
  <2> QED
    BY <1>1, <2>1, <2>2, <2>3, OwnStep
<1> QED
  BY <1>2, <1>3

-----------------------------------------------------------------------------
(* The registry changes while nobody is in a round.                        *)
LEMMA RegistryStep ==
    ASSUME HInv, mutex = None, UNCHANGED <<mutex, eventThread>>, HandlerTypeOK', RegistryInv'
    PROVE  HInv'
<1>1. \A t \in Users : eventThread[t].at = "idle" /\ eventThread[t] = Handler!Idle
  BY FreeMeansIdle DEF HInv
<1>2. "idle" \notin InRound
  BY DEF InRound, InEvents
<1> QED
  BY <1>1, <1>2 DEF HInv, RoundsAreLocked, RoundsAreSound

LEMMA AddHInv ==
    ASSUME HInv, NEW t \in Users, NEW handle \in Handles, NEW key \in Handler!Keys, Handler!add_callback(t, handle, key)
    PROVE  HInv'
<1>0. HandlerTypeOK /\ RegistryInv
  BY DEF HInv
<1>1. PICK its : its = <<handle>> \o registry[key]
  OBVIOUS
<1>2. PICK old : old = registry[key]
  OBVIOUS
<1>3. old \in Seq(Handles) /\ Len(<<handle>>) = 1 /\ <<handle>> \in Seq(Handles) /\ Handler!ToSet(<<handle>>) = {handle}
      /\ <<handle>>[1] = handle
  BY <1>0, <1>2 DEF HandlerTypeOK, Handler!ToSet
<1>4. /\ its \in Seq(Handles) /\ DOMAIN its = 1..(1 + Len(old)) /\ Len(old) \in Nat
      /\ DOMAIN old = 1..Len(old) /\ its[1] = handle /\ \A i \in 1..Len(old) : its[1 + i] = old[i]
      /\ Handler!ToSet(its) = {handle} \cup Handler!ToSet(old)
  <2>1. PICK one : one = <<handle>>
    OBVIOUS
  <2>2. its = one \o old /\ one \in Seq(Handles) /\ Len(one) = 1 /\ Handler!ToSet(one) = {handle} /\ one[1] = handle
    BY <1>1, <1>2, <1>3, <2>1
  <2>3. /\ its \in Seq(Handles) /\ DOMAIN its = 1..(Len(one) + Len(old)) /\ Len(old) \in Nat
        /\ DOMAIN old = 1..Len(old) /\ Handler!ToSet(its) = Handler!ToSet(one) \cup Handler!ToSet(old)
        /\ \A i \in 1..Len(one) : its[i] = one[i]
        /\ \A i \in 1..Len(old) : its[Len(one) + i] = old[i]
    BY <1>3, <2>2, ConcatElements
  <2>4. 1 \in 1..Len(one)
    BY <2>2
  <2> QED
    BY <2>2, <2>3, <2>4
<1>5. registry' = [registry EXCEPT ![key] = its]
  BY <1>1 DEF Handler!add_callback
<1>6. registry'[key] = its /\ \A k \in Handler!Keys \ {key} : registry'[k] = registry[k]
  BY <1>0, <1>5 DEF HandlerTypeOK
<1>7. /\ added' \in Seq(Handles) /\ DOMAIN added = 1..Len(added) /\ DOMAIN added' = 1..(Len(added) + 1)
      /\ Len(added) \in Nat /\ added'[Len(added) + 1] = handle
      /\ \A i \in 1..Len(added) : added'[i] = added[i]
  BY <1>0 DEF HandlerTypeOK, Handler!add_callback
<1>8. Handler!ToSet(added') = Handler!ToSet(added) \cup {handle} /\ handle \notin Handler!ToSet(added)
  <2>1. handle \notin Handler!ToSet(added)
    BY DEF Handler!add_callback
  <2>2. Handler!ToSet(added) \cup {handle} \subseteq Handler!ToSet(added')
    BY <1>7 DEF Handler!ToSet
  <2>3. Handler!ToSet(added') \subseteq Handler!ToSet(added) \cup {handle}
    BY <1>7 DEF Handler!ToSet
  <2> QED
    BY <2>1, <2>2, <2>3
<1>9. HandlerTypeOK'
  BY <1>0, <1>4, <1>5, <1>7 DEF HandlerTypeOK, Handler!add_callback
<1>10. AddedOnce'
  BY <1>0, <1>7, <1>8 DEF RegistryInv, AddedOnce, Handler!ToSet
<1>11. \A k \in Handler!Keys : Handler!ToSet(registry[k]) \subseteq Handler!ToSet(added)
  BY <1>0 DEF RegistryInv, ListsHoldAdded
<1>12. NewestFirst'
  <2> SUFFICES ASSUME NEW k \in Handler!Keys, NEW i \in DOMAIN registry'[k], NEW j \in DOMAIN registry'[k], i < j
               PROVE  Handler!Newer(registry[k][i], registry[k][j])'
    BY DEF NewestFirst
  <2>1. CASE k # key
    <3>1. Handler!Newer(registry[k][i], registry[k][j])
      BY <1>0, <1>6, <2>1 DEF RegistryInv, NewestFirst
    <3>2. \E a, b \in DOMAIN added' : a < b /\ added'[a] = registry[k][j] /\ added'[b] = registry[k][i]
      BY <1>7, <3>1 DEF Handler!Newer
    <3> QED
      BY <1>6, <2>1, <3>2 DEF Handler!Newer
  <2>2. CASE k = key
    <3>1. i \in 1..(1 + Len(old)) /\ j \in 1..(1 + Len(old))
      BY <1>4, <1>6, <2>2
    <3>2. j - 1 \in 1..Len(old) /\ its[j] = old[j - 1]
      <4>1. j - 1 \in 1..Len(old) /\ 1 + (j - 1) = j
        BY <1>4, <3>1
      <4> QED
        BY <1>4, <4>1
    <3>3. CASE i = 1
      <4>1. old[j - 1] \in Handler!ToSet(added)
        BY <1>2, <1>4, <1>11, <3>2 DEF Handler!ToSet
      <4>2. \E a, b \in DOMAIN added' : a < b /\ added'[a] = old[j - 1] /\ added'[b] = handle
        BY <1>7, <4>1 DEF Handler!ToSet
      <4> QED
        BY <1>4, <1>6, <2>2, <3>2, <3>3, <4>2 DEF Handler!Newer
    <3>4. CASE i # 1
      <4>1. i - 1 \in 1..Len(old) /\ its[i] = old[i - 1] /\ i - 1 < j - 1
        <5>1. i - 1 \in 1..Len(old) /\ 1 + (i - 1) = i /\ i - 1 < j - 1
          BY <1>4, <3>1, <3>4
        <5> QED
          BY <1>4, <5>1
      <4>2. Handler!Newer(old[i - 1], old[j - 1])
        BY <1>0, <1>2, <1>4, <3>2, <4>1 DEF RegistryInv, NewestFirst
      <4>3. \E a, b \in DOMAIN added' : a < b /\ added'[a] = old[j - 1] /\ added'[b] = old[i - 1]
        BY <1>7, <4>2 DEF Handler!Newer
      <4> QED
        BY <1>6, <2>2, <3>2, <4>1, <4>3 DEF Handler!Newer
    <3> QED
      BY <3>3, <3>4
  <2> QED
    BY <2>1, <2>2
<1>13. ListsHoldAdded' /\ ListsAreDisjoint'
  <2>1. removed' = removed /\ handle \notin removed
    BY <1>0, <1>8 DEF RegistryInv, ListsHoldAdded, Handler!add_callback
  <2>2. ListsHoldAdded'
    BY <1>0, <1>2, <1>4, <1>6, <1>8, <2>1 DEF RegistryInv, ListsHoldAdded
  <2>3. ASSUME NEW k1 \in Handler!Keys, NEW k2 \in Handler!Keys, k1 # k2
        PROVE  Handler!ToSet(registry'[k1]) \cap Handler!ToSet(registry'[k2]) = {}
    <3>1. Handler!ToSet(registry[k1]) \cap Handler!ToSet(registry[k2]) = {}
      BY <1>0, <2>3 DEF RegistryInv, ListsAreDisjoint
    <3>2. handle \notin Handler!ToSet(registry[k1]) /\ handle \notin Handler!ToSet(registry[k2])
      BY <1>8, <1>11
    <3>3. \A k \in {k1, k2} :
          Handler!ToSet(registry'[k]) = Handler!ToSet(registry[k]) \cup (IF k = key THEN {handle} ELSE {})
      BY <1>2, <1>4, <1>6
    <3> QED
      BY <2>3, <3>1, <3>2, <3>3
  <2> QED
    BY <2>2, <2>3 DEF ListsAreDisjoint
<1> QED
  BY <1>9, <1>10, <1>12, <1>13, RegistryStep DEF RegistryInv, Handler!add_callback

LEMMA RemoveHInv ==
    ASSUME HInv, NEW t \in Users, NEW handle \in Handles, Handler!remove_callback(t, handle)
    PROVE  HInv'
<1>0. HandlerTypeOK /\ RegistryInv
  BY DEF HInv
<1>1. PICK key \in Handler!Keys : \E i \in DOMAIN registry[key] :
        registry[key][i] = handle /\ registry' = [registry EXCEPT ![key] = Handler!RemoveAt(@, i)]
  BY DEF Handler!remove_callback
<1>2. PICK n \in DOMAIN registry[key] :
        registry[key][n] = handle /\ registry' = [registry EXCEPT ![key] = Handler!RemoveAt(@, n)]
  BY <1>1
<1>3. PICK old : old = registry[key]
  OBVIOUS
<1>4. PICK its : its = Handler!RemoveAt(old, n)
  OBVIOUS
<1>5. old \in Seq(Handles) /\ n \in 1..Len(old) /\ old[n] = handle
  BY <1>0, <1>2, <1>3 DEF HandlerTypeOK
<1>6. /\ its \in Seq(Handles) /\ DOMAIN its = 1..(Len(old) - 1) /\ DOMAIN old = 1..Len(old) /\ Len(old) \in Nat
      /\ \A j \in 1..(Len(old) - 1) : its[j] = IF j < n THEN old[j] ELSE old[j + 1]
  BY <1>4, <1>5, RemovedPositions
<1>7. registry'[key] = its /\ \A k \in Handler!Keys \ {key} : registry'[k] = registry[k]
  BY <1>0, <1>2, <1>3, <1>4 DEF HandlerTypeOK
<1>8. added' = added /\ removed' = removed \cup {handle} /\ mutex = None /\ UNCHANGED <<mutex, eventThread>>
  BY DEF Handler!remove_callback
<1>9. HandlerTypeOK'
  <2>1. registry' \in [Handler!Keys -> Seq(Handles)]
    BY <1>0, <1>2, <1>3, <1>4, <1>6 DEF HandlerTypeOK
  <2> QED
    BY <1>0, <1>8, <2>1 DEF HandlerTypeOK, Handler!remove_callback
<1>10. \A i, j \in DOMAIN old : i < j => Handler!Newer(old[i], old[j])
  BY <1>0, <1>3 DEF RegistryInv, NewestFirst
<1>11. \A h : ~Handler!Newer(h, h)
  <2> SUFFICES ASSUME NEW h, Handler!Newer(h, h) PROVE FALSE
    OBVIOUS
  <2>1. PICK i, j \in DOMAIN added : i < j /\ added[i] = h /\ added[j] = h
    BY DEF Handler!Newer
  <2>2. i = j
    BY <1>0, <2>1 DEF RegistryInv, AddedOnce
  <2>3. DOMAIN added = 1..Len(added)
    BY <1>0 DEF HandlerTypeOK
  <2> QED
    BY <2>1, <2>2, <2>3
<1>12. ASSUME NEW j \in DOMAIN its
       PROVE  /\ (IF j < n THEN j ELSE j + 1) \in DOMAIN old
              /\ its[j] = old[IF j < n THEN j ELSE j + 1]
              /\ its[j] # handle
  <2>1. CASE j < n
    <3>1. j \in DOMAIN old /\ its[j] = old[j]
      BY <1>5, <1>6, <2>1
    <3>2. its[j] # handle
      BY <1>5, <1>6, <1>10, <1>11, <2>1, <3>1
    <3> QED
      BY <2>1, <3>1, <3>2
  <2>2. CASE ~(j < n)
    <3>1. j + 1 \in DOMAIN old /\ its[j] = old[j + 1] /\ n < j + 1
      BY <1>5, <1>6, <2>2
    <3>2. its[j] # handle
      BY <1>5, <1>6, <1>10, <1>11, <3>1
    <3> QED
      BY <2>2, <3>1, <3>2
  <2> QED
    BY <2>1, <2>2
<1>13. Handler!ToSet(its) \subseteq Handler!ToSet(old) \ {handle}
  BY <1>12 DEF Handler!ToSet
<1>14. AddedOnce'
  BY <1>0, <1>8 DEF RegistryInv, AddedOnce
<1>15. NewestFirst'
  <2> SUFFICES ASSUME NEW k \in Handler!Keys, NEW i \in DOMAIN registry'[k], NEW j \in DOMAIN registry'[k], i < j
               PROVE  Handler!Newer(registry[k][i], registry[k][j])'
    BY DEF NewestFirst
  <2>1. CASE k # key
    <3>1. Handler!Newer(registry[k][i], registry[k][j])
      BY <1>0, <1>7, <2>1 DEF RegistryInv, NewestFirst
    <3> QED
      BY <1>7, <1>8, <2>1, <3>1 DEF Handler!Newer
  <2>2. CASE k = key
    <3> DEFINE a == IF i < n THEN i ELSE i + 1
               b == IF j < n THEN j ELSE j + 1
    <3>1. i \in DOMAIN its /\ j \in DOMAIN its
      BY <1>7, <2>2
    <3>2. a \in DOMAIN old /\ b \in DOMAIN old /\ its[i] = old[a] /\ its[j] = old[b]
      BY <1>12, <3>1
    <3>3. a < b
      BY <1>5, <1>6, <3>1
    <3>4. Handler!Newer(old[a], old[b])
      BY <1>10, <3>2, <3>3
    <3> HIDE DEF a, b
    <3> QED
      BY <1>7, <1>8, <2>2, <3>2, <3>4 DEF Handler!Newer
  <2> QED
    BY <2>1, <2>2
<1>16. ListsHoldAdded' /\ ListsAreDisjoint'
  <2>1. handle \in Handler!ToSet(old)
    BY <1>5, <1>6 DEF Handler!ToSet
  <2>2. \A k \in Handler!Keys \ {key} : handle \notin Handler!ToSet(registry[k])
    BY <1>0, <1>3, <2>1 DEF RegistryInv, ListsAreDisjoint
  <2>3. ListsHoldAdded'
    BY <1>0, <1>3, <1>7, <1>8, <1>13, <2>1, <2>2 DEF RegistryInv, ListsHoldAdded
  <2>4. ListsAreDisjoint'
    BY <1>0, <1>3, <1>7, <1>13 DEF RegistryInv, ListsAreDisjoint
  <2> QED
    BY <2>3, <2>4
<1> QED
  BY <1>8, <1>9, <1>14, <1>15, <1>16, RegistryStep DEF RegistryInv

(* The filter and the subscription bear on no round under way.             *)
LEMMA ElsewhereHInv ==
    ASSUME HInv, UNCHANGED <<registry, mutex, eventThread, added, removed>>,
           subscribed' \in BOOLEAN, filter' \in SUBSET EventNodes
    PROVE  HInv'
<1>1. HandlerTypeOK'
  BY DEF HInv, HandlerTypeOK
<1>2. RegistryInv' /\ RoundsAreLocked'
  BY RegistryStays DEF HInv, RoundsAreLocked
<1>3. RoundsAreSound'
  BY RoundStays DEF HInv, RoundsAreSound
<1> QED
  BY <1>1, <1>2, <1>3 DEF HInv

LEMMA NextHInv == HInv /\ [Handler!Next]_Handler!vars => HInv'
<1> SUFFICES ASSUME HInv, [Handler!Next]_Handler!vars PROVE HInv'
  OBVIOUS
<1>1. CASE UNCHANGED Handler!vars
  BY <1>1, ElsewhereHInv DEF Handler!vars, HInv, HandlerTypeOK
<1>2. ASSUME NEW t \in Users,
             (\E some \in SUBSET EventNodes : Handler!configure_nodes_filter(t, some)) \/ Handler!destroy(t)
      PROVE  HInv'
  BY <1>2, ElsewhereHInv DEF Handler!configure_nodes_filter, Handler!destroy, HInv, HandlerTypeOK
<1> QED
  BY <1>1, <1>2, EventHInv, NextListHInv, CallHInv, CallReturnsHInv, RoundEndsHInv, AddHInv, RemoveHInv DEF Handler!Next

(* The invariant holds in every reachable state.                           *)
THEOREM HandlerInvariance == Handler!Spec => []HInv
<1> QED
  BY InitHInv, NextHInv, PTL DEF Handler!Spec

(* The callbacks of a parameter event handler: no removed callback is      *)
(* running or runs again, and an event whose round has ended called exactly *)
(* the callbacks for events and those of its parameters, once each, the    *)
(* newest first, whatever threads add and remove meanwhile                 *)
(* (parameter_event_handler.py:72-182).                                    *)
THEOREM RoundsFollow == Handler!Spec => [](Handler!CallbacksFollowTheRegistry /\ CallbacksFollowTheRegistry)
<1>1. HInv => Handler!CallbacksFollowTheRegistry /\ CallbacksFollowTheRegistry
  <2> SUFFICES ASSUME HInv, NEW t \in Users
               PROVE  /\ eventThread[t].at \in InCall => Head(eventThread[t].todo) \notin removed
                      /\ eventThread[t].at = "events" /\ eventThread[t].todo = <<>> =>
                                \A key \in Handler!Keys :
                                  IF key \in eventThread[t].event \cup {Handler!Events}
                                  THEN Handler!CalledInOrder(eventThread[t].called, key)
                                  ELSE Handler!ToSet(eventThread[t].called) \cap Handler!ToSet(registry[key]) = {}
    BY DEF CallbacksFollowTheRegistry, Handler!CallbacksFollowTheRegistry, InCall
  <2>1. HandlerTypeOK /\ (eventThread[t].at \in InRound => RoundIsSound(t))
    BY DEF HInv, RoundsAreSound
  <2>2. eventThread[t].todo \in Seq(Handles) /\ eventThread[t].called \in Seq(Handles)
    BY <2>1, TypesOfRounds
  <2>3. ASSUME eventThread[t].at \in InCall PROVE Head(eventThread[t].todo) \notin removed
    <3>1. eventThread[t].todo # <<>> /\ Handler!ToSet(Line(t)) \cap removed = {}
      BY <2>1, <2>3 DEF RoundIsSound, InCall, InRound, InEvents
    <3>2. Head(eventThread[t].todo) \in Handler!ToSet(eventThread[t].todo)
      BY <2>2, <3>1, LineStays
    <3>3. Handler!ToSet(eventThread[t].todo) \subseteq Handler!ToSet(Line(t))
      BY <2>2, ConcatElements DEF Line
    <3> QED
      BY <3>1, <3>2, <3>3
  <2>4. ASSUME eventThread[t].at = "events", eventThread[t].todo = <<>>, NEW key \in Handler!Keys
        PROVE  IF key \in eventThread[t].event \cup {Handler!Events}
               THEN Handler!CalledInOrder(eventThread[t].called, key)
               ELSE Handler!ToSet(eventThread[t].called) \cap Handler!ToSet(registry[key]) = {}
    <3>1. RoundIsSound(t)
      BY <2>1, <2>4 DEF InRound, InEvents
    <3>2. Line(t) = eventThread[t].called
      BY <2>2, <2>4 DEF Line
    <3>3. Reached(t) = eventThread[t].event \cup {Handler!Events}
      BY <2>4, <3>1 DEF RoundIsSound, Reached, InEvents
    <3> QED
      BY <3>1, <3>2, <3>3 DEF RoundIsSound
  <2> QED
    BY <2>3, <2>4
<1> QED
  BY <1>1, HandlerInvariance, PTL

-----------------------------------------------------------------------------
(* The contexts of a process, the entities and the parameters of a node    *)
(* and the requests of an action client: what their own modules prove of   *)
(* them, here of the instances Process, Lists, Parameters and Client, whose*)
(* substitutions are repeated. ProcessProofs!Spec is the specification of  *)
(* Context, ProcessProofs!Lists!Spec that of NodeEntities,                 *)
(* ProcessProofs!Params!Spec that of NodeParameters, ClientProofs!Spec     *)
(* that of ActionClient.                                                   *)
ProcessProofs == INSTANCE Process_proofs WITH
    Callbacks <- OnShutdown, callbacks <- onShutdown, Items <- Declarations
ClientProofs == INSTANCE ActionClient_proofs WITH
    future <- requestFuture, filter <- passing, handles <- goalHandles, call <- blocked

(* The logging of the process counts the contexts that still use it        *)
(* (context.py:95-103, 201-213).                                           *)
THEOREM LoggingIsCounted == ProcessProofs!Spec => [](Process!LoggingFollowsContexts /\ LoggingFollowsContexts)
<1>1. ProcessProofs!ContextsAssumption
  BY ProcessAssumption DEF ProcessProofs!ContextsAssumption, Process!ContextsAssumption,
     ProcessProofs!IsFiniteSet, Process!IsFiniteSet
<1>2. ProcessProofs!Spec => []ProcessProofs!LoggingFollowsContexts
  BY <1>1, ProcessProofs!LoggingIsCounted
<1>3. ProcessProofs!LoggingFollowsContexts => Process!LoggingFollowsContexts /\ LoggingFollowsContexts
  BY DEF LoggingFollowsContexts, Process!LoggingFollowsContexts, ProcessProofs!LoggingFollowsContexts,
     Process!Free, ProcessProofs!Free, Process!Cardinality, ProcessProofs!Cardinality, Process!Idle, ProcessProofs!Idle
<1> QED
  BY <1>2, <1>3, PTL

(* A callback given to on_shutdown() is called once (context.py:143-199).  *)
THEOREM CallbacksRunOnce == ProcessProofs!Spec => [](Process!ShutdownCallbacksRun /\ ShutdownCallbacksRun)
<1>1. ProcessProofs!ContextsAssumption
  BY ProcessAssumption DEF ProcessProofs!ContextsAssumption, Process!ContextsAssumption,
     ProcessProofs!IsFiniteSet, Process!IsFiniteSet
<1>2. ProcessProofs!Spec => []ProcessProofs!ShutdownCallbacksRun
  BY <1>1, ProcessProofs!CallbacksRunOnce
<1>3. ProcessProofs!ShutdownCallbacksRun => Process!ShutdownCallbacksRun /\ ShutdownCallbacksRun
  BY DEF ShutdownCallbacksRun, Process!ShutdownCallbacksRun, ProcessProofs!ShutdownCallbacksRun
<1> QED
  BY <1>2, <1>3, PTL

(* The instances of NodeEntities in Process_proofs and here are the same.  *)
LEMMA SameWakers ==
    /\ \A t \in Users : ProcessProofs!Lists!StillToWake(t) <=> Lists!StillToWake(t)
    /\ ProcessProofs!Lists!Held = Lists!Held
    /\ ProcessProofs!Lists!ToSet(list) = Lists!ToSet(list)
BY DEF ProcessProofs!Lists!StillToWake, Lists!StillToWake, ProcessProofs!Lists!At, Lists!At,
   ProcessProofs!Lists!WakesLast, Lists!WakesLast, ProcessProofs!Lists!Held, Lists!Held,
   ProcessProofs!Lists!Items, Lists!Items, ProcessProofs!Lists!Event, Lists!Event,
   ProcessProofs!Lists!ToSet, Lists!ToSet

(* An executor that blocks waits for exactly the entities of its node, or  *)
(* it has been woken, or a thread is still to wake it (node.py:2292-2327,  *)
(* 2435-2505, 2710-2846).                                                  *)
THEOREM WaitSetFollowsLists == ProcessProofs!Lists!Spec => [](Lists!WaitSetIsCurrent /\ WaitSetIsCurrent)
<1>1. ProcessProofs!Lists!EntitiesAssumption
  BY ListsAssumption DEF ProcessProofs!Lists!EntitiesAssumption, Lists!EntitiesAssumption,
     ProcessProofs!Lists!Event, Lists!Event
<1>2. ProcessProofs!Lists!Spec => []ProcessProofs!Lists!WaitSetIsCurrent
  BY <1>1, ProcessProofs!WaitSetFollowsLists
<1>3. ProcessProofs!Lists!WaitSetIsCurrent => Lists!WaitSetIsCurrent /\ WaitSetIsCurrent
  BY SameWakers DEF WaitSetIsCurrent, Lists!WaitSetIsCurrent, ProcessProofs!Lists!WaitSetIsCurrent
<1> QED
  BY <1>2, <1>3, PTL

(* The rcl object of a handle is gone exactly when its destruction was     *)
(* requested and nobody is inside; and an executor that blocks with such a *)
(* handle in its wait set will be woken (destroyable.cpp:33-73,            *)
(* node.py:2710-2846).                                                     *)
THEOREM HandlesAreFreed == ProcessProofs!Lists!Spec => [](Lists!HandlesGoWhenUnused /\ HandlesGoWhenUnused)
<1>1. ProcessProofs!Lists!EntitiesAssumption
  BY ListsAssumption DEF ProcessProofs!Lists!EntitiesAssumption, Lists!EntitiesAssumption,
     ProcessProofs!Lists!Event, Lists!Event
<1>2. ProcessProofs!Lists!Spec => []ProcessProofs!Lists!HandlesGoWhenUnused
  BY <1>1, ProcessProofs!HandlesAreFreed
<1>3. ProcessProofs!Lists!Destroyables = Lists!Destroyables
  BY DEF ProcessProofs!Lists!Destroyables, Lists!Destroyables, ProcessProofs!Lists!Items, Lists!Items,
     ProcessProofs!Lists!Event, Lists!Event
<1>4. ProcessProofs!Lists!HandlesGoWhenUnused => Lists!HandlesGoWhenUnused /\ HandlesGoWhenUnused
  BY SameWakers, <1>3 DEF HandlesGoWhenUnused, Lists!HandlesGoWhenUnused, ProcessProofs!Lists!HandlesGoWhenUnused
<1> QED
  BY <1>2, <1>4, PTL

LEMMA SameDescriptors == ASSUME NEW parameter, NEW descriptor, NEW check, NEW declared
    PROVE ProcessProofs!Params!apply_descriptor(parameter, descriptor, check, declared)
            = Parameters!apply_descriptor(parameter, descriptor, check, declared)
BY DEF ProcessProofs!Params!apply_descriptor, Parameters!apply_descriptor,
   ProcessProofs!Params!apply_integer_range, Parameters!apply_integer_range,
   ProcessProofs!Params!Min, Parameters!Min, ProcessProofs!Params!Max, Parameters!Max

(* Every stored parameter has a descriptor and obeys its type and range,   *)
(* whichever call put the value or the descriptor there, however calls     *)
(* overlap and whatever callbacks refuse (node.py:518-1244).               *)
THEOREM StoreObeysDescriptors ==
    ProcessProofs!Params!Spec => [](Parameters!StoreMeetsDescriptors /\ StoreMeetsDescriptors)
<1>1. ProcessProofs!Params!ParametersAssumption
  BY ParametersAssumption DEF ProcessProofs!Params!ParametersAssumption, Parameters!ParametersAssumption,
     ProcessProofs!Params!Values, Parameters!Values, ProcessProofs!Params!Types, Parameters!Types
<1>2. ProcessProofs!Params!Spec => []ProcessProofs!Params!StoreMeetsDescriptors
  BY <1>1, ProcessProofs!StoreObeysDescriptors
<1>3. ProcessProofs!Params!StoreMeetsDescriptors => Parameters!StoreMeetsDescriptors /\ StoreMeetsDescriptors
  BY SameDescriptors DEF StoreMeetsDescriptors, Parameters!StoreMeetsDescriptors,
     ProcessProofs!Params!StoreMeetsDescriptors, ProcessProofs!Params!Parameter, Parameters!Parameter
<1> QED
  BY <1>2, <1>3, PTL

(* The time source and the readers of /parameter_events agree with the     *)
(* store once no call is at work, as long as calls do not overlap and none *)
(* does what they cannot see (time_source.py:125-143, node.py:820-944).    *)
THEOREM ListenersFollow ==
    ProcessProofs!Params!Spec => [](Parameters!ListenersFollowTheStore /\ ListenersFollowTheStore)
<1>1. ProcessProofs!Params!ParametersAssumption
  BY ParametersAssumption DEF ProcessProofs!Params!ParametersAssumption, Parameters!ParametersAssumption,
     ProcessProofs!Params!Values, Parameters!Values, ProcessProofs!Params!Types, Parameters!Types
<1>2. ProcessProofs!Params!Spec => []ProcessProofs!Params!ListenersFollowTheStore
  BY <1>1, ProcessProofs!ListenersFollow
<1>3. ProcessProofs!Params!Quiet <=> Parameters!Quiet
  BY DEF ProcessProofs!Params!Quiet, Parameters!Quiet, ProcessProofs!Params!CallingThreads, Parameters!CallingThreads,
     ProcessProofs!Params!Busy, Parameters!Busy
<1>4. ProcessProofs!Params!TimeSourceFollows => Parameters!TimeSourceFollows
  BY <1>3 DEF ProcessProofs!Params!TimeSourceFollows, Parameters!TimeSourceFollows, ProcessProofs!Params!Sequential,
     Parameters!Sequential, ProcessProofs!Params!has_parameter, Parameters!has_parameter
<1>5. ProcessProofs!Params!EventsTellTheStore => Parameters!EventsTellTheStore
  BY <1>3 DEF ProcessProofs!Params!EventsTellTheStore, Parameters!EventsTellTheStore, ProcessProofs!Params!Sequential,
     Parameters!Sequential, ProcessProofs!Params!Restrict, Parameters!Restrict
<1>6. ProcessProofs!Params!ListenersFollowTheStore => Parameters!ListenersFollowTheStore /\ ListenersFollowTheStore
  BY <1>4, <1>5 DEF ListenersFollowTheStore, Parameters!ListenersFollowTheStore,
     ProcessProofs!Params!ListenersFollowTheStore
<1> QED
  BY <1>2, <1>6, PTL

(* A request is in the tables of the client as long as its future is not   *)
(* decided or its done callback is to run (action/client.py:292-344,       *)
(* 400-488).                                                               *)
THEOREM TablesFollowFutures == ClientProofs!Spec => [](Client!RequestsAndFuturesAgree /\ RequestsAndFuturesAgree)
<1>1. ClientProofs!NoneAssumption
  BY ClientAssumption DEF ClientProofs!NoneAssumption, Client!NoneAssumption
<1>2. ClientProofs!Spec => []ClientProofs!RequestsAndFuturesAgree
  BY <1>1, ClientProofs!TablesFollowFutures
<1>3. ClientProofs!RequestsAndFuturesAgree => Client!RequestsAndFuturesAgree /\ RequestsAndFuturesAgree
  BY DEF RequestsAndFuturesAgree, Client!RequestsAndFuturesAgree, ClientProofs!RequestsAndFuturesAgree,
     Client!Kinds, ClientProofs!Kinds, Client!IsAt, ClientProofs!IsAt, Client!Order, ClientProofs!Order
<1> QED
  BY <1>2, <1>3, PTL

(* Feedback of a goal in execution reaches the callback of the user        *)
(* (action/client.py:328-344, 457-462, 601-604, 660-670).                  *)
THEOREM FeedbackIsDelivered == ClientProofs!Spec => [](Client!FeedbackArrives /\ FeedbackArrives)
<1>1. ClientProofs!NoneAssumption
  BY ClientAssumption DEF ClientProofs!NoneAssumption, Client!NoneAssumption
<1>2. ClientProofs!Spec => []ClientProofs!FeedbackArrives
  BY <1>1, ClientProofs!FeedbackIsDelivered
<1>3. ClientProofs!FeedbackArrives => Client!FeedbackArrives /\ FeedbackArrives
  BY DEF FeedbackArrives, Client!FeedbackArrives, ClientProofs!FeedbackArrives, Client!HasHandle, ClientProofs!HasHandle
<1> QED
  BY <1>2, <1>3, PTL
=============================================================================
