----------------------------- MODULE WorkTracker -----------------------------
(***************************************************************************)
(* rclpy.executors._WorkTracker: the monitor with which Executor.shutdown  *)
(* waits for the callbacks that are in flight.  Every method body runs     *)
(* under `_work_condition`, so one critical section is one action; a       *)
(* thread inside Condition.wait() is "asleep" until notify_all() moves it  *)
(* to "check", where it evaluates its predicate again.                     *)
(*                                                                         *)
(* A tracked callback is a coroutine: it may be suspended at an await, be  *)
(* resumed later (on another thread when ResumeAnywhere holds, as in a     *)
(* MultiThreadedExecutor), or be closed while suspended by whatever thread *)
(* happens to collect it.                                                  *)
(***************************************************************************)
EXTENDS Naturals, FiniteSets

CONSTANTS
    Threads,         \* threads that run callbacks or call wait()
    Callbacks,       \* identities of the handler coroutines
    NoThread,        \* "no thread"
    ResumeAnywhere   \* may a suspended callback be resumed by another thread?

ASSUME ThreadsAssumption == IsFiniteSet(Threads) /\ NoThread \notin Threads
ASSUME CallbacksAssumption == IsFiniteSet(Callbacks)
ASSUME ResumeAssumption == ResumeAnywhere \in BOOLEAN

VARIABLES
    counts,     \* _executing_thread_counts; 0 stands for "no entry"
    waiting,    \* _waiting_threads
    owner,      \* the `owner` local of each track_callback() in flight
    runner,     \* the thread that is running the callback now
    pc,         \* "free", or inside wait(): "asleep" / "check"
    addedSelf,  \* the added_self local of wait()
    timed,      \* was wait() given a timeout?
    result,     \* what the thread's last wait() returned
    committed   \* history: a wait() of this thread returned True while
                \* callbacks of its own were in flight

vars == <<counts, waiting, owner, runner, pc, addedSelf, timed, result, committed>>

Executing == {t \in Threads : counts[t] > 0}

InFlight == {c \in Callbacks : owner[c] # NoThread}

Owned(t) == {c \in Callbacks : owner[c] = t}

(* other_work_drained(), for the waiter set w *)
OtherWorkDrained(w) == Executing \subseteq w

NotifyAll(p) == [t \in Threads |-> IF p[t] = "asleep" THEN "check" ELSE p[t]]

Idle(t) == pc[t] = "free" /\ \A c \in Callbacks : runner[c] # t

-----------------------------------------------------------------------------
Init ==
    /\ counts = [t \in Threads |-> 0]
    /\ waiting = {}
    /\ owner = [c \in Callbacks |-> NoThread]
    /\ runner = [c \in Callbacks |-> NoThread]
    /\ pc = [t \in Threads |-> "free"]
    /\ addedSelf = [t \in Threads |-> FALSE]
    /\ timed = [t \in Threads |-> FALSE]
    /\ result = [t \in Threads |-> "none"]
    /\ committed = [t \in Threads |-> FALSE]

(* `with track_callback()`: the owner is captured on entry *)
Enter(t, c) ==
    /\ Idle(t)
    /\ owner[c] = NoThread
    /\ counts' = [counts EXCEPT ![t] = @ + 1]
    /\ owner' = [owner EXCEPT ![c] = t]
    /\ runner' = [runner EXCEPT ![c] = t]
    /\ UNCHANGED <<waiting, pc, addedSelf, timed, result, committed>>

(* mutants of TrackExit: every end of a callback drops the membership, or  *)
(* none does; nobody is notified                                           *)
TrackExitAlwaysDiscards(o, c) ==
    /\ counts' = [counts EXCEPT ![o] = @ - 1]
    /\ waiting' = waiting \ {o}
    /\ committed' = IF counts[o] = 1 THEN [committed EXCEPT ![o] = FALSE] ELSE committed
    /\ pc' = NotifyAll(pc)
    /\ owner' = [owner EXCEPT ![c] = NoThread]
    /\ runner' = [runner EXCEPT ![c] = NoThread]
    /\ UNCHANGED <<addedSelf, timed, result>>

TrackExitNeverDiscards(o, c) ==
    /\ counts' = [counts EXCEPT ![o] = @ - 1]
    /\ committed' = IF counts[o] = 1 THEN [committed EXCEPT ![o] = FALSE] ELSE committed
    /\ pc' = NotifyAll(pc)
    /\ owner' = [owner EXCEPT ![c] = NoThread]
    /\ runner' = [runner EXCEPT ![c] = NoThread]
    /\ UNCHANGED <<waiting, addedSelf, timed, result>>

(* The `finally` of track_callback(), for the owner o captured on entry. *)
TrackExit(o, c) ==
    /\ counts' = [counts EXCEPT ![o] = @ - 1]
    /\ waiting' = IF counts[o] = 1 THEN waiting \ {o} ELSE waiting
    /\ committed' = IF counts[o] = 1 THEN [committed EXCEPT ![o] = FALSE] ELSE committed
    /\ pc' = NotifyAll(pc)
    /\ owner' = [owner EXCEPT ![c] = NoThread]
    /\ runner' = [runner EXCEPT ![c] = NoThread]
    /\ UNCHANGED <<addedSelf, timed, result>>

(* the callback returns or raises on the thread t that runs it *)
Exit(t, c) ==
    /\ pc[t] = "free"
    /\ runner[c] = t
    /\ TrackExit(owner[c], c)

(* thread t collects a suspended coroutine: coro.close() unwinds it there *)
Close(t, c) ==
    /\ pc[t] = "free"
    /\ owner[c] # NoThread /\ runner[c] = NoThread
    /\ TrackExit(owner[c], c)

(* `await call_coroutine()` yields: the with block stays entered *)
Suspend(t, c) ==
    /\ pc[t] = "free"
    /\ runner[c] = t
    /\ runner' = [runner EXCEPT ![c] = NoThread]
    /\ UNCHANGED <<counts, waiting, owner, pc, addedSelf, timed, result, committed>>

Resume(t, c) ==
    /\ Idle(t)
    /\ owner[c] # NoThread /\ runner[c] = NoThread
    /\ ResumeAnywhere \/ t = owner[c]
    /\ runner' = [runner EXCEPT ![c] = t]
    /\ UNCHANGED <<counts, waiting, owner, pc, addedSelf, timed, result, committed>>

-----------------------------------------------------------------------------
(* the condition under which the `finally` of wait() drops the membership *)
Discards(t, added, drained) == added /\ (~drained \/ counts[t] = 0)

(* wait() returns `drained`; w is the waiter set and p the program counters *)
Return(t, added, drained, w, p) ==
    LET gone == Discards(t, added, drained) IN
    /\ waiting' = IF gone THEN w \ {t} ELSE w
    /\ pc' = [(IF gone THEN NotifyAll(p) ELSE p) EXCEPT ![t] = "free"]
    /\ result' = [result EXCEPT ![t] = IF drained THEN "True" ELSE "False"]
    /\ committed' = [committed EXCEPT ![t] = @ \/ (drained /\ counts[t] > 0)]
    /\ UNCHANGED <<counts, owner, runner, addedSelf, timed>>

(* wait(timeout_sec) up to the first evaluation of the predicate *)
WaitReturnsAtOnce(t) ==
    /\ pc[t] = "free"
    /\ OtherWorkDrained(waiting \cup {t})
    /\ LET added == t \notin waiting IN
       Return(t, added, TRUE, waiting \cup {t}, IF added THEN NotifyAll(pc) ELSE pc)

WaitSleeps(t, hasTimeout) ==
    /\ pc[t] = "free"
    /\ ~OtherWorkDrained(waiting \cup {t})
    /\ waiting' = waiting \cup {t}
    /\ pc' = [(IF t \notin waiting THEN NotifyAll(pc) ELSE pc) EXCEPT ![t] = "asleep"]
    /\ addedSelf' = [addedSelf EXCEPT ![t] = t \notin waiting]
    /\ timed' = [timed EXCEPT ![t] = hasTimeout]
    /\ result' = [result EXCEPT ![t] = "none"]
    /\ UNCHANGED <<counts, owner, runner, committed>>

(* wait_for() evaluates the predicate again after a notification *)
Recheck(t) ==
    /\ pc[t] = "check"
    /\ IF OtherWorkDrained(waiting)
       THEN Return(t, addedSelf[t], TRUE, waiting, pc)
       ELSE /\ pc' = [pc EXCEPT ![t] = "asleep"]
            /\ UNCHANGED <<counts, waiting, owner, runner, addedSelf, timed, result, committed>>

(* the deadline passes with the predicate still false *)
TimeOut(t) ==
    /\ pc[t] # "free" /\ timed[t]
    /\ ~OtherWorkDrained(waiting)
    /\ Return(t, addedSelf[t], FALSE, waiting, pc)

Wait(t) ==
    \/ WaitReturnsAtOnce(t)
    \/ \E b \in BOOLEAN : WaitSleeps(t, b)
    \/ Recheck(t)
    \/ TimeOut(t)

Next ==
    \/ \E t \in Threads, c \in Callbacks :
          Enter(t, c) \/ Exit(t, c) \/ Close(t, c) \/ Suspend(t, c) \/ Resume(t, c)
    \/ \E t \in Threads : Wait(t)

Spec == Init /\ [][Next]_vars

-----------------------------------------------------------------------------
TypeOK ==
    /\ counts \in [Threads -> Nat]
    /\ waiting \subseteq Threads
    /\ owner \in [Callbacks -> Threads \cup {NoThread}]
    /\ runner \in [Callbacks -> Threads \cup {NoThread}]
    /\ pc \in [Threads -> {"free", "asleep", "check"}]
    /\ addedSelf \in [Threads -> BOOLEAN]
    /\ timed \in [Threads -> BOOLEAN]
    /\ result \in [Threads -> {"none", "True", "False"}]
    /\ committed \in [Threads -> BOOLEAN]

(* The per-thread counter of every thread is the number of in-flight       *)
(* callbacks it entered, however they ended: on their own thread, on the   *)
(* one that resumed them, or closed by a third one.                        *)
CountsMatch == \A t \in Threads : counts[t] = Cardinality(Owned(t))

(* A thread parked in wait() while callbacks of its own are in flight is a *)
(* member of the waiter set, so it blocks nobody else's drain.             *)
WaitersAreMembers ==
    \A t \in Threads : pc[t] # "free" /\ counts[t] > 0 => t \in waiting

(* No lost notification: nobody sleeps on a predicate that already holds.  *)
NoMissedWakeup == \A t \in Threads : pc[t] = "asleep" => ~OtherWorkDrained(waiting)

(* "An entry is removed only when the owning callback ends": whoever is in *)
(* the waiter set is parked in wait(), or a wait() of its own has returned *)
(* True and its callback has not ended yet.                                *)
MembershipIsCommitment ==
    \A t \in waiting : pc[t] # "free" \/ (counts[t] > 0 /\ committed[t])

(* Two callbacks that both call shutdown() do not wait for each other: if  *)
(* every callback in flight is run by a thread inside wait(), none of them *)
(* stays asleep.                                                           *)
WaitersNeverBlockEachOther ==
    (\A c \in InFlight : runner[c] # NoThread /\ pc[runner[c]] # "free")
        => \A t \in Threads : pc[t] # "asleep"

(* When wait() returns True, every callback still in flight belongs to the *)
(* caller, to a thread parked in wait(), or to one already committed to    *)
(* finishing: nothing that shutdown() tears down is still needed.          *)
DrainedMeansCommitted ==
    [][\A t \in Threads : result[t] # "True" /\ result'[t] = "True" =>
          \A c \in InFlight :
             owner[c] = t \/ pc[owner[c]] # "free" \/ committed[owner[c]]]_vars

(* A running callback is in flight; without migration its runner entered   *)
(* it.                                                                     *)
RunnersOwn ==
    \A c \in Callbacks : runner[c] # NoThread =>
        owner[c] # NoThread /\ (~ResumeAnywhere => owner[c] = runner[c])

(* A wait() that found its thread in the waiter set already (added_self is *)
(* False) belongs to a callback with an earlier drained wait().            *)
NestedWaitersCommitted ==
    \A t \in waiting : pc[t] # "free" /\ ~addedSelf[t] => counts[t] > 0 /\ committed[t]

(* The inductive invariant of SharedState_proofs. *)
IInv ==
    /\ TypeOK
    /\ CountsMatch
    /\ RunnersOwn
    /\ WaitersAreMembers
    /\ NestedWaitersCommitted
    /\ NoMissedWakeup
    /\ MembershipIsCommitment
=============================================================================
