------------------------------- MODULE SpinUntil -------------------------------
(* spin_until_future_complete: one thread spins an executor of one thread or  *)
(* of a pool until a future is done, a timeout is over, or the executor or    *)
(* the context is shut down. The generator that finds work outlives the call  *)
(* that made it. The spinner sleeps in wait_set.wait; who changes what it     *)
(* waits for must trigger a guard condition after the change.                 *)
EXTENDS Naturals, Sequences

CONSTANTS MaxCalls, MaxWork

VARIABLES kind,      \* the executor of the future: "none", "own", or "other", which nobody need spin
          multi,     \* a MultiThreadedExecutor
          future,    \* its state
          wake,      \* _wake_on_done_cb is among its callbacks
          settling,  \* the state is set and the callbacks have not been called
          down,      \* of {"executor", "context"}: is_shutdown, and not context.ok()
          signal,    \* of the same: down, and the guard not triggered yet
          guard,     \* the executor's guard condition (or that of SIGINT) is triggered
          ready,     \* _ready_tasks: "wake" is the wake callback as a task
          pool,      \* tasks and handlers submitted to the pool
          arrived,   \* an entity is ready
          timer,     \* timeout_timer: "none", "armed" or "fired"
          late,      \* perf_counter() has passed end
          bound,     \* the timeout of the call: "forever", "limited" or "zero"
          gen,       \* _cb_iter: "none", or the loop in which it is suspended
          yielded,   \* yielded_work
          head,      \* tasks the loop of the generator has yet to take
          pc, calls, work

call == <<kind, multi, bound, calls>>
around == <<future, wake, settling, down, signal>>
iter == <<gen, yielded, head>>
vars == <<call, around, guard, ready, pool, arrived, timer, late, iter, pc, work>>

-------------------------------------------------------------------------------
\* Mutant: the future does not wake the executor.
AddWakeNever == UNCHANGED <<wake, ready, guard>>

\* _add_wake_on_done: once in the list of a pending future; a future that is
\* settled calls it, or has its executor call it.
AddWakeOnDone ==
    IF future = "pending" THEN wake' = TRUE /\ UNCHANGED <<ready, guard>>
    ELSE /\ ready' = IF kind = "own" THEN Append(ready, "wake") ELSE ready
         /\ guard' = IF kind = "other" THEN guard ELSE TRUE
         /\ UNCHANGED wake

\* spin_until_future_complete enters. A new call with a timeout has a timeout
\* object of its own, and so a generator of its own.
Enter ==
    /\ pc = "idle" /\ calls < MaxCalls /\ "executor" \notin down
    /\ calls' = calls + 1 /\ late' = FALSE
    /\ bound' \in {"forever", "limited", "zero"}
    /\ gen' = IF bound' = "forever" /\ bound \in {"forever", "none"} THEN gen ELSE "none"
    /\ AddWakeOnDone
    /\ pc' = "test"
    /\ UNCHANGED <<kind, multi, future, settling, down, signal, pool, arrived, timer, yielded, head, work>>

\* The test of the loop.
Test ==
    /\ pc = "test"
    /\ pc' = IF future = "pending" /\ down = {} THEN "next" ELSE "idle"
    /\ UNCHANGED <<call, around, guard, ready, pool, arrived, timer, late, iter, work>>

\* wait_for_ready_callbacks resumes the generator, or makes one, with a timer.
Resume ==
    /\ pc = "next"
    /\ IF gen = "none"
       THEN /\ timer' = IF bound = "limited" THEN "armed" ELSE "none"
            /\ yielded' = FALSE /\ head' = 0 /\ pc' = "head"
       ELSE pc' = gen /\ UNCHANGED <<timer, yielded, head>>
    /\ UNCHANGED <<call, around, guard, ready, pool, arrived, late, gen, work>>

\* The loop of _wait_for_ready_callbacks: it goes round, or the generator ends,
\* with an exception when the executor is shut down or the condition, which is
\* future.done, holds.
Loop ==
    /\ pc = "head"
    /\ IF yielded \/ "executor" \in down \/ future = "finished"
       THEN /\ gen' = "none" /\ UNCHANGED head
            /\ pc' = IF "executor" \in down \/ future = "finished" THEN "clock" ELSE "next"
       ELSE head' = Len(ready) /\ pc' = "tasks" /\ UNCHANGED gen
    /\ UNCHANGED <<call, around, guard, ready, pool, arrived, timer, late, yielded, work>>

\* What the generator yields runs in the spinner, or is submitted to the pool;
\* the exception of an earlier one leaves the call, and the generator as it is.
YieldItem(item, from) ==
    /\ gen' = from /\ yielded' = TRUE
    /\ IF multi THEN pool' = Append(pool, item) /\ pc' \in {"clock", "idle"}
                ELSE pool' = pool /\ pc' = item
TakeTasks ==
    /\ pc = "tasks" /\ head > 0
    /\ YieldItem(Head(ready), "tasks")
    /\ ready' = Tail(ready) /\ head' = head - 1
    /\ UNCHANGED <<call, around, guard, arrived, timer, late, work>>

\* The wait set of a context that is down cannot be made: the error leaves the
\* call. Otherwise wait_set.wait sleeps until something is ready and clears the
\* guard.
Gather ==
    /\ pc = "tasks" /\ head = 0
    /\ IF "context" \in down THEN pc' = "idle" /\ gen' = "none" ELSE pc' = "wait" /\ UNCHANGED gen
    /\ UNCHANGED <<call, around, guard, ready, pool, arrived, timer, late, yielded, head, work>>
Wait ==
    /\ pc = "wait"
    /\ guard \/ arrived \/ timer = "fired" \/ bound = "zero"
    /\ guard' = FALSE /\ pc' = "woken"
    /\ UNCHANGED <<call, around, ready, pool, arrived, timer, late, iter, work>>

\* After the wait: a shutdown raises (in a SingleThreadedExecutor that of the
\* context leaves the call); an entity that is ready yields a handler.
Woken ==
    /\ pc = "woken"
    /\ IF down # {}
       THEN /\ gen' = "none"
            /\ pc' = IF "executor" \in down \/ multi THEN "clock" ELSE "idle"
            /\ UNCHANGED <<arrived, pool, yielded>>
       ELSE IF arrived THEN arrived' = FALSE /\ YieldItem("task", "timer")
            ELSE pc' = "timer" /\ UNCHANGED <<arrived, pool, gen, yielded>>
    /\ UNCHANGED <<call, around, guard, ready, timer, late, head, work>>

\* The timeout raises; otherwise the loop goes on.
CheckTimer ==
    /\ pc = "timer"
    /\ IF bound = "zero" \/ timer = "fired" THEN pc' = "clock" /\ gen' = "none"
                                            ELSE pc' = "head" /\ UNCHANGED gen
    /\ UNCHANGED <<call, around, guard, ready, pool, arrived, timer, late, yielded, head, work>>

\* The spinner runs an item itself: the wake callback triggers the guard. An
\* exception leaves the call.
Run ==
    /\ pc \in {"wake", "task"}
    /\ guard' = (guard \/ pc = "wake") /\ pc' \in {"clock", "idle"}
    /\ UNCHANGED <<call, around, ready, pool, arrived, timer, late, iter, work>>
RunInPool ==
    /\ pool # <<>>
    /\ guard' = (guard \/ Head(pool) = "wake") /\ pool' = Tail(pool)
    /\ UNCHANGED <<call, around, ready, arrived, timer, late, iter, pc, work>>

\* Back in spin_until_future_complete: the timeout may be over.
Clock ==
    /\ pc = "clock"
    /\ pc' = IF bound = "zero" \/ (bound = "limited" /\ late) THEN "idle" ELSE "test"
    /\ UNCHANGED <<call, around, guard, ready, pool, arrived, timer, late, iter, work>>

-------------------------------------------------------------------------------
\* set_result and cancel, in any thread: first the state, then the callbacks, at
\* once or as tasks of the future's executor.
Settle ==
    /\ future = "pending"
    /\ future' \in {"finished", "cancelled"} /\ settling' = TRUE
    /\ UNCHANGED <<call, wake, down, signal, guard, ready, pool, arrived, timer, late, iter, pc, work>>
CallBacks ==
    /\ settling
    /\ settling' = FALSE /\ wake' = FALSE
    /\ ready' = IF wake /\ kind = "own" THEN Append(ready, "wake") ELSE ready
    /\ guard' = (guard \/ (wake /\ kind # "other"))
    /\ UNCHANGED <<call, future, down, signal, pool, arrived, timer, late, iter, pc, work>>

\* executor.shutdown(), context.shutdown() or SIGINT: the flag, then the guard.
ShutDown ==
    /\ \E what \in {"executor", "context"} \ down :
         down' = down \cup {what} /\ signal' = signal \cup {what}
    /\ UNCHANGED <<call, future, wake, settling, guard, ready, pool, arrived, timer, late, iter, pc, work>>
Signal ==
    /\ signal # {}
    /\ signal' = {} /\ guard' = TRUE
    /\ UNCHANGED <<call, future, wake, settling, down, ready, pool, arrived, timer, late, iter, pc, work>>

\* Other work: a message, or a task of any thread.
Arrive ==
    /\ work < MaxWork /\ work' = work + 1
    /\ \/ arrived' = TRUE /\ UNCHANGED <<ready, guard>>
       \/ ready' = Append(ready, "task") /\ guard' = TRUE /\ UNCHANGED arrived
    /\ UNCHANGED <<call, around, pool, timer, late, iter, pc>>

\* The deadline on the clock of the call, and the timer on the executor's, which
\* may be a little early.
DeadlinePasses ==
    /\ bound = "limited" /\ ~late
    /\ late' = TRUE
    /\ UNCHANGED <<call, around, guard, ready, pool, arrived, timer, iter, pc, work>>
TimerFires ==
    /\ timer = "armed"
    /\ timer' = "fired"
    /\ UNCHANGED <<call, around, guard, ready, pool, arrived, late, iter, pc, work>>

-------------------------------------------------------------------------------
Init ==
    /\ kind \in {"none", "own", "other"} /\ multi \in BOOLEAN
    /\ future = "pending" /\ wake = FALSE /\ settling = FALSE /\ down = {} /\ signal = {}
    /\ guard = FALSE /\ ready = <<>> /\ pool = <<>> /\ arrived = FALSE
    /\ timer = "none" /\ late = FALSE /\ bound = "none"
    /\ gen = "none" /\ yielded = FALSE /\ head = 0 /\ pc = "idle" /\ calls = 0 /\ work = 0

Spin == Test \/ Resume \/ Loop \/ TakeTasks \/ Gather \/ Wait \/ Woken \/ CheckTimer \/ Run \/ Clock
Helpers == RunInPool \/ CallBacks \/ Signal \/ TimerFires
Next == Enter \/ Spin \/ Helpers \/ DeadlinePasses \/ Settle \/ ShutDown \/ Arrive

\* The spinner runs, and time and the threads that have begun a change go on.
Fairness == WF_vars(Spin) /\ WF_vars(Helpers) /\ WF_vars(DeadlinePasses)
Spec == Init /\ [][Next]_vars
FairSpec == Spec /\ Fairness

-------------------------------------------------------------------------------
\* A call returns when the future is finished, when the executor or the context
\* is shut down, or when its timeout is over, whatever sleeps, work and wake-ups
\* come between. A future of another executor wakes this one only if somebody
\* spins that executor.
ReturnsOnceDone ==
    (pc # "idle" /\ (bound # "forever" \/ down # {} \/ (future = "finished" /\ kind # "other")))
        ~> (pc = "idle")

\* A spinner that is asleep although its future is finished, or the executor or
\* the context is down, is about to be woken, by whoever made the change; one
\* with a timeout sleeps with a timer; and work never waits for a sleeper.
SleeperIsWoken ==
    pc = "wait" /\ ~(guard \/ arrived \/ timer = "fired" \/ bound = "zero") =>
        /\ future = "finished" /\ kind # "other" => settling
        /\ down # {} => signal # {}
        /\ bound = "limited" => timer = "armed"
        /\ ready = <<>>
=============================================================================
