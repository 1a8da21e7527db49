------------------------------- MODULE AsyncTime ------------------------------
(* Time on the asyncio event loop: one timer of an AsyncNode and coroutines   *)
(* asleep on its clock. The clock follows wall time or simulated time; jump   *)
(* callbacks, calls of the user and the tasks all run in the loop, each from  *)
(* one await to the next. A handle of call_later may fire up to Resolution    *)
(* early.                                                                     *)
EXTENDS Naturals

CONSTANTS Sleepers, Period, MaxTime, MaxChanges, Resolution

VARIABLES wall, sim,     \* loop.time() and system time; the simulated time
          ros,           \* ros_time_is_active
          nextCall,      \* next_call_time of the rcl timer
          canceled, resetEvent, \* state of the rcl timer; _reset_event
          at, waiter, armed, \* the _run task; _sleep_waiter; its call_later handle
          sleep,         \* what each coroutine in AsyncClock.sleep waits for
          destroyed,     \* the node, with its timer and clock
          changes        \* calls of the user and changes of the source of time

vars == <<wall, sim, ros, nextCall, canceled, resetEvent, at, waiter, armed, sleep, destroyed, changes>>
clocks == <<wall, sim, ros>>
task == <<at, waiter, armed>>
NowOn(simulated) == IF simulated THEN sim ELSE wall
Now == NowOn(ros)
Never == MaxTime + Resolution + 1

Awake == [at |-> "awake", sim |-> FALSE, target |-> 0]
Counted == changes < MaxChanges /\ changes' = changes + 1

-------------------------------------------------------------------------------
\* Mutant: no handle is armed on wall time.
WaitUnarmed ==
    /\ at = "run"
    /\ IF canceled \/ nextCall <= Now
       THEN at' = "yield" /\ UNCHANGED <<waiter, armed>>
       ELSE at' = "sleep" /\ waiter' = "pending" /\ armed' = Never
    /\ UNCHANGED <<clocks, nextCall, canceled, resetEvent, sleep, destroyed, changes>>

\* The timer task. _wait yields if the timer is due or cancelled; otherwise it
\* sleeps until a call_later handle, or, on simulated time, a jump resolves it.
Wait ==
    /\ at = "run"
    /\ IF canceled \/ nextCall <= Now
       THEN at' = "yield" /\ UNCHANGED <<waiter, armed>>
       ELSE at' = "sleep" /\ waiter' = "pending" /\ armed' = IF ros THEN Never ELSE nextCall
    /\ UNCHANGED <<clocks, nextCall, canceled, resetEvent, sleep, destroyed, changes>>

Resolve(w) == IF at = "sleep" /\ w = "pending" THEN "resolved" ELSE w
Fire ==
    /\ at = "sleep" /\ waiter = "pending" /\ armed <= wall + Resolution
    /\ waiter' = Resolve(waiter)
    /\ UNCHANGED <<clocks, nextCall, canceled, resetEvent, at, armed, sleep, destroyed, changes>>

\* After the wait: again, if it was rejected or the timer reset; asleep until a
\* reset, if it is cancelled; otherwise the timer and its callback are called.
AfterWait ==
    /\ at = "yield" \/ (at = "sleep" /\ waiter # "pending")
    /\ waiter' = "none" /\ armed' = Never
    /\ \/ waiter = "rejected" /\ at' = "run" /\ UNCHANGED <<resetEvent, nextCall>>
       \/ waiter # "rejected" /\ resetEvent /\ at' = "run" /\ resetEvent' = FALSE /\ UNCHANGED nextCall
       \/ waiter # "rejected" /\ ~resetEvent /\ canceled /\ at' = "blocked" /\ UNCHANGED <<resetEvent, nextCall>>
       \/ waiter # "rejected" /\ ~resetEvent /\ ~canceled /\ at' = "call" /\ UNCHANGED resetEvent
          /\ nextCall' = IF nextCall + Period > Now THEN nextCall + Period ELSE Now + 1
    /\ UNCHANGED <<clocks, canceled, sleep, destroyed, changes>>
Unblock ==
    /\ at = "blocked" /\ resetEvent
    /\ at' = "run" /\ resetEvent' = FALSE
    /\ UNCHANGED <<clocks, nextCall, canceled, waiter, armed, sleep, destroyed, changes>>
CallbackEnds ==
    /\ at = "call" /\ at' = "run"
    /\ UNCHANGED <<clocks, nextCall, canceled, resetEvent, waiter, armed, sleep, destroyed, changes>>

\* cancel() resolves the wait; reset() reaches _on_reset, which resolves it too
\* and sets the event.
cancel ==
    /\ Counted /\ ~destroyed
    /\ canceled' = TRUE /\ waiter' = Resolve(waiter)
    /\ UNCHANGED <<clocks, nextCall, resetEvent, at, armed, sleep, destroyed>>
reset ==
    /\ Counted /\ ~destroyed /\ Now + Period <= MaxTime
    /\ canceled' = FALSE /\ nextCall' = Now + Period
    /\ waiter' = Resolve(waiter) /\ resetEvent' = TRUE
    /\ UNCHANGED <<clocks, at, armed, sleep, destroyed>>

-------------------------------------------------------------------------------
\* AsyncClock.sleep: towards a target of simulated time, or a deadline of the
\* loop, whose handle may fire early.
Sleep(s, d) ==
    /\ sleep[s] = Awake /\ ~destroyed /\ Now + d <= MaxTime
    /\ sleep' = [sleep EXCEPT ![s] = [at |-> "pending", sim |-> ros, target |-> Now + d]]
    /\ UNCHANGED <<clocks, nextCall, canceled, resetEvent, task, destroyed, changes>>
FireSleep(s) ==
    /\ sleep[s].at = "pending" /\ ~sleep[s].sim /\ sleep[s].target <= wall + Resolution
    /\ sleep' = [sleep EXCEPT ![s].at = "resolved"]
    /\ UNCHANGED <<clocks, nextCall, canceled, resetEvent, task, destroyed, changes>>
\* Mutant: the coroutine trusts the handle that fired.
ResumeTrusting(s) ==
    /\ sleep[s].at \in {"resolved", "changed", "cancelled"}
    /\ sleep' = [sleep EXCEPT ![s].at = IF @ = "resolved" THEN "slept" ELSE "raised"]
    /\ UNCHANGED <<clocks, nextCall, canceled, resetEvent, task, destroyed, changes>>

\* The coroutine goes on: it arms again if the deadline is not reached, or
\* returns, or raises.
Resume(s) ==
    /\ sleep[s].at \in {"resolved", "changed", "cancelled"}
    /\ sleep' = [sleep EXCEPT ![s] =
                    IF @.at = "resolved" /\ ~@.sim /\ wall < @.target
                    THEN [@ EXCEPT !.at = IF destroyed THEN "cancelled" ELSE "pending"]
                    ELSE [@ EXCEPT !.at = IF sleep[s].at = "resolved" THEN "slept" ELSE "raised"]]
    /\ UNCHANGED <<clocks, nextCall, canceled, resetEvent, task, destroyed, changes>>
Forget(s) ==
    /\ sleep[s].at \in {"slept", "raised"}
    /\ sleep' = [sleep EXCEPT ![s] = Awake]
    /\ UNCHANGED <<clocks, nextCall, canceled, resetEvent, task, destroyed, changes>>

\* The two _on_jump callbacks. On a step of simulated time:
ClockMessage ==
    /\ sim < MaxTime /\ sim' = sim + 1
    /\ waiter' = IF ros /\ ~destroyed /\ ~canceled /\ nextCall <= sim' THEN Resolve(waiter) ELSE waiter
    /\ sleep' = [s \in Sleepers |->
                    IF ros /\ ~destroyed /\ sleep[s].at = "pending" /\ sleep[s].sim /\ sim' >= sleep[s].target
                    THEN [sleep[s] EXCEPT !.at = "resolved"] ELSE sleep[s]]
    /\ UNCHANGED <<wall, ros, nextCall, canceled, resetEvent, at, armed, destroyed, changes>>
\* ... and on a change of its source, at which rcl shifts the next call.
TimeSourceChanges ==
    /\ Counted /\ ~destroyed
    /\ ros' = ~ros
    /\ nextCall' \in {t \in NowOn(~ros)..(NowOn(~ros) + Period) : t <= MaxTime}
    /\ waiter' = IF at = "sleep" /\ waiter = "pending" THEN "rejected" ELSE waiter
    /\ sleep' = [s \in Sleepers |-> IF sleep[s].at = "pending" THEN [sleep[s] EXCEPT !.at = "changed"] ELSE sleep[s]]
    /\ UNCHANGED <<wall, sim, canceled, resetEvent, at, armed, destroyed>>
WallTime ==
    /\ wall < MaxTime /\ wall' = wall + 1
    /\ UNCHANGED <<sim, ros, nextCall, canceled, resetEvent, task, sleep, destroyed, changes>>

\* destroy_node: the task of the timer and the pending sleeps are cancelled.
destroy_node ==
    /\ ~destroyed /\ destroyed' = TRUE
    /\ at' = "ended" /\ waiter' = "none" /\ armed' = Never
    /\ sleep' = [s \in Sleepers |-> IF sleep[s].at = "pending" THEN [sleep[s] EXCEPT !.at = "cancelled"] ELSE sleep[s]]
    /\ UNCHANGED <<clocks, nextCall, canceled, resetEvent, changes>>

-------------------------------------------------------------------------------
Init ==
    /\ wall = 0 /\ sim = 0 /\ ros \in BOOLEAN
    /\ nextCall = Period /\ canceled \in BOOLEAN /\ resetEvent = FALSE
    /\ at = "run" /\ waiter = "none" /\ armed = Never
    /\ sleep = [s \in Sleepers |-> Awake] /\ destroyed = FALSE /\ changes = 0

Loop == Wait \/ Fire \/ AfterWait \/ Unblock \/ CallbackEnds \/ \E s \in Sleepers : FireSleep(s) \/ Resume(s)
Next ==
    \/ Loop \/ cancel \/ reset \/ ClockMessage \/ TimeSourceChanges \/ WallTime \/ destroy_node
    \/ \E s \in Sleepers : Forget(s) \/ \E d \in 1..2 : Sleep(s, d)

Spec == Init /\ [][Next]_vars

\* The loop runs, wall time passes and someone publishes /clock.
Fairness == WF_vars(Loop) /\ WF_vars(WallTime) /\ WF_vars(ClockMessage)

-------------------------------------------------------------------------------
\* A sleep that returns has lasted as long as it was asked to, on the clock it
\* started on, whatever the handles of the loop and the source of time do; and
\* the task of the timer waits for a reset only while the timer is cancelled or
\* the reset is on its way.
SleepsLongEnough ==
    /\ \A s \in Sleepers : sleep[s].at = "slept" => NowOn(sleep[s].sim) >= sleep[s].target
    /\ at = "blocked" => canceled \/ resetEvent

\* A timer that is due is called, unless it is cancelled, reset, shifted by a
\* change of the source of time, or destroyed; and every sleep ends.
TimersFireAndSleepsEnd ==
    /\ (~canceled /\ ~destroyed /\ nextCall <= Now) ~> (canceled \/ destroyed \/ nextCall > Now)
    /\ \A s \in Sleepers : (sleep[s].at = "pending") ~> (sleep[s].at # "pending")
=============================================================================
