-------------------------------- MODULE Rate --------------------------------
(* rclpy/timer.py, class Rate: threads that sleep() until a timer fires,   *)
(* while the rate may be destroyed and the context be shut down.           *)
EXTENDS FiniteSets, Naturals

CONSTANTS Sleepers

VARIABLES
  timer,       \* the timer fires: it was not destroyed, the executor spins
  flag,        \* the state of _event
  destroyed,   \* _is_destroyed
  phase,       \* of _on_shutdown(): "none", "flag" (_is_shutdown), "done"
  count,       \* _num_sleepers
  at           \* progress of each sleeping thread

rateVars == <<timer, flag, destroyed, phase, count, at>>

shutdown == phase # "none"

Init ==
  /\ timer = TRUE /\ flag = FALSE /\ destroyed = FALSE /\ phase = "none"
  /\ count = 0
  /\ at = [t \in Sleepers |-> "awake"]

GoTo(t, l) == at' = [at EXCEPT ![t] = l]

\* Event.set() releases the threads inside Event.wait(), even if the event is
\* cleared before they run.
Released == [t \in Sleepers |-> IF at[t] = "waiting" THEN "woken" ELSE at[t]]
SetEvent == flag' = TRUE /\ at' = Released

Fires ==
  /\ timer
  /\ SetEvent
  /\ UNCHANGED <<timer, destroyed, phase, count>>

\* Node.destroy_rate(): the timer, and then the rate.
DestroyTimer ==
  /\ timer
  /\ timer' = FALSE
  /\ UNCHANGED <<flag, destroyed, phase, count, at>>

Destroy ==
  /\ ~timer
  /\ destroyed' = TRUE
  /\ SetEvent
  /\ UNCHANGED <<timer, phase, count>>

\* _on_shutdown(): the flag first, then destroy().
ShutdownFlag ==
  /\ phase = "none"
  /\ phase' = "flag"
  /\ timer' = FALSE
  /\ UNCHANGED <<flag, destroyed, count, at>>

ShutdownDestroys ==
  /\ phase = "flag"
  /\ phase' = "done"
  /\ destroyed' = TRUE
  /\ SetEvent
  /\ UNCHANGED <<timer, count>>

\* _presleep() up to the lock.  Its test of the timer's handle stops nobody:
\* the handle object is true even after its destruction.
Tests(t) ==
  /\ at[t] = "awake"
  /\ GoTo(t, IF shutdown \/ destroyed THEN "raised" ELSE "tested")
  /\ UNCHANGED <<timer, flag, destroyed, phase, count>>

Enters(t) ==
  /\ at[t] = "tested"
  /\ count' = count + 1
  /\ GoTo(t, "entered")
  /\ UNCHANGED <<timer, flag, destroyed, phase>>

Waits(t) ==
  /\ at[t] = "entered"
  /\ GoTo(t, IF flag THEN "woken" ELSE "waiting")
  /\ UNCHANGED <<timer, flag, destroyed, phase, count>>

\* _postsleep(): the last sleeper clears the event.
Leaves(t) ==
  /\ at[t] = "woken"
  /\ count' = count - 1
  /\ flag' = (flag /\ count' # 0)
  /\ GoTo(t, "left")
  /\ UNCHANGED <<timer, destroyed, phase>>

\* The rest of _postsleep(): a shutdown sets the event again, which may have
\* been cleared just now.
Returns(t) ==
  /\ at[t] = "left"
  /\ IF shutdown
     THEN destroyed' = TRUE /\ flag' = TRUE /\ at' = [Released EXCEPT ![t] = "raised"]
     ELSE GoTo(t, "awake") /\ UNCHANGED <<flag, destroyed>>
  /\ UNCHANGED <<timer, phase, count>>

Sleep(t) == Tests(t) \/ Enters(t) \/ Waits(t) \/ Leaves(t) \/ Returns(t)

Next ==
  \/ Fires \/ DestroyTimer \/ Destroy \/ ShutdownFlag \/ ShutdownDestroys
  \/ \E t \in Sleepers : Sleep(t)

Spec == Init /\ [][Next]_rateVars

\* Threads run and the shutdown callback finishes; nothing is said of the timer.
Fairness ==
  /\ WF_rateVars(ShutdownDestroys)
  /\ \A t \in Sleepers : WF_rateVars(Sleep(t))

-----------------------------------------------------------------------------
\* No thread that is about to wait misses a trigger because another one,
\* released by that trigger, clears the event.
TriggerReachesEverySleeper ==
  [][\A t \in Sleepers : at[t] = "entered" /\ flag => flag']_rateVars

\* After a shutdown nobody stays asleep, even a thread that passed the tests
\* of _presleep() before it and waits after another thread cleared the event.
ShutdownWakesSleepers ==
  \A t \in Sleepers : (shutdown /\ at[t] # "awake") ~> (at[t] = "raised")

\* No sleeper misses the trigger that it was about to wait for, or the shutdown.
SleepersGoOn == TriggerReachesEverySleeper /\ ShutdownWakesSleepers
=============================================================================
