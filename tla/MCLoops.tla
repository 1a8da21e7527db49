------------------------------- MODULE MCLoops -------------------------------
(* Small instances of the loops that wait for work: of asyncio, with the      *)
(* tasks of a node with a subscription or service and a client, or its timer  *)
(* and the sleeps on its clock; and of an executor, in                        *)
(* spin_until_future_complete. A behaviour is about one of them; the others   *)
(* stay as they begin.                                                        *)
EXTENDS AsyncNode

CONSTANTS Sleepers, Period, MaxTime, MaxChanges, Resolution, \* of AsyncTime
          MaxCalls, MaxWork                                  \* of SpinUntil

VARIABLES
          wall, sim, ros, nextCall, canceled, resetEvent, taskAt, waiter, armed, sleep, timeDestroyed, changes,
          kind, multi, spunFuture, wakeCallback, settling, down, signal, guard, ready, pool, arrived,
          timeout, late, limit, gen, yielded, head, pc, spinCalls, work, part

Time == INSTANCE AsyncTime WITH at <- taskAt, destroyed <- timeDestroyed
Until == INSTANCE SpinUntil WITH
    future <- spunFuture, wake <- wakeCallback, timer <- timeout, bound <- limit, calls <- spinCalls

timeVars == <<wall, sim, ros, nextCall, canceled, resetEvent, taskAt, waiter, armed, sleep, timeDestroyed, changes>>
untilVars == <<kind, multi, spunFuture, wakeCallback, settling, down, signal, guard, ready, pool, arrived,
               timeout, late, limit, gen, yielded, head, pc, spinCalls, work>>

MCInit ==
    /\ part \in {"node", "time", "until"} /\ Init /\ Time!Init /\ Until!Init
    /\ part # "node" => concurrent = {}
    /\ part # "time" => ~ros /\ ~canceled
    /\ part # "until" => kind = "none" /\ ~multi
MCNext ==
    \/ part = "node" /\ Next /\ UNCHANGED <<timeVars, untilVars, part>>
    \/ part = "time" /\ Time!Next /\ UNCHANGED <<vars, untilVars, part>>
    \/ part = "until" /\ Until!Next /\ UNCHANGED <<vars, timeVars, part>>

\* The fairness of all: a part that is not looked at has no step to take.
MCFairness ==
    /\ Fairness
    /\ WF_timeVars(part = "time" /\ Time!Loop)
    /\ WF_timeVars(part = "time" /\ Time!WallTime)
    /\ WF_timeVars(part = "time" /\ Time!ClockMessage)
    /\ WF_untilVars(Until!Spin)
    /\ WF_untilVars(Until!Helpers)
    /\ WF_untilVars(Until!DeadlinePasses)
MCSpec == MCInit /\ [][MCNext]_<<vars, timeVars, untilVars, part>> /\ MCFairness

\* The properties of AsyncTime and SpinUntil under their names there.
SleepsLongEnough == Time!SleepsLongEnough
TimersFireAndSleepsEnd == Time!TimersFireAndSleepsEnd
ReturnsOnceDone == Until!ReturnsOnceDone
=============================================================================
