---------------------------- MODULE EventsTimers ----------------------------
(* The timers of an EventsExecutor: the ClockManager of one clock, whose       *)
(* methods run as events of the executor's queue, and its DelayedEventThread,  *)
(* which puts the next evaluation into that queue when a timer will be due.    *)
(* Users reset and cancel timers and move the clock from any thread, the       *)
(* callbacks of the timers included.                                           *)
EXTENDS Naturals, SequencesExt

CONSTANTS Timers,
          Period,      \* of every timer
          MaxTime,     \* bound of the clocks
          MaxRequests, \* bound of what the users ask for
          None

TimersAssumption ==
    /\ IsFiniteSet(Timers) /\ Period \in Nat \ {0} /\ MaxTime \in Nat
    /\ None \notin Timers \cup (BOOLEAN \X Nat)

VARIABLES wall, sim, ros,       \* the steady clock; simulated time, and whether the clock follows it
          due, canceled,        \* what rcl keeps of each timer
          created,              \* the timers of the nodes
          timers,               \* timers_; the manager exists as long as there is one
          onDebug, ready,       \* on_debug_time_, ready_timers_
          queue,                \* the executor's events
          adding, arming,       \* the event in progress: timers to be added yet; what goes to EnqueueAt
          handler, when,        \* of the DelayedEventThread
          thread, latched, notified, \* its thread, latched_when, and a notify_one() on its way
          requests,
          early                 \* history: a timer was called before it was due

vars == <<wall, sim, ros, due, canceled, created, timers, onDebug, ready, queue, adding, arming,
          handler, when, thread, latched, notified, requests, early>>
clocks == <<wall, sim, ros>>
rcl == <<due, canceled>>
delayed == <<handler, when, thread, latched, notified>>

Now == IF ros THEN sim ELSE wall
Queued(kind) == \E i \in DOMAIN queue : queue[i][1] = kind
\* No event is in progress: the queue's thread takes the next one.
Between == adding = <<>> /\ arming = None

Init ==
    /\ wall = 0 /\ sim = 0 /\ ros \in BOOLEAN
    /\ due \in [Timers -> {0, Period}] /\ canceled = [t \in Timers |-> FALSE]
    /\ created = Timers /\ timers = {} /\ onDebug = FALSE /\ ready = {}
    /\ queue = <<<<"track">>>> /\ adding = <<>> /\ arming = None
    /\ handler = FALSE /\ when = 0 /\ thread = "new" /\ latched = 0 /\ notified = FALSE
    /\ requests = 0 /\ early = FALSE

-----------------------------------------------------------------------------
\* UpdateTimers up to its decision, with ms for timers_, rs for ready_timers_
\* and q for the queue: an event for every timer that is due, and otherwise
\* the time of the next one, on the steady clock.
UpdateTimers(ms, rs, debug, q) ==
    LET live == {t \in ms : ~canceled[t]}
        late == {t \in live : due[t] <= Now}
        soon == {due[t] : t \in live \ late}
    IN /\ \E order \in SetToSeqs(late) : queue' = q \o [i \in DOMAIN order |-> <<"dispatch", order[i]>>]
       /\ ready' = rs \cup late
       /\ IF rs \cup late = {} /\ ~debug /\ soon # {}
          THEN \E next \in soon : /\ \A time \in soon : next <= time
                                 /\ arming' = <<TRUE, wall + (next - Now)>>
          ELSE arming' = <<FALSE, 0>>

\* Mutant: the thread is not told.
EnqueueAtSilently ==
    /\ arming # None
    /\ handler' = arming[1] /\ when' = arming[2]
    /\ arming' = None
    /\ UNCHANGED <<clocks, rcl, created, timers, onDebug, ready, queue, adding, thread, latched, notified,
                   requests, early>>

\* next_update_wait_.EnqueueAt() or Cancel(), the end of UpdateTimers.
EnqueueAt ==
    /\ arming # None
    /\ handler' = arming[1] /\ when' = arming[2] /\ notified' = (thread # "new")
    /\ arming' = None
    /\ UNCHANGED <<clocks, rcl, created, timers, onDebug, ready, queue, adding, thread, latched,
                   requests, early>>

UpdateEvent ==
    /\ Between /\ queue # <<>> /\ Head(queue)[1] = "update"
    /\ UpdateTimers(timers, ready, onDebug, Tail(queue))
    /\ UNCHANGED <<clocks, rcl, created, timers, onDebug, adding, delayed, requests, early>>

HandleJump ==
    /\ Between /\ queue # <<>> /\ Head(queue)[1] = "jump"
    /\ onDebug' = Head(queue)[2]
    /\ UpdateTimers(timers, ready, onDebug', Tail(queue))
    /\ UNCHANGED <<clocks, rcl, created, timers, adding, delayed, requests, early>>

\* rcl_timer_call(): the next call a period later, or the first after now.
Called(t) ==
    LET next == due[t] + Period
    IN IF next < Now THEN next + (1 + (Now - next) \div Period) * Period ELSE next

\* DispatchTimer(): the last of the timers that are ready asks for another
\* evaluation; the callback runs unless the timer was removed or cancelled.
DispatchTimer ==
    /\ Between /\ queue # <<>> /\ Head(queue)[1] = "dispatch"
    /\ LET t == Head(queue)[2]
       IN /\ ready' = ready \ {t}
          /\ queue' = IF ready' = {} THEN Append(Tail(queue), <<"update">>) ELSE Tail(queue)
          /\ IF t \in timers /\ ~canceled[t]
             THEN /\ due' = [due EXCEPT ![t] = Called(t)]
                  /\ early' = (early \/ due[t] > Now)
             ELSE UNCHANGED <<due, early>>
    /\ UNCHANGED <<clocks, canceled, created, timers, onDebug, adding, arming, delayed, requests>>

-----------------------------------------------------------------------------
\* UpdateEntitiesFromNodes(), for timers: those added, one by one, then those
\* removed.
UpdateEntities ==
    /\ Between /\ queue # <<>> /\ Head(queue)[1] = "track"
    /\ queue' = Tail(queue)
    /\ \E order \in SetToSeqs(created \ timers) : adding' = order \o <<None>>
    /\ UNCHANGED <<clocks, rcl, created, timers, onDebug, ready, arming, delayed, requests, early>>

\* AddTimer() of a manager that is made, with the override as it is, if there
\* is none.
AddTimer ==
    /\ arming = None /\ adding # <<>> /\ Head(adding) # None
    /\ timers' = timers \cup {Head(adding)}
    /\ onDebug' = IF timers = {} THEN ros ELSE onDebug
    /\ UpdateTimers(timers', ready, onDebug', queue)
    /\ adding' = Tail(adding)
    /\ UNCHANGED <<clocks, rcl, created, delayed, requests, early>>

\* The manager goes with its last timer; the events it has in the queue will
\* find it dead, here they are gone.
RemoveTimers ==
    /\ arming = None /\ adding = <<None>>
    /\ adding' = <<>>
    /\ timers' = timers \cap created
    /\ IF timers' # {} THEN UNCHANGED <<ready, queue, delayed, onDebug>>
       ELSE /\ ready' = {} /\ onDebug' = FALSE
            /\ queue' = IF Queued("track") THEN <<<<"track">>>> ELSE <<>>
            /\ handler' = FALSE /\ when' = 0 /\ thread' = "new" /\ latched' = 0 /\ notified' = FALSE
    /\ UNCHANGED <<clocks, rcl, created, arming, requests, early>>

Run == UpdateEvent \/ HandleJump \/ DispatchTimer \/ UpdateEntities \/ AddTimer \/ RemoveTimers \/ EnqueueAt

-----------------------------------------------------------------------------
\* RunThread() of the DelayedEventThread, as long as there is a manager: the
\* thread holds the mutex from the end of one wait to the next.
Waits(pending) ==
    /\ thread' = IF pending THEN "timed" ELSE "untimed"
    /\ latched' = IF pending THEN when ELSE 0
    /\ notified' = FALSE

StartOrNotified ==
    /\ timers # {} /\ (thread = "new" \/ notified)
    /\ Waits(handler)
    /\ UNCHANGED <<clocks, rcl, created, timers, onDebug, ready, queue, adding, arming, handler, when, requests, early>>

\* The deadline passes: a handler that is set for later stays.
WaitTimesOut ==
    /\ thread = "timed" /\ latched <= wall
    /\ LET fires == handler /\ when <= latched
       IN /\ queue' = IF fires THEN Append(queue, <<"update">>) ELSE queue
          /\ handler' = (handler /\ ~fires)
          /\ Waits(handler')
    /\ UNCHANGED <<clocks, rcl, created, timers, onDebug, ready, adding, arming, when, requests, early>>

RunThread == StartOrNotified \/ WaitTimesOut

-----------------------------------------------------------------------------
Request ==
    /\ requests < MaxRequests /\ requests' = requests + 1
    /\ UNCHANGED <<timers, onDebug, ready, adding, arming, delayed, early>>

\* Nodes create and destroy timers, and wake the executor unless it has been.
Change(t) ==
    /\ Request
    /\ created' = IF t \in created THEN created \ {t} ELSE created \cup {t}
    /\ queue' = IF Queued("track") THEN queue ELSE Append(queue, <<"track">>)
    /\ UNCHANGED <<clocks, rcl>>

\* rcl_timer_reset(), with its callback if the manager has set one.
Reset(t) ==
    /\ Request /\ t \in created
    /\ due' = [due EXCEPT ![t] = Now + Period]
    /\ canceled' = [canceled EXCEPT ![t] = FALSE]
    /\ queue' = IF t \in timers THEN Append(queue, <<"update">>) ELSE queue
    /\ UNCHANGED <<clocks, created>>

CancelTimer(t) ==
    /\ Request /\ t \in created /\ ~canceled[t]
    /\ canceled' = [canceled EXCEPT ![t] = TRUE]
    /\ UNCHANGED <<clocks, due, created, queue>>

Jumped(debug) == queue' = IF timers = {} THEN queue ELSE Append(queue, <<"jump", debug>>)

\* The clock turns to simulated time or back: what is left of each period stays.
SwitchClock ==
    /\ Request
    /\ ros' = ~ros /\ UNCHANGED <<wall, sim, canceled, created>>
    /\ due' = [t \in Timers |-> IF due[t] + Now' > Now THEN due[t] + Now' - Now ELSE 0]
    /\ Jumped(ros')

\* Simulated time moves. A timer that was called after the new time starts over.
SetSimTime(time) ==
    /\ Request /\ ros /\ time # sim
    /\ sim' = time
    /\ due' = [t \in Timers |-> IF due[t] > time + Period THEN time + Period ELSE due[t]]
    /\ Jumped(TRUE)
    /\ UNCHANGED <<wall, ros, canceled, created>>

Tick ==
    /\ wall < MaxTime
    /\ wall' = wall + 1
    /\ UNCHANGED <<sim, ros, rcl, created, timers, onDebug, ready, queue, adding, arming, delayed, requests, early>>

Users ==
    \/ \E t \in Timers : Change(t) \/ Reset(t) \/ CancelTimer(t)
    \/ SwitchClock
    \/ \E time \in 0..MaxTime : SetSimTime(time)
    \/ Tick

Next == Run \/ RunThread \/ Users
Spec == Init /\ [][Next]_vars

-----------------------------------------------------------------------------
\* Whatever is done to the timers and their clock meanwhile, no timer is
\* forgotten: an evaluation is in the queue, or a timer is whose call asks for
\* one, or simulated time will jump before the timer is due, or the thread will
\* wake in time, told of the deadline or on its way to see it.
TimerIsCovered ==
    \A t \in timers : ~canceled[t] =>
        \/ Queued("update") \/ Queued("jump") \/ Queued("dispatch")
        \/ ros /\ onDebug /\ Now < due[t]
        \/ ~ros /\ arming # None /\ arming[1] /\ arming[2] <= due[t]
        \/ /\ ~ros /\ arming = None /\ handler /\ when <= due[t]
           /\ thread = "new" \/ notified \/ (thread = "timed" /\ latched <= when)

\* "The provided callback function will be called" every period, "when the timer
\* expires" (timer.py:194-201): not before.
CalledWhenDue == ~early
=============================================================================
