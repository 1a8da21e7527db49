-------------------------- MODULE ExecutorShutdown --------------------------
(***************************************************************************)
(* Executor.shutdown() against spin(): the handshake over _is_shutdown,    *)
(* the work tracker, the spinning flag, the executor's guard condition     *)
(* and, for a MultiThreadedExecutor, its thread pool.  The work tracker is *)
(* the module WorkTracker; a shutdown() call goes through its wait().      *)
(*                                                                         *)
(* With Workers = {} this is the SingleThreadedExecutor: handlers run on   *)
(* the spinning thread.                                                    *)
(***************************************************************************)
EXTENDS Naturals, FiniteSets

CONSTANTS
    Spinners,       \* threads that call spin()
    Workers,        \* threads of the pool; {} for a SingleThreadedExecutor
    Callers,        \* other threads that may call shutdown()
    Callbacks,      \* handler tasks
    MaySuspend,     \* may callbacks await something?
    Timeouts,       \* the timeouts shutdown() is called with: finite or not
    Joins,          \* values of wait_for_threads
    MaxShutdowns,   \* bound: calls of shutdown()
    MaxSpins,       \* bound: calls of spin()
    NoThread

AllThreads == Spinners \cup Workers \cup Callers
MultiThreaded == Workers # {}

ASSUME ShutdownAssumption ==
    /\ IsFiniteSet(AllThreads) /\ NoThread \notin AllThreads
    /\ Spinners \cap (Workers \cup Callers) = {}
    /\ MaySuspend \in BOOLEAN /\ Timeouts \subseteq BOOLEAN /\ Joins \subseteq BOOLEAN
    /\ MaxShutdowns \in Nat /\ MaxSpins \in Nat

VARIABLES
    counts, waiting, owner, runner, pc, addedSelf, timed, result, committed,
    isShutdown,     \* _is_shutdown
    guard,          \* is the executor's GuardCondition alive?
    triggered,      \* its trigger flag
    spinThread,     \* _spinning_thread while _is_spinning, else NoThread
    spc,            \* control of the spinning threads
    spins,          \* spin() calls made
    hpc,            \* control of the handlers
    captured,       \* the is_shutdown argument of each handler
    runs,           \* the worker that holds each handler
    poolDown,       \* ThreadPoolExecutor.shutdown() was called
    dpc,            \* control of shutdown() on each thread
    deadline, join, \* its arguments: is there a deadline? wait_for_threads?
    calls           \* shutdown() calls made

trackerVars == <<counts, waiting, owner, runner, pc, addedSelf, timed, result, committed>>
guardVars == <<guard, triggered>>
spinVars == <<spinThread, spc, spins>>
handlerVars == <<hpc, captured, runs>>
shutdownVars == <<dpc, deadline, join, calls>>
vars == <<trackerVars, isShutdown, guardVars, spinVars, handlerVars, poolDown, shutdownVars>>

Tracker == INSTANCE WorkTracker WITH Threads <- AllThreads, ResumeAnywhere <- MultiThreaded

Trigger == triggered' = (triggered \/ guard) /\ UNCHANGED guard

Init ==
    /\ Tracker!Init
    /\ isShutdown = FALSE /\ guard = TRUE /\ triggered = FALSE
    /\ spinThread = NoThread
    /\ spc = [s \in Spinners |-> "out"] /\ spins = 0
    /\ hpc = [c \in Callbacks |-> "none"]
    /\ captured = [c \in Callbacks |-> FALSE]
    /\ runs = [c \in Callbacks |-> NoThread]
    /\ poolDown = FALSE
    /\ dpc = [t \in AllThreads |-> "none"]
    /\ deadline = [t \in AllThreads |-> FALSE] /\ join = [t \in AllThreads |-> FALSE]
    /\ calls = 0

-----------------------------------------------------------------------------
(* spin() *)

SGoto(s, label) == spc' = [spc EXCEPT ![s] = label] /\ UNCHANGED spins

(* _enter_spin(); raises if another thread spins *)
EnterSpin(s) ==
    /\ spc[s] = "out" /\ spinThread = NoThread /\ spins < MaxSpins
    /\ spins' = spins + 1
    /\ spinThread' = s
    /\ spc' = [spc EXCEPT ![s] = "loop"]
    /\ UNCHANGED <<trackerVars, isShutdown, guardVars, handlerVars, poolDown, shutdownVars>>

(* the loop conditions of spin() and _wait_for_ready_callbacks() *)
LoopTest(s) ==
    /\ spc[s] = "loop"
    /\ SGoto(s, IF isShutdown THEN "exit" ELSE "wait")
    /\ UNCHANGED <<trackerVars, isShutdown, guardVars, spinThread, handlerVars, poolDown,
                   shutdownVars>>

(* woken by the guard: ShutdownException, or the wait set is built again *)
GuardWakes(s) ==
    /\ spc[s] = "wait" /\ triggered
    /\ triggered' = FALSE
    /\ SGoto(s, IF isShutdown THEN "exit" ELSE "loop")
    /\ UNCHANGED <<trackerVars, isShutdown, guard, spinThread, handlerVars, poolDown, shutdownVars>>

(* an entity is ready, or a suspended callback is: a handler is chosen *)
EntityWakes(s, c) ==
    /\ spc[s] = "wait" /\ hpc[c] \in {"none", "suspended"}
    /\ IF isShutdown
       THEN SGoto(s, "exit") /\ UNCHANGED hpc
       ELSE SGoto(s, "yield") /\ hpc' = [hpc EXCEPT ![c] = "chosen"]
    /\ UNCHANGED <<trackerVars, isShutdown, guardVars, spinThread, captured, runs, poolDown,
                   shutdownVars>>

(* _make_handler(), then handler() or self._executor.submit(handler) *)
YieldHandler(s, c) ==
    /\ spc[s] = "yield" /\ hpc[c] = "chosen"
    /\ captured' = [captured EXCEPT ![c] = isShutdown]
    /\ hpc' = [hpc EXCEPT ![c] = "queued"]
    /\ IF MultiThreaded
       THEN SGoto(s, "loop") /\ UNCHANGED runs
       ELSE SGoto(s, "inline") /\ runs' = [runs EXCEPT ![c] = s]
    /\ UNCHANGED <<trackerVars, isShutdown, guardVars, spinThread, poolDown, shutdownVars>>

HandlerReturned(s) ==
    /\ spc[s] = "inline" /\ \A c \in Callbacks : runs[c] # s
    /\ SGoto(s, "loop")
    /\ UNCHANGED <<trackerVars, isShutdown, guardVars, spinThread, handlerVars, poolDown,
                   shutdownVars>>

ExitSpin(s) ==
    /\ spc[s] = "exit"
    /\ spinThread' = NoThread
    /\ SGoto(s, "out")
    /\ UNCHANGED <<trackerVars, isShutdown, guardVars, handlerVars, poolDown, shutdownVars>>

Spin(s) ==
    \/ LoopTest(s) \/ GuardWakes(s) \/ HandlerReturned(s) \/ ExitSpin(s)
    \/ \E c \in Callbacks : YieldHandler(s, c)

-----------------------------------------------------------------------------
(* handlers *)

HGoto(c, label) == hpc' = [hpc EXCEPT ![c] = label] /\ UNCHANGED captured

HandlerOver(c, label) == HGoto(c, label) /\ runs' = [runs EXCEPT ![c] = NoThread]

(* a worker takes a submitted handler, shut down or not *)
WorkerPicks(w, c) ==
    /\ hpc[c] = "queued" /\ runs[c] = NoThread
    /\ \A d \in Callbacks : runs[d] # w
    /\ runs' = [runs EXCEPT ![c] = w]
    /\ UNCHANGED <<trackerVars, isShutdown, guardVars, spinVars, hpc, captured, poolDown,
                   shutdownVars>>

(* the head of handler(): refuse, or enter the tracker; or resume *)
HandlerBegins(t, c) ==
    /\ hpc[c] = "queued" /\ runs[c] = t
    /\ \/ /\ owner[c] # NoThread
          /\ Tracker!Resume(t, c)
          /\ HGoto(c, "body")
          /\ UNCHANGED <<guardVars, runs>>
       \/ /\ owner[c] = NoThread /\ captured[c]
          /\ Trigger
          /\ HandlerOver(c, "none")
          /\ UNCHANGED trackerVars
       \/ /\ owner[c] = NoThread /\ ~captured[c]
          /\ Tracker!Enter(t, c)
          /\ HGoto(c, "take")
          /\ UNCHANGED <<guardVars, runs>>
    /\ UNCHANGED <<isShutdown, spinVars, poolDown, shutdownVars>>

(* the work is taken; gc.trigger() raises if the guard is destroyed, and   *)
(* the handler ends there without releasing its callback group             *)
HandlerTakes(t, c) ==
    /\ hpc[c] = "take" /\ runs[c] = t
    /\ IF guard
       THEN Trigger /\ HGoto(c, "body") /\ UNCHANGED <<trackerVars, runs>>
       ELSE Tracker!Exit(t, c) /\ HandlerOver(c, "broken") /\ UNCHANGED guardVars
    /\ UNCHANGED <<isShutdown, spinVars, poolDown, shutdownVars>>

CallbackEnds(t, c) ==
    /\ hpc[c] = "body" /\ runs[c] = t /\ dpc[t] = "none"
    /\ Tracker!Exit(t, c)
    /\ Trigger
    /\ HandlerOver(c, "none")
    /\ UNCHANGED <<isShutdown, spinVars, poolDown, shutdownVars>>

CallbackSuspends(t, c) ==
    /\ MaySuspend
    /\ hpc[c] = "body" /\ runs[c] = t /\ dpc[t] = "none"
    /\ Tracker!Suspend(t, c)
    /\ HandlerOver(c, "suspended")
    /\ UNCHANGED <<isShutdown, guardVars, spinVars, poolDown, shutdownVars>>

-----------------------------------------------------------------------------
(* shutdown() *)

DGoto(t, label) == dpc' = [dpc EXCEPT ![t] = label] /\ UNCHANGED <<deadline, join, calls>>

InBody(t) == \E c \in Callbacks : hpc[c] = "body" /\ runs[c] = t

(* mutant of ShutdownBegins: the spinner is not woken *)
ShutdownBeginsSilently(t) ==
    /\ dpc[t] = "none" /\ calls < MaxShutdowns
    /\ t \in Callers \/ InBody(t)
    /\ calls' = calls + 1
    /\ dpc' = [dpc EXCEPT ![t] = "wait"]
    /\ \E b \in Timeouts : deadline' = [deadline EXCEPT ![t] = b]
    /\ \E b \in Joins : join' = [join EXCEPT ![t] = b]
    /\ isShutdown' = TRUE
    /\ UNCHANGED <<trackerVars, guardVars, spinVars, handlerVars, poolDown>>

ShutdownBegins(t) ==
    /\ dpc[t] = "none" /\ calls < MaxShutdowns
    /\ t \in Callers \/ InBody(t)
    /\ calls' = calls + 1
    /\ dpc' = [dpc EXCEPT ![t] = "wait"]
    /\ \E b \in Timeouts : deadline' = [deadline EXCEPT ![t] = b]
    /\ \E b \in Joins : join' = [join EXCEPT ![t] = b]
    /\ isShutdown' = TRUE
    /\ IF isShutdown THEN UNCHANGED guardVars ELSE Trigger
    /\ UNCHANGED <<trackerVars, spinVars, handlerVars, poolDown>>

(* _work_tracker.wait(remaining_timeout()) *)
ShutdownDrains(t) ==
    /\ dpc[t] \in {"wait", "draining"}
    /\ \/ dpc[t] = "wait" /\ Tracker!WaitReturnsAtOnce(t) /\ DGoto(t, "nodes")
       \/ dpc[t] = "wait" /\ Tracker!WaitSleeps(t, deadline[t]) /\ DGoto(t, "draining")
       \/ /\ dpc[t] = "draining" /\ Tracker!Recheck(t)
          /\ IF pc'[t] = "free" THEN DGoto(t, "nodes") ELSE UNCHANGED shutdownVars
       \/ dpc[t] = "draining" /\ Tracker!TimeOut(t) /\ DGoto(t, "none")
    /\ UNCHANGED <<isShutdown, guardVars, spinVars, handlerVars, poolDown>>

(* mutant of SpinnerGone: nobody waits for the spinner *)
SpinnerIgnored(t) ==
    /\ dpc[t] = "nodes"
    /\ DGoto(t, "destroy")
    /\ UNCHANGED <<trackerVars, isShutdown, guardVars, spinVars, handlerVars, poolDown>>

(* wait for the spinning thread to leave, unless it is this one *)
SpinnerGone(t) ==
    /\ dpc[t] = "nodes"
    /\ \/ spinThread \in {t, NoThread} /\ DGoto(t, "destroy")
       \/ spinThread \notin {t, NoThread} /\ deadline[t] /\ DGoto(t, "none")
    /\ UNCHANGED <<trackerVars, isShutdown, guardVars, spinVars, handlerVars, poolDown>>

DestroyGuard(t) ==
    /\ dpc[t] = "destroy"
    /\ guard' = FALSE
    /\ DGoto(t, IF MultiThreaded THEN "pool" ELSE "none")
    /\ UNCHANGED <<trackerVars, isShutdown, triggered, spinVars, handlerVars, poolDown>>

ShutDownPool(t) ==
    /\ dpc[t] = "pool"
    /\ poolDown' = TRUE
    /\ DGoto(t, IF join[t] THEN "join" ELSE "none")
    /\ UNCHANGED <<trackerVars, isShutdown, guardVars, spinVars, handlerVars>>

(* a thread of the pool exits when it is idle and the queue is empty *)
Exited(w) == poolDown /\ \A c \in Callbacks : hpc[c] # "queued" /\ runs[c] # w

JoinThreads(t) ==
    /\ dpc[t] = "join"
    /\ \A w \in Workers \ {t} : Exited(w)
    /\ DGoto(t, "none")
    /\ UNCHANGED <<trackerVars, isShutdown, guardVars, spinVars, handlerVars, poolDown>>

Shutdown(t) ==
    ShutdownDrains(t) \/ SpinnerGone(t) \/ DestroyGuard(t) \/ ShutDownPool(t) \/ JoinThreads(t)

-----------------------------------------------------------------------------
HandlerStep(t, c) == HandlerBegins(t, c) \/ HandlerTakes(t, c) \/ CallbackEnds(t, c)

Next ==
    \/ \E s \in Spinners : EnterSpin(s) \/ Spin(s) \/ \E c \in Callbacks : EntityWakes(s, c)
    \/ \E w \in Workers, c \in Callbacks : WorkerPicks(w, c)
    \/ \E t \in AllThreads, c \in Callbacks : HandlerStep(t, c) \/ CallbackSuspends(t, c)
    \/ \E t \in AllThreads : ShutdownBegins(t) \/ Shutdown(t)

Spec == Init /\ [][Next]_vars

(* Every thread that can take its next step takes it; callbacks end; no    *)
(* entity needs to become ready, no thread needs to call spin().           *)
Fairness ==
    /\ \A s \in Spinners : WF_vars(Spin(s))
    /\ \A w \in Workers : WF_vars(\E c \in Callbacks : WorkerPicks(w, c))
    /\ \A t \in AllThreads : WF_vars(\E c \in Callbacks : HandlerStep(t, c)) /\ WF_vars(Shutdown(t))

FairSpec == Spec /\ Fairness

-----------------------------------------------------------------------------
TypeOK ==
    /\ Tracker!TypeOK
    /\ isShutdown \in BOOLEAN /\ guard \in BOOLEAN /\ triggered \in BOOLEAN
    /\ spinThread \in Spinners \cup {NoThread}
    /\ spc \in [Spinners -> {"out", "loop", "wait", "yield", "inline", "exit"}]
    /\ hpc \in [Callbacks -> {"none", "chosen", "queued", "take", "body", "suspended", "broken"}]
    /\ captured \in [Callbacks -> BOOLEAN]
    /\ runs \in [Callbacks -> AllThreads \cup {NoThread}]
    /\ poolDown \in BOOLEAN
    /\ dpc \in [AllThreads -> {"none", "wait", "draining", "nodes", "destroy", "pool", "join"}]
    /\ deadline \in [AllThreads -> BOOLEAN] /\ join \in [AllThreads -> BOOLEAN]
    /\ calls \in Nat /\ spins \in Nat

(* Nothing is destroyed under a spinner: neither the guards it may hold in *)
(* its wait set nor the pool that takes the handlers it has chosen, and    *)
(* shutdown() never leaves one behind that blocks on them.                 *)
NothingGoesUnderSpinner == \A s \in Spinners :
    /\ spc[s] = "wait" => guard
    /\ spc[s] \in {"wait", "yield"} => ~poolDown

(* Once shutdown() has got past its waits, no callback is in flight except *)
(* those of threads that are themselves committed to shutting down.        *)
NoCallbackAfterShutdown ==
    ~guard => \A c \in Callbacks :
        owner[c] # NoThread => pc[owner[c]] # "free" \/ committed[owner[c]]

(* Every call of shutdown() returns.                                       *)
ShutdownReturns == \A t \in AllThreads : dpc[t] # "none" ~> dpc[t] = "none"

(* The spinning thread leaves spin() after a shutdown() that waits for it. *)
SpinnerLeaves == isShutdown ~> spinThread = NoThread

(* The handshake ends on both sides.                                       *)
ShutdownEnds == ShutdownReturns /\ SpinnerLeaves
=============================================================================
