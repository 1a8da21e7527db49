---------------------------- MODULE ServiceClient ----------------------------
(* rclpy/client.py: call() and call_async() of user threads, and the       *)
(* handler the executor makes for a response.  A request stands for its    *)
(* sequence number, its future and the thread that sent it.                *)
EXTENDS FiniteSets, Naturals

CONSTANTS Requests,   \* requests that are sent
          Calls,      \* those sent with call(); the others with call_async()
          Workers,    \* executor threads that handle responses
          None

VARIABLES
  pc,         \* progress of the thread of a request
  lock,       \* the holder of Client._lock between two steps
  responses,  \* responses the middleware holds
  answered,   \* requests the server has answered
  pending,    \* _pending_requests
  future,     \* state of the future of each request
  bound,      \* futures that know their executor
  callbacks,  \* done callbacks registered with a future
  tasks,      \* done callbacks scheduled on the executor
  event,      \* requests whose `event` is set
  worker      \* the handler a worker runs

clientVars == <<pc, lock, responses, answered, pending, future, bound, callbacks, tasks, event, worker>>

Free == [pc |-> "idle", request |-> None]

Init ==
  /\ pc = [r \in Requests |-> "new"]
  /\ lock = None
  /\ responses = {}
  /\ answered = {}
  /\ pending = {}
  /\ future = [r \in Requests |-> "none"]
  /\ bound = {}
  /\ callbacks = [r \in Requests |-> {}]
  /\ tasks = {}
  /\ event = {}
  /\ worker = [w \in Workers |-> Free]

Goto(r, l) == pc' = [pc EXCEPT ![r] = l]

(***************************************************************************)
(* The thread of a request.                                                *)
(***************************************************************************)
\* mutant of Sends: the request is sent outside the lock
SendsUnlocked(r) ==
  /\ pc[r] = "new"
  /\ Goto(r, "sending")
  /\ UNCHANGED <<lock, responses, answered, pending, future, bound, callbacks, tasks, event, worker>>

Sends(r) ==
  /\ pc[r] = "new" /\ lock = None
  /\ lock' = r
  /\ Goto(r, "sending")
  /\ UNCHANGED <<responses, answered, pending, future, bound, callbacks, tasks, event, worker>>

Records(r) ==
  /\ pc[r] = "sending"
  /\ lock' = None
  /\ pending' = pending \cup {r}
  /\ future' = [future EXCEPT ![r] = "pending"]
  /\ callbacks' = [callbacks EXCEPT ![r] = {"remove"}]
  /\ Goto(r, IF r \in Calls THEN "sent" ELSE "async")
  /\ UNCHANGED <<responses, answered, bound, tasks, event, worker>>

\* add_done_callback(unblock): a future that is done by now schedules it.
AddsUnblock(r) ==
  /\ pc[r] = "sent"
  /\ Goto(r, "testing")
  /\ IF future[r] = "pending"
     THEN callbacks' = [callbacks EXCEPT ![r] = @ \cup {"unblock"}] /\ UNCHANGED tasks
     ELSE tasks' = tasks \cup {<<r, "unblock">>} /\ UNCHANGED callbacks
  /\ UNCHANGED <<lock, responses, answered, pending, future, bound, event, worker>>

TestsDone(r) ==
  /\ pc[r] = "testing"
  /\ Goto(r, IF future[r] = "finished" THEN "returned" ELSE "waiting")
  /\ UNCHANGED <<lock, responses, answered, pending, future, bound, callbacks, tasks, event, worker>>

Wakes(r) ==
  /\ pc[r] = "waiting" /\ r \in event
  /\ Goto(r, "returned")
  /\ UNCHANGED <<lock, responses, answered, pending, future, bound, callbacks, tasks, event, worker>>

TimesOut(r) ==
  /\ pc[r] = "waiting" /\ r \notin event
  /\ Goto(r, "expired")
  /\ UNCHANGED <<lock, responses, answered, pending, future, bound, callbacks, tasks, event, worker>>

\* remove_pending_request() by call() after its timeout, or by the user.
Removes(r) ==
  /\ pc[r] \in {"expired", "async"} /\ lock = None
  /\ pending' = pending \ {r}
  /\ Goto(r, IF pc[r] = "expired" THEN "timeout" ELSE "removed")
  /\ UNCHANGED <<lock, responses, answered, future, bound, callbacks, tasks, event, worker>>

\* Future.cancel() by the user; the callbacks of a future that no executor
\* has touched run at once.
Cancels(r) ==
  /\ pc[r] = "async"
  /\ future[r] = "pending"
  /\ future' = [future EXCEPT ![r] = "cancelled"]
  /\ callbacks' = [callbacks EXCEPT ![r] = {}]
  /\ IF r \in bound
     THEN tasks' = tasks \cup ({r} \X callbacks[r]) /\ Goto(r, "removed")
     ELSE Goto(r, "cancelling") /\ UNCHANGED tasks
  /\ UNCHANGED <<lock, responses, answered, pending, bound, event, worker>>

CancelRemoves(r) ==
  /\ pc[r] = "cancelling" /\ lock = None
  /\ pending' = pending \ {r}
  /\ Goto(r, "removed")
  /\ UNCHANGED <<lock, responses, answered, future, bound, callbacks, tasks, event, worker>>

(***************************************************************************)
(* The executor: _take_client and its handler, and the tasks it scheduled. *)
(***************************************************************************)
Respond(r) ==
  /\ pc[r] # "new" /\ r \notin answered
  /\ answered' = answered \cup {r}
  /\ responses' = responses \cup {r}
  /\ UNCHANGED <<pc, lock, pending, future, bound, callbacks, tasks, event, worker>>

WorkerGoto(w, l, r) == worker' = [worker EXCEPT ![w] = [pc |-> l, request |-> r]]

TakesResponse(w) ==
  /\ worker[w].pc = "idle"
  /\ \E r \in responses :
       /\ responses' = responses \ {r}
       /\ WorkerGoto(w, "looking", r)
  /\ UNCHANGED <<pc, lock, answered, pending, future, bound, callbacks, tasks, event>>

\* get_pending_request(): KeyError means the request was cancelled.
LooksUp(w) ==
  /\ worker[w].pc = "looking" /\ lock = None
  /\ IF worker[w].request \in pending
     THEN WorkerGoto(w, "binding", worker[w].request)
     ELSE WorkerGoto(w, "idle", None)
  /\ UNCHANGED <<pc, lock, responses, answered, pending, future, bound, callbacks, tasks, event>>

Binds(w) ==
  /\ worker[w].pc = "binding"
  /\ bound' = bound \cup {worker[w].request}
  /\ WorkerGoto(w, "setting", worker[w].request)
  /\ UNCHANGED <<pc, lock, responses, answered, pending, future, callbacks, tasks, event>>

SetsResult(w) ==
  /\ worker[w].pc = "setting"
  /\ future' = [future EXCEPT ![worker[w].request] = "finished"]
  /\ WorkerGoto(w, "scheduling", worker[w].request)
  /\ UNCHANGED <<pc, lock, responses, answered, pending, bound, callbacks, tasks, event>>

Schedules(w) ==
  LET r == worker[w].request IN
  /\ worker[w].pc = "scheduling"
  /\ tasks' = tasks \cup ({r} \X callbacks[r])
  /\ callbacks' = [callbacks EXCEPT ![r] = {}]
  /\ WorkerGoto(w, "idle", None)
  /\ UNCHANGED <<pc, lock, responses, answered, pending, future, bound, event>>

RunsRemove(w, r) ==
  /\ worker[w].pc = "idle" /\ lock = None
  /\ <<r, "remove">> \in tasks
  /\ tasks' = tasks \ {<<r, "remove">>}
  /\ pending' = pending \ {r}
  /\ UNCHANGED <<pc, lock, responses, answered, future, bound, callbacks, event, worker>>

RunsUnblock(w, r) ==
  /\ worker[w].pc = "idle"
  /\ <<r, "unblock">> \in tasks
  /\ tasks' = tasks \ {<<r, "unblock">>}
  /\ event' = event \cup {r}
  /\ UNCHANGED <<pc, lock, responses, answered, pending, future, bound, callbacks, worker>>

-----------------------------------------------------------------------------
CallStep(r) == Sends(r) \/ Records(r) \/ AddsUnblock(r) \/ TestsDone(r) \/ Wakes(r)
GivesUp(r) == Removes(r) \/ Cancels(r) \/ CancelRemoves(r)
Work(w) ==
  \/ TakesResponse(w) \/ LooksUp(w) \/ Binds(w) \/ SetsResult(w) \/ Schedules(w)
  \/ \E r \in Requests : RunsRemove(w, r) \/ RunsUnblock(w, r)

Next ==
  \/ \E r \in Requests : CallStep(r) \/ GivesUp(r) \/ TimesOut(r) \/ Respond(r)
  \/ \E w \in Workers : Work(w)

Spec == Init /\ [][Next]_clientVars

\* The executor spins and threads run; servers need not answer.
Fairness ==
  /\ \A r \in Requests : WF_clientVars(CallStep(r)) /\ WF_clientVars(CancelRemoves(r))
  /\ \A w \in Workers : WF_clientVars(Work(w))

-----------------------------------------------------------------------------
\* A request whose future is done or that its caller has given up is in
\* _pending_requests only until a removal that is under way runs.
PendingIsLive ==
  \A r \in pending :
    /\ pc[r] \notin {"timeout"}
    /\ future[r] # "pending" =>
         \/ <<r, "remove">> \in tasks
         \/ pc[r] = "cancelling"
         \/ "remove" \in callbacks[r] /\ \E w \in Workers : worker[w].request = r

\* A response is dropped only if its request was given up: the future of any
\* other request is settled, and its call() returns, even if the response
\* arrives before call_async() has recorded the request; and no request that
\* is over stays in the table.
AnswerIsDelivered ==
  /\ []PendingIsLive
  /\ \A r \in Requests :
       (r \in responses) ~>
         \/ r \in Calls /\ pc[r] \in {"returned", "expired", "timeout"}
         \/ r \notin Calls /\ (future[r] # "pending" \/ pc[r] = "removed")
=============================================================================
