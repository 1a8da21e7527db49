----------------------------- MODULE ActionClient -----------------------------
(* The client side of an action: a thread of the user that sends goals and   *)
(* asks for their cancellation and result, blocking or not, and cancels the  *)
(* futures it got; and the executor, which takes an answer of each kind, a   *)
(* feedback and a status message at a time and executes them in steps        *)
(* between which the user and other workers run. Each goal is sent,          *)
(* cancelled and queried at most once, so that the sequence number of a      *)
(* request is its kind and its goal.                                         *)
EXTENDS Naturals, FiniteSets

CONSTANTS Goals, None
NoneAssumption == None \notin Goals

VARIABLES pending,   \* _pending_goal/_cancel/_result_requests: the goals of each kind
          idOf,      \* _goal_sequence_number_to_goal_id and its counterpart for results
          future,    \* of each kind and goal: "none", "pending", "done" or "cancelled"
          feedbackCallbacks, \* _feedback_callbacks
          filter,    \* goals in the content filter of the feedback subscription
          handles,   \* _goal_handles
          sending,   \* a goal whose request is out and whose feedback callback is not registered
          call,      \* the blocking call of the user: its stage and goal
          dropped,   \* goals whose handle the user let go
          removals,  \* done callbacks _remove_pending_*: scheduled, or about to be called
          data, found, \* what take_data returned and execute has before it; its first look-up
          server,    \* state of each goal at the server, which is external
          answers, feedback, statuses, \* what it sent: answers, feedback, the latest status message
          raised     \* the look-up that failed

vars == <<pending, idOf, future, feedbackCallbacks, filter, handles, sending, call, dropped,
          removals, data, found, server, answers, feedback, statuses, raised>>
user == <<sending, call, dropped>>
taken == <<data, found>>
network == <<server, answers, feedback, statuses>>

Kinds == {"goal", "cancel", "result"}
Terminal == {"succeeded", "rejected"}
NoCall == [stage |-> "none", goal |-> None]
Messages == Kinds \cup {"feedback"}
Order == <<"goal", "cancel", "result", "feedback">>
NoData == [goal |-> None, cancel |-> None, result |-> None, feedback |-> None, status |-> None]

-------------------------------------------------------------------------------
\* A request goes out under the lock that take_data needs, and is pending
\* before the lock is free.
Request(k, g) ==
    /\ future[k][g] = "none"
    /\ future' = [future EXCEPT ![k][g] = "pending"]
    /\ pending' = [pending EXCEPT ![k] = @ \cup {g}]
    /\ idOf' = [idOf EXCEPT ![k] = @ \cup (IF k = "cancel" THEN {} ELSE {g})]

\* Mutant: the goal id is kept.
RemovePendingKeepsId(k, g) ==
    /\ pending' = [pending EXCEPT ![k] = @ \ {g}]
    /\ IF k = "result" THEN feedbackCallbacks' = feedbackCallbacks \ {g} /\ filter' = filter \ {g}
       ELSE UNCHANGED <<feedbackCallbacks, filter>>
    /\ UNCHANGED idOf

\* Mutant: the feedback callback goes with the goal request already.
RemovePendingWithFeedback(k, g) ==
    /\ pending' = [pending EXCEPT ![k] = @ \ {g}]
    /\ idOf' = [idOf EXCEPT ![k] = @ \ {g}]
    /\ feedbackCallbacks' = feedbackCallbacks \ {g}
    /\ filter' = IF k = "result" THEN filter \ {g} ELSE filter

\* _remove_pending_request and its three callers: the entries of a future go;
\* with a result, the feedback callback and the goal in the filter too.
RemovePending(k, g) ==
    /\ pending' = [pending EXCEPT ![k] = @ \ {g}]
    /\ idOf' = [idOf EXCEPT ![k] = @ \ {g}]
    /\ IF k = "result" THEN feedbackCallbacks' = feedbackCallbacks \ {g} /\ filter' = filter \ {g}
       ELSE UNCHANGED <<feedbackCallbacks, filter>>

send_goal_async(g) ==
    /\ sending = None
    /\ Request("goal", g)
    /\ server' = [server EXCEPT ![g] = "requested"]
    /\ sending' = g
    /\ UNCHANGED <<feedbackCallbacks, filter, handles, dropped, removals, taken,
                   answers, feedback, statuses, raised>>

\* The feedback callback is registered after the lock was released.
RegisterFeedback ==
    /\ sending # None
    /\ feedbackCallbacks' = feedbackCallbacks \cup {sending}
    /\ sending' = None
    /\ UNCHANGED <<pending, idOf, future, filter, handles, call, dropped, removals, taken,
                   network, raised>>

\* The user has the goal handle once the future of the goal is done.
HasHandle(g) == future["goal"][g] = "done" /\ g \notin dropped

get_result_async(g) ==
    /\ HasHandle(g) /\ sending = None
    /\ Request("result", g)
    /\ UNCHANGED <<feedbackCallbacks, filter, handles, sending, dropped, removals, taken,
                   network, raised>>

\* cancel_goal_async: the goal leaves the filter before the answer is known.
cancel_goal_async(g) ==
    /\ HasHandle(g) /\ sending = None
    /\ Request("cancel", g)
    /\ filter' = filter \ {g}
    /\ UNCHANGED <<feedbackCallbacks, handles, sending, dropped, removals, taken, network, raised>>

\* send_goal, _get_result, _cancel_goal: the asynchronous call, then a wait for
\* its future; send_goal goes on with the result of the goal handle it got.
Blocking ==
    /\ call = NoCall
    /\ \E g \in Goals :
         \/ send_goal_async(g) /\ call' = [stage |-> "goal", goal |-> g]
         \/ get_result_async(g) /\ call' = [stage |-> "result", goal |-> g]
         \/ cancel_goal_async(g) /\ call' = [stage |-> "cancel", goal |-> g]

Asynchronous ==
    /\ call = NoCall
    /\ \E g \in Goals : send_goal_async(g) \/ get_result_async(g) \/ cancel_goal_async(g)
    /\ UNCHANGED call

Unblock ==
    LET g == call.goal
    IN  /\ call # NoCall /\ sending = None
        /\ future[call.stage][g] = "done"
        /\ IF call.stage = "goal"
           THEN get_result_async(g) /\ call' = [stage |-> "result", goal |-> g]
           ELSE /\ call' = NoCall
                /\ UNCHANGED <<pending, idOf, future, feedbackCallbacks, filter, handles, sending,
                               dropped, removals, taken, network, raised>>

\* The user drops its last reference to a goal handle.
Drop(g) ==
    /\ HasHandle(g) /\ call = NoCall /\ sending = None
    /\ dropped' = dropped \cup {g}
    /\ UNCHANGED <<pending, idOf, future, feedbackCallbacks, filter, handles, sending, call,
                   removals, taken, network, raised>>

\* The user, or a callback, cancels a pending future it has: Future.cancel. Its
\* done callback is called by this thread next, or scheduled in the executor
\* if the future has one.
CancelFuture(k, g) ==
    /\ future[k][g] = "pending" /\ sending # g
    /\ call # [stage |-> k, goal |-> g]
    /\ future' = [future EXCEPT ![k][g] = "cancelled"]
    /\ removals' = removals \cup {<<k, g>>}
    /\ UNCHANGED <<pending, idOf, feedbackCallbacks, filter, handles, user, taken, network, raised>>

DoneCallback == \E r \in removals :
    /\ RemovePending(r[1], r[2])
    /\ removals' = removals \ {r}
    /\ UNCHANGED <<future, handles, user, taken, network, raised>>

-------------------------------------------------------------------------------
\* take_data: one message of each kind that has any.
Waiting(k) == IF k = "feedback" THEN feedback ELSE {a[2] : a \in {b \in answers : b[1] = k}}

take_data ==
    /\ data = NoData
    /\ \E d \in [Messages -> Goals \cup {None}] :
         /\ \A k \in Messages : IF Waiting(k) = {} THEN d[k] = None ELSE d[k] \in Waiting(k)
         /\ data' = [k \in DOMAIN NoData |-> IF k = "status" THEN statuses ELSE d[k]]
         /\ answers' = answers \ {<<k, d[k]>> : k \in Kinds}
         /\ feedback' = feedback \ {d["feedback"]}
    /\ data' # NoData
    /\ statuses' = None
    /\ UNCHANGED <<pending, idOf, future, feedbackCallbacks, filter, handles, user, removals, found,
                   server, raised>>

\* The message execute is at: they are taken up kind by kind, the status last.
IsAt(k) == data[k] # None /\ \A i \in 1 .. 4 : data[Order[i]] = None \/ \E j \in 1 .. i : Order[j] = k

\* The first look-up: an accepted goal gets its handle; what is not known is
\* ignored.
LookUp == \E k \in Messages :
    LET g == data[k]
        known == CASE k = "goal" -> g \in idOf["goal"]
                   [] k = "feedback" -> g \in feedbackCallbacks
                   [] OTHER -> g \in pending[k]
    IN  /\ IsAt(k) /\ ~found
        /\ found' = known
        /\ data' = IF known THEN data ELSE [data EXCEPT ![k] = None]
        /\ IF known /\ k = "goal" /\ server[g] # "rejected"
           THEN handles' = handles \cup {g} /\ filter' = filter \cup {g}
           ELSE UNCHANGED <<handles, filter>>
        /\ UNCHANGED <<pending, idOf, future, feedbackCallbacks, user, removals, network, raised>>

\* The second look-up, in the map of futures: set_result, which schedules the
\* done callbacks that were not taken by a cancellation; or a KeyError, which
\* leaves spin(). For feedback, the user's callback runs.
Deliver == \E k \in Messages :
    LET g == data[k]
    IN  /\ IsAt(k) /\ found
        /\ found' = FALSE /\ data' = [data EXCEPT ![k] = None]
        /\ IF g \notin (IF k = "feedback" THEN feedbackCallbacks ELSE pending[k])
           THEN raised' = {<<k, g>>} /\ UNCHANGED <<future, removals>>
           ELSE /\ UNCHANGED raised
                /\ IF k = "feedback" THEN UNCHANGED <<future, removals>>
                   ELSE /\ future' = [future EXCEPT ![k][g] = "done"]
                        /\ removals' = IF future[k][g] = "pending" THEN removals \cup {<<k, g>>} ELSE removals
        /\ UNCHANGED <<pending, idOf, feedbackCallbacks, filter, handles, user, network>>

\* A status message: every goal handle it names follows, and leaves the table
\* when its goal is over or nobody holds it.
FollowStatus ==
    /\ IsAt("status")
    /\ LET named == handles \cap DOMAIN data.status
           held == named \ dropped
           over == {g \in held : data.status[g] = "succeeded"}
       IN  /\ handles' = handles \ (over \cup (named \ held))
           /\ filter' = filter \ over
    /\ data' = NoData
    /\ UNCHANGED <<pending, idOf, future, feedbackCallbacks, user, removals, found, network, raised>>

execute == LookUp \/ Deliver \/ FollowStatus

-------------------------------------------------------------------------------
\* The server, external: it answers, runs accepted goals, and reports.
Serve(g) ==
    \/ \E outcome \in {"executing", "rejected"} :
          /\ server[g] = "requested"
          /\ server' = [server EXCEPT ![g] = outcome]
          /\ answers' = answers \cup {<<"goal", g>>}
    \/ /\ server[g] = "executing"
       /\ server' = [server EXCEPT ![g] = "succeeded"]
       /\ UNCHANGED answers
Answer(k, g) ==
    /\ k # "goal" /\ future[k][g] \in {"pending", "cancelled"} /\ <<k, g>> \notin answers
    /\ data[k] # g
    /\ k = "result" => server[g] \in Terminal
    /\ answers' = answers \cup {<<k, g>>}
    /\ UNCHANGED server
Report ==
    \/ \E g \in Goals : server[g] = "executing" /\ g \notin feedback
                        /\ feedback' = feedback \cup {g} /\ UNCHANGED statuses
    \/ LET report == [g \in {h \in Goals : server[h] \in {"executing", "succeeded"}} |-> server[g]]
       IN  report \notin {statuses, <<>>} /\ statuses' = report /\ UNCHANGED feedback

ServerStep ==
    \/ (\E g \in Goals : Serve(g) \/ \E k \in Kinds : Answer(k, g)) /\ UNCHANGED <<feedback, statuses>>
    \/ Report /\ UNCHANGED <<server, answers>>
Server == ServerStep /\ UNCHANGED <<pending, idOf, future, feedbackCallbacks, filter, handles, user,
                                    removals, taken, raised>>

-------------------------------------------------------------------------------
Init ==
    /\ pending = [k \in Kinds |-> {}] /\ idOf = [k \in Kinds |-> {}]
    /\ future = [k \in Kinds |-> [g \in Goals |-> "none"]]
    /\ feedbackCallbacks = {} /\ filter = {} /\ handles = {}
    /\ sending = None /\ call = NoCall /\ dropped = {} /\ removals = {} /\ data = NoData /\ found = FALSE
    /\ server = [g \in Goals |-> "unknown"] /\ answers = {} /\ feedback = {} /\ statuses = None
    /\ raised = {}

UserStep == Blocking \/ Asynchronous \/ RegisterFeedback \/ Unblock
        \/ (\E g \in Goals : Drop(g)) \/ \E k \in Kinds, g \in Goals : CancelFuture(k, g)
Executor == take_data \/ execute \/ DoneCallback
\* A KeyError is the end of the behaviours looked at.
Next ==
    \/ raised = {} /\ UserStep
    \/ raised = {} /\ Executor
    \/ raised = {} /\ Server

Spec == Init /\ [][Next]_vars

-------------------------------------------------------------------------------
\* A request is pending exactly as long as its future is or its done callback
\* is still to run, whoever completes or cancels it; the two maps of a kind
\* have the same keys; and an answer is ignored, or its second look-up fails,
\* only if the user cancelled the future.
RequestsAndFuturesAgree ==
    /\ \A k \in Kinds : pending[k] = {g \in Goals : future[k][g] = "pending" \/ <<k, g>> \in removals}
    /\ \A k \in {"goal", "result"} : idOf[k] = pending[k]
    /\ \A k \in Kinds, g \in Goals :
         \/ <<k, g>> \in raised
         \/ IsAt(k) /\ data[k] = g /\ ~found /\ g \notin pending[k]
         => future[k][g] = "cancelled"

\* While a goal is executed, the user having its handle, its feedback callback
\* is registered and its feedback passes the filter, until the result was
\* received or no longer asked for, or a cancellation was requested.
FeedbackArrives == \A g \in Goals :
    /\ server[g] = "executing" /\ HasHandle(g) /\ sending # g
    /\ future["result"][g] \in {"none", "pending"} /\ future["cancel"][g] = "none"
    => g \in feedbackCallbacks \cap filter
===============================================================================
