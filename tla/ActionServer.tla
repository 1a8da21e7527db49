---------------------------- MODULE ActionServer ----------------------------
(* rclpy/action/server.py.  The executor runs ActionServer.execute() on    *)
(* the data taken from the wait set: a goal request, a cancel request, a   *)
(* result request and the expired goals, in that order, awaiting the       *)
(* user's callbacks in between.  In an exclusive group one such handler    *)
(* runs at a time, in a reentrant one they interleave.  Execute callbacks  *)
(* run as tasks of the executor, outside any group.  A goal handle and its *)
(* result future are named by the goal request that created them; the      *)
(* server's dictionaries map goal ids to them.                             *)
EXTENDS FiniteSets, Naturals, Sequences, SequencesExt

CONSTANTS Goals, Cancels, Asks,  \* goal, cancel and result requests of clients
          Ids,                   \* goal ids
          Handlers,              \* calls of ActionServer.execute()
          Ended,                 \* the events by which users end goals
          None, Gone             \* no value; an answer the client never got

ASSUME EndedAssumption == Ended \subseteq {"SUCCEED", "ABORT", "CANCELED"}
ASSUME RequestsAssumption ==
  /\ Goals \cap Cancels = {} /\ (Goals \cup Cancels) \cap Asks = {} /\ IsFiniteSet(Ids)
  /\ None \notin Goals \cup Cancels \cup Asks /\ {None, Gone} \cap {"accepted", "rejected"} = {}

VARIABLES
  group,     \* kind of the server's callback group
  gone,      \* requests whose client has gone when its answer is sent
  idOf,      \* the id a goal request carries
  targets,   \* ids a cancel request matches, or the id a result request names
  inbox,     \* requests that clients send and that were not yet taken
  answer,    \* the answer to each request
  known,     \* goals rcl tracks
  status,    \* state of each goal in rcl
  alive,     \* ServerGoalHandle._goal_handle is not None
  handleOf,  \* _goal_handles
  futureOf,  \* _result_futures
  result,    \* state of the result future created with a goal
  awaits,    \* the future a result request has its callback on
  ex,        \* progress of ServerGoalHandle.execute() and of its task
  handler,   \* the calls of ActionServer.execute()
  lost       \* requests and expired goals that went down with a handler

inputs == <<group, gone, idOf, targets>>
goalVars == <<known, status, alive>>
dictVars == <<handleOf, futureOf>>
vars == <<inputs, inbox, answer, goalVars, dictVars, result, awaits, ex, handler, lost>>

Requests == Goals \cup Cancels \cup Asks
Active == {"accepted", "executing", "canceling"}
Terminal == {"succeeded", "aborted", "canceled"}

Idle == [pc |-> "idle", goal |-> None, cancel |-> None, ask |-> None,
         expired |-> {}, list |-> <<>>, i |-> 1, object |-> None]

Init ==
  /\ group \in {"exclusive", "reentrant"}
  /\ gone \in SUBSET Requests
  /\ idOf \in [Goals -> Ids]
  /\ targets \in [Cancels \cup Asks -> SUBSET Ids \ {{}}]
  /\ \A q \in Asks : Cardinality(targets[q]) = 1
  /\ inbox \in SUBSET Requests
  /\ answer = [r \in Requests |-> None]
  /\ known = {}
  /\ status = [g \in Goals |-> "none"]
  /\ alive = [g \in Goals |-> FALSE]
  /\ handleOf = [i \in Ids |-> None]
  /\ futureOf = [i \in Ids |-> None]
  /\ result = [g \in Goals |-> "none"]
  /\ awaits = [q \in Asks |-> None]
  /\ ex = [g \in Goals |-> "none"]
  /\ handler = [h \in Handlers |-> Idle]
  /\ lost = {}

TheIdOf(q) == CHOOSE i \in Ids : targets[q] = {i}
Tracked == {i \in Ids : handleOf[i] # None}
Exists(i) == \E g \in known : idOf[g] = i

(***************************************************************************)
(* The goal state machine of rcl, behind ServerGoalHandle._update_state.   *)
(***************************************************************************)
Legal == [EXECUTE |-> {"accepted"}, CANCEL_GOAL |-> {"accepted", "executing"},
          SUCCEED |-> {"executing", "canceling"}, ABORT |-> {"executing", "canceling"},
          CANCELED |-> {"canceling"}]
Becomes == [EXECUTE |-> "executing", CANCEL_GOAL |-> "canceling",
            SUCCEED |-> "succeeded", ABORT |-> "aborted", CANCELED |-> "canceled"]

Raises(g, event) == alive[g] /\ status[g] \notin Legal[event]
UpdateState(g, event) ==
  status' = IF alive[g] /\ ~Raises(g, event)
            THEN [status EXCEPT ![g] = Becomes[event]] ELSE status

StatusOf(g) == IF alive[g] THEN status[g] ELSE "unknown"
IsActive(g) == alive[g] /\ status[g] \in Active

(***************************************************************************)
(* Handlers.  A handler that finished a part goes on with the next one; an *)
(* exception ends it with the parts it still had.                          *)
(***************************************************************************)
\* mutant of PartDone: `elif` between the parts of a handler
PartDoneOnce(b) ==
  IF b.pc = "idle"
  THEN [b EXCEPT !.pc = IF b.goal # None THEN "goal" ELSE IF b.cancel # None THEN "cancel"
                        ELSE IF b.ask # None THEN "ask" ELSE "expire"]
  ELSE IF b.expired # {} /\ b.goal = None /\ b.cancel = None /\ b.ask = None
  THEN [b EXCEPT !.pc = "expire"]
  ELSE Idle

PartDone(b) ==
  [b EXCEPT !.list = <<>>, !.i = 1,
     !.pc = IF b.goal # None THEN "goal" ELSE IF b.cancel # None THEN "cancel"
            ELSE IF b.ask # None THEN "ask" ELSE IF b.expired # {} THEN "expire" ELSE "idle"]

At(h, pc) == handler[h].pc = pc
Goto(h, pc) == handler' = [handler EXCEPT ![h].pc = pc]
GoalDone(h) == handler' = [handler EXCEPT ![h] = PartDone([@ EXCEPT !.goal = None])]
CancelDone(h) == handler' = [handler EXCEPT ![h] = PartDone([@ EXCEPT !.cancel = None])]
AskDone(h) == handler' = [handler EXCEPT ![h] = PartDone([@ EXCEPT !.ask = None])]

Fails(h) ==
  /\ handler' = [handler EXCEPT ![h] = Idle]
  /\ lost' = lost \cup ({handler[h].cancel, handler[h].ask} \ {None}) \cup handler[h].expired

\* Sending the answer raises RCLError if the client has gone.
Answers(r, value) == answer' = [answer EXCEPT ![r] = IF r \in gone THEN Gone ELSE value]

\* take_data: whatever is ready, and at most len(_goal_handles) expired goals.
\* Calls are anonymous: one idle handler stands for all of them.
Free == {h \in Handlers : At(h, "idle")}
MayTake(h) ==
  /\ h \in Free /\ h = CHOOSE k \in Free : TRUE
  /\ group = "reentrant" \/ Free = Handlers

\* A client asks for the result of an id that was accepted.
AskedFor(q) == \E g \in Goals : answer[g] = "accepted" /\ targets[q] = {idOf[g]}

Taken(g, c, q, X) == [Idle EXCEPT !.goal = g, !.cancel = c, !.ask = q, !.expired = X]

TakeData(h) ==
  /\ MayTake(h)
  /\ \E g \in (inbox \cap Goals) \cup {None}, c \in (inbox \cap Cancels) \cup {None},
        q \in {a \in inbox \cap Asks : AskedFor(a)} \cup {None},
        X \in SUBSET {x \in known : status[x] \in Terminal} :
       /\ <<g, c, q, X>> # <<None, None, None, {}>>
       /\ Cardinality(X) <= Cardinality(Tracked)
       /\ inbox' = inbox \ {g, c, q}
       /\ known' = known \ X
       /\ handler' = [handler EXCEPT ![h] = PartDone(Taken(g, c, q, X))]
  /\ UNCHANGED <<inputs, answer, status, alive, dictVars, result, awaits, ex, lost>>

(***************************************************************************)
(* _execute_goal_request.                                                  *)
(***************************************************************************)
GoalChecks(h) ==
  /\ At(h, "goal")
  /\ Goto(h, IF Exists(idOf[handler[h].goal]) THEN "rejecting" ELSE "deciding")
  /\ UNCHANGED <<inputs, inbox, answer, goalVars, dictVars, result, awaits, ex, lost>>

\* The user's goal callback rejects the goal; or it accepts it, and rcl may
\* have the id by now, which raises RuntimeError.
GoalRejects(h) ==
  /\ At(h, "deciding")
  /\ Goto(h, "rejecting")
  /\ UNCHANGED <<inputs, inbox, answer, goalVars, dictVars, result, awaits, ex, lost>>

\* mutant of GoalAccepts: `accepted` is left TRUE by the except clause
GoalAcceptsAnyway(h) ==
  LET g == handler[h].goal IN
  /\ At(h, "deciding")
  /\ IF Exists(idOf[g])
     THEN Goto(h, "accepting") /\ UNCHANGED goalVars
     ELSE /\ known' = known \cup {g}
          /\ status' = [status EXCEPT ![g] = "accepted"]
          /\ alive' = [alive EXCEPT ![g] = TRUE]
          /\ Goto(h, "storing")
  /\ UNCHANGED <<inputs, inbox, answer, dictVars, result, awaits, ex, lost>>

GoalAccepts(h) ==
  LET g == handler[h].goal IN
  /\ At(h, "deciding")
  /\ IF Exists(idOf[g])
     THEN Goto(h, "rejecting") /\ UNCHANGED goalVars
     ELSE /\ known' = known \cup {g}
          /\ status' = [status EXCEPT ![g] = "accepted"]
          /\ alive' = [alive EXCEPT ![g] = TRUE]
          /\ Goto(h, "storing")
  /\ UNCHANGED <<inputs, inbox, answer, dictVars, result, awaits, ex, lost>>

GoalStores(h) ==
  LET g == handler[h].goal IN
  /\ At(h, "storing")
  /\ handleOf' = [handleOf EXCEPT ![idOf[g]] = g]
  /\ futureOf' = [futureOf EXCEPT ![idOf[g]] = g]
  /\ result' = [result EXCEPT ![g] = "pending"]
  /\ Goto(h, "accepting")
  /\ UNCHANGED <<inputs, inbox, answer, goalVars, awaits, ex, lost>>

\* The response may fail with RCLError: the handler logs it and returns, so
\* that an accepted goal is never handed to the user.
GoalResponds(h) ==
  LET g == handler[h].goal IN
  \/ /\ At(h, "rejecting")
     /\ Answers(g, "rejected")
     /\ GoalDone(h)
     /\ UNCHANGED <<inputs, inbox, goalVars, dictVars, result, awaits, ex, lost>>
  \/ /\ At(h, "accepting")
     /\ Answers(g, "accepted")
     /\ IF g \in gone THEN GoalDone(h) ELSE Goto(h, "accepted")
     /\ UNCHANGED <<inputs, inbox, goalVars, dictVars, result, awaits, ex, lost>>

\* The handle_accepted callback executes the goal, or keeps it for later.
HandleAccepted(h) ==
  LET g == handler[h].goal IN
  /\ At(h, "accepted")
  /\ \/ ex' = [ex EXCEPT ![g] = "called"] /\ Goto(h, "executing")
     \/ ex' = [ex EXCEPT ![g] = "deferred"] /\ GoalDone(h)
  /\ UNCHANGED <<inputs, inbox, answer, goalVars, dictVars, result, awaits, lost>>

HandlerExecuted(h) ==
  LET g == handler[h].goal IN
  /\ At(h, "executing")
  /\ ex[g] \notin {"called", "tested"}
  /\ IF ex[g] = "raised" THEN Fails(h) ELSE GoalDone(h) /\ UNCHANGED lost
  /\ UNCHANGED <<inputs, inbox, answer, goalVars, dictVars, result, awaits, ex>>

(***************************************************************************)
(* ServerGoalHandle.execute() and the task _execute_goal.                  *)
(***************************************************************************)
ExGoto(g, pc) == ex' = [ex EXCEPT ![g] = pc]

DeferredExecute(g) ==
  /\ ex[g] = "deferred"
  /\ ExGoto(g, "called")
  /\ UNCHANGED <<inputs, inbox, answer, goalVars, dictVars, result, awaits, handler, lost>>

\* is_cancel_requested, and the test of executing() for a goal that executes.
AfterTest(g) ==
  IF StatusOf(g) \in {"canceling", "executing", "unknown"} THEN "callback" ELSE "tested"

ExecuteTests(g) ==
  /\ ex[g] = "called"
  /\ ExGoto(g, AfterTest(g))
  /\ UNCHANGED <<inputs, inbox, answer, goalVars, dictVars, result, awaits, handler, lost>>

ExecuteUpdates(g) ==
  /\ ex[g] = "tested"
  /\ UpdateState(g, "EXECUTE")
  /\ ExGoto(g, IF Raises(g, "EXECUTE") THEN "raised" ELSE "callback")
  /\ UNCHANGED <<inputs, inbox, answer, known, alive, dictVars, result, awaits, handler, lost>>

\* succeed(), abort() and canceled(), by the execute callback or by whoever
\* else was given the handle; with a response they set the result as well.
HasHandle(g) == ex[g] \notin {"none", "called", "tested"}

SetResult(g, s) ==
  LET f == futureOf[idOf[g]] IN
  result' = IF f = None THEN result ELSE [result EXCEPT ![f] = s]

UserUpdates(g) ==
  /\ HasHandle(g)
  /\ \E event \in Ended :
       /\ ~Raises(g, event)
       /\ UpdateState(g, event)
       /\ \/ UNCHANGED result
          \/ SetResult(g, IF alive[g] THEN Becomes[event] ELSE "unknown")
  /\ UNCHANGED <<inputs, inbox, answer, known, alive, dictVars, awaits, ex, handler, lost>>

\* mutant of CallbackReturns: the result of a goal that the user has ended is
\* left to the user
CallbackReturnsDone(g) ==
  /\ ex[g] = "callback"
  /\ ExGoto(g, IF IsActive(g) THEN "aborting" ELSE "done")
  /\ UNCHANGED <<inputs, inbox, answer, goalVars, dictVars, result, awaits, handler, lost>>

\* The callback returns or raises; its exception is logged.
CallbackReturns(g) ==
  /\ ex[g] = "callback"
  /\ ExGoto(g, IF IsActive(g) THEN "aborting" ELSE "setting")
  /\ UNCHANGED <<inputs, inbox, answer, goalVars, dictVars, result, awaits, handler, lost>>

TaskAborts(g) ==
  /\ ex[g] = "aborting"
  /\ UpdateState(g, "ABORT")
  /\ ExGoto(g, IF Raises(g, "ABORT") THEN "failed" ELSE "setting")
  /\ UNCHANGED <<inputs, inbox, answer, known, alive, dictVars, result, awaits, handler, lost>>

TaskSetsResult(g) ==
  /\ ex[g] = "setting"
  /\ SetResult(g, StatusOf(g))
  /\ ExGoto(g, IF futureOf[idOf[g]] = None THEN "failed" ELSE "done")
  /\ UNCHANGED <<inputs, inbox, answer, goalVars, dictVars, awaits, handler, lost>>

(***************************************************************************)
(* _execute_cancel_request: it walks the list by position while it removes *)
(* from it, and awaits the cancel callback in between.                     *)
(***************************************************************************)
CancelLists(h) ==
  LET c == handler[h].cancel
      hit == {g \in known : idOf[g] \in targets[c] /\ status[g] \in Legal["CANCEL_GOAL"]}
  IN
  /\ At(h, "cancel")
  /\ \E l \in SetToSeqs({idOf[g] : g \in hit}) :
       handler' = [handler EXCEPT ![h].list = l, ![h].pc = "asking"]
  /\ UNCHANGED <<inputs, inbox, answer, goalVars, dictVars, result, awaits, ex, lost>>

Current(h) == handler[h].list[handler[h].i]
MoreGoals(h) == handler[h].i <= Len(handler[h].list)
Keeps(b) == [b EXCEPT !.pc = "asking", !.object = None, !.i = @ + 1]
\* mutant of Drops: a goal that is not cancelled stays in the response
DropsNothing(b) == Keeps(b)

Drops(b) ==
  [b EXCEPT !.pc = "asking", !.object = None, !.list = RemoveAt(@, b.i), !.i = @ + 1]

\* A goal without a handle is removed; the others are put to the callback.
\* The handle is looked up here and used after the await.
CancelAsks(h) ==
  /\ At(h, "asking")
  /\ MoreGoals(h)
  /\ handler' = [handler EXCEPT ![h] =
       IF handleOf[Current(h)] = None THEN Drops(@)
       ELSE [@ EXCEPT !.pc = "asked", !.object = handleOf[Current(h)]]]
  /\ UNCHANGED <<inputs, inbox, answer, goalVars, dictVars, result, awaits, ex, lost>>

CancelAccepted(h) ==
  LET g == handler[h].object IN
  /\ At(h, "asked")
  /\ UpdateState(g, "CANCEL_GOAL")
  /\ handler' = [handler EXCEPT ![h] =
       IF Raises(g, "CANCEL_GOAL") THEN Drops(@) ELSE Keeps(@)]
  /\ UNCHANGED <<inputs, inbox, answer, known, alive, dictVars, result, awaits, ex, lost>>

CancelRefused(h) ==
  /\ At(h, "asked")
  /\ handler' = [handler EXCEPT ![h] = Drops(@)]
  /\ UNCHANGED <<inputs, inbox, answer, goalVars, dictVars, result, awaits, ex, lost>>

CancelResponds(h) ==
  /\ At(h, "asking")
  /\ ~MoreGoals(h)
  /\ Answers(handler[h].cancel, ToSet(handler[h].list))
  /\ CancelDone(h)
  /\ UNCHANGED <<inputs, inbox, goalVars, dictVars, result, awaits, ex, lost>>

(***************************************************************************)
(* _execute_get_result_request and _send_result_response.                  *)
(***************************************************************************)
\* An unknown id is answered at once, outside any try block.
AskTests(h) ==
  LET q == handler[h].ask IN
  /\ At(h, "ask")
  /\ IF handleOf[TheIdOf(q)] # None
     THEN Goto(h, "registering") /\ UNCHANGED <<answer, lost>>
     ELSE /\ Answers(q, "unknown")
          /\ IF q \in gone THEN Fails(h) ELSE AskDone(h) /\ UNCHANGED lost
  /\ UNCHANGED <<inputs, inbox, goalVars, dictVars, result, awaits, ex>>

AskRegisters(h) ==
  LET q == handler[h].ask
      f == futureOf[TheIdOf(q)]
  IN
  /\ At(h, "registering")
  /\ awaits' = [awaits EXCEPT ![q] = f]
  /\ IF f = None THEN Fails(h) ELSE AskDone(h) /\ UNCHANGED lost
  /\ UNCHANGED <<inputs, inbox, answer, goalVars, dictVars, result, ex>>

SendResult(q) ==
  /\ awaits[q] # None
  /\ result[awaits[q]] # "pending"
  /\ answer[q] = None
  /\ Answers(q, result[awaits[q]])
  /\ UNCHANGED <<inputs, inbox, goalVars, dictVars, result, awaits, ex, handler, lost>>

(***************************************************************************)
(* _execute_expire_goals: by id, one goal after the other.                 *)
(***************************************************************************)
ExpireDestroys(h) ==
  /\ At(h, "expire")
  /\ \E x \in handler[h].expired :
       LET g == handleOf[idOf[x]] IN
       IF g = None
       THEN Fails(h) /\ UNCHANGED alive
       ELSE /\ alive' = [alive EXCEPT ![g] = FALSE]
            /\ handler' = [handler EXCEPT ![h].pc = "forget", ![h].object = x]
            /\ UNCHANGED lost
  /\ UNCHANGED <<inputs, inbox, answer, known, status, dictVars, result, awaits, ex>>

\* mutant of Forget: the handle stays
ForgetHandle(i) ==
  handleOf' = [handleOf EXCEPT ![i] = None] /\ UNCHANGED futureOf

Forget(i) ==
  /\ handleOf' = [handleOf EXCEPT ![i] = None]
  /\ futureOf' = [futureOf EXCEPT ![i] = None]

ExpireForgets(h) ==
  LET x == handler[h].object IN
  /\ At(h, "forget")
  /\ Forget(idOf[x])
  /\ handler' = [handler EXCEPT ![h] =
       PartDone([handler[h] EXCEPT !.object = None, !.expired = @ \ {x}])]
  /\ UNCHANGED <<inputs, inbox, answer, goalVars, result, awaits, ex, lost>>

-----------------------------------------------------------------------------
Handle(h) ==
  \/ GoalChecks(h) \/ GoalRejects(h) \/ GoalAccepts(h) \/ GoalStores(h) \/ GoalResponds(h)
  \/ HandleAccepted(h) \/ HandlerExecuted(h)
  \/ CancelLists(h) \/ CancelAsks(h) \/ CancelAccepted(h) \/ CancelRefused(h) \/ CancelResponds(h)
  \/ AskTests(h) \/ AskRegisters(h)
  \/ ExpireDestroys(h) \/ ExpireForgets(h)

Run(g) ==
  ExecuteTests(g) \/ ExecuteUpdates(g) \/ CallbackReturns(g) \/ TaskAborts(g) \/ TaskSetsResult(g)

Next ==
  \/ \E h \in Handlers : TakeData(h) \/ Handle(h)
  \/ \E g \in Goals : Run(g) \/ DeferredExecute(g) \/ UserUpdates(g)
  \/ \E q \in Asks : SendResult(q)

Spec == Init /\ [][Next]_vars

\* The executor keeps running what it has, user callbacks return; a goal may
\* stay deferred and the user need not end a goal.
Fairness ==
  /\ \A h \in Handlers : WF_vars(Handle(h))
  /\ \A g \in Goals : WF_vars(Run(g))
  /\ \A q \in Asks : WF_vars(SendResult(q))

FairSpec == Spec /\ Fairness

-----------------------------------------------------------------------------
Reused(i) == \E g, k \in Goals :
  g # k /\ idOf[g] = i /\ idOf[k] = i /\ status[g] # "none" /\ status[k] # "none"

\* What a handler may lose to an exception: in an exclusive group, while no id
\* is reused, there is no KeyError and no illegal transition, only a client that
\* is gone when the result of an unknown goal is sent can make one fail. A goal
\* with the id of one that has just expired loses its handle to the expiry of
\* the other, and its own expiry raises KeyError even in an exclusive group.
Excused ==
  IF group = "exclusive" /\ gone \cap Asks = {} /\ \A i \in Ids : ~Reused(i) THEN {} ELSE lost

\* _goal_handles and _result_futures agree with each other and with rcl: a
\* goal rcl tracks has its handle and its future once it is stored, and a
\* goal rcl has expired is in the hands of the handler that will delete it,
\* or went down with that handler.
DictionariesFollowRcl ==
  \A i \in {j \in Ids : ~Reused(j)} :
    /\ handleOf[i] = futureOf[i]
    /\ handleOf[i] # None =>
         \/ handleOf[i] \in known \cup Excused
         \/ \E h \in Handlers : handleOf[i] \in handler[h].expired
    /\ \A g \in {k \in known : idOf[k] = i} :
         handleOf[i] = g \/ \E h \in Handlers : At(h, "storing") /\ handler[h].goal = g

\* A client is told "accepted" only of a goal that got a handle, and
\* "rejected" only of one that did not, whatever another request with the
\* same id does while the goal callback is awaited. The result future of a
\* goal is set once the goal has ended, with the state it ended in; or with
\* "unknown" when its handle is gone.
AnswersMatchGoals ==
  /\ \A g \in Goals : /\ answer[g] = "accepted" => status[g] # "none"
                      /\ answer[g] = "rejected" => status[g] = "none"
  /\ \A g \in Goals : ~Reused(idOf[g]) /\ result[g] \notin {"none", "pending"} =>
       /\ status[g] \in Terminal
       /\ result[g] = status[g] \/ (result[g] = "unknown" /\ ~alive[g])

CancelIsHonest(c) ==
  answer[c] \notin {None, Gone} =>
    \A i \in answer[c] : \E g \in Goals :
       idOf[g] = i /\ status[g] \in {"canceling"} \cup Terminal

\* The answer to a request to cancel one goal names it only if the goal is
\* being cancelled, or has ended since.
SingleCancelIsHonest == \A c \in Cancels : Cardinality(targets[c]) = 1 => CancelIsHonest(c)

\* The same for a request that matches several goals; the loop over
\* goals_canceling breaks it.
CancelsAreHonest == \A c \in Cancels : CancelIsHonest(c)

\* A handler that took a goal or cancel request answers it, unless an
\* exception of an earlier part of the same handler ends it; that takes a
\* reentrant group or a client that is gone.
TakenIsAnswered ==
  \A r \in Goals \cup Cancels :
    (\E h \in Handlers : r \in {handler[h].goal, handler[h].cancel})
      ~> (answer[r] # None \/ r \in Excused)

\* A result request that waits for a goal whose execution began is answered,
\* unless execute() or the task of the goal raised.
AwaitsOneIn(q, steps) == \E g \in Goals : awaits[q] = g /\ ex[g] \in steps

ResultIsAnswered ==
  \A q \in Asks :
    AwaitsOneIn(q, {"called", "tested", "callback", "aborting", "setting", "done"})
      ~> (answer[q] # None \/ AwaitsOneIn(q, {"raised", "failed"}))
=============================================================================
