-------------------------- MODULE ActionClient_proofs --------------------------
(***************************************************************************)
(* Proofs about the action client: the tables of requests against their    *)
(* futures, and the path of feedback, for any goals, whatever the user     *)
(* cancels between two steps of execute().                                 *)
(***************************************************************************)
EXTENDS ActionClient, TLAPS

Fields == Messages \cup {"status"}
Reports == UNION {[S -> {"executing", "succeeded"}] : S \in SUBSET Goals}

TypeOK ==
    /\ pending \in [Kinds -> SUBSET Goals] /\ idOf \in [Kinds -> SUBSET Goals]
    /\ future \in [Kinds -> [Goals -> {"none", "pending", "done", "cancelled"}]]
    /\ feedbackCallbacks \in SUBSET Goals /\ filter \in SUBSET Goals
    /\ sending \in Goals \cup {None}
    /\ removals \in SUBSET (Kinds \X Goals)
    /\ data \in [Fields -> Goals \cup {None} \cup Reports] /\ found \in BOOLEAN
    /\ \A k \in Messages : data[k] \in Goals \cup {None}
    /\ data["status"] \in Reports \cup {None} /\ statuses \in Reports \cup {None}
    /\ server \in [Goals -> {"unknown", "requested", "executing", "rejected", "succeeded"}]
    /\ answers \in SUBSET (Kinds \X Goals) /\ feedback \in SUBSET Goals

CallIsTyped == call = NoCall \/ call \in [stage : Kinds, goal : Goals]

(* The tables of requests.                                                 *)
TablesAgree ==
    /\ \A k \in Kinds : pending[k] = {g \in Goals : future[k][g] = "pending" \/ <<k, g>> \in removals}
    /\ \A k \in {"goal", "result"} : idOf[k] = pending[k]
    /\ \A k \in Kinds, g \in Goals : <<k, g>> \in removals => future[k][g] \in {"done", "cancelled"}

(* One answer of a kind is under way to a goal at a time, and only while   *)
(* its future is not done.                                                 *)
AnswersAreAwaited ==
    /\ \A k \in Kinds, g \in Goals :
         /\ <<k, g>> \in answers \/ data[k] = g => future[k][g] \in {"pending", "cancelled"}
         /\ ~(<<k, g>> \in answers /\ data[k] = g)
    /\ \A g \in Goals :
         /\ server[g] # "unknown" => future["goal"][g] # "none"
         /\ server[g] = "requested" =>
              future["goal"][g] # "done" /\ <<"goal", g>> \notin answers /\ data["goal"] # g

FailureWasCancelled == \A k \in Kinds, g \in Goals : <<k, g>> \in raised => future[k][g] = "cancelled"

(* No status message is ahead of the server.                               *)
ReportsAreOld ==
    \A r \in {statuses, data["status"]} \ {None} : \A g \in DOMAIN r :
        r[g] = "succeeded" => server[g] = "succeeded"

Observed(g) == future["result"][g] \in {"none", "pending"}
FeedbackIsRouted == \A g \in Goals :
    /\ Observed(g) /\ future["goal"][g] # "none" /\ sending # g => g \in feedbackCallbacks
    /\ /\ Observed(g) /\ server[g] = "executing" /\ future["cancel"][g] = "none"
       /\ future["goal"][g] = "done" \/ (found /\ data["goal"] = g)
       => g \in filter

(* The second look-up is of a message that is still there.                 *)
FoundIsThere == found => \E k \in Messages : data[k] # None

Core ==
    /\ NoneAssumption /\ TypeOK /\ FoundIsThere /\ TablesAgree /\ AnswersAreAwaited
    /\ FailureWasCancelled /\ ReportsAreOld /\ FeedbackIsRouted
IInv == Core /\ CallIsTyped

-----------------------------------------------------------------------------
LEMMA InitIInv ==
    ASSUME NoneAssumption, Init
    PROVE  IInv
<1>1. data = NoData /\ \A k \in Fields : data[k] = None
  BY DEF Init, NoData, Fields, Messages, Kinds
<1>2. data = [k \in Fields |-> None]
  BY <1>1 DEF NoData, Fields, Messages, Kinds
<1>3. TypeOK
  BY <1>2 DEF Init, TypeOK, Fields, Messages, Kinds
<1> QED
  BY <1>1, <1>3 DEF NoneAssumption, Init, IInv, Core, CallIsTyped, FoundIsThere, TablesAgree, AnswersAreAwaited,
     FailureWasCancelled, ReportsAreOld, FeedbackIsRouted, Kinds, Messages, Fields

(* A future changes in one place.                                          *)
LEMMA OneFuture ==
    ASSUME TypeOK, NEW k \in Kinds, NEW g \in Goals, NEW s \in {"pending", "done", "cancelled"},
           future' = [future EXCEPT ![k][g] = s]
    PROVE  /\ future' \in [Kinds -> [Goals -> {"none", "pending", "done", "cancelled"}]]
           /\ \A l \in Kinds, h \in Goals :
                future'[l][h] = IF l = k /\ h = g THEN s ELSE future[l][h]
BY DEF TypeOK

(* Sending a goal, asking for its result and cancelling it are a request   *)
(* each.                                                                   *)
LEMMA RequestCore ==
    ASSUME Core, NEW k \in Kinds, NEW g \in Goals, Request(k, g), sending = None,
           sending' = IF k = "goal" THEN g ELSE sending,
           server' = IF k = "goal" THEN [server EXCEPT ![g] = "requested"] ELSE server,
           filter' = IF k = "cancel" THEN filter \ {g} ELSE filter,
           UNCHANGED <<feedbackCallbacks, removals, data, found, answers, feedback, statuses, raised>>
    PROVE  Core'
<1>1. /\ future[k][g] = "none"
      /\ \A l \in Kinds, h \in Goals :
           future'[l][h] = IF l = k /\ h = g THEN "pending" ELSE future[l][h]
  <2>1. future' = [future EXCEPT ![k][g] = "pending"] /\ future[k][g] = "none"
    BY DEF Request
  <2> QED
    BY <2>1 DEF Core, TypeOK
<1>2. TypeOK'
  BY OneFuture DEF Request, Core, TypeOK
<1>3. TablesAgree'
  <2>1. \A l \in Kinds : pending'[l] = IF l = k THEN pending[l] \cup {g} ELSE pending[l]
    BY DEF Request, Core, TypeOK
  <2>2. \A l \in {"goal", "result"} : idOf'[l] = IF l = k THEN idOf[l] \cup {g} ELSE idOf[l]
    BY DEF Request, Core, TypeOK, Kinds
  <2>3. \A l \in Kinds : pending[l] = {h \in Goals : future[l][h] = "pending" \/ <<l, h>> \in removals}
    BY DEF Core, TablesAgree
  <2>4. \A l \in Kinds :
          pending'[l] = {h \in Goals : future'[l][h] = "pending" \/ <<l, h>> \in removals}
    <3> SUFFICES ASSUME NEW l \in Kinds
                 PROVE  pending'[l] = {h \in Goals : future'[l][h] = "pending" \/ <<l, h>> \in removals}
      OBVIOUS
    <3>1. CASE l = k
      BY <1>1, <2>1, <2>3, <3>1
    <3>2. CASE l # k
      <4>1. pending'[l] = pending[l] /\ \A h \in Goals : future'[l][h] = future[l][h]
        BY <1>1, <2>1, <3>2
      <4> QED
        BY <2>3, <4>1
    <3> QED
      BY <3>1, <3>2
  <2>5. \A l \in {"goal", "result"} : idOf'[l] = pending'[l]
    BY <2>1, <2>2 DEF Core, TablesAgree, Kinds
  <2>6. \A l \in Kinds, h \in Goals : <<l, h>> \in removals => future'[l][h] \in {"done", "cancelled"}
    BY <1>1 DEF Core, TablesAgree
  <2> QED
    BY <2>4, <2>5, <2>6 DEF TablesAgree
<1>4. AnswersAreAwaited'
  BY <1>1 DEF Core, TypeOK, AnswersAreAwaited, Kinds
<1>5. FailureWasCancelled'
  BY <1>1 DEF Core, FailureWasCancelled
<1>6. ReportsAreOld'
  <2>1. \A r \in {statuses, data["status"]} \ {None} : DOMAIN r \subseteq Goals
    BY DEF Core, TypeOK, Reports
  <2>2. \A h \in Goals : server[h] = "succeeded" => server'[h] = "succeeded"
    <3>1. k = "goal" => server[g] = "unknown"
      BY <1>1 DEF Core, TypeOK, AnswersAreAwaited
    <3> QED
      BY <3>1 DEF Core, TypeOK
  <2> QED
    BY <2>1, <2>2 DEF Core, ReportsAreOld
<1>7. FeedbackIsRouted'
  BY <1>1 DEF NoneAssumption, Core, TypeOK, FeedbackIsRouted, Observed, Kinds
<1> QED
  BY <1>2, <1>3, <1>4, <1>5, <1>6, <1>7 DEF Core, FoundIsThere

LEMMA AskCore ==
    ASSUME Core, NEW g \in Goals, send_goal_async(g) \/ get_result_async(g) \/ cancel_goal_async(g)
    PROVE  Core'
<1>1. "goal" \in Kinds /\ "result" \in Kinds /\ "cancel" \in Kinds
  BY DEF Kinds
<1>2. CASE send_goal_async(g)
  BY <1>1, <1>2, RequestCore DEF send_goal_async, taken
<1>3. CASE get_result_async(g)
  BY <1>1, <1>3, RequestCore DEF get_result_async, taken, network
<1>4. CASE cancel_goal_async(g)
  BY <1>1, <1>4, RequestCore DEF cancel_goal_async, taken, network
<1> QED
  BY <1>2, <1>3, <1>4

LEMMA UserIInv == IInv /\ UserStep => IInv'
<1> SUFFICES ASSUME IInv, UserStep PROVE IInv'
  OBVIOUS
<1> USE DEF IInv
<1>1. CASE Blocking
  <2>1. CallIsTyped'
    BY <1>1 DEF Blocking, CallIsTyped, Kinds
  <2> QED
    BY <1>1, <2>1, AskCore DEF Blocking
<1>2. CASE Asynchronous
  <2>1. CallIsTyped'
    BY <1>2 DEF Asynchronous, CallIsTyped
  <2> QED
    BY <1>2, <2>1, AskCore DEF Asynchronous
<1>3. CASE RegisterFeedback
  <2>1. sending \in Goals /\ sending' = None /\ feedbackCallbacks' = feedbackCallbacks \cup {sending}
    BY <1>3 DEF RegisterFeedback, Core, TypeOK
  <2>2. UNCHANGED <<pending, idOf, future, filter, call, removals, data, found, server, answers,
                    feedback, statuses, raised>>
    BY <1>3 DEF RegisterFeedback, taken, network
  <2>3. TypeOK'
    BY <2>1, <2>2 DEF Core, TypeOK
  <2>4. FeedbackIsRouted'
    BY <2>1, <2>2 DEF Core, FeedbackIsRouted, Observed
  <2> QED
    BY <2>2, <2>3, <2>4 DEF Core, CallIsTyped, FoundIsThere, TablesAgree, AnswersAreAwaited, FailureWasCancelled,
     ReportsAreOld
<1>4. CASE Unblock
  <2>1. call \in [stage : Kinds, goal : Goals]
    BY <1>4 DEF Unblock, CallIsTyped
  <2>2. CASE call.stage = "goal"
    <3>1. get_result_async(call.goal) /\ call' = [stage |-> "result", goal |-> call.goal]
      BY <1>4, <2>2 DEF Unblock
    <3> QED
      BY <2>1, <3>1, AskCore DEF CallIsTyped, Kinds
  <2>3. CASE call.stage # "goal"
    BY <1>4, <2>3 DEF Unblock, taken, network, Core, TypeOK, CallIsTyped, FoundIsThere, TablesAgree, AnswersAreAwaited,
       FailureWasCancelled, ReportsAreOld, FeedbackIsRouted, Observed
  <2> QED
    BY <2>2, <2>3
<1>5. CASE \E g \in Goals : Drop(g)
  BY <1>5 DEF Drop, taken, network, Core, TypeOK, CallIsTyped, FoundIsThere, TablesAgree, AnswersAreAwaited,
     FailureWasCancelled, ReportsAreOld, FeedbackIsRouted, Observed
<1>6. CASE \E k \in Kinds, g \in Goals : CancelFuture(k, g)
  <2>1. PICK k \in Kinds, g \in Goals : CancelFuture(k, g)
    BY <1>6
  <2>2. /\ future[k][g] = "pending" /\ removals' = removals \cup {<<k, g>>} /\ sending # g
        /\ \A l \in Kinds, h \in Goals :
             future'[l][h] = IF l = k /\ h = g THEN "cancelled" ELSE future[l][h]
        /\ UNCHANGED <<pending, idOf, feedbackCallbacks, filter, sending, call, data, found, server,
                       answers, feedback, statuses, raised>>
    <3>1. future' = [future EXCEPT ![k][g] = "cancelled"]
      BY <2>1 DEF CancelFuture
    <3>2. \A l \in Kinds, h \in Goals :
            future'[l][h] = IF l = k /\ h = g THEN "cancelled" ELSE future[l][h]
      BY <3>1 DEF Core, TypeOK
    <3> QED
      BY <2>1, <3>2 DEF CancelFuture, user, taken, network
  <2>3. TypeOK'
    BY <2>1, <2>2, OneFuture DEF CancelFuture, Core, TypeOK
  <2>4. TablesAgree' /\ AnswersAreAwaited'
    BY <2>2 DEF Core, TablesAgree, AnswersAreAwaited, Kinds
  <2>5. FailureWasCancelled' /\ ReportsAreOld'
    BY <2>2 DEF Core, FailureWasCancelled, ReportsAreOld
  <2>6. FeedbackIsRouted'
    BY <2>2 DEF Core, FeedbackIsRouted, Observed, Kinds
  <2> QED
    BY <2>2, <2>3, <2>4, <2>5, <2>6 DEF Core, CallIsTyped, FoundIsThere
<1> QED
  BY <1>1, <1>2, <1>3, <1>4, <1>5, <1>6 DEF UserStep

-----------------------------------------------------------------------------
LEMMA DoneCallbackCore == Core /\ DoneCallback => Core'
<1> SUFFICES ASSUME Core, DoneCallback PROVE Core'
  OBVIOUS
<1>1. PICK k \in Kinds, g \in Goals :
          <<k, g>> \in removals /\ RemovePending(k, g) /\ removals' = removals \ {<<k, g>>}
  <2>1. PICK r \in removals : RemovePending(r[1], r[2]) /\ removals' = removals \ {r}
    BY DEF DoneCallback
  <2>2. r \in Kinds \X Goals
    BY <2>1 DEF Core, TypeOK
  <2>3. r[1] \in Kinds /\ r[2] \in Goals /\ r = <<r[1], r[2]>>
    BY <2>2
  <2> QED
    BY <2>1, <2>3
<1>2. UNCHANGED <<future, sending, data, found, server, answers, feedback, statuses, raised>>
  BY DEF DoneCallback, user, taken, network
<1>3. /\ \A l \in Kinds : pending'[l] = IF l = k THEN pending[l] \ {g} ELSE pending[l]
      /\ \A l \in Kinds : idOf'[l] = IF l = k THEN idOf[l] \ {g} ELSE idOf[l]
  BY <1>1 DEF RemovePending, Core, TypeOK
<1>4. IF k = "result" THEN feedbackCallbacks' = feedbackCallbacks \ {g} /\ filter' = filter \ {g}
      ELSE UNCHANGED <<feedbackCallbacks, filter>>
  BY <1>1 DEF RemovePending
<1>5. TypeOK'
  BY <1>1, <1>2, <1>4 DEF RemovePending, Core, TypeOK
<1>6. TablesAgree'
  <2>1. future[k][g] \in {"done", "cancelled"}
    BY <1>1 DEF Core, TablesAgree
  <2>2. \A l \in Kinds : pending[l] = {h \in Goals : future[l][h] = "pending" \/ <<l, h>> \in removals}
    BY DEF Core, TablesAgree
  <2>3. \A l \in Kinds, h \in Goals : <<l, h>> \in removals' <=> <<l, h>> \in removals /\ ~(l = k /\ h = g)
    BY <1>1
  <2>4. \A l \in Kinds :
          pending'[l] = {h \in Goals : future[l][h] = "pending" \/ <<l, h>> \in removals'}
    BY <1>3, <2>1, <2>2, <2>3
  <2>5. \A l \in {"goal", "result"} : idOf'[l] = pending'[l]
    BY <1>3 DEF Core, TablesAgree, Kinds
  <2> QED
    BY <1>2, <2>3, <2>4, <2>5 DEF Core, TablesAgree
<1>7. AnswersAreAwaited' /\ FailureWasCancelled' /\ ReportsAreOld'
  BY <1>2 DEF Core, AnswersAreAwaited, FailureWasCancelled, ReportsAreOld
<1>8. future[k][g] \in {"done", "cancelled"}
  BY <1>1 DEF Core, TablesAgree
<1>9. FeedbackIsRouted'
  BY <1>2, <1>4, <1>8 DEF Core, FeedbackIsRouted, Observed
<1> QED
  BY <1>2, <1>5, <1>6, <1>7, <1>9 DEF Core, FoundIsThere
(* Messages are taken: what was sent becomes what execute() has before it. *)
LEMMA TakeCore == Core /\ take_data => Core'
<1> SUFFICES ASSUME Core, take_data PROVE Core'
  OBVIOUS
<1>1. PICK d \in [Messages -> Goals \cup {None}] :
          /\ \A k \in Messages : IF Waiting(k) = {} THEN d[k] = None ELSE d[k] \in Waiting(k)
          /\ data' = [k \in DOMAIN NoData |-> IF k = "status" THEN statuses ELSE d[k]]
          /\ answers' = answers \ {<<k, d[k]>> : k \in Kinds}
          /\ feedback' = feedback \ {d["feedback"]}
  BY DEF take_data
<1>2. /\ data = NoData /\ statuses' = None
      /\ UNCHANGED <<pending, idOf, future, feedbackCallbacks, filter, sending, removals, found, server, raised>>
  BY DEF take_data, user
<1>3. /\ data' \in [Fields -> Goals \cup {None} \cup Reports]
      /\ \A k \in Messages : data'[k] = d[k]
      /\ data'["status"] = statuses
  <2>1. DOMAIN NoData = Fields /\ "status" \notin Messages /\ Messages \subseteq Fields /\ "status" \in Fields
    BY DEF NoData, Fields, Messages, Kinds
  <2>2. \A k \in Fields : k = "status" \/ k \in Messages
    BY DEF Fields
  <2> QED
    BY <1>1, <2>1, <2>2 DEF Core, TypeOK
<1>4. TypeOK'
  BY <1>1, <1>2, <1>3 DEF Core, TypeOK
<1>5. \A k \in Kinds, g \in Goals : d[k] = g => <<k, g>> \in answers /\ <<k, g>> \notin answers'
  <2> SUFFICES ASSUME NEW k \in Kinds, NEW g \in Goals, d[k] = g
               PROVE  <<k, g>> \in answers /\ <<k, g>> \notin answers'
    OBVIOUS
  <2>1. k \in Messages /\ k # "feedback"
    BY DEF Messages, Kinds
  <2>2. d[k] \in Waiting(k)
    BY <1>1, <2>1 DEF Core, NoneAssumption
  <2>3. PICK a \in answers : a[1] = k /\ a[2] = g
    BY <2>1, <2>2 DEF Waiting
  <2>4. a = <<k, g>>
    BY <2>3 DEF Core, TypeOK
  <2> QED
    BY <1>1, <2>3, <2>4
<1>6. \A k \in Kinds, g \in Goals :
        /\ <<k, g>> \in answers' => <<k, g>> \in answers
        /\ data'[k] = g => <<k, g>> \in answers /\ <<k, g>> \notin answers'
  BY <1>1, <1>3, <1>5 DEF Messages
<1>7. AnswersAreAwaited'
  BY <1>2, <1>6 DEF Core, AnswersAreAwaited, Kinds
<1>8. ReportsAreOld'
  BY <1>2, <1>3 DEF Core, ReportsAreOld
<1>9. TablesAgree' /\ FailureWasCancelled'
  BY <1>2 DEF Core, TablesAgree, FailureWasCancelled
<1>10. ~found
  BY <1>2 DEF Core, FoundIsThere, NoData, Messages, Kinds
<1>11. FeedbackIsRouted'
  BY <1>2, <1>10 DEF Core, FeedbackIsRouted, Observed
<1> QED
  BY <1>2, <1>4, <1>7, <1>8, <1>9, <1>10, <1>11 DEF Core, FoundIsThere
(* Goals come first in execute(), the status last.                         *)
LEMMA OrderOfExecute ==
    ASSUME TypeOK, NEW k \in Fields, IsAt(k)
    PROVE  /\ data[k] # None
           /\ data["goal"] # None => k = "goal"
           /\ k = "status" => \A m \in Messages : data[m] = None
<1>1. /\ data["goal"] = None \/ \E j \in 1 .. 1 : Order[j] = k
      /\ data["cancel"] = None \/ \E j \in 1 .. 2 : Order[j] = k
      /\ data["result"] = None \/ \E j \in 1 .. 3 : Order[j] = k
      /\ data["feedback"] = None \/ \E j \in 1 .. 4 : Order[j] = k
      /\ data[k] # None
  BY DEF IsAt, Order
<1>2. \A j \in 1 .. 4 : Order[j] \in Messages
  BY DEF Order, Messages, Kinds
<1>3. "status" \notin Messages
  BY DEF Messages, Kinds
<1>4. \A j \in 1 .. 1 : Order[j] = "goal"
  BY DEF Order
<1> QED
  BY <1>1, <1>2, <1>3, <1>4 DEF Messages, Kinds

LEMMA LookUpCore == Core /\ LookUp => Core'
<1> SUFFICES ASSUME Core, LookUp PROVE Core'
  OBVIOUS
<1>1. PICK k \in Messages :
          /\ IsAt(k) /\ ~found
          /\ data' = IF found' THEN data ELSE [data EXCEPT ![k] = None]
          /\ found' \in BOOLEAN
          /\ IF found' /\ k = "goal" /\ server[data[k]] # "rejected"
             THEN filter' = filter \cup {data[k]} ELSE UNCHANGED filter
          /\ UNCHANGED <<pending, idOf, future, feedbackCallbacks, user, removals, network, raised>>
  <2> DEFINE known(l) == CASE l = "goal" -> data[l] \in idOf["goal"]
                           [] l = "feedback" -> data[l] \in feedbackCallbacks
                           [] OTHER -> data[l] \in pending[l]
  <2>1. \A l \in Messages : known(l) \in BOOLEAN
    <3> SUFFICES ASSUME NEW l \in Messages PROVE known(l) \in BOOLEAN
      OBVIOUS
    <3>1. CASE l = "goal"
      BY <3>1
    <3>2. CASE l = "feedback"
      BY <3>2
    <3>3. CASE l # "goal" /\ l # "feedback"
      BY <3>3
    <3> QED
      BY <3>1, <3>2, <3>3
  <2> HIDE DEF known
  <2>2. PICK k \in Messages :
          /\ IsAt(k) /\ ~found
          /\ found' = known(k)
          /\ data' = IF known(k) THEN data ELSE [data EXCEPT ![k] = None]
          /\ IF known(k) /\ k = "goal" /\ server[data[k]] # "rejected"
             THEN handles' = handles \cup {data[k]} /\ filter' = filter \cup {data[k]}
             ELSE UNCHANGED <<handles, filter>>
          /\ UNCHANGED <<pending, idOf, future, feedbackCallbacks, user, removals, network, raised>>
    BY DEF LookUp, known
  <2> QED
    BY <2>1, <2>2
<1> DEFINE g == data[k]
<1>2. k \in Fields /\ k # "status" /\ data[k] # None /\ g \in Goals /\ (data["goal"] # None => k = "goal")
  BY <1>1, OrderOfExecute DEF Core, TypeOK, Fields, Messages, Kinds
<1>3. /\ data' \in [Fields -> Goals \cup {None} \cup Reports]
      /\ \A l \in Fields : data'[l] = IF l = k /\ ~found' THEN None ELSE data[l]
  BY <1>1, <1>2 DEF Core, TypeOK
<1>4. UNCHANGED <<sending, server, answers, feedback, statuses>>
  BY <1>1 DEF user, network
<1>5. TypeOK' /\ FoundIsThere'
  BY <1>1, <1>2, <1>3, <1>4 DEF Core, TypeOK, FoundIsThere, Fields
<1>6. AnswersAreAwaited'
  BY <1>1, <1>3, <1>4 DEF NoneAssumption, Core, AnswersAreAwaited, Fields, Messages, Kinds
<1>7. TablesAgree' /\ FailureWasCancelled' /\ ReportsAreOld'
  BY <1>1, <1>2, <1>3, <1>4 DEF Core, TablesAgree, FailureWasCancelled, ReportsAreOld, Fields
<1>8. FeedbackIsRouted'
  <2>1. filter \subseteq filter' /\ data'["goal"] \in {data["goal"], None}
    BY <1>1, <1>3 DEF Fields, Messages, Kinds
  <2>2. \A h \in Goals : found' /\ data'["goal"] = h /\ server[h] = "executing" => h \in filter'
    BY <1>1, <1>2, <1>3 DEF NoneAssumption, Core, Fields, Messages, Kinds
  <2> QED
    BY <1>1, <1>4, <2>1, <2>2 DEF Core, FeedbackIsRouted, Observed
<1> QED
  BY <1>5, <1>6, <1>7, <1>8 DEF Core

LEMMA DeliverCore == Core /\ raised = {} /\ Deliver => Core'
<1> SUFFICES ASSUME Core, raised = {}, Deliver PROVE Core'
  OBVIOUS
<1>1. PICK k \in Messages :
          /\ IsAt(k) /\ found /\ found' = FALSE /\ data' = [data EXCEPT ![k] = None]
          /\ \/ /\ k \in Kinds => data[k] \notin pending[k]
                /\ raised' = {<<k, data[k]>>} /\ UNCHANGED <<future, removals>>
             \/ k = "feedback" /\ UNCHANGED <<raised, future, removals>>
             \/ /\ k \in Kinds /\ data[k] \in pending[k] /\ UNCHANGED raised
                /\ future' = [future EXCEPT ![k][data[k]] = "done"]
                /\ removals' = IF future[k][data[k]] = "pending"
                               THEN removals \cup {<<k, data[k]>>} ELSE removals
          /\ UNCHANGED <<pending, idOf, feedbackCallbacks, filter, handles, user, network>>
  BY DEF Deliver, Messages, Kinds
<1> DEFINE g == data[k]
<1>2. k \in Fields /\ data[k] # None /\ g \in Goals /\ (data["goal"] # None => k = "goal")
  BY <1>1, OrderOfExecute DEF Core, TypeOK, Fields
<1>3. /\ data' \in [Fields -> Goals \cup {None} \cup Reports]
      /\ \A l \in Fields : data'[l] = IF l = k THEN None ELSE data[l]
  BY <1>1, <1>2 DEF Core, TypeOK
<1>4. /\ UNCHANGED <<sending, server, answers, feedback, statuses>>
      /\ data'["status"] = data["status"] /\ ~found'
  BY <1>1, <1>3 DEF user, network, Fields, Messages, Kinds
<1>5. CASE UNCHANGED <<future, removals>>
  <2>1. TypeOK'
    BY <1>1, <1>3, <1>4, <1>5 DEF Core, TypeOK, Fields
  <2>2. AnswersAreAwaited'
    BY <1>3, <1>4, <1>5 DEF NoneAssumption, Core, AnswersAreAwaited, Fields, Messages, Kinds
  <2>3. TablesAgree' /\ ReportsAreOld'
    BY <1>1, <1>4, <1>5 DEF Core, TablesAgree, ReportsAreOld
  <2>4. FailureWasCancelled'
    <3>1. CASE UNCHANGED raised
      BY <1>5, <3>1 DEF Core, FailureWasCancelled
    <3>2. CASE raised' = {<<k, g>>} /\ (k \in Kinds => g \notin pending[k])
      <4>1. k \in Kinds => future[k][g] \in {"pending", "cancelled"} /\ future[k][g] # "pending"
        BY <1>2, <3>2 DEF Core, AnswersAreAwaited, TablesAgree
      <4>2. \A l \in Kinds, h \in Goals : <<l, h>> \in raised' => l = k /\ h = g
        BY <3>2
      <4> QED
        BY <1>5, <4>1, <4>2 DEF FailureWasCancelled
    <3> QED
      BY <1>1, <1>5, <3>1, <3>2
  <2>5. FeedbackIsRouted'
    BY <1>1, <1>4, <1>5 DEF Core, FeedbackIsRouted, Observed
  <2> QED
    BY <1>4, <2>1, <2>2, <2>3, <2>4, <2>5 DEF Core, FoundIsThere
<1>6. CASE /\ k \in Kinds /\ g \in pending[k] /\ UNCHANGED raised
           /\ future' = [future EXCEPT ![k][g] = "done"]
           /\ removals' = IF future[k][g] = "pending" THEN removals \cup {<<k, g>>} ELSE removals
  <2>1. /\ \A l \in Kinds, h \in Goals :
             future'[l][h] = IF l = k /\ h = g THEN "done" ELSE future[l][h]
        /\ future' \in [Kinds -> [Goals -> {"none", "pending", "done", "cancelled"}]]
    BY <1>2, <1>6 DEF Core, TypeOK
  <2>2. TypeOK'
    <3>1. removals' \in SUBSET (Kinds \X Goals)
      BY <1>2, <1>6 DEF Core, TypeOK
    <3>2. /\ \A l \in Messages : data'[l] \in Goals \cup {None}
          /\ data'["status"] \in Reports \cup {None}
      BY <1>3, <1>4 DEF Core, TypeOK, Fields
    <3> QED
      BY <1>1, <1>3, <1>4, <2>1, <3>1, <3>2 DEF Core, TypeOK
  <2>3. <<k, g>> \in removals' /\ removals' = removals \cup {<<k, g>>}
    BY <1>2, <1>6 DEF Core, TablesAgree
  <2>4. TablesAgree'
    <3>1. \A l \in Kinds, h \in Goals :
            h \in pending[l] <=> future'[l][h] = "pending" \/ <<l, h>> \in removals'
      <4> SUFFICES ASSUME NEW l \in Kinds, NEW h \in Goals
                   PROVE  h \in pending[l] <=> future'[l][h] = "pending" \/ <<l, h>> \in removals'
        OBVIOUS
      <4>1. h \in pending[l] <=> future[l][h] = "pending" \/ <<l, h>> \in removals
        BY DEF Core, TablesAgree
      <4>2. CASE l = k /\ h = g
        BY <1>6, <2>3, <4>2
      <4>3. CASE ~(l = k /\ h = g)
        BY <2>1, <2>3, <4>1, <4>3
      <4> QED
        BY <4>2, <4>3
    <3>2. \A l \in Kinds : pending[l] \subseteq Goals
      BY DEF Core, TypeOK
    <3>3. \A l \in Kinds, h \in Goals : <<l, h>> \in removals' => future'[l][h] \in {"done", "cancelled"}
      BY <1>2, <1>6, <2>1, <2>3 DEF Core, TablesAgree
    <3>4. \A l \in {"goal", "result"} : idOf'[l] = pending'[l]
      BY <1>1 DEF Core, TablesAgree
    <3>5. pending' = pending
      BY <1>1
    <3>6. \A l \in Kinds : pending'[l] = {h \in Goals : future'[l][h] = "pending" \/ <<l, h>> \in removals'}
      BY <3>1, <3>2, <3>5
    <3> QED
      BY <3>3, <3>4, <3>6 DEF TablesAgree
  <2>5. AnswersAreAwaited'
    BY <1>2, <1>3, <1>4, <2>1 DEF NoneAssumption, Core, AnswersAreAwaited, Fields, Messages, Kinds
  <2>6. FailureWasCancelled' /\ ReportsAreOld'
    BY <1>4, <1>6 DEF Core, FailureWasCancelled, ReportsAreOld
  <2>7. FeedbackIsRouted'
    <3>1. \A h \in Goals : future'["goal"][h] = "done" =>
            future["goal"][h] = "done" \/ (found /\ data["goal"] = h)
      BY <1>1, <2>1 DEF Kinds
    <3>2. \A h \in Goals : /\ future'["goal"][h] # "none" => future["goal"][h] # "none"
                           /\ future'["cancel"][h] = "none" => future["cancel"][h] = "none"
                           /\ Observed(h)' => Observed(h)
      <4>1. future[k][g] # "none"
        BY <1>2, <1>6 DEF Core, AnswersAreAwaited
      <4> QED
        BY <1>6, <2>1, <4>1 DEF Observed, Kinds
    <3> QED
      BY <1>1, <1>4, <3>1, <3>2 DEF Core, FeedbackIsRouted
  <2> QED
    BY <1>4, <2>2, <2>4, <2>5, <2>6, <2>7 DEF Core, FoundIsThere
<1> QED
  BY <1>1, <1>5, <1>6
LEMMA FollowStatusCore == Core /\ FollowStatus => Core'
<1> SUFFICES ASSUME Core, FollowStatus PROVE Core'
  OBVIOUS
<1>1. /\ data' = NoData /\ IsAt("status")
      /\ UNCHANGED <<pending, idOf, future, feedbackCallbacks, sending, removals, found, server, answers,
                     feedback, statuses, raised>>
  BY DEF FollowStatus, user, network
<1>2. /\ \A m \in Messages : data[m] = None
      /\ data["status"] \in Reports
  BY <1>1, OrderOfExecute DEF Core, TypeOK, Fields
<1>3. filter' \subseteq filter /\ \A g \in filter \ filter' : server[g] = "succeeded"
  <2>1. PICK held, over : /\ over = {g \in held : data["status"][g] = "succeeded"}
                          /\ held \subseteq DOMAIN data["status"] /\ filter' = filter \ over
    BY DEF FollowStatus
  <2>2. data["status"] # None
    BY <1>1, OrderOfExecute DEF Core, Fields
  <2>3. \A g \in DOMAIN data["status"] : data["status"][g] = "succeeded" => server[g] = "succeeded"
    BY <2>2 DEF Core, ReportsAreOld
  <2> QED
    BY <2>1, <2>3
<1>4. data' = [k \in Fields |-> None]
  BY <1>1 DEF NoData, Fields, Messages, Kinds
<1>5. TypeOK'
  BY <1>1, <1>3, <1>4 DEF Core, TypeOK, Fields
<1>6. AnswersAreAwaited'
  BY <1>1, <1>4 DEF NoneAssumption, Core, AnswersAreAwaited, Fields, Messages, Kinds
<1>7. FoundIsThere' /\ TablesAgree' /\ FailureWasCancelled' /\ ReportsAreOld'
  BY <1>1, <1>2, <1>4 DEF Core, FoundIsThere, TablesAgree, FailureWasCancelled, ReportsAreOld, Fields
<1>8. FeedbackIsRouted'
  BY <1>1, <1>2, <1>3, <1>7 DEF Core, FoundIsThere, FeedbackIsRouted, Observed
<1> QED
  BY <1>5, <1>6, <1>7, <1>8 DEF Core

LEMMA ServerCore == Core /\ Server => Core'
<1> SUFFICES ASSUME Core, Server PROVE Core'
  OBVIOUS
<1>1. UNCHANGED <<pending, idOf, future, feedbackCallbacks, filter, sending, removals, data, found, raised>>
  BY DEF Server, user, taken
<1>2. FoundIsThere' /\ TablesAgree' /\ FailureWasCancelled'
  BY <1>1 DEF Core, FoundIsThere, TablesAgree, FailureWasCancelled
<1>3. CASE \E g \in Goals : Serve(g) /\ UNCHANGED <<feedback, statuses>>
  <2>1. PICK g \in Goals : Serve(g)
    BY <1>3
  <2>2. PICK s \in {"executing", "rejected", "succeeded"} :
            /\ server' = [server EXCEPT ![g] = s]
            /\ \/ server[g] = "requested" /\ answers' = answers \cup {<<"goal", g>>}
               \/ server[g] = "executing" /\ s = "succeeded" /\ answers' = answers
    BY <2>1 DEF Serve
  <2>3. /\ \A h \in Goals : server'[h] = IF h = g THEN s ELSE server[h]
        /\ answers' \in SUBSET (Kinds \X Goals)
    BY <2>2 DEF Core, TypeOK, Kinds
  <2>4. TypeOK'
    BY <1>1, <1>3, <2>2, <2>3 DEF Core, TypeOK
  <2>5. AnswersAreAwaited'
    BY <1>1, <2>2, <2>3 DEF Core, TypeOK, AnswersAreAwaited, Kinds
  <2>6. ReportsAreOld'
    <3>1. \A r \in {statuses, data["status"]} \ {None} : DOMAIN r \subseteq Goals
      BY DEF Core, TypeOK, Reports
    <3> QED
      BY <1>1, <1>3, <2>2, <2>3, <3>1 DEF Core, ReportsAreOld
  <2>7. FeedbackIsRouted'
    <3>1. \A h \in Goals : server'[h] = "executing" /\ (future["goal"][h] = "done" \/ data["goal"] = h)
            => server[h] = "executing"
      BY <2>2, <2>3 DEF Core, AnswersAreAwaited
    <3> QED
      BY <1>1, <3>1 DEF Core, FeedbackIsRouted, Observed
  <2> QED
    BY <1>2, <2>4, <2>5, <2>6, <2>7 DEF Core
<1>4. CASE \E g \in Goals, k \in Kinds : Answer(k, g) /\ UNCHANGED <<feedback, statuses>>
  <2>1. PICK g \in Goals, k \in Kinds : Answer(k, g)
    BY <1>4
  <2>2. /\ k # "goal" /\ future[k][g] \in {"pending", "cancelled"} /\ data[k] # g
        /\ answers' = answers \cup {<<k, g>>} /\ UNCHANGED server
    BY <2>1 DEF Answer
  <2>3. AnswersAreAwaited'
    BY <1>1, <2>2 DEF Core, AnswersAreAwaited, Kinds
  <2> QED
    BY <1>1, <1>2, <1>4, <2>2, <2>3 DEF Core, TypeOK, ReportsAreOld, FeedbackIsRouted, Observed
<1>5. CASE Report /\ UNCHANGED <<server, answers>>
  <2>1. feedback' \in SUBSET Goals
    BY <1>5 DEF Report, Core, TypeOK
  <2> DEFINE report == [g \in {h \in Goals : server[h] \in {"executing", "succeeded"}} |-> server[g]]
  <2>2. statuses' \in {statuses, report}
    BY <1>5 DEF Report
  <2>3. /\ report \in Reports
        /\ \A g \in DOMAIN report : report[g] = server[g]
    <3> DEFINE S == {h \in Goals : server[h] \in {"executing", "succeeded"}}
    <3>1. report \in [S -> {"executing", "succeeded"}] /\ S \in SUBSET Goals
      OBVIOUS
    <3> HIDE DEF S
    <3>2. report \in Reports
      BY <3>1 DEF Reports
    <3> QED
      BY <3>2
  <2> HIDE DEF report
  <2>4. TypeOK'
    BY <1>1, <1>5, <2>1, <2>2, <2>3 DEF Core, TypeOK
  <2>5. ReportsAreOld'
    BY <1>1, <1>5, <2>2, <2>3 DEF Core, ReportsAreOld
  <2> QED
    BY <1>1, <1>2, <1>5, <2>4, <2>5 DEF Core, AnswersAreAwaited, FeedbackIsRouted, Observed
<1> QED
  BY <1>3, <1>4, <1>5 DEF Server, ServerStep

-----------------------------------------------------------------------------
LEMMA NextIInv == IInv /\ [Next]_vars => IInv'
<1> SUFFICES ASSUME IInv, [Next]_vars PROVE IInv'
  OBVIOUS
<1>1. CASE UNCHANGED vars
  BY <1>1 DEF vars, user, taken, network, IInv, Core, CallIsTyped, TypeOK, FoundIsThere, TablesAgree,
     AnswersAreAwaited, FailureWasCancelled, ReportsAreOld, FeedbackIsRouted, Observed
<1>2. CASE raised = {} /\ (Executor \/ Server)
  <2>1. UNCHANGED call
    BY <1>2 DEF Executor, Server, take_data, execute, LookUp, Deliver, FollowStatus, DoneCallback, user
  <2>2. Core'
    BY <1>2, TakeCore, LookUpCore, DeliverCore, FollowStatusCore, DoneCallbackCore, ServerCore
       DEF IInv, Executor, execute
  <2> QED
    BY <2>1, <2>2 DEF IInv, CallIsTyped
<1> QED
  BY <1>1, <1>2, UserIInv DEF Next

(* The invariant holds in every reachable state.                           *)
THEOREM Invariance ==
    ASSUME NoneAssumption
    PROVE  Spec => []IInv
<1> QED
  BY InitIInv, NextIInv, PTL DEF Spec

(* A request is in the tables of the client exactly as long as its future  *)
(* is undecided or its done callback is still to run, and an answer is     *)
(* ignored, or a look-up raises, only if the user cancelled the future.    *)
THEOREM TablesFollowFutures ==
    ASSUME NoneAssumption
    PROVE  Spec => []RequestsAndFuturesAgree
<1>1. IInv => RequestsAndFuturesAgree
  <2> SUFFICES ASSUME IInv PROVE RequestsAndFuturesAgree
    OBVIOUS
  <2>1. \A k \in Kinds, g \in Goals :
           data[k] = g /\ g \notin pending[k] => future[k][g] = "cancelled"
    BY DEF IInv, Core, AnswersAreAwaited, TablesAgree
  <2> QED
    BY <2>1 DEF IInv, Core, TablesAgree, FailureWasCancelled, RequestsAndFuturesAgree
<1> QED
  BY <1>1, Invariance, PTL

(* Feedback of a goal in execution reaches the callback of the user until  *)
(* the result came, was given up, or a cancellation was requested.         *)
THEOREM FeedbackIsDelivered ==
    ASSUME NoneAssumption
    PROVE  Spec => []FeedbackArrives
<1>1. IInv => FeedbackArrives
  BY DEF IInv, Core, FeedbackIsRouted, Observed, FeedbackArrives, HasHandle
<1> QED
  BY <1>1, Invariance, PTL
=============================================================================
