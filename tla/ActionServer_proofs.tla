-------------------------- MODULE ActionServer_proofs --------------------------
(***************************************************************************)
(* Proofs about the action server: its answers match what became of the    *)
(* goals, its dictionaries follow rcl, and a cancel request for one goal   *)
(* is answered honestly, for any goals, requests, ids, groups and number   *)
(* of interleaved handlers.                                                *)
(***************************************************************************)
EXTENDS ActionServer, FiniteSetTheorems, SequenceTheorems, TLAPS

Statuses == {"none"} \cup Active \cup Terminal
Results == {"none", "pending", "unknown"} \cup Terminal
Executions == {"none", "called", "deferred", "tested", "raised", "callback", "aborting",
               "failed", "setting", "done"}
GoalSteps == {"goal", "deciding", "rejecting", "storing", "accepting", "accepted", "executing"}
CancelSteps == {"cancel", "asking", "asked"}
AskSteps == {"ask", "registering"}
ExpireSteps == {"expire", "forget"}

HandlerStates ==
  [pc : {"idle"} \cup GoalSteps \cup CancelSteps \cup AskSteps \cup ExpireSteps,
   goal : Goals \cup {None}, cancel : Cancels \cup {None}, ask : Asks \cup {None},
   expired : SUBSET Goals, list : Seq(Ids), i : Nat, object : Goals \cup {None}]

TypeOK ==
  /\ group \in {"exclusive", "reentrant"} /\ gone \subseteq Requests
  /\ idOf \in [Goals -> Ids] /\ targets \in [Cancels \cup Asks -> SUBSET Ids]
  /\ \A q \in Asks : TheIdOf(q) \in Ids
  /\ inbox \subseteq Requests
  /\ answer = [r \in Requests |-> answer[r]]
  /\ known \subseteq Goals /\ status \in [Goals -> Statuses] /\ alive \in [Goals -> BOOLEAN]
  /\ handleOf \in [Ids -> Goals \cup {None}] /\ futureOf \in [Ids -> Goals \cup {None}]
  /\ result \in [Goals -> Results] /\ awaits \in [Asks -> Goals \cup {None}]
  /\ ex \in [Goals -> Executions]
  /\ handler \in [Handlers -> HandlerStates]
  /\ lost \subseteq Requests

(* A handler works on its parts in order: goal, cancel, ask, expired goals.*)
InOrder(b) ==
  /\ b.goal # None <=> b.pc \in GoalSteps
  /\ b.pc \in CancelSteps => b.cancel # None
  /\ b.pc \in AskSteps => b.ask # None /\ b.cancel = None
  /\ b.pc \in ExpireSteps \cup {"idle"} => b.cancel = None /\ b.ask = None
  /\ b.pc = "idle" => b.expired = {}
  /\ b.pc = "forget" => b.object \in b.expired
  /\ b.pc \notin {"asking", "asked"} => b.list = <<>> /\ b.i = 1

(* What became of the goal of a request at each step, and of the goal that *)
(* the cancel callback is asked about.                                     *)
Stage(b) ==
  /\ b.goal # None =>
       /\ b.pc \in {"goal", "deciding", "rejecting"} => status[b.goal] = "none" /\ answer[b.goal] = None
       /\ b.pc = "storing" => b.goal \in known /\ status[b.goal] = "accepted"
                                /\ result[b.goal] = "none" /\ answer[b.goal] = None
       /\ b.pc = "accepting" => result[b.goal] # "none" /\ answer[b.goal] = None
       /\ b.pc \in {"accepted", "executing"} => result[b.goal] # "none"
  /\ b.pc = "asked" => /\ b.object \in Goals /\ result[b.object] # "none"
                       /\ b.i <= Len(b.list) /\ idOf[b.object] = b.list[b.i]

(* The goals a cancel request has been through are being cancelled.        *)
Honest(i) == \E g \in Goals : idOf[g] = i /\ status[g] \in {"canceling"} \cup Terminal

Listed(b) ==
  /\ b.i # 0
  /\ b.cancel # None /\ Cardinality(targets[b.cancel]) = 1 =>
       Len(b.list) <= 1 /\ (b.i # 1 => \A n \in 1 .. Len(b.list) : Honest(b.list[n]))

Expires(b) == \A x \in b.expired : x \notin known /\ status[x] \in Terminal

(* While a handler of an exclusive group works, nothing else happens to    *)
(* its goal and to the dictionaries; no id of a Distinct run is reused.    *)
Distinct == gone \cap Asks = {} /\ \A i \in Ids : ~Reused(i)

SoleSteps(b) == group = "exclusive" =>
  /\ b.goal # None =>
       /\ b.pc \in {"storing", "accepting", "accepted"} =>
            status[b.goal] = "accepted" /\ ex[b.goal] = "none"
       /\ b.pc = "executing" =>
            /\ ex[b.goal] \notin {"raised", "deferred"}
            /\ ex[b.goal] \in {"called", "tested"} => status[b.goal] = "accepted"
  /\ b.pc = "registering" => futureOf[TheIdOf(b.ask)] # None

Sole(b) ==
  /\ SoleSteps(b)
  /\ group = "exclusive" /\ Distinct => \A x \in b.expired : handleOf[idOf[x]] = x

Sound(b) == Stage(b) /\ Listed(b) /\ Expires(b) /\ Sole(b)

HandlersAreSound == \A h \in Handlers : InOrder(handler[h]) /\ Sound(handler[h])

Alone == group = "exclusive" =>
  /\ \A h, k \in Handlers : ~At(h, "idle") /\ ~At(k, "idle") => h = k
  /\ Distinct => lost = {}

(* A goal request is in the inbox or with one handler, and has nothing     *)
(* until it is accepted.                                                   *)
GoalsOnce ==
  /\ \A g \in inbox \cap Goals :
       status[g] = "none" /\ answer[g] = None /\ \A h \in Handlers : handler[h].goal # g
  /\ \A h, k \in Handlers : handler[h].goal # None /\ handler[h].goal = handler[k].goal => h = k
  /\ \A g \in Goals : status[g] = "none" => g \notin known /\ ~alive[g] /\ result[g] = "none"
  /\ \A g \in Goals : result[g] = "none" => ex[g] = "none" /\ status[g] \in {"none", "accepted"}
  /\ \A g \in Goals : /\ answer[g] = "accepted" => status[g] # "none"
                      /\ answer[g] = "rejected" => status[g] = "none"

(* rcl tracks one goal per id.  What is in the dictionaries is known to    *)
(* rcl or on its way out, and what rcl knows is there or on its way in.    *)
Expiring(g) == \E h \in Handlers : g \in handler[h].expired
Storing(g) == \E h \in Handlers : At(h, "storing") /\ handler[h].goal = g

HandlesAreKnown ==
  /\ \A g, k \in known : idOf[g] = idOf[k] => g = k
  /\ handleOf = futureOf
  /\ \A i \in Ids : handleOf[i] # None =>
       /\ idOf[handleOf[i]] = i /\ result[handleOf[i]] # "none"
       /\ handleOf[i] \in known \cup lost \/ Expiring(handleOf[i])
  /\ \A g \in known : Reused(idOf[g]) \/ handleOf[idOf[g]] = g \/ Storing(g)

(* A handle is destroyed because a goal with its id has ended.             *)
HasEnded(i) == \E x \in Goals : idOf[x] = i /\ status[x] \in Terminal
DeadHaveEnded == \A g \in Goals : status[g] # "none" /\ ~alive[g] => HasEnded(idOf[g])

ResultsAreFinal == \A g \in Goals :
  /\ ex[g] = "setting" /\ alive[g] => status[g] \in Terminal
  /\ ~Reused(idOf[g]) /\ result[g] \notin {"none", "pending"} =>
       /\ status[g] \in Terminal
       /\ result[g] = status[g] \/ (result[g] = "unknown" /\ ~alive[g])

IInv ==
  /\ TypeOK
  /\ HandlersAreSound
  /\ Alone
  /\ GoalsOnce
  /\ HandlesAreKnown
  /\ DeadHaveEnded
  /\ ResultsAreFinal
  /\ SingleCancelIsHonest

LEMMA InitIInv == Init => IInv
<1> SUFFICES ASSUME Init PROVE IInv
  OBVIOUS
<1>1. /\ Idle \in HandlerStates /\ InOrder(Idle) /\ Idle.pc = "idle" /\ Idle.goal = None
      /\ Idle.expired = {} /\ Idle.i = 1 /\ Idle.cancel = None
  BY DEF Idle, HandlerStates, InOrder, GoalSteps, CancelSteps, AskSteps, ExpireSteps
<1>2. \A h \in Handlers : handler[h] = Idle
  BY DEF Init
<1>3. handler \in [Handlers -> HandlerStates]
  BY <1>1 DEF Init
<1>4. TypeOK
  <2>1. \A q \in Asks : TheIdOf(q) \in Ids
    <3> SUFFICES ASSUME NEW q \in Asks PROVE TheIdOf(q) \in Ids
      OBVIOUS
    <3>1. targets[q] \subseteq Ids /\ Cardinality(targets[q]) = 1
      BY DEF Init
    <3>2. \E i \in Ids : targets[q] = {i}
      BY <3>1, RequestsAssumption, FS_Subset, FS_Singleton
    <3> QED BY <3>2 DEF TheIdOf
  <2> QED BY <1>3, <2>1 DEF Init, TypeOK, Statuses, Results, Executions, Requests
<1>5. HandlersAreSound
  BY <1>1, <1>2 DEF HandlersAreSound, Sound, Stage, Listed, Expires, Sole, SoleSteps
<1>6. Alone
  BY <1>1, <1>2 DEF Init, Alone, At
<1>7. GoalsOnce
  <2>1. \A r \in Requests : answer[r] = None
    BY DEF Init
  <2>2. \A g \in Goals : answer[g] = None /\ status[g] = "none" /\ ~alive[g] /\ result[g] = "none" /\ ex[g] = "none"
    BY <2>1 DEF Init, Requests
  <2> QED BY <1>1, <1>2, <2>2, RequestsAssumption DEF Init, GoalsOnce
<1>8. HandlesAreKnown /\ DeadHaveEnded /\ ResultsAreFinal
  BY DEF Init, HandlesAreKnown, DeadHaveEnded, ResultsAreFinal
<1>9. SingleCancelIsHonest
  BY DEF Init, SingleCancelIsHonest, CancelIsHonest, Requests
<1> QED BY <1>4, <1>5, <1>6, <1>7, <1>8, <1>9 DEF IInv

(* The next part of a handler begins in order.                             *)
LEMMA PartDoneInOrder ==
  ASSUME NEW b \in HandlerStates
  PROVE  /\ PartDone(b) \in HandlerStates /\ InOrder(PartDone(b))
         /\ PartDone(b).goal = b.goal /\ PartDone(b).cancel = b.cancel /\ PartDone(b).ask = b.ask
         /\ PartDone(b).expired = b.expired
         /\ PartDone(b).list = <<>> /\ PartDone(b).i = 1
         /\ b.goal = None => PartDone(b).pc \in {"idle", "cancel", "ask", "expire"}
         /\ b.goal # None => PartDone(b).pc = "goal"
<1>1. PICK p \in {"goal", "cancel", "ask", "expire", "idle"} :
        /\ PartDone(b) = [b EXCEPT !.list = <<>>, !.i = 1, !.pc = p]
        /\ p = IF b.goal # None THEN "goal" ELSE IF b.cancel # None THEN "cancel"
               ELSE IF b.ask # None THEN "ask" ELSE IF b.expired # {} THEN "expire" ELSE "idle"
  BY DEF PartDone
<1>2. [b EXCEPT !.list = <<>>, !.i = 1, !.pc = p] \in HandlerStates
  <2>1. <<>> \in Seq(Ids) /\ 1 \in Nat
    OBVIOUS
  <2> QED BY <2>1 DEF HandlerStates, GoalSteps, CancelSteps, AskSteps, ExpireSteps
<1>3. /\ PartDone(b).pc = p /\ PartDone(b).list = <<>> /\ PartDone(b).i = 1
      /\ PartDone(b).goal = b.goal /\ PartDone(b).cancel = b.cancel /\ PartDone(b).ask = b.ask
      /\ PartDone(b).expired = b.expired
  BY <1>1 DEF HandlerStates
<1>4. InOrder(PartDone(b))
  BY <1>1, <1>3 DEF InOrder, GoalSteps, CancelSteps, AskSteps, ExpireSteps
<1> QED BY <1>1, <1>2, <1>3, <1>4

(* The states of goals go forward; what is said of them stays true.        *)
Forward == \A g \in Goals :
  /\ status[g] \in Terminal => status'[g] = status[g]
  /\ status[g] = "canceling" => status'[g] \in {"canceling"} \cup Terminal
  /\ status[g] # "none" => status'[g] # "none"

LEMMA ForwardKeeps ==
  ASSUME Forward, UNCHANGED inputs
  PROVE  /\ \A i : Honest(i) => Honest(i)'
         /\ \A i : HasEnded(i) => HasEnded(i)'
         /\ \A i : Reused(i) => Reused(i)'
         /\ Distinct' => Distinct
BY DEF Forward, inputs, Honest, HasEnded, Reused, Distinct, Terminal

LEMMA OtherHandlers ==
  ASSUME TypeOK, NEW h \in Handlers, NEW b, handler' = [handler EXCEPT ![h] = b]
  PROVE  /\ handler'[h] = b
         /\ \A k \in Handlers : k # h => handler'[k] = handler[k]
         /\ b \in HandlerStates => handler' \in [Handlers -> HandlerStates]
BY DEF TypeOK

(* A step of one handler, which has a new record b and perhaps sent an     *)
(* answer, began the execution of its goal, destroyed a handle or went     *)
(* down, while the states of goals and the dictionaries stay.              *)
Begins(h) ==
  handler[h].pc = "accepted" /\ \E e \in {"called", "deferred"} : ex' = [ex EXCEPT ![handler[h].goal] = e]

Destroys ==
  /\ UNCHANGED <<known, status>>
  /\ \E g \in Goals : HasEnded(idOf[g]) /\ alive' = [alive EXCEPT ![g] = FALSE]

HandlerGoesOn(h, b) ==
  /\ handler' = [handler EXCEPT ![h] = b] /\ b \in HandlerStates /\ InOrder(b)
  /\ handler[h].pc \notin {"idle", "storing"}
  /\ b.goal \in {None, handler[h].goal}
  /\ \/ b.expired = handler[h].expired /\ UNCHANGED lost
     \/ /\ b.expired = {} /\ b.goal = None /\ lost \subseteq lost' /\ lost' \subseteq Requests
        /\ handler[h].expired \subseteq lost'
        /\ group = "exclusive" => ~Distinct
  /\ answer' = [r \in Requests |-> answer'[r]]
  /\ \A r \in Requests : answer'[r] # answer[r] => r = handler[h].goal \/ r \notin Goals
  /\ UNCHANGED <<inputs, inbox, dictVars, result>>
  /\ UNCHANGED ex \/ Begins(h)
  /\ UNCHANGED goalVars \/ Destroys
  /\ awaits' \in [Asks -> Goals \cup {None}]

LEMMA HandlerStepIInv ==
  ASSUME IInv, NEW h \in Handlers, NEW b, HandlerGoesOn(h, b), Sound(b)', SingleCancelIsHonest',
         \A g \in Goals : /\ answer'[g] = "accepted" => status[g] # "none"
                          /\ answer'[g] = "rejected" => status[g] = "none"
  PROVE  IInv'
<1>0. /\ b \in HandlerStates /\ InOrder(b) /\ handler[h].pc \notin {"idle", "storing"}
      /\ UNCHANGED <<gone, group, idOf, targets, inbox, known, status, handleOf, futureOf, result>>
      /\ TypeOK /\ lost \subseteq lost' /\ lost' \subseteq Requests
      /\ b.goal \in {None, handler[h].goal}
      /\ \A x \in handler[h].expired : x \in b.expired \/ x \in lost'
  BY DEF HandlerGoesOn, Destroys, inputs, goalVars, dictVars, IInv, TypeOK
<1>10. /\ alive' \in [Goals -> BOOLEAN]
       /\ \A g \in Goals : alive'[g] => alive[g]
       /\ \A g \in Goals : alive[g] => alive'[g] \/ HasEnded(idOf[g])
  BY <1>0 DEF HandlerGoesOn, Destroys, goalVars, TypeOK
<1>11. /\ ex' \in [Goals -> Executions]
       /\ \A g \in Goals : \/ ex'[g] = ex[g]
                            \/ /\ ex'[g] \in {"called", "deferred"} /\ result[g] # "none"
                               /\ handler[h].goal = g
  <2>1. CASE UNCHANGED ex
    BY <1>0, <2>1 DEF TypeOK
  <2>2. CASE Begins(h)
    <3>1. InOrder(handler[h]) /\ Stage(handler[h]) /\ handler[h] \in HandlerStates /\ handler[h].pc = "accepted"
      BY <2>2 DEF IInv, TypeOK, HandlersAreSound, Sound, Begins
    <3>2. PICK g \in Goals : handler[h].goal = g /\ g # None
      BY <3>1 DEF InOrder, HandlerStates, GoalSteps
    <3>3. result[g] # "none"
      BY <3>1, <3>2 DEF Stage
    <3> QED BY <1>0, <2>2, <3>2, <3>3 DEF Begins, TypeOK, Executions
  <2> QED BY <2>1, <2>2 DEF HandlerGoesOn
<1>1. /\ handler'[h] = b
      /\ \A k \in Handlers : k # h => handler'[k] = handler[k]
      /\ handler' \in [Handlers -> HandlerStates]
  BY <1>0, OtherHandlers DEF HandlerGoesOn
<1>2. TypeOK'
  BY <1>0, <1>1, <1>10, <1>11 DEF HandlerGoesOn, TypeOK, TheIdOf
<1>3. Distinct' <=> Distinct
  BY <1>0 DEF Distinct, Reused
<1>4. \A k \in Handlers : k # h /\ handler[k].goal # None =>
        handler[k].goal \in Goals /\ answer'[handler[k].goal] = answer[handler[k].goal]
  <2> SUFFICES ASSUME NEW k \in Handlers, k # h, handler[k].goal # None
               PROVE  handler[k].goal \in Goals /\ answer'[handler[k].goal] = answer[handler[k].goal]
    OBVIOUS
  <2>1. handler[k].goal \in Goals /\ handler[k].goal # handler[h].goal
    BY <1>0 DEF IInv, TypeOK, HandlerStates, GoalsOnce
  <2> QED BY <2>1 DEF HandlerGoesOn, Requests
<1>5. HandlersAreSound'
  <2> SUFFICES ASSUME NEW k \in Handlers PROVE InOrder(handler[k])' /\ Sound(handler[k])'
    BY DEF HandlersAreSound
  <2>1. CASE k = h
    <3>1. InOrder(handler[k])'
      BY <1>0, <1>1, <2>1 DEF InOrder
    <3>2. Sound(handler[k])'
      BY <1>1, <2>1 DEF Sound, Stage, Listed, Expires, Sole, SoleSteps, TheIdOf
    <3> QED BY <3>1, <3>2
  <2>2. CASE k # h
    <3>1. InOrder(handler[k]) /\ Sound(handler[k]) /\ handler'[k] = handler[k]
      BY <1>1, <2>2 DEF IInv, HandlersAreSound
    <3>2. InOrder(handler[k])'
      BY <3>1 DEF InOrder
    <3>3. Stage(handler[k])'
      BY <1>0, <1>4, <2>2, <3>1 DEF Sound, Stage
    <3>4. Listed(handler[k])'
      BY <1>0, <3>1 DEF Sound, Listed, Honest
    <3>5. Expires(handler[k])'
      BY <1>0, <3>1 DEF Sound, Expires
    <3>6. Sole(handler[k])'
      <4>1. group = "exclusive" => handler[k].pc = "idle" /\ handler[k].goal = None
        BY <1>0, <2>2, <3>1 DEF IInv, Alone, At, InOrder, GoalSteps
      <4>2. SoleSteps(handler[k])'
        BY <1>0, <3>1, <4>1 DEF SoleSteps
      <4> QED BY <1>0, <1>3, <3>1, <4>2 DEF Sound, Sole
    <3> QED BY <3>2, <3>3, <3>4, <3>5, <3>6 DEF Sound
  <2> QED BY <2>1, <2>2
<1>6. Alone'
  <2>1. \A k \in Handlers : ~At(k, "idle")' => ~At(k, "idle")
    BY <1>0, <1>1 DEF At
  <2>2. group = "exclusive" /\ Distinct => lost' = {}
    BY <1>0 DEF HandlerGoesOn, IInv, Alone
  <2> QED BY <1>0, <1>3, <2>1, <2>2 DEF IInv, Alone
<1>7. GoalsOnce'
  <2>1. \A g \in Goals : g \in inbox => answer'[g] = answer[g]
    BY <1>0 DEF HandlerGoesOn, IInv, GoalsOnce, Requests
  <2>2. \A k \in Handlers : handler'[k].goal \in {None, handler[k].goal}
    BY <1>0, <1>1
  <2>3. \A g \in Goals : result[g] = "none" => ex'[g] = ex[g]
    BY <1>11
  <2> QED BY <1>0, <1>1, <1>10, <2>1, <2>2, <2>3, RequestsAssumption DEF IInv, GoalsOnce
<1>8. HandlesAreKnown'
  <2>1. \A g : Storing(g) => Storing(g)'
    BY <1>0, <1>1 DEF Storing, At
  <2>2. \A g : Expiring(g) => Expiring(g)' \/ g \in lost'
    BY <1>0, <1>1 DEF Expiring
  <2> QED BY <1>0, <2>1, <2>2 DEF IInv, HandlesAreKnown, Reused
<1>9. DeadHaveEnded'
  BY <1>0, <1>10 DEF IInv, DeadHaveEnded, HasEnded
<1>12. ResultsAreFinal'
  <2>1. \A g \in Goals : ex'[g] = "setting" => ex[g] = "setting"
    BY <1>11
  <2> QED BY <1>0, <1>10, <2>1 DEF IInv, ResultsAreFinal, Reused
<1> QED BY <1>2, <1>5, <1>6, <1>7, <1>8, <1>9, <1>12 DEF IInv

(* What the expired goals of the handler ask for is there all along.       *)
LEMMA HandlerWorksIInv ==
  ASSUME IInv, NEW h \in Handlers, NEW b, HandlerGoesOn(h, b), SingleCancelIsHonest',
         Stage(b)', Listed(b)', SoleSteps(b)',
         \A g \in Goals : /\ answer'[g] = "accepted" => status[g] # "none"
                          /\ answer'[g] = "rejected" => status[g] = "none"
  PROVE  IInv'
<1>1. /\ UNCHANGED <<gone, group, idOf, known, status, handleOf>>
      /\ b.expired \subseteq handler[h].expired
  BY DEF HandlerGoesOn, Destroys, inputs, goalVars, dictVars
<1>2. Expires(handler[h]) /\ Sole(handler[h])
  BY DEF IInv, HandlersAreSound, Sound
<1>3. Expires(b)'
  BY <1>1, <1>2 DEF Expires
<1>4. Sole(b)'
  BY <1>1, <1>2 DEF Sole, Distinct, Reused
<1> QED BY <1>3, <1>4, HandlerStepIInv DEF Sound

(* Only the place of the handler changes.                                  *)
LEMMA GotoIs ==
  ASSUME IInv, NEW h \in Handlers,
         NEW p \in {"idle"} \cup GoalSteps \cup CancelSteps \cup AskSteps \cup ExpireSteps, Goto(h, p)
  PROVE  \E b \in HandlerStates :
           /\ handler' = [handler EXCEPT ![h] = b] /\ b.pc = p
           /\ b.goal = handler[h].goal /\ b.cancel = handler[h].cancel /\ b.ask = handler[h].ask
           /\ b.expired = handler[h].expired /\ b.list = handler[h].list /\ b.i = handler[h].i
           /\ b.object = handler[h].object
<1>1. handler[h] \in HandlerStates
  BY DEF IInv, TypeOK
<1>2. [handler[h] EXCEPT !.pc = p] \in HandlerStates
  BY <1>1 DEF HandlerStates
<1> QED BY <1>1, <1>2 DEF Goto, HandlerStates

LEMMA PartIs ==
  ASSUME IInv, NEW h \in Handlers,
         \/ GoalDone(h) /\ handler[h].pc \in GoalSteps
         \/ CancelDone(h) /\ handler[h].pc \in CancelSteps
         \/ AskDone(h) /\ handler[h].pc \in AskSteps
  PROVE  \E b \in HandlerStates :
           /\ handler' = [handler EXCEPT ![h] = b] /\ InOrder(b)
           /\ b.goal = None /\ b.pc \in {"idle", "cancel", "ask", "expire"}
           /\ b.expired = handler[h].expired /\ b.list = <<>> /\ b.i = 1
<1>1. handler[h] \in HandlerStates /\ InOrder(handler[h])
  BY DEF IInv, TypeOK, HandlersAreSound
<1>2. ASSUME NEW d \in HandlerStates, d.goal = None, d.expired = handler[h].expired,
             handler' = [handler EXCEPT ![h] = PartDone(d)]
      PROVE  \E b \in HandlerStates :
           /\ handler' = [handler EXCEPT ![h] = b] /\ InOrder(b)
           /\ b.goal = None /\ b.pc \in {"idle", "cancel", "ask", "expire"}
           /\ b.expired = handler[h].expired /\ b.list = <<>> /\ b.i = 1
  <2>1. /\ PartDone(d) \in HandlerStates /\ InOrder(PartDone(d))
        /\ PartDone(d).goal = None /\ PartDone(d).pc \in {"idle", "cancel", "ask", "expire"}
        /\ PartDone(d).expired = handler[h].expired /\ PartDone(d).list = <<>> /\ PartDone(d).i = 1
    BY <1>2, PartDoneInOrder
  <2> HIDE DEF PartDone
  <2> QED BY <1>2, <2>1
<1>3. CASE GoalDone(h) /\ handler[h].pc \in GoalSteps
  <2>1. /\ [handler[h] EXCEPT !.goal = None] \in HandlerStates
        /\ [handler[h] EXCEPT !.goal = None].goal = None
        /\ [handler[h] EXCEPT !.goal = None].expired = handler[h].expired
    BY <1>1 DEF HandlerStates
  <2> QED BY <1>2, <1>3, <2>1 DEF GoalDone
<1>4. CASE CancelDone(h) /\ handler[h].pc \in CancelSteps
  <2>0. handler[h].goal = None
    BY <1>1, <1>4 DEF InOrder, GoalSteps, CancelSteps
  <2>1. /\ [handler[h] EXCEPT !.cancel = None] \in HandlerStates
        /\ [handler[h] EXCEPT !.cancel = None].goal = None
        /\ [handler[h] EXCEPT !.cancel = None].expired = handler[h].expired
    BY <1>1, <2>0 DEF HandlerStates
  <2> QED BY <1>2, <1>4, <2>1 DEF CancelDone
<1>5. CASE AskDone(h) /\ handler[h].pc \in AskSteps
  <2>0. handler[h].goal = None
    BY <1>1, <1>5 DEF InOrder, GoalSteps, AskSteps
  <2>1. /\ [handler[h] EXCEPT !.ask = None] \in HandlerStates
        /\ [handler[h] EXCEPT !.ask = None].goal = None
        /\ [handler[h] EXCEPT !.ask = None].expired = handler[h].expired
    BY <1>1, <2>0 DEF HandlerStates
  <2> QED BY <1>2, <1>5, <2>1 DEF AskDone
<1> QED BY <1>3, <1>4, <1>5

LEMMA FailIs ==
  ASSUME IInv, NEW h \in Handlers, Fails(h)
  PROVE  /\ handler' = [handler EXCEPT ![h] = Idle] /\ Idle \in HandlerStates /\ InOrder(Idle)
         /\ Idle.goal = None /\ Idle.pc = "idle" /\ Idle.expired = {} /\ Idle.list = <<>> /\ Idle.i = 1
         /\ Idle.cancel = None
         /\ lost \subseteq lost' /\ lost' \subseteq Requests /\ handler[h].expired \subseteq lost'
<1>1. handler[h] \in HandlerStates /\ lost \subseteq Requests
  BY DEF IInv, TypeOK
<1>2. /\ Idle \in HandlerStates /\ InOrder(Idle)
      /\ Idle.goal = None /\ Idle.pc = "idle" /\ Idle.expired = {} /\ Idle.list = <<>> /\ Idle.i = 1
      /\ Idle.cancel = None
  BY DEF Idle, HandlerStates, InOrder, GoalSteps, CancelSteps, AskSteps, ExpireSteps
<1>3. lost \subseteq lost' /\ lost' \subseteq Requests /\ handler[h].expired \subseteq lost'
  BY <1>1 DEF Fails, HandlerStates, Requests
<1> QED BY <1>2, <1>3 DEF Fails

-----------------------------------------------------------------------------
(* Goal requests *)

(* A handler goes from one step of its goal request to another.            *)
LEMMA GoalStepIInv ==
  ASSUME IInv, NEW h \in Handlers, handler[h].pc \in GoalSteps \ {"storing"},
         NEW b \in HandlerStates, handler' = [handler EXCEPT ![h] = b], b.pc \in GoalSteps,
         b.goal = handler[h].goal, b.expired = handler[h].expired,
         b.list = handler[h].list, b.i = handler[h].i,
         Stage(b)', SoleSteps(b)',
         UNCHANGED <<inputs, inbox, goalVars, dictVars, result, awaits, ex, lost>>,
         answer' = [r \in Requests |-> answer'[r]],
         \A r \in Requests : answer'[r] # answer[r] => r = handler[h].goal,
         \A g \in Goals : /\ answer'[g] = "accepted" => status[g] # "none"
                          /\ answer'[g] = "rejected" => status[g] = "none"
  PROVE  IInv'
<1>0. /\ handler[h] \in HandlerStates /\ InOrder(handler[h]) /\ awaits \in [Asks -> Goals \cup {None}]
      /\ TypeOK
  BY DEF IInv, TypeOK, HandlersAreSound
<1>1. /\ handler[h].goal # None /\ handler[h].list = <<>> /\ handler[h].i = 1
      /\ handler[h].pc \notin {"idle", "storing"}
      /\ b.pc \notin CancelSteps \cup AskSteps \cup ExpireSteps \cup {"idle", "asking", "asked", "forget"}
  BY <1>0 DEF InOrder, GoalSteps, CancelSteps, AskSteps, ExpireSteps
<1>2. InOrder(b)
  BY <1>1 DEF InOrder
<1>3. HandlerGoesOn(h, b)
  BY <1>0, <1>1, <1>2 DEF HandlerGoesOn
<1>4. Listed(b)'
  <2>1. b.list = <<>> /\ b.i = 1
    BY <1>1
  <2> QED BY <2>1 DEF Listed
<1>5. SingleCancelIsHonest'
  <2>1. handler[h].goal \in Goals
    BY <1>0, <1>1 DEF HandlerStates
  <2>2. \A c \in Cancels : answer'[c] = answer[c]
    BY <2>1, RequestsAssumption DEF Requests
  <2> QED BY <2>2 DEF IInv, SingleCancelIsHonest, CancelIsHonest, inputs, goalVars
<1> QED BY <1>3, <1>4, <1>5, HandlerWorksIInv

LEMMA DecidesIInv ==
  ASSUME IInv, NEW h \in Handlers, GoalChecks(h) \/ GoalRejects(h) PROVE IInv'
<1>0. handler[h] \in HandlerStates /\ InOrder(handler[h]) /\ Sound(handler[h]) /\ TypeOK
  BY DEF IInv, TypeOK, HandlersAreSound
<1>1. PICK p \in {"rejecting", "deciding"} : Goto(h, p)
  BY DEF GoalChecks, GoalRejects
<1>2. handler[h].pc \in {"goal", "deciding"}
      /\ UNCHANGED <<inputs, inbox, answer, goalVars, dictVars, result, awaits, ex, lost>>
  BY DEF GoalChecks, GoalRejects, At
<1>3. PICK b \in HandlerStates :
           /\ handler' = [handler EXCEPT ![h] = b] /\ b.pc = p
           /\ b.goal = handler[h].goal /\ b.cancel = handler[h].cancel /\ b.ask = handler[h].ask
           /\ b.expired = handler[h].expired /\ b.list = handler[h].list /\ b.i = handler[h].i
  BY <1>1, GotoIs DEF GoalSteps
<1>4. Stage(b)' /\ SoleSteps(b)'
  BY <1>0, <1>2, <1>3 DEF Sound, Stage, SoleSteps, goalVars
<1>5. answer' = [r \in Requests |-> answer'[r]]
  BY <1>0, <1>2 DEF TypeOK
<1> QED BY <1>2, <1>3, <1>4, <1>5, GoalStepIInv DEF GoalSteps, IInv, GoalsOnce

LEMMA AcceptRespondsIInv ==
  ASSUME IInv, NEW h \in Handlers, At(h, "accepting"), GoalResponds(h), handler[h].goal \notin gone
  PROVE  IInv'
<1>0. handler[h] \in HandlerStates /\ InOrder(handler[h]) /\ Sound(handler[h]) /\ TypeOK
  BY DEF IInv, TypeOK, HandlersAreSound
<1>1. PICK g \in Goals : g = handler[h].goal /\ g # None
  BY <1>0 DEF At, InOrder, HandlerStates, GoalSteps
<1>2. Goto(h, "accepted") /\ Answers(g, "accepted")
      /\ UNCHANGED <<inputs, inbox, goalVars, dictVars, result, awaits, ex, lost>>
  BY <1>1 DEF GoalResponds, At
<1>3. answer' = [answer EXCEPT ![g] = "accepted"]
  BY <1>1, <1>2 DEF Answers
<1>4. answer' = [r \in Requests |-> answer'[r]] /\ answer'[g] = "accepted"
      /\ \A r \in Requests : answer'[r] # answer[r] => r = g
  BY <1>0, <1>3 DEF TypeOK, Requests
<1>5. result[g] # "none" /\ status[g] # "none"
  BY <1>0, <1>1 DEF Sound, Stage, At, IInv, GoalsOnce
<1>6. PICK b \in HandlerStates :
           /\ handler' = [handler EXCEPT ![h] = b] /\ b.pc = "accepted"
           /\ b.goal = handler[h].goal /\ b.cancel = handler[h].cancel /\ b.ask = handler[h].ask
           /\ b.expired = handler[h].expired /\ b.list = handler[h].list /\ b.i = handler[h].i
  BY <1>2, GotoIs DEF GoalSteps
<1>7. Stage(b)' /\ SoleSteps(b)'
  BY <1>0, <1>1, <1>2, <1>5, <1>6 DEF Sound, Sole, Stage, SoleSteps, At, inputs, goalVars
<1>8. \A k \in Goals : /\ answer'[k] = "accepted" => status[k] # "none"
                       /\ answer'[k] = "rejected" => status[k] = "none"
  BY <1>4, <1>5 DEF IInv, GoalsOnce, Requests
<1> QED BY <1>1, <1>2, <1>4, <1>6, <1>7, <1>8, GoalStepIInv DEF GoalSteps, At

(* A handler is done with a part, or goes down.                            *)
LEMMA PartEndsIInv ==
  ASSUME IInv, NEW h \in Handlers, handler[h].pc \notin {"idle", "storing"},
         \/ GoalDone(h) /\ handler[h].pc \in GoalSteps /\ UNCHANGED lost
         \/ CancelDone(h) /\ handler[h].pc \in CancelSteps /\ UNCHANGED lost
         \/ AskDone(h) /\ handler[h].pc \in AskSteps /\ UNCHANGED lost
         \/ Fails(h) /\ (group = "exclusive" => ~Distinct),
         UNCHANGED <<inputs, inbox, goalVars, dictVars, result, ex>>,
         awaits' \in [Asks -> Goals \cup {None}],
         answer' = [r \in Requests |-> answer'[r]],
         \A r \in Requests : answer'[r] # answer[r] => r = handler[h].goal \/ r \notin Goals,
         \A g \in Goals : /\ answer'[g] = "accepted" => status[g] # "none"
                          /\ answer'[g] = "rejected" => status[g] = "none",
         SingleCancelIsHonest'
  PROVE  IInv'
<1>1. \E b \in HandlerStates :
        /\ handler' = [handler EXCEPT ![h] = b] /\ InOrder(b)
        /\ b.goal = None /\ b.pc \in {"idle", "cancel", "ask", "expire"} /\ b.list = <<>> /\ b.i = 1
        /\ \/ b.expired = handler[h].expired /\ UNCHANGED lost
           \/ /\ b.expired = {} /\ lost \subseteq lost' /\ lost' \subseteq Requests
              /\ handler[h].expired \subseteq lost'
              /\ group = "exclusive" => ~Distinct
  <2>1. CASE Fails(h) /\ (group = "exclusive" => ~Distinct)
    BY <2>1, FailIs
  <2>2. CASE /\ UNCHANGED lost
             /\ \/ GoalDone(h) /\ handler[h].pc \in GoalSteps
                \/ CancelDone(h) /\ handler[h].pc \in CancelSteps
                \/ AskDone(h) /\ handler[h].pc \in AskSteps
    BY <2>2, PartIs
  <2> QED BY <2>1, <2>2
<1>2. PICK b \in HandlerStates :
        /\ handler' = [handler EXCEPT ![h] = b] /\ InOrder(b)
        /\ b.goal = None /\ b.pc \in {"idle", "cancel", "ask", "expire"} /\ b.list = <<>> /\ b.i = 1
        /\ \/ b.expired = handler[h].expired /\ UNCHANGED lost
           \/ /\ b.expired = {} /\ lost \subseteq lost' /\ lost' \subseteq Requests
              /\ handler[h].expired \subseteq lost'
              /\ group = "exclusive" => ~Distinct
  BY <1>1
<1>3. HandlerGoesOn(h, b)
  BY <1>2 DEF HandlerGoesOn
<1>4. Stage(b)' /\ SoleSteps(b)' /\ Listed(b)'
  BY <1>2 DEF Stage, SoleSteps, Listed
<1> QED BY <1>3, <1>4, HandlerWorksIInv

LEMMA RespondsIInv ==
  ASSUME IInv, NEW h \in Handlers, GoalResponds(h) PROVE IInv'
<1>0. handler[h] \in HandlerStates /\ InOrder(handler[h]) /\ Sound(handler[h]) /\ TypeOK
  BY DEF IInv, TypeOK, HandlersAreSound
<1>1. PICK g \in Goals : g = handler[h].goal /\ g # None
  BY <1>0 DEF GoalResponds, At, InOrder, HandlerStates, GoalSteps
<1>2. CASE At(h, "accepting") /\ g \notin gone
  BY <1>1, <1>2, AcceptRespondsIInv
<1>3. CASE At(h, "rejecting") \/ g \in gone
  <2>1. PICK value : /\ answer' = [answer EXCEPT ![g] = value]
                     /\ (value = "rejected" /\ At(h, "rejecting")) \/ value = Gone
    BY <1>1, <1>3 DEF GoalResponds, Answers, At
  <2>2. GoalDone(h) /\ UNCHANGED <<inputs, inbox, goalVars, dictVars, result, awaits, ex, lost>>
    BY <1>1, <1>3 DEF GoalResponds, At
  <2>3. answer' = [r \in Requests |-> answer'[r]] /\ answer'[g] = value
        /\ \A r \in Requests : r # g => answer'[r] = answer[r]
    BY <1>0, <2>1 DEF TypeOK, Requests
  <2>4. \A k \in Goals : /\ answer'[k] = "accepted" => status[k] # "none"
                         /\ answer'[k] = "rejected" => status[k] = "none"
    <3>1. status[g] = "none" \/ value = Gone
      BY <1>0, <1>1, <2>1 DEF Sound, Stage, At
    <3>2. Gone # "accepted" /\ Gone # "rejected"
      BY RequestsAssumption
    <3> QED BY <2>1, <2>3, <3>1, <3>2 DEF IInv, GoalsOnce, Requests
  <2>5. SingleCancelIsHonest'
    <3>1. \A c \in Cancels : answer'[c] = answer[c]
      BY <1>1, <2>3, RequestsAssumption DEF Requests
    <3> QED BY <2>2, <3>1 DEF IInv, SingleCancelIsHonest, CancelIsHonest, inputs, goalVars
  <2>6. handler[h].pc \in GoalSteps \ {"idle", "storing"} /\ awaits \in [Asks -> Goals \cup {None}]
    BY <1>0 DEF GoalResponds, At, GoalSteps, TypeOK
  <2> QED BY <1>1, <2>2, <2>3, <2>4, <2>5, <2>6, PartEndsIInv
<1> QED BY <1>2, <1>3 DEF GoalResponds

LEMMA ExecutedIInv ==
  ASSUME IInv, NEW h \in Handlers, HandlerExecuted(h) PROVE IInv'
<1>0. handler[h] \in HandlerStates /\ InOrder(handler[h]) /\ Sole(handler[h]) /\ TypeOK
  BY DEF IInv, TypeOK, HandlersAreSound, Sound
<1>1. /\ handler[h].pc \in GoalSteps \ {"idle", "storing"}
      /\ handler[h].goal # None
      /\ UNCHANGED <<inputs, inbox, answer, goalVars, dictVars, result, awaits, ex>>
  BY <1>0 DEF HandlerExecuted, At, GoalSteps, InOrder
<1>2. \/ GoalDone(h) /\ UNCHANGED lost
      \/ Fails(h) /\ group # "exclusive"
  BY <1>0, <1>1 DEF HandlerExecuted, At, Sole, SoleSteps
<1>3. SingleCancelIsHonest'
  BY <1>1 DEF IInv, SingleCancelIsHonest, CancelIsHonest, inputs, goalVars
<1>4. answer' = [r \in Requests |-> answer'[r]] /\ awaits' \in [Asks -> Goals \cup {None}]
  BY <1>0, <1>1 DEF TypeOK
<1> QED BY <1>1, <1>2, <1>3, <1>4, PartEndsIInv DEF IInv, GoalsOnce

-----------------------------------------------------------------------------
(* Cancel requests *)

LEMMA ShorterList ==
  ASSUME NEW s \in Seq(Ids), NEW i \in Nat, i # 0, i <= Len(s)
  PROVE  /\ RemoveAt(s, i) \in Seq(Ids) /\ Len(RemoveAt(s, i)) = Len(s) - 1
<1>1. i \in 1 .. Len(s) /\ Len(s) \in Nat /\ i - 1 \in Nat
  OBVIOUS
<1>2. SubSeq(s, 1, i - 1) \in Seq(Ids) /\ Len(SubSeq(s, 1, i - 1)) = i - 1
  BY <1>1
<1>3. SubSeq(s, i + 1, Len(s)) \in Seq(Ids) /\ Len(SubSeq(s, i + 1, Len(s))) = Len(s) - i
  BY <1>1
<1>4. PICK u \in Seq(Ids), v \in Seq(Ids) : u = SubSeq(s, 1, i - 1) /\ v = SubSeq(s, i + 1, Len(s))
  BY <1>2, <1>3
<1>5. RemoveAt(s, i) = u \o v
  BY <1>4 DEF RemoveAt
<1>6. u \o v \in Seq(Ids) /\ Len(u \o v) = Len(u) + Len(v)
  BY ConcatProperties
<1>7. (i - 1) + (Len(s) - i) = Len(s) - 1
  BY <1>1
<1>8. Len(u) = i - 1 /\ Len(v) = Len(s) - i
  BY <1>2, <1>3, <1>4
<1> QED BY <1>5, <1>6, <1>7, <1>8

(* The goal at hand stays in the list, or leaves it.                       *)
LEMMA CancelMovesOn ==
  ASSUME NEW b \in HandlerStates, b.pc \in {"asking", "asked"}, b.i # 0, b.i <= Len(b.list), NEW d, d \in {Keeps(b), Drops(b)}
  PROVE  /\ d \in HandlerStates /\ d.pc = "asking" /\ d.i = b.i + 1 /\ d.goal = b.goal
         /\ d.cancel = b.cancel /\ d.expired = b.expired
         /\ d = Drops(b) => Len(d.list) = Len(b.list) - 1
         /\ d = Keeps(b) => d.list = b.list
<1>1. /\ b.list \in Seq(Ids) /\ b.i \in Nat /\ b.i + 1 \in Nat
  BY DEF HandlerStates
<1>2. RemoveAt(b.list, b.i) \in Seq(Ids) /\ Len(RemoveAt(b.list, b.i)) = Len(b.list) - 1
  BY <1>1, ShorterList
<1>3. "asking" \in {"idle"} \cup GoalSteps \cup CancelSteps \cup AskSteps \cup ExpireSteps
  BY DEF CancelSteps
<1>4. /\ Keeps(b) \in HandlerStates /\ Keeps(b).pc = "asking" /\ Keeps(b).i = b.i + 1 /\ Keeps(b).goal = b.goal
      /\ Keeps(b).cancel = b.cancel /\ Keeps(b).expired = b.expired
      /\ Keeps(b).list = b.list
  BY <1>1, <1>3 DEF Keeps, HandlerStates
<1>5. /\ Drops(b) \in HandlerStates /\ Drops(b).pc = "asking" /\ Drops(b).i = b.i + 1 /\ Drops(b).goal = b.goal
      /\ Drops(b).cancel = b.cancel /\ Drops(b).expired = b.expired
      /\ Drops(b).list = RemoveAt(b.list, b.i)
  BY <1>1, <1>2, <1>3 DEF Drops, HandlerStates
<1>6. Len(b.list) - 1 # Len(b.list)
  BY <1>1
<1> QED BY <1>2, <1>4, <1>5, <1>6

(* A handler goes from one step of its cancel request to another.          *)
LEMMA CancelStepIInv ==
  ASSUME IInv, NEW h \in Handlers, handler[h].pc \in CancelSteps,
         NEW b \in HandlerStates, handler' = [handler EXCEPT ![h] = b], b.pc \in {"asking", "asked"},
         b.goal = handler[h].goal, b.expired = handler[h].expired, b.cancel = handler[h].cancel,
         Stage(b), Listed(b),
         UNCHANGED <<inputs, inbox, answer, goalVars, dictVars, result, awaits, ex, lost>>
  PROVE  IInv'
<1>0. /\ handler[h] \in HandlerStates /\ InOrder(handler[h]) /\ TypeOK
      /\ UNCHANGED <<idOf, targets, status, result, group>>
  BY DEF IInv, TypeOK, HandlersAreSound, inputs, goalVars
<1>1. InOrder(b) /\ b.goal = None
  BY <1>0 DEF InOrder, GoalSteps, CancelSteps, AskSteps, ExpireSteps
<1>2. HandlerGoesOn(h, b)
  BY <1>0, <1>1 DEF HandlerGoesOn, TypeOK, CancelSteps
<1>3. Stage(b)' /\ Listed(b)' /\ SoleSteps(b)'
  BY <1>0, <1>1 DEF Stage, Listed, Honest, SoleSteps
<1>4. SingleCancelIsHonest'
  BY <1>0 DEF IInv, SingleCancelIsHonest, CancelIsHonest
<1> QED BY <1>2, <1>3, <1>4, HandlerWorksIInv DEF IInv, GoalsOnce

LEMMA ListsIInv ==
  ASSUME IInv, NEW h \in Handlers, CancelLists(h) PROVE IInv'
<1> DEFINE hit == {g \in known : idOf[g] \in targets[handler[h].cancel] /\ status[g] \in Legal["CANCEL_GOAL"]}
<1>0. /\ handler[h] \in HandlerStates /\ InOrder(handler[h]) /\ TypeOK
      /\ handler[h].pc = "cancel" /\ handler[h].i = 1 /\ handler[h].goal = None
  BY DEF IInv, TypeOK, HandlersAreSound, CancelLists, At, InOrder, GoalSteps
<1>1. handler[h].cancel \in Cancels
  BY <1>0 DEF InOrder, CancelSteps, HandlerStates
<1> DEFINE ids == {idOf[g] : g \in hit}
<1>2. ids \subseteq targets[handler[h].cancel] /\ ids \subseteq Ids /\ IsFiniteSet(ids)
      /\ IsFiniteSet(targets[handler[h].cancel])
  <2>1. ids \subseteq targets[handler[h].cancel] /\ targets[handler[h].cancel] \subseteq Ids
    BY <1>0, <1>1 DEF TypeOK
  <2> QED BY <2>1, RequestsAssumption, FS_Subset
<1> HIDE DEF ids
<1>3. PICK l \in SetToSeqs(ids) : handler' = [handler EXCEPT ![h].list = l, ![h].pc = "asking"]
  BY DEF CancelLists, ids
<1>4. l \in Seq(Ids) /\ Len(l) = Cardinality(ids)
  <2>1. Cardinality(ids) \in Nat
    BY <1>2, FS_CardinalityType
  <2>2. l \in [1 .. Cardinality(ids) -> ids]
    BY <1>3 DEF SetToSeqs
  <2> QED BY <1>2, <2>1, <2>2
<1>5. Cardinality(targets[handler[h].cancel]) = 1 => Len(l) <= 1
  BY <1>2, <1>4, FS_Subset
<1> DEFINE d == [handler[h] EXCEPT !.list = l, !.pc = "asking"]
<1>6. PICK b \in HandlerStates :
        /\ handler' = [handler EXCEPT ![h] = b] /\ b.pc = "asking" /\ b.list = l
        /\ b.goal = handler[h].goal /\ b.expired = handler[h].expired /\ b.cancel = handler[h].cancel
        /\ b.i = handler[h].i
  <2>1. d \in HandlerStates /\ handler' = [handler EXCEPT ![h] = d]
    BY <1>0, <1>3, <1>4 DEF HandlerStates, CancelSteps, TypeOK
  <2>2. /\ d.pc = "asking" /\ d.list = l
        /\ d.goal = handler[h].goal /\ d.expired = handler[h].expired /\ d.cancel = handler[h].cancel
        /\ d.i = handler[h].i
    BY <1>0 DEF HandlerStates
  <2> HIDE DEF d
  <2> QED BY <2>1, <2>2
<1>7. Stage(b) /\ Listed(b)
  BY <1>0, <1>5, <1>6 DEF Stage, Listed
<1> QED BY <1>0, <1>6, <1>7, CancelStepIInv DEF CancelLists, CancelSteps

(* A request to cancel one goal is at that goal, or has been through it.   *)
LEMMA TheOnlyGoal ==
  ASSUME NEW b, Listed(b), b.list \in Seq(Ids), b.i \in Nat, b.i <= Len(b.list)
  PROVE  Cardinality(targets[b.cancel]) = 1 /\ b.cancel # None => Len(b.list) = 1 /\ b.i = 1
<1>1. Len(b.list) \in Nat /\ b.i # 0
  BY DEF Listed
<1>2. Cardinality(targets[b.cancel]) = 1 /\ b.cancel # None => Len(b.list) <= 1
  BY DEF Listed
<1>3. \A m, n \in Nat : m # 0 /\ m <= n /\ n <= 1 => n = 1 /\ m = 1
  OBVIOUS
<1> QED BY <1>1, <1>2, <1>3

LEMMA AsksIInv ==
  ASSUME IInv, NEW h \in Handlers, CancelAsks(h) PROVE IInv'
<1>0. /\ handler[h] \in HandlerStates /\ InOrder(handler[h]) /\ Listed(handler[h]) /\ TypeOK
      /\ handler[h].pc = "asking" /\ handler[h].goal = None
      /\ handler[h].i # 0 /\ handler[h].i \in Nat /\ handler[h].i <= Len(handler[h].list)
      /\ handler[h].list \in Seq(Ids)
  BY DEF IInv, TypeOK, HandlersAreSound, Sound, Listed, CancelAsks, At, InOrder, GoalSteps, MoreGoals,
     HandlerStates
<1>1. PICK i0 \in Ids : i0 = Current(h) /\ i0 = handler[h].list[handler[h].i]
  BY <1>0 DEF Current
<1>2. Cardinality(targets[handler[h].cancel]) = 1 /\ handler[h].cancel # None =>
        Len(handler[h].list) = 1 /\ handler[h].i = 1
  BY <1>0, TheOnlyGoal
<1>3. CASE handleOf[i0] = None
  <2>1. PICK b \in HandlerStates : b = Drops(handler[h]) /\ handler' = [handler EXCEPT ![h] = b]
    BY <1>0, <1>1, <1>3, CancelMovesOn DEF CancelAsks
  <2>2. /\ b.pc = "asking" /\ b.i = handler[h].i + 1 /\ b.goal = handler[h].goal
        /\ b.cancel = handler[h].cancel /\ b.expired = handler[h].expired
        /\ Len(b.list) = Len(handler[h].list) - 1
    BY <1>0, <2>1, CancelMovesOn
  <2>3. Stage(b) /\ Listed(b)
    BY <1>0, <1>2, <2>2 DEF Stage, Listed
  <2> QED BY <1>0, <2>1, <2>2, <2>3, CancelStepIInv DEF CancelAsks, CancelSteps
<1>4. CASE handleOf[i0] # None
  <2>1. PICK g \in Goals : g = handleOf[i0] /\ idOf[g] = i0 /\ result[g] # "none"
    BY <1>0, <1>4 DEF TypeOK, IInv, HandlesAreKnown
  <2> DEFINE d == [handler[h] EXCEPT !.pc = "asked", !.object = g]
  <2>2. PICK b \in HandlerStates :
          /\ handler' = [handler EXCEPT ![h] = b] /\ b.pc = "asked" /\ b.list = handler[h].list
          /\ b.goal = handler[h].goal /\ b.expired = handler[h].expired /\ b.cancel = handler[h].cancel
          /\ b.i = handler[h].i /\ b.object = g
    <3>1. d \in HandlerStates
      BY <1>0 DEF HandlerStates, CancelSteps
    <3>2. handler' = [handler EXCEPT ![h] = d]
      BY <1>1, <1>4, <2>1 DEF CancelAsks
    <3>3. /\ d.pc = "asked" /\ d.list = handler[h].list
          /\ d.goal = handler[h].goal /\ d.expired = handler[h].expired /\ d.cancel = handler[h].cancel
          /\ d.i = handler[h].i /\ d.object = g
      BY <1>0 DEF HandlerStates
    <3> HIDE DEF d
    <3> QED BY <3>1, <3>2, <3>3
  <2>3. Stage(b) /\ Listed(b)
    BY <1>0, <1>1, <1>2, <2>1, <2>2 DEF Stage, Listed
  <2> QED BY <1>0, <2>2, <2>3, CancelStepIInv DEF CancelAsks, CancelSteps
<1> QED BY <1>3, <1>4

LEMMA RefusedIInv ==
  ASSUME IInv, NEW h \in Handlers, CancelRefused(h) PROVE IInv'
<1>0. /\ handler[h] \in HandlerStates /\ InOrder(handler[h]) /\ Listed(handler[h]) /\ Stage(handler[h])
      /\ handler[h].pc = "asked" /\ handler[h].goal = None
      /\ handler[h].i # 0 /\ handler[h].i \in Nat /\ handler[h].i <= Len(handler[h].list)
      /\ handler[h].list \in Seq(Ids)
  BY DEF IInv, TypeOK, HandlersAreSound, Sound, Listed, Stage, CancelRefused, At, InOrder, GoalSteps,
     HandlerStates
<1>1. Cardinality(targets[handler[h].cancel]) = 1 /\ handler[h].cancel # None =>
        Len(handler[h].list) = 1 /\ handler[h].i = 1
  BY <1>0, TheOnlyGoal
<1>2. PICK b \in HandlerStates : b = Drops(handler[h]) /\ handler' = [handler EXCEPT ![h] = b]
  BY <1>0, CancelMovesOn DEF CancelRefused
<1>3. /\ b.pc = "asking" /\ b.i = handler[h].i + 1 /\ b.goal = handler[h].goal
      /\ b.cancel = handler[h].cancel /\ b.expired = handler[h].expired
      /\ Len(b.list) = Len(handler[h].list) - 1
  BY <1>0, <1>2, CancelMovesOn
<1>4. Stage(b) /\ Listed(b)
  BY <1>0, <1>1, <1>3 DEF Stage, Listed
<1> QED BY <1>0, <1>2, <1>3, <1>4, CancelStepIInv DEF CancelRefused, CancelSteps

LEMMA CancelRespondsIInv ==
  ASSUME IInv, NEW h \in Handlers, CancelResponds(h) PROVE IInv'
<1>0. /\ handler[h] \in HandlerStates /\ InOrder(handler[h]) /\ Listed(handler[h]) /\ TypeOK
      /\ handler[h].pc = "asking" /\ handler[h].goal = None
      /\ handler[h].i # 0 /\ handler[h].i \in Nat /\ ~(handler[h].i <= Len(handler[h].list))
      /\ handler[h].list \in Seq(Ids)
      /\ UNCHANGED <<inputs, inbox, goalVars, dictVars, result, awaits, ex, lost>>
  BY DEF IInv, TypeOK, HandlersAreSound, Sound, Listed, CancelResponds, At, InOrder, GoalSteps,
     MoreGoals, HandlerStates
<1>1. PICK c \in Cancels : c = handler[h].cancel /\ c # None
  BY <1>0 DEF InOrder, CancelSteps, HandlerStates
<1>2. PICK value : /\ answer' = [answer EXCEPT ![c] = value]
                   /\ value = Gone \/ value = ToSet(handler[h].list)
  BY <1>1 DEF CancelResponds, Answers
<1>3. answer' = [r \in Requests |-> answer'[r]] /\ answer'[c] = value
      /\ \A r \in Requests : r # c => answer'[r] = answer[r]
  BY <1>0, <1>2 DEF TypeOK, Requests
<1>4. \A g \in Goals : g # c /\ answer'[g] = answer[g]
  BY <1>3, RequestsAssumption DEF Requests
<1>5. SingleCancelIsHonest'
  <2> SUFFICES ASSUME NEW d \in Cancels, Cardinality(targets'[d]) = 1, answer'[d] \notin {None, Gone},
                      NEW i \in answer'[d]
               PROVE  Honest(i)
    BY <1>0 DEF SingleCancelIsHonest, CancelIsHonest, Honest, inputs, goalVars
  <2>1. CASE d # c
    BY <1>0, <1>3, <2>1 DEF IInv, SingleCancelIsHonest, CancelIsHonest, Honest, inputs, Requests
  <2>2. CASE d = c
    <3>1. value = ToSet(handler[h].list)
      BY <1>2, <1>3, <2>2
    <3>2. PICK n \in DOMAIN handler[h].list : i = handler[h].list[n]
      BY <1>3, <2>2, <3>1 DEF ToSet
    <3>3. n \in 1 .. Len(handler[h].list) /\ handler[h].i # 1
      BY <1>0
    <3> QED BY <1>0, <1>1, <2>2, <3>2, <3>3 DEF Listed, inputs
  <2> QED BY <2>1, <2>2
<1>6. CancelDone(h) /\ handler[h].pc \in CancelSteps /\ handler[h].pc \notin {"idle", "storing"}
  BY <1>0 DEF CancelResponds, CancelSteps
<1>7. awaits' \in [Asks -> Goals \cup {None}]
  BY <1>0 DEF TypeOK
<1>8. \A r \in Requests : answer'[r] # answer[r] => r \notin Goals
  BY <1>3, <1>4
<1>9. \A g \in Goals : /\ answer'[g] = "accepted" => status[g] # "none"
                       /\ answer'[g] = "rejected" => status[g] = "none"
  BY <1>4 DEF IInv, GoalsOnce
<1> QED BY <1>0, <1>3, <1>5, <1>6, <1>7, <1>8, <1>9, PartEndsIInv

-----------------------------------------------------------------------------
(* Result requests *)

LEMMA AskTestsIInv ==
  ASSUME IInv, NEW h \in Handlers, AskTests(h) PROVE IInv'
<1>0. /\ handler[h] \in HandlerStates /\ InOrder(handler[h]) /\ TypeOK
      /\ handler[h].pc = "ask" /\ handler[h].goal = None
      /\ UNCHANGED <<inputs, inbox, goalVars, dictVars, result, awaits, ex>>
      /\ awaits' \in [Asks -> Goals \cup {None}]
  BY DEF IInv, TypeOK, HandlersAreSound, AskTests, At, InOrder, GoalSteps
<1>1. PICK q \in Asks : q = handler[h].ask /\ q # None
  BY <1>0 DEF InOrder, AskSteps, HandlerStates
<1>2. CASE handleOf[TheIdOf(q)] # None
  <2>1. Goto(h, "registering") /\ UNCHANGED <<answer, lost>>
    BY <1>1, <1>2 DEF AskTests
  <2>2. PICK b \in HandlerStates :
           /\ handler' = [handler EXCEPT ![h] = b] /\ b.pc = "registering"
           /\ b.goal = handler[h].goal /\ b.cancel = handler[h].cancel /\ b.ask = handler[h].ask
           /\ b.expired = handler[h].expired /\ b.list = handler[h].list /\ b.i = handler[h].i
    BY <2>1, GotoIs DEF AskSteps
  <2>3. InOrder(b) /\ b.i = 1 /\ b.list = <<>>
    BY <1>0, <2>2 DEF InOrder, GoalSteps, CancelSteps, AskSteps, ExpireSteps
  <2>4. HandlerGoesOn(h, b)
    BY <1>0, <2>1, <2>2, <2>3 DEF HandlerGoesOn, TypeOK
  <2>5. futureOf[TheIdOf(q)] # None
    BY <1>2 DEF IInv, HandlesAreKnown
  <2>6. SoleSteps(b)'
    <3>1. TheIdOf(q)' = TheIdOf(q) /\ futureOf' = futureOf
      BY <1>0 DEF TheIdOf, inputs, dictVars
    <3> QED BY <1>0, <1>1, <2>2, <2>5, <3>1 DEF SoleSteps
  <2>7. Stage(b)' /\ Listed(b)'
    BY <1>0, <2>2, <2>3 DEF Stage, Listed
  <2>8. SingleCancelIsHonest'
    BY <1>0, <2>1 DEF IInv, SingleCancelIsHonest, CancelIsHonest, inputs, goalVars
  <2> QED BY <2>1, <2>4, <2>6, <2>7, <2>8, HandlerWorksIInv DEF IInv, GoalsOnce
<1>3. CASE handleOf[TheIdOf(q)] = None
  <2>1. PICK value : answer' = [answer EXCEPT ![q] = value]
    BY <1>1, <1>3 DEF AskTests, Answers
  <2>2. \/ AskDone(h) /\ UNCHANGED lost
        \/ Fails(h) /\ q \in gone
    BY <1>1, <1>3 DEF AskTests
  <2>3. answer' = [r \in Requests |-> answer'[r]]
        /\ \A r \in Requests : r # q => answer'[r] = answer[r]
    BY <1>0, <2>1 DEF TypeOK, Requests
  <2>4. q \notin Goals \cup Cancels
    BY RequestsAssumption
  <2>5. /\ \A r \in Requests : answer'[r] # answer[r] => r \notin Goals
        /\ \A c \in Cancels : answer'[c] = answer[c]
        /\ \A g \in Goals : answer'[g] = answer[g]
    BY <2>3, <2>4 DEF Requests
  <2>6. SingleCancelIsHonest'
    BY <1>0, <2>5 DEF IInv, SingleCancelIsHonest, CancelIsHonest, inputs, goalVars
  <2>7. q \in gone => ~Distinct
    BY DEF Distinct
  <2>8. handler[h].pc \in AskSteps /\ handler[h].pc \notin {"idle", "storing"}
    BY <1>0 DEF AskSteps
  <2>9. \A g \in Goals : /\ answer'[g] = "accepted" => status[g] # "none"
                         /\ answer'[g] = "rejected" => status[g] = "none"
    BY <2>5 DEF IInv, GoalsOnce
  <2> QED BY <1>0, <2>2, <2>3, <2>5, <2>6, <2>7, <2>8, <2>9, PartEndsIInv
<1> QED BY <1>2, <1>3

LEMMA AskRegistersIInv ==
  ASSUME IInv, NEW h \in Handlers, AskRegisters(h) PROVE IInv'
<1>0. /\ handler[h] \in HandlerStates /\ InOrder(handler[h]) /\ Sole(handler[h]) /\ TypeOK
      /\ handler[h].pc = "registering"
      /\ UNCHANGED <<inputs, inbox, answer, goalVars, dictVars, result, ex>>
  BY DEF IInv, TypeOK, HandlersAreSound, Sound, AskRegisters, At
<1>1. PICK q \in Asks : q = handler[h].ask /\ q # None
  BY <1>0 DEF InOrder, AskSteps, HandlerStates
<1>2. \/ AskDone(h) /\ UNCHANGED lost
      \/ Fails(h) /\ group # "exclusive"
  BY <1>0, <1>1 DEF AskRegisters, Sole, SoleSteps
<1>3. SingleCancelIsHonest'
  BY <1>0 DEF IInv, SingleCancelIsHonest, CancelIsHonest, inputs, goalVars
<1>4. handler[h].pc \in AskSteps /\ handler[h].pc \notin {"idle", "storing"}
  BY <1>0 DEF AskSteps
<1>5. awaits' \in [Asks -> Goals \cup {None}]
  BY <1>0, <1>1 DEF AskRegisters, TypeOK
<1>6. answer' = [r \in Requests |-> answer'[r]]
  BY <1>0 DEF TypeOK
<1> QED BY <1>0, <1>2, <1>3, <1>4, <1>5, <1>6, PartEndsIInv DEF IInv, GoalsOnce

-----------------------------------------------------------------------------
(* The goals, their execution and the answers with results *)

(* A step of the goals that leaves the handlers alone: the states go       *)
(* forward, and only for goals that were handed out.                       *)
LEMMA GoalsGoOnIInv ==
  ASSUME IInv, TypeOK', Forward,
         UNCHANGED <<inputs, inbox, known, alive, dictVars, handler, lost>>,
         \A r \in Requests : answer'[r] # answer[r] => r \in Asks,
         \A g \in Goals : result[g] = "none" => result'[g] = "none" /\ status'[g] = status[g]
                                                  /\ ex'[g] = "none",
         \A g \in Goals : result'[g] = "none" => result[g] = "none",
         \A h \in Handlers : handler[h].goal # None => SoleSteps(handler[h])',
         ResultsAreFinal'
  PROVE  IInv'
<1>0. /\ UNCHANGED <<gone, group, idOf, targets, handleOf, futureOf, inbox, known, alive, handler, lost>>
      /\ TypeOK
  BY DEF inputs, dictVars, IInv
<1>1. /\ \A i : Honest(i) => Honest(i)'
      /\ \A i : HasEnded(i) => HasEnded(i)'
      /\ \A i : Reused(i) => Reused(i)'
      /\ Distinct' => Distinct
  BY ForwardKeeps
<1>2. \A g \in Goals : answer'[g] = answer[g]
  BY RequestsAssumption DEF Requests
<1>3. \A c \in Cancels : answer'[c] = answer[c]
  BY RequestsAssumption DEF Requests
<1>4. \A g \in Goals : status[g] # "none" <=> status'[g] # "none"
  BY DEF Forward, IInv, GoalsOnce
<1>5. HandlersAreSound'
  <2> SUFFICES ASSUME NEW h \in Handlers PROVE InOrder(handler[h])' /\ Sound(handler[h])'
    BY DEF HandlersAreSound
  <2>1. /\ InOrder(handler[h]) /\ Sound(handler[h]) /\ handler[h] \in HandlerStates
        /\ handler'[h] = handler[h]
    BY <1>0 DEF IInv, HandlersAreSound, TypeOK
  <2>2. InOrder(handler[h])'
    BY <2>1 DEF InOrder
  <2>3. Stage(handler[h])'
    <3>1. handler[h].goal # None => handler[h].goal \in Goals
      BY <2>1 DEF HandlerStates
    <3>2. handler[h].pc \in {"goal", "deciding", "rejecting"} /\ handler[h].goal # None =>
            result[handler[h].goal] = "none"
      BY <2>1, <3>1 DEF Sound, Stage, IInv, GoalsOnce
    <3> QED BY <1>0, <1>2, <2>1, <3>1, <3>2 DEF Sound, Stage
  <2>4. Listed(handler[h])'
    BY <1>0, <1>1, <2>1 DEF Sound, Listed
  <2>5. Expires(handler[h])'
    BY <1>0, <2>1 DEF Sound, Expires, Forward, HandlerStates
  <2>6. Sole(handler[h])'
    <3>1. SoleSteps(handler[h])'
      BY <1>0, <2>1 DEF Sound, Sole, SoleSteps, TheIdOf
    <3> QED BY <1>0, <1>1, <2>1, <3>1 DEF Sound, Sole
  <2> QED BY <2>2, <2>3, <2>4, <2>5, <2>6 DEF Sound
<1>6. Alone'
  BY <1>0, <1>1 DEF IInv, Alone, At
<1>7. GoalsOnce'
  <2>1. \A g \in Goals : result[g] = "none" <=> result'[g] = "none"
    OBVIOUS
  <2> QED BY <1>0, <1>2, <1>4, <2>1 DEF IInv, GoalsOnce
<1>8. HandlesAreKnown'
  BY <1>0, <1>1 DEF IInv, HandlesAreKnown, TypeOK, Expiring, Storing, At
<1>9. DeadHaveEnded'
  BY <1>0, <1>1, <1>4 DEF IInv, DeadHaveEnded
<1>10. SingleCancelIsHonest'
  <2>1. \A c \in Cancels : CancelIsHonest(c) => CancelIsHonest(c)'
    BY <1>1, <1>3 DEF CancelIsHonest, Honest
  <2> QED BY <1>0, <2>1 DEF IInv, SingleCancelIsHonest
<1> QED BY <1>5, <1>6, <1>7, <1>8, <1>9, <1>10 DEF IInv

(* A result goes to the future of the goal's id.                           *)
LEMMA SetResultIs ==
  ASSUME IInv, NEW g \in Goals, NEW s \in Terminal \cup {"unknown"}, SetResult(g, s)
  PROVE  /\ result' \in [Goals -> Results]
         /\ \A k \in Goals : \/ result'[k] = result[k]
                             \/ /\ idOf[k] = idOf[g] /\ result[k] # "none" /\ result'[k] = s
                                /\ status[k] # "none"
<1>0. /\ result \in [Goals -> Results] /\ futureOf \in [Ids -> Goals \cup {None}]
      /\ idOf \in [Goals -> Ids]
  BY DEF IInv, TypeOK
<1>1. CASE futureOf[idOf[g]] = None
  BY <1>0, <1>1 DEF SetResult
<1>2. CASE futureOf[idOf[g]] # None
  <2>1. PICK f \in Goals : f = futureOf[idOf[g]] /\ idOf[f] = idOf[g] /\ result[f] # "none"
    BY <1>0, <1>2 DEF IInv, HandlesAreKnown
  <2>2. status[f] # "none"
    BY <2>1 DEF IInv, GoalsOnce
  <2>3. result' = [result EXCEPT ![f] = s]
    BY <1>2, <2>1 DEF SetResult
  <2> QED BY <1>0, <2>1, <2>2, <2>3 DEF Results
<1> QED BY <1>1, <1>2

(* The goal of a handler that is alone is not changed by other steps.      *)
LEMMA OneGoalSole ==
  ASSUME IInv, NEW g \in Goals, ex[g] # "none",
         \A k \in Goals \ {g} : status'[k] = status[k] /\ ex'[k] = ex[k],
         UNCHANGED <<inputs, dictVars>>,
         ex[g] \notin {"raised", "deferred"} =>
           /\ ex'[g] \notin {"raised", "deferred"} \/ (ex[g] \in {"called", "tested"} /\ status[g] # "accepted")
           /\ ex'[g] \in {"called", "tested"} =>
                ex[g] \in {"called", "tested"} /\ (status[g] = "accepted" => status'[g] = "accepted")
  PROVE  \A h \in Handlers : handler[h].goal # None => SoleSteps(handler[h])' \/ handler' # handler
<1> SUFFICES ASSUME NEW h \in Handlers, handler[h].goal # None, handler' = handler
             PROVE  SoleSteps(handler[h])'
  OBVIOUS
<1>1. /\ handler[h] \in HandlerStates /\ SoleSteps(handler[h]) /\ handler'[h] = handler[h]
      /\ handler[h].goal \in Goals /\ InOrder(handler[h])
      /\ UNCHANGED <<group, targets, futureOf>>
  BY DEF IInv, TypeOK, HandlersAreSound, Sound, Sole, HandlerStates, inputs, dictVars
<1>2. handler[h].pc # "registering"
  BY <1>1 DEF InOrder, GoalSteps
<1> QED BY <1>1, <1>2 DEF SoleSteps

LEMMA RunIInv ==
  ASSUME IInv, NEW g \in Goals,
         DeferredExecute(g) \/ ExecuteTests(g) \/ CallbackReturns(g)
  PROVE  IInv'
<1>0. /\ ex[g] \in {"deferred", "called", "callback"}
      /\ UNCHANGED <<inputs, inbox, answer, goalVars, dictVars, result, awaits, handler, lost>>
      /\ ex \in [Goals -> Executions] /\ status \in [Goals -> Statuses]
      /\ TypeOK
  BY DEF DeferredExecute, ExecuteTests, CallbackReturns, IInv, TypeOK
<1>1. PICK p \in Executions \ {"none"} : ex' = [ex EXCEPT ![g] = p]
  BY DEF DeferredExecute, ExecuteTests, CallbackReturns, ExGoto, AfterTest, Executions
<1>2. TypeOK'
  BY <1>0, <1>1 DEF TypeOK, inputs, goalVars, dictVars, Executions, TheIdOf
<1>3. Forward
  BY <1>0 DEF Forward, goalVars
<1>4. result[g] # "none" /\ status[g] # "none"
  BY <1>0 DEF IInv, GoalsOnce
<1>5. \A k \in Goals : /\ ex'[k] = IF k = g THEN p ELSE ex[k]
                       /\ status'[k] = status[k]
  BY <1>0, <1>1 DEF goalVars
<1>6. \A h \in Handlers : handler[h].goal # None => SoleSteps(handler[h])'
  <2>1. ex[g] # "deferred" => p \in {"callback", "tested", "aborting", "setting"} /\ (p = "tested" => ex[g] = "called")
    BY <1>0, <1>1, <1>5 DEF DeferredExecute, ExecuteTests, CallbackReturns, ExGoto, AfterTest
  <2> QED BY <1>0, <1>5, <2>1, OneGoalSole
<1>7. ResultsAreFinal'
  <2>1. p = "setting" /\ alive[g] => status[g] \in Terminal
    <3> SUFFICES ASSUME p = "setting", alive[g] PROVE status[g] \in Terminal
      OBVIOUS
    <3>1. CallbackReturns(g)
      BY <1>0, <1>5 DEF DeferredExecute, ExecuteTests, ExGoto, AfterTest
    <3>2. ~IsActive(g)
      BY <1>5, <3>1 DEF CallbackReturns, ExGoto
    <3> QED BY <1>0, <1>4, <3>2 DEF IsActive, Statuses
  <2> QED BY <1>0, <1>5, <2>1 DEF IInv, ResultsAreFinal, Reused, inputs, goalVars
<1>8. \A k \in Goals : result[k] = "none" => ex'[k] = "none"
  BY <1>4, <1>5 DEF IInv, GoalsOnce
<1> QED BY <1>0, <1>2, <1>3, <1>5, <1>6, <1>7, <1>8, GoalsGoOnIInv DEF goalVars

LEMMA UpdateIs ==
  ASSUME IInv, NEW g \in Goals,
         NEW event \in {"EXECUTE", "CANCEL_GOAL", "SUCCEED", "ABORT", "CANCELED"}, UpdateState(g, event)
  PROVE  /\ Forward /\ status' \in [Goals -> Statuses]
         /\ \A k \in Goals \ {g} : status'[k] = status[k]
         /\ ~Raises(g, event) /\ alive[g] => status'[g] = Becomes[event] /\ status[g] \in Legal[event]
         /\ Raises(g, event) \/ ~alive[g] => status'[g] = status[g]
         /\ status[g] = "none" => status'[g] = "none"
<1>0. status \in [Goals -> Statuses]
  BY DEF IInv, TypeOK
<1>1. CASE alive[g] /\ ~Raises(g, event)
  <2>1. status[g] \in Legal[event]
    BY <1>1 DEF Raises
  <2>2. status' = [status EXCEPT ![g] = Becomes[event]]
    BY <1>1 DEF UpdateState
  <2>3. /\ Becomes[event] \in Active \cup Terminal
        /\ status[g] \in Active
        /\ status[g] = "canceling" => Becomes[event] \in Terminal
    BY <2>1 DEF Legal, Becomes, Active, Terminal
  <2>4. "none" \notin Active \cup Terminal /\ Active \cap Terminal = {}
    BY DEF Active, Terminal
  <2> QED BY <1>0, <1>1, <2>1, <2>2, <2>3, <2>4 DEF Forward, Statuses
<1>2. CASE ~(alive[g] /\ ~Raises(g, event))
  BY <1>0, <1>2 DEF UpdateState, Forward
<1> QED BY <1>1, <1>2

LEMMA ExecuteUpdatesIInv == ASSUME IInv, NEW g \in Goals, ExecuteUpdates(g) PROVE IInv'
<1>0. /\ ex[g] = "tested"
      /\ UNCHANGED <<inputs, inbox, answer, known, alive, dictVars, result, awaits, handler, lost>>
      /\ ex \in [Goals -> Executions] /\ TypeOK /\ UpdateState(g, "EXECUTE")
  BY DEF ExecuteUpdates, IInv, TypeOK
<1>1. /\ Forward /\ status' \in [Goals -> Statuses]
      /\ \A k \in Goals \ {g} : status'[k] = status[k]
      /\ ~Raises(g, "EXECUTE") /\ alive[g] => status'[g] = Becomes["EXECUTE"] /\ status[g] \in Legal["EXECUTE"]
      /\ Raises(g, "EXECUTE") \/ ~alive[g] => status'[g] = status[g]
  BY <1>0, UpdateIs
<1>2. PICK p \in {"raised", "callback"} : ex' = [ex EXCEPT ![g] = p] /\ (p = "raised" <=> Raises(g, "EXECUTE"))
  BY DEF ExecuteUpdates, ExGoto
<1>3. \A k \in Goals : ex'[k] = IF k = g THEN p ELSE ex[k]
  BY <1>0, <1>2
<1>4. TypeOK'
  BY <1>0, <1>1, <1>2 DEF TypeOK, inputs, dictVars, Executions, TheIdOf
<1>5. result[g] # "none"
  BY <1>0 DEF IInv, GoalsOnce
<1>6. \A h \in Handlers : handler[h].goal # None => SoleSteps(handler[h])'
  <2>1. p = "raised" => status[g] # "accepted"
    BY <1>2 DEF Raises, Legal
  <2> QED BY <1>0, <1>1, <1>3, <2>1, OneGoalSole
<1>7. ResultsAreFinal'
  <2>1. \A i : Reused(i) => Reused(i)'
    BY <1>0, <1>1, ForwardKeeps
  <2>2. \A k \in Goals : status[k] \in Terminal => status'[k] = status[k]
    BY <1>1 DEF Forward
  <2> QED BY <1>0, <1>3, <2>1, <2>2 DEF IInv, ResultsAreFinal, inputs
<1> QED BY <1>0, <1>1, <1>3, <1>4, <1>5, <1>6, <1>7, GoalsGoOnIInv DEF IInv, GoalsOnce

LEMMA TaskAbortsIInv == ASSUME IInv, NEW g \in Goals, TaskAborts(g) PROVE IInv'
<1>0. /\ ex[g] = "aborting"
      /\ UNCHANGED <<inputs, inbox, answer, known, alive, dictVars, result, awaits, handler, lost>>
      /\ ex \in [Goals -> Executions] /\ TypeOK /\ UpdateState(g, "ABORT")
  BY DEF TaskAborts, IInv, TypeOK
<1>1. /\ Forward /\ status' \in [Goals -> Statuses]
      /\ \A k \in Goals \ {g} : status'[k] = status[k]
      /\ ~Raises(g, "ABORT") /\ alive[g] => status'[g] = Becomes["ABORT"]
  BY <1>0, UpdateIs
<1>2. PICK p \in {"failed", "setting"} : ex' = [ex EXCEPT ![g] = p] /\ (p = "failed" <=> Raises(g, "ABORT"))
  BY DEF TaskAborts, ExGoto
<1>3. \A k \in Goals : ex'[k] = IF k = g THEN p ELSE ex[k]
  BY <1>0, <1>2
<1>4. TypeOK'
  BY <1>0, <1>1, <1>2 DEF TypeOK, inputs, dictVars, Executions, TheIdOf
<1>5. result[g] # "none"
  BY <1>0 DEF IInv, GoalsOnce
<1>6. \A h \in Handlers : handler[h].goal # None => SoleSteps(handler[h])'
  BY <1>0, <1>1, <1>3, OneGoalSole
<1>7. ResultsAreFinal'
  <2>1. \A i : Reused(i) => Reused(i)'
    BY <1>0, <1>1, ForwardKeeps
  <2>2. \A k \in Goals : status[k] \in Terminal => status'[k] = status[k]
    BY <1>1 DEF Forward
  <2>3. p = "setting" /\ alive[g] => status'[g] \in Terminal
    BY <1>1, <1>2 DEF Becomes, Terminal
  <2> QED BY <1>0, <1>3, <2>1, <2>2, <2>3 DEF IInv, ResultsAreFinal, inputs
<1> QED BY <1>0, <1>1, <1>3, <1>4, <1>5, <1>6, <1>7, GoalsGoOnIInv DEF IInv, GoalsOnce

LEMMA SetsResultIInv == ASSUME IInv, NEW g \in Goals, TaskSetsResult(g) PROVE IInv'
<1>0. /\ ex[g] = "setting"
      /\ UNCHANGED <<inputs, inbox, answer, goalVars, dictVars, awaits, handler, lost>>
      /\ ex \in [Goals -> Executions] /\ TypeOK
  BY DEF TaskSetsResult, IInv, TypeOK
<1>1. result[g] # "none" /\ status[g] # "none" /\ (alive[g] => status[g] \in Terminal)
  BY <1>0 DEF IInv, GoalsOnce, ResultsAreFinal
<1>2. PICK s \in Terminal \cup {"unknown"} : s = StatusOf(g) /\ SetResult(g, s)
  BY <1>1 DEF TaskSetsResult, StatusOf
<1>3. /\ result' \in [Goals -> Results]
      /\ \A k \in Goals : \/ result'[k] = result[k]
                          \/ /\ idOf[k] = idOf[g] /\ result[k] # "none" /\ result'[k] = s
                             /\ status[k] # "none"
  BY <1>2, SetResultIs
<1>4. PICK p \in {"failed", "done"} : ex' = [ex EXCEPT ![g] = p]
  BY DEF TaskSetsResult, ExGoto
<1>5. \A k \in Goals : ex'[k] = IF k = g THEN p ELSE ex[k]
  BY <1>0, <1>4
<1>6. TypeOK'
  BY <1>0, <1>3, <1>4 DEF TypeOK, inputs, goalVars, dictVars, Executions, TheIdOf
<1>7. \A h \in Handlers : handler[h].goal # None => SoleSteps(handler[h])'
  BY <1>0, <1>5, OneGoalSole DEF goalVars
<1>8. Forward
  BY <1>0 DEF Forward, goalVars
<1>9. ResultsAreFinal'
  <2>1. \A k \in Goals : ~Reused(idOf[k]) /\ result'[k] # result[k] => k = g
    BY <1>1, <1>3 DEF Reused
  <2>2. ~alive[g] => HasEnded(idOf[g])
    BY <1>1 DEF IInv, DeadHaveEnded
  <2>3. ~Reused(idOf[g]) /\ HasEnded(idOf[g]) => status[g] \in Terminal
    BY <1>1 DEF HasEnded, Reused, Terminal
  <2>4. ~Reused(idOf[g]) => /\ status[g] \in Terminal
                            /\ s = status[g] \/ (s = "unknown" /\ ~alive[g])
    BY <1>1, <1>2, <2>2, <2>3 DEF StatusOf
  <2>5. \A k \in Goals : Reused(idOf[k])' <=> Reused(idOf[k])
    BY <1>0 DEF Reused, inputs, goalVars
  <2> QED BY <1>0, <1>3, <1>5, <2>1, <2>4, <2>5 DEF IInv, ResultsAreFinal, inputs, goalVars
<1>10. \A k \in Goals : (result'[k] = "none" <=> result[k] = "none")
  BY <1>2, <1>3 DEF Terminal
<1> QED BY <1>0, <1>1, <1>5, <1>6, <1>7, <1>8, <1>9, <1>10, GoalsGoOnIInv DEF IInv, GoalsOnce, goalVars

LEMMA UserUpdatesIInv == ASSUME IInv, NEW g \in Goals, UserUpdates(g) PROVE IInv'
<1>0. /\ ex[g] \notin {"none", "called", "tested"}
      /\ UNCHANGED <<inputs, inbox, answer, known, alive, dictVars, awaits, ex, handler, lost>>
      /\ ex \in [Goals -> Executions] /\ TypeOK /\ result \in [Goals -> Results]
  BY DEF UserUpdates, HasHandle, IInv, TypeOK
<1>1. PICK event \in Ended :
        /\ ~Raises(g, event) /\ UpdateState(g, event)
        /\ UNCHANGED result \/ SetResult(g, IF alive[g] THEN Becomes[event] ELSE "unknown")
  BY DEF UserUpdates
<1>2. event \in {"SUCCEED", "ABORT", "CANCELED"} /\ Becomes[event] \in Terminal
  BY EndedAssumption DEF Becomes, Terminal
<1>3. /\ Forward /\ status' \in [Goals -> Statuses]
      /\ \A k \in Goals \ {g} : status'[k] = status[k]
      /\ alive[g] => status'[g] = Becomes[event] /\ status[g] \in Legal[event]
      /\ ~alive[g] => status'[g] = status[g]
  BY <1>1, <1>2, UpdateIs
<1>4. PICK s \in Terminal \cup {"unknown"} : s = IF alive[g] THEN Becomes[event] ELSE "unknown"
  BY <1>2
<1>5. /\ result' \in [Goals -> Results]
      /\ \A k \in Goals : \/ result'[k] = result[k]
                          \/ /\ idOf[k] = idOf[g] /\ result[k] # "none" /\ result'[k] = s
                             /\ status[k] # "none"
  BY <1>0, <1>1, <1>4, SetResultIs
<1>6. result[g] # "none" /\ status[g] # "none"
  BY <1>0 DEF IInv, GoalsOnce
<1>7. TypeOK'
  BY <1>0, <1>3, <1>5 DEF TypeOK, inputs, dictVars, TheIdOf
<1>8. \A h \in Handlers : handler[h].goal # None => SoleSteps(handler[h])'
  BY <1>0, <1>3, OneGoalSole
<1>9. ResultsAreFinal'
  <2>1. \A i : Reused(i) => Reused(i)'
    BY <1>0, <1>3, ForwardKeeps
  <2>2. \A k \in Goals : status[k] \in Terminal => status'[k] = status[k]
    BY <1>3 DEF Forward
  <2>3. \A k \in Goals : ~Reused(idOf[k]) /\ result'[k] # result[k] => k = g
    BY <1>5, <1>6 DEF Reused
  <2>4. ~alive[g] /\ ~Reused(idOf[g]) => status[g] \in Terminal
    BY <1>6 DEF IInv, DeadHaveEnded, HasEnded, Reused, Terminal
  <2>5. alive[g] => status'[g] = s /\ s \in Terminal
    BY <1>2, <1>3, <1>4
  <2>6. ~Reused(idOf[g]) /\ result'[g] # result[g] =>
          /\ status'[g] \in Terminal
          /\ result'[g] = status'[g] \/ (result'[g] = "unknown" /\ ~alive[g])
    BY <1>3, <1>4, <1>5, <2>4, <2>5
  <2>7. \A k \in Goals : ~Reused(idOf[k]) /\ result'[k] = result[k] /\ result[k] \notin {"none", "pending"} =>
          /\ status'[k] \in Terminal
          /\ result'[k] = status'[k] \/ (result'[k] = "unknown" /\ ~alive[k])
    BY <2>2 DEF IInv, ResultsAreFinal
  <2>8. \A k \in Goals : ex[k] = "setting" /\ alive[k] => status'[k] \in Terminal
    BY <2>2 DEF IInv, ResultsAreFinal
  <2>9. UNCHANGED <<alive, ex, idOf>>
    BY <1>0 DEF inputs
  <2> QED BY <2>1, <2>3, <2>6, <2>7, <2>8, <2>9 DEF ResultsAreFinal
<1>10. \A k \in Goals : (result'[k] = "none" <=> result[k] = "none")
  BY <1>4, <1>5 DEF Terminal
<1> QED BY <1>0, <1>3, <1>6, <1>7, <1>8, <1>9, <1>10, GoalsGoOnIInv DEF IInv, GoalsOnce

LEMMA SendResultIInv == ASSUME IInv, NEW q \in Asks, SendResult(q) PROVE IInv'
<1>0. /\ UNCHANGED <<inputs, inbox, goalVars, dictVars, result, awaits, ex, handler, lost>>
      /\ TypeOK
  BY DEF SendResult, IInv
<1>1. PICK value : answer' = [answer EXCEPT ![q] = value]
  BY DEF SendResult, Answers
<1>2. answer' = [r \in Requests |-> answer'[r]] /\ \A r \in Requests : answer'[r] # answer[r] => r \in Asks
  BY <1>0, <1>1 DEF TypeOK, Requests
<1>3. TypeOK'
  BY <1>0, <1>2 DEF TypeOK, inputs, goalVars, dictVars, TheIdOf
<1>4. Forward
  BY <1>0 DEF Forward, goalVars
<1>5. \A h \in Handlers : handler[h].goal # None => SoleSteps(handler[h])'
  <2> SUFFICES ASSUME NEW h \in Handlers PROVE SoleSteps(handler[h])'
    OBVIOUS
  <2>1. SoleSteps(handler[h]) /\ handler' = handler
    BY <1>0 DEF IInv, HandlersAreSound, Sound, Sole
  <2> QED BY <1>0, <2>1 DEF SoleSteps, TheIdOf, inputs, goalVars, dictVars
<1>6. ResultsAreFinal'
  BY <1>0 DEF IInv, ResultsAreFinal, Reused, inputs, goalVars
<1> QED BY <1>0, <1>2, <1>3, <1>4, <1>5, <1>6, GoalsGoOnIInv DEF IInv, GoalsOnce, goalVars

-----------------------------------------------------------------------------
(* Accepted and expired goals *)

LEMMA HandleAcceptedIInv ==
  ASSUME IInv, NEW h \in Handlers, HandleAccepted(h) PROVE IInv'
<1>0. /\ handler[h] \in HandlerStates /\ InOrder(handler[h]) /\ Stage(handler[h]) /\ SoleSteps(handler[h])
      /\ TypeOK /\ handler[h].pc = "accepted"
      /\ UNCHANGED <<inputs, inbox, answer, goalVars, dictVars, result, awaits, lost>>
  BY DEF IInv, TypeOK, HandlersAreSound, Sound, Sole, HandleAccepted, At
<1>1. PICK g \in Goals : g = handler[h].goal /\ g # None
  BY <1>0 DEF InOrder, HandlerStates, GoalSteps
<1>2. Begins(h)
  BY <1>0 DEF HandleAccepted, Begins
<1>3. SingleCancelIsHonest'
  BY <1>0 DEF IInv, SingleCancelIsHonest, CancelIsHonest, inputs, goalVars
<1>4. ASSUME NEW b \in HandlerStates, handler' = [handler EXCEPT ![h] = b], InOrder(b),
             b.expired = handler[h].expired, b.goal \in {None, handler[h].goal},
             Stage(b)', Listed(b)', SoleSteps(b)'
      PROVE  IInv'
  <2>1. HandlerGoesOn(h, b)
    BY <1>0, <1>2, <1>4 DEF HandlerGoesOn, TypeOK
  <2> QED BY <1>0, <1>3, <1>4, <2>1, HandlerWorksIInv DEF IInv, GoalsOnce
<1>5. CASE ex' = [ex EXCEPT ![g] = "called"] /\ Goto(h, "executing")
  <2>1. PICK b \in HandlerStates :
           /\ handler' = [handler EXCEPT ![h] = b] /\ b.pc = "executing"
           /\ b.goal = handler[h].goal /\ b.cancel = handler[h].cancel /\ b.ask = handler[h].ask
           /\ b.expired = handler[h].expired /\ b.list = handler[h].list /\ b.i = handler[h].i
    BY <1>5, GotoIs DEF GoalSteps
  <2>2. InOrder(b) /\ b.list = <<>> /\ b.i = 1
    BY <1>0, <2>1 DEF InOrder, GoalSteps, CancelSteps, AskSteps, ExpireSteps
  <2>3. ex'[g] = "called"
    BY <1>0, <1>1, <1>5 DEF TypeOK
  <2>4. Stage(b)' /\ Listed(b)'
    BY <1>0, <1>1, <2>1, <2>2 DEF Stage, Listed
  <2>5. SoleSteps(b)'
    BY <1>0, <1>1, <2>1, <2>3 DEF SoleSteps, inputs, goalVars
  <2> QED BY <1>4, <2>1, <2>2, <2>4, <2>5
<1>6. CASE GoalDone(h)
  <2>1. PICK b \in HandlerStates :
           /\ handler' = [handler EXCEPT ![h] = b] /\ InOrder(b)
           /\ b.goal = None /\ b.pc \in {"idle", "cancel", "ask", "expire"}
           /\ b.expired = handler[h].expired /\ b.list = <<>> /\ b.i = 1
    BY <1>0, <1>6, PartIs DEF GoalSteps
  <2>2. Stage(b)' /\ Listed(b)' /\ SoleSteps(b)'
    BY <2>1 DEF Stage, Listed, SoleSteps
  <2> QED BY <1>4, <2>1, <2>2
<1> QED BY <1>1, <1>5, <1>6 DEF HandleAccepted

LEMMA GoalAcceptsIInv ==
  ASSUME IInv, NEW h \in Handlers, GoalAccepts(h) PROVE IInv'
<1>0. /\ handler[h] \in HandlerStates /\ InOrder(handler[h]) /\ Sound(handler[h]) /\ TypeOK
      /\ handler[h].pc = "deciding"
      /\ UNCHANGED <<inputs, inbox, answer, dictVars, result, awaits, ex, lost>>
  BY DEF IInv, TypeOK, HandlersAreSound, GoalAccepts, At
<1>1. PICK g \in Goals : g = handler[h].goal /\ g # None
  BY <1>0 DEF InOrder, HandlerStates, GoalSteps
<1>2. CASE Exists(idOf[g])
  <2>1. GoalRejects(h)
    BY <1>1, <1>2 DEF GoalAccepts, GoalRejects
  <2> QED BY <2>1, DecidesIInv
<1>3. CASE ~Exists(idOf[g])
  <2>1. /\ known' = known \cup {g} /\ status' = [status EXCEPT ![g] = "accepted"]
        /\ alive' = [alive EXCEPT ![g] = TRUE] /\ Goto(h, "storing")
    BY <1>1, <1>3 DEF GoalAccepts
  <2>2. /\ status[g] = "none" /\ answer[g] = None /\ result[g] = "none" /\ ex[g] = "none"
        /\ g \notin known
    BY <1>0, <1>1 DEF Sound, Stage, IInv, GoalsOnce
  <2>3. /\ \A k \in Goals : status'[k] = IF k = g THEN "accepted" ELSE status[k]
        /\ \A k \in Goals : alive'[k] = IF k = g THEN TRUE ELSE alive[k]
        /\ UNCHANGED <<gone, group, idOf, targets, inbox, answer, handleOf, futureOf, result, awaits, ex, lost>>
    BY <1>0, <2>1 DEF TypeOK, inputs, dictVars
  <2>4. PICK b \in HandlerStates :
           /\ handler' = [handler EXCEPT ![h] = b] /\ b.pc = "storing"
           /\ b.goal = handler[h].goal /\ b.cancel = handler[h].cancel /\ b.ask = handler[h].ask
           /\ b.expired = handler[h].expired /\ b.list = handler[h].list /\ b.i = handler[h].i
    BY <2>1, GotoIs DEF GoalSteps
  <2>5. /\ handler'[h] = b
        /\ \A k \in Handlers : k # h => handler'[k] = handler[k]
        /\ handler' \in [Handlers -> HandlerStates]
    BY <1>0, <2>4, OtherHandlers
  <2>6. TypeOK'
    BY <1>0, <2>1, <2>3, <2>5 DEF TypeOK, Statuses, Active, TheIdOf
  <2>7. Forward
    BY <2>2, <2>3 DEF Forward, Terminal
  <2>8. /\ \A i : Honest(i) => Honest(i)'
        /\ \A i : HasEnded(i) => HasEnded(i)'
        /\ \A i : Reused(i) => Reused(i)'
        /\ Distinct' => Distinct
    BY <1>0, <2>7, ForwardKeeps
  <2>9. ASSUME NEW d \in HandlerStates, Listed(d), Expires(d) PROVE Listed(d)' /\ Expires(d)'
    <3>1. Listed(d)'
      BY <2>3, <2>8, <2>9 DEF Listed
    <3>2. Expires(d)'
      BY <2>1, <2>2, <2>3, <2>9 DEF Expires, HandlerStates, Terminal
    <3> QED BY <3>1, <3>2
  <2>10. HandlersAreSound'
    <3> SUFFICES ASSUME NEW k \in Handlers PROVE InOrder(handler[k])' /\ Sound(handler[k])'
      BY DEF HandlersAreSound
    <3>1. CASE k = h
      <4>1. InOrder(b)
        BY <1>0, <2>4 DEF InOrder, GoalSteps, CancelSteps, AskSteps, ExpireSteps
      <4>2. Stage(b)' /\ SoleSteps(b)'
        BY <1>1, <2>1, <2>2, <2>3, <2>4 DEF Stage, SoleSteps
      <4>3. Listed(b)' /\ Expires(b)'
        <5>1. Listed(b) /\ Expires(b)
          BY <1>0, <2>4 DEF Sound, Listed, Expires
        <5> QED BY <2>9, <5>1
      <4>4. Sole(b)'
        BY <1>0, <2>3, <2>4, <2>8, <4>2 DEF Sound, Sole
      <4> QED BY <2>5, <3>1, <4>1, <4>2, <4>3, <4>4 DEF Sound, Stage, Listed, Expires, Sole, SoleSteps, InOrder, TheIdOf
    <3>2. CASE k # h
      <4>1. /\ InOrder(handler[k]) /\ Sound(handler[k]) /\ handler'[k] = handler[k]
            /\ handler[k] \in HandlerStates /\ handler[k].goal # g
        BY <1>0, <1>1, <2>5, <3>2 DEF IInv, TypeOK, HandlersAreSound, GoalsOnce
      <4>2. InOrder(handler[k])'
        BY <4>1 DEF InOrder
      <4>3. Stage(handler[k])'
        BY <2>1, <2>3, <4>1 DEF Sound, Stage, HandlerStates
      <4>4. Listed(handler[k])' /\ Expires(handler[k])'
        <5>1. Listed(handler[k]) /\ Expires(handler[k])
          BY <4>1 DEF Sound
        <5>2. PICK d \in HandlerStates : d = handler[k]
          BY <4>1
        <5>3. Listed(d)' /\ Expires(d)'
          BY <2>9, <5>1, <5>2
        <5> QED BY <4>1, <5>2, <5>3 DEF Listed, Expires
      <4>5. Sole(handler[k])'
        <5>1. group = "exclusive" => handler[k].pc = "idle" /\ handler[k].goal = None
          BY <1>0, <3>2, <4>1 DEF IInv, Alone, At, InOrder, GoalSteps
        <5> QED BY <2>3, <2>8, <4>1, <5>1 DEF Sound, Sole, SoleSteps
      <4> QED BY <4>2, <4>3, <4>4, <4>5 DEF Sound
    <3> QED BY <3>1, <3>2
  <2>11. Alone'
    <3>1. \A k \in Handlers : ~At(k, "idle")' => ~At(k, "idle")
      BY <1>0, <2>5 DEF At
    <3> QED BY <2>3, <2>8, <3>1 DEF IInv, Alone
  <2>12. GoalsOnce'
    <3>1. g \notin inbox
      BY <1>1 DEF IInv, GoalsOnce
    <3>2. \A k \in Handlers : handler'[k].goal = handler[k].goal
      BY <2>4, <2>5
    <3>3. \A k \in inbox' \cap Goals : status'[k] = "none" /\ answer'[k] = None
            /\ \A m \in Handlers : handler'[m].goal # k
      BY <2>3, <3>1, <3>2 DEF IInv, GoalsOnce
    <3>4. \A k, m \in Handlers : handler'[k].goal # None /\ handler'[k].goal = handler'[m].goal => k = m
      BY <3>2 DEF IInv, GoalsOnce
    <3>5. \A k \in Goals :
            /\ status'[k] = "none" => k \notin known' /\ ~alive'[k] /\ result'[k] = "none"
            /\ result'[k] = "none" => ex'[k] = "none" /\ status'[k] \in {"none", "accepted"}
      BY <2>1, <2>2, <2>3 DEF IInv, GoalsOnce
    <3>6. \A k \in Goals : /\ answer'[k] = "accepted" => status'[k] # "none"
                           /\ answer'[k] = "rejected" => status'[k] = "none"
      BY <2>2, <2>3, RequestsAssumption DEF IInv, GoalsOnce
    <3> QED BY <3>3, <3>4, <3>5, <3>6 DEF GoalsOnce
  <2>13. HandlesAreKnown'
    <3>1. \A k \in known : Storing(k) => Storing(k)'
      BY <1>0, <2>5 DEF Storing, At
    <3>2. Storing(g)'
      BY <1>1, <2>4, <2>5 DEF Storing, At
    <3>3. \A k : Expiring(k) => Expiring(k)'
      BY <2>4, <2>5 DEF Expiring
    <3>4. \A k, m \in known' : idOf[k] = idOf[m] => k = m
      BY <1>3, <2>1 DEF IInv, HandlesAreKnown, Exists
    <3> QED BY <2>1, <2>3, <2>8, <3>1, <3>2, <3>3, <3>4 DEF IInv, HandlesAreKnown
  <2>14. DeadHaveEnded' /\ ResultsAreFinal'
    BY <2>2, <2>3, <2>8 DEF IInv, DeadHaveEnded, ResultsAreFinal
  <2>15. SingleCancelIsHonest'
    <3>1. \A c \in Cancels : CancelIsHonest(c) => CancelIsHonest(c)'
      BY <2>3, <2>8 DEF CancelIsHonest, Honest
    <3> QED BY <2>3, <3>1 DEF IInv, SingleCancelIsHonest
  <2> QED BY <2>6, <2>10, <2>11, <2>12, <2>13, <2>14, <2>15 DEF IInv
<1> QED BY <1>2, <1>3

LEMMA GoalStoresIInv ==
  ASSUME IInv, NEW h \in Handlers, GoalStores(h) PROVE IInv'
<1>0. /\ handler[h] \in HandlerStates /\ InOrder(handler[h]) /\ Sound(handler[h]) /\ TypeOK
      /\ handler[h].pc = "storing"
  BY DEF IInv, TypeOK, HandlersAreSound, GoalStores, At
<1>1. PICK g \in Goals : g = handler[h].goal /\ g # None
  BY <1>0 DEF InOrder, HandlerStates, GoalSteps
<1>2. g \in known /\ status[g] = "accepted" /\ result[g] = "none" /\ answer[g] = None
  BY <1>0, <1>1 DEF Sound, Stage
<1>3. /\ UNCHANGED <<gone, group, idOf, targets, inbox, answer, known, status, alive, awaits, ex, lost>>
      /\ handleOf' = [handleOf EXCEPT ![idOf[g]] = g] /\ futureOf' = handleOf'
      /\ result' = [result EXCEPT ![g] = "pending"] /\ Goto(h, "accepting")
  BY <1>1 DEF GoalStores, inputs, goalVars, IInv, HandlesAreKnown
<1>4. /\ idOf[g] \in Ids
      /\ \A i \in Ids : handleOf'[i] = IF i = idOf[g] THEN g ELSE handleOf[i]
      /\ \A k \in Goals : result'[k] = IF k = g THEN "pending" ELSE result[k]
  BY <1>0, <1>3 DEF TypeOK
<1>5. PICK b \in HandlerStates :
         /\ handler' = [handler EXCEPT ![h] = b] /\ b.pc = "accepting"
         /\ b.goal = handler[h].goal /\ b.cancel = handler[h].cancel /\ b.ask = handler[h].ask
         /\ b.expired = handler[h].expired /\ b.list = handler[h].list /\ b.i = handler[h].i
  BY <1>3, GotoIs DEF GoalSteps
<1>6. /\ handler'[h] = b
      /\ \A k \in Handlers : k # h => handler'[k] = handler[k]
      /\ handler' \in [Handlers -> HandlerStates]
  BY <1>0, <1>5, OtherHandlers
<1>7. TypeOK'
  BY <1>0, <1>3, <1>6 DEF TypeOK, Results, TheIdOf
<1>8. \A i : (Honest(i)' <=> Honest(i)) /\ (Reused(i)' <=> Reused(i)) /\ (HasEnded(i)' <=> HasEnded(i))
  BY <1>3 DEF Honest, Reused, HasEnded
<1>9. Distinct' <=> Distinct
  BY <1>3, <1>8 DEF Distinct
<1>10. ASSUME NEW d \in HandlerStates, Listed(d), Expires(d), SoleSteps(d)',
              group = "exclusive" /\ Distinct => \A x \in d.expired : handleOf[idOf[x]] = x
       PROVE  Listed(d)' /\ Expires(d)' /\ Sole(d)'
  <2>1. Listed(d)' /\ Expires(d)'
    BY <1>3, <1>8, <1>10 DEF Listed, Expires
  <2>2. ASSUME Distinct, group = "exclusive", NEW x \in d.expired PROVE handleOf'[idOf[x]] = x
    <3>1. x \in Goals /\ status[x] \in Terminal
      BY <1>10 DEF Expires, HandlerStates
    <3>2. idOf[x] # idOf[g]
      BY <1>2, <1>4, <2>2, <3>1 DEF Distinct, Reused, Terminal
    <3>3. idOf[x] \in Ids
      BY <1>0, <3>1 DEF TypeOK
    <3> QED BY <1>4, <1>10, <2>2, <3>2, <3>3
  <2> QED BY <1>3, <1>9, <1>10, <2>1, <2>2 DEF Sole
<1>11. HandlersAreSound'
  <2> SUFFICES ASSUME NEW k \in Handlers PROVE InOrder(handler[k])' /\ Sound(handler[k])'
    BY DEF HandlersAreSound
  <2>1. CASE k = h
    <3>1. InOrder(b)
      BY <1>0, <1>5 DEF InOrder, GoalSteps, CancelSteps, AskSteps, ExpireSteps
    <3>2. Stage(b)' /\ SoleSteps(b)'
      BY <1>0, <1>1, <1>2, <1>3, <1>4, <1>5 DEF Sound, Sole, Stage, SoleSteps
    <3>3. Listed(b) /\ Expires(b)
      BY <1>0, <1>5 DEF Sound, Listed, Expires
    <3>4. Listed(b)' /\ Expires(b)' /\ Sole(b)'
      BY <1>0, <1>5, <1>10, <3>2, <3>3 DEF Sound, Sole
    <3> QED BY <1>6, <2>1, <3>1, <3>2, <3>4 DEF Sound, Stage, Listed, Expires, Sole, SoleSteps, InOrder, TheIdOf
  <2>2. CASE k # h
    <3>1. PICK d \in HandlerStates : /\ d = handler[k] /\ handler'[k] = d
                                     /\ InOrder(d) /\ Sound(d) /\ (d.goal # None => d.goal # g)
      BY <1>0, <1>1, <1>6, <2>2 DEF IInv, TypeOK, HandlersAreSound, GoalsOnce
    <3>2. Stage(d)'
      BY <1>3, <1>4, <3>1 DEF Sound, Stage, HandlerStates
    <3>3. SoleSteps(d)'
      <4>1. group = "exclusive" => d.pc = "idle" /\ d.goal = None
        BY <1>0, <2>2, <3>1 DEF IInv, Alone, At, InOrder, GoalSteps
      <4> QED BY <1>3, <4>1 DEF SoleSteps
    <3>4. Listed(d)' /\ Expires(d)' /\ Sole(d)'
      BY <1>10, <3>1, <3>3 DEF Sound, Sole
    <3> QED BY <3>1, <3>2, <3>4 DEF Sound, Stage, Listed, Expires, Sole, SoleSteps, InOrder, TheIdOf
  <2> QED BY <2>1, <2>2
<1>12. Alone'
  <2>1. \A k \in Handlers : ~At(k, "idle")' => ~At(k, "idle")
    BY <1>0, <1>6 DEF At
  <2> QED BY <1>3, <1>9, <2>1 DEF IInv, Alone
<1>13. GoalsOnce'
  <2>1. \A k \in Handlers : handler'[k].goal = handler[k].goal
    BY <1>5, <1>6
  <2> QED BY <1>2, <1>3, <1>4, <2>1 DEF IInv, GoalsOnce
<1>14. HandlesAreKnown'
  <2>1. \A k \in known : k # g /\ Storing(k) => Storing(k)'
    BY <1>1, <1>6 DEF Storing, At
  <2>2. \A k : Expiring(k) => Expiring(k)'
    BY <1>5, <1>6 DEF Expiring
  <2>3. \A k \in known : k # g => idOf[k] # idOf[g] /\ idOf[k] \in Ids
    BY <1>0, <1>2 DEF IInv, HandlesAreKnown, TypeOK
  <2>4. \A i \in Ids : handleOf'[i] # None =>
       /\ idOf[handleOf'[i]] = i /\ result'[handleOf'[i]] # "none"
       /\ handleOf'[i] \in known \cup lost \/ Expiring(handleOf'[i])
    <3> SUFFICES ASSUME NEW i \in Ids, handleOf'[i] # None
                 PROVE  /\ idOf[handleOf'[i]] = i /\ result'[handleOf'[i]] # "none"
                        /\ handleOf'[i] \in known \cup lost \/ Expiring(handleOf'[i])
      OBVIOUS
    <3>1. CASE i = idOf[g]
      BY <1>2, <1>4, <3>1
    <3>2. CASE i # idOf[g]
      <4>1. handleOf'[i] = handleOf[i] /\ handleOf[i] \in Goals
        BY <1>0, <1>4, <3>2 DEF TypeOK
      <4> QED BY <1>4, <4>1 DEF IInv, HandlesAreKnown
    <3> QED BY <3>1, <3>2
  <2>5. \A i \in Ids : Expiring(handleOf'[i]) => \E k \in Handlers : handleOf'[i] \in handler'[k].expired
    BY <1>5, <1>6 DEF Expiring
  <2>6. \A k \in known : Reused(idOf[k]) \/ handleOf'[idOf[k]] = k \/ Storing(k)'
    BY <1>2, <1>4, <2>1, <2>3 DEF IInv, HandlesAreKnown
  <2> QED BY <1>3, <1>8, <2>4, <2>5, <2>6 DEF IInv, HandlesAreKnown, Expiring
<1>15. DeadHaveEnded' /\ ResultsAreFinal'
  BY <1>3, <1>4, <1>8 DEF IInv, DeadHaveEnded, ResultsAreFinal
<1>16. SingleCancelIsHonest'
  BY <1>3 DEF IInv, SingleCancelIsHonest, CancelIsHonest
<1> QED BY <1>7, <1>11, <1>12, <1>13, <1>14, <1>15, <1>16 DEF IInv

LEMMA CancelAcceptedIInv ==
  ASSUME IInv, NEW h \in Handlers, CancelAccepted(h) PROVE IInv'
<1>0. /\ handler[h] \in HandlerStates /\ InOrder(handler[h]) /\ Sound(handler[h]) /\ TypeOK
      /\ handler[h].pc = "asked" /\ handler[h].goal = None
      /\ handler[h].i # 0 /\ handler[h].i \in Nat /\ handler[h].i <= Len(handler[h].list)
      /\ handler[h].list \in Seq(Ids)
      /\ UNCHANGED <<gone, group, idOf, targets, inbox, answer, known, alive, handleOf, futureOf, result,
                     awaits, ex, lost>>
  BY DEF IInv, TypeOK, HandlersAreSound, Sound, Listed, Stage, CancelAccepted, At, InOrder, GoalSteps,
     HandlerStates, inputs, dictVars
<1>1. PICK g \in Goals : /\ g = handler[h].object /\ result[g] # "none"
                         /\ idOf[g] = handler[h].list[handler[h].i]
  BY <1>0 DEF Sound, Stage
<1>2. status[g] # "none" /\ UpdateState(g, "CANCEL_GOAL")
  BY <1>0, <1>1 DEF IInv, GoalsOnce, CancelAccepted
<1>3. /\ Forward /\ status' \in [Goals -> Statuses]
      /\ \A k \in Goals \ {g} : status'[k] = status[k]
      /\ ~Raises(g, "CANCEL_GOAL") /\ alive[g] => status'[g] = "canceling"
  BY <1>2, UpdateIs DEF Becomes
<1>4. /\ \A i : Honest(i) => Honest(i)'
      /\ \A i : HasEnded(i) => HasEnded(i)'
      /\ \A i : Reused(i) => Reused(i)'
      /\ Distinct' => Distinct
  BY <1>0, <1>3, ForwardKeeps DEF inputs
<1>5. PICK b \in HandlerStates :
        /\ b = (IF Raises(g, "CANCEL_GOAL") THEN Drops(handler[h]) ELSE Keeps(handler[h]))
        /\ handler' = [handler EXCEPT ![h] = b]
  <2>1. Drops(handler[h]) \in HandlerStates /\ Keeps(handler[h]) \in HandlerStates
    BY <1>0, CancelMovesOn
  <2> QED BY <1>1, <2>1 DEF CancelAccepted
<1>6. /\ b.pc = "asking" /\ b.i = handler[h].i + 1 /\ b.goal = None
      /\ b.cancel = handler[h].cancel /\ b.expired = handler[h].expired
      /\ \/ Len(b.list) = Len(handler[h].list) - 1
         \/ b.list = handler[h].list /\ ~Raises(g, "CANCEL_GOAL")
  BY <1>0, <1>5, CancelMovesOn
<1>7. /\ handler'[h] = b
      /\ \A k \in Handlers : k # h => handler'[k] = handler[k]
      /\ handler' \in [Handlers -> HandlerStates]
  BY <1>0, <1>5, OtherHandlers
<1>8. TypeOK'
  BY <1>0, <1>3, <1>7 DEF TypeOK, TheIdOf
<1>19. PICK i \in Ids : i = idOf[g] /\ i = handler[h].list[handler[h].i]
  BY <1>0, <1>1 DEF TypeOK
<1>9. ~Raises(g, "CANCEL_GOAL") => Honest(i)'
  <2>1. CASE alive[g] /\ ~Raises(g, "CANCEL_GOAL")
    BY <1>0, <1>3, <1>19, <2>1 DEF Honest
  <2>2. CASE ~alive[g]
    <3>1. HasEnded(i)
      BY <1>2, <1>19, <2>2 DEF IInv, DeadHaveEnded
    <3>2. Honest(i)
      BY <3>1 DEF HasEnded, Honest
    <3> QED BY <1>4, <3>2
  <2> QED BY <2>1, <2>2
<1>10. Listed(b)'
  <2>1. Cardinality(targets[b.cancel]) = 1 /\ b.cancel # None => Len(handler[h].list) = 1 /\ handler[h].i = 1
    BY <1>0, <1>6, TheOnlyGoal DEF Sound
  <2>2. b.i # 0
    BY <1>0, <1>6
  <2>3. ASSUME Len(handler[h].list) = 1, handler[h].i = 1
        PROVE  Len(b.list) <= 1 /\ \A n \in 1 .. Len(b.list) : Honest(b.list[n])'
    <3>0. b.list \in Seq(Ids)
      BY DEF HandlerStates
    <3>1. CASE Len(b.list) = Len(handler[h].list) - 1
      BY <2>3, <3>1
    <3>2. CASE b.list = handler[h].list /\ ~Raises(g, "CANCEL_GOAL")
      <4>1. \A n \in 1 .. Len(b.list) : b.list[n] = i
        BY <1>19, <2>3, <3>0, <3>2
      <4>2. Len(b.list) <= 1
        BY <2>3, <3>2
      <4> QED BY <1>9, <3>2, <4>1, <4>2
    <3> QED BY <1>6, <3>1, <3>2
  <2> QED BY <1>0, <2>1, <2>2, <2>3 DEF Listed
<1>11. ASSUME NEW d \in HandlerStates, Expires(d), SoleSteps(d)',
              group = "exclusive" /\ Distinct => \A x \in d.expired : handleOf[idOf[x]] = x
       PROVE  Expires(d)' /\ Sole(d)'
  <2>1. Expires(d)'
    BY <1>0, <1>3, <1>11 DEF Expires, Forward, HandlerStates
  <2> QED BY <1>0, <1>4, <1>11, <2>1 DEF Sole
<1>12. HandlersAreSound'
  <2> SUFFICES ASSUME NEW k \in Handlers PROVE InOrder(handler[k])' /\ Sound(handler[k])'
    BY DEF HandlersAreSound
  <2>1. CASE k = h
    <3>1. InOrder(b)
      BY <1>0, <1>6 DEF InOrder, GoalSteps, CancelSteps, AskSteps, ExpireSteps
    <3>2. Stage(b)' /\ SoleSteps(b)'
      BY <1>6 DEF Stage, SoleSteps
    <3>3. Expires(b)
      BY <1>0, <1>6 DEF Sound, Expires
    <3>4. Expires(b)' /\ Sole(b)'
      BY <1>0, <1>6, <1>11, <3>2, <3>3 DEF Sound, Sole
    <3> QED BY <1>7, <1>10, <2>1, <3>1, <3>2, <3>4 DEF Sound, Stage, Listed, Expires, Sole, SoleSteps, InOrder, TheIdOf
  <2>2. CASE k # h
    <3>1. PICK d \in HandlerStates : d = handler[k] /\ handler'[k] = d /\ InOrder(d) /\ Sound(d)
      BY <1>0, <1>7, <2>2 DEF IInv, TypeOK, HandlersAreSound
    <3>2. Stage(d)'
      <4>1. d.goal # None /\ d.pc \in {"goal", "deciding", "rejecting", "storing"} => d.goal # g
        BY <1>1, <1>2, <3>1 DEF Sound, Stage
      <4> QED BY <1>0, <1>3, <3>1, <4>1 DEF Sound, Stage, HandlerStates
    <3>3. SoleSteps(d)'
      <4>1. group = "exclusive" => d.pc = "idle" /\ d.goal = None
        BY <1>0, <2>2, <3>1 DEF IInv, Alone, At, InOrder, GoalSteps
      <4> QED BY <1>0, <4>1 DEF SoleSteps
    <3>4. Listed(d)'
      BY <1>0, <1>4, <3>1 DEF Sound, Listed
    <3>5. Expires(d)' /\ Sole(d)'
      BY <1>11, <3>1, <3>3 DEF Sound, Sole
    <3> QED BY <3>1, <3>2, <3>4, <3>5 DEF Sound, Stage, Listed, Expires, Sole, SoleSteps, InOrder, TheIdOf
  <2> QED BY <2>1, <2>2
<1>13. Alone'
  <2>1. \A k \in Handlers : ~At(k, "idle")' => ~At(k, "idle")
    BY <1>0, <1>7 DEF At
  <2> QED BY <1>0, <1>4, <2>1 DEF IInv, Alone
<1>14. \A k \in Goals : /\ status[k] # "none" <=> status'[k] # "none"
                        /\ result[k] = "none" => status'[k] = status[k]
  BY <1>1, <1>2, <1>3 DEF Forward
<1>15. GoalsOnce'
  <2>1. \A k \in Handlers : handler'[k].goal = handler[k].goal
    BY <1>0, <1>6, <1>7
  <2> QED BY <1>0, <1>14, <2>1 DEF IInv, GoalsOnce
<1>16. HandlesAreKnown'
  <2>1. \A k : Storing(k) => Storing(k)'
    BY <1>0, <1>7 DEF Storing, At
  <2>2. \A k : Expiring(k) => Expiring(k)'
    BY <1>6, <1>7 DEF Expiring
  <2> QED BY <1>0, <1>4, <2>1, <2>2 DEF IInv, HandlesAreKnown
<1>17. DeadHaveEnded' /\ ResultsAreFinal'
  BY <1>0, <1>3, <1>4, <1>14 DEF IInv, DeadHaveEnded, ResultsAreFinal, Forward
<1>18. SingleCancelIsHonest'
  <2>1. \A c \in Cancels : CancelIsHonest(c) => CancelIsHonest(c)'
    BY <1>0, <1>4 DEF CancelIsHonest, Honest
  <2> QED BY <1>0, <2>1 DEF IInv, SingleCancelIsHonest
<1> QED BY <1>8, <1>12, <1>13, <1>15, <1>16, <1>17, <1>18 DEF IInv

LEMMA ExpireDestroysIInv ==
  ASSUME IInv, NEW h \in Handlers, ExpireDestroys(h) PROVE IInv'
<1>0. /\ handler[h] \in HandlerStates /\ InOrder(handler[h]) /\ Sound(handler[h]) /\ TypeOK
      /\ handler[h].pc = "expire" /\ handler[h].goal = None
      /\ UNCHANGED <<inputs, inbox, answer, known, status, dictVars, result, awaits, ex>>
  BY DEF IInv, TypeOK, HandlersAreSound, ExpireDestroys, At, InOrder, GoalSteps
<1>1. PICK x \in handler[h].expired :
        IF handleOf[idOf[x]] = None
        THEN Fails(h) /\ UNCHANGED alive
        ELSE /\ alive' = [alive EXCEPT ![handleOf[idOf[x]]] = FALSE]
             /\ handler' = [handler EXCEPT ![h].pc = "forget", ![h].object = x]
             /\ UNCHANGED lost
  BY DEF ExpireDestroys
<1>2. x \in Goals /\ status[x] \in Terminal /\ x # None /\ idOf[x] \in Ids
  BY <1>0, RequestsAssumption DEF HandlerStates, Sound, Expires, TypeOK
<1>3. SingleCancelIsHonest'
  BY <1>0 DEF IInv, SingleCancelIsHonest, CancelIsHonest, inputs
<1>4. answer' = [r \in Requests |-> answer'[r]] /\ awaits' \in [Asks -> Goals \cup {None}]
  BY <1>0 DEF TypeOK
<1>5. CASE handleOf[idOf[x]] = None
  <2>1. group = "exclusive" => ~Distinct
    BY <1>0, <1>2, <1>5 DEF Sound, Sole
  <2> QED BY <1>0, <1>1, <1>3, <1>4, <1>5, <2>1, PartEndsIInv DEF IInv, GoalsOnce, goalVars
<1>6. CASE handleOf[idOf[x]] # None
  <2>1. PICK g \in Goals : g = handleOf[idOf[x]] /\ idOf[g] = idOf[x]
    BY <1>0, <1>2, <1>6 DEF TypeOK, IInv, HandlesAreKnown
  <2>2. Destroys
    BY <1>0, <1>1, <1>2, <1>6, <2>1 DEF Destroys, HasEnded
  <2> DEFINE d == [handler[h] EXCEPT !.pc = "forget", !.object = x]
  <2>3. PICK b \in HandlerStates :
          /\ handler' = [handler EXCEPT ![h] = b] /\ b.pc = "forget" /\ b.object = x
          /\ b.goal = handler[h].goal /\ b.cancel = handler[h].cancel /\ b.ask = handler[h].ask
          /\ b.expired = handler[h].expired /\ b.list = handler[h].list /\ b.i = handler[h].i
    <3>1. d \in HandlerStates
      BY <1>0, <1>2 DEF HandlerStates, ExpireSteps
    <3>2. handler' = [handler EXCEPT ![h] = d]
      BY <1>0, <1>1, <1>6 DEF TypeOK
    <3>3. /\ d.pc = "forget" /\ d.object = x
          /\ d.goal = handler[h].goal /\ d.cancel = handler[h].cancel /\ d.ask = handler[h].ask
          /\ d.expired = handler[h].expired /\ d.list = handler[h].list /\ d.i = handler[h].i
      BY <1>0 DEF HandlerStates
    <3> HIDE DEF d
    <3> QED BY <3>1, <3>2, <3>3
  <2>4. InOrder(b) /\ b.list = <<>> /\ b.i = 1
    BY <1>0, <2>3 DEF InOrder, GoalSteps, CancelSteps, AskSteps, ExpireSteps
  <2>5. HandlerGoesOn(h, b)
    BY <1>0, <1>1, <1>4, <1>6, <2>2, <2>3, <2>4 DEF HandlerGoesOn
  <2>6. Stage(b)' /\ Listed(b)' /\ SoleSteps(b)'
    BY <1>0, <2>3, <2>4 DEF Stage, Listed, SoleSteps
  <2> QED BY <1>0, <1>3, <2>5, <2>6, HandlerWorksIInv DEF IInv, GoalsOnce
<1> QED BY <1>5, <1>6

LEMMA ExpireForgetsIInv ==
  ASSUME IInv, NEW h \in Handlers, ExpireForgets(h) PROVE IInv'
<1>0. /\ handler[h] \in HandlerStates /\ InOrder(handler[h]) /\ Sound(handler[h]) /\ TypeOK
      /\ handler[h].pc = "forget" /\ handler[h].goal = None
      /\ UNCHANGED <<gone, group, idOf, targets, inbox, answer, known, status, alive, result, awaits, ex, lost>>
  BY DEF IInv, TypeOK, HandlersAreSound, ExpireForgets, At, InOrder, GoalSteps, inputs, goalVars
<1>1. PICK x \in Goals : x = handler[h].object /\ x \in handler[h].expired
  BY <1>0 DEF InOrder, HandlerStates
<1>2. x \notin known /\ status[x] \in Terminal /\ status[x] # "none" /\ idOf[x] \in Ids
  BY <1>0, <1>1 DEF Sound, Expires, Terminal, TypeOK
<1>3. /\ handleOf' = [handleOf EXCEPT ![idOf[x]] = None] /\ futureOf' = handleOf'
      /\ \A i \in Ids : handleOf'[i] = IF i = idOf[x] THEN None ELSE handleOf[i]
  BY <1>0, <1>1, <1>2 DEF ExpireForgets, Forget, TypeOK, IInv, HandlesAreKnown
<1> DEFINE d == [handler[h] EXCEPT !.object = None, !.expired = @ \ {handler[h].object}]
<1>4. PICK b \in HandlerStates :
        /\ handler' = [handler EXCEPT ![h] = b] /\ InOrder(b) /\ b.list = <<>> /\ b.i = 1
        /\ b.goal = None /\ b.pc \in {"idle", "cancel", "ask", "expire"}
        /\ b.expired = handler[h].expired \ {x}
  <2>1. d \in HandlerStates /\ d.goal = None /\ d.expired = handler[h].expired \ {x}
    BY <1>0, <1>1 DEF HandlerStates
  <2>2. handler' = [handler EXCEPT ![h] = PartDone(d)]
    BY DEF ExpireForgets
  <2> HIDE DEF d
  <2>3. /\ PartDone(d) \in HandlerStates /\ InOrder(PartDone(d))
        /\ PartDone(d).goal = None /\ PartDone(d).pc \in {"idle", "cancel", "ask", "expire"}
        /\ PartDone(d).expired = handler[h].expired \ {x}
        /\ PartDone(d).list = <<>> /\ PartDone(d).i = 1
    BY <2>1, PartDoneInOrder
  <2> HIDE DEF PartDone
  <2> QED BY <2>2, <2>3
<1>5. /\ handler'[h] = b
      /\ \A k \in Handlers : k # h => handler'[k] = handler[k]
      /\ handler' \in [Handlers -> HandlerStates]
  BY <1>0, <1>4, OtherHandlers
<1>6. TypeOK'
  BY <1>0, <1>3, <1>5 DEF TypeOK, TheIdOf
<1>7. \A i : (Honest(i)' <=> Honest(i)) /\ (Reused(i)' <=> Reused(i)) /\ (HasEnded(i)' <=> HasEnded(i))
  BY <1>0 DEF Honest, Reused, HasEnded
<1>8. Distinct' <=> Distinct
  BY <1>0, <1>7 DEF Distinct
<1>9. HandlersAreSound'
  <2> SUFFICES ASSUME NEW k \in Handlers PROVE InOrder(handler[k])' /\ Sound(handler[k])'
    BY DEF HandlersAreSound
  <2>1. CASE k = h
    <3>1. Stage(b)' /\ SoleSteps(b)' /\ Listed(b)'
      BY <1>4 DEF Stage, SoleSteps, Listed
    <3>2. Expires(b)'
      BY <1>0, <1>4 DEF Sound, Expires
    <3>3. ASSUME Distinct, group = "exclusive", NEW y \in b.expired PROVE handleOf'[idOf[y]] = y
      <4>1. y \in handler[h].expired /\ y # x /\ y \in Goals /\ status[y] \in Terminal
        BY <1>0, <1>4 DEF Sound, Expires, HandlerStates
      <4>2. handleOf[idOf[y]] = y /\ idOf[y] \in Ids
        BY <1>0, <3>3, <4>1 DEF Sound, Sole, TypeOK
      <4>3. idOf[y] # idOf[x]
        BY <1>2, <3>3, <4>1 DEF Distinct, Reused, Terminal
      <4> QED BY <1>3, <4>2, <4>3
    <3>4. Sole(b)'
      BY <1>0, <1>8, <3>1, <3>3 DEF Sole
    <3> QED BY <1>4, <1>5, <2>1, <3>1, <3>2, <3>4 DEF Sound, Stage, Listed, Expires, Sole, SoleSteps, InOrder, TheIdOf
  <2>2. CASE k # h
    <3>1. PICK e \in HandlerStates : e = handler[k] /\ handler'[k] = e /\ InOrder(e) /\ Sound(e)
      BY <1>0, <1>5, <2>2 DEF IInv, TypeOK, HandlersAreSound
    <3>2. Stage(e)' /\ Listed(e)' /\ Expires(e)'
      BY <1>0, <1>7, <3>1 DEF Sound, Stage, Listed, Expires
    <3>3. Sole(e)'
      <4>1. group = "exclusive" => e.pc = "idle" /\ e.goal = None /\ e.expired = {}
        BY <1>0, <2>2, <3>1 DEF IInv, Alone, At, InOrder, GoalSteps
      <4> QED BY <1>0, <4>1 DEF Sole, SoleSteps
    <3> QED BY <3>1, <3>2, <3>3 DEF Sound, Stage, Listed, Expires, Sole, SoleSteps, InOrder, TheIdOf
  <2> QED BY <2>1, <2>2
<1>10. Alone'
  <2>1. \A k \in Handlers : ~At(k, "idle")' => ~At(k, "idle")
    BY <1>0, <1>5 DEF At
  <2> QED BY <1>0, <1>8, <2>1 DEF IInv, Alone
<1>11. GoalsOnce'
  <2>1. \A k \in Handlers : handler'[k].goal = handler[k].goal
    BY <1>0, <1>4, <1>5
  <2> QED BY <1>0, <2>1 DEF IInv, GoalsOnce
<1>12. HandlesAreKnown'
  <2>1. \A k : Storing(k) => Storing(k)'
    BY <1>0, <1>5 DEF Storing, At
  <2>2. \A k : k # x /\ Expiring(k) => \E m \in Handlers : k \in handler'[m].expired
    BY <1>4, <1>5 DEF Expiring
  <2>3. \A i \in Ids : handleOf'[i] # None =>
          /\ idOf[handleOf'[i]] = i /\ result[handleOf'[i]] # "none"
          /\ \/ handleOf'[i] \in known \cup lost
             \/ \E m \in Handlers : handleOf'[i] \in handler'[m].expired
    <3> SUFFICES ASSUME NEW i \in Ids, handleOf'[i] # None
                 PROVE  /\ idOf[handleOf'[i]] = i /\ result[handleOf'[i]] # "none"
                        /\ \/ handleOf'[i] \in known \cup lost
                           \/ \E m \in Handlers : handleOf'[i] \in handler'[m].expired
      OBVIOUS
    <3>1. PICK g : g = handleOf'[i] /\ g = handleOf[i] /\ i # idOf[x] /\ g # None
      BY <1>3
    <3>2. idOf[g] = i /\ result[g] # "none" /\ (g \in known \cup lost \/ Expiring(g))
      BY <3>1 DEF IInv, HandlesAreKnown
    <3> QED BY <2>2, <3>1, <3>2
  <2>4. \A k \in known : Reused(idOf[k]) \/ handleOf'[idOf[k]] = k \/ Storing(k)'
    <3> SUFFICES ASSUME NEW k \in known PROVE Reused(idOf[k]) \/ handleOf'[idOf[k]] = k \/ Storing(k)'
      OBVIOUS
    <3>1. k \in Goals /\ k # x /\ status[k] # "none" /\ idOf[k] \in Ids
      BY <1>0, <1>2 DEF TypeOK, IInv, GoalsOnce
    <3>2. CASE idOf[k] = idOf[x]
      BY <1>2, <3>1, <3>2 DEF Reused
    <3>3. CASE idOf[k] # idOf[x]
      BY <1>3, <2>1, <3>1, <3>3 DEF IInv, HandlesAreKnown
    <3> QED BY <3>2, <3>3
  <2> QED BY <1>0, <1>3, <1>7, <2>3, <2>4 DEF IInv, HandlesAreKnown, Expiring
<1>13. DeadHaveEnded' /\ ResultsAreFinal'
  BY <1>0, <1>7 DEF IInv, DeadHaveEnded, ResultsAreFinal
<1>14. SingleCancelIsHonest'
  BY <1>0 DEF IInv, SingleCancelIsHonest, CancelIsHonest
<1> QED BY <1>6, <1>9, <1>10, <1>11, <1>12, <1>13, <1>14 DEF IInv

LEMMA TakeDataIInv ==
  ASSUME IInv, NEW h \in Handlers, TakeData(h) PROVE IInv'
<1>0. /\ handler[h].pc = "idle" /\ handler[h].goal = None /\ handler[h].expired = {}
      /\ group = "exclusive" => \A k \in Handlers : handler[k].pc = "idle" /\ handler[k].goal = None
      /\ TypeOK
      /\ UNCHANGED <<gone, group, idOf, targets, answer, status, alive, handleOf, futureOf, result,
                     awaits, ex, lost>>
  BY DEF TakeData, MayTake, Free, At, IInv, HandlersAreSound, InOrder, GoalSteps, inputs, dictVars
<1>1. PICK g \in (inbox \cap Goals) \cup {None}, c \in (inbox \cap Cancels) \cup {None},
           q \in {a \in inbox \cap Asks : AskedFor(a)} \cup {None},
           X \in SUBSET {x \in known : status[x] \in Terminal} :
        /\ inbox' = inbox \ {g, c, q} /\ known' = known \ X
        /\ handler' = [handler EXCEPT ![h] = PartDone(Taken(g, c, q, X))]
  BY DEF TakeData
<1>2. X \subseteq Goals /\ X \subseteq known
  BY <1>0 DEF TypeOK
<1> DEFINE d == Taken(g, c, q, X)
<1>3. PICK b \in HandlerStates :
        /\ handler' = [handler EXCEPT ![h] = b] /\ InOrder(b) /\ b.list = <<>> /\ b.i = 1
        /\ b.goal = g /\ b.pc \in {"idle", "goal", "cancel", "ask", "expire"}
        /\ b.expired = X
  <2>1. d \in HandlerStates /\ d.goal = g /\ d.expired = X
    <3>1. Idle \in HandlerStates
      BY DEF Idle, HandlerStates
    <3> QED BY <1>2, <3>1 DEF Taken, HandlerStates
  <2>2. handler' = [handler EXCEPT ![h] = PartDone(d)]
    BY <1>1
  <2> HIDE DEF d
  <2>3. /\ PartDone(d) \in HandlerStates /\ InOrder(PartDone(d))
        /\ PartDone(d).goal = g /\ PartDone(d).pc \in {"idle", "goal", "cancel", "ask", "expire"}
        /\ PartDone(d).expired = X
        /\ PartDone(d).list = <<>> /\ PartDone(d).i = 1
    BY <2>1, PartDoneInOrder
  <2> HIDE DEF PartDone
  <2> QED BY <2>2, <2>3
<1>4. /\ handler'[h] = b
      /\ \A k \in Handlers : k # h => handler'[k] = handler[k]
      /\ handler' \in [Handlers -> HandlerStates]
  BY <1>0, <1>3, OtherHandlers
<1>5. TypeOK'
  BY <1>0, <1>1, <1>4 DEF TypeOK, TheIdOf
<1>6. \A i : (Honest(i)' <=> Honest(i)) /\ (Reused(i)' <=> Reused(i)) /\ (HasEnded(i)' <=> HasEnded(i))
  BY <1>0 DEF Honest, Reused, HasEnded
<1>7. Distinct' <=> Distinct
  BY <1>0, <1>6 DEF Distinct
<1>8. b.goal # None => b.goal \in inbox \cap Goals
  BY <1>1, <1>3
<1>9. HandlersAreSound'
  <2> SUFFICES ASSUME NEW k \in Handlers PROVE InOrder(handler[k])' /\ Sound(handler[k])'
    BY DEF HandlersAreSound
  <2>1. CASE k = h
    <3>1. Stage(b)' /\ SoleSteps(b)' /\ Listed(b)'
      <4>1. b.goal # None => status[b.goal] = "none" /\ answer[b.goal] = None
        BY <1>8 DEF IInv, GoalsOnce
      <4> QED BY <1>0, <1>3, <4>1 DEF Stage, SoleSteps, Listed
    <3>2. Expires(b)'
      BY <1>0, <1>1, <1>3 DEF Expires
    <3>3. ASSUME Distinct, group = "exclusive", NEW x \in b.expired PROVE handleOf[idOf[x]] = x
      <4>1. x \in known /\ x \in Goals /\ idOf[x] \in Ids
        BY <1>0, <1>2, <1>3 DEF TypeOK
      <4>2. ~Storing(x) /\ ~Reused(idOf[x])
        BY <1>0, <3>3, <4>1 DEF Storing, At, Distinct
      <4> QED BY <4>1, <4>2 DEF IInv, HandlesAreKnown
    <3>4. Sole(b)'
      BY <1>0, <1>7, <3>1, <3>3 DEF Sole
    <3> QED BY <1>3, <1>4, <2>1, <3>1, <3>2, <3>4 DEF Sound, Stage, Listed, Expires, Sole, SoleSteps, InOrder, TheIdOf
  <2>2. CASE k # h
    <3>1. PICK e \in HandlerStates : e = handler[k] /\ handler'[k] = e /\ InOrder(e) /\ Sound(e)
      BY <1>0, <1>4, <2>2 DEF IInv, TypeOK, HandlersAreSound
    <3>2. Stage(e)'
      <4>1. \A x \in known : status[x] = "accepted" => x \in known'
        BY <1>1 DEF Terminal
      <4> QED BY <1>0, <3>1, <4>1 DEF Sound, Stage
    <3>3. Listed(e)' /\ Expires(e)'
      BY <1>0, <1>1, <1>6, <3>1 DEF Sound, Listed, Expires
    <3>4. Sole(e)'
      <4>1. TheIdOf(e.ask)' = TheIdOf(e.ask)
        BY <1>0 DEF TheIdOf
      <4> QED BY <1>0, <1>7, <3>1, <4>1 DEF Sound, Sole, SoleSteps
    <3> QED BY <3>1, <3>2, <3>3, <3>4 DEF Sound, Stage, Listed, Expires, Sole, SoleSteps, InOrder, TheIdOf
  <2> QED BY <2>1, <2>2
<1>10. Alone'
  BY <1>0, <1>4, <1>7 DEF IInv, Alone, At
<1>11. GoalsOnce'
  <2>1. \A k \in inbox' \cap Goals : status[k] = "none" /\ answer[k] = None
          /\ \A m \in Handlers : handler'[m].goal # k
    BY <1>1, <1>3, <1>4 DEF IInv, GoalsOnce
  <2>2. \A k, m \in Handlers : handler'[k].goal # None /\ handler'[k].goal = handler'[m].goal => k = m
    BY <1>4, <1>8 DEF IInv, GoalsOnce
  <2> QED BY <1>0, <1>1, <2>1, <2>2 DEF IInv, GoalsOnce
<1>12. HandlesAreKnown'
  <2>1. \A k : Storing(k) => Storing(k)'
    BY <1>0, <1>4 DEF Storing, At
  <2>2. \A k : Expiring(k) \/ k \in X => Expiring(k)'
    BY <1>0, <1>3, <1>4 DEF Expiring
  <2> QED BY <1>0, <1>1, <1>6, <2>1, <2>2 DEF IInv, HandlesAreKnown
<1>13. DeadHaveEnded' /\ ResultsAreFinal'
  BY <1>0, <1>6 DEF IInv, DeadHaveEnded, ResultsAreFinal
<1>14. SingleCancelIsHonest'
  BY <1>0 DEF IInv, SingleCancelIsHonest, CancelIsHonest
<1> QED BY <1>5, <1>9, <1>10, <1>11, <1>12, <1>13, <1>14 DEF IInv

-----------------------------------------------------------------------------
LEMMA NextIInv == IInv /\ [Next]_vars => IInv'
<1> SUFFICES ASSUME IInv, [Next]_vars PROVE IInv'
  OBVIOUS
<1>1. ASSUME NEW h \in Handlers, TakeData(h) \/ Handle(h) PROVE IInv'
  BY <1>1, TakeDataIInv, DecidesIInv, GoalAcceptsIInv, GoalStoresIInv, RespondsIInv, HandleAcceptedIInv,
     ExecutedIInv, ListsIInv, AsksIInv, CancelAcceptedIInv, RefusedIInv, CancelRespondsIInv, AskTestsIInv,
     AskRegistersIInv, ExpireDestroysIInv, ExpireForgetsIInv DEF Handle
<1>2. ASSUME NEW g \in Goals, Run(g) \/ DeferredExecute(g) \/ UserUpdates(g) PROVE IInv'
  BY <1>2, RunIInv, ExecuteUpdatesIInv, TaskAbortsIInv, SetsResultIInv, UserUpdatesIInv DEF Run
<1>3. ASSUME NEW q \in Asks, SendResult(q) PROVE IInv'
  BY <1>3, SendResultIInv
<1>4. CASE UNCHANGED vars
  <2>1. /\ Forward /\ TypeOK'
        /\ UNCHANGED <<inputs, inbox, answer, goalVars, dictVars, result, awaits, ex, handler, lost>>
    BY <1>4 DEF IInv, TypeOK, vars, inputs, goalVars, dictVars, Forward, TheIdOf
  <2>2. \A h \in Handlers : SoleSteps(handler[h])'
    <3> SUFFICES ASSUME NEW h \in Handlers PROVE SoleSteps(handler[h])'
      OBVIOUS
    <3>1. SoleSteps(handler[h]) /\ handler' = handler
      BY <2>1 DEF IInv, HandlersAreSound, Sound, Sole
    <3> QED BY <2>1, <3>1 DEF SoleSteps, TheIdOf, inputs, goalVars, dictVars
  <2>3. ResultsAreFinal'
    BY <2>1 DEF IInv, ResultsAreFinal, Reused, inputs, goalVars
  <2> QED BY <2>1, <2>2, <2>3, GoalsGoOnIInv DEF IInv, GoalsOnce, goalVars
<1> QED BY <1>1, <1>2, <1>3, <1>4 DEF Next

(* The invariant: handlers work on their parts in order, each goal request *)
(* is served once, the dictionaries hold what rcl tracks, what it is       *)
(* letting go of and what went down with a handler, and results are final. *)
THEOREM Invariance == Spec => []IInv
<1>1. IInv /\ [Next]_vars => IInv'
  BY NextIInv
<1> QED BY InitIInv, <1>1, PTL DEF Spec

(* A client is told "accepted" only of a goal that got a handle, and       *)
(* "rejected" only of one that did not, whatever another request with the  *)
(* same id does while _execute_goal_request awaits the goal callback; a    *)
(* result future holds the state its goal ended in.                        *)
THEOREM AnswersMatch == Spec => []AnswersMatchGoals
<1>1. IInv => AnswersMatchGoals
  BY DEF IInv, GoalsOnce, ResultsAreFinal, AnswersMatchGoals
<1> QED BY <1>1, Invariance, PTL

(* _goal_handles and _result_futures hold the goals rcl tracks and those   *)
(* on their way out, as long as no id is reused.                           *)
THEOREM DictionariesAgree == Spec => []DictionariesFollowRcl
<1>1. IInv => lost \subseteq Excused
  BY DEF IInv, Alone, Distinct, Excused
<1>2. IInv => DictionariesFollowRcl
  BY <1>1 DEF IInv, TypeOK, HandlesAreKnown, Expiring, Storing, DictionariesFollowRcl
<1> QED BY <1>2, Invariance, PTL

(* The answer of _execute_cancel_request to a request for one goal names   *)
(* it only if the goal is being cancelled or has ended.                    *)
THEOREM SingleCancels == Spec => []SingleCancelIsHonest
<1>1. IInv => SingleCancelIsHonest
  BY DEF IInv
<1> QED BY <1>1, Invariance, PTL
=============================================================================
