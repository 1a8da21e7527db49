--------------------------- MODULE BlockingCalls_proofs ---------------------------
(***************************************************************************)
(* Proofs about instances of MCBlockingCalls, which give their parameters  *)
(* names and no values. The time source (SimTime, the instance Clock): its *)
(* clocks and its subscription stay in step with it, for any nodes, clocks *)
(* and sleepers. The EventsExecutor (the instance Events): nothing that is *)
(* put in front of it is overlooked, for any subscriptions.                *)
(***************************************************************************)
EXTENDS MCBlockingCalls, FiniteSetTheorems, SequenceTheorems, TLAPS

(* What the agreement of the parts depends on.                              *)
SourceTypeOK ==
    /\ useSimTime \in [Nodes -> BOOLEAN] /\ active \in BOOLEAN
    /\ attached \in SUBSET Clocks
    /\ enabled \in [Clocks -> BOOLEAN]
    /\ override = [c \in Clocks |-> override[c]]

SInv == SourceTypeOK /\ Clock!TimeSourceInStep

(* The setter of ros_time_is_active leaves the clocks that are attached on *)
(* its value, and a subscription only on the node it was given.            *)
LEMMA SetActiveInStep ==
    ASSUME SInv, NEW b \in BOOLEAN, NEW oldSub, NEW newNode, Clock!SetActive(b, oldSub, newNode),
           UNCHANGED <<attached, override, lastTime>>
    PROVE  /\ active' = b /\ enabled' \in [Clocks -> BOOLEAN]
           /\ Clock!ClocksAgree'
           /\ active = b => sub' = oldSub
           /\ active # b => sub' = IF ~b THEN None ELSE IF oldSub = None THEN newNode ELSE oldSub
<1>1. CASE active = b
  BY <1>1 DEF SInv, SourceTypeOK, Clock!TimeSourceInStep, Clock!ClocksAgree, Clock!SetActive
<1>2. CASE active # b
  <2>1. enabled' = [c \in Clocks |-> IF c \in attached THEN b ELSE enabled[c]]
    BY <1>2 DEF Clock!SetActive, Clock!set_ros_time_is_active
  <2> QED
    BY <1>2, <2>1 DEF SInv, SourceTypeOK, Clock!TimeSourceInStep, Clock!ClocksAgree, Clock!SetActive
<1> QED
  BY <1>1, <1>2

LEMMA AttachNodeSInv == ASSUME SInv, NEW n \in Nodes, Clock!attach_node(n) PROVE SInv'
<1>1. useSimTime[n] \in BOOLEAN
  BY DEF SInv, SourceTypeOK
<1>2. /\ UNCHANGED <<attached, override, lastTime, useSimTime>> /\ node' = n
      /\ reattached' = (reattached \/ active)
  BY DEF Clock!attach_node
<1>3. /\ active' = useSimTime[n] /\ enabled' \in [Clocks -> BOOLEAN] /\ Clock!ClocksAgree'
      /\ active = useSimTime[n] => sub' = IF node = None THEN sub ELSE None
      /\ active # useSimTime[n] =>
            sub' = IF ~useSimTime[n] THEN None
                   ELSE IF (IF node = None THEN sub ELSE None) = None THEN n
                   ELSE IF node = None THEN sub ELSE None
  BY <1>1, <1>2, SetActiveInStep DEF Clock!attach_node
<1>4. node = None => sub = None
  BY DEF SInv, Clock!TimeSourceInStep, Clock!SubscriptionFollowsNode
<1>5. Clock!SubscriptionFollowsNode'
  BY <1>1, <1>2, <1>3, <1>4 DEF SInv, SourceTypeOK, Clock!TimeSourceInStep, Clock!SubscriptionFollowsNode
<1> QED
  BY <1>1, <1>2, <1>3, <1>5 DEF SInv, SourceTypeOK, Clock!TimeSourceInStep

LEMMA DetachNodeSInv == ASSUME SInv, Clock!detach_node PROVE SInv'
BY DEF SInv, SourceTypeOK, Clock!TimeSourceInStep, Clock!ClocksAgree, Clock!SubscriptionFollowsNode,
   Clock!detach_node, Clock!sleep

LEMMA ParameterSInv ==
    ASSUME SInv, NEW n \in Nodes, NEW b \in BOOLEAN, Clock!on_parameter_event(n, b)
    PROVE  SInv'
<1>1. /\ useSimTime' \in [Nodes -> BOOLEAN]
      /\ UNCHANGED <<attached, override, lastTime, node, reattached>>
  BY DEF SInv, SourceTypeOK, Clock!on_parameter_event
<1>2. CASE n \in listening
  <2>1. /\ active' = b /\ enabled' \in [Clocks -> BOOLEAN] /\ Clock!ClocksAgree'
        /\ active = b => sub' = sub
        /\ active # b => sub' = IF ~b THEN None ELSE IF sub = None THEN node ELSE sub
    BY <1>1, <1>2, SetActiveInStep DEF Clock!on_parameter_event
  <2>2. Clock!SubscriptionFollowsNode'
    BY <1>1, <2>1 DEF SInv, SourceTypeOK, Clock!TimeSourceInStep, Clock!SubscriptionFollowsNode
  <2> QED
    BY <1>1, <2>1, <2>2 DEF SInv, SourceTypeOK, Clock!TimeSourceInStep
<1>3. CASE n \notin listening
  BY <1>1, <1>3 DEF SInv, SourceTypeOK, Clock!TimeSourceInStep, Clock!ClocksAgree,
     Clock!SubscriptionFollowsNode, Clock!on_parameter_event
<1> QED
  BY <1>2, <1>3

(* A clock that is attached takes the last time and the source of time.    *)
LEMMA AttachClockSInv == ASSUME SInv, NEW c \in Clocks, Clock!attach_clock(c) PROVE SInv'
<1>1. /\ attached' = attached \cup {c}
      /\ override' = [override EXCEPT ![c] = lastTime]
      /\ enabled' = [d \in Clocks |-> IF d \in {c} THEN active ELSE enabled[d]]
      /\ c \notin attached
      /\ UNCHANGED <<useSimTime, node, sub, active, lastTime, reattached>>
  BY DEF Clock!attach_clock, Clock!set_ros_time_is_active
<1> QED
  BY <1>1 DEF SInv, SourceTypeOK, Clock!TimeSourceInStep, Clock!ClocksAgree, Clock!SubscriptionFollowsNode

LEMMA ClockCallbackSInv == ASSUME SInv, Clock!clock_callback PROVE SInv'
<1>1. /\ override' = [c \in Clocks |-> IF c \in attached THEN lastTime' ELSE override[c]]
      /\ UNCHANGED <<useSimTime, node, sub, active, attached, reattached, enabled>>
  BY DEF Clock!clock_callback, Clock!set_ros_time_override
<1> QED
  BY <1>1 DEF SInv, SourceTypeOK, Clock!TimeSourceInStep, Clock!ClocksAgree, Clock!SubscriptionFollowsNode

(* Threads that sleep, and the shutdown, leave the source and clocks alone. *)
LEMMA SourceAlone ==
    ASSUME SInv, UNCHANGED <<useSimTime, node, sub, active, attached, lastTime, reattached, enabled, override>>
    PROVE  SInv'
BY DEF SInv, SourceTypeOK, Clock!TimeSourceInStep, Clock!ClocksAgree, Clock!SubscriptionFollowsNode

(* The time source and its clocks: the invariant in every reachable state. *)
THEOREM SourceInvariance == Clock!Spec => []SInv
<1>1. Clock!Init => SInv
  BY DEF Clock!Init, SInv, SourceTypeOK, Clock!TimeSourceInStep, Clock!ClocksAgree,
     Clock!SubscriptionFollowsNode
<1>2. SInv /\ [Clock!Next]_Clock!vars => SInv'
  <2> SUFFICES ASSUME SInv, [Clock!Next]_Clock!vars PROVE SInv'
    OBVIOUS
  <2>1. CASE Clock!Attach
    BY <2>1, AttachNodeSInv, DetachNodeSInv, AttachClockSInv DEF Clock!Attach
  <2>2. CASE Clock!SetUseSimTime
    BY <2>2, ParameterSInv DEF Clock!SetUseSimTime
  <2>3. CASE Clock!clock_callback
    BY <2>3, ClockCallbackSInv
  <2>4. CASE Clock!Sleep
    <3>1. UNCHANGED <<useSimTime, node, sub, active, attached, lastTime, reattached, enabled, override>>
      BY <2>4 DEF Clock!Sleep, Clock!SleepStep, Clock!sleep_until, Clock!create_jump_callback,
         Clock!wait_until_ros, Clock!WallTimePasses, Clock!Leave, Clock!source
    <3> QED
      BY <3>1, SourceAlone
  <2>5. CASE Clock!Shutdown
    <3>1. UNCHANGED <<useSimTime, node, sub, active, attached, lastTime, reattached, enabled, override>>
      BY <2>5 DEF Clock!Shutdown, Clock!source
    <3> QED
      BY <3>1, SourceAlone
  <2>6. CASE UNCHANGED Clock!vars
    <3>1. UNCHANGED <<useSimTime, node, sub, active, attached, lastTime, reattached, enabled, override>>
      BY <2>6 DEF Clock!vars, Clock!source
    <3> QED
      BY <3>1, SourceAlone
  <2> QED
    BY <2>1, <2>2, <2>3, <2>4, <2>5, <2>6 DEF Clock!Next
<1> QED
  BY <1>1, <1>2, PTL DEF Clock!Spec

(* Every clock that is attached shows the time and uses the source of time *)
(* that the time source has, and a subscription to /clock is on the node   *)
(* that is attached, exactly while simulated time is in use (but for a     *)
(* node attached during it); whatever order nodes and clocks come and go   *)
(* in and use_sim_time changes (time_source.py:48-145, clock.py:210-238).  *)
THEOREM SourceStaysInStep == Clock!Spec => []TimeSourceInStep
<1>1. SInv => TimeSourceInStep
  BY DEF SInv, TimeSourceInStep
<1> QED
  BY SourceInvariance, <1>1, PTL

-------------------------------------------------------------------------------
(* The EventsExecutor: its set, its queue and its messages, for any          *)
(* subscriptions and any number of requests.                                 *)
ReadyEvents == {"ready"} \X Subscriptions \X (1..MaxRequests)
QueueEvents == {<<"update">>, <<"task">>, <<"stop">>} \cup ReadyEvents

QueueTypeOK ==
    /\ requests \in 0..MaxRequests
    /\ entities \subseteq Subscriptions /\ tracked \subseteq Subscriptions /\ collected \subseteq Subscriptions
    /\ messages \in [Subscriptions -> Nat] /\ unread \in [Subscriptions -> 0..requests]
    /\ queue \in Seq(QueueEvents) /\ (queuePc = "take" => queueEvent \in ReadyEvents)

(* The flag promises an update that has not cleared it yet.                  *)
WakeIsSeen == wakePending => Events!UpdateQueued \/ queuePc \in {"ok", "clear"}

(* What an update collected is out of date only if another one follows.      *)
CollectedIsCurrent == queuePc = "apply" => collected = Events!Wanted \/ unwoken \/ Events!UpdateQueued

(* Every message is announced, in hand, or left for the middleware to tell   *)
(* of; for a tracked subscription nothing is left.                           *)
Accounted(s) == messages[s] <= Events!Announced(queue, s) + Events!InHand(s) + unread[s]
MessagesAccounted == \A s \in Subscriptions \ lost : Accounted(s)
TrackedAreRead == \A s \in tracked : unread[s] = 0

(* Where the set is not that of the nodes, an update is due that will see it.*)
SetWillFollow ==
    tracked # Events!Wanted => \/ unwoken \/ Events!UpdateQueued
                               \/ queuePc \in {"ok", "clear", "collect"}
                               \/ queuePc = "apply" /\ collected = Events!Wanted

QInv ==
    QueueTypeOK /\ WakeIsSeen /\ CollectedIsCurrent /\ MessagesAccounted /\ TrackedAreRead /\ SetWillFollow

-----------------------------------------------------------------------------
LEMMA QueueEventFacts ==
    ASSUME NEW e \in QueueEvents
    PROVE  e[1] = "ready" => e \in ReadyEvents
BY DEF QueueEvents, ReadyEvents

LEMMA ReadyEventFacts ==
    ASSUME NEW e \in ReadyEvents
    PROVE  /\ e \in QueueEvents /\ e[1] = "ready" /\ e[2] \in Subscriptions /\ e[3] \in 1..MaxRequests
           /\ e = <<"ready", e[2], e[3]>>
BY DEF QueueEvents, ReadyEvents

LEMMA QueueEventsAre ==
    /\ <<"update">> \in QueueEvents /\ <<"task">> \in QueueEvents /\ <<"stop">> \in QueueEvents
    /\ \A s \in Subscriptions, n \in 1..MaxRequests : <<"ready", s, n>> \in ReadyEvents
BY DEF QueueEvents, ReadyEvents

(* Elements of a sequence that was read, appended to or continued.           *)
LEMMA TailElements ==
    ASSUME NEW E, NEW q \in Seq(E), q # <<>>
    PROVE  /\ Head(q) \in E /\ Tail(q) \in Seq(E)
           /\ 1 \in DOMAIN q /\ Head(q) = q[1]
           /\ \A i \in DOMAIN Tail(q) : i + 1 \in DOMAIN q /\ i \in Nat \ {0} /\ Tail(q)[i] = q[i + 1]
           /\ \A i \in DOMAIN q : i \in Nat /\ (i = 1 \/ (i - 1 \in DOMAIN Tail(q) /\ q[i] = Tail(q)[i - 1]))
<1>1. /\ Len(q) \in Nat \ {0} /\ DOMAIN q = 1..Len(q) BY LenProperties, EmptySeq
<1>2. /\ Head(q) \in E /\ Tail(q) \in Seq(E) /\ Len(Tail(q)) = Len(q) - 1
      /\ \A i \in 1..Len(Tail(q)) : Tail(q)[i] = q[i + 1]
    BY HeadTailProperties
<1>3. DOMAIN Tail(q) = 1..(Len(q) - 1) BY <1>2, LenProperties
<1>4. Head(q) = q[1] OBVIOUS
<1> QED BY <1>1, <1>2, <1>3, <1>4

LEMMA AppendElements ==
    ASSUME NEW E, NEW q \in Seq(E), NEW e \in E
    PROVE  /\ Append(q, e) \in Seq(E)
           /\ \A i \in DOMAIN q : i \in DOMAIN Append(q, e) /\ Append(q, e)[i] = q[i]
           /\ Len(q) + 1 \in DOMAIN Append(q, e) /\ Append(q, e)[Len(q) + 1] = e
           /\ Len(q) + 1 \notin DOMAIN q
<1>1. Len(q) \in Nat /\ DOMAIN q = 1..Len(q) BY LenProperties
<1>2. /\ Append(q, e) \in Seq(E) /\ Len(Append(q, e)) = Len(q) + 1
      /\ \A i \in 1..Len(q) : Append(q, e)[i] = q[i]
      /\ Append(q, e)[Len(q) + 1] = e
    BY AppendProperties
<1>3. DOMAIN Append(q, e) = 1..(Len(q) + 1) BY <1>2, LenProperties
<1> QED BY <1>1, <1>2, <1>3

LEMMA ConcatElements ==
    ASSUME NEW E, NEW q \in Seq(E), NEW r \in Seq(E)
    PROVE  /\ q \o r \in Seq(E)
           /\ \A i \in DOMAIN q : i \in DOMAIN (q \o r) /\ (q \o r)[i] = q[i]
           /\ \A i \in DOMAIN r : \E j \in DOMAIN (q \o r) : j \notin DOMAIN q /\ (q \o r)[j] = r[i]
<1>1. Len(q) \in Nat /\ DOMAIN q = 1..Len(q) /\ Len(r) \in Nat /\ DOMAIN r = 1..Len(r) BY LenProperties
<1>2. /\ q \o r \in Seq(E) /\ Len(q \o r) = Len(q) + Len(r)
      /\ \A i \in 1..Len(q) + Len(r) : (q \o r)[i] = IF i <= Len(q) THEN q[i] ELSE r[i - Len(q)]
    BY ConcatProperties
<1>3. DOMAIN (q \o r) = 1..(Len(q) + Len(r)) BY <1>2, LenProperties
<1>4. \A i \in DOMAIN q : i \in DOMAIN (q \o r) /\ (q \o r)[i] = q[i] BY <1>1, <1>2, <1>3
<1>5. ASSUME NEW i \in DOMAIN r PROVE \E j \in DOMAIN (q \o r) : j \notin DOMAIN q /\ (q \o r)[j] = r[i]
    <2>1. /\ i + Len(q) \in 1..(Len(q) + Len(r)) /\ ~(i + Len(q) <= Len(q)) /\ (i + Len(q)) - Len(q) = i
          /\ i + Len(q) \notin DOMAIN q
        BY <1>1
    <2> QED BY <2>1, <1>2, <1>3
<1> QED BY <1>2, <1>4, <1>5

(* The instance sees the operators of FiniteSets that are seen here.         *)
LEMMA SameFiniteSets ==
    ASSUME NEW S
    PROVE  /\ Events!IsFiniteSet(S) <=> IsFiniteSet(S)
           /\ Events!Cardinality(S) = Cardinality(S)
<1>1. Events!IsFiniteSet(S) <=> IsFiniteSet(S)
    BY DEF Events!IsFiniteSet, IsFiniteSet
<1>2. Events!Cardinality(S) = Cardinality(S)
    BY DEF Events!Cardinality, Cardinality
<1> QED BY <1>1, <1>2

(* An order of a finite set is a sequence that names each element.           *)
LEMMA OrderIsComplete ==
    ASSUME NEW S, IsFiniteSet(S), NEW order \in Events!SetToSeqs(S)
    PROVE  order \in Seq(S) /\ \A s \in S : \E i \in DOMAIN order : order[i] = s
<1> DEFINE D == 1..Cardinality(S)
<1>1. Cardinality(S) \in Nat BY FS_CardinalityType
<1>2. order \in [D -> S] /\ \A i, j \in D : i # j => order[i] # order[j]
    BY SameFiniteSets DEF Events!SetToSeqs
<1>3. IsFiniteSet(D) /\ Cardinality(D) = Cardinality(S) BY <1>1, FS_Interval
<1>4. order \in Injection(D, S) BY <1>2 DEF Injection, IsInjective
<1>5. order \in Surjection(D, S) BY <1>3, <1>4, FS_Injection
<1> QED BY <1>1, <1>2, <1>5 DEF Surjection

LEMMA Pairs ==
    ASSUME NEW j, NEW n \in Nat
    PROVE  IsFiniteSet({j} \X (1..n)) /\ Cardinality({j} \X (1..n)) = n
<1>1. IsFiniteSet(1..n) /\ Cardinality(1..n) = n BY FS_Interval
<1>2. IsFiniteSet({j}) /\ Cardinality({j}) = 1 BY FS_Singleton
<1>3. IsFiniteSet({j} \X (1..n)) /\ Cardinality({j} \X (1..n)) = Cardinality({j}) * Cardinality(1..n)
    BY <1>1, <1>2, FS_Product
<1> QED BY <1>1, <1>2, <1>3

-----------------------------------------------------------------------------
(* What the events of a queue say of a subscription: a pair for each of the  *)
(* messages they announce.                                                   *)
Said(q, s) == UNION {{i} \X (1..q[i][3]) : i \in Events!Announces(q, s)}

LEMMA SaidOf ==
    ASSUME NEW q, NEW s
    PROVE  /\ Events!Announced(q, s) = Cardinality(Said(q, s))
           /\ \A m : m \in Said(q, s) <=>
                \E i \in DOMAIN q : \E k \in 1..q[i][3] : q[i][1] = "ready" /\ q[i][2] = s /\ m = <<i, k>>
<1>1. Events!Announced(q, s) = Cardinality(Said(q, s)) BY SameFiniteSets DEF Events!Announced, Said
<1>2. ASSUME NEW m, m \in Said(q, s)
      PROVE  \E i \in DOMAIN q : \E k \in 1..q[i][3] : q[i][1] = "ready" /\ q[i][2] = s /\ m = <<i, k>>
    <2>1. PICK i \in Events!Announces(q, s) : m \in {i} \X (1..q[i][3]) BY <1>2 DEF Said
    <2> QED BY <2>1 DEF Events!Announces
<1>3. ASSUME NEW i \in DOMAIN q, NEW k \in 1..q[i][3], q[i][1] = "ready", q[i][2] = s
      PROVE  <<i, k>> \in Said(q, s)
    <2>1. i \in Events!Announces(q, s) BY <1>3 DEF Events!Announces
    <2>2. <<i, k>> \in {i} \X (1..q[i][3]) OBVIOUS
    <2> QED BY <2>1, <2>2 DEF Said
<1> QED BY <1>1, <1>2, <1>3

LEMMA SaidIsFinite ==
    ASSUME Events!EventsAssumption, NEW q \in Seq(QueueEvents), NEW s
    PROVE  IsFiniteSet(Said(q, s)) /\ Events!Announced(q, s) \in Nat
<1>1. Len(q) \in Nat /\ DOMAIN q = 1..Len(q) /\ \A i \in DOMAIN q : q[i] \in QueueEvents BY LenProperties
<1>2. IsFiniteSet((1..Len(q)) \X (1..MaxRequests))
    <2>1. IsFiniteSet(1..Len(q)) BY <1>1, FS_Interval
    <2>2. IsFiniteSet(1..MaxRequests) BY FS_Interval DEF Events!EventsAssumption
    <2> QED BY <2>1, <2>2, FS_Product
<1>3. Said(q, s) \subseteq (1..Len(q)) \X (1..MaxRequests)
    <2> SUFFICES ASSUME NEW m \in Said(q, s) PROVE m \in (1..Len(q)) \X (1..MaxRequests) OBVIOUS
    <2>1. PICK i \in DOMAIN q : \E k \in 1..q[i][3] : q[i][1] = "ready" /\ q[i][2] = s /\ m = <<i, k>>
        BY SaidOf
    <2>2. PICK k \in 1..q[i][3] : q[i][1] = "ready" /\ q[i][2] = s /\ m = <<i, k>> BY <2>1
    <2>3. q[i][3] \in 1..MaxRequests BY <1>1, <2>2, QueueEventFacts, ReadyEventFacts
    <2>4. k \in 1..MaxRequests BY <2>3 DEF Events!EventsAssumption
    <2> QED BY <1>1, <2>2, <2>4
<1>4. IsFiniteSet(Said(q, s)) BY <1>2, <1>3, FS_Subset
<1> QED BY <1>4, SaidOf, FS_CardinalityType

(* A queue that keeps its events announces no less.                          *)
LEMMA AnnouncedStays ==
    ASSUME Events!EventsAssumption, NEW q \in Seq(QueueEvents), NEW r \in Seq(QueueEvents), NEW s,
           \A i \in DOMAIN q : i \in DOMAIN r /\ r[i] = q[i]
    PROVE  Events!Announced(q, s) <= Events!Announced(r, s)
<1>1. Said(q, s) \subseteq Said(r, s)
    BY SaidOf
<1> QED BY <1>1, SaidIsFinite, SaidOf, FS_Subset

(* With an event more, it announces what that says.                          *)
LEMMA AnnouncedGrows ==
    ASSUME Events!EventsAssumption, NEW q \in Seq(QueueEvents), NEW r \in Seq(QueueEvents), NEW s,
           \A i \in DOMAIN q : i \in DOMAIN r /\ r[i] = q[i],
           NEW n \in Nat, NEW j \in DOMAIN r \ DOMAIN q, r[j] = <<"ready", s, n>>
    PROVE  Events!Announced(q, s) + n <= Events!Announced(r, s)
<1> DEFINE more == {j} \X (1..n)
<1>1. Said(q, s) \cup more \subseteq Said(r, s)
    <2>1. Said(q, s) \subseteq Said(r, s) BY SaidOf
    <2>2. ASSUME NEW m \in more PROVE m \in Said(r, s)
        <3>1. PICK k \in 1..n : m = <<j, k>> OBVIOUS
        <3>2. k \in 1..r[j][3] /\ r[j][1] = "ready" /\ r[j][2] = s OBVIOUS
        <3> QED BY <3>1, <3>2, SaidOf
    <2> QED BY <2>1, <2>2
<1>2. Said(q, s) \cap more = {} BY SaidOf
<1>3. IsFiniteSet(more) /\ Cardinality(more) = n BY Pairs
<1> HIDE DEF more
<1>4. Cardinality(Said(q, s) \cup more) = Events!Announced(q, s) + n
    <2>1. /\ IsFiniteSet(Said(q, s)) /\ Events!Announced(q, s) \in Nat
          /\ Events!Announced(q, s) = Cardinality(Said(q, s))
        BY SaidIsFinite, SaidOf
    <2>2. Cardinality(Said(q, s) \cup more) = Cardinality(Said(q, s)) + Cardinality(more) - Cardinality({})
        BY <1>2, <1>3, <2>1, FS_Union
    <2> QED BY <1>3, <2>1, <2>2, FS_EmptySet
<1> QED BY <1>1, <1>4, SaidIsFinite, SaidOf, FS_Subset

(* Without its first event, it announces no less than the others say.        *)
LEMMA AnnouncedAfterHead ==
    ASSUME Events!EventsAssumption, NEW q \in Seq(QueueEvents), q # <<>>, NEW s
    PROVE  LET n == IF Head(q)[1] = "ready" /\ Head(q)[2] = s THEN Head(q)[3] ELSE 0
           IN  n \in Nat /\ Events!Announced(q, s) <= Events!Announced(Tail(q), s) + n
<1> DEFINE n == IF Head(q)[1] = "ready" /\ Head(q)[2] = s THEN Head(q)[3] ELSE 0
           first == {1} \X (1..n)
           others == Said(q, s) \ first
           move == [m \in others |-> <<m[1] - 1, m[2]>>]
<1>1. /\ Head(q) \in QueueEvents /\ Tail(q) \in Seq(QueueEvents) /\ 1 \in DOMAIN q /\ Head(q) = q[1]
      /\ \A i \in DOMAIN q : i \in Nat /\ (i = 1 \/ (i - 1 \in DOMAIN Tail(q) /\ q[i] = Tail(q)[i - 1]))
    BY TailElements
<1>2. n \in Nat BY <1>1, QueueEventFacts, ReadyEventFacts
<1>3. IsFiniteSet(first) /\ Cardinality(first) = n BY <1>2, Pairs
<1>4. ASSUME NEW m \in others
      PROVE  \E i \in DOMAIN Tail(q) : \E k \in 1..Tail(q)[i][3] :
                /\ Tail(q)[i][1] = "ready" /\ Tail(q)[i][2] = s
                /\ m = <<i + 1, k>> /\ move[m] = <<i, k>> /\ i \in Nat
    <2>1. PICK i \in DOMAIN q : \E k \in 1..q[i][3] : q[i][1] = "ready" /\ q[i][2] = s /\ m = <<i, k>>
        BY SaidOf
    <2>2. PICK k \in 1..q[i][3] : q[i][1] = "ready" /\ q[i][2] = s /\ m = <<i, k>> BY <2>1
    <2>3. i # 1
        <3> SUFFICES ASSUME i = 1 PROVE FALSE OBVIOUS
        <3>1. n = q[1][3] BY <1>1, <2>2
        <3>2. m \in first BY <2>2, <3>1
        <3> QED BY <3>2
    <2>4. i - 1 \in DOMAIN Tail(q) /\ q[i] = Tail(q)[i - 1] /\ i \in Nat BY <1>1, <2>3
    <2>5. i - 1 \in Nat
        <3>1. Len(Tail(q)) \in Nat /\ DOMAIN Tail(q) = 1..Len(Tail(q)) BY <1>1, LenProperties
        <3> QED BY <2>4, <3>1
    <2>6. move[m] = <<i - 1, k>> /\ m = <<(i - 1) + 1, k>> BY <2>2, <2>4
    <2> QED BY <2>2, <2>4, <2>5, <2>6
<1>5. move \in Injection(others, Said(Tail(q), s))
    <2>1. ASSUME NEW m \in others PROVE move[m] \in Said(Tail(q), s)
        BY <1>4, SaidOf
    <2>2. ASSUME NEW m1 \in others, NEW m2 \in others, move[m1] = move[m2] PROVE m1 = m2
        <3>1. PICK i1 \in DOMAIN Tail(q) : \E k \in 1..Tail(q)[i1][3] :
                    m1 = <<i1 + 1, k>> /\ move[m1] = <<i1, k>>
            BY <1>4
        <3>2. PICK i2 \in DOMAIN Tail(q) : \E k \in 1..Tail(q)[i2][3] :
                    m2 = <<i2 + 1, k>> /\ move[m2] = <<i2, k>>
            BY <1>4
        <3> HIDE DEF move
        <3> QED BY <2>2, <3>1, <3>2
    <2>3. move \in [others -> Said(Tail(q), s)] BY <2>1
    <2> HIDE DEF move
    <2> QED BY <2>2, <2>3 DEF Injection, IsInjective
<1> HIDE DEF move
<1>6. IsFiniteSet(Said(Tail(q), s)) /\ IsFiniteSet(Said(q, s))
      /\ Events!Announced(q, s) \in Nat /\ Events!Announced(Tail(q), s) \in Nat
    BY <1>1, SaidIsFinite
<1>7. Cardinality(others) <= Events!Announced(Tail(q), s)
      /\ IsFiniteSet(others) /\ Cardinality(others) \in Nat
    BY <1>5, <1>6, SaidOf, FS_Injection, FS_CardinalityType
<1> HIDE DEF n, first
<1>8. Cardinality(others) = Events!Announced(q, s) - Cardinality(Said(q, s) \cap first)
    BY <1>6, SaidOf, FS_Difference
<1>9. Cardinality(Said(q, s) \cap first) <= n /\ Cardinality(Said(q, s) \cap first) \in Nat
    BY <1>3, FS_Subset, FS_CardinalityType
<1>10. Events!Announced(q, s) <= Events!Announced(Tail(q), s) + n BY <1>2, <1>6, <1>7, <1>8, <1>9
<1> QED BY <1>2, <1>10 DEF n

-----------------------------------------------------------------------------
(* A queue that is left alone, or gets an event at its end.                  *)
LEMMA Appended ==
    ASSUME Events!EventsAssumption, QInv, NEW e \in QueueEvents,
           queue' = queue \/ queue' = Append(queue, e)
    PROVE  /\ queue' \in Seq(QueueEvents)
           /\ Events!UpdateQueued => Events!UpdateQueued'
           /\ \A s : Events!Announced(queue, s) <= Events!Announced(queue', s)
               /\ Events!Announced(queue, s) \in Nat
               /\ Events!Announced(queue', s) \in Nat
           /\ queue' = Append(queue, e) /\ e[1] = "update" => Events!UpdateQueued'
<1>1. queue \in Seq(QueueEvents) BY DEF QInv, QueueTypeOK
<1>2. /\ queue' \in Seq(QueueEvents)
      /\ \A i \in DOMAIN queue : i \in DOMAIN queue' /\ queue'[i] = queue[i]
    BY <1>1, AppendElements
<1>3. Events!UpdateQueued => Events!UpdateQueued' BY <1>2 DEF Events!UpdateQueued
<1>4. \A s : Events!Announced(queue, s) <= Events!Announced(queue', s) BY <1>1, <1>2, AnnouncedStays
<1>5. queue' = Append(queue, e) /\ e[1] = "update" => Events!UpdateQueued'
    BY <1>1, AppendElements DEF Events!UpdateQueued
<1> QED BY <1>1, <1>2, <1>3, <1>4, <1>5, SaidIsFinite

(* Steps that neither touch messages nor the sets, and leave the spinner where *)
(* it is or between places where nothing is decided about them.              *)
Plain == {"out", "run", "restart", "leave", "task"}
LEMMA ElsewhereQInv ==
    ASSUME Events!EventsAssumption, QInv, NEW e \in QueueEvents, queue' = queue \/ queue' = Append(queue, e),
           UNCHANGED <<entities, added, unwoken, tracked, wakePending, collected, messages, unread, lost>>,
           (queuePc' = queuePc /\ queueEvent' = queueEvent) \/ (queuePc \in Plain /\ queuePc' \in Plain),
           requests' = requests \/ Events!Request
    PROVE  QInv'
<1> USE DEF QInv
<1>1. /\ queue' \in Seq(QueueEvents)
      /\ Events!UpdateQueued => Events!UpdateQueued'
      /\ \A s : Events!Announced(queue, s) <= Events!Announced(queue', s)
               /\ Events!Announced(queue, s) \in Nat
               /\ Events!Announced(queue', s) \in Nat
    BY Appended
<1>2. requests' \in 0..MaxRequests /\ requests <= requests'
    BY DEF Events!Request, QueueTypeOK, Events!EventsAssumption
<1>3. QueueTypeOK'
    BY <1>1, <1>2 DEF QueueTypeOK, Plain
<1>4. WakeIsSeen' /\ CollectedIsCurrent' /\ SetWillFollow'
    BY <1>1 DEF WakeIsSeen, CollectedIsCurrent, SetWillFollow, Events!Wanted, Plain
<1>5. \A s : Events!InHand(s)' = Events!InHand(s) BY DEF Events!InHand, Plain
<1>6. ASSUME NEW s \in Subscriptions \ lost' PROVE Accounted(s)'
    <2>1. Accounted(s) BY DEF MessagesAccounted
    <2>2. Events!InHand(s) \in Nat BY DEF Events!InHand, QueueTypeOK, ReadyEvents
    <2>3. messages[s] \in Nat /\ unread[s] \in Nat BY DEF QueueTypeOK
    <2> QED BY <1>1, <1>5, <2>1, <2>2, <2>3 DEF Accounted
<1>7. TrackedAreRead' BY DEF TrackedAreRead
<1> QED BY <1>3, <1>4, <1>6, <1>7 DEF MessagesAccounted

LEMMA HandTypes == ASSUME QInv, NEW s \in Subscriptions
                   PROVE  Events!InHand(s) \in Nat /\ messages[s] \in Nat /\ unread[s] \in Nat
<1>1. Events!InHand(s) \in Nat BY DEF Events!InHand, QInv, QueueTypeOK, ReadyEvents
<1> QED BY <1>1 DEF QInv, QueueTypeOK

(* The accounts are kept by what announces no less, for the same messages.   *)
LEMMA AccountsKept ==
    ASSUME Events!EventsAssumption, QInv, QueueTypeOK', UNCHANGED <<messages, unread>>, lost \subseteq lost',
           \A s \in Subscriptions \ lost' :
               Events!Announced(queue, s) + Events!InHand(s) <= Events!Announced(queue', s) + Events!InHand(s)'
    PROVE  MessagesAccounted'
<1> SUFFICES ASSUME NEW s \in Subscriptions \ lost' PROVE Accounted(s)'
    BY DEF MessagesAccounted
<1>1. Accounted(s) BY DEF MessagesAccounted, QInv
<1>2. messages[s] \in Nat /\ unread[s] \in Nat /\ Events!InHand(s) \in Nat BY HandTypes
<1>3. Events!InHand(s)' \in Nat BY DEF Events!InHand, QueueTypeOK, ReadyEvents
<1>4. Events!Announced(queue, s) \in Nat /\ Events!Announced(queue', s) \in Nat
    BY SaidIsFinite DEF QInv, QueueTypeOK
<1> QED BY <1>1, <1>2, <1>3, <1>4 DEF Accounted

LEMMA TakeEventQInv == ASSUME Events!EventsAssumption, QInv, Events!TakeEvent PROVE QInv'
<1> USE DEF QInv
<1>1. /\ queuePc = "run" /\ queue # <<>> /\ queueEvent' = Head(queue) /\ queue' = Tail(queue)
      /\ UNCHANGED <<entities, added, unwoken, tracked, wakePending, collected, messages, unread,
                     lost, requests>>
    BY DEF Events!TakeEvent, Events!node, Events!update, Events!middleware, Events!rest
<1>2. queuePc' = IF Head(queue)[1] = "update" THEN "ok" ELSE IF Head(queue)[1] = "ready" THEN "take" ELSE "task"
    BY DEF Events!TakeEvent
<1>3. queue \in Seq(QueueEvents) BY DEF QueueTypeOK
<1>4. /\ Head(queue) \in QueueEvents /\ Tail(queue) \in Seq(QueueEvents)
      /\ \A i \in DOMAIN queue : i = 1 \/ (i - 1 \in DOMAIN Tail(queue) /\ queue[i] = Tail(queue)[i - 1])
      /\ Head(queue) = queue[1]
    BY <1>1, <1>3, TailElements
<1>5. QueueTypeOK' BY <1>1, <1>2, <1>4, QueueEventFacts DEF QueueTypeOK
<1>6. Events!UpdateQueued => Events!UpdateQueued' \/ queuePc' = "ok"
    BY <1>1, <1>2, <1>4 DEF Events!UpdateQueued
<1>7. WakeIsSeen' /\ CollectedIsCurrent' /\ SetWillFollow'
    BY <1>1, <1>2, <1>6 DEF WakeIsSeen, CollectedIsCurrent, SetWillFollow, Events!Wanted
<1>8. ASSUME NEW s \in Subscriptions
      PROVE  Events!Announced(queue, s) + Events!InHand(s) <= Events!Announced(queue', s) + Events!InHand(s)'
    <2> DEFINE n == IF Head(queue)[1] = "ready" /\ Head(queue)[2] = s THEN Head(queue)[3] ELSE 0
    <2>1. n \in Nat /\ Events!Announced(queue, s) <= Events!Announced(Tail(queue), s) + n
        BY <1>1, <1>3, AnnouncedAfterHead
    <2>2. Events!InHand(s) = 0 BY <1>1 DEF Events!InHand
    <2>3. Events!InHand(s)' = n BY <1>1, <1>2 DEF Events!InHand
    <2>4. Events!Announced(queue, s) \in Nat /\ Events!Announced(queue', s) \in Nat
        BY <1>1, <1>3, <1>4, SaidIsFinite
    <2> HIDE DEF n
    <2> QED BY <1>1, <2>1, <2>2, <2>3, <2>4
<1>9. MessagesAccounted' BY <1>1, <1>5, <1>8, AccountsKept
<1>10. TrackedAreRead' BY <1>1 DEF TrackedAreRead
<1> QED BY <1>5, <1>7, <1>9, <1>10

(* An update, up to the comparison of the sets.                              *)
LEMMA UpdateQInv ==
    ASSUME Events!EventsAssumption, QInv, Events!ReadOk \/ Events!Clear \/ Events!Collect
    PROVE  QInv'
<1> USE DEF QInv
<1>1. UNCHANGED <<entities, unwoken, tracked, queue, messages, unread, lost, requests>>
    BY DEF Events!ReadOk, Events!Clear, Events!Collect, Events!node, Events!middleware, Events!rest
<1>2. queuePc \in {"ok", "clear", "collect"} /\ queuePc' \in {"clear", "collect", "apply"}
           /\ (queuePc' = "clear" => queuePc = "ok" /\ wakePending' = wakePending)
           /\ (queuePc' = "collect" => ~wakePending')
           /\ (queuePc' = "apply" => queuePc = "collect" /\ wakePending' = wakePending)
           /\ (queuePc' # "apply" => added' = added /\ collected' = collected)
    BY DEF Events!ReadOk, Events!Clear, Events!Collect, Events!node, Events!update
<1>3. queuePc' = "apply" => collected' = Events!Wanted' /\ (collected' = {} \/ collected' = entities)
    BY DEF Events!ReadOk, Events!Clear, Events!Collect, Events!Wanted
<1>4. QueueTypeOK' BY <1>1, <1>2, <1>3 DEF QueueTypeOK
<1>5. WakeIsSeen' /\ CollectedIsCurrent' /\ SetWillFollow'
    BY <1>1, <1>2, <1>3 DEF WakeIsSeen, CollectedIsCurrent, SetWillFollow, Events!Wanted, Events!UpdateQueued
<1>6. \A s : Events!InHand(s)' = Events!InHand(s) BY <1>2 DEF Events!InHand
<1>7. MessagesAccounted' BY <1>1, <1>6 DEF MessagesAccounted, Accounted
<1>8. TrackedAreRead' BY <1>1 DEF TrackedAreRead
<1> QED BY <1>4, <1>5, <1>7, <1>8

LEMMA ApplyQInv == ASSUME Events!EventsAssumption, QInv, Events!Apply PROVE QInv'
<1> USE DEF QInv
<1> DEFINE new == collected \ tracked
           told == {s \in new : unread[s] > 0}
<1>1. /\ queuePc = "apply" /\ queuePc' = "run" /\ tracked' = collected
      /\ UNCHANGED <<entities, added, unwoken, wakePending, collected, messages, lost, requests>>
      /\ unread' = [s \in Subscriptions |-> IF s \in new THEN 0 ELSE unread[s]]
    BY DEF Events!Apply, Events!Register, Events!node, Events!update, Events!rest
<1>2. PICK order \in Events!SetToSeqs(told) : queue' = queue \o
            [i \in DOMAIN order |-> <<"ready", order[i], unread[order[i]]>>]
    BY DEF Events!Apply, Events!Register
<1> DEFINE r == [i \in DOMAIN order |-> <<"ready", order[i], unread[order[i]]>>]
<1>3. told \subseteq Subscriptions BY DEF QueueTypeOK
<1>4. IsFiniteSet(told) BY <1>3, FS_Subset, SameFiniteSets DEF Events!EventsAssumption
<1>5. queue \in Seq(QueueEvents) /\ unread \in [Subscriptions -> 0..requests] /\ requests \in 0..MaxRequests
    BY DEF QueueTypeOK
<1>6. \A s \in told : unread[s] \in 1..MaxRequests BY <1>3, <1>5 DEF Events!EventsAssumption
<1> HIDE DEF told
<1>7. order \in Seq(told) /\ \A s \in told : \E i \in DOMAIN order : order[i] = s
    BY <1>2, <1>4, OrderIsComplete
<1>8. r \in Seq(QueueEvents) /\ DOMAIN r = DOMAIN order
    <2>1. Len(order) \in Nat /\ DOMAIN order = 1..Len(order) /\ order \in [1..Len(order) -> told]
        BY <1>7, LenProperties
    <2>2. \A i \in 1..Len(order) : <<"ready", order[i], unread[order[i]]>> \in QueueEvents
        BY <2>1, <1>3, <1>6, QueueEventsAre, ReadyEventFacts
    <2>3. r \in [1..Len(order) -> QueueEvents] BY <2>1, <2>2
    <2> QED BY <2>1, <2>3, SeqDef
<1> HIDE DEF r
<1>9. queue' = queue \o r BY <1>2 DEF r
<1>10. /\ queue' \in Seq(QueueEvents)
       /\ \A i \in DOMAIN queue : i \in DOMAIN queue' /\ queue'[i] = queue[i]
       /\ \A i \in DOMAIN r : \E j \in DOMAIN queue' : j \notin DOMAIN queue /\ queue'[j] = r[i]
    <2> DEFINE c == queue \o r
    <2>1. /\ c \in Seq(QueueEvents)
          /\ \A i \in DOMAIN queue : i \in DOMAIN c /\ c[i] = queue[i]
          /\ \A i \in DOMAIN r : \E j \in DOMAIN c : j \notin DOMAIN queue /\ c[j] = r[i]
        BY <1>5, <1>8, ConcatElements
    <2>2. queue' = c BY <1>9
    <2> HIDE DEF c
    <2> QED BY <2>1, <2>2
<1>11. Events!UpdateQueued => Events!UpdateQueued' BY <1>10 DEF Events!UpdateQueued
<1>12. \A s \in Subscriptions : unread'[s] \in 0..requests BY <1>1, <1>5
<1>13. QueueTypeOK' BY <1>1, <1>10, <1>12 DEF QueueTypeOK
<1>14. WakeIsSeen' /\ CollectedIsCurrent' /\ SetWillFollow'
    BY <1>1, <1>11 DEF WakeIsSeen, CollectedIsCurrent, SetWillFollow, Events!Wanted
<1>15. ASSUME NEW s \in Subscriptions \ lost' PROVE Accounted(s)'
    <2>1. Accounted(s) BY <1>1 DEF MessagesAccounted
    <2>2. messages[s] \in Nat /\ unread[s] \in Nat /\ Events!InHand(s) = 0 /\ Events!InHand(s)' = 0
        BY <1>1, HandTypes DEF Events!InHand
    <2>3. Events!Announced(queue, s) \in Nat /\ Events!Announced(queue', s) \in Nat
        BY <1>5, <1>10, SaidIsFinite
    <2>4. CASE s \in told
        <3>1. PICK i \in DOMAIN order : order[i] = s BY <2>4, <1>7
        <3>2. i \in DOMAIN r /\ r[i] = <<"ready", s, unread[s]>> BY <3>1, <1>8 DEF r
        <3>3. PICK j \in DOMAIN queue' : j \notin DOMAIN queue /\ queue'[j] = <<"ready", s, unread[s]>>
            BY <3>2, <1>10
        <3>4. Events!Announced(queue, s) + unread[s] <= Events!Announced(queue', s)
            BY <3>3, <2>2, <1>5, <1>10, AnnouncedGrows
        <3>5. unread'[s] = 0 BY <2>4, <1>1 DEF told
        <3> QED BY <3>4, <3>5, <2>1, <2>2, <2>3, <1>1 DEF Accounted
    <2>5. CASE s \notin told
        <3>1. Events!Announced(queue, s) <= Events!Announced(queue', s) BY <1>5, <1>10, AnnouncedStays
        <3>2. unread'[s] = unread[s] BY <2>5, <2>2, <1>1 DEF told
        <3> QED BY <3>1, <3>2, <2>1, <2>2, <2>3, <1>1 DEF Accounted
    <2> QED BY <2>4, <2>5
<1>16. TrackedAreRead' BY <1>1 DEF TrackedAreRead, QueueTypeOK
<1> QED BY <1>13, <1>14, <1>15, <1>16 DEF MessagesAccounted

(* An event in hand: nothing else of the queue is touched before its end.    *)
LEMMA TakenQInv ==
    ASSUME Events!EventsAssumption, QInv, Events!Drop \/ Events!Take \/ Events!CallbackRaises
    PROVE  QInv'
<1> USE DEF QInv
<1>1. /\ queuePc = "take"
      /\ UNCHANGED <<entities, added, unwoken, tracked, wakePending, collected, unread, requests>>
      /\ (queue' = queue \/ queue' = Append(queue, <<"task">>))
      /\ queuePc' \in {"run", "take", "out"}
    BY DEF Events!Drop, Events!Take, Events!CallbackRaises, Events!Taken, Events!Rest, Events!node,
       Events!update, Events!middleware, Events!rest
<1>2. /\ queueEvent \in ReadyEvents /\ queueEvent[1] = "ready"
      /\ queueEvent[2] \in Subscriptions /\ queueEvent[3] \in 1..MaxRequests
    BY <1>1, ReadyEventFacts DEF QueueTypeOK
<1>3. /\ queue' \in Seq(QueueEvents)
      /\ Events!UpdateQueued => Events!UpdateQueued'
      /\ \A s : Events!Announced(queue, s) <= Events!Announced(queue', s)
               /\ Events!Announced(queue, s) \in Nat
               /\ Events!Announced(queue', s) \in Nat
    BY <1>1, Appended, QueueEventsAre
<1>4. queuePc' = "take" => /\ queueEvent' = <<"ready", queueEvent[2], queueEvent[3] - 1>> /\ queueEvent[3] # 1
    BY DEF Events!Drop, Events!Take, Events!CallbackRaises, Events!Rest
<1>5. queuePc' = "take" => queueEvent' \in ReadyEvents
    <2>1. queueEvent[3] # 1 => queueEvent[3] - 1 \in 1..MaxRequests BY <1>2 DEF Events!EventsAssumption
    <2> QED BY <1>2, <1>4, <2>1, QueueEventsAre
<1>6. messages' = messages \/ messages' = [messages EXCEPT ![queueEvent[2]] = IF @ = 0 THEN 0 ELSE @ - 1]
    BY DEF Events!Drop, Events!Take, Events!CallbackRaises, Events!Taken, Events!middleware
<1>7. messages \in [Subscriptions -> Nat] BY DEF QueueTypeOK
<1>8. messages' \in [Subscriptions -> Nat] BY <1>2, <1>6, <1>7
<1>9. QueueTypeOK' BY <1>1, <1>3, <1>5, <1>8 DEF QueueTypeOK
<1>10. WakeIsSeen' /\ CollectedIsCurrent' /\ SetWillFollow'
    BY <1>1, <1>3 DEF WakeIsSeen, CollectedIsCurrent, SetWillFollow, Events!Wanted
<1>11. ASSUME NEW s \in Subscriptions \ lost' PROVE Accounted(s)'
    <2>0. lost \subseteq lost' BY DEF Events!Drop, Events!Take, Events!CallbackRaises, Events!rest
    <2>1. Accounted(s) BY <2>0 DEF MessagesAccounted
    <2>2. messages[s] \in Nat /\ unread[s] \in Nat /\ Events!InHand(s) \in Nat BY HandTypes
    <2>3. CASE s # queueEvent[2]
        <3>1. Events!InHand(s) = 0 /\ Events!InHand(s)' = 0 BY <2>3, <1>1, <1>4 DEF Events!InHand
        <3>2. messages'[s] = messages[s] BY <2>3, <1>6, <1>7
        <3> QED BY <3>1, <3>2, <2>1, <2>2, <1>1, <1>3 DEF Accounted
    <2>4. CASE s = queueEvent[2]
        <3>1. ~Events!Drop BY <2>4 DEF Events!Drop
        <3>2. messages' = [messages EXCEPT ![s] = IF @ = 0 THEN 0 ELSE @ - 1]
            BY <2>4, <3>1 DEF Events!Take, Events!CallbackRaises, Events!Taken
        <3>3. messages'[s] = IF messages[s] = 0 THEN 0 ELSE messages[s] - 1 BY <3>2, <1>7
        <3>4. Events!InHand(s) = queueEvent[3] BY <2>4, <1>1 DEF Events!InHand
        <3>5. Events!InHand(s)' = queueEvent[3] - 1
            <4>1. CASE queuePc' = "take"
                <5>1. queueEvent'[2] = s /\ queueEvent'[3] = queueEvent[3] - 1 BY <4>1, <1>4, <2>4
                <5> QED BY <4>1, <5>1 DEF Events!InHand
            <4>2. CASE queuePc' # "take"
                <5>1. queueEvent[3] = 1
                    BY <4>2, <3>1, <2>4, <1>2 DEF Events!Take, Events!CallbackRaises, Events!Rest
                <5> QED BY <4>2, <5>1 DEF Events!InHand
            <4> QED BY <4>1, <4>2
        <3> QED BY <3>3, <3>4, <3>5, <2>1, <2>2, <1>1, <1>2, <1>3 DEF Accounted
    <2> QED BY <2>3, <2>4
<1>12. TrackedAreRead' BY <1>1 DEF TrackedAreRead
<1> QED BY <1>9, <1>10, <1>11, <1>12 DEF MessagesAccounted

-----------------------------------------------------------------------------
(* What the other threads do.                                                *)
LEMMA ChangeQInv == ASSUME Events!EventsAssumption, QInv, Events!Change PROVE QInv'
<1> USE DEF QInv
<1>1. /\ unwoken' = TRUE /\ requests' = requests + 1 /\ requests' \in 0..MaxRequests
      /\ UNCHANGED <<tracked, wakePending, queue, collected, messages, unread, queuePc, queueEvent, lost>>
      /\ entities' \subseteq Subscriptions
    BY DEF Events!Change, Events!Request, Events!update, Events!middleware, QueueTypeOK,
       Events!EventsAssumption
<1>2. \A s : Events!InHand(s)' = Events!InHand(s) BY <1>1 DEF Events!InHand
<1>3. QueueTypeOK' BY <1>1 DEF QueueTypeOK
<1>4. WakeIsSeen' /\ CollectedIsCurrent' /\ SetWillFollow'
    BY <1>1 DEF WakeIsSeen, CollectedIsCurrent, SetWillFollow, Events!UpdateQueued
<1>5. MessagesAccounted' /\ TrackedAreRead' BY <1>1, <1>2 DEF MessagesAccounted, Accounted, TrackedAreRead
<1> QED BY <1>3, <1>4, <1>5

LEMMA WakeQInv ==
    ASSUME Events!EventsAssumption, QInv, Events!Wake, ~unwoken' \/ unwoken' = unwoken,
           UNCHANGED <<entities, added, tracked, collected, messages, unread, queuePc, queueEvent,
                       lost, requests>>
    PROVE  QInv'
<1> USE DEF QInv
<1>1. /\ wakePending' = TRUE
      /\ (queue' = queue \/ queue' = Append(queue, <<"update">>))
      /\ ~wakePending => queue' = Append(queue, <<"update">>)
    BY DEF Events!Wake
<1>2. /\ queue' \in Seq(QueueEvents)
      /\ Events!UpdateQueued => Events!UpdateQueued'
      /\ \A s : Events!Announced(queue, s) <= Events!Announced(queue', s)
               /\ Events!Announced(queue, s) \in Nat
               /\ Events!Announced(queue', s) \in Nat
      /\ queue' = Append(queue, <<"update">>) => Events!UpdateQueued'
    BY <1>1, Appended, QueueEventsAre
<1>3. Events!UpdateQueued' \/ queuePc' \in {"ok", "clear"}
    BY <1>1, <1>2 DEF WakeIsSeen
<1>4. \A s : Events!InHand(s)' = Events!InHand(s) BY DEF Events!InHand
<1>5. QueueTypeOK' BY <1>2 DEF QueueTypeOK
<1>6. WakeIsSeen' /\ CollectedIsCurrent' /\ SetWillFollow'
    BY <1>3 DEF WakeIsSeen, CollectedIsCurrent, SetWillFollow
<1>7. \A s \in Subscriptions : Events!InHand(s) \in Nat BY HandTypes
<1>8. MessagesAccounted' BY <1>2, <1>4, <1>5, <1>7, AccountsKept
<1>9. TrackedAreRead' BY DEF TrackedAreRead
<1> QED BY <1>5, <1>6, <1>8, <1>9

LEMMA DeliverQInv ==
    ASSUME Events!EventsAssumption, QInv, NEW s \in Subscriptions, Events!Deliver(s)
    PROVE  QInv'
<1> USE DEF QInv
<1>1. /\ requests' = requests + 1 /\ requests' \in 1..MaxRequests
      /\ UNCHANGED <<entities, added, unwoken, tracked, wakePending, collected, queuePc, queueEvent, lost>>
      /\ messages' = [messages EXCEPT ![s] = @ + 1]
      /\ s \in tracked => queue' = Append(queue, <<"ready", s, 1>>) /\ unread' = unread
      /\ s \notin tracked => unread' = [unread EXCEPT ![s] = @ + 1] /\ queue' = queue
    BY DEF Events!Deliver, Events!Request, Events!node, Events!update, QueueTypeOK, Events!EventsAssumption
<1> DEFINE e == <<"ready", s, 1>>
<1>2. 1 \in 1..MaxRequests /\ e \in QueueEvents
    <2>1. 1 \in 1..MaxRequests BY <1>1 DEF Events!EventsAssumption
    <2> QED BY <2>1, QueueEventsAre, ReadyEventFacts
<1>3. /\ queue' \in Seq(QueueEvents)
      /\ Events!UpdateQueued => Events!UpdateQueued'
      /\ \A k : Events!Announced(queue, k) <= Events!Announced(queue', k) /\ Events!Announced(queue, k) \in Nat
                       /\ Events!Announced(queue', k) \in Nat
    BY <1>1, <1>2, Appended
<1>4. /\ messages \in [Subscriptions -> Nat] /\ unread \in [Subscriptions -> 0..requests] /\ requests \in Nat
      /\ queue \in Seq(QueueEvents)
    BY DEF QueueTypeOK
<1>5. messages' \in [Subscriptions -> Nat] BY <1>1, <1>4
<1>6. unread' \in [Subscriptions -> 0..requests']
    <2>1. \A k \in Subscriptions : unread[k] \in 0..requests /\ unread[k] \in 0..(requests + 1)
                                   /\ unread[k] + 1 \in 0..(requests + 1)
        BY <1>4
    <2> QED BY <2>1, <1>1, <1>4
<1>7. QueueTypeOK' BY <1>1, <1>3, <1>5, <1>6 DEF QueueTypeOK
<1>8. WakeIsSeen' /\ CollectedIsCurrent' /\ SetWillFollow'
    BY <1>1, <1>3 DEF WakeIsSeen, CollectedIsCurrent, SetWillFollow, Events!Wanted
<1>9. ASSUME NEW k \in Subscriptions \ lost' PROVE Accounted(k)'
    <2>1. Accounted(k) BY <1>1 DEF MessagesAccounted
    <2>2. /\ messages[k] \in Nat /\ unread[k] \in Nat /\ Events!InHand(k) \in Nat
          /\ Events!InHand(k)' = Events!InHand(k)
        BY <1>1, HandTypes DEF Events!InHand
    <2>3. CASE k # s
        <3>1. messages'[k] = messages[k] /\ unread'[k] = unread[k] BY <2>3, <1>1, <1>4
        <3> QED BY <3>1, <2>1, <2>2, <1>3 DEF Accounted
    <2>4. CASE k = s /\ s \in tracked
        <3>1. messages'[k] = messages[k] + 1 /\ unread'[k] = unread[k] BY <2>4, <1>1, <1>4
        <3>2. /\ \A i \in DOMAIN queue : i \in DOMAIN queue' /\ queue'[i] = queue[i]
              /\ Len(queue) + 1 \in DOMAIN queue' \ DOMAIN queue /\ queue'[Len(queue) + 1] = <<"ready", k, 1>>
            <4>1. queue' = Append(queue, e) BY <2>4, <1>1
            <4> HIDE DEF e
            <4>2. /\ \A i \in DOMAIN queue : i \in DOMAIN queue' /\ queue'[i] = queue[i]
                  /\ Len(queue) + 1 \in DOMAIN queue' /\ Len(queue) + 1 \notin DOMAIN queue
                  /\ queue'[Len(queue) + 1] = e
                BY <4>1, <1>2, <1>4, AppendElements
            <4> QED BY <4>2, <2>4 DEF e
        <3>3. Events!Announced(queue, k) + 1 <= Events!Announced(queue', k)
            BY <3>2, <1>3, <1>4, AnnouncedGrows
        <3> QED BY <3>1, <3>3, <2>1, <2>2, <1>3 DEF Accounted
    <2>5. CASE k = s /\ s \notin tracked
        <3>1. messages'[k] = messages[k] + 1 /\ unread'[k] = unread[k] + 1 BY <2>5, <1>1, <1>4
        <3> QED BY <3>1, <2>1, <2>2, <1>3 DEF Accounted
    <2> QED BY <2>3, <2>4, <2>5
<1>10. TrackedAreRead' BY <1>1, <1>4 DEF TrackedAreRead, QueueTypeOK
<1> QED BY <1>7, <1>8, <1>9, <1>10 DEF MessagesAccounted

LEMMA TearDownQInv == ASSUME Events!EventsAssumption, QInv, Events!TearDown PROVE QInv'
<1> USE DEF QInv
<1>1. /\ added' = FALSE /\ tracked' = {} /\ wakePending' = FALSE
      /\ (queue' = queue \/ queue' = Append(queue, <<"update">>))
      /\ added /\ ~wakePending => queue' = Append(queue, <<"update">>)
      /\ UNCHANGED <<entities, unwoken, collected, messages, unread, queuePc, queueEvent, lost, requests>>
    BY DEF Events!TearDown, Events!update, Events!middleware
<1>2. /\ queue' \in Seq(QueueEvents)
      /\ Events!UpdateQueued => Events!UpdateQueued'
      /\ \A s : Events!Announced(queue, s) <= Events!Announced(queue', s)
               /\ Events!Announced(queue, s) \in Nat
               /\ Events!Announced(queue', s) \in Nat
      /\ queue' = Append(queue, <<"update">>) => Events!UpdateQueued'
    BY <1>1, Appended, QueueEventsAre
<1>3. QueueTypeOK' BY <1>1, <1>2 DEF QueueTypeOK
<1>4. WakeIsSeen' /\ SetWillFollow' BY <1>1 DEF WakeIsSeen, SetWillFollow, Events!Wanted
<1>5. CollectedIsCurrent'
    BY <1>1, <1>2 DEF CollectedIsCurrent, WakeIsSeen, Events!Wanted
<1>6. \A s \in Subscriptions : Events!InHand(s)' = Events!InHand(s) /\ Events!InHand(s) \in Nat
    BY <1>1, HandTypes DEF Events!InHand
<1>7. MessagesAccounted' BY <1>1, <1>2, <1>3, <1>6, AccountsKept
<1>8. TrackedAreRead' BY <1>1 DEF TrackedAreRead
<1> QED BY <1>3, <1>4, <1>5, <1>7, <1>8

-----------------------------------------------------------------------------
LEMMA InitQInv == ASSUME Events!EventsAssumption, Events!Init PROVE QInv
<1>1. <<<<"update">>>> \in Seq(QueueEvents) /\ <<>> \in Seq(QueueEvents) BY QueueEventsAre
<1>2. QueueTypeOK BY <1>1 DEF Events!Init, QueueTypeOK, Events!EventsAssumption
<1>3. added => Events!UpdateQueued BY DEF Events!Init, Events!UpdateQueued
<1>4. WakeIsSeen /\ CollectedIsCurrent /\ SetWillFollow
    BY <1>3 DEF Events!Init, WakeIsSeen, CollectedIsCurrent, SetWillFollow, Events!Wanted
<1>5. ASSUME NEW s \in Subscriptions PROVE Accounted(s)
    <2>1. Events!Announced(queue, s) \in Nat BY <1>2, SaidIsFinite DEF QueueTypeOK
    <2>2. Events!InHand(s) = 0 /\ messages[s] = 0 /\ unread[s] = 0 BY DEF Events!Init, Events!InHand
    <2> QED BY <2>1, <2>2 DEF Accounted
<1>6. TrackedAreRead BY DEF Events!Init, TrackedAreRead
<1> QED BY <1>2, <1>4, <1>5, <1>6 DEF QInv, MessagesAccounted

(* Steps that leave nodes, messages and the set alone.                       *)
LEMMA AsideQInv ==
    ASSUME Events!EventsAssumption, QInv,
           \/ \E o, t, u \in BOOLEAN : Events!Call(o, t, u)
           \/ Events!RunReturns \/ Events!Restart \/ Events!Leave \/ Events!Iterate
           \/ Events!ContextDown \/ Events!SignalStops \/ Events!SetResult
           \/ Events!ShutdownStops \/ Events!ShutdownLocks
    PROVE  QInv'
<1> USE DEF Events!Call, Events!RunReturns, Events!Restart, Events!Leave, Events!Iterate,
           Events!ContextDown, Events!SignalStops, Events!SetResult,
                   Events!ShutdownStops, Events!ShutdownLocks
<1>1. queue' = queue \/ queue' = Append(queue, <<"stop">>)
    OBVIOUS
<1>2. UNCHANGED <<entities, added, unwoken, tracked, wakePending, collected, messages, unread, lost>>
    BY DEF Events!node, Events!update, Events!middleware, Events!rest
<1>3. (queuePc' = queuePc /\ queueEvent' = queueEvent) \/ (queuePc \in Plain /\ queuePc' \in Plain)
    BY DEF Plain
<1>4. requests' = requests \/ Events!Request
    BY DEF Events!rest
<1> QED BY <1>1, <1>2, <1>3, <1>4, ElsewhereQInv, QueueEventsAre

LEMMA StepQInv == ASSUME Events!EventsAssumption, QInv, [Events!Next]_(Events!vars) PROVE QInv'
<1>1. CASE \E o, t, u \in BOOLEAN : Events!Call(o, t, u) BY <1>1, AsideQInv
<1>2. CASE Events!Spin BY <1>2, AsideQInv, TakeEventQInv, UpdateQInv, ApplyQInv, TakenQInv DEF Events!Spin
<1>3. CASE Events!Others
    <2>1. CASE Events!ChangeWakes
        <3>1. Events!Wake /\ ~unwoken'
                     /\ UNCHANGED <<entities, added, tracked, collected, messages, unread, queuePc, queueEvent,
                                    lost, requests>>
            BY <2>1 DEF Events!ChangeWakes, Events!update, Events!middleware, Events!rest
        <3> QED BY <3>1, WakeQInv
    <2>2. CASE Events!ContextWakes
        <3>1. Events!Wake /\ unwoken' = unwoken
                     /\ UNCHANGED <<entities, added, tracked, collected, messages, unread, queuePc, queueEvent,
                                    lost, requests>>
            BY <2>2 DEF Events!ContextWakes, Events!node, Events!update, Events!middleware
        <3> QED BY <3>1, WakeQInv
    <2>3. CASE \E s \in Subscriptions : Events!Deliver(s) BY <2>3, DeliverQInv
    <2> QED BY <1>3, <2>1, <2>2, <2>3, AsideQInv, ChangeQInv, TearDownQInv DEF Events!Others
<1>4. CASE UNCHANGED Events!vars
    <2>1. /\ queue' = queue /\ queuePc' = queuePc /\ queueEvent' = queueEvent /\ requests' = requests
          /\ UNCHANGED <<entities, added, unwoken, tracked, wakePending, collected, messages, unread, lost>>
        BY <1>4 DEF Events!vars, Events!node, Events!update, Events!middleware, Events!rest
    <2> QED BY <2>1, ElsewhereQInv, QueueEventsAre
<1> QED BY <1>1, <1>2, <1>3, <1>4 DEF Events!Next

(* The inductive invariant of the EventsExecutor holds in every reachable    *)
(* state.                                                                    *)
THEOREM QueueInvariance == Events!Spec => []QInv
<1>1. Events!Init => QInv
    BY InitQInv, QueueAssumption
<1>2. QInv /\ [Events!Next]_(Events!vars) => QInv'
    BY StepQInv, QueueAssumption
<1> QED BY <1>1, <1>2, PTL DEF Events!Spec

(* Nothing put in front of an EventsExecutor is overlooked: a change of the  *)
(* nodes will be seen by an update, and a message of a subscription that is  *)
(* in the set is announced in the queue or in hand, unless an event of it was*)
(* dropped or given up (events_executor.cpp:109-155, 209-360,                *)
(* events_queue.cpp:23-69).                                                  *)
THEOREM NothingEscapes == Events!Spec => []NothingIsOverlooked
<1>1. QInv => NothingIsOverlooked
    <2> SUFFICES ASSUME QInv, NEW s \in tracked \ lost
                 PROVE  messages[s] <= Events!Announced(queue, s) + Events!InHand(s)
        BY DEF QInv, SetWillFollow, NothingIsOverlooked, Events!NothingIsOverlooked
    <2>1. s \in Subscriptions /\ unread[s] = 0 /\ Accounted(s)
        BY DEF QInv, QueueTypeOK, TrackedAreRead, MessagesAccounted
    <2>2. Events!InHand(s) \in Nat BY <2>1, HandTypes
    <2>3. Events!Announced(queue, s) \in Nat
        BY QueueAssumption, SaidIsFinite DEF QInv, QueueTypeOK
    <2> QED BY <2>1, <2>2, <2>3 DEF Accounted
<1> QED BY <1>1, QueueInvariance, PTL
=============================================================================
